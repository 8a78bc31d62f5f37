------------------------------- MODULE AklLib -------------------------------
(***************************************************************************)
(* The library functions of AkLisp that take their arguments and give a    *)
(* value (src/src/lib.c), and what they tell when the arguments are not    *)
(* what they want.  Output is left out; the functions that change a list   *)
(* or a string in place are in AklLists.                                   *)
(***************************************************************************)
EXTENDS AklValues, FiniteSets

CONSTANT
  CompareLists(_, _)    \* the difference of two lists: see AklCompare

-----------------------------------------------------------------------------
(* Arithmetic.                                                             *)

\* the numbers behind the last argument that is none, and those before the first
Others(a)   == {i \in DOMAIN a : a[i][1] # "num"}
NumEnd(a)   == SubSeq(a, Max(Others(a) \cup {0}) + 1, Len(a))
NumStart(a) == SubSeq(a, 1, Min(Others(a) \cup {Len(a) + 1}) - 1)

inc(a) == IF Strict(a, <<"num">>) THEN Gives(<<"num", a[1][2] + Unit>>) ELSE Tells(Nil, "args")
dec(a) == IF Strict(a, <<"num">>) THEN Gives(<<"num", a[1][2] - Unit>>) ELSE Tells(Nil, "args")
iszero(a) == AsStrict(a, <<"num">>, Truth(a = <<Whole(0)>>))

\* from the last argument to the first, until one is not a number
plus(a) == Gives(<<"num", FoldLeft(LAMBDA s, v : s + v[2], 0, NumEnd(a))>>)
mul(a)  == Gives(<<"num", FoldLeft(LAMBDA p, v : Quot(p * v[2], Unit), Unit, NumEnd(a))>>)

minus(a) ==
  IF a = <<>> THEN Gives(Whole(0))
  ELSE IF Others(a) # {} THEN Tells(Whole(0), "type")
  ELSE Gives(<<"num", FoldLeft(LAMBDA s, v : s - v[2], a[1][2], Tail(a))>>)

\* the divisors are the numbers up to the first argument that is none
ddiv(a) ==
  LET ns == NumStart(a)
  IN  IF ns = <<>> THEN Gives(Whole(0))
      ELSE IF Whole(0) \in ToSet(Tail(ns)) THEN Tells(Nil, "zero")
      ELSE Gives(<<"num", FoldLeft(LAMBDA q, v : Quot(q * Unit, v[2]), ns[1][2], Tail(ns))>>)

idiv(a) ==
  LET ns == NumStart(a)
  IN  IF ns = <<>> THEN Gives(Whole(0))
      ELSE IF \E i \in 2 .. Len(ns) : Trunc(ns[i][2]) = 0 THEN Tells(Nil, "zero")
      ELSE Gives(Whole(FoldLeft(LAMBDA q, v : Quot(q, Trunc(v[2])), Trunc(ns[1][2]), Tail(ns))))

\* a remainder by zero stops the processor
mod(a) ==
  IF ~Strict(a, <<"num", "num">>) THEN Tells(Nil, "args")
  ELSE LET x == Trunc(a[1][2])
           y == Trunc(a[2][2])
       IN  IF y = 0 THEN Ends("crash") ELSE Gives(Whole(x - y * Quot(x, y)))

range(a) ==
  IF ~Strict(a, <<"num", "num">>) THEN Tells(Nil, "args")
  ELSE LET f == Trunc(a[1][2])
       IN  Gives(List([i \in 1 .. Trunc(a[2][2]) - f + 1 |-> Whole(f + i - 1)]))

-----------------------------------------------------------------------------
(* Predicates: most look at the last argument only.                        *)

isnil(a)    == Gives(Truth(IsNil(LastOf(a))))
not(a)      == Gives(Truth(IsNil(LastOf(a))))
isstring(a) == Gives(Truth(LastOf(a)[1] = "str"))
islist(a)   == Gives(Truth(LastOf(a)[1] \in {"list", "nil"}))
isnumber(a) == Gives(Truth(LastOf(a)[1] = "num"))
issymbol(a) == Gives(Truth(LastOf(a)[1] = "sym"))
and(a)      == Gives(Truth(Nil \notin ToSet(a)))
or(a)       == Gives(Truth(\E v \in ToSet(a) : ~IsNil(v)))

-----------------------------------------------------------------------------
(* Comparison.                                                             *)

\* the difference of two values; Null if there is none: the assertion that both
\* are values fails
Order(n) == <<"order", n>>

Alphabet == <<" ", "-", ".", "0", "1", "2", "3", "4", "5", "6", "7", "8", "9", "a", "b", "c">>
Rank(c)  == CHOOSE i \in DOMAIN Alphabet : Alphabet[i] = c

\* strcmp
StrCmp(s, t) ==
  LET d == {i \in DOMAIN s \cap DOMAIN t : s[i] # t[i]}
  IN  Order(IF d = {} THEN Len(s) - Len(t) ELSE Rank(s[Min(d)]) - Rank(t[Min(d)]))

\* akl_compare_values: numbers without their fraction; a symbol is its pointer
\* (only its being the same is told here); Lists gives the difference of two lists
CompareBy(x, y, Lists(_, _)) ==
  CASE Null \in {x, y}      -> Null
    [] x # Null /\ y # Null /\ (x[1] # y[1] \/ IsFun(x)) -> Order(-1)
    [] x[1] = "num"  /\ y[1] = "num"  -> Order(Trunc(x[2]) - Trunc(y[2]))
    [] x[1] = "str"  /\ y[1] = "str"  -> StrCmp(x[2], y[2])
    [] x[1] = "sym"  /\ y[1] = "sym"  -> Order(IF x = y THEN 0 ELSE 1)
    [] x[1] = "list" /\ y[1] = "list" -> Lists(x, y)
    [] x[1] \in {"nil", "t"} /\ y = x -> Order(0)

CompareValues(x, y) == CompareBy(x, y, CompareLists)

\* get_and_compare_values, and the test of its result: -2 for a wrong number
\* of arguments
Comparing(a, Test(_)) ==
  IF Len(a) # 2 THEN Tells(Truth(Test(-2)), "args")
  ELSE LET r == CompareValues(a[1], a[2])
       IN  IF r = Null THEN Ends("crash") ELSE Gives(Truth(Test(r[2])))

gt(a)   == Comparing(a, LAMBDA r : r > 0)
gteq(a) == Comparing(a, LAMBDA r : r >= 0)
lt(a)   == Comparing(a, LAMBDA r : r < 0)
lteq(a) == Comparing(a, LAMBDA r : r <= 0)
eq(a)   == Comparing(a, LAMBDA r : r = 0)
neq(a)  == Comparing(a, LAMBDA r : r # 0)

-----------------------------------------------------------------------------
(* Lists and strings.                                                      *)

\* the header akl_cdr makes of a list of one element; of none it makes nothing
Cdr(vs) == IF vs = <<>> THEN Nil ELSE IF Len(vs) = 1 THEN <<"list", <<>>, "nil">>
           ELSE List(Tail(vs))

\* (faulty variant: lists are forgotten)
lengthOfString(a) ==
  IF Len(a) = 1 /\ a[1][1] = "str" THEN Gives(Whole(Len(a[1][2]))) ELSE Tells(Nil, "type")

length(a) ==
  IF Len(a) # 1 THEN Tells(Nil, "args")
  ELSE IF a[1][1] \in {"str", "list"} THEN Gives(Whole(Len(a[1][2]))) ELSE Tells(Nil, "type")

\* the element or letter at i, from the end if i is negative (lists only); NIL
\* for an element that is NULL
ElementAt(v, i) ==
  LET k == IF i >= 0 THEN i + 1 ELSE Len(v[2]) + i + 1
  IN  IF k \notin DOMAIN v[2] THEN Nil
      ELSE IF v[1] = "list" THEN Nuller(v[2][k])
      ELSE IF i < 0 THEN Nil ELSE Str(<<v[2][k]>>)

\* the number comes first, the indexed value is the last argument left
ls_index(a) ==
  LET v == IF Len(a) > 1 THEN Last(a) ELSE Null
  IN  IF FirstOf(a)[1] # "num" THEN Tells(Nil, "args")
      ELSE IF v = Null THEN Tells(Nil, "args")
      ELSE IF v = Cdr(<<Nil>>) THEN Ends("crash")
      ELSE IF v[1] \in {"str", "list"} THEN Gives(ElementAt(v, Trunc(a[1][2]))) ELSE Tells(v, "type")

\* head, last and tail give back what is neither a list nor a string
OfLast(a, Give(_)) ==
  LET v == LastOf(a)
  IN  IF v = Null THEN Tells(Nil, "args")
      ELSE IF v[1] \in {"str", "list"} THEN Gives(Give(v)) ELSE Tells(v, "type")

ls_head(a) == OfLast(a, LAMBDA v : ElementAt(v, 0))
ls_last(a) == OfLast(a, LAMBDA v : ElementAt(v, IF v[1] = "list" THEN -1 ELSE Len(v[2]) - 1))
ls_tail(a) == OfLast(a, LAMBDA v : IF v[1] = "list" THEN Cdr(v[2])
                                   ELSE IF v[2] = <<>> THEN Nil ELSE Str(Tail(v[2])))

\* strtok: the longest runs of letters that delimit nothing
Words(s, delims) ==
  FoldLeft(LAMBDA r, c : IF c \notin delims THEN [r EXCEPT !.word = Append(@, c)]
                         ELSE [words |-> IF r.word = <<>> THEN r.words ELSE Append(r.words, Str(r.word)),
                               word  |-> <<>>],
           [words |-> <<>>, word |-> <<>>],
           Append(s, CHOOSE c \in delims : TRUE)).words

split(a) ==
  LET d == IF Len(a) > 1 THEN a[2] ELSE Str(<<" ">>)
  IN  IF FirstOf(a)[1] # "str" THEN Tells(Nil, "type")
      ELSE IF d[1] = "str" THEN Gives(List(Words(a[1][2], ToSet(d[2]))))
      ELSE Tells(List(Words(a[1][2], {" "})), "warning")

list(a)  == Gives(List(a))
progn(a) == Gives(LastOf(a))

-----------------------------------------------------------------------------
(* Conversions.                                                            *)

Digits == SubSeq(Alphabet, 4, 13)

\* printf of %g, for the multiples of one half below 100
Spell(n) ==
  LET m == IF n < 0 THEN -n ELSE n
      w == m \div Unit
  IN  (IF n < 0 THEN <<"-">> ELSE <<>>) \o (IF w > 9 THEN <<Digits[w \div 10 + 1]>> ELSE <<>>)
      \o <<Digits[(w % 10) + 1]>> \o (IF m % Unit = 0 THEN <<>> ELSE <<".", "5">>)

Spelled == {i * (Unit \div 2) : i \in -19 .. 199}

\* atof: the longest start that spells a number
Atof(s) ==
  LET N == {n \in Spelled : IsPrefix(Spell(n), s)}
  IN  IF N = {} THEN 0 ELSE CHOOSE n \in N : \A k \in N : Len(Spell(k)) <= Len(Spell(n))

\* the letters a value is converted by (a name is a letter of its own here);
\* a list and a function have none
Letters(v) == CASE v[1] = "str" -> v[2] [] v[1] = "sym" -> <<v[2]>>
                [] v[1] = "nil" -> <<"N", "I", "L">> [] v[1] = "t" -> <<"T">>
                [] v[1] = "num" -> Spell(v[2])

Number(v) == CASE v[1] = "num" -> v[2] [] v[1] = "nil" -> 0 [] v[1] = "t" -> Unit
               [] OTHER -> Atof(Letters(v))

\* "number" gives NULL for what has no letters
tonumber(a) ==
  IF Len(a) # 1 THEN Tells(Nil, "args")
  ELSE IF a[1][1] \in {"num", "str", "sym", "nil", "t"} THEN Gives(<<"num", Number(a[1])>>)
  ELSE Gives(Null)

\* (of T, a list or a function "int" gives a number nobody wrote, and of a list
\* or a function "string" reads a pointer nobody wrote: not called with them)
toint(a) == IF Len(a) # 1 THEN Tells(Nil, "args") ELSE Gives(Whole(Trunc(Number(a[1]))))
tostr(a) == IF Len(a) # 1 THEN Tells(Nil, "args") ELSE Gives(Str(Letters(a[1])))

-----------------------------------------------------------------------------
(* Functions called for their output, and others.                          *)

print(a)   == Gives(Nil)
display(a) == Gives(<<"t">>)
write_times(a) == AsStrict(a, <<"num", "str">>, FirstOf(a))
print_symbol_ptr(a) == IF LastOf(a)[1] = "sym" THEN Gives(LastOf(a)) ELSE Tells(Nil, "warning")

\* one argument is a name; any other number of them shows the main program
disassemble(a) ==
  IF Len(a) = 1 /\ a[1][1] # "sym" THEN Tells(Null, "args") ELSE Gives(Nil)

\* the optional argument is not counted, so that no call has enough of them
akl_cfg(a) == Tells(Nil, "args")

\* akl_basic_funs, akl_debug_funs, akl_io_funs, by name
Apply(f, a) ==
  CASE f = "++" -> inc(a)          [] f = "--" -> dec(a)           [] f = "+" -> plus(a)
    [] f = "-" -> minus(a)         [] f = "*" -> mul(a)            [] f = "/" -> ddiv(a)
    [] f = "div" -> idiv(a)        [] f \in {"mod", "%"} -> mod(a) [] f = "range" -> range(a)
    [] f = "!=" -> neq(a)          [] f = "=" -> eq(a)             [] f = ">" -> gt(a)
    [] f = "<" -> lt(a)            [] f = ">=" -> gteq(a)          [] f = "<=" -> lteq(a)
    [] f = "not" -> not(a)         [] f = "and" -> and(a)          [] f = "or" -> or(a)
    [] f = "zero?" -> iszero(a)    [] f = "nil?" -> isnil(a)       [] f = "number?" -> isnumber(a)
    [] f = "string?" -> isstring(a) [] f = "list?" -> islist(a)    [] f = "symbol?" -> issymbol(a)
    [] f = "number" -> tonumber(a) [] f = "int" -> toint(a)        [] f = "string" -> tostr(a)
    [] f = "list" -> list(a)       [] f = "length" -> length(a)    [] f = "index" -> ls_index(a)
    [] f \in {"head", "first", "car"} -> ls_head(a)                [] f = "last" -> ls_last(a)
    [] f \in {"tail", "cdr"} -> ls_tail(a)                         [] f = "split" -> split(a)
    [] f = "$" -> progn(a)         [] f = "akl-cfg!" -> akl_cfg(a) [] f = "exit!" -> Ends("exit")
    [] f \in {"print", "hello", "dump-stack", "dump-vars"} -> print(a)
    [] f \in {"display", "write", "about"} -> display(a)
    [] f = "write-times" -> write_times(a)                         [] f = "disassemble" -> disassemble(a)
    [] f = "print-symbol-ptr" -> print_symbol_ptr(a)
=============================================================================
