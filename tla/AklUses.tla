------------------------------ MODULE AklUses ------------------------------
(***************************************************************************)
(* What the library functions of AkLisp give, as README.md and the         *)
(* descriptions in akl_basic_funs tell it, what they may be asked          *)
(* (HasMeaning), and which arguments they have to refuse (Misused).        *)
(***************************************************************************)
EXTENDS Integers, Sequences, SequencesExt, FiniteSetsExt

IfTrue(b)     == IF b THEN <<"t">> ELSE <<"nil">>

Unit == 12
Num(n)     == <<"num", n>>
IsNum(v)   == v[1] = "num"
IsWhole(v) == IsNum(v) /\ v[2] % Unit = 0
IsListOrString(v) ==
  v[1] = "str" \/ (v[1] = "list" /\ \A i \in DOMAIN v[2] : v[2][i] # <<"null">>)

\* the integer part, without the sign's help
IntPart(n) == Unit * (CHOOSE i \in -40 .. 40 : i * n >= 0 /\ LET d == n - i * Unit
                                              IN  d * n >= 0 /\ d < Unit /\ -d < Unit)

DigitSeq == <<"0", "1", "2", "3", "4", "5", "6", "7", "8", "9">>
IsNumeral(s) == s # <<>> /\ ToSet(s) \subseteq ToSet(DigitSeq)
Reading(s) ==
  FoldLeft(LAMBDA n, c : 10 * n + (CHOOSE i \in 1 .. 10 : DigitSeq[i] = c) - 1, 0, s)

\* the words of s: each starts behind a delimiter and goes on to the next one
Split(s, D) ==
  LET starts == {i \in DOMAIN s : s[i] \notin D /\ (i = 1 \/ s[i - 1] \in D)}
      EndOf(i) == Max({k \in i .. Len(s) : \A j \in i .. k : s[j] \notin D})
  IN  [k \in 1 .. Cardinality(starts) |->
         LET i == SetToSortSeq(starts, LAMBDA x, y : x < y)[k] IN <<"str", SubSeq(s, i, EndOf(i))>>]

\* The types of the arguments.  These functions want as many as they name:
Counting == {"++", "--", "zero?", "mod", "%", "range", "length", "number", "write-times",
             "=", "!=", "<", ">", "<=", ">=", "map", "map-index", "foldl", "fold", "times",
             "times-index"}

\* and these take the last ones if there are more:
Lenient  == {"head", "first", "car", "tail", "cdr", "last", "index", "print-symbol-ptr"}

Function == {"fun", "cfun"}
Sequence == {"list", "str"}
Anything == Function \cup Sequence \cup {"num", "sym", "nil", "t"}

Wants(f) ==
  CASE f \in {"++", "--", "zero?"}      -> <<{"num"}>>
    [] f \in {"mod", "%", "range"}      -> <<{"num"}, {"num"}>>
    [] f \in {"=", "!=", "<", ">", "<=", ">="} -> <<Anything, Anything>>
    [] f = "length"                     -> <<Sequence>>
    [] f = "number"                     -> <<{"num", "str", "sym", "nil", "t"}>>
    [] f = "write-times"                -> <<{"num"}, {"str"}>>
    [] f \in {"map", "map-index"}       -> <<{"list"}, Function>>
    [] f \in {"foldl", "fold"}          -> <<Anything, {"list"}, Function>>
    [] f \in {"times", "times-index"}   -> <<{"num"}, Function>>
    [] f = "index"                      -> <<{"num"}, Sequence>>
    [] f = "print-symbol-ptr"           -> <<{"sym"}>>
    [] OTHER                            -> <<Sequence>>

Fits(f, a) == Len(a) = Len(Wants(f)) /\ \A i \in 1 .. Len(Wants(f)) : a[i][1] \in Wants(f)[i]

\* the uses that must be told
Misused(f, a) ==
  \/ f \in Counting /\ ~Fits(f, a)
  \/ f \in Lenient /\ Len(a) <= Len(Wants(f)) /\ ~Fits(f, a)
  \/ f = "disassemble" /\ Len(a) = 1 /\ a[1][1] # "sym"
  \/ f = "-" /\ \E i \in DOMAIN a : ~IsNum(a[i])
  \/ f = "split" /\ Len(a) <= 2 /\ (a = <<>> \/ \E i \in DOMAIN a : a[i][1] # "str")
  \/ f \in {"/", "div"} /\ (\A i \in DOMAIN a : IsNum(a[i])) /\ \E i \in 2 .. Len(a) : a[i][2] = 0

\* what the text gives a value to
HasMeaning(f, a) ==
  CASE f \in {"list", "not", "and", "or", "nil?", "number?", "string?", "list?", "symbol?",
              "print", "display"} -> TRUE
    [] f = "$"   -> a # <<>>
    [] f \in {"++", "--", "zero?"} -> Len(a) = 1 /\ IsNum(a[1])
    [] f \in {"+", "-", "*"} -> \A v \in ToSet(a) : IsNum(v)
    [] f = "/"   -> \A i \in DOMAIN a : IsNum(a[i]) /\ (i > 1 => a[i][2] # 0)
    [] f = "div" -> \A i \in DOMAIN a : IsWhole(a[i]) /\ (i > 1 => a[i][2] # 0)
    [] f = "mod" -> Len(a) = 2 /\ (\A v \in ToSet(a) : IsWhole(v) /\ v[2] >= 0) /\ a[2] # Num(0)
    [] f \in {"<", ">", "<=", ">="} -> Len(a) = 2 /\ \A v \in ToSet(a) : IsWhole(v)
    [] f \in {"=", "!="} -> Len(a) = 2 /\ \A v \in ToSet(a) : v[1] # "list" /\ (IsNum(v) => IsWhole(v))
    [] f = "range" -> Len(a) = 2 /\ \A v \in ToSet(a) : IsWhole(v)
    [] f = "length" -> Len(a) = 1 /\ IsListOrString(a[1])
    [] f = "index" -> Len(a) = 2 /\ IsWhole(a[1]) /\ IsListOrString(a[2])
                      /\ a[1][2] \div Unit \in 0 .. Len(a[2][2]) - 1
    [] f \in {"head", "last"} -> Len(a) = 1 /\ IsListOrString(a[1]) /\ a[1][2] # <<>>
    [] f = "tail" -> Len(a) = 1 /\ IsListOrString(a[1]) /\ Len(a[1][2]) > 1
    [] f = "split" -> Len(a) \in 1 .. 2 /\ \A v \in ToSet(a) : v[1] = "str"
    [] f = "number" -> Len(a) = 1 /\ (IsNum(a[1]) \/ (a[1][1] = "str" /\ IsNumeral(a[1][2])))
    [] f = "int" -> Len(a) = 1 /\ (IsNum(a[1]) \/ (a[1][1] = "str" /\ IsNumeral(a[1][2])))
    [] f = "string" -> Len(a) = 1 /\ (a[1][1] = "str" \/ (IsWhole(a[1]) /\ a[1][2] \in 0 .. 9 * Unit))
    [] f = "write-times" -> Len(a) = 2 /\ IsWhole(a[1]) /\ a[2][1] = "str"
    [] OTHER -> FALSE

\* a letter of a string is a string
Item(v, i) == IF v[1] = "list" THEN v[2][i] ELSE <<"str", <<v[2][i]>>>>
NumberOf(v) == IF IsNum(v) THEN v[2] ELSE Unit * Reading(v[2])

Pure(f, a) ==
  CASE f = "list" -> <<"list", a>>
    [] f = "not"  -> IfTrue(a[1] = <<"nil">>)
    [] f = "nil?" -> IfTrue(a[1] \in {<<"nil">>, <<"str", <<>>>>})   \* README.md:89
    [] f = "number?" -> IfTrue(IsNum(a[1]))
    [] f = "string?" -> IfTrue(a[1][1] = "str")
    [] f = "list?" -> IfTrue(a[1][1] = "list" \/ a[1] = <<"nil">>)
    [] f = "symbol?" -> IfTrue(a[1][1] = "sym")
    [] f = "and" -> IfTrue(\A v \in ToSet(a) : v # <<"nil">>)
    [] f = "or"  -> IfTrue(\E v \in ToSet(a) : v # <<"nil">>)
    [] f = "+"   -> Num(FoldLeft(LAMBDA n, v : n + v[2], 0, a))
    [] f = "-"   -> Num(2 * a[1][2] - FoldLeft(LAMBDA n, v : n + v[2], 0, a))
    [] f = "*"   -> Num(FoldLeft(LAMBDA n, v : (n * v[2]) \div Unit, Unit, a))
    [] f = "/"   -> Num(CHOOSE q \in -999 .. 999 : q * a[2][2] = a[1][2] * Unit)
    [] f = "div" -> Num(IntPart(CHOOSE q \in -999 .. 999 : q * a[2][2] = a[1][2] * Unit))
    [] f = "mod" -> Num(a[1][2] % a[2][2])
    [] f = "++"  -> Num(a[1][2] + Unit)
    [] f = "--"  -> Num(a[1][2] - Unit)
    [] f = "zero?" -> IfTrue(a[1] = Num(0))
    [] f = "<"  -> IfTrue(a[1][2] < a[2][2])
    [] f = ">"  -> IfTrue(a[1][2] > a[2][2])
    [] f = "<=" -> IfTrue(a[1][2] <= a[2][2])
    [] f = ">=" -> IfTrue(a[1][2] >= a[2][2])
    [] f = "="  -> IfTrue(a[1][1] = a[2][1] /\ a[1] = a[2])
    [] f = "!=" -> IfTrue(a[1][1] # a[2][1] \/ a[1] # a[2])
    [] f = "range" -> <<"list", [i \in 1 .. (a[2][2] - a[1][2]) \div Unit + 1 |->
                                   Num(a[1][2] + (i - 1) * Unit)]>>
    [] f = "length" -> Num(Unit * Len(a[1][2]))
    [] f = "index" -> Item(a[2], a[1][2] \div Unit + 1)
    [] f = "head" -> Item(a[1], 1)
    [] f = "last" -> Item(a[1], Len(a[1][2]))
    [] f = "tail" -> <<a[1][1], Tail(a[1][2])>>
    [] f = "split" -> <<"list", Split(a[1][2], IF Len(a) = 2 THEN ToSet(a[2][2]) ELSE {" "})>>
    [] f = "number" -> Num(NumberOf(a[1]))
    [] f = "int" -> Num(IntPart(NumberOf(a[1])))
    [] f = "string" -> IF a[1][1] = "str" THEN a[1]
                       ELSE <<"str", CHOOSE s \in {<<c>> : c \in ToSet(DigitSeq)} :
                                       Unit * Reading(s) = a[1][2]>>
    [] f = "write-times" -> a[1]
    [] f = "print" -> <<"nil">>
    [] f = "display" -> <<"t">>
    [] f = "$"    -> Last(a)
============================================================================
