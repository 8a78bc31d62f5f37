------------------------------ MODULE MCAklVm ------------------------------
(***************************************************************************)
(* Programs for AklVm and what must hold of their runs.                    *)
(***************************************************************************)
EXTENDS AklVmLib, AklCompare, AklCompile

M == INSTANCE AklMeaning

Num(n)     == <<"lit", Whole(n)>>
NilE       == <<"lit", Nil>>
Var(s)     == <<"var", s>>
App(s, a)  == <<"call", s, a>>
If(c, a, b) == <<"if", c, a, b>>
Lambda(ps, b) == <<"lambda", ps, b>>
Defun(s, ps, b) == <<"defun!", s, ps, b>>
NumList(a, b) == <<"quote", List(<<Whole(a), Whole(b)>>)>>

\* bodies in the parameters x and y: conditionals of calls and literals, inside
\* one another and as arguments
Leaves == {Num(1), NilE, App("not", <<Var("x")>>), App("list", <<Var("y"), Var("x")>>),
           App("$", <<Var("x"), App("not", <<Var("y")>>)>>)}
Ifs    == {If(c, a, b) : c, a, b \in Leaves}
Bodies == Ifs
          \cup {App("list", <<Var("y"), i, Var("x")>>) : i \in Ifs}
          \cup {If(c, i, j) : c \in {NilE, App("not", <<Var("x")>>)},
                             i \in {k \in Ifs : k[2] # NilE /\ k[3] = Num(1) /\ k[4] # Num(1)},
                             j \in {k \in Ifs : k[2] = NilE /\ k[3] # NilE /\ k[4] = NilE}}

\* (defun! f (x y) body) (list 7 (f 2 NIL) (f NIL 3))
CallTwice(b) ==
  <<Defun("f", <<"x", "y">>, b),
    App("list", <<Num(7), App("f", <<Num(2), NilE>>), App("f", <<NilE, Num(3)>>)>>)>>

Inner == Lambda(<<"x">>, If(App("<=", <<Var("x"), Num(4)>>), NilE,
               App("map", <<NumList(1, 2), Lambda(<<"x">>, App("+", <<Var("x"), Num(1)>>))>>)))

\* (foldl 1 '(4 5) (-> (x y) (+ x y))): after a signal nothing is below its calls
AtTheTop == <<App("foldl", <<Num(1), NumList(4, 5),
                             Lambda(<<"x", "y">>, App("+", <<Var("x"), Var("y")>>))>>)>>

\* (list 8 callback 9): the functions that call back, in the middle of a call
Callbacks ==
  { <<App("list", <<Num(8), c, Num(9)>>)>> :
      c \in {App("map", <<NumList(4, 5), l>>) :
               l \in {Var("not"), Lambda(<<"x">>, App("--", <<Var("x")>>)), Inner}}
        \cup {App("foldl", <<Num(0), NumList(4, 5), l>>) :
               l \in {Var("+"), Var("list"),
                      Lambda(<<"x", "y">>, App("+", <<Var("y"), Var("x"), Num(1)>>))}}
        \cup {App("foldl", <<NumList(4, 5), App("list", <<Var("not"), Var("not")>>), Var("map")>>)}
        \cup {App("times", <<Num(2), Lambda(<<>>, App("$", <<Num(3)>>))>>),
              App("times-index", <<Num(3), Lambda(<<"i">>, App("list", <<Var("i")>>))>>)} }

\* (fact 3) with + for *, mutual recursion, a loop, a function in a variable
Recursive ==
  { <<Defun("fact", <<"n">>, If(App("<=", <<Var("n"), Num(1)>>), Num(1),
        App("+", <<Var("n"), App("fact", <<App("--", <<Var("n")>>)>>)>>))),
      App("fact", <<Num(3)>>)>>,
    <<Defun("even", <<"n">>, If(App("<=", <<Var("n"), Num(0)>>), <<"lit", <<"t">>>>,
        App("odd", <<App("--", <<Var("n")>>)>>))),
      Defun("odd", <<"n">>, If(App("<=", <<Var("n"), Num(0)>>), NilE,
        App("even", <<App("--", <<Var("n")>>)>>))),
      App("list", <<App("even", <<Num(3)>>), App("odd", <<Num(3)>>)>>)>>,
    <<<<"set!", "i", Num(2)>>,
      <<"while", App("not", <<App("<=", <<Var("i"), Num(0)>>)>>),
                 <<"set!", "i", App("--", <<Var("i")>>)>>>>,
      App("list", <<Var("i")>>)>>,
    <<<<"set!", "g", Lambda(<<"x">>, App("list", <<Var("x"), Var("k")>>))>>,
      <<"set!", "k", Num(6)>>,
      App("g", <<App("g", <<Num(1)>>)>>)>>,
    <<<<"set!", "j", Num(1)>>,
      <<"when", App("<=", <<Var("j"), Num(1)>>), <<"set!", "j", Num(5)>>>>,
      <<"when", App("<=", <<Var("j"), Num(1)>>), <<"set!", "j", Num(9)>>>>,
      App("+", <<Var("j"), Var("j")>>)>> }

\* (while 1 (when NIL 1)): only a signal ends it
Endless == <<<<"while", Num(1), <<"when", NilE, Num(1)>>>>>>

\* ($), (map 1 not), (map '(4 5) times) and (list (nobody 1)) are errors, which
\* README.md gives no value; (map-index '(4 5) list) leaves the indexes behind; a
\* function that leaves nothing gives map a list of NULL, and foldl an assertion;
\* (*argc* 1) calls a number, and leaves its argument
NoValue == Lambda(<<"x">>, App("disassemble", <<Var("x")>>))
Wrong == {<<App("$", <<>>)>>,
          <<App("map", <<Num(1), Var("not")>>)>>,
          <<App("map", <<NumList(4, 5), Var("times")>>)>>,
          <<App("map-index", <<NumList(4, 5), Var("list")>>)>>,
          <<App("list", <<App("nobody", <<Num(1)>>)>>)>>,
          <<App("list", <<App("nobody", <<>>)>>)>>,
          <<App("list", <<Var("k"), Num(1)>>)>>,
          <<App("list", <<Num(7), App("*argc*", <<Num(1)>>), Num(9)>>)>>,
          <<App("foldl", <<Num(1), NumList(4, 5), NoValue>>)>>,
          <<App("map", <<App("map", <<NumList(4, 5), NoValue>>), Var("not")>>)>>,
          <<App("list", <<Num(7), App("head", <<App("map", <<NumList(4, 5), NoValue>>)>>)>>)>>}

\* (list 7 (f a) 9) and (list 7 (f a b) 9) for the functions of the library
Letter(s) == <<"sym", s>>
Half      == <<"num", Unit \div 2>>
Four      == {List(<<Whole(4)>>), List(<<Whole(4), Whole(5)>>), List(<<Whole(4), Whole(4)>>)}
Samples   == {Whole(0), Whole(3), Whole(-2), Half, Nil, <<"t">>, Letter("b"),
              Str(<<"a", "b">>), Str(<<" ", "b", " ", " ", "3">>), Str(<<"3">>)} \cup Four
Pairs     == {Whole(0), Whole(3), Whole(-2), Half, Nil, Letter("b"), Letter("c"),
              Str(<<"a", "b">>), Str(<<"a">>)} \cup Four
Unary     == {"++", "--", "-", "zero?", "nil?", "not", "number?", "string?", "list?", "symbol?",
              "number", "int", "string", "length", "head", "tail", "last", "split", "<=", "mod",
              "print", "display", "print-symbol-ptr", "disassemble", "akl-cfg!", "exit!"}
Binary    == {"+", "-", "*", "/", "div", "mod", "=", "!=", "<", ">", "<=", ">=",
              "and", "or", "range", "index", "split", "write-times", "++", "length"}

\* not asked: "int" and "string" of these read what nobody wrote, and the order
\* of two symbols is that of their addresses
Unasked(f, a) == \/ f = "int" /\ a[1][1] \in {"t", "list"}
                 \/ f = "string" /\ a[1][1] = "list"
                 \/ f \in {"<", ">", "<=", ">="} /\ Len(a) = 2 /\ a[1] # a[2]
                    /\ a[1][1] = "sym" /\ a[2][1] = "sym"

Quoted(vs)  == [i \in DOMAIN vs |-> <<"quote", vs[i]>>]
Asked(f, a) == <<App("list", <<Num(7), App(f, Quoted(a)), Num(9)>>)>>
Calls       == {<<f, <<v>>>> : f \in Unary, v \in Samples} \cup
               {<<f, <<v, w>>>> : f \in Binary, v \in Pairs, w \in Pairs}
OneCall     == {Asked(c[1], c[2]) : c \in {d \in Calls : ~Unasked(d[1], d[2])}}

MCPrograms ==
  {CallTwice(b) : b \in Bodies} \cup Callbacks \cup {AtTheTop} \cup Recursive \cup Wrong \cup {Endless} \cup OneCall

\* (defun! f (x) (if x 1 2)) ($ (f NIL))
BareVariable ==
  {<<Defun("f", <<"x">>, If(Var("x"), Num(1), Num(2))), App("$", <<App("f", <<NilE>>)>>)>>}

-----------------------------------------------------------------------------
Ending == prog # Endless

\* what the program means, starting from the library
Meant == M!Meaning(prog, Globals)

\* the function that a program of OneCall calls, and its arguments
Form  == prog[1][3][2]
Given == [i \in DOMAIN Form[3] |-> Form[3][i][2]]
IsOneCall == prog[1][1] = "call" /\ Len(prog[1][3]) = 3 /\ prog[1][3][1] = Num(7)

HasMeaning == IF IsOneCall THEN M!HasMeaning(Form[2], Given) ELSE prog \notin Wrong \cup {Endless}

\* the globals of g that are no functions
Data(g) == LET S == {s \in DOMAIN g : g[s][1] \notin {"fun", "lam", "cfun"}}
           IN  [s \in S |-> g[s]]

\* A program that was not interrupted ends with the value README.md gives it on
\* top of the stack and with the globals it says.
ResultIsMeaning ==
  (ctl = <<>> /\ ~intr /\ HasMeaning) =>
    LastOf(stack) = Meant.v /\ Data(globals) = Data(Meant.g)

\* How many values of its own a function has on the stack at each place, as the
\* first way to it says; the main program keeps the values of all its forms.
Heights(c) ==
  [f \in DOMAIN c.irs |->
     LET h[n \in 1 .. Len(c.irs[f]) + 1] ==
           LET from == {m \in 1 .. n - 1 : n \in Nexts(c, f, m)}
           IN  IF from = {} THEN 0 ELSE Min({After(c.irs[f][m], h[m]) : m \in from})
     IN  h]

\* The compiler makes balanced code: on every way through a body each instruction
\* finds its values, and both ways through a conditional leave one.  (A function
\* that ends with a when is not: it leaves a value or none.)
CodeIsBalanced ==
  (stack = <<>> /\ ctl = <<Lisp(1, <<>>, 0)>>) =>
    WellMade(code) /\ BalancedBy(code, Heights(code))

\* After a signal the program stops, whatever loops and calls it is in: also
\* the program that would run for ever.
InterruptStops == intr ~> (ctl = <<>>)

\* The program whose meaning is finite ends without a signal.
Finishes == Ending ~> (ctl = <<>>)
============================================================================
