---------------------------- MODULE AklVmProofs ----------------------------
(***************************************************************************)
(* Theorems about the machine (AklVm), for any programs, any code and any  *)
(* library that satisfy what is named here, and about what the machine     *)
(* with the library (AklVmLib) tells.                                      *)
(***************************************************************************)
EXTENDS AklVmLib, SequenceTheorems, TLAPS

CONSTANTS
  Value(_),       \* the values a program may meet
  Height(_)       \* how many values its code has on the stack, see BalancedBy

Args(p) == Seq(Value(p) \cup {Null})

-----------------------------------------------------------------------------
(***************************************************************************)
(* What is assumed.  Values are of the kinds there are; a list may hold    *)
(* the NULL that map takes from an empty stack; a function written in Lisp *)
(* is one that was compiled, and not the main program.                     *)
(***************************************************************************)
ValuesAreValues ==
  \A p \in Programs :
    /\ Nil \in Value(p)
    /\ \A i \in Int : Whole(i) \in Value(p)
    /\ \A s \in Args(p) : List(s) \in Value(p)
    /\ \A v \in Value(p) :
         /\ v[1] \in Kinds
         /\ v[1] = "num" => v = <<"num", v[2]>> /\ v[2] \in Int
         /\ v[1] = "nil" => v = Nil
         /\ v[1] = "t"   => v = <<"t">>
         /\ v[1] = "list" => v[2] \in Args(p)
         /\ v[1] = "fun" => v[2] \in DOMAIN CodeOf(p).irs \ {1}

\* A function of the library gives a value or NULL.
LibraryGives ==
  \A p \in Programs : \A f \in Value(p) : f[1] = "cfun" /\ f[2] \notin CallsBack =>
    \A a \in Seq(Value(p)) : Library(f[2], a).v \in Value(p) \cup {Null}

\* The code is as the compiler makes it: sequences of instructions that push and
\* call values of the program.
CodeIsMade ==
  \A p \in Programs :
    LET c == CodeOf(p)
    IN  /\ 1 \in DOMAIN c.irs
        /\ \A f \in DOMAIN c.irs :
             /\ Len(c.irs[f]) \in Nat /\ DOMAIN c.irs[f] = 1 .. Len(c.irs[f])
             /\ Len(c.params[f]) \in Nat
        /\ WellMade(c)
        /\ \A f \in DOMAIN c.irs : \A ip \in DOMAIN c.irs[f] :
             LET i == c.irs[f][ip]
             IN  /\ i[1] = "push" => i[2] \in Value(p)
                 /\ i[1] = "call" => i[3] \in Value(p) \cup {Null}
        /\ \A s \in DOMAIN c.syms : c.syms[s] \in Value(p)

Machine == ValuesAreValues /\ LibraryGives /\ CodeIsMade

\* The code is balanced, as CodeIsBalanced checks of the code AklCompile makes.
CodeBalanced == \A p \in Programs : BalancedBy(CodeOf(p), Height(p))

-----------------------------------------------------------------------------
(***************************************************************************)
(* Types.                                                                  *)
(***************************************************************************)
LispRecs(p) ==
  {r \in [kind : {"lisp"}, fun : DOMAIN CodeOf(p).irs, ip : Nat, argc : Nat, base : Nat,
          own : Nat] :
     r.ip \in 1 .. Len(CodeOf(p).irs[r.fun]) + 1 /\ r.base >= 1}

\* how many values a turn of a loop pushes besides the one so far
Pushes(f) == CASE f = "map-index" -> 2 [] f = "times" -> 0 [] OTHER -> 1

EachRecs(p) ==
  {r \in [kind : {"each"}, f : CallsBack, fn : Value(p), todo : Seq(Args(p)),
          waits : BOOLEAN, acc : Value(p) \cup {Null}] :
     /\ IsFun(r.fn)
     /\ \A i \in DOMAIN r.todo : Len(r.todo[i]) = Pushes(r.f)
     /\ ~Folds(r.f) => r.acc[1] = "list"}

Recs(p) == LispRecs(p) \cup EachRecs(p)

TypeInv ==
  /\ prog \in Programs /\ code = CodeOf(prog)
  /\ stack \in Seq(Value(prog))
  /\ ctl \in Seq(Recs(prog))
  /\ \A s \in DOMAIN globals : globals[s] \in Value(prog)
  /\ intr \in BOOLEAN

-----------------------------------------------------------------------------
\* No value is NULL.
LEMMA ValuesNotNull ==
  ASSUME Machine, NEW p \in Programs
  PROVE  /\ Null \notin Value(p)
         /\ \A v \in Value(p) : v[1] \in Kinds
<1>1. \A v \in Value(p) : v[1] \in Kinds
  BY DEF Machine, ValuesAreValues
<1>2. Null[1] \notin Kinds
  BY DEF Null, Kinds
<1>3. QED BY <1>1, <1>2

\* The cast to an integer gives one.
LEMMA TruncInt ==
  ASSUME NEW n \in Int
  PROVE  Trunc(n) \in Int
BY DEF Trunc, Quot, Unit

\* Taking the arguments off, pushing a value.
LEMMA TakeOff ==
  ASSUME NEW S, NEW st \in Seq(S), NEW n \in Nat
  PROVE  LET k == IF n < Len(st) THEN n ELSE Len(st)
         IN  /\ SubSeq(st, 1, Len(st) - k) \in Seq(S)
             /\ Len(SubSeq(st, 1, Len(st) - k)) = Len(st) - k
             /\ SubSeq(st, Len(st) - k + 1, Len(st)) \in Seq(S)
             /\ k \in 0 .. Len(st) /\ (n <= Len(st) => k = n)
<1> DEFINE k == IF n < Len(st) THEN n ELSE Len(st)
<1>1. Len(st) \in Nat /\ k \in 0 .. Len(st) /\ (n <= Len(st) => k = n)
  BY LenProperties
<1> HIDE DEF k
<1>2. SubSeq(st, 1, Len(st) - k) \in Seq(S) /\ Len(SubSeq(st, 1, Len(st) - k)) = Len(st) - k
  BY <1>1
<1>3. SubSeq(st, Len(st) - k + 1, Len(st)) \in Seq(S)
  BY <1>1
<1>4. QED BY <1>1, <1>2, <1>3 DEF k

LEMMA PushToType ==
  ASSUME NEW S, NEW st \in Seq(S), NEW v \in S \cup {Null}
  PROVE  /\ PushTo(st, v) \in Seq(S)
         /\ v # Null => Len(PushTo(st, v)) = Len(st) + 1
<1>1. CASE v = Null
  BY <1>1 DEF PushTo
<1>2. CASE v # Null
  BY <1>2, AppendProperties DEF PushTo
<1>3. QED BY <1>1, <1>2

-----------------------------------------------------------------------------
\* akl_get_args_strict: what is known of arguments that were accepted.
LEMMA TypeOfName ==
  ASSUME NEW v, v[1] \in Kinds
  PROVE  /\ "list" \in {"any", TypeName(v)} => v[1] = "list"
         /\ "num" \in {"any", TypeName(v)} => v[1] = "num"
         /\ "function" \in {"any", TypeName(v)} => IsFun(v)
<1>1. v[1] # "function" /\ v[1] # "any"
  BY DEF Kinds
<1>2. QED BY <1>1 DEF TypeName

LEMMA AcceptedArgs ==
  ASSUME NEW f \in CallsBack, NEW a, \A i \in DOMAIN a : a[i][1] \in Kinds,
         DOMAIN a = 1 .. Len(a), Accepts(f, a)
  PROVE  /\ f \in {"map", "map-index"} => Len(a) = 2 /\ a[1][1] = "list" /\ IsFun(a[2])
         /\ Folds(f) => Len(a) = 3 /\ a[2][1] = "list" /\ IsFun(a[3])
         /\ f \in {"times", "times-index"} => Len(a) = 2 /\ a[1][1] = "num" /\ IsFun(a[2])
<1>1. CASE f \in {"map", "map-index"}
  <2>1. Strict(a, <<"list", "function">>)
    BY <1>1 DEF Accepts, Folds
  <2>2. Len(a) = 2 /\ "list" \in {"any", TypeName(a[1])} /\ "function" \in {"any", TypeName(a[2])}
    BY <2>1 DEF Strict
  <2>3. a[1][1] \in Kinds /\ a[2][1] \in Kinds
    BY <2>2
  <2>4. a[1][1] = "list" /\ IsFun(a[2])
    BY <2>2, <2>3, TypeOfName
  <2>5. QED BY <1>1, <2>2, <2>4 DEF Folds
<1>2. CASE Folds(f)
  <2>1. Strict(a, <<"any", "list", "function">>)
    BY <1>2 DEF Accepts, Folds
  <2>2. Len(a) = 3 /\ "list" \in {"any", TypeName(a[2])} /\ "function" \in {"any", TypeName(a[3])}
    BY <2>1 DEF Strict
  <2>3. a[2][1] \in Kinds /\ a[3][1] \in Kinds
    BY <2>2
  <2>4. a[2][1] = "list" /\ IsFun(a[3])
    BY <2>2, <2>3, TypeOfName
  <2>5. QED BY <1>2, <2>2, <2>4 DEF Folds
<1>3. CASE f \in {"times", "times-index"}
  <2>1. Strict(a, <<"num", "function">>)
    BY <1>3 DEF Accepts, Folds
  <2>2. Len(a) = 2 /\ "num" \in {"any", TypeName(a[1])} /\ "function" \in {"any", TypeName(a[2])}
    BY <2>1 DEF Strict
  <2>3. a[1][1] \in Kinds /\ a[2][1] \in Kinds
    BY <2>2
  <2>4. a[1][1] = "num" /\ IsFun(a[2])
    BY <2>2, <2>3, TypeOfName
  <2>5. QED BY <1>3, <2>2, <2>4 DEF Folds
<1>4. QED BY <1>1, <1>2, <1>3 DEF CallsBack, Folds

\* A loop begins with what each of its turns pushes.
LEMMA EachTyped ==
  ASSUME Machine, NEW p \in Programs, NEW f \in CallsBack, NEW a \in Seq(Value(p)),
         Accepts(f, a)
  PROVE  Each(f, a) \in EachRecs(p)
<1> DEFINE A == Value(p) \cup {Null}
<1>1. /\ DOMAIN a = 1 .. Len(a) /\ Len(a) \in Nat
      /\ \A i \in DOMAIN a : a[i] \in Value(p) /\ a[i][1] \in Kinds
  BY LenProperties, ElementOfSeq, ValuesNotNull
<1>2. \A v \in Value(p) : /\ v[1] = "num" => v[2] \in Int
                          /\ v[1] = "list" => v[2] \in Seq(A)
  BY DEF Machine, ValuesAreValues, Args
<1>3. \A s \in Seq(A) : List(s) \in Value(p)
  BY DEF Machine, ValuesAreValues, Args
<1>4. <<>> \in Seq(A)
  OBVIOUS
<1>5. <<"list", <<>>>> \in Value(p) /\ <<"list", <<>>>>[1] = "list"
  BY <1>3, <1>4 DEF List
<1>6. \A i \in Int : Whole(i) \in A
  BY DEF Machine, ValuesAreValues
<1>7. \A s \in Seq(A) : /\ DOMAIN s = 1 .. Len(s) /\ Len(s) \in Nat
                        /\ \A i \in DOMAIN s : s[i] \in A
  BY LenProperties, ElementOfSeq
<1>8. \A x \in A : <<x>> \in Seq(A) /\ Len(<<x>>) = 1
  OBVIOUS
<1>9. \A x \in A, y \in A : <<x, y>> \in Seq(A) /\ Len(<<x, y>>) = 2
  OBVIOUS
<1> DEFINE Typed(t, m) == t \in Seq(Seq(A)) /\ \A i \in DOMAIN t : Len(t[i]) = m
<1>10. Typed(Todo(f, a), Pushes(f)) /\ a # <<>> /\ IsFun(Last(a))
  <2>1. CASE f = "map"
    <3>1. Len(a) = 2 /\ a[1][1] = "list" /\ IsFun(a[2])
      BY <1>1, <2>1, AcceptedArgs
    <3> DEFINE s == a[1][2]
    <3>2. s \in Seq(A)
      BY <1>1, <1>2, <3>1
    <3>3. Todo(f, a) = [i \in DOMAIN s |-> <<s[i]>>]
      BY <2>1 DEF Todo, Folds
    <3> HIDE DEF s
    <3>4. \A i \in 1 .. Len(s) : <<s[i]>> \in Seq(A) /\ Len(<<s[i]>>) = 1
      BY <1>7, <1>8, <3>2
    <3>5. Typed([i \in 1 .. Len(s) |-> <<s[i]>>], 1)
      BY <1>7, <3>2, <3>4
    <3>6. DOMAIN s = 1 .. Len(s)
      BY <1>7, <3>2
    <3>7. Pushes(f) = 1
      BY <2>1 DEF Pushes
    <3>8. a # <<>> /\ Last(a) = a[2]
      BY <3>1 DEF Last
    <3>9. QED BY <3>1, <3>3, <3>5, <3>6, <3>7, <3>8
  <2>2. CASE f = "map-index"
    <3>1. Len(a) = 2 /\ a[1][1] = "list" /\ IsFun(a[2])
      BY <1>1, <2>2, AcceptedArgs
    <3> DEFINE s == a[1][2]
    <3>2. s \in Seq(A)
      BY <1>1, <1>2, <3>1
    <3>3. Todo(f, a) = [i \in DOMAIN s |-> <<Whole(i - 1), s[i]>>]
      BY <2>2 DEF Todo, Folds
    <3> HIDE DEF s
    <3>4. \A i \in 1 .. Len(s) : /\ <<Whole(i - 1), s[i]>> \in Seq(A)
                                 /\ Len(<<Whole(i - 1), s[i]>>) = 2
      <4>1. \A i \in 1 .. Len(s) : Whole(i - 1) \in A /\ s[i] \in A
        BY <1>6, <1>7, <3>2
      <4>2. QED BY <1>9, <4>1
    <3>5. Typed([i \in 1 .. Len(s) |-> <<Whole(i - 1), s[i]>>], 2)
      BY <1>7, <3>2, <3>4
    <3>6. DOMAIN s = 1 .. Len(s)
      BY <1>7, <3>2
    <3>7. Pushes(f) = 2
      BY <2>2 DEF Pushes
    <3>8. a # <<>> /\ Last(a) = a[2]
      BY <3>1 DEF Last
    <3>9. QED BY <3>1, <3>3, <3>5, <3>6, <3>7, <3>8
  <2>3. CASE Folds(f)
    <3>1. Len(a) = 3 /\ a[2][1] = "list" /\ IsFun(a[3])
      BY <1>1, <2>3, AcceptedArgs
    <3> DEFINE s == a[2][2]
    <3>2. s \in Seq(A)
      BY <1>1, <1>2, <3>1
    <3>3. Todo(f, a) = [i \in DOMAIN s |-> <<s[i]>>]
      BY <2>3 DEF Todo, Folds
    <3> HIDE DEF s
    <3>4. \A i \in 1 .. Len(s) : <<s[i]>> \in Seq(A) /\ Len(<<s[i]>>) = 1
      BY <1>7, <1>8, <3>2
    <3>5. Typed([i \in 1 .. Len(s) |-> <<s[i]>>], 1)
      BY <1>7, <3>2, <3>4
    <3>6. DOMAIN s = 1 .. Len(s)
      BY <1>7, <3>2
    <3>7. Pushes(f) = 1
      BY <2>3 DEF Pushes, Folds
    <3>8. a # <<>> /\ Last(a) = a[3]
      BY <3>1 DEF Last
    <3>9. QED BY <3>1, <3>3, <3>5, <3>6, <3>7, <3>8
  <2>4. CASE f \in {"times", "times-index"}
    <3>1. Len(a) = 2 /\ a[1][1] = "num" /\ IsFun(a[2])
      BY <1>1, <2>4, AcceptedArgs
    <3> DEFINE n == Trunc(a[1][2])
    <3>2. n \in Int
      BY <1>1, <1>2, <3>1, TruncInt
    <3> DEFINE N == IF n >= 0 THEN n ELSE 0
    <3>3. N \in Nat /\ 1 .. n = 1 .. N
      BY <3>2
    <3>4. a # <<>> /\ Last(a) = a[2]
      BY <3>1 DEF Last
    <3>5. CASE f = "times"
      <4>1. Todo(f, a) = [i \in 1 .. n |-> <<>>]
        BY <3>5 DEF Todo, Folds
      <4> HIDE DEF n, N
      <4>2. Typed([i \in 1 .. N |-> <<>>], 0)
        BY <1>4, <3>3
      <4>3. Pushes(f) = 0
        BY <3>5 DEF Pushes
      <4>4. QED BY <3>1, <3>3, <3>4, <4>1, <4>2, <4>3
    <3>6. CASE f = "times-index"
      <4>1. Todo(f, a) = [i \in 1 .. n |-> <<Whole(i - 1)>>]
        BY <3>6 DEF Todo, Folds
      <4> HIDE DEF n, N
      <4>2. \A i \in 1 .. N : <<Whole(i - 1)>> \in Seq(A) /\ Len(<<Whole(i - 1)>>) = 1
        <5>1. \A i \in 1 .. N : Whole(i - 1) \in A
          BY <1>6, <3>3
        <5>2. QED BY <1>8, <5>1
      <4>3. Typed([i \in 1 .. N |-> <<Whole(i - 1)>>], 1)
        BY <3>3, <4>2
      <4>4. Pushes(f) = 1
        BY <3>6 DEF Pushes
      <4>5. QED BY <3>1, <3>3, <3>4, <4>1, <4>3, <4>4
    <3>7. QED BY <2>4, <3>5, <3>6
  <2>5. QED BY <2>1, <2>2, <2>3, <2>4 DEF CallsBack, Folds
<1>11. Last(a) \in Value(p)
  BY <1>1, <1>10 DEF Last
<1>12. IF Folds(f) THEN a[1] \in Value(p)
       ELSE <<"list", <<>>>> \in Value(p) /\ <<"list", <<>>>>[1] = "list"
  <2>1. Folds(f) => Len(a) = 3
    BY <1>1, AcceptedArgs
  <2>2. QED BY <1>1, <1>5, <2>1
<1>13. Each(f, a) =
         [kind |-> "each", f |-> f, fn |-> Last(a), todo |-> Todo(f, a), waits |-> FALSE,
          acc  |-> IF Folds(f) THEN a[1] ELSE <<"list", <<>>>>]
  BY DEF Each
<1> DEFINE t == Todo(f, a)
           l == Last(a)
           x == IF Folds(f) THEN a[1] ELSE <<"list", <<>>>>
<1>14. x \in A /\ (~Folds(f) => x[1] = "list")
  BY <1>12
<1>15. t \in Seq(Args(p)) /\ (\A i \in DOMAIN t : Len(t[i]) = Pushes(f))
  BY <1>10 DEF Args
<1>16. l \in Value(p) /\ IsFun(l)
  BY <1>10, <1>11
<1> HIDE DEF t, l, x, A
<1>17. [kind |-> "each", f |-> f, fn |-> l, todo |-> t, waits |-> FALSE, acc |-> x]
         \in EachRecs(p)
  BY <1>14, <1>15, <1>16 DEF EachRecs, A
<1>18. QED BY <1>13, <1>17 DEF t, l, x

LEMMA LispTyped ==
  ASSUME Machine, NEW p \in Programs, NEW f \in DOMAIN CodeOf(p).irs, NEW S, NEW st \in Seq(S),
         NEW n \in Nat
  PROVE  Lisp(f, st, n) \in LispRecs(p)
<1> DEFINE b == IF n \in 1 .. Len(st) THEN Len(st) - n + 1 ELSE 1
<1>1. Len(CodeOf(p).irs[f]) \in Nat
  BY DEF Machine, CodeIsMade
<1>2. Len(st) \in Nat /\ b \in Nat /\ b >= 1
  BY LenProperties
<1>3. Lisp(f, st, n) =
        [kind |-> "lisp", fun |-> f, ip |-> 1, argc |-> n, base |-> b, own |-> Len(st)]
  BY DEF Lisp
<1> HIDE DEF b
<1>4. QED BY <1>1, <1>2, <1>3 DEF LispRecs

\* akl_call_function_bound keeps the types.
LEMMA InvokeTyped ==
  ASSUME Machine, NEW p \in Programs, NEW f \in Value(p), NEW n \in Nat,
         NEW st \in Seq(Value(p)), NEW c \in Seq(Recs(p)), Invoke(f, n, st, c)
  PROVE  stack' \in Seq(Value(p)) /\ ctl' \in Seq(Recs(p))
<1> DEFINE k    == IF n < Len(st) THEN n ELSE Len(st)
           rest == SubSeq(st, 1, Len(st) - k)
           a    == SubSeq(st, Len(st) - k + 1, Len(st))
           r    == Library(f[2], a)
           over == r.told \cap {"crash", "exit"} # {}
<1>1. rest \in Seq(Value(p)) /\ a \in Seq(Value(p))
  BY TakeOff
<1>2. \/ /\ f[1] = "fun"
         /\ stack' = st /\ ctl' = Append(c, Lisp(f[2], st, n))
      \/ /\ f[1] = "cfun" /\ f[2] \notin CallsBack
         /\ stack' = IF over THEN <<>> ELSE PushTo(rest, r.v)
         /\ ctl'   = IF over THEN <<>> ELSE c
      \/ /\ f[2] \in CallsBack /\ Accepts(f[2], a)
         /\ stack' = rest /\ ctl' = Append(c, Each(f[2], a))
      \/ stack' = Append(rest, Nil) /\ ctl' = c
  BY DEF Invoke
<1> HIDE DEF rest, a, over
<1>3. CASE f[1] = "fun" /\ stack' = st /\ ctl' = Append(c, Lisp(f[2], st, n))
  <2>1. f[2] \in DOMAIN CodeOf(p).irs
    BY <1>3 DEF Machine, ValuesAreValues
  <2>2. Lisp(f[2], st, n) \in Recs(p)
    BY <2>1, LispTyped DEF Recs
  <2>3. QED BY <1>3, <2>2, AppendProperties
<1>4. CASE /\ f[1] = "cfun" /\ f[2] \notin CallsBack
           /\ stack' = IF over THEN <<>> ELSE PushTo(rest, r.v)
           /\ ctl'   = IF over THEN <<>> ELSE c
  <2>1. r.v \in Value(p) \cup {Null}
    BY <1>1, <1>4 DEF Machine, LibraryGives
  <2> HIDE DEF r
  <2>2. PushTo(rest, r.v) \in Seq(Value(p))
    BY <1>1, <2>1, PushToType
  <2>3. <<>> \in Seq(Value(p)) /\ <<>> \in Seq(Recs(p))
    OBVIOUS
  <2>4. QED BY <1>4, <2>2, <2>3
<1>5. CASE f[2] \in CallsBack /\ Accepts(f[2], a) /\ stack' = rest
           /\ ctl' = Append(c, Each(f[2], a))
  <2>1. Each(f[2], a) \in Recs(p)
    BY <1>1, <1>5, EachTyped DEF Recs
  <2>2. QED BY <1>1, <1>5, <2>1, AppendProperties
<1>6. CASE stack' = Append(rest, Nil) /\ ctl' = c
  <2>1. Nil \in Value(p)
    BY DEF Machine, ValuesAreValues
  <2>2. QED BY <1>1, <1>6, <2>1, AppendProperties
<1>7. QED BY <1>2, <1>3, <1>4, <1>5, <1>6

-----------------------------------------------------------------------------
\* Changing the innermost record.
LEMMA LastChanged ==
  ASSUME NEW S, NEW c \in Seq(S), c # <<>>, NEW r \in S
  PROVE  LET d == [c EXCEPT ![Len(c)] = r]
         IN  /\ d \in Seq(S) /\ Len(d) = Len(c) /\ d # <<>>
             /\ d[Len(c)] = r
             /\ \A k \in 1 .. Len(c) - 1 : d[k] = c[k]
<1>1. Len(c) \in Nat /\ Len(c) >= 1 /\ DOMAIN c = 1 .. Len(c)
  BY EmptySeq, LenProperties
<1> DEFINE d == [c EXCEPT ![Len(c)] = r]
<1>2. d \in Seq(S) /\ Len(d) = Len(c) /\ \A k \in 1 .. Len(c) : d[k] = IF k = Len(c) THEN r ELSE c[k]
  BY <1>1, ExceptSeq
<1> DEFINE n == Len(c)
<1> HIDE DEF d
<1>3. n \in Nat /\ n >= 1 /\ Len(d) = n /\ \A k \in 1 .. n : d[k] = IF k = n THEN r ELSE c[k]
  BY <1>1, <1>2
<1> HIDE DEF n
<1>4. d # <<>>
  BY <1>3, EmptySeq
<1>5. d[n] = r
  BY <1>3
<1>6. \A k \in 1 .. n - 1 : d[k] = c[k]
  BY <1>3
<1>7. QED BY <1>2, <1>4, <1>5, <1>6 DEF d, n

\* The innermost record, when a function written in Lisp or a loop is running.
LEMMA Running ==
  ASSUME TypeInv
  PROVE  /\ Depth \in Nat
         /\ ctl # <<>> => Depth >= 1 /\ Rec \in Recs(prog) /\ Rec = ctl[Depth]
         /\ InLisp => Rec \in LispRecs(prog) /\ ctl # <<>>
         /\ InEach => Rec \in EachRecs(prog) /\ ctl # <<>>
<1>1. ctl \in Seq(Recs(prog))
  BY DEF TypeInv
<1>2. Depth \in Nat /\ (ctl # <<>> => Depth >= 1)
  BY <1>1, EmptySeq, LenProperties DEF Depth
<1>3. ctl # <<>> => Rec \in Recs(prog)
  BY <1>1, <1>2, ElementOfSeq DEF Rec, Depth
<1>4. \A r \in Recs(prog) : /\ r.kind = "lisp" => r \in LispRecs(prog)
                            /\ r.kind = "each" => r \in EachRecs(prog)
  BY DEF Recs, LispRecs, EachRecs
<1>5. QED BY <1>2, <1>3, <1>4 DEF InLisp, InEach, Rec

\* The running function goes on at n.
GoesTo(n) == [ctl EXCEPT ![Depth] = [Rec EXCEPT !.ip = n]]

LEMMA GoesToTyped ==
  ASSUME TypeInv, InLisp, NEW n \in 1 .. Len(CodeOf(prog).irs[Rec.fun]) + 1, n \in Nat
  PROVE  /\ GoesTo(n) \in Seq(Recs(prog)) /\ Len(GoesTo(n)) = Depth /\ GoesTo(n) # <<>>
         /\ GoesTo(n)[Depth] = [Rec EXCEPT !.ip = n]
         /\ \A k \in 1 .. Depth - 1 : GoesTo(n)[k] = ctl[k]
<1>1. Rec \in LispRecs(prog) /\ ctl # <<>> /\ ctl \in Seq(Recs(prog))
  BY Running DEF TypeInv
<1> DEFINE r == [Rec EXCEPT !.ip = n]
<1>2. r \in Recs(prog)
  BY <1>1 DEF LispRecs, Recs
<1> HIDE DEF r
<1>3. LET d == [ctl EXCEPT ![Len(ctl)] = r]
      IN  /\ d \in Seq(Recs(prog)) /\ Len(d) = Len(ctl) /\ d # <<>>
          /\ d[Len(ctl)] = r
          /\ \A k \in 1 .. Len(ctl) - 1 : d[k] = ctl[k]
  BY <1>1, <1>2, LastChanged
<1>4. QED BY <1>3 DEF GoesTo, Depth, r

\* An instruction that is carried out, and where it leads.
LEMMA Instruction ==
  ASSUME Machine, TypeInv, NEW op, At(op)
  PROVE  /\ InLisp /\ ~intr /\ In[1] = op /\ Rec \in LispRecs(prog) /\ ctl # <<>>
         /\ Rec.fun \in DOMAIN code.irs /\ Rec.ip \in DOMAIN code.irs[Rec.fun]
         /\ In = code.irs[Rec.fun][Rec.ip]
         /\ Rec.ip \in 1 .. Len(code.irs[Rec.fun]) /\ Len(code.irs[Rec.fun]) \in Nat
         /\ Nexts(code, Rec.fun, Rec.ip) \subseteq 1 .. Len(code.irs[Rec.fun]) + 1
<1>1. InLisp /\ ~intr /\ In[1] = op /\ Rec.ip <= Len(code.irs[Rec.fun])
  BY DEF At, Unchecked, Body
<1>2. Rec \in LispRecs(prog) /\ ctl # <<>> /\ prog \in Programs /\ code = CodeOf(prog)
  BY <1>1, Running DEF TypeInv
<1>3. Rec.fun \in DOMAIN code.irs /\ Rec.ip \in 1 .. Len(code.irs[Rec.fun]) + 1
  BY <1>2 DEF LispRecs
<1>4. /\ Len(code.irs[Rec.fun]) \in Nat /\ DOMAIN code.irs[Rec.fun] = 1 .. Len(code.irs[Rec.fun])
      /\ WellMade(code)
  BY <1>2, <1>3 DEF Machine, CodeIsMade
<1>5. Rec.ip \in 1 .. Len(code.irs[Rec.fun])
  BY <1>1, <1>3, <1>4
<1>6. Nexts(code, Rec.fun, Rec.ip) \subseteq 1 .. Len(code.irs[Rec.fun]) + 1
  BY <1>3, <1>4, <1>5 DEF WellMade
<1>7. QED BY <1>1, <1>2, <1>3, <1>4, <1>5, <1>6 DEF In, Body

\* The instructions but for CALL move within the body.
LEMMA MovesTyped ==
  ASSUME Machine, TypeInv, NEW op, At(op)
  PROVE  /\ op # "jmp" => /\ Moved = GoesTo(Rec.ip + 1)
                          /\ Rec.ip + 1 \in Nexts(code, Rec.fun, Rec.ip)
         /\ op \in {"jmp", "jn"} =>
              /\ [ctl EXCEPT ![Depth].ip = Target(In[2])] = GoesTo(Target(In[2]))
              /\ Target(In[2]) \in Nexts(code, Rec.fun, Rec.ip)
         /\ \A n \in Nexts(code, Rec.fun, Rec.ip) : GoesTo(n) \in Seq(Recs(prog))
<1>1. /\ InLisp /\ In[1] = op /\ Rec \in LispRecs(prog) /\ ctl # <<>>
      /\ In = code.irs[Rec.fun][Rec.ip]
      /\ Nexts(code, Rec.fun, Rec.ip) \subseteq 1 .. Len(code.irs[Rec.fun]) + 1
  BY Instruction
<1>2. Depth \in DOMAIN ctl /\ Rec = ctl[Depth] /\ code = CodeOf(prog)
  BY <1>1, Running, LenProperties DEF TypeInv, Depth
<1>3. Moved = GoesTo(Rec.ip + 1)
  BY <1>2 DEF Moved, GoesTo
<1>4. [ctl EXCEPT ![Depth].ip = Target(In[2])] = GoesTo(Target(In[2]))
  BY <1>2 DEF GoesTo
<1>5. op # "jmp" => Rec.ip + 1 \in Nexts(code, Rec.fun, Rec.ip)
  BY <1>1 DEF Nexts
<1>6. op \in {"jmp", "jn"} => Target(In[2]) \in Nexts(code, Rec.fun, Rec.ip)
  BY <1>1 DEF Nexts, Target
<1>7. ASSUME NEW n \in Nexts(code, Rec.fun, Rec.ip)
      PROVE  GoesTo(n) \in Seq(Recs(prog))
  <2>1. n \in 1 .. Len(CodeOf(prog).irs[Rec.fun]) + 1 /\ n \in Nat
    BY <1>1, <1>2
  <2>2. QED BY <1>1, <2>1, GoesToTyped
<1>8. QED BY <1>3, <1>4, <1>5, <1>6, <1>7

\* What is below a frame and above its arguments.
LEMMA DroppedTyped ==
  ASSUME NEW S, stack \in Seq(S), NEW r, r.base \in Nat, r.base >= 1, r.argc \in Nat
  PROVE  Dropped(r) \in Seq(S)
<1> DEFINE low == IF r.base <= Len(stack) THEN r.base - 1 ELSE Len(stack)
<1>1. Len(stack) \in Nat /\ low \in 0 .. Len(stack)
  BY LenProperties
<1> HIDE DEF low
<1>2. SubSeq(stack, 1, low) \in Seq(S)
  BY <1>1
<1>3. SubSeq(stack, r.base + r.argc, Len(stack)) \in Seq(S)
  BY <1>1
<1>4. Dropped(r) = SubSeq(stack, 1, low) \o SubSeq(stack, r.base + r.argc, Len(stack))
  BY DEF Dropped, low
<1>5. QED BY <1>2, <1>3, <1>4, ConcatProperties

LEMMA PoppedTyped ==
  ASSUME NEW S, stack \in Seq(S)
  PROVE  /\ Popped \in Seq(S) /\ LastOf(stack) \in S \cup {Null}
         /\ stack # <<>> => Len(Popped) = Len(stack) - 1 /\ LastOf(stack) \in S
<1>1. CASE stack = <<>>
  BY <1>1 DEF Popped, LastOf
<1>2. CASE stack # <<>>
  <2>1. /\ Front(stack) \in Seq(S) /\ Len(Front(stack)) = Len(stack) - 1
        /\ Last(stack) \in S
    <3>1. Len(stack) \in Nat /\ Len(stack) >= 1
      BY <1>2, EmptySeq, LenProperties
    <3>2. Front(stack) = SubSeq(stack, 1, Len(stack) - 1)
      BY DEF Front
    <3>3. stack[Len(stack)] \in S
      BY <3>1, ElementOfSeq
    <3> DEFINE n == Len(stack)
    <3>4. n \in Nat /\ n >= 1 /\ n = Len(stack)
      BY <3>1
    <3> HIDE DEF n
    <3>5. SubSeq(stack, 1, n - 1) \in Seq(S) /\ Len(SubSeq(stack, 1, n - 1)) = n - 1
      BY <3>4
    <3>6. QED BY <3>2, <3>3, <3>5 DEF Last, n
  <2>2. QED BY <1>2, <2>1 DEF Popped, LastOf
<1>3. QED BY <1>1, <1>2

-----------------------------------------------------------------------------
(***************************************************************************)
(* A loop that is running: its record, what it pushes, and how it goes on. *)
(***************************************************************************)
\* What EachCall pushes are as many values as the call takes, but in map-index.
Called == [Rec EXCEPT !.todo = Tail(Rec.todo), !.waits = TRUE]

LEMMA LoopPushes ==
  ASSUME Machine, TypeInv, InEach, ~NoMore, ~PushesNull
  PROVE  /\ Pushed \in Seq(Value(prog)) /\ ArgcOf(Rec.f) \in Nat
         /\ Rec.f # "map-index" => Len(Pushed) = ArgcOf(Rec.f)
<1> DEFINE V == Value(prog)
           h == Head(Rec.todo)
<1>1. Rec \in EachRecs(prog) /\ Rec.todo # <<>> /\ Null \notin ToSet(h)
  BY Running DEF NoMore
<1>2. /\ Rec.todo \in Seq(Args(prog)) /\ Rec.f \in CallsBack
      /\ Rec.acc \in V \cup {Null}
      /\ \A i \in DOMAIN Rec.todo : Len(Rec.todo[i]) = Pushes(Rec.f)
  BY <1>1 DEF EachRecs
<1>3. h \in Args(prog) /\ Len(h) = Pushes(Rec.f)
  <2>1. Len(Rec.todo) \in Nat /\ Len(Rec.todo) >= 1 /\ DOMAIN Rec.todo = 1 .. Len(Rec.todo)
    BY <1>1, <1>2, EmptySeq, LenProperties
  <2>2. h = Rec.todo[1] /\ 1 \in DOMAIN Rec.todo
    BY <2>1
  <2>3. QED BY <1>2, <2>1, <2>2, ElementOfSeq
<1>4. h \in Seq(V) /\ Len(h) \in Nat
  <2>1. h \in Seq(V \cup {Null})
    BY <1>3 DEF Args
  <2> HIDE DEF h
  <2>2. /\ DOMAIN h = 1 .. Len(h) /\ Len(h) \in Nat
        /\ \A i \in 1 .. Len(h) : h[i] \in V \cup {Null}
    BY <2>1, LenProperties, ElementOfSeq
  <2>3. \A i \in 1 .. Len(h) : h[i] # Null
    BY <1>1, <2>2 DEF ToSet
  <2>4. h \in [1 .. Len(h) -> V]
    <3>1. h = [i \in 1 .. Len(h) |-> h[i]]
      BY <2>1, <2>2
    <3>2. QED BY <2>2, <2>3, <3>1
  <2>5. QED BY <2>2, <2>4
<1>5. CASE Folds(Rec.f)
  <2>1. Rec.acc \in V
    BY <1>2, <1>5 DEF PushesNull
  <2>2. <<Rec.acc>> \in Seq(V) /\ Len(<<Rec.acc>>) = 1
    BY <2>1
  <2> HIDE DEF h, V
  <2>3. <<Rec.acc>> \o h \in Seq(V) /\ Len(<<Rec.acc>> \o h) = 1 + Len(h)
    BY <1>4, <2>2, ConcatProperties
  <2>4. ArgcOf(Rec.f) = 2 /\ Pushes(Rec.f) = 1
    BY <1>5 DEF ArgcOf, Pushes, Folds
  <2>5. Pushed = <<Rec.acc>> \o h
    BY <1>5 DEF Pushed, h
  <2>6. Pushed \in Seq(V) /\ Len(Pushed) = 1 + Len(h)
    BY <2>3, <2>5
  <2>7. Len(h) = 1
    BY <1>3, <2>4
  <2>8. QED BY <2>4, <2>6, <2>7 DEF V
<1>6. CASE ~Folds(Rec.f)
  <2>1. ArgcOf(Rec.f) \in Nat /\ (Rec.f # "map-index" => ArgcOf(Rec.f) = Pushes(Rec.f))
    BY <1>2, <1>6 DEF ArgcOf, Pushes, Folds, CallsBack
  <2>2. QED BY <1>3, <1>4, <1>6, <2>1 DEF Pushed
<1>7. QED BY <1>5, <1>6

LEMMA LoopCalls ==
  ASSUME Machine, TypeInv, InEach, ~NoMore
  PROVE  LET c == [ctl EXCEPT ![Depth] = Called]
         IN  /\ [ctl EXCEPT ![Depth].todo = Tail(@), ![Depth].waits = TRUE] = c
             /\ c \in Seq(Recs(prog)) /\ Len(c) = Depth /\ c # <<>>
             /\ c[Depth] = Called /\ \A k \in 1 .. Depth - 1 : c[k] = ctl[k]
<1>1. Rec \in EachRecs(prog) /\ Rec.todo # <<>> /\ ctl # <<>> /\ ctl \in Seq(Recs(prog))
  BY Running DEF NoMore, TypeInv
<1>2. /\ Rec.todo \in Seq(Args(prog))
      /\ \A i \in DOMAIN Rec.todo : Len(Rec.todo[i]) = Pushes(Rec.f)
      /\ Rec.acc \in Value(prog) \cup {Null} /\ (~Folds(Rec.f) => Rec.acc[1] = "list")
  BY <1>1 DEF EachRecs
<1> DEFINE t == Tail(Rec.todo)
<1>3. t \in Seq(Args(prog)) /\ \A i \in DOMAIN t : Len(t[i]) = Pushes(Rec.f)
  <2>1. Len(Rec.todo) \in Nat /\ DOMAIN Rec.todo = 1 .. Len(Rec.todo)
    BY <1>2, LenProperties
  <2>2. /\ t \in Seq(Args(prog)) /\ DOMAIN t = 1 .. Len(Rec.todo) - 1
        /\ \A i \in DOMAIN t : t[i] = Rec.todo[i + 1]
    BY <1>1, <1>2, <2>1, HeadTailProperties
  <2>3. \A i \in DOMAIN t : i + 1 \in DOMAIN Rec.todo
    BY <2>1, <2>2
  <2>4. QED BY <1>2, <2>2, <2>3
<1>4. Called = [Rec EXCEPT !.todo = t, !.waits = TRUE, !.acc = Rec.acc]
  BY <1>1 DEF Called, EachRecs
<1> HIDE DEF t
<1>5. Called \in Recs(prog)
  BY <1>1, <1>2, <1>3, <1>4 DEF EachRecs, Recs
<1>6. LET c == [ctl EXCEPT ![Depth] = Called]
      IN  /\ c \in Seq(Recs(prog)) /\ Len(c) = Depth /\ c # <<>>
          /\ c[Depth] = Called /\ \A k \in 1 .. Depth - 1 : c[k] = ctl[k]
  <2> DEFINE r == Called
  <2>1. r \in Recs(prog)
    BY <1>5
  <2> HIDE DEF r
  <2>2. LET d == [ctl EXCEPT ![Len(ctl)] = r]
        IN  /\ d \in Seq(Recs(prog)) /\ Len(d) = Len(ctl) /\ d # <<>>
            /\ d[Len(ctl)] = r
            /\ \A k \in 1 .. Len(ctl) - 1 : d[k] = ctl[k]
    BY <1>1, <2>1, LastChanged
  <2>3. QED BY <2>2 DEF Depth, r
<1>7. [ctl EXCEPT ![Depth].todo = Tail(@), ![Depth].waits = TRUE]
        = [ctl EXCEPT ![Depth] = Called]
  <2>1. Depth \in DOMAIN ctl /\ Rec = ctl[Depth]
    BY <1>1, Running, LenProperties DEF Depth
  <2>2. QED BY <2>1 DEF Called
<1>8. QED BY <1>6, <1>7

\* What EachTake keeps of the value it pops.
Took == IF Folds(Rec.f) THEN LastOf(stack) ELSE <<"list", Append(Rec.acc[2], LastOf(stack))>>

LEMMA LoopTakes ==
  ASSUME Machine, TypeInv, InEach
  PROVE  LET r == [Rec EXCEPT !.waits = FALSE, !.acc = Took]
             c == [ctl EXCEPT ![Depth] = r]
         IN  /\ [ctl EXCEPT ![Depth].waits = FALSE,
                            ![Depth].acc = IF Folds(Rec.f) THEN LastOf(stack)
                                           ELSE <<"list", Append(@[2], LastOf(stack))>>] = c
             /\ c \in Seq(Recs(prog)) /\ Len(c) = Depth /\ c # <<>>
             /\ c[Depth] = r /\ \A k \in 1 .. Depth - 1 : c[k] = ctl[k]
<1> DEFINE A == Value(prog) \cup {Null}
<1>1. Rec \in EachRecs(prog) /\ ctl # <<>> /\ ctl \in Seq(Recs(prog))
  BY Running DEF TypeInv
<1>2. /\ Rec.todo \in Seq(Args(prog)) /\ prog \in Programs
      /\ \A i \in DOMAIN Rec.todo : Len(Rec.todo[i]) = Pushes(Rec.f)
      /\ Rec.acc \in A /\ (~Folds(Rec.f) => Rec.acc[1] = "list")
  BY <1>1 DEF EachRecs, TypeInv
<1>3. LastOf(stack) \in A
  BY PoppedTyped DEF TypeInv
<1>4. Took \in A /\ (~Folds(Rec.f) => Took[1] = "list")
  <2>1. CASE Folds(Rec.f)
    BY <1>3, <2>1 DEF Took
  <2>2. CASE ~Folds(Rec.f)
    <3>1. Rec.acc \in Value(prog)
      BY <1>2, <2>2 DEF Null
    <3>2. Rec.acc[2] \in Seq(A)
      BY <1>2, <2>2, <3>1 DEF Machine, ValuesAreValues, Args
    <3>3. Append(Rec.acc[2], LastOf(stack)) \in Seq(A)
      BY <1>3, <3>2, AppendProperties
    <3>4. List(Append(Rec.acc[2], LastOf(stack))) \in Value(prog)
      BY <1>2, <3>3 DEF Machine, ValuesAreValues, Args
    <3>5. QED BY <2>2, <3>4 DEF Took, List
  <2>3. QED BY <2>1, <2>2
<1> DEFINE r == [Rec EXCEPT !.waits = FALSE, !.acc = Took]
<1>5. r \in Recs(prog)
  BY <1>1, <1>2, <1>4 DEF EachRecs, Recs
<1>6. LET c == [ctl EXCEPT ![Depth] = r]
      IN  /\ c \in Seq(Recs(prog)) /\ Len(c) = Depth /\ c # <<>>
          /\ c[Depth] = r /\ \A k \in 1 .. Depth - 1 : c[k] = ctl[k]
  <2> HIDE DEF r
  <2>1. LET d == [ctl EXCEPT ![Len(ctl)] = r]
        IN  /\ d \in Seq(Recs(prog)) /\ Len(d) = Len(ctl) /\ d # <<>>
            /\ d[Len(ctl)] = r
            /\ \A k \in 1 .. Len(ctl) - 1 : d[k] = ctl[k]
    BY <1>1, <1>5, LastChanged
  <2>2. QED BY <2>1 DEF Depth
<1>7. [ctl EXCEPT ![Depth].waits = FALSE,
                  ![Depth].acc = IF Folds(Rec.f) THEN LastOf(stack)
                                 ELSE <<"list", Append(@[2], LastOf(stack))>>]
        = [ctl EXCEPT ![Depth] = [Rec EXCEPT !.waits = FALSE, !.acc = Took]]
  <2>1. Depth \in DOMAIN ctl /\ Rec = ctl[Depth]
    BY <1>1, Running, LenProperties DEF Depth
  <2>2. Rec.acc = [Rec EXCEPT !.waits = FALSE].acc
    BY <1>1 DEF EachRecs
  <2>3. QED BY <2>1, <2>2 DEF Took
<1>8. QED BY <1>6, <1>7

-----------------------------------------------------------------------------
\* The calls in progress, when one is over.
LEMMA ReturnedTyped ==
  ASSUME TypeInv, ctl # <<>>
  PROVE  /\ Returned \in Seq(Recs(prog)) /\ Len(Returned) = Depth - 1
         /\ \A k \in 1 .. Depth - 1 : Returned[k] = ctl[k]
<1>1. ctl \in Seq(Recs(prog)) /\ Depth \in Nat /\ Depth >= 1 /\ Depth = Len(ctl)
  BY Running DEF TypeInv, Depth
<1>2. QED BY <1>1 DEF Returned

\* Instructions that change nothing but the stack and where the code is.
LEMMA PlainStep ==
  ASSUME Machine, TypeInv, NEW op, At(op),
         UNCHANGED <<prog, code, globals, intr>>, stack' \in Seq(Value(prog)),
         \E n \in Nexts(code, Rec.fun, Rec.ip) : ctl' = GoesTo(n)
  PROVE  TypeInv'
<1>1. ctl' \in Seq(Recs(prog))
  BY MovesTyped
<1>2. QED BY <1>1 DEF TypeInv

\* What CALL calls.
LEMMA CalleeTyped ==
  ASSUME Machine, TypeInv, At("call"), IsFun(Callee)
  PROVE  Callee \in Value(prog) /\ In[4] \in Nat
<1>1. prog \in Programs /\ code = CodeOf(prog)
  BY DEF TypeInv
<1>2. In[3] \in Value(prog) \cup {Null}
  BY <1>1, Instruction DEF Machine, CodeIsMade
<1>3. ~IsFun(Null)
  BY DEF IsFun, Null
<1>4. Callee \in Value(prog)
  BY <1>2, <1>3 DEF Callee, NoFun, TypeInv
<1>5. WellMade(code)
  BY <1>1 DEF Machine, CodeIsMade
<1>6. QED BY <1>4, <1>5, Instruction DEF WellMade

THEOREM TypeStep ==
  ASSUME Machine, TypeInv, [Next]_vars
  PROVE  TypeInv'
<1> DEFINE V == Value(prog)
<1>1. /\ prog \in Programs /\ code = CodeOf(prog) /\ stack \in Seq(V)
      /\ ctl \in Seq(Recs(prog)) /\ \A s \in DOMAIN globals : globals[s] \in V
  BY DEF TypeInv
<1>2. Nil \in V
  BY <1>1 DEF Machine, ValuesAreValues
<1>3. CASE Nothing
  BY <1>1, <1>3, MovesTyped, PlainStep DEF Nothing
<1>4. CASE PushValue
  <2>1. At("push") /\ stack' = Append(stack, In[2]) /\ ctl' = Moved
        /\ UNCHANGED <<prog, code, globals, intr>>
    BY <1>4 DEF PushValue
  <2>2. In[2] \in V
    BY <1>1, <2>1, Instruction DEF Machine, CodeIsMade
  <2>3. stack' \in Seq(V)
    BY <1>1, <2>1, <2>2, AppendProperties
  <2>4. QED BY <2>1, <2>3, MovesTyped, PlainStep
<1>5. CASE LoadArg
  <2> DEFINE i == Rec.base + In[2]
  <2>1. At("load") /\ stack' = (IF i <= Len(stack) THEN Append(stack, stack[i]) ELSE stack)
        /\ ctl' = Moved /\ UNCHANGED <<prog, code, globals, intr>>
    BY <1>5 DEF LoadArg
  <2>2. Rec.base \in Nat /\ Rec.base >= 1
    BY <2>1, Instruction DEF LispRecs
  <2>3. In[2] \in Nat
    <3>1. WellMade(code)
      BY <1>1 DEF Machine, CodeIsMade
    <3>2. QED BY <2>1, <3>1, Instruction DEF WellMade
  <2>4. Len(stack) \in Nat /\ i \in Nat /\ i >= 1
    BY <1>1, <2>2, <2>3, LenProperties
  <2> HIDE DEF i
  <2>5. i <= Len(stack) => Append(stack, stack[i]) \in Seq(V)
    <3>1. i <= Len(stack) => stack[i] \in V
      BY <1>1, <2>4, ElementOfSeq
    <3>2. QED BY <1>1, <3>1, AppendProperties
  <2>6. stack' \in Seq(V)
    BY <1>1, <2>1, <2>5
  <2>7. QED BY <2>1, <2>6, MovesTyped, PlainStep
<1>6. CASE Get
  <2> DEFINE v == IF In[2] \in DOMAIN globals THEN globals[In[2]] ELSE Nil
  <2>1. At("get") /\ stack' = Append(stack, v) /\ ctl' = Moved
        /\ UNCHANGED <<prog, code, globals, intr>>
    BY <1>6 DEF Get
  <2>2. v \in V
    BY <1>1, <1>2
  <2> HIDE DEF v
  <2>3. stack' \in Seq(V)
    BY <1>1, <2>1, <2>2, AppendProperties
  <2>4. QED BY <2>1, <2>3, MovesTyped, PlainStep
<1>7. CASE Set
  <2>1. /\ At("set") /\ ctl' = Moved /\ UNCHANGED <<prog, code, stack, intr>>
        /\ globals' = IF stack = <<>> THEN globals
                      ELSE [s \in DOMAIN globals \cup {In[2]} |->
                              IF s = In[2] THEN Last(stack) ELSE globals[s]]
    BY <1>7 DEF Set
  <2>2. stack # <<>> => Last(stack) \in V
    BY <1>1, PoppedTyped DEF LastOf
  <2>3. \A s \in DOMAIN globals' : globals'[s] \in V
    BY <1>1, <2>1, <2>2
  <2>4. ctl' \in Seq(Recs(prog))
    BY <2>1, MovesTyped
  <2>5. QED BY <2>1, <2>3, <2>4 DEF TypeInv
<1>8. CASE Jump
  <2>1. At("jmp") /\ ctl' = [ctl EXCEPT ![Depth].ip = Target(In[2])]
        /\ UNCHANGED <<prog, code, stack, globals, intr>>
    BY <1>8 DEF Jump
  <2>2. QED BY <1>1, <2>1, MovesTyped, PlainStep
<1>9. CASE JumpIfNil
  <2>1. /\ At("jn") /\ stack' = Popped
        /\ ctl' = IF IsNil(LastOf(stack)) THEN [ctl EXCEPT ![Depth].ip = Target(In[2])] ELSE Moved
        /\ UNCHANGED <<prog, code, globals, intr>>
    BY <1>9 DEF JumpIfNil
  <2>2. stack' \in Seq(V)
    BY <1>1, <2>1, PoppedTyped
  <2>3. QED BY <2>1, <2>2, MovesTyped, PlainStep
<1>10. CASE Call
  <2>1. /\ At("call") /\ IsFun(Callee) /\ Invoke(Callee, In[4], stack, Moved)
        /\ UNCHANGED <<prog, code, globals, intr>>
    BY <1>10 DEF Call
  <2>2. Callee \in V /\ In[4] \in Nat
    BY <2>1, CalleeTyped
  <2>4. Moved \in Seq(Recs(prog))
    BY <2>1, MovesTyped
  <2>5. stack' \in Seq(V) /\ ctl' \in Seq(Recs(prog))
    BY <1>1, <2>1, <2>2, <2>4, InvokeTyped
  <2>6. QED BY <2>1, <2>5 DEF TypeInv
<1>11. CASE CallFails
  BY <1>1, <1>11, MovesTyped, PlainStep DEF CallFails
<1>12. CASE Return
  <2>1. InLisp /\ stack' = Dropped(Rec) /\ ctl' = Returned
        /\ UNCHANGED <<prog, code, globals, intr>>
    BY <1>12 DEF Return
  <2>2. Rec \in LispRecs(prog) /\ ctl # <<>>
    BY <2>1, Running
  <2>3. Dropped(Rec) \in Seq(V)
    BY <1>1, <2>2, DroppedTyped DEF LispRecs
  <2>4. QED BY <2>1, <2>2, <2>3, ReturnedTyped DEF TypeInv
<1>13. CASE EachCall
  <2>1. /\ InEach /\ ~Rec.waits /\ ~NoMore /\ ~PushesNull
        /\ Invoke(Rec.fn, ArgcOf(Rec.f), stack \o Pushed,
                  [ctl EXCEPT ![Depth].todo = Tail(@), ![Depth].waits = TRUE])
        /\ UNCHANGED <<prog, code, globals, intr>>
    BY <1>13 DEF EachCall, Pushed
  <2>2. Rec.fn \in V
    BY <2>1, Running DEF EachRecs
  <2>3. stack \o Pushed \in Seq(V) /\ ArgcOf(Rec.f) \in Nat
    BY <1>1, <2>1, LoopPushes, ConcatProperties
  <2>4. [ctl EXCEPT ![Depth].todo = Tail(@), ![Depth].waits = TRUE] \in Seq(Recs(prog))
    BY <2>1, LoopCalls
  <2>5. stack' \in Seq(V) /\ ctl' \in Seq(Recs(prog))
    BY <1>1, <2>1, <2>2, <2>3, <2>4, InvokeTyped
  <2>6. QED BY <2>1, <2>5 DEF TypeInv
<1>14. CASE EachAborts
  <2>1. stack' = <<>> /\ ctl' = <<>> /\ UNCHANGED <<prog, code, globals, intr>>
    BY <1>14 DEF EachAborts
  <2>2. <<>> \in Seq(V) /\ <<>> \in Seq(Recs(prog))
    OBVIOUS
  <2>3. QED BY <2>1, <2>2 DEF TypeInv
<1>15. CASE EachTake
  <2>1. InEach /\ stack' = Popped /\ UNCHANGED <<prog, code, globals, intr>>
        /\ ctl' \in Seq(Recs(prog))
    BY <1>15, LoopTakes DEF EachTake
  <2>2. QED BY <1>1, <2>1, PoppedTyped DEF TypeInv
<1>16. CASE EachDone
  <2>1. InEach /\ stack' = PushTo(stack, Rec.acc) /\ ctl' = Returned
        /\ UNCHANGED <<prog, code, globals, intr>>
    BY <1>16 DEF EachDone
  <2>2. Rec \in EachRecs(prog) /\ ctl # <<>>
    BY <2>1, Running
  <2>3. Rec.acc \in V \cup {Null}
    BY <2>2 DEF EachRecs
  <2>4. stack' \in Seq(V)
    BY <1>1, <2>1, <2>3, PushToType
  <2>5. QED BY <2>1, <2>2, <2>4, ReturnedTyped DEF TypeInv
<1>17. CASE Interrupt
  BY <1>17 DEF Interrupt, TypeInv
<1>18. CASE UNCHANGED vars
  BY <1>18 DEF vars, TypeInv
<1>19. QED BY <1>3, <1>4, <1>5, <1>6, <1>7, <1>8, <1>9, <1>10, <1>11, <1>12, <1>13, <1>14,
              <1>15, <1>16, <1>17, <1>18 DEF Next, Step

THEOREM TypeStart ==
  ASSUME Machine, Init
  PROVE  TypeInv
<1>1. prog \in Programs /\ code = CodeOf(prog) /\ stack = <<>> /\ ctl = <<Lisp(1, <<>>, 0)>>
      /\ globals = code.syms /\ intr = FALSE
  BY DEF Init
<1>2. 1 \in DOMAIN CodeOf(prog).irs /\ <<>> \in Seq(Value(prog))
  BY <1>1 DEF Machine, CodeIsMade
<1>3. Lisp(1, <<>>, 0) \in Recs(prog)
  BY <1>1, <1>2, LispTyped DEF Recs
<1> HIDE DEF Recs
<1>4. ctl \in Seq(Recs(prog))
  BY <1>1, <1>3
<1>5. \A s \in DOMAIN globals : globals[s] \in Value(prog)
  BY <1>1 DEF Machine, CodeIsMade
<1>6. QED BY <1>1, <1>2, <1>4, <1>5 DEF TypeInv

LEMMA TypeInvIsEnough ==
  ASSUME Machine, TypeInv
  PROVE  TypeOK
<1>1. /\ prog \in Programs /\ code = CodeOf(prog) /\ stack \in Seq(Value(prog))
      /\ ctl \in Seq(Recs(prog)) /\ intr \in BOOLEAN
      /\ \A s \in DOMAIN globals : globals[s] \in Value(prog)
  BY DEF TypeInv
<1>2. \A v \in Value(prog) : v[1] \in Kinds
  BY <1>1, ValuesNotNull
<1>3. \A i \in DOMAIN stack : stack[i] \in Value(prog)
  BY <1>1, LenProperties, ElementOfSeq
<1>4. \A k \in DOMAIN ctl : ctl[k] \in Recs(prog)
  BY <1>1, LenProperties, ElementOfSeq
<1>5. \A r \in Recs(prog) : r.kind = "each" \/ r.ip \in 1 .. Len(Body(r.fun)) + 1
  BY <1>1 DEF Recs, LispRecs, EachRecs, Body
<1>6. QED BY <1>1, <1>2, <1>3, <1>4, <1>5 DEF TypeOK

LEMMA TypeHolds == ASSUME Machine PROVE Spec => []TypeInv
<1>1. Init => TypeInv
  BY TypeStart
<1>2. TypeInv /\ [Next]_vars => TypeInv'
  BY TypeStep
<1>3. QED BY <1>1, <1>2, PTL DEF Spec

\* TypeOK: whatever the code and the library, the stack and the globals hold
\* values of the known kinds, never the NULL that a library function gives to say
\* that it has none, and no jump leaves the body of a function.
THEOREM TypeCorrect == ASSUME Machine PROVE Spec => []TypeOK
<1>1. TypeInv => TypeOK
  BY TypeInvIsEnough
<1>2. QED BY <1>1, TypeHolds, PTL

-----------------------------------------------------------------------------
(***************************************************************************)
(* How many values there are.                                              *)
(***************************************************************************)
\* A call gives at least as many arguments as its function has parameters, and
\* the loop is not map-index, which pushes two arguments and says it is one.
Given ==
  \A k \in 1 .. Depth : IF ctl[k].kind = "lisp"
                        THEN ctl[k].argc >= Len(code.params[ctl[k].fun])
                        ELSE ctl[k].f # "map-index"

\* w values are on the stack while the call r runs, and b are when it is over.
Main(p, r, w) ==
  /\ r.kind = "lisp" /\ r.fun = 1 /\ r.argc = 0 /\ r.own = 0 /\ r.base = 1
  /\ Height(p)[1][r.ip] <= w

InnerLisp(p, r, b, w) ==
  /\ r.fun # 1 /\ r.argc <= r.own
  /\ r.base = IF r.argc = 0 THEN 1 ELSE r.own - r.argc + 1
  /\ r.own + Height(p)[r.fun][r.ip] = w
  /\ b = r.own - r.argc + 1

InnerEach(r, b, w) == IF r.waits THEN b = w /\ w >= 1 ELSE b = w + 1

Inner(p, r, b, w) == IF r.kind = "lisp" THEN InnerLisp(p, r, b, w) ELSE InnerEach(r, b, w)

\* n values are what the calls c in progress account for.  A call that is not the
\* innermost counts with the value of the one it waits for.
Built(p, c, n) ==
  \E W \in [1 .. Len(c) -> Nat] :
    /\ Len(c) > 0 => W[Len(c)] = n /\ Main(p, c[1], W[1])
    /\ \A k \in 2 .. Len(c) : Inner(p, c[k], W[k - 1], W[k])
    /\ \A k \in 1 .. Len(c) - 1 : c[k].kind = "each" => c[k].waits

HeightInv == (~intr /\ Quiet) => Built(prog, ctl, Len(stack))

\* No call at all, the innermost call over, one more, the innermost gone on.
LEMMA NoCalls ==
  ASSUME NEW p, NEW n
  PROVE  Built(p, <<>>, n)
<1> DEFINE c == <<>>
           U == [k \in 1 .. Len(c) |-> 0]
<1>1. Len(c) = 0
  OBVIOUS
<1>2. U \in [1 .. Len(c) -> Nat]
  OBVIOUS
<1> HIDE DEF c, U
<1>3. /\ ~(Len(c) > 0)
      /\ \A k \in 2 .. Len(c) : FALSE
      /\ \A k \in 1 .. Len(c) - 1 : FALSE
  BY <1>1
<1>4. Built(p, c, n)
  BY <1>2, <1>3 DEF Built
<1>5. QED BY <1>4 DEF c

LEMMA CallOver ==
  ASSUME NEW p, NEW c, NEW n, Built(p, c, n), Len(c) \in Nat, Len(c) > 1,
         NEW d, Len(d) = Len(c) - 1, \A k \in 1 .. Len(d) : d[k] = c[k],
         NEW m, \A b \in Nat : Inner(p, c[Len(c)], b, n) => b = m
  PROVE  Built(p, d, m)
<1> DEFINE l == Len(c)
<1>1. PICK W \in [1 .. l -> Nat] :
        /\ W[l] = n /\ Main(p, c[1], W[1])
        /\ \A k \in 2 .. l : Inner(p, c[k], W[k - 1], W[k])
        /\ \A k \in 1 .. l - 1 : c[k].kind = "each" => c[k].waits
  BY DEF Built
<1> HIDE DEF l
<1>2. l \in Nat /\ l > 1 /\ Len(d) = l - 1 /\ \A k \in 1 .. l - 1 : d[k] = c[k]
  BY DEF l
<1> DEFINE U == [k \in 1 .. l - 1 |-> W[k]]
<1>3. U \in [1 .. l - 1 -> Nat] /\ \A k \in 1 .. l - 1 : U[k] = W[k]
  BY <1>1, <1>2
<1>4. U[l - 1] = m
  <2>1. l \in 2 .. l /\ l - 1 \in 1 .. l
    BY <1>2
  <2>2. Inner(p, c[l], W[l - 1], n) /\ W[l - 1] \in Nat
    BY <1>1, <2>1
  <2>3. W[l - 1] = m
    BY <2>2 DEF l
  <2>4. QED BY <1>2, <1>3, <2>3
<1>5. Main(p, d[1], U[1])
  BY <1>1, <1>2, <1>3
<1>6. \A k \in 2 .. l - 1 : Inner(p, d[k], U[k - 1], U[k])
  <2>1. \A k \in 2 .. l - 1 : /\ k \in 2 .. l /\ k - 1 \in 1 .. l - 1 /\ k \in 1 .. l - 1
    BY <1>2
  <2>2. QED BY <1>1, <1>2, <1>3, <2>1
<1>7. \A k \in 1 .. l - 1 - 1 : d[k].kind = "each" => d[k].waits
  <2>1. \A k \in 1 .. l - 1 - 1 : k \in 1 .. l - 1
    BY <1>2
  <2>2. QED BY <1>1, <1>2, <2>1
<1> HIDE DEF U
<1>8. QED BY <1>2, <1>3, <1>4, <1>5, <1>6, <1>7 DEF Built

LEMMA CallMore ==
  ASSUME NEW p, NEW c, NEW n, Built(p, c, n), Len(c) \in Nat, Len(c) > 0,
         c[Len(c)].kind = "each" => c[Len(c)].waits,
         NEW d, Len(d) = Len(c) + 1, \A k \in 1 .. Len(c) : d[k] = c[k],
         NEW m \in Nat, Inner(p, d[Len(d)], n, m)
  PROVE  Built(p, d, m)
<1> DEFINE l == Len(c)
<1>1. PICK W \in [1 .. l -> Nat] :
        /\ W[l] = n /\ Main(p, c[1], W[1])
        /\ \A k \in 2 .. l : Inner(p, c[k], W[k - 1], W[k])
        /\ \A k \in 1 .. l - 1 : c[k].kind = "each" => c[k].waits
  BY DEF Built
<1>2. /\ l \in Nat /\ l > 0 /\ Len(d) = l + 1 /\ \A k \in 1 .. l : d[k] = c[k]
      /\ c[l].kind = "each" => c[l].waits
      /\ Inner(p, d[l + 1], n, m)
  OBVIOUS
<1> HIDE DEF l
<1> DEFINE U == [k \in 1 .. l + 1 |-> IF k = l + 1 THEN m ELSE W[k]]
<1>3. /\ U \in [1 .. l + 1 -> Nat] /\ U[l + 1] = m
      /\ \A k \in 1 .. l : U[k] = W[k]
  BY <1>1, <1>2
<1>4. Main(p, d[1], U[1])
  BY <1>1, <1>2, <1>3
<1>5. ASSUME NEW k \in 2 .. l + 1
      PROVE  Inner(p, d[k], U[k - 1], U[k])
  <2>1. CASE k = l + 1
    <3>1. k - 1 = l /\ l \in 1 .. l
      BY <1>2, <2>1
    <3>2. U[k - 1] = n
      BY <1>1, <1>3, <3>1
    <3>3. QED BY <1>2, <1>3, <2>1, <3>2
  <2>2. CASE k # l + 1
    <3>1. k \in 2 .. l /\ k \in 1 .. l /\ k - 1 \in 1 .. l
      BY <1>2, <2>2
    <3>2. QED BY <1>1, <1>2, <1>3, <3>1
  <2>3. QED BY <2>1, <2>2
<1>6. \A k \in 1 .. l + 1 - 1 : d[k].kind = "each" => d[k].waits
  <2>1. \A k \in 1 .. l + 1 - 1 : k \in 1 .. l /\ (k = l \/ k \in 1 .. l - 1)
    BY <1>2
  <2>2. QED BY <1>1, <1>2, <2>1
<1> HIDE DEF U
<1>7. /\ U \in [1 .. Len(d) -> Nat] /\ U[Len(d)] = m
      /\ \A k \in 2 .. Len(d) : Inner(p, d[k], U[k - 1], U[k])
      /\ \A k \in 1 .. Len(d) - 1 : d[k].kind = "each" => d[k].waits
  BY <1>2, <1>3, <1>5, <1>6
<1>8. QED BY <1>4, <1>7 DEF Built

LEMMA CallGoesOn ==
  ASSUME NEW p, NEW c, NEW n, Built(p, c, n), Len(c) \in Nat, Len(c) > 0,
         NEW d, Len(d) = Len(c), \A k \in 1 .. Len(c) - 1 : d[k] = c[k],
         NEW m \in Nat,
         Len(c) = 1 => (Main(p, c[1], n) => Main(p, d[1], m)),
         Len(c) > 1 => \A b \in Nat : Inner(p, c[Len(c)], b, n) => Inner(p, d[Len(c)], b, m)
  PROVE  Built(p, d, m)
<1> DEFINE l == Len(c)
<1>1. PICK W \in [1 .. l -> Nat] :
        /\ W[l] = n /\ Main(p, c[1], W[1])
        /\ \A k \in 2 .. l : Inner(p, c[k], W[k - 1], W[k])
        /\ \A k \in 1 .. l - 1 : c[k].kind = "each" => c[k].waits
  BY DEF Built
<1>2. /\ l \in Nat /\ l > 0 /\ Len(d) = l /\ \A k \in 1 .. l - 1 : d[k] = c[k]
      /\ l = 1 => (Main(p, c[1], n) => Main(p, d[1], m))
      /\ l > 1 => \A b \in Nat : Inner(p, c[l], b, n) => Inner(p, d[l], b, m)
  OBVIOUS
<1> HIDE DEF l
<1> DEFINE U == [k \in 1 .. l |-> IF k = l THEN m ELSE W[k]]
<1>3. /\ U \in [1 .. l -> Nat] /\ U[l] = m
      /\ \A k \in 1 .. l - 1 : U[k] = W[k]
  BY <1>1, <1>2
<1>4. Main(p, d[1], U[1])
  <2>1. CASE l = 1
    BY <1>1, <1>2, <1>3, <2>1
  <2>2. CASE l # 1
    <3>1. 1 \in 1 .. l - 1
      BY <1>2, <2>2
    <3>2. QED BY <1>1, <1>2, <1>3, <3>1
  <2>3. QED BY <2>1, <2>2
<1>5. ASSUME NEW k \in 2 .. l
      PROVE  Inner(p, d[k], U[k - 1], U[k])
  <2>1. k - 1 \in 1 .. l - 1 /\ k - 1 \in 1 .. l /\ k \in 1 .. l /\ l > 1
    BY <1>2
  <2>2. U[k - 1] = W[k - 1] /\ W[k - 1] \in Nat
    BY <1>1, <1>3, <2>1
  <2>3. CASE k = l
    <3>1. Inner(p, c[l], W[k - 1], n)
      BY <1>1, <2>3
    <3>2. Inner(p, d[l], W[k - 1], m)
      BY <1>2, <2>1, <2>2, <3>1
    <3>3. QED BY <1>3, <2>2, <2>3, <3>2
  <2>4. CASE k # l
    <3>1. k \in 1 .. l - 1
      BY <1>2, <2>4
    <3>2. QED BY <1>1, <1>2, <1>3, <2>2, <3>1
  <2>5. QED BY <2>3, <2>4
<1>6. \A k \in 1 .. l - 1 : d[k].kind = "each" => d[k].waits
  BY <1>1, <1>2
<1> HIDE DEF U
<1>7. QED BY <1>2, <1>3, <1>4, <1>5, <1>6 DEF Built

-----------------------------------------------------------------------------
\* What a balanced function has of its own on the stack.
LEMMA Balance ==
  ASSUME Machine, CodeBalanced, NEW p \in Programs, NEW f \in DOMAIN CodeOf(p).irs
  PROVE  LET c == CodeOf(p)
             l == Len(c.irs[f])
             H == Height(p)[f]
         IN  /\ l \in Nat /\ DOMAIN c.irs[f] = 1 .. l
             /\ H \in [1 .. l + 1 -> Nat] /\ H[1] = 0 /\ (f # 1 => H[l + 1] = 1)
             /\ \A ip \in 1 .. l : \A n \in Nexts(c, f, ip) :
                  /\ Needs(c.irs[f][ip]) <= H[ip]
                  /\ n \in 1 .. l + 1
                  /\ f # 1 => H[n] = After(c.irs[f][ip], H[ip])
                  /\ H[n] <= After(c.irs[f][ip], H[ip])
<1> DEFINE c == CodeOf(p)
           l == Len(c.irs[f])
           H == Height(p)[f]
<1>1. l \in Nat /\ DOMAIN c.irs[f] = 1 .. l /\ WellMade(c)
  BY DEF Machine, CodeIsMade
<1>2. BalancedBy(c, Height(p))
  BY DEF CodeBalanced
<1>3. /\ H \in [1 .. l + 1 -> Nat] /\ H[1] = 0 /\ (f # 1 => H[l + 1] = 1)
      /\ \A ip \in 1 .. l :
           /\ Needs(c.irs[f][ip]) <= H[ip]
           /\ \A n \in Nexts(c, f, ip) : \/ H[n] = After(c.irs[f][ip], H[ip])
                                         \/ f = 1 /\ H[n] <= After(c.irs[f][ip], H[ip])
  BY <1>1, <1>2 DEF BalancedBy
<1>4. \A ip \in 1 .. l : Nexts(c, f, ip) \subseteq 1 .. l + 1
  BY <1>1 DEF WellMade
<1>5. ASSUME NEW ip \in 1 .. l, NEW n \in Nexts(c, f, ip)
      PROVE  n \in 1 .. l + 1 /\ H[n] <= After(c.irs[f][ip], H[ip])
  <2>1. n \in 1 .. l + 1
    BY <1>4
  <2>2. H[n] \in Nat
    BY <1>3, <2>1
  <2>3. QED BY <1>3, <2>1, <2>2
<1>6. QED BY <1>1, <1>3, <1>5

\* The kinds of the records.
LEMMA RecordKinds ==
  ASSUME NEW p, NEW r \in Recs(p)
  PROVE  /\ r.kind = "lisp" => r \in LispRecs(p)
         /\ r.kind # "lisp" => r \in EachRecs(p) /\ r.kind = "each"
BY DEF Recs, LispRecs, EachRecs

\* The innermost record of a function: what it accounts for.
LEMMA Innermost ==
  ASSUME Machine, CodeBalanced, TypeInv, InLisp, Built(prog, ctl, Len(stack))
  PROVE  /\ Depth = 1 => Main(prog, ctl[1], Len(stack)) /\ ctl[1] = Rec
         /\ Depth > 1 => \E b \in Nat : InnerLisp(prog, Rec, b, Len(stack))
         /\ Rec.own + Height(prog)[Rec.fun][Rec.ip] <= Len(stack)
         /\ Rec.argc <= Rec.own /\ Rec.base = IF Rec.argc = 0 THEN 1 ELSE Rec.own - Rec.argc + 1
         /\ (Depth = 1) <=> (Rec.fun = 1)
<1>1. Depth \in Nat /\ Depth >= 1 /\ Rec = ctl[Depth] /\ Rec \in LispRecs(prog)
      /\ Rec.kind = "lisp"
  BY Running DEF InLisp
<1>2. PICK W \in [1 .. Depth -> Nat] :
        /\ W[Depth] = Len(stack) /\ Main(prog, ctl[1], W[1])
        /\ \A k \in 2 .. Depth : Inner(prog, ctl[k], W[k - 1], W[k])
  BY <1>1 DEF Built, Depth
<1>3. CASE Depth = 1
  <2>1. Main(prog, Rec, Len(stack))
    BY <1>1, <1>2, <1>3
  <2>2. Rec.own = 0 /\ Rec.argc = 0 /\ Rec.base = 1 /\ Rec.fun = 1
        /\ Height(prog)[1][Rec.ip] <= Len(stack)
    BY <2>1 DEF Main
  <2>3. Height(prog)[1][Rec.ip] \in Nat
    <3>1. /\ prog \in Programs /\ 1 \in DOMAIN CodeOf(prog).irs
          /\ Rec.ip \in 1 .. Len(CodeOf(prog).irs[1]) + 1
      BY <1>1, <2>2 DEF LispRecs, TypeInv
    <3>2. Height(prog)[1] \in [1 .. Len(CodeOf(prog).irs[1]) + 1 -> Nat]
      BY <3>1, Balance
    <3>3. QED BY <3>1, <3>2
  <2>4. QED BY <1>1, <1>3, <2>1, <2>2, <2>3
<1>4. CASE Depth # 1
  <2>1. Depth \in 2 .. Depth /\ Depth - 1 \in 1 .. Depth
    BY <1>1, <1>4
  <2>2. InnerLisp(prog, Rec, W[Depth - 1], Len(stack)) /\ W[Depth - 1] \in Nat
    BY <1>1, <1>2, <2>1 DEF Inner
  <2>3. Rec.own + Height(prog)[Rec.fun][Rec.ip] = Len(stack)
    BY <2>2 DEF InnerLisp
  <2>4. Len(stack) \in Nat
    BY LenProperties DEF TypeInv
  <2>5. Rec.own + Height(prog)[Rec.fun][Rec.ip] <= Len(stack)
    BY <2>3, <2>4
  <2>6. Rec.argc <= Rec.own /\ Rec.base = (IF Rec.argc = 0 THEN 1 ELSE Rec.own - Rec.argc + 1)
        /\ Rec.fun # 1
    BY <2>2 DEF InnerLisp
  <2>7. QED BY <1>1, <1>4, <2>2, <2>5, <2>6
<1>5. QED BY <1>3, <1>4

\* An instruction finds what it needs, and with what it leaves the function is as
\* far as the place where it goes on.
LEMMA MovesBuilt ==
  ASSUME Machine, CodeBalanced, TypeInv, Built(prog, ctl, Len(stack)), NEW op, At(op),
         NEW n \in Nexts(code, Rec.fun, Rec.ip)
  PROVE  /\ Needs(In) <= Len(stack) - Rec.own
         /\ Built(prog, GoesTo(n), After(In, Len(stack)))
<1> DEFINE H == Height(prog)[Rec.fun]
           h == H[Rec.ip]
           S == Len(stack)
           g == GoesTo(n)
<1>1. /\ InLisp /\ Rec \in LispRecs(prog) /\ Rec.fun \in DOMAIN code.irs
      /\ In = code.irs[Rec.fun][Rec.ip] /\ Rec.ip \in 1 .. Len(code.irs[Rec.fun])
      /\ prog \in Programs /\ code = CodeOf(prog)
  BY Instruction DEF TypeInv
<1>2. /\ H \in [1 .. Len(code.irs[Rec.fun]) + 1 -> Nat] /\ Len(code.irs[Rec.fun]) \in Nat
      /\ Needs(In) <= h /\ n \in 1 .. Len(code.irs[Rec.fun]) + 1
      /\ Rec.fun # 1 => H[n] = After(In, h)
      /\ H[n] <= After(In, h)
  BY <1>1, Balance
<1>3. h \in Nat /\ H[n] \in Nat
  <2> DEFINE K == Len(code.irs[Rec.fun])
  <2>1. K \in Nat /\ Rec.ip \in 1 .. K /\ n \in 1 .. K + 1 /\ H \in [1 .. K + 1 -> Nat]
    BY <1>1, <1>2
  <2> HIDE DEF K, H
  <2>2. Rec.ip \in 1 .. K + 1
    BY <2>1
  <2>3. QED BY <2>1, <2>2
<1>4. S \in Nat /\ Rec.own \in Nat /\ Rec.argc \in Nat
  BY <1>1, LenProperties DEF LispRecs, TypeInv
<1>5. /\ Rec.own + h <= S /\ Rec.argc <= Rec.own
      /\ (Depth = 1) <=> (Rec.fun = 1)
      /\ Depth = 1 => ctl[1] = Rec
  BY <1>1, Innermost
<1>6. In[1] = "call" => In[4] \in Nat
  <2>1. WellMade(code)
    BY <1>1 DEF Machine, CodeIsMade
  <2>2. QED BY <1>1, <2>1, Instruction DEF WellMade
<1>7. Needs(In) \in Nat /\ \A x \in Nat : /\ After(In, x) \in Int
                                          /\ After(In, x) = After(In, h) + x - h
  <2> HIDE DEF h
  <2>1. CASE In[1] = "call"
    BY <1>3, <1>6, <2>1 DEF Needs, After
  <2>2. CASE In[1] # "call"
    BY <1>3, <2>2 DEF Needs, After
  <2>3. QED BY <2>1, <2>2
<1>8. Needs(In) <= S - Rec.own
  <2>1. Needs(In) <= h /\ Needs(In) \in Nat /\ h \in Nat
    BY <1>2, <1>3, <1>7
  <2>2. Rec.own + h <= S /\ S \in Nat /\ Rec.own \in Nat
    BY <1>4, <1>5
  <2> HIDE DEF h, S
  <2>3. QED BY <2>1, <2>2
<1> DEFINE m == After(In, S)
           e == After(In, h)
<1>9. /\ Rec.own + H[n] <= m /\ m \in Nat
      /\ Rec.own + h = S /\ H[n] = e => Rec.own + H[n] = m
  <2>1. m = e + S - h /\ e \in Int
    BY <1>3, <1>4, <1>7
  <2>2. H[n] <= e
    BY <1>2
  <2> HIDE DEF h, S, m, e, H
  <2>3. QED BY <1>3, <1>4, <1>5, <2>1, <2>2
<1>10. /\ Len(g) = Depth /\ g[Depth] = [Rec EXCEPT !.ip = n]
       /\ \A k \in 1 .. Depth - 1 : g[k] = ctl[k]
       /\ Depth \in Nat /\ Depth >= 1 /\ Rec = ctl[Depth] /\ Rec.kind = "lisp"
  <2>1. n \in 1 .. Len(CodeOf(prog).irs[Rec.fun]) + 1 /\ n \in Nat
    BY <1>1, <1>2
  <2>2. QED BY <1>1, <2>1, GoesToTyped, Running DEF InLisp
<1> DEFINE r == [Rec EXCEPT !.ip = n]
<1>11. /\ r.kind = "lisp" /\ r.fun = Rec.fun /\ r.ip = n /\ r.argc = Rec.argc
       /\ r.base = Rec.base /\ r.own = Rec.own
  BY <1>1, <1>10 DEF LispRecs
<1> HIDE DEF h, m, g, r
<1>12. Depth = 1 => (Main(prog, ctl[1], S) => Main(prog, g[1], m))
  <2>1. SUFFICES ASSUME Depth = 1, Main(prog, Rec, S)
                 PROVE  Main(prog, r, m)
    BY <1>10 DEF r
  <2>2. /\ Rec.fun = 1 /\ Rec.argc = 0 /\ Rec.own = 0 /\ Rec.base = 1
    BY <2>1 DEF Main
  <2>3. H[n] <= m
    BY <1>3, <1>9, <2>2
  <2>4. QED BY <1>11, <2>2, <2>3 DEF Main
<1>13. Depth > 1 => \A b \in Nat : Inner(prog, ctl[Depth], b, S) => Inner(prog, g[Depth], b, m)
  <2>1. SUFFICES ASSUME Depth > 1, NEW b \in Nat, InnerLisp(prog, Rec, b, S)
                 PROVE  InnerLisp(prog, r, b, m)
    BY <1>10, <1>11 DEF r, Inner
  <2>2. /\ Rec.fun # 1 /\ Rec.argc <= Rec.own
        /\ Rec.base = IF Rec.argc = 0 THEN 1 ELSE Rec.own - Rec.argc + 1
        /\ Rec.own + h = S /\ b = Rec.own - Rec.argc + 1
    BY <2>1 DEF InnerLisp, h
  <2>3. Rec.own + H[n] = m
    BY <1>2, <1>9, <2>2
  <2>4. QED BY <1>11, <2>2, <2>3 DEF InnerLisp
<1>14. Built(prog, g, m)
  <2>1. Depth = Len(ctl)
    BY DEF Depth
  <2> HIDE DEF S
  <2>2. Built(prog, ctl, S)
    BY DEF S
  <2>3. /\ Len(ctl) \in Nat /\ Len(ctl) > 0 /\ Len(g) = Len(ctl)
        /\ \A k \in 1 .. Len(ctl) - 1 : g[k] = ctl[k]
        /\ Len(ctl) = 1 => (Main(prog, ctl[1], S) => Main(prog, g[1], m))
        /\ Len(ctl) > 1 =>
             \A b \in Nat : Inner(prog, ctl[Len(ctl)], b, S) => Inner(prog, g[Len(ctl)], b, m)
    BY <1>10, <1>12, <1>13, <2>1
  <2>4. m \in Nat
    BY <1>9
  <2> HIDE DEF e
  <2>5. QED BY <2>2, <2>3, <2>4, CallGoesOn
<1>15. QED BY <1>8, <1>14 DEF m, g

\* akl_call_function_bound: with its arguments there, a function leaves one value
\* in their place, or says that it does not, or is the next one to run.
LEMMA InvokeBuilt ==
  ASSUME Machine, CodeBalanced, NEW p \in Programs, NEW f \in Value(p), NEW n \in Nat,
         NEW st \in Seq(Value(p)), n <= Len(st), NEW c \in Seq(Recs(p)), c # <<>>,
         c[Len(c)].kind = "each" => c[Len(c)].waits,
         Built(p, c, Len(st) - n + 1), Invoke(f, n, st, c), Quiet'
  PROVE  Built(p, ctl', Len(stack'))
<1> DEFINE k    == IF n < Len(st) THEN n ELSE Len(st)
           rest == SubSeq(st, 1, Len(st) - k)
           a    == SubSeq(st, Len(st) - k + 1, Len(st))
           r    == Library(f[2], a)
           over == r.told \cap {"crash", "exit"} # {}
           V    == Value(p)
<1>1. rest \in Seq(V) /\ Len(rest) = Len(st) - n /\ a \in Seq(V) /\ Len(st) \in Nat
  BY TakeOff, LenProperties
<1>2. Len(c) \in Nat /\ Len(c) > 0
  BY EmptySeq, LenProperties
<1>3. \/ /\ f[1] = "fun"
         /\ stack' = st /\ ctl' = Append(c, Lisp(f[2], st, n))
      \/ /\ f[1] = "cfun" /\ f[2] \notin CallsBack
         /\ told'  = Telling(r)
         /\ stack' = IF over THEN <<>> ELSE PushTo(rest, r.v)
         /\ ctl'   = IF over THEN <<>> ELSE c
      \/ /\ f[2] \in CallsBack /\ Accepts(f[2], a)
         /\ stack' = rest /\ ctl' = Append(c, Each(f[2], a))
      \/ stack' = Append(rest, Nil) /\ ctl' = c
  BY DEF Invoke
<1> HIDE DEF rest, a, over
<1>4. CASE f[1] = "fun" /\ stack' = st /\ ctl' = Append(c, Lisp(f[2], st, n))
  <2>1. f[2] \in DOMAIN CodeOf(p).irs /\ f[2] # 1
    BY <1>4 DEF Machine, ValuesAreValues
  <2> DEFINE l == Lisp(f[2], st, n)
             d == Append(c, l)
  <2>2. l \in Recs(p)
    BY <2>1, LispTyped DEF Recs
  <2>3. /\ l.kind = "lisp" /\ l.fun = f[2] /\ l.ip = 1 /\ l.argc = n /\ l.own = Len(st)
        /\ l.base = IF n \in 1 .. Len(st) THEN Len(st) - n + 1 ELSE 1
    BY DEF Lisp
  <2>4. Height(p)[f[2]][1] = 0
    BY <2>1, Balance
  <2> HIDE DEF l
  <2>5. InnerLisp(p, l, Len(st) - n + 1, Len(st))
    BY <1>1, <2>1, <2>3, <2>4 DEF InnerLisp
  <2>6. /\ Len(d) = Len(c) + 1 /\ d[Len(d)] = l
        /\ \A i \in 1 .. Len(c) : d[i] = c[i]
    BY <2>2, AppendProperties, LenProperties
  <2>7. Inner(p, d[Len(d)], Len(st) - n + 1, Len(st))
    BY <2>3, <2>5, <2>6 DEF Inner
  <2> HIDE DEF d
  <2>8. Built(p, d, Len(st))
    BY <1>1, <1>2, <2>6, <2>7, CallMore
  <2>9. QED BY <1>4, <2>8 DEF d, l
<1>5. CASE /\ f[1] = "cfun" /\ f[2] \notin CallsBack
           /\ told'  = Telling(r)
           /\ stack' = IF over THEN <<>> ELSE PushTo(rest, r.v)
           /\ ctl'   = IF over THEN <<>> ELSE c
  <2>1. CASE over
    BY <1>5, <2>1, NoCalls
  <2>2. CASE ~over
    <3>1. r.v # Null
      <4>1. SUFFICES ASSUME r.v = Null PROVE FALSE
        OBVIOUS
      <4>2. "null" \in told'
        BY <1>5, <2>2, <4>1 DEF Telling, over
      <4>3. QED BY <4>2 DEF Quiet
    <3>2. r.v \in V \cup {Null}
      BY <1>1, <1>5 DEF Machine, LibraryGives
    <3> HIDE DEF r
    <3>3. Len(PushTo(rest, r.v)) = Len(rest) + 1
      BY <1>1, <3>1, <3>2, PushToType
    <3>4. Len(PushTo(rest, r.v)) = Len(st) - n + 1
      BY <1>1, <3>3
    <3>5. QED BY <1>5, <2>2, <3>4
  <2>3. QED BY <2>1, <2>2
<1>6. CASE f[2] \in CallsBack /\ Accepts(f[2], a) /\ stack' = rest
           /\ ctl' = Append(c, Each(f[2], a))
  <2> DEFINE l == Each(f[2], a)
             d == Append(c, l)
  <2>1. l \in EachRecs(p) /\ l \in Recs(p)
    BY <1>1, <1>6, EachTyped DEF Recs
  <2>2. l.kind = "each" /\ l.waits = FALSE
    BY DEF Each
  <2> HIDE DEF l
  <2>3. /\ Len(d) = Len(c) + 1 /\ d[Len(d)] = l
        /\ \A i \in 1 .. Len(c) : d[i] = c[i]
    BY <2>1, AppendProperties, LenProperties
  <2>4. Inner(p, d[Len(d)], Len(st) - n + 1, Len(rest))
    BY <1>1, <2>2, <2>3 DEF Inner, InnerEach
  <2>5. Len(rest) \in Nat
    BY <1>1, LenProperties
  <2> HIDE DEF d
  <2>6. Built(p, d, Len(rest))
    BY <1>2, <2>3, <2>4, <2>5, CallMore
  <2>7. QED BY <1>6, <2>6 DEF d, l
<1>7. CASE stack' = Append(rest, Nil) /\ ctl' = c
  <2>1. Nil \in V
    BY DEF Machine, ValuesAreValues
  <2>2. Len(Append(rest, Nil)) = Len(rest) + 1
    BY <1>1, <2>1, AppendProperties
  <2>3. Len(Append(rest, Nil)) = Len(st) - n + 1
    BY <1>1, <2>2
  <2>4. QED BY <1>7, <2>3
<1>8. QED BY <1>3, <1>4, <1>5, <1>6, <1>7

\* What is on the stack when a function returns.
LEMMA Returning ==
  ASSUME Machine, CodeBalanced, TypeInv, Built(prog, ctl, Len(stack)), InLisp,
         Rec.ip > Len(Body(Rec.fun)), Depth > 1
  PROVE  /\ Rec.own + 1 = Len(stack) /\ Rec.own - Rec.argc \in 0 .. Len(stack)
         /\ Dropped(Rec) = Append(SubSeq(stack, 1, Rec.own - Rec.argc), Last(stack))
         /\ Len(Dropped(Rec)) = Rec.own - Rec.argc + 1
<1>1. Rec \in LispRecs(prog) /\ prog \in Programs /\ code = CodeOf(prog)
  BY Running DEF TypeInv
<1> DEFINE l == Len(code.irs[Rec.fun])
           S == Len(stack)
           o == Rec.own
           n == Rec.argc
           V == Value(prog)
<1>2. /\ o \in Nat /\ n \in Nat /\ S \in Nat /\ Rec.fun \in DOMAIN CodeOf(prog).irs
      /\ Rec.ip \in 1 .. l + 1 /\ l \in Nat /\ stack \in Seq(V)
  BY <1>1, Balance, LenProperties DEF LispRecs, TypeInv
<1>3. /\ Rec.fun # 1 /\ Rec.argc <= Rec.own
      /\ Rec.base = IF Rec.argc = 0 THEN 1 ELSE Rec.own - Rec.argc + 1
      /\ \E b \in Nat : InnerLisp(prog, Rec, b, S)
  BY Innermost
<1>4. Rec.ip = l + 1
  <2>1. Rec.ip > l
    BY DEF Body
  <2> HIDE DEF l
  <2>2. QED BY <1>2, <2>1
<1>5. Height(prog)[Rec.fun][Rec.ip] = 1
  BY <1>1, <1>2, <1>3, <1>4, Balance
<1>6. o + 1 = S
  BY <1>3, <1>5 DEF InnerLisp
<1> HIDE DEF l, S, o, n, V
<1>7. S = Len(stack) /\ n <= o /\ Rec.base = IF n = 0 THEN 1 ELSE o - n + 1
  BY <1>3 DEF S, n, o
<1> DEFINE low == IF Rec.base <= Len(stack) THEN Rec.base - 1 ELSE Len(stack)
<1>8. Dropped(Rec) = SubSeq(stack, 1, low) \o SubSeq(stack, Rec.base + n, Len(stack))
  BY DEF Dropped, n
<1>9. Append(SubSeq(stack, 1, o - n), Last(stack)) = Dropped(Rec)
  <2>1. CASE n = 0
    <3>1. low = 0 /\ Rec.base + n = 1
      BY <1>2, <1>6, <1>7, <2>1
    <3>2. SubSeq(stack, 1, 0) = <<>> /\ SubSeq(stack, 1, Len(stack)) = stack
      BY <1>2, SubSeqProperties
    <3>3. Dropped(Rec) = stack
      BY <1>2, <1>8, <3>1, <3>2, ConcatEmptySeq
    <3>4. stack # <<>>
      BY <1>2, <1>6, <1>7, EmptySeq
    <3>5. stack = Append(SubSeq(stack, 1, Len(stack) - 1), stack[Len(stack)])
      BY <1>2, <3>4
    <3>6. o - n = Len(stack) - 1
      BY <1>2, <1>6, <1>7, <2>1
    <3>7. QED BY <3>3, <3>5, <3>6 DEF Last
  <2>2. CASE n # 0
    <3>1. low = o - n /\ Rec.base + n = o + 1 /\ o + 1 = Len(stack)
      BY <1>2, <1>6, <1>7, <2>2
    <3>2. SubSeq(stack, 1, o - n) \in Seq(V) /\ stack[o + 1] \in V
      BY <1>2, <1>7, <3>1, ElementOfSeq
    <3>3. SubSeq(stack, o + 1, o + 1) = <<stack[o + 1]>>
      <4> DEFINE q == o + 1
                 t == SubSeq(stack, q, q)
      <4>1. q \in Int /\ \A i \in q .. q : stack[i] \in V
        BY <1>2, <3>2
      <4> HIDE DEF q
      <4>2. t \in Seq(V) /\ Len(t) = 1 /\ t[1] = stack[q]
        <5>1. /\ t \in Seq(V) /\ Len(t) = (IF q <= q THEN q - q + 1 ELSE 0)
              /\ \A i \in 1 .. q - q + 1 : t[i] = stack[q + i - 1]
          BY <4>1, SubSeqProperties
        <5>2. q - q + 1 = 1 /\ q <= q /\ q + 1 - 1 = q
          BY <4>1
        <5>3. QED BY <5>1, <5>2
      <4> HIDE DEF t
      <4>3. t = <<stack[q]>>
        BY <4>2
      <4>4. QED BY <4>3 DEF t, q
    <3>4. SubSeq(stack, 1, o - n) \o <<stack[o + 1]>> = Append(SubSeq(stack, 1, o - n), stack[o + 1])
      BY <3>2, AppendIsConcat
    <3>5. QED BY <1>8, <3>1, <3>3, <3>4 DEF Last
  <2>3. QED BY <2>1, <2>2
<1>10. o - n \in 0 .. S
  BY <1>2, <1>6, <1>7
<1>11. Len(Append(SubSeq(stack, 1, o - n), Last(stack))) = o - n + 1
  <2>1. SubSeq(stack, 1, o - n) \in Seq(V) /\ Len(SubSeq(stack, 1, o - n)) = o - n
    BY <1>2, <1>7, <1>10
  <2>2. Last(stack) \in V
    <3>1. Len(stack) \in 1 .. Len(stack)
      BY <1>2, <1>6, <1>7
    <3>2. QED BY <1>2, <3>1, ElementOfSeq DEF Last
  <2>3. QED BY <2>1, <2>2, AppendProperties
<1>12. QED BY <1>6, <1>9, <1>10, <1>11 DEF S, o, n

\* A loop that is running, between and during its calls.
LEMMA LoopBuilt ==
  ASSUME Machine, TypeInv, InEach, Built(prog, ctl, Len(stack)),
         NEW r, r.kind = "each", r.waits \in BOOLEAN, NEW d, Len(d) = Depth, d[Depth] = r,
         \A k \in 1 .. Depth - 1 : d[k] = ctl[k], NEW m \in Nat,
         r.waits <=> ~Rec.waits, IF Rec.waits THEN Len(stack) = m + 1 ELSE m = Len(stack) + 1
  PROVE  Built(prog, d, m)
<1>1. Depth \in Nat /\ Depth >= 1 /\ Rec = ctl[Depth] /\ Rec.kind = "each" /\ Depth = Len(ctl)
      /\ Rec.waits \in BOOLEAN /\ Len(stack) \in Nat
  BY Running, LenProperties DEF InEach, Depth, EachRecs, TypeInv
<1> DEFINE S == Len(stack)
<1>2. S \in Nat /\ (IF Rec.waits THEN S = m + 1 ELSE m = S + 1)
  BY <1>1
<1>3. ASSUME Depth > 1, NEW b \in Nat, Inner(prog, ctl[Depth], b, S)
      PROVE  Inner(prog, d[Depth], b, m)
  <2> HIDE DEF S
  <2>1. InnerEach(Rec, b, S)
    BY <1>1, <1>3 DEF Inner
  <2>2. InnerEach(r, b, m)
    <3>1. CASE Rec.waits
      <4>1. b = S /\ S = m + 1 /\ ~r.waits
        BY <1>2, <2>1, <3>1 DEF InnerEach
      <4>2. QED BY <4>1 DEF InnerEach
    <3>2. CASE ~Rec.waits
      <4>1. b = S + 1 /\ m = S + 1 /\ r.waits
        BY <1>2, <2>1, <3>2 DEF InnerEach
      <4>2. b = m /\ m >= 1
        BY <1>2, <4>1
      <4>3. QED BY <4>1, <4>2 DEF InnerEach
    <3>3. QED BY <3>1, <3>2
  <2>3. QED BY <1>1, <2>2 DEF Inner
<1>4. Depth = 1 => ~Main(prog, ctl[1], S)
  BY <1>1 DEF Main
<1> HIDE DEF S
<1>5. Built(prog, ctl, S)
  BY DEF S
<1>6. /\ Len(ctl) \in Nat /\ Len(ctl) > 0 /\ Len(d) = Len(ctl)
      /\ \A k \in 1 .. Len(ctl) - 1 : d[k] = ctl[k]
      /\ Len(ctl) = 1 => (Main(prog, ctl[1], S) => Main(prog, d[1], m))
      /\ Len(ctl) > 1 =>
           \A b \in Nat : Inner(prog, ctl[Len(ctl)], b, S) => Inner(prog, d[Len(ctl)], b, m)
  BY <1>1, <1>3, <1>4
<1>7. QED BY <1>5, <1>6, CallGoesOn

\* What is told stays told, but for a new run.
LEMMA ToldStays ==
  ASSUME [Next]_vars
  PROVE  told \subseteq told'
BY DEF Next, Step, Nothing, PushValue, LoadArg, Get, Set, Jump, JumpIfNil, Call, CallFails, Return,
       EachCall, EachAborts, EachTake, EachDone, Interrupt, Invoke, Telling, vars

THEOREM HeightStep ==
  ASSUME Machine, CodeBalanced, TypeInv, Given, HeightInv, [Next]_vars
  PROVE  HeightInv'
<1> SUFFICES ASSUME ~intr', Quiet'
             PROVE  Built(prog', ctl', Len(stack'))
  BY DEF HeightInv
<1> DEFINE V == Value(prog)
           S == Len(stack)
<1>1. /\ prog \in Programs /\ code = CodeOf(prog) /\ stack \in Seq(V)
      /\ ctl \in Seq(Recs(prog)) /\ S \in Nat /\ intr \in BOOLEAN
  BY LenProperties DEF TypeInv
<1>2. ~intr /\ Quiet
  <2>1. Quiet
    BY ToldStays DEF Quiet
  <2>2. intr => intr'
    BY DEF Next, Step, Nothing, PushValue, LoadArg, Get, Set, Jump, JumpIfNil, Call, CallFails,
           Return, EachCall, EachAborts, EachTake, EachDone, Interrupt, vars
  <2>3. QED BY <2>1, <2>2
<1>3. Built(prog, ctl, S)
  BY <1>2 DEF HeightInv
<1>4. ASSUME NEW op, At(op), prog' = prog, NEW n \in Nexts(code, Rec.fun, Rec.ip),
             ctl' = GoesTo(n), Len(stack') = After(In, S)
      PROVE  Built(prog', ctl', Len(stack'))
  BY <1>3, <1>4, MovesBuilt
<1>5. ASSUME NEW op, At(op), op # "jmp", prog' = prog, ctl' = Moved, Len(stack') = After(In, S)
      PROVE  Built(prog', ctl', Len(stack'))
  BY <1>4, <1>5, MovesTyped
<1>6. \A op : At(op) => In[1] = op
  BY DEF At
<1> HIDE DEF S
<1>7. CASE Nothing
  <2>1. At("nop") /\ ctl' = Moved /\ prog' = prog /\ stack' = stack
    BY <1>7 DEF Nothing
  <2>2. Len(stack') = After(In, S)
    BY <1>6, <2>1 DEF After, S
  <2>3. QED BY <1>5, <2>1, <2>2
<1>8. CASE PushValue
  <2>1. At("push") /\ ctl' = Moved /\ prog' = prog /\ stack' = Append(stack, In[2])
    BY <1>8 DEF PushValue
  <2>2. In[2] \in V
    BY <1>1, <2>1, Instruction DEF Machine, CodeIsMade
  <2>3. Len(stack') = S + 1
    BY <1>1, <2>1, <2>2, AppendProperties DEF S
  <2>4. Len(stack') = After(In, S)
    BY <1>6, <2>1, <2>3 DEF After
  <2>5. QED BY <1>5, <2>1, <2>4
<1>9. CASE LoadArg
  <2> DEFINE i == Rec.base + In[2]
  <2>1. /\ At("load") /\ ctl' = Moved /\ prog' = prog
        /\ stack' = IF i <= Len(stack) THEN Append(stack, stack[i]) ELSE stack
    BY <1>9 DEF LoadArg
  <2>2. /\ InLisp /\ Rec \in LispRecs(prog) /\ Rec.fun \in DOMAIN code.irs
        /\ In = code.irs[Rec.fun][Rec.ip] /\ Rec.ip \in DOMAIN code.irs[Rec.fun]
    BY <2>1, Instruction
  <2>3. In[2] \in Nat /\ In[2] < Len(code.params[Rec.fun]) /\ Len(code.params[Rec.fun]) \in Nat
    <3>1. WellMade(code) /\ Len(code.params[Rec.fun]) \in Nat
      BY <1>1, <2>2 DEF Machine, CodeIsMade
    <3>2. QED BY <1>6, <2>1, <2>2, <3>1 DEF WellMade
  <2>4. Rec.argc >= Len(code.params[Rec.fun])
    BY <2>2, Running, LenProperties DEF Given, InLisp
  <2>5. /\ Rec.argc \in Nat /\ Rec.own \in Nat /\ Rec.argc <= Rec.own
        /\ Rec.base = IF Rec.argc = 0 THEN 1 ELSE Rec.own - Rec.argc + 1
        /\ Rec.own <= S
    <3>1. /\ Rec.own + Height(prog)[Rec.fun][Rec.ip] <= S /\ Rec.argc <= Rec.own
          /\ Rec.base = IF Rec.argc = 0 THEN 1 ELSE Rec.own - Rec.argc + 1
      BY <1>3, <2>2, Innermost DEF S
    <3>2. Height(prog)[Rec.fun][Rec.ip] \in Nat
      <4>1. /\ Height(prog)[Rec.fun] \in [1 .. Len(code.irs[Rec.fun]) + 1 -> Nat]
            /\ DOMAIN code.irs[Rec.fun] = 1 .. Len(code.irs[Rec.fun])
            /\ Len(code.irs[Rec.fun]) \in Nat
        BY <1>1, <2>2, Balance
      <4>2. Rec.ip \in 1 .. Len(code.irs[Rec.fun]) + 1
        BY <2>2, <4>1
      <4>3. QED BY <4>1, <4>2
    <3>3. Rec.argc \in Nat /\ Rec.own \in Nat
      BY <2>2 DEF LispRecs
    <3>4. S \in Nat
      BY <1>1
    <3> HIDE DEF S
    <3>5. Rec.own <= S
      BY <3>1, <3>2, <3>3, <3>4
    <3>6. QED BY <3>1, <3>3, <3>5
  <2>6. i \in 1 .. S
    <3>1. In[2] \in Nat /\ In[2] < Rec.argc /\ Rec.argc # 0
      BY <2>3, <2>4, <2>5
    <3>2. Rec.base = Rec.own - Rec.argc + 1 /\ S \in Nat
      BY <1>1, <2>5, <3>1
    <3> HIDE DEF S, i
    <3>3. Rec.base + In[2] \in 1 .. S
      BY <2>5, <3>1, <3>2
    <3>4. QED BY <3>3 DEF i
  <2> HIDE DEF i
  <2>7. stack[i] \in V
    BY <1>1, <2>6, ElementOfSeq DEF S
  <2>8. Len(stack') = S + 1
    BY <1>1, <2>1, <2>6, <2>7, AppendProperties DEF S
  <2>9. Len(stack') = After(In, S)
    BY <1>6, <2>1, <2>8 DEF After
  <2>10. QED BY <1>5, <2>1, <2>9
<1>10. CASE Get
  <2> DEFINE v == IF In[2] \in DOMAIN globals THEN globals[In[2]] ELSE Nil
  <2>1. At("get") /\ ctl' = Moved /\ prog' = prog /\ stack' = Append(stack, v)
    BY <1>10 DEF Get
  <2>2. v \in V
    BY <1>1 DEF TypeInv, Machine, ValuesAreValues
  <2> HIDE DEF v
  <2>3. Len(stack') = S + 1
    BY <1>1, <2>1, <2>2, AppendProperties DEF S
  <2>4. Len(stack') = After(In, S)
    BY <1>6, <2>1, <2>3 DEF After
  <2>5. QED BY <1>5, <2>1, <2>4
<1>11. CASE Set
  <2>1. At("set") /\ ctl' = Moved /\ prog' = prog /\ stack' = stack
    BY <1>11 DEF Set
  <2>2. Len(stack') = After(In, S)
    BY <1>6, <2>1 DEF After, S
  <2>3. QED BY <1>5, <2>1, <2>2
<1>12. CASE Jump
  <2>1. At("jmp") /\ ctl' = [ctl EXCEPT ![Depth].ip = Target(In[2])] /\ prog' = prog
        /\ stack' = stack
    BY <1>12 DEF Jump
  <2>2. Len(stack') = After(In, S)
    BY <1>6, <2>1 DEF After, S
  <2>3. QED BY <1>4, <2>1, <2>2, MovesTyped
<1>13. CASE JumpIfNil
  <2>1. /\ At("jn") /\ stack' = Popped /\ prog' = prog
        /\ ctl' = IF IsNil(LastOf(stack)) THEN [ctl EXCEPT ![Depth].ip = Target(In[2])] ELSE Moved
    BY <1>13 DEF JumpIfNil
  <2>2. PICK n \in Nexts(code, Rec.fun, Rec.ip) : ctl' = GoesTo(n)
    BY <2>1, MovesTyped
  <2>3. Needs(In) = 1
    BY <1>6, <2>1 DEF Needs
  <2>4. Rec.own \in Nat /\ 1 <= S - Rec.own
    BY <1>3, <2>1, <2>2, <2>3, MovesBuilt, Instruction DEF LispRecs, S
  <2>5. stack # <<>>
    BY <1>1, <2>4, EmptySeq DEF S
  <2>6. Len(stack') = S - 1
    BY <1>1, <2>1, <2>5, PoppedTyped DEF S
  <2>7. Len(stack') = After(In, S)
    BY <1>6, <2>1, <2>6 DEF After
  <2>8. QED BY <1>4, <2>1, <2>2, <2>7
<1>14. CASE Call
  <2>1. /\ At("call") /\ IsFun(Callee) /\ Invoke(Callee, In[4], stack, Moved) /\ prog' = prog
    BY <1>14 DEF Call
  <2>2. Callee \in V
    BY <2>1, CalleeTyped
  <2>3. In[4] \in Nat
    BY <2>1, CalleeTyped
  <2>4. Moved = GoesTo(Rec.ip + 1) /\ Rec.ip + 1 \in Nexts(code, Rec.fun, Rec.ip)
        /\ Moved \in Seq(Recs(prog))
    BY <2>1, MovesTyped
  <2>5. /\ Needs(In) <= S - Rec.own
        /\ Built(prog, Moved, After(In, S))
    BY <1>3, <2>1, <2>4, MovesBuilt DEF S
  <2>6. Needs(In) = In[4] /\ After(In, S) = S - In[4] + 1
    BY <1>6, <2>1 DEF Needs, After
  <2>7. Rec.own \in Nat
    BY <2>1, Instruction DEF LispRecs
  <2>8. In[4] <= S
    BY <1>1, <2>3, <2>5, <2>6, <2>7
  <2>9. Moved # <<>> /\ Moved[Len(Moved)].kind = "lisp"
    <3>1. /\ InLisp /\ Rec \in LispRecs(prog)
          /\ Nexts(code, Rec.fun, Rec.ip) \subseteq 1 .. Len(code.irs[Rec.fun]) + 1
      BY <2>1, Instruction
    <3>2. Rec.ip + 1 \in 1 .. Len(CodeOf(prog).irs[Rec.fun]) + 1 /\ Rec.ip + 1 \in Nat
      BY <1>1, <2>4, <3>1
    <3>3. Moved # <<>> /\ Moved[Len(Moved)] = [Rec EXCEPT !.ip = Rec.ip + 1]
      BY <2>4, <3>1, <3>2, GoesToTyped
    <3>4. QED BY <3>1, <3>3 DEF LispRecs
  <2>10. QED BY <1>1, <2>1, <2>2, <2>3, <2>4, <2>5, <2>6, <2>8, <2>9, InvokeBuilt DEF S
<1>15. CASE CallFails
  BY <1>15 DEF CallFails, Quiet
<1>16. CASE Return
  <2>1. InLisp /\ stack' = Dropped(Rec) /\ ctl' = Returned /\ prog' = prog
        /\ Rec.ip > Len(Body(Rec.fun))
    BY <1>2, <1>16 DEF Return
  <2>2. ctl # <<>> /\ Depth \in Nat /\ Depth >= 1 /\ Rec = ctl[Depth] /\ Rec.kind = "lisp"
        /\ Depth = Len(ctl)
    BY <2>1, Running DEF InLisp, Depth
  <2>3. Returned \in Seq(Recs(prog)) /\ Len(Returned) = Depth - 1
        /\ \A k \in 1 .. Depth - 1 : Returned[k] = ctl[k]
    BY <2>2, ReturnedTyped
  <2>4. CASE Depth = 1
    <3>1. Returned = <<>>
      BY <2>3, <2>4, EmptySeq
    <3>2. QED BY <2>1, <3>1, NoCalls
  <2>5. CASE Depth > 1
    <3>1. Len(stack') = Rec.own - Rec.argc + 1
      BY <1>3, <2>1, <2>5, Returning DEF S
    <3>2. \A b \in Nat : Inner(prog, ctl[Len(ctl)], b, S) => b = Len(stack')
      BY <2>2, <3>1 DEF Inner, InnerLisp
    <3>3. QED BY <1>3, <2>1, <2>2, <2>3, <2>5, <3>2, CallOver
  <2>6. QED BY <2>2, <2>4, <2>5
<1>17. CASE EachCall
  <2> DEFINE c == [ctl EXCEPT ![Depth] = Called]
             n == ArgcOf(Rec.f)
             st == stack \o Pushed
  <2>1. /\ InEach /\ ~Rec.waits /\ ~NoMore /\ ~PushesNull /\ prog' = prog
        /\ Invoke(Rec.fn, n, st, [ctl EXCEPT ![Depth].todo = Tail(@), ![Depth].waits = TRUE])
    BY <1>17 DEF EachCall, Pushed
  <2>2. Rec.fn \in V /\ Rec \in EachRecs(prog) /\ ctl # <<>> /\ Rec = ctl[Depth]
        /\ Depth \in Nat /\ Depth >= 1 /\ Rec.kind = "each"
    BY <2>1, Running DEF EachRecs, InEach
  <2>3. Rec.f # "map-index"
    BY <2>2 DEF Given
  <2>4. Pushed \in Seq(V) /\ n \in Nat /\ Len(Pushed) = n
    BY <2>1, <2>3, LoopPushes
  <2>5. st \in Seq(V) /\ Len(st) = S + n
    BY <1>1, <2>4, ConcatProperties DEF S
  <2>6. /\ [ctl EXCEPT ![Depth].todo = Tail(@), ![Depth].waits = TRUE] = c
        /\ c \in Seq(Recs(prog)) /\ Len(c) = Depth /\ c # <<>>
        /\ c[Depth] = Called /\ \A k \in 1 .. Depth - 1 : c[k] = ctl[k]
    BY <2>1, LoopCalls
  <2>7. Called.kind = "each" /\ Called.waits = TRUE
    BY <2>2 DEF Called, EachRecs
  <2> HIDE DEF c, n, st
  <2>8. Built(prog, c, S + 1)
    <3>1. S + 1 \in Nat /\ Len(stack) = S /\ Built(prog, ctl, Len(stack))
      BY <1>1, <1>3 DEF S
    <3>2. /\ Called.waits \in BOOLEAN /\ (Called.waits <=> ~Rec.waits)
          /\ IF Rec.waits THEN Len(stack) = S + 1 + 1 ELSE S + 1 = Len(stack) + 1
      BY <2>1, <2>7, <3>1
    <3>3. QED BY <2>1, <2>6, <2>7, <3>1, <3>2, LoopBuilt
  <2>9. n <= Len(st) /\ Len(st) - n + 1 = S + 1
    BY <1>1, <2>4, <2>5
  <2>10. QED BY <1>1, <2>1, <2>2, <2>4, <2>5, <2>6, <2>7, <2>8, <2>9, InvokeBuilt
<1>18. CASE EachAborts
  BY <1>18, NoCalls DEF EachAborts
<1>19. CASE EachTake
  <2> DEFINE r == [Rec EXCEPT !.waits = FALSE, !.acc = Took]
             c == [ctl EXCEPT ![Depth] = r]
  <2>1. InEach /\ Rec.waits /\ stack' = Popped /\ prog' = prog
    BY <1>19 DEF EachTake
  <2>2. /\ ctl' = c /\ Len(c) = Depth /\ c[Depth] = r
        /\ \A k \in 1 .. Depth - 1 : c[k] = ctl[k]
    BY <1>19, <2>1, LoopTakes DEF EachTake
  <2>3. /\ Rec \in EachRecs(prog) /\ Rec = ctl[Depth] /\ Depth \in Nat /\ Depth >= 1
        /\ Rec.kind = "each" /\ ctl # <<>>
    BY <2>1, Running DEF InEach
  <2>4. r.kind = "each" /\ r.waits = FALSE
    BY <2>3 DEF EachRecs
  <2>5. S >= 1
    <3>1. PICK W \in [1 .. Len(ctl) -> Nat] :
            /\ W[Len(ctl)] = S /\ Main(prog, ctl[1], W[1])
            /\ \A k \in 2 .. Len(ctl) : Inner(prog, ctl[k], W[k - 1], W[k])
      BY <1>3, <2>3 DEF Built, Depth
    <3>2. Depth # 1
      BY <2>3, <3>1 DEF Main
    <3>3. Len(ctl) \in 2 .. Len(ctl) /\ ctl[Len(ctl)] = Rec
      <4>1. Depth \in 2 .. Depth
        BY <2>3, <3>2
      <4>2. Depth = Len(ctl)
        BY DEF Depth
      <4>3. QED BY <2>3, <4>1, <4>2
    <3>4. InnerEach(Rec, W[Len(ctl) - 1], S)
      BY <2>3, <3>1, <3>3 DEF Inner
    <3>5. QED BY <2>1, <3>4 DEF InnerEach
  <2>6. stack # <<>>
    BY <2>5, EmptySeq DEF S
  <2>7. Len(stack') = S - 1
    BY <1>1, <2>1, <2>6, PoppedTyped DEF S
  <2> DEFINE m == Len(stack')
  <2>8. m \in Nat /\ Len(stack) = m + 1
    BY <1>1, <2>5, <2>7 DEF S
  <2> HIDE DEF c, r, m
  <2>9. Built(prog, c, m)
    BY <1>3, <2>1, <2>2, <2>4, <2>8, LoopBuilt DEF S
  <2>10. QED BY <2>1, <2>2, <2>9 DEF m
<1>20. CASE EachDone
  <2>1. InEach /\ ~Rec.waits /\ stack' = PushTo(stack, Rec.acc) /\ ctl' = Returned
        /\ told' = Telling(Gives(Rec.acc)) /\ prog' = prog
    BY <1>20 DEF EachDone
  <2>2. /\ Rec \in EachRecs(prog) /\ ctl # <<>> /\ Depth \in Nat /\ Depth >= 1
        /\ Rec = ctl[Depth] /\ Depth = Len(ctl) /\ Rec.kind = "each"
        /\ Rec.acc \in V \cup {Null}
    BY <2>1, Running DEF EachRecs, InEach, Depth
  <2>3. Rec.acc # Null
    BY <2>1 DEF Telling, Gives, Quiet
  <2>4. Len(stack') = S + 1
    BY <1>1, <2>1, <2>2, <2>3, PushToType DEF S
  <2>5. Returned \in Seq(Recs(prog)) /\ Len(Returned) = Depth - 1
        /\ \A k \in 1 .. Depth - 1 : Returned[k] = ctl[k]
    BY <2>2, ReturnedTyped
  <2>6. CASE Depth = 1
    <3>1. Returned = <<>>
      BY <2>5, <2>6, EmptySeq
    <3>2. QED BY <2>1, <3>1, NoCalls
  <2>7. CASE Depth > 1
    <3>1. \A b \in Nat : Inner(prog, ctl[Len(ctl)], b, S) => b = Len(stack')
      BY <2>1, <2>2, <2>4 DEF Inner, InnerEach
    <3>2. QED BY <1>3, <2>1, <2>2, <2>5, <2>7, <3>1, CallOver
  <2>8. QED BY <2>2, <2>6, <2>7
<1>21. CASE Interrupt
  BY <1>21 DEF Interrupt
<1>22. CASE UNCHANGED vars
  BY <1>3, <1>22 DEF vars, S
<1>23. QED BY <1>7, <1>8, <1>9, <1>10, <1>11, <1>12, <1>13, <1>14, <1>15, <1>16, <1>17, <1>18,
              <1>19, <1>20, <1>21, <1>22 DEF Next, Step

LEMMA HeightStart ==
  ASSUME Machine, CodeBalanced, Init
  PROVE  HeightInv
<1> DEFINE r == Lisp(1, <<>>, 0)
           c == <<r>>
           W == [k \in 1 .. 1 |-> 0]
<1>1. prog \in Programs /\ stack = <<>> /\ ctl = c
  BY DEF Init
<1>2. 1 \in DOMAIN CodeOf(prog).irs
  BY <1>1 DEF Machine, CodeIsMade
<1>3. Height(prog)[1][1] = 0
  BY <1>1, <1>2, Balance
<1>4. Main(prog, r, 0)
  BY <1>3 DEF Main, Lisp
<1>5. Len(c) = 1 /\ c[1] = r /\ Len(stack) = 0
  BY <1>1
<1> HIDE DEF c, r
<1>6. /\ W \in [1 .. Len(c) -> Nat] /\ W[Len(c)] = 0 /\ Main(prog, c[1], W[1])
      /\ \A k \in 2 .. Len(c) : FALSE
      /\ \A k \in 1 .. Len(c) - 1 : FALSE
  BY <1>4, <1>5
<1> HIDE DEF W
<1>7. Built(prog, c, 0)
  BY <1>6 DEF Built
<1>8. QED BY <1>1, <1>5, <1>7 DEF HeightInv

LEMMA HeightIsEnough ==
  ASSUME Machine, CodeBalanced, TypeInv, HeightInv
  PROVE  OwnValues
<1> SUFFICES ASSUME InLisp, ~intr, Quiet, Rec.ip <= Len(Body(Rec.fun))
             PROVE  Len(stack) - Rec.own >= Needs(In)
  BY DEF OwnValues
<1>1. At(In[1])
  BY DEF At, Unchecked
<1>2. PICK n : n \in Nexts(code, Rec.fun, Rec.ip)
  BY <1>1, MovesTyped
<1>3. Needs(In) <= Len(stack) - Rec.own
  BY <1>1, <1>2, MovesBuilt DEF HeightInv
<1>4. Needs(In) \in Int /\ Len(stack) \in Nat /\ Rec.own \in Nat
  <2>1. /\ Rec \in LispRecs(prog) /\ WellMade(code) /\ Rec.fun \in DOMAIN code.irs
        /\ Rec.ip \in DOMAIN code.irs[Rec.fun] /\ In = code.irs[Rec.fun][Rec.ip]
    BY <1>1, Instruction DEF Machine, CodeIsMade, TypeInv
  <2>2. In[1] = "call" => In[4] \in Nat
    BY <2>1 DEF WellMade
  <2>3. Len(stack) \in Nat
    BY LenProperties DEF TypeInv
  <2>4. QED BY <2>1, <2>2, <2>3 DEF LispRecs, Needs
<1>5. QED BY <1>3, <1>4

LEMMA HeightHolds ==
  ASSUME Machine, CodeBalanced
  PROVE  Spec /\ []Given => [](TypeInv /\ HeightInv)
<1>1. Init => TypeInv /\ HeightInv
  BY TypeStart, HeightStart
<1>2. TypeInv /\ HeightInv /\ Given /\ [Next]_vars => TypeInv' /\ HeightInv'
  BY TypeStep, HeightStep
<1>3. QED BY <1>1, <1>2, PTL DEF Spec

\* OwnValues: balanced code never takes a value from the stack that it has not
\* pushed itself (JN its test, SET its value, a call its arguments), whatever it
\* calls, as long as the calls give their functions all the arguments they have
\* parameters for, and nobody told of a function that is none or gave NULL.
THEOREM BalancedCodeOwnsItsValues ==
  ASSUME Machine, CodeBalanced
  PROVE  Spec /\ []Given => []OwnValues
<1>1. TypeInv /\ HeightInv => OwnValues
  BY HeightIsEnough
<1>2. QED BY <1>1, HeightHolds, PTL

\* CallLeavesOne: under the same conditions akl_frame_destroy at the end of a
\* function leaves the values below its arguments as they were and one value, its
\* result, in their place.
THEOREM BalancedCallsLeaveOne ==
  ASSUME Machine, CodeBalanced
  PROVE  Spec /\ []Given => CallLeavesOne
<1>1. ASSUME TypeInv, HeightInv, Return, Depth > 1, ~intr, Quiet
      PROVE  stack' = Append(SubSeq(stack, 1, Rec.own - Rec.argc), Last(stack))
  <2>1. InLisp /\ Rec.ip > Len(Body(Rec.fun)) /\ stack' = Dropped(Rec)
    BY <1>1 DEF Return
  <2>2. QED BY <1>1, <2>1, Returning DEF HeightInv
<1>2. TypeInv /\ HeightInv =>
        [(Return /\ Depth > 1 /\ ~intr /\ Quiet) =>
           stack' = Append(SubSeq(stack, 1, Rec.own - Rec.argc), Last(stack))]_vars
  BY <1>1
<1>3. QED BY <1>2, HeightHolds, PTL DEF CallLeavesOne

-----------------------------------------------------------------------------
(***************************************************************************)
(* The library.  What its functions tell, for any arguments.               *)
(***************************************************************************)
\* a value is as ValuesAreValues says
Proper(v) ==
  /\ v[1] \in Kinds
  /\ v[1] = "num" => v = <<"num", v[2]>> /\ v[2] \in Int
  /\ v[1] = "nil" => v = Nil
  /\ v[1] = "t"   => v = <<"t">>

\* the call tells that its arguments are wrong, or gives the NULL that the machine tells
TellsWrong(r) ==
  \/ r.told \cap Complaints # {}
  \/ r.v = Null /\ r.told \cap {"crash", "exit"} = {}

\* What a call that refuses its arguments gives.
LEMMA Refusing ==
  ASSUME NEW v, NEW k \in Complaints
  PROVE  TellsWrong(Tells(v, k))
BY DEF TellsWrong, Tells

LEMMA ProperNotNull ==
  ASSUME NEW v, Proper(v)
  PROVE  v # Null
BY DEF Proper, Kinds, Null

\* The first and the last argument.
LEMMA EndsOfArgs ==
  ASSUME NEW V, NEW a \in Seq(V)
  PROVE  /\ Len(a) \in Nat /\ DOMAIN a = 1 .. Len(a) /\ \A i \in 1 .. Len(a) : a[i] \in V
         /\ a = <<>> <=> Len(a) = 0
         /\ a = <<>> => FirstOf(a) = Null /\ LastOf(a) = Null
         /\ a # <<>> => FirstOf(a) = a[1] /\ LastOf(a) = a[Len(a)]
<1>1. Len(a) \in Nat /\ DOMAIN a = 1 .. Len(a) /\ \A i \in 1 .. Len(a) : a[i] \in V
  BY LenProperties, ElementOfSeq
<1>2. a = <<>> <=> Len(a) = 0
  BY EmptySeq
<1>3. a = <<>> => FirstOf(a) = Null /\ LastOf(a) = Null
  BY DEF FirstOf, LastOf
<1>4. a # <<>> => FirstOf(a) = a[1] /\ LastOf(a) = a[Len(a)]
  BY DEF FirstOf, LastOf, Last
<1>5. QED BY <1>1, <1>2, <1>3, <1>4

\* akl_get_args_strict: it accepts arguments of the number and the types named, and no others.
LEMMA StrictOne ==
  ASSUME NEW a, NEW t \in Kinds, Len(a) = 1 => Proper(a[1])
  PROVE  Strict(a, <<t>>) => Len(a) = 1 /\ a[1][1] = t
<1>1. ASSUME Strict(a, <<t>>)
      PROVE  Len(a) = 1 /\ a[1][1] = t
  <2>1. Len(a) = 1 /\ t \in {"any", TypeName(a[1])}
    BY <1>1 DEF Strict
  <2>2. t # "any" /\ t # "function"
    BY DEF Kinds
  <2>3. QED BY <2>1, <2>2 DEF TypeName
<1>2. QED BY <1>1

LEMMA StrictTwo ==
  ASSUME NEW a, NEW t \in Kinds, NEW u \in Kinds, Len(a) = 2 => Proper(a[1]) /\ Proper(a[2])
  PROVE  Strict(a, <<t, u>>) => Len(a) = 2 /\ a[1][1] = t /\ a[2][1] = u
<1>1. ASSUME Strict(a, <<t, u>>)
      PROVE  Len(a) = 2 /\ a[1][1] = t /\ a[2][1] = u
  <2>1. Len(a) = 2 /\ t \in {"any", TypeName(a[1])} /\ u \in {"any", TypeName(a[2])}
    BY <1>1 DEF Strict
  <2>2. t # "any" /\ t # "function" /\ u # "any" /\ u # "function"
    BY DEF Kinds
  <2>3. QED BY <2>1, <2>2 DEF TypeName
<1>2. QED BY <1>1

\* The functions that count their arguments.
LEMMA CountingTell ==
  ASSUME NEW V, \A v \in V : Proper(v), NEW a \in Seq(V),
         NEW f \in Doc!Counting \ CallsBack, ~Doc!Fits(f, a)
  PROVE  TellsWrong(Apply(f, a))
<1>1. /\ Len(a) \in Nat /\ \A i \in 1 .. Len(a) : Proper(a[i])
  BY EndsOfArgs
<1>2. /\ "args" \in Complaints /\ "type" \in Complaints
  BY DEF Complaints
<1>3. "num" \in Kinds /\ "str" \in Kinds
  BY DEF Kinds
<1>4. CASE f \in {"++", "--", "zero?"}
  <2>1. Doc!Wants(f) = <<{"num"}>>
    BY <1>4 DEF Doc!Wants
  <2>2. ~(Len(a) = 1 /\ a[1][1] = "num")
    BY <2>1 DEF Doc!Fits
  <2>3. ~Strict(a, <<"num">>)
    BY <1>1, <1>3, <2>2, StrictOne
  <2>4. Apply(f, a) = Tells(Nil, "args")
    <3>1. CASE f = "++"
      BY <2>3, <3>1 DEF Apply, inc
    <3>2. CASE f = "--"
      BY <2>3, <3>2 DEF Apply, dec
    <3>3. CASE f = "zero?"
      BY <2>3, <3>3 DEF Apply, iszero, AsStrict
    <3>4. QED BY <1>4, <3>1, <3>2, <3>3
  <2>5. QED BY <1>2, <2>4, Refusing
<1>5. CASE f \in {"mod", "%", "range"}
  <2>1. Doc!Wants(f) = <<{"num"}, {"num"}>>
    BY <1>5 DEF Doc!Wants
  <2>2. ~(Len(a) = 2 /\ a[1][1] = "num" /\ a[2][1] = "num")
    BY <2>1 DEF Doc!Fits
  <2>3. ~Strict(a, <<"num", "num">>)
    BY <1>1, <1>3, <2>2, StrictTwo
  <2>4. Apply(f, a) = Tells(Nil, "args")
    <3>1. CASE f \in {"mod", "%"}
      BY <2>3, <3>1 DEF Apply, mod
    <3>2. CASE f = "range"
      BY <2>3, <3>2 DEF Apply, range
    <3>3. QED BY <1>5, <3>1, <3>2
  <2>5. QED BY <1>2, <2>4, Refusing
<1>6. CASE f \in {"=", "!=", "<", ">", "<=", ">="}
  <2>1. Doc!Wants(f) = <<Doc!Anything, Doc!Anything>>
    BY <1>6 DEF Doc!Wants
  <2>2. Len(a) # 2
    <3>1. SUFFICES ASSUME Len(a) = 2
                   PROVE  Doc!Fits(f, a)
      OBVIOUS
    <3>2. a[1][1] \in Doc!Anything /\ a[2][1] \in Doc!Anything
      BY <1>1, <3>1 DEF Proper, Kinds, Doc!Anything, Doc!Function, Doc!Sequence
    <3>3. QED BY <2>1, <3>1, <3>2 DEF Doc!Fits
  <2>3. \E v : Apply(f, a) = Tells(v, "args")
    <3>1. CASE f = "="
      BY <2>2, <3>1 DEF Apply, eq, Comparing
    <3>2. CASE f = "!="
      BY <2>2, <3>2 DEF Apply, neq, Comparing
    <3>3. CASE f = "<"
      BY <2>2, <3>3 DEF Apply, lt, Comparing
    <3>4. CASE f = ">"
      BY <2>2, <3>4 DEF Apply, gt, Comparing
    <3>5. CASE f = "<="
      BY <2>2, <3>5 DEF Apply, lteq, Comparing
    <3>6. CASE f = ">="
      BY <2>2, <3>6 DEF Apply, gteq, Comparing
    <3>7. QED BY <1>6, <3>1, <3>2, <3>3, <3>4, <3>5, <3>6
  <2>4. QED BY <1>2, <2>3, Refusing
<1>7. CASE f = "length"
  <2>1. Doc!Wants(f) = <<{"list", "str"}>>
    BY <1>7 DEF Doc!Wants, Doc!Sequence
  <2>2. Len(a) # 1 \/ a[1][1] \notin {"str", "list"}
    BY <2>1 DEF Doc!Fits
  <2>3. Apply(f, a) \in {Tells(Nil, "args"), Tells(Nil, "type")}
    BY <1>7, <2>2 DEF Apply, length
  <2>4. QED BY <1>2, <2>3, Refusing
<1>8. CASE f = "number"
  <2>1. Doc!Wants(f) = <<{"num", "str", "sym", "nil", "t"}>>
    BY <1>8 DEF Doc!Wants
  <2>2. Len(a) # 1 \/ a[1][1] \notin {"num", "str", "sym", "nil", "t"}
    BY <2>1 DEF Doc!Fits
  <2>3. Apply(f, a) = Tells(Nil, "args") \/ Apply(f, a) = Gives(Null)
    BY <1>8, <2>2 DEF Apply, tonumber
  <2>4. TellsWrong(Gives(Null))
    BY DEF TellsWrong, Gives
  <2>5. QED BY <1>2, <2>3, <2>4, Refusing
<1>9. CASE f = "write-times"
  <2>1. Doc!Wants(f) = <<{"num"}, {"str"}>>
    BY <1>9 DEF Doc!Wants
  <2>2. ~(Len(a) = 2 /\ a[1][1] = "num" /\ a[2][1] = "str")
    BY <2>1 DEF Doc!Fits
  <2>3. ~Strict(a, <<"num", "str">>)
    BY <1>1, <1>3, <2>2, StrictTwo
  <2>4. Apply(f, a) = Tells(Nil, "args")
    BY <1>9, <2>3 DEF Apply, write_times, AsStrict
  <2>5. QED BY <1>2, <2>4, Refusing
<1>10. QED BY <1>4, <1>5, <1>6, <1>7, <1>8, <1>9 DEF Doc!Counting, CallsBack

\* As few arguments as that.
LEMMA Few ==
  ASSUME NEW n \in Nat
  PROVE  /\ n <= 1 => n = 0 \/ n = 1
         /\ n <= 2 /\ n > 1 => n = 2
         /\ n <= 2 /\ n # 0 /\ n # 1 => n = 2
         /\ n = 2 => n > 1
OBVIOUS

\* The functions that take the last of their arguments.
LEMMA LenientTell ==
  ASSUME NEW V, \A v \in V : Proper(v), NEW a \in Seq(V),
         NEW f \in Doc!Lenient, Len(a) <= Len(Doc!Wants(f)), ~Doc!Fits(f, a)
  PROVE  TellsWrong(Apply(f, a))
<1>0. Len(a) \in Nat
  BY EndsOfArgs
<1>1. /\ Len(a) \in Nat /\ \A i \in 1 .. Len(a) : Proper(a[i]) /\ a[i] # Null
      /\ a = <<>> <=> Len(a) = 0
      /\ a = <<>> => FirstOf(a) = Null /\ LastOf(a) = Null
      /\ a # <<>> => FirstOf(a) = a[1] /\ LastOf(a) = a[Len(a)]
  BY EndsOfArgs, ProperNotNull
<1>2. "args" \in Complaints /\ "type" \in Complaints /\ "warning" \in Complaints
  BY DEF Complaints
<1>3. CASE f \in {"head", "first", "car", "tail", "cdr", "last"}
  <2>1. Doc!Wants(f) = <<{"list", "str"}>>
    BY <1>3 DEF Doc!Wants, Doc!Sequence
  <2>2. Len(a) <= 1 /\ ~(Len(a) = 1 /\ a[1][1] \in {"str", "list"})
    BY <2>1 DEF Doc!Fits
  <2>3. LastOf(a) = Null \/ LastOf(a)[1] \notin {"str", "list"}
    <3>1. CASE Len(a) = 0
      BY <1>1, <3>1
    <3>2. CASE Len(a) = 1
      BY <1>1, <2>2, <3>2
    <3>3. Len(a) = 0 \/ Len(a) = 1
      BY <1>0, <2>2, Few
    <3>4. QED BY <3>1, <3>2, <3>3
  <2>4. \E v \in {Nil, LastOf(a)}, k \in {"args", "type"} : Apply(f, a) = Tells(v, k)
    <3>1. CASE f \in {"head", "first", "car"}
      BY <2>3, <3>1 DEF Apply, ls_head, OfLast
    <3>2. CASE f \in {"tail", "cdr"}
      BY <2>3, <3>2 DEF Apply, ls_tail, OfLast
    <3>3. CASE f = "last"
      BY <2>3, <3>3 DEF Apply, ls_last, OfLast
    <3>4. QED BY <1>3, <3>1, <3>2, <3>3
  <2>5. QED BY <1>2, <2>4, Refusing
<1>4. CASE f = "index"
  <2>1. Doc!Wants(f) = <<{"num"}, {"list", "str"}>>
    BY <1>4 DEF Doc!Wants, Doc!Sequence
  <2>2. /\ Len(a) <= 2
        /\ ~(Len(a) = 2 /\ a[1][1] = "num" /\ a[2][1] \in {"str", "list"})
    BY <2>1 DEF Doc!Fits
  <2>3. Apply(f, a) = ls_index(a)
    BY <1>4 DEF Apply
  <2>4. CASE FirstOf(a)[1] # "num"
    <3>1. Apply(f, a) = Tells(Nil, "args")
      BY <2>3, <2>4 DEF ls_index
    <3>2. QED BY <1>2, <3>1, Refusing
  <2>5. CASE FirstOf(a)[1] = "num" /\ Len(a) <= 1
    <3>1. Apply(f, a) = Tells(Nil, "args")
      BY <1>1, <2>3, <2>5 DEF ls_index
    <3>2. QED BY <1>2, <3>1, Refusing
  <2>6. CASE FirstOf(a)[1] = "num" /\ Len(a) > 1
    <3>1. Len(a) = 2 /\ Last(a) = a[2] /\ a[2][1] \notin {"str", "list"}
      <4>1. Len(a) = 2
        BY <1>0, <2>2, <2>6, Few
      <4>2. FirstOf(a) = a[1]
        BY <1>1, <4>1
      <4>3. QED BY <2>2, <2>6, <4>1, <4>2 DEF Last
    <3>2. a[2] # Null /\ a[2] # Cdr(<<Nil>>)
      BY <1>1, <3>1 DEF Cdr
    <3>3. Apply(f, a) = Tells(a[2], "type")
      BY <2>3, <2>6, <3>1, <3>2 DEF ls_index
    <3>4. QED BY <1>2, <3>3, Refusing
  <2>7. QED BY <1>1, <2>4, <2>5, <2>6
<1>5. CASE f = "print-symbol-ptr"
  <2>1. Doc!Wants(f) = <<{"sym"}>>
    BY <1>5 DEF Doc!Wants
  <2>2. Len(a) <= 1 /\ ~(Len(a) = 1 /\ a[1][1] = "sym")
    BY <2>1 DEF Doc!Fits
  <2>3. LastOf(a)[1] # "sym"
    <3>1. CASE Len(a) = 0
      BY <1>1, <3>1 DEF Null
    <3>2. CASE Len(a) = 1
      BY <1>1, <2>2, <3>2
    <3>3. Len(a) = 0 \/ Len(a) = 1
      BY <1>0, <2>2, Few
    <3>4. QED BY <3>1, <3>2, <3>3
  <2>4. Apply(f, a) = Tells(Nil, "warning")
    BY <1>5, <2>3 DEF Apply, print_symbol_ptr
  <2>5. QED BY <1>2, <2>4, Refusing
<1>6. QED BY <1>3, <1>4, <1>5 DEF Doc!Lenient

\* The quotient of the first number and the others: all of them are looked at.
LEMMA AllNumbers ==
  ASSUME NEW V, \A v \in V : Proper(v), NEW a \in Seq(V), \A i \in DOMAIN a : a[i][1] = "num"
  PROVE  Others(a) = {} /\ NumStart(a) = a
<1>1. Others(a) = {}
  BY DEF Others
<1>2. Len(a) \in Nat
  BY EndsOfArgs
<1>3. Min(Others(a) \cup {Len(a) + 1}) = Len(a) + 1
  <2>1. Others(a) \cup {Len(a) + 1} = {Len(a) + 1}
    BY <1>1
  <2>2. QED BY <1>2, <2>1 DEF Min
<1>4. SubSeq(a, 1, Len(a)) = a
  BY SubSeqFull
<1>5. Len(a) + 1 - 1 = Len(a)
  BY <1>2
<1>6. QED BY <1>1, <1>3, <1>4, <1>5 DEF NumStart

LEMMA TailHas ==
  ASSUME NEW V, NEW a \in Seq(V)
  PROVE  a # <<>> => ToSet(Tail(a)) = {a[i] : i \in 2 .. Len(a)}
<1> SUFFICES ASSUME a # <<>>
             PROVE  ToSet(Tail(a)) = {a[i] : i \in 2 .. Len(a)}
  OBVIOUS
<1>1. Len(a) \in Nat /\ Len(a) >= 1
  BY EndsOfArgs
<1>2. /\ Tail(a) \in Seq(V) /\ Len(Tail(a)) = Len(a) - 1
      /\ \A i \in 1 .. Len(a) - 1 : Tail(a)[i] = a[i + 1]
  BY <1>1, HeadTailProperties
<1>3. DOMAIN Tail(a) = 1 .. Len(a) - 1
  BY <1>2, LenProperties
<1>4. ToSet(Tail(a)) = {a[i + 1] : i \in 1 .. Len(a) - 1}
  BY <1>2, <1>3 DEF ToSet
<1>5. \A i \in 2 .. Len(a) : i - 1 \in 1 .. Len(a) - 1 /\ (i - 1) + 1 = i
  BY <1>1
<1>6. \A i \in 1 .. Len(a) - 1 : i + 1 \in 2 .. Len(a)
  BY <1>1
<1>7. QED BY <1>4, <1>5, <1>6

\* Numbers, strings, a name.
LEMMA OthersTell ==
  ASSUME NEW V, \A v \in V : Proper(v), NEW a \in Seq(V), NEW f, Doc!Misused(f, a),
         f \notin Doc!Counting, f \notin Doc!Lenient
  PROVE  TellsWrong(Apply(f, a))
<1>1. /\ Len(a) \in Nat /\ DOMAIN a = 1 .. Len(a)
      /\ \A i \in 1 .. Len(a) : Proper(a[i]) /\ a[i] # Null
      /\ a = <<>> <=> Len(a) = 0
      /\ a = <<>> => FirstOf(a) = Null /\ LastOf(a) = Null
      /\ a # <<>> => FirstOf(a) = a[1] /\ LastOf(a) = a[Len(a)]
  BY EndsOfArgs, ProperNotNull
<1>2. /\ "args" \in Complaints /\ "type" \in Complaints /\ "warning" \in Complaints
      /\ "zero" \in Complaints
  BY DEF Complaints
<1>3. CASE f = "disassemble" /\ Len(a) = 1 /\ a[1][1] # "sym"
  <2>1. Apply(f, a) = Tells(Null, "args")
    BY <1>3 DEF Apply, disassemble
  <2>2. QED BY <1>2, <2>1, Refusing
<1>4. CASE f = "-" /\ \E i \in DOMAIN a : a[i][1] # "num"
  <2>1. a # <<>> /\ Others(a) # {}
    BY <1>1, <1>4 DEF Others
  <2>2. Apply(f, a) = Tells(Whole(0), "type")
    BY <1>4, <2>1 DEF Apply, minus
  <2>3. QED BY <1>2, <2>2, Refusing
<1>5. CASE /\ f = "split" /\ Len(a) <= 2
           /\ a = <<>> \/ \E i \in DOMAIN a : a[i][1] # "str"
  <2>1. Apply(f, a) = split(a)
    BY <1>5 DEF Apply
  <2>2. CASE FirstOf(a)[1] # "str"
    <3>1. Apply(f, a) = Tells(Nil, "type")
      BY <2>1, <2>2 DEF split
    <3>2. QED BY <1>2, <3>1, Refusing
  <2>3. CASE FirstOf(a)[1] = "str"
    <3>1. a # <<>> /\ a[1][1] = "str"
      BY <1>1, <2>3 DEF Null
    <3>2. Len(a) = 2 /\ a[2][1] # "str"
      BY <1>1, <1>5, <3>1
    <3>3. Len(a) > 1
      BY <1>1, <3>2, Few
    <3>4. split(a) = Tells(List(Words(a[1][2], {" "})), "warning")
      BY <2>3, <3>2, <3>3, Zenon DEF split
    <3>5. QED BY <1>2, <2>1, <3>4, Refusing
  <2>4. QED BY <2>2, <2>3
<1>6. CASE /\ f \in {"/", "div"} /\ \A i \in DOMAIN a : a[i][1] = "num"
           /\ \E i \in 2 .. Len(a) : a[i][2] = 0
  <2>1. NumStart(a) = a
    BY <1>6, AllNumbers
  <2>2. PICK i \in 2 .. Len(a) : a[i][2] = 0
    BY <1>6
  <2>3. a # <<>> /\ i \in DOMAIN a
    BY <1>1, <2>2
  <2>4. a[i] = Whole(0)
    <3>1. a[i] = <<"num", a[i][2]>>
      BY <1>1, <1>6, <2>3 DEF Proper
    <3>2. QED BY <2>2, <3>1 DEF Whole, Unit
  <2>5. CASE f = "/"
    <3>1. Whole(0) \in ToSet(Tail(a))
      BY <2>2, <2>3, <2>4, TailHas
    <3>2. Apply(f, a) = Tells(Nil, "zero")
      BY <2>1, <2>3, <2>5, <3>1 DEF Apply, ddiv
    <3>3. QED BY <1>2, <3>2, Refusing
  <2>6. CASE f = "div"
    <3>1. Trunc(0) = 0
      BY DEF Trunc, Quot, Unit
    <3>2. \E j \in 2 .. Len(a) : Trunc(a[j][2]) = 0
      BY <2>2, <3>1
    <3>3. Apply(f, a) = Tells(Nil, "zero")
      BY <2>1, <2>3, <2>6, <3>2 DEF Apply, idiv
    <3>4. QED BY <1>2, <3>3, Refusing
  <2>7. QED BY <1>6, <2>5, <2>6
<1>7. QED BY <1>3, <1>4, <1>5, <1>6 DEF Doc!Misused, Doc!IsNum

\* Whatever the arguments, a library function that must refuse them does.
LEMMA MisuseTells ==
  ASSUME NEW V, \A v \in V : Proper(v), NEW a \in Seq(V), NEW f, f \notin CallsBack,
         Doc!Misused(f, a)
  PROVE  TellsWrong(Apply(f, a))
<1>1. CASE f \in Doc!Counting
  <2>1. ~Doc!Fits(f, a)
    BY <1>1 DEF Doc!Misused, Doc!Counting, Doc!Lenient
  <2>2. QED BY <1>1, <2>1, CountingTell
<1>2. CASE f \in Doc!Lenient
  <2>1. Len(a) <= Len(Doc!Wants(f)) /\ ~Doc!Fits(f, a)
    BY <1>2 DEF Doc!Misused, Doc!Counting, Doc!Lenient
  <2>2. QED BY <1>2, <2>1, LenientTell
<1>3. QED BY <1>1, <1>2, OthersTell

-----------------------------------------------------------------------------
\* the call tells nothing and leaves a value
Silent(r) == r.told = {} /\ r.v # Null

LEMMA Giving ==
  ASSUME NEW v, v[1] \in Kinds
  PROVE  Silent(Gives(v))
BY DEF Silent, Gives, Kinds, Null

LEMMA ValueKinds ==
  /\ \A n : <<"num", n>>[1] \in Kinds /\ Whole(n)[1] \in Kinds /\ Str(n)[1] \in Kinds
            /\ List(n)[1] \in Kinds /\ Truth(n)[1] \in Kinds
  /\ Nil[1] \in Kinds /\ <<"t">>[1] \in Kinds
BY DEF Whole, Str, List, Truth, Nil, Kinds

\* akl_get_args_strict accepts what has the types.
LEMMA StrictAccepts ==
  ASSUME NEW a, NEW t \in Kinds \ {"fun", "cfun"}, NEW u \in Kinds \ {"fun", "cfun"}
  PROVE  /\ Len(a) = 1 /\ a[1][1] = t => Strict(a, <<t>>)
         /\ Len(a) = 2 /\ a[1][1] = t /\ a[2][1] = u => Strict(a, <<t, u>>)
<1>1. \A v : v[1] \in Kinds \ {"fun", "cfun"} => TypeName(v) = v[1]
  BY DEF TypeName, IsFun
<1>2. ASSUME Len(a) = 1, a[1][1] = t
      PROVE  Strict(a, <<t>>)
  BY <1>1, <1>2 DEF Strict
<1>3. ASSUME Len(a) = 2, a[1][1] = t, a[2][1] = u
      PROVE  Strict(a, <<t, u>>)
  BY <1>1, <1>3 DEF Strict
<1>4. QED BY <1>2, <1>3

\* A whole number that is not zero is none of which nothing is left.
LEMMA WholeTrunc ==
  ASSUME NEW n \in Int, n % 12 = 0, n # 0
  PROVE  Trunc(n) # 0
<1>1. (n \div 12) \in Int /\ n = 12 * (n \div 12)
  OBVIOUS
<1> DEFINE q == n \div 12
<1>2. q \in Int /\ n = 12 * q /\ q # 0
  BY <1>1
<1>3. Trunc(n) = IF q < 0 /\ q * 12 # n THEN q + 1 ELSE q
  BY DEF Trunc, Quot, Unit
<1> HIDE DEF q
<1>4. q * 12 = n
  BY <1>2
<1>5. QED BY <1>2, <1>3, <1>4

\* Only the comparison of two lists may end the process.
LEMMA Comparable ==
  ASSUME NEW x, NEW y, Proper(x), Proper(y), ~(x[1] = "list" /\ y[1] = "list")
  PROVE  CompareValues(x, y) # Null
<1>1. x # Null /\ y # Null /\ Null \notin {x, y}
  BY ProperNotNull
<1>2. \A n : Order(n) # Null
  BY DEF Order, Null
<1>3. CASE x[1] # y[1] \/ IsFun(x)
  <2>1. CompareValues(x, y) = Order(-1)
    BY <1>1, <1>3 DEF CompareValues, CompareBy, IsFun
  <2>2. QED BY <1>2, <2>1
<1>4. CASE x[1] = y[1] /\ ~IsFun(x)
  <2>1. x[1] \in {"num", "str", "sym", "nil", "t"}
    BY <1>4 DEF Proper, Kinds, IsFun
  <2>2. CASE x[1] = "num"
    <3>1. CompareValues(x, y) = Order(Trunc(x[2]) - Trunc(y[2]))
      BY <1>1, <1>4, <2>2 DEF CompareValues, CompareBy
    <3>2. QED BY <1>2, <3>1
  <2>3. CASE x[1] = "str"
    <3>1. CompareValues(x, y) = StrCmp(x[2], y[2])
      BY <1>1, <1>4, <2>3 DEF CompareValues, CompareBy
    <3>2. \E n : StrCmp(x[2], y[2]) = Order(n)
      BY DEF StrCmp
    <3>3. QED BY <1>2, <3>1, <3>2
  <2>4. CASE x[1] = "sym"
    <3>1. CompareValues(x, y) = Order(IF x = y THEN 0 ELSE 1)
      BY <1>1, <1>4, <2>4 DEF CompareValues, CompareBy
    <3>2. QED BY <1>2, <3>1
  <2>5. CASE x[1] \in {"nil", "t"}
    <3>1. y = x
      BY <1>4, <2>5 DEF Proper
    <3>2. CompareValues(x, y) = Order(0)
      BY <1>1, <1>4, <2>5, <3>1 DEF CompareValues, CompareBy
    <3>3. QED BY <1>2, <3>2
  <2>6. QED BY <2>1, <2>2, <2>3, <2>4, <2>5
<1>5. QED BY <1>3, <1>4

LEMMA ComparingSilent ==
  ASSUME NEW a, Len(a) = 2, CompareValues(a[1], a[2]) # Null,
         NEW f \in {"=", "!=", "<", ">", "<=", ">="}
  PROVE  Silent(Apply(f, a))
<1>1. \E b : Apply(f, a) = Gives(Truth(b))
  <2>1. CASE f = "="
    BY <2>1 DEF Apply, eq, Comparing
  <2>2. CASE f = "!="
    BY <2>2 DEF Apply, neq, Comparing
  <2>3. CASE f = "<"
    BY <2>3 DEF Apply, lt, Comparing
  <2>4. CASE f = ">"
    BY <2>4 DEF Apply, gt, Comparing
  <2>5. CASE f = "<="
    BY <2>5 DEF Apply, lteq, Comparing
  <2>6. CASE f = ">="
    BY <2>6 DEF Apply, gteq, Comparing
  <2>7. QED BY <2>1, <2>2, <2>3, <2>4, <2>5, <2>6
<1>2. QED BY <1>1, Giving, ValueKinds

\* An element of a list or a letter is never NULL.
LEMMA ElementGiven ==
  ASSUME NEW v, NEW i
  PROVE  Silent(Gives(ElementAt(v, i)))
<1>1. Nil # Null /\ \A s : Str(s) # Null
  BY DEF Nil, Null, Str
<1>2. ElementAt(v, i) # Null
  BY <1>1 DEF ElementAt, Nuller
<1>3. QED BY <1>2 DEF Silent, Gives

LEMMA ArithmeticSilent ==
  ASSUME NEW V, \A v \in V : Proper(v), NEW a \in Seq(V),
         NEW f \in {"++", "--", "zero?", "+", "-", "*", "/", "div", "mod", "range"},
         Doc!HasMeaning(f, a)
  PROVE  Silent(Apply(f, a))
<1>0. \A i \in DOMAIN a : a[i] \in Doc!ToSet(a)
  BY DEF Doc!ToSet
<1>1. /\ Len(a) \in Nat /\ DOMAIN a = 1 .. Len(a)
      /\ \A i \in 1 .. Len(a) : Proper(a[i])
  BY EndsOfArgs
<1>2. "num" \in Kinds \ {"fun", "cfun"}
  BY DEF Kinds
<1>3. \A n : Silent(Gives(<<"num", n>>)) /\ Silent(Gives(Whole(n)))
  BY Giving, ValueKinds
<1>4. CASE f \in {"++", "--", "zero?"}
  <2>1. Len(a) = 1 /\ a[1][1] = "num"
    BY <1>4 DEF Doc!HasMeaning, Doc!IsNum
  <2>2. Strict(a, <<"num">>)
    BY <1>2, <2>1, StrictAccepts
  <2>3. CASE f = "++"
    BY <1>3, <2>2, <2>3 DEF Apply, inc
  <2>4. CASE f = "--"
    BY <1>3, <2>2, <2>4 DEF Apply, dec
  <2>5. CASE f = "zero?"
    <3>1. Apply(f, a) = Gives(Truth(a = <<Whole(0)>>))
      BY <2>2, <2>5 DEF Apply, iszero, AsStrict
    <3>2. QED BY <3>1, Giving, ValueKinds
  <2>6. QED BY <1>4, <2>3, <2>4, <2>5
<1>5. CASE f \in {"+", "*"}
  <2>1. CASE f = "+"
    <3>1. Apply(f, a) = plus(a)
      BY <2>1 DEF Apply
    <3>2. \E n : plus(a) = Gives(<<"num", n>>)
      BY DEF plus
    <3>3. QED BY <1>3, <3>1, <3>2
  <2>2. CASE f = "*"
    <3>1. Apply(f, a) = mul(a)
      BY <2>2 DEF Apply
    <3>2. \E n : mul(a) = Gives(<<"num", n>>)
      BY DEF mul
    <3>3. QED BY <1>3, <3>1, <3>2
  <2>3. QED BY <1>5, <2>1, <2>2
<1>6. CASE f = "-"
  <2>1. \A i \in DOMAIN a : a[i][1] = "num"
    <3>1. \A v \in Doc!ToSet(a) : v[1] = "num"
      BY <1>6 DEF Doc!HasMeaning, Doc!IsNum
    <3>2. QED BY <3>1, <1>0
  <2>2. Others(a) = {}
    BY <2>1 DEF Others
  <2>3. Apply(f, a) = minus(a)
    BY <1>6 DEF Apply
  <2>4. minus(a) = Gives(Whole(0)) \/ \E n : minus(a) = Gives(<<"num", n>>)
    BY <2>2 DEF minus
  <2>5. QED BY <1>3, <2>3, <2>4
<1>7. CASE f \in {"/", "div"}
  <2>1. /\ \A i \in DOMAIN a : a[i][1] = "num"
        /\ \A i \in DOMAIN a : i > 1 => a[i][2] # 0
        /\ f = "div" => \A i \in DOMAIN a : a[i][2] % 12 = 0
    BY <1>7 DEF Doc!HasMeaning, Doc!IsNum, Doc!IsWhole, Doc!Unit
  <2>2. NumStart(a) = a
    BY <2>1, AllNumbers
  <2>3. \A i \in 2 .. Len(a) : i \in DOMAIN a /\ a[i][2] # 0 /\ a[i][2] \in Int
    <3>1. \A i \in 2 .. Len(a) : i \in DOMAIN a /\ i > 1
      BY <1>1
    <3>2. QED BY <1>1, <2>1, <3>1 DEF Proper
  <2>4. CASE f = "/"
    <3>1. Apply(f, a) = ddiv(a)
      BY <2>4 DEF Apply
    <3>2. \A i \in 2 .. Len(a) : a[i] # Whole(0)
      <4>1. Whole(0)[2] = 0
        BY DEF Whole, Unit
      <4>2. QED BY <2>3, <4>1
    <3>3. a # <<>> => Whole(0) \notin ToSet(Tail(a))
      BY <3>2, TailHas
    <3>4. ddiv(a) = Gives(Whole(0)) \/ \E n : ddiv(a) = Gives(<<"num", n>>)
      BY <2>2, <3>3 DEF ddiv
    <3>5. QED BY <1>3, <3>1, <3>4
  <2>5. CASE f = "div"
    <3>1. Apply(f, a) = idiv(a)
      BY <2>5 DEF Apply
    <3>2. \A i \in 2 .. Len(a) : Trunc(a[i][2]) # 0
      BY <2>1, <2>3, <2>5, WholeTrunc
    <3>3. \E n : idiv(a) = Gives(Whole(n))
      BY <2>2, <3>2 DEF idiv
    <3>4. QED BY <1>3, <3>1, <3>3
  <2>6. QED BY <1>7, <2>4, <2>5
<1>8. CASE f \in {"mod", "range"}
  <2>1. Len(a) = 2 /\ \A i \in DOMAIN a : a[i][1] = "num" /\ a[i][2] % 12 = 0
    <3>1. Len(a) = 2 /\ \A v \in Doc!ToSet(a) : v[1] = "num" /\ v[2] % 12 = 0
      BY <1>8 DEF Doc!HasMeaning, Doc!IsNum, Doc!IsWhole, Doc!Unit
    <3>2. QED BY <3>1, <1>0
  <2>2. 1 \in DOMAIN a /\ 2 \in DOMAIN a
    BY <1>1, <2>1
  <2>3. Strict(a, <<"num", "num">>)
    BY <1>2, <2>1, <2>2, StrictAccepts
  <2>4. CASE f = "mod"
    <3>1. a[2] # <<"num", 0>>
      BY <2>4 DEF Doc!HasMeaning, Doc!Num
    <3>2. a[2] = <<"num", a[2][2]>> /\ a[2][2] \in Int
      BY <1>1, <2>1, <2>2 DEF Proper
    <3>3. Trunc(a[2][2]) # 0
      BY <2>1, <2>2, <3>1, <3>2, WholeTrunc
    <3>4. \E n : Apply(f, a) = Gives(Whole(n))
      BY <2>3, <2>4, <3>3 DEF Apply, mod
    <3>5. QED BY <1>3, <3>4
  <2>5. CASE f = "range"
    <3>1. \E s : Apply(f, a) = Gives(List(s))
      BY <2>3, <2>5 DEF Apply, range
    <3>2. QED BY <3>1, Giving, ValueKinds
  <2>6. QED BY <1>8, <2>4, <2>5
<1>9. QED BY <1>4, <1>5, <1>6, <1>7, <1>8

LEMMA ComparisonSilent ==
  ASSUME NEW V, \A v \in V : Proper(v), NEW a \in Seq(V),
         NEW f \in {"=", "!=", "<", ">", "<=", ">="}, Doc!HasMeaning(f, a)
  PROVE  Silent(Apply(f, a))
<1>1. \A i \in DOMAIN a : a[i] \in Doc!ToSet(a)
  BY DEF Doc!ToSet
<1>2. Len(a) = 2 /\ \A v \in Doc!ToSet(a) : v[1] # "list"
  <2>1. CASE f \in {"<", ">", "<=", ">="}
    <3>1. Len(a) = 2 /\ \A v \in Doc!ToSet(a) : v[1] = "num"
      BY <2>1 DEF Doc!HasMeaning, Doc!IsWhole, Doc!IsNum
    <3>2. QED BY <3>1
  <2>2. CASE f \in {"=", "!="}
    BY <2>2 DEF Doc!HasMeaning
  <2>3. QED BY <2>1, <2>2
<1>3. 1 \in DOMAIN a /\ 2 \in DOMAIN a /\ Proper(a[1]) /\ Proper(a[2])
  <2>1. DOMAIN a = 1 .. 2 /\ \A i \in 1 .. 2 : Proper(a[i])
    BY <1>2, EndsOfArgs
  <2>2. QED BY <2>1
<1>4. CompareValues(a[1], a[2]) # Null
  BY <1>1, <1>2, <1>3, Comparable
<1>5. QED BY <1>2, <1>4, ComparingSilent

LEMMA SequenceSilent ==
  ASSUME NEW V, \A v \in V : Proper(v), NEW a \in Seq(V),
         NEW f \in {"length", "index", "head", "last", "tail", "split"},
         Doc!HasMeaning(f, a)
  PROVE  Silent(Apply(f, a))
<1>1. /\ a # <<>> => FirstOf(a) = a[1] /\ LastOf(a) = a[Len(a)]
      /\ a = <<>> <=> Len(a) = 0
      /\ Len(a) \in Nat /\ DOMAIN a = 1 .. Len(a) /\ \A i \in 1 .. Len(a) : a[i] # Null
  BY EndsOfArgs, ProperNotNull
<1>2. CASE f = "length"
  <2>1. Len(a) = 1 /\ a[1][1] \in {"str", "list"}
    BY <1>2 DEF Doc!HasMeaning, Doc!IsListOrString
  <2>2. Apply(f, a) = Gives(Whole(Len(a[1][2])))
    BY <1>2, <2>1 DEF Apply, length
  <2>3. QED BY <2>2, Giving, ValueKinds
<1>3. CASE f = "index"
  <2>1. Len(a) = 2 /\ a[1][1] = "num" /\ a[2][1] \in {"str", "list"}
    BY <1>3 DEF Doc!HasMeaning, Doc!IsListOrString, Doc!IsWhole, Doc!IsNum
  <2>2. a[2] # Cdr(<<Nil>>)
    <3>1. SUFFICES ASSUME a[2] = Cdr(<<Nil>>)
                   PROVE  FALSE
      OBVIOUS
    <3>2. Len(a[2][2]) = 0
      <4>1. Cdr(<<Nil>>) = <<"list", <<>>, "nil">>
        BY DEF Cdr
      <4>2. a[2][2] = <<>>
        BY <3>1, <4>1
      <4>3. QED BY <4>2
    <3>3. a[1][2] \div 12 \in 0 .. Len(a[2][2]) - 1
      BY <1>3 DEF Doc!HasMeaning, Doc!Unit
    <3>4. QED BY <3>2, <3>3
  <2>3. a # <<>> /\ Len(a) > 1 /\ Last(a) = a[2] /\ a[2] # Null
    BY <1>1, <2>1 DEF Last
  <2>4. Apply(f, a) = Gives(ElementAt(a[2], Trunc(a[1][2])))
    BY <1>1, <1>3, <2>1, <2>2, <2>3 DEF Apply, ls_index
  <2>5. QED BY <2>4, ElementGiven
<1>4. CASE f \in {"head", "last"}
  <2>1. Len(a) = 1 /\ a[1][1] \in {"str", "list"}
    BY <1>4 DEF Doc!HasMeaning, Doc!IsListOrString
  <2>2. LastOf(a) = a[1] /\ a[1] # Null
    BY <1>1, <2>1
  <2>3. \E i : Apply(f, a) = Gives(ElementAt(a[1], i))
    <3>1. CASE f = "head"
      BY <2>1, <2>2, <3>1 DEF Apply, ls_head, OfLast
    <3>2. CASE f = "last"
      BY <2>1, <2>2, <3>2 DEF Apply, ls_last, OfLast
    <3>3. QED BY <1>4, <3>1, <3>2
  <2>4. QED BY <2>3, ElementGiven
<1>5. CASE f = "tail"
  <2>1. Len(a) = 1 /\ a[1][1] \in {"str", "list"}
    BY <1>5 DEF Doc!HasMeaning, Doc!IsListOrString
  <2>2. LastOf(a) = a[1] /\ a[1] # Null
    BY <1>1, <2>1
  <2>3. Cdr(a[1][2])[1] \in Kinds
    BY DEF Cdr, Nil, List, Kinds
  <2>4. \E v : v[1] \in Kinds /\ Apply(f, a) = Gives(v)
    BY <1>5, <2>1, <2>2, <2>3, ValueKinds DEF Apply, ls_tail, OfLast
  <2>5. QED BY <2>4, Giving
<1>6. CASE f = "split"
  <2>1. Len(a) \in 1 .. 2 /\ \A v \in Doc!ToSet(a) : v[1] = "str"
    BY <1>6 DEF Doc!HasMeaning
  <2>2. \A i \in DOMAIN a : a[i][1] = "str"
    BY <2>1 DEF Doc!ToSet
  <2>3. a # <<>> /\ FirstOf(a)[1] = "str"
    BY <1>1, <2>1, <2>2
  <2>4. (IF Len(a) > 1 THEN a[2] ELSE Str(<<" ">>))[1] = "str"
    BY <1>1, <2>1, <2>2 DEF Str
  <2>5. split(a) = Gives(List(Words(a[1][2], ToSet((IF Len(a) > 1 THEN a[2] ELSE Str(<<" ">>))[2]))))
    BY <2>3, <2>4, Zenon DEF split
  <2>6. Apply(f, a) = split(a)
    BY <1>6 DEF Apply
  <2>7. QED BY <2>5, <2>6, Giving, ValueKinds
<1>7. QED BY <1>2, <1>3, <1>4, <1>5, <1>6

\* A use that has a meaning is silent, whatever the arguments are.
LEMMA ProperUseTells ==
  ASSUME NEW V, \A v \in V : Proper(v), NEW a \in Seq(V), NEW f, Doc!HasMeaning(f, a)
  PROVE  f \notin CallsBack /\ Silent(Apply(f, a))
<1>1. /\ a # <<>> => FirstOf(a) = a[1] /\ LastOf(a) = a[Len(a)]
      /\ a = <<>> <=> Len(a) = 0
      /\ Len(a) \in Nat /\ DOMAIN a = 1 .. Len(a) /\ \A i \in 1 .. Len(a) : Proper(a[i])
  BY EndsOfArgs
<1> DEFINE Logic == {"list", "not", "and", "or", "nil?", "number?", "string?", "list?", "symbol?",
                     "print", "display"}
<1>2. CASE f \in Logic
  <2>1. \E b : Apply(f, a) \in {Gives(Truth(b)), Gives(List(b)), Gives(Nil), Gives(<<"t">>)}
    <3>1. CASE f \in {"not", "nil?"}
      BY <3>1 DEF Apply, not, isnil
    <3>2. CASE f \in {"and", "or"}
      BY <3>2 DEF Apply, and, or
    <3>3. CASE f \in {"number?", "string?"}
      BY <3>3 DEF Apply, isnumber, isstring
    <3>4. CASE f \in {"list?", "symbol?"}
      BY <3>4 DEF Apply, islist, issymbol
    <3>5. CASE f \in {"list", "print", "display"}
      BY <3>5 DEF Apply, list, print, display
    <3>6. QED BY <1>2, <3>1, <3>2, <3>3, <3>4, <3>5
  <2>2. QED BY <1>2, <2>1, Giving, ValueKinds DEF CallsBack
<1>3. CASE f = "$"
  <2>1. a # <<>>
    BY <1>3 DEF Doc!HasMeaning
  <2>2. LastOf(a) = a[Len(a)] /\ Len(a) \in DOMAIN a
    BY <1>1, <2>1
  <2>3. Proper(LastOf(a))
    BY <1>1, <2>2
  <2>4. Apply(f, a) = Gives(LastOf(a))
    BY <1>3 DEF Apply, progn
  <2>5. QED BY <1>3, <2>3, <2>4, Giving DEF Proper, CallsBack
<1>4. CASE f \in {"number", "int", "string"}
  <2>1. Len(a) = 1 /\ a[1][1] \in {"num", "str"}
    BY <1>4 DEF Doc!HasMeaning, Doc!IsWhole, Doc!IsNum
  <2>2. \E n : Apply(f, a) \in {Gives(<<"num", n>>), Gives(Whole(n)), Gives(Str(n))}
    <3>1. CASE f = "number"
      BY <2>1, <3>1 DEF Apply, tonumber
    <3>2. CASE f = "int"
      BY <2>1, <3>2 DEF Apply, toint
    <3>3. CASE f = "string"
      BY <2>1, <3>3 DEF Apply, tostr
    <3>4. QED BY <1>4, <3>1, <3>2, <3>3
  <2>3. QED BY <1>4, <2>2, Giving, ValueKinds DEF CallsBack
<1>5. CASE f = "write-times"
  <2>1. Len(a) = 2 /\ a[1][1] = "num" /\ a[2][1] = "str"
    BY <1>5 DEF Doc!HasMeaning, Doc!IsWhole, Doc!IsNum
  <2>2. "num" \in Kinds \ {"fun", "cfun"} /\ "str" \in Kinds \ {"fun", "cfun"}
    BY DEF Kinds
  <2>3. Strict(a, <<"num", "str">>)
    BY <2>1, <2>2, StrictAccepts
  <2>4. FirstOf(a) = a[1]
    BY <1>1, <2>1
  <2>5. Apply(f, a) = Gives(a[1])
    BY <1>5, <2>3, <2>4 DEF Apply, write_times, AsStrict
  <2>6. QED BY <1>5, <2>1, <2>2, <2>5, Giving DEF CallsBack
<1>6. CASE f \in {"++", "--", "zero?", "+", "-", "*", "/", "div", "mod", "range"}
  BY <1>6, ArithmeticSilent DEF CallsBack
<1>7. CASE f \in {"=", "!=", "<", ">", "<=", ">="}
  BY <1>7, ComparisonSilent DEF CallsBack
<1>8. CASE f \in {"length", "index", "head", "last", "tail", "split"}
  BY <1>8, SequenceSilent DEF CallsBack
<1>9. QED BY <1>2, <1>3, <1>4, <1>5, <1>6, <1>7, <1>8 DEF Doc!HasMeaning

\* Arguments that are misused are not accepted by a function that calls back.
LEMMA LoopsRefuse ==
  ASSUME NEW V, \A v \in V : Proper(v), NEW a \in Seq(V), NEW f \in CallsBack, Accepts(f, a)
  PROVE  ~Doc!Misused(f, a)
<1>1. /\ DOMAIN a = 1 .. Len(a)
      /\ \A i \in 1 .. Len(a) : a[i][1] \in Kinds
  BY EndsOfArgs DEF Proper
<1>2. \A v : IsFun(v) <=> v[1] \in Doc!Function
  BY DEF IsFun, Doc!Function
<1>3. Doc!Fits(f, a)
  <2>1. CASE f \in {"map", "map-index"}
    <3>1. Len(a) = 2 /\ a[1][1] = "list" /\ IsFun(a[2])
      BY <1>1, <2>1, AcceptedArgs
    <3>2. Doc!Wants(f) = <<{"list"}, Doc!Function>>
      BY <2>1 DEF Doc!Wants
    <3>3. QED BY <1>2, <3>1, <3>2 DEF Doc!Fits
  <2>2. CASE f \in {"foldl", "fold"}
    <3>1. Len(a) = 3 /\ a[2][1] = "list" /\ IsFun(a[3])
      BY <1>1, <2>2, AcceptedArgs DEF Folds
    <3>2. a[1][1] \in Doc!Anything
      BY <1>1, <3>1 DEF Kinds, Doc!Anything, Doc!Function, Doc!Sequence
    <3>3. Doc!Wants(f) = <<Doc!Anything, {"list"}, Doc!Function>>
      BY <2>2 DEF Doc!Wants
    <3>4. QED BY <1>2, <3>1, <3>2, <3>3 DEF Doc!Fits
  <2>3. CASE f \in {"times", "times-index"}
    <3>1. Len(a) = 2 /\ a[1][1] = "num" /\ IsFun(a[2])
      BY <1>1, <2>3, AcceptedArgs
    <3>2. Doc!Wants(f) = <<{"num"}, Doc!Function>>
      BY <2>3 DEF Doc!Wants
    <3>3. QED BY <1>2, <3>1, <3>2 DEF Doc!Fits
  <2>4. QED BY <2>1, <2>2, <2>3 DEF CallsBack
<1>4. QED BY <1>3 DEF CallsBack, Doc!Misused, Doc!Lenient

-----------------------------------------------------------------------------
(***************************************************************************)
(* The machine tells what the library tells.                               *)
(***************************************************************************)
\* The library is AklLib, but that "int" and "string" may give anything for
\* arguments of which they read what nobody wrote.
LibraryIsApply ==
  \A f, a : (f \in {"int", "string"} => Doc!HasMeaning(f, a)) => Library(f, a) = Apply(f, a)

LEMMA InvokeTells ==
  ASSUME Machine, LibraryIsApply, NEW p \in Programs, NEW f \in Value(p), f[1] = "cfun",
         NEW n \in Nat, NEW st \in Seq(Value(p)), NEW c, Invoke(f, n, st, c)
  PROVE  /\ Doc!Misused(f[2], Topmost(st, n)) => told' \cap Complaints # {}
         /\ Doc!HasMeaning(f[2], Topmost(st, n)) => told' = told
<1> DEFINE a == Topmost(st, n)
           r == Library(f[2], a)
<1>1. a \in Seq(Value(p))
  BY TakeOff DEF Topmost
<1>2. \A v \in Value(p) : Proper(v)
  BY DEF Machine, ValuesAreValues, Proper
<1>3. \/ f[2] \notin CallsBack /\ told' = Telling(r)
      \/ f[2] \in CallsBack /\ Accepts(f[2], a) /\ told' = told
      \/ f[2] \in CallsBack /\ told' = told \cup {"args"}
  BY DEF Invoke, Topmost
<1> HIDE DEF a
<1>4. ASSUME Doc!Misused(f[2], a)
      PROVE  told' \cap Complaints # {}
  <2>1. CASE f[2] \notin CallsBack /\ told' = Telling(r)
    <3>1. TellsWrong(Apply(f[2], a))
      BY <1>1, <1>2, <1>4, <2>1, MisuseTells
    <3>2. f[2] \notin {"int", "string"}
      BY <1>4 DEF Doc!Misused, Doc!Counting, Doc!Lenient
    <3>3. r = Apply(f[2], a)
      BY <3>2 DEF LibraryIsApply
    <3>4. TellsWrong(r)
      BY <3>1, <3>3
    <3> HIDE DEF r
    <3>5. "null" \in Complaints
      BY DEF Complaints
    <3>6. QED BY <2>1, <3>4, <3>5 DEF TellsWrong, Telling
  <2>2. CASE f[2] \in CallsBack /\ Accepts(f[2], a) /\ told' = told
    BY <1>1, <1>2, <1>4, <2>2, LoopsRefuse
  <2>3. CASE f[2] \in CallsBack /\ told' = told \cup {"args"}
    BY <2>3 DEF Complaints
  <2>4. QED BY <1>3, <2>1, <2>2, <2>3
<1>5. ASSUME Doc!HasMeaning(f[2], a)
      PROVE  told' = told
  <2>1. f[2] \notin CallsBack /\ Silent(Apply(f[2], a))
    BY <1>1, <1>2, <1>5, ProperUseTells
  <2>2. r = Apply(f[2], a)
    BY <1>5 DEF LibraryIsApply
  <2>3. told' = Telling(r) /\ Silent(r)
    BY <1>3, <2>1, <2>2
  <2> HIDE DEF r
  <2>4. QED BY <2>3 DEF Silent, Telling
<1>6. QED BY <1>4, <1>5 DEF a

\* The function a step calls, and what it is called with.
LEMMA StepInvokes ==
  ASSUME Machine, TypeInv, CallsLibrary
  PROVE  /\ prog \in Programs /\ Invoked \in Value(prog) /\ Invoked[1] = "cfun"
         /\ \E n \in Nat, st \in Seq(Value(prog)) : \E c :
              InvokedWith = Topmost(st, n) /\ Invoke(Invoked, n, st, c)
<1>1. prog \in Programs /\ stack \in Seq(Value(prog)) /\ Invoked[1] = "cfun"
  BY DEF TypeInv, CallsLibrary
<1>2. CASE Call
  <2>1. At("call") /\ IsFun(Callee) /\ Invoke(Callee, In[4], stack, Moved) /\ InLisp
    BY <1>2 DEF Call, At
  <2>2. Callee \in Value(prog) /\ In[4] \in Nat
    BY <2>1, CalleeTyped
  <2>3. Invoked = Callee /\ InvokedWith = Topmost(stack, In[4])
    BY <2>1 DEF Invoked, InvokedWith
  <2>4. QED BY <1>1, <2>1, <2>2, <2>3
<1>3. CASE EachCall
  <2>1. /\ InEach /\ ~NoMore /\ ~PushesNull
        /\ \E c : Invoke(Rec.fn, ArgcOf(Rec.f), stack \o Pushed, c)
    BY <1>3 DEF EachCall, Pushed
  <2>2. Rec.fn \in Value(prog) /\ ~InLisp
    BY <2>1, Running DEF EachRecs, InEach, InLisp
  <2>3. Pushed \in Seq(Value(prog)) /\ ArgcOf(Rec.f) \in Nat
    BY <2>1, LoopPushes
  <2>4. stack \o Pushed \in Seq(Value(prog))
    BY <1>1, <2>3, ConcatProperties
  <2>5. Invoked = Rec.fn /\ InvokedWith = Topmost(stack \o Pushed, ArgcOf(Rec.f))
    BY <2>2 DEF Invoked, InvokedWith
  <2>6. QED BY <1>1, <2>1, <2>2, <2>3, <2>4, <2>5
<1>4. QED BY <1>2, <1>3 DEF CallsLibrary

LEMMA LibraryStep ==
  ASSUME Machine, LibraryIsApply, TypeInv, CallsLibrary
  PROVE  /\ Doc!Misused(Invoked[2], InvokedWith) => told' \cap Complaints # {}
         /\ Doc!HasMeaning(Invoked[2], InvokedWith) => told' = told
<1>1. /\ prog \in Programs /\ Invoked \in Value(prog) /\ Invoked[1] = "cfun"
      /\ \E n \in Nat, st \in Seq(Value(prog)) : \E c :
           InvokedWith = Topmost(st, n) /\ Invoke(Invoked, n, st, c)
  BY StepInvokes
<1>2. PICK n \in Nat, st \in Seq(Value(prog)) :
        \E c : InvokedWith = Topmost(st, n) /\ Invoke(Invoked, n, st, c)
  BY <1>1
<1>3. PICK c : InvokedWith = Topmost(st, n) /\ Invoke(Invoked, n, st, c)
  BY <1>2
<1>4. QED BY <1>1, <1>2, <1>3, InvokeTells

\* Whatever program runs, a library function that is called with arguments of
\* the wrong number or types tells it, from an instruction or from a loop of map,
\* foldl or times, and what was told is never lost.
THEOREM MisuseAlwaysTold ==
  ASSUME Machine, LibraryIsApply
  PROVE  Spec => MisuseIsTold
<1>1. ASSUME TypeInv, [Next]_vars
      PROVE  [ /\ told \subseteq told'
               /\ (CallsLibrary /\ Doc!Misused(Invoked[2], InvokedWith))
                    => told' \cap Complaints # {} ]_vars
  <2>1. told \subseteq told'
    BY <1>1, ToldStays
  <2>2. (CallsLibrary /\ Doc!Misused(Invoked[2], InvokedWith)) => told' \cap Complaints # {}
    BY <1>1, LibraryStep
  <2>3. QED BY <2>1, <2>2
<1>2. QED BY <1>1, TypeHolds, PTL DEF Spec, MisuseIsTold

\* Whatever program runs, a use that README.md gives a value tells no error.
THEOREM ProperUseAlwaysSilent ==
  ASSUME Machine, LibraryIsApply
  PROVE  Spec => ProperUseIsSilent
<1>1. ASSUME TypeInv, [Next]_vars
      PROVE  [ (CallsLibrary /\ Doc!HasMeaning(Invoked[2], InvokedWith)) => told' = told ]_vars
  BY <1>1, LibraryStep
<1>2. QED BY <1>1, TypeHolds, PTL DEF Spec, ProperUseIsSilent
=============================================================================
