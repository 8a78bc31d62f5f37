--------------------------- MODULE AklReplProofs ---------------------------
(***************************************************************************)
(* Theorems about the flag of the interactive interpreter (AklRepl), for   *)
(* any set of lines and files.                                             *)
(***************************************************************************)
EXTENDS AklRepl, SequenceTheorems, TLAPS

\* Between two lines, and from akl_execute on, a set flag comes from a signal
\* since the line was entered; while a line is compiled it may be older, but
\* not older than the line before.
FlagAge ==
  /\ sigs \in 0 .. 2 /\ sigsBefore \in 0 .. 2
  /\ flag \in BOOLEAN
  /\ flag => sigs + sigsBefore >= 1
  /\ flag /\ phase # "compile" => sigs >= 1

FlagInv == FlagAge /\ KilledByTwo

\* One more signal, counted up to two.
LEMMA OneMore ==
  ASSUME NEW s \in 0 .. 2, NEW b \in 0 .. 2, NEW t, t = IF s = 2 THEN 2 ELSE s + 1
  PROVE  t \in 0 .. 2 /\ t >= 1 /\ t + b >= 1 /\ (s + b >= 1 => t + b >= 2)
OBVIOUS

\* The inductive invariant behind KilledByTwo: how old a set flag can be.
THEOREM FlagInvariant == Spec => []FlagInv
<1>1. Init => FlagInv
  <2> SUFFICES ASSUME Init PROVE FlagInv
    OBVIOUS
  <2>1. flag \in BOOLEAN /\ ~flag /\ phase # "killed"
    BY DEF Init
  <2>2. sigs \in 0 .. 2 /\ sigsBefore \in 0 .. 2
    BY DEF Init
  <2>3. QED BY <2>1, <2>2 DEF FlagInv, FlagAge, KilledByTwo
<1>2. ASSUME FlagInv, [Next]_vars PROVE FlagInv'
  <2> USE <1>2 DEF FlagInv, FlagAge, KilledByTwo
  <2>1. CASE CompileNext
    BY <2>1 DEF CompileNext, history
  <2>2. CASE CompileList
    BY <2>2 DEF CompileList, InList, history
  <2>3. CASE ListInterrupted
    BY <2>3 DEF ListInterrupted, InList, history
  <2>4. CASE ListCutOff
    BY <2>4 DEF ListCutOff, InList, history
  <2>5. CASE Execute
    BY <2>5 DEF Execute, history
  <2>6. CASE Instruction
    BY <2>6 DEF Instruction, history
  <2>7. CASE Executed
    BY <2>7 DEF Executed, history
  <2>8. CASE Answer
    BY <2>8 DEF Answer, history
  <2>9. CASE Leave
    BY <2>9 DEF Leave, history
  <2>10. CASE Signal
    <3>1. sigs' = (IF sigs = 2 THEN 2 ELSE sigs + 1) /\ sigsBefore' = sigsBefore
      BY <2>10 DEF Signal
    <3>2. /\ sigs' \in 0 .. 2 /\ sigs' >= 1 /\ sigs' + sigsBefore >= 1
          /\ sigs + sigsBefore >= 1 => sigs' + sigsBefore >= 2
      BY <3>1, OneMore
    <3>3. CASE flag
      <4>1. phase' = "killed" /\ flag' = flag
        BY <2>10, <3>3 DEF Signal
      <4>2. sigs' + sigsBefore' >= 2
        BY <3>1, <3>2, <3>3
      <4>3. QED BY <3>1, <3>2, <4>1, <4>2
    <3>4. CASE ~flag
      <4>1. flag' = TRUE /\ phase' = phase /\ phase # "killed"
        BY <2>10, <3>4 DEF Signal
      <4>2. QED BY <3>1, <3>2, <4>1
    <3>5. QED BY <3>3, <3>4
  <2>11. ASSUME NEW l \in Lines, ReadLine(l) PROVE FlagInv'
    BY <2>11 DEF ReadLine, Compile
  <2>12. CASE UNCHANGED vars
    BY <2>12 DEF vars
  <2>13. CASE Loaded
    BY <2>13 DEF Loaded, history
  <2>14. ASSUME NEW l \in Files, Load(l) PROVE FlagInv'
    BY <2>14 DEF Load, Compile, history
  <2>15. QED
    BY <1>2, <2>1, <2>2, <2>3, <2>4, <2>5, <2>6, <2>7, <2>8, <2>9, <2>10, <2>11,
       <2>12, <2>13, <2>14 DEF Next, Work
<1>3. QED
  BY <1>1, <1>2, PTL DEF Spec

\* interrupt_program ends the process only at the second of two signals, and
\* the first came no longer ago than the line before this one was entered.
THEOREM TwoSignalsKill == Spec => []KilledByTwo
<1>1. FlagInv => KilledByTwo
  BY DEF FlagInv
<1>2. QED BY <1>1, FlagInvariant, PTL

-----------------------------------------------------------------------------
(***************************************************************************)
(* Types.                                                                  *)
(***************************************************************************)
\* Without its last element a sequence is one of the same kind.
LEMMA FrontType ==
  ASSUME NEW S, NEW s \in Seq(S), s # <<>>
  PROVE  /\ Front(s) \in Seq(S) /\ Len(Front(s)) = Len(s) - 1
         /\ \A i \in 1 .. Len(s) - 1 : Front(s)[i] = s[i]
         /\ Len(s) \in 1 .. Len(s) /\ Last(s) = s[Len(s)] /\ Last(s) \in S
<1>1. Len(s) \in Nat \ {0}
  BY EmptySeq
<1>2. \A i \in 1 .. Len(s) : s[i] \in S
  BY ElementOfSeq
<1>3. \A i \in 1 .. Len(s) - 1 : s[i] \in S
  BY <1>1, <1>2
<1>4. /\ SubSeq(s, 1, Len(s) - 1) \in Seq(S)
      /\ Len(SubSeq(s, 1, Len(s) - 1)) =
           IF 1 <= Len(s) - 1 THEN (Len(s) - 1) - 1 + 1 ELSE 0
      /\ \A i \in 1 .. (Len(s) - 1) - 1 + 1 :
           SubSeq(s, 1, Len(s) - 1)[i] = s[1 + i - 1]
  BY <1>1, <1>3, SubSeqProperties
<1>5. \A i \in 1 .. Len(s) - 1 : 1 + i - 1 = i
  OBVIOUS
<1>6. (IF 1 <= Len(s) - 1 THEN (Len(s) - 1) - 1 + 1 ELSE 0) = Len(s) - 1
  <2>1. \A n \in Nat \ {0} : (IF 1 <= n - 1 THEN (n - 1) - 1 + 1 ELSE 0) = n - 1
    OBVIOUS
  <2>2. QED BY <1>1, <2>1
<1>7. (Len(s) - 1) - 1 + 1 = Len(s) - 1
  BY <1>1
<1>8. Len(s) \in 1 .. Len(s)
  BY <1>1
<1>9. Last(s) = s[Len(s)] /\ Last(s) \in S
  BY <1>2, <1>8 DEF Last
<1>10. /\ Front(s) \in Seq(S) /\ Len(Front(s)) = Len(s) - 1
       /\ \A i \in 1 .. Len(s) - 1 : Front(s)[i] = s[i]
  BY <1>4, <1>5, <1>6, <1>7 DEF Front
<1>11. QED BY <1>8, <1>9, <1>10

\* One more token gives a compilation again.
LEMMA AfterType ==
  ASSUME NEW c \in Compilations, NEW t \in Tokens
  PROVE  After(c, t) \in Compilations
<1>1. c.levels \in Seq(Heads) /\ c.code \in Seq(Instrs)
  BY DEF Compilations
<1>2. ASSUME NEW h \in Heads, c.levels # <<>>
      PROVE  Headed(c.levels, h) \in Seq(Heads)
  BY <1>1, <1>2, FrontType, ExceptSeq DEF Headed
<1>3. Met(c.levels) \in Seq(Heads)
  BY <1>1, <1>2 DEF Met, Heads
<1>4. ASSUME NEW i \in Instrs PROVE Push(c, i) \in Compilations
  BY <1>1, <1>3, <1>4, AppendProperties DEF Push, Compilations
<1>5. Close(c) \in Compilations
  <2>1. CASE c.levels = <<>>
    BY <1>4, <2>1 DEF Close, Instrs
  <2>2. CASE c.levels # <<>>
    BY <1>1, <2>2, FrontType, AppendProperties DEF Close, Compilations, Instrs
  <2>3. QED BY <2>1, <2>2
<1>6. ASSUME t \in Names PROVE Name(c, t) \in Compilations
  <2>1. Push(c, "push") \in Compilations
    BY <1>4 DEF Instrs
  <2>2. ASSUME c.levels # <<>>
        PROVE  [levels |-> Headed(c.levels, t), code |-> c.code] \in Compilations
    BY <1>1, <1>2, <1>6, <2>2 DEF Compilations, Heads
  <2>3. QED BY <2>1, <2>2 DEF Name
<1>7. [levels |-> Append(Met(c.levels), "?"), code |-> c.code] \in Compilations
  BY <1>1, <1>3, AppendProperties DEF Compilations, Heads
<1>8. Push(c, "push") \in Compilations
  BY <1>4 DEF Instrs
<1>9. QED BY <1>5, <1>6, <1>7, <1>8 DEF After

\* The inductive invariant behind TypeOK: a program that runs has a text, and
\* compiling leaves the instruction pointer alone.
TypeInv ==
  /\ TypeOK
  /\ phase \in {"compile", "execute", "answer"} => line \in Texts
  /\ phase = "compile" => ip = 1

\* What the end of the loop of akl_ir_exec_branch does not end can be executed.
LEMMA NotEnded ==
  ASSUME code \in Seq(Instrs), ip \in 1 .. Len(code) + 1, ~Ends
  PROVE  ip \in DOMAIN code /\ ip + 1 \in 1 .. Len(code) + 1 /\ code[ip] # "null"
<1>1. Len(code) \in Nat /\ DOMAIN code = 1 .. Len(code)
  BY LenProperties
<1>2. ~(ip > Len(code)) /\ code[ip] # "null"
  BY DEF Ends
<1>3. QED BY <1>1, <1>2

\* Compiling a token keeps the types.
LEMMA CompiledType ==
  ASSUME toks \in Seq(Tokens), levels \in Seq(Heads), code \in Seq(Instrs),
         toks # <<>>, Lexed, Compiled
  PROVE  toks' \in Seq(Tokens) /\ levels' \in Seq(Heads) /\ code' \in Seq(Instrs)
<1> DEFINE c == [levels |-> levels, code |-> code]
<1>1. Head(toks) \in Tokens /\ Tail(toks) \in Seq(Tokens)
  BY HeadTailProperties
<1>2. c \in Compilations
  BY DEF Compilations
<1>3. After(c, Head(toks)) \in Compilations
  BY <1>1, <1>2, AfterType
<1>4. levels' = After(c, Head(toks)).levels /\ code' = After(c, Head(toks)).code
  BY DEF Compiled
<1>5. QED BY <1>1, <1>3, <1>4 DEF Lexed, Compilations

\* The first instruction, of whatever code.
LEMMA FirstOf ==
  ASSUME NEW S, NEW s \in Seq(S)
  PROVE  1 \in 1 .. Len(s) + 1
BY LenProperties

LEMMA EmptyTypes ==
  /\ <<>> \in Seq(Tokens) /\ <<>> \in Seq(Heads) /\ <<>> \in Seq(Instrs)
  /\ <<>> \in Seq([line : Texts, code : Seq(Instrs), ip : Nat])
BY EmptySeq

\* A new program of type Texts.
LEMMA CompileType ==
  ASSUME NEW l \in Texts, Compile(l)
  PROVE  /\ phase' = "compile" /\ line' \in Texts
         /\ toks' \in Seq(Tokens) /\ levels' \in Seq(Heads)
         /\ code' \in Seq(Instrs) /\ ip' = 1 /\ ip' \in 1 .. Len(code') + 1
<1>1. l.toks \in Seq(Tokens)
  BY TextsAssumption DEF TextsAssumption
<1>2. code' \in Seq(Instrs) /\ ip' = 1
  BY EmptyTypes DEF Compile
<1>3. ip' \in 1 .. Len(code') + 1
  BY <1>2, LenProperties
<1>4. QED BY <1>1, <1>2, <1>3, EmptyTypes DEF Compile

\* Every state of the interpreter has its type, for every set of lines and files.
THEOREM TypeInvariant == Spec => []TypeInv
<1> USE DEF TypeInv, TypeOK
<1>1. Init => TypeInv
  <2> SUFFICES ASSUME Init PROVE TypeInv
    OBVIOUS
  <2>1. ip = 1 /\ ip \in 1 .. Len(code) + 1
    BY EmptyTypes, LenProperties DEF Init
  <2>2. \A k \in DOMAIN outer : outer[k].ip \in DOMAIN outer[k].code
    <3>1. DOMAIN outer = 1 .. 0
      BY EmptyTypes, LenProperties DEF Init
    <3>2. QED BY <3>1
  <2>3. /\ toks \in Seq(Tokens) /\ levels \in Seq(Heads) /\ code \in Seq(Instrs)
        /\ outer \in Seq([line : Texts, code : Seq(Instrs), ip : Nat])
    BY EmptyTypes DEF Init
  <2>4. sigs \in 0 .. 2 /\ sigsBefore \in 0 .. 2
    BY DEF Init
  <2>5. /\ phase = "prompt" /\ flag \in BOOLEAN /\ line \in Texts \cup {NoLine}
        /\ outer = <<>>
    BY DEF Init
  <2>6. QED BY <2>1, <2>2, <2>3, <2>4, <2>5
<1>2. ASSUME TypeInv, [Next]_vars PROVE TypeInv'
  <2>1. ASSUME CompileNext \/ CompileList PROVE TypeInv'
    <3>1. /\ toks \in Seq(Tokens) /\ levels \in Seq(Heads) /\ code \in Seq(Instrs)
          /\ toks # <<>> /\ Lexed /\ Compiled
      BY <1>2, <2>1 DEF CompileNext, CompileList
    <3>2. toks' \in Seq(Tokens) /\ levels' \in Seq(Heads) /\ code' \in Seq(Instrs)
      BY <3>1, CompiledType
    <3>3. /\ phase = "compile" /\ phase' = "compile" /\ ip' = ip
          /\ flag' = flag /\ outer' = outer /\ line' = line
          /\ sigs' = sigs /\ sigsBefore' = sigsBefore
      BY <2>1 DEF CompileNext, CompileList, InList, history
    <3>4. ip' = 1 /\ ip' \in 1 .. Len(code') + 1
      BY <1>2, <3>2, <3>3, FirstOf
    <3>5. QED BY <1>2, <3>2, <3>3, <3>4
  <2>2. CASE ListInterrupted
    <3>1. Tail(toks) \in Seq(Tokens) /\ Front(levels) \in Seq(Heads)
      BY <1>2, <2>2, FrontType, HeadTailProperties DEF ListInterrupted, InList
    <3>2. QED BY <1>2, <2>2, <3>1 DEF ListInterrupted, InList, Lexed, history
  <2>3. CASE ListCutOff
    <3>1. Front(levels) \in Seq(Heads)
      BY <1>2, <2>3, FrontType DEF ListCutOff, InList
    <3>2. QED BY <1>2, <2>3, <3>1 DEF ListCutOff, InList, history
  <2>4. CASE Execute
    BY <1>2, <2>4 DEF Execute, program, history
  <2>5. CASE Instruction
    <3>1. ip + 1 \in 1 .. Len(code) + 1
      BY <1>2, <2>5, NotEnded DEF Instruction
    <3>2. QED BY <1>2, <2>5, <3>1 DEF Instruction, history
  <2>6. ASSUME NEW l \in Files, Load(l) PROVE TypeInv'
    <3> DEFINE p == [line |-> line, code |-> code, ip |-> ip]
    <3>1. Compile(l) /\ phase = "execute" /\ outer' = Append(outer, p)
          /\ flag' = flag /\ sigs' = sigs /\ sigsBefore' = sigsBefore
      BY <2>6 DEF Load, history
    <3>2. ip \in DOMAIN code /\ ip \in Nat
      BY <1>2, <2>6, NotEnded DEF Load
    <3>3. p \in [line : Texts, code : Seq(Instrs), ip : Nat]
      BY <1>2, <3>1, <3>2
    <3>4. /\ outer' \in Seq([line : Texts, code : Seq(Instrs), ip : Nat])
          /\ Len(outer') = Len(outer) + 1 /\ outer'[Len(outer) + 1] = p
          /\ \A k \in 1 .. Len(outer) : outer'[k] = outer[k]
      BY <1>2, <3>1, <3>3, AppendProperties
    <3>5. DOMAIN outer = 1 .. Len(outer) /\ DOMAIN outer' = 1 .. Len(outer')
          /\ Len(outer) \in Nat
      BY <1>2, <3>4, LenProperties
    <3>6. ASSUME NEW k \in DOMAIN outer'
          PROVE  outer'[k].ip \in DOMAIN outer'[k].code
      <4>1. CASE k \in DOMAIN outer
        BY <1>2, <3>4, <3>5, <4>1
      <4>2. CASE k = Len(outer) + 1
        BY <3>2, <3>4, <4>2
      <4>3. QED BY <3>4, <3>5, <4>1, <4>2
    <3>7. /\ phase' = "compile" /\ line' \in Texts
          /\ toks' \in Seq(Tokens) /\ levels' \in Seq(Heads)
          /\ code' \in Seq(Instrs) /\ ip' = 1 /\ ip' \in 1 .. Len(code') + 1
      BY <3>1, CompileType DEF Texts
    <3>8. QED BY <1>2, <3>1, <3>4, <3>6, <3>7
  <2>7. CASE Loaded
    <3> DEFINE p == Last(outer)
    <3>1. /\ outer # <<>> /\ phase = "execute" /\ phase' = phase /\ Resumed(p)
          /\ outer' = Front(outer) /\ flag' = flag /\ toks' = toks /\ levels' = levels
          /\ sigs' = sigs /\ sigsBefore' = sigsBefore
      BY <2>7 DEF Loaded, history
    <3>2. /\ outer' \in Seq([line : Texts, code : Seq(Instrs), ip : Nat])
          /\ Len(outer') = Len(outer) - 1
          /\ \A i \in 1 .. Len(outer) - 1 : outer'[i] = outer[i]
          /\ Len(outer) \in 1 .. Len(outer) /\ p = outer[Len(outer)]
          /\ p \in [line : Texts, code : Seq(Instrs), ip : Nat]
      BY <1>2, <3>1, FrontType
    <3>3. DOMAIN outer = 1 .. Len(outer) /\ DOMAIN outer' = 1 .. Len(outer')
      BY <1>2, <3>2, LenProperties
    <3>4. ASSUME NEW k \in DOMAIN outer'
          PROVE  outer'[k].ip \in DOMAIN outer'[k].code
      <4>1. k \in DOMAIN outer /\ outer'[k] = outer[k]
        BY <3>2, <3>3
      <4>2. QED BY <1>2, <4>1
    <3>5. p.ip \in DOMAIN p.code /\ p.ip \in Nat /\ p.code \in Seq(Instrs)
          /\ p.line \in Texts
      BY <1>2, <3>2, <3>3
    <3>6. p.ip + 1 \in 1 .. Len(p.code) + 1
      BY <3>5, LenProperties
    <3>7. line' \in Texts /\ code' \in Seq(Instrs) /\ ip' \in 1 .. Len(code') + 1
      BY <3>1, <3>5, <3>6 DEF Resumed
    <3>8. QED BY <1>2, <3>1, <3>2, <3>4, <3>7
  <2>8. CASE Executed
    BY <1>2, <2>8 DEF Executed, program, history
  <2>9. CASE Answer
    <3>1. 1 \in 1 .. Len(<<>>) + 1
      BY EmptyTypes, FirstOf
    <3>2. QED BY <1>2, <2>9, <3>1, EmptyTypes DEF Answer, history
  <2>10. CASE Leave
    BY <1>2, <2>10 DEF Leave, program, history
  <2>11. CASE Signal
    <3>1. sigs' \in 0 .. 2
      BY <1>2, <2>11, OneMore DEF Signal
    <3>2. QED BY <1>2, <2>11, <3>1 DEF Signal, program
  <2>12. ASSUME NEW l \in Lines, ReadLine(l) PROVE TypeInv'
    <3>1. /\ phase' = "compile" /\ line' \in Texts
          /\ toks' \in Seq(Tokens) /\ levels' \in Seq(Heads)
          /\ code' \in Seq(Instrs) /\ ip' = 1 /\ ip' \in 1 .. Len(code') + 1
      BY <2>12, CompileType DEF ReadLine, Texts
    <3>2. QED BY <1>2, <2>12, <3>1 DEF ReadLine
  <2>13. CASE UNCHANGED vars
    BY <1>2, <2>13 DEF vars
  <2>14. QED
    BY <1>2, <2>1, <2>2, <2>3, <2>4, <2>5, <2>6, <2>7, <2>8, <2>9, <2>10, <2>11,
       <2>12, <2>13 DEF Next, Work
<1>3. QED
  BY <1>1, <1>2, PTL DEF Spec

\* TypeOK of every state: in particular akl_compile_list has returned from every
\* level when a program is executed, whatever interrupted it.
THEOREM TypeCorrect == Spec => []TypeOK
<1>1. TypeInv => TypeOK
  BY DEF TypeInv
<1>2. QED BY <1>1, TypeInvariant, PTL

-----------------------------------------------------------------------------
(***************************************************************************)
(* Lines that no signal met.                                               *)
(***************************************************************************)
\* tokens of the text that have been read
Taken == Len(line.toks) - Len(toks)

\* What is left are the last tokens of the text, and what has been compiled is
\* what the others compile to.
Reading ==
  /\ Taken \in 0 .. Len(line.toks)
  /\ \A k \in 1 .. Len(toks) : toks[k] = line.toks[Taken + k]
  /\ code = Steps[line][Taken + 1].code
  /\ toks # <<>> => levels = Steps[line][Taken + 1].levels

Quiet == sigs = 0 /\ sigsBefore = 0

\* QuietLinesRun speaks of the end of a program only: this is what leads to it.
AsWritten ==
  Quiet =>
    /\ phase = "compile" => Reading
    /\ phase \in {"execute", "answer"} => code = line.code
    /\ \A k \in DOMAIN outer : outer[k].code = outer[k].line.code
    /\ phase = "answer" => ip = Len(code) + 1 \/ code[ip] = "null"

\* A program that ends without a signal is at its end, or at a NULL.
LEMMA EndedRight ==
  ASSUME code \in Seq(Instrs), ip \in 1 .. Len(code) + 1, Ends, ~flag
  PROVE  ip = Len(code) + 1 \/ code[ip] = "null"
<1>1. Len(code) \in Nat
  BY LenProperties
<1>2. CASE ip > Len(code)
  BY <1>1, <1>2
<1>3. CASE ~(ip > Len(code))
  BY <1>3 DEF Ends
<1>4. QED BY <1>2, <1>3

\* A new program is read from its first token on.
LEMMA CompileReads ==
  ASSUME NEW l \in Texts, Compile(l)
  PROVE  Reading'
<1>1. /\ l.toks \in Seq(Tokens) /\ Steps[l][1] = Nothing
  BY TextsAssumption DEF TextsAssumption
<1>2. Len(l.toks) \in Nat
  BY <1>1, LenProperties
<1>3. /\ toks' = l.toks /\ line' = l /\ levels' = <<>> /\ code' = <<>>
  BY DEF Compile
<1>4. Len(l.toks) - Len(l.toks) = 0 /\ 0 \in 0 .. Len(l.toks) /\ 0 + 1 = 1
      /\ \A k \in 1 .. Len(l.toks) : 0 + k = k
  BY <1>2
<1>5. QED BY <1>1, <1>3, <1>4 DEF Reading, Taken, Nothing

\* One more token, compiled as it stands in the text.
LEMMA CompiledReads ==
  ASSUME line \in Texts, toks \in Seq(Tokens), toks # <<>>, Reading, Lexed, Compiled,
         line' = line
  PROVE  Reading'
<1> DEFINE n == Taken
<1>1. /\ line.toks \in Seq(Tokens) /\ Steps[line] \in Seq(Compilations)
      /\ Len(Steps[line]) = Len(line.toks) + 1
      /\ \A i \in 1 .. Len(line.toks) :
           Steps[line][i + 1] = After(Steps[line][i], line.toks[i])
  BY TextsAssumption DEF TextsAssumption
<1>2. /\ Len(line.toks) \in Nat /\ Len(toks) \in Nat \ {0}
  BY <1>1, LenProperties, EmptySeq
<1>3. /\ Head(toks) = toks[1] /\ Len(toks') = Len(toks) - 1
      /\ \A k \in 1 .. Len(toks) - 1 : toks'[k] = toks[k + 1]
  BY HeadTailProperties DEF Lexed
<1>4. /\ n \in 0 .. Len(line.toks) /\ n = Len(line.toks) - Len(toks)
      /\ \A k \in 1 .. Len(toks) : toks[k] = line.toks[n + k]
      /\ code = Steps[line][n + 1].code /\ levels = Steps[line][n + 1].levels
  BY DEF Reading, Taken
<1>5. /\ n + 1 \in 1 .. Len(line.toks) /\ n + 1 \in 1 .. Len(Steps[line])
      /\ 1 \in 1 .. Len(toks)
  BY <1>1, <1>2, <1>4
<1>6. Steps[line][n + 1] = [levels |-> levels, code |-> code]
  <2>1. Steps[line][n + 1] \in Compilations
    BY <1>1, <1>5, ElementOfSeq
  <2>2. QED BY <1>4, <2>1 DEF Compilations
<1>7. Head(toks) = line.toks[n + 1]
  BY <1>3, <1>4, <1>5
<1>8. Steps[line][n + 1 + 1] = After([levels |-> levels, code |-> code], Head(toks))
  BY <1>1, <1>5, <1>6, <1>7
<1>9. code' = Steps[line][n + 1 + 1].code /\ levels' = Steps[line][n + 1 + 1].levels
  BY <1>8 DEF Compiled
<1>10. Taken' = n + 1 /\ n + 1 \in 0 .. Len(line.toks)
  BY <1>2, <1>3, <1>4, <1>5 DEF Taken
<1>11. ASSUME NEW k \in 1 .. Len(toks')
       PROVE  toks'[k] = line.toks[n + 1 + k]
  <2>1. k \in 1 .. Len(toks) - 1
    BY <1>3
  <2>2. k \in Int /\ k + 1 \in 1 .. Len(toks)
    BY <1>2, <2>1
  <2>3. n \in Int
    BY <1>2, <1>4
  <2>4. n + (k + 1) = n + 1 + k
    BY <2>2, <2>3
  <2>5. QED BY <1>3, <1>4, <2>1, <2>2, <2>4
<1>12. QED BY <1>9, <1>10, <1>11 DEF Reading

\* At the end of the text the code is that of the text.
LEMMA AllRead ==
  ASSUME line \in Texts, toks = <<>>, Reading
  PROVE  code = line.code
<1>1. /\ line.toks \in Seq(Tokens)
      /\ Steps[line][Len(line.toks) + 1].code = line.code
  BY TextsAssumption DEF TextsAssumption
<1>2. Taken = Len(line.toks)
  <2>1. Len(line.toks) \in Nat /\ Len(toks) = 0
    BY <1>1, LenProperties, EmptyTypes
  <2>2. QED BY <2>1 DEF Taken
<1>3. QED BY <1>1, <1>2 DEF Reading

\* Texts are compiled as written while no signal is about, also those that wait.
THEOREM QuietInvariant == Spec => []AsWritten
<1>1. Init => AsWritten
  <2> SUFFICES ASSUME Init PROVE AsWritten
    OBVIOUS
  <2>1. DOMAIN outer = 1 .. 0
    BY EmptyTypes, LenProperties DEF Init
  <2>2. QED BY <2>1 DEF Init, AsWritten
<1>2. ASSUME TypeInv, FlagInv, AsWritten, [Next]_vars PROVE AsWritten'
  <2> SUFFICES ASSUME Quiet' PROVE
          /\ phase' = "compile" => Reading'
          /\ phase' \in {"execute", "answer"} => code' = line'.code
          /\ \A k \in DOMAIN outer' : outer'[k].code = outer'[k].line.code
          /\ phase' = "answer" => ip' = Len(code') + 1 \/ code'[ip'] = "null"
    BY DEF AsWritten
  <2> DEFINE Kept == sigs' = sigs /\ sigsBefore' = sigsBefore
  <2>1. /\ phase \in {"compile", "execute", "answer"} => line \in Texts
        /\ toks \in Seq(Tokens) /\ levels \in Seq(Heads) /\ code \in Seq(Instrs)
        /\ ip \in 1 .. Len(code) + 1
        /\ outer \in Seq([line : Texts, code : Seq(Instrs), ip : Nat])
        /\ phase \in {"answer", "prompt"} => outer = <<>>
        /\ phase \in {"execute", "answer"} => levels = <<>> /\ toks = <<>>
    BY <1>2 DEF TypeInv, TypeOK
  <2>2. Kept => Quiet /\ ~flag
    <3>1. ASSUME Kept PROVE sigs = 0 /\ sigsBefore = 0
      BY <3>1 DEF Quiet
    <3>2. ASSUME Kept PROVE ~(sigs + sigsBefore >= 1)
      BY <3>1, <3>2
    <3>3. ASSUME Kept PROVE ~flag
      BY <1>2, <3>2, <3>3 DEF FlagInv, FlagAge
    <3>4. QED BY <3>1, <3>3 DEF Quiet
  <2>3. Kept =>
          /\ phase = "compile" => Reading
          /\ phase \in {"execute", "answer"} => code = line.code
          /\ \A k \in DOMAIN outer : outer[k].code = outer[k].line.code
          /\ phase = "answer" => ip = Len(code) + 1 \/ code[ip] = "null"
    BY <1>2, <2>2 DEF AsWritten
  <2>4. CASE CompileNext \/ CompileList
    <3>1. /\ phase = "compile" /\ phase' = "compile" /\ toks # <<>> /\ Lexed /\ Compiled
          /\ line' = line /\ outer' = outer /\ Kept
      BY <2>4 DEF CompileNext, CompileList, InList, history
    <3>2. Reading'
      BY <2>1, <2>3, <3>1, CompiledReads
    <3>3. QED BY <2>3, <3>1, <3>2
  <2>5. CASE ListInterrupted
    BY <2>2, <2>5 DEF ListInterrupted, history
  <2>6. CASE ListCutOff
    <3>1. /\ phase = "compile" /\ phase' = "compile" /\ toks = <<>> /\ toks' = toks
          /\ code' = code /\ line' = line /\ outer' = outer /\ Kept
      BY <2>6 DEF ListCutOff, InList, history
    <3>2. Reading'
      BY <2>3, <3>1 DEF Reading, Taken
    <3>3. QED BY <2>3, <3>1, <3>2
  <2>7. CASE Execute
    <3>1. /\ phase = "compile" /\ phase' = "execute" /\ toks = <<>>
          /\ code' = code /\ line' = line /\ outer' = outer /\ Kept
      BY <2>7 DEF Execute, program, history
    <3>2. code = line.code
      BY <2>1, <2>3, <3>1, AllRead
    <3>3. QED BY <2>3, <3>1, <3>2
  <2>8. CASE Instruction
    BY <2>3, <2>8 DEF Instruction, history
  <2>9. ASSUME NEW l \in Files, Load(l)
        PROVE  /\ phase' = "compile" /\ Reading'
               /\ \A k \in DOMAIN outer' : outer'[k].code = outer'[k].line.code
    <3> DEFINE p == [line |-> line, code |-> code, ip |-> ip]
    <3>1. /\ Compile(l) /\ phase = "execute" /\ outer' = Append(outer, p) /\ Kept
      BY <2>9 DEF Load, history
    <3>2. phase' = "compile" /\ Reading'
      BY <3>1, CompileReads DEF Texts, Compile
    <3>3. p \in [line : Texts, code : Seq(Instrs), ip : Nat]
      BY <2>1, <3>1
    <3>4. /\ outer' \in Seq([line : Texts, code : Seq(Instrs), ip : Nat])
          /\ Len(outer') = Len(outer) + 1 /\ outer'[Len(outer) + 1] = p
          /\ \A k \in 1 .. Len(outer) : outer'[k] = outer[k]
      BY <2>1, <3>1, <3>3, AppendProperties
    <3>5. DOMAIN outer = 1 .. Len(outer) /\ DOMAIN outer' = 1 .. Len(outer')
          /\ Len(outer) \in Nat
      BY <2>1, <3>4, LenProperties
    <3>6. p.code = p.line.code
      BY <2>3, <3>1
    <3>7. ASSUME NEW k \in DOMAIN outer'
          PROVE  outer'[k].code = outer'[k].line.code
      <4>1. CASE k \in DOMAIN outer
        BY <2>3, <3>1, <3>4, <3>5, <4>1
      <4>2. CASE k = Len(outer) + 1
        BY <3>4, <3>6, <4>2
      <4>3. QED BY <3>4, <3>5, <4>1, <4>2
    <3>8. QED BY <3>2, <3>7
  <2>10. CASE Loaded
    <3> DEFINE p == Last(outer)
    <3>1. /\ outer # <<>> /\ phase = "execute" /\ phase' = phase /\ Resumed(p)
          /\ outer' = Front(outer) /\ Kept
      BY <2>10 DEF Loaded, history
    <3>2. /\ outer' \in Seq([line : Texts, code : Seq(Instrs), ip : Nat])
          /\ Len(outer') = Len(outer) - 1
          /\ \A i \in 1 .. Len(outer) - 1 : outer'[i] = outer[i]
          /\ Len(outer) \in 1 .. Len(outer) /\ p = outer[Len(outer)]
      BY <2>1, <3>1, FrontType
    <3>3. DOMAIN outer = 1 .. Len(outer) /\ DOMAIN outer' = 1 .. Len(outer')
      BY <2>1, <3>2, LenProperties
    <3>4. ASSUME NEW k \in DOMAIN outer'
          PROVE  outer'[k].code = outer'[k].line.code
      <4>1. k \in DOMAIN outer /\ outer'[k] = outer[k]
        BY <3>2, <3>3
      <4>2. QED BY <2>3, <3>1, <4>1
    <3>5. code' = line'.code
      BY <2>3, <3>1, <3>2, <3>3 DEF Resumed
    <3>6. QED BY <3>1, <3>4, <3>5
  <2>11. CASE Executed
    <3>1. /\ phase = "execute" /\ phase' = "answer" /\ Ends /\ Kept
          /\ code' = code /\ ip' = ip /\ line' = line /\ outer' = outer
      BY <2>11 DEF Executed, program, history
    <3>2. ip = Len(code) + 1 \/ code[ip] = "null"
      BY <2>1, <2>2, <3>1, EndedRight
    <3>3. QED BY <2>3, <3>1, <3>2
  <2>12. CASE Answer
    BY <2>3, <2>12 DEF Answer, history
  <2>13. CASE Leave
    BY <2>3, <2>13 DEF Leave, program, history
  <2>14. CASE Signal
    <3>1. sigs' >= 1
      BY <1>2, <2>14, OneMore DEF Signal, FlagInv, FlagAge
    <3>2. QED BY <3>1 DEF Quiet
  <2>15. ASSUME NEW l \in Lines, ReadLine(l)
         PROVE  /\ phase' = "compile" /\ Reading'
                /\ \A k \in DOMAIN outer' : outer'[k].code = outer'[k].line.code
    <3>1. phase' = "compile" /\ Reading'
      BY <2>15, CompileReads DEF ReadLine, Texts, Compile
    <3>2. outer' = <<>>
      BY <2>1, <2>15 DEF ReadLine
    <3>3. DOMAIN <<>> = 1 .. 0
      BY EmptyTypes, LenProperties
    <3>4. QED BY <3>1, <3>2, <3>3
  <2>16. CASE UNCHANGED vars
    <3>1. UNCHANGED <<phase, toks, levels, code, ip, outer, line>> /\ Kept
      BY <2>16 DEF vars
    <3>2. phase' = "compile" => Reading'
      BY <2>3, <3>1 DEF Reading, Taken
    <3>3. QED BY <2>3, <3>1, <3>2
  <2>17. QED
    BY <1>2, <2>4, <2>5, <2>6, <2>7, <2>8, <2>9, <2>10, <2>11, <2>12, <2>13, <2>14,
       <2>15, <2>16 DEF Next, Work
<1>3. QED
  BY <1>1, <1>2, TypeInvariant, FlagInvariant, PTL DEF Spec

\* A line, and a file it loads, runs as written when no signal came since the line
\* before it was entered, whatever its text and however deep the loads.
THEOREM QuietLinesAreRun == Spec => []QuietLinesRun
<1>1. ASSUME TypeInv, FlagInv, AsWritten PROVE QuietLinesRun
  <2> SUFFICES ASSUME sigs = 0, sigsBefore = 0,
                      phase = "answer" \/ (phase = "execute" /\ Ends)
               PROVE  RanAsEntered
    BY DEF QuietLinesRun
  <2>1. Quiet /\ ~(sigs + sigsBefore >= 1)
    BY DEF Quiet
  <2>2. ~flag
    BY <1>1, <2>1 DEF FlagInv, FlagAge
  <2>3. code = line.code
    BY <1>1, <2>1 DEF AsWritten
  <2>4. ip = Len(code) + 1 \/ code[ip] = "null"
    <3>1. CASE phase = "answer"
      BY <1>1, <2>1, <3>1 DEF AsWritten
    <3>2. CASE phase = "execute" /\ Ends
      BY <1>1, <2>2, <3>2, EndedRight DEF TypeInv, TypeOK
    <3>3. QED BY <3>1, <3>2
  <2>5. QED BY <2>3, <2>4 DEF RanAsEntered
<1>2. QED BY <1>1, TypeInvariant, FlagInvariant, QuietInvariant, PTL
=============================================================================
