------------------------------ MODULE AklRepl ------------------------------
(***************************************************************************)
(* The interactive interpreter (src/src/main.c: interactive_mode and       *)
(* eval_dev) and the signal that interrupts it (src/src/os_unix.c).        *)
(*                                                                         *)
(* A line is read, compiled token by token (src/src/compile.c), executed   *)
(* instruction by instruction (src/src/aklisp.c) and answered.  A program  *)
(* that calls load (src/src/lib.c) compiles and executes a file before it  *)
(* goes on.  SIGINT may come between any two of these steps.  One flag,    *)
(* ai_interrupted, tells of it: akl_compile_list clears it when it sees    *)
(* it, akl_execute clears it when it starts, akl_ir_exec_branch only reads *)
(* it.                                                                     *)
(*                                                                         *)
(* Tokens: "(", ")", "a" (a literal) and the names of functions: "f",      *)
(* "loop" (it never ends) and "load".                                      *)
(* Instructions: "push", "null" (push of a C NULL) and calls by name.      *)
(***************************************************************************)
EXTENDS Integers, Sequences, SequencesExt

CONSTANTS
  Lines,     \* texts the user may enter: [toks, code], code as it should be
  Files,     \* files that load may be given: the same
  Steps,     \* of each text: the compilation after 0, 1, ... tokens
  MaxLoads   \* bound: files in files

VARIABLES
  phase,     \* "prompt", "compile", "execute", "answer", "left" or "killed"
  flag,      \* ai_interrupted
  toks,      \* what the lexer has not read of the line
  levels,    \* calls of akl_compile_list in progress: the name each has seen
  code,      \* the instructions compiled
  ip,        \* the instruction to execute next
  outer,     \* the programs that wait in load, the line first: [line, code, ip]
  line,      \* history: the text of the program, the line or a file
  sigs,      \* history: signals since the line was entered (0, 1 or 2)
  sigsBefore \* history: signals while the line before it was the last

vars == <<phase, flag, toks, levels, code, ip, outer, line, sigs, sigsBefore>>
program == <<toks, levels, code, ip, outer, line>>
history == <<sigs, sigsBefore>>

Names  == {"f", "loop", "load"}
Tokens == Names \cup {"(", ")", "a"}
Instrs == Names \cup {"push", "null"}
Texts  == Lines \cup Files
NoLine == [toks |-> <<>>, code |-> <<>>]

\* What akl_compile_list knows of the head of its list: nothing yet ("?"), the
\* name of the function, or that there is none ("-").
Heads == Names \cup {"?", "-"}

\* the head of the innermost list becomes h
Headed(ls, h) == [ls EXCEPT ![Len(ls)] = h]
\* an element that is no name: the list has no function when it is the first
Met(ls) == IF ls # <<>> /\ Last(ls) = "?" THEN Headed(ls, "-") ELSE ls

(***************************************************************************)
(* The compilation c = [levels, code] after the token t, if nothing        *)
(* interrupts it: one turn of akl_compile_list in a list, akl_compile_next *)
(* at the top.                                                             *)
(***************************************************************************)
Push(c, i) == [levels |-> Met(c.levels), code |-> Append(c.code, i)]

\* the end of a list is a call of the name it began with, or the push of NIL; at
\* the top a closing brace parses to NULL, which is pushed
Close(c) ==
  IF c.levels = <<>> THEN Push(c, "null")
  ELSE [levels |-> Front(c.levels),
        code   |-> Append(c.code, IF Last(c.levels) \in Names THEN Last(c.levels)
                                                              ELSE "push")]

\* a name is the function of its list in the first place, elsewhere a value
Name(c, t) ==
  IF c.levels # <<>> /\ Last(c.levels) = "?"
  THEN [levels |-> Headed(c.levels, t), code |-> c.code]
  ELSE Push(c, "push")

After(c, t) ==
  CASE t = "("      -> [levels |-> Append(Met(c.levels), "?"), code |-> c.code]
    [] t = ")"      -> Close(c)
    [] t \in Names  -> Name(c, t)
    [] OTHER        -> Push(c, "push")

Nothing      == [levels |-> <<>>, code |-> <<>>]
Compilations == [levels : Seq(Heads), code : Seq(Instrs)]

\* The code of a text is what its tokens compile to when nothing interrupts.
TextsAssumption ==
  \A l \in Texts :
    /\ l.toks \in Seq(Tokens) /\ l.code \in Seq(Instrs)
    /\ Steps[l] \in Seq(Compilations) /\ Len(Steps[l]) = Len(l.toks) + 1
    /\ Steps[l][1] = Nothing
    /\ \A i \in 1 .. Len(l.toks) : Steps[l][i + 1] = After(Steps[l][i], l.toks[i])
    /\ Steps[l][Len(l.toks) + 1].code = l.code

ASSUME TextsAssumption
ASSUME LoadsAssumption == MaxLoads \in Nat

-----------------------------------------------------------------------------
\* a new device, a new context and a new main function for the text l
Compile(l) ==
  /\ phase' = "compile"
  /\ toks' = l.toks /\ line' = l
  /\ levels' = <<>> /\ code' = <<>> /\ ip' = 1

\* interactive_mode: readline gives a line
ReadLine(l) ==
  /\ phase = "prompt"
  /\ Compile(l)
  /\ sigs' = 0 /\ sigsBefore' = sigs
  /\ UNCHANGED <<flag, outer>>

\* end of input, or "exit"
Leave ==
  /\ phase = "prompt"
  /\ phase' = "left"
  /\ UNCHANGED <<flag, program, history>>

(***************************************************************************)
(* akl_compile: akl_compile_next for each form, until the end of the text. *)
(***************************************************************************)
Lexed == toks' = Tail(toks)

Compiled ==
  LET c == After([levels |-> levels, code |-> code], Head(toks))
  IN  levels' = c.levels /\ code' = c.code

\* a form at the top
CompileNext ==
  /\ phase = "compile" /\ levels = <<>> /\ toks # <<>>
  /\ Lexed /\ Compiled
  /\ UNCHANGED <<phase, flag, ip, outer, line, history>>

InList == phase = "compile" /\ levels # <<>>

\* akl_compile_list sees the flag after it has read a token: it clears the flag
\* and returns; the token is lost, the ones after it belong to the level above
ListInterrupted ==
  /\ InList /\ flag /\ toks # <<>>
  /\ flag' = FALSE
  /\ Lexed
  /\ levels' = Front(levels)
  /\ UNCHANGED <<phase, code, ip, outer, line, history>>

\* one turn of the loop of akl_compile_list
CompileList ==
  /\ InList /\ ~flag /\ toks # <<>>
  /\ Lexed /\ Compiled
  /\ UNCHANGED <<phase, flag, ip, outer, line, history>>

\* end of the text inside a list: akl_compile_list returns without a call
ListCutOff ==
  /\ InList /\ toks = <<>>
  /\ levels' = Front(levels)
  /\ UNCHANGED <<phase, flag, toks, code, ip, outer, line, history>>

\* (faulty variant: the flag stays as it is)
ExecuteKeepsFlag ==
  /\ phase = "compile" /\ levels = <<>> /\ toks = <<>>
  /\ phase' = "execute"
  /\ UNCHANGED <<flag, program, history>>

\* akl_execute begins, of the line or of a file
Execute ==
  /\ phase = "compile" /\ levels = <<>> /\ toks = <<>>
  /\ phase' = "execute"
  /\ flag' = FALSE
  /\ UNCHANGED <<program, history>>

(***************************************************************************)
(* akl_ir_exec_branch.                                                     *)
(***************************************************************************)
\* (faulty variant: the flag is not looked at)
EndsAtNull == IF ip > Len(code) THEN TRUE ELSE code[ip] = "null"

\* the loop is left: no instruction, the flag, or the push of a NULL
Ends == IF ip > Len(code) THEN TRUE ELSE flag \/ code[ip] = "null"

\* a call of load ends like this when the file cannot be opened
Instruction ==
  /\ phase = "execute" /\ ~Ends
  /\ code[ip] # "loop"             \* "loop" never gets to the next one
  /\ ip' = ip + 1
  /\ UNCHANGED <<phase, flag, toks, levels, code, outer, line, history>>

\* load: the file is compiled and executed within the CALL
Load(l) ==
  /\ phase = "execute" /\ ~Ends
  /\ code[ip] = "load" /\ Len(outer) < MaxLoads
  /\ outer' = Append(outer, [line |-> line, code |-> code, ip |-> ip])
  /\ Compile(l)
  /\ UNCHANGED <<flag, history>>

\* (faulty variant: the file was compiled into the context of the program)
ResumedThere(p) == line' = p.line /\ code' = code /\ ip' = p.ip + 1

\* the program that waited in load goes on behind its CALL
Resumed(p) == line' = p.line /\ code' = p.code /\ ip' = p.ip + 1

\* the file has been executed, or interrupted: load returns
Loaded ==
  /\ phase = "execute" /\ Ends /\ outer # <<>>
  /\ Resumed(Last(outer))
  /\ outer' = Front(outer)
  /\ UNCHANGED <<phase, flag, toks, levels, history>>

Executed ==
  /\ phase = "execute" /\ Ends /\ outer = <<>>
  /\ phase' = "answer"
  /\ UNCHANGED <<flag, program, history>>

\* the rest of eval_dev: the value and the errors are printed and forgotten
Answer ==
  /\ phase = "answer"
  /\ phase' = "prompt"
  /\ code' = <<>> /\ ip' = 1
  /\ UNCHANGED <<flag, toks, levels, outer, line, history>>

(***************************************************************************)
(* interrupt_program, on SIGINT: the first sets the flag, another one that *)
(* finds it set ends the process.                                          *)
(***************************************************************************)
Signal ==
  /\ phase \notin {"left", "killed"}
  /\ IF flag THEN phase' = "killed" /\ UNCHANGED flag
             ELSE flag' = TRUE /\ UNCHANGED phase
  /\ sigs' = IF sigs = 2 THEN 2 ELSE sigs + 1
  /\ UNCHANGED <<program, sigsBefore>>

-----------------------------------------------------------------------------
Init ==
  /\ phase = "prompt" /\ flag = FALSE
  /\ toks = <<>> /\ levels = <<>> /\ code = <<>> /\ ip = 1 /\ outer = <<>>
  /\ line = NoLine /\ sigs = 0 /\ sigsBefore = 0

Work == \/ CompileNext \/ CompileList \/ ListInterrupted \/ ListCutOff
        \/ Execute \/ Instruction \/ Loaded \/ Executed \/ Answer
        \/ \E l \in Files : Load(l)

Next == Work \/ Leave \/ Signal \/ \E l \in Lines : ReadLine(l)

\* the interpreter goes on working; the user may do nothing
Fairness == WF_vars(Work)

Spec == Init /\ [][Next]_vars /\ Fairness

-----------------------------------------------------------------------------
(***************************************************************************)
(* Properties.                                                             *)
(***************************************************************************)
\* Type invariant; when a program is executed, akl_compile_list has returned from
\* every level, also from those an interruption or the end of the text cut off.
TypeOK ==
  /\ phase \in {"prompt", "compile", "execute", "answer", "left", "killed"}
  /\ flag \in BOOLEAN
  /\ line \in Texts \cup {NoLine}
  /\ toks \in Seq(Tokens) /\ levels \in Seq(Heads) /\ code \in Seq(Instrs)
  /\ ip \in 1 .. Len(code) + 1
  /\ outer \in Seq([line : Texts, code : Seq(Instrs), ip : Nat])
  /\ \A k \in DOMAIN outer : outer[k].ip \in DOMAIN outer[k].code
  /\ phase \in {"execute", "answer"} => levels = <<>> /\ toks = <<>>
  /\ phase \in {"answer", "prompt"} => outer = <<>>
  /\ sigs \in 0 .. 2 /\ sigsBefore \in 0 .. 2

\* to the end, or to a closing brace that nothing opened
RanAsEntered == code = line.code /\ (ip = Len(code) + 1 \/ code[ip] = "null")

\* A line, and a file it loads, is compiled and executed as it was written when
\* no signal came since the line before it was entered: what a signal leaves
\* behind is over after one line, whether that line clears the flag in
\* akl_compile_list or not; and a program goes on after load where it was.
QuietLinesRun ==
  /\ sigs = 0 /\ sigsBefore = 0
  /\ phase = "answer" \/ (phase = "execute" /\ Ends)
  => RanAsEntered

\* The process is ended only by two signals, the first no longer ago than the
\* line before: a flag that was dealt with never counts as the first.
KilledByTwo == phase = "killed" => sigs + sigsBefore >= 2

\* A program that is executing when the signal comes is stopped, a loop that
\* never ends as well, and every program that waits in load for it: the user
\* gets the prompt back (or kills the process).
SignalStopsProgram == (phase = "execute" /\ flag) ~> phase \in {"prompt", "killed"}

\* aklisp.h:564 "The program is stopped by an interrupt" (ai_interrupted): a
\* program that no signal met is not stopped, nor is any of its text dropped.
OnlySignalsStop == (phase = "answer" /\ sigs = 0) => RanAsEntered
============================================================================
