------------------------------ MODULE AklVmLib ------------------------------
(***************************************************************************)
(* The machine (AklVm) with the library (AklLib): what it tells of the     *)
(* calls of library functions, by an instruction or by a loop of map,      *)
(* foldl or times, in any program.                                         *)
(***************************************************************************)
EXTENDS AklVm, AklLib

Doc == INSTANCE AklUses

\* the topmost values, as many as there are
Topmost(st, n) == SubSeq(st, Len(st) - (IF n < Len(st) THEN n ELSE Len(st)) + 1, Len(st))

\* what the next turn of a loop pushes
Pushed == IF Folds(Rec.f) THEN <<Rec.acc>> \o Head(Rec.todo) ELSE Head(Rec.todo)

\* the function a step calls, and its arguments
Invoked     == IF InLisp THEN Callee ELSE Rec.fn
InvokedWith == IF InLisp THEN Topmost(stack, In[4]) ELSE Topmost(stack \o Pushed, ArgcOf(Rec.f))

\* a step calls a library function
CallsLibrary == (Call \/ EachCall) /\ Invoked[1] = "cfun"

Complaints == {"args", "type", "zero", "warning", "null"}

\* A library function that looks at the number or the types of its arguments tells
\* of the wrong ones, whoever called it and with whatever values, and nothing that
\* was told is lost before the program ends.
MisuseIsTold ==
  [][ /\ told \subseteq told'
      /\ (CallsLibrary /\ Doc!Misused(Invoked[2], InvokedWith)) => told' \cap Complaints # {} ]_vars

\* A use that README.md gives a value is never told as an error.
ProperUseIsSilent ==
  [][ (CallsLibrary /\ Doc!HasMeaning(Invoked[2], InvokedWith)) => told' = told ]_vars
=============================================================================
