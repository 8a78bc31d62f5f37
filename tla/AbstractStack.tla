--------------------------- MODULE AbstractStack ---------------------------
(***************************************************************************)
(* What the evaluation stack promises to compiled code and to the          *)
(* functions written in C, with no word about links or headers.            *)
(*                                                                         *)
(* Entries are numbered in the order they are pushed, so the stack is a    *)
(* set of numbers, the greatest on top.  A call takes the topmost values   *)
(* its caller pushed as its arguments; until it leaves it sees these       *)
(* arguments and what it pushes itself, and nothing below is touched.      *)
(***************************************************************************)
EXTENDS Integers, Sequences, FiniteSets

CONSTANTS MaxArgs       \* most arguments of a call

VARIABLES made,         \* entries ever pushed
          items,        \* the entries on the stack
          calls,        \* the calls in progress, innermost last: its
                        \* arguments, the entries below them and the number
                        \* of entries made when it began
          ret           \* the entry handed out last (0: none)

avars == <<made, items, calls, ret>>

Top     == calls[Len(calls)]
Born    == IF calls = <<>> THEN 0 ELSE Top.born
Temps   == {x \in items : x > Born}
Args    == IF calls = <<>> THEN {} ELSE Top.args
TakeArg(e) == calls' = [calls EXCEPT ![Len(calls)].args = @ \ {e}]

Init == made = 0 /\ items = {} /\ calls = <<>> /\ ret = 0

Push ==
  /\ made' = made + 1
  /\ items' = items \cup {made + 1}
  /\ UNCHANGED <<calls, ret>>

Pop ==
  \E e \in Temps :
    /\ \A x \in items : x <= e
    /\ ret' = e
    /\ items' = items \ {e}
    /\ UNCHANGED <<made, calls>>

\* the arguments of a call are the n topmost values its caller pushed
Call(n) ==
  \E A \in SUBSET Temps :
    /\ Cardinality(A) = n
    /\ \A a \in A, b \in items \ A : b < a
    /\ calls' = Append(calls, [args |-> A, below |-> items \ A, born |-> made])
    /\ UNCHANGED <<made, items, ret>>

\* the next argument in order, none when there is none left
Shift ==
  \/ \E e \in Args :
       /\ \A x \in Args : e <= x
       /\ ret' = e
       /\ items' = items \ {e}
       /\ TakeArg(e)
       /\ UNCHANGED made
  \/ Args = {} /\ ret' = 0 /\ UNCHANGED <<made, items, calls>>

\* the same from the end
TakeLast ==
  \/ \E e \in Args :
       /\ \A x \in Args : x <= e
       /\ ret' = e
       /\ items' = items \ {e}
       /\ TakeArg(e)
       /\ UNCHANGED made
  \/ Args = {} /\ ret' = 0 /\ UNCHANGED <<made, items, calls>>

\* push a copy of parameter i.  Of a parameter that was not given nothing is
\* promised but that the stack stays whole.
Load(i) ==
  /\ ret' \in items \cup {0}
  /\ i < Cardinality(Args) =>
       ret' \in Args /\ Cardinality({x \in Args : x < ret'}) = i
  /\ made' = IF ret' = 0 THEN made ELSE made + 1
  /\ items' = IF ret' = 0 THEN items ELSE items \cup {made + 1}
  /\ UNCHANGED calls

\* a call is over when its arguments are gone; what it pushed stays
Leave ==
  /\ calls # <<>> /\ Args = {}
  /\ calls' = SubSeq(calls, 1, Len(calls) - 1)
  /\ UNCHANGED <<made, items, ret>>

Next ==
  \/ Push \/ Pop \/ Shift \/ TakeLast \/ Leave
  \/ \E n \in 0 .. MaxArgs : Call(n) \/ Load(n)

Spec == Init /\ [][Next]_avars
=============================================================================
