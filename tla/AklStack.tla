------------------------------ MODULE AklStack ------------------------------
(***************************************************************************)
(* The evaluation stack and the call frames (src/src/aklisp.c, types.c) on *)
(* top of the linked lists of AklList.                                     *)
(*                                                                         *)
(* A context's stack (cx_stack) is a list; the frame of a call (cx_frame)  *)
(* is a second list header that leads into the same entries, made by       *)
(* akl_init_frame walking back over the last `argc` entries of the stack.  *)
(* Taking an argument unlinks it from both lists.  The walks of            *)
(* akl_init_frame, akl_list_index_entry and akl_frame_destroy are loops,   *)
(* modelled one turn at a time (variable walk).                            *)
(*                                                                         *)
(* items and calls are history: what is on the stack and what each call    *)
(* may look at, updated with the entries the links lead to.                *)
(*                                                                         *)
(* The code on top is any that pops or calls only with values it pushed,   *)
(* as the compiler makes it from expressions that give a value.            *)
(***************************************************************************)
EXTENDS AklList, Sequences, FiniteSets

CONSTANTS
  MaxEntries,    \* bound: entries ever pushed
  MaxDepth,      \* bound: calls in progress
  MaxArgs        \* bound: arguments of a call, index of a parameter

ASSUME BoundsAssumption ==
  MaxEntries \in Nat /\ MaxDepth \in Nat /\ MaxArgs \in Nat

VARIABLES
  made,          \* list entries made so far: 1 .. made
  heap,          \* their links
  stack,         \* cx_stack
  frames,        \* cx_frame of the calls in progress, innermost last
  walk,          \* the loop being run: its kind, its cursor, what is left
  items,         \* history: entries on the stack
  calls,         \* history: see AbstractStack; kind is "lisp" or "c"
  ret            \* the entry given to the code last

vars == <<made, heap, stack, frames, walk, items, calls, ret>>

Entries == 1 .. MaxEntries
Idle    == [kind |-> "idle", it |-> NULL, left |-> 0, n |-> 0, fun |-> "c"]
Depth   == Len(frames)
Top     == frames[Depth]
TopCall == calls[Depth]
Born    == IF calls = <<>> THEN 0 ELSE TopCall.born
Temps   == {x \in items : x > Born}

-----------------------------------------------------------------------------
\* akl_stack_push
PushEntry ==
  LET r == AppendEntry(heap, stack, made + 1)
  IN  /\ made < MaxEntries
      /\ made' = made + 1
      /\ heap' = r.h
      /\ stack' = r.l
      /\ items' = items \cup {made + 1}

Push ==
  /\ walk = Idle
  /\ PushEntry
  /\ UNCHANGED <<frames, walk, calls, ret>>

\* akl_stack_pop, by JT, JN and the functions that call back
Pop ==
  /\ walk = Idle /\ Temps # {}
  /\ LET r == RemoveEntry(heap, stack, stack.last)
     IN  heap' = r.h /\ stack' = r.l
  /\ ret' = stack.last
  /\ items' = items \ {stack.last}
  /\ UNCHANGED <<made, frames, walk, calls>>

(***************************************************************************)
(* akl_init_frame: walk back from the end of the stack.                    *)
(***************************************************************************)
CallBegin(n, f) ==
  /\ walk = Idle /\ Depth < MaxDepth
  /\ n <= Cardinality(Temps)
  /\ walk' = [kind |-> "frame", it |-> stack.last, left |-> n, n |-> n, fun |-> f]
  /\ UNCHANGED <<made, heap, stack, frames, items, calls, ret>>

\* (faulty variant: the counter is decremented after the test)
BackAgainLate == walk.left # 0 /\ walk.it # NULL /\ heap.prv[walk.it] # NULL

\* while (--fs && akl_list_it_has_prev(it))
BackAgain == walk.left - 1 # 0 /\ walk.it # NULL /\ heap.prv[walk.it] # NULL

CallBack ==
  /\ walk.kind = "frame" /\ BackAgain
  /\ walk' = [walk EXCEPT !.it = heap.prv[walk.it], !.left = @ - 1]
  /\ UNCHANGED <<made, heap, stack, frames, items, calls, ret>>

CallMade ==
  /\ walk.kind = "frame" /\ ~BackAgain
  /\ frames' = Append(frames, [head |-> walk.it, last |-> stack.last,
                               count |-> walk.n, nil |-> FALSE])
  /\ LET A == IF walk.n = 0 THEN {} ELSE {x \in items : x >= walk.it}
     IN  calls' = Append(calls, [args |-> A, below |-> items \ A, born |-> made,
                                 kind |-> walk.fun])
  /\ walk' = Idle
  /\ UNCHANGED <<made, heap, stack, items, ret>>

(***************************************************************************)
(* Arguments of the innermost call.                                        *)
(***************************************************************************)
\* unlink e from the frame header f and from the stack, h being the links
Take(h, f, e) ==
  LET r == RemoveEntry(h, stack, e)
  IN  /\ heap' = r.h
      /\ stack' = r.l
      /\ frames' = [frames EXCEPT ![Depth] = f]
      /\ ret' = e
      /\ items' = items \ {e}
      /\ calls' = [calls EXCEPT ![Depth].args = @ \ {e}]
      /\ UNCHANGED made

None == ret' = NULL /\ UNCHANGED <<made, heap, stack, frames, items, calls>>

InCall(f) == walk = Idle /\ Depth > 0 /\ TopCall.kind = f

\* akl_frame_shift: shift from the frame, then remove from the stack
Shift ==
  /\ InCall("c")
  /\ IF Top.count = 0 THEN None
     ELSE LET s == ShiftEntry(heap, Top) IN Take(s.h, s.l, Top.head)
  /\ UNCHANGED walk

\* (faulty variant: the count of the frame is not looked at)
NoArgInLinks == Top.last = NULL

\* akl_frame_pop gives NULL
NoArg == Top.count = 0 \/ Top.last = NULL

\* akl_frame_pop: pop from the frame, then remove from the stack
FramePop ==
  IF NoArg THEN None
  ELSE LET s == RemoveEntry(heap, Top, Top.last) IN Take(s.h, s.l, Top.last)

PopArg ==
  /\ InCall("c")
  /\ FramePop
  /\ UNCHANGED walk

(***************************************************************************)
(* LOAD: akl_frame_at walks forward from the head of the frame; the count  *)
(* of the frame is not looked at.                                          *)
(***************************************************************************)
LoadBegin(i) ==
  /\ InCall("lisp")
  /\ walk' = [kind |-> "load", it |-> Top.head, left |-> i, n |-> i, fun |-> "c"]
  /\ UNCHANGED <<made, heap, stack, frames, items, calls, ret>>

LoadNext ==
  /\ walk.kind = "load" /\ walk.it # NULL /\ walk.left > 0
  /\ walk' = [walk EXCEPT !.it = heap.nxt[walk.it], !.left = @ - 1]
  /\ UNCHANGED <<made, heap, stack, frames, items, calls, ret>>

LoadFound ==
  /\ walk.kind = "load" /\ walk.it # NULL /\ walk.left = 0
  /\ PushEntry
  /\ ret' = walk.it
  /\ walk' = Idle
  /\ UNCHANGED <<frames, calls>>

LoadNothing ==
  /\ walk.kind = "load" /\ walk.it = NULL
  /\ None
  /\ walk' = Idle

(***************************************************************************)
(* The end of akl_call_function_bound: akl_frame_destroy takes what is     *)
(* left of the arguments; the values pushed above them stay.               *)
(***************************************************************************)
ReturnBegin ==
  /\ walk = Idle /\ Depth > 0
  /\ walk' = [Idle EXCEPT !.kind = "destroy"]
  /\ UNCHANGED <<made, heap, stack, frames, items, calls, ret>>

Destroy ==
  /\ walk.kind = "destroy" /\ ~NoArg
  /\ FramePop
  /\ UNCHANGED walk

Return ==
  /\ walk.kind = "destroy" /\ NoArg
  /\ frames' = SubSeq(frames, 1, Depth - 1)
  /\ calls' = SubSeq(calls, 1, Depth - 1)
  /\ walk' = Idle
  /\ UNCHANGED <<made, heap, stack, items, ret>>

-----------------------------------------------------------------------------
Init ==
  /\ made = 0
  /\ heap = [nxt |-> [e \in Entries |-> NULL], prv |-> [e \in Entries |-> NULL]]
  /\ stack = EmptyList
  /\ frames = <<>>
  /\ walk = Idle
  /\ items = {}
  /\ calls = <<>>
  /\ ret = NULL

Next ==
  \/ Push \/ Pop \/ Shift \/ PopArg
  \/ \E n \in 0 .. MaxArgs : \/ \E f \in {"lisp", "c"} : CallBegin(n, f)
                             \/ LoadBegin(n)
  \/ CallBack \/ CallMade
  \/ LoadNext \/ LoadFound \/ LoadNothing
  \/ ReturnBegin \/ Destroy \/ Return

Spec == Init /\ [][Next]_vars

-----------------------------------------------------------------------------
(***************************************************************************)
(* Properties.                                                             *)
(***************************************************************************)
Links == 0 .. MaxEntries
Header == [head : Links, last : Links, count : Nat, nil : BOOLEAN]

\* Type invariant of the stack, the frames and the loop in progress.  The
\* counts are unsigned in the code: none is ever decremented below zero.
TypeOK ==
  /\ made \in 0 .. MaxEntries
  /\ heap \in [nxt : [Entries -> Links], prv : [Entries -> Links]]
  /\ stack \in Header
  /\ frames \in Seq(Header)
  /\ walk \in [kind : {"idle", "frame", "load", "destroy"}, it : Links,
               left : Int, n : 0 .. MaxArgs, fun : {"lisp", "c"}]
  /\ items \in SUBSET Entries
  /\ calls \in Seq([args : SUBSET Entries, below : SUBSET Entries,
                    born : 0 .. MaxEntries, kind : {"lisp", "c"}])
  /\ ret \in Links

\* l is the header of the entries S, in order
Heads(l, S) ==
  IF S = {} THEN l.head = NULL /\ l.last = NULL
  ELSE /\ l.head \in S /\ \A x \in S : l.head <= x
       /\ l.last \in S /\ \A x \in S : x <= l.last

\* The links lead through exactly the entries on the stack, both ways, and the
\* header and the count agree, although every argument is unlinked through two
\* headers (akl_frame_shift even clears a link of the stack in between).
Linked ==
  /\ Heads(stack, items)
  /\ stack.count = Cardinality(items)
  /\ \A e \in items :
       /\ IF heap.nxt[e] = NULL THEN \A x \in items : x <= e
          ELSE /\ heap.nxt[e] \in items /\ e < heap.nxt[e]
               /\ \A x \in items : x <= e \/ heap.nxt[e] <= x
       /\ IF heap.prv[e] = NULL THEN \A x \in items : e <= x
          ELSE /\ heap.prv[e] \in items /\ heap.prv[e] < e
               /\ \A x \in items : x <= heap.prv[e] \/ e <= x

\* The frame of every call in progress, not only of the innermost, counts its
\* arguments and leads to the first and the last of them, whatever the calls
\* it made have taken off the stack above.
FramesLead ==
  \A k \in 1 .. Depth :
    /\ frames[k].count = Cardinality(calls[k].args)
    /\ calls[k].args # {} => Heads(frames[k], calls[k].args)

\* A call never takes or loses a value of its callers: below its own arguments
\* the stack is what it was when the call began.
CallerUntouched ==
  \A k \in 1 .. Depth :
    {x \in items : x <= calls[k].born} = calls[k].below \cup calls[k].args

\* The linked stack with its frames is the abstract stack (refinement).
AbsCalls == [k \in 1 .. Len(calls) |->
               [args |-> calls[k].args, below |-> calls[k].below,
                born |-> calls[k].born]]
Abs == INSTANCE AbstractStack WITH calls <- AbsCalls
ImplementsStack == Abs!Spec

\* README.md:89 "If the name is NIL (undefined, ungiven or empty string)": a
\* parameter that was not given is nothing, it never reads somebody else's value.
UngivenIsNothing ==
  [][\A i \in 0 .. MaxArgs :
       (LoadFound /\ walk.n = i) => i < Cardinality(TopCall.args)]_vars
=============================================================================
