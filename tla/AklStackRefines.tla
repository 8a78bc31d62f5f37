-------------------------- MODULE AklStackRefines --------------------------
(***************************************************************************)
(* The linked stack with its frames (AklStack) is the abstract stack       *)
(* (AbstractStack), for any bounds.                                        *)
(***************************************************************************)
EXTENDS AklStackProofs

\* The loops that walk the links stay on the stack, and akl_frame_at has passed one
\* argument per turn.  The head of a frame is looked at even when the call has no
\* arguments: in a call of a lisp function it then is an entry below it.
LoadInv ==
  /\ walk.kind = "frame" => walk.it \in items \cup {NULL}
  /\ walk.kind = "load" =>
       /\ Depth > 0
       /\ walk.left \in 0 .. walk.n
       /\ walk.it \in items \cup {NULL}
       /\ walk.n < Cardinality(TopCall.args) =>
            /\ walk.it \in TopCall.args
            /\ Cardinality({x \in TopCall.args : x < walk.it}) = walk.n - walk.left
  /\ \A k \in 1 .. Depth :
       calls[k].kind = "lisp" /\ (k = Depth => walk.kind # "destroy") =>
         frames[k].head \in calls[k].below \cup calls[k].args \cup {NULL}

-----------------------------------------------------------------------------
\* The state of the calls as long as no argument is taken.
LEMMA HeadsKept ==
  ASSUME LoadInv, UNCHANGED <<frames, calls>>, walk.kind # "destroy",
         walk' = Idle \/ walk'.kind = "destroy"
  PROVE  LoadInv'
<1>1. walk'.kind = "idle" \/ walk'.kind = "destroy"
  BY DEF Idle
<1>2. QED BY <1>1 DEF LoadInv, Depth

\* Every argument taken is one of a C function, or of a call that is being left.
LEMMA TakeKeepsHeads ==
  ASSUME IInv, LoadInv, Depth > 0, TopCall.kind = "c" \/ walk'.kind = "destroy",
         walk' = Idle \/ walk'.kind = "destroy",
         NEW h, NEW f, NEW e, Take(h, f, e)
  PROVE  LoadInv'
<1>1. /\ frames' = [frames EXCEPT ![Depth] = f]
      /\ calls' = [calls EXCEPT ![Depth].args = @ \ {e}]
  BY DEF Take
<1>2. /\ Depth \in Nat /\ Depth \in 1 .. Depth /\ Depth = Len(calls)
      /\ TopCall \in Call /\ frames \in Seq(Header) /\ calls \in Seq(Call)
  BY TopCallArgs DEF IInv, CallsInv
<1>3. /\ DOMAIN frames = 1 .. Depth /\ DOMAIN calls = 1 .. Depth
  BY <1>2, LenProperties DEF Depth
<1>4. Depth' = Depth
  BY <1>1, <1>2, <1>3, LenProperties DEF Depth
<1>5. ASSUME NEW k \in 1 .. Depth, calls'[k].kind = "lisp",
             k = Depth => walk'.kind # "destroy"
      PROVE  frames'[k].head \in calls'[k].below \cup calls'[k].args \cup {NULL}
  <2>1. k # Depth
    <3>1. SUFFICES ASSUME k = Depth PROVE FALSE
      OBVIOUS
    <3>2. calls'[Depth] = [TopCall EXCEPT !.args = @ \ {e}]
      BY <1>1, <1>2, <1>3 DEF TopCall
    <3>3. calls'[Depth].kind = TopCall.kind
      BY <1>2, <3>2 DEF Call
    <3>4. QED BY <1>5, <3>1, <3>3
  <2>2. frames'[k] = frames[k] /\ calls'[k] = calls[k]
    BY <1>1, <1>3, <2>1
  <2>3. QED BY <1>5, <2>1, <2>2 DEF LoadInv
<1>6. walk'.kind = "idle" \/ walk'.kind = "destroy"
  BY DEF Idle
<1>7. QED BY <1>4, <1>5, <1>6 DEF LoadInv

\* akl_init_frame walks from the top of the stack down, never off it.
LEMMA FrameWalkKept ==
  ASSUME IInv, LoadInv,
         CallBack \/ \E n \in 0 .. MaxArgs, f \in {"lisp", "c"} : CallBegin(n, f)
  PROVE  LoadInv'
<1>1. /\ UNCHANGED <<items, frames, calls>> /\ walk.kind # "destroy"
      /\ walk'.kind = "frame" /\ walk'.it \in items \cup {NULL}
  <2>1. /\ items \in SUBSET Nat /\ NULL \notin items
        /\ EndsOf(stack.head, stack.last, items) /\ Joined(heap.nxt, heap.prv, items)
    BY StackIsList DEF IInv
  <2>2. CASE CallBack
    <3>1. /\ walk.kind = "frame" /\ walk.it # NULL /\ heap.prv[walk.it] # NULL
          /\ walk' = [walk EXCEPT !.it = heap.prv[walk.it], !.left = @ - 1]
          /\ UNCHANGED <<items, frames, calls>>
      BY <2>2 DEF CallBack, BackAgain
    <3>2. walk'.kind = walk.kind /\ walk'.it = heap.prv[walk.it]
      BY <3>1 DEF IInv, WalkInv
    <3>3. walk.it \in items
      BY <3>1 DEF LoadInv
    <3>4. heap.prv[walk.it] \in items
      BY <2>1, <3>1, <3>3, Neighbours
    <3>5. QED BY <3>1, <3>2, <3>4
  <2>3. CASE \E n \in 0 .. MaxArgs, f \in {"lisp", "c"} : CallBegin(n, f)
    <3>1. /\ walk = Idle /\ UNCHANGED <<items, frames, calls>>
          /\ walk'.kind = "frame" /\ walk'.it = stack.last
      BY <2>3 DEF CallBegin
    <3>2. stack.last \in items \cup {NULL}
      BY <2>1 DEF EndsOf
    <3>3. QED BY <3>1, <3>2 DEF Idle
  <2>4. QED BY <2>2, <2>3
<1>2. QED BY <1>1 DEF LoadInv, Depth

\* The frame just made begins at an entry that was there.
LEMMA CallMadeKeepsHeads ==
  ASSUME IInv, LoadInv, CallMade
  PROVE  LoadInv'
<1> DEFINE A == IF walk.n = 0 THEN {} ELSE {x \in items : x >= walk.it}
           f == [head |-> walk.it, last |-> stack.last, count |-> walk.n, nil |-> FALSE]
           c == [args |-> A, below |-> items \ A, born |-> made, kind |-> walk.fun]
<1>1. /\ walk.kind = "frame" /\ walk' = Idle
      /\ frames' = Append(frames, f) /\ calls' = Append(calls, c)
  BY DEF CallMade
<1>2. f.head = walk.it /\ c.args = A /\ c.below = items \ A
  OBVIOUS
<1>3. f.head \in c.below \cup c.args \cup {NULL}
  <2>1. walk.it \in items \cup {NULL}
    BY <1>1 DEF LoadInv
  <2>2. QED BY <1>2, <2>1
<1> HIDE DEF A, f, c
<1>4. /\ Depth \in Nat /\ Len(calls) = Depth /\ frames \in Seq(Header) /\ calls \in Seq(Call)
  BY LenProperties DEF IInv, CallsInv, Nested, Depth
<1>5. /\ Depth' = Depth + 1 /\ frames'[Depth + 1] = f /\ calls'[Depth + 1] = c
      /\ \A k \in 1 .. Depth : frames'[k] = frames[k] /\ calls'[k] = calls[k]
  BY <1>1, <1>4 DEF Depth
<1>6. ASSUME NEW k \in 1 .. Depth + 1, calls'[k].kind = "lisp"
      PROVE  frames'[k].head \in calls'[k].below \cup calls'[k].args \cup {NULL}
  <2>1. CASE k = Depth + 1
    BY <1>3, <1>5, <2>1
  <2>2. CASE k # Depth + 1
    <3>1. k \in 1 .. Depth
      BY <1>4, <2>2
    <3>2. QED BY <1>1, <1>5, <1>6, <3>1 DEF LoadInv
  <2>3. QED BY <2>1, <2>2
<1>7. QED BY <1>1, <1>5, <1>6 DEF LoadInv, Idle

\* akl_frame_at starts at the first argument.
LEMMA LoadBeginKeeps ==
  ASSUME IInv, LoadInv, NEW i \in 0 .. MaxArgs, LoadBegin(i)
  PROVE  LoadInv'
<1>1. /\ walk = Idle /\ Depth > 0 /\ TopCall.kind = "lisp"
      /\ walk' = [kind |-> "load", it |-> Top.head, left |-> i, n |-> i, fun |-> "c"]
      /\ UNCHANGED <<frames, items, calls>>
  BY DEF LoadBegin, InCall
<1>2. /\ Depth \in 1 .. Depth /\ TopCall.args \subseteq items
      /\ Top.count = Cardinality(TopCall.args)
      /\ TopCall.args # {} => EndsOf(Top.head, Top.last, TopCall.args)
  BY <1>1, TopCallArgs DEF IInv
<1>3. Top.head \in items \cup {NULL}
  <2>1. Top.head \in TopCall.below \cup TopCall.args \cup {NULL}
    BY <1>1, <1>2 DEF LoadInv, Top, TopCall, Idle
  <2>2. {x \in items : x <= TopCall.born} = TopCall.below \cup TopCall.args
    BY <1>2 DEF IInv, CallsInv, CallerUntouched, TopCall
  <2>3. QED BY <2>1, <2>2
<1>4. ASSUME i < Cardinality(TopCall.args)
      PROVE  /\ Top.head \in TopCall.args
             /\ Cardinality({x \in TopCall.args : x < Top.head}) = i - i
  <2>1. i \in Nat
    BY BoundsAssumption DEF BoundsAssumption
  <2>2. TopCall.args # {}
    BY <1>4, <2>1, FS_EmptySet
  <2>3. Top.head \in TopCall.args /\ \A x \in TopCall.args : Top.head <= x
    BY <1>2, <2>2 DEF EndsOf
  <2>4. items \in SUBSET Nat
    BY StackIsList DEF IInv
  <2>5. \A x \in TopCall.args : ~(x < Top.head)
    <3>1. \A x \in TopCall.args : x \in Nat
      BY <1>2, <2>4
    <3>2. Top.head \in Nat
      BY <2>3, <3>1
    <3>3. QED BY <2>3, <3>1, <3>2
  <2>6. {x \in TopCall.args : x < Top.head} = {}
    BY <2>5
  <2>7. i - i = 0
    BY <2>1
  <2>8. QED BY <2>3, <2>6, <2>7, FS_EmptySet
<1>5. /\ walk'.kind = "load" /\ walk'.it = Top.head /\ walk'.left = i /\ walk'.n = i
      /\ TopCall' = TopCall /\ Depth' = Depth /\ i \in 0 .. i
  BY <1>1, BoundsAssumption DEF TopCall, Depth, BoundsAssumption
<1>6. \A k \in 1 .. Depth :
        calls[k].kind = "lisp" => frames[k].head \in calls[k].below \cup calls[k].args \cup {NULL}
  BY <1>1 DEF LoadInv, Idle
<1>7. QED BY <1>1, <1>3, <1>4, <1>5, <1>6 DEF LoadInv

\* One link further is one argument further, as long as there is one.
LEMMA LoadNextKeeps ==
  ASSUME IInv, LoadInv, LoadNext
  PROVE  LoadInv'
<1> DEFINE e == walk.it
           n == heap.nxt[e]
           B == TopCall.args
<1>1. /\ walk.kind = "load" /\ e # NULL /\ walk.left > 0
      /\ walk' = [walk EXCEPT !.it = n, !.left = @ - 1]
      /\ UNCHANGED <<frames, items, calls>>
  BY DEF LoadNext
<1>2. /\ Depth > 0 /\ walk.left \in 0 .. walk.n /\ e \in items
      /\ walk.n < Cardinality(B) =>
           e \in B /\ Cardinality({x \in B : x < e}) = walk.n - walk.left
  BY <1>1 DEF LoadInv
<1>3. /\ walk'.kind = "load" /\ walk'.it = n /\ walk'.left = walk.left - 1
      /\ walk'.n = walk.n /\ walk.n \in Nat /\ walk.left \in Nat
  <2>1. walk \in [kind : {"idle", "frame", "load", "destroy"}, it : Links,
                  left : Int, n : 0 .. MaxArgs, fun : {"lisp", "c"}]
    BY DEF IInv, WalkInv
  <2>2. walk.n \in Nat /\ walk.left \in Nat
    BY <1>2, <2>1, BoundsAssumption DEF BoundsAssumption
  <2> HIDE DEF n, e
  <2>3. QED BY <1>1, <2>1, <2>2
<1>4. /\ items \in SUBSET Nat /\ NULL \notin items /\ IsFiniteSet(items)
      /\ Joined(heap.nxt, heap.prv, items)
  BY StackIsList DEF IInv
<1>5. /\ n = NULL => \A x \in items : x <= e
      /\ n # NULL => n \in items /\ n \in Nat /\ e < n /\ \A x \in items : x <= e \/ n <= x
  <2>1. e \in items /\ n = heap.nxt[e]
    BY <1>2
  <2> HIDE DEF e, n
  <2>2. QED BY <1>4, <2>1, Neighbours
<1>6. /\ B \subseteq items /\ Gapless(B, items) /\ IsFiniteSet(B)
  BY <1>2, <1>4, TopCallArgs, FS_Subset DEF IInv
<1> HIDE DEF e, n, B
<1>7. ASSUME walk.n < Cardinality(B)
      PROVE  /\ n \in B
             /\ Cardinality({x \in B : x < n}) = walk.n - (walk.left - 1)
  <2> DEFINE L == {x \in B : x < e}
  <2>1. e \in B /\ e \in Nat /\ Cardinality(L) = walk.n - walk.left /\ IsFiniteSet(L)
    <3>1. IsFiniteSet(L)
      BY <1>6, FS_Subset
    <3>2. QED BY <1>2, <1>4, <1>7, <3>1
  <2>2. e \notin L
    BY <2>1
  <2>3. /\ Cardinality(L \cup {e}) = Cardinality(L) + 1
        /\ IsFiniteSet(L \cup {e})
    <3> HIDE DEF L
    <3>1. QED BY <2>1, <2>2, FS_AddElement
  <2>4. PICK a \in B : e < a
    <3>1. SUFFICES ASSUME \A x \in B : ~(e < x) PROVE FALSE
      OBVIOUS
    <3>2. B \subseteq L \cup {e}
      BY <1>4, <1>6, <2>1, <3>1
    <3>3. Cardinality(B) <= Cardinality(L \cup {e}) /\ Cardinality(B) \in Nat
      BY <1>6, <2>3, <3>2, FS_Subset, FS_CardinalityType
    <3>4. QED BY <1>1, <1>3, <1>7, <2>1, <2>3, <3>3
  <2>5. a \in items /\ a \in Nat
    BY <1>4, <1>6
  <2>6. n # NULL
    BY <1>5, <2>1, <2>4, <2>5
  <2>7. n \in items /\ n \in Nat /\ e < n /\ \A x \in items : x <= e \/ n <= x
    BY <1>5, <2>6
  <2>8. e <= n /\ n <= a
    BY <2>1, <2>4, <2>5, <2>7
  <2>9. n \in B
    BY <1>6, <2>1, <2>4, <2>7, <2>8 DEF Gapless
  <2>10. {x \in B : x < n} = L \cup {e}
    <3>1. ASSUME NEW x \in B PROVE x < n <=> x < e \/ x = e
      <4>1. x \in Nat /\ (x <= e \/ n <= x)
        BY <1>4, <1>6, <2>7
      <4>2. QED BY <2>1, <2>7, <4>1
    <3>2. QED BY <2>1, <3>1
  <2>11. Cardinality(L) + 1 = walk.n - (walk.left - 1)
    BY <1>3, <2>1
  <2>12. QED BY <2>3, <2>9, <2>10, <2>11
<1>8. walk.left - 1 \in 0 .. walk.n /\ n \in items \cup {NULL}
  BY <1>1, <1>2, <1>3, <1>5
<1>9. TopCall' = TopCall /\ Depth' = Depth
  BY <1>1 DEF TopCall, Depth
<1>10. \A k \in 1 .. Depth :
        calls[k].kind = "lisp" => frames[k].head \in calls[k].below \cup calls[k].args \cup {NULL}
  BY <1>1 DEF LoadInv
<1>11. QED BY <1>1, <1>2, <1>3, <1>7, <1>8, <1>9, <1>10 DEF LoadInv, B

\* Back in the caller: its frame is as it was.
LEMMA ReturnKeepsHeads ==
  ASSUME IInv, LoadInv, Return
  PROVE  LoadInv'
<1>1. /\ walk' = Idle /\ Depth > 0 /\ frames' = SubSeq(frames, 1, Depth - 1)
      /\ calls' = SubSeq(calls, 1, Depth - 1)
  BY DEF Return, IInv, WalkInv
<1>2. /\ Depth \in Nat /\ Len(calls) = Depth /\ Depth - 1 \in Nat
      /\ frames \in Seq(Header) /\ calls \in Seq(Call)
  BY <1>1, LenProperties DEF IInv, CallsInv, Nested, Depth
<1>3. /\ Len(frames') = Depth - 1
      /\ \A k \in 1 .. Depth - 1 : frames'[k] = frames[k]
  BY <1>1, <1>2, SubSeqProperties DEF Depth
<1>4. \A k \in 1 .. Depth - 1 : calls'[k] = calls[k]
  BY <1>1, <1>2, SubSeqProperties
<1>5. \A k \in 1 .. Depth - 1 : k \in 1 .. Depth /\ k # Depth
  BY <1>2
<1>6. \A k \in 1 .. Depth - 1 :
        calls'[k].kind = "lisp" =>
          frames'[k].head \in calls'[k].below \cup calls'[k].args \cup {NULL}
  BY <1>3, <1>4, <1>5 DEF LoadInv
<1>7. Depth' = Depth - 1
  BY <1>3 DEF Depth
<1>8. QED BY <1>1, <1>6, <1>7 DEF LoadInv, Idle

\* The walks of akl_init_frame and akl_frame_at stay on the stack, always.
THEOREM WalksStayOnStack == Spec => []LoadInv
<1>1. Init => LoadInv
  <2>1. SUFFICES ASSUME Init PROVE LoadInv
    OBVIOUS
  <2>2. walk.kind = "idle" /\ frames = <<>>
    BY <2>1 DEF Init, Idle
  <2>3. Depth = 0
    BY <2>2 DEF Depth
  <2>4. QED BY <2>2, <2>3 DEF LoadInv
<1>2. IInv /\ LoadInv /\ [Next]_vars => LoadInv'
  <2>1. SUFFICES ASSUME IInv, LoadInv, [Next]_vars PROVE LoadInv'
    OBVIOUS
  <2>2. CASE Push \/ Pop \/ LoadFound \/ LoadNothing \/ ReturnBegin
    <3>1. /\ UNCHANGED <<frames, calls>> /\ walk.kind # "destroy"
          /\ walk' = Idle \/ walk'.kind = "destroy"
      BY <2>2 DEF Push, Pop, LoadFound, LoadNothing, ReturnBegin, None, Idle
    <3>2. QED BY <2>1, <3>1, HeadsKept
  <2>3. CASE Shift
    <3>1. walk = Idle /\ walk' = Idle /\ Depth > 0 /\ TopCall.kind = "c"
      BY <2>3 DEF Shift, InCall
    <3>2. CASE Top.count = 0
      <4>1. UNCHANGED <<frames, calls>> /\ walk.kind # "destroy"
        BY <2>3, <3>1, <3>2 DEF Shift, None, Idle
      <4>2. QED BY <2>1, <3>1, <4>1, HeadsKept
    <3>3. CASE Top.count # 0
      <4>1. Take(ShiftEntry(heap, Top).h, ShiftEntry(heap, Top).l, Top.head)
        BY <2>3, <3>3 DEF Shift
      <4>2. QED BY <2>1, <3>1, <4>1, TakeKeepsHeads
    <3>4. QED BY <3>2, <3>3
  <2>4. CASE PopArg \/ Destroy
    <3>1. /\ FramePop /\ walk' = walk /\ Depth > 0
          /\ TopCall.kind = "c" \/ walk'.kind = "destroy"
          /\ walk' = Idle \/ walk'.kind = "destroy"
      BY <2>1, <2>4 DEF PopArg, InCall, Destroy, IInv, WalkInv
    <3>2. CASE NoArg
      <4>1. UNCHANGED <<frames, calls, walk, items>>
        BY <3>1, <3>2 DEF FramePop, None
      <4>2. walk.kind # "load" /\ walk.kind # "frame"
        BY <3>1 DEF Idle
      <4>3. QED BY <2>1, <4>1, <4>2 DEF LoadInv, Depth
    <3>3. CASE ~NoArg
      <4>1. Take(RemoveEntry(heap, Top, Top.last).h, RemoveEntry(heap, Top, Top.last).l, Top.last)
        BY <3>1, <3>3 DEF FramePop
      <4>2. QED BY <2>1, <3>1, <4>1, TakeKeepsHeads
    <3>4. QED BY <3>2, <3>3
  <2>5. CASE CallBack \/ \E n \in 0 .. MaxArgs, f \in {"lisp", "c"} : CallBegin(n, f)
    BY <2>1, <2>5, FrameWalkKept
  <2>6. CASE CallMade
    BY <2>1, <2>6, CallMadeKeepsHeads
  <2>7. ASSUME NEW i \in 0 .. MaxArgs, LoadBegin(i) PROVE LoadInv'
    BY <2>1, <2>7, LoadBeginKeeps
  <2>8. CASE LoadNext
    BY <2>1, <2>8, LoadNextKeeps
  <2>9. CASE Return
    BY <2>1, <2>9, ReturnKeepsHeads
  <2>10. CASE UNCHANGED vars
    BY <2>1, <2>10 DEF vars, LoadInv, TopCall, Depth
  <2>11. QED BY <2>1, <2>2, <2>3, <2>4, <2>5, <2>6, <2>7, <2>8, <2>9, <2>10 DEF Next
<1>3. QED BY <1>1, <1>2, StackInvariant, PTL DEF Spec

-----------------------------------------------------------------------------
\* What the abstract stack sees of a call.
View(c) == [args |-> c.args, below |-> c.below, born |-> c.born]

\* Its numbers of arguments are the same numbers.
LEMMA SameCardinality == \A S : Abs!Cardinality(S) = Cardinality(S)
BY DEF Cardinality, Abs!Cardinality

\* The abstract stack has the same calls.
LEMMA SameCalls ==
  ASSUME IInv
  PROVE  /\ Depth \in Nat /\ Depth = Len(calls) /\ Len(AbsCalls) = Depth
         /\ DOMAIN AbsCalls = 1 .. Depth
         /\ \A k \in 1 .. Depth : AbsCalls[k] = View(calls[k])
         /\ AbsCalls = <<>> <=> Depth = 0
<1>1. Depth \in Nat /\ Depth = Len(calls)
  BY LenProperties DEF IInv, CallsInv, Nested, Depth
<1>2. AbsCalls = [k \in 1 .. Depth |-> View(calls[k])]
  BY <1>1 DEF AbsCalls, View
<1>3. DOMAIN AbsCalls = 1 .. Depth /\ \A k \in 1 .. Depth : AbsCalls[k] = View(calls[k])
  BY <1>2
<1>4. Len(AbsCalls) = Depth
  BY <1>1, <1>2
<1>5. AbsCalls = <<>> <=> Depth = 0
  BY <1>1, <1>2
<1>6. QED BY <1>1, <1>3, <1>4, <1>5

LEMMA SameTop ==
  ASSUME IInv
  PROVE  /\ Depth > 0 => Abs!Top = View(TopCall) /\ Abs!Args = TopCall.args
         /\ Depth = 0 => Abs!Args = {}
         /\ Abs!Born = Born /\ Abs!Temps = Temps
<1>1. /\ Depth \in Nat /\ Depth = Len(calls) /\ Len(AbsCalls) = Depth
      /\ \A k \in 1 .. Depth : AbsCalls[k] = View(calls[k])
      /\ AbsCalls = <<>> <=> Depth = 0
  BY SameCalls
<1>2. ASSUME Depth > 0
      PROVE  Abs!Top = View(TopCall) /\ Abs!Args = TopCall.args /\ Abs!Born = TopCall.born
  <2>1. Abs!Top = View(TopCall)
    BY <1>1, <1>2 DEF Abs!Top, TopCall
  <2>2. Abs!Args = Abs!Top.args /\ Abs!Born = Abs!Top.born
    BY <1>1, <1>2 DEF Abs!Args, Abs!Born
  <2>3. QED BY <2>1, <2>2 DEF View
<1>3. Depth = 0 => Abs!Args = {} /\ Abs!Born = 0
  BY <1>1 DEF Abs!Args, Abs!Born
<1>4. Depth = 0 <=> calls = <<>>
  BY <1>1, EmptySeq DEF IInv, CallsInv
<1>5. Abs!Born = Born
  BY <1>1, <1>2, <1>3, <1>4 DEF Born
<1>6. Abs!Temps = Temps
  BY <1>5 DEF Abs!Temps, Temps
<1>7. QED BY <1>2, <1>3, <1>5, <1>6

-----------------------------------------------------------------------------
\* A turn of a loop is no step of the abstract stack.
LEMMA LoopsHidden ==
  ASSUME UNCHANGED <<made, items, calls, ret>>
  PROVE  UNCHANGED Abs!avars
BY DEF Abs!avars, AbsCalls

\* An argument taken through both headers is an argument taken.
LEMMA TakeMaps ==
  ASSUME IInv, Depth > 0, NEW h, NEW f, NEW e, Take(h, f, e)
  PROVE  /\ Abs!TakeArg(e)
         /\ ret' = e /\ items' = items \ {e} /\ made' = made
<1> DEFINE c == [TopCall EXCEPT !.args = @ \ {e}]
<1>1. /\ calls' = [calls EXCEPT ![Depth].args = @ \ {e}]
      /\ ret' = e /\ items' = items \ {e} /\ made' = made
  BY DEF Take
<1>2. /\ Depth \in Nat /\ Depth \in 1 .. Depth /\ Depth = Len(calls)
      /\ TopCall \in Call /\ calls \in Seq(Call)
  BY TopCallArgs DEF IInv, CallsInv
<1>3. DOMAIN calls = 1 .. Depth
  BY <1>2, LenProperties
<1>4. calls' = [k \in 1 .. Depth |-> IF k = Depth THEN c ELSE calls[k]]
  BY <1>1, <1>2, <1>3 DEF TopCall
<1>5. View(c) = [View(TopCall) EXCEPT !.args = @ \ {e}]
  <2>1. /\ c.args = TopCall.args \ {e} /\ c.below = TopCall.below
        /\ c.born = TopCall.born
    BY <1>2 DEF Call
  <2> HIDE DEF c
  <2>2. View(c) = [args |-> TopCall.args \ {e}, below |-> TopCall.below,
                   born |-> TopCall.born]
    BY <2>1 DEF View
  <2>3. QED BY <2>2 DEF View
<1> HIDE DEF c
<1>6. Len(calls') = Depth
  BY <1>2, <1>4
<1>7. AbsCalls' = [k \in 1 .. Depth |-> View(calls'[k])]
  BY <1>6 DEF AbsCalls, View
<1>8. AbsCalls' = [k \in 1 .. Depth |-> IF k = Depth THEN View(c) ELSE View(calls[k])]
  BY <1>2, <1>4, <1>7
<1>9. AbsCalls = [k \in 1 .. Depth |-> View(calls[k])] /\ Len(AbsCalls) = Depth
  BY <1>2, SameCalls DEF AbsCalls, View
<1>10. [AbsCalls EXCEPT ![Depth].args = @ \ {e}]
         = [k \in 1 .. Depth |-> IF k = Depth THEN View(c) ELSE View(calls[k])]
  BY <1>2, <1>5, <1>9 DEF TopCall
<1>11. Abs!TakeArg(e)
  BY <1>8, <1>9, <1>10 DEF Abs!TakeArg
<1>12. QED BY <1>1, <1>11

\* akl_frame_pop gives NULL only to a call that has no arguments.
LEMMA NoArgIsNone ==
  ASSUME IInv, Depth > 0, NoArg
  PROVE  TopCall.args = {}
<1>1. /\ Top.count = Cardinality(TopCall.args) /\ TopCall.args \subseteq items
      /\ TopCall.args # {} => EndsOf(Top.head, Top.last, TopCall.args)
  BY TopCallArgs DEF IInv
<1>2. NULL \notin items /\ IsFiniteSet(items)
  BY StackIsList DEF IInv
<1>3. SUFFICES ASSUME TopCall.args # {} PROVE FALSE
  OBVIOUS
<1>4. Top.last \in TopCall.args
  BY <1>1, <1>3 DEF EndsOf
<1>5. Top.count = 0
  BY <1>1, <1>2, <1>4 DEF NoArg
<1>6. IsFiniteSet(TopCall.args)
  BY <1>1, <1>2, FS_Subset
<1>7. QED BY <1>1, <1>3, <1>5, <1>6, FS_EmptySet

\* akl_frame_pop is the abstract TakeLast.
LEMMA FramePopMaps ==
  ASSUME IInv, Depth > 0, FramePop
  PROVE  Abs!TakeLast
<1>1. /\ Abs!Args = TopCall.args /\ Top.count = Cardinality(TopCall.args)
      /\ TopCall.args \subseteq items
      /\ TopCall.args # {} => EndsOf(Top.head, Top.last, TopCall.args)
  BY SameTop, TopCallArgs DEF IInv
<1>2. /\ NULL \notin items /\ IsFiniteSet(items)
  BY StackIsList DEF IInv
<1>3. CASE NoArg
  <2>1. TopCall.args = {}
    BY <1>3, NoArgIsNone
  <2>2. ret' = NULL /\ UNCHANGED <<made, items, calls>>
    BY <1>3 DEF FramePop, None
  <2>3. AbsCalls' = AbsCalls
    BY <2>2 DEF AbsCalls
  <2>4. QED BY <1>1, <2>1, <2>2, <2>3 DEF Abs!TakeLast, NULL
<1>4. CASE ~NoArg
  <2>1. Take(RemoveEntry(heap, Top, Top.last).h, RemoveEntry(heap, Top, Top.last).l, Top.last)
    BY <1>4 DEF FramePop
  <2>2. TopCall.args # {}
    BY <1>1, <1>4, FS_EmptySet DEF NoArg
  <2>3. Top.last \in Abs!Args /\ \A x \in Abs!Args : x <= Top.last
    BY <1>1, <2>2 DEF EndsOf
  <2>4. /\ Abs!TakeArg(Top.last)
        /\ ret' = Top.last /\ items' = items \ {Top.last} /\ made' = made
    BY <2>1, TakeMaps
  <2>5. QED BY <2>3, <2>4 DEF Abs!TakeLast
<1>5. QED BY <1>3, <1>4

\* akl_frame_shift is the abstract Shift.
LEMMA ShiftMaps ==
  ASSUME IInv, Shift
  PROVE  Abs!Shift
<1>1. Depth > 0
  BY DEF Shift, InCall
<1>2. /\ Abs!Args = TopCall.args /\ Top.count = Cardinality(TopCall.args)
      /\ TopCall.args \subseteq items
      /\ TopCall.args # {} => EndsOf(Top.head, Top.last, TopCall.args)
  BY <1>1, SameTop, TopCallArgs DEF IInv
<1>3. CASE Top.count = 0
  <2>1. TopCall.args = {}
    <3>1. IsFiniteSet(items)
      BY StackIsList DEF IInv
    <3>2. IsFiniteSet(TopCall.args)
      BY <1>2, <3>1, FS_Subset
    <3>3. QED BY <1>2, <1>3, <3>2, FS_EmptySet
  <2>2. ret' = NULL /\ UNCHANGED <<made, items, calls>>
    BY <1>3 DEF Shift, None
  <2>3. AbsCalls' = AbsCalls
    BY <2>2 DEF AbsCalls
  <2>4. QED BY <1>2, <2>1, <2>2, <2>3 DEF Abs!Shift, NULL
<1>4. CASE Top.count # 0
  <2>1. Take(ShiftEntry(heap, Top).h, ShiftEntry(heap, Top).l, Top.head)
    BY <1>4 DEF Shift
  <2>2. TopCall.args # {}
    BY <1>2, <1>4, FS_EmptySet
  <2>3. Top.head \in Abs!Args /\ \A x \in Abs!Args : Top.head <= x
    BY <1>2, <2>2 DEF EndsOf
  <2>4. /\ Abs!TakeArg(Top.head)
        /\ ret' = Top.head /\ items' = items \ {Top.head} /\ made' = made
    BY <1>1, <2>1, TakeMaps
  <2>5. QED BY <2>3, <2>4 DEF Abs!Shift
<1>5. QED BY <1>3, <1>4

\* akl_stack_push and akl_stack_pop.
LEMMA PushMaps ==
  ASSUME Push
  PROVE  Abs!Push
<1>1. /\ made' = made + 1 /\ items' = items \cup {made + 1}
      /\ UNCHANGED <<calls, ret>>
  BY DEF Push, PushEntry
<1>2. AbsCalls' = AbsCalls
  BY <1>1 DEF AbsCalls
<1>3. QED BY <1>1, <1>2 DEF Abs!Push

LEMMA PopMaps ==
  ASSUME IInv, Pop
  PROVE  Abs!Pop
<1>1. /\ ret' = stack.last /\ items' = items \ {stack.last} /\ made' = made
      /\ UNCHANGED calls /\ Temps # {}
  BY DEF Pop
<1>2. EndsOf(stack.head, stack.last, items) /\ items \in SUBSET Nat
  BY StackIsList DEF IInv
<1>3. stack.last \in items /\ \A x \in items : x <= stack.last
  BY <1>1, <1>2 DEF Temps, EndsOf
<1>4. stack.last \in Temps
  <2>1. PICK x \in items : x > Born
    BY <1>1 DEF Temps
  <2>2. x \in Nat /\ stack.last \in Nat /\ x <= stack.last
    BY <1>2, <1>3
  <2>3. Born \in Nat
    BY BornIsNumber DEF IInv
  <2>4. stack.last > Born
    BY <2>1, <2>2, <2>3
  <2>5. QED BY <1>3, <2>4 DEF Temps
<1>5. stack.last \in Abs!Temps
  BY <1>4, SameTop
<1>6. AbsCalls' = AbsCalls
  BY <1>1 DEF AbsCalls
<1>7. QED BY <1>1, <1>3, <1>5, <1>6 DEF Abs!Pop

\* LOAD pushes a copy of the argument akl_frame_at has found, or nothing.
LEMMA LoadMaps ==
  ASSUME IInv, LoadInv, LoadFound \/ LoadNothing
  PROVE  Abs!Load(walk.n)
<1> DEFINE B == TopCall.args
           e == walk.it
<1>1. /\ walk.kind = "load" /\ Depth > 0 /\ e \in items \cup {NULL}
      /\ walk.left \in 0 .. walk.n
      /\ walk.n < Cardinality(B) =>
           e \in B /\ Cardinality({x \in B : x < e}) = walk.n - walk.left
  BY DEF LoadInv, LoadFound, LoadNothing
<1>2. Abs!Args = B /\ B \subseteq items /\ NULL \notin items
  BY <1>1, SameTop, TopCallArgs, StackIsList DEF IInv
<1>3. walk.n \in Nat
  BY BoundsAssumption DEF BoundsAssumption, IInv, WalkInv
<1>4. CASE LoadFound
  <2>1. /\ e # NULL /\ walk.left = 0 /\ ret' = e /\ made' = made + 1
        /\ items' = items \cup {made + 1} /\ UNCHANGED calls
    BY <1>4 DEF LoadFound, PushEntry
  <2>2. AbsCalls' = AbsCalls
    BY <2>1 DEF AbsCalls
  <2>3. walk.n < Cardinality(B) =>
          ret' \in B /\ Cardinality({x \in B : x < ret'}) = walk.n
    BY <1>1, <1>3, <2>1
  <2>4. ret' \in items \cup {0} /\ ret' # 0
    BY <1>1, <2>1 DEF NULL
  <2> HIDE DEF B, e
  <2>5. QED BY <1>2, <2>1, <2>2, <2>3, <2>4, SameCardinality DEF Abs!Load
<1>5. CASE LoadNothing
  <2>1. e = NULL /\ ret' = NULL /\ UNCHANGED <<made, items, calls>>
    BY <1>5 DEF LoadNothing, None
  <2>2. AbsCalls' = AbsCalls
    BY <2>1 DEF AbsCalls
  <2>3. ~(walk.n < Cardinality(B))
    BY <1>1, <1>2, <2>1
  <2> HIDE DEF B, e
  <2>4. QED BY <1>2, <2>1, <2>2, <2>3, SameCardinality DEF Abs!Load, NULL
<1>6. QED BY <1>4, <1>5

\* The call is over when akl_frame_destroy finds no argument.
LEMMA ReturnMaps ==
  ASSUME IInv, Return
  PROVE  Abs!Leave
<1>1. /\ NoArg /\ Depth > 0 /\ calls' = SubSeq(calls, 1, Depth - 1)
      /\ UNCHANGED <<made, items, ret>>
  BY DEF Return, IInv, WalkInv
<1>2. TopCall.args = {}
  BY <1>1, NoArgIsNone
<1>3. /\ Depth \in Nat /\ Depth = Len(calls) /\ Len(AbsCalls) = Depth
      /\ \A k \in 1 .. Depth : AbsCalls[k] = View(calls[k])
      /\ AbsCalls # <<>> /\ Abs!Args = {}
  BY <1>1, <1>2, SameCalls, SameTop
<1>4. /\ calls \in Seq(Call) /\ Depth - 1 \in Nat
      /\ \A k \in 1 .. Depth - 1 : k \in 1 .. Depth
  BY <1>1, <1>3 DEF IInv, CallsInv
<1>5. Len(calls') = Depth - 1 /\ \A k \in 1 .. Depth - 1 : calls'[k] = calls[k]
  BY <1>1, <1>3, <1>4
<1>6. AbsCalls' = [k \in 1 .. Depth - 1 |-> View(calls'[k])]
  BY <1>5 DEF AbsCalls, View
<1>7. AbsCalls' = [k \in 1 .. Depth - 1 |-> View(calls[k])]
  BY <1>5, <1>6
<1>8. AbsCalls = [k \in 1 .. Depth |-> View(calls[k])]
  BY <1>3 DEF AbsCalls, View
<1>9. SubSeq(AbsCalls, 1, Depth - 1) = [k \in 1 .. Depth - 1 |-> AbsCalls[k]]
  BY <1>3, <1>4
<1>10. AbsCalls' = SubSeq(AbsCalls, 1, Depth - 1)
  BY <1>3, <1>4, <1>7, <1>9
<1>11. QED BY <1>1, <1>3, <1>10 DEF Abs!Leave

\* akl_init_frame frames the topmost values the caller has pushed.
LEMMA CallMadeMaps ==
  ASSUME IInv, CallMade
  PROVE  Abs!Call(walk.n)
<1> DEFINE A == IF walk.n = 0 THEN {} ELSE From(walk.it)
           c == [args |-> A, below |-> items \ A, born |-> made, kind |-> walk.fun]
           v == [args |-> A, below |-> items \ A, born |-> made]
<1>1. /\ walk.kind = "frame" /\ ~BackAgain /\ calls' = Append(calls, c)
      /\ UNCHANGED <<made, items, ret>>
  BY DEF CallMade, From
<1>2. /\ walk.n \in Nat /\ items \in SUBSET Nat
      /\ walk.n > 0 => walk.it \in items
  BY <1>1, BoundsAssumption, StackIsList DEF BoundsAssumption, IInv, WalkInv
<1>3. /\ A \subseteq Temps /\ Cardinality(A) = walk.n
      /\ \A a \in A, b \in items \ A : b < a
  <2>1. CASE walk.n = 0
    BY <2>1, FS_EmptySet
  <2>2. CASE walk.n # 0
    <3>1. A = From(walk.it) /\ walk.n > 0
      BY <1>2, <2>2
    <3>2. Cardinality(A) = walk.n /\ A \subseteq Temps
      BY <1>1, <3>1, FoundAll
    <3>3. ASSUME NEW a \in A, NEW b \in items \ A PROVE b < a
      <4>1. a \in Nat /\ b \in Nat /\ walk.it \in Nat /\ a >= walk.it /\ ~(b >= walk.it)
        BY <1>2, <3>1, <3>3 DEF From
      <4>2. QED BY <4>1
    <3>4. QED BY <3>2, <3>3
  <2>3. QED BY <2>1, <2>2
<1>4. View(c) = v
  BY DEF View
<1>5. A \in SUBSET Abs!Temps
  BY <1>3, SameTop
<1> HIDE DEF A, c, v
<1>6. /\ Depth \in Nat /\ Depth = Len(calls) /\ Len(AbsCalls) = Depth
      /\ \A k \in 1 .. Depth : AbsCalls[k] = View(calls[k])
      /\ DOMAIN AbsCalls = 1 .. Depth
      /\ calls \in Seq(Call)
  BY SameCalls DEF IInv, CallsInv
<1>7. /\ Len(calls') = Depth + 1 /\ calls'[Depth + 1] = c
      /\ \A k \in 1 .. Depth : calls'[k] = calls[k]
  BY <1>1, <1>6
<1>8. AbsCalls' = [k \in 1 .. Depth + 1 |-> View(calls'[k])]
  BY <1>7 DEF AbsCalls, View
<1>9. ASSUME NEW k \in 1 .. Depth + 1
      PROVE  View(calls'[k]) = IF k = Depth + 1 THEN v ELSE AbsCalls[k]
  <2>1. CASE k = Depth + 1
    BY <1>4, <1>7, <2>1
  <2>2. CASE k # Depth + 1
    <3>1. k \in 1 .. Depth
      BY <1>6, <2>2
    <3>2. QED BY <1>6, <1>7, <2>2, <3>1
  <2>3. QED BY <2>1, <2>2
<1>10. AbsCalls' = [k \in 1 .. Depth + 1 |-> IF k = Depth + 1 THEN v ELSE AbsCalls[k]]
  BY <1>8, <1>9
<1>11. Append(AbsCalls, v)
         = [k \in 1 .. Depth + 1 |-> IF k = Depth + 1 THEN v ELSE AbsCalls[k]]
  <2> DEFINE S == {AbsCalls[k] : k \in 1 .. Depth} \cup {v}
             t == Append(AbsCalls, v)
  <2>1. AbsCalls \in Seq(S) /\ v \in S
    <3>1. AbsCalls = [k \in 1 .. Depth |-> View(calls[k])]
      BY <1>6 DEF AbsCalls, View
    <3>2. \A k \in 1 .. Depth : AbsCalls[k] \in S
      OBVIOUS
    <3> HIDE DEF S
    <3>3. AbsCalls = [k \in 1 .. Depth |-> AbsCalls[k]]
      BY <1>6, <3>1
    <3>4. AbsCalls \in Seq(S)
      BY <1>6, <3>2, <3>3
    <3>5. v \in S
      BY DEF S
    <3>6. QED BY <3>4, <3>5
  <2> HIDE DEF S
  <2>2. /\ t \in Seq(S) /\ Len(t) = Depth + 1 /\ t[Depth + 1] = v
        /\ \A k \in 1 .. Depth : t[k] = AbsCalls[k]
    BY <1>6, <2>1, AppendProperties
  <2>3. t = [k \in 1 .. Depth + 1 |-> t[k]]
    BY <2>2, LenProperties
  <2> HIDE DEF t
  <2>4. ASSUME NEW k \in 1 .. Depth + 1
        PROVE  t[k] = IF k = Depth + 1 THEN v ELSE AbsCalls[k]
    BY <1>6, <2>2
  <2>5. t = [k \in 1 .. Depth + 1 |-> IF k = Depth + 1 THEN v ELSE AbsCalls[k]]
    BY <2>3, <2>4
  <2>6. QED BY <2>5 DEF t
<1>12. AbsCalls' = Append(AbsCalls, v)
  BY <1>10, <1>11
<1>13. /\ Cardinality(A) = walk.n /\ \A a \in A, b \in items \ A : b < a
       /\ AbsCalls' = Append(AbsCalls, [args |-> A, below |-> items \ A, born |-> made])
       /\ UNCHANGED <<made, items, ret>>
  BY <1>1, <1>3, <1>12 DEF v
<1>14. QED BY <1>5, <1>13, SameCardinality DEF Abs!Call

-----------------------------------------------------------------------------
\* The linked stack with its frames (akl_stack_push to akl_frame_destroy) does
\* what the abstract stack promises, for any bounds.
THEOREM StackRefines == Spec => ImplementsStack
<1>1. Init => Abs!Init
  <2>1. SUFFICES ASSUME Init PROVE Abs!Init
    OBVIOUS
  <2>2. made = 0 /\ items = {} /\ calls = <<>> /\ ret = 0
    BY <2>1 DEF Init, NULL
  <2>3. AbsCalls = <<>>
    BY <2>2 DEF AbsCalls
  <2>4. QED BY <2>2, <2>3 DEF Abs!Init
<1>2. IInv /\ LoadInv /\ [Next]_vars => [Abs!Next]_(Abs!avars)
  <2>1. SUFFICES ASSUME IInv, LoadInv, [Next]_vars
                 PROVE  Abs!Next \/ UNCHANGED Abs!avars
    OBVIOUS
  <2>2. walk.n \in 0 .. MaxArgs /\ (walk.kind = "destroy" => Depth > 0)
    BY <2>1 DEF IInv, WalkInv
  <2>3. CASE Push
    BY <2>3, PushMaps DEF Abs!Next
  <2>4. CASE Pop
    BY <2>1, <2>4, PopMaps DEF Abs!Next
  <2>5. CASE Shift
    BY <2>1, <2>5, ShiftMaps DEF Abs!Next
  <2>6. CASE PopArg \/ Destroy
    <3>1. Depth > 0 /\ FramePop
      BY <2>2, <2>6 DEF PopArg, InCall, Destroy
    <3>2. QED BY <2>1, <3>1, FramePopMaps DEF Abs!Next
  <2>7. CASE CallMade
    BY <2>1, <2>2, <2>7, CallMadeMaps DEF Abs!Next
  <2>8. CASE LoadFound \/ LoadNothing
    BY <2>1, <2>2, <2>8, LoadMaps DEF Abs!Next
  <2>9. CASE Return
    BY <2>1, <2>9, ReturnMaps DEF Abs!Next
  <2>10. ASSUME NEW n \in 0 .. MaxArgs,
                LoadBegin(n) \/ \E f \in {"lisp", "c"} : CallBegin(n, f)
         PROVE  UNCHANGED Abs!avars
    <3>1. UNCHANGED <<made, items, calls, ret>>
      BY <2>10 DEF LoadBegin, CallBegin
    <3>2. QED BY <3>1, LoopsHidden
  <2>11. CASE CallBack \/ LoadNext \/ ReturnBegin
    <3>1. UNCHANGED <<made, items, calls, ret>>
      BY <2>11 DEF CallBack, LoadNext, ReturnBegin
    <3>2. QED BY <3>1, LoopsHidden
  <2>12. CASE UNCHANGED vars
    <3>1. UNCHANGED <<made, items, calls, ret>>
      BY <2>12 DEF vars
    <3>2. QED BY <3>1, LoopsHidden
  <2>13. QED BY <2>1, <2>3, <2>4, <2>5, <2>6, <2>7, <2>8, <2>9, <2>10, <2>11, <2>12
             DEF Next
<1>3. QED BY <1>1, <1>2, StackInvariant, WalksStayOnStack,
             PTL DEF Spec, ImplementsStack, Abs!Spec
=============================================================================
