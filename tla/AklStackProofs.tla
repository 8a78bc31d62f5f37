--------------------------- MODULE AklStackProofs ---------------------------
(***************************************************************************)
(* Theorems about the evaluation stack and the call frames (AklStack), for *)
(* any number of entries, any depth of calls and any number of arguments.  *)
(***************************************************************************)
EXTENDS AklStack, AklListProofs, SequenceTheorems, TLAPS

\* The stack: what TypeOK and Linked say of it, and an entry not pushed yet has
\* no links.
StackInv ==
  /\ made \in 0 .. MaxEntries
  /\ heap \in [nxt : [Entries -> Links], prv : [Entries -> Links]]
  /\ stack \in Header
  /\ items \in SUBSET (1 .. made)
  /\ Linked
  /\ \A e \in Entries : e > made => heap.nxt[e] = NULL /\ heap.prv[e] = NULL

Call == [args : SUBSET Entries, below : SUBSET Entries,
         born : 0 .. MaxEntries, kind : {"lisp", "c"}]

\* The arguments of a call are the topmost values that were there when it began,
\* and its caller pushed them.
Nested ==
  /\ Len(calls) = Depth
  /\ \A k \in 1 .. Depth :
       /\ calls[k].born <= made
       /\ \A x \in calls[k].below, y \in calls[k].args : x < y
  /\ \A j, k \in 1 .. Depth :
       j < k => calls[j].born <= calls[k].born /\ \A x \in calls[k].args : x > calls[j].born

CallsInv ==
  /\ frames \in Seq(Header)
  /\ calls \in Seq(Call)
  /\ FramesLead
  /\ CallerUntouched
  /\ Nested

\* The entries from e to the top of the stack.
From(e) == {x \in items : x >= e}

\* akl_init_frame has found one argument per turn.
WalkInv ==
  /\ walk \in [kind : {"idle", "frame", "load", "destroy"}, it : Links,
               left : Int, n : 0 .. MaxArgs, fun : {"lisp", "c"}]
  /\ ret \in Links
  /\ walk.kind = "frame" /\ walk.n > 0 =>
       /\ walk.left \in 1 .. walk.n
       /\ walk.it \in items
       /\ Cardinality(From(walk.it)) = walk.n - walk.left + 1
       /\ walk.n <= Cardinality(Temps)
  /\ walk.kind = "destroy" => Depth > 0

IInv == StackInv /\ CallsInv /\ WalkInv

-----------------------------------------------------------------------------
\* The stack is a list in the sense of AklListProofs, and the other way round.
LEMMA StackIsList ==
  ASSUME StackInv
  PROVE  /\ Entries \in SUBSET Nat /\ NULL \notin Entries
         /\ heap \in LinksOf(Entries) /\ stack \in HeaderOf(Entries)
         /\ items \in SUBSET Entries /\ IsFiniteSet(items)
         /\ IsList(heap, stack, items) /\ EndsOf(stack.head, stack.last, items)
         /\ Joined(heap.nxt, heap.prv, items)
<1>1. MaxEntries \in Nat /\ made \in 0 .. MaxEntries
  BY BoundsAssumption DEF BoundsAssumption, StackInv
<1>2. Entries \in SUBSET Nat /\ NULL \notin Entries /\ Entries \cup {NULL} = Links
  BY <1>1 DEF Entries, NULL, Links
<1>3. heap \in LinksOf(Entries)
  BY <1>2 DEF StackInv, LinksOf
<1>4. stack \in HeaderOf(Entries)
  BY <1>2 DEF StackInv, HeaderOf, Header
<1>5. items \in SUBSET Entries
  <2>1. 1 .. made \subseteq Entries
    BY <1>1 DEF Entries
  <2>2. QED BY <2>1 DEF StackInv
<1>6. IsFiniteSet(items)
  <2>1. IsFiniteSet(1 .. made)
    BY <1>1, FS_Interval
  <2>2. QED BY <2>1, FS_Subset DEF StackInv
<1>7. EndsOf(stack.head, stack.last, items)
  BY DEF StackInv, Linked, Heads, EndsOf
<1>8. Joined(heap.nxt, heap.prv, items)
  BY DEF StackInv, Linked, Joined, NextIn, PrevIn
<1>9. stack.count = Cardinality(items)
  BY DEF StackInv, Linked
<1>10. QED BY <1>2, <1>3, <1>4, <1>5, <1>6, <1>7, <1>8, <1>9 DEF IsList

LEMMA ListIsStack ==
  ASSUME made' \in 0 .. MaxEntries, items' \in SUBSET (1 .. made'),
         heap' \in LinksOf(Entries), stack' \in HeaderOf(Entries),
         IsList(heap', stack', items'),
         \A e \in Entries : e > made' => heap'.nxt[e] = NULL /\ heap'.prv[e] = NULL
  PROVE  StackInv'
<1>1. Entries \cup {NULL} = Links
  BY BoundsAssumption DEF Entries, NULL, Links, BoundsAssumption
<1>2. heap' \in [nxt : [Entries -> Links], prv : [Entries -> Links]]
  BY <1>1 DEF LinksOf
<1>3. stack' \in Header
  BY <1>1 DEF HeaderOf, Header
<1>4. Linked'
  <2>1. Heads(stack', items')
    BY DEF IsList, Heads, EndsOf
  <2>2. stack'.count = Cardinality(items')
    BY DEF IsList
  <2>3. \A e \in items' : NextIn(heap'.nxt, items', e) /\ PrevIn(heap'.prv, items', e)
    BY DEF IsList, Joined
  <2>4. QED BY <2>1, <2>2, <2>3 DEF Linked, NextIn, PrevIn
<1>5. QED BY <1>2, <1>3, <1>4 DEF StackInv

\* akl_stack_push keeps the stack in order.
LEMMA PushKeepsStack ==
  ASSUME StackInv, PushEntry
  PROVE  StackInv' /\ made' = made + 1 /\ items' = items \cup {made + 1}
<1> DEFINE e == made + 1
           r == AppendEntry(heap, stack, e)
<1>1. /\ MaxEntries \in Nat /\ made \in 0 .. MaxEntries /\ made < MaxEntries
      /\ made' = e /\ heap' = r.h /\ stack' = r.l /\ items' = items \cup {e}
  BY BoundsAssumption DEF BoundsAssumption, StackInv, PushEntry
<1>2. e \in Entries /\ e \in 0 .. MaxEntries /\ e > made
  BY <1>1 DEF Entries
<1>3. items \in SUBSET (1 .. made)
  BY DEF StackInv
<1>4. \A x \in items : x < e
  BY <1>1, <1>3
<1>5. items' \in SUBSET (1 .. made')
  <2>1. 1 .. made \subseteq 1 .. e /\ e \in 1 .. e
    BY <1>1
  <2>2. QED BY <1>1, <1>3, <2>1
<1>6. heap.nxt[e] = NULL /\ heap.prv[e] = NULL
  BY <1>2 DEF StackInv
<1>7. /\ r.h \in LinksOf(Entries) /\ r.l \in HeaderOf(Entries)
      /\ IsList(r.h, r.l, items \cup {e})
      /\ \A x \in Entries \ (items \cup {e}) :
            r.h.nxt[x] = heap.nxt[x] /\ r.h.prv[x] = heap.prv[x]
  <2>1. r = AppendEntry(heap, stack, e)
    OBVIOUS
  <2>2. /\ Entries \in SUBSET Nat /\ NULL \notin Entries
        /\ heap \in LinksOf(Entries) /\ stack \in HeaderOf(Entries)
        /\ items \in SUBSET Entries /\ IsFiniteSet(items) /\ IsList(heap, stack, items)
    BY StackIsList
  <2> HIDE DEF r, e
  <2>3. QED BY <1>2, <1>4, <1>6, <2>1, <2>2, AppendKeepsList
<1>8. ASSUME NEW x \in Entries, x > made'
      PROVE  heap'.nxt[x] = NULL /\ heap'.prv[x] = NULL
  <2>1. x \in Nat /\ x > e /\ x > made
    BY <1>1, <1>8 DEF Entries
  <2>2. x \notin items \cup {e}
    BY <1>1, <1>3, <2>1
  <2>3. heap.nxt[x] = NULL /\ heap.prv[x] = NULL
    BY <2>1 DEF StackInv
  <2>4. QED BY <1>1, <1>7, <2>2, <2>3
<1>9. QED BY <1>1, <1>2, <1>5, <1>7, <1>8, ListIsStack

\* akl_list_remove_entry of an entry on the stack keeps it in order.
LEMMA RemoveKeepsStack ==
  ASSUME StackInv, NEW e \in items, made' = made, items' = items \ {e},
         heap' = RemoveEntry(heap, stack, e).h, stack' = RemoveEntry(heap, stack, e).l
  PROVE  StackInv'
<1> DEFINE r == RemoveEntry(heap, stack, e)
<1>1. /\ r.h \in LinksOf(Entries) /\ r.l \in HeaderOf(Entries)
      /\ IsList(r.h, r.l, items \ {e})
      /\ \A x \in Entries \ items : r.h.nxt[x] = heap.nxt[x] /\ r.h.prv[x] = heap.prv[x]
  <2>1. r = RemoveEntry(heap, stack, e)
    OBVIOUS
  <2>2. /\ Entries \in SUBSET Nat /\ NULL \notin Entries
        /\ heap \in LinksOf(Entries) /\ stack \in HeaderOf(Entries)
        /\ items \in SUBSET Entries /\ IsFiniteSet(items) /\ IsList(heap, stack, items)
    BY StackIsList
  <2> HIDE DEF r
  <2>3. QED BY <2>1, <2>2, RemoveKeepsList
<1>2. made' \in 0 .. MaxEntries /\ items' \in SUBSET (1 .. made')
  BY DEF StackInv
<1>3. ASSUME NEW x \in Entries, x > made'
      PROVE  heap'.nxt[x] = NULL /\ heap'.prv[x] = NULL
  <2>1. x \in Nat /\ made \in Nat /\ x > made
    BY <1>3 DEF Entries, StackInv
  <2>2. x \notin items
    BY <2>1 DEF StackInv
  <2>3. heap.nxt[x] = NULL /\ heap.prv[x] = NULL
    BY <2>1 DEF StackInv
  <2>4. QED BY <1>1, <2>2, <2>3
<1>4. QED BY <1>1, <1>2, <1>3, ListIsStack

-----------------------------------------------------------------------------
\* Nothing a call in progress may look at was touched: the calls stay as they are.
LEMMA CallsKept ==
  ASSUME CallsInv, StackInv, UNCHANGED <<frames, calls>>, made' \in Nat, made <= made',
         \A k \in 1 .. Depth, x \in items \cup items' :
            x <= calls[k].born => (x \in items <=> x \in items')
  PROVE  CallsInv'
<1>1. FramesLead'
  BY DEF CallsInv, FramesLead, Depth, Heads
<1>2. CallerUntouched'
  <2>1. SUFFICES ASSUME NEW k \in 1 .. Depth
                 PROVE  {x \in items' : x <= calls[k].born} = calls[k].below \cup calls[k].args
    BY DEF CallerUntouched, Depth
  <2>2. {x \in items' : x <= calls[k].born} = {x \in items : x <= calls[k].born}
    OBVIOUS
  <2>3. QED BY <2>2 DEF CallsInv, CallerUntouched
<1>3. Nested'
  <2>1. ASSUME NEW k \in 1 .. Depth PROVE calls[k].born <= made'
    <3>1. k \in 1 .. Len(calls)
      BY DEF CallsInv, Nested
    <3>2. calls[k] \in Call
      BY <3>1, ElementOfSeq DEF CallsInv
    <3>3. calls[k].born \in 0 .. MaxEntries /\ calls[k].born <= made
      BY <3>2 DEF Call, CallsInv, Nested
    <3>4. made \in Nat
      BY DEF StackInv
    <3>5. calls[k].born \in Nat
      BY <3>3
    <3>6. QED BY <3>3, <3>4, <3>5
  <2>2. QED BY <2>1 DEF CallsInv, Nested, Depth
<1>4. QED BY <1>1, <1>2, <1>3 DEF CallsInv

\* The innermost call: its arguments lie at the end of what was there when it began.
LEMMA TopCallArgs ==
  ASSUME StackInv, CallsInv, Depth > 0
  PROVE  /\ Depth \in Nat /\ Depth \in 1 .. Depth /\ Depth = Len(calls)
         /\ TopCall \in Call /\ Top \in Header
         /\ TopCall.args \subseteq items /\ Gapless(TopCall.args, items)
         /\ TopCall.args \cap TopCall.below = {}
         /\ Top.count = Cardinality(TopCall.args)
         /\ TopCall.args # {} => EndsOf(Top.head, Top.last, TopCall.args)
<1>1. Depth \in Nat /\ Depth \in 1 .. Depth /\ Depth = Len(calls)
  <2>1. Depth \in Nat
    BY LenProperties DEF CallsInv, Depth
  <2>2. QED BY <2>1 DEF CallsInv, Nested
<1>2. TopCall \in Call /\ Top \in Header
  BY <1>1, ElementOfSeq DEF CallsInv, TopCall, Top, Depth
<1>3. {x \in items : x <= TopCall.born} = TopCall.below \cup TopCall.args
  BY <1>1 DEF CallsInv, CallerUntouched, TopCall
<1>4. \A x \in TopCall.below, y \in TopCall.args : x < y
  BY <1>1 DEF CallsInv, Nested, TopCall
<1>5. /\ TopCall.args \subseteq items /\ TopCall.born \in Nat
      /\ \A x \in items : x \in Nat
  BY <1>2, <1>3 DEF Call, StackInv
<1>6. TopCall.args \cap TopCall.below = {}
  <2>1. SUFFICES ASSUME NEW x \in TopCall.args \cap TopCall.below PROVE FALSE
    OBVIOUS
  <2>2. x \in Nat /\ x < x
    BY <1>4, <1>5
  <2>3. QED BY <2>2
<1>7. Gapless(TopCall.args, items)
  <2>1. SUFFICES ASSUME NEW a \in TopCall.args, NEW b \in TopCall.args, NEW x \in items,
                        a <= x, x <= b
                 PROVE  x \in TopCall.args
    BY DEF Gapless
  <2>2. a \in Nat /\ b \in Nat /\ x \in Nat
    BY <1>5
  <2>3. b <= TopCall.born
    BY <1>3
  <2>4. x <= TopCall.born
    BY <1>5, <2>1, <2>2, <2>3
  <2>5. x \in TopCall.below \cup TopCall.args
    BY <1>3, <2>4
  <2>6. x \notin TopCall.below
    BY <1>4, <2>1, <2>2
  <2>7. QED BY <2>5, <2>6
<1>8. Top.count = Cardinality(TopCall.args)
  BY <1>1 DEF CallsInv, FramesLead, Top, TopCall
<1>9. TopCall.args # {} => EndsOf(Top.head, Top.last, TopCall.args)
  BY <1>1 DEF CallsInv, FramesLead, Top, TopCall, Heads, EndsOf
<1>10. QED BY <1>1, <1>2, <1>5, <1>6, <1>7, <1>8, <1>9

\* The innermost call began last.
LEMMA BornIsNumber ==
  ASSUME StackInv, CallsInv
  PROVE  Born \in Nat
<1>1. CASE calls = <<>>
  BY <1>1 DEF Born
<1>2. CASE calls # <<>>
  <2>1. Depth > 0
    BY <1>2, EmptySeq, LenProperties DEF CallsInv, Nested
  <2>2. TopCall \in Call
    BY <2>1, TopCallArgs
  <2>3. QED BY <1>2, <2>2 DEF Born, Call
<1>3. QED BY <1>1, <1>2

LEMMA BornLeads ==
  ASSUME StackInv, CallsInv, NEW k \in 1 .. Depth
  PROVE  calls[k].born <= Born /\ calls[k].born \in Nat /\ Born \in Nat
<1>1. Depth \in Nat /\ Depth > 0
  BY LenProperties DEF CallsInv, Depth
<1>2. Depth \in 1 .. Depth /\ Depth = Len(calls)
  BY <1>1, TopCallArgs
<1>3. Born = calls[Depth].born /\ Born \in Nat
  <2>1. calls # <<>>
    BY <1>1, <1>2, EmptySeq
  <2>2. QED BY <1>2, <2>1, BornIsNumber DEF Born, TopCall
<1>4. calls[k].born \in Nat
  <2>1. calls[k] \in Call
    BY <1>2, ElementOfSeq DEF CallsInv
  <2>2. QED BY <2>1 DEF Call
<1>5. CASE k = Depth
  BY <1>3, <1>4, <1>5
<1>6. CASE k # Depth
  <2>1. k < Depth
    BY <1>1, <1>6
  <2>2. calls[k].born <= calls[Depth].born
    BY <1>2, <2>1 DEF CallsInv, Nested
  <2>3. QED BY <1>3, <1>4, <2>2
<1>7. QED BY <1>5, <1>6

\* Argument e was taken from the innermost call, whose frame header is now f.
LEMMA TakeKeepsCalls ==
  ASSUME StackInv, CallsInv, Depth > 0, NEW e \in TopCall.args,
         NEW f \in Header, f.count = Cardinality(TopCall.args \ {e}),
         TopCall.args \ {e} # {} => Heads(f, TopCall.args \ {e}),
         frames' = [frames EXCEPT ![Depth] = f],
         calls' = [calls EXCEPT ![Depth].args = @ \ {e}],
         items' = items \ {e}, made' = made
  PROVE  CallsInv'
<1> DEFINE c == [TopCall EXCEPT !.args = @ \ {e}]
<1>1. /\ Depth \in Nat /\ Depth \in 1 .. Depth /\ Depth = Len(calls) /\ Depth = Len(frames)
      /\ TopCall \in Call /\ TopCall.args \subseteq items
      /\ TopCall.args \cap TopCall.below = {}
  BY TopCallArgs DEF Depth
<1>2. /\ c \in Call /\ c.args = TopCall.args \ {e} /\ c.below = TopCall.below
      /\ c.born = TopCall.born
  BY <1>1 DEF Call
<1>3. calls' = [calls EXCEPT ![Depth] = c]
  BY <1>1 DEF TopCall
<1>4. /\ frames' \in Seq(Header) /\ Len(frames') = Depth /\ frames'[Depth] = f
      /\ \A k \in 1 .. Depth : k # Depth => frames'[k] = frames[k]
  BY <1>1, ExceptSeq DEF CallsInv
<1>5. /\ calls' \in Seq(Call) /\ Len(calls') = Depth /\ calls'[Depth] = c
      /\ \A k \in 1 .. Depth : k # Depth => calls'[k] = calls[k]
  <2>1. calls \in Seq(Call) /\ Depth \in 1 .. Len(calls) /\ c \in Call
    BY <1>1, <1>2 DEF CallsInv
  <2> HIDE DEF c
  <2>2. /\ calls' \in Seq(Call) /\ Len(calls') = Len(calls)
        /\ \A j \in 1 .. Len(calls) : calls'[j] = IF j = Depth THEN c ELSE calls[j]
    <3>1. /\ [calls EXCEPT ![Depth] = c] \in Seq(Call)
          /\ Len([calls EXCEPT ![Depth] = c]) = Len(calls)
          /\ \A j \in 1 .. Len(calls) :
                [calls EXCEPT ![Depth] = c][j] = IF j = Depth THEN c ELSE calls[j]
      BY ONLY <2>1, ExceptSeq
    <3>2. QED BY <1>3, <3>1, Zenon
  <2>3. QED BY <1>1, <2>2
<1>6. Depth' = Depth
  BY <1>4 DEF Depth
<1> HIDE DEF c
<1>7. FramesLead'
  <2>1. SUFFICES ASSUME NEW k \in 1 .. Depth
                 PROVE  /\ frames'[k].count = Cardinality(calls'[k].args)
                        /\ calls'[k].args # {} => Heads(frames'[k], calls'[k].args)
    BY <1>6 DEF FramesLead, Heads
  <2>2. CASE k = Depth
    BY <1>2, <1>4, <1>5, <2>2
  <2>3. CASE k # Depth
    BY <1>4, <1>5, <2>3 DEF CallsInv, FramesLead
  <2>4. QED BY <2>2, <2>3
<1>8. CallerUntouched'
  <2>1. SUFFICES ASSUME NEW k \in 1 .. Depth
                 PROVE  {x \in items' : x <= calls'[k].born}
                          = calls'[k].below \cup calls'[k].args
    BY <1>6 DEF CallerUntouched
  <2>2. {x \in items : x <= calls[k].born} = calls[k].below \cup calls[k].args
    BY DEF CallsInv, CallerUntouched
  <2>3. CASE k = Depth
    <3>1. {x \in items : x <= TopCall.born} = TopCall.below \cup TopCall.args
      BY <2>2, <2>3 DEF TopCall
    <3>2. e \notin TopCall.below
      BY <1>1
    <3>3. {x \in items' : x <= TopCall.born} = TopCall.below \cup (TopCall.args \ {e})
      BY <3>1, <3>2
    <3>4. QED BY <1>2, <1>5, <2>3, <3>3
  <2>4. CASE k # Depth
    <3>1. k < Depth /\ k \in 1 .. Depth
      BY <1>1, <2>4
    <3>2. e > calls[k].born
      BY <1>1, <3>1 DEF CallsInv, Nested, TopCall
    <3>3. e \in Nat /\ calls[k].born \in Nat
      <4>1. calls[k] \in Call
        BY <1>1, ElementOfSeq DEF CallsInv
      <4>2. QED BY <1>1, <4>1 DEF Call, StackInv
    <3>4. ~(e <= calls[k].born)
      BY <3>2, <3>3
    <3>5. {x \in items' : x <= calls[k].born} = {x \in items : x <= calls[k].born}
      BY <3>4
    <3>6. QED BY <1>5, <2>2, <2>4, <3>5
  <2>5. QED BY <2>3, <2>4
<1>9. Nested'
  <2>1. ASSUME NEW k \in 1 .. Depth
        PROVE  /\ calls'[k].born = calls[k].born /\ calls'[k].below = calls[k].below
               /\ calls'[k].args \subseteq calls[k].args
    <3>1. CASE k = Depth
      BY <1>2, <1>5, <3>1 DEF TopCall
    <3>2. CASE k # Depth
      BY <1>5, <3>2
    <3>3. QED BY <3>1, <3>2
  <2>2. \A k \in 1 .. Depth :
          /\ calls'[k].born <= made'
          /\ \A x \in calls'[k].below, y \in calls'[k].args : x < y
    BY <2>1 DEF CallsInv, Nested
  <2>3. \A j, k \in 1 .. Depth :
          j < k => /\ calls'[j].born <= calls'[k].born
                   /\ \A x \in calls'[k].args : x > calls'[j].born
    BY <2>1 DEF CallsInv, Nested
  <2>4. QED BY <1>5, <1>6, <2>2, <2>3 DEF Nested
<1>10. QED BY <1>4, <1>5, <1>7, <1>8, <1>9 DEF CallsInv

\* A step of a loop that only moves its cursor.
LEMMA SameKept ==
  ASSUME StackInv, CallsInv, UNCHANGED <<made, heap, stack, frames, items, calls>>
  PROVE  StackInv' /\ CallsInv'
<1>1. StackInv'
  BY DEF StackInv, Linked, Heads
<1>2. made \in Nat
  BY DEF StackInv
<1>3. CallsInv'
  BY <1>2, CallsKept
<1>4. QED BY <1>1, <1>3

\* akl_frame_pop takes the last argument, or nothing.
LEMMA FramePopKeeps ==
  ASSUME StackInv, CallsInv, ret \in Links, Depth > 0, FramePop
  PROVE  StackInv' /\ CallsInv' /\ ret' \in Links /\ Depth' = Depth
<1>1. CASE NoArg
  <2>1. UNCHANGED <<made, heap, stack, frames, items, calls>> /\ ret' = NULL
    BY <1>1 DEF FramePop, None
  <2>2. QED BY <2>1, SameKept, BoundsAssumption DEF Links, NULL, BoundsAssumption, Depth
<1>2. CASE ~NoArg
  <2> DEFINE A == TopCall.args
             e == Top.last
             s == RemoveEntry(heap, Top, e)
  <2>1. /\ Depth \in Nat /\ Depth \in 1 .. Depth /\ Depth = Len(calls)
        /\ TopCall \in Call /\ Top \in Header
        /\ A \subseteq items /\ Gapless(A, items) /\ Top.count = Cardinality(A)
        /\ A # {} => EndsOf(Top.head, Top.last, A)
    BY TopCallArgs
  <2>2. A # {}
    BY <1>2, <2>1, FS_EmptySet DEF NoArg
  <2>3. e \in A /\ e \in items
    BY <2>1, <2>2 DEF EndsOf
  <2>4. Take(s.h, s.l, e)
    BY <1>2 DEF FramePop
  <2>5. /\ Entries \in SUBSET Nat /\ NULL \notin Entries
        /\ heap \in LinksOf(Entries) /\ items \in SUBSET Entries /\ IsFiniteSet(items)
        /\ Joined(heap.nxt, heap.prv, items)
    BY StackIsList
  <2>6. RemoveEntry(s.h, stack, e) = RemoveEntry(heap, stack, e)
    <3> HIDE DEF e
    <3>1. QED BY <2>3, <2>5, RemoveTwice
  <2>7. /\ heap' = RemoveEntry(heap, stack, e).h /\ stack' = RemoveEntry(heap, stack, e).l
        /\ frames' = [frames EXCEPT ![Depth] = s.l] /\ ret' = e /\ items' = items \ {e}
        /\ calls' = [calls EXCEPT ![Depth].args = @ \ {e}] /\ made' = made
    <3> HIDE DEF s, e
    <3>1. QED BY <2>4, <2>6 DEF Take
  <2>8. StackInv'
    <3> HIDE DEF e
    <3>1. QED BY <2>3, <2>7, RemoveKeepsStack
  <2>9. s.l = [head |-> IF Top.head = e THEN heap.nxt[e] ELSE Top.head,
               last |-> heap.prv[e], count |-> Top.count - 1, nil |-> Top.nil]
    BY DEF RemoveEntry
  <2>10. /\ IsFiniteSet(A) /\ Cardinality(A \ {e}) = Cardinality(A) - 1
         /\ Cardinality(A \ {e}) \in Nat
    <3>1. IsFiniteSet(A) /\ IsFiniteSet(A \ {e})
      BY <2>1, <2>5, FS_Subset
    <3>2. QED BY <2>3, <3>1, FS_RemoveElement, FS_CardinalityType
  <2>11. s.l.count = Cardinality(A \ {e}) /\ s.l \in Header
    <3>1. heap.nxt[e] \in Links /\ heap.prv[e] \in Links
      BY <2>3, <2>5 DEF StackInv
    <3>2. Top.count - 1 \in Nat /\ Top.head \in Links
      BY <2>1, <2>10 DEF Header
    <3>3. QED BY <2>1, <2>9, <2>10, <3>1, <3>2 DEF Header
  <2>12. A \ {e} # {} => Heads(s.l, A \ {e})
    <3>1. SUFFICES ASSUME A \ {e} # {} PROVE Heads(s.l, A \ {e})
      OBVIOUS
    <3>2. items \in SUBSET Nat /\ NULL \notin items
      BY <2>5
    <3>3. /\ Top.head = e => heap.nxt[e] \in A \ {e} /\ \A x \in A \ {e} : heap.nxt[e] <= x
          /\ heap.prv[e] \in A \ {e} /\ \A x \in A \ {e} : x <= heap.prv[e]
          /\ Top.head # e => Top.head \in A \ {e} /\ \A x \in A \ {e} : Top.head <= x
      <4>1. e = Top.last
        OBVIOUS
      <4> HIDE DEF A, e
      <4>2. QED BY <2>1, <2>3, <2>5, <3>1, <3>2, <4>1, EndsByRemove
    <3>4. QED BY <2>9, <3>1, <3>3 DEF Heads
  <2>13. CallsInv'
    <3> HIDE DEF e, s
    <3>1. QED BY <2>3, <2>7, <2>11, <2>12, TakeKeepsCalls
  <2>14. Depth' = Depth
    BY <2>1, <2>7, ExceptSeq DEF CallsInv, Depth
  <2>15. ret' \in Links
    BY <2>3, <2>5, <2>7 DEF Links, Entries
  <2>16. QED BY <2>8, <2>13, <2>14, <2>15
<1>3. QED BY <1>1, <1>2

\* akl_frame_shift takes the first argument, or nothing.
LEMMA ShiftKeeps ==
  ASSUME IInv, Shift
  PROVE  StackInv' /\ CallsInv' /\ ret' \in Links
<1>0. StackInv /\ CallsInv /\ WalkInv /\ Depth > 0
  BY DEF IInv, Shift, InCall
<1>1. CASE Top.count = 0
  <2>1. UNCHANGED <<made, heap, stack, frames, items, calls>> /\ ret' = NULL
    BY <1>1 DEF Shift, None
  <2>2. QED BY <1>0, <2>1, SameKept, BoundsAssumption DEF Links, NULL, BoundsAssumption
<1>2. CASE Top.count # 0
  <2> DEFINE A == TopCall.args
             e == Top.head
             s == ShiftEntry(heap, Top)
  <2>1. /\ Depth \in Nat /\ Depth \in 1 .. Depth /\ Depth = Len(calls)
        /\ TopCall \in Call /\ Top \in Header
        /\ A \subseteq items /\ Gapless(A, items) /\ Top.count = Cardinality(A)
        /\ A # {} => EndsOf(Top.head, Top.last, A)
    BY <1>0, TopCallArgs
  <2>2. A # {}
    BY <1>2, <2>1, FS_EmptySet
  <2>3. e \in A /\ e \in items
    BY <2>1, <2>2 DEF EndsOf
  <2>4. Take(s.h, s.l, e)
    BY <1>2 DEF Shift
  <2>5. /\ Entries \in SUBSET Nat /\ NULL \notin Entries
        /\ heap \in LinksOf(Entries) /\ items \in SUBSET Entries /\ IsFiniteSet(items)
        /\ Joined(heap.nxt, heap.prv, items)
    BY <1>0, StackIsList
  <2>6. RemoveEntry(s.h, stack, e) = RemoveEntry(heap, stack, e)
    BY <2>3, <2>5, ShiftThenRemove
  <2>7. /\ heap' = RemoveEntry(heap, stack, e).h /\ stack' = RemoveEntry(heap, stack, e).l
        /\ frames' = [frames EXCEPT ![Depth] = s.l] /\ ret' = e /\ items' = items \ {e}
        /\ calls' = [calls EXCEPT ![Depth].args = @ \ {e}] /\ made' = made
    <3> HIDE DEF s, e
    <3>1. QED BY <2>4, <2>6 DEF Take
  <2>8. StackInv'
    <3> HIDE DEF e
    <3>1. QED BY <1>0, <2>3, <2>7, RemoveKeepsStack
  <2>9. s.l = [head |-> heap.nxt[e],
               last |-> IF e = Top.last THEN heap.nxt[e] ELSE Top.last,
               count |-> Top.count - 1, nil |-> Top.nil]
    BY DEF ShiftEntry
  <2>10. /\ IsFiniteSet(A) /\ Cardinality(A \ {e}) = Cardinality(A) - 1
         /\ Cardinality(A \ {e}) \in Nat
    <3>1. IsFiniteSet(A) /\ IsFiniteSet(A \ {e})
      BY <2>1, <2>5, FS_Subset
    <3>2. QED BY <2>3, <3>1, FS_RemoveElement, FS_CardinalityType
  <2>11. s.l.count = Cardinality(A \ {e}) /\ s.l \in Header
    <3>1. heap.nxt[e] \in Links
      BY <1>0, <2>3, <2>5 DEF StackInv
    <3>2. Top.count - 1 \in Nat /\ Top.last \in Links
      BY <2>1, <2>10 DEF Header
    <3>3. QED BY <2>1, <2>9, <2>10, <3>1, <3>2 DEF Header
  <2>12. A \ {e} # {} => Heads(s.l, A \ {e})
    <3>1. SUFFICES ASSUME A \ {e} # {} PROVE Heads(s.l, A \ {e})
      OBVIOUS
    <3>2. items \in SUBSET Nat /\ NULL \notin items
      BY <2>5
    <3>3. /\ heap.nxt[e] \in A \ {e} /\ \A x \in A \ {e} : heap.nxt[e] <= x
          /\ Top.last # e => Top.last \in A \ {e} /\ \A x \in A \ {e} : x <= Top.last
      <4>1. e = Top.head /\ EndsOf(Top.head, Top.last, A) /\ A \in SUBSET items
        BY <2>1, <2>2
      <4> HIDE DEF A, e
      <4>2. Gapless(A, items) /\ Joined(heap.nxt, heap.prv, items)
        BY <2>1, <2>5
      <4>3. QED BY <2>3, <3>1, <3>2, <4>1, <4>2, EndsByRemove
    <3>4. Top.last # e
      <4>1. SUFFICES ASSUME Top.last = e PROVE FALSE
        OBVIOUS
      <4>2. \A x \in A : x \in Nat /\ e <= x /\ x <= e
        BY <2>1, <2>2, <3>2, <4>1 DEF EndsOf
      <4>3. \A x \in A : x = e
        BY <2>3, <4>2
      <4>4. QED BY <3>1, <4>3
    <3>5. QED BY <2>9, <3>1, <3>3, <3>4 DEF Heads
  <2>13. CallsInv'
    <3> HIDE DEF e, s
    <3>1. QED BY <1>0, <2>3, <2>7, <2>11, <2>12, TakeKeepsCalls
  <2>14. ret' \in Links
    BY <2>3, <2>5, <2>7 DEF Links, Entries
  <2>15. QED BY <2>8, <2>13, <2>14
<1>3. QED BY <1>1, <1>2

\* A value pushed is above everything the calls in progress may look at.
LEMMA PushKeeps ==
  ASSUME StackInv, CallsInv, PushEntry, UNCHANGED <<frames, calls>>
  PROVE  StackInv' /\ CallsInv'
<1>1. StackInv' /\ made' = made + 1 /\ items' = items \cup {made + 1}
  BY PushKeepsStack
<1>2. made \in Nat /\ made' \in Nat /\ made <= made'
  BY <1>1 DEF StackInv
<1>3. ASSUME NEW k \in 1 .. Depth, NEW x \in items \cup items', x <= calls[k].born
      PROVE  x \in items <=> x \in items'
  <2>1. calls[k] \in Call /\ calls[k].born <= made
    BY ElementOfSeq DEF CallsInv, Nested
  <2>2. calls[k].born \in Nat
    BY <2>1 DEF Call
  <2>3. made + 1 # x
    BY <1>2, <1>3, <2>1, <2>2
  <2>4. QED BY <1>1, <2>3
<1>4. CallsInv'
  BY <1>2, <1>3, CallsKept
<1>5. QED BY <1>1, <1>4

\* akl_stack_pop takes a value the code on top pushed, never one of its callers.
LEMMA PopKeeps ==
  ASSUME StackInv, CallsInv, Pop
  PROVE  StackInv' /\ CallsInv' /\ ret' \in Links
<1>1. /\ heap' = RemoveEntry(heap, stack, stack.last).h
      /\ stack' = RemoveEntry(heap, stack, stack.last).l
      /\ ret' = stack.last /\ items' = items \ {stack.last} /\ made' = made
      /\ UNCHANGED <<frames, calls>> /\ Temps # {}
  BY DEF Pop
<1>2. items # {} /\ items \in SUBSET Nat /\ made \in Nat
  BY <1>1 DEF Temps, StackInv
<1>3. EndsOf(stack.head, stack.last, items)
  BY StackIsList
<1>4. stack.last \in items /\ \A x \in items : x <= stack.last
  BY <1>2, <1>3 DEF EndsOf
<1>5. StackInv'
  BY <1>1, <1>4, RemoveKeepsStack
<1>6. stack.last > Born
  <2>1. PICK x \in items : x > Born
    BY <1>1 DEF Temps
  <2>2. x \in Nat /\ stack.last \in Nat /\ x <= stack.last
    BY <1>2, <1>4, <2>1
  <2>3. Born \in Nat
    BY BornIsNumber
  <2>4. QED BY <2>1, <2>2, <2>3
<1>7. \A k \in 1 .. Depth : calls[k].born <= Born /\ calls[k].born \in Nat /\ Born \in Nat
  BY BornLeads
<1>8. ASSUME NEW k \in 1 .. Depth, NEW x \in items \cup items', x <= calls[k].born
      PROVE  x \in items <=> x \in items'
  <2>1. x \in Nat /\ stack.last \in Nat
    BY <1>1, <1>2, <1>4
  <2>2. x # stack.last
    BY <1>6, <1>7, <1>8, <2>1
  <2>3. QED BY <1>1, <2>2
<1>9. CallsInv'
  BY <1>1, <1>2, <1>8, CallsKept
<1>10. ret' \in Links
  BY <1>1 DEF StackInv, Header
<1>11. QED BY <1>5, <1>9, <1>10

-----------------------------------------------------------------------------
\* The entry akl_init_frame starts at, when there are arguments: the top.
LEMMA CallBeginKeeps ==
  ASSUME IInv, NEW n \in 0 .. MaxArgs, NEW f \in {"lisp", "c"}, CallBegin(n, f)
  PROVE  WalkInv'
<1>1. /\ n <= Cardinality(Temps) /\ UNCHANGED <<frames, items, calls, ret, made>>
      /\ walk' = [kind |-> "frame", it |-> stack.last, left |-> n, n |-> n, fun |-> f]
  BY DEF CallBegin
<1>2. walk' \in [kind : {"idle", "frame", "load", "destroy"}, it : Links,
                 left : Int, n : 0 .. MaxArgs, fun : {"lisp", "c"}]
  <2>1. stack.last \in Links
    BY DEF IInv, StackInv, Header
  <2>2. n \in Int
    OBVIOUS
  <2>3. QED BY <1>1, <2>1, <2>2
<1>3. ASSUME n > 0
      PROVE  /\ n \in 1 .. n /\ stack.last \in items
             /\ Cardinality(From(stack.last)) = 1
  <2>1. IsFiniteSet(items) /\ items \in SUBSET Nat /\ EndsOf(stack.head, stack.last, items)
    BY StackIsList DEF IInv
  <2>2. Temps # {}
    BY <1>1, <1>3, FS_EmptySet
  <2>3. stack.last \in items /\ \A x \in items : x <= stack.last
    BY <2>1, <2>2 DEF Temps, EndsOf
  <2>4. From(stack.last) = {stack.last}
    <3>1. \A x \in items : x \in Nat
      BY <2>1
    <3>2. stack.last \in Nat
      BY <2>3, <3>1
    <3>3. \A x \in items : x >= stack.last <=> x = stack.last
      BY <2>3, <3>1, <3>2
    <3>4. QED BY <2>3, <3>3 DEF From
  <2>5. QED BY <1>3, <2>3, <2>4, FS_Singleton
<1>4. Temps' = Temps /\ items' = items
  BY <1>1 DEF Temps, Born, TopCall, Depth
<1>5. walk'.kind = "frame" /\ walk'.it = stack.last /\ walk'.left = n /\ walk'.n = n
  BY <1>1
<1>6. walk'.n > 0 =>
        /\ walk'.left \in 1 .. walk'.n /\ walk'.it \in items'
        /\ Cardinality({x \in items' : x >= walk'.it}) = walk'.n - walk'.left + 1
        /\ walk'.n <= Cardinality(Temps')
  <2>1. SUFFICES ASSUME n > 0
                 PROVE  /\ n \in 1 .. n /\ stack.last \in items
                        /\ Cardinality(From(stack.last)) = n - n + 1
                        /\ n <= Cardinality(Temps)
    BY <1>4, <1>5 DEF From
  <2>2. n - n + 1 = 1
    OBVIOUS
  <2>3. QED BY <1>1, <1>3, <2>1, <2>2
<1>7. ret' \in Links
  BY <1>1 DEF IInv, WalkInv
<1>8. QED BY <1>2, <1>5, <1>6, <1>7 DEF WalkInv, From

\* One more turn of akl_init_frame finds one more argument.
LEMMA CallBackKeeps ==
  ASSUME IInv, CallBack
  PROVE  WalkInv'
<1>1. /\ walk.kind = "frame" /\ walk.left - 1 # 0 /\ walk.it # NULL
      /\ heap.prv[walk.it] # NULL
      /\ walk' = [walk EXCEPT !.it = heap.prv[walk.it], !.left = @ - 1]
      /\ UNCHANGED <<frames, items, calls, ret, made>>
  BY DEF CallBack, BackAgain
<1>2. walk \in [kind : {"idle", "frame", "load", "destroy"}, it : Links,
                left : Int, n : 0 .. MaxArgs, fun : {"lisp", "c"}]
  BY DEF IInv, WalkInv
<1>3. /\ walk'.kind = walk.kind /\ walk'.it = heap.prv[walk.it]
      /\ walk'.left = walk.left - 1 /\ walk'.n = walk.n
  BY <1>1, <1>2
<1>4. walk.it \in Entries /\ heap.prv[walk.it] \in Links
  <2>1. walk.it \in Entries
    BY <1>1, <1>2, BoundsAssumption DEF Links, Entries, NULL, BoundsAssumption
  <2>2. QED BY <2>1 DEF IInv, StackInv
<1>5. walk' \in [kind : {"idle", "frame", "load", "destroy"}, it : Links,
                 left : Int, n : 0 .. MaxArgs, fun : {"lisp", "c"}]
  <2>1. walk' = [kind |-> walk.kind, it |-> heap.prv[walk.it], left |-> walk.left - 1,
                 n |-> walk.n, fun |-> walk.fun]
    BY <1>1, <1>2
  <2>2. walk.left - 1 \in Int
    BY <1>2
  <2>3. QED BY <1>2, <1>4, <2>1, <2>2
<1>6. Temps' = Temps /\ items' = items
  BY <1>1 DEF Temps, Born, TopCall, Depth
<1>7. ASSUME walk.n > 0
      PROVE  /\ walk.left - 1 \in 1 .. walk.n /\ heap.prv[walk.it] \in items
             /\ Cardinality(From(heap.prv[walk.it])) = walk.n - (walk.left - 1) + 1
             /\ walk.n <= Cardinality(Temps)
  <2> DEFINE e == walk.it
             p == heap.prv[e]
  <2>1. /\ walk.left \in 1 .. walk.n /\ e \in items
        /\ Cardinality(From(e)) = walk.n - walk.left + 1
        /\ walk.n <= Cardinality(Temps)
    BY <1>1, <1>7 DEF IInv, WalkInv
  <2>2. walk.n \in Nat /\ walk.left \in Nat
    BY <1>2, <2>1
  <2>3. /\ IsFiniteSet(items) /\ items \in SUBSET Nat /\ NULL \notin items
        /\ Joined(heap.nxt, heap.prv, items)
    BY StackIsList DEF IInv
  <2>4. p \in items \ {e} /\ p \in Nat /\ p < e /\ \A x \in items : x <= p \/ e <= x
    <3>1. p # NULL
      BY <1>1
    <3> HIDE DEF p
    <3>2. p = heap.prv[e]
      BY DEF p
    <3> HIDE DEF e
    <3>3. QED BY <2>1, <2>3, <3>1, <3>2, Neighbours
  <2>5. From(p) = From(e) \cup {p} /\ p \notin From(e)
    BY <2>1, <2>3, <2>4 DEF From
  <2>6. IsFiniteSet(From(e))
    BY <2>3, FS_Subset DEF From
  <2>7. Cardinality(From(p)) = Cardinality(From(e)) + 1
    BY <2>5, <2>6, FS_AddElement
  <2>8. walk.left - 1 \in 1 .. walk.n
    BY <1>1, <2>1, <2>2
  <2>9. Cardinality(From(p)) = walk.n - (walk.left - 1) + 1
    BY <2>1, <2>2, <2>7
  <2>10. QED BY <2>1, <2>4, <2>8, <2>9
<1>8. walk'.n > 0 =>
        /\ walk'.left \in 1 .. walk'.n /\ walk'.it \in items'
        /\ Cardinality({x \in items' : x >= walk'.it}) = walk'.n - walk'.left + 1
        /\ walk'.n <= Cardinality(Temps')
  BY <1>3, <1>6, <1>7 DEF From
<1>9. ret' \in Links
  BY <1>1 DEF IInv, WalkInv
<1>10. QED BY <1>1, <1>3, <1>5, <1>8, <1>9 DEF WalkInv, From

\* Where akl_init_frame ends, the entries from the cursor on are as many as the
\* call has arguments, and its caller pushed all of them.
LEMMA FoundAll ==
  ASSUME IInv, walk.kind = "frame", ~BackAgain, walk.n > 0
  PROVE  /\ walk.it \in items /\ Cardinality(From(walk.it)) = walk.n
         /\ From(walk.it) \subseteq Temps
<1> DEFINE e == walk.it
<1>1. /\ walk.left \in 1 .. walk.n /\ e \in items
      /\ Cardinality(From(e)) = walk.n - walk.left + 1
      /\ walk.n <= Cardinality(Temps)
  BY DEF IInv, WalkInv
<1>2. walk.n \in Nat /\ walk.left \in Nat
  BY <1>1 DEF IInv, WalkInv
<1>3. /\ IsFiniteSet(items) /\ items \in SUBSET Nat /\ NULL \notin items
      /\ Joined(heap.nxt, heap.prv, items)
  BY StackIsList DEF IInv
<1>4. /\ IsFiniteSet(From(e)) /\ IsFiniteSet(Temps)
      /\ Cardinality(From(e)) \in Nat /\ Cardinality(Temps) \in Nat
      /\ Temps \subseteq items
  BY <1>3, FS_Subset, FS_CardinalityType DEF From, Temps
<1>5. Cardinality(From(e)) = walk.n
  <2>1. walk.left - 1 = 0 \/ heap.prv[e] = NULL
    <3>1. e # NULL
      BY <1>1, <1>3
    <3>2. QED BY <3>1 DEF BackAgain
  <2>2. CASE walk.left - 1 = 0
    BY <1>1, <1>2, <2>2
  <2>3. CASE heap.prv[e] = NULL
    <3>1. \A x \in items : e <= x
      <4> HIDE DEF e
      <4>1. QED BY <1>1, <1>3, <2>3, Neighbours
    <3>2. From(e) = items
      BY <1>1, <1>3, <3>1 DEF From
    <3>3. Cardinality(Temps) <= Cardinality(From(e))
      BY <1>3, <1>4, <3>2, FS_Subset
    <3>4. QED BY <1>1, <1>2, <1>4, <3>3
  <2>4. QED BY <2>1, <2>2, <2>3
<1>6. From(e) \subseteq Temps
  <2>1. SUFFICES ASSUME NEW x \in From(e), x \notin Temps PROVE FALSE
    OBVIOUS
  <2>2. x \in items /\ x \in Nat /\ e \in Nat /\ e <= x /\ ~(x > Born)
    BY <1>1, <1>3, <2>1 DEF From, Temps
  <2>3. Temps \subseteq From(e) \ {x}
    <3>1. SUFFICES ASSUME NEW y \in Temps PROVE y \in From(e) \ {x}
      OBVIOUS
    <3>2. y \in items /\ y \in Nat /\ y > Born
      BY <1>3 DEF Temps
    <3>3. Born \in Nat
      BY BornIsNumber DEF IInv
    <3>4. y >= e /\ y # x
      BY <2>2, <3>2, <3>3
    <3>5. QED BY <3>2, <3>4 DEF From
  <2>4. /\ IsFiniteSet(From(e) \ {x})
        /\ Cardinality(From(e) \ {x}) = Cardinality(From(e)) - 1
    BY <1>4, <2>1, FS_RemoveElement
  <2>5. Cardinality(Temps) <= Cardinality(From(e) \ {x})
    BY <2>3, <2>4, FS_Subset
  <2>6. QED BY <1>1, <1>4, <1>5, <2>4, <2>5
<1>7. QED BY <1>1, <1>5, <1>6

\* akl_init_frame ends: the new call is framed, its callers stay as they are.
LEMMA CallMadeKeeps ==
  ASSUME IInv, CallMade
  PROVE  CallsInv'
<1> DEFINE A == IF walk.n = 0 THEN {} ELSE From(walk.it)
           f == [head |-> walk.it, last |-> stack.last, count |-> walk.n, nil |-> FALSE]
           c == [args |-> A, below |-> items \ A, born |-> made, kind |-> walk.fun]
<1>1. /\ walk.kind = "frame" /\ ~BackAgain /\ frames' = Append(frames, f)
      /\ calls' = Append(calls, c) /\ UNCHANGED <<made, items>>
  BY DEF CallMade, From
<1>2. /\ walk.it \in Links /\ walk.n \in 0 .. MaxArgs /\ walk.n \in Nat
      /\ walk.fun \in {"lisp", "c"}
  BY BoundsAssumption DEF IInv, WalkInv, BoundsAssumption
<1>3. /\ items \in SUBSET Entries /\ items \in SUBSET Nat /\ IsFiniteSet(items)
      /\ EndsOf(stack.head, stack.last, items)
  BY StackIsList DEF IInv
<1>4. made \in 0 .. MaxEntries /\ made \in Nat /\ \A x \in items : x <= made
  BY DEF IInv, StackInv
<1>5. A \subseteq items /\ Cardinality(A) = walk.n
  <2>1. CASE walk.n = 0
    BY <2>1, FS_EmptySet
  <2>2. CASE walk.n # 0
    BY <1>1, <1>2, <2>2, FoundAll DEF From
  <2>3. QED BY <2>1, <2>2
<1>6. f \in Header
  BY <1>2 DEF IInv, StackInv, Header
<1>7. c \in Call
  <2>1. A \in SUBSET Entries /\ items \ A \in SUBSET Entries
    BY <1>3, <1>5
  <2> HIDE DEF A
  <2>2. QED BY <1>2, <1>4, <2>1 DEF Call
<1>8. A # {} => Heads(f, A)
  <2>1. SUFFICES ASSUME A # {} PROVE Heads(f, A)
    OBVIOUS
  <2>2. walk.n # 0 /\ walk.n > 0
    BY <1>2, <2>1
  <2>3. walk.it \in items /\ walk.it \in Nat /\ A = From(walk.it)
    BY <1>1, <1>3, <2>2, FoundAll
  <2>4. stack.last \in items /\ \A x \in items : x <= stack.last
    BY <1>3, <2>3 DEF EndsOf
  <2>5. walk.it \in A /\ stack.last \in A
    BY <1>3, <2>3, <2>4 DEF From
  <2>6. /\ \A x \in A : walk.it <= x
        /\ \A x \in A : x <= stack.last
    BY <1>3, <2>3, <2>4 DEF From
  <2>7. f.head = walk.it /\ f.last = stack.last
    OBVIOUS
  <2> HIDE DEF A, f
  <2>8. QED BY <2>1, <2>5, <2>6, <2>7 DEF Heads
<1>9. \A x \in items \ A, y \in A : x < y
  <2>1. SUFFICES ASSUME NEW x \in items \ A, NEW y \in A PROVE x < y
    OBVIOUS
  <2>2. walk.n # 0 /\ walk.n > 0
    BY <1>2
  <2>3. walk.it \in items /\ walk.it \in Nat /\ A = From(walk.it)
    BY <1>1, <1>3, <2>2, FoundAll
  <2>4. x \in Nat /\ y \in Nat /\ y >= walk.it /\ ~(x >= walk.it)
    BY <1>3, <2>3 DEF From
  <2>5. QED BY <2>3, <2>4
<1>10. \A y \in A : y > Born
  <2>1. SUFFICES ASSUME NEW y \in A PROVE y > Born
    OBVIOUS
  <2>2. walk.n # 0 /\ walk.n > 0
    BY <1>2
  <2>3. QED BY <1>1, <2>2, FoundAll DEF Temps
<1>11. Depth \in Nat /\ Len(calls) = Depth
  BY LenProperties DEF IInv, CallsInv, Nested, Depth
<1>12. /\ frames' \in Seq(Header) /\ Depth' = Depth + 1 /\ frames'[Depth + 1] = f
       /\ \A k \in 1 .. Depth : frames'[k] = frames[k]
  <2> HIDE DEF f
  <2>1. QED BY <1>1, <1>6, AppendProperties DEF IInv, CallsInv, Depth
<1>13. /\ calls' \in Seq(Call) /\ Len(calls') = Depth + 1 /\ calls'[Depth + 1] = c
       /\ \A k \in 1 .. Depth : calls'[k] = calls[k]
  <2> HIDE DEF c
  <2>1. QED BY <1>1, <1>7, <1>11, AppendProperties DEF IInv, CallsInv
<1>14. c.args = A /\ c.below = items \ A /\ c.born = made /\ f.count = walk.n
  OBVIOUS
<1> HIDE DEF A, c, f
<1>15. \A k \in 1 .. Depth + 1 : k # Depth + 1 => k \in 1 .. Depth
  BY <1>11
<1>16. FramesLead'
  <2>1. SUFFICES ASSUME NEW k \in 1 .. Depth + 1
                 PROVE  /\ frames'[k].count = Cardinality(calls'[k].args)
                        /\ calls'[k].args # {} => Heads(frames'[k], calls'[k].args)
    BY <1>12 DEF FramesLead, Heads
  <2>2. CASE k = Depth + 1
    BY <1>5, <1>8, <1>12, <1>13, <1>14, <2>2
  <2>3. CASE k # Depth + 1
    BY <1>12, <1>13, <1>15, <2>3 DEF IInv, CallsInv, FramesLead
  <2>4. QED BY <2>2, <2>3
<1>17. CallerUntouched'
  <2>1. SUFFICES ASSUME NEW k \in 1 .. Depth + 1
                 PROVE  {x \in items : x <= calls'[k].born}
                          = calls'[k].below \cup calls'[k].args
    BY <1>1, <1>12 DEF CallerUntouched
  <2>2. CASE k = Depth + 1
    <3>1. {x \in items : x <= made} = (items \ A) \cup A
      BY <1>4, <1>5
    <3>2. QED BY <1>13, <1>14, <2>2, <3>1
  <2>3. CASE k # Depth + 1
    BY <1>13, <1>15, <2>3 DEF IInv, CallsInv, CallerUntouched
  <2>4. QED BY <2>2, <2>3
<1>18. ASSUME NEW k \in 1 .. Depth
       PROVE  /\ calls[k].born <= Born /\ calls[k].born \in Nat /\ Born \in Nat
              /\ calls[k].born <= made
  <2>1. calls[k].born <= made
    BY DEF IInv, CallsInv, Nested
  <2>2. QED BY <2>1, BornLeads DEF IInv
<1>19. Nested'
  <2>1. ASSUME NEW k \in 1 .. Depth + 1
        PROVE  /\ calls'[k].born <= made
               /\ \A x \in calls'[k].below, y \in calls'[k].args : x < y
    <3>1. CASE k = Depth + 1
      BY <1>4, <1>9, <1>13, <1>14, <3>1
    <3>2. CASE k # Depth + 1
      BY <1>13, <1>15, <3>2 DEF IInv, CallsInv, Nested
    <3>3. QED BY <3>1, <3>2
  <2>2. ASSUME NEW j \in 1 .. Depth + 1, NEW k \in 1 .. Depth + 1, j < k
        PROVE  /\ calls'[j].born <= calls'[k].born
               /\ \A x \in calls'[k].args : x > calls'[j].born
    <3>1. j \in 1 .. Depth /\ calls'[j] = calls[j]
      BY <1>11, <1>13, <2>2
    <3>2. CASE k = Depth + 1
      <4>1. \A x \in A : x \in Nat
        BY <1>3, <1>5
      <4>2. \A x \in A : x > calls[j].born
        BY <1>10, <1>18, <3>1, <4>1
      <4>3. QED BY <1>13, <1>14, <1>18, <3>1, <3>2, <4>2
    <3>3. CASE k # Depth + 1
      BY <1>13, <1>15, <2>2, <3>1, <3>3 DEF IInv, CallsInv, Nested
    <3>4. QED BY <3>2, <3>3
  <2>3. QED BY <1>1, <1>12, <1>13, <2>1, <2>2 DEF Nested
<1>20. QED BY <1>12, <1>13, <1>16, <1>17, <1>19 DEF CallsInv

\* The innermost call is left.
LEMMA ReturnKeeps ==
  ASSUME IInv, Return
  PROVE  CallsInv'
<1>1. /\ Depth > 0 /\ frames' = SubSeq(frames, 1, Depth - 1)
      /\ calls' = SubSeq(calls, 1, Depth - 1) /\ UNCHANGED <<made, items>>
  BY DEF Return, IInv, WalkInv
<1>2. /\ Depth \in Nat /\ Len(calls) = Depth /\ Depth - 1 \in Nat
      /\ frames \in Seq(Header) /\ calls \in Seq(Call)
  BY <1>1, LenProperties DEF IInv, CallsInv, Nested, Depth
<1>3. /\ frames' \in Seq(Header) /\ Len(frames') = Depth - 1
      /\ \A k \in 1 .. Depth - 1 : frames'[k] = frames[k]
  BY <1>1, <1>2, SubSeqProperties DEF Depth
<1>4. /\ calls' \in Seq(Call) /\ Len(calls') = Depth - 1
      /\ \A k \in 1 .. Depth - 1 : calls'[k] = calls[k]
  BY <1>1, <1>2, SubSeqProperties
<1>5. Depth' = Depth - 1 /\ \A k \in 1 .. Depth - 1 : k \in 1 .. Depth
  BY <1>2, <1>3 DEF Depth
<1>6. FramesLead'
  BY <1>3, <1>4, <1>5 DEF IInv, CallsInv, FramesLead, Heads
<1>7. CallerUntouched'
  BY <1>1, <1>4, <1>5 DEF IInv, CallsInv, CallerUntouched
<1>8. Nested'
  <2>1. Len(calls') = Depth'
    BY <1>4, <1>5
  <2>2. \A k \in 1 .. Depth - 1 :
          /\ calls'[k].born <= made'
          /\ \A x \in calls'[k].below, y \in calls'[k].args : x < y
    BY <1>1, <1>4, <1>5 DEF IInv, CallsInv, Nested
  <2>3. ASSUME NEW j \in 1 .. Depth - 1, NEW k \in 1 .. Depth - 1, j < k
        PROVE  /\ calls'[j].born <= calls'[k].born
               /\ \A x \in calls'[k].args : x > calls'[j].born
    <3>1. j \in 1 .. Depth /\ k \in 1 .. Depth /\ calls'[j] = calls[j] /\ calls'[k] = calls[k]
      BY <1>4, <1>5
    <3>2. QED BY <2>3, <3>1 DEF IInv, CallsInv, Nested
  <2>4. QED BY <1>5, <2>1, <2>2, <2>3 DEF Nested
<1>9. QED BY <1>3, <1>4, <1>6, <1>7, <1>8 DEF CallsInv

-----------------------------------------------------------------------------
\* No loop is run: walk has nothing to say.
LEMMA IdleWalk ==
  ASSUME walk' = Idle, ret' \in Links
  PROVE  WalkInv'
<1>1. walk' \in [kind : {"idle", "frame", "load", "destroy"}, it : Links,
                 left : Int, n : 0 .. MaxArgs, fun : {"lisp", "c"}]
  BY BoundsAssumption DEF Idle, Links, NULL, BoundsAssumption
<1>2. walk'.kind = "idle"
  BY DEF Idle
<1>3. QED BY <1>1, <1>2 DEF WalkInv

\* The loop of LOAD: akl_frame_at goes from link to link.
LEMMA LoadWalk ==
  ASSUME IInv, LoadNext \/ \E i \in 0 .. MaxArgs : LoadBegin(i)
  PROVE  IInv'
<1>1. UNCHANGED <<made, heap, stack, frames, items, calls, ret>>
  BY DEF LoadNext, LoadBegin
<1>2. /\ walk' \in [kind : {"idle", "frame", "load", "destroy"}, it : Links,
                    left : Int, n : 0 .. MaxArgs, fun : {"lisp", "c"}]
      /\ walk'.kind = "load"
  <2>1. CASE LoadNext
    <3>1. /\ walk \in [kind : {"idle", "frame", "load", "destroy"}, it : Links,
                       left : Int, n : 0 .. MaxArgs, fun : {"lisp", "c"}]
          /\ walk.kind = "load" /\ walk.it # NULL
          /\ walk' = [walk EXCEPT !.it = heap.nxt[walk.it], !.left = @ - 1]
      BY <2>1 DEF IInv, WalkInv, LoadNext
    <3>2. walk.it \in Entries
      BY <3>1, BoundsAssumption DEF Links, Entries, NULL, BoundsAssumption
    <3>3. heap.nxt[walk.it] \in Links /\ walk.left - 1 \in Int
      BY <3>1, <3>2 DEF IInv, StackInv
    <3>4. walk' = [kind |-> walk.kind, it |-> heap.nxt[walk.it], left |-> walk.left - 1,
                   n |-> walk.n, fun |-> walk.fun]
      BY <3>1
    <3>5. QED BY <3>1, <3>3, <3>4
  <2>2. CASE \E i \in 0 .. MaxArgs : LoadBegin(i)
    <3>1. PICK i \in 0 .. MaxArgs : LoadBegin(i)
      BY <2>2
    <3>2. Depth > 0
      BY <3>1 DEF LoadBegin, InCall
    <3>3. Top \in Header
      BY <3>2, TopCallArgs DEF IInv
    <3>4. Top.head \in Links /\ i \in Int
      BY <3>3 DEF Header
    <3>5. walk' = [kind |-> "load", it |-> Top.head, left |-> i, n |-> i, fun |-> "c"]
      BY <3>1 DEF LoadBegin
    <3>6. QED BY <3>4, <3>5
  <2>3. QED BY <2>1, <2>2
<1>3. WalkInv'
  BY <1>1, <1>2 DEF IInv, WalkInv
<1>4. QED BY <1>1, <1>3, SameKept DEF IInv

-----------------------------------------------------------------------------
\* The stack, its frames and the loop in progress are as IInv says, always.
THEOREM StackInvariant == Spec => []IInv
<1>1. Init => IInv
  <2>1. SUFFICES ASSUME Init PROVE IInv
    OBVIOUS
  <2>2. MaxEntries \in Nat /\ MaxArgs \in Nat /\ NULL \in Links
    BY BoundsAssumption DEF BoundsAssumption, Links, NULL
  <2>3. /\ made = 0 /\ stack = EmptyList /\ frames = <<>> /\ calls = <<>> /\ items = {}
        /\ heap = [nxt |-> [e \in Entries |-> NULL], prv |-> [e \in Entries |-> NULL]]
        /\ walk = Idle /\ ret = NULL
    BY <2>1 DEF Init
  <2>4. StackInv
    <3>1. stack \in Header /\ stack.count = 0 /\ stack.head = NULL /\ stack.last = NULL
      BY <2>2, <2>3 DEF EmptyList, Header
    <3>2. Linked
      BY <2>3, <3>1, FS_EmptySet DEF Linked, Heads
    <3>3. heap.nxt = [e \in Entries |-> NULL] /\ heap.prv = [e \in Entries |-> NULL]
      BY <2>3
    <3>4. heap \in [nxt : [Entries -> Links], prv : [Entries -> Links]]
      BY <2>2, <2>3
    <3>5. made \in 0 .. MaxEntries /\ items \in SUBSET (1 .. made)
      BY <2>2, <2>3
    <3>6. QED BY <3>1, <3>2, <3>3, <3>4, <3>5 DEF StackInv
  <2>5. CallsInv
    <3>1. frames \in Seq(Header) /\ calls \in Seq(Call) /\ Depth = 0 /\ Len(calls) = 0
      BY <2>3, EmptySeq DEF Depth
    <3>2. QED BY <3>1 DEF CallsInv, FramesLead, CallerUntouched, Nested
  <2>6. WalkInv
    <3>1. walk \in [kind : {"idle", "frame", "load", "destroy"}, it : Links,
                    left : Int, n : 0 .. MaxArgs, fun : {"lisp", "c"}]
      BY <2>2, <2>3 DEF Idle
    <3>2. walk.kind = "idle"
      BY <2>3 DEF Idle
    <3>3. QED BY <2>2, <2>3, <3>1, <3>2 DEF WalkInv
  <2>7. QED BY <2>4, <2>5, <2>6 DEF IInv
<1>2. IInv /\ [Next]_vars => IInv'
  <2>1. SUFFICES ASSUME IInv, [Next]_vars PROVE IInv'
    OBVIOUS
  <2>2. StackInv /\ CallsInv /\ WalkInv /\ ret \in Links
    BY <2>1 DEF IInv, WalkInv
  <2>3. CASE Push
    <3>1. PushEntry /\ walk' = Idle /\ UNCHANGED <<frames, calls, ret>>
      BY <2>3 DEF Push
    <3>2. QED BY <2>2, <3>1, PushKeeps, IdleWalk DEF IInv
  <2>4. CASE Pop
    <3>1. walk' = Idle
      BY <2>4 DEF Pop
    <3>2. QED BY <2>2, <2>4, <3>1, PopKeeps, IdleWalk DEF IInv
  <2>5. CASE Shift
    <3>1. walk' = Idle
      BY <2>5 DEF Shift, InCall
    <3>2. QED BY <2>1, <2>5, <3>1, ShiftKeeps, IdleWalk DEF IInv
  <2>6. CASE PopArg
    <3>1. walk' = Idle /\ Depth > 0 /\ FramePop
      BY <2>6 DEF PopArg, InCall
    <3>2. QED BY <2>2, <3>1, FramePopKeeps, IdleWalk DEF IInv
  <2>7. ASSUME NEW n \in 0 .. MaxArgs, NEW f \in {"lisp", "c"}, CallBegin(n, f) PROVE IInv'
    <3>1. UNCHANGED <<made, heap, stack, frames, items, calls>>
      BY <2>7 DEF CallBegin
    <3>2. QED BY <2>1, <2>2, <2>7, <3>1, SameKept, CallBeginKeeps DEF IInv
  <2>8. CASE CallBack
    <3>1. UNCHANGED <<made, heap, stack, frames, items, calls>>
      BY <2>8 DEF CallBack
    <3>2. QED BY <2>1, <2>2, <2>8, <3>1, SameKept, CallBackKeeps DEF IInv
  <2>9. CASE CallMade
    <3>1. walk' = Idle /\ UNCHANGED <<made, heap, stack, items, ret>>
      BY <2>9 DEF CallMade
    <3>2. StackInv'
      BY <2>2, <3>1 DEF StackInv, Linked, Heads
    <3>3. QED BY <2>1, <2>2, <2>9, <3>1, <3>2, CallMadeKeeps, IdleWalk DEF IInv
  <2>10. CASE LoadNext \/ \E n \in 0 .. MaxArgs : LoadBegin(n)
    BY <2>1, <2>10, LoadWalk
  <2>11. CASE LoadFound
    <3>1. PushEntry /\ walk' = Idle /\ ret' = walk.it /\ UNCHANGED <<frames, calls>>
      BY <2>11 DEF LoadFound
    <3>2. ret' \in Links
      BY <2>2, <3>1 DEF WalkInv
    <3>3. QED BY <2>2, <3>1, <3>2, PushKeeps, IdleWalk DEF IInv
  <2>12. CASE LoadNothing
    <3>1. /\ walk' = Idle /\ ret' = NULL
          /\ UNCHANGED <<made, heap, stack, frames, items, calls>>
      BY <2>12 DEF LoadNothing, None
    <3>2. ret' \in Links
      BY <3>1, BoundsAssumption DEF BoundsAssumption, Links, NULL
    <3>3. QED BY <2>2, <3>1, <3>2, SameKept, IdleWalk DEF IInv
  <2>13. CASE ReturnBegin
    <3>1. /\ walk' = [Idle EXCEPT !.kind = "destroy"] /\ Depth > 0
          /\ UNCHANGED <<made, heap, stack, frames, items, calls, ret>>
      BY <2>13 DEF ReturnBegin
    <3>2. /\ walk' \in [kind : {"idle", "frame", "load", "destroy"}, it : Links,
                        left : Int, n : 0 .. MaxArgs, fun : {"lisp", "c"}]
          /\ walk'.kind = "destroy"
      BY <3>1, BoundsAssumption DEF Idle, Links, NULL, BoundsAssumption
    <3>3. WalkInv'
      BY <2>2, <3>1, <3>2 DEF WalkInv, Depth
    <3>4. QED BY <2>2, <3>1, <3>3, SameKept DEF IInv
  <2>14. CASE Destroy
    <3>1. walk.kind = "destroy" /\ walk' = walk /\ FramePop /\ Depth > 0
      BY <2>2, <2>14 DEF Destroy, WalkInv
    <3>2. StackInv' /\ CallsInv' /\ ret' \in Links /\ Depth' = Depth
      BY <2>2, <3>1, FramePopKeeps
    <3>3. WalkInv'
      BY <2>2, <3>1, <3>2 DEF WalkInv
    <3>4. QED BY <3>2, <3>3 DEF IInv
  <2>15. CASE Return
    <3>1. walk' = Idle /\ UNCHANGED <<made, heap, stack, items, ret>>
      BY <2>15 DEF Return
    <3>2. StackInv'
      BY <2>2, <3>1 DEF StackInv, Linked, Heads
    <3>3. QED BY <2>1, <2>2, <2>15, <3>1, <3>2, ReturnKeeps, IdleWalk DEF IInv
  <2>16. CASE UNCHANGED vars
    <3>1. /\ UNCHANGED <<made, heap, stack, frames, items, calls>>
          /\ UNCHANGED <<walk, ret>>
      BY <2>16 DEF vars
    <3>2. Temps' = Temps /\ Depth' = Depth /\ items' = items
      BY <3>1 DEF Temps, Born, TopCall, Depth
    <3>3. WalkInv'
      BY <2>2, <3>1, <3>2 DEF WalkInv, From
    <3>4. QED BY <2>2, <3>1, <3>3, SameKept DEF IInv
  <2>17. QED BY <2>1, <2>3, <2>4, <2>5, <2>6, <2>7, <2>8, <2>9, <2>10, <2>11, <2>12,
                <2>13, <2>14, <2>15, <2>16 DEF Next
<1>3. QED BY <1>1, <1>2, PTL DEF Spec

\* The types hold and no count is decremented below zero, for any bounds.
THEOREM TypeCorrect == Spec => []TypeOK
<1>1. IInv => TypeOK
  <2>1. SUFFICES ASSUME IInv PROVE TypeOK
    OBVIOUS
  <2>2. items \in SUBSET Entries
    BY <2>1, StackIsList DEF IInv
  <2>3. QED BY <2>1, <2>2 DEF TypeOK, IInv, StackInv, CallsInv, WalkInv, Call
<1>2. QED BY <1>1, StackInvariant, PTL

\* The links lead through exactly the entries on the stack (akl_list_remove_entry,
\* akl_frame_shift and akl_frame_pop unlink through two headers).
THEOREM StackStaysLinked == Spec => []Linked
<1>1. IInv => Linked
  BY DEF IInv, StackInv
<1>2. QED BY <1>1, StackInvariant, PTL

\* Every frame akl_init_frame made leads to the arguments left to its call.
THEOREM FramesAlwaysLead == Spec => []FramesLead
<1>1. IInv => FramesLead
  BY DEF IInv, CallsInv
<1>2. QED BY <1>1, StackInvariant, PTL

\* No call takes or loses a value of its callers (akl_frame_destroy included).
THEOREM CallersStayUntouched == Spec => []CallerUntouched
<1>1. IInv => CallerUntouched
  BY DEF IInv, CallsInv
<1>2. QED BY <1>1, StackInvariant, PTL
=============================================================================
