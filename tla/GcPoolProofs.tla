---------------------------- MODULE GcPoolProofs ----------------------------
(***************************************************************************)
(* Theorems about the pool allocator, for every number of types, pools,    *)
(* words and bits per word.                                                *)
(***************************************************************************)
EXTENDS GcPool, FiniteSetTheorems, WellFoundedInduction, TLAPS

-----------------------------------------------------------------------------
(* Least and greatest elements, slots and words.                           *)

\* A set of natural numbers has a least element, which Min returns.
LEMMA MinExists ==
  ASSUME NEW S \in SUBSET Nat, S # {}
  PROVE  Min(S) \in S /\ \A y \in S : Min(S) <= y
<1>1. \E x \in S : \A y \in S : ~ (<<y, x>> \in OpToRel(<, Nat))
  BY NatLessThanWellFounded, WFMin
<1>2. PICK x \in S : \A y \in S : ~ (<<y, x>> \in OpToRel(<, Nat))
  BY <1>1
<1>3. \A y \in S : x <= y
  <2>1. TAKE y \in S
  <2>2. x \in Nat /\ y \in Nat
    OBVIOUS
  <2>3. ~ (y < x)
    BY <1>2, <2>2 DEF OpToRel
  <2>4. QED BY <2>2, <2>3
<1>4. QED BY <1>3 DEF Min

\* A bounded set of natural numbers has a greatest element, which Max returns.
LEMMA MaxExists ==
  ASSUME NEW n \in Nat, NEW S \in SUBSET (1 .. n), S # {}
  PROVE  Max(S) \in S /\ \A y \in S : y <= Max(S)
<1> DEFINE T == {n - x : x \in S}
<1>1. T \in SUBSET Nat /\ T # {}
  <2>1. \A x \in S : n - x \in Nat
    OBVIOUS
  <2>2. \A y \in T : y \in Nat
    BY <2>1
  <2>3. PICK x : x \in S
    OBVIOUS
  <2>4. n - x \in T
    BY <2>3
  <2>5. QED BY <2>2, <2>4
<1>2. Min(T) \in T /\ \A y \in T : Min(T) <= y
  BY <1>1, MinExists
<1>3. PICK x \in S : Min(T) = n - x
  BY <1>2
<1>4. \A y \in S : x >= y
  <2>1. TAKE y \in S
  <2>2. n - y \in T
    OBVIOUS
  <2>3. n - x <= n - y
    BY <1>2, <1>3, <2>2
  <2>4. x \in 1 .. n /\ y \in 1 .. n
    OBVIOUS
  <2>5. QED BY <2>3, <2>4
<1>5. QED BY <1>4 DEF Max

\* Slot numbers and their words: w * W + j is a slot of word w.
LEMMA WordSlot ==
  ASSUME NEW w \in 0 .. NWords - 1, NEW j \in 0 .. W - 1
  PROVE  w * W + j \in Slots /\ WordOf(w * W + j) = w
<1>1. W \in Nat /\ W > 0 /\ NWords \in Nat /\ w \in Nat /\ j \in Nat
  BY WidthAssumption
<1>2. (w + 1) * W <= NWords * W
  BY <1>1
<1>3. (w + 1) * W = w * W + W
  BY <1>1
<1>4. w * W \in Nat /\ NWords * W \in Nat
  BY <1>1
<1>5. w * W + j \in 0 .. NWords * W - 1
  BY <1>1, <1>2, <1>3, <1>4
<1>6. (w * W + j) \div W = w
  BY <1>1
<1>7. QED BY <1>5, <1>6 DEF Slots, PoolSize, WordOf

\* Conversely every slot i belongs to a word of the bitmap, at offset i % W.
LEMMA SlotWord ==
  ASSUME NEW i \in Slots
  PROVE  /\ WordOf(i) \in 0 .. NWords - 1
         /\ i % W \in 0 .. W - 1
         /\ WordOf(i) * W + (i % W) = i
<1>1. W \in Nat /\ W > 0 /\ NWords \in Nat /\ NWords > 0
  BY WidthAssumption
<1>2. i \in Nat /\ i < NWords * W
  BY <1>1 DEF Slots, PoolSize
<1> DEFINE q == i \div W
<1>3. q \in Nat /\ i % W \in 0 .. W - 1 /\ i = W * q + (i % W)
  BY <1>1, <1>2
<1>4. q * W <= i
  BY <1>1, <1>3
<1>5. q < NWords
  <2>1. SUFFICES ASSUME q >= NWords PROVE FALSE
    BY <1>1, <1>3
  <2>2. q * W >= NWords * W
    <3> DEFINE d == q - NWords
    <3>1. d \in Nat /\ q = NWords + d
      BY <2>1, <1>1, <1>3
    <3>2. (NWords + d) * W = NWords * W + d * W
      BY <3>1, <1>1
    <3>3. d * W >= 0
      BY <3>1, <1>1
    <3>4. QED BY <3>1, <3>2, <3>3, <1>1
  <2>3. q * W \in Nat /\ NWords * W \in Nat
    BY <1>1, <1>3
  <2>4. QED BY <2>2, <2>3, <1>2, <1>4
<1>6. QED BY <1>1, <1>3, <1>5 DEF WordOf

\* A pool has room exactly when some slot is not in use.
LEMMA RoomMeansSlot ==
  ASSUME NEW u
  PROVE  HaveFree(u) <=> \E i \in Slots : i \notin u
<1>1. ASSUME NEW i \in Slots, i \notin u PROVE HaveFree(u)
  BY <1>1, SlotWord DEF HaveFree, FullWord
<1>2. QED BY <1>1 DEF HaveFree, FullWord

LEMMA SlotsFacts ==
  /\ PoolSize \in Nat /\ PoolSize > 0
  /\ 0 \in Slots
  /\ 0 .. W - 1 \subseteq Slots
<1>1. W \in Nat /\ W > 0 /\ NWords \in Nat /\ NWords > 0
  BY WidthAssumption
<1>2. NWords * W >= W /\ NWords * W \in Nat
  BY <1>1
<1>3. QED BY <1>1, <1>2 DEF Slots, PoolSize

\* akl_gc_pool_find_free answers with a slot of the pool whenever there is room.
LEMMA FindFreeIsSlot ==
  ASSUME NEW u, HaveFree(u), NEW c \in Nat
  PROVE  FindFree(u, c) \in Slots
<1> DEFINE words == {x \in 0 .. NWords - 1 : ~FullWord(u, x)}
           isFirst(x) == ~FullWord(u, x) /\ \A y \in 0 .. x - 1 : FullWord(u, y)
           w == CHOOSE x \in 0 .. NWords - 1 : isFirst(x)
           bits == {j \in 0 .. W - 1 : w * W + j \notin u}
           isClear(j) == w * W + j \notin u /\ \A k \in 0 .. j - 1 : w * W + k \in u
<1>1. W \in Nat /\ W > 0 /\ NWords \in Nat
  BY WidthAssumption
<1>2. words \in SUBSET Nat /\ words # {}
  BY DEF HaveFree
<1>3. Min(words) \in words /\ \A y \in words : Min(words) <= y
  BY <1>2, MinExists
<1>4. \E x \in 0 .. NWords - 1 : isFirst(x)
  BY <1>1, <1>3
<1>5. w \in 0 .. NWords - 1 /\ isFirst(w)
  BY <1>4
<1> HIDE DEF w
<1>6. PICK i \in Slots : WordOf(i) = w /\ i \notin u
  BY <1>5 DEF FullWord
<1>7. bits \in SUBSET Nat /\ bits # {}
  <2>1. i % W \in 0 .. W - 1 /\ w * W + (i % W) = i
    BY <1>6, SlotWord
  <2>2. i % W \in bits
    BY <2>1, <1>6
  <2>3. bits \in SUBSET Nat
    BY <1>1
  <2>4. QED BY <2>2, <2>3
<1>8. Min(bits) \in bits /\ \A y \in bits : Min(bits) <= y
  BY <1>7, MinExists
<1>9. \E j \in 0 .. W - 1 : isClear(j)
  BY <1>1, <1>8
<1>10. FirstClear(u) \in 0 .. W - 1
  BY <1>9 DEF FirstClear, w
<1>11. CASE c < PoolSize /\ c \notin u
  BY <1>11, SlotsFacts DEF FindFree, Slots
<1>12. CASE ~ (c < PoolSize /\ c \notin u)
  BY <1>12, <1>10, SlotsFacts DEF FindFree
<1>13. QED BY <1>11, <1>12

-----------------------------------------------------------------------------
(* Type correctness.                                                       *)

\* Giving out a slot keeps the types of what it writes.
LEMMA GiveType ==
  ASSUME NEW u \in [PoolIds -> SUBSET Slots], NEW c \in [PoolIds -> Int],
         NEW p \in PoolIds, NEW i \in Slots,
         held \subseteq Handles, allocs \in Nat, Give(u, c, p, i)
  PROVE  /\ used' \in [PoolIds -> SUBSET Slots]
         /\ cnt' \in [PoolIds -> Int]
         /\ held' \subseteq Handles
         /\ allocs' \in Nat
BY DEF Give, Handles

\* Creating a pool keeps the types of what it writes.
LEMMA CreateType ==
  ASSUME TypeOK, NEW t \in Types, CreateAndGive(t), lastWasMark' \in BOOLEAN
  PROVE  TypeOK'
<1>1. PICK g \in Garbage : Give([used EXCEPT ![made + 1] = g], cnt, made + 1, 0)
  BY DEF CreateAndGive
<1>2. made + 1 \in PoolIds /\ made' \in 0 .. MaxPools
  BY BoundAssumption DEF CreateAndGive, TypeOK, PoolIds
<1>3. [used EXCEPT ![made + 1] = g] \in [PoolIds -> SUBSET Slots]
  BY GarbageAssumption DEF TypeOK
<1>4. /\ used' \in [PoolIds -> SUBSET Slots]
      /\ cnt' \in [PoolIds -> Int]
      /\ held' \subseteq Handles
      /\ allocs' \in Nat
  BY <1>1, <1>2, <1>3, GiveType, SlotsFacts DEF TypeOK
<1>5. /\ chain' \in [Types -> SUBSET PoolIds]
      /\ last' \in [Types -> PoolIds \cup {NULL}]
  BY <1>2 DEF CreateAndGive, TypeOK
<1>6. QED BY <1>2, <1>4, <1>5 DEF CreateAndGive, TypeOK

\* What is left of a chain, and its new last pool, after empty pools are freed.
LEMMA UnlinkType ==
  ASSUME TypeOK, NEW t \in Types
  PROVE  /\ Unlink(t) \subseteq PoolIds
         /\ NewLast(t) \in PoolIds \cup {NULL}
         /\ Empties(t) \subseteq PoolIds
<1>1. chain[t] \subseteq PoolIds /\ last[t] \in PoolIds \cup {NULL}
  BY DEF TypeOK
<1>2. Unlink(t) \subseteq PoolIds /\ Empties(t) \subseteq PoolIds
  BY <1>1 DEF Unlink, Empties
<1> DEFINE stay == chain[t] \ Empties(t)
<1>3. ASSUME stay # {} PROVE Max(stay) \in PoolIds
  BY <1>1, <1>3, MaxExists, BoundAssumption DEF PoolIds
<1>4. NewLast(t) \in PoolIds \cup {NULL}
  BY <1>1, <1>3 DEF NewLast
<1>5. QED BY <1>2, <1>4

-----------------------------------------------------------------------------
(***************************************************************************)
(* The chains.  TypeOK is not inductive alone: that the retry after a sweep *)
(* finds room rests on gt_pool_last being a pool of the chain.              *)
(***************************************************************************)

\* Chains hold pools that were created, and share none.
Chains ==
  /\ \A t \in Types : chain[t] \subseteq 1 .. made
  /\ freed \subseteq 1 .. made
  /\ \A t1, t2 \in Types : t1 # t2 => chain[t1] \cap chain[t2] = {}

\* gt_pool_last is NULL or the end of the chain, and was not freed.
LastIsEnd ==
  \A t \in Types :
    last[t] # NULL =>
      last[t] \in chain[t] \ freed /\ \A p \in chain[t] : p <= last[t]

\* Freed pools a chain still leads to come before all others, and
\* gt_pool_last is lost only with them.
FreedLead ==
  \A t \in Types :
    /\ \A p \in chain[t] \cap freed : \A q \in chain[t] : q < p => q \in freed
    /\ last[t] = NULL /\ chain[t] # {} => chain[t] \cap freed # {}

ChainInv == TypeOK /\ Chains /\ LastIsEnd /\ FreedLead

\* A new pool becomes the end of its chain.
LEMMA CreateChain ==
  ASSUME ChainInv, NEW t \in Types, CreateAndGive(t)
  PROVE  Chains' /\ LastIsEnd' /\ FreedLead'
<1> USE DEF ChainInv
<1>1. made \in Nat /\ made' = made + 1 /\ freed' = freed
  BY DEF CreateAndGive, TypeOK
<1>2. /\ chain' = [chain EXCEPT ![t] = @ \cup {made + 1}]
      /\ last' = [last EXCEPT ![t] = made + 1]
  BY DEF CreateAndGive
<1>3. DOMAIN chain = Types /\ DOMAIN last = Types
  BY DEF TypeOK
<1>4. Chains'
  BY <1>1, <1>2, <1>3 DEF Chains
<1>5. LastIsEnd'
  BY <1>1, <1>2, <1>3 DEF Chains, LastIsEnd
<1>6. FreedLead'
  BY <1>1, <1>2, <1>3 DEF Chains, FreedLead, NULL
<1>7. QED BY <1>4, <1>5, <1>6

\* Freeing the empty pools keeps the chains in order.
LEMMA NoMemoryChain ==
  ASSUME ChainInv, NoMemory
  PROVE  Chains' /\ LastIsEnd' /\ FreedLead'
<1> USE DEF ChainInv
<1>1. /\ made' = made /\ freed' = freed \cup Gone
      /\ chain' = [t \in Types |-> Unlink(t)]
      /\ last' = [t \in Types |-> NewLast(t)]
      /\ InChains \cap freed = {}
  BY DEF NoMemory
<1>2. \A t \in Types : Unlink(t) \subseteq chain[t] /\ Empties(t) \subseteq chain[t]
  BY DEF Unlink, Empties
<1>3. Chains'
  <2>1. freed' \subseteq 1 .. made'
    <3>1. \A t \in Types : Empties(t) \subseteq 1 .. made
      BY <1>2 DEF Chains
    <3>2. Gone \subseteq 1 .. made
      BY <3>1 DEF Gone
    <3>3. QED BY <1>1, <3>2 DEF Chains
  <2>2. \A t \in Types : chain'[t] \subseteq 1 .. made'
    BY <1>1, <1>2 DEF Chains
  <2>3. ASSUME NEW t1 \in Types, NEW t2 \in Types, t1 # t2
        PROVE  chain'[t1] \cap chain'[t2] = {}
    <3>1. chain[t1] \cap chain[t2] = {}
      BY <2>3 DEF Chains
    <3>2. chain'[t1] = Unlink(t1) /\ chain'[t2] = Unlink(t2)
      BY <1>1
    <3>3. QED BY <3>1, <3>2, <1>2
  <2>4. QED BY <2>1, <2>2, <2>3 DEF Chains
<1>4. ASSUME NEW t \in Types
      PROVE  /\ NewLast(t) # NULL =>
                  NewLast(t) \in Unlink(t) /\ \A p \in Unlink(t) : p <= NewLast(t)
             /\ NewLast(t) = NULL => chain[t] \subseteq Empties(t)
             /\ NewLast(t) # NULL => NewLast(t) \notin Empties(t)
  <2> DEFINE stay == chain[t] \ Empties(t)
  <2>1. chain[t] \in SUBSET (1 .. MaxPools) /\ MaxPools \in Nat
    BY BoundAssumption DEF TypeOK, PoolIds
  <2>2. stay \subseteq Unlink(t)
    BY DEF Unlink
  <2>3. \A p \in Unlink(t) : p \in Empties(t) => \A q \in stay : ~ (q < p)
    BY DEF Unlink
  <2>4. CASE chain[t] = {}
    <3>1. NewLast(t) = last[t] /\ last[t] = NULL
      BY <2>4 DEF NewLast, LastIsEnd
    <3>2. QED BY <3>1, <2>4
  <2>5. CASE chain[t] # {}
    <3>1. Max(chain[t]) \in chain[t] /\ \A p \in chain[t] : p <= Max(chain[t])
      BY <2>1, <2>5, MaxExists
    <3>2. CASE Max(chain[t]) \notin Empties(t)
      <4>1. NewLast(t) = last[t]
        BY <3>2 DEF NewLast
      <4>2. last[t] # NULL
        BY <1>1, <2>5 DEF FreedLead, InChains
      <4>3. last[t] = Max(chain[t])
        BY <3>1, <4>2, <2>1 DEF LastIsEnd
      <4>4. Max(chain[t]) \in Unlink(t)
        BY <3>1, <3>2, <2>2
      <4>5. QED BY <4>1, <4>2, <4>3, <4>4, <3>1, <3>2, <1>2
    <3>3. CASE Max(chain[t]) \in Empties(t) /\ stay = {}
      BY <3>3, <2>5 DEF NewLast
    <3>4. CASE Max(chain[t]) \in Empties(t) /\ stay # {}
      <4>1. Max(stay) \in stay /\ \A p \in stay : p <= Max(stay)
        BY <2>1, <3>4, MaxExists
      <4>2. NewLast(t) = Max(stay)
        BY <3>4, <2>5 DEF NewLast
      <4>3. Max(stay) # NULL
        BY <4>1, <2>1 DEF NULL
      <4>4. \A p \in Unlink(t) : p <= Max(stay)
        BY <4>1, <2>1, <2>3, <1>2
      <4>5. QED BY <4>1, <4>2, <4>3, <4>4, <2>2
    <3>5. QED BY <3>2, <3>3, <3>4
  <2>6. QED BY <2>4, <2>5
<1>5. LastIsEnd'
  <2>1. ASSUME NEW t \in Types, NewLast(t) # NULL PROVE NewLast(t) \notin freed \cup Gone
    <3>1. NewLast(t) \in chain[t] /\ NewLast(t) \notin Empties(t)
      BY <1>2, <1>4, <2>1
    <3>2. \A r \in Types : r # t => NewLast(t) \notin Empties(r)
      BY <1>2, <3>1 DEF Chains
    <3>3. NewLast(t) \notin freed
      BY <1>1, <3>1 DEF InChains
    <3>4. QED BY <3>1, <3>2, <3>3 DEF Gone
  <2>2. QED BY <1>1, <1>4, <2>1 DEF LastIsEnd, NULL
<1>6. ASSUME NEW t \in Types, NEW p \in Unlink(t), p \in freed \cup Gone,
             NEW q \in Unlink(t), q < p
      PROVE  q \in freed \cup Gone
  <2>1. p \notin freed
    BY <1>1, <1>2 DEF InChains
  <2>2. PICK s \in Types : p \in Empties(s)
    BY <1>6, <2>1 DEF Gone
  <2>3. s = t
    BY <1>2, <2>2 DEF Chains
  <2>4. q \in Empties(t)
    BY <1>2, <2>2, <2>3, <1>6 DEF Unlink
  <2>5. QED BY <2>4 DEF Gone
<1>7. ASSUME NEW t \in Types, NewLast(t) = NULL, Unlink(t) # {}
      PROVE  Unlink(t) \cap (freed \cup Gone) # {}
  BY <1>2, <1>4, <1>7 DEF Gone
<1>8. FreedLead'
  BY <1>1, <1>6, <1>7 DEF FreedLead, NULL
<1>9. QED BY <1>3, <1>5, <1>8

\* A step that leaves the chains alone keeps what is said of them.
LEMMA SameChain ==
  ASSUME ChainInv, UNCHANGED <<made, chain, last, freed>>
  PROVE  Chains' /\ LastIsEnd' /\ FreedLead'
BY DEF ChainInv, Chains, LastIsEnd, FreedLead

\* The retry after a sweep: gt_pool_last is one of the pools swept.
LEMMA CollectType ==
  ASSUME ChainInv, NEW t \in Types, MallocCollect(t)
  PROVE  TypeOK'
<1> USE DEF ChainInv
<1> DEFINE u == [p \in PoolIds |-> used[p] \ IF p \in InChains THEN Slots ELSE {}]
           c == [p \in PoolIds |-> cnt[p] - Cardinality(used[p] \ u[p])]
<1>1. u \in [PoolIds -> SUBSET Slots]
  BY DEF TypeOK
<1>2. last[t] \in PoolIds /\ last[t] \in InChains
  BY DEF MallocCollect, Exhausted, LastFull, HasPools, TypeOK, LastIsEnd, InChains
<1>3. 0 \in Slots /\ 0 \notin u[last[t]]
  BY <1>2, SlotsFacts
<1>4. c \in [PoolIds -> Int]
  <2>1. ASSUME NEW p \in PoolIds PROVE cnt[p] - Cardinality(used[p] \ u[p]) \in Int
    <3>1. used[p] \ u[p] \in SUBSET Slots /\ cnt[p] \in Int
      BY DEF TypeOK
    <3>2. IsFiniteSet(Slots)
      BY FS_Interval, SlotsFacts DEF Slots
    <3>3. Cardinality(used[p] \ u[p]) \in Nat
      BY <3>1, <3>2, FS_Subset, FS_CardinalityType
    <3>4. QED BY <3>1, <3>3
  <2>2. QED BY <2>1
<1>5. c[last[t]] >= 0 /\ Give(u, c, last[t], FindFree(u[last[t]], c[last[t]]))
  BY DEF MallocCollect
<1> HIDE DEF u, c
<1>6. FindFree(u[last[t]], c[last[t]]) \in Slots
  <2>1. c[last[t]] \in Nat
    BY <1>2, <1>4, <1>5
  <2>2. QED BY <1>3, <2>1, RoomMeansSlot, FindFreeIsSlot
<1>7. /\ used' \in [PoolIds -> SUBSET Slots]
      /\ cnt' \in [PoolIds -> Int]
      /\ held' \subseteq Handles
      /\ allocs' \in Nat
  BY <1>1, <1>2, <1>4, <1>5, <1>6, GiveType DEF TypeOK
<1>8. QED BY <1>7 DEF MallocCollect, TypeOK

\* ChainInv is an inductive invariant.
THEOREM ChainInvariant == Spec => []ChainInv
<1>1. Init => ChainInv
  <2> SUFFICES ASSUME Init PROVE ChainInv
    OBVIOUS
  <2>1. TypeOK
    <3>1. made \in 0 .. MaxPools
      BY BoundAssumption DEF Init
    <3>2. used \in [PoolIds -> SUBSET Slots] /\ cnt \in [PoolIds -> Int]
      BY DEF Init
    <3>3. chain \in [Types -> SUBSET PoolIds] /\ last \in [Types -> PoolIds \cup {NULL}]
      BY DEF Init
    <3>4. QED BY <3>1, <3>2, <3>3 DEF Init, TypeOK
  <2>2. Chains /\ LastIsEnd /\ FreedLead
    BY DEF Init, Chains, LastIsEnd, FreedLead
  <2>3. QED BY <2>1, <2>2 DEF ChainInv
<1>2. ChainInv /\ [Next]_vars => ChainInv'
  <2> SUFFICES ASSUME ChainInv, [Next]_vars PROVE ChainInv'
    OBVIOUS
  <2>0. TypeOK
    BY DEF ChainInv
  <2>1. ASSUME NEW t \in Types, MallocFirst(t) PROVE ChainInv'
    <3>1. CreateAndGive(t) /\ lastWasMark' \in BOOLEAN
      BY <2>0, <2>1 DEF MallocFirst, TypeOK
    <3>2. QED BY <3>1, <2>0, CreateType, CreateChain DEF ChainInv
  <2>2. ASSUME NEW t \in Types, MallocLast(t) PROVE ChainInv'
    <3>1. last[t] \in PoolIds /\ HaveFree(used[last[t]]) /\ cnt[last[t]] \in Nat
      BY <2>0, <2>2 DEF MallocLast, HasPools, LastFull, TypeOK
    <3>2. FindFree(used[last[t]], cnt[last[t]]) \in Slots
      BY <3>1, FindFreeIsSlot
    <3>3. /\ Give(used, cnt, last[t], FindFree(used[last[t]], cnt[last[t]]))
          /\ UNCHANGED <<made, chain, last, freed, useGc, lastWasMark, status>>
      BY <2>2 DEF MallocLast
    <3>4. TypeOK'
      BY <2>0, <3>1, <3>2, <3>3, GiveType DEF TypeOK
    <3>5. QED BY <3>3, <3>4, SameChain DEF ChainInv
  <2>3. ASSUME NEW t \in Types, MallocOther(t) PROVE ChainInv'
    <3>1. WithRoom(t) \in SUBSET (1 .. MaxPools) /\ WithRoom(t) # {}
      BY <2>0, <2>3 DEF MallocOther, WithRoom, TypeOK, PoolIds
    <3>2. Min(WithRoom(t)) \in PoolIds
      BY <3>1, MinExists, BoundAssumption DEF PoolIds
    <3>3. PICK i \in Slots : Give(used, cnt, Min(WithRoom(t)), i)
      BY <2>3 DEF MallocOther
    <3>4. UNCHANGED <<made, chain, last, freed, useGc, lastWasMark, status>>
      BY <2>3 DEF MallocOther
    <3>5. TypeOK'
      BY <2>0, <3>2, <3>3, <3>4, GiveType DEF TypeOK
    <3>6. QED BY <3>4, <3>5, SameChain DEF ChainInv
  <2>4. ASSUME NEW t \in Types, MallocCollect(t) PROVE ChainInv'
    <3>1. UNCHANGED <<made, chain, last, freed>>
      BY <2>4 DEF MallocCollect
    <3>2. QED BY <2>4, <3>1, CollectType, SameChain DEF ChainInv
  <2>5. ASSUME NEW t \in Types, MallocGrow(t) PROVE ChainInv'
    BY <2>0, <2>5, CreateType, CreateChain DEF MallocGrow, ChainInv
  <2>6. ASSUME NEW t \in Types, MallocAbort(t) PROVE ChainInv'
    BY <2>0, <2>6, SameChain DEF MallocAbort, Abort, TypeOK, ChainInv
  <2>7. ASSUME Enable \/ Disable \/ NoMemoryAbort \/ NoMemoryExit PROVE ChainInv'
    <3>1. UNCHANGED <<made, chain, last, freed>> /\ TypeOK'
      BY <2>0, <2>7 DEF Enable, Disable, NoMemoryAbort, NoMemoryExit, Abort, TypeOK
    <3>2. QED BY <3>1, SameChain DEF ChainInv
  <2>8. ASSUME NoMemory PROVE ChainInv'
    <3>1. TypeOK'
      BY <2>0, <2>8, UnlinkType DEF NoMemory, Gone, TypeOK
    <3>2. QED BY <2>8, <3>1, NoMemoryChain DEF ChainInv
  <2>9. ASSUME UNCHANGED vars PROVE ChainInv'
    <3>1. UNCHANGED <<made, chain, last, freed>> /\ TypeOK'
      BY <2>0, <2>9 DEF vars, TypeOK
    <3>2. QED BY <3>1, SameChain DEF ChainInv
  <2>10. QED
    BY <2>1, <2>2, <2>3, <2>4, <2>5, <2>6, <2>7, <2>8, <2>9 DEF Next, Malloc
<1>3. QED BY <1>1, <1>2, PTL DEF Spec

\* The type invariant holds in every state, for any garbage in the bitmaps,
\* with the collector on or off and with the host out of memory at any time.
THEOREM TypeCorrect == Spec => []TypeOK
<1>1. ChainInv => TypeOK
  BY DEF ChainInv
<1>2. QED BY <1>1, ChainInvariant, PTL

\* The pools a chain still leads to although they were freed come first: with
\* the head alive there are none.
LEMMA HeadAliveChain ==
  ASSUME ChainInv, NEW t \in Types, chain[t] # {}, HeadAlive(t)
  PROVE  chain[t] \cap freed = {}
<1> USE DEF ChainInv
<1>1. chain[t] \in SUBSET (1 .. MaxPools) /\ MaxPools \in Nat
  BY BoundAssumption DEF TypeOK, PoolIds
<1>2. Min(chain[t]) \in chain[t] /\ \A p \in chain[t] : Min(chain[t]) <= p
  BY <1>1, MinExists
<1>3. Min(chain[t]) \notin freed
  BY DEF HeadAlive
<1>4. SUFFICES ASSUME NEW p \in chain[t] \cap freed PROVE FALSE
  OBVIOUS
<1>5. Min(chain[t]) < p
  BY <1>1, <1>2, <1>3
<1>6. QED BY <1>2, <1>3, <1>5 DEF FreedLead

\* A chain whose head was never freed holds no freed pool and ends at
\* gt_pool_last (akl_gc_type_tryfree unlinks correctly behind the head).
THEOREM ChainsStaySound == Spec => []ChainSound
<1>1. ChainInv => ChainSound
  <2> SUFFICES ASSUME ChainInv, NEW t \in Types, chain[t] # {}, HeadAlive(t)
               PROVE  chain[t] \cap freed = {} /\ last[t] = Max(chain[t])
    BY DEF ChainSound
  <2> USE DEF ChainInv
  <2>1. chain[t] \in SUBSET (1 .. MaxPools) /\ MaxPools \in Nat
    BY BoundAssumption DEF TypeOK, PoolIds
  <2>3. Max(chain[t]) \in chain[t] /\ \A p \in chain[t] : p <= Max(chain[t])
    BY <2>1, MaxExists
  <2>5. chain[t] \cap freed = {}
    BY HeadAliveChain
  <2>6. last[t] # NULL
    BY <2>5 DEF FreedLead
  <2>7. last[t] = Max(chain[t])
    BY <2>1, <2>3, <2>6 DEF LastIsEnd
  <2>8. QED BY <2>5, <2>7
<1>2. QED BY <1>1, ChainInvariant, PTL

\* No allocation comes back to a pool that was given back to the host: what is
\* handed out is in gt_pool_last, in an earlier pool of a chain whose head is
\* alive, or new, and none of those was freed.
THEOREM NothingComesFromFreed == Spec => NothingFromFreed
<1> DEFINE Untouched == \A p \in freed : used'[p] = used[p] /\ cnt'[p] = cnt[p]
<1>1. ChainInv /\ [Next]_vars => [Untouched]_vars
  <2> SUFFICES ASSUME ChainInv, Next PROVE Untouched
    OBVIOUS
  <2>0. TypeOK /\ freed \subseteq 1 .. made /\ freed \subseteq PoolIds
    BY DEF ChainInv, TypeOK, Chains
  <2>1. ASSUME NEW p \in PoolIds, p \notin freed, NEW i, Give(used, cnt, p, i)
        PROVE  Untouched
    BY <2>0, <2>1 DEF Give, TypeOK
  <2>2. ASSUME NEW t \in Types, CreateAndGive(t) PROVE Untouched
    <3>1. PICK g \in Garbage :
            Give([used EXCEPT ![made + 1] = g], cnt, made + 1, 0)
      BY <2>2 DEF CreateAndGive
    <3>2. made \in Nat /\ made + 1 \notin freed
      BY <2>0 DEF TypeOK
    <3>3. QED BY <2>0, <3>1, <3>2 DEF Give, TypeOK
  <2>3. ASSUME NEW t \in Types, MallocLast(t) PROVE Untouched
    <3>1. last[t] \in PoolIds /\ last[t] \notin freed
      BY <2>0, <2>3 DEF MallocLast, HasPools, ChainInv, LastIsEnd, TypeOK
    <3>2. QED BY <2>1, <2>3, <3>1 DEF MallocLast
  <2>4. ASSUME NEW t \in Types, MallocOther(t) PROVE Untouched
    <3>1. chain[t] # {} /\ HeadAlive(t) /\ WithRoom(t) # {}
      BY <2>4 DEF MallocOther, LastFull, HasPools
    <3>2. WithRoom(t) \in SUBSET (1 .. MaxPools) /\ WithRoom(t) \subseteq chain[t]
      BY <2>0 DEF WithRoom, TypeOK, PoolIds
    <3>3. Min(WithRoom(t)) \in PoolIds /\ Min(WithRoom(t)) \in chain[t]
      BY <3>1, <3>2, MinExists, BoundAssumption DEF PoolIds
    <3>4. Min(WithRoom(t)) \notin freed
      BY <3>1, <3>3, HeadAliveChain
    <3>5. QED BY <2>1, <2>4, <3>3, <3>4 DEF MallocOther
  <2>5. ASSUME NEW t \in Types, MallocCollect(t) PROVE Untouched
    <3> DEFINE u == [p \in PoolIds |-> used[p] \ IF p \in InChains THEN Slots ELSE {}]
               c == [p \in PoolIds |-> cnt[p] - Cardinality(used[p] \ u[p])]
    <3>1. /\ InChains \cap freed = {}
          /\ Give(u, c, last[t], FindFree(u[last[t]], c[last[t]]))
      BY <2>5 DEF MallocCollect
    <3>2. last[t] \notin freed
      BY <2>5 DEF MallocCollect, Exhausted, LastFull, HasPools, ChainInv, LastIsEnd
    <3>3. ASSUME NEW p \in freed PROVE u[p] = used[p] /\ c[p] = cnt[p]
      <4>1. p \in PoolIds /\ p \notin InChains
        BY <2>0, <3>1
      <4>2. u[p] = used[p] /\ used[p] \ u[p] = {} /\ cnt[p] \in Int
        BY <2>0, <4>1 DEF TypeOK
      <4>3. c[p] = cnt[p] - Cardinality({})
        BY <4>1, <4>2
      <4>4. QED BY <4>2, <4>3, FS_EmptySet
    <3> HIDE DEF u, c
    <3>4. ASSUME NEW p \in freed PROVE used'[p] = u[p] /\ cnt'[p] = c[p]
      BY <2>0, <3>1, <3>2 DEF Give, u, c
    <3>5. QED BY <3>3, <3>4
  <2>6. ASSUME NEW t \in Types, MallocFirst(t) \/ MallocGrow(t) PROVE Untouched
    BY <2>2, <2>6 DEF MallocFirst, MallocGrow
  <2>7. ASSUME NEW t \in Types, MallocAbort(t) PROVE Untouched
    BY <2>7 DEF MallocAbort, Abort
  <2>8. ASSUME Enable \/ Disable \/ NoMemory \/ NoMemoryAbort \/ NoMemoryExit
        PROVE  Untouched
    BY <2>8 DEF Enable, Disable, NoMemory, NoMemoryAbort, NoMemoryExit, Abort
  <2>9. QED
    BY <2>2, <2>3, <2>4, <2>5, <2>6, <2>7, <2>8 DEF Next, Malloc
<1>2. QED BY <1>1, ChainInvariant, PTL DEF Spec, NothingFromFreed

-----------------------------------------------------------------------------
(* Counters.                                                               *)

\* Sets of slots are finite.
LEMMA SlotSetsFinite ==
  ASSUME NEW s \in SUBSET Slots
  PROVE  IsFiniteSet(s) /\ Cardinality(s) \in Nat
<1>1. IsFiniteSet(Slots)
  BY FS_Interval, SlotsFacts DEF Slots
<1>2. IsFiniteSet(s)
  BY <1>1, FS_Subset
<1>3. QED BY <1>2, FS_CardinalityType

\* Clearing the slots of s that are not in r.
LEMMA ClearCount ==
  ASSUME NEW s \in SUBSET Slots, NEW r \in SUBSET s
  PROVE  Cardinality(s \ r) = Cardinality(s) - Cardinality(r)
<1>1. IsFiniteSet(s) /\ s \cap r = r
  BY SlotSetsFinite
<1>2. QED BY <1>1, FS_Difference

\* One more slot costs one more count, at most.
LEMMA GiveCount ==
  ASSUME NEW u \in [PoolIds -> SUBSET Slots], NEW c \in [PoolIds -> Int],
         NEW p \in PoolIds, NEW i \in Slots, Give(u, c, p, i),
         \A q \in PoolIds : c[q] >= Cardinality(u[q])
  PROVE  CountCoversUsed'
<1>1. used' = [u EXCEPT ![p] = u[p] \cup {i}] /\ cnt' = [c EXCEPT ![p] = c[p] + 1]
  BY DEF Give
<1>2. ASSUME NEW q \in PoolIds PROVE cnt'[q] >= Cardinality(used'[q])
  <2>1. CASE q = p
    <3>1. Cardinality(u[p] \cup {i}) <= Cardinality(u[p]) + 1
      BY SlotSetsFinite, FS_AddElement
    <3>2. c[p] \in Int /\ Cardinality(u[p]) \in Nat /\ Cardinality(u[p] \cup {i}) \in Nat
      BY SlotSetsFinite
    <3>3. used'[q] = u[p] \cup {i} /\ cnt'[q] = c[p] + 1
      BY <1>1, <2>1
    <3>4. QED BY <3>1, <3>2, <3>3
  <2>2. CASE q # p
    BY <1>1, <2>2
  <2>3. QED BY <2>1, <2>2
<1>3. QED BY <1>2 DEF CountCoversUsed

\* With zeroed bitmaps the counter of a pool covers its set bits, even with
\* the collector on and slots handed out twice: a sweep never makes it
\* negative, so ASSERT_INDEX cannot fire on it.
THEOREM CountsCover ==
  ASSUME Garbage = {{}}
  PROVE  Spec => []CountCoversUsed
<1>1. Init => CountCoversUsed
  BY FS_EmptySet DEF Init, CountCoversUsed
<1>2. ChainInv /\ CountCoversUsed /\ [Next]_vars => CountCoversUsed'
  <2> SUFFICES ASSUME ChainInv, CountCoversUsed, [Next]_vars PROVE CountCoversUsed'
    OBVIOUS
  <2>0. TypeOK /\ used \in [PoolIds -> SUBSET Slots] /\ cnt \in [PoolIds -> Int]
    BY DEF ChainInv, TypeOK
  <2>1. ASSUME NEW t \in Types, CreateAndGive(t) PROVE CountCoversUsed'
    <3> DEFINE u == [used EXCEPT ![made + 1] = {}]
    <3>1. Give(u, cnt, made + 1, 0)
      BY <2>1 DEF CreateAndGive
    <3>2. made + 1 \in PoolIds
      BY <2>0, <2>1, BoundAssumption DEF CreateAndGive, TypeOK, PoolIds
    <3>3. u \in [PoolIds -> SUBSET Slots]
      BY <2>0
    <3>4. ASSUME NEW q \in PoolIds PROVE cnt[q] >= Cardinality(u[q])
      <4>1. cnt[q] >= Cardinality(used[q]) /\ cnt[q] \in Int
        BY <2>0 DEF CountCoversUsed
      <4>2. Cardinality(used[q]) \in Nat
        BY <2>0, SlotSetsFinite
      <4>3. u[q] = used[q] \/ u[q] = {}
        BY <2>0
      <4>4. Cardinality({}) = 0
        BY FS_EmptySet
      <4>5. QED BY <4>1, <4>2, <4>3, <4>4
    <3> HIDE DEF u
    <3>5. QED BY <2>0, <3>1, <3>2, <3>3, <3>4, GiveCount, SlotsFacts
  <2>2. ASSUME NEW t \in Types, MallocLast(t) PROVE CountCoversUsed'
    <3>1. last[t] \in PoolIds /\ HaveFree(used[last[t]]) /\ cnt[last[t]] \in Nat
      BY <2>0, <2>2 DEF MallocLast, HasPools, LastFull, TypeOK
    <3>2. FindFree(used[last[t]], cnt[last[t]]) \in Slots
      BY <3>1, FindFreeIsSlot
    <3>3. Give(used, cnt, last[t], FindFree(used[last[t]], cnt[last[t]]))
      BY <2>2 DEF MallocLast
    <3>4. QED BY <2>0, <3>1, <3>2, <3>3, GiveCount DEF CountCoversUsed
  <2>3. ASSUME NEW t \in Types, MallocOther(t) PROVE CountCoversUsed'
    <3>1. WithRoom(t) \in SUBSET (1 .. MaxPools) /\ WithRoom(t) # {}
      BY <2>0, <2>3 DEF MallocOther, WithRoom, TypeOK, PoolIds
    <3>2. Min(WithRoom(t)) \in PoolIds
      BY <3>1, MinExists, BoundAssumption DEF PoolIds
    <3>3. PICK i \in Slots : Give(used, cnt, Min(WithRoom(t)), i)
      BY <2>3 DEF MallocOther
    <3>4. QED BY <2>0, <3>2, <3>3, GiveCount DEF CountCoversUsed
  <2>4. ASSUME NEW t \in Types, MallocCollect(t) PROVE CountCoversUsed'
    <3> DEFINE u == [p \in PoolIds |-> used[p] \ IF p \in InChains THEN Slots ELSE {}]
               c == [p \in PoolIds |-> cnt[p] - Cardinality(used[p] \ u[p])]
    <3>1. u \in [PoolIds -> SUBSET Slots]
      BY <2>0
    <3>2. last[t] \in PoolIds /\ last[t] \in InChains
      BY <2>0, <2>4
         DEF MallocCollect, Exhausted, LastFull, HasPools, TypeOK, LastIsEnd, InChains, ChainInv
    <3>3. ASSUME NEW q \in PoolIds PROVE c[q] \in Int /\ c[q] >= Cardinality(u[q])
      <4>1. used[q] \in SUBSET Slots /\ cnt[q] \in Int /\ cnt[q] >= Cardinality(used[q])
        BY <2>0 DEF CountCoversUsed
      <4>2. u[q] \subseteq used[q]
        OBVIOUS
      <4>3. Cardinality(used[q] \ u[q]) = Cardinality(used[q]) - Cardinality(u[q])
        BY <4>1, <4>2, ClearCount
      <4>4. Cardinality(used[q]) \in Nat /\ Cardinality(u[q]) \in Nat
        BY <4>1, <4>2, SlotSetsFinite
      <4>5. c[q] = cnt[q] - Cardinality(used[q] \ u[q])
        OBVIOUS
      <4> HIDE DEF u, c
      <4>6. QED BY <4>1, <4>3, <4>4, <4>5
    <3>4. c \in [PoolIds -> Int]
      <4>1. DOMAIN c = PoolIds /\ \A q \in PoolIds : c[q] \in Int
        BY <3>3
      <4>2. c = [q \in PoolIds |-> c[q]]
        OBVIOUS
      <4> HIDE DEF c
      <4>3. QED BY <4>1, <4>2
    <3>5. c[last[t]] >= 0 /\ Give(u, c, last[t], FindFree(u[last[t]], c[last[t]]))
      BY <2>4 DEF MallocCollect
    <3>6. 0 \in Slots /\ 0 \notin u[last[t]]
      BY <3>2, SlotsFacts
    <3> HIDE DEF u, c
    <3>7. FindFree(u[last[t]], c[last[t]]) \in Slots
      <4>1. c[last[t]] \in Nat
        BY <3>2, <3>4, <3>5
      <4>2. QED BY <3>6, <4>1, RoomMeansSlot, FindFreeIsSlot
    <3>8. QED BY <3>1, <3>2, <3>3, <3>4, <3>5, <3>7, GiveCount
  <2>5. ASSUME NEW t \in Types, MallocFirst(t) \/ MallocGrow(t) PROVE CountCoversUsed'
    BY <2>1, <2>5 DEF MallocFirst, MallocGrow
  <2>6. ASSUME NEW t \in Types, MallocAbort(t) PROVE CountCoversUsed'
    BY <2>6 DEF MallocAbort, Abort, CountCoversUsed
  <2>7. ASSUME Enable \/ Disable \/ NoMemory \/ NoMemoryAbort \/ NoMemoryExit
        PROVE  CountCoversUsed'
    BY <2>7 DEF Enable, Disable, NoMemory, NoMemoryAbort, NoMemoryExit, Abort, CountCoversUsed
  <2>8. ASSUME UNCHANGED vars PROVE CountCoversUsed'
    BY <2>8 DEF vars, CountCoversUsed
  <2>9. QED
    BY <2>2, <2>3, <2>4, <2>5, <2>6, <2>7, <2>8 DEF Next, Malloc
<1>3. QED BY <1>1, <1>2, ChainInvariant, PTL DEF Spec

-----------------------------------------------------------------------------
(***************************************************************************)
(* The default build: collector off, memory zeroed, malloc succeeds.  Then *)
(* pools fill like a bump allocator and no object is handed out twice.     *)
(***************************************************************************)
Quiet == Garbage = {{}} /\ ~GcAllowed /\ ~NoMem

\* Pools not created yet are blank, and collecting stays off.
Blank == /\ \A p \in PoolIds : p > made => used[p] = {} /\ cnt[p] = 0
         /\ useGc = FALSE /\ freed = {}

\* The bits set in a pool are those of the objects handed out of it: what
\* links the counters and bitmaps, which the code reads, to what is held.
HeldInUse ==
  \A p \in PoolIds : used[p] = {i \in Slots : <<p, i>> \in held}

BumpInv == ChainInv /\ Bump /\ HeldInUse /\ Blank

\* A pool that fills from slot 0 has room exactly while its counter says so.
LEMMA BumpRoom ==
  ASSUME BumpInv, NEW p \in 1 .. made
  PROVE  /\ p \in PoolIds /\ cnt[p] \in Nat
         /\ HaveFree(used[p]) => /\ cnt[p] < PoolSize
                                 /\ FindFree(used[p], cnt[p]) = cnt[p]
                                 /\ cnt[p] \in Slots /\ cnt[p] \notin used[p]
         /\ ~HaveFree(used[p]) => cnt[p] = PoolSize
<1>1. p \in PoolIds
  BY BoundAssumption DEF BumpInv, ChainInv, TypeOK, PoolIds
<1>2. cnt[p] \in 0 .. PoolSize /\ used[p] = 0 .. cnt[p] - 1 /\ PoolSize \in Nat
  BY SlotsFacts DEF BumpInv, Bump
<1>3. ASSUME HaveFree(used[p]) PROVE cnt[p] < PoolSize
  BY <1>2, <1>3, RoomMeansSlot DEF Slots
<1>4. ASSUME cnt[p] < PoolSize
      PROVE  /\ FindFree(used[p], cnt[p]) = cnt[p]
             /\ cnt[p] \in Slots /\ cnt[p] \notin used[p]
  BY <1>2, <1>4 DEF FindFree, Slots
<1>5. ASSUME ~HaveFree(used[p]) PROVE cnt[p] = PoolSize
  BY <1>2, <1>4, <1>5, RoomMeansSlot
<1>6. QED BY <1>1, <1>2, <1>3, <1>4, <1>5

\* The other paths of akl_gc_malloc are not taken in the default build.
LEMMA QuietPaths ==
  ASSUME Quiet, BumpInv, NEW t \in Types
  PROVE  /\ ~MallocOther(t) /\ ~MallocCollect(t)
         /\ ~Enable /\ ~Disable /\ ~NoMemory /\ ~NoMemoryAbort /\ ~NoMemoryExit
<1>1. ~MallocOther(t)
  <2>1. SUFFICES ASSUME MallocOther(t) PROVE FALSE
    OBVIOUS
  <2>2. PICK p \in chain[t] \ {last[t]} : HaveFree(used[p])
    BY <2>1 DEF MallocOther, WithRoom
  <2>3. p \in 1 .. made
    BY DEF BumpInv, ChainInv, Chains
  <2>4. ASSUME NEW r \in Types PROVE p # last[r]
    <3>1. CASE last[r] = NULL
      BY <2>3, <3>1 DEF NULL
    <3>2. CASE last[r] # NULL /\ r # t
      BY <2>2, <3>2 DEF BumpInv, ChainInv, LastIsEnd, Chains
    <3>3. CASE r = t
      BY <2>2, <3>3
    <3>4. QED BY <3>1, <3>2, <3>3
  <2>5. cnt[p] = PoolSize
    BY <2>3, <2>4 DEF BumpInv, Bump
  <2>6. QED BY <2>2, <2>3, <2>5, BumpRoom, SlotsFacts
<1>2. ~MallocCollect(t)
  BY DEF MallocCollect, BumpInv, Blank
<1>3. QED
  BY <1>1, <1>2
     DEF Quiet, Enable, Disable, NoMemory, NoMemoryAbort, NoMemoryExit, BumpInv, Blank

\* A step that gives out slot i of pool p, free so far and next in line.
LEMMA GiveBump ==
  ASSUME BumpInv, NEW p \in PoolIds, p \in 1 .. made', made' \in {made, made + 1},
         Give(used, cnt, p, cnt[p]), cnt[p] \in Nat, cnt[p] < PoolSize,
         used[p] = 0 .. cnt[p] - 1,
         \A q \in 1 .. made : (\A t \in Types : q # last'[t]) => cnt[q] = PoolSize,
         \E t \in Types : last'[t] = p, made' = made + 1 => p = made + 1,
         useGc' = useGc, freed' = freed
  PROVE  Bump' /\ HeldInUse' /\ Blank'
<1>1. /\ used' = [used EXCEPT ![p] = used[p] \cup {cnt[p]}]
      /\ cnt' = [cnt EXCEPT ![p] = cnt[p] + 1]
      /\ held' = held \cup {<<p, cnt[p]>>}
  BY DEF Give
<1>2. made \in Nat /\ PoolSize \in Nat
  BY SlotsFacts DEF BumpInv, ChainInv, TypeOK
<1>3. used \in [PoolIds -> SUBSET Slots] /\ cnt \in [PoolIds -> Int]
  BY DEF BumpInv, ChainInv, TypeOK
<1>4. /\ used'[p] = 0 .. cnt[p] /\ cnt'[p] = cnt[p] + 1
      /\ \A q \in PoolIds : q # p => used'[q] = used[q] /\ cnt'[q] = cnt[q]
  BY <1>1, <1>3
<1>5. made' \in 0 .. MaxPools \/ made' = made
  BY <1>2, BoundAssumption DEF PoolIds
<1>6. 1 .. made' \subseteq PoolIds
  BY <1>2, <1>5, BoundAssumption DEF PoolIds, BumpInv, ChainInv, TypeOK
<1>7. Bump'
  <2>1. ASSUME NEW q \in 1 .. made'
        PROVE  /\ cnt'[q] \in 0 .. PoolSize
               /\ used'[q] = 0 .. cnt'[q] - 1
               /\ (\A t \in Types : q # last'[t]) => cnt'[q] = PoolSize
    <3>1. CASE q = p
      BY <1>2, <1>4, <3>1
    <3>2. CASE q # p
      <4>1. q \in 1 .. made
        BY <1>2, <3>2
      <4>2. q \in PoolIds /\ used'[q] = used[q] /\ cnt'[q] = cnt[q]
        BY <1>4, <1>6, <3>2
      <4>3. QED BY <4>1, <4>2 DEF BumpInv, Bump
    <3>3. QED BY <3>1, <3>2
  <2>2. PoolSize' = PoolSize
    OBVIOUS
  <2>3. QED BY <2>1 DEF Bump
<1>8. HeldInUse'
  <2>1. ASSUME NEW q \in PoolIds PROVE used'[q] = {i \in Slots : <<q, i>> \in held'}
    <3>1. used[q] = {i \in Slots : <<q, i>> \in held}
      BY DEF BumpInv, HeldInUse
    <3>2. cnt[p] \in Slots
      BY <1>2 DEF Slots
    <3>3. CASE q = p
      BY <1>1, <1>3, <3>1, <3>2, <3>3
    <3>4. CASE q # p
      BY <1>1, <1>3, <3>1, <3>4
    <3>5. QED BY <3>3, <3>4
  <2>2. QED BY <2>1 DEF HeldInUse
<1>9. Blank'
  <2>1. ASSUME NEW q \in PoolIds, q > made' PROVE used'[q] = {} /\ cnt'[q] = 0
    <3>1. q # p /\ q > made
      BY <1>2, <2>1 DEF PoolIds
    <3>2. QED BY <1>4, <3>1 DEF BumpInv, Blank
  <2>2. QED BY <2>1 DEF BumpInv, Blank
<1>10. QED BY <1>7, <1>8, <1>9

\* Creating a pool and using slot 0 is such a step, and the handle is new.
LEMMA CreateBump ==
  ASSUME Quiet, BumpInv, NEW t \in Types, CreateAndGive(t),
         last[t] # NULL => ~HaveFree(used[last[t]])
  PROVE  /\ Bump' /\ HeldInUse' /\ Blank'
         /\ held' = held \cup {<<made + 1, 0>>} /\ allocs' = allocs + 1
         /\ <<made + 1, 0>> \in Handles \ held
<1>1. made \in Nat /\ made + 1 \in PoolIds /\ PoolSize \in Nat /\ PoolSize > 0
  BY SlotsFacts, BoundAssumption
     DEF BumpInv, ChainInv, TypeOK, CreateAndGive, PoolIds
<1>2. used[made + 1] = {} /\ cnt[made + 1] = 0
  BY <1>1 DEF BumpInv, Blank
<1>3. [used EXCEPT ![made + 1] = {}] = used
  BY <1>2 DEF BumpInv, ChainInv, TypeOK
<1>4. Give(used, cnt, made + 1, cnt[made + 1])
  BY <1>2, <1>3 DEF CreateAndGive, Quiet
<1>5. /\ made' = made + 1 /\ useGc' = useGc /\ freed' = freed
      /\ last' = [last EXCEPT ![t] = made + 1] /\ DOMAIN last = Types
  BY DEF CreateAndGive, BumpInv, ChainInv, TypeOK
<1>6. ASSUME NEW q \in 1 .. made, \A r \in Types : q # last'[r]
      PROVE  cnt[q] = PoolSize
  <2>1. CASE q = last[t]
    BY <1>6, <2>1, BumpRoom DEF NULL
  <2>2. CASE q # last[t]
    <3>1. \A r \in Types : q # last[r]
      BY <1>5, <1>6, <2>2
    <3>2. QED BY <1>6, <3>1 DEF BumpInv, Bump
  <2>3. QED BY <2>1, <2>2
<1>7. Bump' /\ HeldInUse' /\ Blank'
  <2>1. used[made + 1] = 0 .. cnt[made + 1] - 1
    BY <1>2
  <2>2. \E r \in Types : last'[r] = made + 1
    BY <1>5
  <2>3. made + 1 \in 1 .. made' /\ made' \in {made, made + 1}
    BY <1>1, <1>5
  <2>4. cnt[made + 1] \in Nat /\ cnt[made + 1] < PoolSize
    BY <1>1, <1>2
  <2>5. useGc' = useGc /\ freed' = freed /\ made + 1 \in PoolIds
    BY <1>1, <1>5
  <2>6. QED BY <1>4, <1>6, <2>1, <2>2, <2>3, <2>4, <2>5, GiveBump
<1>8. held' = held \cup {<<made + 1, 0>>} /\ allocs' = allocs + 1
  BY <1>2, <1>4 DEF Give
<1>9. <<made + 1, 0>> \in Handles /\ <<made + 1, 0>> \notin held
  BY <1>1, <1>2, SlotsFacts DEF Handles, BumpInv, HeldInUse
<1>10. QED BY <1>7, <1>8, <1>9

\* Every step of the default build either answers no request or answers one
\* with a handle nobody holds; BumpInv is preserved.
LEMMA BumpStep ==
  ASSUME Quiet, BumpInv, [Next]_vars, ChainInv'
  PROVE  /\ BumpInv'
         /\ \/ UNCHANGED <<held, allocs>>
            \/ /\ allocs' = allocs + 1
               /\ \E h \in Handles \ held : held' = held \cup {h}
<1>1. ASSUME NEW t \in Types, MallocFirst(t) \/ MallocGrow(t)
      PROVE  /\ BumpInv' /\ allocs' = allocs + 1
             /\ \E h \in Handles \ held : held' = held \cup {h}
  <2>1. CreateAndGive(t) /\ (last[t] # NULL => ~HaveFree(used[last[t]]))
    BY <1>1 DEF MallocFirst, MallocGrow, Exhausted, LastFull, BumpInv, ChainInv, LastIsEnd
  <2>2. QED BY <2>1, CreateBump DEF BumpInv
<1>2. ASSUME NEW t \in Types, MallocLast(t)
      PROVE  /\ BumpInv' /\ allocs' = allocs + 1
             /\ \E h \in Handles \ held : held' = held \cup {h}
  <2> DEFINE p == last[t]
  <2>1. p \in 1 .. made /\ HaveFree(used[p])
    BY <1>2 DEF MallocLast, LastFull, HasPools, BumpInv, ChainInv, LastIsEnd, Chains
  <2>2. /\ p \in PoolIds /\ cnt[p] \in Nat /\ cnt[p] < PoolSize
        /\ FindFree(used[p], cnt[p]) = cnt[p]
        /\ cnt[p] \in Slots /\ cnt[p] \notin used[p]
    BY <2>1, BumpRoom
  <2>3. /\ Give(used, cnt, p, cnt[p])
        /\ UNCHANGED <<made, chain, last, freed, useGc>>
    BY <1>2, <2>2 DEF MallocLast
  <2>4. Bump' /\ HeldInUse' /\ Blank'
    <3>1. used[p] = 0 .. cnt[p] - 1
      BY <2>1 DEF BumpInv, Bump
    <3>2. ASSUME NEW q \in 1 .. made, \A r \in Types : q # last'[r]
          PROVE  cnt[q] = PoolSize
      BY <2>3, <3>2 DEF BumpInv, Bump
    <3>3. made \in Nat /\ \E r \in Types : last'[r] = p
      BY <2>3 DEF BumpInv, ChainInv, TypeOK
    <3>4. ~ (made' = made + 1)
      BY <2>3, <3>3
    <3> HIDE DEF p
    <3>5. QED BY <2>1, <2>2, <2>3, <3>1, <3>2, <3>3, <3>4, GiveBump
  <2>5. <<p, cnt[p]>> \in Handles \ held
    BY <2>2 DEF Handles, BumpInv, HeldInUse
  <2>6. held' = held \cup {<<p, cnt[p]>>} /\ allocs' = allocs + 1
    BY <2>3 DEF Give
  <2>7. QED BY <2>4, <2>5, <2>6 DEF BumpInv
<1>3. ASSUME NEW t \in Types, MallocAbort(t) PROVE BumpInv' /\ UNCHANGED <<held, allocs>>
  BY <1>3 DEF MallocAbort, Abort, BumpInv, Bump, HeldInUse, Blank
<1>4. ASSUME UNCHANGED vars PROVE BumpInv' /\ UNCHANGED <<held, allocs>>
  BY <1>4 DEF vars, BumpInv, Bump, HeldInUse, Blank
<1>5. ASSUME NEW t \in Types
      PROVE  /\ ~MallocOther(t) /\ ~MallocCollect(t)
  BY QuietPaths
<1>6. ~Enable /\ ~Disable /\ ~NoMemory /\ ~NoMemoryAbort /\ ~NoMemoryExit
  BY DEF Quiet, Enable, Disable, NoMemory, NoMemoryAbort, NoMemoryExit, BumpInv, Blank
<1>7. QED BY <1>1, <1>2, <1>3, <1>4, <1>5, <1>6 DEF Next, Malloc

\* The initial state.
LEMMA BumpInit ==
  ASSUME Init, ChainInv
  PROVE  BumpInv
<1>1. Bump
  BY DEF Init, Bump
<1>2. HeldInUse /\ Blank
  BY DEF Init, HeldInUse, Blank
<1>3. QED BY <1>1, <1>2 DEF BumpInv

\* In the default build pools fill from slot 0 upwards, only the last pool of
\* a type has room.
THEOREM BumpInvariant ==
  ASSUME Quiet
  PROVE  Spec => []Bump
<1>1. Init /\ ChainInv => BumpInv
  BY BumpInit
<1>2. BumpInv /\ ChainInv' /\ [Next]_vars => BumpInv'
  BY BumpStep
<1>3. BumpInv => Bump
  BY DEF BumpInv
<1>4. QED BY <1>1, <1>2, <1>3, ChainInvariant, PTL DEF Spec

\* In the default build no object is handed out twice.
THEOREM NoAliasing ==
  ASSUME Quiet
  PROVE  Spec => NoAlias
<1>1. Init /\ ChainInv => BumpInv
  BY BumpInit
<1>2. BumpInv /\ ChainInv' /\ [Next]_vars => BumpInv'
  BY BumpStep
<1>3. BumpInv /\ ChainInv' /\ [Next]_vars =>
        [allocs' # allocs => \E h \in Handles \ held : held' = held \cup {h}]_vars
  BY BumpStep
<1>4. QED BY <1>1, <1>2, <1>3, ChainInvariant, PTL DEF Spec, NoAlias

-----------------------------------------------------------------------------
(***************************************************************************)
(* How many pools the default build makes.  What a type holds and how many *)
(* pools it has are kept in step by every request, so nothing has to be    *)
(* counted over a whole chain.                                             *)
(***************************************************************************)
\* the objects of type t
ObjectsOf(t) == {h \in held : h[1] \in chain[t]}

\* All pools of a type but the last are full, and the last is not empty.
Counted(t) ==
  LET k == Cardinality(chain[t])
  IN  /\ IsFiniteSet(chain[t]) /\ IsFiniteSet(ObjectsOf(t))
      /\ chain[t] = {} => ObjectsOf(t) = {}
      /\ chain[t] # {} =>
           /\ k >= 1 /\ cnt[last[t]] >= 1
           /\ Cardinality(ObjectsOf(t)) = (k - 1) * PoolSize + cnt[last[t]]

AllCounted == \A t \in Types : Counted(t)

\* In the default build a chain that is not empty ends in gt_pool_last.
LEMMA QuietLast ==
  ASSUME BumpInv, NEW t \in Types, chain[t] # {}
  PROVE  last[t] \in chain[t] /\ last[t] \in 1 .. made
<1>1. chain[t] \cap freed = {}
  BY DEF BumpInv, Blank
<1>2. last[t] # NULL
  BY <1>1 DEF BumpInv, ChainInv, FreedLead
<1>3. QED BY <1>2 DEF BumpInv, ChainInv, LastIsEnd, Chains

\* The request of one type is counted there and nowhere else.
LEMMA OthersCounted ==
  ASSUME BumpInv, AllCounted, NEW t \in Types, NEW r \in Types, r # t, NEW p, NEW i,
         p \notin chain[r], held' = held \cup {<<p, i>>},
         chain'[r] = chain[r], last'[r] = last[r],
         \A q \in PoolIds : q # p => cnt'[q] = cnt[q]
  PROVE  Counted(r)'
<1>1. ObjectsOf(r)' = ObjectsOf(r)
  BY DEF ObjectsOf
<1>2. ASSUME chain[r] # {} PROVE cnt'[last'[r]] = cnt[last[r]]
  <2>1. last[r] \in chain[r] /\ last[r] \in PoolIds
    BY <1>2, QuietLast DEF BumpInv, ChainInv, TypeOK
  <2>2. QED BY <2>1
<1>3. Counted(r)
  BY DEF AllCounted
<1>4. QED BY <1>1, <1>2, <1>3 DEF Counted

\* A new pool is made when all others are full.
LEMMA CreateCounted ==
  ASSUME Quiet, BumpInv, AllCounted, NEW t \in Types, CreateAndGive(t),
         chain[t] # {} => ~HaveFree(used[last[t]])
  PROVE  AllCounted'
<1> DEFINE p == made + 1
           k == Cardinality(chain[t])
<1>1. /\ made \in Nat /\ p \in PoolIds /\ PoolSize \in Nat
      /\ \A r \in Types : p \notin chain[r]
  BY SlotsFacts, BoundAssumption
     DEF BumpInv, ChainInv, TypeOK, CreateAndGive, PoolIds, Chains
<1>2. /\ chain' = [chain EXCEPT ![t] = @ \cup {p}]
      /\ last' = [last EXCEPT ![t] = p]
      /\ held' = held \cup {<<p, 0>>}
      /\ cnt' = [cnt EXCEPT ![p] = @ + 1]
  BY DEF CreateAndGive, Give
<1>3. /\ cnt[p] = 0 /\ used[p] = {}
      /\ chain \in [Types -> SUBSET PoolIds] /\ last \in [Types -> PoolIds \cup {NULL}]
      /\ cnt \in [PoolIds -> Int] /\ held \subseteq Handles
  BY <1>1 DEF BumpInv, Blank, ChainInv, TypeOK
<1>4. <<p, 0>> \notin held
  BY <1>1, <1>3, SlotsFacts DEF BumpInv, HeldInUse
<1>5. ASSUME NEW r \in Types, r # t PROVE Counted(r)'
  <2>1. chain'[r] = chain[r] /\ last'[r] = last[r]
    BY <1>2, <1>3, <1>5
  <2>2. \A q \in PoolIds : q # p => cnt'[q] = cnt[q]
    BY <1>2, <1>3
  <2> HIDE DEF p
  <2>3. QED BY <1>1, <1>2, <1>5, <2>1, <2>2, OthersCounted
<1>6. Counted(t)'
  <2>1. chain'[t] = chain[t] \cup {p} /\ last'[t] = p /\ cnt'[p] = 1
    BY <1>1, <1>2, <1>3
  <2>2. \A h \in held : h[1] # p
    <3>1. SUFFICES ASSUME NEW h \in held, h[1] = p PROVE FALSE
      OBVIOUS
    <3>2. h \in Handles /\ h = <<h[1], h[2]>> /\ h[2] \in Slots
      BY <1>3 DEF Handles
    <3>3. h[2] \in used[p]
      BY <1>1, <3>1, <3>2 DEF BumpInv, HeldInUse
    <3>4. QED BY <1>3, <3>3
  <2>3. ObjectsOf(t)' = ObjectsOf(t) \cup {<<p, 0>>} /\ <<p, 0>> \notin ObjectsOf(t)
    BY <1>2, <1>4, <2>1, <2>2 DEF ObjectsOf
  <2>4. Counted(t)
    BY DEF AllCounted
  <2>5. /\ IsFiniteSet(chain'[t]) /\ Cardinality(chain'[t]) = k + 1 /\ k \in Nat
    BY <1>1, <2>1, <2>4, FS_AddElement, FS_CardinalityType DEF Counted
  <2>6. /\ IsFiniteSet(ObjectsOf(t)') /\ Cardinality(ObjectsOf(t))' = Cardinality(ObjectsOf(t)) + 1
    BY <2>3, <2>4, FS_AddElement DEF Counted
  <2>7. Cardinality(ObjectsOf(t)) = k * PoolSize
    <3>1. CASE chain[t] = {}
      <4>1. k = 0 /\ Cardinality(ObjectsOf(t)) = 0
        BY <2>4, <3>1, FS_EmptySet DEF Counted
      <4>2. QED BY <1>1, <4>1
    <3>2. CASE chain[t] # {}
      <4>1. cnt[last[t]] = PoolSize
        BY <3>2, QuietLast, BumpRoom
      <4>2. Cardinality(ObjectsOf(t)) = (k - 1) * PoolSize + PoolSize
        BY <2>4, <3>2, <4>1 DEF Counted
      <4>3. (k - 1) * PoolSize + PoolSize = k * PoolSize
        BY <1>1, <2>5
      <4>4. QED BY <4>2, <4>3
    <3>3. QED BY <3>1, <3>2
  <2>8. /\ Cardinality(chain[t])' = k + 1 /\ (k + 1) - 1 = k /\ k + 1 >= 1
        /\ Cardinality(ObjectsOf(t))' = k * PoolSize + 1
    BY <2>5, <2>6, <2>7
  <2>9. chain'[t] # {} /\ cnt'[last'[t]] = 1 /\ 1 >= 1
    BY <2>1
  <2> HIDE DEF p, k
  <2>10. QED BY <2>5, <2>6, <2>8, <2>9 DEF Counted
<1>7. QED BY <1>5, <1>6 DEF AllCounted

\* A request the last pool answers.
LEMMA LastCounted ==
  ASSUME BumpInv, AllCounted, NEW t \in Types, MallocLast(t)
  PROVE  AllCounted'
<1> DEFINE p == last[t]
           i == cnt[p]
           k == Cardinality(chain[t])
<1>1. p \in chain[t] /\ p \in 1 .. made /\ HaveFree(used[p])
  BY QuietLast DEF MallocLast, LastFull, HasPools
<1>2. /\ p \in PoolIds /\ i \in Nat /\ FindFree(used[p], i) = i
      /\ i \in Slots /\ i \notin used[p]
  BY <1>1, BumpRoom
<1>3. /\ Give(used, cnt, p, i) /\ UNCHANGED <<made, chain, last, freed, useGc>>
  BY <1>2 DEF MallocLast
<1>4. /\ held' = held \cup {<<p, i>>} /\ cnt' = [cnt EXCEPT ![p] = @ + 1]
  BY <1>3 DEF Give
<1>5. cnt \in [PoolIds -> Int] /\ PoolSize \in Nat
  BY SlotsFacts DEF BumpInv, ChainInv, TypeOK
<1>6. <<p, i>> \notin held
  BY <1>2 DEF BumpInv, HeldInUse
<1>7. ASSUME NEW r \in Types, r # t PROVE Counted(r)'
  <2>1. p \notin chain[r]
    BY <1>1, <1>7 DEF BumpInv, ChainInv, Chains
  <2>2. chain'[r] = chain[r] /\ last'[r] = last[r]
    BY <1>3
  <2>3. \A q \in PoolIds : q # p => cnt'[q] = cnt[q]
    BY <1>4, <1>5
  <2> HIDE DEF p, i
  <2>4. QED BY <1>4, <1>7, <2>1, <2>2, <2>3, OthersCounted
<1>8. Counted(t)'
  <2>1. ObjectsOf(t)' = ObjectsOf(t) \cup {<<p, i>>} /\ <<p, i>> \notin ObjectsOf(t)
    BY <1>1, <1>3, <1>4, <1>6 DEF ObjectsOf
  <2>2. Counted(t)
    BY DEF AllCounted
  <2>3. IsFiniteSet(ObjectsOf(t)') /\ Cardinality(ObjectsOf(t))' = Cardinality(ObjectsOf(t)) + 1
    BY <2>1, <2>2, FS_AddElement DEF Counted
  <2>4. cnt'[last'[t]] = i + 1
    BY <1>2, <1>3, <1>4, <1>5
  <2>5. /\ k \in Nat /\ k >= 1 /\ i >= 1 /\ (k - 1) * PoolSize \in Nat
        /\ Cardinality(ObjectsOf(t)) = (k - 1) * PoolSize + i
    BY <1>1, <1>5, <2>2, FS_CardinalityType DEF Counted
  <2>6. Cardinality(ObjectsOf(t))' = (k - 1) * PoolSize + (i + 1) /\ i + 1 >= 1
    BY <1>2, <2>3, <2>5
  <2>7. chain'[t] = chain[t] /\ Cardinality(chain[t])' = k /\ IsFiniteSet(chain'[t])
    BY <1>3, <2>2 DEF Counted
  <2> HIDE DEF k, i, p
  <2>8. QED BY <1>1, <2>3, <2>4, <2>5, <2>6, <2>7 DEF Counted
<1>9. QED BY <1>7, <1>8 DEF AllCounted

\* No other path is taken in the default build.
LEMMA CountedStep ==
  ASSUME Quiet, BumpInv, AllCounted, [Next]_vars
  PROVE  AllCounted'
<1>1. ASSUME NEW t \in Types, MallocFirst(t) \/ MallocGrow(t) PROVE AllCounted'
  <2>1. CreateAndGive(t) /\ (chain[t] # {} => ~HaveFree(used[last[t]]))
    BY <1>1 DEF MallocFirst, MallocGrow, Exhausted, LastFull
  <2>2. QED BY <2>1, CreateCounted
<1>2. ASSUME NEW t \in Types, MallocLast(t) PROVE AllCounted'
  BY <1>2, LastCounted
<1>3. ASSUME UNCHANGED <<chain, last, cnt, held>> PROVE AllCounted'
  BY <1>3 DEF AllCounted, Counted, ObjectsOf
<1>4. ASSUME NEW t \in Types, MallocAbort(t) PROVE AllCounted'
  BY <1>3, <1>4 DEF MallocAbort, Abort
<1>5. ASSUME UNCHANGED vars PROVE AllCounted'
  BY <1>3, <1>5 DEF vars
<1>6. ASSUME NEW t \in Types PROVE ~MallocOther(t) /\ ~MallocCollect(t)
  BY QuietPaths
<1>7. ~Enable /\ ~Disable /\ ~NoMemory /\ ~NoMemoryAbort /\ ~NoMemoryExit
  BY DEF Quiet, Enable, Disable, NoMemory, NoMemoryAbort, NoMemoryExit, BumpInv, Blank
<1>8. QED BY <1>1, <1>2, <1>4, <1>5, <1>6, <1>7 DEF Next, Malloc

\* Rounding up: what k - 1 full pools and a started one hold takes k pools.
LEMMA RoundUp ==
  ASSUME NEW k \in Nat \ {0}, NEW size \in Nat \ {0}, NEW c \in 1 .. size
  PROVE  (((k - 1) * size + c) + size - 1) \div size = k
<1>1. (k - 1) * size + size = k * size
  OBVIOUS
<1>2. (k - 1) * size \in Nat /\ k * size \in Nat
  OBVIOUS
<1>3. ((k - 1) * size + c) + size - 1 = k * size + (c - 1) /\ c - 1 \in 0 .. size - 1
  BY <1>1, <1>2
<1>4. (k * size + (c - 1)) \div size = k
  BY <1>2, <1>3
<1>5. QED BY <1>3, <1>4

\* In the default build a type owns as many pools as its objects need and not
\* one more, however the requests of the types are mixed.
THEOREM PoolsAreNeeded ==
  ASSUME Quiet
  PROVE  Spec => []PoolsNeeded
<1>1. Init /\ ChainInv => BumpInv
  BY BumpInit
<1>2. BumpInv /\ ChainInv' /\ [Next]_vars => BumpInv'
  BY BumpStep
<1>3. Init => AllCounted
  <2>1. SUFFICES ASSUME Init, NEW t \in Types PROVE Counted(t)
    BY DEF AllCounted
  <2>2. chain[t] = {} /\ ObjectsOf(t) = {}
    BY <2>1 DEF Init, ObjectsOf
  <2>3. QED BY <2>2, FS_EmptySet DEF Counted
<1>4. BumpInv /\ AllCounted /\ [Next]_vars => AllCounted'
  BY CountedStep
<1>5. BumpInv /\ AllCounted => PoolsNeeded
  <2>1. SUFFICES ASSUME BumpInv, AllCounted, NEW t \in Types
                 PROVE  Cardinality(chain[t]) =
                          (Cardinality(ObjectsOf(t)) + PoolSize - 1) \div PoolSize
    BY DEF PoolsNeeded, ObjectsOf
  <2>2. Counted(t) /\ PoolSize \in Nat \ {0}
    BY <2>1, SlotsFacts DEF AllCounted
  <2>3. CASE chain[t] = {}
    <3>1. Cardinality(chain[t]) = 0 /\ Cardinality(ObjectsOf(t)) = 0
      BY <2>2, <2>3, FS_EmptySet DEF Counted
    <3>2. (0 + PoolSize - 1) \div PoolSize = 0
      BY <2>2
    <3>3. QED BY <3>1, <3>2
  <2>4. CASE chain[t] # {}
    <3>1. /\ Cardinality(chain[t]) \in Nat \ {0} /\ cnt[last[t]] >= 1
          /\ Cardinality(ObjectsOf(t)) = (Cardinality(chain[t]) - 1) * PoolSize + cnt[last[t]]
      BY <2>2, <2>4, FS_CardinalityType DEF Counted
    <3>2. cnt[last[t]] \in 1 .. PoolSize
      BY <2>1, <2>2, <2>4, <3>1, QuietLast DEF BumpInv, Bump
    <3>3. QED BY <2>2, <3>1, <3>2, RoundUp
  <2>5. QED BY <2>3, <2>4
<1>6. QED BY <1>1, <1>2, <1>3, <1>4, <1>5, ChainInvariant, PTL DEF Spec
=============================================================================
