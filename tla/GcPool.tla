------------------------------- MODULE GcPool -------------------------------
(***************************************************************************)
(* The pool allocator of AkLisp (src/src/gc.c).                            *)
(*                                                                         *)
(* Every garbage-collected object lives in a pool: a vector of PoolSize    *)
(* slots with a bitmap (gp_freemap, one bit per slot, set when in use) and *)
(* a counter (av_count).  The pools of one type form a chain from          *)
(* gt_pool_head along gp_next; gt_pool_last is a second way in.  A handle  *)
(* <<p, i>> is slot i of pool p.                                           *)
(*                                                                         *)
(* Abstractions: a pool is a number, given in creation order.  New pools   *)
(* are always linked behind the last one, so gp_next leads to a larger     *)
(* number and a chain is the set of its pools: gt_pool_head is the least   *)
(* (a freed head stays in the set, the pointer is left dangling).          *)
(* POOL_SIZE 64 and 32 bits a word become PoolSize and W.  `1 << ind` with *)
(* ind above the width is taken modulo the width, as the shift instructions*)
(* of the targets do.                                                      *)
(***************************************************************************)
EXTENDS Integers, FiniteSets, FiniteSetsExt

CONSTANTS
  Types,       \* registered GC types (akl_gc_register_type)
  W,           \* bits of an unsigned int (BITS_IN_UINT)
  NWords,      \* words of gp_freemap
  Garbage,     \* what the bytes memset does not reach may hold at creation
  GcAllowed,   \* can the user turn the collector on with (akl-cfg! :use-gc)?
  NoMem,       \* can the host's malloc return NULL?
  MaxPools,    \* bound: pools ever created
  MaxAllocs    \* bound: objects ever requested

PoolSize == NWords * W
Slots    == 0 .. PoolSize - 1
PoolIds  == 1 .. MaxPools
NULL     == 0
Handles  == PoolIds \X Slots

ASSUME WidthAssumption   == W \in Nat \ {0} /\ NWords \in Nat \ {0}
ASSUME BoundAssumption   == MaxPools \in Nat /\ MaxAllocs \in Nat
ASSUME GarbageAssumption == Garbage # {} /\ Garbage \subseteq SUBSET (Slots \ {0})
ASSUME SwitchAssumption  == GcAllowed \in BOOLEAN /\ NoMem \in BOOLEAN

VARIABLES
  made,        \* pools created so far: the ids 1 .. made
  chain,       \* type -> the pools met from gt_pool_head along gp_next
  last,        \* type -> gt_pool_last, or NULL
  used,        \* pool -> slots whose bit is set in gp_freemap
  cnt,         \* pool -> av_count of gp_pool
  freed,       \* pools given back by akl_gc_pool_free
  useGc,       \* the AKL_CFG_USE_GC feature bit
  lastWasMark, \* ai_gc_last_was_mark
  status,      \* "run", "exit" (AKL_NM_TERMINATE) or "abort" (assertion or
               \* a use of freed memory)
  held,        \* handles the allocator gave to the interpreter
  allocs       \* requests answered

vars == <<made, chain, last, used, cnt, freed, useGc, lastWasMark, status,
          held, allocs>>

(***************************************************************************)
(* The bitmap.                                                             *)
(***************************************************************************)
WordOf(i)  == i \div W
FullWord(u, w) == \A i \in Slots : WordOf(i) = w => i \in u

\* (faulty variant: the loop stops after the first word)
HaveFreeFirstWord(u) == ~FullWord(u, 0)

\* akl_gc_pool_have_free: some word of the bitmap is not UINT_MAX
HaveFree(u) == \E w \in 0 .. NWords - 1 : ~FullWord(u, w)

\* akl_gc_pool_find_free: slot av_count when it is free; else the first clear
\* bit j of the first word that is not full, returned without its word's offset
FirstClear(u) ==
  LET w == CHOOSE x \in 0 .. NWords - 1 :
             ~FullWord(u, x) /\ \A y \in 0 .. x - 1 : FullWord(u, y)
  IN  CHOOSE j \in 0 .. W - 1 :
             w * W + j \notin u /\ \A k \in 0 .. j - 1 : w * W + k \in u

FindFree(u, c) ==
  IF c < PoolSize /\ c \notin u THEN c ELSE FirstClear(u)

\* akl_gc_pool_is_empty: the words are added up in an int, which wraps
IsEmpty(u) ==
  FoldSet(LAMBDA i, s : (s + 2 ^ (i % W)) % 2 ^ W, 0, u) = 0

(***************************************************************************)
(* Handing out slot i of pool p (akl_gc_pool_use and the return of         *)
(* akl_gc_malloc); u and c are the bitmaps and counters to start from.     *)
(* The first two forms are faulty variants, to see that the properties     *)
(* notice: the counter forgotten, the object after the slot returned.      *)
(***************************************************************************)
GiveUncounted(u, c, p, i) ==
  /\ used' = [u EXCEPT ![p] = @ \cup {i}]
  /\ cnt' = c
  /\ held' = held \cup {<<p, i>>}
  /\ allocs' = allocs + 1

GiveNext(u, c, p, i) ==
  /\ used' = [u EXCEPT ![p] = @ \cup {i}]
  /\ cnt' = [c EXCEPT ![p] = @ + 1]
  /\ held' = held \cup {<<p, i + 1>>}
  /\ allocs' = allocs + 1

Give(u, c, p, i) ==
  /\ used' = [u EXCEPT ![p] = @ \cup {i}]
  /\ cnt' = [c EXCEPT ![p] = @ + 1]
  /\ held' = held \cup {<<p, i>>}
  /\ allocs' = allocs + 1

\* akl_gc_pool_create: link a new pool behind gt_pool_last, then use slot 0;
\* the bits memset does not clear hold any g of Garbage.
CreateAndGive(t) ==
  /\ made < MaxPools
  /\ made' = made + 1
  /\ chain' = [chain EXCEPT ![t] = @ \cup {made + 1}]
  /\ last' = [last EXCEPT ![t] = made + 1]
  /\ \E g \in Garbage : Give([used EXCEPT ![made + 1] = g], cnt, made + 1, 0)
  /\ UNCHANGED <<freed, useGc, status>>

(***************************************************************************)
(* akl_gc_malloc, one action per path through it.                          *)
(***************************************************************************)
Running == status = "run" /\ allocs < MaxAllocs

\* gt_pool_head is NULL: akl_gc_type_have_free creates the first pool
MallocFirst(t) ==
  /\ Running
  /\ chain[t] = {}
  /\ CreateAndGive(t)
  /\ UNCHANGED lastWasMark

HasPools(t)  == chain[t] # {} /\ last[t] # NULL
HeadAlive(t) == Min(chain[t]) \notin freed
LastFull(t)  == HasPools(t) /\ ~HaveFree(used[last[t]])

\* the last pool has room
MallocLast(t) ==
  /\ Running /\ HasPools(t) /\ ~LastFull(t)
  /\ cnt[last[t]] >= 0
  /\ Give(used, cnt, last[t], FindFree(used[last[t]], cnt[last[t]]))
  /\ UNCHANGED <<made, chain, last, freed, useGc, lastWasMark, status>>

\* the pools before the last one that have room; the walk stops at the first
WithRoom(t)  == {p \in chain[t] \ {last[t]} : HaveFree(used[p])}
Exhausted(t) == LastFull(t) /\ HeadAlive(t) /\ WithRoom(t) = {}

\* an earlier pool has room: *pool is set and *ind never is, so the slot is
\* whatever the uninitialized variable holds
MallocOther(t) ==
  /\ Running /\ LastFull(t) /\ HeadAlive(t) /\ WithRoom(t) # {}
  /\ \E i \in Slots : Give(used, cnt, Min(WithRoom(t)), i)
  /\ UNCHANGED <<made, chain, last, freed, useGc, lastWasMark, status>>

InChains == UNION {chain[t] : t \in Types}

\* Nothing is free and the collector is on: akl_gc_mark marks nothing, so
\* akl_gc_sweep clears every slot of every pool; then the request is retried,
\* and the last pool now has room.
MallocCollect(t) ==
  /\ Running /\ Exhausted(t)
  /\ useGc /\ ~lastWasMark
  /\ InChains \cap freed = {}
  /\ LET u == [p \in PoolIds |-> used[p] \ IF p \in InChains THEN Slots ELSE {}]
         c == [p \in PoolIds |-> cnt[p] - Cardinality(used[p] \ u[p])]
     IN  /\ c[last[t]] >= 0
         /\ Give(u, c, last[t], FindFree(u[last[t]], c[last[t]]))
  /\ lastWasMark' = TRUE
  /\ UNCHANGED <<made, chain, last, freed, useGc, status>>

\* Nothing is free and collecting is off or was the last thing tried
MallocGrow(t) ==
  /\ Running /\ Exhausted(t)
  /\ lastWasMark \/ ~useGc
  /\ CreateAndGive(t)
  /\ lastWasMark' = FALSE

Abort == status' = "abort" /\ UNCHANGED <<made, chain, last, used, cnt, freed,
                                          useGc, lastWasMark, held, allocs>>

\* The other outcomes end the program or leave the defined language:
\* ASSERT_INDEX on a slot out of range or a count below zero, assert(p) on a
\* NULL gt_pool_last, the walk or the sweep of a freed pool.
MallocAbort(t) ==
  /\ Running /\ chain[t] # {}
  /\ \/ last[t] = NULL
     \/ LastFull(t) /\ ~HeadAlive(t)
     \/ LastFull(t) /\ HeadAlive(t) /\ WithRoom(t) # {}
     \/ Exhausted(t) /\ useGc /\ ~lastWasMark /\ InChains \cap freed # {}
     \/ HasPools(t) /\ ~LastFull(t) /\ cnt[last[t]] < 0
  /\ Abort

(***************************************************************************)
(* The configuration switch and the out-of-memory handler.                 *)
(***************************************************************************)
Enable == /\ status = "run" /\ GcAllowed /\ ~useGc
          /\ useGc' = TRUE
          /\ UNCHANGED <<made, chain, last, used, cnt, freed, lastWasMark,
                         status, held, allocs>>

Disable == /\ status = "run" /\ useGc
           /\ useGc' = FALSE
           /\ UNCHANGED <<made, chain, last, used, cnt, freed, lastWasMark,
                          status, held, allocs>>

Empties(t) == {p \in chain[t] : IsEmpty(used[p])}

\* the chain after akl_gc_type_tryfree: an empty pool is unlinked only when a
\* pool that stays comes before it, otherwise gt_pool_head still points at it
Unlink(t) ==
  {p \in chain[t] : p \in Empties(t) => \A q \in chain[t] : q < p => q \in Empties(t)}

\* (faulty variant: gt_pool_last is not looked after)
KeepLast(t) == last[t]

\* gt_pool_last moves to the pool that stays before it when the final pool goes
NewLast(t) ==
  LET stay == chain[t] \ Empties(t)
  IN  IF chain[t] # {} /\ Max(chain[t]) \in Empties(t)
      THEN IF stay = {} THEN NULL ELSE Max(stay)
      ELSE last[t]

Gone == UNION {Empties(t) : t \in Types}

\* akl_def_nomem_handler with akl_gc_tryfree: some allocation of the
\* interpreter got NULL; empty pools are freed and the allocation is retried.
\* Freed by other types' tryfree while akl_gc_pool_create waits for memory is
\* the same as freed before: every pool of its own type is full then.
NoMemory ==
  /\ status = "run" /\ NoMem
  /\ Gone # {}
  /\ InChains \cap freed = {}
  /\ freed' = freed \cup Gone
  /\ chain' = [t \in Types |-> Unlink(t)]
  /\ last' = [t \in Types |-> NewLast(t)]
  /\ UNCHANGED <<made, used, cnt, useGc, lastWasMark, status, held, allocs>>

\* akl_gc_pool_free also frees a pointer into the middle of the pool, which
\* the host's free may answer with an abort; so does a walk over a freed pool
NoMemoryAbort == status = "run" /\ NoMem /\ Gone # {} /\ Abort

\* nothing to free: AKL_NM_TERMINATE, exit(1)
NoMemoryExit ==
  /\ status = "run" /\ NoMem /\ Gone = {}
  /\ status' = "exit"
  /\ UNCHANGED <<made, chain, last, used, cnt, freed, useGc, lastWasMark,
                 held, allocs>>

Init ==
  /\ made = 0
  /\ chain = [t \in Types |-> {}]
  /\ last = [t \in Types |-> NULL]
  /\ used = [p \in PoolIds |-> {}]
  /\ cnt = [p \in PoolIds |-> 0]
  /\ freed = {}
  /\ useGc = FALSE
  /\ lastWasMark = FALSE
  /\ status = "run"
  /\ held = {}
  /\ allocs = 0

Malloc(t) ==
  \/ MallocFirst(t) \/ MallocLast(t) \/ MallocOther(t)
  \/ MallocCollect(t) \/ MallocGrow(t) \/ MallocAbort(t)

Next ==
  \/ \E t \in Types : Malloc(t)
  \/ Enable \/ Disable
  \/ NoMemory \/ NoMemoryAbort \/ NoMemoryExit

Spec == Init /\ [][Next]_vars

-----------------------------------------------------------------------------
(***************************************************************************)
(* Properties.                                                             *)
(***************************************************************************)

\* Type invariant: every variable of the allocator keeps its shape.
TypeOK ==
  /\ made \in 0 .. MaxPools
  /\ chain \in [Types -> SUBSET PoolIds]
  /\ last \in [Types -> PoolIds \cup {NULL}]
  /\ used \in [PoolIds -> SUBSET Slots]
  /\ cnt \in [PoolIds -> Int]
  /\ freed \subseteq PoolIds
  /\ useGc \in BOOLEAN /\ lastWasMark \in BOOLEAN
  /\ status \in {"run", "exit", "abort"}
  /\ held \subseteq Handles
  /\ allocs \in Nat

\* akl_gc_malloc never answers a request with an object it already gave to
\* somebody: two values of the interpreter never share a slot.
NoAlias ==
  [][allocs' # allocs => \E h \in Handles \ held : held' = held \cup {h}]_vars

\* While nothing is collected a pool fills from slot 0 upwards, its counter is
\* the number of its objects, and only the last pool of a type has room: the
\* "small optimization" of akl_gc_type_have_free never has to walk the chain.
Bump ==
  \A p \in 1 .. made :
    /\ cnt[p] \in 0 .. PoolSize
    /\ used[p] = 0 .. cnt[p] - 1
    /\ (\A t \in Types : p # last[t]) => cnt[p] = PoolSize

\* A type never owns more pools than its objects need: memory of full pools
\* is ceil(objects / PoolSize), whatever the order of requests among types.
PoolsNeeded ==
  \A t \in Types :
    LET n == Cardinality({h \in held : h[1] \in chain[t]})
    IN  Cardinality(chain[t]) = (n + PoolSize - 1) \div PoolSize

\* However often empty pools are freed, as long as the head of a chain was not
\* among them the chain holds no freed pool and gt_pool_last is its end.
ChainSound ==
  \A t \in Types :
    chain[t] # {} /\ HeadAlive(t) =>
      chain[t] \cap freed = {} /\ last[t] = Max(chain[t])

\* No object is handed out of a pool that was given back to the host.  The
\* pointers gt_pool_head and gt_pool_last and the links outlive the pools that
\* one sweep emptied and a later lack of memory freed, the head among them; an
\* allocation after that must not come back to one of those.
NothingFromFreed ==
  [][\A p \in freed : used'[p] = used[p] /\ cnt'[p] = cnt[p]]_vars

\* The counter of a pool never falls below the number of set bits, so that a
\* sweep cannot bring it below zero and ASSERT_INDEX never fires, not even
\* after a slot was handed out twice through the uninitialized index.
CountCoversUsed ==
  \A p \in PoolIds : cnt[p] >= Cardinality(used[p])

\* gc.c:389 "Must start from the second pool.": akl_gc_type_tryfree never
\* frees the pool gt_pool_head points at.
HeadNeverFreed ==
  \A t \in Types : chain[t] # {} => HeadAlive(t)
=============================================================================
