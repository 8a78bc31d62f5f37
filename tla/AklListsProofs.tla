--------------------------- MODULE AklListsProofs ---------------------------
(***************************************************************************)
(* Theorems about lists that share their entries (AklLists), for any       *)
(* number of variables and of entries.                                     *)
(***************************************************************************)
EXTENDS AklLists, FiniteSetTheorems, SequenceTheorems, WellFoundedInduction, TLAPS

-----------------------------------------------------------------------------
(* Following links.                                                        *)

\* Induction: a set of natural numbers with 0 and the successor of each member
\* holds them all.
LEMMA AllNaturals ==
  ASSUME NEW S \in SUBSET Nat, 0 \in S, \A n \in S : n + 1 \in S
  PROVE  \A n \in Nat : n \in S
<1> DEFINE T == Nat \ S
<1>1. SUFFICES ASSUME T # {} PROVE FALSE
  OBVIOUS
<1>2. \E x \in T : \A y \in T : ~ (<<y, x>> \in OpToRel(<, Nat))
  BY <1>1, NatLessThanWellFounded, WFMin
<1>3. PICK x \in T : \A y \in T : ~ (<<y, x>> \in OpToRel(<, Nat))
  BY <1>2
<1>4. x \in Nat /\ x # 0 /\ x - 1 \in Nat /\ x = (x - 1) + 1
  OBVIOUS
<1>5. x - 1 \notin S
  BY <1>3, <1>4
<1>6. x - 1 \in T
  BY <1>4, <1>5
<1>7. <<x - 1, x>> \in OpToRel(<, Nat)
  BY <1>4 DEF OpToRel
<1>8. QED BY <1>3, <1>6, <1>7

\* the way along the links, n entries far
IsPath(g, link, e, n) ==
  g = [k \in 0 .. n |->
         IF k = 0 THEN e ELSE IF g[k - 1] = NULL THEN NULL ELSE link[g[k - 1]]]

\* There is a way of every length.
LEMMA PathExists ==
  ASSUME NEW link, NEW e
  PROVE  \A n \in Nat : \E g : IsPath(g, link, e, n)
<1> DEFINE S == {n \in Nat : \E g : IsPath(g, link, e, n)}
<1>1. 0 \in S
  <2> DEFINE g == [k \in 0 .. 0 |-> e]
  <2>1. IsPath(g, link, e, 0)
    BY DEF IsPath
  <2>2. QED BY <2>1
<1>2. ASSUME NEW n \in S PROVE n + 1 \in S
  <2>1. PICK g : IsPath(g, link, e, n)
    OBVIOUS
  <2> DEFINE onward == IF g[n] = NULL THEN NULL ELSE link[g[n]]
             h == [k \in 0 .. n + 1 |-> IF k = n + 1 THEN onward ELSE g[k]]
             hh == [k \in 0 .. n + 1 |->
                     IF k = 0 THEN e ELSE IF h[k - 1] = NULL THEN NULL ELSE link[h[k - 1]]]
  <2>2. ASSUME NEW k \in 0 .. n + 1 PROVE h[k] = hh[k]
    <3>1. CASE k = n + 1
      <4>1. n \in 0 .. n + 1 /\ n # n + 1 /\ k - 1 = n /\ k # 0
        BY <3>1
      <4>2. h[k] = onward /\ h[k - 1] = g[n]
        BY <3>1, <4>1
      <4>3. QED BY <4>1, <4>2
    <3>2. CASE k # n + 1
      <4>1. k \in 0 .. n /\ h[k] = g[k]
        BY <3>2
      <4>2. g[k] = IF k = 0 THEN e ELSE IF g[k - 1] = NULL THEN NULL ELSE link[g[k - 1]]
        BY <2>1, <4>1 DEF IsPath
      <4>3. k # 0 => k - 1 \in 0 .. n + 1 /\ k - 1 # n + 1 /\ h[k - 1] = g[k - 1]
        BY <4>1
      <4>4. hh[k] = IF k = 0 THEN e ELSE IF h[k - 1] = NULL THEN NULL ELSE link[h[k - 1]]
        OBVIOUS
      <4> HIDE DEF h, hh
      <4>5. QED BY <4>1, <4>2, <4>3, <4>4
    <3>3. QED BY <3>1, <3>2
  <2>3. h = hh
    BY <2>2
  <2>4. IsPath(h, link, e, n + 1)
    BY <2>3 DEF IsPath
  <2>5. QED BY <2>4
<1>3. S \in SUBSET Nat
  OBVIOUS
<1> HIDE DEF S
<1>4. \A n \in Nat : n \in S
  BY <1>1, <1>2, <1>3, AllNaturals
<1>5. QED BY <1>4 DEF S

\* Ways from the same entry agree as far as both go.
LEMMA PathsAgree ==
  ASSUME NEW link, NEW e, NEW m \in Nat, NEW n \in Nat, NEW g, NEW h,
         IsPath(g, link, e, m), IsPath(h, link, e, n)
  PROVE  \A k \in Nat : k <= m /\ k <= n => g[k] = h[k]
<1> DEFINE S == {k \in Nat : k <= m /\ k <= n => g[k] = h[k]}
<1>1. \A k \in 0 .. m :
        g[k] = IF k = 0 THEN e ELSE IF g[k - 1] = NULL THEN NULL ELSE link[g[k - 1]]
  BY DEF IsPath
<1>2. \A k \in 0 .. n :
        h[k] = IF k = 0 THEN e ELSE IF h[k - 1] = NULL THEN NULL ELSE link[h[k - 1]]
  BY DEF IsPath
<1>3. 0 \in S
  BY <1>1, <1>2
<1>4. ASSUME NEW k \in S PROVE k + 1 \in S
  <2>1. SUFFICES ASSUME k + 1 <= m, k + 1 <= n PROVE g[k + 1] = h[k + 1]
    OBVIOUS
  <2>2. g[k] = h[k] /\ k + 1 \in 0 .. m /\ k + 1 \in 0 .. n /\ (k + 1) - 1 = k /\ k + 1 # 0
    BY <2>1
  <2>3. QED BY <1>1, <1>2, <2>2
<1>5. S \in SUBSET Nat
  OBVIOUS
<1> HIDE DEF S
<1>6. \A k \in Nat : k \in S
  BY <1>3, <1>4, <1>5, AllNaturals
<1>7. QED BY <1>6 DEF S

\* Steps goes along such a way.
LEMMA StepsOnPath ==
  ASSUME NEW link, NEW e, NEW n \in Nat
  PROVE  \E g : IsPath(g, link, e, n) /\ Steps(link, e, n) = g[n]
<1> DEFINE at == CHOOSE g : IsPath(g, link, e, n)
<1>1. IsPath(at, link, e, n)
  BY PathExists
<1>2. Steps(link, e, n) = at[n]
  BY DEF Steps, IsPath
<1>3. QED BY <1>1, <1>2

\* What index meets first, and what it meets next.
LEMMA StepsZero ==
  ASSUME NEW link, NEW e
  PROVE  Steps(link, e, 0) = e
<1>1. PICK g : IsPath(g, link, e, 0) /\ Steps(link, e, 0) = g[0]
  BY StepsOnPath
<1>2. QED BY <1>1 DEF IsPath

LEMMA StepsNext ==
  ASSUME NEW link, NEW e, NEW n \in Nat
  PROVE  Steps(link, e, n + 1) = IF Steps(link, e, n) = NULL THEN NULL
                                 ELSE link[Steps(link, e, n)]
<1>1. PICK g : IsPath(g, link, e, n) /\ Steps(link, e, n) = g[n]
  BY StepsOnPath
<1>2. PICK h : IsPath(h, link, e, n + 1) /\ Steps(link, e, n + 1) = h[n + 1]
  BY StepsOnPath
<1>3. g[n] = h[n]
  BY <1>1, <1>2, PathsAgree
<1>4. n + 1 \in 0 .. n + 1 /\ n + 1 # 0 /\ (n + 1) - 1 = n
  OBVIOUS
<1>5. h[n + 1] = IF h[n] = NULL THEN NULL ELSE link[h[n]]
  BY <1>2, <1>4 DEF IsPath
<1>6. QED BY <1>1, <1>2, <1>3, <1>5

\* A set of natural numbers has a least element.
LEMMA LeastNatural ==
  ASSUME NEW S \in SUBSET Nat, S # {}
  PROVE  \E x \in S : \A y \in S : x <= y
<1>1. \E x \in S : \A y \in S : ~ (<<y, x>> \in OpToRel(<, Nat))
  BY NatLessThanWellFounded, WFMin
<1>2. PICK x \in S : \A y \in S : ~ (<<y, x>> \in OpToRel(<, Nat))
  BY <1>1
<1>3. ASSUME NEW y \in S PROVE x <= y
  <2>1. x \in Nat /\ y \in Nat
    OBVIOUS
  <2>2. ~ (y < x)
    BY <1>2, <2>1 DEF OpToRel
  <2>3. QED BY <2>1, <2>2
<1>4. QED BY <1>3

\* AKL_LIST_FOREACH meets entries until the link is NULL (or the cut is reached).
LEMMA WalkIs ==
  ASSUME NEW link, NEW e, NEW n \in Nat
  PROVE  \E len \in 0 .. n :
           /\ Walk(link, e, n) = [k \in 1 .. len |-> Steps(link, e, k - 1)]
           /\ len = n \/ Steps(link, e, len) = NULL
           /\ \A j \in 0 .. (len - 1) : Steps(link, e, j) # NULL
<1> DEFINE End(k) == /\ k = n \/ Steps(link, e, k) = NULL
                     /\ \A j \in 0 .. (k - 1) : Steps(link, e, j) # NULL
           len == CHOOSE k \in 0 .. n : End(k)
           N == {k \in 0 .. n : k = n \/ Steps(link, e, k) = NULL}
<1>1. \E k \in 0 .. n : End(k)
  <2>1. N \in SUBSET Nat /\ n \in N
    OBVIOUS
  <2>2. PICK x \in N : \A y \in N : x <= y
    BY <2>1, LeastNatural
  <2>3. ASSUME NEW j \in 0 .. (x - 1) PROVE Steps(link, e, j) # NULL
    <3>1. j \in 0 .. n /\ ~ (x <= j)
      BY <2>1
    <3>2. j \notin N
      BY <2>2, <3>1
    <3>3. QED BY <3>1, <3>2
  <2>4. x \in 0 .. n /\ End(x)
    BY <2>3
  <2>5. QED BY <2>4
<1>2. len \in 0 .. n /\ End(len)
  BY <1>1
<1>3. Walk(link, e, n) = [k \in 1 .. len |-> Steps(link, e, k - 1)]
  BY DEF Walk
<1>4. QED BY <1>2, <1>3

\* Along links between entries a way stays on them.
LEMMA StepsType ==
  ASSUME NEW E, NULL \notin E, NEW T \in SUBSET E,
         NEW link \in [E -> T \cup {NULL}], NEW e \in T \cup {NULL}
  PROVE  \A n \in Nat : Steps(link, e, n) \in T \cup {NULL}
<1> DEFINE S == {n \in Nat : Steps(link, e, n) \in T \cup {NULL}}
<1>1. 0 \in S
  BY StepsZero
<1>2. ASSUME NEW n \in S PROVE n + 1 \in S
  BY StepsNext
<1>3. S \in SUBSET Nat
  OBVIOUS
<1> HIDE DEF S
<1>4. \A n \in Nat : n \in S
  BY <1>1, <1>2, <1>3, AllNaturals
<1>5. QED BY <1>4 DEF S

\* The links lead from each of the n entries of s to the next.
Along(link, s, n) ==
  /\ \A i \in 1 .. n : s[i] # NULL
  /\ \A i \in 1 .. n - 1 : link[s[i]] = s[i + 1]

\* So does a way that begins at the first.
LEMMA StepsOfChain ==
  ASSUME NEW link, NEW s, NEW n \in Nat \ {0}, Along(link, s, n)
  PROVE  \A k \in 0 .. n - 1 : Steps(link, s[1], k) = s[k + 1]
<1> DEFINE S == {k \in Nat : k < n => Steps(link, s[1], k) = s[k + 1]}
<1>1. 0 \in S
  BY StepsZero
<1>2. ASSUME NEW k \in S PROVE k + 1 \in S
  <2>1. SUFFICES ASSUME k + 1 < n PROVE Steps(link, s[1], k + 1) = s[(k + 1) + 1]
    OBVIOUS
  <2>2. Steps(link, s[1], k) = s[k + 1] /\ k + 1 \in 1 .. n - 1 /\ k + 1 \in 1 .. n
    BY <2>1
  <2>3. s[k + 1] # NULL /\ link[s[k + 1]] = s[(k + 1) + 1]
    BY <2>2 DEF Along
  <2>4. QED BY <2>2, <2>3, StepsNext
<1>3. S \in SUBSET Nat
  OBVIOUS
<1> HIDE DEF S
<1>4. \A k \in Nat : k \in S
  BY <1>1, <1>2, <1>3, AllNaturals
<1>5. QED BY <1>4 DEF S

\* Links that lead upwards in some order never lead back.
LEMMA StepsClimb ==
  ASSUME NEW E, NULL \notin E, NEW T \in SUBSET E,
         NEW link \in [E -> T \cup {NULL}], NEW e \in T \cup {NULL}, NEW p \in [E -> Int],
         \A x \in T : link[x] # NULL => p[x] < p[link[x]],
         NEW i \in Nat
  PROVE  \A j \in Nat : i < j /\ Steps(link, e, j) # NULL =>
           Steps(link, e, i) # NULL /\ p[Steps(link, e, i)] < p[Steps(link, e, j)]
<1> DEFINE at(k) == Steps(link, e, k)
           S == {j \in Nat : i < j /\ at(j) # NULL => at(i) # NULL /\ p[at(i)] < p[at(j)]}
<1>1. 0 \in S
  OBVIOUS
<1>2. ASSUME NEW j \in S PROVE j + 1 \in S
  <2>1. SUFFICES ASSUME i < j + 1, at(j + 1) # NULL
                 PROVE  at(i) # NULL /\ p[at(i)] < p[at(j + 1)]
    OBVIOUS
  <2>2. at(j) # NULL /\ at(j + 1) = link[at(j)]
    BY <2>1, StepsNext
  <2>3. at(j) \in T /\ at(j + 1) \in T /\ at(i) \in T \cup {NULL}
    BY <2>1, <2>2, StepsType
  <2>4. p[at(j)] < p[at(j + 1)]
    BY <2>1, <2>2, <2>3
  <2> HIDE DEF at
  <2>5. CASE i = j
    BY <2>2, <2>4, <2>5
  <2>6. CASE i < j
    <3>1. at(i) # NULL /\ p[at(i)] < p[at(j)]
      BY <2>2, <2>6
    <3>2. p[at(i)] \in Int /\ p[at(j)] \in Int /\ p[at(j + 1)] \in Int
      BY <2>3, <3>1
    <3>3. QED BY <2>4, <3>1, <3>2
  <2>7. QED BY <2>1, <2>5, <2>6
<1>3. S \in SUBSET Nat
  OBVIOUS
<1> HIDE DEF S, at
<1>4. \A j \in Nat : j \in S
  BY <1>1, <1>2, <1>3, AllNaturals
<1>5. QED BY <1>4 DEF S, at

\* So a walk that meets only the entries 1 .. m meets m of them at most.
LEMMA WalkShort ==
  ASSUME NEW N \in Nat, NEW m \in 0 .. N,
         NEW link \in [1 .. N -> 0 .. m], NEW e \in 0 .. m, NEW p \in [1 .. N -> Int],
         \A x \in 1 .. m : link[x] # NULL => p[x] < p[link[x]]
  PROVE  \E len \in 0 .. m :
           /\ Walk(link, e, m + 1) = [k \in 1 .. len |-> Steps(link, e, k - 1)]
           /\ Steps(link, e, len) = NULL
           /\ \A j \in 0 .. (len - 1) : Steps(link, e, j) \in 1 .. m
<1> DEFINE at(k) == Steps(link, e, k)
           f == [k \in 0 .. m |-> at(k)]
<1>1. /\ NULL \notin 1 .. N /\ 1 .. m \in SUBSET (1 .. N) /\ (1 .. m) \cup {NULL} = 0 .. m
      /\ m \in Nat /\ m + 1 \in Nat
  BY DEF NULL
<1>2. link \in [1 .. N -> (1 .. m) \cup {NULL}] /\ e \in (1 .. m) \cup {NULL}
  BY <1>1
<1>3. \A k \in Nat : at(k) \in (1 .. m) \cup {NULL}
  BY <1>1, <1>2, StepsType
<1>4. ASSUME NEW i \in Nat, NEW j \in Nat, i < j, at(j) # NULL PROVE p[at(i)] < p[at(j)]
  BY <1>1, <1>2, <1>4, StepsClimb
<1>5. PICK len \in 0 .. m + 1 :
           /\ Walk(link, e, m + 1) = [k \in 1 .. len |-> at(k - 1)]
           /\ len = m + 1 \/ at(len) = NULL
           /\ \A j \in 0 .. (len - 1) : at(j) # NULL
  BY <1>1, WalkIs
<1> HIDE DEF at
<1>6. \A j \in 0 .. (len - 1) : at(j) \in 1 .. m
  <2>1. TAKE j \in 0 .. (len - 1)
  <2>2. j \in Nat /\ at(j) # NULL
    BY <1>5
  <2>3. QED BY <1>3, <2>2
<1>7. len # m + 1
  <2>1. SUFFICES ASSUME len = m + 1 PROVE FALSE
    OBVIOUS
  <2>2. 0 .. (len - 1) = 0 .. m
    BY <1>1, <2>1
  <2>3. f \in [0 .. m -> 1 .. m]
    BY <1>6, <2>2
  <2>4. IsFiniteSet(0 .. m) /\ Cardinality(0 .. m) = m + 1
    BY <1>1, FS_Interval
  <2>5. IsFiniteSet(1 .. m) /\ Cardinality(1 .. m) = m
    BY <1>1, FS_Interval
  <2>6. Cardinality(1 .. m) < Cardinality(0 .. m)
    BY <1>1, <2>4, <2>5
  <2> HIDE DEF f
  <2>7. PICK i, j \in 0 .. m : i # j /\ f[i] = f[j]
    BY <2>3, <2>4, <2>5, <2>6, FS_PigeonHole
  <2>8. i \in Nat /\ j \in Nat /\ at(i) = at(j) /\ at(i) \in 1 .. m
    BY <1>6, <2>2, <2>7 DEF f
  <2>9. i < j \/ j < i
    BY <2>7, <2>8
  <2>10. at(i) # NULL /\ p[at(i)] \in Int
    BY <1>1, <2>8
  <2>11. p[at(i)] < p[at(i)]
    BY <1>4, <2>8, <2>9, <2>10
  <2>12. QED BY <2>10, <2>11
<1>8. len \in 0 .. m /\ at(len) = NULL
  BY <1>1, <1>5, <1>7
<1>9. QED BY <1>5, <1>6, <1>8 DEF at

-----------------------------------------------------------------------------
(***************************************************************************)
(* The inductive invariant.                                                *)
(***************************************************************************)
\* A header that has a head has a last entry, also when it is out of date.
Headers == \A x \in Vars : lists[x].head # NULL => lists[x].last # NULL

\* akl_new_list_entry leaves the links of what was not made yet alone.
Fresh == \A e \in Entries : e > made => heap.nxt[e] = NULL /\ heap.prv[e] = NULL

\* Append and insert put every entry either behind or before all that were
\* made: at its number or, for those in front, at its number below zero.
Place(front, e) == IF e \in front THEN -e ELSE e

OrderedBy(h, front) ==
  \A e \in Entries :
    /\ h.nxt[e] # NULL => Place(front, e) < Place(front, h.nxt[e])
    /\ h.prv[e] # NULL => Place(front, h.prv[e]) < Place(front, e)

\* All links of all lists lead along that order, also those of stale headers.
Ordered == \E front \in SUBSET Entries : OrderedBy(heap, front)

\* s is the list of header l: from end to end, linked both ways, and not
\* marked NIL if there is something in it.
Chained(h, l, s) ==
  LET n == Len(s)
  IN  /\ l.count = n
      /\ n = 0 => l.head = NULL
      /\ n > 0 => l.head = s[1] /\ l.last = s[n] /\ h.nxt[s[n]] = NULL
      /\ n > 0 => ~ l.nil
      /\ \A i \in 1 .. n - 1 : h.nxt[s[i]] = s[i + 1] /\ h.prv[s[i + 1]] = s[i]

NoRepeats(s) == \A i, j \in 1 .. Len(s) : s[i] = s[j] => i = j

\* What was made of a list is what its header leads to, until others change it.
Histories ==
  /\ abs \in [Vars -> Seq(1 .. made)]
  /\ \A x \in Vars : /\ NoRepeats(abs[x])
                     /\ x \in spoiled => abs[x] = <<>>
                     /\ x \notin spoiled => Chained(heap, lists[x], abs[x])

\* The loop stands on the next of the elements the list had, and the links lead
\* through the rest of them.
LoopAt(h, seen, first, entry) ==
  LET m == Len(seen)
      n == Len(first)
  IN  /\ \A i \in 1 .. n : i <= m => first[i] = seen[i]
      /\ m < n => entry = first[m + 1]
      /\ \A i \in m + 1 .. n - 1 : h.nxt[first[i]] = first[i + 1]

Loop ==
  /\ it \in [on : BOOLEAN, entry : 0 .. made, seen : Seq(1 .. made), first : Seq(1 .. made),
             cut : BOOLEAN]
  /\ it.on /\ ~it.cut => LoopAt(heap, it.seen, it.first, it.entry)

ListsInv == TypeOK /\ Headers /\ Fresh /\ Ordered /\ Histories /\ Loop

-----------------------------------------------------------------------------
(* What the invariant says of walks.                                       *)

\* Every walk from an entry or from NULL ends after made entries at most.
LEMMA WalksAreShort ==
  ASSUME TypeOK, Ordered, NEW e \in 0 .. made
  PROVE  /\ \E len \in 0 .. made :
              /\ Walk(heap.nxt, e, made + 1) = [k \in 1 .. len |-> Steps(heap.nxt, e, k - 1)]
              /\ Steps(heap.nxt, e, len) = NULL
              /\ \A j \in 0 .. (len - 1) : Steps(heap.nxt, e, j) \in 1 .. made
         /\ \E len \in 0 .. made :
              /\ Walk(heap.prv, e, made + 1) = [k \in 1 .. len |-> Steps(heap.prv, e, k - 1)]
              /\ Steps(heap.prv, e, len) = NULL
              /\ \A j \in 0 .. (len - 1) : Steps(heap.prv, e, j) \in 1 .. made
<1>1. PICK front \in SUBSET Entries : OrderedBy(heap, front)
  BY DEF Ordered
<1>2. /\ MaxEntries \in Nat /\ made \in 0 .. MaxEntries
      /\ heap.nxt \in [1 .. MaxEntries -> 0 .. made]
      /\ heap.prv \in [1 .. MaxEntries -> 0 .. made]
  BY ListsAssumption DEF TypeOK, Entries
<1>3. \A x \in 1 .. made : x \in Entries /\ x \in Int /\ -x \in Int
  BY <1>2 DEF Entries
<1> DEFINE up == [x \in 1 .. MaxEntries |-> Place(front, x)]
           down == [x \in 1 .. MaxEntries |-> -Place(front, x)]
<1>4. \A x \in 1 .. MaxEntries : Place(front, x) \in Int
  BY DEF Place
<1>5. up \in [1 .. MaxEntries -> Int] /\ down \in [1 .. MaxEntries -> Int]
  BY <1>4
<1>6. ASSUME NEW x \in 1 .. made, heap.nxt[x] # NULL PROVE up[x] < up[heap.nxt[x]]
  <2>1. x \in 1 .. MaxEntries /\ heap.nxt[x] \in 1 .. MaxEntries
    BY <1>2, <1>6 DEF NULL
  <2>2. Place(front, x) < Place(front, heap.nxt[x])
    BY <1>1, <1>6, <2>1 DEF OrderedBy, Entries
  <2>3. QED BY <2>1, <2>2
<1>7. ASSUME NEW x \in 1 .. made, heap.prv[x] # NULL PROVE down[x] < down[heap.prv[x]]
  <2>1. x \in 1 .. MaxEntries /\ heap.prv[x] \in 1 .. MaxEntries
    BY <1>2, <1>7 DEF NULL
  <2>2. Place(front, heap.prv[x]) < Place(front, x)
    BY <1>1, <1>7, <2>1 DEF OrderedBy, Entries
  <2>3. -Place(front, x) < -Place(front, heap.prv[x])
    BY <1>4, <2>1, <2>2
  <2>4. QED BY <2>1, <2>3
<1> HIDE DEF up, down
<1>8. QED BY <1>2, <1>5, <1>6, <1>7, WalkShort

\* All walks of all lists, there and back, end.
LEMMA WalksEndFollows ==
  ASSUME TypeOK, Ordered
  PROVE  WalksEnd
<1>1. made \in Nat
  BY ListsAssumption DEF TypeOK
<1>2. SUFFICES ASSUME NEW e \in 1 .. made
               PROVE  /\ Len(Walk(heap.nxt, e, made + 1)) <= made
                      /\ Len(Walk(heap.prv, e, made + 1)) <= made
  BY DEF WalksEnd
<1>3. e \in 0 .. made
  BY <1>1
<1>4. PICK len \in 0 .. made :
        Walk(heap.nxt, e, made + 1) = [k \in 1 .. len |-> Steps(heap.nxt, e, k - 1)]
  BY <1>3, WalksAreShort
<1>5. PICK len2 \in 0 .. made :
        Walk(heap.prv, e, made + 1) = [k \in 1 .. len2 |-> Steps(heap.prv, e, k - 1)]
  BY <1>3, WalksAreShort
<1>6. Len(Walk(heap.nxt, e, made + 1)) = len /\ Len(Walk(heap.prv, e, made + 1)) = len2
  BY <1>1, <1>4, <1>5
<1>7. QED BY <1>1, <1>6

\* The walk of a list that nobody else changed gives its entries, and both ways
\* of index do.
LEMMA ChainedIsRight ==
  ASSUME TypeOK, Ordered, NEW s \in Seq(1 .. made),
         NEW l \in [head : 0 .. made, last : 0 .. made, count : Nat, nil : BOOLEAN], Chained(heap, l, s)
  PROVE  /\ WalkOf(l) = s
         /\ \A i \in 1 .. Len(s) : /\ IndexEntry(heap, l, i - 1) = s[i]
                                   /\ IndexEntry(heap, l, -i) = s[Len(s) + 1 - i]
         /\ IndexEntry(heap, l, Len(s)) = NULL
<1> DEFINE n == Len(s)
           there == heap.nxt
           back == heap.prv
           r == [j \in 1 .. n |-> s[n + 1 - j]]
<1>1. /\ n \in Nat /\ s \in [1 .. n -> 1 .. made] /\ \A i \in 1 .. n : s[i] # NULL
  <2>1. n \in Nat /\ s \in [1 .. n -> 1 .. made]
    BY LenProperties
  <2>2. \A y \in 1 .. made : y # NULL
    BY DEF NULL
  <2>3. QED BY <2>1, <2>2
<1>2. /\ n = 0 => l.head = NULL
      /\ n > 0 => l.head = s[1] /\ l.last = s[n] /\ there[s[n]] = NULL
      /\ \A i \in 1 .. n - 1 : there[s[i]] = s[i + 1] /\ back[s[i + 1]] = s[i]
  BY DEF Chained
<1>3. PICK len \in 0 .. made :
        /\ WalkOf(l) = [k \in 1 .. len |-> Steps(there, l.head, k - 1)]
        /\ Steps(there, l.head, len) = NULL
        /\ \A j \in 0 .. (len - 1) : Steps(there, l.head, j) \in 1 .. made
  BY WalksAreShort DEF WalkOf
<1>4. made \in Nat
  BY ListsAssumption DEF TypeOK
<1> HIDE DEF n, there, back
<1>5. CASE n = 0
  <2>1. l.head = NULL /\ Steps(there, l.head, 0) = NULL
    BY <1>2, <1>5, StepsZero
  <2>2. ~ (0 \in 0 .. (len - 1))
    BY <1>3, <2>1 DEF NULL
  <2>3. len = 0
    BY <1>4, <2>2
  <2>4. s = <<>>
    BY <1>5, EmptySeq DEF n
  <2>5. WalkOf(l) = s
    BY <1>3, <2>3, <2>4
  <2>6. IndexEntry(heap, l, n) = NULL
    BY <2>1 DEF IndexEntry
  <2>7. QED BY <1>5, <2>5, <2>6 DEF n
<1>6. CASE n > 0
  <2>1. n \in Nat \ {0} /\ n \in 1 .. n /\ l.head = s[1] /\ l.last = s[n] /\ l.head # NULL
    <3>1. n \in Nat \ {0} /\ n \in 1 .. n /\ 1 \in 1 .. n
      BY <1>1, <1>6
    <3>2. QED BY <1>1, <1>2, <1>6, <3>1
  <2>2. \A k \in 0 .. n - 1 : Steps(there, l.head, k) = s[k + 1]
    <3>1. Along(there, s, n)
      BY <1>1, <1>2 DEF Along
    <3>2. \A k \in 0 .. n - 1 : Steps(there, s[1], k) = s[k + 1]
      BY <2>1, <3>1, StepsOfChain
    <3>3. QED BY <2>1, <3>2
  <2>3. Steps(there, l.head, n) = NULL
    <3>1. n - 1 \in Nat /\ n - 1 \in 0 .. n - 1 /\ (n - 1) + 1 = n
      BY <2>1
    <3>2. Steps(there, l.head, n - 1) = s[n] /\ s[n] # NULL
      BY <1>1, <2>1, <2>2, <3>1
    <3>3. Steps(there, l.head, (n - 1) + 1) = there[s[n]]
      <4>1. Steps(there, l.head, (n - 1) + 1)
              = IF Steps(there, l.head, n - 1) = NULL THEN NULL
                ELSE there[Steps(there, l.head, n - 1)]
        BY <3>1, StepsNext
      <4>2. QED BY <3>2, <4>1
    <3>4. QED BY <1>2, <1>6, <3>1, <3>3
  <2>4. len = n
    <3>1. ~ (len < n)
      <4>1. SUFFICES ASSUME len < n PROVE FALSE
        OBVIOUS
      <4>2. len \in 0 .. n - 1 /\ len + 1 \in 1 .. n
        BY <1>4, <2>1, <4>1
      <4>3. Steps(there, l.head, len) = s[len + 1] /\ s[len + 1] # NULL
        BY <1>1, <2>2, <4>2
      <4>4. QED BY <1>3, <4>3
    <3>2. ~ (n < len)
      <4>1. SUFFICES ASSUME n < len PROVE FALSE
        OBVIOUS
      <4>2. n \in 0 .. (len - 1)
        BY <1>4, <2>1, <4>1
      <4>3. QED BY <1>3, <2>3, <4>2 DEF NULL
    <3>3. QED BY <1>4, <2>1, <3>1, <3>2
  <2>5. WalkOf(l) = s
    <3>1. \A k \in 1 .. n : Steps(there, l.head, k - 1) = s[k]
      <4>1. TAKE k \in 1 .. n
      <4>2. k - 1 \in 0 .. n - 1 /\ (k - 1) + 1 = k
        BY <1>1
      <4>3. QED BY <2>2, <4>2
    <3>2. s = [k \in 1 .. n |-> s[k]]
      BY <1>1
    <3>3. QED BY <1>3, <2>4, <3>1, <3>2
  <2>6. ASSUME NEW i \in 1 .. n PROVE IndexEntry(heap, l, i - 1) = s[i]
    <3>1. i - 1 \in 0 .. n - 1 /\ i - 1 >= 0 /\ (i - 1) + 1 = i
      BY <1>1
    <3>2. IndexEntry(heap, l, i - 1) = Steps(there, l.head, i - 1)
      BY <2>1, <3>1 DEF IndexEntry, there
    <3>3. QED BY <2>2, <3>1, <3>2
  <2>7. ASSUME NEW i \in 1 .. n PROVE IndexEntry(heap, l, -i) = s[n + 1 - i]
    <3>1. ASSUME NEW j \in 1 .. n PROVE r[j] # NULL
      <4>1. n + 1 - j \in 1 .. n
        BY <1>1
      <4>2. QED BY <1>1, <4>1
    <3>2. ASSUME NEW j \in 1 .. n - 1 PROVE back[r[j]] = r[j + 1]
      <4>1. /\ n - j \in 1 .. n - 1 /\ j \in 1 .. n /\ j + 1 \in 1 .. n
            /\ n + 1 - j = (n - j) + 1 /\ n + 1 - (j + 1) = n - j
        BY <1>1
      <4>2. r[j] = s[(n - j) + 1] /\ r[j + 1] = s[n - j]
        BY <4>1
      <4>3. QED BY <1>2, <4>1, <4>2
    <3>3. 1 \in 1 .. n /\ n + 1 - 1 = n
      BY <2>1
    <3>4. r[1] = l.last
      BY <2>1, <3>3
    <3> HIDE DEF r
    <3>5. \A k \in 0 .. n - 1 : Steps(back, r[1], k) = r[k + 1]
      <4>1. Along(back, r, n)
        BY <3>1, <3>2 DEF Along
      <4>2. QED BY <2>1, <4>1, StepsOfChain
    <3>6. i - 1 \in 0 .. n - 1 /\ (i - 1) + 1 = i /\ ~ (-i >= 0) /\ -(-i) - 1 = i - 1
      BY <1>1
    <3>7. IndexEntry(heap, l, -i) = Steps(back, l.last, i - 1)
      BY <2>1, <3>6 DEF IndexEntry, back
    <3>8. Steps(back, l.last, i - 1) = r[i]
      BY <3>4, <3>5, <3>6
    <3>9. QED BY <3>7, <3>8 DEF r
  <2>8. IndexEntry(heap, l, n) = NULL
    BY <2>1, <2>3 DEF IndexEntry, there
  <2>9. QED BY <2>5, <2>6, <2>7, <2>8 DEF n
<1>7. QED BY <1>1, <1>5, <1>6

\* What nobody else changed is right.
LEMMA IntactFollows ==
  ASSUME TypeOK, Ordered, Histories
  PROVE  IntactIsRight
<1>1. SUFFICES ASSUME NEW x \in Vars \ spoiled
               PROVE  LET l == lists[x]
                          n == Len(abs[x])
                      IN  /\ WalkOf(l) = abs[x]
                          /\ l.count = n
                          /\ n > 0 => ~ IndexAborts(l)
                          /\ \A i \in 1 .. n : /\ IndexEntry(heap, l, i - 1) = abs[x][i]
                                               /\ IndexEntry(heap, l, -i) = abs[x][n + 1 - i]
                          /\ ~ IndexAborts(l) => IndexEntry(heap, l, n) = NULL
  BY DEF IntactIsRight
<1>2. /\ abs[x] \in Seq(1 .. made) /\ Chained(heap, lists[x], abs[x])
      /\ lists[x] \in [head : 0 .. made, last : 0 .. made, count : Nat, nil : BOOLEAN]
  BY DEF Histories, TypeOK
<1>3. lists[x].count = Len(abs[x]) /\ (Len(abs[x]) > 0 => ~ IndexAborts(lists[x]))
  BY <1>2 DEF Chained, IndexAborts
<1>4. QED BY <1>2, <1>3, ChainedIsRight

\* akl_cdr follows a head that is not there only in a list others changed.
LEMMA OnlySpoiledFollows ==
  ASSUME TypeOK, Histories
  PROVE  OnlySpoiledCrash
<1>1. SUFFICES ASSUME NEW x \in Vars, CdrCrashes(lists[x]), x \notin spoiled PROVE FALSE
  BY DEF OnlySpoiledCrash
<1>2. abs[x] \in Seq(1 .. made) /\ Chained(heap, lists[x], abs[x])
  BY <1>1 DEF Histories
<1>3. Len(abs[x]) > 1 /\ lists[x].head = abs[x][1] /\ lists[x].head = NULL
  BY <1>1, <1>2 DEF CdrCrashes, Chained
<1>4. abs[x][1] \in 1 .. made
  <2>1. Len(abs[x]) \in Nat
    BY <1>2, LenProperties
  <2>2. 1 \in 1 .. Len(abs[x])
    BY <1>3, <2>1
  <2>3. QED BY <1>2, <2>2, ElementOfSeq
<1>5. QED BY <1>3, <1>4 DEF NULL

\* A walk is a sequence of entries, cut where the links end.
LEMMA WalkType ==
  ASSUME TypeOK, Ordered, NEW e \in 0 .. made
  PROVE  Walk(heap.nxt, e, made + 1) \in Seq(1 .. made)
<1>1. PICK len \in 0 .. made :
        /\ Walk(heap.nxt, e, made + 1) = [k \in 1 .. len |-> Steps(heap.nxt, e, k - 1)]
        /\ \A j \in 0 .. (len - 1) : Steps(heap.nxt, e, j) \in 1 .. made
  BY WalksAreShort
<1>2. made \in Nat /\ len \in Nat
  BY ListsAssumption DEF TypeOK
<1>3. \A k \in 1 .. len : Steps(heap.nxt, e, k - 1) \in 1 .. made
  <2>1. TAKE k \in 1 .. len
  <2>2. k - 1 \in 0 .. (len - 1)
    BY <1>2
  <2>3. QED BY <1>1, <2>2
<1>4. QED BY <1>1, <1>2, <1>3

\* What a loop has met and what is before it hold every element the list had.
LEMMA IterationFollows ==
  ASSUME TypeOK, Ordered, Loop
  PROVE  IterationMeetsAll
<1> DEFINE there == heap.nxt
           seen == it.seen
           first == it.first
           m == Len(seen)
           n == Len(first)
           w == Walk(there, it.entry, made + 1)
           rest == [k \in 1 .. n - m |-> first[m + k]]
<1>1. SUFFICES ASSUME it.on, ~it.cut PROVE IsPrefix(first, seen \o w)
  BY DEF IterationMeetsAll
<1>2. /\ seen \in Seq(1 .. made) /\ first \in Seq(1 .. made) /\ it.entry \in 0 .. made
      /\ LoopAt(heap, seen, first, it.entry)
  BY <1>1 DEF Loop
<1>3. /\ m \in Nat /\ n \in Nat /\ \A i \in 1 .. n : first[i] \in 1 .. made
      /\ made \in Nat
  BY <1>2, LenProperties, ListsAssumption DEF TypeOK
<1>4. /\ \A i \in 1 .. n : i <= m => first[i] = seen[i]
      /\ m < n => it.entry = first[m + 1]
      /\ \A i \in m + 1 .. n - 1 : there[first[i]] = first[i + 1]
  BY <1>2 DEF LoopAt
<1>5. w \in Seq(1 .. made) /\ Len(w) \in Nat
  BY <1>2, WalkType, LenProperties
<1>6. PICK len \in 0 .. made :
        /\ w = [k \in 1 .. len |-> Steps(there, it.entry, k - 1)]
        /\ Steps(there, it.entry, len) = NULL
  BY <1>2, WalksAreShort
<1>7. Len(w) = len /\ len \in Nat
  BY <1>3, <1>6
<1>8. /\ seen \o w \in Seq(1 .. made) /\ Len(seen \o w) = m + len
      /\ \A i \in 1 .. m + len : (seen \o w)[i] = IF i <= m THEN seen[i] ELSE w[i - m]
  BY <1>2, <1>5, <1>7, ConcatProperties
<1> HIDE DEF there, w, m, n
<1>9. /\ n <= m + len
      /\ \A i \in m + 1 .. n : w[i - m] = first[i]
  <2>1. CASE n <= m
    <3>1. ~ (\E i \in m + 1 .. n : TRUE)
      BY <1>3, <2>1
    <3>2. QED BY <1>3, <1>7, <2>1, <3>1
  <2>2. CASE n > m
    <3>1. n - m \in Nat \ {0}
      BY <1>3, <2>2
    <3>2. ASSUME NEW k \in 1 .. n - m PROVE rest[k] # NULL
      <4>1. m + k \in 1 .. n
        BY <1>3
      <4>2. QED BY <1>3, <4>1 DEF NULL
    <3>3. ASSUME NEW k \in 1 .. (n - m) - 1 PROVE there[rest[k]] = rest[k + 1]
      <4>1. /\ m + k \in m + 1 .. n - 1 /\ k \in 1 .. n - m /\ k + 1 \in 1 .. n - m
            /\ m + (k + 1) = (m + k) + 1
        BY <1>3
      <4>2. QED BY <1>4, <4>1
    <3>4. Along(there, rest, n - m)
      BY <3>2, <3>3 DEF Along
    <3>5. rest[1] = it.entry
      <4>1. 1 \in 1 .. n - m
        BY <3>1
      <4>2. QED BY <1>4, <2>2, <4>1
    <3> HIDE DEF rest
    <3>6. \A k \in 0 .. (n - m) - 1 : Steps(there, rest[1], k) = rest[k + 1]
      BY <3>1, <3>4, StepsOfChain
    <3>7. ~ (len < n - m)
      <4>1. SUFFICES ASSUME len < n - m PROVE FALSE
        OBVIOUS
      <4>2. len \in 0 .. (n - m) - 1 /\ len + 1 \in 1 .. n - m
        BY <1>7, <3>1, <4>1
      <4>3. Steps(there, it.entry, len) = rest[len + 1]
        BY <3>5, <3>6, <4>2
      <4>4. QED BY <1>6, <3>2, <4>2, <4>3
    <3>8. n <= m + len
      BY <1>3, <1>7, <3>7
    <3>9. ASSUME NEW i \in m + 1 .. n PROVE w[i - m] = first[i]
      <4>1. /\ i - m \in 1 .. len /\ i - m \in 1 .. n - m /\ m + (i - m) = i
            /\ (i - m) - 1 \in 0 .. (n - m) - 1 /\ ((i - m) - 1) + 1 = i - m
        BY <1>3, <1>7, <3>8
      <4>2. w[i - m] = Steps(there, it.entry, (i - m) - 1)
        BY <1>6, <4>1
      <4>3. Steps(there, it.entry, (i - m) - 1) = rest[i - m]
        BY <3>5, <3>6, <4>1
      <4>4. rest[i - m] = first[i]
        BY <4>1 DEF rest
      <4>5. QED BY <4>2, <4>3, <4>4
    <3>10. QED BY <3>8, <3>9
  <2>3. QED BY <1>3, <2>1, <2>2
<1>10. \A i \in 1 .. n : first[i] = (seen \o w)[i]
  <2>1. TAKE i \in 1 .. n
  <2>2. i \in 1 .. m + len /\ (i <= m \/ i \in m + 1 .. n)
    BY <1>3, <1>7, <1>9
  <2>3. QED BY <1>3, <1>4, <1>8, <1>9, <2>2
<1>11. SubSeq(first, 1, n) = SubSeq(seen \o w, 1, n)
  BY <1>3, <1>8, <1>9, <1>10
<1>12. QED BY <1>8, <1>9, <1>11 DEF IsPrefix, n

-----------------------------------------------------------------------------
(* What the operations do to a list that leads to s.                       *)

\* the links when entries 1 .. m of N are made
Links(N, m) == [nxt : [1 .. N -> 0 .. m], prv : [1 .. N -> 0 .. m]]

\* A list stays what it is while the links of its entries do.
LEMMA ChainedStays ==
  ASSUME NEW m \in Nat, NEW s \in Seq(1 .. m), NEW h, NEW g, NEW l, Chained(h, l, s),
         \A y \in 1 .. m : (\E i \in 1 .. Len(s) : y = s[i]) =>
                             g.nxt[y] = h.nxt[y] /\ g.prv[y] = h.prv[y]
  PROVE  Chained(g, l, s)
<1> DEFINE n == Len(s)
<1>1. n \in Nat /\ \A i \in 1 .. n : s[i] \in 1 .. m
  BY LenProperties
<1>2. \A i \in 1 .. n : g.nxt[s[i]] = h.nxt[s[i]] /\ g.prv[s[i]] = h.prv[s[i]]
  BY <1>1
<1>3. /\ l.count = n /\ (n = 0 => l.head = NULL)
      /\ n > 0 => l.head = s[1] /\ l.last = s[n] /\ h.nxt[s[n]] = NULL
      /\ \A i \in 1 .. n - 1 : h.nxt[s[i]] = s[i + 1] /\ h.prv[s[i + 1]] = s[i]
  BY DEF Chained
<1> HIDE DEF n
<1>4. ASSUME NEW i \in 1 .. n - 1 PROVE g.nxt[s[i]] = s[i + 1] /\ g.prv[s[i + 1]] = s[i]
  <2>1. i \in 1 .. n /\ i + 1 \in 1 .. n
    BY <1>1
  <2>2. QED BY <1>2, <1>3, <2>1
<1>5. n > 0 => g.nxt[s[n]] = NULL
  <2>1. n > 0 => n \in 1 .. n
    BY <1>1
  <2>2. QED BY <1>2, <1>3, <2>1
<1>6. QED BY <1>3, <1>4, <1>5 DEF Chained, n

\* akl_list_append of a new entry: the list has it behind the others.
LEMMA ChainedAppend ==
  ASSUME NEW N \in Nat, NEW m \in 0 .. N - 1, NEW h \in Links(N, m), h.nxt[m + 1] = NULL,
         NEW l, NEW s \in Seq(1 .. m), NoRepeats(s), Chained(h, l, s),
         NEW r, r = AppendEntry(h, l, m + 1)
  PROVE  Chained(r.h, r.l, Append(s, m + 1)) /\ NoRepeats(Append(s, m + 1))
<1> DEFINE n == Len(s)
           e == m + 1
           t == Append(s, e)
<1>1. /\ n \in Nat /\ m \in Nat /\ e \in 1 .. N
      /\ \A i \in 1 .. n : s[i] \in 1 .. m /\ s[i] \in 1 .. N /\ s[i] # NULL /\ s[i] # e
  <2>1. n \in Nat /\ m \in Nat /\ e \in 1 .. N /\ \A i \in 1 .. n : s[i] \in 1 .. m
    BY LenProperties
  <2>2. \A y \in 1 .. m : y \in 1 .. N /\ y # NULL /\ y # e
    BY <2>1 DEF NULL
  <2>3. QED BY <2>1, <2>2
<1>2. Len(t) = n + 1 /\ t[n + 1] = e /\ \A i \in 1 .. n : t[i] = s[i]
  BY <1>1, LenProperties
<1>3. /\ l.count = n /\ (n = 0 => l.head = NULL)
      /\ n > 0 => l.head = s[1] /\ l.last = s[n] /\ h.nxt[s[n]] = NULL
      /\ \A i \in 1 .. n - 1 : h.nxt[s[i]] = s[i + 1] /\ h.prv[s[i + 1]] = s[i]
  BY DEF Chained
<1>4. /\ r.l.head = IF l.head = NULL THEN e ELSE l.head
      /\ r.l.last = e /\ r.l.count = l.count + 1 /\ ~ r.l.nil
  BY DEF AppendEntry
<1>5. \A i, j \in 1 .. n : s[i] = s[j] => i = j
  BY DEF NoRepeats
<1> HIDE DEF n, e, t
<1>6. NoRepeats(t)
  <2>1. SUFFICES ASSUME NEW i \in 1 .. n + 1, NEW j \in 1 .. n + 1, t[i] = t[j] PROVE i = j
    BY <1>2 DEF NoRepeats
  <2>2. (i \in 1 .. n \/ i = n + 1) /\ (j \in 1 .. n \/ j = n + 1)
    BY <1>1
  <2>3. QED BY <1>1, <1>2, <1>5, <2>1, <2>2
<1>7. CASE n = 0
  <2>1. l.head = NULL /\ r.h = h
    BY <1>3, <1>7 DEF AppendEntry, e
  <2>2. Len(t) = 1 /\ t[1] = e /\ h.nxt[e] = NULL
    BY <1>2, <1>7 DEF e
  <2>3. Chained(r.h, r.l, t)
    BY <1>3, <1>4, <1>7, <2>1, <2>2 DEF Chained
  <2>4. QED BY <1>6, <2>3 DEF t, e
<1>8. CASE n > 0
  <2>1. 1 \in 1 .. n /\ n \in 1 .. n /\ l.head # NULL /\ l.last = s[n]
    <3>1. 1 \in 1 .. n /\ n \in 1 .. n
      BY <1>1, <1>8
    <3>2. QED BY <1>1, <1>3, <1>8, <3>1
  <2>2. r.h.nxt = [h.nxt EXCEPT ![s[n]] = e] /\ r.h.prv = [h.prv EXCEPT ![e] = s[n]]
    BY <2>1 DEF AppendEntry, e
  <2>3. h.nxt \in [1 .. N -> 0 .. m] /\ h.prv \in [1 .. N -> 0 .. m]
    BY DEF Links
  <2>4. /\ r.h.nxt[s[n]] = e /\ r.h.prv[e] = s[n] /\ r.h.nxt[e] = NULL
    <3>1. h.nxt[e] = NULL
      BY DEF e
    <3>2. QED BY <1>1, <2>1, <2>2, <2>3, <3>1
  <2>5. ASSUME NEW i \in 1 .. n - 1
        PROVE  r.h.nxt[s[i]] = s[i + 1] /\ r.h.prv[s[i + 1]] = s[i]
    <3>1. i \in 1 .. n /\ i + 1 \in 1 .. n /\ i # n
      BY <1>1
    <3>2. s[i] # s[n] /\ s[i + 1] # e
      BY <1>1, <1>5, <2>1, <3>1
    <3>3. /\ s[i] \in 1 .. N /\ s[i + 1] \in 1 .. N
          /\ h.nxt[s[i]] = s[i + 1] /\ h.prv[s[i + 1]] = s[i]
      BY <1>1, <1>3, <3>1
    <3>4. r.h.nxt[s[i]] = h.nxt[s[i]]
      BY <2>2, <2>3, <3>2, <3>3
    <3>5. r.h.prv[s[i + 1]] = h.prv[s[i + 1]]
      BY <2>2, <2>3, <3>2, <3>3
    <3>6. QED BY <3>3, <3>4, <3>5
  <2>6. ASSUME NEW i \in 1 .. n
        PROVE  r.h.nxt[t[i]] = t[i + 1] /\ r.h.prv[t[i + 1]] = t[i]
    <3>1. CASE i = n
      BY <1>2, <2>1, <2>4, <3>1
    <3>2. CASE i # n
      <4>1. i \in 1 .. n - 1 /\ i + 1 \in 1 .. n
        BY <1>1, <3>2
      <4>2. QED BY <1>2, <2>5, <4>1
    <3>3. QED BY <3>1, <3>2
  <2>7. n + 1 # 0 /\ (n + 1) - 1 = n /\ r.l.count = n + 1
    BY <1>1, <1>3, <1>4
  <2>8. r.l.head = t[1] /\ r.l.last = t[n + 1]
    BY <1>2, <1>3, <1>4, <1>8, <2>1
  <2>9. Chained(r.h, r.l, t)
    BY <1>2, <1>4, <2>4, <2>6, <2>7, <2>8 DEF Chained
  <2>10. QED BY <1>6, <2>9 DEF t, e
<1>9. QED BY <1>1, <1>7, <1>8

\* akl_list_insert_head of a new entry: the list has it before the others.
LEMMA ChainedInsert ==
  ASSUME NEW N \in Nat, NEW m \in 0 .. N - 1, NEW h \in Links(N, m), h.nxt[m + 1] = NULL,
         NEW l, NEW s \in Seq(1 .. m), NoRepeats(s), Chained(h, l, s),
         NEW r, r = InsertEntry(h, l, m + 1)
  PROVE  Chained(r.h, r.l, <<m + 1>> \o s) /\ NoRepeats(<<m + 1>> \o s)
<1> DEFINE n == Len(s)
           e == m + 1
           t == <<e>> \o s
<1>1. /\ n \in Nat /\ m \in Nat /\ e \in 1 .. N
      /\ \A i \in 1 .. n : s[i] \in 1 .. m /\ s[i] \in 1 .. N /\ s[i] # NULL /\ s[i] # e
  <2>1. n \in Nat /\ m \in Nat /\ e \in 1 .. N /\ \A i \in 1 .. n : s[i] \in 1 .. m
    BY LenProperties
  <2>2. \A y \in 1 .. m : y \in 1 .. N /\ y # NULL /\ y # e
    BY <2>1 DEF NULL
  <2>3. QED BY <2>1, <2>2
<1>2. Len(t) = n + 1 /\ t[1] = e /\ \A i \in 1 .. n : t[i + 1] = s[i]
  <2>1. s \in Seq(1 .. N) /\ <<e>> \in Seq(1 .. N) /\ Len(<<e>>) = 1 /\ <<e>>[1] = e
    BY <1>1, SeqMonotonic
  <2>2. /\ Len(t) = 1 + n
        /\ \A i \in 1 .. 1 + n : t[i] = IF i <= 1 THEN <<e>>[i] ELSE s[i - 1]
    BY <2>1, ConcatProperties
  <2>3. 1 \in 1 .. 1 + n
    BY <1>1
  <2>4. ASSUME NEW i \in 1 .. n PROVE t[i + 1] = s[i]
    <3>1. i + 1 \in 1 .. 1 + n /\ ~ (i + 1 <= 1) /\ (i + 1) - 1 = i
      BY <1>1
    <3>2. QED BY <2>2, <3>1
  <2>5. QED BY <1>1, <2>1, <2>2, <2>3, <2>4
<1>3. /\ l.count = n /\ (n = 0 => l.head = NULL)
      /\ n > 0 => l.head = s[1] /\ l.last = s[n] /\ h.nxt[s[n]] = NULL
      /\ \A i \in 1 .. n - 1 : h.nxt[s[i]] = s[i + 1] /\ h.prv[s[i + 1]] = s[i]
  BY DEF Chained
<1>4. /\ r.l.last = IF l.head = NULL THEN e ELSE l.last
      /\ r.l.head = e /\ r.l.count = l.count + 1 /\ ~ r.l.nil
  BY DEF InsertEntry
<1>5. \A i, j \in 1 .. n : s[i] = s[j] => i = j
  BY DEF NoRepeats
<1> HIDE DEF n, e, t
<1>6. NoRepeats(t)
  <2>1. SUFFICES ASSUME NEW i \in 1 .. n + 1, NEW j \in 1 .. n + 1, t[i] = t[j] PROVE i = j
    BY <1>2 DEF NoRepeats
  <2>2. ASSUME NEW k \in 1 .. n + 1, k # 1
        PROVE  k - 1 \in 1 .. n /\ t[k] = s[k - 1] /\ t[k] # e
    <3>1. k - 1 \in 1 .. n /\ (k - 1) + 1 = k
      BY <1>1, <2>2
    <3>2. QED BY <1>1, <1>2, <3>1
  <2>3. CASE i = 1 \/ j = 1
    BY <1>2, <2>1, <2>2, <2>3
  <2>4. CASE i # 1 /\ j # 1
    <3>1. i - 1 = j - 1
      BY <1>5, <2>1, <2>2, <2>4
    <3>2. QED BY <1>1, <3>1
  <2>5. QED BY <2>3, <2>4
<1>7. CASE n = 0
  <2>1. l.head = NULL /\ r.h = h
    BY <1>3, <1>7 DEF InsertEntry, e
  <2>2. Len(t) = 1 /\ t[1] = e /\ h.nxt[e] = NULL
    BY <1>2, <1>7 DEF e
  <2>3. Chained(r.h, r.l, t)
    BY <1>3, <1>4, <1>7, <2>1, <2>2 DEF Chained
  <2>4. QED BY <1>6, <2>3 DEF t, e
<1>8. CASE n > 0
  <2>1. 1 \in 1 .. n /\ n \in 1 .. n /\ l.head # NULL /\ l.head = s[1] /\ l.last = s[n]
    <3>1. 1 \in 1 .. n /\ n \in 1 .. n
      BY <1>1, <1>8
    <3>2. QED BY <1>1, <1>3, <1>8, <3>1
  <2>2. r.h.nxt = [h.nxt EXCEPT ![e] = s[1]] /\ r.h.prv = [h.prv EXCEPT ![s[1]] = e]
    BY <2>1 DEF InsertEntry, e
  <2>3. h.nxt \in [1 .. N -> 0 .. m] /\ h.prv \in [1 .. N -> 0 .. m]
    BY DEF Links
  <2>4. r.h.nxt[e] = s[1] /\ r.h.prv[s[1]] = e
    BY <1>1, <2>1, <2>2, <2>3
  <2>5. r.h.nxt[s[n]] = NULL
    BY <1>1, <1>3, <1>8, <2>1, <2>2, <2>3
  <2>6. ASSUME NEW i \in 1 .. n - 1
        PROVE  r.h.nxt[s[i]] = s[i + 1] /\ r.h.prv[s[i + 1]] = s[i]
    <3>1. i \in 1 .. n /\ i + 1 \in 1 .. n /\ i + 1 # 1
      BY <1>1
    <3>2. s[i + 1] # s[1] /\ s[i] # e
      BY <1>1, <1>5, <2>1, <3>1
    <3>3. /\ s[i] \in 1 .. N /\ s[i + 1] \in 1 .. N
          /\ h.nxt[s[i]] = s[i + 1] /\ h.prv[s[i + 1]] = s[i]
      BY <1>1, <1>3, <3>1
    <3>4. r.h.nxt[s[i]] = h.nxt[s[i]]
      BY <2>2, <2>3, <3>2, <3>3
    <3>5. r.h.prv[s[i + 1]] = h.prv[s[i + 1]]
      BY <2>2, <2>3, <3>2, <3>3
    <3>6. QED BY <3>3, <3>4, <3>5
  <2>7. ASSUME NEW i \in 1 .. n
        PROVE  r.h.nxt[t[i]] = t[i + 1] /\ r.h.prv[t[i + 1]] = t[i]
    <3>1. CASE i = 1
      BY <1>2, <2>1, <2>4, <3>1
    <3>2. CASE i # 1
      <4>1. i - 1 \in 1 .. n - 1 /\ i - 1 \in 1 .. n /\ (i - 1) + 1 = i
        BY <1>1, <3>2
      <4>2. t[i] = s[i - 1] /\ t[i + 1] = s[i]
        BY <1>2, <4>1
      <4>3. QED BY <2>6, <4>1, <4>2
    <3>3. QED BY <3>1, <3>2
  <2>8. n + 1 # 0 /\ (n + 1) - 1 = n /\ r.l.count = n + 1
    BY <1>1, <1>3, <1>4
  <2>9. r.l.head = t[1] /\ r.l.last = t[n + 1] /\ t[n + 1] = s[n]
    BY <1>2, <1>4, <2>1
  <2>10. Chained(r.h, r.l, t)
    BY <1>2, <1>4, <2>5, <2>7, <2>8, <2>9 DEF Chained
  <2>11. QED BY <1>6, <2>10 DEF t, e
<1>9. QED BY <1>1, <1>7, <1>8

\* akl_cdr: the new header leads to what comes behind the first element.
LEMMA ChainedCdr ==
  ASSUME NEW m \in Nat, NEW h, NEW l, NEW s \in Seq(1 .. m), NoRepeats(s), Chained(h, l, s),
         NEW t, t = IF s = <<>> THEN <<>> ELSE Tail(s)
  PROVE  t \in Seq(1 .. m) /\ Chained(h, Cdr(h, l), t) /\ NoRepeats(t)
<1> DEFINE n == Len(s)
<1>1. n \in Nat /\ (n = 0 <=> s = <<>>)
  BY LenProperties, EmptySeq
<1>2. /\ l.count = n /\ (n = 0 => l.head = NULL)
      /\ n > 0 => l.head = s[1] /\ l.last = s[n] /\ h.nxt[s[n]] = NULL
      /\ \A i \in 1 .. n - 1 : h.nxt[s[i]] = s[i + 1] /\ h.prv[s[i + 1]] = s[i]
  BY DEF Chained
<1>3. \A i, j \in 1 .. n : s[i] = s[j] => i = j
  BY DEF NoRepeats
<1> HIDE DEF n
<1>4. CASE n <= 1
  <2>1. t = <<>>
    <3>1. CASE n = 0
      BY <1>1, <3>1
    <3>2. CASE n = 1
      <4>1. Tail(s) \in Seq(1 .. m) /\ Len(Tail(s)) = 0
        BY <1>1, <3>2, HeadTailProperties DEF n
      <4>2. Tail(s) = <<>>
        BY <4>1, EmptySeq
      <4>3. QED BY <1>1, <3>2, <4>2
    <3>3. QED BY <1>1, <1>4, <3>1, <3>2
  <2>2. t \in Seq(1 .. m) /\ Len(t) = 0
    BY <2>1, EmptySeq
  <2>3. Cdr(h, l).head = NULL /\ Cdr(h, l).count = 0
    <3>1. l.count = 0 \/ l.count = 1
      BY <1>1, <1>2, <1>4
    <3>2. Cdr(h, l) = EmptyList \/ Cdr(h, l) = NilList
      BY <3>1 DEF Cdr
    <3>3. QED BY <3>2 DEF EmptyList, NilList
  <2>4. QED BY <2>2, <2>3 DEF Chained, NoRepeats
<1>5. CASE n > 1
  <2>1. /\ t \in Seq(1 .. m) /\ Len(t) = n - 1
        /\ \A i \in 1 .. n - 1 : t[i] = s[i + 1]
    <3>1. t = Tail(s) /\ s # <<>>
      BY <1>1, <1>5
    <3>2. /\ t \in Seq(1 .. m) /\ Len(t) = n - 1
          /\ \A i \in 1 .. Len(t) : t[i] = s[i + 1]
      BY <3>1, HeadTailProperties DEF n
    <3>3. QED BY <3>2
  <2>2. /\ Cdr(h, l).head = h.nxt[l.head] /\ Cdr(h, l).last = l.last
        /\ Cdr(h, l).count = l.count - 1 /\ ~ Cdr(h, l).nil
    <3>1. ~ l.nil /\ l.count # 0 /\ l.count # 1
      BY <1>1, <1>2, <1>5 DEF Chained, n
    <3>2. QED BY <3>1 DEF Cdr
  <2>3. 1 \in 1 .. n - 1 /\ n - 1 \in 1 .. n - 1 /\ (n - 1) + 1 = n
    BY <1>1, <1>5
  <2>4. h.nxt[s[1]] = t[1] /\ t[n - 1] = s[n]
    BY <1>2, <2>1, <2>3
  <2>5. /\ Cdr(h, l).head = t[1] /\ Cdr(h, l).last = t[n - 1] /\ Cdr(h, l).count = n - 1
        /\ h.nxt[t[n - 1]] = NULL
    <3>1. n > 0
      BY <1>1, <1>5
    <3>2. l.head = s[1] /\ l.last = s[n] /\ l.count = n /\ h.nxt[s[n]] = NULL
      BY <1>2, <3>1
    <3>3. QED BY <2>2, <2>4, <3>2
  <2>6. ASSUME NEW i \in 1 .. (n - 1) - 1
        PROVE  h.nxt[t[i]] = t[i + 1] /\ h.prv[t[i + 1]] = t[i]
    <3>1. i \in 1 .. n - 1 /\ i + 1 \in 1 .. n - 1
      BY <1>1
    <3>2. QED BY <1>2, <2>1, <3>1
  <2>7. NoRepeats(t)
    <3>1. SUFFICES ASSUME NEW i \in 1 .. n - 1, NEW j \in 1 .. n - 1, t[i] = t[j] PROVE i = j
      BY <2>1 DEF NoRepeats
    <3>2. i + 1 \in 1 .. n /\ j + 1 \in 1 .. n
      BY <1>1
    <3>3. i + 1 = j + 1
      BY <1>3, <2>1, <3>1, <3>2
    <3>4. QED BY <1>1, <3>3
  <2>8. n - 1 # 0
    BY <1>1, <1>5
  <2>9. Chained(h, Cdr(h, l), t)
    BY <2>1, <2>2, <2>5, <2>6, <2>8 DEF Chained
  <2>10. QED BY <2>1, <2>7, <2>9
<1>6. QED BY <1>1, <1>4, <1>5

-----------------------------------------------------------------------------
(* The steps.                                                              *)

\* What is new: the links of at most one old entry and those of the new one.
LEMMA NewEntryType ==
  ASSUME TypeOK, NewEntry
  PROVE  /\ MaxEntries \in Nat /\ made \in Nat /\ made \in 0 .. MaxEntries - 1
         /\ made' = made + 1 /\ made + 1 \in Entries /\ made + 1 # NULL /\ ~ crashed
         /\ \A y \in 0 .. made : y \in 0 .. made + 1 /\ y # made + 1
         /\ \A y \in 1 .. made : y \in Entries /\ y # NULL
         /\ heap \in Links(MaxEntries, made)
<1>1. MaxEntries \in Nat /\ LoopEntries \in 0 .. MaxEntries /\ made \in 0 .. MaxEntries
  BY ListsAssumption DEF TypeOK
<1>2. made < MaxEntries /\ made' = made + 1 /\ ~ crashed
  BY <1>1 DEF NewEntry
<1>3. heap \in Links(MaxEntries, made)
  BY DEF TypeOK, Links, Entries
<1>4. QED BY <1>1, <1>2, <1>3 DEF Entries, NULL

\* A list of the old entries is one of all entries.
LEMMA HistoriesGrow ==
  ASSUME NEW m \in Nat, NEW s \in Seq(1 .. m)
  PROVE  s \in Seq(1 .. m + 1)
<1>1. 1 .. m \subseteq 1 .. m + 1
  OBVIOUS
<1>2. QED BY <1>1, SeqMonotonic

\* The lists of the others, and those that are spoiled, after the links of e were
\* changed in x.
LEMMA TouchKeeps ==
  ASSUME TypeOK, Histories, NEW x \in Vars, NEW e, NEW new, NEW m \in Nat,
         made' = m, \A z \in Vars : abs[z] \in Seq(1 .. m), Touch(x, e, new),
         x \notin spoiled => new \in Seq(1 .. m) /\ NoRepeats(new) /\ Chained(heap', lists'[x], new),
         \A z \in Vars \ {x} : lists'[z] = lists[z],
         \A z \in Vars \ {x} : e \notin ToSet(abs[z]) /\ Chained(heap, lists[z], abs[z]) =>
                                 Chained(heap', lists[z], abs[z])
  PROVE  Histories' /\ spoiled' \subseteq Vars
<1> DEFINE S == spoiled \cup {z \in Vars \ {x} : e \in ToSet(abs[z])}
<1>1. /\ spoiled' = S
      /\ abs' = [z \in Vars |-> IF z \in S THEN <<>> ELSE IF z = x THEN new ELSE abs[z]]
  BY DEF Touch
<1>2. S \subseteq Vars /\ (x \in S <=> x \in spoiled)
  BY DEF TypeOK
<1>3. ASSUME NEW z \in Vars
      PROVE  /\ abs'[z] \in Seq(1 .. m) /\ NoRepeats(abs'[z])
             /\ z \in S => abs'[z] = <<>>
             /\ z \notin S => Chained(heap', lists'[z], abs'[z])
  <2>1. CASE z \in S
    <3>1. abs'[z] = <<>>
      BY <1>1, <2>1
    <3>2. abs'[z] \in Seq(1 .. m) /\ Len(abs'[z]) = 0
      BY <3>1, EmptySeq
    <3>3. NoRepeats(abs'[z])
      BY <3>2 DEF NoRepeats
    <3>4. QED BY <2>1, <3>1, <3>2, <3>3
  <2>2. CASE z \notin S /\ z = x
    <3>1. abs'[z] = new /\ x \notin spoiled
      BY <1>1, <1>2, <2>2
    <3>2. QED BY <2>2, <3>1
  <2>3. CASE z \notin S /\ z # x
    <3>1. abs'[z] = abs[z] /\ z \notin spoiled /\ e \notin ToSet(abs[z]) /\ z \in Vars \ {x}
      BY <1>1, <2>3
    <3>2. NoRepeats(abs[z]) /\ Chained(heap, lists[z], abs[z])
      BY <3>1 DEF Histories
    <3>3. Chained(heap', lists'[z], abs'[z])
      BY <3>1, <3>2
    <3>4. QED BY <2>3, <3>1, <3>2, <3>3
  <2>4. QED BY <2>1, <2>2, <2>3
<1>4. abs' \in [Vars -> Seq(1 .. m)]
  BY <1>1, <1>3
<1> HIDE DEF S
<1>5. QED BY <1>1, <1>2, <1>3, <1>4 DEF Histories

\* An operation that changes the links of e and of the new entry only leaves the
\* lists alone that do not have e.
LEMMA OthersStay ==
  ASSUME TypeOK, NewEntry, NEW s \in Seq(1 .. made), NEW l, NEW e, e \notin ToSet(s),
         \A y \in 1 .. made : y # e => heap'.nxt[y] = heap.nxt[y] /\ heap'.prv[y] = heap.prv[y],
         Chained(heap, l, s)
  PROVE  Chained(heap', l, s)
<1>1. made \in Nat
  BY NewEntryType
<1>2. ASSUME NEW y \in 1 .. made, NEW i \in 1 .. Len(s), y = s[i]
      PROVE  heap'.nxt[y] = heap.nxt[y] /\ heap'.prv[y] = heap.prv[y]
  <2>1. s[i] \in ToSet(s)
    BY LenProperties DEF ToSet
  <2>2. y # e
    BY <1>2, <2>1
  <2>3. QED BY <2>2
<1>3. QED BY <1>1, <1>2, ChainedStays

\* append!
LEMMA AppendToStep ==
  ASSUME ListsInv, NEW x \in Vars, AppendTo(x)
  PROVE  ListsInv'
<1> DEFINE e == made + 1
           l == lists[x]
           r == AppendEntry(heap, l, e)
           e0 == IF l.head = NULL THEN NULL ELSE l.last
           new == Append(abs[x], e)
<1> USE DEF ListsInv
<1>1. /\ heap' = r.h /\ lists' = [lists EXCEPT ![x] = r.l] /\ Touch(x, e0, new)
      /\ it' = [it EXCEPT !.cut = @ \/ (it.on /\ Cuts(e0))]
      /\ UNCHANGED crashed /\ NewEntry
  BY DEF AppendTo
<1>2. /\ MaxEntries \in Nat /\ made \in Nat /\ made \in 0 .. MaxEntries - 1
      /\ made' = e /\ e \in Entries /\ e # NULL
      /\ \A y \in 0 .. made : y \in 0 .. e /\ y # e
      /\ \A y \in 1 .. made : y \in Entries /\ y # NULL
      /\ heap \in Links(MaxEntries, made)
  BY <1>1, NewEntryType
<1>3. /\ heap.nxt \in [Entries -> 0 .. made] /\ heap.prv \in [Entries -> 0 .. made]
      /\ heap = [nxt |-> heap.nxt, prv |-> heap.prv]
      /\ l \in [head : 0 .. made, last : 0 .. made, count : Nat, nil : BOOLEAN]
  BY DEF TypeOK
<1>4. /\ heap.nxt[e] = NULL /\ heap.prv[e] = NULL
      /\ \A y \in Entries : y > made => heap.nxt[y] = NULL /\ heap.prv[y] = NULL
  BY <1>2 DEF Fresh
<1>5. e0 = NULL <=> l.head = NULL
  BY DEF Headers
<1>6. e0 # NULL => e0 \in 1 .. made /\ e0 \in Entries /\ e0 # e
  <2>1. e0 # NULL => e0 \in 1 .. made
    BY <1>2, <1>3 DEF NULL
  <2>2. QED BY <1>2, <2>1
<1>7. /\ e0 = NULL => heap' = heap
      /\ e0 # NULL => heap' = [nxt |-> [heap.nxt EXCEPT ![e0] = e],
                               prv |-> [heap.prv EXCEPT ![e] = e0]]
  BY <1>1, <1>5 DEF AppendEntry
<1>8. /\ r.l = [head |-> IF l.head = NULL THEN e ELSE l.head, last |-> e, count |-> l.count + 1,
                nil |-> FALSE]
  BY DEF AppendEntry
<1>9. r.l \in [head : 0 .. e, last : 0 .. e, count : Nat, nil : BOOLEAN] /\ r.l.head # NULL /\ r.l.last = e
  <2>1. /\ (IF l.head = NULL THEN e ELSE l.head) \in 0 .. e /\ e \in 0 .. e
        /\ l.count + 1 \in Nat /\ e # NULL
    BY <1>2, <1>3
  <2> HIDE DEF l, e
  <2>2. QED BY <1>8, <2>1
<1>10. /\ lists' \in [Vars -> [head : 0 .. e, last : 0 .. e, count : Nat, nil : BOOLEAN]]
       /\ lists'[x] = r.l /\ \A z \in Vars \ {x} : lists'[z] = lists[z]
  <2>1. lists \in [Vars -> [head : 0 .. made, last : 0 .. made, count : Nat, nil : BOOLEAN]]
    BY DEF TypeOK
  <2>2. \A z \in Vars : lists[z] \in [head : 0 .. e, last : 0 .. e, count : Nat, nil : BOOLEAN]
    BY <1>2, <2>1
  <2> HIDE DEF r, l, e
  <2>3. QED BY <1>1, <1>9, <2>1, <2>2
<1> HIDE DEF e0, r
<1>11. /\ heap' \in [nxt : [Entries -> 0 .. e], prv : [Entries -> 0 .. e]]
       /\ \A y \in Entries : y # e0 => heap'.nxt[y] = heap.nxt[y]
       /\ \A y \in Entries : y # e => heap'.prv[y] = heap.prv[y]
       /\ e0 # NULL => heap'.nxt[e0] = e /\ heap'.prv[e] = e0
       /\ e0 = NULL => heap'.prv[e] = NULL
  <2>1. CASE e0 = NULL
    <3>1. heap' = heap
      BY <1>7, <2>1
    <3>2. heap.nxt \in [Entries -> 0 .. e] /\ heap.prv \in [Entries -> 0 .. e]
      BY <1>2, <1>3
    <3>3. QED BY <1>3, <1>4, <2>1, <3>1, <3>2
  <2>2. CASE e0 # NULL
    <3>1. heap' = [nxt |-> [heap.nxt EXCEPT ![e0] = e], prv |-> [heap.prv EXCEPT ![e] = e0]]
      BY <1>7, <2>2
    <3>2. /\ [heap.nxt EXCEPT ![e0] = e] \in [Entries -> 0 .. e]
          /\ [heap.prv EXCEPT ![e] = e0] \in [Entries -> 0 .. e]
      BY <1>2, <1>3, <1>6, <2>2
    <3>3. QED BY <1>2, <1>3, <1>6, <2>2, <3>1, <3>2
  <2>3. QED BY <2>1, <2>2
<1>12. Histories' /\ spoiled' \subseteq Vars
  <2>1. \A z \in Vars : abs[z] \in Seq(1 .. made) /\ NoRepeats(abs[z])
    BY DEF Histories
  <2>2. \A z \in Vars : abs[z] \in Seq(1 .. e)
    BY <1>2, <2>1, HistoriesGrow
  <2>3. ASSUME x \notin spoiled
        PROVE  new \in Seq(1 .. e) /\ NoRepeats(new) /\ Chained(heap', lists'[x], new)
    <3>1. Chained(heap, l, abs[x])
      BY <2>3 DEF Histories
    <3>2. Chained(heap', r.l, new) /\ NoRepeats(new)
      BY <1>1, <1>2, <1>4, <2>1, <3>1, ChainedAppend DEF r
    <3>3. new \in Seq(1 .. e)
      BY <1>2, <2>2
    <3>4. QED BY <1>10, <3>2, <3>3
  <2>4. ASSUME NEW z \in Vars \ {x}, e0 \notin ToSet(abs[z]), Chained(heap, lists[z], abs[z])
        PROVE  Chained(heap', lists[z], abs[z])
    <3>1. \A y \in 1 .. made :
            y # e0 => heap'.nxt[y] = heap.nxt[y] /\ heap'.prv[y] = heap.prv[y]
      BY <1>2, <1>11
    <3>2. QED BY <1>1, <2>1, <2>4, <3>1, OthersStay
  <2>5. e \in Nat /\ TypeOK /\ Histories
    BY <1>2
  <2> HIDE DEF new, e, l
  <2>6. \A z \in Vars \ {x} : e0 \notin ToSet(abs[z]) /\ Chained(heap, lists[z], abs[z]) =>
                                 Chained(heap', lists[z], abs[z])
    BY <2>4
  <2>7. QED BY <1>1, <1>2, <1>10, <2>2, <2>3, <2>5, <2>6, TouchKeeps
<1>13. Ordered'
  <2>1. PICK front \in SUBSET Entries : OrderedBy(heap, front)
    BY DEF Ordered
  <2> DEFINE back == front \ {e}
  <2>2. ASSUME NEW y \in 1 .. made PROVE Place(back, y) = Place(front, y) /\ Place(back, y) < Place(back, e)
    <3>1. y \in Int /\ y < e /\ e \in Int /\ y # e
      BY <1>2, <2>2
    <3>2. QED BY <3>1 DEF Place
  <2>3. ASSUME NEW y \in Entries, heap'.nxt[y] # NULL
        PROVE  Place(back, y) < Place(back, heap'.nxt[y])
    <3>1. CASE y = e0
      <4>1. e0 # NULL
        BY <1>2, <3>1 DEF NULL, Entries
      <4>2. y \in 1 .. made /\ heap'.nxt[y] = e
        BY <1>6, <1>11, <3>1, <4>1
      <4>3. QED BY <2>2, <4>2
    <3>2. CASE y # e0
      <4>1. heap'.nxt[y] = heap.nxt[y] /\ heap.nxt[y] \in 1 .. made /\ ~ (y > made)
        BY <1>2, <1>3, <1>4, <1>11, <2>3, <3>2 DEF NULL
      <4>2. y \in 1 .. made
        BY <1>2, <4>1 DEF Entries
      <4>3. Place(front, y) < Place(front, heap.nxt[y])
        BY <2>1, <2>3, <4>1 DEF OrderedBy
      <4>4. QED BY <2>2, <4>1, <4>2, <4>3
    <3>3. QED BY <3>1, <3>2
  <2>4. ASSUME NEW y \in Entries, heap'.prv[y] # NULL
        PROVE  Place(back, heap'.prv[y]) < Place(back, y)
    <3>1. CASE y = e
      BY <1>6, <1>11, <2>2, <2>4, <3>1
    <3>2. CASE y # e
      <4>1. heap'.prv[y] = heap.prv[y] /\ heap.prv[y] \in 1 .. made /\ ~ (y > made)
        BY <1>2, <1>3, <1>4, <1>11, <2>4, <3>2 DEF NULL
      <4>2. y \in 1 .. made
        BY <1>2, <4>1 DEF Entries
      <4>3. Place(front, heap.prv[y]) < Place(front, y)
        BY <2>1, <2>4, <4>1 DEF OrderedBy
      <4>4. QED BY <2>2, <4>1, <4>2, <4>3
    <3>3. QED BY <3>1, <3>2
  <2>5. back \in SUBSET Entries /\ OrderedBy(heap', back)
    BY <2>3, <2>4 DEF OrderedBy
  <2>6. QED BY <2>5 DEF Ordered
<1>14. Fresh'
  <2>1. ASSUME NEW y \in Entries, y > e PROVE heap'.nxt[y] = NULL /\ heap'.prv[y] = NULL
    <3>1. y > made /\ y # e /\ y # e0
      BY <1>2, <1>6, <2>1 DEF Entries, NULL
    <3>2. QED BY <1>4, <1>11, <3>1
  <2>2. QED BY <1>2, <2>1 DEF Fresh
<1>15. Headers'
  BY <1>2, <1>9, <1>10 DEF Headers
<1>16. Loop'
  <2>1. /\ it \in [on : BOOLEAN, entry : 0 .. made, seen : Seq(1 .. made),
                   first : Seq(1 .. made), cut : BOOLEAN]
        /\ it.on /\ ~it.cut => LoopAt(heap, it.seen, it.first, it.entry)
    BY DEF Loop
  <2>2. it.seen \in Seq(1 .. e) /\ it.first \in Seq(1 .. e) /\ it.entry \in 0 .. e
    BY <1>2, <2>1, HistoriesGrow
  <2>3. it' = [on |-> it.on, entry |-> it.entry, seen |-> it.seen, first |-> it.first,
               cut |-> it.cut \/ (it.on /\ Cuts(e0))]
    BY <1>1, <2>1
  <2>4. it' \in [on : BOOLEAN, entry : 0 .. e, seen : Seq(1 .. e), first : Seq(1 .. e),
                 cut : BOOLEAN]
    BY <2>1, <2>2, <2>3 DEF Cuts
  <2>5. ASSUME it'.on, ~it'.cut
        PROVE  LoopAt(heap', it'.seen, it'.first, it'.entry)
    <3> DEFINE m == Len(it.seen)
               n == Len(it.first)
    <3>1. LoopAt(heap, it.seen, it.first, it.entry) /\ ~ Cuts(e0)
      BY <2>1, <2>3, <2>5
    <3>2. m \in Nat /\ n \in Nat /\ \A i \in 1 .. n : it.first[i] \in 1 .. made
      BY <2>1, LenProperties
    <3>3. ASSUME NEW i \in m + 1 .. n - 1 PROVE heap'.nxt[it.first[i]] = it.first[i + 1]
      <4>1. i \in 1 .. n /\ i + 1 \in 1 .. n
        BY <3>2
      <4>2. heap.nxt[it.first[i]] = it.first[i + 1] /\ it.first[i + 1] # NULL /\ it.first[i] \in Entries
        BY <1>2, <3>1, <3>2, <4>1 DEF LoopAt
      <4>3. it.first[i] # e0
        BY <1>2, <3>1, <3>2, <4>1, <4>2 DEF Cuts
      <4>4. QED BY <1>11, <4>2, <4>3
    <3>4. LoopAt(heap', it.seen, it.first, it.entry)
      BY <3>1, <3>3 DEF LoopAt
    <3>5. QED BY <2>3, <3>4
  <2>6. QED BY <1>2, <2>4, <2>5 DEF Loop
<1>17. TypeOK'
  <2>1. made' \in 0 .. MaxEntries /\ crashed' \in BOOLEAN /\ it'.entry \in 0 .. made'
    BY <1>1, <1>2, <1>16 DEF TypeOK, Loop
  <2>2. QED BY <1>2, <1>10, <1>11, <1>12, <2>1 DEF TypeOK
<1>18. QED BY <1>12, <1>13, <1>14, <1>15, <1>16, <1>17

\* insert!
LEMMA InsertIntoStep ==
  ASSUME ListsInv, NEW x \in Vars, InsertInto(x)
  PROVE  ListsInv'
<1> DEFINE e == made + 1
           l == lists[x]
           r == InsertEntry(heap, l, e)
           e0 == l.head
           new == <<e>> \o abs[x]
<1> USE DEF ListsInv
<1>1. /\ heap' = r.h /\ lists' = [lists EXCEPT ![x] = r.l] /\ Touch(x, e0, new)
      /\ UNCHANGED <<it, crashed>> /\ NewEntry
  BY DEF InsertInto
<1>2. /\ MaxEntries \in Nat /\ made \in Nat /\ made \in 0 .. MaxEntries - 1
      /\ made' = e /\ e \in Entries /\ e # NULL
      /\ \A y \in 0 .. made : y \in 0 .. e /\ y # e
      /\ \A y \in 1 .. made : y \in Entries /\ y # NULL
      /\ heap \in Links(MaxEntries, made)
  BY <1>1, NewEntryType
<1>3. /\ heap.nxt \in [Entries -> 0 .. made] /\ heap.prv \in [Entries -> 0 .. made]
      /\ heap = [nxt |-> heap.nxt, prv |-> heap.prv]
      /\ l \in [head : 0 .. made, last : 0 .. made, count : Nat, nil : BOOLEAN]
  BY DEF TypeOK
<1>4. /\ heap.nxt[e] = NULL /\ heap.prv[e] = NULL
      /\ \A y \in Entries : y > made => heap.nxt[y] = NULL /\ heap.prv[y] = NULL
  BY <1>2 DEF Fresh
<1>5. e0 # NULL => e0 \in 1 .. made /\ e0 \in Entries /\ e0 # e
  <2>1. e0 # NULL => e0 \in 1 .. made
    BY <1>2, <1>3 DEF NULL
  <2>2. QED BY <1>2, <2>1
<1>6. /\ e0 = NULL => heap' = heap
      /\ e0 # NULL => heap' = [nxt |-> [heap.nxt EXCEPT ![e] = e0],
                               prv |-> [heap.prv EXCEPT ![e0] = e]]
  BY <1>1 DEF InsertEntry
<1>7. r.l = [head |-> e, last |-> IF l.head = NULL THEN e ELSE l.last, count |-> l.count + 1,
              nil |-> FALSE]
  BY DEF InsertEntry
<1>8. r.l \in [head : 0 .. e, last : 0 .. e, count : Nat, nil : BOOLEAN] /\ r.l.last # NULL
  <2>1. /\ (IF l.head = NULL THEN e ELSE l.last) \in 0 .. e /\ e \in 0 .. e
        /\ l.count + 1 \in Nat /\ (IF l.head = NULL THEN e ELSE l.last) # NULL
    BY <1>2, <1>3 DEF Headers
  <2> HIDE DEF l, e
  <2>2. QED BY <1>7, <2>1
<1>9. /\ lists' \in [Vars -> [head : 0 .. e, last : 0 .. e, count : Nat, nil : BOOLEAN]]
      /\ lists'[x] = r.l /\ \A z \in Vars \ {x} : lists'[z] = lists[z]
  <2>1. lists \in [Vars -> [head : 0 .. made, last : 0 .. made, count : Nat, nil : BOOLEAN]]
    BY DEF TypeOK
  <2>2. \A z \in Vars : lists[z] \in [head : 0 .. e, last : 0 .. e, count : Nat, nil : BOOLEAN]
    BY <1>2, <2>1
  <2> HIDE DEF r, l, e
  <2>3. QED BY <1>1, <1>8, <2>1, <2>2
<1> HIDE DEF e0, r
<1>10. /\ heap' \in [nxt : [Entries -> 0 .. e], prv : [Entries -> 0 .. e]]
       /\ \A y \in Entries : y # e => heap'.nxt[y] = heap.nxt[y]
       /\ \A y \in Entries : y # e0 => heap'.prv[y] = heap.prv[y]
       /\ e0 # NULL => heap'.nxt[e] = e0 /\ heap'.prv[e0] = e
       /\ e0 = NULL => heap'.nxt[e] = NULL
  <2>1. CASE e0 = NULL
    <3>1. heap' = heap
      BY <1>6, <2>1
    <3>2. heap.nxt \in [Entries -> 0 .. e] /\ heap.prv \in [Entries -> 0 .. e]
      BY <1>2, <1>3
    <3>3. QED BY <1>3, <1>4, <2>1, <3>1, <3>2
  <2>2. CASE e0 # NULL
    <3>1. heap' = [nxt |-> [heap.nxt EXCEPT ![e] = e0], prv |-> [heap.prv EXCEPT ![e0] = e]]
      BY <1>6, <2>2
    <3>2. /\ [heap.nxt EXCEPT ![e] = e0] \in [Entries -> 0 .. e]
          /\ [heap.prv EXCEPT ![e0] = e] \in [Entries -> 0 .. e]
      BY <1>2, <1>3, <1>5, <2>2
    <3>3. QED BY <1>2, <1>3, <1>5, <2>2, <3>1, <3>2
  <2>3. QED BY <2>1, <2>2
<1>11. Histories' /\ spoiled' \subseteq Vars
  <2>1. \A z \in Vars : abs[z] \in Seq(1 .. made) /\ NoRepeats(abs[z])
    BY DEF Histories
  <2>2. \A z \in Vars : abs[z] \in Seq(1 .. e)
    BY <1>2, <2>1, HistoriesGrow
  <2>3. ASSUME x \notin spoiled
        PROVE  new \in Seq(1 .. e) /\ NoRepeats(new) /\ Chained(heap', lists'[x], new)
    <3>1. Chained(heap, l, abs[x])
      BY <2>3 DEF Histories
    <3>2. Chained(heap', r.l, new) /\ NoRepeats(new)
      BY <1>1, <1>2, <1>4, <2>1, <3>1, ChainedInsert DEF r
    <3>3. <<e>> \in Seq(1 .. e)
      BY <1>2
    <3>4. new \in Seq(1 .. e)
      BY <2>2, <3>3, ConcatProperties
    <3>5. QED BY <1>9, <3>2, <3>4
  <2>4. ASSUME NEW z \in Vars \ {x}, e0 \notin ToSet(abs[z]), Chained(heap, lists[z], abs[z])
        PROVE  Chained(heap', lists[z], abs[z])
    <3>1. \A y \in 1 .. made :
            y # e0 => heap'.nxt[y] = heap.nxt[y] /\ heap'.prv[y] = heap.prv[y]
      BY <1>2, <1>10
    <3>2. QED BY <1>1, <2>1, <2>4, <3>1, OthersStay
  <2>5. e \in Nat /\ TypeOK /\ Histories
    BY <1>2
  <2> HIDE DEF new, e, l
  <2>6. \A z \in Vars \ {x} : e0 \notin ToSet(abs[z]) /\ Chained(heap, lists[z], abs[z]) =>
                                 Chained(heap', lists[z], abs[z])
    BY <2>4
  <2>7. QED BY <1>1, <1>2, <1>9, <2>2, <2>3, <2>5, <2>6, TouchKeeps
<1>12. Ordered'
  <2>1. PICK front \in SUBSET Entries : OrderedBy(heap, front)
    BY DEF Ordered
  <2> DEFINE fore == front \cup {e}
  <2>2. ASSUME NEW y \in 1 .. made PROVE Place(fore, y) = Place(front, y) /\ Place(fore, e) < Place(fore, y)
    <3>1. y \in Int /\ -e < y /\ -e < -y /\ e \in Int /\ y # e
      BY <1>2, <2>2
    <3>2. QED BY <3>1 DEF Place
  <2>3. ASSUME NEW y \in Entries, heap'.nxt[y] # NULL
        PROVE  Place(fore, y) < Place(fore, heap'.nxt[y])
    <3>1. CASE y = e
      BY <1>5, <1>10, <2>2, <2>3, <3>1
    <3>2. CASE y # e
      <4>1. heap'.nxt[y] = heap.nxt[y] /\ heap.nxt[y] \in 1 .. made /\ ~ (y > made)
        BY <1>2, <1>3, <1>4, <1>10, <2>3, <3>2 DEF NULL
      <4>2. y \in 1 .. made
        BY <1>2, <4>1 DEF Entries
      <4>3. Place(front, y) < Place(front, heap.nxt[y])
        BY <2>1, <2>3, <4>1 DEF OrderedBy
      <4>4. QED BY <2>2, <4>1, <4>2, <4>3
    <3>3. QED BY <3>1, <3>2
  <2>4. ASSUME NEW y \in Entries, heap'.prv[y] # NULL
        PROVE  Place(fore, heap'.prv[y]) < Place(fore, y)
    <3>1. CASE y = e0
      <4>1. e0 # NULL
        BY <1>2, <3>1 DEF NULL, Entries
      <4>2. y \in 1 .. made /\ heap'.prv[y] = e
        BY <1>5, <1>10, <3>1, <4>1
      <4>3. QED BY <2>2, <4>2
    <3>2. CASE y # e0
      <4>1. heap'.prv[y] = heap.prv[y] /\ heap.prv[y] \in 1 .. made /\ ~ (y > made)
        BY <1>2, <1>3, <1>4, <1>10, <2>4, <3>2 DEF NULL
      <4>2. y \in 1 .. made
        BY <1>2, <4>1 DEF Entries
      <4>3. Place(front, heap.prv[y]) < Place(front, y)
        BY <2>1, <2>4, <4>1 DEF OrderedBy
      <4>4. QED BY <2>2, <4>1, <4>2, <4>3
    <3>3. QED BY <3>1, <3>2
  <2>5. fore \in SUBSET Entries /\ OrderedBy(heap', fore)
    BY <1>2, <2>3, <2>4 DEF OrderedBy
  <2>6. QED BY <2>5 DEF Ordered
<1>13. Fresh'
  <2>1. ASSUME NEW y \in Entries, y > e PROVE heap'.nxt[y] = NULL /\ heap'.prv[y] = NULL
    <3>1. y > made /\ y # e /\ y # e0
      BY <1>2, <1>5, <2>1 DEF Entries, NULL
    <3>2. QED BY <1>4, <1>10, <3>1
  <2>2. QED BY <1>2, <2>1 DEF Fresh
<1>14. Headers'
  BY <1>8, <1>9 DEF Headers
<1>15. Loop'
  <2>1. /\ it \in [on : BOOLEAN, entry : 0 .. made, seen : Seq(1 .. made),
                   first : Seq(1 .. made), cut : BOOLEAN]
        /\ it.on /\ ~it.cut => LoopAt(heap, it.seen, it.first, it.entry)
    BY DEF Loop
  <2>2. it.seen \in Seq(1 .. e) /\ it.first \in Seq(1 .. e) /\ it.entry \in 0 .. e
    BY <1>2, <2>1, HistoriesGrow
  <2>3. it \in [on : BOOLEAN, entry : 0 .. e, seen : Seq(1 .. e), first : Seq(1 .. e),
                cut : BOOLEAN]
    BY <2>1, <2>2
  <2>4. ASSUME it.on, ~it.cut
        PROVE  LoopAt(heap', it.seen, it.first, it.entry)
    <3> DEFINE m == Len(it.seen)
               n == Len(it.first)
    <3>1. LoopAt(heap, it.seen, it.first, it.entry)
      BY <2>1, <2>4
    <3>2. m \in Nat /\ n \in Nat /\ \A i \in 1 .. n : it.first[i] \in 1 .. made
      BY <2>1, LenProperties
    <3>3. ASSUME NEW i \in m + 1 .. n - 1 PROVE heap'.nxt[it.first[i]] = it.first[i + 1]
      <4>1. i \in 1 .. n
        BY <3>2
      <4>2. it.first[i] \in 0 .. made /\ it.first[i] \in Entries
        BY <1>2, <3>2, <4>1
      <4>3. heap.nxt[it.first[i]] = it.first[i + 1] /\ it.first[i] # e
        BY <1>2, <3>1, <4>2 DEF LoopAt
      <4>4. QED BY <1>10, <4>2, <4>3
    <3>4. QED BY <3>1, <3>3 DEF LoopAt
  <2>5. QED BY <1>1, <1>2, <2>3, <2>4 DEF Loop
<1>16. TypeOK'
  <2>1. made' \in 0 .. MaxEntries /\ crashed' \in BOOLEAN /\ it'.entry \in 0 .. made'
    BY <1>1, <1>2, <1>15 DEF TypeOK, Loop
  <2>2. QED BY <1>2, <1>9, <1>10, <1>11, <2>1 DEF TypeOK
<1>17. QED BY <1>11, <1>12, <1>13, <1>14, <1>15, <1>16

\* Both lists without elements are headers.
LEMMA EmptyType ==
  ASSUME NEW m \in Nat
  PROVE  /\ EmptyList \in [head : 0 .. m, last : 0 .. m, count : Nat, nil : BOOLEAN]
         /\ NilList \in [head : 0 .. m, last : 0 .. m, count : Nat, nil : BOOLEAN]
<1>1. 0 \in 0 .. m /\ 0 \in Nat
  OBVIOUS
<1>2. TRUE \in BOOLEAN /\ FALSE \in BOOLEAN
  OBVIOUS
<1>3. QED BY <1>1, <1>2 DEF EmptyList, NilList, NULL

\* tail
LEMMA TailOfStep ==
  ASSUME ListsInv, NEW z \in Vars, NEW x \in Vars, TailOf(z, x)
  PROVE  ListsInv'
<1> DEFINE l == lists[x]
           s == abs[x]
           t == IF s = <<>> THEN <<>> ELSE Tail(s)
           c == Cdr(heap, l)
<1> USE DEF ListsInv
<1>1. UNCHANGED <<made, heap, it>>
  BY DEF TailOf
<1>2. Fresh' /\ Ordered' /\ Loop'
  BY <1>1 DEF Fresh, Ordered, OrderedBy, Loop, LoopAt
<1>3. CASE CdrCrashes(l)
  <2>1. crashed' = TRUE /\ UNCHANGED <<lists, abs, spoiled>>
    BY <1>3 DEF TailOf
  <2>2. TypeOK'
    BY <1>1, <2>1 DEF TypeOK
  <2>3. Headers'
    BY <1>1, <2>1 DEF Headers
  <2>4. Histories'
    BY <1>1, <2>1 DEF Histories, Chained
  <2>5. QED BY <1>2, <2>2, <2>3, <2>4
<1>4. CASE ~ CdrCrashes(l)
  <2>1. /\ lists' = [lists EXCEPT ![z] = c] /\ abs' = [abs EXCEPT ![z] = t]
        /\ spoiled' = IF x \in spoiled THEN spoiled \cup {z} ELSE spoiled \ {z}
        /\ UNCHANGED crashed
    BY <1>4 DEF TailOf
  <2>2. /\ heap.nxt \in [Entries -> 0 .. made] /\ made \in Nat
        /\ \A y \in 1 .. made : y \in Entries
        /\ lists \in [Vars -> [head : 0 .. made, last : 0 .. made, count : Nat, nil : BOOLEAN]]
        /\ l \in [head : 0 .. made, last : 0 .. made, count : Nat, nil : BOOLEAN]
    BY ListsAssumption DEF TypeOK, Entries
  <2>3. c \in [head : 0 .. made, last : 0 .. made, count : Nat, nil : BOOLEAN] /\ (c.head # NULL => c.last # NULL)
    <3>1. CASE l.nil \/ l.count <= 1
      <4>1. c = EmptyList \/ c = NilList
        BY <2>2, <3>1 DEF Cdr
      <4>2. c.head = NULL
        BY <4>1 DEF EmptyList, NilList
      <4>3. QED BY <2>2, <4>1, <4>2, EmptyType
    <3>2. CASE ~ (l.nil \/ l.count <= 1)
      <4>1. l.head # NULL /\ l.last # NULL /\ l.head \in Entries
        BY <1>4, <2>2, <3>2 DEF CdrCrashes, Headers, NULL
      <4>2. c = [head |-> heap.nxt[l.head], last |-> l.last, count |-> l.count - 1,
                nil |-> FALSE]
        BY <2>2, <3>2 DEF Cdr
      <4>3. heap.nxt[l.head] \in 0 .. made /\ l.last \in 0 .. made /\ l.count - 1 \in Nat
        BY <2>2, <3>2, <4>1
      <4>4. QED BY <4>1, <4>2, <4>3
    <3>3. QED BY <3>1, <3>2
  <2>4. /\ abs \in [Vars -> Seq(1 .. made)] /\ s \in Seq(1 .. made) /\ NoRepeats(s)
        /\ x \in spoiled => s = <<>>
        /\ x \notin spoiled => Chained(heap, l, s)
    BY DEF Histories
  <2>5. /\ t \in Seq(1 .. made) /\ NoRepeats(t)
        /\ x \in spoiled => t = <<>>
        /\ x \notin spoiled => Chained(heap, c, t)
    <3>1. CASE x \in spoiled
      <4>1. t = <<>>
        BY <2>4, <3>1
      <4>2. t \in Seq(1 .. made) /\ Len(t) = 0
        BY <4>1, EmptySeq
      <4>3. QED BY <3>1, <4>1, <4>2 DEF NoRepeats
    <3>2. CASE x \notin spoiled
      BY <2>2, <2>4, <3>2, ChainedCdr
    <3>3. QED BY <3>1, <3>2
  <2> HIDE DEF l, s, t, c
  <2>6. lists' \in [Vars -> [head : 0 .. made, last : 0 .. made, count : Nat, nil : BOOLEAN]]
    BY <2>1, <2>2, <2>3
  <2>7. Headers'
    BY <2>1, <2>2, <2>3 DEF Headers
  <2>8. spoiled' \subseteq Vars
    BY <2>1 DEF TypeOK
  <2>9. TypeOK'
    BY <1>1, <2>1, <2>6, <2>8 DEF TypeOK
  <2>10. Histories'
    <3>1. abs' \in [Vars -> Seq(1 .. made)]
      BY <2>1, <2>4, <2>5
    <3>2. ASSUME NEW y \in Vars
          PROVE  /\ NoRepeats(abs'[y])
                 /\ y \in spoiled' => abs'[y] = <<>>
                 /\ y \notin spoiled' => Chained(heap, lists'[y], abs'[y])
      <4>1. CASE y = z
        <5>1. abs'[y] = t /\ lists'[y] = c /\ (y \in spoiled' <=> x \in spoiled)
          BY <2>1, <2>2, <2>4, <4>1
        <5>2. QED BY <2>5, <5>1
      <4>2. CASE y # z
        <5>1. abs'[y] = abs[y] /\ lists'[y] = lists[y] /\ (y \in spoiled' <=> y \in spoiled)
          BY <2>1, <2>2, <2>4, <4>2
        <5>2. QED BY <5>1 DEF Histories
      <4>3. QED BY <4>1, <4>2
    <3>3. QED BY <1>1, <3>1, <3>2 DEF Histories
  <2>11. QED BY <1>2, <2>7, <2>9, <2>10
<1>5. QED BY <1>3, <1>4

\* A step of the loop changes no list.
LEMMA LoopStepKeeps ==
  ASSUME ListsInv, UNCHANGED <<made, heap, lists, abs, spoiled, crashed>>, it'.entry \in 0 .. made
  PROVE  TypeOK' /\ Headers' /\ Fresh' /\ Ordered' /\ Histories'
<1> USE DEF ListsInv
<1>1. TypeOK'
  BY DEF TypeOK
<1>2. Headers' /\ Fresh'
  BY DEF Headers, Fresh
<1>3. Ordered'
  BY DEF Ordered, OrderedBy
<1>4. Histories'
  BY DEF Histories, Chained
<1>5. QED BY <1>1, <1>2, <1>3, <1>4

\* A loop begins on the list it was given.
LEMMA BeginStep ==
  ASSUME ListsInv, NEW x \in Vars, Begin(x)
  PROVE  ListsInv'
<1> DEFINE h == lists[x].head
           w == Walk(heap.nxt, h, made + 1)
<1> USE DEF ListsInv
<1>1. /\ it' = [on |-> TRUE, entry |-> h, seen |-> <<>>, first |-> w, cut |-> FALSE]
      /\ UNCHANGED <<made, heap, lists, abs, spoiled, crashed>>
  BY DEF Begin, NoLoop, WalkOf
<1>2. h \in 0 .. made
  BY DEF TypeOK
<1>3. TypeOK' /\ Headers' /\ Fresh' /\ Ordered' /\ Histories'
  BY <1>1, <1>2, LoopStepKeeps
<1>4. w \in Seq(1 .. made)
  BY <1>2, WalkType
<1>5. PICK n \in 0 .. made :
        /\ w = [k \in 1 .. n |-> Steps(heap.nxt, h, k - 1)]
        /\ \A j \in 0 .. (n - 1) : Steps(heap.nxt, h, j) \in 1 .. made
  BY <1>2, WalksAreShort
<1>6. n \in Nat /\ Len(w) = n
  BY <1>4, <1>5, ListsAssumption DEF TypeOK
<1>7. 0 < n => h = w[1]
  <2>1. SUFFICES ASSUME 0 < n PROVE h = w[1]
    OBVIOUS
  <2>2. 1 \in 1 .. n /\ 1 - 1 = 0
    BY <1>6, <2>1
  <2>3. w[1] = Steps(heap.nxt, h, 0)
    BY <1>5, <2>2
  <2>4. QED BY <2>3, StepsZero
<1>8. ASSUME NEW i \in 1 .. n - 1 PROVE heap.nxt[w[i]] = w[i + 1]
  <2>1. /\ i \in 1 .. n /\ i + 1 \in 1 .. n /\ (i + 1) - 1 = (i - 1) + 1
        /\ i - 1 \in 0 .. (n - 1) /\ i - 1 \in Nat
    BY <1>6
  <2>2. w[i] = Steps(heap.nxt, h, i - 1) /\ w[i + 1] = Steps(heap.nxt, h, (i - 1) + 1)
    BY <1>5, <2>1
  <2>3. Steps(heap.nxt, h, i - 1) # NULL
    BY <1>5, <2>1 DEF NULL
  <2>4. QED BY <2>1, <2>2, <2>3, StepsNext
<1> HIDE DEF w
<1>9. LoopAt(heap, <<>>, w, h)
  <2>1. Len(<<>>) = 0
    OBVIOUS
  <2>2. \A i \in 0 + 1 .. n - 1 : heap.nxt[w[i]] = w[i + 1]
    BY <1>8
  <2>3. \A i \in 1 .. n : ~ (i <= 0)
    BY <1>6
  <2>4. QED BY <1>6, <1>7, <2>1, <2>2, <2>3 DEF LoopAt
<1>10. Loop'
  BY <1>1, <1>2, <1>4, <1>9 DEF Loop
<1>11. QED BY <1>3, <1>10

\* The function is called with the next element.
LEMMA VisitStep ==
  ASSUME ListsInv, Visit
  PROVE  ListsInv'
<1> DEFINE e == it.entry
           s == it.seen
           f == it.first
           m == Len(s)
           n == Len(f)
           t == Append(s, e)
<1> USE DEF ListsInv
<1>1. /\ it' = [it EXCEPT !.seen = t, !.entry = heap.nxt[e]]
      /\ UNCHANGED <<made, heap, lists, abs, spoiled, crashed>>
      /\ it.on /\ e # NULL
  BY DEF Visit, Ahead
<1>2. /\ it \in [on : BOOLEAN, entry : 0 .. made, seen : Seq(1 .. made),
                 first : Seq(1 .. made), cut : BOOLEAN]
      /\ ~ it.cut => LoopAt(heap, s, f, e)
  BY <1>1 DEF Loop
<1>3. /\ made \in Nat /\ e \in 1 .. made /\ e \in Entries
      /\ heap.nxt[e] \in 0 .. made
      /\ s \in Seq(1 .. made) /\ f \in Seq(1 .. made) /\ m \in Nat /\ n \in Nat
  <2>1. /\ it.entry \in 0 .. made /\ it.seen \in Seq(1 .. made) /\ it.first \in Seq(1 .. made)
        /\ it.entry # NULL
    BY <1>1, <1>2
  <2>2. m \in Nat /\ n \in Nat
    BY <2>1, LenProperties
  <2>3. MaxEntries \in Nat /\ made \in 0 .. MaxEntries /\ heap.nxt \in [Entries -> 0 .. made]
    BY ListsAssumption DEF TypeOK
  <2>4. e \in 1 .. made /\ e \in Entries /\ made \in Nat
    BY <2>1, <2>3 DEF Entries, NULL
  <2>5. heap.nxt[e] \in 0 .. made
    BY <2>3, <2>4
  <2>6. QED BY <2>1, <2>2, <2>4, <2>5
<1>4. TypeOK' /\ Headers' /\ Fresh' /\ Ordered' /\ Histories'
  <2>1. it'.entry = heap.nxt[e]
    BY <1>1, <1>2
  <2>2. QED BY <1>1, <1>3, <2>1, LoopStepKeeps
<1>5. /\ t \in Seq(1 .. made) /\ Len(t) = m + 1
      /\ \A i \in 1 .. m + 1 : t[i] = IF i <= m THEN s[i] ELSE e
  BY <1>3
<1>6. /\ it' \in [on : BOOLEAN, entry : 0 .. made, seen : Seq(1 .. made),
                  first : Seq(1 .. made), cut : BOOLEAN]
      /\ it'.seen = t /\ it'.first = f /\ it'.entry = heap.nxt[e] /\ it'.cut = it.cut
  BY <1>1, <1>2, <1>3, <1>5
<1>7. ASSUME ~ it.cut PROVE LoopAt(heap, t, f, heap.nxt[e])
  <2>1. /\ \A i \in 1 .. n : i <= m => f[i] = s[i]
        /\ m < n => e = f[m + 1]
        /\ \A i \in m + 1 .. n - 1 : heap.nxt[f[i]] = f[i + 1]
    BY <1>2, <1>7 DEF LoopAt
  <2> HIDE DEF e, s, f, m, n, t
  <2>2. ASSUME NEW i \in 1 .. n, i <= m + 1 PROVE f[i] = t[i]
    <3>1. CASE i <= m
      BY <1>3, <1>5, <2>1, <3>1
    <3>2. CASE i = m + 1
      BY <1>3, <1>5, <2>1, <3>2
    <3>3. QED BY <1>3, <2>2, <3>1, <3>2
  <2>3. m + 1 < n => heap.nxt[e] = f[(m + 1) + 1]
    BY <1>3, <2>1
  <2>4. \A i \in (m + 1) + 1 .. n - 1 : heap.nxt[f[i]] = f[i + 1]
    BY <1>3, <2>1
  <2>5. Len(f) = n
    BY DEF n
  <2>6. QED BY <1>5, <2>2, <2>3, <2>4, <2>5 DEF LoopAt
<1>8. Loop'
  BY <1>1, <1>6, <1>7 DEF Loop
<1>9. QED BY <1>4, <1>8

LEMMA DoneStep ==
  ASSUME ListsInv, Done
  PROVE  ListsInv'
<1> USE DEF ListsInv
<1>1. it' = NoLoop /\ UNCHANGED <<made, heap, lists, abs, spoiled, crashed>>
  BY DEF Done
<1>2. made \in Nat
  BY ListsAssumption DEF TypeOK
<1>3. TypeOK' /\ Headers' /\ Fresh' /\ Ordered' /\ Histories'
  <2>1. it'.entry \in 0 .. made
    BY <1>1, <1>2 DEF NoLoop, NULL
  <2>2. QED BY <1>1, <2>1, LoopStepKeeps
<1>4. Loop'
  BY <1>1, <1>2 DEF Loop, NoLoop, NULL
<1>5. QED BY <1>3, <1>4

\* At first there are no entries and no lists.
\* index
LEMMA IndexOfStep ==
  ASSUME ListsInv, NEW x \in Vars, IndexOf(x)
  PROVE  ListsInv'
<1> USE DEF ListsInv
<1>1. crashed' = TRUE /\ UNCHANGED <<made, heap, lists, abs, spoiled, it>>
  BY DEF IndexOf
<1>2. TypeOK' /\ Headers' /\ Fresh'
  BY <1>1 DEF TypeOK, Headers, Fresh
<1>3. Ordered' /\ Loop'
  BY <1>1 DEF Ordered, OrderedBy, Loop, LoopAt
<1>4. Histories'
  BY <1>1 DEF Histories, Chained
<1>5. QED BY <1>2, <1>3, <1>4

LEMMA InitLists == Init => ListsInv
<1>1. SUFFICES ASSUME Init PROVE ListsInv
  OBVIOUS
<1>2. /\ made = 0 /\ spoiled = {} /\ crashed = FALSE /\ it = NoLoop
      /\ heap = [nxt |-> [e \in Entries |-> NULL], prv |-> [e \in Entries |-> NULL]]
      /\ lists = [x \in Vars |-> EmptyList] /\ abs = [x \in Vars |-> <<>>]
  BY <1>1 DEF Init
<1>3. MaxEntries \in Nat
  BY ListsAssumption
<1>4. \A e \in Entries : heap.nxt[e] = NULL /\ heap.prv[e] = NULL
  BY <1>2
<1>5. TypeOK
  <2>1. made \in 0 .. MaxEntries /\ spoiled \subseteq Vars /\ crashed \in BOOLEAN
    <3>1. made \in 0 .. MaxEntries
      BY <1>2, <1>3
    <3>2. spoiled \subseteq Vars
      BY <1>2
    <3>3. crashed \in BOOLEAN
      BY <1>2, Zenon
    <3>4. QED BY <3>1, <3>2, <3>3
  <2>2. it.entry \in 0 .. made
    BY <1>2 DEF NoLoop, NULL
  <2>3. heap \in [nxt : [Entries -> 0 .. made], prv : [Entries -> 0 .. made]]
    BY <1>2 DEF NULL
  <2>4. EmptyList \in [head : 0 .. made, last : 0 .. made, count : Nat, nil : BOOLEAN]
    BY <1>2, EmptyType
  <2>5. lists \in [Vars -> [head : 0 .. made, last : 0 .. made, count : Nat, nil : BOOLEAN]]
    BY <1>2, <2>4
  <2>6. QED BY <2>1, <2>2, <2>3, <2>5 DEF TypeOK
<1>6. Headers /\ Fresh
  BY <1>2, <1>4 DEF Headers, Fresh, EmptyList
<1>7. Ordered
  BY <1>4 DEF Ordered, OrderedBy
<1>8. Histories
  <2>1. ASSUME NEW x \in Vars
        PROVE  abs[x] = <<>> /\ NoRepeats(abs[x]) /\ Chained(heap, lists[x], abs[x])
    <3>1. abs[x] = <<>> /\ lists[x] = EmptyList /\ Len(abs[x]) = 0
      BY <1>2
    <3>2. ~ (\E i \in 1 .. 0 : TRUE) /\ ~ (\E i \in 1 .. 0 - 1 : TRUE)
      OBVIOUS
    <3>3. QED BY <3>1, <3>2 DEF NoRepeats, Chained, EmptyList
  <2>2. abs \in [Vars -> Seq(1 .. made)]
    BY <1>2
  <2>3. QED BY <1>2, <2>1, <2>2 DEF Histories
<1>9. Loop
  BY <1>2 DEF Loop, NoLoop, NULL
<1>10. QED BY <1>5, <1>6, <1>7, <1>8, <1>9 DEF ListsInv

-----------------------------------------------------------------------------
(***************************************************************************)
(* The theorems.                                                           *)
(***************************************************************************)
\* One order of the entries explains the links of all lists, whoever shares
\* them; every list that others left alone is what was made of it, linked both
\* ways; the loop of foldl goes along what it began with.
THEOREM ListsInvariant == Spec => []ListsInv
<1>1. ListsInv /\ [Next]_vars => ListsInv'
  <2>1. SUFFICES ASSUME ListsInv, [Next]_vars PROVE ListsInv'
    OBVIOUS
  <2>2. CASE \E x \in Vars : AppendTo(x)
    BY <2>1, <2>2, AppendToStep
  <2>3. CASE \E x \in Vars : InsertInto(x)
    BY <2>1, <2>3, InsertIntoStep
  <2>4. CASE \E x \in Vars : \E z \in Vars : TailOf(z, x)
    BY <2>1, <2>4, TailOfStep
  <2>5. CASE \E x \in Vars : Begin(x)
    BY <2>1, <2>5, BeginStep
  <2>6. CASE Visit
    BY <2>1, <2>6, VisitStep
  <2>7. CASE Done
    BY <2>1, <2>7, DoneStep
  <2>10. CASE \E x \in Vars : IndexOf(x)
    BY <2>1, <2>10, IndexOfStep
  <2>8. CASE UNCHANGED vars
    <3>1. TypeOK' /\ Headers' /\ Fresh'
      BY <2>1, <2>8 DEF vars, ListsInv, TypeOK, Headers, Fresh
    <3>2. Ordered' /\ Loop'
      BY <2>1, <2>8 DEF vars, ListsInv, Ordered, OrderedBy, Loop, LoopAt
    <3>3. Histories'
      BY <2>1, <2>8 DEF vars, ListsInv, Histories, Chained
    <3>4. QED BY <3>1, <3>2, <3>3 DEF ListsInv
  <2>9. QED BY <2>1, <2>2, <2>3, <2>4, <2>5, <2>6, <2>7, <2>8, <2>10 DEF Next
<1>2. QED BY InitLists, <1>1, PTL DEF Spec

\* Every link and header leads to an entry akl_new_list_entry gave, also when
\* lists share entries.
THEOREM TypeCorrect == Spec => []TypeOK
<1>1. ListsInv => TypeOK
  BY DEF ListsInv
<1>2. QED BY ListsInvariant, <1>1, PTL

\* A list nobody else appended to or inserted into is walked, counted and
\* indexed from both ends as the program made it, whatever tails share it.
THEOREM IntactListsAreRight == Spec => []IntactIsRight
<1>1. ListsInv => IntactIsRight
  BY IntactFollows DEF ListsInv
<1>2. QED BY ListsInvariant, <1>1, PTL

\* No sequence of append!, insert! and tail closes a circle of links: printing
\* and comparing a list, forwards or backwards, ends.
THEOREM WalksAlwaysEnd == Spec => []WalksEnd
<1>1. ListsInv => WalksEnd
  BY WalksEndFollows DEF ListsInv
<1>2. QED BY ListsInvariant, <1>1, PTL

\* foldl, map and map-index meet every element the list had, in order, even if
\* the function they call changes lists, unless it cuts entries off.
THEOREM IterationsMeetAll == Spec => []IterationMeetsAll
<1>1. ListsInv => IterationMeetsAll
  BY IterationFollows DEF ListsInv
<1>2. QED BY ListsInvariant, <1>1, PTL

\* akl_cdr ends the process only on a list whose entries others changed.
THEOREM OnlySpoiledListsCrash == Spec => []OnlySpoiledCrash
<1>1. ListsInv => OnlySpoiledCrash
  BY OnlySpoiledFollows DEF ListsInv
<1>2. QED BY ListsInvariant, <1>1, PTL
=============================================================================
