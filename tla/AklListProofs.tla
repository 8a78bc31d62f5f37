--------------------------- MODULE AklListProofs ---------------------------
(***************************************************************************)
(* What the operations of AklList do to the links and the header of a list *)
(* whose entries are in the order of their numbers, for any such list.     *)
(***************************************************************************)
EXTENDS AklList, FiniteSets, FiniteSetTheorems, TLAPS

\* the links of entries E, and a header into them
LinksOf(E)   == [nxt : [E -> E \cup {NULL}], prv : [E -> E \cup {NULL}]]
HeaderOf(E)  == [head : E \cup {NULL}, last : E \cup {NULL}, count : Nat, nil : BOOLEAN]

\* from e the links lead to the neighbours of e in S, NULL when there is none
NextIn(nxt, S, e) ==
  IF nxt[e] = NULL THEN \A x \in S : x <= e
  ELSE nxt[e] \in S /\ e < nxt[e] /\ \A x \in S : x <= e \/ nxt[e] <= x
PrevIn(prv, S, e) ==
  IF prv[e] = NULL THEN \A x \in S : e <= x
  ELSE prv[e] \in S /\ prv[e] < e /\ \A x \in S : x <= prv[e] \/ e <= x
Joined(nxt, prv, S) == \A e \in S : NextIn(nxt, S, e) /\ PrevIn(prv, S, e)

\* head and last are the ends of S
EndsOf(head, last, S) ==
  IF S = {} THEN head = NULL /\ last = NULL
  ELSE /\ head \in S /\ \A x \in S : head <= x
       /\ last \in S /\ \A x \in S : x <= last

IsList(h, l, S) ==
  /\ EndsOf(l.head, l.last, S) /\ l.count = Cardinality(S)
  /\ Joined(h.nxt, h.prv, S)

\* A lies in S without gaps
Gapless(A, S) == \A a, b \in A, x \in S : a <= x /\ x <= b => x \in A

-----------------------------------------------------------------------------
\* What comes before and behind an entry e of S (le_prev, le_next).
LEMMA Neighbours ==
  ASSUME NEW S \in SUBSET Nat, NULL \notin S, NEW nxt, NEW prv, Joined(nxt, prv, S),
         NEW e \in S
  PROVE  /\ prv[e] = NULL => \A x \in S : e <= x
         /\ prv[e] # NULL => /\ prv[e] \in S \ {e} /\ prv[e] \in Nat /\ prv[e] < e
                             /\ \A x \in S : x <= prv[e] \/ e <= x
         /\ nxt[e] = NULL => \A x \in S : x <= e
         /\ nxt[e] # NULL => /\ nxt[e] \in S \ {e} /\ nxt[e] \in Nat /\ e < nxt[e]
                             /\ \A x \in S : x <= e \/ nxt[e] <= x
<1>1. NextIn(nxt, S, e) /\ PrevIn(prv, S, e)
  BY DEF Joined
<1>2. prv[e] = NULL => \A x \in S : e <= x
  BY <1>1 DEF PrevIn
<1>3. nxt[e] = NULL => \A x \in S : x <= e
  BY <1>1 DEF NextIn
<1>4. ASSUME prv[e] # NULL
      PROVE  /\ prv[e] \in S \ {e} /\ prv[e] \in Nat /\ prv[e] < e
             /\ \A x \in S : x <= prv[e] \/ e <= x
  <2>1. prv[e] \in S /\ prv[e] < e /\ \A x \in S : x <= prv[e] \/ e <= x
    BY <1>1, <1>4 DEF PrevIn
  <2>2. prv[e] \in Nat /\ e \in Nat
    BY <2>1
  <2>3. prv[e] # e
    BY <2>1, <2>2
  <2>4. QED BY <2>1, <2>2, <2>3
<1>5. ASSUME nxt[e] # NULL
      PROVE  /\ nxt[e] \in S \ {e} /\ nxt[e] \in Nat /\ e < nxt[e]
             /\ \A x \in S : x <= e \/ nxt[e] <= x
  <2>1. nxt[e] \in S /\ e < nxt[e] /\ \A x \in S : x <= e \/ nxt[e] <= x
    BY <1>1, <1>5 DEF NextIn
  <2>2. nxt[e] \in Nat /\ e \in Nat
    BY <2>1
  <2>3. nxt[e] # e
    BY <2>1, <2>2
  <2>4. QED BY <2>1, <2>2, <2>3
<1>6. QED BY <1>2, <1>3, <1>4, <1>5

\* Links are joined after a younger entry was linked behind the last.
LEMMA JoinedByAppend ==
  ASSUME NEW S \in SUBSET Nat, NULL \notin S, NEW nxt, NEW prv, Joined(nxt, prv, S),
         NEW last \in S, \A x \in S : x <= last,
         NEW e \in Nat, e # NULL, \A x \in S : x < e,
         NEW nxt2, nxt2[last] = e, nxt2[e] = NULL, \A x \in S \ {last} : nxt2[x] = nxt[x],
         NEW prv2, prv2[e] = last, \A x \in S : prv2[x] = prv[x]
  PROVE  Joined(nxt2, prv2, S \cup {e})
<1> DEFINE T == S \cup {e}
<1>1. last \in Nat /\ last # NULL /\ \A x \in S : x \in Nat
  OBVIOUS
<1>2. ASSUME NEW x \in S PROVE PrevIn(prv2, T, x)
  BY <1>1 DEF Joined, PrevIn
<1>3. ASSUME NEW x \in S \ {last} PROVE NextIn(nxt2, T, x)
  <2>1. nxt2[x] = nxt[x] /\ NextIn(nxt, S, x) /\ x < last /\ x \in Nat /\ x < e
    BY <1>1 DEF Joined
  <2>2. nxt[x] # NULL
    BY <1>1, <2>1 DEF NextIn
  <2>3. nxt[x] \in S /\ x < nxt[x] /\ \A y \in S : y <= x \/ nxt[x] <= y
    BY <2>1, <2>2 DEF NextIn
  <2>4. nxt[x] \in T /\ nxt[x] <= e
    <3>1. nxt[x] \in Nat /\ nxt[x] < e
      BY <1>1, <2>3
    <3>2. nxt[x] <= e
      BY <3>1
    <3>3. QED BY <2>3, <3>2
  <2>5. \A y \in T : y <= x \/ nxt[x] <= y
    BY <2>3, <2>4
  <2>6. QED BY <2>1, <2>2, <2>3, <2>4, <2>5 DEF NextIn
<1>4. NextIn(nxt2, T, last)
  BY <1>1 DEF NextIn
<1>5. NextIn(nxt2, T, e) /\ PrevIn(prv2, T, e)
  BY <1>1 DEF NextIn, PrevIn
<1>6. QED BY <1>2, <1>3, <1>4, <1>5 DEF Joined

\* Links are joined after the neighbours of an entry were linked to each other.
LEMMA JoinedByRemove ==
  ASSUME NEW S \in SUBSET Nat, NULL \notin S, NEW nxt, NEW prv, Joined(nxt, prv, S),
         NEW e \in S, NEW p, p = prv[e], NEW n, n = nxt[e],
         NEW nxt2, p # NULL => nxt2[p] = n, \A x \in S \ {p} : nxt2[x] = nxt[x],
         NEW prv2, n # NULL => prv2[n] = p, \A x \in S \ {n} : prv2[x] = prv[x]
  PROVE  Joined(nxt2, prv2, S \ {e})
<1> DEFINE T == S \ {e}
<1>1. e \in Nat /\ e # NULL /\ \A x \in S : x \in Nat
  OBVIOUS
<1>2. /\ p = NULL => \A x \in S : e <= x
      /\ p # NULL => p \in T /\ p \in Nat /\ p < e /\ \A x \in S : x <= p \/ e <= x
  BY Neighbours
<1>3. /\ n = NULL => \A x \in S : x <= e
      /\ n # NULL => n \in T /\ n \in Nat /\ e < n /\ \A x \in S : x <= e \/ n <= x
  BY Neighbours
<1>4. ASSUME NEW x \in T PROVE NextIn(nxt2, T, x)
  <2>1. x \in S /\ x # e /\ x \in Nat
    BY <1>1
  <2>2. CASE x = p
    <3>1. nxt2[x] = n /\ p # NULL
      BY <2>1, <2>2
    <3>2. CASE n = NULL
      BY <1>1, <1>2, <1>3, <2>1, <2>2, <3>1, <3>2 DEF NextIn
    <3>3. CASE n # NULL
      <4>1. n \in T /\ n \in Nat
        BY <1>1, <1>2, <1>3, <3>3
      <4>2. \A y \in T : y \in Nat /\ y # e
        BY <1>1
      <4>3. QED BY <1>1, <1>2, <1>3, <2>1, <2>2, <3>1, <3>3, <4>1, <4>2 DEF NextIn
    <3>4. QED BY <3>2, <3>3
  <2>3. CASE x # p
    <3>1. nxt2[x] = nxt[x] /\ NextIn(nxt, S, x)
      BY <2>1, <2>3 DEF Joined
    <3>2. nxt[x] # e
      <4>1. SUFFICES ASSUME nxt[x] = e PROVE FALSE
        OBVIOUS
      <4>2. x < e /\ \A y \in S : y <= x \/ e <= y
        BY <1>1, <3>1, <4>1 DEF NextIn
      <4>3. p # NULL
        BY <1>1, <1>2, <2>1, <4>2
      <4>4. p \in Nat /\ p <= x /\ x <= p
        BY <1>1, <1>2, <2>1, <4>2, <4>3
      <4>5. QED BY <2>1, <2>3, <4>4
    <3>3. QED BY <1>1, <2>1, <3>1, <3>2 DEF NextIn
  <2>4. QED BY <2>2, <2>3
<1>5. ASSUME NEW x \in T PROVE PrevIn(prv2, T, x)
  <2>1. x \in S /\ x # e /\ x \in Nat
    BY <1>1
  <2>2. CASE x = n
    <3>1. prv2[x] = p /\ n # NULL
      BY <2>1, <2>2
    <3>2. CASE p = NULL
      BY <1>1, <1>2, <1>3, <2>1, <2>2, <3>1, <3>2 DEF PrevIn
    <3>3. CASE p # NULL
      <4>1. p \in T /\ p \in Nat
        BY <1>1, <1>2, <1>3, <3>3
      <4>2. \A y \in T : y \in Nat /\ y # e
        BY <1>1
      <4>3. QED BY <1>1, <1>2, <1>3, <2>1, <2>2, <3>1, <3>3, <4>1, <4>2 DEF PrevIn
    <3>4. QED BY <3>2, <3>3
  <2>3. CASE x # n
    <3>1. prv2[x] = prv[x] /\ PrevIn(prv, S, x)
      BY <2>1, <2>3 DEF Joined
    <3>2. prv[x] # e
      <4>1. SUFFICES ASSUME prv[x] = e PROVE FALSE
        OBVIOUS
      <4>2. e < x /\ \A y \in S : y <= e \/ x <= y
        BY <1>1, <3>1, <4>1 DEF PrevIn
      <4>3. n # NULL
        BY <1>1, <1>3, <2>1, <4>2
      <4>4. n \in Nat /\ n <= x /\ x <= n
        BY <1>1, <1>3, <2>1, <4>2, <4>3
      <4>5. QED BY <2>1, <2>3, <4>4
    <3>3. QED BY <1>1, <2>1, <3>1, <3>2 DEF PrevIn
  <2>4. QED BY <2>2, <2>3
<1>6. QED BY <1>4, <1>5 DEF Joined

-----------------------------------------------------------------------------
\* The ends of a list after a younger entry was added.
LEMMA EndsByAppend ==
  ASSUME NEW S \in SUBSET Nat, NULL \notin S, NEW head, NEW last, EndsOf(head, last, S),
         NEW e \in Nat, \A x \in S : x < e
  PROVE  EndsOf(IF head = NULL THEN e ELSE head, e, S \cup {e})
<1>1. \A x \in S : x \in Nat
  OBVIOUS
<1>2. CASE S = {}
  BY <1>1, <1>2 DEF EndsOf
<1>3. CASE S # {}
  <2>1. head \in S /\ head # NULL /\ \A x \in S : head <= x
    BY <1>3 DEF EndsOf
  <2>2. head \in Nat /\ head < e
    BY <1>1, <2>1
  <2>3. head <= e /\ \A x \in S : x <= e
    BY <1>1, <2>2
  <2>4. QED BY <2>1, <2>3 DEF EndsOf
<1>4. QED BY <1>2, <1>3

\* The ends of A, that lies in S without gaps, after its first or its last entry
\* was removed from it; A = S is the list itself, a smaller A a frame in the stack.
LEMMA EndsByRemove ==
  ASSUME NEW S \in SUBSET Nat, NULL \notin S, NEW nxt, NEW prv, Joined(nxt, prv, S),
         NEW A \in SUBSET S, Gapless(A, S), NEW head, NEW last, EndsOf(head, last, A),
         NEW e \in A, A \ {e} # {}
  PROVE  /\ head = e => nxt[e] \in A \ {e} /\ \A x \in A \ {e} : nxt[e] <= x
         /\ last = e => prv[e] \in A \ {e} /\ \A x \in A \ {e} : x <= prv[e]
         /\ head # e => head \in A \ {e} /\ \A x \in A \ {e} : head <= x
         /\ last # e => last \in A \ {e} /\ \A x \in A \ {e} : x <= last
<1>1. PICK a \in A : a # e
  OBVIOUS
<1>2. /\ head \in A /\ \A x \in A : head <= x
      /\ last \in A /\ \A x \in A : x <= last
  BY DEF EndsOf
<1>3. e \in S /\ a \in S /\ e \in Nat /\ a \in Nat /\ \A x \in S : x \in Nat
  OBVIOUS
<1>4. ASSUME head = e
      PROVE  nxt[e] \in A \ {e} /\ \A x \in A \ {e} : nxt[e] <= x
  <2>1. \A x \in A \ {e} : x \in Nat /\ e < x
    BY <1>2, <1>3, <1>4
  <2>2. e < a
    BY <1>1, <2>1
  <2>3. nxt[e] # NULL
    BY <1>3, <2>2, Neighbours
  <2>4. /\ nxt[e] \in S \ {e} /\ nxt[e] \in Nat /\ e < nxt[e]
        /\ \A x \in S : x <= e \/ nxt[e] <= x
    BY <1>3, <2>3, Neighbours
  <2>5. \A x \in A \ {e} : nxt[e] <= x
    BY <1>3, <2>1, <2>4
  <2>6. e <= nxt[e] /\ nxt[e] <= a
    BY <1>1, <1>3, <2>4, <2>5
  <2>7. nxt[e] \in A
    BY <2>4, <2>6 DEF Gapless
  <2>8. QED BY <2>4, <2>5, <2>7
<1>5. ASSUME last = e
      PROVE  prv[e] \in A \ {e} /\ \A x \in A \ {e} : x <= prv[e]
  <2>1. \A x \in A \ {e} : x \in Nat /\ x < e
    BY <1>2, <1>3, <1>5
  <2>2. a < e
    BY <1>1, <2>1
  <2>3. prv[e] # NULL
    BY <1>3, <2>2, Neighbours
  <2>4. /\ prv[e] \in S \ {e} /\ prv[e] \in Nat /\ prv[e] < e
        /\ \A x \in S : x <= prv[e] \/ e <= x
    BY <1>3, <2>3, Neighbours
  <2>5. \A x \in A \ {e} : x <= prv[e]
    BY <1>3, <2>1, <2>4
  <2>6. a <= prv[e] /\ prv[e] <= e
    BY <1>1, <1>3, <2>4, <2>5
  <2>7. prv[e] \in A
    BY <2>4, <2>6 DEF Gapless
  <2>8. QED BY <2>4, <2>5, <2>7
<1>6. QED BY <1>2, <1>4, <1>5

-----------------------------------------------------------------------------
\* akl_list_append of a fresh entry younger than the others: the list is a list of
\* one entry more, nothing else is linked.
LEMMA AppendKeepsList ==
  ASSUME NEW E \in SUBSET Nat, NULL \notin E, NEW h \in LinksOf(E), NEW l \in HeaderOf(E),
         NEW S \in SUBSET E, IsFiniteSet(S), IsList(h, l, S),
         NEW e \in E, \A x \in S : x < e, h.nxt[e] = NULL, h.prv[e] = NULL,
         NEW r, r = AppendEntry(h, l, e)
  PROVE  /\ r.h \in LinksOf(E) /\ r.l \in HeaderOf(E) /\ IsList(r.h, r.l, S \cup {e})
         /\ \A x \in E \ (S \cup {e}) : r.h.nxt[x] = h.nxt[x] /\ r.h.prv[x] = h.prv[x]
<1> DEFINE nxt2 == IF l.head = NULL THEN h.nxt ELSE [h.nxt EXCEPT ![l.last] = e]
           prv2 == IF l.head = NULL THEN h.prv ELSE [h.prv EXCEPT ![e] = l.last]
<1>1. /\ h = [nxt |-> h.nxt, prv |-> h.prv]
      /\ h.nxt \in [E -> E \cup {NULL}] /\ h.prv \in [E -> E \cup {NULL}]
  BY DEF LinksOf
<1>2. l.head \in E \cup {NULL} /\ l.last \in E \cup {NULL} /\ l.count \in Nat
  BY DEF HeaderOf
<1>3. /\ EndsOf(l.head, l.last, S) /\ l.count = Cardinality(S) /\ Joined(h.nxt, h.prv, S)
  BY DEF IsList
<1>4. r.h = [nxt |-> nxt2, prv |-> prv2]
  BY <1>1 DEF AppendEntry
<1>5. r.l = [head |-> IF l.head = NULL THEN e ELSE l.head, last |-> e, count |-> l.count + 1, nil |-> FALSE]
  BY DEF AppendEntry
<1>6. r.h.nxt = nxt2 /\ r.h.prv = prv2
  BY <1>4
<1>7. /\ r.l.head = (IF l.head = NULL THEN e ELSE l.head) /\ r.l.last = e
      /\ r.l.count = l.count + 1
  BY <1>5
<1>8. l.head = NULL => S = {}
  BY <1>3 DEF EndsOf
<1>9. l.head # NULL => S # {} /\ l.last \in S /\ \A x \in S : x <= l.last
  BY <1>3 DEF EndsOf
<1>10. e # NULL /\ e \in Nat /\ e \notin S
  <2>1. e # NULL /\ e \in Nat
    OBVIOUS
  <2>2. e \notin S
    BY <2>1
  <2>3. QED BY <2>1, <2>2
<1>11. nxt2 \in [E -> E \cup {NULL}] /\ prv2 \in [E -> E \cup {NULL}]
  BY <1>1, <1>2, <1>9
<1>12. r.h \in LinksOf(E)
  BY <1>4, <1>11 DEF LinksOf
<1>13. r.l \in HeaderOf(E)
  <2>1. l.count + 1 \in Nat
    BY <1>2
  <2>2. QED BY <1>2, <1>5, <2>1 DEF HeaderOf
<1>14. Joined(nxt2, prv2, S \cup {e})
  <2>1. CASE l.head = NULL
    <3>1. nxt2 = h.nxt /\ prv2 = h.prv /\ S \cup {e} = {e}
      BY <1>8, <2>1
    <3>2. QED BY <1>10, <3>1 DEF Joined, NextIn, PrevIn
  <2>2. CASE l.head # NULL
    <3>1. /\ l.last \in S /\ l.last # e
          /\ \A x \in S : x <= l.last
      BY <1>9, <1>10, <2>2
    <3>2. /\ nxt2[l.last] = e /\ nxt2[e] = NULL
          /\ \A x \in S \ {l.last} : nxt2[x] = h.nxt[x]
      BY <1>1, <2>2, <3>1
    <3>3. prv2[e] = l.last /\ \A x \in S : prv2[x] = h.prv[x]
      BY <1>1, <1>10, <2>2
    <3>4. S \in SUBSET Nat /\ NULL \notin S
      OBVIOUS
    <3> HIDE DEF nxt2, prv2
    <3>5. QED BY <1>3, <1>10, <3>1, <3>2, <3>3, <3>4, JoinedByAppend
  <2>3. QED BY <2>1, <2>2
<1>15. EndsOf(r.l.head, r.l.last, S \cup {e})
  <2>1. S \in SUBSET Nat /\ NULL \notin S
    OBVIOUS
  <2>2. QED BY <1>3, <1>7, <1>10, <2>1, EndsByAppend
<1>16. r.l.count = Cardinality(S \cup {e})
  <2>1. Cardinality(S \cup {e}) = Cardinality(S) + 1
    BY <1>10, FS_AddElement
  <2>2. QED BY <1>3, <1>7, <2>1
<1>17. \A x \in E \ (S \cup {e}) : nxt2[x] = h.nxt[x] /\ prv2[x] = h.prv[x]
  BY <1>1, <1>9
<1>18. QED BY <1>6, <1>12, <1>13, <1>14, <1>15, <1>16, <1>17 DEF IsList

\* akl_list_remove_entry of an entry of the list: the list is a list of one entry
\* less, nothing else is linked.
LEMMA RemoveKeepsList ==
  ASSUME NEW E \in SUBSET Nat, NULL \notin E, NEW h \in LinksOf(E), NEW l \in HeaderOf(E),
         NEW S \in SUBSET E, IsFiniteSet(S), IsList(h, l, S), NEW e \in S,
         NEW r, r = RemoveEntry(h, l, e)
  PROVE  /\ r.h \in LinksOf(E) /\ r.l \in HeaderOf(E) /\ IsList(r.h, r.l, S \ {e})
         /\ \A x \in E \ S : r.h.nxt[x] = h.nxt[x] /\ r.h.prv[x] = h.prv[x]
<1> DEFINE p == h.prv[e]
           n == h.nxt[e]
           nxt2 == IF p = NULL THEN h.nxt ELSE [h.nxt EXCEPT ![p] = n]
           prv2 == IF n = NULL THEN h.prv ELSE [h.prv EXCEPT ![n] = p]
<1>1. /\ h = [nxt |-> h.nxt, prv |-> h.prv]
      /\ h.nxt \in [E -> E \cup {NULL}] /\ h.prv \in [E -> E \cup {NULL}]
  BY DEF LinksOf
<1>2. l.head \in E \cup {NULL} /\ l.last \in E \cup {NULL} /\ l.count \in Nat
  BY DEF HeaderOf
<1>3. /\ EndsOf(l.head, l.last, S) /\ l.count = Cardinality(S) /\ Joined(h.nxt, h.prv, S)
  BY DEF IsList
<1>4. r.h = [nxt |-> nxt2, prv |-> prv2]
  BY <1>1 DEF RemoveEntry
<1>5. r.l = [head  |-> IF l.head = e THEN n ELSE l.head,
             last  |-> IF l.last = e THEN p ELSE l.last, count |-> l.count - 1, nil |-> l.nil]
  BY DEF RemoveEntry
<1>6. r.h.nxt = nxt2 /\ r.h.prv = prv2
  BY <1>4
<1>7. /\ r.l.head = (IF l.head = e THEN n ELSE l.head)
      /\ r.l.last = (IF l.last = e THEN p ELSE l.last)
      /\ r.l.count = l.count - 1
  BY <1>5
<1>8. S \in SUBSET Nat /\ NULL \notin S
  OBVIOUS
<1>9. p \in E \cup {NULL} /\ n \in E \cup {NULL} /\ e \in E
  BY <1>1
<1>10. (p # NULL => p \in S \ {e}) /\ (n # NULL => n \in S \ {e})
  BY <1>3, <1>8, Neighbours
<1>11. nxt2 \in [E -> E \cup {NULL}] /\ prv2 \in [E -> E \cup {NULL}]
  BY <1>1, <1>9
<1>12. r.h \in LinksOf(E)
  BY <1>4, <1>11 DEF LinksOf
<1>13. /\ IsFiniteSet(S \ {e}) /\ Cardinality(S \ {e}) = Cardinality(S) - 1
       /\ Cardinality(S \ {e}) \in Nat
  BY FS_RemoveElement, FS_CardinalityType
<1>14. r.l.count = Cardinality(S \ {e})
  BY <1>3, <1>7, <1>13
<1>15. r.l \in HeaderOf(E)
  <2>1. l.count - 1 \in Nat
    BY <1>3, <1>13
  <2>2. QED BY <1>2, <1>5, <1>9, <2>1 DEF HeaderOf
<1>16. Joined(nxt2, prv2, S \ {e})
  <2>1. /\ p # NULL => nxt2[p] = n
        /\ \A x \in S \ {p} : nxt2[x] = h.nxt[x]
    BY <1>1, <1>9
  <2>2. /\ n # NULL => prv2[n] = p
        /\ \A x \in S \ {n} : prv2[x] = h.prv[x]
    BY <1>1, <1>9
  <2>3. p = h.prv[e] /\ n = h.nxt[e]
    OBVIOUS
  <2> HIDE DEF nxt2, prv2, p, n
  <2>4. QED BY <1>3, <1>8, <2>1, <2>2, <2>3, JoinedByRemove
<1>17. EndsOf(r.l.head, r.l.last, S \ {e})
  <2>1. CASE S \ {e} = {}
    <3>1. l.head = e /\ l.last = e
      BY <1>3, <2>1 DEF EndsOf
    <3>2. p = NULL /\ n = NULL
      BY <1>10, <2>1
    <3>3. QED BY <1>7, <2>1, <3>1, <3>2 DEF EndsOf
  <2>2. CASE S \ {e} # {}
    <3>1. S \in SUBSET S /\ Gapless(S, S)
      BY DEF Gapless
    <3>2. /\ l.head = e => n \in S \ {e} /\ \A x \in S \ {e} : n <= x
          /\ l.last = e => p \in S \ {e} /\ \A x \in S \ {e} : x <= p
          /\ l.head # e => l.head \in S \ {e} /\ \A x \in S \ {e} : l.head <= x
          /\ l.last # e => l.last \in S \ {e} /\ \A x \in S \ {e} : x <= l.last
      BY <1>3, <1>8, <2>2, <3>1, EndsByRemove
    <3>3. QED BY <1>7, <2>2, <3>2 DEF EndsOf
  <2>3. QED BY <2>1, <2>2
<1>18. \A x \in E \ S : nxt2[x] = h.nxt[x] /\ prv2[x] = h.prv[x]
  BY <1>1, <1>10
<1>19. QED BY <1>6, <1>12, <1>14, <1>15, <1>16, <1>17, <1>18 DEF IsList

-----------------------------------------------------------------------------
\* akl_frame_shift unlinks an argument through the header of the frame and then
\* through that of the stack: the links are those of one removal, the link that
\* akl_list_shift_entry cleared is set again.
LEMMA ShiftThenRemove ==
  ASSUME NEW E \in SUBSET Nat, NULL \notin E, NEW h \in LinksOf(E), NEW l, NEW f,
         NEW S \in SUBSET E, Joined(h.nxt, h.prv, S), f.head \in S
  PROVE  RemoveEntry(ShiftEntry(h, f).h, l, f.head) = RemoveEntry(h, l, f.head)
<1> DEFINE e == f.head
           n == h.nxt[e]
           p == h.prv[e]
           g == ShiftEntry(h, f).h
<1>1. /\ h = [nxt |-> h.nxt, prv |-> h.prv]
      /\ h.nxt \in [E -> E \cup {NULL}] /\ h.prv \in [E -> E \cup {NULL}]
  BY DEF LinksOf
<1>2. S \in SUBSET Nat /\ NULL \notin S
  OBVIOUS
<1>3. (n # NULL => n \in S \ {e}) /\ (p # NULL => p \in S \ {e})
  <2>1. e \in S
    OBVIOUS
  <2> HIDE DEF e
  <2>2. QED BY <1>2, <2>1, Neighbours
<1>4. CASE n = NULL
  BY <1>4 DEF ShiftEntry
<1>5. CASE n # NULL
  <2>1. g = [h EXCEPT !.prv[n] = NULL]
    BY <1>5 DEF ShiftEntry
  <2>2. g.nxt = h.nxt /\ g.prv = [h.prv EXCEPT ![n] = NULL]
    BY <1>1, <2>1
  <2>3. g.nxt[e] = n /\ g.prv[e] = p
    BY <1>1, <1>3, <1>5, <2>2
  <2>4. [g.prv EXCEPT ![n] = p] = [h.prv EXCEPT ![n] = p]
    BY <1>1, <2>2
  <2> HIDE DEF g, n, p, e
  <2>5. RemoveEntry(g, l, e) = RemoveEntry(h, l, e)
    BY <1>5, <2>2, <2>3, <2>4 DEF RemoveEntry, n, p
  <2>6. QED BY <2>5 DEF g, e
<1>6. QED BY <1>4, <1>5

\* akl_frame_pop removes an argument through both headers: the second removal finds
\* the links as the first one left them and does no more harm.
LEMMA RemoveTwice ==
  ASSUME NEW E \in SUBSET Nat, NULL \notin E, NEW h \in LinksOf(E), NEW l, NEW f,
         NEW S \in SUBSET E, Joined(h.nxt, h.prv, S), NEW e \in S
  PROVE  RemoveEntry(RemoveEntry(h, f, e).h, l, e) = RemoveEntry(h, l, e)
<1> DEFINE n == h.nxt[e]
           p == h.prv[e]
           g == RemoveEntry(h, f, e).h
<1>1. /\ h = [nxt |-> h.nxt, prv |-> h.prv]
      /\ h.nxt \in [E -> E \cup {NULL}] /\ h.prv \in [E -> E \cup {NULL}]
  BY DEF LinksOf
<1>2. S \in SUBSET Nat /\ NULL \notin S
  OBVIOUS
<1>3. (n # NULL => n \in S \ {e}) /\ (p # NULL => p \in S \ {e})
  BY <1>2, Neighbours
<1>4. g = [nxt |-> IF p = NULL THEN h.nxt ELSE [h.nxt EXCEPT ![p] = n],
           prv |-> IF n = NULL THEN h.prv ELSE [h.prv EXCEPT ![n] = p]]
  BY DEF RemoveEntry
<1>5. /\ g.nxt = (IF p = NULL THEN h.nxt ELSE [h.nxt EXCEPT ![p] = n])
      /\ g.prv = (IF n = NULL THEN h.prv ELSE [h.prv EXCEPT ![n] = p])
  BY <1>4
<1>6. g.nxt[e] = n /\ g.prv[e] = p
  BY <1>1, <1>3, <1>5
<1>7. p # NULL => [g.nxt EXCEPT ![p] = n] = [h.nxt EXCEPT ![p] = n]
  BY <1>1, <1>5
<1>8. n # NULL => [g.prv EXCEPT ![n] = p] = [h.prv EXCEPT ![n] = p]
  BY <1>1, <1>5
<1> HIDE DEF g, n, p
<1>9. RemoveEntry(g, l, e) = RemoveEntry(h, l, e)
  BY <1>5, <1>6, <1>7, <1>8 DEF RemoveEntry, n, p
<1>10. QED BY <1>9 DEF g
=============================================================================
