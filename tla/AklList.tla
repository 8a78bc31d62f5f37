------------------------------ MODULE AklList ------------------------------
(***************************************************************************)
(* The doubly linked lists of AkLisp (src/src/list.c), as the interpreter  *)
(* uses them for its evaluation stack and its call frames.                 *)
(*                                                                         *)
(* A heap h holds the links of every entry: h.nxt (le_next) and h.prv      *)
(* (le_prev).  A list l is only its header: head, last, count and the mark *)
(* is_nil.  Several headers may lead into the same entries.  The data of   *)
(* an entry never changes after it was made, so an entry stands for its    *)
(* data.                                                                   *)
(***************************************************************************)
EXTENDS Integers

NULL == 0               \* entries are the positive numbers

EmptyList == [head |-> NULL, last |-> NULL, count |-> 0, nil |-> FALSE]

\* (faulty variant: le_prev is forgotten)
AppendForward(h, l, e) ==
  [h |-> IF l.head = NULL THEN h
         ELSE [h EXCEPT !.nxt[l.last] = e],
   l |-> [head  |-> IF l.head = NULL THEN e ELSE l.head,
          last  |-> e,
          count |-> l.count + 1,
          nil   |-> FALSE]]

\* akl_list_append of an entry just made (its links are NULL)
AppendEntry(h, l, e) ==
  [h |-> IF l.head = NULL THEN h
         ELSE [nxt |-> [h.nxt EXCEPT ![l.last] = e],
               prv |-> [h.prv EXCEPT ![e] = l.last]],
   l |-> [head  |-> IF l.head = NULL THEN e ELSE l.head,
          last  |-> e,
          count |-> l.count + 1,
          nil   |-> FALSE]]

\* (faulty variant: li_last is not looked after)
RemoveKeepLast(h, l, e) ==
  LET p == h.prv[e]
      n == h.nxt[e]
  IN  [h |-> [nxt |-> IF p = NULL THEN h.nxt ELSE [h.nxt EXCEPT ![p] = n],
              prv |-> IF n = NULL THEN h.prv ELSE [h.prv EXCEPT ![n] = p]],
       l |-> [head  |-> IF l.head = e THEN n ELSE l.head,
              last  |-> l.last,
              count |-> l.count - 1,
              nil   |-> l.nil]]

\* akl_list_remove_entry: the entry keeps its own links
RemoveEntry(h, l, e) ==
  LET p == h.prv[e]
      n == h.nxt[e]
  IN  [h |-> [nxt |-> IF p = NULL THEN h.nxt ELSE [h.nxt EXCEPT ![p] = n],
              prv |-> IF n = NULL THEN h.prv ELSE [h.prv EXCEPT ![n] = p]],
       l |-> [head  |-> IF l.head = e THEN n ELSE l.head,
              last  |-> IF l.last = e THEN p ELSE l.last,
              count |-> l.count - 1,
              nil   |-> l.nil]]

\* akl_list_shift_entry of a list that has a head: the new head forgets what
\* came before it, even when another list goes on there
ShiftEntry(h, l) ==
  LET n == h.nxt[l.head]
  IN  [h |-> IF n = NULL THEN h ELSE [h EXCEPT !.prv[n] = NULL],
       l |-> [head  |-> n,
              last  |-> IF l.head = l.last THEN n ELSE l.last,
              count |-> l.count - 1,
              nil   |-> l.nil]]

\* (faulty variant: li_head is set before the entry is linked to it)
InsertTooEarly(h, l, e) ==
  [h |-> IF l.head = NULL THEN h
         ELSE [nxt |-> [h.nxt EXCEPT ![e] = e],
               prv |-> [h.prv EXCEPT ![e] = e]],
   l |-> [head  |-> e,
          last  |-> IF l.head = NULL THEN e ELSE l.last,
          count |-> l.count + 1,
          nil   |-> FALSE]]

\* akl_list_insert_head of an entry just made
InsertEntry(h, l, e) ==
  [h |-> IF l.head = NULL THEN h
         ELSE [nxt |-> [h.nxt EXCEPT ![e] = l.head],
               prv |-> [h.prv EXCEPT ![l.head] = e]],
   l |-> [head  |-> e,
          last  |-> IF l.head = NULL THEN e ELSE l.last,
          count |-> l.count + 1,
          nil   |-> FALSE]]

\* akl_cdr would follow a head that is not there
CdrCrashes(l) == ~l.nil /\ l.count > 1 /\ l.head = NULL

\* what is behind the only element: a list of its own, marked NIL
NilList == [head |-> NULL, last |-> NULL, count |-> 0, nil |-> TRUE]

\* (faulty variant: the count is taken over)
CdrSameCount(h, l) ==
  IF l.nil \/ l.count = 0 THEN EmptyList
  ELSE IF l.count = 1 THEN NilList
  ELSE [head |-> h.nxt[l.head], last |-> l.last, count |-> l.count, nil |-> FALSE]

\* akl_cdr of a list that has elements: a second header into the same entries
\* (no list at all, NULL, is an EmptyList here)
Cdr(h, l) ==
  IF l.nil \/ l.count = 0 THEN EmptyList
  ELSE IF l.count = 1 THEN NilList
  ELSE [head |-> h.nxt[l.head], last |-> l.last, count |-> l.count - 1, nil |-> FALSE]

\* the entry n links away from e
Steps(link, e, n) ==
  LET at[k \in 0 .. n] ==
        IF k = 0 THEN e
        ELSE IF at[k - 1] = NULL THEN NULL ELSE link[at[k - 1]]
  IN  at[n]

\* the assertion at the start of akl_list_index_entry
IndexAborts(l) == l.nil

\* akl_list_index_entry of a list that is not marked NIL: -1 is the last entry
IndexEntry(h, l, i) ==
  IF l.head = NULL THEN NULL
  ELSE IF i >= 0 THEN Steps(h.nxt, l.head, i) ELSE Steps(h.prv, l.last, -i - 1)

\* what AKL_LIST_FOREACH meets from e on, cut off after n entries
Walk(link, e, n) ==
  LET len == CHOOSE k \in 0 .. n :
               /\ k = n \/ Steps(link, e, k) = NULL
               /\ \A j \in 0 .. (k - 1) : Steps(link, e, j) # NULL
  IN  [k \in 1 .. len |-> Steps(link, e, k - 1)]
=============================================================================
