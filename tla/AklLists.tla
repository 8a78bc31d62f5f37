------------------------------ MODULE AklLists ------------------------------
(***************************************************************************)
(* Lists in the hands of a Lisp program (src/src/list.c and tail, append!, *)
(* insert!, index, foldl of src/src/lib.c).                                *)
(*                                                                         *)
(* tail copies no element: it gives a second header into the entries of    *)
(* the list.  append! and insert! change a list in place, also one whose   *)
(* entries other headers lead into, also one that is being iterated.       *)
(*                                                                         *)
(* A program variable holds one list; NIL and a list without elements      *)
(* behave alike here and are both EmptyList, but not the empty list that   *)
(* akl_cdr makes and marks.  An entry stands for its value, which no       *)
(* function changes.                                                       *)
(*                                                                         *)
(* abs and spoiled are history: what each list was made of, operation by   *)
(* operation, and the lists for which that no longer says anything since   *)
(* somebody else's append! or insert! changed links between their entries. *)
(***************************************************************************)
EXTENDS AklList, Sequences, SequencesExt

CONSTANTS
  Vars,          \* the variables of the program
  MaxEntries,    \* bound: entries ever made
  LoopEntries    \* bound: entries made until a loop begins or while it runs

ASSUME ListsAssumption == MaxEntries \in Nat /\ LoopEntries \in 0 .. MaxEntries

VARIABLES
  made,          \* list entries made so far: 1 .. made
  heap,          \* their links
  lists,         \* the list of every variable, as its header
  abs,           \* history: the entries of every list, in order
  spoiled,       \* history: the variables whose list was changed by others
  it,            \* the loop of foldl: its iterator, what it has met, and as
                 \* history what the list was and whether it was cut
  crashed        \* the process ended in akl_cdr or akl_list_index_entry

vars == <<made, heap, lists, abs, spoiled, it, crashed>>

Entries == 1 .. MaxEntries
NoLoop  == [on |-> FALSE, entry |-> NULL, seen |-> <<>>, first |-> <<>>,
            cut |-> FALSE]

WalkOf(l) == Walk(heap.nxt, l.head, made + 1)

\* The links of entry e, part of x, have been changed: whoever else has it is
\* spoiled, and nothing is expected of a spoiled list any more.
Touch(x, e, new) ==
  LET S == spoiled \cup {z \in Vars \ {x} : e \in ToSet(abs[z])}
  IN  /\ spoiled' = S
      /\ abs' = [z \in Vars |-> IF z \in S THEN <<>>
                                ELSE IF z = x THEN new ELSE abs[z]]

\* an append behind e loses what was there
Cuts(e) == e # NULL /\ heap.nxt[e] # NULL

\* (faulty variant: the pool gives the same entry once more)
SameEntry ==
  /\ ~crashed
  /\ made < (IF it.on THEN LoopEntries ELSE MaxEntries)
  /\ made' = made

\* akl_new_list_entry
NewEntry ==
  /\ ~crashed
  /\ made < (IF it.on THEN LoopEntries ELSE MaxEntries)
  /\ made' = made + 1

-----------------------------------------------------------------------------
\* (set! x (append! v x))
AppendTo(x) ==
  /\ NewEntry
  /\ LET r == AppendEntry(heap, lists[x], made + 1)
         e == IF lists[x].head = NULL THEN NULL ELSE lists[x].last
     IN  /\ heap' = r.h
         /\ lists' = [lists EXCEPT ![x] = r.l]
         /\ Touch(x, e, Append(abs[x], made + 1))
         /\ it' = [it EXCEPT !.cut = @ \/ (it.on /\ Cuts(e))]
  /\ UNCHANGED crashed

\* (set! x (insert! v x))
InsertInto(x) ==
  /\ NewEntry
  /\ LET r == InsertEntry(heap, lists[x], made + 1)
     IN  /\ heap' = r.h
         /\ lists' = [lists EXCEPT ![x] = r.l]
         /\ Touch(x, lists[x].head, <<made + 1>> \o abs[x])
  /\ UNCHANGED <<it, crashed>>

\* (set! z (tail x))
TailOf(z, x) ==
  /\ ~crashed
  /\ IF CdrCrashes(lists[x])
     THEN crashed' = TRUE /\ UNCHANGED <<lists, abs, spoiled>>
     ELSE /\ lists' = [lists EXCEPT ![z] = Cdr(heap, lists[x])]
          /\ abs' = [abs EXCEPT ![z] = IF abs[x] = <<>> THEN <<>> ELSE Tail(abs[x])]
          /\ spoiled' = IF x \in spoiled THEN spoiled \cup {z} ELSE spoiled \ {z}
          /\ UNCHANGED crashed
  /\ UNCHANGED <<made, heap, it>>

\* (index i x), for any i, of a list that is marked: the assertion fails.
\* (Of any other list index changes nothing, and IntactIsRight says what it gives.)
IndexOf(x) ==
  /\ ~crashed /\ IndexAborts(lists[x])
  /\ crashed' = TRUE
  /\ UNCHANGED <<made, heap, lists, abs, spoiled, it>>

\* foldl starts: akl_list_it_begin
Begin(x) ==
  /\ ~crashed /\ ~it.on /\ made <= LoopEntries
  /\ it' = [NoLoop EXCEPT !.on = TRUE, !.entry = lists[x].head,
                          !.first = WalkOf(lists[x])]
  /\ UNCHANGED <<made, heap, lists, abs, spoiled, crashed>>

\* (faulty variant: akl_list_it_has_next asked in the place of the entry)
AheadOfMore(e) ==
  IF heap.nxt[e] # NULL /\ heap.nxt[heap.nxt[e]] # NULL THEN heap.nxt[e] ELSE NULL

\* akl_list_it_next leaves the iterator on the next entry before the function
\* is called, so whatever the function does finds it there
Ahead(e) == heap.nxt[e]

Visit ==
  /\ ~crashed /\ it.on /\ it.entry # NULL
  /\ it' = [it EXCEPT !.seen = Append(@, it.entry), !.entry = Ahead(it.entry)]
  /\ UNCHANGED <<made, heap, lists, abs, spoiled, crashed>>

Done ==
  /\ ~crashed /\ it.on /\ it.entry = NULL
  /\ it' = NoLoop
  /\ UNCHANGED <<made, heap, lists, abs, spoiled, crashed>>

-----------------------------------------------------------------------------
Init ==
  /\ made = 0
  /\ heap = [nxt |-> [e \in Entries |-> NULL], prv |-> [e \in Entries |-> NULL]]
  /\ lists = [x \in Vars |-> EmptyList]
  /\ abs = [x \in Vars |-> <<>>]
  /\ spoiled = {}
  /\ it = NoLoop
  /\ crashed = FALSE

Next ==
  \/ \E x \in Vars : \/ AppendTo(x)
                     \/ InsertInto(x)
                     \/ \E z \in Vars : TailOf(z, x)
                     \/ IndexOf(x)
                     \/ Begin(x)
  \/ Visit \/ Done

Spec == Init /\ [][Next]_vars

-----------------------------------------------------------------------------
(***************************************************************************)
(* Properties.                                                             *)
(***************************************************************************)
\* Type invariant of the links, the headers and the iterator: every link of an
\* entry leads to an entry that was made, whatever lists share it.
TypeOK ==
  /\ made \in 0 .. MaxEntries
  /\ heap \in [nxt : [Entries -> 0 .. made], prv : [Entries -> 0 .. made]]
  /\ lists \in [Vars -> [head : 0 .. made, last : 0 .. made, count : Nat,
                      nil : BOOLEAN]]
  /\ it.entry \in 0 .. made
  /\ spoiled \subseteq Vars
  /\ crashed \in BOOLEAN

\* A list is what the program made of it for as long as nobody else appends
\* to or inserts before an entry it has: the walk of akl_print_list, the count
\* that length gives, the last element and index, from both ends, agree,
\* however many tails lead into the same entries.  A list with elements is
\* never marked NIL, so index ends the process for an empty one at most.
IntactIsRight ==
  \A x \in Vars \ spoiled :
    LET l == lists[x]
        n == Len(abs[x])
    IN  /\ WalkOf(l) = abs[x]
        /\ l.count = n
        /\ n > 0 => ~IndexAborts(l)
        /\ \A i \in 1 .. n : /\ IndexEntry(heap, l, i - 1) = abs[x][i]
                             /\ IndexEntry(heap, l, -i) = abs[x][n + 1 - i]
        /\ ~IndexAborts(l) => IndexEntry(heap, l, n) = NULL

\* No sequence of operations through any headers, stale ones included, closes
\* a circle: every walk of a list ends, in both directions.
WalksEnd ==
  \A e \in 1 .. made : /\ Len(Walk(heap.nxt, e, made + 1)) <= made
                       /\ Len(Walk(heap.prv, e, made + 1)) <= made

\* foldl, map and map-index call the function with every element the list had
\* when they began, once and in order, even if the function appends to the
\* list, inserts at its head or keeps tails of it.  Only an append through a
\* header that is not up to date can cut elements off.
IterationMeetsAll ==
  it.on /\ ~it.cut =>
    IsPrefix(it.first, it.seen \o Walk(heap.nxt, it.entry, made + 1))

\* tail crashes only on a list that lost elements it still counts, and only a
\* list that shares its entries can: never on one nobody else changed.
OnlySpoiledCrash ==
  \A x \in Vars : CdrCrashes(lists[x]) => x \in spoiled
=============================================================================
