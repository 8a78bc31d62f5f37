----------------------------- MODULE AklCompare -----------------------------
(***************************************************************************)
(* How akl_compare_values (src/src/aklisp.c) compares two lists: a loop    *)
(* without an end, in which elements are compared by the function itself.  *)
(***************************************************************************)
EXTENDS AklLib

RECURSIVE Compare(_, _, _), ListsCompared(_, _)

\* e is what is left of the first list, v the value last taken from it; two says
\* that the second list has a second element.  Both values come from the first
\* list: the iterator of the second one stays where it is.
Compare(e, two, v) ==
  LET more == Len(e) > 1
      v1   == IF more THEN Head(e) ELSE v
      e1   == IF more THEN Tail(e) ELSE e
      r    == CompareBy(v1, IF two THEN FirstOf(e1) ELSE Null, ListsCompared)
  IN  IF r # Order(0) THEN r
      ELSE Compare(IF two /\ e1 # <<>> THEN Tail(e1) ELSE e1, two, v1)

ListsCompared(x, y) == Compare(x[2], Len(y[2]) > 1, Null)
=============================================================================
