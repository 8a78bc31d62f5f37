---------------------------- MODULE MCAklLists ----------------------------
(***************************************************************************)
(* AklLists for TLC: the variables of the program are alike.               *)
(***************************************************************************)
EXTENDS AklLists, TLC

Alike == Permutations(Vars)
=============================================================================
