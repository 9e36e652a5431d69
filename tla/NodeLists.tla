----------------------------- MODULE NodeLists ------------------------------
(***************************************************************************)
(* Deletion from the intrusive linked lists of newbench (list_del on       *)
(* empty_used_list), with a list as the sequence of its nodes.  SelectSeq  *)
(* would do for TLC; this definition has no recursion, so that theorems    *)
(* about it can be proved.                                                 *)
(***************************************************************************)
EXTENDS Integers, FiniteSets, Sequences

\* the positions that stay when the nodes of S are deleted from s
Kept(s, S) == {i \in DOMAIN s : s[i] \notin S}

\* the place of position i among the positions I
Rank(I, i) == Cardinality({k \in I : k <= i})

\* what is left of s, in its order
Without(s, S) ==
  LET I == Kept(s, S)
  IN [j \in 1..Cardinality(I) |-> s[CHOOSE i \in I : Rank(I, i) = j]]
=============================================================================
