----------------------------- MODULE MCNewbench -----------------------------
(***************************************************************************)
(* Small instances of Newbench.  Nodes and pids are interchangeable; keys  *)
(* are not used as a symmetry set (Init picks one for free nodes).         *)
(***************************************************************************)
EXTENDS Newbench, TLC

\* sound for invariants only
Symmetric == Permutations(Nodes) \union Permutations(Pids)
=============================================================================
