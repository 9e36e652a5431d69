-------------------------------- MODULE Mutex -------------------------------
(***************************************************************************)
(* What afutex promises the processes of newbench, and all that            *)
(* Newbench.tla uses of it: the critical section is entered by one process *)
(* at a time, in one step, and only its owner leaves it.                   *)
(***************************************************************************)
CONSTANT Procs

VARIABLE owner          \* the processes inside, never more than one

Init == owner = {}

Acquire(p) == owner = {} /\ owner' = {p}

Release(p) == owner = {p} /\ owner' = {}

Next == \E p \in Procs : Acquire(p) \/ Release(p)

Spec == Init /\ [][Next]_owner
=============================================================================
