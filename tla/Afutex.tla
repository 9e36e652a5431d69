------------------------------- MODULE Afutex -------------------------------
(***************************************************************************)
(* The inter-process mutex of newbench (afutex.h): one int in shared       *)
(* memory, changed with the GCC __sync builtins, and the futex system call *)
(* for the contended case.  Two of these ints exist: g_rcv_rq_lock and     *)
(* g_snd_rq_lock; workers, the net process and the main process use them.  *)
(*                                                                         *)
(* Every builtin and every system call is one step, so every interleaving  *)
(* of the processes between two of them is considered.                     *)
(***************************************************************************)
EXTENDS Naturals

CONSTANT Procs          \* the processes that share the mutex

VARIABLES
  mutex,                \* *p_mutex: 0 unlocked, 1 no waiters, 2 has waiters
  pc                    \* where each process stands in lock() / unlock()

mutexVars == <<mutex, pc>>

UNLOCKED    == 0
NO_WAITERS  == 1
HAS_WAITERS == 2

(***************************************************************************)
(* "idle"    outside; "xchg" about to __sync_lock_test_and_set(p_mutex, 2) *)
(* "wait"    about to call FUTEX_WAIT; "asleep" blocked in the kernel      *)
(* "cs"      owns the mutex                                                *)
(* "release" about to __sync_lock_release; "wake" about to FUTEX_WAKE      *)
(***************************************************************************)
Locations == {"idle", "xchg", "wait", "asleep", "cs", "release", "wake"}

Sleepers == {p \in Procs : pc[p] = "asleep"}

\* afutex_mutex_init, before any process is forked
MutexInit ==
  /\ mutex = UNLOCKED
  /\ pc = [p \in Procs |-> "idle"]

GoesTo(p, l) == pc' = [pc EXCEPT ![p] = l]

\* afutex_trylock: one compare-and-swap, no waiting
TryLock(p) ==
  /\ pc[p] = "idle"
  /\ mutex = UNLOCKED
  /\ mutex' = NO_WAITERS
  /\ GoesTo(p, "cs")

\* afutex_lock, the opening compare-and-swap: what it finds decides the path
LockCas(p) ==
  /\ pc[p] = "idle"
  /\ mutex' = IF mutex = UNLOCKED THEN NO_WAITERS ELSE mutex
  /\ GoesTo(p, IF mutex = UNLOCKED THEN "cs"
               ELSE IF mutex = NO_WAITERS THEN "xchg" ELSE "wait")

\* variant: lock() takes the lock for granted once FUTEX_WAIT has returned
LockXchgBlind(p) ==
  /\ pc[p] = "xchg"
  /\ mutex' = HAS_WAITERS
  /\ GoesTo(p, "cs")

\* __sync_lock_test_and_set(p_mutex, 2): the lock is ours iff it was free
LockXchg(p) ==
  /\ pc[p] = "xchg"
  /\ mutex' = HAS_WAITERS
  /\ GoesTo(p, IF mutex = UNLOCKED THEN "cs" ELSE "wait")

\* FUTEX_WAIT on the value 2: the kernel compares and queues in one step
FutexWait(p) ==
  /\ pc[p] = "wait"
  /\ GoesTo(p, IF mutex = HAS_WAITERS THEN "asleep" ELSE "xchg")
  /\ UNCHANGED mutex

\* FUTEX_WAIT returns although nobody called FUTEX_WAKE (a signal, EINTR)
Interrupted(p) ==
  /\ pc[p] = "asleep"
  /\ GoesTo(p, "xchg")
  /\ UNCHANGED mutex

\* afutex_unlock, __sync_fetch_and_sub: the fast path ends here
UnlockSub(p) ==
  /\ pc[p] = "cs"
  /\ mutex' = mutex - 1
  /\ GoesTo(p, IF mutex = NO_WAITERS THEN "idle" ELSE "release")

\* variant: unlock() forgets FUTEX_WAKE
UnlockReleaseNoWake(p) ==
  /\ pc[p] = "release"
  /\ mutex' = UNLOCKED
  /\ GoesTo(p, "idle")

\* __sync_lock_release stores 0
UnlockRelease(p) ==
  /\ pc[p] = "release"
  /\ mutex' = UNLOCKED
  /\ GoesTo(p, "wake")

\* FUTEX_WAKE with n2wake = 1: one sleeper if there is one
UnlockWake(p) ==
  /\ pc[p] = "wake"
  /\ IF Sleepers = {}
       THEN GoesTo(p, "idle")
       ELSE \E q \in Sleepers : pc' = [pc EXCEPT ![p] = "idle", ![q] = "xchg"]
  /\ UNCHANGED mutex

\* the steps a process takes on its own account once it wants or has the lock
Step(p) ==
  \/ LockXchg(p)
  \/ FutexWait(p)
  \/ UnlockSub(p)
  \/ UnlockRelease(p)
  \/ UnlockWake(p)

MutexNext ==
  \E p \in Procs : TryLock(p) \/ LockCas(p) \/ Interrupted(p) \/ Step(p)

(***************************************************************************)
(* Weak fairness of each process's own steps: the kernel schedules every   *)
(* process, the critical sections (a push, a pop, a clean) are finite.     *)
(* Nobody is obliged to ask for the lock, or to be interrupted.            *)
(***************************************************************************)
MutexSpec ==
  /\ MutexInit /\ [][MutexNext]_mutexVars
  /\ \A p \in Procs : WF_mutexVars(Step(p))

-----------------------------------------------------------------------------
MutexTypeOK ==
  /\ mutex \in {UNLOCKED, NO_WAITERS, HAS_WAITERS}
  /\ pc \in [Procs -> Locations]

\* a process holds the mutex until its unlock has stored 0
Holds(p) == pc[p] \in {"cs", "release"}

\* Mutual exclusion: two processes are never both between a successful lock
\* and the store of 0 by unlock, whatever the interleaving of the builtins.
MutualExclusion == \A p, q \in Procs : Holds(p) /\ Holds(q) => p = q

Abstract == INSTANCE Mutex WITH owner <- {p \in Procs : Holds(p)}

\* lock and unlock implement the atomic mutex: although each is several
\* builtins and system calls, ownership passes in single steps, only from
\* nobody to one process and from that process to nobody.
ImplementsMutex == Abstract!Spec

\* No lost wakeup: while a process sleeps in FUTEX_WAIT, the mutex still says
\* "has waiters", so that its holder will wake someone, or an unlock or a
\* woken process is on its way to the mutex.
NoSleeperLost ==
  Sleepers # {} =>
    \/ mutex = HAS_WAITERS
    \/ \E p \in Procs : pc[p] \in {"release", "wake", "xchg"}

\* Somebody gets in: when a process is inside afutex_lock, some process
\* eventually owns the mutex (which one is the kernel's choice).
Trying(p) == pc[p] \in {"xchg", "wait", "asleep"}
SomeoneEnters == (\E p \in Procs : Trying(p)) ~> (\E p \in Procs : pc[p] = "cs")
=============================================================================
