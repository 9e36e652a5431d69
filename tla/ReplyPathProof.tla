---------------------------- MODULE ReplyPathProof ----------------------------
(***************************************************************************)
(* The two ways processes wait for one another on the path of a reply: the *)
(* wake-up of the net process, for any number of workers and crashes, and  *)
(* the mutex that lets one worker at a time into the queue, for any set of *)
(* processes.                                                              *)
(***************************************************************************)
EXTENDS ReplyPath, Afutex, TLAPS

-----------------------------------------------------------------------------
(* The notifier *)

\* the net process has the notifier's event and has not released the flag
Spent == notified /\ npc \in {"wakeup", "release"}
Writing == \E w \in Workers : wpc[w] = "write"

(***************************************************************************)
(* A flag that is set belongs to exactly one: the worker that is about to  *)
(* write, the byte epoll has yet to report, the event the net process has  *)
(* yet to answer, or a worker that died on the way.                        *)
(***************************************************************************)
FlagOwned ==
  /\ flag = 1 => edge \/ Spent \/ Writing \/ orphan
  /\ flag = 0 => ~edge /\ ~Spent /\ ~Writing
  /\ ~(edge /\ Spent) /\ ~(edge /\ Writing) /\ ~(Spent /\ Writing)
  /\ \A v, w \in Workers : wpc[v] = "write" /\ wpc[w] = "write" => v = w

\* each byte in the pipe is one to be reported or one to be read
BytesOwned ==
  /\ pipe = (IF edge THEN 1 ELSE 0) + (IF notified THEN 1 ELSE 0)
  /\ notified => npc \in {"wakeup", "release", "read"}
  /\ npc \in {"release", "read"} => notified

HasBlock == \A w \in Workers : wpc[w] \in {"lock", "push"} => mine[w] # NULL

Inv == TypeOK /\ HasBlock /\ FlagOwned /\ BytesOwned /\ NoLostWakeup

USE DEF notifierVars, workVars, netVars

-----------------------------------------------------------------------------
\* Init establishes the invariant.
LEMMA InitInv == Init => Inv
<1> SUFFICES ASSUME Init PROVE Inv
  OBVIOUS
<1> USE ReplyAssumption DEF Init, NotifierInit
<1>1. TypeOK
  <2>1. sndq \in Seq(Blocks) /\ served \subseteq Blocks
    OBVIOUS
  <2>2. made \in 0 .. MaxBlock /\ crashes \in 0 .. MaxCrash /\ pipe \in Nat
    OBVIOUS
  <2>3. mine \in [Workers -> Blocks \union {NULL}]
    OBVIOUS
  <2>4. wpc \in [Workers -> {"idle", "lock", "push", "unlock", "popup",
                             "write", "dead"}]
    OBVIOUS
  <2> QED
    BY <2>1, <2>2, <2>3, <2>4 DEF TypeOK
<1>2. HasBlock /\ NoLostWakeup
  BY DEF HasBlock, NoLostWakeup
<1>3. FlagOwned
  BY DEF FlagOwned, Spent, Writing
<1>4. BytesOwned
  BY DEF BytesOwned
<1> QED
  BY <1>1, <1>2, <1>3, <1>4 DEF Inv

\* Every step keeps the types; a push needs the block the worker has made.
LEMMA TypeStep == ASSUME TypeOK, HasBlock, [Next]_vars PROVE TypeOK'
<1> USE ReplyAssumption DEF TypeOK
<1>1. CASE UNCHANGED vars
  BY <1>1 DEF vars
<1>2. CASE WaitNotified
  BY <1>2 DEF WaitNotified, Reported
<1>3. CASE WaitTimeout
  BY <1>3 DEF WaitTimeout
<1>4. CASE Pop
  <2>1. Head(sndq) \in Blocks /\ Tail(sndq) \in Seq(Blocks)
    BY <1>4 DEF Pop
  <2> QED
    BY <1>4, <2>1 DEF Pop
<1>5. CASE WakeupDone
  BY <1>5 DEF WakeupDone
<1>6. CASE Release
  BY <1>6 DEF Release, GotRelease
<1>7. CASE Read
  <2>1. pipe' \in Nat
    BY <1>7 DEF Read, GotRead
  <2> QED
    BY <1>7, <2>1, Zenon DEF Read, GotRead
<1>8. CASE DrainDone
  BY <1>8 DEF DrainDone
<1>9. ASSUME NEW w \in Workers, Process(w) PROVE TypeOK'
  <2>1. PICK t \in Types :
          mine' = [mine EXCEPT ![w] = [seq |-> made + 1, type |-> t]]
    BY <1>9 DEF Process
  <2>2. [seq |-> made + 1, type |-> t] \in Blocks
    BY <1>9 DEF Process, Blocks
  <2> QED
    BY <1>9, <2>1, <2>2 DEF Process, Goto
<1>10. ASSUME NEW w \in Workers, Push(w) PROVE TypeOK'
  <2>1. mine[w] \in Blocks
    BY <1>10 DEF Push, HasBlock
  <2> QED
    BY <1>10, <2>1 DEF Push, Goto
<1>11. ASSUME NEW w \in Workers, Lock(w) PROVE TypeOK'
  BY <1>11 DEF Lock, Goto
<1>12. ASSUME NEW w \in Workers, PushFails(w) PROVE TypeOK'
  BY <1>12 DEF PushFails, Goto
<1>13. ASSUME NEW w \in Workers, Unlock(w) PROVE TypeOK'
  BY <1>13 DEF Unlock, Goto
<1>14. ASSUME NEW w \in Workers, Popup(w) PROVE TypeOK'
  BY <1>14 DEF Popup, Goto, PopupSkip, PopupSet
<1>15. ASSUME NEW w \in Workers, Write(w) PROVE TypeOK'
  BY <1>15 DEF Write, Goto, PopupWrite
<1>16. ASSUME NEW w \in Workers, Crash(w) PROVE TypeOK'
  BY <1>16 DEF Crash, Goto
<1>17. ASSUME NEW w \in Workers, Fork(w) PROVE TypeOK'
  BY <1>17 DEF Fork, Goto
<1> QED
  BY <1>1, <1>2, <1>3, <1>4, <1>5, <1>6, <1>7, <1>8, <1>9, <1>10, <1>11,
     <1>12, <1>13, <1>14, <1>15, <1>16, <1>17 DEF Next, NetStep, WorkerStep

\* A worker on its way to the queue has a block to push.
LEMMA BlockStep == ASSUME TypeOK, HasBlock, [Next]_vars PROVE HasBlock'
<1> USE ReplyAssumption DEF TypeOK, HasBlock
<1>1. CASE UNCHANGED vars
  BY <1>1 DEF vars
<1>2. CASE NetStep
  BY <1>2 DEF NetStep, WaitNotified, WaitTimeout, Pop, WakeupDone, Release,
       Read, DrainDone
<1>3. ASSUME NEW w \in Workers, Process(w) PROVE HasBlock'
  <2>1. PICK t \in Types :
          mine' = [mine EXCEPT ![w] = [seq |-> made + 1, type |-> t]]
    BY <1>3 DEF Process
  <2>2. [seq |-> made + 1, type |-> t] \in Blocks
    BY <1>3 DEF Process, Blocks
  <2> QED
    BY <1>3, <2>1, <2>2 DEF Process, Goto
<1>4. ASSUME NEW w \in Workers, WorkerStep(w) \/ Crash(w) \/ Fork(w)
      PROVE HasBlock'
  BY <1>4 DEF WorkerStep, Lock, Push, PushFails, Unlock, Popup, Write, Crash,
       Fork, Goto
<1> QED
  BY <1>1, <1>2, <1>3, <1>4 DEF Next

\* Which steps leave the wake-up alone, and what those on the way to it do.
LEMMA FlagStep == ASSUME Inv, [Next]_vars PROVE FlagOwned'
<1> USE ReplyAssumption DEF Inv, TypeOK, FlagOwned, Spent, Writing
<1>1. CASE UNCHANGED vars
  BY <1>1 DEF vars
<1>2. CASE WaitNotified
  BY <1>2 DEF WaitNotified, Reported
<1>3. CASE WaitTimeout
  BY <1>3 DEF WaitTimeout, BytesOwned
<1>4. CASE Pop
  BY <1>4 DEF Pop
<1>5. CASE WakeupDone
  BY <1>5 DEF WakeupDone
<1>6. CASE Release
  BY <1>6 DEF Release, GotRelease, BytesOwned
<1>7. CASE Read
  BY <1>7 DEF Read, GotRead
<1>8. CASE DrainDone
  BY <1>8 DEF DrainDone
<1>9. ASSUME NEW w \in Workers, Process(w) PROVE FlagOwned'
  BY <1>9 DEF Process, Goto
<1>10. ASSUME NEW w \in Workers, Push(w) PROVE FlagOwned'
  BY <1>10 DEF Push, Goto
<1>11. ASSUME NEW w \in Workers, Lock(w) PROVE FlagOwned'
  BY <1>11 DEF Lock, Goto
<1>12. ASSUME NEW w \in Workers, PushFails(w) PROVE FlagOwned'
  BY <1>12 DEF PushFails, Goto
<1>13. ASSUME NEW w \in Workers, Unlock(w) PROVE FlagOwned'
  BY <1>13 DEF Unlock, Goto
<1>14. ASSUME NEW w \in Workers, Popup(w) PROVE FlagOwned'
  BY <1>14 DEF Popup, Goto, PopupSkip, PopupSet
<1>15. ASSUME NEW w \in Workers, Write(w) PROVE FlagOwned'
  BY <1>15 DEF Write, Goto, PopupWrite
<1>16. ASSUME NEW w \in Workers, Crash(w) PROVE FlagOwned'
  BY <1>16 DEF Crash, Goto, InPopup
<1>17. ASSUME NEW w \in Workers, Fork(w) PROVE FlagOwned'
  BY <1>17 DEF Fork, Goto
<1> QED
  BY <1>1, <1>2, <1>3, <1>4, <1>5, <1>6, <1>7, <1>8, <1>9, <1>10, <1>11,
     <1>12, <1>13, <1>14, <1>15, <1>16, <1>17 DEF Next, NetStep, WorkerStep

\* Every step keeps the account of the bytes in the pipe.
LEMMA BytesStep == ASSUME Inv, [Next]_vars PROVE BytesOwned'
<1> USE ReplyAssumption DEF Inv, TypeOK, BytesOwned
<1>1. CASE UNCHANGED vars
  BY <1>1 DEF vars
<1>2. CASE WaitNotified
  BY <1>2 DEF WaitNotified, Reported
<1>3. CASE WaitTimeout
  BY <1>3 DEF WaitTimeout
<1>4. CASE Pop
  BY <1>4 DEF Pop
<1>5. CASE WakeupDone
  BY <1>5 DEF WakeupDone
<1>6. CASE Release
  BY <1>6 DEF Release, GotRelease
<1>7. CASE Read
  BY <1>7 DEF Read, GotRead
<1>8. CASE DrainDone
  BY <1>8 DEF DrainDone
<1>9. ASSUME NEW w \in Workers, Write(w) PROVE BytesOwned'
  <2>1. ~edge
    BY <1>9 DEF Write, FlagOwned, Writing
  <2> QED
    BY <1>9, <2>1 DEF Write, PopupWrite
<1>10. ASSUME NEW w \in Workers, Popup(w) PROVE BytesOwned'
  BY <1>10 DEF Popup, PopupSkip, PopupSet
<1>11. ASSUME NEW w \in Workers,
              \/ Process(w) \/ Lock(w) \/ Push(w) \/ PushFails(w) \/ Unlock(w)
              \/ Crash(w) \/ Fork(w)
       PROVE BytesOwned'
  BY <1>11 DEF Process, Lock, Push, PushFails, Unlock, Crash, Fork
<1> QED
  BY <1>1, <1>2, <1>3, <1>4, <1>5, <1>6, <1>7, <1>8, <1>9, <1>10, <1>11
  DEF Next, NetStep, WorkerStep

\* Every step keeps the promise to the blocks in the queue.
LEMMA WakeupStep == ASSUME Inv, [Next]_vars PROVE NoLostWakeup'
<1> USE ReplyAssumption DEF Inv, TypeOK, NoLostWakeup, InPopup
<1>1. CASE UNCHANGED vars
  BY <1>1 DEF vars
<1>2. CASE NetStep
  BY <1>2 DEF NetStep, WaitNotified, WaitTimeout, Pop, WakeupDone, Release,
       Read, DrainDone
<1>3. ASSUME NEW w \in Workers, Push(w) PROVE NoLostWakeup'
  BY <1>3 DEF Push, Goto
<1>4. ASSUME NEW w \in Workers, Process(w) \/ Lock(w) \/ PushFails(w) \/ Fork(w)
      PROVE NoLostWakeup'
  <2>1. /\ \A v \in Workers : wpc[v] \in InPopup => wpc'[v] \in InPopup
        /\ UNCHANGED <<npc, sndq, edge, orphan>>
    BY <1>4 DEF Process, Lock, PushFails, Fork, Goto
  <2> QED
    BY <2>1
<1>5. ASSUME NEW w \in Workers, Unlock(w) PROVE NoLostWakeup'
  BY <1>5 DEF Unlock, Goto
<1>6. ASSUME NEW w \in Workers, Popup(w) PROVE NoLostWakeup'
  <2>1. CASE PopupSet /\ Goto(w, "write")
    BY <1>6, <2>1 DEF Popup, Goto, PopupSet
  <2>2. CASE PopupSkip /\ Goto(w, "idle") /\ npc = "wait"
    <3>1. edge \/ orphan \/ \E v \in Workers : wpc[v] = "write"
      BY <2>2 DEF PopupSkip, FlagOwned, Spent, Writing
    <3>2. \A v \in Workers : wpc[v] = "write" => wpc'[v] = "write"
      BY <1>6, <2>2 DEF Popup, Goto
    <3> QED
      BY <1>6, <2>2, <3>1, <3>2 DEF Popup, PopupSkip
  <2>3. CASE PopupSkip /\ npc # "wait"
    BY <1>6, <2>3 DEF Popup
  <2> QED
    BY <1>6, <2>1, <2>2, <2>3 DEF Popup
<1>7. ASSUME NEW w \in Workers, Write(w) PROVE NoLostWakeup'
  BY <1>7 DEF Write, PopupWrite
<1>8. ASSUME NEW w \in Workers, Crash(w) PROVE NoLostWakeup'
  BY <1>8 DEF Crash, Goto
<1> QED
  BY <1>1, <1>2, <1>3, <1>4, <1>5, <1>6, <1>7, <1>8 DEF Next, WorkerStep

\* The invariant holds in every state.
LEMMA InvHolds == Spec => []Inv
<1>1. Inv /\ [Next]_vars => Inv'
  BY TypeStep, BlockStep, FlagStep, BytesStep, WakeupStep DEF Inv
<1> QED
  BY InitInv, <1>1, PTL DEF Spec

-----------------------------------------------------------------------------
(***************************************************************************)
(* Replies are never left to the timeout of epoll_wait while the workers   *)
(* live: for any number of workers, blocks and crashes, the net process    *)
(* does not wait with blocks in the send queue unless it will be woken or  *)
(* a worker died between push_data and the write of popup.                 *)
(***************************************************************************)
THEOREM NoLostWakeupHolds == Spec => []NoLostWakeup
BY InvHolds, PTL DEF Inv

(***************************************************************************)
(* popup never meets a full pipe: at most two bytes are in it, however     *)
(* many workers call popup while the net process is in got.                *)
(***************************************************************************)
THEOREM PipeNeverFillsHolds == Spec => []PipeNeverFills
<1>1. Inv => PipeNeverFills
  BY DEF Inv, TypeOK, BytesOwned, PipeNeverFills
<1> QED
  BY InvHolds, <1>1, PTL

\* The types of the reply path.
THEOREM TypeCorrect == Spec => []TypeOK
BY InvHolds, PTL DEF Inv

-----------------------------------------------------------------------------
(* The afutex mutex *)

\* The mutex word tells whether the mutex is held: it is 0 exactly when no
\* process holds it, and between fetch_and_sub and the store of 0 it is not 0.
HeldIffNonzero == (mutex # UNLOCKED) <=> (\E p \in Procs : Holds(p))

\* The inductive invariant behind mutual exclusion.
MutexInv == MutexTypeOK /\ MutualExclusion /\ HeldIffNonzero

\* MutexInit establishes the invariant.
LEMMA MutexInitInv == MutexInit => MutexInv
  BY DEF MutexInit, MutexInv, MutexTypeOK, MutualExclusion, HeldIffNonzero, Holds,
         Locations, UNLOCKED, NO_WAITERS, HAS_WAITERS

\* Every step of every process preserves the invariant.
LEMMA MutexNextInv == MutexInv /\ [MutexNext]_mutexVars => MutexInv'
  <1> SUFFICES ASSUME MutexInv, [MutexNext]_mutexVars PROVE MutexInv'
    OBVIOUS
  <1> USE DEF MutexInv, MutexTypeOK, MutualExclusion, HeldIffNonzero, Holds,
              Locations, UNLOCKED, NO_WAITERS, HAS_WAITERS, GoesTo
  <1>1. ASSUME NEW p \in Procs, TryLock(p) PROVE MutexInv'
    BY <1>1 DEF TryLock
  <1>2. ASSUME NEW p \in Procs, LockCas(p) PROVE MutexInv'
    BY <1>2 DEF LockCas
  <1>3. ASSUME NEW p \in Procs, Interrupted(p) PROVE MutexInv'
    BY <1>3 DEF Interrupted
  <1>4. ASSUME NEW p \in Procs, LockXchg(p) PROVE MutexInv'
    BY <1>4 DEF LockXchg
  <1>5. ASSUME NEW p \in Procs, FutexWait(p) PROVE MutexInv'
    BY <1>5 DEF FutexWait
  <1>6. ASSUME NEW p \in Procs, UnlockSub(p) PROVE MutexInv'
    BY <1>6 DEF UnlockSub
  <1>7. ASSUME NEW p \in Procs, UnlockRelease(p) PROVE MutexInv'
    BY <1>7 DEF UnlockRelease
  <1>8. ASSUME NEW p \in Procs, UnlockWake(p) PROVE MutexInv'
    BY <1>8 DEF UnlockWake, Sleepers
  <1>9. CASE UNCHANGED mutexVars
    BY <1>9 DEF mutexVars
  <1>10. QED
    BY <1>1, <1>2, <1>3, <1>4, <1>5, <1>6, <1>7, <1>8, <1>9 DEF MutexNext, Step

\* afutex_lock / afutex_unlock give mutual exclusion to any number of
\* processes, for every interleaving of the builtins and system calls.
THEOREM MutualExclusionHolds == MutexSpec => []MutualExclusion
  <1>1. MutexSpec => []MutexInv
    BY MutexInitInv, MutexNextInv, PTL DEF MutexSpec
  <1>2. MutexInv => MutualExclusion
    BY DEF MutexInv
  <1>3. QED
    BY <1>1, <1>2, PTL

\* The mutex word is one of the three values of afutex.h: no mix of
\* fetch_and_sub, test_and_set and release by any number of processes drives it
\* below 0 or above 2.
THEOREM MutexTypeCorrect == MutexSpec => []MutexTypeOK
  <1>1. MutexSpec => []MutexInv
    BY MutexInitInv, MutexNextInv, PTL DEF MutexSpec
  <1>2. MutexInv => MutexTypeOK
    BY DEF MutexInv
  <1>3. QED
    BY <1>1, <1>2, PTL

\* What a step does to the set of owners: nothing, or Acquire, or Release.
LEMMA StepIsMutexStep ==
  MutexInv /\ [MutexNext]_mutexVars => [Abstract!Next]_({p \in Procs : Holds(p)})
  <1> SUFFICES ASSUME MutexInv, [MutexNext]_mutexVars
               PROVE  [Abstract!Next]_({p \in Procs : Holds(p)})
    OBVIOUS
  <1> DEFINE owner == {p \in Procs : Holds(p)}
  <1> USE DEF MutexInv, MutexTypeOK, MutualExclusion, HeldIffNonzero, Holds,
              Locations, UNLOCKED, NO_WAITERS, HAS_WAITERS, GoesTo
  <1>1. ASSUME NEW p \in Procs, TryLock(p) \/ LockCas(p) \/ LockXchg(p)
        PROVE  owner' = owner \/ Abstract!Acquire(p)
    BY <1>1 DEF TryLock, LockCas, LockXchg, Abstract!Acquire
  <1>2. ASSUME NEW p \in Procs, UnlockSub(p) \/ UnlockRelease(p)
        PROVE  owner' = owner \/ Abstract!Release(p)
    BY <1>2 DEF UnlockSub, UnlockRelease, Abstract!Release
  <1>3. ASSUME NEW p \in Procs, FutexWait(p) \/ Interrupted(p) \/ UnlockWake(p)
        PROVE  owner' = owner
    BY <1>3 DEF FutexWait, Interrupted, UnlockWake, Sleepers
  <1>4. CASE UNCHANGED mutexVars
    BY <1>4 DEF mutexVars
  <1>5. QED
    BY <1>1, <1>2, <1>3, <1>4 DEF MutexNext, Step, Abstract!Next

\* The afutex is a mutex: every behaviour of the builtins and system calls is
\* one of the atomic mutex that Newbench uses in its place.
THEOREM AfutexImplementsMutex == MutexSpec => ImplementsMutex
  <1>1. MutexInit => Abstract!Init
    BY DEF MutexInit, Abstract!Init, Holds
  <1>2. MutexSpec => []MutexInv
    BY MutexInitInv, MutexNextInv, PTL DEF MutexSpec
  <1>3. QED
    BY <1>1, <1>2, StepIsMutexStep, PTL DEF MutexSpec, ImplementsMutex, Abstract!Spec

\* Every step keeps the promise to the sleepers; given the types it needs no
\* strengthening.
LEMMA MutexNextNoSleeperLost ==
  MutexInv /\ NoSleeperLost /\ [MutexNext]_mutexVars => NoSleeperLost'
  <1> SUFFICES ASSUME MutexInv, NoSleeperLost, [MutexNext]_mutexVars PROVE NoSleeperLost'
    OBVIOUS
  <1> USE DEF MutexInv, MutexTypeOK, NoSleeperLost, Sleepers, Locations,
              UNLOCKED, NO_WAITERS, HAS_WAITERS, GoesTo
  <1>1. ASSUME NEW p \in Procs, TryLock(p) \/ LockCas(p) PROVE NoSleeperLost'
    BY <1>1 DEF TryLock, LockCas
  <1>2. ASSUME NEW p \in Procs, LockXchg(p) PROVE NoSleeperLost'
    BY <1>2 DEF LockXchg
  <1>3. ASSUME NEW p \in Procs, FutexWait(p) \/ Interrupted(p)
        PROVE  NoSleeperLost'
    BY <1>3 DEF FutexWait, Interrupted
  <1>4. ASSUME NEW p \in Procs, UnlockSub(p) \/ UnlockRelease(p)
        PROVE  NoSleeperLost'
    BY <1>4 DEF UnlockSub, UnlockRelease
  <1>5. ASSUME NEW p \in Procs, UnlockWake(p) PROVE NoSleeperLost'
    BY <1>5 DEF UnlockWake
  <1>6. CASE UNCHANGED mutexVars
    BY <1>6 DEF mutexVars
  <1>7. QED
    BY <1>1, <1>2, <1>3, <1>4, <1>5, <1>6 DEF MutexNext, Step

\* No process sleeps in FUTEX_WAIT on a mutex whose word no longer says so and
\* that nobody is about to wake it from, for any number of processes.
THEOREM NoSleeperLostHolds == MutexSpec => []NoSleeperLost
  <1>1. MutexInit => NoSleeperLost
    BY DEF MutexInit, NoSleeperLost, Sleepers
  <1>2. MutexSpec => []MutexInv
    BY MutexInitInv, MutexNextInv, PTL DEF MutexSpec
  <1>3. QED
    BY <1>1, <1>2, MutexNextNoSleeperLost, PTL DEF MutexSpec
=============================================================================
