------------------------------ MODULE Newbench ------------------------------
(***************************************************************************)
(* The processes of newbench in barrier mode, around one barrier ring      *)
(* queue: the net process pushes the packets it receives, the work         *)
(* processes pop and process them, the main process reaps the workers that *)
(* die, cleans the queue of a crashed one and forks another.               *)
(*                                                                         *)
(* All calls of the queue but is_able_pop happen under g_rcv_rq_lock, one  *)
(* afutex; Afutex.tla is that mutex, here it is the variable lock.         *)
(***************************************************************************)
EXTENDS BarrierRingQueue

CONSTANTS
  Lens,         \* lengths of packets, shm_block_t included
  WorkerNum,    \* g_bench_conf.worker_num
  MaxCrash,     \* bound: abnormal exits of workers
  MaxExit,      \* bound: normal exits of workers (SIGTERM, g_stop)
  CrashInside   \* may a worker crash while it holds g_rcv_rq_lock

ASSUME NewbenchAssumption ==
  /\ Lens \subseteq Nat \ {0}
  /\ WorkerNum \in Nat /\ MaxCrash \in Nat /\ MaxExit \in Nat
  /\ CrashInside \in BOOLEAN

VARIABLES
  wpc,          \* where each work process stands
  lock,         \* who holds g_rcv_rq_lock: a worker, net, main or nobody
  mpc,          \* where the main process stands
  mpid,         \* the pid main has reaped and is about to clean, or NULL
  told,         \* what a new worker wrote to the pipe main reads
  crashes, exits

mainVars == <<mpc, mpid, told>>
procVars == <<wpc, lock, mainVars, crashes, exits>>
vars == <<brqVars, procVars>>

(***************************************************************************)
(* A worker is in handle_init ("init"), at the top of its loop ("loop"),   *)
(* has seen is_able_pop and asks for the lock ("lock"), is inside pop      *)
(* before ("pop") or in the read loop ("scan"), or processes a packet      *)
(* ("work").  A crashed one is a "zombie" until it has been reaped and     *)
(* "dead" from then on; one that returned is "exit" and then "gone".       *)
(***************************************************************************)
Holding == {"pop", "scan"}
Running == {"init", "loop", "lock", "work"} \union Holding
WorkerStates == Running \union {"zombie", "dead", "exit", "gone"}

\* variant: the result of kill() is tested the wrong way round
NoSuchProcessInverted(p) == wpc[p] \notin {"dead", "gone"}

\* kill(pid, 0) fails with ESRCH: a zombie still takes signals
NoSuchProcess(p) == wpc[p] \in {"dead", "gone"}

Goto(w, l) == wpc' = [wpc EXCEPT ![w] = l]

\* main forks worker_num workers with the queue empty
Init ==
  /\ BrqInit
  /\ \E W \in SUBSET Pids :
       /\ Cardinality(W) = WorkerNum
       /\ wpc = [p \in Pids |-> IF p \in W THEN "loop" ELSE "dead"]
  /\ lock = "free"
  /\ mpc = "watch"
  /\ mpid = NULL
  /\ told = "nothing"
  /\ crashes = 0
  /\ exits = 0

-----------------------------------------------------------------------------
(* Work process *)

\* handle_init succeeds and the worker tells main so
WorkerReady(w) ==
  /\ wpc[w] = "init"
  /\ told' = "ok"
  /\ Goto(w, "loop")
  /\ UNCHANGED <<brqVars, lock, mpc, mpid, crashes, exits>>

\* handle_init or malloc fails: the worker tells main and exits with 0
WorkerInitFailed(w) ==
  /\ wpc[w] = "init"
  /\ told' = "failed"
  /\ Goto(w, "exit")
  /\ UNCHANGED <<brqVars, lock, mpc, mpid, crashes, exits>>

\* is_able_pop without the lock; a worker that sees nothing sleeps and retries
WorkerCheck(w) ==
  /\ wpc[w] = "loop"
  /\ IsAblePop(w)
  /\ Goto(w, "lock")
  /\ UNCHANGED <<brqVars, lock, mainVars, crashes, exits>>

WorkerLock(w) ==
  /\ wpc[w] = "lock"
  /\ lock = "free"
  /\ lock' = "worker"
  /\ Goto(w, "pop")
  /\ UNCHANGED <<brqVars, mainVars, crashes, exits>>

\* pop with m_last_flag set and packets of the same key waiting
PopHandover(w) ==
  /\ wpc[w] = "pop"
  /\ last[w] # NULL
  /\ Handover(w)
  /\ lock' = "free"
  /\ Goto(w, "work")
  /\ UNCHANGED <<mainVars, crashes, exits>>

\* pop with m_last_flag set and none waiting: on to the read loop
PopRelease(w) ==
  /\ wpc[w] = "pop"
  /\ last[w] # NULL
  /\ Release(w)
  /\ Goto(w, "scan")
  /\ UNCHANGED <<lock, mainVars, crashes, exits>>

\* pop with m_last_flag 0
PopStart(w) ==
  /\ wpc[w] = "pop"
  /\ last[w] = NULL
  /\ Goto(w, "scan")
  /\ UNCHANGED <<brqVars, lock, mainVars, crashes, exits>>

\* pop returns 0, nothing to process
ScanNothing(w) ==
  /\ wpc[w] = "scan"
  /\ TakeNothing(w)
  /\ lock' = "free"
  /\ Goto(w, "loop")
  /\ UNCHANGED <<mainVars, crashes, exits>>

ScanPlain(w) ==
  /\ wpc[w] = "scan"
  /\ TakePlain(w)
  /\ lock' = "free"
  /\ Goto(w, "work")
  /\ UNCHANGED <<mainVars, crashes, exits>>

\* goto loop
ScanConflict(w) ==
  /\ wpc[w] = "scan"
  /\ TakeConflict
  /\ UNCHANGED procVars

ScanBarrier(w) ==
  /\ wpc[w] = "scan"
  /\ TakeBarrier(w)
  /\ lock' = "free"
  /\ Goto(w, "work")
  /\ UNCHANGED <<mainVars, crashes, exits>>

\* handle_process has returned and its answer, if any, has been pushed
WorkDone(w) ==
  /\ wpc[w] = "work"
  /\ Goto(w, "loop")
  /\ UNCHANGED <<brqVars, lock, mainVars, crashes, exits>>

\* while (!g_stop): the worker leaves its loop and exits with status 0
WorkerExit(w) ==
  /\ wpc[w] = "loop"
  /\ exits < MaxExit
  /\ exits' = exits + 1
  /\ Goto(w, "exit")
  /\ last' = [last EXCEPT ![w] = NULL]
  /\ UNCHANGED <<queueVars, lock, mainVars, crashes>>

\* a worker is killed; its private memory is gone, the shared memory stays
WorkerCrash(w) ==
  /\ wpc[w] \in Running
  /\ wpc[w] \in Holding => CrashInside
  /\ crashes < MaxCrash
  /\ crashes' = crashes + 1
  /\ Goto(w, "zombie")
  /\ last' = [last EXCEPT ![w] = NULL]
  /\ UNCHANGED <<queueVars, lock, mainVars, exits>>

WorkerStep(w) ==
  \/ WorkerReady(w)
  \/ WorkerInitFailed(w)
  \/ WorkerCheck(w)
  \/ WorkerLock(w)
  \/ PopHandover(w)
  \/ PopRelease(w)
  \/ PopStart(w)
  \/ ScanNothing(w)
  \/ ScanPlain(w)
  \/ ScanConflict(w)
  \/ ScanBarrier(w)
  \/ WorkDone(w)

-----------------------------------------------------------------------------
(* Net process: on_recv_data.  The packet is chosen where push reads it. *)

NetLock ==
  /\ lock = "free"
  /\ lock' = "net"
  /\ UNCHANGED <<brqVars, wpc, mainVars, crashes, exits>>

\* push finds no node, and the first packet of the used list belongs to a
\* process that is no more
CanSelfClean ==
  /\ free = {}
  /\ taken # <<>>
  /\ \E p \in Pids : flag[Head(taken)] = p /\ NoSuchProcess(p)

PushSelfClean ==
  /\ lock = "net"
  /\ CanSelfClean
  /\ \E p \in Pids : flag[Head(taken)] = p /\ Clean4pid(p)
  /\ UNCHANGED <<last, procVars>>

\* ERROR_NO_ENOUGH_MEM: no node, and nobody to clean up after
PushNoNode ==
  /\ lock = "net"
  /\ free = {}
  /\ ~CanSelfClean
  /\ lock' = "free"
  /\ UNCHANGED <<brqVars, wpc, mainVars, crashes, exits>>

\* ERROR_NO_ENOUGH_RQ_BUFFER: the packet does not fit
PushNoRoom ==
  /\ lock = "net"
  /\ free # {}
  /\ \E l \in Lens : ~HasRoom(l)
  /\ lock' = "free"
  /\ UNCHANGED <<brqVars, wpc, mainVars, crashes, exits>>

PushDone ==
  /\ lock = "net"
  /\ \E k \in Keys, f \in {Plain, Barrier}, l \in Lens : Enqueue(k, f, l)
  /\ lock' = "free"
  /\ UNCHANGED <<wpc, mainVars, crashes, exits>>

NetStep == PushSelfClean \/ PushNoNode \/ PushNoRoom \/ PushDone

-----------------------------------------------------------------------------
(* Main process *)

\* waitpid returns a child killed by a signal
MainReapCrashed(p) ==
  /\ mpc = "watch"
  /\ wpc[p] = "zombie"
  /\ Goto(p, "dead")
  /\ mpc' = "lock"
  /\ mpid' = p
  /\ UNCHANGED <<brqVars, lock, told, crashes, exits>>

\* waitpid returns a child that exited with 0: neither cleaned nor replaced
MainReapExited(p) ==
  /\ mpc = "watch"
  /\ wpc[p] = "exit"
  /\ Goto(p, "gone")
  /\ UNCHANGED <<brqVars, lock, mainVars, crashes, exits>>

MainLock ==
  /\ mpc = "lock"
  /\ lock = "free"
  /\ lock' = "main"
  /\ mpc' = "clean"
  /\ UNCHANGED <<brqVars, wpc, mpid, told, crashes, exits>>

\* variant: main forgets to clean the queue
MainCleanNot ==
  /\ mpc = "clean"
  /\ lock' = "free"
  /\ mpc' = "spawn"
  /\ mpid' = NULL
  /\ UNCHANGED <<brqVars, wpc, told, crashes, exits>>

MainClean ==
  /\ mpc = "clean"
  /\ Clean4pid(mpid)
  /\ lock' = "free"
  /\ mpc' = "spawn"
  /\ mpid' = NULL
  /\ UNCHANGED <<last, wpc, told, crashes, exits>>

\* fork: the new worker has main's copy of the queue object, m_last_flag 0,
\* and any pid that is not in use, also one of a worker that was reaped; main
\* waits in read() on a pipe whose other end it has open itself
MainFork ==
  /\ mpc = "spawn"
  /\ \E p \in Pids :
       /\ wpc[p] \in {"dead", "gone"}
       /\ Goto(p, "init")
       /\ last' = [last EXCEPT ![p] = NULL]
  /\ mpc' = "wait"
  /\ UNCHANGED <<queueVars, lock, mpid, told, crashes, exits>>

\* fork fails: main returns, the other processes live on
MainForkFailed ==
  /\ mpc = "spawn"
  /\ mpc' = "stopped"
  /\ UNCHANGED <<brqVars, wpc, lock, mpid, told, crashes, exits>>

\* wait_child: main goes on, or returns if the worker could not start
MainChildTold ==
  /\ mpc = "wait"
  /\ told # "nothing"
  /\ mpc' = IF told = "ok" THEN "watch" ELSE "stopped"
  /\ told' = "nothing"
  /\ UNCHANGED <<brqVars, wpc, lock, mpid, crashes, exits>>

\* without main the init process of the system reaps its children
OrphanReaped(p) ==
  /\ mpc = "stopped"
  /\ wpc[p] \in {"zombie", "exit"}
  /\ Goto(p, IF wpc[p] = "zombie" THEN "dead" ELSE "gone")
  /\ UNCHANGED <<brqVars, lock, mainVars, crashes, exits>>

MainStep ==
  \/ \E p \in Pids : MainReapCrashed(p) \/ MainReapExited(p) \/ OrphanReaped(p)
  \/ MainLock
  \/ MainClean
  \/ MainFork
  \/ MainForkFailed
  \/ MainChildTold

-----------------------------------------------------------------------------
Next ==
  \/ \E w \in Pids : WorkerStep(w) \/ WorkerExit(w) \/ WorkerCrash(w)
  \/ NetLock \/ NetStep
  \/ MainStep

(***************************************************************************)
(* Weak fairness for the steps of workers and main, and for the net        *)
(* process once it is inside push: the scheduler runs every process, and   *)
(* neither handle_process nor pop, push or clean blocks.  Clients need not *)
(* send packets, so NetLock has none.                                      *)
(***************************************************************************)
Fairness ==
  /\ \A w \in Pids : WF_vars(WorkerStep(w))
  /\ WF_vars(NetStep)
  /\ WF_vars(MainStep)

Spec == Init /\ [][Next]_vars /\ Fairness

\* as Spec, and moreover nobody who asks for the lock is passed over for ever;
\* the futex does not promise it, the violation found holds even so
FairLockSpec ==
  /\ Spec
  /\ \A w \in Pids : SF_vars(WorkerLock(w))
  /\ SF_vars(MainLock)
-----------------------------------------------------------------------------
(* Safety *)

TypeOK ==
  /\ free \subseteq Nodes /\ tree \subseteq Nodes
  /\ taken \in Seq(Nodes) /\ unread \in Seq(Nodes)
  /\ homo \in [Nodes -> Seq(Nodes)]
  /\ key \in [Nodes -> Keys]
  /\ flag \in [Nodes -> Pids \union {Plain, Barrier}]
  /\ addr \in [Nodes -> 0..BufferLen-1]
  /\ length \in [Nodes -> Nat]
  /\ head_index \in 0..BufferLen-1 /\ tail_index \in 0..BufferLen-1
  /\ last \in [Pids -> Nodes \union {NULL}]
  /\ wpc \in [Pids -> WorkerStates]
  /\ lock \in {"free", "worker", "net", "main"}
  /\ mpc \in {"watch", "lock", "clean", "spawn", "wait", "stopped"}
  /\ mpid \in Pids \union {NULL}
  /\ told \in {"nothing", "ok", "failed"}
  /\ crashes \in 0..MaxCrash /\ exits \in 0..MaxExit

\* w is inside handle_process with a barrier packet
Processing(w) == wpc[w] = "work" /\ last[w] # NULL

\* The promise of the barrier: two workers never process packets of one key at
\* the same time, whoever crashed or was cleaned up in between.
KeyExclusion ==
  \A v, w \in Pids :
    v # w /\ Processing(v) /\ Processing(w) => key[last[v]] # key[last[w]]

\* m_p_assist_array_node is never stale when is_able_pop or pop follow it: it
\* is in the tree, as the node of this very process, so that no clean-up by
\* the main or the net process has freed it under a worker that runs.
NoStalePointer ==
  \A w \in Pids :
    wpc[w] \in Running \ {"scan"} /\ last[w] # NULL =>
      last[w] \in tree /\ flag[last[w]] = w

\* No node is lost or listed twice by push, pop and clean: each is free or in
\* the used list, and each one read but not freed is in the tree or waits
\* behind exactly one node of the tree.
NodesAccounted ==
  /\ free \intersect Range(Used) = {}
  /\ free \union Range(Used) = Nodes
  /\ IsInjective(Used)
  /\ Range(taken) = tree \union UNION {Range(homo[t]) : t \in tree}
  /\ \A t \in tree :
       /\ IsInjective(homo[t])
       /\ Range(homo[t]) \intersect tree = {}
       /\ \A u \in tree \ {t} : Range(homo[t]) \intersect Range(homo[u]) = {}

\* Barrier packets of one key are processed in the order they were pushed: of
\* those in the queue only the oldest is in the tree, and the others wait in
\* the order of the used list.
KeyOrder ==
  \A i, j \in DOMAIN Used :
    LET m == Used[i] n == Used[j] IN
    i < j /\ key[m] = key[n] /\ flag[m] # Plain /\ flag[n] # Plain =>
      /\ n \notin tree
      /\ \A t \in tree : \A a, b \in DOMAIN homo[t] :
           homo[t][a] = m /\ homo[t][b] = n => a < b

\* The self-cleaning loop of push asks kill() about the flag of the first
\* node: that flag is then a pid, never the flag the packet was pushed with,
\* and the node is in the tree, so that clean_4pid finds it and the loop ends.
HeadHasOwner ==
  taken # <<>> => Head(taken) \in tree /\ flag[Head(taken)] \in Pids

\* p holds t's packet, or has crashed and main has not dealt with it yet, or
\* never will because it has stopped
LockedFor(t, p) ==
  /\ flag[t] = p
  /\ \/ wpc[p] \in Running \ {"scan"} /\ last[p] = t
     \/ wpc[p] = "zombie"
     \/ mpid = p
     \/ wpc[p] = "dead" /\ mpc = "stopped"

\* Keys do not stay locked for nobody, but for one key for each worker that
\* left its loop normally (main does not clean up after those).  A crash adds
\* none, not even when the crashed worker had the pid of one that left: then
\* clean_4pid, which cleans one node of a pid, may clean the wrong one.
LockedForSomebody ==
  Cardinality({t \in tree : ~\E p \in Pids : LockedFor(t, p)}) <= exits

\* The packets in the ring are intact: pop copies each from the cells push put
\* it in, these lie inside the buffer, and no two packets share one.
PushCells(n) == [i \in 1..length[n] |-> (addr[n] + i - 1) % BufferLen]
PacketsIntact ==
  LET U == Range(Used) IN
  /\ \A n \in U : PopCells(n) = PushCells(n)
  /\ \A m, n \in U : m # n => Range(PushCells(m)) \intersect Range(PushCells(n)) = {}

-----------------------------------------------------------------------------
(* Liveness *)

\* n is in the queue and no worker has got it yet
Waiting(n) ==
  n \in Range(unread) \/ \E t \in tree : n \in Range(homo[t])

\* Every packet gets its turn: when clients stop sending, each packet that
\* waits, behind others or behind its key, is eventually given to a worker or
\* dropped with the crashed worker it waited for.
EveryPacketServed ==
  <>[][~NetLock]_vars => \A n \in Nodes : Waiting(n) ~> ~Waiting(n)

\* A crashed worker's packets and key do not stay locked: when clients stop
\* sending, main (or before that a push) has removed its node from the tree.
CrashedIsCleaned ==
  <>[][~NetLock]_vars => \A p \in Pids : wpc[p] = "zombie" ~> OwnedBy(p) = {}

\* A crashed worker is restarted: main, or whoever inherits its children, reaps
\* it sooner or later, which is the first thing a restart takes.
CrashedIsReaped ==
  <>[][~NetLock]_vars => \A p \in Pids : wpc[p] = "zombie" ~> wpc[p] # "zombie"

\* Main cleans up after a crash (newbench.cpp: what the process has in the
\* filter must be cleaned): when it has done so nothing is the process's any
\* more.  clean_4pid frees one node, and a pid that was given again has two.
NothingLeftBehind ==
  [][\A p \in Pids : MainClean /\ mpid = p => OwnedBy(p)' = {}]_vars

\* The platform hands complete packets to handle_process (newbench.wiki): one
\* that is offered packets for ever accepts packets for ever, so a full queue
\* drains once its workers are done with what they took.
PushesResume == []<><<NetLock>>_vars => []<><<PushDone>>_vars
=============================================================================
