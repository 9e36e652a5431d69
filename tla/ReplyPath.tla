------------------------------ MODULE ReplyPath ------------------------------
(***************************************************************************)
(* The way back: what work processes have for the net process (replies,    *)
(* broadcasts and requests to close a connection) goes through one ring    *)
(* queue, pushed under g_snd_rq_lock and popped without it by the net      *)
(* process, the only one that pops.  The notifier cuts the wait of the net *)
(* process short; its epoll_wait also returns by itself after 4 ms.        *)
(*                                                                         *)
(* The queue is the FIFO queue RingQueue.tla implements, the lock is the   *)
(* mutex Afutex.tla implements.                                            *)
(***************************************************************************)
EXTENDS Notifier, Sequences, SequencesExt

CONSTANTS
  Workers,      \* work processes
  NULL,
  QueueSize,    \* blocks that fit into g_psnd_rq
  MaxBlock,     \* bound: blocks handed over for pushing
  MaxCrash,     \* bound: crashes of workers
  CrashInside   \* may a worker crash while it holds g_snd_rq_lock

Types == {"DAT", "FIN"}
Blocks == [seq : 1 .. MaxBlock, type : Types]

ASSUME ReplyAssumption ==
  /\ NULL \notin Workers
  /\ NULL \notin Blocks
  /\ QueueSize \in Nat \ {0}
  /\ MaxBlock \in Nat /\ MaxCrash \in Nat
  /\ CrashInside \in BOOLEAN

VARIABLES
  wpc,          \* where each work process stands
  mine,         \* the block each work process has to push
  slock,        \* who holds g_snd_rq_lock, or NULL
  sndq,         \* g_psnd_rq
  npc,          \* where the net process stands in its loop
  notified,     \* the events epoll_wait returned include the notifier's
  made,         \* history: how many blocks have been handed over
  served,       \* history: the blocks the net process has popped
  crashes,
  orphan        \* history: a worker died between its push and the write

workVars == <<wpc, mine, slock, made>>
netVars == <<npc, notified, served>>
vars == <<notifierVars, workVars, sndq, netVars, crashes, orphan>>

Holding == {"push", "unlock"}
InPopup == {"unlock", "popup", "write"}

Init ==
  /\ NotifierInit
  /\ wpc = [w \in Workers |-> "idle"]
  /\ mine = [w \in Workers |-> NULL]
  /\ slock = NULL
  /\ sndq = <<>>
  /\ npc = "wait"
  /\ notified = FALSE
  /\ made = 0
  /\ served = {}
  /\ crashes = 0
  /\ orphan = FALSE

Goto(w, l) == wpc' = [wpc EXCEPT ![w] = l]

-----------------------------------------------------------------------------
(* Work process *)

\* handle_process returns a reply, or that the client is to be closed; or it
\* calls send_data or close_connection itself
Process(w) ==
  /\ wpc[w] = "idle"
  /\ made < MaxBlock
  /\ \E t \in Types :
       mine' = [mine EXCEPT ![w] = [seq |-> made + 1, type |-> t]]
  /\ made' = made + 1
  /\ Goto(w, "lock")
  /\ UNCHANGED <<notifierVars, slock, sndq, netVars, crashes, orphan>>

Lock(w) ==
  /\ wpc[w] = "lock"
  /\ slock = NULL
  /\ slock' = w
  /\ Goto(w, "push")
  /\ UNCHANGED <<notifierVars, mine, made, sndq, netVars, crashes, orphan>>

\* push_data succeeds
Push(w) ==
  /\ wpc[w] = "push"
  /\ Len(sndq) < QueueSize
  /\ sndq' = Append(sndq, mine[w])
  /\ Goto(w, "unlock")
  /\ UNCHANGED <<notifierVars, mine, slock, made, netVars, crashes, orphan>>

\* variant: the last place of the queue counts as no room
PushFailsEarly(w) ==
  /\ wpc[w] = "push"
  /\ Len(sndq) >= QueueSize - 1
  /\ slock' = NULL
  /\ mine' = [mine EXCEPT ![w] = NULL]
  /\ Goto(w, "idle")
  /\ UNCHANGED <<notifierVars, made, sndq, netVars, crashes, orphan>>

\* push_data finds no room: the lock is released, the block logged and dropped
PushFails(w) ==
  /\ wpc[w] = "push"
  /\ Len(sndq) >= QueueSize
  /\ slock' = NULL
  /\ mine' = [mine EXCEPT ![w] = NULL]
  /\ Goto(w, "idle")
  /\ UNCHANGED <<notifierVars, made, sndq, netVars, crashes, orphan>>

\* variant: the unlock is forgotten after a push that succeeds
UnlockNot(w) ==
  /\ wpc[w] = "unlock"
  /\ mine' = [mine EXCEPT ![w] = NULL]
  /\ Goto(w, "popup")
  /\ UNCHANGED <<notifierVars, slock, made, sndq, netVars, crashes, orphan>>

Unlock(w) ==
  /\ wpc[w] = "unlock"
  /\ slock' = NULL
  /\ mine' = [mine EXCEPT ![w] = NULL]
  /\ Goto(w, "popup")
  /\ UNCHANGED <<notifierVars, made, sndq, netVars, crashes, orphan>>

Popup(w) ==
  /\ wpc[w] = "popup"
  /\ \/ PopupSkip /\ Goto(w, "idle")
     \/ PopupSet /\ Goto(w, "write")
  /\ UNCHANGED <<mine, slock, made, sndq, netVars, crashes, orphan>>

Write(w) ==
  /\ wpc[w] = "write"
  /\ PopupWrite
  /\ Goto(w, "idle")
  /\ UNCHANGED <<mine, slock, made, sndq, netVars, crashes, orphan>>

\* a worker is killed, its locks and flags stay as they are
Crash(w) ==
  /\ wpc[w] # "dead"
  /\ wpc[w] \in Holding => CrashInside
  /\ crashes < MaxCrash
  /\ crashes' = crashes + 1
  /\ orphan' = (orphan \/ wpc[w] \in InPopup)
  /\ mine' = [mine EXCEPT ![w] = NULL]
  /\ Goto(w, "dead")
  /\ UNCHANGED <<notifierVars, slock, made, sndq, netVars>>

\* main forks another one in its place
Fork(w) ==
  /\ wpc[w] = "dead"
  /\ Goto(w, "idle")
  /\ UNCHANGED <<notifierVars, mine, slock, made, sndq, netVars, crashes,
                 orphan>>

-----------------------------------------------------------------------------
(* Net process: epoll_wait, on_wakeup, the events, and the loop of net_proc *)

\* epoll_wait returns the notifier's event, maybe among others
WaitNotified ==
  /\ npc = "wait"
  /\ Reported
  /\ notified' = TRUE
  /\ npc' = "wakeup"
  /\ UNCHANGED <<workVars, sndq, served, crashes, orphan>>

\* epoll_wait returns events of sockets only, or none after 4 ms
WaitTimeout ==
  /\ npc = "wait"
  /\ ~edge
  /\ notified' = FALSE
  /\ npc' = "wakeup"
  /\ UNCHANGED <<notifierVars, workVars, sndq, served, crashes, orphan>>

\* variant: the net process takes the lock to pop
PopLocked ==
  /\ npc \in {"wakeup", "drain"}
  /\ sndq # <<>>
  /\ slock = NULL
  /\ served' = served \union {Head(sndq)}
  /\ sndq' = Tail(sndq)
  /\ UNCHANGED <<notifierVars, workVars, npc, notified, crashes, orphan>>

\* both loops that pop take one block at a time
Pop ==
  /\ npc \in {"wakeup", "drain"}
  /\ sndq # <<>>
  /\ served' = served \union {Head(sndq)}
  /\ sndq' = Tail(sndq)
  /\ UNCHANGED <<notifierVars, workVars, npc, notified, crashes, orphan>>

\* on_wakeup has emptied the queue
WakeupDone ==
  /\ npc = "wakeup"
  /\ sndq = <<>>
  /\ npc' = IF notified THEN "release" ELSE "drain"
  /\ UNCHANGED <<notifierVars, workVars, sndq, notified, served, crashes,
                 orphan>>

Release ==
  /\ npc = "release"
  /\ GotRelease
  /\ npc' = "read"
  /\ UNCHANGED <<workVars, sndq, notified, served, crashes, orphan>>

\* variant: net_proc relies on on_wakeup and has no loop of its own
ReadNoDrain ==
  /\ npc = "read"
  /\ GotRead
  /\ notified' = FALSE
  /\ npc' = "wait"
  /\ UNCHANGED <<workVars, sndq, served, crashes, orphan>>

Read ==
  /\ npc = "read"
  /\ GotRead
  /\ notified' = FALSE
  /\ npc' = "drain"
  /\ UNCHANGED <<workVars, sndq, served, crashes, orphan>>

\* the loop of net_proc has emptied the queue, do_io is called again
DrainDone ==
  /\ npc = "drain"
  /\ sndq = <<>>
  /\ npc' = "wait"
  /\ UNCHANGED <<notifierVars, workVars, sndq, notified, served, crashes,
                 orphan>>

NetStep ==
  \/ WaitNotified \/ WaitTimeout \/ Pop \/ WakeupDone
  \/ Release \/ Read \/ DrainDone

WorkerStep(w) ==
  \/ Lock(w) \/ Push(w) \/ PushFails(w) \/ Unlock(w) \/ Popup(w) \/ Write(w)

Next ==
  \/ NetStep
  \/ \E w \in Workers : WorkerStep(w) \/ Process(w) \/ Crash(w) \/ Fork(w)

Spec ==
  /\ Init /\ [][Next]_vars
  /\ WF_vars(NetStep)
  /\ \A w \in Workers : WF_vars(WorkerStep(w)) /\ WF_vars(Fork(w))

-----------------------------------------------------------------------------
TypeOK ==
  /\ flag \in {0, 1} /\ pipe \in Nat /\ edge \in BOOLEAN
  /\ wpc \in [Workers -> {"idle", "lock", "push", "unlock", "popup", "write",
                          "dead"}]
  /\ mine \in [Workers -> Blocks \union {NULL}]
  /\ slock \in Workers \union {NULL}
  /\ sndq \in Seq(Blocks)
  /\ npc \in {"wait", "wakeup", "release", "read", "drain"}
  /\ notified \in BOOLEAN
  /\ made \in 0 .. MaxBlock
  /\ served \subseteq Blocks
  /\ crashes \in 0 .. MaxCrash
  /\ orphan \in BOOLEAN

(***************************************************************************)
(* No lost wake-up: when the net process goes to wait with blocks in the   *)
(* queue, the pipe will wake it, or a worker is yet to write to it.  A     *)
(* block pushed after on_wakeup, whose popup found the flag still set, is  *)
(* seen by the loop of net_proc.  Only the death of a worker between push  *)
(* and write leaves a block to the timeout.                                *)
(***************************************************************************)
NoLostWakeup ==
  npc = "wait" /\ sndq # <<>> =>
    edge \/ orphan \/ \E w \in Workers : wpc[w] \in InPopup

(***************************************************************************)
(* The pipe never fills: popup ignores a write that fails, so a full pipe  *)
(* would leave the flag set with nothing to report.                        *)
(***************************************************************************)
PipeNeverFills ==
  /\ pipe <= 2
  /\ npc = "wait" => pipe <= 1

(***************************************************************************)
(* Every block that has been pushed is popped, wherever workers die: the   *)
(* net process never waits for g_snd_rq_lock, and the timeout of           *)
(* epoll_wait stands in for a notification that was lost.                  *)
(***************************************************************************)
EveryBlockLeaves ==
  \A b \in Blocks : b \in Range(sndq) ~> b \in served

(***************************************************************************)
(* newbench.wiki says that a result of handle_process other than 0 closes  *)
(* the client: the FIN block gets to the net process.                      *)
(***************************************************************************)
FailedClientCloses ==
  \A n \in 1 .. MaxBlock :
    LET b == [seq |-> n, type |-> "FIN"] IN
    (\E w \in Workers : mine[w] = b) ~> b \in served

(***************************************************************************)
(* newbench.wiki says that handle_process is called when there is a        *)
(* complete packet: there is always again a worker that can call it.       *)
(***************************************************************************)
ProcessingGoesOn == []<>(\E w \in Workers : wpc[w] = "idle")

\* the worker that has g_snd_rq_lock was killed with it
LockOrphaned ==
  crashes > 0 /\ slock \in Workers /\ wpc[slock] \notin Holding

(***************************************************************************)
(* Both with the exceptions the code has.  A request to close gets from    *)
(* the worker to the net process unless the queue is full on the way, or   *)
(* the worker is killed, or another one was with the lock.                 *)
(***************************************************************************)
FinArrives ==
  \A n \in 1 .. MaxBlock, w \in Workers :
    LET b == [seq |-> n, type |-> "FIN"] IN
    mine[w] = b ~>
      \/ b \in served
      \/ Len(sndq) = QueueSize
      \/ wpc[w] = "dead" \/ LockOrphaned

(***************************************************************************)
(* Every worker comes back for the next packet, killed and restarted or    *)
(* not, unless one was killed with the lock.                               *)
(***************************************************************************)
WorkersComeBack ==
  \A w \in Workers : []<>(wpc[w] = "idle" \/ LockOrphaned)
=============================================================================
