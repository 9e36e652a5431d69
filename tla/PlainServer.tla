----------------------------- MODULE PlainServer -----------------------------
(***************************************************************************)
(* A newbench server in the plain mode (use_barrier is off): the net       *)
(* process pushes requests to g_prcv_rq without a lock, several workers    *)
(* pop them under g_rcv_rq_lock and push their replies to g_psnd_rq, the   *)
(* net process acts on those, and main restarts whoever is killed.         *)
(*                                                                         *)
(* The queues live in memory that outlives the processes.  A queue is a    *)
(* sequence of packets here; RingQueue shows that its bytes make one, with *)
(* one producer and one consumer at a time.  What the net process does     *)
(* with its connections in detail is in NetIoServer, the send lock and the *)
(* notifier are in ReplyPath.                                              *)
(***************************************************************************)
EXTENDS Integers, Sequences, FiniteSets, SequencesExt

CONSTANTS
  Workers, NULL,
  MaxClient,    \* bound: clients that connect, one after another
  MaxSend,      \* bound: packets they send
  RcvLen,       \* packets that fit into g_prcv_rq
  SndLen,       \* blocks that fit into g_psnd_rq
  MaxCrash,     \* bound: workers killed
  MaxNetCrash,  \* bound: net processes killed
  CrashInside   \* may a worker be killed while it holds g_rcv_rq_lock

Clients == 1 .. MaxClient
Ids == 1 .. MaxClient
Negative == -1                      \* "all connections", to close_connection

\* a packet of g_prcv_rq, and a block of g_psnd_rq
Requests == [seq : 1 .. MaxSend, id : Ids, client : Clients,
             life : 0 .. MaxNetCrash]
Blocks == [type : {"DAT", "FIN"}, id : Ids \union {Negative},
           client : Clients, life : 0 .. MaxNetCrash]

ASSUME PlainAssumption ==
  /\ {MaxClient, MaxSend, RcvLen, SndLen, MaxCrash, MaxNetCrash} \subseteq Nat
  /\ NULL \notin Workers \union Clients \union Requests
  /\ CrashInside \in BOOLEAN

VARIABLES
  conn,         \* m_id_conn_map: the client of each connection id
  m_id,         \* the next connection id
  up,           \* is there a net process
  rcvq, sndq,   \* g_prcv_rq and g_psnd_rq
  rlock,        \* who holds g_rcv_rq_lock
  wpc, mine,    \* where each worker stands, and the packet it has
  connects, made, crashes, life,
  handled,      \* history: the packets handle_process has been called with
  lost,         \* history: the packets that died with a worker
  acts          \* history: what the net process has done to whom

connVars == <<conn, m_id, up, connects, life>>
workVars == <<rlock, wpc, mine, crashes, handled, lost>>
vars == <<connVars, rcvq, sndq, workVars, made, acts>>

Init ==
  /\ conn = [i \in Ids |-> NULL]
  /\ m_id = 1
  /\ up = TRUE
  /\ rcvq = <<>> /\ sndq = <<>>
  /\ rlock = NULL
  /\ wpc = [w \in Workers |-> "check"]
  /\ mine = [w \in Workers |-> NULL]
  /\ connects = 0 /\ made = 0 /\ crashes = 0 /\ life = 0
  /\ handled = <<>> /\ lost = {} /\ acts = {}

-----------------------------------------------------------------------------
(* Net process *)

\* variant: the id of the last connection is given again
AcceptSameId ==
  /\ up /\ connects < MaxClient
  /\ connects' = connects + 1
  /\ conn' = [conn EXCEPT ![m_id] = connects + 1]
  /\ UNCHANGED <<m_id, up, life, rcvq, sndq, workVars, made, acts>>

Accept ==
  /\ up /\ connects < MaxClient
  /\ connects' = connects + 1
  /\ conn' = [conn EXCEPT ![m_id] = connects + 1]
  /\ m_id' = m_id + 1
  /\ UNCHANGED <<up, life, rcvq, sndq, workVars, made, acts>>

Disconnect(i) == conn' = [conn EXCEPT ![i] = NULL]

HangUp(i) ==
  /\ conn[i] # NULL
  /\ Disconnect(i)
  /\ UNCHANGED <<m_id, up, connects, life, rcvq, sndq, workVars, made, acts>>

\* on_recv_data with a complete packet; without room the connection is closed
Receive(i) ==
  /\ conn[i] # NULL
  /\ IF Len(rcvq) < RcvLen
     THEN /\ made < MaxSend
          /\ rcvq' = Append(rcvq, [seq |-> made + 1, id |-> i,
                                   client |-> conn[i], life |-> life])
          /\ made' = made + 1
          /\ UNCHANGED conn
     ELSE Disconnect(i) /\ UNCHANGED <<rcvq, made>>
  /\ UNCHANGED <<m_id, up, connects, life, sndq, workVars, acts>>

\* the block b is about the connection b.id; an id nobody has is logged, and
\* a send that fails closes the connection too
Act(b) ==
  LET i == b.id
  IN  IF i \in Ids /\ conn[i] # NULL
      THEN /\ acts' = acts \union
                {[type |-> b.type, to |-> conn[i], owner |-> b.client,
                  same |-> b.life = life]}
           /\ Disconnect(i) \/ (b.type = "DAT" /\ UNCHANGED conn)
      ELSE UNCHANGED <<acts, conn>>

NetPop ==
  /\ up
  /\ sndq # <<>>
  /\ Act(Head(sndq))
  /\ sndq' = Tail(sndq)
  /\ UNCHANGED <<m_id, up, connects, life, rcvq, workVars, made>>

\* the net process is killed, perhaps with a block it has just popped
NetCrash ==
  /\ up /\ life < MaxNetCrash
  /\ up' = FALSE
  /\ conn' = [i \in Ids |-> NULL]
  /\ sndq' \in {sndq} \union (IF sndq = <<>> THEN {} ELSE {Tail(sndq)})
  /\ UNCHANGED <<m_id, connects, life, rcvq, workVars, made, acts>>

-----------------------------------------------------------------------------
(* Work process *)

Goto(w, l) == wpc' = [wpc EXCEPT ![w] = l]

\* get_data_len, without the lock
WorkerCheck(w) ==
  /\ wpc[w] = "check"
  /\ rcvq # <<>>
  /\ Goto(w, "lock")
  /\ UNCHANGED <<connVars, rcvq, sndq, rlock, mine, crashes, handled, lost,
                 made, acts>>

\* variant: the lock is not taken
WorkerLockNot(w) ==
  /\ wpc[w] = "lock"
  /\ Goto(w, "copy")
  /\ UNCHANGED <<connVars, rcvq, sndq, rlock, mine, crashes, handled, lost,
                 made, acts>>

WorkerLock(w) ==
  /\ wpc[w] = "lock"
  /\ rlock = NULL
  /\ rlock' = w
  /\ Goto(w, "copy")
  /\ UNCHANGED <<connVars, rcvq, sndq, mine, crashes, handled, lost, made,
                 acts>>

\* variant: back without the unlock when there is nothing any more
WorkerCopyKeepsLock(w) ==
  /\ wpc[w] = "copy"
  /\ IF rcvq = <<>>
     THEN Goto(w, "check") /\ UNCHANGED mine
     ELSE Goto(w, "move") /\ mine' = [mine EXCEPT ![w] = Head(rcvq)]
  /\ UNCHANGED <<connVars, rcvq, sndq, rlock, crashes, handled, lost, made,
                 acts>>

\* pop_data: nothing there any more, or the packet is copied ...
WorkerCopy(w) ==
  /\ wpc[w] = "copy"
  /\ IF rcvq = <<>>
     THEN Goto(w, "unlock") /\ UNCHANGED mine
     ELSE Goto(w, "move") /\ mine' = [mine EXCEPT ![w] = Head(rcvq)]
  /\ UNCHANGED <<connVars, rcvq, sndq, rlock, crashes, handled, lost, made,
                 acts>>

\* ... and the read index moves
WorkerMove(w) ==
  /\ wpc[w] = "move"
  /\ rcvq' = IF rcvq = <<>> THEN rcvq ELSE Tail(rcvq)
  /\ Goto(w, "unlock")
  /\ UNCHANGED <<connVars, sndq, rlock, mine, crashes, handled, lost, made,
                 acts>>

WorkerUnlock(w) ==
  /\ wpc[w] = "unlock"
  /\ rlock' = NULL
  /\ Goto(w, IF mine[w] = NULL THEN "check" ELSE "process")
  /\ UNCHANGED <<connVars, rcvq, sndq, mine, crashes, handled, lost, made,
                 acts>>

\* what handle_process comes to: no reply, a reply, or the client is to be
\* closed; or it calls close_connection with a negative id
Answer(r) ==
  {<<>>}
  \union {<<[type |-> t, id |-> r.id, client |-> r.client, life |-> r.life]>> :
            t \in {"DAT", "FIN"}}
  \union {<<[type |-> "FIN", id |-> Negative, client |-> r.client,
             life |-> r.life]>>}

\* a block that finds no room is logged and dropped
WorkerProcess(w) ==
  /\ wpc[w] = "process"
  /\ \E a \in Answer(mine[w]) :
       sndq' = IF Len(sndq) + Len(a) > SndLen THEN sndq ELSE sndq \o a
  /\ handled' = Append(handled, mine[w].seq)
  /\ mine' = [mine EXCEPT ![w] = NULL]
  /\ Goto(w, "check")
  /\ UNCHANGED <<connVars, rcvq, rlock, crashes, lost, made, acts>>

Holding == {"copy", "move", "unlock"}
HasPacket(w) == mine[w] # NULL /\ wpc[w] \in {"unlock", "process"}

WorkerCrash(w) ==
  /\ wpc[w] # "dead"
  /\ crashes < MaxCrash
  /\ wpc[w] \in Holding => CrashInside
  /\ crashes' = crashes + 1
  /\ lost' = IF HasPacket(w) THEN lost \union {mine[w].seq} ELSE lost
  /\ mine' = [mine EXCEPT ![w] = NULL]
  /\ Goto(w, "dead")
  /\ UNCHANGED <<connVars, rcvq, sndq, rlock, handled, made, acts>>

-----------------------------------------------------------------------------
(* Main process *)

\* spawn_net_proc: a new net_io_server, with ids from 1, on the old queues
MainRebootNet ==
  /\ ~up
  /\ up' = TRUE
  /\ m_id' = 1
  /\ life' = life + 1
  /\ UNCHANGED <<conn, connects, rcvq, sndq, workVars, made, acts>>

\* spawn_work_proc; in this mode there is nothing to clean
MainRebootWorker(w) ==
  /\ wpc[w] = "dead"
  /\ Goto(w, "check")
  /\ UNCHANGED <<connVars, rcvq, sndq, rlock, mine, crashes, handled, lost,
                 made, acts>>

WorkerStep(w) ==
  \/ WorkerCheck(w) \/ WorkerLock(w) \/ WorkerCopy(w) \/ WorkerMove(w)
  \/ WorkerUnlock(w) \/ WorkerProcess(w)

Main == MainRebootNet \/ \E w \in Workers : MainRebootWorker(w)

Next ==
  \/ Accept \/ NetPop \/ NetCrash \/ Main
  \/ \E i \in Ids : HangUp(i) \/ Receive(i)
  \/ \E w \in Workers : WorkerStep(w) \/ WorkerCrash(w)

Spec == Init /\ [][Next]_vars

(***************************************************************************)
(* Processes that live go on, and main restarts the others; clients owe    *)
(* nothing.                                                                *)
(***************************************************************************)
LiveSpec ==
  /\ Spec
  /\ WF_vars(NetPop) /\ WF_vars(MainRebootNet)
  /\ \A w \in Workers : WF_vars(WorkerStep(w)) /\ WF_vars(MainRebootWorker(w))

-----------------------------------------------------------------------------
TypeOK ==
  /\ conn \in [Ids -> Clients \union {NULL}]
  /\ m_id \in 1 .. connects + 1 /\ connects \in 0 .. MaxClient
  /\ up \in BOOLEAN
  /\ rcvq \in Seq(Requests) /\ Len(rcvq) <= RcvLen
  /\ sndq \in Seq(Blocks) /\ Len(sndq) <= SndLen
  /\ rlock \in Workers \union {NULL}
  /\ wpc \in [Workers -> {"check", "lock", "copy", "move", "unlock",
                          "process", "dead"}]
  /\ mine \in [Workers -> Requests \union {NULL}]
  /\ made \in 0 .. MaxSend /\ crashes \in 0 .. MaxCrash
  /\ life \in 0 .. MaxNetCrash
  /\ handled \in Seq(1 .. MaxSend) /\ lost \subseteq 1 .. MaxSend
  /\ acts \subseteq [type : {"DAT", "FIN"}, to : Clients, owner : Clients,
                     same : BOOLEAN]

(***************************************************************************)
(* Each packet is in one place: still in the queue, with one worker,       *)
(* handled once, or lost with the worker that had it.  Workers that see    *)
(* the same packet before the lock do not get it twice, and a restart of   *)
(* any process neither repeats nor skips one.                              *)
(***************************************************************************)
InOnePlace ==
  \A s \in 1 .. made :
      Cardinality({i \in DOMAIN rcvq : rcvq[i].seq = s})
    + Cardinality({w \in Workers : HasPacket(w) /\ mine[w].seq = s})
    + Cardinality({i \in DOMAIN handled : handled[i] = s})
    + Cardinality({s} \intersect lost) = 1

(***************************************************************************)
(* The queues keep to their limits, and each packet is in one place.       *)
(***************************************************************************)
Accounted == TypeOK /\ InOnePlace

(***************************************************************************)
(* What the net process does for a request it has received itself, it does *)
(* to the client that sent it, although that client may have gone and      *)
(* others have come.                                                       *)
(***************************************************************************)
OwnInOneLife == \A a \in acts : a.same => a.to = a.owner

(***************************************************************************)
(* newbench.wiki says that handle_process closes the client by a result    *)
(* other than 0, and answers it by what it returns: the client whose       *)
(* packet it was, whatever has been restarted meanwhile.                   *)
(***************************************************************************)
ActsOnOwn == \A a \in acts : a.to = a.owner

(***************************************************************************)
(* newbench_util.h says of close_connection's argument that a negative     *)
(* number means all connections.                                           *)
(***************************************************************************)
NegativeClosesAll ==
  [][NetPop /\ Head(sndq).id = Negative => \A i \in Ids : conn'[i] = NULL]_vars

Queued(s) == \E i \in DOMAIN rcvq : rcvq[i].seq = s
Dealt(s) == s \in Range(handled) \union lost

\* the worker that has g_rcv_rq_lock was killed with it
LockOrphaned ==
  crashes > 0 /\ rlock \in Workers /\ wpc[rlock] \notin Holding

(***************************************************************************)
(* newbench.wiki says that handle_process is called when there is a        *)
(* complete packet: each packet in the queue is handled, or was handed to  *)
(* a worker that died.                                                     *)
(***************************************************************************)
EveryRequestHandled == \A s \in 1 .. MaxSend : Queued(s) ~> Dealt(s)

(***************************************************************************)
(* The same, with the one exception the code has: a worker killed while it *)
(* holds g_rcv_rq_lock stops all of them.                                  *)
(***************************************************************************)
HandledUnlessOrphaned ==
  \A s \in 1 .. MaxSend : Queued(s) ~> Dealt(s) \/ LockOrphaned

(***************************************************************************)
(* The send queue is emptied again and again, with net processes killed    *)
(* at any time.                                                            *)
(***************************************************************************)
RepliesLeave == []<>(sndq = <<>>)

(***************************************************************************)
(* The server goes on in both directions, whoever is killed.               *)
(***************************************************************************)
ServerGoesOn == HandledUnlessOrphaned /\ RepliesLeave
=============================================================================
