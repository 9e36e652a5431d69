----------------------------- MODULE NetIoServer -----------------------------
(***************************************************************************)
(* The connections of net_io_server in the net process: accepted and given *)
(* an id, found again by that id for the blocks of the work processes, and *)
(* by a pointer for the events of epoll.  One round of the net process     *)
(* takes the events from epoll_wait, empties the send queue (on_wakeup),   *)
(* handles the events, and empties the send queue again.                   *)
(*                                                                         *)
(* A connection is a node of m_id_conn_map, at an address.  A node that is *)
(* erased keeps its bytes until its address is given to another one, and   *)
(* reading through a pointer to it finds whichever of the two is there.    *)
(* Bytes, buffers and the wake-up are in RecvBuffer, SendBuffer, ReplyPath.*)
(***************************************************************************)
EXTENDS NodeLists, SequencesExt

CONSTANTS
  MaxClient,    \* bound: clients that connect, numbered in that order
  MaxSend,      \* bound: requests all clients send
  FdNum,        \* descriptors the process may have for connections
  NodeNum,      \* addresses of nodes of m_id_conn_map
  IdNum         \* ids genereate_id goes through before it starts again

ASSUME ServerAssumption ==
  /\ {MaxClient, MaxSend} \subseteq Nat
  /\ {FdNum, NodeNum, IdNum} \subseteq Nat \ {0}

Clients == 1 .. MaxClient
Fds == 1 .. FdNum
Nodes == 1 .. NodeNum
Ids == 1 .. IdNum

\* data.ptr of the listening socket and of the notifier, and "no such thing"
Listen == 0
Notify == -1
None == 0

VARIABLES
  state,        \* of each client: "off", "backlog", "conn", "gone"
  unread,       \* has the server's socket of a client bytes to read
  hup,          \* has the client closed
  rdlist,       \* what epoll_wait will return: clients and Listen
  conn,         \* m_id_conn_map: the node of each id, or None
  mem,          \* what is in memory at each node's address
  fdOf,         \* the client of each descriptor, or None
  m_id,
  runout,       \* NET_IO_SERVER_FLAG_RUNOUT
  pc,           \* where the net process stands
  events,       \* m_events_ from the current one on
  first,        \* the current event is the first of its round
  reqs,         \* the requests work processes have
  sndq,         \* g_psnd_rq
  cb,           \* history: callbacks of each client, "none", "open", ...
  connects, sends

peerVars == <<state, unread, hup>>
connVars == <<peerVars, rdlist, conn, fdOf, cb>>
ioVars == <<pc, events, first>>
workVars == <<reqs, sndq>>
boundVars == <<connects, sends>>
vars == <<peerVars, rdlist, conn, mem, fdOf, m_id, runout, ioVars, workVars,
          cb, boundVars>>

Live == {conn[i] : i \in Ids} \ {None}
Backlog == {c \in Clients : state[c] = "backlog"}
FreeFds == {f \in Fds : fdOf[f] = None}

Init ==
  /\ state = [c \in Clients |-> "off"]
  /\ unread = [c \in Clients |-> FALSE]
  /\ hup = [c \in Clients |-> FALSE]
  /\ rdlist = <<>>
  /\ conn = [i \in Ids |-> None]
  /\ mem = [n \in Nodes |-> [id |-> 1, fd |-> 1, client |-> None]]
  /\ fdOf = [f \in Fds |-> None]
  /\ m_id = 1
  /\ runout = FALSE
  /\ pc = "wait"
  /\ events = <<>>
  /\ first = FALSE
  /\ reqs = {}
  /\ sndq = <<>>
  /\ cb = [c \in Clients |-> "none"]
  /\ connects = 0
  /\ sends = 0

\* an item becomes ready, once
Ready(item) == IF item \in Range(rdlist) THEN rdlist ELSE Append(rdlist, item)

-----------------------------------------------------------------------------
(* Clients *)

Connect ==
  /\ connects < MaxClient
  /\ connects' = connects + 1
  /\ state' = [state EXCEPT ![connects'] = "backlog"]
  /\ rdlist' = Ready(Listen)
  /\ UNCHANGED <<unread, hup, conn, mem, fdOf, m_id, runout, ioVars, workVars,
                 cb, sends>>

Send(c) ==
  /\ state[c] \in {"backlog", "conn"} /\ ~hup[c]
  /\ sends < MaxSend
  /\ sends' = sends + 1
  /\ unread' = [unread EXCEPT ![c] = TRUE]
  /\ rdlist' = IF state[c] = "conn" THEN Ready(c) ELSE rdlist
  /\ UNCHANGED <<state, hup, conn, mem, fdOf, m_id, runout, ioVars, workVars,
                 cb, connects>>

HangUp(c) ==
  /\ state[c] \in {"backlog", "conn"} /\ ~hup[c]
  /\ hup' = [hup EXCEPT ![c] = TRUE]
  /\ rdlist' = IF state[c] = "conn" THEN Ready(c) ELSE rdlist
  /\ UNCHANGED <<state, unread, conn, mem, fdOf, m_id, runout, ioVars,
                 workVars, cb, boundVars>>

-----------------------------------------------------------------------------
(* Work processes, as the net process sees them; a request may stay for ever *)

WorkerPush(r, type) ==
  /\ reqs' = reqs \ {r}
  /\ sndq' = Append(sndq, [type |-> type, id |-> r.id, ptr |-> r.ptr,
                           owner |-> r.owner])
  /\ UNCHANGED <<peerVars, rdlist, conn, mem, fdOf, m_id, runout, ioVars, cb, boundVars>>

WorkerReply(r) == WorkerPush(r, "DAT")
WorkerFails(r) == WorkerPush(r, "FIN")

-----------------------------------------------------------------------------
(* close_connection *)

Callback(c) == IF cb[c] = "open" THEN "closed" ELSE "wrong"

\* variant: the node is not erased
CloseKeepsNode(id) ==
  IF conn[id] = None THEN UNCHANGED connVars
  ELSE LET m == mem[conn[id]] IN
       /\ cb' = [cb EXCEPT ![m.client] = Callback(m.client)]
       /\ state' = [state EXCEPT ![m.client] = "gone"]
       /\ unread' = [unread EXCEPT ![m.client] = FALSE]
       /\ hup' = [hup EXCEPT ![m.client] = FALSE]
       /\ fdOf' = [fdOf EXCEPT ![m.fd] = None]
       /\ rdlist' = Without(rdlist, {m.client})
       /\ UNCHANGED conn

close_connection(id) ==
  IF conn[id] = None THEN UNCHANGED connVars
  ELSE LET m == mem[conn[id]] IN
       /\ cb' = [cb EXCEPT ![m.client] = Callback(m.client)]
       /\ state' = [state EXCEPT ![m.client] = "gone"]
       /\ unread' = [unread EXCEPT ![m.client] = FALSE]
       /\ hup' = [hup EXCEPT ![m.client] = FALSE]
       /\ fdOf' = [fdOf EXCEPT ![m.fd] = None]
       /\ rdlist' = Without(rdlist, {m.client})
       /\ conn' = [conn EXCEPT ![id] = None]

-----------------------------------------------------------------------------
(* The round of the net process *)

NodeOf(c) == CHOOSE n \in Live : mem[n].client = c

\* epoll asks each socket again what there is to report
Event(item) ==
  IF item \in Clients
  THEN [ptr |-> NodeOf(item),
        kind |-> IF hup[item] THEN "hup"
                 ELSE IF unread[item] THEN "in" ELSE "out"]
  ELSE [ptr |-> item, kind |-> "in"]

\* the notifier's event, which makes no difference here but when it comes
\* first and RUNOUT is set
Wait ==
  /\ pc = "wait"
  /\ \E note \in {<<>>, <<[ptr |-> Notify, kind |-> "in"]>>} :
       /\ note # <<>> => runout
       /\ events' = note \o [k \in DOMAIN rdlist |-> Event(rdlist[k])]
  /\ rdlist' = <<>>
  /\ first' = TRUE
  /\ pc' = "wakeup"
  /\ UNCHANGED <<peerVars, conn, mem, fdOf, m_id, runout, workVars, cb, boundVars>>

\* pop_data of on_wakeup and of net_proc; a block for an unknown id is dropped
Popped ==
  /\ pc \in {"wakeup", "drain"}
  /\ sndq # <<>>
  /\ sndq' = Tail(sndq)
  /\ UNCHANGED <<mem, m_id, runout, ioVars, reqs, boundVars>>

PopFin ==
  /\ Popped
  /\ Head(sndq).type = "FIN"
  /\ close_connection(Head(sndq).id)

\* send_data succeeds; the storage goes back through ptr_lookout
PopReply ==
  /\ Popped
  /\ Head(sndq).type = "DAT"
  /\ conn[Head(sndq).id] # None
  /\ UNCHANGED connVars

\* send_data fails, for a broken connection or an unknown id
PopSendFails ==
  /\ Popped
  /\ Head(sndq).type = "DAT"
  /\ close_connection(Head(sndq).id)

\* variant: the flag is not looked at
AtEventNoRetry(evs, fst, ro) ==
  IF evs = <<>> THEN "drain"
  ELSE IF Head(evs).ptr = Listen THEN "accept" ELSE "handle"

\* what is next: the accept loop for the listening socket's event, and for the
\* first event of a round while RUNOUT is set
AtEvent(evs, fst, ro) ==
  IF evs = <<>> THEN "drain"
  ELSE IF Head(evs).ptr = Listen \/ (fst /\ ro) THEN "accept" ELSE "handle"

PopDone ==
  /\ pc \in {"wakeup", "drain"}
  /\ sndq = <<>>
  /\ pc' = IF pc = "wakeup" THEN AtEvent(events, first, runout) ELSE "wait"
  /\ UNCHANGED <<peerVars, rdlist, conn, mem, fdOf, m_id, runout, events,
                 first, workVars, cb, boundVars>>

-----------------------------------------------------------------------------
(* The accept loop *)

\* variant: ids start again one too early
IdBaseEarly == IF m_id >= IdNum - 1 THEN 1 ELSE m_id + 1

genereate_id == IF m_id = IdNum THEN 1 ELSE m_id + 1

Accepting(c) ==
  /\ pc = "accept"
  /\ c \in Backlog /\ \A d \in Backlog : c <= d
  /\ FreeFds # {}
  /\ m_id' = genereate_id
  /\ UNCHANGED <<runout, ioVars, workVars, boundVars>>

\* the socket is closed again, with what it has received
Dropped(c) ==
  /\ state' = [state EXCEPT ![c] = "gone"]
  /\ unread' = [unread EXCEPT ![c] = FALSE]
  /\ hup' = [hup EXCEPT ![c] = FALSE]
  /\ UNCHANGED <<rdlist, conn, fdOf>>

\* on_new_connection refuses
AcceptRefused(c) ==
  /\ Accepting(c)
  /\ Dropped(c)
  /\ UNCHANGED <<mem, cb>>

\* variant: the descriptor is not set
NewNodeNoFd(n, c, f) == [id |-> m_id, fd |-> mem[n].fd, client |-> c]

\* m_conn_info, as it is copied into the map
NewNode(n, c, f) == [id |-> m_id, fd |-> f, client |-> c]

\* the node goes into the map and the socket to epoll, which has EPOLLOUT at
\* once to report
Insert(c) ==
  /\ \E n \in Nodes \ Live, f \in FreeFds :
       /\ \A g \in FreeFds : f <= g
       /\ conn' = [conn EXCEPT ![m_id] = n]
       /\ mem' = [mem EXCEPT ![n] = NewNode(n, c, f)]
       /\ fdOf' = [fdOf EXCEPT ![f] = c]
  /\ state' = [state EXCEPT ![c] = "conn"]
  /\ rdlist' = Ready(c)
  /\ cb' = [cb EXCEPT ![c] = "open"]
  /\ UNCHANGED <<unread, hup>>

AcceptOk(c) ==
  /\ Accepting(c)
  /\ conn[m_id] = None
  /\ Insert(c)

\* epoll_ctl fails: the node is erased again, the callbacks have been called
AcceptCtlFails(c) ==
  /\ Accepting(c)
  /\ conn[m_id] = None
  /\ \E n \in Nodes \ Live, f \in FreeFds :
       /\ \A g \in FreeFds : f <= g
       /\ mem' = [mem EXCEPT ![n] = NewNode(n, c, f)]
  /\ Dropped(c)
  /\ cb' = [cb EXCEPT ![c] = "closed"]

\* variant: the new node replaces the one the map has for the id
AcceptReplaces(c) ==
  /\ Accepting(c)
  /\ conn[m_id] # None
  /\ Insert(c)

\* the map has the id still: opened and closed again
AcceptConflict(c) ==
  /\ Accepting(c)
  /\ conn[m_id] # None
  /\ Dropped(c)
  /\ cb' = [cb EXCEPT ![c] = "closed"]
  /\ UNCHANGED mem

\* variant: RUNOUT is never set
AcceptDoneForgets ==
  /\ pc = "accept"
  /\ Backlog = {} \/ FreeFds = {}
  /\ runout' = FALSE
  /\ pc' = "handle"
  /\ UNCHANGED <<peerVars, rdlist, conn, mem, fdOf, m_id, events, first,
                 workVars, cb, boundVars>>

\* EAGAIN, or no descriptor left, which accept finds first: the flag says which
AcceptDone ==
  /\ pc = "accept"
  /\ Backlog = {} \/ FreeFds = {}
  /\ runout' = (FreeFds = {})
  /\ pc' = "handle"
  /\ UNCHANGED <<peerVars, rdlist, conn, mem, fdOf, m_id, events, first,
                 workVars, cb, boundVars>>

-----------------------------------------------------------------------------
(* The events *)

Handling(kinds) ==
  /\ pc = "handle"
  /\ Head(events).kind \in kinds
  /\ events' = Tail(events)
  /\ first' = FALSE
  /\ pc' = AtEvent(Tail(events), FALSE, runout)
  /\ UNCHANGED <<mem, m_id, runout, sndq, boundVars>>

\* the listening socket, the notifier, or EPOLLOUT with nothing left to send or
\* sent as far as it goes
HandleOther ==
  /\ Handling({"in", "out"})
  /\ Head(events).ptr \in {Listen, Notify} \/ Head(events).kind = "out"
  /\ UNCHANGED <<connVars, reqs>>

HandleHup ==
  /\ Handling({"hup"})
  /\ close_connection(mem[Head(events).ptr].id)
  /\ UNCHANGED reqs

\* the connection the pointer leads to, and the client at its descriptor
Here == mem[Head(events).ptr]
There == fdOf[Here.fd]

\* recv_data reads the bytes and on_recv_data pushes a request; EPOLLOUT of the
\* same event is looked at next
HandleRead ==
  /\ pc = "handle"
  /\ Head(events).kind = "in"
  /\ Head(events).ptr \notin {Listen, Notify}
  /\ There # None
  /\ unread[There] /\ ~hup[There]
  /\ unread' = [unread EXCEPT ![There] = FALSE]
  /\ reqs' = reqs \union {[id |-> Here.id, ptr |-> Head(events).ptr,
                           owner |-> Here.client, client |-> There]}
  /\ events' = [events EXCEPT ![1].kind = "out"]
  /\ first' = FALSE
  /\ UNCHANGED <<state, hup, rdlist, conn, mem, fdOf, m_id, runout, pc, sndq,
                 cb, boundVars>>

\* recv returns 0 or fails, or on_recv_data does: the bytes are lost; or there
\* are bytes to send and send_data fails
HandleIoFails ==
  /\ Handling({"in", "out"})
  /\ Head(events).ptr \notin {Listen, Notify}
  /\ close_connection(Here.id)
  /\ UNCHANGED reqs

NetStep ==
  \/ Wait \/ PopFin \/ PopReply \/ PopSendFails \/ PopDone
  \/ \E c \in Clients : \/ AcceptRefused(c) \/ AcceptOk(c)
                        \/ AcceptCtlFails(c) \/ AcceptConflict(c)
  \/ AcceptDone
  \/ HandleOther \/ HandleHup \/ HandleRead \/ HandleIoFails

Next ==
  \/ NetStep
  \/ Connect
  \/ \E c \in Clients : Send(c) \/ HangUp(c)
  \/ \E r \in reqs : WorkerReply(r) \/ WorkerFails(r)

Spec == Init /\ [][Next]_vars
LiveSpec == Spec /\ WF_vars(NetStep)

-----------------------------------------------------------------------------
Items == Clients \union {Listen}
Events == [ptr : Nodes \union {Listen, Notify}, kind : {"in", "out", "hup"}]
Requests == [id : Ids, ptr : Nodes, owner : Clients, client : Clients]
SndBlocks == [type : {"DAT", "FIN"}, id : Ids, ptr : Nodes, owner : Clients]

TypeOK ==
  /\ state \in [Clients -> {"off", "backlog", "conn", "gone"}]
  /\ unread \in [Clients -> BOOLEAN] /\ hup \in [Clients -> BOOLEAN]
  /\ rdlist \in Seq(Items)
  /\ conn \in [Ids -> Nodes \union {None}]
  /\ mem \in [Nodes -> [id : Ids, fd : Fds, client : Clients \union {None}]]
  /\ fdOf \in [Fds -> Clients \union {None}]
  /\ m_id \in Ids
  /\ runout \in BOOLEAN /\ first \in BOOLEAN
  /\ pc \in {"wait", "wakeup", "accept", "handle", "drain"}
  /\ events \in Seq(Events)
  /\ reqs \subseteq Requests
  /\ sndq \in Seq(SndBlocks)
  /\ cb \in [Clients -> {"none", "open", "closed", "wrong"}]
  /\ connects \in 0 .. MaxClient /\ sends \in 0 .. MaxSend

(***************************************************************************)
(* m_id_conn_map and the descriptors agree: each id leads to the node that *)
(* has that id, no two ids lead to one node, each descriptor in use is     *)
(* that of exactly one node, and no descriptor of a connection that is     *)
(* gone stays open.                                                        *)
(***************************************************************************)
MapConsistent ==
  /\ \A i \in Ids : conn[i] # None =>
       /\ mem[conn[i]].id = i
       /\ fdOf[mem[conn[i]].fd] = mem[conn[i]].client
       /\ state[mem[conn[i]].client] = "conn"
  /\ \A f \in Fds : fdOf[f] # None =>
       \E n \in Live : mem[n].fd = f /\ mem[n].client = fdOf[f]
  /\ \A c \in Clients : state[c] = "conn" => \E n \in Live : mem[n].client = c

(***************************************************************************)
(* handle_open and handle_close come in pairs: every connection handle_open*)
(* has admitted gets one handle_close, when it ends and not before, on     *)
(* every path that ends it, an id conflict included.                       *)
(***************************************************************************)
CallbacksPaired ==
  \A c \in Clients :
    /\ cb[c] # "wrong"
    /\ cb[c] = "open" <=> state[c] = "conn"
    /\ cb[c] = "closed" => state[c] = "gone"

(***************************************************************************)
(* A reply goes to the connection its request was attributed to, or to     *)
(* nobody, although only the number of that connection is known by then:   *)
(* another one can only get it when all ids have been given out once more  *)
(* in between.  The storage it may carry is that of the same connection.   *)
(***************************************************************************)
ReplyToOwn ==
  [][PopReply =>
       LET b == Head(sndq)
           to == mem[conn[b.id]].client
       IN  \/ to = b.owner /\ b.ptr = conn[b.id]
           \/ to - b.owner >= IdNum]_vars

(***************************************************************************)
(* A client that waits in the backlog is not forgotten: as the listening   *)
(* socket is edge triggered, its event is yet to come or RUNOUT is set.    *)
(***************************************************************************)
BacklogRemembered ==
  pc = "wait" /\ Backlog # {} => runout \/ Listen \in Range(rdlist)

(***************************************************************************)
(* RUNOUT makes up for the edge that is used up: when descriptors are free *)
(* again, all clients in the backlog are accepted or refused, provided     *)
(* that epoll goes on reporting events of any kind.  (Clients are finitely *)
(* many here, so a backlog that is emptied again and again keeps nobody.)  *)
(***************************************************************************)
BacklogServed ==
  []<>(first /\ events # <<>>) /\ <>[](FreeFds # {})
    => []<>(Backlog = {})

(***************************************************************************)
(* on_recv_data is told on which connection the bytes came in              *)
(* (newbench_io_event.cpp says of connection_id: "which connection ID the  *)
(* data was received on").                                                 *)
(***************************************************************************)
DataAttributed == \A r \in reqs : r.owner = r.client

(***************************************************************************)
(* What holds of that although on_wakeup closes connections whose events   *)
(* are in the array: bytes are never taken for those of another open       *)
(* connection.  Only a connection that is gone already may get them.       *)
(***************************************************************************)
OwnDataOnly ==
  [][\A r \in reqs' \ reqs : r.owner = r.client \/ state[r.owner] # "conn"]_vars
=============================================================================
