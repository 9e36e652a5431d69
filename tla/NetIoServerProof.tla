-------------------------- MODULE NetIoServerProof --------------------------
(***************************************************************************)
(* The connection table of net_io_server, for any number of clients,       *)
(* requests, descriptors, addresses and ids.                               *)
(***************************************************************************)
EXTENDS NetIoServer, NodeListsProof

\* not accepted yet
Waiting(c) == state[c] \in {"off", "backlog"}

\* clients are accepted in the order they come
InOrder ==
  /\ \A c \in Clients : state[c] = "off" <=> c > connects
  /\ \A c, d \in Clients : c < d /\ Waiting(c) => Waiting(d)

\* ids go round with the clients: the next one gets the next id
NextId ==
  \A c \in Clients :
    Waiting(c) /\ (\A d \in Clients : d < c => ~Waiting(d))
      => \E q \in Nat : c = q * IdNum + m_id

(***************************************************************************)
(* What is left of a connection that got an id and an address: the id is   *)
(* the one its number gives, whoever has the id now is not older, and the  *)
(* address is right as long as the connection lives.                       *)
(***************************************************************************)
Known(id, owner, ptr) ==
  /\ ~Waiting(owner)
  /\ \E q \in Nat : owner = q * IdNum + id
  /\ conn[id] # None => mem[conn[id]].client >= owner
  /\ state[owner] = "conn" => conn[id] = ptr /\ mem[ptr].client = owner

\* nodes that have been erased and not been used again included
NodesKnown ==
  \A n \in Nodes : mem[n].client # None => Known(mem[n].id, mem[n].client, n)

NodesApart ==
  \A m, n \in Nodes :
    mem[m].client # None /\ mem[m].client = mem[n].client => m = n

NodesReal == \A n \in Live : mem[n].client # None

BlocksKnown ==
  /\ \A r \in reqs : Known(r.id, r.owner, r.ptr)
  /\ \A b \in Range(sndq) : Known(b.id, b.owner, b.ptr)

\* epoll knows open sockets only
RdLive == \A x \in Range(rdlist) : x \in Clients => state[x] = "conn"

\* an event points at what is, or has been, a node of the map
EventsReal ==
  /\ \A e \in Range(events) : e.ptr \in Nodes => mem[e.ptr].client # None
  /\ \A e \in Range(events) : e.kind # "in" => e.ptr \in Nodes
  /\ pc \in {"accept", "handle"} => events # <<>>

\* the event that is being handled has had its accept loop
BacklogKnown ==
  Backlog # {} =>
    \/ runout \/ Listen \in Range(rdlist) \/ pc = "accept"
    \/ pc = "wakeup" /\ \E k \in 1 .. Len(events) : events[k].ptr = Listen
    \/ pc = "handle" /\ \E k \in 2 .. Len(events) : events[k].ptr = Listen

coreVars == <<state, conn, mem, fdOf, m_id, cb, connects>>
Core ==
  /\ NodesKnown /\ NodesApart /\ NodesReal
  /\ MapConsistent /\ CallbacksPaired
  /\ InOrder /\ NextId

Inv == TypeOK /\ Core /\ RdLive /\ EventsReal /\ BlocksKnown /\ BacklogKnown

USE DEF peerVars, connVars, ioVars, workVars, boundVars

-----------------------------------------------------------------------------
\* What the numbers chosen for pointers and clients are not.
LEMMA Distinct ==
  /\ None \notin Clients /\ None \notin Nodes
  /\ Listen \notin Clients /\ Listen \notin Nodes
  /\ Notify \notin Clients /\ Notify \notin Nodes /\ Notify # Listen
  /\ 1 \in Ids /\ 1 \in Fds
  /\ Clients \subseteq Nat
BY ServerAssumption DEF None, Listen, Notify, Clients, Nodes, Ids, Fds

\* What becomes ready is added to the list, once.
LEMMA ReadyProps ==
  ASSUME TypeOK, NEW x \in Items
  PROVE  Ready(x) \in Seq(Items) /\ Range(Ready(x)) = Range(rdlist) \union {x}
<1>1. rdlist \in Seq(Items) BY DEF TypeOK
<1> QED BY <1>1, AppendProps DEF Ready

\* An id is found at one node only.
LEMMA LiveUnique ==
  ASSUME TypeOK, Core, NEW i \in Ids, NEW j \in Ids,
         conn[i] # None, conn[i] = conn[j]
  PROVE  i = j
BY DEF Core, MapConsistent

\* What is known of an open connection.
LEMMA OpenFacts ==
  ASSUME TypeOK, Core, NEW id \in Ids, conn[id] # None
  PROVE  LET n == conn[id] IN
         /\ n \in Nodes /\ n \in Live
         /\ mem[n].id = id
         /\ mem[n].client \in Clients /\ mem[n].fd \in Fds
         /\ state[mem[n].client] = "conn"
         /\ fdOf[mem[n].fd] = mem[n].client
<1> DEFINE n == conn[id]
<1>1. n \in Nodes /\ n \in Live BY DEF TypeOK, Live
<1>2. mem[n].client # None BY <1>1 DEF Core, NodesReal
<1>3. mem[n] \in [id : Ids, fd : Fds, client : Clients \union {None}]
  BY <1>1 DEF TypeOK
<1> QED BY <1>1, <1>2, <1>3 DEF Core, MapConsistent

-----------------------------------------------------------------------------
(* close_connection *)

\* Which connections are left.
LEMMA CloseFacts ==
  ASSUME TypeOK, Core, NEW id \in Ids, conn[id] # None, close_connection(id),
         mem' = mem
  PROVE  LET n == conn[id]
             c == mem[n].client
         IN
         /\ conn' = [conn EXCEPT ![id] = None]
         /\ state' = [state EXCEPT ![c] = "gone"]
         /\ unread' = [unread EXCEPT ![c] = FALSE]
         /\ hup' = [hup EXCEPT ![c] = FALSE]
         /\ fdOf' = [fdOf EXCEPT ![mem[n].fd] = None]
         /\ cb' = [cb EXCEPT ![c] = "closed"]
         /\ rdlist' \in Seq(Items)
         /\ Range(rdlist') = Range(rdlist) \ {c}
         /\ Live' = Live \ {n}
<1> DEFINE n == conn[id]
           c == mem[n].client
<1>1. /\ n \in Nodes /\ n \in Live /\ mem[n].id = id
      /\ c \in Clients /\ state[c] = "conn"
  BY OpenFacts
<1>2. cb[c] = "open" BY <1>1 DEF Core, CallbacksPaired
<1>3. rdlist' = Without(rdlist, {c}) BY DEF close_connection
<1>4. rdlist' \in Seq(Items) /\ Range(rdlist') = Range(rdlist) \ {c}
  <2>1. rdlist \in Seq(Items) BY DEF TypeOK
  <2> QED BY <1>3, <2>1, WithoutProperties
<1>5. conn' = [conn EXCEPT ![id] = None] /\ conn \in [Ids -> Nodes \union {None}]
  BY DEF close_connection, TypeOK
<1>6. Live' = Live \ {n}
  <2>1. \A i \in Ids : conn[i] = n => i = id
    BY LiveUnique
  <2>2. \A i \in Ids : i # id => conn'[i] = conn[i]
    BY <1>5
  <2>3. conn'[id] = None BY <1>5
  <2> QED BY <2>1, <2>2, <2>3 DEF Live
<1> QED BY <1>2, <1>4, <1>5, <1>6 DEF close_connection, Callback

\* Closing keeps the table consistent, and what is known of connections.
LEMMA CloseCore ==
  ASSUME TypeOK, Core, NEW id \in Ids, close_connection(id),
         UNCHANGED <<mem, m_id, connects>>
  PROVE  /\ Core'
         /\ \A i \in Ids, o \in Clients, p \in Nodes :
              Known(i, o, p) => Known(i, o, p)'
<1>1. CASE conn[id] = None
  BY <1>1 DEF close_connection, Core, NodesKnown, NodesApart, NodesReal,
       MapConsistent, CallbacksPaired, InOrder, NextId, Known, Waiting, Live
<1>2. CASE conn[id] # None
  <2> DEFINE n == conn[id]
             c == mem[n].client
             f == mem[n].fd
  <2>1. /\ n \in Nodes /\ n \in Live /\ mem[n].id = id
        /\ c \in Clients /\ f \in Fds
        /\ state[c] = "conn" /\ fdOf[f] = c
    BY <1>2, OpenFacts
  <2>2. /\ conn' = [conn EXCEPT ![id] = None]
        /\ state' = [state EXCEPT ![c] = "gone"]
        /\ fdOf' = [fdOf EXCEPT ![f] = None]
        /\ cb' = [cb EXCEPT ![c] = "closed"]
        /\ Live' = Live \ {n}
    BY <1>2, CloseFacts
  <2>3. /\ conn \in [Ids -> Nodes \union {None}]
        /\ state \in [Clients -> {"off", "backlog", "conn", "gone"}]
        /\ fdOf \in [Fds -> Clients \union {None}]
        /\ cb \in [Clients -> {"none", "open", "closed", "wrong"}]
        /\ \A m \in Nodes : mem[m].id \in Ids /\ mem[m].fd \in Fds
                         /\ mem[m].client \in Clients \union {None}
    BY DEF TypeOK
  <2>4. \A m \in Live : m # n => mem[m].client # c /\ mem[m].fd # f
    <3> SUFFICES ASSUME NEW m \in Live, m # n
                 PROVE  mem[m].client # c /\ mem[m].fd # f
      OBVIOUS
    <3>1. PICK i \in Ids : conn[i] = m /\ m # None BY DEF Live
    <3>2. m \in Nodes /\ fdOf[mem[m].fd] = mem[m].client BY <3>1, OpenFacts
    <3>3. mem[m].client # c
      BY <2>1, <3>2, Distinct DEF Core, NodesApart
    <3> QED BY <2>1, <3>2, <3>3
  <2> HIDE DEF n, c, f
  <2>5. Waiting(c) = FALSE /\ \A d \in Clients : Waiting(d)' = Waiting(d)
    BY <2>1, <2>2, <2>3 DEF Waiting
  <2>6. \A i \in Ids, o \in Clients, p \in Nodes :
          Known(i, o, p) => Known(i, o, p)'
    <3> SUFFICES ASSUME NEW i \in Ids, NEW o \in Clients, NEW p \in Nodes,
                        Known(i, o, p)
                 PROVE  Known(i, o, p)'
      OBVIOUS
    <3>1. ~Waiting(o)' BY <2>5 DEF Known
    <3>2. \E q \in Nat : o = q * IdNum + i BY DEF Known
    <3>3. conn'[i] # None => mem[conn'[i]].client >= o
      BY <2>2, <2>3 DEF Known
    <3>4. state'[o] = "conn" => conn'[i] = p /\ mem[p].client = o
      BY <2>1, <2>2, <2>3 DEF Known, n, c
    <3> QED BY <3>1, <3>2, <3>3, <3>4 DEF Known
  <2>7. NodesKnown' BY <2>3, <2>6 DEF Core, NodesKnown
  <2>8. NodesApart' /\ NodesReal'
    BY <2>2 DEF Core, NodesApart, NodesReal
  <2>9. MapConsistent'
    <3>1. ASSUME NEW i \in Ids, conn'[i] # None
          PROVE  /\ mem[conn'[i]].id = i
                 /\ fdOf'[mem[conn'[i]].fd] = mem[conn'[i]].client
                 /\ state'[mem[conn'[i]].client] = "conn"
      <4>1. i # id /\ conn'[i] = conn[i] /\ conn[i] # None
        BY <2>2, <2>3, <3>1
      <4>2. conn[i] \in Live /\ conn[i] # n
        BY <4>1, <2>1, LiveUnique DEF Live, n
      <4>3. mem[conn[i]].client # c /\ mem[conn[i]].fd # f
        BY <4>2, <2>4
      <4>4. /\ mem[conn[i]].client \in Clients /\ mem[conn[i]].fd \in Fds
            /\ mem[conn[i]].id = i
            /\ state[mem[conn[i]].client] = "conn"
            /\ fdOf[mem[conn[i]].fd] = mem[conn[i]].client
        BY <4>1, OpenFacts
      <4> QED BY <2>2, <2>3, <4>1, <4>3, <4>4
    <3>2. ASSUME NEW g \in Fds, fdOf'[g] # None
          PROVE  \E m \in Live' : mem[m].fd = g /\ mem[m].client = fdOf'[g]
      <4>1. g # f /\ fdOf'[g] = fdOf[g] BY <2>1, <2>2, <2>3, <3>2
      <4>2. PICK m \in Live : mem[m].fd = g /\ mem[m].client = fdOf[g]
        BY <4>1, <3>2 DEF Core, MapConsistent
      <4> QED BY <2>2, <4>1, <4>2 DEF f
    <3>3. ASSUME NEW d \in Clients, state'[d] = "conn"
          PROVE  \E m \in Live' : mem[m].client = d
      <4>1. d # c /\ state[d] = "conn" BY <2>1, <2>2, <2>3, <3>3
      <4>2. PICK m \in Live : mem[m].client = d
        BY <4>1 DEF Core, MapConsistent
      <4> QED BY <2>2, <4>1, <4>2 DEF c
    <3> QED BY <3>1, <3>2, <3>3 DEF MapConsistent
  <2>10. CallbacksPaired'
    BY <2>1, <2>2, <2>3 DEF Core, CallbacksPaired
  <2>11. InOrder'
    BY <2>1, <2>2, <2>3, <2>5 DEF Core, InOrder
  <2>12. NextId'
    BY <2>5 DEF Core, NextId
  <2> QED BY <2>6, <2>7, <2>8, <2>9, <2>10, <2>11, <2>12 DEF Core
<1> QED BY <1>1, <1>2

-----------------------------------------------------------------------------
(* The accept loop *)

\* The client that is accepted: the older ones have been, the others not.
LEMMA AcceptFacts ==
  ASSUME TypeOK, Core, NEW c \in Clients, Accepting(c)
  PROVE  /\ state[c] = "backlog" /\ Waiting(c)
         /\ \A d \in Clients : ~Waiting(d) <=> d < c
         /\ \E q \in Nat : c = q * IdNum + m_id
         /\ m_id' = IF m_id = IdNum THEN 1 ELSE m_id + 1
         /\ connects' = connects
<1>1. state[c] = "backlog" /\ \A d \in Clients : state[d] = "backlog" => c <= d
  BY DEF Accepting, Backlog
<1>2. c <= connects BY <1>1, Distinct DEF Core, InOrder, TypeOK
<1>3. \A d \in Clients : d < c => ~Waiting(d)
  BY <1>1, <1>2, Distinct DEF Core, InOrder, Waiting, TypeOK
<1>4. Waiting(c) BY <1>1 DEF Waiting
<1>5. \A d \in Clients : c < d => Waiting(d)
  BY <1>4 DEF Core, InOrder
<1>6. \E q \in Nat : c = q * IdNum + m_id
  BY <1>3, <1>4 DEF Core, NextId
<1> QED
  BY <1>1, <1>3, <1>4, <1>5, <1>6, Distinct DEF Accepting, genereate_id

\* One round of ids.
LEMMA NextRound ==
  ASSUME NEW q \in Nat, NEW N \in Nat
  PROVE  q + 1 \in Nat /\ q * N + N + 1 = (q + 1) * N + 1
OBVIOUS

\* The order of the clients and of the ids after one has been accepted.
LEMMA AcceptOrder ==
  ASSUME TypeOK, Core, NEW c \in Clients, Accepting(c),
         NEW s \in {"conn", "gone"}, state' = [state EXCEPT ![c] = s]
  PROVE  InOrder' /\ NextId'
<1>1. /\ state[c] = "backlog" /\ Waiting(c)
      /\ \A d \in Clients : ~Waiting(d) <=> d < c
      /\ m_id' = IF m_id = IdNum THEN 1 ELSE m_id + 1
      /\ connects' = connects
  BY AcceptFacts
<1>2. PICK q \in Nat : c = q * IdNum + m_id BY AcceptFacts
<1>3. state \in [Clients -> {"off", "backlog", "conn", "gone"}]
  BY DEF TypeOK
<1>4. \A d \in Clients : ~Waiting(d)' <=> d <= c
  BY <1>1, <1>3, Distinct DEF Waiting
<1>5. InOrder'
  <2>1. \A d \in Clients : state'[d] = "off" <=> d > connects'
    BY <1>1, <1>3 DEF Core, InOrder
  <2>2. \A d, e \in Clients : d < e /\ Waiting(d)' => Waiting(e)'
    BY <1>4, Distinct
  <2> QED BY <2>1, <2>2 DEF InOrder
<1>6. ASSUME NEW d \in Clients, Waiting(d)',
             \A e \in Clients : e < d => ~Waiting(e)'
      PROVE  \E r \in Nat : d = r * IdNum + m_id'
  <2>1. d > c BY <1>4, <1>6, Distinct
  <2>2. c + 1 \in Clients BY <2>1, ServerAssumption DEF Clients
  <2>3. ~(c + 1 < d) BY <1>4, <1>6, <2>2, Distinct
  <2>4. d = c + 1 BY <2>1, <2>3, Distinct
  <2>5. IdNum \in Nat /\ m_id \in Nat
    BY ServerAssumption DEF TypeOK, Ids
  <2>6. CASE m_id = IdNum
    <3>1. d = q * IdNum + IdNum + 1 BY <1>2, <2>4, <2>6
    <3>2. q + 1 \in Nat /\ d = (q + 1) * IdNum + 1
      BY <2>5, <3>1, NextRound
    <3> QED BY <1>1, <2>6, <3>2
  <2>7. CASE m_id # IdNum
    <3>1. q * IdNum \in Nat BY <2>5
    <3>2. d = q * IdNum + (m_id + 1) BY <1>2, <2>4, <2>5, <3>1
    <3> QED BY <1>1, <2>7, <3>2
  <2> QED BY <2>6, <2>7
<1> QED BY <1>5, <1>6 DEF NextId

\* Clients whose nodes are, or have been, in the map are older.
LEMMA OlderNodes ==
  ASSUME TypeOK, Core, NEW c \in Clients, Accepting(c), NEW m \in Nodes,
         mem[m].client # None
  PROVE  mem[m].client \in Clients /\ mem[m].client < c
<1>1. mem[m].client \in Clients BY DEF TypeOK
<1>2. ~Waiting(mem[m].client) BY DEF Core, NodesKnown, Known
<1> QED BY <1>1, <1>2, AcceptFacts

\* A new node is the only one of its client.
LEMMA NewNodeApart ==
  ASSUME TypeOK, Core, NEW c \in Clients, Accepting(c),
         NEW n \in Nodes \ Live, NEW f \in Fds,
         mem' = [mem EXCEPT ![n] = NewNode(n, c, f)]
  PROVE  /\ mem'[n] = [id |-> m_id, fd |-> f, client |-> c]
         /\ \A m \in Nodes : m # n => mem'[m] = mem[m]
         /\ NodesApart'
<1>1. /\ mem'[n] = [id |-> m_id, fd |-> f, client |-> c]
      /\ \A m \in Nodes : m # n => mem'[m] = mem[m]
  BY DEF TypeOK, NewNode
<1>2. \A m \in Nodes : m # n /\ mem[m].client # None => mem[m].client # c
  BY OlderNodes, Distinct
<1> QED BY <1>1, <1>2, Distinct DEF Core, NodesApart

\* A client that is dropped before it has a node changes nothing in the table.
LEMMA DroppedCore ==
  ASSUME TypeOK, Core, NEW c \in Clients, Accepting(c), Dropped(c),
         cb' = cb \/ cb' = [cb EXCEPT ![c] = "closed"], mem' = mem
  PROVE  /\ Core'
         /\ \A i \in Ids, o \in Clients, p \in Nodes :
              Known(i, o, p) => Known(i, o, p)'
<1>1. state[c] = "backlog" BY AcceptFacts
<1>2. state' = [state EXCEPT ![c] = "gone"] /\ UNCHANGED <<conn, fdOf>>
  BY DEF Dropped
<1>3. InOrder' /\ NextId' BY <1>2, AcceptOrder
<1>4. /\ state \in [Clients -> {"off", "backlog", "conn", "gone"}]
      /\ cb \in [Clients -> {"none", "open", "closed", "wrong"}]
      /\ \A m \in Nodes : mem[m].id \in Ids
                       /\ mem[m].client \in Clients \union {None}
  BY DEF TypeOK
<1>5. \A d \in Clients : state'[d] = "conn" <=> state[d] = "conn"
  BY <1>1, <1>2, <1>4
<1>6. \A i \in Ids, o \in Clients, p \in Nodes :
        Known(i, o, p) => Known(i, o, p)'
  BY <1>2, <1>4, <1>5 DEF Known, Waiting
<1>7. NodesKnown' BY <1>4, <1>6 DEF Core, NodesKnown
<1>8. NodesApart' /\ NodesReal'
  BY <1>2 DEF Core, NodesApart, NodesReal, Live
<1>9. MapConsistent'
  <2>1. Live' = Live BY <1>2 DEF Live
  <2>2. \A i \in Ids : conn[i] # None => mem[conn[i]].client \in Clients
    BY OpenFacts
  <2> QED BY <1>2, <1>5, <2>1, <2>2 DEF Core, MapConsistent
<1>10. CallbacksPaired'
  BY <1>1, <1>2, <1>4 DEF Core, CallbacksPaired
<1> QED BY <1>3, <1>6, <1>7, <1>8, <1>9, <1>10 DEF Core

\* When epoll_ctl fails, the node that was inserted is erased again.
LEMMA CtlFailsCore ==
  ASSUME TypeOK, Core, NEW c \in Clients, AcceptCtlFails(c)
  PROVE  /\ Core'
         /\ \A i \in Ids, o \in Clients, p \in Nodes :
              Known(i, o, p) => Known(i, o, p)'
<1>1. state[c] = "backlog" /\ \E q \in Nat : c = q * IdNum + m_id
  BY AcceptFacts DEF AcceptCtlFails
<1>2. /\ state' = [state EXCEPT ![c] = "gone"] /\ UNCHANGED <<conn, fdOf>>
      /\ cb' = [cb EXCEPT ![c] = "closed"]
      /\ Accepting(c) /\ conn[m_id] = None
  BY DEF AcceptCtlFails, Dropped
<1>3. PICK n \in Nodes \ Live, f \in FreeFds :
        mem' = [mem EXCEPT ![n] = NewNode(n, c, f)]
  BY DEF AcceptCtlFails
<1>4. /\ mem'[n] = [id |-> m_id, fd |-> f, client |-> c]
      /\ \A m \in Nodes : m # n => mem'[m] = mem[m]
      /\ NodesApart'
  BY <1>2, <1>3, NewNodeApart DEF FreeFds
<1>5. InOrder' /\ NextId' BY <1>2, AcceptOrder
<1>6. /\ state \in [Clients -> {"off", "backlog", "conn", "gone"}]
      /\ cb \in [Clients -> {"none", "open", "closed", "wrong"}]
      /\ conn \in [Ids -> Nodes \union {None}]
      /\ \A m \in Nodes : mem[m].id \in Ids
                       /\ mem[m].client \in Clients \union {None}
  BY DEF TypeOK
<1>7. \A d \in Clients : state'[d] = "conn" <=> state[d] = "conn"
  BY <1>1, <1>2, <1>6
<1>8. /\ Live' = Live
      /\ \A i \in Ids : conn[i] # None => conn[i] \in Live
      /\ \A m \in Live : m \in Nodes /\ mem'[m] = mem[m]
  BY <1>2, <1>4, <1>6 DEF Live
<1>9. \A i \in Ids, o \in Clients, p \in Nodes :
        Known(i, o, p) => Known(i, o, p)'
  <2> SUFFICES ASSUME NEW i \in Ids, NEW o \in Clients, NEW p \in Nodes,
                      Known(i, o, p)
               PROVE  Known(i, o, p)'
    OBVIOUS
  <2>1. ~Waiting(o)' BY <1>2, <1>6 DEF Known, Waiting
  <2>2. \E q \in Nat : o = q * IdNum + i BY DEF Known
  <2>3. conn'[i] # None => mem'[conn'[i]].client >= o
    BY <1>2, <1>8 DEF Known
  <2>4. state'[o] = "conn" => conn'[i] = p /\ mem'[p].client = o
    BY <1>2, <1>7, <1>8, Distinct DEF Known
  <2> QED BY <2>1, <2>2, <2>3, <2>4 DEF Known
<1>10. \A i \in Ids : i = m_id => Known(i, c, n)'
  BY <1>1, <1>2, <1>6 DEF Known, Waiting
<1>11. NodesKnown'
  <2> SUFFICES ASSUME NEW m \in Nodes, mem'[m].client # None
               PROVE  Known(mem[m].id, mem[m].client, m)'
    BY DEF NodesKnown
  <2>1. CASE m = n
    <3>1. mem'[m].id = m_id /\ mem'[m].client = c BY <1>4, <2>1
    <3>2. m_id \in Ids BY DEF TypeOK
    <3> QED BY <1>10, <2>1, <3>1, <3>2
  <2>2. CASE m # n
    <3>1. Known(mem[m].id, mem[m].client, m)
      BY <1>4, <2>2 DEF Core, NodesKnown
    <3>2. mem'[m] = mem[m] /\ mem[m].id \in Ids /\ mem[m].client \in Clients
      BY <1>4, <1>6, <2>2
    <3> QED BY <1>9, <3>1, <3>2
  <2> QED BY <2>1, <2>2
<1>12. NodesReal' BY <1>8 DEF Core, NodesReal
<1>13. MapConsistent'
  <2>1. \A i \in Ids : conn[i] # None => mem[conn[i]].client \in Clients
    BY OpenFacts
  <2> QED BY <1>2, <1>7, <1>8, <2>1 DEF Core, MapConsistent
<1>14. CallbacksPaired'
  BY <1>1, <1>2, <1>6 DEF Core, CallbacksPaired
<1> QED BY <1>4, <1>5, <1>9, <1>11, <1>12, <1>13, <1>14 DEF Core

\* A new connection fits into the table.
LEMMA AcceptOkCore ==
  ASSUME TypeOK, Core, NEW c \in Clients, AcceptOk(c)
  PROVE  /\ Core'
         /\ \A i \in Ids, o \in Clients, p \in Nodes :
              Known(i, o, p) => Known(i, o, p)'
<1>1. /\ state[c] = "backlog" /\ \E q \in Nat : c = q * IdNum + m_id
      /\ \A d \in Clients : ~Waiting(d) <=> d < c
  BY AcceptFacts DEF AcceptOk
<1>2. /\ state' = [state EXCEPT ![c] = "conn"]
      /\ cb' = [cb EXCEPT ![c] = "open"]
      /\ Accepting(c) /\ conn[m_id] = None
  BY DEF AcceptOk, Insert
<1>3. PICK n \in Nodes \ Live, f \in FreeFds :
        /\ conn' = [conn EXCEPT ![m_id] = n]
        /\ mem' = [mem EXCEPT ![n] = NewNode(n, c, f)]
        /\ fdOf' = [fdOf EXCEPT ![f] = c]
  BY DEF AcceptOk, Insert
<1>4. /\ mem'[n] = [id |-> m_id, fd |-> f, client |-> c]
      /\ \A m \in Nodes : m # n => mem'[m] = mem[m]
      /\ NodesApart'
  BY <1>2, <1>3, NewNodeApart DEF FreeFds
<1>5. InOrder' /\ NextId' BY <1>2, AcceptOrder
<1>6. /\ state \in [Clients -> {"off", "backlog", "conn", "gone"}]
      /\ cb \in [Clients -> {"none", "open", "closed", "wrong"}]
      /\ conn \in [Ids -> Nodes \union {None}]
      /\ fdOf \in [Fds -> Clients \union {None}]
      /\ m_id \in Ids
      /\ f \in Fds /\ fdOf[f] = None
      /\ \A m \in Nodes : mem[m].id \in Ids /\ mem[m].fd \in Fds
                       /\ mem[m].client \in Clients \union {None}
  BY DEF TypeOK, FreeFds
<1>7. /\ \A i \in Ids : i # m_id => conn'[i] = conn[i]
      /\ conn'[m_id] = n
      /\ \A i \in Ids : conn[i] # None => conn[i] \in Live
      /\ \A m \in Live : m \in Nodes /\ m # n /\ mem'[m] = mem[m]
  BY <1>3, <1>4, <1>6 DEF Live
<1>8. Live' = Live \union {n}
  <2>1. n # None BY Distinct
  <2> QED BY <1>2, <1>6, <1>7, <2>1 DEF Live
<1>9. \A i \in Ids, o \in Clients, p \in Nodes :
        Known(i, o, p) => Known(i, o, p)'
  <2> SUFFICES ASSUME NEW i \in Ids, NEW o \in Clients, NEW p \in Nodes,
                      Known(i, o, p)
               PROVE  Known(i, o, p)'
    OBVIOUS
  <2>0. o < c BY <1>1 DEF Known
  <2>1. ~Waiting(o)' /\ state'[o] = state[o]
    BY <1>2, <1>6, <2>0, Distinct DEF Known, Waiting
  <2>2. \E q \in Nat : o = q * IdNum + i BY DEF Known
  <2>3. conn'[i] # None => mem'[conn'[i]].client >= o
    <3>1. CASE i = m_id BY <1>4, <1>7, <2>0, <3>1, Distinct
    <3>2. CASE i # m_id BY <1>7, <3>2 DEF Known
    <3> QED BY <3>1, <3>2
  <2>4. state'[o] = "conn" => conn'[i] = p /\ mem'[p].client = o
    BY <1>2, <1>7, <2>1, Distinct DEF Known
  <2> QED BY <2>1, <2>2, <2>3, <2>4 DEF Known
<1>10. \A i \in Ids : i = m_id => Known(i, c, n)'
  BY <1>1, <1>2, <1>4, <1>6, <1>7, Distinct DEF Known, Waiting
<1>11. NodesKnown'
  <2> SUFFICES ASSUME NEW m \in Nodes, mem'[m].client # None
               PROVE  Known(mem[m].id, mem[m].client, m)'
    BY DEF NodesKnown
  <2>1. CASE m = n
    <3>1. mem'[m].id = m_id /\ mem'[m].client = c BY <1>4, <2>1
    <3>2. m_id \in Ids BY DEF TypeOK
    <3> QED BY <1>10, <2>1, <3>1, <3>2
  <2>2. CASE m # n
    <3>1. Known(mem[m].id, mem[m].client, m)
      BY <1>4, <2>2 DEF Core, NodesKnown
    <3>2. mem'[m] = mem[m] /\ mem[m].id \in Ids /\ mem[m].client \in Clients
      BY <1>4, <1>6, <2>2
    <3> QED BY <1>9, <3>1, <3>2
  <2> QED BY <2>1, <2>2
<1>12. NodesReal' BY <1>4, <1>7, <1>8, Distinct DEF Core, NodesReal
<1>13. MapConsistent'
  <2>1. ASSUME NEW i \in Ids, conn'[i] # None
        PROVE  /\ mem'[conn'[i]].id = i
               /\ fdOf'[mem'[conn'[i]].fd] = mem'[conn'[i]].client
               /\ state'[mem'[conn'[i]].client] = "conn"
    <3>1. CASE i = m_id BY <1>2, <1>3, <1>4, <1>6, <1>7, <3>1
    <3>2. CASE i # m_id
      <4>1. conn[i] # None /\ conn'[i] = conn[i] /\ mem'[conn[i]] = mem[conn[i]]
        BY <1>7, <2>1, <3>2
      <4>2. /\ mem[conn[i]].id = i
            /\ mem[conn[i]].client \in Clients /\ mem[conn[i]].fd \in Fds
            /\ state[mem[conn[i]].client] = "conn"
            /\ fdOf[mem[conn[i]].fd] = mem[conn[i]].client
        BY <4>1, OpenFacts
      <4>3. mem[conn[i]].fd # f /\ mem[conn[i]].client # c
        BY <1>1, <1>6, <4>2, Distinct
      <4> QED BY <1>2, <1>3, <1>6, <4>1, <4>2, <4>3
    <3> QED BY <3>1, <3>2
  <2>2. ASSUME NEW g \in Fds, fdOf'[g] # None
        PROVE  \E m \in Live' : mem'[m].fd = g /\ mem'[m].client = fdOf'[g]
    <3>1. CASE g = f BY <1>3, <1>4, <1>6, <1>8, <3>1
    <3>2. CASE g # f
      <4>1. fdOf'[g] = fdOf[g] BY <1>3, <1>6, <3>2
      <4>2. PICK m \in Live : mem[m].fd = g /\ mem[m].client = fdOf[g]
        BY <2>2, <4>1 DEF Core, MapConsistent
      <4> QED BY <1>7, <1>8, <4>1, <4>2
    <3> QED BY <3>1, <3>2
  <2>3. ASSUME NEW d \in Clients, state'[d] = "conn"
        PROVE  \E m \in Live' : mem'[m].client = d
    <3>1. CASE d = c BY <1>4, <1>8, <3>1
    <3>2. CASE d # c
      <4>1. PICK m \in Live : mem[m].client = d
        BY <1>2, <1>6, <2>3, <3>2 DEF Core, MapConsistent
      <4> QED BY <1>7, <1>8, <4>1
    <3> QED BY <3>1, <3>2
  <2> QED BY <2>1, <2>2, <2>3 DEF MapConsistent
<1>14. CallbacksPaired'
  BY <1>1, <1>2, <1>6 DEF Core, CallbacksPaired
<1> QED BY <1>4, <1>5, <1>9, <1>11, <1>12, <1>13, <1>14 DEF Core

-----------------------------------------------------------------------------
(* The table in every step *)

\* A client that connects is not in the table yet.
LEMMA ConnectCore ==
  ASSUME TypeOK, Core, Connect
  PROVE  /\ Core'
         /\ \A i \in Ids, o \in Clients, p \in Nodes :
              Known(i, o, p) => Known(i, o, p)'
<1> DEFINE c == connects + 1
<1>1. /\ state' = [state EXCEPT ![c] = "backlog"] /\ connects' = c
      /\ UNCHANGED <<conn, mem, fdOf, m_id, cb>>
  BY DEF Connect
<1>2. /\ c \in Clients /\ connects \in Nat
  BY ServerAssumption DEF Connect, TypeOK, Clients
<1>3. state[c] = "off" BY <1>2 DEF Core, InOrder
<1>4. /\ state \in [Clients -> {"off", "backlog", "conn", "gone"}]
      /\ \A m \in Nodes : mem[m].id \in Ids
                       /\ mem[m].client \in Clients \union {None}
  BY DEF TypeOK
<1>5. \A d \in Clients : /\ Waiting(d)' <=> Waiting(d)
                         /\ state'[d] = "conn" <=> state[d] = "conn"
                         /\ state'[d] = "gone" <=> state[d] = "gone"
  BY <1>1, <1>2, <1>3, <1>4 DEF Waiting
<1>6. \A i \in Ids, o \in Clients, p \in Nodes :
        Known(i, o, p) => Known(i, o, p)'
  BY <1>1, <1>5 DEF Known
<1>7. NodesKnown' BY <1>1, <1>4, <1>6 DEF Core, NodesKnown
<1>8. NodesApart' /\ NodesReal'
  BY <1>1 DEF Core, NodesApart, NodesReal, Live
<1>9. MapConsistent'
  <2>1. Live' = Live BY <1>1 DEF Live
  <2>2. \A i \in Ids : conn[i] # None => mem[conn[i]].client \in Clients
    BY OpenFacts
  <2> QED BY <1>1, <1>5, <2>1, <2>2 DEF Core, MapConsistent
<1>10. CallbacksPaired'
  BY <1>1, <1>5 DEF Core, CallbacksPaired
<1>11. InOrder'
  <2>1. ASSUME NEW d \in Clients PROVE state'[d] = "off" <=> d > connects'
    <3>1. d \in Nat /\ (state[d] = "off" <=> d > connects)
      BY Distinct DEF Core, InOrder
    <3>2. CASE d = c BY <1>1, <1>2, <1>4, <3>2
    <3>3. CASE d # c
      <4>1. state'[d] = state[d] BY <1>1, <1>4, <3>3
      <4>2. d > connects <=> d > connects + 1 BY <1>2, <3>1, <3>3
      <4> QED BY <1>1, <3>1, <4>1, <4>2
    <3> QED BY <3>2, <3>3
  <2> QED BY <1>5, <2>1 DEF Core, InOrder
<1>12. NextId' BY <1>1, <1>5 DEF Core, NextId
<1> QED BY <1>6, <1>7, <1>8, <1>9, <1>10, <1>11, <1>12 DEF Core

\* Steps that leave the table alone.
LEMMA QuietCore ==
  ASSUME Core, UNCHANGED coreVars
  PROVE  /\ Core'
         /\ \A i \in Ids, o \in Clients, p \in Nodes :
              Known(i, o, p) => Known(i, o, p)'
BY DEF coreVars, Core, NodesKnown, NodesApart, NodesReal, MapConsistent,
   CallbacksPaired, InOrder, NextId, Known, Waiting, Live

\* The head of the send queue.
LEMMA PoppedFacts ==
  ASSUME TypeOK, Popped
  PROVE  /\ Head(sndq) \in SndBlocks /\ Head(sndq) \in Range(sndq)
         /\ sndq' \in Seq(SndBlocks) /\ Range(sndq') \subseteq Range(sndq)
<1>1. sndq \in Seq(SndBlocks) /\ sndq # <<>> /\ sndq' = Tail(sndq)
  BY DEF TypeOK, Popped
<1> QED BY <1>1, TailProperties

\* The event that is handled.
LEMMA HandlingFacts ==
  ASSUME TypeOK, EventsReal, NEW K, Handling(K)
  PROVE  /\ Head(events) \in Events /\ Head(events) \in Range(events)
         /\ events' = Tail(events)
         /\ events' \in Seq(Events) /\ Range(events') \subseteq Range(events)
         /\ Head(events).ptr \in Nodes => mem[Head(events).ptr].client \in Clients
         /\ Head(events).ptr \in Nodes \/ Head(events).kind = "in"
         /\ events # <<>>
<1>1. events \in Seq(Events) /\ events # <<>> /\ events' = Tail(events)
  BY DEF TypeOK, Handling, EventsReal
<1>2. /\ Head(events) \in Events /\ Head(events) \in Range(events)
      /\ Tail(events) \in Seq(Events)
      /\ Range(Tail(events)) \subseteq Range(events)
  BY <1>1, TailProperties
<1>3. Head(events).ptr \in Nodes => mem[Head(events).ptr].client \in Clients
  BY <1>2 DEF EventsReal, TypeOK
<1> QED BY <1>1, <1>2, <1>3 DEF EventsReal

\* The event that is read from keeps its place, with EPOLLOUT left to look at.
LEMMA ReadFacts ==
  ASSUME TypeOK, EventsReal, HandleRead
  PROVE  /\ Head(events) \in Events /\ Head(events) \in Range(events)
         /\ Head(events).ptr \in Nodes
         /\ mem[Head(events).ptr].client \in Clients
         /\ pc = "handle" /\ pc' = pc
         /\ events' \in Seq(Events) /\ events' # <<>> /\ Len(events') = Len(events)
         /\ \A k \in 1 .. Len(events) : events'[k].ptr = events[k].ptr
         /\ \A k \in 2 .. Len(events) : events'[k] = events[k]
<1>1. /\ events \in Seq(Events) /\ events # <<>> /\ pc = "handle"
      /\ events' = [events EXCEPT ![1].kind = "out"]
      /\ Head(events).ptr \notin {Listen, Notify} /\ pc' = pc
  BY DEF TypeOK, HandleRead, EventsReal
<1>2. Head(events) \in Events /\ Head(events) \in Range(events)
  BY <1>1, TailProperties
<1>3. Head(events).ptr \in Nodes BY <1>1, <1>2 DEF Events
<1>4. mem[Head(events).ptr].client \in Clients
  BY <1>2, <1>3 DEF EventsReal, TypeOK
<1>5. PICK e : e = [events[1] EXCEPT !.kind = "out"] OBVIOUS
<1>6. events[1] \in Events /\ events' = [events EXCEPT ![1] = e]
  BY <1>1, <1>5
<1>7. e \in Events /\ e.ptr = events[1].ptr BY <1>5, <1>6 DEF Events
<1>8. /\ events' \in Seq(Events) /\ events' # <<>> /\ Len(events') = Len(events)
      /\ \A k \in 1 .. Len(events) : events'[k] = IF k = 1 THEN e ELSE events[k]
  BY <1>1, <1>6, <1>7
<1> QED BY <1>1, <1>2, <1>3, <1>4, <1>7, <1>8

\* Which connection a step closes, if it is one that may close a connection.
LEMMA ClosingSteps ==
  ASSUME TypeOK, EventsReal,
         PopFin \/ PopSendFails \/ HandleHup \/ HandleIoFails
  PROVE  /\ \E id \in Ids : close_connection(id)
         /\ UNCHANGED <<mem, m_id, runout, reqs, connects, sends>>
<1>1. CASE PopFin \/ PopSendFails
  <2>1. Popped /\ close_connection(Head(sndq).id)
    BY <1>1 DEF PopFin, PopSendFails
  <2>2. Head(sndq).id \in Ids BY <2>1, PoppedFacts DEF SndBlocks
  <2> QED BY <2>1, <2>2 DEF Popped
<1>2. CASE HandleHup \/ HandleIoFails
  <2>1. PICK K : Handling(K) /\ K \in {{"hup"}, {"in", "out"}}
    BY <1>2 DEF HandleHup, HandleIoFails
  <2>2. close_connection(mem[Head(events).ptr].id) /\ UNCHANGED reqs
    BY <1>2 DEF HandleHup, HandleIoFails, Here
  <2>3. Head(events).ptr \in Nodes
    <3>1. Head(events) \in Events /\ (Head(events).ptr \in Nodes \/ Head(events).kind = "in")
      BY <2>1, HandlingFacts
    <3> QED
      BY <1>2, <3>1 DEF HandleHup, HandleIoFails, Handling, Events
  <2>4. mem[Head(events).ptr].id \in Ids BY <2>3 DEF TypeOK
  <2> QED BY <2>1, <2>2, <2>4 DEF Handling
<1> QED BY <1>1, <1>2

\* Every step keeps the table consistent.
LEMMA CoreStep ==
  ASSUME TypeOK, Core, EventsReal, [Next]_vars
  PROVE  /\ Core'
         /\ \A i \in Ids, o \in Clients, p \in Nodes :
              Known(i, o, p) => Known(i, o, p)'
<1>1. CASE PopFin \/ PopSendFails \/ HandleHup \/ HandleIoFails
  <2>1. PICK id \in Ids : close_connection(id) BY <1>1, ClosingSteps
  <2>2. UNCHANGED <<mem, m_id, connects>> BY <1>1, ClosingSteps
  <2> QED BY <2>1, <2>2, CloseCore
<1>2. ASSUME NEW c \in Clients, AcceptRefused(c) \/ AcceptConflict(c)
      PROVE  /\ Core'
             /\ \A i \in Ids, o \in Clients, p \in Nodes :
                  Known(i, o, p) => Known(i, o, p)'
  BY <1>2, DroppedCore DEF AcceptRefused, AcceptConflict
<1>3. ASSUME NEW c \in Clients, AcceptCtlFails(c)
      PROVE  /\ Core'
             /\ \A i \in Ids, o \in Clients, p \in Nodes :
                  Known(i, o, p) => Known(i, o, p)'
  BY <1>3, CtlFailsCore
<1>4. ASSUME NEW c \in Clients, AcceptOk(c)
      PROVE  /\ Core'
             /\ \A i \in Ids, o \in Clients, p \in Nodes :
                  Known(i, o, p) => Known(i, o, p)'
  BY <1>4, AcceptOkCore
<1>5. CASE Connect BY <1>5, ConnectCore
<1>6. CASE Wait \/ PopReply \/ PopDone \/ AcceptDone \/ HandleOther \/ HandleRead
  <2>1. UNCHANGED coreVars
    BY <1>6 DEF coreVars, Wait, PopReply, Popped, PopDone, AcceptDone,
         HandleOther, HandleRead, Handling
  <2> QED BY <2>1, QuietCore
<1>7. ASSUME NEW c \in Clients, Send(c) \/ HangUp(c)
      PROVE  UNCHANGED coreVars
  BY <1>7 DEF coreVars, Send, HangUp
<1>8. ASSUME NEW r \in reqs, WorkerReply(r) \/ WorkerFails(r)
      PROVE  UNCHANGED coreVars
  BY <1>8 DEF coreVars, WorkerReply, WorkerFails, WorkerPush
<1>9. CASE UNCHANGED vars
  <2>1. UNCHANGED coreVars BY <1>9 DEF vars, coreVars
  <2> QED BY <2>1, QuietCore
<1> QED
  BY <1>1, <1>2, <1>3, <1>4, <1>5, <1>6, <1>7, <1>8, <1>9, QuietCore
  DEF Next, NetStep

-----------------------------------------------------------------------------
(* epoll_wait *)

\* What epoll reports of something that is ready.
LEMMA EventProps ==
  ASSUME TypeOK, Core, RdLive, NEW x \in Range(rdlist)
  PROVE  /\ Event(x) \in Events
         /\ Event(x).ptr \in Nodes => mem[Event(x).ptr].client # None
         /\ Event(x).kind # "in" => Event(x).ptr \in Nodes
         /\ x = Listen => Event(x).ptr = Listen
<1>1. x \in Items BY DEF TypeOK, Range
<1>2. CASE x \in Clients
  <2>1. \E n \in Live : mem[n].client = x
    BY <1>2 DEF RdLive, Core, MapConsistent
  <2>2. NodeOf(x) \in Live /\ mem[NodeOf(x)].client = x
    BY <2>1 DEF NodeOf
  <2>3. NodeOf(x) \in Nodes BY <2>2 DEF Live, TypeOK
  <2>4. PICK k \in {"in", "out", "hup"} : Event(x) = [ptr |-> NodeOf(x), kind |-> k]
    BY <1>2 DEF Event
  <2> QED BY <1>2, <2>2, <2>3, <2>4, Distinct DEF Events
<1>3. CASE x = Listen
  <2>1. Event(x) = [ptr |-> Listen, kind |-> "in"]
    BY <1>3, Distinct DEF Event
  <2> QED BY <1>3, <2>1, Distinct DEF Events
<1> QED BY <1>1, <1>2, <1>3 DEF Items

\* The events of a round: of open connections, of the notifier, and of the
\* listening socket if that is ready.
LEMMA WaitFacts ==
  ASSUME TypeOK, Core, RdLive, Wait
  PROVE  /\ events' \in Seq(Events)
         /\ \A e \in Range(events') :
              /\ e.ptr \in Nodes => mem[e.ptr].client # None
              /\ e.kind # "in" => e.ptr \in Nodes
         /\ Listen \in Range(rdlist) =>
              \E e \in Range(events') : e.ptr = Listen
<1> DEFINE evs == [k \in DOMAIN rdlist |-> Event(rdlist[k])]
           N == [ptr |-> Notify, kind |-> "in"]
<1>1. PICK note \in {<<>>, <<N>>} : events' = note \o evs
  BY DEF Wait
<1>2. N \in Events BY DEF Events
<1>3. note \in Seq(Events) /\ \A e \in Range(note) : e = N
  <2> HIDE DEF N
  <2>1. CASE note = <<>> BY <2>1 DEF Range
  <2>2. CASE note = <<N>> BY <1>2, <2>2 DEF Range
  <2> QED BY <2>1, <2>2
<1>4. rdlist \in Seq(Items) BY DEF TypeOK
<1>5. \A k \in DOMAIN rdlist : rdlist[k] \in Range(rdlist)
  BY DEF Range
<1>6. evs \in Seq(Events) /\ DOMAIN evs = DOMAIN rdlist
  <2>1. \A k \in DOMAIN rdlist : Event(rdlist[k]) \in Events
    BY <1>5, EventProps
  <2>2. DOMAIN rdlist = 1 .. Len(rdlist) /\ Len(rdlist) \in Nat BY <1>4
  <2> QED BY <2>1, <2>2
<1>7. \A e \in Range(evs) : \E x \in Range(rdlist) : e = Event(x)
  BY <1>5, <1>6 DEF Range
<1>8. \A x \in Range(rdlist) : Event(x) \in Range(evs)
  <2> SUFFICES ASSUME NEW k \in DOMAIN rdlist
               PROVE  Event(rdlist[k]) \in Range(evs)
    BY DEF Range
  <2>1. k \in DOMAIN evs /\ evs[k] = Event(rdlist[k]) OBVIOUS
  <2> QED BY <2>1 DEF Range
<1> HIDE DEF evs
<1>9. events' \in Seq(Events) /\ Range(events') = Range(note) \union Range(evs)
  BY <1>1, <1>3, <1>6, ConcatProps
<1>10. ASSUME NEW e \in Range(events')
       PROVE  /\ e.ptr \in Nodes => mem[e.ptr].client # None
              /\ e.kind # "in" => e.ptr \in Nodes
  <2>1. CASE e \in Range(note)
    <3>1. e.ptr = Notify /\ e.kind = "in" BY <1>3, <2>1
    <3> QED BY <3>1, Distinct
  <2>2. CASE e \in Range(evs) BY <1>7, <2>2, EventProps
  <2> QED BY <1>9, <2>1, <2>2
<1>11. ASSUME Listen \in Range(rdlist)
       PROVE  \E e \in Range(events') : e.ptr = Listen
  <2>1. Event(Listen) \in Range(events') /\ Event(Listen).ptr = Listen
    BY <1>8, <1>9, <1>11, EventProps
  <2> QED BY <2>1
<1> QED BY <1>9, <1>10, <1>11

-----------------------------------------------------------------------------
(* Types *)

\* Accepting keeps the type of the id counter.
LEMMA NextIdType ==
  ASSUME TypeOK PROVE genereate_id \in Ids
BY ServerAssumption DEF TypeOK, genereate_id, Ids

\* close_connection keeps the types of the table.
LEMMA CloseType ==
  ASSUME TypeOK, Core, NEW id \in Ids, close_connection(id), mem' = mem
  PROVE  /\ state' \in [Clients -> {"off", "backlog", "conn", "gone"}]
         /\ unread' \in [Clients -> BOOLEAN] /\ hup' \in [Clients -> BOOLEAN]
         /\ rdlist' \in Seq(Items)
         /\ conn' \in [Ids -> Nodes \union {None}]
         /\ fdOf' \in [Fds -> Clients \union {None}]
         /\ cb' \in [Clients -> {"none", "open", "closed", "wrong"}]
<1>1. CASE conn[id] = None BY <1>1 DEF close_connection, TypeOK
<1>2. CASE conn[id] # None
  <2> DEFINE c == mem[conn[id]].client
             f == mem[conn[id]].fd
  <2>1. c \in Clients /\ f \in Fds BY <1>2, OpenFacts
  <2>2. /\ conn' = [conn EXCEPT ![id] = None]
        /\ state' = [state EXCEPT ![c] = "gone"]
        /\ unread' = [unread EXCEPT ![c] = FALSE]
        /\ hup' = [hup EXCEPT ![c] = FALSE]
        /\ fdOf' = [fdOf EXCEPT ![f] = None]
        /\ cb' = [cb EXCEPT ![c] = "closed"]
        /\ rdlist' \in Seq(Items)
    BY <1>2, CloseFacts
  <2> HIDE DEF c, f
  <2> QED BY <2>1, <2>2 DEF TypeOK
<1> QED BY <1>1, <1>2

\* Where the loop over the events goes.
LEMMA AtEventType ==
  ASSUME NEW evs, NEW fst, NEW ro
  PROVE  /\ AtEvent(evs, fst, ro) \in {"drain", "accept", "handle"}
         /\ AtEvent(evs, fst, ro) \in {"accept", "handle"} => evs # <<>>
         /\ AtEvent(evs, fst, ro) = "handle" => Head(evs).ptr # Listen
         /\ AtEvent(evs, fst, ro) = "drain" => evs = <<>>
BY DEF AtEvent

\* Every step keeps the types.
LEMMA TypeStep == ASSUME TypeOK, Core, RdLive, EventsReal, [Next]_vars PROVE TypeOK'
<1>1. CASE PopFin \/ PopSendFails \/ HandleHup \/ HandleIoFails
  <2>1. PICK id \in Ids : close_connection(id) BY <1>1, ClosingSteps
  <2>2. UNCHANGED <<mem, m_id, runout, reqs, connects, sends>>
    BY <1>1, ClosingSteps
  <2>3. /\ state' \in [Clients -> {"off", "backlog", "conn", "gone"}]
        /\ unread' \in [Clients -> BOOLEAN] /\ hup' \in [Clients -> BOOLEAN]
        /\ rdlist' \in Seq(Items)
        /\ conn' \in [Ids -> Nodes \union {None}]
        /\ fdOf' \in [Fds -> Clients \union {None}]
        /\ cb' \in [Clients -> {"none", "open", "closed", "wrong"}]
    BY <2>1, <2>2, CloseType
  <2>4. CASE PopFin \/ PopSendFails
    <3>1. Popped BY <2>4 DEF PopFin, PopSendFails
    <3>2. sndq' \in Seq(SndBlocks) /\ UNCHANGED ioVars
      BY <3>1, PoppedFacts DEF Popped
    <3> QED BY <2>2, <2>3, <3>2 DEF TypeOK
  <2>5. CASE HandleHup \/ HandleIoFails
    <3>1. PICK K : Handling(K) BY <2>5 DEF HandleHup, HandleIoFails
    <3>2. events' \in Seq(Events) BY <3>1, HandlingFacts
    <3>3. pc' \in {"drain", "accept", "handle"} /\ first' = FALSE
      BY <3>1, AtEventType DEF Handling
    <3>4. UNCHANGED sndq BY <3>1 DEF Handling
    <3> QED BY <2>2, <2>3, <3>2, <3>3, <3>4 DEF TypeOK
  <2> QED BY <1>1, <2>4, <2>5
<1>2. ASSUME NEW c \in Clients,
             AcceptRefused(c) \/ AcceptConflict(c) \/ AcceptCtlFails(c)
      PROVE  TypeOK'
  <2>1. Accepting(c) /\ Dropped(c)
    BY <1>2 DEF AcceptRefused, AcceptConflict, AcceptCtlFails
  <2>2. m_id' \in Ids BY <2>1, NextIdType DEF Accepting
  <2>3. mem' \in [Nodes -> [id : Ids, fd : Fds, client : Clients \union {None}]]
    BY <1>2 DEF AcceptRefused, AcceptConflict, AcceptCtlFails, TypeOK,
         NewNode, FreeFds
  <2>4. cb' \in [Clients -> {"none", "open", "closed", "wrong"}]
    BY <1>2 DEF AcceptRefused, AcceptConflict, AcceptCtlFails, TypeOK
  <2> QED BY <2>1, <2>2, <2>3, <2>4 DEF Accepting, Dropped, TypeOK
<1>3. ASSUME NEW c \in Clients, AcceptOk(c) PROVE TypeOK'
  <2>1. Accepting(c) /\ Insert(c) BY <1>3 DEF AcceptOk
  <2>2. m_id' \in Ids BY <2>1, NextIdType DEF Accepting
  <2>3. PICK n \in Nodes \ Live, f \in FreeFds :
          /\ conn' = [conn EXCEPT ![m_id] = n]
          /\ mem' = [mem EXCEPT ![n] = NewNode(n, c, f)]
          /\ fdOf' = [fdOf EXCEPT ![f] = c]
    BY <2>1 DEF Insert
  <2>4. mem' \in [Nodes -> [id : Ids, fd : Fds, client : Clients \union {None}]]
    BY <2>3 DEF TypeOK, NewNode, FreeFds
  <2>5. conn' \in [Ids -> Nodes \union {None}]
    BY <2>3 DEF TypeOK
  <2>6. fdOf' \in [Fds -> Clients \union {None}]
    BY <2>3 DEF TypeOK, FreeFds
  <2>7. rdlist' \in Seq(Items)
    BY <2>1, ReadyProps DEF Insert, Items
  <2>8. /\ state' \in [Clients -> {"off", "backlog", "conn", "gone"}]
        /\ cb' \in [Clients -> {"none", "open", "closed", "wrong"}]
        /\ UNCHANGED <<unread, hup>>
    BY <2>1 DEF Insert, TypeOK
  <2> QED BY <2>1, <2>2, <2>4, <2>5, <2>6, <2>7, <2>8 DEF Accepting, TypeOK
<1>4. CASE Connect
  <2>1. connects + 1 \in Clients /\ connects + 1 \in 0 .. MaxClient
    BY <1>4, ServerAssumption DEF Connect, TypeOK, Clients
  <2>2. rdlist' \in Seq(Items) BY <1>4, ReadyProps DEF Connect, Items
  <2>3. state' \in [Clients -> {"off", "backlog", "conn", "gone"}]
    BY <1>4, <2>1 DEF Connect, TypeOK
  <2> QED BY <1>4, <2>1, <2>2, <2>3 DEF Connect, TypeOK
<1>5. ASSUME NEW c \in Clients, Send(c) PROVE TypeOK'
  <2>1. rdlist' \in Seq(Items)
    BY <1>5, ReadyProps DEF Send, Items, TypeOK
  <2>2. sends' \in 0 .. MaxSend
    BY <1>5, ServerAssumption DEF Send, TypeOK
  <2>3. unread' \in [Clients -> BOOLEAN] BY <1>5 DEF Send, TypeOK
  <2> QED BY <1>5, <2>1, <2>2, <2>3 DEF Send, TypeOK
<1>6. ASSUME NEW c \in Clients, HangUp(c) PROVE TypeOK'
  <2>1. rdlist' \in Seq(Items)
    BY <1>6, ReadyProps DEF HangUp, Items, TypeOK
  <2>2. hup' \in [Clients -> BOOLEAN] BY <1>6 DEF HangUp, TypeOK
  <2> QED BY <1>6, <2>1, <2>2 DEF HangUp, TypeOK
<1>7. ASSUME NEW r \in reqs, WorkerReply(r) \/ WorkerFails(r) PROVE TypeOK'
  <2>1. r \in Requests BY DEF TypeOK
  <2>2. PICK t \in {"DAT", "FIN"} : WorkerPush(r, t)
    BY <1>7 DEF WorkerReply, WorkerFails
  <2>3. [type |-> t, id |-> r.id, ptr |-> r.ptr, owner |-> r.owner] \in SndBlocks
    BY <2>1 DEF Requests, SndBlocks
  <2>4. sndq' \in Seq(SndBlocks)
    BY <2>2, <2>3 DEF WorkerPush, TypeOK
  <2>5. reqs' \subseteq Requests BY <2>2 DEF WorkerPush, TypeOK
  <2> QED BY <2>2, <2>4, <2>5 DEF WorkerPush, TypeOK
<1>8. CASE Wait
  <2>1. events' \in Seq(Events) BY <1>8, WaitFacts
  <2>2. rdlist' \in Seq(Items) BY <1>8 DEF Wait
  <2> QED BY <1>8, <2>1, <2>2 DEF Wait, TypeOK
<1>9. CASE PopReply
  <2>1. Popped /\ UNCHANGED connVars BY <1>9 DEF PopReply
  <2>2. sndq' \in Seq(SndBlocks) BY <2>1, PoppedFacts
  <2> QED BY <2>1, <2>2 DEF Popped, TypeOK
<1>10. CASE PopDone
  <2>1. pc' \in {"drain", "accept", "handle", "wait"}
    BY <1>10, AtEventType DEF PopDone
  <2> QED BY <1>10, <2>1 DEF PopDone, TypeOK
<1>11. CASE AcceptDone BY <1>11 DEF AcceptDone, TypeOK
<1>12. CASE HandleOther
  <2>1. PICK K : Handling(K) BY <1>12 DEF HandleOther
  <2>2. events' \in Seq(Events) BY <2>1, HandlingFacts
  <2>3. pc' \in {"drain", "accept", "handle"} BY <2>1, AtEventType DEF Handling
  <2> QED BY <1>12, <2>1, <2>2, <2>3 DEF HandleOther, Handling, TypeOK
<1>13. CASE HandleRead
  <2>2. /\ events' \in Seq(Events)
        /\ Head(events) \in Events
        /\ Head(events).ptr \in Nodes
        /\ mem[Head(events).ptr].client \in Clients
    BY <1>13, ReadFacts
  <2>3. Head(events).ptr \in Nodes BY <2>2
  <2>4. Here.id \in Ids /\ Here.client \in Clients /\ Here.fd \in Fds
    BY <2>2, <2>3 DEF Here, TypeOK
  <2>5. There \in Clients BY <1>13, <2>4 DEF HandleRead, There, TypeOK
  <2>6. [id |-> Here.id, ptr |-> Head(events).ptr, owner |-> Here.client,
         client |-> There] \in Requests
    BY <2>3, <2>4, <2>5 DEF Requests
  <2>7. reqs' \subseteq Requests BY <1>13, <2>6 DEF HandleRead, TypeOK
  <2>8. unread' \in [Clients -> BOOLEAN] BY <1>13, <2>5 DEF HandleRead, TypeOK
  <2> QED BY <1>13, <2>2, <2>7, <2>8 DEF HandleRead, TypeOK
<1>14. CASE UNCHANGED vars BY <1>14 DEF vars, TypeOK
<1> QED
  BY <1>1, <1>2, <1>3, <1>4, <1>5, <1>6, <1>7, <1>8, <1>9, <1>10, <1>11,
     <1>12, <1>13, <1>14 DEF Next, NetStep

-----------------------------------------------------------------------------
(* The parts around the table *)

\* Sockets leave epoll's list when they are closed.
LEMMA RdStep == ASSUME TypeOK, Core, RdLive, EventsReal, [Next]_vars PROVE RdLive'
<1> USE DEF RdLive
<1>1. CASE PopFin \/ PopSendFails \/ HandleHup \/ HandleIoFails
  <2>1. PICK id \in Ids : close_connection(id) BY <1>1, ClosingSteps
  <2>2. mem' = mem BY <1>1, ClosingSteps
  <2>3. CASE conn[id] = None BY <2>1, <2>3 DEF close_connection
  <2>4. CASE conn[id] # None
    <3> DEFINE c == mem[conn[id]].client
    <3>1. /\ state' = [state EXCEPT ![c] = "gone"]
          /\ Range(rdlist') = Range(rdlist) \ {c}
      BY <2>1, <2>2, <2>4, CloseFacts
    <3> HIDE DEF c
    <3> QED BY <3>1 DEF TypeOK
  <2> QED BY <2>3, <2>4
<1>2. ASSUME NEW c \in Clients,
             AcceptRefused(c) \/ AcceptConflict(c) \/ AcceptCtlFails(c)
      PROVE  RdLive'
  <2>1. Accepting(c) /\ Dropped(c)
    BY <1>2 DEF AcceptRefused, AcceptConflict, AcceptCtlFails
  <2>2. state[c] = "backlog" BY <2>1, AcceptFacts
  <2> QED BY <2>1, <2>2 DEF Dropped, TypeOK
<1>3. ASSUME NEW c \in Clients, AcceptOk(c) PROVE RdLive'
  <2>1. Range(rdlist') = Range(rdlist) \union {c}
    BY <1>3, ReadyProps DEF AcceptOk, Insert, Items
  <2> QED BY <1>3, <2>1 DEF AcceptOk, Insert, TypeOK
<1>4. CASE Connect
  <2>1. Range(rdlist') = Range(rdlist) \union {Listen}
    BY <1>4, ReadyProps DEF Connect, Items
  <2>2. connects + 1 \in Clients
    BY <1>4, ServerAssumption DEF Connect, TypeOK, Clients
  <2>3. state[connects + 1] = "off"
    BY <2>2 DEF Core, InOrder, TypeOK
  <2> QED BY <1>4, <2>1, <2>2, <2>3, Distinct DEF Connect, TypeOK
<1>5. ASSUME NEW c \in Clients, Send(c) \/ HangUp(c) PROVE RdLive'
  <2>1. UNCHANGED state BY <1>5 DEF Send, HangUp
  <2>2. rdlist' = rdlist \/ (state[c] = "conn" /\ rdlist' = Ready(c))
    BY <1>5 DEF Send, HangUp
  <2>3. Range(Ready(c)) = Range(rdlist) \union {c}
    BY ReadyProps DEF Items
  <2> QED BY <2>1, <2>2, <2>3
<1>6. ASSUME NEW r \in reqs, WorkerReply(r) \/ WorkerFails(r) PROVE RdLive'
  BY <1>6 DEF WorkerReply, WorkerFails, WorkerPush
<1>7. CASE Wait
  <2>1. Range(rdlist') = {} BY <1>7 DEF Wait, Range
  <2> QED BY <2>1
<1>8. CASE PopReply \/ PopDone \/ AcceptDone \/ HandleOther \/ HandleRead
  BY <1>8 DEF PopReply, PopDone, AcceptDone, HandleOther, HandleRead
<1>9. CASE UNCHANGED vars BY <1>9 DEF vars
<1> QED
  BY <1>1, <1>2, <1>3, <1>4, <1>5, <1>6, <1>7, <1>8, <1>9 DEF Next, NetStep

\* An address that has been given to a connection stays that of some client.
LEMMA MemStep ==
  ASSUME TypeOK, Core, EventsReal, [Next]_vars, NEW m \in Nodes,
         mem[m].client # None
  PROVE  mem'[m].client # None
<1>1. CASE PopFin \/ PopSendFails \/ HandleHup \/ HandleIoFails
  BY <1>1, ClosingSteps
<1>2. ASSUME NEW c \in Clients, AcceptRefused(c) \/ AcceptConflict(c)
      PROVE  mem'[m].client # None
  BY <1>2 DEF AcceptRefused, AcceptConflict
<1>3. ASSUME NEW c \in Clients, AcceptCtlFails(c) \/ AcceptOk(c)
      PROVE  mem'[m].client # None
  <2>1. PICK n \in Nodes, f \in Fds : mem' = [mem EXCEPT ![n] = NewNode(n, c, f)]
    BY <1>3 DEF AcceptCtlFails, AcceptOk, Insert, FreeFds
  <2> QED BY <2>1, Distinct DEF TypeOK, NewNode
<1>4. ASSUME NEW c \in Clients, Send(c) \/ HangUp(c)
      PROVE  mem'[m].client # None
  BY <1>4 DEF Send, HangUp
<1>5. ASSUME NEW r \in reqs, WorkerReply(r) \/ WorkerFails(r)
      PROVE  mem'[m].client # None
  BY <1>5 DEF WorkerReply, WorkerFails, WorkerPush
<1>6. CASE \/ Connect \/ Wait \/ PopReply \/ PopDone \/ AcceptDone
           \/ HandleOther \/ HandleRead
  BY <1>6 DEF Connect, Wait, PopReply, Popped, PopDone, AcceptDone, HandleOther,
       HandleRead, Handling
<1>7. CASE UNCHANGED vars BY <1>7 DEF vars
<1> QED
  BY <1>1, <1>2, <1>3, <1>4, <1>5, <1>6, <1>7 DEF Next, NetStep

\* The events of a round stay real while connections come and go.
LEMMA EventsStep ==
  ASSUME TypeOK, Core, RdLive, EventsReal, [Next]_vars PROVE EventsReal'
<1>1. \A m \in Nodes : mem[m].client # None => mem'[m].client # None
  BY MemStep
<1>2. CASE Wait
  <2>1. pc' = "wakeup" /\ mem' = mem BY <1>2 DEF Wait
  <2> QED BY <1>2, <2>1, WaitFacts DEF EventsReal
<1>3. ASSUME NEW K, Handling(K) PROVE EventsReal'
  <2>1. events' = Tail(events) /\ Range(events') \subseteq Range(events)
    BY <1>3, HandlingFacts
  <2>2. pc' \in {"accept", "handle"} => events' # <<>>
    BY <1>3, <2>1, AtEventType DEF Handling
  <2> QED BY <1>1, <2>1, <2>2 DEF EventsReal
<1>4. CASE PopDone
  <2>1. events' = events /\ (pc' \in {"accept", "handle"} => events # <<>>)
    BY <1>4, AtEventType DEF PopDone
  <2> QED BY <1>1, <2>1 DEF EventsReal
<1>5. CASE AcceptDone
  BY <1>1, <1>5 DEF AcceptDone, EventsReal
<1>6. CASE UNCHANGED <<pc, events>>
  BY <1>1, <1>6 DEF EventsReal
<1>7. CASE PopFin \/ PopReply \/ PopSendFails \/ Connect \/ UNCHANGED vars
  <2>1. UNCHANGED <<pc, events>>
    BY <1>7 DEF PopFin, PopReply, PopSendFails, Popped, Connect, vars
  <2> QED BY <1>6, <2>1
<1>8. ASSUME NEW c \in Clients,
             \/ Send(c) \/ HangUp(c) \/ AcceptRefused(c) \/ AcceptOk(c)
             \/ AcceptCtlFails(c) \/ AcceptConflict(c)
      PROVE  UNCHANGED <<pc, events>>
  BY <1>8 DEF Send, HangUp, AcceptRefused, AcceptOk, AcceptCtlFails,
       AcceptConflict, Accepting
<1>9. ASSUME NEW r \in reqs, WorkerReply(r) \/ WorkerFails(r)
      PROVE  UNCHANGED <<pc, events>>
  BY <1>9 DEF WorkerReply, WorkerFails, WorkerPush
<1>10. CASE HandleOther \/ HandleHup \/ HandleIoFails
  BY <1>3, <1>10 DEF HandleOther, HandleHup, HandleIoFails
<1>11. CASE HandleRead
  <2>1. mem' = mem BY <1>11 DEF HandleRead
  <2>2. /\ Head(events).ptr \in Nodes
        /\ mem[Head(events).ptr].client \in Clients
        /\ events' \in Seq(Events) /\ events' # <<>>
        /\ Len(events') = Len(events)
        /\ \A k \in 1 .. Len(events) : events'[k].ptr = events[k].ptr
        /\ \A k \in 2 .. Len(events) : events'[k] = events[k]
    BY <1>11, ReadFacts
  <2>3. events \in Seq(Events) BY DEF TypeOK
  <2>4. ASSUME NEW e \in Range(events')
        PROVE  (e.ptr \in Nodes => mem[e.ptr].client # None)
               /\ (e.kind # "in" => e.ptr \in Nodes)
    <3>1. PICK k \in 1 .. Len(events) : e = events'[k]
      BY <2>2, <2>4 DEF Range
    <3>2. CASE k = 1
      <4>1. e.ptr = Head(events).ptr BY <2>2, <2>3, <3>1, <3>2
      <4> QED BY <2>2, <4>1, Distinct
    <3>3. CASE k # 1
      <4>1. k \in 2 .. Len(events) BY <3>3
      <4>2. e = events[k] BY <2>2, <3>1, <4>1
      <4>3. e \in Range(events) BY <2>3, <4>2 DEF Range
      <4> QED BY <4>3 DEF EventsReal
    <3> QED BY <3>2, <3>3
  <2> QED BY <2>1, <2>2, <2>4 DEF EventsReal
<1> QED
  BY <1>2, <1>4, <1>5, <1>6, <1>7, <1>8, <1>9, <1>10, <1>11 DEF Next, NetStep

\* Requests and blocks stay those of connections that have been accepted.
LEMMA BlocksStep ==
  ASSUME TypeOK, Core, EventsReal, BlocksKnown, [Next]_vars PROVE BlocksKnown'
<1>1. \A i \in Ids, o \in Clients, p \in Nodes : Known(i, o, p) => Known(i, o, p)'
  BY CoreStep
<1>2. \A r \in reqs : r.id \in Ids /\ r.owner \in Clients /\ r.ptr \in Nodes
  BY DEF TypeOK, Requests
<1>3. \A b \in Range(sndq) :
        b.id \in Ids /\ b.owner \in Clients /\ b.ptr \in Nodes
  <2>1. \A b \in Range(sndq) : b \in SndBlocks BY DEF TypeOK, Range
  <2> QED BY <2>1 DEF SndBlocks
<1>4. \A r \in reqs : Known(r.id, r.owner, r.ptr)'
  <2> SUFFICES ASSUME NEW r \in reqs PROVE Known(r.id, r.owner, r.ptr)'
    OBVIOUS
  <2>1. Known(r.id, r.owner, r.ptr) BY DEF BlocksKnown
  <2> QED BY <1>1, <1>2, <2>1
<1>5. \A b \in Range(sndq) : Known(b.id, b.owner, b.ptr)'
  <2> SUFFICES ASSUME NEW b \in Range(sndq) PROVE Known(b.id, b.owner, b.ptr)'
    OBVIOUS
  <2>1. Known(b.id, b.owner, b.ptr) BY DEF BlocksKnown
  <2> QED BY <1>1, <1>3, <2>1
<1>6. ASSUME reqs' \subseteq reqs, Range(sndq') \subseteq Range(sndq)
      PROVE  BlocksKnown'
  BY <1>4, <1>5, <1>6 DEF BlocksKnown
<1>7. CASE PopFin \/ PopReply \/ PopSendFails
  <2>1. Popped BY <1>7 DEF PopFin, PopReply, PopSendFails
  <2>2. Range(sndq') \subseteq Range(sndq) /\ reqs' = reqs
    BY <2>1, PoppedFacts DEF Popped
  <2> QED BY <1>6, <2>2
<1>8. ASSUME NEW r \in reqs, WorkerReply(r) \/ WorkerFails(r) PROVE BlocksKnown'
  <2>1. PICK t \in {"DAT", "FIN"} : WorkerPush(r, t)
    BY <1>8 DEF WorkerReply, WorkerFails
  <2> DEFINE b == [type |-> t, id |-> r.id, ptr |-> r.ptr, owner |-> r.owner]
  <2>2. b \in SndBlocks BY <1>2 DEF SndBlocks
  <2>3. Range(sndq') = Range(sndq) \union {b}
    <3>1. sndq' = Append(sndq, b) /\ sndq \in Seq(SndBlocks)
      BY <2>1 DEF WorkerPush, TypeOK
    <3> QED BY <2>2, <3>1, AppendProps
  <2>4. Known(b.id, b.owner, b.ptr)' BY <1>4
  <2>5. reqs' \subseteq reqs BY <2>1 DEF WorkerPush
  <2> QED BY <1>4, <1>5, <2>3, <2>4, <2>5 DEF BlocksKnown
<1>9. CASE HandleRead
  <2>1. /\ Head(events).ptr \in Nodes
        /\ mem[Head(events).ptr].client \in Clients
    BY <1>9, ReadFacts
  <2> DEFINE p == Head(events).ptr
  <2>2. p \in Nodes BY <2>1
  <2>3. mem[p].client \in Clients /\ mem[p].id \in Ids
    BY <2>1, <2>2 DEF TypeOK
  <2>4. Known(mem[p].id, mem[p].client, p)
    BY <2>2, <2>3, Distinct DEF Core, NodesKnown
  <2>5. \A r \in reqs' : r \in reqs \/ (r.id = mem[p].id /\ r.ptr = p
                                      /\ r.owner = mem[p].client)
    BY <1>9 DEF HandleRead, Here
  <2>6. ASSUME NEW r \in reqs', r.id = mem[p].id, r.ptr = p,
               r.owner = mem[p].client
        PROVE  Known(r.id, r.owner, r.ptr)'
    <3>1. Known(r.id, r.owner, r.ptr) BY <2>4, <2>6
    <3> QED BY <1>1, <2>2, <2>3, <2>6, <3>1
  <2>7. sndq' = sndq BY <1>9 DEF HandleRead
  <2> QED BY <1>4, <1>5, <2>5, <2>6, <2>7 DEF BlocksKnown
<1>10. CASE \/ Connect \/ Wait \/ PopDone \/ AcceptDone \/ HandleOther
            \/ HandleHup \/ HandleIoFails \/ UNCHANGED vars
  <2>1. UNCHANGED <<reqs, sndq>>
    BY <1>10 DEF Connect, Wait, PopDone, AcceptDone, HandleOther, HandleHup,
         HandleIoFails, Handling, vars
  <2> QED BY <1>6, <2>1
<1>11. ASSUME NEW c \in Clients,
              \/ Send(c) \/ HangUp(c) \/ AcceptRefused(c) \/ AcceptOk(c)
              \/ AcceptCtlFails(c) \/ AcceptConflict(c)
       PROVE  UNCHANGED <<reqs, sndq>>
  BY <1>11 DEF Send, HangUp, AcceptRefused, AcceptOk, AcceptCtlFails,
       AcceptConflict, Accepting
<1> QED
  BY <1>6, <1>7, <1>8, <1>9, <1>10, <1>11 DEF Next, NetStep

\* A connection that is closed was not in the backlog.
LEMMA CloseBacklog ==
  ASSUME TypeOK, Core, NEW id \in Ids, close_connection(id), mem' = mem
  PROVE  /\ Backlog' = Backlog
         /\ Listen \in Range(rdlist) => Listen \in Range(rdlist')
<1>1. CASE conn[id] = None BY <1>1 DEF close_connection, Backlog
<1>2. CASE conn[id] # None
  <2> DEFINE c == mem[conn[id]].client
  <2>1. c \in Clients /\ state[c] = "conn" BY <1>2, OpenFacts
  <2>2. /\ state' = [state EXCEPT ![c] = "gone"]
        /\ Range(rdlist') = Range(rdlist) \ {c}
    BY <1>2, CloseFacts
  <2> HIDE DEF c
  <2> QED BY <2>1, <2>2, Distinct DEF Backlog, TypeOK
<1> QED BY <1>1, <1>2

\* On to the next event: one of the listening socket gets its accept loop.
LEMMA HandlingBacklog ==
  ASSUME TypeOK, EventsReal, BacklogKnown, NEW K, Handling(K),
         Backlog' = Backlog, Listen \in Range(rdlist) => Listen \in Range(rdlist')
  PROVE  BacklogKnown'
<1> SUFFICES ASSUME Backlog # {}, ~runout, Listen \notin Range(rdlist)
             PROVE  BacklogKnown'
  BY DEF BacklogKnown, Handling
<1>1. pc = "handle" /\ events' = Tail(events) /\ events # <<>>
  BY HandlingFacts DEF Handling
<1>2. events \in Seq(Events) BY DEF TypeOK
<1>3. PICK k \in 2 .. Len(events) : events[k].ptr = Listen
  BY <1>1 DEF BacklogKnown
<1>4. /\ k - 1 \in 1 .. Len(events') /\ events'[k - 1] = events[k]
      /\ Len(events') \in Nat /\ Head(events') = events'[1]
  BY <1>1, <1>2, <1>3
<1>5. pc' = AtEvent(events', FALSE, runout) BY <1>1 DEF Handling
<1>6. events' # <<>> BY <1>4
<1>7. CASE k = 2
  <2>1. Head(events').ptr = Listen BY <1>3, <1>4, <1>7
  <2>2. pc' = "accept" BY <1>5, <1>6, <2>1 DEF AtEvent
  <2> QED BY <2>2 DEF BacklogKnown
<1>8. CASE k # 2
  <2>1. k - 1 \in 2 .. Len(events') BY <1>3, <1>4, <1>8
  <2>2. pc' \in {"accept", "handle"}
    BY <1>5, <1>6, AtEventType
  <2> QED BY <1>3, <1>4, <2>1, <2>2 DEF BacklogKnown
<1> QED BY <1>7, <1>8

\* No step forgets the backlog.
LEMMA BacklogStep ==
  ASSUME TypeOK, Core, RdLive, EventsReal, BacklogKnown, [Next]_vars
  PROVE  BacklogKnown'
<1>1. CASE PopFin \/ PopSendFails \/ HandleHup \/ HandleIoFails
  <2>1. PICK id \in Ids : close_connection(id) BY <1>1, ClosingSteps
  <2>2. mem' = mem /\ runout' = runout BY <1>1, ClosingSteps
  <2>3. /\ Backlog' = Backlog
        /\ Listen \in Range(rdlist) => Listen \in Range(rdlist')
    BY <2>1, <2>2, CloseBacklog
  <2>4. CASE PopFin \/ PopSendFails
    <3>1. UNCHANGED <<pc, events>> BY <2>4 DEF PopFin, PopSendFails, Popped
    <3> QED BY <2>2, <2>3, <3>1 DEF BacklogKnown
  <2>5. CASE HandleHup \/ HandleIoFails
    <3>1. PICK K : Handling(K) BY <2>5 DEF HandleHup, HandleIoFails
    <3> QED BY <2>3, <3>1, HandlingBacklog
  <2> QED BY <1>1, <2>4, <2>5
<1>2. CASE HandleOther \/ HandleRead
  <2>2. UNCHANGED <<state, rdlist>> BY <1>2 DEF HandleOther, HandleRead
  <2>3. Backlog' = Backlog BY <2>2 DEF Backlog
  <2>4. CASE HandleOther
    <3>1. PICK K : Handling(K) BY <2>4 DEF HandleOther
    <3> QED BY <2>2, <2>3, <3>1, HandlingBacklog
  <2>5. CASE HandleRead
    <3>1. /\ pc = "handle" /\ pc' = pc /\ Len(events') = Len(events)
          /\ \A k \in 2 .. Len(events) : events'[k] = events[k]
      BY <2>5, ReadFacts
    <3>2. runout' = runout BY <2>5 DEF HandleRead
    <3> QED BY <2>2, <2>3, <3>1, <3>2 DEF BacklogKnown
  <2> QED BY <1>2, <2>4, <2>5
<1>3. ASSUME NEW c \in Clients,
             \/ AcceptRefused(c) \/ AcceptOk(c) \/ AcceptCtlFails(c)
             \/ AcceptConflict(c)
      PROVE  BacklogKnown'
  <2>1. pc' = "accept"
    BY <1>3 DEF AcceptRefused, AcceptOk, AcceptCtlFails, AcceptConflict,
         Accepting
  <2> QED BY <2>1 DEF BacklogKnown
<1>4. CASE AcceptDone
  <2>1. UNCHANGED state /\ (Backlog # {} => runout') BY <1>4 DEF AcceptDone
  <2>2. Backlog' = Backlog BY <2>1 DEF Backlog
  <2> QED BY <2>1, <2>2 DEF BacklogKnown
<1>5. CASE Connect
  <2>1. Range(rdlist') = Range(rdlist) \union {Listen}
    BY <1>5, ReadyProps DEF Connect, Items
  <2> QED BY <2>1 DEF BacklogKnown
<1>6. ASSUME NEW c \in Clients, Send(c) \/ HangUp(c) PROVE BacklogKnown'
  <2>1. UNCHANGED <<state, runout, pc, events>> BY <1>6 DEF Send, HangUp
  <2>2. rdlist' = rdlist \/ rdlist' = Ready(c) BY <1>6 DEF Send, HangUp
  <2>3. Range(Ready(c)) = Range(rdlist) \union {c}
    BY ReadyProps DEF Items
  <2>4. Listen \in Range(rdlist) => Listen \in Range(rdlist') BY <2>2, <2>3
  <2>5. Backlog' = Backlog BY <2>1 DEF Backlog
  <2> QED BY <2>1, <2>4, <2>5 DEF BacklogKnown
<1>7. ASSUME NEW r \in reqs, WorkerReply(r) \/ WorkerFails(r) PROVE BacklogKnown'
  BY <1>7 DEF WorkerReply, WorkerFails, WorkerPush, BacklogKnown, Backlog
<1>8. CASE Wait
  <2>1. pc = "wait" /\ pc' = "wakeup" /\ UNCHANGED <<state, runout>>
    BY <1>8 DEF Wait
  <2>2. Backlog' = Backlog BY <2>1 DEF Backlog
  <2>3. CASE Listen \in Range(rdlist)
    <3>1. PICK e \in Range(events') : e.ptr = Listen BY <1>8, <2>3, WaitFacts
    <3>2. events' \in Seq(Events) BY <1>8, WaitFacts
    <3>3. \E k \in 1 .. Len(events') : events'[k].ptr = Listen
      BY <3>1, <3>2 DEF Range
    <3> QED BY <2>1, <3>3 DEF BacklogKnown
  <2>4. CASE Listen \notin Range(rdlist)
    BY <2>1, <2>2, <2>4 DEF BacklogKnown
  <2> QED BY <2>3, <2>4
<1>9. CASE PopDone
  <2>1. UNCHANGED <<state, rdlist, runout, events>> BY <1>9 DEF PopDone
  <2>2. Backlog' = Backlog BY <2>1 DEF Backlog
  <2>3. CASE pc = "drain"
    BY <2>1, <2>2, <2>3 DEF BacklogKnown
  <2>4. CASE pc = "wakeup"
    <3> SUFFICES ASSUME NEW k \in 1 .. Len(events), events[k].ptr = Listen
                 PROVE  BacklogKnown'
      BY <2>1, <2>2, <2>4 DEF BacklogKnown
    <3>1. pc' = AtEvent(events, first, runout) BY <1>9, <2>4 DEF PopDone
    <3>2. /\ events \in Seq(Events) /\ events # <<>> /\ Head(events) = events[1]
          /\ Len(events) \in Nat
      BY DEF TypeOK
    <3>3. CASE k = 1
      <4>1. pc' = "accept" BY <3>1, <3>2, <3>3 DEF AtEvent
      <4> QED BY <4>1 DEF BacklogKnown
    <3>4. CASE k # 1
      <4>1. k \in 2 .. Len(events) BY <3>2, <3>4
      <4>2. pc' \in {"accept", "handle"} BY <3>1, <3>2, AtEventType
      <4> QED BY <2>1, <4>1, <4>2 DEF BacklogKnown
    <3> QED BY <3>3, <3>4
  <2> QED BY <1>9, <2>3, <2>4 DEF PopDone
<1>10. CASE PopReply
  BY <1>10 DEF PopReply, Popped, BacklogKnown, Backlog
<1>11. CASE UNCHANGED vars
  BY <1>11 DEF vars, BacklogKnown, Backlog
<1> QED
  BY <1>1, <1>2, <1>3, <1>4, <1>5, <1>6, <1>7, <1>8, <1>9, <1>10, <1>11
  DEF Next, NetStep

-----------------------------------------------------------------------------
\* The server starts with no connections.
LEMMA InitInv == Init => Inv
<1> SUFFICES ASSUME Init PROVE Inv
  OBVIOUS
<1> USE DEF Init
<1>1. TypeOK
  <2>1. 1 \in Ids /\ 1 \in Fds BY Distinct
  <2>2. connects \in 0 .. MaxClient /\ sends \in 0 .. MaxSend
    BY ServerAssumption
  <2>3. mem \in [Nodes -> [id : Ids, fd : Fds, client : Clients \union {None}]]
    BY <2>1
  <2>4. rdlist \in Seq(Items) /\ events \in Seq(Events) /\ sndq \in Seq(SndBlocks)
    OBVIOUS
  <2>5. /\ state \in [Clients -> {"off", "backlog", "conn", "gone"}]
        /\ cb \in [Clients -> {"none", "open", "closed", "wrong"}]
        /\ unread \in [Clients -> BOOLEAN] /\ hup \in [Clients -> BOOLEAN]
        /\ conn \in [Ids -> Nodes \union {None}]
        /\ fdOf \in [Fds -> Clients \union {None}]
    OBVIOUS
  <2> QED BY <2>1, <2>2, <2>3, <2>4, <2>5 DEF TypeOK
<1>2. Live = {} BY DEF Live
<1>3. NodesKnown /\ NodesApart /\ NodesReal
  BY <1>2 DEF NodesKnown, NodesApart, NodesReal
<1>4. MapConsistent /\ CallbacksPaired
  BY DEF MapConsistent, CallbacksPaired
<1>5. InOrder
  BY ServerAssumption DEF InOrder, Waiting, Clients
<1>6. NextId
  <2> SUFFICES ASSUME NEW c \in Clients, \A d \in Clients : d < c => ~Waiting(d)
               PROVE  \E q \in Nat : c = q * IdNum + m_id
    BY DEF NextId
  <2>1. 1 \in Clients /\ Waiting(1)
    BY ServerAssumption DEF Clients, Waiting
  <2>2. c = 1 BY <2>1, ServerAssumption DEF Clients
  <2>3. 0 \in Nat /\ c = 0 * IdNum + m_id BY <2>2, ServerAssumption
  <2> QED BY <2>3
<1>7. RdLive /\ EventsReal /\ BlocksKnown
  BY DEF RdLive, EventsReal, BlocksKnown, Range
<1>8. BacklogKnown BY DEF BacklogKnown, Backlog
<1> QED BY <1>1, <1>3, <1>4, <1>5, <1>6, <1>7, <1>8 DEF Inv, Core

\* The invariant of the net process.
LEMMA InvHolds == Spec => []Inv
<1>1. Inv /\ [Next]_vars => Inv'
  BY TypeStep, CoreStep, RdStep, EventsStep, BlocksStep, BacklogStep DEF Inv
<1> QED BY InitInv, <1>1, PTL DEF Spec

(***************************************************************************)
(* The state of the net process keeps its types, through stale pointers    *)
(* too: an event always points at memory that has been a connection.       *)
(***************************************************************************)
THEOREM TypeCorrect == Spec => []TypeOK
BY InvHolds, PTL DEF Inv

(***************************************************************************)
(* m_id_conn_map, the nodes and the descriptors agree in every state,      *)
(* whatever the order of accepts, closes, id conflicts and stale events.   *)
(***************************************************************************)
THEOREM MapConsistentHolds == Spec => []MapConsistent
BY InvHolds, PTL DEF Inv, Core

(***************************************************************************)
(* handle_open and handle_close are called in pairs, on every path that    *)
(* ends a connection.                                                      *)
(***************************************************************************)
THEOREM CallbacksPairedHolds == Spec => []CallbacksPaired
BY InvHolds, PTL DEF Inv, Core

(***************************************************************************)
(* When the net process waits, a client in the backlog has an event to     *)
(* come or RUNOUT is set, for any number of descriptors.                   *)
(***************************************************************************)
THEOREM BacklogRememberedHolds == Spec => []BacklogRemembered
<1>1. Inv => BacklogRemembered
  BY DEF Inv, BacklogKnown, BacklogRemembered
<1> QED BY InvHolds, <1>1, PTL

\* Clients with one id lie a whole round of ids apart.
LEMMA RoundApart ==
  ASSUME NEW N \in Nat, NEW q \in Nat, NEW r \in Nat, NEW i \in Nat,
         q * N + i >= r * N + i, q * N + i # r * N + i
  PROVE  (q * N + i) - (r * N + i) >= N
<1>1. q > r
  <2>1. CASE q = r BY <2>1
  <2>2. CASE q < r
    <3>1. PICK d \in Nat : r = q + d BY <2>2
    <3>2. r * N = q * N + d * N BY <3>1
    <3>3. d * N \in Nat /\ q * N \in Nat OBVIOUS
    <3> QED BY <3>2, <3>3
  <2> QED BY <2>1, <2>2
<1>2. PICK d \in Nat : q = r + 1 + d BY <1>1
<1>3. q * N = r * N + N + d * N BY <1>2
<1>4. d * N \in Nat /\ r * N \in Nat OBVIOUS
<1> QED BY <1>3, <1>4

(***************************************************************************)
(* A reply goes to the connection its request was attributed to, or to one *)
(* that is at least a whole round of ids younger, or to nobody: for any    *)
(* number of clients and of ids, however long the request stayed with a    *)
(* worker and however often addresses and descriptors were used again.     *)
(***************************************************************************)
THEOREM ReplyToOwnHolds == Spec => ReplyToOwn
<1> DEFINE b == Head(sndq)
           to == mem[conn[b.id]].client
           Goes == PopReply => \/ to = b.owner /\ b.ptr = conn[b.id]
                               \/ to - b.owner >= IdNum
<1>1. Inv => Goes
  <2> SUFFICES ASSUME Inv, PopReply
               PROVE  \/ to = b.owner /\ b.ptr = conn[b.id]
                      \/ to - b.owner >= IdNum
    OBVIOUS
  <2> USE DEF Inv
  <2>1. b \in SndBlocks /\ b \in Range(sndq) BY PoppedFacts DEF PopReply
  <2>2. /\ b.id \in Ids /\ b.owner \in Clients /\ conn[b.id] # None
        /\ Known(b.id, b.owner, b.ptr)
    BY <2>1 DEF SndBlocks, PopReply, BlocksKnown
  <2> HIDE DEF b
  <2>3. /\ conn[b.id] \in Nodes /\ mem[conn[b.id]].id = b.id
        /\ to \in Clients /\ state[to] = "conn"
    BY <2>2, OpenFacts
  <2>4. Known(b.id, to, conn[b.id])
    BY <2>3, Distinct DEF Core, NodesKnown
  <2>5. to >= b.owner BY <2>2 DEF Known
  <2>6. to = b.owner => b.ptr = conn[b.id] BY <2>2, <2>3 DEF Known
  <2>7. PICK q \in Nat : to = q * IdNum + b.id BY <2>4 DEF Known
  <2>8. PICK r \in Nat : b.owner = r * IdNum + b.id BY <2>2 DEF Known
  <2>9. IdNum \in Nat /\ b.id \in Nat BY <2>2, ServerAssumption DEF Ids
  <2> HIDE DEF to
  <2>10. to # b.owner => to - b.owner >= IdNum
    BY <2>5, <2>7, <2>8, <2>9, RoundApart
  <2> QED BY <2>6, <2>10
<1>2. Inv /\ [Next]_vars => [Goes]_vars BY <1>1
<1>3. [][Goes]_vars <=> ReplyToOwn BY DEF ReplyToOwn
<1> QED BY InvHolds, <1>2, <1>3, PTL DEF Spec

(***************************************************************************)
(* Bytes are never taken for those of another open connection, for any     *)
(* number of clients, descriptors and addresses: an event whose connection *)
(* was closed by on_wakeup may find another node or another socket, but a  *)
(* node that is open still leads to its own socket.                        *)
(***************************************************************************)
THEOREM OwnDataOnlyHolds == Spec => OwnDataOnly
<1> DEFINE Own == \A r \in reqs' \ reqs :
                    r.owner = r.client \/ state[r.owner] # "conn"
<1>1. Inv /\ Next => Own
  <2> SUFFICES ASSUME Inv, Next, NEW r \in reqs' \ reqs,
                      state[r.owner] = "conn"
               PROVE  r.owner = r.client
    OBVIOUS
  <2> USE DEF Inv
  <2>1. HandleRead
    <3>1. CASE PopFin \/ PopSendFails \/ HandleHup \/ HandleIoFails
      BY <3>1, ClosingSteps
    <3>2. CASE Wait \/ PopReply \/ PopDone \/ AcceptDone \/ HandleOther \/ Connect
      BY <3>2 DEF Wait, PopReply, Popped, PopDone, AcceptDone, HandleOther,
           Connect
    <3>3. ASSUME NEW c \in Clients,
                 \/ AcceptRefused(c) \/ AcceptOk(c) \/ AcceptCtlFails(c)
                 \/ AcceptConflict(c) \/ Send(c) \/ HangUp(c)
          PROVE  reqs' = reqs
      BY <3>3 DEF AcceptRefused, AcceptOk, AcceptCtlFails, AcceptConflict,
           Accepting, Send, HangUp
    <3>4. ASSUME NEW q \in reqs, WorkerReply(q) \/ WorkerFails(q)
          PROVE  reqs' \subseteq reqs
      BY <3>4 DEF WorkerReply, WorkerFails, WorkerPush
    <3> QED BY <3>1, <3>2, <3>3, <3>4 DEF Next, NetStep
  <2>2. PICK n : n = Head(events).ptr OBVIOUS
  <2>3. r = [id |-> Here.id, ptr |-> n, owner |-> Here.client, client |-> There]
    BY <2>1, <2>2 DEF HandleRead
  <2>4. n \in Nodes /\ mem[n].client \in Clients
    BY <2>1, <2>2, ReadFacts
  <2>5. Here = mem[n] /\ r.owner = mem[n].client /\ r.client = fdOf[mem[n].fd]
    BY <2>2, <2>3 DEF Here, There
  <2>6. Known(mem[n].id, mem[n].client, n)
    BY <2>4, Distinct DEF Core, NodesKnown
  <2>7. conn[mem[n].id] = n /\ mem[n].id \in Ids /\ n # None
    BY <2>4, <2>5, <2>6, Distinct DEF Known, TypeOK
  <2>8. fdOf[mem[n].fd] = mem[n].client BY <2>7, OpenFacts
  <2> QED BY <2>5, <2>8
<1>2. Inv /\ [Next]_vars => [Own]_vars BY <1>1
<1>3. [][Own]_vars <=> OwnDataOnly BY DEF OwnDataOnly
<1> QED BY InvHolds, <1>2, <1>3, PTL DEF Spec
=============================================================================
