-------------------------- MODULE BarrierRingQueue --------------------------
(***************************************************************************)
(* The barrier ring queue of newbench (pkg-filter/balanced): a ring of     *)
(* packet bytes and, for each packet in it, a node.  Packets are pushed    *)
(* with a key and a flag.  A packet with a non-zero flag is a barrier      *)
(* packet: while one of a key is being processed its node is in the        *)
(* red-black tree, and later packets of that key wait in the homo_list of  *)
(* that node.  All of it is in shared memory; what a process keeps for     *)
(* itself is the barrier node it got last.                                 *)
(*                                                                         *)
(* This module is the data structure; each operator below changes the      *)
(* queue as one critical section of the code does.  Newbench.tla has the   *)
(* processes that call them under g_rcv_rq_lock.                           *)
(*                                                                         *)
(* The used list (a circular list with the pointers p_head and             *)
(* p_read_head) is kept as two sequences: taken, the nodes before          *)
(* p_read_head, and unread, the rest.  The empty list and the reserve are  *)
(* the set free.  The fields of a free node are not kept: push writes all  *)
(* of them before any is read.                                             *)
(***************************************************************************)
EXTENDS Integers, Sequences, FiniteSets, Functions, NodeLists

CONSTANTS
  Nodes,        \* the assist_array_nodes
  Keys,         \* barrier keys (the player number, in the games)
  Pids,         \* process ids of work processes
  BufferLen,    \* ring_queue.buffer_len, one more than rq_length
  Barrier,      \* a flag > 0 returned by handle_dispatch
  Plain,        \* the flag 0
  NULL          \* the null pointer

ASSUME BarrierAssumption ==
  /\ IsFiniteSet(Nodes) /\ Nodes # {} /\ Keys # {}
  /\ NULL \notin Nodes /\ NULL \notin Pids
  /\ Barrier \notin Pids /\ Plain \notin Pids /\ Barrier # Plain
  /\ BufferLen \in Nat /\ BufferLen > 1

VARIABLES
  free,         \* empty_list and reserve
  taken,        \* used_list from p_head up to p_read_head
  unread,       \* used_list from p_read_head on
  tree,         \* nodes in rb_tree
  homo,         \* homo_list of each node in the tree
  key, flag,    \* of each node in use; flag is Plain, Barrier or a pid
  addr, length, \* place of each node's packet in the ring
  head_index,   \* ring_queue.head_index
  tail_index,   \* ring_queue.tail_index
  last          \* per process: m_p_assist_array_node if m_last_flag, or NULL

queueVars ==
  <<free, taken, unread, tree, homo, key, flag, addr, length,
    head_index, tail_index>>
brqVars == <<queueVars, last>>

NoKey == CHOOSE k \in Keys : TRUE

\* init(): everything empty, before the processes are forked
BrqInit ==
  /\ free = Nodes
  /\ taken = <<>>
  /\ unread = <<>>
  /\ tree = {}
  /\ homo = [n \in Nodes |-> <<>>]
  /\ key = [n \in Nodes |-> NoKey]
  /\ flag = [n \in Nodes |-> Plain]
  /\ addr = [n \in Nodes |-> 0]
  /\ length = [n \in Nodes |-> 0]
  /\ head_index = 0
  /\ tail_index = 0
  /\ last = [w \in Pids |-> NULL]

Used == taken \o unread

-----------------------------------------------------------------------------
(* Helpers of the private part of the class *)

\* variant: the head index moves over the deleted packets wherever they are
MoveHeadByLength(newUsed, S) ==
  head_index' = (head_index + length[CHOOSE n \in S : TRUE]) % BufferLen

\* used_list_del + move_ring_queue_head_index: the ring's head index moves
\* only when the head of the used list is among the nodes deleted
MoveHead(newUsed, S) ==
  head_index' = IF Head(Used) \notin S THEN head_index
                ELSE IF newUsed = <<>> THEN tail_index
                ELSE addr[Head(newUsed)]

\* push_empty_list_node for each node of S; their fields are dead from now on
Recycle(S) ==
  /\ free' = free \union S
  /\ addr' = [n \in Nodes |-> IF n \in S THEN 0 ELSE addr[n]]
  /\ length' = [n \in Nodes |-> IF n \in S THEN 0 ELSE length[n]]
  /\ key' = [n \in Nodes |-> IF n \in S THEN NoKey ELSE key[n]]

\* rb_search
InTree(k) == {t \in tree : key[t] = k}

\* rb_search_4pid
OwnedBy(p) == {t \in tree : flag[t] = p}

\* variant: is_able_pop looks only at the read head
IsAblePopUnread(w) == unread # <<>>

\* is_able_pop, as process w sees it
IsAblePop(w) ==
  \/ unread # <<>>
  \/ last[w] # NULL /\ homo[last[w]] # <<>>

-----------------------------------------------------------------------------
(* push *)

\* a ring that is never filled to the last byte: head = tail means empty
EmptyBufferLen ==
  IF tail_index >= head_index
    THEN BufferLen - (tail_index - head_index) - 1
    ELSE head_index - tail_index - 1

HasRoom(l) == l <= EmptyBufferLen

\* the bytes are copied behind tail_index, in two parts when they reach the end
NewTail(l) ==
  IF tail_index >= head_index /\ l >= BufferLen - tail_index
    THEN l - (BufferLen - tail_index)
    ELSE tail_index + l

\* push, once there is a node: the bytes are copied and a node from the empty
\* list describes them at the end of the used list
Enqueue(k, f, l) ==
  /\ HasRoom(l)
  /\ \E n \in free :
       /\ free' = free \ {n}
       /\ key' = [key EXCEPT ![n] = k]
       /\ flag' = [flag EXCEPT ![n] = f]
       /\ addr' = [addr EXCEPT ![n] = tail_index]
       /\ length' = [length EXCEPT ![n] = l]
       /\ tail_index' = NewTail(l)
       /\ unread' = Append(unread, n)
       /\ UNCHANGED <<taken, tree, homo, head_index, last>>

-----------------------------------------------------------------------------
(* pop: the parts of pop_used_list_node.  The branches for a buffer that is *)
(* too short are left out: a worker's buffer holds the longest packet that  *)
(* on_recv_data lets through.                                               *)

\* variant: the node that takes over keeps the flag it was pushed with
HandoverNoPid(w) ==
  LET old == last[w]
      new == Head(homo[old])
      newTaken == Without(taken, {old})
  IN /\ homo[old] # <<>>
     /\ tree' = (tree \ {old}) \union {new}
     /\ homo' = [homo EXCEPT ![new] = Tail(homo[old]), ![old] = <<>>]
     /\ flag' = [flag EXCEPT ![old] = Plain]
     /\ taken' = newTaken
     /\ MoveHead(newTaken \o unread, {old})
     /\ Recycle({old})
     /\ last' = [last EXCEPT ![w] = new]
     /\ UNCHANGED <<unread, tail_index>>

\* the next packet of the key takes the place of the finished one in the tree
Handover(w) ==
  LET old == last[w]
      new == Head(homo[old])
      newTaken == Without(taken, {old})
  IN /\ homo[old] # <<>>
     /\ tree' = (tree \ {old}) \union {new}
     /\ homo' = [homo EXCEPT ![new] = Tail(homo[old]), ![old] = <<>>]
     /\ flag' = [flag EXCEPT ![new] = w, ![old] = Plain]
     /\ taken' = newTaken
     /\ MoveHead(newTaken \o unread, {old})
     /\ Recycle({old})
     /\ last' = [last EXCEPT ![w] = new]
     /\ UNCHANGED <<unread, tail_index>>

\* nothing waits behind the finished packet: its key is unlocked.  m_last_flag
\* and the pointer keep their values until the read loop ends.
Release(w) ==
  LET old == last[w]
      newTaken == Without(taken, {old})
  IN /\ homo[old] = <<>>
     /\ tree' = tree \ {old}
     /\ flag' = [flag EXCEPT ![old] = Plain]
     /\ taken' = newTaken
     /\ MoveHead(newTaken \o unread, {old})
     /\ Recycle({old})
     /\ UNCHANGED <<unread, homo, tail_index, last>>

\* the read loop finds nothing to read
TakeNothing(w) ==
  /\ unread = <<>>
  /\ last' = [last EXCEPT ![w] = NULL]
  /\ UNCHANGED queueVars

\* the node at the read head
Front == Head(unread)

\* variant: what rb_insert returns is ignored
ConflictIgnored == FALSE

\* rb_insert finds the key of that node in the tree
Conflict == InTree(key[Front]) # {}

\* a packet without barrier leaves the queue at once
TakePlain(w) ==
  /\ unread # <<>>
  /\ flag[Front] = Plain
  /\ unread' = Tail(unread)
  /\ MoveHead(taken \o Tail(unread), {Front})
  /\ Recycle({Front})
  /\ last' = [last EXCEPT ![w] = NULL]
  /\ UNCHANGED <<taken, tree, homo, flag, tail_index>>

\* variant: list_add in place of list_add_tail
JoinHomoFirst(t, n) == <<n>> \o homo[t]

\* list_add_tail on the homo_list of t
JoinHomo(t, n) == Append(homo[t], n)

\* its key is being processed: it waits in that node's homo_list
TakeConflict ==
  /\ unread # <<>>
  /\ flag[Front] # Plain
  /\ Conflict
  /\ \E t \in InTree(key[Front]) :
       homo' = [homo EXCEPT ![t] = JoinHomo(t, Front)]
  /\ unread' = Tail(unread)
  /\ taken' = Append(taken, Front)
  /\ UNCHANGED <<free, tree, key, flag, addr, length, head_index,
                 tail_index, last>>

\* it becomes the packet its key is locked by, and w the owner
TakeBarrier(w) ==
  /\ unread # <<>>
  /\ flag[Front] # Plain
  /\ ~Conflict
  /\ tree' = tree \union {Front}
  /\ homo' = [homo EXCEPT ![Front] = <<>>]
  /\ flag' = [flag EXCEPT ![Front] = w]
  /\ unread' = Tail(unread)
  /\ taken' = Append(taken, Front)
  /\ last' = [last EXCEPT ![w] = Front]
  /\ UNCHANGED <<free, key, addr, length, head_index, tail_index>>

\* pop copies the packet of node n from these cells, in this order
PopCells(n) ==
  [i \in 1..length[n] |->
     IF addr[n] <= tail_index \/ length[n] < BufferLen - addr[n]
        \/ i <= BufferLen - addr[n]
       THEN addr[n] + i - 1
       ELSE i - 1 - (BufferLen - addr[n])]

-----------------------------------------------------------------------------
(* clean_4pid: the tree node of a pid and all that waits behind it go *)

\* variant: the nodes that wait behind the tree node are left in the used list
CleanNodeOnly(t) ==
  LET newTaken == Without(taken, {t})
  IN /\ tree' = tree \ {t}
     /\ homo' = [homo EXCEPT ![t] = <<>>]
     /\ flag' = [flag EXCEPT ![t] = Plain]
     /\ taken' = newTaken
     /\ MoveHead(newTaken \o unread, {t})
     /\ Recycle({t})
     /\ UNCHANGED <<unread, tail_index>>

Clean(t) ==
  LET gone == {t} \union Range(homo[t])
      newTaken == Without(taken, gone)
  IN /\ tree' = tree \ {t}
     /\ homo' = [homo EXCEPT ![t] = <<>>]
     /\ flag' = [n \in Nodes |-> IF n \in gone THEN Plain ELSE flag[n]]
     /\ taken' = newTaken
     /\ MoveHead(newTaken \o unread, gone)
     /\ Recycle(gone)
     /\ UNCHANGED <<unread, tail_index>>

Clean4pid(p) ==
  IF OwnedBy(p) = {} THEN UNCHANGED queueVars
                     ELSE \E t \in OwnedBy(p) : Clean(t)
=============================================================================
