# TLA+ models of the taomee server infrastructure

The repository is the source monorepo of an online-game company. The game
products (`boke`, `gf`, `mole`, `mole2`, `monster`, `pea`), the monitoring
tools (`itl`) and the picture server (`pic_server`) are applications; they run
as plug-ins of, or beside, a common server infrastructure under `c/library`.
This project models that infrastructure: **newbench**, the multi-process server
framework (`c/library/newbench/trunk`), and **ring-queue**, the shared-memory
queue library it is built on (`c/library/ring-queue/trunk`).

## 1. Inventory

A running newbench server is one main process, one net process and
`worker_num` work processes, forked from the main process and sharing memory
that was mapped before the fork.

    clients <-TCP-> net process --push--> receive queue --pop--> work processes
                        ^                (barrier or variable)        |
                        |                                             |
                        +---pop--- send queue (variable) <---push-----+
                        +<--pipe-- notifier.popup() <-----------------+
    main process: waitpid, clean_4pid on the barrier queue, respawn

| Component | Source | State | Operations | Correct when |
|---|---|---|---|---|
| afutex | `newbench/trunk/src/afutex.h` | one int per mutex in shared memory, sleepers in the kernel | trylock, lock, unlock | one owner, no lost wakeup, somebody gets in |
| ring queue | `ring-queue/trunk/ring_queue.cpp` | byte buffer, `read_index`, `write_index` | push_data, pop_data, pop_data_dummy, get_data_len | bytes in order, neither side touches the other's cells |
| variable / fixed queue | `variable_queue.cpp`, `fixed_queue.cpp` | the ring queue plus a length prefix | the same, by whole messages | a bounded first-in first-out queue of whole messages that keeps moving |
| waitable queue | `waitable_queue.cpp` | a pipe of wake-up tokens | push + token, pop with select | no consumer sleeps over a packet |
| multi-pop queue | `multipopable_queue.cpp` | a process-shared semaphore | push and pop under the semaphore | each packet is popped once, in order |
| barrier ring queue | `newbench/trunk/src/pkg-filter/balanced` | ring of packet bytes, used list with a read head, empty list and reserve, tree of the keys in processing with the packets queued behind each | push, pop, clean_4pid, clean_4key, is_able_pop | one worker per key, in order; nodes and bytes accounted for; a crash frees what it held |
| net-io-server | `net-io-server/net_io_server.cpp` | `m_id_conn_map`, ids, for each connection a chain of unprocessed and one of unsent blocks | do_io (accept, read, write, close), send_data, close_connection | the bytes of a connection in order, no edge triggered event wasted, no client forgotten, the plug-in told of each end once |
| net process | `net_proc.cpp`, `newbench_io_event.cpp` | the packet being cut, the block being sent | on_recv_data, on_wakeup, the send loop | packets as the client sent them, replies to the right connection |
| notifier | `net_io_notifier.cpp` | a flag in shared memory and a pipe | popup, got | a pushed reply wakes the net process |
| work process | `work_proc.cpp` | packet in hand, `m_last_flag`, `m_p_assist_array_node` | the pop / handle_process / reply loop | never follows a stale node pointer |
| main process | `newbench.cpp` | the children | reap, clean_4pid, respawn | crashed workers are cleaned up after and replaced |

What is hard here: everything shared is plain memory guarded by one futex, or
by nothing (`is_able_pop`, the send queue's consumer); a worker can be killed
anywhere, leaving shared structures that refer to it and private pointers that
refer to them; two other processes may clean up after it; rings wrap; and an
idle process waits by polling a condition that somebody else has to make true.
`PROJECT.json` lists the hazards one by one with the line where each bites.

## 2. Modules

| Module | Models | Notes |
|---|---|---|
| `Mutex` | what a mutex promises | abstract; its one variable is the set of owners |
| `Afutex` | `afutex.h` | each builtin and system call is an action; `pc` is the place in lock/unlock |
| `NodeLists` | `list_del` on a list as a sequence | no recursion, so that it can be proved about |
| `BarrierRingQueue` | the data structure `c_barrier_ring_queue` | one operator for each branch of push, pop and clean_4pid |
| `Newbench` | the processes of the barrier mode around that queue | EXTENDS `BarrierRingQueue` |
| `PacketQueue` | what a `c_variable_queue` promises | abstract |
| `RingQueue` | `c_variable_queue` on `c_ring_queue` as the send queue | one producer, one consumer, byte by byte |
| `ByteStream` | what one direction of a TCP connection promises | abstract |
| `MemBlocks` | the block chains of `conn_info_t` | operators; a byte is its position in the stream |
| `SendBuffer` | the sending half of a connection | EXTENDS `MemBlocks` |
| `RecvBuffer` | the receiving half | EXTENDS `MemBlocks`, implements `ByteStream` |
| `PacketInput` | `on_recv_data` | EXTENDS `RecvBuffer` and implements it |
| `Notifier` | `net_io_notifier.cpp` | each builtin and system call a step |
| `ReplyPath` | workers, send lock, send queue, notifier, loop of the net process | EXTENDS `Notifier` |
| `NetIoServer` | connections, ids, events and their pointers, accept, replies | |
| `WaitableQueue` | `c_multipopable_queue` around `c_waitable_queue` | |
| `PlainServer` | the whole server in the plain mode, with restarts | |
| `MCAfutex`, `MCNewbench`, `MCRingQueue`, `MCPacketInput` | instances for TLC | the other modules need none |
| `NodeListsProof`, `NewbenchProof`, `ReplyPathProof`, `NetIoServerProof`, `WaitableQueueProof`, `RingQueueProof`, `ConnectionProof`, `PlainServerProof` | theorems | `ReplyPathProof` has those of `Afutex` as well, `ConnectionProof` those of `SendBuffer`, `RecvBuffer` and `PacketInput` |

**Afutex.** `Sleepers` is the kernel's wait queue. `Interrupted` is FUTEX_WAIT
returning without a wake-up. A process holds the mutex until its unlock has
stored 0; the fetch-and-sub of a contended unlock does not release it.

**BarrierRingQueue.** The circular used list with the pointers `p_head` and
`p_read_head` is two sequences, `taken` (before the read head) and `unread`.
The empty list and the reserve are the set `free`: which free node push takes
is left open. The red-black tree is the set `tree` of its nodes, `homo` has the
homo_list of each. `flag` is `Plain` (0), `Barrier` (what `handle_dispatch`
returned) or the pid that pop wrote over it. `addr`, `length`, `head_index` and
`tail_index` are the code's, and the bytes of a packet are the cells they
denote. `last[w]` is the worker's private `m_p_assist_array_node` while
`m_last_flag` is set, and `NULL` otherwise. Fields of a free node are reset,
as push writes all of them before any is read.

**Newbench.** `lock` is `g_rcv_rq_lock`; that the futex can be replaced by one
variable is what `AfutexImplementsMutex` proves. `WorkerCheck` is the unlocked
`is_able_pop`; `WorkerLock` to the `Scan...` actions are lock, pop, unlock, with
each round of pop's read loop a step, because `is_able_pop` of another worker
may look at the queue in between. `WorkDone` is the return of
`handle_process`. `WorkerCrash` takes the worker's private state and leaves the
shared state as it is. The net process is `NetLock` and the four outcomes of
push: one round of the self-cleaning loop (`PushSelfClean`), no node, no room,
done. Main reaps, locks, cleans, forks and waits for the new worker's word on
the pipe (`told`); when the fork or the worker's `handle_init` fails, main
returns and is "stopped". `kill(pid, 0)` succeeds for a zombie, hence
`NoSuchProcess` is true only once the worker has been reaped, by main or, after
main has stopped, by the system (`OrphanReaped`). A new worker may then get the
pid of any worker that has been reaped, a crashed one ("dead") or one that
exited with status 0 ("gone"), whose node main has left in the tree; `Clean4pid`
frees one of the nodes with a pid, any one, as `rb_search_4pid` finds the one
the shape of the tree puts first.

**RingQueue.** A cell holds a packet's name and the number of the byte, so that
mixed or torn packets show. The producer takes one snapshot of `read_index`;
the consumer peeks at the length field, checks that the whole packet is there,
copies it and publishes `read_index`. The history variable `queue` is the
packets published and not yet released. Several workers push, one at a time
under `g_snd_rq_lock`, so one producer stands for them all. The net process pops
in two places with buffers of two lengths (`newbench_io_event.cpp:289`,
`net_proc.cpp:75`): `RecvLens` is their set, and a pop has one of them.

**SendBuffer, RecvBuffer.** Chains are sequences of blocks, offsets and lengths
are the code's. The socket is `room` (send) or `arrived` (receive), and
`writable`/`readable` say whether epoll has an edge to report; an edge comes
when the peer reads after a failed send, or sends. What the kernel takes of a
buffered block is all of it (`FlushWhole`) or some (`FlushPart`, which sets the
history variable `cut`). After a partial flush the code's counters may go
negative; C's `%` is then negative too, and the copy goes outside the block:
`spc` is "undefined" from there on (`CopyWild`).
The handler of `RecvBuffer` leaves any number of bytes up to `MaxLeft`.

**PacketInput.** The handler is now the loop of `on_recv_data`, one turn a step.
`Ends` gives the positions in the client's stream at which its packets end.
`handle_input` is external: it finds the packet's length in the first
`HeaderLen` bytes. `ImplementsRecvBuffer` says that this handler is one of those
that `RecvBuffer` allows for.

**Notifier, ReplyPath.** A worker takes the send lock, pushes or finds the
queue full, unlocks, and rings: test-and-set of the flag, then one byte. The net
process waits (`WaitNotified`, or `WaitTimeout` after 4 ms), empties the queue
in on_wakeup, releases the flag, reads the byte, and empties the queue again.
The block is a reply (DAT) or a request to close (FIN).

**NetIoServer.** `conn` maps an id to a node, `mem` is what lies at a node's
address, and an event holds the address (`data.ptr`), so that an event may
outlive its connection. Requests and replies carry the id and, as a history, the
connection they were attributed to. The reading and sending of bytes is one step
here; its detail is in the two buffers. After a read the same event is looked at
for EPOLLOUT (its kind becomes "out"), and recv_data, on_recv_data or the
flush of the send buffer may fail and close (`HandleIoFails`). `rdlist` is
epoll's list of ready descriptors: an entry goes in with an edge and comes out
with epoll_wait.

**WaitableQueue.** The look without the semaphore takes two steps, for each
index one; a pop in between (`raced`) leaves the outcome open. Copy and removal
are two steps under one semaphore.

**PlainServer.** A queue is a sequence of packets. Copying a packet and moving
the read index are two steps, so that a worker can be killed between them;
pushing is one, because an atomic push that is cut short leaves the queue as it
was. `life` numbers the net processes. Restarts succeed here: what happens when
they do not is in Newbench. `Negative` is the id by which a plug-in asks
close_connection for all connections.

Operators marked *variant* beside a definition are plausible wrong versions of
it. They are not part of the model; each property has one that breaks it.

## 3. Runs

| Run | Instance | Checks | Result |
|---|---|---|---|
| `afutex` | 4 processes | `MutualExclusion`, `NoSleeperLost`, `SomeoneEnters`, `ImplementsMutex` | hold |
| `newbench` | 3 nodes, 2 keys, 2 pids, 2 workers, a ring of 5 cells, packets of 1 and 2 bytes, 2 crashes, 1 normal exit; nodes and pids symmetric | `KeyExclusion`, `NoStalePointer`, `NodesAccounted`, `KeyOrder`, `HeadHasOwner`, `LockedForSomebody`, `PacketsIntact` | hold |
| `newbench_live` | 3 nodes, 1 key, 2 pids, 4 cells, packets of 1 byte, 1 crash | `EveryPacketServed`, `CrashedIsCleaned` | hold |
| `newbench_wedge` | 3 nodes, 2 keys, 2 pids, 4 cells, no crash | `PushesResume` | violated, finding 1 |
| `ring_queue` | packets of 3, 4, 5 bytes, ring of 11 cells, a length field of 2, pops with room for 5 and for 6 bytes | `RingSound`, `ImplementsQueue`, `PopsGoOn` | hold |
| `send_buffer` | messages of 1, 2, 4, 5 bytes, 9 in all, blocks of 3, a socket buffer of 4 | `BufferSound`, `BufferDrains` | hold |
| `send_partial` | the same, 10 bytes, a socket buffer of 3 | `PeerGetsStream` | violated, finding 5 |
| `packet_input` | packets of 2, 3, 4, 2, 5 bytes in any portions, the last over `MaxPkgLen` = 4, a header of 2, blocks of 3 | `InputSound`, `PacketsAsSent`, `ImplementsRecvBuffer`, `StreamSpec`, `EveryPacketPushed` | hold |
| `reply_path` | 2 workers, 3 blocks, a queue of 2, 1 crash anywhere | `NoLostWakeup`, `PipeNeverFills`, `EveryBlockLeaves`, `FinArrives`, `WorkersComeBack` | hold |
| `net_io_server` | 3 clients, 2 requests, 2 descriptors, 2 addresses, 2 ids | `MapConsistent`, `CallbacksPaired`, `BacklogRemembered`, `ReplyToOwn`, `OwnDataOnly`, `BacklogServed` | hold |
| `waitable` | 2 consumers that come back, 2 producers, 3 packets, a queue and a pipe of 2, reads of up to 2 bytes, 1 signal | `EachOnce`, `NotAllAsleep`, `EveryPacketPopped` | hold |
| `plain` | 2 workers, 2 clients, 2 requests, a receive queue of 2 and a send queue of 1, 2 workers and 1 net process killed anywhere | `Accounted`, `OwnInOneLife`, `ServerGoesOn` | hold |

Twelve further configurations are kept as counterexamples. Each checks one
formula that a reader of the code or its docs may expect and that the code does
not give; TLC violates every one of them. The listed runs check what holds
instead.

| Module | Configuration | Violated | What holds instead | Finding |
|---|---|---|---|---|
| `MCNewbench` | `CrashInsideNewbench` | `CrashedIsCleaned` | the same, for crashes outside the lock | 2 |
| `MCNewbench` | `CrashInitNewbench` | `CrashedIsReaped` | `LockedForSomebody`, in which a worker nobody has reaped still counts | 3 |
| `MCNewbench` | `ReusedPidNewbench` | `NothingLeftBehind` | `LockedForSomebody` | 14 |
| `MCRingQueue` | `BigRingQueue` | `PopsGoOn` | the same, when the consumer's buffer holds every packet | 4 |
| `RecvBuffer` | `FinRecvBuffer` | `SentBeforeCloseIsShown` | `EveryPacketPushed`, of a connection that stays | 6 |
| `ReplyPath` | `FullReplyPath` | `FailedClientCloses` | `FinArrives` | 7 |
| `ReplyPath` | `CrashReplyPath` | `ProcessingGoesOn` | `WorkersComeBack` | 8 |
| `NetIoServer` | `StaleNetIoServer` | `DataAttributed` | `OwnDataOnly` | 9 |
| `WaitableQueue` | `SleepWaitableQueue` | `DataWakes` | `EveryPacketPopped`, with consumers that come back | 10 |
| `PlainServer` | `RestartPlainServer` | `ActsOnOwn` | `OwnInOneLife` | 11 |
| `PlainServer` | `AllPlainServer` | `NegativeClosesAll` | nothing | 12 |
| `PlainServer` | `CrashPlainServer` | `EveryRequestHandled` | `ServerGoesOn` | 13 |

*Bounds.* Three nodes suffice for a packet in processing, one that waits behind
it and one of another key, and for the empty list to run out. Five cells with
packets of one and two bytes meet a full ring, a packet that ends exactly at the
end of the buffer and one that is split. Two pids suffice for two workers: once
a worker has exited or crashed its successor has its pid, and when no node of
the tree carries that pid any more it is as good as a fresh one (with three pids
TLC finds as many states up to symmetry). Two crashes and one exit are what it
takes for a clean-up that frees the wrong one of two nodes: the exit leaves a
node, the first crash makes room for a worker with its pid, the second is that
worker's. Crashes and exits are bounded by `MaxCrash` and `MaxExit`.
`newbench_live` has one crash and no exit on purpose: the key of a worker that
has exited stays locked and its packets wait; and when the
replacement of a crashed worker fails, main stops or (finding 3) hangs, and
nobody cleans up after a second crash unless a push without free nodes does.
In the ring queue the packet lengths have no common divisor with the ring, so
that the length field and the packet are split at every offset.

In the buffers the messages are shorter and longer than a block and not its
multiples, the socket takes more than one block and less than two, and the bytes
suffice for three blocks, so that data begins and ends at each place of a block.
Three clients on two descriptors and two ids meet a server without descriptors,
an id that has come round while its old owner lives (a conflict) or is gone, and
an address used again (two requests suffice for one that is answered late and
one that is read by a stale event). Two consumers suffice for a race, and three
packets in a queue and a pipe of two for both to be full; a read of two bytes
takes the tokens of two pushes. In the plain mode two clients suffice for an id
that changes hands with a restart, two requests for two workers that go for one
packet, and with two workers killed the first may leave the lock to nobody or
all workers may have been replaced.

*What the properties say.* `KeyExclusion` is the purpose of the barrier.
`KeyOrder` is the order of the packets of a key. `NoStalePointer`,
`LockedForSomebody` and `HeadHasOwner` relate the private pointers, the tree and
the life of the processes: a worker that runs owns what it points to; a key is
locked only on behalf of somebody (a worker that has its packet, one that has
crashed and that main is yet to clean up after, or one whose main has stopped),
but for one key for each worker that exited with status 0; and the node at the
head that push asks kill() about carries a pid. `NodesAccounted` says that the
lists, the tree and the homo lists divide the nodes among them; `PacketsIntact` that pop reads what
push wrote and that no two packets share a cell. `EveryPacketServed` and
`CrashedIsCleaned` are about a server whose clients pause; without that premise
a net process that pushes again and again could keep the lock from the others,
which the futex does not exclude.

`RingSound` has the types of the ring queue (indices inside the buffer) and
`WriterStaysOut`: what the producer writes, on a stale `read_index`, is never a
cell the consumer reads. `BufferSound` and `InputSound` join the types of a
buffer with `NothingLost` or `SendNothingLost` (the bytes in the chain are those
between what has gone out and what has come in) and `ChainFits` or
`SendChainFits` (the chain has exactly the blocks its bytes need); in the send buffer as long as no block has been taken in part, which
is finding 5. `InputSound` has `NoPacketLeft` as well: on_recv_data looks again
only when more bytes come, so it must not leave a complete packet. `StreamSpec`
is `ByteStream` as the receive chain implements it. `BufferDrains` and
`EveryPacketPushed` are about edge triggered events: none may be used up before
the work is done.

`NoLostWakeup` says that a reply waits only while a bell is on its way, unless a
worker died between flag and byte; the 4 ms timeout covers that case, which is
why `EveryBlockLeaves` has no exception. `FinArrives` says that a request to
close reaches the net process unless the queue was full on the way or somebody
was killed; `WorkersComeBack` that only a worker killed with the send lock keeps
others from the next packet. `BacklogRemembered` says that a client that was not
accepted for want of descriptors is remembered; `BacklogServed` that it is
accepted (the backlog is empty again and again), if the server has a free
descriptor and an event again and again: the code retries accept only with the
first event of a round. `OwnDataOnly` says
that no open connection is given the bytes of another, although an event may
outlive its connection and the address may be used again; `ReplyToOwn` that a
reply reaches the connection its request was attributed to, as long as the id
has not come round (with closes in on_wakeup the attribution itself may be
wrong, finding 9). `Accounted` counts the places a packet of the plain mode is
in. `ServerGoesOn` says that every packet of the plain mode is dealt with unless
a worker was killed with the receive lock, and that the send queue is emptied
again and again whoever is killed. `OwnInOneLife` is what remains true of
`ActsOnOwn` (finding 11).

*Fairness.* Weak fairness for the steps of each worker, of main, and of the net
process once it is inside push: the kernel schedules every process, and neither
the queue's operations nor (by its contract) the plug-in's `handle_process`
block. There is none for `NetLock`, because clients need not send, nor for
crashes and exits. `newbench_wedge` assumes more, strong fairness of taking the
lock, so that what it shows is not starvation at the lock. In the ring queue
the net process keeps popping (its epoll_wait returns after 4 ms at the latest)
and a push that has begun ends. In `Afutex` a process that holds or wants the
lock keeps running.

In the buffers, in `NetIoServer` and in `ReplyPath` the net process goes on with
what it has begun and with the events it is given; for `BufferDrains` the peer
goes on reading as well, for without that TCP itself stops. Clients need neither
connect nor send. In `ReplyPath` and `PlainServer` workers that live go on and
main starts others for those that do not; nobody is obliged to crash or to send.
In `WaitableQueue` a call that has been made goes on, and who waits for the
semaphore gets it when it is free again and again (glibc's semaphore is not
handed over, but nobody here holds it for long); only `LoopSpec` adds consumers
that come back.

## 4. Findings

Behind each is the run or the configuration of section 3 that shows it.

1. **Idle workers wedge a full ring** (`newbench_wedge`). A worker returns the
   node of a finished barrier packet in its next pop, and calls pop only when
   `is_able_pop` sees something to read or something of the same key. When that
   node is at the head of the ring and the ring is full behind it (packets in
   between that are done do not free their bytes), every push fails, nothing
   becomes readable, and the workers poll for ever. Push's self-cleaning does
   not help: it runs only when the nodes run out, and the owner is alive.
2. **A crash inside pop stops the server** (`CrashInsideNewbench`). The futex
   has no owner; main waits for it before it cleans up.
3. **A crash in `handle_init` stops the restarts** (`CrashInitNewbench`). Main
   reads one byte from the worker it has forked and has the writing end of that
   pipe open itself, so it never sees an end of file: it hangs in
   `spawn_work_proc` and reaps, cleans and restarts nobody any more.
4. **A packet too long for the net process blocks all replies**
   (`BigRingQueue`). `pop_data` refuses it and leaves it where it is.
5. **A partial send repeats bytes** (`send_partial`). When the kernel takes a
   part of a buffered block, the length shrinks and the offset stays: the peer
   gets those bytes again and the block's last bytes never.
6. **What a client sends before it closes is thrown away** (`FinRecvBuffer`). The
   event with EPOLLRDHUP closes first, and recv_data returns 0 at the end of
   file whatever it has read.
7. **A full send queue swallows a close** (`FullReplyPath`). The FIN block is
   dropped and the client stays, although handle_process has given it up.
8. **A crash inside the send lock stops the workers** (`CrashReplyPath`). Nothing
   ever releases it; the net process, which pops without it, goes on.
9. **Events of closed connections** (`StaleNetIoServer`). on_wakeup may close a
   connection whose event is already in the array; the event is then handled on
   a freed node, or on the one that took its place.
10. **A consumer takes another one's tokens** (`SleepWaitableQueue`). With one read it
    takes the bytes of several pushes; if it does not come back, others sleep
    over the rest. While somebody comes back nothing stays (run `waitable`).
11. **A restart of the net process mixes clients** (`RestartPlainServer`). Ids start
    from 1 again and the queues keep what they had, in both modes.
12. **Closing all connections closes none** (`AllPlainServer`).
    `newbench_util.h` documents a negative id; the code looks it up.
13. **A crash inside pop stops the plain mode as well** (`CrashPlainServer`). Main
    restarts the worker, which waits for the lock like the others.
14. **A clean-up may free the wrong node** (`ReusedPidNewbench`). A normal exit of
    a worker (status 0, after SIGTERM) is neither cleaned up after nor replaced
    (`newbench.cpp:403`), so the node it had stays in the tree with its pid. When
    a later worker gets that pid, takes a packet of another key and crashes, two
    nodes carry the pid; `rb_search_4pid` (`c_barrier_ring_queue.h:530`) finds
    one, and `clean_4pid` frees that one only, where the comment at
    `newbench.cpp:427` wants everything of the process cleaned. The other key
    stays locked until the pid is cleaned again or a push without free nodes
    meets its node at the head. `LockedForSomebody` bounds the damage: each
    normal exit costs at most one key, whichever it is, and no crash adds to it.

Two smaller disagreements have no run: `i_net_io_server.h:106` documents the
result of on_recv_data as ">0: close, <=0: bytes left", and code and plug-in use
the opposite signs; the comment at `net_proc.cpp:95` says that do_io waits for
1 ms, and the call says 4.

Because of finding 14 `LockedForSomebody` excepts as many keys as there were
normal exits. It also counts a crashed worker whose main has stopped as somebody
(`LockedFor`): main then leaves the server running without it.

## 5. Proofs

All theorems are for every value of the constants, under the assumptions named
in the modules. `BarrierAssumption` and `NewbenchAssumption`: nodes finite and
non-empty, the null pointer no node or pid, flags no pids, a ring of at least
one usable byte, packets of at least one byte. `ReplyAssumption`,
`ServerAssumption`, `WaitableAssumption`, `PlainAssumption`: sizes are natural
numbers, a pipe and a table are not empty, and the null pointer is no process,
client or packet. `RingAssumption`: a packet is longer than its length
field, and the consumer has at least one buffer. `BlockAssumption`, `SendAssumption`, `RecvAssumption`: a block has at
least one byte, a message too, and what a fresh block holds is no byte of the
stream. `PacketAssumption`: a packet of the peer is at least as long as the part
that tells its length and at most one byte longer than `MaxLeft`, the most that
the handler of `RecvBuffer` may leave. Bounds such as `MaxBytes`, `MaxCrash` and
`MaxPush` are any natural numbers.

* `ReplyPathProof`. The mutex: `MutualExclusionHolds` by the invariant
  `MutexInv` (types, mutual exclusion, and: the word is 0 exactly when nobody
  holds the mutex; the last part is what makes mutual exclusion inductive, since
  the code decides on the word alone). From it `AfutexImplementsMutex`: each step
  of the builtins is an Acquire, a Release or a stutter of `Mutex`.
  `NoSleeperLostHolds` is inductive given the types. The notifier:
  `NoLostWakeupHolds` and `PipeNeverFillsHolds` from `FlagOwned` (a flag that is
  set belongs to exactly one: a worker about to write, a byte epoll has yet to
  report, an event the net process has yet to answer, or a worker that died on
  the way) and `BytesOwned` (the pipe has one byte for each edge and each event,
  so two at the most). That a flag has one owner is what the test-and-set gives,
  and what bounds the pipe whatever the number of workers.
* `NodeListsProof`: lemmas about lists without repetitions. What is left after a
  deletion is a list of exactly the other nodes (`WithoutProperties`, from three
  lemmas on the ranks of positions); `Prec(s, m, n)`, m stands before n in s, is
  total and asymmetric and is kept by Head, Tail, Append, deletion and
  concatenation.
* `NewbenchProof`, in four layers of one invariant, `QueueInv`; each has a lemma
  for each branch of push, pop and clean_4pid and a step for each action.
  - `KeyInv` gives `KeyExclusionHolds` and `NoStalePointerHolds`: types
    (`TypeCorrect`, where the work is the ring arithmetic); `ListsApart` (a node
    is in at most one of: the free nodes, the unread list, the tree, a homo
    list); `KeysApart` (packets wait behind a packet of their own key, and no two
    nodes of the tree have one key); `NoStalePointer`; and `MainCleansDead` (the
    pid main is about to clean is that of a reaped worker). Key exclusion is not
    inductive alone: two workers differ in the key because their nodes are
    different nodes of the tree, and they stay there because no clean-up runs
    for a live worker.
  - `Owners` gives `LockedForSomebodyHolds`: there is a set of at most `exits`
    nodes such that every other node of the tree carries the pid of its owner,
    no two of these carry the same pid, and an owner that is dead is the one main
    is about to clean up after, or main has stopped. The set is
    existential because which nodes nobody is responsible for is not written
    anywhere: a clean-up that frees a left-over node leaves the crashed worker's
    own node in its place.
  - `Behind` gives `NodesAccountedHolds`, `HeadHasOwnerHolds` and
    `KeyOrderHolds`: the taken nodes are those in the tree and those that wait
    behind one of these, each behind its node in the used list as well, and in
    the order of the used list among themselves. The first taken node has nobody
    before it, so it is in the tree and has an owner; what hands a key on is the
    head of a homo list, the oldest packet of its key.
  - `InRing` gives `PacketsIntactHolds`: measured from the head index, packets
    lie one behind the other in the order of the used list, before the tail
    index. Distances from the head index (`Dist`) make an order of the ring's
    wrapped addresses; when packets leave from the middle only gaps arise, and
    when the first one leaves all distances shrink by the same amount
    (`DistShift`).
* `RingQueueProof`: `RingSoundHolds` and `ImplementsQueueHolds` from an invariant
  about the bytes: `Contents` (from `read_index` on the packets of the queue lie
  one behind the other, byte by byte across the end of the buffer, and end at
  `write_index`), `Pushing` (the packet being copied has the room that a stale
  `read_index` promised, and its first bytes are behind the data) and `Popping`
  (the consumer's `write_index` is behind the true one, and what it has read of
  the length and copied are bytes of the first packet). Each side's snapshot
  errs towards less, which is why neither needs a lock.
* `ConnectionProof`. First the block arithmetic: which block and position a byte
  of a chain is at (`MergedAt`, from uniqueness of quotient and remainder), how
  many blocks a chain has (`FitsBlocks`), that copying behind the bytes in use
  keeps those and adds the new (`FillContent`), and that freeing the first blocks
  moves the others to the front (`FreeContent`).
  - The receiving half: `RecvBufferSound` for any handler, from `RecvInv`: byte
    by byte, what the chain holds follows what the handler has used (`Kept`), and
    the chain has the blocks it needs. On top of it `InputInv` adds where the
    loop stands, at the end of the last packet pushed (`Cutting`), and that the
    next packet has not been read as a whole when the loop is left
    (`NextMissing`). It gives `InputSoundHolds`, `PacketsAsSentHolds`,
    `ImplementsRecvBufferHolds` (what the loop leaves is the beginning of one
    packet, hence at most `MaxLeft` bytes) and `StreamSpecHolds` (the chain
    implements `ByteStream`).
  - The sending half: `BufferSoundHolds` from `SendInv`. Before the first partial
    send, what the kernel has, what the chain holds and what the call has left
    follow one another (`Unsent`). After it only lengths can be kept (`Counted`):
    there are blocks for the bytes that the counter claims, so that send_data
    never looks at a block that is not there, and the counter falls below 0 by
    less than a block.
* `NetIoServerProof`: clients are accepted in the order they come, and ids go
  round with them (`InOrder`, `NextId`), so that an id tells a client's number
  modulo `IdNum`. From that `Known`: who has the id of an old connection now is
  not older than it, and an address is right as long as its connection lives.
  `MapConsistentHolds` and `CallbacksPairedHolds` follow from the part of the
  invariant about table, descriptors and memory (`Core`), which every close
  preserves at any point of a round (`CloseCore`); `ReplyToOwnHolds` from
  `Known` of the blocks in the queue; `BacklogRememberedHolds` from
  `BacklogKnown`, which names the place where a pending client is remembered in
  each phase of a round; `OwnDataOnlyHolds`, an action property, from `EventsReal`
  (what an event points to is an address that has had a connection) and `Core`
  (a node that is open leads to its own socket).
* `WaitableQueueProof`: `NotAllAsleepHolds` from `Attended` (for a packet in the
  queue there is a byte, a producer about to write one, or a consumer that knows
  of it), which needs that an undisturbed look tells the truth (`SeenIsThere`);
  `EachOnceHolds` from the exclusion by the semaphore and `HeadInHand` (what a
  consumer has copied is the head of the queue until it moves the index).
* `PlainServerProof`: `AccountedHolds` and `OwnInOneLifeHolds` from
  `PlainInvariant`. `Places` says element by element what `Accounted` counts: the
  packets made are those in the queue, in a worker's hands, handled or lost, and
  no two places hold the same one; it needs `Hands` (the lock has one holder, and
  between copy and removal the packet in hand is still the head of the queue, so
  it does not count as in hand yet). `AllOwned` says that a request or block of
  this life has an id given in this life, and that whoever is connected under it
  is its client; ids only grow within a life, and a restart makes all of them
  blocks of an earlier one.

Every safety property of the runs is proved: the invariants, the action
properties, and the refinements `ImplementsMutex`, `ImplementsQueue` and `ImplementsRecvBuffer` with
`StreamSpec`. Only model-checked are the liveness properties (fairness is out of
the prover's reach): `SomeoneEnters`, `EveryPacketServed`, `CrashedIsCleaned`,
`PopsGoOn`, `BufferDrains`, `EveryPacketPushed`, `EveryBlockLeaves`,
`FinArrives`, `WorkersComeBack`, `BacklogServed`, `EveryPacketPopped`,
`ServerGoesOn`. The refinements are proved without their fairness, which none of
the abstract specifications has.

## 6. Not modelled

* The branches of pop for a too short buffer: a worker's buffer is
  `max_pkg_len + sizeof(shm_block_t)` (`work_proc.cpp:150`), the bound
  on_recv_data enforces (`newbench_io_event.cpp:187`). `clean_4key`: unused.
* Reordering of the ring queue's plain loads and stores by compiler or machine.
* A crash between two stores of one critical section: with `CrashInside` the
  queue is left as the last complete step of pop left it. The lock is never
  released after such a crash, so only the unlocked `is_able_pop` could tell.
* A pid that the system gives to a process outside the server: kill() would find
  it, and push would not clean up after the worker that had it.
* A crash of the net process inside the barrier queue's push (it holds the same
  lock: finding 2 again), of main, and of a process that sleeps in the futex
  between its wake-up and its exchange.
* In net-io-server: a malloc that fails in `alloc_mem_block`; which connections a
  broadcast reaches (a failed send in it closes nobody); the cmd flags, which
  net_proc always passes together; get_connection_info and the other queries.
* The storage word of a connection, which on_recv_data hands to the plug-in and a
  reply brings back, overwriting what was stored meanwhile; and what is at the
  address it is written to after a restart of the net process.
* The waitable queue around the multi-pop queue: `pop_data` of the outer one then
  copies and removes a packet in two critical sections of the inner one, so the
  argument for `EachOnce` does not carry over. No test nests them with more
  than one consumer: in `test_6_1.cpp` the multi-pop line is commented out.
* `pop_data_dummy` as a call of its own, the fixed queue (a length check around
  the ring queue), handle_schedule, the dmux filter (not built).
* Applications, predecessors (serverbench, newbench-beta), configuration,
  plug-in loading, logging. The applications are by far the most of the
  repository's lines: request handlers of games that pack and unpack protocol
  structures and call a database, one after the other in one process, with rules
  of their own in each. The infrastructure modelled here is what they share.

## 7. Plan

1. Done: the mutex, the barrier queue with its processes, the send queue; the net
   process (buffers, packets, connections, notifier, replies); the wrappers of
   the ring queue; the plain mode with restarts; the safety properties of all of
   these for every value of the constants.
2. Proofs next: action properties about what a step may never do (a pop of the
   barrier queue never takes a packet of a key that is locked for another
   process; clean_4pid leaves the packets of other keys in their order); what is
   left of the send buffer after a partial send (what the kernel is offered are
   bytes of the stream, never of an unwritten block).
3. Then the storage word, with two requests of one connection in flight, and the
   restart of the net process in the barrier mode.
