--------------------------- MODULE NewbenchProof ----------------------------
(***************************************************************************)
(* Theorems about the processes of newbench around the barrier ring queue, *)
(* for any number of nodes, keys, processes and crashes and any length of  *)
(* the ring: type correctness, no stale node pointer, mutual exclusion by  *)
(* key, an owner for every locked key, no node lost, packets of a key in   *)
(* order, and packets intact in the ring.                                  *)
(***************************************************************************)
EXTENDS Newbench, NodeListsProof

-----------------------------------------------------------------------------
(* Types *)

USE DEF queueVars, brqVars, mainVars, procVars

\* The new head index lies in the buffer.
LEMMA MoveHeadType ==
  ASSUME TypeOK, NEW s \in Seq(Nodes), NEW S, MoveHead(s, S)
  PROVE  head_index' \in 0..BufferLen-1
<1>1. CASE Head(Used) \notin S BY <1>1 DEF MoveHead, TypeOK
<1>2. CASE s = <<>> BY <1>2 DEF MoveHead, TypeOK
<1>3. CASE Head(Used) \in S /\ s # <<>>
  <2>1. Head(s) \in Nodes BY <1>3
  <2>2. head_index' = addr[Head(s)] BY <1>3 DEF MoveHead
  <2> QED BY <2>1, <2>2 DEF TypeOK
<1> QED BY <1>1, <1>2, <1>3

\* NoKey is one of the keys.
LEMMA NoKeyType == NoKey \in Keys
BY BarrierAssumption DEF NoKey

\* Freed nodes keep the types.
LEMMA RecycleType ==
  ASSUME TypeOK, NEW S \in SUBSET Nodes, Recycle(S)
  PROVE  /\ free' \subseteq Nodes
         /\ key' \in [Nodes -> Keys]
         /\ addr' \in [Nodes -> 0..BufferLen-1]
         /\ length' \in [Nodes -> Nat]
<1>1. 0 \in 0..BufferLen-1 BY BarrierAssumption
<1> QED BY <1>1, NoKeyType DEF Recycle, TypeOK

\* Where the copy of a packet that fits ends is an index of the buffer.
LEMMA NewTailType ==
  ASSUME TypeOK, NEW l \in Nat, HasRoom(l)
  PROVE  NewTail(l) \in 0..BufferLen-1
BY BarrierAssumption DEF TypeOK, HasRoom, EmptyBufferLen, NewTail

\* Concatenations of node lists are node lists.
LEMMA ConcatType ==
  ASSUME NEW s \in Seq(Nodes), NEW t \in Seq(Nodes)
  PROVE  s \o t \in Seq(Nodes)
OBVIOUS

\* clean_4pid keeps the types.
LEMMA CleanType ==
  ASSUME TypeOK, NEW p, Clean4pid(p)
  PROVE  /\ free' \subseteq Nodes /\ tree' \subseteq Nodes
         /\ taken' \in Seq(Nodes) /\ unread' \in Seq(Nodes)
         /\ homo' \in [Nodes -> Seq(Nodes)]
         /\ key' \in [Nodes -> Keys]
         /\ flag' \in [Nodes -> Pids \union {Plain, Barrier}]
         /\ addr' \in [Nodes -> 0..BufferLen-1]
         /\ length' \in [Nodes -> Nat]
         /\ head_index' \in 0..BufferLen-1 /\ tail_index' \in 0..BufferLen-1
<1>1. CASE UNCHANGED queueVars BY <1>1 DEF TypeOK
<1>2. ASSUME NEW t \in OwnedBy(p), Clean(t)
      PROVE  /\ free' \subseteq Nodes /\ tree' \subseteq Nodes
             /\ taken' \in Seq(Nodes) /\ unread' \in Seq(Nodes)
             /\ homo' \in [Nodes -> Seq(Nodes)]
             /\ key' \in [Nodes -> Keys]
             /\ flag' \in [Nodes -> Pids \union {Plain, Barrier}]
             /\ addr' \in [Nodes -> 0..BufferLen-1]
             /\ length' \in [Nodes -> Nat]
             /\ head_index' \in 0..BufferLen-1 /\ tail_index' \in 0..BufferLen-1
  <2> DEFINE gone == {t} \union Range(homo[t])
             rest == Without(taken, gone)
  <2>1. t \in Nodes /\ homo[t] \in Seq(Nodes) BY DEF OwnedBy, TypeOK
  <2>2. gone \in SUBSET Nodes BY <2>1 DEF Range
  <2>3. rest \in Seq(Nodes) BY WithoutProperties DEF TypeOK
  <2> HIDE DEF gone, rest
  <2>4. /\ tree' = tree \ {t}
        /\ homo' = [homo EXCEPT ![t] = <<>>]
        /\ flag' = [n \in Nodes |-> IF n \in gone THEN Plain ELSE flag[n]]
        /\ taken' = rest
        /\ MoveHead(rest \o unread, gone)
        /\ Recycle(gone)
        /\ UNCHANGED <<unread, tail_index>>
    BY <1>2 DEF Clean, gone, rest
  <2>5. rest \o unread \in Seq(Nodes) BY <2>3, ConcatType DEF TypeOK
  <2>6. head_index' \in 0..BufferLen-1 BY <2>4, <2>5, MoveHeadType
  <2>7. homo' \in [Nodes -> Seq(Nodes)]
    <3>1. <<>> \in Seq(Nodes) OBVIOUS
    <3>2. homo \in [Nodes -> Seq(Nodes)] BY DEF TypeOK
    <3> QED BY <2>4, <3>1, <3>2
  <2>8. flag' \in [Nodes -> Pids \union {Plain, Barrier}] BY <2>4 DEF TypeOK
  <2>9. tree' \subseteq Nodes /\ unread' \in Seq(Nodes)
        /\ tail_index' \in 0..BufferLen-1 /\ taken' \in Seq(Nodes)
    BY <2>3, <2>4 DEF TypeOK
  <2> QED BY <2>2, <2>4, <2>6, <2>7, <2>8, <2>9, RecycleType
<1> QED BY <1>1, <1>2 DEF Clean4pid
\* Type correctness: the initial state.
LEMMA InitType == Init => TypeOK
<1> SUFFICES ASSUME Init PROVE TypeOK
  OBVIOUS
<1>1. <<>> \in Seq(Nodes) OBVIOUS
<1>2. 0 \in 0..BufferLen-1 BY BarrierAssumption
<1>3. wpc \in [Pids -> WorkerStates]
  BY DEF Init, WorkerStates, Running, Holding
<1>4. 0 \in 0..MaxCrash /\ 0 \in 0..MaxExit BY NewbenchAssumption
<1> QED BY <1>1, <1>2, <1>3, <1>4, NoKeyType DEF Init, BrqInit, TypeOK

\* Handover keeps the types of the queue.
LEMMA HandoverType ==
  ASSUME TypeOK, NEW w \in Pids, last[w] # NULL, Handover(w)
  PROVE  /\ free' \subseteq Nodes /\ tree' \subseteq Nodes
         /\ taken' \in Seq(Nodes) /\ unread' \in Seq(Nodes)
         /\ homo' \in [Nodes -> Seq(Nodes)]
         /\ key' \in [Nodes -> Keys]
         /\ flag' \in [Nodes -> Pids \union {Plain, Barrier}]
         /\ addr' \in [Nodes -> 0..BufferLen-1]
         /\ length' \in [Nodes -> Nat]
         /\ head_index' \in 0..BufferLen-1 /\ tail_index' \in 0..BufferLen-1
         /\ last' \in [Pids -> Nodes \union {NULL}]
<1> DEFINE old == last[w]
           new == Head(homo[old])
           rest == Without(taken, {old})
<1>1. old \in Nodes /\ homo[old] \in Seq(Nodes) BY DEF TypeOK
<1>2. homo[old] # <<>> BY DEF Handover
<1>3. new \in Nodes /\ Tail(homo[old]) \in Seq(Nodes)
  BY <1>1, <1>2, TailProperties
<1>4. rest \in Seq(Nodes) BY WithoutProperties DEF TypeOK
<1>5. /\ tree' = (tree \ {old}) \union {new}
      /\ homo' = [homo EXCEPT ![new] = Tail(homo[old]), ![old] = <<>>]
      /\ flag' = [flag EXCEPT ![new] = w, ![old] = Plain]
      /\ taken' = rest
      /\ MoveHead(rest \o unread, {old})
      /\ Recycle({old})
      /\ last' = [last EXCEPT ![w] = new]
      /\ UNCHANGED <<unread, tail_index>>
  BY DEF Handover
<1> HIDE DEF old, new, rest
<1>6. head_index' \in 0..BufferLen-1
  BY <1>4, <1>5, ConcatType, MoveHeadType DEF TypeOK
<1>7. homo' \in [Nodes -> Seq(Nodes)]
  <2>1. <<>> \in Seq(Nodes) OBVIOUS
  <2>2. homo \in [Nodes -> Seq(Nodes)] BY DEF TypeOK
  <2> QED BY <1>3, <1>5, <2>1, <2>2
<1>8. flag' \in [Nodes -> Pids \union {Plain, Barrier}] BY <1>5 DEF TypeOK
<1>9. last' \in [Pids -> Nodes \union {NULL}] BY <1>3, <1>5 DEF TypeOK
<1>10. tree' \subseteq Nodes BY <1>3, <1>5 DEF TypeOK
<1>11. /\ taken' \in Seq(Nodes) /\ unread' \in Seq(Nodes)
       /\ tail_index' \in 0..BufferLen-1
  BY <1>4, <1>5 DEF TypeOK
<1>12. {old} \in SUBSET Nodes BY <1>1
<1> QED
  BY <1>5, <1>6, <1>7, <1>8, <1>9, <1>10, <1>11, <1>12, RecycleType

\* Release keeps the types of what it changes.
LEMMA ReleaseType ==
  ASSUME TypeOK, NEW w \in Pids, last[w] # NULL, Release(w)
  PROVE  /\ free' \subseteq Nodes /\ tree' \subseteq Nodes
         /\ taken' \in Seq(Nodes)
         /\ key' \in [Nodes -> Keys]
         /\ flag' \in [Nodes -> Pids \union {Plain, Barrier}]
         /\ addr' \in [Nodes -> 0..BufferLen-1]
         /\ length' \in [Nodes -> Nat]
         /\ head_index' \in 0..BufferLen-1
<1> DEFINE old == last[w]
           rest == Without(taken, {old})
<1>1. old \in Nodes BY DEF TypeOK
<1>2. rest \in Seq(Nodes) BY WithoutProperties DEF TypeOK
<1>3. /\ tree' = tree \ {old}
      /\ flag' = [flag EXCEPT ![old] = Plain]
      /\ taken' = rest
      /\ MoveHead(rest \o unread, {old})
      /\ Recycle({old})
  BY DEF Release
<1> HIDE DEF old, rest
<1>4. head_index' \in 0..BufferLen-1
  BY <1>2, <1>3, ConcatType, MoveHeadType DEF TypeOK
<1>5. flag' \in [Nodes -> Pids \union {Plain, Barrier}] BY <1>3 DEF TypeOK
<1> QED BY <1>1, <1>2, <1>3, <1>4, <1>5, RecycleType DEF TypeOK
\* Type correctness: every step.
LEMMA NextType == TypeOK /\ [Next]_vars => TypeOK'
<1> SUFFICES ASSUME TypeOK, [Next]_vars PROVE TypeOK'
  OBVIOUS
<1> USE DEF Goto
<1>1. ASSUME NEW w \in Pids, WorkerCheck(w) PROVE TypeOK'
  BY <1>1 DEF WorkerCheck, TypeOK, WorkerStates, Running
<1>2. ASSUME NEW w \in Pids, WorkerLock(w) PROVE TypeOK'
  BY <1>2 DEF WorkerLock, TypeOK, WorkerStates, Running, Holding
<1>3. ASSUME NEW w \in Pids, PopHandover(w) PROVE TypeOK'
  <2>1. last[w] # NULL /\ Handover(w) BY <1>3 DEF PopHandover
  <2>2. wpc' \in [Pids -> WorkerStates]
    BY <1>3 DEF PopHandover, TypeOK, WorkerStates, Running
  <2> QED BY <1>3, <2>1, <2>2, HandoverType DEF PopHandover, TypeOK
<1>4. ASSUME NEW w \in Pids, PopRelease(w) PROVE TypeOK'
  <2>1. last[w] # NULL /\ Release(w) BY <1>4 DEF PopRelease
  <2>2. wpc' \in [Pids -> WorkerStates]
    BY <1>4 DEF PopRelease, TypeOK, WorkerStates, Running, Holding
  <2>3. UNCHANGED <<unread, homo, tail_index, last>> BY <2>1 DEF Release
  <2> QED BY <1>4, <2>1, <2>2, <2>3, ReleaseType DEF PopRelease, TypeOK
<1>5. ASSUME NEW w \in Pids, PopStart(w) PROVE TypeOK'
  BY <1>5 DEF PopStart, TypeOK, WorkerStates, Running, Holding
<1>6. ASSUME NEW w \in Pids, ScanNothing(w) PROVE TypeOK'
  BY <1>6 DEF ScanNothing, TakeNothing, TypeOK, WorkerStates, Running
<1>7. ASSUME NEW w \in Pids, ScanPlain(w) PROVE TypeOK'
  <2>1. TakePlain(w) /\ unread # <<>> BY <1>7 DEF ScanPlain, TakePlain
  <2>2. Front \in Nodes /\ Tail(unread) \in Seq(Nodes)
    BY <2>1, TailProperties DEF Front, TypeOK
  <2>3. MoveHead(taken \o Tail(unread), {Front}) /\ Recycle({Front})
    BY <2>1 DEF TakePlain
  <2>4. head_index' \in 0..BufferLen-1
    BY <2>2, <2>3, ConcatType, MoveHeadType DEF TypeOK
  <2>5. {Front} \in SUBSET Nodes BY <2>2
  <2>6. /\ free' \subseteq Nodes
        /\ key' \in [Nodes -> Keys]
        /\ addr' \in [Nodes -> 0..BufferLen-1]
        /\ length' \in [Nodes -> Nat]
    BY <2>3, <2>5, RecycleType
  <2>7. wpc' \in [Pids -> WorkerStates]
    BY <1>7 DEF ScanPlain, TypeOK, WorkerStates, Running
  <2>8. last' \in [Pids -> Nodes \union {NULL}] BY <2>1 DEF TakePlain, TypeOK
  <2> QED BY <1>7, <2>1, <2>2, <2>4, <2>6, <2>7, <2>8
          DEF ScanPlain, TakePlain, TypeOK
<1>8. ASSUME NEW w \in Pids, ScanConflict(w) PROVE TypeOK'
  <2>1. TakeConflict /\ unread # <<>> BY <1>8 DEF ScanConflict, TakeConflict
  <2>2. Front \in Nodes /\ Tail(unread) \in Seq(Nodes)
    BY <2>1, TailProperties DEF Front, TypeOK
  <2>3. homo' \in [Nodes -> Seq(Nodes)]
    <3>1. PICK t \in InTree(key[Front]) :
            homo' = [homo EXCEPT ![t] = JoinHomo(t, Front)]
      BY <2>1 DEF TakeConflict
    <3>2. homo[t] \in Seq(Nodes) BY DEF InTree, TypeOK
    <3>3. JoinHomo(t, Front) \in Seq(Nodes)
      BY <2>2, <3>2, AppendProps DEF JoinHomo
    <3>4. homo \in [Nodes -> Seq(Nodes)] BY DEF TypeOK
    <3> QED BY <3>1, <3>3, <3>4
  <2>4. Append(taken, Front) \in Seq(Nodes) BY <2>2, AppendProps DEF TypeOK
  <2> QED BY <1>8, <2>1, <2>2, <2>3, <2>4 DEF ScanConflict, TakeConflict, TypeOK
<1>9. ASSUME NEW w \in Pids, ScanBarrier(w) PROVE TypeOK'
  <2>1. TakeBarrier(w) /\ unread # <<>> BY <1>9 DEF ScanBarrier, TakeBarrier
  <2>2. Front \in Nodes /\ Tail(unread) \in Seq(Nodes)
    BY <2>1, TailProperties DEF Front, TypeOK
  <2>3. homo' \in [Nodes -> Seq(Nodes)]
    <3>1. <<>> \in Seq(Nodes) OBVIOUS
    <3>2. homo \in [Nodes -> Seq(Nodes)] BY DEF TypeOK
    <3> QED BY <2>1, <3>1, <3>2 DEF TakeBarrier
  <2>4. Append(taken, Front) \in Seq(Nodes) BY <2>2, AppendProps DEF TypeOK
  <2>5. wpc' \in [Pids -> WorkerStates]
    BY <1>9 DEF ScanBarrier, TypeOK, WorkerStates, Running
  <2>6. last' \in [Pids -> Nodes \union {NULL}]
    BY <2>1, <2>2 DEF TakeBarrier, TypeOK
  <2>7. flag' \in [Nodes -> Pids \union {Plain, Barrier}]
    BY <2>1 DEF TakeBarrier, TypeOK
  <2> QED BY <1>9, <2>1, <2>2, <2>3, <2>4, <2>5, <2>6, <2>7
          DEF ScanBarrier, TakeBarrier, TypeOK
<1>10. ASSUME NEW w \in Pids, WorkDone(w) PROVE TypeOK'
  BY <1>10 DEF WorkDone, TypeOK, WorkerStates, Running
<1>11. ASSUME NEW w \in Pids, WorkerExit(w) PROVE TypeOK'
  <2>1. exits' \in 0..MaxExit BY <1>11, NewbenchAssumption DEF WorkerExit, TypeOK
  <2> QED BY <1>11, <2>1 DEF WorkerExit, TypeOK, WorkerStates
<1>12. ASSUME NEW w \in Pids, WorkerCrash(w) PROVE TypeOK'
  <2>1. crashes' \in 0..MaxCrash
    BY <1>12, NewbenchAssumption DEF WorkerCrash, TypeOK
  <2> QED BY <1>12, <2>1 DEF WorkerCrash, TypeOK, WorkerStates
<1>13. ASSUME NetLock PROVE TypeOK' BY <1>13 DEF NetLock, TypeOK
<1>14. ASSUME PushSelfClean PROVE TypeOK'
  <2>1. PICK p \in Pids : Clean4pid(p) BY <1>14 DEF PushSelfClean
  <2> QED BY <1>14, <2>1, CleanType DEF PushSelfClean, TypeOK
<1>15. ASSUME PushNoNode \/ PushNoRoom PROVE TypeOK'
  BY <1>15 DEF PushNoNode, PushNoRoom, TypeOK
<1>16. ASSUME PushDone PROVE TypeOK'
  <2>1. PICK k \in Keys, f \in {Plain, Barrier}, l \in Lens : Enqueue(k, f, l)
    BY <1>16 DEF PushDone
  <2>2. l \in Nat /\ HasRoom(l) BY <2>1, NewbenchAssumption DEF Enqueue
  <2>3. tail_index' \in 0..BufferLen-1 BY <2>1, <2>2, NewTailType DEF Enqueue
  <2>4. PICK n \in free :
         /\ free' = free \ {n}
         /\ key' = [key EXCEPT ![n] = k]
         /\ flag' = [flag EXCEPT ![n] = f]
         /\ addr' = [addr EXCEPT ![n] = tail_index]
         /\ length' = [length EXCEPT ![n] = l]
         /\ unread' = Append(unread, n)
         /\ UNCHANGED <<taken, tree, homo, head_index, last>>
    BY <2>1 DEF Enqueue
  <2>5. unread' \in Seq(Nodes) BY <2>4, AppendProps DEF TypeOK
  <2> QED BY <1>16, <2>2, <2>3, <2>4, <2>5 DEF PushDone, TypeOK
<1>17. ASSUME NEW p \in Pids, MainReapCrashed(p) PROVE TypeOK'
  BY <1>17 DEF MainReapCrashed, TypeOK, WorkerStates
<1>18. ASSUME NEW p \in Pids, MainReapExited(p) PROVE TypeOK'
  BY <1>18 DEF MainReapExited, TypeOK, WorkerStates
<1>19. ASSUME MainLock PROVE TypeOK' BY <1>19 DEF MainLock, TypeOK
<1>20. ASSUME MainClean PROVE TypeOK'
  <2>1. Clean4pid(mpid) BY <1>20 DEF MainClean
  <2> QED BY <1>20, <2>1, CleanType DEF MainClean, TypeOK
<1>21. ASSUME MainFork PROVE TypeOK'
  BY <1>21 DEF MainFork, TypeOK, WorkerStates, Running
<1>22. ASSUME MainForkFailed \/ MainChildTold PROVE TypeOK'
  BY <1>22 DEF MainForkFailed, MainChildTold, TypeOK
<1>23. ASSUME NEW p \in Pids, OrphanReaped(p) PROVE TypeOK'
  BY <1>23 DEF OrphanReaped, TypeOK, WorkerStates
<1>24. ASSUME NEW w \in Pids, WorkerReady(w) \/ WorkerInitFailed(w)
       PROVE  TypeOK'
  BY <1>24 DEF WorkerReady, WorkerInitFailed, TypeOK, WorkerStates, Running
<1>25. CASE UNCHANGED vars BY <1>25 DEF vars, TypeOK
<1> QED
  BY <1>1, <1>2, <1>3, <1>4, <1>5, <1>6, <1>7, <1>8, <1>9, <1>10, <1>11,
     <1>12, <1>13, <1>14, <1>15, <1>16, <1>17, <1>18, <1>19, <1>20, <1>21,
     <1>22, <1>23, <1>24, <1>25
  DEF Next, WorkerStep, NetStep, MainStep

\* Type correctness of every reachable state; in particular the indices of the
\* ring stay inside the buffer whatever is pushed, popped and cleaned.
THEOREM TypeCorrect == Spec => []TypeOK
BY InitType, NextType, PTL DEF Spec
-----------------------------------------------------------------------------
(* Exclusion by key *)

\* The lists a node can be in exclude each other, and none repeats a node.
ListsApart ==
  /\ tree \intersect free = {}
  /\ Range(unread) \intersect (free \union tree) = {}
  /\ IsInjective(unread)
  /\ \A t \in Nodes \ tree : homo[t] = <<>>
  /\ \A t \in tree :
       /\ IsInjective(homo[t])
       /\ Range(homo[t]) \intersect (free \union tree \union Range(unread)) = {}

\* Packets wait behind a packet of their key, and a key is in the tree once.
KeysApart ==
  /\ \A t \in tree : \A n \in Range(homo[t]) : key[n] = key[t]
  /\ \A t, u \in tree : key[t] = key[u] => t = u

\* What main is about to clean up after is a process that is no more.
MainCleansDead ==
  mpc \in {"lock", "clean"} => mpid \in Pids /\ wpc[mpid] = "dead"

KeyInv == TypeOK /\ ListsApart /\ KeysApart /\ NoStalePointer /\ MainCleansDead

\* Freed nodes lose their key, the others keep it.
LEMMA RecycleKeys ==
  ASSUME NEW S \in SUBSET Nodes, Recycle(S), TypeOK
  PROVE  /\ free' = free \union S
         /\ \A n \in Nodes \ S : key'[n] = key[n]
BY DEF Recycle, TypeOK

\* Handover keeps the lists and keys apart.
LEMMA HandoverKeyInv ==
  ASSUME TypeOK, ListsApart, KeysApart, NEW w \in Pids, last[w] \in tree,
         Handover(w)
  PROVE  /\ ListsApart' /\ KeysApart'
         /\ last'[w] \in tree' /\ flag'[last'[w]] = w
         /\ \A n \in tree \ {last[w]} : n \in tree' /\ flag'[n] = flag[n]
         /\ \A v \in Pids \ {w} : last'[v] = last[v]
<1> DEFINE old == last[w]
           new == Head(homo[old])
<1>1. old \in Nodes /\ old \in tree /\ homo[old] \in Seq(Nodes) /\ homo[old] # <<>>
  BY DEF TypeOK, Handover
<1>2. /\ new \in Nodes /\ new \in Range(homo[old])
      /\ Range(homo[old]) = {new} \union Range(Tail(homo[old]))
      /\ IsInjective(Tail(homo[old])) /\ new \notin Range(Tail(homo[old]))
  BY <1>1, TailProperties DEF ListsApart
<1>3. /\ tree' = (tree \ {old}) \union {new}
      /\ homo' = [homo EXCEPT ![new] = Tail(homo[old]), ![old] = <<>>]
      /\ flag' = [flag EXCEPT ![new] = w, ![old] = Plain]
      /\ Recycle({old})
      /\ last' = [last EXCEPT ![w] = new]
      /\ unread' = unread
  BY DEF Handover
<1>4. /\ free' = free \union {old}
      /\ \A n \in Nodes : n # old => key'[n] = key[n]
  BY <1>1, <1>3, RecycleKeys
<1>5. new \notin tree /\ new \notin free /\ new \notin Range(unread)
  BY <1>1, <1>2 DEF ListsApart
<1>6. /\ homo'[new] = Tail(homo[old])
      /\ \A t \in Nodes : t # new /\ t # old => homo'[t] = homo[t]
      /\ homo'[old] = <<>>
  BY <1>1, <1>2, <1>3, <1>5 DEF TypeOK
<1>7. /\ \A t \in tree : Range(homo[t]) \subseteq Nodes
      /\ tree \subseteq Nodes
  BY DEF TypeOK, Range
<1> HIDE DEF new, old
<1>8. \A t \in tree \ {old} : new \notin Range(homo[t])
  BY <1>1, <1>2 DEF KeysApart
<1>9. ListsApart'
  <2>1. (tree \intersect free = {})' BY <1>1, <1>3, <1>4, <1>5 DEF ListsApart
  <2>2. (Range(unread) \intersect (free \union tree) = {} /\ IsInjective(unread))'
    BY <1>1, <1>3, <1>4, <1>5 DEF ListsApart
  <2>3. \A t \in Nodes \ tree' : homo'[t] = <<>>
    BY <1>3, <1>6 DEF ListsApart
  <2>4. ASSUME NEW t \in tree'
        PROVE  /\ IsInjective(homo'[t])
               /\ Range(homo'[t])
                    \intersect (free' \union tree' \union Range(unread')) = {}
    <3>1. CASE t = new
      <4>1. Range(homo'[t]) \subseteq Range(homo[old]) \ {new}
        BY <1>2, <1>6, <3>1
      <4>2. Range(homo[old])
              \intersect (free \union tree \union Range(unread)) = {}
        BY <1>1 DEF ListsApart
      <4>3. IsInjective(homo'[t]) BY <1>2, <1>6, <3>1
      <4>4. free' \union tree' \union Range(unread')
              \subseteq free \union tree \union Range(unread) \union {new}
        BY <1>1, <1>3, <1>4
      <4> QED BY <4>1, <4>2, <4>3, <4>4
    <3>2. CASE t # new
      <4>1. t \in tree /\ t # old /\ homo'[t] = homo[t] /\ t \in Nodes
        BY <1>3, <1>6, <1>7, <3>2
      <4>2. /\ IsInjective(homo[t])
            /\ Range(homo[t])
                 \intersect (free \union tree \union Range(unread)) = {}
        BY <4>1 DEF ListsApart
      <4>3. new \notin Range(homo[t]) BY <1>8, <4>1
      <4>4. free' \union tree' \union Range(unread')
              \subseteq free \union tree \union Range(unread) \union {new}
        BY <1>1, <1>3, <1>4
      <4> QED BY <4>1, <4>2, <4>3, <4>4
    <3> QED BY <3>1, <3>2
  <2> QED BY <2>1, <2>2, <2>3, <2>4 DEF ListsApart
<1>10. KeysApart'
  <2>1. key'[new] = key[old]
    BY <1>1, <1>2, <1>4, <1>5 DEF KeysApart
  <2>2. \A t \in tree' : t # new => t \in tree /\ t # old /\ key'[t] = key[t]
    BY <1>3, <1>4, <1>7
  <2>3. ASSUME NEW t \in tree', NEW n \in Range(homo'[t])
        PROVE  key'[n] = key'[t]
    <3>1. CASE t = new
      <4>1. n \in Range(homo[old]) BY <1>2, <1>6, <3>1
      <4>2. n # old /\ n \in Nodes /\ key[n] = key[old]
        BY <1>1, <1>7, <4>1 DEF ListsApart, KeysApart
      <4> QED BY <1>4, <2>1, <3>1, <4>2
    <3>2. CASE t # new
      <4>1. t \in tree /\ t # old /\ homo'[t] = homo[t] /\ key'[t] = key[t]
        BY <1>6, <1>7, <2>2, <3>2
      <4>2. n # old /\ n \in Nodes /\ key[n] = key[t]
        BY <1>1, <1>7, <4>1 DEF ListsApart, KeysApart
      <4> QED BY <1>4, <4>1, <4>2
    <3> QED BY <3>1, <3>2
  <2>4. ASSUME NEW t \in tree', NEW u \in tree', key'[t] = key'[u]
        PROVE  t = u
    BY <1>1, <2>1, <2>2, <2>4 DEF KeysApart
  <2> QED BY <2>3, <2>4 DEF KeysApart
<1>11. last'[w] = new /\ flag'[new] = w
  <2>1. new # old BY <1>1, <1>5
  <2> QED BY <1>2, <1>3, <2>1 DEF TypeOK
<1>12. \A n \in tree \ {old} : n \in tree' /\ flag'[n] = flag[n]
  BY <1>3, <1>5 DEF TypeOK
<1>13. \A v \in Pids \ {w} : last'[v] = last[v] BY <1>3 DEF TypeOK
<1>14. last'[w] \in tree' BY <1>3, <1>11
<1> QED BY <1>9, <1>10, <1>11, <1>12, <1>13, <1>14 DEF old

\* Release keeps the lists and keys apart.
LEMMA ReleaseKeyInv ==
  ASSUME TypeOK, ListsApart, KeysApart, NEW w \in Pids, last[w] \in tree,
         Release(w)
  PROVE  /\ ListsApart' /\ KeysApart'
         /\ \A n \in tree \ {last[w]} : n \in tree' /\ flag'[n] = flag[n]
         /\ last' = last
<1> DEFINE old == last[w]
<1>1. old \in Nodes /\ old \in tree /\ homo[old] = <<>> BY DEF TypeOK, Release
<1>2. /\ tree' = tree \ {old}
      /\ flag' = [flag EXCEPT ![old] = Plain]
      /\ Recycle({old})
      /\ UNCHANGED <<unread, homo, last>>
  BY DEF Release
<1>3. /\ free' = free \union {old}
      /\ \A n \in Nodes : n # old => key'[n] = key[n]
  BY <1>1, <1>2, RecycleKeys
<1>4. tree \subseteq Nodes /\ \A t \in tree : Range(homo[t]) \subseteq Nodes
  BY DEF TypeOK, Range
<1> HIDE DEF old
<1>5. ListsApart' BY <1>1, <1>2, <1>3 DEF ListsApart
<1>6. KeysApart'
  <2>1. \A t \in tree' : t \in tree /\ t # old /\ key'[t] = key[t]
    BY <1>2, <1>3, <1>4
  <2>2. \A t \in tree' : \A n \in Range(homo'[t]) :
          n # old /\ n \in Nodes /\ n \in Range(homo[t])
    BY <1>1, <1>2, <1>4, <2>1 DEF ListsApart
  <2> QED BY <1>3, <2>1, <2>2 DEF KeysApart
<1>7. \A n \in tree \ {old} : n \in tree' /\ flag'[n] = flag[n]
  BY <1>2 DEF TypeOK
<1> QED BY <1>2, <1>5, <1>6, <1>7 DEF old
\* The node at the read head is in no other list, and not read twice.
LEMMA FrontApart ==
  ASSUME TypeOK, ListsApart, unread # <<>>
  PROVE  /\ Front \in Nodes /\ Front \notin free /\ Front \notin tree
         /\ Front \in Range(unread)
         /\ Range(unread) = {Front} \union Range(Tail(unread))
         /\ Front \notin Range(Tail(unread)) /\ IsInjective(Tail(unread))
         /\ \A t \in tree : Front \notin Range(homo[t])
<1>1. unread \in Seq(Nodes) BY DEF TypeOK
<1>2. /\ Front \in Nodes /\ Front \in Range(unread)
      /\ Range(unread) = {Front} \union Range(Tail(unread))
      /\ IsInjective(unread) => /\ IsInjective(Tail(unread))
                                /\ Front \notin Range(Tail(unread))
  BY <1>1, TailProperties DEF Front
<1> QED BY <1>2 DEF ListsApart

\* Taking a plain packet keeps the lists and keys apart.
LEMMA TakePlainKeyInv ==
  ASSUME TypeOK, ListsApart, KeysApart, NEW w \in Pids, TakePlain(w)
  PROVE  /\ ListsApart' /\ KeysApart' /\ tree' = tree /\ flag' = flag
         /\ last' = [last EXCEPT ![w] = NULL]
<1>1. /\ unread # <<>> /\ unread' = Tail(unread) /\ Recycle({Front})
      /\ tree' = tree /\ homo' = homo /\ flag' = flag
      /\ last' = [last EXCEPT ![w] = NULL]
  BY DEF TakePlain
<1>2. /\ Front \in Nodes /\ Front \notin free /\ Front \notin tree
      /\ Range(unread) = {Front} \union Range(Tail(unread))
      /\ Front \notin Range(Tail(unread)) /\ IsInjective(Tail(unread))
      /\ \A t \in tree : Front \notin Range(homo[t])
  BY <1>1, FrontApart
<1>3. /\ free' = free \union {Front}
      /\ \A n \in Nodes : n # Front => key'[n] = key[n]
  BY <1>1, <1>2, RecycleKeys
<1>4. tree \subseteq Nodes /\ \A t \in tree : Range(homo[t]) \subseteq Nodes
  BY DEF TypeOK, Range
<1>5. ListsApart' BY <1>1, <1>2, <1>3 DEF ListsApart
<1>6. KeysApart'
  <2>1. \A t \in tree : key'[t] = key[t] BY <1>2, <1>3, <1>4
  <2>2. \A t \in tree : \A n \in Range(homo[t]) : key'[n] = key[n]
    BY <1>2, <1>3, <1>4
  <2> QED BY <1>1, <2>1, <2>2 DEF KeysApart
<1> QED BY <1>1, <1>5, <1>6

\* Moving a packet behind its key keeps the lists and keys apart.
LEMMA TakeConflictKeyInv ==
  ASSUME TypeOK, ListsApart, KeysApart, TakeConflict
  PROVE  /\ ListsApart' /\ KeysApart' /\ tree' = tree /\ flag' = flag
         /\ last' = last
<1>1. /\ unread # <<>> /\ unread' = Tail(unread)
      /\ UNCHANGED <<free, tree, key, flag, last>>
  BY DEF TakeConflict
<1>2. PICK t \in InTree(key[Front]) :
        homo' = [homo EXCEPT ![t] = JoinHomo(t, Front)]
  BY DEF TakeConflict
<1>3. /\ Front \in Nodes /\ Front \notin free /\ Front \notin tree
      /\ Range(unread) = {Front} \union Range(Tail(unread))
      /\ Front \notin Range(Tail(unread)) /\ IsInjective(Tail(unread))
      /\ \A u \in tree : Front \notin Range(homo[u])
  BY <1>1, FrontApart
<1>4. t \in tree /\ t \in Nodes /\ key[t] = key[Front] /\ homo[t] \in Seq(Nodes)
  BY DEF InTree, TypeOK
<1>5. /\ homo'[t] = Append(homo[t], Front)
      /\ \A u \in Nodes : u # t => homo'[u] = homo[u]
  BY <1>2, <1>4 DEF JoinHomo, TypeOK
<1>6. /\ Range(homo'[t]) = Range(homo[t]) \union {Front}
      /\ IsInjective(homo'[t])
  BY <1>3, <1>4, <1>5, AppendProps DEF ListsApart
<1>7. tree \subseteq Nodes BY DEF TypeOK
<1>8. ListsApart'
  <2>1. \A u \in Nodes \ tree : homo'[u] = <<>>
    BY <1>4, <1>5 DEF ListsApart
  <2>2. ASSUME NEW u \in tree
        PROVE  /\ IsInjective(homo'[u])
               /\ Range(homo'[u])
                    \intersect (free \union tree \union Range(unread')) = {}
    <3>1. CASE u = t
      <4>1. Range(homo[t])
              \intersect (free \union tree \union Range(unread)) = {}
        BY <1>4 DEF ListsApart
      <4> QED BY <1>1, <1>3, <1>6, <3>1, <4>1
    <3>2. CASE u # t
      <4>1. homo'[u] = homo[u] BY <1>5, <1>7, <3>2
      <4>2. /\ IsInjective(homo[u])
            /\ Range(homo[u])
                 \intersect (free \union tree \union Range(unread)) = {}
        BY DEF ListsApart
      <4> QED BY <1>1, <1>3, <4>1, <4>2
    <3> QED BY <3>1, <3>2
  <2>3. /\ tree \intersect free = {}
        /\ Range(unread') \intersect (free \union tree) = {}
        /\ IsInjective(unread')
    BY <1>1, <1>3 DEF ListsApart
  <2> QED BY <1>1, <2>1, <2>2, <2>3 DEF ListsApart
<1>9. KeysApart'
  <2>1. ASSUME NEW u \in tree, NEW n \in Range(homo'[u]) PROVE key[n] = key[u]
    <3>1. CASE u = t BY <1>4, <1>6, <2>1, <3>1 DEF KeysApart
    <3>2. CASE u # t
      <4>1. homo'[u] = homo[u] BY <1>5, <1>7, <3>2
      <4> QED BY <2>1, <4>1 DEF KeysApart
    <3> QED BY <3>1, <3>2
  <2> QED BY <1>1, <2>1 DEF KeysApart
<1> QED BY <1>1, <1>8, <1>9

\* Locking a new key keeps the lists and keys apart.
LEMMA TakeBarrierKeyInv ==
  ASSUME TypeOK, ListsApart, KeysApart, NEW w \in Pids, TakeBarrier(w)
  PROVE  /\ ListsApart' /\ KeysApart'
         /\ last'[w] \in tree' /\ flag'[last'[w]] = w
         /\ \A n \in tree : n \in tree' /\ flag'[n] = flag[n]
         /\ \A v \in Pids \ {w} : last'[v] = last[v]
<1>1. /\ unread # <<>> /\ unread' = Tail(unread)
      /\ tree' = tree \union {Front}
      /\ homo' = [homo EXCEPT ![Front] = <<>>]
      /\ flag' = [flag EXCEPT ![Front] = w]
      /\ last' = [last EXCEPT ![w] = Front]
      /\ UNCHANGED <<free, key>>
  BY DEF TakeBarrier
<1>2. /\ Front \in Nodes /\ Front \notin free /\ Front \notin tree
      /\ Range(unread) = {Front} \union Range(Tail(unread))
      /\ Front \notin Range(Tail(unread)) /\ IsInjective(Tail(unread))
      /\ \A t \in tree : Front \notin Range(homo[t])
  BY <1>1, FrontApart
<1>3. \A t \in tree : key[t] # key[Front]
  BY DEF TakeBarrier, Conflict, InTree
<1>4. /\ homo'[Front] = <<>> /\ homo[Front] = <<>>
      /\ \A t \in Nodes : homo'[t] = homo[t]
  BY <1>1, <1>2 DEF TypeOK, ListsApart
<1>5. Range(<<>>) = {} /\ IsInjective(<<>>) BY DEF Range, IsInjective
<1>6. tree \subseteq Nodes BY DEF TypeOK
<1>7. ListsApart'
  <2>1. ASSUME NEW t \in tree'
        PROVE  /\ IsInjective(homo'[t])
               /\ Range(homo'[t])
                    \intersect (free \union tree' \union Range(unread')) = {}
    <3>1. CASE t = Front BY <1>4, <1>5, <3>1
    <3>2. CASE t \in tree
      <4>1. homo'[t] = homo[t] BY <1>4, <1>6, <3>2
      <4>2. /\ IsInjective(homo[t])
            /\ Range(homo[t])
                 \intersect (free \union tree \union Range(unread)) = {}
        BY <3>2 DEF ListsApart
      <4> QED BY <1>1, <1>2, <3>2, <4>1, <4>2
    <3> QED BY <1>1, <3>1, <3>2
  <2>2. \A t \in Nodes \ tree' : homo'[t] = <<>> BY <1>1, <1>4 DEF ListsApart
  <2>3. /\ tree' \intersect free = {}
        /\ Range(unread') \intersect (free \union tree') = {}
        /\ IsInjective(unread')
    BY <1>1, <1>2 DEF ListsApart
  <2> QED BY <1>1, <2>1, <2>2, <2>3 DEF ListsApart
<1>8. KeysApart'
  <2>1. ASSUME NEW t \in tree', NEW n \in Range(homo'[t]) PROVE key[n] = key[t]
    <3>1. t # Front BY <1>4, <1>5, <2>1
    <3>2. t \in tree /\ homo'[t] = homo[t] BY <1>1, <1>4, <1>6, <3>1
    <3> QED BY <2>1, <3>2 DEF KeysApart
  <2>2. \A t, u \in tree' : key[t] = key[u] => t = u
    BY <1>1, <1>3 DEF KeysApart
  <2> QED BY <1>1, <2>1, <2>2 DEF KeysApart
<1>9. last'[w] = Front /\ flag'[Front] = w BY <1>1, <1>2 DEF TypeOK
<1>10. \A n \in tree : n \in tree' /\ flag'[n] = flag[n]
  BY <1>1, <1>2 DEF TypeOK
<1>11. \A v \in Pids \ {w} : last'[v] = last[v] BY <1>1 DEF TypeOK
<1> QED BY <1>1, <1>7, <1>8, <1>9, <1>10, <1>11
\* Cleaning up after p keeps the lists and keys apart, and does not touch the
\* node of any other process.
LEMMA CleanKeyInv ==
  ASSUME TypeOK, ListsApart, KeysApart, NEW p, Clean4pid(p)
  PROVE  /\ ListsApart' /\ KeysApart'
         /\ \A n \in tree : flag[n] # p => n \in tree' /\ flag'[n] = flag[n]
<1>1. CASE UNCHANGED queueVars BY <1>1 DEF ListsApart, KeysApart
<1>2. ASSUME NEW t \in OwnedBy(p), Clean(t)
      PROVE  /\ ListsApart' /\ KeysApart'
             /\ \A n \in tree : flag[n] # p => n \in tree' /\ flag'[n] = flag[n]
  <2> DEFINE gone == {t} \union Range(homo[t])
  <2>1. t \in tree /\ t \in Nodes /\ flag[t] = p /\ homo[t] \in Seq(Nodes)
    BY DEF OwnedBy, TypeOK
  <2>2. /\ tree' = tree \ {t}
        /\ homo' = [homo EXCEPT ![t] = <<>>]
        /\ flag' = [n \in Nodes |-> IF n \in gone THEN Plain ELSE flag[n]]
        /\ Recycle(gone)
        /\ unread' = unread
    BY <1>2 DEF Clean
  <2>3. gone \in SUBSET Nodes BY <2>1 DEF Range
  <2>4. /\ free' = free \union gone
        /\ \A n \in Nodes \ gone : key'[n] = key[n]
    BY <2>2, <2>3, RecycleKeys
  <2>5. gone \intersect (tree \ {t}) = {} /\ gone \intersect Range(unread) = {}
    BY <2>1 DEF ListsApart
  <2>6. \A u \in tree \ {t} : gone \intersect Range(homo[u]) = {}
    BY <2>1 DEF ListsApart, KeysApart
  <2>7. /\ tree \subseteq Nodes
        /\ \A u \in tree : Range(homo[u]) \subseteq Nodes
    BY DEF TypeOK, Range
  <2>8. homo'[t] = <<>> /\ \A u \in Nodes : u # t => homo'[u] = homo[u]
    BY <2>1, <2>2 DEF TypeOK
  <2> HIDE DEF gone
  <2>9. ListsApart'
    <3>1. ASSUME NEW u \in tree'
          PROVE  /\ IsInjective(homo'[u])
                 /\ Range(homo'[u])
                      \intersect (free' \union tree' \union Range(unread')) = {}
      <4>1. u \in tree /\ u # t /\ homo'[u] = homo[u] BY <2>2, <2>7, <2>8
      <4>2. /\ IsInjective(homo[u])
            /\ Range(homo[u])
                 \intersect (free \union tree \union Range(unread)) = {}
        BY <4>1 DEF ListsApart
      <4>3. gone \intersect Range(homo[u]) = {} BY <2>6, <4>1
      <4> QED BY <2>2, <2>4, <4>1, <4>2, <4>3
    <3>2. \A u \in Nodes \ tree' : homo'[u] = <<>>
      BY <2>2, <2>8 DEF ListsApart
    <3>3. /\ tree' \intersect free' = {}
          /\ Range(unread') \intersect (free' \union tree') = {}
          /\ IsInjective(unread')
      BY <2>2, <2>4, <2>5 DEF ListsApart
    <3> QED BY <3>1, <3>2, <3>3 DEF ListsApart
  <2>10. KeysApart'
    <3>1. \A u \in tree' : u \in tree /\ u # t /\ key'[u] = key[u]
      BY <2>2, <2>4, <2>5, <2>7
    <3>2. ASSUME NEW u \in tree', NEW n \in Range(homo'[u])
          PROVE  key'[n] = key'[u]
      <4>1. homo'[u] = homo[u] BY <2>7, <2>8, <3>1
      <4>2. n \in Nodes /\ n \notin gone BY <2>6, <2>7, <3>1, <4>1
      <4> QED BY <2>4, <3>1, <3>2, <4>1, <4>2 DEF KeysApart
    <3> QED BY <3>1, <3>2 DEF KeysApart
  <2>11. ASSUME NEW n \in tree, flag[n] # p
         PROVE  n \in tree' /\ flag'[n] = flag[n]
    <3>1. n # t /\ n \in Nodes BY <2>1, <2>7, <2>11
    <3>2. n \notin gone BY <2>5, <3>1
    <3> QED BY <2>2, <3>1, <3>2
  <2> QED BY <2>9, <2>10, <2>11
<1> QED BY <1>1, <1>2 DEF Clean4pid

\* A push keeps the lists and keys apart.
LEMMA EnqueueKeyInv ==
  ASSUME TypeOK, ListsApart, KeysApart, NEW k, NEW f, NEW l, Enqueue(k, f, l)
  PROVE  /\ ListsApart' /\ KeysApart' /\ tree' = tree /\ last' = last
         /\ \A n \in tree : flag'[n] = flag[n]
<1>1. PICK n \in free :
        /\ free' = free \ {n}
        /\ key' = [key EXCEPT ![n] = k]
        /\ flag' = [flag EXCEPT ![n] = f]
        /\ unread' = Append(unread, n)
        /\ UNCHANGED <<tree, homo, last>>
  BY DEF Enqueue
<1>2. n \in Nodes /\ unread \in Seq(Nodes) BY DEF TypeOK
<1>3. n \notin tree /\ n \notin Range(unread)
  BY DEF ListsApart
<1>4. \A t \in tree : n \notin Range(homo[t]) BY DEF ListsApart
<1>5. Range(unread') = Range(unread) \union {n} /\ IsInjective(unread')
  BY <1>1, <1>2, <1>3, AppendProps DEF ListsApart
<1>6. \A m \in Nodes : m # n => key'[m] = key[m] /\ flag'[m] = flag[m]
  BY <1>1 DEF TypeOK
<1>7. tree \subseteq Nodes /\ \A t \in tree : Range(homo[t]) \subseteq Nodes
  BY DEF TypeOK, Range
<1>8. ListsApart'
  <2>1. ASSUME NEW t \in tree
        PROVE  Range(homo[t])
                 \intersect (free' \union tree \union Range(unread')) = {}
    <3>1. Range(homo[t])
            \intersect (free \union tree \union Range(unread)) = {}
      BY DEF ListsApart
    <3> QED BY <1>1, <1>4, <1>5, <3>1
  <2>2. /\ tree \intersect free' = {}
        /\ Range(unread') \intersect (free' \union tree) = {}
    BY <1>1, <1>3, <1>5 DEF ListsApart
  <2> QED BY <1>1, <1>5, <2>1, <2>2 DEF ListsApart
<1>9. KeysApart'
  <2>1. \A t \in tree : key'[t] = key[t] BY <1>3, <1>6, <1>7
  <2>2. \A t \in tree : \A m \in Range(homo[t]) : key'[m] = key[m]
    BY <1>4, <1>6, <1>7
  <2> QED BY <1>1, <2>1, <2>2 DEF KeysApart
<1> QED BY <1>1, <1>3, <1>6, <1>7, <1>8, <1>9

\* The invariant holds initially.
LEMMA InitKeyInv == Init => KeyInv
<1> SUFFICES ASSUME Init PROVE KeyInv
  OBVIOUS
<1>1. Range(<<>>) = {} /\ IsInjective(<<>>) BY DEF Range, IsInjective
<1>2. ListsApart /\ KeysApart BY <1>1 DEF Init, BrqInit, ListsApart, KeysApart
<1>3. NoStalePointer BY DEF Init, BrqInit, NoStalePointer
<1> QED BY <1>2, <1>3, InitType DEF Init, KeyInv, MainCleansDead
\* A worker step that leaves the queue and the pointers alone.
LEMMA QuietKeyInv ==
  ASSUME ListsApart, KeysApart, UNCHANGED brqVars
  PROVE  ListsApart' /\ KeysApart'
BY DEF ListsApart, KeysApart

\* Every step keeps the invariant.
LEMMA NextKeyInv == KeyInv /\ [Next]_vars => KeyInv'
<1> SUFFICES ASSUME KeyInv, [Next]_vars PROVE KeyInv'
  OBVIOUS
<1> TypeOK /\ ListsApart /\ KeysApart /\ NoStalePointer /\ MainCleansDead
  BY DEF KeyInv
<1>0. TypeOK' BY NextType
<1> USE DEF Goto
<1> DEFINE Good == ListsApart' /\ KeysApart' /\ NoStalePointer' /\ MainCleansDead'
<1>1. ASSUME NEW w \in Pids,
             \/ WorkerReady(w) \/ WorkerInitFailed(w)
             \/ WorkerCheck(w) \/ WorkerLock(w) \/ PopStart(w) \/ WorkDone(w)
      PROVE  Good
  <2>1. UNCHANGED brqVars /\ UNCHANGED <<mpc, mpid>>
    BY <1>1 DEF WorkerReady, WorkerInitFailed, WorkerCheck, WorkerLock,
       PopStart, WorkDone
  <2>2. NoStalePointer'
    BY <1>1, <2>1 DEF NoStalePointer, WorkerReady, WorkerInitFailed,
       WorkerCheck, WorkerLock, PopStart,
       WorkDone, Running, Holding, TypeOK
  <2>3. MainCleansDead'
    BY <1>1, <2>1 DEF MainCleansDead, WorkerReady, WorkerInitFailed,
       WorkerCheck, WorkerLock, PopStart,
       WorkDone, TypeOK
  <2> QED BY <2>1, <2>2, <2>3, QuietKeyInv
<1>2. ASSUME NEW w \in Pids, PopHandover(w) PROVE Good
  <2>1. /\ wpc[w] = "pop" /\ last[w] # NULL /\ Handover(w)
        /\ wpc' = [wpc EXCEPT ![w] = "work"] /\ UNCHANGED <<mpc, mpid>>
    BY <1>2 DEF PopHandover
  <2>2. last[w] \in tree /\ flag[last[w]] = w
    BY <2>1 DEF NoStalePointer, Running, Holding
  <2>3. /\ ListsApart' /\ KeysApart'
        /\ last'[w] \in tree' /\ flag'[last'[w]] = w
        /\ \A n \in tree \ {last[w]} : n \in tree' /\ flag'[n] = flag[n]
        /\ \A v \in Pids \ {w} : last'[v] = last[v]
    BY <2>1, <2>2, HandoverKeyInv
  <2>4. NoStalePointer'
    <3> SUFFICES ASSUME NEW v \in Pids, v # w,
                        wpc'[v] \in Running \ {"scan"}, last'[v] # NULL
                 PROVE  last'[v] \in tree' /\ flag'[last'[v]] = v
      BY <2>3 DEF NoStalePointer
    <3>1. last'[v] = last[v] /\ wpc'[v] = wpc[v] BY <2>1, <2>3 DEF TypeOK
    <3>2. last[v] \in tree /\ flag[last[v]] = v BY <3>1 DEF NoStalePointer
    <3> QED BY <2>2, <2>3, <3>1, <3>2
  <2>5. MainCleansDead' BY <2>1 DEF MainCleansDead, TypeOK
  <2> QED BY <2>3, <2>4, <2>5
<1>3. ASSUME NEW w \in Pids, PopRelease(w) PROVE Good
  <2>1. /\ wpc[w] = "pop" /\ last[w] # NULL /\ Release(w)
        /\ wpc' = [wpc EXCEPT ![w] = "scan"] /\ UNCHANGED <<mpc, mpid>>
    BY <1>3 DEF PopRelease
  <2>2. last[w] \in tree /\ flag[last[w]] = w
    BY <2>1 DEF NoStalePointer, Running, Holding
  <2>3. /\ ListsApart' /\ KeysApart' /\ last' = last
        /\ \A n \in tree \ {last[w]} : n \in tree' /\ flag'[n] = flag[n]
    BY <2>1, <2>2, ReleaseKeyInv
  <2>4. NoStalePointer'
    <3> SUFFICES ASSUME NEW v \in Pids,
                        wpc'[v] \in Running \ {"scan"}, last'[v] # NULL
                 PROVE  last'[v] \in tree' /\ flag'[last'[v]] = v
      BY DEF NoStalePointer
    <3>1. v # w /\ wpc'[v] = wpc[v] BY <2>1 DEF TypeOK
    <3>2. last[v] \in tree /\ flag[last[v]] = v
      BY <2>3, <3>1 DEF NoStalePointer
    <3> QED BY <2>2, <2>3, <3>1, <3>2
  <2>5. MainCleansDead' BY <2>1 DEF MainCleansDead, TypeOK
  <2> QED BY <2>3, <2>4, <2>5
<1>4. ASSUME NEW w \in Pids, ScanNothing(w) PROVE Good
  <2>1. /\ UNCHANGED queueVars /\ last' = [last EXCEPT ![w] = NULL]
        /\ wpc[w] = "scan" /\ wpc' = [wpc EXCEPT ![w] = "loop"]
        /\ UNCHANGED <<mpc, mpid>>
    BY <1>4 DEF ScanNothing, TakeNothing
  <2>2. ListsApart' /\ KeysApart' BY <2>1 DEF ListsApart, KeysApart
  <2>3. NoStalePointer' BY <2>1 DEF NoStalePointer, TypeOK
  <2>4. MainCleansDead' BY <2>1 DEF MainCleansDead, TypeOK
  <2> QED BY <2>2, <2>3, <2>4
<1>5. ASSUME NEW w \in Pids, ScanPlain(w) PROVE Good
  <2>1. /\ TakePlain(w)
        /\ wpc[w] = "scan" /\ wpc' = [wpc EXCEPT ![w] = "work"]
        /\ UNCHANGED <<mpc, mpid>>
    BY <1>5 DEF ScanPlain
  <2>2. /\ ListsApart' /\ KeysApart' /\ tree' = tree /\ flag' = flag
        /\ last' = [last EXCEPT ![w] = NULL]
    BY <2>1, TakePlainKeyInv
  <2>3. NoStalePointer' BY <2>1, <2>2 DEF NoStalePointer, TypeOK
  <2>4. MainCleansDead' BY <2>1 DEF MainCleansDead, TypeOK
  <2> QED BY <2>2, <2>3, <2>4
<1>6. ASSUME NEW w \in Pids, ScanConflict(w) PROVE Good
  <2>1. TakeConflict /\ UNCHANGED <<wpc, mpc, mpid>> BY <1>6 DEF ScanConflict
  <2>2. /\ ListsApart' /\ KeysApart' /\ tree' = tree /\ flag' = flag
        /\ last' = last
    BY <2>1, TakeConflictKeyInv
  <2> QED BY <2>1, <2>2 DEF NoStalePointer, MainCleansDead
<1>7. ASSUME NEW w \in Pids, ScanBarrier(w) PROVE Good
  <2>1. /\ TakeBarrier(w)
        /\ wpc[w] = "scan" /\ wpc' = [wpc EXCEPT ![w] = "work"]
        /\ UNCHANGED <<mpc, mpid>>
    BY <1>7 DEF ScanBarrier
  <2>2. /\ ListsApart' /\ KeysApart'
        /\ last'[w] \in tree' /\ flag'[last'[w]] = w
        /\ \A n \in tree : n \in tree' /\ flag'[n] = flag[n]
        /\ \A v \in Pids \ {w} : last'[v] = last[v]
    BY <2>1, TakeBarrierKeyInv
  <2>3. NoStalePointer'
    <3> SUFFICES ASSUME NEW v \in Pids, v # w,
                        wpc'[v] \in Running \ {"scan"}, last'[v] # NULL
                 PROVE  last'[v] \in tree' /\ flag'[last'[v]] = v
      BY <2>2 DEF NoStalePointer
    <3>1. last'[v] = last[v] /\ wpc'[v] = wpc[v] BY <2>1, <2>2 DEF TypeOK
    <3>2. last[v] \in tree /\ flag[last[v]] = v BY <3>1 DEF NoStalePointer
    <3> QED BY <2>2, <3>1, <3>2
  <2>4. MainCleansDead' BY <2>1 DEF MainCleansDead, TypeOK
  <2> QED BY <2>2, <2>3, <2>4
<1>8. ASSUME NEW w \in Pids, WorkerExit(w) \/ WorkerCrash(w) PROVE Good
  <2>1. /\ UNCHANGED queueVars /\ last' = [last EXCEPT ![w] = NULL]
        /\ wpc[w] \in Running
        /\ \A v \in Pids \ {w} : wpc'[v] = wpc[v]
        /\ UNCHANGED <<mpc, mpid>>
    BY <1>8 DEF WorkerExit, WorkerCrash, TypeOK, Running
  <2>2. ListsApart' /\ KeysApart' BY <2>1 DEF ListsApart, KeysApart
  <2>3. NoStalePointer' BY <2>1 DEF NoStalePointer, TypeOK
  <2>4. MainCleansDead' BY <2>1 DEF MainCleansDead, TypeOK, Running, Holding
  <2> QED BY <2>2, <2>3, <2>4
<1>9. ASSUME \/ NetLock \/ PushNoNode \/ PushNoRoom
             \/ MainLock \/ MainForkFailed \/ MainChildTold
      PROVE  Good
  <2>1. UNCHANGED brqVars /\ UNCHANGED <<wpc, mpid>>
    BY <1>9 DEF NetLock, PushNoNode, PushNoRoom, MainLock, MainForkFailed,
       MainChildTold
  <2>2. MainCleansDead'
    BY <1>9, <2>1 DEF NetLock, PushNoNode, PushNoRoom, MainLock,
       MainForkFailed, MainChildTold, MainCleansDead
  <2> QED BY <2>1, <2>2, QuietKeyInv DEF NoStalePointer
<1>10. ASSUME PushSelfClean PROVE Good
  <2>1. PICK p \in Pids : flag[Head(taken)] = p /\ Clean4pid(p)
    BY <1>10 DEF PushSelfClean
  <2>2. NoSuchProcess(p) BY <1>10, <2>1 DEF PushSelfClean, CanSelfClean
  <2>3. last' = last /\ UNCHANGED <<wpc, mpc, mpid>>
    BY <1>10 DEF PushSelfClean
  <2>4. /\ ListsApart' /\ KeysApart'
        /\ \A n \in tree : flag[n] # p => n \in tree' /\ flag'[n] = flag[n]
    BY <2>1, CleanKeyInv
  <2>5. NoStalePointer'
    BY <2>2, <2>3, <2>4 DEF NoStalePointer, NoSuchProcess, Running, Holding
  <2> QED BY <2>3, <2>4, <2>5 DEF MainCleansDead
<1>11. ASSUME PushDone PROVE Good
  <2>1. PICK k \in Keys, f \in {Plain, Barrier}, l \in Lens : Enqueue(k, f, l)
    BY <1>11 DEF PushDone
  <2>2. /\ ListsApart' /\ KeysApart' /\ tree' = tree /\ last' = last
        /\ \A n \in tree : flag'[n] = flag[n]
    BY <2>1, EnqueueKeyInv
  <2> QED BY <1>11, <2>2 DEF PushDone, NoStalePointer, MainCleansDead
<1>12. ASSUME NEW p \in Pids,
              MainReapCrashed(p) \/ MainReapExited(p) \/ OrphanReaped(p)
       PROVE  Good
  <2>1. UNCHANGED brqVars
    BY <1>12 DEF MainReapCrashed, MainReapExited, OrphanReaped
  <2>2. /\ wpc'[p] \notin Running
        /\ \A v \in Pids \ {p} : wpc'[v] = wpc[v]
    BY <1>12 DEF MainReapCrashed, MainReapExited, OrphanReaped, TypeOK,
       Running, Holding
  <2>3. NoStalePointer' BY <2>1, <2>2 DEF NoStalePointer
  <2>4. MainCleansDead'
    BY <1>12 DEF MainReapCrashed, MainReapExited, OrphanReaped,
       MainCleansDead, TypeOK
  <2> QED BY <2>1, <2>3, <2>4, QuietKeyInv
<1>13. ASSUME MainClean PROVE Good
  <2>1. /\ mpc = "clean" /\ Clean4pid(mpid) /\ mpc' = "spawn"
        /\ UNCHANGED <<last, wpc>>
    BY <1>13 DEF MainClean
  <2>2. mpid \in Pids /\ wpc[mpid] = "dead" BY <2>1 DEF MainCleansDead
  <2>3. /\ ListsApart' /\ KeysApart'
        /\ \A n \in tree : flag[n] # mpid => n \in tree' /\ flag'[n] = flag[n]
    BY <2>1, CleanKeyInv
  <2>4. NoStalePointer'
    BY <2>1, <2>2, <2>3 DEF NoStalePointer, Running, Holding
  <2> QED BY <2>1, <2>3, <2>4 DEF MainCleansDead
<1>14. ASSUME MainFork PROVE Good
  <2>1. PICK p \in Pids :
          /\ wpc' = [wpc EXCEPT ![p] = "init"]
          /\ last' = [last EXCEPT ![p] = NULL]
    BY <1>14 DEF MainFork
  <2>2. UNCHANGED queueVars /\ mpc' = "wait" BY <1>14 DEF MainFork
  <2>3. ListsApart' /\ KeysApart' BY <2>2 DEF ListsApart, KeysApart
  <2>4. NoStalePointer' BY <2>1, <2>2 DEF NoStalePointer, TypeOK
  <2> QED BY <2>2, <2>3, <2>4 DEF MainCleansDead
<1>15. ASSUME UNCHANGED vars PROVE Good
  BY <1>15 DEF vars, ListsApart, KeysApart, NoStalePointer, MainCleansDead
<1> HIDE DEF Good
<1>16. Good
  BY <1>1, <1>2, <1>3, <1>4, <1>5, <1>6, <1>7, <1>8, <1>9, <1>10, <1>11,
     <1>12, <1>13, <1>14, <1>15
  DEF Next, WorkerStep, NetStep, MainStep
<1> QED BY <1>0, <1>16 DEF KeyInv, Good

\* The invariant gives exclusion: the nodes of two workers have different
\* owners, so they are different nodes of the tree and have different keys.
LEMMA KeyInvExcludes == KeyInv => KeyExclusion
<1> SUFFICES ASSUME KeyInv, NEW v \in Pids, NEW w \in Pids, v # w,
                    Processing(v), Processing(w), key[last[v]] = key[last[w]]
             PROVE  FALSE
  BY DEF KeyExclusion
<1>1. /\ last[v] \in tree /\ flag[last[v]] = v
      /\ last[w] \in tree /\ flag[last[w]] = w
  BY DEF KeyInv, NoStalePointer, Processing, Running
<1> QED BY <1>1 DEF KeyInv, KeysApart

\* Two workers never process packets of one key at the same time: for any
\* number of workers, keys, nodes and crashes, a crash inside pop included.
THEOREM KeyExclusionHolds == Spec => []KeyExclusion
<1>1. KeyInv => KeyExclusion BY KeyInvExcludes
<1> QED BY <1>1, InitKeyInv, NextKeyInv, PTL DEF Spec

\* The node pointer a running worker follows is never stale: neither main's
\* clean-up nor the self-cleaning of push frees the node of a live process.
THEOREM NoStalePointerHolds == Spec => []NoStalePointer
<1>1. KeyInv => NoStalePointer BY DEF KeyInv
<1> QED BY <1>1, InitKeyInv, NextKeyInv, PTL DEF Spec

-----------------------------------------------------------------------------
(* Owners of keys *)

\* The owner of t lives, is not in its read loop and has t as its last node,
\* or it has crashed and main is to clean up after it, unless it has stopped.
Claimed(t) ==
  \/ wpc[flag[t]] \in Running \ {"scan"} /\ last[flag[t]] = t
  \/ wpc[flag[t]] = "zombie"
  \/ wpc[flag[t]] = "dead" /\ (mpid = flag[t] \/ mpc = "stopped")

\* A node of the tree carries a pid.  Outside S no process owns two nodes and
\* each one is claimed.
OwnersBut(S) ==
  /\ \A t \in tree : flag[t] \in Pids
  /\ \A t, u \in tree \ S : flag[t] = flag[u] => t = u
  /\ \A t \in tree \ S : Claimed(t)
  /\ \A w \in Pids : wpc[w] = "init" => last[w] = NULL
  /\ mpid # NULL => mpc \in {"lock", "clean"}

\* Each worker that left normally accounts for one node outside this order.
\* Which node it is may change: when its pid is given again and the new worker
\* crashes, clean_4pid may free the old node in place of the new one.
Owners ==
  \E S \in SUBSET tree : Cardinality(S) <= exits /\ OwnersBut(S)

\* No key is locked initially.
LEMMA InitOwners == Init => Owners
<1> SUFFICES ASSUME Init PROVE Owners OBVIOUS
<1>1. tree = {} /\ exits = 0 /\ mpid = NULL /\ last = [w \in Pids |-> NULL]
  BY DEF Init, BrqInit
<1>2. OwnersBut({}) BY <1>1 DEF OwnersBut
<1>3. Cardinality({}) <= 0 BY FS_EmptySet
<1> QED BY <1>1, <1>2, <1>3 DEF Owners

\* Sets of nodes of the tree are finite, and one that loses a node does not
\* grow.
LEMMA TreeSets ==
  ASSUME TypeOK, NEW S \in SUBSET tree
  PROVE  /\ IsFiniteSet(S) /\ Cardinality(S) \in Nat
         /\ \A R \in SUBSET S : Cardinality(R) <= Cardinality(S)
<1>1. S \in SUBSET Nodes /\ IsFiniteSet(Nodes)
  BY BarrierAssumption DEF TypeOK
<1>2. IsFiniteSet(S) BY <1>1, FS_Subset
<1> QED BY <1>2, FS_Subset, FS_CardinalityType

\* Cleaning t takes it from the tree and leaves the owners of the others.
LEMMA CleanTree ==
  ASSUME TypeOK, ListsApart, NEW t \in tree, Clean(t)
  PROVE  tree' = tree \ {t} /\ \A n \in tree' : flag'[n] = flag[n]
<1> DEFINE gone == {t} \union Range(homo[t])
<1>1. /\ tree' = tree \ {t}
      /\ flag' = [n \in Nodes |-> IF n \in gone THEN Plain ELSE flag[n]]
  BY DEF Clean
<1>2. \A n \in tree \ {t} : n \notin gone /\ n \in Nodes
  BY DEF ListsApart, TypeOK
<1> QED BY <1>1, <1>2

\* The set grows by the node of a worker that leaves normally, and shrinks or
\* changes with a clean-up; all other steps keep it, but for a node that leaves
\* the tree.
LEMMA NextOwners ==
  ASSUME KeyInv, Owners, [Next]_vars
  PROVE  Owners'
<1> TypeOK /\ ListsApart /\ KeysApart /\ NoStalePointer /\ MainCleansDead
  BY DEF KeyInv
<1> USE DEF Goto
<1>0. /\ tree \subseteq Nodes /\ NULL \notin Pids /\ NULL \notin Nodes
      /\ exits \in Nat
  BY BarrierAssumption, NewbenchAssumption DEF TypeOK
<1>s. PICK S \in SUBSET tree : Cardinality(S) <= exits /\ OwnersBut(S)
  BY DEF Owners
<1>r. ASSUME exits' = exits, NEW R \in SUBSET S, R \subseteq tree',
             OwnersBut(R)'
      PROVE  Owners'
  <2>1. /\ Cardinality(R) \in Nat /\ Cardinality(S) \in Nat
        /\ Cardinality(R) <= Cardinality(S)
    BY TreeSets
  <2>2. Cardinality(R) <= exits' BY <1>r, <1>s, <1>0, <2>1
  <2> QED BY <1>r, <2>2 DEF Owners
<1>q. ASSUME exits' = exits, tree' = tree, OwnersBut(S)' PROVE Owners'
  BY <1>q, <1>r
\* what a running worker owns outside S is its last node
<1>w. ASSUME NEW t \in tree \ S, wpc[flag[t]] \in Running
      PROVE  wpc[flag[t]] # "scan" /\ last[flag[t]] = t
  <2>1. wpc[flag[t]] # "zombie" /\ wpc[flag[t]] # "dead"
    BY <1>w DEF Running, Holding
  <2> QED BY <1>s, <1>w, <2>1 DEF OwnersBut, Claimed
<1>1. ASSUME NEW w \in Pids,
             \/ WorkerReady(w) \/ WorkerInitFailed(w)
             \/ WorkerCheck(w) \/ WorkerLock(w) \/ WorkDone(w)
      PROVE  Owners'
  <2>1. UNCHANGED brqVars /\ UNCHANGED <<mpc, mpid, exits>>
    BY <1>1 DEF WorkerReady, WorkerInitFailed, WorkerCheck, WorkerLock, WorkDone
  <2>2. /\ wpc[w] \in Running \ {"scan"} /\ wpc'[w] # "init"
        /\ \/ wpc'[w] \in Running \ {"scan"}
           \/ wpc[w] = "init" /\ wpc'[w] = "exit"
        /\ \A v \in Pids \ {w} : wpc'[v] = wpc[v]
    BY <1>1 DEF WorkerReady, WorkerInitFailed, WorkerCheck, WorkerLock,
       WorkDone, TypeOK, Running, Holding
  <2>3. ASSUME NEW t \in tree \ S PROVE Claimed(t)'
    <3>1. flag[t] \in Pids /\ Claimed(t) BY <1>s DEF OwnersBut
    <3>2. CASE flag[t] = w
      <4>1. last[w] = t BY <1>w, <2>2, <3>2
      <4>2. wpc[w] # "init" BY <1>0, <1>s, <4>1 DEF OwnersBut
      <4> QED BY <2>1, <2>2, <3>2, <4>1, <4>2 DEF Claimed
    <3>3. CASE flag[t] # w BY <2>1, <2>2, <3>1, <3>3 DEF Claimed
    <3> QED BY <3>2, <3>3
  <2>4. OwnersBut(S)' BY <1>s, <2>1, <2>2, <2>3 DEF OwnersBut
  <2> QED BY <1>q, <2>1, <2>4
<1>2. ASSUME NEW w \in Pids, PopStart(w) PROVE Owners'
  <2>1. /\ UNCHANGED <<tree, flag, last, mpc, mpid, exits>>
        /\ wpc[w] = "pop" /\ last[w] = NULL
        /\ wpc' = [wpc EXCEPT ![w] = "scan"]
    BY <1>2 DEF PopStart
  <2>2. \A t \in tree \ S : flag[t] # w
    BY <1>0, <1>w, <2>1 DEF Running, Holding
  <2>3. wpc'[w] = "scan" /\ \A v \in Pids \ {w} : wpc'[v] = wpc[v]
    BY <2>1 DEF TypeOK
  <2>4. \A t \in tree \ S : Claimed(t)'
    BY <1>s, <2>1, <2>2, <2>3 DEF OwnersBut, Claimed
  <2>5. OwnersBut(S)' BY <1>s, <2>1, <2>3, <2>4 DEF OwnersBut
  <2> QED BY <1>q, <2>1, <2>5
<1>3. ASSUME NEW w \in Pids, PopHandover(w) PROVE Owners'
  <2>1. /\ wpc[w] = "pop" /\ last[w] # NULL /\ Handover(w)
        /\ wpc' = [wpc EXCEPT ![w] = "work"] /\ UNCHANGED <<mpc, mpid, exits>>
    BY <1>3 DEF PopHandover
  <2>a. PICK old, new : old = last[w] /\ new = Head(homo[old]) OBVIOUS
  <2>2. old \in tree /\ flag[old] = w
    BY <2>1, <2>a DEF NoStalePointer, Running, Holding
  <2>3. /\ tree' = (tree \ {old}) \union {new}
        /\ last' = [last EXCEPT ![w] = new]
    BY <2>1, <2>a DEF Handover
  <2>4. /\ flag'[last'[w]] = w
        /\ \A n \in tree \ {old} : flag'[n] = flag[n]
        /\ \A v \in Pids \ {w} : last'[v] = last[v]
    BY <2>1, <2>2, <2>a, HandoverKeyInv
  <2>5. last'[w] = new /\ wpc'[w] = "work" /\ \A v \in Pids \ {w} : wpc'[v] = wpc[v]
    BY <2>1, <2>3 DEF TypeOK
  <2>b. PICK R : R = S \ {old} OBVIOUS
  <2>6. \A n \in tree \ S : n # old => flag[n] # w
    BY <1>w, <2>1, <2>a DEF Running, Holding
  <2>7. \A n \in tree' \ R : n = new \/ (n \in tree \ S /\ n # old)
    BY <2>3, <2>b
  <2>8. ASSUME NEW n \in tree' \ R PROVE Claimed(n)'
    <3>1. CASE n = new BY <2>4, <2>5, <3>1 DEF Claimed, Running
    <3>2. CASE n \in tree \ S /\ n # old
      <4>1. Claimed(n) /\ flag[n] \in Pids /\ flag[n] # w /\ flag'[n] = flag[n]
        BY <1>s, <2>4, <2>6, <3>2 DEF OwnersBut
      <4> QED BY <2>1, <2>4, <2>5, <4>1 DEF Claimed
    <3> QED BY <2>7, <3>1, <3>2
  <2>9. \A n \in tree' : flag'[n] \in Pids
    BY <1>s, <2>3, <2>4, <2>5 DEF OwnersBut
  <2>10. \A m, n \in tree' \ R : flag'[m] = flag'[n] => m = n
    BY <1>s, <2>4, <2>5, <2>6, <2>7 DEF OwnersBut
  <2>11. \A v \in Pids : wpc'[v] = "init" => last'[v] = NULL
    BY <1>s, <2>4, <2>5 DEF OwnersBut
  <2>12. OwnersBut(R)' BY <1>s, <2>1, <2>8, <2>9, <2>10, <2>11 DEF OwnersBut
  <2> QED BY <1>r, <2>1, <2>3, <2>12, <2>b
<1>4. ASSUME NEW w \in Pids, PopRelease(w) PROVE Owners'
  <2>1. /\ wpc[w] = "pop" /\ last[w] # NULL /\ Release(w)
        /\ wpc' = [wpc EXCEPT ![w] = "scan"] /\ UNCHANGED <<mpc, mpid, exits>>
    BY <1>4 DEF PopRelease
  <2>a. PICK old : old = last[w] OBVIOUS
  <2>2. old \in tree /\ flag[old] = w
    BY <2>1, <2>a DEF NoStalePointer, Running, Holding
  <2>3. tree' = tree \ {old} BY <2>1, <2>a DEF Release
  <2>4. last' = last /\ \A n \in tree \ {old} : flag'[n] = flag[n]
    BY <2>1, <2>2, <2>a, ReleaseKeyInv
  <2>5. wpc'[w] = "scan" /\ \A v \in Pids \ {w} : wpc'[v] = wpc[v]
    BY <2>1 DEF TypeOK
  <2>b. PICK R : R = S \ {old} OBVIOUS
  <2>6. \A n \in tree \ S : n # old => flag[n] # w
    BY <1>w, <2>1, <2>a DEF Running, Holding
  <2>7. \A n \in tree' \ R : n \in tree \ S /\ n # old BY <2>3, <2>b
  <2>8. \A n \in tree' \ R : Claimed(n)'
    BY <1>s, <2>1, <2>4, <2>5, <2>6, <2>7 DEF OwnersBut, Claimed
  <2>9. OwnersBut(R)'
    BY <1>s, <2>1, <2>3, <2>4, <2>5, <2>7, <2>8 DEF OwnersBut
  <2> QED BY <1>r, <2>1, <2>3, <2>9, <2>b
<1>5. ASSUME NEW w \in Pids, ScanNothing(w) \/ ScanPlain(w) PROVE Owners'
  <2>1. /\ wpc[w] = "scan" /\ tree' = tree /\ flag' = flag
        /\ UNCHANGED <<mpc, mpid, exits>> /\ wpc'[w] # "init"
        /\ \A v \in Pids \ {w} : wpc'[v] = wpc[v] /\ last'[v] = last[v]
    BY <1>5 DEF ScanNothing, ScanPlain, TakeNothing, TakePlain, TypeOK
  <2>2. \A t \in tree \ S : flag[t] # w BY <1>w, <2>1 DEF Running, Holding
  <2>3. \A t \in tree \ S : Claimed(t)'
    BY <1>s, <2>1, <2>2 DEF OwnersBut, Claimed
  <2>4. OwnersBut(S)' BY <1>s, <2>1, <2>3 DEF OwnersBut
  <2> QED BY <1>q, <2>1, <2>4
<1>6. ASSUME NEW w \in Pids, ScanConflict(w) PROVE Owners'
  <2>1. UNCHANGED <<tree, flag, last, wpc, mpc, mpid, exits>>
    BY <1>6 DEF ScanConflict, TakeConflict
  <2>2. OwnersBut(S)' BY <1>s, <2>1 DEF OwnersBut, Claimed
  <2> QED BY <1>q, <2>1, <2>2
<1>7. ASSUME NEW w \in Pids, ScanBarrier(w) PROVE Owners'
  <2>1. /\ TakeBarrier(w) /\ tree' = tree \union {Front}
        /\ last' = [last EXCEPT ![w] = Front]
        /\ wpc[w] = "scan" /\ wpc' = [wpc EXCEPT ![w] = "work"]
        /\ UNCHANGED <<mpc, mpid, exits>>
    BY <1>7 DEF ScanBarrier, TakeBarrier
  <2>a. PICK new : new = Front OBVIOUS
  <2>2. /\ flag'[last'[w]] = w
        /\ \A n \in tree : flag'[n] = flag[n]
        /\ \A v \in Pids \ {w} : last'[v] = last[v]
    BY <2>1, TakeBarrierKeyInv
  <2>3. \A t \in tree \ S : flag[t] # w BY <1>w, <2>1 DEF Running, Holding
  <2>4. last'[w] = new /\ wpc'[w] = "work" /\ \A v \in Pids \ {w} : wpc'[v] = wpc[v]
    BY <2>1, <2>a DEF TypeOK
  <2>5. tree' = tree \union {new} BY <2>1, <2>a
  <2>6. ASSUME NEW n \in tree' \ S PROVE Claimed(n)'
    <3>1. CASE n = new BY <2>2, <2>4, <3>1 DEF Claimed, Running
    <3>2. CASE n \in tree \ S
      <4>1. Claimed(n) /\ flag[n] \in Pids /\ flag[n] # w /\ flag'[n] = flag[n]
        BY <1>s, <2>2, <2>3, <3>2 DEF OwnersBut
      <4> QED BY <2>1, <2>2, <2>4, <4>1 DEF Claimed
    <3> QED BY <2>5, <3>1, <3>2
  <2>7. \A n \in tree' : flag'[n] \in Pids
    BY <1>s, <2>2, <2>4, <2>5 DEF OwnersBut
  <2>8. \A m, n \in tree' \ S : flag'[m] = flag'[n] => m = n
    BY <1>s, <2>2, <2>3, <2>4, <2>5 DEF OwnersBut
  <2>9. \A v \in Pids : wpc'[v] = "init" => last'[v] = NULL
    BY <1>s, <2>2, <2>4 DEF OwnersBut
  <2>10. OwnersBut(S)' BY <1>s, <2>1, <2>6, <2>7, <2>8, <2>9 DEF OwnersBut
  <2> QED BY <1>r, <2>1, <2>5, <2>10
<1>8. ASSUME NEW w \in Pids, WorkerCrash(w) PROVE Owners'
  <2>1. /\ UNCHANGED <<tree, flag, mpc, mpid, exits>> /\ wpc'[w] = "zombie"
        /\ \A v \in Pids \ {w} : wpc'[v] = wpc[v] /\ last'[v] = last[v]
    BY <1>8 DEF WorkerCrash, TypeOK
  <2>2. \A t \in tree \ S : Claimed(t)' BY <1>s, <2>1 DEF OwnersBut, Claimed
  <2>3. OwnersBut(S)' BY <1>s, <2>1, <2>2 DEF OwnersBut
  <2> QED BY <1>q, <2>1, <2>3
<1>9. ASSUME NEW w \in Pids, WorkerExit(w) PROVE Owners'
  <2>1. /\ UNCHANGED <<tree, flag, mpc, mpid>> /\ exits' = exits + 1
        /\ wpc[w] = "loop" /\ wpc'[w] = "exit"
        /\ \A v \in Pids \ {w} : wpc'[v] = wpc[v] /\ last'[v] = last[v]
    BY <1>9 DEF WorkerExit, TypeOK
  <2>a. PICK x, R : x = last[w] /\ R = (S \union {x}) \intersect tree OBVIOUS
  <2>2. \A t \in tree \ R : flag[t] # w
    BY <1>w, <2>1, <2>a DEF Running, Holding
  <2>3. \A t \in tree \ R : Claimed(t)'
    BY <1>s, <2>1, <2>2, <2>a DEF OwnersBut, Claimed
  <2>4. OwnersBut(R)' BY <1>s, <2>1, <2>3, <2>a DEF OwnersBut
  <2>5. IsFiniteSet(S) /\ Cardinality(S) \in Nat BY TreeSets
  <2>6. /\ IsFiniteSet(S \union {x})
        /\ Cardinality(S \union {x}) <= Cardinality(S) + 1
    BY <2>5, FS_AddElement
  <2>7. /\ Cardinality(R) <= Cardinality(S \union {x})
        /\ Cardinality(R) \in Nat /\ Cardinality(S \union {x}) \in Nat
    <3>1. R \in SUBSET (S \union {x}) BY <2>a
    <3>2. IsFiniteSet(R) BY <2>6, <3>1, FS_Subset
    <3> QED BY <2>6, <3>1, <3>2, FS_Subset, FS_CardinalityType
  <2>8. Cardinality(R) <= exits' BY <1>0, <1>s, <2>1, <2>5, <2>6, <2>7
  <2>9. R \in SUBSET tree' BY <2>1, <2>a
  <2> QED BY <2>4, <2>8, <2>9 DEF Owners
<1>10. ASSUME NetLock \/ PushNoNode \/ PushNoRoom \/ MainLock PROVE Owners'
  <2>1. /\ UNCHANGED <<tree, flag, last, wpc, mpid, exits>>
        /\ mpc' = mpc \/ (mpc = "lock" /\ mpc' = "clean")
    BY <1>10 DEF NetLock, PushNoNode, PushNoRoom, MainLock
  <2>2. \A t \in tree \ S : Claimed(t)' BY <1>s, <2>1 DEF OwnersBut, Claimed
  <2>3. OwnersBut(S)' BY <1>s, <2>1, <2>2 DEF OwnersBut
  <2> QED BY <1>q, <2>1, <2>3
<1>11. ASSUME PushSelfClean PROVE Owners'
  <2>1. PICK p \in Pids : Clean4pid(p) BY <1>11 DEF PushSelfClean
  <2>2. UNCHANGED <<last, wpc, mpc, mpid, exits>> BY <1>11 DEF PushSelfClean
  <2>3. CASE OwnedBy(p) = {}
    <3>1. UNCHANGED <<tree, flag>> BY <2>1, <2>3 DEF Clean4pid
    <3>2. OwnersBut(S)' BY <1>s, <2>2, <3>1 DEF OwnersBut, Claimed
    <3> QED BY <1>q, <2>2, <3>1, <3>2
  <2>4. CASE OwnedBy(p) # {}
    <3>1. PICK t \in tree : Clean(t) BY <2>1, <2>4 DEF Clean4pid, OwnedBy
    <3>2. tree' = tree \ {t} /\ \A n \in tree' : flag'[n] = flag[n]
      BY <3>1, CleanTree
    <3>3. PICK R : R = S \ {t} OBVIOUS
    <3>4. \A n \in tree' \ R : n \in tree \ S /\ Claimed(n)'
      BY <1>s, <2>2, <3>2, <3>3 DEF OwnersBut, Claimed
    <3>5. OwnersBut(R)' BY <1>s, <2>2, <3>2, <3>4 DEF OwnersBut
    <3> QED BY <1>r, <2>2, <3>2, <3>3, <3>5
  <2> QED BY <2>3, <2>4
<1>12. ASSUME PushDone PROVE Owners'
  <2>1. PICK k \in Keys, f \in {Plain, Barrier}, l \in Lens : Enqueue(k, f, l)
    BY <1>12 DEF PushDone
  <2>2. /\ tree' = tree /\ last' = last
        /\ \A n \in tree : flag'[n] = flag[n]
    BY <2>1, EnqueueKeyInv
  <2>3. UNCHANGED <<wpc, mpc, mpid, exits>> BY <1>12 DEF PushDone
  <2>4. \A t \in tree \ S : Claimed(t)' BY <1>s, <2>2, <2>3 DEF OwnersBut, Claimed
  <2>5. OwnersBut(S)' BY <1>s, <2>2, <2>3, <2>4 DEF OwnersBut
  <2> QED BY <1>q, <2>2, <2>3, <2>5
<1>13. ASSUME NEW p \in Pids, MainReapCrashed(p) PROVE Owners'
  <2>1. /\ UNCHANGED <<tree, flag, last, exits>> /\ mpc = "watch"
        /\ mpc' = "lock" /\ mpid' = p /\ wpc[p] = "zombie"
        /\ wpc'[p] = "dead" /\ \A v \in Pids \ {p} : wpc'[v] = wpc[v]
    BY <1>13 DEF MainReapCrashed, TypeOK
  <2>2. mpid = NULL BY <1>s, <2>1 DEF OwnersBut
  <2>3. \A t \in tree \ S : Claimed(t)'
    BY <1>0, <1>s, <2>1, <2>2 DEF OwnersBut, Claimed
  <2>4. OwnersBut(S)' BY <1>s, <2>1, <2>3 DEF OwnersBut
  <2> QED BY <1>q, <2>1, <2>4
<1>14. ASSUME NEW p \in Pids, MainReapExited(p) \/ OrphanReaped(p)
       PROVE  Owners'
  <2>1. /\ UNCHANGED <<tree, flag, last, mpc, mpid, exits>>
        /\ \/ wpc[p] = "exit" /\ wpc'[p] = "gone"
           \/ wpc[p] = "zombie" /\ wpc'[p] = "dead" /\ mpc = "stopped"
        /\ \A v \in Pids \ {p} : wpc'[v] = wpc[v]
    BY <1>14 DEF MainReapExited, OrphanReaped, TypeOK
  <2>2. "exit" \notin Running BY DEF Running, Holding
  <2>3. \A t \in tree \ S : Claimed(t)'
    BY <1>s, <2>1, <2>2 DEF OwnersBut, Claimed
  <2>4. OwnersBut(S)' BY <1>s, <2>1, <2>3 DEF OwnersBut
  <2> QED BY <1>q, <2>1, <2>4
<1>15. ASSUME MainClean PROVE Owners'
  <2>1. /\ mpc = "clean" /\ Clean4pid(mpid) /\ mpc' = "spawn" /\ mpid' = NULL
        /\ UNCHANGED <<last, wpc, exits>>
    BY <1>15 DEF MainClean
  <2>a. PICK p : p = mpid OBVIOUS
  <2>2. p \in Pids /\ wpc[p] = "dead" BY <2>1, <2>a DEF MainCleansDead
  \* what main has not cleaned up after is claimed by other processes
  <2>3. ASSUME NEW n \in tree \ S, flag[n] # p, flag'[n] = flag[n]
        PROVE  Claimed(n)'
    BY <1>s, <2>1, <2>3, <2>a DEF OwnersBut, Claimed
  <2>4. CASE OwnedBy(p) = {}
    <3>1. UNCHANGED <<tree, flag>> BY <2>1, <2>4, <2>a DEF Clean4pid
    <3>2. \A n \in tree \ S : flag[n] # p BY <2>4 DEF OwnedBy
    <3>3. \A n \in tree \ S : Claimed(n)' BY <2>3, <3>1, <3>2
    <3>4. OwnersBut(S)' BY <1>s, <2>1, <3>1, <3>3 DEF OwnersBut
    <3> QED BY <1>q, <2>1, <3>1, <3>4
  <2>5. CASE OwnedBy(p) # {}
    <3>1. PICK t \in tree : flag[t] = p /\ Clean(t)
      BY <2>1, <2>5, <2>a DEF Clean4pid, OwnedBy
    <3>2. tree' = tree \ {t} /\ \A n \in tree' : flag'[n] = flag[n]
      BY <3>1, CleanTree
    <3>3. CASE \A n \in tree \ S : flag[n] = p => n = t
      <4>1. PICK R : R = S \ {t} OBVIOUS
      <4>2. \A n \in tree' \ R : n \in tree \ S /\ flag[n] # p BY <3>2, <3>3, <4>1
      <4>3. \A n \in tree' \ R : Claimed(n)' BY <2>3, <3>2, <4>2
      <4>4. OwnersBut(R)' BY <1>s, <2>1, <3>2, <4>2, <4>3 DEF OwnersBut
      <4> QED BY <1>r, <2>1, <3>2, <4>1, <4>4
    <3>4. ASSUME NEW u \in tree \ S, flag[u] = p, u # t PROVE Owners'
      <4>1. \A n \in tree \ S : flag[n] = p => n = u BY <1>s, <3>4 DEF OwnersBut
      <4>2. t \in S BY <3>1, <3>4, <4>1
      <4>3. PICK R : R = (S \ {t}) \union {u} OBVIOUS
      <4>4. \A n \in tree' \ R : n \in tree \ S /\ flag[n] # p
        BY <3>2, <4>1, <4>3
      <4>5. \A n \in tree' \ R : Claimed(n)' BY <2>3, <3>2, <4>4
      <4>6. OwnersBut(R)' BY <1>s, <2>1, <3>2, <4>4, <4>5 DEF OwnersBut
      <4>7. IsFiniteSet(S) /\ Cardinality(S) \in Nat BY TreeSets
      <4>8. /\ IsFiniteSet(S \ {t})
            /\ Cardinality(S \ {t}) = Cardinality(S) - 1
        BY <4>2, <4>7, FS_RemoveElement
      <4>9. u \notin S \ {t} BY <3>4
      <4>10. Cardinality(R) = Cardinality(S \ {t}) + 1
        BY <4>3, <4>8, <4>9, FS_AddElement
      <4>11. Cardinality(R) <= exits'
        BY <1>0, <1>s, <2>1, <4>7, <4>8, <4>10
      <4>12. R \in SUBSET tree' BY <3>2, <3>4, <4>3
      <4> QED BY <4>6, <4>11, <4>12 DEF Owners
    <3> QED BY <3>3, <3>4
  <2> QED BY <2>4, <2>5
<1>16. ASSUME MainFork PROVE Owners'
  <2>1. PICK p \in Pids :
          /\ wpc[p] \in {"dead", "gone"}
          /\ wpc' = [wpc EXCEPT ![p] = "init"]
          /\ last' = [last EXCEPT ![p] = NULL]
    BY <1>16 DEF MainFork
  <2>2. UNCHANGED <<tree, flag, mpid, exits>> /\ mpc = "spawn" /\ mpc' = "wait"
    BY <1>16 DEF MainFork
  <2>3. mpid = NULL BY <1>s, <2>2 DEF OwnersBut
  <2>4. /\ last'[p] = NULL /\ wpc'[p] = "init"
        /\ \A v \in Pids \ {p} : wpc'[v] = wpc[v] /\ last'[v] = last[v]
    BY <2>1 DEF TypeOK
  <2>5. \A t \in tree \ S : flag[t] # p
    BY <1>0, <1>s, <2>1, <2>2, <2>3 DEF OwnersBut, Claimed, Running, Holding
  <2>6. \A t \in tree \ S : Claimed(t)'
    BY <1>0, <1>s, <2>2, <2>3, <2>4, <2>5 DEF OwnersBut, Claimed
  <2>7. OwnersBut(S)' BY <1>s, <2>2, <2>3, <2>4, <2>6 DEF OwnersBut
  <2> QED BY <1>q, <2>2, <2>7
<1>17. ASSUME MainForkFailed \/ MainChildTold PROVE Owners'
  <2>1. /\ UNCHANGED <<tree, flag, last, wpc, mpid, exits>>
        /\ mpc \in {"spawn", "wait"}
    BY <1>17 DEF MainForkFailed, MainChildTold
  <2>2. mpid = NULL BY <1>s, <2>1 DEF OwnersBut
  <2>3. \A t \in tree \ S : Claimed(t)'
    BY <1>0, <1>s, <2>1, <2>2 DEF OwnersBut, Claimed
  <2>4. OwnersBut(S)' BY <1>s, <2>1, <2>2, <2>3 DEF OwnersBut
  <2> QED BY <1>q, <2>1, <2>4
<1>18. ASSUME UNCHANGED vars PROVE Owners'
  <2>1. UNCHANGED <<tree, flag, last, wpc, mpc, mpid, exits>> BY <1>18 DEF vars
  <2>2. OwnersBut(S)' BY <1>s, <2>1 DEF OwnersBut, Claimed
  <2> QED BY <1>q, <2>1, <2>2
<1> QED
  BY <1>1, <1>2, <1>3, <1>4, <1>5, <1>6, <1>7, <1>8, <1>9, <1>10, <1>11,
     <1>12, <1>13, <1>14, <1>15, <1>16, <1>17, <1>18
  DEF Next, WorkerStep, NetStep, MainStep

\* At most one key for each normal exit is locked for nobody: for any number of
\* workers, crashes and exits, and although pids are given again, the owner of
\* every other locked key still works on the packet, or waits for main to clean
\* up, unless main itself has stopped.
THEOREM LockedForSomebodyHolds == Spec => []LockedForSomebody
<1>1. KeyInv /\ Owners => LockedForSomebody
  <2> SUFFICES ASSUME KeyInv, Owners PROVE LockedForSomebody OBVIOUS
  <2> DEFINE Stray == {t \in tree : ~\E p \in Pids : LockedFor(t, p)}
  <2>1. PICK S \in SUBSET tree : Cardinality(S) <= exits /\ OwnersBut(S)
    BY DEF Owners
  <2>2. ASSUME NEW t \in tree \ S PROVE LockedFor(t, flag[t])
    BY <2>1 DEF OwnersBut, Claimed, LockedFor
  <2>3. Stray \in SUBSET S BY <2>1, <2>2 DEF OwnersBut
  <2>4. TypeOK /\ Stray \in SUBSET tree BY DEF KeyInv
  <2> HIDE DEF Stray
  <2>5. /\ Cardinality(Stray) <= Cardinality(S)
        /\ Cardinality(Stray) \in Nat /\ Cardinality(S) \in Nat
    BY <2>3, <2>4, TreeSets
  <2>6. exits \in Nat BY <2>4, NewbenchAssumption DEF TypeOK
  <2>7. Cardinality(Stray) <= exits BY <2>1, <2>5, <2>6
  <2> QED BY <2>7 DEF Stray, LockedForSomebody
<1>2. KeyInv /\ Owners /\ [Next]_vars => KeyInv' /\ Owners'
  BY NextKeyInv, NextOwners
<1> QED BY <1>1, <1>2, InitKeyInv, InitOwners, PTL DEF Spec

-----------------------------------------------------------------------------
(* The order of the used list *)

\* Every node is free, taken or unread.  The taken ones are those in the tree
\* and those that wait behind one of the tree, each behind its node also in
\* the used list, and in the order of the used list among themselves.
Behind ==
  /\ IsInjective(taken)
  /\ \A n \in Nodes :
       n \in Range(taken) <=> n \in tree \/ \E t \in tree : n \in Range(homo[t])
  /\ \A n \in Nodes : n \in free \/ n \in Range(taken) \/ n \in Range(unread)
  /\ \A t \in tree : \A n \in Range(homo[t]) : Prec(taken, t, n)
  /\ \A t \in tree : \A m, n \in Nodes : Prec(homo[t], m, n) => Prec(taken, m, n)

\* Deleting nodes from the used list, when they become free.
LEMMA DeleteTaken ==
  ASSUME TypeOK, Behind, NEW S,
         taken' = Without(taken, S), free' = free \union S, unread' = unread
  PROVE  /\ IsInjective(taken')
         /\ Range(taken') = Range(taken) \ S
         /\ \A n \in Nodes :
              n \in free' \/ n \in Range(taken') \/ n \in Range(unread')
         /\ \A m, n : Prec(taken', m, n) <=>
              Prec(taken, m, n) /\ m \notin S /\ n \notin S
<1>1. taken \in Seq(Nodes) /\ IsInjective(taken) BY DEF TypeOK, Behind
<1>2. Range(taken') = Range(taken) \ S BY <1>1, WithoutProperties
<1>3. IsInjective(taken') BY <1>1, WithoutInjective
<1>4. ASSUME NEW m, NEW n
      PROVE  Prec(taken', m, n) <=> Prec(taken, m, n) /\ m \notin S /\ n \notin S
  BY <1>1, PrecWithout
<1> QED BY <1>2, <1>3, <1>4 DEF Behind

\* Nodes of the lists are nodes.
LEMMA ListNodes ==
  ASSUME TypeOK
  PROVE  /\ tree \subseteq Nodes /\ Range(taken) \subseteq Nodes
         /\ Range(unread) \subseteq Nodes
         /\ \A t \in Nodes : homo[t] \in Seq(Nodes) /\ Range(homo[t]) \subseteq Nodes
BY DEF TypeOK, Range

\* Handover: the first of those that wait stands before the others.
LEMMA HandoverBehind ==
  ASSUME TypeOK, ListsApart, KeysApart, Behind,
         NEW w \in Pids, last[w] \in tree, Handover(w)
  PROVE  Behind'
<1> DEFINE old == last[w]
           new == Head(homo[old])
<1>1. old \in Nodes /\ old \in tree /\ homo[old] \in Seq(Nodes) /\ homo[old] # <<>>
  BY ListNodes DEF Handover
<1>2. /\ new \in Nodes /\ new \in Range(homo[old])
      /\ Range(homo[old]) = {new} \union Range(Tail(homo[old]))
      /\ new \notin Range(Tail(homo[old]))
  BY <1>1, TailProperties DEF ListsApart
<1>3. /\ tree' = (tree \ {old}) \union {new}
      /\ homo' = [homo EXCEPT ![new] = Tail(homo[old]), ![old] = <<>>]
      /\ taken' = Without(taken, {old})
      /\ Recycle({old}) /\ unread' = unread
  BY DEF Handover
<1>4. free' = free \union {old} BY <1>1, <1>3, RecycleKeys
<1>5. new \notin tree /\ new # old /\ \A t \in tree : old \notin Range(homo[t])
  BY <1>1, <1>2 DEF ListsApart
<1>6. /\ homo'[new] = Tail(homo[old])
      /\ \A t \in Nodes : t # new /\ t # old => homo'[t] = homo[t]
  BY <1>1, <1>2, <1>3, <1>5 DEF TypeOK
<1>7. \A n \in Range(Tail(homo[old])) : Prec(homo[old], new, n)
  BY <1>1, <1>2, HeadFirst
<1>8. \A m, n : Prec(Tail(homo[old]), m, n) => Prec(homo[old], m, n)
  BY <1>1, PrecTail DEF ListsApart
<1>9. /\ IsInjective(taken')
      /\ Range(taken') = Range(taken) \ {old}
      /\ \A n \in Nodes :
           n \in free' \/ n \in Range(taken') \/ n \in Range(unread')
      /\ \A m, n : Prec(taken', m, n) <=>
           Prec(taken, m, n) /\ m \notin {old} /\ n \notin {old}
  BY <1>3, <1>4, DeleteTaken
<1>10. /\ Range(homo[old]) \subseteq Nodes /\ tree \subseteq Nodes
       /\ \A t \in tree : Range(homo[t]) \subseteq Nodes
  BY <1>1, ListNodes
<1> HIDE DEF new, old
<1>11. \A t \in tree' : \/ t = new
                        \/ t \in tree /\ t # old /\ homo'[t] = homo[t]
  BY <1>3, <1>5, <1>6, <1>10
<1>12. ASSUME NEW n \in Nodes
       PROVE  n \in Range(taken') <=>
                n \in tree' \/ \E t \in tree' : n \in Range(homo'[t])
  <2>1. ASSUME n \in Range(taken')
        PROVE  n \in tree' \/ \E t \in tree' : n \in Range(homo'[t])
    <3>1. n # old /\ (n \in tree \/ \E t \in tree : n \in Range(homo[t]))
      BY <1>9, <2>1 DEF Behind
    <3>2. CASE n \in tree BY <1>3, <3>1, <3>2
    <3>3. ASSUME NEW t \in tree, n \in Range(homo[t])
          PROVE  n \in tree' \/ \E u \in tree' : n \in Range(homo'[u])
      <4>1. CASE t = old BY <1>2, <1>3, <1>6, <3>3, <4>1
      <4>2. CASE t # old
        <5>1. t \in tree' /\ homo'[t] = homo[t] BY <1>3, <1>5, <1>6, <1>10, <4>2
        <5> QED BY <3>3, <5>1
      <4> QED BY <4>1, <4>2
    <3> QED BY <3>1, <3>2, <3>3
  <2>2. ASSUME n \in tree' \/ \E t \in tree' : n \in Range(homo'[t])
        PROVE  n \in Range(taken')
    <3>1. n # old /\ (n \in tree \/ \E t \in tree : n \in Range(homo[t]))
      BY <1>1, <1>2, <1>3, <1>5, <1>6, <1>11, <2>2
    <3> QED BY <1>9, <3>1 DEF Behind
  <2> QED BY <2>1, <2>2
<1>13. ASSUME NEW t \in tree', NEW n \in Range(homo'[t]) PROVE Prec(taken', t, n)
  <2>1. CASE t = new
    <3>1. n \in Range(Tail(homo[old])) BY <1>6, <1>13, <2>1
    <3>2. Prec(homo[old], new, n) /\ n \in Nodes /\ n # old
      BY <1>1, <1>2, <1>5, <1>7, <1>10, <3>1
    <3>3. Prec(taken, new, n) BY <1>1, <1>2, <3>2 DEF Behind
    <3> QED BY <1>5, <1>9, <2>1, <3>2, <3>3
  <2>2. CASE t # new
    <3>1. t \in tree /\ t # old /\ n \in Range(homo[t]) BY <1>11, <1>13, <2>2
    <3>2. Prec(taken, t, n) /\ n # old BY <1>5, <3>1 DEF Behind
    <3> QED BY <1>9, <3>1, <3>2
  <2> QED BY <2>1, <2>2
<1>14. ASSUME NEW t \in tree', NEW m \in Nodes, NEW n \in Nodes,
              Prec(homo'[t], m, n)
       PROVE  Prec(taken', m, n)
  <2>1. PICK u \in tree : Prec(homo[u], m, n)
    BY <1>1, <1>6, <1>8, <1>11, <1>14
  <2>2. Prec(taken, m, n) BY <2>1 DEF Behind
  <2>3. m # old /\ n # old BY <1>5, <2>1, PrecRange
  <2> QED BY <1>9, <2>2, <2>3
<1> QED BY <1>9, <1>12, <1>13, <1>14 DEF Behind

\* Release and clean-up: a node of the tree goes with all that wait behind it.
LEMMA DropBehind ==
  ASSUME TypeOK, ListsApart, KeysApart, Behind, NEW t \in tree,
         tree' = tree \ {t},
         \A u \in tree \ {t} : homo'[u] = homo[u],
         taken' = Without(taken, {t} \union Range(homo[t])),
         free' = free \union ({t} \union Range(homo[t])),
         unread' = unread
  PROVE  Behind'
<1>1. PICK S : S = {t} \union Range(homo[t]) OBVIOUS
<1>2. /\ IsInjective(taken')
      /\ Range(taken') = Range(taken) \ S
      /\ \A n \in Nodes :
           n \in free' \/ n \in Range(taken') \/ n \in Range(unread')
      /\ \A m, n : Prec(taken', m, n) <=>
           Prec(taken, m, n) /\ m \notin S /\ n \notin S
  BY <1>1, DeleteTaken
<1>3. \A u \in tree \ {t} : u \notin S /\ \A n \in Range(homo[u]) : n \notin S
  BY <1>1 DEF ListsApart, KeysApart
<1>4. ASSUME NEW n \in Nodes
      PROVE  n \in Range(taken') <=>
               n \in tree' \/ \E u \in tree' : n \in Range(homo'[u])
  BY <1>1, <1>2, <1>3 DEF Behind
<1>5. ASSUME NEW u \in tree', NEW n \in Range(homo'[u]) PROVE Prec(taken', u, n)
  <2>1. u \in tree /\ u \notin S /\ n \in Range(homo[u]) /\ n \notin S
    BY <1>3, <1>5
  <2> QED BY <1>2, <2>1 DEF Behind
<1>6. ASSUME NEW u \in tree', NEW m \in Nodes, NEW n \in Nodes,
             Prec(homo'[u], m, n)
      PROVE  Prec(taken', m, n)
  <2>1. u \in tree \ {t} /\ Prec(homo[u], m, n) BY <1>6
  <2>2. m \notin S /\ n \notin S BY <1>3, <2>1, PrecRange
  <2>3. Prec(taken, m, n) BY <2>1 DEF Behind
  <2> QED BY <1>2, <2>2, <2>3
<1> QED BY <1>2, <1>4, <1>5, <1>6 DEF Behind

\* Release keeps the order: nothing waits behind the node that goes.
LEMMA ReleaseBehind ==
  ASSUME TypeOK, ListsApart, KeysApart, Behind,
         NEW w \in Pids, last[w] \in tree, Release(w)
  PROVE  Behind'
<1>1. PICK t \in tree : t = last[w] OBVIOUS
<1>2. /\ homo[t] = <<>> /\ tree' = tree \ {t} /\ homo' = homo
      /\ taken' = Without(taken, {t}) /\ Recycle({t}) /\ unread' = unread
  BY <1>1 DEF Release
<1>3. {t} = {t} \union Range(homo[t]) BY <1>2 DEF Range
<1>4. free' = free \union {t} BY <1>2, ListNodes, RecycleKeys
<1> QED BY <1>2, <1>3, <1>4, DropBehind

\* clean_4pid keeps the order of the nodes that stay.
LEMMA CleanBehind ==
  ASSUME TypeOK, ListsApart, KeysApart, Behind, NEW p, Clean4pid(p)
  PROVE  Behind'
<1>1. CASE UNCHANGED queueVars BY <1>1 DEF Behind
<1>2. ASSUME NEW t \in OwnedBy(p), Clean(t) PROVE Behind'
  <2>1. t \in tree /\ t \in Nodes BY ListNodes DEF OwnedBy
  <2>2. /\ tree' = tree \ {t} /\ homo' = [homo EXCEPT ![t] = <<>>]
        /\ taken' = Without(taken, {t} \union Range(homo[t]))
        /\ Recycle({t} \union Range(homo[t])) /\ unread' = unread
    BY <1>2 DEF Clean
  <2>3. {t} \union Range(homo[t]) \in SUBSET Nodes BY <2>1, ListNodes
  <2>4. free' = free \union ({t} \union Range(homo[t]))
    BY <2>2, <2>3, RecycleKeys
  <2>5. \A u \in tree \ {t} : homo'[u] = homo[u]
    BY <2>1, <2>2 DEF TypeOK
  <2> QED BY <2>1, <2>2, <2>4, <2>5, DropBehind
<1> QED BY <1>1, <1>2 DEF Clean4pid

\* A plain packet goes from the unread nodes to the free ones.
LEMMA TakePlainBehind ==
  ASSUME TypeOK, ListsApart, KeysApart, Behind, NEW w \in Pids, TakePlain(w)
  PROVE  Behind'
<1>1. /\ unread # <<>> /\ unread' = Tail(unread) /\ Recycle({Front})
      /\ UNCHANGED <<tree, homo, taken>>
  BY DEF TakePlain
<1>2. Front \in Nodes /\ Range(unread) = {Front} \union Range(Tail(unread))
  BY <1>1, FrontApart
<1>3. free' = free \union {Front} BY <1>1, <1>2, RecycleKeys
<1>4. \A n \in Nodes : n \in free' \/ n \in Range(taken') \/ n \in Range(unread')
  BY <1>1, <1>2, <1>3 DEF Behind
<1> QED BY <1>1, <1>4 DEF Behind

\* The node at the read head joins the taken ones.
LEMMA TakeFront ==
  ASSUME TypeOK, ListsApart, Behind, unread # <<>>,
         unread' = Tail(unread), taken' = Append(taken, Front), free' = free
  PROVE  /\ IsInjective(taken')
         /\ Range(taken') = Range(taken) \union {Front}
         /\ \A n \in Nodes :
              n \in free' \/ n \in Range(taken') \/ n \in Range(unread')
         /\ \A m, n : Prec(taken', m, n) <=>
              Prec(taken, m, n) \/ (m \in Range(taken) /\ n = Front)
         /\ Front \notin Range(taken)
<1>1. /\ Front \in Nodes /\ Front \notin tree
      /\ Range(unread) = {Front} \union Range(Tail(unread))
      /\ \A t \in tree : Front \notin Range(homo[t])
  BY FrontApart
<1>2. taken \in Seq(Nodes) /\ IsInjective(taken) BY DEF TypeOK, Behind
<1>3. Front \notin Range(taken) BY <1>1 DEF Behind
<1>4. Range(taken') = Range(taken) \union {Front} /\ IsInjective(taken')
  BY <1>1, <1>2, <1>3, AppendProps
<1>5. \A m, n : Prec(taken', m, n) <=>
        Prec(taken, m, n) \/ (m \in Range(taken) /\ n = Front)
  BY <1>1, <1>2, PrecAppend
<1>6. \A n \in Nodes : n \in free' \/ n \in Range(taken') \/ n \in Range(unread')
  BY <1>1, <1>4 DEF Behind
<1> QED BY <1>3, <1>4, <1>5, <1>6

\* A packet that joins a homo_list is the last of it and of the taken nodes.
LEMMA TakeConflictBehind ==
  ASSUME TypeOK, ListsApart, KeysApart, Behind, TakeConflict
  PROVE  Behind'
<1>1. /\ unread # <<>> /\ unread' = Tail(unread) /\ taken' = Append(taken, Front)
      /\ UNCHANGED <<free, tree>>
  BY DEF TakeConflict
<1>2. PICK t \in InTree(key[Front]) :
        homo' = [homo EXCEPT ![t] = JoinHomo(t, Front)]
  BY DEF TakeConflict
<1>3. /\ IsInjective(taken')
      /\ Range(taken') = Range(taken) \union {Front}
      /\ \A n \in Nodes :
           n \in free' \/ n \in Range(taken') \/ n \in Range(unread')
      /\ \A m, n : Prec(taken', m, n) <=>
           Prec(taken, m, n) \/ (m \in Range(taken) /\ n = Front)
      /\ Front \notin Range(taken)
  BY <1>1, TakeFront
<1>4. Front \in Nodes BY <1>1, FrontApart
<1>5. t \in tree /\ t \in Nodes /\ homo[t] \in Seq(Nodes)
  BY ListNodes DEF InTree
<1>6. /\ homo'[t] = Append(homo[t], Front)
      /\ \A u \in tree : u # t => homo'[u] = homo[u]
  BY <1>2, <1>5, ListNodes DEF JoinHomo, TypeOK
<1>7. Range(homo'[t]) = Range(homo[t]) \union {Front}
  BY <1>4, <1>5, <1>6, AppendProps
<1>8. \A m, n : Prec(homo'[t], m, n) <=>
        Prec(homo[t], m, n) \/ (m \in Range(homo[t]) /\ n = Front)
  BY <1>4, <1>5, <1>6, PrecAppend
<1>9. t \in Range(taken) /\ \A n \in Range(homo[t]) : n \in Range(taken)
  BY <1>5, ListNodes DEF Behind
<1>10. ASSUME NEW n \in Nodes
       PROVE  n \in Range(taken') <=>
                n \in tree \/ \E u \in tree : n \in Range(homo'[u])
  <2>1. (\E u \in tree : n \in Range(homo'[u])) <=>
          (\E u \in tree : n \in Range(homo[u])) \/ n = Front
    <3>1. ASSUME NEW u \in tree, n \in Range(homo[u])
          PROVE  \E v \in tree : n \in Range(homo'[v])
      BY <1>6, <1>7, <3>1
    <3>2. ASSUME NEW u \in tree, n \in Range(homo'[u])
          PROVE  (\E v \in tree : n \in Range(homo[v])) \/ n = Front
      BY <1>6, <1>7, <3>2
    <3>3. n = Front => \E u \in tree : n \in Range(homo'[u])
      BY <1>5, <1>7
    <3> QED BY <3>1, <3>2, <3>3
  <2>2. n \in Range(taken) <=> n \in tree \/ \E u \in tree : n \in Range(homo[u])
    BY DEF Behind
  <2> QED BY <1>3, <2>1, <2>2
<1>11. ASSUME NEW u \in tree, NEW n \in Range(homo'[u]) PROVE Prec(taken', u, n)
  <2>1. CASE n \in Range(homo[u]) BY <1>3, <2>1 DEF Behind
  <2>2. CASE n \notin Range(homo[u])
    <3>1. u = t /\ n = Front BY <1>6, <1>7, <1>11, <2>2
    <3> QED BY <1>3, <1>9, <3>1
  <2> QED BY <2>1, <2>2
<1>12. ASSUME NEW u \in tree, NEW m \in Nodes, NEW n \in Nodes,
              Prec(homo'[u], m, n)
       PROVE  Prec(taken', m, n)
  <2>1. CASE Prec(homo[u], m, n) BY <1>3, <2>1 DEF Behind
  <2>2. CASE ~Prec(homo[u], m, n)
    <3>1. u = t /\ m \in Range(homo[t]) /\ n = Front BY <1>6, <1>8, <1>12, <2>2
    <3> QED BY <1>3, <1>9, <3>1
  <2> QED BY <2>1, <2>2
<1> QED BY <1>1, <1>3, <1>10, <1>11, <1>12 DEF Behind

\* A packet that locks its key has nothing waiting behind it yet.
LEMMA TakeBarrierBehind ==
  ASSUME TypeOK, ListsApart, KeysApart, Behind, NEW w \in Pids, TakeBarrier(w)
  PROVE  Behind'
<1>1. /\ unread # <<>> /\ unread' = Tail(unread) /\ taken' = Append(taken, Front)
      /\ tree' = tree \union {Front}
      /\ homo' = [homo EXCEPT ![Front] = <<>>]
      /\ free' = free
  BY DEF TakeBarrier
<1>2. /\ IsInjective(taken')
      /\ Range(taken') = Range(taken) \union {Front}
      /\ \A n \in Nodes :
           n \in free' \/ n \in Range(taken') \/ n \in Range(unread')
      /\ \A m, n : Prec(taken', m, n) <=>
           Prec(taken, m, n) \/ (m \in Range(taken) /\ n = Front)
      /\ Front \notin Range(taken)
  BY <1>1, TakeFront
<1>3. Front \in Nodes /\ Front \notin tree BY <1>1, FrontApart
<1>4. homo'[Front] = <<>> /\ \A u \in tree : homo'[u] = homo[u]
  BY <1>1, <1>3, ListNodes DEF TypeOK
<1>5. Range(<<>>) = {} /\ \A m, n : ~Prec(<<>>, m, n) BY DEF Range, Prec
<1>6. ASSUME NEW n \in Nodes
      PROVE  n \in Range(taken') <=>
               n \in tree' \/ \E u \in tree' : n \in Range(homo'[u])
  BY <1>1, <1>2, <1>4, <1>5 DEF Behind
<1>7. ASSUME NEW u \in tree', NEW n \in Range(homo'[u]) PROVE Prec(taken', u, n)
  BY <1>1, <1>2, <1>4, <1>5, <1>7 DEF Behind
<1>8. ASSUME NEW u \in tree', NEW m \in Nodes, NEW n \in Nodes,
             Prec(homo'[u], m, n)
      PROVE  Prec(taken', m, n)
  BY <1>1, <1>2, <1>4, <1>5, <1>8 DEF Behind
<1> QED BY <1>2, <1>6, <1>7, <1>8 DEF Behind

\* A push moves a free node to the end of the unread ones.
LEMMA EnqueueBehind ==
  ASSUME TypeOK, ListsApart, KeysApart, Behind,
         NEW k, NEW f, NEW l, Enqueue(k, f, l)
  PROVE  Behind'
<1>1. PICK n \in free :
        /\ free' = free \ {n} /\ unread' = Append(unread, n)
        /\ UNCHANGED <<taken, tree, homo>>
  BY DEF Enqueue
<1>2. Range(unread') = Range(unread) \union {n}
  BY <1>1, AppendProps DEF TypeOK
<1>3. \A m \in Nodes : m \in free' \/ m \in Range(taken') \/ m \in Range(unread')
  BY <1>1, <1>2 DEF Behind
<1> QED BY <1>1, <1>3 DEF Behind

\* The used list as a whole: each node once, none of them free.
LEMMA UsedFacts ==
  ASSUME TypeOK, ListsApart, Behind
  PROVE  /\ Used \in Seq(Nodes) /\ IsInjective(Used)
         /\ Range(Used) = Range(taken) \union Range(unread)
         /\ Range(taken) \intersect Range(unread) = {}
         /\ free \intersect Range(Used) = {}
         /\ \A m, n : Prec(Used, m, n) <=>
              \/ Prec(taken, m, n) \/ Prec(unread, m, n)
              \/ m \in Range(taken) /\ n \in Range(unread)
<1>1. taken \in Seq(Nodes) /\ unread \in Seq(Nodes) BY DEF TypeOK
<1>2. ASSUME NEW n \in Range(taken) PROVE n \notin free /\ n \notin Range(unread)
  <2>1. n \in tree \/ \E t \in tree : n \in Range(homo[t])
    BY ListNodes DEF Behind
  <2> QED BY <2>1 DEF ListsApart
<1>3. \A n \in Range(unread) : n \notin free BY DEF ListsApart
<1>4. IsInjective(taken) /\ IsInjective(unread) BY DEF Behind, ListsApart
<1>5. Range(taken) \intersect Range(unread) = {} BY <1>2
<1>6. /\ Used \in Seq(Nodes) /\ IsInjective(Used)
      /\ Range(Used) = Range(taken) \union Range(unread)
      /\ \A m, n : Prec(Used, m, n) <=>
           \/ Prec(taken, m, n) \/ Prec(unread, m, n)
           \/ m \in Range(taken) /\ n \in Range(unread)
  BY <1>1, <1>4, <1>5, ConcatProps DEF Used
<1> QED BY <1>2, <1>3, <1>5, <1>6

-----------------------------------------------------------------------------
(* Packets in the ring *)

\* how far b lies behind a in the ring
Dist(a, b) == IF b >= a THEN b - a ELSE BufferLen - (a - b)

\* how far the packet of n lies behind the head index
Off(n) == Dist(head_index, addr[n])

Indices == 0..BufferLen-1

\* The packets lie between the head and the tail index, in the order of the
\* used list, and the head index is at the first of them.
InRing ==
  /\ \A n \in Range(Used) :
       length[n] > 0 /\ Off(n) + length[n] <= Dist(head_index, tail_index)
  /\ \A m, n \in Nodes : Prec(Used, m, n) => Off(m) + length[m] <= Off(n)
  /\ head_index = IF Used = <<>> THEN tail_index ELSE addr[Head(Used)]

\* Distances are less than the length of the ring.
LEMMA DistType ==
  ASSUME NEW a \in Indices, NEW b \in Indices
  PROVE  Dist(a, b) \in Nat /\ Dist(a, b) < BufferLen /\ Dist(a, a) = 0
BY BarrierAssumption DEF Dist, Indices

\* The head index moves to b: everything behind b is so much nearer.
LEMMA DistShift ==
  ASSUME NEW a \in Indices, NEW b \in Indices, NEW c \in Indices,
         Dist(a, b) <= Dist(a, c)
  PROVE  Dist(b, c) = Dist(a, c) - Dist(a, b)
BY BarrierAssumption DEF Dist, Indices

\* The i-th cell behind a.
LEMMA CellDist ==
  ASSUME NEW h \in Indices, NEW a \in Indices, NEW i \in Nat,
         Dist(h, a) + i < BufferLen
  PROVE  /\ (a + i) % BufferLen = IF a + i < BufferLen THEN a + i
                                  ELSE a + i - BufferLen
         /\ Dist(h, (a + i) % BufferLen) = Dist(h, a) + i
<1> BufferLen \in Nat /\ BufferLen > 1 BY BarrierAssumption
<1>1. a \in Nat /\ a < BufferLen /\ h \in Nat /\ h < BufferLen BY DEF Indices
<1>2. i < BufferLen
  <2>1. Dist(h, a) \in Nat BY DistType
  <2> QED BY <2>1
<1>3. CASE a + i < BufferLen
  <2>1. (a + i) % BufferLen = a + i BY <1>1, <1>3
  <2>2. Dist(h, a + i) = Dist(h, a) + i BY <1>1, <1>3 DEF Dist
  <2> QED BY <1>3, <2>1, <2>2
<1>4. CASE a + i >= BufferLen
  <2>1. a + i - BufferLen \in Nat /\ a + i - BufferLen < BufferLen
    BY <1>1, <1>2, <1>4
  <2>2. (a + i) % BufferLen = a + i - BufferLen BY <1>1, <1>4, <2>1
  <2>3. Dist(h, a + i - BufferLen) = Dist(h, a) + i
    BY <1>1, <1>2, <1>4, <2>1 DEF Dist
  <2>4. ~(a + i < BufferLen) BY <1>1, <1>4
  <2> QED BY <2>2, <2>3, <2>4
<1> QED BY <1>1, <1>3, <1>4

\* The tail index moves behind a packet that fits.
LEMMA PushMovesTail ==
  ASSUME TypeOK, NEW l \in Nat, HasRoom(l)
  PROVE  /\ NewTail(l) \in Indices
         /\ Dist(head_index, NewTail(l)) = Dist(head_index, tail_index) + l
<1>1. head_index \in Indices /\ tail_index \in Indices BY DEF TypeOK, Indices
<1> QED
  BY <1>1, BarrierAssumption DEF HasRoom, EmptyBufferLen, NewTail, Dist, Indices

\* Packets leave the ring, from the middle or from its head, and the packets
\* that stay are as intact as before.
LEMMA DeleteInRing ==
  ASSUME TypeOK, ListsApart, Behind, InRing,
         NEW s \in Seq(Nodes), NEW S \in SUBSET Range(Used), S # {},
         Range(s) = Range(Used) \ S,
         \A m, n : Prec(s, m, n) => Prec(Used, m, n),
         MoveHead(s, S), Recycle(S),
         Used' = s, tail_index' = tail_index
  PROVE  InRing'
<1>1. Used \in Seq(Nodes) /\ IsInjective(Used) /\ Range(Used) \subseteq Nodes
  <2>1. Used \in Seq(Nodes) /\ IsInjective(Used) BY UsedFacts
  <2> QED BY <2>1 DEF Range
<1>2. Used # <<>> /\ Head(Used) \in Range(Used)
  <2>1. Used # <<>> BY DEF Range
  <2> QED BY <1>1, <2>1, TailProperties
<1>3. \A n \in Nodes \ S : addr'[n] = addr[n] /\ length'[n] = length[n]
  BY DEF Recycle
<1>4. /\ \A n \in Nodes : addr[n] \in Indices /\ length[n] \in Nat
      /\ head_index \in Indices /\ tail_index \in Indices
  BY DEF TypeOK, Indices
<1>5. \A m, n : Prec(s, m, n) => m \in Range(s) /\ n \in Range(s)
  BY PrecRange
<1>6. \A n \in Range(s) : n \in Nodes /\ n \notin S /\ n \in Range(Used)
  BY <1>1
<1>7. CASE Head(Used) \notin S
  <2>1. head_index' = head_index BY <1>7 DEF MoveHead
  <2>2. Head(Used) \in Range(s) /\ s # <<>> BY <1>2, <1>7 DEF Range
  <2>3. Head(s) \in Range(s) BY <2>2, TailProperties
  <2>4. Head(s) = Head(Used)
    <3> SUFFICES ASSUME Head(s) # Head(Used) PROVE FALSE
      OBVIOUS
    <3>1. Prec(s, Head(s), Head(Used)) BY <2>2, HeadFirst
    <3>2. Prec(Used, Head(Used), Head(s)) BY <1>1, <1>2, <1>6, <2>3, HeadFirst
    <3> QED BY <1>1, <3>1, <3>2, PrecAsymmetric
  <2>5. head_index' = addr'[Head(s)]
    BY <1>2, <1>3, <1>6, <2>1, <2>3, <2>4 DEF InRing
  <2>6. \A n \in Range(s) : Off(n)' = Off(n) /\ length'[n] = length[n]
    BY <1>3, <1>6, <2>1 DEF Off, Dist
  <2>7. \A n \in Range(s) :
          length'[n] > 0 /\ Off(n)' + length'[n] <= Dist(head_index, tail_index)'
    BY <1>6, <2>1, <2>6 DEF InRing, Dist
  <2>8. \A m, n \in Nodes : Prec(s, m, n) => Off(m)' + length'[m] <= Off(n)'
    BY <1>5, <2>6 DEF InRing
  <2> QED BY <2>2, <2>5, <2>7, <2>8 DEF InRing
<1>8. CASE Head(Used) \in S /\ s = <<>>
  <2>1. head_index' = tail_index' BY <1>8 DEF MoveHead
  <2>2. Range(s) = {} /\ \A m, n : ~Prec(s, m, n) BY <1>8 DEF Range, Prec
  <2> QED BY <1>8, <2>1, <2>2 DEF InRing
<1>9. CASE Head(Used) \in S /\ s # <<>>
  <2>1. PICK h \in Range(s) : h = Head(s) BY <1>9, TailProperties
  <2>2. head_index' = addr[h] /\ h \in Nodes /\ addr[h] \in Indices
    BY <1>4, <1>6, <1>9, <2>1 DEF MoveHead
  <2>3. ASSUME NEW n \in Range(s) PROVE Off(h) <= Off(n)
    <3>1. Off(h) \in Nat /\ Off(n) \in Nat /\ length[h] \in Nat
      BY <1>4, <1>6, <2>2, DistType DEF Off
    <3>2. CASE n = h BY <3>1, <3>2
    <3>3. CASE n # h
      <4>1. Prec(Used, h, n) BY <1>9, <2>1, <3>3, HeadFirst
      <4>2. Off(h) + length[h] <= Off(n) BY <1>6, <4>1 DEF InRing
      <4> QED BY <3>1, <4>2
    <3> QED BY <3>2, <3>3
  <2>4. ASSUME NEW n \in Range(s)
        PROVE  /\ Off(n)' = Off(n) - Off(h) /\ length'[n] = length[n]
               /\ Off(n) \in Nat /\ length[n] \in Nat
    <3>1. n \in Nodes /\ addr'[n] = addr[n] /\ length'[n] = length[n]
      BY <1>3, <1>6
    <3>2. Dist(addr[h], addr[n]) = Off(n) - Off(h)
      BY <1>4, <2>2, <2>3, <3>1, DistShift DEF Off
    <3>3. Off(n)' = Dist(addr[h], addr[n]) BY <2>2, <3>1 DEF Off, Dist
    <3> QED BY <1>4, <3>1, <3>2, <3>3, DistType DEF Off
  <2>5. Dist(head_index, tail_index)' = Dist(head_index, tail_index) - Off(h)
        /\ Dist(head_index, tail_index) \in Nat /\ Off(h) \in Nat
    <3>1. /\ Off(h) \in Nat /\ length[h] \in Nat
          /\ Dist(head_index, tail_index) \in Nat
      BY <1>4, <2>2, DistType DEF Off
    <3>2. Off(h) + length[h] <= Dist(head_index, tail_index)
      BY <1>6 DEF InRing
    <3>3. Off(h) <= Dist(head_index, tail_index) BY <3>1, <3>2
    <3>4. Dist(addr[h], tail_index) = Dist(head_index, tail_index) - Off(h)
      BY <1>4, <2>2, <3>3, DistShift DEF Off
    <3> QED BY <2>2, <3>1, <3>4 DEF Dist
  <2>6. ASSUME NEW n \in Range(s)
        PROVE  /\ length'[n] > 0
               /\ Off(n)' + length'[n] <= Dist(head_index, tail_index)'
    <3>1. length[n] > 0 /\ Off(n) + length[n] <= Dist(head_index, tail_index)
      BY <1>6 DEF InRing
    <3> QED BY <2>4, <2>5, <3>1
  <2>7. ASSUME NEW m \in Nodes, NEW n \in Nodes, Prec(s, m, n)
        PROVE  Off(m)' + length'[m] <= Off(n)'
    <3>1. m \in Range(s) /\ n \in Range(s) BY <1>5, <2>7
    <3>2. Off(m) + length[m] <= Off(n) BY <2>7 DEF InRing
    <3> QED BY <2>4, <2>5, <3>1, <3>2
  <2>8. head_index' = addr'[Head(s)] BY <1>3, <1>6, <2>1, <2>2
  <2> QED BY <1>9, <2>6, <2>7, <2>8 DEF InRing
<1> QED BY <1>7, <1>8, <1>9

\* Nodes of the tree, and those behind them, go.
LEMMA DropInRing ==
  ASSUME TypeOK, ListsApart, Behind, InRing,
         NEW S \in SUBSET Range(taken), S # {},
         taken' = Without(taken, S), unread' = unread, tail_index' = tail_index,
         MoveHead(Without(taken, S) \o unread, S), Recycle(S)
  PROVE  InRing'
<1>1. PICK r : r = Without(taken, S) OBVIOUS
<1>2. taken \in Seq(Nodes) /\ unread \in Seq(Nodes) BY DEF TypeOK
<1>3. /\ r \in Seq(Nodes) /\ Range(r) = Range(taken) \ S
      /\ \A m, n : Prec(r, m, n) =>
           Prec(taken, m, n) /\ m \in Range(taken) /\ n \in Range(taken)
  BY <1>1, <1>2, WithoutProperties, PrecWithout, PrecRange
<1>4. /\ Range(Used) = Range(taken) \union Range(unread)
      /\ Range(taken) \intersect Range(unread) = {}
      /\ \A m, n : Prec(Used, m, n) <=>
           \/ Prec(taken, m, n) \/ Prec(unread, m, n)
           \/ m \in Range(taken) /\ n \in Range(unread)
  BY UsedFacts
<1>5. PICK s : s = r \o unread OBVIOUS
<1>6. /\ s \in Seq(Nodes) /\ Range(s) = Range(r) \union Range(unread)
      /\ \A m, n : Prec(s, m, n) <=>
           \/ Prec(r, m, n) \/ Prec(unread, m, n)
           \/ m \in Range(r) /\ n \in Range(unread)
  BY <1>2, <1>3, <1>5, ConcatProps
<1>7. Range(s) = Range(Used) \ S BY <1>3, <1>4, <1>6
<1>8. \A m, n : Prec(s, m, n) => Prec(Used, m, n) BY <1>3, <1>4, <1>6
<1>9. Used' = s /\ MoveHead(s, S) BY <1>1, <1>5 DEF Used
<1>10. S \in SUBSET Range(Used) BY <1>4
<1> QED BY <1>6, <1>7, <1>8, <1>9, <1>10, DeleteInRing

\* Handover deletes the packet that is done.
LEMMA HandoverInRing ==
  ASSUME TypeOK, ListsApart, Behind, InRing, NEW w \in Pids, last[w] \in tree,
         Handover(w)
  PROVE  InRing'
<1>1. PICK S : S = {last[w]} OBVIOUS
<1>2. S \in SUBSET Range(taken) /\ S # {} BY <1>1, ListNodes DEF Behind
<1>3. /\ taken' = Without(taken, S) /\ unread' = unread /\ tail_index' = tail_index
      /\ MoveHead(Without(taken, S) \o unread, S) /\ Recycle(S)
  BY <1>1 DEF Handover
<1> QED BY <1>2, <1>3, DropInRing

\* Release deletes the packet that is done.
LEMMA ReleaseInRing ==
  ASSUME TypeOK, ListsApart, Behind, InRing, NEW w \in Pids, last[w] \in tree,
         Release(w)
  PROVE  InRing'
<1>1. PICK S : S = {last[w]} OBVIOUS
<1>2. S \in SUBSET Range(taken) /\ S # {} BY <1>1, ListNodes DEF Behind
<1>3. /\ taken' = Without(taken, S) /\ unread' = unread /\ tail_index' = tail_index
      /\ MoveHead(Without(taken, S) \o unread, S) /\ Recycle(S)
  BY <1>1 DEF Release
<1> QED BY <1>2, <1>3, DropInRing

\* clean_4pid deletes the packet of the process and those behind it.
LEMMA CleanInRing ==
  ASSUME TypeOK, ListsApart, Behind, InRing, NEW p, Clean4pid(p)
  PROVE  InRing'
<1>1. CASE UNCHANGED queueVars BY <1>1 DEF InRing, Used, Off, Dist
<1>2. ASSUME NEW t \in OwnedBy(p), Clean(t) PROVE InRing'
  <2>1. PICK S : S = {t} \union Range(homo[t]) OBVIOUS
  <2>2. t \in tree /\ t \in Nodes /\ Range(homo[t]) \subseteq Nodes
    BY ListNodes DEF OwnedBy
  <2>3. S \in SUBSET Range(taken) /\ S # {} BY <2>1, <2>2 DEF Behind
  <2>4. /\ taken' = Without(taken, S) /\ unread' = unread
        /\ tail_index' = tail_index
        /\ MoveHead(Without(taken, S) \o unread, S) /\ Recycle(S)
    BY <1>2, <2>1 DEF Clean
  <2> QED BY <2>3, <2>4, DropInRing
<1> QED BY <1>1, <1>2 DEF Clean4pid

\* A plain packet leaves the ring when it is read, past the taken ones.
LEMMA TakePlainInRing ==
  ASSUME TypeOK, ListsApart, Behind, InRing, NEW w \in Pids, TakePlain(w)
  PROVE  InRing'
<1>1. /\ unread # <<>> /\ unread' = Tail(unread) /\ taken' = taken
      /\ MoveHead(taken \o Tail(unread), {Front}) /\ Recycle({Front})
      /\ tail_index' = tail_index
  BY DEF TakePlain
<1>2. /\ Front \in Nodes /\ Front \in Range(unread)
      /\ Range(unread) = {Front} \union Range(Tail(unread))
      /\ Front \notin Range(Tail(unread))
  BY <1>1, FrontApart
<1>3. /\ taken \in Seq(Nodes) /\ unread \in Seq(Nodes) /\ IsInjective(unread)
      /\ Tail(unread) \in Seq(Nodes)
  BY <1>1, TailProperties DEF TypeOK, ListsApart
<1>4. \A m, n : Prec(Tail(unread), m, n) => Prec(unread, m, n)
  BY <1>1, <1>3, PrecTail
<1>5. /\ Range(Used) = Range(taken) \union Range(unread)
      /\ Range(taken) \intersect Range(unread) = {}
      /\ \A m, n : Prec(Used, m, n) <=>
           \/ Prec(taken, m, n) \/ Prec(unread, m, n)
           \/ m \in Range(taken) /\ n \in Range(unread)
  BY UsedFacts
<1>6. PICK s : s = taken \o Tail(unread) OBVIOUS
<1>7. /\ s \in Seq(Nodes) /\ Range(s) = Range(taken) \union Range(Tail(unread))
      /\ \A m, n : Prec(s, m, n) <=>
           \/ Prec(taken, m, n) \/ Prec(Tail(unread), m, n)
           \/ m \in Range(taken) /\ n \in Range(Tail(unread))
  BY <1>3, <1>6, ConcatProps
<1>8. Range(s) = Range(Used) \ {Front} BY <1>2, <1>5, <1>7
<1>9. \A m, n : Prec(s, m, n) => Prec(Used, m, n) BY <1>2, <1>4, <1>5, <1>7
<1>10. Used' = s /\ MoveHead(s, {Front}) BY <1>1, <1>6 DEF Used
<1>11. {Front} \in SUBSET Range(Used) /\ {Front} # {} BY <1>2, <1>5
<1> QED BY <1>1, <1>7, <1>8, <1>9, <1>10, <1>11, DeleteInRing

\* A barrier packet that is read stays where it is.
LEMMA TakeFrontInRing ==
  ASSUME TypeOK, InRing, unread # <<>>,
         unread' = Tail(unread), taken' = Append(taken, Front),
         UNCHANGED <<addr, length, head_index, tail_index>>
  PROVE  InRing'
<1>1. taken \in Seq(Nodes) /\ unread \in Seq(Nodes) /\ Front \in Nodes
  BY TailProperties DEF TypeOK, Front
<1>2. Used' = Used BY <1>1, ConcatMoves DEF Used, Front
<1> QED BY <1>2 DEF InRing, Off, Dist

\* A push puts its packet behind all others, in the room there is.
LEMMA EnqueueInRing ==
  ASSUME TypeOK, ListsApart, Behind, InRing,
         NEW k, NEW f, NEW l \in Lens, Enqueue(k, f, l)
  PROVE  InRing'
<1>1. l \in Nat /\ l > 0 /\ HasRoom(l) BY NewbenchAssumption DEF Enqueue
<1>2. PICK n \in free :
        /\ addr' = [addr EXCEPT ![n] = tail_index]
        /\ length' = [length EXCEPT ![n] = l]
        /\ tail_index' = NewTail(l)
        /\ unread' = Append(unread, n)
        /\ taken' = taken /\ head_index' = head_index
  BY DEF Enqueue
<1>3. n \in Nodes /\ taken \in Seq(Nodes) /\ unread \in Seq(Nodes)
  BY DEF TypeOK
<1>4. /\ Used \in Seq(Nodes) /\ n \notin Range(Used)
      /\ Range(Used) \subseteq Nodes
  <2>1. Used \in Seq(Nodes) /\ free \intersect Range(Used) = {} BY UsedFacts
  <2> QED BY <2>1 DEF Range
<1>5. Used' = Append(Used, n) BY <1>2, <1>3, ConcatMoves DEF Used
<1>6. /\ Range(Used') = Range(Used) \union {n}
      /\ \A a, b : Prec(Used', a, b) <=>
           Prec(Used, a, b) \/ (a \in Range(Used) /\ b = n)
  BY <1>3, <1>4, <1>5, AppendProps, PrecAppend
<1>7. /\ \A m \in Nodes : addr[m] \in Indices /\ length[m] \in Nat
      /\ head_index \in Indices /\ tail_index \in Indices
  BY DEF TypeOK, Indices
<1>8. /\ Dist(head_index, tail_index)' = Dist(head_index, tail_index) + l
      /\ Dist(head_index, tail_index) \in Nat
  BY <1>1, <1>2, <1>7, PushMovesTail, DistType DEF Dist
<1>9. Off(n)' = Dist(head_index, tail_index) /\ length'[n] = l
  BY <1>2, <1>3 DEF TypeOK, Off, Dist
<1>10. \A m \in Range(Used) :
         /\ Off(m)' = Off(m) /\ length'[m] = length[m] /\ addr'[m] = addr[m]
         /\ Off(m) \in Nat /\ length[m] \in Nat
  <2> TAKE m \in Range(Used)
  <2>1. m \in Nodes /\ m # n BY <1>4
  <2>2. addr'[m] = addr[m] /\ length'[m] = length[m]
    BY <1>2, <2>1 DEF TypeOK
  <2>3. Off(m)' = Off(m) BY <1>2, <2>2 DEF Off, Dist
  <2> QED BY <1>7, <2>1, <2>2, <2>3, DistType DEF Off
<1>11. ASSUME NEW m \in Range(Used')
       PROVE  /\ length'[m] > 0
              /\ Off(m)' + length'[m] <= Dist(head_index, tail_index)'
  <2>1. CASE m = n BY <1>1, <1>8, <1>9, <2>1
  <2>2. CASE m \in Range(Used)
    <3>1. length[m] > 0 /\ Off(m) + length[m] <= Dist(head_index, tail_index)
      BY <2>2 DEF InRing
    <3> QED BY <1>1, <1>8, <1>10, <2>2, <3>1
  <2> QED BY <1>6, <2>1, <2>2
<1>12. ASSUME NEW a \in Nodes, NEW b \in Nodes, Prec(Used', a, b)
       PROVE  Off(a)' + length'[a] <= Off(b)'
  <2>1. CASE Prec(Used, a, b)
    <3>1. a \in Range(Used) /\ b \in Range(Used) BY <2>1, PrecRange
    <3>2. Off(a) + length[a] <= Off(b) BY <2>1 DEF InRing
    <3> QED BY <1>10, <3>1, <3>2
  <2>2. CASE a \in Range(Used) /\ b = n
    <3>1. Off(a) + length[a] <= Dist(head_index, tail_index)
      BY <2>2 DEF InRing
    <3> QED BY <1>9, <1>10, <2>2, <3>1
  <2> QED BY <1>6, <1>12, <2>1, <2>2
<1>13. Used' # <<>> /\ head_index' = addr'[Head(Used')]
  <2>1. Used' # <<>> BY <1>3, <1>4, <1>5
  <2>2. CASE Used = <<>>
    <3>1. Head(Used') = n BY <1>5, <2>2
    <3>2. head_index = tail_index BY <2>2 DEF InRing
    <3> QED BY <1>2, <1>3, <2>1, <3>1, <3>2 DEF TypeOK
  <2>3. CASE Used # <<>>
    <3>1. Head(Used') = Head(Used) BY <1>3, <1>4, <1>5, <2>3
    <3>2. Head(Used) \in Range(Used) BY <1>4, <2>3, TailProperties
    <3>3. head_index = addr[Head(Used)] BY <2>3 DEF InRing
    <3> QED BY <1>2, <1>10, <2>1, <3>1, <3>2, <3>3
  <2> QED BY <2>2, <2>3
<1> QED BY <1>11, <1>12, <1>13 DEF InRing

-----------------------------------------------------------------------------
(* The queue as a whole *)

QueueInv == KeyInv /\ Owners /\ Behind /\ InRing

\* The empty queue is in order.
LEMMA InitQueueInv == Init => QueueInv
<1> SUFFICES ASSUME Init PROVE QueueInv
  OBVIOUS
<1>1. KeyInv /\ Owners BY InitKeyInv, InitOwners
<1>2. taken = <<>> /\ unread = <<>> /\ tree = {} /\ free = Nodes
  BY DEF Init, BrqInit
<1>3. /\ Range(<<>>) = {} /\ IsInjective(<<>>) /\ <<>> \o <<>> = <<>>
      /\ \A m, n : ~Prec(<<>>, m, n)
  BY DEF Range, IsInjective, Prec
<1>4. Behind BY <1>2, <1>3 DEF Behind
<1>5. Used = <<>> /\ head_index = tail_index
  BY <1>2, <1>3 DEF Used, Init, BrqInit
<1>6. InRing BY <1>3, <1>5 DEF InRing
<1> QED BY <1>1, <1>4, <1>6 DEF QueueInv

\* Every step keeps the queue in order.
LEMMA NextQueueInv == QueueInv /\ [Next]_vars => QueueInv'
<1> SUFFICES ASSUME QueueInv, [Next]_vars PROVE QueueInv'
  OBVIOUS
<1> /\ KeyInv /\ Owners /\ Behind /\ InRing
    /\ TypeOK /\ ListsApart /\ KeysApart /\ NoStalePointer
  BY DEF QueueInv, KeyInv
<1>0. KeyInv' /\ Owners' BY NextKeyInv, NextOwners
<1> DEFINE Good == Behind' /\ InRing'
<1>1. ASSUME UNCHANGED queueVars PROVE Good
  BY <1>1 DEF Behind, InRing, Used, Off, Dist
<1>2. ASSUME NEW w \in Pids, PopHandover(w) PROVE Good
  <2>1. Handover(w) /\ last[w] \in tree
    BY <1>2 DEF PopHandover, NoStalePointer, Running, Holding
  <2> QED BY <2>1, HandoverBehind, HandoverInRing
<1>3. ASSUME NEW w \in Pids, PopRelease(w) PROVE Good
  <2>1. Release(w) /\ last[w] \in tree
    BY <1>3 DEF PopRelease, NoStalePointer, Running, Holding
  <2> QED BY <2>1, ReleaseBehind, ReleaseInRing
<1>4. ASSUME NEW w \in Pids, ScanPlain(w) PROVE Good
  BY <1>4, TakePlainBehind, TakePlainInRing DEF ScanPlain
<1>5. ASSUME NEW w \in Pids, ScanConflict(w) PROVE Good
  <2>1. TakeConflict BY <1>5 DEF ScanConflict
  <2>2. InRing' BY <2>1, TakeFrontInRing DEF TakeConflict
  <2> QED BY <2>1, <2>2, TakeConflictBehind
<1>6. ASSUME NEW w \in Pids, ScanBarrier(w) PROVE Good
  <2>1. TakeBarrier(w) BY <1>6 DEF ScanBarrier
  <2>2. InRing' BY <2>1, TakeFrontInRing DEF TakeBarrier
  <2> QED BY <2>1, <2>2, TakeBarrierBehind
<1>7. ASSUME PushSelfClean PROVE Good
  <2>1. PICK p \in Pids : Clean4pid(p) BY <1>7 DEF PushSelfClean
  <2> QED BY <2>1, CleanBehind, CleanInRing
<1>8. ASSUME MainClean PROVE Good
  <2>1. Clean4pid(mpid) BY <1>8 DEF MainClean
  <2> QED BY <2>1, CleanBehind, CleanInRing
<1>9. ASSUME PushDone PROVE Good
  <2>1. PICK k \in Keys, f \in {Plain, Barrier}, l \in Lens : Enqueue(k, f, l)
    BY <1>9 DEF PushDone
  <2> QED BY <2>1, EnqueueBehind, EnqueueInRing
<1>10. ASSUME NEW w \in Pids,
              \/ WorkerReady(w) \/ WorkerInitFailed(w) \/ WorkerCheck(w)
              \/ WorkerLock(w) \/ PopStart(w) \/ ScanNothing(w)
              \/ WorkDone(w) \/ WorkerExit(w) \/ WorkerCrash(w)
       PROVE  Good
  <2>1. UNCHANGED queueVars
    BY <1>10 DEF WorkerReady, WorkerInitFailed, WorkerCheck, WorkerLock,
       PopStart, ScanNothing, TakeNothing, WorkDone, WorkerExit, WorkerCrash
  <2> QED BY <1>1, <2>1
<1>11. ASSUME \/ NetLock \/ PushNoNode \/ PushNoRoom
              \/ MainLock \/ MainFork \/ MainForkFailed \/ MainChildTold
              \/ \E p \in Pids :
                   MainReapCrashed(p) \/ MainReapExited(p) \/ OrphanReaped(p)
       PROVE  Good
  <2>1. UNCHANGED queueVars
    BY <1>11 DEF NetLock, PushNoNode, PushNoRoom, MainLock, MainFork,
       MainForkFailed, MainChildTold, MainReapCrashed, MainReapExited,
       OrphanReaped
  <2> QED BY <1>1, <2>1
<1>12. ASSUME UNCHANGED vars PROVE Good
  <2>1. UNCHANGED queueVars BY <1>12 DEF vars
  <2> QED BY <1>1, <2>1
<1> HIDE DEF Good
<1>13. Good
  BY <1>2, <1>3, <1>4, <1>5, <1>6, <1>7, <1>8, <1>9, <1>10, <1>11, <1>12
  DEF Next, WorkerStep, NetStep, MainStep
<1> QED BY <1>0, <1>13 DEF QueueInv, Good

\* The queue is in order in every reachable state.
LEMMA QueueInvariant == Spec => []QueueInv
BY InitQueueInv, NextQueueInv, PTL DEF Spec

\* No node is lost or listed twice, whatever is pushed, popped and cleaned,
\* and whoever crashes.
THEOREM NodesAccountedHolds == Spec => []NodesAccounted
<1>1. QueueInv => NodesAccounted
  <2> SUFFICES ASSUME QueueInv PROVE NodesAccounted
    OBVIOUS
  <2>1. TypeOK /\ ListsApart /\ KeysApart /\ Behind BY DEF QueueInv, KeyInv
  <2>2. /\ IsInjective(Used) /\ free \intersect Range(Used) = {}
        /\ Range(Used) = Range(taken) \union Range(unread)
    BY <2>1, UsedFacts
  <2>3. /\ free \subseteq Nodes /\ tree \subseteq Nodes
        /\ Range(taken) \subseteq Nodes /\ Range(unread) \subseteq Nodes
        /\ \A t \in tree : Range(homo[t]) \subseteq Nodes
    BY <2>1, ListNodes DEF TypeOK
  <2>4. free \union Range(Used) = Nodes BY <2>1, <2>2, <2>3 DEF Behind
  <2>5. Range(taken) = tree \union UNION {Range(homo[t]) : t \in tree}
    <3>1. ASSUME NEW n \in Range(taken)
          PROVE  n \in tree \union UNION {Range(homo[t]) : t \in tree}
      BY <2>1, <2>3 DEF Behind
    <3>2. ASSUME NEW n \in tree \union UNION {Range(homo[t]) : t \in tree}
          PROVE  n \in Range(taken)
      BY <2>1, <2>3 DEF Behind
    <3> QED BY <3>1, <3>2
  <2>6. ASSUME NEW t \in tree
        PROVE  /\ IsInjective(homo[t])
               /\ Range(homo[t]) \intersect tree = {}
               /\ \A u \in tree \ {t} : Range(homo[t]) \intersect Range(homo[u]) = {}
    BY <2>1 DEF ListsApart, KeysApart
  <2> QED BY <2>2, <2>4, <2>5, <2>6 DEF NodesAccounted
<1> QED BY <1>1, QueueInvariant, PTL

\* The self-cleaning loop of push finds a pid at the head of the used list,
\* and its node in the tree, so that the loop frees something and ends.
THEOREM HeadHasOwnerHolds == Spec => []HeadHasOwner
<1>1. QueueInv => HeadHasOwner
  <2> SUFFICES ASSUME QueueInv, taken # <<>>
               PROVE  Head(taken) \in tree /\ flag[Head(taken)] \in Pids
    BY DEF HeadHasOwner
  <2>1. TypeOK /\ ListsApart /\ Behind /\ Owners BY DEF QueueInv, KeyInv
  <2>2. PICK h : h = Head(taken) OBVIOUS
  <2>3. taken \in Seq(Nodes) /\ IsInjective(taken) /\ h \in Range(taken) /\ h \in Nodes
    BY <2>1, <2>2, TailProperties DEF TypeOK, Behind
  <2>4. h \in tree
    <3> SUFFICES ASSUME h \notin tree PROVE FALSE
      OBVIOUS
    <3>1. PICK t \in tree : h \in Range(homo[t]) BY <2>1, <2>3 DEF Behind
    <3>2. Prec(taken, t, h) BY <2>1, <3>1 DEF Behind
    <3>3. t \in Range(taken) /\ t # h BY <3>2, PrecRange
    <3>4. Prec(taken, h, t) BY <2>2, <2>3, <3>3, HeadFirst
    <3> QED BY <2>3, <3>2, <3>4, PrecAsymmetric
  <2> QED BY <2>1, <2>2, <2>4 DEF Owners, OwnersBut
<1> QED BY <1>1, QueueInvariant, PTL

\* Barrier packets of one key are processed in the order they were pushed.
THEOREM KeyOrderHolds == Spec => []KeyOrder
<1>1. QueueInv => KeyOrder
  <2> SUFFICES ASSUME QueueInv, NEW i \in DOMAIN Used, NEW j \in DOMAIN Used,
                      i < j, key[Used[i]] = key[Used[j]]
               PROVE  /\ Used[j] \notin tree
                      /\ \A t \in tree : \A a, b \in DOMAIN homo[t] :
                           homo[t][a] = Used[i] /\ homo[t][b] = Used[j] => a < b
    BY DEF KeyOrder
  <2>1. TypeOK /\ ListsApart /\ KeysApart /\ Behind BY DEF QueueInv, KeyInv
  <2>2. PICK m, n : m = Used[i] /\ n = Used[j] OBVIOUS
  <2>3. /\ Used \in Seq(Nodes) /\ IsInjective(Used)
        /\ Range(Used) = Range(taken) \union Range(unread)
        /\ \A x, y : Prec(Used, x, y) <=>
             \/ Prec(taken, x, y) \/ Prec(unread, x, y)
             \/ x \in Range(taken) /\ y \in Range(unread)
    BY <2>1, UsedFacts
  <2>4. Prec(Used, m, n) /\ m \in Range(Used) /\ n \in Range(Used)
    BY <2>2 DEF Prec, Range
  <2>5. m \in Nodes /\ n \in Nodes BY <2>3, <2>4 DEF Range
  <2>6. m # n /\ ~Prec(Used, n, m) BY <2>3, <2>4, PrecAsymmetric
  <2>7. n \notin tree
    <3> SUFFICES ASSUME n \in tree PROVE FALSE
      OBVIOUS
    <3>1. n \in Range(taken) /\ n \notin Range(unread)
      BY <2>1, <2>5 DEF Behind, ListsApart
    <3>2. Prec(taken, m, n) BY <2>3, <2>4, <3>1, PrecRange
    <3>3. m \in Range(taken) BY <3>2, PrecRange
    <3>4. m \notin tree BY <2>1, <2>2, <2>6 DEF KeysApart
    <3>5. PICK t \in tree : m \in Range(homo[t])
      BY <2>1, <2>5, <3>3, <3>4 DEF Behind
    <3>6. t = n BY <2>1, <2>2, <3>5 DEF KeysApart
    <3>7. Prec(taken, n, m) BY <2>1, <3>5, <3>6 DEF Behind
    <3> QED BY <2>3, <2>6, <3>7
  <2>8. ASSUME NEW t \in tree, NEW a \in DOMAIN homo[t], NEW b \in DOMAIN homo[t],
               homo[t][a] = m, homo[t][b] = n
        PROVE  a < b
    <3>1. homo[t] \in Seq(Nodes) BY <2>1, ListNodes
    <3>2. a \in Nat /\ b \in Nat BY <3>1
    <3>3. a # b BY <2>6, <2>8
    <3>4. ~(b < a)
      <4> SUFFICES ASSUME b < a PROVE FALSE
        OBVIOUS
      <4>1. Prec(homo[t], n, m) BY <2>8 DEF Prec
      <4>2. Prec(taken, n, m) BY <2>1, <2>5, <4>1 DEF Behind
      <4> QED BY <2>3, <2>6, <4>2
    <3> QED BY <3>2, <3>3, <3>4
  <2> QED BY <2>2, <2>7, <2>8
<1> QED BY <1>1, QueueInvariant, PTL

\* A packet that fits behind its offset is read from the cells it was put in.
LEMMA SameCells ==
  ASSUME TypeOK, InRing, NEW n \in Range(Used), n \in Nodes
  PROVE  PopCells(n) = PushCells(n)
<1>1. PICK a, L, h, t :
        a = addr[n] /\ L = length[n] /\ h = head_index /\ t = tail_index
  OBVIOUS
<1>2. a \in Indices /\ L \in Nat /\ h \in Indices /\ t \in Indices
  BY <1>1 DEF TypeOK, Indices
<1>3. Dist(h, a) + L <= Dist(h, t) BY <1>1 DEF InRing, Off
<1>4. /\ Dist(h, a) \in Nat /\ Dist(h, t) \in Nat /\ Dist(h, t) < BufferLen
      /\ BufferLen \in Nat
  BY <1>2, DistType, BarrierAssumption
<1>5. ASSUME NEW i \in 1..L
      PROVE  (a + i - 1) % BufferLen =
               IF a <= t \/ L < BufferLen - a \/ i <= BufferLen - a
                 THEN a + i - 1 ELSE i - 1 - (BufferLen - a)
  <2>1. i - 1 \in Nat /\ i \in Nat /\ i <= L BY <1>2
  <2>2. Dist(h, a) + (i - 1) < BufferLen BY <1>2, <1>3, <1>4, <2>1
  <2>3. (a + (i - 1)) % BufferLen =
          IF a + (i - 1) < BufferLen THEN a + (i - 1)
          ELSE a + (i - 1) - BufferLen
    BY <1>2, <2>1, <2>2, CellDist
  <2>4. a \in Nat /\ a < BufferLen BY <1>2, <1>4 DEF Indices
  <2>5. a + (i - 1) = a + i - 1 BY <2>1, <2>4
  <2>6. CASE i <= BufferLen - a
    <3>1. a + (i - 1) < BufferLen BY <1>4, <2>1, <2>4, <2>6
    <3> QED BY <2>3, <2>5, <2>6, <3>1
  <2>7. CASE i > BufferLen - a
    <3>1. /\ ~(a + (i - 1) < BufferLen) /\ ~(L < BufferLen - a)
          /\ ~(i <= BufferLen - a)
          /\ a + (i - 1) - BufferLen = i - 1 - (BufferLen - a)
      BY <1>2, <1>4, <2>1, <2>4, <2>7
    <3>2. ~(a <= t)
      BY <1>2, <1>3, <1>4, <2>1, <2>4, <2>7 DEF Dist, Indices
    <3> QED BY <2>3, <2>5, <3>1, <3>2
  <2> QED BY <1>4, <2>1, <2>4, <2>6, <2>7
<1> QED BY <1>1, <1>5 DEF PopCells, PushCells

\* The cells of a packet lie at its offset behind the head index.
LEMMA CellsBehindHead ==
  ASSUME TypeOK, InRing, NEW n \in Range(Used), n \in Nodes,
         NEW c \in Range(PushCells(n))
  PROVE  /\ Dist(head_index, c) \in Int /\ Off(n) \in Int /\ length[n] \in Int
         /\ Off(n) <= Dist(head_index, c)
         /\ Dist(head_index, c) < Off(n) + length[n]
<1>1. PICK i \in 1..length[n] : c = (addr[n] + i - 1) % BufferLen
  BY DEF PushCells, Range
<1>2. /\ addr[n] \in Indices /\ length[n] \in Nat /\ head_index \in Indices
      /\ tail_index \in Indices
  BY DEF TypeOK, Indices
<1>3. /\ Off(n) \in Nat /\ Dist(head_index, tail_index) \in Nat
      /\ Dist(head_index, tail_index) < BufferLen /\ BufferLen \in Nat
  BY <1>2, DistType, BarrierAssumption DEF Off
<1>4. Off(n) + length[n] <= Dist(head_index, tail_index) BY DEF InRing
<1>5. i - 1 \in Nat /\ i - 1 < length[n] /\ addr[n] + (i - 1) = addr[n] + i - 1
  BY <1>2 DEF Indices
<1>6. Off(n) + (i - 1) < BufferLen BY <1>2, <1>3, <1>4, <1>5
<1>7. Dist(head_index, c) = Off(n) + (i - 1)
  BY <1>1, <1>2, <1>5, <1>6, CellDist DEF Off
<1> QED BY <1>2, <1>3, <1>5, <1>7

\* The packets in the ring are intact: for any length of ring and of packets,
\* pop copies each from the cells push put it in, and no two share a cell,
\* although packets leave the ring in an order other than they came in.
THEOREM PacketsIntactHolds == Spec => []PacketsIntact
<1>1. QueueInv => PacketsIntact
  <2> SUFFICES ASSUME QueueInv PROVE PacketsIntact
    OBVIOUS
  <2>1. TypeOK /\ ListsApart /\ Behind /\ InRing BY DEF QueueInv, KeyInv
  <2>2. Used \in Seq(Nodes) BY <2>1, UsedFacts
  <2>3. \A n \in Range(Used) : n \in Nodes BY <2>2 DEF Range
  <2>4. \A n \in Range(Used) : PopCells(n) = PushCells(n)
    BY <2>1, <2>3, SameCells
  <2>5. ASSUME NEW m \in Range(Used), NEW n \in Range(Used), Prec(Used, m, n),
               NEW c \in Range(PushCells(m)), c \in Range(PushCells(n))
        PROVE  FALSE
    <3>1. Off(m) + length[m] <= Off(n) BY <2>1, <2>3, <2>5 DEF InRing
    <3>2. /\ Dist(head_index, c) \in Int /\ Off(m) \in Int /\ length[m] \in Int
          /\ Dist(head_index, c) < Off(m) + length[m]
      BY <2>1, <2>3, CellsBehindHead
    <3>3. Off(n) \in Int /\ Off(n) <= Dist(head_index, c)
      BY <2>1, <2>3, <2>5, CellsBehindHead
    <3> QED BY <3>1, <3>2, <3>3
  <2>6. ASSUME NEW m \in Range(Used), NEW n \in Range(Used), m # n
        PROVE  Range(PushCells(m)) \intersect Range(PushCells(n)) = {}
    <3>1. Prec(Used, m, n) \/ Prec(Used, n, m) BY <2>2, <2>6, PrecTotal
    <3> QED BY <2>5, <3>1
  <2> QED BY <2>4, <2>6 DEF PacketsIntact
<1> QED BY <1>1, QueueInvariant, PTL
=============================================================================
