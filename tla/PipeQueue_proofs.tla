-------------------------- MODULE PipeQueue_proofs --------------------------
(* Proofs about the transfer queues, for any pipes, transfers and depths.    *)
EXTENDS PipeQueue, SequenceLemmas, FiniteSetTheorems

(* The states in which a client holds the pipe lock.                         *)
ClientLocked == {"adding", "abortWait", "closeWait"}

(* The states in which it has a transfer in hand, in the queue or not.       *)
Targeting == {"adding", "abortWait", "remove", "notify", "closeAbort"}

(* The locks follow the program counters.                                    *)
LockInv == /\ \A p \in Pipes : pipeLock[p] = "client" <=> cpc[p] \in ClientLocked
           /\ \A p \in Pipes : pipeLock[p] = "done" <=> dpc = "callback" /\ p = Current
           /\ busyLock <=> dpc \in {"scan", "callback", "unlink"}
           /\ dpc \in {"callback", "unlink"} => cursor \in 1..Len(busyList)
           /\ dpc = "scan" => cursor >= 1

TargetInv == \A p \in Pipes : IF cpc[p] \in Targeting THEN target[p] \in Transfers
                                                      ELSE target[p] = None

(* A queue is empty unless a transfer is in progress or just being completed. *)
QueueInv == \A p \in Pipes :
              /\ inProgress[p] => queue[p] # << >>
              /\ queue[p] # << >> => inProgress[p] \/ pipeLock[p] = "done"
              /\ pipeLock[p] = "done" => /\ queue[p] # << >>
                                         /\ ~inProgress[p]
              /\ cpc[p] \in {"adding", "remove"} => ~inProgress[p] /\ queue[p] = << >>
              /\ cpc[p] = "abortWait" => /\ inProgress[p]
                                         /\ queue[p][1] = target[p]
                                         /\ vlink[p] = None
              /\ last[p] = Len(queue[p])

ControlInv == Types /\ LockInv /\ TargetInv /\ QueueInv

(* Behind its tail, m_pLastTransfer has nothing to lose: whichever node is    *)
(* copied away or unlinked, it is adjusted to the new tail.                   *)
LEMMA LastStaysTail ==
  /\ \A n \in Nat : \A k \in 1..n : LastAfterAbort(n, k, n) = n - 1
  /\ \A n \in Nat : n > 1 => LastFixed(n, 1) = n - 1
BY DEF LastAfterAbort, LastFixed, AfterCopy

(* Before the first pipe is opened nothing is queued, locked or pending.      *)
LEMMA ControlInit == Init => ControlInv
<1> SUFFICES ASSUME Init PROVE ControlInv
  OBVIOUS
<1> USE QueueAssumption DEF Init
<1>1. Types
  <2>1. << >> \in Seq(Transfers) /\ << >> \in Seq(Pipes)
    OBVIOUS
  <2>2. queue \in [Pipes -> Seq(Transfers)] /\ busyList \in Seq(Pipes)
    BY <2>1
  <2>3. /\ object \in [Pipes -> {"absent", "open", "deleted"}]
        /\ last \in [Pipes -> Nat]
        /\ inProgress \in [Pipes -> BOOLEAN]
        /\ vlink \in [Pipes -> Transfers \cup {None}]
        /\ stopped \subseteq Transfers
        /\ stage \in [Pipes -> {"data", "status", "faulted"}]
        /\ memory \subseteq Transfers
        /\ notified \in [Transfers -> Nat]
        /\ reclamation \in Int
    OBVIOUS
  <2>4. /\ busyLock \in BOOLEAN
        /\ pipeLock \in [Pipes -> {"free", "client", "done"}]
        /\ event \in BOOLEAN
        /\ cpc \in [Pipes -> ClientStates]
        /\ target \in [Pipes -> Transfers \cup {None}]
        /\ closing \in [Pipes -> BOOLEAN]
        /\ dpc \in DoneStates
        /\ cursor \in Nat
    BY DEF ClientStates, DoneStates
  <2> QED BY <2>2, <2>3, <2>4 DEF Types
<1>2. LockInv
  BY DEF LockInv, ClientLocked
<1>3. TargetInv
  BY DEF TargetInv, Targeting
<1>4. QueueInv
  BY DEF QueueInv
<1> QED BY <1>1, <1>2, <1>3, <1>4 DEF ControlInv

(* Aborting a transfer that is not at the head.                              *)
LEMMA AbortQueuedControl ==
  ASSUME ControlInv, NEW p \in Pipes, NEW x \in Transfers, pipeLock[p] = "free",
         cpc[p] \in {"idle", "closeAbort"}, AbortQueued(p, x)
  PROVE  ControlInv'
<1> USE DEF ControlInv, Types, LockInv, TargetInv, QueueInv, ClientStates, DoneStates,
        ClientLocked, Targeting, queueVars, listVars, clientVars, doneVars, Current
<1>1. PICK k \in 2..Len(queue[p]) : AbortQueued(p, x)!(k)
  BY DEF AbortQueued
<1> DEFINE rest == RemoveAt(queue[p], k)
<1>2. /\ rest \in Seq(Transfers)
      /\ Len(rest) = Len(queue[p]) - 1
      /\ Len(queue[p]) \in Nat
      /\ k \in 1..Len(queue[p])
      /\ rest[1] = queue[p][1]
  <2>1. queue[p] \in Seq(Transfers) /\ Len(queue[p]) \in Nat /\ k \in 1..Len(queue[p])
    BY LenProperties
  <2>2. /\ rest \in Seq(Transfers)
        /\ Len(rest) = Len(queue[p]) - 1
        /\ \A i \in 1..(Len(queue[p]) - 1) :
              rest[i] = IF i < k THEN queue[p][i] ELSE queue[p][i + 1]
    BY <2>1, RemoveAtProps
  <2> HIDE DEF rest
  <2>3. 1 < k /\ 1 \in 1..(Len(queue[p]) - 1)
    BY <2>1
  <2> QED BY <2>1, <2>2, <2>3
<1>3. /\ LastAfterAbort(last[p], k, Len(queue[p])) = Len(rest)
      /\ Len(rest) \in Nat
      /\ rest # << >>
  BY <1>2, LastStaysTail
<1> HIDE DEF rest
<1>4. Types'
  <2>1. queue' \in [Pipes -> Seq(Transfers)] /\ last' \in [Pipes -> Nat]
    BY <1>1, <1>2, <1>3 DEF rest
  <2> QED BY <1>1, <2>1
<1>5. LockInv' /\ TargetInv'
  BY <1>1
<1>6. QueueInv'
  <2>1. /\ queue'[p] # << >> /\ last'[p] = Len(queue'[p])
        /\ inProgress'[p] /\ cpc'[p] = "notify" /\ pipeLock'[p] = "free"
    BY <1>1, <1>2, <1>3 DEF rest
  <2>2. \A r \in Pipes \ {p} : /\ queue'[r] = queue[r] /\ last'[r] = last[r]
                              /\ cpc'[r] = cpc[r] /\ target'[r] = target[r]
    BY <1>1
  <2>3. UNCHANGED <<inProgress, vlink, pipeLock>>
    BY <1>1
  <2>4. QueueInv
    OBVIOUS
  <2> HIDE DEF ControlInv, Types, LockInv, TargetInv
  <2> QED BY <2>1, <2>2, <2>3, <2>4
<1> QED BY <1>4, <1>5, <1>6

(* Aborting the transfer at the head.                                        *)
LEMMA AbortCurrentControl ==
  ASSUME ControlInv, NEW p \in Pipes, NEW x \in Transfers, pipeLock[p] = "free",
         cpc[p] \in {"idle", "closeAbort"}, AbortCurrent(p, x)
  PROVE  ControlInv'
BY DEF AbortCurrent, Load, ControlInv, Types, LockInv, TargetInv, QueueInv, ClientStates,
   DoneStates, ClientLocked, Targeting, queueVars, listVars, clientVars, doneVars, Current

(* Every step of a client, of the controller and of the done thread keeps     *)
(* locks, program counters and queues in agreement.                          *)
LEMMA ControlStep == ControlInv /\ [Next]_vars => ControlInv'
<1> SUFFICES ASSUME ControlInv, [Next]_vars PROVE ControlInv'
  OBVIOUS
<1> USE QueueAssumption DEF ControlInv, Types, LockInv, TargetInv, QueueInv, ClientStates,
        DoneStates, ClientLocked, Targeting, queueVars, listVars, clientVars, doneVars,
        Idle, Current
<1>1. ASSUME NEW p \in Pipes, OpenPipe(p) PROVE ControlInv'
  BY <1>1 DEF OpenPipe
<1>2. ASSUME NEW p \in Pipes, NEW x \in Transfers, IssueQueued(p, x) PROVE ControlInv'
  BY <1>2, SMTT(30) DEF IssueQueued
<1>3. ASSUME NEW p \in Pipes, NEW x \in Transfers, IssueFirst(p, x) PROVE ControlInv'
  <2>1. Types' /\ LockInv' /\ TargetInv'
    BY <1>3 DEF IssueFirst
  <2>2. QueueInv'
    BY <1>3 DEF IssueFirst
  <2> QED BY <2>1, <2>2
<1>4. ASSUME NEW p \in Pipes, ScheduleTransfer(p) PROVE ControlInv'
  <2>1. /\ busyList' \in Seq(Pipes)
        /\ Len(busyList') = Len(busyList) + 1
    BY <1>4, AppendProperties DEF ScheduleTransfer, AddedToBusyPipeList
  <2>2. /\ <<target[p]>> \in Seq(Transfers)
        /\ Len(<<target[p]>>) = 1
        /\ <<target[p]>> # << >>
    BY <1>4 DEF ScheduleTransfer
  <2>3. Types'
    <3>1. queue' \in [Pipes -> Seq(Transfers)]
      BY <1>4, <2>2 DEF ScheduleTransfer
    <3>2. reclamation' \in Int
      BY <1>4 DEF ScheduleTransfer, Load
    <3> QED BY <1>4, <2>1, <3>1, <3>2 DEF ScheduleTransfer
  <2>4. LockInv' /\ TargetInv'
    BY <1>4 DEF ScheduleTransfer
  <2>5. QueueInv'
    BY <1>4, <2>2 DEF ScheduleTransfer
  <2> QED BY <2>3, <2>4, <2>5
<1>5. ASSUME NEW p \in Pipes, ScheduleRefused(p) PROVE ControlInv'
  BY <1>5 DEF ScheduleRefused
<1>6. ASSUME NEW p \in Pipes, NEW x \in Transfers, AbortTransfer(p, x) PROVE ControlInv'
  BY <1>6, AbortQueuedControl, AbortCurrentControl DEF AbortTransfer
<1>7. ASSUME NEW p \in Pipes, AbortFinish(p) PROVE ControlInv'
  <2> DEFINE rest == RemoveAt(queue[p], 1)
  <2>1. queue[p] \in Seq(Transfers) /\ queue[p] # << >>
    BY <1>7 DEF AbortFinish
  <2>2. /\ rest \in Seq(Transfers)
        /\ Len(rest) = Len(queue[p]) - 1
        /\ Len(queue[p]) \in Nat \ {0}
        /\ rest # << >> => rest[1] \in Transfers
    BY <2>1, RemoveHeadProps
  <2>3. LastAfterAbort(last[p], 1, Len(queue[p])) = Len(rest) /\ Len(rest) \in Nat
    BY <2>1, <2>2, LastStaysTail
  <2> HIDE DEF rest
  <2>4. Types'
    <3>1. queue' \in [Pipes -> Seq(Transfers)] /\ last' \in [Pipes -> Nat]
      BY <1>7, <2>2, <2>3 DEF AbortFinish, rest
    <3>2. vlink' \in [Pipes -> Transfers \cup {None}]
      BY <1>7, <2>2 DEF AbortFinish, rest
    <3> QED BY <1>7, <3>1, <3>2 DEF AbortFinish
  <2>5. LockInv' /\ TargetInv'
    BY <1>7 DEF AbortFinish
  <2>6. queue'[p] = rest /\ last'[p] = Len(rest) /\ (inProgress'[p] <=> rest # << >>)
    BY <1>7, <2>2, <2>3 DEF AbortFinish, rest
  <2>7. cpc'[p] = IF rest # << >> THEN "notify" ELSE "remove"
    BY <1>7 DEF AbortFinish, rest
  <2>8. \A r \in Pipes \ {p} : /\ queue'[r] = queue[r] /\ last'[r] = last[r]
                               /\ vlink'[r] = vlink[r] /\ inProgress'[r] = inProgress[r]
                               /\ cpc'[r] = cpc[r] /\ pipeLock'[r] = pipeLock[r]
                               /\ target'[r] = target[r]
    BY <1>7 DEF AbortFinish
  <2>9. QueueInv'
    BY <1>7, <2>6, <2>7, <2>8 DEF AbortFinish
  <2> QED BY <2>4, <2>5, <2>9
<1>8. ASSUME NEW p \in Pipes, RemoveFromBusyPipeList(p) PROVE ControlInv'
  <2>1. busyList' \in Seq(Pipes)
    <3>1. \/ RemoveFirst(busyList, p) = busyList
          \/ \E k \in 1..Len(busyList) : RemoveFirst(busyList, p) = RemoveAt(busyList, k)
      BY RemoveFirstProps
    <3> QED BY <1>8, <3>1, RemoveAtProps DEF RemoveFromBusyPipeList, RemovedFromBusyPipeList
  <2>2. dpc \notin {"callback", "unlink"}
    BY <1>8 DEF RemoveFromBusyPipeList
  <2>3. Types'
    BY <1>8, <2>1 DEF RemoveFromBusyPipeList
  <2>4. LockInv' /\ TargetInv'
    BY <1>8, <2>2 DEF RemoveFromBusyPipeList
  <2>5. QueueInv'
    BY <1>8 DEF RemoveFromBusyPipeList
  <2> QED BY <2>3, <2>4, <2>5
<1>9. ASSUME NEW p \in Pipes, AbortNotify(p) PROVE ControlInv'
  BY <1>9 DEF AbortNotify
<1>10. ASSUME NEW p \in Pipes, ClosePipe(p) PROVE ControlInv'
  BY <1>10 DEF ClosePipe
<1>11. ASSUME NEW p \in Pipes, CloseCheck(p) PROVE ControlInv'
  <2>1. inProgress[p] => Head(queue[p]) \in Transfers
    BY HeadTailProperties
  <2>2. /\ cpc[p] = "closeCheck"
        /\ UNCHANGED <<object, queueVars, stopped, stage, memory, notified, listVars, pipeLock, event,
                       closing, doneVars>>
    BY <1>11 DEF CloseCheck
  <2>3. CASE inProgress[p]
    <3>1. PICK h \in Transfers : /\ target' = [target EXCEPT ![p] = h]
                                 /\ cpc' = [cpc EXCEPT ![p] = "closeAbort"]
      BY <2>1, <2>2, <2>3, <1>11 DEF CloseCheck
    <3> QED BY <2>2, <3>1
  <2>4. CASE ~inProgress[p]
    <3>1. target' = target /\ cpc' = [cpc EXCEPT ![p] = "closeLock"]
      BY <2>4, <1>11 DEF CloseCheck
    <3> QED BY <2>2, <3>1
  <2> QED BY <2>3, <2>4
<1>12. ASSUME NEW p \in Pipes, CloseAbort(p) PROVE ControlInv'
  <2>1. target[p] \in Transfers
    BY <1>12 DEF CloseAbort
  <2>2. CASE AbortQueued(p, target[p]) \/ AbortCurrent(p, target[p])
    BY <1>12, <2>1, <2>2, AbortQueuedControl, AbortCurrentControl DEF CloseAbort
  <2>3. CASE ~(AbortQueued(p, target[p]) \/ AbortCurrent(p, target[p]))
    <3>1. /\ cpc[p] = "closeAbort"
          /\ cpc' = [cpc EXCEPT ![p] = "closeCheck"]
          /\ target' = [target EXCEPT ![p] = None]
          /\ UNCHANGED <<object, queueVars, stopped, stage, memory, notified, listVars, pipeLock,
                         event, closing, doneVars>>
      BY <1>12, <2>3 DEF CloseAbort
    <3> QED BY <3>1
  <2> QED BY <2>2, <2>3
<1>13. ASSUME NEW p \in Pipes, CloseUnlink(p) PROVE ControlInv'
  BY <1>13 DEF CloseUnlink
<1>14. ASSUME NEW p \in Pipes, CloseFree(p) PROVE ControlInv'
  BY <1>14 DEF CloseFree
<1>15. ASSUME NEW p \in Pipes, HwFinish(p) PROVE ControlInv'
  BY <1>15 DEF HwFinish
<1>16. ASSUME NEW p \in Pipes, HwStop(p) PROVE ControlInv'
  BY <1>16 DEF HwStop
<1>17. CASE DoneWait
  BY <1>17 DEF DoneWait
<1>18. CASE DoneLock
  BY <1>18 DEF DoneLock
<1>19. CASE DoneUnlock
  BY <1>19 DEF DoneUnlock
<1>20. CASE DoneOnEntry
  BY <1>20 DEF DoneOnEntry
<1>21. CASE DoneNotYet
  BY <1>21, SMTT(30) DEF DoneNotYet
<1>22. CASE DoneFound
  BY <1>22, SMTT(30) DEF DoneFound
<1>27. CASE DoneJump
  BY <1>27, SMTT(30) DEF DoneJump, JumpsToStatus
<1>28. CASE DoneFaulted
  BY <1>28, SMTT(30) DEF DoneFaulted, JumpsToStatus
<1>23. CASE DoneNext
  <2>0. PICK c \in Pipes : c = Current
    BY <1>23, ElementOfSeq DEF DoneNext
  <2> DEFINE rest == RemoveAt(queue[c], 1)
  <2>1. queue[c] \in Seq(Transfers) /\ queue[c] # << >>
    BY <1>23, <2>0 DEF DoneNext
  <2>2. /\ rest \in Seq(Transfers)
        /\ Len(rest) = Len(queue[c]) - 1
        /\ Len(queue[c]) \in Nat
        /\ Len(queue[c]) > 1 => rest # << >> /\ rest[1] = queue[c][2] /\ queue[c][2] \in Transfers
        /\ Head(queue[c]) \in Transfers
    BY <2>1, RemoveHeadProps
  <2>3. Len(queue[c]) > 1 /\ last[c] = Len(queue[c])
    BY <1>23, <2>0, <2>1 DEF DoneNext
  <2>4. LastFixed(last[c], 1) = Len(rest) /\ Len(rest) \in Nat
    <3>1. Len(queue[c]) \in Nat /\ LastFixed(Len(queue[c]), 1) = Len(queue[c]) - 1
      BY <2>2, <2>3, LastStaysTail
    <3> QED BY <2>2, <2>3, <3>1
  <2> HIDE DEF rest
  <2>h. PICK h \in Transfers : h = Head(queue[c])
    BY <2>2
  <2>5. /\ dpc = "callback" /\ dpc' = "scan"
        /\ notified' = [notified EXCEPT ![h] = @ + 1]
        /\ queue' = [queue EXCEPT ![c] = rest]
        /\ last' = [last EXCEPT ![c] = Len(rest)]
        /\ inProgress' = [inProgress EXCEPT ![c] = TRUE]
        /\ vlink' = [vlink EXCEPT ![c] = queue[c][2]]
        /\ pipeLock' = [pipeLock EXCEPT ![c] = "free"]
        /\ cursor' = cursor + 1
        /\ stage' = [stage EXCEPT ![c] = "data"]
        /\ UNCHANGED <<object, reclamation, stopped, memory, listVars, event, clientVars>>
    BY <1>23, <2>0, <2>4, <2>h, Zenon DEF DoneNext, rest
  <2>6. Types'
    <3>1. queue' \in [Pipes -> Seq(Transfers)] /\ last' \in [Pipes -> Nat]
      BY <2>2, <2>4, <2>5
    <3>2. vlink' \in [Pipes -> Transfers \cup {None}]
      BY <2>2, <2>3, <2>5
    <3>3. notified' \in [Transfers -> Nat]
      BY <2>5, SMTT(30)
    <3> QED BY <2>5, <3>1, <3>2, <3>3, SMTT(30)
  <2>7. LockInv' /\ TargetInv'
    BY <2>0, <2>5
  <2>8. /\ queue'[c] # << >> /\ last'[c] = Len(queue'[c])
        /\ inProgress'[c] /\ pipeLock'[c] = "free"
        /\ \A r \in Pipes \ {c} : /\ queue'[r] = queue[r] /\ last'[r] = last[r]
                                  /\ vlink'[r] = vlink[r] /\ pipeLock'[r] = pipeLock[r]
                                  /\ inProgress'[r] = inProgress[r]
        /\ cpc' = cpc /\ target' = target
    BY <2>2, <2>3, <2>5
  <2>9. cpc[c] \notin {"adding", "remove", "abortWait"}
    BY <2>0, <2>1, <2>5
  <2>10. QueueInv'
    BY <2>8, <2>9, SMTT(30)
  <2> QED BY <2>6, <2>7, <2>10
<1>24. CASE DoneEmpty
  <2>1. Types'
    BY <1>24, SMTT(30) DEF DoneEmpty
  <2>2. LockInv'
    BY <1>24 DEF DoneEmpty
  <2>3. TargetInv' /\ QueueInv'
    BY <1>24 DEF DoneEmpty
  <2> QED BY <2>1, <2>2, <2>3
<1>25. CASE DoneUnlink
  <2>1. /\ busyList' \in Seq(Pipes)
        /\ cursor \in 1..Len(busyList)
    BY <1>25, RemoveAtProps DEF DoneUnlink
  <2>2. Types'
    BY <1>25, <2>1 DEF DoneUnlink
  <2> QED BY <1>25, <2>1, <2>2, SMTT(30) DEF DoneUnlink
<1>26. CASE UNCHANGED vars
  BY <1>26 DEF vars
<1> QED BY <1>1, <1>2, <1>3, <1>4, <1>5, <1>6, <1>7, <1>8, <1>9, <1>10, <1>11, <1>12,
   <1>13, <1>14, <1>15, <1>16, <1>17, <1>18, <1>19, <1>20, <1>21, <1>22, <1>23, <1>24,
   <1>25, <1>26, <1>27, <1>28 DEF Next, Client, Controller, DoneThread, Quiet

(* Who holds a pipe lock, where its client and the done thread are, and the    *)
(* shape of the queue agree in every reachable state: the lock is held exactly *)
(* from EnterCriticalSection to LeaveCriticalSection of one of the two.        *)
THEOREM ControlInvariant == Spec => []ControlInv
<1>1. ControlInv /\ [Next]_vars => ControlInv'
  BY ControlStep
<1> QED BY ControlInit, <1>1, PTL DEF Spec

(* m_pLastTransfer is the tail of the chain whenever the pipe lock is free,   *)
(* whatever was issued, completed and aborted before (cpipe.cpp:1293, where   *)
(* the next transfer is chained behind it).                                   *)
THEOREM LastTransferIsTail == Spec => []LastIsTail
<1>1. ControlInv => LastIsTail
  BY DEF ControlInv, QueueInv, LastIsTail
<1> QED BY <1>1, ControlInvariant, PTL

(* A pipe is on the busy list at most once, and as long as a transfer of it   *)
(* is in progress; it may stay a little longer, until whoever emptied its     *)
(* queue, the done thread or an abort, takes it off.                          *)
Listed(p) == \E i \in 1..Len(busyList) : busyList[i] = p

BusyInv == /\ \A i, j \in 1..Len(busyList) : busyList[i] = busyList[j] => i = j
           /\ \A p \in Pipes : inProgress[p] => Listed(p)
           /\ \A i \in 1..Len(busyList) : \/ inProgress[busyList[i]]
                                          \/ cpc[busyList[i]] = "remove"
                                          \/ /\ dpc \in {"callback", "unlink"}
                                             /\ i = cursor
           /\ dpc = "unlink" => ~inProgress[Current]

(* Unlinking the element of a pipe without a transfer in progress.            *)
LEMMA Unlisted ==
  ASSUME ControlInv, BusyInv, NEW k \in 1..Len(busyList), ~inProgress[busyList[k]],
         busyList' = RemoveAt(busyList, k),
         \A r \in Pipes \ {busyList[k]} : inProgress'[r] = inProgress[r] /\ cpc'[r] = cpc[r],
         ~inProgress'[busyList[k]],
         dpc \in {"callback", "unlink"} => k = cursor,
         dpc' \notin {"callback", "unlink"}
  PROVE  BusyInv'
<1>1. busyList \in Seq(Pipes) /\ Len(busyList) \in Nat
  BY LenProperties DEF ControlInv, Types
<1>2. /\ busyList' \in Seq(Pipes)
      /\ Len(busyList') = Len(busyList) - 1
      /\ \A i \in 1..(Len(busyList) - 1) :
            busyList'[i] = IF i < k THEN busyList[i] ELSE busyList[i + 1]
  BY <1>1, RemoveAtProps
<1> DEFINE old(i) == IF i < k THEN i ELSE i + 1
<1>3. \A i \in 1..Len(busyList') : /\ old(i) \in 1..Len(busyList)
                                   /\ old(i) # k
                                   /\ busyList'[i] = busyList[old(i)]
  BY <1>1, <1>2
<1>4. \A i, j \in 1..Len(busyList') : old(i) = old(j) => i = j
  BY <1>1, <1>2
<1>5. \A j \in 1..Len(busyList) : j # k => \E i \in 1..Len(busyList') : old(i) = j
  <2> SUFFICES ASSUME NEW j \in 1..Len(busyList), j # k
               PROVE  \E i \in 1..Len(busyList') : old(i) = j
    OBVIOUS
  <2>1. CASE j < k
    BY <1>1, <1>2, <2>1
  <2>2. CASE j > k
    <3>1. j - 1 \in 1..Len(busyList') /\ old(j - 1) = j
      BY <1>1, <1>2, <2>2
    <3> QED BY <3>1
  <2> QED BY <1>1, <2>1, <2>2
<1> HIDE DEF old
<1>6. \A i \in 1..Len(busyList) : i # k => busyList[i] \in Pipes \ {busyList[k]}
  BY <1>1, ElementOfSeq DEF BusyInv
<1>7. \A i, j \in 1..Len(busyList') : busyList'[i] = busyList'[j] => i = j
  BY <1>3, <1>4, SMTT(30) DEF BusyInv
<1>8. \A p \in Pipes : inProgress'[p] => Listed(p)'
  BY <1>3, <1>5, SMTT(30) DEF BusyInv, Listed
<1>9. \A i \in 1..Len(busyList') : inProgress'[busyList'[i]] \/ cpc'[busyList'[i]] = "remove"
  BY <1>3, <1>6 DEF BusyInv
<1> QED BY <1>7, <1>8, <1>9 DEF BusyInv

(* Steps that leave the list and the transfers in progress alone.             *)
LEMMA BusyFrame ==
  ASSUME ControlInv, BusyInv, UNCHANGED <<inProgress, busyList, dpc, cursor>>,
         \A r \in Pipes : cpc[r] = "remove" => cpc'[r] = "remove"
  PROVE  BusyInv'
<1>1. \A i \in 1..Len(busyList) : busyList[i] \in Pipes
  BY ElementOfSeq DEF ControlInv, Types
<1>2. \A i \in 1..Len(busyList') : \/ inProgress'[busyList'[i]]
                                   \/ cpc'[busyList'[i]] = "remove"
                                   \/ dpc' \in {"callback", "unlink"} /\ i = cursor'
  BY <1>1 DEF BusyInv
<1>3. \A i, j \in 1..Len(busyList') : busyList'[i] = busyList'[j] => i = j
  BY DEF BusyInv
<1>4. \A r \in Pipes : inProgress'[r] => Listed(r)'
  BY DEF BusyInv, Listed
<1> QED BY <1>2, <1>3, <1>4 DEF BusyInv, Current

(* Linking the element of a pipe whose first transfer is scheduled.           *)
LEMMA ListedMore ==
  ASSUME ControlInv, BusyInv, NEW p \in Pipes, \A i \in 1..Len(busyList) : busyList[i] # p,
         busyList' = Append(busyList, p),
         inProgress' = [inProgress EXCEPT ![p] = TRUE],
         cpc' = [cpc EXCEPT ![p] = "idle"],
         dpc' = dpc, dpc \notin {"callback", "unlink"}
  PROVE  BusyInv'
<1>1. busyList \in Seq(Pipes) /\ Len(busyList) \in Nat
  BY LenProperties DEF ControlInv, Types
<1>2. PICK n \in Nat : n = Len(busyList)
  BY <1>1
<1>3. /\ Len(busyList') = n + 1
      /\ \A i \in 1..n : busyList'[i] = busyList[i]
      /\ busyList'[n + 1] = p
  BY <1>1, <1>2, AppendProperties
<1>4. \A i \in 1..n : busyList[i] \in Pipes \ {p}
  BY <1>1, <1>2, ElementOfSeq
<1>5. \A r \in Pipes \ {p} : inProgress'[r] = inProgress[r] /\ cpc'[r] = cpc[r]
  OBVIOUS
<1>6. inProgress'[p]
  BY DEF ControlInv, Types
<1>7. \A i \in 1..(n + 1) : i \in 1..n \/ i = n + 1
  BY <1>2
<1>8. \A i, j \in 1..Len(busyList') : busyList'[i] = busyList'[j] => i = j
  BY <1>2, <1>3, <1>4, <1>7 DEF BusyInv
<1>9. \A r \in Pipes : inProgress'[r] => Listed(r)'
  <2> SUFFICES ASSUME NEW r \in Pipes, inProgress'[r]
               PROVE  \E i \in 1..(n + 1) : busyList'[i] = r
    BY <1>3 DEF Listed
  <2>1. CASE r = p
    <3>1. n + 1 \in 1..(n + 1)
      BY <1>2
    <3> QED BY <1>3, <2>1, <3>1
  <2>2. CASE r # p
    <3>1. PICK i \in 1..n : busyList[i] = r
      BY <1>2, <1>5, <2>2 DEF BusyInv, Listed
    <3>2. i \in 1..(n + 1)
      BY <3>1
    <3> QED BY <1>3, <3>1, <3>2
  <2> QED BY <2>1, <2>2
<1>10. \A i \in 1..Len(busyList') : inProgress'[busyList'[i]] \/ cpc'[busyList'[i]] = "remove"
  BY <1>2, <1>3, <1>4, <1>5, <1>6, <1>7 DEF BusyInv
<1> QED BY <1>8, <1>9, <1>10 DEF BusyInv

(* Every step keeps the busy list in agreement with the transfers in progress. *)
LEMMA BusyStep == ControlInv /\ BusyInv /\ [Next]_vars => BusyInv'
<1> SUFFICES ASSUME ControlInv, BusyInv, [Next]_vars PROVE BusyInv'
  OBVIOUS
<1> USE DEF BusyInv, Listed, ControlInv, Types, LockInv, QueueInv, queueVars, listVars,
        clientVars, doneVars, Idle, Current, ClientLocked
<1>1. ASSUME NEW p \in Pipes, OpenPipe(p) PROVE BusyInv'
  BY <1>1 DEF OpenPipe
<1>2. ASSUME NEW p \in Pipes, NEW x \in Transfers, IssueQueued(p, x) PROVE BusyInv'
  BY <1>2 DEF IssueQueued
<1>3. ASSUME NEW p \in Pipes, NEW x \in Transfers, IssueFirst(p, x) PROVE BusyInv'
  BY <1>3 DEF IssueFirst
<1>4. ASSUME NEW p \in Pipes, ScheduleTransfer(p) PROVE BusyInv'
  <2>1. \A i \in 1..Len(busyList) : busyList[i] # p
    BY <1>4 DEF ScheduleTransfer
  <2>2. /\ busyList' = Append(busyList, p)
        /\ inProgress' = [inProgress EXCEPT ![p] = TRUE]
        /\ cpc' = [cpc EXCEPT ![p] = "idle"]
        /\ dpc' = dpc /\ dpc \notin {"callback", "unlink"}
    BY <1>4 DEF ScheduleTransfer, AddedToBusyPipeList
  <2> QED BY <2>1, <2>2, ListedMore
<1>5. ASSUME NEW p \in Pipes, ScheduleRefused(p) PROVE BusyInv'
  BY <1>5 DEF ScheduleRefused
<1>6. ASSUME NEW p \in Pipes, NEW x \in Transfers, AbortTransfer(p, x) PROVE BusyInv'
  <2>1. /\ UNCHANGED <<inProgress, busyList, dpc, cursor>>
        /\ \A r \in Pipes : cpc[r] = "remove" => cpc'[r] = "remove"
    BY <1>6, SMTT(30) DEF AbortTransfer, AbortQueued, AbortCurrent
  <2> QED BY <2>1, BusyFrame
<1>7. ASSUME NEW p \in Pipes, AbortFinish(p) PROVE BusyInv'
  BY <1>7 DEF AbortFinish
<1>8. ASSUME NEW p \in Pipes, RemoveFromBusyPipeList(p) PROVE BusyInv'
  <2>1. /\ cpc[p] = "remove" /\ ~inProgress[p]
        /\ inProgress' = inProgress
        /\ cpc' = [cpc EXCEPT ![p] = "notify"]
        /\ dpc' = dpc /\ dpc \notin {"callback", "unlink"}
    BY <1>8 DEF RemoveFromBusyPipeList
  <2>2. \/ busyList' = busyList /\ \A i \in 1..Len(busyList) : busyList[i] # p
        \/ \E k \in 1..Len(busyList) : busyList[k] = p /\ busyList' = RemoveAt(busyList, k)
    BY <1>8, RemoveFirstProps DEF RemoveFromBusyPipeList, RemovedFromBusyPipeList
  <2>3. CASE busyList' = busyList /\ \A i \in 1..Len(busyList) : busyList[i] # p
    BY <2>1, <2>3
  <2>4. ASSUME NEW k \in 1..Len(busyList), busyList[k] = p, busyList' = RemoveAt(busyList, k)
        PROVE  BusyInv'
    <3>1. /\ \A r \in Pipes \ {p} : inProgress'[r] = inProgress[r] /\ cpc'[r] = cpc[r]
          /\ ~inProgress'[p] /\ dpc' \notin {"callback", "unlink"}
          /\ inProgress' \in [Pipes -> BOOLEAN]
      BY <2>1
    <3> QED BY <2>1, <2>4, <3>1, Unlisted
  <2> QED BY <2>2, <2>3, <2>4
<1>9. ASSUME NEW p \in Pipes, AbortNotify(p) PROVE BusyInv'
  BY <1>9 DEF AbortNotify
<1>10. ASSUME NEW p \in Pipes, ClosePipe(p) PROVE BusyInv'
  BY <1>10 DEF ClosePipe
<1>11. ASSUME NEW p \in Pipes, CloseCheck(p) PROVE BusyInv'
  BY <1>11 DEF CloseCheck
<1>12. ASSUME NEW p \in Pipes, CloseAbort(p) PROVE BusyInv'
  <2>1. /\ UNCHANGED <<inProgress, busyList, dpc, cursor>>
        /\ \A r \in Pipes : cpc[r] = "remove" => cpc'[r] = "remove"
    BY <1>12 DEF CloseAbort, AbortQueued, AbortCurrent
  <2> QED BY <2>1, BusyFrame
<1>13. ASSUME NEW p \in Pipes, CloseUnlink(p) PROVE BusyInv'
  BY <1>13 DEF CloseUnlink
<1>14. ASSUME NEW p \in Pipes, CloseFree(p) PROVE BusyInv'
  BY <1>14 DEF CloseFree
<1>15. ASSUME NEW p \in Pipes, HwFinish(p) PROVE BusyInv'
  BY <1>15 DEF HwFinish
<1>16. ASSUME NEW p \in Pipes, HwStop(p) PROVE BusyInv'
  BY <1>16 DEF HwStop
<1>17. CASE DoneWait
  BY <1>17 DEF DoneWait
<1>18. CASE DoneLock
  BY <1>18 DEF DoneLock
<1>19. CASE DoneUnlock
  BY <1>19 DEF DoneUnlock
<1>20. CASE DoneOnEntry
  BY <1>20 DEF DoneOnEntry
<1>21. CASE DoneNotYet
  BY <1>21 DEF DoneNotYet
<1>22. CASE DoneFound
  BY <1>22 DEF DoneFound
<1>27. CASE DoneJump
  BY <1>27 DEF DoneJump, JumpsToStatus
<1>28. CASE DoneFaulted
  BY <1>28 DEF DoneFaulted, JumpsToStatus
<1>23. CASE DoneNext
  BY <1>23 DEF DoneNext
<1>24. CASE DoneEmpty
  BY <1>24 DEF DoneEmpty
<1>25. CASE DoneUnlink
  <2>1. /\ cursor \in 1..Len(busyList)
        /\ busyList' = RemoveAt(busyList, cursor)
        /\ ~inProgress[busyList[cursor]]
        /\ inProgress' = inProgress /\ cpc' = cpc
        /\ dpc = "unlink" /\ dpc' = "scan"
    BY <1>25 DEF DoneUnlink
  <2> QED BY <2>1, Unlisted
<1>26. CASE UNCHANGED vars
  BY <1>26 DEF vars
<1> QED BY <1>1, <1>2, <1>3, <1>4, <1>5, <1>6, <1>7, <1>8, <1>9, <1>10, <1>11, <1>12,
   <1>13, <1>14, <1>15, <1>16, <1>17, <1>18, <1>19, <1>20, <1>21, <1>22, <1>23, <1>24,
   <1>25, <1>26, <1>27, <1>28 DEF Next, Client, Controller, DoneThread, Quiet

(* AddToBusyPipeList, RemoveFromBusyPipeList and the done thread leave every   *)
(* pipe on the list at most once, and off it only when it has no transfer.     *)
THEOREM BusyInvariant == Spec => []BusyInv
<1>1. Init => BusyInv
  BY DEF Init, BusyInv, Listed
<1>2. ControlInv /\ BusyInv /\ [Next]_vars => BusyInv'
  BY BusyStep
<1> QED BY <1>1, <1>2, ControlInvariant, PTL DEF Spec

(* The done thread can find every transfer in progress: its pipe is on the    *)
(* busy list, once, as AddToBusyPipeList asserts (cpipe.cpp:703).             *)
THEOREM BusyListComplete == Spec => []BusyWhileInProgress
<1>1. ControlInv /\ BusyInv => BusyWhileInProgress
  <2> SUFFICES ASSUME ControlInv, BusyInv PROVE BusyWhileInProgress
    OBVIOUS
  <2>1. DOMAIN busyList = 1..Len(busyList)
    BY LenProperties DEF ControlInv, Types
  <2> QED BY <2>1 DEF BusyInv, Listed, BusyWhileInProgress, ToSet
<1> QED BY <1>1, ControlInvariant, BusyInvariant, PTL

-----------------------------------------------------------------------------
(* What the steps do to the queues.                                          *)

(* A transfer issued behind another one is appended: the chain is cut behind  *)
(* m_pLastTransfer, which is its tail.                                        *)
LEMMA IssueQueuedAppends ==
  ASSUME ControlInv, NEW p \in Pipes, NEW x \in Transfers, IssueQueued(p, x)
  PROVE  queue' = [queue EXCEPT ![p] = Append(@, x)]
<1>1. queue[p] \in Seq(Transfers) /\ last[p] = Len(queue[p])
  BY DEF ControlInv, Types, QueueInv
<1>2. SubSeq(queue[p], 1, last[p]) = queue[p]
  BY <1>1, SubSeqFull
<1> QED BY <1>2 DEF IssueQueued

(* The first transfer is appended to an empty queue.                          *)
LEMMA ScheduleAppends ==
  ASSUME ControlInv, NEW p \in Pipes, ScheduleTransfer(p)
  PROVE  /\ queue[p] = << >> /\ target[p] \in Transfers
         /\ queue' = [queue EXCEPT ![p] = Append(@, target[p])]
<1>1. queue[p] = << >> /\ target[p] \in Transfers
  BY DEF ControlInv, QueueInv, TargetInv, Targeting, ScheduleTransfer
<1>2. Append(<< >>, target[p]) = <<target[p]>>
  OBVIOUS
<1> QED BY <1>1, <1>2 DEF ScheduleTransfer

(* An abort of the transfer at the head ends with its removal.                *)
LEMMA AbortFinishRemoves ==
  ASSUME ControlInv, NEW p \in Pipes, AbortFinish(p)
  PROVE  /\ 1 \in 1..Len(queue[p]) /\ target[p] = queue[p][1] /\ target[p] \in Transfers
         /\ queue' = [queue EXCEPT ![p] = RemoveAt(@, 1)]
<1>1. queue[p] \in Seq(Transfers) /\ queue[p] # << >> /\ queue[p][1] = target[p]
  BY DEF ControlInv, Types, QueueInv, AbortFinish
<1>2. Len(queue[p]) \in Nat \ {0}
  BY <1>1, EmptySeq
<1>3. target[p] \in Transfers
  BY DEF ControlInv, TargetInv, Targeting, AbortFinish
<1> QED BY <1>1, <1>2, <1>3 DEF AbortFinish

(* The abort of a transfer behind the head removes it at once.                *)
LEMMA AbortQueuedRemoves ==
  ASSUME ControlInv, NEW p \in Pipes, NEW x \in Transfers, AbortQueued(p, x)
  PROVE  \E k \in 1..Len(queue[p]) :
            /\ k > 1 /\ queue[p][k] = x
            /\ queue' = [queue EXCEPT ![p] = RemoveAt(@, k)]
<1>1. PICK k \in 2..Len(queue[p]) : AbortQueued(p, x)!(k)
  BY DEF AbortQueued
<1>2. k \in 1..Len(queue[p]) /\ k > 1
  BY LenProperties DEF ControlInv, Types
<1>3. queue' = [queue EXCEPT ![p] = RemoveAt(@, k)]
  BY <1>1
<1> QED BY <1>1, <1>2, <1>3

(* A completion notifies the transfer at the head and removes it.             *)
Completed(p) ==
  /\ p = Current /\ 1 \in 1..Len(queue[p]) /\ queue[p][1] \in Transfers
  /\ pipeLock[p] = "done" /\ pipeLock' = [pipeLock EXCEPT ![p] = "free"]
  /\ queue' = [queue EXCEPT ![p] = RemoveAt(@, 1)]
  /\ notified' = [notified EXCEPT ![queue[p][1]] = @ + 1]
  /\ IF Len(queue[p]) > 1
     THEN /\ vlink' = [vlink EXCEPT ![p] = queue[p][2]]
          /\ stage' = [stage EXCEPT ![p] = "data"]
          /\ inProgress' = [inProgress EXCEPT ![p] = TRUE]
          /\ reclamation' = reclamation
     ELSE /\ Len(queue[p]) = 1
          /\ UNCHANGED <<vlink, inProgress, stage>>
          /\ reclamation' = reclamation - Load(p)
  /\ UNCHANGED <<object, memory, clientVars>>

LEMMA DoneCompletes ==
  ASSUME ControlInv, DoneNext \/ DoneEmpty
  PROVE  \E p \in Pipes : Completed(p)
<1>1. PICK p \in Pipes : p = Current
  <2>1. cursor \in 1..Len(busyList) /\ busyList \in Seq(Pipes)
    BY DEF DoneNext, DoneEmpty, ControlInv, Types, LockInv
  <2>2. busyList[cursor] \in Pipes
    BY <2>1, ElementOfSeq
  <2> QED BY <2>2 DEF Current
<1>2. /\ pipeLock[p] = "done" /\ queue[p] # << >> /\ queue[p] \in Seq(Transfers)
  <2>1. dpc = "callback"
    BY DEF DoneNext, DoneEmpty
  <2> QED BY <1>1, <2>1 DEF ControlInv, Types, LockInv, QueueInv
<1>3. /\ Len(queue[p]) \in Nat \ {0} /\ Head(queue[p]) = queue[p][1]
      /\ queue[p][1] \in Transfers
      /\ Len(queue[p]) = 1 => RemoveAt(queue[p], 1) = << >>
  BY <1>2, RemoveHeadProps
<1>6. /\ p = Current /\ 1 \in 1..Len(queue[p]) /\ queue[p][1] \in Transfers
      /\ pipeLock[p] = "done"
  BY <1>1, <1>2, <1>3
<1>4. CASE DoneNext
  <2>1. Len(queue[p]) > 1
    BY <1>1, <1>4 DEF DoneNext
  <2>2. /\ pipeLock' = [pipeLock EXCEPT ![p] = "free"]
        /\ queue' = [queue EXCEPT ![p] = RemoveAt(@, 1)]
        /\ notified' = [notified EXCEPT ![queue[p][1]] = @ + 1]
        /\ vlink' = [vlink EXCEPT ![p] = queue[p][2]]
        /\ stage' = [stage EXCEPT ![p] = "data"]
        /\ inProgress' = [inProgress EXCEPT ![p] = TRUE]
        /\ UNCHANGED <<object, reclamation, memory, clientVars>>
    BY <1>1, <1>3, <1>4, Zenon DEF DoneNext
  <2> QED BY <1>6, <2>1, <2>2, Zenon DEF Completed
<1>5. CASE DoneEmpty
  <2>1. Len(queue[p]) = 1
    BY <1>1, <1>5 DEF DoneEmpty
  <2>2. ~(Len(queue[p]) > 1)
    BY <2>1
  <2>3. queue' = [queue EXCEPT ![p] = RemoveAt(@, 1)]
    BY <1>1, <1>3, <1>5, <2>1 DEF DoneEmpty
  <2>4. /\ pipeLock' = [pipeLock EXCEPT ![p] = "free"]
        /\ notified' = [notified EXCEPT ![queue[p][1]] = @ + 1]
        /\ reclamation' = reclamation - Load(p)
        /\ UNCHANGED <<object, inProgress, vlink, stage, memory, clientVars>>
    BY <1>1, <1>3, <1>5, Zenon DEF DoneEmpty
  <2> QED BY <1>6, <2>1, <2>2, <2>3, <2>4, Zenon DEF Completed
<1> QED BY <1>4, <1>5

(* What appending to and removing from a queue do to its set of transfers.    *)
LEMMA Grows ==
  ASSUME ControlInv, NEW p \in Pipes, NEW x \in Transfers, IsInjective(queue[p]),
         x \notin ToSet(queue[p]), queue' = [queue EXCEPT ![p] = Append(@, x)]
  PROVE  /\ IsInjective(queue'[p])
         /\ ToSet(queue'[p]) = ToSet(queue[p]) \cup {x}
         /\ queue'[p] # << >>
         /\ queue[p] # << >> => queue'[p][1] = queue[p][1]
         /\ queue[p] = << >> => queue'[p][1] = x
         /\ \A r \in Pipes \ {p} : queue'[r] = queue[r]
<1>1. queue[p] \in Seq(Transfers) /\ queue'[p] = Append(queue[p], x)
  BY DEF ControlInv, Types
<1>2. queue[p] = << >> => queue'[p][1] = x
  <2>1. Append(<< >>, x)[1] = x
    OBVIOUS
  <2> QED BY <1>1, <2>1
<1> QED BY <1>1, <1>2, AppendSet, AppendProperties

LEMMA Shrinks ==
  ASSUME ControlInv, NEW p \in Pipes, NEW k \in 1..Len(queue[p]), IsInjective(queue[p]),
         queue' = [queue EXCEPT ![p] = RemoveAt(@, k)]
  PROVE  /\ IsInjective(queue'[p])
         /\ ToSet(queue'[p]) = ToSet(queue[p]) \ {queue[p][k]}
         /\ queue[p][k] \in ToSet(queue[p])
         /\ queue[p][1] \in ToSet(queue[p])
         /\ k > 1 => queue'[p] # << >> /\ queue'[p][1] = queue[p][1]
         /\ \A r \in Pipes \ {p} : queue'[r] = queue[r]
<1>1. /\ queue[p] \in Seq(Transfers) /\ queue'[p] = RemoveAt(queue[p], k)
      /\ \A r \in Pipes \ {p} : queue'[r] = queue[r]
  BY DEF ControlInv, Types
<1>2. Len(queue[p]) \in Nat /\ 1 \in 1..Len(queue[p])
  BY <1>1, LenProperties
<1>3. queue[p][k] \in ToSet(queue[p]) /\ queue[p][1] \in ToSet(queue[p])
  BY <1>1, <1>2, ToSetProps
<1>4. ASSUME k > 1 PROVE queue'[p] # << >> /\ queue'[p][1] = queue[p][1]
  <2>1. /\ queue'[p] \in Seq(Transfers)
        /\ Len(queue'[p]) = Len(queue[p]) - 1
        /\ \A i \in 1..(Len(queue[p]) - 1) :
              queue'[p][i] = IF i < k THEN queue[p][i] ELSE queue[p][i + 1]
    BY <1>1, RemoveAtProps
  <2>2. 1 \in 1..(Len(queue[p]) - 1) /\ Len(queue'[p]) # 0
    BY <1>2, <1>4, <2>1
  <2> QED BY <1>4, <2>1, <2>2, EmptySeq
<1> QED BY <1>1, <1>3, <1>4, RemoveAtSet

-----------------------------------------------------------------------------
(* A transfer is in one place: in one queue, once, and not notified yet, or   *)
(* in the hands of one client that is about to queue it or has taken it out.  *)
(* While ClosePipe looks for a transfer it has read without the lock, that    *)
(* one may be in its own queue, in none, or notified.                         *)
Loose == {"adding", "remove", "notify"}

UniqueInv ==
  /\ \A p \in Pipes : IsInjective(queue[p])
  /\ \A p, q \in Pipes : p # q => ToSet(queue[p]) \cap ToSet(queue[q]) = {}
  /\ \A p \in Pipes : \A x \in ToSet(queue[p]) : notified[x] = 0
  /\ \A p \in Pipes : cpc[p] \in Loose =>
        target[p] \notin ToSet(queue[p]) /\ notified[target[p]] = 0
  /\ \A p, q \in Pipes : p # q /\ target[p] # None =>
        target[q] # target[p] /\ target[p] \notin ToSet(queue[q])

(* Steps that only move program counters, and call no routine.                *)
LEMMA UniqueFrame ==
  ASSUME UniqueInv, UNCHANGED <<queue, notified, target>>,
         \A r \in Pipes : cpc'[r] \in Loose => cpc[r] \in Loose
  PROVE  UniqueInv'
BY DEF UniqueInv

(* A client that gives its transfer up, having called its routine or not.     *)
LEMMA UniqueDropped ==
  ASSUME ControlInv, UniqueInv, NEW p \in Pipes, queue' = queue,
         target' = [target EXCEPT ![p] = None], cpc'[p] \notin Loose,
         \A r \in Pipes \ {p} : cpc'[r] = cpc[r],
         \/ notified' = notified
         \/ cpc[p] \in Loose /\ notified' = [notified EXCEPT ![target[p]] = @ + 1]
  PROVE  UniqueInv'
<1>1. /\ target'[p] = None /\ \A r \in Pipes \ {p} : target'[r] = target[r]
      /\ cpc[p] \in Loose => target[p] # None
      /\ target \in [Pipes -> Transfers \cup {None}]
  BY QueueAssumption DEF ControlInv, Types, TargetInv, Targeting, Loose
<1>2. \A x \in Transfers : notified'[x] = notified[x] \/ (cpc[p] \in Loose /\ x = target[p])
  BY DEF ControlInv, Types
<1>3. \A r \in Pipes : ToSet(queue[r]) \subseteq Transfers
  BY ToSetProps DEF ControlInv, Types
<1>4. \A r \in Pipes : \A x \in ToSet(queue'[r]) : notified'[x] = 0
  BY <1>1, <1>2, <1>3 DEF UniqueInv
<1>5. \A r \in Pipes : cpc'[r] \in Loose =>
         target'[r] \notin ToSet(queue'[r]) /\ notified'[target'[r]] = 0
  <2> SUFFICES ASSUME NEW r \in Pipes \ {p}, cpc[r] \in Loose
               PROVE  target[r] \notin ToSet(queue[r]) /\ notified'[target[r]] = 0
    BY <1>1
  <2>1. target[r] \in Transfers
    BY DEF ControlInv, TargetInv, Targeting, Loose
  <2>2. cpc[p] \in Loose => target[r] # target[p]
    BY <1>1 DEF UniqueInv
  <2> QED BY <1>2, <2>1, <2>2 DEF UniqueInv
<1> QED BY <1>1, <1>4, <1>5 DEF UniqueInv

(* A client that takes hold of a transfer of its own queue, in place.         *)
LEMMA UniqueHeld ==
  ASSUME ControlInv, UniqueInv, NEW p \in Pipes, NEW x \in ToSet(queue[p]),
         UNCHANGED <<queue, notified>>, target' = [target EXCEPT ![p] = x],
         cpc'[p] \notin Loose, \A r \in Pipes \ {p} : cpc'[r] = cpc[r]
  PROVE  UniqueInv'
<1>1. target'[p] = x /\ \A r \in Pipes \ {p} : target'[r] = target[r]
  BY DEF ControlInv, Types
<1>2. x # None
  BY ToSetProps, QueueAssumption DEF ControlInv, Types
<1>3. \A r \in Pipes \ {p} : x \notin ToSet(queue[r]) /\ target[r] # x
  BY <1>2 DEF UniqueInv
<1> QED BY <1>1, <1>3 DEF UniqueInv

(* A client that takes a transfer out of its queue.                           *)
LEMMA UniqueTaken ==
  ASSUME ControlInv, UniqueInv, NEW p \in Pipes, NEW k \in 1..Len(queue[p]),
         queue' = [queue EXCEPT ![p] = RemoveAt(@, k)], notified' = notified,
         target' = [target EXCEPT ![p] = queue[p][k]],
         \A r \in Pipes \ {p} : cpc'[r] = cpc[r]
  PROVE  UniqueInv'
<1> DEFINE x == queue[p][k]
<1>1. /\ IsInjective(queue'[p]) /\ ToSet(queue'[p]) = ToSet(queue[p]) \ {x}
      /\ x \in ToSet(queue[p])
      /\ \A r \in Pipes \ {p} : queue'[r] = queue[r]
  BY Shrinks DEF UniqueInv
<1>2. target'[p] = x /\ \A r \in Pipes \ {p} : target'[r] = target[r]
  BY DEF ControlInv, Types
<1>3. x # None
  BY <1>1, ToSetProps, QueueAssumption DEF ControlInv, Types
<1> HIDE DEF x
<1>4. \A r \in Pipes \ {p} : x \notin ToSet(queue[r]) /\ target[r] # x
  BY <1>1, <1>3 DEF UniqueInv
<1>5. notified[x] = 0
  BY <1>1 DEF UniqueInv
<1>6. \A r \in Pipes : IsInjective(queue'[r]) /\ ToSet(queue'[r]) \subseteq ToSet(queue[r])
  BY <1>1 DEF UniqueInv
<1>7. \A r \in Pipes : cpc'[r] \in Loose =>
         target'[r] \notin ToSet(queue'[r]) /\ notified'[target'[r]] = 0
  BY <1>1, <1>2, <1>5 DEF UniqueInv
<1>8. \A q, r \in Pipes : q # r /\ target'[q] # None =>
         target'[r] # target'[q] /\ target'[q] \notin ToSet(queue'[r])
  BY <1>1, <1>2, <1>4, <1>6 DEF UniqueInv
<1>9. ASSUME NEW q \in Pipes, NEW r \in Pipes, q # r
      PROVE  ToSet(queue'[q]) \cap ToSet(queue'[r]) = {}
  <2>1. ToSet(queue[q]) \cap ToSet(queue[r]) = {}
    BY <1>9 DEF UniqueInv
  <2> QED BY <1>6, <2>1
<1> QED BY <1>6, <1>7, <1>8, <1>9 DEF UniqueInv

(* Every step keeps a transfer in one place.                                  *)
LEMMA UniqueStep == ControlInv /\ UniqueInv /\ [Next]_vars => UniqueInv'
<1> SUFFICES ASSUME ControlInv, UniqueInv, [Next]_vars PROVE UniqueInv'
  OBVIOUS
<1>0. /\ cpc \in [Pipes -> ClientStates] /\ target \in [Pipes -> Transfers \cup {None}]
      /\ notified \in [Transfers -> Nat] /\ queue \in [Pipes -> Seq(Transfers)]
  BY DEF ControlInv, Types
<1> USE DEF queueVars, listVars, clientVars, doneVars, Idle, Loose
<1>1. ASSUME NEW p \in Pipes, OpenPipe(p) PROVE UniqueInv'
  BY <1>1, UniqueFrame DEF OpenPipe
<1>2. ASSUME NEW p \in Pipes, NEW x \in Transfers, IssueQueued(p, x) PROVE UniqueInv'
  <2>1. /\ notified[x] = 0
        /\ \A r \in Pipes : target[r] # x /\ x \notin ToSet(queue[r])
    BY <1>0, <1>2 DEF IssueQueued, Issued
  <2>2. /\ IsInjective(queue'[p]) /\ ToSet(queue'[p]) = ToSet(queue[p]) \cup {x}
        /\ \A r \in Pipes \ {p} : queue'[r] = queue[r]
    BY <1>2, <2>1, IssueQueuedAppends, Grows DEF UniqueInv
  <2>3. UNCHANGED <<cpc, target, notified>>
    BY <1>2 DEF IssueQueued
  <2>4. \A r, q \in Pipes : r # q => ToSet(queue'[r]) \cap ToSet(queue'[q]) = {}
    BY <2>1, <2>2 DEF UniqueInv
  <2> QED BY <2>1, <2>2, <2>3, <2>4 DEF UniqueInv
<1>3. ASSUME NEW p \in Pipes, NEW x \in Transfers, IssueFirst(p, x) PROVE UniqueInv'
  <2>1. /\ notified[x] = 0
        /\ \A r \in Pipes : target[r] # x /\ x \notin ToSet(queue[r])
    BY <1>0, <1>3 DEF IssueFirst, Issued
  <2>2. /\ target'[p] = x /\ \A r \in Pipes \ {p} : target'[r] = target[r]
        /\ \A r \in Pipes \ {p} : cpc'[r] = cpc[r]
        /\ UNCHANGED <<queue, notified>>
    BY <1>0, <1>3 DEF IssueFirst
  <2> QED BY <2>1, <2>2 DEF UniqueInv
<1>4. ASSUME NEW p \in Pipes, ScheduleTransfer(p) PROVE UniqueInv'
  <2>1. /\ target[p] \in Transfers /\ target[p] # None
        /\ target[p] \notin ToSet(queue[p]) /\ notified[target[p]] = 0
        /\ \A r \in Pipes \ {p} : target[p] \notin ToSet(queue[r]) /\ target[p] # target[r]
    BY <1>4, ScheduleAppends, QueueAssumption DEF ScheduleTransfer, UniqueInv
  <2>2. /\ IsInjective(queue'[p]) /\ ToSet(queue'[p]) = ToSet(queue[p]) \cup {target[p]}
        /\ \A r \in Pipes \ {p} : queue'[r] = queue[r]
    BY <1>4, <2>1, ScheduleAppends, Grows DEF UniqueInv
  <2>3. /\ target'[p] = None /\ \A r \in Pipes \ {p} : target'[r] = target[r]
        /\ cpc'[p] = "idle" /\ \A r \in Pipes \ {p} : cpc'[r] = cpc[r]
        /\ notified' = notified
    BY <1>0, <1>4 DEF ScheduleTransfer
  <2>4. \A r, q \in Pipes : r # q => ToSet(queue'[r]) \cap ToSet(queue'[q]) = {}
    BY <2>1, <2>2 DEF UniqueInv
  <2> QED BY <2>1, <2>2, <2>3, <2>4 DEF UniqueInv
<1>5. ASSUME NEW p \in Pipes, ScheduleRefused(p) PROVE UniqueInv'
  BY <1>0, <1>5, UniqueDropped DEF ScheduleRefused
<1>6. ASSUME NEW p \in Pipes, NEW x \in Transfers, AbortQueued(p, x) PROVE UniqueInv'
  <2>1. PICK k \in 1..Len(queue[p]) : /\ queue[p][k] = x
                                      /\ queue' = [queue EXCEPT ![p] = RemoveAt(@, k)]
    BY <1>6, AbortQueuedRemoves
  <2>2. /\ target' = [target EXCEPT ![p] = x] /\ notified' = notified
        /\ \A r \in Pipes \ {p} : cpc'[r] = cpc[r]
    BY <1>0, <1>6 DEF AbortQueued
  <2> QED BY <2>1, <2>2, UniqueTaken
<1>7. ASSUME NEW p \in Pipes, NEW x \in Transfers, AbortCurrent(p, x) PROVE UniqueInv'
  <2>1. x \in ToSet(queue[p])
    <3>1. queue[p] \in Seq(Transfers) /\ queue[p] # << >> /\ x = queue[p][1]
      BY <1>0, <1>7, RemoveHeadProps DEF AbortCurrent
    <3>2. 1 \in 1..Len(queue[p])
      BY <3>1, EmptySeq
    <3> QED BY <3>1, <3>2, ToSetProps
  <2>2. /\ UNCHANGED <<queue, notified>> /\ target' = [target EXCEPT ![p] = x]
        /\ cpc'[p] \notin Loose /\ \A r \in Pipes \ {p} : cpc'[r] = cpc[r]
    BY <1>0, <1>7 DEF AbortCurrent
  <2> QED BY <2>1, <2>2, UniqueHeld
<1>8. ASSUME NEW p \in Pipes, AbortFinish(p) PROVE UniqueInv'
  <2>1. /\ 1 \in 1..Len(queue[p]) /\ target[p] = queue[p][1]
        /\ queue' = [queue EXCEPT ![p] = RemoveAt(@, 1)]
    BY <1>8, AbortFinishRemoves
  <2>2. /\ target' = [target EXCEPT ![p] = queue[p][1]] /\ notified' = notified
        /\ \A r \in Pipes \ {p} : cpc'[r] = cpc[r]
    BY <1>0, <1>8, <2>1 DEF AbortFinish
  <2> QED BY <2>1, <2>2, UniqueTaken
<1>9. ASSUME NEW p \in Pipes, RemoveFromBusyPipeList(p) PROVE UniqueInv'
  BY <1>0, <1>9, UniqueFrame DEF RemoveFromBusyPipeList
<1>10. ASSUME NEW p \in Pipes, AbortNotify(p) PROVE UniqueInv'
  <2>1. /\ queue' = queue /\ target' = [target EXCEPT ![p] = None]
        /\ cpc[p] \in Loose /\ cpc'[p] \notin Loose
        /\ \A r \in Pipes \ {p} : cpc'[r] = cpc[r]
        /\ notified' = [notified EXCEPT ![target[p]] = @ + 1]
    BY <1>0, <1>10 DEF AbortNotify
  <2> QED BY <2>1, UniqueDropped
<1>11. ASSUME NEW p \in Pipes, ClosePipe(p) PROVE UniqueInv'
  BY <1>0, <1>11, UniqueFrame DEF ClosePipe
<1>12. ASSUME NEW p \in Pipes, CloseCheck(p) PROVE UniqueInv'
  <2>1. CASE inProgress[p]
    <3>1. queue[p] \in Seq(Transfers) /\ queue[p] # << >>
      BY <1>0, <2>1 DEF ControlInv, QueueInv
    <3>2. Head(queue[p]) = queue[p][1] /\ 1 \in 1..Len(queue[p])
      BY <3>1, RemoveHeadProps
    <3>3. queue[p][1] \in ToSet(queue[p])
      BY <3>1, <3>2, ToSetProps
    <3>4. /\ UNCHANGED <<queue, notified>> /\ target' = [target EXCEPT ![p] = queue[p][1]]
          /\ cpc'[p] \notin Loose /\ \A r \in Pipes \ {p} : cpc'[r] = cpc[r]
      BY <1>0, <1>12, <2>1, <3>2 DEF CloseCheck
    <3> QED BY <3>3, <3>4, UniqueHeld
  <2>2. CASE ~inProgress[p]
    BY <1>0, <1>12, <2>2, UniqueFrame DEF CloseCheck
  <2> QED BY <2>1, <2>2
<1>13. ASSUME NEW p \in Pipes, CloseAbort(p) PROVE UniqueInv'
  <2>1. target[p] \in Transfers
    BY <1>13 DEF CloseAbort, ControlInv, TargetInv, Targeting
  <2>2. CASE AbortQueued(p, target[p]) \/ AbortCurrent(p, target[p])
    BY <1>6, <1>7, <2>1, <2>2
  <2>3. CASE ~(AbortQueued(p, target[p]) \/ AbortCurrent(p, target[p]))
    <3>1. /\ UNCHANGED <<queue, notified>> /\ target' = [target EXCEPT ![p] = None]
          /\ cpc'[p] \notin Loose /\ \A r \in Pipes \ {p} : cpc'[r] = cpc[r]
      BY <1>0, <1>13, <2>3 DEF CloseAbort
    <3> QED BY <3>1, UniqueDropped
  <2> QED BY <2>2, <2>3
<1>14. ASSUME NEW p \in Pipes, CloseUnlink(p) \/ CloseFree(p) PROVE UniqueInv'
  BY <1>0, <1>14, UniqueFrame DEF CloseUnlink, CloseFree
<1>15. ASSUME NEW p \in Pipes, Controller(p) PROVE UniqueInv'
  BY <1>15, UniqueFrame DEF Controller, HwFinish, HwStop
<1>16. CASE DoneWait \/ DoneLock \/ DoneUnlock \/ DoneOnEntry \/ DoneNotYet \/ DoneFound \/ DoneJump
           \/ DoneFaulted \/ DoneUnlink
  BY <1>16, UniqueFrame DEF DoneWait, DoneLock, DoneUnlock, DoneOnEntry, DoneNotYet, DoneFound, DoneJump, DoneFaulted, JumpsToStatus,
     DoneUnlink
<1>17. CASE DoneNext \/ DoneEmpty
  <2>1. PICK p \in Pipes : Completed(p)
    BY <1>17, DoneCompletes
  <2> DEFINE x == queue[p][1]
  <2>2. /\ \A r \in Pipes : IsInjective(queue'[r]) /\ ToSet(queue'[r]) \subseteq ToSet(queue[r])
        /\ x \in ToSet(queue[p]) /\ x \notin ToSet(queue'[p])
        /\ \A r \in Pipes \ {p} : queue'[r] = queue[r]
    <3>1. /\ 1 \in 1..Len(queue[p]) /\ queue' = [queue EXCEPT ![p] = RemoveAt(@, 1)]
          /\ IsInjective(queue[p])
      BY <2>1 DEF Completed, UniqueInv
    <3>2. /\ IsInjective(queue'[p]) /\ ToSet(queue'[p]) = ToSet(queue[p]) \ {x}
          /\ x \in ToSet(queue[p])
          /\ \A r \in Pipes \ {p} : queue'[r] = queue[r]
      BY <3>1, Shrinks
    <3> HIDE DEF x
    <3> QED BY <3>2 DEF UniqueInv
  <2>3. x \in Transfers /\ notified' = [notified EXCEPT ![x] = @ + 1] /\ UNCHANGED clientVars
    BY <2>1 DEF Completed
  <2> HIDE DEF x
  <2>4. \A r \in Pipes : x \notin ToSet(queue'[r])
    BY <2>2 DEF UniqueInv
  <2>5. \A r \in Pipes : ToSet(queue'[r]) \subseteq Transfers
    BY <1>0, <2>2, ToSetProps
  <2>6. \A y \in Transfers : y # x => notified'[y] = notified[y]
    BY <1>0, <2>3
  <2>7. \A r \in Pipes : \A y \in ToSet(queue'[r]) : notified'[y] = 0
    BY <2>2, <2>4, <2>5, <2>6 DEF UniqueInv
  <2>8. ASSUME NEW r \in Pipes, cpc[r] \in Loose
        PROVE  target[r] \notin ToSet(queue'[r]) /\ notified'[target[r]] = 0
    <3>1. target[r] \in Transfers /\ target[r] # None
      BY <2>8, QueueAssumption DEF ControlInv, TargetInv, Targeting
    <3>2. target[r] # x
      BY <2>2, <2>8, <3>1 DEF UniqueInv
    <3> QED BY <2>2, <2>6, <2>8, <3>1, <3>2 DEF UniqueInv
  <2>9. ASSUME NEW q \in Pipes, NEW r \in Pipes, q # r
        PROVE  ToSet(queue'[q]) \cap ToSet(queue'[r]) = {}
    <3>1. ToSet(queue[q]) \cap ToSet(queue[r]) = {}
      BY <2>9 DEF UniqueInv
    <3> QED BY <2>2, <3>1
  <2>10. \A q, r \in Pipes : q # r /\ target'[q] # None =>
           target'[r] # target'[q] /\ target'[q] \notin ToSet(queue'[r])
    BY <2>2, <2>3 DEF UniqueInv
  <2> QED BY <2>2, <2>3, <2>7, <2>8, <2>9, <2>10 DEF UniqueInv
<1>18. CASE UNCHANGED vars
  BY <1>18, UniqueFrame DEF vars
<1> QED BY <1>1, <1>2, <1>3, <1>4, <1>5, <1>6, <1>7, <1>8, <1>9, <1>10, <1>11, <1>12,
   <1>13, <1>14, <1>15, <1>16, <1>17, <1>18
   DEF Next, Client, DoneThread, Quiet, AbortTransfer

(* A transfer is notified at most once, and never while it is queued: it is   *)
(* always in one place only, so the done thread and an abort cannot both      *)
(* finish it.                                                                 *)
THEOREM UniqueInvariant == Spec => []UniqueInv
<1>1. Init => UniqueInv
  <2> SUFFICES ASSUME Init PROVE UniqueInv
    OBVIOUS
  <2>1. \A p \in Pipes : IsInjective(queue[p]) /\ ToSet(queue[p]) = {}
    BY DEF Init, IsInjective, ToSet
  <2> QED BY <2>1 DEF Init, UniqueInv, Loose
<1>2. ControlInv /\ UniqueInv /\ [Next]_vars => UniqueInv'
  BY UniqueStep
<1> QED BY <1>1, <1>2, ControlInvariant, PTL DEF Spec
-----------------------------------------------------------------------------
(* A TD list is allocated for exactly the transfers that are queued or about  *)
(* to be, less the one whose completion routine is just being called; and the *)
(* queue head links to the transfer at the head, or to nothing, unless it was *)
(* left at the status TD of a control transfer whose client's buffer faulted. *)
LinkLeft(p) == stage[p] = "faulted" /\ p \in Control

MemoryInv ==
  /\ \A p \in Pipes : \A x \in ToSet(queue[p]) :
        x \in memory <=> ~(pipeLock[p] = "done" /\ x = queue[p][1])
  /\ \A p \in Pipes : cpc[p] = "adding" => target[p] \in memory
  /\ \A x \in memory : \E p \in Pipes : \/ x \in ToSet(queue[p])
                                        \/ cpc[p] = "adding" /\ target[p] = x
  /\ \A p \in Pipes : vlink[p] # None => IF inProgress[p] THEN vlink[p] = queue[p][1]
                                                           ELSE LinkLeft(p)

(* Steps that leave the queues and the TD lists alone; a queue head may be    *)
(* terminated.                                                                *)
LEMMA MemoryFrame ==
  ASSUME MemoryInv, UNCHANGED <<queue, memory, inProgress>>,
         \A r \in Pipes : vlink'[r] # None /\ ~inProgress[r] => stage'[r] = stage[r],
         \A r \in Pipes : /\ pipeLock'[r] = "done" <=> pipeLock[r] = "done"
                          /\ cpc'[r] = "adding" <=> cpc[r] = "adding"
                          /\ cpc[r] = "adding" => target'[r] = target[r]
                          /\ vlink'[r] \in {vlink[r], None}
  PROVE  MemoryInv'
BY DEF MemoryInv, LinkLeft

(* A transfer that leaves the head or the middle of its queue, or is refused, *)
(* is freed, and nothing else refers to it.                                   *)
LEMMA OneOwner ==
  ASSUME ControlInv, UniqueInv, NEW p \in Pipes, NEW x \in Transfers,
         \/ x \in ToSet(queue[p])
         \/ cpc[p] = "adding" /\ target[p] = x
  PROVE  \A r \in Pipes \ {p} : /\ x \notin ToSet(queue[r])
                                /\ cpc[r] = "adding" => target[r] # x
<1>1. x # None
  BY QueueAssumption
<1>2. \A r \in Pipes : cpc[r] = "adding" => target[r] # None
  BY QueueAssumption DEF ControlInv, TargetInv, Targeting
<1> QED BY <1>1, <1>2 DEF UniqueInv

(* Every step keeps the TD lists and the queues in agreement.                 *)
LEMMA MemoryStep == ControlInv /\ UniqueInv /\ MemoryInv /\ [Next]_vars => MemoryInv'
<1> SUFFICES ASSUME ControlInv, UniqueInv, MemoryInv, [Next]_vars PROVE MemoryInv'
  OBVIOUS
<1>0. /\ cpc \in [Pipes -> ClientStates] /\ target \in [Pipes -> Transfers \cup {None}]
      /\ queue \in [Pipes -> Seq(Transfers)] /\ vlink \in [Pipes -> Transfers \cup {None}]
      /\ pipeLock \in [Pipes -> {"free", "client", "done"}] /\ memory \subseteq Transfers
      /\ inProgress \in [Pipes -> BOOLEAN] /\ stage \in [Pipes -> {"data", "status", "faulted"}]
      /\ \A p \in Pipes : ToSet(queue[p]) \subseteq Transfers /\ IsInjective(queue[p])
  BY ToSetProps DEF ControlInv, Types, UniqueInv
<1> USE DEF queueVars, listVars, clientVars, doneVars, Idle
<1>1. ASSUME NEW p \in Pipes, OpenPipe(p) PROVE MemoryInv'
  BY <1>1, MemoryFrame DEF OpenPipe
<1>2. ASSUME NEW p \in Pipes, NEW x \in Transfers, IssueQueued(p, x) PROVE MemoryInv'
  <2>1. x \notin ToSet(queue[p])
    BY <1>2 DEF IssueQueued, Issued
  <2>2. /\ ToSet(queue'[p]) = ToSet(queue[p]) \cup {x} /\ queue'[p][1] = queue[p][1]
        /\ \A r \in Pipes \ {p} : queue'[r] = queue[r]
    <3>1. queue[p] # << >>
      BY <1>2 DEF IssueQueued, ControlInv, QueueInv
    <3> QED BY <1>0, <1>2, <2>1, <3>1, IssueQueuedAppends, Grows
  <2>3. memory' = memory \cup {x} /\ UNCHANGED <<cpc, target, vlink, pipeLock, inProgress, stage>>
    BY <1>2 DEF IssueQueued
  <2>4. pipeLock[p] = "free" /\ \A r \in Pipes \ {p} : x \notin ToSet(queue[r])
    BY <1>2 DEF IssueQueued, Issued
  <2> QED BY <2>2, <2>3, <2>4 DEF MemoryInv, LinkLeft
<1>3. ASSUME NEW p \in Pipes, NEW x \in Transfers, IssueFirst(p, x) PROVE MemoryInv'
  <2>1. /\ memory' = memory \cup {x} /\ UNCHANGED <<queue, vlink, inProgress, stage>>
        /\ cpc'[p] = "adding" /\ target'[p] = x /\ pipeLock[p] = "free" /\ pipeLock'[p] = "client"
        /\ \A r \in Pipes \ {p} : /\ cpc'[r] = cpc[r] /\ target'[r] = target[r]
                                  /\ pipeLock'[r] = pipeLock[r]
        /\ cpc[p] # "adding"
    BY <1>0, <1>3 DEF IssueFirst
  <2>2. \A r \in Pipes : x \notin ToSet(queue[r])
    BY <1>3 DEF IssueFirst, Issued
  <2>3. \A r \in Pipes : pipeLock'[r] = "done" <=> pipeLock[r] = "done"
    BY <2>1
  <2> QED BY <2>1, <2>2, <2>3 DEF MemoryInv, LinkLeft
<1>4. ASSUME NEW p \in Pipes, ScheduleTransfer(p) PROVE MemoryInv'
  <2>1. /\ queue[p] = << >> /\ target[p] \in Transfers /\ cpc[p] = "adding"
        /\ queue' = [queue EXCEPT ![p] = Append(@, target[p])]
    BY <1>4, ScheduleAppends DEF ScheduleTransfer
  <2>2. target[p] \notin ToSet(queue[p])
    BY <2>1 DEF UniqueInv, Loose
  <2>3. /\ ToSet(queue'[p]) = ToSet(queue[p]) \cup {target[p]} /\ queue'[p][1] = target[p]
        /\ \A r \in Pipes \ {p} : queue'[r] = queue[r]
    BY <1>0, <2>1, <2>2, Grows
  <2>4. ToSet(queue[p]) = {}
    BY <1>0, <2>1, ToSetProps
  <2>5. /\ vlink'[p] = target[p] /\ inProgress'[p] /\ pipeLock'[p] = "free" /\ memory' = memory
        /\ cpc'[p] = "idle"
        /\ \A r \in Pipes \ {p} : /\ vlink'[r] = vlink[r] /\ inProgress'[r] = inProgress[r]
                                  /\ stage'[r] = stage[r]
                                  /\ pipeLock'[r] = pipeLock[r] /\ cpc'[r] = cpc[r]
                                  /\ target'[r] = target[r]
    BY <1>0, <1>4 DEF ScheduleTransfer
  <2>6. target[p] \in memory
    BY <2>1 DEF MemoryInv
  <2> QED BY <2>1, <2>3, <2>4, <2>5, <2>6 DEF MemoryInv, LinkLeft
<1>5. ASSUME NEW p \in Pipes, ScheduleRefused(p) PROVE MemoryInv'
  <2>1. /\ cpc[p] = "adding" /\ target[p] \in Transfers /\ target[p] \notin ToSet(queue[p])
        /\ pipeLock[p] = "client"
    BY <1>5 DEF ScheduleRefused, ControlInv, TargetInv, Targeting, LockInv, ClientLocked,
       UniqueInv, Loose
  <2>2. \A r \in Pipes \ {p} : /\ target[p] \notin ToSet(queue[r])
                               /\ cpc[r] = "adding" => target[r] # target[p]
    BY <2>1, OneOwner
  <2>3. /\ memory' = memory \ {target[p]} /\ UNCHANGED <<queue, vlink, inProgress, stage>>
        /\ cpc'[p] = "idle" /\ pipeLock'[p] = "free"
        /\ \A r \in Pipes \ {p} : /\ cpc'[r] = cpc[r] /\ target'[r] = target[r]
                                  /\ pipeLock'[r] = pipeLock[r]
    BY <1>0, <1>5 DEF ScheduleRefused
  <2>4. \A r \in Pipes : /\ pipeLock'[r] = "done" <=> pipeLock[r] = "done"
                         /\ target[p] \notin ToSet(queue[r])
    BY <2>1, <2>2, <2>3
  <2> QED BY <2>1, <2>2, <2>3, <2>4 DEF MemoryInv, LinkLeft
<1>6. ASSUME NEW p \in Pipes, NEW x \in Transfers, AbortQueued(p, x), cpc[p] # "adding",
             pipeLock[p] = "free"
      PROVE  MemoryInv'
  <2>1. PICK k \in 1..Len(queue[p]) : /\ k > 1 /\ queue[p][k] = x
                                      /\ queue' = [queue EXCEPT ![p] = RemoveAt(@, k)]
    BY <1>6, AbortQueuedRemoves
  <2>2. /\ ToSet(queue'[p]) = ToSet(queue[p]) \ {x} /\ queue'[p][1] = queue[p][1]
        /\ x \in ToSet(queue[p])
        /\ \A r \in Pipes \ {p} : queue'[r] = queue[r]
    BY <1>0, <2>1, Shrinks
  <2>3. \A r \in Pipes \ {p} : x \notin ToSet(queue[r]) /\ (cpc[r] = "adding" => target[r] # x)
    BY <2>2, OneOwner
  <2>4. /\ memory' = memory \ {x} /\ UNCHANGED <<vlink, inProgress, pipeLock, stage>>
        /\ cpc'[p] = "notify"
        /\ \A r \in Pipes \ {p} : cpc'[r] = cpc[r] /\ target'[r] = target[r]
    BY <1>0, <1>6 DEF AbortQueued
  <2> QED BY <1>6, <2>2, <2>3, <2>4 DEF MemoryInv, LinkLeft
<1>7. ASSUME NEW p \in Pipes, NEW x \in Transfers, AbortCurrent(p, x), cpc[p] # "adding",
             pipeLock[p] = "free"
      PROVE  MemoryInv'
  <2>1. \A r \in Pipes : /\ pipeLock'[r] = "done" <=> pipeLock[r] = "done"
                         /\ cpc'[r] = "adding" <=> cpc[r] = "adding"
                         /\ cpc[r] = "adding" => target'[r] = target[r]
                         /\ vlink'[r] \in {vlink[r], None}
    BY <1>0, <1>7 DEF AbortCurrent
  <2> QED BY <1>7, <2>1, MemoryFrame DEF AbortCurrent
<1>8. ASSUME NEW p \in Pipes, AbortFinish(p) PROVE MemoryInv'
  <2>1. /\ 1 \in 1..Len(queue[p]) /\ target[p] = queue[p][1] /\ target[p] \in Transfers
        /\ queue' = [queue EXCEPT ![p] = RemoveAt(@, 1)]
    BY <1>8, AbortFinishRemoves
  <2> DEFINE x == target[p]
  <2>2. /\ ToSet(queue'[p]) = ToSet(queue[p]) \ {x} /\ x \in ToSet(queue[p])
        /\ \A r \in Pipes \ {p} : queue'[r] = queue[r]
    BY <1>0, <2>1, Shrinks
  <2>3. \A r \in Pipes \ {p} : x \notin ToSet(queue[r]) /\ (cpc[r] = "adding" => target[r] # x)
    BY <2>1, <2>2, OneOwner
  <2>4. /\ memory' = memory \ {x} /\ pipeLock[p] = "client" /\ pipeLock'[p] = "free"
        /\ cpc[p] # "adding" /\ cpc'[p] # "adding"
        /\ \A r \in Pipes \ {p} : /\ cpc'[r] = cpc[r] /\ target'[r] = target[r]
                                  /\ pipeLock'[r] = pipeLock[r] /\ vlink'[r] = vlink[r]
                                  /\ inProgress'[r] = inProgress[r] /\ stage'[r] = stage[r]
    BY <1>0, <1>8 DEF AbortFinish, ControlInv, LockInv, ClientLocked
  <2>5. vlink'[p] # None => inProgress'[p] /\ vlink'[p] = queue'[p][1]
    BY <1>0, <1>8, <2>1 DEF AbortFinish
  <2> HIDE DEF x
  <2>6. \A r \in Pipes : pipeLock'[r] = "done" <=> pipeLock[r] = "done"
    BY <2>4
  <2>7. \A r \in Pipes : vlink'[r] # None => IF inProgress'[r] THEN vlink'[r] = queue'[r][1]
                                                               ELSE LinkLeft(r)'
    BY <2>2, <2>4, <2>5 DEF MemoryInv, LinkLeft
  <2> QED BY <2>2, <2>3, <2>4, <2>6, <2>7 DEF MemoryInv
<1>9. ASSUME NEW p \in Pipes, RemoveFromBusyPipeList(p) PROVE MemoryInv'
  BY <1>0, <1>9, MemoryFrame DEF RemoveFromBusyPipeList
<1>10. ASSUME NEW p \in Pipes, AbortNotify(p) PROVE MemoryInv'
  BY <1>0, <1>10, MemoryFrame DEF AbortNotify
<1>11. ASSUME NEW p \in Pipes, ClosePipe(p) PROVE MemoryInv'
  BY <1>0, <1>11, MemoryFrame DEF ClosePipe
<1>12. ASSUME NEW p \in Pipes, CloseCheck(p) PROVE MemoryInv'
  BY <1>0, <1>12, MemoryFrame DEF CloseCheck
<1>13. ASSUME NEW p \in Pipes, CloseAbort(p) PROVE MemoryInv'
  <2>1. target[p] \in Transfers /\ cpc[p] # "adding" /\ pipeLock[p] = "free"
    BY <1>13 DEF CloseAbort, ControlInv, TargetInv, Targeting
  <2>2. CASE AbortQueued(p, target[p]) \/ AbortCurrent(p, target[p])
    BY <1>6, <1>7, <2>1, <2>2
  <2>3. CASE ~(AbortQueued(p, target[p]) \/ AbortCurrent(p, target[p]))
    BY <1>0, <1>13, <2>1, <2>3, MemoryFrame DEF CloseAbort
  <2> QED BY <2>2, <2>3
<1>14. ASSUME NEW p \in Pipes, CloseUnlink(p) PROVE MemoryInv'
  BY <1>0, <1>14, MemoryFrame DEF CloseUnlink
<1>15. ASSUME NEW p \in Pipes, CloseFree(p) PROVE MemoryInv'
  <2>1. pipeLock[p] = "client"
    BY <1>15 DEF CloseFree, ControlInv, LockInv, ClientLocked
  <2> QED BY <1>0, <1>15, <2>1, MemoryFrame DEF CloseFree
<1>16. ASSUME NEW p \in Pipes, Controller(p) PROVE MemoryInv'
  BY <1>0, <1>16, MemoryFrame DEF Controller, HwFinish, HwStop
<1>17. CASE DoneWait \/ DoneLock \/ DoneUnlock \/ DoneOnEntry \/ DoneNotYet \/ DoneUnlink
  BY <1>17, MemoryFrame DEF DoneWait, DoneLock, DoneUnlock, DoneOnEntry, DoneNotYet, DoneUnlink
<1>18. CASE DoneFound \/ DoneFaulted
  <2> USE DEF JumpsToStatus, DoneFaulted
  <2>1. PICK p \in Pipes : p = Current
    BY <1>18, ElementOfSeq DEF DoneFound, Current, ControlInv, Types, LockInv
  <2>2. /\ queue[p] \in Seq(Transfers) /\ queue[p] # << >> /\ pipeLock[p] = "free"
        /\ cpc[p] # "adding"
    BY <1>0, <1>18, <2>1 DEF DoneFound, ControlInv, QueueInv, LockInv, ClientLocked
  <2> DEFINE x == queue[p][1]
  <2>3. /\ Head(queue[p]) = x /\ x \in Transfers /\ x \in ToSet(queue[p])
    <3>1. Len(queue[p]) \in Nat \ {0} /\ Head(queue[p]) = x /\ x \in Transfers
      BY <2>2, RemoveHeadProps
    <3>2. 1 \in 1..Len(queue[p])
      BY <3>1
    <3> QED BY <2>2, <3>1, <3>2, ToSetProps
  <2>4. \A r \in Pipes \ {p} : x \notin ToSet(queue[r]) /\ (cpc[r] = "adding" => target[r] # x)
    BY <2>3, OneOwner
  <2>5. /\ memory' = memory \ {x} /\ UNCHANGED <<queue, clientVars>>
        /\ pipeLock'[p] = "done"
        /\ vlink'[p] # None => ~inProgress'[p] /\ stage'[p] = "faulted" /\ p \in Control
        /\ \A r \in Pipes \ {p} : /\ pipeLock'[r] = pipeLock[r] /\ vlink'[r] = vlink[r]
                                  /\ inProgress'[r] = inProgress[r] /\ stage'[r] = stage[r]
    BY <1>0, <1>18, <2>1, <2>3 DEF DoneFound
  <2>6. \A r \in Pipes \ {p} : pipeLock[r] # "done"
    BY <1>18 DEF DoneFound, ControlInv, LockInv
  <2>7. \A r \in Pipes : \A y \in ToSet(queue[r]) :
           y \in memory' <=> ~(pipeLock'[r] = "done" /\ y = queue[r][1])
    BY <2>2, <2>4, <2>5, <2>6 DEF MemoryInv
  <2> HIDE DEF x
  <2>8. \A r \in Pipes : cpc[r] = "adding" => target[r] \in memory'
    BY <2>2, <2>4, <2>5 DEF MemoryInv
  <2> QED BY <2>5, <2>7, <2>8 DEF MemoryInv, LinkLeft
<1>19. CASE DoneNext \/ DoneEmpty
  <2>1. PICK p \in Pipes : Completed(p)
    BY <1>19, DoneCompletes
  <2> DEFINE x == queue[p][1]
  <2>2. /\ 1 \in 1..Len(queue[p]) /\ queue' = [queue EXCEPT ![p] = RemoveAt(@, 1)]
        /\ pipeLock[p] = "done" /\ pipeLock' = [pipeLock EXCEPT ![p] = "free"]
        /\ UNCHANGED <<memory, clientVars>>
    BY <2>1 DEF Completed
  <2>3. /\ ToSet(queue'[p]) = ToSet(queue[p]) \ {x} /\ x \in ToSet(queue[p])
        /\ \A r \in Pipes \ {p} : queue'[r] = queue[r]
    BY <1>0, <2>2, Shrinks
  <2>4. x \notin memory /\ pipeLock'[p] = "free"
        /\ \A r \in Pipes \ {p} : pipeLock'[r] = pipeLock[r]
    BY <1>0, <2>2, <2>3 DEF MemoryInv
  <2>5. \A r \in Pipes : vlink'[r] # None => IF inProgress'[r] THEN vlink'[r] = queue'[r][1]
                                                               ELSE LinkLeft(r)'
    <3>1. queue[p] \in Seq(Transfers) /\ queue[p] # << >> /\ ~inProgress[p]
      BY <1>0, <2>2, EmptySeq DEF ControlInv, QueueInv
    <3>2. CASE Len(queue[p]) > 1
      <4>1. queue'[p][1] = queue[p][2]
        BY <1>0, <2>2, <3>1, <3>2, RemoveHeadProps
      <4>2. /\ vlink' = [vlink EXCEPT ![p] = queue[p][2]]
            /\ stage' = [stage EXCEPT ![p] = "data"]
            /\ inProgress' = [inProgress EXCEPT ![p] = TRUE]
        BY <2>1, <3>2 DEF Completed
      <4> QED BY <1>0, <2>3, <4>1, <4>2 DEF MemoryInv, LinkLeft
    <3>3. CASE ~(Len(queue[p]) > 1)
      <4>1. UNCHANGED <<vlink, inProgress, stage>>
        BY <2>1, <3>3 DEF Completed
      <4> QED BY <2>3, <3>1, <4>1 DEF MemoryInv, LinkLeft
    <3> QED BY <3>2, <3>3
  <2> HIDE DEF x
  <2>6. \A r \in Pipes : \A y \in ToSet(queue'[r]) :
           y \in memory' <=> ~(pipeLock'[r] = "done" /\ y = queue'[r][1])
    <3>1. \A y \in ToSet(queue[p]) : y # x => y \in memory
      BY <2>2 DEF MemoryInv, x
    <3> QED BY <2>2, <2>3, <2>4, <3>1 DEF MemoryInv
  <2>7. \A y \in memory' : \E r \in Pipes : \/ y \in ToSet(queue'[r])
                                            \/ cpc'[r] = "adding" /\ target'[r] = y
    <3>1. \A r \in Pipes : \A y \in memory : y \in ToSet(queue[r]) => y \in ToSet(queue'[r])
      BY <2>3, <2>4
    <3>2. memory' = memory /\ cpc' = cpc /\ target' = target
      BY <2>2
    <3> QED BY <3>1, <3>2 DEF MemoryInv
  <2> QED BY <2>2, <2>5, <2>6, <2>7 DEF MemoryInv
<1>20. CASE UNCHANGED vars
  BY <1>20, MemoryFrame DEF vars
<1>21. CASE DoneJump
  <2>1. /\ UNCHANGED <<queue, memory, inProgress, vlink, pipeLock, clientVars>>
        /\ inProgress[Current] /\ stage' = [stage EXCEPT ![Current] = "status"]
    BY <1>21 DEF DoneJump, JumpsToStatus
  <2>2. \A r \in Pipes : ~inProgress[r] => stage'[r] = stage[r]
    BY <1>0, <2>1
  <2> QED BY <2>1, <2>2, MemoryFrame
<1> QED
  <2>1. ASSUME NEW p \in Pipes, NEW x \in Transfers, AbortTransfer(p, x) PROVE MemoryInv'
    BY <1>6, <1>7, <2>1 DEF AbortTransfer
  <2> QED BY <1>1, <1>2, <1>3, <1>4, <1>5, <1>8, <1>9, <1>10, <1>11, <1>12, <1>13, <1>14,
     <1>15, <1>16, <1>17, <1>18, <1>19, <1>20, <1>21, <2>1 DEF Next, Client, DoneThread, Quiet

(* FreeTransferMemory frees the TD list of a transfer when the transfer       *)
(* leaves its queue or its completion is reported, not before and not later.  *)
THEOREM MemoryInvariant == Spec => []MemoryInv
<1>1. Init => MemoryInv
  <2> SUFFICES ASSUME Init PROVE MemoryInv
    OBVIOUS
  <2>1. \A p \in Pipes : ToSet(queue[p]) = {}
    BY DEF Init, ToSet
  <2> QED BY <2>1 DEF Init, MemoryInv
<1>2. ControlInv /\ UniqueInv /\ MemoryInv /\ [Next]_vars => MemoryInv'
  BY MemoryStep
<1> QED BY <1>1, <1>2, ControlInvariant, UniqueInvariant, PTL DEF Spec

(* What the controller reaches from a queue head is allocated, and belongs to *)
(* the transfer at the head of the queue; but for the queue head of a control *)
(* pipe whose last transfer failed between its data and its status stage, and *)
(* that pipe has no transfer in progress.                                     *)
THEOREM ControllerMemorySafe == Spec => []ControllerSeesLiveTDs
<1>1. ControlInv /\ MemoryInv => ControllerSeesLiveTDs
  <2> SUFFICES ASSUME ControlInv, MemoryInv, NEW p \in Pipes, vlink[p] # None, inProgress[p]
               PROVE  /\ vlink[p] \in memory /\ queue[p] # << >>
                      /\ vlink[p] = Head(queue[p])
    BY DEF ControllerSeesLiveTDs, MemoryInv, LinkLeft
  <2>1. vlink[p] = queue[p][1]
    BY DEF MemoryInv
  <2>2. queue[p] \in Seq(Transfers) /\ queue[p] # << >> /\ pipeLock[p] # "done"
    BY DEF ControlInv, Types, QueueInv
  <2>3. Head(queue[p]) = queue[p][1] /\ 1 \in 1..Len(queue[p])
    BY <2>2, RemoveHeadProps
  <2>4. queue[p][1] \in ToSet(queue[p])
    BY <2>2, <2>3, ToSetProps
  <2> QED BY <2>1, <2>2, <2>3, <2>4 DEF MemoryInv
<1> QED BY <1>1, ControlInvariant, MemoryInvariant, PTL
-----------------------------------------------------------------------------
(* The completion routine of a transfer is called at most once, by the done   *)
(* thread or by the abort that took it out of its queue, and after that the   *)
(* driver holds neither the transfer nor its TD list.                         *)
THEOREM NotifiedAtMostOnce == Spec => []NotifiedOnce
<1> DEFINE Once == \A x \in Transfers : notified[x] <= 1
<1>1. Init => Once
  BY DEF Init
<1>2. ControlInv /\ UniqueInv /\ Once /\ [Next]_vars => Once'
  <2> SUFFICES ASSUME ControlInv, UniqueInv, Once, [Next]_vars PROVE Once'
    OBVIOUS
  <2>1. notified \in [Transfers -> Nat]
    BY DEF ControlInv, Types
  <2>2. \/ notified' = notified
        \/ \E x \in Transfers : notified[x] = 0 /\ notified' = [notified EXCEPT ![x] = @ + 1]
    <3>1. ASSUME NEW p \in Pipes, AbortNotify(p)
          PROVE  \E x \in Transfers : /\ notified[x] = 0
                                      /\ notified' = [notified EXCEPT ![x] = @ + 1]
      BY <3>1 DEF AbortNotify, UniqueInv, Loose, ControlInv, TargetInv, Targeting
    <3>2. ASSUME DoneNext \/ DoneEmpty
          PROVE  \E x \in Transfers : /\ notified[x] = 0
                                      /\ notified' = [notified EXCEPT ![x] = @ + 1]
      <4>1. PICK p \in Pipes : Completed(p)
        BY <3>2, DoneCompletes
      <4>2. 1 \in 1..Len(queue[p]) /\ queue[p] \in Seq(Transfers)
        BY <4>1 DEF Completed, ControlInv, Types
      <4>3. queue[p][1] \in ToSet(queue[p])
        BY <4>2, ToSetProps
      <4> QED BY <4>1, <4>3 DEF Completed, UniqueInv
    <3>3. ASSUME NEW p \in Pipes, Client(p) PROVE AbortNotify(p) \/ notified' = notified
      BY <3>3 DEF Client, OpenPipe, ClosePipe, IssueQueued, IssueFirst, AbortTransfer,
         AbortQueued, AbortCurrent, ScheduleTransfer, ScheduleRefused, AbortFinish,
         RemoveFromBusyPipeList, CloseCheck, CloseAbort, CloseUnlink, CloseFree
    <3>4. ASSUME NEW p \in Pipes, Controller(p) PROVE notified' = notified
      BY <3>4 DEF Controller, HwFinish, HwStop
    <3>5. ASSUME DoneThread PROVE DoneNext \/ DoneEmpty \/ notified' = notified
      BY <3>5 DEF DoneThread, DoneWait, DoneLock, DoneUnlock, DoneOnEntry, DoneNotYet,
         DoneFound, DoneJump, DoneFaulted, JumpsToStatus, DoneUnlink
    <3> QED BY <3>1, <3>2, <3>3, <3>4, <3>5 DEF Next, Quiet, vars
  <2> QED BY <2>1, <2>2
<1>3. ControlInv /\ UniqueInv /\ MemoryInv /\ Once => NotifiedOnce
  <2> SUFFICES ASSUME ControlInv, UniqueInv, MemoryInv, Once, NEW x \in Transfers,
                      notified[x] = 1
               PROVE  /\ x \notin memory
                      /\ \A p \in Pipes : /\ x \notin ToSet(queue[p])
                                          /\ target[p] # x \/ cpc[p] = "closeAbort"
    BY DEF NotifiedOnce
  <2>1. \A p \in Pipes : x \notin ToSet(queue[p]) /\ (cpc[p] \in Loose => target[p] # x)
    BY DEF UniqueInv
  <2>2. \A p \in Pipes : cpc[p] = "abortWait" => target[p] # x
    <3> SUFFICES ASSUME NEW p \in Pipes, cpc[p] = "abortWait" PROVE target[p] # x
      OBVIOUS
    <3>1. queue[p] \in Seq(Transfers) /\ queue[p] # << >> /\ queue[p][1] = target[p]
      BY DEF ControlInv, Types, QueueInv
    <3>2. 1 \in 1..Len(queue[p])
      BY <3>1, EmptySeq
    <3> QED BY <2>1, <3>1, <3>2, ToSetProps
  <2>3. \A p \in Pipes : cpc[p] \notin Targeting => target[p] # x
    BY QueueAssumption DEF ControlInv, TargetInv
  <2>4. x \notin memory
    BY <2>1 DEF MemoryInv, Loose
  <2> QED BY <2>1, <2>2, <2>3, <2>4 DEF Targeting, Loose
<1> QED BY <1>1, <1>2, <1>3, ControlInvariant, UniqueInvariant, MemoryInvariant, PTL DEF Spec

-----------------------------------------------------------------------------
(* The pipes that count in numReclamationTransfers: those with a transfer,    *)
(* less those whose only transfer is being aborted.                           *)
Counts(p) == queue[p] # << >> /\ ~(cpc[p] = "abortWait" /\ Len(queue[p]) = 1)
Counted   == {p \in Reclamation : Counts(p)}
LoadInv   == IsFiniteSet(Counted) /\ reclamation = Cardinality(Counted)

(* A step of one pipe that starts or stops counting adjusts the load.         *)
LEMMA LoadAdjusted ==
  ASSUME LoadInv, NEW p \in Pipes, \A r \in Pipes \ {p} : Counts(r)' <=> Counts(r),
         \/ (Counts(p)' <=> Counts(p)) /\ reclamation' = reclamation
         \/ ~Counts(p) /\ Counts(p)' /\ reclamation' = reclamation + Load(p)
         \/ Counts(p) /\ ~Counts(p)' /\ reclamation' = reclamation - Load(p)
  PROVE  LoadInv'
<1>1. Reclamation \subseteq Pipes
  BY QueueAssumption
<1>2. CASE p \notin Reclamation \/ (Counts(p)' <=> Counts(p))
  <2>1. Counted' = Counted
    BY <1>1, <1>2 DEF Counted
  <2>2. Cardinality(Counted) \in Nat
    BY FS_CardinalityType DEF LoadInv
  <2>3. p \notin Reclamation => Load(p) = 0
    BY DEF Load
  <2>4. reclamation' = reclamation
    BY <1>2, <2>2, <2>3 DEF LoadInv
  <2> QED BY <2>1, <2>4 DEF LoadInv
<1>3. CASE p \in Reclamation /\ ~Counts(p) /\ Counts(p)'
  <2>1. Counted' = Counted \cup {p} /\ p \notin Counted
    BY <1>1, <1>3 DEF Counted
  <2>2. reclamation' = reclamation + 1
    BY <1>3 DEF Load
  <2> QED BY <2>1, <2>2, FS_AddElement DEF LoadInv
<1>4. CASE p \in Reclamation /\ Counts(p) /\ ~Counts(p)'
  <2>1. Counted' = Counted \ {p} /\ p \in Counted
    BY <1>1, <1>4 DEF Counted
  <2>2. reclamation' = reclamation - 1
    BY <1>4 DEF Load
  <2> QED BY <2>1, <2>2, FS_RemoveElement DEF LoadInv
<1> QED BY <1>2, <1>3, <1>4

(* Steps that leave the queues alone and neither begin nor end an abort.      *)
LEMMA LoadFrame ==
  ASSUME LoadInv, UNCHANGED <<queue, reclamation>>,
         \A r \in Pipes : cpc'[r] = "abortWait" <=> cpc[r] = "abortWait"
  PROVE  LoadInv'
<1>1. Counted' = Counted
  BY QueueAssumption DEF Counted, Counts
<1> QED BY <1>1 DEF LoadInv

LEMMA LoadStep == ControlInv /\ LoadInv /\ [Next]_vars => LoadInv'
<1> SUFFICES ASSUME ControlInv, LoadInv, [Next]_vars PROVE LoadInv'
  OBVIOUS
<1>0. /\ cpc \in [Pipes -> ClientStates] /\ queue \in [Pipes -> Seq(Transfers)]
      /\ \A p \in Pipes : /\ Len(queue[p]) \in Nat
                          /\ queue[p] = << >> <=> Len(queue[p]) = 0
  BY EmptySeq, LenProperties DEF ControlInv, Types
<1> USE DEF queueVars, listVars, clientVars, doneVars, Idle
<1>1. ASSUME NEW p \in Pipes, OpenPipe(p) PROVE LoadInv'
  BY <1>1, LoadFrame DEF OpenPipe
<1>2. ASSUME NEW p \in Pipes, NEW x \in Transfers, IssueQueued(p, x) PROVE LoadInv'
  <2>1. queue[p] # << >> /\ queue'[p] # << >> /\ \A r \in Pipes \ {p} : queue'[r] = queue[r]
    <3>1. queue' = [queue EXCEPT ![p] = Append(@, x)] /\ queue[p] # << >>
      BY <1>2, IssueQueuedAppends DEF IssueQueued, ControlInv, QueueInv
    <3> QED BY <1>0, <3>1, AppendProperties
  <2>2. cpc[p] = "idle" /\ UNCHANGED <<cpc, reclamation>>
    BY <1>2 DEF IssueQueued
  <2>3. Counts(p) /\ Counts(p)' /\ \A r \in Pipes \ {p} : Counts(r)' <=> Counts(r)
    BY <2>1, <2>2 DEF Counts
  <2> QED BY <2>2, <2>3, LoadAdjusted
<1>3. ASSUME NEW p \in Pipes, NEW x \in Transfers, IssueFirst(p, x) PROVE LoadInv'
  BY <1>0, <1>3, LoadFrame DEF IssueFirst
<1>4. ASSUME NEW p \in Pipes, ScheduleTransfer(p) PROVE LoadInv'
  <2>1. /\ queue[p] = << >> /\ queue'[p] # << >> /\ cpc'[p] = "idle"
        /\ \A r \in Pipes \ {p} : queue'[r] = queue[r] /\ cpc'[r] = cpc[r]
        /\ reclamation' = reclamation + Load(p)
    <3>1. queue[p] = << >> /\ queue' = [queue EXCEPT ![p] = <<target[p]>>]
      BY <1>4, ScheduleAppends DEF ScheduleTransfer
    <3>2. <<target[p]>> # << >>
      OBVIOUS
    <3> QED BY <1>0, <1>4, <3>1, <3>2 DEF ScheduleTransfer
  <2>2. ~Counts(p) /\ Counts(p)' /\ \A r \in Pipes \ {p} : Counts(r)' <=> Counts(r)
    BY <2>1 DEF Counts
  <2> QED BY <2>1, <2>2, LoadAdjusted
<1>5. ASSUME NEW p \in Pipes, ScheduleRefused(p) PROVE LoadInv'
  BY <1>0, <1>5, LoadFrame DEF ScheduleRefused
<1>6. ASSUME NEW p \in Pipes, NEW x \in Transfers, AbortQueued(p, x), cpc[p] # "abortWait"
      PROVE  LoadInv'
  <2>1. PICK k \in 1..Len(queue[p]) : /\ k > 1
                                      /\ queue' = [queue EXCEPT ![p] = RemoveAt(@, k)]
    BY <1>6, AbortQueuedRemoves
  <2>2. /\ queue[p] # << >> /\ queue'[p] # << >>
        /\ \A r \in Pipes \ {p} : queue'[r] = queue[r]
    <3>1. Len(RemoveAt(queue[p], k)) = Len(queue[p]) - 1 /\ RemoveAt(queue[p], k) \in Seq(Transfers)
      BY <1>0, RemoveAtProps
    <3>2. Len(queue[p]) > 1
      BY <1>0, <2>1
    <3>3. RemoveAt(queue[p], k) # << >>
      BY <1>0, <3>1, <3>2, EmptySeq
    <3> QED BY <1>0, <2>1, <3>2, <3>3
  <2>3. /\ cpc'[p] = "notify" /\ reclamation' = reclamation
        /\ \A r \in Pipes \ {p} : cpc'[r] = cpc[r]
    BY <1>0, <1>6 DEF AbortQueued
  <2>4. Counts(p) /\ Counts(p)' /\ \A r \in Pipes \ {p} : Counts(r)' <=> Counts(r)
    BY <1>6, <2>2, <2>3 DEF Counts
  <2> QED BY <2>3, <2>4, LoadAdjusted
<1>7. ASSUME NEW p \in Pipes, NEW x \in Transfers, AbortCurrent(p, x), cpc[p] # "abortWait"
      PROVE  LoadInv'
  <2>1. /\ cpc'[p] = "abortWait" /\ queue[p] # << >> /\ queue' = queue
        /\ \A r \in Pipes \ {p} : cpc'[r] = cpc[r]
        /\ reclamation' = IF Len(queue[p]) = 1 THEN reclamation - Load(p) ELSE reclamation
    BY <1>0, <1>7 DEF AbortCurrent
  <2>2. /\ Counts(p) /\ (Counts(p)' <=> Len(queue[p]) # 1)
        /\ \A r \in Pipes \ {p} : Counts(r)' <=> Counts(r)
    BY <1>7, <2>1 DEF Counts
  <2> QED BY <2>1, <2>2, LoadAdjusted
<1>8. ASSUME NEW p \in Pipes, AbortFinish(p) PROVE LoadInv'
  <2>1. /\ cpc[p] = "abortWait" /\ cpc'[p] # "abortWait" /\ reclamation' = reclamation
        /\ \A r \in Pipes \ {p} : cpc'[r] = cpc[r]
    BY <1>0, <1>8 DEF AbortFinish
  <2>2. /\ queue[p] # << >> /\ queue' = [queue EXCEPT ![p] = RemoveAt(@, 1)]
    BY <1>0, <1>8, AbortFinishRemoves DEF AbortFinish, ControlInv, QueueInv
  <2>3. /\ \A r \in Pipes \ {p} : queue'[r] = queue[r]
        /\ queue'[p] = << >> <=> Len(queue[p]) = 1
    <3>1. /\ Len(queue[p]) = 1 => RemoveAt(queue[p], 1) = << >>
          /\ Len(queue[p]) > 1 => RemoveAt(queue[p], 1) # << >>
      BY <1>0, <2>2, RemoveHeadProps
    <3>2. /\ queue'[p] = RemoveAt(queue[p], 1) /\ \A r \in Pipes \ {p} : queue'[r] = queue[r]
          /\ Len(queue[p]) \in Nat \ {0}
      BY <1>0, <2>2, <3>1
    <3>3. Len(queue[p]) = 1 \/ Len(queue[p]) > 1
      <4>1. PICK n \in Nat \ {0} : n = Len(queue[p])
        BY <3>2
      <4>2. n = 1 \/ n > 1
        OBVIOUS
      <4> QED BY <4>1, <4>2
    <3> QED BY <3>1, <3>2, <3>3
  <2>4. /\ Counts(p)' <=> Counts(p)
        /\ \A r \in Pipes \ {p} : Counts(r)' <=> Counts(r)
    BY <2>1, <2>2, <2>3 DEF Counts
  <2> QED BY <2>1, <2>4, LoadAdjusted
<1>9. ASSUME NEW p \in Pipes, RemoveFromBusyPipeList(p) PROVE LoadInv'
  BY <1>0, <1>9, LoadFrame DEF RemoveFromBusyPipeList
<1>10. ASSUME NEW p \in Pipes, AbortNotify(p) PROVE LoadInv'
  BY <1>0, <1>10, LoadFrame DEF AbortNotify
<1>11. ASSUME NEW p \in Pipes, ClosePipe(p) PROVE LoadInv'
  BY <1>0, <1>11, LoadFrame DEF ClosePipe
<1>12. ASSUME NEW p \in Pipes, CloseCheck(p) PROVE LoadInv'
  BY <1>0, <1>12, LoadFrame DEF CloseCheck
<1>13. ASSUME NEW p \in Pipes, CloseAbort(p) PROVE LoadInv'
  <2>1. target[p] \in Transfers /\ cpc[p] = "closeAbort"
    BY <1>13 DEF CloseAbort, ControlInv, TargetInv, Targeting
  <2>2. CASE AbortQueued(p, target[p]) \/ AbortCurrent(p, target[p])
    BY <1>6, <1>7, <2>1, <2>2
  <2>3. CASE ~(AbortQueued(p, target[p]) \/ AbortCurrent(p, target[p]))
    BY <1>0, <1>13, <2>3, LoadFrame DEF CloseAbort
  <2> QED BY <2>2, <2>3
<1>14. ASSUME NEW p \in Pipes, CloseUnlink(p) \/ CloseFree(p) PROVE LoadInv'
  BY <1>0, <1>14, LoadFrame DEF CloseUnlink, CloseFree
<1>15. ASSUME NEW p \in Pipes, Controller(p) PROVE LoadInv'
  BY <1>15, LoadFrame DEF Controller, HwFinish, HwStop
<1>16. CASE DoneWait \/ DoneLock \/ DoneUnlock \/ DoneOnEntry \/ DoneNotYet \/ DoneFound \/ DoneJump
           \/ DoneFaulted \/ DoneUnlink
  BY <1>16, LoadFrame DEF DoneWait, DoneLock, DoneUnlock, DoneOnEntry, DoneNotYet, DoneFound, DoneJump, DoneFaulted, JumpsToStatus,
     DoneUnlink
<1>17. CASE DoneNext \/ DoneEmpty
  <2>1. PICK p \in Pipes : Completed(p)
    BY <1>17, DoneCompletes
  <2>2. /\ queue' = [queue EXCEPT ![p] = RemoveAt(@, 1)] /\ cpc' = cpc
        /\ Len(queue[p]) >= 1
        /\ reclamation' = IF Len(queue[p]) > 1 THEN reclamation ELSE reclamation - Load(p)
    BY <1>0, <2>1 DEF Completed
  <2>3. cpc[p] # "abortWait"
    BY <2>1 DEF Completed, ControlInv, LockInv, ClientLocked
  <2>4. /\ queue[p] # << >> /\ \A r \in Pipes \ {p} : queue'[r] = queue[r]
        /\ queue'[p] = << >> <=> Len(queue[p]) = 1
    <3>1. /\ queue[p] # << >>
          /\ Len(queue[p]) = 1 => RemoveAt(queue[p], 1) = << >>
          /\ Len(queue[p]) > 1 => RemoveAt(queue[p], 1) # << >>
      BY <1>0, <2>2, RemoveHeadProps
    <3>2. /\ queue'[p] = RemoveAt(queue[p], 1) /\ \A r \in Pipes \ {p} : queue'[r] = queue[r]
          /\ Len(queue[p]) \in Nat \ {0}
      BY <1>0, <2>2, <3>1
    <3>3. Len(queue[p]) = 1 \/ Len(queue[p]) > 1
      <4>1. PICK n \in Nat \ {0} : n = Len(queue[p])
        BY <3>2
      <4>2. n = 1 \/ n > 1
        OBVIOUS
      <4> QED BY <4>1, <4>2
    <3> QED BY <3>1, <3>2, <3>3
  <2>5. /\ Counts(p) /\ (Counts(p)' <=> Len(queue[p]) > 1)
        /\ \A r \in Pipes \ {p} : Counts(r)' <=> Counts(r)
    <3>1. Len(queue[p]) # 1 <=> Len(queue[p]) > 1
      <4>1. PICK n \in Nat \ {0} : n = Len(queue[p])
        BY <1>0, <2>4
      <4>2. n # 1 <=> n > 1
        OBVIOUS
      <4> QED BY <4>1, <4>2
    <3>2. cpc' = cpc
      BY <2>2
    <3> QED BY <2>3, <2>4, <3>1, <3>2 DEF Counts
  <2> QED BY <2>2, <2>5, LoadAdjusted
<1>18. CASE UNCHANGED vars
  BY <1>18, LoadFrame DEF vars
<1> QED
  <2>1. ASSUME NEW p \in Pipes, NEW x \in Transfers, AbortTransfer(p, x) PROVE LoadInv'
    BY <1>6, <1>7, <2>1 DEF AbortTransfer
  <2> QED BY <1>1, <1>2, <1>3, <1>4, <1>5, <1>8, <1>9, <1>10, <1>11, <1>12, <1>13, <1>14,
     <1>15, <1>16, <1>17, <1>18, <2>1 DEF Next, Client, DoneThread, Quiet

LEMMA LoadInvariant == Spec => []LoadInv
<1>1. Init => LoadInv
  <2> SUFFICES ASSUME Init PROVE LoadInv
    OBVIOUS
  <2>1. Counted = {}
    BY QueueAssumption DEF Init, Counted, Counts
  <2> QED BY <2>1, FS_EmptySet DEF Init, LoadInv
<1>2. ControlInv /\ LoadInv /\ [Next]_vars => LoadInv'
  BY LoadStep
<1> QED BY <1>1, <1>2, ControlInvariant, PTL DEF Spec

(* numReclamationTransfers is the number of reclamation pipes with a          *)
(* transfer, less those just aborted, however the count is raised and lowered *)
(* by clients and the done thread.                                            *)
THEOREM ReclamationLoadExact == Spec => []ReclamationExact
<1>1. LoadInv => ReclamationExact
  BY DEF LoadInv, ReclamationExact, Counted, Counts
<1> QED BY <1>1, LoadInvariant, PTL

-----------------------------------------------------------------------------
(* A queue grows by one transfer where the client's bound allows it, or one   *)
(* transfer leaves it.                                                        *)
LEMMA QueueSteps ==
  ASSUME ControlInv, [Next]_vars
  PROVE  \/ queue' = queue
         \/ \E p \in Pipes : /\ \/ \E x \in Transfers : IssueQueued(p, x)
                                \/ ScheduleTransfer(p)
                             /\ \E x \in Transfers : queue' = [queue EXCEPT ![p] = Append(@, x)]
         \/ \E p \in Pipes : \E k \in 1..Len(queue[p]) :
               queue' = [queue EXCEPT ![p] = RemoveAt(@, k)]
<1> DEFINE Taken(p) == \E k \in 1..Len(queue[p]) : queue' = [queue EXCEPT ![p] = RemoveAt(@, k)]
<1>1. ASSUME NEW p \in Pipes, NEW x \in Transfers, AbortQueued(p, x) PROVE Taken(p)
  BY <1>1, AbortQueuedRemoves
<1>2. ASSUME NEW p \in Pipes, NEW x \in Transfers, AbortTransfer(p, x)
      PROVE  Taken(p) \/ queue' = queue
  BY <1>1, <1>2 DEF AbortTransfer, AbortCurrent
<1>3. ASSUME NEW p \in Pipes, CloseAbort(p) PROVE Taken(p) \/ queue' = queue
  <2>1. target[p] \in Transfers
    BY <1>3 DEF CloseAbort, ControlInv, TargetInv, Targeting
  <2> QED BY <1>1, <1>3, <2>1 DEF CloseAbort, AbortCurrent, queueVars
<1>4. ASSUME NEW p \in Pipes, AbortFinish(p) PROVE Taken(p)
  BY <1>4, AbortFinishRemoves
<1>5. ASSUME DoneNext \/ DoneEmpty PROVE \E p \in Pipes : Taken(p)
  BY <1>5, DoneCompletes DEF Completed
<1>6. ASSUME NEW p \in Pipes, Controller(p) PROVE queue' = queue
  BY <1>6 DEF Controller, HwFinish, HwStop, queueVars
<1>7. ASSUME DoneThread PROVE DoneNext \/ DoneEmpty \/ queue' = queue
  BY <1>7 DEF DoneThread, DoneWait, DoneLock, DoneUnlock, DoneOnEntry, DoneNotYet, DoneFound, DoneJump, DoneFaulted, JumpsToStatus,
     DoneUnlink, queueVars
<1>8. ASSUME NEW p \in Pipes, NEW x \in Transfers, IssueQueued(p, x)
      PROVE  queue' = [queue EXCEPT ![p] = Append(@, x)]
  BY <1>8, IssueQueuedAppends
<1>9. ASSUME NEW p \in Pipes, ScheduleTransfer(p)
      PROVE  \E x \in Transfers : queue' = [queue EXCEPT ![p] = Append(@, x)]
  BY <1>9, ScheduleAppends
<1>10. ASSUME NEW p \in Pipes, Client(p)
       PROVE  \/ queue' = queue \/ Taken(p) \/ ScheduleTransfer(p)
              \/ \E x \in Transfers : IssueQueued(p, x)
  <2>1. ASSUME NEW x \in Transfers, IssueFirst(p, x) PROVE queue' = queue
    BY <2>1 DEF IssueFirst, queueVars
  <2>2. ASSUME \/ OpenPipe(p) \/ ClosePipe(p) \/ ScheduleRefused(p) \/ RemoveFromBusyPipeList(p)
               \/ AbortNotify(p) \/ CloseCheck(p) \/ CloseUnlink(p) \/ CloseFree(p)
        PROVE  queue' = queue
    BY <2>2 DEF OpenPipe, ClosePipe, ScheduleRefused, RemoveFromBusyPipeList, AbortNotify,
       CloseCheck, CloseUnlink, CloseFree, queueVars
  <2> QED BY <1>2, <1>3, <1>4, <1>10, <2>1, <2>2 DEF Client
<1> HIDE DEF Taken
<1>11. \/ queue' = queue \/ \E p \in Pipes : Taken(p)
       \/ \E p \in Pipes : ScheduleTransfer(p) \/ \E x \in Transfers : IssueQueued(p, x)
  BY <1>5, <1>6, <1>7, <1>10 DEF Next, Quiet, vars, queueVars
<1> QED BY <1>8, <1>9, <1>11 DEF Taken

(* The bound on the transfers a client has outstanding is kept.               *)
DepthInv == \A p \in Pipes : Len(queue[p]) <= Depth[p]

LEMMA DepthStep == ControlInv /\ DepthInv /\ [Next]_vars => DepthInv'
<1> SUFFICES ASSUME ControlInv, DepthInv, [Next]_vars PROVE DepthInv'
  OBVIOUS
<1>0. queue \in [Pipes -> Seq(Transfers)] /\ \A p \in Pipes : Depth[p] \in Nat \ {0}
  BY QueueAssumption DEF ControlInv, Types
<1>1. CASE queue' = queue
  BY <1>1 DEF DepthInv
<1>2. ASSUME NEW p \in Pipes, NEW x \in Transfers, queue' = [queue EXCEPT ![p] = Append(@, x)],
             ScheduleTransfer(p) \/ \E y \in Transfers : IssueQueued(p, y)
      PROVE  DepthInv'
  <2>1. PICK n \in Nat : n = Len(queue[p])
    BY <1>0, LenProperties
  <2>2. PICK d \in Nat \ {0} : d = Depth[p]
    BY <1>0
  <2>3. CASE ScheduleTransfer(p)
    <3>1. n = 0
      BY <2>1, <2>3, ScheduleAppends
    <3>2. Len(queue'[p]) = n + 1
      BY <1>0, <1>2, <2>1, AppendProperties
    <3>3. Len(queue'[p]) <= d
      <4>1. n = 0 => n + 1 <= d
        OBVIOUS
      <4> QED BY <3>1, <3>2, <4>1
    <3> QED BY <1>2, <2>2, <3>3 DEF DepthInv
  <2>4. CASE \E y \in Transfers : IssueQueued(p, y)
    <3>1. n < d
      BY <2>1, <2>2, <2>4 DEF IssueQueued
    <3>2. Len(queue'[p]) = n + 1 /\ n + 1 <= d
      BY <1>0, <1>2, <2>1, <3>1, AppendProperties
    <3> QED BY <1>2, <2>2, <3>2 DEF DepthInv
  <2> QED BY <1>2, <2>3, <2>4
<1>3. ASSUME NEW p \in Pipes, NEW k \in 1..Len(queue[p]),
             queue' = [queue EXCEPT ![p] = RemoveAt(@, k)]
      PROVE  DepthInv'
  <2>1. PICK n \in Nat : n = Len(queue[p])
    BY <1>0, LenProperties
  <2>2. PICK d \in Nat : d = Depth[p]
    BY <1>0
  <2>3. Len(queue'[p]) = n - 1 /\ n <= d
    BY <1>0, <1>3, <2>1, <2>2, RemoveAtProps DEF DepthInv
  <2>4. n - 1 <= d
    BY <2>3
  <2> QED BY <1>3, <2>2, <2>3, <2>4 DEF DepthInv
<1> QED BY <1>1, <1>2, <1>3, QueueSteps

-----------------------------------------------------------------------------
(* Where a pipe is in its life.  ClosePipe leaves its loop when it finds no   *)
(* transfer in progress; but the flag is also down while the done thread      *)
(* calls a completion routine, and goes up again when another transfer is     *)
(* behind it.  With one transfer at a time there is none.                     *)
CloseInv ==
  \A p \in Pipes :
    /\ cpc[p] # "idle" => object[p] = "open"
    /\ cpc[p] \in {"closeCheck", "closeAbort", "closeLock", "closeWait"} => closing[p]
    /\ closing[p] => p \in Closable
    /\ Depth[p] = 1 /\ cpc[p] \in {"closeLock", "closeWait"} => ~inProgress[p]

LEMMA CloseStep == ControlInv /\ DepthInv /\ CloseInv /\ [Next]_vars => CloseInv'
<1> SUFFICES ASSUME ControlInv, DepthInv, CloseInv, [Next]_vars PROVE CloseInv'
  OBVIOUS
<1>0. /\ cpc \in [Pipes -> ClientStates] /\ inProgress \in [Pipes -> BOOLEAN]
      /\ object \in [Pipes -> {"absent", "open", "deleted"}] /\ closing \in [Pipes -> BOOLEAN]
  BY DEF ControlInv, Types
<1> USE DEF queueVars, listVars, clientVars, doneVars, Idle, CloseInv
<1>1. ASSUME NEW p \in Pipes, OpenPipe(p) PROVE CloseInv'
  BY <1>0, <1>1 DEF OpenPipe
<1>2. ASSUME NEW p \in Pipes, NEW x \in Transfers, IssueQueued(p, x) \/ IssueFirst(p, x)
      PROVE  CloseInv'
  BY <1>0, <1>2 DEF IssueQueued, IssueFirst
<1>3. ASSUME NEW p \in Pipes, ScheduleTransfer(p) \/ ScheduleRefused(p) PROVE CloseInv'
  BY <1>0, <1>3 DEF ScheduleTransfer, ScheduleRefused
<1>4. ASSUME NEW p \in Pipes, NEW x \in Transfers, object[p] = "open",
             AbortQueued(p, x) \/ AbortCurrent(p, x)
      PROVE  CloseInv'
  BY <1>0, <1>4 DEF AbortQueued, AbortCurrent
<1>5. ASSUME NEW p \in Pipes, AbortFinish(p) PROVE CloseInv'
  BY <1>0, <1>5 DEF AbortFinish
<1>6. ASSUME NEW p \in Pipes, RemoveFromBusyPipeList(p) PROVE CloseInv'
  BY <1>0, <1>6 DEF RemoveFromBusyPipeList
<1>7. ASSUME NEW p \in Pipes, AbortNotify(p) PROVE CloseInv'
  BY <1>0, <1>7 DEF AbortNotify
<1>8. ASSUME NEW p \in Pipes, ClosePipe(p) PROVE CloseInv'
  BY <1>0, <1>8 DEF ClosePipe
<1>9. ASSUME NEW p \in Pipes, CloseCheck(p) PROVE CloseInv'
  BY <1>0, <1>9 DEF CloseCheck
<1>10. ASSUME NEW p \in Pipes, CloseAbort(p) PROVE CloseInv'
  <2>1. target[p] \in Transfers /\ object[p] = "open"
    BY <1>10 DEF CloseAbort, ControlInv, TargetInv, Targeting
  <2>2. CASE AbortQueued(p, target[p]) \/ AbortCurrent(p, target[p])
    BY <1>4, <2>1, <2>2
  <2>3. CASE ~(AbortQueued(p, target[p]) \/ AbortCurrent(p, target[p]))
    BY <1>0, <1>10, <2>3 DEF CloseAbort
  <2> QED BY <2>2, <2>3
<1>11. ASSUME NEW p \in Pipes, CloseUnlink(p) PROVE CloseInv'
  BY <1>0, <1>11 DEF CloseUnlink
<1>12. ASSUME NEW p \in Pipes, CloseFree(p) PROVE CloseInv'
  BY <1>0, <1>12 DEF CloseFree
<1>13. ASSUME NEW p \in Pipes, Controller(p) PROVE CloseInv'
  BY <1>13 DEF Controller, HwFinish, HwStop
<1>14. CASE DoneWait \/ DoneLock \/ DoneUnlock \/ DoneOnEntry \/ DoneNotYet \/ DoneUnlink
  BY <1>14 DEF DoneWait, DoneLock, DoneUnlock, DoneOnEntry, DoneNotYet, DoneUnlink
<1>15. CASE DoneFound \/ DoneJump \/ DoneFaulted
  <2>1. \A r \in Pipes : inProgress'[r] => inProgress[r]
    BY <1>0, <1>15 DEF DoneFound, DoneJump, DoneFaulted
  <2> QED BY <1>15, <2>1 DEF DoneFound, DoneJump, DoneFaulted
<1>16. CASE DoneNext \/ DoneEmpty
  <2>1. PICK p \in Pipes : Completed(p)
    BY <1>16, DoneCompletes
  <2>2. Depth[p] = 1 => inProgress' = inProgress
    <3>1. Len(queue[p]) \in Nat /\ Len(queue[p]) <= Depth[p]
      BY LenProperties DEF ControlInv, Types, DepthInv
    <3>2. Depth[p] = 1 => ~(Len(queue[p]) > 1)
      <4>1. PICK n \in Nat : n = Len(queue[p])
        BY <3>1
      <4>2. n <= 1 => ~(n > 1)
        OBVIOUS
      <4> QED BY <3>1, <4>1, <4>2
    <3> QED BY <2>1, <3>2 DEF Completed
  <2>3. UNCHANGED <<object, clientVars>> /\ \A r \in Pipes \ {p} : inProgress'[r] = inProgress[r]
    <3>1. \/ inProgress' = inProgress
          \/ inProgress' = [inProgress EXCEPT ![p] = TRUE]
      BY <2>1 DEF Completed
    <3>2. UNCHANGED <<object, clientVars>>
      BY <2>1 DEF Completed
    <3> QED BY <1>0, <3>1, <3>2
  <2> QED BY <2>2, <2>3
<1>17. CASE UNCHANGED vars
  BY <1>17 DEF vars
<1> QED
  <2>1. ASSUME NEW p \in Pipes, NEW x \in Transfers, AbortTransfer(p, x) PROVE CloseInv'
    BY <1>4, <2>1 DEF AbortTransfer
  <2> QED BY <1>1, <1>2, <1>3, <1>5, <1>6, <1>7, <1>8, <1>9, <1>10, <1>11, <1>12, <1>13,
     <1>14, <1>15, <1>16, <1>17, <2>1 DEF Next, Client, DoneThread, Quiet

(* ClosePipe of a client that never has two transfers outstanding finds the   *)
(* pipe idle, as the assertion of ClosePipe says (cpipe.cpp:1565); a client   *)
(* that queues transfers may find another one in progress.                    *)
THEOREM CloseInvariant == Spec => [](DepthInv /\ CloseInv)
<1>1. Init => DepthInv /\ CloseInv
  <2> SUFFICES ASSUME Init PROVE DepthInv /\ CloseInv
    OBVIOUS
  <2>1. \A p \in Pipes : Len(queue[p]) = 0 /\ Depth[p] \in Nat
    BY QueueAssumption DEF Init
  <2> QED BY <2>1 DEF Init, DepthInv, CloseInv
<1>2. ControlInv /\ DepthInv /\ CloseInv /\ [Next]_vars => (DepthInv /\ CloseInv)'
  BY DepthStep, CloseStep
<1> QED BY <1>1, <1>2, ControlInvariant, PTL DEF Spec
-----------------------------------------------------------------------------
(* The refinement of TransferService.  What the service sees of a state.      *)
Cancelled     == [p \in Pipes |-> IF cpc[p] \in {"remove", "notify"} THEN {target[p]} ELSE {}]
NotifiedSet   == {x \in Transfers : notified[x] > 0}
Deleted       == {p \in Pipes : object[p] = "deleted"}

(* The service's instances of the sequence operators are the same operators.  *)
LEMMA SameOperators ==
  /\ \A s : Service!ToSet(s) = ToSet(s)
  /\ \A s, k : Service!RemoveAt(s, k) = RemoveAt(s, k)
BY DEF Service!ToSet, ToSet, Service!RemoveAt, RemoveAt

(* A call that notifies a transfer adds it to those notified.                 *)
LEMMA NotifiedMore ==
  ASSUME ControlInv, NEW x \in Transfers, notified' = [notified EXCEPT ![x] = @ + 1]
  PROVE  NotifiedSet' = NotifiedSet \cup {x}
<1>1. \A y \in Transfers : notified[y] \in Nat /\ notified'[y] = IF y = x THEN notified[x] + 1
                                                                         ELSE notified[y]
  BY DEF ControlInv, Types
<1>2. \A n \in Nat : n + 1 > 0
  OBVIOUS
<1> QED BY <1>1, <1>2 DEF NotifiedSet

(* A transfer a client is about to take in is unknown to the service.         *)
LEMMA NotKnown ==
  ASSUME ControlInv, NEW x \in Transfers, notified[x] = 0,
         \A r \in Pipes : /\ x \notin ToSet(queue[r])
                          /\ cpc[r] \in {"remove", "notify"} => target[r] # x
  PROVE  x \notin Service!Known
<1>1. x \notin NotifiedSet
  BY DEF NotifiedSet
<1>2. \A r \in Pipes : x \notin ToSet(queue[r]) /\ x \notin Cancelled[r]
  BY DEF Cancelled
<1>3. x \notin NotifiedSet \cup UNION {ToSet(queue[r]) \cup Cancelled[r] : r \in Pipes}
  BY <1>1, <1>2
<1>4. Service!Known = NotifiedSet \cup UNION {ToSet(queue[r]) \cup Cancelled[r] : r \in Pipes}
  BY SameOperators, Zenon DEF Service!Known, NotifiedSet, Cancelled
<1> QED BY <1>3, <1>4

(* A client that hands a transfer to a pipe has the service accept it.        *)
LEMMA ServiceAccepts ==
  ASSUME ControlInv, NEW p \in Pipes, NEW x \in Transfers, notified[x] = 0,
         \A r \in Pipes : /\ x \notin ToSet(queue[r])
                          /\ cpc[r] \in {"remove", "notify"} => target[r] # x,
         object[p] = "open", queue' = [queue EXCEPT ![p] = Append(@, x)],
         UNCHANGED <<Cancelled, notified, object>>
  PROVE  Service!Accept(p, x)
<1>1. x \notin Service!Known
  BY NotKnown
<1>2. p \notin Deleted /\ UNCHANGED <<Cancelled, NotifiedSet, Deleted>>
  BY DEF Deleted, NotifiedSet
<1> QED BY <1>1, <1>2 DEF Service!Accept, Cancelled, NotifiedSet, Deleted

(* Taking a transfer out of a queue cancels it.                               *)
LEMMA ServiceCancels ==
  ASSUME ControlInv, NEW p \in Pipes, NEW k \in 1..Len(queue[p]),
         queue' = [queue EXCEPT ![p] = RemoveAt(@, k)],
         cpc[p] \notin {"remove", "notify"}, cpc'[p] \in {"remove", "notify"},
         target'[p] = queue[p][k],
         \A r \in Pipes \ {p} : cpc'[r] = cpc[r] /\ target'[r] = target[r],
         UNCHANGED <<notified, object>>
  PROVE  \E j \in DOMAIN queue[p] : Service!Cancel(p, j)
<1>1. DOMAIN queue[p] = 1..Len(queue[p])
  BY LenProperties DEF ControlInv, Types
<1>2. Cancelled' = [Cancelled EXCEPT ![p] = @ \cup {queue[p][k]}]
  BY DEF Cancelled
<1>3. UNCHANGED <<NotifiedSet, Deleted>>
  BY DEF Deleted, NotifiedSet
<1>4. Service!Cancel(p, k)
  BY <1>1, <1>2, <1>3, SameOperators DEF Service!Cancel, Cancelled, NotifiedSet, Deleted
<1> QED BY <1>1, <1>4

(* A completion finishes the transfer at the head.                            *)
LEMMA ServiceFinishes ==
  ASSUME ControlInv, NEW p \in Pipes, Completed(p)
  PROVE  Service!Finish(p)
<1>1. /\ queue[p] \in Seq(Transfers) /\ 1 \in 1..Len(queue[p]) /\ queue[p][1] \in Transfers
      /\ queue' = [queue EXCEPT ![p] = RemoveAt(@, 1)]
      /\ notified' = [notified EXCEPT ![queue[p][1]] = @ + 1]
      /\ UNCHANGED <<object, clientVars>>
  BY DEF Completed, ControlInv, Types
<1>2. queue[p] # << >> /\ Head(queue[p]) = queue[p][1] /\ RemoveAt(queue[p], 1) = Tail(queue[p])
  <2>1. queue[p] # << >>
    BY <1>1, EmptySeq
  <2> QED BY <1>1, <2>1, RemoveHeadProps, RemoveHeadIsTail
<1>3. NotifiedSet' = NotifiedSet \cup {Head(queue[p])}
  BY <1>1, <1>2, NotifiedMore
<1>4. UNCHANGED <<Cancelled, Deleted>>
  BY <1>1 DEF Cancelled, Deleted, clientVars
<1>5. queue' = [queue EXCEPT ![p] = Tail(@)]
  BY <1>1, <1>2
<1> QED BY <1>2, <1>3, <1>4, <1>5 DEF Service!Finish, Cancelled, NotifiedSet, Deleted

(* The notification of an aborted transfer.                                   *)
LEMMA ServiceNotifies ==
  ASSUME ControlInv, NEW p \in Pipes, AbortNotify(p)
  PROVE  \E x \in Transfers : Service!NotifyCancelled(p, x)
<1>1. target[p] \in Transfers /\ cpc[p] = "notify"
  BY DEF AbortNotify, ControlInv, TargetInv, Targeting
<1>x. PICK x \in Transfers : x = target[p]
  BY <1>1
<1>2. /\ notified' = [notified EXCEPT ![x] = @ + 1] /\ cpc'[p] \notin {"remove", "notify"}
      /\ \A r \in Pipes \ {p} : cpc'[r] = cpc[r] /\ target'[r] = target[r]
      /\ UNCHANGED <<queue, object>>
  BY <1>x DEF AbortNotify, ControlInv, Types, queueVars
<1>3. NotifiedSet' = NotifiedSet \cup {x}
  BY <1>1, <1>2, NotifiedMore
<1>4. /\ x \in Cancelled[p]
      /\ Cancelled' = [Cancelled EXCEPT ![p] = @ \ {x}]
      /\ Deleted' = Deleted
  BY <1>1, <1>x, <1>2 DEF Cancelled, Deleted
<1>5. Service!NotifyCancelled(p, x)
  BY <1>2, <1>3, <1>4 DEF Service!NotifyCancelled, Cancelled, NotifiedSet, Deleted
<1> QED BY <1>5

(* A pipe without a transfer in progress is closed as the service allows.     *)
LEMMA ServiceCloses ==
  ASSUME ControlInv, NEW p \in Pipes, CloseFree(p), ~inProgress[p]
  PROVE  Service!Close(p)
<1>1. pipeLock[p] = "client" /\ cpc[p] = "closeWait"
  BY DEF CloseFree, ControlInv, LockInv, ClientLocked
<1>2. queue[p] = << >>
  BY <1>1 DEF ControlInv, QueueInv
<1>3. /\ Cancelled[p] = {} /\ Cancelled' = Cancelled
      /\ Deleted' = Deleted \cup {p}
  BY <1>1 DEF Cancelled, Deleted, CloseFree, ControlInv, Types
<1>4. UNCHANGED <<queue, NotifiedSet>>
  BY DEF CloseFree, NotifiedSet
<1> QED BY <1>2, <1>3, <1>4 DEF Service!Close, Cancelled, NotifiedSet, Deleted

(* Steps the service does not see.                                            *)
LEMMA ServiceStutters ==
  ASSUME ControlInv, UNCHANGED <<queue, notified, object, target>>,
         \A r \in Pipes : cpc'[r] \in {"remove", "notify"} <=> cpc[r] \in {"remove", "notify"}
  PROVE  UNCHANGED Service!svars
<1>1. UNCHANGED <<Cancelled, NotifiedSet, Deleted>>
  BY DEF Cancelled, NotifiedSet, Deleted
<1> QED BY <1>1 DEF Service!svars, Cancelled, NotifiedSet, Deleted
(* Every step but the last one of ClosePipe is a step of the service, or one  *)
(* the service does not see, whatever the clients have outstanding.           *)
LEMMA ServiceStep ==
  ASSUME ControlInv, UniqueInv, CloseInv, [Next]_vars
  PROVE  \/ Service!SNext
         \/ UNCHANGED Service!svars
         \/ \E p \in Pipes : CloseFree(p)
<1> DEFINE Seen == Service!SNext \/ UNCHANGED Service!svars
<1>0. cpc \in [Pipes -> ClientStates]
  BY DEF ControlInv, Types
<1> USE DEF queueVars, listVars, clientVars, doneVars, Idle
<1>1. ASSUME NEW p \in Pipes, NEW x \in Transfers, IssueQueued(p, x) PROVE Seen
  <2>1. /\ queue' = [queue EXCEPT ![p] = Append(@, x)] /\ object[p] = "open"
        /\ UNCHANGED <<cpc, target, notified, object>>
    BY <1>1, IssueQueuedAppends DEF IssueQueued
  <2>2. notified[x] = 0 /\ \A r \in Pipes : target[r] # x /\ x \notin ToSet(queue[r])
    BY <1>1 DEF IssueQueued, Issued, ControlInv, Types
  <2>3. Cancelled' = Cancelled
    BY <2>1 DEF Cancelled
  <2>4. Service!Accept(p, x)
    BY <2>1, <2>2, <2>3, ServiceAccepts
  <2> QED BY <2>4 DEF Service!SNext
<1>2. ASSUME NEW p \in Pipes, ScheduleTransfer(p) PROVE Seen
  <2>1. /\ target[p] \in Transfers /\ cpc[p] = "adding"
        /\ queue' = [queue EXCEPT ![p] = Append(@, target[p])]
        /\ UNCHANGED <<notified, object>>
    BY <1>2, ScheduleAppends DEF ScheduleTransfer
  <2>2. target[p] # None /\ object[p] = "open"
    BY <2>1, QueueAssumption DEF CloseInv
  <2>3. /\ notified[target[p]] = 0
        /\ \A r \in Pipes : /\ target[p] \notin ToSet(queue[r])
                            /\ cpc[r] \in {"remove", "notify"} => target[r] # target[p]
    BY <2>1, <2>2 DEF UniqueInv, Loose
  <2>4. Cancelled' = Cancelled
    BY <1>0, <1>2 DEF ScheduleTransfer, Cancelled, ControlInv, Types
  <2>5. Service!Accept(p, target[p])
    BY <2>1, <2>2, <2>3, <2>4, ServiceAccepts
  <2> QED BY <2>1, <2>5 DEF Service!SNext
<1>3. ASSUME NEW p \in Pipes, NEW x \in Transfers, AbortQueued(p, x),
             cpc[p] \notin {"remove", "notify"}
      PROVE  Seen
  <2>1. PICK k \in 1..Len(queue[p]) : /\ queue[p][k] = x
                                      /\ queue' = [queue EXCEPT ![p] = RemoveAt(@, k)]
    BY <1>3, AbortQueuedRemoves
  <2>2. /\ cpc'[p] \in {"remove", "notify"} /\ target'[p] = x
        /\ \A r \in Pipes \ {p} : cpc'[r] = cpc[r] /\ target'[r] = target[r]
        /\ UNCHANGED <<notified, object>>
    BY <1>3 DEF AbortQueued, ControlInv, Types
  <2>3. \E j \in DOMAIN queue[p] : Service!Cancel(p, j)
    BY <1>3, <2>1, <2>2, ServiceCancels
  <2> QED BY <2>3 DEF Service!SNext
<1>4. ASSUME NEW p \in Pipes, NEW x \in Transfers, AbortCurrent(p, x),
             cpc[p] \notin {"remove", "notify"}
      PROVE  Seen
  <2>1. Cancelled' = Cancelled
    BY <1>4 DEF AbortCurrent, Cancelled, ControlInv, Types
  <2>2. UNCHANGED <<queue, notified, object>>
    BY <1>4 DEF AbortCurrent
  <2>3. UNCHANGED <<NotifiedSet, Deleted>>
    BY <2>2 DEF NotifiedSet, Deleted
  <2> QED BY <2>1, <2>2, <2>3 DEF Service!svars, Cancelled, NotifiedSet, Deleted
<1>5. ASSUME NEW p \in Pipes, AbortFinish(p) PROVE Seen
  <2>1. /\ 1 \in 1..Len(queue[p]) /\ target[p] = queue[p][1]
        /\ queue' = [queue EXCEPT ![p] = RemoveAt(@, 1)]
    BY <1>5, AbortFinishRemoves
  <2>2. /\ cpc[p] \notin {"remove", "notify"} /\ cpc'[p] \in {"remove", "notify"}
        /\ target' = target /\ \A r \in Pipes \ {p} : cpc'[r] = cpc[r]
        /\ UNCHANGED <<notified, object>>
    BY <1>0, <1>5 DEF AbortFinish
  <2>3. \E j \in DOMAIN queue[p] : Service!Cancel(p, j)
    BY <2>1, <2>2, ServiceCancels
  <2> QED BY <2>3 DEF Service!SNext
<1>6. ASSUME NEW p \in Pipes, AbortNotify(p) PROVE Seen
  BY <1>6, ServiceNotifies DEF Service!SNext
<1>7. ASSUME DoneNext \/ DoneEmpty PROVE Seen
  BY <1>7, DoneCompletes, ServiceFinishes DEF Service!SNext
<1>8. ASSUME NEW p \in Pipes, OpenPipe(p) PROVE Seen
  <2>1. UNCHANGED <<queue, Cancelled, NotifiedSet, Deleted>>
    BY <1>8 DEF OpenPipe, Cancelled, NotifiedSet, Deleted, ControlInv, Types
  <2> QED BY <2>1 DEF Service!svars, Cancelled, NotifiedSet, Deleted
<1>9. ASSUME NEW p \in Pipes, NEW x \in Transfers, IssueFirst(p, x) PROVE Seen
  <2>1. UNCHANGED <<queue, Cancelled, NotifiedSet, Deleted>>
    BY <1>9 DEF IssueFirst, Cancelled, NotifiedSet, Deleted, ControlInv, Types
  <2> QED BY <2>1 DEF Service!svars, Cancelled, NotifiedSet, Deleted
<1>10. ASSUME NEW p \in Pipes, ScheduleRefused(p) PROVE Seen
  <2>1. UNCHANGED <<queue, Cancelled, NotifiedSet, Deleted>>
    BY <1>10 DEF ScheduleRefused, Cancelled, NotifiedSet, Deleted, ControlInv, Types
  <2> QED BY <2>1 DEF Service!svars, Cancelled, NotifiedSet, Deleted
<1>11. ASSUME NEW p \in Pipes,
              RemoveFromBusyPipeList(p) \/ ClosePipe(p) \/ CloseUnlink(p)
       PROVE  Seen
  <2>1. UNCHANGED <<queue, notified, object, target>>
    BY <1>11 DEF RemoveFromBusyPipeList, ClosePipe, CloseUnlink
  <2>2. \A r \in Pipes : cpc'[r] \in {"remove", "notify"} <=> cpc[r] \in {"remove", "notify"}
    BY <1>0, <1>11 DEF RemoveFromBusyPipeList, ClosePipe, CloseUnlink
  <2> QED BY <2>1, <2>2, ServiceStutters
<1>12. ASSUME NEW p \in Pipes, CloseCheck(p) PROVE Seen
  <2>1. UNCHANGED <<queue, Cancelled, NotifiedSet, Deleted>>
    BY <1>12 DEF CloseCheck, Cancelled, NotifiedSet, Deleted, ControlInv, Types
  <2> QED BY <2>1 DEF Service!svars, Cancelled, NotifiedSet, Deleted
<1>13. ASSUME NEW p \in Pipes, CloseAbort(p) PROVE Seen
  <2>1. target[p] \in Transfers /\ cpc[p] \notin {"remove", "notify"}
    BY <1>13 DEF CloseAbort, ControlInv, TargetInv, Targeting
  <2>2. CASE AbortQueued(p, target[p]) \/ AbortCurrent(p, target[p])
    BY <1>3, <1>4, <2>1, <2>2
  <2>3. CASE ~(AbortQueued(p, target[p]) \/ AbortCurrent(p, target[p]))
    <3>1. /\ UNCHANGED <<queue, notified, object>> /\ cpc[p] = "closeAbort"
          /\ cpc' = [cpc EXCEPT ![p] = "closeCheck"]
          /\ target' = [target EXCEPT ![p] = None]
      BY <1>13, <2>3 DEF CloseAbort
    <3>2. UNCHANGED <<queue, Cancelled, NotifiedSet, Deleted>>
      BY <3>1 DEF Cancelled, NotifiedSet, Deleted, ControlInv, Types
    <3> QED BY <3>2 DEF Service!svars, Cancelled, NotifiedSet, Deleted
  <2> QED BY <2>2, <2>3
<1>14. ASSUME NEW p \in Pipes, Controller(p) PROVE Seen
  BY <1>14, ServiceStutters DEF Controller, HwFinish, HwStop
<1>15. ASSUME \/ DoneWait \/ DoneLock \/ DoneUnlock \/ DoneOnEntry \/ DoneNotYet \/ DoneFound
              \/ DoneJump \/ DoneFaulted \/ DoneUnlink
       PROVE  Seen
  BY <1>15, ServiceStutters DEF DoneWait, DoneLock, DoneUnlock, DoneOnEntry, DoneNotYet,
     DoneFound, DoneJump, DoneFaulted, JumpsToStatus, DoneUnlink
<1>16. ASSUME UNCHANGED vars PROVE Seen
  BY <1>16, ServiceStutters DEF vars
<1>17. ASSUME NEW p \in Pipes, NEW x \in Transfers, AbortTransfer(p, x) PROVE Seen
  BY <1>3, <1>4, <1>17 DEF AbortTransfer
<1>18. ASSUME NEW p \in Pipes, Client(p) PROVE Seen \/ CloseFree(p)
  BY <1>1, <1>2, <1>5, <1>6, <1>8, <1>9, <1>10, <1>11, <1>12, <1>13, <1>17, <1>18 DEF Client
<1>19. ASSUME DoneThread PROVE Seen
  BY <1>7, <1>15, <1>19 DEF DoneThread
<1> HIDE DEF Seen
<1>20. Seen \/ \E p \in Pipes : CloseFree(p)
  BY <1>14, <1>16, <1>18, <1>19 DEF Next, Quiet
<1> QED BY <1>20 DEF Seen

(* A pipe of a client that closes it with at most one transfer outstanding    *)
(* keeps the promises of TransferService: in order, cancelled at any time,    *)
(* each transfer notified once, closed only when empty.  For a pipe closed    *)
(* with more outstanding the last promise fails (see CloseFindsPipeIdle), and *)
(* only that one: by ServiceStep every other step is a step of the service.   *)
THEOREM ServiceImplemented ==
  ASSUME \A p \in Closable : Depth[p] = 1
  PROVE  Spec => ImplementsService
<1>1. Init => Service!SInit
  <2> SUFFICES ASSUME Init PROVE Service!SInit
    OBVIOUS
  <2>1. /\ queue = [p \in Pipes |-> << >>] /\ Cancelled = [p \in Pipes |-> {}]
        /\ NotifiedSet = {} /\ Deleted = {}
    BY DEF Init, Cancelled, NotifiedSet, Deleted
  <2> QED BY <2>1 DEF Service!SInit, Cancelled, NotifiedSet, Deleted
<1>2. ControlInv /\ UniqueInv /\ CloseInv /\ [Next]_vars => [Service!SNext]_Service!svars
  <2> SUFFICES ASSUME ControlInv, UniqueInv, CloseInv, [Next]_vars
               PROVE  Service!SNext \/ UNCHANGED Service!svars
    OBVIOUS
  <2>1. ASSUME NEW p \in Pipes, CloseFree(p) PROVE Service!SNext
    <3>1. ~inProgress[p]
      BY <2>1 DEF CloseFree, CloseInv
    <3>2. Service!Close(p)
      BY <2>1, <3>1, ServiceCloses
    <3> QED BY <3>2 DEF Service!SNext
  <2> QED BY <2>1, ServiceStep
<1> QED BY <1>1, <1>2, ControlInvariant, UniqueInvariant, CloseInvariant, PTL
        DEF Spec, ImplementsService, Service!ServiceSpec
-----------------------------------------------------------------------------
(* Every variable keeps its type, and numReclamationTransfers, an unsigned    *)
(* counter, is never decremented below zero.                                  *)
THEOREM TypesCorrect == Spec => []TypeOK
<1>1. ControlInv /\ LoadInv => TypeOK
  BY FS_CardinalityType DEF ControlInv, LoadInv, TypeOK
<1> QED BY <1>1, ControlInvariant, LoadInvariant, PTL

(* The done thread does not follow the busy list to a pipe that was deleted,  *)
(* when a pipe is closed with at most one transfer outstanding: a pipe with a *)
(* transfer queued is open, and the element of a pipe without one is looked   *)
(* at by nobody but the one who is about to unlink it.                        *)
THEOREM BusyPipesAlive ==
  ASSUME \A p \in Closable : Depth[p] = 1
  PROVE  Spec => []NoDanglingPipe
<1> DEFINE OpenInv == \A p \in Pipes : queue[p] # << >> => object[p] = "open"
<1>1. Init => OpenInv
  BY DEF Init
<1>2. ControlInv /\ CloseInv /\ OpenInv /\ [Next]_vars => OpenInv'
  <2> SUFFICES ASSUME ControlInv, CloseInv, OpenInv, [Next]_vars PROVE OpenInv'
    OBVIOUS
  <2>1. \A p \in Pipes : object[p] = "open" /\ queue[p] # << >> => object'[p] = "open"
    <3>1. ASSUME NEW p \in Pipes, CloseFree(p) PROVE queue[p] = << >>
      BY <3>1 DEF CloseFree, CloseInv, ControlInv, LockInv, QueueInv, ClientLocked
    <3>2. \/ object' = object
          \/ \E p \in Pipes : CloseFree(p) \/ OpenPipe(p)
      <4>1. ASSUME NEW p \in Pipes, Client(p)
            PROVE  CloseFree(p) \/ OpenPipe(p) \/ object' = object
        BY <4>1 DEF Client, ClosePipe, IssueQueued, IssueFirst, AbortTransfer, AbortQueued,
           AbortCurrent, ScheduleTransfer, ScheduleRefused, AbortFinish,
           RemoveFromBusyPipeList, AbortNotify, CloseCheck, CloseAbort, CloseUnlink
      <4>2. ASSUME NEW p \in Pipes, Controller(p) PROVE object' = object
        BY <4>2 DEF Controller, HwFinish, HwStop
      <4>3. ASSUME DoneThread PROVE object' = object
        BY <4>3 DEF DoneThread, DoneWait, DoneLock, DoneUnlock, DoneOnEntry, DoneNotYet,
           DoneFound, DoneJump, DoneFaulted, JumpsToStatus, DoneNext, DoneEmpty, DoneUnlink
      <4> QED BY <4>1, <4>2, <4>3 DEF Next, Quiet, vars
    <3>3. ASSUME NEW p \in Pipes, CloseFree(p) \/ OpenPipe(p)
          PROVE  \A r \in Pipes \ {p} : object'[r] = object[r]
      BY <3>3 DEF CloseFree, OpenPipe, ControlInv, Types
    <3>4. ASSUME NEW p \in Pipes, OpenPipe(p) PROVE object[p] # "open"
      BY <3>4 DEF OpenPipe
    <3> QED BY <3>1, <3>2, <3>3, <3>4
  <2>2. \A p \in Pipes : queue[p] = << >> /\ queue'[p] # << >> =>
           object[p] = "open" /\ object' = object
    <3>1. ASSUME NEW p \in Pipes, NEW x \in Transfers, IssueQueued(p, x)
          PROVE  object[p] = "open" /\ object' = object
      BY <3>1 DEF IssueQueued, Idle
    <3>2. ASSUME NEW p \in Pipes, ScheduleTransfer(p)
          PROVE  object[p] = "open" /\ object' = object
      BY <3>2 DEF ScheduleTransfer, CloseInv
    <3>3. ASSUME NEW p \in Pipes, NEW k \in 1..Len(queue[p]),
                 queue' = [queue EXCEPT ![p] = RemoveAt(@, k)]
          PROVE  queue[p] # << >> /\ \A r \in Pipes \ {p} : queue'[r] = queue[r]
      <4>1. Len(<< >>) = 0 /\ ~(k \in 1..0)
        BY EmptySeq
      <4> QED BY <3>3, <4>1 DEF ControlInv, Types
    <3>4. ASSUME NEW p \in Pipes, NEW x \in Transfers,
                 queue' = [queue EXCEPT ![p] = Append(@, x)]
          PROVE  \A r \in Pipes \ {p} : queue'[r] = queue[r]
      BY <3>4 DEF ControlInv, Types
    <3> QED BY <3>1, <3>2, <3>3, <3>4, QueueSteps
  <2> QED BY <2>1, <2>2
<1>3. ControlInv /\ BusyInv /\ CloseInv /\ OpenInv => NoDanglingPipe
  <2> SUFFICES ASSUME ControlInv, BusyInv, CloseInv, OpenInv, NEW i \in 1..Len(busyList)
               PROVE  object[busyList[i]] = "open" \/ (dpc = "unlink" /\ i = cursor)
    BY DEF NoDanglingPipe
  <2>1. PICK p \in Pipes : p = busyList[i]
    BY ElementOfSeq DEF ControlInv, Types
  <2>2. CASE inProgress[p]
    BY <2>1, <2>2 DEF ControlInv, QueueInv
  <2>3. CASE cpc[p] = "remove"
    BY <2>1, <2>3 DEF CloseInv
  <2>4. CASE dpc \in {"callback", "unlink"} /\ i = cursor
    <3>1. dpc = "callback" => pipeLock[p] = "done"
      BY <2>1, <2>4 DEF ControlInv, LockInv, Current
    <3> QED BY <2>1, <2>4, <3>1 DEF ControlInv, QueueInv
  <2> QED BY <2>1, <2>2, <2>3, <2>4 DEF BusyInv
<1> QED BY <1>1, <1>2, <1>3, ControlInvariant, BusyInvariant, CloseInvariant, PTL DEF Spec
=============================================================================
