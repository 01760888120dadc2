------------------------------ MODULE PipeQueue ------------------------------
(***************************************************************************)
(* The transfer queues of CQueuedPipe and the busy pipe list of            *)
(* CUHCIFrame (DRIVERS/HCD/cpipe.cpp).                                     *)
(*                                                                         *)
(* Three kinds of actors interleave.  The client of a pipe opens it,       *)
(* issues and aborts transfers and closes it; CFunction::m_csDeviceLock    *)
(* lets one such call at a time reach a pipe, so there is one client       *)
(* program counter per pipe.  CheckForDoneTransfersThread walks the busy   *)
(* list and completes transfers.  The host controller executes the TDs of  *)
(* the transfer a queue head points to, and stops there on an error or a   *)
(* short packet.                                                           *)
(*                                                                         *)
(* A step ends where a lock is taken or released, where a flag can be read *)
(* without the lock, where the code sleeps for a frame, or where a client  *)
(* routine is called.  Locks only held inside one step are not modelled.   *)
(***************************************************************************)
EXTENDS Integers, SequencesExt, FiniteSets

CONSTANTS Pipes,        \* the queued pipes (bulk, control, interrupt)
          Transfers,    \* identities (lpvCancelId) of the transfers issued
          None,         \* no transfer: QUEUE_ELEMENT_LINK_POINTER_TERMINATE
          Control,      \* the pipes of class CControlPipe
          Reclamation,  \* the pipes with m_fIsReclamationPipe
          Closable,     \* bound: the pipes whose client closes them
          Depth         \* bound: most transfers a client has outstanding on a pipe

ASSUME QueueAssumption == /\ None \notin Transfers
                          /\ Control \subseteq Pipes
                          /\ Reclamation \subseteq Pipes
                          /\ Closable \subseteq Pipes
                          /\ Depth \in [Pipes -> Nat \ {0}]

VARIABLES object,      \* object[p]: has the CPipe been opened, or deleted
          queue,       \* m_transfer and the chain of lpNextTransfer behind it
          last,        \* the node m_pLastTransfer points to, 0 for none or freed
          inProgress,  \* m_fTransferInProgress
          vlink,       \* m_pPipeQH->HW_paVLink, as the transfer it points into
          stopped,     \* transfers the controller stopped in: error or short packet
          stage,       \* where the transfer was that HW_paVLink was last set to: "data" at its
                       \* start, "status" after the jump there, "faulted" when at that jump
                       \* the short data could not be copied to the client
          memory,      \* transfers whose TD list is allocated
          notified,    \* times the completion routine of a transfer was called
          reclamation, \* numReclamationTransfers
          busyList,    \* m_pBusyPipeList
          busyLock,    \* is m_csBusyPipeListLock held by the done thread
          pipeLock,    \* the owner of m_csPipeLock
          event,       \* m_hCheckForDoneTransfersEvent
          cpc, target, closing,  \* client: where it is, which transfer it aborts,
                                 \* and is it inside ClosePipe
          dpc, cursor            \* done thread: where it is, and pCurrent

queueVars  == <<queue, last, inProgress, vlink, reclamation>>
listVars   == <<busyList, busyLock>>
clientVars == <<cpc, target, closing>>
doneVars   == <<dpc, cursor>>
vars == <<object, queueVars, stopped, stage, memory, notified, listVars, pipeLock, event,
          clientVars, doneVars>>

Issued    == {x \in Transfers : \/ notified[x] > 0
                                \/ \E p \in Pipes : \/ target[p] = x
                                                     \/ x \in ToSet(queue[p])}
Idle(p)   == /\ object[p] = "open"
             /\ cpc[p] = "idle"
Current   == busyList[cursor]

Init == /\ object = [p \in Pipes |-> "absent"]
        /\ queue = [p \in Pipes |-> << >>]
        /\ last = [p \in Pipes |-> 0]
        /\ inProgress = [p \in Pipes |-> FALSE]
        /\ vlink = [p \in Pipes |-> None]
        /\ stopped = {}
        /\ stage = [p \in Pipes |-> "data"]
        /\ memory = {}
        /\ notified = [x \in Transfers |-> 0]
        /\ reclamation = 0
        /\ busyList = << >>
        /\ busyLock = FALSE
        /\ pipeLock = [p \in Pipes |-> "free"]
        /\ event = FALSE
        /\ cpc = [p \in Pipes |-> "idle"]
        /\ target = [p \in Pipes |-> None]
        /\ closing = [p \in Pipes |-> FALSE]
        /\ dpc = "wait"
        /\ cursor = 0

-----------------------------------------------------------------------------
(* The chain of STransfer nodes.  A node is freed by copying its successor  *)
(* over it and deleting the successor: a pointer to the successor dangles,  *)
(* and one further down keeps its node, which is now one place nearer.      *)
AfterCopy(l, k) == IF l > k + 1 THEN l - 1 ELSE IF l = k + 1 THEN 0 ELSE l

(* A defect: m_pLastTransfer is not adjusted when its node is copied away.  *)
LastLeftBehind(l, k) == AfterCopy(l, k)
LastFixed(l, k) == IF l = k + 1 THEN k ELSE AfterCopy(l, k)

(* The search moves m_pLastTransfer back by one when it stands before it.   *)
LastAfterAbort(l, k, n) ==
    LET found == IF l \in 2..k THEN l - 1 ELSE l
    IN  CASE k < n             -> LastFixed(found, k)
          [] k = n /\ found = k -> 0
          [] OTHER             -> found

(* A defect: an element is not linked behind the last one of the list.      *)
LinkLost(s, p) == IF s = << >> THEN <<p>> ELSE s
AddedToBusyPipeList(s, p) == Append(s, p)

(* The first element for the pipe, if there is one, is unlinked and freed.  *)
RemovedFromBusyPipeList(s, p) == RemoveFirst(s, p)

(* A defect: every pipe counts when it is emptied, reclamation pipe or not.   *)
LoadOfAny(p) == 1

(* Only the pipes that take part in bandwidth reclamation count.            *)
Load(p) == IF p \in Reclamation THEN 1 ELSE 0
-----------------------------------------------------------------------------
(* The client of a pipe.                                                    *)

OpenPipe(p) ==
    /\ object[p] = "absent"
    /\ object' = [object EXCEPT ![p] = "open"]
    /\ UNCHANGED <<queueVars, stopped, stage, memory, notified, listVars, pipeLock, event,
                   clientVars, doneVars>>

(* IssueTransfer behind a transfer in progress: the node is chained.  (Every
   earlier failure, of an allocation or of a parameter, leaves no trace.)   *)
IssueQueued(p, x) ==
    /\ Idle(p)
    /\ pipeLock[p] = "free"
    /\ x \notin Issued
    /\ inProgress[p]
    /\ Len(queue[p]) < Depth[p]
    /\ memory' = memory \cup {x}
    /\ queue' = [queue EXCEPT ![p] = Append(SubSeq(@, 1, last[p]), x)]
    /\ last' = [last EXCEPT ![p] = @ + 1]
    /\ UNCHANGED <<object, inProgress, vlink, reclamation, stopped, stage, notified, listVars,
                   pipeLock, event, clientVars, doneVars>>

(* IssueTransfer on an idle pipe: the TDs are built, and ScheduleTransfer
   asks for the busy list lock while it holds the pipe lock.                *)
IssueFirst(p, x) ==
    /\ Idle(p)
    /\ pipeLock[p] = "free"
    /\ x \notin Issued
    /\ ~inProgress[p]
    /\ memory' = memory \cup {x}
    /\ pipeLock' = [pipeLock EXCEPT ![p] = "client"]
    /\ cpc' = [cpc EXCEPT ![p] = "adding"]
    /\ target' = [target EXCEPT ![p] = x]
    /\ UNCHANGED <<object, queueVars, stopped, stage, notified, listVars, event, closing, doneVars>>

ScheduleTransfer(p) ==
    /\ cpc[p] = "adding"
    /\ ~busyLock
    /\ busyList' = AddedToBusyPipeList(busyList, p)
    /\ queue' = [queue EXCEPT ![p] = <<target[p]>>]
    /\ last' = [last EXCEPT ![p] = 1]
    /\ vlink' = [vlink EXCEPT ![p] = target[p]]
    /\ stage' = [stage EXCEPT ![p] = "data"]
    /\ inProgress' = [inProgress EXCEPT ![p] = TRUE]
    /\ reclamation' = reclamation + Load(p)
    /\ pipeLock' = [pipeLock EXCEPT ![p] = "free"]
    /\ cpc' = [cpc EXCEPT ![p] = "idle"]
    /\ target' = [target EXCEPT ![p] = None]
    /\ UNCHANGED <<object, stopped, memory, notified, busyLock, event, closing, doneVars>>

(* No memory for the list element: the transfer is freed and refused.       *)
ScheduleRefused(p) ==
    /\ cpc[p] = "adding"
    /\ ~busyLock
    /\ memory' = memory \ {target[p]}
    /\ pipeLock' = [pipeLock EXCEPT ![p] = "free"]
    /\ cpc' = [cpc EXCEPT ![p] = "idle"]
    /\ target' = [target EXCEPT ![p] = None]
    /\ UNCHANGED <<object, queueVars, stopped, stage, notified, listVars, event, closing, doneVars>>

(* AbortTransfer finds the transfer behind the head of the queue.           *)
AbortQueued(p, x) ==
    \E k \in 2..Len(queue[p]) :
        /\ inProgress[p]
        /\ queue[p][k] = x
        /\ memory' = memory \ {x}
        /\ queue' = [queue EXCEPT ![p] = RemoveAt(@, k)]
        /\ last' = [last EXCEPT ![p] = LastAfterAbort(@, k, Len(queue[p]))]
        /\ cpc' = [cpc EXCEPT ![p] = "notify"]
        /\ target' = [target EXCEPT ![p] = x]
        /\ UNCHANGED <<object, inProgress, vlink, reclamation, stopped, stage, notified, listVars,
                       pipeLock, event, closing, doneVars>>

(* A defect: the load is taken off although the queue goes on.              *)
AbortUnloads(p, x) ==
    /\ inProgress[p]
    /\ queue[p] # << >>
    /\ Head(queue[p]) = x
    /\ reclamation' = reclamation - Load(p)
    /\ vlink' = [vlink EXCEPT ![p] = None]
    /\ pipeLock' = [pipeLock EXCEPT ![p] = "client"]
    /\ cpc' = [cpc EXCEPT ![p] = "abortWait"]
    /\ target' = [target EXCEPT ![p] = x]
    /\ UNCHANGED <<object, queue, last, inProgress, stopped, stage, memory, notified, listVars,
                   event, closing, doneVars>>

(* AbortTransfer finds it at the head: AbortQueue takes the TDs off the
   queue head and sleeps for a frame, holding the pipe lock.                *)
AbortCurrent(p, x) ==
    /\ inProgress[p]
    /\ queue[p] # << >>
    /\ Head(queue[p]) = x
    /\ reclamation' = IF Len(queue[p]) = 1 THEN reclamation - Load(p) ELSE reclamation
    /\ vlink' = [vlink EXCEPT ![p] = None]
    /\ pipeLock' = [pipeLock EXCEPT ![p] = "client"]
    /\ cpc' = [cpc EXCEPT ![p] = "abortWait"]
    /\ target' = [target EXCEPT ![p] = x]
    /\ UNCHANGED <<object, queue, last, inProgress, stopped, stage, memory, notified, listVars,
                   event, closing, doneVars>>

AbortTransfer(p, x) ==
    /\ Idle(p)
    /\ pipeLock[p] = "free"
    /\ \/ AbortQueued(p, x)
       \/ AbortCurrent(p, x)

(* A defect: the routine is called, and the transfer stays the head.        *)
AbortKeepsHead(p) ==
    /\ cpc[p] = "abortWait"
    /\ memory' = memory \ {target[p]}
    /\ vlink' = [vlink EXCEPT ![p] = target[p]]
    /\ cpc' = [cpc EXCEPT ![p] = "notify"]
    /\ pipeLock' = [pipeLock EXCEPT ![p] = "free"]
    /\ UNCHANGED <<object, queue, last, inProgress, reclamation, stopped, stage, notified, listVars,
                   event, target, closing, doneVars>>

(* The frame is over: the transfer is freed, and the next one takes its
   place or the queue is empty.                                             *)
AbortFinish(p) ==
    /\ cpc[p] = "abortWait"
    /\ LET rest == RemoveAt(queue[p], 1)
       IN  /\ queue' = [queue EXCEPT ![p] = rest]
           /\ last' = [last EXCEPT ![p] = LastAfterAbort(@, 1, Len(queue[p]))]
           /\ inProgress' = [inProgress EXCEPT ![p] = rest # << >>]
           /\ vlink' = [vlink EXCEPT ![p] = IF rest # << >> THEN rest[1] ELSE None]
           /\ stage' = [stage EXCEPT ![p] = "data"]
           /\ cpc' = [cpc EXCEPT ![p] = IF rest # << >> THEN "notify" ELSE "remove"]
    /\ memory' = memory \ {target[p]}
    /\ stopped' = stopped \ {target[p]}
    /\ pipeLock' = [pipeLock EXCEPT ![p] = "free"]
    /\ UNCHANGED <<object, reclamation, notified, listVars, event, target, closing,
                   doneVars>>

RemoveFromBusyPipeList(p) ==
    /\ cpc[p] = "remove"
    /\ ~busyLock
    /\ busyList' = RemovedFromBusyPipeList(busyList, p)
    /\ cpc' = [cpc EXCEPT ![p] = "notify"]
    /\ UNCHANGED <<object, queueVars, stopped, stage, memory, notified, busyLock, pipeLock, event,
                   target, closing, doneVars>>

(* The completion routine of the aborted transfer runs outside the locks.   *)
AbortNotify(p) ==
    /\ cpc[p] = "notify"
    /\ notified' = [notified EXCEPT ![target[p]] = @ + 1]
    /\ cpc' = [cpc EXCEPT ![p] = IF closing[p] THEN "closeCheck" ELSE "idle"]
    /\ target' = [target EXCEPT ![p] = None]
    /\ UNCHANGED <<object, queueVars, stopped, stage, memory, listVars, pipeLock, event, closing,
                   doneVars>>

ClosePipe(p) ==
    /\ Idle(p)
    /\ p \in Closable
    /\ closing' = [closing EXCEPT ![p] = TRUE]
    /\ cpc' = [cpc EXCEPT ![p] = "closeCheck"]
    /\ UNCHANGED <<object, queueVars, stopped, stage, memory, notified, listVars, pipeLock, event,
                   target, doneVars>>

(* A defect: ClosePipe does not abort what is in progress.                  *)
CloseAtOnce(p) ==
    /\ cpc[p] = "closeCheck"
    /\ cpc' = [cpc EXCEPT ![p] = "closeLock"]
    /\ UNCHANGED <<object, queueVars, stopped, stage, memory, notified, listVars, pipeLock, event,
                   target, closing, doneVars>>

(* while (m_fTransferInProgress) AbortTransfer(.., m_transfer.lpvCancelId):
   the flag and the id are both read without the pipe lock.                 *)
CloseCheck(p) ==
    /\ cpc[p] = "closeCheck"
    /\ IF inProgress[p]
       THEN /\ target' = [target EXCEPT ![p] = Head(queue[p])]
            /\ cpc' = [cpc EXCEPT ![p] = "closeAbort"]
       ELSE /\ cpc' = [cpc EXCEPT ![p] = "closeLock"]
            /\ UNCHANGED target
    /\ UNCHANGED <<object, queueVars, stopped, stage, memory, notified, listVars, pipeLock, event,
                   closing, doneVars>>

(* The abort, when the transfer is still there; otherwise the loop goes on. *)
CloseAbort(p) ==
    /\ cpc[p] = "closeAbort"
    /\ pipeLock[p] = "free"
    /\ \/ AbortQueued(p, target[p])
       \/ AbortCurrent(p, target[p])
       \/ /\ target[p] \notin ToSet(queue[p])
          /\ cpc' = [cpc EXCEPT ![p] = "closeCheck"]
          /\ target' = [target EXCEPT ![p] = None]
          /\ UNCHANGED <<object, queueVars, stopped, stage, memory, notified, listVars, pipeLock,
                         event, closing, doneVars>>

(* The queue head is unlinked, and the client sleeps for a frame.           *)
CloseUnlink(p) ==
    /\ cpc[p] = "closeLock"
    /\ pipeLock[p] = "free"
    /\ pipeLock' = [pipeLock EXCEPT ![p] = "client"]
    /\ cpc' = [cpc EXCEPT ![p] = "closeWait"]
    /\ UNCHANGED <<object, queueVars, stopped, stage, memory, notified, listVars, event, target,
                   closing, doneVars>>

(* The queue head is freed, the lock released and the pipe object deleted.  *)
CloseFree(p) ==
    /\ cpc[p] = "closeWait"
    /\ vlink' = [vlink EXCEPT ![p] = None]
    /\ object' = [object EXCEPT ![p] = "deleted"]
    /\ pipeLock' = [pipeLock EXCEPT ![p] = "free"]
    /\ cpc' = [cpc EXCEPT ![p] = "idle"]
    /\ closing' = [closing EXCEPT ![p] = FALSE]
    /\ UNCHANGED <<queue, last, inProgress, reclamation, stopped, stage, memory, notified, listVars,
                   event, target, doneVars>>
-----------------------------------------------------------------------------
(* The host controller, and the interrupt thread that passes every USB
   interrupt on as SignalCheckForDoneTransfers.                             *)

HwFinish(p) ==
    /\ vlink[p] \in Transfers \ stopped
    /\ vlink' = [vlink EXCEPT ![p] = None]
    /\ event' = TRUE
    /\ UNCHANGED <<object, queue, last, inProgress, reclamation, stopped, stage, memory, notified,
                   listVars, pipeLock, clientVars, doneVars>>

HwStop(p) ==
    /\ vlink[p] \in Transfers \ stopped
    /\ stopped' = stopped \cup {vlink[p]}
    /\ event' = TRUE
    /\ UNCHANGED <<object, stage, queueVars, memory, notified, listVars, pipeLock, clientVars,
                   doneVars>>
-----------------------------------------------------------------------------
(* CheckForDoneTransfersThread.                                             *)

(* A defect: a signal that arrives while the list is walked is discarded.   *)
DoneUnlockReset ==
    /\ dpc = "scan"
    /\ cursor > Len(busyList)
    /\ busyLock' = FALSE
    /\ cursor' = 0
    /\ dpc' = "wait"
    /\ event' = FALSE
    /\ UNCHANGED <<object, queueVars, stopped, stage, memory, notified, busyList, pipeLock,
                   clientVars>>

DoneWait ==
    /\ dpc = "wait"
    /\ event
    /\ event' = FALSE
    /\ dpc' = "lock"
    /\ UNCHANGED <<object, queueVars, stopped, stage, memory, notified, listVars, pipeLock,
                   clientVars, cursor>>

DoneLock ==
    /\ dpc = "lock"
    /\ ~busyLock
    /\ busyLock' = TRUE
    /\ cursor' = 1
    /\ dpc' = "scan"
    /\ UNCHANGED <<object, queueVars, stopped, stage, memory, notified, busyList, pipeLock, event,
                   clientVars>>

DoneUnlock ==
    /\ dpc = "scan"
    /\ cursor > Len(busyList)
    /\ busyLock' = FALSE
    /\ cursor' = 0
    /\ dpc' = "wait"
    /\ UNCHANGED <<object, queueVars, stopped, stage, memory, notified, busyList, pipeLock, event,
                   clientVars>>

(* CQueuedPipe::CheckForDoneTransfers: the queue is done when its link is
   terminated, or points to a TD with an error or a short packet.           *)
DoneOnEntry ==
    /\ dpc = "scan"
    /\ cursor <= Len(busyList)
    /\ pipeLock[Current] = "free"
    /\ ~inProgress[Current]
    /\ dpc' = "unlink"
    /\ UNCHANGED <<object, queueVars, stopped, stage, memory, notified, listVars, pipeLock, event,
                   clientVars, cursor>>

DoneNotYet ==
    /\ dpc = "scan"
    /\ cursor <= Len(busyList)
    /\ pipeLock[Current] = "free"
    /\ inProgress[Current]
    /\ vlink[Current] \in Transfers \ stopped
    /\ cursor' = cursor + 1
    /\ UNCHANGED <<object, queueVars, stopped, stage, memory, notified, listVars, pipeLock, event,
                   clientVars, dpc>>

DoneFound ==
    /\ dpc = "scan"
    /\ cursor <= Len(busyList)
    /\ pipeLock[Current] = "free"
    /\ inProgress[Current]
    /\ vlink[Current] \notin Transfers \ stopped
    /\ pipeLock' = [pipeLock EXCEPT ![Current] = "done"]
    /\ inProgress' = [inProgress EXCEPT ![Current] = FALSE]
    /\ vlink' = [vlink EXCEPT ![Current] = None]
    /\ memory' = memory \ {Head(queue[Current])}
    /\ stopped' = stopped \ {Head(queue[Current])}
    /\ dpc' = "callback"
    /\ UNCHANGED <<object, queue, last, reclamation, stage, notified, listVars, event,
                   clientVars, cursor>>

(* A short data stage of a control transfer: ProcessShortTransfer points the
   queue head at the status TD, which is active, and the transfer goes on.  *)
JumpsToStatus ==
    /\ dpc = "scan"
    /\ cursor <= Len(busyList)
    /\ pipeLock[Current] = "free"
    /\ inProgress[Current]
    /\ Current \in Control
    /\ vlink[Current] \in stopped
    /\ stage[Current] = "data"
    /\ stopped' = stopped \ {vlink[Current]}

DoneJump ==
    /\ JumpsToStatus
    /\ stage' = [stage EXCEPT ![Current] = "status"]
    /\ cursor' = cursor + 1
    /\ UNCHANGED <<object, queueVars, memory, notified, listVars, pipeLock, event,
                   clientVars, dpc>>

(* The same jump, but the short data could not be copied to the client: the
   transfer is done with USB_CLIENT_BUFFER_ERROR, its TDs are freed, and the
   queue head goes on pointing to the status TD among them.                 *)
DoneFaulted ==
    /\ JumpsToStatus
    /\ stage' = [stage EXCEPT ![Current] = "faulted"]
    /\ pipeLock' = [pipeLock EXCEPT ![Current] = "done"]
    /\ inProgress' = [inProgress EXCEPT ![Current] = FALSE]
    /\ memory' = memory \ {Head(queue[Current])}
    /\ dpc' = "callback"
    /\ UNCHANGED <<object, queue, last, vlink, reclamation, notified, listVars, event,
                   clientVars, cursor>>

(* The completion routine runs under both locks, and the next transfer of
   the queue is scheduled.                                                  *)
DoneNext ==
    /\ dpc = "callback"
    /\ Len(queue[Current]) > 1
    /\ notified' = [notified EXCEPT ![Head(queue[Current])] = @ + 1]
    /\ queue' = [queue EXCEPT ![Current] = RemoveAt(@, 1)]
    /\ last' = [last EXCEPT ![Current] = LastFixed(@, 1)]
    /\ inProgress' = [inProgress EXCEPT ![Current] = TRUE]
    /\ vlink' = [vlink EXCEPT ![Current] = queue[Current][2]]
    /\ stage' = [stage EXCEPT ![Current] = "data"]
    /\ pipeLock' = [pipeLock EXCEPT ![Current] = "free"]
    /\ cursor' = cursor + 1
    /\ dpc' = "scan"
    /\ UNCHANGED <<object, reclamation, stopped, memory, listVars, event, clientVars>>

(* The completion routine runs and the queue is empty.                      *)
DoneEmpty ==
    /\ dpc = "callback"
    /\ Len(queue[Current]) = 1
    /\ notified' = [notified EXCEPT ![Head(queue[Current])] = @ + 1]
    /\ queue' = [queue EXCEPT ![Current] = << >>]
    /\ last' = [last EXCEPT ![Current] = 0]
    /\ reclamation' = reclamation - Load(Current)
    /\ pipeLock' = [pipeLock EXCEPT ![Current] = "free"]
    /\ dpc' = "unlink"
    /\ UNCHANGED <<object, inProgress, vlink, stopped, stage, memory, listVars, event, clientVars,
                   cursor>>

(* The thread deletes the list element of a pipe whose queue is empty.      *)
DoneUnlink ==
    /\ dpc = "unlink"
    /\ busyList' = RemoveAt(busyList, cursor)
    /\ dpc' = "scan"
    /\ UNCHANGED <<object, queueVars, stopped, stage, memory, notified, busyLock, pipeLock, event,
                   clientVars, cursor>>
-----------------------------------------------------------------------------
Client(p) == \/ OpenPipe(p) \/ ClosePipe(p)
             \/ \E x \in Transfers : \/ IssueQueued(p, x)
                                     \/ IssueFirst(p, x)
                                     \/ AbortTransfer(p, x)
             \/ ScheduleTransfer(p) \/ ScheduleRefused(p)
             \/ AbortFinish(p) \/ RemoveFromBusyPipeList(p) \/ AbortNotify(p)
             \/ CloseCheck(p) \/ CloseAbort(p) \/ CloseUnlink(p) \/ CloseFree(p)

Controller(p) == HwFinish(p) \/ HwStop(p)

DoneThread == \/ DoneWait \/ DoneLock \/ DoneUnlock \/ DoneOnEntry \/ DoneNotYet
              \/ DoneFound \/ DoneJump \/ DoneFaulted \/ DoneNext \/ DoneEmpty \/ DoneUnlink

(* Nothing is outstanding: the driver waits for calls and interrupts.       *)
Quiet == /\ dpc = "wait"
         /\ ~event
         /\ \A p \in Pipes : cpc[p] = "idle" /\ queue[p] = << >>
         /\ UNCHANGED vars

Next == \/ \E p \in Pipes : Client(p) \/ Controller(p)
        \/ DoneThread
        \/ Quiet

(* The code justifies weak fairness only: the controller goes on executing
   TDs, the done thread runs, and a client call once begun goes on.         *)
Fairness == /\ WF_vars(DoneThread)
            /\ \A p \in Pipes :
                 /\ WF_vars(Controller(p))
                 /\ WF_vars(\/ ScheduleTransfer(p) \/ AbortFinish(p)
                            \/ RemoveFromBusyPipeList(p) \/ AbortNotify(p)
                            \/ CloseCheck(p) \/ CloseAbort(p) \/ CloseUnlink(p)
                            \/ CloseFree(p))

Spec     == Init /\ [][Next]_vars
FairSpec == Spec /\ Fairness
-----------------------------------------------------------------------------
(* Types.  numReclamationTransfers is unsigned: a decrement too many wraps.  *)
ClientStates == {"idle", "adding", "abortWait", "remove", "notify",
                 "closeCheck", "closeAbort", "closeLock", "closeWait"}
DoneStates   == {"wait", "lock", "scan", "callback", "unlink"}

Types  == /\ object \in [Pipes -> {"absent", "open", "deleted"}]
          /\ queue \in [Pipes -> Seq(Transfers)]
          /\ last \in [Pipes -> Nat]
          /\ inProgress \in [Pipes -> BOOLEAN]
          /\ vlink \in [Pipes -> Transfers \cup {None}]
          /\ stopped \subseteq Transfers
          /\ stage \in [Pipes -> {"data", "status", "faulted"}]
          /\ memory \subseteq Transfers
          /\ notified \in [Transfers -> Nat]
          /\ reclamation \in Int
          /\ busyList \in Seq(Pipes)
          /\ busyLock \in BOOLEAN
          /\ pipeLock \in [Pipes -> {"free", "client", "done"}]
          /\ event \in BOOLEAN
          /\ cpc \in [Pipes -> ClientStates]
          /\ target \in [Pipes -> Transfers \cup {None}]
          /\ closing \in [Pipes -> BOOLEAN]
          /\ dpc \in DoneStates
          /\ cursor \in Nat
TypeOK == Types /\ reclamation >= 0

(* However the completion of a transfer and its abort interleave, its routine
   is called at most once, and once it has been called the driver holds the
   transfer no more: CheckForDoneTransfers and AbortTransfer both call it.   *)
NotifiedOnce ==
    \A x \in Transfers :
        /\ notified[x] <= 1
        /\ notified[x] = 1 => /\ x \notin memory
                              /\ \A p \in Pipes : /\ x \notin ToSet(queue[p])
                                                  /\ \/ target[p] # x
                                                     \/ cpc[p] = "closeAbort"

(* The TD list the controller can reach is allocated and belongs to the head
   of the queue of a pipe with a transfer in progress: FreeTransferMemory and
   the copying of STransfer nodes leave HW_paVLink behind in no other case
   than the one of DoneFaulted, and there only until the pipe's next transfer
   is scheduled or its queue head freed.                                    *)
ControllerSeesLiveTDs ==
    \A p \in Pipes : vlink[p] # None =>
        \/ /\ vlink[p] \in memory
           /\ queue[p] # << >>
           /\ vlink[p] = Head(queue[p])
        \/ /\ stage[p] = "faulted"
           /\ p \in Control
           /\ ~inProgress[p]

(* What CheckForDoneTransfers asserts (cpipe.cpp:2023) before it frees the TDs
   of a transfer, that HW_paVLink is terminated.  DoneFaulted refutes it.   *)
TerminatedWhenFreed == dpc = "callback" => vlink[Current] = None

(* The done thread finds every transfer in progress, since its pipe is on the
   busy list, and finds it once: AddToBusyPipeList asserts (cpipe.cpp:703)
   that a pipe is not added twice.                                           *)
BusyWhileInProgress ==
    /\ \A p \in Pipes : inProgress[p] => p \in ToSet(busyList)
    /\ \A i, j \in 1..Len(busyList) : busyList[i] = busyList[j] => i = j

(* The done thread never follows a list element to a deleted pipe: a pipe may
   be deleted while listed only when the thread is about to drop the element
   and does not look at the pipe again.                                      *)
NoDanglingPipe == \A i \in 1..Len(busyList) : \/ object[busyList[i]] = "open"
                                              \/ dpc = "unlink" /\ i = cursor

(* With the pipe lock free, m_pLastTransfer is the tail of the chain, so that
   a transfer issued next is chained where the queue can find it.            *)
LastIsTail == \A p \in Pipes : pipeLock[p] = "free" => last[p] = Len(queue[p])

(* The load that keeps the controller looping through the reclamation queue
   heads is the number of pipes with a transfer, less those just aborted.    *)
ReclamationExact ==
    reclamation = Cardinality({p \in Reclamation :
                                 /\ queue[p] # << >>
                                 /\ ~(cpc[p] = "abortWait" /\ Len(queue[p]) = 1)})

(* The assertion of ClosePipe (cpipe.cpp:1565), "transfer was either never
   issued, finished before we got to this function, or aborted above": with
   the pipe lock taken, no transfer is in progress.                          *)
CloseFindsPipeIdle ==
    \A p \in Pipes : cpc[p] = "closeWait" => ~inProgress[p]

(* The queue, the locks and the busy list implement the abstract service.    *)
Service == INSTANCE TransferService WITH
    pending   <- queue,
    cancelled <- [p \in Pipes |-> IF cpc[p] \in {"remove", "notify"} THEN {target[p]} ELSE {}],
    notified  <- {x \in Transfers : notified[x] > 0},
    closed    <- {p \in Pipes : object[p] = "deleted"}
ImplementsService == Service!ServiceSpec

(* A transfer accepted by a pipe is notified: no wake-up of the done thread
   is lost, whichever way the transfer ends.                                 *)
EventuallyNotified ==
    \A p \in Pipes, x \in Transfers :
        (x \in ToSet(queue[p])) ~> (notified[x] = 1)
=============================================================================
