------------------------------ MODULE TransferTDs ------------------------------
(***************************************************************************)
(* The transfer descriptors (TDs) of one bulk, interrupt or control pipe:  *)
(* how CBulkPipe and CControlPipe lay a transfer out as a list of TDs, how *)
(* the controller executes them against the device, and how                *)
(* CQueuedPipe::CheckForDoneTransfers and AbortQueue read back what was    *)
(* done: data toggles, short packets, stalls, bytes moved.                 *)
(*                                                                         *)
(* The locks and threads around these operations are in PipeQueue; here    *)
(* each handler that holds m_csPipeLock throughout is one step.            *)
(***************************************************************************)
EXTENDS Integers, SequencesExt, Folds

CONSTANTS Packet,         \* wMaxPacketSize
          SetupLength,    \* sizeof(USB_DEVICE_REQUEST)
          Sizes,          \* bound: the dwBufferSize values of transfers
          MaxOutstanding  \* bound: transfers on the pipe

ASSUME TDAssumption == /\ Packet \in Nat \ {0}
                       /\ SetupLength \in Nat
                       /\ Sizes \subseteq Nat
                       /\ MaxOutstanding \in Nat \ {0}

VARIABLES kind,        \* the class of the pipe
          queue,       \* the transfers: m_transfer and those chained behind it
          inProgress,  \* m_fTransferInProgress
          vlink,       \* HW_paVLink as a TD number, 0 when terminated
          active,      \* the TDs of m_transfer with the Active bit
          actual,      \* ActualLength of the TDs executed
          status,      \* how the TD under vlink ended, "none" if it did not
          toggleC, toggleQ,  \* m_dataToggleC, m_dataToggleQ
          halted,      \* m_fIsHalted
          aborting,    \* 0, or the TD that AbortQueue waits a frame for (-1: none)
          report,      \* what the client was told of the last transfer reported
          devToggle,   \* the device: the toggle it expects or sends next,
          devHalted,   \* and is its endpoint halted
          moved,       \* data bytes of m_transfer that went over the bus
          inSync       \* no transfer was cancelled since the pipe was last reset

tdVars  == <<vlink, active, actual, status>>
hostVars == <<queue, inProgress, toggleC, toggleQ, halted, aborting, report, inSync>>
devVars  == <<devToggle, devHalted, moved>>
vars == <<kind, tdVars, hostVars, devVars>>

Toggles == {0, 1}
Errors == {"USB_NO_ERROR", "USB_STALL_ERROR", "USB_NOT_COMPLETE_ERROR",
           "USB_DATA_UNDERRUN_ERROR", "USB_CANCELED_ERROR"}

(* What the client was told of a transfer, against what happened to it: the
   error and whether the byte count is the number of bytes moved, whether
   these are all or may be less, whether the last TD was executed, and whether
   the pipe was in sync with the device.                                    *)
ReportOf(x, error, bytes, left) ==
    [error |-> error, exact |-> bytes = moved, enough |-> x.shortOK \/ moved = x.size,
     last |-> Len(x.toggle) \notin left, inSync |-> inSync]

NoReport == [error |-> "USB_CANCELED_ERROR", exact |-> TRUE, enough |-> TRUE, last |-> TRUE,
             inSync |-> FALSE]

Init == /\ kind \in {"bulk", "control"}
        /\ queue = << >>
        /\ inProgress = FALSE
        /\ vlink = 0
        /\ active = {}
        /\ actual = << >>
        /\ status = "none"
        /\ toggleC = 1
        /\ toggleQ = 1
        /\ halted = FALSE
        /\ aborting = 0
        /\ report = NoReport
        /\ devToggle = 0
        /\ devHalted = FALSE
        /\ moved = 0
        /\ inSync = TRUE
-----------------------------------------------------------------------------
(* The TD list of a transfer.                                               *)

DataTDs(size) == (size \div Packet) + (IF size % Packet # 0 THEN 1 ELSE 0)

(* A bulk transfer of no data has one empty TD; a control transfer has a TD
   for its setup and one for its status stage.                              *)
NumTDs(size) == CASE kind = "control" -> DataTDs(size) + 2
                  [] kind = "bulk"    -> IF DataTDs(size) = 0 THEN 1 ELSE DataTDs(size)

(* Bulk: from m_dataToggleQ on the toggles alternate.  Control: they do so from
   the 0 of the setup, and the status stage has 1.                          *)
ToggleOf(i, n) == CASE kind = "bulk"    -> (toggleQ + i) % 2
                    [] kind = "control" -> IF i = n THEN 1 ELSE (i - 1) % 2

IsData(k)    == kind = "bulk" \/ k \notin {1, Len(queue[1].toggle)}
MaxLength(k) == LET d == IF kind = "bulk" THEN k ELSE k - 1
                    rest == queue[1].size - (d - 1) * Packet
                IN  IF IsData(k)
                    THEN IF rest < Packet THEN rest ELSE Packet
                    ELSE IF k = 1 THEN SetupLength ELSE 0

(* A defect: the toggles of a queued transfer are sent as they were built.  *)
InStepUnflipped(x, c) == x

(* ScheduleTransfer flips the toggles when the first one repeats the last
   toggle completed.                                                        *)
InStep(x, c) ==
    IF kind = "bulk" /\ x.toggle[1] = c
    THEN [x EXCEPT !.toggle = [i \in DOMAIN x.toggle |-> 1 - x.toggle[i]]]
    ELSE x

(* A defect: m_fTransferInProgress is not reset when the queue is empty.    *)
ScheduleBusy(q, c) ==
    /\ queue' = IF q = << >> THEN q ELSE <<InStep(q[1], c)>> \o Tail(q)
    /\ inProgress' = TRUE
    /\ vlink' = IF q = << >> THEN 0 ELSE 1
    /\ active' = IF q = << >> THEN {} ELSE DOMAIN q[1].toggle
    /\ actual' = << >>
    /\ status' = "none"
    /\ moved' = 0

(* ScheduleTransfer for the transfer at the head of q, when there is one.   *)
Schedule(q, c) ==
    /\ queue' = IF q = << >> THEN q ELSE <<InStep(q[1], c)>> \o Tail(q)
    /\ inProgress' = (q # << >>)
    /\ vlink' = IF q = << >> THEN 0 ELSE 1
    /\ active' = IF q = << >> THEN {} ELSE DOMAIN q[1].toggle
    /\ actual' = << >>
    /\ status' = "none"
    /\ moved' = 0
-----------------------------------------------------------------------------
(* The client.                                                              *)

(* IssueTransfer, behind another transfer or on an idle pipe.               *)
IssueTransfer(x) ==
    /\ aborting = 0
    /\ Len(queue) < MaxOutstanding
    /\ toggleQ' = IF kind = "bulk" THEN x.toggle[Len(x.toggle)] ELSE toggleQ
    /\ IF inProgress
       THEN /\ queue' = Append(queue, x)
            /\ UNCHANGED <<inProgress, tdVars, moved>>
       ELSE Schedule(<<x>>, toggleC)
    /\ UNCHANGED <<kind, toggleC, halted, aborting, report, devToggle, devHalted, inSync>>

(* The list element for the busy list could not be allocated: the transfer
   is refused, but the toggles it took are not given back.                  *)
IssueRefused(x) ==
    /\ ~inProgress
    /\ aborting = 0
    /\ toggleQ' = IF kind = "bulk" THEN x.toggle[Len(x.toggle)] ELSE toggleQ
    /\ UNCHANGED <<kind, queue, inProgress, tdVars, toggleC, halted, aborting, report, devVars,
                   inSync>>

(* AbortTransfer of a transfer behind the head.                             *)
AbortQueued(k) ==
    /\ aborting = 0
    /\ inProgress
    /\ k \in 2..Len(queue)
    /\ queue' = RemoveAt(queue, k)
    /\ UNCHANGED <<kind, inProgress, tdVars, toggleC, toggleQ, halted, aborting, report, devVars,
                   inSync>>

(* AbortQueue takes the TDs away from the controller, and waits a frame for
   the TD it may have begun.                                                *)
AbortCurrent ==
    /\ aborting = 0
    /\ inProgress
    /\ aborting' = IF vlink # 0 /\ status = "none" THEN vlink ELSE -1
    /\ vlink' = 0
    /\ status' = "none"
    /\ inSync' = FALSE
    /\ UNCHANGED <<kind, queue, inProgress, active, actual, toggleC, toggleQ, halted, report,
                   devVars>>

(* m_dataToggleC after an abort is that of the first TD not completed.      *)
ToggleAfterAbort == IF active = {} THEN toggleC
                    ELSE queue[1].toggle[CHOOSE k \in active : \A j \in active : k <= j]

AbortFinish ==
    /\ aborting # 0
    /\ aborting' = 0
    /\ toggleC' = ToggleAfterAbort
    /\ report' = ReportOf(queue[1], "USB_CANCELED_ERROR", 0, active)
    /\ Schedule(Tail(queue), ToggleAfterAbort)
    /\ UNCHANGED <<kind, toggleQ, halted, devToggle, devHalted, inSync>>

(* CFunction::ResetPipe, once nothing is outstanding: ClearHaltedFlag, and
   CLEAR_FEATURE(ENDPOINT_HALT) to the device.                              *)
ResetPipe ==
    /\ kind = "bulk"
    /\ queue = << >>
    /\ aborting = 0
    /\ halted' = FALSE
    /\ toggleC' = 1
    /\ toggleQ' = 1
    /\ devToggle' = 0
    /\ devHalted' = FALSE
    /\ inSync' = TRUE
    /\ UNCHANGED <<kind, queue, inProgress, tdVars, aborting, report, moved>>
-----------------------------------------------------------------------------
(* The controller and the device.                                           *)

Ready == vlink # 0 /\ status = "none"

(* The setup has 0 and the status stage 1, whatever came before.            *)
Expected(k) == IF kind = "control" /\ k \in {1, Len(queue[1].toggle)}
               THEN IF k = 1 THEN 0 ELSE 1
               ELSE devToggle

(* What the device does with TD k when it takes or sends n bytes.           *)
Taken(k, n) ==
    /\ active' = active \ {k}
    /\ actual' = [i \in 1..k |-> IF i \in DOMAIN actual THEN actual[i] ELSE IF i = k THEN n ELSE 0]
    /\ devToggle' = IF kind = "control" /\ k = 1 THEN 1 ELSE 1 - devToggle
    /\ moved' = IF IsData(k) THEN moved + n ELSE moved

HwDone ==
    /\ Ready
    /\ ~devHalted
    /\ queue[1].toggle[vlink] = Expected(vlink)
    /\ Taken(vlink, MaxLength(vlink))
    /\ vlink' = IF vlink = Len(queue[1].toggle) THEN 0 ELSE vlink + 1
    /\ UNCHANGED <<kind, status, hostVars, devHalted>>

(* A short packet: short packet detection, which is on for the data TDs of an
   IN transfer, stops the queue.                                            *)
HwShort ==
    /\ Ready
    /\ ~devHalted
    /\ queue[1].toggle[vlink] = Expected(vlink)
    /\ queue[1].in
    /\ IsData(vlink)
    /\ \E n \in 0..(MaxLength(vlink) - 1) : Taken(vlink, n)
    /\ status' = "short"
    /\ UNCHANGED <<kind, vlink, hostVars, devHalted>>

(* The toggles differ: an OUT packet is acknowledged and dropped; an IN packet
   is dropped by the controller, which goes on asking for the next one.     *)
HwMismatch ==
    /\ Ready
    /\ ~devHalted
    /\ queue[1].toggle[vlink] # Expected(vlink)
    /\ IF queue[1].in
       THEN /\ devToggle' = 1 - devToggle
            /\ UNCHANGED <<vlink, active, actual>>
       ELSE /\ active' = active \ {vlink}
            /\ actual' = Append(actual, MaxLength(vlink))
            /\ vlink' = IF vlink = Len(queue[1].toggle) THEN 0 ELSE vlink + 1
            /\ UNCHANGED devToggle
    /\ UNCHANGED <<kind, status, hostVars, devHalted, moved>>

(* A bulk endpoint stays halted; the next setup clears a control endpoint.  *)
HwStall ==
    /\ Ready
    /\ kind = "control" => vlink > 1
    /\ status' = "stall"
    /\ active' = active \ {vlink}
    /\ devHalted' = (kind = "bulk")
    /\ UNCHANGED <<kind, vlink, actual, hostVars, devToggle, moved>>

(* Retries are used up, and the device did not see the packet.              *)
HwError ==
    /\ Ready
    /\ status' = "error"
    /\ active' = active \ {vlink}
    /\ UNCHANGED <<kind, vlink, actual, hostVars, devVars>>

(* The TD the controller had begun when AbortQueue terminated the list.     *)
HwInFlight ==
    /\ aborting \in active
    /\ ~devHalted
    /\ queue[1].toggle[aborting] = Expected(aborting)
    /\ Taken(aborting, MaxLength(aborting))
    /\ aborting' = -1
    /\ UNCHANGED <<kind, vlink, status, queue, inProgress, toggleC, toggleQ, halted, report,
                   inSync, devHalted>>
-----------------------------------------------------------------------------
(* CheckForDoneTransfers.                                                   *)

Sum(s) == FoldLeft(LAMBDA a, b : a + b, 0, s)

(* A defect: a short transfer is reported as though it had been complete.   *)
FinishFull(e, b, c) ==
    /\ report' = ReportOf(queue[1], e, queue[1].size, active)
    /\ toggleC' = c
    /\ Schedule(Tail(queue), c)

(* The transfer is reported, with its successor scheduled or the pipe idle. *)
Finish(e, b, c) ==
    /\ report' = ReportOf(queue[1], e, b, active)
    /\ toggleC' = c
    /\ Schedule(Tail(queue), c)

Busy == inProgress /\ aborting = 0

DoneComplete ==
    /\ Busy
    /\ vlink = 0
    /\ LET c == queue[1].toggle[Len(queue[1].toggle)]
       IN  /\ Finish("USB_NO_ERROR", queue[1].size, c)
           /\ toggleQ' = IF Len(queue) = 1 THEN c ELSE toggleQ
    /\ UNCHANGED <<kind, halted, aborting, devToggle, devHalted, inSync>>

DoneStall ==
    /\ Busy
    /\ status = "stall"
    /\ Finish("USB_STALL_ERROR", 0, 1)
    /\ toggleQ' = 1
    /\ halted' = (kind # "control")
    /\ UNCHANGED <<kind, aborting, devToggle, devHalted, inSync>>

(* The toggle before that of the TD in error is the last one completed.     *)
ToggleBeforeError == 1 - queue[1].toggle[vlink]

DoneError ==
    /\ Busy
    /\ status = "error"
    /\ Finish("USB_NOT_COMPLETE_ERROR", 0, ToggleBeforeError)
    /\ toggleQ' = IF Len(queue) = 1 THEN ToggleBeforeError ELSE toggleQ
    /\ UNCHANGED <<kind, halted, aborting, devToggle, devHalted, inSync>>

(* A defect: every short transfer is accepted.                              *)
ShortResultLenient == "USB_NO_ERROR"
ShortResult == IF queue[1].shortOK THEN "USB_NO_ERROR" ELSE "USB_DATA_UNDERRUN_ERROR"

DoneShort ==
    /\ Busy
    /\ status = "short"
    /\ kind = "control" => ShortResult # "USB_NO_ERROR"
    /\ LET c == queue[1].toggle[vlink]
       IN  /\ Finish(ShortResult, Sum(actual), c)
           /\ toggleQ' = IF Len(queue) = 1 THEN c ELSE toggleQ
    /\ UNCHANGED <<kind, halted, aborting, devToggle, devHalted, inSync>>

(* A defect: an expected short packet ends a control transfer at once.      *)
SkipStatusStage ==
    /\ Busy
    /\ kind = "control"
    /\ status = "short"
    /\ ShortResult = "USB_NO_ERROR"
    /\ Finish("USB_NO_ERROR", queue[1].size, queue[1].toggle[vlink])
    /\ UNCHANGED <<kind, toggleQ, halted, aborting, devToggle, devHalted, inSync>>

(* A control transfer whose data may be short goes on with its status stage. *)
JumpToStatusStage ==
    /\ Busy
    /\ kind = "control"
    /\ status = "short"
    /\ ShortResult = "USB_NO_ERROR"
    /\ vlink' = Len(queue[1].toggle)
    /\ status' = "none"
    /\ toggleC' = queue[1].toggle[vlink]
    /\ UNCHANGED <<kind, queue, inProgress, active, actual, toggleQ, halted, aborting, report,
                   devVars, inSync>>
-----------------------------------------------------------------------------
(* The transfers a client may issue: a control IN transfer has data.        *)
NewTransfer(size, in, shortOK) ==
    [size |-> size, in |-> in, shortOK |-> shortOK,
     toggle |-> [i \in 1..NumTDs(size) |-> ToggleOf(i, NumTDs(size))]]

Valid(size, in) == kind = "control" /\ in => size > 0

Client == \/ \E size \in Sizes, in, shortOK \in BOOLEAN :
                /\ Valid(size, in)
                /\ \/ IssueTransfer(NewTransfer(size, in, shortOK))
                   \/ IssueRefused(NewTransfer(size, in, shortOK))
          \/ \E k \in 2..Len(queue) : AbortQueued(k)
          \/ AbortCurrent \/ AbortFinish \/ ResetPipe

Hardware == HwDone \/ HwShort \/ HwMismatch \/ HwStall \/ HwError \/ HwInFlight

DoneThread == DoneComplete \/ DoneStall \/ DoneError \/ DoneShort \/ JumpToStatusStage

Next == Client \/ Hardware \/ DoneThread

Spec == Init /\ [][Next]_vars
-----------------------------------------------------------------------------
TypeOK ==
    /\ kind \in {"bulk", "control"}
    /\ Len(queue) <= MaxOutstanding
    /\ \A i \in 1..Len(queue) : /\ queue[i].size \in Sizes
                                /\ queue[i].toggle \in Seq(Toggles)
    /\ inProgress \in BOOLEAN
    /\ inProgress <=> queue # << >>
    /\ vlink # 0 => vlink \in DOMAIN queue[1].toggle
    /\ status \in {"none", "short", "stall", "error"}
    /\ toggleC \in Toggles /\ toggleQ \in Toggles /\ devToggle \in Toggles
    /\ halted \in BOOLEAN /\ devHalted \in BOOLEAN /\ inSync \in BOOLEAN
    /\ report.error \in Errors /\ moved \in Nat

(* Through short packets, errors, stalls, refused and queued transfers, the
   TD the controller executes next has the toggle the device expects: no
   packet is dropped.  (Cancelling is left out: see ToggleOfLastCompleted.)  *)
ToggleInStep ==
    inSync /\ Ready /\ ~devHalted => queue[1].toggle[vlink] = Expected(vlink)

(* A bulk or interrupt transfer that ends without an error, or with a short
   packet, is reported with the number of bytes the bus moved.               *)
BulkReportsMoved ==
    kind = "bulk" /\ report.inSync =>
        (report.error \in {"USB_NO_ERROR", "USB_DATA_UNDERRUN_ERROR"} => report.exact)

(* A transfer that must not be short, and ends without an error, is complete. *)
NotSilentlyShort ==
    report.inSync /\ report.error = "USB_NO_ERROR" => report.enough

(* Without an error a control transfer is reported only after its status
   stage, even when its data stage was cut short.                            *)
ReportedAfterStatusStage ==
    kind = "control" /\ report.error = "USB_NO_ERROR" => report.last

(* m_dataToggleC is the "data toggle of last completed TD" (cpipe.hpp:510):
   with nothing in progress, the device expects the other one.               *)
ToggleOfLastCompleted ==
    kind = "bulk" /\ ~inProgress /\ ~devHalted => toggleC = 1 - devToggle

(* lpdwBytesTransferred is the "total # of bytes successfully transferred"
   (hcd.cpp), for control transfers too.                                     *)
ControlReportsMoved ==
    kind = "control" /\ report.inSync /\ report.error = "USB_NO_ERROR" => report.exact
=============================================================================
