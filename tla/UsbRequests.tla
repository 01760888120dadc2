------------------------------ MODULE UsbRequests ------------------------------
(****************************************************************************)
(* The calls of USBD into the USB driver (CHcd, hcd.cpp): each takes the    *)
(* lock of the driver, walks the tree of hubs holding the lock of each      *)
(* (CHub), and does its work in the function (CFunction) under its lock.    *)
(* They race with the hub thread and the worker threads that detach         *)
(* devices, with the interrupt thread that completes transfers, and with    *)
(* the unloading of the driver.  One hub stands for the path to a device:   *)
(* every hub on it is locked and searched in the same way.                  *)
(****************************************************************************)
EXTENDS Integers, FiniteSets

CONSTANTS
    Clients,    \* threads of USBD and of the drivers above it
    Addresses,  \* the addresses of functions; the hub has a port for each
    MaxFailures \* an enumeration gives up after more failures than this (2)

VARIABLES
    call,     \* what each thread of Clients does: op, address, pc; in DisableDevice the
              \* address it then attaches, and the failures of that
    hcd,      \* the owner of CHcd::Lock
    root,     \* m_pCRootHub # NULL
    dev,      \* the functions by address: use, open, busy
    owner,    \* the owner of m_csDeviceLock of each function
    feature,  \* m_hFunctionFeatureEvent and its control transfer: none, busy, set
    hub,      \* the hub thread: pc, the address it attaches or detaches, and the failures
              \* of an enumeration
    external, \* the hub is a CExternalHub, whose ports are reached by transfers to it
    xf,       \* the transfer with m_hHubStatusChangeEvent that a thread waits for: none,
              \* busy, done
    event,    \* m_hHubStatusChangeEvent, auto-reset, one for all the threads of the hub
    orphan,   \* a transfer with that event is left that no thread waits for any more
    zero,     \* the owner of m_csAddress0Lock
    slot,     \* m_pDetachedDevice, or Nobody
    handled,  \* m_pDetachedDeviceHandled, manual-reset
    starting, \* the worker threads that have not looked at m_pDetachedDevice yet
    worker,   \* how far the detaching of each device is
    unload    \* DeviceDeInitialize: up, stopped, cleared, joined, detached, done

handover == <<slot, handled, starting>>
waits == <<xf, event, orphan, zero, external>>
vars == <<call, hcd, root, dev, owner, feature, hub, waits, handover, worker, unload>>

Nobody == "nobody"
HubThread == "hub"
Threads == Clients \cup {HubThread}

ASSUME RequestsAssumption == /\ Clients # {} /\ Addresses # {} /\ MaxFailures \in Nat
                             /\ Nobody \notin Clients \cup Addresses
                             /\ HubThread \notin Clients

Idle   == [op |-> "none", a |-> CHOOSE a \in Addresses : TRUE, pc |-> "idle", fails |-> 0]
Resting == [pc |-> "idle", a |-> CHOOSE a \in Addresses : TRUE, fails |-> 0]
Absent == [use |-> "free", open |-> FALSE, busy |-> FALSE]
Fresh  == [Absent EXCEPT !.use = "listed"]

Init ==
    /\ call = [c \in Clients |-> Idle]
    /\ hcd = Nobody /\ root = TRUE
    /\ dev = [a \in Addresses |-> Absent]
    /\ owner = [a \in Addresses |-> Nobody]
    /\ feature = [a \in Addresses |-> "none"]
    /\ hub = Resting
    /\ external \in BOOLEAN
    /\ xf = [t \in Threads |-> "none"]
    /\ event = FALSE /\ orphan = FALSE /\ zero = Nobody
    /\ slot = Nobody /\ handled = FALSE /\ starting = 0
    /\ worker = [a \in Addresses |-> "none"]
    /\ unload = "up"

Goto(c, pc) == call' = [call EXCEPT ![c].pc = pc]
At(c, pc) == call[c].pc = pc
Ask(t) == xf' = [xf EXCEPT ![t] = "busy"]
HubLockFree == unload \notin {"joined"} /\ \A c \in Clients : call[c].pc \in {"idle", "hub"}

-----------------------------------------------------------------------------
(* CHcd::OpenPipe and the others.                                             *)

(* A call that waits for the lock has done nothing yet, so it begins when it   *)
(* gets the lock; without a root hub it returns at once.                       *)
Enter(c, op) ==
    /\ At(c, "idle") /\ hcd = Nobody /\ root
    /\ hcd' = c
    /\ \E a \in Addresses : call' = [call EXCEPT ![c] = [Idle EXCEPT !.op = op, !.a = a, !.pc = "hub"]]
    /\ UNCHANGED <<root, dev, owner, feature, hub, waits, handover, worker, unload>>

OpenPipe(c)      == Enter(c, "open")
ClosePipe(c)     == Enter(c, "close")
IssueTransfer(c) == Enter(c, "issue")
AbortTransfer(c) == Enter(c, "abort")
IsPipeHalted(c)  == Enter(c, "halted")
ResetPipe(c)     == Enter(c, "reset")
DisableDevice(c) == Enter(c, "disable")
SuspendResume(c) == Enter(c, "suspend") \/ Enter(c, "resume")

Call(c) ==
    \/ OpenPipe(c) \/ ClosePipe(c) \/ IssueTransfer(c) \/ AbortTransfer(c)
    \/ IsPipeHalted(c) \/ ResetPipe(c) \/ DisableDevice(c) \/ SuspendResume(c)

(* The locks are left on the way back.                                        *)
Returns(c) == call' = [call EXCEPT ![c] = Idle] /\ hcd' = Nobody

(* A defect: the hub thread does not take the lock of its hub.                *)
Unlocked == TRUE
SearchAllowed == HubLockFree

(* The ports of the hub are searched for the device, which is entered with    *)
(* its own lock; DisableDevice is the hub's own work.                         *)
Forward(c, op) ==
    /\ At(c, "hub") /\ call[c].op = op /\ HubLockFree
    /\ IF dev[call[c].a].use # "listed" THEN Returns(c)
       ELSE Goto(c, IF op = "disable" THEN "disable" ELSE "function") /\ UNCHANGED hcd
    /\ UNCHANGED <<root, dev, owner, feature, hub, waits, handover, worker, unload>>

HubOpenPipe(c)      == Forward(c, "open")
HubClosePipe(c)     == Forward(c, "close")
HubIssueTransfer(c) == Forward(c, "issue")
HubAbortTransfer(c) == Forward(c, "abort")
HubIsPipeHalted(c)  == Forward(c, "halted")
HubResetPipe(c)     == Forward(c, "reset")
HubDisableDevice(c) == Forward(c, "disable")
HubSuspendResume(c) == Forward(c, "suspend") \/ Forward(c, "resume")

HubCall(c) ==
    \/ HubOpenPipe(c) \/ HubClosePipe(c) \/ HubIssueTransfer(c) \/ HubAbortTransfer(c)
    \/ HubIsPipeHalted(c) \/ HubResetPipe(c) \/ HubDisableDevice(c) \/ HubSuspendResume(c)

EnterFunction(c) ==
    LET a == call[c].a
    IN  /\ At(c, "function") /\ owner[a] = Nobody
        /\ owner' = [owner EXCEPT ![a] = c]
        /\ Goto(c, "inside")
        /\ UNCHANGED <<hcd, root, dev, feature, hub, waits, handover, worker, unload>>

Leave(c) == owner' = [owner EXCEPT ![call[c].a] = Nobody] /\ Returns(c)

(* A call that waits for nothing leaves the function in one of these states.  *)
Becomes(c, op, states) ==
    /\ At(c, "inside") /\ call[c].op = op
    /\ \E d \in states : dev' = [dev EXCEPT ![call[c].a] = d]
    /\ Leave(c)
    /\ UNCHANGED <<root, feature, hub, waits, handover, worker, unload>>

Function(c) == dev[call[c].a]

(* The pipe is open already, is opened, or cannot be.                         *)
FunctionOpenPipe(c) == Becomes(c, "open", {Function(c), [Function(c) EXCEPT !.open = TRUE]})
FunctionClosePipe(c) == Becomes(c, "close", {[Function(c) EXCEPT !.open = FALSE, !.busy = FALSE]})
FunctionIssueTransfer(c) ==
    Becomes(c, "issue", {Function(c), [Function(c) EXCEPT !.busy = @ \/ Function(c).open]})
FunctionAbortTransfer(c) == Becomes(c, "abort", {[Function(c) EXCEPT !.busy = FALSE]})
FunctionIsPipeHalted(c) == Becomes(c, "halted", {Function(c)})

(* GetStatus and SetOrClearFeature of an external hub wait without a limit     *)
(* for a transfer, with all the locks.  The thread wakes up on the event of    *)
(* the hub, whoever it was set for; its transfer, if not done, is left in      *)
(* progress, and its completion sets the event for another thread.             *)
Wakes(t) ==
    /\ event /\ event' = FALSE
    /\ orphan' = (orphan \/ xf[t] = "busy")

(* The feature of the port is set or cleared by the hub, which may fail; a     *)
(* root hub does it at once, an external hub may not even be asked.            *)
DeviceSuspendResume(c) ==
    /\ call[c].op \in {"suspend", "resume"}
    /\ \/ Becomes(c, call[c].op, {Function(c)})
       \/ /\ external /\ At(c, "inside")
          /\ Ask(c) /\ Goto(c, "suspending")
          /\ UNCHANGED <<hcd, root, dev, owner, feature, hub, event, orphan, zero, external,
                         handover, worker, unload>>

SuspendResumeOffStreamDevice(c) ==
    /\ At(c, "suspending") /\ Wakes(c)
    /\ xf' = [xf EXCEPT ![c] = "none"]
    /\ Leave(c)
    /\ UNCHANGED <<root, dev, feature, hub, zero, external, handover, worker, unload>>

(* ResetPipe waits for a control transfer, with all the locks.                *)
FunctionResetPipe(c) ==
    LET a == call[c].a
    IN  /\ At(c, "inside") /\ call[c].op = "reset"
        /\ \/ /\ dev[a].open
              /\ feature' = [feature EXCEPT ![a] = "busy"]
              /\ Goto(c, "feature")
              /\ UNCHANGED <<hcd, owner>>
           \/ Leave(c) /\ UNCHANGED feature
        /\ UNCHANGED <<root, dev, hub, waits, handover, worker, unload>>

SetOrClearFeature(c) ==
    LET a == call[c].a
    IN  /\ At(c, "feature") /\ feature[a] = "set"
        /\ feature' = [feature EXCEPT ![a] = "none"]
        /\ Leave(c)
        /\ UNCHANGED <<root, dev, hub, waits, handover, worker, unload>>

FunctionCall(c) ==
    \/ EnterFunction(c) \/ FunctionOpenPipe(c) \/ FunctionClosePipe(c) \/ FunctionIssueTransfer(c)
    \/ FunctionAbortTransfer(c) \/ FunctionIsPipeHalted(c) \/ FunctionResetPipe(c)
    \/ SetOrClearFeature(c) \/ DeviceSuspendResume(c) \/ SuspendResumeOffStreamDevice(c)

-----------------------------------------------------------------------------
(* The interrupt thread, until the controller is stopped.  A callback of a    *)
(* client does not block, so it calls none of the above.                      *)

TransferDone(a) ==
    /\ unload = "up"
    /\ \/ /\ dev[a].busy
          /\ dev' = [dev EXCEPT ![a].busy = FALSE]
          /\ UNCHANGED feature
       \/ /\ feature[a] = "busy"
          /\ feature' = [feature EXCEPT ![a] = "set"]
          /\ UNCHANGED dev
    /\ UNCHANGED <<call, hcd, root, owner, hub, waits, handover, worker, unload>>

EnumerationDone(t) ==
    /\ unload = "up" /\ xf[t] = "busy"
    /\ xf' = [xf EXCEPT ![t] = "done"]
    /\ event' = TRUE
    /\ UNCHANGED <<call, hcd, root, dev, owner, feature, hub, orphan, zero, external,
                   handover, worker, unload>>

(* A transfer that was given up, or one of the idle hub thread: its request    *)
(* for the changes of the ports, and those with which it reads and clears them *)
(* and disables a port.                                                        *)
OtherDone ==
    /\ unload = "up" /\ (orphan \/ (external /\ hub.pc = "idle"))
    /\ event' = TRUE
    /\ orphan' \in {orphan, FALSE}
    /\ UNCHANGED <<call, hcd, root, dev, owner, feature, hub, xf, zero, external,
                   handover, worker, unload>>

-----------------------------------------------------------------------------
(* DetachDevice, by the hub thread or, in DisableDevice, by a client.         *)

(* A defect: the device stays in the array until it has been detached.        *)
StillListed == "listed"
Unlisted == "leaving"

Remove(a) == dev' = [dev EXCEPT ![a].use = Unlisted]

(* The hub thread has read the status of the port.                            *)
HubDetaches(a) ==
    /\ hub.pc = "idle" /\ unload \in {"up", "stopped"}
    /\ dev[a].use = "listed" /\ worker[a] = "none" /\ SearchAllowed
    /\ Remove(a)
    /\ hub' = [Resting EXCEPT !.pc = "removed", !.a = a]
    /\ UNCHANGED <<call, hcd, root, owner, feature, waits, handover, worker, unload>>

(* The device is handed to a worker thread, which tells when it has taken it. *)
HandOver(a) ==
    /\ slot' = a
    /\ handled' = FALSE
    /\ starting' = starting + 1
    /\ worker' = [worker EXCEPT ![a] = "handed"]

HubHandsOver ==
    \/ /\ hub.pc = "removed"
       /\ HandOver(hub.a)
       /\ hub' = [hub EXCEPT !.pc = "handed"]
       /\ UNCHANGED <<call, hcd, root, dev, owner, feature, waits, unload>>
    \/ /\ hub.pc = "handed" /\ handled
       /\ hub' = Resting
       /\ UNCHANGED <<call, hcd, root, dev, owner, feature, waits, handover, worker, unload>>

(* DisableOffStreamDevice: nothing is done for a port that is not connected,  *)
(* or whose status could not be read.                                         *)
ReadPort(c) ==
    /\ At(c, "disable") /\ external
    /\ Ask(c) /\ Goto(c, "status")
    /\ UNCHANGED <<hcd, dev, event, orphan, handover, worker>>
PortIsRead(c) ==
    \/ At(c, "disable") /\ ~external /\ UNCHANGED <<xf, event, orphan>>
    \/ /\ At(c, "status") /\ xf[c] = "done"
       /\ Wakes(c) /\ xf' = [xf EXCEPT ![c] = "none"]
PortNotRead(c) ==
    \/ At(c, "disable") /\ UNCHANGED <<xf, event, orphan>>
    \/ At(c, "status") /\ Wakes(c) /\ xf' = [xf EXCEPT ![c] = "none"]

DisableOffStreamDevice(c) ==
    LET a == call[c].a
    IN  /\ \/ ReadPort(c)
           \/ /\ PortIsRead(c) /\ worker[a] = "none"
              /\ Remove(a)
              /\ HandOver(a)
              /\ Goto(c, "handed")
              /\ UNCHANGED hcd
           \/ PortNotRead(c) /\ Returns(c) /\ UNCHANGED <<dev, handover, worker>>
        /\ UNCHANGED <<root, owner, feature, hub, zero, external, unload>>

(* A defect: the worker thread is waited for without a limit.                 *)
WorkerEnded(a) == worker[a] = "none"
(* It is waited for a second.                                                 *)
WaitIsOver(a) == TRUE

(* The end of DetachDevice: the port is disabled.                             *)
DisablePort(c) ==
    \/ /\ At(c, "handed") /\ handled /\ WaitIsOver(call[c].a)
       /\ external /\ Ask(c) /\ Goto(c, "disabling")
       /\ UNCHANGED <<event, orphan>>
    \/ /\ At(c, "handed") /\ handled /\ WaitIsOver(call[c].a)
       /\ Goto(c, "reattach")
       /\ UNCHANGED <<xf, event, orphan>>
    \/ /\ At(c, "disabling") /\ Wakes(c)
       /\ xf' = [xf EXCEPT ![c] = "none"]
       /\ Goto(c, "reattach")

(* The address is reserved, and the device enumerated again; or that was all, *)
(* or there is no address.                                                    *)
Reattach(c) ==
    /\ \/ DisablePort(c) /\ UNCHANGED <<dev, hcd>>
       \/ /\ At(c, "reattach")
          /\ \E b \in Addresses :
                /\ dev[b].use = "free"
                /\ dev' = [dev EXCEPT ![b].use = "reserved"]
                /\ call' = [call EXCEPT ![c].pc = "address0", ![c].a = b]
          /\ UNCHANGED <<hcd, xf, event, orphan>>
       \/ At(c, "reattach") /\ Returns(c) /\ UNCHANGED <<dev, xf, event, orphan>>
    /\ UNCHANGED <<root, owner, feature, hub, zero, external, handover, worker, unload>>

-----------------------------------------------------------------------------
(* AttachDevice, by a client or the hub thread.  The transfers of a phase     *)
(* count as one: until the device has its address under m_csAddress0Lock,     *)
(* and after that without it.                                                 *)

TakeAddress0(t) == zero = Nobody /\ zero' = t /\ Ask(t)

LeaveAddress0(t) == zero' = IF zero = t THEN Nobody ELSE zero

(* A transfer is tried again until too many have failed; then the port is     *)
(* disabled, for which an external hub is asked.                              *)
Enumerated(c) ==
    LET b == call[c].a
    IN  /\ \/ /\ At(c, "address0") /\ TakeAddress0(c)
              /\ Goto(c, "enumerate")
              /\ UNCHANGED <<dev, hcd, event, orphan>>
           \/ /\ At(c, "enumerate") /\ Wakes(c) /\ xf[c] = "done" /\ zero = c
              /\ LeaveAddress0(c)
              /\ Ask(c)
              /\ UNCHANGED <<call, dev, hcd>>
           \/ /\ At(c, "enumerate") /\ Wakes(c) /\ xf[c] = "done" /\ zero # c
              /\ dev' = [dev EXCEPT ![b] = Fresh]
              /\ xf' = [xf EXCEPT ![c] = "none"]
              /\ Returns(c)
              /\ UNCHANGED zero
           \/ /\ At(c, "enumerate") /\ Wakes(c)
              /\ call[c].fails < MaxFailures
              /\ call' = [call EXCEPT ![c].fails = @ + 1]
              /\ Ask(c)
              /\ UNCHANGED <<dev, hcd, zero>>
           \/ /\ At(c, "enumerate") /\ Wakes(c)
              /\ dev' = [dev EXCEPT ![b] = Absent]
              /\ \/ external /\ Ask(c) /\ Goto(c, "failing") /\ UNCHANGED <<hcd, zero>>
                 \/ xf' = [xf EXCEPT ![c] = "none"] /\ Returns(c) /\ LeaveAddress0(c)
           \/ /\ At(c, "failing") /\ Wakes(c)
              /\ xf' = [xf EXCEPT ![c] = "none"]
              /\ Returns(c) /\ LeaveAddress0(c)
              /\ UNCHANGED dev
        /\ UNCHANGED <<root, owner, feature, hub, external, handover, worker, unload>>

HubGoto(pc) == hub' = [hub EXCEPT !.pc = pc]

(* The same by the hub thread.                                                *)
HubEnumerates ==
    /\ \/ /\ hub.pc = "address0" /\ TakeAddress0(HubThread)
          /\ HubGoto("enumerate")
          /\ UNCHANGED <<dev, event, orphan>>
       \/ /\ hub.pc = "address0" /\ ~root
          /\ dev' = [dev EXCEPT ![hub.a] = Absent]
          /\ hub' = Resting
          /\ UNCHANGED <<xf, event, orphan, zero>>
       \/ /\ hub.pc = "enumerate" /\ Wakes(HubThread) /\ xf[HubThread] = "done"
          /\ IF zero = HubThread THEN Ask(HubThread) /\ UNCHANGED hub
             ELSE xf' = [xf EXCEPT ![HubThread] = "none"] /\ HubGoto("insert")
          /\ LeaveAddress0(HubThread)
          /\ UNCHANGED dev
       \/ /\ hub.pc = "enumerate" /\ Wakes(HubThread)
          /\ hub.fails < MaxFailures
          /\ hub' = [hub EXCEPT !.fails = @ + 1]
          /\ Ask(HubThread)
          /\ UNCHANGED <<dev, zero>>
       \/ /\ hub.pc = "enumerate" /\ Wakes(HubThread)
          /\ dev' = [dev EXCEPT ![hub.a] = Absent]
          /\ \/ /\ external /\ root /\ Ask(HubThread)
                /\ HubGoto("failing") /\ UNCHANGED zero
             \/ /\ xf' = [xf EXCEPT ![HubThread] = "none"]
                /\ hub' = Resting /\ LeaveAddress0(HubThread)
       \/ /\ hub.pc = "failing" /\ Wakes(HubThread)
          /\ xf' = [xf EXCEPT ![HubThread] = "none"]
          /\ hub' = Resting /\ LeaveAddress0(HubThread)
          /\ UNCHANGED dev
       \/ /\ hub.pc = "insert" /\ SearchAllowed
          /\ dev' = [dev EXCEPT ![hub.a] = Fresh]
          /\ hub' = Resting
          /\ UNCHANGED <<xf, event, orphan, zero>>
    /\ UNCHANGED <<call, hcd, root, owner, feature, external, handover, worker, unload>>

-----------------------------------------------------------------------------
(* The hub thread.                                                            *)

(* The wait between two polls of a root hub takes the event, and so does one  *)
(* of the waits for a transfer to an external hub.                            *)
HubPolls ==
    /\ hub.pc = "idle" /\ event
    /\ event' = FALSE
    /\ UNCHANGED <<call, hcd, root, dev, owner, feature, hub, xf, orphan, zero, external,
                   handover, worker, unload>>

HubAttaches ==
    /\ hub.pc = "idle" /\ unload = "up"
    /\ \E b \in Addresses :
          /\ dev[b].use = "free"
          /\ dev' = [dev EXCEPT ![b].use = "reserved"]
          /\ hub' = [Resting EXCEPT !.pc = "address0", !.a = b]
    /\ UNCHANGED <<call, hcd, root, owner, feature, waits, handover, worker, unload>>

HubEnds ==
    /\ hub.pc = "idle" /\ unload = "cleared"
    /\ hub' = [Resting EXCEPT !.pc = "ended"]
    /\ UNCHANGED <<call, hcd, root, dev, owner, feature, waits, handover, worker, unload>>

-----------------------------------------------------------------------------
(* CFunction::HandleDetach, on a worker thread or for the unloading: the      *)
(* pipes are closed, USBD is told, and the function is deleted.               *)

(* The worker thread takes what it finds; if two devices were handed over at  *)
(* once, it is the last of them, and the other thread finds none and dies.    *)
WorkerTakes ==
    /\ starting > 0
    /\ starting' = starting - 1
    /\ slot' = Nobody
    /\ handled' = TRUE
    /\ worker' = IF slot = Nobody THEN worker ELSE [worker EXCEPT ![slot] = "begin"]
    /\ UNCHANGED <<call, hcd, root, dev, owner, feature, hub, waits, unload>>

ClosePipes(a) ==
    /\ worker[a] = "begin" /\ owner[a] = Nobody
    /\ dev' = [dev EXCEPT ![a].open = FALSE, ![a].busy = FALSE]
    /\ worker' = [worker EXCEPT ![a] = "usbd"]
    /\ UNCHANGED <<call, hcd, root, owner, feature, hub, waits, handover, unload>>

(* The driver above closes its pipes in turn, which needs the lock of CHcd.   *)
TellUsbd(a) ==
    /\ worker[a] = "usbd" /\ hcd = Nobody
    /\ worker' = [worker EXCEPT ![a] = "told"]
    /\ UNCHANGED <<call, hcd, root, dev, owner, feature, hub, waits, handover, unload>>

Delete(a) ==
    /\ worker[a] = "told"
    /\ dev' = [dev EXCEPT ![a] = Absent]
    /\ worker' = [worker EXCEPT ![a] = "none"]
    /\ UNCHANGED <<call, hcd, root, owner, feature, hub, waits, handover, unload>>

-----------------------------------------------------------------------------
(* DeviceDeInitialize.                                                        *)

StopController ==
    /\ unload = "up"
    /\ unload' = "stopped"
    /\ UNCHANGED <<call, hcd, root, dev, owner, feature, hub, waits, handover, worker>>

(* SetRootHub(NULL); HandleDetach wakes the hub thread.                       *)
ClearRoot ==
    /\ unload = "stopped" /\ hcd = Nobody
    /\ root' = FALSE
    /\ event' = TRUE
    /\ unload' = "cleared"
    /\ UNCHANGED <<call, hcd, dev, owner, feature, hub, xf, orphan, zero, external,
                   handover, worker>>

(* HandleDetach of the hub: its functions are detached under its lock.        *)
DetachAll ==
    \/ /\ unload = "cleared" /\ hub.pc = "ended"
       /\ unload' = "joined"
       /\ UNCHANGED <<dev, worker>>
    \/ /\ unload = "joined"
       /\ \E a \in Addresses :
             /\ dev[a].use = "listed" /\ worker[a] = "none"
             /\ \A b \in Addresses : dev[b].use = "listed" => worker[b] = "none"
             /\ worker' = [worker EXCEPT ![a] = "begin"]
       /\ UNCHANGED <<unload, dev>>
    \/ /\ unload = "joined" /\ \A a \in Addresses : dev[a].use # "listed"
       /\ unload' = "detached"
       /\ UNCHANGED <<dev, worker>>
DetachHub ==
    /\ DetachAll
    /\ UNCHANGED <<call, hcd, root, owner, feature, hub, waits, handover>>

(* CDeviceGlobal::DeInitialize waits for the worker threads.                  *)
Unloaded ==
    /\ unload = "detached" /\ \A a \in Addresses : worker[a] = "none"
    /\ unload' = "done"
    /\ UNCHANGED <<call, hcd, root, dev, owner, feature, hub, waits, handover, worker>>

-----------------------------------------------------------------------------
ClientStep(c) ==
    \/ HubCall(c) \/ FunctionCall(c)
    \/ DisableOffStreamDevice(c) \/ Reattach(c) \/ Enumerated(c)
WorkerStep(a) == ClosePipes(a) \/ TellUsbd(a) \/ Delete(a)
UnloadStep == ClearRoot \/ DetachHub \/ Unloaded

Next ==
    \/ \E c \in Clients : Call(c) \/ ClientStep(c)
    \/ \E a \in Addresses : TransferDone(a) \/ WorkerStep(a) \/ HubDetaches(a)
    \/ \E t \in Threads : EnumerationDone(t)
    \/ OtherDone \/ WorkerTakes
    \/ HubHandsOver \/ HubPolls \/ HubAttaches \/ HubEnumerates \/ HubEnds
    \/ StopController \/ UnloadStep

Spec == Init /\ [][Next]_vars

(* Every thread runs; the controller completes or fails every transfer; the    *)
(* drivers above return from a detach.  A lock that is free is taken in the    *)
(* end by a thread that waits for it.                                          *)
FairSpec ==
    /\ Spec
    /\ \A c \in Clients : WF_vars(ClientStep(c))
    /\ \A a \in Addresses : WF_vars(TransferDone(a)) /\ WF_vars(WorkerStep(a))
    /\ \A t \in Threads : WF_vars(EnumerationDone(t))
    /\ WF_vars(WorkerTakes) /\ WF_vars(HubEnumerates)

-----------------------------------------------------------------------------
(* A call that has found a function in the array of the hub uses it to the     *)
(* end, whatever is unplugged, disabled or unloaded meanwhile: the function is *)
(* still in the array, so it has not been deleted.                             *)
CallsUseLiveDevice ==
    \A c \in Clients :
        call[c].pc \in {"function", "inside", "feature", "suspending", "disable", "status"} =>
            dev[call[c].a].use = "listed"

(* Once USBD is told that a function is gone, none of its pipes is open and    *)
(* no transfer of it is in progress; no call can start one afterwards.         *)
QuietAfterDetach ==
    \A a \in Addresses :
        worker[a] \in {"usbd", "told"} =>
            /\ ~dev[a].open /\ ~dev[a].busy
            /\ feature[a] = "none" /\ owner[a] = Nobody

(* Its wake-up was taken by another thread that waits on the event of the hub, *)
(* or it waits for the address 0 lock of a thread to which that has happened.  *)
Stuck(t) == xf[t] = "done" /\ ~event
WakeupTaken(c) == Stuck(c) \/ (At(c, "address0") /\ \E t \in Threads : zero = t /\ Stuck(t))
(* Its device, or that of the hub thread, was overwritten by the other.        *)
HandoverLost == \E a \in Addresses : worker[a] = "handed" /\ slot # a

(* The lock of the driver is left in the end by every call that takes it:      *)
(* nothing it waits for needs the lock.  That excepts a call that has lost a   *)
(* wake-up or its device to another thread, and one in which the controller is *)
(* stopped.                                                                    *)
LockLeft ==
    \A c \in Clients : hcd = c ~> hcd # c \/ unload # "up" \/ WakeupTaken(c) \/ HandoverLost

(* A thread that wakes up finds its transfer done (cdevice.cpp:3397, 3603).     *)
DoneWhenWoken == ~orphan

(* A device is handed over only when the one before has been taken.            *)
SlotTaken == starting <= 1

=============================================================================
