-------------------------------- MODULE UsbHub --------------------------------
(****************************************************************************)
(* The hubs of the USB driver (cdevice.cpp): a root hub and external hubs,  *)
(* each with a thread that waits for changes of its ports, enumerates what  *)
(* is plugged in (AttachDevice) and hands what is gone to a worker thread   *)
(* (DetachDevice, HandleDetach); the addresses 1..127 and the lock of       *)
(* address 0 that all of them share; and the unloading of the driver.       *)
(*                                                                          *)
(* A device is known by its address, 0 being the root hub.  A step of a     *)
(* thread ends where it waits for a transfer or lets other threads in.      *)
(****************************************************************************)
EXTENDS Integers, FiniteSets

CONSTANTS
    RootPorts,    \* the ports of the root hub
    HubPort,      \* the one of them an external hub may be plugged in
    LowerPorts,   \* the ports of the external hub
    MaxAddress,   \* USB_MAX_ADDRESS
    MaxFailures,  \* an enumeration gives up after more failures than this (2)
    MaxEvents     \* bound: what happens from outside while the driver runs: devices
                  \* plugged in and out, ports disabled, requests that fail

ASSUME HubAssumption ==
    /\ HubPort \in RootPorts
    /\ RootPorts \cap LowerPorts = {}
    /\ MaxAddress \in Nat \ {0}
    /\ {MaxFailures, MaxEvents} \subseteq Nat

VARIABLES
    plug,      \* what is plugged in at each port: none, function, hub
    answers,   \* the address it answers to, or Off
    change,    \* the change bits of the port: connect, enable
    seen,      \* since the last (un)plugging AttachDevice has been called, or GetStatus failed
    dev,       \* the devices by address: use, kind, parent hub, port, progress of HandleDetach
    thr,       \* the hub threads, by the address of their hub
    closing,   \* m_fHubThreadClosing
    event,     \* m_hHubStatusChangeEvent, auto-reset
    slot,      \* m_pDetachedDevice
    addr0,     \* the lock of address 0: its owner, and whether it is closing
    known,     \* the functions whose attach USBD has accepted
    countdown, \* m_objCountdown: the worker threads that detach a device
    unload,    \* up, closing, done
    events,
    stray      \* history: the ports left enabled with a device nobody enumerates at address 0:
               \* the request that disables the port failed, or was not made

physical == <<plug, answers, change, seen, events, stray>>
driver   == <<dev, slot, known, countdown>>
vars == <<physical, driver, thr, closing, event, addr0, unload>>

Root      == 0
Addresses == 1 .. MaxAddress
Hubs      == 0 .. MaxAddress
Ports     == RootPorts \cup LowerPorts
Off       == -1
NoThread  == -1

PortsOf(h) == IF h = Root THEN RootPorts ELSE LowerPorts

NoDevice == [use |-> "free", kind |-> "none", up |-> Root, port |-> HubPort, stage |-> "none", by |-> "none"]
NoWork   == [pc |-> "none", kind |-> "none", port |-> HubPort, chg |-> {}, conn |-> FALSE,
             addr |-> 0, fails |-> 0, xf |-> "none"]

Device(kind, h, p) ==
    [NoDevice EXCEPT !.use = "reserved", !.kind = kind, !.up = h, !.port = p]
HubThread == [NoWork EXCEPT !.pc = "power"]

AttachSteps == {"open", "locking", "reset", "test", "setaddr", "configure",
                "create", "operate", "failed"}
Attaching(t) == thr[t].pc \in AttachSteps \cup {"client"}

(* Devices may be plugged in when the driver is loaded.                       *)
Init ==
    /\ plug \in [Ports -> {"none", "function", "hub"}]
    /\ \A p \in Ports : /\ plug[p] = "hub" => p = HubPort
                        /\ p \in LowerPorts /\ plug[p] # "none" => plug[HubPort] = "hub"
    /\ change = [p \in Ports |-> IF plug[p] = "none" THEN {} ELSE {"connect"}]
    /\ answers = [p \in Ports |-> Off]
    /\ seen = [p \in Ports |-> FALSE]
    /\ dev = [a \in Hubs |-> IF a = Root THEN [NoDevice EXCEPT !.use = "listed", !.kind = "hub"] ELSE NoDevice]
    /\ thr = [t \in Hubs |-> IF t = Root THEN HubThread ELSE NoWork]
    /\ closing = [h \in Hubs |-> FALSE] /\ event = [h \in Hubs |-> FALSE]
    /\ slot = [h \in Hubs |-> 0]
    /\ addr0 = [owner |-> NoThread, closing |-> FALSE]
    /\ known = {} /\ countdown = 0 /\ unload = "up"
    /\ events = 0 /\ stray = {}

-----------------------------------------------------------------------------
(* The bus.                                                                   *)

(* The external hub with address h is there and its port is enabled.          *)
Present(h) == h = Root \/ answers[HubPort] = h

(* A port that is disabled cuts off what is below.                            *)
CutOff(ans, p) ==
    [q \in Ports |-> IF q = p \/ (p = HubPort /\ q \in LowerPorts) THEN Off ELSE ans[q]]

(* Something happens from outside.                                            *)
Happens == events < MaxEvents /\ events' = events + 1

Plug(p) ==
    /\ Happens /\ unload = "up" /\ plug[p] = "none"
    /\ p \in LowerPorts => plug[HubPort] = "hub"
    /\ \E kind \in {"function"} \cup (IF p = HubPort THEN {"hub"} ELSE {}) :
          plug' = [plug EXCEPT ![p] = kind]
    /\ change' = [change EXCEPT ![p] = @ \cup {"connect"}]
    /\ seen' = [seen EXCEPT ![p] = FALSE]
    /\ UNCHANGED <<answers, stray, driver, thr, closing, event, addr0, unload>>

(* What is unplugged with the external hub is plugged in again with it.       *)
Unplug(p) ==
    /\ Happens /\ unload = "up" /\ plug[p] # "none"
    /\ plug' = [plug EXCEPT ![p] = "none"]
    /\ answers' = CutOff(answers, p)
    /\ change' = [change EXCEPT ![p] = @ \cup {"connect"}]
    /\ seen' = [seen EXCEPT ![p] = FALSE]
    /\ UNCHANGED <<stray, driver, thr, closing, event, addr0, unload>>

(* The hardware disables a port, after babble for instance.                   *)
Fault(p) ==
    /\ Happens /\ unload = "up" /\ answers[p] # Off
    /\ answers' = CutOff(answers, p)
    /\ change' = [change EXCEPT ![p] = @ \cup {"enable"}]
    /\ UNCHANGED <<plug, seen, stray, driver, thr, closing, event, addr0, unload>>

-----------------------------------------------------------------------------
(* Who may do what.                                                           *)

Listed(h, p) == {a \in Addresses : dev[a].use = "listed" /\ dev[a].up = h /\ dev[a].port = p}

(* The first test of every turn of the loop of AttachDevice.                  *)
GivesUp(t) == closing[t] \/ thr[t].fails > MaxFailures

At(t, pc)   == thr[t].pc = pc /\ thr[t].xf = "none"
Goto(t, pc) == thr' = [thr EXCEPT ![t].pc = pc]
Resting     == [NoWork EXCEPT !.pc = "wait"]
Rests(t)    == thr' = [thr EXCEPT ![t] = Resting]
Step(t, pc) == At(t, pc) /\ ~GivesUp(t)
Fails(t, pc) == thr' = [thr EXCEPT ![t].pc = pc, ![t].fails = @ + 1, ![t].xf = "none"]

(* Requests whose result nobody looks at.                                      *)
Ignored == {"clear", "reclear", "disable", "release"}

(* The root hub is asked by registers; everything else is a transfer.         *)
Requests(t) ==
    {"test", "setaddr", "configure"}
        \cup (IF t = Root THEN {} ELSE {"power", "wait", "status", "poll", "reset"} \cup Ignored)

ReserveAddress ==
    CHOOSE a \in Addresses : dev[a].use = "free" /\ \A b \in 1 .. a - 1 : dev[b].use # "free"
NoAddressLeft == \A a \in Addresses : dev[a].use # "free"

-----------------------------------------------------------------------------
(* Transfers: issued, completed by the controller, waited for on the event of *)
(* the hub.  No transfer completes once the controller has been stopped.      *)

Issue(t) ==
    /\ thr[t].xf = "none" /\ thr[t].pc \in Requests(t) /\ ~closing[t]
    /\ thr[t].pc \in AttachSteps => ~GivesUp(t)
    /\ thr' = [thr EXCEPT ![t].xf = "busy"]
    /\ UNCHANGED <<physical, driver, closing, event, addr0, unload>>

(* The device the transfer of t is for: its hub, address 0 or the new address. *)
Target(t) ==
    CASE thr[t].pc \in {"test", "setaddr"} -> 0
      [] thr[t].pc = "configure" -> thr[t].addr
      [] OTHER -> t

Absent(t) == \A p \in Ports : answers[p] # Target(t)
Responds(t) ==
    /\ ~Absent(t)
    /\ thr[t].pc = "wait" => \E p \in LowerPorts : change[p] # {}

(* What a request does to the bus.  Whoever answers to address 0 takes the     *)
(* address, a stray too.                                                       *)
Affects(t) ==
    LET p == thr[t].port
    IN  CASE thr[t].pc = "setaddr" ->
                answers' = [q \in Ports |-> IF answers[q] = 0 THEN thr[t].addr ELSE answers[q]]
          [] thr[t].pc = "reset" ->
                answers' = [answers EXCEPT ![p] = IF plug[p] = "none" THEN Off ELSE 0]
          [] thr[t].pc \in {"disable", "release"} -> answers' = CutOff(answers, p)
          [] OTHER -> UNCHANGED answers

(* The change bits a request clears.                                           *)
Cleared(t) ==
    CASE thr[t].pc = "clear"   -> thr[t].chg
      [] thr[t].pc = "reclear" -> {"connect"}
      [] OTHER -> {}

(* The ports report what is plugged in when they get power.                    *)
Changes(t, bits) ==
    change' = IF thr[t].pc = "power"
              THEN [p \in Ports |-> IF p \in LowerPorts
                                    THEN IF plug[p] = "none" THEN {} ELSE {"connect"}
                                    ELSE change[p]]
              ELSE [change EXCEPT ![thr[t].port] = @ \ bits]

(* The port a hub reports, and its status.                                     *)
Reads(t, p) == [thr[t] EXCEPT !.xf = "ok", !.port = p, !.chg = change[p], !.conn = plug[p] # "none"]

Answer(t) ==
    CASE thr[t].pc = "status" ->
            \E p \in LowerPorts : change[p] # {} /\ thr' = [thr EXCEPT ![t] = Reads(t, p)]
      [] thr[t].pc = "poll" -> thr' = [thr EXCEPT ![t] = Reads(t, thr[t].port)]
      [] thr[t].pc = "configure" -> thr' = [thr EXCEPT ![t].xf = "ok", ![t].kind = plug[thr[t].port]]
      [] OTHER -> thr' = [thr EXCEPT ![t].xf = "ok"]

(* The bound on the events counts neither what fails because nothing answers,  *)
(* nor the requests whose failure is ignored.                                  *)
Errs(t) == IF Absent(t) \/ thr[t].pc \in Ignored THEN UNCHANGED events ELSE Happens

(* A request may fail before or after it has had its effect, or part of it.    *)
Complete(t) ==
    /\ thr[t].xf = "busy" /\ unload = "up"
    /\ \/ /\ Responds(t) /\ Answer(t)
          /\ Affects(t) /\ Changes(t, Cleared(t))
          /\ UNCHANGED events
       \/ /\ Responds(t) /\ Errs(t)
          /\ thr' = [thr EXCEPT ![t].xf = "bad"]
          /\ Affects(t)
          /\ \E bits \in SUBSET Cleared(t) : Changes(t, bits)
       \/ /\ Errs(t)
          /\ thr' = [thr EXCEPT ![t].xf = "bad"]
          /\ UNCHANGED <<answers, change>>
    /\ event' = [event EXCEPT ![t] = TRUE]
    /\ UNCHANGED <<plug, seen, stray, driver, closing, addr0, unload>>

(* Where a thread goes on after its request.                                   *)
OnSuccess(pc) ==
    CASE pc = "power" -> "wait"   [] pc = "wait" -> "status"  [] pc = "status" -> "clear"
      [] pc = "poll" -> "polled"  [] pc = "reset" -> "test"   [] pc = "test" -> "setaddr"
      [] pc = "setaddr" -> "configure" [] pc = "configure" -> "create"
      [] pc = "clear" -> "changed" [] pc \in {"reclear", "disable"} -> "poll"
      [] pc = "release" -> "leave"
OnFailure(pc) ==
    CASE pc \in {"power", "reset", "configure"} -> pc
      [] pc \in {"wait", "status", "poll"} -> "wait"
      [] pc \in {"test", "setaddr"} -> "reset"
      [] pc = "release" -> "strand"
      [] pc \in Ignored \ {"release"} -> OnSuccess(pc)

(* GetDescriptor and its like return; a request not done has been aborted.     *)
(* A halted pipe ends the enumeration at once, so does what the hub cannot     *)
(* have: another hub at the last tier, a device that asks for too much power.  *)
Wake(t) ==
    /\ thr[t].xf # "none" /\ event[t]
    /\ event' = [event EXCEPT ![t] = FALSE]
    /\ LET pc == thr[t].pc
       IN  \/ /\ thr[t].xf = "ok"
              /\ thr' = [thr EXCEPT ![t].pc = OnSuccess(pc), ![t].xf = "none"]
              /\ addr0' = IF pc = "setaddr" THEN [addr0 EXCEPT !.owner = NoThread] ELSE addr0
              /\ UNCHANGED events
           \/ /\ thr[t].xf # "ok" /\ pc \in Ignored
              /\ thr' = [thr EXCEPT ![t].pc = OnFailure(pc), ![t].xf = "none"]
              /\ UNCHANGED <<addr0, events>>
           \/ /\ thr[t].xf # "ok" /\ pc \notin AttachSteps \cup Ignored
              /\ thr' = [thr EXCEPT ![t] = [NoWork EXCEPT !.pc = OnFailure(pc)]]
              /\ UNCHANGED <<addr0, events>>
           \/ /\ thr[t].xf # "ok" /\ pc \in AttachSteps
              /\ Fails(t, OnFailure(pc)) \/ (pc # "reset" /\ Fails(t, "failed"))
              /\ UNCHANGED <<addr0, events>>
           \/ /\ thr[t].xf = "ok" /\ pc = "configure" /\ Happens
              /\ Fails(t, "failed")
              /\ UNCHANGED addr0
    /\ seen' = [seen EXCEPT ![thr[t].port] = @ \/ (thr[t].pc = "poll" /\ thr[t].xf # "ok")]
    /\ UNCHANGED <<plug, answers, change, stray, driver, closing, unload>>

(* A hub that closes is asked nothing more: these requests are left out.       *)
Skipped(h) ==
    /\ h # Root /\ closing[h] /\ \E pc \in Ignored : At(h, pc)
    /\ Goto(h, OnFailure(thr[h].pc))
    /\ UNCHANGED <<physical, driver, closing, event, addr0, unload>>

-----------------------------------------------------------------------------
(* HubStatusChangeThread.                                                      *)

ThreadEnds(h) ==
    /\ thr[h].pc \in {"power", "wait"} /\ thr[h].xf = "none" /\ closing[h]
    /\ Goto(h, "ended")
    /\ UNCHANGED <<physical, driver, closing, event, addr0, unload>>

(* The root hub has power, and is polled every 100 ms; the wait in between     *)
(* takes the event if it is set.                                               *)
RootPoll ==
    /\ At(Root, "power") \/ At(Root, "wait")
    /\ ~closing[Root]
    /\ event' = [event EXCEPT ![Root] = FALSE]
    /\ IF thr[Root].pc = "power" THEN Goto(Root, "wait")
       ELSE \E p \in RootPorts :
               /\ change[p] # {}
               /\ thr' = [thr EXCEPT ![Root] = [Reads(Root, p) EXCEPT !.pc = "changed", !.xf = "none"]]
    /\ UNCHANGED <<physical, driver, closing, addr0, unload>>

(* The root hub clears the change bits of a port at once.                      *)
Clears(h, bits) ==
    change' = IF h = Root THEN [change EXCEPT ![thr[h].port] = @ \ bits] ELSE change

Detach(t, p) ==
    IF Listed(t, p) = {}
    THEN Goto(t, "poll") /\ UNCHANGED driver
    ELSE \E a \in Listed(t, p) :
            /\ dev' = [dev EXCEPT ![a].use = "leaving", ![a].stage = "handed", ![a].by = "worker"]
            /\ slot' = [slot EXCEPT ![t] = a]
            /\ countdown' = countdown + 1
            /\ thr' = [thr EXCEPT ![t].pc = "handed", ![t].addr = a]
            /\ UNCHANGED known

(* A defect: a port that is disabled by the hardware is ignored.               *)
DisabledIgnored(h) == FALSE
(* A port was disabled while its device stayed connected: the device is        *)
(* detached, and taken for a new one.                                          *)
Disabled(h) == "enable" \in thr[h].chg /\ thr[h].conn /\ Listed(h, thr[h].port) # {}

(* What a port reports, once the changes that were read are cleared.           *)
PortChanged(h) ==
    /\ At(h, "changed")
    /\ Clears(h, thr[h].chg)
    /\ IF ~closing[h] /\ (Disabled(h) \/ "connect" \in thr[h].chg)
       THEN Detach(h, thr[h].port)
       ELSE Rests(h) /\ UNCHANGED driver
    /\ UNCHANGED <<plug, answers, seen, events, stray, closing, event, addr0, unload>>

(* DetachDevice goes on when the worker has taken the device and has had a     *)
(* second for it; the port is disabled, by a request on an external hub.       *)
Detached(t) ==
    /\ At(t, "handed") /\ dev[thr[t].addr].stage # "handed"
    /\ answers' = IF t = Root THEN CutOff(answers, thr[t].port) ELSE answers
    /\ thr' = [thr EXCEPT ![t].pc = IF t = Root THEN "poll" ELSE "disable", ![t].addr = 0]
    /\ UNCHANGED <<plug, change, seen, events, stray, driver, closing, event, addr0, unload>>

(* The root hub answers at once.                                               *)
RootPolled(h) ==
    /\ At(h, "poll") /\ h = Root
    /\ thr' = [thr EXCEPT ![h] = [Reads(h, thr[h].port) EXCEPT !.pc = "polled", !.xf = "none"]]
    /\ UNCHANGED <<physical, driver, closing, event, addr0, unload>>

(* GetStatus fails at once when the hub closes.                                *)
Refused(h) ==
    /\ At(h, "poll") \/ At(h, "status")
    /\ h # Root /\ closing[h]
    /\ Rests(h)
    /\ UNCHANGED <<physical, driver, closing, event, addr0, unload>>

(* The port has not changed since it was last asked.                           *)
Stable(t) == "connect" \notin thr[t].chg

(* The debouncing loop: the change is cleared and the port asked again until   *)
(* it has not changed.                                                         *)
Polled(h) ==
    /\ At(h, "polled")
    /\ \/ /\ ~Stable(h)
          /\ Clears(h, {"connect"})
          /\ Goto(h, IF h = Root THEN "poll" ELSE "reclear")
       \/ /\ Stable(h)
          /\ IF thr[h].conn THEN Goto(h, "attach") ELSE Rests(h)
          /\ UNCHANGED change
    /\ UNCHANGED <<plug, answers, seen, events, stray, driver, closing, event, addr0, unload>>

-----------------------------------------------------------------------------
(* AttachDevice.                                                               *)

Reserve(h) ==
    /\ At(h, "attach")
    /\ seen' = [seen EXCEPT ![thr[h].port] = TRUE]
    /\ IF NoAddressLeft
       THEN Rests(h) /\ UNCHANGED dev
       ELSE /\ dev' = [dev EXCEPT ![ReserveAddress].use = "reserved"]
            /\ thr' = [thr EXCEPT ![h].pc = "open", ![h].addr = ReserveAddress, ![h].fails = 0]
    /\ UNCHANGED <<plug, answers, change, events, stray, slot, known, countdown,
                   closing, event, addr0, unload>>

GiveUp(h) ==
    /\ thr[h].pc \in AttachSteps \ {"locking", "failed"} /\ thr[h].xf = "none" /\ GivesUp(h)
    /\ Goto(h, "failed")
    /\ UNCHANGED <<physical, driver, closing, event, addr0, unload>>

(* The pipe of the new device is opened before the lock of address 0 is taken. *)
OpenPipe0(h) ==
    /\ Step(h, "open")
    /\ \/ Goto(h, "locking") /\ UNCHANGED events
       \/ Happens /\ Fails(h, "open")
    /\ UNCHANGED <<plug, answers, change, seen, stray, driver, closing, event, addr0, unload>>

(* A defect: the lock of address 0 is not waited for.                          *)
Unlocked == TRUE
Address0Free == addr0.owner = NoThread

(* The lock is waited for whatever happens to the hub; it fails once the       *)
(* driver unloads.                                                             *)
LockAddress0(h) ==
    /\ At(h, "locking")
    /\ \/ /\ addr0.closing
          /\ Goto(h, "failed")
          /\ UNCHANGED <<addr0, stray>>
       \/ /\ ~addr0.closing /\ Address0Free
          /\ addr0' = [addr0 EXCEPT !.owner = h]
          /\ stray' = IF Present(h) THEN stray \ {thr[h].port} ELSE stray
          /\ Goto(h, "reset")
    /\ UNCHANGED <<plug, answers, change, seen, events, driver, closing, event, unload>>

RootReset ==
    /\ Step(Root, "reset")
    /\ LET p == thr[Root].port
       IN  IF plug[p] # "none"
           THEN /\ answers' = [CutOff(answers, p) EXCEPT ![p] = 0]
                /\ Goto(Root, "test")
           ELSE Fails(Root, "reset") /\ UNCHANGED answers
    /\ UNCHANGED <<plug, change, seen, events, stray, driver, closing, event, addr0, unload>>

(* The device is made and put into the array of the hub.                       *)
Create(h) ==
    /\ Step(h, "create")
    /\ \/ /\ dev' = [dev EXCEPT ![thr[h].addr] =
                        [Device(thr[h].kind, h, thr[h].port) EXCEPT !.use = "listed"]]
          /\ Goto(h, "operate")
          /\ UNCHANGED events
       \/ Happens /\ Fails(h, "create") /\ UNCHANGED dev
    /\ UNCHANGED <<plug, answers, change, seen, stray, slot, known, countdown, closing, event, addr0, unload>>

(* EnterOperationalState: a hub starts its thread, a function calls USBD.      *)
Operate(h) ==
    /\ Step(h, "operate")
    /\ LET a == thr[h].addr
       IN  IF dev[a].kind = "hub"
           THEN \/ /\ thr' = [thr EXCEPT ![h] = Resting, ![a] = HubThread]
                   /\ closing' = [closing EXCEPT ![a] = FALSE]
                   /\ event' = [event EXCEPT ![a] = FALSE]
                   /\ UNCHANGED events
                \/ Happens /\ Fails(h, "failed") /\ UNCHANGED <<closing, event>>
           ELSE Goto(h, "client") /\ UNCHANGED <<closing, event, events>>
    /\ UNCHANGED <<plug, answers, change, seen, stray, driver, addr0, unload>>

ClientAttaches(h) ==
    /\ At(h, "client")
    /\ \/ known' = known \cup {thr[h].addr} /\ Rests(h) /\ UNCHANGED events
       \/ Happens /\ Fails(h, "failed") /\ UNCHANGED known
    /\ UNCHANGED <<plug, answers, change, seen, stray, dev, slot, countdown, closing, event, addr0, unload>>

(* A defect: the address of a device that was never made is not freed.         *)
KeepsAddress(h) == IF dev[thr[h].addr].use = "listed" THEN NoDevice ELSE dev[thr[h].addr]
(* The device is deleted, which frees its address, or the address is freed.    *)
Undone(h) == NoDevice

Failed(h) ==
    /\ At(h, "failed")
    /\ dev' = [dev EXCEPT ![thr[h].addr] = Undone(h)]
    /\ thr' = [thr EXCEPT ![h].pc = "release", ![h].addr = 0]
    /\ UNCHANGED <<physical, slot, known, countdown, closing, event, addr0, unload>>

(* The port is to be disabled before another hub may use address 0: by the     *)
(* root hub at once, by a request that may fail on an external hub.            *)
Release(h) ==
    /\ \E pc \in {"leave", "strand"} \cup (IF h = Root THEN {"release"} ELSE {}) : At(h, pc)
    /\ answers' = IF h = Root THEN CutOff(answers, thr[h].port) ELSE answers
    /\ stray' = IF thr[h].pc = "strand" THEN stray \cup {thr[h].port} ELSE stray
    /\ addr0' = IF addr0.owner = h THEN [addr0 EXCEPT !.owner = NoThread] ELSE addr0
    /\ Rests(h)
    /\ UNCHANGED <<plug, change, seen, events, driver, closing, event, unload>>

-----------------------------------------------------------------------------
(* HandleDetach, on a worker thread, in the HandleDetach of the parent, or by  *)
(* the thread that unloads the driver.                                         *)

Leaving(a, stage) == dev[a].use = "leaving" /\ dev[a].stage = stage
Moves(a, stage) == dev' = [dev EXCEPT ![a].stage = stage]

TakeDetached(h) ==
    /\ slot[h] # 0
    /\ slot' = [slot EXCEPT ![h] = 0]
    /\ Moves(slot[h], "begin")
    /\ UNCHANGED <<physical, known, countdown, thr, closing, event, addr0, unload>>

CloseFunction(a) ==
    /\ Leaving(a, "begin") /\ dev[a].kind = "function"
    /\ Moves(a, "usbd")
    /\ UNCHANGED <<physical, slot, known, countdown, thr, closing, event, addr0, unload>>

(* A defect: the event is set before the flag.                                 *)
FlagLast == "signal"
FlagSetAt == "begin"

CloseHub(a) ==
    /\ Leaving(a, "begin") \/ Leaving(a, "signal")
    /\ dev[a].kind = "hub"
    /\ Moves(a, IF dev[a].stage = "begin" THEN "signal" ELSE "wait")
    /\ IF dev[a].stage = FlagSetAt
       THEN closing' = [closing EXCEPT ![a] = TRUE] /\ UNCHANGED event
       ELSE event' = [event EXCEPT ![a] = TRUE] /\ UNCHANGED closing
    /\ addr0' = IF a = Root /\ dev[a].stage = "signal" THEN [addr0 EXCEPT !.closing = TRUE] ELSE addr0
    /\ UNCHANGED <<physical, slot, known, countdown, thr, unload>>

(* A defect: the hub thread is not waited for.                                 *)
NotWaitedFor(a) == TRUE
ThreadEnded(a) == thr[a].pc = "ended"

HubThreadEnded(a) ==
    /\ Leaving(a, "wait") /\ ThreadEnded(a)
    /\ Moves(a, "ports")
    /\ UNCHANGED <<physical, slot, known, countdown, thr, closing, event, addr0, unload>>

Below(a) == {b \in Addresses : dev[b].up = a /\ (dev[b].use = "listed" \/ dev[b].by = "parent")}

DetachPort(a) ==
    /\ Leaving(a, "ports")
    /\ \A b \in Below(a) : dev[b].use = "listed"
    /\ \E b \in Below(a) :
          dev' = [dev EXCEPT ![b].use = "leaving", ![b].stage = "begin", ![b].by = "parent"]
    /\ UNCHANGED <<physical, slot, known, countdown, thr, closing, event, addr0, unload>>

(* The call of USBD returns, or all ports are done: the device is deleted.     *)
Delete(a) ==
    /\ Leaving(a, "usbd") \/ (Leaving(a, "ports") /\ Below(a) = {})
    /\ dev' = [dev EXCEPT ![a] = NoDevice]
    /\ known' = known \ {a}
    /\ countdown' = IF dev[a].by = "worker" THEN countdown - 1 ELSE countdown
    /\ thr' = [thr EXCEPT ![a] = NoWork]
    /\ UNCHANGED <<physical, slot, closing, event, addr0, unload>>

(* DeviceDeInitialize: the controller stops, and the root hub is detached.     *)
Unload ==
    /\ unload = "up"
    /\ unload' = "closing"
    /\ dev' = [dev EXCEPT ![Root].use = "leaving", ![Root].stage = "begin", ![Root].by = "unload"]
    /\ UNCHANGED <<physical, slot, known, countdown, thr, closing, event, addr0>>

(* A defect: the stray worker threads are not waited for.                      *)
StraysLeft == TRUE
NoStrays == countdown = 0

(* CDeviceGlobal::DeInitialize.                                                *)
Unloaded ==
    /\ unload = "closing" /\ dev[Root].use = "free" /\ NoStrays
    /\ unload' = "done"
    /\ UNCHANGED <<physical, driver, thr, closing, event, addr0>>

-----------------------------------------------------------------------------
HubStep(h) ==
    \/ Issue(h) \/ Wake(h) \/ Skipped(h)
    \/ ThreadEnds(h) \/ PortChanged(h) \/ Detached(h)
    \/ RootPolled(h) \/ Refused(h) \/ Polled(h)
    \/ Reserve(h) \/ GiveUp(h) \/ OpenPipe0(h) \/ LockAddress0(h)
    \/ Create(h) \/ Operate(h) \/ ClientAttaches(h) \/ Failed(h) \/ Release(h)
DetachStep(a) ==
    \/ TakeDetached(a) \/ CloseFunction(a) \/ CloseHub(a) \/ HubThreadEnded(a)
    \/ DetachPort(a) \/ Delete(a)

Next ==
    \/ \E p \in Ports : Plug(p) \/ Unplug(p) \/ Fault(p)
    \/ \E h \in Hubs : HubStep(h) \/ Complete(h) \/ DetachStep(h)
    \/ RootPoll \/ RootReset
    \/ Unload \/ Unloaded

Spec == Init /\ [][Next]_vars

-----------------------------------------------------------------------------
(* Whichever hubs enumerate, and whatever fails: what answers to address 0 is  *)
(* the device the owner of the lock enumerates, so that its requests reach no  *)
(* other, but for a device left behind by an external hub that did not get its *)
(* port disabled.                                                              *)
OneAtAddressZero ==
    \A p \in Ports : answers[p] = 0 /\ p \notin stray =>
        /\ addr0.owner # NoThread /\ Present(addr0.owner)
        /\ p \in PortsOf(addr0.owner) /\ thr[addr0.owner].port = p

(* What AttachDevice says of its failure, that the port will be disabled,      *)
(* would give this; no run checks it, for it is false on an external hub.      *)
ZeroAlone == Cardinality({p \in Ports : answers[p] = 0}) <= 1

(* An address is reserved exactly while one thread enumerates a device for it, *)
(* until the device is in the array of its hub: none leaks when an enumeration *)
(* fails, and none is given to two devices.                                    *)
AddressesOwned ==
    /\ \A a \in Addresses :
          dev[a].use = "reserved" =>
              \E h \in Hubs : Attaching(h) /\ thr[h].addr = a
    /\ \A h \in Hubs : Attaching(h) =>
          /\ dev[thr[h].addr].use \in {"reserved", "listed"}
          /\ \A g \in Hubs \ {h} : Attaching(g) => thr[g].addr # thr[h].addr

(* Every function USBD has accepted is one that HandleDetach will reach, or is *)
(* at: in the array of a hub that is itself in use, or on its way out.         *)
DetachReaches ==
    \A a \in known :
        /\ dev[a].use \in {"listed", "leaving"}
        /\ dev[a].use = "listed" => dev[dev[a].up].use \in {"listed", "leaving"}

(* Once the driver is unloaded no device, address or thread of it is left, and *)
(* USBD knows none of its functions.                                           *)
CleanUnload ==
    unload = "done" =>
        /\ known = {} /\ addr0.owner = NoThread
        /\ \A a \in Hubs : dev[a].use = "free" /\ thr[a].pc = "none"

(* A hub at rest has noticed everything: what it lists is plugged in and has   *)
(* its address, and it has tried to attach whatever is plugged in, unless the  *)
(* port could not be read.                                                     *)
PortsNoticed ==
    \A h \in Hubs : \A p \in PortsOf(h) :
        /\ dev[h].use = "listed" /\ dev[h].kind = "hub" /\ thr[h].pc = "wait"
        /\ thr[h].xf # "ok" /\ change[p] = {} /\ Present(h)
        => /\ \A a \in Listed(h, p) : plug[p] # "none" /\ answers[p] = a
           /\ plug[p] # "none" => seen[p]

(* A worker thread uses the hub it was started by to the end.                  *)
WorkerHasHub ==
    \A a \in Addresses :
        dev[a].use = "leaving" /\ dev[a].by = "worker" => dev[dev[a].up].use # "free"

(* The thread of a hub always learns that the hub is closing: HandleDetach     *)
(* never waits for a thread that waits for a transfer nobody will complete.    *)
HubThreadHears ==
    \A h \in Hubs : dev[h].use = "leaving" /\ dev[h].stage = "wait" /\ thr[h].xf # "none" => event[h]

=============================================================================
