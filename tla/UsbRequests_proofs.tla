-------------------------- MODULE UsbRequests_proofs --------------------------
(* Proofs about the calls into the USB driver, for any number of threads,     *)
(* devices and retries of an enumeration.                                     *)
EXTENDS UsbRequests, TLAPS

Operations == {"none", "open", "close", "issue", "abort", "halted", "reset", "disable",
               "suspend", "resume"}
CallStates == {"idle", "hub", "function", "inside", "feature", "suspending", "disable", "status",
               "handed", "disabling", "reattach", "address0", "enumerate", "failing"}
Uses       == {"free", "reserved", "listed", "leaving"}

Calls   == [op : Operations, a : Addresses, pc : CallStates, fails : Nat]
Devices == [use : Uses, open : BOOLEAN, busy : BOOLEAN]
HubStates == {"idle", "removed", "handed", "address0", "enumerate", "failing", "insert", "ended"}
Hubs    == [pc : HubStates, a : Addresses, fails : Nat]

Types == /\ call \in [Clients -> Calls]
         /\ hcd \in Clients \cup {Nobody}
         /\ root \in BOOLEAN
         /\ dev \in [Addresses -> Devices]
         /\ owner \in [Addresses -> Clients \cup {Nobody}]
         /\ feature \in [Addresses -> {"none", "busy", "set"}]
         /\ hub \in Hubs
         /\ slot \in Addresses \cup {Nobody}
         /\ worker \in [Addresses -> {"none", "handed", "begin", "usbd", "told"}]
         /\ unload \in {"up", "stopped", "cleared", "joined", "detached", "done"}

(* The driver's lock is held by the one call that is under way, and from      *)
(* SetRootHub(NULL) on by none.                                               *)
LockInv == /\ \A c \in Clients : call[c].pc # "idle" <=> hcd = c
           /\ root <=> unload \in {"up", "stopped"}
           /\ ~root => hcd = Nobody

(* The states in which a call relies on the device it has found.              *)
Using == {"function", "inside", "feature", "suspending", "disable", "status"}
InFunction == {"inside", "feature", "suspending"}
(* The states in which a client, or the hub thread, has an address reserved.  *)
Reserving    == {"address0", "enumerate"}
HubReserving == {"address0", "enumerate", "insert"}

(* Who has a hold on the entry of an address in the array of the hub.         *)
EntryInv ==
  /\ \A c \in Clients : /\ call[c].pc \in Using => dev[call[c].a].use = "listed"
                        /\ call[c].pc \in Reserving => dev[call[c].a].use = "reserved"
  /\ hub.pc \in HubReserving =>
        /\ dev[hub.a].use = "reserved"
        /\ \A c \in Clients : call[c].pc \in Reserving => call[c].a # hub.a
  /\ hub.pc = "removed" => dev[hub.a].use = "leaving" /\ worker[hub.a] = "none"

(* A device that is being detached has left the array, unless the hub itself  *)
(* is being detached.                                                         *)
WorkerInv ==
  /\ \A a \in Addresses : worker[a] # "none" =>
        \/ dev[a].use = "leaving"
        \/ dev[a].use = "listed" /\ unload = "joined"
  /\ slot # Nobody => worker[slot] = "handed"

(* The lock of a function and its control transfer belong to a call inside it. *)
FunctionInv ==
  /\ \A a \in Addresses : owner[a] # Nobody =>
        call[owner[a]].pc \in InFunction /\ call[owner[a]].a = a
  /\ \A a \in Addresses : feature[a] # "none" =>
        owner[a] # Nobody /\ call[owner[a]].pc = "feature"
  /\ \A c \in Clients : call[c].pc \in InFunction => owner[call[c].a] = c

QuietInv == \A a \in Addresses : worker[a] \in {"usbd", "told"} => ~dev[a].open /\ ~dev[a].busy

Inv == Types /\ LockInv /\ EntryInv /\ WorkerInv /\ FunctionInv /\ QuietInv

(* What a call is before it begins and after it has returned.                 *)
LEMMA IdleCall == Idle \in Calls /\ Idle.pc = "idle" /\ (CHOOSE a \in Addresses : TRUE) \in Addresses
<1>1. (CHOOSE a \in Addresses : TRUE) \in Addresses
  BY RequestsAssumption
<1> QED BY <1>1 DEF Idle, Calls, Operations, CallStates

LEMMA NoOne == Nobody \notin Clients /\ Nobody \notin Addresses
BY RequestsAssumption

(* With the driver's lock held by a call, every other call is idle.           *)
LEMMA OneCall ==
  ASSUME Inv, NEW c \in Clients, call[c].pc # "idle"
  PROVE  hcd = c /\ root /\ \A d \in Clients \ {c} : call[d].pc = "idle"
BY NoOne DEF Inv, LockInv

LEMMA InvInit == Init => Inv
<1> SUFFICES ASSUME Init PROVE Inv
  OBVIOUS
<1>1. Types
  BY IdleCall DEF Init, Types, Devices, Hubs, HubStates, Uses, Absent, Resting
<1>2. LockInv
  BY IdleCall, NoOne DEF Init, LockInv
<1>3. EntryInv
  BY IdleCall DEF Init, Resting, EntryInv, Using, Reserving, HubReserving, InFunction
<1>4. WorkerInv /\ FunctionInv /\ QuietInv
  BY IdleCall DEF Init, WorkerInv, FunctionInv, InFunction, QuietInv
<1> QED BY <1>1, <1>2, <1>3, <1>4 DEF Inv

(* How the entry of one thread, or of one address, changes.                   *)
CallBecomes(c, r) == /\ call' \in [Clients -> Calls]
                     /\ call'[c] = r
                     /\ \A d \in Clients \ {c} : call'[d] = call[d]
DevBecomes(a, r)  == /\ dev' \in [Addresses -> Devices]
                     /\ dev'[a] = r
                     /\ \A b \in Addresses \ {a} : dev'[b] = dev[b]

LEMMA Moved ==
  ASSUME Types, NEW c \in Clients, NEW pc \in CallStates, Goto(c, pc)
  PROVE  \E r \in Calls : CallBecomes(c, r) /\ r.pc = pc /\ r.a = call[c].a
<1> DEFINE r == [call[c] EXCEPT !.pc = pc]
<1>1. r \in Calls /\ r.pc = pc /\ r.a = call[c].a
  BY DEF Types, Calls
<1>2. call' = [call EXCEPT ![c] = r]
  BY DEF Goto
<1> HIDE DEF r
<1>3. CallBecomes(c, r)
  BY <1>1, <1>2 DEF CallBecomes, Types
<1> QED BY <1>1, <1>3

LEMMA Returned ==
  ASSUME Types, NEW c \in Clients, Returns(c)
  PROVE  hcd' = Nobody /\ CallBecomes(c, Idle)
BY IdleCall DEF Returns, CallBecomes, Types

LEMMA Entered ==
  ASSUME Types, NEW c \in Clients, NEW op \in Operations, NEW a \in Addresses,
         call' = [call EXCEPT ![c] = [Idle EXCEPT !.op = op, !.a = a, !.pc = "hub"]]
  PROVE  \E r \in Calls : CallBecomes(c, r) /\ r.pc = "hub"
<1> DEFINE r == [Idle EXCEPT !.op = op, !.a = a, !.pc = "hub"]
<1>1. r \in Calls /\ r.pc = "hub"
  BY IdleCall DEF Calls, CallStates
<1>2. call' = [call EXCEPT ![c] = r]
  OBVIOUS
<1> HIDE DEF r
<1>3. CallBecomes(c, r)
  BY <1>1, <1>2 DEF CallBecomes, Types
<1> QED BY <1>1, <1>3

LEMMA UseChanged ==
  ASSUME Types, NEW a \in Addresses, NEW u \in Uses, dev' = [dev EXCEPT ![a].use = u]
  PROVE  \E d \in Devices : DevBecomes(a, d) /\ d.use = u
<1> DEFINE d == [dev[a] EXCEPT !.use = u]
<1>1. d \in Devices /\ d.use = u
  BY DEF Types, Devices
<1>2. dev' = [dev EXCEPT ![a] = d]
  OBVIOUS
<1> HIDE DEF d
<1>3. DevBecomes(a, d)
  BY <1>1, <1>2 DEF DevBecomes, Types
<1> QED BY <1>1, <1>3

LEMMA EmptyDevices ==
  /\ Absent \in Devices /\ Absent.use = "free" /\ ~Absent.open /\ ~Absent.busy
  /\ Fresh \in Devices /\ Fresh.use = "listed" /\ ~Fresh.open /\ ~Fresh.busy
BY DEF Absent, Fresh, Devices, Uses

LEMMA DeviceReset ==
  ASSUME Types, NEW a \in Addresses, NEW d \in Devices, dev' = [dev EXCEPT ![a] = d]
  PROVE  DevBecomes(a, d)
BY DEF DevBecomes, Types

(* A call that reaches a device, or leaves it again, in which only the state  *)
(* of that device may change.                                                 *)
LEMMA CallStep ==
  ASSUME Inv, NEW c \in Clients, NEW r \in Calls, CallBecomes(c, r),
         call[c].pc # "idle",
         IF r.pc = "idle" THEN hcd' = Nobody ELSE hcd' = hcd,
         r.pc \in Using => r.a = call[c].a /\ dev[r.a].use = "listed",
         r.pc \notin Reserving,
         \/ dev' = dev
         \/ \E d \in Devices : /\ DevBecomes(call[c].a, d)
                               /\ call[c].pc \in Using /\ d.use = "listed",
         \/ UNCHANGED <<owner, feature>> /\ call[c].pc \notin InFunction
                                         /\ r.pc \notin InFunction
         \/ /\ r.pc \in InFunction
            /\ owner' = [owner EXCEPT ![r.a] = c]
            /\ \/ feature' = feature /\ (call[c].pc = "feature" => r.pc = "feature")
               \/ r.pc = "feature" /\ feature' = [feature EXCEPT ![r.a] = "busy"]
         \/ /\ call[c].pc \in InFunction /\ r.pc \notin InFunction
            /\ owner' = [owner EXCEPT ![call[c].a] = Nobody]
            /\ \/ feature' = feature /\ call[c].pc # "feature"
               \/ feature' = [feature EXCEPT ![call[c].a] = "none"],
         UNCHANGED <<root, hub, slot, worker, unload>>
  PROVE  Inv'
<1> USE NoOne DEF Inv, CallBecomes, DevBecomes
<1>0. hcd = c /\ root /\ \A d \in Clients \ {c} : call[d].pc = "idle"
  BY OneCall
<1>1. Types'
  BY DEF Types
<1>2. LockInv'
  BY <1>0 DEF LockInv
<1>3. \A a \in Addresses : dev'[a].use = dev[a].use
  BY DEF Types, EntryInv, Using, Reserving, HubReserving, InFunction
<1>4. EntryInv'
  BY <1>0, <1>3 DEF EntryInv, Types, Using, Reserving, HubReserving, InFunction, Hubs, HubStates
<1>5. WorkerInv'
  BY <1>3 DEF WorkerInv, Types
<1>6. FunctionInv'
  <2> USE <1>0 DEF FunctionInv, InFunction, Types, Calls
  <2>1. CASE UNCHANGED <<owner, feature>>
    BY <2>1
  <2>2. CASE r.pc \in InFunction /\ owner' = [owner EXCEPT ![r.a] = c]
    <3>1. r.a = call[c].a /\ r.a \in Addresses /\ owner'[r.a] = c
      BY <2>2 DEF Using, Reserving, HubReserving, InFunction
    <3>2. \A a \in Addresses \ {r.a} : owner'[a] = owner[a] /\ feature'[a] = feature[a]
      BY <2>2
    <3>3. \A a \in Addresses \ {r.a} : owner[a] = Nobody
      BY <3>1
    <3> QED BY <2>2, <3>1, <3>2, <3>3
  <2>3. CASE /\ call[c].pc \in InFunction /\ r.pc \notin InFunction
             /\ owner' = [owner EXCEPT ![call[c].a] = Nobody]
    <3>1. \A a \in Addresses : owner'[a] = Nobody
      BY <2>3
    <3>2. \A a \in Addresses : feature'[a] = "none"
      BY <2>3
    <3> QED BY <2>3, <3>1, <3>2
  <2> QED BY <2>1, <2>2, <2>3
<1>7. QuietInv'
  <2>1. call[c].pc \in Using => worker[call[c].a] = "none"
    BY <1>0 DEF EntryInv, WorkerInv, LockInv, Types, Calls
  <2> QED BY <2>1 DEF QuietInv, Types, Calls
<1> QED BY <1>1, <1>2, <1>4, <1>5, <1>6, <1>7

(* The steps of a call.                                                       *)
LEMMA ForwardStep ==
  ASSUME Inv, NEW c \in Clients, NEW op \in Operations, Forward(c, op) PROVE Inv'
<1>1. Types /\ call[c].pc = "hub"
  BY DEF Inv, Forward, At
<1>2. UNCHANGED <<dev, owner, feature, root, hub, slot, worker, unload>>
  BY DEF Forward, handover
<1>3. CASE Returns(c)
  <2>1. hcd' = Nobody /\ CallBecomes(c, Idle)
    BY <1>1, <1>3, Returned
  <2> QED BY <1>1, <1>2, <2>1, IdleCall, CallStep, NoOne DEF Using, Reserving, HubReserving, InFunction
<1>4. CASE dev[call[c].a].use = "listed" /\ hcd' = hcd
           /\ \E pc \in {"disable", "function"} : Goto(c, pc)
  <2>1. PICK r \in Calls : CallBecomes(c, r) /\ r.pc \in {"disable", "function"} /\ r.a = call[c].a
    BY <1>1, <1>4, Moved DEF CallStates
  <2> QED BY <1>1, <1>2, <1>4, <2>1, CallStep DEF Using, Reserving, HubReserving, InFunction
<1> QED BY <1>3, <1>4 DEF Forward

LEMMA EnterStep ==
  ASSUME Inv, NEW c \in Clients, EnterFunction(c) PROVE Inv'
<1>1. Types /\ call[c].pc = "function" /\ dev[call[c].a].use = "listed"
  BY DEF Inv, EnterFunction, At, EntryInv, Using, Reserving, HubReserving, InFunction
<1>2. /\ UNCHANGED <<hcd, dev, feature, root, hub, slot, worker, unload>>
      /\ owner' = [owner EXCEPT ![call[c].a] = c] /\ Goto(c, "inside")
  BY DEF EnterFunction, handover
<1>3. PICK r \in Calls : CallBecomes(c, r) /\ r.pc = "inside" /\ r.a = call[c].a
  BY <1>1, <1>2, Moved DEF CallStates
<1> QED BY <1>1, <1>2, <1>3, CallStep DEF Using, Reserving, HubReserving, InFunction

(* A call that leaves the function and returns.                               *)
LEMMA LeaveStep ==
  ASSUME Inv, NEW c \in Clients, Leave(c), call[c].pc \in InFunction,
         \/ dev' = dev
         \/ \E d \in Devices : DevBecomes(call[c].a, d) /\ d.use = "listed",
         \/ feature' = feature /\ call[c].pc # "feature"
         \/ feature' = [feature EXCEPT ![call[c].a] = "none"],
         UNCHANGED <<root, hub, slot, worker, unload>>
  PROVE  Inv'
<1>1. /\ hcd' = Nobody /\ CallBecomes(c, Idle)
      /\ owner' = [owner EXCEPT ![call[c].a] = Nobody]
  BY Returned DEF Inv, Leave
<1> QED BY <1>1, IdleCall, CallStep, NoOne DEF Using, Reserving, HubReserving, InFunction

LEMMA BecomesStep ==
  ASSUME Inv, NEW c \in Clients, At(c, "inside"), Leave(c),
         NEW d \in Devices, d.use = dev[call[c].a].use, dev' = [dev EXCEPT ![call[c].a] = d],
         UNCHANGED <<feature, root, hub, slot, worker, unload>>
  PROVE  Inv'
<1>1. Types /\ call[c].pc = "inside" /\ dev[call[c].a].use = "listed" /\ call[c].a \in Addresses
  BY DEF Inv, At, EntryInv, Using, Reserving, HubReserving, InFunction, Types, Calls
<1>2. DevBecomes(call[c].a, d) /\ d.use = "listed"
  BY <1>1, DeviceReset
<1> QED BY <1>1, <1>2, LeaveStep DEF InFunction

LEMMA ResetStep ==
  ASSUME Inv, NEW c \in Clients, FunctionResetPipe(c) PROVE Inv'
<1>1. Types /\ call[c].pc = "inside" /\ dev[call[c].a].use = "listed" /\ call[c].a \in Addresses
      /\ owner[call[c].a] = c
  BY DEF Inv, FunctionResetPipe, At, EntryInv, Using, Reserving, HubReserving, InFunction, Types, Calls,
         FunctionInv
<1>2. UNCHANGED <<dev, root, hub, slot, worker, unload>>
  BY DEF FunctionResetPipe, handover
<1>3. CASE Leave(c) /\ feature' = feature
  BY <1>1, <1>2, <1>3, LeaveStep DEF InFunction
<1>4. CASE /\ feature' = [feature EXCEPT ![call[c].a] = "busy"]
           /\ Goto(c, "feature") /\ UNCHANGED <<hcd, owner>>
  <2>1. PICK r \in Calls : CallBecomes(c, r) /\ r.pc = "feature" /\ r.a = call[c].a
    BY <1>1, <1>4, Moved DEF CallStates
  <2>2. owner' = [owner EXCEPT ![r.a] = c]
    BY <1>1, <1>4, <2>1 DEF Types
  <2> QED BY <1>1, <1>2, <1>4, <2>1, <2>2, CallStep DEF Using, Reserving, HubReserving, InFunction
<1> QED BY <1>3, <1>4 DEF FunctionResetPipe

LEMMA FeatureStep ==
  ASSUME Inv, NEW c \in Clients, SetOrClearFeature(c) PROVE Inv'
<1>1. call[c].pc = "feature" /\ Leave(c) /\ feature' = [feature EXCEPT ![call[c].a] = "none"]
      /\ UNCHANGED <<dev, root, hub, slot, worker, unload>>
  BY DEF SetOrClearFeature, At, handover
<1> QED BY <1>1, LeaveStep DEF InFunction

LEMMA SuspendStep ==
  ASSUME Inv, NEW c \in Clients, At(c, "inside"), Goto(c, "suspending"),
         UNCHANGED <<hcd, root, dev, owner, feature, hub, handover, worker, unload>>
  PROVE  Inv'
<1>1. /\ Types /\ call[c].pc = "inside" /\ dev[call[c].a].use = "listed" /\ call[c].a \in Addresses
      /\ owner[call[c].a] = c
  BY DEF Inv, At, EntryInv, Using, InFunction, Types, Calls, FunctionInv
<1>2. PICK r \in Calls : CallBecomes(c, r) /\ r.pc = "suspending" /\ r.a = call[c].a
  BY <1>1, Moved DEF CallStates
<1>3. owner' = [owner EXCEPT ![r.a] = c]
  BY <1>1, <1>2 DEF Types
<1> QED BY <1>1, <1>2, <1>3, CallStep DEF Using, InFunction, Reserving, handover

(* The whole of the calls that do their work in a function.                   *)
LEMMA FunctionStep ==
  ASSUME Inv, NEW c \in Clients, FunctionCall(c) PROVE Inv'
<1> DEFINE d == dev[call[c].a]
<1>1. d \in Devices
  BY DEF Inv, Types, Calls
<1>2. ASSUME At(c, "inside"), Leave(c),
             \E x \in Devices : x.use = d.use /\ dev' = [dev EXCEPT ![call[c].a] = x],
             UNCHANGED <<feature, root, hub, slot, worker, unload>>
      PROVE  Inv'
  BY <1>2, BecomesStep
<1> HIDE DEF d
<1>3. /\ \A v \in BOOLEAN : [d EXCEPT !.open = v] \in Devices /\ [d EXCEPT !.open = v].use = d.use
      /\ \A v \in BOOLEAN : [d EXCEPT !.busy = v] \in Devices /\ [d EXCEPT !.busy = v].use = d.use
      /\ [d EXCEPT !.open = FALSE, !.busy = FALSE] \in Devices
      /\ [d EXCEPT !.open = FALSE, !.busy = FALSE].use = d.use
  BY <1>1 DEF Devices
<1>4. CASE FunctionOpenPipe(c)
  BY <1>1, <1>2, <1>3, <1>4 DEF FunctionOpenPipe, Function, Becomes, handover, d
<1>5. CASE FunctionClosePipe(c)
  BY <1>1, <1>2, <1>3, <1>5 DEF FunctionClosePipe, Function, Becomes, handover, d
<1>6. CASE FunctionIssueTransfer(c)
  <2>1. (d.busy \/ d.open) \in BOOLEAN
    BY <1>1 DEF Devices
  <2> QED BY <1>1, <1>2, <1>3, <1>6, <2>1 DEF FunctionIssueTransfer, Function, Becomes, handover, d
<1>7. CASE FunctionAbortTransfer(c)
  BY <1>1, <1>2, <1>3, <1>7 DEF FunctionAbortTransfer, Function, Becomes, handover, d
<1>8. CASE FunctionIsPipeHalted(c)
  BY <1>1, <1>2, <1>3, <1>8 DEF FunctionIsPipeHalted, Function, Becomes, handover, d
<1>9. CASE DeviceSuspendResume(c)
  <2>1. CASE Becomes(c, call[c].op, {Function(c)})
    BY <1>1, <1>2, <2>1 DEF Function, Becomes, handover, d
  <2>2. CASE external /\ At(c, "inside") /\ Goto(c, "suspending") /\ Ask(c)
             /\ UNCHANGED <<hcd, root, dev, owner, feature, hub, handover, worker, unload>>
    BY <2>2, SuspendStep
  <2> QED BY <1>9, <2>1, <2>2 DEF DeviceSuspendResume
<1>10. CASE SuspendResumeOffStreamDevice(c)
  BY <1>10, LeaveStep DEF SuspendResumeOffStreamDevice, At, handover, InFunction
<1> QED BY <1>4, <1>5, <1>6, <1>7, <1>8, <1>9, <1>10, EnterStep, ResetStep, FeatureStep
        DEF FunctionCall

(* A call begins.                                                             *)
LEMMA CallBegins ==
  ASSUME Inv, NEW c \in Clients, NEW op \in Operations, Enter(c, op) PROVE Inv'
<1> USE DEF Inv
<1>1. /\ call[c].pc = "idle" /\ hcd = Nobody /\ root /\ hcd' = c
      /\ UNCHANGED <<root, dev, owner, feature, hub, slot, worker, unload>>
  BY DEF Enter, At, handover
<1>2. PICK r \in Calls : CallBecomes(c, r) /\ r.pc = "hub"
  BY Entered DEF Enter
<1>3. \A d \in Clients : call[d].pc = "idle"
  BY <1>1, NoOne DEF LockInv
<1> USE DEF CallBecomes
<1>4. Types'
  BY <1>1, <1>2 DEF Types
<1>5. LockInv'
  BY <1>1, <1>2, <1>3, NoOne DEF LockInv
<1>6. EntryInv'
  BY <1>1, <1>2, <1>3 DEF EntryInv, Using, Reserving, HubReserving, InFunction
<1>7. WorkerInv' /\ QuietInv'
  BY <1>1 DEF WorkerInv, QuietInv
<1>8. FunctionInv'
  BY <1>1, <1>2, <1>3 DEF FunctionInv, InFunction, Types
<1> QED BY <1>4, <1>5, <1>6, <1>7, <1>8

(* The interrupt thread.                                                      *)
LEMMA InterruptStep ==
  ASSUME Inv, NEW a \in Addresses, TransferDone(a) PROVE Inv'
<1> USE DEF Inv
<1>1. UNCHANGED <<call, hcd, root, owner, hub, slot, worker, unload>>
  BY DEF TransferDone, handover
<1>2. CASE dev' = [dev EXCEPT ![a].busy = FALSE] /\ feature' = feature
  <2> DEFINE d == [dev[a] EXCEPT !.busy = FALSE]
  <2>1. d \in Devices /\ d.use = dev[a].use /\ ~d.busy /\ d.open = dev[a].open
    BY DEF Types, Devices
  <2>2. dev' = [dev EXCEPT ![a] = d]
    BY <1>2
  <2> HIDE DEF d
  <2>3. DevBecomes(a, d)
    BY <2>1, <2>2, DeviceReset
  <2>4. \A b \in Addresses : dev'[b].use = dev[b].use
    BY <2>1, <2>3 DEF DevBecomes
  <2>5. Types'
    BY <1>1, <1>2, <2>3 DEF Types, DevBecomes
  <2>6. LockInv' /\ FunctionInv'
    BY <1>1, <1>2 DEF LockInv, FunctionInv, InFunction
  <2>7. EntryInv' /\ WorkerInv'
    BY <1>1, <2>4 DEF EntryInv, Using, Reserving, HubReserving, InFunction, WorkerInv, Types, Calls, Hubs, HubStates
  <2>8. QuietInv'
    BY <1>1, <2>1, <2>3 DEF QuietInv, DevBecomes
  <2> QED BY <2>5, <2>6, <2>7, <2>8
<1>3. CASE feature[a] = "busy" /\ feature' = [feature EXCEPT ![a] = "set"] /\ dev' = dev
  <2>1. Types' /\ LockInv' /\ FunctionInv'
    BY <1>1, <1>3 DEF Types, LockInv, FunctionInv, InFunction
  <2>2. EntryInv' /\ WorkerInv' /\ QuietInv'
    BY <1>1, <1>3 DEF EntryInv, WorkerInv, QuietInv, Using, Reserving, HubReserving, InFunction
  <2> QED BY <2>1, <2>2
<1> QED BY <1>2, <1>3 DEF TransferDone

(* A device leaves the array: nobody uses it.                                 *)
LEMMA Unused ==
  ASSUME Inv, NEW a \in Addresses, \A c \in Clients : call[c].pc \in {"idle", "hub"}
  PROVE  owner[a] = Nobody /\ feature[a] = "none"
BY DEF Inv, FunctionInv, InFunction, Types

LEMMA DisableStep ==
  ASSUME Inv, NEW c \in Clients, DisableOffStreamDevice(c) PROVE Inv'
<1> USE DEF Inv
<1>1. /\ Types /\ call[c].pc \in {"disable", "status"} /\ dev[call[c].a].use = "listed" /\ call[c].a \in Addresses
      /\ UNCHANGED <<root, owner, feature, hub, unload>>
  BY DEF DisableOffStreamDevice, ReadPort, PortIsRead, PortNotRead, At, EntryInv, Using, Reserving, HubReserving, InFunction, Types, Calls
<1>2. hcd = c /\ root /\ \A d \in Clients \ {c} : call[d].pc = "idle"
  BY <1>1, OneCall
<1>3. CASE Returns(c) /\ UNCHANGED <<dev, handover, worker>>
  <2>1. hcd' = Nobody /\ CallBecomes(c, Idle)
    BY <1>1, <1>3, Returned
  <2> QED BY <1>1, <1>3, <2>1, IdleCall, CallStep, NoOne DEF Using, Reserving, HubReserving, InFunction, handover
<1>4. CASE /\ worker[call[c].a] = "none" /\ Remove(call[c].a) /\ HandOver(call[c].a)
           /\ Goto(c, "handed") /\ hcd' = hcd
  <2>1. PICK a \in Addresses : a = call[c].a
    BY <1>1
  <2>2. PICK r \in Calls : CallBecomes(c, r) /\ r.pc = "handed"
    BY <1>1, <1>4, Moved DEF CallStates
  <2>3. PICK d \in Devices : DevBecomes(a, d) /\ d.use = "leaving"
    BY <1>1, <1>4, <2>1, UseChanged DEF Remove, Unlisted, Uses
  <2>4. slot' = a /\ worker' = [worker EXCEPT ![a] = "handed"] /\ worker[a] = "none"
        /\ dev[a].use = "listed"
    BY <1>1, <1>4, <2>1 DEF HandOver
  <2> USE DEF CallBecomes, DevBecomes
  <2>5. Types'
    BY <1>1, <1>4, <2>2, <2>3, <2>4 DEF Types
  <2>6. LockInv'
    BY <1>1, <1>2, <1>4, <2>2 DEF LockInv
  <2>7. EntryInv'
    BY <1>1, <1>2, <2>2, <2>3, <2>4 DEF EntryInv, Using, Reserving, HubReserving, InFunction, Types, Hubs, HubStates
  <2>8. WorkerInv' /\ QuietInv'
    BY <1>1, <2>3, <2>4 DEF WorkerInv, QuietInv, Types
  <2>9. FunctionInv'
    BY <1>1, <1>2, <2>2 DEF FunctionInv, InFunction, Types
  <2> QED BY <2>5, <2>6, <2>7, <2>8, <2>9
<1>5. CASE ReadPort(c)
  <2>1. PICK r \in Calls : CallBecomes(c, r) /\ r.pc = "status" /\ r.a = call[c].a
    BY <1>1, <1>5, Moved DEF CallStates, ReadPort
  <2> QED BY <1>1, <1>5, <2>1, CallStep DEF ReadPort, Using, InFunction, Reserving, handover
<1> QED BY <1>3, <1>4, <1>5 DEF DisableOffStreamDevice

LEMMA ReattachStep ==
  ASSUME Inv, NEW c \in Clients, Reattach(c) PROVE Inv'
<1> USE DEF Inv
<1>1. /\ Types /\ call[c].pc \in {"handed", "disabling", "reattach"}
      /\ UNCHANGED <<root, owner, feature, hub, slot, worker, unload>>
  BY DEF Reattach, DisablePort, At, handover
<1>2. hcd = c /\ root /\ \A d \in Clients \ {c} : call[d].pc = "idle"
  BY <1>1, OneCall
<1>3. CASE Returns(c) /\ dev' = dev
  <2>1. hcd' = Nobody /\ CallBecomes(c, Idle)
    BY <1>1, <1>3, Returned
  <2> QED BY <1>1, <1>3, <2>1, IdleCall, CallStep, NoOne DEF Using, Reserving, HubReserving, InFunction
<1>4. ASSUME NEW b \in Addresses, dev[b].use = "free", dev' = [dev EXCEPT ![b].use = "reserved"],
             call' = [call EXCEPT ![c].pc = "address0", ![c].a = b], hcd' = hcd
      PROVE  Inv'
  <2>1. PICK d \in Devices : DevBecomes(b, d) /\ d.use = "reserved"
    BY <1>1, <1>4, UseChanged DEF Uses
  <2>2. \E r \in Calls : CallBecomes(c, r) /\ r.pc = "address0" /\ r.a = b
    <3> DEFINE r == [call[c] EXCEPT !.pc = "address0", !.a = b]
    <3>1. r \in Calls /\ r.pc = "address0" /\ r.a = b
      BY DEF Types, Calls, CallStates
    <3>2. call' = [call EXCEPT ![c] = r]
      BY <1>4 DEF Types, Calls
    <3> HIDE DEF r
    <3>3. CallBecomes(c, r)
      BY <3>1, <3>2 DEF CallBecomes, Types
    <3> QED BY <3>1, <3>3
  <2>3. PICK r \in Calls : CallBecomes(c, r) /\ r.pc = "address0" /\ r.a = b
    BY <2>2
  <2>4. worker[b] = "none"
    BY <1>4 DEF WorkerInv
  <2> USE DEF CallBecomes, DevBecomes
  <2>5. Types'
    BY <1>1, <1>4, <2>1, <2>3 DEF Types
  <2>6. LockInv'
    BY <1>1, <1>2, <1>4, <2>3 DEF LockInv
  <2>7. EntryInv'
    BY <1>1, <1>2, <1>4, <2>1, <2>3 DEF EntryInv, Using, Reserving, HubReserving, InFunction, Types, Hubs, HubStates
  <2>8. WorkerInv' /\ QuietInv'
    BY <1>1, <2>1, <2>4 DEF WorkerInv, QuietInv, Types
  <2>9. FunctionInv'
    BY <1>1, <1>2, <2>3 DEF FunctionInv, InFunction, Types
  <2> QED BY <2>5, <2>6, <2>7, <2>8, <2>9
<1>5. CASE DisablePort(c) /\ UNCHANGED <<dev, hcd>>
  <2>1. \E pc \in {"disabling", "reattach"} : Goto(c, pc)
    BY <1>5 DEF DisablePort
  <2>2. PICK r \in Calls : CallBecomes(c, r) /\ r.pc \in {"disabling", "reattach"}
    BY <1>1, <2>1, Moved DEF CallStates
  <2> QED BY <1>1, <1>5, <2>2, CallStep DEF Using, InFunction, Reserving
<1> QED BY <1>3, <1>4, <1>5 DEF Reattach

(* Steps in which no call moves and no lock changes hands.                     *)
LEMMA OthersStep ==
  ASSUME Inv, Types', EntryInv', WorkerInv', QuietInv',
         UNCHANGED <<call, hcd, root, owner, feature>>,
         root <=> unload' \in {"up", "stopped"}
  PROVE  Inv'
<1>1. LockInv' /\ FunctionInv'
  BY DEF Inv, LockInv, FunctionInv, InFunction
<1> QED BY <1>1 DEF Inv

LEMMA Unmoved ==
  ASSUME Inv, UNCHANGED <<call, hcd, root, dev, owner, feature, hub, slot, worker, unload>>
  PROVE  Inv'
<1>1. Types' /\ EntryInv' /\ QuietInv' /\ WorkerInv'
  BY DEF Inv, Types, EntryInv, Using, Reserving, HubReserving, InFunction, QuietInv, WorkerInv
<1> QED BY <1>1, OthersStep DEF Inv, LockInv

LEMMA EnumeratedStep ==
  ASSUME Inv, NEW c \in Clients, Enumerated(c) PROVE Inv'
<1> USE DEF Inv
<1>1. /\ Types /\ call[c].pc \in {"address0", "enumerate", "failing"} /\ call[c].a \in Addresses
      /\ call[c].pc # "failing" => dev[call[c].a].use = "reserved"
      /\ UNCHANGED <<root, owner, feature, hub, slot, worker, unload>>
  BY DEF Enumerated, At, handover, EntryInv, Reserving, Types, Calls
<1>2. hcd = c /\ root /\ \A d \in Clients \ {c} : call[d].pc = "idle"
  BY <1>1, OneCall
<1>b. PICK b \in Addresses : b = call[c].a
  BY <1>1
<1>3. ASSUME call[c].pc = "enumerate",
             NEW d \in {Absent, Fresh}, dev' = [dev EXCEPT ![b] = d],
             NEW r \in Calls, CallBecomes(c, r),
             \/ r.pc = "idle" /\ hcd' = Nobody
             \/ r.pc = "failing" /\ hcd' = hcd
      PROVE  Inv'
  <2>1. DevBecomes(b, d) /\ d.use \in {"free", "listed"} /\ ~d.open /\ ~d.busy /\ d \in Devices
    BY <1>1, <1>3, EmptyDevices, DeviceReset
  <2>2. r.pc \notin Using /\ r.pc \notin Reserving /\ r.pc \notin InFunction
    BY <1>3 DEF Using, Reserving, InFunction
  <2>3. worker[b] = "none" /\ dev[b].use = "reserved"
    BY <1>1, <1>3, <1>b DEF WorkerInv
  <2>4. hub.pc \in HubReserving => hub.a # b
    BY <1>3, <1>b DEF EntryInv, Reserving
  <2> USE DEF CallBecomes, DevBecomes
  <2>5. Types'
    BY <1>1, <1>3, <2>1 DEF Types
  <2>6. LockInv'
    BY <1>1, <1>2, <1>3, NoOne DEF LockInv
  <2>7. EntryInv'
    BY <1>1, <1>2, <2>1, <2>2, <1>3, <2>3, <2>4 DEF EntryInv, Using, Reserving, HubReserving, InFunction, Types, Hubs, HubStates
  <2>8. WorkerInv' /\ QuietInv'
    BY <1>1, <2>1, <2>3 DEF WorkerInv, QuietInv, Types
  <2>9. FunctionInv'
    BY <1>1, <1>2, <1>3, <2>2 DEF FunctionInv, InFunction, Types
  <2> QED BY <2>5, <2>6, <2>7, <2>8, <2>9
<1>4. ASSUME call[c].pc \in Reserving, NEW r \in Calls, CallBecomes(c, r),
             r.pc = "enumerate", r.a = b, UNCHANGED <<dev, hcd>>
      PROVE  Inv'
  <2> USE DEF CallBecomes
  <2>3. Types' /\ LockInv'
    BY <1>1, <1>2, <1>4 DEF Types, LockInv
  <2>4. EntryInv'
    BY <1>1, <1>2, <1>4, <1>b DEF EntryInv, Using, Reserving, HubReserving, InFunction, Types, Hubs
  <2>5. WorkerInv' /\ QuietInv'
    BY <1>1, <1>4 DEF WorkerInv, QuietInv
  <2>6. FunctionInv'
    BY <1>1, <1>2, <1>4 DEF FunctionInv, InFunction, Types
  <2> QED BY <2>3, <2>4, <2>5, <2>6
<1>5. CASE call[c].pc = "address0" /\ Goto(c, "enumerate") /\ UNCHANGED <<dev, hcd>>
  <2>1. PICK r \in Calls : CallBecomes(c, r) /\ r.pc = "enumerate" /\ r.a = call[c].a
    BY <1>1, <1>5, Moved DEF CallStates
  <2> QED BY <1>4, <1>5, <1>b, <2>1 DEF Reserving
<1>6. CASE /\ call[c].pc = "enumerate" /\ call' = [call EXCEPT ![c].fails = @ + 1]
           /\ UNCHANGED <<dev, hcd>>
  <2>1. \E r \in Calls : CallBecomes(c, r) /\ r.pc = "enumerate" /\ r.a = b
    <3> DEFINE r == [call[c] EXCEPT !.fails = @ + 1]
    <3>1. r \in Calls /\ r.pc = "enumerate" /\ r.a = b
      BY <1>6, <1>b DEF Types, Calls
    <3>2. call' = [call EXCEPT ![c] = r]
      BY <1>6 DEF Types, Calls
    <3> HIDE DEF r
    <3>3. CallBecomes(c, r)
      BY <3>1, <3>2 DEF CallBecomes, Types
    <3> QED BY <3>1, <3>3
  <2> QED BY <1>4, <1>6, <2>1 DEF Reserving
<1>7. ASSUME call[c].pc = "enumerate", NEW d \in {Absent, Fresh}, dev' = [dev EXCEPT ![b] = d],
             Returns(c)
      PROVE  Inv'
  <2>1. hcd' = Nobody /\ CallBecomes(c, Idle) /\ Idle \in Calls /\ Idle.pc = "idle"
    BY <1>7, IdleCall, Returned
  <2> QED BY <1>3, <1>7, <2>1
<1>8. CASE /\ call[c].pc = "enumerate" /\ dev' = [dev EXCEPT ![b] = Absent]
           /\ Goto(c, "failing") /\ hcd' = hcd
  <2>1. PICK r \in Calls : CallBecomes(c, r) /\ r.pc = "failing"
    BY <1>8, Moved DEF CallStates
  <2> QED BY <1>3, <1>8, <2>1
<1>9. CASE call[c].pc = "failing" /\ Returns(c) /\ dev' = dev
  <2>1. hcd' = Nobody /\ CallBecomes(c, Idle)
    BY <1>9, Returned
  <2> QED BY <1>1, <1>9, <2>1, IdleCall, CallStep, NoOne DEF Using, InFunction, Reserving
<1>10. CASE UNCHANGED <<call, dev, hcd>>
  BY <1>1, <1>10, Unmoved
<1> QED BY <1>5, <1>6, <1>7, <1>8, <1>9, <1>10, <1>b DEF Enumerated, At

LEMMA HubLocked ==
  ASSUME Inv, HubLockFree, NEW c \in Clients PROVE call[c].pc \in {"idle", "hub"}
BY DEF HubLockFree

(* How the hub thread moves.                                                   *)
LEMMA HubRests == Resting \in Hubs /\ Resting.pc = "idle"
BY IdleCall DEF Resting, Hubs, HubStates

LEMMA HubMoves ==
  ASSUME hub \in Hubs, NEW pc \in HubStates
  PROVE  /\ [hub EXCEPT !.pc = pc] \in Hubs
         /\ [hub EXCEPT !.pc = pc].pc = pc /\ [hub EXCEPT !.pc = pc].a = hub.a
         /\ [hub EXCEPT !.fails = @ + 1] \in Hubs
         /\ [hub EXCEPT !.fails = @ + 1].pc = hub.pc /\ [hub EXCEPT !.fails = @ + 1].a = hub.a
BY DEF Hubs

LEMMA HubBegins ==
  ASSUME NEW pc \in HubStates, NEW a \in Addresses, hub' = [Resting EXCEPT !.pc = pc, !.a = a]
  PROVE  hub' \in Hubs /\ hub'.pc = pc /\ hub'.a = a
BY IdleCall DEF Resting, Hubs

(* The hub thread.                                                            *)
LEMMA HubStep ==
  ASSUME Inv, \/ \E a \in Addresses : HubDetaches(a)
              \/ HubHandsOver \/ HubPolls \/ HubAttaches \/ HubEnumerates \/ HubEnds
  PROVE  Inv'
<1> USE DEF Inv
<1>0. hub.a \in Addresses /\ (CHOOSE a \in Addresses : TRUE) \in Addresses
  BY IdleCall DEF Types, Hubs, HubStates
<1>1. ASSUME NEW a \in Addresses, HubDetaches(a) PROVE Inv'
  <2>1. /\ UNCHANGED <<call, hcd, root, owner, feature, slot, worker, unload>>
        /\ dev[a].use = "listed" /\ worker[a] = "none" /\ HubLockFree
        /\ hub' \in Hubs /\ hub'.pc = "removed" /\ hub'.a = a
    BY <1>1, HubBegins DEF HubDetaches, handover, SearchAllowed, Types, HubStates
  <2>2. PICK d \in Devices : DevBecomes(a, d) /\ d.use = "leaving"
    BY <1>1, UseChanged DEF HubDetaches, Remove, Unlisted, Uses
  <2>3. \A c \in Clients : call[c].pc \in {"idle", "hub"}
    BY <2>1, HubLocked
  <2> USE DEF DevBecomes
  <2>4. Types'
    BY <2>1, <2>2 DEF Types, Hubs, HubStates
  <2>5. EntryInv'
    BY <2>1, <2>2, <2>3 DEF EntryInv, Using, Reserving, HubReserving, InFunction
  <2>6. WorkerInv' /\ QuietInv'
    BY <2>1, <2>2 DEF WorkerInv, QuietInv, Types
  <2> QED BY <2>1, <2>4, <2>5, <2>6, OthersStep DEF LockInv
<1>2. CASE HubHandsOver
  <2>1. UNCHANGED <<call, hcd, root, dev, owner, feature, unload>>
    BY <1>2 DEF HubHandsOver
  <2>2. CASE hub.pc = "removed" /\ HandOver(hub.a) /\ hub' = [hub EXCEPT !.pc = "handed"]
    <3>1. PICK a \in Addresses : a = hub.a
      BY <1>0
    <3>2. /\ slot' = a /\ worker' = [worker EXCEPT ![a] = "handed"]
          /\ worker[a] = "none" /\ dev[a].use = "leaving"
      BY <2>2, <3>1 DEF HandOver, EntryInv
    <3>3. Types' /\ hub'.pc = "handed"
      BY <2>1, <2>2, <3>2 DEF Types, Hubs, HubStates
    <3>4. EntryInv'
      BY <2>1, <3>3 DEF EntryInv, Using, Reserving, HubReserving, InFunction
    <3>5. WorkerInv' /\ QuietInv'
      BY <2>1, <3>2 DEF WorkerInv, QuietInv, Types
    <3> QED BY <2>1, <3>3, <3>4, <3>5, OthersStep DEF LockInv
  <2>3. CASE hub' = Resting /\ UNCHANGED <<handover, worker>>
    <3>1. Types' /\ hub'.pc = "idle"
      BY <2>1, <2>3, HubRests DEF Types, Hubs, HubStates, handover
    <3>2. EntryInv' /\ WorkerInv' /\ QuietInv'
      BY <2>1, <2>3, <3>1 DEF EntryInv, Using, Reserving, HubReserving, InFunction, WorkerInv, QuietInv, handover
    <3> QED BY <2>1, <3>1, <3>2, OthersStep DEF LockInv
  <2> QED BY <1>2, <2>2, <2>3 DEF HubHandsOver
<1>3. CASE HubPolls
  <2>1. UNCHANGED <<call, hcd, root, dev, owner, feature, hub, slot, worker, unload>>
    BY <1>3 DEF HubPolls, handover
  <2>2. Types' /\ EntryInv' /\ WorkerInv' /\ QuietInv'
    BY <2>1 DEF Types, EntryInv, Using, Reserving, HubReserving, InFunction, WorkerInv, QuietInv
  <2> QED BY <2>1, <2>2, OthersStep DEF LockInv
<1>4. CASE HubAttaches
  <2>1. UNCHANGED <<call, hcd, root, owner, feature, slot, worker, unload>>
    BY <1>4 DEF HubAttaches, handover
  <2>2. PICK b \in Addresses : /\ dev[b].use = "free" /\ dev' = [dev EXCEPT ![b].use = "reserved"]
                               /\ hub' = [Resting EXCEPT !.pc = "address0", !.a = b]
    BY <1>4 DEF HubAttaches
  <2>3. PICK d \in Devices : DevBecomes(b, d) /\ d.use = "reserved"
    BY <2>2, UseChanged DEF Uses
  <2>4. worker[b] = "none" /\ hub' \in Hubs /\ hub'.pc = "address0" /\ hub'.a = b
    BY <2>2, HubBegins DEF WorkerInv, Types, HubStates
  <2> USE DEF DevBecomes
  <2>5. Types'
    BY <2>1, <2>3, <2>4 DEF Types
  <2>6. EntryInv'
    BY <2>1, <2>2, <2>3, <2>4 DEF EntryInv, Using, Reserving, HubReserving
  <2>7. WorkerInv' /\ QuietInv'
    BY <2>1, <2>3, <2>4 DEF WorkerInv, QuietInv, Types
  <2> QED BY <2>1, <2>5, <2>6, <2>7, OthersStep DEF LockInv
<1>6. CASE HubEnumerates
  <2>1. UNCHANGED <<call, hcd, root, owner, feature, slot, worker, unload>>
    BY <1>6 DEF HubEnumerates, handover
  <2>2. ASSUME hub.pc \in HubReserving, hub' \in Hubs, hub'.pc \in HubReserving,
               hub'.a = hub.a, dev' = dev
        PROVE  Inv'
    <3>1. Types'
      BY <2>1, <2>2 DEF Types
    <3>2. EntryInv' /\ WorkerInv' /\ QuietInv'
      BY <2>1, <2>2 DEF EntryInv, Using, Reserving, HubReserving, WorkerInv, QuietInv
    <3> QED BY <2>1, <3>1, <3>2, OthersStep DEF LockInv
  <2>3. ASSUME hub.pc \in HubReserving, hub' \in Hubs, hub'.pc \in {"idle", "failing"},
               NEW d \in {Absent, Fresh}, dev' = [dev EXCEPT ![hub.a] = d]
        PROVE  Inv'
    <3>1. PICK a \in Addresses : a = hub.a
      BY <1>0
    <3>2. DevBecomes(a, d) /\ ~d.open /\ ~d.busy /\ d \in Devices
      BY <2>3, <3>1, EmptyDevices, DeviceReset
    <3>3. dev[a].use = "reserved" /\ worker[a] = "none"
          /\ \A c \in Clients : call[c].pc \in Reserving => call[c].a # a
      BY <2>3, <3>1 DEF EntryInv, WorkerInv
    <3> USE DEF DevBecomes
    <3>4. Types'
      BY <2>1, <2>3, <3>2 DEF Types
    <3>5. EntryInv'
      BY <2>1, <2>3, <3>2, <3>3 DEF EntryInv, Using, Reserving, HubReserving, Types, Calls
    <3>6. WorkerInv' /\ QuietInv'
      BY <2>1, <3>2, <3>3 DEF WorkerInv, QuietInv, Types
    <3> QED BY <2>1, <3>4, <3>5, <3>6, OthersStep DEF LockInv
  <2>4. CASE hub' = Resting /\ dev' = dev
    <3>1. Types' /\ hub'.pc = "idle"
      BY <2>1, <2>4, HubRests DEF Types
    <3>2. EntryInv' /\ WorkerInv' /\ QuietInv'
      BY <2>1, <2>4, <3>1 DEF EntryInv, Using, Reserving, HubReserving, WorkerInv, QuietInv
    <3> QED BY <2>1, <3>1, <3>2, OthersStep DEF LockInv
  <2>5. ASSUME NEW pc \in HubStates, HubGoto(pc)
        PROVE  hub' \in Hubs /\ hub'.pc = pc /\ hub'.a = hub.a
    BY <1>0, <2>5, HubMoves DEF HubGoto, Types
  <2>6. CASE hub.pc = "address0" /\ HubGoto("enumerate") /\ dev' = dev
    BY <2>2, <2>5, <2>6 DEF HubReserving, HubStates
  <2>7. CASE /\ hub.pc \in {"address0", "enumerate"} /\ hub' = Resting
             /\ dev' = [dev EXCEPT ![hub.a] = Absent]
    BY <2>3, <2>7, HubRests DEF HubReserving
  <2>8. CASE hub.pc = "enumerate" /\ dev' = dev /\ (hub' = hub \/ HubGoto("insert"))
    BY <2>2, <2>5, <2>8 DEF HubReserving, HubStates, Types
  <2>9. CASE hub.pc = "enumerate" /\ hub' = [hub EXCEPT !.fails = @ + 1] /\ dev' = dev
    BY <1>0, <2>2, <2>9, HubMoves DEF HubReserving, HubStates, Types
  <2>10. CASE /\ hub.pc = "enumerate" /\ HubGoto("failing")
              /\ dev' = [dev EXCEPT ![hub.a] = Absent]
    BY <2>3, <2>5, <2>10 DEF HubReserving, HubStates
  <2>11. CASE hub.pc = "insert" /\ hub' = Resting /\ dev' = [dev EXCEPT ![hub.a] = Fresh]
    BY <2>3, <2>11, HubRests DEF HubReserving
  <2> QED BY <1>6, <2>4, <2>6, <2>7, <2>8, <2>9, <2>10, <2>11 DEF HubEnumerates
<1>5. CASE HubEnds
  <2>1. UNCHANGED <<call, hcd, root, dev, owner, feature, slot, worker, unload>>
        /\ hub' = [Resting EXCEPT !.pc = "ended"]
    BY <1>5 DEF HubEnds, handover
  <2>2. Types' /\ hub'.pc = "ended"
    BY <2>1, HubRests DEF Types, Hubs, HubStates
  <2>3. EntryInv' /\ WorkerInv' /\ QuietInv'
    BY <2>1, <2>2 DEF EntryInv, Using, Reserving, HubReserving, InFunction, WorkerInv, QuietInv
  <2> QED BY <2>1, <2>2, <2>3, OthersStep DEF LockInv
<1> QED BY <1>1, <1>2, <1>3, <1>4, <1>5, <1>6

(* The worker threads.                                                        *)
LEMMA WorkersStep ==
  ASSUME Inv, WorkerTakes \/ \E a \in Addresses : WorkerStep(a)
  PROVE  Inv'
<1> USE DEF Inv
<1>1. CASE WorkerTakes
  <2>1. /\ UNCHANGED <<call, hcd, root, dev, owner, feature, hub, unload>>
        /\ slot' = Nobody
        /\ worker' = IF slot = Nobody THEN worker ELSE [worker EXCEPT ![slot] = "begin"]
    BY <1>1 DEF WorkerTakes
  <2>2. slot # Nobody => slot \in Addresses /\ worker[slot] = "handed"
    BY DEF Types, WorkerInv
  <2>3. Types'
    BY <2>1, <2>2 DEF Types
  <2>4. EntryInv'
    BY <2>1, <2>2 DEF EntryInv, Using, Reserving, HubReserving, InFunction, Types, Hubs, HubStates
  <2>5. WorkerInv' /\ QuietInv'
    BY <2>1, <2>2 DEF WorkerInv, QuietInv, Types
  <2> QED BY <2>1, <2>3, <2>4, <2>5, OthersStep DEF LockInv
<1>2. ASSUME NEW a \in Addresses, ClosePipes(a) PROVE Inv'
  <2> DEFINE d == [dev[a] EXCEPT !.open = FALSE, !.busy = FALSE]
  <2>1. d \in Devices /\ d.use = dev[a].use /\ ~d.busy /\ ~d.open
    BY DEF Types, Devices
  <2>2. /\ worker[a] = "begin" /\ dev' = [dev EXCEPT ![a] = d]
        /\ worker' = [worker EXCEPT ![a] = "usbd"]
        /\ UNCHANGED <<call, hcd, root, owner, feature, hub, slot, unload>>
    BY <1>2 DEF ClosePipes, handover
  <2> HIDE DEF d
  <2>3. DevBecomes(a, d)
    BY <2>1, <2>2, DeviceReset
  <2>4. \A b \in Addresses : dev'[b].use = dev[b].use
    BY <2>1, <2>3 DEF DevBecomes
  <2>5. Types'
    BY <2>2, <2>3 DEF Types, DevBecomes
  <2>6. EntryInv'
    BY <2>2, <2>4 DEF EntryInv, Using, Reserving, HubReserving, InFunction, Types, Hubs, HubStates, Calls
  <2>7. WorkerInv'
    BY <2>2, <2>4, NoOne DEF WorkerInv, Types
  <2>8. QuietInv'
    BY <2>1, <2>2, <2>3 DEF QuietInv, Types, DevBecomes
  <2> QED BY <2>2, <2>5, <2>6, <2>7, <2>8, OthersStep DEF LockInv
<1>3. ASSUME NEW a \in Addresses, TellUsbd(a) PROVE Inv'
  <2>1. /\ worker[a] = "usbd" /\ worker' = [worker EXCEPT ![a] = "told"]
        /\ UNCHANGED <<call, hcd, root, dev, owner, feature, hub, slot, unload>>
    BY <1>3 DEF TellUsbd, handover
  <2>2. Types'
    BY <2>1 DEF Types
  <2>3. EntryInv'
    BY <2>1 DEF EntryInv, Using, Reserving, HubReserving, InFunction, Types, Hubs, HubStates
  <2>4. WorkerInv' /\ QuietInv'
    BY <2>1 DEF WorkerInv, QuietInv, Types
  <2> QED BY <2>1, <2>2, <2>3, <2>4, OthersStep DEF LockInv
<1>4. ASSUME NEW a \in Addresses, Delete(a) PROVE Inv'
  <2>1. /\ worker[a] = "told" /\ worker' = [worker EXCEPT ![a] = "none"]
        /\ dev' = [dev EXCEPT ![a] = Absent]
        /\ UNCHANGED <<call, hcd, root, owner, feature, hub, slot, unload>>
    BY <1>4 DEF Delete, handover
  <2>2. DevBecomes(a, Absent)
    BY <2>1, EmptyDevices, DeviceReset
  <2>3. \/ dev[a].use = "leaving"
        \/ \A c \in Clients : call[c].pc = "idle"
    BY <2>1, NoOne DEF WorkerInv, LockInv
  <2> USE DEF DevBecomes
  <2>4. Types'
    BY <2>1, <2>2 DEF Types
  <2>5. EntryInv'
    BY <2>1, <2>2, <2>3 DEF EntryInv, Using, Reserving, HubReserving, InFunction, Types, Hubs, HubStates, Calls, WorkerInv
  <2>6. WorkerInv' /\ QuietInv'
    BY <2>1, <2>2 DEF WorkerInv, QuietInv, Types
  <2> QED BY <2>1, <2>4, <2>5, <2>6, OthersStep DEF LockInv
<1> QED BY <1>1, <1>2, <1>3, <1>4 DEF WorkerStep

(* The unloading of the driver.                                               *)
LEMMA UnloadingStep ==
  ASSUME Inv, StopController \/ UnloadStep
  PROVE  Inv'
<1> USE DEF Inv
<1>1. CASE StopController
  <2>1. unload = "up" /\ unload' = "stopped"
        /\ UNCHANGED <<call, hcd, root, dev, owner, feature, hub, slot, worker>>
    BY <1>1 DEF StopController, handover
  <2>2. Types' /\ EntryInv' /\ QuietInv'
    BY <2>1 DEF Types, EntryInv, Using, Reserving, HubReserving, InFunction, QuietInv
  <2>3. WorkerInv'
    BY <2>1 DEF WorkerInv
  <2> QED BY <2>1, <2>2, <2>3, OthersStep DEF LockInv
<1>2. CASE ClearRoot
  <2>1. /\ unload = "stopped" /\ unload' = "cleared" /\ hcd = Nobody /\ root' = FALSE
        /\ UNCHANGED <<call, hcd, dev, owner, feature, hub, slot, worker>>
    BY <1>2 DEF ClearRoot, handover
  <2>2. Types' /\ EntryInv' /\ QuietInv'
    BY <2>1 DEF Types, EntryInv, Using, Reserving, HubReserving, InFunction, QuietInv
  <2>3. WorkerInv' /\ FunctionInv' /\ LockInv'
    BY <2>1 DEF WorkerInv, FunctionInv, InFunction, LockInv
  <2> QED BY <2>2, <2>3
<1>3. CASE DetachHub
  <2>1. UNCHANGED <<call, hcd, root, dev, owner, feature, hub, slot>>
    BY <1>3 DEF DetachHub, DetachAll, handover
  <2>2. CASE unload = "cleared" /\ unload' = "joined" /\ worker' = worker
    <3>1. Types' /\ EntryInv' /\ QuietInv' /\ WorkerInv'
      BY <2>1, <2>2 DEF Types, EntryInv, Using, Reserving, HubReserving, InFunction, QuietInv, WorkerInv
    <3> QED BY <2>1, <2>2, <3>1, OthersStep DEF LockInv
  <2>3. ASSUME unload = "joined", unload' = unload,
               NEW a \in Addresses, dev[a].use = "listed", worker[a] = "none",
               worker' = [worker EXCEPT ![a] = "begin"]
        PROVE  Inv'
    <3>1. Types'
      BY <2>1, <2>3 DEF Types
    <3>2. EntryInv'
      BY <2>1, <2>3 DEF EntryInv, Using, Reserving, HubReserving, InFunction, Types, Hubs, HubStates
    <3>3. WorkerInv' /\ QuietInv'
      BY <2>1, <2>3 DEF WorkerInv, QuietInv, Types
    <3> QED BY <2>1, <2>3, <3>1, <3>2, <3>3, OthersStep DEF LockInv
  <2>4. CASE /\ unload = "joined" /\ \A a \in Addresses : dev[a].use # "listed"
             /\ unload' = "detached" /\ worker' = worker
    <3>1. Types' /\ EntryInv' /\ QuietInv' /\ WorkerInv'
      BY <2>1, <2>4 DEF Types, EntryInv, Using, Reserving, HubReserving, InFunction, QuietInv, WorkerInv
    <3> QED BY <2>1, <2>4, <3>1, OthersStep DEF LockInv
  <2> QED BY <1>3, <2>2, <2>3, <2>4 DEF DetachHub, DetachAll
<1>4. CASE Unloaded
  <2>1. /\ unload = "detached" /\ unload' = "done"
        /\ UNCHANGED <<call, hcd, root, dev, owner, feature, hub, slot, worker>>
    BY <1>4 DEF Unloaded, handover
  <2>2. Types' /\ EntryInv' /\ QuietInv' /\ WorkerInv'
    BY <2>1 DEF Types, EntryInv, Using, Reserving, HubReserving, InFunction, QuietInv, WorkerInv
  <2> QED BY <2>1, <2>2, OthersStep DEF LockInv
<1> QED BY <1>1, <1>2, <1>3, <1>4 DEF UnloadStep

(* The steps of a client.                                                     *)
LEMMA ClientsStep ==
  ASSUME Inv, NEW c \in Clients, Call(c) \/ ClientStep(c)
  PROVE  Inv'
<1>1. CASE Call(c)
  <2>1. \E op \in Operations : Enter(c, op)
    BY <1>1 DEF Call, Operations, OpenPipe, ClosePipe, IssueTransfer, AbortTransfer,
                IsPipeHalted, ResetPipe, DisableDevice, SuspendResume
  <2> QED BY <2>1, CallBegins
<1>2. CASE HubCall(c)
  <2>1. \E op \in Operations : Forward(c, op)
    BY <1>2 DEF HubCall, Operations, HubOpenPipe, HubClosePipe, HubIssueTransfer,
                HubAbortTransfer, HubIsPipeHalted, HubResetPipe, HubDisableDevice,
                HubSuspendResume
  <2> QED BY <2>1, ForwardStep
<1> QED BY <1>1, <1>2, FunctionStep, DisableStep, ReattachStep, EnumeratedStep DEF ClientStep

LEMMA InvStep == Inv /\ [Next]_vars => Inv'
<1> SUFFICES ASSUME Inv, [Next]_vars PROVE Inv'
  OBVIOUS
<1>1. CASE UNCHANGED vars
  BY <1>1, Unmoved DEF vars, handover
<1>2. CASE \E t \in Threads : EnumerationDone(t)
  BY <1>2, Unmoved DEF EnumerationDone, handover
<1>3. CASE OtherDone
  BY <1>3, Unmoved DEF OtherDone, handover
<1> QED BY <1>1, <1>2, <1>3, ClientsStep, InterruptStep, HubStep, WorkersStep, UnloadingStep DEF Next

(* The lock of the driver admits one call at a time; a call under way keeps   *)
(* the entry it has found, an enumeration the address it has reserved; and a  *)
(* device that is detached has left the array before a worker thread gets it. *)
THEOREM RequestsInvariant == Spec => []Inv
<1> QED BY InvInit, InvStep, PTL DEF Spec

(* CFunction::OpenPipe and the others run on a function that is still in the  *)
(* array of its hub, so not on one that HandleDetach has deleted.             *)
THEOREM LiveDeviceUsed == Spec => []CallsUseLiveDevice
<1>1. Inv => CallsUseLiveDevice
  BY DEF Inv, EntryInv, Using, Reserving, HubReserving, InFunction, CallsUseLiveDevice
<1> QED BY <1>1, RequestsInvariant, PTL

(* HandleDetach tells USBD only when the function has no open pipe and no     *)
(* transfer, and from then on no call is inside the function.                 *)
THEOREM QuietDetach == Spec => []QuietAfterDetach
<1>1. Inv => QuietAfterDetach
  <2> SUFFICES ASSUME Inv, NEW a \in Addresses, worker[a] \in {"usbd", "told"}
               PROVE  /\ ~dev[a].open /\ ~dev[a].busy
                      /\ feature[a] = "none" /\ owner[a] = Nobody
    BY DEF QuietAfterDetach
  <2>1. ~dev[a].open /\ ~dev[a].busy
    BY DEF Inv, QuietInv
  <2>2. \A c \in Clients : call[c].pc \in InFunction => call[c].a # a
    BY NoOne DEF Inv, EntryInv, WorkerInv, LockInv, Using, Reserving, HubReserving, InFunction
  <2>3. owner[a] = Nobody
    BY <2>2 DEF Inv, FunctionInv, InFunction, Types
  <2>4. feature[a] = "none"
    BY <2>3 DEF Inv, FunctionInv, InFunction
  <2> QED BY <2>1, <2>3, <2>4
<1> QED BY <1>1, RequestsInvariant, PTL
=============================================================================
