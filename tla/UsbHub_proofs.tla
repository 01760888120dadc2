---------------------------- MODULE UsbHub_proofs ----------------------------
(* Proofs about the hubs of the USB driver, for any ports and addresses and   *)
(* any number of events and failures.                                         *)
EXTENDS UsbHub, FiniteSetTheorems, WellFoundedInduction, TLAPS

Steps == {"none", "power", "wait", "status", "changed", "handed", "poll", "polled", "attach", "open",
          "locking", "reset", "test", "setaddr", "configure", "create", "operate", "failed", "client",
          "release", "ended", "leave", "strand", "clear", "reclear", "disable"}
Kinds  == {"none", "function", "hub"}
Bits   == {"connect", "enable"}
Works  == [pc : Steps, kind : Kinds, port : Ports, chg : SUBSET Bits, conn : BOOLEAN,
           addr : Hubs, fails : Nat, xf : {"none", "busy", "ok", "bad"}]
Stages == {"none", "handed", "begin", "usbd", "signal", "wait", "ports"}
Devices == [use : {"free", "reserved", "listed", "leaving"}, kind : Kinds, up : Hubs, port : Ports,
            stage : Stages, by : {"none", "worker", "parent", "unload"}]

Types ==
    /\ plug \in [Ports -> Kinds] /\ \A p \in Ports : plug[p] = "hub" => p = HubPort
    /\ answers \in [Ports -> Hubs \cup {Off}]
    /\ change \in [Ports -> SUBSET Bits]
    /\ dev \in [Hubs -> Devices]
    /\ thr \in [Hubs -> Works]
    /\ closing \in [Hubs -> BOOLEAN] /\ event \in [Hubs -> BOOLEAN]
    /\ slot \in [Hubs -> Hubs]
    /\ addr0 \in [owner : Hubs \cup {NoThread}, closing : BOOLEAN]
    /\ known \subseteq Addresses
    /\ unload \in {"up", "closing", "done"}
    /\ stray \subseteq LowerPorts

(* The steps in which a thread has an address, and those in which it has a    *)
(* port.                                                                      *)
OwnSteps  == AttachSteps \cup {"client"}
ExitSteps == {"release", "leave", "strand"}
LowerSteps == {"clear", "reclear", "disable", "leave", "strand"}
PortSteps == {"changed", "handed", "poll", "polled", "attach", "release"} \cup LowerSteps \cup OwnSteps

WorkOK(t, w) ==
    /\ w.xf # "none" => w.pc \in Requests(t)
    /\ w.pc \in PortSteps \/ (w.pc = "status" /\ w.xf = "ok") => w.port \in PortsOf(t)
    /\ w.pc \in LowerSteps => t # Root
    /\ w.kind # "none" => w.pc \in OwnSteps \cup ExitSteps
    /\ w.kind = "hub" => w.port = HubPort
    /\ w.pc \in OwnSteps => w.addr \in Addresses
    /\ w.pc \in ExitSteps => w.addr = 0
WorksInv == \A t \in Hubs : WorkOK(t, thr[t])

Owns(h) == thr[h].pc \in OwnSteps

(* Who has the entry of an address.                                           *)
OwnerInv ==
    /\ \A a \in Addresses : dev[a].use = "reserved" => \E h \in Hubs : Owns(h) /\ thr[h].addr = a
    /\ \A h \in Hubs : Owns(h) =>
          LET a == thr[h].addr IN
          /\ dev[a].use \in {"reserved", "listed"} /\ thr[a].pc = "none" /\ a \notin known
          /\ dev[a].use = "listed" => dev[a].up = h /\ dev[a].port = thr[h].port
          /\ thr[h].pc \in {"operate", "client"} => dev[a].use = "listed"
    /\ \A h, g \in Hubs : Owns(h) /\ Owns(g) /\ thr[h].addr = thr[g].addr => h = g

(* A thread has its hub; what is in an array is in that of a hub whose thread *)
(* has been started.                                                          *)
TreeInv ==
    /\ \A h \in Hubs : thr[h].pc # "none" => dev[h].use \in {"listed", "leaving"} /\ dev[h].kind = "hub"
    /\ \A a \in Addresses : dev[a].use = "listed" => thr[dev[a].up].pc # "none"
    /\ \A a \in Addresses : dev[a].use \in {"listed", "leaving"} /\ dev[a].kind = "hub" => dev[a].port = HubPort
    /\ \A a \in known : dev[a].use \in {"listed", "leaving"}

(* How far a detach is.                                                       *)
DetachInv ==
    /\ \A h \in Hubs : slot[h] # 0 =>
          /\ thr[h].pc = "handed" /\ thr[h].addr = slot[h]
          /\ dev[slot[h]].use = "leaving" /\ dev[slot[h]].stage = "handed" /\ dev[slot[h]].up = h
    /\ \A h \in Hubs : dev[h].use = "leaving" =>
          /\ dev[h].stage \in {"signal", "wait", "ports"} => dev[h].kind = "hub" /\ closing[h]
          /\ dev[h].stage = "ports" => thr[h].pc = "ended"
          /\ dev[h].stage = "usbd" => dev[h].kind = "function"
          /\ dev[h].stage = "wait" /\ thr[h].xf # "none" => event[h]
    /\ \A h \in Hubs : closing[h] /\ thr[h].pc # "none" => dev[h].use = "leaving"

LockSteps == {"reset", "test", "setaddr"}

LockInv ==
    /\ \A t \in Hubs : thr[t].pc \in LockSteps => addr0.owner = t
    /\ addr0.owner # NoThread => thr[addr0.owner].pc \in LockSteps \cup {"failed"} \cup ExitSteps

(* The root hub will disable the port of the external hub before it does      *)
(* anything else, or never does anything again.                               *)
RootBusy(p) == \/ thr[Root].pc \in {"handed", "release"} /\ thr[Root].port = p
               \/ thr[Root].pc \in {"ended", "none"}

(* Whom a port of the root hub answers to.                                    *)
RootPortsInv ==
    /\ \A p \in RootPorts : answers[p] \in Addresses =>
          \/ LET a == answers[p] IN dev[a].use = "listed" /\ dev[a].up = Root /\ dev[a].port = p
          \/ Owns(Root) /\ thr[Root].addr = answers[p] /\ thr[Root].port = p
          \/ RootBusy(p)
    /\ thr[Root].pc \in {"test", "setaddr"} => answers[thr[Root].port] \in {Off, 0, thr[Root].addr}
    /\ thr[Root].pc \in {"configure", "create", "operate"} => answers[thr[Root].port] \in {Off, thr[Root].addr}

(* What is below the external hub answers through it.                         *)
LowerPortsInv ==
    /\ \A q \in LowerPorts : answers[q] # Off =>
          answers[HubPort] \in Addresses /\ (thr[answers[HubPort]].pc # "none" \/ RootBusy(HubPort))
    /\ \A p \in Ports : answers[p] \in Addresses /\ thr[answers[p]].pc # "none" => p = HubPort

(* A device that answers to address 0 is the one that the owner of the lock   *)
(* enumerates, or was left so by an external hub.                             *)
Owned(p) == LET t == addr0.owner IN
    t # NoThread /\ thr[t].port = p /\ (t = Root \/ answers[HubPort] = t)
(* The thread has had its port disabled.                                      *)
CleanExit(w) == w.pc = "leave" \/ (w.pc = "release" /\ w.xf = "ok")
ZeroInv ==
    /\ \A p \in Ports : answers[p] = 0 => Owned(p) \/ p \in stray
    /\ \A t \in Hubs : thr[t].pc = "setaddr" /\ thr[t].xf = "ok" => \A p \in Ports : answers[p] # 0
    /\ \A t \in Hubs : addr0.owner = t /\ CleanExit(thr[t]) => answers[thr[t].port] # 0

Inv == /\ Types /\ WorksInv /\ OwnerInv /\ TreeInv /\ DetachInv
       /\ LockInv /\ RootPortsInv /\ LowerPortsInv /\ ZeroInv

(* How the entry of one thread, or of one address, changes.                   *)
ThrBecomes(t, r) == /\ thr' \in [Hubs -> Works]
                    /\ thr'[t] = r
                    /\ \A s \in Hubs \ {t} : thr'[s] = thr[s]
DevBecomes(a, d) == /\ dev' \in [Hubs -> Devices]
                    /\ dev'[a] = d
                    /\ \A b \in Hubs \ {a} : dev'[b] = dev[b]

LEMMA Numbers == /\ Hubs = Addresses \cup {Root} /\ Root \notin Addresses
                 /\ NoThread \notin Hubs /\ Off \notin Hubs /\ 0 = Root
BY HubAssumption DEF Hubs, Addresses, Root, NoThread, Off

LEMMA PortSets == /\ HubPort \in RootPorts /\ HubPort \notin LowerPorts
                  /\ Ports = RootPorts \cup LowerPorts
                  /\ RootPorts \cap LowerPorts = {}
                  /\ PortsOf(Root) = RootPorts
                  /\ \A t \in Addresses : PortsOf(t) = LowerPorts
BY HubAssumption, Numbers DEF Ports, PortsOf

LEMMA NoDeviceTyped == /\ NoDevice \in Devices /\ NoDevice.use = "free"
                       /\ NoDevice.stage = "none" /\ NoDevice.kind = "none"
BY Numbers, PortSets DEF NoDevice, Devices, Kinds, Stages

LEMMA NoWorkTyped == /\ NoWork \in Works /\ NoWork.pc = "none" /\ NoWork.xf = "none"
                     /\ NoWork.kind = "none"
BY Numbers, PortSets DEF NoWork, Works, Steps, Kinds

LEMMA AtRest == /\ Resting \in Works /\ Resting.pc = "wait" /\ Resting.xf = "none"
                /\ Resting.kind = "none"
BY NoWorkTyped DEF Resting, NoWork, Works, Steps

LEMMA Started == /\ HubThread \in Works /\ HubThread.pc = "power" /\ HubThread.xf = "none"
                 /\ HubThread.kind = "none"
BY NoWorkTyped DEF HubThread, NoWork, Works, Steps

(* Every function is a function of its arguments: how thr and dev change.     *)
LEMMA ThrSet ==
  ASSUME Types, NEW t \in Hubs, NEW r \in Works, thr' = [thr EXCEPT ![t] = r]
  PROVE  ThrBecomes(t, r)
BY DEF Types, ThrBecomes

LEMMA DevSet ==
  ASSUME Types, NEW a \in Hubs, NEW d \in Devices, dev' = [dev EXCEPT ![a] = d]
  PROVE  DevBecomes(a, d)
BY DEF Types, DevBecomes

LEMMA Went ==
  ASSUME Types, NEW t \in Hubs, NEW pc \in Steps, Goto(t, pc)
  PROVE  \E r \in Works : /\ ThrBecomes(t, r) /\ r.pc = pc /\ r.port = thr[t].port
                          /\ r.kind = thr[t].kind /\ r.addr = thr[t].addr /\ r.xf = thr[t].xf
                          /\ r.conn = thr[t].conn
<1> DEFINE r == [thr[t] EXCEPT !.pc = pc]
<1>1. r \in Works /\ r.pc = pc /\ r.port = thr[t].port /\ r.kind = thr[t].kind
      /\ r.addr = thr[t].addr /\ r.xf = thr[t].xf /\ r.conn = thr[t].conn
  BY DEF Types, Works
<1>2. thr' = [thr EXCEPT ![t] = r]
  BY DEF Goto
<1> HIDE DEF r
<1> QED BY <1>1, <1>2, ThrSet

LEMMA Failing ==
  ASSUME Types, NEW t \in Hubs, NEW pc \in Steps, Fails(t, pc)
  PROVE  \E r \in Works : /\ ThrBecomes(t, r) /\ r.pc = pc /\ r.port = thr[t].port
                          /\ r.kind = thr[t].kind /\ r.addr = thr[t].addr /\ r.xf = "none"
<1>0. PICK f : f = thr[t].fails + 1 /\ f \in Nat
  <2>1. PICK n \in Nat : n = thr[t].fails
    BY DEF Types, Works
  <2> QED BY <2>1
<1> DEFINE r == [thr[t] EXCEPT !.pc = pc, !.fails = f, !.xf = "none"]
<1>1. r \in Works /\ r.pc = pc /\ r.port = thr[t].port /\ r.kind = thr[t].kind
      /\ r.addr = thr[t].addr /\ r.xf = "none"
  <2>1. thr[t] \in Works
    BY DEF Types
  <2> QED BY <1>0, <2>1 DEF Works
<1>2. thr' = [thr EXCEPT ![t] = r]
  BY <1>0 DEF Fails
<1> HIDE DEF r
<1> QED BY <1>1, <1>2, ThrSet

LEMMA Rested ==
  ASSUME Types, NEW t \in Hubs, Rests(t)
  PROVE  ThrBecomes(t, Resting)
BY AtRest, ThrSet DEF Rests

LEMMA Answered ==
  ASSUME Types, NEW t \in Hubs, NEW x \in {"none", "busy", "ok", "bad"},
         thr' = [thr EXCEPT ![t].xf = x]
  PROVE  \E r \in Works : /\ ThrBecomes(t, r) /\ r.pc = thr[t].pc /\ r.port = thr[t].port
                          /\ r.kind = thr[t].kind /\ r.addr = thr[t].addr /\ r.xf = x
<1> DEFINE r == [thr[t] EXCEPT !.xf = x]
<1>1. r \in Works /\ r.pc = thr[t].pc /\ r.port = thr[t].port /\ r.kind = thr[t].kind
      /\ r.addr = thr[t].addr /\ r.xf = x
  BY DEF Types, Works
<1>2. thr' = [thr EXCEPT ![t] = r]
  OBVIOUS
<1> HIDE DEF r
<1> QED BY <1>1, <1>2, ThrSet

(* What a thread has read of a port.                                          *)
LEMMA ReadsProps ==
  ASSUME Types, NEW t \in Hubs, NEW p \in Ports
  PROVE  LET r == Reads(t, p) IN
         r \in Works /\ r.pc = thr[t].pc /\ r.port = p /\ r.kind = thr[t].kind
         /\ r.addr = thr[t].addr /\ r.xf = "ok"
<1>1. thr[t] \in Works /\ change[p] \in SUBSET Bits
  BY DEF Types
<1> QED BY <1>1 DEF Works, Reads

LEMMA CutOffTyped ==
  ASSUME Types, NEW p \in Ports
  PROVE  /\ CutOff(answers, p) \in [Ports -> Hubs \cup {Off}]
         /\ CutOff(answers, p)[p] = Off
         /\ p = HubPort => \A q \in LowerPorts : CutOff(answers, p)[q] = Off
         /\ \A q \in Ports : CutOff(answers, p)[q] \in {Off, answers[q]}
         /\ \A q \in Ports \ {p} : (p # HubPort \/ q \notin LowerPorts) => CutOff(answers, p)[q] = answers[q]
BY PortSets DEF CutOff, Types

(* An address that is free is found when there is one.                        *)
LEMMA Reserves ==
  ASSUME ~NoAddressLeft
  PROVE  ReserveAddress \in Addresses /\ dev[ReserveAddress].use = "free"
<1> DEFINE F == {a \in Addresses : dev[a].use = "free"}
           R == OpToRel(<, Nat)
<1>1. F # {} /\ F \subseteq Nat
  BY DEF NoAddressLeft, Addresses
<1>2. IsWellFoundedOn(R, Nat)
  BY NatLessThanWellFounded
<1>3. PICK m \in F : \A b \in F : ~(<<b, m>> \in R)
  BY <1>1, <1>2, WFMin
<1>4. \A b \in F : b \in Nat /\ m \in Nat /\ ~(b < m)
  BY <1>1, <1>3 DEF OpToRel
<1>5. \A b \in 1 .. m - 1 : dev[b].use # "free"
  BY <1>4, HubAssumption DEF Addresses
<1> QED BY <1>3, <1>5 DEF ReserveAddress

-----------------------------------------------------------------------------
(* A step of a thread that neither takes nor gives away an address or a       *)
(* device ...                                                                 *)
KeptTree(t, r) ==
    /\ thr[t].pc \notin {"none", "ended"} /\ r.pc # "none"
    /\ thr[t].pc # "handed" \/ slot[t] = 0
    /\ r.pc \in OwnSteps <=> Owns(t)
    /\ Owns(t) => r.addr = thr[t].addr /\ r.port = thr[t].port
    /\ r.pc \in {"operate", "client"} => thr[t].pc \in {"operate", "client"}
    /\ closing[t] /\ r.xf # "none" => thr[t].xf # "none"

(* ... nor the lock of address 0, and leaves the bus as it is.                *)
KeptBus(t, r) ==
    /\ thr[t].pc # "failed"
    /\ t = Root => thr[t].pc \notin {"handed", "release"}
    /\ r.pc \in ExitSteps <=> thr[t].pc \in ExitSteps
    /\ r.pc \in ExitSteps => r.port = thr[t].port
    /\ CleanExit(r) => CleanExit(thr[t])
    /\ r.pc \in LockSteps <=> thr[t].pc \in LockSteps /\ r.pc # "failed"
    /\ t = Root /\ r.pc \in {"test", "setaddr"} => thr[t].pc \in {"test", "setaddr"}
    /\ t = Root /\ r.pc \in {"configure", "create", "operate"} =>
          thr[t].pc \in {"configure", "create", "operate"}
    /\ r.pc = "setaddr" => r.xf # "ok"
Kept(t, r) == KeptTree(t, r) /\ KeptBus(t, r)

ThreadStep(t, r) ==
    /\ r \in Works /\ WorkOK(t, r) /\ ThrBecomes(t, r) /\ KeptTree(t, r)
    /\ change' \in [Ports -> SUBSET Bits]
    /\ event' \in [Hubs -> BOOLEAN]
    /\ \A h \in Hubs \ {t} : event'[h] = event[h]
    /\ r.xf # "none" => event'[t] = event[t] \/ event'[t]
    /\ UNCHANGED <<plug, dev, slot, known, closing, unload>>
Quiet(t, r) == ThreadStep(t, r) /\ Kept(t, r) /\ UNCHANGED <<answers, addr0, stray>>

LEMMA TreeStep ==
  ASSUME Inv, NEW t \in Hubs, NEW r, ThreadStep(t, r)
  PROVE  WorksInv' /\ OwnerInv' /\ TreeInv' /\ DetachInv'
<1>0. Types /\ WorksInv /\ OwnerInv /\ TreeInv /\ DetachInv
  BY DEF Inv
<1> USE Numbers, PortSets
<1>2. WorksInv'
  BY <1>0 DEF WorksInv, WorkOK, ThreadStep, ThrBecomes, Requests
<1>3. OwnerInv'
  <2>1. \A h \in Hubs : /\ Owns(h)' <=> Owns(h)
                        /\ Owns(h) => thr'[h].addr = thr[h].addr /\ thr'[h].port = thr[h].port
                        /\ thr[h].pc = "none" => thr'[h].pc = "none"
                        /\ thr'[h].pc \in {"operate", "client"} => thr[h].pc \in {"operate", "client"}
                        /\ thr[h].addr \in Hubs
    BY <1>0 DEF Owns, ThreadStep, KeptTree, ThrBecomes, Types, Works
  <2>2. UNCHANGED <<dev, known>>
    BY DEF ThreadStep
  <2> QED BY <1>0, <2>1, <2>2 DEF OwnerInv
<1>4. TreeInv'
  BY <1>0 DEF TreeInv, ThreadStep, KeptTree, ThrBecomes, Types, Devices
<1>5. DetachInv'
  BY <1>0 DEF DetachInv, ThreadStep, KeptTree, ThrBecomes, Types
<1> QED BY <1>2, <1>3, <1>4, <1>5

LEMMA QuietStep ==
  ASSUME Inv, NEW t \in Hubs, NEW r, Quiet(t, r)
  PROVE  Inv'
<1>0. Types /\ OwnerInv /\ TreeInv /\ LockInv /\ RootPortsInv /\ LowerPortsInv /\ ZeroInv
  BY DEF Inv
<1> USE Numbers, PortSets
<1>1. Types'
  BY <1>0 DEF Quiet, ThreadStep, ThrBecomes, Types
<1>2. WorksInv' /\ OwnerInv' /\ TreeInv' /\ DetachInv'
  BY TreeStep DEF Quiet
<1>3. LockInv'
  BY <1>0 DEF LockInv, LockSteps, ExitSteps, Quiet, ThreadStep, Kept, KeptTree, KeptBus, ThrBecomes, Types,
              Owns, OwnSteps, AttachSteps
<1>4. RootPortsInv'
  BY <1>0 DEF RootPortsInv, Quiet, ThreadStep, Kept, KeptTree, KeptBus, ThrBecomes, RootBusy,
              Owns, OwnSteps, AttachSteps, Types
<1>5. LowerPortsInv'
  BY <1>0 DEF LowerPortsInv, RootBusy, Quiet, ThreadStep, Kept, KeptTree, KeptBus, ThrBecomes, Types
<1>6. ZeroInv'
  BY <1>0 DEF ZeroInv, Owned, CleanExit, LockInv, RootBusy, Quiet, ThreadStep, Kept, KeptTree, KeptBus,
              ThrBecomes, Types, LockSteps, Owns, OwnSteps, AttachSteps
<1> QED BY <1>1, <1>2, <1>3, <1>4, <1>5, <1>6 DEF Inv

LEMMA IssueQuiet ==
  ASSUME Inv, NEW t \in Hubs, Issue(t)
  PROVE  Inv'
<1>1. PICK r \in Works : ThrBecomes(t, r) /\ r.pc = thr[t].pc /\ r.port = thr[t].port
          /\ r.kind = thr[t].kind /\ r.addr = thr[t].addr /\ r.xf = "busy"
  BY Answered DEF Inv, Issue
<1>2. WorkOK(t, r)
  BY <1>1 DEF Inv, WorksInv, WorkOK, Issue
<1>3. Kept(t, r)
  BY <1>1 DEF Kept, KeptTree, KeptBus, CleanExit, ExitSteps, Issue, Requests, Ignored, Owns, OwnSteps, AttachSteps, LockSteps
<1>4. Quiet(t, r)
  BY <1>1, <1>2, <1>3 DEF Quiet, ThreadStep, Kept, Inv, Types, Issue, physical, driver
<1> QED BY <1>4, QuietStep

(* Where a thread goes on after a request whose result nobody looks at.       *)
LEMMA GoesOn == /\ OnFailure("clear") = "changed" /\ OnFailure("release") = "strand"
                /\ OnFailure("reclear") = "poll"  /\ OnFailure("disable") = "poll"
BY DEF OnFailure, OnSuccess, Ignored

LEMMA WakeQuiet ==
  ASSUME Inv, NEW t \in Hubs, Wake(t), ~(thr[t].pc = "setaddr" /\ thr[t].xf = "ok")
  PROVE  Inv'
<1> DEFINE pc == thr[t].pc
<1>0. Types /\ WorkOK(t, thr[t]) /\ pc \in Requests(t) /\ thr[t].xf # "none"
  BY DEF Inv, Wake, WorksInv, WorkOK
<1>1. SUFFICES \E r \in Works : ThrBecomes(t, r) /\ WorkOK(t, r) /\ Kept(t, r) /\ r.xf = "none"
  <2>1. PICK r \in Works : ThrBecomes(t, r) /\ WorkOK(t, r) /\ Kept(t, r) /\ r.xf = "none"
    BY <1>1
  <2>2. addr0' = addr0
    BY DEF Wake
  <2>3. Quiet(t, r)
    BY <1>0, <2>1, <2>2 DEF Quiet, ThreadStep, Kept, Types, Wake, driver
  <2> QED BY <2>3, QuietStep
<1>2. CASE thr[t].xf = "ok" /\ thr' = [thr EXCEPT ![t].pc = OnSuccess(pc), ![t].xf = "none"]
  <2>1. PICK to \in Steps : to = OnSuccess(pc)
    BY <1>0 DEF OnSuccess, Requests, Ignored, Steps
  <2>2. PICK r : r = [thr[t] EXCEPT !.pc = to, !.xf = "none"] /\ thr' = [thr EXCEPT ![t] = r]
    BY <1>0, <1>2, <2>1 DEF Types
  <2>6. r \in Works /\ ThrBecomes(t, r) /\ r.pc = to /\ r.port = thr[t].port
        /\ r.kind = thr[t].kind /\ r.addr = thr[t].addr /\ r.xf = "none"
    <3>1. thr[t] \in Works
      BY <1>0 DEF Types
    <3>2. r \in Works /\ r.pc = to /\ r.port = thr[t].port
          /\ r.kind = thr[t].kind /\ r.addr = thr[t].addr /\ r.xf = "none"
      BY <2>1, <2>2, <3>1 DEF Works
    <3> QED BY <1>0, <2>2, <3>2, ThrSet
  <2>3. WorkOK(t, r)
    BY <1>0, <1>2, <2>1, <2>6 DEF OnSuccess, Requests, Ignored, WorkOK, OwnSteps, PortSteps, LowerSteps, ExitSteps, AttachSteps
  <2>4. pc # "setaddr"
    BY <1>2
  <2>5. Kept(t, r)
    BY <1>0, <1>2, <2>1, <2>4, <2>6 DEF OnSuccess, Requests, Ignored, Kept, KeptTree, KeptBus, CleanExit, ExitSteps, Owns, OwnSteps, AttachSteps, LockSteps
  <2> QED BY <2>3, <2>5, <2>6
<1>5. CASE pc \in Ignored /\ thr[t].xf # "ok" /\ thr' = [thr EXCEPT ![t].pc = OnFailure(pc), ![t].xf = "none"]
  <2>1. PICK to \in Steps : to = OnFailure(pc) /\ pc \in Ignored
          /\ \/ pc = "clear" /\ to = "changed"
             \/ pc \in {"reclear", "disable"} /\ to = "poll"
             \/ pc = "release" /\ to = "strand"
    <3>1. OnFailure(pc) \in Steps
      BY <1>5, GoesOn DEF Ignored, Steps
    <3> QED BY <1>5, <3>1, GoesOn DEF Ignored
  <2>2. PICK r : r = [thr[t] EXCEPT !.pc = to, !.xf = "none"] /\ thr' = [thr EXCEPT ![t] = r]
    BY <1>0, <1>5, <2>1 DEF Types
  <2>3. r \in Works /\ ThrBecomes(t, r) /\ r.pc = to /\ r.port = thr[t].port
        /\ r.kind = thr[t].kind /\ r.addr = thr[t].addr /\ r.xf = "none"
    <3>1. thr[t] \in Works
      BY <1>0 DEF Types
    <3>2. r \in Works /\ r.pc = to /\ r.port = thr[t].port
          /\ r.kind = thr[t].kind /\ r.addr = thr[t].addr /\ r.xf = "none"
      BY <2>1, <2>2, <3>1 DEF Works
    <3> QED BY <1>0, <2>2, <3>2, ThrSet
  <2>4. t # Root
    BY <1>0, <1>5 DEF Requests, Ignored
  <2>5. WorkOK(t, r)
    BY <1>0, <2>1, <2>3, <2>4 DEF WorkOK, OwnSteps, PortSteps, LowerSteps, ExitSteps, AttachSteps
  <2>6. Kept(t, r)
    BY <1>0, <1>5, <2>1, <2>3, <2>4
       DEF Kept, KeptTree, KeptBus, CleanExit, ExitSteps, Owns, OwnSteps, AttachSteps, LockSteps
  <2> QED BY <2>3, <2>5, <2>6
<1>3. CASE /\ pc \notin AttachSteps \cup Ignored
           /\ thr' = [thr EXCEPT ![t] = [NoWork EXCEPT !.pc = OnFailure(pc)]]
  <2> DEFINE r == [NoWork EXCEPT !.pc = OnFailure(pc)]
  <2>1. OnFailure(pc) \in {"power", "wait"}
    BY <1>0, <1>3 DEF OnFailure, OnSuccess, Requests, Ignored, AttachSteps
  <2>2. r \in Works /\ r.pc = OnFailure(pc) /\ r.xf = "none" /\ r.kind = "none"
    BY <2>1, NoWorkTyped DEF NoWork, Works, Steps
  <2> HIDE DEF r
  <2>3. ThrBecomes(t, r)
    BY <1>0, <1>3, <2>2, ThrSet DEF r
  <2>4. WorkOK(t, r)
    BY <2>1, <2>2 DEF WorkOK, OwnSteps, PortSteps, LowerSteps, ExitSteps, AttachSteps
  <2>5. Kept(t, r)
    BY <1>0, <1>3, <2>1, <2>2 DEF Requests, Ignored, Kept, KeptTree, KeptBus, CleanExit, ExitSteps, Owns, OwnSteps, AttachSteps, LockSteps
  <2> QED BY <2>2, <2>3, <2>4, <2>5
<1>4. CASE pc \in AttachSteps /\ \E to \in {OnFailure(pc), "failed"} : Fails(t, to)
  <2>1. PICK to \in {OnFailure(pc), "failed"} : Fails(t, to)
    BY <1>4
  <2>2. to \in {"reset", "failed"} \/ (pc = "configure" /\ to = "configure")
    BY <1>0, <1>4 DEF OnFailure, OnSuccess, Requests, Ignored, AttachSteps
  <2>3. pc \in {"reset", "test", "setaddr", "configure"} /\ (to = "reset" => pc # "configure")
    BY <1>0, <1>4 DEF OnFailure, OnSuccess, Requests, Ignored, AttachSteps
  <2>4. PICK r \in Works : ThrBecomes(t, r) /\ r.pc = to /\ r.port = thr[t].port
            /\ r.kind = thr[t].kind /\ r.addr = thr[t].addr /\ r.xf = "none"
    BY <1>0, <2>1, <2>2, Failing DEF Steps
  <2>5. WorkOK(t, r)
    BY <1>0, <2>2, <2>3, <2>4 DEF WorkOK, OwnSteps, PortSteps, LowerSteps, ExitSteps, AttachSteps
  <2>6. Kept(t, r)
    BY <1>0, <2>2, <2>3, <2>4 DEF Kept, KeptTree, KeptBus, CleanExit, ExitSteps, Owns, OwnSteps, AttachSteps, LockSteps
  <2> QED BY <2>4, <2>5, <2>6
<1> QED BY <1>2, <1>3, <1>4, <1>5 DEF Wake, AttachSteps

(* What an external hub that closes is not asked.                             *)
LEMMA SkippedQuiet ==
  ASSUME Inv, NEW t \in Hubs, Skipped(t)
  PROVE  Inv'
<1>1. PICK pc \in Ignored : thr[t].pc = pc /\ thr[t].xf = "none" /\ t # Root
  BY DEF Skipped, At
<1>2. PICK to \in Steps : /\ Goto(t, to)
                          /\ \/ pc = "clear" /\ to = "changed"
                             \/ pc \in {"reclear", "disable"} /\ to = "poll"
                             \/ pc = "release" /\ to = "strand"
  <2>1. OnFailure(pc) \in Steps
    BY GoesOn DEF Ignored, Steps
  <2> QED BY <1>1, <2>1, GoesOn DEF Skipped, Ignored
<1>3. PICK r \in Works : ThrBecomes(t, r) /\ r.pc = to /\ r.port = thr[t].port
          /\ r.kind = thr[t].kind /\ r.addr = thr[t].addr /\ r.xf = "none"
  BY <1>1, <1>2, Went DEF Inv
<1>4. WorkOK(t, thr[t])
  BY DEF Inv, WorksInv
<1>5. WorkOK(t, r)
  BY <1>1, <1>2, <1>3, <1>4 DEF WorkOK, OwnSteps, PortSteps, LowerSteps, ExitSteps, AttachSteps
<1>6. Kept(t, r)
  BY <1>1, <1>2, <1>3 DEF Kept, KeptTree, KeptBus, CleanExit, ExitSteps,
     Owns, OwnSteps, AttachSteps, LockSteps
<1>7. Quiet(t, r)
  BY <1>1, <1>3, <1>5, <1>6 DEF Quiet, ThreadStep, Kept, Inv, Types, Skipped, physical, driver
<1> QED BY <1>7, QuietStep

LEMMA ThreadEndsQuiet ==
  ASSUME Inv, NEW t \in Hubs, ThreadEnds(t)
  PROVE  Inv'
<1>1. PICK r \in Works : ThrBecomes(t, r) /\ r.pc = "ended" /\ r.port = thr[t].port
          /\ r.kind = thr[t].kind /\ r.addr = thr[t].addr /\ r.xf = "none"
  BY Went DEF Inv, ThreadEnds, Steps
<1>2. WorkOK(t, r)
  BY <1>1 DEF Inv, WorksInv, WorkOK, ThreadEnds, PortSteps, LowerSteps, ExitSteps, OwnSteps, AttachSteps
<1>3. Kept(t, r)
  BY <1>1 DEF Kept, KeptTree, KeptBus, CleanExit, ExitSteps, ThreadEnds, Owns, OwnSteps, AttachSteps, LockSteps
<1>4. Quiet(t, r)
  BY <1>1, <1>2, <1>3 DEF Quiet, ThreadStep, Kept, Inv, Types, ThreadEnds, physical, driver
<1> QED BY <1>4, QuietStep

LEMMA RootPollQuiet ==
  ASSUME Inv, RootPoll
  PROVE  Inv'
<1>1. \E r \in Works : ThrBecomes(Root, r) /\ r.kind = thr[Root].kind /\ r.xf = "none"
          /\ (r.pc = "wait" \/ (r.pc = "changed" /\ r.port \in RootPorts))
  <2>1. CASE thr[Root].pc = "power"
    BY <2>1, Went, Numbers DEF Inv, RootPoll, At, Steps
  <2>2. CASE thr[Root].pc # "power"
    <3>1. PICK p \in RootPorts :
             thr' = [thr EXCEPT ![Root] = [Reads(Root, p) EXCEPT !.pc = "changed", !.xf = "none"]]
      BY <2>2 DEF RootPoll
    <3>2. Types /\ Root \in Hubs /\ p \in Ports /\ "changed" \in Steps
      BY Numbers, PortSets DEF Inv, Steps
    <3>3. PICK w \in Works : w = Reads(Root, p) /\ w.port = p /\ w.kind = thr[Root].kind
      BY <3>2, ReadsProps
    <3>4. PICK r : r = [w EXCEPT !.pc = "changed", !.xf = "none"]
      OBVIOUS
    <3>5. r \in Works /\ r.pc = "changed" /\ r.port = p /\ r.kind = thr[Root].kind /\ r.xf = "none"
      BY <3>2, <3>3, <3>4 DEF Works
    <3>6. thr' = [thr EXCEPT ![Root] = r]
      BY <3>1, <3>3, <3>4
    <3> QED BY <3>2, <3>5, <3>6, ThrSet
  <2> QED BY <2>1, <2>2
<1>2. PICK r \in Works : ThrBecomes(Root, r) /\ r.kind = thr[Root].kind /\ r.xf = "none"
          /\ (r.pc = "wait" \/ (r.pc = "changed" /\ r.port \in RootPorts))
  BY <1>1
<1>3. WorkOK(Root, r)
  BY <1>2, PortSets, Numbers DEF Inv, WorksInv, WorkOK, RootPoll, At, PortSteps, LowerSteps, ExitSteps, OwnSteps, AttachSteps
<1>4. Kept(Root, r)
  BY <1>2 DEF Kept, KeptTree, KeptBus, CleanExit, ExitSteps, RootPoll, At, Owns, OwnSteps, AttachSteps, LockSteps
<1>5. Quiet(Root, r)
  BY <1>2, <1>3, <1>4, Numbers DEF Quiet, ThreadStep, Kept, Inv, Types, RootPoll, physical, driver
<1> QED BY <1>5, QuietStep, Numbers

LEMMA ClearsTyped ==
  ASSUME Types, NEW h \in Hubs, NEW bits, Clears(h, bits)
  PROVE  change' \in [Ports -> SUBSET Bits]
<1>1. thr[h].port \in Ports
  BY DEF Types, Works
<1> QED BY <1>1 DEF Clears, Types

LEMMA PortChangedQuiet ==
  ASSUME Inv, NEW t \in Hubs, PortChanged(t), Goto(t, "poll") \/ Rests(t), UNCHANGED driver
  PROVE  Inv'
<1>1. Types /\ At(t, "changed") /\ WorkOK(t, thr[t])
  BY DEF Inv, PortChanged, WorksInv
<1>2. PICK r \in Works : ThrBecomes(t, r) /\ r.xf = "none" /\ r.kind = "none"
          /\ (r.pc = "wait" \/ (r.pc = "poll" /\ r.port = thr[t].port))
  <2>1. CASE Goto(t, "poll")
    <3>1. thr[t].kind = "none"
      BY <1>1 DEF WorkOK, At, ExitSteps, OwnSteps, AttachSteps
    <3> QED BY <1>1, <2>1, <3>1, Went DEF At, Steps
  <2>2. CASE Rests(t)
    BY <1>1, <2>2, Rested, AtRest
  <2> QED BY <2>1, <2>2
<1>3. WorkOK(t, r)
  BY <1>1, <1>2 DEF WorkOK, At, PortSteps, LowerSteps, ExitSteps, OwnSteps, AttachSteps
<1>4. Kept(t, r)
  BY <1>1, <1>2 DEF Kept, KeptTree, KeptBus, CleanExit, ExitSteps, At, Owns, OwnSteps, AttachSteps, LockSteps
<1>5. change' \in [Ports -> SUBSET Bits]
  BY <1>1, ClearsTyped DEF PortChanged
<1>6. Quiet(t, r)
  BY <1>1, <1>2, <1>3, <1>4, <1>5 DEF Quiet, ThreadStep, Kept, Types, PortChanged, driver
<1> QED BY <1>6, QuietStep

LEMMA RootPolledQuiet ==
  ASSUME Inv, NEW t \in Hubs, RootPolled(t)
  PROVE  Inv'
<1>1. Types /\ WorkOK(t, thr[t]) /\ thr[t].port \in Ports
  BY DEF Inv, WorksInv, Types, Works
<1>2. PICK r \in Works : ThrBecomes(t, r) /\ r.pc = "polled" /\ r.port = thr[t].port
          /\ r.kind = thr[t].kind /\ r.addr = thr[t].addr /\ r.xf = "none"
  <2>1. "polled" \in Steps
    BY DEF Steps
  <2>2. PICK w \in Works : w = Reads(t, thr[t].port) /\ w.port = thr[t].port
                           /\ w.kind = thr[t].kind /\ w.addr = thr[t].addr
    BY <1>1, ReadsProps
  <2>3. PICK r : r = [w EXCEPT !.pc = "polled", !.xf = "none"]
    OBVIOUS
  <2>4. r \in Works /\ r.pc = "polled" /\ r.port = thr[t].port
        /\ r.kind = thr[t].kind /\ r.addr = thr[t].addr /\ r.xf = "none"
    BY <2>1, <2>2, <2>3 DEF Works
  <2>5. thr' = [thr EXCEPT ![t] = r]
    BY <2>2, <2>3 DEF RootPolled
  <2> QED BY <1>1, <2>4, <2>5, ThrSet
<1>3. WorkOK(t, r)
  BY <1>1, <1>2 DEF WorkOK, RootPolled, At, PortSteps, LowerSteps, ExitSteps, OwnSteps, AttachSteps
<1>4. Kept(t, r)
  BY <1>2 DEF Kept, KeptTree, KeptBus, CleanExit, ExitSteps, RootPolled, At, Owns, OwnSteps, AttachSteps, LockSteps
<1>5. Quiet(t, r)
  BY <1>1, <1>2, <1>3, <1>4 DEF Quiet, ThreadStep, Kept, Types, RootPolled, physical, driver
<1> QED BY <1>5, QuietStep

(* A thread goes back to its wait, or on, within its own work.                *)
LEMMA RefusedQuiet ==
  ASSUME Inv, NEW t \in Hubs, Refused(t)
  PROVE  Inv'
<1>1. ThrBecomes(t, Resting) /\ Resting \in Works
  BY Rested, AtRest DEF Inv, Refused
<1>2. WorkOK(t, Resting)
  BY AtRest DEF WorkOK, PortSteps, LowerSteps, ExitSteps, OwnSteps, AttachSteps
<1>3. Kept(t, Resting)
  BY AtRest DEF Kept, KeptTree, KeptBus, CleanExit, ExitSteps, Refused, At, Owns, OwnSteps, AttachSteps, LockSteps
<1>4. Quiet(t, Resting)
  BY <1>1, <1>2, <1>3 DEF Quiet, ThreadStep, Kept, Inv, Types, Refused, physical, driver
<1> QED BY <1>4, QuietStep

LEMMA PolledQuiet ==
  ASSUME Inv, NEW t \in Hubs, Polled(t)
  PROVE  Inv'
<1>1. Types /\ At(t, "polled") /\ WorkOK(t, thr[t])
  BY DEF Inv, Polled, WorksInv
<1>2. PICK r \in Works : ThrBecomes(t, r) /\ r.xf = "none" /\ r.kind = "none"
          /\ \/ r.pc = "wait"
             \/ r.pc \in {"poll", "attach"} /\ r.port = thr[t].port
             \/ r.pc = "reclear" /\ t # Root /\ r.port = thr[t].port
  <2>1. CASE Goto(t, "poll") \/ Goto(t, "attach") \/ (t # Root /\ Goto(t, "reclear"))
    <3>1. thr[t].kind = "none"
      BY <1>1 DEF WorkOK, At, ExitSteps, OwnSteps, AttachSteps
    <3> QED BY <1>1, <2>1, <3>1, Went DEF At, Steps
  <2>2. CASE Rests(t)
    BY <1>1, <2>2, Rested, AtRest
  <2> QED BY <2>1, <2>2 DEF Polled
<1>3. WorkOK(t, r)
  BY <1>1, <1>2 DEF WorkOK, At, PortSteps, LowerSteps, ExitSteps, OwnSteps, AttachSteps
<1>4. Kept(t, r)
  BY <1>1, <1>2 DEF Kept, KeptTree, KeptBus, CleanExit, ExitSteps, At, Owns, OwnSteps, AttachSteps, LockSteps
<1>5. change' \in [Ports -> SUBSET Bits]
  <2>1. CASE Clears(t, {"connect"})
    BY <1>1, <2>1, ClearsTyped
  <2>2. CASE change' = change
    BY <1>1, <2>2 DEF Types
  <2> QED BY <2>1, <2>2 DEF Polled
<1>6. Quiet(t, r)
  BY <1>1, <1>2, <1>3, <1>4, <1>5 DEF Quiet, ThreadStep, Kept, Types, Polled, driver
<1> QED BY <1>6, QuietStep

(* A thread goes on with an enumeration, tries again or gives up.             *)
LEMMA OnwardQuiet ==
  ASSUME Inv, NEW t \in Hubs, NEW to \in {"open", "locking", "reset", "create", "client", "failed"},
         Goto(t, to) \/ Fails(t, to), thr[t].xf = "none", Owns(t), thr[t].pc # "failed",
         to \in {"open", "locking"} => thr[t].pc = "open",
         to \in {"reset", "create"} => thr[t].pc = to,
         to = "client" => thr[t].pc = "operate",
         UNCHANGED <<plug, answers, change, dev, slot, known, closing, event, addr0, unload, stray>>
  PROVE  Inv'
<1>1. Types /\ WorkOK(t, thr[t])
  BY DEF Inv, WorksInv
<1>2. to \in Steps
  BY DEF Steps
<1>3. PICK r \in Works : ThrBecomes(t, r) /\ r.pc = to /\ r.port = thr[t].port
          /\ r.kind = thr[t].kind /\ r.addr = thr[t].addr /\ r.xf = "none"
  BY <1>1, <1>2, Went, Failing
<1>4. WorkOK(t, r)
  BY <1>1, <1>3 DEF WorkOK, PortSteps, LowerSteps, ExitSteps, Owns, OwnSteps, AttachSteps
<1>5. Kept(t, r)
  BY <1>3 DEF Kept, KeptTree, KeptBus, CleanExit, ExitSteps, Owns, OwnSteps, AttachSteps, LockSteps
<1>6. Quiet(t, r)
  BY <1>1, <1>3, <1>4, <1>5 DEF Quiet, ThreadStep, Kept, Types
<1> QED BY <1>6, QuietStep

LEMMA GiveUpQuiet ==
  ASSUME Inv, NEW t \in Hubs, GiveUp(t)
  PROVE  Inv'
<1>1. Goto(t, "failed") /\ thr[t].xf = "none" /\ Owns(t) /\ thr[t].pc # "failed"
  BY DEF GiveUp, Owns, OwnSteps
<1>2. UNCHANGED <<plug, answers, change, dev, slot, known, closing, event, addr0, unload, stray>>
  BY DEF GiveUp, physical, driver
<1> QED BY <1>1, <1>2, OnwardQuiet

LEMMA OpenPipe0Quiet ==
  ASSUME Inv, NEW t \in Hubs, OpenPipe0(t)
  PROVE  Inv'
<1>1. thr[t].pc = "open" /\ thr[t].xf = "none" /\ Owns(t)
  BY DEF OpenPipe0, Step, At, Owns, OwnSteps, AttachSteps
<1>2. UNCHANGED <<plug, answers, change, dev, slot, known, closing, event, addr0, unload, stray>>
  BY DEF OpenPipe0, driver
<1>3. Goto(t, "locking") \/ Fails(t, "open")
  BY DEF OpenPipe0
<1> QED BY <1>1, <1>2, <1>3, OnwardQuiet

LEMMA LockFails ==
  ASSUME Inv, NEW t \in Hubs, LockAddress0(t), Goto(t, "failed"), UNCHANGED <<addr0, stray>>
  PROVE  Inv'
<1>1. thr[t].pc = "locking" /\ thr[t].xf = "none" /\ Owns(t)
  BY DEF LockAddress0, At, Owns, OwnSteps, AttachSteps
<1>2. UNCHANGED <<plug, answers, change, dev, slot, known, closing, event, addr0, unload, stray>>
  BY DEF LockAddress0, physical, driver
<1> QED BY <1>1, <1>2, OnwardQuiet

LEMMA RootResetFails ==
  ASSUME Inv, RootReset, Fails(Root, "reset"), UNCHANGED answers
  PROVE  Inv'
<1>1. thr[Root].pc = "reset" /\ thr[Root].xf = "none" /\ Owns(Root)
  BY DEF RootReset, Step, At, Owns, OwnSteps, AttachSteps
<1>2. UNCHANGED <<plug, answers, change, dev, slot, known, closing, event, addr0, unload, stray>>
  BY DEF RootReset, driver
<1> QED BY <1>1, <1>2, OnwardQuiet, Numbers

LEMMA CreateFails ==
  ASSUME Inv, NEW t \in Hubs, Create(t), Fails(t, "create"), UNCHANGED dev
  PROVE  Inv'
<1>1. thr[t].pc = "create" /\ thr[t].xf = "none" /\ Owns(t)
  BY DEF Create, Step, At, Owns, OwnSteps, AttachSteps
<1>2. UNCHANGED <<plug, answers, change, dev, slot, known, closing, event, addr0, unload, stray>>
  BY DEF Create
<1> QED BY <1>1, <1>2, OnwardQuiet

LEMMA OperateQuiet ==
  ASSUME Inv, NEW t \in Hubs, Operate(t), Goto(t, "client") \/ Fails(t, "failed"),
         UNCHANGED <<closing, event>>
  PROVE  Inv'
<1>1. thr[t].pc = "operate" /\ thr[t].xf = "none" /\ Owns(t)
  BY DEF Operate, Step, At, Owns, OwnSteps, AttachSteps
<1>2. UNCHANGED <<plug, answers, change, dev, slot, known, closing, event, addr0, unload, stray>>
  BY DEF Operate, driver
<1> QED BY <1>1, <1>2, OnwardQuiet

LEMMA ClientFails ==
  ASSUME Inv, NEW t \in Hubs, ClientAttaches(t), Fails(t, "failed"), UNCHANGED known
  PROVE  Inv'
<1>1. thr[t].pc = "client" /\ thr[t].xf = "none" /\ Owns(t)
  BY DEF ClientAttaches, At, Owns, OwnSteps
<1>2. UNCHANGED <<plug, answers, change, dev, slot, known, closing, event, addr0, unload, stray>>
  BY DEF ClientAttaches
<1> QED BY <1>1, <1>2, OnwardQuiet

LEMMA ReserveFails ==
  ASSUME Inv, NEW t \in Hubs, Reserve(t), Rests(t), UNCHANGED dev
  PROVE  Inv'
<1>1. ThrBecomes(t, Resting) /\ Resting \in Works
  BY Rested, AtRest DEF Inv
<1>2. WorkOK(t, Resting)
  BY AtRest DEF WorkOK, PortSteps, LowerSteps, ExitSteps, OwnSteps, AttachSteps
<1>3. Kept(t, Resting)
  BY AtRest DEF Kept, KeptTree, KeptBus, CleanExit, ExitSteps, Reserve, At, Owns, OwnSteps, AttachSteps, LockSteps
<1>4. Quiet(t, Resting)
  BY <1>1, <1>2, <1>3 DEF Quiet, ThreadStep, Kept, Inv, Types, Reserve
<1> QED BY <1>4, QuietStep

(* What a transfer that completes has told its thread.                        *)
LEMMA Completed ==
  ASSUME Inv, NEW t \in Hubs, Complete(t)
  PROVE  /\ \E r \in Works : ThrBecomes(t, r) /\ r.pc = thr[t].pc /\ r.xf \in {"ok", "bad"}
               /\ WorkOK(t, r) /\ (Owns(t) => r.addr = thr[t].addr)
               /\ (thr[t].pc # "status" => r.port = thr[t].port)
         /\ thr[t].xf = "busy" /\ thr[t].pc \in Requests(t)
         /\ event' = [event EXCEPT ![t] = TRUE]
         /\ change' \in [Ports -> SUBSET Bits]
         /\ UNCHANGED <<plug, dev, slot, known, closing, addr0, unload, stray>>
<1>1. /\ Types /\ thr[t].xf = "busy" /\ thr[t].pc \in Requests(t) /\ WorkOK(t, thr[t])
      /\ thr[t] \in Works /\ thr[t].port \in Ports
  BY DEF Inv, WorksInv, WorkOK, Complete, Types, Works
<1>2. \E r \in Works : ThrBecomes(t, r) /\ r.pc = thr[t].pc /\ r.xf \in {"ok", "bad"}
         /\ WorkOK(t, r) /\ (Owns(t) => r.addr = thr[t].addr)
         /\ (thr[t].pc # "status" => r.port = thr[t].port)
  <2>1. CASE \/ thr' = [thr EXCEPT ![t].xf = "bad"]
             \/ thr[t].pc # "status" /\ thr' = [thr EXCEPT ![t].xf = "ok"]
    <3>1. PICK r \in Works : ThrBecomes(t, r) /\ r.pc = thr[t].pc /\ r.port = thr[t].port
            /\ r.kind = thr[t].kind /\ r.addr = thr[t].addr /\ r.xf \in {"ok", "bad"}
            /\ (r.xf = "ok" => thr[t].pc # "status")
      BY <1>1, <2>1, Answered
    <3>2. WorkOK(t, r)
      BY <1>1, <3>1 DEF WorkOK
    <3> QED BY <3>1, <3>2
  <2>2. CASE thr[t].pc = "status" /\ \E p \in LowerPorts : thr' = [thr EXCEPT ![t] = Reads(t, p)]
    <3>1. PICK p \in LowerPorts : thr' = [thr EXCEPT ![t] = Reads(t, p)]
      BY <2>2
    <3>2. PICK r \in Works : r = Reads(t, p) /\ r.pc = thr[t].pc /\ r.port = p
             /\ r.kind = thr[t].kind /\ r.addr = thr[t].addr /\ r.xf = "ok"
      BY <1>1, PortSets, ReadsProps
    <3>3. t \in Addresses
      BY <1>1, <2>2, Numbers DEF Requests
    <3>4. WorkOK(t, r)
      BY <1>1, <2>2, <3>2, <3>3, PortSets DEF WorkOK, OwnSteps, PortSteps, LowerSteps, ExitSteps, AttachSteps
    <3> QED BY <1>1, <2>2, <3>1, <3>2, <3>4, ThrSet DEF Owns, OwnSteps, AttachSteps
  <2>3. CASE thr[t].pc = "poll" /\ thr' = [thr EXCEPT ![t] = Reads(t, thr[t].port)]
    <3>1. PICK r \in Works : r = Reads(t, thr[t].port) /\ r.pc = thr[t].pc /\ r.port = thr[t].port
             /\ r.kind = thr[t].kind /\ r.addr = thr[t].addr /\ r.xf = "ok"
      BY <1>1, ReadsProps
    <3>2. WorkOK(t, r)
      BY <1>1, <2>3, <3>1 DEF WorkOK
    <3> QED BY <1>1, <2>3, <3>1, <3>2, ThrSet
  <2>4. CASE /\ thr[t].pc = "configure"
             /\ thr' = [thr EXCEPT ![t].xf = "ok", ![t].kind = plug[thr[t].port]]
    <3>1. PICK k \in Kinds : k = plug[thr[t].port] /\ (k = "hub" => thr[t].port = HubPort)
      BY <1>1 DEF Types
    <3>2. PICK r : r = [thr[t] EXCEPT !.xf = "ok", !.kind = k]
      OBVIOUS
    <3>3. r \in Works /\ r.pc = thr[t].pc /\ r.port = thr[t].port
          /\ r.kind = k /\ r.addr = thr[t].addr /\ r.xf = "ok"
      BY <1>1, <3>2 DEF Works
    <3>4. thr' = [thr EXCEPT ![t] = r]
      BY <1>1, <2>4, <3>1, <3>2 DEF Types
    <3>5. WorkOK(t, r)
      BY <1>1, <2>4, <3>1, <3>3 DEF WorkOK, OwnSteps, PortSteps, LowerSteps, ExitSteps, AttachSteps
    <3> QED BY <1>1, <3>3, <3>4, <3>5, ThrSet
  <2> QED BY <2>1, <2>2, <2>3, <2>4 DEF Complete, Answer
<1>3. change' \in [Ports -> SUBSET Bits]
  <2>1. ASSUME NEW bits, Changes(t, bits)
        PROVE  change' \in [Ports -> SUBSET Bits]
    BY <1>1, <2>1 DEF Changes, Types, Bits
  <2>2. CASE UNCHANGED change
    BY <1>1, <2>2 DEF Types
  <2> QED BY <2>1, <2>2 DEF Complete
<1> QED BY <1>1, <1>2, <1>3 DEF Complete, driver

(* A transfer that leaves the bus as it is.                                   *)
LEMMA CompleteQuiet ==
  ASSUME Inv, NEW t \in Hubs, Complete(t), UNCHANGED answers,
         thr[t].pc \notin {"setaddr", "release"} \/ thr'[t].xf # "ok"
  PROVE  Inv'
<1>1. PICK r \in Works : ThrBecomes(t, r) /\ r.pc = thr[t].pc /\ r.xf \in {"ok", "bad"}
               /\ WorkOK(t, r) /\ (Owns(t) => r.addr = thr[t].addr)
               /\ (thr[t].pc # "status" => r.port = thr[t].port)
  BY Completed
<1>2. Kept(t, r)
  BY <1>1, Completed DEF Kept, KeptTree, KeptBus, CleanExit, ExitSteps, ThrBecomes, Requests, Ignored, Owns, OwnSteps, AttachSteps, LockSteps
<1>3. event \in [Hubs -> BOOLEAN] /\ event' = [event EXCEPT ![t] = TRUE]
  BY Completed DEF Inv, Types
<1>4. change' \in [Ports -> SUBSET Bits] /\ UNCHANGED <<plug, dev, slot, known, closing, addr0, unload, stray>>
  BY Completed
<1>5. Quiet(t, r)
  BY <1>1, <1>2, <1>3, <1>4 DEF Quiet, ThreadStep, Kept
<1> QED BY <1>5, QuietStep

-----------------------------------------------------------------------------
(* The steps that change the bus.                                             *)

(* Ports that are disabled, whatever the threads do.                          *)
Cuts(p) == /\ answers' \in [Ports -> Hubs \cup {Off}]
           /\ \A q \in Ports : answers'[q] \in {Off, answers[q]}
           /\ answers'[HubPort] = answers[HubPort] \/ \A q \in LowerPorts : answers'[q] = Off
           /\ p \in Ports => answers'[p] = Off
           /\ p = HubPort => \A q \in LowerPorts : answers'[q] = Off

LEMMA CutOffCuts ==
  ASSUME Types, NEW p \in Ports, answers' = CutOff(answers, p)
  PROVE  Cuts(p)
BY CutOffTyped, PortSets DEF Cuts

LEMMA BusStep ==
  ASSUME Inv, NEW p \in Ports, Cuts(p) \/ UNCHANGED answers,
         plug' \in [Ports -> Kinds], \A q \in Ports : plug'[q] = "hub" => q = HubPort,
         change' \in [Ports -> SUBSET Bits],
         UNCHANGED <<thr, dev, slot, known, closing, event, addr0, unload, stray>>
  PROVE  Inv'
<1>0. /\ Types /\ WorksInv /\ OwnerInv /\ TreeInv /\ DetachInv
      /\ LockInv /\ RootPortsInv /\ LowerPortsInv /\ ZeroInv
  BY DEF Inv
<1> USE Numbers, PortSets
<1>1. Types'
  BY <1>0 DEF Types, Cuts
<1>2. WorksInv' /\ OwnerInv' /\ TreeInv' /\ DetachInv' /\ LockInv'
  BY <1>0 DEF WorksInv, WorkOK, Requests, OwnerInv, Owns, TreeInv, DetachInv, LockInv
<1>3. RootPortsInv'
  BY <1>0 DEF RootPortsInv, RootBusy, Owns, Cuts, WorksInv, WorkOK, PortSteps, LowerSteps, ExitSteps, OwnSteps, AttachSteps
<1>4. LowerPortsInv'
  BY <1>0 DEF LowerPortsInv, RootBusy, Cuts
<1>5. ZeroInv'
  BY <1>0 DEF ZeroInv, Owned, CleanExit, RootBusy, Cuts, LockInv, LockSteps, ExitSteps, WorksInv, WorkOK, PortSteps, LowerSteps,
              OwnSteps, AttachSteps, Types
<1> QED BY <1>1, <1>2, <1>3, <1>4, <1>5 DEF Inv

LEMMA PlugInv ==
  ASSUME Inv, NEW p \in Ports, Plug(p) \/ Unplug(p) \/ Fault(p)
  PROVE  Inv'
<1>1. Types
  BY DEF Inv
<1>2. UNCHANGED <<thr, dev, slot, known, closing, event, addr0, unload, stray>>
  BY DEF Plug, Unplug, Fault, driver
<1>3. change' \in [Ports -> SUBSET Bits]
  BY <1>1 DEF Plug, Unplug, Fault, Types, Bits
<1>4. plug' \in [Ports -> Kinds] /\ \A q \in Ports : plug'[q] = "hub" => q = HubPort
  BY <1>1 DEF Plug, Unplug, Fault, Types, Kinds
<1>5. Cuts(p) \/ UNCHANGED answers
  BY <1>1, CutOffCuts DEF Plug, Unplug, Fault
<1> QED BY <1>2, <1>3, <1>4, <1>5, BusStep

(* The device that has an address 0 that can be answered to is the one the    *)
(* thread enumerates, or below another hub.                                   *)
LEMMA SetAddressCompletes ==
  ASSUME Inv, NEW t \in Hubs, Complete(t), thr[t].pc = "setaddr",
         answers' = [p \in Ports |-> IF answers[p] = 0 THEN thr[t].addr ELSE answers[p]]
  PROVE  Inv'
<1>0. /\ Types /\ WorksInv /\ OwnerInv /\ TreeInv
      /\ LockInv /\ RootPortsInv /\ LowerPortsInv /\ ZeroInv
  BY DEF Inv
<1> USE Numbers, PortSets
<1>1. PICK r \in Works : ThrBecomes(t, r) /\ r.pc = thr[t].pc /\ r.xf \in {"ok", "bad"}
               /\ WorkOK(t, r) /\ (Owns(t) => r.addr = thr[t].addr)
               /\ (thr[t].pc # "status" => r.port = thr[t].port)
  BY Completed
<1>2. Owns(t) /\ addr0.owner = t /\ thr[t].addr \in Addresses /\ thr[thr[t].addr].pc = "none"
      /\ r.addr = thr[t].addr /\ r.port = thr[t].port /\ thr[t].port \in PortsOf(t)
  BY <1>0, <1>1 DEF WorksInv, WorkOK, LockInv, LockSteps, ExitSteps, OwnerInv, Owns, OwnSteps, AttachSteps, PortSteps, LowerSteps
<1>3. KeptTree(t, r)
  BY <1>1, <1>2, Completed DEF KeptTree, Owns
<1>4. event \in [Hubs -> BOOLEAN] /\ event' = [event EXCEPT ![t] = TRUE]
      /\ change' \in [Ports -> SUBSET Bits] /\ UNCHANGED <<plug, dev, slot, known, closing, addr0, unload, stray>>
  BY <1>0, Completed DEF Types
<1>5. ThreadStep(t, r)
  BY <1>1, <1>3, <1>4 DEF ThreadStep
<1>6. WorksInv' /\ OwnerInv' /\ TreeInv' /\ DetachInv'
  BY <1>5, TreeStep
<1>7. \A p \in Ports : answers[p] = 0 => (t = Root /\ p = thr[t].port) \/ p \in LowerPorts
  BY <1>0, <1>2 DEF ZeroInv, Owned, Types
<1>8. \A p \in Ports : answers'[p] = IF answers[p] = 0 THEN thr[t].addr ELSE answers[p]
  BY <1>0
<1>9. Types'
  BY <1>0, <1>1, <1>2, <1>4 DEF Types, ThrBecomes
<1>10. LockInv'
  BY <1>0, <1>1, <1>4 DEF LockInv, ThrBecomes, Types
<1>11. RootPortsInv'
  <2>1. \A p \in RootPorts : answers'[p] \in Addresses =>
           (answers'[p] = answers[p] \/ (t = Root /\ p = thr[t].port /\ answers'[p] = thr[t].addr))
    BY <1>7, <1>8
  <2>2. CASE t = Root
    BY <1>0, <1>1, <1>2, <1>4, <1>7, <1>8, <2>1, <2>2
       DEF RootPortsInv, RootBusy, Owns, ThrBecomes, OwnSteps, AttachSteps
  <2>3. CASE t # Root
    <3>1. thr'[Root] = thr[Root] /\ thr[Root].pc \notin {"test", "setaddr"}
      BY <1>0, <1>1, <1>2, <2>3 DEF ThrBecomes, LockInv, LockSteps, ExitSteps
    <3>2. thr[Root].pc \in {"configure", "create", "operate"} => thr[Root].port \in Ports /\ thr[Root].addr # 0
      BY <1>0 DEF WorksInv, WorkOK, PortSteps, LowerSteps, ExitSteps, OwnSteps, AttachSteps
    <3> QED BY <1>0, <1>4, <1>8, <2>1, <2>3, <3>1, <3>2 DEF RootPortsInv, RootBusy, Owns
  <2> QED BY <2>2, <2>3
<1>12. LowerPortsInv'
  BY <1>0, <1>1, <1>2, <1>8 DEF LowerPortsInv, RootBusy, ThrBecomes, Types
<1>13. ZeroInv'
  BY <1>0, <1>1, <1>2, <1>8 DEF ZeroInv, Types, Works, ThrBecomes, WorksInv
<1> QED BY <1>6, <1>9, <1>10, <1>11, <1>12, <1>13 DEF Inv

(* A hub that resets a port is there, at the port it was found at.            *)
LEMMA ResetCompletes ==
  ASSUME Inv, NEW t \in Hubs, Complete(t), Responds(t), thr[t].pc = "reset",
         answers' = [answers EXCEPT ![thr[t].port] = IF plug[thr[t].port] = "none" THEN Off ELSE 0]
  PROVE  Inv'
<1>0. /\ Types /\ WorksInv /\ OwnerInv /\ TreeInv
      /\ LockInv /\ RootPortsInv /\ LowerPortsInv /\ ZeroInv
  BY DEF Inv
<1> USE Numbers, PortSets
<1>q. PICK q \in Ports : q = thr[t].port
  BY <1>0 DEF Types, Works
<1>1. PICK r \in Works : ThrBecomes(t, r) /\ r.pc = thr[t].pc /\ r.xf \in {"ok", "bad"}
               /\ WorkOK(t, r) /\ (Owns(t) => r.addr = thr[t].addr)
               /\ (thr[t].pc # "status" => r.port = thr[t].port)
  BY Completed
<1>2. t \in Addresses /\ Owns(t) /\ addr0.owner = t /\ r.port = q /\ q \in LowerPorts
  <2>1. t \in Addresses
    BY Completed DEF Requests
  <2> QED BY <1>q, <1>0, <1>1, <2>1 DEF WorksInv, WorkOK, LockInv, LockSteps, ExitSteps, Owns, OwnSteps, AttachSteps, PortSteps, LowerSteps
<1>3. answers[HubPort] = t
  BY <1>0, <1>2 DEF Responds, Absent, Target, LowerPortsInv
<1>4. event \in [Hubs -> BOOLEAN] /\ event' = [event EXCEPT ![t] = TRUE]
      /\ change' \in [Ports -> SUBSET Bits] /\ UNCHANGED <<plug, dev, slot, known, closing, addr0, unload, stray>>
  BY <1>0, Completed DEF Types
<1>5. KeptTree(t, r)
  BY <1>1, <1>2, Completed DEF KeptTree, Owns
<1>6. ThreadStep(t, r)
  BY <1>1, <1>4, <1>5 DEF ThreadStep
<1>7. WorksInv' /\ OwnerInv' /\ TreeInv' /\ DetachInv'
  BY <1>6, TreeStep
<1>8. /\ answers'[q] \in {Off, 0} /\ \A p \in Ports \ {q} : answers'[p] = answers[p]
      /\ answers' \in [Ports -> Hubs \cup {Off}]
  BY <1>q, <1>0, <1>2 DEF Types
<1>9. Types'
  BY <1>0, <1>1, <1>4, <1>8 DEF Types, ThrBecomes
<1>10. LockInv'
  BY <1>0, <1>1, <1>4 DEF LockInv, ThrBecomes, Types
<1>11. RootPortsInv'
  <2>1. thr'[Root] = thr[Root] /\ \A p \in RootPorts : answers'[p] = answers[p]
    BY <1>1, <1>2, <1>8 DEF ThrBecomes
  <2>2. thr[Root].pc \in {"test", "setaddr", "configure", "create", "operate"} => thr[Root].port \in RootPorts
    BY <1>0 DEF WorksInv, WorkOK, PortSteps, LowerSteps, ExitSteps, OwnSteps, AttachSteps
  <2> QED BY <1>0, <1>4, <2>1, <2>2 DEF RootPortsInv, RootBusy, Owns
<1>12. LowerPortsInv'
  BY <1>0, <1>1, <1>2, <1>3, <1>8 DEF LowerPortsInv, RootBusy, ThrBecomes, Types
<1>13. \A p \in Ports : answers'[p] = 0 => p = q \/ p \in stray
  BY <1>q, <1>0, <1>1, <1>2, <1>3, <1>8 DEF ZeroInv, Owned
<1>14. ZeroInv'
  <2>1. \A s \in Hubs : thr'[s].pc # "setaddr"
    BY <1>0, <1>1, <1>2 DEF LockInv, LockSteps, ExitSteps, ThrBecomes
  <2>2. Owned(q)'
    BY <1>1, <1>2, <1>3, <1>4, <1>8 DEF Owned, ThrBecomes
  <2>3. \A s \in Hubs : addr0'.owner = s => ~CleanExit(thr'[s])
    BY <1>1, <1>2, <1>4 DEF ThrBecomes, CleanExit, Owns, OwnSteps, AttachSteps
  <2> QED BY <1>4, <1>13, <2>1, <2>2, <2>3 DEF ZeroInv
<1> QED BY <1>7, <1>9, <1>10, <1>11, <1>12, <1>14 DEF Inv

(* An external hub disables the port of a device.                             *)
LEMMA DisableCompletes ==
  ASSUME Inv, NEW t \in Hubs, Complete(t), thr[t].pc \in {"disable", "release"},
         answers' = CutOff(answers, thr[t].port)
  PROVE  Inv'
<1>0. /\ Types /\ WorksInv /\ OwnerInv /\ TreeInv
      /\ LockInv /\ RootPortsInv /\ LowerPortsInv /\ ZeroInv
  BY DEF Inv
<1> USE Numbers, PortSets
<1>1. PICK r \in Works : ThrBecomes(t, r) /\ r.pc = thr[t].pc /\ r.xf \in {"ok", "bad"}
               /\ WorkOK(t, r) /\ r.port = thr[t].port
  BY Completed
<1>2. t \in Addresses /\ thr[t].port \in LowerPorts
  <2>1. t \in Addresses
    BY Completed DEF Requests
  <2> QED BY <1>0, <2>1 DEF WorksInv, WorkOK, PortSteps, LowerSteps
<1>3. Cuts(thr[t].port)
  BY <1>0, <1>2, CutOffCuts
<1>4. event \in [Hubs -> BOOLEAN] /\ event' = [event EXCEPT ![t] = TRUE]
      /\ change' \in [Ports -> SUBSET Bits] /\ UNCHANGED <<plug, dev, slot, known, closing, addr0, unload, stray>>
  BY <1>0, Completed DEF Types
<1>5. KeptTree(t, r)
  BY <1>1, Completed DEF KeptTree, Owns, OwnSteps, AttachSteps
<1>6. ThreadStep(t, r)
  BY <1>1, <1>4, <1>5 DEF ThreadStep
<1>7. WorksInv' /\ OwnerInv' /\ TreeInv' /\ DetachInv'
  BY <1>6, TreeStep
<1>8. Types'
  BY <1>0, <1>1, <1>3, <1>4 DEF Types, ThrBecomes, Cuts
<1>9. LockInv'
  BY <1>0, <1>1, <1>4 DEF LockInv, ThrBecomes, Types
<1>10. \A p \in Ports : answers'[p] \in {Off, answers[p]}
  BY <1>3 DEF Cuts
<1>11. thr'[Root] = thr[Root] /\ answers'[HubPort] = answers[HubPort]
  BY <1>0, <1>1, <1>2 DEF ThrBecomes, CutOff, Types
<1>12. RootPortsInv'
  <2>1. thr[Root].pc \in {"test", "setaddr", "configure", "create", "operate"} => thr[Root].port \in RootPorts
    BY <1>0 DEF WorksInv, WorkOK, PortSteps, OwnSteps, AttachSteps
  <2> QED BY <1>0, <1>4, <1>10, <1>11, <2>1 DEF RootPortsInv, RootBusy, Owns
<1>13. LowerPortsInv'
  BY <1>0, <1>1, <1>10, <1>11 DEF LowerPortsInv, RootBusy, ThrBecomes, Types
<1>14. ZeroInv'
  <2>1. \A p \in Ports : Owned(p) => Owned(p)'
    BY <1>0, <1>1, <1>4, <1>11 DEF Owned, ThrBecomes, Types
  <2>2. answers'[r.port] = Off /\ thr[t].pc # "setaddr" /\ r.port \in Ports
    BY <1>1, <1>2, <1>3 DEF Cuts
  <2>3. \A s \in Hubs \ {t} : thr'[s] = thr[s] /\ thr[s].port \in Ports
    BY <1>0, <1>1 DEF ThrBecomes, Types, Works
  <2>4. thr'[t] = r
    BY <1>1 DEF ThrBecomes
  <2> QED BY <1>0, <1>1, <1>4, <1>10, <2>1, <2>2, <2>3, <2>4 DEF ZeroInv
<1> QED BY <1>7, <1>8, <1>9, <1>12, <1>13, <1>14 DEF Inv

LEMMA CompleteInv ==
  ASSUME Inv, NEW t \in Hubs, Complete(t)
  PROVE  Inv'
<1>1. CASE UNCHANGED answers /\ (thr[t].pc \notin {"setaddr", "release"} \/ thr'[t].xf # "ok")
  BY <1>1, CompleteQuiet
<1>2. CASE thr[t].pc = "setaddr"
           /\ answers' = [p \in Ports |-> IF answers[p] = 0 THEN thr[t].addr ELSE answers[p]]
  BY <1>2, SetAddressCompletes
<1>3. CASE thr[t].pc = "reset" /\ Responds(t)
           /\ answers' = [answers EXCEPT ![thr[t].port] = IF plug[thr[t].port] = "none" THEN Off ELSE 0]
  BY <1>3, ResetCompletes
<1>4. CASE thr' = [thr EXCEPT ![t].xf = "bad"] /\ UNCHANGED answers
  <2>1. thr'[t].xf = "bad"
    BY <1>4 DEF Inv, Types, Works
  <2> QED BY <1>4, <2>1, CompleteQuiet
<1>5. CASE thr[t].pc \in {"disable", "release"} /\ answers' = CutOff(answers, thr[t].port)
  BY <1>5, DisableCompletes
<1> QED BY <1>1, <1>2, <1>3, <1>4, <1>5 DEF Complete, Affects

(* The device has its address: nobody answers to address 0 any more.          *)
LEMMA WakeAddressed ==
  ASSUME Inv, NEW t \in Hubs, Wake(t), thr[t].pc = "setaddr", thr[t].xf = "ok"
  PROVE  Inv'
<1>0. /\ Types /\ WorksInv /\ OwnerInv /\ TreeInv
      /\ LockInv /\ RootPortsInv /\ LowerPortsInv /\ ZeroInv
  BY DEF Inv
<1> USE Numbers, PortSets
<1>1. PICK r : r = [thr[t] EXCEPT !.pc = "configure", !.xf = "none"]
  OBVIOUS
<1>2. r \in Works /\ r.pc = "configure" /\ r.port = thr[t].port
      /\ r.kind = thr[t].kind /\ r.addr = thr[t].addr /\ r.xf = "none"
  <2>1. thr[t] \in Works
    BY <1>0 DEF Types
  <2> QED BY <1>1, <2>1 DEF Works, Steps
<1>3. ThrBecomes(t, r)
  <2>1. thr' = [thr EXCEPT ![t].pc = "configure", ![t].xf = "none"]
    BY DEF Wake, OnSuccess
  <2>2. thr' = [thr EXCEPT ![t] = r]
    BY <1>0, <1>1, <2>1 DEF Types
  <2> QED BY <1>0, <1>2, <2>2, ThrSet
<1>4. addr0.owner = t /\ \A p \in Ports : answers[p] # 0
  BY <1>0 DEF LockInv, LockSteps, ExitSteps, ZeroInv
<1>5. addr0' = [addr0 EXCEPT !.owner = NoThread] /\ event' = [event EXCEPT ![t] = FALSE]
      /\ UNCHANGED <<plug, answers, change, dev, slot, known, closing, unload, stray>>
  BY DEF Wake, driver
<1>6. WorkOK(t, r)
  BY <1>0, <1>2 DEF WorksInv, WorkOK, OwnSteps, PortSteps, LowerSteps, ExitSteps, AttachSteps
<1>7. KeptTree(t, r)
  BY <1>2 DEF KeptTree, Owns, OwnSteps, AttachSteps
<1>8. ThreadStep(t, r)
  BY <1>0, <1>2, <1>3, <1>5, <1>6, <1>7 DEF ThreadStep, Types
<1>9. WorksInv' /\ OwnerInv' /\ TreeInv' /\ DetachInv'
  BY <1>8, TreeStep
<1>10. Types'
  <2>1. addr0' \in [owner : Hubs \cup {NoThread}, closing : BOOLEAN]
    BY <1>0, <1>5 DEF Types
  <2> QED BY <1>0, <1>3, <1>5, <2>1 DEF Types, ThrBecomes
<1>11. addr0'.owner = NoThread
  BY <1>0, <1>5 DEF Types
<1>12. LockInv'
  BY <1>0, <1>2, <1>3, <1>4, <1>11 DEF LockInv, LockSteps, ExitSteps, ThrBecomes
<1>13. RootPortsInv'
  <2>1. thr[t].port \in Ports
    BY <1>0 DEF Types, Works
  <2> QED BY <1>0, <1>2, <1>3, <1>4, <1>5, <2>1
       DEF RootPortsInv, RootBusy, Owns, ThrBecomes, OwnSteps, AttachSteps
<1>14. LowerPortsInv'
  BY <1>0, <1>2, <1>3, <1>5 DEF LowerPortsInv, RootBusy, ThrBecomes, Types
<1>15. ZeroInv'
  BY <1>0, <1>4, <1>5, <1>11 DEF ZeroInv, Types, Works, WorksInv
<1> QED BY <1>9, <1>10, <1>12, <1>13, <1>14, <1>15 DEF Inv

LEMMA WakeInv ==
  ASSUME Inv, NEW t \in Hubs, Wake(t)
  PROVE  Inv'
BY WakeQuiet, WakeAddressed

(* The ports that a thread disables when it is done with a device: an         *)
(* external hub has done so before.                                           *)
LEMMA Disables ==
  ASSUME Inv, NEW t \in Hubs,
         answers' = IF t = Root THEN CutOff(answers, thr[t].port) ELSE answers
  PROVE  /\ answers' \in [Ports -> Hubs \cup {Off}]
         /\ \A q \in Ports : answers'[q] \in {Off, answers[q]}
         /\ answers'[HubPort] = answers[HubPort] \/ \A q \in LowerPorts : answers'[q] = Off
         /\ t = Root => /\ answers'[thr[t].port] = Off
                        /\ thr[t].port = HubPort => \A q \in LowerPorts : answers'[q] = Off
         /\ t # Root => answers' = answers
<1>1. Types /\ thr[t].port \in Ports
  BY DEF Inv, Types, Works
<1>2. CASE t = Root
  BY <1>1, <1>2, CutOffCuts DEF Cuts
<1>3. CASE t # Root
  BY <1>1, <1>3 DEF Types
<1> QED BY <1>2, <1>3

LEMMA DetachedInv ==
  ASSUME Inv, NEW t \in Hubs, Detached(t)
  PROVE  Inv'
<1>0. /\ Types /\ WorksInv /\ OwnerInv /\ TreeInv /\ DetachInv
      /\ LockInv /\ RootPortsInv /\ LowerPortsInv /\ ZeroInv
  BY DEF Inv
<1> USE Numbers, PortSets
<1>a. PICK to \in Steps : to = (IF t = Root THEN "poll" ELSE "disable")
  BY DEF Steps
<1>1. PICK r : r = [thr[t] EXCEPT !.pc = to, !.addr = 0]
  OBVIOUS
<1>2. r \in Works /\ r.pc = to /\ r.port = thr[t].port
      /\ r.kind = thr[t].kind /\ r.xf = "none"
  <2>1. thr[t] \in Works /\ thr[t].xf = "none"
    BY <1>0 DEF Types, Detached, At
  <2> QED BY <1>1, <2>1 DEF Works
<1>3. ThrBecomes(t, r)
  <2>1. thr' = [thr EXCEPT ![t].pc = to, ![t].addr = 0]
    BY <1>a DEF Detached
  <2>2. thr' = [thr EXCEPT ![t] = r]
    BY <1>0, <1>1, <2>1 DEF Types
  <2> QED BY <1>0, <1>2, <2>2, ThrSet
<1>4. thr[t].pc = "handed" /\ slot[t] = 0 /\ addr0.owner # t
  BY <1>0 DEF Detached, At, DetachInv, LockInv, LockSteps, ExitSteps
<1>5. UNCHANGED <<plug, change, dev, slot, known, closing, event, addr0, unload, stray>>
  BY DEF Detached, driver
<1>6. WorkOK(t, r)
  BY <1>0, <1>a, <1>2, <1>4 DEF WorksInv, WorkOK, OwnSteps, PortSteps, LowerSteps, ExitSteps, AttachSteps
<1>7. KeptTree(t, r)
  BY <1>a, <1>2, <1>4 DEF KeptTree, Owns, OwnSteps, AttachSteps
<1>8. ThreadStep(t, r)
  BY <1>0, <1>2, <1>3, <1>5, <1>6, <1>7 DEF ThreadStep, Types
<1>9. WorksInv' /\ OwnerInv' /\ TreeInv' /\ DetachInv'
  BY <1>8, TreeStep
<1>10. /\ answers' \in [Ports -> Hubs \cup {Off}]
       /\ \A q \in Ports : answers'[q] \in {Off, answers[q]}
       /\ answers'[HubPort] = answers[HubPort] \/ \A q \in LowerPorts : answers'[q] = Off
       /\ t = Root => /\ answers'[thr[t].port] = Off
                      /\ thr[t].port = HubPort => \A q \in LowerPorts : answers'[q] = Off
  BY Disables DEF Detached
<1>11. Types'
  BY <1>0, <1>3, <1>5, <1>10 DEF Types, ThrBecomes
<1>12. LockInv'
  BY <1>0, <1>a, <1>2, <1>3, <1>4, <1>5 DEF LockInv, LockSteps, ExitSteps, ThrBecomes, Types
<1>13. RootPortsInv'
  <2>1. \A h \in Hubs : thr[h].port \in Ports
    BY <1>0 DEF Types, Works
  <2> QED BY <1>0, <1>a, <1>2, <1>3, <1>4, <1>5, <1>10, <2>1
       DEF RootPortsInv, RootBusy, Owns, ThrBecomes, OwnSteps, AttachSteps
<1>14. LowerPortsInv'
  BY <1>0, <1>a, <1>2, <1>3, <1>4, <1>5, <1>10 DEF LowerPortsInv, RootBusy, ThrBecomes, Types
<1>15. ZeroInv'
  BY <1>0, <1>a, <1>2, <1>3, <1>4, <1>5, <1>10
     DEF ZeroInv, Owned, CleanExit, RootBusy, ThrBecomes, LockInv, LockSteps, ExitSteps, WorksInv, WorkOK,
         PortSteps, LowerSteps, ExitSteps, OwnSteps, AttachSteps, Types
<1> QED BY <1>9, <1>11, <1>12, <1>13, <1>14, <1>15 DEF Inv

(* What still answers to address 0 is a stray from now on.                    *)
LEMMA ReleaseInv ==
  ASSUME Inv, NEW t \in Hubs, Release(t)
  PROVE  Inv'
<1>0. /\ Types /\ WorksInv /\ OwnerInv /\ TreeInv /\ DetachInv
      /\ LockInv /\ RootPortsInv /\ LowerPortsInv /\ ZeroInv
  BY DEF Inv
<1> USE Numbers, PortSets
<1> DEFINE r == Resting
<1>2. r \in Works /\ r.pc = "wait" /\ r.kind = "none" /\ r.xf = "none"
  BY AtRest
<1>3. ThrBecomes(t, r)
  BY <1>0, Rested DEF Release
<1> HIDE DEF r
<1>4. /\ thr[t].pc \in ExitSteps /\ thr[t].port \in PortsOf(t) /\ thr[t].port \in Ports
      /\ thr[t].pc = "release" => t = Root
      /\ thr[t].pc \in {"leave", "strand"} => t # Root
  <2>1. thr[t].pc \in {"leave", "strand"} \/ (t = Root /\ thr[t].pc = "release")
    BY DEF Release, At
  <2> QED BY <1>0, <2>1 DEF WorksInv, WorkOK, PortSteps, LowerSteps, ExitSteps, Types, Works
<1>5. UNCHANGED <<plug, change, dev, slot, known, closing, event, unload>>
  BY DEF Release, driver
<1>6. WorkOK(t, r)
  BY <1>2 DEF WorkOK, OwnSteps, PortSteps, LowerSteps, ExitSteps, AttachSteps
<1>7. KeptTree(t, r)
  BY <1>2, <1>4 DEF KeptTree, Owns, ExitSteps, OwnSteps, AttachSteps
<1>8. ThreadStep(t, r)
  BY <1>0, <1>2, <1>3, <1>5, <1>6, <1>7 DEF ThreadStep, Types
<1>9. WorksInv' /\ OwnerInv' /\ TreeInv' /\ DetachInv'
  BY <1>8, TreeStep
<1>10. /\ answers' \in [Ports -> Hubs \cup {Off}]
       /\ \A q \in Ports : answers'[q] \in {Off, answers[q]}
       /\ answers'[HubPort] = answers[HubPort] \/ \A q \in LowerPorts : answers'[q] = Off
       /\ t = Root => /\ answers'[thr[t].port] = Off
                      /\ thr[t].port = HubPort => \A q \in LowerPorts : answers'[q] = Off
       /\ t # Root => answers' = answers
  BY Disables DEF Release
<1>11. /\ addr0' \in [owner : Hubs \cup {NoThread}, closing : BOOLEAN]
       /\ addr0'.owner = IF addr0.owner = t THEN NoThread ELSE addr0.owner
  BY <1>0 DEF Types, Release
<1>s. /\ stray' = IF thr[t].pc = "strand" THEN stray \cup {thr[t].port} ELSE stray
      /\ stray' \subseteq LowerPorts
  BY <1>0, <1>4 DEF Release, Types
<1>12. Types'
  BY <1>0, <1>3, <1>5, <1>10, <1>11, <1>s DEF Types, ThrBecomes
<1>13. LockInv'
  BY <1>0, <1>2, <1>3, <1>4, <1>11 DEF LockInv, LockSteps, ExitSteps, ThrBecomes, Types
<1>14. RootPortsInv'
  <2>1. \A h \in Hubs : thr[h].port \in Ports
    BY <1>0 DEF Types, Works
  <2> QED BY <1>0, <1>2, <1>3, <1>4, <1>5, <1>10, <2>1
       DEF RootPortsInv, RootBusy, Owns, ThrBecomes, ExitSteps, OwnSteps, AttachSteps
<1>15. LowerPortsInv'
  BY <1>0, <1>2, <1>3, <1>4, <1>5, <1>10 DEF LowerPortsInv, RootBusy, ThrBecomes, ExitSteps, Types
<1>16. ASSUME NEW p \in Ports, answers'[p] = 0
       PROVE  Owned(p)' \/ p \in stray'
  <2>1. answers[p] = 0
    BY <1>10, <1>16
  <2>2. CASE Owned(p) /\ addr0.owner # t
    BY <1>0, <1>3, <1>10, <1>11, <1>16, <2>2
       DEF Owned, ThrBecomes, Types, LockInv, LockSteps, ExitSteps, WorksInv, WorkOK, PortSteps,
           LowerSteps, OwnSteps, AttachSteps
  <2>3. CASE Owned(p) /\ addr0.owner = t
    <3>1. p = thr[t].port /\ t # Root
      BY <1>10, <1>16, <2>3 DEF Owned
    <3>2. thr[t].pc # "leave"
      BY <1>0, <2>1, <2>3, <3>1 DEF ZeroInv, CleanExit
    <3> QED BY <1>4, <1>s, <3>1, <3>2 DEF ExitSteps
  <2>4. CASE p \in stray
    BY <1>s, <2>4
  <2> QED BY <1>0, <2>1, <2>2, <2>3, <2>4 DEF ZeroInv
<1>17. ZeroInv'
  <2>1. \A s \in Hubs \ {t} : thr'[s] = thr[s] /\ thr[s].port \in Ports
    BY <1>0, <1>3 DEF ThrBecomes, Types, Works
  <2>2. thr'[t] = r /\ ~CleanExit(r)
    BY <1>2, <1>3 DEF ThrBecomes, CleanExit
  <2>3. \A s \in Hubs : addr0'.owner = s => addr0.owner = s
    BY <1>11
  <2> QED BY <1>0, <1>2, <1>10, <1>16, <2>1, <2>2, <2>3 DEF ZeroInv
<1> QED BY <1>9, <1>12, <1>13, <1>14, <1>15, <1>17 DEF Inv

LEMMA RootResetInv ==
  ASSUME Inv, RootReset
  PROVE  Inv'
<1>0. /\ Types /\ WorksInv /\ OwnerInv /\ TreeInv
      /\ LockInv /\ RootPortsInv /\ LowerPortsInv /\ ZeroInv
  BY DEF Inv
<1> USE Numbers, PortSets
<1>1. PICK q \in Ports : q = thr[Root].port
  BY <1>0 DEF Types, Works
<1>2. CASE Fails(Root, "reset") /\ UNCHANGED answers
  BY <1>2, RootResetFails
<1>3. CASE Goto(Root, "test") /\ answers' = [CutOff(answers, q) EXCEPT ![q] = 0]
  <2>1. PICK r \in Works : ThrBecomes(Root, r) /\ r.pc = "test" /\ r.port = q
            /\ r.kind = thr[Root].kind /\ r.addr = thr[Root].addr /\ r.xf = thr[Root].xf
    BY <1>0, <1>1, <1>3, Went DEF Steps
  <2>2. thr[Root].pc = "reset" /\ Owns(Root) /\ addr0.owner = Root /\ q \in RootPorts
        /\ thr[Root].xf = "none"
    BY <1>0, <1>1 DEF RootReset, Step, At, LockInv, LockSteps, ExitSteps, WorksInv, WorkOK, PortSteps, LowerSteps,
                      Owns, OwnSteps, AttachSteps
  <2>3. UNCHANGED <<plug, change, dev, slot, known, closing, event, addr0, unload, stray>>
    BY DEF RootReset, driver
  <2>4. WorkOK(Root, r)
    BY <1>0, <1>1, <2>1, <2>2 DEF WorksInv, WorkOK, PortSteps, LowerSteps, ExitSteps, OwnSteps, AttachSteps
  <2>5. KeptTree(Root, r)
    BY <1>1, <2>1, <2>2 DEF KeptTree, OwnSteps, AttachSteps
  <2>6. ThreadStep(Root, r)
    BY <1>0, <2>1, <2>2, <2>3, <2>4, <2>5 DEF ThreadStep, Types
  <2>7. WorksInv' /\ OwnerInv' /\ TreeInv' /\ DetachInv'
    BY <2>6, TreeStep
  <2>8. /\ answers' \in [Ports -> Hubs \cup {Off}] /\ answers'[q] = 0
        /\ \A p \in Ports \ {q} : answers'[p] \in {Off, answers[p]}
        /\ \A p \in RootPorts \ {q} : answers'[p] = answers[p]
        /\ IF q = HubPort THEN \A p \in LowerPorts : answers'[p] = Off
           ELSE \A p \in LowerPorts : answers'[p] = answers[p]
    BY <1>0, <1>3, <2>2, CutOffTyped
  <2>9. Types'
    BY <1>0, <2>1, <2>3, <2>8 DEF Types, ThrBecomes
  <2>10. LockInv'
    BY <1>0, <2>1, <2>2, <2>3 DEF LockInv, LockSteps, ExitSteps, ThrBecomes
  <2>11. RootPortsInv'
    BY <1>0, <1>1, <2>1, <2>2, <2>3, <2>8 DEF RootPortsInv, RootBusy, Owns, ThrBecomes, OwnSteps, AttachSteps
  <2>12. LowerPortsInv'
    BY <1>0, <1>1, <2>1, <2>2, <2>3, <2>8 DEF LowerPortsInv, RootBusy, ThrBecomes, Types
  <2>13. \A p \in Ports : answers'[p] = 0 => p = q \/ p \in stray
    BY <1>0, <1>1, <2>2, <2>8 DEF ZeroInv, Owned
  <2>14. ZeroInv'
    <3>1. \A s \in Hubs : thr'[s].pc # "setaddr"
      BY <1>0, <2>1, <2>2 DEF LockInv, LockSteps, ExitSteps, ThrBecomes
    <3>2. Owned(q)'
      BY <2>1, <2>2, <2>3 DEF Owned, ThrBecomes
    <3>3. \A s \in Hubs : addr0'.owner = s => ~CleanExit(thr'[s])
      BY <2>1, <2>2, <2>3 DEF ThrBecomes, CleanExit
    <3> QED BY <2>3, <2>13, <3>1, <3>2, <3>3 DEF ZeroInv
  <2> QED BY <2>7, <2>9, <2>10, <2>11, <2>12, <2>14 DEF Inv
<1> QED BY <1>1, <1>2, <1>3 DEF RootReset

LEMMA LockAddress0Inv ==
  ASSUME Inv, NEW t \in Hubs, LockAddress0(t)
  PROVE  Inv'
<1>0. /\ Types /\ WorksInv /\ OwnerInv /\ TreeInv
      /\ LockInv /\ RootPortsInv /\ LowerPortsInv /\ ZeroInv
  BY DEF Inv
<1> USE Numbers, PortSets
<1>1. CASE Goto(t, "failed") /\ UNCHANGED <<addr0, stray>>
  BY <1>1, LockFails
<1>2. CASE /\ Address0Free /\ addr0' = [addr0 EXCEPT !.owner = t] /\ Goto(t, "reset")
           /\ stray' = IF Present(t) THEN stray \ {thr[t].port} ELSE stray
  <2>1. thr[t].pc = "locking" /\ thr[t].xf = "none" /\ addr0.owner = NoThread
    BY <1>2 DEF LockAddress0, At, Address0Free
  <2>2. PICK r \in Works : ThrBecomes(t, r) /\ r.pc = "reset" /\ r.port = thr[t].port
            /\ r.kind = thr[t].kind /\ r.addr = thr[t].addr /\ r.xf = thr[t].xf
    BY <1>0, <1>2, Went DEF Steps
  <2>3. UNCHANGED <<plug, answers, change, dev, slot, known, closing, event, unload>>
    BY DEF LockAddress0, physical, driver
  <2>4. WorkOK(t, r)
    BY <1>0, <2>1, <2>2 DEF WorksInv, WorkOK, PortSteps, LowerSteps, ExitSteps, OwnSteps, AttachSteps
  <2>5. KeptTree(t, r)
    BY <2>1, <2>2 DEF KeptTree, Owns, OwnSteps, AttachSteps
  <2>6. ThreadStep(t, r)
    BY <1>0, <2>1, <2>2, <2>3, <2>4, <2>5 DEF ThreadStep, Types
  <2>7. WorksInv' /\ OwnerInv' /\ TreeInv' /\ DetachInv'
    BY <2>6, TreeStep
  <2>8. addr0' \in [owner : Hubs \cup {NoThread}, closing : BOOLEAN] /\ addr0'.owner = t
    BY <1>0, <1>2 DEF Types
  <2>9. Types'
    BY <1>0, <1>2, <2>2, <2>3, <2>8 DEF Types, ThrBecomes
  <2>10. LockInv'
    BY <1>0, <2>1, <2>2, <2>8 DEF LockInv, LockSteps, ExitSteps, ThrBecomes
  <2>11. RootPortsInv'
    BY <1>0, <2>1, <2>2, <2>3 DEF RootPortsInv, RootBusy, Owns, ThrBecomes, OwnSteps, AttachSteps
  <2>12. LowerPortsInv'
    BY <1>0, <2>1, <2>2, <2>3 DEF LowerPortsInv, RootBusy, ThrBecomes, Types
  <2>13. ASSUME NEW p \in Ports, answers[p] = 0
         PROVE  Owned(p)' \/ p \in stray'
    <3>1. p \in stray /\ p \in LowerPorts
      BY <1>0, <2>1, <2>13 DEF ZeroInv, Owned, Types
    <3>2. CASE p = thr[t].port /\ Present(t)
      BY <2>2, <2>3, <2>8, <3>2 DEF Owned, ThrBecomes, Present
    <3> QED BY <1>2, <3>1, <3>2
  <2>14. ZeroInv'
    BY <1>0, <2>2, <2>3, <2>8, <2>13 DEF ZeroInv, ThrBecomes, CleanExit
  <2> QED BY <2>7, <2>9, <2>10, <2>11, <2>12, <2>14 DEF Inv
<1> QED BY <1>1, <1>2 DEF LockAddress0

-----------------------------------------------------------------------------
(* The steps of a detach.                                                     *)
LEMMA Progress ==
  ASSUME Types, NEW a \in Hubs, NEW stage \in Stages, Moves(a, stage)
  PROVE  \E d \in Devices : DevBecomes(a, d) /\ d.stage = stage /\ d.use = dev[a].use
            /\ d.kind = dev[a].kind /\ d.up = dev[a].up /\ d.port = dev[a].port
<1> DEFINE d == [dev[a] EXCEPT !.stage = stage]
<1>1. d \in Devices /\ d.stage = stage /\ d.use = dev[a].use
      /\ d.kind = dev[a].kind /\ d.up = dev[a].up /\ d.port = dev[a].port
  <2>1. dev[a] \in Devices
    BY DEF Types
  <2> QED BY <2>1 DEF Devices
<1>2. dev' = [dev EXCEPT ![a] = d]
  BY DEF Moves
<1> HIDE DEF d
<1> QED BY <1>1, <1>2, DevSet

LEMMA StageStep ==
  ASSUME Inv, NEW a \in Hubs, NEW d \in Devices, dev[a].use = "leaving", DevBecomes(a, d),
         d.use = dev[a].use, d.kind = dev[a].kind, d.up = dev[a].up, d.port = dev[a].port,
         slot' \in [Hubs -> Hubs],
         closing' \in [Hubs -> BOOLEAN], \A h \in Hubs : closing[h] => closing'[h],
         event' \in [Hubs -> BOOLEAN],
         addr0' \in [owner : Hubs \cup {NoThread}, closing : BOOLEAN], addr0'.owner = addr0.owner,
         UNCHANGED <<plug, answers, change, known, thr, unload, stray>>,
         DetachInv'
  PROVE  Inv'
<1>0. /\ Types /\ WorksInv /\ OwnerInv /\ TreeInv
      /\ LockInv /\ RootPortsInv /\ LowerPortsInv /\ ZeroInv
  BY DEF Inv
<1> USE Numbers, PortSets
<1>1. Types'
  BY <1>0 DEF Types, DevBecomes
<1>2. WorksInv' /\ LockInv' /\ LowerPortsInv'
  BY <1>0 DEF WorksInv, WorkOK, Requests, LockInv, LowerPortsInv, RootBusy
<1>3. \A h \in Hubs : dev'[h].use = dev[h].use /\ dev'[h].kind = dev[h].kind
                      /\ dev'[h].up = dev[h].up /\ dev'[h].port = dev[h].port
  BY DEF DevBecomes
<1>4. \A h \in Hubs : thr[h].addr \in Hubs /\ dev[h].up \in Hubs
  BY <1>0 DEF Types, Works, Devices
<1>5. OwnerInv'
  BY <1>0, <1>3, <1>4 DEF OwnerInv, Owns
<1>6. TreeInv'
  BY <1>0, <1>3, <1>4 DEF TreeInv, Types
<1>7. RootPortsInv'
  BY <1>0, <1>3 DEF RootPortsInv, RootBusy, Owns
<1>8. ZeroInv'
  BY <1>0 DEF ZeroInv, Owned, CleanExit, RootBusy, Types
<1> QED BY <1>1, <1>2, <1>5, <1>6, <1>7, <1>8 DEF Inv

LEMMA TakeDetachedInv ==
  ASSUME Inv, NEW h \in Hubs, TakeDetached(h)
  PROVE  Inv'
<1>0. Types /\ DetachInv
  BY DEF Inv
<1>1. PICK a \in Hubs : a = slot[h] /\ a # 0 /\ dev[a].use = "leaving" /\ dev[a].stage = "handed"
         /\ dev[a].up = h
  BY <1>0 DEF Types, TakeDetached, DetachInv
<1>2. PICK d \in Devices : DevBecomes(a, d) /\ d.stage = "begin" /\ d.use = dev[a].use
            /\ d.kind = dev[a].kind /\ d.up = dev[a].up /\ d.port = dev[a].port
  BY <1>0, <1>1, Progress DEF TakeDetached, Stages
<1>3. slot' \in [Hubs -> Hubs] /\ slot'[h] = 0 /\ \A g \in Hubs \ {h} : slot'[g] = slot[g]
  BY <1>0, Numbers DEF Types, TakeDetached
<1>4. UNCHANGED <<plug, answers, change, known, thr, closing, event, addr0, unload, stray>>
  BY DEF TakeDetached, physical
<1>5. DetachInv'
  <2>1. \A g \in Hubs \ {h} : slot[g] # a \/ slot[g] = 0
    BY <1>0, <1>1 DEF DetachInv
  <2>2. \A g \in Hubs : slot'[g] # 0 => slot'[g] \in Hubs \ {a} /\ slot'[g] = slot[g]
    BY <1>0, <1>3, <2>1 DEF Types
  <2> QED BY <1>0, <1>1, <1>2, <1>3, <1>4, <2>2 DEF DetachInv, DevBecomes
<1> QED BY <1>0, <1>1, <1>2, <1>3, <1>4, <1>5, StageStep DEF Types

LEMMA CloseFunctionInv ==
  ASSUME Inv, NEW a \in Hubs, CloseFunction(a)
  PROVE  Inv'
<1>0. Types /\ DetachInv
  BY DEF Inv
<1>1. dev[a].use = "leaving" /\ dev[a].stage = "begin" /\ dev[a].kind = "function"
  BY DEF CloseFunction, Leaving
<1>2. PICK d \in Devices : DevBecomes(a, d) /\ d.stage = "usbd" /\ d.use = dev[a].use
            /\ d.kind = dev[a].kind /\ d.up = dev[a].up /\ d.port = dev[a].port
  BY <1>0, <1>1, Progress DEF CloseFunction, Stages
<1>3. UNCHANGED <<plug, answers, change, known, thr, slot, closing, event, addr0, unload, stray>>
  BY DEF CloseFunction, physical
<1>4. DetachInv'
  <2>1. \A g \in Hubs : slot[g] # 0 => slot[g] \in Hubs \ {a}
    BY <1>0, <1>1 DEF Types, DetachInv
  <2> QED BY <1>0, <1>1, <1>2, <1>3, <2>1 DEF DetachInv, DevBecomes
<1> QED BY <1>0, <1>1, <1>2, <1>3, <1>4, StageStep DEF Types

LEMMA CloseHubInv ==
  ASSUME Inv, NEW a \in Hubs, CloseHub(a)
  PROVE  Inv'
<1>0. Types /\ DetachInv
  BY DEF Inv
<1>1. dev[a].use = "leaving" /\ dev[a].stage \in {"begin", "signal"} /\ dev[a].kind = "hub"
  BY DEF CloseHub, Leaving
<1>2. PICK to \in Stages : to = (IF dev[a].stage = "begin" THEN "signal" ELSE "wait") /\ Moves(a, to)
  BY DEF CloseHub, Stages
<1>3. PICK d \in Devices : DevBecomes(a, d) /\ d.stage = to /\ d.use = dev[a].use
            /\ d.kind = dev[a].kind /\ d.up = dev[a].up /\ d.port = dev[a].port
  BY <1>0, <1>2, Progress
<1>4. UNCHANGED <<plug, answers, change, known, thr, slot, unload, stray>>
  BY DEF CloseHub, physical
<1>5. /\ addr0' \in [owner : Hubs \cup {NoThread}, closing : BOOLEAN]
      /\ addr0'.owner = addr0.owner
  BY <1>0 DEF Types, CloseHub
<1>6. /\ closing' \in [Hubs -> BOOLEAN] /\ event' \in [Hubs -> BOOLEAN]
      /\ \A h \in Hubs \ {a} : closing'[h] = closing[h] /\ event'[h] = event[h]
      /\ closing[a] => closing'[a]
      /\ dev[a].stage = "begin" => closing'[a]
      /\ dev[a].stage = "signal" => event'[a]
  BY <1>0, <1>1 DEF Types, CloseHub, FlagSetAt
<1>7. DetachInv'
  <2>1. \A g \in Hubs : slot[g] # 0 => slot[g] \in Hubs \ {a}
    BY <1>0, <1>1 DEF Types, DetachInv
  <2> QED BY <1>0, <1>1, <1>2, <1>3, <1>4, <1>6, <2>1 DEF DetachInv, DevBecomes
<1>8. \A h \in Hubs : closing[h] => closing'[h]
  BY <1>6
<1>9. slot' \in [Hubs -> Hubs]
  BY <1>0, <1>4 DEF Types
<1> QED BY <1>1, <1>3, <1>4, <1>5, <1>6, <1>7, <1>8, <1>9, StageStep

LEMMA HubThreadEndedInv ==
  ASSUME Inv, NEW a \in Hubs, HubThreadEnded(a)
  PROVE  Inv'
<1>0. Types /\ DetachInv
  BY DEF Inv
<1>1. dev[a].use = "leaving" /\ dev[a].stage = "wait" /\ thr[a].pc = "ended"
  BY DEF HubThreadEnded, Leaving, ThreadEnded
<1>2. PICK d \in Devices : DevBecomes(a, d) /\ d.stage = "ports" /\ d.use = dev[a].use
            /\ d.kind = dev[a].kind /\ d.up = dev[a].up /\ d.port = dev[a].port
  BY <1>0, <1>1, Progress DEF HubThreadEnded, Stages
<1>3. UNCHANGED <<plug, answers, change, known, thr, slot, closing, event, addr0, unload, stray>>
  BY DEF HubThreadEnded, physical
<1>4. DetachInv'
  <2>1. \A g \in Hubs : slot[g] # 0 => slot[g] \in Hubs \ {a}
    BY <1>0, <1>1 DEF Types, DetachInv
  <2> QED BY <1>0, <1>1, <1>2, <1>3, <2>1 DEF DetachInv, DevBecomes
<1> QED BY <1>0, <1>1, <1>2, <1>3, <1>4, StageStep DEF Types

LEMMA WorksStep ==
  ASSUME WorksInv, NEW t \in Hubs, NEW r, WorkOK(t, r), ThrBecomes(t, r)
  PROVE  WorksInv'
<1> SUFFICES ASSUME NEW h \in Hubs PROVE WorkOK(h, thr'[h])
  BY DEF WorksInv, WorkOK, Requests
<1>1. CASE h = t
  BY <1>1 DEF ThrBecomes
<1>2. CASE h # t
  BY <1>2 DEF ThrBecomes, WorksInv
<1> QED BY <1>1, <1>2

(* A device that no thread enumerates leaves the array of its hub.            *)
LEMMA LeavingTree ==
  ASSUME Inv, NEW a \in Hubs, NEW d \in Devices, DevBecomes(a, d), d.use = "leaving",
         d.kind = dev[a].kind, d.up = dev[a].up, d.port = dev[a].port,
         a = Root \/ dev[a].use = "listed", \A h \in Hubs : Owns(h) => thr[h].addr # a,
         \A h \in Hubs : /\ Owns(h)' <=> Owns(h)
                         /\ Owns(h) => thr'[h] = thr[h]
                         /\ thr'[h].pc = "none" <=> thr[h].pc = "none",
         UNCHANGED known
  PROVE  OwnerInv' /\ TreeInv'
<1>0. Types /\ WorksInv /\ OwnerInv /\ TreeInv
  BY DEF Inv
<1> USE Numbers
<1>1. \A b \in Hubs \ {a} : dev'[b] = dev[b]
  BY DEF DevBecomes
<1>2. dev'[a] = d
  BY DEF DevBecomes
<1>3. \A h \in Hubs : thr[h].addr \in Hubs /\ dev[h].up \in Hubs
  BY <1>0 DEF Types, Works, Devices
<1>4. OwnerInv'
  <2>1. ASSUME NEW b \in Addresses, dev'[b].use = "reserved"
        PROVE  \E h \in Hubs : Owns(h)' /\ thr'[h].addr = b
    <3>1. dev[b].use = "reserved"
      BY <1>1, <1>2, <2>1
    <3>2. PICK h \in Hubs : Owns(h) /\ thr[h].addr = b
      BY <1>0, <3>1 DEF OwnerInv
    <3> QED BY <3>2
  <2>2. ASSUME NEW h \in Hubs, Owns(h)'
        PROVE  LET b == thr'[h].addr IN
               /\ dev'[b].use \in {"reserved", "listed"} /\ thr'[b].pc = "none" /\ b \notin known'
               /\ dev'[b].use = "listed" => dev'[b].up = h /\ dev'[b].port = thr'[h].port
               /\ thr'[h].pc \in {"operate", "client"} => dev'[b].use = "listed"
    <3>1. Owns(h) /\ thr'[h] = thr[h] /\ thr[h].addr \in Hubs \ {a}
      BY <1>3, <2>2
    <3>2. dev'[thr[h].addr] = dev[thr[h].addr]
      BY <1>1, <3>1
    <3> QED BY <1>0, <3>1, <3>2 DEF OwnerInv
  <2>3. \A h, g \in Hubs : Owns(h)' /\ Owns(g)' /\ thr'[h].addr = thr'[g].addr => h = g
    BY <1>0 DEF OwnerInv
  <2> QED BY <2>1, <2>2, <2>3 DEF OwnerInv
<1>5. TreeInv'
  BY <1>0, <1>1, <1>2, <1>3 DEF TreeInv, Types
<1> QED BY <1>4, <1>5

LEMMA LeavesBelow ==
  ASSUME Inv, NEW a \in Hubs, DetachPort(a)
  PROVE  Inv'
<1>0. /\ Types /\ WorksInv /\ OwnerInv /\ TreeInv /\ DetachInv
      /\ LockInv /\ RootPortsInv /\ LowerPortsInv /\ ZeroInv
  BY DEF Inv
<1> USE Numbers, PortSets
<1>1. PICK b \in Below(a) :
        dev' = [dev EXCEPT ![b].use = "leaving", ![b].stage = "begin", ![b].by = "parent"]
  BY DEF DetachPort
<1>2. dev[b].use = "listed" /\ dev[b].up = a /\ b \in Addresses /\ thr[a].pc = "ended"
  BY <1>0, <1>1 DEF DetachPort, Below, Leaving, DetachInv
<1>3. PICK d : d = [dev[b] EXCEPT !.use = "leaving", !.stage = "begin", !.by = "parent"]
  OBVIOUS
<1>4. d \in Devices /\ d.use = "leaving" /\ d.stage = "begin" /\ d.kind = dev[b].kind
      /\ d.up = dev[b].up /\ d.port = dev[b].port
  <2>1. dev[b] \in Devices
    BY <1>0, <1>2 DEF Types
  <2> QED BY <1>3, <2>1 DEF Devices, Stages
<1>5. DevBecomes(b, d)
  <2>1. dev' = [dev EXCEPT ![b] = d]
    BY <1>0, <1>1, <1>2, <1>3 DEF Types
  <2> QED BY <1>0, <1>2, <1>4, <2>1, DevSet
<1>6. UNCHANGED <<plug, answers, change, slot, known, thr, closing, event, addr0, unload, stray>>
  BY DEF DetachPort, physical
<1>7. \A h \in Hubs : Owns(h) => thr[h].addr # b
  BY <1>0, <1>2 DEF OwnerInv, Owns, OwnSteps, AttachSteps
<1>8. OwnerInv' /\ TreeInv'
  BY <1>2, <1>4, <1>5, <1>6, <1>7, LeavingTree DEF Owns
<1>9. Types'
  BY <1>0, <1>5, <1>6 DEF Types, DevBecomes
<1>10. WorksInv' /\ LockInv' /\ LowerPortsInv' /\ ZeroInv'
  BY <1>0, <1>6 DEF WorksInv, WorkOK, Requests, LockInv, LowerPortsInv, ZeroInv, Owned, CleanExit, RootBusy
<1>11. DetachInv'
  <2>1. \A g \in Hubs : slot[g] # 0 => slot[g] \in Hubs \ {b}
    BY <1>0, <1>2 DEF Types, DetachInv
  <2> QED BY <1>0, <1>2, <1>4, <1>5, <1>6, <2>1 DEF DetachInv, DevBecomes
<1>12. RootPortsInv'
  <2>1. \A p \in RootPorts : answers[p] = b /\ a = Root => RootBusy(p)
    BY <1>2 DEF RootBusy
  <2> QED BY <1>0, <1>2, <1>5, <1>6, <2>1 DEF RootPortsInv, RootBusy, Owns, DevBecomes
<1> QED BY <1>8, <1>9, <1>10, <1>11, <1>12 DEF Inv

LEMMA UnloadInv ==
  ASSUME Inv, Unload
  PROVE  Inv'
<1>0. /\ Types /\ WorksInv /\ OwnerInv /\ TreeInv /\ DetachInv
      /\ LockInv /\ RootPortsInv /\ LowerPortsInv /\ ZeroInv
  BY DEF Inv
<1> USE Numbers, PortSets
<1>1. PICK d : d = [dev[Root] EXCEPT !.use = "leaving", !.stage = "begin", !.by = "unload"]
  OBVIOUS
<1>2. d \in Devices /\ d.use = "leaving" /\ d.stage = "begin" /\ d.kind = dev[Root].kind
      /\ d.up = dev[Root].up /\ d.port = dev[Root].port
  <2>1. dev[Root] \in Devices
    BY <1>0 DEF Types
  <2> QED BY <1>1, <2>1 DEF Devices, Stages
<1>3. DevBecomes(Root, d)
  <2>1. dev' = [dev EXCEPT ![Root] = d]
    BY <1>0, <1>1 DEF Types, Unload
  <2> QED BY <1>0, <1>2, <2>1, DevSet
<1>4. UNCHANGED <<plug, answers, change, slot, known, thr, closing, event, addr0, stray>> /\ unload' = "closing"
  BY DEF Unload, physical
<1>5. \A h \in Hubs : Owns(h) => thr[h].addr # Root
  BY <1>0 DEF WorksInv, WorkOK, Owns
<1>6. OwnerInv' /\ TreeInv'
  BY <1>2, <1>3, <1>4, <1>5, LeavingTree DEF Owns
<1>7. Types'
  BY <1>0, <1>3, <1>4 DEF Types, DevBecomes
<1>8. WorksInv' /\ LockInv' /\ LowerPortsInv' /\ ZeroInv'
  BY <1>0, <1>4 DEF WorksInv, WorkOK, Requests, LockInv, LowerPortsInv, ZeroInv, Owned, CleanExit, RootBusy
<1>9. DetachInv'
  <2>1. \A g \in Hubs : slot[g] # 0 => slot[g] \in Hubs \ {Root}
    BY <1>0 DEF Types
  <2> QED BY <1>0, <1>2, <1>3, <1>4, <2>1 DEF DetachInv, DevBecomes
<1>10. RootPortsInv'
  BY <1>0, <1>3, <1>4 DEF RootPortsInv, RootBusy, Owns, DevBecomes
<1> QED BY <1>6, <1>7, <1>8, <1>9, <1>10 DEF Inv

LEMMA UnloadedInv ==
  ASSUME Inv, Unloaded
  PROVE  Inv'
<1>1. UNCHANGED <<plug, answers, change, dev, slot, known, thr, closing, event, addr0, stray>> /\ unload' = "done"
  BY DEF Unloaded, physical, driver
<1>2. Types'
  BY <1>1 DEF Inv, Types
<1>3. WorksInv' /\ OwnerInv' /\ TreeInv' /\ DetachInv'
  BY <1>1 DEF Inv, WorksInv, WorkOK, Requests, OwnerInv, Owns, TreeInv, DetachInv
<1>4. LockInv' /\ RootPortsInv' /\ LowerPortsInv' /\ ZeroInv'
  BY <1>1 DEF Inv, LockInv, RootPortsInv, LowerPortsInv, ZeroInv, Owned, CleanExit, RootBusy, Owns
<1> QED BY <1>2, <1>3, <1>4 DEF Inv

(* A hub hands a device that is gone to a worker thread.                      *)
LEMMA HandsOver ==
  ASSUME Inv, NEW t \in Hubs, PortChanged(t), NEW a \in Listed(t, thr[t].port),
         dev' = [dev EXCEPT ![a].use = "leaving", ![a].stage = "handed", ![a].by = "worker"],
         slot' = [slot EXCEPT ![t] = a], UNCHANGED known,
         thr' = [thr EXCEPT ![t].pc = "handed", ![t].addr = a]
  PROVE  Inv'
<1>0. /\ Types /\ WorksInv /\ OwnerInv /\ TreeInv /\ DetachInv
      /\ LockInv /\ RootPortsInv /\ LowerPortsInv /\ ZeroInv
  BY DEF Inv
<1> USE Numbers, PortSets
<1>1. PICK p \in Ports : p = thr[t].port
  BY <1>0 DEF Types, Works
<1>2. /\ dev[a].use = "listed" /\ dev[a].up = t /\ dev[a].port = p /\ a \in Addresses
      /\ thr[t].pc = "changed" /\ thr[t].xf = "none"
  BY <1>1 DEF Listed, PortChanged, At
<1>3. PICK d : d = [dev[a] EXCEPT !.use = "leaving", !.stage = "handed", !.by = "worker"]
  OBVIOUS
<1>4. d \in Devices /\ d.use = "leaving" /\ d.stage = "handed" /\ d.kind = dev[a].kind
      /\ d.up = dev[a].up /\ d.port = dev[a].port
  <2>1. dev[a] \in Devices
    BY <1>0, <1>2 DEF Types
  <2> QED BY <1>3, <2>1 DEF Devices, Stages
<1>5. DevBecomes(a, d)
  <2>1. dev' = [dev EXCEPT ![a] = d]
    BY <1>0, <1>2, <1>3 DEF Types
  <2> QED BY <1>0, <1>2, <1>4, <2>1, DevSet
<1>6. PICK r : r = [thr[t] EXCEPT !.pc = "handed", !.addr = a]
  OBVIOUS
<1>7. r \in Works /\ r.pc = "handed" /\ r.addr = a /\ r.port = p /\ r.xf = "none" /\ r.kind = thr[t].kind
  <2>1. thr[t] \in Works
    BY <1>0 DEF Types
  <2> QED BY <1>1, <1>2, <1>6, <2>1 DEF Works, Steps
<1>8. ThrBecomes(t, r)
  <2>1. thr' = [thr EXCEPT ![t] = r]
    BY <1>0, <1>6 DEF Types
  <2> QED BY <1>0, <1>7, <2>1, ThrSet
<1>9. UNCHANGED <<plug, answers, closing, event, addr0, unload, stray>> /\ change' \in [Ports -> SUBSET Bits]
  BY <1>0, ClearsTyped DEF PortChanged
<1>10. slot' \in [Hubs -> Hubs] /\ slot'[t] = a /\ \A g \in Hubs \ {t} : slot'[g] = slot[g]
  BY <1>0, <1>2 DEF Types
<1>11. \A h \in Hubs : Owns(h) => thr[h].addr # a
  BY <1>0, <1>2 DEF OwnerInv, Owns, OwnSteps, AttachSteps
<1>12. \A h \in Hubs : /\ Owns(h)' <=> Owns(h)
                       /\ Owns(h) => thr'[h] = thr[h]
                       /\ thr'[h].pc = "none" <=> thr[h].pc = "none"
  BY <1>2, <1>7, <1>8 DEF Owns, OwnSteps, AttachSteps, ThrBecomes
<1>13. OwnerInv' /\ TreeInv'
  BY <1>2, <1>4, <1>5, <1>11, <1>12, LeavingTree
<1>14. Types'
  BY <1>0, <1>5, <1>8, <1>9, <1>10 DEF Types, DevBecomes, ThrBecomes
<1>15. WorksInv'
  <2>1. WorkOK(t, r)
    BY <1>0, <1>1, <1>2, <1>7 DEF WorksInv, WorkOK, OwnSteps, PortSteps, LowerSteps, ExitSteps, AttachSteps
  <2> QED BY <1>0, <1>8, <2>1, WorksStep
<1>16. DetachInv'
  <2>1. \A g \in Hubs : slot[g] # 0 => slot[g] \in Hubs \ {a}
    BY <1>0, <1>2 DEF Types, DetachInv
  <2>2. a \in Hubs /\ a # 0
    BY <1>2
  <2>3. \A h \in Hubs : slot'[h] # 0 =>
          /\ thr'[h].pc = "handed" /\ thr'[h].addr = slot'[h]
          /\ dev'[slot'[h]].use = "leaving" /\ dev'[slot'[h]].stage = "handed" /\ dev'[slot'[h]].up = h
    BY <1>0, <1>2, <1>4, <1>5, <1>7, <1>8, <1>10, <2>1, <2>2 DEF DetachInv, DevBecomes, ThrBecomes
  <2>4. ASSUME NEW h \in Hubs, dev'[h].use = "leaving"
        PROVE  /\ dev'[h].stage \in {"signal", "wait", "ports"} => dev'[h].kind = "hub" /\ closing'[h]
               /\ dev'[h].stage = "ports" => thr'[h].pc = "ended"
               /\ dev'[h].stage = "usbd" => dev'[h].kind = "function"
               /\ dev'[h].stage = "wait" /\ thr'[h].xf # "none" => event'[h]
    <3>1. CASE h = a
      BY <1>4, <1>5, <3>1 DEF DevBecomes
    <3>2. CASE h # a
      <4>1. dev'[h] = dev[h]
        BY <1>5, <3>2 DEF DevBecomes
      <4> QED BY <1>0, <1>2, <1>7, <1>8, <1>9, <2>4, <4>1 DEF DetachInv, ThrBecomes
    <3> QED BY <3>1, <3>2
  <2>5. \A h \in Hubs : closing'[h] /\ thr'[h].pc # "none" => dev'[h].use = "leaving"
    BY <1>0, <1>4, <1>5, <1>9, <1>12 DEF DetachInv, DevBecomes
  <2> QED BY <2>3, <2>4, <2>5 DEF DetachInv
<1>17. LockInv'
  BY <1>0, <1>2, <1>7, <1>8, <1>9 DEF LockInv, LockSteps, ExitSteps, ThrBecomes, Types
<1>18. RootPortsInv'
  BY <1>0, <1>1, <1>2, <1>4, <1>5, <1>7, <1>8, <1>9, <1>12
     DEF RootPortsInv, RootBusy, Owns, DevBecomes, ThrBecomes
<1>19. LowerPortsInv'
  BY <1>0, <1>2, <1>7, <1>8, <1>9 DEF LowerPortsInv, RootBusy, ThrBecomes, Types
<1>20. ZeroInv'
  BY <1>0, <1>2, <1>7, <1>8, <1>9 DEF ZeroInv, Owned, CleanExit, RootBusy, ThrBecomes, Types, LockInv, LockSteps, ExitSteps
<1> QED BY <1>13, <1>14, <1>15, <1>16, <1>17, <1>18, <1>19, <1>20 DEF Inv

LEMMA PortChangedInv ==
  ASSUME Inv, NEW t \in Hubs, PortChanged(t)
  PROVE  Inv'
<1>1. CASE (Goto(t, "poll") \/ Rests(t)) /\ UNCHANGED driver
  BY <1>1, PortChangedQuiet
<1>2. CASE \E a \in Listed(t, thr[t].port) :
            /\ dev' = [dev EXCEPT ![a].use = "leaving", ![a].stage = "handed", ![a].by = "worker"]
            /\ slot' = [slot EXCEPT ![t] = a]
            /\ thr' = [thr EXCEPT ![t].pc = "handed", ![t].addr = a]
            /\ UNCHANGED known
  BY <1>2, HandsOver
<1> QED BY <1>1, <1>2 DEF PortChanged, Detach

(* The device is gone: what was left below it, or at it, answers no more than *)
(* until its port is disabled.                                                *)
LEMMA DeleteInv ==
  ASSUME Inv, NEW a \in Hubs, Delete(a)
  PROVE  Inv'
<1>0. /\ Types /\ WorksInv /\ OwnerInv /\ TreeInv /\ DetachInv
      /\ LockInv /\ RootPortsInv /\ LowerPortsInv /\ ZeroInv
  BY DEF Inv
<1> USE Numbers, PortSets
<1>1. /\ dev[a].use = "leaving" /\ dev[a].stage \in {"usbd", "ports"}
      /\ thr[a].pc \in {"none", "ended"}
      /\ \A b \in Addresses : dev[b].use = "listed" => dev[b].up # a
  <2>1. CASE Leaving(a, "usbd")
    BY <1>0, <2>1 DEF Leaving, DetachInv, TreeInv
  <2>2. CASE Leaving(a, "ports") /\ Below(a) = {}
    BY <1>0, <2>2 DEF Leaving, DetachInv, Below
  <2> QED BY <2>1, <2>2 DEF Delete
<1>2. DevBecomes(a, NoDevice)
  BY <1>0, NoDeviceTyped, DevSet DEF Delete
<1>3. ThrBecomes(a, NoWork)
  BY <1>0, NoWorkTyped, ThrSet DEF Delete
<1>4. UNCHANGED <<plug, answers, change, slot, closing, event, addr0, unload, stray>> /\ known' = known \ {a}
  BY DEF Delete, physical
<1>5. Types'
  BY <1>0, <1>2, <1>3, <1>4 DEF Types, DevBecomes, ThrBecomes
<1>6. WorksInv'
  <2>1. WorkOK(a, NoWork)
    BY NoWorkTyped DEF WorkOK, OwnSteps, PortSteps, LowerSteps, ExitSteps, AttachSteps
  <2> QED BY <1>0, <1>3, <2>1, WorksStep
<1>7. \A h \in Hubs : /\ Owns(h)' <=> Owns(h)
                      /\ Owns(h) => thr'[h] = thr[h] /\ thr[h].addr \in Hubs \ {a}
                      /\ thr[h].pc = "none" => thr'[h].pc = "none"
  <2>1. \A h \in Hubs : thr[h].addr \in Hubs
    BY <1>0 DEF Types, Works
  <2> QED BY <1>0, <1>1, <1>3, <2>1, NoWorkTyped DEF Owns, OwnSteps, AttachSteps, ThrBecomes, OwnerInv
<1>8. OwnerInv'
  <2>1. ASSUME NEW b \in Addresses, dev'[b].use = "reserved"
        PROVE  \E h \in Hubs : Owns(h)' /\ thr'[h].addr = b
    <3>1. dev[b].use = "reserved"
      BY <1>2, <2>1, NoDeviceTyped DEF DevBecomes
    <3> QED BY <1>0, <1>7, <3>1 DEF OwnerInv
  <2>2. ASSUME NEW h \in Hubs, Owns(h)'
        PROVE  LET b == thr'[h].addr IN
               /\ dev'[b].use \in {"reserved", "listed"} /\ thr'[b].pc = "none" /\ b \notin known'
               /\ dev'[b].use = "listed" => dev'[b].up = h /\ dev'[b].port = thr'[h].port
               /\ thr'[h].pc \in {"operate", "client"} => dev'[b].use = "listed"
    <3>1. Owns(h) /\ thr'[h] = thr[h] /\ thr[h].addr \in Hubs \ {a}
      BY <1>7, <2>2
    <3>2. dev'[thr[h].addr] = dev[thr[h].addr]
      BY <1>2, <3>1 DEF DevBecomes
    <3> QED BY <1>0, <1>4, <1>7, <3>1, <3>2 DEF OwnerInv
  <2>3. \A h, g \in Hubs : Owns(h)' /\ Owns(g)' /\ thr'[h].addr = thr'[g].addr => h = g
    BY <1>0, <1>7 DEF OwnerInv
  <2> QED BY <2>1, <2>2, <2>3 DEF OwnerInv
<1>9. TreeInv'
  <2>1. \A h \in Hubs : dev[h].up \in Hubs
    BY <1>0 DEF Types, Devices
  <2> QED BY <1>0, <1>1, <1>2, <1>3, <1>4, <2>1, NoDeviceTyped, NoWorkTyped DEF TreeInv, DevBecomes, ThrBecomes, Types
<1>10. DetachInv'
  <2>1. \A g \in Hubs : slot[g] # 0 => slot[g] \in Hubs \ {a} /\ g # a
    BY <1>0, <1>1 DEF Types, DetachInv
  <2> QED BY <1>0, <1>2, <1>3, <1>4, <2>1, NoDeviceTyped, NoWorkTyped DEF DetachInv, DevBecomes, ThrBecomes
<1>11. LockInv'
  BY <1>0, <1>1, <1>3, <1>4, NoWorkTyped DEF LockInv, LockSteps, ExitSteps, ThrBecomes, Types
<1>12. \A p \in RootPorts : answers[p] = a /\ a \in Addresses => RootBusy(p)
  BY <1>0, <1>1 DEF RootPortsInv, OwnerInv
<1>13. \A p \in RootPorts : RootBusy(p) => RootBusy(p)'
  BY <1>1, <1>3, NoWorkTyped DEF RootBusy, ThrBecomes
<1>14. RootPortsInv'
  <2>1. ASSUME NEW p \in RootPorts, answers[p] \in Addresses
        PROVE  \/ LET b == answers[p] IN dev'[b].use = "listed" /\ dev'[b].up = Root /\ dev'[b].port = p
               \/ Owns(Root)' /\ thr'[Root].addr = answers[p] /\ thr'[Root].port = p
               \/ RootBusy(p)'
    <3>1. CASE answers[p] = a
      BY <1>12, <1>13, <2>1, <3>1
    <3>2. CASE answers[p] # a
      <4>1. dev'[answers[p]] = dev[answers[p]]
        BY <1>2, <2>1, <3>2 DEF DevBecomes
      <4> QED BY <1>0, <1>7, <1>13, <2>1, <4>1 DEF RootPortsInv
    <3> QED BY <3>1, <3>2
  <2> QED BY <1>0, <1>3, <1>4, <2>1, NoWorkTyped DEF RootPortsInv, ThrBecomes
<1>15. LowerPortsInv'
  <2>1. \A h \in Hubs : h # a => thr'[h] = thr[h]
    BY <1>3 DEF ThrBecomes
  <2>2. thr'[a].pc = "none"
    BY <1>3, NoWorkTyped DEF ThrBecomes
  <2>3. \A q \in LowerPorts : answers[q] # Off =>
           answers[HubPort] \in Addresses /\ (thr'[answers[HubPort]].pc # "none" \/ RootBusy(HubPort)')
    BY <1>0, <1>12, <1>13, <2>1 DEF LowerPortsInv
  <2>4. \A p \in Ports : answers[p] \in Addresses /\ thr'[answers[p]].pc # "none" => p = HubPort
    BY <1>0, <2>1, <2>2 DEF LowerPortsInv
  <2> QED BY <1>4, <2>3, <2>4 DEF LowerPortsInv
<1>16. ZeroInv'
  <2>1. \A p \in Ports : Owned(p) => Owned(p)'
    BY <1>0, <1>1, <1>3, <1>4 DEF Owned, ThrBecomes, LockInv, LockSteps, ExitSteps, Types
  <2>3. \A t \in Hubs : thr'[t].pc = "setaddr" \/ CleanExit(thr'[t]) => thr'[t] = thr[t]
    BY <1>3, NoWorkTyped DEF ThrBecomes, CleanExit
  <2> QED BY <1>0, <1>4, <2>1, <2>3 DEF ZeroInv
<1> QED BY <1>5, <1>6, <1>8, <1>9, <1>10, <1>11, <1>14, <1>15, <1>16 DEF Inv

-----------------------------------------------------------------------------
(* The steps of an enumeration that take an address, make the device, and     *)
(* give both away or back.                                                    *)
LEMMA ReserveInv ==
  ASSUME Inv, NEW t \in Hubs, Reserve(t)
  PROVE  Inv'
<1>0. /\ Types /\ WorksInv /\ OwnerInv /\ TreeInv /\ DetachInv
      /\ LockInv /\ RootPortsInv /\ LowerPortsInv /\ ZeroInv
  BY DEF Inv
<1> USE Numbers, PortSets
<1>1. CASE Rests(t) /\ UNCHANGED dev
  BY <1>1, ReserveFails
<1>2. CASE /\ ~NoAddressLeft
           /\ dev' = [dev EXCEPT ![ReserveAddress].use = "reserved"]
           /\ thr' = [thr EXCEPT ![t].pc = "open", ![t].addr = ReserveAddress, ![t].fails = 0]
  <2>1. PICK a \in Addresses : a = ReserveAddress /\ dev[a].use = "free"
    BY <1>2, Reserves
  <2>2. PICK d : d = [dev[a] EXCEPT !.use = "reserved"]
    OBVIOUS
  <2>3. d \in Devices /\ d.use = "reserved"
    <3>1. dev[a] \in Devices
      BY <1>0 DEF Types
    <3> QED BY <2>2, <3>1 DEF Devices
  <2>4. DevBecomes(a, d)
    <3>1. dev' = [dev EXCEPT ![a] = d]
      BY <1>0, <1>2, <2>1, <2>2 DEF Types
    <3> QED BY <1>0, <2>3, <3>1, DevSet
  <2>5. PICK r : r = [thr[t] EXCEPT !.pc = "open", !.addr = a, !.fails = 0]
    OBVIOUS
  <2>6. thr[t].pc = "attach" /\ thr[t].xf = "none" /\ thr[t].kind = "none" /\ thr[t].port \in PortsOf(t)
    BY <1>0 DEF Reserve, At, WorksInv, WorkOK, PortSteps, LowerSteps, ExitSteps, OwnSteps, AttachSteps
  <2>7. r \in Works /\ r.pc = "open" /\ r.addr = a /\ r.port = thr[t].port /\ r.xf = "none" /\ r.kind = "none"
    <3>1. thr[t] \in Works
      BY <1>0 DEF Types
    <3> QED BY <2>5, <2>6, <3>1 DEF Works, Steps
  <2>8. ThrBecomes(t, r)
    <3>1. thr' = [thr EXCEPT ![t] = r]
      BY <1>0, <1>2, <2>1, <2>5 DEF Types
    <3> QED BY <1>0, <2>7, <3>1, ThrSet
  <2>9. UNCHANGED <<plug, answers, change, slot, known, closing, event, addr0, unload, stray>>
    BY DEF Reserve
  <2>10. Types'
    BY <1>0, <2>4, <2>8, <2>9 DEF Types, DevBecomes, ThrBecomes
  <2>11. WorksInv'
    <3>1. WorkOK(t, r)
      BY <2>6, <2>7 DEF WorkOK, OwnSteps, PortSteps, LowerSteps, ExitSteps, AttachSteps
    <3> QED BY <1>0, <2>8, <3>1, WorksStep
  <2>12. thr[a].pc = "none" /\ a # t /\ a \notin known
    BY <1>0, <2>1, <2>6 DEF TreeInv
  <2>13. /\ \A h \in Hubs \ {t} : thr'[h] = thr[h] /\ (Owns(h)' <=> Owns(h))
         /\ \A h \in Hubs : Owns(h) => h # t /\ thr[h].addr \in Hubs \ {a}
         /\ Owns(t)' /\ thr'[t].addr = a /\ thr'[t] = r
         /\ \A h \in Hubs : thr'[h].pc = "none" <=> thr[h].pc = "none"
    <3>1. \A h \in Hubs : thr[h].addr \in Hubs
      BY <1>0 DEF Types, Works
    <3>2. ~Owns(t)
      BY <2>6 DEF Owns, OwnSteps, AttachSteps
    <3>3. \A h \in Hubs : Owns(h) => thr[h].addr # a
      BY <1>0, <2>1 DEF OwnerInv
    <3>4. \A h \in Hubs \ {t} : thr'[h] = thr[h] /\ (Owns(h)' <=> Owns(h))
      BY <2>8 DEF Owns, ThrBecomes
    <3>5. thr'[t] = r /\ Owns(t)' /\ thr[t].pc # "none" /\ thr'[t].pc # "none"
      BY <2>6, <2>7, <2>8 DEF Owns, ThrBecomes, OwnSteps, AttachSteps
    <3> QED BY <2>7, <3>1, <3>2, <3>3, <3>4, <3>5
  <2>14. OwnerInv'
    <3>1. ASSUME NEW b \in Addresses, dev'[b].use = "reserved"
          PROVE  \E h \in Hubs : Owns(h)' /\ thr'[h].addr = b
      <4>1. CASE b = a
        BY <2>13, <4>1
      <4>2. CASE b # a
        <5>1. dev[b].use = "reserved"
          BY <2>4, <3>1, <4>2 DEF DevBecomes
        <5>2. PICK h \in Hubs : Owns(h) /\ thr[h].addr = b
          BY <1>0, <5>1 DEF OwnerInv
        <5> QED BY <2>13, <5>2
      <4> QED BY <4>1, <4>2
    <3>2. ASSUME NEW h \in Hubs, Owns(h)'
          PROVE  LET b == thr'[h].addr IN
                 /\ dev'[b].use \in {"reserved", "listed"} /\ thr'[b].pc = "none" /\ b \notin known'
                 /\ dev'[b].use = "listed" => dev'[b].up = h /\ dev'[b].port = thr'[h].port
                 /\ thr'[h].pc \in {"operate", "client"} => dev'[b].use = "listed"
      <4>1. CASE h = t
        BY <2>3, <2>4, <2>7, <2>9, <2>12, <2>13, <4>1 DEF DevBecomes
      <4>2. CASE h # t
        <5>1. Owns(h) /\ thr'[h] = thr[h] /\ thr[h].addr \in Hubs \ {a}
          BY <2>13, <3>2, <4>2
        <5>2. dev'[thr[h].addr] = dev[thr[h].addr]
          BY <2>4, <5>1 DEF DevBecomes
        <5> QED BY <1>0, <2>9, <2>13, <5>1, <5>2 DEF OwnerInv
      <4> QED BY <4>1, <4>2
    <3>3. \A h, g \in Hubs : Owns(h)' /\ Owns(g)' /\ thr'[h].addr = thr'[g].addr => h = g
      BY <1>0, <2>13 DEF OwnerInv
    <3> QED BY <3>1, <3>2, <3>3 DEF OwnerInv
  <2>15. TreeInv'
    <3>1. \A h \in Hubs : dev[h].up \in Hubs
      BY <1>0 DEF Types, Devices
    <3> QED BY <1>0, <2>1, <2>3, <2>4, <2>9, <2>12, <2>13, <3>1 DEF TreeInv, DevBecomes, Types
  <2>16. DetachInv'
    <3>1. \A g \in Hubs : slot[g] # 0 => slot[g] \in Hubs \ {a} /\ g # t
      BY <1>0, <2>1, <2>6 DEF Types, DetachInv
    <3>2. \A h \in Hubs : dev'[h].use = "leaving" => h # a /\ dev'[h] = dev[h]
      BY <2>3, <2>4 DEF DevBecomes
    <3>3. \A h \in Hubs : thr'[h].xf = "none" \/ thr'[h].xf = thr[h].xf
      BY <2>7, <2>13
    <3>4. \A h \in Hubs : dev[h].use = "leaving" => h # a /\ dev'[h] = dev[h]
      BY <2>1, <2>4 DEF DevBecomes
    <3>5. \A h \in Hubs : thr[h].pc = "ended" => thr'[h] = thr[h]
      BY <2>6, <2>13
    <3> QED BY <1>0, <2>9, <2>13, <3>1, <3>2, <3>3, <3>4, <3>5 DEF DetachInv
  <2>17. LockInv'
    BY <1>0, <2>6, <2>7, <2>8, <2>9 DEF LockInv, LockSteps, ExitSteps, ThrBecomes, Types
  <2>18. RootPortsInv'
    <3>1. \A b \in Addresses : dev[b].use = "listed" => dev'[b] = dev[b]
      BY <2>1, <2>4 DEF DevBecomes
    <3> QED BY <1>0, <2>6, <2>7, <2>8, <2>9, <2>13, <3>1 DEF RootPortsInv, RootBusy, ThrBecomes
  <2>19. LowerPortsInv'
    BY <1>0, <2>6, <2>7, <2>8, <2>9 DEF LowerPortsInv, RootBusy, ThrBecomes, Types
  <2>20. ZeroInv'
    BY <1>0, <2>6, <2>7, <2>8, <2>9 DEF ZeroInv, Owned, CleanExit, RootBusy, ThrBecomes, LockInv, LockSteps, ExitSteps, Types
  <2> QED BY <2>10, <2>11, <2>14, <2>15, <2>16, <2>17, <2>18, <2>19, <2>20 DEF Inv
<1> QED BY <1>1, <1>2 DEF Reserve

LEMMA CreateInv ==
  ASSUME Inv, NEW t \in Hubs, Create(t)
  PROVE  Inv'
<1>0. /\ Types /\ WorksInv /\ OwnerInv /\ TreeInv /\ DetachInv
      /\ LockInv /\ RootPortsInv /\ LowerPortsInv /\ ZeroInv
  BY DEF Inv
<1> USE Numbers, PortSets
<1>1. CASE Fails(t, "create") /\ UNCHANGED dev
  BY <1>1, CreateFails
<1>2. CASE /\ dev' = [dev EXCEPT ![thr[t].addr] =
                        [Device(thr[t].kind, t, thr[t].port) EXCEPT !.use = "listed"]]
           /\ Goto(t, "operate")
  <2>1. PICK w \in Works : w = thr[t]
    BY <1>0 DEF Types
  <2>2. w.pc = "create" /\ w.xf = "none" /\ w.addr \in Addresses /\ w.port \in PortsOf(t)
        /\ (w.kind = "hub" => w.port = HubPort) /\ Owns(t)
        /\ w.port \in Ports /\ w.kind \in Kinds
    BY <1>0, <2>1 DEF Create, Step, At, WorksInv, WorkOK, Owns, PortSteps, LowerSteps, ExitSteps, OwnSteps, AttachSteps, Works
  <2>3. PICK a \in Addresses : a = w.addr
    BY <2>2
  <2>4. PICK d : d = [Device(w.kind, t, w.port) EXCEPT !.use = "listed"]
    OBVIOUS
  <2>5. d \in Devices /\ d.use = "listed" /\ d.kind = w.kind /\ d.up = t /\ d.port = w.port
    BY <2>2, <2>4, NoDeviceTyped DEF Device, Devices, NoDevice
  <2>6. DevBecomes(a, d)
    <3>1. dev' = [dev EXCEPT ![a] = d]
      BY <1>2, <2>1, <2>3, <2>4
    <3> QED BY <1>0, <2>5, <3>1, DevSet
  <2>7. PICK r \in Works : ThrBecomes(t, r) /\ r.pc = "operate" /\ r.port = w.port
            /\ r.kind = w.kind /\ r.addr = a /\ r.xf = "none"
    BY <1>0, <1>2, <2>1, <2>2, <2>3, Went DEF Steps
  <2>8. UNCHANGED <<plug, answers, change, slot, known, closing, event, addr0, unload, stray>>
    BY DEF Create
  <2>9. Types'
    BY <1>0, <2>6, <2>7, <2>8 DEF Types, DevBecomes, ThrBecomes
  <2>10. WorksInv'
    <3>1. WorkOK(t, r)
      BY <2>2, <2>3, <2>7 DEF WorkOK, OwnSteps, PortSteps, LowerSteps, ExitSteps, AttachSteps
    <3> QED BY <1>0, <2>7, <3>1, WorksStep
  <2>11. thr[a].pc = "none" /\ a # t /\ a \notin known /\ dev[a].use \in {"reserved", "listed"}
         /\ (dev[a].use = "listed" => dev[a].up = t /\ dev[a].port = w.port)
    BY <1>0, <2>1, <2>2, <2>3 DEF OwnerInv, TreeInv
  <2>12. /\ \A h \in Hubs : /\ (Owns(h)' <=> Owns(h))
                            /\ Owns(h) => thr'[h].addr = thr[h].addr /\ thr'[h].port = thr[h].port
                                          /\ thr[h].addr \in Hubs
                            /\ thr'[h].pc = "none" <=> thr[h].pc = "none"
                            /\ h # t => thr'[h] = thr[h]
                            /\ Owns(h) /\ h # t => thr[h].addr # a
    BY <1>0, <2>1, <2>2, <2>3, <2>7 DEF Owns, ThrBecomes, OwnSteps, AttachSteps, OwnerInv, Types, Works
  <2>13. OwnerInv'
    <3>1. ASSUME NEW b \in Addresses, dev'[b].use = "reserved"
          PROVE  \E h \in Hubs : Owns(h)' /\ thr'[h].addr = b
      <4>1. dev[b].use = "reserved"
        BY <2>5, <2>6, <3>1 DEF DevBecomes
      <4>2. PICK h \in Hubs : Owns(h) /\ thr[h].addr = b
        BY <1>0, <4>1 DEF OwnerInv
      <4> QED BY <2>12, <4>2
    <3>2. ASSUME NEW h \in Hubs, Owns(h)'
          PROVE  LET b == thr'[h].addr IN
                 /\ dev'[b].use \in {"reserved", "listed"} /\ thr'[b].pc = "none" /\ b \notin known'
                 /\ dev'[b].use = "listed" => dev'[b].up = h /\ dev'[b].port = thr'[h].port
                 /\ thr'[h].pc \in {"operate", "client"} => dev'[b].use = "listed"
      <4>1. CASE h = t
        BY <2>5, <2>6, <2>7, <2>8, <2>11, <2>12, <4>1 DEF DevBecomes, ThrBecomes
      <4>2. CASE h # t
        <5>1. Owns(h) /\ thr'[h] = thr[h] /\ thr[h].addr \in Hubs \ {a}
          BY <2>12, <3>2, <4>2
        <5>2. dev'[thr[h].addr] = dev[thr[h].addr]
          BY <2>6, <5>1 DEF DevBecomes
        <5> QED BY <1>0, <2>8, <2>12, <5>1, <5>2 DEF OwnerInv
      <4> QED BY <4>1, <4>2
    <3>3. \A h, g \in Hubs : Owns(h)' /\ Owns(g)' /\ thr'[h].addr = thr'[g].addr => h = g
      BY <1>0, <2>12 DEF OwnerInv
    <3> QED BY <3>1, <3>2, <3>3 DEF OwnerInv
  <2>14. TreeInv'
    <3>1. \A h \in Hubs : dev[h].up \in Hubs
      BY <1>0 DEF Types, Devices
    <3>2. thr[t].pc # "none"
      BY <2>1, <2>2
    <3> QED BY <1>0, <2>2, <2>5, <2>6, <2>8, <2>11, <2>12, <3>1, <3>2 DEF TreeInv, DevBecomes, Types
  <2>15. DetachInv'
    <3>1. \A g \in Hubs : slot[g] # 0 => slot[g] \in Hubs \ {a} /\ g # t
      BY <1>0, <2>1, <2>2, <2>11 DEF Types, DetachInv
    <3>2. \A h \in Hubs : dev'[h].use = "leaving" => h # a /\ dev'[h] = dev[h]
      BY <2>5, <2>6 DEF DevBecomes
    <3>3. \A h \in Hubs : thr'[h].xf = "none" \/ thr'[h].xf = thr[h].xf
      BY <2>7, <2>12 DEF ThrBecomes
    <3>4. \A h \in Hubs : dev[h].use = "leaving" => h # a /\ dev'[h] = dev[h]
      BY <2>6, <2>11 DEF DevBecomes
    <3>5. \A h \in Hubs : thr[h].pc = "ended" => thr'[h] = thr[h]
      BY <2>1, <2>2, <2>12
    <3> QED BY <1>0, <2>8, <2>12, <3>1, <3>2, <3>3, <3>4, <3>5 DEF DetachInv
  <2>16. LockInv'
    BY <1>0, <2>1, <2>2, <2>7, <2>8 DEF LockInv, LockSteps, ExitSteps, ThrBecomes, Types
  <2>17. RootPortsInv'
    <3>1. \A b \in Addresses : dev[b].use = "listed" =>
             dev'[b].use = "listed" /\ dev'[b].up = dev[b].up /\ dev'[b].port = dev[b].port
      BY <2>5, <2>6, <2>11 DEF DevBecomes
    <3> QED BY <1>0, <2>1, <2>2, <2>7, <2>8, <2>12, <3>1 DEF RootPortsInv, RootBusy, ThrBecomes
  <2>18. LowerPortsInv'
    BY <1>0, <2>1, <2>2, <2>7, <2>8 DEF LowerPortsInv, RootBusy, ThrBecomes, Types
  <2>19. ZeroInv'
    BY <1>0, <2>1, <2>2, <2>7, <2>8 DEF ZeroInv, Owned, CleanExit, RootBusy, ThrBecomes, LockInv, LockSteps, ExitSteps, Types
  <2> QED BY <2>9, <2>10, <2>13, <2>14, <2>15, <2>16, <2>17, <2>18, <2>19 DEF Inv
<1> QED BY <1>1, <1>2 DEF Create

(* The thread of a new hub starts while the thread of the root hub still has  *)
(* its address, and nothing below it answers yet.                             *)
LEMMA OperateInv ==
  ASSUME Inv, NEW t \in Hubs, Operate(t)
  PROVE  Inv'
<1>0. /\ Types /\ WorksInv /\ OwnerInv /\ TreeInv /\ DetachInv
      /\ LockInv /\ RootPortsInv /\ LowerPortsInv /\ ZeroInv
  BY DEF Inv
<1> USE Numbers, PortSets
<1>1. CASE (Goto(t, "client") \/ Fails(t, "failed")) /\ UNCHANGED <<closing, event>>
  BY <1>1, OperateQuiet
<1>2. CASE /\ dev[thr[t].addr].kind = "hub"
           /\ thr' = [thr EXCEPT ![t] = Resting, ![thr[t].addr] = HubThread]
           /\ closing' = [closing EXCEPT ![thr[t].addr] = FALSE]
           /\ event' = [event EXCEPT ![thr[t].addr] = FALSE]
  <2>1. PICK w \in Works : w = thr[t]
    BY <1>0 DEF Types
  <2>2. w.pc = "operate" /\ w.xf = "none" /\ w.addr \in Addresses /\ w.port \in PortsOf(t) /\ Owns(t)
    BY <1>0, <2>1 DEF Operate, Step, At, WorksInv, WorkOK, Owns, PortSteps, LowerSteps, ExitSteps, OwnSteps, AttachSteps
  <2>3. PICK a \in Addresses : a = w.addr
    BY <2>2
  <2>4. dev[a].use = "listed" /\ dev[a].kind = "hub" /\ dev[a].up = t /\ dev[a].port = w.port
        /\ thr[a].pc = "none" /\ a \notin known /\ a # t
    BY <1>0, <1>2, <2>1, <2>2, <2>3 DEF OwnerInv
  <2>5. t = Root /\ w.port = HubPort
    BY <1>0, <2>2, <2>4 DEF TreeInv
  <2>6. /\ thr' \in [Hubs -> Works] /\ thr'[t] = Resting /\ thr'[a] = HubThread
        /\ \A h \in Hubs \ {t, a} : thr'[h] = thr[h]
    <3>1. thr' = [thr EXCEPT ![t] = Resting, ![a] = HubThread]
      BY <1>2, <2>1, <2>3
    <3> QED BY <1>0, <2>4, <3>1, AtRest, Started DEF Types
  <2>7. /\ closing' \in [Hubs -> BOOLEAN] /\ ~closing'[a]
        /\ \A h \in Hubs \ {a} : closing'[h] = closing[h]
        /\ event' \in [Hubs -> BOOLEAN]
        /\ \A h \in Hubs \ {a} : event'[h] = event[h]
    BY <1>0, <1>2, <2>1, <2>3 DEF Types
  <2>8. UNCHANGED <<plug, answers, change, dev, slot, known, addr0, unload, stray>>
    BY DEF Operate, driver
  <2>9. \A h \in Hubs : /\ Owns(h)' <=> Owns(h) /\ h # t
                        /\ Owns(h) /\ h # t => thr'[h] = thr[h] /\ thr[h].addr \in Hubs \ {a}
                        /\ thr[h].pc # "none" => thr'[h].pc # "none"
    <3>1. Resting.pc \notin OwnSteps \cup {"none"} /\ HubThread.pc \notin OwnSteps \cup {"none"}
          /\ thr[a].pc \notin OwnSteps
      BY <2>4, AtRest, Started DEF OwnSteps, AttachSteps
    <3>2. \A h \in Hubs : Owns(h) /\ h # t => thr[h].addr # a
      BY <1>0, <2>1, <2>2, <2>3 DEF OwnerInv
    <3>3. \A h \in Hubs : thr[h].addr \in Hubs
      BY <1>0 DEF Types, Works
    <3> QED BY <2>6, <3>1, <3>2, <3>3 DEF Owns
  <2>10. Types'
    BY <1>0, <2>6, <2>7, <2>8 DEF Types
  <2>11. WorksInv'
    <3>1. WorkOK(t, Resting) /\ WorkOK(a, HubThread)
      BY AtRest, Started DEF WorkOK, PortSteps, LowerSteps, ExitSteps, OwnSteps, AttachSteps
    <3>2. SUFFICES ASSUME NEW h \in Hubs PROVE WorkOK(h, thr'[h])
      BY DEF WorksInv, WorkOK, Requests
    <3> QED BY <1>0, <2>6, <3>1 DEF WorksInv
  <2>12. OwnerInv'
    <3>1. ASSUME NEW b \in Addresses, dev[b].use = "reserved"
          PROVE  \E h \in Hubs : Owns(h)' /\ thr'[h].addr = b
      <4>1. PICK h \in Hubs : Owns(h) /\ thr[h].addr = b
        BY <1>0, <3>1 DEF OwnerInv
      <4>2. h # t
        BY <2>1, <2>3, <2>4, <3>1, <4>1
      <4> QED BY <2>9, <4>1, <4>2
    <3>2. ASSUME NEW h \in Hubs, Owns(h)'
          PROVE  LET b == thr'[h].addr IN
                 /\ dev[b].use \in {"reserved", "listed"} /\ thr'[b].pc = "none" /\ b \notin known
                 /\ dev[b].use = "listed" => dev[b].up = h /\ dev[b].port = thr'[h].port
                 /\ thr'[h].pc \in {"operate", "client"} => dev[b].use = "listed"
      <4>1. Owns(h) /\ thr'[h] = thr[h] /\ thr[h].addr \in Hubs \ {a}
        BY <2>9, <3>2
      <4>2. thr[thr[h].addr].pc = "none" /\ thr[h].addr # t
        BY <1>0, <2>1, <2>2, <4>1 DEF OwnerInv
      <4> QED BY <1>0, <2>6, <4>1, <4>2 DEF OwnerInv
    <3>3. \A h, g \in Hubs : Owns(h)' /\ Owns(g)' /\ thr'[h].addr = thr'[g].addr => h = g
      BY <1>0, <2>9 DEF OwnerInv
    <3> QED BY <2>8, <3>1, <3>2, <3>3 DEF OwnerInv
  <2>13. TreeInv'
    <3>1. \A h \in Hubs : dev[h].up \in Hubs
      BY <1>0 DEF Types, Devices
    <3>2. \A h \in Hubs : thr'[h].pc # "none" => thr[h].pc # "none" \/ h = a
      BY <2>1, <2>2, <2>6
    <3> QED BY <1>0, <2>4, <2>8, <2>9, <3>1, <3>2 DEF TreeInv
  <2>14. DetachInv'
    <3>1. \A g \in Hubs : slot[g] # 0 => g \notin {t, a}
      BY <1>0, <2>1, <2>2, <2>4 DEF DetachInv
    <3>2. \A h \in Hubs : dev[h].use = "leaving" => h # a
      BY <2>4
    <3>3. thr[t].pc = "operate" /\ thr'[t].xf = "none" /\ thr[t].pc # "none"
      BY <2>1, <2>2, <2>6, AtRest
    <3> QED BY <1>0, <2>6, <2>7, <2>8, <3>1, <3>2, <3>3 DEF DetachInv
  <2>15. addr0.owner \notin {t, a} /\ thr'[t].pc \notin LockSteps /\ thr'[a].pc \notin LockSteps
    BY <1>0, <2>1, <2>2, <2>4, <2>6, AtRest, Started DEF LockInv, LockSteps, ExitSteps
  <2>16. LockInv'
    BY <1>0, <2>6, <2>8, <2>15 DEF LockInv, Types
  <2>17. \A p \in Ports : ~RootBusy(p)
    BY <2>1, <2>2, <2>5 DEF RootBusy
  <2>18. RootPortsInv'
    BY <1>0, <2>1, <2>3, <2>4, <2>5, <2>6, <2>8, <2>17, AtRest DEF RootPortsInv
  <2>19. LowerPortsInv'
    <3>1. answers[HubPort] \in {Off, a}
      BY <1>0, <2>1, <2>2, <2>3, <2>5 DEF RootPortsInv
    <3>2. \A q \in LowerPorts : answers[q] = Off
      BY <1>0, <2>4, <2>17, <3>1 DEF LowerPortsInv
    <3>3. \A p \in RootPorts : answers[p] = a => p = HubPort
      BY <1>0, <2>1, <2>4, <2>5, <2>17 DEF RootPortsInv
    <3>4. ASSUME NEW p \in Ports, answers[p] \in Addresses, thr'[answers[p]].pc # "none"
          PROVE  p = HubPort
      BY <1>0, <2>5, <2>6, <3>2, <3>3, <3>4 DEF LowerPortsInv
    <3> QED BY <2>8, <3>2, <3>4 DEF LowerPortsInv
  <2>20. ZeroInv'
    <3>2. \A p \in Ports : Owned(p) => Owned(p)'
      BY <1>0, <2>6, <2>8, <2>15 DEF Owned, Types
    <3>3. \A h \in Hubs : thr'[h].pc = "setaddr" \/ CleanExit(thr'[h]) => thr'[h] = thr[h]
      BY <2>6, AtRest, Started DEF CleanExit
    <3> QED BY <1>0, <2>8, <3>2, <3>3 DEF ZeroInv
  <2> QED BY <2>10, <2>11, <2>12, <2>13, <2>14, <2>16, <2>18, <2>19, <2>20 DEF Inv
<1> QED BY <1>1, <1>2 DEF Operate

LEMMA ClientAttachesInv ==
  ASSUME Inv, NEW t \in Hubs, ClientAttaches(t)
  PROVE  Inv'
<1>0. /\ Types /\ WorksInv /\ OwnerInv /\ TreeInv /\ DetachInv
      /\ LockInv /\ RootPortsInv /\ LowerPortsInv /\ ZeroInv
  BY DEF Inv
<1> USE Numbers, PortSets
<1>1. CASE Fails(t, "failed") /\ UNCHANGED known
  BY <1>1, ClientFails
<1>2. CASE known' = known \cup {thr[t].addr} /\ Rests(t)
  <2>1. PICK w \in Works : w = thr[t]
    BY <1>0 DEF Types
  <2>2. w.pc = "client" /\ w.xf = "none" /\ w.addr \in Addresses /\ Owns(t)
    BY <1>0, <2>1 DEF ClientAttaches, At, WorksInv, WorkOK, Owns, OwnSteps
  <2>3. PICK a \in Addresses : a = w.addr
    BY <2>2
  <2>4. dev[a].use = "listed" /\ dev[a].up = t /\ dev[a].port = w.port /\ known' = known \cup {a}
    BY <1>0, <1>2, <2>1, <2>2, <2>3 DEF OwnerInv
  <2>5. ThrBecomes(t, Resting)
    BY <1>0, <1>2, Rested
  <2>6. UNCHANGED <<plug, answers, change, dev, slot, closing, event, addr0, unload, stray>>
    BY DEF ClientAttaches
  <2>7. \A h \in Hubs : /\ Owns(h)' <=> Owns(h) /\ h # t
                        /\ Owns(h) /\ h # t => thr'[h] = thr[h] /\ thr[h].addr \in Hubs \ {a}
                        /\ thr[h].pc = "none" <=> thr'[h].pc = "none"
    <3>1. Resting.pc \notin OwnSteps \cup {"none"}
      BY AtRest DEF OwnSteps, AttachSteps
    <3>2. \A h \in Hubs : Owns(h) /\ h # t => thr[h].addr # a
      BY <1>0, <2>1, <2>2, <2>3 DEF OwnerInv
    <3>3. \A h \in Hubs : thr[h].addr \in Hubs
      BY <1>0 DEF Types, Works
    <3> QED BY <2>1, <2>2, <2>5, <3>1, <3>2, <3>3 DEF Owns, ThrBecomes
  <2>8. Types'
    BY <1>0, <2>4, <2>5, <2>6 DEF Types, ThrBecomes
  <2>9. WorksInv'
    <3>1. WorkOK(t, Resting)
      BY AtRest DEF WorkOK, PortSteps, LowerSteps, ExitSteps, OwnSteps, AttachSteps
    <3> QED BY <1>0, <2>5, <3>1, WorksStep
  <2>10. OwnerInv'
    <3>1. ASSUME NEW b \in Addresses, dev[b].use = "reserved"
          PROVE  \E h \in Hubs : Owns(h)' /\ thr'[h].addr = b
      <4>1. PICK h \in Hubs : Owns(h) /\ thr[h].addr = b
        BY <1>0, <3>1 DEF OwnerInv
      <4>2. h # t
        BY <2>1, <2>3, <2>4, <3>1, <4>1
      <4> QED BY <2>7, <4>1, <4>2
    <3>2. ASSUME NEW h \in Hubs, Owns(h)'
          PROVE  LET b == thr'[h].addr IN
                 /\ dev[b].use \in {"reserved", "listed"} /\ thr'[b].pc = "none" /\ b \notin known'
                 /\ dev[b].use = "listed" => dev[b].up = h /\ dev[b].port = thr'[h].port
                 /\ thr'[h].pc \in {"operate", "client"} => dev[b].use = "listed"
      <4>1. Owns(h) /\ thr'[h] = thr[h] /\ thr[h].addr \in Hubs \ {a}
        BY <2>7, <3>2
      <4> QED BY <1>0, <2>4, <2>7, <4>1 DEF OwnerInv
    <3>3. \A h, g \in Hubs : Owns(h)' /\ Owns(g)' /\ thr'[h].addr = thr'[g].addr => h = g
      BY <1>0, <2>7 DEF OwnerInv
    <3> QED BY <2>6, <3>1, <3>2, <3>3 DEF OwnerInv
  <2>11. TreeInv'
    <3>1. \A h \in Hubs : dev[h].up \in Hubs
      BY <1>0 DEF Types, Devices
    <3> QED BY <1>0, <2>4, <2>6, <2>7, <3>1 DEF TreeInv
  <2>12. DetachInv'
    BY <1>0, <2>1, <2>2, <2>5, <2>6, AtRest DEF DetachInv, ThrBecomes
  <2>13. LockInv'
    BY <1>0, <2>1, <2>2, <2>5, <2>6, AtRest DEF LockInv, LockSteps, ExitSteps, ThrBecomes, Types
  <2>14. RootPortsInv'
    BY <1>0, <2>1, <2>2, <2>3, <2>4, <2>5, <2>6, <2>7, AtRest DEF RootPortsInv, RootBusy, ThrBecomes
  <2>15. LowerPortsInv'
    BY <1>0, <2>1, <2>2, <2>5, <2>6, <2>7 DEF LowerPortsInv, RootBusy, ThrBecomes
  <2>16. ZeroInv'
    <3>1. \A p \in Ports : Owned(p) => Owned(p)'
      BY <1>0, <2>1, <2>2, <2>5, <2>6 DEF Owned, ThrBecomes, LockInv, LockSteps, ExitSteps, Types
    <3>2. ~CleanExit(Resting)
      BY AtRest DEF CleanExit
    <3> QED BY <1>0, <2>5, <2>6, <3>1, <3>2, AtRest DEF ZeroInv, ThrBecomes
  <2> QED BY <2>8, <2>9, <2>10, <2>11, <2>12, <2>13, <2>14, <2>15, <2>16 DEF Inv
<1> QED BY <1>1, <1>2 DEF ClientAttaches

LEMMA FailedInv ==
  ASSUME Inv, NEW t \in Hubs, Failed(t)
  PROVE  Inv'
<1>0. /\ Types /\ WorksInv /\ OwnerInv /\ TreeInv /\ DetachInv
      /\ LockInv /\ RootPortsInv /\ LowerPortsInv /\ ZeroInv
  BY DEF Inv
<1> USE Numbers, PortSets
<1>1. PICK w \in Works : w = thr[t]
  BY <1>0 DEF Types
<1>2. /\ w.pc = "failed" /\ w.xf = "none" /\ w.addr \in Addresses /\ w.port \in PortsOf(t) /\ Owns(t)
      /\ w.port \in Ports /\ (w.kind = "hub" => w.port = HubPort)
  BY <1>0, <1>1 DEF Failed, At, WorksInv, WorkOK, Owns, PortSteps, LowerSteps, ExitSteps, OwnSteps, AttachSteps, Works
<1>3. PICK a \in Addresses : a = w.addr
  BY <1>2
<1>4. PICK r : r = [w EXCEPT !.pc = "release", !.addr = 0]
  OBVIOUS
<1>5. r \in Works /\ r.pc = "release" /\ r.addr = 0 /\ r.port = w.port /\ r.kind = w.kind /\ r.xf = "none"
  BY <1>2, <1>4 DEF Works, Steps
<1>6. ThrBecomes(t, r)
  <2>1. thr' = [thr EXCEPT ![t].pc = "release", ![t].addr = 0]
    BY DEF Failed
  <2>2. thr' = [thr EXCEPT ![t] = r]
    BY <1>0, <1>1, <1>4, <2>1 DEF Types
  <2> QED BY <1>0, <1>5, <2>2, ThrSet
<1>7. DevBecomes(a, NoDevice)
  BY <1>0, <1>1, <1>3, NoDeviceTyped, DevSet DEF Failed, Undone
<1>8. UNCHANGED <<plug, answers, change, slot, known, closing, event, addr0, unload, stray>>
  BY DEF Failed, physical
<1>9. /\ dev[a].use \in {"reserved", "listed"} /\ thr[a].pc = "none" /\ a # t /\ a \notin known
      /\ dev[a].use = "listed" => dev[a].up = t /\ dev[a].port = w.port
      /\ \A b \in Addresses : dev[b].use = "listed" => dev[b].up # a
  BY <1>0, <1>1, <1>2, <1>3 DEF OwnerInv, TreeInv
<1>10. \A h \in Hubs : /\ Owns(h)' <=> Owns(h) /\ h # t
                       /\ Owns(h) /\ h # t => thr'[h] = thr[h] /\ thr[h].addr \in Hubs \ {a}
                       /\ thr[h].pc = "none" <=> thr'[h].pc = "none"
  <2>1. r.pc \notin OwnSteps \cup {"none"}
    BY <1>5 DEF OwnSteps, AttachSteps
  <2>2. \A h \in Hubs : Owns(h) /\ h # t => thr[h].addr # a
    BY <1>0, <1>1, <1>2, <1>3 DEF OwnerInv
  <2>3. \A h \in Hubs : thr[h].addr \in Hubs
    BY <1>0 DEF Types, Works
  <2> QED BY <1>1, <1>2, <1>6, <2>1, <2>2, <2>3 DEF Owns, ThrBecomes
<1>11. Types'
  BY <1>0, <1>6, <1>7, <1>8 DEF Types, DevBecomes, ThrBecomes
<1>12. WorksInv'
  <2>1. WorkOK(t, r)
    BY <1>2, <1>5 DEF WorkOK, OwnSteps, PortSteps, LowerSteps, ExitSteps, AttachSteps
  <2> QED BY <1>0, <1>6, <2>1, WorksStep
<1>13. OwnerInv'
  <2>1. ASSUME NEW b \in Addresses, dev'[b].use = "reserved"
        PROVE  \E h \in Hubs : Owns(h)' /\ thr'[h].addr = b
    <3>1. dev[b].use = "reserved" /\ b # a
      BY <1>7, <2>1, NoDeviceTyped DEF DevBecomes
    <3>2. PICK h \in Hubs : Owns(h) /\ thr[h].addr = b
      BY <1>0, <3>1 DEF OwnerInv
    <3> QED BY <1>1, <1>3, <1>10, <3>1, <3>2
  <2>2. ASSUME NEW h \in Hubs, Owns(h)'
        PROVE  LET b == thr'[h].addr IN
               /\ dev'[b].use \in {"reserved", "listed"} /\ thr'[b].pc = "none" /\ b \notin known'
               /\ dev'[b].use = "listed" => dev'[b].up = h /\ dev'[b].port = thr'[h].port
               /\ thr'[h].pc \in {"operate", "client"} => dev'[b].use = "listed"
    <3>1. Owns(h) /\ thr'[h] = thr[h] /\ thr[h].addr \in Hubs \ {a}
      BY <1>10, <2>2
    <3>2. dev'[thr[h].addr] = dev[thr[h].addr]
      BY <1>7, <3>1 DEF DevBecomes
    <3> QED BY <1>0, <1>8, <1>10, <3>1, <3>2 DEF OwnerInv
  <2>3. \A h, g \in Hubs : Owns(h)' /\ Owns(g)' /\ thr'[h].addr = thr'[g].addr => h = g
    BY <1>0, <1>10 DEF OwnerInv
  <2> QED BY <2>1, <2>2, <2>3 DEF OwnerInv
<1>14. TreeInv'
  <2>1. \A h \in Hubs : dev[h].up \in Hubs
    BY <1>0 DEF Types, Devices
  <2> QED BY <1>0, <1>7, <1>8, <1>9, <1>10, <2>1, NoDeviceTyped DEF TreeInv, DevBecomes, Types
<1>15. DetachInv'
  <2>1. \A g \in Hubs : slot[g] # 0 => slot[g] \in Hubs \ {a} /\ g # t
    BY <1>0, <1>1, <1>2, <1>9 DEF Types, DetachInv
  <2>2. \A h \in Hubs : dev'[h].use = "leaving" => h # a /\ dev'[h] = dev[h]
    BY <1>7, NoDeviceTyped DEF DevBecomes
  <2>3. \A h \in Hubs : dev[h].use = "leaving" => h # a /\ dev'[h] = dev[h]
    BY <1>7, <1>9 DEF DevBecomes
  <2>4. \A h \in Hubs : /\ thr'[h].xf = "none" \/ thr'[h].xf = thr[h].xf
                        /\ h # t => thr'[h] = thr[h]
    BY <1>5, <1>6 DEF ThrBecomes
  <2>5. thr[t].pc = "failed"
    BY <1>1, <1>2
  <2> QED BY <1>0, <1>8, <1>10, <2>1, <2>2, <2>3, <2>4, <2>5 DEF DetachInv
<1>16. LockInv'
  BY <1>0, <1>1, <1>2, <1>5, <1>6, <1>8 DEF LockInv, LockSteps, ExitSteps, ThrBecomes, Types
<1>17. RootPortsInv'
  <2>1. ASSUME NEW p \in RootPorts, answers[p] \in Addresses
        PROVE  \/ LET b == answers[p] IN dev'[b].use = "listed" /\ dev'[b].up = Root /\ dev'[b].port = p
               \/ Owns(Root)' /\ thr'[Root].addr = answers[p] /\ thr'[Root].port = p
               \/ RootBusy(p)'
    <3>1. CASE LET b == answers[p] IN dev[b].use = "listed" /\ dev[b].up = Root /\ dev[b].port = p
      BY <1>5, <1>6, <1>7, <1>9, <2>1, <3>1 DEF RootBusy, DevBecomes, ThrBecomes
    <3>2. CASE Owns(Root) /\ thr[Root].addr = answers[p] /\ thr[Root].port = p
      BY <1>1, <1>5, <1>6, <1>10, <3>2 DEF RootBusy, ThrBecomes
    <3>3. CASE RootBusy(p)
      BY <1>1, <1>2, <1>6, <3>3 DEF RootBusy, ThrBecomes
    <3> QED BY <1>0, <2>1, <3>1, <3>2, <3>3 DEF RootPortsInv
  <2> QED BY <1>0, <1>5, <1>6, <1>8, <2>1 DEF RootPortsInv, ThrBecomes
<1>18. LowerPortsInv'
  BY <1>0, <1>1, <1>2, <1>6, <1>8, <1>10 DEF LowerPortsInv, RootBusy, ThrBecomes
<1>19. ZeroInv'
  <2>1. \A p \in Ports : Owned(p) => Owned(p)'
    BY <1>0, <1>1, <1>5, <1>6, <1>8 DEF Owned, ThrBecomes, Types
  <2>2. ~CleanExit(r)
    BY <1>5 DEF CleanExit
  <2> QED BY <1>0, <1>5, <1>6, <1>8, <2>1, <2>2 DEF ZeroInv, ThrBecomes
<1> QED BY <1>11, <1>12, <1>13, <1>14, <1>15, <1>16, <1>17, <1>18, <1>19 DEF Inv

-----------------------------------------------------------------------------
(* The invariant holds.                                                       *)
LEMMA InitInv ==
  ASSUME Init
  PROVE  Inv
<1> USE Numbers, PortSets
<1>1. thr = [t \in Hubs |-> IF t = Root THEN HubThread ELSE NoWork]
  BY DEF Init
<1>2. PICK d : d = [NoDevice EXCEPT !.use = "listed", !.kind = "hub"]
  OBVIOUS
<1>3. d \in Devices /\ d.use = "listed" /\ d.kind = "hub" /\ d.port = HubPort
  BY <1>2, NoDeviceTyped DEF NoDevice, Devices, Kinds
<1>4. dev = [a \in Hubs |-> IF a = Root THEN d ELSE NoDevice]
  BY <1>2 DEF Init
<1>5. Types
  <2>1. thr \in [Hubs -> Works] /\ dev \in [Hubs -> Devices]
    BY <1>1, <1>3, <1>4, NoWorkTyped, Started, NoDeviceTyped
  <2>2. /\ plug \in [Ports -> Kinds] /\ \A p \in Ports : plug[p] = "hub" => p = HubPort
        /\ answers \in [Ports -> Hubs \cup {Off}]
        /\ change \in [Ports -> SUBSET Bits]
    BY DEF Init, Kinds, Bits
  <2>3. /\ closing \in [Hubs -> BOOLEAN] /\ event \in [Hubs -> BOOLEAN]
        /\ slot \in [Hubs -> Hubs]
        /\ addr0 \in [owner : Hubs \cup {NoThread}, closing : BOOLEAN]
        /\ known \subseteq Addresses
        /\ unload \in {"up", "closing", "done"}
        /\ stray \subseteq LowerPorts
    BY DEF Init
  <2> QED BY <2>1, <2>2, <2>3 DEF Types
<1>6. \A t \in Hubs : thr[t].pc \in {"power", "none"} /\ thr[t].xf = "none" /\ thr[t].kind = "none"
                      /\ (thr[t].pc # "none" <=> t = Root)
  BY <1>1, NoWorkTyped, Started
<1>7. dev[Root] = d /\ \A a \in Addresses : dev[a] = NoDevice /\ dev[a].use = "free"
  BY <1>4, NoDeviceTyped
<1>8. /\ \A p \in Ports : answers[p] = Off
      /\ \A h \in Hubs : ~closing[h] /\ slot[h] = 0
      /\ addr0.owner = NoThread /\ known = {}
  BY DEF Init
<1>9. WorksInv
  BY <1>6 DEF WorksInv, WorkOK, PortSteps, LowerSteps, ExitSteps, OwnSteps, AttachSteps
<1>10. OwnerInv
  BY <1>6, <1>7 DEF OwnerInv, Owns, OwnSteps, AttachSteps
<1>11. TreeInv /\ DetachInv
  BY <1>3, <1>6, <1>7, <1>8, NoDeviceTyped DEF TreeInv, DetachInv
<1>12. LockInv
  BY <1>6, <1>8 DEF LockInv, LockSteps, ExitSteps
<1>13. RootPortsInv /\ LowerPortsInv
  BY <1>6, <1>8 DEF RootPortsInv, LowerPortsInv
<1>14. ZeroInv
  BY <1>6, <1>8 DEF ZeroInv, Off
<1> QED BY <1>5, <1>9, <1>10, <1>11, <1>12, <1>13, <1>14 DEF Inv

LEMMA StutterInv ==
  ASSUME Inv, UNCHANGED vars
  PROVE  Inv'
<1> SUFFICES Types' /\ WorksInv' /\ OwnerInv' /\ TreeInv' /\ DetachInv'
             /\ LockInv' /\ RootPortsInv' /\ LowerPortsInv' /\ ZeroInv'
  BY DEF Inv
<1>1. UNCHANGED <<plug, answers, change, thr, dev, slot, known, closing, event, addr0, unload, stray>>
  BY DEF vars, physical, driver
<1> QED BY <1>1 DEF Inv, Types, WorksInv, WorkOK, Requests, OwnerInv, Owns, TreeInv, DetachInv, LockInv,
                    RootPortsInv, RootBusy, LowerPortsInv, ZeroInv, Owned, CleanExit

LEMMA StepInv ==
  ASSUME Inv, [Next]_vars
  PROVE  Inv'
<1>1. ASSUME NEW p \in Ports, Plug(p) \/ Unplug(p) \/ Fault(p)
      PROVE  Inv'
  BY <1>1, PlugInv
<1>2. ASSUME NEW h \in Hubs, HubStep(h)
      PROVE  Inv'
  <2>5. CASE Skipped(h)
    BY <2>5, SkippedQuiet
  <2>1. CASE Issue(h) \/ Wake(h) \/ ThreadEnds(h) \/ PortChanged(h) \/ Detached(h)
    BY <2>1, IssueQuiet, WakeInv, ThreadEndsQuiet, PortChangedInv, DetachedInv
  <2>2. CASE RootPolled(h) \/ Refused(h) \/ Polled(h)
    BY <2>2, RootPolledQuiet, RefusedQuiet, PolledQuiet
  <2>3. CASE Reserve(h) \/ GiveUp(h) \/ OpenPipe0(h) \/ LockAddress0(h)
    BY <2>3, ReserveInv, GiveUpQuiet, OpenPipe0Quiet, LockAddress0Inv
  <2>4. CASE Create(h) \/ Operate(h) \/ ClientAttaches(h) \/ Failed(h) \/ Release(h)
    BY <2>4, CreateInv, OperateInv, ClientAttachesInv, FailedInv, ReleaseInv
  <2> QED BY <1>2, <2>1, <2>2, <2>3, <2>4, <2>5 DEF HubStep
<1>3. ASSUME NEW a \in Hubs, DetachStep(a)
      PROVE  Inv'
  BY <1>3, TakeDetachedInv, CloseFunctionInv, CloseHubInv, HubThreadEndedInv, LeavesBelow, DeleteInv
     DEF DetachStep
<1>4. ASSUME NEW h \in Hubs, Complete(h)
      PROVE  Inv'
  BY <1>4, CompleteInv
<1>5. CASE RootPoll \/ RootReset
  BY <1>5, RootPollQuiet, RootResetInv
<1>6. CASE Unload \/ Unloaded
  BY <1>6, UnloadInv, UnloadedInv
<1>7. CASE UNCHANGED vars
  BY <1>7, StutterInv
<1> QED BY <1>1, <1>2, <1>3, <1>4, <1>5, <1>6, <1>7 DEF Next

(* The owners of the addresses, the tree of the hubs, how far each detach is, *)
(* the lock of address 0 and who answers to what on the bus fit together in   *)
(* every state, whatever is plugged in and out, fails or is unloaded.         *)
THEOREM HubInvariant == Spec => []Inv
<1>1. Init => Inv
  BY InitInv
<1>2. Inv /\ [Next]_vars => Inv'
  BY StepInv
<1> QED BY <1>1, <1>2, PTL DEF Spec

(* However the threads of the hubs interleave in AttachDevice, and whatever   *)
(* requests fail: what answers to address 0 is the device at the port that the *)
(* owner of the lock enumerates, or one that an external hub left behind when  *)
(* it did not get its port disabled.                                          *)
THEOREM ZeroAnswersOnce == Spec => []OneAtAddressZero
<1>1. Inv => OneAtAddressZero
  <2> SUFFICES ASSUME Inv, NEW p \in Ports, answers[p] = 0, p \notin stray
               PROVE  addr0.owner # NoThread /\ Present(addr0.owner)
                      /\ p \in PortsOf(addr0.owner) /\ thr[addr0.owner].port = p
    BY DEF OneAtAddressZero
  <2>1. addr0.owner \in Hubs /\ thr[addr0.owner].port = p /\ Present(addr0.owner)
    BY DEF Inv, Types, ZeroInv, Owned, Present
  <2>2. thr[addr0.owner].pc \in PortSteps
    BY <2>1, Numbers DEF Inv, LockInv, LockSteps, ExitSteps, PortSteps, LowerSteps, OwnSteps, AttachSteps
  <2> QED BY <2>1, <2>2, Numbers DEF Inv, WorksInv, WorkOK
<1> QED BY <1>1, HubInvariant, PTL

(* ReserveAddress, FreeAddress and the deletion of a device keep the books:   *)
(* an address is reserved exactly while one thread enumerates a device for it.*)
THEOREM AddressesKept == Spec => []AddressesOwned
<1>1. Inv => AddressesOwned
  <2> SUFFICES ASSUME Inv PROVE AddressesOwned
    OBVIOUS
  <2>1. \A h \in Hubs : Attaching(h) <=> Owns(h)
    BY DEF Owns, OwnSteps, Attaching
  <2> QED BY <2>1 DEF Inv, OwnerInv, AddressesOwned
<1> QED BY <1>1, HubInvariant, PTL

(* A function USBD has accepted is always in the array of a hub in use or     *)
(* being detached: HandleDetach reaches it, so USBD hears of its removal.     *)
THEOREM DetachAlwaysReaches == Spec => []DetachReaches
<1>1. Inv => DetachReaches
  <2> SUFFICES ASSUME Inv PROVE DetachReaches
    OBVIOUS
  <2>1. \A a \in known : a \in Addresses /\ dev[a].up \in Hubs
    BY Numbers DEF Inv, Types, Devices
  <2> QED BY <2>1 DEF Inv, TreeInv, DetachReaches
<1> QED BY <1>1, HubInvariant, PTL

(* HandleDetach sets m_fHubThreadClosing before the event, so the thread it   *)
(* then waits for cannot be left in a transfer.                               *)
THEOREM ClosingHeard == Spec => []HubThreadHears
<1>1. Inv => HubThreadHears
  BY DEF Inv, DetachInv, HubThreadHears
<1> QED BY <1>1, HubInvariant, PTL

=============================================================================
