---------------------------- MODULE PcnetAdapter ----------------------------
(***************************************************************************)
(* The life of a PCnet adapter (LANCE.C, alloc.c, REQUEST.C): it is        *)
(* initialised step by step, any of which may fail, serves requests for    *)
(* its packet filter, watches the cable and is halted; interrupts, timers  *)
(* and the shutdown handler come in between.                               *)
(*                                                                         *)
(* NDIS lets one call at a time into the running driver.  It does not hold *)
(* back interrupts and timers while the driver is initialised or halted,   *)
(* so these are done one call at a time.  The rings and the queue of       *)
(* packets are those of PcnetRings, here no more than "a packet is         *)
(* queued" and "a packet is in the ring".                                  *)
(***************************************************************************)
EXTENDS Naturals, FiniteSets

CONSTANTS
  Address,             \* multicast addresses
  Bin,                 \* bits of the logical address filter
  PacketFilter,        \* the packet filters NDIS sets
  Hash,                \* the bit of an address, from its CRC
  LANCE_MAX_MULTICAST, \* addresses the driver can store
  MaxSends,            \* bound: calls of LanceSendPackets
  MaxPlugs             \* bound: times the cable is pulled or plugged

ASSUME FilterAssumption ==
  PacketFilter \subseteq
    SUBSET {"multicast", "all_multicast", "promiscuous", "functional"}
ASSUME HashAssumption == Hash \in [Address -> Bin]
ASSUME BoundsAssumption ==
  {LANCE_MAX_MULTICAST, MaxSends, MaxPlugs} \subseteq Nat

VARIABLES
  pc,               \* where LanceInitialize or LanceHalt is
  held,             \* what is allocated or registered
  linkOff,          \* HLLinkOff of the registry
  HomeRun,          \* ActivePhyAddress is that of HomeRun
  chip,             \* the controller
  block,            \* InitializationBlock: mode and logical address filter
  currentFilter,    \* CurrentPacketFilter
  addresses,        \* MulticastAddresses
  dpc,              \* LanceHandleInterrupt: idle, queued, running
  csrRunning,       \* what its Csr0Value says of RUNNING
  inDpc,            \* IN_INTERRUPT_DPC
  queued,           \* a packet is in the queue of deferred sends
  cableTimer,       \* CableTimer is set
  deferredTimer,    \* DeferredProcessTimer is set
  plugged,          \* the link of the active PHY
  linkActive,       \* LinkActive
  cableDisconnected,\* CableDisconnected
  indicated,        \* history: the media status NDIS was told last
  used,             \* history: who used what was not held
  sends, plugs

lifeVars == <<pc, held, linkOff, HomeRun>>
filterVars == <<block, currentFilter, addresses>>
dpcVars == <<dpc, csrRunning, inDpc>>
sendVars == <<queued, deferredTimer, sends>>
linkVars == <<linkActive, cableDisconnected, indicated>>
cableVars == <<plugged, plugs>>
vars == <<lifeVars, chip, filterVars, dpcVars, sendVars, cableTimer, linkVars,
          cableVars, used>>

Phy == {"external", "sfex", "homerun"}
Unsupported == {"functional"}

AdapterMemory == {"mapRegisters", "shared", "sharedCached"}

\* What somebody needs of the adapter and does not have; without the adapter
\* itself nothing of it can be looked up.
Missing(who, needs) ==
  {who} \X (IF "adapter" \in held THEN needs \ held ELSE {"adapter"})

-----------------------------------------------------------------------------
(* The controller.                                                         *)

LanceStopChip ==
  [chip EXCEPT !.running = FALSE, !.iena = FALSE, !.ints = {}, !.sending = FALSE]

\* The controller is stopped, set up and started with the block's mode and
\* filter; it runs if IDON is seen in time, with interrupts enabled unless
\* one is being handled.
LanceInit(b, idon) ==
  [running |-> idon, iena |-> idon /\ ~inDpc, ints |-> {}, sending |-> FALSE,
   mode |-> b.mode, filter |-> b.filter]

Init ==
  /\ pc = "off"
  /\ held = {}
  /\ linkOff \in BOOLEAN
  /\ HomeRun = FALSE
  /\ chip = [running |-> FALSE, iena |-> FALSE, ints |-> {}, sending |-> FALSE,
             mode |-> "normal", filter |-> {}]
  /\ block = [mode |-> "normal", filter |-> {}]
  /\ currentFilter = {} /\ addresses = {}
  /\ dpc = "idle" /\ csrRunning = FALSE /\ inDpc = FALSE
  /\ queued = FALSE /\ deferredTimer = FALSE /\ cableTimer = FALSE
  /\ plugged = FALSE /\ linkActive = FALSE /\ cableDisconnected = FALSE
  /\ indicated = "connected"
  /\ used = {}
  /\ sends = 0 /\ plugs = 0

-----------------------------------------------------------------------------
(* Initialisation.                                                         *)

\* A step of LanceInitialize or LanceHalt that only takes or gives back
\* resources.
Resources(from, to, now) ==
  /\ pc = from
  /\ pc' = to
  /\ held' = now
  /\ UNCHANGED <<linkOff, HomeRun, chip, filterVars, dpcVars, sendVars,
                 cableTimer, linkVars, cableVars, used>>

\* LanceInitialize up to the reading of the configuration.  An adapter whose
\* configuration cannot be opened is not freed.
LanceInitialize ==
  \/ Resources("off", "failed", {})
  \/ Resources("off", "failed", {"adapter"})
  \/ Resources("off", "hardware", {"adapter"})

\* The PCI bus is searched for the controller.
LanceHardwareDetails ==
  \/ Resources("hardware", "ports", held)
  \/ Resources("hardware", "free", held)

RegisterIoPortRange ==
  \/ Resources("ports", "memory", held \cup {"ports"})
  \/ Resources("ports", "free", held)

\* Each allocation may fail; what was allocated before stays.
LanceAllocateAdapterMemory ==
  \/ \E got \in {{}, {"mapRegisters"}, {"mapRegisters", "shared"}} :
       Resources("memory", "InitErr1", held \cup got)
  \/ Resources("memory", "rxPool", held \cup AdapterMemory)

\* A failure gives back the packets, buffers and pools it has allocated.
LanceInitRxPacketPool ==
  \/ Resources("rxPool", "interrupt", held \cup {"rxPool"})
  \/ Resources("rxPool", "InitErr1", held)

RegisterInterrupt ==
  \/ Resources("interrupt", "phy", held \cup {"interrupt"})
  \/ Resources("interrupt", "InitErr2", held)

\* LanceDeleteAdapterMemory frees the map registers only.
LanceDeleteAdapterMemory(now) == now \ {"mapRegisters"}

InitErr2 == Resources("InitErr2", "InitErr1", LanceDeleteAdapterMemory(held))

\* Mutant of InitErr1: the ports stay registered.
InitErr1KeepsPorts == Resources("InitErr1", "free", held)

InitErr1 == Resources("InitErr1", "free", held \ {"ports"})
FreeAdapter == Resources("free", "failed", held \ {"adapter"})

\* The PHYs of the board in the order they are tried; HomeRun is the last.
LanceFindPhyList(board) ==
  IF board.default = "external" /\ board.external
    THEN <<"external", "sfex", "homerun">> ELSE <<"sfex", "homerun">>

\* The first PHY with a link, or else HomeRun.
LanceFindActivePhy(board, linked) ==
  LET list == LanceFindPhyList(board)
      with == {i \in DOMAIN list : list[i] \in linked}
  IN  IF with = {} THEN "homerun"
      ELSE list[CHOOSE i \in with : \A j \in with : i <= j]

\* The PHY of the registry; for the external one the board's default.
LanceSetSeletedPhy(selected, board) ==
  IF selected = "external" THEN board.default ELSE selected

\* The PHY of the adapter is chosen once, here: that of the registry, unless
\* it is external and does not exist.
LanceHomeLanPortScan ==
  /\ pc = "phy"
  /\ pc' = "chip"
  /\ \E selected \in Phy \cup {"find"}, linked \in SUBSET Phy,
        board \in [default : Phy, external : BOOLEAN] :
       LET phy == IF \/ selected = "find"
                     \/ selected = "external" /\ board.default = "external" /\ ~board.external
                    THEN LanceFindActivePhy(board, linked)
                    ELSE LanceSetSeletedPhy(selected, board)
       IN  /\ HomeRun' = (phy = "homerun")
           /\ plugged' = (phy \in linked)
  /\ UNCHANGED <<held, linkOff, chip, filterVars, dpcVars, sendVars, cableTimer,
                 linkVars, plugs, used>>

\* LanceRegisterAdapter ends with the first start of the controller.
StartChip ==
  /\ pc = "chip"
  /\ pc' = "timers"
  /\ \E idon \in BOOLEAN : chip' = LanceInit(block, idon)
  /\ UNCHANGED <<held, linkOff, HomeRun, filterVars, dpcVars, sendVars, cableTimer,
                 linkVars, cableVars, used>>

\* The rest of LanceInitialize: the shutdown handler and the timer of the
\* cable, and at last the lock of the queue.
StartTimers ==
  /\ pc = "timers"
  /\ pc' = "lock"
  /\ held' = held \cup {"shutdownHandler"}
  /\ cableTimer' = TRUE
  /\ linkActive' = FALSE /\ cableDisconnected' = FALSE
  /\ UNCHANGED <<linkOff, HomeRun, chip, filterVars, dpcVars, sendVars, indicated,
                 cableVars, used>>

AllocateSpinLock == Resources("lock", "running", held \cup {"lock"})

-----------------------------------------------------------------------------
(* LanceHalt.  It leaves DeferredProcessTimer set and the shutdown handler *)
(* registered.                                                             *)

HaltCancelsTimer ==
  /\ pc = "running"
  /\ pc' = "haltQueue"
  /\ cableTimer' = FALSE
  /\ UNCHANGED <<held, linkOff, HomeRun, chip, filterVars, dpcVars, sendVars,
                 linkVars, cableVars, used>>

\* The packets of the queue are completed.
HaltCompletesQueue ==
  /\ pc = "haltQueue"
  /\ pc' = "haltLock"
  /\ queued' = FALSE
  /\ UNCHANGED <<held, linkOff, HomeRun, chip, filterVars, dpcVars, deferredTimer,
                 sends, cableTimer, linkVars, cableVars, used>>

HaltFreesLock == Resources("haltLock", "haltStop", held \ {"lock"})

\* LanceStopChip, and further on the reset that lets the PHY go.
HaltStopsChip ==
  /\ \/ pc = "haltStop" /\ pc' = "haltReset"
     \/ pc = "haltReset" /\ pc' = "haltInterrupt"
  /\ chip' = LanceStopChip
  /\ UNCHANGED <<held, linkOff, HomeRun, filterVars, dpcVars, sendVars, cableTimer,
                 linkVars, cableVars, used>>

\* Mutant of HaltDeregistersInterrupt: the ports are given back first.
HaltUnmapsFirst ==
  Resources("haltInterrupt", "haltPorts", held \ {"ports"})

\* NDIS waits for a LanceHandleInterrupt that is queued or running.
HaltDeregistersInterrupt ==
  /\ dpc = "idle"
  /\ Resources("haltInterrupt", "haltPorts", held \ {"interrupt"})

HaltFrees ==
  \/ Resources("haltPorts", "haltPool", held \ {"ports"})
  \/ Resources("haltPool", "haltMemory", held \ {"rxPool"})
  \/ Resources("haltMemory", "haltAdapter", LanceDeleteAdapterMemory(held))
  \/ Resources("haltAdapter", "halted", held \ {"adapter"})

\* The system goes down.
LanceShutdownHandler ==
  /\ "shutdownHandler" \in held
  /\ held' = held \ {"shutdownHandler"}
  /\ used' = used \cup Missing("LanceShutdownHandler", {"ports"})
  /\ cableTimer' = FALSE
  /\ chip' = LanceStopChip
  /\ UNCHANGED <<pc, linkOff, HomeRun, filterVars, dpcVars, sendVars, linkVars, cableVars>>

-----------------------------------------------------------------------------
(* Requests.                                                               *)

\* Mutant of LanceChangeAddress: the address list is hashed for HomeRun too,
\* and the last address is left out.
HashesAllButOne(b) ==
  [b EXCEPT !.filter = IF addresses' = {} THEN {}
                       ELSE {Hash[a] : a \in addresses' \ {CHOOSE x \in addresses' : TRUE}}]

\* The filter for the addresses as they now are; HomeRun takes them all.
LanceChangeAddress(b) ==
  [b EXCEPT !.filter = IF HomeRun THEN Bin ELSE {Hash[a] : a \in addresses'}]

\* The mode and the filter for the packet filter as it now is.  The filter
\* of the multicast addresses stays when they are no longer asked for.
LanceChangeClass ==
  IF "promiscuous" \in currentFilter' THEN [block EXCEPT !.mode = "promiscuous"]
  ELSE LET b == [block EXCEPT !.mode = "normal"]
       IN  IF "all_multicast" \in currentFilter' THEN [b EXCEPT !.filter = Bin]
           ELSE IF "multicast" \in currentFilter' THEN LanceChangeAddress(b)
           ELSE b

\* OID_802_3_MULTICAST_LIST.  While every address is let in the list is only
\* stored.
SetMulticastList(list) ==
  /\ pc = "running" /\ dpc # "running"
  /\ Cardinality(list) <= LANCE_MAX_MULTICAST
  /\ addresses' = list
  /\ IF currentFilter \cap {"all_multicast", "promiscuous"} # {}
       THEN UNCHANGED <<block, chip>>
       ELSE /\ block' = LanceChangeAddress(block)
            /\ \E idon \in BOOLEAN : chip' = LanceInit(block', idon)
  /\ UNCHANGED <<lifeVars, currentFilter, dpcVars, sendVars, cableTimer, linkVars,
                 cableVars, used>>

\* OID_GEN_CURRENT_PACKET_FILTER.
SetPacketFilter(filter) ==
  /\ pc = "running" /\ dpc # "running"
  /\ filter \cap Unsupported = {}
  /\ currentFilter' = filter
  /\ UNCHANGED addresses
  /\ block' = LanceChangeClass
  /\ \E idon \in BOOLEAN : chip' = LanceInit(block', idon)
  /\ UNCHANGED <<lifeVars, dpcVars, sendVars, cableTimer, linkVars, cableVars, used>>

LanceReset ==
  /\ pc = "running" /\ dpc # "running"
  /\ \E idon \in BOOLEAN : chip' = LanceInit(block, idon)
  /\ queued' = FALSE
  /\ UNCHANGED <<lifeVars, filterVars, dpcVars, deferredTimer, sends, cableTimer, linkVars,
                 cableVars, used>>

-----------------------------------------------------------------------------
(* Sending.                                                                *)

\* What is queued goes into the ring, or while that is full the timer is set;
\* otherwise the timer is as given.
LanceDeferredSend(timer) ==
  \/ queued' = FALSE /\ deferredTimer' = timer
  \/ queued /\ queued' = TRUE /\ deferredTimer' = TRUE

\* A packet that was queued has been sent.
Sent == queued /\ ~queued'

\* A packet goes into the ring, or is refused.  HomeRun lets it wait in the
\* queue and tries the queue at the end once more.  The status of an earlier
\* packet may show that the link is good.
LanceSendPackets ==
  /\ pc = "running" /\ dpc # "running"
  /\ sends < MaxSends
  /\ sends' = sends + 1
  /\ \E idon, good, sent \in BOOLEAN :
       LET now == IF HomeRun /\ ~chip.running THEN LanceInit(block, idon) ELSE chip
           waits == HomeRun /\ (queued \/ ~sent)
       IN  /\ IF waits THEN queued' \in BOOLEAN /\ deferredTimer' = TRUE
                        ELSE UNCHANGED <<queued, deferredTimer>>
           /\ linkActive' = (linkActive \/ IF waits THEN ~queued' ELSE sent /\ good)
           /\ chip' = [now EXCEPT !.sending = @ \/ IF waits THEN ~queued' ELSE sent]
  /\ used' = used \cup
       Missing("LanceSendPackets", {"ports", "shared"} \cup (IF HomeRun THEN {"lock"} ELSE {}))
  /\ UNCHANGED <<lifeVars, filterVars, dpcVars, cableTimer, cableDisconnected, indicated,
                 cableVars>>

\* DeferredProcessTimer expires.
LanceDeferredProcess ==
  /\ deferredTimer /\ dpc # "running"
  /\ IF "adapter" \in held
       THEN /\ LanceDeferredSend(FALSE)
            /\ used' = used \cup Missing("LanceDeferredSend", {"lock", "shared"})
       ELSE /\ deferredTimer' = FALSE
            /\ used' = used \cup Missing("LanceDeferredProcess", {})
            /\ UNCHANGED queued
  /\ linkActive' = (linkActive \/ Sent)
  /\ chip' = [chip EXCEPT !.sending = @ \/ Sent]
  /\ UNCHANGED <<lifeVars, filterVars, dpcVars, sends, cableTimer, cableDisconnected,
                 indicated, cableVars>>

-----------------------------------------------------------------------------
(* Interrupts.                                                             *)

\* The line is shared: the routine may be called at any time.
LanceISR ==
  /\ "interrupt" \in held
  /\ dpc = "idle"
  /\ used' = used \cup Missing("LanceISR", {"ports"})
  /\ IF chip.iena /\ chip.ints # {}
       THEN /\ chip' = [chip EXCEPT !.iena = FALSE]
            /\ dpc' = "queued"
            /\ inDpc' = TRUE
       ELSE UNCHANGED <<chip, dpc, inDpc>>
  /\ UNCHANGED <<lifeVars, filterVars, csrRunning, sendVars, cableTimer, linkVars, cableVars>>

\* LanceHandleInterrupt up to the end of XmitComplete.  It may find the chip
\* stopped since the interrupt.  A packet that was received shows that there
\* is a cable.
LanceHandleInterrupt ==
  /\ dpc = "queued"
  /\ dpc' = "running"
  /\ csrRunning' = chip.running
  /\ LET received == "rx" \in chip.ints
         deferred == HomeRun /\ "tx" \in chip.ints
     IN  /\ IF deferred THEN LanceDeferredSend(deferredTimer)
                        ELSE UNCHANGED <<queued, deferredTimer>>
         /\ cableDisconnected' = (cableDisconnected /\ ~received)
         /\ indicated' = IF cableDisconnected /\ received THEN "connected" ELSE indicated
         /\ linkActive' = (linkActive \/ received \/ Sent)
         /\ chip' = [chip EXCEPT !.ints = {}, !.sending = @ \/ Sent]
         /\ used' = used
              \cup Missing("LanceHandleInterrupt",
                           {"ports", "shared"} \cup (IF received THEN {"rxPool"} ELSE {}))
              \cup (IF deferred THEN Missing("LanceDeferredSend", {"lock"}) ELSE {})
  /\ UNCHANGED <<lifeVars, filterVars, inDpc, sends, cableTimer, cableVars>>

\* Mutant of ChipProblem: the chip is started again whatever the PHY.
AnyChipProblem == ~csrRunning

\* With HomeRun a chip that was found stopped is started again.
ChipProblem == HomeRun /\ ~csrRunning

\* The end of LanceHandleInterrupt; NDIS then calls LanceEnableInterrupt.
EndInterrupt ==
  /\ dpc = "running"
  /\ dpc' = "idle"
  /\ inDpc' = FALSE
  /\ \E idon \in BOOLEAN :
       chip' = [(IF ChipProblem THEN LanceInit(block, idon) ELSE chip) EXCEPT !.iena = TRUE]
  /\ used' = used \cup Missing("LanceHandleInterrupt", {"ports", "shared"})
  /\ UNCHANGED <<lifeVars, filterVars, csrRunning, sendVars, cableTimer, linkVars, cableVars>>

-----------------------------------------------------------------------------
(* The cable.                                                              *)

\* Mutant of LanceHomeLanLinkMonitor: LinkActive is never taken back.
LeavesLinkActive ==
  /\ cableTimer /\ ~(HomeRun /\ linkOff)
  /\ cableDisconnected' = (~linkActive /\ ~plugged)
  /\ indicated' = IF cableDisconnected' THEN "disconnected" ELSE "connected"
  /\ UNCHANGED <<lifeVars, chip, filterVars, dpcVars, sendVars, cableTimer, linkActive,
                 cableVars, used>>

\* Every HOMELAN_TIMEOUT: traffic since the last time stands for a link,
\* otherwise the PHY is asked; NDIS is told of changes only.
LanceHomeLanLinkMonitor ==
  /\ cableTimer /\ dpc # "running"
  /\ ~(HomeRun /\ linkOff)
  /\ used' = used \cup Missing("LanceHomeLanLinkMonitor", {"ports"})
  /\ linkActive' = FALSE
  /\ LET good == linkActive \/ plugged
     IN  /\ cableDisconnected' = ~good
         /\ indicated' = IF good = cableDisconnected
                           THEN (IF good THEN "connected" ELSE "disconnected")
                           ELSE indicated
  /\ UNCHANGED <<lifeVars, chip, filterVars, dpcVars, sendVars, cableTimer, cableVars>>

-----------------------------------------------------------------------------
(* The controller and the cable by themselves.                             *)

ChipTransmits ==
  /\ chip.running /\ chip.sending
  /\ chip' = [chip EXCEPT !.sending = FALSE, !.ints = @ \cup {"tx"}]
  /\ UNCHANGED <<lifeVars, filterVars, dpcVars, sendVars, cableTimer, linkVars, cableVars,
                 used>>

ChipReceives ==
  /\ chip.running /\ plugged
  /\ chip' = [chip EXCEPT !.ints = @ \cup {"rx"}]
  /\ UNCHANGED <<lifeVars, filterVars, dpcVars, sendVars, cableTimer, linkVars, cableVars,
                 used>>

CablePlugs ==
  /\ pc = "running"
  /\ plugs < MaxPlugs
  /\ plugs' = plugs + 1
  /\ plugged' = ~plugged
  /\ UNCHANGED <<lifeVars, chip, filterVars, dpcVars, sendVars, cableTimer, linkVars, used>>

-----------------------------------------------------------------------------
Starting ==
  \/ LanceInitialize \/ LanceHardwareDetails \/ RegisterIoPortRange
  \/ LanceAllocateAdapterMemory \/ LanceInitRxPacketPool \/ RegisterInterrupt
  \/ LanceHomeLanPortScan \/ StartChip \/ StartTimers \/ AllocateSpinLock
  \/ InitErr2 \/ InitErr1 \/ FreeAdapter

Halting ==
  \/ HaltCancelsTimer \/ HaltCompletesQueue \/ HaltFreesLock \/ HaltStopsChip
  \/ HaltDeregistersInterrupt \/ HaltFrees \/ LanceShutdownHandler

Serving ==
  \/ \E list \in SUBSET Address : SetMulticastList(list)
  \/ \E filter \in PacketFilter : SetPacketFilter(filter)
  \/ LanceReset \/ LanceSendPackets \/ LanceDeferredProcess \/ LanceHomeLanLinkMonitor
  \/ LanceISR \/ LanceHandleInterrupt \/ EndInterrupt

Next ==
  \/ Starting \/ Halting \/ Serving
  \/ ChipTransmits \/ ChipReceives \/ CablePlugs

Spec == Init /\ [][Next]_vars

\* CableTimer is periodic and gets its turn between interrupts, which end.
FairSpec == Spec /\ WF_vars(EndInterrupt) /\ SF_vars(LanceHomeLanLinkMonitor)

-----------------------------------------------------------------------------
(* Properties.                                                             *)

Initialising ==
  {"off", "hardware", "ports", "memory", "rxPool", "interrupt", "phy", "chip", "timers",
   "lock", "InitErr2", "InitErr1", "free", "failed"}
Halted ==
  {"haltQueue", "haltLock", "haltStop", "haltReset", "haltInterrupt", "haltPorts",
   "haltPool", "haltMemory", "haltAdapter", "halted"}

\* Type invariant.
TypeOK ==
  /\ pc \in Initialising \cup Halted \cup {"running"}
  /\ held \subseteq AdapterMemory \cup
       {"adapter", "ports", "rxPool", "interrupt", "lock", "shutdownHandler"}
  /\ chip \in [running : BOOLEAN, iena : BOOLEAN, ints : SUBSET {"rx", "tx"},
                sending : BOOLEAN, mode : {"normal", "promiscuous"}, filter : SUBSET Bin]
  /\ block \in [mode : {"normal", "promiscuous"}, filter : SUBSET Bin]
  /\ currentFilter \in PacketFilter \cup {{}} /\ currentFilter \cap Unsupported = {}
  /\ addresses \subseteq Address
  /\ dpc \in {"idle", "queued", "running"}
  /\ {linkOff, HomeRun, csrRunning, inDpc, queued, deferredTimer, cableTimer, plugged, linkActive,
      cableDisconnected} \subseteq BOOLEAN
  /\ indicated \in {"connected", "disconnected"}

\* What LanceHalt leaves behind may still be called: the lock of the queue is
\* freed while interrupts are enabled, DeferredProcessTimer is never
\* cancelled and the shutdown handler never deregistered.
KnownUses ==
  {<<"LanceDeferredSend", "lock">>, <<"LanceDeferredProcess", "adapter">>}
    \cup ({"LanceShutdownHandler"} \X {"adapter", "ports"})

\* Apart from that no interrupt, timer or request uses a port, a lock, a
\* packet pool or a piece of memory that is not yet there or already given
\* back, at whatever moment of LanceInitialize or LanceHalt it comes
\* (LANCE.C 1683-1801, 3454-3530).
OnlyKnownUses == used \subseteq KnownUses

\* A LanceInitialize that failed, at whichever step, has left nothing behind
\* that can be called or that the next one needs (LANCE.C 1781-1801,
\* 1266-1275): no interrupt, ports, lock, handler or timer, and the chip is
\* not running.  Adapters, map registers, shared memory and packets may be
\* lost.
LeftAfterFailure ==
  pc = "failed" =>
    /\ held \subseteq AdapterMemory \cup {"adapter", "rxPool"}
    /\ ~cableTimer /\ ~deferredTimer /\ ~chip.running /\ dpc = "idle"

\* A running chip lets in what NDIS asked for last, whatever requests,
\* restarts and failed starts came in between: all of it, all multicast
\* addresses, or those of the list (REQUEST.C 1040-1196, 1476-1649).
FilterHeard ==
  chip.running =>
    /\ "promiscuous" \in currentFilter => chip.mode = "promiscuous"
    /\ "all_multicast" \in currentFilter /\ "promiscuous" \notin currentFilter
         => chip.filter = Bin
    /\ "multicast" \in currentFilter /\ chip.mode = "normal"
         => \A a \in addresses : Hash[a] \in chip.filter

\* A halted chip stays stopped, with HomeRun apart: there an interrupt that
\* was queued before finds the chip stopped and starts it again
\* (LANCE.C 3475-3510, interrup.c 960-985).
StoppedWhenHalted == pc = "halted" /\ ~HomeRun => ~chip.running

\* The comment of LanceHalt (LANCE.C:3428): it stops the controller.
HaltStopsController == pc = "halted" => ~chip.running

Watched == pc = "running" /\ cableTimer /\ ~(HomeRun /\ linkOff)

\* While the link is watched NDIS finally knows what the cable is
\* (LANCE.C 4665-4807): what traffic made the driver believe is corrected.
StatusFollowsCable ==
  /\ <>[](Watched /\ plugged) => <>[](indicated = "connected")
  /\ <>[](Watched /\ ~plugged) => <>[](indicated = "disconnected")
=============================================================================
