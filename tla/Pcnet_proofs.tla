---------------------------- MODULE Pcnet_proofs ----------------------------
(* Proofs about the PCnet driver: the life of an adapter, for any addresses,  *)
(* hash and filters and any number of packets and changes of the cable; its   *)
(* descriptor rings, for any sizes and any number of packets and frames; and  *)
(* the pattern memory, for any patterns and sizes.  The three models have no  *)
(* variable in common: they stand side by side here, each with its own        *)
(* specification.                                                             *)
EXTENDS PcnetAdapter, PcnetRings, WakePatterns, SequenceLemmas, FiniteSetTheorems, TLAPS

-----------------------------------------------------------------------------
(* The life of an adapter.                                                    *)

Things == AdapterMemory \cup {"adapter", "ports", "rxPool", "interrupt", "lock", "shutdownHandler"}
Modes  == {"normal", "promiscuous"}
Chips  == [running : BOOLEAN, iena : BOOLEAN, ints : SUBSET {"rx", "tx"}, sending : BOOLEAN,
           mode : Modes, filter : SUBSET Bin]
Blocks == [mode : Modes, filter : SUBSET Bin]

LifeTypes   == /\ pc \in Initialising \cup Halted \cup {"running"}
               /\ held \subseteq Things
               /\ linkOff \in BOOLEAN /\ HomeRun \in BOOLEAN
ChipTypes   == chip \in Chips
FilterTypes == /\ block \in Blocks
               /\ currentFilter \in PacketFilter \cup {{}} /\ currentFilter \cap Unsupported = {}
               /\ addresses \subseteq Address
DpcTypes    == dpc \in {"idle", "queued", "running"} /\ csrRunning \in BOOLEAN /\ inDpc \in BOOLEAN
SendTypes   == queued \in BOOLEAN /\ deferredTimer \in BOOLEAN
CableTypes  == /\ cableTimer \in BOOLEAN /\ plugged \in BOOLEAN
               /\ linkActive \in BOOLEAN /\ cableDisconnected \in BOOLEAN
               /\ indicated \in {"connected", "disconnected"}
Types == LifeTypes /\ ChipTypes /\ FilterTypes /\ DpcTypes /\ SendTypes /\ CableTypes

(* From registering to giving back: the interrupt, the ports, the packets.    *)
WithInterrupt == {"phy", "chip", "timers", "lock", "running", "haltQueue", "haltLock", "haltStop",
                  "haltReset", "haltInterrupt"}
WithPorts == WithInterrupt \cup {"memory", "rxPool", "interrupt", "InitErr2", "InitErr1", "haltPorts"}
WithPool  == WithInterrupt \cup {"interrupt", "InitErr2", "haltPorts", "haltPool"}
WithLock  == {"running", "haltQueue", "haltLock"}
Started   == Halted \cup {"running"}

(* What is there in each state of the initialisation and of the halt.         *)
HeldOK(at, what) ==
    /\ "adapter" \notin what => at \in {"off", "failed", "halted"}
    /\ "ports" \in what <=> at \in WithPorts
    /\ "interrupt" \in what <=> at \in WithInterrupt
    /\ "lock" \in what <=> at \in WithLock
    /\ at \in WithPool => "rxPool" \in what
    /\ at \in WithPool \cup Halted \cup {"rxPool"} => "shared" \in what
    /\ "shutdownHandler" \in what => at \in Started \cup {"lock"}
HeldInv == HeldOK(pc, held)

(* When an interrupt, a timer or a packet may be about, and when the chip is  *)
(* quiet.                                                                     *)
QuietInv ==
    /\ dpc # "idle" => pc \in WithInterrupt
    /\ cableTimer => pc \in {"lock", "running"}
    /\ deferredTimer \/ queued => pc \in Started
    /\ pc \in Initialising \ {"timers", "lock"} => ~chip.running /\ ~chip.iena /\ dpc = "idle"
    /\ pc \in Halted \ {"haltQueue", "haltLock", "haltStop"} /\ ~HomeRun => ~chip.running

(* The chip has the mode and the filter of the initialisation block, and      *)
(* these are what NDIS has asked for, whether the chip runs or not.           *)
FilterInv ==
    /\ chip.mode = block.mode /\ chip.filter = block.filter
    /\ "promiscuous" \in currentFilter => block.mode = "promiscuous"
    /\ "all_multicast" \in currentFilter /\ "promiscuous" \notin currentFilter
          => block.filter = Bin
    /\ "multicast" \in currentFilter /\ block.mode = "normal"
          => \A a \in addresses : Hash[a] \in block.filter

Inv == Types /\ HeldInv /\ QuietInv /\ FilterInv /\ OnlyKnownUses

LEMMA InvInit == Init => Inv
<1> SUFFICES ASSUME Init PROVE Inv
  OBVIOUS
<1> USE DEF Init
<1>1. Types
  BY DEF Types, LifeTypes, ChipTypes, FilterTypes, DpcTypes, SendTypes, CableTypes,
         Initialising, Halted, Chips, Blocks, Modes
<1>2. HeldInv
  BY DEF HeldInv, HeldOK, WithPorts, WithInterrupt, WithPool, WithLock, Halted
<1>3. QuietInv
  BY DEF QuietInv, Initialising, Halted
<1>4. FilterInv
  BY DEF FilterInv
<1>5. OnlyKnownUses
  BY DEF OnlyKnownUses
<1> QED BY <1>1, <1>2, <1>3, <1>4, <1>5 DEF Inv

-----------------------------------------------------------------------------
(* Types are lost only where something changes.                               *)
LEMMA TypesKept ==
  ASSUME Types,
         LifeTypes' \/ UNCHANGED lifeVars,
         ChipTypes' \/ UNCHANGED chip,
         FilterTypes' \/ UNCHANGED filterVars,
         DpcTypes' \/ UNCHANGED dpcVars,
         SendTypes' \/ UNCHANGED sendVars,
         CableTypes' \/ UNCHANGED <<cableTimer, linkVars, cableVars>>
  PROVE  Types'
<1>1. LifeTypes'
  BY DEF Types, LifeTypes, lifeVars
<1>2. ChipTypes'
  BY DEF Types, ChipTypes
<1>3. FilterTypes'
  BY DEF Types, FilterTypes, filterVars
<1>4. DpcTypes'
  BY DEF Types, DpcTypes, dpcVars
<1>5. SendTypes'
  BY DEF Types, SendTypes, sendVars
<1>6. CableTypes'
  BY DEF Types, CableTypes, linkVars, cableVars
<1> QED BY <1>1, <1>2, <1>3, <1>4, <1>5, <1>6 DEF Types

(* The chip is set up or stopped.                                             *)
LEMMA ChipStarted ==
  ASSUME NEW b \in Blocks, NEW idon \in BOOLEAN, inDpc \in BOOLEAN
  PROVE  /\ LanceInit(b, idon) \in Chips
         /\ LanceInit(b, idon).mode = b.mode /\ LanceInit(b, idon).filter = b.filter
BY DEF LanceInit, Chips, Blocks, Modes

LEMMA ChipStopped ==
  ASSUME chip \in Chips
  PROVE  /\ LanceStopChip \in Chips
         /\ ~LanceStopChip.running /\ ~LanceStopChip.iena
         /\ LanceStopChip.mode = chip.mode /\ LanceStopChip.filter = chip.filter
BY DEF LanceStopChip, Chips, Modes

(* A step of the initialisation or the halt that takes or gives back: what    *)
(* holds before holds after it if the two places agree on what is held and on *)
(* what may be about.                                                         *)
Quiet    == Initialising \ {"timers", "lock"}
Stopping == Halted \ {"haltQueue", "haltLock", "haltStop"}

LEMMA ResourcesKeep ==
  ASSUME Inv, NEW from, NEW to \in Initialising \cup Halted \cup {"running"}, NEW now \in SUBSET Things,
         Resources(from, to, now), HeldOK(to, now),
         dpc = "idle" \/ to \in WithInterrupt,
         ~cableTimer \/ to \in {"lock", "running"},
         from \in Started => to \in Started,
         to \in Quiet => from \in Quiet,
         to \in Stopping => from \in Stopping
  PROVE  Inv'
<1> USE DEF Inv, Resources, filterVars, dpcVars, sendVars, linkVars, cableVars
<1>1. Types'
  <2>1. LifeTypes'
    BY DEF Types, LifeTypes
  <2> QED BY <2>1, TypesKept
<1>2. HeldInv'
  BY DEF HeldInv
<1>3. QuietInv'
  BY DEF QuietInv, Quiet, Stopping
<1>4. FilterInv'
  BY DEF FilterInv
<1>5. OnlyKnownUses'
  BY DEF OnlyKnownUses, KnownUses
<1> QED BY <1>1, <1>2, <1>3, <1>4, <1>5

(* The initialisation, step by step and with every failure.                   *)
LEMMA StartingResources ==
  ASSUME Inv,
         \/ LanceInitialize \/ LanceHardwareDetails \/ RegisterIoPortRange
         \/ LanceAllocateAdapterMemory \/ LanceInitRxPacketPool \/ RegisterInterrupt
         \/ AllocateSpinLock \/ InitErr2 \/ InitErr1 \/ FreeAdapter
  PROVE  Inv'
<1> USE DEF HeldInv, HeldOK, WithPorts, WithInterrupt, WithPool, WithLock, Started, Quiet, Stopping,
            Halted, Initialising, Things, AdapterMemory
<1>0. LifeTypes /\ HeldInv /\ QuietInv
  BY DEF Inv, Types
<1>1. CASE LanceInitialize
  <2>1. CASE Resources("off", "failed", {})
    BY <2>1, <1>0, ResourcesKeep DEF QuietInv, Resources, LifeTypes
  <2>2. CASE Resources("off", "failed", {"adapter"})
    BY <2>2, <1>0, ResourcesKeep DEF QuietInv, Resources, LifeTypes
  <2>3. CASE Resources("off", "hardware", {"adapter"})
    BY <2>3, <1>0, ResourcesKeep DEF QuietInv, Resources, LifeTypes
  <2> QED BY <1>1, <2>1, <2>2, <2>3 DEF LanceInitialize
<1>2. CASE LanceHardwareDetails
  <2>1. CASE Resources("hardware", "ports", held)
    BY <2>1, <1>0, ResourcesKeep DEF QuietInv, Resources, LifeTypes
  <2>2. CASE Resources("hardware", "free", held)
    BY <2>2, <1>0, ResourcesKeep DEF QuietInv, Resources, LifeTypes
  <2> QED BY <1>2, <2>1, <2>2 DEF LanceHardwareDetails
<1>3. CASE RegisterIoPortRange
  <2>1. CASE Resources("ports", "memory", held \cup {"ports"})
    BY <2>1, <1>0, ResourcesKeep DEF QuietInv, Resources, LifeTypes
  <2>2. CASE Resources("ports", "free", held)
    BY <2>2, <1>0, ResourcesKeep DEF QuietInv, Resources, LifeTypes
  <2> QED BY <1>3, <2>1, <2>2 DEF RegisterIoPortRange
<1>4. CASE LanceAllocateAdapterMemory
  <2>1. ASSUME NEW got \in {{}, {"mapRegisters"}, {"mapRegisters", "shared"}},
               Resources("memory", "InitErr1", held \cup got)
        PROVE  Inv'
    BY <2>1, <1>0, ResourcesKeep DEF QuietInv, Resources, LifeTypes
  <2>2. CASE Resources("memory", "rxPool", held \cup AdapterMemory)
    BY <2>2, <1>0, ResourcesKeep DEF QuietInv, Resources, LifeTypes
  <2> QED BY <1>4, <2>1, <2>2 DEF LanceAllocateAdapterMemory
<1>5. CASE LanceInitRxPacketPool
  <2>1. CASE Resources("rxPool", "interrupt", held \cup {"rxPool"})
    BY <2>1, <1>0, ResourcesKeep DEF QuietInv, Resources, LifeTypes
  <2>2. CASE Resources("rxPool", "InitErr1", held)
    BY <2>2, <1>0, ResourcesKeep DEF QuietInv, Resources, LifeTypes
  <2> QED BY <1>5, <2>1, <2>2 DEF LanceInitRxPacketPool
<1>6. CASE RegisterInterrupt
  <2>1. CASE Resources("interrupt", "phy", held \cup {"interrupt"})
    BY <2>1, <1>0, ResourcesKeep DEF QuietInv, Resources, LifeTypes
  <2>2. CASE Resources("interrupt", "InitErr2", held)
    BY <2>2, <1>0, ResourcesKeep DEF QuietInv, Resources, LifeTypes
  <2> QED BY <1>6, <2>1, <2>2 DEF RegisterInterrupt
<1>7. CASE AllocateSpinLock
  BY <1>7, <1>0, ResourcesKeep DEF QuietInv, Resources, LifeTypes, AllocateSpinLock
<1>8. CASE InitErr2
  BY <1>8, <1>0, ResourcesKeep DEF QuietInv, Resources, LifeTypes, InitErr2,
     LanceDeleteAdapterMemory
<1>9. CASE InitErr1
  BY <1>9, <1>0, ResourcesKeep DEF QuietInv, Resources, LifeTypes, InitErr1
<1>10. CASE FreeAdapter
  BY <1>10, <1>0, ResourcesKeep DEF QuietInv, Resources, LifeTypes, FreeAdapter
<1> QED BY <1>1, <1>2, <1>3, <1>4, <1>5, <1>6, <1>7, <1>8, <1>9, <1>10

(* The rest of the initialisation.                                            *)
LEMMA LanceHomeLanPortScanKeeps == ASSUME Inv, LanceHomeLanPortScan PROVE Inv'
<1>0. Types /\ HeldInv /\ QuietInv /\ FilterInv /\ OnlyKnownUses
  BY DEF Inv
<1>u. UNCHANGED <<chip, filterVars, dpcVars, sendVars>>
  BY DEF LanceHomeLanPortScan, lifeVars, cableVars, linkVars, sendVars
<1>1. Types'
  <2>1. LifeTypes'
    BY <1>0 DEF LanceHomeLanPortScan, Types, LifeTypes, lifeVars, Initialising
  <2>2. CableTypes'
    BY <1>0 DEF LanceHomeLanPortScan, Types, CableTypes, linkVars, cableVars
  <2> QED BY <1>0, <1>u, <2>1, <2>2, TypesKept
<1>2. HeldInv'
  BY <1>0 DEF LanceHomeLanPortScan, HeldInv, HeldOK, WithPorts, WithInterrupt, WithPool,
     WithLock, Started,
     Halted
<1>3. QuietInv'
  BY <1>0 DEF LanceHomeLanPortScan, QuietInv, WithInterrupt, Started, Halted, Initialising,
     lifeVars, dpcVars, sendVars
<1>4. FilterInv'
  BY <1>0, <1>u DEF FilterInv, filterVars
<1>5. OnlyKnownUses'
  BY <1>0 DEF LanceHomeLanPortScan, OnlyKnownUses, KnownUses
<1> QED BY <1>1, <1>2, <1>3, <1>4, <1>5 DEF Inv

LEMMA StartChipKeeps == ASSUME Inv, StartChip PROVE Inv'
<1>0. Types /\ HeldInv /\ QuietInv /\ FilterInv /\ OnlyKnownUses
  BY DEF Inv
<1>s. chip \in Chips /\ block \in Blocks /\ inDpc \in BOOLEAN
  BY <1>0 DEF Types, ChipTypes, FilterTypes, DpcTypes
<1>c. PICK idon \in BOOLEAN : chip' = LanceInit(block, idon)
  BY DEF StartChip
<1>u. UNCHANGED <<filterVars, dpcVars, sendVars, cableTimer, linkVars, cableVars>>
  BY DEF StartChip, lifeVars, cableVars, linkVars, sendVars
<1>1. Types'
  <2>1. LifeTypes'
    BY <1>0 DEF StartChip, Types, LifeTypes, lifeVars, Initialising
  <2>2. ChipTypes'
    BY <1>0, <1>c, <1>s, ChipStarted DEF StartChip, Types, ChipTypes
  <2> QED BY <1>0, <1>u, <2>1, <2>2, TypesKept
<1>2. HeldInv'
  BY <1>0 DEF StartChip, HeldInv, HeldOK, WithPorts, WithInterrupt, WithPool, WithLock, Started,
     Halted
<1>3. QuietInv'
  BY <1>0 DEF StartChip, QuietInv, WithInterrupt, Started, Halted, Initialising,
     lifeVars, dpcVars, sendVars
<1>4. FilterInv'
  BY <1>0, <1>c, <1>s, ChipStarted DEF StartChip, FilterInv, filterVars
<1>5. OnlyKnownUses'
  BY <1>0 DEF StartChip, OnlyKnownUses, KnownUses
<1> QED BY <1>1, <1>2, <1>3, <1>4, <1>5 DEF Inv

LEMMA StartTimersKeeps == ASSUME Inv, StartTimers PROVE Inv'
<1>0. Types /\ HeldInv /\ QuietInv /\ FilterInv /\ OnlyKnownUses
  BY DEF Inv
<1>u. UNCHANGED <<chip, filterVars, dpcVars, sendVars>>
  BY DEF StartTimers, lifeVars, cableVars, linkVars, sendVars
<1>1. Types'
  <2>1. LifeTypes'
    BY <1>0 DEF StartTimers, Types, LifeTypes, lifeVars, Initialising, Things
  <2>2. CableTypes'
    BY <1>0 DEF StartTimers, Types, CableTypes, linkVars, cableVars
  <2> QED BY <1>0, <1>u, <2>1, <2>2, TypesKept
<1>2. HeldInv'
  BY <1>0 DEF StartTimers, HeldInv, HeldOK, WithPorts, WithInterrupt, WithPool, WithLock,
     Started,
     Halted
<1>3. QuietInv'
  BY <1>0 DEF StartTimers, QuietInv, WithInterrupt, Started, Halted, Initialising,
     lifeVars, dpcVars, sendVars
<1>4. FilterInv'
  BY <1>0, <1>u DEF FilterInv, filterVars
<1>5. OnlyKnownUses'
  BY <1>0 DEF StartTimers, OnlyKnownUses, KnownUses
<1> QED BY <1>1, <1>2, <1>3, <1>4, <1>5 DEF Inv

(* The halt.                                                                  *)
LEMMA HaltCancelsTimerKeeps == ASSUME Inv, HaltCancelsTimer PROVE Inv'
<1>0. Types /\ HeldInv /\ QuietInv /\ FilterInv /\ OnlyKnownUses
  BY DEF Inv
<1>u. UNCHANGED <<chip, filterVars, dpcVars, sendVars>>
  BY DEF HaltCancelsTimer, lifeVars, cableVars, linkVars, sendVars
<1>1. Types'
  <2>1. LifeTypes'
    BY <1>0 DEF HaltCancelsTimer, Types, LifeTypes, lifeVars, Halted
  <2>2. CableTypes'
    BY <1>0 DEF HaltCancelsTimer, Types, CableTypes, linkVars, cableVars
  <2> QED BY <1>0, <1>u, <2>1, <2>2, TypesKept
<1>2. HeldInv'
  BY <1>0 DEF HaltCancelsTimer, HeldInv, HeldOK, WithPorts, WithInterrupt, WithPool,
     WithLock, Started,
     Halted
<1>3. QuietInv'
  BY <1>0 DEF HaltCancelsTimer, QuietInv, WithInterrupt, Started, Halted, Initialising,
     lifeVars, dpcVars, sendVars
<1>4. FilterInv'
  BY <1>0, <1>u DEF FilterInv, filterVars
<1>5. OnlyKnownUses'
  BY <1>0 DEF HaltCancelsTimer, OnlyKnownUses, KnownUses
<1> QED BY <1>1, <1>2, <1>3, <1>4, <1>5 DEF Inv

LEMMA HaltCompletesQueueKeeps == ASSUME Inv, HaltCompletesQueue PROVE Inv'
<1>0. Types /\ HeldInv /\ QuietInv /\ FilterInv /\ OnlyKnownUses
  BY DEF Inv
<1>u. UNCHANGED <<chip, filterVars, dpcVars, cableTimer, linkVars, cableVars>>
  BY DEF HaltCompletesQueue, lifeVars, cableVars, linkVars, sendVars
<1>1. Types'
  <2>1. LifeTypes'
    BY <1>0 DEF HaltCompletesQueue, Types, LifeTypes, lifeVars, Halted
  <2>2. SendTypes'
    BY <1>0 DEF HaltCompletesQueue, Types, SendTypes, sendVars
  <2> QED BY <1>0, <1>u, <2>1, <2>2, TypesKept
<1>2. HeldInv'
  BY <1>0 DEF HaltCompletesQueue, HeldInv, HeldOK, WithPorts, WithInterrupt, WithPool,
     WithLock, Started,
     Halted
<1>3. QuietInv'
  BY <1>0 DEF HaltCompletesQueue, QuietInv, WithInterrupt, Started, Halted, Initialising,
     lifeVars, dpcVars, sendVars
<1>4. FilterInv'
  BY <1>0, <1>u DEF FilterInv, filterVars
<1>5. OnlyKnownUses'
  BY <1>0 DEF HaltCompletesQueue, OnlyKnownUses, KnownUses
<1> QED BY <1>1, <1>2, <1>3, <1>4, <1>5 DEF Inv

LEMMA HaltStopsChipKeeps == ASSUME Inv, HaltStopsChip PROVE Inv'
<1>0. Types /\ HeldInv /\ QuietInv /\ FilterInv /\ OnlyKnownUses
  BY DEF Inv
<1>s. chip \in Chips /\ block \in Blocks /\ inDpc \in BOOLEAN
  BY <1>0 DEF Types, ChipTypes, FilterTypes, DpcTypes
<1>u. UNCHANGED <<filterVars, dpcVars, sendVars, cableTimer, linkVars, cableVars>>
  BY DEF HaltStopsChip, lifeVars, cableVars, linkVars, sendVars
<1>1. Types'
  <2>1. LifeTypes'
    BY <1>0 DEF HaltStopsChip, Types, LifeTypes, lifeVars, Halted
  <2>2. ChipTypes'
    BY <1>0, <1>s, ChipStopped DEF HaltStopsChip, Types, ChipTypes
  <2> QED BY <1>0, <1>u, <2>1, <2>2, TypesKept
<1>2. HeldInv'
  BY <1>0 DEF HaltStopsChip, HeldInv, HeldOK, WithPorts, WithInterrupt, WithPool, WithLock,
     Started,
     Halted
<1>3. QuietInv'
  BY <1>0, <1>s, ChipStopped DEF HaltStopsChip, QuietInv, WithInterrupt, Started, Halted,
     Initialising,
     lifeVars, dpcVars, sendVars
<1>4. FilterInv'
  BY <1>0, <1>s, ChipStopped DEF HaltStopsChip, FilterInv, filterVars
<1>5. OnlyKnownUses'
  BY <1>0 DEF HaltStopsChip, OnlyKnownUses, KnownUses
<1> QED BY <1>1, <1>2, <1>3, <1>4, <1>5 DEF Inv

LEMMA LanceShutdownHandlerKeeps == ASSUME Inv, LanceShutdownHandler PROVE Inv'
<1>0. Types /\ HeldInv /\ QuietInv /\ FilterInv /\ OnlyKnownUses
  BY DEF Inv
<1>s. chip \in Chips /\ block \in Blocks /\ inDpc \in BOOLEAN
  BY <1>0 DEF Types, ChipTypes, FilterTypes, DpcTypes
<1>u. UNCHANGED <<filterVars, dpcVars, sendVars>>
  BY DEF LanceShutdownHandler, lifeVars, cableVars, linkVars, sendVars
<1>1. Types'
  <2>1. LifeTypes'
    BY <1>0 DEF LanceShutdownHandler, Types, LifeTypes, lifeVars
  <2>2. ChipTypes'
    BY <1>0, <1>s, ChipStopped DEF LanceShutdownHandler, Types, ChipTypes
  <2>3. CableTypes'
    BY <1>0 DEF LanceShutdownHandler, Types, CableTypes, linkVars, cableVars
  <2> QED BY <1>0, <1>u, <2>1, <2>2, <2>3, TypesKept
<1>2. HeldInv'
  BY <1>0 DEF LanceShutdownHandler, HeldInv, HeldOK, WithPorts, WithInterrupt, WithPool,
     WithLock, Started,
     Halted
<1>3. QuietInv'
  BY <1>0, <1>s, ChipStopped DEF LanceShutdownHandler, QuietInv, WithInterrupt, Started,
     Halted, Initialising,
     lifeVars, dpcVars, sendVars
<1>4. FilterInv'
  BY <1>0, <1>s, ChipStopped DEF LanceShutdownHandler, FilterInv, filterVars
<1>5. OnlyKnownUses'
  BY <1>0 DEF LanceShutdownHandler, OnlyKnownUses, KnownUses, Missing
<1> QED BY <1>1, <1>2, <1>3, <1>4, <1>5 DEF Inv

LEMMA HaltingResources ==
  ASSUME Inv, HaltFreesLock \/ HaltDeregistersInterrupt \/ HaltFrees
  PROVE  Inv'
<1> USE DEF HeldInv, HeldOK, WithPorts, WithInterrupt, WithPool, WithLock, Started, Quiet, Stopping,
            Halted, Initialising, Things, AdapterMemory
<1>0. LifeTypes /\ HeldInv /\ QuietInv
  BY DEF Inv, Types
<1>1. CASE HaltFreesLock
  BY <1>1, <1>0, ResourcesKeep DEF QuietInv, Resources, LifeTypes, HaltFreesLock
<1>2. CASE HaltDeregistersInterrupt
  BY <1>2, <1>0, ResourcesKeep DEF QuietInv, Resources, LifeTypes, HaltDeregistersInterrupt
<1>3. CASE HaltFrees
  <2>1. CASE Resources("haltPorts", "haltPool", held \ {"ports"})
    BY <2>1, <1>0, ResourcesKeep DEF QuietInv, Resources, LifeTypes
  <2>2. CASE Resources("haltPool", "haltMemory", held \ {"rxPool"})
    BY <2>2, <1>0, ResourcesKeep DEF QuietInv, Resources, LifeTypes
  <2>3. CASE Resources("haltMemory", "haltAdapter", LanceDeleteAdapterMemory(held))
    BY <2>3, <1>0, ResourcesKeep DEF QuietInv, Resources, LifeTypes, LanceDeleteAdapterMemory
  <2>4. CASE Resources("haltAdapter", "halted", held \ {"adapter"})
    BY <2>4, <1>0, ResourcesKeep DEF QuietInv, Resources, LifeTypes
  <2> QED BY <1>3, <2>1, <2>2, <2>3, <2>4 DEF HaltFrees
<1> QED BY <1>1, <1>2, <1>3

(* Requests and sends.                                                        *)
LEMMA LanceResetKeeps == ASSUME Inv, LanceReset PROVE Inv'
<1>0. Types /\ HeldInv /\ QuietInv /\ FilterInv /\ OnlyKnownUses
  BY DEF Inv
<1>s. chip \in Chips /\ block \in Blocks /\ inDpc \in BOOLEAN
  BY <1>0 DEF Types, ChipTypes, FilterTypes, DpcTypes
<1>c. PICK idon \in BOOLEAN : chip' = LanceInit(block, idon)
  BY DEF LanceReset
<1>u. UNCHANGED <<lifeVars, filterVars, dpcVars, cableTimer, linkVars, cableVars>>
  BY DEF LanceReset, lifeVars, cableVars, linkVars, sendVars
<1>1. Types'
  <2>1. ChipTypes'
    BY <1>0, <1>c, <1>s, ChipStarted DEF LanceReset, Types, ChipTypes
  <2>2. SendTypes'
    BY <1>0 DEF LanceReset, Types, SendTypes, sendVars
  <2> QED BY <1>0, <1>u, <2>1, <2>2, TypesKept
<1>2. HeldInv'
  BY <1>0, <1>u DEF HeldInv, lifeVars
<1>3. QuietInv'
  BY <1>0 DEF LanceReset, QuietInv, WithInterrupt, Started, Halted, Initialising,
     lifeVars, dpcVars, sendVars
<1>4. FilterInv'
  BY <1>0, <1>c, <1>s, ChipStarted DEF LanceReset, FilterInv, filterVars
<1>5. OnlyKnownUses'
  BY <1>0 DEF LanceReset, OnlyKnownUses, KnownUses
<1> QED BY <1>1, <1>2, <1>3, <1>4, <1>5 DEF Inv

LEMMA NothingMissing ==
  ASSUME NEW who, NEW needs, "adapter" \in held, needs \subseteq held
  PROVE  Missing(who, needs) = {}
BY DEF Missing

LEMMA DeferredSendTypes ==
  ASSUME NEW expired \in BOOLEAN, queued \in BOOLEAN, LanceDeferredSend(expired)
  PROVE  queued' \in BOOLEAN /\ deferredTimer' \in BOOLEAN /\ (queued' => queued)
BY DEF LanceDeferredSend

LEMMA LanceSendPacketsKeeps == ASSUME Inv, LanceSendPackets PROVE Inv'
<1>0. Types /\ HeldInv /\ QuietInv /\ FilterInv /\ OnlyKnownUses
  BY DEF Inv
<1>s. chip \in Chips /\ block \in Blocks /\ inDpc \in BOOLEAN
  BY <1>0 DEF Types, ChipTypes, FilterTypes, DpcTypes
<1>h. {"adapter", "ports", "shared", "lock"} \subseteq held
  BY <1>0 DEF LanceSendPackets, HeldInv, HeldOK, QuietInv, WithInterrupt, WithPorts,
     WithPool, WithLock,
     Started, Halted, Initialising
<1>c. /\ chip' \in Chips /\ chip'.mode = block.mode /\ chip'.filter = block.filter
      /\ queued' \in BOOLEAN /\ deferredTimer' \in BOOLEAN /\ linkActive' \in BOOLEAN
  <2>1. PICK idon \in BOOLEAN, good \in BOOLEAN, sent \in BOOLEAN :
          LET now == IF HomeRun /\ ~chip.running THEN LanceInit(block, idon) ELSE chip
              waits == HomeRun /\ (queued \/ ~sent)
          IN  /\ IF waits THEN queued' \in BOOLEAN /\ deferredTimer' = TRUE
                          ELSE UNCHANGED <<queued, deferredTimer>>
              /\ linkActive' = (linkActive \/ IF waits THEN ~queued' ELSE sent /\ good)
              /\ chip' = [now EXCEPT !.sending = @ \/ IF waits THEN ~queued' ELSE sent]
    BY DEF LanceSendPackets
  <2> DEFINE now == IF HomeRun /\ ~chip.running THEN LanceInit(block, idon) ELSE chip
             waits == HomeRun /\ (queued \/ ~sent)
  <2>2. now \in Chips /\ now.mode = block.mode /\ now.filter = block.filter
    BY <1>0, <1>s, ChipStarted DEF FilterInv
  <2>3. queued' \in BOOLEAN /\ deferredTimer' \in BOOLEAN
    BY <1>0, <2>1 DEF Types, SendTypes
  <2>4. linkActive' \in BOOLEAN
    BY <1>0, <2>1, <2>3 DEF Types, CableTypes
  <2>5. PICK s \in BOOLEAN : chip' = [now EXCEPT !.sending = s]
    <3>1. now.sending \in BOOLEAN
      BY <2>2 DEF Chips
    <3> QED BY <2>1, <2>3, <3>1
  <2> HIDE DEF now
  <2>6. chip' \in Chips /\ chip'.mode = block.mode /\ chip'.filter = block.filter
    BY <2>2, <2>5 DEF Chips
  <2> QED BY <2>3, <2>4, <2>6
<1>u. UNCHANGED <<lifeVars, filterVars, dpcVars>>
  BY DEF LanceSendPackets, lifeVars, cableVars, linkVars, sendVars
<1>1. Types'
  <2>1. ChipTypes'
    BY <1>0, <1>c DEF LanceSendPackets, Types, ChipTypes
  <2>2. SendTypes'
    BY <1>0, <1>c DEF LanceSendPackets, Types, SendTypes, sendVars
  <2>3. CableTypes'
    BY <1>0, <1>c DEF LanceSendPackets, Types, CableTypes, linkVars, cableVars
  <2> QED BY <1>0, <1>u, <2>1, <2>2, <2>3, TypesKept
<1>2. HeldInv'
  BY <1>0, <1>u DEF HeldInv, lifeVars
<1>3. QuietInv'
  BY <1>0 DEF LanceSendPackets, QuietInv, WithInterrupt, Started, Halted, Initialising,
     lifeVars, dpcVars, sendVars
<1>4. FilterInv'
  BY <1>0, <1>c DEF LanceSendPackets, FilterInv, filterVars
<1>5. OnlyKnownUses'
  BY <1>0, <1>h, NothingMissing DEF LanceSendPackets, OnlyKnownUses, KnownUses
<1> QED BY <1>1, <1>2, <1>3, <1>4, <1>5 DEF Inv

LEMMA LanceDeferredProcessKeeps == ASSUME Inv, LanceDeferredProcess PROVE Inv'
<1>0. Types /\ HeldInv /\ QuietInv /\ FilterInv /\ OnlyKnownUses
  BY DEF Inv
<1>s. chip \in Chips /\ block \in Blocks /\ inDpc \in BOOLEAN
  BY <1>0 DEF Types, ChipTypes, FilterTypes, DpcTypes
<1>u. UNCHANGED <<lifeVars, filterVars, dpcVars>>
  BY DEF LanceDeferredProcess, lifeVars, cableVars, linkVars, sendVars
<1>1. Types'
  <2>1. ChipTypes'
    BY <1>0, <1>s DEF LanceDeferredProcess, Types, ChipTypes, Chips, Sent
  <2>2. SendTypes'
    BY <1>0, DeferredSendTypes DEF LanceDeferredProcess, Types, SendTypes, sendVars
  <2>3. CableTypes'
    BY <1>0, DeferredSendTypes DEF LanceDeferredProcess, Types, CableTypes, linkVars,
       cableVars, Sent, SendTypes
  <2> QED BY <1>0, <1>u, <2>1, <2>2, <2>3, TypesKept
<1>2. HeldInv'
  BY <1>0, <1>u DEF HeldInv, lifeVars
<1>3. QuietInv'
  BY <1>0, <1>s, DeferredSendTypes DEF LanceDeferredProcess, QuietInv, WithInterrupt,
     Started, Halted, Initialising,
     lifeVars, dpcVars, sendVars, Types, SendTypes, Chips
<1>4. FilterInv'
  BY <1>0, <1>s DEF LanceDeferredProcess, FilterInv, filterVars, Chips
<1>5. OnlyKnownUses'
  <2>1. CASE "adapter" \in held
    <3>1. "shared" \in held
      BY <1>0 DEF LanceDeferredProcess, QuietInv, HeldInv, HeldOK, Started, Halted, WithPool,
         WithInterrupt
    <3>2. Missing("LanceDeferredSend", {"lock", "shared"}) \subseteq {<<"LanceDeferredSend", "lock">>}
      BY <2>1, <3>1 DEF Missing
    <3>3. used' = used \cup Missing("LanceDeferredSend", {"lock", "shared"})
      BY <2>1 DEF LanceDeferredProcess
    <3> QED BY <1>0, <3>2, <3>3 DEF OnlyKnownUses, KnownUses
  <2>2. CASE "adapter" \notin held
    <3>1. used' = used \cup Missing("LanceDeferredProcess", {})
      BY <2>2 DEF LanceDeferredProcess
    <3>2. Missing("LanceDeferredProcess", {}) = {<<"LanceDeferredProcess", "adapter">>}
      BY <2>2 DEF Missing
    <3> QED BY <1>0, <3>1, <3>2 DEF OnlyKnownUses, KnownUses
  <2> QED BY <2>1, <2>2
<1> QED BY <1>1, <1>2, <1>3, <1>4, <1>5 DEF Inv

(* Interrupts.                                                                *)
LEMMA LanceISRKeeps == ASSUME Inv, LanceISR PROVE Inv'
<1>0. Types /\ HeldInv /\ QuietInv /\ FilterInv /\ OnlyKnownUses
  BY DEF Inv
<1>s. chip \in Chips /\ block \in Blocks /\ inDpc \in BOOLEAN
  BY <1>0 DEF Types, ChipTypes, FilterTypes, DpcTypes
<1>h. {"adapter", "ports"} \subseteq held
  BY <1>0 DEF LanceISR, HeldInv, HeldOK, QuietInv, WithInterrupt, WithPorts, WithPool, WithLock,
     Started, Halted, Initialising
<1>u. UNCHANGED <<lifeVars, filterVars, sendVars, cableTimer, linkVars, cableVars>>
  BY DEF LanceISR, lifeVars, cableVars, linkVars, sendVars
<1>1. Types'
  <2>1. ChipTypes'
    BY <1>0, <1>s DEF LanceISR, Types, ChipTypes, Chips
  <2>2. DpcTypes'
    BY <1>0 DEF LanceISR, Types, DpcTypes, dpcVars
  <2> QED BY <1>0, <1>u, <2>1, <2>2, TypesKept
<1>2. HeldInv'
  BY <1>0, <1>u DEF HeldInv, lifeVars
<1>3. QuietInv'
  BY <1>0, <1>s DEF LanceISR, QuietInv, WithInterrupt, Started, Halted, Initialising,
     lifeVars, dpcVars, sendVars, Chips, HeldInv, HeldOK
<1>4. FilterInv'
  BY <1>0, <1>s DEF LanceISR, FilterInv, filterVars, Chips
<1>5. OnlyKnownUses'
  BY <1>0, <1>h, NothingMissing DEF LanceISR, OnlyKnownUses, KnownUses
<1> QED BY <1>1, <1>2, <1>3, <1>4, <1>5 DEF Inv

LEMMA LanceHandleInterruptKeeps == ASSUME Inv, LanceHandleInterrupt PROVE Inv'
<1>0. Types /\ HeldInv /\ QuietInv /\ FilterInv /\ OnlyKnownUses
  BY DEF Inv
<1>s. chip \in Chips /\ block \in Blocks /\ inDpc \in BOOLEAN
  BY <1>0 DEF Types, ChipTypes, FilterTypes, DpcTypes
<1>h. {"adapter", "ports", "shared", "rxPool"} \subseteq held
  BY <1>0 DEF LanceHandleInterrupt, HeldInv, HeldOK, QuietInv, WithInterrupt, WithPorts,
     WithPool, WithLock,
     Started, Halted, Initialising
<1>q. /\ chip'.running = chip.running /\ chip'.iena = chip.iena
      /\ deferredTimer' \/ queued' => deferredTimer \/ queued
  <2>1. chip'.running = chip.running /\ chip'.iena = chip.iena
    BY <1>s DEF LanceHandleInterrupt, Chips
  <2>2. \/ UNCHANGED <<queued, deferredTimer>>
        \/ LanceDeferredSend(deferredTimer)
    BY DEF LanceHandleInterrupt
  <2> QED BY <2>1, <2>2 DEF LanceDeferredSend
<1>u. UNCHANGED <<lifeVars, filterVars>>
  BY DEF LanceHandleInterrupt, lifeVars, cableVars, linkVars, sendVars
<1>1. Types'
  <2>1. ChipTypes'
    BY <1>0, <1>s DEF LanceHandleInterrupt, Types, ChipTypes, Chips, Sent
  <2>2. DpcTypes'
    BY <1>0, <1>s DEF LanceHandleInterrupt, Types, DpcTypes, dpcVars, Chips
  <2>3. SendTypes'
    BY <1>0, DeferredSendTypes DEF LanceHandleInterrupt, Types, SendTypes, sendVars
  <2>4. CableTypes'
    BY <1>0, <1>s, DeferredSendTypes DEF LanceHandleInterrupt, Types, CableTypes, linkVars,
       cableVars, Sent, SendTypes, Chips
  <2> QED BY <1>0, <1>u, <2>1, <2>2, <2>3, <2>4, TypesKept
<1>2. HeldInv'
  BY <1>0, <1>u DEF HeldInv, lifeVars
<1>3. QuietInv'
  BY <1>0, <1>q DEF LanceHandleInterrupt, QuietInv, WithInterrupt, Started, Halted,
     Initialising,
     lifeVars, dpcVars, sendVars
<1>4. FilterInv'
  BY <1>0, <1>s DEF LanceHandleInterrupt, FilterInv, filterVars, Chips
<1>5. OnlyKnownUses'
  BY <1>0, <1>h, NothingMissing DEF LanceHandleInterrupt, OnlyKnownUses, KnownUses, Missing
<1> QED BY <1>1, <1>2, <1>3, <1>4, <1>5 DEF Inv

LEMMA EndInterruptKeeps == ASSUME Inv, EndInterrupt PROVE Inv'
<1>0. Types /\ HeldInv /\ QuietInv /\ FilterInv /\ OnlyKnownUses
  BY DEF Inv
<1>s. chip \in Chips /\ block \in Blocks /\ inDpc \in BOOLEAN
  BY <1>0 DEF Types, ChipTypes, FilterTypes, DpcTypes
<1>h. {"adapter", "ports", "shared"} \subseteq held
  BY <1>0 DEF EndInterrupt, HeldInv, HeldOK, QuietInv, WithInterrupt, WithPorts, WithPool,
     WithLock,
     Started, Halted, Initialising
<1>c. /\ chip' \in Chips /\ chip'.mode = block.mode /\ chip'.filter = block.filter
      /\ ~HomeRun => chip'.running = chip.running
  <2>1. PICK idon \in BOOLEAN :
          chip' = [(IF ChipProblem THEN LanceInit(block, idon) ELSE chip) EXCEPT !.iena = TRUE]
    BY DEF EndInterrupt
  <2> DEFINE now == IF ChipProblem THEN LanceInit(block, idon) ELSE chip
  <2>2. /\ now \in Chips /\ now.mode = block.mode /\ now.filter = block.filter
        /\ ~HomeRun => now.running = chip.running
    BY <1>0, <1>s, ChipStarted DEF FilterInv, ChipProblem
  <2>3. chip' = [now EXCEPT !.iena = TRUE]
    BY <2>1
  <2> HIDE DEF now
  <2> QED BY <2>2, <2>3 DEF Chips
<1>u. UNCHANGED <<lifeVars, filterVars, sendVars, cableTimer, linkVars, cableVars>>
  BY DEF EndInterrupt, lifeVars, cableVars, linkVars, sendVars
<1>1. Types'
  <2>1. ChipTypes'
    BY <1>0, <1>c DEF EndInterrupt, Types, ChipTypes
  <2>2. DpcTypes'
    BY <1>0 DEF EndInterrupt, Types, DpcTypes, dpcVars
  <2> QED BY <1>0, <1>u, <2>1, <2>2, TypesKept
<1>2. HeldInv'
  BY <1>0, <1>u DEF HeldInv, lifeVars
<1>3. QuietInv'
  BY <1>0, <1>c DEF EndInterrupt, QuietInv, WithInterrupt, Started, Halted, Initialising,
     lifeVars, dpcVars, sendVars
<1>4. FilterInv'
  BY <1>0, <1>c DEF EndInterrupt, FilterInv, filterVars
<1>5. OnlyKnownUses'
  BY <1>0, <1>h, NothingMissing DEF EndInterrupt, OnlyKnownUses, KnownUses
<1> QED BY <1>1, <1>2, <1>3, <1>4, <1>5 DEF Inv

(* The cable.                                                                 *)
LEMMA LanceHomeLanLinkMonitorKeeps == ASSUME Inv, LanceHomeLanLinkMonitor PROVE Inv'
<1>0. Types /\ HeldInv /\ QuietInv /\ FilterInv /\ OnlyKnownUses
  BY DEF Inv
<1>h. {"adapter", "ports"} \subseteq held
  BY <1>0 DEF LanceHomeLanLinkMonitor, HeldInv, HeldOK, QuietInv, WithInterrupt, WithPorts,
     WithPool, WithLock,
     Started, Halted, Initialising
<1>u. UNCHANGED <<lifeVars, chip, filterVars, dpcVars, sendVars>>
  BY DEF LanceHomeLanLinkMonitor, lifeVars, cableVars, linkVars, sendVars
<1>1. Types'
  <2>1. CableTypes'
    BY <1>0 DEF LanceHomeLanLinkMonitor, Types, CableTypes, linkVars, cableVars
  <2> QED BY <1>0, <1>u, <2>1, TypesKept
<1>2. HeldInv'
  BY <1>0, <1>u DEF HeldInv, lifeVars
<1>3. QuietInv'
  BY <1>0 DEF LanceHomeLanLinkMonitor, QuietInv, WithInterrupt, Started, Halted, Initialising,
     lifeVars, dpcVars, sendVars
<1>4. FilterInv'
  BY <1>0, <1>u DEF FilterInv, filterVars
<1>5. OnlyKnownUses'
  BY <1>0, <1>h, NothingMissing DEF LanceHomeLanLinkMonitor, OnlyKnownUses, KnownUses
<1> QED BY <1>1, <1>2, <1>3, <1>4, <1>5 DEF Inv

LEMMA ChipTransmitsKeeps == ASSUME Inv, ChipTransmits PROVE Inv'
<1>0. Types /\ HeldInv /\ QuietInv /\ FilterInv /\ OnlyKnownUses
  BY DEF Inv
<1>s. chip \in Chips /\ block \in Blocks /\ inDpc \in BOOLEAN
  BY <1>0 DEF Types, ChipTypes, FilterTypes, DpcTypes
<1>u. UNCHANGED <<lifeVars, filterVars, dpcVars, sendVars, cableTimer, linkVars, cableVars>>
  BY DEF ChipTransmits, lifeVars, cableVars, linkVars, sendVars
<1>1. Types'
  <2>1. ChipTypes'
    BY <1>0, <1>s DEF ChipTransmits, Types, ChipTypes, Chips
  <2> QED BY <1>0, <1>u, <2>1, TypesKept
<1>2. HeldInv'
  BY <1>0, <1>u DEF HeldInv, lifeVars
<1>3. QuietInv'
  BY <1>0, <1>s DEF ChipTransmits, QuietInv, WithInterrupt, Started, Halted, Initialising,
     lifeVars, dpcVars, sendVars, Chips
<1>4. FilterInv'
  BY <1>0, <1>s DEF ChipTransmits, FilterInv, filterVars, Chips
<1>5. OnlyKnownUses'
  BY <1>0 DEF ChipTransmits, OnlyKnownUses, KnownUses
<1> QED BY <1>1, <1>2, <1>3, <1>4, <1>5 DEF Inv

LEMMA ChipReceivesKeeps == ASSUME Inv, ChipReceives PROVE Inv'
<1>0. Types /\ HeldInv /\ QuietInv /\ FilterInv /\ OnlyKnownUses
  BY DEF Inv
<1>s. chip \in Chips /\ block \in Blocks /\ inDpc \in BOOLEAN
  BY <1>0 DEF Types, ChipTypes, FilterTypes, DpcTypes
<1>u. UNCHANGED <<lifeVars, filterVars, dpcVars, sendVars, cableTimer, linkVars, cableVars>>
  BY DEF ChipReceives, lifeVars, cableVars, linkVars, sendVars
<1>1. Types'
  <2>1. ChipTypes'
    BY <1>0, <1>s DEF ChipReceives, Types, ChipTypes, Chips
  <2> QED BY <1>0, <1>u, <2>1, TypesKept
<1>2. HeldInv'
  BY <1>0, <1>u DEF HeldInv, lifeVars
<1>3. QuietInv'
  BY <1>0, <1>s DEF ChipReceives, QuietInv, WithInterrupt, Started, Halted, Initialising,
     lifeVars, dpcVars, sendVars, Chips
<1>4. FilterInv'
  BY <1>0, <1>s DEF ChipReceives, FilterInv, filterVars, Chips
<1>5. OnlyKnownUses'
  BY <1>0 DEF ChipReceives, OnlyKnownUses, KnownUses
<1> QED BY <1>1, <1>2, <1>3, <1>4, <1>5 DEF Inv

LEMMA CablePlugsKeeps == ASSUME Inv, CablePlugs PROVE Inv'
<1>0. Types /\ HeldInv /\ QuietInv /\ FilterInv /\ OnlyKnownUses
  BY DEF Inv
<1>u. UNCHANGED <<lifeVars, chip, filterVars, dpcVars, sendVars>>
  BY DEF CablePlugs, lifeVars, cableVars, linkVars, sendVars
<1>1. Types'
  <2>1. CableTypes'
    BY <1>0 DEF CablePlugs, Types, CableTypes, linkVars, cableVars
  <2> QED BY <1>0, <1>u, <2>1, TypesKept
<1>2. HeldInv'
  BY <1>0, <1>u DEF HeldInv, lifeVars
<1>3. QuietInv'
  BY <1>0 DEF CablePlugs, QuietInv, WithInterrupt, Started, Halted, Initialising,
     lifeVars, dpcVars, sendVars
<1>4. FilterInv'
  BY <1>0, <1>u DEF FilterInv, filterVars
<1>5. OnlyKnownUses'
  BY <1>0 DEF CablePlugs, OnlyKnownUses, KnownUses
<1> QED BY <1>1, <1>2, <1>3, <1>4, <1>5 DEF Inv

(* What LanceChangeAddress and LanceChangeClass make of the block.            *)
LEMMA AddressChanged ==
  ASSUME NEW b \in Blocks, addresses' \subseteq Address, HomeRun \in BOOLEAN
  PROVE  /\ LanceChangeAddress(b) \in Blocks
         /\ LanceChangeAddress(b).mode = b.mode
         /\ \A a \in addresses' : Hash[a] \in LanceChangeAddress(b).filter
<1>1. \A a \in addresses' : Hash[a] \in Bin
  BY HashAssumption
<1>2. PICK f \in SUBSET Bin : /\ LanceChangeAddress(b) = [b EXCEPT !.filter = f]
                              /\ \A a \in addresses' : Hash[a] \in f
  <2>1. CASE HomeRun
    BY <2>1, <1>1 DEF LanceChangeAddress
  <2>2. CASE ~HomeRun
    BY <2>2, <1>1 DEF LanceChangeAddress
  <2> QED BY <2>1, <2>2
<1> QED BY <1>2 DEF Blocks

LEMMA ClassChanged ==
  ASSUME block \in Blocks, addresses' \subseteq Address, HomeRun \in BOOLEAN
  PROVE  /\ LanceChangeClass \in Blocks
         /\ "promiscuous" \in currentFilter' => LanceChangeClass.mode = "promiscuous"
         /\ "all_multicast" \in currentFilter' /\ "promiscuous" \notin currentFilter'
               => LanceChangeClass.filter = Bin
         /\ "multicast" \in currentFilter' /\ LanceChangeClass.mode = "normal"
               => \A a \in addresses' : Hash[a] \in LanceChangeClass.filter
<1>0. \A a \in addresses' : Hash[a] \in Bin
  BY HashAssumption
<1> DEFINE b == [block EXCEPT !.mode = "normal"]
<1>1. b \in Blocks /\ [block EXCEPT !.mode = "promiscuous"] \in Blocks
       /\ [block EXCEPT !.mode = "promiscuous"].mode = "promiscuous"
  BY DEF Blocks, Modes
<1>2. [b EXCEPT !.filter = Bin] \in Blocks /\ [b EXCEPT !.filter = Bin].filter = Bin
  BY <1>1 DEF Blocks
<1>3. CASE "promiscuous" \in currentFilter'
  BY <1>3, <1>1 DEF LanceChangeClass
<1>4. CASE "promiscuous" \notin currentFilter' /\ "all_multicast" \in currentFilter'
  BY <1>4, <1>0, <1>2 DEF LanceChangeClass
<1>5. CASE "promiscuous" \notin currentFilter' /\ "all_multicast" \notin currentFilter'
  BY <1>5, <1>1, AddressChanged DEF LanceChangeClass
<1> QED BY <1>3, <1>4, <1>5

(* The requests for multicast addresses and for the packet filter.            *)
LEMMA SetMulticastListKeeps == ASSUME Inv, NEW list \in SUBSET Address, SetMulticastList(list) PROVE Inv'
<1>0. Types /\ HeldInv /\ QuietInv /\ FilterInv /\ OnlyKnownUses
  BY DEF Inv
<1>s. chip \in Chips /\ block \in Blocks /\ inDpc \in BOOLEAN
  BY <1>0 DEF Types, ChipTypes, FilterTypes, DpcTypes
<1>c. /\ addresses' = list /\ currentFilter' = currentFilter
      /\ chip' \in Chips /\ block' \in Blocks
      /\ chip'.mode = block'.mode /\ chip'.filter = block'.filter
      /\ "promiscuous" \in currentFilter => block' = block
      /\ "all_multicast" \in currentFilter => block' = block
      /\ currentFilter \cap {"all_multicast", "promiscuous"} = {}
            => \A a \in list : Hash[a] \in block'.filter
  <2>0. addresses' = list /\ currentFilter' = currentFilter
    BY DEF SetMulticastList
  <2>1. CASE currentFilter \cap {"all_multicast", "promiscuous"} # {}
    <3>1. block' = block /\ chip' = chip
      BY <2>1 DEF SetMulticastList
    <3> QED BY <3>1, <2>0, <2>1, <1>0, <1>s DEF FilterInv
  <2>2. CASE currentFilter \cap {"all_multicast", "promiscuous"} = {}
    <3>1. block' = LanceChangeAddress(block)
      BY <2>2 DEF SetMulticastList
    <3>2. PICK idon \in BOOLEAN : chip' = LanceInit(block', idon)
      BY <2>2 DEF SetMulticastList
    <3>3. block' \in Blocks /\ \A a \in list : Hash[a] \in block'.filter
      BY <3>1, <2>0, <1>0, <1>s, AddressChanged DEF Types, LifeTypes
    <3> QED BY <3>2, <3>3, <2>0, <2>2, <1>s, ChipStarted
  <2> QED BY <2>1, <2>2
<1>a. \A a \in list : Hash[a] \in Bin
  BY HashAssumption
<1>u. UNCHANGED <<lifeVars, dpcVars, sendVars, cableTimer, linkVars, cableVars>>
  BY DEF SetMulticastList, lifeVars, cableVars, linkVars, sendVars
<1>1. Types'
  <2>1. ChipTypes'
    BY <1>0, <1>c DEF SetMulticastList, Types, ChipTypes
  <2>2. FilterTypes'
    BY <1>0, <1>c DEF SetMulticastList, Types, FilterTypes, filterVars
  <2> QED BY <1>0, <1>u, <2>1, <2>2, TypesKept
<1>2. HeldInv'
  BY <1>0, <1>u DEF HeldInv, lifeVars
<1>3. QuietInv'
  BY <1>0 DEF SetMulticastList, QuietInv, WithInterrupt, Started, Halted, Initialising,
     lifeVars, dpcVars, sendVars
<1>4. FilterInv'
  BY <1>0, <1>c, <1>a DEF SetMulticastList, FilterInv, filterVars
<1>5. OnlyKnownUses'
  BY <1>0 DEF SetMulticastList, OnlyKnownUses, KnownUses
<1> QED BY <1>1, <1>2, <1>3, <1>4, <1>5 DEF Inv

LEMMA SetPacketFilterKeeps == ASSUME Inv, NEW filter \in PacketFilter, SetPacketFilter(filter) PROVE Inv'
<1>0. Types /\ HeldInv /\ QuietInv /\ FilterInv /\ OnlyKnownUses
  BY DEF Inv
<1>s. chip \in Chips /\ block \in Blocks /\ inDpc \in BOOLEAN
  BY <1>0 DEF Types, ChipTypes, FilterTypes, DpcTypes
<1>c. /\ block' = LanceChangeClass /\ block' \in Blocks /\ addresses' = addresses
      /\ chip' \in Chips /\ chip'.mode = block'.mode /\ chip'.filter = block'.filter
      /\ "promiscuous" \in currentFilter' => block'.mode = "promiscuous"
      /\ "all_multicast" \in currentFilter' /\ "promiscuous" \notin currentFilter'
            => block'.filter = Bin
      /\ "multicast" \in currentFilter' /\ block'.mode = "normal"
            => \A a \in addresses' : Hash[a] \in block'.filter
  <2>1. block' = LanceChangeClass /\ addresses' = addresses
    BY DEF SetPacketFilter
  <2>2. PICK idon \in BOOLEAN : chip' = LanceInit(block', idon)
    BY DEF SetPacketFilter
  <2>3. block' \in Blocks
    BY <2>1, <1>0, <1>s, ClassChanged DEF Types, LifeTypes, FilterTypes
  <2>4. chip' \in Chips /\ chip'.mode = block'.mode /\ chip'.filter = block'.filter
    BY <2>2, <2>3, <1>s, ChipStarted
  <2> QED BY <2>1, <2>3, <2>4, <1>0, <1>s, ClassChanged DEF Types, LifeTypes, FilterTypes
<1>u. UNCHANGED <<lifeVars, dpcVars, sendVars, cableTimer, linkVars, cableVars>>
  BY DEF SetPacketFilter, lifeVars, cableVars, linkVars, sendVars
<1>1. Types'
  <2>1. ChipTypes'
    BY <1>0, <1>c DEF SetPacketFilter, Types, ChipTypes
  <2>2. FilterTypes'
    BY <1>0, <1>c DEF SetPacketFilter, Types, FilterTypes, filterVars
  <2> QED BY <1>0, <1>u, <2>1, <2>2, TypesKept
<1>2. HeldInv'
  BY <1>0, <1>u DEF HeldInv, lifeVars
<1>3. QuietInv'
  BY <1>0 DEF SetPacketFilter, QuietInv, WithInterrupt, Started, Halted, Initialising,
     lifeVars, dpcVars, sendVars
<1>4. FilterInv'
  BY <1>0, <1>c DEF SetPacketFilter, FilterInv, filterVars
<1>5. OnlyKnownUses'
  BY <1>0 DEF SetPacketFilter, OnlyKnownUses, KnownUses
<1> QED BY <1>1, <1>2, <1>3, <1>4, <1>5 DEF Inv

-----------------------------------------------------------------------------
LEMMA InvStep == Inv /\ [Next]_vars => Inv'
<1> SUFFICES ASSUME Inv, [Next]_vars PROVE Inv'
  OBVIOUS
<1>1. CASE Starting
  BY <1>1, StartingResources, LanceHomeLanPortScanKeeps, StartChipKeeps,
     StartTimersKeeps DEF Starting
<1>2. CASE Halting
  BY <1>2, HaltingResources, HaltCancelsTimerKeeps, HaltCompletesQueueKeeps, HaltStopsChipKeeps,
     LanceShutdownHandlerKeeps DEF Halting
<1>3. CASE Serving
  BY <1>3, SetMulticastListKeeps, SetPacketFilterKeeps, LanceResetKeeps, LanceSendPacketsKeeps,
     LanceDeferredProcessKeeps, LanceHomeLanLinkMonitorKeeps, LanceISRKeeps,
     LanceHandleInterruptKeeps, EndInterruptKeeps DEF Serving
<1>4. CASE ChipTransmits \/ ChipReceives \/ CablePlugs
  BY <1>4, ChipTransmitsKeeps, ChipReceivesKeeps, CablePlugsKeeps
<1>5. CASE UNCHANGED vars
  <2>1. Types /\ HeldInv /\ QuietInv /\ FilterInv /\ OnlyKnownUses
    BY DEF Inv
  <2>2. Types'
    BY <1>5, <2>1, TypesKept DEF vars
  <2> QED BY <1>5, <2>1, <2>2 DEF vars, lifeVars, filterVars, dpcVars, sendVars, Inv,
     HeldInv, QuietInv,
        FilterInv, OnlyKnownUses, KnownUses
<1> QED BY <1>1, <1>2, <1>3, <1>4, <1>5 DEF Next

(* However the calls, interrupts, timers and failures of an adapter follow    *)
(* one another, its variables have their types, what is held is what the      *)
(* place in LanceInitialize or LanceHalt says, interrupts and timers are      *)
(* about only while what they need is there, and the chip has the filter NDIS *)
(* asked for.                                                                 *)
THEOREM AdapterInvariant == Spec => []Inv
<1>1. Init => Inv
  BY InvInit
<1>2. Inv /\ [Next]_vars => Inv'
  BY InvStep
<1> QED BY <1>1, <1>2, PTL DEF Spec

(* No interrupt, timer or request uses what is not there, at whatever moment  *)
(* it comes, but for the known uses after LanceHalt.                          *)
THEOREM NothingElseUsed == Spec => []OnlyKnownUses
<1>1. Inv => OnlyKnownUses
  BY DEF Inv
<1> QED BY <1>1, AdapterInvariant, PTL

(* A LanceInitialize that fails anywhere leaves nothing that can be called.   *)
THEOREM FailureCleansUp == Spec => []LeftAfterFailure
<1>1. Inv => LeftAfterFailure
  <2> SUFFICES ASSUME Inv, pc = "failed"
      PROVE  /\ held \subseteq AdapterMemory \cup {"adapter", "rxPool"}
             /\ ~cableTimer /\ ~deferredTimer /\ ~chip.running /\ dpc = "idle"
    BY DEF LeftAfterFailure
  <2>1. "ports" \notin held /\ "interrupt" \notin held /\ "lock" \notin held
         /\ "shutdownHandler" \notin held
    BY DEF Inv, HeldInv, HeldOK, WithPorts, WithInterrupt, WithLock, Started, Halted
  <2>2. held \subseteq Things
    BY DEF Inv, Types, LifeTypes
  <2>3. ~cableTimer /\ ~deferredTimer /\ ~chip.running /\ dpc = "idle"
    BY DEF Inv, QuietInv, Started, Halted, Initialising
  <2> QED BY <2>1, <2>2, <2>3 DEF Things
<1> QED BY <1>1, AdapterInvariant, PTL

(* A running chip lets in what NDIS asked for last, whatever requests,        *)
(* restarts and failed starts came in between.                                *)
THEOREM FilterKept == Spec => []FilterHeard
<1>1. Inv => FilterHeard
  BY DEF Inv, FilterInv, FilterHeard
<1> QED BY <1>1, AdapterInvariant, PTL

(* A halted chip is stopped, unless its PHY is HomeRun.                       *)
THEOREM HaltStops == Spec => []StoppedWhenHalted
<1>1. Inv => StoppedWhenHalted
  BY DEF Inv, QuietInv, StoppedWhenHalted, Halted
<1> QED BY <1>1, AdapterInvariant, PTL

-----------------------------------------------------------------------------
(* The descriptor rings.                                                      *)
(* The place j further than c in a ring of N descriptors.                     *)
Place(c, j, N) == IF c + j < N THEN c + j ELSE c + j - N

Cards == [tx : [0 .. NT - 1 -> Nat], txNext : 0 .. NT - 1, txCard : 0 .. NT - 1,
          rx : [0 .. NR - 1 -> Int], rxNext : 0 .. NR - 1, rxCard : 0 .. NR - 1,
          ints : SUBSET {"RINT", "MISS", "TINT"}, running : BOOLEAN, iena : BOOLEAN]

Receiving == {"rx", "up", "clear", "last"}
Handlers == Receiving \cup {"idle", "queued", "tx", "deferred", "txclear", "end"}

(* What waits to be sent, and the receive loop.                               *)
QueueTypes ==
    /\ homerun \in BOOLEAN /\ given \in Nat /\ wire \in 0 .. given
    /\ txQueue \in Seq(1 .. given) /\ refused \in Seq(1 .. given)
    /\ homerun => refused = <<>>
    /\ ~homerun => txQueue = <<>>

LoopTypes ==
    /\ handler \in Handlers /\ overtaken \in BOOLEAN
    /\ cur \in [at : 0 .. NR - 1, frame : Int]
    /\ pktArray \in Seq(0 .. NR - 1) /\ Len(pktArray) <= Watermark
    /\ handler \in {"up", "last"} => pktArray # <<>>
    /\ lastIndicated \in Int /\ arrived \in Nat /\ bad \in Nat

RingTypes == nic \in Cards /\ QueueTypes /\ LoopTypes

(* Interrupts are off exactly while they are handled.                         *)
MaskInv == /\ handler = "idle" <=> "IN_DPC" \notin flags
           /\ NotDeaf

(* The packets v are what the transmit ring holds, from the card's place on.  *)
RingHolds(n, v) ==
    /\ Len(v) <= NT
    /\ n.txNext = Place(n.txCard, Len(v), NT)
    /\ \A j \in 0 .. NT - 1 :
          n.tx[Place(n.txCard, j, NT)] = IF j < Len(v) THEN v[j + 1] ELSE 0

(* What was transmitted last, the ring, and what waits are in order.          *)
InOrder(n, w, q, g) ==
    \E v \in Seq(1 .. g) : RingHolds(n, v) /\ Increasing(<<w>> \o v \o q)

Waits == IF homerun THEN txQueue ELSE refused
SendInv == InOrder(nic, wire, Waits, given)

Magnitude(x) == IF x < 0 THEN -x ELSE x

(* The receive ring from the driver's place on: m frames that it has not seen *)
(* and then nothing but the frames in h, which are in the last s descriptors. *)
Frames(n, h, m, s) ==
    LET at(j) == Place(n.rxNext, j, NR)
    IN  /\ s + m <= NR
        /\ n.rxCard = at(m)
        /\ \A j \in 0 .. m - 1 : n.rx[at(j)] # 0
        /\ \A j \in m .. NR - 1 : n.rx[at(j)] # 0 => \E k \in 1 .. Len(h) : h[k] = at(j)
        /\ \A k \in 1 .. Len(h) : n.rx[h[k]] > 0 /\ \E d \in 1 .. s : h[k] = at(NR - d)
        /\ s > 0 => Len(h) > 0 /\ h[1] = at(NR - s)

(* They came in the order of the ring, after the last that was indicated.     *)
Newer(n, h, m, last, come) ==
    LET frame(j) == Magnitude(n.rx[Place(n.rxNext, j, NR)])
    IN  /\ \A j \in 0 .. m - 1 : last < frame(j) /\ frame(j) <= come
        /\ \A i, j \in 0 .. m - 1 : i < j => frame(i) < frame(j)
        /\ \A k \in 1 .. Len(h) : n.rx[h[k]] <= come
                                  /\ \A j \in 0 .. m - 1 : n.rx[h[k]] < frame(j)
        /\ \A j, k \in 1 .. Len(h) : j < k => n.rx[h[j]] < n.rx[h[k]]
        /\ last <= come

RingReceives(n, h, m, s, last, come) == Frames(n, h, m, s) /\ Newer(n, h, m, last, come)

(* What the driver and the card do to the receive ring: a frame comes into the *)
(* card's descriptor, the loop takes the next one, those in h are given back.  *)
FrameComes(n, k, come) ==
    \E f \in {come + 1, -(come + 1)} :
       /\ k.rx = [n.rx EXCEPT ![n.rxCard] = f]
       /\ k.rxCard = NextRx(n.rxCard) /\ k.rxNext = n.rxNext

FrameTaken(n, h, k, h2) ==
    /\ k.rx = [n.rx EXCEPT ![n.rxNext] = IF n.rx[n.rxNext] < 0 THEN 0 ELSE @]
    /\ k.rxNext = NextRx(n.rxNext) /\ k.rxCard = n.rxCard
    /\ h2 = IF n.rx[n.rxNext] < 0 THEN h ELSE Append(h, n.rxNext)

FramesReturned(n, h, k) ==
    /\ k.rx = [i \in 0 .. NR - 1 |-> IF \E j \in DOMAIN h : h[j] = i THEN 0 ELSE n.rx[i]]
    /\ k.rxNext = n.rxNext /\ k.rxCard = n.rxCard

ReceiveInv ==
    ~overtaken =>
        /\ handler \notin Receiving => pktArray = <<>>
        /\ \E m, s \in 0 .. NR :
              /\ RingReceives(nic, pktArray, m, s, lastIndicated, arrived)
              /\ handler \in {"rx", "clear"} =>
                    \A k \in 1 .. Len(pktArray) : lastIndicated < nic.rx[pktArray[k]]
              /\ handler = "up" =>
                    m > 0 /\ cur = [at |-> nic.rxNext, frame |-> nic.rx[nic.rxNext]]
-----------------------------------------------------------------------------
(* The index of a ring descriptor, which the code takes modulo the size.      *)
LEMMA Modulo ==
  ASSUME NEW N \in Nat \ {0}, NEW a \in Int
  PROVE  /\ 0 <= a /\ a < N => a % N = a
         /\ N <= a /\ a < N + N => a % N = a - N
         /\ -N <= a /\ a < 0 => a % N = a + N
<1>1. PICK q \in Int, r \in 0..(N - 1) : a % N = r /\ a = N * q + r
  <2>1. a % N \in 0..(N - 1) /\ a \div N \in Int
    OBVIOUS
  <2>2. a = N * (a \div N) + (a % N)
    OBVIOUS
  <2> QED BY <2>1, <2>2
<1>2. q >= 2 => N * q >= N + N
  OBVIOUS
<1>3. q <= -2 => N * q <= -N - N
  OBVIOUS
<1>4. /\ q = 1 => N * q = N
      /\ q = 0 => N * q = 0
      /\ q = -1 => N * q = -N
  OBVIOUS
<1>5. q >= 2 \/ q = 1 \/ q = 0 \/ q = -1 \/ q <= -2
  OBVIOUS
<1> QED BY <1>1, <1>2, <1>3, <1>4, <1>5

LEMMA PlaceProps ==
  ASSUME NEW N \in Nat \ {0}, NEW c \in 0..(N - 1)
  PROVE  /\ \A j \in 0..N : /\ Place(c, j, N) \in 0..(N - 1)
                            /\ (c + j) % N = Place(c, j, N)
                            /\ c + j < N => Place(c, j, N) = c + j
                            /\ c + j >= N => Place(c, j, N) = c + j - N
         /\ \A i, j \in 0..(N - 1) : Place(c, i, N) = Place(c, j, N) => i = j
         /\ \A i \in 0..(N - 1) : /\ (i - c) % N \in 0..(N - 1)
                                  /\ Place(c, (i - c) % N, N) = i
         /\ Place(c, 0, N) = c /\ Place(c, N, N) = c
         /\ (c + 1) % N = Place(c, 1, N)
         /\ \A i, j \in 0..N : i + j <= N => Place(Place(c, i, N), j, N) = Place(c, i + j, N)
<1>1. ASSUME NEW j \in 0..N
      PROVE  /\ Place(c, j, N) \in 0..(N - 1)
             /\ (c + j) % N = Place(c, j, N)
             /\ c + j < N => Place(c, j, N) = c + j
             /\ c + j >= N => Place(c, j, N) = c + j - N
  <2>1. PICK x \in Int : x = c + j
    OBVIOUS
  <2>0. 0 <= x /\ x < N + N
    BY <2>1
  <2>2. x < N => x % N = x
    BY <2>0, Modulo
  <2>3. x >= N => x % N = x - N
    BY <2>0, Modulo
  <2> QED BY <2>1, <2>2, <2>3 DEF Place
<1>2. ASSUME NEW i \in 0..(N - 1)
      PROVE  /\ (i - c) % N \in 0..(N - 1)
             /\ Place(c, (i - c) % N, N) = i
  <2>1. PICK x \in Int : x = i - c
    OBVIOUS
  <2>2. x >= 0 => x % N = x
    BY <2>1, Modulo
  <2>3. x < 0 => x % N = x + N
    BY <2>1, Modulo
  <2>4. CASE x >= 0
    BY <2>1, <2>2, <2>4 DEF Place
  <2>5. CASE x < 0
    BY <2>1, <2>3, <2>5 DEF Place
  <2> QED BY <2>1, <2>4, <2>5
<1>3. \A i, j \in 0..(N - 1) : Place(c, i, N) = Place(c, j, N) => i = j
  BY DEF Place
<1>4. Place(c, 0, N) = c /\ Place(c, N, N) = c
  BY DEF Place
<1>5. \A i, j \in 0..N : i + j <= N => Place(Place(c, i, N), j, N) = Place(c, i + j, N)
  BY DEF Place
<1>6. (c + 1) % N = Place(c, 1, N)
  <2>1. 1 \in 0..N
    OBVIOUS
  <2> QED BY <1>1, <2>1
<1> QED BY <1>1, <1>2, <1>3, <1>4, <1>5, <1>6

LEMMA PlaceInjective ==
  ASSUME NEW N \in Nat \ {0}, NEW c \in 0..(N - 1), NEW i \in 0..(N - 1), NEW j \in 0..(N - 1),
         Place(c, i, N) = Place(c, j, N)
  PROVE  i = j
BY DEF Place

LEMMA PlaceIn ==
  ASSUME NEW N \in Nat \ {0}, NEW c \in 0..(N - 1), NEW j \in 0..N
  PROVE  Place(c, j, N) \in 0..(N - 1) /\ (c + j) % N = Place(c, j, N)
BY PlaceProps

LEMMA PlaceOnto ==
  ASSUME NEW N \in Nat \ {0}, NEW c \in 0..(N - 1), NEW i \in 0..(N - 1)
  PROVE  \E j \in 0..(N - 1) : Place(c, j, N) = i
BY PlaceProps

LEMMA PlaceEnds ==
  ASSUME NEW N \in Nat \ {0}, NEW c \in 0..(N - 1)
  PROVE  Place(c, 0, N) = c /\ Place(c, N, N) = c
BY DEF Place

LEMMA PlaceSum ==
  ASSUME NEW N \in Nat \ {0}, NEW c \in 0..(N - 1), NEW i \in 0..N, NEW j \in 0..N, i + j <= N
  PROVE  Place(Place(c, i, N), j, N) = Place(c, i + j, N)
BY DEF Place

LEMMA IntConcat ==
  ASSUME NEW s \in Seq(Int), NEW t \in Seq(Int), NEW u \in Seq(Int)
  PROVE  (s \o t) \o u = s \o (t \o u)
BY ConcatAssociative

(* Two sequences behind each other are in order if both are and the first     *)
(* comes before the second.                                                   *)
LEMMA IncreasingConcat ==
  ASSUME NEW s \in Seq(Int), NEW t \in Seq(Int)
  PROVE  Increasing(s \o t) <=> /\ Increasing(s) /\ Increasing(t)
                                /\ \A i \in 1..Len(s), j \in 1..Len(t) : s[i] < t[j]
<1> DEFINE m == Len(s)
           n == Len(t)
           u == s \o t
<1>1. /\ m \in Nat /\ n \in Nat /\ DOMAIN s = 1..m /\ DOMAIN t = 1..n
      /\ \A i \in 1..m : s[i] \in Int
      /\ \A i \in 1..n : t[i] \in Int
  BY ElementOfSeq, LenProperties
<1>2. /\ DOMAIN u = 1..(m + n)
      /\ \A i \in 1..(m + n) : u[i] = IF i <= m THEN s[i] ELSE t[i - m]
  BY ConcatProperties, LenProperties
<1> HIDE DEF m, n, u
<1>3. ASSUME Increasing(u)
      PROVE  Increasing(s) /\ Increasing(t) /\ \A i \in 1..m, j \in 1..n : s[i] < t[j]
  <2>1. \A i, j \in 1..(m + n) : i < j => u[i] < u[j]
    BY <1>2, <1>3 DEF Increasing
  <2>2. \A i \in 1..m : i \in 1..(m + n) /\ u[i] = s[i]
    BY <1>1, <1>2
  <2>3. ASSUME NEW j \in 1..n PROVE m + j \in 1..(m + n) /\ u[m + j] = t[j]
    <3>1. m + j \in 1..(m + n) /\ ~(m + j <= m) /\ (m + j) - m = j
      BY <1>1
    <3> QED BY <1>2, <3>1
  <2>4. \A i, j \in 1..m : i < j => s[i] < s[j]
    BY <2>1, <2>2
  <2>5. ASSUME NEW i \in 1..n, NEW j \in 1..n, i < j PROVE t[i] < t[j]
    <3>1. m + i < m + j
      BY <1>1, <2>5
    <3> QED BY <2>1, <2>3, <3>1
  <2>6. ASSUME NEW i \in 1..m, NEW j \in 1..n PROVE s[i] < t[j]
    <3>1. i < m + j
      BY <1>1
    <3> QED BY <2>1, <2>2, <2>3, <3>1
  <2> QED BY <1>1, <2>4, <2>5, <2>6 DEF Increasing
<1>4. ASSUME Increasing(s), Increasing(t), \A i \in 1..m, j \in 1..n : s[i] < t[j]
      PROVE  Increasing(u)
  <2>1. \A i, j \in 1..m : i < j => s[i] < s[j]
    BY <1>1, <1>4 DEF Increasing
  <2>2. \A i, j \in 1..n : i < j => t[i] < t[j]
    BY <1>1, <1>4 DEF Increasing
  <2>3. ASSUME NEW i \in 1..(m + n), NEW j \in 1..(m + n), i < j PROVE u[i] < u[j]
    <3>1. CASE j <= m
      <4>1. i \in 1..m /\ j \in 1..m
        BY <1>1, <2>3, <3>1
      <4> QED BY <1>2, <2>1, <2>3, <3>1, <4>1
    <3>2. CASE i <= m /\ j > m
      <4>1. i \in 1..m /\ j - m \in 1..n
        BY <1>1, <3>2
      <4> QED BY <1>1, <1>2, <1>4, <3>2, <4>1
    <3>3. CASE i > m
      <4>1. i - m \in 1..n /\ j - m \in 1..n /\ i - m < j - m /\ ~(i <= m) /\ ~(j <= m)
        BY <1>1, <2>3, <3>3
      <4> QED BY <1>2, <2>2, <4>1
    <3> QED BY <1>1, <2>3, <3>1, <3>2, <3>3
  <2> QED BY <1>2, <2>3 DEF Increasing
<1> QED BY <1>3, <1>4 DEF m, n, u

(* What stays in order when a part in the middle is taken out.                *)
LEMMA IncreasingDrop ==
  ASSUME NEW s \in Seq(Int), NEW t \in Seq(Int), NEW u \in Seq(Int), Increasing(s \o t \o u)
  PROVE  Increasing(s \o u) /\ Increasing(s \o t) /\ Increasing(t \o u)
<1>1. /\ s \o t \in Seq(Int) /\ Len(s \o t) = Len(s) + Len(t)
      /\ \A i \in 1..(Len(s) + Len(t)) :
            (s \o t)[i] = IF i <= Len(s) THEN s[i] ELSE t[i - Len(s)]
      /\ Len(s) \in Nat /\ Len(t) \in Nat
  BY ConcatProperties, LenProperties
<1>2. /\ Increasing(s \o t) /\ Increasing(u)
      /\ \A i \in 1..Len(s \o t), j \in 1..Len(u) : (s \o t)[i] < u[j]
  BY <1>1, IncreasingConcat
<1>3. Increasing(s) /\ Increasing(t)
  BY <1>2, IncreasingConcat
<1>4. \A i \in 1..Len(s) : i \in 1..Len(s \o t) /\ (s \o t)[i] = s[i]
  BY <1>1
<1>5. ASSUME NEW i \in 1..Len(t)
      PROVE  Len(s) + i \in 1..Len(s \o t) /\ (s \o t)[Len(s) + i] = t[i]
  <2>1. Len(s) + i \in 1..(Len(s) + Len(t)) /\ ~(Len(s) + i <= Len(s)) /\ Len(s) + i - Len(s) = i
    BY <1>1
  <2> QED BY <1>1, <2>1
<1>6. \A i \in 1..Len(s), j \in 1..Len(u) : s[i] < u[j]
  BY <1>2, <1>4
<1>7. \A i \in 1..Len(t), j \in 1..Len(u) : t[i] < u[j]
  BY <1>2, <1>5
<1> QED BY <1>2, <1>3, <1>6, <1>7, IncreasingConcat

-----------------------------------------------------------------------------
(* What the operations on the card do to the rings.                           *)
LEMMA RestartProps ==
  ASSUME NEW n \in Cards, NEW ok \in BOOLEAN
  PROVE  LET r == RestartCard(n, ok)
         IN  /\ r \in Cards
             /\ r.tx = [i \in 0 .. NT - 1 |-> 0] /\ r.txNext = 0 /\ r.txCard = 0
             /\ r.rx = [i \in 0 .. NR - 1 |-> 0] /\ r.rxNext = 0 /\ r.rxCard = 0
             /\ r.running = ok /\ r.iena = (ok /\ StartWithInterrupts)
<1>1. 0 \in 0 .. NT - 1 /\ 0 \in 0 .. NR - 1
  BY RingsAssumption
<1> DEFINE c == StopCard(n)
           s == LanceSetupRegistersAndInit(c)
           r == LanceStartChip(s, ok)
<1>6. c \in Cards
  BY DEF StopCard, Cards
<1> HIDE DEF c
<1>2. /\ s \in Cards
      /\ s.tx = [i \in 0 .. NT - 1 |-> 0] /\ s.txNext = 0 /\ s.txCard = 0
      /\ s.rx = [i \in 0 .. NR - 1 |-> 0] /\ s.rxNext = 0 /\ s.rxCard = 0
  <2> DEFINE tx == [i \in 0 .. NT - 1 |-> 0]
             rx == [i \in 0 .. NR - 1 |-> 0]
  <2>1. tx \in [0 .. NT - 1 -> Nat] /\ rx \in [0 .. NR - 1 -> Int]
    OBVIOUS
  <2>2. s = [c EXCEPT !.tx = tx, !.txNext = 0, !.txCard = 0, !.rx = rx, !.rxNext = 0, !.rxCard = 0]
    BY DEF LanceSetupRegistersAndInit
  <2> HIDE DEF tx, rx, s
  <2>3. /\ s \in Cards
        /\ s.tx = tx /\ s.txNext = 0 /\ s.txCard = 0
        /\ s.rx = rx /\ s.rxNext = 0 /\ s.rxCard = 0
    BY <1>1, <1>6, <2>1, <2>2 DEF Cards
  <2> QED BY <2>3 DEF tx, rx
<1> HIDE DEF s
<1>3. (ok /\ StartWithInterrupts) \in BOOLEAN
  BY DEF StartWithInterrupts
<1>4. /\ r \in Cards
      /\ r.tx = s.tx /\ r.txNext = s.txNext /\ r.txCard = s.txCard
      /\ r.rx = s.rx /\ r.rxNext = s.rxNext /\ r.rxCard = s.rxCard
      /\ r.running = ok /\ r.iena = (ok /\ StartWithInterrupts)
  <2> HIDE DEF StartWithInterrupts
  <2> QED BY <1>2, <1>3 DEF LanceStartChip, Cards
<1>5. r = RestartCard(n, ok)
  BY DEF RestartCard, s, c
<1> HIDE DEF r
<1> QED BY <1>2, <1>4, <1>5

LEMMA FillProps ==
  ASSUME NEW n \in Cards, NEW ps \in Seq(Nat)
  PROVE  LET f == FillDescriptors(n, ps)
         IN  /\ f \in Cards
             /\ \A j \in 0 .. NT - 1 : f.tx[Place(n.txNext, j, NT)] =
                   IF j < Len(ps) THEN ps[j + 1] ELSE n.tx[Place(n.txNext, j, NT)]
             /\ f.txNext = (n.txNext + Len(ps)) % NT /\ f.txCard = n.txCard
             /\ f.rx = n.rx /\ f.rxNext = n.rxNext /\ f.rxCard = n.rxCard
             /\ f.running = n.running /\ f.iena = n.iena
<1>1. NT \in Nat \ {0} /\ n.txNext \in 0 .. NT - 1 /\ n.tx \in [0 .. NT - 1 -> Nat]
  BY RingsAssumption DEF Cards
<1>2. Len(ps) \in Nat /\ \A i \in 1..Len(ps) : ps[i] \in Nat
  BY ElementOfSeq, LenProperties
<1>3. (n.txNext + Len(ps)) % NT \in 0 .. NT - 1
  BY <1>1, <1>2
<1> DEFINE off(i) == (i - n.txNext) % NT
           tx == [i \in 0 .. NT - 1 |-> IF off(i) < Len(ps) THEN ps[off(i) + 1] ELSE n.tx[i]]
<1>4. \A i \in 0 .. NT - 1 : off(i) \in 0 .. NT - 1 /\ Place(n.txNext, off(i), NT) = i
  BY <1>1, PlaceProps
<1>5. ASSUME NEW i \in 0 .. NT - 1 PROVE tx[i] \in Nat
  <2>1. off(i) \in Nat
    <3>1. off(i) \in 0 .. NT - 1
      BY <1>4
    <3> HIDE DEF off
    <3> QED BY <1>1, <3>1
  <2> HIDE DEF off
  <2>2. off(i) < Len(ps) => off(i) + 1 \in 1..Len(ps)
    BY <1>2, <2>1
  <2> QED BY <1>1, <1>2, <2>2
<1>6. tx \in [0 .. NT - 1 -> Nat]
  BY <1>5
<1>7. ASSUME NEW j \in 0 .. NT - 1
      PROVE  tx[Place(n.txNext, j, NT)] =
                IF j < Len(ps) THEN ps[j + 1] ELSE n.tx[Place(n.txNext, j, NT)]
  <2>1. PICK i \in 0 .. NT - 1 : i = Place(n.txNext, j, NT)
    <3>1. j \in 0 .. NT
      BY <1>1
    <3>2. Place(n.txNext, j, NT) \in 0 .. NT - 1
      BY <1>1, <3>1, PlaceProps
    <3> QED BY <3>2
  <2>2. off(i) \in 0 .. NT - 1 /\ Place(n.txNext, off(i), NT) = i
    BY <1>4
  <2> HIDE DEF off
  <2>3. off(i) = j
    BY <1>1, <2>1, <2>2, PlaceInjective
  <2> QED BY <2>1, <2>3
<1> DEFINE f == FillDescriptors(n, ps)
<1>8. f = [n EXCEPT !.tx = tx, !.txNext = (n.txNext + Len(ps)) % NT]
  BY DEF FillDescriptors
<1> HIDE DEF tx, f, off
<1>9. /\ f \in Cards /\ f.tx = tx /\ f.txNext = (n.txNext + Len(ps)) % NT /\ f.txCard = n.txCard
      /\ f.rx = n.rx /\ f.rxNext = n.rxNext /\ f.rxCard = n.rxCard
      /\ f.running = n.running /\ f.iena = n.iena
  BY <1>3, <1>6, <1>8 DEF Cards
<1> QED BY <1>7, <1>9 DEF f

LEMMA RoomProps ==
  ASSUME NEW n \in Cards, NEW k \in Nat
  PROVE  /\ Room(n, k) \in 0 .. k
         /\ \A i \in 0 .. Room(n, k) - 1 : i < NT /\ n.tx[(n.txNext + i) % NT] = 0
<1> DEFINE good(i) == i < NT /\ n.tx[(n.txNext + i) % NT] = 0
           I == {j \in 0 .. k : j = k \/ ~good(j)}
<1>1. I # {} /\ I \subseteq Nat
  <2>1. k \in I
    OBVIOUS
  <2>2. I \subseteq Nat
    OBVIOUS
  <2> HIDE DEF I
  <2> QED BY <2>1, <2>2
<1>2. PICK m \in I : \A j \in I : m <= j
  <2> HIDE DEF I
  <2> QED BY <1>1, MinProps
<1>3. \A i \in 0 .. m - 1 : good(i)
  <2> SUFFICES ASSUME NEW i \in 0 .. m - 1, ~good(i) PROVE FALSE
    OBVIOUS
  <2> HIDE DEF good
  <2>1. m \in 0 .. k
    OBVIOUS
  <2>2. i \in 0 .. k /\ i < m
    BY <2>1
  <2>3. i \in I
    BY <2>2
  <2>4. m <= i
    BY <1>2, <2>3
  <2> QED BY <2>1, <2>2, <2>4
<1>4. m < k => ~good(m)
  BY <1>2
<1>5. m < k => m >= NT \/ n.tx[(n.txNext + m) % NT] # 0
  BY <1>4, RingsAssumption
<1>6. \E j \in 0 .. k : /\ \A i \in 0 .. j - 1 : i < NT /\ n.tx[(n.txNext + i) % NT] = 0
                        /\ j < k => j >= NT \/ n.tx[(n.txNext + j) % NT] # 0
  BY <1>2, <1>3, <1>5
<1> QED BY <1>6 DEF Room
-----------------------------------------------------------------------------
(* The order of the packets, which are the numbers 1 .. g, through what the   *)
(* driver and the card do to the transmit ring.                               *)

LEMMA RingSame ==
  ASSUME NEW n, NEW m, NEW v, RingHolds(n, v),
         m.tx = n.tx, m.txNext = n.txNext, m.txCard = n.txCard
  PROVE  RingHolds(m, v)
BY DEF RingHolds

LEMMA OrderedSame ==
  ASSUME NEW n, NEW m, NEW w, NEW q, NEW g, InOrder(n, w, q, g),
         m.tx = n.tx, m.txNext = n.txNext, m.txCard = n.txCard
  PROVE  InOrder(m, w, q, g)
BY RingSame DEF InOrder

LEMMA NumbersInt ==
  ASSUME NEW g \in Nat, NEW v \in Seq(1 .. g)
  PROVE  /\ v \in Seq(Int) /\ v \in Seq(Nat) /\ Len(v) \in Nat
         /\ \A i \in 1 .. Len(v) : v[i] \in 1 .. g /\ v[i] # 0
<1>1. /\ Len(v) \in Nat
      /\ \A i \in 1 .. Len(v) : v[i] \in 1 .. g
  BY ElementOfSeq, LenProperties
<1>2. \A i \in 1 .. Len(v) : v[i] \in Nat /\ v[i] \in Int /\ v[i] # 0
  BY <1>1
<1>3. v = [i \in 1 .. Len(v) |-> v[i]]
  BY SeqDef, LenProperties
<1> QED BY <1>1, <1>2, <1>3, IsASeq

(* A restart empties the ring.                                                *)
LEMMA OrderedRestart ==
  ASSUME NEW n \in Cards, NEW ok \in BOOLEAN, NEW g \in Nat, NEW w \in 0 .. g,
         NEW q \in Seq(1 .. g), InOrder(n, w, q, g)
  PROVE  InOrder(RestartCard(n, ok), w, q, g)
<1>1. PICK v \in Seq(1 .. g) : Increasing(<<w>> \o v \o q)
  BY DEF InOrder
<1>2. Increasing(<<w>> \o q)
  <2>1. <<w>> \in Seq(Int)
    OBVIOUS
  <2> QED BY <1>1, <2>1, NumbersInt, IncreasingDrop
<1>3. <<w>> \o <<>> = <<w>>
  OBVIOUS
<1>4. <<>> \in Seq(1 .. g)
  OBVIOUS
<1> DEFINE r == RestartCard(n, ok)
<1>5. RingHolds(r, <<>>)
  <2>1. r.tx = [i \in 0 .. NT - 1 |-> 0] /\ r.txNext = 0 /\ r.txCard = 0
    BY RestartProps
  <2> HIDE DEF r
  <2>2. NT \in Nat \ {0} /\ 0 \in 0 .. NT - 1 /\ 0 \in 0 .. NT
    BY RingsAssumption
  <2>3. Place(0, 0, NT) = 0
    BY <2>2, PlaceEnds
  <2>5. ASSUME NEW j \in 0 .. NT - 1 PROVE Place(0, j, NT) \in 0 .. NT - 1
    <3>1. j \in 0 .. NT
      BY <2>2
    <3> QED BY <2>2, <3>1, PlaceIn
  <2>4. Len(<<>>) = 0 /\ \A j \in 0 .. NT - 1 : ~(j < 0)
    OBVIOUS
  <2> QED BY <2>1, <2>2, <2>3, <2>4, <2>5 DEF RingHolds
<1> QED BY <1>2, <1>3, <1>4, <1>5 DEF InOrder

(* What is filled in comes behind what the ring holds.                        *)
LEMMA FillHolds ==
  ASSUME NEW n \in Cards, NEW g \in Nat, NEW v \in Seq(1 .. g), NEW ps \in Seq(1 .. g),
         RingHolds(n, v),
         \A i \in 0 .. Len(ps) - 1 : i < NT /\ n.tx[(n.txNext + i) % NT] = 0
  PROVE  RingHolds(FillDescriptors(n, ps), v \o ps)
<1> DEFINE L == Len(v)
           p == Len(ps)
           c == n.txCard
           f == FillDescriptors(n, ps)
           at(j) == Place(c, j, NT)
           u == v \o ps
<1>1. /\ NT \in Nat \ {0} /\ c \in 0 .. NT - 1 /\ n.txNext \in 0 .. NT - 1
      /\ n.tx \in [0 .. NT - 1 -> Nat]
  BY RingsAssumption DEF Cards
<1>2. L \in 0 .. NT /\ p \in Nat
  BY NumbersInt, RingsAssumption DEF RingHolds
<1>3. /\ n.txNext = at(L)
      /\ \A j \in 0 .. NT - 1 : n.tx[at(j)] = IF j < L THEN v[j + 1] ELSE 0
  BY DEF RingHolds
<1>4. /\ \A j \in 0 .. NT - 1 : f.tx[Place(n.txNext, j, NT)] =
               IF j < p THEN ps[j + 1] ELSE n.tx[Place(n.txNext, j, NT)]
      /\ f.txNext = (n.txNext + p) % NT /\ f.txCard = c
  BY FillProps, NumbersInt
<1>5. /\ Len(u) = L + p
      /\ \A i \in 1 .. L + p : u[i] = IF i <= L THEN v[i] ELSE ps[i - L]
  BY ConcatProperties
<1>6. L > 0 => v[1] # 0
  BY <1>2, NumbersInt
<1> HIDE DEF f, L, p, c, u
<1>7. L + p <= NT
  <2> SUFFICES ASSUME L + p > NT PROVE FALSE
    BY <1>1, <1>2
  <2>1. NT - L \in 0 .. p - 1 /\ NT - L \in 0 .. NT
    BY <1>1, <1>2
  <2>2. NT - L < NT /\ n.tx[(n.txNext + (NT - L)) % NT] = 0
    BY <2>1 DEF p
  <2>3. (n.txNext + (NT - L)) % NT = Place(n.txNext, NT - L, NT)
    BY <1>1, <2>1, PlaceIn, PlaceEnds, PlaceSum
  <2>4. Place(at(L), NT - L, NT) = c
    <3>1. L + (NT - L) = NT /\ L + (NT - L) <= NT
      BY <1>1, <1>2
    <3>2. Place(Place(c, L, NT), NT - L, NT) = Place(c, L + (NT - L), NT)
      BY <1>1, <1>2, <2>1, <3>1, PlaceSum
    <3>3. Place(c, NT, NT) = c
      BY <1>1, PlaceEnds
    <3> QED BY <3>1, <3>2, <3>3
  <2>5. at(0) = c
    BY <1>1, PlaceEnds
  <2>6. 0 \in 0 .. NT - 1 /\ 0 < L /\ 0 + 1 = 1
    BY <1>1, <1>2, <2>2
  <2> QED BY <1>3, <1>6, <2>2, <2>3, <2>4, <2>5, <2>6
<1>8. f.txNext = Place(c, L + p, NT)
  <2>1. p \in 0 .. NT /\ L + p <= NT
    BY <1>1, <1>2, <1>7
  <2>2. (n.txNext + p) % NT = Place(at(L), p, NT)
    BY <1>1, <1>3, <2>1, PlaceIn, PlaceEnds, PlaceSum
  <2> QED BY <1>1, <1>2, <1>4, <2>1, <2>2, PlaceIn, PlaceEnds, PlaceSum
<1>9. ASSUME NEW j \in 0 .. NT - 1
      PROVE  f.tx[at(j)] = IF j < L + p THEN u[j + 1] ELSE 0
  <2>1. CASE j >= L
    <3>1. j - L \in 0 .. NT - 1 /\ j - L \in 0 .. NT /\ L + (j - L) = j
      BY <1>1, <1>2, <2>1
    <3>2. Place(n.txNext, j - L, NT) = at(j)
      <4>1. Place(Place(c, L, NT), j - L, NT) = Place(c, L + (j - L), NT)
        <5>1. L + (j - L) <= NT
          BY <1>1, <3>1
        <5> QED BY <1>1, <1>2, <3>1, <5>1, PlaceSum
      <4> QED BY <1>3, <3>1, <4>1
    <3>3. f.tx[at(j)] = IF j - L < p THEN ps[j - L + 1] ELSE n.tx[at(j)]
      BY <1>4, <3>1, <3>2
    <3>4. n.tx[at(j)] = 0
      BY <1>2, <1>3, <2>1
    <3>5. CASE j < L + p
      <4>1. j + 1 \in 1 .. L + p /\ ~(j + 1 <= L) /\ j + 1 - L = j - L + 1 /\ j - L < p
        BY <1>2, <2>1, <3>5
      <4>2. u[j + 1] = ps[j + 1 - L]
        BY <1>2, <1>5, <4>1
      <4> HIDE DEF at
      <4> QED BY <3>3, <3>5, <4>1, <4>2
    <3>6. CASE ~(j < L + p)
      <4>1. ~(j - L < p)
        BY <1>2, <3>6
      <4> HIDE DEF at
      <4> QED BY <3>3, <3>4, <3>6, <4>1
    <3> QED BY <3>5, <3>6
  <2>2. CASE j < L
    <3>1. /\ NT - L \in 0 .. NT /\ j \in 0 .. NT /\ NT - L + j \in 0 .. NT - 1
          /\ L + (NT - L) = NT /\ (NT - L) + j <= NT /\ ~(NT - L + j < p)
      BY <1>1, <1>2, <1>7, <2>2
    <3>2. Place(n.txNext, NT - L, NT) = c
      <4>1. Place(n.txNext, NT - L, NT) = Place(c, L + (NT - L), NT)
        BY <1>1, <1>2, <1>3, <3>1, PlaceIn, PlaceEnds, PlaceSum
      <4> QED BY <1>1, <3>1, <4>1, PlaceIn, PlaceEnds, PlaceSum
    <3>3. Place(n.txNext, NT - L + j, NT) = at(j)
      BY <1>1, <3>1, <3>2, PlaceSum
    <3>4. f.tx[at(j)] = n.tx[at(j)]
      BY <1>4, <3>1, <3>3
    <3>5. n.tx[at(j)] = v[j + 1]
      BY <1>3, <2>2
    <3>6. j < L + p /\ u[j + 1] = v[j + 1]
      <4>1. j < L + p /\ j + 1 \in 1 .. L + p /\ j + 1 <= L
        BY <1>2, <2>2
      <4> QED BY <1>5, <4>1
    <3> QED BY <3>4, <3>5, <3>6
  <2> HIDE DEF at
  <2>3. j >= L \/ j < L
    BY <1>2
  <2> QED BY <2>1, <2>2, <2>3
<1> QED BY <1>4, <1>5, <1>7, <1>8, <1>9 DEF RingHolds, f, c, u

LEMMA OrderedFill ==
  ASSUME NEW n \in Cards, NEW g \in Nat, NEW w \in 0 .. g,
         NEW ps \in Seq(1 .. g), NEW q \in Seq(1 .. g), InOrder(n, w, ps \o q, g),
         \A i \in 0 .. Len(ps) - 1 : i < NT /\ n.tx[(n.txNext + i) % NT] = 0
  PROVE  InOrder(FillDescriptors(n, ps), w, q, g)
<1>1. PICK v \in Seq(1 .. g) : RingHolds(n, v) /\ Increasing(<<w>> \o v \o (ps \o q))
  BY DEF InOrder
<1>2. RingHolds(FillDescriptors(n, ps), v \o ps)
  BY <1>1, FillHolds
<1>3. v \o ps \in Seq(1 .. g)
  BY ConcatProperties
<1>4. <<w>> \o v \o (ps \o q) = <<w>> \o (v \o ps) \o q
  <2> DEFINE a == <<w>>
  <2>1. a \in Seq(Int) /\ v \in Seq(Int) /\ ps \in Seq(Int) /\ q \in Seq(Int)
    BY NumbersInt
  <2> HIDE DEF a
  <2>2. a \o v \in Seq(Int) /\ v \o ps \in Seq(Int)
    BY <2>1, ConcatProperties
  <2>3. ASSUME NEW b \in Seq(Int) PROVE b \o (ps \o q) = (b \o ps) \o q
    BY <2>1, IntConcat
  <2>4. (a \o v) \o ps = a \o (v \o ps)
    BY <2>1, IntConcat, Zenon
  <2>5. (a \o v) \o (ps \o q) = ((a \o v) \o ps) \o q
    BY <2>2, <2>3
  <2> QED BY <2>4, <2>5 DEF a
<1> QED BY <1>1, <1>2, <1>3, <1>4 DEF InOrder

(* The card sends the first packet of the ring.                               *)
LEMMA OrderedSent ==
  ASSUME NEW n \in Cards, NEW m, NEW g \in Nat, NEW w \in 0 .. g, NEW q \in Seq(1 .. g),
         InOrder(n, w, q, g), n.tx[n.txCard] # 0,
         m.tx = [n.tx EXCEPT ![n.txCard] = 0], m.txCard = NextTx(n.txCard), m.txNext = n.txNext
  PROVE  /\ n.tx[n.txCard] \in 1 .. g
         /\ InOrder(m, n.tx[n.txCard], q, g)
<1>1. PICK v \in Seq(1 .. g) : RingHolds(n, v) /\ Increasing(<<w>> \o v \o q)
  BY DEF InOrder
<1> DEFINE L == Len(v)
           c == n.txCard
           at(j) == Place(c, j, NT)
           t == Tail(v)
<1>2. /\ NT \in Nat \ {0} /\ c \in 0 .. NT - 1 /\ n.tx \in [0 .. NT - 1 -> Nat]
  BY RingsAssumption DEF Cards
<1>3. L \in 0 .. NT /\ \A i \in 1 .. L : v[i] \in 1 .. g
  BY <1>1, NumbersInt, RingsAssumption DEF RingHolds
<1>4. /\ n.txNext = at(L)
      /\ \A j \in 0 .. NT - 1 : n.tx[at(j)] = IF j < L THEN v[j + 1] ELSE 0
  BY <1>1 DEF RingHolds
<1>5. at(0) = c
  BY <1>2, PlaceIn, PlaceEnds, PlaceSum
<1> HIDE DEF L, c, t
<1>6. L > 0 /\ n.tx[c] = v[1]
  <2>1. 0 \in 0 .. NT - 1
    BY <1>2
  <2>2. n.tx[c] = IF 0 < L THEN v[0 + 1] ELSE 0
    BY <1>4, <1>5, <2>1
  <2>3. n.tx[c] # 0
    BY DEF c
  <2> QED BY <1>3, <2>2, <2>3
<1>7. v # <<>>
  BY <1>6 DEF L
<1>8. /\ t \in Seq(1 .. g) /\ Len(t) = L - 1
      /\ \A i \in 1 .. L - 1 : t[i] = v[i + 1]
      /\ v = <<v[1]>> \o t
  BY <1>7, HeadTailProperties DEF L, t
<1>9. m.txCard = at(1) /\ m.tx = [n.tx EXCEPT ![c] = 0] /\ m.txNext = n.txNext
  <2>1. 1 \in 0 .. NT
    BY <1>2
  <2>2. (c + 1) % NT = at(1)
    BY <1>2, <2>1, PlaceIn
  <2> QED BY <2>2 DEF NextTx, c
<1>10. RingHolds(m, t)
  <2>1. Len(t) <= NT /\ L - 1 \in 0 .. NT /\ 1 \in 0 .. NT /\ 1 + (L - 1) = L /\ L <= NT
    BY <1>2, <1>3, <1>6, <1>8
  <2>2. m.txNext = Place(m.txCard, Len(t), NT)
    <3>1. Place(at(1), L - 1, NT) = Place(c, 1 + (L - 1), NT)
      BY <1>2, <2>1, PlaceIn, PlaceEnds, PlaceSum
    <3> QED BY <1>4, <1>8, <1>9, <2>1, <3>1
  <2>3. ASSUME NEW j \in 0 .. NT - 1
        PROVE  m.tx[Place(m.txCard, j, NT)] = IF j < Len(t) THEN t[j + 1] ELSE 0
    <3>1. Place(m.txCard, j, NT) = at(1 + j)
      <4>1. j \in 0 .. NT /\ 1 + j <= NT
        BY <1>2
      <4> QED BY <1>2, <1>9, <2>1, <4>1, PlaceIn, PlaceEnds, PlaceSum
    <3>2. CASE j < NT - 1
      <4>1. 1 + j \in 0 .. NT - 1 /\ 1 + j # 0 /\ 0 \in 0 .. NT - 1 /\ (1 + j < L <=> j < L - 1)
        BY <1>2, <1>3, <3>2
      <4>2. at(1 + j) # c
        BY <1>2, <1>5, <4>1, PlaceInjective
      <4>3. m.tx[at(1 + j)] = n.tx[at(1 + j)]
        <5>1. at(1 + j) \in 0 .. NT - 1
          <6>1. 1 + j \in 0 .. NT
            BY <1>2
          <6> QED BY <1>2, <6>1, PlaceIn, PlaceEnds, PlaceSum
        <5> QED BY <1>2, <1>9, <4>2, <5>1
      <4>4. n.tx[at(1 + j)] = IF 1 + j < L THEN v[(1 + j) + 1] ELSE 0
        BY <1>4, <4>1
      <4>5. j < L - 1 => t[j + 1] = v[(1 + j) + 1]
        <5>1. j < L - 1 => j + 1 \in 1 .. L - 1 /\ (j + 1) + 1 = (1 + j) + 1
          BY <1>3
        <5>2. 1 + j = j + 1
          OBVIOUS
        <5> QED BY <1>8, <5>1, <5>2
      <4> QED BY <1>8, <3>1, <4>1, <4>3, <4>4, <4>5
    <3>3. CASE j = NT - 1
      <4>1. at(1 + j) = c
        <5>1. 1 + j = NT
          BY <1>2, <3>3
        <5> QED BY <1>2, <5>1, PlaceIn, PlaceEnds, PlaceSum
      <4>2. ~(j < Len(t))
        BY <1>2, <1>3, <1>8, <3>3
      <4> QED BY <1>2, <1>9, <3>1, <4>1, <4>2
    <3> QED BY <1>2, <3>2, <3>3
  <2> QED BY <2>1, <2>2, <2>3 DEF RingHolds
<1>11. Increasing(<<v[1]>> \o t \o q)
  <2> DEFINE a == <<w>>
             b == <<v[1]>>
  <2>0. v[1] \in Int
    BY <1>3, <1>6
  <2>1. a \in Seq(Int) /\ b \in Seq(Int) /\ t \in Seq(Int) /\ q \in Seq(Int) /\ v \in Seq(Int)
    BY <1>8, <2>0, NumbersInt
  <2>2. v = b \o t
    BY <1>8
  <2> HIDE DEF a, b
  <2>3. Increasing(v \o q)
    BY <1>1, <2>1, IncreasingDrop DEF a
  <2> QED BY <2>2, <2>3 DEF b
<1>12. v[1] \in 1 .. g
  BY <1>3, <1>6
<1> QED BY <1>6, <1>8, <1>10, <1>11, <1>12 DEF InOrder, c

(* Of what waits, a part may be taken away, or newer packets join it.         *)
LEMMA OrderedLess ==
  ASSUME NEW n, NEW g \in Nat, NEW w \in 0 .. g,
         NEW p \in Seq(1 .. g), NEW q \in Seq(1 .. g), InOrder(n, w, p \o q, g)
  PROVE  InOrder(n, w, p, g) /\ InOrder(n, w, q, g)
<1>1. PICK v \in Seq(1 .. g) : RingHolds(n, v) /\ Increasing(<<w>> \o v \o (p \o q))
  BY DEF InOrder
<1> DEFINE a == <<w>> \o v
<1>2. a \in Seq(Int) /\ p \in Seq(Int) /\ q \in Seq(Int)
  <2>1. <<w>> \in Seq(Int)
    OBVIOUS
  <2> QED BY <2>1, NumbersInt, ConcatProperties
<1> HIDE DEF a
<1>3. a \o (p \o q) = (a \o p) \o q
  BY <1>2, IntConcat
<1>4. Increasing(a \o p \o q)
  BY <1>1, <1>3 DEF a
<1> QED BY <1>1, <1>2, <1>4, IncreasingDrop DEF InOrder, a

LEMMA OrderedMore ==
  ASSUME NEW n, NEW g \in Nat, NEW h \in Nat, g <= h, NEW w \in 0 .. g, NEW q \in Seq(1 .. g),
         InOrder(n, w, q, g), NEW ps \in Seq(g + 1 .. h), Increasing(ps)
  PROVE  InOrder(n, w, q \o ps, h)
<1>1. PICK v \in Seq(1 .. g) : RingHolds(n, v) /\ Increasing(<<w>> \o v \o q)
  BY DEF InOrder
<1> DEFINE a == <<w>> \o v
           b == a \o q
<1>2. /\ Len(ps) \in Nat /\ ps = [i \in 1 .. Len(ps) |-> ps[i]]
      /\ \A i \in 1 .. Len(ps) : ps[i] \in g + 1 .. h
  BY ElementOfSeq, LenProperties, SeqDef
<1>3. ps \in Seq(Int)
  <2>1. \A i \in 1 .. Len(ps) : ps[i] \in Int
    BY <1>2
  <2> QED BY <1>2, <2>1, IsASeq
<1>4. /\ v \in Seq(Int) /\ q \in Seq(Int) /\ Len(v) \in Nat /\ Len(q) \in Nat
      /\ \A i \in 1 .. Len(v) : v[i] <= g
      /\ \A i \in 1 .. Len(q) : q[i] <= g
  BY NumbersInt
<1>5. v \in Seq(1 .. h)
  <2>1. Len(v) \in Nat /\ v = [i \in 1 .. Len(v) |-> v[i]] /\ \A i \in 1 .. Len(v) : v[i] \in 1 .. g
    BY ElementOfSeq, LenProperties, SeqDef
  <2>2. \A i \in 1 .. Len(v) : v[i] \in 1 .. h
    BY <2>1
  <2> QED BY <2>1, <2>2, IsASeq
<1>6. /\ a \in Seq(Int) /\ Len(a) = 1 + Len(v)
      /\ \A i \in 1 .. 1 + Len(v) : a[i] <= g
  <2>1. <<w>> \in Seq(Int) /\ Len(<<w>>) = 1 /\ <<w>>[1] = w
    OBVIOUS
  <2>2. /\ a \in Seq(Int) /\ Len(a) = 1 + Len(v)
        /\ \A i \in 1 .. 1 + Len(v) : a[i] = IF i <= 1 THEN <<w>>[i] ELSE v[i - 1]
    BY <1>4, <2>1, ConcatProperties
  <2>3. ASSUME NEW i \in 1 .. 1 + Len(v) PROVE a[i] <= g
    <3>1. i = 1 \/ (~(i <= 1) /\ i - 1 \in 1 .. Len(v))
      BY <1>4
    <3> QED BY <1>4, <2>1, <2>2, <3>1
  <2> QED BY <2>2, <2>3
<1> HIDE DEF a
<1>7. /\ b \in Seq(Int) /\ Len(b) \in Nat
      /\ \A i \in 1 .. Len(b) : b[i] <= g
  <2>1. /\ b \in Seq(Int) /\ Len(b) = Len(a) + Len(q)
        /\ \A i \in 1 .. Len(a) + Len(q) : b[i] = IF i <= Len(a) THEN a[i] ELSE q[i - Len(a)]
    BY <1>4, <1>6, ConcatProperties
  <2>2. ASSUME NEW i \in 1 .. Len(b) PROVE b[i] <= g
    <3>1. i \in 1 .. Len(a) \/ (~(i <= Len(a)) /\ i - Len(a) \in 1 .. Len(q))
      BY <1>4, <1>6, <2>1
    <3>2. CASE i \in 1 .. Len(a)
      <4>1. i \in 1 .. Len(a) + Len(q) /\ i \in 1 .. 1 + Len(v) /\ i <= Len(a)
        BY <1>4, <1>6, <3>2
      <4> QED BY <1>6, <2>1, <4>1
    <3>3. CASE ~(i <= Len(a)) /\ i - Len(a) \in 1 .. Len(q)
      <4>1. i \in 1 .. Len(a) + Len(q)
        BY <2>1
      <4> QED BY <1>4, <2>1, <3>3, <4>1
    <3> QED BY <3>1, <3>2, <3>3
  <2> QED BY <1>4, <1>6, <2>1, <2>2
<1>8. b \o ps = a \o (q \o ps)
  BY <1>3, <1>4, <1>6, IntConcat
<1> HIDE DEF b
<1>9. Increasing(b)
  BY <1>1 DEF a, b
<1>10. \A i \in 1 .. Len(b), j \in 1 .. Len(ps) : b[i] < ps[j]
  <2> SUFFICES ASSUME NEW i \in 1 .. Len(b), NEW j \in 1 .. Len(ps) PROVE b[i] < ps[j]
    OBVIOUS
  <2>1. b[i] <= g /\ b[i] \in Int /\ ps[j] \in g + 1 .. h
    BY <1>2, <1>7, ElementOfSeq
  <2> QED BY <2>1
<1>11. Increasing(b \o ps)
  BY <1>3, <1>7, <1>9, <1>10, IncreasingConcat
<1> QED BY <1>1, <1>5, <1>8, <1>11 DEF InOrder, a

(* What RingPackets reads from the ring.                                      *)
LEMMA RingRead ==
  ASSUME nic \in Cards, NEW g \in Nat, NEW v \in Seq(1 .. g), RingHolds(nic, v)
  PROVE  RingPackets = v
<1> DEFINE at(j) == nic.tx[(nic.txCard + j) % NT]
           good(j) == (\A i \in 0 .. j - 1 : at(i) # 0) /\ (j < NT => at(j) = 0)
           k == CHOOSE j \in 0 .. NT : good(j)
<1>1. NT \in Nat \ {0} /\ nic.txCard \in 0 .. NT - 1
  BY RingsAssumption DEF Cards
<1>2. Len(v) \in 0 .. NT /\ \A i \in 1 .. Len(v) : v[i] # 0
  BY <1>1, NumbersInt DEF RingHolds
<1>3. ASSUME NEW j \in 0 .. NT - 1 PROVE at(j) = IF j < Len(v) THEN v[j + 1] ELSE 0
  <2>1. j \in 0 .. NT
    BY <1>1
  <2>2. (nic.txCard + j) % NT = Place(nic.txCard, j, NT)
    BY <1>1, <2>1, PlaceIn, PlaceEnds, PlaceSum
  <2> QED BY <2>2 DEF RingHolds
<1>4. v = [i \in 1 .. Len(v) |-> v[i]]
  BY SeqDef, LenProperties
<1> HIDE DEF at
<1>5. good(Len(v))
  <2>1. ASSUME NEW i \in 0 .. Len(v) - 1 PROVE at(i) # 0
    <3>1. i \in 0 .. NT - 1 /\ i < Len(v) /\ i + 1 \in 1 .. Len(v)
      BY <1>1, <1>2
    <3> QED BY <1>2, <1>3, <3>1
  <2>2. Len(v) < NT => at(Len(v)) = 0
    <3>1. Len(v) < NT => Len(v) \in 0 .. NT - 1 /\ ~(Len(v) < Len(v))
      BY <1>1, <1>2
    <3> QED BY <1>3, <3>1
  <2> QED BY <2>1, <2>2
<1>6. k \in 0 .. NT /\ good(k)
  <2> HIDE DEF good
  <2> QED BY <1>2, <1>5
<1> DEFINE seq == [j \in 1 .. k |-> at(j - 1)]
<1>7. RingPackets = seq
  BY DEF RingPackets, at
<1> HIDE DEF k
<1>8. k = Len(v)
  <2>1. ~(k < Len(v))
    <3> SUFFICES ASSUME k < Len(v) PROVE FALSE
      OBVIOUS
    <3>1. k \in 0 .. Len(v) - 1 /\ k < NT
      BY <1>1, <1>2, <1>6
    <3> QED BY <1>5, <1>6, <3>1
  <2>2. ~(Len(v) < k)
    <3> SUFFICES ASSUME Len(v) < k PROVE FALSE
      OBVIOUS
    <3>1. Len(v) \in 0 .. k - 1 /\ Len(v) < NT
      BY <1>1, <1>2, <1>6
    <3> QED BY <1>5, <1>6, <3>1
  <2> QED BY <1>2, <1>6, <2>1, <2>2
<1>9. ASSUME NEW j \in 1 .. Len(v) PROVE at(j - 1) = v[j]
  <2>1. j - 1 \in 0 .. NT - 1 /\ j - 1 < Len(v) /\ (j - 1) + 1 = j
    BY <1>1, <1>2
  <2> QED BY <1>3, <2>1
<1> QED BY <1>4, <1>7, <1>8, <1>9
-----------------------------------------------------------------------------
(* The frames of the receive ring, through what the card and the receive loop *)
(* do to it.                                                                  *)

LEMMA ReceivesSame ==
  ASSUME NEW n, NEW k, NEW h, NEW m, NEW s, NEW last, NEW come,
         RingReceives(n, h, m, s, last, come),
         k.rx = n.rx, k.rxNext = n.rxNext, k.rxCard = n.rxCard
  PROVE  RingReceives(k, h, m, s, last, come)
<1>1. Frames(k, h, m, s)
  BY DEF RingReceives, Frames
<1>2. Newer(k, h, m, last, come)
  BY DEF RingReceives, Newer
<1> QED BY <1>1, <1>2 DEF RingReceives

LEMMA ReceivesRestart ==
  ASSUME NEW n \in Cards, NEW ok \in BOOLEAN, NEW last \in Int, NEW come \in Nat, last <= come
  PROVE  RingReceives(RestartCard(n, ok), <<>>, 0, 0, last, come)
<1> DEFINE r == RestartCard(n, ok)
<1>1. r.rx = [i \in 0 .. NR - 1 |-> 0] /\ r.rxNext = 0 /\ r.rxCard = 0
  BY RestartProps
<1> HIDE DEF r
<1>2. NR \in Nat \ {0} /\ 0 \in 0 .. NR - 1
  BY RingsAssumption
<1>3. Place(0, 0, NR) = 0
  BY <1>2, PlaceEnds
<1>4. ASSUME NEW j \in 0 .. NR - 1 PROVE r.rx[Place(0, j, NR)] = 0
  <2>1. Place(0, j, NR) \in 0 .. NR - 1
    BY <1>2, PlaceIn
  <2> QED BY <1>1, <2>1
<1>5. Frames(r, <<>>, 0, 0)
  <2>1. Len(<<>>) = 0 /\ 0 .. 0 - 1 = {} /\ 1 .. 0 = {}
    OBVIOUS
  <2> QED BY <1>1, <1>2, <1>3, <1>4, <2>1 DEF Frames
<1>6. Newer(r, <<>>, 0, last, come)
  <2>1. Len(<<>>) = 0 /\ 0 .. 0 - 1 = {} /\ 1 .. 0 = {}
    OBVIOUS
  <2> QED BY <2>1 DEF Newer
<1> QED BY <1>5, <1>6 DEF RingReceives, r

(* A frame that is lost changes only the number of those that came.           *)
LEMMA ReceivesMissed ==
  ASSUME NEW n \in Cards, NEW h \in Seq(0 .. NR - 1), NEW m \in 0 .. NR, NEW s \in 0 .. NR,
         NEW last \in Int, NEW come \in Nat,
         RingReceives(n, h, m, s, last, come)
  PROVE  RingReceives(n, h, m, s, last, come + 1)
<1> DEFINE frame(j) == Magnitude(n.rx[Place(n.rxNext, j, NR)])
<1>1. /\ \A j \in 0 .. m - 1 : last < frame(j) /\ frame(j) <= come
      /\ \A i, j \in 0 .. m - 1 : i < j => frame(i) < frame(j)
      /\ \A k \in 1 .. Len(h) : n.rx[h[k]] <= come /\ \A j \in 0 .. m - 1 : n.rx[h[k]] < frame(j)
      /\ \A j, k \in 1 .. Len(h) : j < k => n.rx[h[j]] < n.rx[h[k]]
      /\ last <= come
  BY DEF RingReceives, Newer
<1>2. ASSUME NEW j \in 0 .. m - 1 PROVE frame(j) \in Int
  <2>1. Place(n.rxNext, j, NR) \in 0 .. NR - 1
    <3>1. n.rxNext \in 0 .. NR - 1
      BY DEF Cards
    <3>2. NR \in Nat \ {0} /\ j \in 0 .. NR
      BY RingsAssumption
    <3> QED BY <3>1, <3>2, PlaceIn
  <2>2. n.rx[Place(n.rxNext, j, NR)] \in Int
    BY <2>1 DEF Cards
  <2> QED BY <2>2 DEF Magnitude
<1>3. \A k \in 1 .. Len(h) : n.rx[h[k]] \in Int
  <2>1. \A k \in 1 .. Len(h) : h[k] \in 0 .. NR - 1
    BY ElementOfSeq
  <2> QED BY <2>1 DEF Cards
<1> HIDE DEF frame
<1>4. /\ \A j \in 0 .. m - 1 : last < frame(j) /\ frame(j) <= come + 1
      /\ \A k \in 1 .. Len(h) : n.rx[h[k]] <= come + 1
      /\ last <= come + 1
  BY <1>1, <1>2, <1>3
<1>5. Newer(n, h, m, last, come + 1)
  BY <1>1, <1>4 DEF Newer, frame
<1> QED BY <1>5 DEF RingReceives

(* A frame comes into the descriptor behind the unseen ones.                  *)
LEMMA ReceivesArrival ==
  ASSUME NEW n \in Cards, NEW h \in Seq(0 .. NR - 1), NEW m \in 0 .. NR, NEW s \in 0 .. NR,
         NEW last \in Int, NEW come \in Nat,
         RingReceives(n, h, m, s, last, come), n.rx[n.rxCard] = 0,
         NEW k, FrameComes(n, k, come)
  PROVE  /\ m + 1 \in 0 .. NR
         /\ RingReceives(k, h, m + 1, s, last, come + 1)
         /\ m > 0 => k.rx[k.rxNext] = n.rx[n.rxNext]
         /\ \A i \in 1 .. Len(h) : k.rx[h[i]] = n.rx[h[i]]
<1>0. PICK f \in {come + 1, -(come + 1)} :
         /\ k.rx = [n.rx EXCEPT ![n.rxCard] = f]
         /\ k.rxCard = NextRx(n.rxCard) /\ k.rxNext = n.rxNext
  BY DEF FrameComes
<1> DEFINE c == n.rxNext
           at(j) == Place(c, j, NR)
           e == n.rxCard
           new == come + 1
<1>1. /\ NR \in Nat \ {0} /\ c \in 0 .. NR - 1 /\ e \in 0 .. NR - 1
      /\ n.rx \in [0 .. NR - 1 -> Int]
  BY RingsAssumption DEF Cards
<1>2. Len(h) \in Nat /\ \A i \in 1 .. Len(h) : h[i] \in 0 .. NR - 1
  BY ElementOfSeq, LenProperties
<1>3. Frames(n, h, m, s) /\ Newer(n, h, m, last, come)
  BY DEF RingReceives
<1>4. /\ s + m <= NR
      /\ e = at(m)
      /\ \A j \in 0 .. m - 1 : n.rx[at(j)] # 0
      /\ \A j \in m .. NR - 1 : n.rx[at(j)] # 0 => \E i \in 1 .. Len(h) : h[i] = at(j)
      /\ \A i \in 1 .. Len(h) : n.rx[h[i]] > 0 /\ \E d \in 1 .. s : h[i] = at(NR - d)
      /\ s > 0 => Len(h) > 0 /\ h[1] = at(NR - s)
  BY <1>3 DEF Frames
<1>5. /\ \A j \in 0 .. m - 1 : last < Magnitude(n.rx[at(j)]) /\ Magnitude(n.rx[at(j)]) <= come
      /\ \A i, j \in 0 .. m - 1 : i < j => Magnitude(n.rx[at(i)]) < Magnitude(n.rx[at(j)])
      /\ \A i \in 1 .. Len(h) : n.rx[h[i]] <= come
            /\ \A j \in 0 .. m - 1 : n.rx[h[i]] < Magnitude(n.rx[at(j)])
      /\ \A j, i \in 1 .. Len(h) : j < i => n.rx[h[j]] < n.rx[h[i]]
      /\ last <= come
  BY <1>3 DEF Newer
<1>6. n.rx[e] = 0
  OBVIOUS
<1>7. k.rx = [n.rx EXCEPT ![e] = f] /\ k.rxNext = c /\ k.rxCard = NextRx(e)
  BY <1>0
<1>8. \A j \in 0 .. NR : at(j) \in 0 .. NR - 1
  BY <1>1, PlaceIn
<1>9. at(NR) = at(0) /\ at(0) = c
  BY <1>1, PlaceEnds
<1>10. \A i, j \in 0 .. NR - 1 : at(i) = at(j) => i = j
  BY <1>1, PlaceInjective
<1> HIDE DEF at, c, e
<1>11. m < NR - s
  <2> SUFFICES ASSUME m = NR - s PROVE FALSE
    BY <1>1, <1>4
  <2>1. CASE s > 0
    <3>1. 1 \in 1 .. Len(h) /\ h[1] = e
      BY <1>2, <1>4, <2>1
    <3>2. n.rx[e] > 0
      BY <1>4, <3>1
    <3> QED BY <1>6, <3>2
  <2>2. CASE s = 0
    <3>1. 0 \in 0 .. m - 1 /\ m = NR
      BY <1>1, <2>2
    <3> QED BY <1>4, <1>6, <1>9, <3>1
  <2> QED BY <2>1, <2>2
<1>12. m + 1 \in 0 .. NR /\ m \in 0 .. NR - 1 /\ s + (m + 1) <= NR
  BY <1>1, <1>11
<1>13. ASSUME NEW j \in 0 .. NR - 1, j # m PROVE k.rx[at(j)] = n.rx[at(j)]
  <2>1. at(j) # e /\ at(j) \in 0 .. NR - 1
    <3>1. j \in 0 .. NR
      BY <1>1
    <3>2. at(j) # at(m)
      BY <1>10, <1>12, <1>13
    <3> QED BY <1>4, <1>8, <3>1, <3>2
  <2> QED BY <1>1, <1>7, <2>1
<1>14. k.rx[at(m)] = f /\ f \in Int /\ f # 0 /\ Magnitude(f) = new
  BY <1>1, <1>4, <1>7 DEF Magnitude
<1>15. ASSUME NEW i \in 1 .. Len(h) PROVE k.rx[h[i]] = n.rx[h[i]]
  <2>1. h[i] # e
    <3>1. n.rx[h[i]] > 0
      BY <1>4
    <3> QED BY <1>6, <3>1
  <2> QED BY <1>1, <1>2, <1>7, <2>1
<1>16. k.rxCard = at(m + 1)
  <2>1. (e + 1) % NR = Place(e, 1, NR)
    <3>1. 1 \in 0 .. NR
      BY <1>1
    <3> QED BY <1>1, <3>1, PlaceIn
  <2>2. Place(Place(c, m, NR), 1, NR) = Place(c, m + 1, NR)
    <3>1. 1 \in 0 .. NR /\ m + 1 <= NR
      BY <1>1, <1>12
    <3> QED BY <1>1, <3>1, PlaceSum
  <2> QED BY <1>4, <1>7, <2>1, <2>2 DEF NextRx, at
<1>17. Frames(k, h, m + 1, s)
  <2>1. ASSUME NEW j \in 0 .. m PROVE k.rx[at(j)] # 0
    <3>1. CASE j = m
      BY <1>14, <3>1
    <3>2. CASE j # m
      <4>1. j \in 0 .. m - 1 /\ j \in 0 .. NR - 1
        BY <1>1, <1>12, <3>2
      <4> QED BY <1>4, <1>13, <3>2, <4>1
    <3> QED BY <3>1, <3>2
  <2>2. ASSUME NEW j \in m + 1 .. NR - 1, k.rx[at(j)] # 0 PROVE \E i \in 1 .. Len(h) : h[i] = at(j)
    <3>1. j \in m .. NR - 1 /\ j \in 0 .. NR - 1 /\ j # m
      BY <1>12
    <3> QED BY <1>4, <1>13, <2>2, <3>1
  <2>3. \A i \in 1 .. Len(h) : k.rx[h[i]] > 0 /\ \E d \in 1 .. s : h[i] = at(NR - d)
    BY <1>4, <1>15
  <2>4. 0 .. (m + 1) - 1 = 0 .. m
    OBVIOUS
  <2> QED BY <1>4, <1>7, <1>12, <1>16, <2>1, <2>2, <2>3, <2>4 DEF Frames, at
<1>18. Newer(k, h, m + 1, last, new)
  <2> DEFINE frame(j) == Magnitude(n.rx[at(j)])
             now(j) == Magnitude(k.rx[at(j)])
  <2>1. ASSUME NEW j \in 0 .. m - 1 PROVE now(j) = frame(j) /\ frame(j) \in Int
    <3>1. j \in 0 .. NR - 1 /\ j # m /\ at(j) \in 0 .. NR - 1
      <4>1. j \in 0 .. NR /\ j \in 0 .. NR - 1 /\ j # m
        BY <1>1, <1>12
      <4> QED BY <1>8, <4>1
    <3>2. n.rx[at(j)] \in Int
      BY <1>1, <3>1
    <3> QED BY <1>13, <3>1, <3>2 DEF Magnitude
  <2>2. now(m) = new
    BY <1>14
  <2>3. /\ \A j \in 0 .. m - 1 : last < frame(j) /\ frame(j) <= come
        /\ \A i, j \in 0 .. m - 1 : i < j => frame(i) < frame(j)
        /\ \A i \in 1 .. Len(h) : \A j \in 0 .. m - 1 : n.rx[h[i]] < frame(j)
    BY <1>5
  <2> HIDE DEF frame, now
  <2>4. ASSUME NEW j \in 0 .. m PROVE last < now(j) /\ now(j) <= new
    <3>1. CASE j = m
      BY <1>5, <2>2, <3>1
    <3>2. CASE j # m
      <4>1. j \in 0 .. m - 1
        BY <3>2
      <4> QED BY <2>1, <2>3, <4>1
    <3> QED BY <3>1, <3>2
  <2>5. ASSUME NEW i \in 0 .. m, NEW j \in 0 .. m, i < j PROVE now(i) < now(j)
    <3>1. i \in 0 .. m - 1
      BY <2>5
    <3>2. CASE j = m
      BY <2>1, <2>2, <2>3, <3>1, <3>2
    <3>3. CASE j # m
      <4>1. j \in 0 .. m - 1
        BY <3>3
      <4> QED BY <2>1, <2>3, <2>5, <3>1, <4>1
    <3> QED BY <3>2, <3>3
  <2>6. ASSUME NEW i \in 1 .. Len(h)
        PROVE  k.rx[h[i]] <= new /\ \A j \in 0 .. m : k.rx[h[i]] < now(j)
    <3>1. k.rx[h[i]] = n.rx[h[i]] /\ n.rx[h[i]] \in Int /\ n.rx[h[i]] <= come
      BY <1>1, <1>2, <1>5, <1>15
    <3>2. ASSUME NEW j \in 0 .. m PROVE k.rx[h[i]] < now(j)
      <4>1. CASE j = m
        BY <2>2, <3>1, <4>1
      <4>2. CASE j # m
        <5>1. j \in 0 .. m - 1
          BY <4>2
        <5> QED BY <2>1, <2>3, <3>1, <5>1
      <4> QED BY <4>1, <4>2
    <3> QED BY <3>1, <3>2
  <2>7. \A j, i \in 1 .. Len(h) : j < i => k.rx[h[j]] < k.rx[h[i]]
    BY <1>5, <1>15
  <2>8. 0 .. (m + 1) - 1 = 0 .. m
    OBVIOUS
  <2>9. last <= new
    BY <1>5
  <2> QED BY <1>7, <2>4, <2>5, <2>6, <2>7, <2>8, <2>9 DEF Newer, at, now
<1>19. m > 0 => k.rx[k.rxNext] = n.rx[n.rxNext]
  <2>1. m > 0 => k.rx[at(0)] = n.rx[at(0)]
    <3>1. m > 0 => 0 \in 0 .. NR - 1 /\ 0 # m
      BY <1>1, <1>12
    <3> QED BY <1>13, <3>1
  <2> QED BY <1>7, <1>9, <2>1 DEF c
<1> QED BY <1>12, <1>15, <1>17, <1>18, <1>19 DEF RingReceives

(* The receive loop takes the frame of the next descriptor.                   *)
LEMMA ReceivesTaken ==
  ASSUME NEW n \in Cards, NEW h \in Seq(0 .. NR - 1), NEW m \in 0 .. NR, NEW s \in 0 .. NR,
         NEW last \in Int, NEW come \in Nat,
         RingReceives(n, h, m, s, last, come), m > 0,
         NEW k, NEW h2, FrameTaken(n, h, k, h2)
  PROVE  /\ \E p, d \in 0 .. NR : RingReceives(k, h2, p, d, last, come)
         /\ (\A i \in 1 .. Len(h) : last < n.rx[h[i]])
               => \A i \in 1 .. Len(h2) : last < k.rx[h2[i]]
<1> DEFINE c == n.rxNext
           f == n.rx[c]
           at(j) == Place(c, j, NR)
           good == ~(f < 0)
           p == m - 1
           d == IF good \/ s > 0 THEN s + 1 ELSE 0
           frame(j) == Magnitude(n.rx[at(j)])
<1>1. /\ NR \in Nat \ {0} /\ c \in 0 .. NR - 1 /\ n.rxCard \in 0 .. NR - 1
      /\ n.rx \in [0 .. NR - 1 -> Int]
  BY RingsAssumption DEF Cards
<1>2. Len(h) \in Nat /\ \A i \in 1 .. Len(h) : h[i] \in 0 .. NR - 1
  BY ElementOfSeq, LenProperties
<1>3. Frames(n, h, m, s) /\ Newer(n, h, m, last, come)
  BY DEF RingReceives
<1>4. /\ s + m <= NR
      /\ n.rxCard = at(m)
      /\ \A j \in 0 .. m - 1 : n.rx[at(j)] # 0
      /\ \A j \in m .. NR - 1 : n.rx[at(j)] # 0 => \E i \in 1 .. Len(h) : h[i] = at(j)
      /\ \A i \in 1 .. Len(h) : n.rx[h[i]] > 0 /\ \E x \in 1 .. s : h[i] = at(NR - x)
      /\ s > 0 => Len(h) > 0 /\ h[1] = at(NR - s)
  BY <1>3 DEF Frames
<1>5. /\ \A j \in 0 .. m - 1 : last < frame(j) /\ frame(j) <= come
      /\ \A i, j \in 0 .. m - 1 : i < j => frame(i) < frame(j)
      /\ \A i \in 1 .. Len(h) : n.rx[h[i]] <= come /\ \A j \in 0 .. m - 1 : n.rx[h[i]] < frame(j)
      /\ \A j, i \in 1 .. Len(h) : j < i => n.rx[h[j]] < n.rx[h[i]]
      /\ last <= come
  BY <1>3 DEF Newer
<1>6. \A j \in 0 .. NR : at(j) \in 0 .. NR - 1
  BY <1>1, PlaceIn
<1>7. at(NR) = c /\ at(0) = c
  BY <1>1, PlaceEnds
<1>8. \A i, j \in 0 .. NR - 1 : at(i) = at(j) => i = j
  BY <1>1, PlaceInjective
<1>9. k.rxNext = at(1)
  <2>1. 1 \in 0 .. NR
    BY <1>1
  <2>2. k.rxNext = (c + 1) % NR
    BY DEF FrameTaken, NextRx
  <2> QED BY <1>1, <2>1, <2>2, PlaceIn
<1>10. ASSUME NEW j \in 0 .. NR - 1 PROVE Place(k.rxNext, j, NR) = at(j + 1)
  <2>1. 1 \in 0 .. NR /\ j \in 0 .. NR /\ 1 + j <= NR /\ 1 + j = j + 1
    BY <1>1
  <2> QED BY <1>1, <1>9, <2>1, PlaceSum
<1>11. ASSUME NEW j \in 0 .. NR PROVE frame(j) \in Int /\ frame(j) >= 0
  <2>1. n.rx[at(j)] \in Int
    BY <1>1, <1>6
  <2> QED BY <2>1 DEF Magnitude
<1>12. f \in Int /\ f # 0 /\ frame(0) = Magnitude(f) /\ n.rx[c] = f
  <2>1. 0 \in 0 .. m - 1
    OBVIOUS
  <2>2. n.rx[at(0)] # 0
    BY <1>4, <2>1
  <2> QED BY <1>1, <1>7, <2>2
<1>13. k.rx = [n.rx EXCEPT ![c] = IF good THEN f ELSE 0] /\ k.rxCard = n.rxCard
  BY <1>12 DEF FrameTaken
<1>14. h2 = IF good THEN Append(h, c) ELSE h
  BY DEF FrameTaken
<1> HIDE DEF at, c, f, frame
<1>15. good => frame(0) = f /\ f > 0
  BY <1>12 DEF Magnitude
<1> HIDE DEF good
<1>16. p \in 0 .. NR /\ d \in 0 .. NR /\ d + p <= NR
  BY <1>1, <1>4
<1>17. \A i \in 0 .. NR - 1 : k.rx[i] = IF i = c /\ ~good THEN 0 ELSE n.rx[i]
  BY <1>1, <1>12, <1>13
<1>18. s = 0 => Len(h) = 0
  <2> SUFFICES ASSUME s = 0, Len(h) # 0 PROVE FALSE
    OBVIOUS
  <2>1. 1 \in 1 .. Len(h) /\ 1 .. s = {}
    BY <1>2
  <2> QED BY <1>4, <2>1
<1>19. /\ Len(h2) = Len(h) + (IF good THEN 1 ELSE 0)
       /\ \A i \in 1 .. Len(h) : h2[i] = h[i]
       /\ good => h2[Len(h) + 1] = c
  BY <1>1, <1>2, <1>14, AppendProperties
<1>20. ASSUME NEW i \in 1 .. Len(h) PROVE k.rx[h[i]] = n.rx[h[i]] /\ n.rx[h[i]] \in Int
  <2>1. n.rx[h[i]] > 0 /\ h[i] \in 0 .. NR - 1
    BY <1>2, <1>4
  <2>2. ~good => f < 0
    BY DEF good
  <2>3. ~good => h[i] # c
    BY <1>12, <2>1, <2>2
  <2> QED BY <1>1, <1>17, <2>1, <2>3
<1>21. good => k.rx[c] = f
  BY <1>1, <1>12, <1>17
<1>22. ASSUME NEW j \in 0 .. NR - 2
       PROVE  k.rx[at(j + 1)] = n.rx[at(j + 1)] /\ j + 1 \in 0 .. NR - 1 /\ j + 1 \in 0 .. NR
  <2>1. j + 1 \in 0 .. NR - 1 /\ j + 1 # 0 /\ 0 \in 0 .. NR - 1 /\ j + 1 \in 0 .. NR
    BY <1>1
  <2>2. at(j + 1) # c
    BY <1>7, <1>8, <2>1
  <2> QED BY <1>6, <1>17, <2>1, <2>2
<1>23. 0 .. p - 1 \subseteq 0 .. NR - 2 /\ \A j \in 0 .. p - 1 : j \in 0 .. NR - 1 /\ j + 1 \in 0 .. m - 1
  BY <1>1
<1>24. Frames(k, h2, p, d)
  <2>1. k.rxCard = Place(k.rxNext, p, NR)
    <3>1. p \in 0 .. NR - 1 /\ p + 1 = m
      BY <1>1
    <3> HIDE DEF p
    <3> QED BY <1>4, <1>10, <1>13, <3>1
  <2>2. ASSUME NEW j \in 0 .. p - 1 PROVE k.rx[Place(k.rxNext, j, NR)] # 0
    <3>1. j \in 0 .. NR - 2 /\ j \in 0 .. NR - 1 /\ j + 1 \in 0 .. m - 1
      BY <1>23
    <3> QED BY <1>4, <1>10, <1>22, <3>1
  <2>3. ASSUME NEW j \in p .. NR - 1, k.rx[Place(k.rxNext, j, NR)] # 0
        PROVE  \E i \in 1 .. Len(h2) : h2[i] = Place(k.rxNext, j, NR)
    <3>1. j \in 0 .. NR - 1
      BY <1>16
    <3>2. CASE j # NR - 1
      <4>1. j \in 0 .. NR - 2 /\ j + 1 \in m .. NR - 1
        <5>1. j >= p /\ p + 1 = m
          OBVIOUS
        <5> HIDE DEF p
        <5>2. j <= NR - 2 /\ j >= 0 /\ j + 1 >= m /\ j + 1 <= NR - 1
          BY <1>1, <1>16, <3>1, <3>2, <5>1
        <5> QED BY <1>1, <3>1, <5>2
      <4>2. n.rx[at(j + 1)] # 0
        BY <1>10, <1>22, <2>3, <3>1, <4>1
      <4>3. PICK i \in 1 .. Len(h) : h[i] = at(j + 1)
        BY <1>4, <4>1, <4>2
      <4>4. i \in 1 .. Len(h2)
        BY <1>2, <1>19
      <4> QED BY <1>10, <1>19, <3>1, <4>3, <4>4
    <3>3. CASE j = NR - 1
      <4>1. Place(k.rxNext, j, NR) = c
        <5>1. j + 1 = NR
          BY <1>1, <3>3
        <5> QED BY <1>7, <1>10, <3>1, <5>1
      <4>2. good
        BY <1>1, <1>17, <2>3, <4>1
      <4>3. Len(h) + 1 \in 1 .. Len(h2)
        BY <1>2, <1>19, <4>2
      <4> QED BY <1>19, <4>1, <4>2, <4>3
    <3> QED BY <3>2, <3>3
  <2>4. ASSUME NEW i \in 1 .. Len(h2)
        PROVE  k.rx[h2[i]] > 0 /\ \E x \in 1 .. d : h2[i] = Place(k.rxNext, NR - x, NR)
    <3>1. CASE i \in 1 .. Len(h)
      <4>1. PICK x \in 1 .. s : h[i] = at(NR - x)
        BY <1>4, <3>1
      <4>2. x + 1 \in 1 .. d /\ NR - (x + 1) \in 0 .. NR - 1 /\ (NR - (x + 1)) + 1 = NR - x
        <5>1. d = s + 1
          BY <4>1
        <5> QED BY <1>1, <1>4, <4>1, <5>1
      <4>3. h2[i] = Place(k.rxNext, NR - (x + 1), NR)
        BY <1>10, <1>19, <3>1, <4>1, <4>2
      <4>4. k.rx[h2[i]] > 0
        BY <1>4, <1>19, <1>20, <3>1
      <4> QED BY <4>2, <4>3, <4>4
    <3>2. CASE i \notin 1 .. Len(h)
      <4>1. good /\ i = Len(h) + 1
        BY <1>2, <1>19, <3>2
      <4>2. 1 \in 1 .. d /\ NR - 1 \in 0 .. NR - 1 /\ (NR - 1) + 1 = NR
        BY <1>1, <4>1
      <4>3. h2[i] = Place(k.rxNext, NR - 1, NR)
        BY <1>7, <1>10, <1>19, <4>1, <4>2
      <4>4. k.rx[h2[i]] > 0
        BY <1>15, <1>19, <1>21, <4>1
      <4> QED BY <4>2, <4>3, <4>4
    <3> QED BY <3>1, <3>2
  <2>5. ASSUME d > 0 PROVE Len(h2) > 0 /\ h2[1] = Place(k.rxNext, NR - d, NR)
    <3>1. d = s + 1 /\ NR - d \in 0 .. NR - 1 /\ (NR - d) + 1 = NR - s
      BY <1>1, <1>16, <2>5
    <3>2. Place(k.rxNext, NR - d, NR) = at(NR - s)
      <4> HIDE DEF d
      <4> QED BY <1>10, <3>1
    <3>3. CASE s > 0
      <4>1. 1 \in 1 .. Len(h)
        BY <1>2, <1>4, <3>3
      <4>2. h2[1] = at(NR - s)
        BY <1>4, <1>19, <3>3, <4>1
      <4>3. Len(h2) > 0
        BY <1>2, <1>19, <4>1
      <4> QED BY <3>2, <4>2, <4>3
    <3>4. CASE s = 0
      <4>1. good /\ Len(h) = 0 /\ NR - s = NR
        BY <1>1, <1>18, <2>5, <3>4
      <4> QED BY <1>7, <1>19, <3>2, <4>1
    <3> QED BY <3>3, <3>4
  <2> HIDE DEF p, d
  <2> QED BY <1>16, <2>1, <2>2, <2>3, <2>4, <2>5 DEF Frames
<1>25. Newer(k, h2, p, last, come)
  <2> DEFINE now(j) == Magnitude(k.rx[Place(k.rxNext, j, NR)])
  <2>1. ASSUME NEW j \in 0 .. p - 1 PROVE now(j) = frame(j + 1) /\ j + 1 \in 0 .. m - 1 /\ frame(j + 1) \in Int
    <3>1. j \in 0 .. NR - 2 /\ j \in 0 .. NR - 1 /\ j + 1 \in 0 .. m - 1 /\ j + 1 \in 0 .. NR
      BY <1>22, <1>23
    <3> QED BY <1>10, <1>11, <1>22, <3>1 DEF frame
  <2>2. \A j \in 0 .. p - 1 : last < now(j) /\ now(j) <= come
    BY <1>5, <2>1
  <2>3. ASSUME NEW i \in 0 .. p - 1, NEW j \in 0 .. p - 1, i < j PROVE now(i) < now(j)
    <3>1. i + 1 < j + 1
      BY <2>3
    <3> HIDE DEF now, p
    <3> QED BY <1>5, <2>1, <3>1
  <2> HIDE DEF now
  <2>4. ASSUME NEW i \in 1 .. Len(h2)
        PROVE  k.rx[h2[i]] <= come /\ \A j \in 0 .. p - 1 : k.rx[h2[i]] < now(j)
    <3>1. CASE i \in 1 .. Len(h)
      <4>1. k.rx[h2[i]] = n.rx[h[i]]
        BY <1>19, <1>20, <3>1
      <4> HIDE DEF p
      <4> QED BY <1>5, <2>1, <3>1, <4>1
    <3>2. CASE i \notin 1 .. Len(h)
      <4>1. good /\ i = Len(h) + 1
        BY <1>2, <1>19, <3>2
      <4>2. k.rx[h2[i]] = frame(0) /\ 0 \in 0 .. m - 1
        BY <1>15, <1>19, <1>21, <4>1
      <4>3. ASSUME NEW j \in 0 .. p - 1 PROVE frame(0) < now(j)
        <5>1. 0 < j + 1 /\ j + 1 \in 0 .. m - 1
          OBVIOUS
        <5> QED BY <1>5, <2>1, <4>2, <5>1
      <4> QED BY <1>5, <4>2, <4>3
    <3> QED BY <3>1, <3>2
  <2>5. ASSUME NEW j \in 1 .. Len(h2), NEW i \in 1 .. Len(h2), j < i PROVE k.rx[h2[j]] < k.rx[h2[i]]
    <3>1. j \in 1 .. Len(h)
      BY <1>2, <1>19, <2>5
    <3>2. k.rx[h2[j]] = n.rx[h[j]]
      BY <1>19, <1>20, <3>1
    <3>3. CASE i \in 1 .. Len(h)
      <4>1. k.rx[h2[i]] = n.rx[h[i]]
        BY <1>19, <1>20, <3>3
      <4> QED BY <1>5, <2>5, <3>1, <3>2, <3>3, <4>1
    <3>4. CASE i \notin 1 .. Len(h)
      <4>1. good /\ i = Len(h) + 1
        BY <1>2, <1>19, <3>4
      <4>2. k.rx[h2[i]] = frame(0) /\ 0 \in 0 .. m - 1
        BY <1>15, <1>19, <1>21, <4>1
      <4> QED BY <1>5, <3>1, <3>2, <4>2
    <3> QED BY <3>3, <3>4
  <2> HIDE DEF p
  <2> QED BY <1>5, <2>2, <2>3, <2>4, <2>5 DEF Newer, now
<1>26. ASSUME \A i \in 1 .. Len(h) : last < n.rx[h[i]], NEW i \in 1 .. Len(h2)
       PROVE  last < k.rx[h2[i]]
  <2>1. CASE i \in 1 .. Len(h)
    BY <1>19, <1>20, <1>26, <2>1
  <2>2. CASE i \notin 1 .. Len(h)
    <3>1. good /\ i = Len(h) + 1
      BY <1>2, <1>19, <2>2
    <3>2. k.rx[h2[i]] = frame(0) /\ 0 \in 0 .. m - 1
      BY <1>15, <1>19, <1>21, <3>1
    <3> QED BY <1>5, <3>2
  <2> QED BY <2>1, <2>2
<1>27. RingReceives(k, h2, p, d, last, come)
  <2> HIDE DEF p, d
  <2> QED BY <1>24, <1>25 DEF RingReceives
<1> HIDE DEF p, d
<1> QED BY <1>16, <1>26, <1>27

(* The frames in h are indicated: the last of them is the last indicated.     *)
LEMMA ReceivesIndicated ==
  ASSUME NEW n \in Cards, NEW h \in Seq(0 .. NR - 1), NEW m \in 0 .. NR, NEW s \in 0 .. NR,
         NEW last \in Int, NEW come \in Nat,
         RingReceives(n, h, m, s, last, come), h # <<>>
  PROVE  RingReceives(n, h, m, s, n.rx[h[Len(h)]], come)
<1>1. Len(h) \in 1 .. Len(h)
  BY EmptySeq, LenProperties
<1>2. Newer(n, h, m, last, come)
  BY DEF RingReceives
<1>3. Newer(n, h, m, n.rx[h[Len(h)]], come)
  BY <1>1, <1>2 DEF Newer
<1> QED BY <1>3 DEF RingReceives

(* They are given back to the card.                                           *)
LEMMA ReceivesReturned ==
  ASSUME NEW n \in Cards, NEW h \in Seq(0 .. NR - 1), NEW m \in 0 .. NR, NEW s \in 0 .. NR,
         NEW last \in Int, NEW come \in Nat,
         RingReceives(n, h, m, s, last, come), NEW k, FramesReturned(n, h, k)
  PROVE  /\ RingReceives(k, <<>>, m, 0, last, come)
         /\ m > 0 => k.rx[k.rxNext] = n.rx[n.rxNext]
<1> DEFINE c == n.rxNext
           at(j) == Place(c, j, NR)
<1>1. /\ NR \in Nat \ {0} /\ c \in 0 .. NR - 1 /\ n.rxCard \in 0 .. NR - 1
      /\ n.rx \in [0 .. NR - 1 -> Int]
  BY RingsAssumption DEF Cards
<1>2. Len(h) \in Nat /\ DOMAIN h = 1 .. Len(h) /\ \A i \in 1 .. Len(h) : h[i] \in 0 .. NR - 1
  BY ElementOfSeq, LenProperties
<1>3. Frames(n, h, m, s) /\ Newer(n, h, m, last, come)
  BY DEF RingReceives
<1>4. /\ s + m <= NR
      /\ n.rxCard = at(m)
      /\ \A j \in 0 .. m - 1 : n.rx[at(j)] # 0
      /\ \A j \in m .. NR - 1 : n.rx[at(j)] # 0 => \E i \in 1 .. Len(h) : h[i] = at(j)
      /\ \A i \in 1 .. Len(h) : n.rx[h[i]] > 0 /\ \E x \in 1 .. s : h[i] = at(NR - x)
  BY <1>3 DEF Frames
<1>5. \A j \in 0 .. NR : at(j) \in 0 .. NR - 1
  BY <1>1, PlaceIn
<1>6. \A i, j \in 0 .. NR - 1 : at(i) = at(j) => i = j
  BY <1>1, PlaceInjective
<1>7. at(0) = c
  BY <1>1, PlaceEnds
<1>8. /\ k.rxNext = c /\ k.rxCard = n.rxCard
      /\ k.rx = [i \in 0 .. NR - 1 |-> IF \E j \in DOMAIN h : h[j] = i THEN 0 ELSE n.rx[i]]
  BY DEF FramesReturned
<1> HIDE DEF at, c
<1>9. ASSUME NEW j \in 0 .. m - 1 PROVE k.rx[at(j)] = n.rx[at(j)] /\ at(j) \in 0 .. NR - 1
  <2>1. j \in 0 .. NR - 1 /\ j \in 0 .. NR
    BY <1>1
  <2>2. ASSUME NEW i \in 1 .. Len(h), h[i] = at(j) PROVE FALSE
    <3>1. PICK x \in 1 .. s : h[i] = at(NR - x)
      BY <1>4
    <3>2. NR - x \in 0 .. NR - 1 /\ NR - x # j
      BY <1>1, <1>4
    <3> QED BY <1>6, <2>1, <2>2, <3>1, <3>2
  <2>3. at(j) \in 0 .. NR - 1
    BY <1>5, <2>1
  <2> QED BY <1>2, <1>8, <2>2, <2>3
<1>10. ASSUME NEW j \in m .. NR - 1 PROVE k.rx[at(j)] = 0
  <2>1. at(j) \in 0 .. NR - 1
    <3>1. j \in 0 .. NR
      BY <1>1
    <3> QED BY <1>5, <3>1
  <2> QED BY <1>2, <1>4, <1>8, <2>1
<1>11. Len(<<>>) = 0 /\ 1 .. 0 = {} /\ ~(0 > 0)
  OBVIOUS
<1>12. Frames(k, <<>>, m, 0)
  <2>1. 0 + m <= NR
    BY <1>1
  <2> QED BY <1>4, <1>8, <1>9, <1>10, <1>11, <2>1 DEF Frames, at
<1>13. Newer(k, <<>>, m, last, come)
  <2> DEFINE frame(j) == Magnitude(n.rx[at(j)])
             now(j) == Magnitude(k.rx[at(j)])
  <2>1. \A j \in 0 .. m - 1 : now(j) = frame(j)
    BY <1>9
  <2>2. /\ \A j \in 0 .. m - 1 : last < frame(j) /\ frame(j) <= come
        /\ \A i, j \in 0 .. m - 1 : i < j => frame(i) < frame(j)
        /\ last <= come
    BY <1>3 DEF Newer, at, c
  <2> HIDE DEF frame, now
  <2>3. /\ \A j \in 0 .. m - 1 : last < now(j) /\ now(j) <= come
        /\ \A i, j \in 0 .. m - 1 : i < j => now(i) < now(j)
    BY <2>1, <2>2
  <2> QED BY <1>8, <1>11, <2>2, <2>3 DEF Newer, now, at
<1>14. m > 0 => k.rx[k.rxNext] = n.rx[n.rxNext]
  <2>1. m > 0 => 0 \in 0 .. m - 1
    OBVIOUS
  <2>2. m > 0 => k.rx[c] = n.rx[c]
    BY <1>7, <1>9, <2>1
  <2> QED BY <1>8, <2>2 DEF c
<1> QED BY <1>12, <1>13, <1>14 DEF RingReceives

(* A frame the loop sees that is not one of those in h has not been seen.     *)
LEMMA ReceivesUnseen ==
  ASSUME NEW n \in Cards, NEW h \in Seq(0 .. NR - 1), NEW m \in 0 .. NR, NEW s \in 0 .. NR,
         NEW last \in Int, NEW come \in Nat,
         RingReceives(n, h, m, s, last, come), n.rx[n.rxNext] # 0,
         ~\E i \in 1 .. Len(h) : h[i] = n.rxNext
  PROVE  m > 0
<1>1. NR \in Nat \ {0} /\ n.rxNext \in 0 .. NR - 1
  BY RingsAssumption DEF Cards
<1>2. Place(n.rxNext, 0, NR) = n.rxNext
  BY <1>1, PlaceEnds
<1>3. 0 \notin m .. NR - 1
  BY <1>2 DEF RingReceives, Frames
<1> QED BY <1>1, <1>3
-----------------------------------------------------------------------------
(* The invariant of the rings: types, the interrupt mask, and the two rings.  *)
RingsInv == RingTypes /\ MaskInv /\ SendInv /\ ReceiveInv

LEMMA RingsInvInit ==
  ASSUME RingsInit
  PROVE  RingsInv
<1>1. NT \in Nat \ {0} /\ NR \in Nat \ {0} /\ 0 \in 0 .. NT - 1 /\ 0 \in 0 .. NR - 1 /\ Watermark \in Nat
  BY RingsAssumption
<1> USE DEF RingsInit
<1>2. nic \in Cards
  BY <1>1 DEF Cards
<1>3. Len(<<>>) = 0 /\ 0 .. 0 - 1 = {} /\ 1 .. 0 = {} /\ <<>> \in Seq(0 .. NR - 1) /\ <<>> \in Seq(1 .. 0)
  OBVIOUS
<1>4. RingTypes
  <2>1. cur \in [at : 0 .. NR - 1, frame : Int]
    BY <1>1 DEF NoCur
  <2>2. Len(pktArray) <= Watermark
    BY <1>1, <1>3
  <2>3. given = 0 /\ given \in Nat /\ wire \in 0 .. given
    <3>1. given = 0
      BY DEF RingsInit
    <3>2. wire = 0
      BY DEF RingsInit
    <3>3. 0 \in Nat /\ 0 \in 0 .. 0
      OBVIOUS
    <3> QED BY <3>1, <3>2, <3>3
  <2>4. txQueue \in Seq(1 .. given) /\ refused \in Seq(1 .. given) /\ pktArray \in Seq(0 .. NR - 1)
    BY <1>3
  <2>5. handler \in Handlers /\ handler \notin {"up", "last"}
    BY DEF Handlers
  <2>6. homerun \in BOOLEAN /\ overtaken \in BOOLEAN /\ refused = <<>> /\ txQueue = <<>>
    OBVIOUS
  <2>7. lastIndicated \in Int /\ arrived \in Nat /\ bad \in Nat
    <3>1. lastIndicated = 0 /\ arrived = 0 /\ bad = 0
      BY DEF RingsInit
    <3> QED BY <3>1
  <2> QED BY <1>2, <2>1, <2>2, <2>3, <2>4, <2>5, <2>6, <2>7 DEF RingTypes, QueueTypes, LoopTypes
<1>5. MaskInv
  BY DEF MaskInv, NotDeaf
<1>6. SendInv
  <2>1. Place(0, 0, NT) = 0
    BY <1>1, PlaceEnds
  <2>2. ASSUME NEW j \in 0 .. NT - 1 PROVE Place(0, j, NT) \in 0 .. NT - 1
    <3>1. j \in 0 .. NT
      BY <1>1
    <3> QED BY <1>1, <3>1, PlaceIn
  <2>3. RingHolds(nic, <<>>)
    BY <1>1, <1>3, <2>1, <2>2 DEF RingHolds
  <2>4. Increasing(<<0>> \o <<>> \o <<>>)
    <3>1. <<0>> \o <<>> \o <<>> = <<0>> /\ DOMAIN <<0>> = {1}
      OBVIOUS
    <3> QED BY <3>1 DEF Increasing
  <2>5. InOrder(nic, 0, <<>>, 0)
    BY <1>3, <2>3, <2>4 DEF InOrder
  <2> QED BY <2>5 DEF SendInv, Waits
<1>7. ReceiveInv
  <2>1. Place(0, 0, NR) = 0
    BY <1>1, PlaceEnds
  <2>2. ASSUME NEW j \in 0 .. NR - 1 PROVE nic.rx[Place(0, j, NR)] = 0
    <3>1. j \in 0 .. NR
      BY <1>1
    <3>2. Place(0, j, NR) \in 0 .. NR - 1
      BY <1>1, <3>1, PlaceIn
    <3> QED BY <3>2
  <2>3. Frames(nic, <<>>, 0, 0)
    BY <1>1, <1>3, <2>1, <2>2 DEF Frames
  <2>4. Newer(nic, <<>>, 0, 0, 0)
    BY <1>3 DEF Newer
  <2>5. RingReceives(nic, <<>>, 0, 0, 0, 0)
    BY <2>3, <2>4 DEF RingReceives
  <2>6. 0 \in 0 .. NR
    BY <1>1
  <2> QED BY <1>3, <2>5, <2>6 DEF ReceiveInv, Receiving
<1> QED BY <1>4, <1>5, <1>6, <1>7 DEF RingsInv

-----------------------------------------------------------------------------
(* Sending.                                                                   *)

(* What SendPackets leaves: the card as it was, or restarted, its transmit    *)
(* ring filled up, and the packets that wait behind it.                       *)
LEMMA SendPacketsProps ==
  ASSUME RingTypes, given' \in Nat, given <= given', NEW ps \in Seq(1 .. given'), NEW ok \in BOOLEAN,
         SendPackets(ps, ok), InOrder(nic, wire, txQueue \o ps, given')
  PROVE  /\ nic' \in Cards
         /\ txQueue' \in Seq(1 .. given') /\ refused' \in Seq(1 .. given')
         /\ homerun => refused' = <<>>
         /\ ~homerun => txQueue' = <<>>
         /\ InOrder(nic', wire, IF homerun THEN txQueue' ELSE refused', given')
         /\ "IN_DPC" \in flags' <=> "IN_DPC" \in flags
         /\ \E n \in {nic, RestartCard(nic, ok)} :
               /\ nic'.rx = n.rx /\ nic'.rxNext = n.rxNext /\ nic'.rxCard = n.rxCard
               /\ nic'.running = n.running /\ nic'.iena = n.iena
               /\ (n = nic /\ overtaken' = overtaken) \/ (n = RestartCard(nic, ok) /\ Overtakes)
<1> DEFINE restart == homerun /\ ~nic.running
           n == IF restart THEN RestartCard(nic, ok) ELSE nic
           k == IF QueuesAll THEN 0 ELSE Room(n, Len(ps))
           rest == SubSeq(ps, k + 1, Len(ps))
           first == SubSeq(ps, 1, k)
           blocked == ~QueuesAll /\ "RESET_CALLED" \in flags
<1>1. /\ IF restart THEN Overtakes ELSE UNCHANGED overtaken
      /\ blocked => nic' = n /\ refused' = <<>> /\ txQueue' = txQueue /\ flags' = flags
      /\ ~blocked => /\ nic' = FillDescriptors(n, first)
                     /\ txQueue' = IF homerun THEN txQueue \o rest ELSE txQueue
                     /\ refused' = IF homerun THEN <<>> ELSE rest
                     /\ IF homerun THEN EnterDeferred ELSE UNCHANGED <<def, flags>>
  BY DEF SendPackets
<1>2. n \in Cards /\ n \in {nic, RestartCard(nic, ok)}
  BY RestartProps DEF RingTypes, QueueTypes, LoopTypes
<1>3. wire \in 0 .. given' /\ txQueue \in Seq(1 .. given') /\ homerun \in BOOLEAN
      /\ (~homerun => txQueue = <<>>) /\ <<>> \in Seq(1 .. given')
  <2>1. /\ txQueue \in Seq(1 .. given) /\ given \in Nat /\ wire \in 0 .. given
        /\ homerun \in BOOLEAN /\ (~homerun => txQueue = <<>>)
    BY DEF RingTypes, QueueTypes, LoopTypes
  <2>2. 1 .. given \subseteq 1 .. given'
    BY <2>1
  <2>3. txQueue \in Seq(1 .. given')
    <3>1. /\ Len(txQueue) \in Nat /\ txQueue = [i \in 1 .. Len(txQueue) |-> txQueue[i]]
          /\ \A i \in 1 .. Len(txQueue) : txQueue[i] \in 1 .. given
      BY <2>1, ElementOfSeq, LenProperties, SeqDef
    <3>2. \A i \in 1 .. Len(txQueue) : txQueue[i] \in 1 .. given'
      BY <2>2, <3>1
    <3> QED BY <3>1, <3>2, IsASeq
  <2> QED BY <2>1, <2>3
<1>4. InOrder(n, wire, txQueue \o ps, given')
  <2>1. txQueue \o ps \in Seq(1 .. given')
    BY <1>3, ConcatProperties
  <2>2. InOrder(RestartCard(nic, ok), wire, txQueue \o ps, given')
    BY <1>3, <2>1, OrderedRestart DEF RingTypes, QueueTypes, LoopTypes
  <2> QED BY <2>2
<1> HIDE DEF n
<1>5. InOrder(n, wire, txQueue, given')
  BY <1>3, <1>4, OrderedLess
<1>6. Len(ps) \in Nat /\ (QueuesAll => k = 0) /\ k \in 0 .. Len(ps)
  BY <1>2, LenProperties, RoomProps
<1>7. first \in Seq(1 .. given') /\ rest \in Seq(1 .. given') /\ Len(first) = k /\ first \o rest = ps
  <2>1. k \in 0 .. Len(ps) /\ Len(ps) \in Nat
    BY <1>6
  <2> HIDE DEF k
  <2>2. \A i \in 1 .. Len(ps) : ps[i] \in 1 .. given'
    BY ElementOfSeq
  <2>3. \A i \in 1 .. k : ps[i] \in 1 .. given'
    BY <2>1, <2>2
  <2>4. \A i \in k + 1 .. Len(ps) : ps[i] \in 1 .. given'
    BY <2>1, <2>2
  <2>5. first \in Seq(1 .. given') /\ Len(first) = IF 1 <= k THEN k - 1 + 1 ELSE 0
    BY <2>1, <2>3, SubSeqProperties
  <2>6. rest \in Seq(1 .. given')
    BY <2>1, <2>4, SubSeqProperties
  <2>7. SubSeq(ps, 1, k) \o SubSeq(ps, k + 1, Len(ps)) = SubSeq(ps, 1, Len(ps))
    <3>1. 1 \in 1 .. Len(ps) + 1 /\ k \in 1 - 1 .. Len(ps) /\ Len(ps) \in k .. Len(ps)
      BY <2>1
    <3> QED BY <3>1, ConcatAdjacentSubSeq
  <2>8. SubSeq(ps, 1, Len(ps)) = ps
    BY SubSeqFull
  <2>9. Len(first) = k
    BY <2>1, <2>5
  <2> QED BY <2>5, <2>6, <2>7, <2>8, <2>9
<1>8. \A i \in 0 .. Len(first) - 1 : i < NT /\ n.tx[(n.txNext + i) % NT] = 0
  <2>1. CASE QueuesAll
    <3>1. 0 .. Len(first) - 1 = {}
      BY <1>6, <1>7, <2>1
    <3> QED BY <3>1
  <2>2. CASE ~QueuesAll
    <3>1. Len(first) = Room(n, Len(ps))
      BY <1>7, <2>2
    <3> QED BY <1>2, <1>6, <3>1, RoomProps
  <2> QED BY <2>1, <2>2
<1>9. ~QueuesAll => txQueue = <<>>
  BY <1>3 DEF QueuesAll
<1> HIDE DEF k, rest, first, blocked
<1>10. "IN_DPC" \in flags' <=> "IN_DPC" \in flags
  BY <1>1 DEF EnterDeferred
<1>11. CASE blocked
  <2>1. nic' = n /\ refused' = <<>> /\ txQueue' = txQueue
    BY <1>1, <1>11
  <2>2. InOrder(nic', wire, IF homerun THEN txQueue' ELSE refused', given')
    BY <1>3, <1>5, <2>1
  <2> QED BY <1>1, <1>2, <1>3, <1>10, <2>1, <2>2 DEF n
<1>12. CASE ~blocked
  <2>1. /\ nic' = FillDescriptors(n, first)
        /\ txQueue' = IF homerun THEN txQueue \o rest ELSE txQueue
        /\ refused' = IF homerun THEN <<>> ELSE rest
    BY <1>1, <1>12
  <2>2. InOrder(n, wire, first \o (txQueue \o rest), given')
    <3>1. CASE QueuesAll
      <4>1. first = <<>>
        BY <1>6, <1>7, <3>1, EmptySeq
      <4>2. rest = ps
        BY <1>7, <4>1, ConcatEmptySeq
      <4>3. txQueue \o rest \in Seq(1 .. given')
        BY <1>3, <1>7, ConcatProperties
      <4>4. first \o (txQueue \o rest) = txQueue \o ps
        BY <4>1, <4>2, <4>3, ConcatEmptySeq
      <4> QED BY <1>4, <4>4
    <3>2. CASE ~QueuesAll
      <4>1. txQueue \o rest = rest /\ txQueue \o ps = ps
        BY <1>7, <1>9, <3>2, ConcatEmptySeq
      <4> QED BY <1>4, <1>7, <4>1
    <3> QED BY <3>1, <3>2
  <2>3. txQueue \o rest \in Seq(1 .. given')
    BY <1>3, <1>7, ConcatProperties
  <2>4. InOrder(nic', wire, txQueue \o rest, given')
    BY <1>2, <1>3, <1>7, <1>8, <2>1, <2>2, <2>3, OrderedFill
  <2>5. ~homerun => txQueue \o rest = rest
    BY <1>3, <1>7, ConcatEmptySeq
  <2>6. /\ nic' \in Cards /\ nic'.rx = n.rx /\ nic'.rxNext = n.rxNext /\ nic'.rxCard = n.rxCard
        /\ nic'.running = n.running /\ nic'.iena = n.iena
    <3>1. first \in Seq(Nat)
      BY <1>7, NumbersInt
    <3> QED BY <1>2, <2>1, <3>1, FillProps
  <2>7. InOrder(nic', wire, IF homerun THEN txQueue' ELSE refused', given')
    BY <1>3, <2>1, <2>4, <2>5
  <2>8. txQueue' \in Seq(1 .. given') /\ refused' \in Seq(1 .. given')
    BY <1>3, <1>7, <2>1, <2>3
  <2>9. (homerun => refused' = <<>>) /\ (~homerun => txQueue' = <<>>)
    BY <1>3, <2>1
  <2> QED BY <1>1, <1>2, <1>10, <2>6, <2>7, <2>8, <2>9 DEF n
<1> QED BY <1>11, <1>12

(* What NDIS may hand to SendPackets: new packets, or those it got back.      *)
LEMMA SendProps ==
  ASSUME RingTypes, SendInv, Send
  PROVE  /\ given' \in Nat /\ given <= given'
         /\ \E ps \in Seq(1 .. given'), ok \in BOOLEAN :
               SendPackets(ps, ok) /\ InOrder(nic, wire, txQueue \o ps, given')
<1>1. /\ given \in Nat /\ wire \in 0 .. given
      /\ txQueue \in Seq(1 .. given) /\ refused \in Seq(1 .. given)
      /\ homerun \in BOOLEAN /\ (homerun => refused = <<>>) /\ (~homerun => txQueue = <<>>)
  BY DEF RingTypes, QueueTypes, LoopTypes
<1>2. PICK ok \in BOOLEAN :
         \/ /\ refused = <<>>
            /\ \E k \in 1 .. 2 : /\ given' = given + k
                                 /\ SendPackets([i \in 1 .. k |-> given + i], ok)
         \/ refused # <<>> /\ SendPackets(refused, ok) /\ given' = given
  BY DEF Send
<1>3. CASE /\ refused = <<>>
           /\ \E k \in 1 .. 2 : /\ given' = given + k
                                /\ SendPackets([i \in 1 .. k |-> given + i], ok)
  <2>1. PICK k \in 1 .. 2 : given' = given + k /\ SendPackets([i \in 1 .. k |-> given + i], ok)
    BY <1>3
  <2> DEFINE ps == [i \in 1 .. k |-> given + i]
  <2>2. InOrder(nic, wire, txQueue, given)
    BY <1>1, <1>3 DEF SendInv, Waits
  <2>3. given' \in Nat /\ given <= given' /\ k \in Nat
    BY <1>1, <2>1
  <2>4. \A i \in 1 .. k : ps[i] \in given + 1 .. given' /\ ps[i] \in 1 .. given'
    BY <1>1, <2>1
  <2>5. ps \in Seq(given + 1 .. given') /\ ps \in Seq(1 .. given')
    <3>1. \A i \in 1 .. k : given + i \in given + 1 .. given' /\ given + i \in 1 .. given'
      BY <2>4
    <3> QED BY <2>3, <3>1, IsASeq
  <2>6. Increasing(ps)
    <3>1. \A i, j \in 1 .. k : i < j => given + i < given + j
      BY <1>1, <2>3
    <3> QED BY <3>1 DEF Increasing
  <2> HIDE DEF ps
  <2>7. InOrder(nic, wire, txQueue \o ps, given')
    BY <1>1, <2>2, <2>3, <2>5, <2>6, OrderedMore
  <2> QED BY <2>1, <2>3, <2>5, <2>7 DEF ps
<1>4. CASE refused # <<>> /\ SendPackets(refused, ok) /\ given' = given
  <2>1. ~homerun /\ txQueue = <<>>
    BY <1>1, <1>4
  <2>2. txQueue \o refused = refused
    BY <1>1, <2>1, ConcatEmptySeq
  <2>3. InOrder(nic, wire, refused, given)
    BY <2>1 DEF SendInv, Waits
  <2>4. given' = given /\ SendPackets(refused, ok) /\ refused \in Seq(1 .. given)
    BY <1>1, <1>4
  <2>5. given' \in Nat /\ given <= given'
    BY <1>1, <2>4
  <2> QED BY <2>2, <2>3, <2>4, <2>5
<1> QED BY <1>2, <1>3, <1>4

(* The packet at the head of the queue goes to the ring.                      *)
LEMMA HeadProps ==
  ASSUME NEW g \in Nat, NEW q \in Seq(1 .. g), q # <<>>
  PROVE  /\ <<Head(q)>> \in Seq(1 .. g) /\ Tail(q) \in Seq(1 .. g) /\ Head(q) \in 1 .. g
         /\ q = <<Head(q)>> \o Tail(q) /\ Len(<<Head(q)>>) = 1 /\ <<Head(q)>>[1] = Head(q)
<1>1. Head(q) \in 1 .. g /\ Tail(q) \in Seq(1 .. g) /\ q = <<Head(q)>> \o Tail(q)
  BY HeadTailProperties
<1>2. ASSUME NEW x \in 1 .. g PROVE <<x>> \in Seq(1 .. g) /\ Len(<<x>>) = 1 /\ <<x>>[1] = x
  OBVIOUS
<1> QED BY <1>1, <1>2

(* The turn of the loop that puts a packet in the ring.                       *)
Fills == txQueue # <<>> /\ "RESET_CALLED" \notin flags /\ ~RingFull(nic)

LEMMA DeferredTurnProps ==
  ASSUME RingTypes, SendInv, DeferredTurn
  PROVE  /\ nic' \in Cards /\ InOrder(nic', wire, IF homerun THEN txQueue' ELSE refused, given)
         /\ txQueue' \in Seq(1 .. given) /\ (~homerun => txQueue' = <<>>)
         /\ nic'.rx = nic.rx /\ nic'.rxNext = nic.rxNext /\ nic'.rxCard = nic.rxCard
         /\ nic'.running = nic.running /\ nic'.iena = nic.iena
         /\ "IN_DPC" \in flags' <=> "IN_DPC" \in flags
         /\ handler' = handler \/ (handler = "deferred" /\ handler' = "txclear")
<1>1. /\ given \in Nat /\ wire \in 0 .. given /\ nic \in Cards /\ txQueue \in Seq(1 .. given)
      /\ homerun \in BOOLEAN /\ (~homerun => txQueue = <<>>)
  BY DEF RingTypes, QueueTypes, LoopTypes
<1>2. InOrder(nic, wire, Waits, given)
  BY DEF SendInv
<1>3. CASE Fills
  <2>1. /\ nic' = FillDescriptors(nic, <<Head(txQueue)>>) /\ txQueue' = Tail(txQueue)
        /\ handler' = handler /\ flags' = flags
    BY <1>3 DEF DeferredTurn, Fills
  <2>2. homerun /\ txQueue # <<>> /\ Waits = txQueue
    BY <1>1, <1>3 DEF Fills, Waits
  <2> DEFINE ps == <<Head(txQueue)>>
  <2>3. /\ ps \in Seq(1 .. given) /\ Tail(txQueue) \in Seq(1 .. given)
        /\ txQueue = ps \o Tail(txQueue) /\ Len(ps) = 1
    BY <1>1, <2>2, HeadProps
  <2> HIDE DEF ps
  <2>4. \A i \in 0 .. Len(ps) - 1 : i < NT /\ nic.tx[(nic.txNext + i) % NT] = 0
    <3>1. NT \in Nat \ {0} /\ nic.txNext \in 0 .. NT - 1 /\ 0 \in 0 .. NT
      BY <1>1, RingsAssumption DEF Cards
    <3>2. (nic.txNext + 0) % NT = nic.txNext
      BY <3>1, PlaceIn, PlaceEnds
    <3>3. nic.tx[nic.txNext] = 0
      BY <1>3 DEF Fills, RingFull
    <3>4. 0 .. Len(ps) - 1 = {0}
      BY <2>3
    <3>5. ASSUME NEW i \in 0 .. Len(ps) - 1 PROVE i = 0
      BY <3>4
    <3>6. 0 < NT
      BY <3>1
    <3> QED BY <3>2, <3>3, <3>5, <3>6
  <2>5. InOrder(nic', wire, Tail(txQueue), given)
    BY <1>1, <1>2, <2>1, <2>2, <2>3, <2>4, OrderedFill DEF ps
  <2>6. ps \in Seq(Nat)
    BY <1>1, <2>3, NumbersInt
  <2> QED BY <1>1, <2>1, <2>2, <2>3, <2>5, <2>6, FillProps DEF ps
<1>4. CASE ~Fills
  <2>1. nic' = nic /\ txQueue' = txQueue /\ flags' = flags \ {"DEFERRED"}
        /\ handler' = IF handler = "deferred" THEN "txclear" ELSE handler
    BY <1>4 DEF DeferredTurn, Fills
  <2>2. "IN_DPC" \in flags' <=> "IN_DPC" \in flags
    BY <2>1
  <2> QED BY <1>1, <1>2, <2>1, <2>2 DEF Waits
<1> QED BY <1>3, <1>4

(* One completion by LanceReset, or its end.                                  *)
LEMMA CompleteQueueProps ==
  ASSUME RingTypes, CompleteQueue, NEW n, InOrder(n, wire, Waits, given)
  PROVE  /\ InOrder(n, wire, IF homerun THEN txQueue' ELSE refused, given)
         /\ txQueue' \in Seq(1 .. given) /\ (~homerun => txQueue' = <<>>)
         /\ "IN_DPC" \in flags' <=> "IN_DPC" \in flags
<1>1. /\ given \in Nat /\ wire \in 0 .. given /\ txQueue \in Seq(1 .. given)
      /\ homerun \in BOOLEAN /\ (~homerun => txQueue = <<>>)
  BY DEF RingTypes, QueueTypes, LoopTypes
<1>2. CASE txQueue # <<>>
  <2>1. txQueue' = Tail(txQueue) /\ flags' = flags \cup {"RESET_CALLED"}
    BY <1>2 DEF CompleteQueue, Dequeued
  <2>2. homerun /\ Waits = txQueue
    BY <1>1, <1>2 DEF Waits
  <2>3. /\ <<Head(txQueue)>> \in Seq(1 .. given) /\ Tail(txQueue) \in Seq(1 .. given)
        /\ txQueue = <<Head(txQueue)>> \o Tail(txQueue)
    BY <1>1, <1>2, HeadProps
  <2>4. InOrder(n, wire, Tail(txQueue), given)
    BY <1>1, <2>2, <2>3, OrderedLess
  <2>5. "IN_DPC" \in flags' <=> "IN_DPC" \in flags
    BY <2>1
  <2> QED BY <2>1, <2>2, <2>3, <2>4, <2>5
<1>3. CASE txQueue = <<>>
  <2>1. txQueue' = txQueue /\ flags' = flags \ {"RESET_CALLED"}
    BY <1>3 DEF CompleteQueue
  <2>2. "IN_DPC" \in flags' <=> "IN_DPC" \in flags
    BY <2>1
  <2> QED BY <1>1, <2>1, <2>2 DEF Waits
<1> QED BY <1>2, <1>3

-----------------------------------------------------------------------------
(* Receiving.                                                                 *)

(* A step that leaves the receive ring and what is indicated as they are.     *)
LEMMA ReceiveKept ==
  ASSUME ReceiveInv,
         nic'.rx = nic.rx, nic'.rxNext = nic.rxNext, nic'.rxCard = nic.rxCard,
         UNCHANGED <<pktArray, cur, lastIndicated, overtaken, arrived, bad>>,
         handler' \notin Receiving => handler \notin Receiving \/ pktArray = <<>>,
         handler' \in {"rx", "clear"} => handler \in {"rx", "clear"} \/ handler \notin Receiving,
         handler' = "up" => handler = "up"
  PROVE  ReceiveInv'
<1> SUFFICES ASSUME ~overtaken' PROVE (handler \notin Receiving => pktArray = <<>>)' /\
             (\E m, s \in 0 .. NR :
                 /\ RingReceives(nic, pktArray, m, s, lastIndicated, arrived)
                 /\ handler \in {"rx", "clear"} =>
                       \A k \in 1 .. Len(pktArray) : lastIndicated < nic.rx[pktArray[k]]
                 /\ handler = "up" =>
                       m > 0 /\ cur = [at |-> nic.rxNext, frame |-> nic.rx[nic.rxNext]])'
  BY DEF ReceiveInv
<1>1. ~overtaken
  OBVIOUS
<1>2. (handler \notin Receiving => pktArray = <<>>)'
  BY <1>1 DEF ReceiveInv
<1>3. (\E m, s \in 0 .. NR :
                 /\ RingReceives(nic, pktArray, m, s, lastIndicated, arrived)
                 /\ handler \in {"rx", "clear"} =>
                       \A k \in 1 .. Len(pktArray) : lastIndicated < nic.rx[pktArray[k]]
                 /\ handler = "up" =>
                       m > 0 /\ cur = [at |-> nic.rxNext, frame |-> nic.rx[nic.rxNext]])'
  <2>2. PICK m, s \in 0 .. NR :
                 /\ RingReceives(nic, pktArray, m, s, lastIndicated, arrived)
                 /\ handler \in {"rx", "clear"} =>
                       \A k \in 1 .. Len(pktArray) : lastIndicated < nic.rx[pktArray[k]]
                 /\ handler = "up" =>
                       m > 0 /\ cur = [at |-> nic.rxNext, frame |-> nic.rx[nic.rxNext]]
    BY <1>1 DEF ReceiveInv
  <2>3. RingReceives(nic', pktArray', m, s, lastIndicated', arrived')
    BY <2>2, ReceivesSame
  <2>4. handler' \in {"rx", "clear"} =>
            \A k \in 1 .. Len(pktArray') : lastIndicated' < nic'.rx[pktArray'[k]]
    <3>1. handler \notin Receiving => 1 .. Len(pktArray) = {}
      <4>1. Len(<<>>) = 0 /\ 1 .. 0 = {}
        OBVIOUS
      <4> QED BY <1>1, <4>1 DEF ReceiveInv
    <3> QED BY <2>2, <3>1
  <2>5. handler' = "up" => m > 0 /\ cur' = [at |-> nic'.rxNext, frame |-> nic'.rx[nic'.rxNext]]
    BY <2>2
  <2> QED BY <2>3, <2>4, <2>5
<1> QED BY <1>2, <1>3

(* A restart: one that leaves no mark in overtaken comes with PktArray empty. *)
LEMMA ReceiveRestarted ==
  ASSUME RingTypes, ReceiveInv, NEW ok \in BOOLEAN, NEW n \in Cards,
         LET r == RestartCard(n, ok)
         IN  nic'.rx = r.rx /\ nic'.rxNext = r.rxNext /\ nic'.rxCard = r.rxCard,
         UNCHANGED <<pktArray, lastIndicated, arrived, bad>>,
         ~overtaken' => ~overtaken /\ handler \notin Receiving /\ handler' \notin Receiving
  PROVE  ReceiveInv'
<1> SUFFICES ASSUME ~overtaken'
             PROVE  pktArray' = <<>> /\ handler' \notin Receiving /\
                    \E m, s \in 0 .. NR :
                       RingReceives(nic', pktArray', m, s, lastIndicated', arrived')
  BY DEF ReceiveInv, Receiving
<1>1. ~overtaken /\ handler \notin Receiving /\ handler' \notin Receiving
  OBVIOUS
<1>2. pktArray' = <<>>
  BY <1>1 DEF ReceiveInv
<1>3. \E m, s \in 0 .. NR : RingReceives(nic', pktArray', m, s, lastIndicated', arrived')
  <2>2. PICK m, s \in 0 .. NR : RingReceives(nic, pktArray, m, s, lastIndicated, arrived)
    BY <1>1 DEF ReceiveInv
  <2>3. lastIndicated <= arrived
    BY <2>2 DEF RingReceives, Newer
  <2>4. RingReceives(RestartCard(n, ok), <<>>, 0, 0, lastIndicated, arrived)
    BY <2>3, ReceivesRestart DEF RingTypes, QueueTypes, LoopTypes
  <2>5. RingReceives(nic', pktArray', 0, 0, lastIndicated', arrived')
    BY <1>2, <2>4, ReceivesSame
  <2>6. 0 \in 0 .. NR
    BY RingsAssumption
  <2> QED BY <2>5, <2>6
<1> QED BY <1>1, <1>2, <1>3

LEMMA ReceiveTurnStep ==
  ASSUME RingTypes, ReceiveInv, ReceiveTurn
  PROVE  ReceiveInv'
<1> DEFINE i == nic.rxNext
           f == nic.rx[i]
<1>1. /\ handler = "rx"
      /\ UNCHANGED <<arrived, bad>>
      /\ \/ /\ f = 0
            /\ handler' = "clear"
            /\ UNCHANGED <<nic, pktArray, cur, lastIndicated, overtaken>>
         \/ /\ f # 0 /\ Len(pktArray) >= Watermark /\ ComesRound
            /\ cur' = [at |-> i, frame |-> f]
            /\ lastIndicated' = nic.rx[pktArray[Len(pktArray)]] /\ handler' = "up"
            /\ UNCHANGED <<nic, pktArray>>
         \/ /\ f # 0 /\ ComesRound
            /\ TakeFrame(nic, pktArray, i, f)
            /\ UNCHANGED <<handler, cur, lastIndicated>>
  BY DEF ReceiveTurn, Indicate, lineVars
<1>2. /\ nic \in Cards /\ pktArray \in Seq(0 .. NR - 1) /\ Len(pktArray) <= Watermark
      /\ lastIndicated \in Int /\ arrived \in Nat /\ bad \in Nat
  BY DEF RingTypes, QueueTypes, LoopTypes
<1>3. CASE f = 0 /\ handler' = "clear" /\ UNCHANGED <<nic, pktArray, cur, lastIndicated, overtaken>>
  BY <1>1, <1>3, ReceiveKept DEF Receiving
<1>4. ASSUME f # 0, ComesRound, ~overtaken'
      PROVE  \E m, s \in 0 .. NR :
               /\ m > 0 /\ RingReceives(nic, pktArray, m, s, lastIndicated, arrived)
               /\ \A k \in 1 .. Len(pktArray) : lastIndicated < nic.rx[pktArray[k]]
  <2>1. PICK m, s \in 0 .. NR :
               /\ RingReceives(nic, pktArray, m, s, lastIndicated, arrived)
               /\ \A k \in 1 .. Len(pktArray) : lastIndicated < nic.rx[pktArray[k]]
    BY <1>1, <1>4 DEF ReceiveInv, ComesRound
  <2>2. ~\E k \in 1 .. Len(pktArray) : pktArray[k] = nic.rxNext
    BY <1>2, <1>4, LenProperties DEF ComesRound
  <2>3. m > 0
    BY <1>2, <1>4, <2>1, <2>2, ReceivesUnseen
  <2> QED BY <2>1, <2>3
<1>5. CASE /\ f # 0 /\ ComesRound /\ Len(pktArray) >= Watermark
           /\ cur' = [at |-> i, frame |-> f]
           /\ lastIndicated' = nic.rx[pktArray[Len(pktArray)]] /\ handler' = "up"
           /\ UNCHANGED <<nic, pktArray>>
  <2>1. ASSUME ~overtaken'
        PROVE  \E m, s \in 0 .. NR :
                 RingReceives(nic, pktArray, m, s, lastIndicated', arrived) /\ m > 0
    <3>2. PICK m, s \in 0 .. NR : m > 0 /\ RingReceives(nic, pktArray, m, s, lastIndicated, arrived)
      BY <1>4, <1>5, <2>1
    <3>3. pktArray # <<>>
      <4>1. Len(pktArray) > 0
        BY <1>2, <1>5, RingsAssumption
      <4>2. Len(<<>>) = 0
        OBVIOUS
      <4> QED BY <4>1, <4>2
    <3>4. RingReceives(nic, pktArray, m, s, lastIndicated', arrived)
      BY <1>2, <1>5, <3>2, <3>3, ReceivesIndicated
    <3> QED BY <3>2, <3>4
  <2>2. nic' = nic /\ pktArray' = pktArray /\ arrived' = arrived /\ bad' = bad /\ handler' = "up"
    BY <1>1, <1>5
  <2>3. cur' = [at |-> nic'.rxNext, frame |-> nic'.rx[nic'.rxNext]]
    BY <1>5
  <2> HIDE DEF i, f
  <2> QED BY <2>1, <2>2, <2>3 DEF ReceiveInv, Receiving
<1>6. CASE f # 0 /\ ComesRound /\ TakeFrame(nic, pktArray, i, f) /\ UNCHANGED <<handler, cur, lastIndicated>>
  <2>1. ASSUME ~overtaken'
        PROVE  /\ \E m, s \in 0 .. NR : RingReceives(nic', pktArray', m, s, lastIndicated, arrived)
               /\ \A k \in 1 .. Len(pktArray') : lastIndicated < nic'.rx[pktArray'[k]]
    <3>2. PICK m, s \in 0 .. NR :
               /\ m > 0 /\ RingReceives(nic, pktArray, m, s, lastIndicated, arrived)
               /\ \A k \in 1 .. Len(pktArray) : lastIndicated < nic.rx[pktArray[k]]
      BY <1>4, <1>6, <2>1
    <3>3. /\ nic' = [nic EXCEPT !.rx[i] = IF f < 0 THEN 0 ELSE @, !.rxNext = NextRx(@)]
          /\ pktArray' = IF f < 0 THEN pktArray ELSE Append(pktArray, i)
      BY <1>6 DEF TakeFrame
    <3>4. /\ nic'.rx = [nic.rx EXCEPT ![i] = IF f < 0 THEN 0 ELSE @]
          /\ nic'.rxNext = NextRx(i) /\ nic'.rxCard = nic.rxCard
      <4> HIDE DEF f
      <4> QED BY <1>2, <3>3 DEF Cards
    <3>5. FrameTaken(nic, pktArray, nic', pktArray')
      BY <3>3, <3>4 DEF FrameTaken
    <3> QED BY <1>2, <3>2, <3>5, ReceivesTaken
  <2>2. arrived' = arrived /\ bad' = bad /\ handler' = "rx" /\ lastIndicated' = lastIndicated
    BY <1>1, <1>6
  <2> HIDE DEF i, f
  <2> QED BY <2>1, <2>2 DEF ReceiveInv, Receiving
<1> HIDE DEF i, f
<1> QED BY <1>1, <1>3, <1>5, <1>6

LEMMA RcvCompleteProps ==
  ASSUME RingTypes
  PROVE  LET k == RcvComplete(nic)
         IN  /\ k \in Cards
             /\ k.rx = [i \in 0 .. NR - 1 |-> IF \E j \in DOMAIN pktArray : pktArray[j] = i
                                               THEN 0 ELSE nic.rx[i]]
             /\ k.tx = nic.tx /\ k.txNext = nic.txNext /\ k.txCard = nic.txCard
             /\ k.rxNext = nic.rxNext /\ k.rxCard = nic.rxCard
             /\ k.running = nic.running /\ k.iena = nic.iena
<1> DEFINE rx == [i \in 0 .. NR - 1 |-> IF \E j \in DOMAIN pktArray : pktArray[j] = i
                                        THEN 0 ELSE nic.rx[i]]
<1>1. nic \in Cards
  BY DEF RingTypes, QueueTypes, LoopTypes
<1>2. rx \in [0 .. NR - 1 -> Int]
  <2>1. \A i \in 0 .. NR - 1 : nic.rx[i] \in Int
    BY <1>1 DEF Cards
  <2>2. ASSUME NEW i \in 0 .. NR - 1
        PROVE  (IF \E j \in DOMAIN pktArray : pktArray[j] = i THEN 0 ELSE nic.rx[i]) \in Int
    BY <2>1
  <2> QED BY <2>2
<1> DEFINE k == RcvComplete(nic)
<1>3. k = [nic EXCEPT !.rx = rx]
  BY DEF RcvComplete
<1> HIDE DEF rx, k
<1>4. /\ k \in Cards /\ k.rx = rx
      /\ k.tx = nic.tx /\ k.txNext = nic.txNext /\ k.txCard = nic.txCard
      /\ k.rxNext = nic.rxNext /\ k.rxCard = nic.rxCard
      /\ k.running = nic.running /\ k.iena = nic.iena
  BY <1>1, <1>2, <1>3 DEF Cards
<1> QED BY <1>4 DEF k, rx

LEMMA IndicateReturnStep ==
  ASSUME RingTypes, ReceiveInv, IndicateReturn
  PROVE  ReceiveInv'
<1> DEFINE k == RcvComplete(nic)
<1>1. /\ handler = "up" /\ handler' = "rx"
      /\ TakeFrame(k, <<>>, cur.at, cur.frame)
      /\ UNCHANGED <<lastIndicated, overtaken, arrived, bad>>
  BY DEF IndicateReturn, lineVars
<1>2. /\ nic \in Cards /\ pktArray \in Seq(0 .. NR - 1)
      /\ lastIndicated \in Int /\ arrived \in Nat /\ bad \in Nat
      /\ cur \in [at : 0 .. NR - 1, frame : Int]
  BY DEF RingTypes, QueueTypes, LoopTypes
<1>3. /\ k \in Cards
      /\ k.rx = [i \in 0 .. NR - 1 |-> IF \E j \in DOMAIN pktArray : pktArray[j] = i
                                        THEN 0 ELSE nic.rx[i]]
      /\ k.rxNext = nic.rxNext /\ k.rxCard = nic.rxCard
  BY RcvCompleteProps
<1> HIDE DEF k
<1>4. /\ nic' = [k EXCEPT !.rx[cur.at] = IF cur.frame < 0 THEN 0 ELSE @, !.rxNext = NextRx(@)]
      /\ pktArray' = IF cur.frame < 0 THEN <<>> ELSE Append(<<>>, cur.at)
  BY <1>1 DEF TakeFrame
<1>5. /\ nic'.rx = [k.rx EXCEPT ![cur.at] = IF cur.frame < 0 THEN 0 ELSE @]
      /\ nic'.rxNext = NextRx(k.rxNext) /\ nic'.rxCard = k.rxCard
  BY <1>3, <1>4 DEF Cards
<1>6. ASSUME ~overtaken'
      PROVE  /\ \E m, s \in 0 .. NR : RingReceives(nic', pktArray', m, s, lastIndicated, arrived)
             /\ \A i \in 1 .. Len(pktArray') : lastIndicated < nic'.rx[pktArray'[i]]
  <2>1. ~overtaken
    BY <1>1, <1>6
  <2>2. PICK m, s \in 0 .. NR :
          /\ RingReceives(nic, pktArray, m, s, lastIndicated, arrived)
          /\ m > 0 /\ cur = [at |-> nic.rxNext, frame |-> nic.rx[nic.rxNext]]
    BY <1>1, <2>1 DEF ReceiveInv
  <2>3. /\ RingReceives(k, <<>>, m, 0, lastIndicated, arrived)
        /\ k.rx[k.rxNext] = nic.rx[nic.rxNext]
    <3>1. FramesReturned(nic, pktArray, k)
      BY <1>3 DEF FramesReturned
    <3>2. RingReceives(nic, pktArray, m, s, lastIndicated, arrived) /\ m > 0
      BY <2>2
    <3>3. nic \in Cards /\ pktArray \in Seq(0 .. NR - 1) /\ lastIndicated \in Int /\ arrived \in Nat /\ bad \in Nat
      BY <1>2
    <3> QED BY <3>1, <3>2, <3>3, ReceivesReturned
  <2>4. cur.at = k.rxNext /\ cur.frame = k.rx[k.rxNext]
    BY <1>3, <2>2, <2>3
  <2>5. <<>> \in Seq(0 .. NR - 1) /\ 0 \in 0 .. NR /\ \A i \in 1 .. Len(<<>>) : lastIndicated < k.rx[<<>>[i]]
    <3>1. 1 .. Len(<<>>) = {}
      OBVIOUS
    <3> QED BY <3>1, RingsAssumption
  <2>6. FrameTaken(k, <<>>, nic', pktArray')
    BY <1>4, <1>5, <2>4 DEF FrameTaken
  <2> QED BY <1>2, <1>3, <2>2, <2>3, <2>5, <2>6, ReceivesTaken
<1>7. handler' = "rx" /\ lastIndicated' = lastIndicated /\ arrived' = arrived /\ bad' = bad
  BY <1>1
<1> QED BY <1>6, <1>7 DEF ReceiveInv, Receiving

LEMMA ClearReceiveStep ==
  ASSUME RingTypes, ReceiveInv, ClearReceive
  PROVE  ReceiveInv'
<1>1. /\ handler = "clear" /\ nic' = [nic EXCEPT !.ints = @ \ {"RINT", "MISS"}]
      /\ UNCHANGED <<pktArray, cur, overtaken, arrived, bad>>
      /\ IF pktArray # <<>>
         THEN lastIndicated' = nic.rx[pktArray[Len(pktArray)]] /\ handler' = "last"
         ELSE handler' \in {"tx", "end"} /\ UNCHANGED lastIndicated
  BY DEF ClearReceive, Indicate, AfterReceive, lineVars
<1>2. /\ nic \in Cards /\ pktArray \in Seq(0 .. NR - 1)
      /\ lastIndicated \in Int /\ arrived \in Nat /\ bad \in Nat
  BY DEF RingTypes, QueueTypes, LoopTypes
<1>3. nic'.rx = nic.rx /\ nic'.rxNext = nic.rxNext /\ nic'.rxCard = nic.rxCard
  BY <1>1, <1>2 DEF Cards
<1>4. CASE pktArray = <<>>
  BY <1>1, <1>3, <1>4, ReceiveKept DEF Receiving
<1>5. CASE pktArray # <<>>
  <2>1. ASSUME ~overtaken'
        PROVE  \E m, s \in 0 .. NR : RingReceives(nic', pktArray', m, s, lastIndicated', arrived')
    <3>1. ~overtaken
      BY <1>1, <2>1
    <3>2. PICK m, s \in 0 .. NR : RingReceives(nic, pktArray, m, s, lastIndicated, arrived)
      BY <3>1 DEF ReceiveInv
    <3>3. RingReceives(nic, pktArray, m, s, lastIndicated', arrived)
      BY <1>1, <1>2, <1>5, <3>2, ReceivesIndicated
    <3>4. pktArray' = pktArray /\ arrived' = arrived /\ bad' = bad
      BY <1>1
    <3>5. RingReceives(nic', pktArray, m, s, lastIndicated', arrived)
      BY <1>3, <3>3, ReceivesSame
    <3> QED BY <3>4, <3>5
  <2>2. handler' = "last"
    BY <1>1, <1>5
  <2> QED BY <2>1, <2>2 DEF ReceiveInv, Receiving
<1> QED BY <1>4, <1>5

LEMMA LastReturnStep ==
  ASSUME RingTypes, ReceiveInv, LastReturn
  PROVE  ReceiveInv'
<1> DEFINE k == RcvComplete(nic)
<1>1. /\ handler = "last" /\ nic' = k /\ pktArray' = <<>> /\ handler' \in {"tx", "end"}
      /\ UNCHANGED <<lastIndicated, overtaken, arrived, bad>>
  BY DEF LastReturn, AfterReceive, lineVars
<1>2. /\ nic \in Cards /\ pktArray \in Seq(0 .. NR - 1)
      /\ lastIndicated \in Int /\ arrived \in Nat /\ bad \in Nat
  BY DEF RingTypes, QueueTypes, LoopTypes
<1>3. /\ k.rx = [i \in 0 .. NR - 1 |-> IF \E j \in DOMAIN pktArray : pktArray[j] = i
                                        THEN 0 ELSE nic.rx[i]]
      /\ k.rxNext = nic.rxNext /\ k.rxCard = nic.rxCard
  BY RcvCompleteProps
<1> HIDE DEF k
<1>4. ASSUME ~overtaken'
      PROVE  \E m, s \in 0 .. NR : RingReceives(nic', pktArray', m, s, lastIndicated', arrived')
  <2>1. ~overtaken
    BY <1>1, <1>4
  <2>2. PICK m, s \in 0 .. NR : RingReceives(nic, pktArray, m, s, lastIndicated, arrived)
    BY <2>1 DEF ReceiveInv
  <2>3. RingReceives(k, <<>>, m, 0, lastIndicated, arrived)
    <3>1. FramesReturned(nic, pktArray, k)
      BY <1>3 DEF FramesReturned
    <3> QED BY <1>2, <2>2, <3>1, ReceivesReturned
  <2>4. nic' = k /\ pktArray' = <<>> /\ lastIndicated' = lastIndicated /\ arrived' = arrived /\ bad' = bad
    BY <1>1
  <2>5. 0 \in 0 .. NR
    BY RingsAssumption
  <2> QED BY <2>3, <2>4, <2>5
<1>5. pktArray' = <<>> /\ handler' \in {"tx", "end"}
  BY <1>1
<1> QED BY <1>4, <1>5 DEF ReceiveInv, Receiving

LEMMA CardReceivesStep ==
  ASSUME RingTypes, ReceiveInv, CardReceives
  PROVE  ReceiveInv'
<1>1. /\ arrived' = arrived + 1
      /\ UNCHANGED <<handler, pktArray, cur, lastIndicated, overtaken>>
      /\ IF nic.rx[nic.rxCard] = 0
         THEN \E f \in {arrived + 1, -(arrived + 1)} :
                /\ bad' = bad + (IF f < 0 THEN 1 ELSE 0)
                /\ nic' = [nic EXCEPT !.rx[nic.rxCard] = f, !.rxCard = NextRx(@),
                                      !.ints = @ \cup {"RINT"}]
         ELSE nic' = [nic EXCEPT !.ints = @ \cup {"MISS"}] /\ UNCHANGED bad
  BY DEF CardReceives, interruptVars
<1>2. /\ nic \in Cards /\ pktArray \in Seq(0 .. NR - 1)
      /\ lastIndicated \in Int /\ arrived \in Nat /\ bad \in Nat
  BY DEF RingTypes, QueueTypes, LoopTypes
<1>3. CASE nic.rx[nic.rxCard] # 0
  <2>1. /\ nic'.rx = nic.rx /\ nic'.rxNext = nic.rxNext /\ nic'.rxCard = nic.rxCard
        /\ bad' = bad
    BY <1>1, <1>2, <1>3 DEF Cards
  <2>2. ASSUME ~overtaken'
        PROVE  \E m, s \in 0 .. NR :
                 /\ RingReceives(nic', pktArray', m, s, lastIndicated', arrived')
                 /\ handler' \in {"rx", "clear"} =>
                       \A k \in 1 .. Len(pktArray') : lastIndicated' < nic'.rx[pktArray'[k]]
                 /\ handler' = "up" =>
                       m > 0 /\ cur' = [at |-> nic'.rxNext, frame |-> nic'.rx[nic'.rxNext]]
    <3>1. ~overtaken
      BY <1>1, <2>1, <2>2
    <3>2. PICK m, s \in 0 .. NR :
                 /\ RingReceives(nic, pktArray, m, s, lastIndicated, arrived)
                 /\ handler \in {"rx", "clear"} =>
                       \A k \in 1 .. Len(pktArray) : lastIndicated < nic.rx[pktArray[k]]
                 /\ handler = "up" =>
                       m > 0 /\ cur = [at |-> nic.rxNext, frame |-> nic.rx[nic.rxNext]]
      BY <3>1 DEF ReceiveInv
    <3>3. RingReceives(nic, pktArray, m, s, lastIndicated, arrived + 1)
      BY <1>2, <3>2, ReceivesMissed
    <3>4. RingReceives(nic', pktArray, m, s, lastIndicated, arrived + 1)
      BY <2>1, <3>3, ReceivesSame
    <3>5. /\ arrived' = arrived + 1 /\ bad' = bad /\ handler' = handler /\ pktArray' = pktArray
          /\ lastIndicated' = lastIndicated /\ cur' = cur
      BY <1>1, <2>1
    <3> QED BY <2>1, <3>2, <3>4, <3>5
  <2>3. (handler \notin Receiving => pktArray = <<>>)' \/ overtaken'
    BY <1>1 DEF ReceiveInv
  <2> QED BY <2>2, <2>3 DEF ReceiveInv
<1>4. CASE nic.rx[nic.rxCard] = 0
  <2>1. PICK f \in {arrived + 1, -(arrived + 1)} :
                /\ bad' = bad + (IF f < 0 THEN 1 ELSE 0)
                /\ nic' = [nic EXCEPT !.rx[nic.rxCard] = f, !.rxCard = NextRx(@),
                                      !.ints = @ \cup {"RINT"}]
    BY <1>1, <1>4
  <2>2. /\ nic'.rx = [nic.rx EXCEPT ![nic.rxCard] = f]
        /\ nic'.rxNext = nic.rxNext /\ nic'.rxCard = NextRx(nic.rxCard)
    BY <1>2, <2>1 DEF Cards
  <2>3. ASSUME ~overtaken'
        PROVE  \E m, s \in 0 .. NR :
                 /\ RingReceives(nic', pktArray', m, s, lastIndicated', arrived')
                 /\ handler' \in {"rx", "clear"} =>
                       \A k \in 1 .. Len(pktArray') : lastIndicated' < nic'.rx[pktArray'[k]]
                 /\ handler' = "up" =>
                       m > 0 /\ cur' = [at |-> nic'.rxNext, frame |-> nic'.rx[nic'.rxNext]]
    <3>1. ~overtaken
      BY <1>1, <2>3
    <3>2. PICK m, s \in 0 .. NR :
                 /\ RingReceives(nic, pktArray, m, s, lastIndicated, arrived)
                 /\ handler \in {"rx", "clear"} =>
                       \A k \in 1 .. Len(pktArray) : lastIndicated < nic.rx[pktArray[k]]
                 /\ handler = "up" =>
                       m > 0 /\ cur = [at |-> nic.rxNext, frame |-> nic.rx[nic.rxNext]]
      BY <3>1 DEF ReceiveInv
    <3>3. /\ m + 1 \in 0 .. NR
          /\ RingReceives(nic', pktArray, m + 1, s, lastIndicated, arrived + 1)
          /\ m > 0 => nic'.rx[nic'.rxNext] = nic.rx[nic.rxNext]
          /\ \A i \in 1 .. Len(pktArray) : nic'.rx[pktArray[i]] = nic.rx[pktArray[i]]
      <4>1. FrameComes(nic, nic', arrived)
        BY <2>1, <2>2 DEF FrameComes
      <4>2. RingReceives(nic, pktArray, m, s, lastIndicated, arrived)
        BY <3>2
      <4> QED BY <1>2, <1>4, <4>1, <4>2, ReceivesArrival
    <3>4. /\ arrived' = arrived + 1 /\ handler' = handler /\ pktArray' = pktArray
          /\ lastIndicated' = lastIndicated /\ cur' = cur
      BY <1>1
    <3>5. RingReceives(nic', pktArray', m + 1, s, lastIndicated', arrived')
      BY <2>1, <3>3, <3>4
    <3>6. handler' \in {"rx", "clear"} =>
             \A k \in 1 .. Len(pktArray') : lastIndicated' < nic'.rx[pktArray'[k]]
      BY <3>2, <3>3, <3>4
    <3>7. handler' = "up" => m + 1 > 0 /\ cur' = [at |-> nic'.rxNext, frame |-> nic'.rx[nic'.rxNext]]
      BY <2>2, <3>2, <3>3, <3>4
    <3> QED BY <3>3, <3>5, <3>6, <3>7
  <2>4. (handler \notin Receiving => pktArray = <<>>)' \/ overtaken'
    BY <1>1 DEF ReceiveInv
  <2> QED BY <2>3, <2>4 DEF ReceiveInv
<1> QED BY <1>3, <1>4

-----------------------------------------------------------------------------
(* The steps.                                                                 *)

(* RestartCard in Reset and InterruptHandled.                                 *)
LEMMA ResetProps ==
  ASSUME RingTypes, SendInv, Reset
  PROVE  /\ nic' \in Cards /\ InOrder(nic', wire, IF homerun THEN txQueue' ELSE refused, given)
         /\ txQueue' \in Seq(1 .. given) /\ (~homerun => txQueue' = <<>>)
         /\ "IN_DPC" \in flags' <=> "IN_DPC" \in flags
         /\ \E ok \in BOOLEAN :
               LET r == RestartCard(nic, ok)
               IN  /\ nic'.rx = r.rx /\ nic'.rxNext = r.rxNext /\ nic'.rxCard = r.rxCard
                   /\ nic'.running = ok /\ nic'.iena = (ok /\ StartWithInterrupts)
<1>1. PICK ok \in BOOLEAN : nic' = RestartCard(nic, ok)
  BY DEF Reset
<1>2. nic \in Cards /\ given \in Nat /\ wire \in 0 .. given /\ Waits \in Seq(1 .. given)
  BY DEF RingTypes, QueueTypes, LoopTypes, Waits
<1>3. InOrder(RestartCard(nic, ok), wire, Waits, given)
  BY <1>2, OrderedRestart DEF SendInv
<1>4. /\ InOrder(nic', wire, IF homerun THEN txQueue' ELSE refused, given)
      /\ txQueue' \in Seq(1 .. given) /\ (~homerun => txQueue' = <<>>)
      /\ "IN_DPC" \in flags' <=> "IN_DPC" \in flags
  BY <1>1, <1>3, CompleteQueueProps DEF Reset
<1>5. /\ nic' \in Cards
      /\ nic'.running = ok /\ nic'.iena = (ok /\ StartWithInterrupts)
  BY <1>1, <1>2, RestartProps
<1> QED BY <1>1, <1>4, <1>5

LEMMA InterruptHandledProps ==
  ASSUME RingTypes, SendInv, InterruptHandled
  PROVE  /\ nic' \in Cards /\ InOrder(nic', wire, Waits, given)
         /\ nic'.iena = TRUE
         /\ \/ nic'.rx = nic.rx /\ nic'.rxNext = nic.rxNext /\ nic'.rxCard = nic.rxCard
            \/ \E ok \in BOOLEAN, n \in Cards :
                  LET r == RestartCard(n, ok)
                  IN  nic'.rx = r.rx /\ nic'.rxNext = r.rxNext /\ nic'.rxCard = r.rxCard
<1> DEFINE n == IF handler = "txclear" THEN [nic EXCEPT !.ints = @ \ {"TINT"}] ELSE nic
           restart == homerun /\ ~csr.running
<1>1. PICK ok \in BOOLEAN : nic' = LanceEnableInterrupt(IF restart THEN RestartCard(n, ok) ELSE n)
  BY DEF InterruptHandled
<1>2. nic \in Cards /\ given \in Nat /\ wire \in 0 .. given /\ Waits \in Seq(1 .. given)
  BY DEF RingTypes, QueueTypes, LoopTypes, Waits
<1>3. /\ n \in Cards /\ n.tx = nic.tx /\ n.txNext = nic.txNext /\ n.txCard = nic.txCard
      /\ n.rx = nic.rx /\ n.rxNext = nic.rxNext /\ n.rxCard = nic.rxCard
  BY <1>2 DEF Cards
<1> HIDE DEF n
<1>4. InOrder(n, wire, Waits, given)
  BY <1>3, OrderedSame DEF SendInv
<1> DEFINE e == IF restart THEN RestartCard(n, ok) ELSE n
<1>5. e \in Cards /\ InOrder(e, wire, Waits, given)
  BY <1>2, <1>3, <1>4, OrderedRestart, RestartProps
<1>6. nic' = [e EXCEPT !.iena = TRUE]
  BY <1>1 DEF LanceEnableInterrupt
<1>7. e = n \/ e = RestartCard(n, ok)
  OBVIOUS
<1> HIDE DEF e
<1>8. /\ nic' \in Cards /\ nic'.iena = TRUE
      /\ nic'.tx = e.tx /\ nic'.txNext = e.txNext /\ nic'.txCard = e.txCard
      /\ nic'.rx = e.rx /\ nic'.rxNext = e.rxNext /\ nic'.rxCard = e.rxCard
  BY <1>5, <1>6 DEF Cards
<1>9. InOrder(nic', wire, Waits, given)
  BY <1>5, <1>8, OrderedSame
<1> QED BY <1>3, <1>7, <1>8, <1>9

(* Steps of the interrupt and of the card that touch neither ring.            *)
LEMMA FlagSteps ==
  ASSUME RingTypes,
         \/ Isr
         \/ ClearReceive
         \/ CardStops
         \/ CardReceives /\ nic.rx[nic.rxCard] # 0
  PROVE  /\ nic' \in Cards /\ nic'.tx = nic.tx /\ nic'.txNext = nic.txNext /\ nic'.txCard = nic.txCard
         /\ nic'.rx = nic.rx /\ nic'.rxNext = nic.rxNext /\ nic'.rxCard = nic.rxCard
<1>1. nic \in Cards
  BY DEF RingTypes
<1>2. \/ nic' = [nic EXCEPT !.iena = FALSE]
      \/ nic' = [nic EXCEPT !.ints = @ \ {"RINT", "MISS"}]
      \/ nic' = [nic EXCEPT !.running = FALSE]
      \/ nic' = [nic EXCEPT !.ints = @ \cup {"MISS"}]
  BY DEF Isr, ClearReceive, CardStops, CardReceives
<1> QED BY <1>1, <1>2 DEF Cards

LEMMA TakeFrameProps ==
  ASSUME NEW n \in Cards, NEW h \in Seq(0 .. NR - 1), NEW i \in 0 .. NR - 1, NEW f \in Int,
         TakeFrame(n, h, i, f)
  PROVE  /\ nic' \in Cards /\ nic'.tx = n.tx /\ nic'.txNext = n.txNext /\ nic'.txCard = n.txCard
         /\ nic'.running = n.running /\ nic'.iena = n.iena
         /\ pktArray' \in Seq(0 .. NR - 1) /\ Len(pktArray') <= Len(h) + 1
<1>1. /\ nic' = [n EXCEPT !.rx[i] = IF f < 0 THEN 0 ELSE @, !.rxNext = NextRx(@)]
      /\ pktArray' = IF f < 0 THEN h ELSE Append(h, i)
  BY DEF TakeFrame
<1>2. NextRx(n.rxNext) \in 0 .. NR - 1
  <2>1. NR \in Nat \ {0} /\ n.rxNext \in 0 .. NR - 1 /\ 1 \in 0 .. NR
    BY RingsAssumption DEF Cards
  <2> QED BY <2>1, PlaceIn DEF NextRx
<1>3. pktArray' \in Seq(0 .. NR - 1) /\ Len(pktArray') <= Len(h) + 1
  <2>1. Len(h) \in Nat
    BY LenProperties
  <2>2. Append(h, i) \in Seq(0 .. NR - 1) /\ Len(Append(h, i)) = Len(h) + 1
    BY AppendProperties
  <2>3. CASE f < 0
    BY <1>1, <2>1, <2>3
  <2>4. CASE ~(f < 0)
    <3>1. pktArray' = Append(h, i)
      BY <1>1, <2>4
    <3>2. Len(pktArray') = Len(h) + 1
      BY <2>2, <3>1
    <3>3. pktArray' \in Seq(0 .. NR - 1)
      BY <2>2, <3>1
    <3> QED BY <2>1, <3>2, <3>3
  <2> QED BY <2>3, <2>4
<1> DEFINE next == NextRx(n.rxNext)
           rx == [n.rx EXCEPT ![i] = IF f < 0 THEN 0 ELSE @]
<1>4. rx \in [0 .. NR - 1 -> Int]
  <2>1. n.rx \in [0 .. NR - 1 -> Int]
    BY DEF Cards
  <2>2. (IF f < 0 THEN 0 ELSE n.rx[i]) \in Int
    <3>1. PICK x \in Int : x = n.rx[i]
      BY <2>1
    <3>2. (IF f < 0 THEN 0 ELSE x) \in Int
      OBVIOUS
    <3> QED BY <3>1, <3>2
  <2>3. rx = [n.rx EXCEPT ![i] = IF f < 0 THEN 0 ELSE n.rx[i]]
    OBVIOUS
  <2> HIDE DEF rx
  <2> QED BY <2>1, <2>2, <2>3
<1>5. nic' = [n EXCEPT !.rx = rx, !.rxNext = next]
  BY <1>1
<1> HIDE DEF rx, next
<1>6. next \in 0 .. NR - 1
  BY <1>2 DEF next
<1> QED BY <1>3, <1>4, <1>5, <1>6 DEF Cards

LEMMA CardTransmitsProps ==
  ASSUME RingTypes, SendInv, CardTransmits
  PROVE  /\ nic' \in Cards /\ wire' \in 1 .. given /\ InOrder(nic', wire', Waits, given)
         /\ nic'.rx = nic.rx /\ nic'.rxNext = nic.rxNext /\ nic'.rxCard = nic.rxCard
         /\ nic'.running = nic.running /\ nic'.iena = nic.iena
<1> DEFINE c == nic.txCard
           tx == [nic.tx EXCEPT ![c] = 0]
           next == NextTx(c)
           ints == nic.ints \cup {"TINT"}
<1>1. /\ nic.tx[c] # 0 /\ wire' = nic.tx[c]
      /\ nic' = [nic EXCEPT !.tx = tx, !.txCard = next, !.ints = ints]
  BY DEF CardTransmits
<1>2. nic \in Cards /\ given \in Nat /\ wire \in 0 .. given /\ Waits \in Seq(1 .. given)
  BY DEF RingTypes, QueueTypes, LoopTypes, Waits
<1>3. next \in 0 .. NT - 1
  <2>1. c \in 0 .. NT - 1
    BY <1>2 DEF Cards
  <2>2. NT \in Nat \ {0} /\ 1 \in 0 .. NT
    BY RingsAssumption
  <2> HIDE DEF c
  <2> QED BY <2>1, <2>2, PlaceIn DEF NextTx
<1>4. tx \in [0 .. NT - 1 -> Nat] /\ ints \in SUBSET {"RINT", "MISS", "TINT"}
  BY <1>2 DEF Cards
<1> HIDE DEF tx, next, ints
<1>5. /\ nic' \in Cards /\ nic'.tx = tx /\ nic'.txCard = next /\ nic'.txNext = nic.txNext
      /\ nic'.rx = nic.rx /\ nic'.rxNext = nic.rxNext /\ nic'.rxCard = nic.rxCard
      /\ nic'.running = nic.running /\ nic'.iena = nic.iena
  BY <1>1, <1>2, <1>3, <1>4 DEF Cards
<1>6. nic.tx[c] \in 1 .. given /\ InOrder(nic', nic.tx[c], Waits, given)
  BY <1>1, <1>2, <1>5, OrderedSent DEF SendInv, tx, next
<1> QED BY <1>1, <1>5, <1>6

LEMMA CardReceivesProps ==
  ASSUME RingTypes, CardReceives
  PROVE  /\ nic' \in Cards /\ nic'.tx = nic.tx /\ nic'.txNext = nic.txNext /\ nic'.txCard = nic.txCard
         /\ nic'.running = nic.running /\ nic'.iena = nic.iena
         /\ arrived' \in Nat /\ bad' \in Nat
<1>1. nic \in Cards /\ arrived \in Nat /\ bad \in Nat
  BY DEF RingTypes, LoopTypes
<1>2. arrived' \in Nat
  BY <1>1 DEF CardReceives
<1>3. CASE nic.rx[nic.rxCard] # 0
  <2>1. nic' = [nic EXCEPT !.ints = @ \cup {"MISS"}] /\ bad' = bad
    BY <1>3 DEF CardReceives
  <2> QED BY <1>1, <1>2, <2>1 DEF Cards
<1>4. CASE nic.rx[nic.rxCard] = 0
  <2>1. PICK f \in {arrived + 1, -(arrived + 1)} :
              /\ bad' = bad + (IF f < 0 THEN 1 ELSE 0)
              /\ nic' = [nic EXCEPT !.rx[nic.rxCard] = f, !.rxCard = NextRx(@),
                                    !.ints = @ \cup {"RINT"}]
    BY <1>4 DEF CardReceives
  <2> DEFINE rx == [nic.rx EXCEPT ![nic.rxCard] = f]
             next == NextRx(nic.rxCard)
             ints == nic.ints \cup {"RINT"}
  <2>2. nic' = [nic EXCEPT !.rx = rx, !.rxCard = next, !.ints = ints]
    BY <2>1
  <2>3. f \in Int
    BY <1>1
  <2>4. rx \in [0 .. NR - 1 -> Int] /\ ints \in SUBSET {"RINT", "MISS", "TINT"}
    BY <1>1, <2>3 DEF Cards
  <2>5. next \in 0 .. NR - 1
    <3>1. NR \in Nat \ {0} /\ nic.rxCard \in 0 .. NR - 1 /\ 1 \in 0 .. NR
      BY <1>1, RingsAssumption DEF Cards
    <3> QED BY <3>1, PlaceIn DEF NextRx
  <2> HIDE DEF rx, next, ints
  <2>6. /\ nic' \in Cards /\ nic'.tx = nic.tx /\ nic'.txNext = nic.txNext /\ nic'.txCard = nic.txCard
        /\ nic'.running = nic.running /\ nic'.iena = nic.iena
    BY <1>1, <2>2, <2>4, <2>5 DEF Cards
  <2>7. bad' \in Nat
    BY <1>1, <2>1
  <2> QED BY <1>2, <2>6, <2>7
<1> QED BY <1>3, <1>4

LEMMA RingTypesStep ==
  ASSUME RingTypes, SendInv, RingsNext \/ UNCHANGED ringsVars
  PROVE  RingTypes'
<1> USE DEF queueVars, interruptVars, lineVars
<1>1. nic \in Cards /\ QueueTypes /\ LoopTypes
  BY DEF RingTypes
<1>2. ASSUME UNCHANGED <<homerun, given, wire, txQueue, refused>> PROVE QueueTypes'
  BY <1>1, <1>2 DEF QueueTypes
<1>3. ASSUME UNCHANGED <<cur, pktArray, lastIndicated, arrived, bad>>, overtaken' \in BOOLEAN,
             handler' \in Handlers, handler' \in {"up", "last"} => handler \in {"up", "last"}
      PROVE  LoopTypes'
  BY <1>1, <1>3 DEF LoopTypes
<1>4. CASE Send
  <2>1. PICK ps \in Seq(1 .. given'), ok \in BOOLEAN :
           SendPackets(ps, ok) /\ InOrder(nic, wire, txQueue \o ps, given')
    BY <1>4, SendProps
  <2>2. given' \in Nat /\ given <= given'
    BY <1>4, SendProps
  <2>3. /\ nic' \in Cards /\ txQueue' \in Seq(1 .. given') /\ refused' \in Seq(1 .. given')
        /\ homerun => refused' = <<>>
        /\ ~homerun => txQueue' = <<>>
    BY <2>1, <2>2, SendPacketsProps
  <2>4. UNCHANGED <<homerun, wire, handler, cur, pktArray, lastIndicated, arrived, bad>>
    BY <1>4 DEF Send
  <2>5. overtaken' \in BOOLEAN
    BY <1>1, <2>1 DEF SendPackets, Overtakes, LoopTypes
  <2>6. QueueTypes'
    <3>1. wire' \in 0 .. given'
      BY <1>1, <2>2, <2>4 DEF QueueTypes
    <3>2. homerun' \in BOOLEAN /\ homerun' = homerun
      BY <1>1, <2>4 DEF QueueTypes
    <3> QED BY <2>2, <2>3, <3>1, <3>2 DEF QueueTypes
  <2>7. LoopTypes'
    BY <1>1, <1>3, <2>4, <2>5 DEF LoopTypes
  <2> QED BY <2>3, <2>6, <2>7 DEF RingTypes
<1>5. CASE DeferredTurn
  <2>1. /\ nic' \in Cards /\ txQueue' \in Seq(1 .. given) /\ (~homerun => txQueue' = <<>>)
        /\ handler' = handler \/ (handler = "deferred" /\ handler' = "txclear")
    BY <1>5, DeferredTurnProps
  <2>2. UNCHANGED <<homerun, given, wire, refused, cur, pktArray, lastIndicated, overtaken, arrived, bad>>
    BY <1>5 DEF DeferredTurn
  <2>3. QueueTypes'
    BY <1>1, <2>1, <2>2 DEF QueueTypes
  <2>4. LoopTypes'
    BY <1>1, <1>3, <2>1, <2>2 DEF LoopTypes, Handlers
  <2> QED BY <2>1, <2>3, <2>4 DEF RingTypes
<1>6. CASE DeferredReturn \/ TimerFires \/ UNCHANGED ringsVars
  <2>1. /\ nic' = nic /\ UNCHANGED <<homerun, given, wire, txQueue, refused>>
        /\ UNCHANGED <<handler, cur, pktArray, lastIndicated, overtaken, arrived, bad>>
    BY <1>6 DEF DeferredReturn, TimerFires, ringsVars
  <2>2. LoopTypes'
    BY <1>1, <2>1 DEF LoopTypes
  <2> QED BY <1>1, <1>2, <2>1, <2>2 DEF RingTypes
<1>7. CASE Reset
  <2>1. nic' \in Cards /\ txQueue' \in Seq(1 .. given) /\ (~homerun => txQueue' = <<>>)
    BY <1>7, ResetProps
  <2>2. /\ UNCHANGED <<homerun, given, wire, refused, handler, cur, pktArray, lastIndicated, arrived, bad>>
        /\ overtaken' = (overtaken \/ handler \in {"up", "last"})
    BY <1>7 DEF Reset, Overtakes
  <2>3. QueueTypes'
    BY <1>1, <2>1, <2>2 DEF QueueTypes
  <2>4. overtaken' \in BOOLEAN
    BY <1>1, <2>2 DEF LoopTypes
  <2>5. LoopTypes'
    BY <1>1, <1>3, <2>2, <2>4 DEF LoopTypes
  <2> QED BY <2>1, <2>3, <2>5 DEF RingTypes
<1>8. CASE ResetReturn
  <2>1. UNCHANGED <<nic, homerun, given, wire, refused, handler, cur, pktArray, lastIndicated, overtaken, arrived, bad>>
    BY <1>8 DEF ResetReturn
  <2>2. txQueue' \in Seq(1 .. given) /\ (~homerun => txQueue' = <<>>)
    BY <1>8, CompleteQueueProps DEF ResetReturn, SendInv
  <2>3. QueueTypes'
    BY <1>1, <2>1, <2>2 DEF QueueTypes
  <2>4. LoopTypes'
    BY <1>1, <2>1 DEF LoopTypes
  <2> QED BY <1>1, <2>1, <2>3, <2>4 DEF RingTypes
<1>9. CASE Isr \/ HandleInterrupt \/ XmitComplete \/ InterruptHandled \/ CardStops
  <2>1. /\ UNCHANGED <<homerun, given, wire, txQueue, refused>>
        /\ UNCHANGED <<cur, pktArray, lastIndicated, overtaken, arrived, bad>>
    BY <1>9 DEF Isr, HandleInterrupt, XmitComplete, InterruptHandled, CardStops
  <2>2. handler' \in Handlers /\ (handler' \in {"up", "last"} => handler \in {"up", "last"})
    BY <1>1, <1>9 DEF Isr, HandleInterrupt, XmitComplete, InterruptHandled, CardStops, AfterReceive,
                      LoopTypes, Handlers, Receiving
  <2>3. nic' \in Cards
    <3>1. CASE Isr \/ CardStops
      BY <3>1, FlagSteps
    <3>2. CASE HandleInterrupt \/ XmitComplete
      BY <1>1, <3>2 DEF HandleInterrupt, XmitComplete
    <3>3. CASE InterruptHandled
      BY <3>3, InterruptHandledProps
    <3> QED BY <1>9, <3>1, <3>2, <3>3
  <2>4. overtaken' \in BOOLEAN
    BY <1>1, <2>1 DEF LoopTypes
  <2> QED BY <1>2, <1>3, <2>1, <2>2, <2>3, <2>4 DEF RingTypes
<1>10. CASE ReceiveTurn \/ IndicateReturn \/ ClearReceive \/ LastReturn
  <2>1. /\ UNCHANGED <<homerun, given, wire, txQueue, refused, arrived, bad>>
        /\ overtaken' \in BOOLEAN
    BY <1>1, <1>10 DEF ReceiveTurn, ComesRound, IndicateReturn, ClearReceive, LastReturn, LoopTypes
  <2>2. QueueTypes'
    BY <1>2, <2>1
  <2>3. /\ pktArray \in Seq(0 .. NR - 1) /\ Len(pktArray) <= Watermark /\ Len(pktArray) \in Nat
        /\ nic.rxNext \in 0 .. NR - 1 /\ nic.rx[nic.rxNext] \in Int
        /\ pktArray # <<>> => nic.rx[pktArray[Len(pktArray)]] \in Int
        /\ Watermark \in Nat /\ NR \in Nat /\ Watermark > 0
    <3>1. pktArray \in Seq(0 .. NR - 1) /\ Len(pktArray) <= Watermark /\ Len(pktArray) \in Nat
      BY <1>1, LenProperties DEF LoopTypes
    <3>2. pktArray # <<>> => pktArray[Len(pktArray)] \in 0 .. NR - 1
      <4>1. pktArray # <<>> => Len(pktArray) \in 1 .. Len(pktArray)
        BY <3>1, EmptySeq
      <4> QED BY <3>1, <4>1, ElementOfSeq
    <3>3. nic.rxNext \in 0 .. NR - 1 /\ nic.rx \in [0 .. NR - 1 -> Int]
      BY <1>1 DEF Cards
    <3>4. nic.rx[nic.rxNext] \in Int
      BY <3>3
    <3>5. pktArray # <<>> => nic.rx[pktArray[Len(pktArray)]] \in Int
      BY <3>2, <3>3
    <3>6. Watermark \in Nat /\ NR \in Nat /\ Watermark > 0
      BY RingsAssumption
    <3> QED BY <3>1, <3>3, <3>4, <3>5, <3>6
  <2>4. CASE ReceiveTurn
    <3>1. CASE nic.rx[nic.rxNext] = 0 /\ handler' = "clear" /\ UNCHANGED <<nic, pktArray, cur, lastIndicated>>
      BY <1>1, <2>1, <2>2, <3>1 DEF RingTypes, LoopTypes, Handlers, Receiving
    <3>2. CASE /\ Len(pktArray) >= Watermark
               /\ cur' = [at |-> nic.rxNext, frame |-> nic.rx[nic.rxNext]]
               /\ lastIndicated' = nic.rx[pktArray[Len(pktArray)]] /\ handler' = "up"
               /\ UNCHANGED <<nic, pktArray>>
      <4>1. pktArray # <<>>
        <5>1. Len(pktArray) > 0
          BY <2>3, <3>2
        <5>2. Len(<<>>) = 0
          OBVIOUS
        <5> QED BY <5>1, <5>2
      <4>2. cur' \in [at : 0 .. NR - 1, frame : Int]
        BY <2>3, <3>2
      <4>3. lastIndicated' \in Int
        BY <2>3, <3>2, <4>1
      <4> QED BY <1>1, <2>1, <2>2, <2>3, <3>2, <4>1, <4>2, <4>3 DEF RingTypes, LoopTypes, Handlers, Receiving
    <3>3. CASE /\ Len(pktArray) < Watermark
               /\ TakeFrame(nic, pktArray, nic.rxNext, nic.rx[nic.rxNext])
               /\ UNCHANGED <<handler, cur, lastIndicated>>
      <4>1. nic' \in Cards /\ pktArray' \in Seq(0 .. NR - 1) /\ Len(pktArray') <= Len(pktArray) + 1
        BY <1>1, <2>3, <3>3, TakeFrameProps
      <4>2. Len(pktArray') <= Watermark
        <5>1. Len(pktArray') \in Nat
          BY <4>1, LenProperties
        <5> QED BY <2>3, <3>3, <4>1, <5>1
      <4>3. handler' = "rx"
        BY <2>4, <3>3 DEF ReceiveTurn
      <4>4. LoopTypes'
        BY <1>1, <2>1, <3>3, <4>1, <4>2, <4>3 DEF LoopTypes, Handlers, Receiving
      <4> QED BY <2>2, <4>1, <4>4 DEF RingTypes
    <3> QED BY <2>4, <3>1, <3>2, <3>3 DEF ReceiveTurn, Indicate
  <2>5. CASE IndicateReturn
    <3>1. TakeFrame(RcvComplete(nic), <<>>, cur.at, cur.frame) /\ handler' = "rx" /\ cur' = NoCur
          /\ lastIndicated' = lastIndicated
      BY <2>5 DEF IndicateReturn
    <3>2. cur.at \in 0 .. NR - 1 /\ cur.frame \in Int
      BY <1>1 DEF LoopTypes
    <3>3. RcvComplete(nic) \in Cards /\ <<>> \in Seq(0 .. NR - 1) /\ Len(<<>>) = 0
      BY RcvCompleteProps
    <3>4. nic' \in Cards /\ pktArray' \in Seq(0 .. NR - 1) /\ Len(pktArray') <= 0 + 1
      BY <3>1, <3>2, <3>3, TakeFrameProps
    <3>5. Len(pktArray') <= Watermark
      <4>1. Len(pktArray') \in Nat
        BY <3>4, LenProperties
      <4> QED BY <2>3, <3>4, <4>1
    <3>6. cur' \in [at : 0 .. NR - 1, frame : Int]
      <4>1. 0 \in 0 .. NR - 1
        BY RingsAssumption
      <4> QED BY <3>1, <4>1 DEF NoCur
    <3>7. LoopTypes'
      BY <1>1, <2>1, <3>1, <3>4, <3>5, <3>6 DEF LoopTypes, Handlers, Receiving
    <3> QED BY <2>2, <3>4, <3>7 DEF RingTypes
  <2>6. CASE ClearReceive
    <3>1. nic' \in Cards
      BY <2>6, FlagSteps
    <3>2. /\ UNCHANGED <<pktArray, cur>>
          /\ IF pktArray # <<>>
             THEN lastIndicated' = nic.rx[pktArray[Len(pktArray)]] /\ handler' = "last"
             ELSE handler' \in {"tx", "end"} /\ UNCHANGED lastIndicated
      BY <2>6 DEF ClearReceive, Indicate, AfterReceive
    <3>3. lastIndicated' \in Int
      BY <1>1, <2>3, <3>2 DEF LoopTypes
    <3>4. handler' \in Handlers /\ (handler' \in {"up", "last"} => pktArray' # <<>>)
      BY <3>2 DEF Handlers, Receiving
    <3>5. LoopTypes'
      BY <1>1, <2>1, <3>2, <3>3, <3>4 DEF LoopTypes
    <3> QED BY <2>2, <3>1, <3>5 DEF RingTypes
  <2>7. CASE LastReturn
    <3>1. nic' = RcvComplete(nic) /\ pktArray' = <<>> /\ handler' \in {"tx", "end"}
          /\ UNCHANGED <<cur, lastIndicated>>
      BY <2>7 DEF LastReturn, AfterReceive
    <3>2. RcvComplete(nic) \in Cards /\ <<>> \in Seq(0 .. NR - 1) /\ Len(<<>>) = 0
      BY RcvCompleteProps
    <3>3. Len(pktArray') <= Watermark
      BY <2>3, <3>1, <3>2
    <3>4. handler' \in Handlers /\ handler' \notin {"up", "last"}
      BY <3>1 DEF Handlers
    <3>5. LoopTypes'
      BY <1>1, <2>1, <3>1, <3>2, <3>3, <3>4 DEF LoopTypes
    <3> QED BY <2>2, <3>1, <3>2, <3>5 DEF RingTypes
  <2> QED BY <1>10, <2>4, <2>5, <2>6, <2>7
<1>11. CASE CardTransmits
  <2>1. nic' \in Cards /\ wire' \in 1 .. given
    BY <1>11, CardTransmitsProps
  <2>2. UNCHANGED <<homerun, given, txQueue, refused, handler, cur, pktArray, lastIndicated, overtaken, arrived, bad>>
    BY <1>11 DEF CardTransmits
  <2>3. wire' \in 0 .. given'
    BY <1>1, <2>1, <2>2 DEF QueueTypes
  <2>4. QueueTypes'
    BY <1>1, <2>2, <2>3 DEF QueueTypes
  <2>5. LoopTypes'
    BY <1>1, <2>2 DEF LoopTypes
  <2> QED BY <2>1, <2>4, <2>5 DEF RingTypes
<1>12. CASE CardReceives
  <2>1. nic' \in Cards /\ arrived' \in Nat /\ bad' \in Nat
    BY <1>12, CardReceivesProps
  <2>2. UNCHANGED <<homerun, given, wire, txQueue, refused, handler, cur, pktArray, lastIndicated, overtaken>>
    BY <1>12 DEF CardReceives
  <2>3. LoopTypes'
    BY <1>1, <2>1, <2>2 DEF LoopTypes
  <2> QED BY <1>2, <2>1, <2>2, <2>3 DEF RingTypes
<1> QED BY <1>4, <1>5, <1>6, <1>7, <1>8, <1>9, <1>10, <1>11, <1>12
        DEF RingsNext, SendSteps, ResetSteps, InterruptSteps, CardSteps

LEMMA MaskStep ==
  ASSUME RingTypes, SendInv, MaskInv, RingsNext \/ UNCHANGED ringsVars
  PROVE  MaskInv'
<1> USE DEF queueVars, interruptVars, lineVars, MaskInv, NotDeaf
<1>1. nic \in Cards
  BY DEF RingTypes
<1>2. ASSUME UNCHANGED handler, "IN_DPC" \in flags' <=> "IN_DPC" \in flags,
             \/ nic'.running = nic.running /\ nic'.iena = nic.iena
             \/ nic'.running = FALSE
             \/ \E ok \in BOOLEAN : nic'.running = ok /\ nic'.iena = (ok /\ StartWithInterrupts)
      PROVE  MaskInv'
  BY <1>2 DEF StartWithInterrupts
<1>3. ASSUME handler # "idle", handler' # "idle", "IN_DPC" \in flags' <=> "IN_DPC" \in flags
      PROVE  MaskInv'
  BY <1>3
<1>4. CASE Send
  <2>1. given' \in Nat /\ given <= given'
    BY <1>4, SendProps
  <2>2. PICK ps \in Seq(1 .. given'), ok \in BOOLEAN :
           SendPackets(ps, ok) /\ InOrder(nic, wire, txQueue \o ps, given')
    BY <1>4, SendProps
  <2>3. "IN_DPC" \in flags' <=> "IN_DPC" \in flags
    BY <2>1, <2>2, SendPacketsProps
  <2>4. PICK n \in {nic, RestartCard(nic, ok)} : nic'.running = n.running /\ nic'.iena = n.iena
    BY <2>1, <2>2, SendPacketsProps
  <2>5. handler' = handler
    BY <1>4 DEF Send
  <2>6. LET r == RestartCard(nic, ok) IN r.running = ok /\ r.iena = (ok /\ StartWithInterrupts)
    BY <1>1, RestartProps
  <2> QED BY <1>2, <2>3, <2>4, <2>5, <2>6
<1>5. CASE DeferredTurn
  <2>1. /\ nic'.running = nic.running /\ nic'.iena = nic.iena
        /\ "IN_DPC" \in flags' <=> "IN_DPC" \in flags
        /\ handler' = handler \/ (handler = "deferred" /\ handler' = "txclear")
    BY <1>5, DeferredTurnProps
  <2> QED BY <1>2, <1>3, <2>1
<1>6. CASE DeferredReturn \/ UNCHANGED ringsVars
  BY <1>6 DEF DeferredReturn, ringsVars
<1>7. CASE TimerFires
  <2>1. "IN_DPC" \in flags' <=> "IN_DPC" \in flags
    BY <1>7 DEF TimerFires, EnterDeferred
  <2> QED BY <1>7, <2>1 DEF TimerFires
<1>8. CASE Reset
  <2>1. handler' = handler
    BY <1>8 DEF Reset
  <2>2. "IN_DPC" \in flags' <=> "IN_DPC" \in flags
    BY <1>8, ResetProps
  <2>3. PICK ok \in BOOLEAN : nic'.running = ok /\ nic'.iena = (ok /\ StartWithInterrupts)
    BY <1>8, ResetProps
  <2> QED BY <1>2, <2>1, <2>2, <2>3
<1>9. CASE ResetReturn
  <2>1. "IN_DPC" \in flags' <=> "IN_DPC" \in flags
    BY <1>9, CompleteQueueProps DEF ResetReturn, SendInv
  <2> QED BY <1>9, <2>1 DEF ResetReturn
<1>10. CASE Isr
  BY <1>10 DEF Isr
<1>11. CASE HandleInterrupt
  <2>1. handler # "idle" /\ handler' # "idle" /\ flags' = flags
    BY <1>11 DEF HandleInterrupt, AfterReceive
  <2> QED BY <1>3, <2>1
<1>12. CASE ReceiveTurn \/ IndicateReturn \/ ClearReceive \/ LastReturn
  <2>1. handler # "idle" /\ handler' # "idle" /\ flags' = flags
    BY <1>12 DEF ReceiveTurn, IndicateReturn, ClearReceive, LastReturn, AfterReceive, Indicate
  <2> QED BY <1>3, <2>1
<1>13. CASE XmitComplete
  <2>1. "IN_DPC" \in flags' <=> "IN_DPC" \in flags
    BY <1>13 DEF XmitComplete, EnterDeferred
  <2>2. handler # "idle" /\ handler' # "idle"
    BY <1>13 DEF XmitComplete
  <2> QED BY <1>3, <2>1, <2>2
<1>14. CASE InterruptHandled
  <2>1. nic'.iena = TRUE
    BY <1>14, InterruptHandledProps
  <2>2. handler' = "idle" /\ flags' = flags \ {"IN_DPC"}
    BY <1>14 DEF InterruptHandled
  <2> QED BY <2>1, <2>2
<1>15. CASE CardTransmits
  <2>1. nic'.running = nic.running /\ nic'.iena = nic.iena
    BY <1>15, CardTransmitsProps
  <2> QED BY <1>2, <1>15, <2>1 DEF CardTransmits
<1>16. CASE CardReceives
  <2>1. nic'.running = nic.running /\ nic'.iena = nic.iena
    BY <1>16, CardReceivesProps
  <2> QED BY <1>2, <1>16, <2>1 DEF CardReceives
<1>17. CASE CardStops
  <2>1. nic'.running = FALSE
    BY <1>1, <1>17 DEF CardStops, Cards
  <2> QED BY <1>2, <1>17, <2>1 DEF CardStops
<1> QED BY <1>4, <1>5, <1>6, <1>7, <1>8, <1>9, <1>10, <1>11, <1>12, <1>13, <1>14, <1>15, <1>16, <1>17
        DEF RingsNext, SendSteps, ResetSteps, InterruptSteps, CardSteps

LEMMA SendStep ==
  ASSUME RingTypes, SendInv, RingsNext \/ UNCHANGED ringsVars
  PROVE  SendInv'
<1> USE DEF queueVars, interruptVars, lineVars
<1>0. nic \in Cards /\ InOrder(nic, wire, Waits, given)
  BY DEF RingTypes, SendInv
<1>1. ASSUME nic'.tx = nic.tx, nic'.txNext = nic.txNext, nic'.txCard = nic.txCard,
             UNCHANGED <<homerun, wire, txQueue, refused, given>>
      PROVE  SendInv'
  <2>1. InOrder(nic', wire, Waits, given)
    BY <1>0, <1>1, OrderedSame
  <2>2. Waits' = Waits
    BY <1>1 DEF Waits
  <2> QED BY <1>1, <2>1, <2>2 DEF SendInv
<1>2. ASSUME InOrder(nic', wire, IF homerun THEN txQueue' ELSE refused, given),
             UNCHANGED <<homerun, wire, refused, given>>
      PROVE  SendInv'
  BY <1>2 DEF SendInv, Waits
<1>3. CASE Send
  <2>1. given' \in Nat /\ given <= given'
    BY <1>3, SendProps
  <2>2. PICK ps \in Seq(1 .. given'), ok \in BOOLEAN :
           SendPackets(ps, ok) /\ InOrder(nic, wire, txQueue \o ps, given')
    BY <1>3, SendProps
  <2>3. InOrder(nic', wire, IF homerun THEN txQueue' ELSE refused', given')
    BY <2>1, <2>2, SendPacketsProps
  <2>4. homerun' = homerun /\ wire' = wire
    BY <1>3 DEF Send
  <2>5. InOrder(nic', wire', IF homerun' THEN txQueue' ELSE refused', given')
    BY <2>3, <2>4
  <2> QED BY <2>5 DEF SendInv, Waits
<1>4. CASE DeferredTurn
  BY <1>2, <1>4, DeferredTurnProps DEF DeferredTurn
<1>5. CASE DeferredReturn \/ TimerFires \/ UNCHANGED ringsVars
  BY <1>1, <1>5 DEF DeferredReturn, TimerFires, ringsVars
<1>6. CASE Reset
  BY <1>2, <1>6, ResetProps DEF Reset
<1>7. CASE ResetReturn
  <2>1. nic' = nic /\ CompleteQueue /\ UNCHANGED <<homerun, wire, refused, given>>
    BY <1>7 DEF ResetReturn
  <2>2. InOrder(nic, wire, IF homerun THEN txQueue' ELSE refused, given)
    BY <1>0, <2>1, CompleteQueueProps
  <2> QED BY <1>2, <2>1, <2>2
<1>8. CASE Isr \/ ClearReceive \/ CardStops
  <2>1. nic'.tx = nic.tx /\ nic'.txNext = nic.txNext /\ nic'.txCard = nic.txCard
    BY <1>8, FlagSteps
  <2> QED BY <1>1, <1>8, <2>1 DEF Isr, ClearReceive, CardStops
<1>9. CASE HandleInterrupt \/ XmitComplete
  BY <1>1, <1>9 DEF HandleInterrupt, XmitComplete
<1>10. CASE InterruptHandled
  <2>1. InOrder(nic', wire, Waits, given)
    BY <1>10, InterruptHandledProps
  <2>2. UNCHANGED <<homerun, wire, txQueue, refused, given>>
    BY <1>10 DEF InterruptHandled
  <2> QED BY <2>1, <2>2 DEF SendInv, Waits
<1>11. CASE ReceiveTurn \/ IndicateReturn \/ LastReturn
  <2>1. UNCHANGED <<homerun, wire, txQueue, refused, given>>
    BY <1>11 DEF ReceiveTurn, IndicateReturn, LastReturn
  <2>2. nic'.tx = nic.tx /\ nic'.txNext = nic.txNext /\ nic'.txCard = nic.txCard
    <3>1. CASE LastReturn
      BY <3>1, RcvCompleteProps DEF LastReturn
    <3>2. CASE IndicateReturn
      <4>1. TakeFrame(RcvComplete(nic), <<>>, cur.at, cur.frame) /\ <<>> \in Seq(0 .. NR - 1)
        BY <3>2 DEF IndicateReturn
      <4>2. cur.at \in 0 .. NR - 1 /\ cur.frame \in Int
        BY DEF RingTypes, LoopTypes
      <4> QED BY <4>1, <4>2, RcvCompleteProps, TakeFrameProps
    <3>3. CASE ReceiveTurn
      <4>1. nic.rxNext \in 0 .. NR - 1 /\ nic.rx[nic.rxNext] \in Int /\ pktArray \in Seq(0 .. NR - 1)
        BY <1>0 DEF Cards, RingTypes, LoopTypes
      <4>2. nic' = nic \/ TakeFrame(nic, pktArray, nic.rxNext, nic.rx[nic.rxNext])
        BY <3>3 DEF ReceiveTurn
      <4> QED BY <1>0, <4>1, <4>2, TakeFrameProps
    <3> QED BY <1>11, <3>1, <3>2, <3>3
  <2> QED BY <1>1, <2>1, <2>2
<1>12. CASE CardTransmits
  <2>1. InOrder(nic', wire', Waits, given)
    BY <1>12, CardTransmitsProps
  <2>2. UNCHANGED <<homerun, txQueue, refused, given>>
    BY <1>12 DEF CardTransmits
  <2> QED BY <2>1, <2>2 DEF SendInv, Waits
<1>13. CASE CardReceives
  BY <1>1, <1>13, CardReceivesProps DEF CardReceives
<1> QED BY <1>3, <1>4, <1>5, <1>6, <1>7, <1>8, <1>9, <1>10, <1>11, <1>12, <1>13
        DEF RingsNext, SendSteps, ResetSteps, InterruptSteps, CardSteps

LEMMA ReceiveStep ==
  ASSUME RingTypes, SendInv, ReceiveInv, RingsNext \/ UNCHANGED ringsVars
  PROVE  ReceiveInv'
<1> USE DEF queueVars, interruptVars, lineVars
<1>0. nic \in Cards
  BY DEF RingTypes
<1>1. CASE Send
  <2>1. given' \in Nat /\ given <= given'
    BY <1>1, SendProps
  <2>2. PICK ps \in Seq(1 .. given'), ok \in BOOLEAN :
           SendPackets(ps, ok) /\ InOrder(nic, wire, txQueue \o ps, given')
    BY <1>1, SendProps
  <2>3. PICK n \in {nic, RestartCard(nic, ok)} :
               /\ nic'.rx = n.rx /\ nic'.rxNext = n.rxNext /\ nic'.rxCard = n.rxCard
               /\ (n = nic /\ overtaken' = overtaken) \/ (n = RestartCard(nic, ok) /\ Overtakes)
    BY <2>1, <2>2, SendPacketsProps
  <2>4. UNCHANGED <<handler, pktArray, cur, lastIndicated, arrived, bad>> /\ Free
    BY <1>1 DEF Send
  <2>5. CASE n = nic /\ overtaken' = overtaken
    BY <2>3, <2>4, <2>5, ReceiveKept
  <2>6. CASE n = RestartCard(nic, ok) /\ Overtakes
    <3>1. ~overtaken' => ~overtaken /\ handler \notin Receiving /\ handler' \notin Receiving
      BY <2>4, <2>6 DEF Overtakes, Free, Receiving
    <3> QED BY <1>0, <2>3, <2>4, <2>6, <3>1, ReceiveRestarted
  <2> QED BY <2>3, <2>5, <2>6
<1>2. CASE DeferredTurn
  <2>1. /\ nic'.rx = nic.rx /\ nic'.rxNext = nic.rxNext /\ nic'.rxCard = nic.rxCard
        /\ handler' = handler \/ (handler = "deferred" /\ handler' = "txclear")
    BY <1>2, DeferredTurnProps
  <2>2. UNCHANGED <<pktArray, cur, lastIndicated, overtaken, arrived, bad>>
    BY <1>2 DEF DeferredTurn
  <2>3. /\ handler' \notin Receiving => handler \notin Receiving
        /\ handler' \in {"rx", "clear"} => handler \in {"rx", "clear"}
        /\ handler' = "up" => handler = "up"
    BY <2>1 DEF Receiving
  <2> QED BY <2>1, <2>2, <2>3, ReceiveKept
<1>3. CASE DeferredReturn \/ TimerFires \/ ResetReturn \/ UNCHANGED ringsVars
  <2>1. UNCHANGED <<nic, handler, pktArray, cur, lastIndicated, overtaken, arrived, bad>>
    BY <1>3 DEF DeferredReturn, TimerFires, ResetReturn, ringsVars
  <2> QED BY <2>1, ReceiveKept
<1>4. CASE Reset
  <2>1. PICK ok \in BOOLEAN :
               LET r == RestartCard(nic, ok)
               IN  nic'.rx = r.rx /\ nic'.rxNext = r.rxNext /\ nic'.rxCard = r.rxCard
    BY <1>4, ResetProps
  <2>2. UNCHANGED <<handler, pktArray, lastIndicated, arrived, bad>> /\ Free /\ Overtakes
    BY <1>4 DEF Reset
  <2>3. ~overtaken' => ~overtaken /\ handler \notin Receiving /\ handler' \notin Receiving
    BY <2>2 DEF Overtakes, Free, Receiving
  <2> QED BY <1>0, <2>1, <2>2, <2>3, ReceiveRestarted
<1>5. CASE Isr \/ HandleInterrupt \/ XmitComplete \/ CardStops
  <2>1. nic'.rx = nic.rx /\ nic'.rxNext = nic.rxNext /\ nic'.rxCard = nic.rxCard
    <3>1. CASE Isr \/ CardStops
      BY <3>1, FlagSteps
    <3>2. CASE HandleInterrupt \/ XmitComplete
      BY <3>2 DEF HandleInterrupt, XmitComplete
    <3> QED BY <1>5, <3>1, <3>2
  <2>2. UNCHANGED <<pktArray, cur, lastIndicated, overtaken, arrived, bad>>
    BY <1>5 DEF Isr, HandleInterrupt, XmitComplete, CardStops
  <2>3. \/ handler' = handler
        \/ handler \notin Receiving /\ handler' # "up"
    BY <1>5 DEF Isr, HandleInterrupt, XmitComplete, CardStops, AfterReceive, Receiving
  <2> QED BY <2>1, <2>2, <2>3, ReceiveKept
<1>6. CASE InterruptHandled
  <2>1. /\ UNCHANGED <<pktArray, cur, lastIndicated, overtaken, arrived, bad>>
        /\ handler \notin Receiving /\ handler' \notin Receiving /\ handler' = "idle"
    BY <1>6 DEF InterruptHandled, Receiving
  <2>2. CASE nic'.rx = nic.rx /\ nic'.rxNext = nic.rxNext /\ nic'.rxCard = nic.rxCard
    BY <2>1, <2>2, ReceiveKept
  <2>3. CASE \E ok \in BOOLEAN, n \in Cards :
                  LET r == RestartCard(n, ok)
                  IN  nic'.rx = r.rx /\ nic'.rxNext = r.rxNext /\ nic'.rxCard = r.rxCard
    <3>1. PICK ok \in BOOLEAN, n \in Cards :
                  LET r == RestartCard(n, ok)
                  IN  nic'.rx = r.rx /\ nic'.rxNext = r.rxNext /\ nic'.rxCard = r.rxCard
      BY <2>3
    <3> QED BY <2>1, <3>1, ReceiveRestarted
  <2> QED BY <1>6, <2>2, <2>3, InterruptHandledProps
<1>7. CASE CardTransmits
  <2>1. nic'.rx = nic.rx /\ nic'.rxNext = nic.rxNext /\ nic'.rxCard = nic.rxCard
    BY <1>7, CardTransmitsProps
  <2>2. UNCHANGED <<handler, pktArray, cur, lastIndicated, overtaken, arrived, bad>>
    BY <1>7 DEF CardTransmits
  <2> QED BY <2>1, <2>2, ReceiveKept
<1> QED BY <1>1, <1>2, <1>3, <1>4, <1>5, <1>6, <1>7,
           ReceiveTurnStep, IndicateReturnStep, ClearReceiveStep, LastReturnStep, CardReceivesStep
        DEF RingsNext, SendSteps, ResetSteps, InterruptSteps, CardSteps

-----------------------------------------------------------------------------
(* The rings keep their invariant, whatever their sizes and whoever acts in   *)
(* whichever order.                                                           *)
THEOREM RingsInvariant == RingsSpec => []RingsInv
<1>1. RingsInit => RingsInv
  BY RingsInvInit
<1>2. RingsInv /\ [RingsNext]_ringsVars => RingsInv'
  BY RingTypesStep, MaskStep, SendStep, ReceiveStep DEF RingsInv
<1> QED BY <1>1, <1>2, PTL DEF RingsSpec

(* Packets leave in the order NDIS sent them: what was transmitted, the ring  *)
(* from the card's place to the driver's, and what waits behind it, whether   *)
(* LanceSendPackets queued it, LanceDeferredSend moves it, or a reset or a    *)
(* restart threw the ring away in between (send.c).                           *)
THEOREM PacketsSentInOrder == RingsSpec => []SentInOrder
<1>1. RingsInv => SentInOrder
  <2> SUFFICES ASSUME RingsInv PROVE SentInOrder
    OBVIOUS
  <2>1. nic \in Cards /\ given \in Nat /\ NT \in Nat \ {0}
    BY RingsAssumption DEF RingsInv, RingTypes, QueueTypes
  <2>2. PICK v \in Seq(1 .. given) : RingHolds(nic, v) /\ Increasing(<<wire>> \o v \o Waits)
    BY DEF RingsInv, SendInv, InOrder
  <2>3. RingPackets = v
    BY <2>1, <2>2, RingRead
  <2>4. nic.txCard \in 0 .. NT - 1 /\ Len(v) \in 0 .. NT
    BY <2>1, <2>2, NumbersInt DEF RingHolds, Cards
  <2>5. (nic.txCard + Len(v)) % NT = nic.txNext
    <3>1. (nic.txCard + Len(v)) % NT = Place(nic.txCard, Len(v), NT)
      BY <2>1, <2>4, PlaceIn
    <3> QED BY <2>2, <3>1 DEF RingHolds
  <2>6. ASSUME NEW i \in 0 .. NT - 1, nic.tx[i] # 0 PROVE \E k \in DOMAIN v : v[k] = nic.tx[i]
    <3>1. PICK j \in 0 .. NT - 1 : Place(nic.txCard, j, NT) = i
      BY <2>1, <2>4, PlaceOnto
    <3>2. nic.tx[i] = IF j < Len(v) THEN v[j + 1] ELSE 0
      BY <2>2, <3>1 DEF RingHolds
    <3>3. j < Len(v) /\ nic.tx[i] = v[j + 1]
      BY <2>6, <3>2
    <3>4. j + 1 \in DOMAIN v
      <4>1. DOMAIN v = 1 .. Len(v)
        BY LenProperties
      <4> QED BY <2>4, <3>3, <4>1
    <3> QED BY <3>3, <3>4
  <2> QED BY <2>2, <2>3, <2>5, <2>6 DEF SentInOrder, Waits
<1> QED BY <1>1, RingsInvariant, PTL

(* Frames are indicated once and in the order they came, through the batches  *)
(* of the receive loop, its early returns of bad frames and restarts, until   *)
(* the loop loses its place: by a restart under an indication, or by coming   *)
(* round the ring to a frame it holds (interrup.c).                           *)
THEOREM FramesIndicatedInOrder == RingsSpec => []IndicatedInOrder
<1>1. RingsInv => IndicatedInOrder
  <2> SUFFICES ASSUME RingsInv, ~overtaken, handler \in {"rx", "clear"}
               PROVE  Increasing(<<lastIndicated>> \o [k \in DOMAIN pktArray |-> nic.rx[pktArray[k]]])
    BY DEF IndicatedInOrder
  <2> DEFINE L == Len(pktArray)
             s == [k \in DOMAIN pktArray |-> nic.rx[pktArray[k]]]
             a == <<lastIndicated>>
  <2>1. nic \in Cards /\ pktArray \in Seq(0 .. NR - 1) /\ lastIndicated \in Int
    BY DEF RingsInv, RingTypes, LoopTypes
  <2>2. L \in Nat /\ DOMAIN pktArray = 1 .. L /\ \A k \in 1 .. L : nic.rx[pktArray[k]] \in Int
    BY <2>1, ElementOfSeq, LenProperties DEF Cards
  <2>3. PICK m, n \in 0 .. NR :
           /\ RingReceives(nic, pktArray, m, n, lastIndicated, arrived)
           /\ \A k \in 1 .. L : lastIndicated < nic.rx[pktArray[k]]
    BY DEF RingsInv, ReceiveInv
  <2>4. \A j, k \in 1 .. L : j < k => nic.rx[pktArray[j]] < nic.rx[pktArray[k]]
    BY <2>3 DEF RingReceives, Newer
  <2> HIDE DEF L
  <2>5. s = [k \in 1 .. L |-> nic.rx[pktArray[k]]]
    BY <2>2
  <2> HIDE DEF s
  <2>6. s \in Seq(Int) /\ DOMAIN s = 1 .. L /\ Len(s) = L
    <3>1. s \in Seq(Int)
      BY <2>2, <2>5, IsASeq
    <3> QED BY <2>2, <2>5, <3>1, LenProperties
  <2>7. Increasing(s)
    BY <2>4, <2>5, <2>6 DEF Increasing
  <2>8. a \in Seq(Int) /\ Len(a) = 1 /\ a[1] = lastIndicated /\ DOMAIN a = {1}
    BY <2>1
  <2> HIDE DEF a
  <2>9. Increasing(a)
    BY <2>8 DEF Increasing
  <2>10. ASSUME NEW i \in 1 .. Len(a), NEW j \in 1 .. Len(s) PROVE a[i] < s[j]
    <3>1. i = 1
      BY <2>8
    <3> QED BY <2>3, <2>5, <2>6, <2>8, <3>1
  <2>11. Increasing(a \o s)
    BY <2>6, <2>7, <2>8, <2>9, <2>10, IncreasingConcat
  <2> QED BY <2>11 DEF a, s
<1> QED BY <1>1, RingsInvariant, PTL

(* A card that runs with nobody handling its interrupt has interrupts enabled *)
(* (LanceStartChip, LanceISR and LanceEnableInterrupt between them).          *)
THEOREM CardHears == RingsSpec => []NotDeaf
<1>1. RingsInv => NotDeaf
  BY DEF RingsInv, MaskInv
<1> QED BY <1>1, RingsInvariant, PTL

-----------------------------------------------------------------------------
(* The wake-up patterns.                                                      *)
Chunk == [start : Nat, size : Nat]
Sizes(list) == [i \in DOMAIN list |-> list[i].size]

Within(a, x) == x.start <= a /\ a < x.start + x.size
Apart(x, y) == x.start + x.size <= y.start \/ y.start + y.size <= x.start
Fits(x) == BASE_PM_START_ADDRESS <= x.start /\ x.start + x.size <= MAX_PMR_ADDRESS
AllApart(list) == \A i, j \in 1..Len(list) : i # j => Apart(list[i], list[j])

(* The blocks lie in the memory, no two of them overlap, and every word lies  *)
(* in one of them.                                                            *)
Tiles(owned, free) ==
  /\ \A i \in 1..Len(owned) : Fits(owned[i]) /\ owned[i].size > 0
  /\ \A i \in 1..Len(free) : Fits(free[i]) /\ free[i].size > 0
  /\ AllApart(owned) /\ AllApart(free)
  /\ \A i \in 1..Len(owned), j \in 1..Len(free) : Apart(owned[i], free[j])
  /\ \A a \in Addresses : \/ \E i \in 1..Len(owned) : Within(a, owned[i])
                          \/ \E j \in 1..Len(free) : Within(a, free[j])

(* Every block with a pattern is named by one enabled slot, an enabled slot   *)
(* names nothing else, and a slot that is not enabled is cleared.             *)
Named(list, on, address) ==
  /\ on \subseteq Slots /\ address \in [Slots -> Nat]
  /\ \A n \in Slots \ on : address[n] = 0
  /\ \A n \in on : \E i \in 1..Len(list) : address[n] = list[i].start
  /\ \A i \in 1..Len(list) : \E n \in on : address[n] = list[i].start
  /\ \A n, m \in on : address[n] = address[m] => n = m

(* A block carries the words of a pattern; the blocks carry those of the      *)
(* registered patterns, in their order.                                       *)
Carries(mem, x, words) ==
  /\ x.size = Len(words)
  /\ \A k \in 1..Len(words) : mem[x.start + k - 1] = words[k]
Stored(mem, list, reg) ==
  /\ Len(list) = Len(reg)
  /\ \A i \in 1..Len(list) : Carries(mem, list[i], LanceTranslatePattern(reg[i]))

(* The inductive invariant of the pattern memory.                             *)
MemoryInv(s, total, reg) ==
  /\ s.patternList \in Seq(Chunk) /\ s.freeList \in Seq(Chunk)
  /\ s.pool \in Nat /\ s.pool + Len(s.patternList) + Len(s.freeList) = MAX_BLOCKS
  /\ Tiles(s.patternList, s.freeList)
  /\ total = Total(Sizes(s.patternList))
  /\ Named(s.patternList, s.slotOn, s.slotAddress)
  /\ reg \in Seq(Pattern)
  /\ ~s.moved => Stored(s.ram, s.patternList, reg)

(* It holds until a block is taken from the empty pool.                       *)
PatternsInv ==
  /\ ~overdrawn => MemoryInv(Current, totalPMRUsed, registered)
  /\ wakeUpMode \in BOOLEAN /\ pmMode \in BOOLEAN /\ overdrawn \in BOOLEAN
  /\ WatchesRegistered

(* What the translation has made of the first n groups of a pattern: the      *)
(* k-th word stands for the q[k]-th group, and every group with a mask has a  *)
(* word.                                                                      *)
WordsOf(p) == [data : {p} \X Nat, skip : Nat, mask : 0..15, end : BOOLEAN]
Translated(p, words, q, n) ==
  /\ words \in Seq(WordsOf(p)) /\ q \in [0..Len(words) -> 0..n] /\ q[0] = 0
  /\ \A k \in 1..Len(words) : /\ q[k] = q[k - 1] + words[k].skip + 1
                              /\ words[k].data = <<p, q[k]>>
                              /\ words[k].mask = Mask[p][q[k]]
  /\ \A i \in 1..n : Mask[p][i] # 0 => \E k \in 1..Len(words) : q[k] = i
TranslatedTo(p, s, n) ==
  /\ s \in [skip : Nat, words : Seq(WordsOf(p))]
  /\ \A k \in 1..Len(s.words) : ~s.words[k].end
  /\ \E q : Translated(p, s.words, q, n) /\ n = q[Len(s.words)] + s.skip

After(p, g, n) ==
  g = [i \in 0..n |-> IF i = 0 THEN [skip |-> 0, words |-> <<>>]
                               ELSE NextWord(g[i - 1], p, i)]

(* The translation is defined for any number of groups.                       *)
LEMMA AfterExists ==
  ASSUME NEW p, NEW n \in Nat
  PROVE  \E g : After(p, g, n)
<1> DEFINE I == {k \in 0..n : \E g : After(p, g, k)}
           none == [skip |-> 0, words |-> <<>>]
<1>1. 0 \in I
  <2>1. [i \in 0..0 |-> none] = [i \in 0..0 |-> IF i = 0 THEN none
                 ELSE NextWord([j \in 0..0 |-> none][i - 1], p, i)]
    <3>1. \A i \in 0..0 : i = 0
      OBVIOUS
    <3> QED BY <3>1
  <2>2. After(p, [i \in 0..0 |-> none], 0)
    BY <2>1 DEF After
  <2> QED BY <2>2
<1>2. ASSUME NEW k \in 0..n, k < n, k \in I PROVE k + 1 \in I
  <2>1. PICK f : After(p, f, k)
    BY <1>2
  <2> DEFINE g == [i \in 0..(k + 1) |-> IF i = k + 1 THEN NextWord(f[k], p, i) ELSE f[i]]
             h == [i \in 0..(k + 1) |-> IF i = 0 THEN none ELSE NextWord(g[i - 1], p, i)]
  <2>2. ASSUME NEW i \in 0..(k + 1) PROVE g[i] = h[i]
    <3>1. CASE i = k + 1
      <4>1. i # 0 /\ i - 1 = k /\ k \in 0..(k + 1) /\ k # k + 1
        BY <3>1
      <4>2. g[k] = f[k]
        BY <4>1
      <4> HIDE DEF g
      <4>3. h[i] = NextWord(g[k], p, i)
        BY <4>1
      <4> USE DEF g
      <4>4. g[i] = NextWord(f[k], p, i)
        BY <3>1
      <4> QED BY <4>2, <4>3, <4>4
    <3>2. CASE i = 0
      <4>1. g[i] = f[i] /\ i \in 0..k
        BY <3>2
      <4>2. f[i] = none
        BY <2>1, <3>2, <4>1 DEF After
      <4> QED BY <3>2, <4>1, <4>2
    <3>3. CASE i # 0 /\ i # k + 1
      <4>1. i \in 0..k /\ i - 1 \in 0..(k + 1) /\ i - 1 # k + 1
        BY <3>3
      <4>2. g[i] = f[i] /\ g[i - 1] = f[i - 1]
        BY <3>3, <4>1
      <4>3. f[i] = NextWord(f[i - 1], p, i)
        BY <2>1, <3>3, <4>1 DEF After
      <4> HIDE DEF g
      <4>4. h[i] = NextWord(g[i - 1], p, i)
        BY <3>3
      <4> QED BY <4>2, <4>3, <4>4
    <3> QED BY <3>1, <3>2, <3>3
  <2>3. g = [i \in 0..(k + 1) |-> g[i]] /\ h = [i \in 0..(k + 1) |-> h[i]]
    OBVIOUS
  <2>4. g = h
    <3> HIDE DEF g, h
    <3> QED BY <2>2, <2>3
  <2>5. After(p, g, k + 1)
    BY <2>4 DEF After
  <2> HIDE DEF g
  <2> QED BY <1>2, <2>5
<1> HIDE DEF I
<1>3. 0..n \subseteq I
  BY <1>1, <1>2, UpTo
<1>4. n \in I
  BY <1>3
<1> QED BY <1>4 DEF I

(* One more group.                                                            *)
LEMMA NextWordProps ==
  ASSUME NEW p \in Pattern, NEW n \in Nat, n < Len(Mask[p]),
         NEW s, TranslatedTo(p, s, n)
  PROVE  TranslatedTo(p, NextWord(s, p, n + 1), n + 1)
<1> DEFINE L == Len(s.words)
           m == Mask[p][n + 1]
           w == [data |-> <<p, n + 1>>, skip |-> s.skip, mask |-> m, end |-> FALSE]
<1>1. PICK q : Translated(p, s.words, q, n) /\ n = q[L] + s.skip
  BY DEF TranslatedTo
<1>2. /\ s.words \in Seq(WordsOf(p)) /\ s.skip \in Nat
      /\ s \in [skip : Nat, words : Seq(WordsOf(p))]
      /\ \A k \in 1..L : ~s.words[k].end
  BY DEF TranslatedTo
<1>3. L \in Nat
  BY <1>2, LenProperties
<1>4. m \in 0..15 /\ n + 1 \in 1..Len(Mask[p])
  <2>1. Mask[p] \in Seq(0..15)
    BY MaskAssumption
  <2>2. n + 1 \in 1..Len(Mask[p])
    BY <2>1, LenProperties
  <2> QED BY <2>1, <2>2, ElementOfSeq
<1>5. w \in WordsOf(p) /\ ~w.end /\ w.skip = s.skip /\ w.data = <<p, n + 1>> /\ w.mask = m
  <2>1. <<p, n + 1>> \in {p} \X Nat
    OBVIOUS
  <2> QED BY <1>2, <1>4, <2>1 DEF WordsOf
<1>6. /\ q \in [0..L -> 0..n] /\ q[0] = 0
      /\ \A k \in 1..L : /\ q[k] = q[k - 1] + s.words[k].skip + 1
                         /\ s.words[k].data = <<p, q[k]>>
                         /\ s.words[k].mask = Mask[p][q[k]]
      /\ \A i \in 1..n : Mask[p][i] # 0 => \E k \in 1..L : q[k] = i
  BY <1>1 DEF Translated
<1>7. CASE m # 0 \/ s.skip = MaxSkip
  <2> DEFINE t == Append(s.words, w)
             r == [k \in 0..(L + 1) |-> IF k = L + 1 THEN n + 1 ELSE q[k]]
  <2>1. /\ t \in Seq(WordsOf(p)) /\ Len(t) = L + 1
        /\ \A k \in 1..L : t[k] = s.words[k]
        /\ t[L + 1] = w
    BY <1>2, <1>5, AppendProperties
  <2>2. /\ r \in [0..(L + 1) -> 0..(n + 1)]
        /\ \A k \in 0..L : r[k] = q[k]
        /\ r[L + 1] = n + 1
    BY <1>3, <1>6
  <2>3. NextWord(s, p, n + 1) = [skip |-> 0, words |-> t]
    BY <1>7 DEF NextWord
  <2> HIDE DEF t, r, w, m
  <2>4. ASSUME NEW k \in 1..(L + 1)
        PROVE  /\ r[k] = r[k - 1] + t[k].skip + 1
               /\ t[k].data = <<p, r[k]>>
               /\ t[k].mask = Mask[p][r[k]]
               /\ ~t[k].end
    <3>1. CASE k = L + 1
      <4>0. k - 1 = L /\ L \in 0..L
        BY <1>3, <3>1
      <4>1. r[k] = n + 1 /\ r[k - 1] = q[L] /\ t[k] = w
        BY <2>1, <2>2, <3>1, <4>0
      <4>2. q[L] \in Nat
        BY <1>3, <1>6
      <4>3. r[k] = r[k - 1] + t[k].skip + 1
        BY <1>1, <1>2, <1>5, <4>1, <4>2
      <4> QED BY <1>5, <4>1, <4>3 DEF m
    <3>2. CASE k # L + 1
      <4>1. k \in 1..L /\ k - 1 \in 0..L /\ k \in 0..L
        BY <1>3, <3>2
      <4>2. t[k] = s.words[k] /\ r[k] = q[k] /\ r[k - 1] = q[k - 1]
        BY <2>1, <2>2, <4>1
      <4> QED BY <1>2, <1>6, <4>1, <4>2
    <3> QED BY <3>1, <3>2
  <2>5. ASSUME NEW i \in 1..(n + 1), Mask[p][i] # 0
        PROVE  \E k \in 1..(L + 1) : r[k] = i
    <3>1. CASE i = n + 1
      <4>1. L + 1 \in 1..(L + 1)
        BY <1>3
      <4> QED BY <2>2, <3>1, <4>1
    <3>2. CASE i # n + 1
      <4>1. PICK k \in 1..L : q[k] = i
        BY <1>6, <2>5, <3>2
      <4>2. k \in 1..(L + 1) /\ k \in 0..L
        BY <1>3
      <4> QED BY <2>2, <4>1, <4>2
    <3> QED BY <3>1, <3>2
  <2>6. r[0] = 0
    BY <1>3, <1>6, <2>2
  <2>7. Translated(p, t, r, n + 1)
    BY <2>1, <2>2, <2>4, <2>5, <2>6 DEF Translated
  <2>8. n + 1 = r[L + 1] + 0
    BY <2>2
  <2>9. TranslatedTo(p, [skip |-> 0, words |-> t], n + 1)
    BY <2>1, <2>4, <2>7, <2>8 DEF TranslatedTo
  <2> QED BY <2>3, <2>9
<1>8. CASE m = 0 /\ s.skip # MaxSkip
  <2> DEFINE z == [s EXCEPT !.skip = @ + 1]
  <2>1. NextWord(s, p, n + 1) = z
    BY <1>8 DEF NextWord
  <2>2. /\ z \in [skip : Nat, words : Seq(WordsOf(p))]
        /\ z.words = s.words /\ z.skip = s.skip + 1
    BY <1>2
  <2>3. q \in [0..L -> 0..(n + 1)]
    BY <1>6
  <2>4. \A i \in 1..(n + 1) : Mask[p][i] # 0 => \E k \in 1..L : q[k] = i
    <3>1. \A i \in 1..(n + 1) : i \in 1..n \/ i = n + 1
      OBVIOUS
    <3> QED BY <1>6, <1>8, <3>1
  <2>5. Translated(p, s.words, q, n + 1)
    BY <1>2, <1>6, <2>3, <2>4 DEF Translated
  <2>6. q[L] \in Nat
    BY <1>3, <1>6
  <2> HIDE DEF z
  <2>7. n + 1 = q[L] + z.skip
    <3>1. n = q[L] + s.skip /\ s.skip \in Nat /\ z.skip = s.skip + 1
      BY <1>1, <1>2, <2>2
    <3> HIDE DEF L
    <3> QED BY <2>6, <3>1
  <2>8. TranslatedTo(p, z, n + 1)
    BY <1>2, <2>2, <2>5, <2>7 DEF TranslatedTo
  <2> QED BY <2>1, <2>8
<1> QED BY <1>7, <1>8

(* The words of a pattern: only the last carries the end mark.                *)
LEMMA TranslateProps ==
  ASSUME NEW p \in Pattern
  PROVE  LET words == LanceTranslatePattern(p)
         IN  /\ \A k \in 1..Len(words) : words[k].end <=> k = Len(words)
             /\ \E q : Translated(p, words, q, Len(Mask[p]))
<1> DEFINE n == Len(Mask[p])
           after[i \in 0..n] == IF i = 0 THEN [skip |-> 0, words |-> <<>>]
                                         ELSE NextWord(after[i - 1], p, i)
           words == LanceTranslatePattern(p)
<1>1. n \in Nat
  BY MaskAssumption, LenProperties
<1>2. words = EndMarked(after[n].words)
  BY DEF LanceTranslatePattern
<1> HIDE DEF words
<1>3. After(p, after, n)
  <2> DEFINE F(h) == [i \in 0..n |-> IF i = 0 THEN [skip |-> 0, words |-> <<>>]
                                              ELSE NextWord(h[i - 1], p, i)]
  <2>1. after = CHOOSE h : h = F(h)
    OBVIOUS
  <2> HIDE DEF after
  <2>2. \E h : h = F(h)
    BY <1>1, AfterExists DEF After
  <2> HIDE DEF F
  <2>3. after = F(after)
    BY <2>1, <2>2
  <2> QED BY <2>3 DEF F, After
<1> HIDE DEF after
<1> DEFINE I == {i \in 0..n : TranslatedTo(p, after[i], i)}
<1>4. 0 \in I
  <2>1. after[0] = [skip |-> 0, words |-> <<>>]
    BY <1>1, <1>3 DEF After
  <2> DEFINE z == [skip |-> 0, words |-> <<>>]
  <2>2. <<>> \in Seq(WordsOf(p)) /\ Len(<<>>) = 0
    BY EmptySeq
  <2>3. Translated(p, <<>>, [i \in 0..0 |-> 0], 0)
    BY <2>2 DEF Translated
  <2>4. z.words = <<>> /\ z.skip = 0 /\ z \in [skip : Nat, words : Seq(WordsOf(p))]
    BY <2>2
  <2> HIDE DEF z
  <2>5. 0 = [i \in 0..0 |-> 0][Len(z.words)] + z.skip
    BY <2>2, <2>4
  <2>6. TranslatedTo(p, z, 0)
    BY <2>2, <2>3, <2>4, <2>5 DEF TranslatedTo
  <2> QED BY <1>1, <2>1, <2>6 DEF z
<1>5. ASSUME NEW i \in 0..n, i < n, i \in I PROVE i + 1 \in I
  <2>1. i \in Nat /\ i + 1 \in 0..n /\ i + 1 # 0 /\ (i + 1) - 1 = i
    BY <1>1, <1>5
  <2>2. after[i + 1] = NextWord(after[i], p, i + 1)
    BY <1>3, <2>1 DEF After
  <2>3. TranslatedTo(p, after[i + 1], i + 1)
    BY <1>5, <2>1, <2>2, NextWordProps
  <2> QED BY <2>1, <2>3
<1> HIDE DEF I
<1>6. n \in I
  <2>1. 0..n \subseteq I
    BY <1>1, <1>4, <1>5, UpTo
  <2> QED BY <1>1, <2>1
<1> DEFINE w == after[n].words
           L == Len(w)
<1>7. /\ w \in Seq(WordsOf(p))
      /\ \A k \in 1..L : ~w[k].end
  BY <1>6 DEF I, TranslatedTo
<1>8. PICK q : Translated(p, w, q, n)
  BY <1>6 DEF I, TranslatedTo
<1> HIDE DEF w, n
<1>9. CASE w = <<>>
  <2>1. words = w
    BY <1>2, <1>9 DEF EndMarked, w
  <2>2. \A k \in 1..Len(words) : FALSE
    BY <1>9, <2>1, EmptySeq
  <2> QED BY <1>8, <2>1, <2>2 DEF words, n
<1>10. CASE w # <<>>
  <2>1. words = [w EXCEPT ![L].end = TRUE]
    BY <1>2, <1>10 DEF EndMarked, w
  <2>2. L \in Nat /\ L > 0 /\ DOMAIN w = 1..L
    BY <1>7, <1>10, LenProperties, EmptySeq
  <2>3. \A k \in 1..L : w[k] \in WordsOf(p)
    BY <1>7, ElementOfSeq
  <2> DEFINE e == [w[L] EXCEPT !.end = TRUE]
  <2>4. /\ e \in WordsOf(p) /\ e.end /\ e.skip = w[L].skip
        /\ e.data = w[L].data /\ e.mask = w[L].mask
    <3>1. L \in 1..L
      BY <2>2
    <3>2. w[L] \in WordsOf(p)
      BY <2>3, <3>1
    <3>3. \A x \in WordsOf(p) :
             LET y == [x EXCEPT !.end = TRUE]
             IN  /\ y \in WordsOf(p) /\ y.end /\ y.skip = x.skip
                 /\ y.data = x.data /\ y.mask = x.mask
      BY DEF WordsOf
    <3> QED BY <3>2, <3>3
  <2> HIDE DEF L
  <2>5. words = [k \in 1..L |-> IF k = L THEN e ELSE w[k]]
    BY <2>1, <2>2
  <2> HIDE DEF e
  <2>6. words \in [1..L -> WordsOf(p)]
    BY <2>3, <2>4, <2>5
  <2>7. words \in Seq(WordsOf(p)) /\ Len(words) = L
    BY <2>2, <2>6, IsASeq, LenProperties
  <2>8. ASSUME NEW k \in 1..L
        PROVE  /\ words[k].skip = w[k].skip /\ words[k].data = w[k].data
               /\ words[k].mask = w[k].mask /\ (words[k].end <=> k = L)
    BY <1>7, <2>4, <2>5 DEF L
  <2>9. Translated(p, words, q, n)
    BY <1>8, <2>7, <2>8 DEF Translated, L
  <2> QED BY <2>7, <2>8, <2>9 DEF words, n
<1> QED BY <1>9, <1>10

(* Two patterns never have the same words, unless they have none.             *)
LEMMA WordsTell ==
  ASSUME NEW p \in Pattern, NEW r \in Pattern,
         LanceTranslatePattern(p) = LanceTranslatePattern(r),
         Len(LanceTranslatePattern(p)) > 0
  PROVE  p = r
<1> DEFINE w == LanceTranslatePattern(p)
<1>1. PICK q : Translated(p, w, q, Len(Mask[p]))
  BY TranslateProps
<1>2. PICK v : Translated(r, w, v, Len(Mask[r]))
  BY TranslateProps
<1>3. Len(w) > 0
  OBVIOUS
<1> HIDE DEF w
<1>4. 1 \in 1..Len(w)
  BY <1>1, <1>3, LenProperties DEF Translated
<1>5. w[1].data = <<p, q[1]>> /\ w[1].data = <<r, v[1]>>
  BY <1>1, <1>2, <1>4 DEF Translated
<1> QED BY <1>5

(* From the start of a block that carries a pattern the controller compares   *)
(* what NDIS asked for.                                                       *)
LEMMA ComparesPattern ==
  ASSUME NEW p \in Pattern, NEW x \in Chunk, Fits(x), x.size > 0,
         Carries(ram, x, LanceTranslatePattern(p))
  PROVE  Compared(x.start) = Wanted(p)
<1> DEFINE w == LanceTranslatePattern(p)
           from == x.start
           L == x.size
           e == from + L - 1
           ends == {a \in Addresses : a >= from /\ ram[a].end}
           last == IF ends = {} THEN MAX_PMR_ADDRESS - 1 ELSE Min(ends)
           position[a \in (from - 1) .. last] ==
             IF a = from - 1 THEN 0 ELSE position[a - 1] + ram[a].skip + 1
<1>1. Compared(from) = {<<position[a], ram[a].mask, ram[a].data>> :
                          a \in {b \in from .. last : ram[b].mask # 0}}
  BY DEF Compared
<1>2. PICK q : Translated(p, w, q, Len(Mask[p]))
  BY TranslateProps
<1>3. /\ \A k \in 1..Len(w) : w[k].end <=> k = Len(w)
      /\ L = Len(w) /\ \A k \in 1..Len(w) : ram[from + k - 1] = w[k]
  BY TranslateProps DEF Carries
<1>4. /\ from \in Nat /\ L \in Nat /\ L > 0 /\ e \in Nat /\ e >= from
      /\ BASE_PM_START_ADDRESS <= from /\ e <= MAX_PMR_ADDRESS - 1
  BY SizesAssumption DEF Chunk, Fits
<1> HIDE DEF position
<1>p. position = CHOOSE f : f = [a \in (from - 1) .. last |->
             IF a = from - 1 THEN 0 ELSE f[a - 1] + ram[a].skip + 1]
  BY DEF position
<1> HIDE DEF w, last
<1>5. /\ w \in Seq(WordsOf(p)) /\ q \in [0..L -> 0..Len(Mask[p])] /\ q[0] = 0
      /\ \A k \in 1..L : /\ q[k] = q[k - 1] + w[k].skip + 1
                         /\ w[k].data = <<p, q[k]>>
                         /\ w[k].mask = Mask[p][q[k]]
      /\ \A i \in 1..Len(Mask[p]) : Mask[p][i] # 0 => \E k \in 1..L : q[k] = i
  BY <1>2, <1>3 DEF Translated
<1>6. \A k \in 1..L : w[k].skip \in Nat
  <2>1. \A k \in 1..L : w[k] \in WordsOf(p)
    BY <1>3, <1>5, ElementOfSeq
  <2>2. \A y \in WordsOf(p) : y.skip \in Nat
    BY DEF WordsOf
  <2> QED BY <2>1, <2>2
<1> HIDE DEF from, L
<1>7. ASSUME NEW a \in from..e
      PROVE  a - from + 1 \in 1..L /\ a \in Nat /\ ram[a] = w[a - from + 1]
             /\ (ram[a].end <=> a = e)
  <2>1. a - from + 1 \in 1..L /\ a \in Nat /\ from + (a - from + 1) - 1 = a
        /\ (a - from + 1 = L <=> a = e)
    BY <1>4
  <2>2. ram[a] = w[a - from + 1]
    BY <1>3, <2>1
  <2> QED BY <1>3, <2>1, <2>2
<1>8. last = e
  <2>1. e \in ends
    <3>1. e \in from..e /\ e \in Addresses
      BY <1>4, SizesAssumption DEF Addresses
    <3> QED BY <1>4, <1>7, <3>1
  <2>2. ends \subseteq Nat
    BY SizesAssumption DEF Addresses
  <2>3. Min(ends) \in ends /\ Min(ends) <= e
    BY <2>1, <2>2, MinProps
  <2>4. \A a \in ends : a <= e => a = e
    <3>1. \A a \in ends : a <= e => a \in from..e
      BY <1>4, <2>2
    <3> QED BY <1>7, <3>1
  <2> QED BY <2>1, <2>3, <2>4 DEF last
<1> DEFINE F(f) == [a \in (from - 1) .. e |->
                      IF a = from - 1 THEN 0 ELSE f[a - 1] + ram[a].skip + 1]
           known == [a \in (from - 1) .. e |-> q[a - from + 1]]
<1>9. known = F(known)
  <2>1. ASSUME NEW a \in (from - 1)..e PROVE known[a] = F(known)[a]
    <3>1. CASE a = from - 1
      <4>1. a - from + 1 = 0
        BY <1>4, <3>1
      <4> QED BY <1>5, <3>1, <4>1
    <3>2. CASE a # from - 1
      <4>1. a \in from..e /\ a - 1 \in (from - 1)..e /\ (a - 1) - from + 1 = (a - from + 1) - 1
        BY <1>4, <3>2
      <4>2. a - from + 1 \in 1..L /\ ram[a] = w[a - from + 1]
        BY <1>7, <4>1
      <4>3. known[a] = q[a - from + 1] /\ known[a - 1] = q[(a - from + 1) - 1]
        BY <4>1
      <4> HIDE DEF known
      <4>4. F(known)[a] = known[a - 1] + ram[a].skip + 1
        BY <3>2
      <4>5. q[a - from + 1] = q[(a - from + 1) - 1] + w[a - from + 1].skip + 1
        BY <1>5, <4>2
      <4> QED BY <4>2, <4>3, <4>4, <4>5
    <3> QED BY <3>1, <3>2
  <2>2. known = [a \in (from - 1)..e |-> known[a]]
        /\ F(known) = [a \in (from - 1)..e |-> F(known)[a]]
    OBVIOUS
  <2> HIDE DEF known, F
  <2> QED BY <2>1, <2>2
<1>10. position = F(position)
  <2>1. position = CHOOSE f : f = F(f)
    BY <1>8, <1>p
  <2>2. \E f : f = F(f)
    <3> HIDE DEF F, known
    <3> QED BY <1>9
  <2> HIDE DEF F
  <2> QED BY <2>1, <2>2
<1> HIDE DEF known
<1> DEFINE I == {i \in 0..L : position[from - 1 + i] = q[i]}
<1>11. 0 \in I
  <2>1. from - 1 + 0 = from - 1 /\ from - 1 \in (from - 1)..e
    BY <1>4
  <2>2. position[from - 1] = 0
    BY <1>10, <2>1
  <2> QED BY <1>4, <1>5, <2>1, <2>2
<1>12. ASSUME NEW i \in 0..L, i < L, i \in I PROVE i + 1 \in I
  <2>1. /\ from - 1 + (i + 1) \in from..e /\ from - 1 + (i + 1) \in (from - 1)..e
        /\ from - 1 + (i + 1) # from - 1
        /\ (from - 1 + (i + 1)) - 1 = from - 1 + i
        /\ (from - 1 + (i + 1)) - from + 1 = i + 1
        /\ i + 1 \in 1..L /\ (i + 1) - 1 = i /\ i + 1 \in 0..L
    BY <1>4, <1>12
  <2> DEFINE a == from - 1 + (i + 1)
  <2>2. position[a] = position[a - 1] + ram[a].skip + 1
    BY <1>10, <2>1
  <2>3. ram[a] = w[i + 1]
    BY <1>7, <2>1
  <2>4. q[i + 1] = q[i] + w[i + 1].skip + 1
    BY <1>5, <2>1
  <2>5. position[a - 1] = q[i]
    BY <1>12, <2>1
  <2> HIDE DEF a
  <2>6. position[a] = q[i + 1]
    BY <2>2, <2>3, <2>4, <2>5
  <2> QED BY <2>1, <2>6 DEF a
<1> HIDE DEF I, F
<1>13. 0..L \subseteq I
  BY <1>4, <1>11, <1>12, UpTo
<1>14. ASSUME NEW a \in from..e
       PROVE  /\ a - from + 1 \in 1..L
              /\ <<position[a], ram[a].mask, ram[a].data>> =
                 <<q[a - from + 1], Mask[p][q[a - from + 1]], <<p, q[a - from + 1]>> >>
  <2>1. a - from + 1 \in 1..L /\ ram[a] = w[a - from + 1]
    BY <1>7
  <2>2. a - from + 1 \in 0..L /\ from - 1 + (a - from + 1) = a
    BY <1>4
  <2>3. position[a] = q[a - from + 1]
    BY <1>13, <2>2 DEF I
  <2>4. ram[a].mask = Mask[p][q[a - from + 1]] /\ ram[a].data = <<p, q[a - from + 1]>>
    BY <1>5, <2>1
  <2> QED BY <2>1, <2>3, <2>4
<1>15. \A k \in 1..L : q[k] \in 1..Len(Mask[p])
  <2> SUFFICES ASSUME NEW k \in 1..L PROVE q[k] \in 1..Len(Mask[p])
    OBVIOUS
  <2>1. k \in 0..L /\ k - 1 \in 0..L
    BY <1>4
  <2>2. q[k] \in 0..Len(Mask[p]) /\ q[k - 1] \in Nat /\ w[k].skip \in Nat
    BY <1>5, <1>6, <2>1
  <2>3. q[k] = q[k - 1] + w[k].skip + 1
    BY <1>5
  <2> QED BY <2>2, <2>3
<1>16. DOMAIN Mask[p] = 1..Len(Mask[p])
  BY MaskAssumption, LenProperties
<1> DEFINE C == {<<position[a], ram[a].mask, ram[a].data>> :
                   a \in {b \in from .. e : ram[b].mask # 0}}
<1>17. ASSUME NEW y \in C PROVE y \in Wanted(p)
  <2>1. PICK a \in from..e : ram[a].mask # 0 /\ y = <<position[a], ram[a].mask, ram[a].data>>
    OBVIOUS
  <2>2. PICK k \in 1..L : k = a - from + 1
    BY <1>14
  <2>3. <<position[a], ram[a].mask, ram[a].data>> = <<q[k], Mask[p][q[k]], <<p, q[k]>> >>
    BY <1>14, <2>2
  <2>4. y = <<q[k], Mask[p][q[k]], <<p, q[k]>> >> /\ Mask[p][q[k]] # 0
    BY <2>1, <2>3
  <2> QED BY <1>15, <1>16, <2>4 DEF Wanted
<1>18. ASSUME NEW y \in Wanted(p) PROVE y \in C
  <2>1. PICK i \in 1..Len(Mask[p]) : Mask[p][i] # 0 /\ y = <<i, Mask[p][i], <<p, i>> >>
    BY <1>16 DEF Wanted
  <2>2. PICK k \in 1..L : q[k] = i
    BY <1>5, <2>1
  <2>3. PICK a \in from..e : k = a - from + 1
    <3>1. from + k - 1 \in from..e /\ k = (from + k - 1) - from + 1
      BY <1>4
    <3> QED BY <3>1
  <2>4. <<position[a], ram[a].mask, ram[a].data>> = <<i, Mask[p][i], <<p, i>> >>
    BY <1>14, <2>2, <2>3
  <2> QED BY <2>1, <2>4
<1>19. Compared(from) = C
  BY <1>1, <1>8
<1> HIDE DEF C
<1>20. C = Wanted(p)
  BY <1>17, <1>18
<1> QED BY <1>19, <1>20 DEF from

-----------------------------------------------------------------------------
(* Blocks side by side.                                                       *)

(* The blocks of a list and those that are free begin at different places.    *)
LEMMA StartsDiffer ==
  ASSUME NEW list \in Seq(Chunk), AllApart(list),
         \A i \in 1..Len(list) : list[i].size > 0,
         NEW i \in 1..Len(list), NEW j \in 1..Len(list),
         list[i].start = list[j].start
  PROVE  i = j
<1>1. list[i] \in Chunk /\ list[j] \in Chunk
  BY ElementOfSeq
<1>2. list[i].start \in Nat /\ list[i].size \in Nat /\ list[j].size \in Nat
  BY <1>1 DEF Chunk
<1>3. list[i].size > 0 /\ list[j].size > 0
  OBVIOUS
<1> QED BY <1>2, <1>3 DEF AllApart, Apart

(* The bijection between the enabled slots and the blocks with patterns.      *)
LEMMA NamedCount ==
  ASSUME NEW list \in Seq(Chunk), NEW on, NEW address, Named(list, on, address),
         AllApart(list), \A i \in 1..Len(list) : list[i].size > 0
  PROVE  /\ IsFiniteSet(on) /\ Cardinality(on) = Len(list)
         /\ {address[n] : n \in on} = {x.start : x \in ToSet(list)}
<1>1. /\ \A n \in on : \E i \in 1..Len(list) : address[n] = list[i].start
      /\ \A i \in 1..Len(list) : \E n \in on : address[n] = list[i].start
      /\ \A n, m \in on : address[n] = address[m] => n = m
  BY DEF Named
<1>2. Len(list) \in Nat
  BY LenProperties
<1> DEFINE f == [i \in 1..Len(list) |-> CHOOSE n \in on : address[n] = list[i].start]
<1>3. \A i \in 1..Len(list) : f[i] \in on /\ address[f[i]] = list[i].start
  BY <1>1
<1>4. f \in [1..Len(list) -> on]
  BY <1>3
<1> HIDE DEF f
<1>5. \A i, j \in 1..Len(list) : f[i] = f[j] => i = j
  <2>1. \A i, j \in 1..Len(list) : list[i].start = list[j].start => i = j
    BY StartsDiffer
  <2> QED BY <1>3, <2>1
<1>6. \A n \in on : \E i \in 1..Len(list) : f[i] = n
  BY <1>1, <1>3
<1>7. f \in Bijection(1..Len(list), on)
  <2>1. DOMAIN f = 1..Len(list)
    BY <1>4
  <2>2. f \in Injection(1..Len(list), on)
    BY <1>4, <1>5, <2>1 DEF Injection, IsInjective
  <2>3. f \in Surjection(1..Len(list), on)
    BY <1>4, <1>6, <2>1 DEF Surjection
  <2> QED BY <2>2, <2>3 DEF Bijection
<1>8. ExistsBijection(1..Len(list), on)
  BY <1>7 DEF ExistsBijection
<1>9. IsFiniteSet(on) /\ Cardinality(on) = Len(list)
  BY <1>2, <1>8, FS_CountingElements, FS_NatBijection
<1>10. \A x : x \in ToSet(list) <=> \E i \in 1..Len(list) : list[i] = x
  BY ToSetProps
<1>11. {address[n] : n \in on} = {x.start : x \in ToSet(list)}
  BY <1>1, <1>10
<1> QED BY <1>9, <1>11

(* As long as a slot is free there is a first one.                            *)
LEMMA FreeSlotProps ==
  ASSUME NEW list \in Seq(Chunk), NEW on, NEW address, Named(list, on, address),
         AllApart(list), \A i \in 1..Len(list) : list[i].size > 0,
         Len(list) < MAX_ALLOWED_PATTERN
  PROVE  FreeSlot(on) \in Slots \ on
<1>1. IsFiniteSet(on) /\ Cardinality(on) = Len(list) /\ on \subseteq Slots
  BY NamedCount DEF Named
<1>2. Cardinality(Slots) = MAX_ALLOWED_PATTERN
  <2>1. 0 \in Int /\ MAX_ALLOWED_PATTERN - 1 \in Int /\ MAX_ALLOWED_PATTERN \in Nat
    BY SizesAssumption
  <2>2. Cardinality(0..(MAX_ALLOWED_PATTERN - 1)) =
          IF 0 > MAX_ALLOWED_PATTERN - 1 THEN 0 ELSE (MAX_ALLOWED_PATTERN - 1) - 0 + 1
    BY <2>1, FS_Interval
  <2> QED BY <2>1, <2>2 DEF Slots
<1>3. Len(list) \in Nat
  BY LenProperties
<1>4. Slots # on
  BY <1>1, <1>2, <1>3, SizesAssumption
<1>5. Slots \ on # {} /\ Slots \ on \subseteq Nat
  <2>1. Slots \subseteq Nat
    BY SizesAssumption DEF Slots
  <2> QED BY <1>1, <1>4, <2>1
<1> QED BY <1>5, MinProps DEF FreeSlot

(* The block found for a pattern is large enough.                             *)
LEMMA FirstFit ==
  ASSUME NEW list \in Seq(Chunk), NEW size \in Nat, FindFirstFitBlock(list, size) # 0
  PROVE  /\ FindFirstFitBlock(list, size) \in 1..Len(list)
         /\ list[FindFirstFitBlock(list, size)].size >= size
<1> DEFINE fits == {i \in DOMAIN list : list[i].size >= size}
<1>1. DOMAIN list = 1..Len(list) /\ Len(list) \in Nat
  BY LenProperties
<1>2. fits # {} /\ FindFirstFitBlock(list, size) = Min(fits)
  BY DEF FindFirstFitBlock
<1>3. fits \subseteq Nat
  BY <1>1
<1>4. Min(fits) \in fits
  <2> HIDE DEF fits
  <2> QED BY <1>2, <1>3, MinProps
<1> QED BY <1>1, <1>2, <1>4

(* The block found for the words of a pattern carries them, and is the first. *)
LEMMA FindPatternProps ==
  ASSUME patternList \in Seq(Chunk), NEW S, NEW words \in Seq(S)
  PROVE  /\ FindPattern(words) # 0 =>
              /\ FindPattern(words) \in 1..Len(patternList)
              /\ Carries(ram, patternList[FindPattern(words)], words)
              /\ \A i \in 1..Len(patternList) :
                   Carries(ram, patternList[i], words) => FindPattern(words) <= i
         /\ \A i \in 1..Len(patternList) :
              Carries(ram, patternList[i], words) => FindPattern(words) # 0
<1> DEFINE same == {i \in DOMAIN patternList :
                      /\ patternList[i].size = Len(words)
                      /\ \A k \in DOMAIN words :
                           ram[patternList[i].start + k - 1] = words[k]}
<1>1. /\ DOMAIN patternList = 1..Len(patternList) /\ Len(patternList) \in Nat
      /\ DOMAIN words = 1..Len(words)
  BY LenProperties
<1>2. FindPattern(words) = IF same = {} THEN 0 ELSE Min(same)
  BY DEF FindPattern
<1>3. same = {i \in 1..Len(patternList) : Carries(ram, patternList[i], words)}
  BY <1>1 DEF Carries
<1> HIDE DEF same
<1>4. same \subseteq Nat /\ \A i \in same : i # 0
  BY <1>1, <1>3
<1>5. same # {} => Min(same) \in same /\ \A j \in same : Min(same) <= j
  BY <1>4, MinProps
<1> QED BY <1>2, <1>3, <1>4, <1>5

(* A free block that is split at a size: both parts lie where it lay.         *)
LEMMA SplitProps ==
  ASSUME NEW f \in Chunk, NEW size \in Nat, size > 0, f.size > size, Fits(f)
  PROVE  LET x == [start |-> f.start, size |-> size]
             y == Rest(f, size)
         IN  /\ x \in Chunk /\ y \in Chunk /\ Fits(x) /\ Fits(y) /\ x.size > 0 /\ y.size > 0
             /\ Apart(x, y)
             /\ \A c \in Chunk : Apart(c, f) => Apart(c, x) /\ Apart(c, y)
             /\ \A a \in Addresses : Within(a, f) => Within(a, x) \/ Within(a, y)
<1> DEFINE x == [start |-> f.start, size |-> size]
           y == Rest(f, size)
<1>1. /\ f.start \in Nat /\ f.size \in Nat
      /\ x.start = f.start /\ x.size = size
      /\ y.start = f.start + size /\ y.size = f.size - size
      /\ y.start \in Nat /\ y.size \in Nat
  BY DEF Chunk, Rest
<1>2. x \in Chunk /\ y \in Chunk
  BY <1>1 DEF Chunk, Rest
<1>3. \A c \in Chunk : c.start \in Nat /\ c.size \in Nat
  BY DEF Chunk
<1>4. \A a \in Addresses : a \in Nat
  BY SizesAssumption DEF Addresses
<1>5. BASE_PM_START_ADDRESS <= f.start /\ f.start + f.size <= MAX_PMR_ADDRESS
      /\ BASE_PM_START_ADDRESS \in Nat /\ MAX_PMR_ADDRESS \in Nat
  BY SizesAssumption DEF Fits
<1> HIDE DEF x, y
<1>6. Fits(x) /\ Fits(y) /\ x.size > 0 /\ y.size > 0 /\ Apart(x, y)
  BY <1>1, <1>5 DEF Fits, Apart
<1>7. ASSUME NEW c \in Chunk, Apart(c, f) PROVE Apart(c, x) /\ Apart(c, y)
  BY <1>1, <1>3, <1>7 DEF Apart
<1>8. ASSUME NEW a \in Addresses, Within(a, f) PROVE Within(a, x) \/ Within(a, y)
  BY <1>1, <1>4, <1>8 DEF Within
<1> QED BY <1>2, <1>6, <1>7, <1>8 DEF x, y

LEMMA ApartSymmetric == \A x, y : Apart(x, y) <=> Apart(y, x)
BY DEF Apart

(* A pattern takes the first words of a free block: the rest stays free.      *)
LEMMA TilesSplit ==
  ASSUME NEW owned \in Seq(Chunk), NEW free \in Seq(Chunk), Tiles(owned, free),
         NEW k \in 1..Len(free), NEW size \in Nat, size > 0, free[k].size > size
  PROVE  LET x == [start |-> free[k].start, size |-> size]
         IN  /\ x \in Chunk
             /\ [free EXCEPT ![k] = Rest(@, size)] \in Seq(Chunk)
             /\ Len([free EXCEPT ![k] = Rest(@, size)]) = Len(free)
             /\ Tiles(Append(owned, x), [free EXCEPT ![k] = Rest(@, size)])
<1> DEFINE f == free[k]
           x == [start |-> f.start, size |-> size]
           y == Rest(f, size)
           u == Append(owned, x)
           v == [free EXCEPT ![k] = Rest(@, size)]
           n == Len(owned)
           m == Len(free)
<1>1. /\ n \in Nat /\ m \in Nat /\ DOMAIN free = 1..m
      /\ \A i \in 1..n : owned[i] \in Chunk
      /\ \A i \in 1..m : free[i] \in Chunk
  BY ElementOfSeq, LenProperties
<1>2. /\ \A i \in 1..n : Fits(owned[i]) /\ owned[i].size > 0
      /\ \A i \in 1..m : Fits(free[i]) /\ free[i].size > 0
      /\ \A i, j \in 1..n : i # j => Apart(owned[i], owned[j])
      /\ \A i, j \in 1..m : i # j => Apart(free[i], free[j])
      /\ \A i \in 1..n, j \in 1..m : Apart(owned[i], free[j])
      /\ \A a \in Addresses : \/ \E i \in 1..n : Within(a, owned[i])
                              \/ \E j \in 1..m : Within(a, free[j])
  BY DEF Tiles, AllApart
<1>k. k \in 1..m
  OBVIOUS
<1>3. /\ x \in Chunk /\ y \in Chunk /\ Fits(x) /\ Fits(y) /\ x.size > 0 /\ y.size > 0
      /\ Apart(x, y)
      /\ \A c \in Chunk : Apart(c, f) => Apart(c, x) /\ Apart(c, y)
      /\ \A a \in Addresses : Within(a, f) => Within(a, x) \/ Within(a, y)
  <2>1. f \in Chunk /\ Fits(f) /\ f.size > size
    BY <1>1, <1>2
  <2> HIDE DEF f
  <2> QED BY <2>1, SplitProps
<1>4. u \in Seq(Chunk) /\ Len(u) = n + 1 /\ (\A i \in 1..n : u[i] = owned[i]) /\ u[n + 1] = x
  BY <1>3, AppendProperties
<1>5. v \in Seq(Chunk) /\ Len(v) = m /\ v[k] = y /\ \A i \in 1..m : i # k => v[i] = free[i]
  <2>1. v = [i \in 1..m |-> IF i = k THEN y ELSE free[i]]
    BY <1>1
  <2>2. v \in [1..m -> Chunk]
    BY <1>1, <1>3, <2>1
  <2> HIDE DEF v, y
  <2>3. v \in Seq(Chunk) /\ Len(v) = m
    BY <1>1, <2>2, IsASeq, LenProperties
  <2> QED BY <1>k, <2>1, <2>3
<1> HIDE DEF u, v, x, y, n, m
<1>6. \A i \in 1..Len(u) : (i \in 1..n /\ u[i] = owned[i]) \/ (i = n + 1 /\ u[i] = x)
  BY <1>1, <1>4
<1>7. \A j \in 1..Len(v) : (j # k /\ j \in 1..m /\ v[j] = free[j]) \/ (j = k /\ v[j] = y)
  BY <1>5
<1>8. f \in Chunk
  BY <1>1, <1>k
<1>9. /\ \A i \in 1..n : Apart(owned[i], x) /\ Apart(owned[i], y)
      /\ \A j \in 1..m : j # k => Apart(free[j], x) /\ Apart(free[j], y)
  BY <1>1, <1>2, <1>3, <1>k
<1>10. \A i \in 1..Len(u) : Fits(u[i]) /\ u[i].size > 0
  BY <1>2, <1>3, <1>6
<1>11. \A j \in 1..Len(v) : Fits(v[j]) /\ v[j].size > 0
  BY <1>2, <1>3, <1>7
<1>12. AllApart(u)
  BY <1>2, <1>6, <1>9, ApartSymmetric DEF AllApart
<1>13. AllApart(v)
  BY <1>2, <1>7, <1>9, ApartSymmetric DEF AllApart
<1>14. \A i \in 1..Len(u), j \in 1..Len(v) : Apart(u[i], v[j])
  BY <1>2, <1>3, <1>6, <1>7, <1>9, ApartSymmetric
<1>15. \A i \in 1..n : i \in 1..Len(u) /\ u[i] = owned[i]
  <2>1. 1..n \subseteq 1..Len(u)
    BY <1>1, <1>4
  <2> QED BY <1>4, <2>1
<1>16. n + 1 \in 1..Len(u) /\ k \in 1..Len(v) /\ \A j \in 1..m : j \in 1..Len(v)
  BY <1>1, <1>4, <1>5, <1>k
<1>17. ASSUME NEW a \in Addresses
       PROVE  \/ \E i \in 1..Len(u) : Within(a, u[i])
              \/ \E j \in 1..Len(v) : Within(a, v[j])
  <2>1. CASE \E i \in 1..n : Within(a, owned[i])
    BY <1>15, <2>1
  <2>2. CASE \E j \in 1..m : j # k /\ Within(a, free[j])
    BY <1>5, <1>16, <2>2
  <2>3. CASE Within(a, f)
    BY <1>3, <1>4, <1>5, <1>16, <2>3
  <2> QED BY <1>2, <2>1, <2>2, <2>3
<1>18. Tiles(u, v)
  BY <1>10, <1>11, <1>12, <1>13, <1>14, <1>17 DEF Tiles
<1> QED BY <1>3, <1>5, <1>18 DEF u, v, x, m

(* Blocks pass between the lists: the element at k of one becomes the last of *)
(* the other.                                                                 *)
LEMMA TilesFill ==
  ASSUME NEW owned \in Seq(Chunk), NEW free \in Seq(Chunk), Tiles(owned, free),
         NEW k \in 1..Len(free), free[k].size > 0
  PROVE  Tiles(Append(owned, free[k]), RemoveAt(free, k))
<1> DEFINE x == free[k]
           u == Append(owned, x)
           v == RemoveAt(free, k)
           n == Len(owned)
           m == Len(free)
<1>1. n \in Nat /\ x \in Chunk
  BY ElementOfSeq, LenProperties
<1>2. /\ \A i \in 1..n : Fits(owned[i]) /\ owned[i].size > 0
      /\ \A i \in 1..m : Fits(free[i]) /\ free[i].size > 0
      /\ \A i, j \in 1..n : i # j => Apart(owned[i], owned[j])
      /\ \A i, j \in 1..m : i # j => Apart(free[i], free[j])
      /\ \A i \in 1..n, j \in 1..m : Apart(owned[i], free[j])
      /\ \A a \in Addresses : \/ \E i \in 1..n : Within(a, owned[i])
                              \/ \E j \in 1..m : Within(a, free[j])
  BY DEF Tiles, AllApart
<1>4. u \in Seq(Chunk) /\ Len(u) = n + 1 /\ (\A i \in 1..n : u[i] = owned[i]) /\ u[n + 1] = x
  BY <1>1, AppendProperties
<1>5. PICK old \in [1..Len(v) -> (1..m) \ {k}] :
           /\ \A i \in 1..Len(v) : v[i] = free[old[i]]
           /\ \A i, j \in 1..Len(v) : old[i] = old[j] => i = j
           /\ \A j \in (1..m) \ {k} : \E i \in 1..Len(v) : old[i] = j
  <2>1. \E old : Removal(free, k, old)
    BY RemoveAtIndices
  <2> QED BY <2>1 DEF Removal
<1>k. k \in 1..m /\ x.size > 0
  OBVIOUS
<1> HIDE DEF u, v, n, m
<1>6. \A i \in 1..Len(u) : (i \in 1..n /\ u[i] = owned[i]) \/ (i = n + 1 /\ u[i] = x)
  BY <1>1, <1>4
<1>7. \A j \in 1..Len(v) : old[j] \in 1..m /\ old[j] # k /\ v[j] = free[old[j]]
  BY <1>5
<1>10. \A i \in 1..Len(u) : Fits(u[i]) /\ u[i].size > 0
  BY <1>2, <1>k, <1>6
<1>11. \A j \in 1..Len(v) : Fits(v[j]) /\ v[j].size > 0
  BY <1>2, <1>7
<1>12. AllApart(u)
  BY <1>2, <1>k, <1>6, ApartSymmetric DEF AllApart
<1>13. AllApart(v)
  <2> SUFFICES ASSUME NEW i \in 1..Len(v), NEW j \in 1..Len(v), i # j
               PROVE  Apart(v[i], v[j])
    BY DEF AllApart
  <2>1. old[i] # old[j]
    BY <1>5
  <2> QED BY <1>2, <1>7, <2>1
<1>14. \A i \in 1..Len(u), j \in 1..Len(v) : Apart(u[i], v[j])
  BY <1>2, <1>k, <1>6, <1>7
<1>15. \A i \in 1..n : i \in 1..Len(u) /\ u[i] = owned[i]
  <2>1. 1..n \subseteq 1..Len(u)
    BY <1>1, <1>4
  <2> QED BY <1>4, <2>1
<1>16. n + 1 \in 1..Len(u)
  BY <1>1, <1>4
<1>17. ASSUME NEW a \in Addresses
       PROVE  \/ \E i \in 1..Len(u) : Within(a, u[i])
              \/ \E j \in 1..Len(v) : Within(a, v[j])
  <2>1. CASE \E i \in 1..n : Within(a, owned[i])
    BY <1>15, <2>1
  <2>2. CASE \E j \in 1..m : j # k /\ Within(a, free[j])
    BY <1>5, <1>7, <2>2
  <2>3. CASE Within(a, x)
    BY <1>4, <1>16, <2>3
  <2> QED BY <1>2, <2>1, <2>2, <2>3
<1>18. Tiles(u, v)
  BY <1>10, <1>11, <1>12, <1>13, <1>14, <1>17 DEF Tiles
<1> QED BY <1>18 DEF u, v

LEMMA TilesFree ==
  ASSUME NEW owned \in Seq(Chunk), NEW free \in Seq(Chunk), Tiles(owned, free),
         NEW k \in 1..Len(owned)
  PROVE  Tiles(RemoveAt(owned, k), Append(free, owned[k]))
<1> DEFINE x == owned[k]
           u == RemoveAt(owned, k)
           v == Append(free, x)
           n == Len(owned)
           m == Len(free)
<1>1. m \in Nat /\ x \in Chunk
  BY ElementOfSeq, LenProperties
<1>2. /\ \A i \in 1..n : Fits(owned[i]) /\ owned[i].size > 0
      /\ \A i \in 1..m : Fits(free[i]) /\ free[i].size > 0
      /\ \A i, j \in 1..n : i # j => Apart(owned[i], owned[j])
      /\ \A i, j \in 1..m : i # j => Apart(free[i], free[j])
      /\ \A i \in 1..n, j \in 1..m : Apart(owned[i], free[j])
      /\ \A a \in Addresses : \/ \E i \in 1..n : Within(a, owned[i])
                              \/ \E j \in 1..m : Within(a, free[j])
  BY DEF Tiles, AllApart
<1>4. v \in Seq(Chunk) /\ Len(v) = m + 1 /\ (\A i \in 1..m : v[i] = free[i]) /\ v[m + 1] = x
  BY <1>1, AppendProperties
<1>5. PICK old \in [1..Len(u) -> (1..n) \ {k}] :
           /\ \A i \in 1..Len(u) : u[i] = owned[old[i]]
           /\ \A i, j \in 1..Len(u) : old[i] = old[j] => i = j
           /\ \A j \in (1..n) \ {k} : \E i \in 1..Len(u) : old[i] = j
  <2>1. \E old : Removal(owned, k, old)
    BY RemoveAtIndices
  <2> QED BY <2>1 DEF Removal
<1>k. k \in 1..n
  OBVIOUS
<1> HIDE DEF u, v, n, m
<1>6. \A i \in 1..Len(v) : (i \in 1..m /\ v[i] = free[i]) \/ (i = m + 1 /\ v[i] = x)
  <2>1. \A i \in 1..Len(v) : i \in 1..m \/ i = m + 1
    BY <1>1, <1>4
  <2> QED BY <1>4, <2>1
<1>7. \A j \in 1..Len(u) : old[j] \in 1..n /\ old[j] # k /\ u[j] = owned[old[j]]
  BY <1>5
<1>10. \A i \in 1..Len(v) : Fits(v[i]) /\ v[i].size > 0
  BY <1>2, <1>k, <1>6
<1>11. \A j \in 1..Len(u) : Fits(u[j]) /\ u[j].size > 0
  BY <1>2, <1>7
<1>12. AllApart(v)
  BY <1>2, <1>k, <1>6, ApartSymmetric DEF AllApart
<1>13. AllApart(u)
  <2> SUFFICES ASSUME NEW i \in 1..Len(u), NEW j \in 1..Len(u), i # j
               PROVE  Apart(u[i], u[j])
    BY DEF AllApart
  <2>1. old[i] # old[j]
    BY <1>5
  <2> QED BY <1>2, <1>7, <2>1
<1>14. \A i \in 1..Len(u), j \in 1..Len(v) : Apart(u[i], v[j])
  BY <1>2, <1>k, <1>6, <1>7
<1>15. \A i \in 1..m : i \in 1..Len(v) /\ v[i] = free[i]
  <2>1. 1..m \subseteq 1..Len(v)
    BY <1>1, <1>4
  <2> QED BY <1>4, <2>1
<1>16. m + 1 \in 1..Len(v)
  BY <1>1, <1>4
<1>17. ASSUME NEW a \in Addresses
       PROVE  \/ \E i \in 1..Len(u) : Within(a, u[i])
              \/ \E j \in 1..Len(v) : Within(a, v[j])
  <2>1. CASE \E i \in 1..m : Within(a, free[i])
    BY <1>15, <2>1
  <2>2. CASE \E j \in 1..n : j # k /\ Within(a, owned[j])
    BY <1>5, <1>7, <2>2
  <2>3. CASE Within(a, x)
    BY <1>4, <1>16, <2>3
  <2> QED BY <1>2, <2>1, <2>2, <2>3
<1>18. Tiles(u, v)
  BY <1>10, <1>11, <1>12, <1>13, <1>14, <1>17 DEF Tiles
<1> QED BY <1>18 DEF u, v

-----------------------------------------------------------------------------
(* The words in use are added up.                                             *)
LEMMA SizesProps ==
  ASSUME NEW list \in Seq(Chunk)
  PROVE  /\ Sizes(list) \in Seq(Nat) /\ Len(Sizes(list)) = Len(list)
         /\ \A i \in 1..Len(list) : Sizes(list)[i] = list[i].size
<1>1. Len(list) \in Nat /\ DOMAIN list = 1..Len(list)
      /\ \A i \in 1..Len(list) : list[i] \in Chunk
  BY ElementOfSeq, LenProperties
<1>2. \A x \in Chunk : x.size \in Nat
  BY DEF Chunk
<1>3. Sizes(list) \in [1..Len(list) -> Nat]
  BY <1>1, <1>2 DEF Sizes
<1>4. Sizes(list) \in Seq(Nat) /\ Len(Sizes(list)) = Len(list)
  BY <1>1, <1>3, IsASeq, LenProperties
<1> QED BY <1>1, <1>4 DEF Sizes

LEMMA SizesAppend ==
  ASSUME NEW list \in Seq(Chunk), NEW x \in Chunk
  PROVE  Total(Sizes(list)) \in Nat
         /\ Total(Sizes(Append(list, x))) = Total(Sizes(list)) + x.size
<1> DEFINE n == Len(list)
           t == Append(list, x)
           u == Append(Sizes(list), x.size)
<1>1. n \in Nat /\ x.size \in Nat
  BY LenProperties DEF Chunk
<1>2. t \in Seq(Chunk) /\ Len(t) = n + 1 /\ (\A i \in 1..n : t[i] = list[i]) /\ t[n + 1] = x
  BY AppendProperties
<1>3. /\ Sizes(list) \in Seq(Nat) /\ Len(Sizes(list)) = n
      /\ \A i \in 1..n : Sizes(list)[i] = list[i].size
  BY SizesProps
<1>4. /\ u \in Seq(Nat) /\ Len(u) = n + 1 /\ u[n + 1] = x.size
      /\ \A i \in 1..n : u[i] = Sizes(list)[i]
  BY <1>1, <1>3, AppendProperties
<1> HIDE DEF n, t, u
<1>5. /\ Sizes(t) \in Seq(Nat) /\ Len(Sizes(t)) = n + 1
      /\ \A i \in 1..(n + 1) : Sizes(t)[i] = t[i].size
  BY <1>2, SizesProps
<1>6. \A i \in 1..(n + 1) : Sizes(t)[i] = u[i]
  <2>1. \A i \in 1..(n + 1) : i \in 1..n \/ i = n + 1
    BY <1>1
  <2> QED BY <1>2, <1>3, <1>4, <1>5, <2>1
<1>7. Sizes(t) = u
  BY <1>4, <1>5, <1>6, SeqEqual
<1> QED BY <1>1, <1>3, <1>7, TotalAppend DEF t, u

LEMMA SizesRemove ==
  ASSUME NEW list \in Seq(Chunk), NEW k \in 1..Len(list)
  PROVE  Total(Sizes(list)) \in Nat
         /\ Total(Sizes(RemoveAt(list, k))) = Total(Sizes(list)) - list[k].size
<1> DEFINE n == Len(list)
           t == RemoveAt(list, k)
           s == Sizes(list)
           u == RemoveAt(s, k)
<1>1. n \in Nat
  BY LenProperties
<1>2. /\ t \in Seq(Chunk) /\ Len(t) = n - 1
      /\ \A i \in 1..(n - 1) : t[i] = IF i < k THEN list[i] ELSE list[i + 1]
  BY RemoveAtProps
<1>3. s \in Seq(Nat) /\ Len(s) = n /\ \A i \in 1..n : s[i] = list[i].size
  BY SizesProps
<1>4. /\ u \in Seq(Nat) /\ Len(u) = n - 1
      /\ \A i \in 1..(n - 1) : u[i] = IF i < k THEN s[i] ELSE s[i + 1]
  BY <1>3, RemoveAtProps
<1>5. Sizes(t) \in Seq(Nat) /\ Len(Sizes(t)) = n - 1
      /\ \A i \in 1..(n - 1) : Sizes(t)[i] = t[i].size
  BY <1>2, SizesProps
<1>k. k \in 1..n
  OBVIOUS
<1> HIDE DEF n, t, u, s
<1>6. \A i \in 1..(n - 1) : Sizes(t)[i] = u[i]
  <2>1. \A i \in 1..(n - 1) : i \in 1..n /\ i + 1 \in 1..n
    BY <1>1
  <2> QED BY <1>2, <1>3, <1>4, <1>5, <2>1
<1>7. Sizes(t) = u
  BY <1>4, <1>5, <1>6, SeqEqual
<1>8. Total(s) \in Nat /\ Total(u) = Total(s) - s[k]
  BY <1>3, <1>k, TotalRemove DEF u
<1> QED BY <1>3, <1>7, <1>8, <1>k DEF s, t, n

-----------------------------------------------------------------------------
(* A slot for one more block, and the slot of a block that goes.              *)
LEMMA NamedAppend ==
  ASSUME NEW list \in Seq(Chunk), NEW on, NEW address, Named(list, on, address),
         NEW x \in Chunk, NEW slot \in Slots \ on, AllApart(Append(list, x)),
         \A i \in 1..Len(Append(list, x)) : Append(list, x)[i].size > 0
  PROVE  Named(Append(list, x), on \cup {slot}, [address EXCEPT ![slot] = x.start])
<1> DEFINE n == Len(list)
           t == Append(list, x)
           in == on \cup {slot}
           ad == [address EXCEPT ![slot] = x.start]
<1>1. n \in Nat /\ x.start \in Nat
  BY LenProperties DEF Chunk
<1>2. t \in Seq(Chunk) /\ Len(t) = n + 1 /\ (\A i \in 1..n : t[i] = list[i]) /\ t[n + 1] = x
  BY AppendProperties
<1>3. \A i \in 1..n : list[i].start # x.start
  <2>1. \A i, j \in 1..Len(t) : t[i].start = t[j].start => i = j
    BY <1>2, StartsDiffer
  <2>2. \A i \in 1..n : i \in 1..Len(t) /\ n + 1 \in 1..Len(t) /\ i # n + 1
    BY <1>1, <1>2
  <2> HIDE DEF t, n
  <2> QED BY <1>2, <2>1, <2>2
<1>4. /\ on \subseteq Slots /\ address \in [Slots -> Nat]
      /\ \A m \in Slots \ on : address[m] = 0
      /\ \A m \in on : \E i \in 1..n : address[m] = list[i].start
      /\ \A i \in 1..n : \E m \in on : address[m] = list[i].start
      /\ \A m, h \in on : address[m] = address[h] => m = h
  BY DEF Named
<1>5. /\ ad \in [Slots -> Nat] /\ ad[slot] = x.start
      /\ \A m \in Slots : m # slot => ad[m] = address[m]
  BY <1>1, <1>4
<1>6. in \subseteq Slots /\ slot \in in /\ \A m \in in : m = slot \/ (m \in on /\ m # slot)
  BY <1>4
<1>7. /\ \A i \in 1..n : i \in 1..Len(t)
      /\ n + 1 \in 1..Len(t)
      /\ \A i \in 1..Len(t) : i \in 1..n \/ i = n + 1
  BY <1>1, <1>2
<1>8. \A m \in Slots \ in : ad[m] = 0
  BY <1>4, <1>5
<1>s. slot \in Slots /\ slot \notin on /\ on \subseteq in
  OBVIOUS
<1> HIDE DEF n, t, in, ad
<1>9. \A m \in in : \E i \in 1..Len(t) : ad[m] = t[i].start
  <2> SUFFICES ASSUME NEW m \in in PROVE \E i \in 1..Len(t) : ad[m] = t[i].start
    OBVIOUS
  <2>1. CASE m = slot
    BY <1>2, <1>5, <1>7, <2>1
  <2>2. CASE m \in on /\ m # slot
    <3>1. PICK i \in 1..n : address[m] = list[i].start
      BY <1>4, <2>2
    <3> QED BY <1>2, <1>4, <1>5, <1>7, <2>2, <3>1
  <2> QED BY <1>6, <2>1, <2>2
<1>10. \A i \in 1..Len(t) : \E m \in in : ad[m] = t[i].start
  <2> SUFFICES ASSUME NEW i \in 1..Len(t) PROVE \E m \in in : ad[m] = t[i].start
    OBVIOUS
  <2>1. CASE i = n + 1
    BY <1>2, <1>5, <1>6, <2>1
  <2>2. CASE i \in 1..n
    <3>1. PICK m \in on : address[m] = list[i].start
      BY <1>4, <2>2
    <3>2. m \in in /\ ad[m] = address[m]
      BY <1>4, <1>5, <1>s
    <3> QED BY <1>2, <2>2, <3>1, <3>2
  <2> QED BY <1>7, <2>1, <2>2
<1>11. \A m \in on : ad[m] = address[m] /\ ad[m] # ad[slot]
  BY <1>3, <1>4, <1>5, <1>s
<1>12. \A m, h \in in : ad[m] = ad[h] => m = h
  BY <1>4, <1>6, <1>11
<1> QED BY <1>5, <1>6, <1>8, <1>9, <1>10, <1>12 DEF Named, t, in, ad

SlotsWith(address, start) == {n \in Slots : address[n] = start}

LEMMA NamedRemove ==
  ASSUME NEW list \in Seq(Chunk), NEW on, NEW address, Named(list, on, address),
         AllApart(list), \A i \in 1..Len(list) : list[i].size > 0,
         NEW k \in 1..Len(list), list[k].start > 0
  PROVE  LET named == SlotsWith(address, list[k].start)
         IN  /\ named # {}
             /\ Named(RemoveAt(list, k), on \ {Min(named)}, [address EXCEPT ![Min(named)] = 0])
<1> DEFINE named == {n \in Slots : address[n] = list[k].start}
           t == RemoveAt(list, k)
<1>1. /\ on \subseteq Slots /\ address \in [Slots -> Nat]
      /\ \A m \in Slots \ on : address[m] = 0
      /\ \A m \in on : \E i \in 1..Len(list) : address[m] = list[i].start
      /\ \A i \in 1..Len(list) : \E m \in on : address[m] = list[i].start
      /\ \A m, h \in on : address[m] = address[h] => m = h
  BY DEF Named
<1>2. \A n \in named : n \in on
  BY <1>1
<1>3. PICK slot \in on : address[slot] = list[k].start
  BY <1>1
<1>4. named = {slot}
  BY <1>1, <1>2, <1>3
<1>5. Min(named) = slot
  <2>1. named \subseteq Nat
    BY SizesAssumption DEF Slots
  <2> HIDE DEF named
  <2>2. Min(named) \in named
    BY <1>4, <2>1, MinProps
  <2> QED BY <1>4, <2>2
<1> DEFINE ad == [address EXCEPT ![slot] = 0]
           out == on \ {slot}
<1>6. /\ ad \in [Slots -> Nat] /\ ad[slot] = 0 /\ out \subseteq Slots
      /\ \A m \in Slots : m # slot => ad[m] = address[m]
  BY <1>1
<1>7. PICK old \in [1..Len(t) -> (1..Len(list)) \ {k}] :
           /\ \A i \in 1..Len(t) : t[i] = list[old[i]]
           /\ \A i, j \in 1..Len(t) : old[i] = old[j] => i = j
           /\ \A j \in (1..Len(list)) \ {k} : \E i \in 1..Len(t) : old[i] = j
  <2>1. \E old : Removal(list, k, old)
    BY RemoveAtIndices
  <2> QED BY <2>1 DEF Removal
<1>8. \A i, j \in 1..Len(list) : list[i].start = list[j].start => i = j
  BY StartsDiffer
<1>k. k \in 1..Len(list)
  OBVIOUS
<1> HIDE DEF t, ad, named
<1>9. \A m \in Slots \ out : ad[m] = 0
  BY <1>1, <1>6
<1>10. \A m \in out : m \in on /\ m \in Slots /\ m # slot /\ ad[m] = address[m]
  BY <1>1, <1>6
<1> HIDE DEF out
<1>11. \A m \in out : \E i \in 1..Len(t) : ad[m] = t[i].start
  <2> SUFFICES ASSUME NEW m \in out PROVE \E i \in 1..Len(t) : ad[m] = t[i].start
    OBVIOUS
  <2>1. PICK j \in 1..Len(list) : address[m] = list[j].start
    BY <1>1, <1>10
  <2>2. j # k
    BY <1>1, <1>3, <1>10, <2>1
  <2>3. PICK i \in 1..Len(t) : old[i] = j
    BY <1>7, <2>2
  <2> QED BY <1>7, <1>10, <2>1, <2>3
<1>12. \A i \in 1..Len(t) : \E m \in out : ad[m] = t[i].start
  <2> SUFFICES ASSUME NEW i \in 1..Len(t) PROVE \E m \in out : ad[m] = t[i].start
    OBVIOUS
  <2>1. old[i] \in 1..Len(list) /\ old[i] # k /\ t[i] = list[old[i]]
    BY <1>7
  <2>2. PICK m \in on : address[m] = list[old[i]].start
    BY <1>1, <2>1
  <2>3. m # slot
    BY <1>3, <1>8, <1>k, <2>1, <2>2
  <2>4. m \in out
    BY <2>3 DEF out
  <2> QED BY <1>10, <2>1, <2>2, <2>4
<1>13. \A m, h \in out : ad[m] = ad[h] => m = h
  BY <1>1, <1>10
<1>14. Named(t, out, ad)
  BY <1>6, <1>9, <1>11, <1>12, <1>13 DEF Named
<1>15. named # {}
  BY <1>4
<1> QED BY <1>5, <1>14, <1>15 DEF t, out, ad, named, SlotsWith

-----------------------------------------------------------------------------
(* DefragmentPMR packs the blocks: the i-th begins after the sizes before it. *)

(* The list DefragmentPMR makes, and the end of the words in use.             *)
Packed(new, g) ==
  /\ new \in Seq(Chunk) /\ Len(new) = Len(patternList)
  /\ \A i \in 1..Len(patternList) :
       /\ new[i].start = BASE_PM_START_ADDRESS + g[i - 1]
       /\ new[i].size = patternList[i].size
Defragmented(new, top) ==
  [ram |-> [a \in Addresses |-> IF a < top THEN ram[a] ELSE Zero],
   slotAddress |-> [i \in Slots |-> IF i < Len(new) THEN new[i + 1].start ELSE 0],
   slotOn |-> {i \in Slots : i < Len(new)},
   patternList |-> new,
   freeList |-> <<[start |-> top, size |-> MAX_PMR_ADDRESS - top]>>,
   pool |-> pool + Len(freeList) - 1,
   moved |-> moved \/ new # patternList]

LEMMA DefragmentProps ==
  ASSUME patternList \in Seq(Chunk), NEW g, IsSums(g, Sizes(patternList), Len(patternList))
  PROVE  \E new : /\ Packed(new, g)
                  /\ DefragmentPMR = Defragmented(new, BASE_PM_START_ADDRESS + g[Len(patternList)])
<1> DEFINE n == Len(patternList)
           start[i \in 1 .. n + 1] ==
             IF i = 1 THEN BASE_PM_START_ADDRESS ELSE start[i - 1] + patternList[i - 1].size
           packed == [i \in DOMAIN patternList |-> [patternList[i] EXCEPT !.start = start[i]]]
           top == start[n + 1]
<1>1. n \in Nat /\ DOMAIN patternList = 1..n /\ \A i \in 1..n : patternList[i] \in Chunk
  BY ElementOfSeq, LenProperties
<1>2. DefragmentPMR = Defragmented(packed, top)
  BY DEF DefragmentPMR, Defragmented
<1>p. start = CHOOSE h : h = [i \in 1..n + 1 |->
         IF i = 1 THEN BASE_PM_START_ADDRESS ELSE h[i - 1] + patternList[i - 1].size]
  OBVIOUS
<1> HIDE DEF start
<1> DEFINE F(h) == [i \in 1..n + 1 |->
         IF i = 1 THEN BASE_PM_START_ADDRESS ELSE h[i - 1] + patternList[i - 1].size]
           known == [i \in 1..n + 1 |-> BASE_PM_START_ADDRESS + g[i - 1]]
<1>3. /\ g \in [0..n -> Nat] /\ g[0] = 0
      /\ \A i \in 0..(n - 1) : g[i + 1] = g[i] + patternList[i + 1].size
  <2>1. \A i \in 0..(n - 1) : i + 1 \in 1..n
    BY <1>1
  <2>2. \A i \in 1..n : Sizes(patternList)[i] = patternList[i].size
    BY <1>1, SizesProps
  <2> QED BY <2>1, <2>2 DEF IsSums
<1>b. BASE_PM_START_ADDRESS \in Nat
  BY SizesAssumption
<1>4. \A x \in Chunk : x.start \in Nat /\ x.size \in Nat
  BY DEF Chunk
<1>l. patternList \in Seq(Chunk)
  OBVIOUS
<1> HIDE DEF n
<1>5. known = F(known)
  <2>1. ASSUME NEW i \in 1..n + 1 PROVE known[i] = F(known)[i]
    <3>1. CASE i = 1
      BY <1>1, <1>3, <1>b, <3>1
    <3>2. CASE i # 1
      <4>1. i - 1 \in 1..n /\ i - 1 \in 1..n + 1 /\ (i - 1) - 1 \in 0..(n - 1)
            /\ ((i - 1) - 1) + 1 = i - 1
        BY <1>1, <3>2
      <4>2. known[i] = BASE_PM_START_ADDRESS + g[i - 1]
            /\ known[i - 1] = BASE_PM_START_ADDRESS + g[(i - 1) - 1]
        BY <4>1
      <4>3. g[i - 1] = g[(i - 1) - 1] + patternList[i - 1].size
        BY <1>3, <4>1
      <4>4. g[i - 1] \in Nat /\ g[(i - 1) - 1] \in Nat /\ patternList[i - 1].size \in Nat
        BY <1>1, <1>3, <1>4, <4>1
      <4> HIDE DEF known
      <4>5. F(known)[i] = known[i - 1] + patternList[i - 1].size
        BY <3>2
      <4> QED BY <1>b, <4>2, <4>3, <4>4, <4>5
    <3> QED BY <3>1, <3>2
  <2>2. known = [i \in 1..n + 1 |-> known[i]] /\ F(known) = [i \in 1..n + 1 |-> F(known)[i]]
    OBVIOUS
  <2> HIDE DEF known, F
  <2> QED BY <2>1, <2>2
<1>6. start = F(start)
  <2>1. \E h : h = F(h)
    <3> HIDE DEF F, known
    <3> QED BY <1>5
  <2>2. start = CHOOSE h : h = F(h)
    BY <1>p
  <2> HIDE DEF F
  <2> QED BY <2>1, <2>2
<1> DEFINE I == {i \in 0..n : start[i + 1] = BASE_PM_START_ADDRESS + g[i]}
<1>7. 0 \in I
  <2>1. start[1] = BASE_PM_START_ADDRESS
    BY <1>1, <1>6
  <2> QED BY <1>1, <1>3, <1>b, <2>1
<1>8. ASSUME NEW i \in 0..n, i < n, i \in I PROVE i + 1 \in I
  <2>1. /\ i + 1 \in 0..n /\ i + 1 \in 1..n /\ (i + 1) + 1 \in 1..n + 1 /\ (i + 1) + 1 # 1
        /\ ((i + 1) + 1) - 1 = i + 1 /\ i \in 0..(n - 1) /\ i \in 0..n
    BY <1>1, <1>8
  <2>2. start[(i + 1) + 1] = start[i + 1] + patternList[i + 1].size
    BY <1>6, <2>1
  <2>3. g[i + 1] = g[i] + patternList[i + 1].size
    BY <1>3, <2>1
  <2>4. start[i + 1] = BASE_PM_START_ADDRESS + g[i]
    BY <1>8
  <2>5. g[i] \in Nat /\ g[i + 1] \in Nat /\ patternList[i + 1].size \in Nat
    BY <1>1, <1>3, <1>4, <2>1
  <2>6. start[(i + 1) + 1] = BASE_PM_START_ADDRESS + g[i + 1]
    BY <1>b, <2>2, <2>3, <2>4, <2>5
  <2> QED BY <2>1, <2>6
<1> HIDE DEF I, known, F
<1>9. 0..n \subseteq I
  BY <1>1, <1>7, <1>8, UpTo
<1>10. \A i \in 0..n : start[i + 1] = BASE_PM_START_ADDRESS + g[i]
  BY <1>9 DEF I
<1>11. top = BASE_PM_START_ADDRESS + g[n]
  BY <1>1, <1>10
<1>12. ASSUME NEW i \in 1..n
       PROVE  /\ packed[i] \in Chunk /\ packed[i].size = patternList[i].size
              /\ packed[i].start = BASE_PM_START_ADDRESS + g[i - 1]
  <2>1. i - 1 \in 0..n /\ (i - 1) + 1 = i
    BY <1>1
  <2>2. start[i] = BASE_PM_START_ADDRESS + g[i - 1] /\ g[i - 1] \in Nat
    BY <1>3, <1>10, <2>1
  <2>3. start[i] \in Nat
    BY <1>b, <2>2
  <2>4. packed[i] = [patternList[i] EXCEPT !.start = start[i]]
    BY <1>1
  <2>5. \A x \in Chunk, y \in Nat :
          LET z == [x EXCEPT !.start = y]
          IN  z \in Chunk /\ z.size = x.size /\ z.start = y
    BY DEF Chunk
  <2> QED BY <1>1, <2>2, <2>3, <2>4, <2>5
<1>13. packed = [i \in 1..n |-> packed[i]]
  BY <1>1
<1> HIDE DEF packed, top
<1>14. packed \in [1..n -> Chunk]
  BY <1>12, <1>13
<1>15. packed \in Seq(Chunk) /\ Len(packed) = n
  BY <1>1, <1>14, IsASeq, LenProperties
<1>16. Packed(packed, g)
  BY <1>12, <1>15 DEF Packed, n
<1> QED BY <1>2, <1>11, <1>16 DEF n

(* The packed blocks and the free rest tile the memory.                       *)
LEMMA PackedTiles ==
  ASSUME patternList \in Seq(Chunk), NEW g, IsSums(g, Sizes(patternList), Len(patternList)),
         NEW new, Packed(new, g), \A i \in 1..Len(patternList) : patternList[i].size > 0,
         BASE_PM_START_ADDRESS + g[Len(patternList)] < MAX_PMR_ADDRESS
  PROVE  LET top == BASE_PM_START_ADDRESS + g[Len(patternList)]
             rest == [start |-> top, size |-> MAX_PMR_ADDRESS - top]
         IN  rest \in Chunk /\ Tiles(new, <<rest>>)
<1> DEFINE n == Len(patternList)
           top == BASE_PM_START_ADDRESS + g[n]
           rest == [start |-> top, size |-> MAX_PMR_ADDRESS - top]
           s == Sizes(patternList)
<1>1. n \in Nat /\ \A i \in 1..n : patternList[i] \in Chunk
  BY ElementOfSeq, LenProperties
<1>2. s \in Seq(Nat) /\ Len(s) = n /\ \A i \in 1..n : s[i] = patternList[i].size
  BY SizesProps
<1>3. /\ g \in [0..n -> Nat] /\ g[0] = 0
      /\ \A i \in 0..(n - 1) : g[i + 1] = g[i] + s[i + 1]
  BY DEF IsSums
<1>4. \A i, j \in 0..n : i <= j => g[i] <= g[j]
  BY <1>2, SumsGrow
<1>5. \A x \in Nat : x < g[n] => \E i \in 1..n : g[i - 1] <= x /\ x < g[i]
  BY <1>2, SumsCover
<1>6. /\ new \in Seq(Chunk) /\ Len(new) = n
      /\ \A i \in 1..n : new[i].start = BASE_PM_START_ADDRESS + g[i - 1] /\ new[i].size = s[i]
      /\ \A i \in 1..n : s[i] > 0
  BY <1>2 DEF Packed
<1>b. BASE_PM_START_ADDRESS \in Nat /\ MAX_PMR_ADDRESS \in Nat
  BY SizesAssumption
<1>u. top < MAX_PMR_ADDRESS
  OBVIOUS
<1> HIDE DEF n, s
<1>7. n \in 0..n /\ g[n] \in Nat
  BY <1>1, <1>3
<1>8. rest \in Chunk /\ rest.start = top /\ rest.size = MAX_PMR_ADDRESS - top
      /\ top \in Nat
  <2>1. top \in Nat
    BY <1>7, <1>b
  <2> HIDE DEF top
  <2>2. MAX_PMR_ADDRESS - top \in Nat
    BY <1>b, <1>u, <2>1
  <2> QED BY <2>1, <2>2 DEF Chunk
<1> HIDE DEF rest
<1>9. ASSUME NEW i \in 1..n
      PROVE  /\ new[i].start + new[i].size = BASE_PM_START_ADDRESS + g[i]
             /\ BASE_PM_START_ADDRESS + g[i] <= top
             /\ BASE_PM_START_ADDRESS <= new[i].start
             /\ new[i].start = BASE_PM_START_ADDRESS + g[i - 1]
             /\ g[i] \in Nat /\ g[i - 1] \in Nat
  <2>1. i - 1 \in 0..(n - 1) /\ (i - 1) + 1 = i /\ i \in 0..n /\ i - 1 \in 0..n /\ i <= n
    BY <1>1
  <2>2. g[i] = g[i - 1] + s[i] /\ g[i] <= g[n]
    BY <1>3, <1>4, <1>7, <2>1
  <2>3. g[i] \in Nat /\ g[i - 1] \in Nat /\ s[i] \in Nat
    BY <1>2, <1>3, <2>1, ElementOfSeq
  <2>4. new[i].start = BASE_PM_START_ADDRESS + g[i - 1] /\ new[i].size = s[i]
    BY <1>6
  <2>5. /\ BASE_PM_START_ADDRESS + g[i - 1] + s[i] = BASE_PM_START_ADDRESS + g[i]
        /\ BASE_PM_START_ADDRESS + g[i] <= BASE_PM_START_ADDRESS + g[n]
        /\ BASE_PM_START_ADDRESS <= BASE_PM_START_ADDRESS + g[i - 1]
    BY <1>7, <1>b, <2>2, <2>3
  <2> QED BY <2>3, <2>4, <2>5
<1>10. \A i \in 1..n : Fits(new[i]) /\ new[i].size > 0
  <2> SUFFICES ASSUME NEW i \in 1..n PROVE Fits(new[i]) /\ new[i].size > 0
    OBVIOUS
  <2>1. new[i].start + new[i].size <= MAX_PMR_ADDRESS
    BY <1>8, <1>9, <1>b, <1>u
  <2> QED BY <1>6, <1>9, <2>1 DEF Fits
<1>11. AllApart(new)
  <2>1. ASSUME NEW i \in 1..n, NEW j \in 1..n, i < j
        PROVE  new[i].start + new[i].size <= new[j].start
    <3>1. i \in 0..n /\ j - 1 \in 0..n /\ i <= j - 1
      BY <1>1, <2>1
    <3>2. g[i] <= g[j - 1]
      BY <1>4, <3>1
    <3> QED BY <1>9, <1>b, <3>2
  <2>2. \A i, j \in 1..n : i # j => i < j \/ j < i
    BY <1>1
  <2> QED BY <1>6, <2>1, <2>2 DEF AllApart, Apart
<1>12. <<rest>> \in Seq(Chunk) /\ Len(<<rest>>) = 1 /\ <<rest>>[1] = rest
  BY <1>8
<1>13. \A i \in 1..Len(<<rest>>) : i = 1
  BY <1>12
<1>14. Fits(rest) /\ rest.size > 0
  BY <1>7, <1>8, <1>b, <1>u DEF Fits
<1>15. AllApart(<<rest>>)
  BY <1>13 DEF AllApart
<1>16. \A i \in 1..n : Apart(new[i], rest)
  BY <1>8, <1>9 DEF Apart
<1>17. ASSUME NEW a \in Addresses
       PROVE  \/ \E i \in 1..n : Within(a, new[i])
              \/ Within(a, rest)
  <2>1. a \in Nat /\ a >= BASE_PM_START_ADDRESS /\ a < MAX_PMR_ADDRESS
    BY <1>b DEF Addresses
  <2>2. CASE a < top
    <3>1. PICK x \in Nat : a = BASE_PM_START_ADDRESS + x
      <4>1. a - BASE_PM_START_ADDRESS \in Nat
            /\ a = BASE_PM_START_ADDRESS + (a - BASE_PM_START_ADDRESS)
        BY <1>b, <2>1
      <4> QED BY <4>1
    <3>2. x < g[n]
      BY <1>7, <1>b, <2>2, <3>1
    <3>3. PICK i \in 1..n : g[i - 1] <= x /\ x < g[i]
      BY <1>5, <3>2
    <3>4. new[i].start <= a /\ a < new[i].start + new[i].size
      BY <1>9, <1>b, <3>1, <3>3
    <3> QED BY <3>4 DEF Within
  <2>3. CASE ~(a < top)
    <3>1. Within(a, rest)
      <4>1. rest.start <= a
        BY <1>8, <2>1, <2>3
      <4>2. rest.start + rest.size = MAX_PMR_ADDRESS
        BY <1>8, <1>b
      <4> QED BY <2>1, <4>1, <4>2 DEF Within
    <3> QED BY <3>1
  <2> QED BY <2>2, <2>3
<1>18. Tiles(new, <<rest>>)
  BY <1>6, <1>10, <1>11, <1>12, <1>13, <1>14, <1>15, <1>16, <1>17 DEF Tiles
<1> QED BY <1>8, <1>18 DEF rest, n

(* The packed blocks get the first slots, in their order.                     *)
LEMMA PackedNamed ==
  ASSUME NEW new \in Seq(Chunk), Len(new) < MAX_ALLOWED_PATTERN, AllApart(new),
         \A i \in 1..Len(new) : new[i].size > 0
  PROVE  Named(new, {i \in Slots : i < Len(new)},
               [i \in Slots |-> IF i < Len(new) THEN new[i + 1].start ELSE 0])
<1> DEFINE n == Len(new)
           on == {i \in Slots : i < n}
           ad == [i \in Slots |-> IF i < n THEN new[i + 1].start ELSE 0]
<1>1. n \in Nat /\ \A i \in 1..n : new[i] \in Chunk
  BY ElementOfSeq, LenProperties
<1>2. \A x \in Chunk : x.start \in Nat
  BY DEF Chunk
<1>3. \A i, j \in 1..n : new[i].start = new[j].start => i = j
  BY StartsDiffer
<1>m. n < MAX_ALLOWED_PATTERN /\ MAX_ALLOWED_PATTERN \in Nat
  BY SizesAssumption
<1> HIDE DEF n
<1>4. \A m \in on : m + 1 \in 1..n /\ m \in Slots /\ m \in Nat /\ ad[m] = new[m + 1].start
  BY <1>1, <1>m DEF Slots
<1>5. \A i \in 1..n : i - 1 \in on /\ (i - 1) + 1 = i
  BY <1>1, <1>m DEF Slots
<1>6. ad \in [Slots -> Nat]
  BY <1>1, <1>2, <1>m DEF Slots
<1>7. \A m \in Slots \ on : ad[m] = 0
  OBVIOUS
<1> HIDE DEF on, ad
<1>8. \A m \in on : \E i \in 1..n : ad[m] = new[i].start
  BY <1>4
<1>9. \A i \in 1..n : \E m \in on : ad[m] = new[i].start
  BY <1>4, <1>5
<1>10. ASSUME NEW m \in on, NEW h \in on, ad[m] = ad[h] PROVE m = h
  <2>1. m + 1 = h + 1
    BY <1>3, <1>4, <1>10
  <2> QED BY <1>4, <2>1
<1>11. on \subseteq Slots
  BY <1>4
<1> QED BY <1>6, <1>7, <1>8, <1>9, <1>10, <1>11 DEF Named, n, on, ad

(* Blocks never hold more words than their sizes add up to.                   *)
Covered(list, n) == {a \in Addresses : \E i \in 1..n : Within(a, list[i])}

LEMMA CoveredCount ==
  ASSUME NEW list \in Seq(Chunk), NEW g, IsSums(g, Sizes(list), Len(list))
  PROVE  Cardinality(Covered(list, Len(list))) <= g[Len(list)]
<1> DEFINE n == Len(list)
           I == {k \in 0..n : /\ IsFiniteSet(Covered(list, k))
                              /\ Cardinality(Covered(list, k)) <= g[k]}
<1>1. n \in Nat /\ \A i \in 1..n : list[i] \in Chunk
  BY ElementOfSeq, LenProperties
<1>2. /\ g \in [0..n -> Nat] /\ g[0] = 0
      /\ \A i \in 0..(n - 1) : g[i + 1] = g[i] + Sizes(list)[i + 1]
      /\ \A i \in 1..n : Sizes(list)[i] = list[i].size
  BY SizesProps DEF IsSums
<1> HIDE DEF n
<1>3. 0 \in I
  <2>1. Covered(list, 0) = {}
    BY DEF Covered
  <2>2. IsFiniteSet({}) /\ Cardinality({}) = 0
    BY FS_EmptySet
  <2>3. 0 <= g[0] /\ 0 \in 0..n
    BY <1>1, <1>2
  <2> QED BY <2>1, <2>2, <2>3
<1>4. ASSUME NEW k \in 0..n, k < n, k \in I PROVE k + 1 \in I
  <2>1. k \in 0..(n - 1) /\ k + 1 \in 1..n /\ k + 1 \in 0..n
    BY <1>1, <1>4
  <2> DEFINE x == list[k + 1]
             A == Covered(list, k)
             B == x.start..(x.start + x.size - 1)
             C == Covered(list, k + 1)
  <2>2. x.start \in Nat /\ x.size \in Nat
    <3>1. x \in Chunk
      BY <1>1, <2>1
    <3>2. \A y \in Chunk : y.start \in Nat /\ y.size \in Nat
      BY DEF Chunk
    <3> QED BY <3>1, <3>2
  <2>3. g[k + 1] = g[k] + x.size /\ g[k] \in Nat
    BY <1>2, <2>1
  <2>4. IsFiniteSet(A) /\ Cardinality(A) <= g[k]
    BY <1>4
  <2>5. IsFiniteSet(B) /\ Cardinality(B) = x.size
    <3>1. x.start \in Int /\ x.start + x.size - 1 \in Int
      BY <2>2
    <3>2. /\ IsFiniteSet(B)
          /\ Cardinality(B) = IF x.start > x.start + x.size - 1 THEN 0
                                ELSE (x.start + x.size - 1) - x.start + 1
      BY <3>1, FS_Interval
    <3> QED BY <2>2, <3>2
  <2>6. C \subseteq A \cup B
    <3> SUFFICES ASSUME NEW a \in C PROVE a \in A \cup B
      OBVIOUS
    <3>1. PICK i \in 1..(k + 1) : Within(a, list[i])
      BY DEF Covered
    <3>2. a \in Addresses /\ a \in Nat
      BY SizesAssumption DEF Covered, Addresses
    <3>3. CASE i = k + 1
      <4>1. x.start <= a /\ a < x.start + x.size
        BY <3>1, <3>3 DEF Within
      <4> HIDE DEF x
      <4> QED BY <2>2, <3>2, <4>1
    <3>4. CASE i \in 1..k
      BY <3>1, <3>2, <3>4 DEF Covered
    <3> QED BY <2>1, <3>3, <3>4
  <2> HIDE DEF A, B, C, x
  <2>7. IsFiniteSet(A \cup B) /\ IsFiniteSet(A \cap B)
        /\ Cardinality(A \cup B) = Cardinality(A) + Cardinality(B) - Cardinality(A \cap B)
    BY <2>4, <2>5, FS_Union, FS_Intersection
  <2>8. IsFiniteSet(C) /\ Cardinality(C) <= Cardinality(A \cup B)
    BY <2>6, <2>7, FS_Subset
  <2>9. /\ Cardinality(A) \in Nat /\ Cardinality(A \cap B) \in Nat
        /\ Cardinality(A \cup B) \in Nat /\ Cardinality(C) \in Nat
    BY <2>4, <2>7, <2>8, FS_CardinalityType
  <2>10. Cardinality(C) <= g[k + 1]
    BY <2>2, <2>3, <2>4, <2>5, <2>7, <2>8, <2>9
  <2> QED BY <2>1, <2>8, <2>10 DEF C
<1> HIDE DEF I
<1>5. 0..n \subseteq I
  BY <1>1, <1>3, <1>4, UpTo
<1>6. n \in I
  BY <1>1, <1>5
<1> QED BY <1>6 DEF I, n

(* As long as words are left there is a free block.                           *)
LEMMA FreeBlockLeft ==
  ASSUME NEW owned \in Seq(Chunk), NEW free \in Seq(Chunk), Tiles(owned, free),
         Total(Sizes(owned)) < MAX_PMR_ADDRESS - BASE_PM_START_ADDRESS
  PROVE  Len(free) > 0
<1> SUFFICES ASSUME ~(Len(free) > 0) PROVE FALSE
  OBVIOUS
<1>1. Len(free) = 0
  BY LenProperties
<1>2. PICK g : IsSums(g, Sizes(owned), Len(owned))
  BY SizesProps, SumsExist
<1>3. Total(Sizes(owned)) = g[Len(owned)]
  BY <1>2, SizesProps, TotalIsSums
<1>4. Covered(owned, Len(owned)) = Addresses
  BY <1>1 DEF Covered, Tiles
<1>5. Cardinality(Addresses) = MAX_PMR_ADDRESS - BASE_PM_START_ADDRESS
  <2>1. /\ BASE_PM_START_ADDRESS \in Nat /\ MAX_PMR_ADDRESS \in Nat
        /\ BASE_PM_START_ADDRESS < MAX_PMR_ADDRESS
    BY SizesAssumption
  <2>2. BASE_PM_START_ADDRESS \in Int /\ MAX_PMR_ADDRESS - 1 \in Int
    BY <2>1
  <2>3. Cardinality(BASE_PM_START_ADDRESS..(MAX_PMR_ADDRESS - 1)) =
          IF BASE_PM_START_ADDRESS > MAX_PMR_ADDRESS - 1 THEN 0
          ELSE (MAX_PMR_ADDRESS - 1) - BASE_PM_START_ADDRESS + 1
    BY <2>2, FS_Interval
  <2> QED BY <2>1, <2>3 DEF Addresses
<1>6. Cardinality(Covered(owned, Len(owned))) <= g[Len(owned)]
  BY <1>2, CoveredCount
<1>7. Len(owned) \in Nat /\ g[Len(owned)] \in Nat
  <2>1. Len(owned) \in Nat
    BY LenProperties
  <2> QED BY <1>2, <2>1 DEF IsSums
<1> QED BY <1>3, <1>4, <1>5, <1>6, <1>7, SizesAssumption

(* DefragmentPMR keeps the invariant of the memory, and leaves one free block.*)
LEMMA DefragmentKeeps ==
  ASSUME MemoryInv(Current, totalPMRUsed, registered), NEW size \in Nat, size > 0,
         MustDefragment(size), Len(patternList) < MAX_ALLOWED_PATTERN
  PROVE  /\ MemoryInv(DefragmentPMR, totalPMRUsed, registered)
         /\ Len(DefragmentPMR.patternList) < MAX_ALLOWED_PATTERN
<1> DEFINE n == Len(patternList)
<1>1. /\ patternList \in Seq(Chunk) /\ freeList \in Seq(Chunk)
      /\ pool \in Nat /\ pool + Len(patternList) + Len(freeList) = MAX_BLOCKS
      /\ Tiles(patternList, freeList)
      /\ totalPMRUsed = Total(Sizes(patternList))
      /\ registered \in Seq(Pattern)
      /\ ~moved => Stored(ram, patternList, registered)
  BY DEF MemoryInv, Current
<1>2. n \in Nat /\ Len(freeList) \in Nat /\ \A i \in 1..n : patternList[i] \in Chunk
  BY <1>1, ElementOfSeq, LenProperties
<1>3. Sizes(patternList) \in Seq(Nat) /\ Len(Sizes(patternList)) = n
      /\ \A i \in 1..n : Sizes(patternList)[i] = patternList[i].size
  BY <1>1, SizesProps
<1>4. PICK g : IsSums(g, Sizes(patternList), n)
  BY <1>3, SumsExist
<1>5. totalPMRUsed = g[n]
  BY <1>1, <1>3, <1>4, TotalIsSums
<1>6. PICK new : Packed(new, g) /\ DefragmentPMR = Defragmented(new, BASE_PM_START_ADDRESS + g[n])
  BY <1>1, <1>4, DefragmentProps
<1> DEFINE top == BASE_PM_START_ADDRESS + g[n]
           rest == [start |-> top, size |-> MAX_PMR_ADDRESS - top]
           s == Defragmented(new, top)
<1>7. g[n] \in Nat /\ top < MAX_PMR_ADDRESS
  <2>1. g[n] \in Nat
    BY <1>2, <1>4 DEF IsSums
  <2>2. g[n] + size <= MAX_PMR_ADDRESS - BASE_PM_START_ADDRESS
    BY <1>5 DEF MustDefragment
  <2> QED BY <2>1, <2>2, SizesAssumption
<1>8. \A i \in 1..n : patternList[i].size > 0
  BY <1>1 DEF Tiles
<1>9. rest \in Chunk /\ Tiles(new, <<rest>>)
  BY <1>1, <1>4, <1>6, <1>7, <1>8, PackedTiles
<1>10. /\ new \in Seq(Chunk) /\ Len(new) = n
       /\ \A i \in 1..n : new[i].start = BASE_PM_START_ADDRESS + g[i - 1]
                          /\ new[i].size = patternList[i].size
  BY <1>6 DEF Packed
<1>11. AllApart(new) /\ \A i \in 1..n : Fits(new[i]) /\ new[i].size > 0
  BY <1>9, <1>10 DEF Tiles
<1>12. Named(new, {i \in Slots : i < Len(new)},
             [i \in Slots |-> IF i < Len(new) THEN new[i + 1].start ELSE 0])
  BY <1>10, <1>11, PackedNamed
<1>13. Total(Sizes(new)) = totalPMRUsed
  <2>1. Sizes(new) \in Seq(Nat) /\ Len(Sizes(new)) = n
        /\ \A i \in 1..n : Sizes(new)[i] = new[i].size
    BY <1>10, SizesProps
  <2>2. \A i \in 1..n : Sizes(new)[i] = Sizes(patternList)[i]
    BY <1>3, <1>10, <2>1
  <2>3. Sizes(new) = Sizes(patternList)
    BY <1>3, <2>1, <2>2, SeqEqual
  <2> QED BY <1>1, <2>3
<1>14. ASSUME ~(moved \/ new # patternList)
       PROVE  Stored([a \in Addresses |-> IF a < top THEN ram[a] ELSE Zero], new, registered)
  <2> DEFINE mem == [a \in Addresses |-> IF a < top THEN ram[a] ELSE Zero]
  <2>1. new = patternList /\ Stored(ram, patternList, registered)
    BY <1>1, <1>14
  <2>2. ASSUME NEW i \in 1..n, Carries(ram, new[i], LanceTranslatePattern(registered[i]))
        PROVE  Carries(mem, new[i], LanceTranslatePattern(registered[i]))
    <3> DEFINE w == LanceTranslatePattern(registered[i])
    <3>1. new[i].size = Len(w) /\ \A k \in 1..Len(w) : ram[new[i].start + k - 1] = w[k]
      BY <2>2 DEF Carries
    <3>2. new[i].start \in Nat /\ new[i].size \in Nat
      <4>1. new[i] \in Chunk
        BY <1>10, ElementOfSeq
      <4> QED BY <4>1 DEF Chunk
    <3>3. new[i].start + new[i].size <= top /\ BASE_PM_START_ADDRESS <= new[i].start
      <4>1. i - 1 \in 0..(n - 1) /\ (i - 1) + 1 = i /\ i \in 1..n /\ i \in 0..n /\ n \in 0..n /\ i <= n
            /\ i - 1 \in 0..n
        BY <1>2
      <4>2. g[i] = g[i - 1] + Sizes(patternList)[i] /\ g \in [0..n -> Nat]
        BY <1>4, <4>1 DEF IsSums
      <4>3. g[i] <= g[n]
        BY <1>3, <1>4, <4>1, SumsGrow
      <4>4. g[i] \in Nat /\ g[i - 1] \in Nat
        BY <4>1, <4>2
      <4>5. new[i].start = BASE_PM_START_ADDRESS + g[i - 1] /\ new[i].size = Sizes(patternList)[i]
        BY <1>3, <1>10
      <4>6. BASE_PM_START_ADDRESS \in Nat
        BY SizesAssumption
      <4> HIDE DEF n
      <4>7. /\ BASE_PM_START_ADDRESS + g[i - 1] + Sizes(patternList)[i] <= BASE_PM_START_ADDRESS + g[n]
            /\ BASE_PM_START_ADDRESS <= BASE_PM_START_ADDRESS + g[i - 1]
        <5>1. Sizes(patternList)[i] \in Nat
          BY <3>2, <4>5
        <5> QED BY <1>7, <4>2, <4>3, <4>4, <4>6, <5>1
      <4> QED BY <4>5, <4>7
    <3> HIDE DEF w, top
    <3>4. ASSUME NEW k \in 1..Len(w) PROVE mem[new[i].start + k - 1] = w[k]
      <4>1. top \in Nat /\ BASE_PM_START_ADDRESS \in Nat /\ MAX_PMR_ADDRESS \in Nat
        BY <1>7, SizesAssumption DEF top
      <4>2. new[i].start + k - 1 \in Addresses /\ new[i].start + k - 1 < top
        <5>1. k \in Nat /\ 1 <= k /\ k <= new[i].size
          BY <3>1, <3>2
        <5>2. /\ BASE_PM_START_ADDRESS <= new[i].start + k - 1
              /\ new[i].start + k - 1 < top /\ top <= MAX_PMR_ADDRESS
          BY <1>7, <3>2, <3>3, <4>1, <5>1
        <5>3. new[i].start + k - 1 \in Nat
          BY <3>2, <5>1
        <5> QED BY <4>1, <5>2, <5>3 DEF Addresses
      <4> QED BY <3>1, <4>2
    <3> HIDE DEF mem
    <3>5. Carries(mem, new[i], w)
      BY <3>1, <3>4 DEF Carries
    <3> QED BY <3>5 DEF w
  <2>3. Len(new) = Len(registered)
        /\ \A i \in 1..n : Carries(ram, new[i], LanceTranslatePattern(registered[i]))
    BY <1>10, <2>1 DEF Stored
  <2> HIDE DEF mem, n
  <2>4. Stored(mem, new, registered)
    BY <1>10, <2>2, <2>3 DEF Stored
  <2> QED BY <2>4 DEF mem
<1> HIDE DEF top
<1>15. /\ s.patternList = new /\ s.freeList = <<rest>>
       /\ s.pool = pool + Len(freeList) - 1
       /\ s.slotOn = {i \in Slots : i < Len(new)}
       /\ s.slotAddress = [i \in Slots |-> IF i < Len(new) THEN new[i + 1].start ELSE 0]
       /\ s.ram = [a \in Addresses |-> IF a < top THEN ram[a] ELSE Zero]
       /\ s.moved = (moved \/ new # patternList)
  BY DEF Defragmented
<1> HIDE DEF s, rest
<1>16. <<rest>> \in Seq(Chunk) /\ Len(<<rest>>) = 1
  BY <1>9
<1>17. s.pool \in Nat /\ s.pool + Len(s.patternList) + Len(s.freeList) = MAX_BLOCKS
  <2>1. Len(s.patternList) = n /\ Len(s.freeList) = 1
    BY <1>10, <1>15, <1>16
  <2>2. Total(Sizes(patternList)) < MAX_PMR_ADDRESS - BASE_PM_START_ADDRESS
    <3>1. g[n] + size <= MAX_PMR_ADDRESS - BASE_PM_START_ADDRESS
      BY <1>5 DEF MustDefragment
    <3> QED BY <1>1, <1>5, <1>7, <3>1, SizesAssumption
  <2>3. Len(freeList) > 0
    BY <1>1, <2>2, FreeBlockLeft
  <2> HIDE DEF n
  <2> QED BY <1>1, <1>2, <1>15, <2>1, <2>3 DEF n
<1>18. MemoryInv(s, totalPMRUsed, registered)
  <2>1. s.patternList \in Seq(Chunk) /\ s.freeList \in Seq(Chunk)
    BY <1>10, <1>15, <1>16
  <2>2. Tiles(s.patternList, s.freeList)
    BY <1>9, <1>15
  <2>3. totalPMRUsed = Total(Sizes(s.patternList))
    BY <1>13, <1>15
  <2>4. Named(s.patternList, s.slotOn, s.slotAddress)
    BY <1>12, <1>15
  <2>5. ~s.moved => Stored(s.ram, s.patternList, registered)
    BY <1>14, <1>15
  <2> QED BY <1>1, <1>17, <2>1, <2>2, <2>3, <2>4, <2>5 DEF MemoryInv
<1>19. DefragmentPMR = s
  BY <1>6 DEF s, top
<1> QED BY <1>10, <1>15, <1>18, <1>19

-----------------------------------------------------------------------------
(* The operations.                                                            *)

(* A block that lies apart from the one that is written keeps its words.      *)
LEMMA CarriesKept ==
  ASSUME NEW mem, NEW new, NEW x \in Chunk, NEW y \in Chunk, NEW words, Fits(y), Apart(y, x),
         Len(words) \in Nat, Carries(mem, y, words),
         \A a \in Addresses : a \notin Span(x) => new[a] = mem[a]
  PROVE  Carries(new, y, words)
<1>1. /\ x.start \in Nat /\ x.size \in Nat /\ y.start \in Nat /\ y.size \in Nat
      /\ BASE_PM_START_ADDRESS \in Nat /\ MAX_PMR_ADDRESS \in Nat
  BY SizesAssumption DEF Chunk
<1>2. y.size = Len(words) /\ \A k \in 1..Len(words) : mem[y.start + k - 1] = words[k]
  BY DEF Carries
<1>3. ASSUME NEW k \in 1..Len(words) PROVE new[y.start + k - 1] = words[k]
  <2>1. k \in Nat /\ 1 <= k /\ k <= y.size
    BY <1>1, <1>2
  <2> DEFINE a == y.start + k - 1
  <2>2. a \in Nat /\ y.start <= a /\ a < y.start + y.size
    BY <1>1, <2>1
  <2> HIDE DEF a
  <2>3. a \in Addresses
    BY <1>1, <2>2 DEF Addresses, Fits
  <2>4. a \notin Span(x)
    BY <1>1, <2>2 DEF Span, Apart
  <2>5. new[a] = mem[a]
    BY <2>3, <2>4
  <2> QED BY <1>2, <2>5 DEF a
<1> QED BY <1>2, <1>3 DEF Carries

LEMMA StoreKeeps ==
  ASSUME NEW s, MemoryInv(s, totalPMRUsed, registered), NEW p \in Pattern,
         Len(LanceTranslatePattern(p)) > 0, Len(s.patternList) < MAX_ALLOWED_PATTERN,
         NEW k, k = FindFirstFitBlock(s.freeList, Len(LanceTranslatePattern(p))), k # 0,
         StorePattern(s, k, p)
  PROVE  MemoryInv(Current, totalPMRUsed, registered)'
<1> DEFINE list == s.patternList
           free == s.freeList
           words == LanceTranslatePattern(p)
           L == Len(words)
           found == free[k]
           x == [start |-> found.start, size |-> L]
           slot == FreeSlot(s.slotOn)
           mem == [a \in Addresses |-> IF a \in Span(x) THEN words[a - x.start + 1] ELSE s.ram[a]]
<1>1. /\ list \in Seq(Chunk) /\ free \in Seq(Chunk)
      /\ s.pool \in Nat /\ s.pool + Len(list) + Len(free) = MAX_BLOCKS
      /\ Tiles(list, free)
      /\ totalPMRUsed = Total(Sizes(list))
      /\ Named(list, s.slotOn, s.slotAddress)
      /\ registered \in Seq(Pattern)
      /\ ~s.moved => Stored(s.ram, list, registered)
  BY DEF MemoryInv
<1>2. PICK q : Translated(p, words, q, Len(Mask[p]))
  BY TranslateProps
<1>3. words \in Seq(WordsOf(p)) /\ L \in Nat /\ L > 0
  BY <1>2, LenProperties DEF Translated
<1>4. /\ freeList' = IF found.size > L THEN [free EXCEPT ![k] = Rest(@, L)] ELSE RemoveAt(free, k)
      /\ pool' = IF found.size > L THEN s.pool - 1 ELSE s.pool
      /\ ram' = mem
      /\ patternList' = Append(list, x)
      /\ slotOn' = s.slotOn \cup {slot}
      /\ slotAddress' = [s.slotAddress EXCEPT ![slot] = x.start]
      /\ totalPMRUsed' = totalPMRUsed + L
      /\ registered' = Append(registered, p)
      /\ moved' = s.moved
  BY DEF StorePattern, PutWords, Splits
<1>k. k # 0 /\ k = FindFirstFitBlock(free, L)
  OBVIOUS
<1>m. Len(list) < MAX_ALLOWED_PATTERN
  OBVIOUS
<1> HIDE DEF list, free, words, L
<1>5. k \in 1..Len(free) /\ found.size >= L
  BY <1>1, <1>3, <1>k, FirstFit
<1>6. found \in Chunk /\ found.start \in Nat /\ found.size \in Nat
  <2>1. found \in Chunk
    BY <1>1, <1>5, ElementOfSeq
  <2>2. \A y \in Chunk : y.start \in Nat /\ y.size \in Nat
    BY DEF Chunk
  <2> QED BY <2>1, <2>2
<1>7. x \in Chunk /\ x.start = found.start /\ x.size = L
  BY <1>3, <1>6 DEF Chunk
<1>8. Len(list) \in Nat /\ Len(free) \in Nat /\ Len(registered) \in Nat
  BY <1>1, LenProperties
<1>9. /\ freeList' \in Seq(Chunk) /\ Tiles(patternList', freeList')
      /\ pool' \in Nat /\ pool' + Len(list) + 1 + Len(freeList') = MAX_BLOCKS
  <2>1. CASE found.size > L
    <3>1. freeList' = [free EXCEPT ![k] = Rest(@, L)] /\ pool' = s.pool - 1
      BY <1>4, <2>1
    <3>2. /\ [free EXCEPT ![k] = Rest(@, L)] \in Seq(Chunk)
          /\ Len([free EXCEPT ![k] = Rest(@, L)]) = Len(free)
          /\ Tiles(Append(list, x), [free EXCEPT ![k] = Rest(@, L)])
      BY <1>1, <1>3, <1>5, <2>1, TilesSplit
    <3> HIDE DEF x
    <3>3. freeList' \in Seq(Chunk) /\ Len(freeList') = Len(free) /\ Tiles(patternList', freeList')
      BY <1>4, <3>1, <3>2
    <3>4. pool' \in Nat /\ pool' + Len(list) + 1 + Len(freeList') = MAX_BLOCKS
      <4>1. /\ pool' = s.pool - 1 /\ Len(freeList') = Len(free)
            /\ s.pool \in Nat /\ s.pool + Len(list) + Len(free) = MAX_BLOCKS
        BY <1>1, <3>1, <3>3, Zenon
      <4>2. s.pool > 0
        BY <2>1 DEF StorePattern, Splits, L, free, words, found
      <4> QED BY <1>8, <4>1, <4>2
    <3> QED BY <3>3, <3>4
  <2>2. CASE ~(found.size > L)
    <3>1. freeList' = RemoveAt(free, k) /\ pool' = s.pool
      BY <1>4, <2>2
    <3>2. found.size = L
      BY <1>3, <1>5, <1>6, <2>2
    <3>3. x = found
      <4>1. found = [start |-> found.start, size |-> found.size]
        BY <1>6 DEF Chunk
      <4> QED BY <3>2, <4>1
    <3>4. Tiles(Append(list, x), RemoveAt(free, k))
      BY <1>1, <1>3, <1>5, <3>2, <3>3, TilesFill
    <3>5. RemoveAt(free, k) \in Seq(Chunk) /\ Len(RemoveAt(free, k)) = Len(free) - 1
      BY <1>1, <1>5, RemoveAtProps
    <3> HIDE DEF x
    <3>6. /\ freeList' \in Seq(Chunk) /\ Len(freeList') = Len(free) - 1
          /\ Tiles(patternList', freeList')
      BY <1>4, <3>1, <3>4, <3>5
    <3>7. pool' \in Nat /\ pool' + Len(list) + 1 + Len(freeList') = MAX_BLOCKS
      BY <1>1, <1>8, <3>1, <3>6
    <3> QED BY <3>6, <3>7
  <2> QED BY <2>1, <2>2
<1> HIDE DEF mem
<1>10. ram' = [a \in Addresses |-> IF a \in Span(x) THEN words[a - x.start + 1] ELSE s.ram[a]]
  BY <1>4 DEF mem
<1> HIDE DEF found, x, slot
<1>11. /\ patternList' \in Seq(Chunk) /\ Len(patternList') = Len(list) + 1
       /\ \A i \in 1..Len(list) : patternList'[i] = list[i]
       /\ patternList'[Len(list) + 1] = x
  BY <1>1, <1>4, <1>7, AppendProperties
<1>12. AllApart(patternList')
       /\ \A i \in 1..Len(patternList') : Fits(patternList'[i]) /\ patternList'[i].size > 0
  BY <1>9 DEF Tiles
<1>13. slot \in Slots \ s.slotOn
  <2>1. AllApart(list) /\ \A i \in 1..Len(list) : list[i].size > 0
    BY <1>1 DEF Tiles
  <2> QED BY <1>1, <1>m, <2>1, FreeSlotProps DEF slot
<1>14. Named(patternList', slotOn', slotAddress')
  BY <1>1, <1>4, <1>7, <1>12, <1>13, NamedAppend
<1>15. totalPMRUsed' = Total(Sizes(patternList'))
  BY <1>1, <1>4, <1>7, SizesAppend
<1>16. pool' + Len(patternList') + Len(freeList') = MAX_BLOCKS
  <2>1. Len(freeList') \in Nat
    BY <1>9, LenProperties
  <2> QED BY <1>8, <1>9, <1>11, <2>1
<1>17. /\ registered' \in Seq(Pattern) /\ Len(registered') = Len(registered) + 1
       /\ \A i \in 1..Len(registered) : registered'[i] = registered[i]
       /\ registered'[Len(registered) + 1] = p
  BY <1>1, <1>4, AppendProperties
<1>18. ASSUME ~moved' PROVE Stored(ram', patternList', registered')
  <2>1. /\ Len(list) = Len(registered)
        /\ \A i \in 1..Len(list) : Carries(s.ram, list[i], LanceTranslatePattern(registered[i]))
    BY <1>1, <1>4, <1>18 DEF Stored
  <2>2. ASSUME NEW i \in 1..Len(list)
        PROVE  Carries(ram', patternList'[i], LanceTranslatePattern(registered'[i]))
    <3>1. patternList'[i] = list[i] /\ registered'[i] = registered[i]
          /\ registered[i] \in Pattern
      BY <1>1, <1>11, <1>17, <2>1, ElementOfSeq
    <3>2. list[i] \in Chunk
      BY <1>1, ElementOfSeq
    <3>3. Fits(list[i]) /\ Apart(list[i], x)
      <4>1. i \in 1..Len(patternList') /\ Len(list) + 1 \in 1..Len(patternList') /\ i # Len(list) + 1
        BY <1>8, <1>11
      <4> QED BY <1>11, <1>12, <3>1, <4>1 DEF AllApart
    <3>4. \A a \in Addresses : a \notin Span(x) => ram'[a] = s.ram[a]
      BY <1>10
    <3>5. Len(LanceTranslatePattern(registered[i])) \in Nat
      <4>1. \E v : Translated(registered[i], LanceTranslatePattern(registered[i]), v, Len(Mask[registered[i]]))
        BY <3>1, TranslateProps
      <4> QED BY <4>1, LenProperties DEF Translated
    <3>6. Carries(s.ram, list[i], LanceTranslatePattern(registered[i]))
      BY <2>1
    <3>7. Carries(ram', list[i], LanceTranslatePattern(registered[i]))
      BY <1>7, <3>2, <3>3, <3>4, <3>5, <3>6, CarriesKept
    <3> QED BY <3>1, <3>7
  <2>3. Carries(ram', x, words)
    <3>1. ASSUME NEW j \in 1..L PROVE ram'[x.start + j - 1] = words[j]
      <4>1. /\ x.start \in Nat /\ BASE_PM_START_ADDRESS \in Nat /\ MAX_PMR_ADDRESS \in Nat
            /\ BASE_PM_START_ADDRESS <= x.start /\ x.start + L <= MAX_PMR_ADDRESS
        <5>1. Len(list) + 1 \in 1..Len(patternList')
          BY <1>8, <1>11
        <5>2. Fits(x)
          BY <1>11, <1>12, <5>1
        <5> QED BY <1>6, <1>7, <5>2, SizesAssumption DEF Fits
      <4> DEFINE a == x.start + j - 1
      <4>2. a \in Addresses /\ a \in Span(x) /\ a - x.start + 1 = j
        BY <1>3, <1>7, <4>1 DEF Addresses, Span
      <4> HIDE DEF a
      <4> QED BY <1>10, <4>2 DEF a
    <3> QED BY <1>7, <3>1 DEF Carries, L
  <2>4. \A i \in 1..Len(patternList') : i \in 1..Len(list) \/ i = Len(list) + 1
    BY <1>8, <1>11
  <2>5. Carries(ram', patternList'[Len(list) + 1], LanceTranslatePattern(registered'[Len(list) + 1]))
    BY <1>11, <1>17, <2>1, <2>3 DEF words
  <2>6. \A i \in 1..Len(patternList') :
           Carries(ram', patternList'[i], LanceTranslatePattern(registered'[i]))
    BY <2>2, <2>4, <2>5
  <2>7. Len(patternList') = Len(registered')
    BY <1>11, <1>17, <2>1
  <2> QED BY <2>6, <2>7 DEF Stored
<1> QED BY <1>9, <1>11, <1>14, <1>15, <1>16, <1>17, <1>18 DEF MemoryInv, Current

LEMMA RemoveKeeps ==
  ASSUME MemoryInv(Current, totalPMRUsed, registered), NEW p \in Pattern,
         LanceRemoveWakeUpPattern(p)
  PROVE  MemoryInv(Current, totalPMRUsed, registered)'
<1> DEFINE words == LanceTranslatePattern(p)
           i == FindPattern(words)
           x == patternList[i]
           named == {n \in Slots : slotAddress[n] = x.start}
           at == {n \in DOMAIN registered : registered[n] = p}
<1>1. /\ patternList \in Seq(Chunk) /\ freeList \in Seq(Chunk)
      /\ pool \in Nat /\ pool + Len(patternList) + Len(freeList) = MAX_BLOCKS
      /\ Tiles(patternList, freeList)
      /\ totalPMRUsed = Total(Sizes(patternList))
      /\ Named(patternList, slotOn, slotAddress)
      /\ registered \in Seq(Pattern)
      /\ ~moved => Stored(ram, patternList, registered)
  BY DEF MemoryInv, Current
<1>2. PICK q : Translated(p, words, q, Len(Mask[p]))
  BY TranslateProps
<1>3. words \in Seq(WordsOf(p)) /\ Len(words) \in Nat /\ Len(words) > 0 /\ i # 0
  BY <1>2, LenProperties, EmptySeq DEF Translated, LanceRemoveWakeUpPattern
<1>4. /\ i \in 1..Len(patternList) /\ Carries(ram, x, words)
      /\ \A j \in 1..Len(patternList) : Carries(ram, patternList[j], words) => i <= j
  <2> HIDE DEF words
  <2> QED BY <1>1, <1>3, FindPatternProps
<1>5. /\ IF named = {} THEN UNCHANGED <<slotOn, slotAddress>>
         ELSE /\ slotOn' = slotOn \ {Min(named)}
              /\ slotAddress' = [slotAddress EXCEPT ![Min(named)] = 0]
      /\ patternList' = RemoveAt(patternList, i)
      /\ freeList' = Append(freeList, x)
      /\ totalPMRUsed' = totalPMRUsed - Len(words)
      /\ registered' = IF at = {} THEN registered ELSE RemoveAt(registered, Min(at))
      /\ UNCHANGED <<ram, pool, moved>>
  BY DEF LanceRemoveWakeUpPattern
<1>6. /\ AllApart(patternList)
      /\ \A j \in 1..Len(patternList) : Fits(patternList[j]) /\ patternList[j].size > 0
  BY <1>1 DEF Tiles
<1>7. x \in Chunk /\ x.start > 0 /\ x.size = Len(words)
  <2> HIDE DEF i, words
  <2>1. x \in Chunk /\ Fits(x)
    BY <1>1, <1>4, <1>6, ElementOfSeq
  <2>2. \A y \in Chunk : y.start \in Nat
    BY DEF Chunk
  <2>3. x.start > 0
    BY <2>1, <2>2, SizesAssumption DEF Fits
  <2> QED BY <1>4, <2>1, <2>3 DEF Carries
<1>r. \A n \in DOMAIN registered : registered[n] \in Pattern
  BY <1>1, ElementOfSeq, LenProperties
<1>d. DOMAIN registered = 1..Len(registered) /\ Len(registered) \in Nat
      /\ Len(patternList) \in Nat /\ Len(freeList) \in Nat
  BY <1>1, LenProperties
<1> HIDE DEF i
<1>8. ASSUME ~moved PROVE at # {} /\ Min(at) = i
  <2>1. /\ Len(patternList) = Len(registered)
        /\ \A j \in 1..Len(patternList) :
             Carries(ram, patternList[j], LanceTranslatePattern(registered[j]))
    BY <1>1, <1>8 DEF Stored
  <2> DEFINE r == registered[i]
             w == LanceTranslatePattern(r)
  <2>2. r \in Pattern /\ Carries(ram, x, w)
    BY <1>4, <1>d, <1>r, <2>1
  <2>3. w = words
    <3>1. PICK v : Translated(r, w, v, Len(Mask[r]))
      BY <2>2, TranslateProps
    <3>2. w \in Seq(WordsOf(r))
      BY <3>1 DEF Translated
    <3> HIDE DEF w, words, r
    <3>3. Len(w) = Len(words) /\ \A k \in 1..Len(words) : w[k] = words[k]
      BY <1>4, <2>2 DEF Carries
    <3>4. w = words
      <4>1. DOMAIN w = 1..Len(w) /\ DOMAIN words = 1..Len(words)
        BY <1>3, <3>2, LenProperties
      <4>2. w = [k \in 1..Len(w) |-> w[k]] /\ words = [k \in 1..Len(words) |-> words[k]]
        BY <1>3, <3>2, SeqDef, <4>1
      <4> QED BY <3>3, <4>2
    <3> QED BY <3>4
  <2>4. r = p
    BY <1>3, <2>2, <2>3, WordsTell
  <2>5. i \in at
    BY <1>4, <1>d, <2>1, <2>4
  <2>6. \A n \in at : i <= n
    BY <1>4, <1>d, <2>1
  <2>7. at \subseteq Nat
    BY <1>d
  <2> HIDE DEF at
  <2>8. Min(at) \in at /\ Min(at) <= i
    BY <2>5, <2>7, MinProps
  <2>9. i \in Nat /\ Min(at) \in Nat /\ i <= Min(at)
    BY <2>5, <2>6, <2>7, <2>8
  <2> QED BY <2>5, <2>8, <2>9
<1> HIDE DEF x
<1>9. named # {} /\ Named(patternList', slotOn', slotAddress')
  <2>1. /\ named # {}
        /\ Named(RemoveAt(patternList, i), slotOn \ {Min(named)},
                 [slotAddress EXCEPT ![Min(named)] = 0])
    <3>1. /\ patternList \in Seq(Chunk) /\ Named(patternList, slotOn, slotAddress)
          /\ AllApart(patternList) /\ \A j \in 1..Len(patternList) : patternList[j].size > 0
          /\ i \in 1..Len(patternList) /\ patternList[i].start > 0
      BY <1>1, <1>4, <1>6, <1>7 DEF x
    <3>2. named = SlotsWith(slotAddress, patternList[i].start)
      BY DEF SlotsWith, x
    <3> HIDE DEF named
    <3> QED BY <3>1, <3>2, NamedRemove
  <2> HIDE DEF named
  <2> QED BY <1>5, <2>1
<1>10. patternList' \in Seq(Chunk) /\ Len(patternList') = Len(patternList) - 1
       /\ \A j \in 1..(Len(patternList) - 1) :
            patternList'[j] = IF j < i THEN patternList[j] ELSE patternList[j + 1]
  BY <1>1, <1>4, <1>5, RemoveAtProps
<1>11. freeList' \in Seq(Chunk) /\ Len(freeList') = Len(freeList) + 1
  BY <1>1, <1>5, <1>7, AppendProperties
<1>12. Tiles(patternList', freeList')
  BY <1>1, <1>4, <1>5, TilesFree DEF x
<1>13. totalPMRUsed' = Total(Sizes(patternList'))
  BY <1>1, <1>4, <1>5, <1>7, SizesRemove DEF x
<1>14. pool' \in Nat /\ pool' + Len(patternList') + Len(freeList') = MAX_BLOCKS
  BY <1>1, <1>5, <1>10, <1>11, <1>d
<1>15. registered' \in Seq(Pattern)
  <2>1. CASE at = {}
    BY <1>1, <1>5, <2>1
  <2>2. CASE at # {}
    <3>1. at \subseteq Nat
      BY <1>d
    <3>2. Min(at) \in at
      <4> HIDE DEF at
      <4> QED BY <2>2, <3>1, MinProps
    <3>3. Min(at) \in 1..Len(registered)
      BY <1>d, <3>2
    <3>4. RemoveAt(registered, Min(at)) \in Seq(Pattern)
      BY <1>1, <3>3, RemoveAtProps
    <3> HIDE DEF at
    <3> QED BY <1>5, <2>2, <3>4
  <2> QED BY <2>1, <2>2
<1> HIDE DEF named
<1>16. ASSUME ~moved PROVE Stored(ram, patternList', registered')
  <2>1. /\ Len(patternList) = Len(registered)
        /\ \A j \in 1..Len(patternList) :
             Carries(ram, patternList[j], LanceTranslatePattern(registered[j]))
    BY <1>1, <1>16 DEF Stored
  <2>2. registered' = RemoveAt(registered, i)
    <3> HIDE DEF at
    <3> QED BY <1>5, <1>8, <1>16
  <2>3. /\ Len(registered') = Len(registered) - 1
        /\ \A j \in 1..(Len(registered) - 1) :
            registered'[j] = IF j < i THEN registered[j] ELSE registered[j + 1]
    BY <1>1, <1>4, <2>1, <2>2, RemoveAtProps
  <2>4. ASSUME NEW j \in 1..(Len(patternList) - 1)
        PROVE  Carries(ram, patternList'[j], LanceTranslatePattern(registered'[j]))
    <3>1. j \in 1..Len(patternList) /\ j + 1 \in 1..Len(patternList)
      BY <1>d
    <3>2. CASE j < i
      <4>1. patternList'[j] = patternList[j] /\ registered'[j] = registered[j]
        BY <1>10, <2>1, <2>3, <3>2
      <4> QED BY <2>1, <3>1, <4>1
    <3>3. CASE ~(j < i)
      <4>1. patternList'[j] = patternList[j + 1] /\ registered'[j] = registered[j + 1]
        BY <1>10, <2>1, <2>3, <3>3
      <4> QED BY <2>1, <3>1, <4>1
    <3> QED BY <3>2, <3>3
  <2> QED BY <1>10, <2>1, <2>3, <2>4 DEF Stored
<1>17. ram' = ram /\ moved' = moved
  BY <1>5
<1> QED BY <1>9, <1>10, <1>11, <1>12, <1>13, <1>14, <1>15, <1>16, <1>17 DEF MemoryInv, Current

(* After LanceInitPMR the whole memory is one free block.                     *)
LEMMA InitialMemory == MemoryInv(LanceInitPMR, 0, <<>>)
<1> DEFINE b == [start |-> BASE_PM_START_ADDRESS,
                 size |-> MAX_PMR_ADDRESS - BASE_PM_START_ADDRESS]
           s == LanceInitPMR
<1>1. /\ s.ram = [a \in Addresses |-> Zero] /\ s.slotAddress = [i \in Slots |-> 0]
      /\ s.slotOn = {} /\ s.patternList = <<>> /\ s.freeList = <<b>>
      /\ s.pool = MAX_BLOCKS - 1
  BY DEF LanceInitPMR
<1>2. /\ BASE_PM_START_ADDRESS \in Nat /\ MAX_PMR_ADDRESS \in Nat
      /\ MAX_BLOCKS \in Nat /\ MAX_BLOCKS > 0
      /\ BASE_PM_START_ADDRESS < MAX_PMR_ADDRESS
  BY SizesAssumption
<1>3. b \in Chunk /\ b.start = BASE_PM_START_ADDRESS
      /\ b.start + b.size = MAX_PMR_ADDRESS
  BY <1>2 DEF Chunk
<1> HIDE DEF b, s
<1>4. <<b>> \in Seq(Chunk) /\ Len(<<b>>) = 1 /\ <<b>>[1] = b
  BY <1>3
<1>5. <<>> \in Seq(Chunk) /\ <<>> \in Seq(Pattern) /\ Len(<<>>) = 0
  BY EmptySeq
<1>6. \A i \in 1..Len(<<b>>) : i = 1
  BY <1>4
<1>7. \A i \in 1..Len(<<>>) : FALSE
  BY <1>5
<1>8. \A a \in Addresses : Within(a, b)
  <2>1. \A a \in Addresses : a \in Nat /\ BASE_PM_START_ADDRESS <= a /\ a < MAX_PMR_ADDRESS
    BY <1>2 DEF Addresses
  <2> QED BY <1>3, <2>1 DEF Within
<1>9. Fits(b) /\ b.size > 0
  <2>1. b.size = MAX_PMR_ADDRESS - BASE_PM_START_ADDRESS
    BY DEF b
  <2> QED BY <1>2, <1>3, <2>1 DEF Fits
<1>10. Tiles(<<>>, <<b>>)
  BY <1>4, <1>6, <1>7, <1>8, <1>9 DEF Tiles, AllApart
<1>11. Named(<<>>, {}, [i \in Slots |-> 0])
  BY <1>7 DEF Named
<1>12. Total(Sizes(<<>>)) = 0
  <2>1. Sizes(<<>>) \in Seq(Nat) /\ Len(Sizes(<<>>)) = 0
    BY <1>5, SizesProps
  <2>2. Sizes(<<>>) = <<>>
    BY <2>1, EmptySeq
  <2> QED BY <2>2, TotalEmpty
<1>13. Stored(s.ram, <<>>, <<>>)
  BY <1>7 DEF Stored
<1>14. s.pool \in Nat /\ s.pool + 0 + 1 = MAX_BLOCKS
  BY <1>1, <1>2
<1> QED BY <1>1, <1>4, <1>5, <1>10, <1>11, <1>12, <1>13, <1>14 DEF MemoryInv, s

(* What the controller is given when the adapter goes to sleep.               *)
LEMMA MatchesWanted ==
  ASSUME MemoryInv(Current, totalPMRUsed, registered), ~moved
  PROVE  LanceEnablePatternMatch = {Wanted(p) : p \in ToSet(registered)}
<1>1. /\ patternList \in Seq(Chunk) /\ registered \in Seq(Pattern)
      /\ Tiles(patternList, freeList)
      /\ Named(patternList, slotOn, slotAddress)
      /\ Stored(ram, patternList, registered)
  BY DEF MemoryInv, Current
<1>2. /\ Len(patternList) = Len(registered)
      /\ \A i \in 1..Len(patternList) :
           Carries(ram, patternList[i], LanceTranslatePattern(registered[i]))
  BY <1>1 DEF Stored
<1>3. ASSUME NEW i \in 1..Len(patternList)
      PROVE  Compared(patternList[i].start) = Wanted(registered[i])
  <2>1. patternList[i] \in Chunk /\ registered[i] \in Pattern
    BY <1>1, <1>2, ElementOfSeq
  <2>2. Fits(patternList[i]) /\ patternList[i].size > 0
    BY <1>1 DEF Tiles
  <2> QED BY <1>2, <2>1, <2>2, ComparesPattern
<1>4. /\ \A n \in slotOn : \E i \in 1..Len(patternList) : slotAddress[n] = patternList[i].start
      /\ \A i \in 1..Len(patternList) : \E n \in slotOn : slotAddress[n] = patternList[i].start
  BY <1>1 DEF Named
<1>5. \A p : p \in ToSet(registered) <=> \E i \in 1..Len(patternList) : registered[i] = p
  BY <1>1, <1>2, ToSetProps
<1>8. \A n \in slotOn : slotAddress[n] \in Addresses
  <2> SUFFICES ASSUME NEW n \in slotOn PROVE slotAddress[n] \in Addresses
    OBVIOUS
  <2>1. PICK i \in 1..Len(patternList) : slotAddress[n] = patternList[i].start
    BY <1>4
  <2>2. Fits(patternList[i]) /\ patternList[i].size > 0 /\ patternList[i] \in Chunk
    BY <1>1, ElementOfSeq DEF Tiles
  <2>3. patternList[i].start \in Nat /\ patternList[i].size \in Nat
    BY <2>2 DEF Chunk
  <2> QED BY <2>1, <2>2, <2>3, SizesAssumption DEF Fits, Addresses
<1>6. ASSUME NEW y PROVE y \in LanceEnablePatternMatch <=>
                           \E i \in 1..Len(patternList) : y = Wanted(registered[i])
  <2>1. y \in LanceEnablePatternMatch <=> \E n \in slotOn : y = Compared(slotAddress[n])
    BY <1>8 DEF LanceEnablePatternMatch
  <2>2. ASSUME NEW n \in slotOn, y = Compared(slotAddress[n])
        PROVE  \E i \in 1..Len(patternList) : y = Wanted(registered[i])
    <3>1. PICK i \in 1..Len(patternList) : slotAddress[n] = patternList[i].start
      BY <1>4
    <3> QED BY <1>3, <2>2, <3>1
  <2>3. ASSUME NEW i \in 1..Len(patternList), y = Wanted(registered[i])
        PROVE  \E n \in slotOn : y = Compared(slotAddress[n])
    <3>1. PICK n \in slotOn : slotAddress[n] = patternList[i].start
      BY <1>4
    <3> QED BY <1>3, <2>3, <3>1
  <2> QED BY <2>1, <2>2, <2>3
<1>7. ASSUME NEW y PROVE y \in {Wanted(p) : p \in ToSet(registered)} <=>
                           \E i \in 1..Len(patternList) : y = Wanted(registered[i])
  <2>1. y \in {Wanted(p) : p \in ToSet(registered)} <=> \E p \in ToSet(registered) : y = Wanted(p)
    OBVIOUS
  <2> QED BY <1>5, <2>1
<1> QED BY <1>6, <1>7

LEMMA PatternsInvInit == PatternInit => PatternsInv
<1> SUFFICES ASSUME PatternInit PROVE PatternsInv
  OBVIOUS
<1>1. Current = LanceInitPMR
  BY DEF Current, LanceInitPMR, PatternInit
<1>2. totalPMRUsed = 0 /\ registered = <<>> /\ wakeUpMode = FALSE /\ pmMode = FALSE
  BY DEF PatternInit
<1>3. MemoryInv(Current, totalPMRUsed, registered)
  BY <1>1, <1>2, InitialMemory
<1>4. overdrawn = FALSE
  BY DEF PatternInit
<1> QED BY <1>2, <1>3, <1>4 DEF PatternsInv, WatchesRegistered

(* Whether or not LanceAddWakeUpPattern has to defragment the memory first.   *)
LEMMA RoomKeeps ==
  ASSUME MemoryInv(Current, totalPMRUsed, registered), NEW p \in Pattern,
         Len(LanceTranslatePattern(p)) > 0, Len(patternList) < MAX_ALLOWED_PATTERN
  PROVE  LET size == Len(LanceTranslatePattern(p))
             s == IF MustDefragment(size) THEN DefragmentPMR ELSE Current
         IN  MemoryInv(s, totalPMRUsed, registered) /\ Len(s.patternList) < MAX_ALLOWED_PATTERN
<1> DEFINE size == Len(LanceTranslatePattern(p))
<1>1. CASE MustDefragment(size)
  <2>1. size \in Nat
    <3>1. \E q : Translated(p, LanceTranslatePattern(p), q, Len(Mask[p]))
      BY TranslateProps
    <3> QED BY <3>1, LenProperties DEF Translated
  <2>2. size > 0
    OBVIOUS
  <2> HIDE DEF size
  <2>3. MemoryInv(DefragmentPMR, totalPMRUsed, registered)
        /\ Len(DefragmentPMR.patternList) < MAX_ALLOWED_PATTERN
    BY <1>1, <2>1, <2>2, DefragmentKeeps
  <2> QED BY <1>1, <2>3 DEF size
<1>2. CASE ~MustDefragment(size)
  <2>1. Current.patternList = patternList
    BY DEF Current
  <2> QED BY <1>2, <2>1
<1> QED BY <1>1, <1>2

LEMMA PatternsInvStep == PatternsInv /\ [PatternNext]_patternVars => PatternsInv'
<1> SUFFICES ASSUME PatternsInv, [PatternNext]_patternVars PROVE PatternsInv'
  OBVIOUS
<1>1. /\ ~overdrawn => MemoryInv(Current, totalPMRUsed, registered)
      /\ wakeUpMode \in BOOLEAN /\ pmMode \in BOOLEAN /\ overdrawn \in BOOLEAN
      /\ WatchesRegistered
  BY DEF PatternsInv
<1>2. ASSUME UNCHANGED memory
      PROVE  /\ overdrawn' = overdrawn
             /\ ~overdrawn' => MemoryInv(Current, totalPMRUsed, registered)'
  <2>0. overdrawn' = overdrawn
    BY <1>2 DEF memory
  <2>1. Current' = Current /\ totalPMRUsed' = totalPMRUsed /\ registered' = registered
    BY <1>2 DEF memory, Current
  <2>2. ~overdrawn => MemoryInv(Current', totalPMRUsed', registered')
    BY <1>1, <2>1
  <2> QED BY <2>0, <2>2
<1>3. ASSUME NEW p \in Pattern, LanceAddWakeUpPattern(p) PROVE PatternsInv'
  <2> DEFINE size == Len(LanceTranslatePattern(p))
             s == IF MustDefragment(size) THEN DefragmentPMR ELSE Current
             k == FindFirstFitBlock(s.freeList, size)
  <2>1. ~pmMode /\ ~overdrawn /\ size > 0 /\ Len(patternList) < MAX_ALLOWED_PATTERN
        /\ k # 0 /\ (StorePattern(s, k, p) \/ OverdrawPool(s, k, p)) /\ UNCHANGED power
    BY <1>3 DEF LanceAddWakeUpPattern
  <2>2. MemoryInv(s, totalPMRUsed, registered) /\ Len(s.patternList) < MAX_ALLOWED_PATTERN
    BY <1>1, <2>1, RoomKeeps
  <2> HIDE DEF s
  <2>3. /\ overdrawn' \in BOOLEAN
        /\ ~overdrawn' => MemoryInv(Current, totalPMRUsed, registered)'
    <3>1. CASE StorePattern(s, k, p)
      <4>1. overdrawn' = overdrawn
        BY <3>1 DEF StorePattern
      <4>2. MemoryInv(Current, totalPMRUsed, registered)'
        BY <2>1, <2>2, <3>1, StoreKeeps
      <4> QED BY <1>1, <4>1, <4>2
    <3>2. CASE OverdrawPool(s, k, p)
      BY <3>2 DEF OverdrawPool
    <3> QED BY <2>1, <3>1, <3>2
  <2>4. wakeUpMode' = wakeUpMode /\ pmMode' = pmMode
    BY <2>1 DEF power
  <2> QED BY <1>1, <2>1, <2>3, <2>4 DEF PatternsInv, WatchesRegistered
<1>4. ASSUME NEW p \in Pattern, LanceRemoveWakeUpPattern(p) PROVE PatternsInv'
  <2>1. ~overdrawn /\ overdrawn' = overdrawn
    BY <1>4 DEF LanceRemoveWakeUpPattern
  <2>3. MemoryInv(Current, totalPMRUsed, registered)'
    BY <1>1, <1>4, <2>1, RemoveKeeps
  <2>2. ~pmMode /\ wakeUpMode' = wakeUpMode /\ pmMode' = pmMode
    BY <1>4 DEF LanceRemoveWakeUpPattern, power
  <2> QED BY <1>1, <2>1, <2>2, <2>3 DEF PatternsInv, WatchesRegistered
<1>5. CASE LanceEnableWakeUp
  <2>1. ~pmMode /\ wakeUpMode' = TRUE /\ pmMode' = pmMode /\ UNCHANGED memory
    BY <1>5 DEF LanceEnableWakeUp
  <2> QED BY <1>1, <1>2, <2>1 DEF PatternsInv, WatchesRegistered
<1>6. CASE GoToSleep
  <2>1. pmMode' = TRUE /\ wakeUpMode' = wakeUpMode /\ UNCHANGED memory
        /\ watching' = IF wakeUpMode THEN LanceEnablePatternMatch ELSE {}
    BY <1>6 DEF GoToSleep
  <2>2. registered' = registered /\ moved' = moved /\ overdrawn' = overdrawn
    BY <2>1 DEF memory
  <2>3. ASSUME wakeUpMode, ~moved, ~overdrawn
        PROVE  watching' = {Wanted(p) : p \in ToSet(registered)}
    BY <1>1, <2>1, <2>3, MatchesWanted
  <2>4. WatchesRegistered'
    <3>1. WatchesRegistered' <=> (pmMode' /\ wakeUpMode' /\ ~moved' /\ ~overdrawn' =>
             watching' = {Wanted(p) : p \in ToSet(registered')})
      BY DEF WatchesRegistered, Wanted
    <3> QED BY <2>1, <2>2, <2>3, <3>1
  <2> QED BY <1>1, <1>2, <2>1, <2>4 DEF PatternsInv
<1>7. CASE Wake
  BY <1>1, <1>2, <1>7 DEF Wake, PatternsInv, WatchesRegistered
<1>8. CASE ForgetPatterns
  <2>1. ~pmMode /\ UNCHANGED power /\ overdrawn' = FALSE
    BY <1>8 DEF ForgetPatterns
  <2>2. Current' = LanceInitPMR /\ totalPMRUsed' = 0 /\ registered' = <<>>
    BY <1>8 DEF ForgetPatterns, Current, LanceInitPMR
  <2>3. MemoryInv(Current, totalPMRUsed, registered)'
    BY <2>2, InitialMemory
  <2>4. wakeUpMode' = wakeUpMode /\ pmMode' = pmMode
    BY <2>1 DEF power
  <2> QED BY <1>1, <2>1, <2>3, <2>4 DEF PatternsInv, WatchesRegistered
<1>9. CASE UNCHANGED patternVars
  <2>1. UNCHANGED memory /\ UNCHANGED power
    BY <1>9 DEF patternVars
  <2>2. UNCHANGED <<wakeUpMode, pmMode, watching, moved, overdrawn, registered>>
    BY <2>1 DEF memory, power
  <2>3. WatchesRegistered'
    <3>1. WatchesRegistered' <=> (pmMode' /\ wakeUpMode' /\ ~moved' /\ ~overdrawn' =>
             watching' = {Wanted(p) : p \in ToSet(registered')})
      BY DEF WatchesRegistered, Wanted
    <3> QED BY <1>1, <2>2, <3>1 DEF WatchesRegistered
  <2> QED BY <1>1, <1>2, <2>1, <2>2, <2>3 DEF PatternsInv
<1> QED BY <1>3, <1>4, <1>5, <1>6, <1>7, <1>8, <1>9 DEF PatternNext

(* The list of all blocks: first those with patterns, then the free ones.     *)
LEMMA OneBlock ==
  ASSUME NEW owned \in Seq(Chunk), NEW free \in Seq(Chunk), Tiles(owned, free),
         NEW a \in Addresses
  PROVE  Cardinality({i \in DOMAIN (owned \o free) : a \in Span((owned \o free)[i])}) = 1
<1> DEFINE all == owned \o free
           n == Len(owned)
           m == Len(free)
           here == {i \in DOMAIN all : a \in Span(all[i])}
<1>1. /\ n \in Nat /\ m \in Nat
      /\ \A i \in 1..n : owned[i] \in Chunk
      /\ \A i \in 1..m : free[i] \in Chunk
  BY ElementOfSeq, LenProperties
<1>2. /\ all \in Seq(Chunk) /\ Len(all) = n + m
      /\ \A i \in 1..(n + m) : all[i] = IF i <= n THEN owned[i] ELSE free[i - n]
  BY ConcatProperties
<1>3. DOMAIN all = 1..(n + m)
  BY <1>2, LenProperties
<1>4. /\ AllApart(owned) /\ AllApart(free)
      /\ \A i \in 1..n, j \in 1..m : Apart(owned[i], free[j])
      /\ \/ \E i \in 1..n : Within(a, owned[i])
         \/ \E j \in 1..m : Within(a, free[j])
  BY DEF Tiles
<1>5. a \in Nat
  BY SizesAssumption DEF Addresses
<1> HIDE DEF all, n, m
<1>6. \A x \in Chunk : a \in Span(x) <=> Within(a, x)
  BY <1>5 DEF Span, Within, Chunk
<1>7. \A x, y \in Chunk : Within(a, x) /\ Within(a, y) => ~Apart(x, y)
  BY <1>5 DEF Within, Apart, Chunk
<1>8. \A i \in 1..(n + m) : \/ i \in 1..n /\ all[i] = owned[i]
                            \/ i - n \in 1..m /\ i > n /\ all[i] = free[i - n]
  BY <1>1, <1>2
<1>9. \A i \in 1..(n + m) : all[i] \in Chunk
  BY <1>1, <1>8
<1>10. ASSUME NEW i \in 1..(n + m), NEW j \in 1..(n + m), i # j PROVE Apart(all[i], all[j])
  <2>1. CASE i \in 1..n /\ all[i] = owned[i] /\ j \in 1..n /\ all[j] = owned[j]
    BY <1>4, <1>10, <2>1 DEF AllApart, n
  <2>2. CASE i \in 1..n /\ all[i] = owned[i] /\ j - n \in 1..m /\ all[j] = free[j - n]
    BY <1>4, <2>2
  <2>3. CASE i - n \in 1..m /\ all[i] = free[i - n] /\ j \in 1..n /\ all[j] = owned[j]
    BY <1>4, <2>3, ApartSymmetric
  <2>4. CASE i - n \in 1..m /\ all[i] = free[i - n] /\ j - n \in 1..m /\ all[j] = free[j - n]
    <3>1. i - n # j - n
      BY <1>1, <1>10
    <3> QED BY <1>4, <2>4, <3>1 DEF AllApart, m
  <2> QED BY <1>8, <2>1, <2>2, <2>3, <2>4
<1>11. \A i, j \in 1..(n + m) : a \in Span(all[i]) /\ a \in Span(all[j]) => i = j
  BY <1>6, <1>7, <1>9, <1>10
<1>12. \E i \in 1..(n + m) : a \in Span(all[i])
  <2>1. CASE \E i \in 1..n : Within(a, owned[i])
    <3>1. PICK i \in 1..n : Within(a, owned[i])
      BY <2>1
    <3>2. i \in 1..(n + m) /\ all[i] = owned[i]
      BY <1>1, <1>2
    <3> QED BY <1>1, <1>6, <3>1, <3>2
  <2>2. CASE \E j \in 1..m : Within(a, free[j])
    <3>1. PICK j \in 1..m : Within(a, free[j])
      BY <2>2
    <3>2. n + j \in 1..(n + m) /\ all[n + j] = free[j]
      <4>1. n + j \in 1..(n + m) /\ ~(n + j <= n) /\ (n + j) - n = j
        BY <1>1
      <4> QED BY <1>2, <4>1
    <3> QED BY <1>1, <1>6, <3>1, <3>2
  <2> QED BY <1>4, <2>1, <2>2
<1>13. PICK i \in 1..(n + m) : here = {i}
  BY <1>3, <1>11, <1>12
<1> QED BY <1>13, FS_Singleton DEF all

(* Every block has a word of its own, so that there are not more blocks than  *)
(* words.                                                                     *)
LEMMA BlocksAndWords ==
  ASSUME NEW owned \in Seq(Chunk), NEW free \in Seq(Chunk), Tiles(owned, free)
  PROVE  Len(owned) + Len(free) <= MAX_PMR_ADDRESS - BASE_PM_START_ADDRESS
<1> DEFINE n == Len(owned)
           m == Len(free)
           f == [i \in 1..(n + m) |-> IF i <= n THEN owned[i].start ELSE free[i - n].start]
<1>1. /\ n \in Nat /\ m \in Nat
      /\ \A i \in 1..n : owned[i].start \in Nat /\ owned[i].size \in Nat
      /\ \A i \in 1..m : free[i].start \in Nat /\ free[i].size \in Nat
  <2>1. \A c \in Chunk : c.start \in Nat /\ c.size \in Nat
    BY DEF Chunk
  <2> QED BY <2>1, ElementOfSeq, LenProperties
<1>2. /\ \A i \in 1..n : Fits(owned[i]) /\ owned[i].size > 0
      /\ \A i \in 1..m : Fits(free[i]) /\ free[i].size > 0
      /\ \A i, j \in 1..n : i # j => Apart(owned[i], owned[j])
      /\ \A i, j \in 1..m : i # j => Apart(free[i], free[j])
      /\ \A i \in 1..n, j \in 1..m : Apart(owned[i], free[j])
  BY DEF Tiles, AllApart
<1>3. /\ BASE_PM_START_ADDRESS \in Nat /\ MAX_PMR_ADDRESS \in Nat
      /\ BASE_PM_START_ADDRESS < MAX_PMR_ADDRESS
  BY SizesAssumption
<1> HIDE DEF n, m
<1> HIDE DEF f
<1>4. /\ \A i \in 1..n : owned[i].start \in Addresses
      /\ \A i \in 1..m : free[i].start \in Addresses
  <2>1. ASSUME NEW c, c.start \in Nat, c.size \in Nat, Fits(c), c.size > 0
        PROVE  c.start \in Addresses
    BY <1>3, <2>1 DEF Fits, Addresses
  <2>2. ASSUME NEW i \in 1..n PROVE owned[i].start \in Addresses
    BY <1>1, <1>2, <2>1
  <2>3. ASSUME NEW i \in 1..m PROVE free[i].start \in Addresses
    BY <1>1, <1>2, <2>1
  <2> QED BY <2>2, <2>3
<1>5. /\ \A i, j \in 1..n : owned[i].start = owned[j].start => i = j
      /\ \A i, j \in 1..m : free[i].start = free[j].start => i = j
      /\ \A i \in 1..n, j \in 1..m : owned[i].start # free[j].start
  <2>1. ASSUME NEW c, c.start \in Nat, c.size \in Nat, c.size > 0,
               NEW d, d.start \in Nat, d.size \in Nat, d.size > 0, Apart(c, d)
        PROVE  c.start # d.start
    BY <2>1 DEF Apart
  <2>2. ASSUME NEW i \in 1..n, NEW j \in 1..n, owned[i].start = owned[j].start PROVE i = j
    BY <1>1, <1>2, <2>1, <2>2
  <2>3. ASSUME NEW i \in 1..m, NEW j \in 1..m, free[i].start = free[j].start PROVE i = j
    BY <1>1, <1>2, <2>1, <2>3
  <2>4. ASSUME NEW i \in 1..n, NEW j \in 1..m PROVE owned[i].start # free[j].start
    BY <1>1, <1>2, <2>1
  <2> QED BY <2>2, <2>3, <2>4
<1>6. \A i \in 1..(n + m) : \/ i <= n /\ i \in 1..n /\ f[i] = owned[i].start
                            \/ i > n /\ i - n \in 1..m /\ f[i] = free[i - n].start
  BY <1>1 DEF f
<1>7. \A i \in 1..(n + m) : f[i] \in Addresses
  BY <1>4, <1>6
<1>8. ASSUME NEW i \in 1..(n + m), NEW j \in 1..(n + m), f[i] = f[j] PROVE i = j
  <2>1. CASE i <= n /\ j <= n
    BY <1>1, <1>5, <1>6, <1>8, <2>1
  <2>2. CASE i > n /\ j > n
    <3>1. i - n \in 1..m /\ j - n \in 1..m /\ free[i - n].start = free[j - n].start
      BY <1>1, <1>6, <1>8, <2>2
    <3>2. i - n = j - n
      BY <1>5, <3>1
    <3> QED BY <1>1, <3>2
  <2>3. CASE i <= n /\ j > n
    BY <1>1, <1>5, <1>6, <1>8, <2>3
  <2>4. CASE i > n /\ j <= n
    BY <1>1, <1>5, <1>6, <1>8, <2>4
  <2> QED BY <1>1, <2>1, <2>2, <2>3, <2>4
<1>9. f \in Injection(1..(n + m), Addresses)
  <2>1. f \in [1..(n + m) -> Addresses]
    BY <1>7 DEF f
  <2> QED BY <1>8, <2>1 DEF Injection, IsInjective
<1>10. /\ IsFiniteSet(Addresses)
       /\ Cardinality(Addresses) = MAX_PMR_ADDRESS - BASE_PM_START_ADDRESS
  <2>1. BASE_PM_START_ADDRESS \in Int /\ MAX_PMR_ADDRESS - 1 \in Int
    BY <1>3
  <2>2. IsFiniteSet(BASE_PM_START_ADDRESS..(MAX_PMR_ADDRESS - 1))
        /\ Cardinality(BASE_PM_START_ADDRESS..(MAX_PMR_ADDRESS - 1)) =
             IF BASE_PM_START_ADDRESS > MAX_PMR_ADDRESS - 1 THEN 0
             ELSE (MAX_PMR_ADDRESS - 1) - BASE_PM_START_ADDRESS + 1
    BY <2>1, FS_Interval
  <2> QED BY <1>3, <2>2 DEF Addresses
<1>11. Cardinality(1..(n + m)) = n + m
  <2>1. 1 \in Int /\ n + m \in Int
    BY <1>1
  <2>2. Cardinality(1..(n + m)) = IF 1 > n + m THEN 0 ELSE (n + m) - 1 + 1
    BY <2>1, FS_Interval
  <2> QED BY <1>1, <2>2
<1>12. Cardinality(1..(n + m)) <= Cardinality(Addresses)
  BY <1>9, <1>10, FS_Injection
<1> QED BY <1>10, <1>11, <1>12 DEF n, m

(* With a descriptor for each word the last of them is taken only when every  *)
(* block is one word long, and such a block is not split.                     *)
LEMMA PoolLasts ==
  ASSUME NEW s, MemoryInv(s, totalPMRUsed, registered), NEW p \in Pattern,
         Len(LanceTranslatePattern(p)) > 0,
         NEW k, k = FindFirstFitBlock(s.freeList, Len(LanceTranslatePattern(p))), k # 0,
         MAX_BLOCKS >= MAX_PMR_ADDRESS - BASE_PM_START_ADDRESS
  PROVE  ~OverdrawPool(s, k, p)
<1> SUFFICES ASSUME OverdrawPool(s, k, p) PROVE FALSE
  OBVIOUS
<1> DEFINE list == s.patternList
           free == s.freeList
           L == Len(LanceTranslatePattern(p))
           x == [start |-> free[k].start, size |-> L]
           v == [free EXCEPT ![k] = Rest(@, L)]
<1>1. /\ list \in Seq(Chunk) /\ free \in Seq(Chunk)
      /\ s.pool + Len(list) + Len(free) = MAX_BLOCKS
      /\ Tiles(list, free)
  BY DEF MemoryInv
<1>2. L \in Nat /\ L > 0
  <2>1. PICK q : Translated(p, LanceTranslatePattern(p), q, Len(Mask[p]))
    BY TranslateProps
  <2> QED BY <2>1, LenProperties DEF Translated
<1>3. free[k].size > L /\ s.pool = 0
  BY DEF OverdrawPool, Splits
<1>4. k = FindFirstFitBlock(free, L) /\ k # 0
  OBVIOUS
<1> HIDE DEF list, free, L
<1>5. k \in 1..Len(free)
  BY <1>1, <1>2, <1>4, FirstFit
<1>6. x \in Chunk /\ v \in Seq(Chunk) /\ Len(v) = Len(free) /\ Tiles(Append(list, x), v)
  <2>1. ASSUME NEW j \in 1..Len(free), free[j].size > L
        PROVE  /\ [start |-> free[j].start, size |-> L] \in Chunk
               /\ [free EXCEPT ![j] = Rest(@, L)] \in Seq(Chunk)
               /\ Len([free EXCEPT ![j] = Rest(@, L)]) = Len(free)
               /\ Tiles(Append(list, [start |-> free[j].start, size |-> L]),
                        [free EXCEPT ![j] = Rest(@, L)])
    BY <1>1, <1>2, <2>1, TilesSplit
  <2> QED BY <1>3, <1>5, <2>1
<1> HIDE DEF x, v
<1>7. Append(list, x) \in Seq(Chunk) /\ Len(Append(list, x)) = Len(list) + 1
  BY <1>1, <1>6, AppendProperties
<1>8. Len(list) + 1 + Len(free) <= MAX_PMR_ADDRESS - BASE_PM_START_ADDRESS
  BY <1>6, <1>7, BlocksAndWords
<1>9. Len(list) \in Nat /\ Len(free) \in Nat
  BY <1>1, LenProperties
<1> QED BY <1>1, <1>3, <1>8, <1>9, SizesAssumption

(* Every word belongs to one block: no pattern is written over another.       *)
LEMMA OwnedOnce == PatternsInv => WordsOwnedOnce
<1> SUFFICES ASSUME PatternsInv, ~overdrawn PROVE WordsOwnedOnce
  BY DEF WordsOwnedOnce
<1>1. /\ patternList \in Seq(Chunk) /\ freeList \in Seq(Chunk)
      /\ pool \in Nat /\ pool + Len(patternList) + Len(freeList) = MAX_BLOCKS
      /\ Tiles(patternList, freeList)
      /\ totalPMRUsed = Total(Sizes(patternList))
  BY DEF PatternsInv, MemoryInv, Current
<1>2. \A a \in Addresses :
        Cardinality({i \in DOMAIN (patternList \o freeList) :
                       a \in Span((patternList \o freeList)[i])}) = 1
  BY <1>1, OneBlock
<1>3. pool + Len(patternList \o freeList) = MAX_BLOCKS
  <2>1. Len(patternList \o freeList) = Len(patternList) + Len(freeList)
        /\ Len(patternList) \in Nat /\ Len(freeList) \in Nat
    BY <1>1, ConcatProperties, LenProperties
  <2> QED BY <1>1, <2>1
<1>4. totalPMRUsed = FoldLeft(LAMBDA m, n : m + n, 0,
                              [i \in DOMAIN patternList |-> patternList[i].size])
  BY <1>1 DEF Total, Sizes
<1> QED BY <1>2, <1>3, <1>4 DEF WordsOwnedOnce

LEMMA Found == PatternsInv => PatternsFound
<1> SUFFICES ASSUME PatternsInv, ~moved, ~overdrawn PROVE PatternsFound
  BY DEF PatternsFound
<1>1. /\ patternList \in Seq(Chunk) /\ registered \in Seq(Pattern)
      /\ Tiles(patternList, freeList)
      /\ Named(patternList, slotOn, slotAddress)
      /\ Stored(ram, patternList, registered)
  BY DEF PatternsInv, MemoryInv, Current
<1>2. /\ Len(patternList) = Len(registered)
      /\ \A i \in 1..Len(patternList) :
           Carries(ram, patternList[i], LanceTranslatePattern(registered[i]))
  BY <1>1 DEF Stored
<1>3. DOMAIN registered = 1..Len(registered)
  BY <1>1, LenProperties
<1>4. ASSUME NEW i \in 1..Len(registered)
      PROVE  FindPattern(LanceTranslatePattern(registered[i])) # 0
  <2>1. registered[i] \in Pattern
    BY <1>1, ElementOfSeq
  <2>2. PICK q : Translated(registered[i], LanceTranslatePattern(registered[i]), q,
                            Len(Mask[registered[i]]))
    BY <2>1, TranslateProps
  <2>3. LanceTranslatePattern(registered[i]) \in Seq(WordsOf(registered[i]))
    BY <2>2 DEF Translated
  <2> QED BY <1>1, <1>2, <2>3, FindPatternProps
<1>5. /\ Cardinality(slotOn) = Len(patternList)
      /\ {slotAddress[n] : n \in slotOn} = {x.start : x \in ToSet(patternList)}
  <2>1. AllApart(patternList) /\ \A i \in 1..Len(patternList) : patternList[i].size > 0
    BY <1>1 DEF Tiles
  <2>2. patternList \in Seq(Chunk) /\ Named(patternList, slotOn, slotAddress)
    BY <1>1
  <2> QED BY <2>1, <2>2, NamedCount, Zenon
<1> QED BY <1>2, <1>3, <1>4, <1>5 DEF PatternsFound

LEMMA TypesOfPatterns == PatternsInv => PatternTypeOK
<1> SUFFICES ASSUME PatternsInv, ~overdrawn PROVE PatternTypeOK
  BY DEF PatternsInv, PatternTypeOK
<1>1. /\ patternList \in Seq(Chunk) /\ freeList \in Seq(Chunk)
      /\ pool \in Nat /\ pool + Len(patternList) + Len(freeList) = MAX_BLOCKS
      /\ Tiles(patternList, freeList)
      /\ slotOn \subseteq Slots
      /\ wakeUpMode \in BOOLEAN /\ pmMode \in BOOLEAN /\ overdrawn \in BOOLEAN
  BY DEF PatternsInv, MemoryInv, Current, Named
<1>2. /\ DOMAIN patternList = 1..Len(patternList) /\ Len(patternList) \in Nat
      /\ DOMAIN freeList = 1..Len(freeList) /\ Len(freeList) \in Nat
      /\ \A i \in 1..Len(patternList) : patternList[i] \in Chunk /\ Fits(patternList[i])
      /\ \A i \in 1..Len(freeList) : freeList[i] \in Chunk /\ Fits(freeList[i])
  BY <1>1, ElementOfSeq, LenProperties DEF Tiles
<1>3. ASSUME NEW x \in Chunk, Fits(x) PROVE Span(x) \subseteq Addresses
  <2>1. x.start \in Nat /\ x.size \in Nat
    BY DEF Chunk
  <2> QED BY <1>3, <2>1, SizesAssumption DEF Span, Addresses, Fits
<1>4. Len(patternList) + Len(freeList) > 0
  <2>1. BASE_PM_START_ADDRESS \in Addresses
    BY SizesAssumption DEF Addresses
  <2>2. \/ \E i \in 1..Len(patternList) : TRUE
        \/ \E i \in 1..Len(freeList) : TRUE
    BY <1>1, <2>1 DEF Tiles
  <2> QED BY <1>2, <2>2
<1>5. pool \in 0..(MAX_BLOCKS - 1)
  BY <1>1, <1>2, <1>4, SizesAssumption
<1> QED BY <1>1, <1>2, <1>3, <1>5 DEF PatternTypeOK

-----------------------------------------------------------------------------
(* The invariant of the pattern memory: through any sequence of additions,    *)
(* removals, defragmentations and resets it holds until the driver takes a    *)
(* block from the empty pool, which its code does not prevent.                *)
THEOREM PatternsInvariant == PatternSpec => []PatternsInv
<1>1. PatternInit => PatternsInv
  BY PatternsInvInit
<1>2. PatternsInv /\ [PatternNext]_patternVars => PatternsInv'
  BY PatternsInvStep
<1> QED BY <1>1, <1>2, PTL DEF PatternSpec

(* Until then the blocks stay in the memory.                                  *)
THEOREM PatternTypes == PatternSpec => []PatternTypeOK
BY PatternsInvariant, TypesOfPatterns, PTL

(* What would keep the pool from being overdrawn: as many descriptors as the  *)
(* memory has words (62; the driver has 20).  No sequence of additions and    *)
(* removals then finds the pool empty when it splits a block.                 *)
THEOREM DescriptorsForAllWords ==
  ASSUME MAX_BLOCKS >= MAX_PMR_ADDRESS - BASE_PM_START_ADDRESS
  PROVE  PatternSpec => []PoolSuffices
<1>1. PatternInit => PoolSuffices
  BY DEF PatternInit, PoolSuffices
<1>2. PatternsInv /\ PoolSuffices /\ [PatternNext]_patternVars => PoolSuffices'
  <2> SUFFICES ASSUME PatternsInv, ~overdrawn, [PatternNext]_patternVars PROVE ~overdrawn'
    BY DEF PoolSuffices
  <2>1. MemoryInv(Current, totalPMRUsed, registered)
    BY DEF PatternsInv
  <2>2. ASSUME NEW p \in Pattern, LanceAddWakeUpPattern(p) PROVE ~overdrawn'
    <3> DEFINE size == Len(LanceTranslatePattern(p))
               s == IF MustDefragment(size) THEN DefragmentPMR ELSE Current
               k == FindFirstFitBlock(s.freeList, size)
    <3>1. size > 0 /\ Len(patternList) < MAX_ALLOWED_PATTERN /\ k # 0
          /\ (StorePattern(s, k, p) \/ OverdrawPool(s, k, p))
      BY <2>2 DEF LanceAddWakeUpPattern
    <3>2. MemoryInv(s, totalPMRUsed, registered)
      BY <2>1, <3>1, RoomKeeps
    <3> HIDE DEF s
    <3>3. ~OverdrawPool(s, k, p)
      BY <3>1, <3>2, PoolLasts
    <3>4. overdrawn' = overdrawn
      BY <3>1, <3>3 DEF StorePattern
    <3> QED BY <3>4
  <2>3. ASSUME NEW p \in Pattern, LanceRemoveWakeUpPattern(p) PROVE ~overdrawn'
    BY <2>3 DEF LanceRemoveWakeUpPattern
  <2>4. CASE LanceEnableWakeUp \/ GoToSleep \/ Wake \/ UNCHANGED patternVars
    BY <2>4 DEF LanceEnableWakeUp, GoToSleep, Wake, patternVars, memory
  <2>5. CASE ForgetPatterns
    BY <2>5 DEF ForgetPatterns
  <2> QED BY <2>2, <2>3, <2>4, <2>5 DEF PatternNext
<1> QED BY <1>1, <1>2, PatternsInvariant, PTL DEF PatternSpec

(* For any patterns and any size of the memory every word belongs to exactly  *)
(* one block, and the words in use and the descriptors are counted exactly,   *)
(* until a block is taken from the empty pool.                                *)
THEOREM BlocksOwnWords == PatternSpec => []WordsOwnedOnce
BY PatternsInvariant, OwnedOnce, PTL

(* As long as no block was moved and none taken from the empty pool, a        *)
(* registered pattern is found again, and the enabled slots name the blocks   *)
(* with patterns and nothing else.                                            *)
THEOREM RegisteredAreFound == PatternSpec => []PatternsFound
BY PatternsInvariant, Found, PTL

(* As long as no block was moved and none taken from the empty pool, the      *)
(* sleeping controller compares what NDIS registered: what the words say with *)
(* their skips is what the masks say.                                         *)
THEOREM ControllerWatches == PatternSpec => []WatchesRegistered
<1>1. PatternsInv => WatchesRegistered
  BY DEF PatternsInv
<1> QED BY <1>1, PatternsInvariant, PTL
=============================================================================
