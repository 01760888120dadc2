---------------------------- MODULE HostController ----------------------------
(***************************************************************************)
(* CHW (DRIVERS/HCD/chw.cpp): the interrupt thread of the host controller, *)
(* power management, the thread that rebuilds the driver after a loss of   *)
(* power, and the 32 bit frame counter kept above the 11 bit FRNUM.        *)
(*                                                                         *)
(* PowerMgmtCallback runs when the system goes down and comes back, with   *)
(* no other thread running in between.  The flags it shares with the two   *)
(* threads are plain variables without a lock: every access is a step.     *)
(***************************************************************************)
EXTENDS Integers, FiniteSets

CONSTANTS Half,       \* UHCD_FRNUM_COUNTER_MSB: half the range of FRNUM
          Wrap,       \* 2^32 / Half: the frame counter in units of Half
          MaxGap,     \* bound: most frames between two updates of the counter
          Builders,   \* bound: the resume threads there can be at a time
          MaxCycles   \* bound: power cycles

ASSUME CounterAssumption == /\ Half \in Nat \ {0}
                            /\ Wrap \in Nat \ {0}
                            /\ Wrap % 2 = 0
                            /\ MaxGap \in 0..Half
                            /\ MaxCycles \in Nat

VARIABLES capable,    \* GetCapability() has HCD_SUSPEND_RESUME
          doResume, powerUp, resuming,  \* m_bDoResume, g_fPowerUpFlag, g_fPowerResuming
          running,    \* USBCMD: UHCD_USBCMD_RUN_STOP
          savedCmd,   \* that bit as the interrupt thread read it before a Sleep
          registered, \* InterruptInitialize has been called
          event,      \* m_hUsbInterruptEvent
          masked,     \* the interrupt is off until InterruptDone
          closing,    \* m_fUsbInterruptThreadClosing
          pipes,      \* CUHCIFrame and the root hub exist
          ist,        \* the interrupt thread
          builder,    \* the resume threads
          cycles,     \* power cycles so far
          missed,     \* power was lost while the driver was being rebuilt
          unit, index,   \* the frame the controller is in: unit * Half + index
          since,         \* frames since the counter was last updated
          high, lowBit, lowIndex  \* m_frameCounterHighPart / Half, and the top bit
                                  \* and the rest of m_frameCounterLowPart

flagVars  == <<doResume, powerUp, resuming>>
irqVars   == <<registered, event, masked>>
counter   == <<since, high, lowBit, lowIndex>>
frameVars == <<unit, index, counter>>
vars == <<capable, flagVars, running, savedCmd, irqVars, closing, pipes, ist, builder, cycles,
          missed, frameVars>>

Init == /\ capable \in BOOLEAN
        /\ doResume = FALSE /\ powerUp = FALSE /\ resuming = FALSE
        /\ running = TRUE
        /\ savedCmd = FALSE
        /\ registered = TRUE /\ event = FALSE /\ masked = FALSE
        /\ closing = FALSE
        /\ pipes = TRUE
        /\ ist = "wait"
        /\ builder = [t \in Builders |-> "none"]
        /\ cycles = 0
        /\ missed = FALSE
        /\ unit = 0 /\ index = 0
        /\ since = 0 /\ high = 0 /\ lowBit = 0 /\ lowIndex = 0
-----------------------------------------------------------------------------
(* The frame counter.                                                       *)

(* A defect: the sum keeps the bits a DWORD has no room for.                *)
PlusWide(h, d) == h + d

(* DWORD addition, in units of Half.                                        *)
Plus(h, d) == IF h + d >= Wrap THEN h + d - Wrap ELSE h + d

(* A defect: the high part always grows by the full range of FRNUM.         *)
UpdatedByRange(h) == IF lowBit # unit % 2 THEN Plus(h, 2) ELSE h

(* UpdateFrameCounter: when the top bit of FRNUM has changed, the high part
   grows by the whole range less the half its own bit already stands for.   *)
Updated(h) == IF lowBit # unit % 2
              THEN Plus(h, IF h % 2 # unit % 2 THEN 1 ELSE 2)
              ELSE h

UpdateFrameCounter == /\ high' = Updated(high)
                      /\ lowBit' = unit % 2
                      /\ lowIndex' = index
                      /\ since' = 0

(* A frame passes.  The counter is assumed to be updated often enough.      *)
Frame == /\ running
         /\ since < MaxGap
         /\ since' = since + 1
         /\ index' = IF index + 1 = Half THEN 0 ELSE index + 1
         /\ unit' = IF index + 1 = Half THEN Plus(unit, 1) ELSE unit
         /\ UNCHANGED <<capable, flagVars, running, savedCmd, irqVars, closing, pipes, ist,
                        builder, cycles, missed, high, lowBit, lowIndex>>

(* Any thread may ask for the frame number while there is a root hub.       *)
GetFrameNumber == /\ pipes
                  /\ UpdateFrameCounter
                  /\ UNCHANGED <<capable, flagVars, running, savedCmd, irqVars, closing, pipes,
                                 ist, builder, cycles, missed, unit, index>>
-----------------------------------------------------------------------------
(* PowerMgmtCallback(TRUE), and (FALSE) when the system is up again.         *)

(* A defect: the system comes up without waking the interrupt thread.       *)
PowerCycleSilent ==
    /\ cycles < MaxCycles
    /\ cycles' = cycles + 1
    /\ doResume' = capable
    /\ running' = capable
    /\ powerUp' = TRUE
    /\ missed' = (missed \/ \E t \in Builders : builder[t] # "none")
    /\ UNCHANGED <<capable, resuming, savedCmd, registered, event, masked, closing, pipes, ist,
                   builder, frameVars>>

PowerCycle ==
    /\ cycles < MaxCycles
    /\ cycles' = cycles + 1
    /\ doResume' = capable
    /\ running' = capable
    /\ powerUp' = TRUE
    /\ event' = (event \/ (registered /\ ~resuming))
    /\ missed' = (missed \/ \E t \in Builders : builder[t] # "none")
    /\ UNCHANGED <<capable, resuming, savedCmd, registered, masked, closing, pipes, ist, builder,
                   frameVars>>

(* A transfer completes, or a device asks for attention.                    *)
Interrupt ==
    /\ running
    /\ registered
    /\ ~masked
    /\ event' = TRUE
    /\ masked' = TRUE
    /\ UNCHANGED <<capable, flagVars, running, savedCmd, registered, closing, pipes, ist,
                   builder, cycles, missed, frameVars>>
-----------------------------------------------------------------------------
(* UsbInterruptThread.                                                      *)

IstWake ==
    /\ ist = "wait"
    /\ event
    /\ event' = FALSE
    /\ IF closing THEN ist' = "none" /\ UNCHANGED counter
                  ELSE ist' = "check" /\ UpdateFrameCounter
    /\ UNCHANGED <<capable, flagVars, running, savedCmd, registered, masked, closing, pipes,
                   builder, cycles, missed, unit, index>>

NextWait == ist' = IF closing THEN "none" ELSE "wait"

(* SignalCheckForDoneTransfers and InterruptDone.                           *)
IstSignal ==
    /\ ist = "check"
    /\ ~powerUp
    /\ masked' = FALSE
    /\ NextWait
    /\ UNCHANGED <<capable, flagVars, running, savedCmd, registered, event, closing, pipes,
                   builder, cycles, missed, frameVars>>

(* The controller kept its state: only the resume signal has to end.        *)
IstResume ==
    /\ ist = "check"
    /\ powerUp
    /\ doResume
    /\ powerUp' = FALSE
    /\ savedCmd' = running
    /\ ist' = "sleep"
    /\ UNCHANGED <<capable, doResume, resuming, running, irqVars, closing, pipes, builder,
                   cycles, missed, frameVars>>

IstResumed ==
    /\ ist = "sleep"
    /\ running' = savedCmd
    /\ masked' = FALSE
    /\ NextWait
    /\ UNCHANGED <<capable, flagVars, savedCmd, registered, event, closing, pipes, builder,
                   cycles, missed, frameVars>>

(* An early interrupt while the driver is rebuilt: no InterruptDone.        *)
IstEarly ==
    /\ ist = "check"
    /\ powerUp
    /\ ~doResume
    /\ resuming
    /\ NextWait
    /\ UNCHANGED <<capable, flagVars, running, savedCmd, irqVars, closing, pipes, builder,
                   cycles, missed, frameVars>>

(* A defect: the interrupt thread does not look at g_fPowerResuming.        *)
IstRebuildAgain(t) ==
    /\ ist = "check"
    /\ powerUp
    /\ ~doResume
    /\ builder[t] = "none"
    /\ builder' = [builder EXCEPT ![t] = "clear"]
    /\ ist' = "none"
    /\ UNCHANGED <<capable, flagVars, running, savedCmd, irqVars, closing, pipes, cycles,
                   missed, frameVars>>

(* The controller lost its state: a thread is created to rebuild the driver,
   and the interrupt thread ends.                                           *)
IstRebuild(t) ==
    /\ ist = "check"
    /\ powerUp
    /\ ~doResume
    /\ ~resuming
    /\ builder[t] = "none"
    /\ builder' = [builder EXCEPT ![t] = "clear"]
    /\ ist' = "none"
    /\ UNCHANGED <<capable, flagVars, running, savedCmd, irqVars, closing, pipes, cycles,
                   missed, frameVars>>
-----------------------------------------------------------------------------
(* CeResumeThread.                                                          *)

Goes(t, from, to) == /\ builder[t] = from
                     /\ builder' = [builder EXCEPT ![t] = to]

ClearPowerUp(t) ==
    /\ Goes(t, "clear", "set")
    /\ powerUp' = FALSE
    /\ UNCHANGED <<capable, doResume, resuming, running, savedCmd, irqVars, closing, pipes, ist,
                   cycles, missed, frameVars>>

SetResuming(t) ==
    /\ Goes(t, "set", "stop")
    /\ resuming' = TRUE
    /\ UNCHANGED <<capable, doResume, powerUp, running, savedCmd, irqVars, closing, pipes, ist,
                   cycles, missed, frameVars>>

(* DeviceDeInitialize: stop the controller, and delete the root hub and the
   pipes; end the interrupt thread and give up the interrupt.               *)
StopHostController(t) ==
    /\ Goes(t, "stop", "detach")
    /\ running' = FALSE
    /\ UNCHANGED <<capable, flagVars, savedCmd, irqVars, closing, pipes, ist, cycles, missed,
                   frameVars>>

DetachRootHub(t) ==
    /\ Goes(t, "detach", "close")
    /\ pipes' = FALSE
    /\ UNCHANGED <<capable, flagVars, running, savedCmd, irqVars, closing, ist, cycles, missed,
                   frameVars>>

CloseInterruptThread(t) ==
    /\ Goes(t, "close", "join")
    /\ closing' = TRUE
    /\ event' = registered
    /\ UNCHANGED <<capable, flagVars, running, savedCmd, registered, masked, pipes, ist, cycles,
                   missed, frameVars>>

DeInitialize(t) ==
    /\ Goes(t, "join", "init")
    /\ ist = "none"
    /\ registered' = FALSE /\ event' = FALSE
    /\ closing' = FALSE
    /\ high' = 0 /\ lowBit' = 0 /\ lowIndex' = 0
    /\ since' = 0 /\ unit' = 0 /\ index' = 0
    /\ UNCHANGED <<capable, flagVars, running, savedCmd, masked, pipes, ist, cycles, missed>>

(* DeviceInitialize: CHW::Initialize may fail before or after it has got the
   interrupt, without a thread.                                             *)
InitializeFails(t) ==
    /\ Goes(t, "init", "stop")
    /\ registered' \in BOOLEAN
    /\ event' = FALSE /\ masked' = FALSE
    /\ UNCHANGED <<capable, flagVars, running, savedCmd, closing, pipes, ist, cycles, missed,
                   frameVars>>

(* Otherwise FRNUM is zero and the interrupt thread runs; CUHCIFrame::Initialize
   and the root hub may still fail.                                         *)
Initialize(t) ==
    /\ Goes(t, "init", "build")
    /\ registered' = TRUE /\ event' = FALSE /\ masked' = FALSE
    /\ ist' = "wait"
    /\ UNCHANGED <<capable, flagVars, running, savedCmd, closing, pipes, cycles, missed,
                   frameVars>>

(* A defect: a failure part of the way leaves what there is in operation.   *)
BuildFailsOpen(t) ==
    /\ Goes(t, "build", "done")
    /\ running' = TRUE
    /\ UNCHANGED <<capable, flagVars, savedCmd, irqVars, closing, pipes, ist, cycles, missed,
                   frameVars>>

BuildFails(t) ==
    /\ Goes(t, "build", "stop")
    /\ UNCHANGED <<capable, flagVars, running, savedCmd, irqVars, closing, pipes, ist, cycles,
                   missed, frameVars>>

Build(t) ==
    /\ Goes(t, "build", "start")
    /\ pipes' = TRUE
    /\ UNCHANGED <<capable, flagVars, running, savedCmd, irqVars, closing, ist, cycles, missed,
                   frameVars>>

EnterOperationalState(t) ==
    /\ Goes(t, "start", "done")
    /\ running' = TRUE
    /\ UNCHANGED <<capable, flagVars, savedCmd, irqVars, closing, pipes, ist, cycles, missed,
                   frameVars>>

ClearResuming(t) ==
    /\ Goes(t, "done", "last")
    /\ resuming' = FALSE
    /\ UNCHANGED <<capable, doResume, powerUp, running, savedCmd, irqVars, closing, pipes, ist,
                   cycles, missed, frameVars>>

(* A power event during all this: PowerMgmtCallback(TRUE) is called.        *)
LookAgain(t) ==
    /\ Goes(t, "last", IF powerUp THEN "callback" ELSE "none")
    /\ UNCHANGED <<capable, flagVars, running, savedCmd, irqVars, closing, pipes, ist, cycles,
                   missed, frameVars>>

CallBack(t) ==
    /\ Goes(t, "callback", "none")
    /\ doResume' = capable
    /\ running' = FALSE
    /\ UNCHANGED <<capable, powerUp, resuming, savedCmd, irqVars, closing, pipes, ist, cycles,
                   missed, frameVars>>
-----------------------------------------------------------------------------
InterruptThread == \/ IstWake \/ IstSignal \/ IstResume \/ IstResumed \/ IstEarly
                   \/ \E t \in Builders : IstRebuild(t)

ResumeThread(t) ==
    \/ ClearPowerUp(t) \/ SetResuming(t) \/ StopHostController(t) \/ DetachRootHub(t)
    \/ CloseInterruptThread(t) \/ DeInitialize(t) \/ Initialize(t) \/ Build(t)
    \/ EnterOperationalState(t) \/ ClearResuming(t) \/ LookAgain(t) \/ CallBack(t)

Next == \/ Frame \/ GetFrameNumber \/ PowerCycle \/ Interrupt
        \/ InterruptThread
        \/ \E t \in Builders : ResumeThread(t) \/ InitializeFails(t) \/ BuildFails(t)

(* Threads run; a rebuilding that is tried again and again succeeds.        *)
Fairness == /\ WF_vars(InterruptThread)
            /\ \A t \in Builders : /\ WF_vars(ResumeThread(t))
                                 /\ SF_vars(Initialize(t)) /\ SF_vars(Build(t))

Spec     == Init /\ [][Next]_vars
FairSpec == Spec /\ Fairness
-----------------------------------------------------------------------------
IstStates == {"none", "wait", "check", "sleep"}
BuilderStates == {"none", "clear", "set", "stop", "detach", "close", "join", "init", "build",
                  "start", "done", "last", "callback"}
Rebuilding == {t \in Builders : builder[t] \notin {"none", "last", "callback"}}

TypeOK == /\ capable \in BOOLEAN /\ doResume \in BOOLEAN /\ powerUp \in BOOLEAN
          /\ resuming \in BOOLEAN /\ running \in BOOLEAN /\ savedCmd \in BOOLEAN
          /\ registered \in BOOLEAN /\ event \in BOOLEAN /\ masked \in BOOLEAN
          /\ closing \in BOOLEAN /\ pipes \in BOOLEAN /\ missed \in BOOLEAN
          /\ ist \in IstStates
          /\ builder \in [Builders -> BuilderStates]
          /\ cycles \in 0..MaxCycles
          /\ unit \in 0..(Wrap - 1) /\ index \in 0..(Half - 1)
          /\ since \in 0..Half
          /\ high \in 0..(Wrap - 1) /\ lowBit \in {0, 1} /\ lowIndex \in 0..(Half - 1)

(* The frame number GetFrameNumber would return now is the controller's frame,
   past the wrap of FRNUM and of the 32 bit counter: no update of the two
   parts at different times loses or repeats half a range.                   *)
FrameNumberExact ==
    LET h == Updated(high)
    IN  (IF h % 2 # unit % 2 THEN Plus(h, 1) ELSE h) = unit

(* At most one thread rebuilds the driver, however power events, interrupts
   and the restarted interrupt thread interleave (the assertion chw.cpp:336). *)
SingleRebuild ==
    /\ Cardinality(Rebuilding) <= 1
    /\ \A t \in Builders : builder[t] = "clear" => ~resuming

(* The interrupt thread never signals the done thread of a CUHCIFrame that is
   not there: "they cannot be accessed before being reconstructed"
   (chw.cpp:325-330).                                                        *)
SignalsOnlyLivePipes == ist = "check" /\ ~powerUp => pipes

(* When the threads have come to rest after a power cycle the controller runs
   and its interrupt gets through, unless power was lost once more meanwhile. *)
RestartedOrMissed ==
    ist = "wait" /\ ~event /\ ~missed /\ (\A t \in Builders : builder[t] = "none") =>
        running /\ ~masked

(* A controller stopped by a power cycle runs again in the end, unless power
   was lost once more while the driver was being rebuilt.                    *)
PowerUpRestarts == (powerUp /\ ~running) ~> (running \/ missed)

(* "if a power event occurred between the two flag assignments above then the
   IST will reinitiate this sequence" (chw.cpp:358-360).                     *)
ResignalledRestarts == (powerUp /\ ~running) ~> running
=============================================================================
