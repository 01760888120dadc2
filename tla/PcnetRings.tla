------------------------------ MODULE PcnetRings ------------------------------
(****************************************************************************)
(* The descriptor rings of the PCnet miniport (send.c, interrup.c, and      *)
(* LanceInit and LanceReset of LANCE.C): packets go to the card through the *)
(* transmit ring or wait in the queue of deferred sends, frames come back   *)
(* through the receive ring and are indicated to the protocols in batches.  *)
(*                                                                          *)
(* NDIS lets one thread at a time into the miniport, and others in while    *)
(* that one is in a call up to a protocol; the card acts at any time.  So a *)
(* step ends where the driver calls up, at every turn of a loop over a ring,*)
(* and between the look at a ring and the clearing of an interrupt.         *)
(*                                                                          *)
(* RestartCard, StopCard and SendPackets are LanceInit, LanceStopChip and   *)
(* LanceSendPackets: those names are taken in PcnetAdapter, which proofs    *)
(* extend together with this module.                                        *)
(****************************************************************************)
EXTENDS Integers, Sequences

CONSTANTS
    NT,          \* TRANSMIT_BUFFERS
    NR,          \* RECEIVE_BUFFERS
    Watermark,   \* RX_INT_WATERMARK: packets indicated at once, at most
    MaxPackets,  \* bound: packets NDIS sends
    MaxFrames,   \* bound: frames that arrive
    MaxBad,      \* bound: those of them that arrive with an error
    MaxResets,   \* bound: calls of LanceReset
    MaxStops     \* bound: times the card stops by itself

ASSUME RingsAssumption ==
    /\ {NT, NR, Watermark} \subseteq Nat \ {0}
    /\ {MaxPackets, MaxFrames, MaxBad, MaxResets, MaxStops} \subseteq Nat
    /\ Watermark < NR

VARIABLES
    homerun,    \* the PHY is HomeRun: packets are queued for a full ring
    nic,        \* the rings with the indices of both sides, and CSR0
    txQueue,    \* FirstTxQueue .. LastTxQueue
    status,     \* of each packet: none, pending, done (taken or completed), unset
    refused,    \* the packets returned with NDIS_STATUS_RESOURCES, which NDIS keeps
    ready,      \* NdisMSendResourcesAvailable has been called since
    given,      \* how many packets NDIS has sent
    wire,       \* the last packet the card has transmitted
    flags,      \* OpFlags: IN_DPC, RESET_CALLED, DEFERRED
    timer,      \* DeferredProcessTimer is set
    def,        \* LanceDeferredSend: out, at its loop, up (in NdisMSendComplete)
    draining,   \* LanceReset is in NdisMSendComplete
    handler,    \* where LanceHandleInterrupt is
    csr,        \* its Csr0Value
    pktArray,   \* PktArray: the descriptors of the frames to indicate
    cur,        \* CurrentDescriptorIndex, and the frame seen in that descriptor
    lastIndicated, \* the last frame indicated
    overtaken,  \* the receive loop has lost its place (see Overtakes, ComesRound)
    arrived,    \* how many frames have come,
    bad,        \* and how many of them with an error
    resets,
    stops

queueVars == <<txQueue, status, refused, ready, given, timer, def, draining>>
interruptVars == <<handler, csr, pktArray, cur, lastIndicated>>
lineVars == <<wire, arrived, bad, stops>>
ringsVars == <<homerun, nic, queueVars, flags, interruptVars, overtaken, lineVars, resets>>

Packets == 1 .. MaxPackets

-----------------------------------------------------------------------------
(* The rings.  tx[i] is the packet of a descriptor the card owns, or 0; rx[i] *)
(* is 0 while the card owns the descriptor, else its frame, negative if bad.  *)

NextTx(i) == (i + 1) % NT
NextRx(i) == (i + 1) % NR

(* A defect: a restart leaves interrupts off.                                 *)
StartMuted == FALSE

(* LanceStartChip: interrupts are left off if an interrupt is being handled.  *)
StartWithInterrupts == "IN_DPC" \notin flags

(* LanceSetupRegistersAndInit: every descriptor as new, every index at 0.     *)
LanceSetupRegistersAndInit(n) ==
    [n EXCEPT !.tx = [i \in 0 .. NT - 1 |-> 0], !.txNext = 0, !.txCard = 0,
              !.rx = [i \in 0 .. NR - 1 |-> 0], !.rxNext = 0, !.rxCard = 0]

(* The card stops with its interrupts off, and nothing is pending.            *)
StopCard(n) == [n EXCEPT !.running = FALSE, !.iena = FALSE, !.ints = {}]

(* The card runs if it reports IDON in time.                                  *)
LanceStartChip(n, ok) == [n EXCEPT !.running = ok, !.iena = ok /\ StartWithInterrupts]

RestartCard(n, ok) == LanceStartChip(LanceSetupRegistersAndInit(StopCard(n)), ok)

(* A restart while the receive loop is up in an indication.                   *)
Overtakes == overtaken' = (overtaken \/ handler \in {"up", "last"})

(* The receive loop has come round the ring to a frame that is in PktArray: it *)
(* is still the driver's, and is taken for one that has just come.             *)
ComesRound ==
    overtaken' = (overtaken \/ \E k \in DOMAIN pktArray : pktArray[k] = nic.rxNext)

(* How many of k packets the ring takes: LanceSendPackets stops at the first   *)
(* descriptor the card owns.                                                   *)
Room(n, k) ==
    CHOOSE j \in 0 .. k :
        /\ \A i \in 0 .. j - 1 : i < NT /\ n.tx[(n.txNext + i) % NT] = 0
        /\ j < k => j >= NT \/ n.tx[(n.txNext + j) % NT] # 0

(* The packets are copied into the next buffers, and the OWN bits set.         *)
FillDescriptors(n, ps) ==
    [n EXCEPT
        !.tx = [i \in 0 .. NT - 1 |->
                   IF (i - n.txNext) % NT < Len(ps) THEN ps[((i - n.txNext) % NT) + 1] ELSE @[i]],
        !.txNext = (@ + Len(ps)) % NT]

RingFull(n) == n.tx[n.txNext] # 0

(* A defect: the last packet of the array is not given back.                   *)
KeepsLast(n) ==
    [n EXCEPT !.rx = [i \in 0 .. NR - 1 |->
                         IF \E k \in 1 .. Len(pktArray) - 1 : pktArray[k] = i THEN 0 ELSE @[i]]]

(* RcvComplete: the descriptors of the indicated packets go back to the card.  *)
RcvComplete(n) ==
    [n EXCEPT !.rx = [i \in 0 .. NR - 1 |->
                         IF \E k \in DOMAIN pktArray : pktArray[k] = i THEN 0 ELSE @[i]]]

Marked(s, ps, v) ==
    [p \in Packets |-> IF \E i \in DOMAIN ps : ps[i] = p THEN v ELSE s[p]]

(* No thread runs inside the miniport: those in it wait in a call to NDIS.     *)
Free == def # "loop" /\ handler \notin {"rx", "clear", "tx", "txclear", "end"}

(* The values of the local variables while LanceHandleInterrupt does not run.  *)
NoCsr == [ints |-> {}, running |-> TRUE]
NoCur == [at |-> 0, frame |-> 0]

RingsInit ==
    /\ homerun \in BOOLEAN
    /\ nic = [tx |-> [i \in 0 .. NT - 1 |-> 0], txNext |-> 0, txCard |-> 0,
              rx |-> [i \in 0 .. NR - 1 |-> 0], rxNext |-> 0, rxCard |-> 0,
              ints |-> {}, running |-> TRUE, iena |-> TRUE]
    /\ txQueue = <<>> /\ refused = <<>> /\ pktArray = <<>>
    /\ status = [p \in Packets |-> "none"]
    /\ ready = FALSE /\ timer = FALSE /\ draining = FALSE /\ overtaken = FALSE
    /\ def = "out" /\ handler = "idle"
    /\ csr = NoCsr /\ cur = NoCur
    /\ flags = {}
    /\ given = 0 /\ wire = 0 /\ lastIndicated = 0 /\ arrived = 0 /\ bad = 0
    /\ resets = 0 /\ stops = 0

-----------------------------------------------------------------------------
(* Sending.                                                                    *)

(* LanceDeferredSend is entered unless somebody is in it or a reset is called. *)
MayDefer == flags \cap {"DEFERRED", "RESET_CALLED"} = {}

EnterDeferred ==
    IF MayDefer
    THEN def' = "loop" /\ flags' = flags \cup {"DEFERRED"}
    ELSE UNCHANGED <<def, flags>>

(* A defect: packets sent later overtake those in the queue.                   *)
QueuesNothing == FALSE

(* With packets queued, all that come are put behind them.                     *)
QueuesAll == homerun /\ txQueue # <<>>

(* LanceSendPackets.  A card that has stopped is started again (HomeRun).  The *)
(* ring takes what it can; the rest is queued and the timer set (HomeRun), or  *)
(* returned for want of resources.  While a reset is called the packets are    *)
(* returned with the status they came with.                                    *)
SendPackets(ps, ok) ==
    LET restart == homerun /\ ~nic.running
        n == IF restart THEN RestartCard(nic, ok) ELSE nic
        k == IF QueuesAll THEN 0 ELSE Room(n, Len(ps))
        rest == SubSeq(ps, k + 1, Len(ps))
        blocked == ~QueuesAll /\ "RESET_CALLED" \in flags
    IN  /\ ok \/ restart
        /\ IF restart THEN Overtakes ELSE UNCHANGED overtaken
        /\ IF blocked
           THEN /\ nic' = n
                /\ status' = Marked(status, ps, "unset")
                /\ refused' = <<>>
                /\ UNCHANGED <<txQueue, timer, flags, def>>
           ELSE /\ nic' = FillDescriptors(n, SubSeq(ps, 1, k))
                /\ status' = Marked(Marked(status, ps, "done"), rest,
                                    IF homerun THEN "pending" ELSE "none")
                /\ txQueue' = IF homerun THEN txQueue \o rest ELSE txQueue
                /\ refused' = IF homerun THEN <<>> ELSE rest
                /\ timer' = (timer \/ (homerun /\ ~QueuesAll /\ rest # <<>>))
                /\ IF homerun THEN EnterDeferred ELSE UNCHANGED <<def, flags>>

(* NDIS sends the next packets, one or two at once, or those it got back.      *)
Send ==
    /\ Free
    /\ \E ok \in BOOLEAN :
         \/ /\ refused = <<>>
            /\ \E k \in 1 .. 2 :
                 /\ given + k <= MaxPackets
                 /\ given' = given + k
                 /\ SendPackets([i \in 1 .. k |-> given + i], ok)
            /\ ready' = FALSE
         \/ /\ refused # <<>> /\ ready
            /\ ready' = FALSE
            /\ SendPackets(refused, ok)
            /\ UNCHANGED given
    /\ UNCHANGED <<homerun, draining, interruptVars, lineVars, resets>>

(* A defect: the loop gives up at a full ring and leaves the timer alone.      *)
TimerUnset == timer

(* NdisMSetTimer, if the loop ends at a full ring.                             *)
TimerAfterLoop ==
    timer \/ (txQueue # <<>> /\ "RESET_CALLED" \notin flags)

(* LanceDeferredSend, one turn of its loop: SendQueuedPacket puts the head of  *)
(* the queue in the ring and completes it; or the loop ends.                   *)
DeferredTurn ==
    /\ def = "loop"
    /\ IF txQueue # <<>> /\ "RESET_CALLED" \notin flags /\ ~RingFull(nic)
       THEN /\ nic' = FillDescriptors(nic, <<Head(txQueue)>>)
            /\ txQueue' = Tail(txQueue)
            /\ status' = [status EXCEPT ![Head(txQueue)] = "done"]
            /\ def' = "up"
            /\ UNCHANGED <<timer, flags, handler>>
       ELSE /\ timer' = TimerAfterLoop
            /\ flags' = flags \ {"DEFERRED"}
            /\ def' = "out"
            /\ handler' = IF handler = "deferred" THEN "txclear" ELSE handler
            /\ UNCHANGED <<nic, txQueue, status>>
    /\ UNCHANGED <<homerun, refused, ready, given, draining, csr, pktArray, cur, lastIndicated,
                   overtaken, lineVars, resets>>

(* NdisMSendComplete returns.                                                  *)
DeferredReturn ==
    /\ def = "up" /\ Free
    /\ def' = "loop"
    /\ UNCHANGED <<homerun, nic, txQueue, status, refused, ready, given, timer, draining,
                   flags, interruptVars, overtaken, lineVars, resets>>

(* LanceDeferredProcess.                                                       *)
TimerFires ==
    /\ timer /\ Free
    /\ timer' = FALSE
    /\ EnterDeferred
    /\ UNCHANGED <<homerun, nic, txQueue, status, refused, ready, given, draining,
                   interruptVars, overtaken, lineVars, resets>>

-----------------------------------------------------------------------------
(* LanceReset.                                                                 *)

(* A defect: the packet leaves the queue after its completion.                 *)
CompletedFirst(q) == q

Dequeued(q) == Tail(q)

(* The loop that completes the queue, up to its next call or to the end.       *)
CompleteQueue ==
    IF txQueue # <<>>
    THEN /\ status' = [status EXCEPT ![Head(txQueue)] = "done"]
         /\ txQueue' = Dequeued(txQueue)
         /\ draining' = TRUE
         /\ flags' = flags \cup {"RESET_CALLED"}
         /\ UNCHANGED ready
    ELSE /\ draining' = FALSE
         /\ flags' = flags \ {"RESET_CALLED"}
         /\ ready' = TRUE
         /\ UNCHANGED <<status, txQueue>>

Reset ==
    /\ Free /\ "RESET_CALLED" \notin flags /\ resets < MaxResets
    /\ resets' = resets + 1
    /\ \E ok \in BOOLEAN : nic' = RestartCard(nic, ok)
    /\ Overtakes
    /\ CompleteQueue
    /\ UNCHANGED <<homerun, refused, given, timer, def, interruptVars, lineVars>>

ResetReturn ==
    /\ draining /\ Free
    /\ CompleteQueue
    /\ UNCHANGED <<homerun, nic, refused, given, timer, def, interruptVars, overtaken,
                   lineVars, resets>>

-----------------------------------------------------------------------------
(* Interrupts.                                                                 *)

(* LanceISR: its interrupts are disabled, and LanceHandleInterrupt asked for.  *)
Isr ==
    /\ handler = "idle" /\ nic.iena /\ nic.ints # {}
    /\ nic' = [nic EXCEPT !.iena = FALSE]
    /\ flags' = flags \cup {"IN_DPC"}
    /\ handler' = "queued"
    /\ UNCHANGED <<homerun, queueVars, csr, pktArray, cur, lastIndicated, overtaken, lineVars, resets>>

AfterReceive(ints) == IF "TINT" \in ints THEN "tx" ELSE "end"

HandleInterrupt ==
    /\ handler = "queued" /\ Free
    /\ csr' = [ints |-> nic.ints, running |-> nic.running]
    /\ handler' = IF nic.ints \cap {"RINT", "MISS"} # {} THEN "rx" ELSE AfterReceive(nic.ints)
    /\ UNCHANGED <<homerun, nic, queueVars, flags, pktArray, cur, lastIndicated, overtaken, lineVars,
                   resets>>

(* A frame taken from descriptor i: one with an error goes back to the card at *)
(* once, a good one waits to be indicated.  The index that advances is the     *)
(* adapter's, the descriptor is the one the loop looked at.                    *)
TakeFrame(n, h, i, f) ==
    /\ nic' = [n EXCEPT !.rx[i] = IF f < 0 THEN 0 ELSE @,
                        !.rxNext = NextRx(@)]
    /\ pktArray' = IF f < 0 THEN h ELSE Append(h, i)

(* NdisMIndicateReceivePacket with the frames of PktArray.                     *)
Indicate(where) ==
    /\ lastIndicated' = nic.rx[pktArray[Len(pktArray)]]
    /\ handler' = where

(* One turn of the receive loop.                                               *)
ReceiveTurn ==
    /\ handler = "rx"
    /\ LET i == nic.rxNext
           f == nic.rx[i]
       IN  \/ /\ f = 0
              /\ handler' = "clear"
              /\ UNCHANGED <<nic, pktArray, cur, lastIndicated, overtaken>>
           \/ /\ f # 0 /\ Len(pktArray) >= Watermark
              /\ ComesRound
              /\ cur' = [at |-> i, frame |-> f]
              /\ Indicate("up")
              /\ UNCHANGED <<nic, pktArray>>
           \/ /\ f # 0 /\ Len(pktArray) < Watermark
              /\ ComesRound
              /\ TakeFrame(nic, pktArray, i, f)
              /\ UNCHANGED <<handler, cur, lastIndicated>>
    /\ UNCHANGED <<homerun, queueVars, flags, csr, lineVars, resets>>

(* Back from the indication at the watermark: the turn goes on.                *)
IndicateReturn ==
    /\ handler = "up" /\ Free
    /\ handler' = "rx"
    /\ TakeFrame(RcvComplete(nic), <<>>, cur.at, cur.frame)
    /\ cur' = NoCur
    /\ UNCHANGED <<homerun, queueVars, flags, csr, lastIndicated, overtaken, lineVars, resets>>

(* The interrupt is cleared after the card was seen to own the descriptor, and *)
(* the descriptor is not read again: what is left of the array is indicated.   *)
ClearReceive ==
    /\ handler = "clear"
    /\ nic' = [nic EXCEPT !.ints = @ \ {"RINT", "MISS"}]
    /\ IF pktArray # <<>>
       THEN Indicate("last")
       ELSE handler' = AfterReceive(csr.ints) /\ UNCHANGED lastIndicated
    /\ UNCHANGED <<homerun, queueVars, flags, csr, pktArray, cur, overtaken, lineVars, resets>>

LastReturn ==
    /\ handler = "last" /\ Free
    /\ nic' = RcvComplete(nic)
    /\ pktArray' = <<>>
    /\ handler' = AfterReceive(csr.ints)
    /\ UNCHANGED <<homerun, queueVars, flags, csr, cur, lastIndicated, overtaken, lineVars, resets>>

(* XmitComplete: NDIS may send again, or the queue is served (HomeRun).        *)
XmitComplete ==
    /\ handler = "tx"
    /\ IF homerun
       THEN /\ EnterDeferred
            /\ handler' = IF MayDefer THEN "deferred" ELSE "txclear"
            /\ UNCHANGED ready
       ELSE /\ ready' = TRUE
            /\ handler' = "txclear"
            /\ UNCHANGED <<def, flags>>
    /\ UNCHANGED <<homerun, nic, txQueue, status, refused, given, timer, draining, csr, pktArray,
                   cur, lastIndicated, overtaken, lineVars, resets>>

(* NDIS calls LanceEnableInterrupt when LanceHandleInterrupt returns.          *)
LanceEnableInterrupt(n) == [n EXCEPT !.iena = TRUE]

(* The end: the transmit interrupt is cleared if it was handled, and a card    *)
(* that had stopped is started again (HomeRun).                                *)
InterruptHandled ==
    /\ handler \in {"txclear", "end"}
    /\ LET n == IF handler = "txclear" THEN [nic EXCEPT !.ints = @ \ {"TINT"}] ELSE nic
           restart == homerun /\ ~csr.running
       IN  \E ok \in BOOLEAN :
             /\ ok \/ restart
             /\ nic' = LanceEnableInterrupt(IF restart THEN RestartCard(n, ok) ELSE n)
    /\ flags' = flags \ {"IN_DPC"}
    /\ handler' = "idle"
    /\ csr' = NoCsr
    /\ UNCHANGED <<homerun, queueVars, pktArray, cur, lastIndicated, overtaken, lineVars, resets>>

-----------------------------------------------------------------------------
(* The card.                                                                   *)

CardTransmits ==
    /\ nic.running /\ nic.tx[nic.txCard] # 0
    /\ wire' = nic.tx[nic.txCard]
    /\ nic' = [nic EXCEPT !.tx[nic.txCard] = 0, !.txCard = NextTx(@), !.ints = @ \cup {"TINT"}]
    /\ UNCHANGED <<homerun, queueVars, flags, interruptVars, overtaken, arrived, bad, stops, resets>>

(* A frame comes, good or bad; with no descriptor left to the card it is lost. *)
CardReceives ==
    /\ nic.running /\ arrived < MaxFrames
    /\ arrived' = arrived + 1
    /\ IF nic.rx[nic.rxCard] = 0
       THEN \E f \in {arrived + 1, -(arrived + 1)} :
              /\ bad' = bad + (IF f < 0 THEN 1 ELSE 0)
              /\ bad' <= MaxBad
              /\ nic' = [nic EXCEPT !.rx[nic.rxCard] = f, !.rxCard = NextRx(@),
                                    !.ints = @ \cup {"RINT"}]
       ELSE /\ nic' = [nic EXCEPT !.ints = @ \cup {"MISS"}]
            /\ UNCHANGED bad
    /\ UNCHANGED <<homerun, queueVars, flags, interruptVars, overtaken, wire, stops, resets>>

(* The card stops by itself, as the driver expects of it on a HomeRun network. *)
CardStops ==
    /\ homerun /\ nic.running /\ stops < MaxStops
    /\ stops' = stops + 1
    /\ nic' = [nic EXCEPT !.running = FALSE]
    /\ UNCHANGED <<homerun, queueVars, flags, interruptVars, overtaken, wire, arrived, bad, resets>>

-----------------------------------------------------------------------------
SendSteps == Send \/ DeferredTurn \/ DeferredReturn \/ TimerFires
ResetSteps == Reset \/ ResetReturn
InterruptSteps ==
    \/ Isr \/ HandleInterrupt
    \/ ReceiveTurn \/ IndicateReturn \/ ClearReceive \/ LastReturn
    \/ XmitComplete \/ InterruptHandled
CardSteps == CardTransmits \/ CardReceives \/ CardStops

RingsNext == SendSteps \/ ResetSteps \/ InterruptSteps \/ CardSteps

(* Threads run on, calls to protocols return, timers expire and the card sends *)
(* what it owns; nobody has to send or reset, and no frame has to come.        *)
Fairness ==
    /\ WF_ringsVars(DeferredTurn) /\ WF_ringsVars(DeferredReturn)
    /\ WF_ringsVars(TimerFires) /\ WF_ringsVars(HandleInterrupt) /\ WF_ringsVars(ResetReturn)
    /\ WF_ringsVars(Isr)
    /\ WF_ringsVars(ReceiveTurn) /\ WF_ringsVars(IndicateReturn)
    /\ WF_ringsVars(ClearReceive) /\ WF_ringsVars(LastReturn)
    /\ WF_ringsVars(XmitComplete) /\ WF_ringsVars(InterruptHandled)
    /\ WF_ringsVars(CardTransmits)

RingsSpec == RingsInit /\ [][RingsNext]_ringsVars /\ Fairness

-----------------------------------------------------------------------------
(* Properties.                                                                 *)

Increasing(s) == \A i, j \in DOMAIN s : i < j => s[i] < s[j]

(* The packets the card owns, in the order it comes to them.                   *)
RingPackets ==
    LET at(j) == nic.tx[(nic.txCard + j) % NT]
        k == CHOOSE j \in 0 .. NT :
               (\A i \in 0 .. j - 1 : at(i) # 0) /\ (j < NT => at(j) = 0)
    IN  [j \in 1 .. k |-> at(j - 1)]

(* Packets leave in the order NDIS sent them, whichever way they took, and the *)
(* card's descriptors are those from its place in the ring to the driver's:    *)
(* the two ways of LanceSendPackets, and the indices after every restart.      *)
SentInOrder ==
    /\ Increasing(<<wire>> \o RingPackets \o (IF homerun THEN txQueue ELSE refused))
    /\ (nic.txCard + Len(RingPackets)) % NT = nic.txNext
    /\ \A i \in 0 .. NT - 1 : nic.tx[i] # 0 => \E k \in DOMAIN RingPackets : RingPackets[k] = nic.tx[i]

(* A packet is pending exactly while it waits in the queue, once: a completion *)
(* is never repeated or forgotten, by LanceDeferredSend or by LanceReset while *)
(* the protocol sends more from within its completion handler.                 *)
PendingInQueue ==
    /\ \A p \in Packets : status[p] = "pending" <=> \E i \in DOMAIN txQueue : txQueue[i] = p
    /\ Increasing(txQueue)

(* Frames are indicated once and in the order they came: those in PktArray are *)
(* newer than the last indicated.  Two things break this.  A restart under an  *)
(* indication, the loop going on with the index of the ring as it was; and so  *)
(* many frames with errors, taken in one go, that the loop comes round the     *)
(* ring to a frame in PktArray and takes it again.                             *)
IndicatedInOrder ==
    ~overtaken /\ handler \in {"rx", "clear"} =>
        Increasing(<<lastIndicated>> \o [k \in DOMAIN pktArray |-> nic.rx[pktArray[k]]])

(* The comment on the receive loop (interrup.c:443), "One loop traversal per   *)
(* received packet": no descriptor is in PktArray twice.                       *)
OneTraversalPerPacket ==
    \A j, k \in DOMAIN pktArray : pktArray[j] = pktArray[k] => j = k

(* A card that runs with nobody handling its interrupt has interrupts enabled, *)
(* whoever started it and wherever it was restarted.                           *)
NotDeaf == nic.running /\ handler = "idle" => nic.iena

(* Some packet waits for the driver: to be completed, or to be asked for again. *)
Waiting == txQueue # <<>> \/ (refused # <<>> /\ ~ready)

(* As long as the card runs, the packets in the queue are completed in the end, *)
(* and NDIS is told in the end that it can send what it was refused: the timer  *)
(* and the transmit interrupt between them never leave the last packet behind.  *)
EverySendAnswered == Waiting ~> (~Waiting \/ ~nic.running)

(* What the comment "Check status after clearing int" says of the receive      *)
(* loop: with nobody handling interrupts, a frame that waits has its interrupt.*)
FrameNotForgotten ==
    ~overtaken /\ handler = "idle" /\ nic.running /\ nic.rx[nic.rxNext] # 0 => "RINT" \in nic.ints
===============================================================================
