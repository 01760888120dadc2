---------------------------- MODULE SerialDownload ----------------------------
(****************************************************************************)
(* The serial boot loader (BOOTLOADER/SBOOT/main.c) and the host it loads   *)
(* an image from: boot requests, blocks with numbers, acknowledgements and  *)
(* the order to jump, over a line that loses, damages and cuts packets.     *)
(*                                                                          *)
(* The loader is one thread without interrupts.  A step takes a packet from *)
(* the line and does all that follows; without a time-out a packet that was *)
(* cut short swallows the beginning of the next ones, whose rest matches no *)
(* header.  The host is not part of the repository: it is what the loader   *)
(* expects, one block at a time, repeated when no answer comes.             *)
(****************************************************************************)
EXTENDS Integers, Sequences, SequencesExt

CONSTANTS
    Blocks,       \* the image as the host cuts it up: block n is Blocks[n + 1]
    MaxRead,      \* bound: the cbData of a call of OEMReadData
    MaxInFlight,  \* bound: packets on the line, both ways, at a time-out
    MaxFaults,    \* bound: faults of the line
    LastAckLost,  \* whether the line may lose the acknowledgement of the last block
    LateErrors    \* whether bytes of packets that WaitForJump reads may come with an error

Byte == 0 .. 255

ASSUME DownloadAssumption ==
    /\ Blocks \in Seq(Seq(Byte))
    /\ Len(Blocks) > 1
    /\ \A n \in DOMAIN Blocks : Len(Blocks[n]) > 0
    /\ {MaxRead, MaxInFlight, MaxFaults} \subseteq Nat
    /\ MaxRead > 0

VARIABLES
    pc,           \* the loader: request, bootAck, image, data, waitJump, launched
    blockNumber,  \* dwBlockNumber
    dataBuffer,   \* the cbDataBuffer bytes of dataBuffer not yet used
    wanted,       \* cbData, what the call of OEMReadData has still to read
    memory,       \* the bytes given to BootloaderMain
    fits,         \* a jump request fits cbBuffer of WaitForJump
    host,         \* the host: idle, starting, sending, jumping, done
    block,        \* the number of the block it sends
    jump,         \* it wants the image already in memory to be run
    toLoader, toHost,   \* the line: packets on their way
    faults

loaderVars == <<pc, blockNumber, dataBuffer, wanted, memory, fits>>
hostVars == <<host, block, jump>>
vars == <<loaderVars, hostVars, toLoader, toHost, faults>>

Image == FlattenSeq(Blocks)
LastBlock == Len(Blocks) - 1

-----------------------------------------------------------------------------
(* Packets: their type and what the code looks at of their payload.           *)

Packet(type, num) == [type |-> type, num |-> num]

DLREQ == Packet("DLREQ", 0)                       \* SerialSendBootRequest
BootAck(fJumping) == Packet("DLACK", IF fJumping THEN 1 ELSE 0)
Block(n) == Packet("DLPKT", n)
BlockAck(n) == Packet("DLACK", n)                 \* SerialSendBlockAck
Jump == Packet("JUMP", 0)

Other == Packet("other", 0)   \* a checksum fails, or the type is not for the loader
Error == Packet("error", 0)   \* the port reports an error at a byte of the payload
Cut(n) == Packet("cut", n)    \* short by as much as the n packets behind it

(* RecvHeader and RecvPacket: the loader has read a packet with all it takes. *)
Readable == toLoader # <<>> /\ (Head(toLoader).type = "cut" => Len(toLoader) > 1)

(* What RecvPacket returns, if Other and Error stand for FALSE.               *)
RecvPacket == IF Head(toLoader).type = "cut" THEN Other ELSE Head(toLoader)

Unread ==
    LET p == Head(toLoader) IN
    IF p.type # "cut" THEN Tail(toLoader)
    ELSE (IF p.num > 1 THEN <<Cut(p.num - 1)>> ELSE <<>>) \o Tail(Tail(toLoader))

Room == Len(toLoader) + Len(toHost) < MaxInFlight

Init ==
    /\ pc = "request" /\ blockNumber = 0 /\ dataBuffer = <<>> /\ wanted = 0 /\ memory = <<>>
    /\ fits = TRUE
    /\ host = "idle" /\ block = 0 /\ jump \in BOOLEAN
    /\ toLoader = <<>> /\ toHost = <<>>
    /\ faults = 0

-----------------------------------------------------------------------------
(* The loader.                                                                *)

(* OEMPreDownload sends a boot request,                                       *)
SerialSendBootRequest ==
    /\ pc = "request"
    /\ toHost' = Append(toHost, DLREQ)
    /\ pc' = "bootAck"
    /\ UNCHANGED <<blockNumber, dataBuffer, wanted, memory, fits, hostVars, toLoader, faults>>

(* A defect: the type of the packet is not looked at.                         *)
AnyPacket(p) == p \notin {Other, Error}

BootAcked(p) == p.type = "DLACK"

(* waits for an answer, and starts the download, or the image it has.         *)
WaitForBootAck ==
    /\ pc = "bootAck" /\ Readable
    /\ toLoader' = Unread
    /\ LET p == RecvPacket IN
       IF BootAcked(p)
       THEN /\ toHost' = Append(toHost, BlockAck(0))
            /\ pc' = IF p.num # 0 THEN "waitJump" ELSE "image"
       ELSE pc' = "request" /\ UNCHANGED toHost
    /\ UNCHANGED <<blockNumber, dataBuffer, wanted, memory, fits, hostVars, faults>>

(* TIMEOUT_RECV passes without a byte.                                        *)
WaitForBootAckTimesOut ==
    /\ pc = "bootAck" /\ ~Readable
    /\ Room
    /\ toLoader' = <<>>
    /\ pc' = "request"
    /\ UNCHANGED <<blockNumber, dataBuffer, wanted, memory, fits, hostVars, toHost, faults>>

(* BootloaderMain asks for the next cbData bytes of the image.                *)
OEMReadData(cbData) ==
    /\ pc = "image"
    /\ Len(memory) + cbData <= Len(Image)
    /\ wanted' = cbData
    /\ pc' = "data"
    /\ UNCHANGED <<blockNumber, dataBuffer, memory, fits, hostVars, toLoader, toHost, faults>>

(* A defect: a block is taken for the expected one.                           *)
AnyBlock(p) == p.type = "DLPKT"

(* A defect: only a new block is acknowledged.                                *)
AckedOnce(p) == p.type = "DLPKT" /\ p.num = blockNumber

(* A packet is the block expected, and a block is acknowledged or             *)
(* acknowledged again, unless none has come yet.                              *)
Expected(p) == p.type = "DLPKT" /\ p.num = blockNumber
Acked(p) == p.type = "DLPKT" /\ blockNumber' > 0

(* OEMReadData waits for a block, without a time-out.                         *)
ReceiveBlock ==
    /\ pc = "data" /\ dataBuffer = <<>> /\ Readable
    /\ toLoader' = Unread
    /\ LET p == RecvPacket IN
       /\ IF Expected(p)
          THEN dataBuffer' = Blocks[p.num + 1] /\ blockNumber' = blockNumber + 1
          ELSE UNCHANGED <<dataBuffer, blockNumber>>
       /\ toHost' = IF Acked(p) THEN Append(toHost, BlockAck(blockNumber' - 1)) ELSE toHost
    /\ UNCHANGED <<pc, wanted, memory, fits, hostVars, faults>>

(* It copies what it can use, and returns when it has copied cbData bytes.    *)
CopyData ==
    /\ pc = "data" /\ dataBuffer # <<>>
    /\ LET n == IF Len(dataBuffer) > wanted THEN wanted ELSE Len(dataBuffer) IN
       /\ memory' = memory \o SubSeq(dataBuffer, 1, n)
       /\ dataBuffer' = SubSeq(dataBuffer, n + 1, Len(dataBuffer))
       /\ wanted' = wanted - n
    /\ pc' = IF wanted' = 0 THEN "image" ELSE "data"
    /\ UNCHANGED <<blockNumber, fits, hostVars, toLoader, toHost, faults>>

(* OEMLaunch, once BootloaderMain has read the whole image,                   *)
OEMLaunch ==
    /\ pc = "image" /\ Len(memory) = Len(Image)
    /\ pc' = "waitJump"
    /\ UNCHANGED <<blockNumber, dataBuffer, wanted, memory, fits, hostVars, toLoader, toHost, faults>>

(* waits for the order to jump, without a time-out, and obeys it.  cbBuffer   *)
(* is set once: OEMSerialRecvRaw leaves it at 0 after an error, and then no   *)
(* packet fits any more.                                                      *)
WaitForJump ==
    /\ pc = "waitJump" /\ Readable
    /\ toLoader' = Unread
    /\ fits' = (fits /\ RecvPacket # Error)
    /\ IF RecvPacket.type = "JUMP" /\ fits
       THEN toHost' = Append(toHost, BlockAck(0)) /\ pc' = "launched"
       ELSE UNCHANGED <<toHost, pc>>
    /\ UNCHANGED <<blockNumber, dataBuffer, wanted, memory, hostVars, faults>>

-----------------------------------------------------------------------------
(* The host.                                                                  *)

Sent == IF host = "jumping" THEN Jump ELSE Block(block)

(* A boot request is answered, whenever it comes.                             *)
HostBoots ==
    /\ toHost # <<>> /\ Head(toHost) = DLREQ
    /\ toHost' = Tail(toHost)
    /\ toLoader' = Append(toLoader, BootAck(jump))
    /\ host' = "starting" /\ block' = 0
    /\ UNCHANGED <<loaderVars, jump, faults>>

(* The host begins, with the image or with the order to jump.                 *)
Begun == host' = (IF jump THEN "jumping" ELSE "sending") /\ UNCHANGED block

(* The answer it waits for.                                                   *)
Answers(n) == IF host = "sending" THEN n = block ELSE host \in {"starting", "jumping"} /\ n = 0

(* What it does then.                                                         *)
GoesOn ==
    \/ host = "starting" /\ Begun
    \/ host = "sending" /\ block < LastBlock /\ block' = block + 1 /\ UNCHANGED host
    \/ host = "sending" /\ block = LastBlock /\ host' = "jumping" /\ UNCHANGED block
    \/ host = "jumping" /\ host' = "done" /\ UNCHANGED block

HostAcked ==
    /\ toHost # <<>> /\ Head(toHost).type = "DLACK"
    /\ toHost' = Tail(toHost)
    /\ IF Answers(Head(toHost).num)
       THEN GoesOn /\ toLoader' = IF host' = "done" THEN toLoader ELSE Append(toLoader, Sent')
       ELSE UNCHANGED <<host, block, toLoader>>
    /\ UNCHANGED <<loaderVars, jump, faults>>

(* No answer comes in time: the host repeats what it sent, or begins although *)
(* the first acknowledgement did not come, which the loader sends only once.  *)
(* As that one has the number of block 0, the host waits until the line is    *)
(* quiet before it repeats block 0; later it may be impatient.                *)
HostTimesOut ==
    /\ host \in {"starting", "sending", "jumping"}
    /\ block > 0 \/ (toHost = <<>> /\ ~Readable)
    /\ Room
    /\ IF host = "starting" THEN Begun ELSE UNCHANGED <<host, block>>
    /\ toLoader' = Append(toLoader, Sent')
    /\ UNCHANGED <<loaderVars, jump, toHost, faults>>

-----------------------------------------------------------------------------
(* The line.                                                                  *)

Fault == faults < MaxFaults /\ faults' = faults + 1 /\ UNCHANGED <<loaderVars, hostVars>>

LosesPacket ==
    /\ Fault
    /\ \E i \in DOMAIN toLoader : toLoader' = RemoveAt(toLoader, i)
    /\ UNCHANGED toHost

LosesAnswer ==
    /\ Fault
    /\ \E i \in DOMAIN toHost :
          /\ LastAckLost \/ toHost[i] # BlockAck(LastBlock)
          /\ toHost' = RemoveAt(toHost, i)
    /\ UNCHANGED toLoader

DamagesPacket ==
    /\ Fault
    /\ \E i \in DOMAIN toLoader, p \in {Other, Error, Cut(1), Cut(2)} :
          /\ toLoader[i].type \notin {"other", "error", "cut"}
          /\ p = Error =>
                LateErrors \/ (toLoader[i].type = "DLPKT" /\ toLoader[i].num < LastBlock)
          /\ toLoader' = [toLoader EXCEPT ![i] = p]
    /\ UNCHANGED toHost

-----------------------------------------------------------------------------
Next ==
    \/ SerialSendBootRequest \/ WaitForBootAck \/ WaitForBootAckTimesOut
    \/ \E cbData \in 1 .. MaxRead : OEMReadData(cbData)
    \/ ReceiveBlock \/ CopyData \/ OEMLaunch \/ WaitForJump
    \/ HostBoots \/ HostAcked \/ HostTimesOut
    \/ LosesPacket \/ LosesAnswer \/ DamagesPacket

Spec == Init /\ [][Next]_vars

(* The loader runs, with one way to go at a time but for the sizes it reads,  *)
(* the host answers and repeats, and faults of the line end.                  *)
FairSpec ==
    /\ Spec
    /\ WF_vars(SerialSendBootRequest) /\ WF_vars(WaitForBootAck)
    /\ WF_vars(WaitForBootAckTimesOut)
    /\ WF_vars(\E cbData \in 1 .. MaxRead : OEMReadData(cbData))
    /\ WF_vars(ReceiveBlock \/ CopyData) /\ WF_vars(OEMLaunch) /\ WF_vars(WaitForJump)
    /\ WF_vars(HostBoots \/ HostAcked) /\ WF_vars(HostTimesOut)

-----------------------------------------------------------------------------
(* Properties.                                                                *)

Bytes == {Image[i] : i \in DOMAIN Image}

(* The variables have their types.                                            *)
TypeOK ==
    /\ pc \in {"request", "bootAck", "image", "data", "waitJump", "launched"}
    /\ blockNumber \in 0 .. LastBlock + 1 /\ block \in 0 .. LastBlock
    /\ dataBuffer \in Seq(Bytes) /\ memory \in Seq(Bytes) /\ wanted \in 0 .. MaxRead
    /\ host \in {"idle", "starting", "sending", "jumping", "done"} /\ jump \in BOOLEAN
    /\ fits \in BOOLEAN /\ faults \in 0 .. MaxFaults

(* The host goes on only from blocks the loader has: what it takes for the    *)
(* acknowledgement of a block is one, although the first acknowledgement of   *)
(* the download and that of the jump have the number of block 0.              *)
AckedBlocksArrived ==
    /\ host = "sending" => block <= blockNumber
    /\ host \in {"jumping", "done"} /\ ~jump => blockNumber = LastBlock + 1
    /\ host = "done" => pc = "launched"

(* Whatever the line does, repeated blocks and blocks read in pieces of any   *)
(* size make up the image in memory, and only a whole image is run            *)
(* (OEMReadData, OEMLaunch).                                                  *)
Promise == INSTANCE ImageTransfer WITH launched <- pc = "launched"
ImplementsTransfer == Promise!SSpec

(* Once faults end, the image runs, if the last acknowledgement got through,  *)
(* since in OEMLaunch the loader acknowledges no block again, and no error    *)
(* came in what WaitForJump read.                                             *)
EventuallyLaunched == <>(pc = "launched")
=============================================================================
