------------------------- MODULE SerialDownload_proofs -------------------------
(* Proofs about the serial boot loader, for any image, any sizes of reads and *)
(* any number of packets on the line and of its faults.                       *)
EXTENDS SerialDownload, SequenceLemmas

(* What the host may send, and what becomes of it on the line; what the       *)
(* loader has sent when it has n blocks.                                      *)
ToLoader(j) == {BootAck(j), Jump, Other, Error, Cut(1), Cut(2)} \cup {Block(n) : n \in 0 .. LastBlock}
ToHost(n)   == {DLREQ} \cup {BlockAck(m) : m \in {k \in 0 .. LastBlock : k = 0 \/ k < n}}

(* Acknowledgements come in the order of their numbers, and there is only one *)
(* while no block has come.                                                   *)
Ordered(s, n) ==
    \A i, j \in 1 .. Len(s) :
        i < j /\ s[i].type = "DLACK" /\ s[j].type = "DLACK" => n > 0 /\ s[i].num <= s[j].num

Types ==
    /\ pc \in {"request", "bootAck", "image", "data", "waitJump", "launched"}
    /\ host \in {"idle", "starting", "sending", "jumping", "done"}
    /\ jump \in BOOLEAN
    /\ blockNumber \in 0 .. LastBlock + 1 /\ block \in 0 .. LastBlock
    /\ wanted \in Nat
    /\ dataBuffer \in Seq(Byte) /\ memory \in Seq(Byte)
    /\ toLoader \in Seq(ToLoader(jump)) /\ toHost \in Seq(ToHost(blockNumber))

Connecting == pc \in {"request", "bootAck"}

(* What has come of the image is in memory or in the buffer.                  *)
Parts == CHOOSE parts : IsParts(parts, Blocks, Len(Blocks), Byte)

LoaderInv ==
    /\ memory \o dataBuffer = Parts[blockNumber]
    /\ Connecting => blockNumber = 0
    /\ jump => blockNumber = 0 /\ pc \notin {"image", "data"}
    /\ pc \in {"waitJump", "launched"} /\ ~jump => blockNumber = LastBlock + 1 /\ memory = Image
    /\ pc = "data" => wanted > 0

(* What cannot be on the line: an acknowledgement before the download begins, *)
(* a second answer to a boot request, the acknowledgement of the download     *)
(* when the host has begun, that of block 0 when it has sent all.             *)
LineInv ==
    /\ Connecting => toHost \in Seq({DLREQ})
    /\ Connecting /\ host \in {"sending", "jumping"} => toLoader \in Seq(ToLoader(jump) \ {BootAck(jump)})
    /\ pc # "launched" =>
        /\ Ordered(toHost, blockNumber)
        /\ blockNumber = 0 /\ host \in {"sending", "jumping"} => toHost \in Seq({DLREQ})
        /\ host = "jumping" /\ ~jump => toHost \in Seq({DLREQ, BlockAck(LastBlock)})

HostInv ==
    /\ host \in {"idle", "starting"} \/ jump => block = 0
    /\ host = "sending" => ~jump
    /\ AckedBlocksArrived

Inv == Types /\ LoaderInv /\ LineInv /\ HostInv

-----------------------------------------------------------------------------
(* The image and its parts.                                                   *)

LEMMA BlocksProps ==
  /\ Blocks \in Seq(Seq(Byte)) /\ Blocks # << >>
  /\ LastBlock \in Nat /\ LastBlock > 0 /\ Len(Blocks) = LastBlock + 1
  /\ \A n \in 0 .. LastBlock : Blocks[n + 1] \in Seq(Byte)
  /\ \A i \in 1 .. Len(Blocks) : Len(Blocks[i]) > 0
<1>1. Blocks \in Seq(Seq(Byte)) /\ Len(Blocks) > 1 /\ Len(Blocks) \in Nat /\ DOMAIN Blocks = 1 .. Len(Blocks)
  BY DownloadAssumption, LenProperties
<1>2. Blocks # << >>
  BY <1>1, EmptySeq
<1>3. \A i \in 1 .. Len(Blocks) : Len(Blocks[i]) > 0 /\ Blocks[i] \in Seq(Byte)
  BY <1>1, DownloadAssumption, ElementOfSeq
<1>4. LastBlock \in Nat /\ LastBlock > 0 /\ Len(Blocks) = LastBlock + 1
  BY <1>1 DEF LastBlock
<1>5. \A n \in 0 .. LastBlock : n + 1 \in 1 .. Len(Blocks)
  BY <1>4
<1> QED BY <1>1, <1>2, <1>3, <1>4, <1>5

LEMMA LastProps == LastBlock \in Nat /\ LastBlock > 0
BY BlocksProps

LEMMA PartsProps ==
  /\ Parts \in [0 .. LastBlock + 1 -> Seq(Byte)]
  /\ Parts[0] = << >>
  /\ Parts[LastBlock + 1] = Image
  /\ \A n \in 0 .. LastBlock : Parts[n + 1] = Parts[n] \o Blocks[n + 1]
  /\ \A n \in 0 .. LastBlock + 1 : /\ IsPrefix(Parts[n], Image)
                                   /\ Len(Parts[n]) = Len(Image) => n = LastBlock + 1
<1> USE BlocksProps
<1>1. IsParts(Parts, Blocks, Len(Blocks), Byte)
  BY PartsExist DEF Parts
<1>2. Image = Parts[Len(Blocks)]
  BY <1>1, FlattenParts DEF Image
<1>3. \A n \in 0 .. Len(Blocks) : /\ IsPrefix(Parts[n], Image)
                                  /\ Len(Parts[n]) = Len(Image) => n = Len(Blocks)
  BY <1>1, <1>2, PartsPrefix
<1>4. Len(Blocks) - 1 = LastBlock
  OBVIOUS
<1> QED BY <1>1, <1>2, <1>3, <1>4 DEF IsParts

-----------------------------------------------------------------------------
(* Packets on the line.                                                       *)

LEMMA SeqWithin ==
  ASSUME NEW S, NEW Q, NEW s \in Seq(S), \A i \in 1 .. Len(s) : s[i] \in Q
  PROVE  s \in Seq(Q)
<1>1. Len(s) \in Nat /\ s \in [1 .. Len(s) -> S]
  BY LenProperties
<1>2. s \in [1 .. Len(s) -> Q]
  BY <1>1
<1> QED BY <1>1, <1>2

LEMMA Kinds ==
  /\ \A j \in BOOLEAN : \A p \in ToLoader(j) :
        /\ p.type \in {"DLACK", "DLPKT", "JUMP", "other", "error", "cut"}
        /\ p.type = "DLACK" => p = BootAck(j) /\ (p.num # 0 <=> j)
        /\ p.type = "DLPKT" => p.num \in 0 .. LastBlock
        /\ p.type = "cut" => p = Cut(1) \/ p = Cut(2)
  /\ \A n \in Nat : \A p \in ToHost(n) :
        /\ p = DLREQ \/ p.type = "DLACK"
        /\ p.type = "DLACK" => p = BlockAck(p.num) /\ p.num \in 0 .. LastBlock /\ (p.num = 0 \/ p.num < n)
  /\ DLREQ.type = "DLREQ"
  /\ \A n : BlockAck(n).type = "DLACK" /\ BlockAck(n).num = n
BY BlocksProps DEF ToLoader, ToHost, BootAck, Jump, Other, Error, Cut, Block, DLREQ, BlockAck, Packet

(* RecvPacket takes a packet, and what is left is still a line.               *)
LEMMA Received ==
  ASSUME NEW P, toLoader \in Seq(P), Other \in P, Cut(1) \in P,
         \A p \in P : p.type = "cut" => p = Cut(1) \/ p = Cut(2),
         Readable
  PROVE  RecvPacket \in P /\ RecvPacket.type # "cut" /\ Unread \in Seq(P)
<1>1. toLoader # << >> /\ Head(toLoader) \in P /\ Tail(toLoader) \in Seq(P)
      /\ Len(Tail(toLoader)) = Len(toLoader) - 1 /\ Len(toLoader) \in Nat
  BY HeadTailProperties, LenProperties DEF Readable
<1>2. RecvPacket \in P /\ RecvPacket.type # "cut"
  BY <1>1 DEF RecvPacket, Other, Packet
<1>3. CASE Head(toLoader).type # "cut"
  BY <1>1, <1>2, <1>3 DEF Unread
<1>4. CASE Head(toLoader).type = "cut"
  <2>1. Len(Tail(toLoader)) > 0 /\ Tail(toLoader) \in Seq(P)
    BY <1>1, <1>4 DEF Readable
  <2>2. Tail(toLoader) # << >>
    <3>1. \A s \in Seq(P) : Len(s) > 0 => s # << >>
      BY EmptySeq
    <3> QED BY <2>1, <3>1, Zenon
  <2>3. Tail(Tail(toLoader)) \in Seq(P)
    BY <1>1, <2>2, HeadTailProperties
  <2>4. Head(toLoader).num > 1 => Head(toLoader).num - 1 = 1
    BY <1>1, <1>4 DEF Cut, Packet
  <2>5. <<Cut(1)>> \in Seq(P) /\ << >> \in Seq(P)
    BY EmptySeq
  <2>6. Unread \in {<<Cut(1)>> \o Tail(Tail(toLoader)), << >> \o Tail(Tail(toLoader))}
    BY <1>4, <2>4 DEF Unread
  <2> QED BY <1>2, <2>3, <2>5, <2>6, ConcatProperties
<1> QED BY <1>3, <1>4

LEMMA Arrived ==
  ASSUME Types, Readable
  PROVE  /\ RecvPacket \in ToLoader(jump)
         /\ Unread \in Seq(ToLoader(jump))
         /\ toLoader \in Seq(ToLoader(jump) \ {BootAck(jump)}) =>
               /\ Unread \in Seq(ToLoader(jump) \ {BootAck(jump)})
               /\ RecvPacket.type # "DLACK"
<1>1. \A p \in ToLoader(jump) : /\ p.type = "cut" => p = Cut(1) \/ p = Cut(2)
                                /\ p.type = "DLACK" => p = BootAck(jump)
  BY Kinds DEF Types
<1>2. Other # BootAck(jump) /\ Cut(1) # BootAck(jump) /\ Other \in ToLoader(jump) /\ Cut(1) \in ToLoader(jump)
  BY DEF Other, Cut, BootAck, Packet, ToLoader
<1>3. RecvPacket \in ToLoader(jump) /\ Unread \in Seq(ToLoader(jump))
  BY <1>1, <1>2, Received DEF Types
<1>4. ASSUME toLoader \in Seq(ToLoader(jump) \ {BootAck(jump)})
      PROVE  RecvPacket \in ToLoader(jump) \ {BootAck(jump)} /\ Unread \in Seq(ToLoader(jump) \ {BootAck(jump)})
  BY <1>1, <1>2, <1>4, Received
<1> QED BY <1>1, <1>3, <1>4

(* Acknowledgements keep their order when some are taken from the line and    *)
(* when one that is not lower is sent.                                        *)
LEMMA OrderedRequests ==
  ASSUME NEW s \in Seq({DLREQ}), NEW n PROVE Ordered(s, n)
<1>1. \A i \in 1 .. Len(s) : s[i] = DLREQ
  BY ElementOfSeq
<1> QED BY <1>1, Kinds DEF Ordered

LEMMA OrderedRemove ==
  ASSUME NEW S, NEW s \in Seq(S), NEW n, Ordered(s, n), NEW k \in 1 .. Len(s)
  PROVE  Ordered(RemoveAt(s, k), n)
<1> DEFINE t == RemoveAt(s, k)
           old(i) == IF i < k THEN i ELSE i + 1
<1>1. /\ Len(s) \in Nat /\ Len(t) = Len(s) - 1
      /\ \A i \in 1 .. Len(s) - 1 : t[i] = IF i < k THEN s[i] ELSE s[i + 1]
  BY RemoveAtProps, LenProperties
<1> HIDE DEF t
<1>2. \A i \in 1 .. Len(t) : old(i) \in 1 .. Len(s) /\ t[i] = s[old(i)]
  BY <1>1
<1>3. \A i, j \in 1 .. Len(t) : i < j => old(i) < old(j)
  BY <1>1
<1> HIDE DEF old
<1>4. Ordered(t, n)
  BY <1>2, <1>3 DEF Ordered
<1> QED BY <1>4 DEF t

LEMMA OrderedAppend ==
  ASSUME NEW S, NEW s \in Seq(S), NEW n, NEW m, NEW e \in S, Ordered(s, n), n > 0 => m > 0,
         \/ e.type # "DLACK"
         \/ \A i \in 1 .. Len(s) : s[i].type = "DLACK" => m > 0 /\ s[i].num <= e.num
  PROVE  Ordered(Append(s, e), m)
<1> DEFINE t == Append(s, e)
           k == Len(s)
<1>1. k \in Nat /\ Len(t) = k + 1 /\ t[k + 1] = e /\ \A i \in 1 .. k : t[i] = s[i]
  BY AppendProperties, LenProperties
<1> HIDE DEF t, k
<1>2. ASSUME NEW i \in 1 .. Len(t), NEW j \in 1 .. Len(t), i < j, t[i].type = "DLACK", t[j].type = "DLACK"
      PROVE  m > 0 /\ t[i].num <= t[j].num
  <2>1. i \in 1 .. k /\ (j \in 1 .. k \/ j = k + 1)
    BY <1>1, <1>2
  <2>2. CASE j \in 1 .. k
    BY <1>1, <1>2, <2>1, <2>2 DEF Ordered, k
  <2>3. CASE j = k + 1
    BY <1>1, <1>2, <2>1, <2>3 DEF k
  <2> QED BY <2>1, <2>2, <2>3
<1> QED BY <1>2 DEF Ordered, t

LEMMA HeadAck ==
  ASSUME NEW n \in Nat, NEW s \in Seq(ToHost(n)), s # << >>, Head(s).type = "DLACK", Ordered(s, n)
  PROVE  /\ Ordered(Tail(s), n) /\ Tail(s) \in Seq(ToHost(n)) /\ Head(s) \in ToHost(n)
         /\ n = 0 => Tail(s) \in Seq({DLREQ})
         /\ Head(s).num = LastBlock => Tail(s) \in Seq({DLREQ, BlockAck(LastBlock)})
<1> DEFINE t == Tail(s)
<1>1. /\ Head(s) = s[1] /\ t \in Seq(ToHost(n)) /\ Len(t) = Len(s) - 1
      /\ \A i \in 1 .. Len(t) : t[i] = s[i + 1]
      /\ Len(s) \in Nat \ {0} /\ 1 \in 1 .. Len(s) /\ s[1] \in ToHost(n)
  BY HeadTailProperties, EmptySeq
<1>2. Ordered(t, n)
  BY <1>1, OrderedRemove, RemoveHeadIsTail
<1> HIDE DEF t
<1>3. \A i \in 1 .. Len(t) : /\ t[i] = DLREQ \/ t[i].type = "DLACK"
                             /\ t[i].type = "DLACK" => /\ t[i] = BlockAck(t[i].num)
                                                       /\ t[i].num \in 0 .. LastBlock
  <2>1. \A i \in 1 .. Len(t) : t[i] \in ToHost(n)
    BY <1>1, ElementOfSeq
  <2> QED BY <2>1, Kinds
<1>4. ASSUME NEW i \in 1 .. Len(t), t[i].type = "DLACK" PROVE n > 0 /\ s[1].num <= t[i].num
  <2>1. i + 1 \in 1 .. Len(s) /\ 1 < i + 1 /\ t[i] = s[i + 1]
    BY <1>1
  <2> QED BY <1>1, <1>4, <2>1 DEF Ordered
<1>5. ASSUME n = 0 PROVE t \in Seq({DLREQ})
  <2>1. \A i \in 1 .. Len(t) : t[i] \in {DLREQ}
    BY <1>3, <1>4, <1>5
  <2> QED BY <1>1, <2>1, SeqWithin
<1>6. ASSUME Head(s).num = LastBlock PROVE t \in Seq({DLREQ, BlockAck(LastBlock)})
  <2>1. ASSUME NEW i \in 1 .. Len(t) PROVE t[i] \in {DLREQ, BlockAck(LastBlock)}
    <3>1. CASE t[i].type = "DLACK"
      <4>1. LastBlock <= t[i].num
        BY <1>1, <1>4, <1>6, <3>1
      <4>2. t[i].num = LastBlock
        BY <1>3, <3>1, <4>1, BlocksProps
      <4> QED BY <1>3, <3>1, <4>2
    <3> QED BY <1>3, <3>1
  <2> QED BY <1>1, <2>1, SeqWithin
<1> QED BY <1>1, <1>2, <1>5, <1>6 DEF t

-----------------------------------------------------------------------------
(* The steps of the loader.                                                   *)

LEMMA InvInit == Init => Inv
<1> SUFFICES ASSUME Init PROVE Inv
  OBVIOUS
<1> USE DEF Init
<1>1. << >> \in Seq(Byte) /\ << >> \in Seq(ToLoader(jump)) /\ << >> \in Seq(ToHost(0))
      /\ << >> \in Seq({DLREQ}) /\ << >> \o << >> = << >>
  BY EmptySeq, ConcatEmptySeq
<1>2. Types
  BY <1>1, BlocksProps DEF Types
<1>3. LoaderInv
  BY <1>1, PartsProps DEF LoaderInv
<1>4. LineInv
  BY <1>1, OrderedRequests DEF LineInv
<1>5. HostInv
  BY DEF HostInv, AckedBlocksArrived
<1> QED BY <1>2, <1>3, <1>4, <1>5 DEF Inv

(* Steps of the loader after the connection that do not touch the line.       *)
LEMMA LineUntouched ==
  ASSUME Inv, UNCHANGED <<blockNumber, hostVars, toLoader, toHost>>,
         pc \in {"image", "data"}, pc' \in {"image", "data", "waitJump"},
         dataBuffer' \in Seq(Byte), memory' \in Seq(Byte), wanted' \in Nat
  PROVE  Types' /\ LineInv' /\ HostInv'
<1>1. Types'
  BY DEF Inv, Types, hostVars
<1>2. LineInv'
  BY DEF Inv, LineInv, hostVars, Connecting
<1>3. HostInv'
  BY DEF Inv, HostInv, hostVars, AckedBlocksArrived
<1> QED BY <1>1, <1>2, <1>3

LEMMA ReadStep ==
  ASSUME Inv, NEW cbData \in 1 .. MaxRead, OEMReadData(cbData)
  PROVE  Inv'
<1>1. /\ UNCHANGED <<blockNumber, hostVars, toLoader, toHost, dataBuffer, memory>>
      /\ pc = "image" /\ pc' = "data" /\ wanted' = cbData /\ cbData \in Nat \ {0}
  BY DownloadAssumption DEF OEMReadData
<1>2. Types' /\ LineInv' /\ HostInv'
  BY <1>1, LineUntouched DEF Inv, Types
<1>3. LoaderInv'
  BY <1>1 DEF Inv, LoaderInv, hostVars, Connecting
<1> QED BY <1>2, <1>3 DEF Inv

LEMMA CopyProps ==
  ASSUME Inv, CopyData
  PROVE  /\ memory' \in Seq(Byte) /\ dataBuffer' \in Seq(Byte) /\ wanted' \in Nat
         /\ memory' \o dataBuffer' = memory \o dataBuffer
         /\ memory' # memory /\ IsPrefix(memory, memory')
         /\ pc' = "data" => wanted' > 0
<1> DEFINE L == Len(dataBuffer)
           n == IF L > wanted THEN wanted ELSE L
           a == SubSeq(dataBuffer, 1, n)
           b == SubSeq(dataBuffer, n + 1, L)
<1>1. /\ dataBuffer \in Seq(Byte) /\ memory \in Seq(Byte) /\ wanted \in Nat /\ wanted > 0
      /\ dataBuffer # << >> /\ L \in Nat \ {0} /\ \A i \in 1 .. L : dataBuffer[i] \in Byte
  BY EmptySeq, ElementOfSeq DEF Inv, Types, LoaderInv, CopyData
<1>2. memory' = memory \o a /\ dataBuffer' = b /\ wanted' = wanted - n
      /\ pc' = IF wanted' = 0 THEN "image" ELSE "data"
  BY DEF CopyData
<1> HIDE DEF L
<1>3. n \in 1 .. L /\ n <= wanted /\ n \in Nat \ {0}
  BY <1>1
<1> HIDE DEF n
<1>4. /\ a \in Seq(Byte) /\ b \in Seq(Byte)
      /\ Len(a) = n
      /\ a \o b = dataBuffer
  <2>1. \A i \in 1 .. n : dataBuffer[i] \in Byte
    BY <1>1, <1>3
  <2>2. \A i \in n + 1 .. L : dataBuffer[i] \in Byte
    BY <1>1, <1>3
  <2>3. a \in Seq(Byte) /\ Len(a) = IF 1 <= n THEN n - 1 + 1 ELSE 0
    BY <1>3, <2>1, SubSeqProperties
  <2>4. b \in Seq(Byte)
    BY <1>1, <1>3, <2>2, SubSeqProperties
  <2>5. SubSeq(dataBuffer, 1, n) \o SubSeq(dataBuffer, n + 1, L) = SubSeq(dataBuffer, 1, L)
    <3>1. 1 \in 1 .. Len(dataBuffer) + 1 /\ n \in 1 - 1 .. Len(dataBuffer) /\ L \in n .. Len(dataBuffer)
      BY <1>1, <1>3 DEF L
    <3> QED BY <1>1, <3>1, ConcatAdjacentSubSeq
  <2>6. SubSeq(dataBuffer, 1, L) = dataBuffer
    BY <1>1, SubSeqFull DEF L
  <2> QED BY <1>3, <2>3, <2>4, <2>5, <2>6
<1> HIDE DEF a, b
<1>5. memory \o a \in Seq(Byte) /\ Len(memory \o a) = Len(memory) + n /\ Len(memory) \in Nat
  BY <1>1, <1>4, ConcatProperties, LenProperties
<1>6. (memory \o a) \o b = memory \o dataBuffer
  <2>1. \A s, u, v \in Seq(Byte) : (s \o u) \o v = s \o (u \o v)
    BY ConcatAssociative
  <2>2. (memory \o a) \o b = memory \o (a \o b)
    BY <1>1, <1>4, <2>1, Zenon
  <2> QED BY <1>4, <2>2
<1>7. memory \o a # memory
  <2>1. \A x \in Nat : x + n # x
    BY <1>3
  <2> QED BY <1>5, <2>1
<1>8. IsPrefix(memory, memory \o a)
  BY <1>1, <1>4, PrefixProps
<1>9. wanted' \in Nat /\ (pc' = "data" => wanted' > 0)
  BY <1>1, <1>2, <1>3
<1> QED BY <1>2, <1>4, <1>5, <1>6, <1>7, <1>8, <1>9

LEMMA CopyStep ==
  ASSUME Inv, CopyData
  PROVE  Inv'
<1>1. /\ UNCHANGED <<blockNumber, hostVars, toLoader, toHost>>
      /\ pc = "data" /\ pc' \in {"image", "data"}
  BY DEF CopyData
<1>2. Types' /\ LineInv' /\ HostInv'
  BY <1>1, LineUntouched, CopyProps
<1>3. LoaderInv'
  BY <1>1, CopyProps DEF Inv, LoaderInv, hostVars, Connecting
<1> QED BY <1>2, <1>3 DEF Inv

LEMMA LaunchStep ==
  ASSUME Inv, OEMLaunch
  PROVE  Inv'
<1>1. /\ UNCHANGED <<blockNumber, hostVars, toLoader, toHost, dataBuffer, wanted, memory>>
      /\ pc = "image" /\ pc' = "waitJump" /\ Len(memory) = Len(Image)
  BY DEF OEMLaunch
<1>2. Types' /\ LineInv' /\ HostInv'
  BY <1>1, LineUntouched DEF Inv, Types
<1>3. /\ memory \in Seq(Byte) /\ dataBuffer \in Seq(Byte) /\ blockNumber \in 0 .. LastBlock + 1
      /\ memory \o dataBuffer = Parts[blockNumber]
  BY DEF Inv, Types, LoaderInv
<1>4. Parts[blockNumber] \in Seq(Byte) /\ IsPrefix(memory, Parts[blockNumber])
      /\ Image \in Seq(Byte) /\ IsPrefix(Parts[blockNumber], Image)
  <2>1. LastBlock + 1 \in 0 .. LastBlock + 1
    BY BlocksProps
  <2>2. Parts[blockNumber] \in Seq(Byte) /\ Image \in Seq(Byte) /\ IsPrefix(Parts[blockNumber], Image)
    BY <1>3, <2>1, PartsProps
  <2>3. IsPrefix(memory, memory \o dataBuffer)
    BY <1>3, PrefixProps
  <2> QED BY <1>3, <2>2, <2>3
<1>5. memory = Image
  BY <1>1, <1>3, <1>4, PrefixTransitive, PrefixProps
<1>6. Len(Parts[blockNumber]) = Len(Image)
  <2>1. Len(memory) <= Len(Parts[blockNumber]) /\ Len(Parts[blockNumber]) <= Len(Image)
    BY <1>3, <1>4, PrefixProps
  <2>2. Len(memory) \in Nat /\ Len(Parts[blockNumber]) \in Nat /\ Len(Image) \in Nat
    BY <1>3, <1>4, LenProperties
  <2> QED BY <1>1, <2>1, <2>2
<1>7. blockNumber = LastBlock + 1
  BY <1>3, <1>6, PartsProps
<1>8. LoaderInv'
  BY <1>1, <1>5, <1>7 DEF Inv, LoaderInv, hostVars, Connecting
<1> QED BY <1>2, <1>8 DEF Inv

(* SerialSendBootRequest and the answers to it.                               *)
LEMMA BootRequestStep ==
  ASSUME Inv, SerialSendBootRequest
  PROVE  Inv'
<1>1. /\ pc = "request" /\ pc' = "bootAck" /\ toHost' = Append(toHost, DLREQ)
      /\ UNCHANGED <<blockNumber, dataBuffer, wanted, memory, host, block, jump, toLoader>>
  BY DEF SerialSendBootRequest, hostVars
<1>2. toHost \in Seq({DLREQ})
  BY <1>1 DEF Inv, LineInv, Connecting
<1>3. toHost' \in Seq({DLREQ})
  BY <1>1, <1>2, AppendProperties
<1>4. toHost' \in Seq(ToHost(blockNumber))
  BY <1>3, SeqMonotonic DEF ToHost
<1>5. Types'
  BY <1>1, <1>4 DEF Inv, Types
<1>6. LineInv'
  <2>1. blockNumber = 0 /\ ~(host = "jumping" /\ ~jump)
    BY <1>1, BlocksProps DEF Inv, LoaderInv, HostInv, AckedBlocksArrived, Connecting
  <2>2. Ordered(toHost', blockNumber')
    BY <1>3, OrderedRequests
  <2>3. host \in {"sending", "jumping"} => toLoader \in Seq(ToLoader(jump) \ {BootAck(jump)})
    BY <1>1 DEF Inv, LineInv, Connecting
  <2> QED BY <1>1, <1>3, <2>1, <2>2, <2>3 DEF LineInv
<1>7. LoaderInv' /\ HostInv'
  BY <1>1 DEF Inv, LoaderInv, HostInv, AckedBlocksArrived, Connecting
<1> QED BY <1>5, <1>6, <1>7 DEF Inv

(* Giving up or reading something else.                                       *)
LEMMA ConnectAgain ==
  ASSUME Inv, pc = "bootAck", pc' = "request", toLoader' \in Seq(ToLoader(jump)),
         toLoader \in Seq(ToLoader(jump) \ {BootAck(jump)}) =>
            toLoader' \in Seq(ToLoader(jump) \ {BootAck(jump)}),
         UNCHANGED <<blockNumber, dataBuffer, wanted, memory, host, block, jump, toHost>>
  PROVE  Inv'
<1>1. Types' /\ LoaderInv' /\ HostInv'
  BY DEF Inv, Types, LoaderInv, HostInv, AckedBlocksArrived, Connecting
<1>2. LineInv'
  BY DEF Inv, LineInv, Connecting
<1> QED BY <1>1, <1>2 DEF Inv

LEMMA BootAckStep ==
  ASSUME Inv, WaitForBootAck \/ WaitForBootAckTimesOut
  PROVE  Inv'
<1>0. /\ pc = "bootAck" /\ toHost \in Seq({DLREQ}) /\ jump \in BOOLEAN /\ blockNumber = 0
      /\ UNCHANGED <<blockNumber, dataBuffer, wanted, memory, host, block, jump>>
  BY DEF Inv, LineInv, LoaderInv, Types, Connecting, WaitForBootAck, WaitForBootAckTimesOut, hostVars
<1>1. CASE WaitForBootAckTimesOut
  <2>1. toLoader' = << >> /\ pc' = "request" /\ toHost' = toHost
    BY <1>1 DEF WaitForBootAckTimesOut
  <2>2. << >> \in Seq(ToLoader(jump)) /\ << >> \in Seq(ToLoader(jump) \ {BootAck(jump)})
    BY EmptySeq
  <2> QED BY <1>0, <2>1, <2>2, ConnectAgain
<1>2. CASE WaitForBootAck
  <2>1. Readable /\ toLoader' = Unread /\ Types
    BY <1>2 DEF WaitForBootAck, Inv
  <2>2. CASE ~BootAcked(RecvPacket)
    <3>1. pc' = "request" /\ toHost' = toHost
      BY <1>2, <2>2 DEF WaitForBootAck
    <3> QED BY <1>0, <2>1, <3>1, Arrived, ConnectAgain
  <2>3. CASE BootAcked(RecvPacket)
    <3>1. /\ toHost' = Append(toHost, BlockAck(0))
          /\ pc' = IF RecvPacket.num # 0 THEN "waitJump" ELSE "image"
      BY <1>2, <2>3 DEF WaitForBootAck
    <3>2. RecvPacket.num # 0 <=> jump
      BY <1>0, <2>1, <2>3, Arrived, Kinds DEF BootAcked
    <3>3. ~(host \in {"sending", "jumping"})
      BY <1>0, <2>1, <2>3, Arrived DEF BootAcked, Inv, LineInv, Connecting
    <3>4. toHost' \in Seq(ToHost(0)) /\ Ordered(toHost', 0)
      <4>1. toHost \in Seq(ToHost(0)) /\ BlockAck(0) \in ToHost(0)
        <5>1. {DLREQ} \subseteq ToHost(0)
          BY DEF ToHost
        <5>2. 0 \in {k \in 0 .. LastBlock : k = 0 \/ k < 0}
          BY BlocksProps
        <5>3. BlockAck(0) \in ToHost(0)
          BY <5>2 DEF ToHost
        <5> QED BY <1>0, <5>1, <5>3, SeqMonotonic
      <4>2. Ordered(toHost, 0)
        BY <1>0, OrderedRequests
      <4>3. \A i \in 1 .. Len(toHost) : toHost[i].type # "DLACK"
        BY <1>0, ElementOfSeq, Kinds
      <4> QED BY <3>1, <4>1, <4>2, <4>3, AppendProperties, OrderedAppend
    <3>5. Types'
      BY <1>0, <2>1, <3>1, <3>4, Arrived DEF Types
    <3>6. LineInv'
      BY <1>0, <3>1, <3>3, <3>4 DEF LineInv, Connecting
    <3>7. HostInv'
      BY <1>0, <3>1, <3>3 DEF Inv, HostInv, AckedBlocksArrived
    <3>8. LoaderInv'
      <4>1. memory \o dataBuffer = << >> /\ memory \in Seq(Byte) /\ dataBuffer \in Seq(Byte)
        BY <1>0, PartsProps DEF Inv, LoaderInv, Types
      <4>2. memory = << >>
        BY <4>1, ConcatEqualIffEmpty
      <4> QED BY <1>0, <3>1, <3>2 DEF Inv, LoaderInv, Connecting
    <3> QED BY <3>5, <3>6, <3>7, <3>8 DEF Inv
  <2> QED BY <2>2, <2>3
<1> QED BY <1>1, <1>2

LEMMA BlockStep ==
  ASSUME Inv, ReceiveBlock
  PROVE  Inv'
<1> DEFINE p == RecvPacket
<1>1. /\ pc = "data" /\ dataBuffer = << >> /\ Readable /\ toLoader' = Unread
      /\ UNCHANGED <<pc, wanted, memory, host, block, jump>>
      /\ Types /\ ~jump /\ jump \in BOOLEAN /\ memory \in Seq(Byte)
      /\ blockNumber \in 0 .. LastBlock + 1 /\ blockNumber \in Nat
      /\ toHost \in Seq(ToHost(blockNumber)) /\ Ordered(toHost, blockNumber)
      /\ host # "done" /\ ~Connecting
  BY BlocksProps DEF ReceiveBlock, hostVars, Inv, Types, LoaderInv, LineInv, HostInv, AckedBlocksArrived,
                     Connecting
<1>2. p \in ToLoader(jump) /\ Unread \in Seq(ToLoader(jump)) /\ (p.type = "DLPKT" => p.num \in 0 .. LastBlock)
  BY <1>1, Arrived, Kinds
<1>3. /\ IF Expected(p)
         THEN dataBuffer' = Blocks[p.num + 1] /\ blockNumber' = blockNumber + 1
         ELSE UNCHANGED <<dataBuffer, blockNumber>>
      /\ toHost' = IF Acked(p) THEN Append(toHost, BlockAck(blockNumber' - 1)) ELSE toHost
  BY DEF ReceiveBlock
<1> HIDE DEF p
<1>4. /\ blockNumber' \in 0 .. LastBlock + 1 /\ dataBuffer' \in Seq(Byte)
      /\ memory \o dataBuffer' = Parts[blockNumber']
      /\ blockNumber <= blockNumber'
      /\ blockNumber = LastBlock + 1 => blockNumber' = LastBlock + 1
  <2>1. CASE Expected(p)
    <3>1. /\ blockNumber \in 0 .. LastBlock /\ p.num = blockNumber
          /\ dataBuffer' = Blocks[blockNumber + 1] /\ blockNumber' = blockNumber + 1
      BY <1>2, <1>3, <2>1 DEF Expected
    <3>2. blockNumber' \in 0 .. LastBlock + 1 /\ blockNumber <= blockNumber' /\ blockNumber # LastBlock + 1
      BY <1>1, <3>1, BlocksProps
    <3>3. Parts[blockNumber + 1] = Parts[blockNumber] \o Blocks[blockNumber + 1]
          /\ Blocks[blockNumber + 1] \in Seq(Byte)
      BY <3>1, PartsProps, BlocksProps
    <3>4. Parts[blockNumber] = memory
      BY <1>1, ConcatEmptySeq DEF Inv, LoaderInv
    <3> QED BY <3>1, <3>2, <3>3, <3>4
  <2>2. CASE ~Expected(p)
    <3>1. UNCHANGED <<dataBuffer, blockNumber>>
      BY <1>3, <2>2
    <3> QED BY <1>1, <3>1 DEF Inv, LoaderInv, Types
  <2> QED BY <2>1, <2>2
<1>5. /\ toHost' \in Seq(ToHost(blockNumber')) /\ Ordered(toHost', blockNumber')
      /\ blockNumber' = 0 => toHost' = toHost /\ blockNumber = 0
      /\ blockNumber = LastBlock + 1 /\ toHost \in Seq({DLREQ, BlockAck(LastBlock)}) =>
            toHost' \in Seq({DLREQ, BlockAck(LastBlock)})
  <2>1. ToHost(blockNumber) \subseteq ToHost(blockNumber')
    BY <1>1, <1>4 DEF ToHost
  <2>2. toHost \in Seq(ToHost(blockNumber'))
    BY <1>1, <2>1, SeqMonotonic
  <2>3. CASE Acked(p)
    <3>1. blockNumber' > 0 /\ toHost' = Append(toHost, BlockAck(blockNumber' - 1))
      BY <1>3, <2>3 DEF Acked
    <3>2. PICK m \in 0 .. LastBlock : m = blockNumber' - 1 /\ m < blockNumber'
      <4>1. PICK b \in 0 .. LastBlock + 1 : b = blockNumber'
        BY <1>4
      <4>2. b > 0
        BY <3>1, <4>1
      <4>3. b - 1 \in 0 .. LastBlock /\ b - 1 < b
        BY <4>2, LastProps
      <4> QED BY <4>1, <4>3
    <3>3. BlockAck(m) \in ToHost(blockNumber') /\ BlockAck(m).num = m /\ toHost' = Append(toHost, BlockAck(m))
      BY <3>1, <3>2, Kinds DEF ToHost
    <3>4. \A i \in 1 .. Len(toHost) : toHost[i].type = "DLACK" => toHost[i].num <= m
      <4>1. \A i \in 1 .. Len(toHost) : toHost[i] \in ToHost(blockNumber)
        BY <1>1, ElementOfSeq
      <4>2. \A i \in 1 .. Len(toHost) : toHost[i].type = "DLACK" =>
              toHost[i].num \in 0 .. LastBlock /\ (toHost[i].num = 0 \/ toHost[i].num < blockNumber)
        BY <1>1, <4>1, Kinds
      <4>3. PICK b \in 0 .. LastBlock + 1 : b = blockNumber'
        BY <1>4
      <4>4. PICK k \in Nat : k = blockNumber
        BY <1>1
      <4>5. k <= b /\ m = b - 1
        BY <1>4, <3>2, <4>3, <4>4
      <4>6. \A x \in 0 .. LastBlock : x = 0 \/ x < k => x <= m
        BY <4>5, LastProps
      <4> QED BY <4>2, <4>4, <4>6
    <3>5. toHost' \in Seq(ToHost(blockNumber'))
      BY <2>2, <3>3, AppendProperties
    <3>6. Ordered(toHost', blockNumber')
      BY <1>1, <2>2, <3>1, <3>3, <3>4, OrderedAppend
    <3>7. ASSUME blockNumber = LastBlock + 1, toHost \in Seq({DLREQ, BlockAck(LastBlock)})
          PROVE  toHost' \in Seq({DLREQ, BlockAck(LastBlock)})
      <4>1. m = LastBlock
        BY <1>4, <3>2, <3>7, BlocksProps
      <4> QED BY <3>3, <3>7, <4>1, AppendProperties
    <3> QED BY <3>1, <3>5, <3>6, <3>7
  <2>4. CASE ~Acked(p)
    <3>1. toHost' = toHost
      BY <1>3, <2>4
    <3>2. blockNumber' = blockNumber
      BY <1>1, <1>3, <1>4, <2>4 DEF Acked, Expected
    <3> QED BY <1>1, <2>2, <3>1, <3>2
  <2> QED BY <2>3, <2>4
<1>6. Types'
  BY <1>1, <1>2, <1>4, <1>5 DEF Types
<1>7. LoaderInv'
  BY <1>1, <1>4 DEF Inv, LoaderInv, Connecting
<1>8. HostInv'
  BY <1>1, <1>4 DEF Inv, HostInv, AckedBlocksArrived, Types
<1>9. LineInv'
  BY <1>1, <1>4, <1>5 DEF Inv, LineInv, HostInv, AckedBlocksArrived, Connecting
<1> QED BY <1>6, <1>7, <1>8, <1>9 DEF Inv

LEMMA JumpStep ==
  ASSUME Inv, WaitForJump
  PROVE  Inv'
<1>1. /\ pc = "waitJump" /\ Readable /\ toLoader' = Unread /\ Types
      /\ UNCHANGED <<blockNumber, dataBuffer, wanted, memory, host, block, jump>>
      /\ \/ toHost' = Append(toHost, BlockAck(0)) /\ pc' = "launched"
         \/ UNCHANGED <<toHost, pc>>
  BY DEF WaitForJump, hostVars, Inv
<1>2. toLoader' \in Seq(ToLoader(jump'))
  BY <1>1, Arrived
<1>3. toHost' \in Seq(ToHost(blockNumber))
  <2>1. BlockAck(0) \in ToHost(blockNumber)
    <3>1. 0 \in {k \in 0 .. LastBlock : k = 0 \/ k < blockNumber}
      BY BlocksProps
    <3> QED BY <3>1 DEF ToHost
  <2>2. toHost \in Seq(ToHost(blockNumber))
    BY <1>1 DEF Types
  <2>3. Append(toHost, BlockAck(0)) \in Seq(ToHost(blockNumber))
    BY <2>1, <2>2, AppendProperties
  <2> QED BY <1>1, <2>2, <2>3
<1>4. Types'
  BY <1>1, <1>2, <1>3 DEF Types
<1>5. LoaderInv' /\ HostInv'
  BY <1>1 DEF Inv, LoaderInv, HostInv, AckedBlocksArrived, Connecting
<1>6. LineInv'
  BY <1>1 DEF Inv, LineInv, Connecting
<1> QED BY <1>4, <1>5, <1>6 DEF Inv

-----------------------------------------------------------------------------
(* The host.                                                                  *)

LEMMA SentPacket ==
  ASSUME block \in 0 .. LastBlock, jump \in BOOLEAN
  PROVE  Sent \in ToLoader(jump) \ {BootAck(jump)}
BY DEF Sent, ToLoader, Jump, Block, BootAck, Packet

LEMMA HostBootsStep ==
  ASSUME Inv, HostBoots
  PROVE  Inv'
<1>1. /\ toHost # << >> /\ toHost' = Tail(toHost) /\ toLoader' = Append(toLoader, BootAck(jump))
      /\ host' = "starting" /\ block' = 0
      /\ UNCHANGED <<pc, blockNumber, dataBuffer, wanted, memory, jump>>
  BY DEF HostBoots, loaderVars
<1>2. ASSUME NEW S, toHost \in Seq(S) PROVE toHost' \in Seq(S)
  BY <1>1, <1>2, HeadTailProperties
<1>3. toLoader' \in Seq(ToLoader(jump))
  <2>1. BootAck(jump) \in ToLoader(jump)
    BY DEF ToLoader
  <2> QED BY <1>1, <2>1, AppendProperties DEF Inv, Types
<1>4. pc # "launched" => Ordered(toHost', blockNumber)
  <2>1. toHost \in Seq(ToHost(blockNumber)) /\ 1 \in 1 .. Len(toHost)
    BY <1>1, EmptySeq DEF Inv, Types
  <2> QED BY <1>1, <2>1, OrderedRemove, RemoveHeadIsTail DEF Inv, LineInv
<1>5. Types'
  BY <1>1, <1>2, <1>3, BlocksProps DEF Inv, Types
<1>6. LoaderInv' /\ HostInv'
  BY <1>1 DEF Inv, LoaderInv, HostInv, AckedBlocksArrived, Connecting
<1>7. LineInv'
  BY <1>1, <1>2, <1>4 DEF Inv, LineInv, Connecting
<1> QED BY <1>5, <1>6, <1>7 DEF Inv

(* What an answer the host waits for tells of the loader.                     *)
LEMMA HostAckedStep ==
  ASSUME Inv, HostAcked
  PROVE  Inv'
<1> DEFINE n == Head(toHost).num
<1>1. /\ toHost # << >> /\ Head(toHost).type = "DLACK" /\ toHost' = Tail(toHost)
      /\ UNCHANGED <<pc, blockNumber, dataBuffer, wanted, memory, jump>>
      /\ toHost \in Seq(ToHost(blockNumber)) /\ blockNumber \in Nat /\ jump \in BOOLEAN
      /\ block \in 0 .. LastBlock /\ toLoader \in Seq(ToLoader(jump))
      /\ host \in {"idle", "starting", "sending", "jumping", "done"}
  BY BlocksProps DEF HostAcked, loaderVars, Inv, Types
<1>2. Head(toHost) \in ToHost(blockNumber) /\ ~(toHost \in Seq({DLREQ}))
  <2>1. Head(toHost) \in ToHost(blockNumber)
    BY <1>1, HeadTailProperties
  <2>2. toHost \in Seq({DLREQ}) => Head(toHost) \in {DLREQ}
    BY <1>1, HeadTailProperties
  <2> QED BY <1>1, <2>1, <2>2, Kinds
<1>3. n \in 0 .. LastBlock /\ (n = 0 \/ n < blockNumber) /\ Head(toHost) = BlockAck(n)
  BY <1>1, <1>2, Kinds
<1>4. ~Connecting /\ (pc # "launched" /\ blockNumber = 0 => host \notin {"sending", "jumping"})
  BY <1>2 DEF Inv, LineInv
<1>5. /\ toHost' \in Seq(ToHost(blockNumber))
      /\ pc # "launched" => /\ Ordered(toHost', blockNumber)
                            /\ blockNumber = 0 => toHost' \in Seq({DLREQ})
                            /\ n = LastBlock => toHost' \in Seq({DLREQ, BlockAck(LastBlock)})
                            /\ host = "jumping" /\ ~jump => toHost' \in Seq({DLREQ, BlockAck(LastBlock)})
  <2>1. toHost' \in Seq(ToHost(blockNumber))
    BY <1>1, HeadTailProperties
  <2>2. toHost \in Seq({DLREQ, BlockAck(LastBlock)}) => toHost' \in Seq({DLREQ, BlockAck(LastBlock)})
    BY <1>1, HeadTailProperties
  <2>3. ASSUME pc # "launched"
        PROVE /\ Ordered(toHost', blockNumber)
              /\ blockNumber = 0 => toHost' \in Seq({DLREQ})
              /\ n = LastBlock => toHost' \in Seq({DLREQ, BlockAck(LastBlock)})
    <3>1. Ordered(toHost, blockNumber)
      BY <2>3 DEF Inv, LineInv
    <3> QED BY <1>1, <3>1, HeadAck
  <2> QED BY <2>1, <2>2, <2>3 DEF Inv, LineInv
<1> HIDE DEF n
<1>6. CASE ~Answers(n)
  <2>1. UNCHANGED <<host, block, toLoader>>
    BY <1>6 DEF HostAcked, n
  <2>2. Types' /\ LoaderInv' /\ HostInv'
    BY <1>1, <1>5, <2>1 DEF Inv, Types, LoaderInv, HostInv, AckedBlocksArrived, Connecting
  <2>3. LineInv'
    BY <1>1, <1>4, <1>5, <2>1 DEF Inv, LineInv, Connecting
  <2> QED BY <2>2, <2>3 DEF Inv
<1>7. CASE Answers(n)
  <2>1. GoesOn /\ toLoader' = IF host' = "done" THEN toLoader ELSE Append(toLoader, Sent')
    BY <1>7 DEF HostAcked, n
  <2>2. /\ host' \in {"sending", "jumping", "done"} /\ block' \in 0 .. LastBlock
        /\ \/ block' = block
           \/ host = "sending" /\ block < LastBlock /\ block' = block + 1 /\ host' = "sending"
    BY <1>1, <2>1, LastProps DEF GoesOn, Begun
  <2>3. toLoader' \in Seq(ToLoader(jump'))
    <3>1. Sent' \in ToLoader(jump')
      <4>1. block' \in 0 .. LastBlock /\ jump' \in BOOLEAN
        BY <1>1, <2>2
      <4> QED BY <4>1 DEF Sent, ToLoader
    <3> QED BY <1>1, <2>1, <3>1, AppendProperties
  <2>4. Types'
    BY <1>1, <1>5, <2>2, <2>3 DEF Inv, Types
  <2>5. LoaderInv'
    BY <1>1 DEF Inv, LoaderInv, Connecting
  <2>6. host = "sending" => block < blockNumber
    <3>1. host = "sending" => n = block
      BY <1>7 DEF Answers
    <3>2. host = "sending" => blockNumber > 0
      <4> SUFFICES ASSUME host = "sending", blockNumber = 0 PROVE FALSE
        BY <1>1
      <4>1. pc = "launched" /\ ~jump
        BY <1>4 DEF Inv, HostInv
      <4> QED BY <4>1, BlocksProps DEF Inv, LoaderInv
    <3> QED BY <1>1, <1>3, <3>1, <3>2
  <2>7. host = "jumping" => pc = "launched"
    <3> SUFFICES ASSUME host = "jumping", pc # "launched" PROVE FALSE
      OBVIOUS
    <3>1. n = 0 /\ blockNumber # 0
      BY <1>4, <1>7 DEF Answers
    <3>2. ~jump
      BY <3>1 DEF Inv, LoaderInv
    <3>3. toHost \in Seq({DLREQ, BlockAck(LastBlock)})
      BY <3>2 DEF Inv, LineInv
    <3>4. Head(toHost) \in {DLREQ, BlockAck(LastBlock)}
      BY <1>1, <3>3, HeadTailProperties
    <3>5. Head(toHost) = BlockAck(LastBlock)
      BY <1>1, <3>4, Kinds
    <3>6. Head(toHost).num = LastBlock /\ Head(toHost).num = 0
      BY <1>3, <3>1, <3>5, Kinds
    <3> QED BY <3>6, LastProps
  <2>8. host' = "jumping" /\ ~jump => host = "sending" /\ block = LastBlock /\ blockNumber = LastBlock + 1
    <3>1. host' = "jumping" /\ ~jump => host = "sending" /\ block = LastBlock
      BY <2>1, <2>7 DEF GoesOn, Begun
    <3> QED BY <1>1, <2>6, <3>1, BlocksProps DEF Inv, Types
  <2>9. host' = "done" => host = "jumping"
    BY <2>1 DEF GoesOn, Begun
  <2>10. host' = "sending" => ~jump /\ block' <= blockNumber
    <3>1. host' = "sending" => (host = "starting" /\ ~jump) \/ host = "sending"
      BY <2>1 DEF GoesOn, Begun
    <3>2. host = "starting" => block' = 0
      BY <2>2 DEF Inv, HostInv
    <3> QED BY <1>1, <2>2, <2>6, <3>1, <3>2 DEF Inv, HostInv
  <2>11. HostInv'
    <3>1. jump => block' = 0
      BY <2>2 DEF Inv, HostInv
    <3>2. host' \in {"jumping", "done"} /\ ~jump => blockNumber = LastBlock + 1
      BY <2>2, <2>8, <2>9 DEF Inv, HostInv, AckedBlocksArrived
    <3> QED BY <1>1, <2>2, <2>7, <2>9, <2>10, <3>1, <3>2 DEF HostInv, AckedBlocksArrived
  <2>12. LineInv'
    <3>1. host' = "jumping" /\ ~jump => n = LastBlock
      BY <1>7, <2>8 DEF Answers
    <3> QED BY <1>1, <1>4, <1>5, <3>1 DEF LineInv, Connecting
  <2> QED BY <2>4, <2>5, <2>11, <2>12 DEF Inv
<1> QED BY <1>6, <1>7

LEMMA HostTimesOutStep ==
  ASSUME Inv, HostTimesOut
  PROVE  Inv'
<1>1. /\ UNCHANGED <<pc, blockNumber, dataBuffer, wanted, memory, jump, toHost, block>>
      /\ host \in {"starting", "sending", "jumping"}
      /\ IF host = "starting" THEN host' = (IF jump THEN "jumping" ELSE "sending") ELSE host' = host
      /\ toLoader' = Append(toLoader, Sent')
      /\ block \in 0 .. LastBlock /\ jump \in BOOLEAN /\ toLoader \in Seq(ToLoader(jump))
  BY DEF HostTimesOut, loaderVars, Begun, Inv, Types
<1>2. Sent' \in ToLoader(jump) \ {BootAck(jump)}
  <2>1. block' \in 0 .. LastBlock /\ jump' \in BOOLEAN /\ jump' = jump
    BY <1>1
  <2> QED BY <2>1 DEF Sent, ToLoader, Jump, Block, BootAck, Packet
<1>3. /\ toLoader' \in Seq(ToLoader(jump))
      /\ toLoader \in Seq(ToLoader(jump) \ {BootAck(jump)}) =>
            toLoader' \in Seq(ToLoader(jump) \ {BootAck(jump)})
  BY <1>1, <1>2, AppendProperties
<1>4. host = "starting" => /\ block = 0 /\ toHost = << >>
                           /\ toLoader \in Seq(ToLoader(jump) \ {BootAck(jump)})
  <2> SUFFICES ASSUME host = "starting"
               PROVE  block = 0 /\ toHost = << >> /\ toLoader \in Seq(ToLoader(jump) \ {BootAck(jump)})
    OBVIOUS
  <2>1. block = 0 /\ toHost = << >> /\ ~Readable
    BY <1>1 DEF HostTimesOut, Inv, HostInv
  <2>2. \A i \in 1 .. Len(toLoader) : toLoader[i] \in ToLoader(jump) \ {BootAck(jump)}
    <3>1. CASE toLoader = << >>
      <4>1. Len(toLoader) = 0
        BY <3>1, EmptySeq
      <4> QED BY <4>1
    <3>2. CASE toLoader # << >>
      <4>1. Head(toLoader) = toLoader[1] /\ Head(toLoader).type = "cut" /\ ~(Len(toLoader) > 1)
            /\ Len(toLoader) \in Nat /\ Head(toLoader) \in ToLoader(jump)
        BY <1>1, <2>1, <3>2, HeadTailProperties, LenProperties DEF Readable
      <4>2. \A i \in 1 .. Len(toLoader) : i = 1
        BY <4>1
      <4>3. BootAck(jump).type = "DLACK"
        BY DEF BootAck, Packet
      <4> QED BY <4>1, <4>2, <4>3
    <3> QED BY <3>1, <3>2
  <2> QED BY <1>1, <2>1, <2>2, SeqWithin
<1>5. host = "starting" /\ ~jump => host' = "sending"
  BY <1>1
<1>6. Types'
  BY <1>1, <1>3 DEF Inv, Types
<1>7. LoaderInv'
  BY <1>1 DEF Inv, LoaderInv, Connecting
<1>8. HostInv'
  <2>1. blockNumber \in Nat
    BY BlocksProps DEF Inv, Types
  <2> QED BY <1>1, <1>4, <2>1 DEF Inv, HostInv, AckedBlocksArrived
<1>9. LineInv'
  <2>1. host = "starting" => toHost \in Seq({DLREQ})
    <3>1. << >> \in Seq({DLREQ})
      BY EmptySeq
    <3> QED BY <1>4, <3>1
  <2>2. Connecting /\ host' \in {"sending", "jumping"} => toLoader' \in Seq(ToLoader(jump) \ {BootAck(jump)})
    BY <1>1, <1>3, <1>4 DEF Inv, LineInv
  <2>3. pc # "launched" =>
          /\ Ordered(toHost, blockNumber)
          /\ blockNumber = 0 /\ host' \in {"sending", "jumping"} => toHost \in Seq({DLREQ})
          /\ host' = "jumping" /\ ~jump => toHost \in Seq({DLREQ, BlockAck(LastBlock)})
    BY <1>1, <2>1 DEF Inv, LineInv
  <2>4. Connecting => toHost \in Seq({DLREQ})
    BY DEF Inv, LineInv
  <2> QED BY <1>1, <2>2, <2>3, <2>4 DEF LineInv, Connecting
<1> QED BY <1>6, <1>7, <1>8, <1>9 DEF Inv

-----------------------------------------------------------------------------
(* The line.                                                                  *)

LEMMA LineStep ==
  ASSUME Inv, LosesPacket \/ LosesAnswer \/ DamagesPacket
  PROVE  Inv'
<1>1. UNCHANGED <<pc, blockNumber, dataBuffer, wanted, memory, host, block, jump>>
  BY DEF LosesPacket, LosesAnswer, DamagesPacket, Fault, loaderVars, hostVars
<1>2. ASSUME toLoader' \in Seq(ToLoader(jump)),
             toLoader \in Seq(ToLoader(jump) \ {BootAck(jump)}) =>
                toLoader' \in Seq(ToLoader(jump) \ {BootAck(jump)}),
             \A S : toHost \in Seq(S) => toHost' \in Seq(S),
             Ordered(toHost, blockNumber) => Ordered(toHost', blockNumber)
      PROVE  Inv'
  <2>1. Types'
    BY <1>1, <1>2 DEF Inv, Types
  <2>2. LoaderInv' /\ HostInv'
    BY <1>1 DEF Inv, LoaderInv, HostInv, AckedBlocksArrived, Connecting
  <2>3. LineInv'
    <3>1. Connecting => toHost' \in Seq({DLREQ})
      BY <1>2 DEF Inv, LineInv
    <3>2. Connecting /\ host \in {"sending", "jumping"} => toLoader' \in Seq(ToLoader(jump) \ {BootAck(jump)})
      BY <1>2 DEF Inv, LineInv
    <3>3. pc # "launched" =>
            /\ Ordered(toHost', blockNumber)
            /\ blockNumber = 0 /\ host \in {"sending", "jumping"} => toHost' \in Seq({DLREQ})
            /\ host = "jumping" /\ ~jump => toHost' \in Seq({DLREQ, BlockAck(LastBlock)})
      BY <1>2 DEF Inv, LineInv
    <3> QED BY <1>1, <3>1, <3>2, <3>3 DEF LineInv, Connecting
  <2> QED BY <2>1, <2>2, <2>3 DEF Inv
<1>3. toLoader \in Seq(ToLoader(jump)) /\ toHost \in Seq(ToHost(blockNumber))
      /\ DOMAIN toLoader = 1 .. Len(toLoader) /\ DOMAIN toHost = 1 .. Len(toHost)
  BY LenProperties DEF Inv, Types
<1>4. CASE LosesPacket
  <2>1. PICK i \in 1 .. Len(toLoader) : toLoader' = RemoveAt(toLoader, i)
    BY <1>3, <1>4 DEF LosesPacket
  <2>2. \A S : toLoader \in Seq(S) => toLoader' \in Seq(S)
    BY <2>1, RemoveAtProps
  <2>3. toHost' = toHost
    BY <1>4 DEF LosesPacket
  <2> QED BY <1>2, <1>3, <2>2, <2>3
<1>5. CASE LosesAnswer
  <2>1. PICK i \in 1 .. Len(toHost) : toHost' = RemoveAt(toHost, i)
    BY <1>3, <1>5 DEF LosesAnswer
  <2>2. \A S : toHost \in Seq(S) => toHost' \in Seq(S)
    BY <2>1, RemoveAtProps
  <2>3. Ordered(toHost, blockNumber) => Ordered(toHost', blockNumber)
    BY <1>3, <2>1, OrderedRemove
  <2>4. toLoader' = toLoader
    BY <1>5 DEF LosesAnswer
  <2> QED BY <1>2, <1>3, <2>2, <2>3, <2>4
<1>6. CASE DamagesPacket
  <2>1. PICK i \in 1 .. Len(toLoader), p \in {Other, Error, Cut(1), Cut(2)} :
            toLoader' = [toLoader EXCEPT ![i] = p]
    BY <1>3, <1>6 DEF DamagesPacket
  <2>2. p \in ToLoader(jump) \ {BootAck(jump)}
    BY <2>1 DEF ToLoader, Other, Error, Cut, BootAck, Packet
  <2>3. \A S : toLoader \in Seq(S) /\ p \in S => toLoader' \in Seq(S)
    BY <2>1, ExceptSeq
  <2>4. toHost' = toHost
    BY <1>6 DEF DamagesPacket
  <2> QED BY <1>2, <1>3, <2>2, <2>3, <2>4
<1> QED BY <1>4, <1>5, <1>6

LEMMA InvStep == Inv /\ [Next]_vars => Inv'
<1> SUFFICES ASSUME Inv, [Next]_vars PROVE Inv'
  OBVIOUS
<1>1. CASE UNCHANGED vars
  BY <1>1 DEF vars, loaderVars, hostVars, Inv, Types, LoaderInv, LineInv, HostInv, AckedBlocksArrived,
              Connecting
<1>2. CASE Next
  BY <1>2, BootRequestStep, BootAckStep, ReadStep, BlockStep, CopyStep, LaunchStep, JumpStep,
     HostBootsStep, HostAckedStep, HostTimesOutStep, LineStep DEF Next
<1> QED BY <1>1, <1>2

(* The loader and the host agree on how far the download is: what the loader  *)
(* has is the beginning of the image, and the acknowledgements on the line    *)
(* are of blocks it has, in their order.                                      *)
THEOREM DownloadInvariant == Spec => []Inv
<1> QED BY InvInit, InvStep, PTL DEF Spec

(* The host goes on only from blocks OEMReadData has received, and takes the  *)
(* image for running only when OEMLaunch has been ordered to jump, although   *)
(* three kinds of acknowledgements have the number of block 0.                *)
THEOREM BlocksArrived == Spec => []AckedBlocksArrived
<1>1. Inv => AckedBlocksArrived
  BY DEF Inv, HostInv
<1> QED BY <1>1, DownloadInvariant, PTL

-----------------------------------------------------------------------------
(* The loader implements ImageTransfer.                                       *)

LEMMA SamePrefix == \A s, t : Promise!IsPrefix(s, t) <=> IsPrefix(s, t)
BY DEF Promise!IsPrefix, IsPrefix

LEMMA TransferInit == Init => Promise!SInit
BY DEF Init, Promise!SInit

LEMMA TransferStep == Inv /\ [Next]_vars => [Promise!SNext]_(Promise!svars)
<1> SUFFICES ASSUME Inv, [Next]_vars PROVE Promise!SNext \/ UNCHANGED Promise!svars
  OBVIOUS
<1>1. jump' = jump
  BY DEF Next, SerialSendBootRequest, WaitForBootAck, WaitForBootAckTimesOut, OEMReadData, ReceiveBlock,
         CopyData, OEMLaunch, WaitForJump, HostBoots, HostAcked, HostTimesOut, LosesPacket, LosesAnswer,
         DamagesPacket, Fault, vars, hostVars
<1>2. ASSUME memory' = memory, (pc = "launched") = (pc' = "launched")
      PROVE  UNCHANGED Promise!svars
  BY <1>1, <1>2 DEF Promise!svars
<1>3. CASE CopyData
  <2>1. /\ pc = "data" /\ pc' \in {"image", "data"} /\ blockNumber' = blockNumber
    BY <1>3 DEF CopyData
  <2>2. ~jump
    BY <2>1 DEF Inv, LoaderInv
  <2>3. /\ memory' # memory /\ IsPrefix(memory, memory')
        /\ memory' \in Seq(Byte) /\ dataBuffer' \in Seq(Byte)
    BY <1>3, CopyProps
  <2>4. IsPrefix(memory', Image)
    <3>1. memory' \o dataBuffer' = Parts[blockNumber] /\ blockNumber \in 0 .. LastBlock + 1
      BY <1>3, CopyProps DEF Inv, LoaderInv, Types
    <3>2. LastBlock + 1 \in 0 .. LastBlock + 1
      BY LastProps
    <3>3. Parts[blockNumber] \in Seq(Byte) /\ Image \in Seq(Byte) /\ IsPrefix(Parts[blockNumber], Image)
      BY <3>1, <3>2, PartsProps
    <3>4. IsPrefix(memory', memory' \o dataBuffer')
      BY <2>3, PrefixProps
    <3> QED BY <2>3, <3>1, <3>3, <3>4, PrefixTransitive
  <2>5. Promise!Fill
    BY <1>1, <2>1, <2>2, <2>3, <2>4, SamePrefix DEF Promise!Fill
  <2> QED BY <2>5 DEF Promise!SNext
<1>4. CASE WaitForJump
  <2>1. CASE pc' = pc
    BY <1>2, <1>4, <2>1 DEF WaitForJump
  <2>2. CASE pc' # pc
    <3>1. pc = "waitJump" /\ pc' = "launched" /\ memory' = memory
      BY <1>4, <2>2 DEF WaitForJump
    <3>2. jump => memory = << >>
      <4>1. jump => memory \o dataBuffer = << >> /\ memory \in Seq(Byte) /\ dataBuffer \in Seq(Byte)
        BY PartsProps DEF Inv, LoaderInv, Types
      <4> QED BY <4>1, ConcatEqualIffEmpty
    <3>3. memory = IF jump THEN << >> ELSE Image
      BY <3>1, <3>2 DEF Inv, LoaderInv
    <3>4. Promise!Launch
      BY <1>1, <3>1, <3>3 DEF Promise!Launch
    <3> QED BY <3>4 DEF Promise!SNext
  <2> QED BY <2>1, <2>2
<1>5. CASE SerialSendBootRequest \/ WaitForBootAck \/ WaitForBootAckTimesOut
           \/ (\E cbData \in 1 .. MaxRead : OEMReadData(cbData)) \/ ReceiveBlock \/ OEMLaunch
  <2>1. memory' = memory /\ pc # "launched" /\ pc' # "launched"
    BY <1>5 DEF SerialSendBootRequest, WaitForBootAck, WaitForBootAckTimesOut, OEMReadData,
                ReceiveBlock, OEMLaunch
  <2> QED BY <1>2, <2>1
<1>6. CASE HostBoots \/ HostAcked \/ HostTimesOut \/ LosesPacket \/ LosesAnswer \/ DamagesPacket
           \/ UNCHANGED vars
  <2>1. UNCHANGED loaderVars
    BY <1>6 DEF HostBoots, HostAcked, HostTimesOut, LosesPacket, LosesAnswer, DamagesPacket, Fault, vars
  <2> QED BY <1>2, <2>1 DEF loaderVars
<1> QED BY <1>3, <1>4, <1>5, <1>6 DEF Next

(* The bytes that OEMReadData hands over are the image from its beginning,    *)
(* whatever the line does and however the reads cut the blocks, and OEMLaunch *)
(* jumps only into the whole of it, or into the image of an earlier download  *)
(* when the host has asked for that.                                          *)
THEOREM TransferImplemented == Spec => ImplementsTransfer
<1>1. Spec => Promise!SInit
  BY TransferInit DEF Spec
<1>2. Spec => [][Promise!SNext]_(Promise!svars)
  BY DownloadInvariant, TransferStep, PTL DEF Spec
<1> QED BY <1>1, <1>2 DEF ImplementsTransfer, Promise!SSpec
=============================================================================
