-------------------------- MODULE TransferTDs_proofs --------------------------
(* Proofs about the TDs of a pipe, for any packet size, any sizes and any     *)
(* number of transfers.                                                       *)
EXTENDS TransferTDs, SequenceLemmas

(* The bytes of a list of TDs.                                                *)
LEMMA SumAppend ==
  ASSUME NEW s \in Seq(Nat), NEW e \in Nat
  PROVE  Sum(s) \in Nat /\ Sum(Append(s, e)) = Sum(s) + e
BY TotalAppend DEF Sum, Total

LEMMA SumEmpty == Sum(<< >>) = 0
BY TotalEmpty DEF Sum, Total

-----------------------------------------------------------------------------
(* The number of data TDs, and how much the k-th of them takes.               *)
LEMMA Multiples ==
  ASSUME NEW a \in Nat, NEW b \in Nat, NEW p \in Nat
  PROVE  /\ a * p \in Nat
         /\ (a + 1) * p = a * p + p
         /\ a <= b => a * p <= b * p
<1>1. a * p \in Nat /\ (a + 1) * p = a * p + p
  OBVIOUS
<1>2. ASSUME a <= b PROVE a * p <= b * p
  <2>1. PICK c \in Nat : b = a + c
    <3>1. b - a \in Nat /\ b = a + (b - a)
      BY <1>2
    <3> QED BY <3>1
  <2>2. b * p = a * p + c * p /\ c * p \in Nat /\ b * p \in Nat
    BY <2>1
  <2> QED BY <1>1, <2>2
<1> QED BY <1>1, <1>2

LEMMA DataTDsProps ==
  ASSUME NEW size \in Nat
  PROVE  /\ DataTDs(size) \in Nat
         /\ size = 0 <=> DataTDs(size) = 0
         /\ size > 0 => (DataTDs(size) - 1) * Packet < size
         /\ size <= DataTDs(size) * Packet
<1>1. Packet \in Nat /\ Packet > 0
  BY TDAssumption
<1>2. PICK q \in Nat, r \in 0..(Packet - 1) :
         q = size \div Packet /\ r = size % Packet /\ size = q * Packet + r
  <2>1. size \div Packet \in Nat /\ size % Packet \in 0..(Packet - 1)
        /\ size = (size \div Packet) * Packet + (size % Packet)
    BY <1>1
  <2> QED BY <2>1
<1>3. q * Packet \in Nat /\ (q + 1) * Packet = q * Packet + Packet
  BY <1>1, <1>2, Multiples
<1>4. q > 0 => Packet <= q * Packet
  <2>1. q > 0 => 1 <= q /\ 1 \in Nat
    BY <1>2
  <2>2. 1 * Packet = Packet
    BY <1>1
  <2> QED BY <1>1, <1>2, <2>1, <2>2, Multiples
<1>5. CASE r = 0
  <2>1. DataTDs(size) = q
    BY <1>2, <1>5 DEF DataTDs
  <2>2. q > 0 => (q - 1) * Packet < size
    <3>1. ASSUME q > 0 PROVE (q - 1) * Packet + Packet = q * Packet /\ (q - 1) * Packet \in Nat
      <4>1. q - 1 \in Nat /\ (q - 1) + 1 = q
        BY <1>2, <3>1
      <4> QED BY <1>1, <4>1, Multiples
    <3> QED BY <1>1, <1>2, <1>3, <1>5, <3>1
  <2>3. q = 0 => q * Packet = 0
    BY <1>1
  <2>4. size = q * Packet
    BY <1>2, <1>3, <1>5
  <2>5. q > 0 => size > 0
    BY <1>1, <1>3, <1>4, <2>4
  <2> QED BY <1>2, <1>3, <2>1, <2>2, <2>3, <2>4, <2>5
<1>6. CASE r # 0
  <2>1. DataTDs(size) = q + 1 /\ (q + 1) - 1 = q
    BY <1>2, <1>6 DEF DataTDs
  <2> QED BY <1>1, <1>2, <1>3, <1>6, <2>1
<1> QED BY <1>5, <1>6

-----------------------------------------------------------------------------
(* The TD list of a transfer: from the first TD on the toggles alternate, but *)
(* for the status stage of a control transfer, which has 1.                   *)
Transfer == [size : Sizes, in : BOOLEAN, shortOK : BOOLEAN, toggle : Seq(Toggles)]

ListOK(x) ==
  LET n == Len(x.toggle) IN
    /\ n = NumTDs(x.size)
    /\ kind = "bulk" => \A i \in 1..n : i < n => x.toggle[i + 1] = 1 - x.toggle[i]
    /\ kind = "control" => \A i \in 1..n :
          x.toggle[i] = IF i = n THEN 1 ELSE (i - 1) % 2

Reports == [error : Errors, exact : BOOLEAN, enough : BOOLEAN, last : BOOLEAN, inSync : BOOLEAN]

Types ==
    /\ kind \in {"bulk", "control"}
    /\ queue \in Seq(Transfer)
    /\ inProgress \in BOOLEAN
    /\ vlink \in Nat
    /\ active \subseteq Nat
    /\ actual \in Seq(Nat)
    /\ status \in {"none", "short", "stall", "error"}
    /\ toggleC \in Toggles /\ toggleQ \in Toggles /\ devToggle \in Toggles
    /\ halted \in BOOLEAN /\ devHalted \in BOOLEAN /\ inSync \in BOOLEAN
    /\ aborting \in Nat \cup {-1}
    /\ report \in Reports
    /\ moved \in Nat

LastTD == Len(queue[1].toggle)

(* The transfer at the head of the queue is the one the controller is at; it  *)
(* has been to the end of the list only after it was at the last TD.          *)
QueueInv ==
    /\ inProgress <=> queue # << >>
    /\ \A i \in 1..Len(queue) : ListOK(queue[i])
    /\ ~inProgress => vlink = 0 /\ aborting = 0 /\ active = {}
    /\ inProgress => vlink \in 0..LastTD /\ active \subseteq 1..LastTD
    /\ status # "none" => vlink # 0
    /\ status = "short" => IsData(vlink)
    /\ aborting # 0 => inProgress /\ vlink = 0 /\ ~inSync
    /\ aborting > 0 => aborting <= LastTD
    /\ inProgress /\ aborting = 0 /\ vlink = 0 => LastTD \notin active

(* The toggle the device is at, and the one the driver believes it has been   *)
(* at when no transfer is under way.                                          *)
ToggleInv ==
    /\ kind = "bulk" /\ inSync /\ ~devHalted =>
          /\ ~inProgress => devToggle = 1 - toggleC
          /\ inProgress /\ vlink = 0 => devToggle = 1 - queue[1].toggle[LastTD]
          /\ vlink # 0 /\ status \in {"none", "error"} => devToggle = queue[1].toggle[vlink]
          /\ status = "short" => devToggle = 1 - queue[1].toggle[vlink]
    /\ kind = "bulk" /\ status = "stall" => devHalted
    /\ kind = "control" =>
          /\ ~devHalted
          /\ inProgress /\ status = "none" /\ vlink \in 2..(LastTD - 1) => devToggle = (vlink - 1) % 2

(* What has gone over the bus is what the TDs say, and, until a packet is     *)
(* short, as much as the TDs executed hold.                                   *)
MovedInv ==
    kind = "bulk" /\ inSync /\ inProgress =>
        /\ status = "none" /\ vlink # 0 => moved = (vlink - 1) * Packet /\ Len(actual) = vlink - 1
        /\ status \in {"none", "short"} => Sum(actual) = moved
        /\ vlink = 0 => moved = queue[1].size

Inv == Types /\ QueueInv /\ ToggleInv /\ MovedInv /\ BulkReportsMoved /\ ReportedAfterStatusStage
-----------------------------------------------------------------------------
(* Transfers and their lists.                                                 *)

Kind == kind \in {"bulk", "control"}

LEMMA NumTDsProps ==
  ASSUME Kind, NEW size \in Sizes
  PROVE  /\ NumTDs(size) \in Nat \ {0}
         /\ kind = "control" => NumTDs(size) = DataTDs(size) + 2
         /\ kind = "bulk" => \/ size = 0 /\ NumTDs(size) = 1
                             \/ size > 0 /\ NumTDs(size) = DataTDs(size)
<1>1. size \in Nat
  BY TDAssumption
<1>2. DataTDs(size) \in Nat /\ (size = 0 <=> DataTDs(size) = 0)
  BY <1>1, DataTDsProps
<1> QED BY <1>1, <1>2 DEF NumTDs, Kind

LEMMA NewTransferOK ==
  ASSUME Types, NEW size \in Sizes, NEW in \in BOOLEAN, NEW shortOK \in BOOLEAN
  PROVE  LET x == NewTransfer(size, in, shortOK) IN
           x \in Transfer /\ ListOK(x) /\ x.toggle[Len(x.toggle)] \in Toggles
<1> DEFINE n == NumTDs(size)
           t == [i \in 1..n |-> ToggleOf(i, n)]
           x == NewTransfer(size, in, shortOK)
<1>1. n \in Nat \ {0}
  BY NumTDsProps DEF Types, Kind
<1> HIDE DEF n
<1>2. ASSUME NEW i \in 1..n PROVE ToggleOf(i, n) \in Toggles
  <2>1. toggleQ \in {0, 1} /\ kind \in {"bulk", "control"}
    BY DEF Types, Toggles
  <2>2. (toggleQ + i) % 2 \in {0, 1} /\ (i - 1) % 2 \in {0, 1}
    BY <1>1, <2>1
  <2> QED BY <2>1, <2>2 DEF ToggleOf, Toggles
<1>3. t \in Seq(Toggles) /\ Len(t) = n
  BY <1>1, <1>2
<1>4. x = [size |-> size, in |-> in, shortOK |-> shortOK, toggle |-> t]
  BY DEF NewTransfer, n
<1>5. x \in Transfer /\ x.toggle = t /\ x.size = size
  BY <1>3, <1>4 DEF Transfer
<1>6. \A i \in 1..n : t[i] = ToggleOf(i, n)
  OBVIOUS
<1> HIDE DEF t, x
<1>7. ASSUME kind = "bulk", NEW i \in 1..n, i < n PROVE t[i + 1] = 1 - t[i]
  <2>1. i + 1 \in 1..n
    BY <1>1, <1>7
  <2>2. t[i] = (toggleQ + i) % 2 /\ t[i + 1] = (toggleQ + (i + 1)) % 2
    BY <1>6, <1>7, <2>1 DEF ToggleOf
  <2>3. toggleQ \in {0, 1} /\ i \in Nat
    BY <1>1 DEF Types, Toggles
  <2> QED BY <2>2, <2>3
<1>8. ASSUME kind = "control", NEW i \in 1..n
      PROVE  t[i] = IF i = n THEN 1 ELSE (i - 1) % 2
  BY <1>6, <1>8 DEF ToggleOf
<1>9. ListOK(x)
  BY <1>3, <1>5, <1>7, <1>8 DEF ListOK, n
<1>10. n \in 1..n /\ t[n] \in Toggles
  BY <1>1, <1>2, <1>6
<1> QED BY <1>3, <1>5, <1>9, <1>10 DEF x

(* The toggles of a transfer may be flipped.                                  *)
LEMMA InStepOK ==
  ASSUME Types, NEW x \in Transfer, ListOK(x), NEW c \in Toggles
  PROVE  /\ InStep(x, c) \in Transfer /\ ListOK(InStep(x, c))
         /\ InStep(x, c).size = x.size
         /\ Len(InStep(x, c).toggle) = Len(x.toggle)
         /\ Len(x.toggle) \in Nat \ {0} /\ DOMAIN x.toggle = 1..Len(x.toggle)
         /\ kind = "bulk" => InStep(x, c).toggle[1] = 1 - c
<1> DEFINE n == Len(x.toggle)
           t == x.toggle
           u == [i \in DOMAIN t |-> 1 - t[i]]
<1>1. /\ n \in Nat \ {0} /\ DOMAIN t = 1..n /\ t \in Seq(Toggles) /\ x.size \in Sizes
      /\ \A i \in 1..n : t[i] \in {0, 1}
  <2>1. t \in Seq(Toggles) /\ x.size \in Sizes
    BY DEF Transfer
  <2>2. n \in Nat \ {0}
    BY <2>1, NumTDsProps DEF ListOK, Types, Kind
  <2> QED BY <2>1, <2>2, ElementOfSeq, LenProperties DEF Toggles
<1> HIDE DEF n, t
<1>2. CASE kind = "bulk" /\ t[1] = c
  <2>1. u \in Seq(Toggles) /\ Len(u) = n /\ \A i \in 1..n : u[i] = 1 - t[i]
    BY <1>1 DEF Toggles
  <2>2. InStep(x, c) = [x EXCEPT !.toggle = u]
    BY <1>2 DEF InStep, t
  <2>3. InStep(x, c) \in Transfer /\ InStep(x, c).toggle = u /\ InStep(x, c).size = x.size
    BY <2>1, <2>2 DEF Transfer
  <2>4. ASSUME NEW i \in 1..n, i < n PROVE u[i + 1] = 1 - u[i]
    <3>1. i + 1 \in 1..n /\ t[i + 1] = 1 - t[i]
      BY <1>1, <1>2, <2>4 DEF ListOK, n, t
    <3> QED BY <1>1, <2>1, <3>1
  <2>5. n = NumTDs(x.size)
    BY DEF ListOK, n
  <2>6. ListOK(InStep(x, c))
    BY <1>2, <2>1, <2>3, <2>4, <2>5 DEF ListOK
  <2>7. u[1] = 1 - c
    BY <1>1, <1>2, <2>1
  <2> QED BY <1>1, <2>1, <2>3, <2>6, <2>7 DEF n, t
<1>3. CASE ~(kind = "bulk" /\ t[1] = c)
  <2>1. InStep(x, c) = x
    BY <1>3 DEF InStep, t
  <2>2. kind = "bulk" => t[1] = 1 - c
    <3>1. t[1] \in {0, 1} /\ c \in {0, 1}
      BY <1>1 DEF Toggles
    <3> QED BY <1>3, <3>1
  <2> QED BY <1>1, <2>1, <2>2 DEF n, t
<1> QED BY <1>2, <1>3
(* What the TD under the controller takes or sends.                           *)
LEMMA HeadProps ==
  ASSUME Types, QueueInv, inProgress
  PROVE  /\ 1 \in 1..Len(queue) /\ queue[1] \in Transfer /\ ListOK(queue[1])
         /\ queue[1].toggle \in Seq(Toggles) /\ queue[1].size \in Sizes /\ queue[1].size \in Nat
         /\ LastTD \in Nat \ {0} /\ LastTD = NumTDs(queue[1].size)
         /\ kind = "control" => LastTD > 1
         /\ \A i \in 1..LastTD : queue[1].toggle[i] \in Toggles
         /\ queue # << >> /\ Tail(queue) \in Seq(Transfer)
         /\ \A i \in 1..Len(Tail(queue)) : ListOK(Tail(queue)[i])
<1>1. Len(queue) \in Nat \ {0} /\ 1 \in 1..Len(queue) /\ queue[1] \in Transfer
  BY EmptySeq, ElementOfSeq, LenProperties DEF Types, QueueInv
<1>2. ListOK(queue[1]) /\ queue[1].toggle \in Seq(Toggles) /\ queue[1].size \in Sizes
  BY <1>1 DEF QueueInv, Transfer
<1>3. queue[1].size \in Nat /\ DataTDs(queue[1].size) \in Nat
  BY <1>2, TDAssumption, DataTDsProps
<1>4. LastTD = NumTDs(queue[1].size) /\ LastTD \in Nat \ {0}
      /\ (kind = "control" => LastTD > 1)
  BY <1>2, <1>3, NumTDsProps DEF ListOK, LastTD, Types, Kind
<1>5. \A i \in 1..LastTD : queue[1].toggle[i] \in Toggles
  BY <1>2, ElementOfSeq DEF LastTD
<1>6. queue # << >> /\ Tail(queue) \in Seq(Transfer) /\ Len(Tail(queue)) = Len(queue) - 1
      /\ \A i \in 1..Len(Tail(queue)) : Tail(queue)[i] = queue[i + 1]
  BY HeadTailProperties DEF Types, QueueInv
<1>7. ASSUME NEW i \in 1..Len(Tail(queue)) PROVE ListOK(Tail(queue)[i])
  <2>1. i + 1 \in 1..Len(queue)
    BY <1>1, <1>6
  <2> QED BY <1>6, <2>1 DEF QueueInv
<1> QED BY <1>1, <1>2, <1>3, <1>4, <1>5, <1>6, <1>7

LEMMA MaxLengthProps ==
  ASSUME Types, QueueInv, inProgress, NEW k \in 1..LastTD
  PROVE  /\ MaxLength(k) \in Nat
         /\ kind = "bulk" => /\ k < LastTD => MaxLength(k) = Packet
                             /\ k = LastTD => MaxLength(k) = queue[1].size - (k - 1) * Packet
                             /\ (k - 1) * Packet \in Nat
<1> DEFINE size == queue[1].size
           D == DataTDs(size)
           M(d) == IF size - (d - 1) * Packet < Packet THEN size - (d - 1) * Packet ELSE Packet
<1>0. Packet \in Nat /\ Packet > 0 /\ SetupLength \in Nat
  BY TDAssumption
<1>1. /\ size \in Nat /\ size \in Sizes /\ LastTD \in Nat \ {0} /\ LastTD = NumTDs(size)
      /\ kind = "control" => LastTD > 1
  BY HeadProps
<1>2. /\ D \in Nat /\ (size = 0 <=> D = 0) /\ (size > 0 => (D - 1) * Packet < size)
      /\ size <= D * Packet
  BY <1>1, DataTDsProps
<1>3. /\ kind = "control" => LastTD = D + 2
      /\ kind = "bulk" => (size = 0 /\ LastTD = 1) \/ (size > 0 /\ LastTD = D)
  BY <1>1, NumTDsProps DEF Types, Kind
<1> HIDE DEF size, D
<1>4. ASSUME NEW d \in Nat, d > 0, d <= D
      PROVE  /\ M(d) \in Nat /\ (d - 1) * Packet \in Nat
             /\ d < D => M(d) = Packet
             /\ d = D => M(d) = size - (d - 1) * Packet
  <2>0. d - 1 \in Nat /\ (d - 1) + 1 = d
    BY <1>4
  <2>1. PICK m \in Nat : m = (d - 1) * Packet /\ d * Packet = m + Packet
    BY <1>0, <2>0, Multiples
  <2>2. CASE d = D
    <3>1. (D - 1) * Packet = m /\ D * Packet = m + Packet /\ D # 0
      BY <1>4, <2>1, <2>2
    <3>2. m < size /\ size <= m + Packet
      BY <1>1, <1>2, <3>1 DEF size
    <3> QED BY <1>0, <1>1, <2>1, <2>2, <3>2 DEF size
  <2>3. CASE d < D
    <3>1. D - 1 \in Nat /\ d <= D - 1 /\ D # 0
      BY <1>2, <2>3
    <3>2. d * Packet <= (D - 1) * Packet /\ (D - 1) * Packet \in Nat
      BY <1>0, <3>1, Multiples
    <3>3. (D - 1) * Packet < size
      BY <1>1, <1>2, <3>1 DEF size
    <3>4. m + Packet < size
      BY <1>0, <1>1, <2>1, <3>2, <3>3 DEF size
    <3> QED BY <1>0, <1>1, <2>1, <2>3, <3>4 DEF size
  <2> QED BY <1>2, <1>4, <2>2, <2>3
<1>5. CASE kind = "bulk"
  <2>1. MaxLength(k) = M(k)
    BY <1>5 DEF MaxLength, IsData, size
  <2>2. CASE size > 0
    <3>1. k \in Nat /\ k > 0 /\ k <= D /\ LastTD = D
      BY <1>1, <1>2, <1>3, <1>5, <2>2
    <3> QED BY <1>4, <2>1, <3>1 DEF size
  <2>3. CASE size = 0
    <3>1. k = 1 /\ LastTD = 1
      BY <1>1, <1>3, <1>5, <2>3
    <3>2. (1 - 1) * Packet = 0
      BY <1>0
    <3>3. M(k) = 0
      BY <1>0, <2>3, <3>1, <3>2
    <3> QED BY <2>1, <2>3, <3>1, <3>2, <3>3 DEF size
  <2> QED BY <1>1, <2>2, <2>3
<1>6. CASE kind = "control"
  <2>1. CASE IsData(k)
    <3>1. PICK d \in Nat : d = k - 1 /\ d > 0 /\ d <= D
      BY <1>1, <1>2, <1>3, <1>6, <2>1 DEF IsData, LastTD
    <3>2. MaxLength(k) = M(d)
      BY <1>6, <2>1, <3>1 DEF MaxLength, size
    <3> QED BY <1>4, <1>6, <3>1, <3>2
  <2>2. CASE ~IsData(k)
    BY <1>0, <1>6, <2>2 DEF MaxLength
  <2> QED BY <2>1, <2>2
<1> QED BY <1>5, <1>6 DEF Types

(* A TD that takes or sends n bytes.                                          *)
LEMMA TakenProps ==
  ASSUME Types, QueueInv, inProgress, NEW k \in 1..LastTD, NEW n \in Nat, Taken(k, n)
  PROVE  /\ actual' \in Seq(Nat) /\ devToggle' \in Toggles /\ moved' \in Nat
         /\ active' \subseteq Nat /\ active' \subseteq 1..LastTD /\ k \notin active'
         /\ kind = "bulk" => devToggle' = 1 - devToggle /\ moved' = moved + n
         /\ Len(actual) = k - 1 => Len(actual') = k /\ Sum(actual') = Sum(actual) + n
<1> DEFINE a == [i \in 1..k |-> IF i \in DOMAIN actual THEN actual[i] ELSE IF i = k THEN n ELSE 0]
<1>1. k \in Nat /\ LastTD \in Nat
  BY HeadProps
<1>2. Len(actual) \in Nat /\ DOMAIN actual = 1..Len(actual) /\ \A i \in 1..Len(actual) : actual[i] \in Nat
  BY ElementOfSeq, LenProperties DEF Types
<1>3. a \in [1..k -> Nat]
  BY <1>2
<1>4. a \in Seq(Nat) /\ Len(a) = k /\ actual' = a
  <2>1. a \in Seq(Nat)
    BY <1>1, <1>3
  <2>2. DOMAIN a = 1..Len(a) /\ Len(a) \in Nat
    BY <2>1, LenProperties
  <2> QED BY <1>1, <2>1, <2>2 DEF Taken
<1>5. ASSUME Len(actual) = k - 1 PROVE a = Append(actual, n)
  <2>1. /\ Append(actual, n) \in Seq(Nat) /\ Len(Append(actual, n)) = k
        /\ \A i \in 1..(k - 1) : Append(actual, n)[i] = actual[i]
        /\ Append(actual, n)[k] = n
    BY <1>1, <1>5, AppendProperties DEF Types
  <2>2. ASSUME NEW i \in 1..k PROVE a[i] = Append(actual, n)[i]
    <3>1. i \in DOMAIN actual <=> i \in 1..(k - 1)
      BY <1>2, <1>5
    <3>2. i \in 1..(k - 1) \/ (i = k /\ i \notin 1..(k - 1))
      BY <1>1
    <3> QED BY <2>1, <3>1, <3>2
  <2> HIDE DEF a
  <2> QED BY <1>4, <2>1, <2>2, SeqEqual
<1> HIDE DEF a
<1>6. Len(actual) = k - 1 => Len(actual') = k /\ Sum(actual') = Sum(actual) + n
  BY <1>4, <1>5, SumAppend DEF Types
<1>7. devToggle' \in Toggles /\ moved' \in Nat
      /\ (kind = "bulk" => devToggle' = 1 - devToggle /\ moved' = moved + n)
  BY DEF Taken, Types, Toggles, IsData
<1>8. active' \subseteq Nat /\ active' \subseteq 1..LastTD /\ k \notin active'
  BY DEF Taken, Types, QueueInv
<1> QED BY <1>4, <1>6, <1>7, <1>8
-----------------------------------------------------------------------------
(* ScheduleTransfer begins with the transfer at the head of what is queued.   *)
AllOK(q) == q \in Seq(Transfer) /\ \A i \in 1..Len(q) : ListOK(q[i])

LEMMA AllOKKept ==
  ASSUME kind' = kind, AllOK(queue')
  PROVE  AllOK(queue)'
BY DEF AllOK, ListOK, NumTDs

LEMMA ScheduleQueue ==
  ASSUME Types, NEW q, AllOK(q), NEW c \in Toggles, Schedule(q, c)
  PROVE  /\ AllOK(queue') /\ (queue' = << >> <=> q = << >>)
         /\ q # << >> => /\ queue'[1].size = q[1].size
                         /\ Len(queue'[1].toggle) \in Nat \ {0}
                         /\ active' = 1..Len(queue'[1].toggle)
                         /\ kind = "bulk" => queue'[1].toggle[1] = 1 - c
<1>1. CASE q = << >>
  BY <1>1 DEF Schedule
<1>2. CASE q # << >>
  <2> DEFINE x == InStep(q[1], c)
  <2>1. q[1] \in Transfer /\ ListOK(q[1]) /\ Len(q) \in Nat \ {0} /\ q \in Seq(Transfer)
    BY <1>2, EmptySeq, ElementOfSeq, LenProperties DEF AllOK
  <2>2. /\ x \in Transfer /\ ListOK(x) /\ x.size = q[1].size
        /\ Len(x.toggle) = Len(q[1].toggle) /\ Len(x.toggle) \in Nat \ {0}
        /\ DOMAIN q[1].toggle = 1..Len(x.toggle)
        /\ kind = "bulk" => x.toggle[1] = 1 - c
    BY <2>1, InStepOK
  <2> HIDE DEF x
  <2>3. /\ Tail(q) \in Seq(Transfer) /\ Len(Tail(q)) = Len(q) - 1
        /\ \A i \in 1..Len(Tail(q)) : Tail(q)[i] = q[i + 1]
    BY <1>2, <2>1, HeadTailProperties
  <2>4. <<x>> \in Seq(Transfer) /\ Len(<<x>>) = 1 /\ <<x>>[1] = x
    BY <2>2
  <2>5. queue' = <<x>> \o Tail(q) /\ active' = 1..Len(x.toggle)
    BY <1>2, <2>2 DEF Schedule, x
  <2>6. /\ queue' \in Seq(Transfer) /\ Len(queue') = 1 + (Len(q) - 1)
        /\ \A i \in 1..(1 + (Len(q) - 1)) :
              queue'[i] = IF i <= 1 THEN <<x>>[i] ELSE Tail(q)[i - 1]
    BY <2>3, <2>4, <2>5, ConcatProperties
  <2>7. Len(queue') = Len(q) /\ queue'[1] = x /\ queue' # << >>
    BY <2>1, <2>4, <2>6, EmptySeq
  <2>8. ASSUME NEW i \in 1..Len(queue') PROVE ListOK(queue'[i])
    <3>1. CASE i = 1
      BY <2>2, <2>7, <3>1
    <3>2. CASE i # 1
      <4>1. i - 1 \in 1..Len(Tail(q)) /\ i \in 1..Len(q) /\ (i - 1) + 1 = i
            /\ i \in 1..(1 + (Len(q) - 1)) /\ ~(i <= 1)
        BY <2>1, <2>3, <2>7, <3>2
      <4>2. queue'[i] = Tail(q)[i - 1] /\ Tail(q)[i - 1] = q[i]
        BY <2>3, <2>6, <4>1
      <4> QED BY <4>1, <4>2 DEF AllOK
    <3> QED BY <3>1, <3>2
  <2> QED BY <1>2, <2>2, <2>5, <2>6, <2>7, <2>8 DEF AllOK
<1> QED BY <1>1, <1>2

LEMMA Scheduled ==
  ASSUME Types, NEW q, AllOK(q), NEW c \in Toggles, Schedule(q, c),
         kind' = kind, aborting' = 0, toggleC' = c,
         kind = "control" => ~devHalted',
         kind = "bulk" /\ inSync' /\ ~devHalted' => devToggle' = 1 - c
  PROVE  /\ queue' \in Seq(Transfer) /\ inProgress' \in BOOLEAN /\ vlink' \in Nat
         /\ active' \subseteq Nat /\ actual' \in Seq(Nat) /\ moved' \in Nat /\ status' = "none"
         /\ QueueInv' /\ ToggleInv' /\ MovedInv'
<1>1. /\ AllOK(queue') /\ (queue' = << >> <=> q = << >>)
      /\ q # << >> => /\ queue'[1].size = q[1].size
                      /\ Len(queue'[1].toggle) \in Nat \ {0}
                      /\ active' = 1..Len(queue'[1].toggle)
                      /\ kind = "bulk" => queue'[1].toggle[1] = 1 - c
  BY ScheduleQueue
<1>2. /\ inProgress' = (q # << >>) /\ actual' = << >> /\ status' = "none" /\ moved' = 0
      /\ vlink' = (IF q = << >> THEN 0 ELSE 1) /\ (q = << >> => active' = {})
  BY DEF Schedule
<1>3. kind \in {"bulk", "control"}
  BY DEF Types
<1>4. AllOK(queue)'
  BY <1>1, AllOKKept
<1>9. inProgress' \in BOOLEAN /\ (inProgress' <=> q # << >>)
  BY <1>2, Zenon
<1>5. QueueInv'
  <2>1. (\A i \in 1..Len(queue) : ListOK(queue[i]))'
    BY <1>4, Zenon DEF AllOK
  <2>2. CASE q = << >>
    <3>1. (inProgress <=> queue # << >>)' /\ vlink' = 0 /\ ~inProgress'
      BY <1>1, <1>2, <1>9, <2>2
    <3> QED BY <1>2, <2>1, <3>1 DEF QueueInv, LastTD
  <2>3. CASE q # << >>
    <3>1. (inProgress <=> queue # << >>)' /\ vlink' = 1 /\ inProgress'
      BY <1>1, <1>2, <1>9, <2>3
    <3>2. LastTD' \in Nat \ {0} /\ active' = 1..LastTD'
      BY <1>1, <2>3 DEF LastTD
    <3> QED BY <1>2, <2>1, <3>1, <3>2 DEF QueueInv
  <2> QED BY <2>2, <2>3
<1>6. ToggleInv'
  <2>1. kind = "bulk" /\ inSync' /\ ~devHalted' /\ inProgress' => devToggle' = queue'[1].toggle[vlink']
    BY <1>1, <1>2
  <2>2. vlink' \in {0, 1} /\ (vlink' = 0 <=> ~inProgress')
    BY <1>2, <1>9
  <2> QED BY <1>2, <1>3, <2>1, <2>2 DEF ToggleInv
<1>7. MovedInv'
  <2>1. (1 - 1) * Packet = 0 /\ Len(<< >>) = 0 /\ 1 - 1 = 0
    BY TDAssumption, EmptySeq
  <2>2. Sum(<< >>) = 0
    BY SumEmpty
  <2>3. Sum(actual)' = Sum(actual')
    OBVIOUS
  <2>4. inProgress' => vlink' = 1
    BY <1>2, <1>9
  <2> QED BY <1>2, <2>1, <2>2, <2>3, <2>4 DEF MovedInv
<1>8. actual' \in Seq(Nat) /\ moved' \in Nat /\ active' \subseteq Nat /\ vlink' \in Nat
  BY <1>1, <1>2, EmptySeq
<1> QED BY <1>1, <1>2, <1>9, <1>5, <1>6, <1>7, <1>8 DEF AllOK
-----------------------------------------------------------------------------
(* The client's steps.                                                        *)
Core == Types /\ QueueInv /\ ToggleInv /\ MovedInv

LEMMA QueueOK == ASSUME Core PROVE AllOK(queue)
BY DEF Core, Types, QueueInv, AllOK

(* Steps that change the queue behind its head, or the toggle of the next     *)
(* transfer to be issued.                                                     *)
LEMMA HeadKept ==
  ASSUME Core, AllOK(queue'), inProgress => queue' # << >> /\ queue'[1] = queue[1],
         ~inProgress => queue' = << >>, toggleQ' \in Toggles,
         UNCHANGED <<kind, inProgress, tdVars, moved, toggleC, halted, aborting, devToggle,
                     devHalted, inSync>>
  PROVE  /\ queue' \in Seq(Transfer) /\ QueueInv' /\ ToggleInv' /\ MovedInv'
<1>1. AllOK(queue)'
  BY AllOKKept
<1>2. (\A i \in 1..Len(queue) : ListOK(queue[i]))' /\ queue' \in Seq(Transfer)
  BY <1>1, Zenon DEF AllOK
<1>3. CASE inProgress
  <2>1. LastTD' = LastTD /\ IsData(vlink)' = IsData(vlink) /\ queue'[1] = queue[1]
    BY <1>3 DEF LastTD, IsData, tdVars
  <2>2. QueueInv'
    BY <1>2, <1>3, <2>1 DEF Core, QueueInv, tdVars
  <2>3. ToggleInv' /\ MovedInv'
    BY <1>3, <2>1 DEF Core, ToggleInv, MovedInv, tdVars
  <2> QED BY <1>2, <2>2, <2>3
<1>4. CASE ~inProgress
  <2>1. vlink = 0 /\ status = "none" /\ aborting = 0 /\ queue' = queue
    BY <1>4 DEF Core, QueueInv
  <2>2. QueueInv'
    BY <1>2, <1>4, <2>1 DEF Core, QueueInv, tdVars
  <2>3. ToggleInv' /\ MovedInv'
    BY <1>4, <2>1 DEF Core, ToggleInv, MovedInv, tdVars
  <2> QED BY <1>2, <2>2, <2>3
<1> QED BY <1>3, <1>4 DEF Core, Types

LEMMA IssueStep ==
  ASSUME Core, NEW x \in Transfer, ListOK(x), x.toggle[Len(x.toggle)] \in Toggles,
         IssueTransfer(x) \/ IssueRefused(x)
  PROVE  Core'
<1>1. /\ toggleQ' \in Toggles /\ kind' = kind /\ aborting = 0
      /\ UNCHANGED <<kind, toggleC, halted, aborting, report, devToggle, devHalted, inSync>>
  BY DEF IssueTransfer, IssueRefused, Core, Types, devVars
<1>2. CASE IssueTransfer(x) /\ inProgress
  <2>1. queue' = Append(queue, x) /\ UNCHANGED <<inProgress, tdVars, moved>>
    BY <1>2 DEF IssueTransfer
  <2>2. /\ queue \in Seq(Transfer) /\ Len(queue) \in Nat \ {0} /\ 1 \in 1..Len(queue)
        /\ \A i \in 1..Len(queue) : ListOK(queue[i])
    BY <1>2, QueueOK, EmptySeq, LenProperties DEF AllOK, Core, QueueInv
  <2>3. /\ queue' \in Seq(Transfer) /\ Len(queue') = Len(queue) + 1 /\ queue' # << >>
        /\ \A i \in 1..Len(queue) : queue'[i] = queue[i]
        /\ queue'[Len(queue) + 1] = x
    BY <2>1, <2>2, AppendProperties, EmptySeq
  <2>4. \A i \in 1..Len(queue') : ListOK(queue'[i])
    <3>1. \A i \in 1..Len(queue') : i \in 1..Len(queue) \/ i = Len(queue) + 1
      BY <2>2, <2>3
    <3> QED BY <2>2, <2>3, <3>1
  <2>5. AllOK(queue') /\ queue'[1] = queue[1]
    BY <2>2, <2>3, <2>4 DEF AllOK
  <2>6. queue' \in Seq(Transfer) /\ QueueInv' /\ ToggleInv' /\ MovedInv'
    BY <1>1, <1>2, <2>1, <2>3, <2>5, HeadKept
  <2> QED BY <1>1, <2>1, <2>6 DEF Core, Types, tdVars
<1>3. CASE IssueTransfer(x) /\ ~inProgress
  <2>1. Schedule(<<x>>, toggleC)
    BY <1>3 DEF IssueTransfer
  <2>2. AllOK(<<x>>)
    BY DEF AllOK
  <2>3. /\ kind = "control" => ~devHalted'
        /\ kind = "bulk" /\ inSync' /\ ~devHalted' => devToggle' = 1 - toggleC
    BY <1>1, <1>3 DEF Core, ToggleInv
  <2>4. /\ queue' \in Seq(Transfer) /\ inProgress' \in BOOLEAN /\ vlink' \in Nat
        /\ active' \subseteq Nat /\ actual' \in Seq(Nat) /\ moved' \in Nat /\ status' = "none"
        /\ QueueInv' /\ ToggleInv' /\ MovedInv'
    BY <1>1, <2>1, <2>2, <2>3, Scheduled DEF Core, Types
  <2> QED BY <1>1, <2>4 DEF Core, Types
<1>4. CASE IssueRefused(x)
  <2>1. UNCHANGED <<queue, inProgress, tdVars, moved>>
    BY <1>4 DEF IssueRefused, devVars
  <2>2. AllOK(queue') /\ (~inProgress => queue' = << >>) /\ (inProgress => queue' # << >>)
    BY <2>1, QueueOK DEF Core, QueueInv
  <2>3. queue' \in Seq(Transfer) /\ QueueInv' /\ ToggleInv' /\ MovedInv'
    BY <1>1, <2>1, <2>2, HeadKept
  <2> QED BY <1>1, <2>1, <2>3 DEF Core, Types, tdVars
<1> QED BY <1>2, <1>3, <1>4

LEMMA AbortQueuedStep ==
  ASSUME Core, NEW k \in 2..Len(queue), AbortQueued(k)
  PROVE  Core'
<1>1. /\ inProgress /\ queue' = RemoveAt(queue, k)
      /\ UNCHANGED <<kind, inProgress, tdVars, moved, toggleC, toggleQ, halted, aborting, report,
                     devToggle, devHalted, inSync>>
  BY DEF AbortQueued, devVars
<1>2. /\ queue \in Seq(Transfer) /\ Len(queue) \in Nat /\ k \in 1..Len(queue)
      /\ \A i \in 1..Len(queue) : ListOK(queue[i])
  BY LenProperties DEF Core, Types, QueueInv
<1>3. /\ queue' \in Seq(Transfer) /\ Len(queue') = Len(queue) - 1
      /\ \A i \in 1..(Len(queue) - 1) : queue'[i] = IF i < k THEN queue[i] ELSE queue[i + 1]
  BY <1>1, <1>2, RemoveAtProps
<1>4. \A i \in 1..Len(queue') : ListOK(queue'[i])
  <2>1. \A i \in 1..(Len(queue) - 1) : i \in 1..Len(queue) /\ i + 1 \in 1..Len(queue)
    BY <1>2
  <2> QED BY <1>2, <1>3, <2>1
<1>5. queue'[1] = queue[1] /\ queue' # << >>
  <2>1. 1 \in 1..(Len(queue) - 1) /\ 1 < k /\ Len(queue') > 0
    BY <1>2, <1>3
  <2> QED BY <1>3, <2>1, EmptySeq
<1>6. AllOK(queue') /\ toggleQ' \in Toggles
  BY <1>1, <1>3, <1>4 DEF AllOK, Core, Types
<1>7. queue' \in Seq(Transfer) /\ QueueInv' /\ ToggleInv' /\ MovedInv'
  BY <1>1, <1>5, <1>6, HeadKept
<1> QED BY <1>1, <1>7 DEF Core, Types, tdVars

LEMMA AbortCurrentStep == ASSUME Core, AbortCurrent PROVE Core'
<1>1. /\ inProgress /\ aborting = 0 /\ vlink' = 0 /\ status' = "none" /\ inSync' = FALSE
      /\ aborting' = (IF vlink # 0 /\ status = "none" THEN vlink ELSE -1)
      /\ UNCHANGED <<kind, queue, inProgress, active, actual, toggleC, toggleQ, halted, report,
                     devToggle, devHalted, moved>>
  BY DEF AbortCurrent, devVars
<1>2. AllOK(queue)'
  BY <1>1, QueueOK, AllOKKept
<1>3. (\A i \in 1..Len(queue) : ListOK(queue[i]))'
  BY <1>2, Zenon DEF AllOK
<1>4. LastTD' = LastTD /\ LastTD \in Nat \ {0} /\ vlink \in 0..LastTD
  BY <1>1, HeadProps DEF LastTD, Core, QueueInv
<1>5. aborting' \in Nat \cup {-1} /\ aborting' # 0 /\ (aborting' > 0 => aborting' <= LastTD)
  BY <1>1, <1>4
<1>6. QueueInv'
  BY <1>1, <1>3, <1>4, <1>5 DEF Core, QueueInv
<1>7. ToggleInv' /\ MovedInv'
  BY <1>1 DEF Core, ToggleInv, MovedInv
<1> QED BY <1>1, <1>5, <1>6, <1>7 DEF Core, Types
LEMMA ResetStep == ASSUME Core, ResetPipe PROVE Core'
<1>1. /\ kind = "bulk" /\ queue = << >> /\ aborting = 0 /\ halted' = FALSE
      /\ toggleC' = 1 /\ toggleQ' = 1 /\ devToggle' = 0 /\ devHalted' = FALSE /\ inSync' = TRUE
      /\ UNCHANGED <<kind, queue, inProgress, vlink, active, actual, status, aborting, report, moved>>
  BY DEF ResetPipe, tdVars
<1>2. AllOK(queue)'
  BY <1>1, QueueOK, AllOKKept
<1>3. (\A i \in 1..Len(queue) : ListOK(queue[i]))'
  BY <1>2, Zenon DEF AllOK
<1>4. ~inProgress /\ vlink = 0 /\ status = "none"
  BY <1>1 DEF Core, QueueInv
<1>5. QueueInv'
  BY <1>1, <1>3, <1>4 DEF Core, QueueInv
<1>6. ToggleInv' /\ MovedInv'
  BY <1>1, <1>4 DEF Core, ToggleInv, MovedInv
<1> QED BY <1>1, <1>5, <1>6 DEF Core, Types, Toggles

(* A transfer is reported, and the next one scheduled.                        *)
LEMMA Reported ==
  ASSUME Core, inProgress, NEW c \in Toggles, Schedule(Tail(queue), c),
         kind' = kind, aborting' = 0, toggleC' = c, toggleQ' \in Toggles,
         halted' \in BOOLEAN, report' \in Reports,
         devToggle' = devToggle, devHalted' = devHalted, inSync' = inSync,
         kind = "bulk" /\ inSync /\ ~devHalted => devToggle = 1 - c
  PROVE  Core'
<1>1. AllOK(Tail(queue))
  BY HeadProps DEF Core, AllOK
<1>2. kind = "control" => ~devHalted'
  BY DEF Core, ToggleInv
<1>3. /\ queue' \in Seq(Transfer) /\ inProgress' \in BOOLEAN /\ vlink' \in Nat
      /\ active' \subseteq Nat /\ actual' \in Seq(Nat) /\ moved' \in Nat /\ status' = "none"
      /\ QueueInv' /\ ToggleInv' /\ MovedInv'
  BY <1>1, <1>2, Scheduled DEF Core
<1> QED BY <1>3 DEF Core, Types

LEMMA ReportType ==
  ASSUME Core, NEW error \in Errors, NEW bytes,
         report' = ReportOf(queue[1], error, bytes, active), inProgress
  PROVE  /\ report' \in Reports /\ report'.error = error /\ report'.inSync = inSync
         /\ report'.exact <=> bytes = moved
         /\ report'.last <=> LastTD \notin active
<1>1. queue[1].shortOK \in BOOLEAN /\ inSync \in BOOLEAN
  BY HeadProps DEF Core, Types, Transfer
<1> QED BY <1>1 DEF ReportOf, Reports, LastTD

LEMMA AbortFinishStep ==
  ASSUME Core, AbortFinish
  PROVE  Core' /\ report'.error = "USB_CANCELED_ERROR"
<1>1. inProgress /\ ~inSync
  BY DEF AbortFinish, Core, QueueInv
<1>2. ToggleAfterAbort \in Toggles
  <2>1. CASE active = {}
    BY <2>1 DEF ToggleAfterAbort, Core, Types
  <2>2. CASE active # {}
    <3>1. Min(active) \in active
      BY <2>2, MinProps DEF Core, Types
    <3>2. Min(active) \in 1..LastTD
      BY <1>1, <3>1 DEF Core, QueueInv
    <3>3. queue[1].toggle[Min(active)] \in Toggles
      BY <1>1, <3>2, HeadProps DEF Core
    <3> QED BY <2>2, <3>3 DEF ToggleAfterAbort, Min
  <2> QED BY <2>1, <2>2
<1>3. /\ aborting' = 0 /\ toggleC' = ToggleAfterAbort /\ Schedule(Tail(queue), ToggleAfterAbort)
      /\ report' = ReportOf(queue[1], "USB_CANCELED_ERROR", 0, active)
      /\ UNCHANGED <<kind, toggleQ, halted, devToggle, devHalted, inSync>>
  BY DEF AbortFinish
<1>4. report' \in Reports /\ report'.error = "USB_CANCELED_ERROR"
  BY <1>1, <1>3, ReportType DEF Errors
<1>5. Core'
  BY <1>1, <1>2, <1>3, <1>4, Reported DEF Core, Types
<1> QED BY <1>4, <1>5

-----------------------------------------------------------------------------
(* The controller's steps.                                                    *)
LEMMA ReadyProps ==
  ASSUME Core, Ready
  PROVE  /\ inProgress /\ aborting = 0 /\ vlink \in 1..LastTD /\ LastTD \in Nat
         /\ kind = "bulk" /\ inSync /\ ~devHalted => queue[1].toggle[vlink] = Expected(vlink)
         /\ kind = "control" => queue[1].toggle[vlink] = Expected(vlink)
<1>1. inProgress /\ aborting = 0 /\ vlink # 0 /\ status = "none" /\ vlink \in 0..LastTD
  BY DEF Ready, Core, QueueInv
<1>2. LastTD \in Nat \ {0} /\ ListOK(queue[1]) /\ (kind = "control" => LastTD > 1)
  BY <1>1, HeadProps DEF Core
<1>3. vlink \in 1..LastTD
  BY <1>1, <1>2
<1>4. kind = "bulk" /\ inSync /\ ~devHalted => queue[1].toggle[vlink] = Expected(vlink)
  BY <1>1 DEF Core, ToggleInv, Expected
<1>5. ASSUME kind = "control" PROVE queue[1].toggle[vlink] = Expected(vlink)
  <2>1. queue[1].toggle[vlink] = IF vlink = LastTD THEN 1 ELSE (vlink - 1) % 2
    BY <1>2, <1>3, <1>5 DEF ListOK, LastTD
  <2>2. CASE vlink \in {1, LastTD}
    <3>1. vlink = 1 => vlink # LastTD /\ (vlink - 1) % 2 = 0
      BY <1>2, <1>5
    <3> QED BY <1>5, <2>1, <2>2, <3>1 DEF Expected, LastTD
  <2>3. CASE vlink \notin {1, LastTD}
    <3>1. vlink \in 2..(LastTD - 1) /\ vlink # LastTD
      BY <1>2, <1>3, <2>3
    <3>2. devToggle = (vlink - 1) % 2
      BY <1>1, <1>5, <3>1 DEF Core, ToggleInv
    <3> QED BY <1>5, <2>1, <2>3, <3>1, <3>2 DEF Expected, LastTD
  <2> QED BY <2>2, <2>3
<1> QED BY <1>1, <1>2, <1>3, <1>4, <1>5

(* Steps within the transfer at the head.                                     *)
LEMMA QueueSame ==
  ASSUME Core, UNCHANGED <<kind, queue, inProgress>>, inProgress,
         vlink' \in 0..LastTD, active' \subseteq 1..LastTD,
         status' # "none" => vlink' # 0,
         status' = "short" => IsData(vlink'),
         aborting' # 0 => vlink' = 0 /\ ~inSync' /\ (aborting' > 0 => aborting' <= LastTD),
         aborting' = 0 /\ vlink' = 0 => LastTD \notin active'
  PROVE  QueueInv' /\ LastTD' = LastTD
<1>1. AllOK(queue)'
  BY QueueOK, AllOKKept
<1>2. (\A i \in 1..Len(queue) : ListOK(queue[i]))'
  BY <1>1, Zenon DEF AllOK
<1>3. LastTD' = LastTD /\ IsData(vlink)' = IsData(vlink')
  BY DEF LastTD, IsData
<1>4. aborting' = 0 \/ aborting' # 0
  OBVIOUS
<1> QED BY <1>2, <1>3, <1>4 DEF Core, QueueInv
LEMMA HwDoneStep == ASSUME Core, HwDone PROVE Core'
<1> DEFINE k == vlink
           n == MaxLength(vlink)
<1>1. /\ Ready /\ ~devHalted /\ queue[1].toggle[k] = Expected(k) /\ Taken(k, n)
      /\ vlink' = (IF k = LastTD THEN 0 ELSE k + 1)
      /\ UNCHANGED <<kind, status, queue, inProgress, toggleC, toggleQ, halted, aborting, report,
                     inSync, devHalted>>
  BY DEF HwDone, hostVars, LastTD
<1>2. inProgress /\ aborting = 0 /\ k \in 1..LastTD /\ LastTD \in Nat /\ status = "none"
  BY <1>1, ReadyProps DEF Ready
<1>3. /\ n \in Nat
      /\ kind = "bulk" => /\ k < LastTD => n = Packet
                          /\ k = LastTD => n = queue[1].size - (k - 1) * Packet
                          /\ (k - 1) * Packet \in Nat
  BY <1>2, MaxLengthProps DEF Core
<1> HIDE DEF n
<1>4. /\ actual' \in Seq(Nat) /\ devToggle' \in Toggles /\ moved' \in Nat
      /\ active' \subseteq Nat /\ active' \subseteq 1..LastTD /\ k \notin active'
      /\ kind = "bulk" => devToggle' = 1 - devToggle /\ moved' = moved + n
      /\ Len(actual) = k - 1 => Len(actual') = k /\ Sum(actual') = Sum(actual) + n
  BY <1>1, <1>2, <1>3, TakenProps DEF Core
<1>5. vlink' \in 0..LastTD /\ vlink' \in Nat
  BY <1>1, <1>2
<1>6. QueueInv' /\ LastTD' = LastTD
  <2>1. vlink' = 0 => LastTD \notin active'
    BY <1>1, <1>2, <1>4
  <2> QED BY <1>1, <1>2, <1>4, <1>5, <2>1, QueueSame
<1>7. ToggleInv'
  <2>1. ListOK(queue[1]) /\ \A i \in 1..LastTD : queue[1].toggle[i] \in {0, 1}
    BY <1>2, HeadProps DEF Core, Toggles
  <2>2. CASE kind = "bulk"
    <3>1. devToggle' = 1 - queue[1].toggle[k]
      BY <1>1, <1>4, <2>2 DEF Expected
    <3>2. k < LastTD => queue[1].toggle[k + 1] = 1 - queue[1].toggle[k] /\ vlink' = k + 1
      BY <1>1, <1>2, <2>1, <2>2 DEF ListOK, LastTD
    <3>3. k < LastTD \/ k = LastTD
      BY <1>2
    <3>4. vlink' # 0 => devToggle' = queue[1].toggle[vlink']
      BY <1>1, <3>1, <3>2, <3>3
    <3>5. vlink' = 0 => devToggle' = 1 - queue[1].toggle[LastTD]
      BY <1>1, <1>2, <3>1
    <3> QED BY <1>1, <1>2, <1>6, <2>2, <3>4, <3>5 DEF ToggleInv
  <2>3. CASE kind = "control"
    <3>1. ~devHalted'
      BY <1>1
    <3>2. ASSUME vlink' \in 2..(LastTD - 1) PROVE devToggle' = (vlink' - 1) % 2
      <4>1. vlink' = k + 1 /\ k # LastTD /\ k < LastTD /\ (k + 1) - 1 = k
        BY <1>1, <1>2, <3>2
      <4>2. CASE k = 1
        <5>1. devToggle' = 1 /\ 1 % 2 = 1
          BY <1>1, <2>3, <4>2 DEF Taken
        <5> QED BY <4>1, <4>2, <5>1
      <4>3. CASE k # 1
        <5>1. k \in 2..(LastTD - 1)
          BY <1>2, <4>1, <4>3
        <5>2. devToggle = (k - 1) % 2
          BY <1>2, <2>3, <5>1 DEF Core, ToggleInv
        <5>3. devToggle' = 1 - ((k - 1) % 2)
          BY <1>1, <4>3, <5>2 DEF Taken
        <5>4. 1 - ((k - 1) % 2) = k % 2
          BY <1>2
        <5> QED BY <4>1, <5>3, <5>4
      <4> QED BY <4>2, <4>3
    <3> QED BY <1>1, <1>2, <1>6, <2>3, <3>1, <3>2 DEF ToggleInv
  <2> QED BY <2>2, <2>3 DEF Core, Types
<1>8. MovedInv'
  <2>1. SUFFICES ASSUME kind = "bulk", inSync
                 PROVE  /\ vlink' # 0 => moved' = (vlink' - 1) * Packet /\ Len(actual') = vlink' - 1
                        /\ Sum(actual') = moved'
                        /\ vlink' = 0 => moved' = queue[1].size
    BY <1>1 DEF MovedInv
  <2>2. /\ moved = (k - 1) * Packet /\ Len(actual) = k - 1 /\ Sum(actual) = moved
    BY <1>1, <1>2, <2>1 DEF Core, MovedInv
  <2>3. Len(actual') = k /\ Sum(actual') = moved' /\ moved' = moved + n
    BY <1>4, <2>1, <2>2
  <2>4. PICK m \in Nat : m = (k - 1) * Packet
    BY <1>3, <2>1
  <2>5. CASE k < LastTD
    <3>1. vlink' = k + 1 /\ vlink' - 1 = k
      BY <1>1, <1>2, <2>5
    <3>2. k * Packet = m + Packet
      <4>1. k - 1 \in Nat /\ (k - 1) + 1 = k /\ Packet \in Nat
        BY <1>2, TDAssumption
      <4> QED BY <2>4, <4>1, Multiples
    <3>3. moved' = m + Packet
      BY <1>3, <2>1, <2>2, <2>3, <2>4, <2>5
    <3> QED BY <1>2, <2>3, <3>1, <3>2, <3>3
  <2>6. CASE k = LastTD
    <3>1. vlink' = 0 /\ queue[1].size \in Nat
      BY <1>1, <1>2, <2>6, HeadProps DEF Core
    <3>2. n = queue[1].size - m
      BY <1>3, <2>1, <2>4, <2>6
    <3> QED BY <1>3, <2>2, <2>3, <2>4, <3>1, <3>2
  <2> QED BY <1>2, <2>5, <2>6
<1> QED BY <1>1, <1>4, <1>5, <1>6, <1>7, <1>8 DEF Core, Types

LEMMA HwShortStep == ASSUME Core, HwShort PROVE Core'
<1>1. PICK n \in 0..(MaxLength(vlink) - 1) : Taken(vlink, n)
  BY DEF HwShort
<1>2. /\ Ready /\ ~devHalted /\ queue[1].toggle[vlink] = Expected(vlink) /\ IsData(vlink)
      /\ status' = "short"
      /\ UNCHANGED <<kind, vlink, queue, inProgress, toggleC, toggleQ, halted, aborting, report,
                     inSync, devHalted>>
  BY DEF HwShort, hostVars
<1>3. inProgress /\ aborting = 0 /\ vlink \in 1..LastTD /\ LastTD \in Nat /\ status = "none"
  BY <1>2, ReadyProps DEF Ready
<1>4. n \in Nat
  <2>1. MaxLength(vlink) \in Nat
    BY <1>3, MaxLengthProps DEF Core
  <2> QED BY <2>1
<1>5. /\ actual' \in Seq(Nat) /\ devToggle' \in Toggles /\ moved' \in Nat
      /\ active' \subseteq Nat /\ active' \subseteq 1..LastTD
      /\ kind = "bulk" => devToggle' = 1 - devToggle /\ moved' = moved + n
      /\ Len(actual) = vlink - 1 => Sum(actual') = Sum(actual) + n
  BY <1>1, <1>3, <1>4, TakenProps DEF Core
<1>6. QueueInv'
  BY <1>2, <1>3, <1>5, QueueSame
<1>7. ToggleInv'
  <2>1. kind = "bulk" => devToggle' = 1 - queue[1].toggle[vlink]
    BY <1>2, <1>5 DEF Expected
  <2> QED BY <1>2, <1>3, <2>1 DEF Core, Types, ToggleInv
<1>8. MovedInv'
  BY <1>2, <1>3, <1>5 DEF Core, MovedInv
<1> QED BY <1>2, <1>5, <1>6, <1>7, <1>8 DEF Core, Types

(* Toggles differ only after a cancelled transfer.                            *)
LEMMA HwMismatchStep == ASSUME Core, HwMismatch PROVE Core'
<1>1. /\ Ready /\ ~devHalted /\ queue[1].toggle[vlink] # Expected(vlink)
      /\ UNCHANGED <<kind, status, queue, inProgress, toggleC, toggleQ, halted, aborting, report,
                     inSync, devHalted, moved>>
      /\ \/ devToggle' = 1 - devToggle /\ UNCHANGED <<vlink, active, actual>>
         \/ /\ active' = active \ {vlink} /\ actual' = Append(actual, MaxLength(vlink))
            /\ vlink' = (IF vlink = LastTD THEN 0 ELSE vlink + 1) /\ devToggle' = devToggle
  BY DEF HwMismatch, hostVars, LastTD
<1>2. /\ inProgress /\ aborting = 0 /\ vlink \in 1..LastTD /\ LastTD \in Nat /\ status = "none"
      /\ kind = "bulk" /\ ~inSync
  BY <1>1, ReadyProps DEF Ready, Core, Types
<1>3. devToggle' \in Toggles /\ actual' \in Seq(Nat)
  <2>1. MaxLength(vlink) \in Nat
    BY <1>2, MaxLengthProps DEF Core
  <2>2. actual \in Seq(Nat) /\ devToggle \in {0, 1}
    BY DEF Core, Types, Toggles
  <2>3. Append(actual, MaxLength(vlink)) \in Seq(Nat)
    BY <2>1, <2>2, AppendProperties
  <2>4. CASE devToggle' = 1 - devToggle /\ actual' = actual
    BY <2>2, <2>4 DEF Toggles
  <2>5. CASE devToggle' = devToggle /\ actual' = Append(actual, MaxLength(vlink))
    BY <2>2, <2>3, <2>5 DEF Toggles
  <2> QED BY <1>1, <2>4, <2>5
<1>4. /\ vlink' \in 0..LastTD /\ vlink' \in Nat /\ active' \subseteq 1..LastTD
      /\ active' \subseteq Nat /\ (vlink' = 0 => LastTD \notin active')
  <2>1. active \subseteq 1..LastTD /\ active \subseteq Nat
    BY <1>2 DEF Core, QueueInv, Types
  <2>2. CASE UNCHANGED <<vlink, active>>
    BY <1>2, <2>1, <2>2
  <2>3. CASE active' = active \ {vlink} /\ vlink' = (IF vlink = LastTD THEN 0 ELSE vlink + 1)
    BY <1>2, <2>1, <2>3
  <2> QED BY <1>1, <2>2, <2>3
<1>5. QueueInv'
  BY <1>1, <1>2, <1>4, QueueSame
<1>6. ToggleInv' /\ MovedInv'
  BY <1>1, <1>2 DEF ToggleInv, MovedInv
<1> QED BY <1>1, <1>3, <1>4, <1>5, <1>6 DEF Core, Types

LEMMA HwFailStep == ASSUME Core, HwStall \/ HwError PROVE Core'
<1>1. /\ Ready /\ status' \in {"stall", "error"} /\ active' = active \ {vlink}
      /\ UNCHANGED <<kind, vlink, actual, queue, inProgress, toggleC, toggleQ, halted, aborting,
                     report, inSync, devToggle, moved>>
      /\ devHalted' \in BOOLEAN
  BY DEF HwStall, HwError, hostVars, devVars, Core, Types
<1>2. inProgress /\ aborting = 0 /\ vlink \in 1..LastTD /\ LastTD \in Nat /\ status = "none"
  BY <1>1, ReadyProps DEF Ready
<1>3. active' \subseteq 1..LastTD /\ active' \subseteq Nat
  BY <1>1, <1>2 DEF Core, QueueInv, Types
<1>4. QueueInv'
  BY <1>1, <1>2, <1>3, QueueSame
<1>5. MovedInv'
  BY <1>1, <1>2 DEF MovedInv
<1>6. CASE HwStall
  <2>1. devHalted' = (kind = "bulk") /\ status' = "stall"
    BY <1>6 DEF HwStall
  <2>2. ToggleInv'
    BY <1>1, <1>2, <2>1 DEF Core, Types, ToggleInv
  <2> QED BY <1>1, <1>3, <1>4, <1>5, <2>2 DEF Core, Types
<1>7. CASE HwError
  <2>1. devHalted' = devHalted /\ status' = "error"
    BY <1>7 DEF HwError, devVars
  <2>2. ToggleInv'
    BY <1>1, <1>2, <2>1 DEF Core, Types, ToggleInv
  <2> QED BY <1>1, <1>3, <1>4, <1>5, <2>2 DEF Core, Types
<1> QED BY <1>6, <1>7

LEMMA HwInFlightStep == ASSUME Core, HwInFlight PROVE Core'
<1>1. /\ aborting \in active /\ ~devHalted /\ Taken(aborting, MaxLength(aborting)) /\ aborting' = -1
      /\ UNCHANGED <<kind, vlink, status, queue, inProgress, toggleC, toggleQ, halted, report,
                     inSync, devHalted>>
  BY DEF HwInFlight
<1>2. aborting # 0 /\ inProgress /\ vlink = 0 /\ ~inSync /\ status = "none" /\ aborting \in 1..LastTD
  <2>1. aborting \in Nat
    BY <1>1 DEF Core, Types
  <2>2. aborting # 0 => inProgress
    BY DEF Core, QueueInv
  <2>3. ~inProgress => active = {}
    BY DEF Core, QueueInv
  <2>4. inProgress
    BY <1>1, <2>3
  <2> QED BY <1>1, <2>4 DEF Core, QueueInv
<1>3. MaxLength(aborting) \in Nat
  BY <1>2, MaxLengthProps DEF Core
<1>4. /\ actual' \in Seq(Nat) /\ devToggle' \in Toggles /\ moved' \in Nat
      /\ active' \subseteq Nat /\ active' \subseteq 1..LastTD
  BY <1>1, <1>2, <1>3, TakenProps DEF Core
<1>5. QueueInv'
  <2>1. LastTD \in Nat
    BY <1>2, HeadProps DEF Core
  <2> QED BY <1>1, <1>2, <1>4, <2>1, QueueSame
<1>6. ToggleInv' /\ MovedInv'
  BY <1>1, <1>2 DEF Core, ToggleInv, MovedInv
<1> QED BY <1>1, <1>4, <1>5, <1>6 DEF Core, Types
-----------------------------------------------------------------------------
(* The done thread's steps.                                                   *)
LEMMA BusyHead ==
  ASSUME Core, Busy
  PROVE  /\ inProgress /\ aborting = 0 /\ LastTD \in 1..LastTD /\ vlink \in 0..LastTD
         /\ \A i \in 1..LastTD : queue[1].toggle[i] \in {0, 1} /\ 1 - queue[1].toggle[i] \in {0, 1}
         /\ queue[1].size \in Nat
<1>1. inProgress /\ aborting = 0 /\ vlink \in 0..LastTD
  BY DEF Busy, Core, QueueInv
<1>2. LastTD \in Nat \ {0} /\ queue[1].size \in Nat /\ \A i \in 1..LastTD : queue[1].toggle[i] \in Toggles
  BY <1>1, HeadProps DEF Core
<1> QED BY <1>1, <1>2 DEF Toggles

LEMMA DoneCompleteStep ==
  ASSUME Core, DoneComplete
  PROVE  /\ Core' /\ report'.last
         /\ kind = "bulk" /\ report'.inSync => report'.exact
<1> DEFINE c == queue[1].toggle[LastTD]
<1>1. /\ Busy /\ vlink = 0
      /\ report' = ReportOf(queue[1], "USB_NO_ERROR", queue[1].size, active)
      /\ toggleC' = c /\ Schedule(Tail(queue), c)
      /\ toggleQ' \in {c, toggleQ}
      /\ UNCHANGED <<kind, halted, aborting, devToggle, devHalted, inSync>>
  BY DEF DoneComplete, Finish, LastTD
<1>2. inProgress /\ aborting = 0 /\ c \in {0, 1}
  BY <1>1, BusyHead
<1>3. c \in Toggles /\ toggleQ' \in Toggles /\ halted' \in BOOLEAN /\ aborting' = 0
  BY <1>1, <1>2 DEF Toggles, Core, Types
<1>4. kind = "bulk" /\ inSync /\ ~devHalted => devToggle = 1 - c
  BY <1>1, <1>2 DEF Core, ToggleInv
<1>5. /\ report' \in Reports /\ report'.inSync = inSync
      /\ report'.exact <=> queue[1].size = moved
      /\ report'.last <=> LastTD \notin active
  BY <1>1, <1>2, ReportType DEF Errors
<1> HIDE DEF c
<1>6. Core'
  BY <1>1, <1>2, <1>3, <1>4, <1>5, Reported
<1>7. LastTD \notin active
  BY <1>1, <1>2 DEF Core, QueueInv
<1>8. kind = "bulk" /\ inSync => moved = queue[1].size
  BY <1>1, <1>2 DEF Core, MovedInv
<1> QED BY <1>5, <1>6, <1>7, <1>8

LEMMA DoneStallStep ==
  ASSUME Core, DoneStall
  PROVE  Core' /\ report'.error = "USB_STALL_ERROR"
<1>1. /\ Busy /\ status = "stall"
      /\ report' = ReportOf(queue[1], "USB_STALL_ERROR", 0, active)
      /\ toggleC' = 1 /\ Schedule(Tail(queue), 1) /\ toggleQ' = 1
      /\ halted' = (kind # "control")
      /\ UNCHANGED <<kind, aborting, devToggle, devHalted, inSync>>
  BY DEF DoneStall, Finish
<1>2. inProgress /\ aborting = 0
  BY <1>1, BusyHead
<1>3. 1 \in Toggles /\ toggleQ' \in Toggles /\ halted' \in BOOLEAN /\ aborting' = 0
  BY <1>1, <1>2 DEF Toggles
<1>4. kind = "bulk" => devHalted
  BY <1>1 DEF Core, ToggleInv
<1>5. report' \in Reports /\ report'.error = "USB_STALL_ERROR"
  BY <1>1, <1>2, ReportType DEF Errors
<1>6. Core'
  BY <1>1, <1>2, <1>3, <1>4, <1>5, Reported
<1> QED BY <1>5, <1>6

LEMMA DoneErrorStep ==
  ASSUME Core, DoneError
  PROVE  Core' /\ report'.error = "USB_NOT_COMPLETE_ERROR"
<1> DEFINE c == 1 - queue[1].toggle[vlink]
<1>1. /\ Busy /\ status = "error"
      /\ report' = ReportOf(queue[1], "USB_NOT_COMPLETE_ERROR", 0, active)
      /\ toggleC' = c /\ Schedule(Tail(queue), c)
      /\ toggleQ' \in {c, toggleQ}
      /\ UNCHANGED <<kind, halted, aborting, devToggle, devHalted, inSync>>
  BY DEF DoneError, Finish, ToggleBeforeError
<1>2. inProgress /\ aborting = 0 /\ vlink \in 0..LastTD /\ vlink # 0 /\ LastTD \in 1..LastTD
  BY <1>1, BusyHead DEF Core, QueueInv
<1>3. vlink \in 1..LastTD /\ c \in {0, 1} /\ queue[1].toggle[vlink] \in {0, 1}
  BY <1>1, <1>2, BusyHead
<1>4. kind = "bulk" /\ inSync /\ ~devHalted => devToggle = 1 - c
  BY <1>1, <1>2, <1>3 DEF Core, ToggleInv
<1> HIDE DEF c
<1>5. c \in Toggles /\ toggleQ' \in Toggles /\ halted' \in BOOLEAN /\ aborting' = 0
  BY <1>1, <1>2, <1>3 DEF Toggles, Core, Types
<1>6. report' \in Reports /\ report'.error = "USB_NOT_COMPLETE_ERROR"
  BY <1>1, <1>2, ReportType DEF Errors
<1>7. Core'
  BY <1>1, <1>2, <1>4, <1>5, <1>6, Reported
<1> QED BY <1>6, <1>7

LEMMA DoneShortStep ==
  ASSUME Core, DoneShort
  PROVE  /\ Core'
         /\ kind = "control" => report'.error = "USB_DATA_UNDERRUN_ERROR"
         /\ kind = "bulk" /\ report'.inSync => report'.exact
<1> DEFINE c == queue[1].toggle[vlink]
<1>1. /\ Busy /\ status = "short"
      /\ kind = "control" => ShortResult # "USB_NO_ERROR"
      /\ report' = ReportOf(queue[1], ShortResult, Sum(actual), active)
      /\ toggleC' = c /\ Schedule(Tail(queue), c)
      /\ toggleQ' \in {c, toggleQ}
      /\ UNCHANGED <<kind, halted, aborting, devToggle, devHalted, inSync>>
  BY DEF DoneShort, Finish
<1>2. inProgress /\ aborting = 0 /\ vlink \in 0..LastTD /\ vlink # 0 /\ LastTD \in 1..LastTD
  BY <1>1, BusyHead DEF Core, QueueInv
<1>3. vlink \in 1..LastTD /\ c \in {0, 1}
  BY <1>1, <1>2, BusyHead
<1>4. kind = "bulk" /\ inSync /\ ~devHalted => devToggle = 1 - c
  BY <1>1, <1>2 DEF Core, ToggleInv
<1> HIDE DEF c
<1>5. c \in Toggles /\ toggleQ' \in Toggles /\ halted' \in BOOLEAN /\ aborting' = 0
  BY <1>1, <1>2, <1>3 DEF Toggles, Core, Types
<1>6. ShortResult \in {"USB_NO_ERROR", "USB_DATA_UNDERRUN_ERROR"} /\ ShortResult \in Errors
  BY DEF ShortResult, Errors
<1>7. /\ report' \in Reports /\ report'.error = ShortResult /\ report'.inSync = inSync
      /\ report'.exact <=> Sum(actual) = moved
  BY <1>1, <1>2, <1>6, ReportType
<1>8. Core'
  BY <1>1, <1>2, <1>4, <1>5, <1>7, Reported
<1>9. kind = "bulk" /\ inSync => Sum(actual) = moved
  BY <1>1, <1>2 DEF Core, MovedInv
<1> QED BY <1>1, <1>6, <1>7, <1>8, <1>9

LEMMA JumpStep == ASSUME Core, JumpToStatusStage PROVE Core'
<1>1. /\ Busy /\ kind = "control" /\ status = "short"
      /\ vlink' = LastTD /\ status' = "none" /\ toggleC' = queue[1].toggle[vlink]
      /\ UNCHANGED <<kind, queue, inProgress, active, actual, toggleQ, halted, aborting, report,
                     devToggle, devHalted, moved, inSync>>
  BY DEF JumpToStatusStage, LastTD, devVars
<1>2. inProgress /\ aborting = 0 /\ vlink \in 0..LastTD /\ vlink # 0 /\ LastTD \in 1..LastTD
  BY <1>1, BusyHead DEF Core, QueueInv
<1>3. vlink \in 1..LastTD /\ toggleC' \in Toggles /\ LastTD \in Nat \ {0}
  BY <1>1, <1>2, BusyHead, HeadProps DEF Toggles, Core
<1>4. QueueInv' /\ LastTD' = LastTD
  <2>1. active' \subseteq 1..LastTD
    BY <1>1, <1>2 DEF Core, QueueInv
  <2> QED BY <1>1, <1>2, <1>3, <2>1, QueueSame
<1>5. ToggleInv' /\ MovedInv'
  BY <1>1, <1>2, <1>3, <1>4 DEF Core, ToggleInv, MovedInv
<1> QED BY <1>1, <1>3, <1>4, <1>5 DEF Core, Types

-----------------------------------------------------------------------------
LEMMA InitCore == Init => Core /\ BulkReportsMoved /\ ReportedAfterStatusStage
<1> SUFFICES ASSUME Init PROVE Core /\ BulkReportsMoved /\ ReportedAfterStatusStage
  OBVIOUS
<1>1. NoReport \in Reports
  BY DEF NoReport, Reports, Errors
<1>2. queue \in Seq(Transfer) /\ actual \in Seq(Nat) /\ Len(queue) = 0
  BY EmptySeq DEF Init
<1>3. Types
  BY <1>1, <1>2 DEF Init, Types, Toggles
<1>4. QueueInv /\ ToggleInv /\ MovedInv
  BY <1>2 DEF Init, QueueInv, ToggleInv, MovedInv
<1>5. BulkReportsMoved /\ ReportedAfterStatusStage
  BY DEF Init, NoReport, BulkReportsMoved, ReportedAfterStatusStage
<1> QED BY <1>3, <1>4, <1>5 DEF Core

(* A step leaves the last report alone or makes one that is right.            *)
LEMMA CoreStep ==
  ASSUME Core, [Next]_vars
  PROVE  /\ Core'
         /\ \/ kind' = kind /\ report' = report
            \/ /\ kind' = kind
               /\ kind = "bulk" /\ report'.inSync
                     /\ report'.error \in {"USB_NO_ERROR", "USB_DATA_UNDERRUN_ERROR"} => report'.exact
               /\ kind = "control" /\ report'.error = "USB_NO_ERROR" => report'.last
<1> USE DEF Core
<1>1. ASSUME NEW size \in Sizes, NEW in \in BOOLEAN, NEW shortOK \in BOOLEAN,
             \/ IssueTransfer(NewTransfer(size, in, shortOK))
             \/ IssueRefused(NewTransfer(size, in, shortOK))
      PROVE  Core' /\ kind' = kind /\ report' = report
  <2>1. /\ NewTransfer(size, in, shortOK) \in Transfer /\ ListOK(NewTransfer(size, in, shortOK))
        /\ NewTransfer(size, in, shortOK).toggle[Len(NewTransfer(size, in, shortOK).toggle)] \in Toggles
    BY NewTransferOK
  <2>2. Core'
    BY <1>1, <2>1, IssueStep
  <2> QED BY <1>1, <2>2 DEF IssueTransfer, IssueRefused
<1>2. ASSUME NEW k \in 2..Len(queue), AbortQueued(k) PROVE Core' /\ kind' = kind /\ report' = report
  BY <1>2, AbortQueuedStep DEF AbortQueued
<1>3. CASE AbortCurrent
  BY <1>3, AbortCurrentStep DEF AbortCurrent
<1>4. CASE AbortFinish
  BY <1>4, AbortFinishStep DEF AbortFinish
<1>5. CASE ResetPipe
  BY <1>5, ResetStep DEF ResetPipe
<1>6. CASE HwDone
  BY <1>6, HwDoneStep DEF HwDone, hostVars
<1>7. CASE HwShort
  BY <1>7, HwShortStep DEF HwShort, hostVars
<1>8. CASE HwMismatch
  BY <1>8, HwMismatchStep DEF HwMismatch, hostVars
<1>9. CASE HwStall \/ HwError
  BY <1>9, HwFailStep DEF HwStall, HwError, hostVars
<1>10. CASE HwInFlight
  BY <1>10, HwInFlightStep DEF HwInFlight
<1>11. CASE DoneComplete
  <2>1. kind' = kind
    BY <1>11 DEF DoneComplete
  <2> QED BY <1>11, <2>1, DoneCompleteStep
<1>12. CASE DoneStall
  BY <1>12, DoneStallStep DEF DoneStall
<1>13. CASE DoneError
  BY <1>13, DoneErrorStep DEF DoneError
<1>14. CASE DoneShort
  <2>1. kind' = kind /\ kind \in {"bulk", "control"}
    BY <1>14 DEF DoneShort, Types
  <2> QED BY <1>14, <2>1, DoneShortStep
<1>15. CASE JumpToStatusStage
  BY <1>15, JumpStep DEF JumpToStatusStage
<1>16. CASE UNCHANGED vars
  <2>1. UNCHANGED <<kind, queue, inProgress, vlink, active, actual, status, toggleC, toggleQ, halted,
                    aborting, report, devToggle, devHalted, moved, inSync>>
    BY <1>16 DEF vars, tdVars, hostVars, devVars
  <2>2. Types' /\ ToggleInv' /\ MovedInv'
    BY <2>1 DEF Types, ToggleInv, MovedInv, LastTD
  <2>3. AllOK(queue)'
    BY <2>1, QueueOK, AllOKKept
  <2>4. (\A i \in 1..Len(queue) : ListOK(queue[i]))'
    BY <2>3, Zenon DEF AllOK
  <2>5. QueueInv'
    BY <2>1, <2>4 DEF QueueInv, LastTD, IsData
  <2> QED BY <2>1, <2>2, <2>5
<1> QED BY <1>1, <1>2, <1>3, <1>4, <1>5, <1>6, <1>7, <1>8, <1>9, <1>10, <1>11, <1>12, <1>13,
           <1>14, <1>15, <1>16 DEF Next, Client, Hardware, DoneThread

LEMMA InvStep == Inv /\ [Next]_vars => Inv'
<1> SUFFICES ASSUME Inv, [Next]_vars PROVE Inv'
  OBVIOUS
<1>1. Core /\ BulkReportsMoved /\ ReportedAfterStatusStage
  BY DEF Inv, Core
<1>2. /\ Core'
      /\ \/ kind' = kind /\ report' = report
         \/ /\ kind' = kind
            /\ kind = "bulk" /\ report'.inSync
                  /\ report'.error \in {"USB_NO_ERROR", "USB_DATA_UNDERRUN_ERROR"} => report'.exact
            /\ kind = "control" /\ report'.error = "USB_NO_ERROR" => report'.last
  BY <1>1, CoreStep
<1>3. BulkReportsMoved' /\ ReportedAfterStatusStage'
  BY <1>1, <1>2 DEF BulkReportsMoved, ReportedAfterStatusStage
<1> QED BY <1>2, <1>3 DEF Inv, Core

(* For any packet size and any transfers, queue, toggles, TDs and reports     *)
(* keep the inductive invariant through errors, stalls, aborts and resets.    *)
THEOREM TransferInvariant == Spec => []Inv
<1>1. Init => Inv
  BY InitCore DEF Inv, Core
<1> QED BY <1>1, InvStep, PTL DEF Spec

(* m_dataToggleC and m_dataToggleQ, of which one is ahead of the device, give *)
(* every TD the toggle the device expects, as long as nothing was cancelled.  *)
THEOREM TogglesInStep == Spec => []ToggleInStep
<1>1. Inv => ToggleInStep
  <2>1. SUFFICES ASSUME Inv, inSync, Ready, ~devHalted
                 PROVE  queue[1].toggle[vlink] = Expected(vlink)
    BY DEF ToggleInStep
  <2>2. Core /\ kind \in {"bulk", "control"}
    BY <2>1 DEF Inv, Core, Types
  <2> QED BY <2>1, <2>2, ReadyProps
<1> QED BY <1>1, TransferInvariant, PTL

(* CheckForDoneTransfers adds up, or takes from the size of the buffer, the   *)
(* bytes that a bulk transfer has moved.                                      *)
THEOREM BulkBytesReported == Spec => []BulkReportsMoved
<1>1. Inv => BulkReportsMoved
  BY DEF Inv
<1> QED BY <1>1, TransferInvariant, PTL

(* A control transfer is not completed before its status stage.               *)
THEOREM StatusStageReached == Spec => []ReportedAfterStatusStage
<1>1. Inv => ReportedAfterStatusStage
  BY DEF Inv
<1> QED BY <1>1, TransferInvariant, PTL
=============================================================================
