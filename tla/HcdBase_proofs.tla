--------------------------- MODULE HcdBase_proofs ---------------------------
(* Proofs about what the host controller driver is built on: the allocator of  *)
(* physical memory, for regions, alignments and requests of any size and any  *)
(* number of clients; the enhanced critical section, for any number of        *)
(* threads; and the controller itself, for any width of the frame counters    *)
(* and any number of power cycles and resume threads.                         *)
EXTENDS PhysMem, CritSecEx, HostController, SequenceLemmas, FiniteSetTheorems

(* The blocks of a list and those of a set tile the addresses from lo to hi.
   The set holds the blocks in use, and the blocks a call has in its hands.   *)
Covers(b, a) == b.addr <= a /\ a < End(b)
Within(b, lo, hi) == lo <= b.addr /\ End(b) <= hi

Tile(s, U, lo, hi) ==
    /\ \A i \in 1..Len(s) : Within(s[i], lo, hi)
    /\ \A u \in U : Within(u, lo, hi)
    /\ \A i, j \in 1..Len(s) : i # j => Disjoint(s[i], s[j])
    /\ \A u, v \in U : u # v => Disjoint(u, v)
    /\ \A i \in 1..Len(s), u \in U : Disjoint(s[i], u)
    /\ \A a \in lo..(hi - 1) : \/ \E i \in 1..Len(s) : Covers(s[i], a)
                               \/ \E u \in U : Covers(u, a)

LEMMA BlockFields ==
  ASSUME NEW b \in Blocks
  PROVE  /\ b.addr \in Nat /\ b.size \in Nat /\ b.size > 0
         /\ End(b) \in Nat /\ b.addr < End(b)
         /\ End(b) = b.addr + b.size
         /\ b = Block(b.addr, b.size)
BY DEF Blocks, Block, End

LEMMA NewBlock ==
  ASSUME NEW a \in Nat, NEW n \in Nat, n > 0
  PROVE  /\ Block(a, n) \in Blocks
         /\ Block(a, n).addr = a /\ Block(a, n).size = n /\ End(Block(a, n)) = a + n
BY DEF Blocks, Block, End

LEMMA ListedBlock ==
  ASSUME NEW s \in Seq(Blocks)
  PROVE  Len(s) \in Nat /\ \A i \in 1..Len(s) : s[i] \in Blocks
BY ElementOfSeq, LenProperties

(* No block is apart from itself.                                            *)
LEMMA NotDisjoint ==
  ASSUME NEW b \in Blocks
  PROVE  ~Disjoint(b, b)
BY BlockFields DEF Disjoint

(* A block that is unlinked from the list is held by the caller.             *)
LEMMA TakeOut ==
  ASSUME NEW s \in Seq(Blocks), NEW U \in SUBSET Blocks, NEW lo \in Nat, NEW hi \in Nat,
         Tile(s, U, lo, hi), NEW k \in 1..Len(s)
  PROVE  /\ RemoveAt(s, k) \in Seq(Blocks)
         /\ s[k] \in Blocks \ U
         /\ Tile(RemoveAt(s, k), U \cup {s[k]}, lo, hi)
<1> DEFINE r == RemoveAt(s, k)
           old(i) == IF i < k THEN i ELSE i + 1
<1>1. Len(s) \in Nat /\ \A i \in 1..Len(s) : s[i] \in Blocks
  BY ListedBlock
<1>a. /\ r \in Seq(Blocks)
      /\ Len(r) = Len(s) - 1
      /\ \A i \in 1..(Len(s) - 1) : r[i] = IF i < k THEN s[i] ELSE s[i + 1]
  BY RemoveAtProps
<1> HIDE DEF r
<1>2. /\ r \in Seq(Blocks)
      /\ Len(r) = Len(s) - 1
      /\ \A i \in 1..Len(r) : r[i] = s[old(i)] /\ old(i) \in (1..Len(s)) \ {k}
      /\ \A i, j \in 1..Len(r) : i # j => old(i) # old(j)
  <2>1. ASSUME NEW i \in 1..Len(r)
        PROVE  r[i] = s[old(i)] /\ old(i) \in (1..Len(s)) \ {k}
    <3>1. i \in Nat /\ i >= 1 /\ i <= Len(s) - 1 /\ k \in Nat /\ k >= 1 /\ k <= Len(s)
      BY <1>1, <1>a, <2>1
    <3>2. old(i) \in (1..Len(s)) \ {k}
      BY <1>1, <3>1
    <3>3. i \in 1..(Len(s) - 1)
      BY <1>1, <3>1
    <3>4. r[i] = IF i < k THEN s[i] ELSE s[i + 1]
      BY <1>a, <3>3
    <3>5. r[i] = s[old(i)]
      BY <3>4, Zenon
    <3> QED BY <3>2, <3>5
  <2>2. \A i, j \in 1..Len(r) : i # j => old(i) # old(j)
    BY <1>1, <1>a
  <2> QED BY <1>a, <2>1, <2>2
<1>3. \A j \in (1..Len(s)) \ {k} : \E i \in 1..Len(r) : r[i] = s[j]
  <2> SUFFICES ASSUME NEW j \in (1..Len(s)) \ {k}
               PROVE  \E i \in 1..Len(r) : r[i] = s[j]
    OBVIOUS
  <2>1. CASE j < k
    <3>1. j \in 1..Len(r) /\ old(j) = j
      BY <1>1, <1>2, <2>1
    <3> QED BY <1>2, <3>1
  <2>2. CASE j > k
    <3>1. j - 1 \in 1..Len(r) /\ old(j - 1) = j
      BY <1>1, <1>2, <2>2
    <3> QED BY <1>2, <3>1
  <2> QED BY <1>1, <2>1, <2>2
<1> HIDE DEF r, old
<1>4. s[k] \notin U
  BY <1>1, NotDisjoint DEF Tile
<1>5. Tile(r, U \cup {s[k]}, lo, hi)
  <2>1. \A i \in 1..Len(r) : Within(r[i], lo, hi)
    BY <1>2 DEF Tile
  <2>2. \A i, j \in 1..Len(r) : i # j => Disjoint(r[i], r[j])
    BY <1>2 DEF Tile
  <2>3. \A u, v \in U \cup {s[k]} : u # v => Disjoint(u, v)
    BY DEF Tile, Disjoint
  <2>4. \A i \in 1..Len(r), u \in U \cup {s[k]} : Disjoint(r[i], u)
    BY <1>2 DEF Tile
  <2>5. \A u \in U \cup {s[k]} : Within(u, lo, hi)
    BY DEF Tile
  <2>6. ASSUME NEW a \in lo..(hi - 1)
        PROVE  \/ \E i \in 1..Len(r) : Covers(r[i], a)
               \/ \E u \in U \cup {s[k]} : Covers(u, a)
    <3>1. CASE \E j \in 1..Len(s) : Covers(s[j], a)
      BY <1>3, <3>1
    <3>2. CASE \E u \in U : Covers(u, a)
      BY <3>2
    <3> QED BY <3>1, <3>2 DEF Tile
  <2> QED BY <2>1, <2>2, <2>3, <2>4, <2>5, <2>6 DEF Tile
<1> QED BY <1>1, <1>2, <1>4, <1>5 DEF r

(* A block the caller holds is linked into the list.                         *)
LEMMA PutIn ==
  ASSUME NEW s \in Seq(Blocks), NEW U \in SUBSET Blocks, NEW lo \in Nat, NEW hi \in Nat,
         NEW b \in Blocks \ U, Tile(s, U \cup {b}, lo, hi), NEW k \in 1..(Len(s) + 1)
  PROVE  InsertAt(s, k, b) \in Seq(Blocks) /\ Tile(InsertAt(s, k, b), U, lo, hi)
<1> DEFINE r == InsertAt(s, k, b)
           old(i) == IF i < k THEN i ELSE i - 1
<1>1. Len(s) \in Nat /\ \A i \in 1..Len(s) : s[i] \in Blocks
  BY ListedBlock
<1>2. /\ r \in Seq(Blocks)
      /\ Len(r) = Len(s) + 1
      /\ k \in 1..Len(r) /\ r[k] = b
      /\ \A i \in (1..Len(r)) \ {k} : r[i] = s[old(i)] /\ old(i) \in 1..Len(s)
      /\ \A i, j \in (1..Len(r)) \ {k} : i # j => old(i) # old(j)
  <2>1. /\ r \in Seq(Blocks)
        /\ Len(r) = Len(s) + 1
        /\ \A i \in 1..Len(r) : r[i] = IF i < k THEN s[i] ELSE IF i = k THEN b ELSE s[i - 1]
    BY <1>1, InsertAtProps
  <2> HIDE DEF r
  <2>2. k \in 1..Len(r) /\ r[k] = b
    BY <1>1, <2>1
  <2>3. ASSUME NEW i \in (1..Len(r)) \ {k}
        PROVE  r[i] = s[old(i)] /\ old(i) \in 1..Len(s)
    <3>1. CASE i < k
      BY <1>1, <2>1, <3>1
    <3>2. CASE i > k
      BY <1>1, <2>1, <3>2
    <3> QED BY <2>1, <3>1, <3>2
  <2>4. \A i, j \in (1..Len(r)) \ {k} : i # j => old(i) # old(j)
    BY <1>1, <2>1
  <2> QED BY <2>1, <2>2, <2>3, <2>4
<1>3. \A j \in 1..Len(s) : \E i \in 1..Len(r) : r[i] = s[j]
  <2> SUFFICES ASSUME NEW j \in 1..Len(s) PROVE \E i \in 1..Len(r) : r[i] = s[j]
    OBVIOUS
  <2>1. CASE j < k
    <3>1. j \in (1..Len(r)) \ {k} /\ old(j) = j
      BY <1>1, <1>2, <2>1
    <3> QED BY <1>2, <3>1
  <2>2. CASE j >= k
    <3>1. j + 1 \in (1..Len(r)) \ {k} /\ old(j + 1) = j
      BY <1>1, <1>2, <2>2
    <3> QED BY <1>2, <3>1
  <2> QED BY <1>1, <2>1, <2>2
<1> HIDE DEF r, old
<1>4. Tile(r, U, lo, hi)
  <2>1. \A i \in 1..Len(r) : Within(r[i], lo, hi)
    BY <1>2 DEF Tile
  <2>2. \A i, j \in 1..Len(r) : i # j => Disjoint(r[i], r[j])
    <3>1. \A j \in (1..Len(r)) \ {k} : Disjoint(r[j], b) /\ Disjoint(b, r[j])
      BY <1>2 DEF Tile, Disjoint
    <3>2. \A i, j \in (1..Len(r)) \ {k} : i # j => Disjoint(r[i], r[j])
      BY <1>2 DEF Tile
    <3> QED BY <1>2, <3>1, <3>2
  <2>3. \A u, v \in U : u # v => Disjoint(u, v)
    BY DEF Tile
  <2>4. \A i \in 1..Len(r), u \in U : Disjoint(r[i], u)
    BY <1>2 DEF Tile
  <2>5. \A u \in U : Within(u, lo, hi)
    BY DEF Tile
  <2>6. ASSUME NEW a \in lo..(hi - 1)
        PROVE  \/ \E i \in 1..Len(r) : Covers(r[i], a)
               \/ \E u \in U : Covers(u, a)
    <3>1. CASE \E j \in 1..Len(s) : Covers(s[j], a)
      BY <1>3, <3>1
    <3>2. CASE \E u \in U \cup {b} : Covers(u, a)
      BY <1>2, <3>2
    <3> QED BY <3>1, <3>2 DEF Tile
  <2> QED BY <2>1, <2>2, <2>3, <2>4, <2>5, <2>6 DEF Tile
<1> QED BY <1>2, <1>4 DEF r

(* Two blocks that meet are joined.                                          *)
LEMMA Joined ==
  ASSUME NEW s \in Seq(Blocks), NEW U \in SUBSET Blocks, NEW lo \in Nat, NEW hi \in Nat,
         NEW b \in Blocks \ U, NEW c \in Blocks \ U, End(b) = c.addr,
         Tile(s, U \cup {b, c}, lo, hi)
  PROVE  /\ Block(b.addr, b.size + c.size) \in Blocks \ U
         /\ Tile(s, U \cup {Block(b.addr, b.size + c.size)}, lo, hi)
<1> DEFINE m == Block(b.addr, b.size + c.size)
<1>1. /\ m \in Blocks /\ m.addr = b.addr /\ End(m) = End(c)
      /\ b.addr < End(b) /\ c.addr < End(c)
      /\ b.addr \in Nat /\ End(b) \in Nat /\ c.addr \in Nat /\ End(c) \in Nat
  <2>1. /\ b.addr \in Nat /\ b.size \in Nat /\ b.size > 0 /\ End(b) = b.addr + b.size
        /\ c.addr \in Nat /\ c.size \in Nat /\ c.size > 0 /\ End(c) = c.addr + c.size
        /\ End(b) \in Nat /\ End(c) \in Nat
    BY BlockFields
  <2>2. b.size + c.size \in Nat /\ b.size + c.size > 0
    BY <2>1
  <2>3. m \in Blocks /\ m.addr = b.addr /\ End(m) = b.addr + (b.size + c.size)
    BY <2>1, <2>2, NewBlock
  <2>4. b.addr < End(b) /\ c.addr < End(c)
    BY BlockFields
  <2>5. End(c) = b.addr + (b.size + c.size)
    <3>1. c.addr = b.addr + b.size
      BY <2>1
    <3>2. End(c) = (b.addr + b.size) + c.size
      BY <2>1, <3>1
    <3>3. (b.addr + b.size) + c.size = b.addr + (b.size + c.size)
      BY <2>1
    <3> QED BY <3>2, <3>3
  <2> HIDE DEF m
  <2> QED BY <2>1, <2>3, <2>4, <2>5
<1> HIDE DEF m
<1>2. \A d \in Blocks : Disjoint(d, b) /\ Disjoint(d, c) => Disjoint(d, m) /\ Disjoint(m, d)
  BY <1>1, BlockFields DEF Disjoint
<1>3. b # c
  BY <1>1
<1>4. \A u \in U : Disjoint(u, b) /\ Disjoint(u, c)
  BY DEF Tile
<1>5. m \notin U
  BY <1>1, <1>2, <1>4, NotDisjoint
<1>6. \A i \in 1..Len(s) : Disjoint(s[i], m)
  BY <1>2, ListedBlock DEF Tile
<1>7. Within(m, lo, hi)
  <2>1. Within(b, lo, hi) /\ Within(c, lo, hi)
    BY DEF Tile
  <2> QED BY <1>1, <2>1 DEF Within
<1>8. \A u, v \in U \cup {m} : u # v => Disjoint(u, v)
  BY <1>2, <1>4 DEF Tile
<1>9. ASSUME NEW a \in lo..(hi - 1)
      PROVE  \/ \E i \in 1..Len(s) : Covers(s[i], a)
             \/ \E u \in U \cup {m} : Covers(u, a)
  <2>1. Covers(b, a) \/ Covers(c, a) => Covers(m, a)
    BY <1>1 DEF Covers
  <2> QED BY <2>1 DEF Tile
<1>10. Tile(s, U \cup {m}, lo, hi)
  BY <1>6, <1>7, <1>8, <1>9 DEF Tile
<1> QED BY <1>1, <1>5, <1>10 DEF m

(* A block is cut in two.                                                    *)
LEMMA Cut ==
  ASSUME NEW s \in Seq(Blocks), NEW U \in SUBSET Blocks, NEW lo \in Nat, NEW hi \in Nat,
         NEW b \in Blocks \ U, Tile(s, U \cup {b}, lo, hi),
         NEW n \in Nat, 0 < n, n < b.size
  PROVE  /\ Block(b.addr, n) \in Blocks
         /\ Block(b.addr + n, b.size - n) \in Blocks \ (U \cup {Block(b.addr, n)})
         /\ Tile(s, U \cup {Block(b.addr, n), Block(b.addr + n, b.size - n)}, lo, hi)
<1> DEFINE c == Block(b.addr, n)
           d == Block(b.addr + n, b.size - n)
<1>1. /\ c \in Blocks /\ c.addr = b.addr /\ End(c) = b.addr + n
      /\ d \in Blocks /\ d.addr = b.addr + n /\ End(d) = End(b)
      /\ b.addr \in Nat /\ End(b) \in Nat /\ b.addr + n < End(b)
  <2>1. /\ b.addr \in Nat /\ b.size \in Nat /\ End(b) = b.addr + b.size
        /\ b.addr + n \in Nat /\ b.size - n \in Nat /\ b.size - n > 0
    BY BlockFields
  <2>2. /\ c \in Blocks /\ c.addr = b.addr /\ End(c) = b.addr + n
        /\ d \in Blocks /\ d.addr = b.addr + n /\ End(d) = b.addr + n + (b.size - n)
    BY <2>1, NewBlock
  <2> HIDE DEF c, d
  <2>3. End(d) = End(b) /\ b.addr + n < End(b)
    BY <2>1, <2>2
  <2> QED BY <2>1, <2>2, <2>3
<1> HIDE DEF c, d
<1>2. \A e \in Blocks : Disjoint(e, b) => /\ Disjoint(e, c) /\ Disjoint(c, e)
                                          /\ Disjoint(e, d) /\ Disjoint(d, e)
  BY <1>1, BlockFields DEF Disjoint
<1>3. Disjoint(c, d) /\ Disjoint(d, c) /\ c # d
  BY <1>1 DEF Disjoint
<1>4. \A u \in U : Disjoint(u, b)
  BY DEF Tile
<1>5. d \notin U \cup {c}
  BY <1>1, <1>2, <1>3, <1>4, NotDisjoint
<1>6. \A i \in 1..Len(s) : Disjoint(s[i], c) /\ Disjoint(s[i], d)
  BY <1>2, ListedBlock DEF Tile
<1>7. Within(c, lo, hi) /\ Within(d, lo, hi)
  <2>1. Within(b, lo, hi)
    BY DEF Tile
  <2> QED BY <1>1, <2>1 DEF Within
<1>8. \A u, v \in U \cup {c, d} : u # v => Disjoint(u, v)
  BY <1>2, <1>3, <1>4 DEF Tile
<1>9. ASSUME NEW a \in lo..(hi - 1)
      PROVE  \/ \E i \in 1..Len(s) : Covers(s[i], a)
             \/ \E u \in U \cup {c, d} : Covers(u, a)
  <2>1. Covers(b, a) => Covers(c, a) \/ Covers(d, a)
    BY <1>1 DEF Covers
  <2> QED BY <2>1 DEF Tile
<1>10. Tile(s, U \cup {c, d}, lo, hi)
  BY <1>6, <1>7, <1>8, <1>9 DEF Tile
<1> QED BY <1>1, <1>5, <1>10 DEF c, d

(* The place of a node in the free list is in the list or behind it.         *)
LEMMA PlaceInList ==
  ASSUME NEW s \in Seq(Blocks), NEW b \in Blocks
  PROVE  Place(s, b) \in 1..(Len(s) + 1)
<1> DEFINE K == {k \in 1..Len(s) : b.size <= s[k].size}
<1>1. Len(s) \in Nat
  BY ListedBlock
<1>2. Place(s, b) = IF K = {} THEN Len(s) + 1 ELSE Min(K)
  BY DEF Place
<1>3. K \subseteq 1..Len(s) /\ K \subseteq Nat
  OBVIOUS
<1> HIDE DEF K
<1>4. K # {} => Min(K) \in 1..Len(s)
  <2>1. K # {} => Min(K) \in K
    BY <1>3, MinProps
  <2> QED BY <1>3, <2>1
<1>5. CASE K = {}
  BY <1>1, <1>2, <1>5
<1>6. CASE K # {}
  <2>1. Place(s, b) = Min(K) /\ Min(K) \in 1..Len(s)
    BY <1>2, <1>4, <1>6
  <2> QED BY <1>1, <2>1
<1> QED BY <1>5, <1>6

(* The free block in front of a node, if there is one, is merged with it.    *)
LEMMA MergeFront ==
  ASSUME NEW s \in Seq(Blocks), NEW U \in SUBSET Blocks, NEW lo \in Nat, NEW hi \in Nat,
         NEW b \in Blocks \ U, Tile(s, U \cup {b}, lo, hi)
  PROVE  LET K == Before(s, b)
         IN  /\ Without(s, K) \in Seq(Blocks)
             /\ WithFront(s, K, b) \in Blocks \ U
             /\ Tile(Without(s, K), U \cup {WithFront(s, K, b)}, lo, hi)
<1> DEFINE K == Before(s, b)
<1>1. CASE K = {}
  BY <1>1 DEF Without, WithFront
<1>2. CASE K # {}
  <2> DEFINE k == Pick(K)
             c == s[k]
             r == RemoveAt(s, k)
  <2>1. k \in 1..Len(s) /\ End(c) = b.addr
    BY <1>2 DEF Pick, Before
  <2>2. Without(s, K) = r /\ WithFront(s, K, b) = Block(c.addr, c.size + b.size)
    BY <1>2 DEF Without, WithFront
  <2> HIDE DEF k, K
  <2>3. r \in Seq(Blocks) /\ c \in Blocks \ (U \cup {b}) /\ Tile(r, U \cup {b, c}, lo, hi)
    <3>1. U \cup {b} \in SUBSET Blocks /\ (U \cup {b}) \cup {c} = U \cup {b, c}
      BY <2>1, ListedBlock
    <3> QED BY <2>1, <3>1, TakeOut
  <2> HIDE DEF c, r
  <2>4. c \in Blocks \ U /\ Tile(r, U \cup {c, b}, lo, hi)
    <3>1. U \cup {b, c} = U \cup {c, b}
      OBVIOUS
    <3> QED BY <2>3, <3>1
  <2>5. /\ Block(c.addr, c.size + b.size) \in Blocks \ U
        /\ Tile(r, U \cup {Block(c.addr, c.size + b.size)}, lo, hi)
    BY <2>1, <2>3, <2>4, Joined
  <2> QED BY <2>2, <2>3, <2>5 DEF K
<1> QED BY <1>1, <1>2

(* So is the free block behind it.                                           *)
LEMMA MergeBack ==
  ASSUME NEW s \in Seq(Blocks), NEW U \in SUBSET Blocks, NEW lo \in Nat, NEW hi \in Nat,
         NEW b \in Blocks \ U, Tile(s, U \cup {b}, lo, hi)
  PROVE  LET K == Behind(s, b)
         IN  /\ Without(s, K) \in Seq(Blocks)
             /\ WithBack(s, K, b) \in Blocks \ U
             /\ Tile(Without(s, K), U \cup {WithBack(s, K, b)}, lo, hi)
<1> DEFINE K == Behind(s, b)
<1>1. CASE K = {}
  BY <1>1 DEF Without, WithBack
<1>2. CASE K # {}
  <2> DEFINE k == Pick(K)
             c == s[k]
             r == RemoveAt(s, k)
  <2>1. k \in 1..Len(s) /\ End(b) = c.addr
    BY <1>2 DEF Pick, Behind
  <2>2. Without(s, K) = r /\ WithBack(s, K, b) = Block(b.addr, b.size + c.size)
    BY <1>2 DEF Without, WithBack
  <2> HIDE DEF k, K
  <2>3. r \in Seq(Blocks) /\ c \in Blocks \ (U \cup {b}) /\ Tile(r, U \cup {b, c}, lo, hi)
    <3>1. U \cup {b} \in SUBSET Blocks /\ (U \cup {b}) \cup {c} = U \cup {b, c}
      BY <2>1, ListedBlock
    <3> QED BY <2>1, <3>1, TakeOut
  <2> HIDE DEF c, r
  <2>4. /\ Block(b.addr, b.size + c.size) \in Blocks \ U
        /\ Tile(r, U \cup {Block(b.addr, b.size + c.size)}, lo, hi)
    BY <2>1, <2>3, Joined
  <2> QED BY <2>2, <2>3, <2>4 DEF K
<1> QED BY <1>1, <1>2

(* AddNodeToFreeList puts the memory of a node into the list.                *)
LEMMA AddNodeTiles ==
  ASSUME NEW s \in Seq(Blocks), NEW U \in SUBSET Blocks, NEW lo \in Nat, NEW hi \in Nat,
         NEW b \in Blocks \ U, Tile(s, U \cup {b}, lo, hi)
  PROVE  AddNodeToFreeList(s, b) \in Seq(Blocks) /\ Tile(AddNodeToFreeList(s, b), U, lo, hi)
<1> DEFINE l1 == Without(s, Before(s, b))
           b1 == WithFront(s, Before(s, b), b)
           l2 == Without(l1, Behind(l1, b1))
           b2 == WithBack(l1, Behind(l1, b1), b1)
<1>1. l1 \in Seq(Blocks) /\ b1 \in Blocks \ U /\ Tile(l1, U \cup {b1}, lo, hi)
  BY MergeFront
<1>2. AddNodeToFreeList(s, b) = Sorted(l2, b2)
  BY DEF AddNodeToFreeList
<1> HIDE DEF l1, b1
<1>3. l2 \in Seq(Blocks) /\ b2 \in Blocks \ U /\ Tile(l2, U \cup {b2}, lo, hi)
  BY <1>1, MergeBack
<1> HIDE DEF l2, b2
<1>4. Place(l2, b2) \in 1..(Len(l2) + 1)
  BY <1>3, PlaceInList
<1> QED BY <1>2, <1>3, <1>4, PutIn DEF Sorted
-----------------------------------------------------------------------------
(* The free list of each region and the blocks in use tile it.               *)
MemInv == /\ free \in [Regions -> Seq(Blocks)]
          /\ used \in [Regions -> SUBSET Blocks]
          /\ falling \in [Clients -> Nat]
          /\ \A r \in Regions : Tile(free[r], used[r], Base(r), Top(r))

LEMMA RegionBounds ==
  \A r \in Regions : Base(r) \in Nat /\ Top(r) \in Nat /\ Base(r) < Top(r)
BY PhysMemAssumption DEF Regions, Base, Top

(* A request is never rounded to nothing.                                    *)
LEMMA RoundedPositive == \A n \in Nat \ {0} : Rounded(n) \in Nat \ {0}
<1> SUFFICES ASSUME NEW n \in Nat \ {0} PROVE Rounded(n) \in Nat \ {0}
  OBVIOUS
<1>1. (n - 1) \div Align \in Nat
  BY PhysMemAssumption
<1>2. ASSUME NEW q \in Nat PROVE q * Align + Align \in Nat \ {0}
  <2>1. q * Align \in Nat
    BY PhysMemAssumption
  <2> QED BY <2>1, PhysMemAssumption
<1> QED BY <1>1, <1>2 DEF Rounded

(* A fresh region is one free block.                                         *)
LEMMA WholeTiles ==
  \A r \in Regions : /\ <<Whole(r)>> \in Seq(Blocks)
                     /\ Tile(<<Whole(r)>>, {}, Base(r), Top(r))
<1> SUFFICES ASSUME NEW r \in Regions
             PROVE  /\ <<Whole(r)>> \in Seq(Blocks)
                    /\ Tile(<<Whole(r)>>, {}, Base(r), Top(r))
  OBVIOUS
<1> DEFINE w == Whole(r)
<1>1. w \in Blocks /\ w.addr = Base(r) /\ End(w) = Top(r)
  <2>1. /\ Base(r) \in Nat /\ Top(r) \in Nat /\ Top(r) - Base(r) \in Nat
        /\ Top(r) - Base(r) > 0
    BY RegionBounds
  <2>2. /\ w \in Blocks /\ w.addr = Base(r) /\ End(w) = Base(r) + (Top(r) - Base(r))
    BY <2>1, NewBlock DEF Whole
  <2> QED BY <2>1, <2>2
<1> HIDE DEF w
<1>2. <<w>> \in Seq(Blocks) /\ Len(<<w>>) = 1 /\ <<w>>[1] = w
  BY <1>1
<1>3. Tile(<<w>>, {}, Base(r), Top(r))
  BY <1>1, <1>2, RegionBounds DEF Tile, Within, Covers
<1> QED BY <1>2, <1>3 DEF w

LEMMA MemInit == MemoryInit => MemInv
BY WholeTiles DEF MemoryInit, MemInv

(* A block is found, and what is too much of it goes back to the list.       *)
LEMMA TakeKeeps ==
  ASSUME MemInv, NEW r \in Regions, NEW n \in Nat \ {0}, Take(r, n)
  PROVE  /\ free' \in [Regions -> Seq(Blocks)]
         /\ used' \in [Regions -> SUBSET Blocks]
         /\ \A q \in Regions : Tile(free'[q], used'[q], Base(q), Top(q))
<1> DEFINE K == Fitting(r, n)
           k == Min(K)
           s == free[r]
           U == used[r]
           b == s[k]
           rest == RemoveAt(s, k)
           lo == Base(r)
           hi == Top(r)
<1>1. k \in 1..Len(s) /\ n <= b.size
  <2>1. K # {} /\ K \subseteq Nat
    BY DEF Take, Fitting
  <2> HIDE DEF K
  <2>2. k \in K
    BY <2>1, MinProps
  <2> QED BY <2>2 DEF K, Fitting
<1>2. /\ s \in Seq(Blocks) /\ U \in SUBSET Blocks /\ lo \in Nat /\ hi \in Nat
      /\ Tile(s, U, lo, hi)
  BY RegionBounds DEF MemInv
<1>3. /\ IF Splits(b, n)
         THEN /\ free' = [free EXCEPT ![r] =
                            AddNodeToFreeList(rest, Block(b.addr + n, b.size - n))]
              /\ used' = [used EXCEPT ![r] = U \cup {Block(b.addr, n)}]
         ELSE /\ free' = [free EXCEPT ![r] = rest]
              /\ used' = [used EXCEPT ![r] = U \cup {b}]
  BY DEF Take
<1> HIDE DEF K, k, s, U, lo, hi
<1>4. rest \in Seq(Blocks) /\ b \in Blocks \ U /\ Tile(rest, U \cup {b}, lo, hi)
  BY <1>1, <1>2, TakeOut
<1> HIDE DEF b, rest
<1>5. \E t \in Seq(Blocks), V \in SUBSET Blocks :
         /\ free' = [free EXCEPT ![r] = t]
         /\ used' = [used EXCEPT ![r] = V]
         /\ Tile(t, V, lo, hi)
  <2>1. CASE Splits(b, n)
    <3> DEFINE c == Block(b.addr, n)
               d == Block(b.addr + n, b.size - n)
    <3>1. n \in Nat /\ 0 < n /\ n < b.size
      BY <1>1, <1>4, <2>1, BlockFields, PhysMemAssumption DEF Splits
    <3>2. /\ c \in Blocks /\ d \in Blocks \ (U \cup {c})
          /\ Tile(rest, U \cup {c, d}, lo, hi)
      BY <1>2, <1>4, <3>1, Cut
    <3> HIDE DEF c, d
    <3>3. U \cup {c} \in SUBSET Blocks /\ U \cup {c, d} = (U \cup {c}) \cup {d}
      BY <1>2, <3>2
    <3>4. /\ AddNodeToFreeList(rest, d) \in Seq(Blocks)
          /\ Tile(AddNodeToFreeList(rest, d), U \cup {c}, lo, hi)
      BY <1>2, <1>4, <3>2, <3>3, AddNodeTiles
    <3> QED BY <1>3, <2>1, <3>3, <3>4 DEF c, d
  <2>2. CASE ~Splits(b, n)
    BY <1>2, <1>3, <1>4, <2>2
  <2> QED BY <2>1, <2>2
<1> QED BY <1>5 DEF MemInv, lo, hi

(* Every step keeps the regions tiled.                                       *)
LEMMA MemStep == MemInv /\ [MemoryNext]_memoryVars => MemInv'
<1> SUFFICES ASSUME MemInv, [MemoryNext]_memoryVars PROVE MemInv'
  OBVIOUS
<1>1. ASSUME NEW c \in Clients, NEW n \in Requests, NEW r \in Regions, AllocateMemory(c, r, n)
      PROVE  MemInv'
  <2>1. Rounded(n) \in Nat \ {0}
    BY RoundedPositive, PhysMemAssumption
  <2> QED BY <1>1, <2>1, TakeKeeps DEF AllocateMemory, MemInv
<1>2. ASSUME NEW c \in Clients, NEW n \in Requests, AllocateFails(c, n) PROVE MemInv'
  BY <1>2, PhysMemAssumption DEF AllocateFails, MemInv
<1>3. ASSUME NEW c \in Clients, AllocateAgain(c) PROVE MemInv'
  <2>1. falling' \in [Clients -> Nat]
    BY <1>3 DEF AllocateAgain, MemInv
  <2>2. CASE Take("normal", Rounded(falling[c]))
    <3>1. falling[c] \in Nat \ {0} /\ "normal" \in Regions
      BY <1>3 DEF AllocateAgain, Calling, MemInv, Regions
    <3>2. Rounded(falling[c]) \in Nat \ {0}
      BY <3>1, RoundedPositive
    <3> QED BY <2>1, <2>2, <3>1, <3>2, TakeKeeps DEF MemInv
  <2>3. CASE UNCHANGED <<free, used>>
    BY <2>1, <2>3 DEF MemInv
  <2> QED BY <1>3, <2>2, <2>3 DEF AllocateAgain
<1>4. ASSUME NEW r \in Regions, NEW b \in used[r], FreeMemory(r, b) PROVE MemInv'
  <2> DEFINE U == used[r] \ {b}
             t == AddNodeToFreeList(free[r], b)
  <2>1. /\ free[r] \in Seq(Blocks) /\ U \in SUBSET Blocks /\ b \in Blocks \ U
        /\ Base(r) \in Nat /\ Top(r) \in Nat
        /\ U \cup {b} = used[r] /\ Tile(free[r], used[r], Base(r), Top(r))
    BY RegionBounds DEF MemInv
  <2> HIDE DEF U
  <2>2. t \in Seq(Blocks) /\ Tile(t, U, Base(r), Top(r))
    BY <2>1, AddNodeTiles
  <2>3. /\ free' = [free EXCEPT ![r] = t] /\ used' = [used EXCEPT ![r] = U]
        /\ falling' = falling
    BY <1>4 DEF FreeMemory, U
  <2> HIDE DEF t
  <2> QED BY <2>1, <2>2, <2>3 DEF MemInv
<1>5. CASE ReInit
  BY <1>5, WholeTiles DEF ReInit, MemInv
<1>6. CASE UNCHANGED memoryVars
  BY <1>6 DEF memoryVars, MemInv
<1> QED BY <1>1, <1>2, <1>3, <1>4, <1>5, <1>6 DEF MemoryNext

(* AllocateMemory, FreeMemory and ReInit of cphysmem.cpp, in any order and for
   any sizes of the regions, keep the invariant: the lists and the blocks in
   use tile the region they belong to.                                       *)
THEOREM MemoryInvariant == MemorySpec => []MemInv
BY MemInit, MemStep, PTL DEF MemorySpec

(* The lists hold blocks, none of them empty.                                *)
THEOREM MemoryTypesCorrect == MemorySpec => []MemoryTypeOK
<1>1. MemInv => MemoryTypeOK
  BY DEF MemInv, MemoryTypeOK
<1> QED BY MemoryInvariant, <1>1, PTL

(* Whatever is allocated and freed in whatever order, free blocks and blocks
   in use tile each region: AllocateMemory and FreeMemory of cphysmem.cpp never
   hand memory out twice and never lose any.                                 *)
THEOREM MemoryTiled == MemorySpec => []Tiling
<1>1. MemInv => Tiling
  <2> SUFFICES ASSUME MemInv, NEW r \in Regions
               PROVE  /\ \A b \in Listed(r) : Base(r) <= b.addr /\ End(b) <= Top(r)
                      /\ \A b, c \in Listed(r) : b # c => Disjoint(b, c)
                      /\ \A a \in Base(r)..(Top(r) - 1) :
                            \E b \in Listed(r) : b.addr <= a /\ a < End(b)
                      /\ \A i, j \in 1..Len(free[r]) :
                            i # j => Disjoint(free[r][i], free[r][j])
                      /\ ToSet(free[r]) \cap used[r] = {}
    BY DEF Tiling
  <2> DEFINE s == free[r]
             U == used[r]
  <2>1. Tile(s, U, Base(r), Top(r)) /\ s \in Seq(Blocks) /\ U \in SUBSET Blocks
    BY DEF MemInv
  <2>2. ToSet(s) = {s[i] : i \in 1..Len(s)}
    BY <2>1 DEF ToSet
  <2>3. Listed(r) = ToSet(s) \cup U
    BY DEF Listed
  <2> HIDE DEF s, U
  <2>4. \A b \in Listed(r) : Base(r) <= b.addr /\ End(b) <= Top(r)
    BY <2>1, <2>2, <2>3 DEF Tile, Within
  <2>5. \A b, c \in Listed(r) : b # c => Disjoint(b, c)
    BY <2>1, <2>2, <2>3 DEF Tile, Disjoint
  <2>6. \A a \in Base(r)..(Top(r) - 1) : \E b \in Listed(r) : b.addr <= a /\ a < End(b)
    BY <2>1, <2>2, <2>3 DEF Tile, Covers
  <2>7. ToSet(s) \cap U = {}
    BY <2>1, <2>2, ListedBlock, NotDisjoint DEF Tile
  <2> QED BY <2>1, <2>4, <2>5, <2>6, <2>7 DEF s, U, Tile
<1> QED BY MemoryInvariant, <1>1, PTL
-----------------------------------------------------------------------------
(* The free list is in order of size, and no two free blocks meet.           *)
Ordered(s) == \A i, j \in 1..Len(s) : i < j => s[i].size <= s[j].size
Apart(s)   == \A i, j \in 1..Len(s) : End(s[i]) # s[j].addr

(* Unlinking a block keeps the others in their order.                        *)
LEMMA WithoutKeeps ==
  ASSUME NEW s \in Seq(Blocks), NEW K \in SUBSET (1..Len(s))
  PROVE  LET w == Without(s, K)
         IN  /\ w \in Seq(Blocks)
             /\ \A i \in 1..Len(w) : \E m \in 1..Len(s) : w[i] = s[m]
             /\ \A i, j \in 1..Len(w) : i < j =>
                   \E m, n \in 1..Len(s) : m < n /\ w[i] = s[m] /\ w[j] = s[n]
<1>1. CASE K = {}
  BY <1>1 DEF Without
<1>2. CASE K # {}
  <2> DEFINE k == Pick(K)
             w == RemoveAt(s, k)
             old(i) == IF i < k THEN i ELSE i + 1
  <2>1. k \in 1..Len(s) /\ Without(s, K) = w /\ Len(s) \in Nat
    BY <1>2, ListedBlock DEF Pick, Without
  <2> HIDE DEF k
  <2>2. /\ w \in Seq(Blocks)
        /\ Len(w) = Len(s) - 1
        /\ \A i \in 1..(Len(s) - 1) : w[i] = s[old(i)]
    BY <2>1, RemoveAtProps
  <2> HIDE DEF w
  <2>3. ASSUME NEW i \in 1..Len(w) PROVE w[i] = s[old(i)] /\ old(i) \in 1..Len(s)
    <3>1. i \in 1..(Len(s) - 1)
      BY <2>1, <2>2
    <3> QED BY <2>1, <2>2, <3>1
  <2>4. \A i, j \in 1..Len(w) : i < j => old(i) < old(j)
    BY <2>1, <2>2
  <2> HIDE DEF old
  <2> QED BY <2>1, <2>2, <2>3, <2>4
<1> QED BY <1>1, <1>2

LEMMA WithoutOrdered ==
  ASSUME NEW s \in Seq(Blocks), NEW K \in SUBSET (1..Len(s)), Ordered(s)
  PROVE  Ordered(Without(s, K))
BY WithoutKeeps DEF Ordered

LEMMA WithoutApart ==
  ASSUME NEW s \in Seq(Blocks), NEW K \in SUBSET (1..Len(s)), Apart(s)
  PROVE  Apart(Without(s, K))
<1> DEFINE w == Without(s, K)
<1>1. \A i \in 1..Len(w) : \E m \in 1..Len(s) : w[i] = s[m]
  BY WithoutKeeps
<1> HIDE DEF w
<1>2. Apart(w)
  BY <1>1 DEF Apart
<1> QED BY <1>2 DEF w

(* What InsertAt puts where, seen from the new list.                         *)
LEMMA InsertedOrOld ==
  ASSUME NEW s \in Seq(Blocks), NEW b \in Blocks, NEW k \in 1..(Len(s) + 1)
  PROVE  LET w == InsertAt(s, k, b)
         IN  /\ w \in Seq(Blocks)
             /\ k \in 1..Len(w) /\ w[k] = b
             /\ \A i \in 1..Len(w) : \/ i = k
                                     \/ i < k /\ i \in 1..Len(s) /\ w[i] = s[i]
                                     \/ i > k /\ i - 1 \in 1..Len(s) /\ w[i] = s[i - 1]
<1> DEFINE w == InsertAt(s, k, b)
<1>1. Len(s) \in Nat
  BY ListedBlock
<1>2. /\ w \in Seq(Blocks)
      /\ Len(w) = Len(s) + 1
      /\ \A i \in 1..(Len(s) + 1) :
            w[i] = IF i < k THEN s[i] ELSE IF i = k THEN b ELSE s[i - 1]
  BY <1>1, InsertAtProps, SMTT(30)
<1> HIDE DEF w
<1>3. k \in 1..Len(w) /\ w[k] = b
  BY <1>1, <1>2
<1>4. ASSUME NEW i \in 1..Len(w)
      PROVE  \/ i = k
             \/ i < k /\ i \in 1..Len(s) /\ w[i] = s[i]
             \/ i > k /\ i - 1 \in 1..Len(s) /\ w[i] = s[i - 1]
  BY <1>1, <1>2
<1> QED BY <1>2, <1>3, <1>4 DEF w

(* The place of a node is behind the smaller blocks and before the others.   *)
LEMMA PlaceSeparates ==
  ASSUME NEW s \in Seq(Blocks), NEW b \in Blocks, Ordered(s)
  PROVE  /\ \A i \in 1..Len(s) : i < Place(s, b) => s[i].size <= b.size
         /\ \A i \in 1..Len(s) : i >= Place(s, b) => b.size <= s[i].size
<1> DEFINE K == {k \in 1..Len(s) : b.size <= s[k].size}
<1>1. Len(s) \in Nat /\ b.size \in Nat /\ \A i \in 1..Len(s) : s[i].size \in Nat
  BY ListedBlock, BlockFields
<1>2. Place(s, b) = IF K = {} THEN Len(s) + 1 ELSE Min(K)
  BY DEF Place
<1>3. \A i \in 1..Len(s) : i \notin K => s[i].size <= b.size
  BY <1>1
<1>4. \A i \in K : b.size <= s[i].size /\ i \in 1..Len(s)
  OBVIOUS
<1>5. K \subseteq Nat
  OBVIOUS
<1> HIDE DEF K
<1>6. CASE K = {}
  BY <1>1, <1>2, <1>3, <1>6
<1>7. CASE K # {}
  <2>1. Place(s, b) \in K /\ \A j \in K : Place(s, b) <= j
    BY <1>2, <1>5, <1>7, MinProps
  <2>2. ASSUME NEW i \in 1..Len(s), i < Place(s, b) PROVE s[i].size <= b.size
    <3>1. i \notin K
      BY <1>4, <2>1, <2>2
    <3> QED BY <1>3, <3>1
  <2>3. ASSUME NEW i \in 1..Len(s), i >= Place(s, b) PROVE b.size <= s[i].size
    <3>1. s[Place(s, b)].size <= s[i].size
      BY <1>1, <1>4, <2>1, <2>3 DEF Ordered
    <3>2. b.size <= s[Place(s, b)].size /\ Place(s, b) \in 1..Len(s)
      BY <1>4, <2>1
    <3> QED BY <1>1, <3>1, <3>2
  <2> QED BY <2>2, <2>3
<1> QED BY <1>6, <1>7

LEMMA SortedOrdered ==
  ASSUME NEW s \in Seq(Blocks), NEW b \in Blocks, Ordered(s)
  PROVE  Ordered(Sorted(s, b))
<1> DEFINE k == Place(s, b)
           w == InsertAt(s, k, b)
<1>1. k \in 1..(Len(s) + 1)
  BY PlaceInList
<1>2. /\ \A i \in 1..Len(s) : i < k => s[i].size <= b.size
      /\ \A i \in 1..Len(s) : i >= k => b.size <= s[i].size
  BY PlaceSeparates
<1> HIDE DEF k
<1>3. /\ k \in 1..Len(w) /\ w[k] = b
      /\ \A i \in 1..Len(w) : \/ i = k
                              \/ i < k /\ i \in 1..Len(s) /\ w[i] = s[i]
                              \/ i > k /\ i - 1 \in 1..Len(s) /\ w[i] = s[i - 1]
  BY <1>1, InsertedOrOld
<1>4. b.size \in Nat /\ \A i \in 1..Len(s) : s[i].size \in Nat
  BY ListedBlock, BlockFields
<1> HIDE DEF w
<1>5. ASSUME NEW i \in 1..Len(w), NEW j \in 1..Len(w), i < j PROVE w[i].size <= w[j].size
  <2>1. CASE j < k
    BY <1>3, <1>5, <2>1 DEF Ordered
  <2>2. CASE j = k
    BY <1>2, <1>3, <1>5, <2>2
  <2>3. CASE j > k
    <3>1. j - 1 \in 1..Len(s) /\ j - 1 >= k /\ w[j] = s[j - 1]
      BY <1>1, <1>3, <2>3
    <3>2. CASE i < k
      <4>1. i \in 1..Len(s) /\ i < j - 1 /\ w[i] = s[i]
        BY <1>1, <1>3, <3>1, <3>2
      <4> QED BY <3>1, <4>1 DEF Ordered
    <3>3. CASE i = k
      BY <1>2, <1>3, <3>1, <3>3
    <3>4. CASE i > k
      <4>1. i - 1 \in 1..Len(s) /\ i - 1 < j - 1 /\ w[i] = s[i - 1]
        BY <1>1, <1>3, <1>5, <3>4
      <4> QED BY <3>1, <4>1 DEF Ordered
    <3> QED BY <1>1, <3>2, <3>3, <3>4
  <2> QED BY <1>1, <2>1, <2>2, <2>3
<1> QED BY <1>5 DEF Ordered, Sorted, k, w

(* After both mergers no free block meets the node.                          *)
LEMMA FrontMerged ==
  ASSUME NEW s \in Seq(Blocks), NEW b \in Blocks, Apart(s)
  PROVE  LET K == Before(s, b)
             l == Without(s, K)
             d == WithFront(s, K, b)
         IN  /\ K \in SUBSET (1..Len(s)) /\ l \in Seq(Blocks) /\ d \in Blocks
             /\ \A i \in 1..Len(l) : End(l[i]) # d.addr
<1> DEFINE K == Before(s, b)
           l == Without(s, K)
           d == WithFront(s, K, b)
<1>1. K \in SUBSET (1..Len(s))
  BY DEF Before
<1>2. l \in Seq(Blocks) /\ \A i \in 1..Len(l) : \E j \in 1..Len(s) : l[i] = s[j]
  BY <1>1, WithoutKeeps
<1>3. CASE K = {}
  <2>1. d = b /\ l = s
    BY <1>3 DEF WithFront, Without
  <2>2. \A j \in 1..Len(s) : End(s[j]) # b.addr
    BY <1>3 DEF Before
  <2> QED BY <1>1, <1>2, <2>1, <2>2
<1>4. CASE K # {}
  <2> DEFINE k == Pick(K)
  <2>1. k \in 1..Len(s) /\ d = Block(s[k].addr, s[k].size + b.size)
    BY <1>1, <1>4 DEF Pick, WithFront
  <2> HIDE DEF k, d, l, K
  <2>2. s[k] \in Blocks
    BY <2>1, ListedBlock
  <2>3. s[k].addr \in Nat /\ s[k].size + b.size \in Nat /\ s[k].size + b.size > 0
    BY <2>2, BlockFields
  <2>4. d \in Blocks /\ d.addr = s[k].addr
    BY <2>1, <2>3, NewBlock
  <2>5. \A j \in 1..Len(s) : End(s[j]) # s[k].addr
    BY <2>1 DEF Apart
  <2> QED BY <1>1, <1>2, <2>4, <2>5 DEF l, d, K
<1> QED BY <1>3, <1>4

LEMMA BackMerged ==
  ASSUME NEW s \in Seq(Blocks), NEW b \in Blocks, Apart(s),
         \A i \in 1..Len(s) : End(s[i]) # b.addr
  PROVE  LET K == Behind(s, b)
             l == Without(s, K)
             d == WithBack(s, K, b)
         IN  /\ K \in SUBSET (1..Len(s)) /\ l \in Seq(Blocks) /\ d \in Blocks
             /\ \A i \in 1..Len(l) : End(l[i]) # d.addr /\ l[i].addr # End(d)
<1> DEFINE K == Behind(s, b)
           l == Without(s, K)
           d == WithBack(s, K, b)
<1>1. K \in SUBSET (1..Len(s))
  BY DEF Behind
<1>2. l \in Seq(Blocks) /\ \A i \in 1..Len(l) : \E j \in 1..Len(s) : l[i] = s[j]
  BY <1>1, WithoutKeeps
<1>3. CASE K = {}
  <2>1. d = b /\ l = s
    BY <1>3 DEF WithBack, Without
  <2>2. \A j \in 1..Len(s) : s[j].addr # End(b)
    BY <1>3 DEF Behind
  <2> QED BY <1>1, <1>2, <2>1, <2>2
<1>4. CASE K # {}
  <2> DEFINE k == Pick(K)
             c == s[k]
  <2>1. k \in 1..Len(s) /\ c.addr = End(b) /\ d = Block(b.addr, b.size + c.size)
    BY <1>4 DEF Behind, Pick, WithBack
  <2> HIDE DEF k, d, l, K
  <2>2. c \in Blocks /\ \A j \in 1..Len(s) : End(c) # s[j].addr
    BY <2>1, ListedBlock DEF Apart
  <2> HIDE DEF c
  <2>3. /\ b.addr \in Nat /\ b.size \in Nat /\ b.size > 0 /\ End(b) = b.addr + b.size
        /\ c.size \in Nat /\ End(c) = c.addr + c.size
    BY <2>2, BlockFields
  <2>4. b.size + c.size \in Nat /\ b.size + c.size > 0
    BY <2>3
  <2>5. d \in Blocks /\ d.addr = b.addr /\ End(d) = b.addr + (b.size + c.size)
    BY <2>1, <2>3, <2>4, NewBlock
  <2>6. End(d) = End(c)
    <3>1. End(c) = (b.addr + b.size) + c.size
      BY <2>1, <2>3
    <3> QED BY <2>3, <2>5, <3>1
  <2> QED BY <1>1, <1>2, <2>2, <2>5, <2>6 DEF l, d, K
<1> QED BY <1>3, <1>4

LEMMA AddNodeApart ==
  ASSUME NEW s \in Seq(Blocks), NEW b \in Blocks, Apart(s)
  PROVE  Apart(AddNodeToFreeList(s, b))
<1> DEFINE K1 == Before(s, b)
           l1 == Without(s, K1)
           b1 == WithFront(s, K1, b)
           K2 == Behind(l1, b1)
           l2 == Without(l1, K2)
           b2 == WithBack(l1, K2, b1)
           k  == Place(l2, b2)
           w  == InsertAt(l2, k, b2)
<1>1. AddNodeToFreeList(s, b) = w
  BY DEF AddNodeToFreeList, Sorted
<1>2. /\ l1 \in Seq(Blocks) /\ b1 \in Blocks /\ Apart(l1)
      /\ \A i \in 1..Len(l1) : End(l1[i]) # b1.addr
  BY FrontMerged, WithoutApart
<1> HIDE DEF l1, b1
<1>3. /\ l2 \in Seq(Blocks) /\ b2 \in Blocks /\ Apart(l2)
      /\ \A i \in 1..Len(l2) : End(l2[i]) # b2.addr /\ l2[i].addr # End(b2)
  BY <1>2, BackMerged, WithoutApart
<1> HIDE DEF l2, b2
<1>4. k \in 1..(Len(l2) + 1)
  BY <1>3, PlaceInList
<1> HIDE DEF k
<1>5. \A i \in 1..Len(w) : w[i] = b2 \/ \E j \in 1..Len(l2) : w[i] = l2[j]
  BY <1>3, <1>4, InsertedOrOld
<1>6. End(b2) # b2.addr
  BY <1>3, BlockFields
<1> HIDE DEF w
<1>7. Apart(w)
  BY <1>3, <1>5, <1>6 DEF Apart
<1> QED BY <1>1, <1>7

LEMMA AddNodeOrdered ==
  ASSUME NEW s \in Seq(Blocks), NEW b \in Blocks, Apart(s), Ordered(s)
  PROVE  Ordered(AddNodeToFreeList(s, b))
<1> DEFINE K1 == Before(s, b)
           l1 == Without(s, K1)
           b1 == WithFront(s, K1, b)
           K2 == Behind(l1, b1)
           l2 == Without(l1, K2)
           b2 == WithBack(l1, K2, b1)
<1>1. AddNodeToFreeList(s, b) = Sorted(l2, b2)
  BY DEF AddNodeToFreeList
<1>2. /\ l1 \in Seq(Blocks) /\ b1 \in Blocks /\ Apart(l1) /\ Ordered(l1)
      /\ \A i \in 1..Len(l1) : End(l1[i]) # b1.addr
  BY FrontMerged, WithoutApart, WithoutOrdered
<1> HIDE DEF l1, b1
<1>3. l2 \in Seq(Blocks) /\ b2 \in Blocks /\ Ordered(l2)
  BY <1>2, BackMerged, WithoutOrdered
<1> QED BY <1>1, <1>3, SortedOrdered

(* Taking a block out of the list leaves it apart and in order.              *)
LEMMA RemoveKeeps ==
  ASSUME NEW s \in Seq(Blocks), NEW k \in 1..Len(s), Apart(s), Ordered(s)
  PROVE  RemoveAt(s, k) \in Seq(Blocks) /\ Apart(RemoveAt(s, k)) /\ Ordered(RemoveAt(s, k))
<1>1. {k} \in SUBSET (1..Len(s)) /\ Without(s, {k}) = RemoveAt(s, k)
  BY DEF Without, Pick
<1> QED BY <1>1, WithoutKeeps, WithoutApart, WithoutOrdered
-----------------------------------------------------------------------------
ListInv == \A r \in Regions : Apart(free[r]) /\ Ordered(free[r])

LEMMA ListWhole == \A r \in Regions : Apart(<<Whole(r)>>) /\ Ordered(<<Whole(r)>>)
<1> SUFFICES ASSUME NEW r \in Regions PROVE Apart(<<Whole(r)>>) /\ Ordered(<<Whole(r)>>)
  OBVIOUS
<1> DEFINE w == Whole(r)
<1>1. Base(r) \in Nat /\ Top(r) - Base(r) \in Nat /\ Top(r) - Base(r) > 0
  BY RegionBounds
<1>2. w \in Blocks
  BY <1>1, NewBlock DEF Whole
<1>3. End(w) # w.addr
  BY <1>2, BlockFields
<1> HIDE DEF w
<1>4. Len(<<w>>) = 1 /\ <<w>>[1] = w
  OBVIOUS
<1>5. Apart(<<w>>) /\ Ordered(<<w>>)
  BY <1>3, <1>4 DEF Apart, Ordered
<1> QED BY <1>5 DEF w

LEMMA ListInit == MemoryInit => ListInv
BY ListWhole DEF MemoryInit, ListInv

LEMMA TakeKeepsList ==
  ASSUME MemInv, ListInv, NEW r \in Regions, NEW n \in Nat \ {0}, Take(r, n)
  PROVE  ListInv'
<1> DEFINE k == Min(Fitting(r, n))
           s == free[r]
           b == s[k]
           rest == RemoveAt(s, k)
           d == Block(b.addr + n, b.size - n)
<1>1. k \in 1..Len(s)
  <2>1. Fitting(r, n) # {} /\ Fitting(r, n) \subseteq Nat
    BY DEF Take, Fitting
  <2>2. k \in Fitting(r, n)
    BY <2>1, MinProps
  <2> QED BY <2>2 DEF Fitting
<1>2. s \in Seq(Blocks) /\ Apart(s) /\ Ordered(s)
  BY DEF MemInv, ListInv
<1>3. IF Splits(b, n) THEN free' = [free EXCEPT ![r] = AddNodeToFreeList(rest, d)]
                      ELSE free' = [free EXCEPT ![r] = rest]
  BY DEF Take
<1>4. free \in [Regions -> Seq(Blocks)]
  BY DEF MemInv
<1> HIDE DEF k, s
<1>5. b \in Blocks /\ rest \in Seq(Blocks) /\ Apart(rest) /\ Ordered(rest)
  BY <1>1, <1>2, RemoveKeeps, ListedBlock
<1> HIDE DEF b, rest
<1>6. CASE Splits(b, n)
  <2>1. b.addr + n \in Nat /\ b.size - n \in Nat /\ b.size - n > 0
    BY <1>5, <1>6, BlockFields, PhysMemAssumption DEF Splits
  <2>2. d \in Blocks
    BY <2>1, NewBlock
  <2> HIDE DEF d
  <2>3. Apart(AddNodeToFreeList(rest, d)) /\ Ordered(AddNodeToFreeList(rest, d))
    BY <1>5, <2>2, AddNodeApart, AddNodeOrdered
  <2> QED BY <1>3, <1>4, <1>6, <2>3 DEF ListInv
<1>7. CASE ~Splits(b, n)
  BY <1>3, <1>4, <1>5, <1>7 DEF ListInv
<1> QED BY <1>6, <1>7

LEMMA ListStep == MemInv /\ ListInv /\ [MemoryNext]_memoryVars => ListInv'
<1> SUFFICES ASSUME MemInv, ListInv, [MemoryNext]_memoryVars PROVE ListInv'
  OBVIOUS
<1>1. ASSUME NEW c \in Clients, NEW n \in Requests, NEW r \in Regions, AllocateMemory(c, r, n)
      PROVE  ListInv'
  <2>1. Rounded(n) \in Nat \ {0}
    BY RoundedPositive, PhysMemAssumption
  <2> QED BY <1>1, <2>1, TakeKeepsList DEF AllocateMemory
<1>2. ASSUME NEW c \in Clients, NEW n \in Requests, AllocateFails(c, n) PROVE ListInv'
  BY <1>2 DEF AllocateFails, ListInv
<1>3. ASSUME NEW c \in Clients, AllocateAgain(c) PROVE ListInv'
  <2>1. CASE Take("normal", Rounded(falling[c]))
    <3>1. falling[c] \in Nat \ {0} /\ "normal" \in Regions
      BY <1>3 DEF AllocateAgain, Calling, MemInv, Regions
    <3>2. Rounded(falling[c]) \in Nat \ {0}
      BY <3>1, RoundedPositive
    <3> QED BY <2>1, <3>1, <3>2, TakeKeepsList
  <2>2. CASE UNCHANGED <<free, used>>
    BY <2>2 DEF ListInv
  <2> QED BY <1>3, <2>1, <2>2 DEF AllocateAgain
<1>4. ASSUME NEW r \in Regions, NEW b \in used[r], FreeMemory(r, b) PROVE ListInv'
  <2>1. /\ free[r] \in Seq(Blocks) /\ b \in Blocks /\ Apart(free[r]) /\ Ordered(free[r])
        /\ free \in [Regions -> Seq(Blocks)]
    BY DEF MemInv, ListInv
  <2>2. /\ Apart(AddNodeToFreeList(free[r], b))
        /\ Ordered(AddNodeToFreeList(free[r], b))
    BY <2>1, AddNodeApart, AddNodeOrdered
  <2>3. free' = [free EXCEPT ![r] = AddNodeToFreeList(free[r], b)]
    BY <1>4 DEF FreeMemory
  <2> QED BY <2>1, <2>2, <2>3 DEF ListInv
<1>5. CASE ReInit
  BY <1>5, ListWhole DEF ReInit, ListInv
<1>6. CASE UNCHANGED memoryVars
  BY <1>6 DEF memoryVars, ListInv
<1> QED BY <1>1, <1>2, <1>3, <1>4, <1>5, <1>6 DEF MemoryNext

(* The free list stays in order of size, so that FindFreeBlock finds the
   smallest block that fits, and ValidateHeaps (cphysmem.cpp:250) is content.  *)
THEOREM FreeListOrdered == MemorySpec => []SortedBySize
<1>1. ListInv => SortedBySize
  BY DEF ListInv, Ordered, SortedBySize
<1> QED BY MemInit, MemStep, ListInit, ListStep, <1>1, PTL DEF MemorySpec

(* A stretch of memory without a block in use lies in one free block: AddNode-
   ToFreeList never leaves two free blocks side by side.                      *)
THEOREM NoFragments == MemorySpec => []Coalesced
<1>1. MemInv /\ ListInv => Coalesced
  <2> SUFFICES ASSUME MemInv, ListInv, NEW r \in Regions,
                      NEW lo \in Base(r)..Top(r), NEW hi \in Base(r)..Top(r), lo < hi,
                      \A u \in used[r] : hi <= u.addr \/ End(u) <= lo
               PROVE  \E k \in 1..Len(free[r]) : /\ free[r][k].addr <= lo
                                                 /\ hi <= End(free[r][k])
    BY DEF Coalesced
  <2> DEFINE s == free[r]
             U == used[r]
  <2>1. /\ Tile(s, U, Base(r), Top(r)) /\ Apart(s)
        /\ s \in Seq(Blocks) /\ U \in SUBSET Blocks
        /\ Base(r) \in Nat /\ Top(r) \in Nat
    BY RegionBounds DEF MemInv, ListInv
  <2>2. \A i \in 1..Len(s) : s[i].addr \in Nat /\ End(s[i]) \in Nat /\ s[i].addr < End(s[i])
    BY <2>1, ListedBlock, BlockFields
  <2>3. \A u \in U : /\ u.addr \in Nat /\ End(u) \in Nat
                     /\ hi <= u.addr \/ End(u) <= lo
    BY <2>1, BlockFields
  <2> HIDE DEF s, U
  <2>4. \A a \in lo..(hi - 1) : \E i \in 1..Len(s) : s[i].addr <= a /\ a < End(s[i])
    <3> SUFFICES ASSUME NEW a \in lo..(hi - 1)
                 PROVE  \E i \in 1..Len(s) : s[i].addr <= a /\ a < End(s[i])
      OBVIOUS
    <3>1. a \in Base(r)..(Top(r) - 1)
      BY <2>1
    <3>2. \A u \in U : ~Covers(u, a)
      BY <2>1, <2>3 DEF Covers
    <3> QED BY <2>1, <3>1, <3>2 DEF Tile, Covers
  <2>5. PICK k \in 1..Len(s) : s[k].addr <= lo /\ lo < End(s[k])
    BY <2>1, <2>4
  <2>6. hi <= End(s[k])
    <3> SUFFICES ASSUME End(s[k]) < hi PROVE FALSE
      BY <2>1, <2>2
    <3>1. End(s[k]) \in lo..(hi - 1)
      BY <2>1, <2>2, <2>5
    <3>2. PICK j \in 1..Len(s) : s[j].addr <= End(s[k]) /\ End(s[k]) < End(s[j])
      BY <2>4, <3>1
    <3>3. j # k /\ s[j].addr # End(s[k])
      BY <2>1, <2>2, <3>2 DEF Apart
    <3>4. End(s[k]) <= s[j].addr \/ End(s[j]) <= s[k].addr
      BY <2>1, <3>3 DEF Tile, Disjoint
    <3> QED BY <2>2, <3>2, <3>3, <3>4
  <2> QED BY <2>5, <2>6 DEF s
<1> QED BY MemInit, MemStep, ListInit, ListStep, <1>1, PTL DEF MemorySpec
-----------------------------------------------------------------------------
(* The enhanced critical section.                                            *)

(* The fields that a proof needs typed; the counters follow below.           *)
LockTypes == /\ owner \in Threads \cup {NoThread}
         /\ refs \in Nat
         /\ waiting \in Nat
         /\ hev \in BOOLEAN
         /\ fClosing \in BOOLEAN
         /\ destroying \in BOOLEAN
         /\ deleted \in BOOLEAN
         /\ held \in [Threads -> Nat]
         /\ pc \in [Threads -> Places]

(* The owner is the thread that holds the lock, as often as it is counted.   *)
OwnerInv == \A t \in Threads : /\ held[t] > 0 => owner = t /\ refs = held[t]
                               /\ owner = t => held[t] > 0

(* A thread at the wait of the destructor shows that it has begun, the event
   is set only while nobody sleeps on it, and no wake-up is lost.            *)
Destructor == {"closed", "check", "pulse", "drain", "draining"}
WakeInv == /\ At(Destructor) # {} => destroying
           /\ destroying => fClosing
           /\ hev => Sleepers = {}
           /\ NoLostWakeup

(* m_cWaitingThreads counts the threads on their way through the wait.       *)
CountInv == waiting = Cardinality(At(Waiters))

DeleteInv == deleted => destroying /\ owner = NoThread /\ At(Waiters) = {}

LockInv == LockTypes /\ OwnerInv /\ WakeInv /\ CountInv /\ DeleteInv
-----------------------------------------------------------------------------
(* What SetEvent and PulseEvent do to the other threads: nothing, or one
   sleeper is released.                                                      *)
Moved(t, where) == \/ pc' = [pc EXCEPT ![t] = where]
                   \/ \E w \in Sleepers \ {t} :
                         pc' = [pc EXCEPT ![t] = where, ![w] = Release(w)]

LEMMA SetEventMoves ==
  ASSUME NEW t \in Threads, NEW where, SetEvent(t, where)
  PROVE  /\ Moved(t, where)
         /\ hev' \in {hev, TRUE}
         /\ hev' \/ \E w \in Sleepers \ {t} :
                         /\ pc' = [pc EXCEPT ![t] = where, ![w] = Release(w)]
                         /\ hev' = hev
BY DEF SetEvent, Moved

(* The threads counted as waiting change by the moving thread alone.         *)
LEMMA WaitersMove ==
  ASSUME pc \in [Threads -> Places], NEW t \in Threads, NEW where \in Places,
         Moved(t, where)
  PROVE  /\ pc' \in [Threads -> Places]
         /\ pc'[t] = where
         /\ At(Waiters)' = IF where \in Waiters THEN At(Waiters) \cup {t}
                                                ELSE At(Waiters) \ {t}
<1>1. CASE pc' = [pc EXCEPT ![t] = where]
  BY <1>1 DEF At
<1>2. ASSUME NEW w \in Sleepers \ {t},
             pc' = [pc EXCEPT ![t] = where, ![w] = Release(w)]
      PROVE  /\ pc' \in [Threads -> Places]
             /\ pc'[t] = where
             /\ At(Waiters)' = IF where \in Waiters THEN At(Waiters) \cup {t}
                                                    ELSE At(Waiters) \ {t}
  <2>1. w \in Threads /\ w # t /\ pc[w] \in {"blocked", "draining"}
    BY DEF Sleepers, At
  <2>2. pc[w] \in Waiters <=> Release(w) \in Waiters
    BY <2>1 DEF Release, Waiters
  <2>3. Release(w) \in Places
    BY <2>1 DEF Release, Places, Waiters
  <2>4. pc' \in [Threads -> Places]
    BY <1>2, <2>1, <2>3
  <2>5. \A u \in Threads \ {t} : pc'[u] \in Waiters <=> pc[u] \in Waiters
    BY <1>2, <2>1, <2>2
  <2>6. pc'[t] = where
    BY <1>2, <2>1
  <2> QED
    BY <2>4, <2>5, <2>6 DEF At
<1> QED
  BY <1>1, <1>2 DEF Moved

(* The number of waiting threads follows the count in the object.            *)
LEMMA CountMoves ==
  ASSUME pc \in [Threads -> Places], waiting \in Nat, CountInv,
         NEW t \in Threads, NEW where \in Places, Moved(t, where),
         waiting' = waiting + (IF where \in Waiters THEN 1 ELSE 0)
                            - (IF pc[t] \in Waiters THEN 1 ELSE 0)
  PROVE  CountInv' /\ waiting' \in Nat
<1> DEFINE W == At(Waiters)
<1>1. W \in SUBSET Threads /\ (t \in W <=> pc[t] \in Waiters)
  BY DEF At
<1>2. IsFiniteSet(W)
  BY <1>1, FS_Subset, CritSecAssumption
<1>3. W' = IF where \in Waiters THEN W \cup {t} ELSE W \ {t}
  BY WaitersMove
<1>4. Cardinality(W) = waiting
  BY DEF CountInv
<1> HIDE DEF W
<1>5. CASE where \in Waiters
  <2>0. W' = W \cup {t}
    BY <1>3, <1>5
  <2>a. Cardinality(W \cup {t}) = IF t \in W THEN Cardinality(W) ELSE Cardinality(W) + 1
    BY <1>2, FS_AddElement
  <2>1. Cardinality(W') = waiting'
    BY <1>1, <1>4, <1>5, <2>0, <2>a
  <2>2. waiting' \in Nat
    BY <1>5
  <2> QED
    BY <2>1, <2>2 DEF CountInv, W
<1>6. CASE where \notin Waiters
  <2>0. W' = W \ {t}
    BY <1>3, <1>6
  <2>a. Cardinality(W \ {t}) = IF t \in W THEN Cardinality(W) - 1 ELSE Cardinality(W)
    BY <1>2, FS_RemoveElement
  <2>1. Cardinality(W') = waiting'
    BY <1>1, <1>4, <1>6, <2>0, <2>a
  <2>2. IsFiniteSet(W')
    BY <1>2, <1>3, <1>6, FS_RemoveElement
  <2>3. waiting' \in Nat
    BY <2>1, <2>2, FS_CardinalityType
  <2> QED
    BY <2>1, <2>3 DEF CountInv, W
<1> QED
  BY <1>5, <1>6

(* The destructor relies on it: a count of zero means that nobody waits.     *)
LEMMA NobodyCounted == CountInv /\ waiting = 0 => At(Waiters) = {}
<1>1. At(Waiters) \in SUBSET Threads
  BY DEF At
<1>2. IsFiniteSet(At(Waiters))
  BY <1>1, FS_Subset, CritSecAssumption
<1> QED
  BY <1>2, FS_EmptySet DEF CountInv

(* A new lock is open, free and set.                                         *)
LEMMA LockInvInit == LockInit => LockInv
<1> SUFFICES ASSUME LockInit PROVE LockInv
  OBVIOUS
<1> USE CritSecAssumption DEF LockInit
<1>1. pc \in [Threads -> Places]
  BY DEF Places
<1>2. LockTypes
  BY <1>1 DEF LockTypes
<1>3. OwnerInv
  BY DEF OwnerInv
<1>4. /\ At(Waiters) = {} /\ Sleepers = {} /\ At(Destructor) = {}
      /\ At({"blocking", "blocked"}) = {}
  BY DEF At, Waiters, Sleepers, Destructor
<1>5. WakeInv /\ DeleteInv
  BY <1>4 DEF WakeInv, NoLostWakeup, DeleteInv
<1>6. CountInv
  BY <1>4, FS_EmptySet DEF CountInv
<1> QED
  BY <1>2, <1>3, <1>5, <1>6 DEF LockInv

-----------------------------------------------------------------------------
(* The invariant is inductive: each action moves one thread to one place.    *)

(* Passing the unlocked test changes nothing but the thread's place.        *)
LEMMA EnterKeeps == ASSUME LockInv, NEW t \in Threads, Enter(t) PROVE LockInv'
<1> USE CritSecAssumption DEF LockInv
<1> DEFINE where == "enter"
<1>1. where \in Places
  BY DEF Places, Waiters
<1>2. Moved(t, where)
  BY DEF Enter, Idle, Moved, LockTypes
<1>3. pc' \in [Threads -> Places] /\ pc'[t] = where
  BY <1>1, <1>2, WaitersMove DEF LockTypes
<1>4. CountInv' /\ waiting' \in Nat
  <2>1. waiting' = waiting + (IF where \in Waiters THEN 1 ELSE 0)
                           - (IF pc[t] \in Waiters THEN 1 ELSE 0)
    BY DEF Enter, Idle, Waiters, LockTypes
  <2> QED
    BY <1>1, <1>2, <2>1, CountMoves DEF LockTypes
<1>5. LockTypes'
  BY <1>3, <1>4 DEF Enter, Idle, LockTypes, OwnerInv
<1>6. OwnerInv'
  BY DEF Enter, Idle, LockTypes, OwnerInv
<1>7. WakeInv'
  BY <1>5
     DEF Enter, Idle, LockTypes, WakeInv, NoLostWakeup, At, Sleepers, Release,
         Destructor
<1>8. DeleteInv'
  BY <1>1, <1>2, WaitersMove
     DEF Enter, Idle, LockTypes, DeleteInv, WakeInv, Waiters, At, Destructor
<1> QED
  BY <1>4, <1>5, <1>6, <1>7, <1>8

(* A thread that finds the lock closed leaves the count and passes the event on.*)
LEMMA EnterClosedKeeps ==
  ASSUME LockInv, NEW t \in Threads, EnterClosed(t) PROVE LockInv'
<1> USE CritSecAssumption DEF LockInv
<1> DEFINE where == "idle"
<1>1. where \in Places
  BY DEF Places, Waiters
<1>2. Moved(t, where)
  BY SetEventMoves DEF EnterClosed, Looks, NotWaiting, Moved, LockTypes
<1>3. pc' \in [Threads -> Places] /\ pc'[t] = where
  BY <1>1, <1>2, WaitersMove DEF LockTypes
<1>4. CountInv' /\ waiting' \in Nat
  <2>1. waiting' = waiting + (IF where \in Waiters THEN 1 ELSE 0)
                           - (IF pc[t] \in Waiters THEN 1 ELSE 0)
    BY DEF EnterClosed, Looks, NotWaiting, Waiters, LockTypes
  <2> QED
    BY <1>1, <1>2, <2>1, CountMoves DEF LockTypes
<1>5. LockTypes'
  BY <1>3, <1>4
     DEF EnterClosed, Looks, NotWaiting, LockTypes, OwnerInv, SetEvent
<1>6. OwnerInv'
  BY DEF EnterClosed, Looks, NotWaiting, LockTypes, OwnerInv
<1>7. WakeInv'
  BY <1>5
     DEF EnterClosed, Looks, NotWaiting, LockTypes, WakeInv, NoLostWakeup, At,
         Sleepers, Release, Destructor, SetEvent
<1>8. DeleteInv'
  BY <1>1, <1>2, WaitersMove
     DEF EnterClosed, Looks, NotWaiting, LockTypes, DeleteInv, WakeInv,
         Waiters, At, Destructor
<1> QED
  BY <1>4, <1>5, <1>6, <1>7, <1>8

(* A thread that timed out leaves the count; it had taken no wake-up.       *)
LEMMA EnterTimeoutKeeps ==
  ASSUME LockInv, NEW t \in Threads, EnterTimeout(t) PROVE LockInv'
<1> USE CritSecAssumption DEF LockInv
<1> DEFINE where == "idle"
<1>1. where \in Places
  BY DEF Places, Waiters
<1>2. Moved(t, where)
  BY DEF EnterTimeout, Looks, NotWaiting, Moved, LockTypes
<1>3. pc' \in [Threads -> Places] /\ pc'[t] = where
  BY <1>1, <1>2, WaitersMove DEF LockTypes
<1>4. CountInv' /\ waiting' \in Nat
  <2>1. waiting' = waiting + (IF where \in Waiters THEN 1 ELSE 0)
                           - (IF pc[t] \in Waiters THEN 1 ELSE 0)
    BY DEF EnterTimeout, Looks, NotWaiting, Waiters, LockTypes
  <2> QED
    BY <1>1, <1>2, <2>1, CountMoves DEF LockTypes
<1>5. LockTypes'
  BY <1>3, <1>4 DEF EnterTimeout, Looks, NotWaiting, LockTypes, OwnerInv
<1>6. OwnerInv'
  BY DEF EnterTimeout, Looks, NotWaiting, LockTypes, OwnerInv
<1>7. WakeInv'
  BY <1>5
     DEF EnterTimeout, Looks, NotWaiting, LockTypes, WakeInv, NoLostWakeup,
         At, Sleepers, Release, Destructor
<1>8. DeleteInv'
  BY <1>1, <1>2, WaitersMove
     DEF EnterTimeout, Looks, NotWaiting, LockTypes, DeleteInv, WakeInv,
         Waiters, At, Destructor
<1> QED
  BY <1>4, <1>5, <1>6, <1>7, <1>8

(* A thread that takes the free lock may consume the wake-up.               *)
LEMMA EnterFirstKeeps ==
  ASSUME LockInv, NEW t \in Threads, EnterFirst(t) PROVE LockInv'
<1> USE CritSecAssumption DEF LockInv
<1> DEFINE where == "idle"
<1>1. where \in Places
  BY DEF Places, Waiters
<1>2. Moved(t, where)
  BY DEF EnterFirst, Looks, NotWaiting, Moved, LockTypes
<1>3. pc' \in [Threads -> Places] /\ pc'[t] = where
  BY <1>1, <1>2, WaitersMove DEF LockTypes
<1>4. CountInv' /\ waiting' \in Nat
  <2>1. waiting' = waiting + (IF where \in Waiters THEN 1 ELSE 0)
                           - (IF pc[t] \in Waiters THEN 1 ELSE 0)
    BY DEF EnterFirst, Looks, NotWaiting, Waiters, LockTypes
  <2> QED
    BY <1>1, <1>2, <2>1, CountMoves DEF LockTypes
<1>5. LockTypes'
  BY <1>3, <1>4 DEF EnterFirst, Looks, NotWaiting, LockTypes, OwnerInv
<1>6. OwnerInv'
  BY DEF EnterFirst, Looks, NotWaiting, LockTypes, OwnerInv
<1>7. WakeInv'
  BY <1>5
     DEF EnterFirst, Looks, NotWaiting, LockTypes, WakeInv, NoLostWakeup, At,
         Sleepers, Release, Destructor
<1>8. DeleteInv'
  BY <1>1, <1>2, WaitersMove
     DEF EnterFirst, Looks, NotWaiting, LockTypes, DeleteInv, WakeInv,
         Waiters, At, Destructor
<1> QED
  BY <1>4, <1>5, <1>6, <1>7, <1>8

(* Only the owner enters again, and both counts go up.                      *)
LEMMA EnterAgainKeeps ==
  ASSUME LockInv, NEW t \in Threads, EnterAgain(t) PROVE LockInv'
<1> USE CritSecAssumption DEF LockInv
<1> DEFINE where == "idle"
<1>1. where \in Places
  BY DEF Places, Waiters
<1>2. Moved(t, where)
  BY DEF EnterAgain, Looks, NotWaiting, Moved, LockTypes
<1>3. pc' \in [Threads -> Places] /\ pc'[t] = where
  BY <1>1, <1>2, WaitersMove DEF LockTypes
<1>4. CountInv' /\ waiting' \in Nat
  <2>1. waiting' = waiting + (IF where \in Waiters THEN 1 ELSE 0)
                           - (IF pc[t] \in Waiters THEN 1 ELSE 0)
    BY DEF EnterAgain, Looks, NotWaiting, Waiters, LockTypes
  <2> QED
    BY <1>1, <1>2, <2>1, CountMoves DEF LockTypes
<1>5. LockTypes'
  BY <1>3, <1>4 DEF EnterAgain, Looks, NotWaiting, LockTypes, OwnerInv
<1>6. OwnerInv'
  BY DEF EnterAgain, Looks, NotWaiting, LockTypes, OwnerInv
<1>7. WakeInv'
  BY <1>5
     DEF EnterAgain, Looks, NotWaiting, LockTypes, WakeInv, NoLostWakeup, At,
         Sleepers, Release, Destructor
<1>8. DeleteInv'
  BY <1>1, <1>2, WaitersMove
     DEF EnterAgain, Looks, NotWaiting, LockTypes, DeleteInv, WakeInv,
         Waiters, At, Destructor
<1> QED
  BY <1>4, <1>5, <1>6, <1>7, <1>8

(* A thread registers only behind an owner.                                 *)
LEMMA EnterWaitsKeeps ==
  ASSUME LockInv, NEW t \in Threads, EnterWaits(t) PROVE LockInv'
<1> USE CritSecAssumption DEF LockInv
<1> DEFINE where == "blocking"
<1>1. where \in Places
  BY DEF Places, Waiters
<1>2. Moved(t, where)
  BY DEF EnterWaits, Looks, NotWaiting, Moved, LockTypes
<1>3. pc' \in [Threads -> Places] /\ pc'[t] = where
  BY <1>1, <1>2, WaitersMove DEF LockTypes
<1>4. CountInv' /\ waiting' \in Nat
  <2>1. waiting' = waiting + (IF where \in Waiters THEN 1 ELSE 0)
                           - (IF pc[t] \in Waiters THEN 1 ELSE 0)
    BY DEF EnterWaits, Looks, NotWaiting, Waiters, LockTypes
  <2> QED
    BY <1>1, <1>2, <2>1, CountMoves DEF LockTypes
<1>5. LockTypes'
  BY <1>3, <1>4 DEF EnterWaits, Looks, NotWaiting, LockTypes, OwnerInv
<1>6. OwnerInv'
  BY DEF EnterWaits, Looks, NotWaiting, LockTypes, OwnerInv
<1>7. WakeInv'
  BY <1>5
     DEF EnterWaits, Looks, NotWaiting, LockTypes, WakeInv, NoLostWakeup, At,
         Sleepers, Release, Destructor
<1>8. DeleteInv'
  BY <1>1, <1>2, WaitersMove
     DEF EnterWaits, Looks, NotWaiting, LockTypes, DeleteInv, WakeInv,
         Waiters, At, Destructor
<1> QED
  BY <1>4, <1>5, <1>6, <1>7, <1>8

(* A thread goes to sleep only if the event is reset.                       *)
LEMMA WaitKeeps == ASSUME LockInv, NEW t \in Threads, Wait(t) PROVE LockInv'
<1> USE CritSecAssumption DEF LockInv
<1> DEFINE where == IF hev THEN "woken" ELSE "blocked"
<1>1. where \in Places
  BY DEF Places, Waiters
<1>2. Moved(t, where)
  BY DEF Wait, WaitForEvent, Moved, LockTypes
<1>3. pc' \in [Threads -> Places] /\ pc'[t] = where
  BY <1>1, <1>2, WaitersMove DEF LockTypes
<1>4. CountInv' /\ waiting' \in Nat
  <2>1. waiting' = waiting + (IF where \in Waiters THEN 1 ELSE 0)
                           - (IF pc[t] \in Waiters THEN 1 ELSE 0)
    BY DEF Wait, WaitForEvent, Waiters, LockTypes
  <2> QED
    BY <1>1, <1>2, <2>1, CountMoves DEF LockTypes
<1>5. LockTypes'
  BY <1>3, <1>4 DEF Wait, WaitForEvent, LockTypes, OwnerInv
<1>6. OwnerInv'
  BY DEF Wait, WaitForEvent, LockTypes, OwnerInv
<1>7. WakeInv'
  BY <1>5
     DEF Wait, WaitForEvent, LockTypes, WakeInv, NoLostWakeup, At, Sleepers,
         Release, Destructor
<1>8. DeleteInv'
  BY <1>1, <1>2, WaitersMove
     DEF Wait, WaitForEvent, LockTypes, DeleteInv, WakeInv, Waiters, At,
         Destructor
<1> QED
  BY <1>4, <1>5, <1>6, <1>7, <1>8

(* A sleeper that times out is still counted until it looks again.          *)
LEMMA TimeOutKeeps ==
  ASSUME LockInv, NEW t \in Threads, TimeOut(t) PROVE LockInv'
<1> USE CritSecAssumption DEF LockInv
<1> DEFINE where == "timedOut"
<1>1. where \in Places
  BY DEF Places, Waiters
<1>2. Moved(t, where)
  BY DEF TimeOut, Moved, LockTypes
<1>3. pc' \in [Threads -> Places] /\ pc'[t] = where
  BY <1>1, <1>2, WaitersMove DEF LockTypes
<1>4. CountInv' /\ waiting' \in Nat
  <2>1. waiting' = waiting + (IF where \in Waiters THEN 1 ELSE 0)
                           - (IF pc[t] \in Waiters THEN 1 ELSE 0)
    BY DEF TimeOut, Waiters, LockTypes
  <2> QED
    BY <1>1, <1>2, <2>1, CountMoves DEF LockTypes
<1>5. LockTypes'
  BY <1>3, <1>4 DEF TimeOut, LockTypes, OwnerInv
<1>6. OwnerInv'
  BY DEF TimeOut, LockTypes, OwnerInv
<1>7. WakeInv'
  BY <1>5
     DEF TimeOut, LockTypes, WakeInv, NoLostWakeup, At, Sleepers, Release,
         Destructor
<1>8. DeleteInv'
  BY <1>1, <1>2, WaitersMove
     DEF TimeOut, LockTypes, DeleteInv, WakeInv, Waiters, At, Destructor
<1> QED
  BY <1>4, <1>5, <1>6, <1>7, <1>8

(* The last Leave frees the lock and sets the event, or releases a sleeper. *)
LEMMA LeaveKeeps == ASSUME LockInv, NEW t \in Threads, Leave(t) PROVE LockInv'
<1> USE CritSecAssumption DEF LockInv
<1> DEFINE where == "idle"
<1>1. where \in Places
  BY DEF Places, Waiters
<1>2. Moved(t, where)
  BY SetEventMoves DEF Leave, Idle, Moved, LockTypes
<1>3. pc' \in [Threads -> Places] /\ pc'[t] = where
  BY <1>1, <1>2, WaitersMove DEF LockTypes
<1>4. CountInv' /\ waiting' \in Nat
  <2>1. waiting' = waiting + (IF where \in Waiters THEN 1 ELSE 0)
                           - (IF pc[t] \in Waiters THEN 1 ELSE 0)
    BY DEF Leave, Idle, Waiters, LockTypes
  <2> QED
    BY <1>1, <1>2, <2>1, CountMoves DEF LockTypes
<1>5. LockTypes'
  <2>1. refs > 0 /\ held[t] > 0
    BY DEF Leave, LockTypes, OwnerInv
  <2>2. refs' \in Nat /\ held' \in [Threads -> Nat]
    BY <2>1 DEF Leave, LockTypes
  <2>3. hev' \in BOOLEAN
    BY DEF Leave, LockTypes, SetEvent
  <2> QED
    BY <1>3, <1>4, <2>2, <2>3 DEF Leave, LockTypes
<1>6. OwnerInv'
  BY DEF Leave, Idle, LockTypes, OwnerInv
<1>7. WakeInv'
  BY <1>5
     DEF Leave, Idle, LockTypes, WakeInv, NoLostWakeup, At, Sleepers, Release,
         Destructor, SetEvent
<1>8. DeleteInv'
  BY <1>1, <1>2, WaitersMove
     DEF Leave, Idle, LockTypes, DeleteInv, WakeInv, Waiters, At, Destructor
<1> QED
  BY <1>4, <1>5, <1>6, <1>7, <1>8

(* Closing the lock is followed by a SetEvent that is still to come.        *)
LEMMA PrepareDeleteKeeps ==
  ASSUME LockInv, NEW t \in Threads, PrepareDelete(t) PROVE LockInv'
<1> USE CritSecAssumption DEF LockInv
<1> DEFINE where == "prepared"
<1>1. where \in Places
  BY DEF Places, Waiters
<1>2. Moved(t, where)
  BY DEF PrepareDelete, Close, Idle, Moved, LockTypes
<1>3. pc' \in [Threads -> Places] /\ pc'[t] = where
  BY <1>1, <1>2, WaitersMove DEF LockTypes
<1>4. CountInv' /\ waiting' \in Nat
  <2>1. waiting' = waiting + (IF where \in Waiters THEN 1 ELSE 0)
                           - (IF pc[t] \in Waiters THEN 1 ELSE 0)
    BY DEF PrepareDelete, Close, Idle, Waiters, LockTypes
  <2> QED
    BY <1>1, <1>2, <2>1, CountMoves DEF LockTypes
<1>5. LockTypes'
  BY <1>3, <1>4 DEF PrepareDelete, Close, Idle, LockTypes, OwnerInv
<1>6. OwnerInv'
  BY DEF PrepareDelete, Close, Idle, LockTypes, OwnerInv
<1>7. WakeInv'
  BY <1>5
     DEF PrepareDelete, Close, Idle, LockTypes, WakeInv, NoLostWakeup, At,
         Sleepers, Release, Destructor
<1>8. DeleteInv'
  BY <1>1, <1>2, WaitersMove
     DEF PrepareDelete, Close, Idle, LockTypes, DeleteInv, WakeInv, Waiters,
         At, Destructor
<1> QED
  BY <1>4, <1>5, <1>6, <1>7, <1>8

(* The SetEvent of a closed lock releases a sleeper or leaves the event set.*)
LEMMA PreparedKeeps ==
  ASSUME LockInv, NEW t \in Threads, Prepared(t) PROVE LockInv'
<1> USE CritSecAssumption DEF LockInv
<1> DEFINE where == IF pc[t] = "prepared" THEN "idle" ELSE "check"
<1>1. where \in Places
  BY DEF Places, Waiters
<1>2. Moved(t, where)
  BY SetEventMoves DEF Prepared, Moved, LockTypes
<1>3. pc' \in [Threads -> Places] /\ pc'[t] = where
  BY <1>1, <1>2, WaitersMove DEF LockTypes
<1>4. CountInv' /\ waiting' \in Nat
  <2>1. waiting' = waiting + (IF where \in Waiters THEN 1 ELSE 0)
                           - (IF pc[t] \in Waiters THEN 1 ELSE 0)
    BY DEF Prepared, Waiters, LockTypes
  <2> QED
    BY <1>1, <1>2, <2>1, CountMoves DEF LockTypes
<1>5. LockTypes'
  BY <1>3, <1>4 DEF Prepared, LockTypes, OwnerInv, SetEvent
<1>6. OwnerInv'
  BY DEF Prepared, LockTypes, OwnerInv
<1>7. WakeInv'
  BY <1>5
     DEF Prepared, LockTypes, WakeInv, NoLostWakeup, At, Sleepers, Release,
         Destructor, SetEvent
<1>8. DeleteInv'
  BY <1>1, <1>2, WaitersMove
     DEF Prepared, LockTypes, DeleteInv, WakeInv, Waiters, At, Destructor
<1> QED
  BY <1>4, <1>5, <1>6, <1>7, <1>8

(* The destructor closes the lock first.                                    *)
LEMMA DestroyKeeps ==
  ASSUME LockInv, NEW t \in Threads, Destroy(t) PROVE LockInv'
<1> USE CritSecAssumption DEF LockInv
<1> DEFINE where == "closed"
<1>1. where \in Places
  BY DEF Places, Waiters
<1>2. Moved(t, where)
  BY DEF Destroy, Close, Idle, Moved, LockTypes
<1>3. pc' \in [Threads -> Places] /\ pc'[t] = where
  BY <1>1, <1>2, WaitersMove DEF LockTypes
<1>4. CountInv' /\ waiting' \in Nat
  <2>1. waiting' = waiting + (IF where \in Waiters THEN 1 ELSE 0)
                           - (IF pc[t] \in Waiters THEN 1 ELSE 0)
    BY DEF Destroy, Close, Idle, Waiters, LockTypes
  <2> QED
    BY <1>1, <1>2, <2>1, CountMoves DEF LockTypes
<1>5. LockTypes'
  BY <1>3, <1>4 DEF Destroy, Close, Idle, LockTypes, OwnerInv
<1>6. OwnerInv'
  BY DEF Destroy, Close, Idle, LockTypes, OwnerInv
<1>7. WakeInv'
  BY <1>5
     DEF Destroy, Close, Idle, LockTypes, WakeInv, NoLostWakeup, At, Sleepers,
         Release, Destructor
<1>8. DeleteInv'
  BY <1>1, <1>2, WaitersMove
     DEF Destroy, Close, Idle, LockTypes, DeleteInv, WakeInv, Waiters, At,
         Destructor
<1> QED
  BY <1>4, <1>5, <1>6, <1>7, <1>8

(* The destructor returns only when the owner and the count are both gone.  *)
LEMMA DestroyCheckKeeps ==
  ASSUME LockInv, NEW t \in Threads, DestroyCheck(t) PROVE LockInv'
<1> USE CritSecAssumption DEF LockInv
<1> DEFINE where == IF owner = NoThread /\ waiting = 0 THEN "idle" ELSE "pulse"
<1>1. where \in Places
  BY DEF Places, Waiters
<1>2. Moved(t, where)
  BY DEF DestroyCheck, Moved, LockTypes
<1>3. pc' \in [Threads -> Places] /\ pc'[t] = where
  BY <1>1, <1>2, WaitersMove DEF LockTypes
<1>4. CountInv' /\ waiting' \in Nat
  <2>1. waiting' = waiting + (IF where \in Waiters THEN 1 ELSE 0)
                           - (IF pc[t] \in Waiters THEN 1 ELSE 0)
    BY DEF DestroyCheck, Waiters, LockTypes
  <2> QED
    BY <1>1, <1>2, <2>1, CountMoves DEF LockTypes
<1>5. LockTypes'
  BY <1>3, <1>4 DEF DestroyCheck, LockTypes, OwnerInv
<1>6. OwnerInv'
  BY DEF DestroyCheck, LockTypes, OwnerInv
<1>7. WakeInv'
  BY <1>5
     DEF DestroyCheck, LockTypes, WakeInv, NoLostWakeup, At, Sleepers,
         Release, Destructor
<1>8. DeleteInv'
  BY <1>1, <1>2, WaitersMove, NobodyCounted
     DEF DestroyCheck, LockTypes, DeleteInv, WakeInv, Waiters, At, Destructor
<1> QED
  BY <1>4, <1>5, <1>6, <1>7, <1>8

(* The pulse may lose a wake-up, but only after the destructor has begun.   *)
LEMMA DestroyPulseKeeps ==
  ASSUME LockInv, NEW t \in Threads, DestroyPulse(t) PROVE LockInv'
<1> USE CritSecAssumption DEF LockInv
<1> DEFINE where == "drain"
<1>1. where \in Places
  BY DEF Places, Waiters
<1>2. Moved(t, where)
  BY DEF DestroyPulse, Moved, LockTypes, PulseEvent
<1>3. pc' \in [Threads -> Places] /\ pc'[t] = where
  BY <1>1, <1>2, WaitersMove DEF LockTypes
<1>4. CountInv' /\ waiting' \in Nat
  <2>1. waiting' = waiting + (IF where \in Waiters THEN 1 ELSE 0)
                           - (IF pc[t] \in Waiters THEN 1 ELSE 0)
    BY DEF DestroyPulse, Waiters, LockTypes
  <2> QED
    BY <1>1, <1>2, <2>1, CountMoves DEF LockTypes
<1>5. LockTypes'
  BY <1>3, <1>4 DEF DestroyPulse, LockTypes, OwnerInv, PulseEvent
<1>6. OwnerInv'
  BY DEF DestroyPulse, LockTypes, OwnerInv
<1>7. WakeInv'
  BY <1>5
     DEF DestroyPulse, LockTypes, WakeInv, NoLostWakeup, At, Sleepers,
         Release, Destructor, PulseEvent
<1>8. DeleteInv'
  BY <1>1, <1>2, WaitersMove
     DEF DestroyPulse, LockTypes, DeleteInv, WakeInv, Waiters, At, Destructor
<1> QED
  BY <1>4, <1>5, <1>6, <1>7, <1>8

(* The destructor sleeps on the same event.                                 *)
LEMMA DestroyWaitKeeps ==
  ASSUME LockInv, NEW t \in Threads, DestroyWait(t) PROVE LockInv'
<1> USE CritSecAssumption DEF LockInv
<1> DEFINE where == IF hev THEN "check" ELSE "draining"
<1>1. where \in Places
  BY DEF Places, Waiters
<1>2. Moved(t, where)
  BY DEF DestroyWait, WaitForEvent, Moved, LockTypes
<1>3. pc' \in [Threads -> Places] /\ pc'[t] = where
  BY <1>1, <1>2, WaitersMove DEF LockTypes
<1>4. CountInv' /\ waiting' \in Nat
  <2>1. waiting' = waiting + (IF where \in Waiters THEN 1 ELSE 0)
                           - (IF pc[t] \in Waiters THEN 1 ELSE 0)
    BY DEF DestroyWait, WaitForEvent, Waiters, LockTypes
  <2> QED
    BY <1>1, <1>2, <2>1, CountMoves DEF LockTypes
<1>5. LockTypes'
  BY <1>3, <1>4 DEF DestroyWait, WaitForEvent, LockTypes, OwnerInv
<1>6. OwnerInv'
  BY DEF DestroyWait, WaitForEvent, LockTypes, OwnerInv
<1>7. WakeInv'
  BY <1>5
     DEF DestroyWait, WaitForEvent, LockTypes, WakeInv, NoLostWakeup, At,
         Sleepers, Release, Destructor
<1>8. DeleteInv'
  BY <1>1, <1>2, WaitersMove
     DEF DestroyWait, WaitForEvent, LockTypes, DeleteInv, WakeInv, Waiters,
         At, Destructor
<1> QED
  BY <1>4, <1>5, <1>6, <1>7, <1>8

(* The lock is opened again when every thread is out of it.                 *)
LEMMA LockInitializeKeeps == ASSUME LockInv, LockInitialize PROVE LockInv'
<1> USE CritSecAssumption DEF LockInv, LockInitialize
<1>0. LockTypes'
  BY DEF LockTypes
<1>1. OwnerInv'
  <2>1. \A t \in Threads : held'[t] = 0 /\ owner' # t
    OBVIOUS
  <2> QED
    BY <2>1 DEF OwnerInv
<1>2. /\ At(Waiters)' = {} /\ At({"blocking", "blocked"})' = {}
      /\ At(Destructor)' = At(Destructor) /\ Sleepers' = Sleepers
  BY DEF At, Waiters, Idle, Sleepers
<1>3. At(Destructor) = {}
  BY DEF WakeInv
<1>4. WakeInv' /\ DeleteInv'
  BY <1>2, <1>3 DEF WakeInv, NoLostWakeup, DeleteInv
<1>5. CountInv'
  BY <1>2, FS_EmptySet DEF CountInv
<1> QED
  BY <1>0, <1>1, <1>4, <1>5

(* Every step of every thread keeps the invariant.                           *)
LEMMA LockInvStep == LockInv /\ [LockNext]_lockVars => LockInv'
<1> SUFFICES ASSUME LockInv, [LockNext]_lockVars PROVE LockInv'
  OBVIOUS
<1>1. ASSUME NEW t \in Threads, EnterStep(t) \/ DestroyStep(t) PROVE LockInv'
  BY <1>1, EnterClosedKeeps, EnterTimeoutKeeps, EnterFirstKeeps,
     EnterAgainKeeps, EnterWaitsKeeps, DestroyCheckKeeps, DestroyPulseKeeps,
     DestroyWaitKeeps
     DEF EnterStep, DestroyStep
<1>2. ASSUME NEW t \in Threads,
             \/ Enter(t) \/ Wait(t) \/ TimeOut(t) \/ Leave(t)
             \/ PrepareDelete(t) \/ Prepared(t) \/ Destroy(t)
      PROVE  LockInv'
  BY <1>2, EnterKeeps, WaitKeeps, TimeOutKeeps, LeaveKeeps, PrepareDeleteKeeps,
     PreparedKeeps, DestroyKeeps
<1>3. CASE UNCHANGED lockVars
  BY <1>3
     DEF lockVars, LockInv, LockTypes, OwnerInv, WakeInv, CountInv, DeleteInv,
         NoLostWakeup, At, Sleepers
<1> QED
  BY <1>1, <1>2, <1>3, LockInitializeKeeps DEF LockNext

(* The invariant holds in every reachable state, whatever the threads do.    *)
THEOREM LockInvariant == LockSpec => []LockInv
BY LockInvInit, LockInvStep, PTL DEF LockSpec

(* The fields of the lock keep their types: m_cOwnerReferences and
   m_cWaitingThreads never wrap below zero.                                  *)
THEOREM LockTypesCorrect == LockSpec => []LockTypeOK
<1>1. LockInv => LockTypeOK
  BY DEF LockInv, LockTypes, LockTypeOK
<1> QED
  BY <1>1, LockInvariant, PTL

(* Address 0 has one user at a time: a thread inside the lock owns it.       *)
THEOREM AtMostOneInside == LockSpec => []MutualExclusion
<1>1. LockInv => MutualExclusion
  BY DEF LockInv, OwnerInv, MutualExclusion
<1> QED
  BY <1>1, LockInvariant, PTL

(* Leave, time-outs and PrepareDelete never strand a waiting thread.         *)
THEOREM WakeupsKept == LockSpec => []NoLostWakeup
<1>1. LockInv => NoLostWakeup
  BY DEF LockInv, WakeInv
<1> QED
  BY <1>1, LockInvariant, PTL

(* When the destructor returns, no thread owns the lock or waits for it.     *)
THEOREM DeletedWhenUnused == LockSpec => []DeletedUnused
<1>1. LockInv => DeletedUnused
  BY DEF LockInv, DeleteInv, DeletedUnused
<1> QED
  BY <1>1, LockInvariant, PTL
-----------------------------------------------------------------------------
(* The low part of the counter is the frame of the last update, the high part
   agrees with its top bit, and since then at most half a range has passed:
   the controller is in the same half of the range, or in the next.          *)
FrameInv == /\ unit \in 0..(Wrap - 1) /\ index \in 0..(Half - 1)
            /\ high \in 0..(Wrap - 1) /\ lowIndex \in 0..(Half - 1)
            /\ lowBit = high % 2
            /\ since \in 0..MaxGap
            /\ \/ unit = high /\ since = index - lowIndex
               \/ unit = Plus(high, 1) /\ since = index + Half - lowIndex

(* Half ranges alternate, also past the wrap of the 32 bit counter.          *)
LEMMA PlusOne ==
  ASSUME NEW h \in 0..(Wrap - 1)
  PROVE  Plus(h, 1) \in 0..(Wrap - 1) /\ Plus(h, 1) % 2 # h % 2
<1>1. CASE h + 1 >= Wrap
  <2>1. h = Wrap - 1 /\ Plus(h, 1) = 0
    BY <1>1, CounterAssumption DEF Plus
  <2>2. h % 2 = 1
    BY <2>1, CounterAssumption
  <2> QED BY <2>1, <2>2, CounterAssumption
<1>2. CASE h + 1 < Wrap
  BY <1>2, CounterAssumption DEF Plus
<1> QED BY <1>1, <1>2, CounterAssumption

(* What UpdateFrameCounter makes of the high part is the controller's half.  *)
LEMMA UpdatedIsUnit == FrameInv => Updated(high) = unit
<1> SUFFICES ASSUME FrameInv PROVE Updated(high) = unit
  OBVIOUS
<1>1. CASE unit = high
  BY <1>1 DEF FrameInv, Updated
<1>2. CASE unit = Plus(high, 1)
  <2>1. unit % 2 # high % 2
    BY <1>2, PlusOne DEF FrameInv
  <2> QED BY <1>2, <2>1 DEF FrameInv, Updated
<1> QED BY <1>1, <1>2 DEF FrameInv

LEMMA FrameInit == Init => FrameInv
BY CounterAssumption DEF Init, FrameInv

(* A frame, an update and a new start of the counters keep them in step; no
   other action touches them.                                                *)
LEMMA FrameStep == FrameInv /\ [Next]_vars => FrameInv'
<1> SUFFICES ASSUME FrameInv, [Next]_vars PROVE FrameInv'
  OBVIOUS
<1>u. UpdateFrameCounter /\ UNCHANGED <<unit, index>> => FrameInv'
  BY UpdatedIsUnit, CounterAssumption DEF FrameInv, UpdateFrameCounter
<1>n. UNCHANGED frameVars => FrameInv'
  BY DEF FrameInv, frameVars, counter, Plus
<1>1. CASE Frame
  <2>1. /\ since' = since + 1 /\ since < MaxGap
        /\ UNCHANGED <<high, lowBit, lowIndex>>
    BY <1>1 DEF Frame
  <2>2. CASE index + 1 = Half
    <3>1. unit' = Plus(unit, 1) /\ index' = 0
      BY <1>1, <2>2 DEF Frame
    <3>2. unit = high /\ since = index - lowIndex
      BY <2>1, <2>2, CounterAssumption DEF FrameInv
    <3>3. unit' \in 0..(Wrap - 1)
      BY <3>1, PlusOne DEF FrameInv
    <3> QED BY <2>1, <2>2, <3>1, <3>2, <3>3, CounterAssumption DEF FrameInv, Plus
  <2>3. CASE index + 1 # Half
    <3>1. unit' = unit /\ index' = index + 1
      BY <1>1, <2>3 DEF Frame
    <3> QED BY <2>1, <2>3, <3>1, CounterAssumption DEF FrameInv, Plus
  <2> QED BY <2>2, <2>3
<1>2. CASE GetFrameNumber
  BY <1>2, <1>u DEF GetFrameNumber
<1>3. CASE PowerCycle \/ Interrupt
  BY <1>3, <1>n DEF PowerCycle, Interrupt
<1>4. CASE IstWake
  <2>1. CASE UNCHANGED counter
    BY <1>4, <2>1, <1>n DEF IstWake, frameVars
  <2>2. CASE UpdateFrameCounter
    BY <1>4, <2>2, <1>u DEF IstWake
  <2> QED BY <1>4, <2>1, <2>2 DEF IstWake
<1>5. CASE IstSignal \/ IstResume \/ IstResumed \/ IstEarly \/ \E t \in Builders : IstRebuild(t)
  BY <1>5, <1>n DEF IstSignal, IstResume, IstResumed, IstEarly, IstRebuild
<1>6. ASSUME NEW t \in Builders, DeInitialize(t) PROVE FrameInv'
  BY <1>6, CounterAssumption DEF DeInitialize, FrameInv
<1>7. ASSUME NEW t \in Builders,
             \/ ClearPowerUp(t) \/ SetResuming(t) \/ StopHostController(t) \/ DetachRootHub(t)
             \/ CloseInterruptThread(t) \/ Initialize(t) \/ Build(t)
             \/ EnterOperationalState(t) \/ ClearResuming(t) \/ LookAgain(t) \/ CallBack(t)
             \/ InitializeFails(t) \/ BuildFails(t)
      PROVE  FrameInv'
  BY <1>7, <1>n DEF ClearPowerUp, SetResuming, StopHostController, DetachRootHub,
     CloseInterruptThread, Initialize, Build, EnterOperationalState, ClearResuming,
     LookAgain, CallBack, InitializeFails, BuildFails
<1>8. CASE UNCHANGED vars
  BY <1>8, <1>n DEF vars
<1> QED BY <1>1, <1>2, <1>3, <1>4, <1>5, <1>6, <1>7, <1>8
        DEF Next, InterruptThread, ResumeThread

(* GetFrameNumber (chw.cpp:520) returns the controller's frame, for any width
   of FRNUM and of the counter, as long as the counter is updated within half
   a range of FRNUM.                                                         *)
THEOREM FrameNumberCorrect == Spec => []FrameNumberExact
<1>1. FrameInv => FrameNumberExact
  BY UpdatedIsUnit DEF FrameNumberExact
<1> QED BY FrameInit, FrameStep, <1>1, PTL DEF Spec
-----------------------------------------------------------------------------
(* A resume thread that is under way has set g_fPowerResuming.               *)
Underway == {"stop", "detach", "close", "join", "init", "build", "start", "done"}

FlagTypes == /\ capable \in BOOLEAN /\ doResume \in BOOLEAN /\ powerUp \in BOOLEAN
             /\ resuming \in BOOLEAN /\ running \in BOOLEAN /\ savedCmd \in BOOLEAN
             /\ registered \in BOOLEAN /\ event \in BOOLEAN /\ masked \in BOOLEAN
             /\ closing \in BOOLEAN /\ pipes \in BOOLEAN /\ missed \in BOOLEAN
             /\ ist \in IstStates
             /\ builder \in [Builders -> BuilderStates]
             /\ cycles \in 0..MaxCycles

(* One thread rebuilds; until it has set the flag there is no interrupt thread
   that could miss it and start another.                                     *)
RebuildInv == /\ \A t, u \in Rebuilding : t = u
              /\ resuming <=> \E t \in Builders : builder[t] \in Underway
              /\ \A t \in Builders : builder[t] \in {"clear", "set"} => ist = "none"

ResumeInv == FlagTypes /\ RebuildInv

LEMMA ResumeInit == Init => ResumeInv
<1>1. Init => FlagTypes
  <2> SUFFICES ASSUME Init PROVE FlagTypes
    OBVIOUS
  <2>1. cycles \in 0..MaxCycles
    BY CounterAssumption DEF Init
  <2>2. builder \in [Builders -> BuilderStates] /\ ist \in IstStates
    BY DEF Init, IstStates, BuilderStates
  <2> QED BY <2>1, <2>2 DEF Init, FlagTypes
<1>2. Init => RebuildInv
  BY DEF Init, RebuildInv, Rebuilding, Underway
<1> QED BY <1>1, <1>2 DEF ResumeInv

(* A resume thread goes from one of its places to another.                   *)
LEMMA GoesTypes ==
  ASSUME builder \in [Builders -> BuilderStates], NEW t \in Builders
  PROVE  \A from, to \in BuilderStates :
            Goes(t, from, to) => builder' \in [Builders -> BuilderStates]
BY DEF Goes

LEMMA BuilderPlaces ==
  /\ {"none", "clear", "set", "stop", "detach", "close", "join"} \subseteq BuilderStates
  /\ {"init", "build", "start", "done", "last", "callback"} \subseteq BuilderStates
BY DEF BuilderStates

(* No step leaves the ranges.                                                *)
LEMMA FlagStep == FlagTypes /\ [Next]_vars => FlagTypes'
<1> SUFFICES ASSUME FlagTypes, [Next]_vars PROVE FlagTypes'
  OBVIOUS
<1> USE DEF FlagTypes, IstStates, NextWait, flagVars, irqVars
<1>1. CASE PowerCycle
  BY <1>1, CounterAssumption DEF PowerCycle
<1>2. CASE Interrupt
  BY <1>2 DEF Interrupt
<1>3. CASE Frame
  BY <1>3 DEF Frame
<1>4. CASE GetFrameNumber
  BY <1>4 DEF GetFrameNumber
<1>5. CASE IstWake
  BY <1>5 DEF IstWake
<1>6. CASE IstSignal
  BY <1>6 DEF IstSignal
<1>7. CASE IstResume
  BY <1>7 DEF IstResume
<1>8. CASE IstResumed
  BY <1>8 DEF IstResumed
<1>9. CASE IstEarly
  BY <1>9 DEF IstEarly
<1>10. ASSUME NEW t \in Builders, IstRebuild(t) PROVE FlagTypes'
  BY <1>10 DEF IstRebuild, BuilderStates
<1>11. ASSUME NEW t \in Builders, ClearPowerUp(t) PROVE FlagTypes'
  BY <1>11, GoesTypes, BuilderPlaces, ZenonT(30) DEF ClearPowerUp
<1>12. ASSUME NEW t \in Builders, SetResuming(t) PROVE FlagTypes'
  BY <1>12, GoesTypes, BuilderPlaces DEF SetResuming
<1>13. ASSUME NEW t \in Builders, StopHostController(t) PROVE FlagTypes'
  BY <1>13, GoesTypes, BuilderPlaces, ZenonT(30) DEF StopHostController
<1>14. ASSUME NEW t \in Builders, DetachRootHub(t) PROVE FlagTypes'
  BY <1>14, GoesTypes, BuilderPlaces, ZenonT(30) DEF DetachRootHub
<1>15. ASSUME NEW t \in Builders, CloseInterruptThread(t) PROVE FlagTypes'
  BY <1>15, GoesTypes, BuilderPlaces DEF CloseInterruptThread
<1>16. ASSUME NEW t \in Builders, DeInitialize(t) PROVE FlagTypes'
  BY <1>16, GoesTypes, BuilderPlaces DEF DeInitialize
<1>17. ASSUME NEW t \in Builders, InitializeFails(t) PROVE FlagTypes'
  BY <1>17, GoesTypes, BuilderPlaces DEF InitializeFails
<1>18. ASSUME NEW t \in Builders, Initialize(t) PROVE FlagTypes'
  BY <1>18, GoesTypes, BuilderPlaces DEF Initialize
<1>19. ASSUME NEW t \in Builders, BuildFails(t) PROVE FlagTypes'
  BY <1>19, GoesTypes, BuilderPlaces DEF BuildFails
<1>20. ASSUME NEW t \in Builders, Build(t) PROVE FlagTypes'
  BY <1>20, GoesTypes, BuilderPlaces DEF Build
<1>21. ASSUME NEW t \in Builders, EnterOperationalState(t) PROVE FlagTypes'
  BY <1>21, GoesTypes, BuilderPlaces DEF EnterOperationalState
<1>22. ASSUME NEW t \in Builders, ClearResuming(t) PROVE FlagTypes'
  BY <1>22, GoesTypes, BuilderPlaces, ZenonT(30) DEF ClearResuming
<1>23. ASSUME NEW t \in Builders, LookAgain(t) PROVE FlagTypes'
  BY <1>23, GoesTypes, BuilderPlaces DEF LookAgain
<1>24. ASSUME NEW t \in Builders, CallBack(t) PROVE FlagTypes'
  BY <1>24, GoesTypes, BuilderPlaces, ZenonT(30) DEF CallBack
<1>25. CASE UNCHANGED vars
  BY <1>25 DEF vars
<1> QED BY <1>1, <1>2, <1>3, <1>4, <1>5, <1>6, <1>7, <1>8, <1>9, <1>10, <1>11, <1>12,
   <1>13, <1>14, <1>15, <1>16, <1>17, <1>18, <1>19, <1>20, <1>21, <1>22, <1>23, <1>24,
   <1>25
   DEF Next, InterruptThread, ResumeThread

(* Every step keeps it so.                                                   *)
LEMMA RebuildStep == ResumeInv /\ [Next]_vars => RebuildInv'
<1> SUFFICES ASSUME ResumeInv, [Next]_vars PROVE RebuildInv'
  OBVIOUS
<1> USE DEF ResumeInv, FlagTypes, RebuildInv, Rebuilding, Underway, IstStates,
       BuilderStates, NextWait, flagVars, irqVars
<1>1. CASE PowerCycle
  BY <1>1 DEF PowerCycle
<1>2. CASE Interrupt
  BY <1>2 DEF Interrupt
<1>3. CASE Frame
  BY <1>3 DEF Frame
<1>4. CASE GetFrameNumber
  BY <1>4 DEF GetFrameNumber
<1>5. CASE IstWake
  BY <1>5 DEF IstWake
<1>6. CASE IstSignal
  BY <1>6 DEF IstSignal
<1>7. CASE IstResume
  BY <1>7 DEF IstResume
<1>8. CASE IstResumed
  BY <1>8 DEF IstResumed
<1>9. CASE IstEarly
  BY <1>9 DEF IstEarly
<1>10. ASSUME NEW t \in Builders, IstRebuild(t) PROVE RebuildInv'
  BY <1>10 DEF IstRebuild, Goes
<1>11. ASSUME NEW t \in Builders, ClearPowerUp(t) PROVE RebuildInv'
  BY <1>11 DEF ClearPowerUp, Goes
<1>12. ASSUME NEW t \in Builders, SetResuming(t) PROVE RebuildInv'
  BY <1>12 DEF SetResuming, Goes
<1>13. ASSUME NEW t \in Builders, StopHostController(t) PROVE RebuildInv'
  BY <1>13 DEF StopHostController, Goes
<1>14. ASSUME NEW t \in Builders, DetachRootHub(t) PROVE RebuildInv'
  BY <1>14 DEF DetachRootHub, Goes
<1>15. ASSUME NEW t \in Builders, CloseInterruptThread(t) PROVE RebuildInv'
  BY <1>15 DEF CloseInterruptThread, Goes
<1>16. ASSUME NEW t \in Builders, DeInitialize(t) PROVE RebuildInv'
  BY <1>16 DEF DeInitialize, Goes
<1>17. ASSUME NEW t \in Builders, InitializeFails(t) PROVE RebuildInv'
  BY <1>17 DEF InitializeFails, Goes
<1>18. ASSUME NEW t \in Builders, Initialize(t) PROVE RebuildInv'
  BY <1>18 DEF Initialize, Goes
<1>19. ASSUME NEW t \in Builders, BuildFails(t) PROVE RebuildInv'
  BY <1>19 DEF BuildFails, Goes
<1>20. ASSUME NEW t \in Builders, Build(t) PROVE RebuildInv'
  BY <1>20 DEF Build, Goes
<1>21. ASSUME NEW t \in Builders, EnterOperationalState(t) PROVE RebuildInv'
  BY <1>21 DEF EnterOperationalState, Goes
<1>22. ASSUME NEW t \in Builders, ClearResuming(t) PROVE RebuildInv'
  BY <1>22 DEF ClearResuming, Goes
<1>23. ASSUME NEW t \in Builders, LookAgain(t) PROVE RebuildInv'
  BY <1>23 DEF LookAgain, Goes
<1>24. ASSUME NEW t \in Builders, CallBack(t) PROVE RebuildInv'
  BY <1>24 DEF CallBack, Goes
<1>25. CASE UNCHANGED vars
  BY <1>25 DEF vars
<1> QED BY <1>1, <1>2, <1>3, <1>4, <1>5, <1>6, <1>7, <1>8, <1>9, <1>10, <1>11, <1>12,
   <1>13, <1>14, <1>15, <1>16, <1>17, <1>18, <1>19, <1>20, <1>21, <1>22, <1>23, <1>24,
   <1>25
   DEF Next, InterruptThread, ResumeThread

LEMMA ResumeStep == ResumeInv /\ [Next]_vars => ResumeInv'
BY FlagStep, RebuildStep DEF ResumeInv

(* The flags, threads and counters of the driver stay in their ranges.       *)
THEOREM TypesCorrect == Spec => []TypeOK
<1>1. FlagTypes /\ FrameInv => TypeOK
  BY CounterAssumption DEF FlagTypes, FrameInv, TypeOK
<1> QED BY FrameInit, FrameStep, ResumeInit, ResumeStep, <1>1, PTL DEF Spec, ResumeInv

(* At most one thread rebuilds the driver, and it finds g_fPowerResuming clear
   when it begins (the assertion chw.cpp:336).                               *)
THEOREM OneRebuild == Spec => []SingleRebuild
<1>1. ResumeInv => SingleRebuild
  <2> SUFFICES ASSUME ResumeInv PROVE SingleRebuild
    OBVIOUS
  <2>1. Cardinality(Rebuilding) <= 1
    <3>1. CASE Rebuilding = {}
      BY <3>1, FS_EmptySet
    <3>2. CASE Rebuilding # {}
      <4>1. PICK t \in Rebuilding : Rebuilding = {t}
        BY <3>2 DEF ResumeInv, RebuildInv
      <4>2. Cardinality({t}) = 1
        BY FS_Singleton
      <4> QED BY <4>1, <4>2
    <3> QED BY <3>1, <3>2
  <2>2. ASSUME NEW t \in Builders, builder[t] = "clear" PROVE ~resuming
    BY <2>2 DEF ResumeInv, FlagTypes, RebuildInv, Rebuilding, Underway
  <2> QED BY <2>1, <2>2 DEF SingleRebuild
<1> QED BY ResumeInit, ResumeStep, <1>1, PTL DEF Spec
-----------------------------------------------------------------------------
(* While a rebuilding thread has the pipes down, nothing wakes the interrupt
   thread but the request to end: the controller is stopped, and a power event
   does not set the event.  Only a controller that loses its state is rebuilt. *)
PipesInv ==
    /\ powerUp => doResume = capable
    /\ capable => \A t \in Builders : builder[t] = "none"
    /\ ist = "sleep" => capable
    /\ ~pipes => \E t \in Builders :
                    builder[t] \in {"stop", "detach", "close", "join", "init", "build"}
    /\ closing <=> \E t \in Builders : builder[t] = "join"
    /\ \A t \in Builders :
          /\ builder[t] \in {"detach", "close", "join", "init", "build"} => ~running
          /\ builder[t] \in {"stop", "detach", "close"}
                => ist = "none" \/ (ist = "wait" /\ ~event /\ ~running)
          /\ builder[t] = "join" => ist \in {"none", "wait"}
          /\ builder[t] = "init" => ist = "none"
          /\ builder[t] = "build" => ist = "wait" /\ ~event

LEMMA PipesInit == Init => PipesInv
BY DEF Init, PipesInv

(* Every step keeps it so.                                                   *)
LEMMA PipesStep == ResumeInv /\ PipesInv /\ [Next]_vars => PipesInv'
<1> SUFFICES ASSUME ResumeInv, PipesInv, [Next]_vars PROVE PipesInv'
  OBVIOUS
<1> USE DEF ResumeInv, FlagTypes, RebuildInv, Rebuilding, Underway, PipesInv, IstStates,
       BuilderStates, NextWait, flagVars, irqVars
<1>1. CASE PowerCycle
  BY <1>1 DEF PowerCycle
<1>2. CASE Interrupt
  BY <1>2 DEF Interrupt
<1>3. CASE Frame
  BY <1>3 DEF Frame
<1>4. CASE GetFrameNumber
  BY <1>4 DEF GetFrameNumber
<1>5. CASE IstWake
  BY <1>5 DEF IstWake
<1>6. CASE IstSignal
  BY <1>6 DEF IstSignal
<1>7. CASE IstResume
  BY <1>7 DEF IstResume
<1>8. CASE IstResumed
  BY <1>8 DEF IstResumed
<1>9. CASE IstEarly
  BY <1>9 DEF IstEarly
<1>10. ASSUME NEW t \in Builders, IstRebuild(t) PROVE PipesInv'
  BY <1>10 DEF IstRebuild, Goes
<1>11. ASSUME NEW t \in Builders, ClearPowerUp(t) PROVE PipesInv'
  BY <1>11 DEF ClearPowerUp, Goes
<1>12. ASSUME NEW t \in Builders, SetResuming(t) PROVE PipesInv'
  BY <1>12 DEF SetResuming, Goes
<1>13. ASSUME NEW t \in Builders, StopHostController(t) PROVE PipesInv'
  BY <1>13 DEF StopHostController, Goes
<1>14. ASSUME NEW t \in Builders, DetachRootHub(t) PROVE PipesInv'
  BY <1>14 DEF DetachRootHub, Goes
<1>15. ASSUME NEW t \in Builders, CloseInterruptThread(t) PROVE PipesInv'
  BY <1>15 DEF CloseInterruptThread, Goes
<1>16. ASSUME NEW t \in Builders, DeInitialize(t) PROVE PipesInv'
  BY <1>16 DEF DeInitialize, Goes
<1>17. ASSUME NEW t \in Builders, InitializeFails(t) PROVE PipesInv'
  BY <1>17 DEF InitializeFails, Goes
<1>18. ASSUME NEW t \in Builders, Initialize(t) PROVE PipesInv'
  BY <1>18 DEF Initialize, Goes
<1>19. ASSUME NEW t \in Builders, BuildFails(t) PROVE PipesInv'
  BY <1>19 DEF BuildFails, Goes
<1>20. ASSUME NEW t \in Builders, Build(t) PROVE PipesInv'
  BY <1>20 DEF Build, Goes
<1>21. ASSUME NEW t \in Builders, EnterOperationalState(t) PROVE PipesInv'
  BY <1>21 DEF EnterOperationalState, Goes
<1>22. ASSUME NEW t \in Builders, ClearResuming(t) PROVE PipesInv'
  BY <1>22 DEF ClearResuming, Goes
<1>23. ASSUME NEW t \in Builders, LookAgain(t) PROVE PipesInv'
  BY <1>23 DEF LookAgain, Goes
<1>24. ASSUME NEW t \in Builders, CallBack(t) PROVE PipesInv'
  BY <1>24 DEF CallBack, Goes
<1>25. CASE UNCHANGED vars
  BY <1>25 DEF vars
<1> QED BY <1>1, <1>2, <1>3, <1>4, <1>5, <1>6, <1>7, <1>8, <1>9, <1>10, <1>11, <1>12,
   <1>13, <1>14, <1>15, <1>16, <1>17, <1>18, <1>19, <1>20, <1>21, <1>22, <1>23, <1>24,
   <1>25
   DEF Next, InterruptThread, ResumeThread

(* The interrupt thread never signals the done thread of pipes that have been
   deleted (chw.cpp:325-330), whichever initialisation fails and is retried.   *)
THEOREM PipesAliveWhenSignalled == Spec => []SignalsOnlyLivePipes
<1>1. ResumeInv /\ PipesInv => SignalsOnlyLivePipes
  BY DEF ResumeInv, FlagTypes, PipesInv, SignalsOnlyLivePipes
<1> QED BY ResumeInit, ResumeStep, PipesInit, PipesStep, <1>1, PTL DEF Spec
-----------------------------------------------------------------------------
(* As long as no power event met a resume thread there is one such thread, it
   has answered the event, and once it is through either the controller runs or
   the event that announces a power-up is on its way.                         *)
RunInv ==
    /\ capable => running
    /\ ist = "sleep" => savedCmd
    /\ ~missed =>
        /\ \A t, u \in Builders : builder[t] # "none" /\ builder[u] # "none" => t = u
        /\ \A t \in Builders : /\ builder[t] \notin {"none", "clear"} => ~powerUp
                               /\ builder[t] # "callback"
        /\ (\A t \in Builders : builder[t] \in {"none", "build", "start", "done", "last"})
              => registered /\ (ist = "wait" => event \/ ~masked)
        /\ (\A t \in Builders : builder[t] \in {"none", "done", "last"})
              => running \/ (powerUp /\ ~capable /\ (event \/ ist = "check"))

LEMMA RunInit == Init => RunInv
BY DEF Init, RunInv

(* Every step keeps it so.                                                   *)
LEMMA RunStep == ResumeInv /\ PipesInv /\ RunInv /\ [Next]_vars => RunInv'
<1> SUFFICES ASSUME ResumeInv, PipesInv, RunInv, [Next]_vars PROVE RunInv'
  OBVIOUS
<1> USE DEF ResumeInv, FlagTypes, RebuildInv, Rebuilding, Underway, PipesInv, RunInv,
       IstStates, BuilderStates, NextWait, flagVars, irqVars
<1>1. CASE PowerCycle
  BY <1>1 DEF PowerCycle
<1>2. CASE Interrupt
  BY <1>2 DEF Interrupt
<1>3. CASE Frame
  BY <1>3 DEF Frame
<1>4. CASE GetFrameNumber
  BY <1>4 DEF GetFrameNumber
<1>5. CASE IstWake
  BY <1>5 DEF IstWake
<1>6. CASE IstSignal
  BY <1>6 DEF IstSignal
<1>7. CASE IstResume
  BY <1>7 DEF IstResume
<1>8. CASE IstResumed
  BY <1>8 DEF IstResumed
<1>9. CASE IstEarly
  BY <1>9 DEF IstEarly
<1>10. ASSUME NEW t \in Builders, IstRebuild(t) PROVE RunInv'
  BY <1>10 DEF IstRebuild, Goes
<1>11. ASSUME NEW t \in Builders, ClearPowerUp(t) PROVE RunInv'
  BY <1>11 DEF ClearPowerUp, Goes
<1>12. ASSUME NEW t \in Builders, SetResuming(t) PROVE RunInv'
  BY <1>12 DEF SetResuming, Goes
<1>13. ASSUME NEW t \in Builders, StopHostController(t) PROVE RunInv'
  BY <1>13 DEF StopHostController, Goes
<1>14. ASSUME NEW t \in Builders, DetachRootHub(t) PROVE RunInv'
  BY <1>14 DEF DetachRootHub, Goes
<1>15. ASSUME NEW t \in Builders, CloseInterruptThread(t) PROVE RunInv'
  BY <1>15 DEF CloseInterruptThread, Goes
<1>16. ASSUME NEW t \in Builders, DeInitialize(t) PROVE RunInv'
  BY <1>16 DEF DeInitialize, Goes
<1>17. ASSUME NEW t \in Builders, InitializeFails(t) PROVE RunInv'
  BY <1>17 DEF InitializeFails, Goes
<1>18. ASSUME NEW t \in Builders, Initialize(t) PROVE RunInv'
  BY <1>18 DEF Initialize, Goes
<1>19. ASSUME NEW t \in Builders, BuildFails(t) PROVE RunInv'
  BY <1>19 DEF BuildFails, Goes
<1>20. ASSUME NEW t \in Builders, Build(t) PROVE RunInv'
  BY <1>20 DEF Build, Goes
<1>21. ASSUME NEW t \in Builders, EnterOperationalState(t) PROVE RunInv'
  BY <1>21 DEF EnterOperationalState, Goes
<1>22. ASSUME NEW t \in Builders, ClearResuming(t) PROVE RunInv'
  BY <1>22 DEF ClearResuming, Goes
<1>23. ASSUME NEW t \in Builders, LookAgain(t) PROVE RunInv'
  BY <1>23 DEF LookAgain, Goes
<1>24. ASSUME NEW t \in Builders, CallBack(t) PROVE RunInv'
  BY <1>24 DEF CallBack, Goes
<1>25. CASE UNCHANGED vars
  BY <1>25 DEF vars
<1> QED BY <1>1, <1>2, <1>3, <1>4, <1>5, <1>6, <1>7, <1>8, <1>9, <1>10, <1>11, <1>12,
   <1>13, <1>14, <1>15, <1>16, <1>17, <1>18, <1>19, <1>20, <1>21, <1>22, <1>23, <1>24,
   <1>25
   DEF Next, InterruptThread, ResumeThread

(* When all threads have come to rest, the controller runs and its interrupt
   gets through, unless power was lost while the driver was being rebuilt.    *)
THEOREM RestartedAtRest == Spec => []RestartedOrMissed
<1>1. FlagTypes /\ RunInv => RestartedOrMissed
  BY DEF FlagTypes, RunInv, RestartedOrMissed
<1> QED BY ResumeInit, ResumeStep, PipesInit, PipesStep, RunInit, RunStep, <1>1, PTL
        DEF Spec, ResumeInv
=============================================================================
