--------------------------- MODULE SequenceLemmas ---------------------------
(* What the list operations of the driver's queues, as the community modules *)
(* define them, do to a sequence.                                            *)
EXTENDS Integers, SequencesExt, SequenceTheorems, WellFoundedInduction, TLAPS

(* RemoveAt(s, k), the unlinking of the k-th element, closes the gap.        *)
LEMMA RemoveAtProps ==
  ASSUME NEW S, NEW s \in Seq(S), NEW k \in 1..Len(s)
  PROVE  /\ RemoveAt(s, k) \in Seq(S)
         /\ Len(RemoveAt(s, k)) = Len(s) - 1
         /\ \A i \in 1..(Len(s) - 1) :
               RemoveAt(s, k)[i] = IF i < k THEN s[i] ELSE s[i + 1]
<1> DEFINE a == SubSeq(s, 1, k - 1)
           b == SubSeq(s, k + 1, Len(s))
<1>1. /\ Len(s) \in Nat
      /\ \A i \in 1..Len(s) : s[i] \in S
  BY ElementOfSeq, LenProperties
<1>2. /\ a \in Seq(S)
      /\ Len(a) = k - 1
      /\ \A i \in 1..(k - 1) : a[i] = s[i]
  <2>1. \A i \in 1..(k - 1) : s[i] \in S
    BY <1>1
  <2>2. /\ a \in Seq(S)
        /\ Len(a) = IF 1 <= k - 1 THEN k - 1 - 1 + 1 ELSE 0
        /\ \A i \in 1..(k - 1 - 1 + 1) : a[i] = s[1 + i - 1]
    BY <1>1, <2>1, SubSeqProperties
  <2> QED BY <1>1, <2>2
<1>3. /\ b \in Seq(S)
      /\ Len(b) = Len(s) - k
      /\ \A i \in 1..(Len(s) - k) : b[i] = s[k + i]
  BY <1>1, SubSeqProperties
<1> HIDE DEF a, b
<1>4. /\ a \o b \in Seq(S)
      /\ Len(a \o b) = Len(a) + Len(b)
      /\ \A i \in 1..(Len(a) + Len(b)) :
            (a \o b)[i] = IF i <= Len(a) THEN a[i] ELSE b[i - Len(a)]
  BY <1>2, <1>3, ConcatProperties
<1>5. RemoveAt(s, k) = a \o b
  BY DEF RemoveAt, a, b
<1>6. ASSUME NEW i \in 1..(Len(s) - 1)
      PROVE  (a \o b)[i] = IF i < k THEN s[i] ELSE s[i + 1]
  <2>1. CASE i < k
    BY <1>1, <1>2, <1>3, <1>4, <2>1
  <2>2. CASE i >= k
    <3>1. (a \o b)[i] = b[i - (k - 1)] /\ i - (k - 1) \in 1..(Len(s) - k)
      BY <1>1, <1>2, <1>3, <1>4, <2>2
    <3>2. b[i - (k - 1)] = s[k + (i - (k - 1))]
      BY <1>3, <3>1
    <3> QED BY <1>1, <2>2, <3>1, <3>2
  <2>3. i < k \/ i >= k
    BY <1>1
  <2> QED BY <2>1, <2>2, <2>3
<1>7. Len(a \o b) = Len(s) - 1
  BY <1>1, <1>2, <1>3, <1>4
<1> QED BY <1>4, <1>5, <1>6, <1>7

(* InsertAt(s, k, e) makes room for e before the k-th element.               *)
LEMMA InsertAtProps ==
  ASSUME NEW S, NEW s \in Seq(S), NEW e \in S, NEW k \in 1..(Len(s) + 1)
  PROVE  /\ InsertAt(s, k, e) \in Seq(S)
         /\ Len(InsertAt(s, k, e)) = Len(s) + 1
         /\ \A i \in 1..(Len(s) + 1) :
               InsertAt(s, k, e)[i] = IF i < k THEN s[i] ELSE IF i = k THEN e ELSE s[i - 1]
<1> DEFINE a == SubSeq(s, 1, k - 1)
           b == SubSeq(s, k, Len(s))
           c == a \o <<e>>
<1>1. /\ Len(s) \in Nat
      /\ \A i \in 1..Len(s) : s[i] \in S
  BY ElementOfSeq, LenProperties
<1>2. /\ a \in Seq(S)
      /\ Len(a) = k - 1
      /\ \A i \in 1..(k - 1) : a[i] = s[i]
  <2>1. \A i \in 1..(k - 1) : s[i] \in S
    BY <1>1
  <2>2. /\ a \in Seq(S)
        /\ Len(a) = IF 1 <= k - 1 THEN k - 1 - 1 + 1 ELSE 0
        /\ \A i \in 1..(k - 1 - 1 + 1) : a[i] = s[1 + i - 1]
    BY <1>1, <2>1, SubSeqProperties
  <2> QED BY <1>1, <2>2
<1>3. /\ b \in Seq(S)
      /\ Len(b) = Len(s) + 1 - k
      /\ \A i \in 1..(Len(s) + 1 - k) : b[i] = s[k + i - 1]
  <2>1. \A i \in k..Len(s) : s[i] \in S
    BY <1>1
  <2>2. /\ b \in Seq(S)
        /\ Len(b) = IF k <= Len(s) THEN Len(s) - k + 1 ELSE 0
        /\ \A i \in 1..(Len(s) - k + 1) : b[i] = s[k + i - 1]
    BY <1>1, <2>1, SubSeqProperties
  <2> QED BY <1>1, <2>2
<1> HIDE DEF a, b
<1>4. <<e>> \in Seq(S) /\ Len(<<e>>) = 1 /\ <<e>>[1] = e
  OBVIOUS
<1>5. /\ c \in Seq(S)
      /\ Len(c) = k
      /\ \A i \in 1..k : c[i] = IF i < k THEN s[i] ELSE e
  <2>1. /\ c \in Seq(S)
        /\ Len(c) = Len(a) + 1
        /\ \A i \in 1..(Len(a) + 1) : c[i] = IF i <= Len(a) THEN a[i] ELSE <<e>>[i - Len(a)]
    BY <1>2, <1>4, ConcatProperties
  <2> QED BY <1>1, <1>2, <1>4, <2>1
<1> HIDE DEF c
<1>6. /\ c \o b \in Seq(S)
      /\ Len(c \o b) = Len(c) + Len(b)
      /\ \A i \in 1..(Len(c) + Len(b)) :
            (c \o b)[i] = IF i <= Len(c) THEN c[i] ELSE b[i - Len(c)]
  BY <1>3, <1>5, ConcatProperties
<1>7. InsertAt(s, k, e) = c \o b
  BY DEF InsertAt, a, b, c
<1>8. ASSUME NEW i \in 1..(Len(s) + 1)
      PROVE  (c \o b)[i] = IF i < k THEN s[i] ELSE IF i = k THEN e ELSE s[i - 1]
  <2>1. CASE i <= k
    BY <1>1, <1>3, <1>5, <1>6, <2>1
  <2>2. CASE i > k
    <3>1. (c \o b)[i] = b[i - k] /\ i - k \in 1..(Len(s) + 1 - k)
      BY <1>1, <1>3, <1>5, <1>6, <2>2
    <3>2. b[i - k] = s[k + (i - k) - 1]
      BY <1>3, <3>1
    <3> QED BY <1>1, <2>2, <3>1, <3>2
  <2>3. i <= k \/ i > k
    BY <1>1
  <2> QED BY <2>1, <2>2, <2>3
<1>9. Len(c \o b) = Len(s) + 1
  BY <1>1, <1>3, <1>5, <1>6
<1> QED BY <1>6, <1>7, <1>8, <1>9

(* What remains of a queue when its head is removed.                         *)
LEMMA RemoveHeadProps ==
  ASSUME NEW S, NEW s \in Seq(S), s # << >>
  PROVE  /\ RemoveAt(s, 1) \in Seq(S)
         /\ Len(s) \in Nat \ {0}
         /\ Len(RemoveAt(s, 1)) = Len(s) - 1
         /\ Head(s) = s[1]
         /\ s[1] \in S
         /\ Len(s) = 1 => RemoveAt(s, 1) = << >>
         /\ Len(s) > 1 => /\ RemoveAt(s, 1) # << >>
                          /\ RemoveAt(s, 1)[1] = s[2]
                          /\ s[2] \in S
<1>1. /\ Len(s) \in Nat \ {0}
      /\ \A i \in 1..Len(s) : s[i] \in S
  BY ElementOfSeq, LenProperties, EmptySeq
<1>2. /\ RemoveAt(s, 1) \in Seq(S)
      /\ Len(RemoveAt(s, 1)) = Len(s) - 1
      /\ \A i \in 1..(Len(s) - 1) :
            RemoveAt(s, 1)[i] = IF i < 1 THEN s[i] ELSE s[i + 1]
  BY <1>1, RemoveAtProps
<1>3. Head(s) = s[1]
  BY HeadTailProperties
<1>4. Len(s) = 1 => RemoveAt(s, 1) = << >>
  BY <1>2, EmptySeq
<1>5. Len(s) > 1 => /\ RemoveAt(s, 1) # << >>
                    /\ RemoveAt(s, 1)[1] = s[2]
                    /\ s[2] \in S
  BY <1>1, <1>2, EmptySeq
<1> QED BY <1>1, <1>2, <1>3, <1>4, <1>5

(* A set of naturals that is not empty has a least element.                  *)
LEMMA MinProps ==
  ASSUME NEW I, I # {}, I \subseteq Nat
  PROVE  Min(I) \in I /\ \A j \in I : Min(I) <= j
<1>1. PICK n \in I : TRUE
  OBVIOUS
<1> DEFINE R == OpToRel(<, Nat)
<1>2. IsWellFoundedOn(R, Nat)
  BY NatLessThanWellFounded
<1>3. PICK m \in I : \A j \in I : ~ (<<j, m>> \in R)
  BY <1>2, WFMin
<1>4. \A j \in I : j \in Nat /\ m \in Nat /\ ~(j < m)
  BY <1>3 DEF OpToRel
<1> HIDE DEF R
<1>5. \A j \in I : m <= j
  BY <1>4
<1> QED BY <1>5 DEF Min

(* RemoveFirst(s, e), the search and unlinking of an element, removes one    *)
(* occurrence of it, and nothing when there is none.                         *)
LEMMA RemoveFirstProps ==
  ASSUME NEW S, NEW s \in Seq(S), NEW e
  PROVE  \/ /\ RemoveFirst(s, e) = s
            /\ \A i \in 1..Len(s) : s[i] # e
         \/ \E k \in 1..Len(s) : s[k] = e /\ RemoveFirst(s, e) = RemoveAt(s, k)
<1>1. CASE \A i \in 1..Len(s) : s[i] # e
  BY <1>1 DEF RemoveFirst
<1>2. CASE \E i \in 1..Len(s) : s[i] = e
  <2> DEFINE I == {i \in 1..Len(s) : s[i] = e}
  <2>1. I # {} /\ I \subseteq Nat
    BY <1>2
  <2> HIDE DEF I
  <2>3. Min(I) \in I
    BY <2>1, MinProps
  <2> USE DEF I
  <2>4. RemoveFirst(s, e) = RemoveAt(s, Min(I))
    BY <1>2, <2>1 DEF RemoveFirst, SelectInSeq
  <2> QED BY <2>3, <2>4
<1> QED BY <1>1, <1>2

(* The set of the elements of a sequence, by their indices.                  *)
LEMMA ToSetProps ==
  ASSUME NEW S, NEW s \in Seq(S)
  PROVE  /\ \A e : e \in ToSet(s) <=> \E i \in 1..Len(s) : s[i] = e
         /\ IsInjective(s) <=> \A i, j \in 1..Len(s) : s[i] = s[j] => i = j
         /\ ToSet(s) \subseteq S
         /\ ToSet(s) = {} <=> s = << >>
<1>1. Len(s) \in Nat /\ DOMAIN s = 1..Len(s) /\ \A i \in 1..Len(s) : s[i] \in S
  BY ElementOfSeq, LenProperties
<1>2. \A e : e \in ToSet(s) <=> \E i \in 1..Len(s) : s[i] = e
  BY <1>1 DEF ToSet
<1>3. s # << >> => 1 \in 1..Len(s)
  BY <1>1, EmptySeq
<1>4. s = << >> => Len(s) = 0
  BY EmptySeq
<1>5. IsInjective(s) <=> \A i, j \in 1..Len(s) : s[i] = s[j] => i = j
  BY <1>1 DEF IsInjective
<1>6. ToSet(s) \subseteq S
  BY <1>1, <1>2
<1>7. s # << >> => s[1] \in ToSet(s)
  BY <1>2, <1>3
<1>8. s = << >> => ToSet(s) = {}
  BY <1>2, <1>4
<1> QED BY <1>2, <1>5, <1>6, <1>7, <1>8

(* Removal from a sequence, by the indices the remaining elements had.        *)
Removal(s, k, old) ==
    /\ old \in [1..Len(RemoveAt(s, k)) -> (1..Len(s)) \ {k}]
    /\ \A i \in 1..Len(RemoveAt(s, k)) : RemoveAt(s, k)[i] = s[old[i]]
    /\ \A i, j \in 1..Len(RemoveAt(s, k)) : old[i] = old[j] => i = j
    /\ \A j \in (1..Len(s)) \ {k} : \E i \in 1..Len(RemoveAt(s, k)) : old[i] = j

LEMMA RemoveAtIndices ==
  ASSUME NEW S, NEW s \in Seq(S), NEW k \in 1..Len(s)
  PROVE  \E old : Removal(s, k, old)
<1> DEFINE t == RemoveAt(s, k)
           old == [i \in 1..Len(t) |-> IF i < k THEN i ELSE i + 1]
<1>1. /\ Len(s) \in Nat /\ Len(t) = Len(s) - 1
      /\ \A i \in 1..(Len(s) - 1) : t[i] = IF i < k THEN s[i] ELSE s[i + 1]
  BY RemoveAtProps, LenProperties
<1> HIDE DEF t
<1>2. \A i \in 1..Len(t) : old[i] \in (1..Len(s)) \ {k} /\ t[i] = s[old[i]]
  BY <1>1
<1>3. \A i, j \in 1..Len(t) : old[i] = old[j] => i = j
  BY <1>1
<1>4. ASSUME NEW j \in (1..Len(s)) \ {k} PROVE \E i \in 1..Len(t) : old[i] = j
  <2>1. CASE j < k
    BY <1>1, <2>1
  <2>2. CASE j > k
    <3>1. j - 1 \in 1..Len(t) /\ old[j - 1] = j
      BY <1>1, <2>2
    <3> QED BY <3>1
  <2> QED BY <1>1, <2>1, <2>2
<1>5. old \in [1..Len(t) -> (1..Len(s)) \ {k}]
  BY <1>2
<1> HIDE DEF old
<1> QED BY <1>2, <1>3, <1>4, <1>5 DEF t, Removal

(* What is removed from a sequence without repetitions is gone, and nothing  *)
(* else is.                                                                  *)
LEMMA RemoveAtSet ==
  ASSUME NEW S, NEW s \in Seq(S), NEW k \in 1..Len(s), IsInjective(s)
  PROVE  /\ IsInjective(RemoveAt(s, k))
         /\ ToSet(RemoveAt(s, k)) = ToSet(s) \ {s[k]}
<1> DEFINE t == RemoveAt(s, k)
           old(i) == IF i < k THEN i ELSE i + 1
<1>1. Len(s) \in Nat
  BY LenProperties
<1>2. /\ t \in Seq(S)
      /\ Len(t) = Len(s) - 1
      /\ \A i \in 1..(Len(s) - 1) : t[i] = IF i < k THEN s[i] ELSE s[i + 1]
  BY RemoveAtProps
<1> HIDE DEF t
<1>3. \A i \in 1..Len(t) : old(i) \in 1..Len(s) /\ old(i) # k /\ t[i] = s[old(i)]
  BY <1>1, <1>2
<1>4. \A i, j \in 1..Len(t) : old(i) = old(j) => i = j
  BY <1>1, <1>2
<1>5. ASSUME NEW j \in 1..Len(s), j # k PROVE \E i \in 1..Len(t) : old(i) = j
  <2>1. CASE j < k
    BY <1>1, <1>2, <2>1
  <2>2. CASE j > k
    <3>1. j - 1 \in 1..Len(t) /\ old(j - 1) = j
      BY <1>1, <1>2, <2>2
    <3> QED BY <3>1
  <2> QED BY <1>1, <1>5, <2>1, <2>2
<1> HIDE DEF old
<1>6. \A i, j \in 1..Len(s) : s[i] = s[j] => i = j
  BY ToSetProps
<1>7. \A i, j \in 1..Len(t) : t[i] = t[j] => i = j
  BY <1>3, <1>4, <1>6
<1>8. IsInjective(t)
  BY <1>2, <1>7, ToSetProps
<1>9. ASSUME NEW e PROVE e \in ToSet(t) <=> e \in ToSet(s) \ {s[k]}
  <2>1. e \in ToSet(t) <=> \E i \in 1..Len(t) : t[i] = e
    BY <1>2, ToSetProps
  <2>2. e \in ToSet(s) <=> \E i \in 1..Len(s) : s[i] = e
    BY ToSetProps
  <2>3. ASSUME NEW i \in 1..Len(t), t[i] = e PROVE e \in ToSet(s) \ {s[k]}
    BY <1>3, <1>6, <2>2, <2>3
  <2>4. ASSUME NEW j \in 1..Len(s), s[j] = e, e # s[k] PROVE e \in ToSet(t)
    <3>1. PICK i \in 1..Len(t) : old(i) = j
      BY <1>5, <2>4
    <3> QED BY <1>3, <2>1, <2>4, <3>1
  <2> QED BY <2>1, <2>2, <2>3, <2>4
<1> QED BY <1>8, <1>9 DEF t

(* Removing the first element leaves the tail.                               *)
LEMMA RemoveHeadIsTail ==
  ASSUME NEW S, NEW s \in Seq(S), s # << >>
  PROVE  RemoveAt(s, 1) = Tail(s)
<1>1. /\ RemoveAt(s, 1) \in Seq(S) /\ Len(RemoveAt(s, 1)) = Len(s) - 1
      /\ Len(s) \in Nat \ {0}
      /\ \A i \in 1..(Len(s) - 1) : RemoveAt(s, 1)[i] = IF i < 1 THEN s[i] ELSE s[i + 1]
  BY RemoveAtProps, EmptySeq
<1>2. /\ Tail(s) \in Seq(S) /\ Len(Tail(s)) = Len(s) - 1
      /\ \A i \in 1..Len(Tail(s)) : Tail(s)[i] = s[i + 1]
  BY HeadTailProperties
<1>3. \A i \in 1..Len(Tail(s)) : RemoveAt(s, 1)[i] = Tail(s)[i]
  BY <1>1, <1>2
<1> QED BY <1>1, <1>2, <1>3, SeqEqual

(* What is appended is there, and nothing is lost.                           *)
LEMMA AppendSet ==
  ASSUME NEW S, NEW s \in Seq(S), NEW e \in S
  PROVE  /\ ToSet(Append(s, e)) = ToSet(s) \cup {e}
         /\ IsInjective(s) /\ e \notin ToSet(s) => IsInjective(Append(s, e))
         /\ s # << >> => Append(s, e)[1] = s[1]
<1> DEFINE t == Append(s, e)
           n == Len(s)
<1>1. n \in Nat /\ (s # << >> => n > 0)
  BY LenProperties, EmptySeq
<1>2. /\ t \in Seq(S)
      /\ Len(t) = n + 1
      /\ \A i \in 1..n : t[i] = s[i]
      /\ t[n + 1] = e
  BY AppendProperties
<1> HIDE DEF t, n
<1>3. /\ \A i \in 1..Len(t) : i \in 1..n \/ i = n + 1
      /\ \A i \in 1..n : i \in 1..Len(t)
      /\ n + 1 \in 1..Len(t)
  BY <1>1, <1>2
<1>4. \A x : x \in ToSet(s) <=> \E i \in 1..n : s[i] = x
  BY ToSetProps DEF n
<1>5. \A x : x \in ToSet(t) <=> \E i \in 1..Len(t) : t[i] = x
  BY <1>2, ToSetProps
<1>6. ToSet(t) = ToSet(s) \cup {e}
  <2>1. ASSUME NEW x \in ToSet(t) PROVE x \in ToSet(s) \cup {e}
    BY <1>2, <1>3, <1>4, <1>5, <2>1
  <2>2. ASSUME NEW x \in ToSet(s) PROVE x \in ToSet(t)
    BY <1>2, <1>3, <1>4, <1>5, <2>2
  <2>3. e \in ToSet(t)
    BY <1>2, <1>3, <1>5
  <2> QED BY <2>1, <2>2, <2>3
<1>7. ASSUME IsInjective(s), e \notin ToSet(s) PROVE IsInjective(t)
  <2>1. \A i, j \in 1..n : s[i] = s[j] => i = j
    BY <1>7, ToSetProps DEF n
  <2>2. \A i, j \in 1..Len(t) : t[i] = t[j] => i = j
    BY <1>2, <1>3, <1>4, <1>7, <2>1
  <2> QED BY <1>2, <2>2, ToSetProps
<1>8. s # << >> => t[1] = s[1]
  BY <1>1, <1>2
<1> QED BY <1>6, <1>7, <1>8 DEF t

(* Induction up to n over the numbers with a property, given as a set.       *)
LEMMA UpTo ==
  ASSUME NEW n \in Nat, NEW I, 0 \in I,
         \A k \in 0..n : k < n /\ k \in I => k + 1 \in I
  PROVE  0..n \subseteq I
<1> SUFFICES ASSUME ~(0..n \subseteq I) PROVE FALSE
  OBVIOUS
<1> DEFINE Bad == {k \in 0..n : k \notin I}
<1>1. Bad # {} /\ Bad \subseteq Nat
  OBVIOUS
<1> HIDE DEF Bad
<1>2. Min(Bad) \in Bad /\ \A j \in Bad : Min(Bad) <= j
  BY <1>1, MinProps
<1>3. PICK m \in Bad : \A j \in Bad : m <= j
  BY <1>2
<1> USE DEF Bad
<1>4. m \in 0..n /\ m \notin I /\ m # 0
  BY <1>3
<1>5. m - 1 \in 0..n /\ m - 1 < n /\ (m - 1) + 1 = m
  BY <1>4
<1>6. m - 1 \in I
  BY <1>3, <1>4, <1>5
<1> QED BY <1>4, <1>5, <1>6

(* FlattenSeq puts the sequences one behind the other: what it has made of   *)
(* the first i of them is parts[i].                                          *)
IsParts(parts, seqs, n, S) == /\ parts \in [0..n -> Seq(S)]
                              /\ parts[0] = << >>
                              /\ \A i \in 0..(n - 1) : parts[i + 1] = parts[i] \o seqs[i + 1]

LEMMA PartsExist ==
  ASSUME NEW S, NEW seqs \in Seq(Seq(S))
  PROVE  \E parts : IsParts(parts, seqs, Len(seqs), S)
<1> DEFINE n == Len(seqs)
           I == {k \in 0..n : \E parts : IsParts(parts, seqs, k, S)}
<1>1. n \in Nat /\ \A i \in 1..n : seqs[i] \in Seq(S)
  BY ElementOfSeq, LenProperties
<1> HIDE DEF n
<1>2. 0 \in I
  <2>1. IsParts([i \in 0..0 |-> << >>], seqs, 0, S)
    BY EmptySeq DEF IsParts
  <2> QED BY <1>1, <2>1
<1>3. ASSUME NEW k \in 0..n, k < n, k \in I PROVE k + 1 \in I
  <2>1. PICK p : IsParts(p, seqs, k, S)
    BY <1>3
  <2> DEFINE q == [i \in 0..(k + 1) |-> IF i = k + 1 THEN p[k] \o seqs[k + 1] ELSE p[i]]
  <2>2. k + 1 \in 1..n /\ k \in 0..k /\ p[k] \in Seq(S)
    BY <1>1, <1>3, <2>1 DEF IsParts
  <2>3. p[k] \o seqs[k + 1] \in Seq(S)
    BY <1>1, <2>2, ConcatProperties
  <2>4. q \in [0..(k + 1) -> Seq(S)]
    BY <1>1, <2>1, <2>3 DEF IsParts
  <2>5. q[0] = << >>
    BY <1>1, <2>1 DEF IsParts
  <2>6. ASSUME NEW i \in 0..((k + 1) - 1) PROVE q[i + 1] = q[i] \o seqs[i + 1]
    <3>1. CASE i = k
      <4>1. PICK j \in 0..(k + 1) : j = k + 1 /\ k # j /\ k \in 0..(k + 1)
        BY <1>1
      <4>2. q[j] = p[k] \o seqs[j]
        BY <4>1
      <4>3. q[k] = p[k]
        BY <4>1
      <4> HIDE DEF q
      <4> QED BY <3>1, <4>1, <4>2, <4>3
    <3>2. CASE i # k
      <4>1. i \in 0..(k - 1) /\ i + 1 # k + 1 /\ i # k + 1 /\ i + 1 \in 0..(k + 1) /\ i \in 0..(k + 1)
        BY <1>1, <3>2
      <4>2. q[i + 1] = p[i + 1] /\ q[i] = p[i]
        BY <4>1
      <4>3. p[i + 1] = p[i] \o seqs[i + 1]
        BY <2>1, <4>1 DEF IsParts
      <4> QED BY <4>2, <4>3
    <3> QED BY <3>1, <3>2
  <2> HIDE DEF q
  <2>7. IsParts(q, seqs, k + 1, S)
    BY <2>4, <2>5, <2>6 DEF IsParts
  <2> QED BY <1>1, <2>2, <2>7
<1> HIDE DEF I
<1>4. 0..n \subseteq I
  BY <1>1, <1>2, <1>3, UpTo
<1>5. n \in I
  BY <1>1, <1>4
<1> QED BY <1>5 DEF I, n

LEMMA FlattenParts ==
  ASSUME NEW S, NEW seqs \in Seq(Seq(S)), seqs # << >>,
         NEW parts, IsParts(parts, seqs, Len(seqs), S)
  PROVE  FlattenSeq(seqs) = parts[Len(seqs)]
<1> DEFINE flatten[i \in 1..Len(seqs)] ==
             IF i = 1 THEN seqs[i] ELSE flatten[i - 1] \o seqs[i]
<1>1. Len(seqs) \in Nat \ {0} /\ \A i \in 1..Len(seqs) : seqs[i] \in Seq(S)
  BY ElementOfSeq, LenProperties, EmptySeq
<1>2. FlattenSeq(seqs) = flatten[Len(seqs)]
  BY <1>1 DEF FlattenSeq
<1> DEFINE n == Len(seqs)
           Step(g) == [i \in 1..n |-> IF i = 1 THEN seqs[i] ELSE g[i - 1] \o seqs[i]]
           h == [i \in 1..n |-> parts[i]]
<1>3. flatten = CHOOSE g : g = Step(g)
  OBVIOUS
<1> HIDE DEF flatten, n
<1>6. n \in Nat /\ n > 0
  BY <1>1 DEF n
<1>4. parts[1] = seqs[1]
  <2>1. 0 \in 0..(n - 1) /\ 0 + 1 = 1 /\ 1 \in 1..n
    BY <1>6
  <2>2. parts[0 + 1] = << >> \o seqs[0 + 1]
    BY <2>1 DEF IsParts, n
  <2>3. seqs[1] \in Seq(S)
    BY <1>1, <2>1 DEF n
  <2> QED BY <2>1, <2>2, <2>3, ConcatEmptySeq
<1>11. h = Step(h)
  <2>1. ASSUME NEW i \in 1..n PROVE h[i] = Step(h)[i]
    <3>1. CASE i = 1
      BY <1>4, <3>1
    <3>2. CASE i # 1
      <4>1. PICK j \in 0..(n - 1) : j + 1 = i /\ i - 1 = j /\ j \in 1..n
        BY <1>6, <3>2
      <4>2. parts[i] = parts[j] \o seqs[i]
        BY <4>1 DEF IsParts, n
      <4>3. h[i] = parts[i] /\ h[j] = parts[j]
        BY <4>1
      <4>4. Step(h)[i] = h[j] \o seqs[i]
        BY <3>2, <4>1
      <4> QED BY <4>2, <4>3, <4>4
    <3> QED BY <3>1, <3>2
  <2>2. h = [i \in 1..n |-> h[i]] /\ Step(h) = [i \in 1..n |-> Step(h)[i]]
    OBVIOUS
  <2> HIDE DEF h, Step
  <2> QED BY <2>1, <2>2
<1> HIDE DEF h
<1>5. flatten = Step(flatten)
  <2>1. \E g : g = Step(g)
    BY <1>11
  <2> HIDE DEF Step
  <2> QED BY <1>3, <2>1
<1> DEFINE I == {k \in 0..n : k = 0 \/ flatten[k] = parts[k]}
<1>7. 0 \in I
  BY <1>6
<1>8. ASSUME NEW k \in 0..n, k < n, k \in I PROVE k + 1 \in I
  <2>1. PICK j \in 1..n : j = k + 1 /\ j - 1 = k /\ k \in 0..(n - 1) /\ j \in 0..n
    BY <1>6, <1>8
  <2>2. flatten[j] = IF j = 1 THEN seqs[j] ELSE flatten[j - 1] \o seqs[j]
    BY <1>5
  <2>3. parts[j] = parts[k] \o seqs[j]
    BY <2>1 DEF IsParts, n
  <2>4. CASE k = 0
    <3>1. j = 1
      BY <2>1, <2>4
    <3> QED BY <1>4, <2>1, <2>2, <3>1
  <2>5. CASE k # 0
    <3>0. j # 1 /\ flatten[j - 1] = flatten[k]
      <4>1. j # 1
        BY <2>1, <2>5
      <4>2. j - 1 = k
        BY <2>1
      <4> QED BY <4>1, <4>2
    <3>1. flatten[j] = flatten[k] \o seqs[j]
      BY <2>2, <3>0
    <3>2. flatten[j] = parts[j]
      BY <1>8, <2>3, <2>5, <3>1
    <3> QED BY <2>1, <3>2
  <2> QED BY <2>4, <2>5
<1> HIDE DEF I
<1>9. 0..n \subseteq I
  BY <1>6, <1>7, <1>8, UpTo
<1>10. n \in I /\ n # 0
  BY <1>1, <1>6, <1>9 DEF n
<1> QED BY <1>2, <1>10 DEF I, n

(* A prefix, element by element.                                             *)
LEMMA PrefixProps ==
  ASSUME NEW S, NEW s \in Seq(S), NEW t \in Seq(S)
  PROVE  /\ IsPrefix(s, t) <=> Len(s) <= Len(t) /\ \A i \in 1..Len(s) : s[i] = t[i]
         /\ IsPrefix(s, t) /\ Len(s) = Len(t) => s = t
         /\ IsPrefix(s, s \o t)
<1>1. /\ Len(s) \in Nat /\ \A i \in 1..Len(s) : s[i] \in S
      /\ Len(t) \in Nat /\ \A i \in 1..Len(t) : t[i] \in S
  BY ElementOfSeq, LenProperties
<1>2. ASSUME NEW u \in Seq(S), NEW n \in Nat, n <= Len(u)
      PROVE  /\ SubSeq(u, 1, n) \in Seq(S) /\ Len(SubSeq(u, 1, n)) = n
             /\ \A i \in 1..n : SubSeq(u, 1, n)[i] = u[i]
  <2>1. Len(u) \in Nat /\ \A i \in 1..Len(u) : u[i] \in S
    BY ElementOfSeq, LenProperties
  <2>2. \A i \in 1..n : u[i] \in S
    BY <1>2, <2>1
  <2>3. /\ SubSeq(u, 1, n) \in Seq(S)
        /\ Len(SubSeq(u, 1, n)) = IF 1 <= n THEN n - 1 + 1 ELSE 0
        /\ \A i \in 1..(n - 1 + 1) : SubSeq(u, 1, n)[i] = u[1 + i - 1]
    BY <2>2, SubSeqProperties
  <2> QED BY <2>3
<1>3. SubSeq(s, 1, Len(s)) = s
  BY SubSeqFull
<1>4. ASSUME NEW u \in Seq(S)
      PROVE  IsPrefix(s, u) <=> Len(s) <= Len(u) /\ \A i \in 1..Len(s) : s[i] = u[i]
  <2>0. Len(u) \in Nat
    BY LenProperties
  <2>1. CASE Len(s) <= Len(u)
    <3>1. /\ SubSeq(u, 1, Len(s)) \in Seq(S) /\ Len(SubSeq(u, 1, Len(s))) = Len(s)
          /\ \A i \in 1..Len(s) : SubSeq(u, 1, Len(s))[i] = u[i]
      BY <1>1, <1>2, <2>1
    <3>2. s = SubSeq(u, 1, Len(s)) <=> \A i \in 1..Len(s) : s[i] = u[i]
      BY <3>1, SeqEqual
    <3> QED BY <1>3, <2>1, <3>2 DEF IsPrefix
  <2> QED BY <2>1 DEF IsPrefix
<1>5. IsPrefix(s, t) /\ Len(s) = Len(t) => s = t
  BY <1>4, SeqEqual
<1>6. IsPrefix(s, s \o t)
  <2>1. /\ s \o t \in Seq(S) /\ Len(s \o t) = Len(s) + Len(t)
        /\ \A i \in 1..(Len(s) + Len(t)) : (s \o t)[i] = IF i <= Len(s) THEN s[i] ELSE t[i - Len(s)]
    BY ConcatProperties
  <2>2. Len(s) <= Len(s) + Len(t) /\ \A i \in 1..Len(s) : i \in 1..(Len(s) + Len(t)) /\ i <= Len(s)
    BY <1>1
  <2> QED BY <1>4, <2>1, <2>2
<1> QED BY <1>4, <1>5, <1>6

LEMMA PrefixTransitive ==
  ASSUME NEW S, NEW s \in Seq(S), NEW t \in Seq(S), NEW u \in Seq(S),
         IsPrefix(s, t), IsPrefix(t, u)
  PROVE  IsPrefix(s, u)
<1>1. Len(s) \in Nat /\ Len(t) \in Nat /\ Len(u) \in Nat
  BY LenProperties
<1>2. /\ Len(s) <= Len(t) /\ \A i \in 1..Len(s) : s[i] = t[i]
      /\ Len(t) <= Len(u) /\ \A i \in 1..Len(t) : t[i] = u[i]
  BY PrefixProps
<1>3. Len(s) <= Len(u) /\ \A i \in 1..Len(s) : i \in 1..Len(t)
  BY <1>1, <1>2
<1>4. \A i \in 1..Len(s) : s[i] = u[i]
  BY <1>2, <1>3
<1> QED BY <1>3, <1>4, PrefixProps

(* Each part is a prefix of the whole, and a shorter one if more follow.     *)
LEMMA PartsPrefix ==
  ASSUME NEW S, NEW seqs \in Seq(Seq(S)), \A i \in 1..Len(seqs) : Len(seqs[i]) > 0,
         NEW parts, IsParts(parts, seqs, Len(seqs), S), NEW k \in 0..Len(seqs)
  PROVE  /\ IsPrefix(parts[k], parts[Len(seqs)])
         /\ Len(parts[k]) = Len(parts[Len(seqs)]) => k = Len(seqs)
<1> DEFINE n == Len(seqs)
<1>1. n \in Nat /\ \A i \in 1..n : seqs[i] \in Seq(S) /\ Len(seqs[i]) \in Nat
  BY ElementOfSeq, LenProperties
<1>2. \A i \in 1..n : Len(seqs[i]) > 0
  OBVIOUS
<1>3. \A i \in 0..n : parts[i] \in Seq(S) /\ Len(parts[i]) \in Nat
  BY LenProperties DEF IsParts
<1>4. \A i \in 0..(n - 1) : parts[i + 1] = parts[i] \o seqs[i + 1]
  BY DEF IsParts
<1>k. k \in 0..n
  OBVIOUS
<1> HIDE DEF n
<1> DEFINE I == {j \in 0..n : /\ IsPrefix(parts[n - j], parts[n])
                              /\ j # 0 => Len(parts[n - j]) < Len(parts[n])}
<1>5. 0 \in I
  <2>1. n - 0 = n /\ 0 \in 0..n /\ n \in 0..n
    BY <1>1
  <2>2. IsPrefix(parts[n], parts[n])
    BY <1>3, <2>1, PrefixProps
  <2> QED BY <2>1, <2>2
<1>6. ASSUME NEW j \in 0..n, j < n, j \in I PROVE j + 1 \in I
  <2>1. PICK a \in 0..(n - 1), b \in 1..n : /\ a = n - (j + 1) /\ b = n - j /\ b = a + 1
                                            /\ a \in 0..n /\ b \in 0..n /\ j + 1 \in 0..n /\ j + 1 # 0
    BY <1>1, <1>6
  <2>2. parts[b] = parts[a] \o seqs[b] /\ seqs[b] \in Seq(S) /\ parts[a] \in Seq(S)
        /\ parts[b] \in Seq(S) /\ parts[n] \in Seq(S)
    <3>1. parts[a + 1] = parts[a] \o seqs[a + 1]
      BY <1>4, <2>1
    <3>2. parts[b] = parts[a] \o seqs[b]
      BY <2>1, <3>1
    <3>3. n \in 0..n
      BY <1>1
    <3> QED BY <1>1, <1>3, <2>1, <3>2, <3>3
  <2>3. IsPrefix(parts[b], parts[n])
    BY <1>6, <2>1
  <2>4. IsPrefix(parts[a], parts[b])
    BY <2>2, PrefixProps
  <2>5. IsPrefix(parts[a], parts[n])
    BY <2>2, <2>3, <2>4, PrefixTransitive
  <2>6. Len(parts[b]) = Len(parts[a]) + Len(seqs[b])
    BY <2>2, ConcatProperties
  <2>7. Len(parts[b]) <= Len(parts[n])
    BY <2>2, <2>3, PrefixProps
  <2>8. \A x, y, z, w \in Nat : x = y + z /\ x <= w /\ z > 0 => y < w
    OBVIOUS
  <2>10. /\ Len(parts[b]) \in Nat /\ Len(parts[a]) \in Nat /\ Len(seqs[b]) \in Nat
         /\ Len(parts[n]) \in Nat /\ Len(seqs[b]) > 0
    BY <1>1, <1>2, <1>3, <2>1
  <2>9. Len(parts[a]) < Len(parts[n])
    BY <2>6, <2>7, <2>8, <2>10
  <2> QED BY <2>1, <2>5, <2>9
<1> HIDE DEF I
<1>7. 0..n \subseteq I
  BY <1>1, <1>5, <1>6, UpTo
<1>8. PICK j \in 0..n : j = n - k /\ n - j = k /\ (j = 0 => k = n)
  BY <1>1, <1>k
<1>9. IsPrefix(parts[k], parts[n]) /\ (j # 0 => Len(parts[k]) < Len(parts[n]))
  BY <1>7, <1>8 DEF I
<1>10. Len(parts[k]) \in Nat /\ Len(parts[n]) \in Nat
  <2>1. n \in 0..n
    BY <1>1
  <2> QED BY <1>3, <1>k, <2>1
<1>11. Len(parts[k]) = Len(parts[n]) => k = n
  BY <1>8, <1>9, <1>10
<1> QED BY <1>9, <1>11 DEF n

-----------------------------------------------------------------------------
(* The numbers of a sequence are added up from its beginning.                 *)
IsSums(g, s, n) == /\ g \in [0..n -> Nat]
                   /\ g[0] = 0
                   /\ \A i \in 0..(n - 1) : g[i + 1] = g[i] + s[i + 1]

LEMMA SumsExist ==
  ASSUME NEW s \in Seq(Nat)
  PROVE  \E g : IsSums(g, s, Len(s))
<1> DEFINE n == Len(s)
           I == {k \in 0..n : \E g : IsSums(g, s, k)}
<1>1. n \in Nat /\ \A i \in 1..n : s[i] \in Nat
  BY ElementOfSeq, LenProperties
<1> HIDE DEF n
<1>2. 0 \in I
  <2>1. IsSums([i \in 0..0 |-> 0], s, 0)
    BY DEF IsSums
  <2> QED BY <1>1, <2>1
<1>3. ASSUME NEW k \in 0..n, k < n, k \in I PROVE k + 1 \in I
  <2>1. PICK p : IsSums(p, s, k)
    BY <1>3
  <2> DEFINE q == [i \in 0..(k + 1) |-> IF i = k + 1 THEN p[k] + s[k + 1] ELSE p[i]]
  <2>2. k + 1 \in 1..n /\ k \in 0..k /\ p[k] \in Nat /\ s[k + 1] \in Nat
    BY <1>1, <1>3, <2>1 DEF IsSums
  <2>3. q \in [0..(k + 1) -> Nat] /\ q[0] = 0
    BY <1>1, <2>1, <2>2 DEF IsSums
  <2>4. ASSUME NEW i \in 0..((k + 1) - 1) PROVE q[i + 1] = q[i] + s[i + 1]
    <3>1. CASE i = k
      <4>1. q[k + 1] = p[k] + s[k + 1] /\ q[k] = p[k]
        BY <1>1
      <4> QED BY <3>1, <4>1
    <3>2. CASE i # k
      <4>1. i \in 0..(k - 1) /\ i + 1 # k + 1 /\ i # k + 1 /\ i + 1 \in 0..(k + 1) /\ i \in 0..(k + 1)
        BY <1>1, <3>2
      <4> QED BY <2>1, <4>1 DEF IsSums
    <3> QED BY <3>1, <3>2
  <2> HIDE DEF q
  <2>5. IsSums(q, s, k + 1)
    BY <2>3, <2>4 DEF IsSums
  <2> QED BY <1>1, <2>2, <2>5
<1> HIDE DEF I
<1>4. 0..n \subseteq I
  BY <1>1, <1>2, <1>3, UpTo
<1>5. n \in I
  BY <1>1, <1>4
<1> QED BY <1>5 DEF I, n

(* FoldLeft goes over sets of indices, of which it takes the greatest: a      *)
(* function on all of them satisfies its equation.                            *)
Adds(s, h, n) ==
    h = [S \in SUBSET (1..n) |-> IF S = {} THEN 0 ELSE h[S \ {Max(S)}] + s[Max(S)]]

LEMMA MaxProps ==
  ASSUME NEW n \in Nat, NEW S \in SUBSET (1..n), S # {}
  PROVE  Max(S) \in S /\ \A j \in S : j <= Max(S)
<1> DEFINE D == {n - j : j \in S}
<1>1. D # {} /\ D \subseteq Nat
  OBVIOUS
<1> HIDE DEF D
<1>2. PICK d \in D : \A e \in D : d <= e
  BY <1>1, MinProps
<1>3. PICK m \in S : d = n - m
  BY DEF D
<1>4. \A j \in S : n - j \in D /\ d <= n - j
  BY <1>2 DEF D
<1>5. \A j \in S : j <= m
  BY <1>3, <1>4
<1> QED BY <1>5 DEF Max

LEMMA AddsExist ==
  ASSUME NEW s \in Seq(Nat)
  PROVE  \E h : Adds(s, h, Len(s))
<1> DEFINE n == Len(s)
           I == {k \in 0..n : \E h : Adds(s, h, k)}
<1>1. n \in Nat
  BY LenProperties
<1> HIDE DEF n
<1>2. 0 \in I
  <2>1. \A S \in SUBSET (1..0) : S = {}
    OBVIOUS
  <2>2. Adds(s, [S \in SUBSET (1..0) |-> 0], 0)
    BY <2>1 DEF Adds
  <2> QED BY <1>1, <2>2
<1>3. ASSUME NEW k \in 0..n, k < n, k \in I PROVE k + 1 \in I
  <2>1. PICK h : Adds(s, h, k)
    BY <1>3
  <2> DEFINE K == k + 1
             f == [S \in SUBSET (1..K) |-> IF K \in S THEN h[S \ {K}] + s[K] ELSE h[S]]
             g == [S \in SUBSET (1..K) |-> IF S = {} THEN 0 ELSE f[S \ {Max(S)}] + s[Max(S)]]
  <2>2. K \in Nat /\ k \in Nat
    BY <1>1
  <2>3. ASSUME NEW S \in SUBSET (1..K) PROVE f[S] = g[S]
    <3>1. CASE K \in S
      <4>1. Max(S) = K
        <5>1. PICK m \in S : m = Max(S) /\ K <= m
          BY <2>2, <3>1, MaxProps
        <5>2. m \in 1..K
          OBVIOUS
        <5> QED BY <2>2, <5>1, <5>2
      <4>2. S \ {K} \in SUBSET (1..K) /\ K \notin S \ {K}
        OBVIOUS
      <4>3. f[S \ {K}] = h[S \ {K}]
        BY <4>2
      <4> QED BY <3>1, <4>1, <4>3
    <3>2. CASE K \notin S /\ S # {}
      <4>0. S \in SUBSET (1..k)
        BY <2>2, <3>2
      <4>1. S \in SUBSET (1..k) /\ Max(S) \in S
        BY <2>2, <3>2, <4>0, MaxProps
      <4>2. h[S] = h[S \ {Max(S)}] + s[Max(S)]
        BY <2>1, <3>2, <4>1 DEF Adds
      <4>3. f[S \ {Max(S)}] = h[S \ {Max(S)}]
        BY <3>2
      <4> QED BY <3>2, <4>2, <4>3
    <3>3. CASE S = {}
      <4>1. h[S] = 0
        BY <2>1, <3>3 DEF Adds
      <4> QED BY <3>3, <4>1
    <3> QED BY <3>1, <3>2, <3>3
  <2>4. f = [S \in SUBSET (1..K) |-> f[S]] /\ g = [S \in SUBSET (1..K) |-> g[S]]
    OBVIOUS
  <2>5. f = g
    <3> HIDE DEF f, g
    <3> QED BY <2>3, <2>4
  <2>6. Adds(s, f, K)
    BY <2>5 DEF Adds
  <2>7. K \in 0..n
    BY <1>1, <1>3
  <2> HIDE DEF f, K
  <2>8. K \in I
    BY <2>6, <2>7
  <2> QED BY <2>8 DEF K
<1> HIDE DEF I
<1>4. 0..n \subseteq I
  BY <1>1, <1>2, <1>3, UpTo
<1>5. n \in I
  BY <1>1, <1>4
<1> QED BY <1>5 DEF I, n

(* What FoldLeft adds up is what is added up from the beginning.              *)
Total(s) == FoldLeft(LAMBDA a, b : a + b, 0, s)

LEMMA TotalIsSums ==
  ASSUME NEW s \in Seq(Nat), NEW g, IsSums(g, s, Len(s))
  PROVE  Total(s) = g[Len(s)]
<1> DEFINE iter[S \in SUBSET (1..Len(s))] ==
             IF S = {} THEN 0 ELSE iter[S \ {Max(S)}] + s[Max(S)]
<1>1. DOMAIN s = 1..Len(s) /\ Len(s) \in Nat
  BY LenProperties
<1>2. Total(s) = iter[1..Len(s)]
  BY <1>1 DEF Total, FoldLeft, MapThenFoldSet
<1> DEFINE n == Len(s)
           F(h) == [S \in SUBSET (1..n) |-> IF S = {} THEN 0 ELSE h[S \ {Max(S)}] + s[Max(S)]]
<1>3. iter = CHOOSE h : h = F(h)
  OBVIOUS
<1> HIDE DEF iter
<1>4. iter = F(iter)
  <2>1. \E h : h = F(h)
    BY AddsExist DEF Adds
  <2> HIDE DEF F
  <2> QED BY <1>3, <2>1
<1> DEFINE I == {k \in 0..n : iter[1..k] = g[k]}
<1> HIDE DEF n
<1>0. n \in Nat
  BY <1>1 DEF n
<1>5. 0 \in I
  <2>1. 1..0 = {} /\ {} \in SUBSET (1..n)
    OBVIOUS
  <2>2. iter[{}] = 0
    BY <1>4, <2>1
  <2> QED BY <1>0, <2>1, <2>2 DEF IsSums
<1>6. ASSUME NEW k \in 0..n, k < n, k \in I PROVE k + 1 \in I
  <2> DEFINE S == 1..(k + 1)
  <2>1. S \in SUBSET (1..n) /\ S # {} /\ k + 1 \in S /\ S \in SUBSET (1..(k + 1)) /\ k + 1 \in Nat
    <3>1. k + 1 \in S /\ k + 1 \in Nat
      BY <1>0
    <3>2. \A i \in S : i \in 1..n
      BY <1>0, <1>6
    <3> QED BY <3>1, <3>2
  <2>2. PICK m : m = Max(S) /\ m \in S /\ k + 1 <= m
    BY <2>1, MaxProps
  <2>3. m = k + 1
    BY <1>0, <2>2
  <2>4. S \ {m} = 1..k
    BY <1>0, <2>3
  <2>5. iter[S] = iter[S \ {Max(S)}] + s[Max(S)]
    BY <1>4, <2>1
  <2>6. iter[S] = iter[1..k] + s[k + 1]
    BY <2>2, <2>3, <2>4, <2>5
  <2>7. k \in 0..(n - 1) /\ k + 1 \in 0..n
    BY <1>0, <1>6
  <2>8. g[k + 1] = g[k] + s[k + 1]
    BY <2>7 DEF IsSums, n
  <2> QED BY <1>6, <2>6, <2>7, <2>8
<1> HIDE DEF I
<1>7. 0..n \subseteq I
  BY <1>0, <1>5, <1>6, UpTo
<1>8. n \in I
  BY <1>0, <1>7
<1> QED BY <1>2, <1>8 DEF I, n

(* The sum grows by what is appended.                                         *)
LEMMA TotalAppend ==
  ASSUME NEW s \in Seq(Nat), NEW e \in Nat
  PROVE  Total(s) \in Nat /\ Total(Append(s, e)) = Total(s) + e
<1> DEFINE n == Len(s)
           t == Append(s, e)
<1>1. /\ n \in Nat /\ t \in Seq(Nat) /\ Len(t) = n + 1
      /\ \A i \in 1..n : t[i] = s[i]
      /\ t[n + 1] = e
  BY AppendProperties, LenProperties
<1>2. PICK g : IsSums(g, t, Len(t))
  BY <1>1, SumsExist
<1>3. Total(t) = g[Len(t)]
  BY <1>1, <1>2, TotalIsSums
<1> DEFINE f == [i \in 0..n |-> g[i]]
<1> HIDE DEF n, t
<1>4. g \in [0..(n + 1) -> Nat] /\ g[0] = 0 /\ \A i \in 0..n : g[i + 1] = g[i] + t[i + 1]
  BY <1>1, <1>2 DEF IsSums
<1>5. f \in [0..n -> Nat] /\ f[0] = 0 /\ f[n] = g[n]
  BY <1>1, <1>4
<1>6. ASSUME NEW i \in 0..(n - 1) PROVE f[i + 1] = f[i] + s[i + 1]
  <2>1. i \in 0..n /\ i + 1 \in 0..n /\ i + 1 \in 1..n
    BY <1>1
  <2> QED BY <1>1, <1>4, <2>1
<1> HIDE DEF f
<1>7. IsSums(f, s, n)
  BY <1>5, <1>6 DEF IsSums
<1>8. Total(s) = f[n]
  BY <1>7, TotalIsSums DEF n
<1>9. n \in 0..n /\ g[n + 1] = g[n] + t[n + 1] /\ g[n] \in Nat
  BY <1>1, <1>4
<1> QED BY <1>1, <1>3, <1>5, <1>8, <1>9 DEF t

LEMMA TotalEmpty == Total(<< >>) = 0
<1>1. << >> \in Seq(Nat) /\ Len(<< >>) = 0
  BY EmptySeq
<1>2. IsSums([i \in 0..0 |-> 0], << >>, 0)
  BY DEF IsSums
<1> QED BY <1>1, <1>2, TotalIsSums

(* Removing an element takes it off the sum, and a part is no more than the   *)
(* whole.                                                                     *)
LEMMA TotalRemove ==
  ASSUME NEW s \in Seq(Nat), NEW k \in 1..Len(s)
  PROVE  Total(s) \in Nat /\ Total(RemoveAt(s, k)) = Total(s) - s[k]
<1> DEFINE n == Len(s)
           t == RemoveAt(s, k)
<1>1. /\ n \in Nat /\ t \in Seq(Nat) /\ Len(t) = n - 1
      /\ \A i \in 1..(n - 1) : t[i] = IF i < k THEN s[i] ELSE s[i + 1]
      /\ s[k] \in Nat
  BY RemoveAtProps, LenProperties, ElementOfSeq
<1>2. PICK g : IsSums(g, s, n)
  BY SumsExist
<1>3. Total(s) = g[n]
  BY <1>2, TotalIsSums
<1> HIDE DEF n, t
<1>k. k \in 1..n
  BY DEF n
<1>4. g \in [0..n -> Nat] /\ g[0] = 0 /\ \A i \in 0..(n - 1) : g[i + 1] = g[i] + s[i + 1]
  BY <1>2 DEF IsSums
<1>5. PICK f : IsSums(f, t, n - 1)
  BY <1>1, SumsExist
<1>6. Total(t) = f[n - 1]
  BY <1>1, <1>5, TotalIsSums
<1>7. f \in [0..(n - 1) -> Nat] /\ f[0] = 0
      /\ \A i \in 0..((n - 1) - 1) : f[i + 1] = f[i] + t[i + 1]
  BY <1>5 DEF IsSums
<1> DEFINE I == {i \in 0..(n - 1) : f[i] = IF i < k THEN g[i] ELSE g[i + 1] - s[k]}
<1>8. 0 \in I
  BY <1>1, <1>k, <1>4, <1>7
<1>9. ASSUME NEW i \in 0..(n - 1), i < n - 1, i \in I PROVE i + 1 \in I
  <2>1. /\ i \in 0..((n - 1) - 1) /\ i + 1 \in 1..(n - 1) /\ i + 1 \in 0..(n - 1)
        /\ i \in 0..(n - 1) /\ i + 1 \in 0..n /\ i \in 0..n /\ (i + 1) + 1 \in 0..n
    BY <1>1, <1>9
  <2>2. f[i + 1] = f[i] + t[i + 1] /\ g[i + 1] = g[i] + s[i + 1]
        /\ g[(i + 1) + 1] = g[i + 1] + s[(i + 1) + 1]
    BY <1>4, <1>7, <2>1
  <2>3. t[i + 1] = IF i + 1 < k THEN s[i + 1] ELSE s[(i + 1) + 1]
    BY <1>1, <2>1
  <2>4. f[i] = IF i < k THEN g[i] ELSE g[i + 1] - s[k]
    BY <1>9
  <2>5. /\ f[i] \in Nat /\ f[i + 1] \in Nat /\ g[i] \in Nat /\ g[i + 1] \in Nat
        /\ g[(i + 1) + 1] \in Nat
    BY <1>4, <1>7, <2>1
  <2>6. s[i + 1] \in Nat /\ s[(i + 1) + 1] \in Nat
    BY <2>1, <1>1, ElementOfSeq DEF n
  <2>7. CASE i + 1 < k
    BY <2>1, <2>2, <2>3, <2>4, <2>5, <2>6, <2>7, <1>k
  <2>8. CASE i + 1 = k
    BY <2>1, <2>2, <2>3, <2>4, <2>5, <2>6, <2>8, <1>k
  <2>9. CASE i + 1 > k
    <3>1. ~(i + 1 < k) /\ ~(i < k)
      BY <1>1, <1>k, <2>1, <2>9
    <3>2. t[i + 1] = s[(i + 1) + 1] /\ f[i] = g[i + 1] - s[k]
      BY <2>3, <2>4, <3>1
    <3>3. \A x, y, z, u, v, w, d \in Int :
             x = y + z /\ v = w + u /\ z = u /\ y = w - d => x = v - d
      OBVIOUS
    <3>4. /\ f[i + 1] \in Int /\ f[i] \in Int /\ t[i + 1] \in Int /\ s[(i + 1) + 1] \in Int
          /\ g[(i + 1) + 1] \in Int /\ g[i + 1] \in Int /\ s[k] \in Int
      <4>1. Nat \subseteq Int
        OBVIOUS
      <4>2. s[k] \in Nat
        BY <1>1
      <4> QED BY <2>5, <2>6, <3>2, <4>1, <4>2, Zenon
    <3>5. f[i + 1] = g[(i + 1) + 1] - s[k]
      BY <2>2, <3>2, <3>3, <3>4
    <3> QED BY <2>1, <3>1, <3>5
  <2> QED BY <2>1, <2>7, <2>8, <2>9, <1>k, <1>1
<1> HIDE DEF I
<1>10. n - 1 \in Nat
  BY <1>1, <1>k
<1>11. 0..(n - 1) \subseteq I
  BY <1>8, <1>9, <1>10, UpTo
<1>12. n - 1 \in I
  BY <1>10, <1>11
<1>13. f[n - 1] = g[n] - s[k]
  <2>1. f[n - 1] = IF n - 1 < k THEN g[n - 1] ELSE g[(n - 1) + 1] - s[k]
    BY <1>12 DEF I
  <2>2. (n - 1) + 1 = n /\ n - 1 \in 0..(n - 1) /\ n - 1 \in 0..n /\ n \in 0..n
    BY <1>1, <1>10
  <2>3. g[n] = g[n - 1] + s[n] /\ g[n - 1] \in Nat /\ g[n] \in Nat
    BY <1>4, <2>2
  <2>4. n - 1 < k => k = n
    BY <1>1, <1>k
  <2> QED BY <1>1, <2>1, <2>2, <2>3, <2>4
<1>14. g[n] \in Nat
  BY <1>1, <1>4
<1> QED BY <1>3, <1>6, <1>13, <1>14 DEF t

(* The sums grow.                                                             *)
LEMMA SumsGrow ==
  ASSUME NEW s \in Seq(Nat), NEW g, IsSums(g, s, Len(s)), NEW i \in 0..Len(s)
  PROVE  \A j \in 0..Len(s) : i <= j => g[i] <= g[j]
<1> DEFINE n == Len(s)
           I == {j \in 0..n : i <= j => g[i] <= g[j]}
<1>1. n \in Nat /\ \A j \in 1..n : s[j] \in Nat
  BY LenProperties, ElementOfSeq
<1>2. g \in [0..n -> Nat] /\ \A j \in 0..(n - 1) : g[j + 1] = g[j] + s[j + 1]
  BY DEF IsSums
<1>i. i \in 0..n
  OBVIOUS
<1> HIDE DEF n
<1>3. 0 \in I
  BY <1>1, <1>2, <1>i
<1>4. ASSUME NEW j \in 0..n, j < n, j \in I PROVE j + 1 \in I
  <2>1. j \in 0..(n - 1) /\ j + 1 \in 1..n /\ j + 1 \in 0..n
    BY <1>1, <1>4
  <2>2. g[j + 1] = g[j] + s[j + 1] /\ g[j] \in Nat /\ g[j + 1] \in Nat
        /\ s[j + 1] \in Nat /\ g[i] \in Nat
    BY <1>1, <1>2, <1>i, <2>1
  <2>3. CASE i <= j
    <3>1. g[i] <= g[j]
      BY <1>4, <2>3
    <3>2. g[i] <= g[j + 1]
      BY <2>2, <3>1
    <3> QED BY <2>1, <3>2
  <2>4. CASE i = j + 1
    BY <2>1, <2>2, <2>4
  <2>5. CASE i > j + 1
    BY <1>i, <2>1, <2>5
  <2> QED BY <1>i, <2>1, <2>3, <2>4, <2>5
<1> HIDE DEF I
<1>5. 0..n \subseteq I
  BY <1>1, <1>3, <1>4, UpTo
<1> QED BY <1>5 DEF I, n

(* Every number below the sum lies in one of the parts.                       *)
LEMMA SumsCover ==
  ASSUME NEW s \in Seq(Nat), NEW g, IsSums(g, s, Len(s)), NEW x \in Nat, x < g[Len(s)]
  PROVE  \E i \in 1..Len(s) : g[i - 1] <= x /\ x < g[i]
<1> DEFINE n == Len(s)
           I == {j \in 0..n : x < g[j] => \E i \in 1..j : g[i - 1] <= x /\ x < g[i]}
<1>1. n \in Nat
  BY LenProperties
<1>2. g \in [0..n -> Nat] /\ g[0] = 0
  BY DEF IsSums
<1>x. x < g[n]
  OBVIOUS
<1> HIDE DEF n
<1>3. 0 \in I
  BY <1>1, <1>2
<1>4. ASSUME NEW j \in 0..n, j < n, j \in I PROVE j + 1 \in I
  <2>1. j + 1 \in 0..n /\ j \in Nat /\ (j + 1) - 1 = j /\ j + 1 \in 1..(j + 1)
        /\ \A i \in 1..j : i \in 1..(j + 1)
    BY <1>1, <1>4
  <2>2. g[j] \in Nat
    BY <1>2
  <2>3. CASE x < g[j]
    <3>1. PICK i \in 1..j : g[i - 1] <= x /\ x < g[i]
      BY <1>4, <2>3
    <3>2. i \in 1..(j + 1)
      BY <2>1
    <3> QED BY <2>1, <3>1, <3>2
  <2>4. CASE ~(x < g[j])
    <3>1. g[j] <= x
      BY <2>2, <2>4
    <3> QED BY <2>1, <3>1
  <2> QED BY <2>3, <2>4
<1> HIDE DEF I
<1>5. 0..n \subseteq I
  BY <1>1, <1>3, <1>4, UpTo
<1>6. n \in I
  BY <1>1, <1>5
<1> QED BY <1>6, <1>x DEF I, n
=============================================================================
