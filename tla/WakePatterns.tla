---------------------------- MODULE WakePatterns ----------------------------
(***************************************************************************)
(* The wake-up patterns of the PCnet driver (REQUEST.C, LANCE.C, the parts *)
(* built with NDIS50_PLUS): NDIS registers packet patterns, the driver     *)
(* translates each into words of the controller's pattern memory, finds    *)
(* room for them in its copy of that memory, and copies everything to the  *)
(* controller when the adapter goes to sleep.                              *)
(*                                                                         *)
(* A block of the memory is a record [start, size].  The lists of blocks   *)
(* keep their order, which decides the first fit; of the unused blocks     *)
(* only their number matters.  A word stands for the four data bytes of    *)
(* one address and its control byte.                                       *)
(*                                                                         *)
(* Names that PcnetAdapter has as well carry a prefix here, as in          *)
(* PatternInit and PatternSpec: proofs extend both modules together.       *)
(***************************************************************************)
EXTENDS Integers, Sequences, FiniteSets, SequencesExt, FiniteSetsExt

CONSTANTS
  Pattern,              \* the packet patterns NDIS may register
  Mask,                 \* per pattern: one mask of four bits per four bytes
  MaxSkip,              \* the largest skip a control byte holds (7)
  MAX_PMR_ADDRESS,      \* words of the pattern memory (64)
  BASE_PM_START_ADDRESS,\* the first words hold the slots (2)
  MAX_ALLOWED_PATTERN,  \* slots (8)
  MAX_BLOCKS            \* block descriptors of the driver (20)

ASSUME SizesAssumption ==
  /\ MaxSkip \in Nat
  /\ BASE_PM_START_ADDRESS \in Nat \ {0} /\ MAX_PMR_ADDRESS \in Nat
  /\ BASE_PM_START_ADDRESS < MAX_PMR_ADDRESS
  /\ MAX_ALLOWED_PATTERN \in Nat /\ MAX_BLOCKS \in Nat \ {0}
ASSUME MaskAssumption == Mask \in [Pattern -> Seq(0..15)]

VARIABLES
  ram,          \* pmRAM without the slots: a word for each address
  slotAddress,  \* the addresses in the first words, 0 when cleared
  slotOn,       \* the slots whose bit is set in PatternControl[0]
  patternList,  \* blocks that hold a pattern
  freeList,     \* free blocks
  pool,         \* number of blocks on pmBlockPool
  totalPMRUsed,
  wakeUpMode,   \* Adapter->WakeUpMode, all modes or none
  pmMode,       \* PM_MODE of OpFlags: the adapter sleeps
  watching,     \* what the sleeping controller compares, pattern by pattern
  registered,   \* history: the patterns NDIS registered, in order
  moved,        \* history: DefragmentPMR has moved a block
  overdrawn     \* history: a block was taken from the empty pool

memory == <<ram, slotAddress, slotOn, patternList, freeList, pool,
            totalPMRUsed, registered, moved, overdrawn>>
power == <<wakeUpMode, pmMode, watching>>
patternVars == <<memory, power>>

Slots == 0 .. MAX_ALLOWED_PATTERN - 1
Addresses == BASE_PM_START_ADDRESS .. MAX_PMR_ADDRESS - 1
Zero == [data |-> <<>>, skip |-> 0, mask |-> 0, end |-> FALSE]

-----------------------------------------------------------------------------
(* Translation of a pattern.                                               *)

\* Mutant of NextWord: the skip is not reset after a word.
SkipKept(s, p, i) ==
  IF Mask[p][i] # 0 \/ s.skip = MaxSkip
    THEN [s EXCEPT !.words = Append(s.words,
            [data |-> <<p, i>>, skip |-> s.skip,
             mask |-> Mask[p][i], end |-> FALSE])]
    ELSE [s EXCEPT !.skip = @ + 1]

\* One group of four bytes: a word when the mask selects one of them or the
\* skip is at its largest, otherwise one more group to skip.  The bytes past
\* the end of a pattern are masked out, so that leaving the loop at an
\* incomplete last group changes nothing.
NextWord(s, p, i) ==
  IF Mask[p][i] # 0 \/ s.skip = MaxSkip
    THEN [skip |-> 0,
          words |-> Append(s.words, [data |-> <<p, i>>, skip |-> s.skip,
                                     mask |-> Mask[p][i], end |-> FALSE])]
    ELSE [s EXCEPT !.skip = @ + 1]

\* The last word carries the end mark.
EndMarked(words) ==
  IF words = <<>> THEN words ELSE [words EXCEPT ![Len(words)].end = TRUE]

\* The words of a pattern; none when the pattern is refused.
LanceTranslatePattern(p) ==
  LET after[i \in 0 .. Len(Mask[p])] ==
        IF i = 0 THEN [skip |-> 0, words |-> <<>>]
                 ELSE NextWord(after[i - 1], p, i)
  IN  EndMarked(after[Len(Mask[p])].words)

\* What the controller compares when it reads the words from an address on:
\* the position of each group, its mask and the data.  Reading stops at the
\* end mark or the end of the memory.
Compared(from) ==
  LET ends == {a \in Addresses : a >= from /\ ram[a].end}
      last == IF ends = {} THEN MAX_PMR_ADDRESS - 1 ELSE Min(ends)
      position[a \in (from - 1) .. last] ==
        IF a = from - 1 THEN 0 ELSE position[a - 1] + ram[a].skip + 1
  IN  {<<position[a], ram[a].mask, ram[a].data>> :
         a \in {b \in from .. last : ram[b].mask # 0}}

\* What NDIS asked for.
Wanted(p) == {<<i, Mask[p][i], <<p, i>> >> :
                i \in {k \in DOMAIN Mask[p] : Mask[p][k] # 0}}

-----------------------------------------------------------------------------
(* The lists of blocks.                                                    *)

Span(b) == b.start .. b.start + b.size - 1

\* The index of the first block that is large enough, 0 when there is none.
FindFirstFitBlock(list, usedSize) ==
  LET fits == {i \in DOMAIN list : list[i].size >= usedSize}
  IN  IF fits = {} THEN 0 ELSE Min(fits)

\* Mutant of Rest: the free block only shrinks.
OnlyShrinks(found, size) == [found EXCEPT !.size = @ - size]

\* What is left of a free block whose first words hold a pattern.
Rest(found, size) == [start |-> found.start + size, size |-> found.size - size]

\* The index of the first block that holds exactly these words, 0 for none.
FindPattern(words) ==
  LET same == {i \in DOMAIN patternList :
                 /\ patternList[i].size = Len(words)
                 /\ \A k \in DOMAIN words :
                      ram[patternList[i].start + k - 1] = words[k]}
  IN  IF same = {} THEN 0 ELSE Min(same)

\* The driver's state after DefragmentPMR, which packs the patterns in the
\* order of the list and keeps one free block.  It gives a block its new
\* address before it copies the block, so it copies what lies at the new
\* address.
DefragmentPMR ==
  LET start[i \in 1 .. Len(patternList) + 1] ==
        IF i = 1 THEN BASE_PM_START_ADDRESS
                 ELSE start[i - 1] + patternList[i - 1].size
      packed == [i \in DOMAIN patternList |->
                   [patternList[i] EXCEPT !.start = start[i]]]
      used == start[Len(patternList) + 1]
  IN  [ram |-> [a \in Addresses |-> IF a < used THEN ram[a] ELSE Zero],
       slotAddress |-> [i \in Slots |->
                          IF i < Len(packed) THEN packed[i + 1].start ELSE 0],
       slotOn |-> {i \in Slots : i < Len(packed)},
       patternList |-> packed,
       freeList |-> <<[start |-> used, size |-> MAX_PMR_ADDRESS - used]>>,
       pool |-> pool + Len(freeList) - 1,
       moved |-> moved \/ packed # patternList]

Current == [ram |-> ram, slotAddress |-> slotAddress, slotOn |-> slotOn,
            patternList |-> patternList, freeList |-> freeList,
            pool |-> pool, moved |-> moved]

-----------------------------------------------------------------------------
\* Mutant of FreeSlot: slots are taken in order, those cleared by a removal
\* are not looked for.
NextSlot(on) == Cardinality(on)

\* The first slot whose bit is clear.
FreeSlot(on) == Min(Slots \ on)

\* The memory after LanceInitPMR.
LanceInitPMR ==
  [ram |-> [a \in Addresses |-> Zero],
   slotAddress |-> [i \in Slots |-> 0],
   slotOn |-> {},
   patternList |-> <<>>,
   freeList |-> <<[start |-> BASE_PM_START_ADDRESS,
                   size |-> MAX_PMR_ADDRESS - BASE_PM_START_ADDRESS]>>,
   pool |-> MAX_BLOCKS - 1,
   moved |-> FALSE]

PatternInit ==
  /\ ram = LanceInitPMR.ram
  /\ slotAddress = LanceInitPMR.slotAddress
  /\ slotOn = {}
  /\ patternList = <<>>
  /\ freeList = LanceInitPMR.freeList
  /\ pool = LanceInitPMR.pool
  /\ moved = FALSE
  /\ overdrawn = FALSE
  /\ totalPMRUsed = 0
  /\ registered = <<>>
  /\ wakeUpMode = FALSE
  /\ pmMode = FALSE
  /\ watching = {}

\* The words of p go to the first words of the k-th free block of the state
\* s, and the first slot whose bit is clear names them.
PutWords(s, k, p) ==
  LET words == LanceTranslatePattern(p)
      found == s.freeList[k]
      block == [start |-> found.start, size |-> Len(words)]
  IN  /\ freeList' = IF found.size > Len(words)
                       THEN [s.freeList EXCEPT ![k] = Rest(@, Len(words))]
                       ELSE RemoveAt(s.freeList, k)
      /\ ram' = [a \in Addresses |->
                   IF a \in Span(block) THEN words[a - block.start + 1]
                                        ELSE s.ram[a]]
      /\ patternList' = Append(s.patternList, block)
      /\ slotOn' = s.slotOn \cup {FreeSlot(s.slotOn)}
      /\ totalPMRUsed' = totalPMRUsed + Len(words)
      /\ registered' = Append(registered, p)
      /\ moved' = s.moved

\* A larger block is split, which takes a block from the pool.
Splits(s, k, p) == s.freeList[k].size > Len(LanceTranslatePattern(p))

StorePattern(s, k, p) ==
  /\ Splits(s, k, p) => s.pool > 0
  /\ PutWords(s, k, p)
  /\ pool' = IF Splits(s, k, p) THEN s.pool - 1 ELSE s.pool
  /\ slotAddress' =
       [s.slotAddress EXCEPT ![FreeSlot(s.slotOn)] = s.freeList[k].start]
  /\ UNCHANGED overdrawn

\* The driver does not look whether the pool is empty.  Then RemoveHeadList
\* gives it the head of the pool for a block: start and size, four bytes each,
\* are written over the slots, which lie behind the head, and the head goes to
\* the pattern list, which links that list into the pool.
OverdrawPool(s, k, p) ==
  LET start == s.freeList[k].start
      block == [n \in Slots |-> CASE n = 0 -> start
                                  [] n = 4 -> Len(LanceTranslatePattern(p))
                                  [] OTHER -> 0]
  IN  /\ Splits(s, k, p) /\ s.pool = 0
      /\ PutWords(s, k, p)
      /\ slotAddress' = [block EXCEPT ![FreeSlot(s.slotOn)] = start]
      /\ pool' = 0
      /\ overdrawn' = TRUE

\* No free block is large enough but the free words are: DefragmentPMR.
MustDefragment(size) ==
  /\ FindFirstFitBlock(freeList, size) = 0
  /\ totalPMRUsed + size <= MAX_PMR_ADDRESS - BASE_PM_START_ADDRESS

\* OID_PNP_ADD_WAKE_UP_PATTERN.  A refused pattern changes nothing.  Once the
\* pool is overdrawn the lists run into each other; what additions and removals
\* then do, until the next LanceInitPMR, is not followed.
LanceAddWakeUpPattern(p) ==
  LET size == Len(LanceTranslatePattern(p))
      s == IF MustDefragment(size) THEN DefragmentPMR ELSE Current
      k == FindFirstFitBlock(s.freeList, size)
  IN  /\ ~pmMode /\ ~overdrawn
      /\ size > 0
      /\ Len(patternList) < MAX_ALLOWED_PATTERN
      /\ k # 0
      /\ StorePattern(s, k, p) \/ OverdrawPool(s, k, p)
      /\ UNCHANGED power

\* OID_PNP_REMOVE_WAKE_UP_PATTERN: the first slot with the address of the
\* block is cleared; the block goes to the end of the free list as it is.
LanceRemoveWakeUpPattern(p) ==
  LET words == LanceTranslatePattern(p)
      i == FindPattern(words)
      block == patternList[i]
      named == {n \in Slots : slotAddress[n] = block.start}
  IN  /\ ~pmMode /\ ~overdrawn
      /\ words # <<>>
      /\ i # 0
      /\ IF named = {}
           THEN UNCHANGED <<slotOn, slotAddress>>
           ELSE /\ slotOn' = slotOn \ {Min(named)}
                /\ slotAddress' = [slotAddress EXCEPT ![Min(named)] = 0]
      /\ patternList' = RemoveAt(patternList, i)
      /\ freeList' = Append(freeList, block)
      /\ totalPMRUsed' = totalPMRUsed - Len(words)
      /\ registered' =
           LET at == {n \in DOMAIN registered : registered[n] = p}
           IN  IF at = {} THEN registered ELSE RemoveAt(registered, Min(at))
      /\ UNCHANGED <<ram, pool, moved, overdrawn, power>>

\* OID_PNP_ENABLE_WAKE_UP: every mode is enabled whatever NDIS asks for.
LanceEnableWakeUp ==
  /\ ~pmMode
  /\ wakeUpMode' = TRUE
  /\ UNCHANGED <<memory, pmMode, watching>>

\* LanceEnablePatternMatch: the memory is copied to the controller.  A slot
\* that was written over may name the words that hold the slots, or none.
LanceEnablePatternMatch ==
  {Compared(slotAddress[i]) : i \in {n \in slotOn : slotAddress[n] \in Addresses}}

\* OID_PNP_SET_POWER to a low-power state.
GoToSleep ==
  /\ pmMode' = TRUE
  /\ watching' = IF wakeUpMode THEN LanceEnablePatternMatch ELSE {}
  /\ UNCHANGED <<memory, wakeUpMode>>

\* OID_PNP_SET_POWER to D0, or a filter or multicast request that finds the
\* adapter asleep.
Wake ==
  /\ pmMode' = FALSE
  /\ wakeUpMode' = FALSE
  /\ watching' = {}
  /\ UNCHANGED memory

\* LanceReset initialises the pattern memory, and with it forgets every
\* pattern NDIS has registered.
ForgetPatterns ==
  /\ ~pmMode
  /\ ram' = LanceInitPMR.ram
  /\ slotAddress' = LanceInitPMR.slotAddress
  /\ slotOn' = {}
  /\ patternList' = <<>>
  /\ freeList' = LanceInitPMR.freeList
  /\ pool' = LanceInitPMR.pool
  /\ moved' = FALSE
  /\ overdrawn' = FALSE
  /\ totalPMRUsed' = 0
  /\ registered' = <<>>
  /\ UNCHANGED power

PatternNext ==
  \/ \E p \in Pattern : LanceAddWakeUpPattern(p) \/ LanceRemoveWakeUpPattern(p)
  \/ LanceEnableWakeUp \/ GoToSleep \/ Wake \/ ForgetPatterns

PatternSpec == PatternInit /\ [][PatternNext]_patternVars

-----------------------------------------------------------------------------
PatternTypeOK ==
  /\ ~overdrawn =>
       /\ \A i \in DOMAIN patternList : Span(patternList[i]) \subseteq Addresses
       /\ \A i \in DOMAIN freeList : Span(freeList[i]) \subseteq Addresses
       /\ pool \in 0 .. MAX_BLOCKS - 1
       /\ slotOn \subseteq Slots
  /\ wakeUpMode \in BOOLEAN /\ pmMode \in BOOLEAN /\ overdrawn \in BOOLEAN

\* As long as the pool has lasted, every word of the memory belongs to exactly
\* one block, and the count that decides whether defragmentation makes room is
\* exact, through any sequence of additions, removals and defragmentations: a
\* pattern never overwrites another, and no word and no block is lost.
WordsOwnedOnce ==
  LET blocks == patternList \o freeList
  IN  ~overdrawn =>
        /\ \A a \in Addresses :
             Cardinality({i \in DOMAIN blocks : a \in Span(blocks[i])}) = 1
        /\ totalPMRUsed = FoldLeft(LAMBDA m, n : m + n, 0,
                                   [i \in DOMAIN patternList |-> patternList[i].size])
        /\ pool + Len(blocks) = MAX_BLOCKS

\* As long as no block was moved and the pool has lasted, each registered
\* pattern can be found again and is named by one enabled slot, and no slot
\* names anything else: a removed pattern no longer wakes the machine.
PatternsFound ==
  ~moved /\ ~overdrawn =>
    /\ Len(patternList) = Len(registered)
    /\ \A i \in DOMAIN registered :
         FindPattern(LanceTranslatePattern(registered[i])) # 0
    /\ Cardinality(slotOn) = Len(patternList)
    /\ {slotAddress[n] : n \in slotOn} = {b.start : b \in ToSet(patternList)}

\* What the sleeping controller compares is what NDIS registered, as long as no
\* block was moved and the pool has lasted: the skips and masks of the words
\* say the same as the masks of the patterns.
WatchesRegistered ==
  pmMode /\ wakeUpMode /\ ~moved /\ ~overdrawn =>
    watching = {Wanted(p) : p \in ToSet(registered)}

\* The comments on MAX_BLOCKS and pmBlockPool (LANCESFT.H:211, 242): there are
\* descriptors for all blocks, used and unused.  A removed pattern's block is
\* never joined with its neighbours, so that adding and removing one short
\* pattern again and again empties the pool.
PoolSuffices == ~overdrawn

\* As long as the pool has lasted only a moved block makes the controller
\* compare something else than NDIS registered; an overdrawn pool does so too.
SlotsSurvive ==
  pmMode /\ wakeUpMode /\ ~moved =>
    watching = {Wanted(p) : p \in ToSet(registered)}

\* The description of DefragmentPMR (REQUEST.C:2968): it modifies the
\* address, data and control fields, so the patterns stay what they were.
DefragmentKeepsPatterns ==
  pmMode /\ wakeUpMode =>
    watching = {Wanted(p) : p \in ToSet(registered)}

\* The comment on MAX_BLOCKS (LANCESFT.H:212): there is at most one free
\* block more than there are patterns.
FreeBlocksBounded == Len(freeList) <= Len(patternList) + 1
=============================================================================
