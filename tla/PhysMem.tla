------------------------------ MODULE PhysMem ------------------------------
(***************************************************************************)
(* CPhysMem (DRIVERS/HCD/cphysmem.cpp): the allocator of the memory that   *)
(* the host controller can reach.  The memory is two adjacent regions, one *)
(* for high priority (isochronous) requests, and each has a list of free   *)
(* blocks in order of size and a list of blocks in use.                    *)
(*                                                                         *)
(* m_csLock makes a call one step, except that a high priority request     *)
(* which finds no block gives the lock up before it tries the other        *)
(* region.  No caller in the driver blocks for memory, so the wait of      *)
(* AllocateMemory is left out, and so is a failure of LocalAlloc.          *)
(***************************************************************************)
EXTENDS Integers, SequencesExt, FiniteSetsExt

CONSTANTS Align,      \* CPHYSMEM_MEMORY_ALIGNMENT
          HighSize,   \* m_dwHighPrioritySize
          NormalSize, \* m_dwNormalSize
          Clients,    \* threads that allocate
          Requests    \* bound: the sizes in bytes they ask for

ASSUME PhysMemAssumption == /\ Align \in Nat \ {0}
                            /\ HighSize \in Nat \ {0}
                            /\ NormalSize \in Nat \ {0}
                            /\ HighSize % Align = 0
                            /\ NormalSize % Align = 0
                            /\ Requests \subseteq Nat \ {0}

VARIABLES free,    \* the free list of a region
          used,    \* the in-use list of a region, whose order has no effect
          falling  \* the size of a client's high priority request that found
                   \* no block in its region, or 0

memoryVars == <<free, used, falling>>

Regions == {"high", "normal"}
Base(r) == IF r = "high" THEN 0 ELSE HighSize
Top(r)  == IF r = "high" THEN HighSize ELSE HighSize + NormalSize

Blocks == [addr : Nat, size : Nat \ {0}]
Block(a, n) == [addr |-> a, size |-> n]
End(b)  == b.addr + b.size       \* MEMLIST_NEXT_PA
Whole(r) == Block(Base(r), Top(r) - Base(r))

(* The constructor, and ReInit when the driver is rebuilt.                  *)
MemoryInit == /\ free = [r \in Regions |-> <<Whole(r)>>]
              /\ used = [r \in Regions |-> {}]
              /\ falling = [c \in Clients |-> 0]
-----------------------------------------------------------------------------
(* A request in bytes, rounded up.                                          *)
Rounded(n) == ((n - 1) \div Align) * Align + Align

(* AddNodeToFreeList: a free block that ends where the node begins is taken
   off the list and becomes the front of the node, one that begins where the
   node ends becomes its back, and the node goes before the first block that
   is not smaller.                                                          *)
Before(l, b) == {k \in 1..Len(l) : End(l[k]) = b.addr}
Behind(l, b) == {k \in 1..Len(l) : l[k].addr = End(b)}
Pick(K)      == CHOOSE k \in K : TRUE

Without(l, K)      == IF K = {} THEN l ELSE RemoveAt(l, Pick(K))
WithFront(l, K, b) == IF K = {} THEN b ELSE Block(l[Pick(K)].addr, l[Pick(K)].size + b.size)

(* A defect: the free block behind the node is deleted, its size forgotten. *)
WithBackLost(l, K, b) == b
WithBack(l, K, b) == IF K = {} THEN b ELSE Block(b.addr, b.size + l[Pick(K)].size)

(* A defect: the list is searched from its large end.                       *)
PlaceAtFront(l, b) == 1
Place(l, b) == LET K == {k \in 1..Len(l) : b.size <= l[k].size}
               IN  IF K = {} THEN Len(l) + 1 ELSE Min(K)

Sorted(l, b) == InsertAt(l, Place(l, b), b)

(* A defect: a node is merged with the block before it only.                *)
AddNodeFrontOnly(l, b) ==
    LET front == Before(l, b)
    IN  Sorted(Without(l, front), WithFront(l, front, b))

AddNodeToFreeList(l, b) ==
    LET front == Before(l, b)
        l1    == Without(l, front)
        b1    == WithFront(l, front, b)
        back  == Behind(l1, b1)
    IN  Sorted(Without(l1, back), WithBack(l1, back, b1))

(* FindFreeBlock: the first block of the list that is large enough.         *)
Fitting(r, n) == {k \in 1..Len(free[r]) : n <= free[r][k].size}

(* A defect: a block that fits exactly is split all the same.               *)
SplitsAlways(b, n) == TRUE
Splits(b, n) == b.size - n >= Align

Take(r, n) ==
    /\ Fitting(r, n) # {}
    /\ LET k    == Min(Fitting(r, n))
           b    == free[r][k]
           rest == RemoveAt(free[r], k)
       IN  IF Splits(b, n)
           THEN /\ free' = [free EXCEPT ![r] =
                              AddNodeToFreeList(rest, Block(b.addr + n, b.size - n))]
                /\ used' = [used EXCEPT ![r] = @ \cup {Block(b.addr, n)}]
           ELSE /\ free' = [free EXCEPT ![r] = rest]
                /\ used' = [used EXCEPT ![r] = @ \cup {b}]
-----------------------------------------------------------------------------
Calling(c) == falling[c] = 0

(* AllocateMemory: the first region, by priority.  A request of normal
   priority that fails returns FALSE and leaves no trace.                   *)
AllocateMemory(c, r, n) ==
    /\ Calling(c)
    /\ Take(r, Rounded(n))
    /\ UNCHANGED falling

AllocateFails(c, n) ==
    /\ Calling(c)
    /\ Fitting("high", Rounded(n)) = {}
    /\ falling' = [falling EXCEPT ![c] = n]
    /\ UNCHANGED <<free, used>>

(* The second attempt, in the normal region, with or without success.       *)
AllocateAgain(c) ==
    /\ ~Calling(c)
    /\ falling' = [falling EXCEPT ![c] = 0]
    /\ \/ Take("normal", Rounded(falling[c]))
       \/ Fitting("normal", Rounded(falling[c])) = {} /\ UNCHANGED <<free, used>>

(* FreeMemory: a block that was asked for with high priority is looked for in
   the high priority region first, and then in the normal one; nobody else
   frees it in between.                                                     *)
FreeMemory(r, b) ==
    /\ b \in used[r]
    /\ used' = [used EXCEPT ![r] = @ \ {b}]
    /\ free' = [free EXCEPT ![r] = AddNodeToFreeList(@, b)]
    /\ UNCHANGED falling

(* ReInit makes new lists; the driver has been taken down by then.          *)
ReInit ==
    /\ \A c \in Clients : Calling(c)
    /\ free' = [r \in Regions |-> <<Whole(r)>>]
    /\ used' = [r \in Regions |-> {}]
    /\ UNCHANGED falling
-----------------------------------------------------------------------------
MemoryNext == \/ \E c \in Clients, n \in Requests :
                    \/ \E r \in Regions : AllocateMemory(c, r, n)
                    \/ AllocateFails(c, n)
              \/ \E c \in Clients : AllocateAgain(c)
              \/ \E r \in Regions : \E b \in used[r] : FreeMemory(r, b)
              \/ ReInit

MemorySpec == MemoryInit /\ [][MemoryNext]_memoryVars
-----------------------------------------------------------------------------
(* Types: no block is ever empty.                                           *)
MemoryTypeOK == /\ free \in [Regions -> Seq(Blocks)]
                /\ used \in [Regions -> SUBSET Blocks]
                /\ falling \in [Clients -> Nat]

Listed(r) == ToSet(free[r]) \cup used[r]
Disjoint(b, c) == End(b) <= c.addr \/ End(c) <= b.addr

(* The free blocks and the blocks in use of a region tile it: no two of them
   overlap, none leaves its region, and no memory is lost, through all the
   splitting and merging.  It implies the total that ValidateHeaps adds up
   (cphysmem.cpp:297) and that no two transfers share memory.                *)
Tiling == \A r \in Regions :
            /\ \A b \in Listed(r) : Base(r) <= b.addr /\ End(b) <= Top(r)
            /\ \A b, c \in Listed(r) : b # c => Disjoint(b, c)
            /\ \A a \in Base(r)..(Top(r) - 1) :
                 \E b \in Listed(r) : b.addr <= a /\ a < End(b)
            /\ \A i, j \in 1..Len(free[r]) : i # j => Disjoint(free[r][i], free[r][j])
            /\ ToSet(free[r]) \cap used[r] = {}

(* Memory is not fragmented beyond need: a stretch without blocks in use lies
   in one free block, so that a request is refused only when no stretch is
   long enough.                                                              *)
Coalesced == \A r \in Regions : \A lo, hi \in Base(r)..Top(r) :
    lo < hi /\ (\A b \in used[r] : hi <= b.addr \/ End(b) <= lo)
        => \E k \in 1..Len(free[r]) : free[r][k].addr <= lo /\ hi <= End(free[r][k])

(* Best fit: the free list is in order of size, as ValidateHeaps checks
   (cphysmem.cpp:250), so that the first block that fits is the smallest.    *)
SortedBySize == \A r \in Regions : \A i, j \in 1..Len(free[r]) :
                   i < j => free[r][i].size <= free[r][j].size
=============================================================================
