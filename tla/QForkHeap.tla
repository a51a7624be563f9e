----------------------------- MODULE QForkHeap -----------------------------
(* The memory-mapped heap of Win32_QFork.cpp: an array of blocks of          *)
(* cAllocationGranularity bytes that AllocHeapBlock maps on demand and       *)
(* FreeHeapBlock gives back without unmapping.  The operators work on the    *)
(* fields of QForkControl that describe the heap, as a record h.             *)
EXTENDS Integers, FiniteSets, FiniteSetsExt

CONSTANT maxAvailableBlocks

ASSUME BlocksAssumption == maxAvailableBlocks \in Nat \ {0}

Blocks == 0 .. maxAvailableBlocks - 1
BlockState == {"UNMAPPED", "MAPPED_IN_USE", "MAPPED_FREE"}

(* QForkParentInit: every block is reserved and unmapped. *)
HeapInit == [state |-> [i \in Blocks |-> "UNMAPPED"], numMappedBlocks |-> 0, blockSearchStart |-> 0]

HeapType == [state : [Blocks -> BlockState], numMappedBlocks : 0 .. maxAvailableBlocks,
             blockSearchStart : 0 .. maxAvailableBlocks]

Unused(h, i) == h.state[i] \in {"UNMAPPED", "MAPPED_FREE"}

(* The search stops before maxAvailableBlocks - n: the last block is never   *)
(* handed out.                                                               *)
Fits(h, n) == {s \in h.blockSearchStart .. maxAvailableBlocks - n - 1 :
                   \A i \in s .. s + n - 1 : Unused(h, i)}

(* AllocHeapBlock: the first n contiguous unused blocks; there is no room    *)
(* when Fits is empty.                                                       *)
AllocStart(h, n) == Min(Fits(h, n))

AllocHeapBlock(h, n) ==
    LET s == AllocStart(h, n)
    IN  [state |-> [i \in Blocks |-> IF i \in s .. s + n - 1 THEN "MAPPED_IN_USE" ELSE h.state[i]],
         numMappedBlocks |-> h.numMappedBlocks
             + Cardinality({i \in s .. s + n - 1 : h.state[i] = "UNMAPPED"}),
         blockSearchStart |-> IF s = h.blockSearchStart THEN s + n ELSE h.blockSearchStart]

(* A search that would begin past the blocks in front of blockSearchStart    *)
(* that were freed later.                                                    *)
FreeHeapBlockKeepsSearch(h, s, n) ==
    [h EXCEPT !.state = [i \in Blocks |-> IF i \in s .. s + n - 1 THEN "MAPPED_FREE" ELSE @[i]]]

(* FreeHeapBlock refuses an empty range and one that begins behind the       *)
(* blocks that were mapped so far.                                           *)
CanFree(h, s, n) == n > 0 /\ s < h.numMappedBlocks

FreeHeapBlock(h, s, n) ==
    [h EXCEPT !.state = [i \in Blocks |-> IF i \in s .. s + n - 1 THEN "MAPPED_FREE" ELSE @[i]],
              !.blockSearchStart = IF @ > s THEN s ELSE @]
=============================================================================
