-------------------------------- MODULE Memory --------------------------------
(***************************************************************************)
(* The allocator of asx/src/mem.c.  The start-up code fills the heap with  *)
(* 0xaa, from the end of the variables (address 0 here) up to where the    *)
(* stack is; blocks are given out upwards and never back, the stack grows  *)
(* downwards, and mem_calloc stops the program when a byte of the block or *)
(* of the guard above it is not 0xaa any more.                             *)
(***************************************************************************)
EXTENDS Integers

CONSTANTS
    HeapSize,   \* HEAP_SIZE: the bytes filled with 0xaa
    BlockSizes, \* the sizes allocated
    Guard       \* HEAP_STACK_GUARD

ASSUME MemoryAssumption ==
    /\ HeapSize \in Nat
    /\ BlockSizes \subseteq Nat \ {0}
    /\ Guard \in Nat \ {0}

VARIABLES
    nextBlock,  \* _heap_allocation_next_block
    filled,     \* the bytes that hold 0xaa
    depth,      \* not in the code: the lowest byte the stack has reached
    failed      \* the assertion failed

memoryVars == <<nextBlock, filled, depth, failed>>

Heap == 0..(HeapSize - 1)

(* _mem_stack_init; the stack of the start-up code is above the heap *)
MemoryInit ==
    /\ nextBlock = 0
    /\ filled = Heap
    /\ depth = HeapSize
    /\ failed = FALSE

(* Mutant: the guard is not looked at *)
CheckedBlockOnly(n) == nextBlock..(nextBlock + n - 1)

(* the bytes mem_calloc looks at for a block of n *)
Checked(n) == nextBlock..(nextBlock + n + Guard - 1)

(* mem_calloc: the block is cleared *)
Alloc(n) ==
    /\ ~failed
    /\ Checked(n) \subseteq filled
    /\ nextBlock' = nextBlock + n
    /\ filled' = filled \ (nextBlock..(nextBlock + n - 1))
    /\ UNCHANGED <<depth, failed>>

(* mem_calloc: alert_and_stop_if *)
AllocRefused(n) ==
    /\ ~failed
    /\ ~(Checked(n) \subseteq filled)
    /\ failed' = TRUE
    /\ nextBlock' = nextBlock + n
    /\ UNCHANGED <<filled, depth>>

(* A call takes the stack down to d and writes some bytes of its frame.    *)
(* Assumption: from the lowest byte it has reached on, the bytes that no   *)
(* frame wrote to lie in runs shorter than the guard.  Nothing keeps the   *)
(* stack off the blocks once they are allocated.                           *)
Grow(d, written) ==
    /\ ~failed
    /\ d < depth
    /\ depth' = d
    /\ filled' = filled \ written
    /\ \A a \in d..(HeapSize - 1) : ~((a..(a + Guard - 1)) \subseteq filled')
    /\ UNCHANGED <<nextBlock, failed>>

MemoryNext ==
    \/ \E n \in BlockSizes : Alloc(n) \/ AllocRefused(n)
    \/ \E d \in Heap : \E written \in SUBSET (d..(depth - 1)) : Grow(d, written)

MemorySpec == MemoryInit /\ [][MemoryNext]_memoryVars

-----------------------------------------------------------------------------
(* Every variable keeps its range; no block reaches beyond the heap.       *)
MemoryTypeOK ==
    /\ nextBlock \in Nat
    /\ filled \in SUBSET Heap
    /\ depth \in 0..HeapSize
    /\ failed \in BOOLEAN
    /\ ~failed => nextBlock <= HeapSize

(* No block is given out that the stack has been in, though the stack's    *)
(* frames left bytes of it untouched: the guard is as long as the longest  *)
(* such gap.                                                               *)
BlockClearOfStack == [][nextBlock' # nextBlock /\ ~failed' => nextBlock' <= depth]_memoryVars
=============================================================================
