------------------------------ MODULE MCPools ------------------------------
(***************************************************************************)
(* What hands out slots and memory.  Three threads share the two slots of  *)
(* a pool whose index wraps at 4, so that fetch_add overflows as well      *)
(* (FixedSizePool); or a memory of eight bytes at address 4, aligned to    *)
(* two, is allocated (GenericAllocator): the sizes reach from the empty    *)
(* request past the whole memory, and the offsets of fixed requests        *)
(* include unaligned ones and both ends.                                   *)
(***************************************************************************)
EXTENDS FixedSizePool, GenericAllocator, TLC

VARIABLE part

PoolsInit == part \in {"slots", "memory"} /\ Init /\ AllocInit

PoolsNext == \/ part = "slots" /\ Next /\ UNCHANGED <<allocVars, part>>
             \/ part = "memory" /\ AllocNext /\ UNCHANGED <<vars, part>>

PoolsSpec == PoolsInit /\ [][PoolsNext]_<<vars, allocVars, part>>

Symmetry == Permutations(Threads)

\* Memory is granted once, and refused only when there is no room for the
\* request, which needs a free list that is sorted and merged at any time.
AllocatorKeepsPromise == KeepsPromise /\ []FreeListCanonical
=============================================================================
