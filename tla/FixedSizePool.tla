--------------------------- MODULE FixedSizePool ---------------------------
(***************************************************************************)
(* The lock-free pool of runtime/kernel/zynq/gen_fixed_size_pool.h, which   *)
(* the Zynq platform instantiates for its DMA buffers (zynq_dmamgmt.c).     *)
(* A thread is a system call in flight; every atomic builtin of the macro   *)
(* is one step.  refcnt is kept as in a build with USE_ASSERTIONS, where    *)
(* the assert() of fsp_get is evaluated.                                    *)
(***************************************************************************)
EXTENDS Integers

CONSTANTS Threads,  \* threads inside the kernel
          SZ,       \* number of pool elements
          IdxMod    \* 2^32 in the code: the modulus of fsp_idx_t

ASSUME PoolAssumption == /\ SZ \in Nat \ {0}
                         /\ IdxMod \in Nat
                         /\ IdxMod > SZ

VARIABLES curr,    \* fsp->curr, where the next search starts
          locked,  \* fsp->locked
          refcnt,  \* fsp->refcnt
          pc,      \* the step each thread takes next
          idx,     \* ret in fsp_get, idx in fsp_put
          old,     \* old in fsp_put
          owned    \* the slots fsp_get returned to a thread and that thread
                   \* has not given to fsp_put

vars == <<curr, locked, refcnt, pc, idx, old, owned>>

Slots == 0 .. SZ - 1

INVALID_IDX == IdxMod - 1

\* A thread returns to its caller; the locals of the function are gone.
Return(t) == /\ pc' = [pc EXCEPT ![t] = "idle"]
             /\ idx' = [idx EXCEPT ![t] = INVALID_IDX]
             /\ old' = [old EXCEPT ![t] = 0]

\* fsp_init
Init == /\ curr = 0
        /\ locked = [i \in Slots |-> FALSE]
        /\ refcnt = [i \in Slots |-> 0]
        /\ pc = [t \in Threads |-> "idle"]
        /\ idx = [t \in Threads |-> INVALID_IDX]
        /\ old = [t \in Threads |-> 0]
        /\ owned = [t \in Threads |-> {}]

GetStart(t) == /\ pc[t] = "idle"
               /\ pc' = [pc EXCEPT ![t] = "fetch"]
               /\ UNCHANGED <<curr, locked, refcnt, idx, old, owned>>

\* Variant of GetFetch with the bound check off by one.
GetFetchPastEnd(t) ==
  /\ pc[t] = "fetch"
  /\ curr' = (curr + 1) % IdxMod
  /\ IF curr <= SZ
     THEN /\ idx' = [idx EXCEPT ![t] = curr]
          /\ pc' = [pc EXCEPT ![t] = "tas"]
          /\ old' = old
     ELSE Return(t)
  /\ UNCHANGED <<locked, refcnt, owned>>

\* ret = fetch_add(curr, 1); a ticket past the end makes the pool depleted
GetFetch(t) ==
  /\ pc[t] = "fetch"
  /\ curr' = (curr + 1) % IdxMod
  /\ IF curr < SZ
     THEN /\ idx' = [idx EXCEPT ![t] = curr]
          /\ pc' = [pc EXCEPT ![t] = "tas"]
          /\ old' = old
     ELSE Return(t)
  /\ UNCHANGED <<locked, refcnt, owned>>

\* Variant of GetTestAndSet that takes the ticket for the slot: it sets the
\* flag without looking at its previous value.
GetSetOnly(t) ==
  /\ pc[t] = "tas"
  /\ locked' = [locked EXCEPT ![idx[t]] = TRUE]
  /\ pc' = [pc EXCEPT ![t] = "count"]
  /\ UNCHANGED <<curr, refcnt, idx, old, owned>>

\* test_and_set(locked[ret]): try the next ticket when it was set already
GetTestAndSet(t) ==
  /\ pc[t] = "tas"
  /\ locked' = [locked EXCEPT ![idx[t]] = TRUE]
  /\ pc' = [pc EXCEPT ![t] = IF locked[idx[t]] THEN "fetch" ELSE "count"]
  /\ UNCHANGED <<curr, refcnt, idx, old, owned>>

\* the add_fetch inside the assertion, and the return
GetCount(t) ==
  /\ pc[t] = "count"
  /\ refcnt' = [refcnt EXCEPT ![idx[t]] = @ + 1]
  /\ owned' = [owned EXCEPT ![t] = @ \cup {idx[t]}]
  /\ Return(t)
  /\ UNCHANGED <<curr, locked>>

PutStart(t) ==
  /\ pc[t] = "idle"
  /\ \E i \in owned[t] : /\ idx' = [idx EXCEPT ![t] = i]
                         /\ owned' = [owned EXCEPT ![t] = @ \ {i}]
  /\ pc' = [pc EXCEPT ![t] = "uncount"]
  /\ UNCHANGED <<curr, locked, refcnt, old>>

\* Variant of PutUncount that leaves the decrement out (the slot is handed
\* out again while refcnt still counts its last user).
PutUncountForgotten(t) ==
  /\ pc[t] = "uncount"
  /\ pc' = [pc EXCEPT ![t] = "clear"]
  /\ UNCHANGED <<curr, locked, refcnt, idx, old, owned>>

PutUncount(t) ==
  /\ pc[t] = "uncount"
  /\ refcnt' = [refcnt EXCEPT ![idx[t]] = @ - 1]
  /\ pc' = [pc EXCEPT ![t] = "clear"]
  /\ UNCHANGED <<curr, locked, idx, old, owned>>

PutClear(t) ==
  /\ pc[t] = "clear"
  /\ locked' = [locked EXCEPT ![idx[t]] = FALSE]
  /\ pc' = [pc EXCEPT ![t] = "read"]
  /\ UNCHANGED <<curr, refcnt, idx, old, owned>>

\* Variant of PutRead that is off by one: a search that has just passed the
\* slot is not sent back to it.
PutReadLate(t) ==
  /\ pc[t] = "read"
  /\ IF idx[t] + 1 < curr
     THEN /\ old' = [old EXCEPT ![t] = curr]
          /\ pc' = [pc EXCEPT ![t] = "cas"]
          /\ idx' = idx
     ELSE Return(t)
  /\ UNCHANGED <<curr, locked, refcnt, owned>>

\* old = fsp->curr; the loop ends when the search starts low enough already
PutRead(t) ==
  /\ pc[t] = "read"
  /\ IF idx[t] < curr
     THEN /\ old' = [old EXCEPT ![t] = curr]
          /\ pc' = [pc EXCEPT ![t] = "cas"]
          /\ idx' = idx
     ELSE Return(t)
  /\ UNCHANGED <<curr, locked, refcnt, owned>>

PutCas(t) ==
  /\ pc[t] = "cas"
  /\ IF curr = old[t]
     THEN /\ curr' = idx[t]
          /\ Return(t)
     ELSE /\ pc' = [pc EXCEPT ![t] = "read"]
          /\ UNCHANGED <<curr, idx, old>>
  /\ UNCHANGED <<locked, refcnt, owned>>

Next == \E t \in Threads : \/ GetStart(t) \/ GetFetch(t) \/ GetTestAndSet(t)
                           \/ GetCount(t) \/ PutStart(t) \/ PutUncount(t)
                           \/ PutClear(t) \/ PutRead(t) \/ PutCas(t)

Spec == Init /\ [][Next]_vars

-----------------------------------------------------------------------------

InGet(t) == pc[t] \in {"tas", "count"}
InPut(t) == pc[t] \in {"uncount", "clear", "read", "cas"}

TypeOK ==
  /\ curr \in 0 .. IdxMod - 1
  /\ locked \in [Slots -> BOOLEAN]
  /\ refcnt \in [Slots -> Int]
  /\ pc \in [Threads -> {"idle", "fetch", "tas", "count", "uncount", "clear",
                         "read", "cas"}]
  /\ idx \in [Threads -> 0 .. IdxMod - 1]
  /\ \A t \in Threads : InGet(t) \/ InPut(t) => idx[t] \in Slots
  /\ old \in [Threads -> 0 .. IdxMod - 1]
  /\ owned \in [Threads -> SUBSET Slots]

\* The slots a thread holds as its callers see it: from a successful
\* test_and_set in fsp_get to the atomic_clear in fsp_put.
Holds(t) == owned[t] \cup (IF pc[t] \in {"count", "uncount", "clear"}
                           THEN {idx[t]} ELSE {})

\* A slot that is not locked is always found again: either the next search
\* starts at or below it, or a thread inside fsp_get has its ticket and is
\* about to test it, or the fsp_put that freed it has still to move curr
\* back.  A slot outside these cases would be lost to every later fsp_get.
NoLostSlot ==
  \A i \in Slots :
    ~ locked[i] => \/ curr <= i
                   \/ \E t \in Threads : /\ idx[t] = i
                                         /\ pc[t] \in {"tas", "read", "cas"}

\* The assertion of fsp_get, evaluated by the thread that just took the slot:
\* no slot is counted twice, whatever the interleaving of put and get.
RefcntAssertion ==
  \A t \in Threads : pc[t] = "count" => refcnt[idx[t]] + 1 < 2

\* fsp_get and fsp_put implement a pool in which a slot has one holder.
Abstract == INSTANCE SlotPool WITH holds <- [t \in Threads |-> Holds(t)]

\* Every step of the lock-free code is a step of the abstract pool, or none.
ImplementsSlotPool == Abstract!Spec
=============================================================================
