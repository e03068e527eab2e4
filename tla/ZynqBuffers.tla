---------------------------- MODULE ZynqBuffers ----------------------------
(***************************************************************************)
(* Device memory of a Zynq (zynq_dmamgmt.c, zynq_ioctl.c): buffers in the   *)
(* slots of a fixed size pool, allocated, found by address, copied and      *)
(* released by the threads of a process, step by step.  Getting a slot and  *)
(* putting it back are one step each, which FixedSizePool justifies.  The   *)
(* passing run assumes that memory is not given out again in the moment     *)
(* between its release and the clearing of its slot.                        *)
(***************************************************************************)
EXTENDS Integers, FiniteSets

CONSTANTS Threads, Addrs,  \* threads of the process, coherent DMA memory
          PoolSize,        \* ZYNQ_DMAMGMT_POOLSZ
          Reuse,           \* is memory given out again before its slot is cleared?
          None

ASSUME ZynqAssumption == PoolSize \in Nat /\ None \notin Nat \cup Addrs /\ Reuse \in BOOLEAN

VARIABLES running,         \* between init_subsystems and exit_subsystems
          locked, elems,   \* the pool: slots taken, dma_addr of each
          coherent,        \* memory that dma_alloc_coherent gave out
          data,            \* who wrote each buffer last
          th               \* per thread: the call it is in and what it holds

zynqVars == <<running, locked, elems, coherent, data, th>>

Pool == 0 .. PoolSize - 1

ZynqInit ==
  /\ running = FALSE /\ locked = {} /\ elems = [s \in Pool |-> None]
  /\ coherent = {} /\ data = [a \in Addrs |-> None]
  /\ th = [t \in Threads |-> [pc |-> "idle", slot |-> None, has |-> {}, copy |-> FALSE]]

(* zynq_dmamgmt_init: the pool is empty again.                              *)
zynq_device_init_subsystems ==
  /\ ~running /\ running' = TRUE
  /\ locked' = {} /\ elems' = [s \in Pool |-> None]
  /\ UNCHANGED <<coherent, data, th>>

(* zynq_dmamgmt_exit: buffers in use are released.                          *)
zynq_device_exit_subsystems ==
  /\ running /\ \A t \in Threads : th[t].pc = "idle"
  /\ running' = FALSE
  /\ coherent' = coherent \ {elems[s] : s \in Pool}
  /\ locked' = locked \ {s \in Pool : elems[s] # None}
  /\ elems' = [s \in Pool |-> None]
  /\ th' = [t \in Threads |-> [th[t] EXCEPT !.has = {}]]
  /\ UNCHANGED data

(* Getting a slot; without a free one the call fails.                       *)
zynq_dmamgmt_alloc(t, copy) ==
  /\ running /\ th[t].pc = "idle"
  /\ \E s \in Pool \ locked :
       /\ locked' = locked \cup {s}
       /\ th' = [th EXCEPT ![t].pc = "alloc", ![t].slot = s, ![t].copy = copy]
  /\ UNCHANGED <<running, elems, coherent, data>>

zynq_ioctl_alloc(t) == zynq_dmamgmt_alloc(t, FALSE)

(* Also zynq_ioctl_copyto with an address no buffer has.                    *)
zynq_ioctl_alloc_copyto(t) == zynq_dmamgmt_alloc(t, TRUE)

dma_alloc_coherent(t) ==
  /\ th[t].pc = "alloc"
  /\ \E a \in Addrs \ coherent :
       /\ Reuse \/ \A s \in Pool : elems[s] # a
       /\ coherent' = coherent \cup {a} /\ elems' = [elems EXCEPT ![th[t].slot] = a]
       /\ data' = [data EXCEPT ![a] = IF th[t].copy THEN t ELSE None]
       /\ th' = [th EXCEPT ![t].pc = "idle", ![t].slot = None, ![t].has = @ \cup {a}]
  /\ UNCHANGED <<running, locked>>

AllocFails(t) ==
  /\ th[t].pc = "alloc"
  /\ locked' = locked \ {th[t].slot}
  /\ th' = [th EXCEPT ![t].pc = "idle", ![t].slot = None]
  /\ UNCHANGED <<running, elems, coherent, data>>

find_dma_addr(a) ==
  IF \E s \in Pool : elems[s] = a
  THEN CHOOSE s \in Pool : elems[s] = a /\ \A r \in 0 .. s - 1 : elems[r] # a
  ELSE None

zynq_dmamgmt_get(s) == s # None /\ s \in locked

zynq_ioctl_copyto(t) ==
  /\ th[t].pc = "idle"
  /\ \E a \in th[t].has : /\ zynq_dmamgmt_get(find_dma_addr(a))
                          /\ data' = [data EXCEPT ![elems[find_dma_addr(a)]] = t]
  /\ UNCHANGED <<running, locked, elems, coherent, th>>

(* zynq_dmamgmt_dealloc_dma: the memory goes first.                         *)
dma_free_coherent(t, a) ==
  LET s == find_dma_addr(a)
  IN IF s = None
     THEN th' = [th EXCEPT ![t].has = @ \ {a}] /\ UNCHANGED coherent
     ELSE /\ coherent' = coherent \ {elems[s]}
          /\ th' = [th EXCEPT ![t].pc = "init", ![t].slot = s, ![t].has = @ \ {a}]

zynq_ioctl_free(t) ==
  /\ running /\ th[t].pc = "idle"
  /\ \E a \in th[t].has : dma_free_coherent(t, a)
  /\ UNCHANGED <<running, locked, elems, data>>

(* The buffer is read, and released only if it was found.                   *)
zynq_ioctl_copyfrom_free(t) ==
  /\ running /\ th[t].pc = "idle"
  /\ \E a \in th[t].has : zynq_dmamgmt_get(find_dma_addr(a)) /\ dma_free_coherent(t, a)
  /\ UNCHANGED <<running, locked, elems, data>>

(* Mutant: the slot is put back before it is cleared.                       *)
put_before_init(t) ==
  /\ th[t].pc \in {"init", "put"}
  /\ IF th[t].pc = "init"
     THEN locked' = locked \ {th[t].slot} /\ th' = [th EXCEPT ![t].pc = "put"] /\ UNCHANGED elems
     ELSE /\ elems' = [elems EXCEPT ![th[t].slot] = None]
          /\ th' = [th EXCEPT ![t].pc = "idle", ![t].slot = None]
          /\ UNCHANGED locked
  /\ UNCHANGED <<running, coherent, data>>

(* zynq_dmamgmt_dealloc: then init_dma_buf_t, then the pool.                *)
zynq_dmamgmt_dealloc(t) ==
  /\ th[t].pc \in {"init", "put"}
  /\ IF th[t].pc = "init"
     THEN elems' = [elems EXCEPT ![th[t].slot] = None] /\ th' = [th EXCEPT ![t].pc = "put"]
          /\ UNCHANGED locked
     ELSE /\ locked' = locked \ {th[t].slot}
          /\ th' = [th EXCEPT ![t].pc = "idle", ![t].slot = None]
          /\ UNCHANGED elems
  /\ UNCHANGED <<running, coherent, data>>

ZynqNext ==
  \/ zynq_device_init_subsystems \/ zynq_device_exit_subsystems
  \/ \E t \in Threads : \/ zynq_ioctl_alloc(t) \/ zynq_ioctl_alloc_copyto(t)
                        \/ dma_alloc_coherent(t) \/ AllocFails(t) \/ zynq_ioctl_copyto(t)
                        \/ zynq_ioctl_free(t) \/ zynq_ioctl_copyfrom_free(t) \/ zynq_dmamgmt_dealloc(t)

ZynqSpec == ZynqInit /\ [][ZynqNext]_zynqVars

----------------------------------------------------------------------------
(* An address a thread holds finds one slot, which is taken, with the data  *)
(* that thread wrote; memory is allocated exactly as long as it is held, so *)
(* that nothing is lost or freed twice, and slots are taken by buffers or   *)
(* by calls under way.                                                      *)
AddressesValid ==
  /\ coherent = UNION {th[t].has : t \in Threads}
  /\ \A t \in Threads : \A a \in th[t].has :
       /\ find_dma_addr(a) \in locked /\ data[a] \in {t, None}
       /\ \A u \in Threads : th[u].slot # find_dma_addr(a)
  /\ locked = {s \in Pool : elems[s] # None} \cup ({th[t].slot : t \in Threads} \ {None})
=============================================================================
