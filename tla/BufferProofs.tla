---------------------------- MODULE BufferProofs ----------------------------
(***************************************************************************)
(* Proofs about the buffers of a Zynq (ZynqBuffers) and of a PCIe device   *)
(* (PcieBuffers), for every number of threads, processes and buffers.      *)
(***************************************************************************)
EXTENDS PcieBuffers, ZynqBuffers, TLAPS

\* A leaf is proved with Zenon unless it names another prover.
USE Zenon

Pcs == {"idle", "alloc", "init", "put"}
Calls == [pc : Pcs, slot : Pool \cup {None}, has : SUBSET Addrs, copy : BOOLEAN]

ZynqTypeOK ==
  /\ running \in BOOLEAN /\ locked \subseteq Pool /\ elems \in [Pool -> Addrs \cup {None}]
  /\ coherent \subseteq Addrs /\ data \in [Addrs -> Threads \cup {None}] /\ th \in [Threads -> Calls]

\* No address is in two slots.
Unique == \A s, r \in Pool : elems[s] = elems[r] /\ elems[s] # None => s = r

\* A slot that a call works on is that call's own.  It holds no address, or one
\* whose memory was released just now.
InCall ==
  \A t \in Threads :
    /\ th[t].pc = "idle" <=> th[t].slot = None
    /\ th[t].slot # None => th[t].slot \in locked
    /\ th[t].pc \in {"alloc", "put"} => elems[th[t].slot] = None
    /\ th[t].pc = "init" => elems[th[t].slot] # None /\ elems[th[t].slot] \notin coherent
    /\ \A u \in Threads : t # u /\ th[t].slot # None => th[u].slot # th[t].slot

Held ==
  \A t \in Threads : \A a \in th[t].has :
    /\ a \in coherent /\ data[a] \in {t, None}
    /\ \E s \in Pool : elems[s] = a /\ \A u \in Threads : th[u].slot # s
    /\ \A u \in Threads : t # u => a \notin th[u].has

Taken ==
  /\ \A a \in coherent : \E t \in Threads : a \in th[t].has
  /\ \A s \in Pool : s \in locked <=> elems[s] # None \/ \E t \in Threads : th[t].slot = s

Stopped == ~running => \A t \in Threads : th[t].pc = "idle" /\ th[t].has = {}

ZInv == ZynqTypeOK /\ Unique /\ InCall /\ Held /\ Taken /\ Stopped

-----------------------------------------------------------------------------

\* find_dma_addr finds the slot an address is in.
LEMMA FindFacts ==
  ASSUME ZynqTypeOK, Unique, NEW a \in Addrs, NEW s \in Pool, elems[s] = a
  PROVE  find_dma_addr(a) = s
<1>1. \A r \in 0 .. s - 1 : r \in Pool /\ r # s
  BY SMT, ZynqAssumption DEF Pool
<1>2. \A r \in 0 .. s - 1 : elems[r] # a
  BY <1>1, ZynqAssumption DEF Unique
<1>3. \A r \in Pool : elems[r] = a => r = s
  BY ZynqAssumption DEF Unique
<1> QED BY <1>2, <1>3 DEF find_dma_addr

LEMMA ZInvValid == ZInv => AddressesValid
<1> SUFFICES ASSUME ZInv PROVE AddressesValid
  OBVIOUS
<1> USE DEF ZInv
<1>1. coherent = UNION {th[t].has : t \in Threads}
  BY SMT DEF Held, Taken
<1>2. ASSUME NEW t \in Threads, NEW a \in th[t].has
      PROVE  /\ find_dma_addr(a) \in locked /\ data[a] \in {t, None}
             /\ \A u \in Threads : th[u].slot # find_dma_addr(a)
  <2>1. a \in Addrs /\ data[a] \in {t, None}
    BY DEF Held, ZynqTypeOK
  <2>2. PICK s \in Pool : elems[s] = a /\ \A u \in Threads : th[u].slot # s
    BY DEF Held
  <2>3. find_dma_addr(a) = s
    BY <2>1, <2>2, FindFacts
  <2>4. s \in locked
    BY <2>1, <2>2, ZynqAssumption DEF Taken
  <2> QED BY <2>1, <2>2, <2>3, <2>4
<1>3. locked = {s \in Pool : elems[s] # None} \cup ({th[t].slot : t \in Threads} \ {None})
  <2>1. \A t \in Threads : th[t].slot # None => th[t].slot \in locked /\ th[t].slot \in Pool
    BY DEF InCall, ZynqTypeOK
  <2>2. \A s \in Pool : s # None
    BY SMT, ZynqAssumption DEF Pool
  <2> QED BY SMT, <2>1, <2>2 DEF Taken, ZynqTypeOK
<1> QED BY <1>1, <1>2, <1>3 DEF AddressesValid

-----------------------------------------------------------------------------

\* One call changes what its own thread has.
LEMMA CallStep ==
  ASSUME ZynqTypeOK, NEW t \in Threads, NEW c \in Calls, th' = [th EXCEPT ![t] = c]
  PROVE  /\ th' \in [Threads -> Calls] /\ th'[t] = c
         /\ \A u \in Threads : u # t => th'[u] = th[u]
BY DEF ZynqTypeOK

LEMMA ThreadFacts ==
  ASSUME ZynqTypeOK, NEW t \in Threads
  PROVE  /\ th[t] = [pc |-> th[t].pc, slot |-> th[t].slot, has |-> th[t].has, copy |-> th[t].copy]
         /\ th[t].pc \in Pcs /\ th[t].slot \in Pool \cup {None} /\ th[t].has \in SUBSET Addrs
         /\ th[t].copy \in BOOLEAN
BY DEF ZynqTypeOK, Calls

LEMMA ZynqAlloc == ASSUME ZInv, NEW t \in Threads, NEW c \in BOOLEAN, zynq_dmamgmt_alloc(t, c) PROVE ZInv'
<1> USE DEF ZInv
<1>1. PICK s \in Pool \ locked : /\ locked' = locked \cup {s}
                                 /\ th' = [th EXCEPT ![t].pc = "alloc", ![t].slot = s, ![t].copy = c]
  BY DEF zynq_dmamgmt_alloc
<1>2. th' = [th EXCEPT ![t] = [th[t] EXCEPT !.pc = "alloc", !.slot = s, !.copy = c]]
  BY <1>1
<1>3. /\ th' \in [Threads -> Calls] /\ th'[t].pc = "alloc" /\ th'[t].slot = s /\ th'[t].has = th[t].has
      /\ \A u \in Threads : u # t => th'[u] = th[u]
  <2> DEFINE C == [th[t] EXCEPT !.pc = "alloc", !.slot = s, !.copy = c]
  <2>1. C \in Calls /\ C.pc = "alloc" /\ C.slot = s /\ C.has = th[t].has
    BY DEF ZynqTypeOK, Calls, Pcs
  <2> HIDE DEF C
  <2> QED BY <1>2, <2>1, CallStep DEF C
<1>4. th[t].pc = "idle" /\ running /\ UNCHANGED <<running, elems, coherent, data>>
  BY DEF zynq_dmamgmt_alloc
<1>5. elems[s] = None /\ s # None /\ \A u \in Threads : th[u].slot # s
  BY SMT, <1>1, ZynqAssumption DEF Taken, Pool
<1>6. ZynqTypeOK'
  BY <1>1, <1>3, <1>4 DEF ZynqTypeOK
<1>7. Unique' /\ Stopped'
  BY <1>4 DEF Unique, Stopped
<1>8. InCall'
  BY SMT, <1>1, <1>3, <1>4, <1>5 DEF InCall
<1>9. Held'
  BY SMT, <1>1, <1>3, <1>4, <1>5, ZynqAssumption DEF Held, ZynqTypeOK
<1>10. Taken'
  <2>1. th[t].slot = None
    BY <1>4 DEF InCall
  <2>2. \A r \in Pool : (\E u \in Threads : th'[u].slot = r) <=> r = s \/ \E u \in Threads : th[u].slot = r
    BY SMT, <1>3, <2>1, ZynqAssumption DEF Pool
  <2>3. \A a \in coherent : \E u \in Threads : a \in th'[u].has
    BY <1>3 DEF Taken
  <2> QED BY <1>1, <1>4, <2>2, <2>3 DEF Taken
<1> QED BY <1>6, <1>7, <1>8, <1>9, <1>10

LEMMA ZynqCoherent == ASSUME ZInv, ~Reuse, NEW t \in Threads, dma_alloc_coherent(t) PROVE ZInv'
<1> USE DEF ZInv
<1> DEFINE s == th[t].slot
<1>1. PICK a \in Addrs \ coherent :
        /\ \A r \in Pool : elems[r] # a
        /\ coherent' = coherent \cup {a} /\ elems' = [elems EXCEPT ![s] = a]
        /\ data' = [data EXCEPT ![a] = IF th[t].copy THEN t ELSE None]
        /\ th' = [th EXCEPT ![t].pc = "idle", ![t].slot = None, ![t].has = @ \cup {a}]
  BY DEF dma_alloc_coherent
<1>2. th' = [th EXCEPT ![t] = [th[t] EXCEPT !.pc = "idle", !.slot = None, !.has = @ \cup {a}]]
  BY <1>1
<1>3. /\ th' \in [Threads -> Calls] /\ th'[t].pc = "idle" /\ th'[t].slot = None
      /\ th'[t].has = th[t].has \cup {a} /\ \A u \in Threads : u # t => th'[u] = th[u]
  <2> DEFINE C == [th[t] EXCEPT !.pc = "idle", !.slot = None, !.has = @ \cup {a}]
  <2>1. C \in Calls /\ C.pc = "idle" /\ C.slot = None /\ C.has = th[t].has \cup {a}
    BY DEF ZynqTypeOK, Calls, Pcs
  <2> HIDE DEF C
  <2> QED BY <1>2, <2>1, CallStep DEF C
<1>4. th[t].pc = "alloc" /\ UNCHANGED <<running, locked>>
  BY DEF dma_alloc_coherent
<1>5. /\ s \in Pool /\ s # None /\ s \in locked /\ elems[s] = None /\ a # None
      /\ \A u \in Threads : u # t => th[u].slot # s
  BY <1>1, <1>4, ThreadFacts, ZynqAssumption DEF InCall
<1>6. elems'[s] = a /\ \A r \in Pool : r # s => elems'[r] = elems[r]
  BY <1>1, <1>5 DEF ZynqTypeOK
<1>7. data'[a] \in {t, None} /\ \A b \in Addrs : b # a => data'[b] = data[b]
  BY <1>1 DEF ZynqTypeOK
<1>8. ZynqTypeOK'
  BY <1>1, <1>3, <1>4, <1>5 DEF ZynqTypeOK
<1>9. Unique'
  BY SMT, <1>1, <1>6 DEF Unique
<1>10. Stopped'
  BY <1>4 DEF Stopped
<1>11. InCall'
  <2>1. ASSUME NEW u \in Threads, u # t
        PROVE  /\ th'[u].slot # None => th'[u].slot # s /\ th'[u].slot \in Pool
               /\ th'[u].slot # None => elems'[th'[u].slot] = elems[th[u].slot]
    <3>1. th'[u] = th[u] /\ th[u].slot # s
      BY <1>3, <1>5, <2>1
    <3>2. th[u].slot \in Pool \cup {None}
      BY ThreadFacts
    <3> QED BY <1>6, <3>1, <3>2
  <2> QED BY SMT, <1>1, <1>3, <1>4, <2>1 DEF InCall
<1>12. Held'
  <2>1. ASSUME NEW u \in Threads, NEW b \in th'[u].has
        PROVE  /\ b \in coherent' /\ data'[b] \in {u, None}
               /\ \E r \in Pool : elems'[r] = b /\ \A v \in Threads : th'[v].slot # r
               /\ \A v \in Threads : u # v => b \notin th'[v].has
    <3>0. \A v \in Threads : a \notin th[v].has
      BY <1>1 DEF Held
    <3>1. CASE b = a
      <4>1. u = t
        BY <1>3, <3>0, <3>1
      <4>2. \A v \in Threads : th'[v].slot # s
        BY <1>3, <1>5
      <4>3. \A v \in Threads : u # v => b \notin th'[v].has
        BY <1>3, <3>0, <3>1, <4>1
      <4> QED BY <1>1, <1>5, <1>6, <1>7, <3>1, <4>1, <4>2, <4>3
    <3>2. CASE b # a
      <4>1. b \in th[u].has /\ b \in Addrs
        <5>1. b \in th[u].has
          BY <1>3, <3>2
        <5> QED BY <5>1, ThreadFacts
      <4>2. /\ b \in coherent /\ data[b] \in {u, None}
            /\ \A v \in Threads : u # v => b \notin th[v].has
        BY <4>1 DEF Held
      <4>3. PICK r \in Pool : elems[r] = b /\ \A v \in Threads : th[v].slot # r
        BY SMT, <4>1 DEF Held
      <4>4. r # s /\ \A v \in Threads : th'[v].slot # r
        BY SMT, <1>3, <4>3, ZynqAssumption DEF Pool
      <4>5. elems'[r] = b
        BY <1>6, <4>3, <4>4
      <4>6. \A v \in Threads : u # v => b \notin th'[v].has
        BY <1>3, <3>2, <4>2
      <4>7. b \in coherent'
        BY <1>1, <4>2
      <4>8. data'[b] = data[b]
        BY <1>7, <3>2, <4>1
      <4> QED BY <4>2, <4>4, <4>5, <4>6, <4>7, <4>8
    <3> QED BY <3>1, <3>2
  <2> QED BY <2>1 DEF Held
<1>13. Taken'
  <2>1. ASSUME NEW b \in coherent' PROVE \E u \in Threads : b \in th'[u].has
    BY <1>1, <1>3 DEF Taken
  <2>2. ASSUME NEW r \in Pool PROVE r \in locked' <=> elems'[r] # None \/ \E u \in Threads : th'[u].slot = r
    <3>1. r # None
      BY SMT, ZynqAssumption DEF Pool
    <3> QED BY SMT, <1>3, <1>4, <1>5, <1>6, <3>1 DEF Taken
  <2> QED BY <2>1, <2>2 DEF Taken
<1> QED BY <1>8, <1>9, <1>10, <1>11, <1>12, <1>13

\* What a step that leaves addresses and memory alone has to keep.
LEMMA Rest ==
  ASSUME ZInv, NEW t \in Threads, th' \in [Threads -> Calls],
         \A u \in Threads : u # t => th'[u] = th[u],
         th'[t].has = th[t].has, th'[t].slot \in {th[t].slot, None},
         UNCHANGED <<coherent, data>>,
         \A s \in Pool : elems[s] \in coherent => elems'[s] = elems[s]
  PROVE  Held'
<1> USE DEF ZInv
<1>1. ASSUME NEW u \in Threads, NEW b \in th'[u].has
      PROVE  /\ b \in coherent' /\ data'[b] \in {u, None}
             /\ \E r \in Pool : elems'[r] = b /\ \A v \in Threads : th'[v].slot # r
             /\ \A v \in Threads : u # v => b \notin th'[v].has
  <2>1. \A v \in Threads : th'[v].has = th[v].has
    OBVIOUS
  <2>2. /\ b \in coherent /\ data[b] \in {u, None}
        /\ \A v \in Threads : u # v => b \notin th[v].has
    BY <2>1 DEF Held
  <2>3. PICK r \in Pool : elems[r] = b /\ \A v \in Threads : th[v].slot # r
    BY SMT, <2>1 DEF Held
  <2>4. elems'[r] = b
    BY <2>2, <2>3
  <2>5. \A v \in Threads : th'[v].slot # r
    BY SMT, <2>3, ZynqAssumption DEF Pool
  <2> QED BY <2>1, <2>2, <2>4, <2>5
<1> QED BY <1>1 DEF Held

LEMMA ZynqAllocFails == ASSUME ZInv, NEW t \in Threads, AllocFails(t) PROVE ZInv'
<1> USE DEF ZInv
<1> DEFINE s == th[t].slot
           C == [th[t] EXCEPT !.pc = "idle", !.slot = None]
<1>1. /\ th[t].pc = "alloc" /\ locked' = locked \ {s} /\ th' = [th EXCEPT ![t] = C]
      /\ UNCHANGED <<running, elems, coherent, data>>
  BY DEF AllocFails
<1>2. C \in Calls /\ C.pc = "idle" /\ C.slot = None /\ C.has = th[t].has
  BY DEF ZynqTypeOK, Calls, Pcs
<1>3. /\ th' \in [Threads -> Calls] /\ th'[t].pc = "idle" /\ th'[t].slot = None /\ th'[t].has = th[t].has
      /\ \A u \in Threads : u # t => th'[u] = th[u]
  <2> HIDE DEF C
  <2> QED BY <1>1, <1>2, CallStep
<1>4. /\ s \in Pool /\ s # None /\ s \in locked /\ elems[s] = None
      /\ \A u \in Threads : u # t => th[u].slot # s
  BY <1>1, ThreadFacts DEF InCall
<1>5. ZynqTypeOK'
  BY <1>1, <1>3 DEF ZynqTypeOK
<1>6. Unique' /\ Stopped'
  <2>1. \A u \in Threads : ~running => th'[u].pc = "idle" /\ th'[u].has = {}
    BY <1>3 DEF Stopped
  <2> QED BY <1>1, <2>1 DEF Unique, Stopped
<1>7. InCall'
  BY SMT, <1>1, <1>3, <1>4 DEF InCall
<1>8. Held'
  BY <1>1, <1>3, Rest
<1>9. Taken'
  <2>1. \A b \in coherent' : \E u \in Threads : b \in th'[u].has
    BY <1>1, <1>3 DEF Taken
  <2>2. ASSUME NEW r \in Pool PROVE r \in locked' <=> elems'[r] # None \/ \E u \in Threads : th'[u].slot = r
    <3>1. r # None
      BY SMT, ZynqAssumption DEF Pool
    <3> QED BY SMT, <1>1, <1>3, <1>4, <3>1 DEF Taken
  <2> QED BY <2>1, <2>2 DEF Taken
<1> QED BY <1>5, <1>6, <1>7, <1>8, <1>9

LEMMA ZynqCopyto == ASSUME ZInv, NEW t \in Threads, zynq_ioctl_copyto(t) PROVE ZInv'
<1> USE DEF ZInv
<1>1. PICK a \in th[t].has : data' = [data EXCEPT ![elems[find_dma_addr(a)]] = t]
  BY DEF zynq_ioctl_copyto
<1>2. UNCHANGED <<running, locked, elems, coherent, th>>
  BY DEF zynq_ioctl_copyto
<1>3. a \in Addrs
  BY ThreadFacts
<1>4. elems[find_dma_addr(a)] = a
  <2>1. PICK s \in Pool : elems[s] = a
    BY DEF Held
  <2> QED BY <1>3, <2>1, FindFacts
<1>5. data' = [data EXCEPT ![a] = t]
  BY <1>1, <1>4
<1>6. ZynqTypeOK'
  BY <1>2, <1>3, <1>5 DEF ZynqTypeOK
<1>7. Held'
  <2>1. ASSUME NEW u \in Threads, NEW b \in th[u].has PROVE data'[b] \in {u, None}
    <3>1. data[b] \in {u, None} /\ (b = a => u = t)
      BY SMT DEF Held
    <3>2. b \in Addrs
      BY ThreadFacts
    <3> QED BY <1>3, <1>5, <3>1, <3>2 DEF ZynqTypeOK
  <2> QED BY SMT, <1>2, <2>1 DEF Held
<1> QED BY <1>2, <1>6, <1>7 DEF Unique, InCall, Taken, Stopped

LEMMA ZynqFree ==
  ASSUME ZInv, NEW t \in Threads, NEW a \in th[t].has, th[t].pc = "idle", running,
         dma_free_coherent(t, a), UNCHANGED <<running, locked, elems, data>>
  PROVE  ZInv'
<1> USE DEF ZInv
<1>1. PICK s \in Pool : elems[s] = a /\ \A u \in Threads : th[u].slot # s
  BY DEF Held
<1> DEFINE C == [th[t] EXCEPT !.pc = "init", !.slot = s, !.has = @ \ {a}]
<1>2. a \in Addrs /\ a # None /\ s # None
  <2>1. a \in Addrs
    BY ThreadFacts
  <2> QED BY SMT, <2>1, ZynqAssumption DEF Pool
<1>3. find_dma_addr(a) = s
  BY <1>1, <1>2, FindFacts
<1>4. coherent' = coherent \ {a} /\ th' = [th EXCEPT ![t] = C]
  BY <1>1, <1>2, <1>3 DEF dma_free_coherent
<1>5. C \in Calls /\ C.pc = "init" /\ C.slot = s /\ C.has = th[t].has \ {a}
  BY DEF ZynqTypeOK, Calls, Pcs
<1>6. /\ th' \in [Threads -> Calls] /\ th'[t].pc = "init" /\ th'[t].slot = s /\ th'[t].has = th[t].has \ {a}
      /\ \A u \in Threads : u # t => th'[u] = th[u]
  <2> HIDE DEF C
  <2> QED BY <1>4, <1>5, CallStep
<1>7. th[t].slot = None /\ s \in locked
  BY <1>1, <1>2 DEF InCall, Taken
<1>8. \A u \in Threads : u # t => a \notin th[u].has
  BY DEF Held
<1>9. ZynqTypeOK'
  BY <1>4, <1>6 DEF ZynqTypeOK
<1>10. Unique' /\ Stopped'
  BY DEF Unique, Stopped
<1>11. InCall'
  BY SMT, <1>1, <1>2, <1>4, <1>6, <1>7 DEF InCall
<1>12. Held'
  <2>1. ASSUME NEW u \in Threads, NEW b \in th'[u].has
        PROVE  /\ b \in coherent' /\ data'[b] \in {u, None}
               /\ \E r \in Pool : elems'[r] = b /\ \A v \in Threads : th'[v].slot # r
               /\ \A v \in Threads : u # v => b \notin th'[v].has
    <3>1. b \in th[u].has /\ b # a
      BY <1>6, <1>8
    <3>2. /\ b \in coherent /\ data[b] \in {u, None}
          /\ \A v \in Threads : u # v => b \notin th[v].has
      BY <3>1 DEF Held
    <3>3. PICK r \in Pool : elems[r] = b /\ \A v \in Threads : th[v].slot # r
      BY SMT, <3>1 DEF Held
    <3>4. \A v \in Threads : th'[v].slot # r
      BY <1>1, <1>6, <3>1, <3>3
    <3>5. \A v \in Threads : u # v => b \notin th'[v].has
      BY <1>6, <3>2
    <3>6. b \in coherent'
      BY <1>4, <3>1, <3>2
    <3> QED BY <3>2, <3>3, <3>4, <3>5, <3>6
  <2> QED BY <2>1 DEF Held
<1>13. Taken'
  <2>1. ASSUME NEW b \in coherent' PROVE \E u \in Threads : b \in th'[u].has
    BY <1>4, <1>6 DEF Taken
  <2>2. ASSUME NEW r \in Pool PROVE r \in locked' <=> elems'[r] # None \/ \E u \in Threads : th'[u].slot = r
    <3>1. r # None
      BY SMT, ZynqAssumption DEF Pool
    <3> QED BY SMT, <1>6, <1>7, <3>1 DEF Taken
  <2> QED BY <2>1, <2>2 DEF Taken
<1> QED BY <1>9, <1>10, <1>11, <1>12, <1>13

LEMMA ZynqDealloc == ASSUME ZInv, NEW t \in Threads, zynq_dmamgmt_dealloc(t) PROVE ZInv'
<1> USE DEF ZInv
<1> DEFINE s == th[t].slot
<1>1. /\ s \in Pool /\ s # None /\ s \in locked
      /\ \A u \in Threads : u # t => th[u].slot # s
  <2>1. th[t].pc # "idle"
    BY DEF zynq_dmamgmt_dealloc
  <2> QED BY <2>1, ThreadFacts DEF InCall
<1>2. CASE th[t].pc = "init"
  <2> DEFINE C == [th[t] EXCEPT !.pc = "put"]
  <2>1. /\ elems' = [elems EXCEPT ![s] = None] /\ th' = [th EXCEPT ![t] = C]
        /\ UNCHANGED <<running, locked, coherent, data>>
    BY <1>2 DEF zynq_dmamgmt_dealloc
  <2>2. C \in Calls /\ C.pc = "put" /\ C.slot = s /\ C.has = th[t].has
    BY DEF ZynqTypeOK, Calls, Pcs
  <2>3. /\ th' \in [Threads -> Calls] /\ th'[t].pc = "put" /\ th'[t].slot = s /\ th'[t].has = th[t].has
        /\ \A u \in Threads : u # t => th'[u] = th[u]
    <3> HIDE DEF C
    <3> QED BY <2>1, <2>2, CallStep
  <2>4. elems'[s] = None /\ \A r \in Pool : r # s => elems'[r] = elems[r]
    BY <1>1, <2>1 DEF ZynqTypeOK
  <2>5. ZynqTypeOK'
    BY <2>1, <2>3 DEF ZynqTypeOK
  <2>6. Unique'
    BY <2>4 DEF Unique
  <2>7. Stopped'
    BY <1>2, <2>1 DEF Stopped
  <2>8. InCall'
    <3>1. ASSUME NEW u \in Threads, u # t, th[u].slot # None PROVE elems'[th[u].slot] = elems[th[u].slot]
      <4>1. th[u].slot \in Pool
        BY <3>1, ThreadFacts
      <4> QED BY <1>1, <2>4, <3>1, <4>1
    <3> QED BY SMT, <1>1, <1>2, <2>1, <2>3, <2>4, <3>1 DEF InCall
  <2>9. Held'
    <3>1. elems[s] \notin coherent
      BY <1>2 DEF InCall
    <3> QED BY <2>1, <2>3, <2>4, <3>1, Rest
  <2>10. Taken'
    <3>1. ASSUME NEW b \in coherent' PROVE \E u \in Threads : b \in th'[u].has
      BY <2>1, <2>3 DEF Taken
    <3>2. ASSUME NEW r \in Pool PROVE r \in locked' <=> elems'[r] # None \/ \E u \in Threads : th'[u].slot = r
      BY SMT, <1>1, <2>1, <2>3, <2>4 DEF Taken
    <3> QED BY <3>1, <3>2 DEF Taken
  <2> QED BY <2>5, <2>6, <2>7, <2>8, <2>9, <2>10
<1>3. CASE th[t].pc = "put"
  <2> DEFINE C == [th[t] EXCEPT !.pc = "idle", !.slot = None]
  <2>1. /\ locked' = locked \ {s} /\ th' = [th EXCEPT ![t] = C]
        /\ UNCHANGED <<running, elems, coherent, data>>
    BY <1>3 DEF zynq_dmamgmt_dealloc
  <2>2. C \in Calls /\ C.pc = "idle" /\ C.slot = None /\ C.has = th[t].has
    BY DEF ZynqTypeOK, Calls, Pcs
  <2>3. /\ th' \in [Threads -> Calls] /\ th'[t].pc = "idle" /\ th'[t].slot = None /\ th'[t].has = th[t].has
        /\ \A u \in Threads : u # t => th'[u] = th[u]
    <3> HIDE DEF C
    <3> QED BY <2>1, <2>2, CallStep
  <2>4. elems[s] = None
    BY <1>3 DEF InCall
  <2>5. ZynqTypeOK'
    BY <2>1, <2>3 DEF ZynqTypeOK
  <2>6. Unique' /\ Stopped'
    BY <1>3, <2>1 DEF Unique, Stopped
  <2>7. InCall'
    BY SMT, <1>1, <2>1, <2>3 DEF InCall
  <2>8. Held'
    BY <2>1, <2>3, Rest
  <2>9. Taken'
    <3>1. ASSUME NEW b \in coherent' PROVE \E u \in Threads : b \in th'[u].has
      BY <2>1, <2>3 DEF Taken
    <3>2. ASSUME NEW r \in Pool PROVE r \in locked' <=> elems'[r] # None \/ \E u \in Threads : th'[u].slot = r
      <4>1. r # None
        BY SMT, ZynqAssumption DEF Pool
      <4> QED BY SMT, <1>1, <2>1, <2>3, <2>4, <4>1 DEF Taken
    <3> QED BY <3>1, <3>2 DEF Taken
  <2> QED BY <2>5, <2>6, <2>7, <2>8, <2>9
<1> QED BY <1>2, <1>3 DEF zynq_dmamgmt_dealloc

LEMMA ZynqExit == ASSUME ZInv, zynq_device_exit_subsystems PROVE ZInv'
<1> USE DEF ZInv
<1>1. /\ \A t \in Threads : th[t].pc = "idle"
      /\ running' = FALSE /\ coherent' = coherent \ {elems[s] : s \in Pool}
      /\ locked' = locked \ {s \in Pool : elems[s] # None} /\ elems' = [s \in Pool |-> None]
      /\ th' = [t \in Threads |-> [th[t] EXCEPT !.has = {}]] /\ data' = data
  BY DEF zynq_device_exit_subsystems
<1>2. ASSUME NEW t \in Threads
      PROVE  th'[t] \in Calls /\ th'[t].pc = "idle" /\ th'[t].slot = None /\ th'[t].has = {}
  <2>1. th[t].pc = "idle" /\ th[t].slot = None
    BY <1>1 DEF InCall
  <2>2. th'[t] = [th[t] EXCEPT !.has = {}]
    BY <1>1
  <2> QED BY <2>1, <2>2 DEF ZynqTypeOK, Calls
<1>3. coherent' = {}
  <2>1. \A a \in coherent : \E s \in Pool : elems[s] = a
    BY SMT DEF Taken, Held
  <2> QED BY <1>1, <2>1
<1>4. locked' = {}
  <2>1. \A s \in locked : elems[s] # None
    <3>1. \A t \in Threads : th[t].slot = None
      BY <1>1 DEF InCall
    <3> QED BY SMT, <3>1, ZynqAssumption DEF Taken, ZynqTypeOK, Pool
  <2> QED BY <1>1, <2>1 DEF ZynqTypeOK
<1>5. ZynqTypeOK'
  <2>1. th' \in [Threads -> Calls]
    BY <1>1, <1>2
  <2> QED BY <1>1, <1>3, <1>4, <2>1 DEF ZynqTypeOK
<1>6. \A s \in Pool : elems'[s] = None /\ s # None
  BY SMT, <1>1, ZynqAssumption DEF Pool
<1>7. Unique' /\ InCall' /\ Held' /\ Stopped'
  BY <1>1, <1>2, <1>6 DEF Unique, InCall, Held, Stopped
<1>8. Taken'
  BY <1>2, <1>3, <1>4, <1>6 DEF Taken
<1> QED BY <1>5, <1>7, <1>8

LEMMA ZynqInitSubsystems == ASSUME ZInv, zynq_device_init_subsystems PROVE ZInv'
<1> USE DEF ZInv
<1>1. /\ ~running /\ running' = TRUE /\ locked' = {} /\ elems' = [s \in Pool |-> None]
      /\ UNCHANGED <<coherent, data, th>>
  BY DEF zynq_device_init_subsystems
<1>2. \A t \in Threads : th[t].pc = "idle" /\ th[t].slot = None /\ th[t].has = {}
  BY <1>1 DEF Stopped, InCall
<1>3. \A s \in Pool : elems'[s] = None /\ s # None
  BY SMT, <1>1, ZynqAssumption DEF Pool
<1>4. ZynqTypeOK'
  BY <1>1 DEF ZynqTypeOK
<1>5. Unique' /\ InCall' /\ Held' /\ Stopped'
  BY <1>1, <1>2, <1>3 DEF Unique, InCall, Held, Stopped
<1>6. Taken'
  BY <1>1, <1>2, <1>3 DEF Taken
<1> QED BY <1>4, <1>5, <1>6

LEMMA ZInvInit == ZynqInit => ZInv
<1> SUFFICES ASSUME ZynqInit PROVE ZInv
  OBVIOUS
<1> USE DEF ZynqInit
<1>1. \A s \in Pool : elems[s] = None /\ s # None
  BY SMT, ZynqAssumption DEF Pool
<1>2. ASSUME NEW t \in Threads
      PROVE  th[t] \in Calls /\ th[t].pc = "idle" /\ th[t].slot = None /\ th[t].has = {}
  BY DEF Calls, Pcs
<1>3. ZynqTypeOK
  <2>1. th \in [Threads -> Calls]
    BY <1>2
  <2> QED BY <2>1 DEF ZynqTypeOK
<1>4. Unique /\ InCall /\ Held /\ Taken /\ Stopped
  BY <1>1, <1>2 DEF Unique, InCall, Held, Taken, Stopped
<1> QED BY <1>3, <1>4 DEF ZInv

LEMMA ZInvStep == ~Reuse /\ ZInv /\ [ZynqNext]_zynqVars => ZInv'
<1> SUFFICES ASSUME ~Reuse, ZInv, [ZynqNext]_zynqVars PROVE ZInv'
  OBVIOUS
<1>1. CASE zynq_device_init_subsystems
  BY <1>1, ZynqInitSubsystems
<1>2. CASE zynq_device_exit_subsystems
  BY <1>2, ZynqExit
<1>3. ASSUME NEW t \in Threads, zynq_ioctl_alloc(t) \/ zynq_ioctl_alloc_copyto(t) PROVE ZInv'
  BY <1>3, ZynqAlloc DEF zynq_ioctl_alloc, zynq_ioctl_alloc_copyto
<1>4. ASSUME NEW t \in Threads, dma_alloc_coherent(t) PROVE ZInv'
  BY <1>4, ZynqCoherent
<1>5. ASSUME NEW t \in Threads, AllocFails(t) PROVE ZInv'
  BY <1>5, ZynqAllocFails
<1>6. ASSUME NEW t \in Threads, zynq_ioctl_copyto(t) PROVE ZInv'
  BY <1>6, ZynqCopyto
<1>7. ASSUME NEW t \in Threads, zynq_ioctl_free(t) \/ zynq_ioctl_copyfrom_free(t) PROVE ZInv'
  BY <1>7, ZynqFree DEF zynq_ioctl_free, zynq_ioctl_copyfrom_free
<1>8. ASSUME NEW t \in Threads, zynq_dmamgmt_dealloc(t) PROVE ZInv'
  BY <1>8, ZynqDealloc
<1>9. CASE UNCHANGED zynqVars
  BY SMT, <1>9 DEF zynqVars, ZInv, ZynqTypeOK, Unique, InCall, Held, Taken, Stopped
<1> QED BY <1>1, <1>2, <1>3, <1>4, <1>5, <1>6, <1>7, <1>8, <1>9 DEF ZynqNext

\* However the threads' calls interleave, an address that zynq_dmamgmt_alloc gave
\* to a thread finds that thread's buffer until the thread frees it, no memory is
\* lost or freed twice, and no slot is lost: zynq_dmamgmt_dealloc clears the slot
\* before it goes back to the pool.  Memory is taken not to be given out again
\* between dma_free_coherent and that clearing.
THEOREM ZynqAddresses == ASSUME ~Reuse PROVE ZynqSpec => []AddressesValid
<1>1. ZInv /\ [ZynqNext]_zynqVars => ZInv'
  BY ZInvStep
<1> QED BY <1>1, ZInvInit, ZInvValid, PTL DEF ZynqSpec

-----------------------------------------------------------------------------
(* The buffers of a PCIe device.                                             *)

Entry == [id : Nat, buf : Mem, dev_addr : BOOLEAN]
Handles == [kind : {"dma", "gp"}, id : Nat, buf : Mem]
Table == 0 .. NumBuffers - 1

BufTypeOK ==
  /\ opened \subseteq Procs /\ dma_buffer \in [Table -> Mem \cup {Free}] /\ gp_buffer \in Seq(Entry)
  /\ mem \subseteq Mem /\ mapped \subseteq Mem /\ held \in [Procs -> SUBSET Handles]
  /\ views \subseteq Procs \X Mem

\* No piece of memory is in two places; the ids of the list increase.
Once ==
  /\ \A i, j \in Table : dma_buffer[i] = dma_buffer[j] /\ dma_buffer[i] # Free => i = j
  /\ \A i, j \in DOMAIN gp_buffer : i < j => gp_buffer[i].id < gp_buffer[j].id
  /\ \A i, j \in DOMAIN gp_buffer : gp_buffer[i].buf = gp_buffer[j].buf => i = j
  /\ \A i \in Table : \A j \in DOMAIN gp_buffer : dma_buffer[i] # gp_buffer[j].buf

InList(m) == \E j \in DOMAIN gp_buffer : gp_buffer[j].buf = m
ListMapped(m) == \E j \in DOMAIN gp_buffer : gp_buffer[j].buf = m /\ gp_buffer[j].dev_addr

Allocated ==
  /\ \A m \in Mem : m \in mem <=> (\E i \in Table : dma_buffer[i] = m) \/ InList(m)
  /\ \A m \in Mem : m \in mapped <=> (\E i \in Table : dma_buffer[i] = m) \/ ListMapped(m)

\* One process at a time has the device file open, and buffers.
OneUser ==
  /\ \A p, q \in opened : p = q
  /\ \A p \in Procs : held[p] # {} => p \in opened

HandleOK(h) ==
  /\ h.kind = "dma" => h.id \in Table /\ dma_buffer[h.id] = h.buf
  /\ h.kind = "gp" => \E i \in DOMAIN gp_buffer : gp_buffer[i].id = h.id /\ gp_buffer[i].buf = h.buf
Given == \A p \in Procs : \A h \in held[p] : HandleOK(h)
Viewed == \A p \in Procs : \A m \in Mem : <<p, m>> \in views => \E h \in held[p] : h.kind = "dma" /\ h.buf = m

BInv == BufTypeOK /\ Once /\ Allocated /\ OneUser /\ Given /\ Viewed

LEMMA FoundFacts ==
  ASSUME BufTypeOK, Once, NEW i \in DOMAIN gp_buffer
  PROVE  Found(gp_buffer[i].id) = i
<1>0. i \in Nat /\ \A j \in DOMAIN gp_buffer : j \in Nat /\ gp_buffer[j].id \in Nat
  <2>1. \A j \in DOMAIN gp_buffer : j \in Nat /\ gp_buffer[j] \in Entry
    BY SMT DEF BufTypeOK
  <2> QED BY <2>1 DEF Entry
<1>1. \A j \in DOMAIN gp_buffer : gp_buffer[j].id = gp_buffer[i].id => j = i
  <2> SUFFICES ASSUME NEW j \in DOMAIN gp_buffer, gp_buffer[j].id = gp_buffer[i].id, j # i PROVE FALSE
    OBVIOUS
  <2>1. CASE j < i
    <3>1. gp_buffer[j].id < gp_buffer[i].id
      BY <2>1 DEF Once
    <3> QED BY SMT, <1>0, <3>1
  <2>2. CASE i < j
    <3>1. gp_buffer[i].id < gp_buffer[j].id
      BY <2>2 DEF Once
    <3> QED BY SMT, <1>0, <3>1
  <2> QED BY SMT, <1>0, <2>1, <2>2
<1>2. \A j \in 1 .. i - 1 : j \in DOMAIN gp_buffer /\ j # i
  <2>1. DOMAIN gp_buffer = 1 .. Len(gp_buffer) /\ Len(gp_buffer) \in Nat
    BY SMT DEF BufTypeOK
  <2> QED BY SMT, <1>0, <2>1
<1> QED BY <1>1, <1>2 DEF Found

LEMMA BInvKept == BInv => BuffersKept
<1> SUFFICES ASSUME BInv PROVE BuffersKept
  OBVIOUS
<1> USE DEF BInv
<1>1. BuffersOwned
  <2> DEFINE table == {dma_buffer[i] : i \in InTable}
             list == {gp_buffer[i].buf : i \in DOMAIN gp_buffer}
             set == {gp_buffer[i].buf : i \in {j \in DOMAIN gp_buffer : gp_buffer[j].dev_addr}}
  <2>1. \A m \in Mem : m \in table <=> \E i \in Table : dma_buffer[i] = m
    <3>1. DOMAIN dma_buffer = Table /\ Free \notin Mem
      BY BufAssumption DEF BufTypeOK
    <3> QED BY <3>1 DEF InTable
  <2>2. table \subseteq Mem /\ list \subseteq Mem /\ set \subseteq Mem
    <3>1. \A j \in DOMAIN gp_buffer : gp_buffer[j] \in Entry
      BY SMT DEF BufTypeOK
    <3>2. table \subseteq Mem
      BY DEF BufTypeOK, InTable
    <3> QED BY <3>1, <3>2 DEF Entry
  <2>3. \A m \in Mem : (m \in list <=> InList(m)) /\ (m \in set <=> ListMapped(m))
    BY DEF InList, ListMapped
  <2>4. mem = table \cup list
    <3> HIDE DEF table, list
    <3> QED BY <2>1, <2>2, <2>3 DEF Allocated, BufTypeOK
  <2>5. mapped = table \cup set
    <3> HIDE DEF table, set
    <3> QED BY <2>1, <2>2, <2>3 DEF Allocated, BufTypeOK
  <2>6. table \cap list = {}
    BY SMT DEF Once, InTable, BufTypeOK
  <2>7. \A i, j \in InTable : dma_buffer[i] = dma_buffer[j] => i = j
    BY DEF Once, InTable, BufTypeOK
  <2>8. \A i, j \in DOMAIN gp_buffer : gp_buffer[i].buf = gp_buffer[j].buf => i = j
    BY DEF Once
  <2> QED BY <2>4, <2>5, <2>6, <2>7, <2>8 DEF BuffersOwned
<1>2. HandlesValid
  <2> SUFFICES ASSUME NEW p \in Procs
               PROVE  /\ \A h \in held[p] :
                           /\ h.kind = "dma" => dma_buffer[h.id] = h.buf
                           /\ h.kind = "gp" => /\ \E i \in DOMAIN gp_buffer : gp_buffer[i].id = h.id
                                               /\ gp_buffer[Found(h.id)].buf = h.buf
                           /\ \A q \in Procs \ {p} : \A g \in held[q] : g.buf # h.buf
                      /\ \A m \in Mem : <<p, m>> \in views => \E h \in held[p] : h.buf = m
    BY DEF HandlesValid
  <2>1. ASSUME NEW h \in held[p]
        PROVE  /\ h.kind = "dma" => dma_buffer[h.id] = h.buf
               /\ h.kind = "gp" => /\ \E i \in DOMAIN gp_buffer : gp_buffer[i].id = h.id
                                   /\ gp_buffer[Found(h.id)].buf = h.buf
               /\ \A q \in Procs \ {p} : \A g \in held[q] : g.buf # h.buf
    <3>1. HandleOK(h)
      BY DEF Given
    <3>2. ASSUME h.kind = "gp"
          PROVE  /\ \E i \in DOMAIN gp_buffer : gp_buffer[i].id = h.id
                 /\ gp_buffer[Found(h.id)].buf = h.buf
      <4>1. PICK i \in DOMAIN gp_buffer : gp_buffer[i].id = h.id /\ gp_buffer[i].buf = h.buf
        BY <3>1, <3>2 DEF HandleOK
      <4>2. Found(h.id) = i
        BY <4>1, FoundFacts
      <4> QED BY <4>1, <4>2
    <3>3. \A q \in Procs \ {p} : held[q] = {}
      BY DEF OneUser
    <3> QED BY <3>1, <3>2, <3>3 DEF HandleOK
  <2> QED BY SMT, <2>1 DEF Viewed
<1> QED BY <1>1, <1>2 DEF BuffersKept

LEMMA ListFacts ==
  ASSUME BufTypeOK
  PROVE  /\ Len(gp_buffer) \in Nat /\ DOMAIN gp_buffer = 1 .. Len(gp_buffer)
         /\ \A j \in DOMAIN gp_buffer : /\ j \in Nat /\ gp_buffer[j].id \in Nat /\ gp_buffer[j].buf \in Mem
                                        /\ gp_buffer[j].dev_addr \in BOOLEAN
<1>1. Len(gp_buffer) \in Nat /\ DOMAIN gp_buffer = 1 .. Len(gp_buffer)
  BY SMT DEF BufTypeOK
<1>2. \A j \in DOMAIN gp_buffer : j \in Nat /\ gp_buffer[j] \in Entry
  BY SMT DEF BufTypeOK
<1> QED BY <1>1, <1>2 DEF Entry

LEMMA TableFacts ==
  ASSUME BufTypeOK
  PROVE  /\ DOMAIN dma_buffer = Table /\ Table \subseteq Nat
         /\ \A i \in Table : dma_buffer[i] \in Mem \cup {Free}
BY SMT, BufAssumption DEF BufTypeOK, Table

\* A process gets one more buffer, or gives one back.
LEMMA HeldStep ==
  ASSUME BufTypeOK, NEW p \in Procs, NEW s \in SUBSET Handles, held' = [held EXCEPT ![p] = s]
  PROVE  /\ held' \in [Procs -> SUBSET Handles] /\ held'[p] = s
         /\ \A q \in Procs : q # p => held'[q] = held[q]
BY DEF BufTypeOK

LEMMA ViewedKept ==
  ASSUME Viewed, views' \subseteq views, \A q \in Procs : held[q] \subseteq held'[q] PROVE Viewed'
BY DEF Viewed

LEMMA DmaAllocate ==
  ASSUME BInv, NEW p \in Procs, pcie_ioctl_dma_buffer_allocate(p) PROVE BInv'
<1> USE DEF BInv
<1>1. PICK i \in DOMAIN dma_buffer, m \in Mem \ mem :
        /\ dma_buffer[i] = Free
        /\ dma_buffer' = [dma_buffer EXCEPT ![i] = m]
        /\ mem' = mem \cup {m} /\ mapped' = mapped \cup {m}
        /\ held' = [held EXCEPT ![p] = @ \cup {Handle("dma", i, m)}]
  BY DEF pcie_ioctl_dma_buffer_allocate
<1>2. p \in opened /\ UNCHANGED <<opened, gp_buffer, views>>
  BY DEF pcie_ioctl_dma_buffer_allocate
<1>3. i \in Table /\ i \in Nat /\ m # Free
  BY <1>1, TableFacts, BufAssumption
<1>4. dma_buffer'[i] = m /\ \A j \in Table : j # i => dma_buffer'[j] = dma_buffer[j]
  BY <1>1, <1>3 DEF BufTypeOK
<1> DEFINE h == [kind |-> "dma", id |-> i, buf |-> m]
<1>5. /\ held' \in [Procs -> SUBSET Handles] /\ held'[p] = held[p] \cup {h}
      /\ \A q \in Procs : q # p => held'[q] = held[q]
  <2>1. held[p] \cup {h} \in SUBSET Handles
    BY SMT, <1>3 DEF Handles, BufTypeOK
  <2>2. held' = [held EXCEPT ![p] = held[p] \cup {h}]
    BY <1>1 DEF Handle
  <2> QED BY <2>1, <2>2, HeldStep
<1>6. (\A j \in Table : dma_buffer[j] # m) /\ ~InList(m)
  BY <1>1 DEF Allocated
<1>7. BufTypeOK'
  BY <1>1, <1>2, <1>3, <1>5 DEF BufTypeOK
<1>8. Once'
  BY SMT, <1>2, <1>3, <1>4, <1>6 DEF Once, InList
<1>9. Allocated'
  <2>1. \A x \in Mem : (InList(x)' <=> InList(x)) /\ (ListMapped(x)' <=> ListMapped(x))
    BY <1>2 DEF InList, ListMapped
  <2>2. \A x \in Mem : (\E j \in Table : dma_buffer'[j] = x) <=> (\E j \in Table : dma_buffer[j] = x) \/ x = m
    BY <1>1, <1>3, <1>4, BufAssumption
  <2> QED BY <1>1, <2>1, <2>2 DEF Allocated
<1>11. OneUser'
  BY <1>2, <1>5 DEF OneUser
<1>12. Given'
  <2>1. ASSUME NEW q \in Procs, NEW g \in held'[q] PROVE HandleOK(g)'
    <3>1. CASE g = h
      BY <1>3, <1>4, <3>1 DEF HandleOK
    <3>2. CASE g \in held[q]
      <4>1. HandleOK(g)
        BY <3>2 DEF Given
      <4>2. g.kind = "dma" => g.id # i
        <5>1. g.buf \in Mem
          BY SMT, <3>2 DEF BufTypeOK, Handles
        <5> QED BY <1>1, <4>1, <5>1, BufAssumption DEF HandleOK
      <4> QED BY <1>2, <1>4, <4>1, <4>2 DEF HandleOK
    <3> QED BY <1>5, <3>1, <3>2
  <2> QED BY <2>1 DEF Given
<1>13. Viewed'
  BY SMT, <1>2, <1>5 DEF Viewed
<1> QED BY <1>7, <1>8, <1>9, <1>11, <1>12, <1>13

LEMMA DmaFree == ASSUME BInv, NEW p \in Procs, pcie_ioctl_dma_buffer_free(p) PROVE BInv'
<1> USE DEF BInv
<1>1. PICK h \in held[p] :
        /\ h.kind = "dma" /\ <<p, h.buf>> \notin views
        /\ dma_buffer' = [dma_buffer EXCEPT ![h.id] = Free]
        /\ mem' = mem \ {dma_buffer[h.id]} /\ mapped' = mapped \ {dma_buffer[h.id]}
        /\ held' = [held EXCEPT ![p] = @ \ {h}]
  BY DEF pcie_ioctl_dma_buffer_free
<1>2. UNCHANGED <<opened, gp_buffer, views>>
  BY DEF pcie_ioctl_dma_buffer_free
<1> DEFINE i == h.id
           m == h.buf
<1>3. h \in Handles /\ i \in Table /\ dma_buffer[i] = m /\ m \in Mem /\ m # Free
  <2>1. HandleOK(h) /\ h \in Handles
    BY DEF Given, BufTypeOK
  <2> QED BY <1>1, <2>1, BufAssumption DEF HandleOK, Handles
<1>4. dma_buffer'[i] = Free /\ \A j \in Table : j # i => dma_buffer'[j] = dma_buffer[j]
  BY <1>1, <1>3 DEF BufTypeOK
<1>5. /\ held' \in [Procs -> SUBSET Handles] /\ held'[p] = held[p] \ {h}
      /\ \A q \in Procs : q # p => held'[q] = held[q]
  <2>1. held[p] \ {h} \in SUBSET Handles
    BY DEF BufTypeOK
  <2> QED BY <1>1, <2>1, HeldStep
<1>6. (\A j \in Table : j # i => dma_buffer[j] # m) /\ ~InList(m) /\ m \in mem
  BY SMT, <1>3 DEF Once, InList, Allocated
<1>7. BufTypeOK'
  BY <1>1, <1>2, <1>3, <1>5 DEF BufTypeOK
<1>8. Once'
  BY SMT, <1>2, <1>3, <1>4, ListFacts, BufAssumption DEF Once
<1>9. Allocated'
  <2>1. \A x \in Mem : (InList(x)' <=> InList(x)) /\ (ListMapped(x)' <=> ListMapped(x))
    BY <1>2 DEF InList, ListMapped
  <2>2. \A x \in Mem : (\E j \in Table : dma_buffer'[j] = x) <=> (\E j \in Table : dma_buffer[j] = x) /\ x # m
    BY <1>3, <1>4, <1>6, BufAssumption
  <2>3. ~ListMapped(m)
    BY <1>6 DEF InList, ListMapped
  <2> QED BY <1>1, <1>3, <1>6, <2>1, <2>2, <2>3 DEF Allocated
<1>11. OneUser'
  BY <1>2, <1>5 DEF OneUser
<1>12. Given'
  <2>1. ASSUME NEW q \in Procs, NEW g \in held'[q] PROVE HandleOK(g)'
    <3>1. g \in held[q] /\ g # h /\ g \in Handles
      <4>1. q = p
        BY <1>5 DEF OneUser
      <4> QED BY <1>5, <4>1 DEF BufTypeOK
    <3>2. HandleOK(g)
      BY <3>1 DEF Given
    <3>3. g.kind = "dma" => g.id # i
      BY SMT, <1>1, <1>3, <3>1, <3>2 DEF HandleOK, Handles
    <3> QED BY <1>2, <1>4, <3>2, <3>3 DEF HandleOK
  <2> QED BY <2>1 DEF Given
<1>13. Viewed'
  BY SMT, <1>1, <1>2, <1>5 DEF Viewed
<1> QED BY <1>7, <1>8, <1>9, <1>11, <1>12, <1>13

\* A new id is larger than those on the list.
LEMMA NewId ==
  ASSUME BufTypeOK, Once
  PROVE  kernel_buffer_id \in Nat /\ \A j \in DOMAIN gp_buffer : gp_buffer[j].id < kernel_buffer_id
<1>1. CASE gp_buffer = <<>>
  BY SMT, <1>1 DEF kernel_buffer_id
<1>2. CASE gp_buffer # <<>>
  <2> DEFINE L == Len(gp_buffer)
  <2>1. L \in DOMAIN gp_buffer /\ \A j \in DOMAIN gp_buffer : j <= L
    BY SMT, <1>2, ListFacts DEF BufTypeOK
  <2>2. kernel_buffer_id = gp_buffer[L].id + 1
    BY <1>2 DEF kernel_buffer_id
  <2>3. ASSUME NEW j \in DOMAIN gp_buffer PROVE gp_buffer[j].id <= gp_buffer[L].id
    <3>1. CASE j = L
      BY SMT, <2>1, <3>1, ListFacts
    <3>2. CASE j # L
      <4>1. j < L
        BY SMT, <2>1, <3>2, ListFacts
      <4>2. gp_buffer[j].id < gp_buffer[L].id
        BY <2>1, <4>1 DEF Once
      <4> QED BY SMT, <2>1, <4>2, ListFacts
    <3> QED BY <3>1, <3>2
  <2> QED BY SMT, <2>1, <2>2, <2>3, ListFacts
<1> QED BY <1>1, <1>2

LEMMA KernelAllocate ==
  ASSUME BInv, NEW p \in Procs, pcie_ioctl_kernel_buffer_allocate(p) PROVE BInv'
<1> USE DEF BInv
<1> DEFINE n == kernel_buffer_id
           L == Len(gp_buffer)
<1>1. PICK m \in Mem \ mem :
        /\ gp_buffer' = Append(gp_buffer, [id |-> n, buf |-> m, dev_addr |-> FALSE])
        /\ mem' = mem \cup {m}
        /\ held' = [held EXCEPT ![p] = @ \cup {Handle("gp", n, m)}]
  BY DEF pcie_ioctl_kernel_buffer_allocate
<1>2. p \in opened /\ UNCHANGED <<opened, dma_buffer, mapped, views>>
  BY DEF pcie_ioctl_kernel_buffer_allocate
<1>3. n \in Nat /\ \A j \in DOMAIN gp_buffer : gp_buffer[j].id < n
  BY NewId
<1> HIDE DEF n
<1> DEFINE h == [kind |-> "gp", id |-> n, buf |-> m]
           e == [id |-> n, buf |-> m, dev_addr |-> FALSE]
<1>4. /\ DOMAIN gp_buffer' = DOMAIN gp_buffer \cup {L + 1} /\ L + 1 \notin DOMAIN gp_buffer
      /\ gp_buffer'[L + 1] = e /\ \A j \in DOMAIN gp_buffer : gp_buffer'[j] = gp_buffer[j]
      /\ Len(gp_buffer') = L + 1 /\ gp_buffer' \in Seq(Entry)
  <2>1. e \in Entry /\ gp_buffer \in Seq(Entry)
    BY <1>3 DEF Entry, BufTypeOK
  <2> HIDE DEF e
  <2> QED BY SMT, <1>1, <2>1, ListFacts DEF e
<1>5. /\ held' \in [Procs -> SUBSET Handles] /\ held'[p] = held[p] \cup {h}
      /\ \A q \in Procs : q # p => held'[q] = held[q]
  <2>1. held[p] \cup {h} \in SUBSET Handles
    BY SMT, <1>3 DEF Handles, BufTypeOK
  <2>2. held' = [held EXCEPT ![p] = held[p] \cup {h}]
    BY <1>1 DEF Handle
  <2> QED BY <2>1, <2>2, HeldStep
<1>6. (\A j \in Table : dma_buffer[j] # m) /\ ~InList(m)
  BY <1>1 DEF Allocated
<1>7. BufTypeOK'
  BY <1>1, <1>2, <1>4, <1>5 DEF BufTypeOK
<1>8. Once'
  <2>1. \A i, j \in DOMAIN gp_buffer' : i < j => gp_buffer'[i].id < gp_buffer'[j].id
    <3>1. \A i \in DOMAIN gp_buffer : i < L + 1
      BY SMT, ListFacts
    <3>2. L + 1 \in Nat /\ \A i \in DOMAIN gp_buffer : i \in Nat
      BY SMT, ListFacts
    <3> SUFFICES ASSUME NEW i \in DOMAIN gp_buffer', NEW j \in DOMAIN gp_buffer', i < j
                 PROVE  gp_buffer'[i].id < gp_buffer'[j].id
      OBVIOUS
    <3>3. i \in DOMAIN gp_buffer /\ (j \in DOMAIN gp_buffer \/ j = L + 1)
      <4> HIDE DEF L
      <4>1. i \in DOMAIN gp_buffer \cup {L + 1} /\ j \in DOMAIN gp_buffer \cup {L + 1}
        BY <1>4
      <4> QED BY SMT, <3>1, <3>2, <4>1
    <3>4. CASE j \in DOMAIN gp_buffer
      <4>1. gp_buffer[i].id < gp_buffer[j].id
        BY <3>3, <3>4 DEF Once
      <4> QED BY <1>4, <3>3, <3>4, <4>1
    <3>5. CASE j = L + 1
      <4>1. gp_buffer'[j].id = n /\ gp_buffer'[i] = gp_buffer[i]
        BY SMTT(20), <1>4, <3>3, <3>5
      <4> QED BY <1>3, <3>3, <4>1
    <3> QED BY <3>3, <3>4, <3>5
  <2>2. \A i, j \in DOMAIN gp_buffer' : gp_buffer'[i].buf = gp_buffer'[j].buf => i = j
    BY SMT, <1>4, <1>6 DEF Once, InList
  <2>3. \A i \in Table : \A j \in DOMAIN gp_buffer' : dma_buffer[i] # gp_buffer'[j].buf
    BY SMT, <1>4, <1>6 DEF Once
  <2> QED BY <1>2, <2>1, <2>2, <2>3 DEF Once
<1>9. Allocated'
  <2>1. \A x \in Mem : (InList(x)' <=> InList(x) \/ x = m) /\ (ListMapped(x)' <=> ListMapped(x))
    BY SMT, <1>4 DEF InList, ListMapped
  <2> QED BY <1>1, <1>2, <2>1 DEF Allocated
<1>11. OneUser'
  BY <1>2, <1>5 DEF OneUser
<1>12. Given'
  <2>1. ASSUME NEW q \in Procs, NEW g \in held'[q] PROVE HandleOK(g)'
    <3>1. CASE g = h
      BY SMTT(20), <1>4, <3>1 DEF HandleOK
    <3>2. CASE g \in held[q]
      BY SMT, <1>2, <1>4, <3>2 DEF Given, HandleOK
    <3> QED BY <1>5, <3>1, <3>2
  <2> QED BY <2>1 DEF Given
<1>13. Viewed'
  <2>1. \A q \in Procs : held[q] \subseteq held'[q]
    BY <1>5
  <2> QED BY <1>2, <2>1, ViewedKept
<1> QED BY <1>7, <1>8, <1>9, <1>11, <1>12, <1>13

LEMMA KernelSet ==
  ASSUME BInv, NEW p \in Procs, NEW on \in BOOLEAN, kernel_buffer_set(p, on) PROVE BInv'
<1> USE DEF BInv
<1>1. PICK h \in held[p] :
        /\ h.kind = "gp" /\ gp_buffer[Found(h.id)].dev_addr = ~on
        /\ gp_buffer' = [gp_buffer EXCEPT ![Found(h.id)].dev_addr = on]
        /\ mapped' = IF on THEN mapped \cup {gp_buffer[Found(h.id)].buf}
                     ELSE mapped \ {gp_buffer[Found(h.id)].buf}
  BY DEF kernel_buffer_set
<1>2. UNCHANGED <<opened, dma_buffer, mem, held, views>>
  BY DEF kernel_buffer_set
<1>3. PICK i \in DOMAIN gp_buffer : gp_buffer[i].id = h.id /\ gp_buffer[i].buf = h.buf
  BY <1>1 DEF Given, HandleOK
<1>4. Found(h.id) = i
  BY <1>3, FoundFacts
<1> PICK m \in Mem : m = gp_buffer[i].buf
  BY ListFacts
<1> DEFINE e == [gp_buffer[i] EXCEPT !.dev_addr = on]
<1>5. e \in Entry /\ e.id = gp_buffer[i].id /\ e.buf = m /\ e.dev_addr = on
  <2>1. gp_buffer[i] \in Entry
    BY SMT DEF BufTypeOK
  <2> QED BY <2>1 DEF Entry
<1>6. gp_buffer' = [gp_buffer EXCEPT ![i] = e]
  BY <1>1, <1>4
<1> HIDE DEF e
<1>7. /\ gp_buffer' \in Seq(Entry) /\ Len(gp_buffer') = Len(gp_buffer) /\ DOMAIN gp_buffer' = DOMAIN gp_buffer
      /\ gp_buffer'[i] = e /\ \A j \in DOMAIN gp_buffer : j # i => gp_buffer'[j] = gp_buffer[j]
  BY SMT, <1>5, <1>6 DEF BufTypeOK
<1>8. \A j \in DOMAIN gp_buffer : gp_buffer'[j].id = gp_buffer[j].id /\ gp_buffer'[j].buf = gp_buffer[j].buf
  BY <1>5, <1>7
<1>9. m \in Mem /\ mapped' = IF on THEN mapped \cup {m} ELSE mapped \ {m}
  BY <1>1, <1>4, ListFacts
<1>10. BufTypeOK'
  BY <1>2, <1>7, <1>9 DEF BufTypeOK
<1>11. Once'
  <2>1. \A x, y \in DOMAIN gp_buffer' : x < y => gp_buffer'[x].id < gp_buffer'[y].id
    BY <1>7, <1>8 DEF Once
  <2>2. \A x, y \in DOMAIN gp_buffer' : gp_buffer'[x].buf = gp_buffer'[y].buf => x = y
    BY <1>7, <1>8 DEF Once
  <2>3. \A x \in Table : \A y \in DOMAIN gp_buffer' : dma_buffer[x] # gp_buffer'[y].buf
    BY SMT, <1>7, <1>8 DEF Once
  <2>4. \A x, y \in Table : dma_buffer[x] = dma_buffer[y] /\ dma_buffer[x] # Free => x = y
    BY DEF Once
  <2> QED BY <1>2, <2>1, <2>2, <2>3, <2>4 DEF Once
<1>12. Allocated'
  <2>1. \A x \in Mem : InList(x)' <=> InList(x)
    BY <1>7, <1>8 DEF InList
  <2>2. \A x \in Mem : x # m => (ListMapped(x)' <=> ListMapped(x))
    BY <1>7, <1>8 DEF ListMapped
  <2>3. ListMapped(m)' <=> on
    BY SMT, <1>5, <1>7, <1>8 DEF ListMapped, Once
  <2>4. \A j \in Table : dma_buffer[j] # m
    BY DEF Once
  <2>5. \A x \in Mem : x \in mapped' <=> (IF x = m THEN on ELSE x \in mapped)
    BY <1>9
  <2>6. \A x \in Mem : x \in mapped' <=> (\E j \in Table : dma_buffer[j] = x) \/ ListMapped(x)'
    BY <2>2, <2>3, <2>4, <2>5 DEF Allocated
  <2>7. \A x \in Mem : x \in mem <=> (\E j \in Table : dma_buffer[j] = x) \/ InList(x)'
    BY <2>1 DEF Allocated
  <2> QED BY <1>2, <2>6, <2>7 DEF Allocated
<1>14. OneUser'
  BY <1>2 DEF OneUser
<1>15. Given'
  BY SMT, <1>2, <1>7, <1>8 DEF Given, HandleOK
<1>16. Viewed'
  BY <1>2 DEF Viewed
<1> QED BY <1>10, <1>11, <1>12, <1>14, <1>15, <1>16

\* The process gives the buffer back, and the list stays as it is.
LEMMA KernelFreeOther ==
  ASSUME BInv, NEW p \in Procs, NEW h \in held[p], h.kind = "gp",
         held' = [held EXCEPT ![p] = @ \ {h}], UNCHANGED <<opened, dma_buffer, gp_buffer, mem, mapped, views>>
  PROVE  BInv'
<1> USE DEF BInv
<1>1. /\ held' \in [Procs -> SUBSET Handles] /\ held'[p] = held[p] \ {h}
      /\ \A q \in Procs : q # p => held'[q] = held[q]
  <2>1. held[p] \ {h} \in SUBSET Handles
    BY DEF BufTypeOK
  <2> QED BY <2>1, HeldStep
<1>2. BufTypeOK'
  BY <1>1 DEF BufTypeOK
<1>3. Once' /\ Allocated'
  BY DEF Once, Allocated, InList, ListMapped, InTable
<1>4. OneUser'
  BY <1>1 DEF OneUser
<1>5. Given'
  BY SMT, <1>1 DEF Given, HandleOK
<1>6. Viewed'
  BY SMT, <1>1 DEF Viewed
<1> QED BY <1>2, <1>3, <1>4, <1>5, <1>6

LEMMA KernelFree == ASSUME BInv, NEW p \in Procs, pcie_ioctl_kernel_buffer_free(p) PROVE BInv'
<1> USE DEF BInv
<1>1. PICK h \in held[p] :
        /\ h.kind = "gp"
        /\ held' = [held EXCEPT ![p] = @ \ {h}]
        /\ IF Head(gp_buffer).id = h.id
           THEN /\ gp_buffer' = Tail(gp_buffer)
                /\ mem' = mem \ {Head(gp_buffer).buf} /\ mapped' = mapped \ {Head(gp_buffer).buf}
           ELSE UNCHANGED <<gp_buffer, mem, mapped>>
  BY DEF pcie_ioctl_kernel_buffer_free
<1>2. UNCHANGED <<opened, dma_buffer, views>>
  BY DEF pcie_ioctl_kernel_buffer_free
<1>3. CASE Head(gp_buffer).id # h.id
  BY <1>1, <1>2, <1>3, KernelFreeOther
<1>4. CASE Head(gp_buffer).id = h.id
  <2> DEFINE L == Len(gp_buffer)
             m == gp_buffer[1].buf
  <2>1. \E i \in DOMAIN gp_buffer : gp_buffer[i].id = h.id /\ gp_buffer[i].buf = h.buf
    BY <1>1 DEF Given, HandleOK
  <2>2. gp_buffer # <<>> /\ 1 \in DOMAIN gp_buffer /\ L >= 1 /\ Head(gp_buffer) = gp_buffer[1]
    <3>1. L \in Nat /\ L >= 1 /\ 1 \in DOMAIN gp_buffer
      BY SMT, <2>1, ListFacts
    <3> QED BY SMT, <3>1 DEF BufTypeOK
  <2>3. /\ gp_buffer' = Tail(gp_buffer) /\ mem' = mem \ {m} /\ mapped' = mapped \ {m}
        /\ gp_buffer[1].id = h.id /\ m \in Mem
    BY <1>1, <1>4, <2>2, ListFacts
  <2>4. m = h.buf
    <3>1. PICK i \in DOMAIN gp_buffer : gp_buffer[i].id = h.id /\ gp_buffer[i].buf = h.buf
      BY <2>1
    <3>2. Found(h.id) = i /\ Found(h.id) = 1
      <4>1. Found(gp_buffer[i].id) = i
        BY FoundFacts
      <4>2. Found(gp_buffer[1].id) = 1
        BY <2>2, FoundFacts
      <4> QED BY <2>3, <3>1, <4>1, <4>2
    <3> QED BY <3>1, <3>2
  <2>5. /\ gp_buffer' \in Seq(Entry) /\ Len(gp_buffer') = L - 1 /\ DOMAIN gp_buffer' = 1 .. L - 1
        /\ \A j \in 1 .. L - 1 : gp_buffer'[j] = gp_buffer[j + 1] /\ j + 1 \in DOMAIN gp_buffer /\ j + 1 # 1
        /\ \A j \in DOMAIN gp_buffer : j # 1 => /\ j - 1 \in DOMAIN gp_buffer' /\ (j - 1) + 1 = j
                                                /\ gp_buffer'[j - 1] = gp_buffer[j]
    <3>1. /\ gp_buffer' \in Seq(Entry) /\ Len(gp_buffer') = L - 1
          /\ \A j \in 1 .. L - 1 : gp_buffer'[j] = gp_buffer[j + 1]
      BY SMT, <2>2, <2>3 DEF BufTypeOK
    <3>2. DOMAIN gp_buffer' = 1 .. Len(gp_buffer')
      BY SMT, <3>1
    <3>3. L \in Nat /\ DOMAIN gp_buffer = 1 .. L
      BY ListFacts
    <3> HIDE DEF L
    <3>4. \A j \in 1 .. L - 1 : j + 1 \in 1 .. L /\ j + 1 # 1
      BY SMT, <3>3
    <3>5. \A j \in 1 .. L : j # 1 => j - 1 \in 1 .. L - 1 /\ (j - 1) + 1 = j
      BY SMT, <3>3
    <3> QED BY <3>1, <3>2, <3>3, <3>4, <3>5
  <2>6. /\ held' \in [Procs -> SUBSET Handles] /\ held'[p] = held[p] \ {h}
        /\ \A q \in Procs : q # p => held'[q] = held[q]
    <3>1. held[p] \ {h} \in SUBSET Handles
      BY DEF BufTypeOK
    <3> QED BY <1>1, <3>1, HeldStep
  <2>7. BufTypeOK'
    BY <1>2, <2>3, <2>5, <2>6 DEF BufTypeOK
  <2>8. Once'
    <3>1. \A i, j \in 1 .. L - 1 : i < j => i + 1 < j + 1
      BY SMT, ListFacts
    <3>2. \A i, j \in 1 .. L - 1 : i + 1 = j + 1 => i = j
      BY SMT, ListFacts
    <3>3. ASSUME NEW i \in DOMAIN gp_buffer', NEW j \in DOMAIN gp_buffer'
          PROVE  /\ i < j => gp_buffer'[i].id < gp_buffer'[j].id
                 /\ gp_buffer'[i].buf = gp_buffer'[j].buf => i = j
      <4>1. /\ i + 1 \in DOMAIN gp_buffer /\ j + 1 \in DOMAIN gp_buffer
            /\ gp_buffer'[i] = gp_buffer[i + 1] /\ gp_buffer'[j] = gp_buffer[j + 1]
        BY <2>5
      <4>2. (i < j => i + 1 < j + 1) /\ (i + 1 = j + 1 => i = j)
        BY <2>5, <3>1, <3>2
      <4> DEFINE a == i + 1
                 b == j + 1
      <4>3. /\ a < b => gp_buffer[a].id < gp_buffer[b].id
            /\ gp_buffer[a].buf = gp_buffer[b].buf => a = b
        <5> HIDE DEF a, b
        <5> QED BY <4>1 DEF Once, a, b
      <4> QED BY <4>1, <4>2, <4>3
    <3>4. ASSUME NEW i \in Table, NEW j \in DOMAIN gp_buffer' PROVE dma_buffer[i] # gp_buffer'[j].buf
      <4>1. j + 1 \in DOMAIN gp_buffer /\ gp_buffer'[j] = gp_buffer[j + 1]
        BY <2>5
      <4> QED BY <4>1 DEF Once
    <3> QED BY <1>2, <3>3, <3>4 DEF Once
  <2>9. Allocated'
    <3>1. \A x \in Mem : InList(x)' <=> InList(x) /\ x # m
      <4>1. \A j \in DOMAIN gp_buffer : j # 1 => gp_buffer[j].buf # m
        BY <2>2 DEF Once
      <4>2. ASSUME NEW x \in Mem, InList(x)' PROVE InList(x) /\ x # m
        <5>1. PICK j \in 1 .. L - 1 : gp_buffer'[j].buf = x
          BY <2>5, <4>2 DEF InList
        <5> QED BY <2>5, <4>1, <5>1 DEF InList
      <4>3. ASSUME NEW x \in Mem, InList(x), x # m PROVE InList(x)'
        <5>1. PICK j \in DOMAIN gp_buffer : gp_buffer[j].buf = x
          BY <4>3 DEF InList
        <5>2. j # 1
          BY <2>3, <4>3, <5>1
        <5> QED BY <2>5, <5>1, <5>2 DEF InList
      <4> QED BY <4>2, <4>3
    <3>2. \A x \in Mem : ListMapped(x)' <=> ListMapped(x) /\ x # m
      <4>1. \A j \in DOMAIN gp_buffer : j # 1 => gp_buffer[j].buf # m
        BY <2>2 DEF Once
      <4>2. ASSUME NEW x \in Mem, ListMapped(x)' PROVE ListMapped(x) /\ x # m
        <5>1. PICK j \in 1 .. L - 1 : gp_buffer'[j].buf = x /\ gp_buffer'[j].dev_addr
          BY <2>5, <4>2 DEF ListMapped
        <5>2. j + 1 \in DOMAIN gp_buffer /\ gp_buffer'[j] = gp_buffer[j + 1] /\ j + 1 # 1
          BY <2>5
        <5> QED BY <4>1, <5>1, <5>2 DEF ListMapped
      <4>3. ASSUME NEW x \in Mem, ListMapped(x), x # m PROVE ListMapped(x)'
        <5>1. PICK j \in DOMAIN gp_buffer : gp_buffer[j].buf = x /\ gp_buffer[j].dev_addr
          BY <4>3 DEF ListMapped
        <5>2. j - 1 \in DOMAIN gp_buffer' /\ gp_buffer'[j - 1] = gp_buffer[j]
          BY <2>5, <4>3, <5>1
        <5> QED BY <5>1, <5>2 DEF ListMapped
      <4> QED BY <4>2, <4>3
    <3>3. \A j \in Table : dma_buffer[j] # m
      BY <2>2 DEF Once
    <3> QED BY <1>2, <2>3, <3>1, <3>2, <3>3 DEF Allocated
  <2>11. OneUser'
    BY <1>2, <2>6 DEF OneUser
  <2>12. Given'
    <3>1. ASSUME NEW q \in Procs, NEW g \in held'[q] PROVE HandleOK(g)'
      <4>1. g \in held[q] /\ g # h /\ g \in Handles /\ h \in Handles
        <5>1. q = p
          BY <1>2, <2>6 DEF OneUser
        <5> QED BY <2>6, <5>1 DEF BufTypeOK
      <4>2. HandleOK(g)
        BY <4>1 DEF Given
      <4>3. ASSUME g.kind = "gp"
            PROVE  \E i \in DOMAIN gp_buffer' : gp_buffer'[i].id = g.id /\ gp_buffer'[i].buf = g.buf
        <5>1. PICK i \in DOMAIN gp_buffer : gp_buffer[i].id = g.id /\ gp_buffer[i].buf = g.buf
          BY <4>2, <4>3 DEF HandleOK
        <5>2. i # 1
          BY SMTT(20), <1>1, <2>3, <2>4, <4>1, <4>3, <5>1 DEF Handles
        <5> QED BY SMTT(20), <2>5, <5>1, <5>2
      <4> QED BY <1>2, <4>2, <4>3 DEF HandleOK
    <3> QED BY <3>1 DEF Given
  <2>13. Viewed'
    BY SMT, <1>1, <1>2, <2>6 DEF Viewed
  <2> QED BY <2>7, <2>8, <2>9, <2>11, <2>12, <2>13
<1> QED BY <1>3, <1>4

\* Closing the file releases everything, and only the closing process had anything.
LEMMA Close == ASSUME BInv, NEW p \in Procs, pcie_device_miscdev_close(p) PROVE BInv'
<1> USE DEF BInv
<1> DEFINE freed == {dma_buffer[i] : i \in DOMAIN dma_buffer} \cup {gp_buffer[i].buf : i \in DOMAIN gp_buffer}
<1>1. /\ p \in opened /\ opened' = opened \ {p}
      /\ dma_buffer' = [i \in Table |-> Free] /\ gp_buffer' = <<>>
      /\ mem' = mem \ freed /\ mapped' = mapped \ freed
      /\ held' = [held EXCEPT ![p] = {}] /\ views' = {v \in views : v[1] # p}
  BY TableFacts DEF pcie_device_miscdev_close
<1>2. opened' = {} /\ \A q \in Procs : held'[q] = {}
  <2>1. held'[p] = {} /\ \A q \in Procs : q # p => held'[q] = held[q]
    BY <1>1 DEF BufTypeOK
  <2> QED BY <1>1, <2>1 DEF OneUser
<1>3. views' = {}
  <2>1. ASSUME NEW v \in views PROVE v[1] = p
    <3>1. PICK q \in Procs, m \in Mem : v = <<q, m>>
      BY SMT DEF BufTypeOK
    <3>2. held[q] # {}
      BY <3>1 DEF Viewed
    <3> QED BY <1>1, <3>1, <3>2 DEF OneUser
  <2> QED BY <1>1, <2>1
<1>4. mem' = {} /\ mapped' = {}
  <2>1. \A m \in Mem : m \in mem \/ m \in mapped => m \in freed
    BY TableFacts DEF Allocated, InList, ListMapped
  <2> QED BY <1>1, <2>1 DEF BufTypeOK
<1>5. BufTypeOK'
  <2>1. held' \in [Procs -> SUBSET Handles]
    BY <1>1 DEF BufTypeOK
  <2> QED BY SMT, <1>1, <1>2, <1>3, <1>4, <2>1 DEF BufTypeOK
<1>6. DOMAIN gp_buffer' = {} /\ Len(gp_buffer') = 0 /\ \A i \in Table : dma_buffer'[i] = Free
  BY SMT, <1>1
<1>7. Once'
  BY <1>6 DEF Once
<1>8. Allocated'
  BY <1>4, <1>6, BufAssumption DEF Allocated, InList, ListMapped
<1>10. OneUser' /\ Given' /\ Viewed'
  BY <1>2, <1>3 DEF OneUser, Given, Viewed
<1> QED BY <1>5, <1>7, <1>8, <1>10

\* Only who may look at the buffers changes.
LEMMA OnlyUsers ==
  ASSUME BInv, UNCHANGED <<dma_buffer, gp_buffer, mem, mapped, held>>,
         opened' \subseteq Procs, views' \subseteq Procs \X Mem, OneUser', Viewed'
  PROVE  BInv'
<1>1. BufTypeOK' /\ Once' /\ Allocated'
  BY DEF BInv, BufTypeOK, Once, Allocated, InList, ListMapped, InTable
<1>2. Given'
  BY DEF BInv, Given, HandleOK
<1> QED BY <1>1, <1>2 DEF BInv

LEMMA Open == ASSUME ~Shared, BInv, NEW p \in Procs, OpenDevice(p) PROVE BInv'
<1>1. opened' = {p} /\ opened = {} /\ UNCHANGED <<dma_buffer, gp_buffer, mem, mapped, held, views>>
  BY DEF OpenDevice
<1>2. OneUser'
  BY <1>1 DEF BInv, OneUser
<1>3. Viewed' /\ views' \subseteq Procs \X Mem
  BY <1>1 DEF BInv, BufTypeOK, Viewed
<1> QED BY <1>1, <1>2, <1>3, OnlyUsers

\* The offset of a buffer's id is the page of its table entry.
LEMMA OffsetFacts ==
  ASSUME BufTypeOK, NEW i \in Table
  PROVE  pcie_device_addr2map_off(BufferOffset(i)) = dma_buffer[i]
<1>1. i \in Nat /\ i \in DOMAIN dma_buffer
  BY TableFacts
<1>2. (((4 + i) * 4096) \div 4096) - 4 = i
  BY SMT, <1>1
<1> QED BY SMT, <1>1, <1>2 DEF pcie_device_addr2map_off, BufferOffset, PAGE

LEMMA Mmap == ASSUME BInv, NEW p \in Procs, tlkm_device_mmap(p) PROVE BInv'
<1>1. UNCHANGED <<opened, dma_buffer, gp_buffer, mem, mapped, held>>
  BY DEF tlkm_device_mmap
<1>2. PICK h \in held[p] :
        /\ h.kind = "dma"
        /\ views' = views \cup {<<p, pcie_device_addr2map_off(BufferOffset(h.id))>>}
  BY DEF tlkm_device_mmap
<1>3. h.id \in Table /\ dma_buffer[h.id] = h.buf /\ h.buf \in Mem
  <2>1. HandleOK(h) /\ h \in Handles
    BY DEF BInv, Given, BufTypeOK
  <2> QED BY <1>2, <2>1 DEF HandleOK, Handles
<1>4. views' = views \cup {<<p, h.buf>>}
  BY <1>2, <1>3, OffsetFacts DEF BInv
<1>5. OneUser'
  BY <1>1 DEF BInv, OneUser
<1>6. Viewed'
  BY <1>1, <1>2, <1>4 DEF BInv, Viewed
<1>7. views' \subseteq Procs \X Mem /\ opened' \subseteq Procs
  BY SMT, <1>1, <1>3, <1>4 DEF BInv, BufTypeOK
<1> QED BY <1>1, <1>5, <1>6, <1>7, OnlyUsers

LEMMA Unmap == ASSUME BInv, NEW p \in Procs, Munmap(p) PROVE BInv'
<1>1. UNCHANGED <<opened, dma_buffer, gp_buffer, mem, mapped, held>> /\ views' \subseteq views
  BY DEF Munmap
<1>2. OneUser' /\ Viewed'
  BY <1>1 DEF BInv, OneUser, Viewed
<1> QED BY <1>1, <1>2, OnlyUsers DEF BInv, BufTypeOK

LEMMA BInvInit == BufInit => BInv
<1> SUFFICES ASSUME BufInit PROVE BInv
  OBVIOUS
<1>1. /\ opened = {} /\ dma_buffer = [i \in Table |-> Free] /\ gp_buffer = <<>>
      /\ mem = {} /\ mapped = {} /\ held = [p \in Procs |-> {}] /\ views = {}
  BY DEF BufInit, Table
<1>2. DOMAIN gp_buffer = {} /\ Len(gp_buffer) = 0 /\ \A i \in Table : dma_buffer[i] = Free
  BY SMT, <1>1
<1>3. BufTypeOK
  BY SMT, <1>1 DEF BufTypeOK
<1>4. Once /\ Allocated
  BY <1>1, <1>2, BufAssumption DEF Once, Allocated, InList, ListMapped
<1>6. OneUser /\ Given /\ Viewed
  BY <1>1 DEF OneUser, Given, Viewed
<1> QED BY <1>3, <1>4, <1>6 DEF BInv

LEMMA BInvStep == ASSUME ~Shared, BInv, [BufNext]_bufVars PROVE BInv'
<1>1. ASSUME NEW p \in Procs, OpenDevice(p) \/ pcie_device_miscdev_close(p) PROVE BInv'
  BY <1>1, Open, Close
<1>2. ASSUME NEW p \in Procs, pcie_ioctl_dma_buffer_allocate(p) \/ pcie_ioctl_dma_buffer_free(p) PROVE BInv'
  BY <1>2, DmaAllocate, DmaFree
<1>3. ASSUME NEW p \in Procs, tlkm_device_mmap(p) \/ Munmap(p) PROVE BInv'
  BY <1>3, Mmap, Unmap
<1>4. ASSUME NEW p \in Procs, pcie_ioctl_kernel_buffer_allocate(p) \/ pcie_ioctl_kernel_buffer_free(p)
      PROVE BInv'
  BY <1>4, KernelAllocate, KernelFree
<1>5. ASSUME NEW p \in Procs, pcie_ioctl_kernel_buffer_map(p) \/ pcie_ioctl_kernel_buffer_unmap(p)
      PROVE BInv'
  BY <1>5, KernelSet DEF pcie_ioctl_kernel_buffer_map, pcie_ioctl_kernel_buffer_unmap
<1>6. CASE UNCHANGED bufVars
  <2>1. UNCHANGED <<opened, dma_buffer, gp_buffer, mem, mapped, held, views>>
    BY <1>6 DEF bufVars
  <2>2. OneUser' /\ Viewed'
    BY <2>1 DEF BInv, OneUser, Viewed
  <2> QED BY <2>1, <2>2, OnlyUsers DEF BInv, BufTypeOK
<1> QED BY <1>1, <1>2, <1>3, <1>4, <1>5, <1>6 DEF BufNext

\* Whatever a process that has a PCIe device to itself allocates, maps, frees or
\* leaves to pcie_device_miscdev_close: memory is allocated exactly as long as the
\* table of DMA buffers or the list of kernel buffers has it, the device can access
\* only such memory, and every id it was given finds its own memory.
THEOREM PcieBuffersKept == ASSUME ~Shared PROVE BufSpec => []BuffersKept
<1>1. BInv /\ [BufNext]_bufVars => BInv'
  BY BInvStep
<1> QED BY <1>1, BInvInit, BInvKept, PTL DEF BufSpec

=============================================================================
