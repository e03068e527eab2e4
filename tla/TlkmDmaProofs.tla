--------------------------- MODULE TlkmDmaProofs ----------------------------
(***************************************************************************)
(* What holds of TlkmDma for every number of callers and chunks, every     *)
(* size of the rings, and any copies from the user that fail.  Spec leaves *)
(* out copies to the user that fail and waits that a signal interrupts:    *)
(* after those a call returns with its transfers under way.                *)
(***************************************************************************)
EXTENDS TlkmDmaWriteProofs, TlkmDmaReadProofs, FiniteSetTheorems

\* A leaf is proved with Zenon unless it names another prover.
USE Zenon

\* There are finitely many writers, so sets of them are counted by natural numbers.
LEMMA CountsWriters == Counting
<1>1. \A S \in SUBSET Writers : IsFiniteSet(S)
  BY DmaAssumption, FS_Subset
<1>2. \A S \in SUBSET Writers : Cardinality(S) \in Nat
  BY <1>1, FS_CardinalityType
<1>3. \A S \in SUBSET Writers : \A w \in Writers \ S : Cardinality(S \cup {w}) = Cardinality(S) + 1
  BY <1>1, FS_AddElement
<1>4. \A S \in SUBSET Writers : \A w \in S : Cardinality(S \ {w}) = Cardinality(S) - 1
  BY <1>1, FS_RemoveElement
<1> QED BY <1>2, <1>3, <1>4, FS_EmptySet DEF Counting

\* Calls are under way only while the engine is up.
LEMMA DownCorrect == TypeOK /\ Down /\ WInv /\ RInv /\ [Next]_vars => Down'
<1> SUFFICES ASSUME TypeOK, Down, WInv, RInv, [Next]_vars PROVE Down'
  OBVIOUS
<1> USE DEF Finished
<1>1. CASE tlkm_dma_init \/ allocate_buffer \/ AllocateFails \/ tlkm_dma_exit
  BY <1>1 DEF Down, tlkm_dma_init, allocate_buffer, AllocateFails, tlkm_dma_exit
<1>2. ASSUME phase = "up", UNCHANGED <<phase, bufs>> PROVE Down'
  BY <1>2 DEF Down
<1>3. ASSUME NEW c \in Callers, Begin(c) PROVE Down'
  BY <1>2, <1>3 DEF Begin
<1>4. ASSUME NEW w \in Writers, tlkm_dma_copy_to(w) \/ CopyFromUserFails(w) PROVE Down'
  <2>1. UNCHANGED <<phase, bufs>> /\ call[w].pc \notin Finished
    BY <1>4 DEF tlkm_dma_copy_to, Request, WaitForBuffer, CopyFromUser, CopyFromUserFails, Enqueue,
                WaitForLast, PassEnqueued, PassProcessed, At
  <2> QED BY <1>2, <2>1 DEF Down, Callers
<1>5. ASSUME NEW r \in Readers, tlkm_dma_copy_from(r) PROVE Down'
  <2>1. UNCHANGED <<phase, bufs>> /\ call[r].pc \notin Finished
    BY <1>5 DEF tlkm_dma_copy_from, Lock, ReadChunk, Drain, At
  <2> QED BY <1>2, <2>1 DEF Down, Callers
<1>6. ASSUME NEW d \in {"write", "read"}, Transfer(d) PROVE Down'
  BY <1>6 DEF Down, Transfer
<1>7. ASSUME NEW d \in {"write", "read"}, blue_dma_intr_handler(d) PROVE Down'
  <2>1. UNCHANGED <<phase, bufs>> /\ \A c \in Callers : Same(c)
    BY <1>7, MovesNone DEF blue_dma_intr_handler, TypeOK
  <2> QED BY <2>1 DEF Down, Same
<1>8. CASE UNCHANGED vars
  BY <1>8 DEF Down, vars
<1> QED BY <1>1, <1>3, <1>4, <1>5, <1>6, <1>7, <1>8 DEF Next

LEMMA InitInv == Init => IInv
<1> SUFFICES ASSUME Init PROVE IInv
  OBVIOUS
<1>1. \A c \in Callers :
        /\ call[c].pc = "idle" /\ call[c].k = 0 /\ call[c].last = 0
        /\ \A s \in Slots : call[c].chunks[s] = [t_id |-> 0, k |-> Nothing]
  BY DEF Init
<1>2. /\ queue["write"] = <<>> /\ queue["read"] = <<>> /\ intr["write"] = 0 /\ intr["read"] = 0
      /\ wq.requested = 0 /\ wq.enqueued = 0 /\ wq.processed = 0 /\ rq.mutex = Nothing
  BY DEF Init, NoCounts
<1>3. CallsOK
  <2>1. ASSUME NEW c \in Callers PROVE call[c] \in CallOf(c)
    <3> DEFINE chunks == [s \in Slots |-> [t_id |-> 0, k |-> Nothing]]
               got == [k \in 0 .. Chunks[c] - 1 |-> Nothing]
    <3>1. call[c] = [pc |-> "idle", k |-> 0, last |-> 0, asleep |-> Nothing, chunks |-> chunks, got |-> got]
      BY DEF Init
    <3>2. chunks \in [Slots -> [t_id : Nat, k : Nat \cup {Nothing}]]
      OBVIOUS
    <3>3. got \in [0 .. Chunks[c] - 1 -> Contents]
      BY DEF Contents
    <3> HIDE DEF chunks, got
    <3> QED BY SMT, <3>1, <3>2, <3>3 DEF CallOf, Pcs, Queues
  <2>2. call = [c \in Callers |-> call[c]]
    BY DEF Init
  <2> QED BY <2>1, <2>2 DEF CallsOK
<1>4. TypeOK
  <2>1. wq \in WqType /\ rq \in RqType
    BY DEF Init, NoCounts, WqType, RqType
  <2>2. buf \in [Buffers -> Contents] /\ card \in [AllChunks -> Contents]
    BY DEF Init, Contents, AllChunks
  <2>3. queue \in [{"write", "read"} -> Seq(Cmd)] /\ intr \in [{"write", "read"} -> Nat]
    BY SMT DEF Init
  <2> QED BY <1>3, <2>1, <2>2, <2>3 DEF TypeOK, Init
<1>5. Down
  BY <1>1 DEF Down, Init, Finished
<1>6. WInv
  <2>1. \A w \in Writers : call[w].pc = "idle" /\ call[w].k = 0
    BY <1>1 DEF Callers
  <2>2. ErrLast = {} /\ \A w \in Writers : ~Waiting(w)
    BY <2>1 DEF ErrLast, Waiting
  <2>3. DOMAIN queue["write"] = {} /\ Len(queue["write"]) = 0
    BY SMT, <1>2
  <2>4. Numbers /\ Progress
    BY SMT, <1>2, <2>1, <2>2 DEF Numbers, Progress
  <2>5. InOrder /\ Owned
    BY <2>3 DEF InOrder, Owned
  <2>6. Counted /\ Pending
    BY SMTT(20), <1>2, <2>2, <2>3, CountsWriters DEF Counted, Pending, Counting
  <2>7. Filled
    BY <2>1, <2>3 DEF Filled
  <2>8. Written
    BY SMT, <2>1 DEF Written
  <2> QED BY <2>4, <2>5, <2>6, <2>7, <2>8 DEF WInv
<1>7. RInv
  <2>1. \A r \in Readers : r # Nothing /\ r \in Callers
    BY DmaAssumption DEF Callers
  <2>2. \A r \in Readers : call[r].pc = "idle" /\ call[r].k = 0 /\ ~InRead(r)
    BY <1>1, <2>1 DEF InRead
  <2>3. Holder /\ Noted
    BY <1>2, <2>1, <2>2 DEF Holder, Noted
  <2>4. \A r \in Readers : \A k \in 0 .. Chunks[r] - 1 : card[<<r, k>>] = <<r, k>>
    <3>1. ASSUME NEW r \in Readers, NEW k \in 0 .. Chunks[r] - 1 PROVE card[<<r, k>>] = <<r, k>>
      <4>1. <<r, k>> \in AllChunks
        BY SMTT(20), <2>1 DEF AllChunks, Of
      <4> QED BY <4>1 DEF Init, AllChunks
    <3> QED BY <3>1
  <2>5. Arrived
    BY SMTT(20), <2>2, <2>4 DEF Arrived, ArrivedOf
  <2>6. Reading
    BY <1>1, <2>1, <2>2 DEF Reading, ReadingOf
  <2> QED BY <2>3, <2>5, <2>6 DEF RInv
<1> QED BY <1>4, <1>5, <1>6, <1>7 DEF IInv

LEMMA Inductive == IInv /\ [Next]_vars => IInv'
BY CountsWriters, TypeCorrect, DownCorrect, WriteCorrect, ReadCorrect DEF IInv, WInv, RInv

LEMMA Invariant == Spec => []IInv
BY InitInv, Inductive, PTL DEF Spec

\* The counters, the rings and the calls keep their types, whatever callers and core do.
THEOREM DmaTypes == Spec => []TypeOK
<1>1. IInv => TypeOK
  BY DEF IInv
<1> QED BY <1>1, Invariant, PTL

LEMMA Untouched == IInv => InFlightUntouched
<1> SUFFICES ASSUME IInv PROVE InFlightUntouched
  OBVIOUS
<1> USE DEF IInv
<1>1. ASSUME NEW i \in DOMAIN queue["write"]
      PROVE  /\ queue["write"][i].slot \in bufs
             /\ buf[queue["write"][i].slot] = queue["write"][i].at
             /\ \A j \in DOMAIN queue["write"] : i # j => queue["write"][i].slot # queue["write"][j].slot
  <2> DEFINE N(j) == queue["write"][j].n
  <2>1. WTypes
    BY CountsWriters, WriteTypes
  <2>2. ASSUME NEW j \in DOMAIN queue["write"]
        PROVE  /\ N(j) \in Nat /\ wq.processed <= N(j) /\ N(j) < wq.processed + Ring /\ j \in Nat
               /\ queue["write"][j].slot = <<"write", N(j) % Ring>>
    <3>1. queue["write"] \in Seq(Cmd)
      BY <2>1 DEF WTypes
    <3>2. N(j) \in Nat
      BY <2>1 DEF WTypes
    <3>5. j \in Nat
      BY SMTT(20), <3>1
    <3>3. wq.processed <= N(j)
      BY <2>1, NotProcessed DEF WInv
    <3>4. N(j) < wq.processed + Ring /\ queue["write"][j].slot = <<"write", N(j) % Ring>>
      BY DEF WInv, InOrder
    <3> QED BY <3>2, <3>3, <3>4, <3>5
  <2>3. bufs = Buffers
    <3>1. \E w \in Writers : call[w].pc \notin Finished
      BY DEF WInv, Owned
    <3> QED BY <3>1 DEF Down, Callers
  <2>4. queue["write"][i].slot \in Buffers
    BY <2>2, SlotFacts
  <2>5. ASSUME NEW j \in DOMAIN queue["write"], i # j PROVE queue["write"][i].slot # queue["write"][j].slot
    <3>1. N(i) \in Nat /\ N(j) \in Nat /\ wq.processed \in Nat /\ i \in Nat /\ j \in Nat
      BY <2>1, <2>2, Typed
    <3>2. N(i) # N(j)
      <4>1. CASE i < j
        <5>1. N(i) < N(j)
          BY <4>1 DEF WInv, InOrder
        <5> HIDE DEF N
        <5> QED BY SMTT(20), <3>1, <5>1
      <4>2. CASE j < i
        <5>1. N(j) < N(i)
          BY <4>2 DEF WInv, InOrder
        <5> HIDE DEF N
        <5> QED BY SMTT(20), <3>1, <5>1
      <4> QED BY SMTT(20), <2>5, <3>1, <4>1, <4>2
    <3> HIDE DEF N
    <3> QED BY <2>2, <3>1, <3>2, SlotsDiffer
  <2> QED BY <2>3, <2>4, <2>5 DEF WInv, Filled
<1>2. ASSUME NEW i \in DOMAIN queue["read"]
      PROVE  /\ queue["read"][i].slot \in bufs
             /\ \A j \in DOMAIN queue["read"] : i # j => queue["read"][i].slot # queue["read"][j].slot
  <2>1. RTypes
    BY ReadTypes
  <2>2. PICK r \in Readers : rq.mutex = r
    <3>1. queue["read"] # <<>>
      BY SMT
    <3> QED BY <2>1, <3>1 DEF RTypes, RInv, Holder
  <2>3. InRead(r) /\ NotedBy(r)
    BY <2>2 DEF RInv, Holder, Noted
  <2>4. bufs = Buffers
    BY <2>3 DEF Down, InRead, Finished, Callers
  <2>5. queue["read"][i].slot \in Buffers
    BY ReadSlots, BufferFacts
  <2>6. ASSUME NEW j \in DOMAIN queue["read"], i # j PROVE queue["read"][i].slot # queue["read"][j].slot
    <3>1. i \in Nat /\ j \in Nat
      BY SMTT(20), <2>1 DEF RTypes
    <3>2. PICK s \in Slots : queue["read"][i].slot = <<"read", s>>
                             /\ call[r].chunks[s].t_id = rq.processed + intr["read"] + i
      BY <2>3 DEF NotedBy
    <3>3. PICK t \in Slots : queue["read"][j].slot = <<"read", t>>
                             /\ call[r].chunks[t].t_id = rq.processed + intr["read"] + j
      BY <2>3 DEF NotedBy
    <3>4. rq.processed + intr["read"] + i # rq.processed + intr["read"] + j
      BY SMTT(20), <2>1, <2>6, <3>1 DEF RTypes
    <3> QED BY SMTT(20), <3>2, <3>3, <3>4
  <2> QED BY <2>4, <2>5, <2>6
<1> QED BY SMTT(20), <1>1, <1>2 DEF InFlightUntouched

LEMMA Deliver == IInv => TransfersDeliver
<1> SUFFICES ASSUME IInv PROVE TransfersDeliver
  OBVIOUS
<1> USE DEF IInv
<1>1. ASSUME NEW w \in Writers, call[w].pc = "done", NEW x \in Of(w) PROVE card[x] = x
  <2>1. WTypes
    BY CountsWriters, WriteTypes
  <2>2. PICK k \in 0 .. Chunks[w] - 1 : x = <<w, k>>
    BY DEF Of
  <2>3. call[w].k = Chunks[w]
    BY <1>1 DEF WInv, Progress
  <2>4. Through(w, k)
    BY <2>3 DEF WInv, Written
  <2>5. ASSUME NEW i \in DOMAIN queue["write"], queue["write"][i].at = <<w, k>> PROVE FALSE
    BY SMTT(20), <1>1, <2>5 DEF WInv, Owned, Finished
  <2> QED BY <2>2, <2>4, <2>5 DEF Through
<1>2. ASSUME NEW r \in Readers, call[r].pc = "done", NEW x \in Of(r) PROVE call[r].got[x[2]] = x
  <2>1. PICK k \in 0 .. Chunks[r] - 1 : x = <<r, k>>
    BY DEF Of
  <2>2. call[r].k = Chunks[r] /\ ~InRead(r)
    BY <1>2 DEF RInv, Reading, ReadingOf, InRead
  <2>3. call[r].got[k] = <<r, k>>
    BY <2>2 DEF RInv, Arrived, ArrivedOf
  <2> QED BY <2>1, <2>3
<1> QED BY <1>1, <1>2 DEF TransfersDeliver

\* No buffer that the core has still to read is overwritten or freed, and no two
\* commands share one: the three counters of tlkm_dma_copy_to, and the ids noted
\* by tlkm_dma_copy_from, order any number of callers on a ring of any size, also
\* when copies from the user fail in between.
THEOREM BuffersUntouched == Spec => []InFlightUntouched
BY Invariant, Untouched, PTL

\* tlkm_dma_copy_to returns 0 only when all its chunks are in device memory, and
\* tlkm_dma_copy_from, whose copies to the user succeed, only when the user has
\* all chunks it asked for.
THEOREM DmaDelivers == Spec => []TransfersDeliver
BY Invariant, Deliver, PTL
=============================================================================
