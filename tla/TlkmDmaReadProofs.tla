------------------------- MODULE TlkmDmaReadProofs --------------------------
(***************************************************************************)
(* Every step of TlkmDma keeps the readers' part of the invariant.         *)
(***************************************************************************)
EXTENDS TlkmDmaInvariant

\* A leaf is proved with Zenon unless it names another prover.
USE Zenon

LEMMA ReaderTypes ==
  ASSUME TypeOK, NEW r \in Readers
  PROVE  /\ r \in Callers /\ r # Nothing /\ Chunks[r] \in Nat /\ Chunks[r] > 0
         /\ call[r].k \in Nat /\ call[r].last \in Nat
         /\ \A s \in Slots : call[r].chunks[s].t_id \in Nat /\ call[r].chunks[s].k \in Nat \cup {Nothing}
<1>1. r \in Callers /\ r # Nothing /\ Chunks[r] \in Nat /\ Chunks[r] > 0
  BY SMT, DmaAssumption DEF Callers
<1>2. call[r] \in CallOf(r)
  BY <1>1 DEF TypeOK, CallsOK
<1>3. call[r].k \in Nat /\ call[r].last \in Nat
  BY <1>2 DEF CallOf
<1>4. call[r].chunks \in [Slots -> [t_id : Nat, k : Nat \cup {Nothing}]]
  BY <1>2 DEF CallOf
<1>5. \A s \in Slots : call[r].chunks[s].t_id \in Nat /\ call[r].chunks[s].k \in Nat \cup {Nothing}
  BY <1>4
<1> QED BY <1>1, <1>3, <1>5

RUntouched ==
  /\ rq' = rq /\ queue'["read"] = queue["read"] /\ intr'["read"] = intr["read"]
  /\ \A r \in Readers : Same(r)

CardSame == \A r \in Readers : \A k \in 0 .. Chunks[r] - 1 : card'[<<r, k>>] = card[<<r, k>>]

\* The step is of no concern to the readers.
LEMMA ReadFrame ==
  ASSUME TypeOK, RInv, RUntouched, CardSame, \A s \in Slots : buf'[<<"read", s>>] = buf[<<"read", s>>]
  PROVE  RInv'
<1> USE DEF RInv, RUntouched, Same
<1>0. RTypes
  BY ReadTypes
<1>1. \A r \in Readers : InRead(r)' <=> InRead(r)
  BY DEF InRead
<1>2. Holder'
  BY <1>1 DEF Holder
<1>3. Noted'
  <2>1. ASSUME NEW r \in Readers, rq.mutex = r PROVE NotedBy(r)'
    <3>1. NotedBy(r) /\ call'[r].chunks = call[r].chunks
      BY <2>1 DEF Noted
    <3> QED BY SMT, <3>1 DEF NotedBy
  <2> QED BY <2>1 DEF Noted
<1>4. Arrived'
  BY SMTT(20), <1>1 DEF Arrived, ArrivedOf, CardSame
<1>5. Reading'
  BY SMT, <1>1 DEF Reading, ReadingOf
<1> QED BY <1>2, <1>3, <1>4, <1>5

\* Only the holder of the mutex is reading.
LEMMA OneReader ==
  ASSUME RInv, NEW r \in Readers, InRead(r)
  PROVE  rq.mutex = r /\ \A d \in Readers \ {r} : ~InRead(d)
BY DEF RInv, Holder

\* A reader that does not read and does not move.
LEMMA OtherReader ==
  ASSUME RInv, NEW d \in Readers, ~InRead(d), Same(d), CardSame
  PROVE  ~(InRead(d)') /\ ArrivedOf(d)' /\ ReadingOf(d)'
<1>1. ~(InRead(d)')
  BY DEF InRead, Same
<1>2. ArrivedOf(d)'
  BY <1>1 DEF ArrivedOf, RInv, Arrived, Same, CardSame
<1>3. ReadingOf(d)'
  BY <1>1 DEF ReadingOf, RInv, Reading, Same, InRead
<1> QED BY <1>1, <1>2, <1>3

\* What a step of r has to keep.
LEMMA ReaderMoves ==
  ASSUME TypeOK, RInv, NEW r \in Readers, \A d \in Readers \ {r} : Same(d) /\ ~InRead(d), CardSame,
         rq'.mutex \in {r, Nothing}, InRead(r)' <=> rq'.mutex = r,
         rq'.mutex = Nothing => queue'["read"] = <<>> /\ intr'["read"] = 0,
         rq'.mutex = r => NotedBy(r)', ArrivedOf(r)', ReadingOf(r)'
  PROVE  RInv'
<1>1. \A d \in Readers \ {r} : ~(InRead(d)') /\ ArrivedOf(d)' /\ ReadingOf(d)'
  BY OtherReader
<1>2. \A d \in Readers : d # Nothing
  BY DmaAssumption
<1>3. Holder'
  BY <1>1, <1>2 DEF Holder
<1>4. Noted'
  BY <1>2 DEF Noted
<1>5. Arrived' /\ Reading'
  BY <1>1 DEF Arrived, Reading
<1> QED BY <1>3, <1>4, <1>5 DEF RInv

LEMMA ReadBegin == ASSUME TypeOK, RInv, NEW c \in Callers, Begin(c) PROVE RInv'
<1> DEFINE p == IF c \in Misaligned THEN "failed" ELSE IF c \in Writers THEN "request" ELSE "lock"
<1>1. p \in Pcs /\ call' = [call EXCEPT ![c].pc = p] /\ call[c].pc = "idle"
  BY DEF Begin, Pcs, At
<1>2. c \in Readers => p \in {"lock", "failed"}
  BY DmaAssumption
<1>3. UNCHANGED <<rq, queue, intr, buf, card>>
  BY DEF Begin
<1> HIDE DEF p
<1>4. Moves(c, p, call[c].k, call[c].last)
  BY <1>1, MovesTo DEF TypeOK
<1>5. CardSame
  BY <1>3 DEF CardSame
<1>6. CASE c \notin Readers
  <2>1. RUntouched
    BY <1>3, <1>4, <1>6 DEF RUntouched, Moves, Callers
  <2> QED BY <1>3, <1>5, <2>1, ReadFrame
<1>7. CASE c \in Readers
  <2>1. /\ call'[c].pc = p /\ call'[c].k = call[c].k /\ call'[c].last = call[c].last
        /\ call'[c].chunks = call[c].chunks /\ call'[c].got = call[c].got
    BY <1>4 DEF Moves
  <2>2. ~InRead(c) /\ ~(InRead(c)')
    BY <1>1, <1>2, <1>7, <2>1 DEF InRead
  <2>3. \A d \in Readers : InRead(d)' <=> InRead(d)
    BY <1>4, <2>2 DEF InRead, Moves, Same, Callers
  <2>4. Holder'
    BY <1>3, <2>3 DEF RInv, Holder
  <2>5. Noted'
    <3>1. \A d \in Readers : call'[d].chunks = call[d].chunks
      BY <1>4, <2>1 DEF Moves, Same, Callers
    <3>2. ASSUME NEW d \in Readers, rq.mutex = d PROVE NotedBy(d)'
      <4>1. NotedBy(d)
        BY <3>2 DEF RInv, Noted
      <4> QED BY SMTT(20), <1>3, <3>1, <4>1 DEF NotedBy
    <3> QED BY <1>3, <3>2 DEF Noted
  <2>6. Arrived'
    <3>1. ASSUME NEW d \in Readers PROVE ArrivedOf(d)'
      <4>1. ArrivedOf(d) /\ call'[d].k = call[d].k /\ call'[d].chunks = call[d].chunks /\ call'[d].got = call[d].got
        BY <1>4, <2>1 DEF RInv, Arrived, Moves, Same, Callers
      <4> QED BY SMT, <1>3, <2>3, <4>1 DEF ArrivedOf
    <3> QED BY <3>1 DEF Arrived
  <2>7. Reading'
    <3>1. ReadingOf(c)'
      <4>1. ReadingOf(c)
        BY <1>7 DEF RInv, Reading
      <4> QED BY <1>1, <1>2, <1>7, <2>1, <2>2, <4>1 DEF ReadingOf
    <3>2. ASSUME NEW d \in Readers, d # c PROVE ReadingOf(d)'
      <4>1. ReadingOf(d) /\ Same(d)
        BY <1>4, <3>2 DEF RInv, Reading, Moves, Callers
      <4> QED BY <1>3, <4>1 DEF ReadingOf, Same, InRead
    <3> QED BY <3>1, <3>2 DEF Reading
  <2> QED BY <2>4, <2>5, <2>6, <2>7 DEF RInv
<1> QED BY <1>6, <1>7

LEMMA ReadLock == ASSUME TypeOK, RInv, NEW r \in Readers, Lock(r) PROVE RInv'
<1>1. /\ call[r].pc = "lock" /\ rq.mutex = Nothing /\ rq' = [enqueued |-> 0, processed |-> 0, mutex |-> r]
      /\ call' = [call EXCEPT ![r].last = 0, ![r].pc = "read"] /\ UNCHANGED <<queue, intr, buf, card>>
  BY DEF Lock, At
<1>2. /\ r \in Callers /\ r # Nothing /\ Chunks[r] \in Nat /\ Chunks[r] > 0
  BY ReaderTypes
<1>3. Moves(r, "read", call[r].k, 0)
  BY <1>1, <1>2, MovesRequest DEF TypeOK, Pcs
<1>4. /\ call'[r].pc = "read" /\ call'[r].k = 0 /\ call'[r].last = 0 /\ call'[r].got = call[r].got
      /\ \A s \in Slots : call'[r].chunks[s] = [t_id |-> 0, k |-> Nothing]
  <2>1. call[r].k = 0 /\ \A s \in Slots : call[r].chunks[s] = [t_id |-> 0, k |-> Nothing]
    BY <1>1 DEF RInv, Reading, ReadingOf
  <2> QED BY <1>3, <2>1 DEF Moves
<1>5. \A s \in Slots : call'[r].chunks[s].t_id = 0 /\ call'[r].chunks[s].k = Nothing
  BY SMT, <1>4
<1>6. \A d \in Readers \ {r} : Same(d) /\ ~InRead(d)
  BY <1>1, <1>3, DmaAssumption DEF RInv, Holder, Moves, Callers
<1>7. queue["read"] = <<>> /\ intr["read"] = 0
  BY <1>1 DEF RInv, Holder
<1>8. rq'.enqueued = 0 /\ rq'.processed = 0 /\ rq'.mutex = r
  BY <1>1
<1>9. InRead(r)' /\ CardSame
  BY <1>1, <1>4 DEF InRead, CardSame
<1>10. NotedBy(r)'
  <2>1. queue'["read"] = <<>> /\ intr'["read"] = 0
    BY <1>1, <1>7
  <2>2. Len(<<>>) = 0 /\ DOMAIN <<>> = {}
    BY SMT
  <2> QED BY SMT, <1>5, <1>8, <2>1, <2>2 DEF NotedBy
<1>11. ArrivedOf(r)'
  <2>1. \A k \in 0 .. Chunks[r] - 1 : card'[<<r, k>>] = <<r, k>>
    BY <1>1 DEF ArrivedOf, RInv, Arrived
  <2>2. \A k : k \notin 0 .. 0 - 1
    BY SMT
  <2> QED BY <1>4, <1>5, <2>1, <2>2 DEF ArrivedOf
<1>12. ReadingOf(r)'
  <2>1. 0 \in Slots
    BY SMT, DmaAssumption DEF Slots
  <2> QED BY <1>2, <1>4, <2>1 DEF ReadingOf
<1> QED BY <1>2, <1>6, <1>8, <1>9, <1>10, <1>11, <1>12, ReaderMoves

\* The buffer of the current chunk is delivered once it is processed: it holds that chunk.
LEMMA DeliveredFacts ==
  ASSUME TypeOK, RInv, NEW r \in Readers, InRead(r), rq.processed >= Chunk(r).t_id
  PROVE  \A k \in 0 .. Chunks[r] - 1 : Delivered(r)[k] = IF k = Chunk(r).k THEN <<r, k>> ELSE call[r].got[k]
<1> DEFINE s == call[r].last
<1>1. s \in Slots
  BY DEF RInv, Reading, ReadingOf
<1>2. Chunk(r).t_id \in Nat /\ Chunk(r).k \in Nat \cup {Nothing} /\ Chunk(r) = call[r].chunks[s]
  BY <1>1, ReaderTypes DEF Chunk
<1>3. rq.processed \in Nat /\ intr["read"] \in Nat
  BY ReadTypes DEF RTypes
<1>4. CASE Chunk(r).k = Nothing
  <2>1. \A k \in 0 .. Chunks[r] - 1 : k # Nothing
    BY SMT, DmaAssumption, ReaderTypes
  <2> QED BY <1>4, <2>1 DEF Delivered
<1>5. CASE Chunk(r).k # Nothing
  <2>1. Chunk(r).t_id <= rq.processed + intr["read"]
    BY SMTT(20), <1>2, <1>3
  <2>2. buf[<<"read", s>>] = <<r, Chunk(r).k>>
    BY SMT, <1>1, <1>2, <1>5, <2>1 DEF RInv, Arrived, ArrivedOf
  <2>3. call[r].got \in [0 .. Chunks[r] - 1 -> Contents]
    BY ReaderTypes DEF TypeOK, CallsOK, CallOf
  <2> HIDE DEF s
  <2>4. Delivered(r) = [call[r].got EXCEPT ![Chunk(r).k] = <<r, Chunk(r).k>>]
    BY <1>5, <2>2 DEF Delivered, s
  <2> QED BY <2>3, <2>4
<1> QED BY <1>4, <1>5

LEMMA ReadRequest ==
  ASSUME TypeOK, RInv, NEW r \in Readers, ReadChunk(r), rq.processed >= Chunk(r).t_id
  PROVE  RInv'
<1> DEFINE s == call[r].last
           Q == queue["read"]
           c == [slot |-> <<"read", s>>, at |-> <<r, call[r].k>>, n |-> rq.enqueued + 1]
           E == rq.enqueued
           P == rq.processed
           I == intr["read"]
           x == [t_id |-> E + 1, k |-> call[r].k]
           more == call[r].k + 1 < Chunks[r]
<1>1. call[r].pc = "read" /\ UNCHANGED <<intr, buf, card>> /\ InRead(r) /\ CardSame
  BY DEF ReadChunk, At, InRead, CardSame
<1>2. s \in Slots /\ call[r].k < Chunks[r]
  BY <1>1 DEF RInv, Reading, ReadingOf
<1>3. /\ \A d \in Callers \ {r} : Same(d)
      /\ call'[r].got = Delivered(r) /\ call'[r].k = call[r].k + 1
      /\ call'[r].chunks = [call[r].chunks EXCEPT ![s] = x]
      /\ call'[r].last = IF more THEN (s + 1) % Ring ELSE 0
      /\ call'[r].pc = IF more THEN "read" ELSE "drain"
  BY <1>2, MovesRead
<1>4. /\ r \in Callers /\ r # Nothing /\ Chunks[r] \in Nat /\ call[r].k \in Nat
      /\ \A t \in Slots : call[r].chunks[t].t_id \in Nat /\ call[r].chunks[t].k \in Nat \cup {Nothing}
  BY ReaderTypes
<1>5. E \in Nat /\ P \in Nat /\ I \in Nat /\ Q \in Seq(Cmd)
  BY ReadTypes DEF RTypes
<1>6. rq.mutex = r /\ \A d \in Readers \ {r} : ~InRead(d)
  BY <1>1, OneReader
<1>7. NotedBy(r) /\ ArrivedOf(r)
  BY <1>6 DEF RInv, Noted, Arrived
<1>8. rq'.mutex = r /\ rq'.enqueued = E + 1 /\ rq'.processed = P
  BY <1>6 DEF ReadChunk, TypeOK, RqType
<1>9. queue'["read"] = Append(Q, c)
  <2>1. queue' = [queue EXCEPT !["read"] = Append(Q, c)]
    BY DEF ReadChunk
  <2> HIDE DEF c
  <2> QED BY <2>1 DEF TypeOK
<1>10. c \in Cmd /\ c.slot = <<"read", s>> /\ c.at = <<r, call[r].k>>
  <2>1. <<"read", s>> \in Buffers /\ <<r, call[r].k>> \in AllChunks /\ E + 1 \in Nat
    BY SMTT(20), <1>2, <1>4, <1>5, BufferFacts, ChunkFacts
  <2> QED BY <2>1 DEF Cmd
<1> HIDE DEF c
<1>11. call'[r].chunks[s].t_id = E + 1 /\ call'[r].chunks[s].k = call[r].k
  <2>1. call[r].chunks \in [Slots -> [t_id : Nat, k : Nat \cup {Nothing}]]
    BY <1>4 DEF TypeOK, CallsOK, CallOf
  <2> QED BY SMT, <1>2, <1>3, <2>1
<1>12. \A t \in Slots \ {s} : call'[r].chunks[t] = call[r].chunks[t]
  <2>1. call[r].chunks \in [Slots -> [t_id : Nat, k : Nat \cup {Nothing}]]
    BY <1>4 DEF TypeOK, CallsOK, CallOf
  <2> HIDE DEF s
  <2> QED BY <1>3, <2>1
<1>13. call[r].chunks[s].t_id <= P
  BY <1>2, <1>4, <1>5 DEF Chunk
<1>14. InRead(r)' /\ call[r].k # Nothing
  BY <1>3, <1>4, DmaAssumption DEF InRead
<1> HIDE DEF s, x, more
<1>15. Len(Append(Q, c)) = Len(Q) + 1 /\ Len(Q) \in Nat
  BY SMTT(20), <1>5, <1>10, AppendFacts
<1>16. \A i \in DOMAIN Append(Q, c) : \/ i \in DOMAIN Q /\ Append(Q, c)[i] = Q[i] /\ i \in Nat /\ i >= 1
                                      \/ i = Len(Q) + 1 /\ Append(Q, c)[i] = c
  BY SMT, <1>5, <1>10, AppendFacts
<1>17. E = P + I + Len(Q)
  BY <1>7 DEF NotedBy
<1>18. NotedBy(r)'
  <2>1. E + 1 = P + I + (Len(Q) + 1)
    BY SMTT(20), <1>5, <1>15, <1>17
  <2>2. ASSUME NEW i \in DOMAIN Append(Q, c)
        PROVE  LET q == Append(Q, c)[i] IN
                 \E t \in Slots : /\ q.slot = <<"read", t>>
                                  /\ call'[r].chunks[t].t_id = P + I + i
                                  /\ q.at = <<r, call'[r].chunks[t].k>> /\ call'[r].chunks[t].k # Nothing
    <3>1. CASE i \in DOMAIN Q /\ Append(Q, c)[i] = Q[i] /\ i \in Nat /\ i >= 1
      <4>1. PICK t \in Slots : /\ Q[i].slot = <<"read", t>> /\ call[r].chunks[t].t_id = P + I + i
                               /\ Q[i].at = <<r, call[r].chunks[t].k>> /\ call[r].chunks[t].k # Nothing
        BY <1>7, <3>1 DEF NotedBy
      <4>2. t # s
        BY SMTT(20), <1>5, <1>13, <3>1, <4>1
      <4> QED BY <1>12, <3>1, <4>1, <4>2
    <3>2. CASE i = Len(Q) + 1 /\ Append(Q, c)[i] = c
      BY <1>2, <1>10, <1>11, <1>14, <2>1, <3>2
    <3> QED BY <1>16, <3>1, <3>2
  <2>3. \A t \in Slots : call'[r].chunks[t].t_id <= E + 1
    <3>1. \A t \in Slots : call[r].chunks[t].t_id <= E
      BY <1>7 DEF NotedBy
    <3> QED BY SMTT(20), <1>4, <1>5, <1>11, <1>12, <3>1
  <2>4. \A t, u \in Slots : t # u /\ call'[r].chunks[t].k # Nothing /\ call'[r].chunks[u].k # Nothing
                             => call'[r].chunks[t].t_id # call'[r].chunks[u].t_id
    <3>1. \A t \in Slots : call[r].chunks[t].t_id # E + 1
      <4>1. \A t \in Slots : call[r].chunks[t].t_id <= E
        BY <1>7 DEF NotedBy
      <4> QED BY SMT, <1>4, <1>5, <4>1
    <3> QED BY SMTT(20), <1>7, <1>11, <1>12, <3>1 DEF NotedBy
  <2>5. \E t \in Slots : call'[r].chunks[t].t_id = E + 1
    BY <1>2, <1>11
  <2> QED BY SMTT(20), <1>1, <1>8, <1>9, <1>15, <2>1, <2>2, <2>3, <2>4, <2>5 DEF NotedBy
<1>19. ArrivedOf(r)'
  <2>1. ASSUME NEW t \in Slots, call'[r].chunks[t].k # Nothing
        PROVE  /\ call'[r].chunks[t].k < call[r].k + 1
               /\ call'[r].chunks[t].t_id <= P + I => buf[<<"read", t>>] = <<r, call'[r].chunks[t].k>>
    <3>1. CASE t = s
      <4>1. ~(E + 1 <= P + I)
        BY SMTT(20), <1>5, <1>15, <1>17
      <4>2. call[r].k < call[r].k + 1
        BY SMT, <1>4
      <4> QED BY <1>11, <3>1, <4>1, <4>2
    <3>2. CASE t # s
      <4>1. call'[r].chunks[t] = call[r].chunks[t]
        BY <1>12, <3>2
      <4>2. call[r].chunks[t].k < call[r].k /\ call[r].chunks[t].k \in Nat
        BY <1>1, <1>4, <1>7, <2>1, <4>1 DEF ArrivedOf
      <4>3. call[r].chunks[t].k < call[r].k + 1
        BY SMT, <1>4, <4>2
      <4> QED BY <1>1, <1>7, <2>1, <4>1, <4>3 DEF ArrivedOf
    <3> QED BY <3>1, <3>2
  <2>2. ASSUME NEW k \in 0 .. call[r].k
        PROVE  k < Chunks[r] /\ (Delivered(r)[k] = <<r, k>> \/ \E t \in Slots : call'[r].chunks[t].k = k)
    <3>1. k \in Nat /\ k <= call[r].k /\ k < Chunks[r] /\ k \in 0 .. Chunks[r] - 1
      BY SMT, <1>2, <1>4
    <3>2. CASE k = call[r].k
      BY <1>2, <1>11, <3>1, <3>2
    <3>3. CASE k # call[r].k
      <4>1. k \in 0 .. call[r].k - 1
        BY SMT, <1>4, <3>1, <3>3
      <4>2. call[r].got[k] = <<r, k>> \/ \E t \in Slots : call[r].chunks[t].k = k
        BY <1>7, <4>1 DEF ArrivedOf
      <4>3. Delivered(r)[k] = IF k = Chunk(r).k THEN <<r, k>> ELSE call[r].got[k]
        BY <1>1, <3>1, DeliveredFacts
      <4>4. Chunk(r) = call[r].chunks[s]
        BY DEF Chunk, s
      <4>5. CASE k = call[r].chunks[s].k
        BY <3>1, <4>3, <4>4, <4>5
      <4>6. CASE k # call[r].chunks[s].k
        <5>1. CASE \E t \in Slots : call[r].chunks[t].k = k
          <6>1. PICK t \in Slots : call[r].chunks[t].k = k
            BY <5>1
          <6>2. call'[r].chunks[t].k = k
            BY <1>12, <4>6, <6>1
          <6> QED BY <3>1, <6>2
        <5>2. CASE call[r].got[k] = <<r, k>>
          BY <3>1, <4>3, <4>4, <4>6, <5>2
        <5> QED BY <4>2, <5>1, <5>2
      <4> QED BY <4>5, <4>6
    <3> QED BY <3>2, <3>3
  <2>3. \A k \in 0 .. Chunks[r] - 1 : card[<<r, k>>] = <<r, k>>
    BY <1>7 DEF ArrivedOf
  <2>5. call'[r].got = Delivered(r) /\ call'[r].k = call[r].k + 1
    BY <1>3
  <2>7. 0 .. call'[r].k - 1 = 0 .. call[r].k
    <3>1. call[r].k \in Nat
      BY <1>4
    <3>2. call'[r].k - 1 = call[r].k
      BY SMT, <2>5, <3>1
    <3> QED BY <3>2
  <2>6. intr'["read"] = I /\ rq'.processed = P /\ UNCHANGED <<buf, card>>
    BY <1>1, <1>8
  <2> HIDE DEF P, I
  <2> QED BY <1>14, <2>1, <2>2, <2>3, <2>5, <2>6, <2>7 DEF ArrivedOf
<1>20. ReadingOf(r)'
  <2>1. call'[r].last \in Slots
    BY SMT, <1>2, <1>3, DmaAssumption DEF Slots, s
  <2>2. call'[r].pc = "read" => call'[r].k < Chunks[r]
    BY <1>3 DEF more
  <2>3. call'[r].pc = "drain" => call'[r].k = Chunks[r] /\ call'[r].last = 0
    BY SMT, <1>2, <1>3, <1>4 DEF more
  <2>4. call'[r].pc \in {"read", "drain"}
    BY <1>3
  <2>5. \A t : t \notin 0 .. 0 - 1
    BY SMT
  <2> QED BY <2>1, <2>2, <2>3, <2>4, <2>5 DEF ReadingOf
<1>21. \A d \in Readers \ {r} : Same(d)
  BY <1>3 DEF Callers
<1> QED BY <1>1, <1>4, <1>6, <1>8, <1>14, <1>18, <1>19, <1>20, <1>21, ReaderMoves

\* A buffer is emptied; after the last one nothing of the call is left in the core.
LEMMA ReadDrain ==
  ASSUME TypeOK, RInv, NEW r \in Readers, Drain(r), rq.processed >= Chunk(r).t_id
  PROVE  RInv'
<1> DEFINE s == call[r].last
           Q == queue["read"]
           E == rq.enqueued
           P == rq.processed
           I == intr["read"]
<1>1. call[r].pc = "drain" /\ UNCHANGED <<intr, buf, card, queue>> /\ InRead(r) /\ CardSame
  BY DEF Drain, At, InRead, CardSame
<1>2. s \in Slots /\ call[r].k = Chunks[r]
  BY <1>1 DEF RInv, Reading, ReadingOf
<1>3. /\ \A d \in Callers \ {r} : Same(d)
      /\ call'[r].got = Delivered(r) /\ call'[r].k = call[r].k
      /\ call'[r].chunks = [call[r].chunks EXCEPT ![s].k = Nothing]
      /\ call'[r].last = (s + 1) % Ring
      /\ call'[r].pc = IF s = Ring - 1 THEN "done" ELSE "drain"
  BY <1>2, MovesDrain
<1>4. /\ r \in Callers /\ r # Nothing /\ Chunks[r] \in Nat /\ call[r].k \in Nat
      /\ \A t \in Slots : call[r].chunks[t].t_id \in Nat /\ call[r].chunks[t].k \in Nat \cup {Nothing}
  BY ReaderTypes
<1>5. E \in Nat /\ P \in Nat /\ I \in Nat /\ Q \in Seq(Cmd)
  BY ReadTypes DEF RTypes
<1>6. rq.mutex = r /\ \A d \in Readers \ {r} : ~InRead(d)
  BY <1>1, OneReader
<1>7. NotedBy(r) /\ ArrivedOf(r) /\ ReadingOf(r)
  BY <1>6 DEF RInv, Noted, Arrived, Reading
<1>8. /\ rq'.enqueued = E /\ rq'.processed = P
      /\ rq'.mutex = IF s = Ring - 1 THEN Nothing ELSE r
  BY <1>6 DEF Drain, TypeOK, RqType
<1>9. /\ call'[r].chunks[s].k = Nothing
      /\ \A t \in Slots : call'[r].chunks[t].t_id = call[r].chunks[t].t_id
      /\ \A t \in Slots \ {s} : call'[r].chunks[t].k = call[r].chunks[t].k
  <2>1. call[r].chunks \in [Slots -> [t_id : Nat, k : Nat \cup {Nothing}]]
    BY <1>4 DEF TypeOK, CallsOK, CallOf
  <2> HIDE DEF s
  <2> QED BY SMT, <1>2, <1>3, <2>1
<1>10. call[r].chunks[s].t_id <= P
  BY <1>2, <1>4, <1>5 DEF Chunk
<1>11. s \in Nat /\ s < Ring /\ Ring \in Nat /\ Slots = 0 .. Ring - 1
  BY SMT, <1>2, DmaAssumption DEF Slots
<1>12. s # Ring - 1 => call'[r].last = s + 1 /\ s + 1 \in Slots
  <2>1. s # Ring - 1 => s + 1 \in 0 .. Ring - 1
    BY SMT, <1>11
  <2> HIDE DEF s
  <2> QED BY <1>3, <1>11, <2>1, SmallMod, DmaAssumption
<1>13. \A t \in 0 .. s - 1 : call[r].chunks[t].k = Nothing /\ call[r].chunks[t].t_id <= P
  BY <1>1, <1>7 DEF ReadingOf
<1>14. \A t \in 0 .. s : call'[r].chunks[t].k = Nothing /\ call'[r].chunks[t].t_id <= P
  <2> SUFFICES ASSUME NEW t \in 0 .. s
               PROVE  call'[r].chunks[t].k = Nothing /\ call'[r].chunks[t].t_id <= P
    OBVIOUS
  <2>1. t \in Slots /\ (t = s \/ t \in 0 .. s - 1)
    BY SMT, <1>11
  <2> QED BY <1>9, <1>10, <1>13, <2>1
<1> HIDE DEF s
<1>15. \A k \in 0 .. Chunks[r] - 1 : Delivered(r)[k] = IF k = call[r].chunks[s].k THEN <<r, k>> ELSE call[r].got[k]
  BY <1>1, DeliveredFacts DEF Chunk, s
<1>16. \A d \in Readers \ {r} : Same(d)
  BY <1>3 DEF Callers
\* What is not noted any more was delivered.
<1>17. ASSUME NEW k \in 0 .. Chunks[r] - 1
       PROVE  k < Chunks[r] /\ (call'[r].got[k] = <<r, k>> \/ \E t \in Slots : t # s /\ call'[r].chunks[t].k = k)
  <2>1. k \in Nat /\ k < Chunks[r] /\ k \in 0 .. call[r].k - 1
    BY SMT, <1>2, <1>4
  <2>2. call[r].got[k] = <<r, k>> \/ \E t \in Slots : call[r].chunks[t].k = k
    BY <1>7, <2>1 DEF ArrivedOf
  <2>3. call'[r].got[k] = IF k = call[r].chunks[s].k THEN <<r, k>> ELSE call[r].got[k]
    BY <1>3, <1>15
  <2>4. CASE k = call[r].chunks[s].k
    BY <2>1, <2>3, <2>4
  <2>5. CASE k # call[r].chunks[s].k
    <3>1. CASE call[r].got[k] = <<r, k>>
      BY <2>1, <2>3, <2>5, <3>1
    <3>2. CASE \E t \in Slots : call[r].chunks[t].k = k
      <4>1. PICK t \in Slots : call[r].chunks[t].k = k
        BY <3>2
      <4>2. t # s /\ call'[r].chunks[t].k = k
        BY <1>9, <2>5, <4>1
      <4> QED BY <2>1, <4>2
    <3> QED BY <2>2, <3>1, <3>2
  <2> QED BY <2>4, <2>5
<1>18. \A k \in 0 .. Chunks[r] - 1 : card'[<<r, k>>] = <<r, k>>
  BY <1>1, <1>7 DEF ArrivedOf
<1>19. CASE s # Ring - 1
  <2>1. call'[r].pc = "drain" /\ InRead(r)' /\ rq'.mutex = r
    BY <1>3, <1>8, <1>19 DEF InRead
  <2>2. NotedBy(r)'
    <3>1. ASSUME NEW i \in DOMAIN Q
          PROVE  \E t \in Slots : /\ Q[i].slot = <<"read", t>>
                                  /\ call'[r].chunks[t].t_id = P + I + i
                                  /\ Q[i].at = <<r, call'[r].chunks[t].k>> /\ call'[r].chunks[t].k # Nothing
      <4>1. PICK t \in Slots : /\ Q[i].slot = <<"read", t>> /\ call[r].chunks[t].t_id = P + I + i
                               /\ Q[i].at = <<r, call[r].chunks[t].k>> /\ call[r].chunks[t].k # Nothing
        BY <1>7 DEF NotedBy
      <4>2. i \in Nat /\ i >= 1
        BY SMTT(20), <1>5
      <4>3. t # s
        BY SMTT(20), <1>5, <1>10, <4>1, <4>2
      <4> QED BY <1>9, <4>1, <4>3
    <3>2. \A t \in Slots : call'[r].chunks[t].t_id <= E
      BY <1>7, <1>9 DEF NotedBy
    <3>3. \A t, u \in Slots : t # u /\ call'[r].chunks[t].k # Nothing /\ call'[r].chunks[u].k # Nothing
                               => call'[r].chunks[t].t_id # call'[r].chunks[u].t_id
      BY SMTT(20), <1>7, <1>9 DEF NotedBy
    <3>4. E > 0 => \E t \in Slots : call'[r].chunks[t].t_id = E
      BY <1>7, <1>9 DEF NotedBy
    <3>5. E = P + I + Len(Q)
      BY <1>7 DEF NotedBy
    <3> QED BY SMTT(20), <1>1, <1>8, <3>1, <3>2, <3>3, <3>4, <3>5 DEF NotedBy
  <2>3. ArrivedOf(r)'
    <3>1. ASSUME NEW t \in Slots, call'[r].chunks[t].k # Nothing
          PROVE  /\ call'[r].chunks[t].k < call[r].k
                 /\ call'[r].chunks[t].t_id <= P + I => buf[<<"read", t>>] = <<r, call'[r].chunks[t].k>>
      <4>1. call'[r].chunks[t].k = call[r].chunks[t].k /\ call'[r].chunks[t].t_id = call[r].chunks[t].t_id
        BY <1>9, <3>1
      <4> QED BY <1>1, <1>7, <3>1, <4>1 DEF ArrivedOf
    <3>2. intr'["read"] = I /\ rq'.processed = P /\ UNCHANGED buf /\ call'[r].k = Chunks[r]
      BY <1>1, <1>2, <1>3, <1>8
    <3> HIDE DEF I, P
    <3> QED BY <1>2, <1>17, <1>18, <2>1, <3>1, <3>2 DEF ArrivedOf
  <2>4. ReadingOf(r)'
    <3>1. call'[r].last = s + 1 /\ s + 1 \in Slots /\ s + 1 - 1 = s
      BY SMTT(20), <1>11, <1>12, <1>19
    <3>2. 0 .. call'[r].last - 1 = 0 .. s
      <4>1. call'[r].last - 1 = s
        BY SMT, <1>11, <3>1
      <4> QED BY <4>1
    <3> QED BY <1>2, <1>3, <1>8, <1>14, <2>1, <3>1, <3>2 DEF ReadingOf
  <2> QED BY <1>1, <1>4, <1>6, <1>16, <2>1, <2>2, <2>3, <2>4, ReaderMoves
<1>20. CASE s = Ring - 1
  <2>1. call'[r].pc = "done" /\ ~(InRead(r)') /\ rq'.mutex = Nothing
    BY <1>3, <1>8, <1>20 DEF InRead
  <2>2. Slots = 0 .. s
    BY <1>11, <1>20
  <2>3. E <= P
    <3>1. E > 0 => \E t \in Slots : call'[r].chunks[t].t_id = E
      BY <1>7, <1>9 DEF NotedBy
    <3> QED BY SMTT(20), <1>5, <1>14, <2>2, <3>1
  <2>4. Q = <<>> /\ I = 0
    <3>1. E = P + I + Len(Q) /\ Len(Q) \in Nat
      BY SMTT(20), <1>5, <1>7 DEF NotedBy
    <3>2. I = 0 /\ Len(Q) = 0
      BY SMTT(20), <1>5, <2>3, <3>1
    <3>3. ~(Q # <<>>)
      BY SMT, <1>5, <3>2, TailFacts
    <3> QED BY <3>2, <3>3
  <2>5. ArrivedOf(r)'
    <3>1. \A k \in 0 .. Chunks[r] - 1 : k < Chunks[r] /\ call'[r].got[k] = <<r, k>>
      <4>1. \A t \in Slots : call'[r].chunks[t].k = Nothing
        BY <1>14, <2>2
      <4>2. \A k \in 0 .. Chunks[r] - 1 : k # Nothing
        BY SMT, <1>4, DmaAssumption
      <4> QED BY <1>17, <4>1, <4>2
    <3>2. call'[r].k = Chunks[r]
      BY <1>2, <1>3
    <3> QED BY <1>18, <2>1, <3>1, <3>2 DEF ArrivedOf
  <2>6. ReadingOf(r)'
    <3>1. call'[r].k = Chunks[r]
      BY <1>2, <1>3
    <3> QED BY <2>1, <3>1 DEF ReadingOf
  <2>7. queue'["read"] = <<>> /\ intr'["read"] = 0
    BY <1>1, <2>4
  <2> QED BY <1>1, <1>4, <1>6, <1>16, <2>1, <2>5, <2>6, <2>7, ReaderMoves
<1> QED BY <1>19, <1>20

\* The core fills the buffer of the oldest command with the chunk that is noted for it.
LEMMA ReadTransfer == ASSUME TypeOK, RInv, Transfer("read") PROVE RInv'
<1> DEFINE Q == queue["read"]
           T == Tail(Q)
           P == rq.processed
           I == intr["read"]
           E == rq.enqueued
<1>1. /\ Q # <<>> /\ buf' = [buf EXCEPT ![Head(Q).slot] = card[Head(Q).at]] /\ UNCHANGED <<card, rq, call>>
      /\ queue' = [queue EXCEPT !["read"] = T] /\ intr' = [intr EXCEPT !["read"] = I + 1]
  BY DEF Transfer
<1>2. E \in Nat /\ P \in Nat /\ I \in Nat /\ Q \in Seq(Cmd) /\ rq.mutex \in Readers \cup {Nothing}
  BY ReadTypes DEF RTypes
<1>3. queue'["read"] = T /\ intr'["read"] = I + 1
  BY <1>1 DEF TypeOK
<1>4. PICK r \in Readers : rq.mutex = r
  BY <1>1, <1>2 DEF RInv, Holder
<1>5. InRead(r) /\ NotedBy(r) /\ ArrivedOf(r) /\ ReadingOf(r)
  BY <1>4 DEF RInv, Holder, Noted, Arrived, Reading
<1>6. /\ r # Nothing /\ Chunks[r] \in Nat /\ call[r].k \in Nat
      /\ \A t \in Slots : call[r].chunks[t].t_id \in Nat /\ call[r].chunks[t].k \in Nat \cup {Nothing}
  BY ReaderTypes
<1>7. /\ Len(T) = Len(Q) - 1 /\ Len(Q) \in Nat /\ 1 \in DOMAIN Q /\ Head(Q) = Q[1]
      /\ \A i \in DOMAIN T : i \in Nat /\ i >= 1 /\ i + 1 \in DOMAIN Q /\ T[i] = Q[i + 1]
  BY <1>1, <1>2, TailFacts
<1> HIDE DEF T
<1>8. PICK s \in Slots : /\ Q[1].slot = <<"read", s>> /\ call[r].chunks[s].t_id = P + I + 1
                         /\ Q[1].at = <<r, call[r].chunks[s].k>> /\ call[r].chunks[s].k # Nothing
  BY <1>5, <1>7 DEF NotedBy
<1>9. call[r].chunks[s].k \in 0 .. Chunks[r] - 1
  <2>1. call[r].chunks[s].k < call[r].k /\ call[r].chunks[s].k \in Nat
    BY <1>5, <1>6, <1>8 DEF ArrivedOf
  <2>2. call[r].chunks[s].k \in 0 .. call[r].k - 1
    BY SMT, <1>6, <2>1
  <2>3. call[r].chunks[s].k < Chunks[r]
    BY <1>5, <2>2 DEF ArrivedOf
  <2> QED BY SMT, <1>6, <2>1, <2>3
<1>10. /\ buf'[<<"read", s>>] = <<r, call[r].chunks[s].k>>
       /\ \A t \in Slots \ {s} : buf'[<<"read", t>>] = buf[<<"read", t>>]
  <2>1. card[Head(Q).at] = <<r, call[r].chunks[s].k>> /\ Head(Q).slot = <<"read", s>>
    <3>1. \A k \in 0 .. Chunks[r] - 1 : card[<<r, k>>] = <<r, k>>
      BY <1>5 DEF ArrivedOf
    <3> QED BY <1>7, <1>8, <1>9, <3>1
  <2>2. \A t \in Slots : <<"read", t>> \in Buffers
    BY BufferFacts
  <2>3. buf' = [buf EXCEPT ![<<"read", s>>] = <<r, call[r].chunks[s].k>>]
    BY <1>1, <2>1
  <2> QED BY <2>2, <2>3 DEF TypeOK
<1>11. \A d \in Readers : InRead(d)' <=> InRead(d)
  BY <1>1 DEF InRead
<1>12. Same(r) /\ \A d \in Readers \ {r} : Same(d) /\ ~InRead(d)
  BY <1>1, <1>5, OneReader DEF Same
<1>13. CardSame
  BY <1>1 DEF CardSame
<1>14. NotedBy(r)'
  <2>1. E = P + (I + 1) + Len(T)
    <3>1. E = P + I + Len(Q)
      BY <1>5 DEF NotedBy
    <3>2. Len(Q) \in Nat /\ Len(T) = Len(Q) - 1
      BY <1>7
    <3> HIDE DEF P, I, E, Q
    <3> QED BY SMT, <1>2, <3>1, <3>2
  <2>2. ASSUME NEW i \in DOMAIN T
        PROVE  \E t \in Slots : /\ T[i].slot = <<"read", t>>
                                /\ call[r].chunks[t].t_id = P + (I + 1) + i
                                /\ T[i].at = <<r, call[r].chunks[t].k>> /\ call[r].chunks[t].k # Nothing
    <3>1. i \in Nat /\ i + 1 \in DOMAIN Q /\ T[i] = Q[i + 1]
      BY <1>7
    <3>2. P + I + (i + 1) = P + (I + 1) + i
      <4>1. P \in Nat /\ I \in Nat /\ i \in Nat
        BY <1>2, <3>1
      <4> HIDE DEF P, I
      <4> QED BY SMT, <4>1
    <3>3. PICK t \in Slots : /\ Q[i + 1].slot = <<"read", t>>
                             /\ call[r].chunks[t].t_id = P + I + (i + 1)
                             /\ Q[i + 1].at = <<r, call[r].chunks[t].k>> /\ call[r].chunks[t].k # Nothing
      BY <1>5, <3>1 DEF NotedBy
    <3> QED BY <3>1, <3>2, <3>3
  <2>3. /\ \A t \in Slots : call[r].chunks[t].t_id <= E
        /\ \A t, v \in Slots : t # v /\ call[r].chunks[t].k # Nothing /\ call[r].chunks[v].k # Nothing
                                => call[r].chunks[t].t_id # call[r].chunks[v].t_id
        /\ E > 0 => \E t \in Slots : call[r].chunks[t].t_id = E
    BY <1>5 DEF NotedBy
  <2>4. rq' = rq /\ call' = call
    BY <1>1
  <2> QED BY SMTT(20), <1>3, <2>1, <2>2, <2>3, <2>4 DEF NotedBy
<1>15. ArrivedOf(r)'
  <2>1. ASSUME NEW t \in Slots, call[r].chunks[t].k # Nothing, call[r].chunks[t].t_id <= P + (I + 1)
        PROVE  buf'[<<"read", t>>] = <<r, call[r].chunks[t].k>>
    <3>1. CASE t = s
      BY <1>10, <3>1
    <3>2. CASE t # s
      <4>1. call[r].chunks[t].t_id # P + I + 1
        BY SMT, <1>5, <1>8, <2>1, <3>2 DEF NotedBy
      <4>2. call[r].chunks[t].t_id <= P + I
        <5> DEFINE n == call[r].chunks[t].t_id
        <5>1. P \in Nat /\ I \in Nat /\ n \in Nat /\ n <= P + (I + 1) /\ n # P + I + 1
          BY <1>2, <1>6, <2>1, <4>1
        <5> HIDE DEF P, I, n
        <5>2. n <= P + I
          BY SMT, <5>1
        <5> QED BY <5>2 DEF n
      <4> QED BY <1>5, <1>10, <2>1, <3>2, <4>2 DEF ArrivedOf
    <3> QED BY <3>1, <3>2
  <2> QED BY <1>1, <1>3, <1>5, <1>11, <2>1 DEF ArrivedOf
<1>16. ReadingOf(r)'
  BY <1>1, <1>5, <1>11 DEF ReadingOf
<1>17. rq'.mutex = r /\ InRead(r)'
  BY <1>1, <1>4, <1>5, <1>11
<1> QED BY <1>6, <1>12, <1>13, <1>14, <1>15, <1>16, <1>17, ReaderMoves

LEMMA ReadInterrupt == ASSUME TypeOK, RInv, blue_dma_intr_handler("read") PROVE RInv'
<1> DEFINE P == rq.processed
           I == intr["read"]
           E == rq.enqueued
<1>1. /\ I > 0 /\ intr' = [intr EXCEPT !["read"] = I - 1] /\ rq' = [rq EXCEPT !.processed = @ + 1]
      /\ call' = wake_up(call, "rq") /\ UNCHANGED <<buf, queue, card>>
  BY DEF blue_dma_intr_handler
<1>2. E \in Nat /\ P \in Nat /\ I \in Nat /\ rq.mutex \in Readers \cup {Nothing}
  BY ReadTypes DEF RTypes
<1>3. intr'["read"] = I - 1 /\ rq'.processed = P + 1 /\ rq'.enqueued = E /\ rq'.mutex = rq.mutex
  BY <1>1 DEF TypeOK, RqType
<1>4. \A d \in Readers : Same(d)
  BY <1>1, MovesNone DEF TypeOK, Callers
<1>5. PICK r \in Readers : rq.mutex = r
  BY SMT, <1>1, <1>2 DEF RInv, Holder
<1>6. InRead(r) /\ NotedBy(r) /\ ArrivedOf(r) /\ ReadingOf(r)
  BY <1>5 DEF RInv, Holder, Noted, Arrived, Reading
<1>7. \A d \in Readers : InRead(d)' <=> InRead(d)
  BY <1>4 DEF InRead, Same
<1>8. /\ r # Nothing /\ \A t \in Slots : call[r].chunks[t].t_id \in Nat
  BY ReaderTypes
<1>9. P + 1 + (I - 1) = P + I
  BY SMT, <1>2
<1>10. /\ call'[r].chunks = call[r].chunks /\ call'[r].k = call[r].k /\ call'[r].got = call[r].got
       /\ call'[r].pc = call[r].pc /\ call'[r].last = call[r].last
  BY <1>4 DEF Same
<1>11. NotedBy(r)'
  BY SMTT(20), <1>1, <1>3, <1>6, <1>9, <1>10 DEF NotedBy
<1>12. ArrivedOf(r)'
  BY SMTT(20), <1>1, <1>3, <1>6, <1>7, <1>9, <1>10 DEF ArrivedOf
<1>13. ReadingOf(r)'
  <2>1. call[r].last \in Slots
    BY <1>6 DEF ReadingOf
  <2>2. \A t \in 0 .. call[r].last - 1 : t \in Slots
    BY SMT, <2>1, DmaAssumption DEF Slots
  <2>3. \A t \in Slots : call[r].chunks[t].t_id <= P => call[r].chunks[t].t_id <= P + 1
    BY SMT, <1>2, <1>8
  <2> QED BY <1>3, <1>6, <1>7, <1>10, <2>2, <2>3 DEF ReadingOf
<1>14. CardSame /\ \A d \in Readers \ {r} : ~InRead(d)
  BY <1>1, <1>6, OneReader DEF CardSame
<1> QED BY <1>3, <1>4, <1>5, <1>6, <1>7, <1>8, <1>11, <1>12, <1>13, <1>14, ReaderMoves

\* Nobody reads while the engine is set up or taken down.
LEMMA ReadReset ==
  ASSUME TypeOK, RInv, \A r \in Readers : call[r].pc \in Finished, UNCHANGED <<queue, intr, card, call>>,
         rq' = rq \/ rq'.mutex = Nothing
  PROVE  RInv'
<1>1. \A r \in Readers : ~InRead(r) /\ ~(InRead(r)')
  BY DEF InRead, Finished
<1>2. rq.mutex = Nothing
  BY <1>1, ReadTypes DEF RInv, Holder, RTypes
<1>3. rq'.mutex = Nothing /\ \A r \in Readers : r # Nothing
  BY <1>2, DmaAssumption
<1>4. Holder' /\ Noted'
  BY <1>1, <1>2, <1>3 DEF RInv, Holder, Noted
<1>5. CardSame /\ \A r \in Readers : Same(r)
  BY DEF CardSame, Same
<1>6. Arrived' /\ Reading'
  BY <1>1, <1>5, OtherReader DEF Arrived, Reading
<1> QED BY <1>4, <1>6 DEF RInv

\* Every step keeps the readers' part.
LEMMA ReadCorrect == TypeOK /\ Down /\ WInv /\ RInv /\ [Next]_vars => RInv'
<1> SUFFICES ASSUME TypeOK, Down, WInv, RInv, [Next]_vars PROVE RInv'
  OBVIOUS
<1>0. \A w \in Writers : w \in Callers /\ w \notin Readers
  BY DmaAssumption DEF Callers
<1>1. CASE tlkm_dma_init \/ allocate_buffer \/ AllocateFails \/ tlkm_dma_exit
  <2>1. \A r \in Readers : call[r].pc \in Finished
    BY <1>1 DEF Down, tlkm_dma_init, allocate_buffer, AllocateFails, tlkm_dma_exit, Finished, Callers
  <2>2. UNCHANGED <<queue, intr, card, call>> /\ (rq' = rq \/ rq'.mutex = Nothing)
    BY SMT, <1>1 DEF tlkm_dma_init, allocate_buffer, AllocateFails, tlkm_dma_exit
  <2> QED BY <2>1, <2>2, ReadReset
<1>2. ASSUME NEW c \in Callers, Begin(c) PROVE RInv'
  BY <1>2, ReadBegin
<1>3. ASSUME NEW w \in Writers, tlkm_dma_copy_to(w) \/ CopyFromUserFails(w) PROVE RInv'
  <2> USE DEF tlkm_dma_copy_to
  <2>1. UNCHANGED <<rq, intr, card>> /\ queue'["read"] = queue["read"]
    BY <1>3 DEF Request, WaitForBuffer, CopyFromUser, CopyFromUserFails, Enqueue, WaitForLast,
                PassEnqueued, PassProcessed, blue_dma_copy_to, TypeOK
  <2>2. \A s \in Slots : buf'[<<"read", s>>] = buf[<<"read", s>>]
    <3>1. CASE CopyFromUser(w)
      <4>1. \A s \in Slots : <<"read", s>> \in Buffers
        BY BufferFacts
      <4>2. \A s \in Slots : <<"read", s>> # Slot(w)
        BY DEF Slot
      <4> QED BY <3>1, <4>1, <4>2 DEF CopyFromUser, TypeOK
    <3>2. CASE ~CopyFromUser(w)
      BY <1>3, <3>2 DEF Request, WaitForBuffer, CopyFromUserFails, Enqueue, WaitForLast,
                        PassEnqueued, PassProcessed
    <3> QED BY <3>1, <3>2
  <2>3. \A d \in Callers \ {w} : Same(d)
    <3>0. wq.requested \in Nat /\ CallsOK
      BY DEF TypeOK, WqType
    <3>1. CASE Request(w)
      BY <1>0, <3>0, <3>1, MovesRequest DEF Request, Moves, Pcs
    <3>2. CASE \E q \in Queues : \E cond \in BOOLEAN : \E p \in Pcs : Wait(w, q, cond, p)
      BY <1>0, <3>0, <3>2, MovesWhen DEF Moves
    <3>3. CASE \E p \in Pcs : call' = [call EXCEPT ![w].pc = p]
      BY <1>0, <3>0, <3>3, MovesTo DEF Moves
    <3>4. CASE call' = wake_up(Next_k(w), "wq_enque")
      BY <1>0, <3>0, <3>4, MovesNext DEF Moves
    <3>5. CASE call' = [call EXCEPT ![w].asleep = "wq_enque"]
      BY <1>0, <3>0, <3>5, MovesAsleep DEF Moves, Queues
    <3>6. CASE WaitForBuffer(w) \/ WaitForLast(w) \/ PassEnqueued(w) \/ PassProcessed(w)
      <4>1. "wq" \in Queues /\ {"copy", "done", "err_last", "failed"} \subseteq Pcs
        BY DEF Queues, Pcs
      <4>2. \/ Wait(w, "wq", wq.processed + Ring > call[w].last, "copy")
            \/ Wait(w, "wq", wq.processed > call[w].last, "done")
            \/ Wait(w, "wq", wq.enqueued = call[w].last, "err_last")
            \/ Wait(w, "wq", wq.processed = call[w].last, "failed")
        BY <3>6 DEF WaitForBuffer, WaitForLast, PassEnqueued, PassProcessed
      <4>3. /\ (wq.processed + Ring > call[w].last) \in BOOLEAN /\ (wq.processed > call[w].last) \in BOOLEAN
            /\ (wq.enqueued = call[w].last) \in BOOLEAN /\ (wq.processed = call[w].last) \in BOOLEAN
        BY SMT
      <4> QED BY <3>2, <4>1, <4>2, <4>3
    <3>7. CASE CopyFromUser(w) \/ CopyFromUserFails(w)
      BY <3>3, <3>7 DEF CopyFromUser, CopyFromUserFails, Pcs
    <3>8. CASE Enqueue(w)
      BY <3>4, <3>5, <3>8 DEF Enqueue
    <3> QED BY <1>3, <3>1, <3>6, <3>7, <3>8
  <2>4. RUntouched /\ CardSame
    BY <1>0, <2>1, <2>3 DEF RUntouched, CardSame, Callers
  <2> QED BY <2>2, <2>4, ReadFrame
<1>4. ASSUME NEW r \in Readers, tlkm_dma_copy_from(r) PROVE RInv'
  <2>1. CASE Lock(r)
    BY <2>1, ReadLock
  <2>2. CASE (ReadChunk(r) \/ Drain(r)) /\ rq.processed >= Chunk(r).t_id
    BY <2>2, ReadRequest, ReadDrain
  <2>3. CASE (ReadChunk(r) \/ Drain(r)) /\ ~(rq.processed >= Chunk(r).t_id)
    <3>1. call' = [call EXCEPT ![r].asleep = "rq"] /\ UNCHANGED <<rq, queue, intr, buf, card>>
      BY <2>3 DEF ReadChunk, Drain
    <3>2. r \in Callers /\ "rq" \in Queues /\ CallsOK
      BY DEF Callers, Queues, TypeOK
    <3>3. Moves(r, call[r].pc, call[r].k, call[r].last)
      BY <3>1, <3>2, MovesAsleep
    <3>4. RUntouched /\ CardSame
      BY <3>1, <3>3 DEF RUntouched, CardSame, Moves, Same, Callers
    <3> QED BY <3>1, <3>4, ReadFrame
  <2> QED BY <1>4, <2>1, <2>2, <2>3 DEF tlkm_dma_copy_from
<1>5. CASE Transfer("read")
  BY <1>5, ReadTransfer
<1>6. CASE blue_dma_intr_handler("read")
  BY <1>6, ReadInterrupt
<1>7. CASE Transfer("write")
  <2> DEFINE cmd == Head(queue["write"])
  <2>1. /\ queue["write"] # <<>> /\ UNCHANGED <<rq, buf, call>>
        /\ card' = [card EXCEPT ![cmd.at] = buf[cmd.slot]]
        /\ queue' = [queue EXCEPT !["write"] = Tail(@)] /\ intr' = [intr EXCEPT !["write"] = @ + 1]
    BY <1>7 DEF Transfer
  <2>2. queue'["read"] = queue["read"] /\ intr'["read"] = intr["read"]
    BY <2>1 DEF TypeOK
  <2>3. cmd.at[1] \in Writers
    <3>1. queue["write"] \in Seq(Cmd)
      BY DEF TypeOK
    <3>2. 1 \in DOMAIN queue["write"] /\ cmd = queue["write"][1]
      BY <2>1, <3>1, TailFacts
    <3> QED BY <3>2 DEF WInv, Owned
  <2> HIDE DEF cmd
  <2>4. CardSame
    <3>1. ASSUME NEW r \in Readers, NEW k \in 0 .. Chunks[r] - 1 PROVE card'[<<r, k>>] = card[<<r, k>>]
      <4>1. k \in Nat /\ k < Chunks[r] /\ r \in Callers
        BY SMT, ReaderTypes
      <4>2. <<r, k>> \in AllChunks
        BY <4>1, ChunkFacts
      <4>3. cmd.at # <<r, k>>
        BY SMT, <1>0, <2>3
      <4> QED BY <2>1, <4>2, <4>3 DEF TypeOK
    <3> QED BY <3>1 DEF CardSame
  <2>5. RUntouched
    BY <2>1, <2>2 DEF RUntouched, Same
  <2> QED BY <2>1, <2>4, <2>5, ReadFrame
<1>8. CASE blue_dma_intr_handler("write")
  <2>1. /\ intr' = [intr EXCEPT !["write"] = @ - 1] /\ call' = wake_up(call, "wq")
        /\ UNCHANGED <<rq, queue, buf, card>>
    BY <1>8 DEF blue_dma_intr_handler
  <2>2. intr'["read"] = intr["read"] /\ CardSame
    BY <2>1 DEF TypeOK, CardSame
  <2>3. \A c \in Callers : Same(c)
    BY <2>1, MovesNone DEF TypeOK
  <2>4. RUntouched
    BY <2>1, <2>2, <2>3 DEF RUntouched, Callers
  <2> QED BY <2>1, <2>2, <2>4, ReadFrame
<1>9. CASE UNCHANGED vars
  <2>1. RUntouched /\ CardSame
    BY <1>9 DEF RUntouched, CardSame, Same, vars
  <2> QED BY <1>9, <2>1, ReadFrame DEF vars
<1> QED BY <1>1, <1>2, <1>3, <1>4, <1>5, <1>6, <1>7, <1>8, <1>9 DEF Next
=============================================================================
