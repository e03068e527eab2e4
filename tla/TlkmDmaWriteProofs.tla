------------------------- MODULE TlkmDmaWriteProofs -------------------------
(***************************************************************************)
(* Every step of TlkmDma keeps the writers' part of the invariant.         *)
(***************************************************************************)
EXTENDS TlkmDmaInvariant

\* A leaf is proved with Zenon unless it names another prover.
USE Zenon

\* The types, for arithmetic.
WTypes ==
  /\ wq.requested \in Nat /\ wq.enqueued \in Nat /\ wq.processed \in Nat /\ intr["write"] \in Nat
  /\ \A w \in Writers : call[w].k \in Nat /\ call[w].last \in Nat /\ Chunks[w] \in Nat
  /\ queue["write"] \in Seq(Cmd)
  /\ \A i \in DOMAIN queue["write"] : queue["write"][i].n \in Nat
  /\ Cardinality(ErrLast) \in Nat /\ \A n \in Nat : Cardinality(Below(n)) \in Nat

\* How sets of writers are counted. It follows from Writers being finite (CountsWriters of
\* TlkmDmaProofs), and is a hypothesis here: the library of facts on finite sets stays out of
\* this module.
Counting ==
  /\ Cardinality({}) = 0
  /\ \A S \in SUBSET Writers :
       /\ Cardinality(S) \in Nat
       /\ \A w \in Writers \ S : Cardinality(S \cup {w}) = Cardinality(S) + 1
       /\ \A w \in S : Cardinality(S \ {w}) = Cardinality(S) - 1

LEMMA FailedWriters == ErrLast \in SUBSET Writers /\ \A n \in Nat : Below(n) \in SUBSET Writers
BY DEF ErrLast, Below

LEMMA WriteTypes == Counting /\ TypeOK => WTypes
<1> SUFFICES ASSUME Counting, TypeOK PROVE WTypes
  OBVIOUS
<1>1. wq.requested \in Nat /\ wq.enqueued \in Nat /\ wq.processed \in Nat
  BY DEF TypeOK, WqType
<1>2. intr["write"] \in Nat /\ queue["write"] \in Seq(Cmd)
  BY DEF TypeOK
<1>3. \A w \in Writers : call[w].k \in Nat /\ call[w].last \in Nat /\ Chunks[w] \in Nat
  BY DmaAssumption DEF TypeOK, CallsOK, CallOf, Callers
<1>4. \A i \in DOMAIN queue["write"] : queue["write"][i].n \in Nat
  <2>1. \A i \in DOMAIN queue["write"] : queue["write"][i] \in Cmd
    BY SMT, <1>2
  <2> QED BY <2>1 DEF Cmd
<1>5. Cardinality(ErrLast) \in Nat /\ \A n \in Nat : Cardinality(Below(n)) \in Nat
  BY FailedWriters DEF Counting
<1> QED BY <1>1, <1>2, <1>3, <1>4, <1>5 DEF WTypes

LEMMA BelowSame ==
  ASSUME ErrLast' = ErrLast, \A w \in ErrLast : call'[w].last = call[w].last
  PROVE  \A n : Below(n)' = Below(n)
BY DEF Below

\* Nothing of the queue, the counters and the failed calls changes.
LEMMA QueueFrame ==
  ASSUME InOrder, Counted, ErrLast' = ErrLast, \A w \in ErrLast : call'[w].last = call[w].last,
         wq'.enqueued = wq.enqueued, wq'.processed = wq.processed,
         queue'["write"] = queue["write"], intr'["write"] = intr["write"]
  PROVE  InOrder' /\ Counted'
BY SMT, BelowSame DEF InOrder, Counted

LEMMA WrittenStep ==
  ASSUME WTypes, Written, \A w \in Writers : call'[w].k = call[w].k,
         \A w \in Writers : \A k \in 0 .. Chunks[w] - 1 : Through(w, k) => Through(w, k)'
  PROVE  Written'
<1> SUFFICES ASSUME NEW w \in Writers, NEW k \in 0 .. call[w].k - 1 PROVE k < Chunks[w] /\ Through(w, k)'
  BY DEF Written
<1>1. k < Chunks[w] /\ Through(w, k)
  BY DEF Written
<1>2. call[w].k \in Nat /\ Chunks[w] \in Nat
  BY DEF WTypes
<1>3. k \in 0 .. Chunks[w] - 1
  BY SMT, <1>1, <1>2
<1> QED BY <1>1, <1>3

WUntouched ==
  /\ wq' = wq /\ queue'["write"] = queue["write"] /\ intr'["write"] = intr["write"]
  /\ \A w \in Writers : Same(w)

\* The step is of no concern to the writers.
LEMMA WriteFrame ==
  ASSUME Counting, TypeOK, WInv, WUntouched, \A s \in Slots : buf'[<<"write", s>>] = buf[<<"write", s>>],
         \A w \in Writers : \A k \in 0 .. Chunks[w] - 1 : card'[<<w, k>>] = card[<<w, k>>]
  PROVE  WInv'
<1> USE DEF WInv, WUntouched, Same
<1>0. WTypes
  BY WriteTypes
<1>1. ErrLast' = ErrLast /\ \A w \in Writers : Waiting(w)' = Waiting(w)
  BY DEF ErrLast, Waiting
<1>2. InOrder' /\ Counted'
  BY <1>1, QueueFrame DEF ErrLast
<1>3. Numbers' /\ Progress'
  BY SMT, <1>1 DEF Numbers, Progress, ErrLast
<1>4. Owned' /\ Pending'
  BY SMT, <1>1 DEF Owned, Pending, ErrLast
<1>5. Filled'
  <2>1. \A i \in DOMAIN queue["write"] : buf'[queue["write"][i].slot] = buf[queue["write"][i].slot]
    <3>1. \A i \in DOMAIN queue["write"] : queue["write"][i].n % Ring \in Slots
      BY <1>0, SlotFacts DEF WTypes
    <3> QED BY <3>1 DEF InOrder
  <2>2. \A w \in Writers : Slot(w)' = Slot(w) /\ buf'[Slot(w)] = buf[Slot(w)]
    BY <1>0, SlotFacts DEF Slot, WTypes
  <2> QED BY SMT, <2>1, <2>2 DEF Filled
<1>6. Written'
  <2>1. \A w \in Writers : \A k \in 0 .. Chunks[w] - 1 : Through(w, k) => Through(w, k)'
    BY DEF Through
  <2> QED BY <1>0, <2>1, WrittenStep
<1> QED BY <1>2, <1>3, <1>4, <1>5, <1>6

\* The numbers, for one writer or one command at a time.
LEMMA Typed ==
  ASSUME WTypes
  PROVE  /\ wq.requested \in Nat /\ wq.enqueued \in Nat /\ wq.processed \in Nat /\ intr["write"] \in Nat
         /\ \A w \in Writers : call[w].last \in Nat /\ call[w].k \in Nat
BY DEF WTypes

\* Only the pc of w changes: Numbers where a number is neither drawn nor given up.
PcMoves(w, p) ==
  /\ w \in Writers
  /\ call'[w].pc = p /\ call'[w].k = call[w].k /\ call'[w].last = call[w].last
  /\ \A v \in Writers \ {w} : Same(v)
  /\ wq' = wq /\ queue'["write"] = queue["write"] /\ intr'["write"] = intr["write"]

\* A call begins, or goes on with the number it has.
LEMMA PcStep ==
  ASSUME Counting, TypeOK, WInv, NEW w, NEW p, PcMoves(w, p),
         \/ call[w].pc = "idle" /\ p \in {"request", "failed"}
         \/ call[w].pc = "free" /\ p = "copy" /\ call[w].last < wq.processed + Ring
         \/ call[w].pc = "copy" /\ p \in {"turn", "err_turn"}
  PROVE  Numbers' /\ Progress' /\ InOrder' /\ Counted' /\ Owned' /\ Pending'
<1> USE DEF WInv, PcMoves, Same
<1>0. WTypes
  BY WriteTypes
<1>1. ErrLast' = ErrLast
  BY DEF ErrLast
<1>2. \A v \in Writers : call'[v].last = call[v].last /\ call'[v].k = call[v].k
  OBVIOUS
<1>3. \A v \in Writers : Waiting(v)' <=> Waiting(v)
  BY DEF Waiting
<1>4. InOrder' /\ Counted'
  BY <1>1, <1>2, QueueFrame DEF ErrLast
<1>5. Numbers'
  BY SMT, <1>1, <1>2, <1>3 DEF Numbers, ErrLast
<1>6. Progress'
  <2>1. 0 < Chunks[w]
    BY SMT, DmaAssumption DEF Callers
  <2> QED BY SMT, <1>1, <1>2, <1>3, <2>1 DEF Progress, ErrLast, Waiting
<1>7. Owned' /\ Pending'
  <2>1. \A v \in Writers : call[v].pc \notin Finished => call'[v].pc \notin Finished
    BY DEF Finished
  <2> QED BY SMT, <1>1, <1>2, <1>3, <2>1 DEF Owned, Pending
<1> QED BY <1>4, <1>5, <1>6, <1>7

\* The commands in the queue are not processed.
LEMMA NotProcessed ==
  ASSUME WTypes, InOrder, NEW i \in DOMAIN queue["write"]
  PROVE  wq.processed <= queue["write"][i].n
<1> DEFINE n == queue["write"][i].n
           c == Cardinality(Below(n))
<1>1. n \in Nat /\ wq.processed \in Nat /\ intr["write"] \in Nat
  BY DEF WTypes
<1>2. c \in Nat
  <2> HIDE DEF n
  <2> QED BY <1>1 DEF WTypes
<1>5. i \in Nat /\ i >= 1
  <2>1. queue["write"] \in Seq(Cmd)
    BY DEF WTypes
  <2> QED BY SMT, <2>1
<1>3. wq.processed + intr["write"] + (i - 1) + c <= n
  BY DEF InOrder
<1> HIDE DEF n, c
<1>4. wq.processed <= n
  BY SMT, <1>1, <1>2, <1>3, <1>5
<1> QED BY <1>4 DEF n

\* The buffers and the card stay as they are, and no call gets to its turn.
LEMMA FilledWritten ==
  ASSUME WTypes, Filled, Written, buf' = buf, card' = card, queue'["write"] = queue["write"],
         \A w \in Writers : call'[w].k = call[w].k,
         \A w \in Writers : call'[w].pc = "turn" => call[w].pc = "turn" /\ call'[w].last = call[w].last
  PROVE  Filled' /\ Written'
<1>1. Filled'
  BY DEF Filled, Slot
<1>2. \A w \in Writers : \A k \in 0 .. Chunks[w] - 1 : Through(w, k) => Through(w, k)'
  BY DEF Through
<1>3. Written'
  BY <1>2, WrittenStep
<1> QED BY <1>1, <1>3

LEMMA WriteBegin == ASSUME Counting, TypeOK, WInv, NEW c \in Callers, Begin(c) PROVE WInv'
<1> DEFINE p == IF c \in Misaligned THEN "failed" ELSE IF c \in Writers THEN "request" ELSE "lock"
<1>1. p \in Pcs /\ call' = [call EXCEPT ![c].pc = p] /\ call[c].pc = "idle"
  BY DEF Begin, Pcs, At
<1>2. c \in Writers => p \in {"request", "failed"}
  OBVIOUS
<1>3. UNCHANGED <<wq, queue, intr, buf, card>>
  BY DEF Begin
<1> HIDE DEF p
<1>4. Moves(c, p, call[c].k, call[c].last)
  BY <1>1, MovesTo DEF TypeOK
<1>5. CASE c \in Writers
  <2>1. PcMoves(c, p)
    BY <1>3, <1>4, <1>5 DEF PcMoves, Moves, Callers
  <2>2. Numbers' /\ Progress' /\ InOrder' /\ Counted' /\ Owned' /\ Pending'
    BY <1>1, <1>2, <1>5, <2>1, PcStep
  <2>3. Filled' /\ Written'
    <3>1. \A w \in Writers : call'[w].k = call[w].k /\ call'[w].last = call[w].last
      BY <2>1 DEF PcMoves, Same
    <3>2. \A w \in Writers : call'[w].pc = "turn" => call[w].pc = "turn"
      BY <1>2, <1>5, <2>1 DEF PcMoves, Same
    <3> QED BY <1>3, <3>1, <3>2, FilledWritten, WriteTypes DEF WInv
  <2> QED BY <2>2, <2>3 DEF WInv
<1>6. CASE c \notin Writers
  <2>1. WUntouched
    BY <1>3, <1>4, <1>6 DEF WUntouched, Moves, Callers
  <2> QED BY <1>3, <2>1, WriteFrame
<1> QED BY <1>5, <1>6

LEMMA WriteWait == ASSUME Counting, TypeOK, WInv, NEW w \in Writers, WaitForBuffer(w) PROVE WInv'
<1> DEFINE cond == wq.processed + Ring > call[w].last
<1>1. Wait(w, "wq", cond, "copy") /\ cond \in BOOLEAN /\ "copy" \in Pcs /\ "wq" \in Queues
  BY SMT DEF WaitForBuffer, Pcs, Queues
<1>2. UNCHANGED <<wq, queue, intr, buf, card>> /\ call[w].pc = "free"
  BY DEF WaitForBuffer, At
<1>3. WTypes /\ w \in Callers
  BY WriteTypes DEF Callers
<1>4. cond => call[w].last < wq.processed + Ring
  BY <1>3, Typed, DmaAssumption
<1> HIDE DEF cond
<1>5. Moves(w, IF cond THEN "copy" ELSE call[w].pc, call[w].k, call[w].last)
  BY <1>1, <1>3, MovesWhen DEF TypeOK
<1>6. CASE cond
  <2>1. PcMoves(w, "copy")
    BY <1>2, <1>5, <1>6 DEF PcMoves, Moves, Callers
  <2>2. Numbers' /\ Progress' /\ InOrder' /\ Counted' /\ Owned' /\ Pending'
    BY <1>2, <1>4, <1>6, <2>1, PcStep
  <2>3. Filled' /\ Written'
    <3>1. \A v \in Writers : call'[v].k = call[v].k /\ call'[v].last = call[v].last
      BY <2>1 DEF PcMoves, Same
    <3>2. \A v \in Writers : call'[v].pc = "turn" => call[v].pc = "turn"
      BY <2>1 DEF PcMoves, Same
    <3> QED BY <1>2, <1>3, <3>1, <3>2, FilledWritten DEF WInv
  <2> QED BY <2>2, <2>3 DEF WInv
<1>7. CASE ~cond
  <2>1. WUntouched
    BY <1>2, <1>5, <1>7 DEF WUntouched, Moves, Same, Callers
  <2> QED BY <1>2, <2>1, WriteFrame
<1> QED BY <1>6, <1>7

\* Two numbers of the window that starts at p have different slots.
LEMMA SlotsDiffer ==
  ASSUME NEW p \in Nat, NEW m \in Nat, NEW n \in Nat, m # n,
         p <= m, m < p + Ring, p <= n, n < p + Ring
  PROVE  <<"write", m % Ring>> # <<"write", n % Ring>>
<1>1. CASE m < n
  <2>1. n < m + Ring
    BY SMT, <1>1, DmaAssumption
  <2>2. m % Ring # n % Ring
    BY <1>1, <2>1, ModDistinct, DmaAssumption
  <2> QED BY <2>2
<1>2. CASE n < m
  <2>1. m < n + Ring
    BY SMT, <1>2, DmaAssumption
  <2>2. n % Ring # m % Ring
    BY <1>2, <2>1, ModDistinct, DmaAssumption
  <2> QED BY <2>2
<1> QED BY SMT, <1>1, <1>2

LEMMA ProcessedEnqueued == ASSUME WTypes, Counted PROVE wq.processed <= wq.enqueued
<1>1. Len(queue["write"]) \in Nat
  BY SMT DEF WTypes
<1>2. Cardinality(ErrLast) \in Nat
  BY DEF WTypes
<1> QED BY SMT, <1>1, <1>2, Typed DEF Counted

LEMMA WriteCopy == ASSUME Counting, TypeOK, WInv, NEW w \in Writers, CopyFromUser(w) PROVE WInv'
<1>1. /\ call' = [call EXCEPT ![w].pc = "turn"] /\ call[w].pc = "copy" /\ "turn" \in Pcs
      /\ buf' = [buf EXCEPT ![Slot(w)] = <<w, call[w].k>>] /\ UNCHANGED <<wq, queue, intr, card>>
  BY DEF CopyFromUser, At, Pcs
<1>2. WTypes /\ w \in Callers
  BY WriteTypes DEF Callers
<1>3. Moves(w, "turn", call[w].k, call[w].last)
  BY <1>1, <1>2, MovesTo DEF TypeOK
<1>4. PcMoves(w, "turn")
  BY <1>1, <1>3 DEF PcMoves, Moves, Callers
<1>5. Numbers' /\ Progress' /\ InOrder' /\ Counted' /\ Owned' /\ Pending'
  BY <1>1, <1>4, PcStep
<1>6. \A v \in Writers : call'[v].k = call[v].k /\ call'[v].last = call[v].last
  BY <1>4 DEF PcMoves, Same
<1>7. \A v \in Writers \ {w} : call'[v].pc = call[v].pc
  BY <1>4 DEF PcMoves, Same
<1>n. /\ wq.processed \in Nat /\ wq.enqueued \in Nat /\ call[w].last \in Nat /\ wq.processed <= wq.enqueued
      /\ wq.enqueued <= call[w].last /\ call[w].last < wq.processed + Ring
  BY <1>1, <1>2, Typed, ProcessedEnqueued DEF WInv, Numbers, Waiting
<1>8. Filled'
  <2>1. Slot(w) \in Buffers /\ \A b \in Buffers \ {Slot(w)} : buf'[b] = buf[b]
    BY <1>1, <1>n, SlotFacts DEF TypeOK, Slot
  <2>2. buf'[Slot(w)] = <<w, call[w].k>>
    BY <1>1, <2>1 DEF TypeOK
  <2>3. ASSUME NEW i \in DOMAIN queue["write"] PROVE buf'[queue["write"][i].slot] = queue["write"][i].at
    <3> DEFINE n == queue["write"][i].n
    <3>1. n \in Nat /\ wq.processed <= n
      BY <1>2, NotProcessed DEF WTypes, WInv
    <3>2. n < wq.enqueued /\ n < wq.processed + Ring /\ queue["write"][i].slot = <<"write", n % Ring>>
      BY DEF WInv, InOrder
    <3> HIDE DEF n
    <3>3. n # call[w].last
      BY SMT, <1>n, <3>1, <3>2
    <3>4. wq.processed <= call[w].last
      BY SMT, <1>n
    <3>5. queue["write"][i].slot # Slot(w)
      BY <1>n, <3>1, <3>2, <3>3, <3>4, SlotsDiffer DEF Slot
    <3>6. queue["write"][i].slot \in Buffers
      BY <3>1, <3>2, SlotFacts
    <3> QED BY <2>1, <3>5, <3>6 DEF WInv, Filled
  <2>4. ASSUME NEW v \in Writers \ {w}, call'[v].pc = "turn" PROVE buf'[Slot(v)] = <<v, call[v].k>>
    <3>1. call[v].pc = "turn"
      BY <1>7, <2>4
    <3>2. /\ call[v].last \in Nat /\ call[v].last # call[w].last
          /\ wq.enqueued <= call[v].last /\ call[v].last < wq.processed + Ring
      BY <1>1, <1>2, <3>1, Typed DEF WInv, Numbers, Waiting
    <3>3. wq.processed <= call[v].last /\ wq.processed <= call[w].last
      BY SMT, <1>n, <3>2
    <3>4. Slot(v) # Slot(w)
      BY <1>n, <3>2, <3>3, SlotsDiffer DEF Slot
    <3>5. Slot(v) \in Buffers
      BY <3>2, SlotFacts DEF Slot
    <3> QED BY <2>1, <3>1, <3>4, <3>5 DEF WInv, Filled
  <2>5. \A v \in Writers : Slot(v)' = Slot(v)
    BY <1>6 DEF Slot
  <2> QED BY <1>1, <1>6, <2>2, <2>3, <2>4, <2>5 DEF Filled
<1>9. Written'
  <2>1. \A v \in Writers : \A k \in 0 .. Chunks[v] - 1 : Through(v, k) => Through(v, k)'
    BY <1>1 DEF Through
  <2> QED BY <1>2, <1>6, <2>1, WrittenStep DEF WInv
<1> QED BY <1>5, <1>8, <1>9 DEF WInv

LEMMA WriteCopyFails == ASSUME Counting, TypeOK, WInv, NEW w \in Writers, CopyFromUserFails(w) PROVE WInv'
<1>1. /\ call' = [call EXCEPT ![w].pc = "err_turn"] /\ call[w].pc = "copy" /\ "err_turn" \in Pcs
      /\ UNCHANGED <<wq, queue, intr, buf, card>>
  BY DEF CopyFromUserFails, At, Pcs
<1>2. WTypes /\ w \in Callers
  BY WriteTypes DEF Callers
<1>3. Moves(w, "err_turn", call[w].k, call[w].last)
  BY <1>1, <1>2, MovesTo DEF TypeOK
<1>4. PcMoves(w, "err_turn")
  BY <1>1, <1>3 DEF PcMoves, Moves, Callers
<1>5. Numbers' /\ Progress' /\ InOrder' /\ Counted' /\ Owned' /\ Pending'
  BY <1>1, <1>4, PcStep
<1>6. \A v \in Writers : call'[v].k = call[v].k /\ call'[v].last = call[v].last
  BY <1>4 DEF PcMoves, Same
<1>7. \A v \in Writers : call'[v].pc = "turn" => call[v].pc = "turn"
  BY <1>4 DEF PcMoves, Same
<1>8. Filled' /\ Written'
  BY <1>1, <1>2, <1>6, <1>7, FilledWritten DEF WInv
<1> QED BY <1>5, <1>8 DEF WInv

LEMMA WriteRequest == ASSUME Counting, TypeOK, WInv, NEW w \in Writers, Request(w) PROVE WInv'
<1>1. /\ call' = [call EXCEPT ![w].last = wq.requested, ![w].pc = "free"]
      /\ call[w].pc = "request" /\ "free" \in Pcs /\ UNCHANGED <<queue, intr, buf, card>>
  BY DEF Request, At, Pcs
<1>2. WTypes /\ w \in Callers
  BY WriteTypes DEF Callers
<1>3. /\ wq.requested \in Nat /\ wq.enqueued \in Nat /\ wq.enqueued <= wq.requested
      /\ \A v \in Writers : call[v].last \in Nat
  BY <1>2, Typed DEF WInv, Numbers
<1>4. wq'.requested = wq.requested + 1 /\ wq'.enqueued = wq.enqueued /\ wq'.processed = wq.processed
  BY DEF Request, TypeOK, WqType
<1>5. Moves(w, "free", call[w].k, wq.requested)
  BY <1>1, <1>2, <1>3, MovesRequest DEF TypeOK
<1>6. call'[w].pc = "free" /\ call'[w].last = wq.requested /\ call'[w].k = call[w].k
  BY <1>5 DEF Moves
<1>7. \A v \in Writers \ {w} : call'[v].pc = call[v].pc /\ call'[v].last = call[v].last /\ call'[v].k = call[v].k
  BY <1>5 DEF Moves, Same, Callers
<1>8. ErrLast' = ErrLast /\ w \notin ErrLast
  BY <1>1, <1>6, <1>7 DEF ErrLast
<1>9. Waiting(w)' /\ ~Waiting(w) /\ \A v \in Writers \ {w} : Waiting(v)' <=> Waiting(v)
  BY <1>1, <1>6, <1>7 DEF Waiting
<1>10. Numbers'
  <2>1. \A v \in Writers : Waiting(v) => wq.enqueued <= call[v].last /\ call[v].last < wq.requested
    BY DEF WInv, Numbers
  <2>2. \A v \in Writers : Waiting(v)' => wq'.enqueued <= call'[v].last /\ call'[v].last < wq'.requested
    BY SMTT(20), <1>3, <1>4, <1>6, <1>7, <1>9, <2>1
  <2>3. \A u, v \in Writers : Waiting(u)' /\ Waiting(v)' /\ u # v => call'[u].last # call'[v].last
    <3>1. \A v \in Writers \ {w} : Waiting(v) => call[v].last # wq.requested
      BY SMT, <1>3, <2>1
    <3> QED BY SMT, <1>6, <1>7, <1>9, <3>1 DEF WInv, Numbers
  <2>4. \A v \in Writers : call'[v].pc \in {"copy", "turn"} => call'[v].last < wq'.processed + Ring
    BY <1>4, <1>6, <1>7 DEF WInv, Numbers
  <2>5. \A v \in ErrLast : call'[v].last < wq'.enqueued
    BY <1>4, <1>7, <1>8 DEF WInv, Numbers, ErrLast
  <2>6. wq'.enqueued <= wq'.requested
    BY SMTT(20), <1>3, <1>4
  <2> QED BY <1>8, <2>2, <2>3, <2>4, <2>5, <2>6 DEF Numbers
<1>11. Progress'
  <2>1. call'[w].k < Chunks[w]
    BY <1>1, <1>6 DEF WInv, Progress
  <2> QED BY SMTT(20), <1>6, <1>7, <1>8, <1>9, <2>1 DEF WInv, Progress
<1>12. InOrder' /\ Counted'
  BY <1>1, <1>4, <1>7, <1>8, QueueFrame DEF WInv, ErrLast
<1>13. Owned'
  <2> SUFFICES ASSUME NEW i \in DOMAIN queue["write"]
               PROVE  LET q == queue["write"][i] IN
                        \E v \in Writers : /\ q.at[1] = v /\ q.at[2] < call'[v].k
                                           /\ q.n <= call'[v].last
                                           /\ call'[v].pc \notin Finished
                                           /\ Waiting(v)' \/ v \in ErrLast' => q.n < call'[v].last
    BY <1>1 DEF Owned
  <2> DEFINE q == queue["write"][i]
  <2>1. PICK v \in Writers : /\ q.at[1] = v /\ q.at[2] < call[v].k /\ q.n <= call[v].last
                             /\ call[v].pc \notin Finished
                             /\ Waiting(v) \/ v \in ErrLast => q.n < call[v].last
    BY DEF WInv, Owned
  <2>2. q.n \in Nat /\ q.n < wq.enqueued
    BY <1>2 DEF WInv, InOrder, WTypes
  <2> HIDE DEF q
  <2>3. q.n < wq.requested /\ q.n <= wq.requested
    BY SMT, <1>3, <2>2
  <2>4. CASE v = w
    BY <1>6, <2>1, <2>3, <2>4 DEF q, Finished
  <2>5. CASE v # w
    BY <1>7, <1>8, <1>9, <2>1, <2>5 DEF q
  <2> QED BY <2>4, <2>5
<1>14. Pending'
  <2>1. wq.enqueued - 1 <= wq.requested /\ call'[w].pc \notin Finished
    BY SMT, <1>3, <1>6 DEF Finished
  <2> QED BY <1>4, <1>6, <2>1 DEF Pending
<1>15. Filled' /\ Written'
  <2>1. \A v \in Writers : call'[v].k = call[v].k
    BY <1>6, <1>7
  <2>2. \A v \in Writers : call'[v].pc = "turn" => call[v].pc = "turn" /\ call'[v].last = call[v].last
    BY <1>6, <1>7
  <2> QED BY <1>1, <1>2, <2>1, <2>2, FilledWritten DEF WInv
<1> QED BY <1>10, <1>11, <1>12, <1>13, <1>14, <1>15 DEF WInv

\* The call that returns has no command left in the queue.
LEMMA WriteLast == ASSUME Counting, TypeOK, WInv, NEW w \in Writers, WaitForLast(w) PROVE WInv'
<1> DEFINE cond == wq.processed > call[w].last
<1>1. Wait(w, "wq", cond, "done") /\ cond \in BOOLEAN /\ "done" \in Pcs /\ "wq" \in Queues
  BY SMT DEF WaitForLast, Pcs, Queues
<1>2. UNCHANGED <<wq, queue, intr, buf, card>> /\ call[w].pc = "last"
  BY DEF WaitForLast, At
<1>3. WTypes /\ w \in Callers
  BY WriteTypes DEF Callers
<1>4. cond => call[w].last < wq.processed
  BY <1>3, Typed
<1> HIDE DEF cond
<1>5. Moves(w, IF cond THEN "done" ELSE call[w].pc, call[w].k, call[w].last)
  BY <1>1, <1>3, MovesWhen DEF TypeOK
<1>6. CASE cond
  <2>1. /\ call'[w].pc = "done"
        /\ \A v \in Writers \ {w} : call'[v].pc = call[v].pc
        /\ \A v \in Writers : call'[v].last = call[v].last /\ call'[v].k = call[v].k
    BY <1>5, <1>6 DEF Moves, Same, Callers
  <2>2. ErrLast' = ErrLast /\ w \notin ErrLast /\ \A v \in Writers : Waiting(v)' <=> Waiting(v)
    BY <1>2, <2>1 DEF ErrLast, Waiting
  <2>3. Numbers'
    BY SMTT(20), <1>2, <2>1, <2>2 DEF WInv, Numbers, ErrLast
  <2>4. Progress'
    BY SMT, <1>2, <2>1, <2>2 DEF WInv, Progress, ErrLast, Waiting
  <2>5. InOrder' /\ Counted'
    BY <1>2, <2>1, <2>2, QueueFrame DEF WInv, ErrLast
  <2>6. Owned'
    <3>1. ASSUME NEW i \in DOMAIN queue["write"], queue["write"][i].n <= call[w].last PROVE FALSE
      <4>1. queue["write"][i].n \in Nat /\ wq.processed <= queue["write"][i].n
        BY <1>3, NotProcessed DEF WTypes, WInv
      <4>2. wq.processed \in Nat /\ call[w].last \in Nat
        BY <1>3, Typed
      <4> QED BY SMT, <1>4, <1>6, <3>1, <4>1, <4>2
    <3> QED BY SMT, <1>2, <2>1, <2>2, <3>1 DEF WInv, Owned
  <2>7. Pending'
    <3>1. ~(wq.processed < wq.enqueued /\ wq.enqueued - 1 <= call[w].last)
      BY SMT, <1>3, <1>4, <1>6, Typed
    <3> QED BY <1>2, <2>1, <3>1 DEF WInv, Pending
  <2>8. Filled' /\ Written'
    <3>1. \A v \in Writers : call'[v].pc = "turn" => call[v].pc = "turn" /\ call'[v].last = call[v].last
      BY <2>1
    <3> QED BY <1>2, <1>3, <2>1, <3>1, FilledWritten DEF WInv
  <2> QED BY <2>3, <2>4, <2>5, <2>6, <2>7, <2>8 DEF WInv
<1>7. CASE ~cond
  <2>1. WUntouched
    BY <1>2, <1>5, <1>7 DEF WUntouched, Moves, Same, Callers
  <2> QED BY <1>2, <2>1, WriteFrame
<1> QED BY <1>6, <1>7

\* The writer whose turn it is gives its command; those behind it have larger numbers.
LEMMA WriteEnqueue == ASSUME Counting, TypeOK, WInv, NEW w \in Writers, Enqueue(w) PROVE WInv'
<1>1. call[w].pc = "turn" /\ UNCHANGED <<intr, buf, card>> /\ w \in Callers
  BY DEF Enqueue, At, Callers
<1>2. WTypes
  BY WriteTypes
<1>3. CASE wq.enqueued # call[w].last
  <2>1. call' = [call EXCEPT ![w].asleep = "wq_enque"] /\ UNCHANGED <<queue, wq>> /\ "wq_enque" \in Queues
    BY <1>3 DEF Enqueue, Queues
  <2>2. Moves(w, call[w].pc, call[w].k, call[w].last)
    BY <1>1, <2>1, MovesAsleep DEF TypeOK
  <2>3. WUntouched
    BY <1>1, <2>1, <2>2 DEF WUntouched, Moves, Same, Callers
  <2> QED BY <1>1, <2>3, WriteFrame
<1>4. CASE wq.enqueued = call[w].last
  <2> DEFINE c == [slot |-> Slot(w), at |-> <<w, call[w].k>>, n |-> call[w].last]
             Q == queue["write"]
             E == wq.enqueued
             P == wq.processed
             I == intr["write"]
             p == IF call[w].k + 1 < Chunks[w] THEN "request" ELSE "last"
  <2>1. queue'["write"] = Append(Q, c)
    <3>1. queue' = [queue EXCEPT !["write"] = Append(@, c)]
      BY <1>4 DEF Enqueue, blue_dma_copy_to
    <3> HIDE DEF c
    <3> QED BY <3>1 DEF TypeOK
  <2>2. wq'.enqueued = E + 1 /\ wq'.processed = P /\ wq'.requested = wq.requested
    BY <1>4 DEF Enqueue, blue_dma_copy_to, TypeOK, WqType
  <2>3. Moves(w, p, call[w].k + 1, call[w].last)
    BY <1>1, <1>4, MovesNext DEF Enqueue, TypeOK
  <2>4. call'[w].pc = p /\ call'[w].k = call[w].k + 1 /\ call'[w].last = E /\ p \in {"request", "last"}
    BY <1>4, <2>3 DEF Moves
  <2>5. \A v \in Writers \ {w} : call'[v].pc = call[v].pc /\ call'[v].last = call[v].last /\ call'[v].k = call[v].k
    BY <2>3 DEF Moves, Same, Callers
  <2>6. c \in Cmd /\ c.slot = Slot(w) /\ c.at = <<w, call[w].k>> /\ c.n = E
    <3>1. Slot(w) \in Buffers
      BY <1>2, Typed, SlotFacts DEF Slot
    <3>2. <<w, call[w].k>> \in AllChunks
      BY <1>1, <1>2, Typed, ChunkFacts DEF WInv, Progress, Waiting
    <3>3. call[w].last \in Nat
      BY <1>2, Typed
    <3> QED BY <1>4, <3>1, <3>2, <3>3 DEF Cmd
  <2> HIDE DEF c
  <2>7. Q \in Seq(Cmd)
    BY <1>2 DEF WTypes
  <2>8. E \in Nat /\ P \in Nat /\ wq.requested \in Nat /\ I \in Nat /\ call[w].k \in Nat /\ Chunks[w] \in Nat
    BY <1>2, Typed DEF WTypes
  <2>9. ErrLast' = ErrLast /\ w \notin ErrLast /\ ~(Waiting(w)') /\ Waiting(w)
    BY <1>1, <2>4, <2>5 DEF ErrLast, Waiting
  <2>10. \A v \in Writers \ {w} : Waiting(v)' <=> Waiting(v)
    BY <2>5 DEF Waiting
  <2>11. \A v \in ErrLast : call'[v].last = call[v].last /\ call[v].last < E
    BY <2>5, <2>9 DEF ErrLast, WInv, Numbers
  <2>12. \A n : Below(n)' = Below(n)
    BY <2>9, <2>11, BelowSame
  <2> HIDE DEF p
  <2>13. Numbers'
    <3>1. ASSUME NEW v \in Writers, Waiting(v)'
          PROVE  v # w /\ Waiting(v) /\ E + 1 <= call'[v].last /\ call'[v].last < wq'.requested
      <4>1. v # w /\ Waiting(v)
        BY <2>9, <2>10, <3>1
      <4>2. call[v].last \in Nat /\ E <= call[v].last /\ call[v].last < wq.requested /\ call[v].last # E
        BY <1>2, <1>4, <2>9, <4>1, Typed DEF WInv, Numbers
      <4> QED BY SMT, <2>2, <2>5, <2>8, <4>1, <4>2
    <3>2. \A u, v \in Writers : Waiting(u)' /\ Waiting(v)' /\ u # v => call'[u].last # call'[v].last
      BY SMT, <2>5, <3>1 DEF WInv, Numbers
    <3>3. \A v \in Writers : call'[v].pc \in {"copy", "turn"} => call'[v].last < wq'.processed + Ring
      BY <2>2, <2>4, <2>5 DEF WInv, Numbers
    <3>4. \A v \in ErrLast : call'[v].last < E + 1
      <4>1. \A v \in ErrLast : call[v].last \in Nat
        BY <1>2, Typed DEF ErrLast
      <4> QED BY SMT, <2>8, <2>11, <4>1
    <3>5. E + 1 <= wq.requested
      BY SMTT(20), <1>4, <2>8, <2>9 DEF WInv, Numbers
    <3> QED BY <2>2, <2>9, <3>1, <3>2, <3>3, <3>4, <3>5 DEF Numbers
  <2>14. Progress'
    <3>1. call[w].k < Chunks[w]
      BY <2>9 DEF WInv, Progress
    <3>2. /\ p = "request" => call[w].k + 1 < Chunks[w]
          /\ p = "last" => call[w].k + 1 = Chunks[w]
      BY SMTT(20), <2>8, <3>1 DEF p
    <3> QED BY SMTT(20), <2>4, <2>5, <2>9, <2>10, <3>2 DEF WInv, Progress
  <2>15. InOrder'
    <3>1. ASSUME NEW i \in DOMAIN Q
          PROVE  LET q == Q[i] IN
                   /\ q.slot = <<"write", q.n % Ring>>
                   /\ q.n < E + 1 /\ q.n < P + Ring
                   /\ P + I + (i - 1) + Cardinality(Below(q.n)) <= q.n
                   /\ \A j \in DOMAIN Append(Q, c) : i < j => q.n < Append(Q, c)[j].n
                   /\ \A v \in ErrLast : call'[v].last # q.n
      <4> DEFINE n == Q[i].n
      <4>1. n \in Nat /\ n < E
        BY <1>2 DEF WTypes, WInv, InOrder
      <4>2. \A j \in DOMAIN Append(Q, c) : i < j => n < Append(Q, c)[j].n
        <5>1. \A j \in DOMAIN Q : i < j => n < Q[j].n
          BY DEF WInv, InOrder
        <5>2. n < Append(Q, c)[Len(Q) + 1].n
          BY SMTT(20), <2>6, <2>7, <4>1, AppendFacts
        <5> QED BY SMTT(20), <2>6, <2>7, <5>1, <5>2, AppendFacts
      <4>3. n < E + 1
        BY SMT, <2>8, <4>1
      <4> QED BY <2>11, <4>2, <4>3 DEF WInv, InOrder
    <3>2. LET q == c IN
            /\ q.slot = <<"write", q.n % Ring>>
            /\ q.n < E + 1 /\ q.n < P + Ring
            /\ P + I + (Len(Q) + 1 - 1) + Cardinality(Below(q.n)) <= q.n
            /\ \A j \in DOMAIN Append(Q, c) : Len(Q) + 1 < j => q.n < Append(Q, c)[j].n
            /\ \A v \in ErrLast : call'[v].last # q.n
      <4>1. Below(E) = ErrLast
        BY <2>11 DEF Below
      <4>2. P + I + (Len(Q) + 1 - 1) + Cardinality(ErrLast) <= E
        <5>1. Cardinality(ErrLast) \in Nat /\ Len(Q) \in Nat
          BY SMTT(20), <1>2, <2>7 DEF WTypes
        <5>2. P + I + Len(Q) + Cardinality(ErrLast) <= E
          BY DEF WInv, Counted
        <5> QED BY SMTT(20), <2>8, <5>1, <5>2
      <4>3. E < P + Ring
        BY <1>1, <1>4 DEF WInv, Numbers
      <4>4. \A j \in DOMAIN Append(Q, c) : ~(Len(Q) + 1 < j)
        BY SMTT(20), <2>6, <2>7, AppendFacts
      <4>5. \A v \in ErrLast : call'[v].last # E
        <5>1. \A v \in ErrLast : call[v].last \in Nat
          BY <1>2, Typed DEF ErrLast
        <5> QED BY SMTT(20), <2>8, <2>11, <5>1
      <4>6. E < E + 1
        BY SMT, <2>8
      <4> QED BY <1>4, <2>6, <4>1, <4>2, <4>3, <4>4, <4>5, <4>6 DEF Slot
    <3>3. \A i \in DOMAIN Append(Q, c) : \/ i \in DOMAIN Q /\ Append(Q, c)[i] = Q[i]
                                         \/ i = Len(Q) + 1 /\ Append(Q, c)[i] = c
      BY SMT, <2>6, <2>7, AppendFacts
    <3> QED BY SMTT(20), <1>1, <2>1, <2>2, <2>9, <2>12, <3>1, <3>2, <3>3 DEF InOrder
  <2>16. Counted'
    <3>1. Cardinality(ErrLast) \in Nat
      BY <1>2 DEF WTypes
    <3>2. P + I + Len(Q) + Cardinality(ErrLast) <= E
      BY DEF WInv, Counted
    <3>3. Len(Append(Q, c)) = Len(Q) + 1 /\ Len(Q) \in Nat
      BY SMT, <2>6, <2>7, AppendFacts
    <3>4. P + I + (Len(Q) + 1) + Cardinality(ErrLast) <= E + 1
      <4>1. Len(Q) \in Nat
        BY <3>3
      <4> HIDE DEF Q, E, P, I
      <4> QED BY SMT, <2>8, <3>1, <3>2, <4>1
    <3> QED BY <1>1, <2>1, <2>2, <2>9, <3>3, <3>4 DEF Counted
  <2>17. Owned'
    <3>1. ASSUME NEW q, NEW v \in Writers, q.at[1] = v, q.at[2] < call[v].k, q.at[2] \in Nat,
                 q.n <= call[v].last, call[v].pc \notin Finished,
                 Waiting(v) \/ v \in ErrLast => q.n < call[v].last
          PROVE  /\ q.at[2] < call'[v].k /\ q.n <= call'[v].last /\ call'[v].pc \notin Finished
                 /\ Waiting(v)' \/ v \in ErrLast' => q.n < call'[v].last
      <4>1. CASE v = w
        BY SMTT(20), <1>4, <2>4, <2>8, <2>9, <3>1, <4>1 DEF Finished
      <4>2. CASE v # w
        BY <2>5, <2>9, <2>10, <3>1, <4>2
      <4> QED BY <4>1, <4>2
    <3>2. ASSUME NEW i \in DOMAIN Q
          PROVE  LET q == Q[i] IN
                   \E v \in Writers : /\ q.at[1] = v /\ q.at[2] < call'[v].k /\ q.n <= call'[v].last
                                      /\ call'[v].pc \notin Finished
                                      /\ Waiting(v)' \/ v \in ErrLast' => q.n < call'[v].last
      <4>0. Q[i] \in Cmd
        BY SMT, <2>7
      <4>1. Q[i].at \in AllChunks
        BY <4>0 DEF Cmd
      <4>2. Q[i].at[2] \in Nat
        BY SMTT(20), <4>1, DmaAssumption DEF AllChunks, Of
      <4> QED BY <3>1, <4>2 DEF WInv, Owned
    <3>3. LET q == c IN
            \E v \in Writers : /\ q.at[1] = v /\ q.at[2] < call'[v].k /\ q.n <= call'[v].last
                               /\ call'[v].pc \notin Finished
                               /\ Waiting(v)' \/ v \in ErrLast' => q.n < call'[v].last
      <4>1. call[w].k < call[w].k + 1 /\ E <= E /\ p \notin Finished
        BY SMTT(20), <2>4, <2>8 DEF Finished
      <4> QED BY SMTT(20), <2>4, <2>6, <2>9, <4>1
    <3>4. \A i \in DOMAIN Append(Q, c) : (i \in DOMAIN Q /\ Append(Q, c)[i] = Q[i]) \/ Append(Q, c)[i] = c
      BY SMTT(20), <2>6, <2>7, AppendFacts
    <3> QED BY SMTT(20), <2>1, <3>2, <3>3, <3>4 DEF Owned
  <2>18. Pending'
    <3>1. E + 1 - 1 <= E /\ p \notin Finished
      BY SMT, <2>4, <2>8 DEF Finished
    <3> QED BY SMTT(20), <2>2, <2>4, <2>8, <3>1 DEF Pending
  <2>19. Filled'
    <3>1. \A i \in DOMAIN Append(Q, c) : (i \in DOMAIN Q /\ Append(Q, c)[i] = Q[i]) \/ Append(Q, c)[i] = c
      BY SMT, <2>6, <2>7, AppendFacts
    <3>2. buf[c.slot] = c.at
      BY <1>1, <2>6 DEF WInv, Filled
    <3>3. \A i \in DOMAIN Append(Q, c) : buf[Append(Q, c)[i].slot] = Append(Q, c)[i].at
      BY <3>1, <3>2 DEF WInv, Filled
    <3>4. \A v \in Writers : call'[v].pc = "turn" => buf[Slot(v)'] = <<v, call'[v].k>>
      BY <2>4, <2>5 DEF WInv, Filled, Slot
    <3> QED BY <1>1, <2>1, <3>3, <3>4 DEF Filled
  <2>20. Written'
    <3> SUFFICES ASSUME NEW v \in Writers, NEW k \in 0 .. call'[v].k - 1 PROVE k < Chunks[v] /\ Through(v, k)'
      BY DEF Written
    <3>1. ASSUME Through(v, k) PROVE Through(v, k)'
      <4>1. \A i \in DOMAIN Q : i \in DOMAIN Append(Q, c) /\ Append(Q, c)[i] = Q[i]
        BY SMT, <2>6, <2>7, AppendFacts
      <4> QED BY <1>1, <2>1, <3>1, <4>1 DEF Through
    <3>2. CASE v = w /\ k = call[w].k
      <4>1. Len(Q) + 1 \in DOMAIN Append(Q, c) /\ Append(Q, c)[Len(Q) + 1] = c
        BY SMT, <2>6, <2>7, AppendFacts
      <4>2. Through(v, k)'
        BY <2>1, <2>6, <3>2, <4>1 DEF Through
      <4>3. k < Chunks[v]
        BY <2>9, <3>2 DEF WInv, Progress
      <4> QED BY <4>2, <4>3
    <3>3. CASE ~(v = w /\ k = call[w].k)
      <4>1. call[v].k \in Nat
        BY <1>2, Typed
      <4>2. k \in 0 .. call[v].k - 1
        BY SMT, <2>4, <2>5, <3>3, <4>1
      <4> QED BY <3>1, <4>2 DEF WInv, Written
    <3> QED BY <3>2, <3>3
  <2> QED BY <2>13, <2>14, <2>15, <2>16, <2>17, <2>18, <2>19, <2>20 DEF WInv
<1> QED BY <1>3, <1>4

\* A failed call passes its number in wq_enqueued; from then on it counts as pending.
LEMMA WritePassEnqueued == ASSUME Counting, TypeOK, WInv, NEW w \in Writers, PassEnqueued(w) PROVE WInv'
<1> DEFINE cond == wq.enqueued = call[w].last
           E == wq.enqueued
           P == wq.processed
<1>1. Wait(w, "wq", cond, "err_last") /\ cond \in BOOLEAN /\ "err_last" \in Pcs /\ "wq" \in Queues
  BY DEF PassEnqueued, Pcs, Queues
<1>2. UNCHANGED <<queue, intr, buf, card>> /\ call[w].pc = "err_turn" /\ (~cond => wq' = wq)
  BY DEF PassEnqueued, At
<1>3. WTypes /\ w \in Callers
  BY WriteTypes DEF Callers
<1>4. cond => wq'.enqueued = E + 1 /\ wq'.processed = P /\ wq'.requested = wq.requested
  BY DEF PassEnqueued, TypeOK, WqType
<1>5. cond => call[w].last = E
  OBVIOUS
<1> HIDE DEF cond
<1>6. Moves(w, IF cond THEN "err_last" ELSE call[w].pc, call[w].k, call[w].last)
  BY <1>1, <1>3, MovesWhen DEF TypeOK
<1>7. CASE ~cond
  <2>1. WUntouched
    BY <1>2, <1>6, <1>7 DEF WUntouched, Moves, Same, Callers
  <2> QED BY <1>2, <2>1, WriteFrame
<1>8. CASE cond
  <2>1. /\ call'[w].pc = "err_last" /\ call[w].last = E
        /\ \A v \in Writers \ {w} : call'[v].pc = call[v].pc
        /\ \A v \in Writers : call'[v].last = call[v].last /\ call'[v].k = call[v].k
    BY <1>5, <1>6, <1>8 DEF Moves, Same, Callers
  <2>2. wq'.enqueued = E + 1 /\ wq'.processed = P /\ wq'.requested = wq.requested
    BY <1>4, <1>8
  <2>3. /\ E \in Nat /\ P \in Nat /\ wq.requested \in Nat /\ intr["write"] \in Nat
        /\ \A v \in Writers : call[v].last \in Nat
    BY <1>3, Typed
  <2>4. ErrLast' = ErrLast \cup {w} /\ w \notin ErrLast /\ ErrLast \subseteq Writers
    BY <1>2, <2>1 DEF ErrLast
  <2>5. ~(Waiting(w)') /\ Waiting(w) /\ \A v \in Writers \ {w} : Waiting(v)' <=> Waiting(v)
    BY <1>2, <2>1 DEF Waiting
  <2>6. \A n \in Nat : n <= E => Below(n)' = Below(n)
    BY SMT, <2>1, <2>3, <2>4 DEF Below
  <2>7. Numbers'
    <3>1. ASSUME NEW v \in Writers, Waiting(v)'
          PROVE  v # w /\ Waiting(v) /\ E + 1 <= call'[v].last /\ call'[v].last < wq'.requested
      <4>1. v # w /\ Waiting(v)
        BY <2>5, <3>1
      <4>2. E <= call[v].last /\ call[v].last < wq.requested /\ call[v].last # E
        BY SMTT(20), <2>1, <2>5, <4>1 DEF WInv, Numbers
      <4> QED BY SMTT(20), <2>1, <2>2, <2>3, <4>1, <4>2
    <3>2. \A u, v \in Writers : Waiting(u)' /\ Waiting(v)' /\ u # v => call'[u].last # call'[v].last
      BY SMT, <2>1, <3>1 DEF WInv, Numbers
    <3>3. \A v \in Writers : call'[v].pc \in {"copy", "turn"} => call'[v].last < wq'.processed + Ring
      BY <2>1, <2>2 DEF WInv, Numbers
    <3>4. \A v \in ErrLast' : call'[v].last < E + 1
      <4>1. \A v \in ErrLast : call[v].last < E
        BY DEF WInv, Numbers
      <4> QED BY SMTT(20), <2>1, <2>3, <2>4, <4>1
    <3>5. E + 1 <= wq.requested
      BY SMT, <2>1, <2>3, <2>5 DEF WInv, Numbers
    <3> QED BY <2>2, <3>1, <3>2, <3>3, <3>4, <3>5 DEF Numbers
  <2>8. Progress'
    BY <2>1, <2>4, <2>5 DEF WInv, Progress
  <2>9. InOrder'
    <3>1. ASSUME NEW i \in DOMAIN queue["write"]
          PROVE  LET q == queue["write"][i] IN
                   /\ q.slot = <<"write", q.n % Ring>>
                   /\ q.n < E + 1 /\ q.n < P + Ring
                   /\ P + intr["write"] + (i - 1) + Cardinality(Below(q.n)') <= q.n
                   /\ \A j \in DOMAIN queue["write"] : i < j => q.n < queue["write"][j].n
                   /\ \A v \in ErrLast' : call'[v].last # q.n
      <4> DEFINE n == queue["write"][i].n
      <4>1. n \in Nat /\ n < E
        BY <1>3 DEF WTypes, WInv, InOrder
      <4>2. n < E + 1 /\ n <= E /\ n # E
        <5> HIDE DEF n
        <5> QED BY SMT, <2>3, <4>1
      <4>3. Below(n)' = Below(n)
        BY <1>2, <2>6, <4>1, <4>2
      <4>4. \A v \in ErrLast' : call'[v].last # n
        BY <2>1, <2>4, <4>2 DEF WInv, InOrder
      <4> QED BY <4>2, <4>3, <4>4 DEF WInv, InOrder
    <3> QED BY <1>2, <2>2, <3>1 DEF InOrder
  <2>10. Counted'
    <3>1. Cardinality(ErrLast \cup {w}) = Cardinality(ErrLast) + 1 /\ Cardinality(ErrLast) \in Nat
      BY <2>4, FailedWriters DEF Counting
    <3>2. P + intr["write"] + Len(queue["write"]) + Cardinality(ErrLast) <= E
      BY DEF WInv, Counted
    <3>3. Len(queue["write"]) \in Nat
      BY SMT, <1>3 DEF WTypes
    <3>4. P + intr["write"] + Len(queue["write"]) + (Cardinality(ErrLast) + 1) <= E + 1
      BY SMTT(20), <2>3, <3>1, <3>2, <3>3
    <3> QED BY <1>2, <2>2, <2>4, <3>1, <3>4 DEF Counted
  <2>11. Owned'
    <3>1. \A v \in Writers : call[v].pc \notin Finished => call'[v].pc \notin Finished
      BY <2>1 DEF Finished
    <3>2. \A v \in Writers : (Waiting(v)' \/ v \in ErrLast') => Waiting(v) \/ v \in ErrLast
      BY <2>4, <2>5
    <3> QED BY <1>2, <2>1, <3>1, <3>2 DEF WInv, Owned
  <2>12. Pending'
    <3>1. E + 1 - 1 <= E /\ "err_last" \notin Finished
      BY SMT, <2>3 DEF Finished
    <3> QED BY SMTT(20), <2>1, <2>2, <2>3, <3>1 DEF Pending
  <2>13. Filled' /\ Written'
    <3>1. \A v \in Writers : call'[v].pc = "turn" => call[v].pc = "turn" /\ call'[v].last = call[v].last
      BY <2>1
    <3> QED BY <1>2, <1>3, <2>1, <3>1, FilledWritten DEF WInv
  <2> QED BY <2>7, <2>8, <2>9, <2>10, <2>11, <2>12, <2>13 DEF WInv
<1> QED BY <1>7, <1>8

\* A failed call passes its number in wq_processed; every command in the queue has a larger one.
LEMMA WritePassProcessed == ASSUME Counting, TypeOK, WInv, NEW w \in Writers, PassProcessed(w) PROVE WInv'
<1> DEFINE cond == wq.processed = call[w].last
           E == wq.enqueued
           P == wq.processed
<1>1. Wait(w, "wq", cond, "failed") /\ cond \in BOOLEAN /\ "failed" \in Pcs /\ "wq" \in Queues
  BY DEF PassProcessed, Pcs, Queues
<1>2. UNCHANGED <<queue, intr, buf, card>> /\ call[w].pc = "err_last" /\ (~cond => wq' = wq)
  BY DEF PassProcessed, At
<1>3. WTypes /\ w \in Callers
  BY WriteTypes DEF Callers
<1>4. cond => wq'.enqueued = E /\ wq'.processed = P + 1 /\ wq'.requested = wq.requested
  BY DEF PassProcessed, TypeOK, WqType
<1>5. cond => call[w].last = P
  OBVIOUS
<1> HIDE DEF cond
<1>6. Moves(w, IF cond THEN "failed" ELSE call[w].pc, call[w].k, call[w].last)
  BY <1>1, <1>3, MovesWhen DEF TypeOK
<1>7. CASE ~cond
  <2>1. WUntouched
    BY <1>2, <1>6, <1>7 DEF WUntouched, Moves, Same, Callers
  <2> QED BY <1>2, <2>1, WriteFrame
<1>8. CASE cond
  <2>1. /\ call'[w].pc = "failed" /\ call[w].last = P
        /\ \A v \in Writers \ {w} : call'[v].pc = call[v].pc
        /\ \A v \in Writers : call'[v].last = call[v].last /\ call'[v].k = call[v].k
    BY <1>5, <1>6, <1>8 DEF Moves, Same, Callers
  <2>2. wq'.enqueued = E /\ wq'.processed = P + 1 /\ wq'.requested = wq.requested
    BY <1>4, <1>8
  <2>3. /\ E \in Nat /\ P \in Nat /\ wq.requested \in Nat /\ intr["write"] \in Nat
        /\ \A v \in Writers : call[v].last \in Nat
    BY <1>3, Typed
  <2>4. ErrLast' = ErrLast \ {w} /\ w \in ErrLast /\ ErrLast \subseteq Writers
    BY <1>2, <2>1 DEF ErrLast
  <2>5. ~(Waiting(w)') /\ \A v \in Writers : Waiting(v)' <=> Waiting(v)
    BY <1>2, <2>1 DEF Waiting
  <2>6. \A n \in Nat : Below(n)' = Below(n) \ {w}
    BY <2>1, <2>4 DEF Below
  <2>7. \A n \in Nat : P < n => w \in Below(n)
    BY <2>1, <2>4 DEF Below
  <2>8. ASSUME NEW i \in DOMAIN queue["write"] PROVE queue["write"][i].n \in Nat /\ P < queue["write"][i].n
    <3>1. queue["write"][i].n \in Nat /\ P <= queue["write"][i].n
      BY <1>3, NotProcessed DEF WTypes, WInv
    <3>2. queue["write"][i].n # P
      BY <2>1, <2>4 DEF WInv, InOrder
    <3> QED BY SMT, <2>3, <3>1, <3>2
  <2>9. Numbers'
    <3>1. \A v \in Writers : call[v].last < P + Ring => call[v].last < P + 1 + Ring
      BY SMT, <2>3, DmaAssumption
    <3> QED BY SMTT(20), <2>1, <2>2, <2>4, <2>5, <3>1 DEF WInv, Numbers
  <2>10. Progress'
    BY <2>1, <2>4, <2>5 DEF WInv, Progress
  <2>11. InOrder'
    <3>1. ASSUME NEW i \in DOMAIN queue["write"]
          PROVE  LET q == queue["write"][i] IN
                   /\ q.slot = <<"write", q.n % Ring>>
                   /\ q.n < E /\ q.n < P + 1 + Ring
                   /\ P + 1 + intr["write"] + (i - 1) + Cardinality(Below(q.n)') <= q.n
                   /\ \A j \in DOMAIN queue["write"] : i < j => q.n < queue["write"][j].n
                   /\ \A v \in ErrLast' : call'[v].last # q.n
      <4>0. PICK n \in Nat : n = queue["write"][i].n
        BY <2>8
      <4>1. P < n /\ n < P + Ring /\ P + intr["write"] + (i - 1) + Cardinality(Below(n)) <= n
        BY <2>8, <4>0 DEF WInv, InOrder
      <4>2. Cardinality(Below(n) \ {w}) = Cardinality(Below(n)) - 1 /\ Cardinality(Below(n)) \in Nat
        BY <2>7, <4>1, FailedWriters DEF Counting
      <4>3. i \in Nat
        <5>1. queue["write"] \in Seq(Cmd)
          BY <1>3 DEF WTypes
        <5> QED BY SMT, <5>1
      <4>4. P + 1 + intr["write"] + (i - 1) + (Cardinality(Below(n)) - 1) <= n
        BY SMTT(20), <2>3, <4>1, <4>2, <4>3
      <4>5. n < P + 1 + Ring
        BY SMT, <2>3, <4>1, DmaAssumption
      <4>6. queue' = queue /\ Below(n)' = Below(n) \ {w}
        BY <1>2, <2>6
      <4>7. P + 1 + intr["write"] + (i - 1) + Cardinality(Below(queue["write"][i].n)') <= n
        BY <4>0, <4>2, <4>4, <4>6
      <4>8. \A v \in ErrLast' : call'[v].last # n
        BY SMTT(20), <2>1, <2>4, <4>0 DEF WInv, InOrder
      <4> QED BY <4>0, <4>5, <4>7, <4>8 DEF WInv, InOrder
    <3> QED BY <1>2, <2>2, <3>1 DEF InOrder
  <2>12. Counted'
    <3>1. Cardinality(ErrLast \ {w}) = Cardinality(ErrLast) - 1 /\ Cardinality(ErrLast) \in Nat
      BY <2>4, FailedWriters DEF Counting
    <3>2. P + intr["write"] + Len(queue["write"]) + Cardinality(ErrLast) <= E
      BY DEF WInv, Counted
    <3>3. Len(queue["write"]) \in Nat
      BY SMT, <1>3 DEF WTypes
    <3>4. P + 1 + intr["write"] + Len(queue["write"]) + (Cardinality(ErrLast) - 1) <= E
      <4> DEFINE I == intr["write"]
                 L == Len(queue["write"])
                 C == Cardinality(ErrLast)
      <4>1. I \in Nat /\ L \in Nat /\ C \in Nat /\ E \in Nat /\ P \in Nat /\ P + I + L + C <= E
        BY <2>3, <3>1, <3>2, <3>3
      <4> HIDE DEF I, L, C, E, P
      <4>2. P + 1 + I + L + (C - 1) <= E
        BY SMTT(20), <4>1
      <4> QED BY <4>2 DEF I, L, C
    <3> QED BY <1>2, <2>2, <2>4, <3>1, <3>4 DEF Counted
  <2>13. Owned'
    <3>1. ASSUME NEW i \in DOMAIN queue["write"] PROVE ~(queue["write"][i].n <= call[w].last)
      BY SMTT(20), <2>1, <2>3, <2>8
    <3> QED BY SMTT(20), <1>2, <2>1, <2>4, <2>5, <3>1 DEF WInv, Owned
  <2>14. Pending'
    <3>1. ~(P + 1 < E /\ E - 1 <= call[w].last)
      BY SMT, <2>1, <2>3
    <3>2. P + 1 < E => P < E
      BY SMT, <2>3
    <3> QED BY <2>1, <2>2, <3>1, <3>2 DEF WInv, Pending
  <2>15. Filled' /\ Written'
    <3>1. \A v \in Writers : call'[v].pc = "turn" => call[v].pc = "turn" /\ call'[v].last = call[v].last
      BY <2>1
    <3> QED BY <1>2, <1>3, <2>1, <3>1, FilledWritten DEF WInv
  <2> QED BY <2>9, <2>10, <2>11, <2>12, <2>13, <2>14, <2>15 DEF WInv
<1> QED BY <1>7, <1>8

\* The core writes the oldest command to the card, from a buffer that holds its chunk.
LEMMA WriteTransfer == ASSUME Counting, TypeOK, WInv, Transfer("write") PROVE WInv'
<1> DEFINE Q == queue["write"]
           T == Tail(Q)
           P == wq.processed
           I == intr["write"]
           E == wq.enqueued
<1>1. /\ Q # <<>> /\ card' = [card EXCEPT ![Head(Q).at] = buf[Head(Q).slot]] /\ UNCHANGED <<buf, wq, call>>
      /\ queue' = [queue EXCEPT !["write"] = T] /\ intr' = [intr EXCEPT !["write"] = I + 1]
  BY DEF Transfer
<1>2. WTypes /\ Q \in Seq(Cmd)
  BY WriteTypes DEF WTypes
<1>3. queue'["write"] = T /\ intr'["write"] = I + 1
  BY <1>1 DEF TypeOK
<1>4. ErrLast' = ErrLast /\ \A n : Below(n)' = Below(n)
  BY <1>1 DEF ErrLast, Below
<1>5. \A w \in Writers : Waiting(w)' <=> Waiting(w)
  BY <1>1 DEF Waiting
<1>6. E \in Nat /\ P \in Nat /\ I \in Nat
  BY <1>2, Typed
<1>7. /\ Len(T) = Len(Q) - 1 /\ Len(Q) \in Nat /\ 1 \in DOMAIN Q /\ Head(Q) = Q[1]
      /\ \A i \in DOMAIN T : i \in Nat /\ i >= 1 /\ i + 1 \in DOMAIN Q /\ T[i] = Q[i + 1]
      /\ \A i \in DOMAIN Q : i = 1 \/ (i - 1 \in DOMAIN T /\ T[i - 1] = Q[i])
  BY <1>1, <1>2, TailFacts
<1> HIDE DEF T
<1>8. Numbers' /\ Progress'
  BY <1>1, <1>4, <1>5 DEF WInv, Numbers, Progress
<1>9. InOrder'
  <2>1. ASSUME NEW i \in DOMAIN T
        PROVE  LET q == T[i] IN
                 /\ q.slot = <<"write", q.n % Ring>>
                 /\ q.n < E /\ q.n < P + Ring
                 /\ P + (I + 1) + (i - 1) + Cardinality(Below(q.n)) <= q.n
                 /\ \A j \in DOMAIN T : i < j => q.n < T[j].n
                 /\ \A w \in ErrLast : call[w].last # q.n
    <3> DEFINE n == T[i].n
               C == Cardinality(Below(n))
    <3>1. i \in Nat /\ i + 1 \in DOMAIN Q /\ T[i] = Q[i + 1]
      BY <1>7
    <3>2. n \in Nat
      BY <1>2, <3>1 DEF WTypes
    <3>3. C \in Nat
      <4> HIDE DEF n
      <4> QED BY <1>2, <3>2 DEF WTypes
    <3>4. P + I + (i + 1 - 1) + C <= n
      BY SMT, <3>1 DEF WInv, InOrder
    <3> HIDE DEF C, n, P, I, E
    <3>5. P + (I + 1) + (i - 1) + C <= n
      BY SMTT(20), <1>6, <3>1, <3>2, <3>3, <3>4
    <3> USE DEF C, n, P, I, E
    <3>6. ASSUME NEW j \in DOMAIN T, i < j PROVE n < T[j].n
      <4>1. j \in Nat /\ j + 1 \in DOMAIN Q /\ T[j] = Q[j + 1] /\ i + 1 < j + 1
        BY SMT, <1>7, <3>1, <3>6
      <4> QED BY <3>1, <4>1 DEF WInv, InOrder
    <3> QED BY <3>1, <3>5, <3>6 DEF WInv, InOrder
  <2> QED BY <1>1, <1>3, <1>4, <2>1 DEF InOrder
<1>10. Counted'
  <2>1. Cardinality(ErrLast) \in Nat /\ P + I + Len(Q) + Cardinality(ErrLast) <= E
    BY <1>2 DEF WTypes, WInv, Counted
  <2>2. P + (I + 1) + (Len(Q) - 1) + Cardinality(ErrLast) <= E
    <3> DEFINE L == Len(Q)
               C == Cardinality(ErrLast)
    <3>1. L \in Nat /\ C \in Nat /\ P + I + L + C <= E
      BY <1>7, <2>1
    <3> HIDE DEF L, C, E, P, I
    <3>2. P + (I + 1) + (L - 1) + C <= E
      BY SMT, <1>6, <3>1
    <3> QED BY <3>2 DEF L, C
  <2> QED BY <1>1, <1>3, <1>4, <1>7, <2>2 DEF Counted
<1>11. Owned' /\ Pending'
  <2>1. Owned'
    BY SMTT(20), <1>1, <1>3, <1>4, <1>5, <1>7 DEF WInv, Owned
  <2>2. Pending'
    BY <1>1 DEF WInv, Pending
  <2> QED BY <2>1, <2>2
<1>12. Filled'
  BY SMT, <1>1, <1>3, <1>7 DEF WInv, Filled, Slot
<1>13. Written'
  <2>1. Head(Q).at \in AllChunks /\ buf[Head(Q).slot] = Head(Q).at
    <3>1. Q[1] \in Cmd
      BY SMT, <1>2, <1>7
    <3> QED BY <1>7, <3>1 DEF Cmd, WInv, Filled
  <2>2. card'[Head(Q).at] = Head(Q).at /\ \A x \in AllChunks \ {Head(Q).at} : card'[x] = card[x]
    BY <1>1, <2>1 DEF TypeOK
  <2>3. ASSUME NEW w \in Writers, NEW k \in 0 .. Chunks[w] - 1 PROVE <<w, k>> \in AllChunks
    <3>1. Chunks[w] \in Nat /\ w \in Callers
      BY <1>2 DEF WTypes, Callers
    <3>2. k \in Nat /\ k < Chunks[w]
      BY SMT, <3>1
    <3> QED BY <3>1, <3>2, ChunkFacts
  <2>4. ASSUME NEW w \in Writers, NEW k \in 0 .. Chunks[w] - 1, Through(w, k) PROVE Through(w, k)'
    <3>1. CASE Head(Q).at = <<w, k>>
      BY <2>2, <3>1 DEF Through
    <3>2. CASE Head(Q).at # <<w, k>>
      <4>1. CASE card[<<w, k>>] = <<w, k>>
        BY <2>2, <2>3, <3>2, <4>1 DEF Through
      <4>2. CASE \E i \in DOMAIN Q : Q[i].at = <<w, k>>
        <5>1. PICK i \in DOMAIN Q : Q[i].at = <<w, k>>
          BY <4>2
        <5>2. i - 1 \in DOMAIN T /\ T[i - 1] = Q[i]
          BY <1>7, <3>2, <5>1
        <5> QED BY <1>3, <5>1, <5>2 DEF Through
      <4> QED BY <2>4, <4>1, <4>2 DEF Through
    <3> QED BY <3>1, <3>2
  <2> QED BY <1>1, <1>2, <2>4, WrittenStep DEF WInv
<1> QED BY <1>8, <1>9, <1>10, <1>11, <1>12, <1>13 DEF WInv

\* An interrupt becomes a processed command.
LEMMA WriteInterrupt == ASSUME Counting, TypeOK, WInv, blue_dma_intr_handler("write") PROVE WInv'
<1> DEFINE P == wq.processed
           I == intr["write"]
           E == wq.enqueued
<1>1. /\ I > 0 /\ intr' = [intr EXCEPT !["write"] = I - 1] /\ wq' = [wq EXCEPT !.processed = @ + 1]
      /\ call' = wake_up(call, "wq") /\ UNCHANGED <<buf, queue, card>>
  BY DEF blue_dma_intr_handler
<1>2. WTypes
  BY WriteTypes
<1>3. intr'["write"] = I - 1
  BY <1>1 DEF TypeOK
<1>4. wq'.processed = P + 1 /\ wq'.enqueued = E /\ wq'.requested = wq.requested
  BY <1>1 DEF TypeOK, WqType
<1>5. \A c \in Callers : Same(c)
  BY <1>1, MovesNone DEF TypeOK
<1>6. \A w \in Writers : call'[w].pc = call[w].pc /\ call'[w].last = call[w].last /\ call'[w].k = call[w].k
  BY <1>5 DEF Same, Callers
<1>7. ErrLast' = ErrLast
  BY <1>6 DEF ErrLast
<1>8. \A n : Below(n)' = Below(n)
  BY <1>6, <1>7, BelowSame DEF ErrLast
<1>9. \A w \in Writers : Waiting(w)' <=> Waiting(w)
  BY <1>6 DEF Waiting
<1>10. E \in Nat /\ P \in Nat /\ I \in Nat /\ P + 1 + (I - 1) = P + I
  BY SMTT(20), <1>2, Typed
<1>11. Numbers'
  <2>1. \A w \in Writers : call[w].last < P + Ring => call[w].last < P + 1 + Ring
    BY SMT, <1>2, Typed, DmaAssumption
  <2> QED BY SMTT(20), <1>4, <1>6, <1>7, <1>9, <2>1 DEF WInv, Numbers, ErrLast
<1>12. Progress'
  BY <1>6, <1>7, <1>9 DEF WInv, Progress
<1>13. InOrder'
  <2>1. \A i \in DOMAIN queue["write"] : queue["write"][i].n < P + 1 + Ring
    <3>1. \A i \in DOMAIN queue["write"] : queue["write"][i].n \in Nat /\ queue["write"][i].n < P + Ring
      BY <1>2 DEF WTypes, WInv, InOrder
    <3> QED BY SMT, <1>10, <3>1, DmaAssumption
  <2>2. \A w \in ErrLast : call'[w].last = call[w].last
    BY <1>6 DEF ErrLast
  <2> QED BY SMTT(20), <1>1, <1>3, <1>4, <1>7, <1>8, <1>10, <2>1, <2>2 DEF WInv, InOrder
<1>14. Counted'
  BY <1>1, <1>3, <1>4, <1>7, <1>10 DEF WInv, Counted
<1>15. Owned'
  BY SMT, <1>1, <1>6, <1>7, <1>9 DEF WInv, Owned
<1>16. Pending'
  <2>1. P + 1 < E => P < E
    BY SMT, <1>10
  <2> QED BY <1>4, <1>6, <2>1 DEF WInv, Pending
<1>17. Filled' /\ Written'
  BY <1>1, <1>2, <1>6, FilledWritten DEF WInv
<1> QED BY <1>11, <1>12, <1>13, <1>14, <1>15, <1>16, <1>17 DEF WInv

\* When all calls are over nothing of theirs is left in the core.
LEMMA Drained ==
  ASSUME Counting, TypeOK, WInv, \A w \in Writers : call[w].pc \in Finished
  PROVE  queue["write"] = <<>> /\ intr["write"] = 0 /\ ErrLast = {}
<1>1. WTypes
  BY WriteTypes
<1>2. ErrLast = {}
  BY DEF ErrLast, Finished
<1>3. queue["write"] = <<>>
  <2>1. queue["write"] \in Seq(Cmd)
    BY <1>1 DEF WTypes
  <2>2. \A i : i \notin DOMAIN queue["write"]
    BY DEF WInv, Owned
  <2> QED BY <2>1, <2>2, TailFacts
<1>4. ~(wq.processed < wq.enqueued)
  BY DEF WInv, Pending
<1>5. intr["write"] = 0
  <2>1. Cardinality(ErrLast) \in Nat /\ Len(queue["write"]) \in Nat
    BY SMTT(20), <1>1 DEF WTypes
  <2>2. wq.processed + intr["write"] + Len(queue["write"]) + Cardinality(ErrLast) <= wq.enqueued
    BY DEF WInv, Counted
  <2> DEFINE P == wq.processed
             I == intr["write"]
             E == wq.enqueued
             L == Len(queue["write"])
             C == Cardinality(ErrLast)
  <2>3. P \in Nat /\ I \in Nat /\ E \in Nat /\ L \in Nat /\ C \in Nat /\ P + I + L + C <= E /\ ~(P < E)
    BY <1>1, <1>4, <2>1, <2>2, Typed
  <2> HIDE DEF P, I, E, L, C
  <2>4. I = 0
    BY SMT, <2>3
  <2> QED BY <2>4 DEF I
<1> QED BY <1>2, <1>3, <1>5

\* tlkm_dma_init and tlkm_dma_exit count from 0 again.
LEMMA WriteReset ==
  ASSUME Counting, TypeOK, WInv, \A w \in Writers : call[w].pc \in Finished, wq' = NoCounts \/ wq' = wq,
         UNCHANGED <<queue, intr, card, call>>
  PROVE  WInv'
<1>1. queue'["write"] = <<>> /\ intr'["write"] = 0 /\ ErrLast' = {}
  <2>1. queue["write"] = <<>> /\ intr["write"] = 0 /\ ErrLast = {}
    BY Drained
  <2> QED BY <2>1 DEF ErrLast
<1>2. \A w \in Writers : call'[w].pc \in Finished /\ ~(Waiting(w)') /\ call'[w].pc # "turn"
  BY DEF Finished, Waiting
<1>3. DOMAIN queue'["write"] = {}
  BY SMT, <1>1
<1>4. WTypes
  BY WriteTypes
<1>5. /\ wq'.enqueued \in Nat /\ wq'.processed \in Nat /\ wq'.requested \in Nat
      /\ wq'.enqueued <= wq'.requested /\ wq'.processed = wq'.enqueued
  <2>1. CASE wq' = NoCounts
    BY SMT, <2>1 DEF NoCounts
  <2>2. CASE wq' = wq
    <3>1. ~(wq.processed < wq.enqueued)
      BY DEF WInv, Pending
    <3>2. wq.processed <= wq.enqueued
      BY <1>4, ProcessedEnqueued DEF WInv
    <3>3. wq.enqueued <= wq.requested
      BY DEF WInv, Numbers
    <3> QED BY SMTT(20), <1>4, <2>2, <3>1, <3>2, <3>3, Typed
  <2> QED BY <2>1, <2>2
<1>6. Numbers'
  BY <1>1, <1>2, <1>5 DEF Numbers, Finished
<1>7. Progress'
  BY <1>1, <1>2 DEF WInv, Progress, ErrLast, Waiting, Finished
<1>8. InOrder' /\ Owned'
  BY <1>3 DEF InOrder, Owned
<1>9. Counted'
  <2>1. Cardinality({}) = 0 /\ Len(<<>>) = 0
    BY SMT DEF Counting
  <2> QED BY SMTT(20), <1>1, <1>5, <2>1 DEF Counted
<1>10. Pending'
  BY SMT, <1>5 DEF Pending
<1>11. Filled'
  BY <1>2, <1>3 DEF Filled
<1>12. Written'
  <2>1. \A w \in Writers : \A k \in 0 .. Chunks[w] - 1 : Through(w, k) => Through(w, k)'
    BY DEF Through
  <2> QED BY <1>4, <2>1, WrittenStep DEF WInv
<1> QED BY <1>6, <1>7, <1>8, <1>9, <1>10, <1>11, <1>12 DEF WInv

\* Every step keeps the writers' part.
LEMMA WriteCorrect == Counting /\ TypeOK /\ Down /\ WInv /\ RInv /\ [Next]_vars => WInv'
<1> SUFFICES ASSUME Counting, TypeOK, Down, WInv, RInv, [Next]_vars PROVE WInv'
  OBVIOUS
<1>1. CASE tlkm_dma_init \/ allocate_buffer \/ AllocateFails \/ tlkm_dma_exit
  <2>1. \A w \in Writers : call[w].pc \in Finished
    BY <1>1 DEF Down, tlkm_dma_init, allocate_buffer, AllocateFails, tlkm_dma_exit, Finished, Callers
  <2>2. UNCHANGED <<queue, intr, card, call>> /\ (wq' = NoCounts \/ wq' = wq)
    BY <1>1 DEF tlkm_dma_init, allocate_buffer, AllocateFails, tlkm_dma_exit
  <2> QED BY <2>1, <2>2, WriteReset
<1>2. ASSUME NEW c \in Callers, Begin(c) PROVE WInv'
  BY <1>2, WriteBegin
<1>3. ASSUME NEW w \in Writers, tlkm_dma_copy_to(w) \/ CopyFromUserFails(w) PROVE WInv'
  BY <1>3, WriteRequest, WriteWait, WriteCopy, WriteCopyFails, WriteEnqueue, WriteLast,
     WritePassEnqueued, WritePassProcessed DEF tlkm_dma_copy_to
<1>4. ASSUME NEW r \in Readers, tlkm_dma_copy_from(r) PROVE WInv'
  <2>0. r \in Callers /\ r \notin Writers /\ "rq" \in Queues
    BY DmaAssumption DEF Callers, Queues
  <2>1. UNCHANGED <<wq, intr, buf, card>> /\ queue'["write"] = queue["write"]
    BY <1>4 DEF tlkm_dma_copy_from, Lock, ReadChunk, Drain, TypeOK
  <2>2. \A d \in Callers \ {r} : Same(d)
    <3>1. CASE Lock(r)
      BY <2>0, <3>1, MovesRequest DEF Lock, Moves, Pcs, TypeOK
    <3>2. CASE ReadChunk(r)
      <4>1. call[r].last \in Slots
        BY <3>2 DEF ReadChunk, At, RInv, Reading, ReadingOf, InRead
      <4>2. CASE rq.processed >= Chunk(r).t_id
        BY <3>2, <4>1, <4>2, MovesRead
      <4>3. CASE ~(rq.processed >= Chunk(r).t_id)
        BY <2>0, <3>2, <4>3, MovesAsleep DEF ReadChunk, Moves, TypeOK
      <4> QED BY <4>2, <4>3
    <3>3. CASE Drain(r)
      <4>1. call[r].last \in Slots
        BY <3>3 DEF Drain, At, RInv, Reading, ReadingOf, InRead
      <4>2. CASE rq.processed >= Chunk(r).t_id
        BY <3>3, <4>1, <4>2, MovesDrain
      <4>3. CASE ~(rq.processed >= Chunk(r).t_id)
        BY <2>0, <3>3, <4>3, MovesAsleep DEF Drain, Moves, TypeOK
      <4> QED BY <4>2, <4>3
    <3> QED BY <1>4, <3>1, <3>2, <3>3 DEF tlkm_dma_copy_from
  <2>3. WUntouched
    BY <2>0, <2>1, <2>2 DEF WUntouched, Callers
  <2> QED BY <2>1, <2>3, WriteFrame
<1>5. CASE Transfer("write")
  BY <1>5, WriteTransfer
<1>6. CASE blue_dma_intr_handler("write")
  BY <1>6, WriteInterrupt
<1>7. CASE Transfer("read")
  <2> DEFINE cmd == Head(queue["read"])
  <2>1. /\ queue["read"] # <<>> /\ UNCHANGED <<wq, card, call>>
        /\ buf' = [buf EXCEPT ![cmd.slot] = card[cmd.at]]
        /\ queue' = [queue EXCEPT !["read"] = Tail(@)] /\ intr' = [intr EXCEPT !["read"] = @ + 1]
    BY <1>7 DEF Transfer
  <2>2. queue'["write"] = queue["write"] /\ intr'["write"] = intr["write"]
    BY <2>1 DEF TypeOK
  <2>3. PICK s \in Slots : cmd.slot = <<"read", s>>
    <3>1. queue["read"] \in Seq(Cmd)
      BY DEF TypeOK
    <3>2. 1 \in DOMAIN queue["read"] /\ cmd = queue["read"][1]
      BY <2>1, <3>1, TailFacts
    <3> QED BY <3>2, ReadSlots
  <2>4. \A t \in Slots : buf'[<<"write", t>>] = buf[<<"write", t>>]
    <3> HIDE DEF cmd
    <3>1. \A t \in Slots : <<"write", t>> \in Buffers /\ <<"write", t>> # cmd.slot
      <4>1. \A t \in Slots : <<"write", t>> \in Buffers
        BY BufferFacts
      <4>2. \A t \in Slots : <<"write", t>> # <<"read", s>>
        OBVIOUS
      <4> QED BY <2>3, <4>1, <4>2
    <3> QED BY <2>1, <3>1 DEF TypeOK
  <2>5. WUntouched
    BY <2>1, <2>2 DEF WUntouched, Same
  <2> QED BY <2>1, <2>4, <2>5, WriteFrame
<1>8. CASE blue_dma_intr_handler("read")
  <2>1. /\ intr' = [intr EXCEPT !["read"] = @ - 1] /\ call' = wake_up(call, "rq")
        /\ UNCHANGED <<wq, queue, buf, card>>
    BY <1>8 DEF blue_dma_intr_handler
  <2>2. intr'["write"] = intr["write"]
    BY <2>1 DEF TypeOK
  <2>3. \A c \in Callers : Same(c)
    BY <2>1, MovesNone DEF TypeOK
  <2>4. WUntouched
    BY <2>1, <2>2, <2>3 DEF WUntouched, Callers
  <2> QED BY <2>1, <2>4, WriteFrame
<1>9. CASE UNCHANGED vars
  <2>1. WUntouched
    BY <1>9 DEF WUntouched, Same, vars
  <2> QED BY <1>9, <2>1, WriteFrame DEF vars
<1> QED BY <1>1, <1>2, <1>3, <1>4, <1>5, <1>6, <1>7, <1>8, <1>9 DEF Next
=============================================================================
