-------------------------- MODULE TlkmDmaInvariant --------------------------
(***************************************************************************)
(* The inductive invariant of TlkmDma, what its operators do to a call and *)
(* to a queue, and that every step keeps the types.                        *)
(***************************************************************************)
EXTENDS TlkmDma, TLAPS

\* A leaf is proved with Zenon unless it names another prover.
USE Zenon

Pcs == {"idle", "request", "free", "copy", "turn", "last", "err_turn", "err_last",
        "lock", "read", "drain", "done", "failed"}
Queues == {Nothing, "wq", "wq_enque", "rq"}
AllChunks == UNION {Of(c) : c \in Callers}
Contents == AllChunks \cup {Nothing}
Cmd == [slot : Buffers, at : AllChunks, n : Nat]

CallOf(c) == [pc : Pcs, k : Nat, last : Nat, asleep : Queues,
              chunks : [Slots -> [t_id : Nat, k : Nat \cup {Nothing}]],
              got : [0 .. Chunks[c] - 1 -> Contents]]

WqType == [requested : Nat, enqueued : Nat, processed : Nat]
RqType == [enqueued : Nat, processed : Nat, mutex : Readers \cup {Nothing}]

CallsOK == /\ call = [c \in Callers |-> call[c]]
           /\ \A c \in Callers : call[c] \in CallOf(c)

TypeOK ==
  /\ phase \in {"off", "init", "up"}
  /\ wq \in WqType
  /\ rq \in RqType
  /\ buf \in [Buffers -> Contents]
  /\ queue \in [{"write", "read"} -> Seq(Cmd)]
  /\ intr \in [{"write", "read"} -> Nat]
  /\ card \in [AllChunks -> Contents]
  /\ CallsOK

Finished == {"idle", "done", "failed"}

\* The engine goes down only when all calls are over.
Down ==
  /\ phase = "up" => bufs = Buffers
  /\ phase # "up" => \A c \in Callers : call[c].pc \in Finished

-----------------------------------------------------------------------------
(* Writing.  Numbers are drawn in order (requested); those from enqueued on  *)
(* belong to writers that are not through yet, the others are in the queue,  *)
(* wait as an interrupt, are processed, or are those of failed calls that    *)
(* wait to be passed over.                                                   *)

ErrLast == {w \in Writers : call[w].pc = "err_last"}
Below(n) == {w \in ErrLast : call[w].last < n}

Waiting(w) == call[w].pc \in {"free", "copy", "turn", "err_turn"}

\* Who holds a number, and that the ring has room for it.
Numbers ==
  /\ \A w \in Writers : Waiting(w) => wq.enqueued <= call[w].last /\ call[w].last < wq.requested
  /\ \A w, v \in Writers : Waiting(w) /\ Waiting(v) /\ w # v => call[w].last # call[v].last
  /\ \A w \in Writers : call[w].pc \in {"copy", "turn"} => call[w].last < wq.processed + Ring
  /\ \A w \in ErrLast : call[w].last < wq.enqueued
  /\ wq.enqueued <= wq.requested

\* How far a writer is in its chunks.
Progress ==
  \A w \in Writers :
    /\ call[w].pc \in {"idle", "request", "last", "done", "failed"} \/ Waiting(w) \/ w \in ErrLast
    /\ call[w].pc = "idle" => call[w].k = 0
    /\ call[w].pc = "request" \/ Waiting(w) => call[w].k < Chunks[w]
    /\ call[w].pc \in {"last", "done"} => call[w].k = Chunks[w]

\* The commands of the core are in the order of their numbers, none of which
\* is processed; what is counted below a number leaves room for it.
InOrder ==
  \A i \in DOMAIN queue["write"] : LET q == queue["write"][i] IN
    /\ q.slot = <<"write", q.n % Ring>>
    /\ q.n < wq.enqueued /\ q.n < wq.processed + Ring
    /\ wq.processed + intr["write"] + (i - 1) + Cardinality(Below(q.n)) <= q.n
    /\ \A j \in DOMAIN queue["write"] : i < j => q.n < queue["write"][j].n
    /\ \A w \in ErrLast : call[w].last # q.n

\* The same for the next number.
Counted == wq.processed + intr["write"] + Len(queue["write"]) + Cardinality(ErrLast) <= wq.enqueued

\* A command is for a chunk of a call that is not over, and not beyond the
\* number that call holds.
Owned ==
  \A i \in DOMAIN queue["write"] : LET q == queue["write"][i] IN
    \E w \in Writers : /\ q.at[1] = w /\ q.at[2] < call[w].k
                       /\ q.n <= call[w].last
                       /\ call[w].pc \notin Finished
                       /\ Waiting(w) \/ w \in ErrLast => q.n < call[w].last

\* The last number is that of a call that is not over, unless all is processed.
Pending ==
  wq.processed < wq.enqueued =>
    \E w \in Writers : call[w].pc \notin Finished /\ wq.enqueued - 1 <= call[w].last

\* Filled buffers keep their contents, in and before the queue.
Filled ==
  /\ \A i \in DOMAIN queue["write"] : buf[queue["write"][i].slot] = queue["write"][i].at
  /\ \A w \in Writers : call[w].pc = "turn" => buf[Slot(w)] = <<w, call[w].k>>

\* A chunk that is through is on the card or in the queue.
Through(w, k) ==
  \/ card[<<w, k>>] = <<w, k>>
  \/ \E i \in DOMAIN queue["write"] : queue["write"][i].at = <<w, k>>
Written == \A w \in Writers : \A k \in 0 .. call[w].k - 1 : k < Chunks[w] /\ Through(w, k)

WInv == Numbers /\ Progress /\ InOrder /\ Counted /\ Owned /\ Pending /\ Filled /\ Written

-----------------------------------------------------------------------------
(* Reading.  The holder of rq_mutex is the only one that enqueues.           *)

InRead(r) == call[r].pc \in {"read", "drain"}

Holder ==
  /\ \A r \in Readers : InRead(r) <=> rq.mutex = r
  /\ rq.mutex = Nothing => queue["read"] = <<>> /\ intr["read"] = 0

\* The numbers of the commands are consecutive, and the holder has noted them
\* with the slots.
NotedBy(r) ==
  /\ rq.enqueued = rq.processed + intr["read"] + Len(queue["read"])
  /\ \A i \in DOMAIN queue["read"] : LET q == queue["read"][i] IN
       \E s \in Slots : /\ q.slot = <<"read", s>>
                        /\ call[r].chunks[s].t_id = rq.processed + intr["read"] + i
                        /\ q.at = <<r, call[r].chunks[s].k>> /\ call[r].chunks[s].k # Nothing
  /\ \A s \in Slots : call[r].chunks[s].t_id <= rq.enqueued
  /\ \A s, t \in Slots : s # t /\ call[r].chunks[s].k # Nothing /\ call[r].chunks[t].k # Nothing
                           => call[r].chunks[s].t_id # call[r].chunks[t].t_id
  /\ rq.enqueued > 0 => \E s \in Slots : call[r].chunks[s].t_id = rq.enqueued
Noted == \A r \in Readers : rq.mutex = r => NotedBy(r)

\* What is noted is in its buffer once it is transferred, and what is not
\* noted any more was delivered.
ArrivedOf(r) ==
  /\ InRead(r) => \A s \in Slots :
       /\ call[r].chunks[s].k # Nothing => call[r].chunks[s].k < call[r].k
       /\ call[r].chunks[s].k # Nothing /\ call[r].chunks[s].t_id <= rq.processed + intr["read"]
            => buf[<<"read", s>>] = <<r, call[r].chunks[s].k>>
  /\ \A k \in 0 .. call[r].k - 1 :
       k < Chunks[r] /\ (call[r].got[k] = <<r, k>> \/ (InRead(r) /\ \E s \in Slots : call[r].chunks[s].k = k))
  /\ \A k \in 0 .. Chunks[r] - 1 : card[<<r, k>>] = <<r, k>>
Arrived == \A r \in Readers : ArrivedOf(r)

\* How far a reader is.
ReadingOf(r) ==
  /\ call[r].pc \in {"idle", "lock", "read", "drain", "done", "failed"}
  /\ call[r].pc \in {"idle", "lock"} =>
       call[r].k = 0 /\ \A s \in Slots : call[r].chunks[s] = [t_id |-> 0, k |-> Nothing]
  /\ InRead(r) => call[r].last \in Slots
  /\ call[r].pc = "read" => call[r].k < Chunks[r]
  /\ call[r].pc \in {"drain", "done"} => call[r].k = Chunks[r]
  /\ call[r].pc = "drain" => \A s \in 0 .. call[r].last - 1 :
       call[r].chunks[s].k = Nothing /\ call[r].chunks[s].t_id <= rq.processed
Reading == \A r \in Readers : ReadingOf(r)

RInv == Holder /\ Noted /\ Arrived /\ Reading

IInv == TypeOK /\ Down /\ WInv /\ RInv

-----------------------------------------------------------------------------

LEMMA SmallMod == ASSUME NEW m \in Nat \ {0}, NEW n \in 0 .. m - 1 PROVE n % m = n
BY SMT

\* Two numbers of one window of the ring have different slots.
LEMMA ModDistinct ==
  ASSUME NEW m \in Nat \ {0}, NEW a \in Nat, NEW b \in Nat, a < b, b < a + m
  PROVE  a % m # b % m
<1> SUFFICES ASSUME a % m = b % m PROVE FALSE
  OBVIOUS
<1>1. PICK p \in Int : a = m * p + (a % m)
  <2>1. a = m * (a \div m) + (a % m) /\ a \div m \in Int
    BY SMT
  <2> QED BY <2>1
<1>2. PICK q \in Int : b = m * q + (b % m)
  <2>1. b = m * (b \div m) + (b % m) /\ b \div m \in Int
    BY SMT
  <2> QED BY <2>1
<1>3. b - a = m * (q - p)
  BY SMT, <1>1, <1>2
<1>4. CASE q - p >= 1
  <2>1. m * (q - p) >= m * 1
    BY SMT, <1>4
  <2> QED BY SMT, <1>3, <2>1
<1>5. CASE q - p <= 0
  <2>1. m * (q - p) <= 0
    BY SMT, <1>5
  <2> QED BY SMT, <1>3, <2>1
<1> QED BY SMT, <1>4, <1>5

LEMMA SlotFacts == ASSUME NEW n \in Nat PROVE n % Ring \in Slots /\ <<"write", n % Ring>> \in Buffers
BY SMT, DmaAssumption DEF Slots, Buffers

LEMMA BufferFacts ==
  ASSUME NEW d \in {"write", "read"}, NEW s \in Slots PROVE <<d, s>> \in Buffers
BY DEF Buffers

LEMMA ChunkFacts ==
  ASSUME NEW c \in Callers, NEW k \in Nat, k < Chunks[c] PROVE <<c, k>> \in AllChunks
BY SMT, DmaAssumption DEF AllChunks, Of

(* What the steps do to the calls.                                           *)

Same(c) == /\ call'[c].pc = call[c].pc /\ call'[c].k = call[c].k /\ call'[c].last = call[c].last
           /\ call'[c].chunks = call[c].chunks /\ call'[c].got = call[c].got

\* The call of c goes on, the others may at most be woken.
Moves(c, pc, k, last) ==
  /\ CallsOK'
  /\ call'[c].pc = pc /\ call'[c].k = k /\ call'[c].last = last
  /\ call'[c].chunks = call[c].chunks /\ call'[c].got = call[c].got
  /\ \A d \in Callers \ {c} : Same(d)

LEMMA Moved ==
  ASSUME CallsOK, NEW c \in Callers, NEW r \in CallOf(c), call' = [call EXCEPT ![c] = r]
  PROVE  CallsOK' /\ call'[c] = r /\ \A d \in Callers \ {c} : Same(d)
<1>1. call'[c] = r /\ \A d \in Callers \ {c} : call'[d] = call[d]
  BY DEF CallsOK
<1>2. call' = [d \in Callers |-> call'[d]]
  BY DEF CallsOK
<1>3. CallsOK'
  BY <1>1, <1>2 DEF CallsOK
<1>4. \A d \in Callers \ {c} : Same(d)
  BY <1>1 DEF Same
<1> QED BY <1>1, <1>3, <1>4

LEMMA MovesTo ==
  ASSUME CallsOK, NEW c \in Callers, NEW p \in Pcs, call' = [call EXCEPT ![c].pc = p]
  PROVE  Moves(c, p, call[c].k, call[c].last)
<1> DEFINE r == [call[c] EXCEPT !.pc = p]
<1>1. /\ r \in CallOf(c) /\ r.pc = p
      /\ r.k = call[c].k /\ r.last = call[c].last /\ r.chunks = call[c].chunks /\ r.got = call[c].got
  BY DEF CallsOK, CallOf
<1>2. call' = [call EXCEPT ![c] = r]
  OBVIOUS
<1> HIDE DEF r
<1> QED BY <1>1, <1>2, Moved DEF Moves

\* wait_event goes on when the condition holds, and else only sleeps.
LEMMA MovesWhen ==
  ASSUME CallsOK, NEW c \in Callers, NEW q \in Queues, NEW cond \in BOOLEAN, NEW p \in Pcs,
         Wait(c, q, cond, p)
  PROVE  Moves(c, IF cond THEN p ELSE call[c].pc, call[c].k, call[c].last)
<1> DEFINE r == [call[c] EXCEPT !.pc = IF cond THEN p ELSE @, !.asleep = IF cond THEN Nothing ELSE q]
<1>1. /\ r \in CallOf(c) /\ r.pc = IF cond THEN p ELSE call[c].pc
      /\ r.k = call[c].k /\ r.last = call[c].last /\ r.chunks = call[c].chunks /\ r.got = call[c].got
  BY DEF CallsOK, CallOf, Queues
<1>2. call' = [call EXCEPT ![c] = r]
  BY DEF Wait
<1> HIDE DEF r
<1> QED BY <1>1, <1>2, Moved DEF Moves

LEMMA MovesAsleep ==
  ASSUME CallsOK, NEW c \in Callers, NEW q \in Queues, call' = [call EXCEPT ![c].asleep = q]
  PROVE  Moves(c, call[c].pc, call[c].k, call[c].last)
<1> DEFINE r == [call[c] EXCEPT !.asleep = q]
<1>1. /\ r \in CallOf(c) /\ r.pc = call[c].pc
      /\ r.k = call[c].k /\ r.last = call[c].last /\ r.chunks = call[c].chunks /\ r.got = call[c].got
  BY DEF CallsOK, CallOf
<1>2. call' = [call EXCEPT ![c] = r]
  OBVIOUS
<1> HIDE DEF r
<1> QED BY <1>1, <1>2, Moved DEF Moves

LEMMA MovesRequest ==
  ASSUME CallsOK, NEW c \in Callers, NEW p \in Pcs, NEW n \in Nat,
         call' = [call EXCEPT ![c].last = n, ![c].pc = p]
  PROVE  Moves(c, p, call[c].k, n)
<1> DEFINE r == [call[c] EXCEPT !.last = n, !.pc = p]
<1>1. /\ r \in CallOf(c) /\ r.pc = p /\ r.last = n
      /\ r.k = call[c].k /\ r.chunks = call[c].chunks /\ r.got = call[c].got
  BY DEF CallsOK, CallOf
<1>2. call' = [call EXCEPT ![c] = r]
  OBVIOUS
<1> HIDE DEF r
<1> QED BY <1>1, <1>2, Moved DEF Moves

\* wake_up changes who sleeps, and nothing else.
LEMMA WakeUp ==
  ASSUME NEW calls, NEW q, \A c \in Callers : calls[c] \in CallOf(c)
  PROVE  /\ wake_up(calls, q) = [c \in Callers |-> wake_up(calls, q)[c]]
         /\ \A c \in Callers :
              /\ wake_up(calls, q)[c] \in CallOf(c)
              /\ wake_up(calls, q)[c].pc = calls[c].pc /\ wake_up(calls, q)[c].k = calls[c].k
              /\ wake_up(calls, q)[c].last = calls[c].last
              /\ wake_up(calls, q)[c].chunks = calls[c].chunks
              /\ wake_up(calls, q)[c].got = calls[c].got
BY SMT DEF wake_up, CallOf, Queues

LEMMA MovesNext ==
  ASSUME CallsOK, NEW w \in Callers, NEW q, call' = wake_up(Next_k(w), q)
  PROVE  Moves(w, IF call[w].k + 1 < Chunks[w] THEN "request" ELSE "last", call[w].k + 1, call[w].last)
<1> DEFINE p == IF call[w].k + 1 < Chunks[w] THEN "request" ELSE "last"
           k == call[w].k + 1
           r == [call[w] EXCEPT !.k = k, !.pc = p]
<1>0. p \in Pcs /\ call[w] \in CallOf(w) /\ k \in Nat
  BY SMT DEF Pcs, CallsOK, CallOf
<1>1. Next_k(w) = [call EXCEPT ![w] = r]
  BY DEF Next_k, CallsOK
<1> HIDE DEF p, k
<1>2. /\ r \in CallOf(w) /\ r.pc = p /\ r.k = k
      /\ r.last = call[w].last /\ r.chunks = call[w].chunks /\ r.got = call[w].got
  BY <1>0 DEF CallOf
<1> HIDE DEF r
<1>3. Next_k(w)[w] = r /\ \A d \in Callers \ {w} : Next_k(w)[d] = call[d]
  BY <1>1 DEF CallsOK
<1>4. \A d \in Callers : Next_k(w)[d] \in CallOf(d)
  BY <1>2, <1>3 DEF CallsOK
<1> QED BY SMT, <1>2, <1>3, <1>4, WakeUp DEF Moves, Same, CallsOK, p, k

LEMMA MovesNone ==
  ASSUME CallsOK, NEW q, call' = wake_up(call, q) PROVE CallsOK' /\ \A c \in Callers : Same(c)
BY SMT, WakeUp DEF CallsOK, Same

LEMMA DeliveredType ==
  ASSUME TypeOK, NEW r \in Readers, call[r].last \in Slots
  PROVE  Delivered(r) \in [0 .. Chunks[r] - 1 -> Contents]
<1>1. call[r] \in CallOf(r)
  BY DEF TypeOK, CallsOK, Callers
<1>2. call[r].got \in [0 .. Chunks[r] - 1 -> Contents]
  BY <1>1 DEF CallOf
<1>3. buf[<<"read", call[r].last>>] \in Contents
  BY DEF TypeOK, Buffers
<1> QED BY <1>2, <1>3 DEF Delivered

LEMMA MovesRead ==
  ASSUME TypeOK, NEW r \in Readers, call[r].last \in Slots, ReadChunk(r),
         rq.processed >= Chunk(r).t_id
  PROVE  /\ CallsOK' /\ \A d \in Callers \ {r} : Same(d)
         /\ call'[r].got = Delivered(r) /\ call'[r].k = call[r].k + 1
         /\ call'[r].chunks = [call[r].chunks EXCEPT ![call[r].last] = [t_id |-> rq.enqueued + 1, k |-> call[r].k]]
         /\ call'[r].last = IF call[r].k + 1 < Chunks[r] THEN (call[r].last + 1) % Ring ELSE 0
         /\ call'[r].pc = IF call[r].k + 1 < Chunks[r] THEN "read" ELSE "drain"
<1>1. call[r] \in CallOf(r) /\ r \in Callers
  BY DEF TypeOK, CallsOK, Callers
<1> DEFINE more == call[r].k + 1 < Chunks[r]
           got == Delivered(r)
           k == call[r].k + 1
           chunks == [call[r].chunks EXCEPT ![call[r].last] = [t_id |-> rq.enqueued + 1, k |-> call[r].k]]
           last == IF more THEN (call[r].last + 1) % Ring ELSE 0
           pc == IF more THEN "read" ELSE "drain"
           u == [call[r] EXCEPT !.got = got, !.k = k, !.chunks = chunks, !.last = last, !.pc = pc]
<1>2. got \in [0 .. Chunks[r] - 1 -> Contents] /\ k \in Nat /\ pc \in Pcs
  BY SMTT(20), <1>1, DeliveredType DEF CallOf, Pcs
<1>3. chunks \in [Slots -> [t_id : Nat, k : Nat \cup {Nothing}]] /\ last \in Nat
  <2>1. [t_id |-> rq.enqueued + 1, k |-> call[r].k] \in [t_id : Nat, k : Nat \cup {Nothing}]
    <3>1. rq.enqueued \in Nat
      BY DEF TypeOK, RqType
    <3>2. call[r].k \in Nat
      BY <1>1 DEF CallOf
    <3> QED BY SMT, <3>1, <3>2
  <2>2. call[r].chunks \in [Slots -> [t_id : Nat, k : Nat \cup {Nothing}]]
    BY <1>1 DEF CallOf
  <2>3. chunks \in [Slots -> [t_id : Nat, k : Nat \cup {Nothing}]]
    BY <2>1, <2>2
  <2>4. call[r].last \in Nat
    BY <1>1 DEF CallOf
  <2>5. last \in Nat
    BY SMT, <2>4, DmaAssumption
  <2> QED BY <2>3, <2>5
<1>4. call' = [call EXCEPT ![r] = u]
  BY DEF ReadChunk, Requested
<1> HIDE DEF got, k, chunks, last, pc
<1>5. /\ u \in CallOf(r) /\ u.got = got /\ u.k = k /\ u.chunks = chunks /\ u.last = last /\ u.pc = pc
  BY <1>1, <1>2, <1>3 DEF CallOf
<1> HIDE DEF u
<1>6. CallsOK' /\ call'[r] = u /\ \A d \in Callers \ {r} : Same(d)
  BY <1>1, <1>4, <1>5, Moved DEF TypeOK
<1> QED BY <1>5, <1>6 DEF got, k, chunks, last, pc

LEMMA MovesDrain ==
  ASSUME TypeOK, NEW r \in Readers, call[r].last \in Slots, Drain(r),
         rq.processed >= Chunk(r).t_id
  PROVE  /\ CallsOK' /\ \A d \in Callers \ {r} : Same(d)
         /\ call'[r].got = Delivered(r) /\ call'[r].k = call[r].k
         /\ call'[r].chunks = [call[r].chunks EXCEPT ![call[r].last].k = Nothing]
         /\ call'[r].last = (call[r].last + 1) % Ring
         /\ call'[r].pc = IF call[r].last = Ring - 1 THEN "done" ELSE "drain"
<1>1. call[r] \in CallOf(r) /\ r \in Callers
  BY DEF TypeOK, CallsOK, Callers
<1> DEFINE got == Delivered(r)
           chunks == [call[r].chunks EXCEPT ![call[r].last].k = Nothing]
           last == (call[r].last + 1) % Ring
           pc == IF call[r].last = Ring - 1 THEN "done" ELSE "drain"
           u == [call[r] EXCEPT !.got = got, !.chunks = chunks, !.last = last, !.pc = pc]
<1>2. got \in [0 .. Chunks[r] - 1 -> Contents] /\ pc \in Pcs
  BY <1>1, DeliveredType DEF Pcs
<1>3. chunks \in [Slots -> [t_id : Nat, k : Nat \cup {Nothing}]] /\ last \in Nat
  <2>1. call[r].chunks \in [Slots -> [t_id : Nat, k : Nat \cup {Nothing}]]
    BY <1>1 DEF CallOf
  <2>2. [call[r].chunks[call[r].last] EXCEPT !.k = Nothing] \in [t_id : Nat, k : Nat \cup {Nothing}]
    BY <2>1
  <2>3. chunks \in [Slots -> [t_id : Nat, k : Nat \cup {Nothing}]]
    BY <2>1, <2>2
  <2>4. call[r].last \in Nat
    BY <1>1 DEF CallOf
  <2>5. last \in Nat
    BY SMT, <2>4, DmaAssumption
  <2> QED BY <2>3, <2>5
<1>4. call' = [call EXCEPT ![r] = u]
  BY DEF Drain, Emptied
<1> HIDE DEF got, chunks, last, pc
<1>5. /\ u \in CallOf(r) /\ u.got = got /\ u.k = call[r].k /\ u.chunks = chunks /\ u.last = last /\ u.pc = pc
  BY <1>1, <1>2, <1>3 DEF CallOf
<1> HIDE DEF u
<1>6. CallsOK' /\ call'[r] = u /\ \A d \in Callers \ {r} : Same(d)
  BY <1>1, <1>4, <1>5, Moved DEF TypeOK
<1> QED BY <1>5, <1>6 DEF got, chunks, last, pc

-----------------------------------------------------------------------------

LEMMA Counts ==
  ASSUME wq \in WqType, rq \in RqType
  PROVE  /\ [wq EXCEPT !.requested = @ + 1] \in WqType /\ [wq EXCEPT !.enqueued = @ + 1] \in WqType
         /\ [wq EXCEPT !.processed = @ + 1] \in WqType
         /\ [rq EXCEPT !.enqueued = @ + 1] \in RqType /\ [rq EXCEPT !.processed = @ + 1] \in RqType
         /\ wq.requested \in Nat /\ wq.enqueued \in Nat /\ wq.processed \in Nat
         /\ rq.enqueued \in Nat /\ rq.processed \in Nat
         /\ [rq EXCEPT !.mutex = Nothing] \in RqType
         /\ NoCounts \in WqType
         /\ \A m \in Readers \cup {Nothing} : [enqueued |-> 0, processed |-> 0, mutex |-> m] \in RqType
BY SMT DEF WqType, RqType, NoCounts

LEMMA QueueUpdate ==
  ASSUME NEW S, NEW q \in [{"write", "read"} -> S], NEW d \in {"write", "read"}, NEW s \in S
  PROVE  /\ [q EXCEPT ![d] = s] \in [{"write", "read"} -> S] /\ [q EXCEPT ![d] = s][d] = s
         /\ \A e \in {"write", "read"} \ {d} : [q EXCEPT ![d] = s][e] = q[e]
OBVIOUS

\* Every step keeps the types.
LEMMA TypeCorrect == TypeOK /\ Reading /\ Progress /\ [Next]_vars => TypeOK'
<1> SUFFICES ASSUME TypeOK, Reading, Progress, [Next]_vars PROVE TypeOK'
  OBVIOUS
<1>e. /\ rq.enqueued + 1 \in Nat
      /\ \A d \in {"write", "read"} : intr[d] + 1 \in Nat /\ (intr[d] > 0 => intr[d] - 1 \in Nat)
  BY SMTT(20) DEF TypeOK, RqType
<1> USE DmaAssumption, Counts DEF TypeOK
<1>0. \A c \in Callers : call[c].pc \in Pcs /\ call[c].k \in Nat /\ call[c].last \in Nat
  BY DEF CallsOK, CallOf
<1>c. \A w \in Writers : w \in Callers
  BY DEF Callers
<1>d. \A r \in Readers : r \in Callers
  BY DEF Callers
<1>1. CASE tlkm_dma_init
  BY <1>1 DEF tlkm_dma_init, CallsOK
<1>2. CASE allocate_buffer
  BY <1>2 DEF allocate_buffer, Contents, CallsOK
<1>3. CASE AllocateFails
  BY <1>3 DEF AllocateFails, CallsOK
<1>4. CASE tlkm_dma_exit
  BY <1>4 DEF tlkm_dma_exit, CallsOK
<1>5. ASSUME NEW c \in Callers, Begin(c) PROVE TypeOK'
  <2>1. CallsOK'
    <3> DEFINE p == IF c \in Misaligned THEN "failed" ELSE IF c \in Writers THEN "request" ELSE "lock"
    <3>1. p \in Pcs /\ call' = [call EXCEPT ![c].pc = p]
      BY <1>5 DEF Begin, Pcs
    <3> HIDE DEF p
    <3> QED BY <3>1, MovesTo DEF Moves
  <2> QED BY <1>5, <2>1 DEF Begin
<1>6. ASSUME NEW w \in Writers, Request(w) PROVE TypeOK'
  <2>1. CallsOK'
    BY <1>6, <1>c, MovesRequest DEF Request, Moves, Pcs
  <2> QED BY <1>6, <2>1 DEF Request
<1>7. ASSUME NEW w \in Writers, WaitForBuffer(w) PROVE TypeOK'
  <2>1. CallsOK'
    <3> DEFINE cond == wq.processed + Ring > call[w].last
    <3>1. Wait(w, "wq", cond, "copy") /\ cond \in BOOLEAN /\ "copy" \in Pcs /\ "wq" \in Queues
      BY SMT, <1>7 DEF WaitForBuffer, Pcs, Queues
    <3> HIDE DEF cond
    <3> QED BY SMT, <3>1, <1>c, MovesWhen DEF Moves
  <2> QED BY <1>7, <2>1 DEF WaitForBuffer
<1>8. ASSUME NEW w \in Writers, CopyFromUser(w) PROVE TypeOK'
  <2>1. CallsOK'
    BY <1>8, <1>c, MovesTo DEF CopyFromUser, Moves, Pcs
  <2>2. <<w, call[w].k>> \in Contents
    BY <1>0, <1>8, <1>c, ChunkFacts DEF CopyFromUser, At, Progress, Waiting, Contents
  <2> QED BY <1>8, <2>1, <2>2 DEF CopyFromUser
<1>9. ASSUME NEW w \in Writers, CopyFromUserFails(w) PROVE TypeOK'
  <2>1. CallsOK'
    BY <1>9, <1>c, MovesTo DEF CopyFromUserFails, Moves, Pcs
  <2> QED BY <1>9, <2>1 DEF CopyFromUserFails
<1>10. ASSUME NEW w \in Writers, Enqueue(w) PROVE TypeOK'
  <2>1. CASE wq.enqueued = call[w].last
    <3>1. CallsOK'
      BY <1>10, <2>1, <1>c, MovesNext DEF Enqueue, Moves
    <3>2. [slot |-> Slot(w), at |-> <<w, call[w].k>>, n |-> call[w].last] \in Cmd
      BY <1>0, <1>10, <1>c, ChunkFacts, SlotFacts DEF Enqueue, At, Progress, Waiting, Cmd, Slot
    <3>3. wq' \in WqType
      BY <1>10, <2>1 DEF Enqueue, blue_dma_copy_to
    <3>4. queue' \in [{"write", "read"} -> Seq(Cmd)]
      <4> DEFINE c == [slot |-> Slot(w), at |-> <<w, call[w].k>>, n |-> call[w].last]
      <4>1. queue' = [queue EXCEPT !["write"] = Append(queue["write"], c)]
        BY <1>10, <2>1 DEF Enqueue, blue_dma_copy_to
      <4> HIDE DEF c
      <4>2. Append(queue["write"], c) \in Seq(Cmd)
        BY SMT, <3>2 DEF c
      <4> QED BY <4>1, <4>2, QueueUpdate
    <3> QED BY <1>10, <3>1, <3>3, <3>4 DEF Enqueue
  <2>2. CASE wq.enqueued # call[w].last
    <3>1. CallsOK'
      BY <1>10, <2>2, <1>c, MovesAsleep DEF Enqueue, Moves, Queues
    <3> QED BY <1>10, <2>2, <3>1 DEF Enqueue
  <2> QED BY <2>1, <2>2
<1>11. ASSUME NEW w \in Writers, WaitForLast(w) PROVE TypeOK'
  <2>1. CallsOK'
    <3> DEFINE cond == wq.processed > call[w].last
    <3>1. Wait(w, "wq", cond, "done") /\ cond \in BOOLEAN /\ "done" \in Pcs /\ "wq" \in Queues
      BY SMT, <1>11 DEF WaitForLast, Pcs, Queues
    <3> HIDE DEF cond
    <3> QED BY SMT, <3>1, <1>c, MovesWhen DEF Moves
  <2> QED BY <1>11, <2>1 DEF WaitForLast
<1>12. ASSUME NEW w \in Writers, PassEnqueued(w) PROVE TypeOK'
  <2>1. CallsOK'
    <3> DEFINE cond == wq.enqueued = call[w].last
    <3>1. Wait(w, "wq", cond, "err_last") /\ cond \in BOOLEAN /\ "err_last" \in Pcs /\ "wq" \in Queues
      BY <1>12 DEF PassEnqueued, Pcs, Queues
    <3> HIDE DEF cond
    <3> QED BY SMT, <3>1, <1>c, MovesWhen DEF Moves
  <2>2. wq' \in WqType
    BY <1>12 DEF PassEnqueued
  <2> QED BY <1>12, <2>1, <2>2 DEF PassEnqueued
<1>13. ASSUME NEW w \in Writers, PassProcessed(w) PROVE TypeOK'
  <2>1. CallsOK'
    <3> DEFINE cond == wq.processed = call[w].last
    <3>1. Wait(w, "wq", cond, "failed") /\ cond \in BOOLEAN /\ "failed" \in Pcs /\ "wq" \in Queues
      BY <1>13 DEF PassProcessed, Pcs, Queues
    <3> HIDE DEF cond
    <3> QED BY SMT, <3>1, <1>c, MovesWhen DEF Moves
  <2>2. wq' \in WqType
    BY <1>13 DEF PassProcessed
  <2> QED BY <1>13, <2>1, <2>2 DEF PassProcessed
<1>14. ASSUME NEW r \in Readers, Lock(r) PROVE TypeOK'
  <2>1. CallsOK'
    BY <1>14, <1>d, MovesRequest DEF Lock, Moves, Pcs
  <2> QED BY <1>14, <2>1 DEF Lock
<1>15. ASSUME NEW r \in Readers, ReadChunk(r) PROVE TypeOK'
  <2>0. call[r].last \in Slots /\ call[r].k < Chunks[r]
    BY <1>15 DEF ReadChunk, At, Reading, ReadingOf, InRead
  <2>1. CASE rq.processed >= Chunk(r).t_id
    <3>1. CallsOK'
      BY <1>15, <2>0, <2>1, MovesRead
    <3>2. [slot |-> <<"read", call[r].last>>, at |-> <<r, call[r].k>>, n |-> rq.enqueued + 1] \in Cmd
      <4>1. <<r, call[r].k>> \in AllChunks
        BY <1>0, <1>d, <2>0, ChunkFacts
      <4>2. <<"read", call[r].last>> \in Buffers
        BY <2>0, BufferFacts
      <4>3. rq.enqueued + 1 \in Nat
        BY <1>e
      <4> QED BY <4>1, <4>2, <4>3 DEF Cmd
    <3>3. rq' \in RqType
      BY <1>15, <2>1 DEF ReadChunk
    <3>4. queue' \in [{"write", "read"} -> Seq(Cmd)]
      <4> DEFINE c == [slot |-> <<"read", call[r].last>>, at |-> <<r, call[r].k>>, n |-> rq.enqueued + 1]
      <4>1. queue' = [queue EXCEPT !["read"] = Append(queue["read"], c)]
        BY <1>15, <2>1 DEF ReadChunk
      <4> HIDE DEF c
      <4>2. Append(queue["read"], c) \in Seq(Cmd)
        BY SMT, <3>2 DEF c
      <4> QED BY <4>1, <4>2, QueueUpdate
    <3> QED BY <1>15, <3>1, <3>3, <3>4 DEF ReadChunk
  <2>2. CASE ~(rq.processed >= Chunk(r).t_id)
    <3>1. CallsOK'
      BY <1>15, <2>2, <1>d, MovesAsleep DEF ReadChunk, Moves, Queues
    <3> QED BY <1>15, <2>2, <3>1 DEF ReadChunk
  <2> QED BY <2>1, <2>2
<1>16. ASSUME NEW r \in Readers, Drain(r) PROVE TypeOK'
  <2>0. call[r].last \in Slots
    BY <1>16 DEF Drain, At, Reading, ReadingOf, InRead
  <2>1. CASE rq.processed >= Chunk(r).t_id
    <3>1. CallsOK'
      BY <1>16, <2>0, <2>1, MovesDrain
    <3> QED BY <1>16, <2>1, <3>1 DEF Drain
  <2>2. CASE ~(rq.processed >= Chunk(r).t_id)
    <3>1. CallsOK'
      BY <1>16, <2>2, <1>d, MovesAsleep DEF Drain, Moves, Queues
    <3> QED BY <1>16, <2>2, <3>1 DEF Drain
  <2> QED BY <2>1, <2>2
<1>17. ASSUME NEW d \in {"write", "read"}, Transfer(d) PROVE TypeOK'
  <2>1. Head(queue[d]) \in Cmd /\ Tail(queue[d]) \in Seq(Cmd)
    BY SMT, <1>17 DEF Transfer
  <2>2. buf[Head(queue[d]).slot] \in Contents /\ card[Head(queue[d]).at] \in Contents
    BY <2>1 DEF Cmd
  <2>3. buf' \in [Buffers -> Contents] /\ card' \in [AllChunks -> Contents]
    BY <1>17, <2>2 DEF Transfer
  <2>4. queue' \in [{"write", "read"} -> Seq(Cmd)] /\ intr' \in [{"write", "read"} -> Nat]
    <3>1. /\ queue' = [queue EXCEPT ![d] = Tail(queue[d])]
          /\ intr' = [intr EXCEPT ![d] = intr[d] + 1]
      BY <1>17 DEF Transfer
    <3>2. intr[d] + 1 \in Nat
      BY <1>e
    <3>3. queue' \in [{"write", "read"} -> Seq(Cmd)]
      BY <3>1, <2>1, QueueUpdate
    <3> QED BY <3>1, <3>2, <3>3, QueueUpdate
  <2> QED BY <1>17, <2>3, <2>4 DEF Transfer, CallsOK
<1>18. ASSUME NEW d \in {"write", "read"}, blue_dma_intr_handler(d) PROVE TypeOK'
  <2>1. CallsOK'
    BY <1>18, MovesNone DEF blue_dma_intr_handler
  <2>2. wq' \in WqType
    BY <1>18 DEF blue_dma_intr_handler
  <2>3. rq' \in RqType
    BY <1>18 DEF blue_dma_intr_handler
  <2>4. intr' \in [{"write", "read"} -> Nat]
    <3>1. intr' = [intr EXCEPT ![d] = intr[d] - 1] /\ intr[d] > 0
      BY <1>18 DEF blue_dma_intr_handler
    <3>2. intr[d] - 1 \in Nat
      BY <3>1, <1>e
    <3> QED BY <3>1, <3>2, QueueUpdate
  <2> QED BY <1>18, <2>1, <2>2, <2>3, <2>4 DEF blue_dma_intr_handler
<1>20. CASE UNCHANGED vars
  BY <1>20 DEF vars, CallsOK
<1> QED
  BY <1>1, <1>2, <1>3, <1>4, <1>5, <1>6, <1>7, <1>8, <1>9, <1>10, <1>11, <1>12, <1>13, <1>14, <1>15,
     <1>16, <1>17, <1>18, <1>20 DEF Next, tlkm_dma_copy_to, tlkm_dma_copy_from

LEMMA AppendFacts ==
  ASSUME NEW S, NEW q \in Seq(S), NEW c \in S
  PROVE  /\ Len(Append(q, c)) = Len(q) + 1 /\ Len(q) \in Nat
         /\ \A i \in DOMAIN Append(q, c) : i \in DOMAIN q \/ i = Len(q) + 1
         /\ \A i \in DOMAIN q : /\ i \in DOMAIN Append(q, c) /\ Append(q, c)[i] = q[i]
                                /\ i \in Nat /\ i >= 1 /\ i < Len(q) + 1
         /\ Len(q) + 1 \in DOMAIN Append(q, c) /\ Append(q, c)[Len(q) + 1] = c
         /\ \A i \in DOMAIN Append(q, c) : \/ i \in DOMAIN q /\ Append(q, c)[i] = q[i]
                                           \/ i = Len(q) + 1 /\ Append(q, c)[i] = c
BY SMT

LEMMA TailFacts ==
  ASSUME NEW S, NEW q \in Seq(S), q # <<>>
  PROVE  /\ Len(Tail(q)) = Len(q) - 1 /\ Len(q) \in Nat /\ Len(q) >= 1
         /\ 1 \in DOMAIN q /\ Head(q) = q[1] /\ Tail(q) \in Seq(S)
         /\ \A i \in DOMAIN Tail(q) : i \in Nat /\ i >= 1 /\ i + 1 \in DOMAIN q /\ Tail(q)[i] = q[i + 1]
         /\ \A i \in DOMAIN q : i = 1 \/ (i - 1 \in DOMAIN Tail(q) /\ Tail(q)[i - 1] = q[i])
BY SMT

RTypes ==
  /\ rq.enqueued \in Nat /\ rq.processed \in Nat /\ intr["read"] \in Nat
  /\ rq.mutex \in Readers \cup {Nothing} /\ queue["read"] \in Seq(Cmd)

LEMMA ReadTypes == TypeOK => RTypes
BY DEF TypeOK, RTypes, RqType

\* Commands to read are for the buffers of that direction.
LEMMA ReadSlots ==
  ASSUME TypeOK, RInv, NEW i \in DOMAIN queue["read"]
  PROVE  \E s \in Slots : queue["read"][i].slot = <<"read", s>>
<1>1. CASE rq.mutex = Nothing
  <2>1. queue["read"] = <<>>
    BY <1>1 DEF RInv, Holder
  <2> QED BY SMT, <2>1
<1>2. CASE rq.mutex # Nothing
  BY SMT, <1>2, ReadTypes DEF RInv, Noted, NotedBy, RTypes
<1> QED BY <1>1, <1>2
=============================================================================
