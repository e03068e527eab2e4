------------------------------ MODULE TlkmDma ------------------------------
(***************************************************************************)
(* The DMA engine of the kernel module: tlkm_dma.c over blue_dma.c.  Calls  *)
(* copy chunk by chunk through rings of bounce buffers.  Writes of several  *)
(* callers share a ring and are ordered by three counters; reads are        *)
(* serialised by a mutex.  wait_event and wake_up are modelled with the     *)
(* queue a caller sleeps on.  The core itself is external: it works off its *)
(* commands in order and raises one interrupt for each.                     *)
(***************************************************************************)
EXTENDS Integers, Sequences, FiniteSets

CONSTANTS Writers, Readers,
          Chunks,      \* how many chunks each of them copies
          Misaligned,  \* those whose address is not aligned
          Ring,        \* TLKM_DMA_CHUNKS
          MaxFails,    \* bound on calls whose memory cannot be accessed
          Nothing      \* the contents of a buffer before it is filled

Callers == Writers \cup Readers

ASSUME DmaAssumption == /\ Ring \in Nat \ {0} /\ Writers \cap Readers = {}
                        /\ Chunks \in [Callers -> Nat \ {0}] /\ IsFiniteSet(Writers)
                        /\ Nothing \notin Nat \cup Readers

VARIABLES phase,    \* of tlkm_dma_init and tlkm_dma_exit
          bufs,     \* buffers that are allocated
          wq,       \* wq_requested, wq_enqueued, wq_processed
          rq,       \* rq_enqueued, rq_processed, and who holds rq_mutex
          buf,      \* what each buffer holds
          queue,    \* per direction: commands of the core; n is the number of the
                    \* chunk, which the core does not see
          intr,     \* per direction: interrupts that are not handled yet
          card,     \* what each chunk of device memory holds
          call,     \* per caller: the state of its call
          fails

vars == <<phase, bufs, wq, rq, buf, queue, intr, card, call, fails>>

Slots == 0 .. Ring - 1
Buffers == {"write", "read"} \X Slots
Of(c) == {<<c, k>> : k \in 0 .. Chunks[c] - 1}

NoCounts == [requested |-> 0, enqueued |-> 0, processed |-> 0]

Init ==
  /\ phase = "off" /\ bufs = {} /\ wq = NoCounts
  /\ rq = [enqueued |-> 0, processed |-> 0, mutex |-> Nothing]
  /\ buf = [b \in Buffers |-> Nothing]
  /\ queue = [d \in {"write", "read"} |-> <<>>] /\ intr = [d \in {"write", "read"} |-> 0]
  /\ card = [x \in UNION {Of(c) : c \in Callers} |-> IF x[1] \in Readers THEN x ELSE Nothing]
  /\ call = [c \in Callers |-> [pc |-> "idle", k |-> 0, last |-> 0, asleep |-> Nothing,
                                chunks |-> [s \in Slots |-> [t_id |-> 0, k |-> Nothing]],
                                got |-> [k \in 0 .. Chunks[c] - 1 |-> Nothing]]]
  /\ fails = 0

At(c, pc) == call[c].pc = pc /\ call[c].asleep = Nothing

(* wait_event_interruptible: the caller goes on, or sleeps on q.            *)
Wait(c, q, cond, next) ==
  call' = [call EXCEPT ![c].pc = IF cond THEN next ELSE @, ![c].asleep = IF cond THEN Nothing ELSE q]

wake_up(calls, q) == [c \in Callers |-> IF calls[c].asleep = q THEN [calls[c] EXCEPT !.asleep = Nothing]
                                        ELSE calls[c]]

----------------------------------------------------------------------------
(* tlkm_dma_init, tlkm_dma_exit                                             *)

tlkm_dma_init ==
  /\ phase = "off"
  /\ phase' = "init" /\ wq' = NoCounts
  /\ UNCHANGED <<bufs, rq, buf, queue, intr, card, call, fails>>

(* The buffers for reading are allocated first, each direction in order.    *)
NextBuffer ==
  LET dir == IF \A s \in Slots : <<"read", s>> \in bufs THEN "write" ELSE "read"
  IN <<dir, CHOOSE s \in Slots : /\ <<dir, s>> \notin bufs
                                 /\ \A t \in 0 .. s - 1 : <<dir, t>> \in bufs>>

allocate_buffer ==
  /\ phase = "init"
  /\ IF bufs = Buffers THEN phase' = "up" /\ UNCHANGED <<bufs, buf>>
     ELSE /\ bufs' = bufs \cup {NextBuffer}
          /\ buf' = [buf EXCEPT ![NextBuffer] = Nothing]   \* cleared
          /\ UNCHANGED phase
  /\ UNCHANGED <<wq, rq, queue, intr, card, call, fails>>

(* err_dma_bufs_write, err_dma_bufs_read: what was allocated is freed.      *)
free_buffers ==
  LET n == Cardinality({b \in bufs : b[1] = "write"})
      m == IF n > 0 THEN Ring ELSE Cardinality({b \in bufs : b[1] = "read"})
  IN bufs \ ({<<"write", s>> : s \in 0 .. n - 1} \cup {<<"read", s>> : s \in 0 .. m - 1})

AllocateFails ==
  /\ phase = "init" /\ bufs # Buffers
  /\ phase' = "off" /\ bufs' = free_buffers
  /\ UNCHANGED <<wq, rq, buf, queue, intr, card, call, fails>>

(* The device goes when nobody uses it.                                     *)
tlkm_dma_exit ==
  /\ phase = "up" /\ \A c \in Callers : call[c].pc \in {"idle", "done", "failed"}
  /\ phase' = "off" /\ bufs' = {} /\ wq' = NoCounts
  /\ rq' = [enqueued |-> 0, processed |-> 0, mutex |-> Nothing]
  /\ UNCHANGED <<buf, queue, intr, card, call, fails>>

----------------------------------------------------------------------------
(* tlkm_dma_copy_to                                                         *)

Slot(c) == <<"write", call[c].last % Ring>>

Begin(c) ==
  /\ phase = "up" /\ At(c, "idle")
  /\ call' = [call EXCEPT ![c].pc = IF c \in Misaligned THEN "failed"
                                    ELSE IF c \in Writers THEN "request" ELSE "lock"]
  /\ UNCHANGED <<phase, bufs, wq, rq, buf, queue, intr, card, fails>>

Request(w) ==
  /\ At(w, "request")
  /\ wq' = [wq EXCEPT !.requested = @ + 1]
  /\ call' = [call EXCEPT ![w].last = wq.requested, ![w].pc = "free"]
  /\ UNCHANGED <<phase, bufs, rq, buf, queue, intr, card, fails>>

(* Mutant: one chunk too early.                                             *)
WaitForAnyBuffer(w) ==
  /\ At(w, "free")
  /\ Wait(w, "wq", wq.processed + Ring >= call[w].last, "copy")
  /\ UNCHANGED <<phase, bufs, wq, rq, buf, queue, intr, card, fails>>

WaitForBuffer(w) ==
  /\ At(w, "free")
  /\ Wait(w, "wq", wq.processed + Ring > call[w].last, "copy")
  /\ UNCHANGED <<phase, bufs, wq, rq, buf, queue, intr, card, fails>>

CopyFromUser(w) ==
  /\ At(w, "copy")
  /\ buf' = [buf EXCEPT ![Slot(w)] = <<w, call[w].k>>]
  /\ call' = [call EXCEPT ![w].pc = "turn"]
  /\ UNCHANGED <<phase, bufs, wq, rq, queue, intr, card, fails>>

CopyFromUserFails(w) ==
  /\ At(w, "copy") /\ fails < MaxFails
  /\ fails' = fails + 1
  /\ call' = [call EXCEPT ![w].pc = "err_turn"]
  /\ UNCHANGED <<phase, bufs, wq, rq, buf, queue, intr, card>>

Next_k(w) == [call EXCEPT ![w].k = @ + 1,
                          ![w].pc = IF call[w].k + 1 < Chunks[w] THEN "request" ELSE "last"]

(* blue_dma_copy_to under regs_mutex; only the writer whose turn it is gets *)
(* here, so that the command and the count are one step.                    *)
blue_dma_copy_to(w) ==
  /\ queue' = [queue EXCEPT !["write"] = Append(@, [slot |-> Slot(w), at |-> <<w, call[w].k>>, n |-> call[w].last])]
  /\ wq' = [wq EXCEPT !.enqueued = @ + 1]

(* Mutant: nobody is woken.                                                 *)
EnqueueSilently(w) ==
  /\ At(w, "turn")
  /\ IF wq.enqueued = call[w].last
     THEN blue_dma_copy_to(w) /\ call' = Next_k(w)
     ELSE call' = [call EXCEPT ![w].asleep = "wq_enque"] /\ UNCHANGED <<queue, wq>>
  /\ UNCHANGED <<phase, bufs, rq, buf, intr, card, fails>>

Enqueue(w) ==
  /\ At(w, "turn")
  /\ IF wq.enqueued = call[w].last
     THEN blue_dma_copy_to(w) /\ call' = wake_up(Next_k(w), "wq_enque")
     ELSE call' = [call EXCEPT ![w].asleep = "wq_enque"] /\ UNCHANGED <<queue, wq>>
  /\ UNCHANGED <<phase, bufs, rq, buf, intr, card, fails>>

(* Mutant: the last chunk is not waited for.                                *)
WaitForAlmostLast(w) ==
  /\ At(w, "last")
  /\ Wait(w, "wq", wq.processed >= call[w].last, "done")
  /\ UNCHANGED <<phase, bufs, wq, rq, buf, queue, intr, card, fails>>

WaitForLast(w) ==
  /\ At(w, "last")
  /\ Wait(w, "wq", wq.processed > call[w].last, "done")
  /\ UNCHANGED <<phase, bufs, wq, rq, buf, queue, intr, card, fails>>

(* copy_err: the chunk is passed over when its turn comes, first in         *)
(* wq_enqueued, then in wq_processed; both waits are on wq, and nobody is   *)
(* woken.                                                                   *)
PassEnqueued(w) ==
  /\ At(w, "err_turn")
  /\ Wait(w, "wq", wq.enqueued = call[w].last, "err_last")
  /\ wq' = IF wq.enqueued = call[w].last THEN [wq EXCEPT !.enqueued = @ + 1] ELSE wq
  /\ UNCHANGED <<phase, bufs, rq, buf, queue, intr, card, fails>>

PassProcessed(w) ==
  /\ At(w, "err_last")
  /\ Wait(w, "wq", wq.processed = call[w].last, "failed")
  /\ wq' = IF wq.processed = call[w].last THEN [wq EXCEPT !.processed = @ + 1] ELSE wq
  /\ UNCHANGED <<phase, bufs, rq, buf, queue, intr, card, fails>>

----------------------------------------------------------------------------
(* tlkm_dma_copy_from                                                       *)

Lock(r) ==
  /\ At(r, "lock") /\ rq.mutex = Nothing
  /\ rq' = [enqueued |-> 0, processed |-> 0, mutex |-> r]
  /\ call' = [call EXCEPT ![r].last = 0, ![r].pc = "read"]   \* last: current_buffer, i
  /\ UNCHANGED <<phase, bufs, wq, buf, queue, intr, card, fails>>

Chunk(r) == call[r].chunks[call[r].last]

(* The chunk in the current buffer, if any, is copied to the user.          *)
Delivered(r) ==
  IF Chunk(r).k = Nothing THEN call[r].got
  ELSE [call[r].got EXCEPT ![Chunk(r).k] = buf[<<"read", call[r].last>>]]

Requested(r) ==
  [call[r] EXCEPT !.got = Delivered(r), !.k = @ + 1,
                  !.chunks = [@ EXCEPT ![call[r].last] = [t_id |-> rq.enqueued + 1, k |-> call[r].k]],
                  !.last = IF call[r].k + 1 < Chunks[r] THEN (@ + 1) % Ring ELSE 0,
                  !.pc = IF call[r].k + 1 < Chunks[r] THEN "read" ELSE "drain"]

(* The buffer is free: its chunk is delivered and the next one requested.   *)
ReadChunk(r) ==
  /\ At(r, "read")
  /\ IF rq.processed >= Chunk(r).t_id
     THEN /\ queue' = [queue EXCEPT !["read"] =
                         Append(@, [slot |-> <<"read", call[r].last>>, at |-> <<r, call[r].k>>,
                                   n |-> rq.enqueued + 1])]
          /\ rq' = [rq EXCEPT !.enqueued = @ + 1]
          /\ call' = [call EXCEPT ![r] = Requested(r)]
     ELSE call' = [call EXCEPT ![r].asleep = "rq"] /\ UNCHANGED <<queue, rq>>
  /\ UNCHANGED <<phase, bufs, wq, buf, intr, card, fails>>

Emptied(r) ==
  [call[r] EXCEPT !.got = Delivered(r), !.chunks = [@ EXCEPT ![call[r].last].k = Nothing],
                  !.last = (@ + 1) % Ring,
                  !.pc = IF call[r].last = Ring - 1 THEN "done" ELSE "drain"]

(* Mutant: the chunks are delivered without waiting.                        *)
DrainAtOnce(r) ==
  /\ At(r, "drain")
  /\ call' = [call EXCEPT ![r] = Emptied(r)]
  /\ rq' = IF call[r].last = Ring - 1 THEN [rq EXCEPT !.mutex = Nothing] ELSE rq
  /\ UNCHANGED <<phase, bufs, wq, buf, queue, intr, card, fails>>

(* All chunks are requested: the buffers are emptied one after the other.   *)
Drain(r) ==
  /\ At(r, "drain")
  /\ IF rq.processed >= Chunk(r).t_id
     THEN /\ call' = [call EXCEPT ![r] = Emptied(r)]
          /\ rq' = IF call[r].last = Ring - 1 THEN [rq EXCEPT !.mutex = Nothing] ELSE rq
     ELSE call' = [call EXCEPT ![r].asleep = "rq"] /\ UNCHANGED rq
  /\ UNCHANGED <<phase, bufs, wq, buf, queue, intr, card, fails>>

----------------------------------------------------------------------------
(* The core, and blue_dma_intr_handler_write and _read.                     *)

Transfer(d) ==
  /\ queue[d] # <<>>
  /\ LET cmd == Head(queue[d])
     IN IF d = "write" THEN card' = [card EXCEPT ![cmd.at] = buf[cmd.slot]] /\ UNCHANGED buf
        ELSE buf' = [buf EXCEPT ![cmd.slot] = card[cmd.at]] /\ UNCHANGED card
  /\ queue' = [queue EXCEPT ![d] = Tail(@)]
  /\ intr' = [intr EXCEPT ![d] = @ + 1]
  /\ UNCHANGED <<phase, bufs, wq, rq, call, fails>>

blue_dma_intr_handler(d) ==
  /\ intr[d] > 0
  /\ intr' = [intr EXCEPT ![d] = @ - 1]
  /\ IF d = "write" THEN wq' = [wq EXCEPT !.processed = @ + 1] /\ UNCHANGED rq
     ELSE rq' = [rq EXCEPT !.processed = @ + 1] /\ UNCHANGED wq
  /\ call' = wake_up(call, IF d = "write" THEN "wq" ELSE "rq")
  /\ UNCHANGED <<phase, bufs, buf, queue, card, fails>>

tlkm_dma_copy_to(w) ==
  \/ Request(w) \/ WaitForBuffer(w) \/ CopyFromUser(w) \/ Enqueue(w)
  \/ WaitForLast(w) \/ PassEnqueued(w) \/ PassProcessed(w)

tlkm_dma_copy_from(r) == Lock(r) \/ ReadChunk(r) \/ Drain(r)

Next ==
  \/ tlkm_dma_init \/ allocate_buffer \/ AllocateFails \/ tlkm_dma_exit
  \/ \E c \in Callers : Begin(c)
  \/ \E w \in Writers : tlkm_dma_copy_to(w) \/ CopyFromUserFails(w)
  \/ \E r \in Readers : tlkm_dma_copy_from(r)
  \/ \E d \in {"write", "read"} : Transfer(d) \/ blue_dma_intr_handler(d)

Fairness ==
  /\ \A w \in Writers : WF_vars(tlkm_dma_copy_to(w))
  /\ \A r \in Readers : WF_vars(ReadChunk(r) \/ Drain(r)) /\ SF_vars(Lock(r))
  /\ \A d \in {"write", "read"} : WF_vars(Transfer(d)) /\ WF_vars(blue_dma_intr_handler(d))

Spec == Init /\ [][Next]_vars /\ Fairness

----------------------------------------------------------------------------
(* The user's memory cannot be written: the call ends while transfers may   *)
(* still be under way.  The specification above leaves this out.            *)
CopyToUserFails(r) ==
  /\ call[r].pc \in {"read", "drain"} /\ call[r].asleep = Nothing /\ fails < MaxFails
  /\ rq.processed >= Chunk(r).t_id /\ Chunk(r).k # Nothing
  /\ fails' = fails + 1
  /\ rq' = [rq EXCEPT !.mutex = Nothing]
  /\ call' = [call EXCEPT ![r].pc = "failed"]
  /\ UNCHANGED <<phase, bufs, wq, buf, queue, intr, card>>

----------------------------------------------------------------------------
(* Properties *)

(* A write that returned has all its chunks in device memory, and a read    *)
(* that returned has delivered the chunks it asked for, whoever else copies *)
(* and fails in between.                                                    *)
TransfersDeliver ==
  /\ \A w \in Writers : call[w].pc = "done" => \A x \in Of(w) : card[x] = x
  /\ \A r \in Readers : call[r].pc = "done" => \A x \in Of(r) : call[r].got[x[2]] = x

(* A buffer that the core has still to read is allocated, and holds what it *)
(* held when the command was given.                                         *)
InFlightUntouched ==
  \A d \in {"write", "read"} : \A i \in DOMAIN queue[d] :
    /\ queue[d][i].slot \in bufs
    /\ d = "write" => buf[queue[d][i].slot] = queue[d][i].at
    /\ \A j \in DOMAIN queue[d] : i # j => queue[d][i].slot # queue[d][j].slot

(* Calls return, as long as no writer's memory was inaccessible.            *)
DmaCallsReturn ==
  \A c \in Callers : (call[c].pc # "idle") ~> (call[c].pc \in {"done", "failed"} \/ fails > 0)

(* tlkm_dma_copy_to, copy_err: "Still got chunk %lld, waiting to free."; a  *)
(* call that failed frees its chunk, and the others return as well.         *)
FailedCallsReturn ==
  \A c \in Callers : (call[c].pc # "idle") ~> (call[c].pc \in {"done", "failed"})
=============================================================================
