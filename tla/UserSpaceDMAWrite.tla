------------------------- MODULE UserSpaceDMAWrite -------------------------
(***************************************************************************)
(* The host-to-device half of UserSpaceDMA (libtapasco, dma_user_space.rs): *)
(* do_copy_to and wait_for_write, called by any number of threads, for      *)
(* memory transfers (copy_to) and stream transfers (h2c_stream), which      *)
(* share the bounce buffers and the engine's registers.                     *)
(*                                                                          *)
(* A call moves its data in chunks of one bounce buffer.  A chunk is a      *)
(* triple <<thread, call, chunks left>>.  The DMA engine and the kernel's   *)
(* interrupt path are external: the engine works through the transfers of   *)
(* a channel in order and each completion adds one to the channel's         *)
(* eventfd.                                                                 *)
(***************************************************************************)
EXTENDS Naturals, Sequences, SequencesExt, FiniteSets

CONSTANTS Threads, Buffers, None,
          Lens,      \* lengths of a call, in chunks
          Calls,     \* bound: calls per thread
          Failures   \* bound: failing ioctls

Channels == {"mem", "stream"}

VARIABLES free,      \* to_dev_buffer
          out,       \* write_out, h2c_out
          cntr,      \* write_cntr, h2c_cntr
          intCntr,   \* write_int_cntr, h2c_int_cntr
          eventfd,   \* pending count of write_int, h2c_st_int
          engine,    \* transfers the engine has not completed
          memory,    \* holder of the mutex on the engine's registers
          content,   \* what a bounce buffer holds
          pc, ch, left, high, buf, n,   \* the call a thread is in
          calls,     \* calls a thread may still make
          failures   \* ioctls that may still fail

shared == <<free, out, cntr, intCntr, eventfd, engine, memory, content>>
vars == <<shared, pc, ch, left, high, buf, n, calls, failures>>

Init == /\ free = Buffers
        /\ out = [c \in Channels |-> <<>>]
        /\ cntr = [c \in Channels |-> 0]
        /\ intCntr = [c \in Channels |-> 0]
        /\ eventfd = [c \in Channels |-> 0]
        /\ engine = [c \in Channels |-> <<>>]
        /\ memory = None
        /\ content = [b \in Buffers |-> None]
        /\ pc = [t \in Threads |-> "idle"]
        /\ ch = [t \in Threads |-> "mem"]
        /\ left = [t \in Threads |-> 0]
        /\ high = [t \in Threads |-> 0]
        /\ buf = [t \in Threads |-> None]
        /\ n = [t \in Threads |-> 0]
        /\ calls = [t \in Threads |-> Calls]
        /\ failures = Failures

Goto(t, l) == pc' = [pc EXCEPT ![t] = l]
Chunk(t) == <<t, calls[t], left[t]>>

\* The call is over, its locals are gone
Return(t) == /\ Goto(t, "idle")
             /\ ch' = [ch EXCEPT ![t] = "mem"]
             /\ left' = [left EXCEPT ![t] = 0]
             /\ high' = [high EXCEPT ![t] = 0]
             /\ buf' = [buf EXCEPT ![t] = None]

\* do_copy_to is entered with len chunks on channel c; highest_used is 0
Start(t) ==
  /\ pc[t] = "idle" /\ calls[t] > 0
  /\ \E c \in Channels, len \in Lens : /\ ch' = [ch EXCEPT ![t] = c]
                                       /\ left' = [left EXCEPT ![t] = len]
  /\ calls' = [calls EXCEPT ![t] = @ - 1]
  /\ Goto(t, "steal")
  /\ UNCHANGED <<shared, high, buf, n, failures>>

\* to_dev_buffer.steal(); with nothing left to send, the final wait
Steal(t) ==
  /\ pc[t] = "steal"
  /\ \/ /\ left[t] > 0
        /\ \E b \in free : /\ buf' = [buf EXCEPT ![t] = b]
                           /\ free' = free \ {b}
        /\ Goto(t, "fill")
     \/ /\ left[t] = 0 \/ free = {}
        /\ Goto(t, "wait")
        /\ UNCHANGED <<free, buf>>
  /\ UNCHANGED <<out, cntr, intCntr, eventfd, engine, memory, content, ch,
                 left, high, n, calls, failures>>

\* The two synchronising ioctls around the copy into the bounce buffer
Fill(t) ==
  /\ pc[t] = "fill"
  /\ content' = [content EXCEPT ![buf[t]] = Chunk(t)]
  /\ Goto(t, "lock")
  /\ UNCHANGED <<free, out, cntr, intCntr, eventfd, engine, memory, ch, left,
                 high, buf, n, calls, failures>>

\* One of the ioctls fails: the call returns, its bounce buffer is dropped
FillFails(t) ==
  /\ pc[t] = "fill" /\ failures > 0
  /\ failures' = failures - 1
  /\ Return(t)
  /\ UNCHANGED <<shared, n, calls>>

\* Variant of LockAndPush that pushes before it takes the mutex
PushUnlocked(t) ==
  /\ pc[t] = "lock"
  /\ out' = [out EXCEPT ![ch[t]] = Append(@, buf[t])]
  /\ Goto(t, "schedule")
  /\ UNCHANGED <<free, cntr, intCntr, eventfd, engine, memory, content, ch,
                 left, high, buf, n, calls, failures>>

\* self.memory.lock() and the push to write_out or h2c_out
LockAndPush(t) ==
  /\ pc[t] = "lock" /\ memory = None
  /\ memory' = t
  /\ out' = [out EXCEPT ![ch[t]] = Append(@, buf[t])]
  /\ Goto(t, "schedule")
  /\ UNCHANGED <<free, cntr, intCntr, eventfd, engine, content, ch, left,
                 high, buf, n, calls, failures>>

\* schedule_dma_transfer: the write of the command starts the transfer
Schedule(t) ==
  /\ pc[t] = "schedule"
  /\ engine' = [engine EXCEPT ![ch[t]] =
                  Append(@, [buf |-> buf[t], chunk |-> Chunk(t)])]
  /\ buf' = [buf EXCEPT ![t] = None]
  /\ Goto(t, "unlock")
  /\ UNCHANGED <<free, out, cntr, intCntr, eventfd, memory, content, ch, left,
                 high, n, calls, failures>>

\* Variant of CountAndUnlock that takes the counter after the increment
CountAfter(t) ==
  /\ pc[t] = "unlock"
  /\ high' = [high EXCEPT ![t] = cntr[ch[t]] + 1]
  /\ cntr' = [cntr EXCEPT ![ch[t]] = @ + 1]
  /\ memory' = None
  /\ left' = [left EXCEPT ![t] = @ - 1]
  /\ Goto(t, "steal")
  /\ UNCHANGED <<free, out, intCntr, eventfd, engine, content, ch, buf, n,
                 calls, failures>>

\* highest_used = cntr.fetch_add(1); the guard is dropped; the next chunk
CountAndUnlock(t) ==
  /\ pc[t] = "unlock"
  /\ high' = [high EXCEPT ![t] = cntr[ch[t]]]
  /\ cntr' = [cntr EXCEPT ![ch[t]] = @ + 1]
  /\ memory' = None
  /\ left' = [left EXCEPT ![t] = @ - 1]
  /\ Goto(t, "steal")
  /\ UNCHANGED <<free, out, intCntr, eventfd, engine, content, ch, buf, n,
                 calls, failures>>

\* Variant of MustWait with the comparison off by one
MustWaitShort(t) == IF left[t] > 0 THEN free = {} ELSE intCntr[ch[t]] < high[t]

\* The loop condition of wait_for_write: next is TRUE while chunks are left
MustWait(t) == IF left[t] > 0 THEN free = {} ELSE intCntr[ch[t]] <= high[t]

Wait(t) ==
  /\ pc[t] = "wait"
  /\ \/ /\ MustWait(t) \/ left[t] > 0
        /\ Goto(t, IF MustWait(t) THEN "poll" ELSE "steal")
        /\ UNCHANGED <<ch, left, high, buf>>
     \/ /\ ~ MustWait(t) /\ left[t] = 0
        /\ Return(t)
  /\ UNCHANGED <<shared, n, calls, failures>>

\* check_for_interrupt: the read returns the eventfd's count and resets it
Poll(t) ==
  /\ pc[t] = "poll"
  /\ n' = [n EXCEPT ![t] = eventfd[ch[t]]]
  /\ eventfd' = [eventfd EXCEPT ![ch[t]] = 0]
  /\ Goto(t, IF eventfd[ch[t]] > 0 THEN "count" ELSE "wait")
  /\ UNCHANGED <<free, out, cntr, intCntr, engine, memory, content, ch, left,
                 high, buf, calls, failures>>

CountInterrupt(t) ==
  /\ pc[t] = "count"
  /\ intCntr' = [intCntr EXCEPT ![ch[t]] = @ + 1]
  /\ Goto(t, "pop")
  /\ UNCHANGED <<free, out, cntr, eventfd, engine, memory, content, ch, left,
                 high, buf, n, calls, failures>>

\* Variant of Pop that does not give the buffer back
PopOnly(t) ==
  /\ pc[t] = "pop"
  /\ \/ /\ out[ch[t]] # <<>>
        /\ out' = [out EXCEPT ![ch[t]] = Tail(@)]
        /\ n' = [n EXCEPT ![t] = @ - 1]
        /\ Goto(t, IF n[t] > 1 THEN "count" ELSE "wait")
     \/ /\ out[ch[t]] = <<>>
        /\ Goto(t, "TooManyInterrupts")
        /\ UNCHANGED <<out, n>>
  /\ UNCHANGED <<free, cntr, intCntr, eventfd, engine, memory, content, ch, left,
                 high, buf, calls, failures>>

\* Variant of Pop that goes once more through the loop
PopOneMore(t) ==
  /\ pc[t] = "pop"
  /\ \/ /\ out[ch[t]] # <<>>
        /\ free' = free \cup {Head(out[ch[t]])}
        /\ out' = [out EXCEPT ![ch[t]] = Tail(@)]
        /\ n' = [n EXCEPT ![t] = @ - 1]
        /\ Goto(t, IF n[t] >= 1 THEN "count" ELSE "wait")
     \/ /\ out[ch[t]] = <<>>
        /\ Goto(t, "TooManyInterrupts")
        /\ UNCHANGED <<free, out, n>>
  /\ UNCHANGED <<cntr, intCntr, eventfd, engine, memory, content, ch, left,
                 high, buf, calls, failures>>

\* queue.pop() and the push of the buffer to to_dev_buffer
Pop(t) ==
  /\ pc[t] = "pop"
  /\ \/ /\ out[ch[t]] # <<>>
        /\ free' = free \cup {Head(out[ch[t]])}
        /\ out' = [out EXCEPT ![ch[t]] = Tail(@)]
        /\ n' = [n EXCEPT ![t] = @ - 1]
        /\ Goto(t, IF n[t] > 1 THEN "count" ELSE "wait")
     \/ /\ out[ch[t]] = <<>>
        /\ Goto(t, "TooManyInterrupts")
        /\ UNCHANGED <<free, out, n>>
  /\ UNCHANGED <<cntr, intCntr, eventfd, engine, memory, content, ch, left,
                 high, buf, calls, failures>>

\* The engine finishes its oldest transfer on channel c and interrupts
Complete(c) ==
  /\ engine[c] # <<>>
  /\ engine' = [engine EXCEPT ![c] = Tail(@)]
  /\ eventfd' = [eventfd EXCEPT ![c] = @ + 1]
  /\ UNCHANGED <<free, out, cntr, intCntr, memory, content, pc, ch, left, high,
                 buf, n, calls, failures>>

\* Every thread has made its calls (keeps the end apart from a deadlock)
Done == /\ \A t \in Threads : pc[t] = "idle" /\ calls[t] = 0
        /\ \A c \in Channels : engine[c] = <<>>
        /\ UNCHANGED vars

ThreadStep(t) == \/ Steal(t) \/ Fill(t) \/ LockAndPush(t)
                 \/ Schedule(t) \/ CountAndUnlock(t) \/ Wait(t) \/ Poll(t)
                 \/ CountInterrupt(t) \/ Pop(t)

Next == \/ \E t \in Threads : Start(t) \/ ThreadStep(t) \/ FillFails(t)
        \/ \E c \in Channels : Complete(c)
        \/ Done

Spec == Init /\ [][Next]_vars

\* A thread inside a call keeps running, and the engine keeps working.
FairSpec == /\ Spec
            /\ \A t \in Threads : WF_vars(ThreadStep(t))
            /\ \A c \in Channels : WF_vars(Complete(c))
-----------------------------------------------------------------------------

Labels == {"idle", "steal", "fill", "lock", "schedule", "unlock", "wait",
           "poll", "count", "pop", "TooManyInterrupts"}

TypeOK ==
  /\ free \subseteq Buffers
  /\ out \in [Channels -> Seq(Buffers)]
  /\ cntr \in [Channels -> Nat] /\ intCntr \in [Channels -> Nat]
  /\ eventfd \in [Channels -> Nat]
  /\ engine \in [Channels -> Seq([buf : Buffers, chunk : Threads \X Nat \X Nat])]
  /\ memory \in Threads \cup {None}
  /\ content \in [Buffers -> (Threads \X Nat \X Nat) \cup {None}]
  /\ pc \in [Threads -> Labels] /\ ch \in [Threads -> Channels]
  /\ left \in [Threads -> Nat] /\ high \in [Threads -> Nat]
  /\ buf \in [Threads -> Buffers \cup {None}] /\ n \in [Threads -> Nat]
  /\ calls \in [Threads -> Nat] /\ failures \in Nat

\* wait_for_write never finds the queue of outstanding buffers empty: "Got
\* interrupt but outstanding buffers are empty. This should never happen."
NeverTooManyInterrupts == \A t \in Threads : pc[t] # "TooManyInterrupts"

\* The engine reads from a bounce buffer the chunk that was put there for the
\* transfer: the buffer of a transfer in flight is in no free list and no
\* other call has written to it.
InFlightUntouched ==
  \A c \in Channels : \A i \in DOMAIN engine[c] :
    /\ engine[c][i].buf \notin free
    /\ content[engine[c][i].buf] = engine[c][i].chunk

\* Where a bounce buffer is.
InOut(b) == {c \in Channels : Contains(out[c], b)}
Private(b) == {t \in Threads : buf[t] = b /\ pc[t] \in {"fill", "lock"}}

\* No bounce buffer is in two places, in no queue twice, and none but those
\* dropped by failing ioctls disappears.
BuffersConserved ==
  /\ TypeOK
  /\ \A c \in Channels : IsInjective(out[c])
  /\ \A b \in Buffers : Cardinality(InOut(b)) + Cardinality(Private(b))
                           + Cardinality(free \cap {b}) <= 1
  /\ Cardinality({b \in Buffers : b \notin free /\ InOut(b) = {} /\ Private(b) = {}})
       = Failures - failures

\* "The methods will block and the transfer is assumed complete when they
\* return": a call that returns without an error has no transfer left in the
\* engine.
ReturnsComplete ==
  [][\A t \in Threads :
       pc[t] = "wait" /\ pc'[t] = "idle" =>
         \A i \in DOMAIN engine[ch[t]] : engine[ch[t]][i].chunk[1] # t]_vars

\* Every call returns as long as no ioctl fails.  A write that fails
\* leaves buffers behind that nobody waits for, and the pool may run dry.
CallsReturn == [](failures = Failures) => \A t \in Threads : pc[t] # "idle" ~> pc[t] = "idle"
=============================================================================
