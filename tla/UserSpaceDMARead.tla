-------------------------- MODULE UserSpaceDMARead --------------------------
(***************************************************************************)
(* The device-to-host half of UserSpaceDMA (libtapasco, dma_user_space.rs): *)
(* do_copy_from, update_interrupts, release_buffer and copyback_buffer, for *)
(* memory transfers (copy_from) and stream transfers (c2h_stream), which    *)
(* share the bounce buffers.                                                *)
(*                                                                          *)
(* A chunk is a triple <<thread, call, chunks left>>.  As for the writes,   *)
(* the engine works through a channel in order and each completion adds one *)
(* to the channel's eventfd.                                                *)
(***************************************************************************)
EXTENDS Naturals, Sequences, FiniteSets

CONSTANTS Threads, Buffers, None,
          Lens,      \* lengths of a call, in chunks (an empty one does nothing)
          Calls,     \* bound: calls per thread
          Failures   \* bound: failing ioctls

Channels == {"mem", "stream"}

VARIABLES free,      \* from_dev_buffer
          cntr,      \* read_cntr, c2h_cntr
          intCntr,   \* read_int_cntr, c2h_int_cntr
          eventfd,   \* pending count of read_int, c2h_st_int
          engine,    \* transfers the engine has not completed
          memory,    \* holder of the mutex on the engine's registers
          content,   \* the chunk a bounce buffer holds for its reader
          pc, ch, left, buf, n, snap, used,   \* the call a thread is in
          calls,     \* calls a thread may still make
          lost       \* buffers dropped by failing calls

shared == <<free, cntr, intCntr, eventfd, engine, memory, content>>
vars == <<shared, pc, ch, left, buf, n, snap, used, calls, lost>>

Init == /\ free = Buffers
        /\ cntr = [c \in Channels |-> 0]
        /\ intCntr = [c \in Channels |-> 0]
        /\ eventfd = [c \in Channels |-> 0]
        /\ engine = [c \in Channels |-> <<>>]
        /\ memory = None
        /\ content = [b \in Buffers |-> None]
        /\ pc = [t \in Threads |-> "idle"]
        /\ ch = [t \in Threads |-> "mem"]
        /\ left = [t \in Threads |-> 0]
        /\ buf = [t \in Threads |-> None]
        /\ n = [t \in Threads |-> 0]
        /\ snap = [t \in Threads |-> 0]
        /\ used = [t \in Threads |-> <<>>]
        /\ calls = [t \in Threads |-> Calls]
        /\ lost = {}

Goto(t, l) == pc' = [pc EXCEPT ![t] = l]
Chunk(t) == <<t, calls[t], left[t]>>
Range(s) == {s[i] : i \in DOMAIN s}

\* The call is over, its locals are gone
Return(t) == /\ Goto(t, "idle")
             /\ ch' = [ch EXCEPT ![t] = "mem"]
             /\ left' = [left EXCEPT ![t] = 0]
             /\ buf' = [buf EXCEPT ![t] = None]
             /\ snap' = [snap EXCEPT ![t] = 0]
             /\ used' = [used EXCEPT ![t] = <<>>]

Start(t) ==
  /\ pc[t] = "idle" /\ calls[t] > 0
  /\ \E c \in Channels, len \in Lens : /\ ch' = [ch EXCEPT ![t] = c]
                                       /\ left' = [left EXCEPT ![t] = len]
  /\ calls' = [calls EXCEPT ![t] = @ - 1]
  /\ Goto(t, "check")
  /\ UNCHANGED <<shared, buf, n, snap, used, lost>>

\* update_interrupts: check_for_interrupt reads and resets the eventfd ...
Check(t) ==
  /\ pc[t] = "check"
  /\ n' = [n EXCEPT ![t] = eventfd[ch[t]]]
  /\ eventfd' = [eventfd EXCEPT ![ch[t]] = 0]
  /\ Goto(t, "add")
  /\ UNCHANGED <<free, cntr, intCntr, engine, memory, content, ch, left, buf,
                 snap, used, calls, lost>>

\* Variant of Add that counts one interrupt however many the read returned
AddOne(t) ==
  /\ pc[t] = "add"
  /\ intCntr' = [intCntr EXCEPT ![ch[t]] = @ + (IF n[t] > 0 THEN 1 ELSE 0)]
  /\ n' = [n EXCEPT ![t] = 0]
  /\ \/ /\ left[t] > 0 \/ used[t] # <<>>
        /\ Goto(t, "load")
        /\ UNCHANGED <<ch, left, buf, snap, used>>
     \/ /\ left[t] = 0 /\ used[t] = <<>>
        /\ Return(t)
  /\ UNCHANGED <<free, cntr, eventfd, engine, memory, content, calls, lost>>

\* ... and fetch_add makes the count public; the final loop ends when no
\* buffer is in use
Add(t) ==
  /\ pc[t] = "add"
  /\ intCntr' = [intCntr EXCEPT ![ch[t]] = @ + n[t]]
  /\ n' = [n EXCEPT ![t] = 0]
  /\ \/ /\ left[t] > 0 \/ used[t] # <<>>
        /\ Goto(t, "load")
        /\ UNCHANGED <<ch, left, buf, snap, used>>
     \/ /\ left[t] = 0 /\ used[t] = <<>>
        /\ Return(t)
  /\ UNCHANGED <<free, cntr, eventfd, engine, memory, content, calls, lost>>

\* release_buffer: int_cntr_used
Load(t) ==
  /\ pc[t] = "load"
  /\ snap' = [snap EXCEPT ![t] = intCntr[ch[t]]]
  /\ Goto(t, "release")
  /\ UNCHANGED <<shared, ch, left, buf, n, used, calls, lost>>

\* Variant of Releasable with the comparison off by one
ReleasableEarly(t) == used[t] # <<>> /\ Head(used[t]).cntr <= snap[t]

\* The oldest transfer of this call is counted as complete
Releasable(t) == used[t] # <<>> /\ Head(used[t]).cntr < snap[t]

\* copyback_buffer of the oldest transfer, whose buffer is free again
Release(t) ==
  /\ pc[t] = "release" /\ Releasable(t)
  /\ free' = free \cup {Head(used[t]).buf}
  /\ content' = [content EXCEPT ![Head(used[t]).buf] = None]
  /\ used' = [used EXCEPT ![t] = Tail(@)]
  /\ UNCHANGED <<cntr, intCntr, eventfd, engine, memory, pc, ch, left,
                 buf, n, snap, calls, lost>>

\* The loop of release_buffer ends
Released(t) ==
  /\ pc[t] = "release" /\ ~ Releasable(t)
  /\ snap' = [snap EXCEPT ![t] = 0]
  /\ Goto(t, IF left[t] > 0 THEN "steal" ELSE "check")
  /\ UNCHANGED <<shared, ch, left, buf, n, used, calls, lost>>

Steal(t) ==
  /\ pc[t] = "steal"
  /\ \/ /\ \E b \in free : /\ buf' = [buf EXCEPT ![t] = b]
                           /\ free' = free \ {b}
        /\ Goto(t, "sync")
     \/ /\ free = {}
        /\ Goto(t, "check")
        /\ UNCHANGED <<free, buf>>
  /\ UNCHANGED <<cntr, intCntr, eventfd, engine, memory, content, ch, left, n,
                 snap, used, calls, lost>>

\* tlkm_ioctl_dma_buffer_to_dev, then the engine's mutex
SyncAndLock(t) ==
  /\ pc[t] = "sync" /\ memory = None
  /\ memory' = t
  /\ Goto(t, "schedule")
  /\ UNCHANGED <<free, cntr, intCntr, eventfd, engine, content, ch, left, buf,
                 n, snap, used, calls, lost>>

Schedule(t) ==
  /\ pc[t] = "schedule"
  /\ engine' = [engine EXCEPT ![ch[t]] =
                  Append(@, [buf |-> buf[t], chunk |-> Chunk(t)])]
  /\ Goto(t, "unlock")
  /\ UNCHANGED <<free, cntr, intCntr, eventfd, memory, content, ch, left, buf,
                 n, snap, used, calls, lost>>

\* cntr.fetch_add(1), end of the critical section, used_buffers.push
CountAndUnlock(t) ==
  /\ pc[t] = "unlock"
  /\ used' = [used EXCEPT ![t] = Append(@, [cntr |-> cntr[ch[t]], buf |-> buf[t],
                                            chunk |-> Chunk(t)])]
  /\ cntr' = [cntr EXCEPT ![ch[t]] = @ + 1]
  /\ memory' = None
  /\ buf' = [buf EXCEPT ![t] = None]
  /\ left' = [left EXCEPT ![t] = @ - 1]
  /\ Goto(t, IF left[t] > 1 THEN "check" ELSE "load")
  /\ UNCHANGED <<free, intCntr, eventfd, engine, content, ch, n, snap, calls, lost>>

\* Variant of IoctlFails that returns the call's buffers to the free list
\* instead of dropping them
IoctlFailsFreeing(t) ==
  /\ Cardinality(lost) < Failures
  /\ pc[t] = "sync" \/ (pc[t] = "release" /\ Releasable(t))
  /\ free' = free \cup {e.buf : e \in Range(used[t])} \cup ({buf[t]} \ {None})
  /\ Return(t)
  /\ UNCHANGED <<cntr, intCntr, eventfd, engine, memory, content, n, calls, lost>>

\* The ioctl of copyback_buffer or the one before the transfer fails: the
\* call returns the error and drops every buffer it uses, those in flight too
IoctlFails(t) ==
  /\ Cardinality(lost) < Failures
  /\ pc[t] = "sync" \/ (pc[t] = "release" /\ Releasable(t))
  /\ lost' = lost \cup {e.buf : e \in Range(used[t])} \cup ({buf[t]} \ {None})
  /\ Return(t)
  /\ UNCHANGED <<shared, n, calls>>

\* The engine finishes its oldest transfer on channel c and interrupts
Complete(c) ==
  /\ engine[c] # <<>>
  /\ content' = [content EXCEPT ![Head(engine[c]).buf] = Head(engine[c]).chunk]
  /\ engine' = [engine EXCEPT ![c] = Tail(@)]
  /\ eventfd' = [eventfd EXCEPT ![c] = @ + 1]
  /\ UNCHANGED <<free, cntr, intCntr, memory, pc, ch, left, buf, n, snap, used,
                 calls, lost>>

\* Every thread has made its calls (keeps the end apart from a deadlock)
Done == /\ \A t \in Threads : pc[t] = "idle" /\ calls[t] = 0
        /\ \A c \in Channels : engine[c] = <<>>
        /\ UNCHANGED vars

ThreadStep(t) == \/ Check(t) \/ Add(t) \/ Load(t) \/ Release(t) \/ Released(t)
                 \/ Steal(t) \/ SyncAndLock(t) \/ Schedule(t) \/ CountAndUnlock(t)

Next == \/ \E t \in Threads : Start(t) \/ ThreadStep(t) \/ IoctlFails(t)
        \/ \E c \in Channels : Complete(c)
        \/ Done

Spec == Init /\ [][Next]_vars

\* A thread inside a call keeps running, and the engine keeps working.
FairSpec == /\ Spec
            /\ \A t \in Threads : WF_vars(ThreadStep(t))
            /\ \A c \in Channels : WF_vars(Complete(c))

-----------------------------------------------------------------------------

Transfers == [buf : Buffers, chunk : Threads \X Nat \X Nat]

TypeOK ==
  /\ free \subseteq Buffers /\ lost \subseteq Buffers
  /\ cntr \in [Channels -> Nat] /\ intCntr \in [Channels -> Nat]
  /\ eventfd \in [Channels -> Nat]
  /\ engine \in [Channels -> Seq(Transfers)]
  /\ memory \in Threads \cup {None}
  /\ content \in [Buffers -> (Threads \X Nat \X Nat) \cup {None}]
  /\ pc \in [Threads -> {"idle", "check", "add", "load", "release", "steal",
                         "sync", "schedule", "unlock"}]
  /\ ch \in [Threads -> Channels] /\ left \in [Threads -> Nat]
  /\ buf \in [Threads -> Buffers \cup {None}] /\ n \in [Threads -> Nat]
  /\ snap \in [Threads -> Nat] /\ calls \in [Threads -> Nat]
  /\ used \in [Threads -> Seq([cntr : Nat, buf : Buffers,
                               chunk : Threads \X Nat \X Nat])]

\* release_buffer copies a bounce buffer to the caller only when it holds the
\* chunk the caller asked for: the interrupts counted so far, by whichever
\* threads, cover this transfer and every transfer scheduled before it.
ReadsOwnData ==
  \A t \in Threads :
    pc[t] = "release" /\ Releasable(t) =>
      content[Head(used[t]).buf] = Head(used[t]).chunk

\* A buffer the engine is to write to is not free, is used by one call (or
\* was dropped by a call that failed) and by no second transfer.
InFlightReserved ==
  LET flight == {<<c, i>> \in Channels \X (1 .. Cardinality(Buffers)) : i \in DOMAIN engine[c]}
      B(x) == engine[x[1]][x[2]].buf
  IN /\ TypeOK
     /\ \A x \in flight : B(x) \notin free
     /\ \A x, y \in flight : B(x) = B(y) => x = y
     /\ \A x \in flight : \/ B(x) \in lost
                          \/ \E t \in Threads : \/ buf[t] = B(x)
                                                \/ \E e \in Range(used[t]) : e.buf = B(x)

\* Every call returns as long as no ioctl fails.  A read that fails drops
\* the buffers it holds, and the pool may run dry.
CallsReturn == [](lost = {}) => \A t \in Threads : pc[t] # "idle" ~> pc[t] = "idle"
=============================================================================
