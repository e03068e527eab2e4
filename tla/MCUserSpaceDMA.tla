--------------------------- MODULE MCUserSpaceDMA ---------------------------
(***************************************************************************)
(* Both halves of UserSpaceDMA: two threads, each in a call of one or three *)
(* chunks, and two buffers, so that the threads run out of buffers, use     *)
(* them again, and handle each other's interrupts.  The halves have buffers *)
(* and counters of their own and share only the mutex, which no thread      *)
(* keeps; half says which of them a behaviour is about.                     *)
(***************************************************************************)
EXTENDS UserSpaceDMAWrite

VARIABLES snap, used, lost,   \* see UserSpaceDMARead
          half

Read == INSTANCE UserSpaceDMARead

writeLocals == <<out, high, failures>>
readLocals == <<snap, used, lost>>

DmaInit == /\ half \in {"write", "read"}
           /\ Init /\ Read!Init

WriteStep(t) == half = "write" /\ ThreadStep(t) /\ UNCHANGED <<readLocals, half>>
ReadStep(t) == half = "read" /\ Read!ThreadStep(t) /\ UNCHANGED <<writeLocals, half>>
WriteComplete(c) == half = "write" /\ Complete(c) /\ UNCHANGED <<readLocals, half>>
ReadComplete(c) == half = "read" /\ Read!Complete(c) /\ UNCHANGED <<writeLocals, half>>

DmaNext == \/ half = "write" /\ Next /\ UNCHANGED <<readLocals, half>>
           \/ half = "read" /\ Read!Next /\ UNCHANGED <<writeLocals, half>>

\* A thread inside a call keeps running, and the engine keeps working.
DmaSpec == /\ DmaInit /\ [][DmaNext]_<<vars, readLocals, half>>
           /\ \A t \in Threads : /\ WF_<<vars, readLocals>>(WriteStep(t))
                                 /\ WF_<<vars, readLocals>>(ReadStep(t))
           /\ \A c \in Channels : /\ WF_<<vars, readLocals>>(WriteComplete(c))
                                  /\ WF_<<vars, readLocals>>(ReadComplete(c))

-----------------------------------------------------------------------------

\* The engine reads from a bounce buffer the chunk that was put there for the
\* transfer; no buffer is in two places or disappears but by a failing ioctl,
\* and wait_for_write never finds the queue of outstanding buffers empty.
WriteBuffersKept ==
  half = "write" => InFlightUntouched /\ BuffersConserved /\ NeverTooManyInterrupts

\* release_buffer copies a bounce buffer to the caller only when it holds the
\* chunk the caller asked for, and a buffer the engine is to write to is not
\* free and is used by one call and one transfer only.
ReadsOwnData == half = "read" => Read!ReadsOwnData /\ Read!InFlightReserved

\* Every call returns as long as no ioctl fails: one that fails drops the
\* buffers it holds, and the pool may run dry.
TransfersReturn ==
  [](failures = Failures /\ lost = {}) =>
    \A t \in Threads : pc[t] # "idle" ~> pc[t] = "idle"
=============================================================================
