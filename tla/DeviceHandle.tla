---------------------------- MODULE DeviceHandle ----------------------------
(***************************************************************************)
(* libtapasco's Device on top of the kernel's access modes (device.rs):     *)
(* several processes, each with its own TLKM file, Device object and        *)
(* scheduler, that all drive the same hardware.  Nothing but exclusive      *)
(* access keeps two of them off one processing element.  The model follows  *)
(* one PE; a process has one Device, and TLKM is DeviceAccess.              *)
(***************************************************************************)
EXTENDS FiniteSets

CONSTANTS Files, Entries, None, SizeMax,
          Disciplined   \* jobs are released before access is given up, and no
                        \* process is killed while its PE runs

VARIABLES ref_cnt, list, access, state, answer,   \* see DeviceAccess
          dev,      \* Device.access; "types" (TlkmAccessTypes): none
          want,     \* the mode a change_access still has to create, or None
          job,      \* a process has no Job, holds one, or has started its PE
          running,  \* hardware: the processes whose start the PE executes
          status    \* hardware: the PE's interrupt status register

TLKM == INSTANCE DeviceAccess
Access == TLKM!Access

kernel == <<ref_cnt, list, access, state, answer>>
vars == <<kernel, dev, want, job, running, status>>

Init == /\ TLKM!Init
        /\ dev = [f \in Files |-> "types"]
        /\ want = [f \in Files |-> None]
        /\ job = [f \in Files |-> "none"]
        /\ running = {} /\ status = FALSE

Ready(f) == state[f] = "open" /\ want[f] = None

-----------------------------------------------------------------------------

\* TLKM::new and Device::new, which ends with change_access(Monitor)
New(f) == /\ TLKM!Open(f)
          /\ want' = [want EXCEPT ![f] = "monitor"]
          /\ UNCHANGED <<dev, job, running, status>>

\* Variant of change_access that does not give up the old mode
change_access_keeping(f, a) ==
  /\ Ready(f) /\ dev[f] # a
  /\ Disciplined => job[f] = "none"
  /\ dev' = [dev EXCEPT ![f] = "types"]
  /\ want' = [want EXCEPT ![f] = a]
  /\ UNCHANGED <<kernel, job, running, status>>

\* change_access up to its destroy: without access there is nothing to give up
change_access(f, a) ==
  /\ Ready(f) /\ dev[f] # a
  /\ Disciplined => job[f] = "none"
  /\ \/ dev[f] = "types" /\ UNCHANGED kernel
     \/ dev[f] # "types" /\ TLKM!Destroy(f, dev[f])
  /\ dev' = [dev EXCEPT ![f] = "types"]
  /\ want' = [want EXCEPT ![f] = a]
  /\ UNCHANGED <<job, running, status>>

\* Variant of create that does not reset the interrupts
create_no_reset(f) ==
  /\ state[f] = "open" /\ want[f] # None
  /\ TLKM!Create(f, want[f])
  /\ dev' = [dev EXCEPT ![f] =
              IF answer'[f] = <<"granted", want[f]>> THEN want[f] ELSE "types"]
  /\ want' = [want EXCEPT ![f] = None]
  /\ UNCHANGED <<job, running, status>>

\* ... and its create ioctl; when it fails, the Device has no access left.
\* With exclusive access the scheduler resets the interrupts of its idle PEs.
create(f) ==
  /\ state[f] = "open" /\ want[f] # None
  /\ TLKM!Create(f, want[f])
  /\ dev' = [dev EXCEPT ![f] =
              IF answer'[f] = <<"granted", want[f]>> THEN want[f] ELSE "types"]
  /\ want' = [want EXCEPT ![f] = None]
  /\ status' = (status /\ ~ (dev'[f] = "exclusive" /\ job[f] = "none"))
  /\ UNCHANGED <<job, running>>

\* Variant of acquire_pe without check_exclusive_access
acquire_pe_unchecked(f) ==
  /\ Ready(f) /\ job[f] = "none"
  /\ job' = [job EXCEPT ![f] = "held"]
  /\ UNCHANGED <<kernel, dev, want, running, status>>

\* acquire_pe, with check_exclusive_access
acquire_pe(f) ==
  /\ Ready(f) /\ job[f] = "none" /\ dev[f] = "exclusive"
  /\ job' = [job EXCEPT ![f] = "held"]
  /\ UNCHANGED <<kernel, dev, want, running, status>>

\* Job::start: a job is not connected to its Device any more, and may be used
\* by another thread than the one that changes the access
start(f) == /\ state[f] = "open" /\ job[f] = "held"
            /\ job' = [job EXCEPT ![f] = "started"]
            /\ running' = running \cup {f}
            /\ UNCHANGED <<kernel, dev, want, status>>

\* The hardware finishes the run and raises its interrupt
Finish(f) == /\ f \in running
             /\ running' = running \ {f} /\ status' = TRUE
             /\ UNCHANGED <<kernel, dev, want, job>>

\* Job::release: of a started PE after its interrupt, which is reset
release(f) ==
  /\ state[f] = "open" /\ job[f] # "none" /\ f \notin running
  /\ job' = [job EXCEPT ![f] = "none"]
  /\ status' = (status /\ job[f] = "held")
  /\ UNCHANGED <<kernel, dev, want, running>>

\* The process ends or is killed, and its file is closed
Exit(f) == /\ Disciplined => f \notin running
           /\ TLKM!Close(f)
           /\ dev' = [dev EXCEPT ![f] = "types"]
           /\ want' = [want EXCEPT ![f] = None]
           /\ job' = [job EXCEPT ![f] = "none"]
           /\ UNCHANGED <<running, status>>

Closing(f) == /\ TLKM!CloseEntry(f) \/ TLKM!Closed(f)
              /\ UNCHANGED <<dev, want, job, running, status>>

Next == \E f \in Files :
          \/ New(f) \/ create(f) \/ acquire_pe(f) \/ start(f) \/ Finish(f)
          \/ release(f) \/ Exit(f) \/ Closing(f)
          \/ \E a \in Access : change_access(f, a)

Spec == Init /\ [][Next]_vars

-----------------------------------------------------------------------------

TypeOK == /\ TLKM!TypeOK
          /\ dev \in [Files -> Access \cup {"types"}]
          /\ want \in [Files -> Access \cup {None}]
          /\ job \in [Files -> {"none", "held", "started"}]
          /\ running \subseteq Files /\ status \in BOOLEAN

\* Device.access is what the kernel has granted to the file, no more and no
\* less, after a failed change as well: otherwise a mode could neither be used
\* nor given up.
HandleAgrees ==
  /\ TypeOK
  /\ \A f \in Files : state[f] = "open" =>
       IF dev[f] = "types" THEN list[f] = {}
       ELSE \E e \in Entries : list[f] = {e} /\ access[e] = dev[f]

\* A PE executes for one process only, and only for one with exclusive access.
RunsAlone == \A f \in running : dev[f] = "exclusive" /\ running = {f}

\* A PE that is about to be started has no interrupt of an earlier job
\* pending, though that job's process may have been killed before its release.
CleanStart == (\E f \in Files : job[f] = "held") => ~ status

\* "Without exclusive access PEs can not be scheduled": a PE is started only
\* by a process that has exclusive access.
ScheduledExclusively ==
  [][\A f \in running' \ running : dev[f] = "exclusive"]_vars
=============================================================================
