--------------------------- MODULE MCDeviceAccess ---------------------------
(***************************************************************************)
(* The calls of /dev/tlkm.  part says what a behaviour is about: access to *)
(* one device with three list entries, by any program, which may hold      *)
(* several modes with one file, or by processes that use libtapasco's      *)
(* Device and share one PE (DeviceHandle); or the enumeration of the bus,  *)
(* with three PCIe devices, so that one is removed, one stays and one is   *)
(* added (TlkmBus).                                                        *)
(***************************************************************************)
EXTENDS DeviceAccess

CONSTANTS Callers,   \* bound: the files any program opens
          Devices, NoDevice, ListHead

VARIABLES dev, want, job, running, status,
          phase, devices, num_devs, dev_id, probing, bound, drvdata, files, enum,
          changed, holes,
          part

Device == INSTANCE DeviceHandle WITH Disciplined <- TRUE
Bus == INSTANCE TlkmBus

userVars == <<dev, want, job, running, status>>
busVars == <<phase, devices, num_devs, dev_id, probing, bound, drvdata, files, enum,
             changed, holes>>
accessVars == <<vars, userVars, busVars, part>>

AccessInit == /\ part \in {"ioctls", "libtapasco", "bus"}
              /\ Device!Init /\ Bus!BusInit

AccessNext == \/ /\ part = "ioctls" /\ Next
                 /\ \A f \in Files \ Callers : state'[f] = "closed"
                 /\ UNCHANGED <<userVars, busVars, part>>
              \/ part = "libtapasco" /\ Device!Next /\ UNCHANGED <<busVars, part>>
              \/ part = "bus" /\ Bus!BusNext /\ UNCHANGED <<vars, userVars, part>>

\* The kernel runs the release of a file to its end, whoever opened it
AccessSpec == /\ AccessInit /\ [][AccessNext]_accessVars
              /\ \A f \in Files : WF_vars(CloseEntry(f) \/ Closed(f))

-----------------------------------------------------------------------------

\* Device.access is what the kernel has granted to the file, no more and no
\* less; a PE runs for one process only, one with exclusive access; and a PE
\* that is about to be started has no interrupt of an earlier job pending.
HandleAgrees == part = "libtapasco" =>
                  Device!HandleAgrees /\ Device!RunsAlone /\ Device!CleanStart

\* num_devs is the length of the list, the ids in use differ, they are positions
\* until a device is removed before a later one, and an undisturbed enumeration
\* reports each device once, however bring-ups fail and devices are removed.
BusAgrees == part = "bus" => /\ Bus!Counted /\ Bus!UniqueIds
                             /\ Bus!PositionUntilRemoval /\ Bus!EnumeratesBus
=============================================================================
