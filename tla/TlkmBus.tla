------------------------------- MODULE TlkmBus -------------------------------
(***************************************************************************)
(* The bus of the kernel module: the list of devices, their ids, and how    *)
(* devices come and go.  The PCI core probes and removes one device at a    *)
(* time, when the module is loaded and later on hot-plug; which devices are *)
(* plugged in is arbitrary.  A process enumerates the devices meanwhile;    *)
(* tlkm_ioctl_enum_devices looks them up one by one and takes no lock.      *)
(*                                                                          *)
(* Bring-up (module DeviceSetup) is one step here: it succeeds or fails,    *)
(* and fails when the files of the device's id exist.  Hot-plug during the  *)
(* unloading of the module is left out.                                     *)
(***************************************************************************)
EXTENDS Integers, Sequences, SequencesExt, FiniteSets

CONSTANTS Devices,   \* PCIe devices
          NoDevice,  \* NULL
          ListHead   \* container_of(&_tlkm_bus.devices), which is no device

VARIABLES phase,     \* unloaded, loading, running, exiting
          devices,   \* _tlkm_bus.devices
          num_devs,  \* _tlkm_bus.num_devs
          dev_id,    \* id of a device that is on the bus
          probing,   \* the device being brought up
          bound,     \* devices the PCI driver is bound to
          drvdata,   \* devices whose driver data is set
          files,     \* ids that have device files
          enum,      \* the enumeration: its state, num_devs as read, what it found
          changed,   \* the bus changed since the enumeration began
          holes      \* a device was removed before a later one

busVars == <<phase, devices, num_devs, dev_id, probing, bound, drvdata, files,
             enum, changed, holes>>

BusInit == /\ phase = "unloaded" /\ devices = <<>> /\ num_devs = 0
           /\ dev_id = [d \in Devices |-> 0] /\ probing = NoDevice
           /\ bound = {} /\ drvdata = {} /\ files = {}
           /\ enum = [pc |-> "idle", num_devs |-> 0, devs |-> <<>>]
           /\ changed = FALSE /\ holes = FALSE

-----------------------------------------------------------------------------
(* The list *)

\* Variant of add_device that counts first
add_device_preincrement(d) == /\ devices' = Append(devices, d)
                              /\ dev_id' = [dev_id EXCEPT ![d] = num_devs + 1]
                              /\ num_devs' = num_devs + 1
                              /\ changed' = TRUE

\* tlkm_bus_add_device
add_device(d) == /\ devices' = Append(devices, d)
                 /\ dev_id' = [dev_id EXCEPT ![d] = num_devs]
                 /\ num_devs' = num_devs + 1
                 /\ changed' = TRUE

\* Variant of del_device that does not count
del_device_uncounted(d) ==
  /\ devices' = SelectSeq(devices, LAMBDA e : e # d)
  /\ holes' = (devices' # <<>> /\ (holes \/ devices[Len(devices)] # d))
  /\ changed' = TRUE
  /\ UNCHANGED num_devs

\* tlkm_bus_del_device
del_device(d) == /\ devices' = SelectSeq(devices, LAMBDA e : e # d)
                 /\ num_devs' = num_devs - 1
                 /\ holes' = (devices' # <<>> /\ (holes \/ devices[Len(devices)] # d))
                 /\ changed' = TRUE

\* tlkm_bus_get_device: the walk follows the circular list, of which the head
\* is a member, and stops early only if the list is empty
get_device(idx) ==
  LET ring == Append(devices, ListHead)
  IN IF devices = <<>> THEN NoDevice ELSE ring[(idx % Len(ring)) + 1]

-----------------------------------------------------------------------------
(* Devices come and go *)

\* tlkm_pcie_probe, up to the bring-up
Probe(d) == /\ phase \in {"loading", "running"}
            /\ probing = NoDevice /\ d \notin bound
            /\ add_device(d)
            /\ probing' = d
            /\ UNCHANGED <<phase, bound, drvdata, files, enum, holes>>

\* misc_register refuses a name that is in use
misc_register(i) == i \notin files

\* Variant of InitDone that goes on without files of its own
InitDoneAnyway(d) == /\ probing = d
                     /\ files' = files \cup {dev_id[d]}
                     /\ bound' = bound \cup {d} /\ drvdata' = drvdata \cup {d}
                     /\ probing' = NoDevice
                     /\ UNCHANGED <<phase, devices, num_devs, dev_id, enum, changed, holes>>

\* tlkm_device_init succeeds
InitDone(d) == /\ probing = d
               /\ misc_register(dev_id[d])
               /\ files' = files \cup {dev_id[d]}
               /\ bound' = bound \cup {d} /\ drvdata' = drvdata \cup {d}
               /\ probing' = NoDevice
               /\ UNCHANGED <<phase, devices, num_devs, dev_id, enum, changed, holes>>

\* tlkm_device_init fails, and has released what it acquired
InitFails(d) == /\ probing = d
                /\ del_device(d)
                /\ probing' = NoDevice
                /\ UNCHANGED <<phase, dev_id, bound, drvdata, files, enum>>

\* tlkm_bus_delete_device; release_device clears the driver data
delete_device(d) == /\ files' = files \ {dev_id[d]}
                    /\ drvdata' = drvdata \ {d}
                    /\ del_device(d)

\* tlkm_pcie_remove: hot-unplug, or pci_unregister_driver when the module goes,
\* which finds no driver data as tlkm_bus_exit has deleted the devices
PcieRemove(d) ==
  /\ phase = "running" \/ (phase = "exiting" /\ devices = <<>>)
  /\ probing = NoDevice /\ d \in bound
  /\ bound' = bound \ {d}
  /\ IF d \in drvdata THEN delete_device(d)
     ELSE UNCHANGED <<files, drvdata, devices, num_devs, changed, holes>>
  /\ UNCHANGED <<phase, dev_id, probing, enum>>

-----------------------------------------------------------------------------
(* The module *)

\* tlkm_bus_init: pci_register_driver begins to probe
Load == /\ phase = "unloaded"
        /\ phase' = "loading"
        /\ UNCHANGED <<devices, num_devs, dev_id, probing, bound, drvdata, files,
                       enum, changed, holes>>

\* ... and, after it, tlkm_init, unless there is no device; it may fail
Loaded == /\ phase = "loading" /\ probing = NoDevice
          /\ \/ num_devs # 0 /\ phase' = "running"
             \/ phase' = "exiting"
          /\ UNCHANGED <<devices, num_devs, dev_id, probing, bound, drvdata, files,
                         enum, changed, holes>>

\* tlkm_bus_exit, when no file is open
Unload == /\ phase = "running" /\ probing = NoDevice /\ enum.pc # "walk"
          /\ phase' = "exiting"
          /\ enum' = [enum EXCEPT !.pc = "idle", !.num_devs = 0, !.devs = <<>>]
          /\ UNCHANGED <<devices, num_devs, dev_id, probing, bound, drvdata, files,
                         changed, holes>>

ExitDevice == /\ phase = "exiting" /\ devices # <<>>
              /\ delete_device(Head(devices))
              /\ UNCHANGED <<phase, dev_id, probing, bound, enum>>

Unloaded == /\ phase = "exiting" /\ devices = <<>> /\ bound = {}
            /\ phase' = "unloaded"
            /\ changed' = FALSE
            /\ UNCHANGED <<devices, num_devs, dev_id, probing, bound, drvdata, files,
                           enum, holes>>

-----------------------------------------------------------------------------
(* tlkm_ioctl_enum_devices *)

Enumerate == /\ phase = "running" /\ enum.pc # "walk"
             /\ enum' = [pc |-> "walk", num_devs |-> num_devs, devs |-> <<>>]
             /\ changed' = FALSE
             /\ UNCHANGED <<phase, devices, num_devs, dev_id, probing, bound, drvdata,
                            files, holes>>

\* Variant of More that looks up one device too many
MorePast == Len(enum.devs) <= enum.num_devs

More == Len(enum.devs) < enum.num_devs

\* The next device is entered; without one the ioctl fails
EnumNext ==
  /\ enum.pc = "walk" /\ More
  /\ LET d == get_device(Len(enum.devs))
     IN enum' = IF d = NoDevice THEN [enum EXCEPT !.pc = "failed"]
                ELSE [enum EXCEPT !.devs = Append(@, d)]
  /\ UNCHANGED <<phase, devices, num_devs, dev_id, probing, bound, drvdata, files,
                 changed, holes>>

EnumDone == /\ enum.pc = "walk" /\ ~ More
            /\ enum' = [enum EXCEPT !.pc = "done"]
            /\ UNCHANGED <<phase, devices, num_devs, dev_id, probing, bound, drvdata,
                           files, changed, holes>>

-----------------------------------------------------------------------------

BusNext == \/ \E d \in Devices : Probe(d) \/ InitDone(d) \/ InitFails(d) \/ PcieRemove(d)
           \/ Load \/ Loaded \/ Unload \/ ExitDevice \/ Unloaded
           \/ Enumerate \/ EnumNext \/ EnumDone

BusSpec == BusInit /\ [][BusNext]_busVars

-----------------------------------------------------------------------------

BusTypeOK == /\ phase \in {"unloaded", "loading", "running", "exiting"}
             /\ devices \in Seq(Devices)
             /\ dev_id \in [Devices -> 0 .. Cardinality(Devices) - 1]
             /\ probing \in Devices \cup {NoDevice}
             /\ bound \subseteq Devices /\ drvdata \subseteq bound
             /\ files \subseteq 0 .. Cardinality(Devices) - 1
             /\ enum.pc \in {"idle", "walk", "done", "failed"}
             /\ changed \in BOOLEAN /\ holes \in BOOLEAN

\* num_devs is the length of the list, however bring-ups fail and devices are
\* removed: by hot-unplug, or twice over by tlkm_bus_exit and the PCI core when
\* the module goes.  An unloaded module has no device and no file left.
Counted == /\ BusTypeOK
           /\ num_devs = Len(devices)
           /\ phase = "unloaded" => devices = <<>> /\ files = {}

\* Two devices in use never have the same id, although ids are handed out from
\* a count that shrinks.
UniqueIds == \A d, e \in bound \cap drvdata : d # e => dev_id[d] # dev_id[e]

\* As long as no device was removed before a later one, the position of a device
\* is its id, so that tlkm_bus_get_device(c->dev_id) finds the control file's
\* own device.
PositionUntilRemoval ==
  ~ holes => \A i \in 1 .. Len(devices) : dev_id[devices[i]] = i - 1

\* An enumeration during which the bus did not change reports each device once,
\* in order.
EnumeratesBus == enum.pc = "done" /\ ~ changed => enum.devs = devices

\* "Got device ID mismatch. Falling back to own counting, assuming old TLKM":
\* this TLKM reports ids that are positions.
IdIsPosition ==
  enum.pc = "done" /\ ~ changed =>
    \A i \in 1 .. Len(enum.devs) : dev_id[enum.devs[i]] = i - 1

\* "invalid device index": a lookup past the last device finds none.
InvalidIndexFindsNone ==
  \A idx \in Len(devices) .. Cardinality(Devices) : get_device(idx) = NoDevice
=============================================================================
