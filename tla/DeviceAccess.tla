---------------------------- MODULE DeviceAccess ----------------------------
(***************************************************************************)
(* Access to a device through /dev/tlkm: the create and destroy ioctls      *)
(* (tlkm_ioctl.c), the reference counts of the device they change under its *)
(* mutex (tlkm_device.c), and open and release of the file, which keeps a   *)
(* list of what it was granted (tlkm.c).                                    *)
(*                                                                          *)
(* A file's list is used by one thread at a time, so an ioctl is one step   *)
(* around its critical section; the release of a file takes the mutex once  *)
(* per list entry, and other files get in between.  Entries are the list    *)
(* entries that can be allocated.                                           *)
(***************************************************************************)
EXTENDS Integers, FiniteSets

CONSTANTS Files, Entries, None,
          SizeMax      \* the largest size_t

ASSUME EntriesAssumption == /\ IsFiniteSet(Entries)
                            /\ SizeMax \in Nat /\ Cardinality(Entries) <= SizeMax

Access == {"exclusive", "monitor", "shared"}
ASSUME NoneAssumption == None \notin Access

VARIABLES ref_cnt,   \* tlkm_device.ref_cnt
          list,      \* the entries of a file's dev_list
          access,    \* the access mode of an entry; None: not allocated
          state,     \* of a file: closed, open, or closing (in release)
          answer     \* what the last create of a file returned

vars == <<ref_cnt, list, access, state, answer>>

Init == /\ ref_cnt = [a \in Access |-> 0]
        /\ list = [f \in Files |-> {}]
        /\ access = [e \in Entries |-> None]
        /\ state = [f \in Files |-> "closed"]
        /\ answer = [f \in Files |-> <<"none", None>>]

-----------------------------------------------------------------------------

\* tlkm_miscdev_open
Open(f) == /\ state[f] = "closed"
           /\ state' = [state EXCEPT ![f] = "open"]
           /\ UNCHANGED <<ref_cnt, list, access, answer>>

\* Variants of Available: the test for a shared instance is forgotten;
\* monitors are refused as well
AvailableUnshared(a) == ref_cnt["exclusive"] # 0 => a = "monitor"
AvailableAlone(a) == /\ ref_cnt["exclusive"] = 0
                     /\ ref_cnt["shared"] # 0 => a # "exclusive"

\* tlkm_device_acquire: the test for the access mode
Available(a) == /\ ref_cnt["exclusive"] # 0 => a = "monitor"
                /\ ref_cnt["shared"] # 0 => a # "exclusive"

\* tlkm_ioctl_create_device
Create(f, a) ==
  /\ state[f] = "open"
  /\ \/ /\ Available(a)
        /\ \E e \in Entries :
             /\ access[e] = None
             /\ access' = [access EXCEPT ![e] = a]
             /\ list' = [list EXCEPT ![f] = @ \cup {e}]
        /\ ref_cnt' = [ref_cnt EXCEPT ![a] = @ + 1]
        /\ answer' = [answer EXCEPT ![f] = <<"granted", a>>]
     \/ /\ ~ Available(a)
        /\ answer' = [answer EXCEPT ![f] = <<"busy", a>>]
        /\ UNCHANGED <<ref_cnt, list, access>>
  /\ UNCHANGED state

\* Variant of device_release that keeps the last reference
release_but_last(a) == ref_cnt' = IF ref_cnt[a] > 1 THEN [ref_cnt EXCEPT ![a] = @ - 1]
                                  ELSE ref_cnt

\* tlkm_device_release: a count is only lowered while the device is referenced
device_release(a) ==
  ref_cnt' = IF \E b \in Access : ref_cnt[b] # 0
             THEN [ref_cnt EXCEPT ![a] = IF @ = 0 THEN SizeMax ELSE @ - 1]
             ELSE ref_cnt

\* list_del and kfree
Remove(f, e) == /\ list' = [list EXCEPT ![f] = @ \ {e}]
                /\ access' = [access EXCEPT ![e] = None]

\* tlkm_ioctl_destroy_device; without a matching entry it changes nothing
Destroy(f, a) ==
  /\ state[f] = "open"
  /\ \E e \in list[f] : access[e] = a /\ Remove(f, e)
  /\ device_release(a)
  /\ UNCHANGED <<state, answer>>

\* tlkm_miscdev_release, when the last descriptor of the file is closed, by a
\* process that ends for whatever reason as well
Close(f) == /\ state[f] = "open"
            /\ state' = [state EXCEPT ![f] = "closing"]
            /\ UNCHANGED <<ref_cnt, list, access, answer>>

\* Variant of CloseEntry that stops in front of the last entry
CloseEntryButLast(f) ==
  /\ state[f] = "closing"
  /\ \E e \in list[f] : IF list[f] = {e} THEN UNCHANGED <<ref_cnt, list, access>>
                       ELSE device_release(access[e]) /\ Remove(f, e)
  /\ UNCHANGED <<state, answer>>

CloseEntry(f) ==
  /\ state[f] = "closing"
  /\ \E e \in list[f] : device_release(access[e]) /\ Remove(f, e)
  /\ UNCHANGED <<state, answer>>

Closed(f) == /\ state[f] = "closing" /\ list[f] = {}
             /\ state' = [state EXCEPT ![f] = "closed"]
             /\ UNCHANGED <<ref_cnt, list, access, answer>>

Next == \E f \in Files : \/ Open(f) \/ Close(f) \/ CloseEntry(f) \/ Closed(f)
                         \/ \E a \in Access : Create(f, a) \/ Destroy(f, a)

Spec == Init /\ [][Next]_vars

\* The kernel runs the release of a file to its end
FairSpec == Spec /\ \A f \in Files : WF_vars(CloseEntry(f) \/ Closed(f))

-----------------------------------------------------------------------------

TypeOK == /\ ref_cnt \in [Access -> 0 .. SizeMax]
          /\ list \in [Files -> SUBSET Entries]
          /\ access \in [Entries -> Access \cup {None}]
          /\ state \in [Files -> {"closed", "open", "closing"}]
          /\ answer \in [Files -> {"none", "granted", "busy"} \X (Access \cup {None})]

Granted(a) == {e \in Entries : access[e] = a}

\* tlkm_device.ref_cnt counts the entries on the files' lists: no release
\* forgets one, and none is taken back twice.
CountsMatch == \A a \in Access : ref_cnt[a] = Cardinality(Granted(a))

\* Every granted entry is on the list of exactly one file, so that it is
\* given up at the latest when the file is closed.
EntriesOwned ==
  /\ \A f \in Files : \A e \in list[f] : access[e] # None
  /\ \A f, g \in Files : f # g => list[f] \cap list[g] = {}
  /\ \A e \in Entries : access[e] # None => \E f \in Files : e \in list[f]
  /\ \A f \in Files : state[f] = "closed" => list[f] = {}

\* A device that is granted exclusively has no other user but monitors.
Exclusion ==
  \A d, e \in Entries : d # e /\ access[d] = "exclusive" => access[e] \in {"monitor", None}

\* The ioctls implement the access modes of the README, refusals included.
Modes == INSTANCE AccessModes WITH held <- access, Grants <- Entries
KeepsPromise == Modes!Spec

\* When no file is open any more, the device is free again.
DeviceFreed ==
  (\A f \in Files : state[f] # "open") ~>
    (\E f \in Files : state[f] = "open") \/ \A a \in Access : ref_cnt[a] = 0
=============================================================================
