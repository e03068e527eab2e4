------------------------------ MODULE PcieSetup ------------------------------
(***************************************************************************)
(* Bring-up and removal of devices, with QDMA: the step "qdma" of           *)
(* DeviceSetup is a run of pcie_qdma_init of QdmaSetup, and its release a    *)
(* run of pcie_qdma_exit.  The core's contexts and engines are hardware and  *)
(* outlive the device's structs.                                            *)
(***************************************************************************)
EXTENDS DeviceSetup

VARIABLES qstate, qstage, qtodo, mapped, ring, ctxt, engines, res

Q == INSTANCE QdmaSetup WITH state <- qstate, stage <- qstage, todo <- qtodo

qvars == <<qstate, qstage, qtodo, mapped, ring, ctxt, engines, res>>
allvars == <<vars, qvars>>

SetupInit == Init /\ Q!Init

-----------------------------------------------------------------------------

\* pcie_device_init_subsystems is at pcie_qdma_init
AtInit == /\ state = "init" /\ stage < Len(device_init)
          /\ device_init[stage + 1] = "qdma"

\* pcie_device_exit_subsystems is at pcie_qdma_exit
AtExit == /\ state \in {"undo", "exit"} /\ todo # <<>>
          /\ Head(todo) = "qdma"

\* Everything but QDMA.  A new device has new structs, so that the mappings and
\* the ring of one that was abandoned with QDMA in use are forgotten.
NewDevice == /\ New
             /\ qstate' = "none" /\ mapped' = {} /\ ring' = FALSE
             /\ UNCHANGED <<qstage, qtodo, ctxt, engines, res>>
Other == /\ ~ AtInit /\ ~ AtExit
         /\ Step \/ Fail \/ Ready \/ Delete \/ Release \/ Done
         /\ UNCHANGED qvars

\* pcie_qdma_init is called, works, and returns
InitCalled == AtInit /\ Q!Start /\ UNCHANGED vars
InitWorks == AtInit /\ (Q!Step \/ Q!Fail \/ Q!Release) /\ UNCHANGED vars
InitSucceeds == AtInit /\ Q!Ready /\ Step
InitFails == AtInit /\ Q!Done /\ Fail

\* pcie_qdma_exit is called, works, and returns; its result is only logged
ExitCalled == AtExit /\ Q!Exit /\ UNCHANGED vars
ExitWorks == AtExit /\ Q!Release /\ UNCHANGED vars
ExitReturns == AtExit /\ Q!Done /\ Release

SetupNext == \/ NewDevice \/ Other
             \/ InitCalled \/ InitWorks \/ InitSucceeds \/ InitFails
             \/ ExitCalled \/ ExitWorks \/ ExitReturns

SetupSpec == SetupInit /\ [][SetupNext]_allvars

-----------------------------------------------------------------------------

SetupTypeOK == TypeOK /\ Q!TypeOK

\* See QdmaSetup: mappings and ring are balanced ...
Balanced == Q!Balanced
\* ... and the contexts are programmed from a cleared state, before the engines
\* are enabled.
ProgrammedFresh == Q!ProgrammedFresh

\* "Disable QDMA on exit" (see QdmaSetup), which the code does not do.
Invalidated == Q!Invalidated

\* pcie_qdma_init and pcie_qdma_exit find the platform's registers mapped and
\* the device enabled, and QDMA is in use exactly while the device holds it.
QdmaOnLiveDevice ==
  /\ SetupTypeOK
  /\ qstate \notin {"none", "ready"} => {"plat_map", "pdev", "enabled"} \subseteq held
  /\ qstate = "ready" => "qdma" \in held
  /\ "qdma" \in held => qstate \in {"ready", "exit"}
=============================================================================
