----------------------------- MODULE MCPcieSetup -----------------------------
(* One device after the other, of every class, with any step failing; three   *)
(* interrupt controllers, so that the last one fails with two handlers in     *)
(* place.                                                                     *)
EXTENDS PcieSetup

\* What tlkm_device_init acquires is released exactly once, whichever step of
\* it fails and when the device goes, and whatever still runs meanwhile finds
\* what it uses.
SetupReleased == NothingLeft /\ ReleasesHeld /\ UsersAlive

\* pcie_qdma_init and pcie_qdma_exit run on a live device, undo each other, and
\* program the contexts from a cleared state before the engines are enabled.
QdmaReleased == Balanced /\ ProgrammedFresh /\ QdmaOnLiveDevice
=============================================================================
