---------------------------- MODULE MCInterrupts ----------------------------
(***************************************************************************)
(* Interrupts, as they reach the library on one of two ways: those of an   *)
(* AWS device, a direct one and two controllers of two slots, used by two  *)
(* processes (IrqDemux), or those of two PEs of a simulated device with    *)
(* two jobs each, so that requests of one wait behind the other's          *)
(* (SimInterrupts).                                                        *)
(***************************************************************************)
EXTENDS IrqDemux, SimInterrupts, TLC

VARIABLE part

PartInit == part \in {"hardware", "simulation"} /\ IrqInit /\ SimInit

PartNext == \/ part = "hardware" /\ IrqNext /\ UNCHANGED <<simVars, part>>
            \/ part = "simulation" /\ SimNext /\ UNCHANGED <<irqVars, part>>

PartSpec == PartInit /\ [][PartNext]_<<irqVars, simVars, part>>

Symmetry == Permutations(Procs)

\* In the first round of a handler no registered interrupt is mistaken for an
\* unregistered one, and an eventfd counts each interrupt once.
InterruptsDelivered == FirstRoundDelivers /\ CountsInterrupts

\* A simulated PE is started after the coroutine that watches its interrupt,
\* and no poll reports an interrupt twice.
SimInterruptsCounted == WatchedWhenRunning /\ NothingInvented
=============================================================================
