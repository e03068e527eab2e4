------------------------------ MODULE MCTlkmDma ------------------------------
(* The DMA engine, the buffers of a PCIe device, those of a Zynq and the     *)
(* calls of libtapasco, one of them per behaviour: they share no state.      *)
EXTENDS TlkmDma, PcieBuffers, ZynqBuffers, DeviceIoctls

CONSTANTS w1, w2, r1, r2

VARIABLE part

MCChunks == [c \in Callers |-> CASE c = w1 -> 2 [] c = r1 -> 3 [] OTHER -> 1]

PartInit == /\ part \in {"engine", "pcie", "zynq", "calls"}
            /\ Init /\ BufInit /\ ZynqInit /\ IoctlInit

PartNext ==
  \/ part = "engine" /\ Next /\ UNCHANGED <<part, bufVars, zynqVars, request>>
  \/ part = "pcie" /\ BufNext /\ UNCHANGED <<part, vars, zynqVars, request>>
  \/ part = "zynq" /\ ZynqNext /\ UNCHANGED <<part, vars, bufVars, request>>
  \/ part = "calls" /\ IoctlNext /\ UNCHANGED <<part, vars, bufVars, zynqVars>>

allVars == <<part, vars, bufVars, zynqVars, request>>

PartSpec == PartInit /\ [][PartNext]_allVars /\ Fairness

(* With readers whose memory cannot be written.                              *)
SpecReadFails ==
  PartInit /\ [][PartNext \/ /\ part = "engine" /\ \E r \in Readers : CopyToUserFails(r)
                             /\ UNCHANGED <<part, bufVars, zynqVars, request>>]_allVars
=============================================================================
