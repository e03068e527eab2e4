------------------------------ MODULE QdmaSetup ------------------------------
(***************************************************************************)
(* pcie_qdma_init and pcie_qdma_exit: the registers of the QDMA core are    *)
(* mapped, its queue contexts are cleared and programmed, its engines are   *)
(* enabled, and the mappings that are only needed for this are removed      *)
(* again.  Any mapping, the allocation of the completion ring and any       *)
(* context command, which the core may not finish in time, can fail.        *)
(***************************************************************************)
EXTENDS Naturals, Sequences, SequencesExt, FiniteSets

VARIABLES state,    \* none, init, undo, ready, exit
          stage,    \* steps of pcie_qdma_init that are done
          todo,     \* what the error path or the exit still does
          mapped,   \* register areas mapped
          ring,     \* the completion ring is allocated (cmpt_ring)
          ctxt,     \* hardware: contexts that are programmed
          engines,  \* hardware: engines that are enabled
          res       \* what pcie_qdma_exit returns: 0, or an error

vars == <<state, stage, todo, mapped, ring, ctxt, engines, res>>

\* Mapped only while the core is set up ...
Temporary == <<"ctxt_regs", "qid2vec", "c2h_ctrl", "h2c_ctrl", "fmap", "buf_size",
               "ring_size">>
\* ... and to re-arm interrupts, as long as the device is in use
Maps == Append(Temporary, "ack")

\* Contexts: software descriptors of the memory mapped and the stream queues,
\* prefetch, and completion (writeback)
Contexts == <<"c2h_mm", "h2c_mm", "c2h_st", "h2c_st", "pftch", "wrb">>
Engines == {"c2h", "h2c"}

\* pcie_qdma_init
qdma_init == <<"id", "bar">> \o Maps \o <<"ring", "clear">> \o Contexts \o <<"enable">>

\* Variant of fail whose labels are off by one
fail_short(k) ==
  LET done == SubSeq(qdma_init, 1, k - 2)
  IN Reverse(SelectSeq(done, LAMBDA s : s \in ToSet(Maps \o Contexts) \cup {"ring"}))

\* The labels of its error path, from the step that fails: contexts before it
\* are invalidated, the ring is freed, and mappings before it are removed
fail(k) ==
  LET done == SubSeq(qdma_init, 1, k - 1)
  IN Reverse(SelectSeq(done, LAMBDA s : s \in ToSet(Maps \o Contexts) \cup {"ring"}))

\* pcie_qdma_exit, unless the descriptor generator is not found
qdma_exit == <<"ack", "h2c_off", "c2h_off", "c2h_mm", "h2c_mm">>

-----------------------------------------------------------------------------

Init == /\ state = "none" /\ stage = 0 /\ todo = <<>>
        /\ mapped = {} /\ ring = FALSE /\ engines = {} /\ res = 0
        /\ ctxt \in SUBSET ToSet(Contexts)   \* whatever an earlier user left

\* The structs of a device are new, so an old mapping is forgotten
Start == /\ state = "none"
         /\ state' = "init" /\ stage' = 0
         /\ mapped' = {}
         /\ UNCHANGED <<todo, ring, ctxt, engines, res>>

\* qdma_program_ind_context, if s is a context
program_ind_context(s) == ctxt' = ctxt \cup ({s} \cap ToSet(Contexts))

\* Variant of qdma_clear_ind_context that clears the memory mapped queues only
clear_mm == ctxt' = ctxt \ {"c2h_mm", "h2c_mm"}

\* qdma_clear_ind_context, of all contexts
clear == ctxt' = {}

\* A step that succeeds; "id" resets the core (dma_reset, which is taken to stop
\* its engines but not to clear its contexts), "enable" is the tail of the
\* function, which enables the engines and removes the temporary mappings
Step ==
  /\ state = "init" /\ stage < Len(qdma_init)
  /\ stage' = stage + 1
  /\ mapped' = IF qdma_init[stage + 1] = "enable" THEN mapped \ ToSet(Temporary)
               ELSE mapped \cup ({qdma_init[stage + 1]} \cap ToSet(Maps))
  /\ ring' = (ring \/ qdma_init[stage + 1] = "ring")
  /\ IF qdma_init[stage + 1] = "clear" THEN clear
     ELSE program_ind_context(qdma_init[stage + 1])
  /\ engines' = CASE qdma_init[stage + 1] = "enable" -> Engines
                  [] qdma_init[stage + 1] = "id" -> {}
                  [] OTHER -> engines
  /\ UNCHANGED <<state, todo, res>>

Ready == /\ state = "init" /\ stage = Len(qdma_init)
         /\ state' = "ready"
         /\ UNCHANGED <<stage, todo, mapped, ring, ctxt, engines, res>>

\* A step that fails; a context may be written, or some of them cleared,
\* although it was not confirmed
Fail == /\ state = "init" /\ stage < Len(qdma_init) - 1
        /\ todo' = fail(stage + 1)
        /\ \/ program_ind_context(qdma_init[stage + 1])
           \/ ctxt' \in IF qdma_init[stage + 1] = "clear" THEN SUBSET ctxt ELSE {ctxt}
        /\ state' = "undo"
        /\ UNCHANGED <<stage, mapped, ring, engines, res>>

\* The ring is freed before the descriptor generator is asked for
Exit == /\ state = "ready"
        /\ ring' = FALSE
        /\ \/ todo' = qdma_exit /\ res' = 0
           \/ todo' = <<>> /\ res' = 1
        /\ state' = "exit"
        /\ UNCHANGED <<stage, mapped, ctxt, engines>>

\* qdma_inv_ind_context: the command is put together but not written
inv_ind_context == UNCHANGED ctxt

\* One release of the error path or of the exit.  An area may not be mapped for
\* a release that needs it, and a command may not be confirmed.
Release ==
  /\ state \in {"undo", "exit"} /\ todo # <<>>
  /\ todo' = Tail(todo)
  /\ mapped' = mapped \ {Head(todo)}
  /\ ring' = (ring /\ Head(todo) # "ring")
  /\ inv_ind_context
  /\ \/ /\ engines' = CASE Head(todo) = "h2c_off" -> engines \ {"h2c"}
                        [] Head(todo) = "c2h_off" -> engines \ {"c2h"}
                        [] OTHER -> engines
        /\ UNCHANGED res
     \/ /\ state = "exit" /\ Head(todo) # "ack"
        /\ res' = 1
        /\ UNCHANGED engines
  /\ UNCHANGED <<state, stage>>

Done == /\ state \in {"undo", "exit"} /\ todo = <<>>
        /\ state' = "none"
        /\ UNCHANGED <<stage, todo, mapped, ring, ctxt, engines, res>>

Next == Start \/ Step \/ Ready \/ Fail \/ Exit \/ Release \/ Done

Spec == Init /\ [][Next]_vars

-----------------------------------------------------------------------------

TypeOK == /\ state \in {"none", "init", "undo", "ready", "exit"}
          /\ stage \in 0 .. Len(qdma_init)
          /\ mapped \subseteq ToSet(Maps) /\ ring \in BOOLEAN
          /\ ctxt \subseteq ToSet(Contexts) /\ engines \subseteq Engines
          /\ res \in {0, 1}

\* In use, the core has its re-arm registers mapped, its ring and all of its
\* contexts; not in use it has neither mapping nor ring.  The re-arm registers
\* stay mapped when an exit does not find the descriptor generator.
Balanced ==
  /\ state = "ready" => mapped = {"ack"} /\ ring
  /\ state = "none" => /\ ~ ring
                       /\ mapped \subseteq (IF res = 0 THEN {} ELSE {"ack"})

\* The contexts are programmed one after the other from a cleared state, however
\* the core was left, and the initialisation enables the engines last.
ProgrammedFresh ==
  /\ state \in {"init", "undo"} /\ stage >= 12 =>
       ctxt \ ToSet(SubSeq(qdma_init, 13, stage)) \subseteq
         (IF state = "undo" THEN {qdma_init[stage + 1]} ELSE {})
  /\ engines # {} /\ state = "init" => stage \in {0, Len(qdma_init)}

\* "Disable QDMA on exit": after an exit that reports success the contexts it
\* invalidates are invalid.
Invalidated == state = "none" /\ stage = Len(qdma_init) /\ res = 0 =>
                 ctxt \cap {"c2h_mm", "h2c_mm"} = {}
=============================================================================
