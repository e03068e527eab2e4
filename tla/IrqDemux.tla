------------------------------ MODULE IrqDemux ------------------------------
(***************************************************************************)
(* From a PE's interrupt to the eventfd of the process that waits for it:   *)
(* registration and release through the device's control file               *)
(* (tlkm_device_reg_int, tlkm_control_release), the platform's part of them *)
(* (pirq and rirq), and the interrupt handlers that find the entry of a     *)
(* slot on the sorted list of mappings.                                     *)
(*                                                                          *)
(* The Zynq and the AWS driver share the algorithm (zynq_irq.c,             *)
(* pcie_irq_aws.c): an interrupt controller serves PerController slots, the *)
(* handler of a controller starts at its first mapping.  On AWS, as on all  *)
(* PCIe platforms, the numbers below Direct have a vector of their own.     *)
(* Reading the AWS controller's status clears it, Zynq's is acknowledged.   *)
(* Shifted is the Zynq handler's way to clear a slot, which is undefined    *)
(* for all controllers but the first.  A list entry is its interrupt.       *)
(***************************************************************************)
EXTENDS Integers, Sequences, SequencesExt, FiniteSets, FiniteSetsExt

CONSTANTS Procs, None,
          Controllers,    \* number of interrupt controllers
          PerController,  \* IRQS_PER_CONTROLLER
          Direct,         \* NUM_DIRECT_IRQS, 0 on Zynq
          Shifted         \* the slot is cleared after its offset was added

Irqs == 0 .. Direct + Controllers * PerController - 1
Ctrls == 0 .. Controllers - 1
IntcSlots == 0 .. PerController - 1

VARIABLES interrupts,  \* tlkm_control.interrupts: <<interrupt, process>>, sorted
          mapping,     \* intc_bases[c].mapping
          proc,        \* a process: closed, setup, ready, closing
          wanted,      \* the interrupts it still registers (Device::new)
          pirq,        \* the one between its pirq and its insertion, or None
          intc,        \* hardware: pending slots of a controller
          vector,      \* hardware: pending direct interrupts
          hpc, m_start, status, round,  \* the handler of a controller
          eventfd,     \* what was signalled and not yet read
          missed       \* the last slot's interrupt, if registered and not found

reg == <<interrupts, mapping, proc, wanted, pirq>>
hw == <<intc, vector>>
handler == <<hpc, m_start, status, round>>
irqVars == <<reg, hw, handler, eventfd, missed>>

IrqInit == /\ interrupts = <<>>
           /\ mapping = [c \in Ctrls |-> None]
           /\ proc = [p \in Procs |-> "closed"]
           /\ wanted = [p \in Procs |-> {}]
           /\ pirq = [p \in Procs |-> None]
           /\ intc = [c \in Ctrls |-> {}]
           /\ vector = {}
           /\ hpc = [c \in Ctrls |-> "idle"]
           /\ m_start = [c \in Ctrls |-> None]
           /\ status = [c \in Ctrls |-> {}]
           /\ round = [c \in Ctrls |-> 0]
           /\ eventfd = [i \in Irqs |-> 0]
           /\ missed = {}

Ctrl(i) == (i - Direct) \div PerController
Start(c) == c * PerController + Direct
Numbers == [k \in DOMAIN interrupts |-> interrupts[k][1]]
Registered == ToSet(Numbers)

-----------------------------------------------------------------------------
(* Registration: Device::new registers the interrupts of its PEs.  Neither  *)
(* it nor the release of the file excludes the handlers; they are modelled  *)
(* while no PE runs, one process after the other.                           *)

Quiet == /\ \A c \in Ctrls : intc[c] = {} /\ hpc[c] = "idle"
         /\ vector = {}

Open(p) == /\ proc[p] = "closed"
           /\ Quiet /\ \A q \in Procs : proc[q] \in {"closed", "ready"}
           /\ \E s \in SUBSET Irqs \ {{}} : wanted' = [wanted EXCEPT ![p] = s]
           /\ proc' = [proc EXCEPT ![p] = "setup"]
           /\ UNCHANGED <<interrupts, mapping, pirq, hw, handler, eventfd, missed>>

\* zynq_irq_request_platform_irq, pcie_aws_irqs_request_platform_irq
request_platform_irq(i) ==
  mapping' = IF /\ i >= Direct
                /\ mapping[Ctrl(i)] = None \/ mapping[Ctrl(i)] > i
             THEN [mapping EXCEPT ![Ctrl(i)] = i] ELSE mapping

\* tlkm_device_reg_int up to its pirq, of an interrupt that is not taken
RegisterIrq(p) ==
  /\ proc[p] = "setup" /\ pirq[p] = None
  /\ \E i \in wanted[p] \ Registered :
       /\ wanted' = [wanted EXCEPT ![p] = @ \ {i}]
       /\ pirq' = [pirq EXCEPT ![p] = i]
       /\ request_platform_irq(i)
  /\ UNCHANGED <<interrupts, proc, hw, handler, eventfd, missed>>

\* An interrupt that is taken: Device::new fails, and its file is closed
RegisterTaken(p) ==
  /\ proc[p] = "setup" /\ pirq[p] = None
  /\ wanted[p] \cap Registered # {}
  /\ proc' = [proc EXCEPT ![p] = "closing"]
  /\ wanted' = [wanted EXCEPT ![p] = {}]
  /\ UNCHANGED <<interrupts, mapping, pirq, hw, handler, eventfd, missed>>

\* ... and the rest of it: the eventfd, and the place on the list
Insert(p) ==
  /\ pirq[p] # None
  /\ LET k == Cardinality({j \in DOMAIN interrupts : interrupts[j][1] < pirq[p]})
     IN interrupts' = InsertAt(interrupts, k + 1, <<pirq[p], p>>)
  /\ eventfd' = [eventfd EXCEPT ![pirq[p]] = 0]
  /\ pirq' = [pirq EXCEPT ![p] = None]
  /\ UNCHANGED <<mapping, proc, wanted, hw, handler, missed>>

SetupDone(p) == /\ proc[p] = "setup" /\ wanted[p] = {} /\ pirq[p] = None
                /\ proc' = [proc EXCEPT ![p] = "ready"]
                /\ UNCHANGED <<interrupts, mapping, wanted, pirq, hw, handler,
                               eventfd, missed>>

-----------------------------------------------------------------------------
(* Release of the control file *)

\* A process closes its file after its PEs have stopped
Close(p) == /\ proc[p] = "ready" /\ Quiet
            /\ \A q \in Procs : proc[q] \in {"closed", "ready"}
            /\ proc' = [proc EXCEPT ![p] = "closing"]
            /\ UNCHANGED <<interrupts, mapping, wanted, pirq, hw, handler,
                           eventfd, missed>>

\* zynq_irq_release_platform_irq, pcie_aws_irqs_release_platform_irq: the
\* entry behind the first mapping takes its place if it has the same controller
release_platform_irq(i) ==
  LET k == SelectInSeq(Numbers, LAMBDA n : n = i)
  IN mapping' =
       IF i >= Direct /\ mapping[Ctrl(i)] = i
       THEN [mapping EXCEPT ![Ctrl(i)] =
               IF k < Len(Numbers) /\ Ctrl(Numbers[k + 1]) = Ctrl(i)
               THEN Numbers[k + 1] ELSE None]
       ELSE mapping

\* tlkm_control_release: every entry of the list, whoever registered it
CloseEntry(p) ==
  /\ proc[p] = "closing" /\ interrupts # <<>>
  /\ release_platform_irq(Numbers[1])
  /\ interrupts' = Tail(interrupts)
  /\ eventfd' = [eventfd EXCEPT ![Numbers[1]] = 0]
  /\ UNCHANGED <<proc, wanted, pirq, hw, handler, missed>>

Closed(p) == /\ proc[p] = "closing" /\ interrupts = <<>>
             /\ proc' = [proc EXCEPT ![p] = "closed"]
             /\ UNCHANGED <<interrupts, mapping, wanted, pirq, hw, handler,
                            eventfd, missed>>

-----------------------------------------------------------------------------
(* Interrupts *)

Pending(i) == \/ i < Direct /\ i \in vector
              \/ i >= Direct /\ i - Start(Ctrl(i)) \in intc[Ctrl(i)] \cup status[Ctrl(i)]

\* A PE raises its interrupt, registered or not, when its last one was read
\* (one that belongs to an empty controller stays pending: not modelled)
Raise(i) ==
  /\ \E p \in Procs : proc[p] = "ready"
  /\ \A p \in Procs : proc[p] \in {"closed", "ready"}
  /\ ~ Pending(i) /\ eventfd[i] = 0
  /\ i >= Direct => mapping[Ctrl(i)] # None
  /\ \/ i < Direct /\ vector' = vector \cup {i} /\ UNCHANGED intc
     \/ i >= Direct /\ UNCHANGED vector
        /\ intc' = [intc EXCEPT ![Ctrl(i)] = @ \cup {i - Start(Ctrl(i))}]
  /\ UNCHANGED <<reg, handler, eventfd, missed>>

Signal(i) == eventfd' = [eventfd EXCEPT ![i] = @ + 1]

\* intr_handler_platform: the handler of a direct interrupt
HandleDirect(i) ==
  /\ i \in vector
  /\ vector' = vector \ {i}
  /\ IF i \in Registered THEN Signal(i) ELSE UNCHANGED eventfd
  /\ UNCHANGED <<reg, intc, handler, missed>>

\* zynq_irq_handler, aws_irq_handler: entered ...
Enter(c) ==
  /\ hpc[c] = "idle" /\ intc[c] # {}
  /\ IF mapping[c] = None THEN UNCHANGED <<hpc, m_start>>
     ELSE /\ hpc' = [hpc EXCEPT ![c] = "read"]
          /\ m_start' = [m_start EXCEPT ![c] = mapping[c]]
  /\ UNCHANGED <<reg, hw, status, round, eventfd, missed>>

\* ... a round reads and acknowledges what is pending ...
ReadStatus(c) ==
  /\ hpc[c] = "read"
  /\ \/ /\ intc[c] # {}
        /\ status' = [status EXCEPT ![c] = intc[c]]
        /\ intc' = [intc EXCEPT ![c] = {}]
        /\ round' = [round EXCEPT ![c] = IF @ = 2 THEN 2 ELSE @ + 1]
        /\ hpc' = [hpc EXCEPT ![c] = "slot"]
        /\ UNCHANGED <<m_start, missed>>
     \/ /\ intc[c] = {}
        /\ hpc' = [hpc EXCEPT ![c] = "idle"]
        /\ m_start' = [m_start EXCEPT ![c] = None]
        /\ round' = [round EXCEPT ![c] = 0]
        /\ missed' = {}
        /\ UNCHANGED <<status, intc>>
  /\ UNCHANGED <<reg, vector, eventfd>>

\* Variant of Walk that also leaves the entry it looks for
WalkPast(m, i) ==
  LET from == SelectInSeq(Numbers, LAMBDA n : n = m)
      behind == SubSeq(Numbers, from, Len(Numbers))
      k == SelectInSeq(behind, LAMBDA n : n > i)
  IN IF k # 0 THEN behind[k] ELSE Last(behind)

\* The first entry from m on that is not before i, or the last one
Walk(m, i) ==
  LET from == SelectInSeq(Numbers, LAMBDA n : n = m)
      behind == SubSeq(Numbers, from, Len(Numbers))
      k == SelectInSeq(behind, LAMBDA n : n >= i)
  IN IF k # 0 THEN behind[k] ELSE Last(behind)

\* Variant of Cleared that leaves the slot in the status of its round
ClearedNot(c, slot) == {status[c] \ {slot}, status[c]}

\* status ^= 1U << slot.  With the controller's offset added the shift is out
\* of range for the second controller on: the build may take the slot modulo
\* the width, or shift the bit out.
Cleared(c, slot) == IF Shifted /\ c > 0 THEN {status[c] \ {slot}, status[c]}
                    ELSE {status[c] \ {slot}}

\* ... and each of its slots, lowest first, is looked up and signalled
Slot(c) ==
  /\ hpc[c] = "slot"
  /\ LET slot == Min(status[c])
         i == slot + Start(c)
         m == Walk(m_start[c], i)
     IN /\ m_start' = [m_start EXCEPT ![c] = m]
        /\ IF m = i THEN Signal(i) ELSE UNCHANGED eventfd
        /\ missed' = IF m # i /\ i \in Registered
                     THEN {<<i, round[c]>>} ELSE {}
        /\ \E rest \in Cleared(c, slot) :
             /\ status' = [status EXCEPT ![c] = rest]
             /\ hpc' = [hpc EXCEPT ![c] = IF rest = {} THEN "read" ELSE "slot"]
  /\ UNCHANGED <<reg, hw, round>>

\* The process reads its eventfd (wait_for_interrupt)
Read(i) == /\ eventfd[i] > 0
           /\ eventfd' = [eventfd EXCEPT ![i] = 0]
           /\ UNCHANGED <<reg, hw, handler, missed>>

IrqNext == \/ \E p \in Procs : \/ Open(p) \/ RegisterIrq(p) \/ RegisterTaken(p)
                                \/ Insert(p) \/ SetupDone(p) \/ Close(p)
                                \/ CloseEntry(p) \/ Closed(p)
           \/ \E i \in Irqs : Raise(i) \/ HandleDirect(i) \/ Read(i)
           \/ \E c \in Ctrls : Enter(c) \/ ReadStatus(c) \/ Slot(c)

IrqSpec == IrqInit /\ [][IrqNext]_irqVars

-----------------------------------------------------------------------------

IrqTypeOK ==
  /\ interrupts \in Seq(Irqs \X Procs)
  /\ mapping \in [Ctrls -> Irqs \cup {None}]
  /\ proc \in [Procs -> {"closed", "setup", "ready", "closing"}]
  /\ wanted \in [Procs -> SUBSET Irqs] /\ pirq \in [Procs -> Irqs \cup {None}]
  /\ intc \in [Ctrls -> SUBSET IntcSlots] /\ vector \subseteq Irqs
  /\ hpc \in [Ctrls -> {"idle", "read", "slot"}]
  /\ m_start \in [Ctrls -> Irqs \cup {None}]
  /\ status \in [Ctrls -> SUBSET IntcSlots] /\ round \in [Ctrls -> 0 .. 2]
  /\ eventfd \in [Irqs -> Nat]
  /\ missed \subseteq Irqs \X (1 .. 2)

\* In the first round of a handler no registered interrupt is mistaken for an
\* unregistered one: the walk over the sorted list passes none of them.
FirstRoundDelivers == IrqTypeOK /\ \A x \in missed : x[2] > 1

\* An eventfd counts the interrupts that have occurred: one per raised one.
CountsInterrupts == \A i \in Irqs : eventfd[i] <= 1

\* "Got interrupt for unregistered interrupt" (zynq_irq.c, pcie_irq_aws.c) is
\* said of unregistered interrupts only.
RegisteredDelivered == missed = {}

\* An interrupt stays registered until the process that registered it closes
\* its own file.
StaysRegistered ==
  [][\A e \in ToSet(interrupts) : proc[e[2]] = "closing" \/ e \in ToSet(interrupts')]_irqVars
=============================================================================
