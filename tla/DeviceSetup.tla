----------------------------- MODULE DeviceSetup -----------------------------
(***************************************************************************)
(* Bring-up and removal of a device: tlkm_device_init, tlkm_device_exit and *)
(* what they call in the classes of the platforms.  Each step acquires a    *)
(* resource or fails; a failure jumps to a label of the error ladder, which *)
(* releases what was acquired before, step by step.  The labels are those   *)
(* of the code.  Names and private structs that only hold data are left     *)
(* out.                                                                      *)
(*                                                                          *)
(* "irq" installs the handler of the next interrupt controller or frees the *)
(* one installed last.                                                      *)
(***************************************************************************)
EXTENDS Integers, Sequences, SequencesExt, FiniteSets

CONSTANTS Classes,   \* tlkm_class of the device: zynq, pcie, versal, aws, sim
          NumIntcs   \* interrupt controllers: ZYNQ_MAX_NUM_INTCS, AWS_NUM_IRQ_CONTROLLERS

VARIABLES cls,       \* the device's class
          svm,       \* its design has an MMU (PLATFORM_COMPONENT_MMU)
          state,     \* none, init, undo, ready, exit
          stage,     \* steps of the bring-up that are done
          todo,      \* what an error ladder or the exit still releases
          held,      \* resources acquired and not released
          handlers,  \* interrupt handlers installed (requested_irq_num)
          failedAt,  \* the step at which the last bring-up failed, or "no"
          misused    \* the last release was one of a resource not held

vars == <<cls, svm, state, stage, todo, held, handlers, failedAt, misused>>

Pcie == cls \in {"pcie", "versal", "aws"}
HasIntcs == cls \in {"zynq", "aws"}

-----------------------------------------------------------------------------
(* The steps of tlkm_device_init *)

claim_device == <<"enabled", "regions">>
claim_msi == <<"msi">>

\* pcie_device_create; the private structs of Zynq and simulation are static
create == IF Pcie THEN <<"pdev">> \o claim_device \o <<"configure">> ELSE <<>>

status_init == <<"status_map">>
mmap_init == <<"arch_map", "plat_map">>

\* pcie_init_svm; "svm" publishes the data in pdev->svm_data and cannot fail
request_device_pages == <<"pagemap", "region", "remap">>
init_svm == <<"svm_data", "mem_block", "wq_fault", "wq_mem", "wq_pages",
              "irq_c2h", "irq_h2c", "irq_mmu">> \o request_device_pages \o <<"svm">>

\* pcie_device_init_subsystems; zynq_device_init_subsystems cannot fail
init_subsystems == (IF cls = "versal" THEN <<"qdma">> ELSE <<>>)
                   \o (IF Pcie THEN claim_msi ELSE <<>>)
                   \o (IF Pcie /\ svm THEN init_svm ELSE <<>>)

\* zynq_irq_init, pcie_aws_irqs_init: a handler per controller
init_interrupts == IF HasIntcs THEN [i \in 1 .. NumIntcs |-> "irq"] ELSE <<>>

\* Variant of device_init that sets up the subsystems before it maps the registers
device_init_early == <<"perfc", "ctrl">> \o create \o
                     IF cls = "sim" THEN <<>>
                     ELSE status_init \o <<"status">> \o init_subsystems
                          \o mmap_init \o init_interrupts

\* tlkm_device_init
device_init == <<"perfc", "ctrl">> \o create \o
               IF cls = "sim" THEN <<>>
               ELSE status_init \o <<"status">> \o mmap_init
                    \o init_subsystems \o init_interrupts

-----------------------------------------------------------------------------
(* The releases, in the order of the code *)

release_device == <<"regions", "enabled">>
release_msi == <<"msi">>

\* pcie_device_destroy
destroy == IF Pcie THEN release_msi \o release_device \o <<"pdev">> ELSE <<>>

\* zynq_irq_exit, pcie_aws_irqs_exit: the handler installed last goes first
exit_interrupts == IF HasIntcs THEN [i \in 1 .. NumIntcs |-> "irq"] ELSE <<>>

\* pcie_exit_svm, after the queues that free memory are flushed
exit_svm == <<"irq_mmu", "irq_h2c", "irq_c2h", "wq_fault", "wq_mem", "wq_pages", "svm">>

exit_subsystems == (IF Pcie /\ svm THEN exit_svm ELSE <<>>)
                   \o (IF Pcie THEN release_msi ELSE <<>>)
                   \o (IF cls = "versal" THEN <<"qdma">> ELSE <<>>)

status_exit == <<"status_map">>
mmap_exit == <<"plat_map", "arch_map">>

err_control == <<"perfc">>

\* Variant of err_priv that also destroys what could not be created
err_priv_destroy == destroy \o <<"ctrl">> \o err_control

err_priv == <<"ctrl">> \o err_control
err_ioremap_status == destroy \o err_priv
err_status == status_exit \o err_ioremap_status
err_ioremap == <<"status">> \o err_status

err_sub == mmap_exit \o err_ioremap

\* Variant of err_interrupts that leaves the subsystems
err_interrupts_only == err_sub

err_interrupts == exit_subsystems \o err_sub

\* The labels of pcie_init_svm, the last one first
fail_alloc == release_msi \o err_sub
fail_alloc_memblock == <<"svm_data">> \o fail_alloc
fail_workqueue_pagefault == <<"mem_block">> \o fail_alloc_memblock
fail_workqueue_devmemfree == <<"wq_fault">> \o fail_workqueue_pagefault
fail_workqueue_devpagesfree == <<"wq_mem">> \o fail_workqueue_devmemfree
fail_c2hintr == <<"wq_pages">> \o fail_workqueue_devpagesfree
fail_h2cintr == <<"irq_c2h">> \o fail_c2hintr
fail_mmuirq == <<"irq_h2c">> \o fail_h2cintr
fail_reqpages == <<"irq_mmu">> \o fail_mmuirq

\* The error path of zynq_irq_init and pcie_aws_irqs_init: it frees the line
\* that could not be requested, once for each handler, and none of theirs
free_lines == [k \in 1 .. handlers + 1 |-> "wrong_irq"]

\* Where a failing step jumps to: its own error path, then the caller's
unwind(s) ==
  CASE s = "perfc" -> <<>>
    [] s = "ctrl" -> err_control
    [] s = "pdev" -> err_priv
    [] s = "enabled" -> <<"pdev">> \o err_priv
    [] s = "regions" -> <<"enabled", "pdev">> \o err_priv
    [] s = "configure" -> release_device \o <<"pdev">> \o err_priv
    [] s = "status_map" -> err_ioremap_status
    [] s = "status" -> err_status
    [] s = "arch_map" -> err_ioremap
    [] s = "plat_map" -> <<"arch_map">> \o err_ioremap
    [] s \in {"qdma", "msi"} -> err_sub
    [] s = "svm_data" -> fail_alloc
    [] s = "mem_block" -> fail_alloc_memblock
    [] s = "wq_fault" -> fail_workqueue_pagefault
    [] s = "wq_mem" -> fail_workqueue_devmemfree
    [] s = "wq_pages" -> fail_workqueue_devpagesfree
    [] s = "irq_c2h" -> fail_c2hintr
    [] s = "irq_h2c" -> fail_h2cintr
    [] s = "irq_mmu" -> fail_mmuirq
    [] s = "pagemap" -> fail_reqpages
    [] s = "region" -> <<"pagemap">> \o fail_reqpages
    [] s = "remap" -> <<"region", "pagemap">> \o fail_reqpages
    [] s = "irq" -> free_lines \o err_interrupts

\* Variant of device_exit that releases the interrupts last
device_exit_late == exit_subsystems \o <<"status">> \o destroy \o status_exit
                    \o mmap_exit \o <<"ctrl", "perfc">>
                    \o exit_interrupts

\* tlkm_device_exit
device_exit == exit_interrupts \o exit_subsystems \o <<"status">>
               \o destroy \o status_exit \o mmap_exit \o <<"ctrl", "perfc">>

-----------------------------------------------------------------------------

Init == /\ cls \in Classes /\ svm \in BOOLEAN
        /\ state = "none" /\ stage = 0 /\ todo = <<>>
        /\ held = {} /\ handlers = 0 /\ failedAt = "no" /\ misused = FALSE

\* tlkm_bus_new_device, for a device of any class
New == /\ state = "none"
       /\ \E c \in Classes, m \in BOOLEAN : cls' = c /\ svm' = m
       /\ state' = "init" /\ stage' = 0 /\ failedAt' = "no"
       /\ held' = {} /\ handlers' = 0
       /\ UNCHANGED <<todo, misused>>

\* A configuration step and the parsing of the status core hold nothing
Resource(s) == {s} \ {"configure", "status", "irq"}

Step == /\ state = "init" /\ stage < Len(device_init)
        /\ held' = held \cup Resource(device_init[stage + 1])
        /\ handlers' = handlers + IF device_init[stage + 1] = "irq" THEN 1 ELSE 0
        /\ stage' = stage + 1
        /\ UNCHANGED <<cls, svm, state, todo, failedAt, misused>>

Fail == /\ state = "init" /\ stage < Len(device_init)
        /\ device_init[stage + 1] # "svm"
        /\ failedAt' = device_init[stage + 1]
        /\ todo' = unwind(device_init[stage + 1])
        /\ state' = "undo"
        /\ UNCHANGED <<cls, svm, stage, held, handlers, misused>>

Ready == /\ state = "init" /\ stage = Len(device_init)
         /\ state' = "ready"
         /\ UNCHANGED <<cls, svm, stage, todo, held, handlers, failedAt, misused>>

\* tlkm_bus_delete_device, for tlkm_pcie_remove and tlkm_bus_exit
Delete == /\ state = "ready"
          /\ todo' = device_exit
          /\ state' = "exit"
          /\ UNCHANGED <<cls, svm, stage, held, handlers, failedAt, misused>>

\* Releases that do nothing when there is nothing to release: iounmap is
\* guarded by the pointer, pci_free_irq_vectors and the status have no effect
Guarded == {"msi", "status", "status_map", "arch_map", "plat_map"}

Release == /\ state \in {"undo", "exit"} /\ todo # <<>>
           /\ held' = held \ {Head(todo)}
           /\ handlers' = handlers - IF Head(todo) = "irq" THEN 1 ELSE 0
           /\ misused' = (Head(todo) \notin held \cup Guarded \cup {"irq"})
           /\ todo' = Tail(todo)
           /\ UNCHANGED <<cls, svm, state, stage, failedAt>>

\* What the driver core releases when the device is detached
Devm == {"svm_data", "pagemap", "region", "remap"}

Done == /\ state \in {"undo", "exit"} /\ todo = <<>>
        /\ state' = "none" /\ stage' = 0 /\ misused' = FALSE
        /\ held' = held \ Devm
        /\ UNCHANGED <<cls, svm, todo, handlers, failedAt>>

Next == New \/ Step \/ Fail \/ Ready \/ Delete \/ Release \/ Done

Spec == Init /\ [][Next]_vars

-----------------------------------------------------------------------------

Resources == {"perfc", "ctrl", "pdev", "enabled", "regions", "status_map",
              "arch_map", "plat_map", "qdma", "msi"} \cup {init_svm[i] : i \in DOMAIN init_svm}

TypeOK == /\ cls \in Classes /\ svm \in BOOLEAN
          /\ state \in {"none", "init", "undo", "ready", "exit"}
          /\ stage \in 0 .. Len(device_init)
          /\ held \subseteq Resources /\ handlers \in 0 .. NumIntcs
          /\ misused \in BOOLEAN

\* What the code leaves behind when a step fails: QDMA stays initialised when
\* MSI-X or SVM fail after it, the handlers of the controllers before the one
\* that fails stay installed, and pcie_exit_svm does not free the list of free
\* blocks of device memory.
SvmSteps == {init_svm[i] : i \in DOMAIN init_svm}
Leaks == (IF cls = "versal" /\ failedAt \in {"msi"} \cup SvmSteps THEN {"qdma"} ELSE {})
         \cup (IF Pcie /\ svm /\ failedAt \in {"no", "irq"} THEN {"mem_block"} ELSE {})

\* However a bring-up ends that does not succeed, and after a removal, every
\* resource is released, the known leaks excepted.
NothingLeft ==
  state = "none" => held \subseteq Leaks /\ (failedAt # "irq" => handlers = 0)

\* The error ladders and the exit release nothing that is not held.  The error
\* path of the interrupts is excepted: its free_irq calls name the wrong line.
ReleasesHeld == misused => failedAt = "irq"

\* What runs or is torn down asynchronously finds what it uses: an installed
\* handler and the DMA and SVM subsystems need the mapped platform registers,
\* the private struct and, on PCIe, the MSI-X vectors; the page fault handler
\* queues work, and what that work frees is queued for the other two queues.
UsersAlive ==
  failedAt # "irq" /\ state # "none" =>
    /\ handlers > 0 => /\ "plat_map" \in held
                       /\ Pcie => {"pdev", "msi"} \subseteq held
    /\ "qdma" \in held => failedAt \in {"msi"} \cup SvmSteps \/ {"plat_map", "pdev"} \subseteq held
    /\ held \cap {"irq_c2h", "irq_h2c", "irq_mmu"} # {} => {"plat_map", "pdev", "msi"} \subseteq held
    /\ "irq_mmu" \in held => {"wq_fault", "wq_mem", "wq_pages", "svm_data"} \subseteq held
    /\ "msi" \in held => "enabled" \in held

\* The interrupt handlers of SVM find its data: pcie_init_svm installs them
\* before it sets pdev->svm_data, so this holds only of a device that raises
\* no interrupt before it is asked to.
HandlersFindData == "irq_mmu" \in held => "svm" \in held
=============================================================================
