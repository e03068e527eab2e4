--------------------------- MODULE DeviceIoctls ---------------------------
(***************************************************************************)
(* The calls on a device file: what the module answers for each class of    *)
(* device (tlkm_device_ioctl.c and the ioctl functions of the classes), the *)
(* pages that can be mapped (tlkm_device_mmap.c, tlkm_platform.c), and the  *)
(* calls libtapasco makes for a device of that class.                       *)
(***************************************************************************)
EXTENDS Integers, TLC

Classes == {"pcie", "zynq", "zynqmp", "sim"}

BufferCalls == {"dma_buffer_allocate", "dma_buffer_free", "dma_buffer_to_dev", "dma_buffer_from_dev",
                "kernel_buffer_allocate", "kernel_buffer_free", "kernel_buffer_map", "kernel_buffer_unmap"}
Memory == {"alloc", "free", "copyto", "copyfrom", "alloc_copyto", "copyfrom_free"}
SvmCalls == {"svm_launch", "svm_migrate_to_dev", "svm_migrate_to_ram"}

(* TLKM_DEV_IOCTL_CMDS; the first three are answered for every class.       *)
Common == {"info", "size", "reg_int"}
Commands == Common \cup Memory \cup {"read", "write"} \cup BufferCalls \cup {"bar_addr"} \cup SvmCalls

(* Each class has a function for every command; some only return -EFAULT.   *)
pcie_refused == Common \cup Memory
zynq_refused == Common \cup BufferCalls \cup {"bar_addr"}
zynq_svm_refused == SvmCalls
sim_refused == Common \cup BufferCalls \cup {"bar_addr"}
sim_svm_refused == SvmCalls

pcie_ioctl == Commands \ pcie_refused
zynq_ioctl == Commands \ (zynq_refused \cup zynq_svm_refused)
sim_ioctl == Commands \ (sim_refused \cup sim_svm_refused)

(* Mutant: the memory calls of a Zynq are refused as for PCIe.              *)
tlkm_device_ioctl_pcie(class, cmd) == cmd \in Common \cup pcie_ioctl

tlkm_device_ioctl(class, cmd) ==
  cmd \in Common \cup CASE class = "pcie" -> pcie_ioctl
                        [] class \in {"zynq", "zynqmp"} -> zynq_ioctl
                        [] class = "sim" -> sim_ioctl

(* addr2map_off: status core, architecture, platform, and with PCIe the     *)
(* buffers that are in the table.                                           *)
addr2map_off(class, page, buffers) ==
  page \in {0, 1, 2} \/ (class = "pcie" /\ page - 4 \in buffers)

(* tlkm_device_mmap: nothing is mapped for the simulation, whose registers  *)
(* are reached over the network.                                            *)
tlkm_device_mmap_ok(class, page, buffers) == class = "sim" \/ addr2map_off(class, page, buffers)

----------------------------------------------------------------------------
(* The calls of libtapasco on a device with the given memory management:    *)
(* Device::new, the allocator and the DMA it chooses, registering           *)
(* interrupts, and with PCIe the NVMe plugin.                               *)

LibCalls(class, svm) ==
  {"reg_int"} \cup CASE class = "pcie" /\ ~svm -> {"dma_buffer_allocate", "dma_buffer_to_dev",
                                                   "dma_buffer_from_dev", "bar_addr",
                                                   "kernel_buffer_allocate", "kernel_buffer_map"}
                     [] class = "pcie" /\ svm -> SvmCalls
                     [] class = "zynq" -> {"alloc", "free", "copyto", "copyfrom"}
                     [] class = "zynqmp" -> {}   \* VFIO
                     [] class = "sim" -> {}      \* gRPC

(* Status core, architecture, platform, then each buffer allocated so far.  *)
LibPages(class, svm, buffers) ==
  (IF class = "sim" THEN {1, 2} ELSE {0, 1, 2})
    \cup IF class = "pcie" /\ ~svm THEN {4 + b : b \in buffers} ELSE {}

VARIABLE request    \* the last call and whether it was served

IoctlInit == request = [class |-> "pcie", svm |-> FALSE, of |-> "info", served |-> TRUE]

Issue(class, svm) ==
  \/ \E cmd \in LibCalls(class, svm) :
       request' = [class |-> class, svm |-> svm, of |-> cmd, served |-> tlkm_device_ioctl(class, cmd)]
  \/ \E buffers \in {{}, {0}, {0, 1}} : \E page \in LibPages(class, svm, buffers) :
       request' = [class |-> class, svm |-> svm, of |-> ToString(page),
                   served |-> tlkm_device_mmap_ok(class, page, buffers)]

IoctlNext == \E class \in Classes, svm \in BOOLEAN : Issue(class, svm)

(* Whatever device libtapasco opens, the calls it makes are among those     *)
(* that the class of the device implements, and what it maps is there.      *)
EveryCallServed == request.served
=============================================================================
