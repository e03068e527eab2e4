---------------------------- MODULE PcieBuffers ----------------------------
(***************************************************************************)
(* The buffers a PCIe device keeps for its users (pcie_ioctl.c,             *)
(* pcie_device.c): a table of DMA buffers that user space maps, a list of   *)
(* general purpose kernel buffers, and the release of both when a device    *)
(* file is closed.  Calls on a device run one at a time, and memory can be  *)
(* mapped for DMA.  The callers are correct: they use the buffers they got, *)
(* map what is not mapped, and unmap before they free.                      *)
(***************************************************************************)
EXTENDS Integers, Sequences

CONSTANTS Procs, Mem,  \* processes, pieces of kernel memory
          NumBuffers,  \* TLKM_PCIE_NUM_DMA_BUFFERS
          MaxGp,       \* bound on the number of kernel buffers
          Shared,      \* may two processes have the device file open?
          Free         \* no buffer

ASSUME BufAssumption == /\ NumBuffers \in Nat /\ MaxGp \in Nat
                        /\ Free \notin Mem /\ Shared \in BOOLEAN

VARIABLES opened,      \* processes with an open device file
          dma_buffer,  \* the table: memory of each entry
          gp_buffer,   \* the list: id, memory, and whether dev_addr is set
          mem,         \* memory that is allocated
          mapped,      \* memory the device can access
          held,        \* per process: the buffers it was given
          views        \* DMA buffers mapped into processes

bufVars == <<opened, dma_buffer, gp_buffer, mem, mapped, held, views>>

BufInit ==
  /\ opened = {} /\ dma_buffer = [i \in 0 .. NumBuffers - 1 |-> Free] /\ gp_buffer = <<>>
  /\ mem = {} /\ mapped = {} /\ held = [p \in Procs |-> {}] /\ views = {}

OpenDevice(p) ==
  /\ p \notin opened /\ (Shared \/ opened = {})
  /\ opened' = opened \cup {p}
  /\ UNCHANGED <<dma_buffer, gp_buffer, mem, mapped, held, views>>

Handle(kind, id, m) == [kind |-> kind, id |-> id, buf |-> m]

(* The first free entry is used; the memory is mapped for the device.       *)
pcie_ioctl_dma_buffer_allocate(p) ==
  /\ p \in opened
  /\ \E i \in DOMAIN dma_buffer, m \in Mem \ mem :
       /\ dma_buffer[i] = Free /\ \A j \in 0 .. i - 1 : dma_buffer[j] # Free
       /\ dma_buffer' = [dma_buffer EXCEPT ![i] = m]
       /\ mem' = mem \cup {m} /\ mapped' = mapped \cup {m}
       /\ held' = [held EXCEPT ![p] = @ \cup {Handle("dma", i, m)}]
  /\ UNCHANGED <<opened, gp_buffer, views>>

pcie_ioctl_dma_buffer_free(p) ==
  /\ \E h \in held[p] :
       /\ h.kind = "dma" /\ <<p, h.buf>> \notin views
       /\ dma_buffer' = [dma_buffer EXCEPT ![h.id] = Free]
       /\ mem' = mem \ {dma_buffer[h.id]} /\ mapped' = mapped \ {dma_buffer[h.id]}
       /\ held' = [held EXCEPT ![p] = @ \ {h}]
  /\ UNCHANGED <<opened, gp_buffer, views>>

PAGE == 4096

(* The offset at which libtapasco maps a buffer.                            *)
BufferOffset(id) == (4 + id) * PAGE

(* Mutant: the pages in front of the buffers are miscounted.                *)
addr2map_shifted(addr) ==
  IF (addr \div PAGE) - 3 \in DOMAIN dma_buffer THEN dma_buffer[(addr \div PAGE) - 3] ELSE Free

(* addr2map_off above the three register spaces; Free when there is none.   *)
pcie_device_addr2map_off(addr) ==
  IF (addr \div PAGE) - 4 \in DOMAIN dma_buffer THEN dma_buffer[(addr \div PAGE) - 4] ELSE Free

tlkm_device_mmap(p) ==
  /\ \E h \in held[p] :
       /\ h.kind = "dma" /\ <<p, h.buf>> \notin views
       /\ LET m == pcie_device_addr2map_off(BufferOffset(h.id))
          IN m # Free /\ views' = views \cup {<<p, m>>}
  /\ UNCHANGED <<opened, dma_buffer, gp_buffer, mem, mapped, held>>

Munmap(p) ==
  /\ \E m \in Mem : <<p, m>> \in views /\ views' = views \ {<<p, m>>}
  /\ UNCHANGED <<opened, dma_buffer, gp_buffer, mem, mapped, held>>

(* Mutant: ids are counted by the length of the list.                       *)
kernel_buffer_id_length == Len(gp_buffer) + 1

kernel_buffer_id == IF gp_buffer = <<>> THEN 1 ELSE gp_buffer[Len(gp_buffer)].id + 1

pcie_ioctl_kernel_buffer_allocate(p) ==
  /\ p \in opened /\ Len(gp_buffer) < MaxGp /\ kernel_buffer_id <= 2 * MaxGp
  /\ \E m \in Mem \ mem :
       /\ gp_buffer' = Append(gp_buffer, [id |-> kernel_buffer_id, buf |-> m, dev_addr |-> FALSE])
       /\ mem' = mem \cup {m}
       /\ held' = [held EXCEPT ![p] = @ \cup {Handle("gp", kernel_buffer_id, m)}]
  /\ UNCHANGED <<opened, dma_buffer, mapped, views>>

(* The first entry of the list with the id.                                 *)
Found(id) == CHOOSE i \in DOMAIN gp_buffer : /\ gp_buffer[i].id = id
                                             /\ \A j \in 1 .. i - 1 : gp_buffer[j].id # id

kernel_buffer_set(p, on) ==
  /\ \E h \in held[p] :
       /\ h.kind = "gp" /\ gp_buffer[Found(h.id)].dev_addr = ~on
       /\ gp_buffer' = [gp_buffer EXCEPT ![Found(h.id)].dev_addr = on]
       /\ mapped' = IF on THEN mapped \cup {gp_buffer[Found(h.id)].buf}
                    ELSE mapped \ {gp_buffer[Found(h.id)].buf}
  /\ UNCHANGED <<opened, dma_buffer, mem, held, views>>

pcie_ioctl_kernel_buffer_map(p) == kernel_buffer_set(p, TRUE)

pcie_ioctl_kernel_buffer_unmap(p) == kernel_buffer_set(p, FALSE)

(* The loop returns after the first entry of the list: another buffer is    *)
(* not freed, although the call succeeds.                                   *)
pcie_ioctl_kernel_buffer_free(p) ==
  /\ \E h \in held[p] :
       /\ h.kind = "gp"
       /\ held' = [held EXCEPT ![p] = @ \ {h}]
       /\ IF Head(gp_buffer).id = h.id
          THEN /\ gp_buffer' = Tail(gp_buffer)
               /\ mem' = mem \ {Head(gp_buffer).buf} /\ mapped' = mapped \ {Head(gp_buffer).buf}
          ELSE UNCHANGED <<gp_buffer, mem, mapped>>
  /\ UNCHANGED <<opened, dma_buffer, views>>

(* Mutant: closing leaves the kernel buffers alone.                         *)
miscdev_close_dma(p) ==
  /\ p \in opened
  /\ opened' = opened \ {p}
  /\ dma_buffer' = [i \in DOMAIN dma_buffer |-> Free] /\ gp_buffer' = <<>>
  /\ LET freed == {dma_buffer[i] : i \in DOMAIN dma_buffer}
     IN mem' = mem \ freed /\ mapped' = mapped \ freed
  /\ held' = [held EXCEPT ![p] = {}]
  /\ views' = {v \in views : v[1] # p}

(* tlkm_control_release, pcie_device_miscdev_close: everything is released, *)
(* whoever closes.                                                          *)
pcie_device_miscdev_close(p) ==
  /\ p \in opened
  /\ opened' = opened \ {p}
  /\ dma_buffer' = [i \in DOMAIN dma_buffer |-> Free] /\ gp_buffer' = <<>>
  /\ LET freed == {dma_buffer[i] : i \in DOMAIN dma_buffer}
                    \cup {gp_buffer[i].buf : i \in DOMAIN gp_buffer}
     IN mem' = mem \ freed /\ mapped' = mapped \ freed
  /\ held' = [held EXCEPT ![p] = {}]
  /\ views' = {v \in views : v[1] # p}

BufNext ==
  \E p \in Procs :
    \/ OpenDevice(p) \/ pcie_device_miscdev_close(p)
    \/ pcie_ioctl_dma_buffer_allocate(p) \/ pcie_ioctl_dma_buffer_free(p)
    \/ tlkm_device_mmap(p) \/ Munmap(p)
    \/ pcie_ioctl_kernel_buffer_allocate(p) \/ pcie_ioctl_kernel_buffer_free(p)
    \/ pcie_ioctl_kernel_buffer_map(p) \/ pcie_ioctl_kernel_buffer_unmap(p)

BufSpec == BufInit /\ [][BufNext]_bufVars

----------------------------------------------------------------------------
(* Properties *)

InTable == {i \in DOMAIN dma_buffer : dma_buffer[i] # Free}

(* Memory is allocated exactly when the table or the list has it, once, and *)
(* the device can access a piece only as long as it is allocated: nothing   *)
(* is lost, freed twice, or left mapped.                                    *)
BuffersOwned ==
  LET table == {dma_buffer[i] : i \in InTable}
      list == {gp_buffer[i].buf : i \in DOMAIN gp_buffer}
  IN /\ mem = table \cup list /\ table \cap list = {}
     /\ \A i, j \in InTable : dma_buffer[i] = dma_buffer[j] => i = j
     /\ \A i, j \in DOMAIN gp_buffer : gp_buffer[i].buf = gp_buffer[j].buf => i = j
     /\ mapped = table \cup {gp_buffer[i].buf : i \in {j \in DOMAIN gp_buffer : gp_buffer[j].dev_addr}}

(* What a process was given stays its own until it gives it back or closes  *)
(* the file: the id finds the same memory, no other process has it, and its *)
(* pages show buffers it holds.                                             *)
HandlesValid ==
  \A p \in Procs :
    /\ \A h \in held[p] :
         /\ h.kind = "dma" => dma_buffer[h.id] = h.buf
         /\ h.kind = "gp" => /\ \E i \in DOMAIN gp_buffer : gp_buffer[i].id = h.id
                             /\ gp_buffer[Found(h.id)].buf = h.buf
         /\ \A q \in Procs \ {p} : \A g \in held[q] : g.buf # h.buf
    /\ \A m \in Mem : <<p, m>> \in views => \E h \in held[p] : h.buf = m

(* Both: memory is allocated exactly as long as the table or the list has   *)
(* it, and what a process was given stays its own.                          *)
BuffersKept == BuffersOwned /\ HandlesValid

(* A kernel buffer is gone once pcie_ioctl_kernel_buffer_free reports       *)
(* success: the list holds what some process holds.                         *)
FreedIsGone ==
  \A i \in DOMAIN gp_buffer : \E p \in Procs : \E h \in held[p] : h.buf = gp_buffer[i].buf
=============================================================================
