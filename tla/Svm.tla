-------------------------------- MODULE Svm --------------------------------
(***************************************************************************)
(* Shared virtual memory of PCIe devices (pcie_svm.c).  The pages of one    *)
(* process live in host memory or in the memory of a device, and move when  *)
(* the CPU or a device faults on them or the user asks for it.  Migrations  *)
(* hold the mmap lock of the process for writing; a CPU fault holds it for  *)
(* reading.  The MMU on the device, the page table and migrate_vma_* of     *)
(* Linux are external: they do what the driver relies on.                   *)
(***************************************************************************)
EXTENDS PageDma

CONSTANTS Empty,      \* a page that was never written
          Cpus,       \* threads of the process that may fault
          MaxFaults,  \* MAX_NUM_FAULTS
          MaxRange,   \* UMPM_MAX_PAGES
          MaxAccesses, \* bound on accesses a device has outstanding
          Launched,   \* devices on which SVM is launched initially
          UserRanges, \* ranges <<first page, pages>> of user managed migrations
          MaxEvents,  \* bound on what the process and the accelerators do
          Rare        \* what the environment may do besides: see RareEvents

RareEvents == {"refuse",     \* Linux collects or migrates no page, or has no memory
               "dma_error",  \* a command of the PageDMA core fails
               "busy_unmap", \* memory is unmapped while a device accesses it
               "relaunch"}   \* SVM is launched again by the same process

ASSUME RareAssumption == Rare \subseteq RareEvents

VARIABLES where,     \* page table: RAM, <<device, frame>>, Empty or None (unmapped)
          isolated,  \* pages that migrate_vma_setup has collected
          mmu,       \* per device: the MMU and the accelerator behind it
          svm,       \* per device: tlkm_pcie_svm_data
          worker,    \* per device: handle_iommu_page_fault and its faults
          user,      \* a user managed migration that waits for the mmap lock
          call,      \* what the holder of the mmap lock does, or NoCall
          mig,       \* the migration of a segment, or NoMig
          cpu,       \* per thread: svm_migrate_to_ram
          written,   \* pages that have been written
          events     \* what the process and the accelerators have done so far

svmVars == <<where, isolated, mmu, svm, worker, user, call, mig, cpu, written>>
vars == <<svmVars, events, dmaVars>>

NoCall == [by |-> None]
NoMig == [step |-> None]
NoUser == [target |-> None]

OnDevice(v) == where[v] \notin {RAM, Empty, None}
Frame(v) == where[v][2]

Both == {"intr", "issue"}   \* MMU_INTR_ENABLE | MMU_ISSUE_FAULT_ENABLE

(* A place holds what was last written to page v (v), zeros (0) or anything *)
(* else (Stale).  A write makes the other copies of the page stale.         *)
Content(v) == IF v \in written THEN v ELSE 0
Written(place, v) == [p \in Places |-> IF p = place THEN v
                                        ELSE IF mem[p] = v THEN Stale ELSE mem[p]]
WireAfter(v) == [d \in Devices |-> [i \in DOMAIN wire[d] |->
                   IF wire[d][i] = v THEN Stale ELSE wire[d][i]]]

IdleCpu == [step |-> "idle", page |-> None, from |-> None, src |-> None]

IdleMmu == [on |-> FALSE, intr |-> {}, tlb |-> [v \in Pages |-> None], fifo |-> <<>>,
            want |-> [v \in Pages |-> "no"], act |-> None]

(* pcie_init_svm: all device memory is one free block.                      *)
pcie_init_svm == [tree |-> {}, free |-> <<Block(0, Cardinality(Frames))>>, works |-> EmptyBag,
                  err |-> {}, phase |-> "down", env |-> FALSE, dying |-> 0]

invalidate_all(m) == [m EXCEPT !.tlb = [v \in Pages |-> None]]

(* The MMU after the commands of pcie_launch_svm; the accelerator starts    *)
(* afresh.                                                                  *)
launched(m) == [invalidate_all(m) EXCEPT !.intr = Both, !.on = TRUE,
                                         !.want = [v \in Pages |-> "no"]]

Init ==
  /\ mem = [p \in Places |-> Stale]
  /\ chan = [d \in Devices |-> [dir \in Dirs |-> IdleChannel]]
  /\ wire = [d \in Devices |-> <<>>]
  /\ where = [v \in Pages |-> Empty]
  /\ isolated = {}
  /\ mmu = [d \in Devices |-> IF d \in Launched THEN launched(IdleMmu) ELSE IdleMmu]
  /\ svm = [d \in Devices |-> IF d \in Launched
                              THEN [pcie_init_svm EXCEPT !.phase = "up", !.env = TRUE]
                              ELSE pcie_init_svm]
  /\ worker = [d \in Devices |-> [pc |-> "idle", faults |-> <<>>]]
  /\ user = NoUser /\ call = NoCall /\ mig = NoMig
  /\ cpu = [c \in Cpus |-> IdleCpu]
  /\ written = {} /\ events = 0

Accessed(d, v) == mmu[d].act # None /\ mmu[d].act.page = v
OnThis(d, v) == OnDevice(v) /\ where[v][1] = d

(* A step the environment takes a bounded number of times.                  *)
Event == events < MaxEvents /\ events' = events + 1

CpuIdle == \A c \in Cpus : cpu[c].step = "idle"
MmapFree == call = NoCall /\ CpuIdle     \* the mmap lock can be taken for writing

----------------------------------------------------------------------------
(* The MMU of a device: commands of the driver, as functions of its state.  *)

add_tlb_entry(m, v, f) == [m EXCEPT !.tlb[v] = f]

\* MMU_ADD_ENTRY for the first and the last page, MMU_ADD_AL_ENTRY for long runs between
add_tlb_range(m, lo, n, base) ==
  [m EXCEPT !.tlb = [v \in Pages |-> IF v \in lo .. lo + n - 1 THEN base + (v - lo) ELSE @[v]]]

(* Mutant: the last page keeps its entry.                                   *)
invalidate_tlb_range_short(m, lo, n) ==
  [m EXCEPT !.tlb = [v \in Pages |-> IF v \in lo .. lo + n - 2 THEN None ELSE @[v]]]

invalidate_tlb_range(m, lo, n) ==
  [m EXCEPT !.tlb = [v \in Pages |-> IF v \in lo .. lo + n - 1 THEN None ELSE @[v]]]

(* Mutant: nothing is tried again.                                          *)
start_fault_replay_none(m) == m

(* Accesses whose faults were issued are tried again.                       *)
start_fault_replay(m) ==
  [m EXCEPT !.want = [v \in Pages |-> IF @[v] = "issued" THEN "miss" ELSE @[v]]]

(* The accelerator accesses a page.                                         *)
DeviceAccess(d, v) ==
  /\ Event
  /\ mmu[d].on /\ mmu[d].want[v] = "no"
  /\ Cardinality({w \in Pages : mmu[d].want[w] # "no"}) < MaxAccesses
  /\ mmu' = [mmu EXCEPT ![d].want[v] = "miss"]
  /\ UNCHANGED <<where, isolated, svm, worker, user, call, mig, cpu, written, dmaVars>>

DeviceHit(d, v) ==
  /\ mmu[d].on /\ mmu[d].want[v] = "miss" /\ mmu[d].tlb[v] # None /\ mmu[d].act = None
  /\ mmu' = [mmu EXCEPT ![d].act = [page |-> v, frame |-> mmu[d].tlb[v]]]
  /\ UNCHANGED <<where, isolated, svm, worker, user, call, mig, cpu, written, events, dmaVars>>

DeviceWrites(d) ==
  /\ mmu[d].act # None
  /\ LET a == mmu[d].act
     IN /\ mem' = Written(Dev(d, a.frame), a.page)
        /\ wire' = WireAfter(a.page)
        /\ written' = written \cup {a.page}
        /\ mmu' = [mmu EXCEPT ![d].act = None, ![d].want[a.page] = "no"]
  /\ UNCHANGED <<where, isolated, svm, worker, user, call, mig, cpu, events, chan>>

IssueFault(d, v) ==
  /\ mmu[d].on /\ mmu[d].want[v] = "miss" /\ mmu[d].tlb[v] = None
  /\ "issue" \in mmu[d].intr
  /\ mmu' = [mmu EXCEPT ![d].want[v] = "issued", ![d].fifo = Append(@, v)]
  /\ UNCHANGED <<where, isolated, svm, worker, user, call, mig, cpu, written, events, dmaVars>>

----------------------------------------------------------------------------
(* Launch, teardown and the MMU notifier.                                   *)

pcie_launch_svm(d) ==
  /\ Event
  /\ svm[d].phase = "down" /\ svm[d].err = {}
  /\ "relaunch" \in Rare \/ (svm[d].dying = 0 /\ \A v \in Pages : ~OnThis(d, v))
  /\ svm' = [svm EXCEPT ![d].phase = "up", ![d].env = TRUE]
  /\ mmu' = [mmu EXCEPT ![d] = launched(@)]
  /\ UNCHANGED <<where, isolated, worker, user, call, mig, cpu, written, dmaVars>>

TeardownBegin(d) ==
  /\ Event
  /\ svm[d].phase = "up" /\ user = NoUser /\ call.by # "user"
  /\ "busy_unmap" \in Rare \/ mmu[d].act = None
  /\ svm' = [svm EXCEPT ![d].phase = "flush"]
  /\ mmu' = [mmu EXCEPT ![d] = [invalidate_all(@) EXCEPT !.intr = {}, !.on = FALSE]]
  /\ UNCHANGED <<where, isolated, worker, user, call, mig, cpu, written, dmaVars>>

(* The queue of page faults is flushed first.                               *)
TeardownEnd(d) ==
  /\ svm[d].phase = "flush" /\ worker[d].pc = "idle"
  /\ svm' = [svm EXCEPT ![d].phase = "down", ![d].tree = {}, ![d].dying = @ + 1]
  /\ UNCHANGED <<where, isolated, mmu, worker, user, call, mig, cpu, written, events, dmaVars>>

(* The notifier is freed after a grace period.                              *)
svm_free_mmu_notifier(d) ==
  /\ svm[d].dying > 0
  /\ svm' = [svm EXCEPT ![d].dying = @ - 1, ![d].env = FALSE]
  /\ UNCHANGED <<where, isolated, mmu, worker, user, call, mig, cpu, written, events, dmaVars>>

(* What the notifiers of devs do when pages lo .. lo + n - 1 are            *)
(* invalidated: the entries and the intervals of those on the device go.    *)
NotifiedMmu(devs, lo, n) ==
  [d \in Devices |-> IF d \in devs /\ svm[d].phase # "down"
                     THEN [mmu[d] EXCEPT !.tlb = [v \in Pages |->
                             IF v \in (lo .. lo + n - 1) \cap Covered(svm[d].tree) THEN None ELSE @[v]]]
                     ELSE mmu[d]]

(* Mutant: the intervals stay.                                              *)
svm_tlb_invalidate_range_kept(devs, lo, n) == svm

svm_tlb_invalidate_range_start(devs, lo, n) ==
  [d \in Devices |-> IF d \in devs /\ svm[d].phase # "down"
                     THEN [svm[d] EXCEPT !.tree =
                             LET parts == search_vmem_intervals(@, lo, n)
                                 cut[i \in 0 .. Len(parts)] ==
                                   IF i = 0 THEN @
                                   ELSE LET a == Max({parts[i].start, lo})
                                            b == Min({parts[i].last, lo + n - 1})
                                        IN remove_vmem_interval(cut[i - 1], a, b - a + 1)
                             IN cut[Len(parts)]]
                     ELSE svm[d]]

(* kernel_page_free: the last reference to the page of a frame is dropped.  *)
kernel_page_free(s, f) == [s EXCEPT !.works = @ (+) SetToBag({<<f>>})]

(* The process unmaps a page.                                               *)
Unmap(v) ==
  /\ Event
  /\ MmapFree /\ where[v] # None
  /\ \A d \in Devices : svm[d].phase # "flush"
  /\ "busy_unmap" \in Rare \/ \A d \in Devices : ~Accessed(d, v)
  /\ mmu' = NotifiedMmu(Devices, v, 1)
  /\ LET s == svm_tlb_invalidate_range_start(Devices, v, 1)
     IN svm' = IF OnDevice(v) THEN [s EXCEPT ![where[v][1]] = kernel_page_free(@, Frame(v))] ELSE s
  /\ where' = [where EXCEPT ![v] = None] /\ written' = written \ {v}
  /\ mem' = Dropped({IF OnDevice(v) THEN Dev(where[v][1], Frame(v)) ELSE Host(v)})
  /\ UNCHANGED <<isolated, worker, user, call, mig, cpu, chan, wire>>

(* The process ends and its memory goes; another one follows.               *)
ProcessExit ==
  /\ Event
  /\ MmapFree /\ \A d \in Devices : svm[d].phase = "down"
  /\ \E v \in Pages : where[v] # Empty
  /\ svm' = [d \in Devices |->
               [svm[d] EXCEPT !.works = @ (+) SetToBag(
                  {<<Frame(v)>> : v \in {w \in Pages : OnThis(d, w)}})]]
  /\ where' = [v \in Pages |-> Empty] /\ written' = {}
  /\ mem' = [p \in Places |-> Stale]
  /\ UNCHANGED <<isolated, mmu, worker, user, call, mig, cpu, chan, wire>>

(* handle_device_memory_free, handle_device_pages_free: a worker frees the  *)
(* frames of a work item.                                                   *)
FreeFrames(d) ==
  \E pages \in BagToSet(svm[d].works) :
    /\ svm' = [svm EXCEPT ![d].works = @ (-) SetToBag({pages}),
                          ![d].free = handle_device_pages_free(@, pages)]
    /\ UNCHANGED <<where, isolated, mmu, worker, user, call, mig, cpu, written, events, dmaVars>>

----------------------------------------------------------------------------
(* The CPU: svm_migrate_to_ram.                                             *)

CpuWrite(v) ==
  /\ Event
  /\ where[v] \in {RAM, Empty} /\ v \notin isolated
  /\ mem' = Written(Host(v), v)
  /\ wire' = WireAfter(v)
  /\ written' = written \cup {v}
  /\ where' = [where EXCEPT ![v] = RAM]
  /\ UNCHANGED <<isolated, mmu, svm, worker, user, call, mig, cpu, chan>>

CpuFault(c, v) ==
  /\ Event
  /\ call = NoCall /\ cpu[c].step = "idle"
  /\ OnDevice(v) /\ \A x \in Cpus : cpu[x].step # "idle" => cpu[x].page # v
  /\ mmu' = [mmu EXCEPT ![where[v][1]] = invalidate_tlb_range(@, v, 1)]
  /\ cpu' = [cpu EXCEPT ![c] = [step |-> "settle", page |-> v, from |-> where[v][1],
                                src |-> None]]
  /\ UNCHANGED <<where, isolated, svm, worker, user, call, mig, written, dmaVars>>

(* The active access to the page ends before the page is collected.         *)
CpuSettle(c) ==
  /\ cpu[c].step = "settle"
  /\ ~Accessed(cpu[c].from, cpu[c].page)
  /\ \/ isolated' = isolated \cup {cpu[c].page} /\ cpu' = [cpu EXCEPT ![c].step = "source"]
     \/ "refuse" \in Rare /\ cpu' = [cpu EXCEPT ![c] = IdleCpu] /\ UNCHANGED isolated
  /\ UNCHANGED <<where, mmu, svm, worker, user, call, mig, written, events, dmaVars>>

(* init_c2h_dma writes the registers one after the other.  src is what the  *)
(* source register holds for the command of the thread.                     *)
CpuSource(c) ==
  /\ cpu[c].step = "source"
  /\ cpu' = [x \in Cpus |->
               LET over == cpu[x].step = "start" /\ cpu[x].from = cpu[c].from
               IN IF x # c /\ ~over THEN cpu[x]
                  ELSE [cpu[x] EXCEPT !.step = "start", !.src = Frame(cpu[c].page)]]
  /\ UNCHANGED <<where, isolated, mmu, svm, worker, user, call, mig, written, events, dmaVars>>

CpuStart(c) ==
  /\ cpu[c].step = "start"
  /\ LET d == cpu[c].from
     IN chan' = [chan EXCEPT ![d]["c2h"] =
          Posted(@, <<[src |-> Dev(d, cpu[c].src), dst |-> Host(cpu[c].page), n |-> 1]>>)]
  /\ cpu' = [cpu EXCEPT ![c].step = "poll"]
  /\ UNCHANGED <<where, isolated, mmu, svm, worker, user, call, mig, written, events, mem, wire>>

(* The page is in RAM, its frame is freed and its interval removed; after a *)
(* failed transfer it stays on the device.                                  *)
CpuDone(c) ==
  LET v == cpu[c].page
      d == cpu[c].from
  IN /\ cpu[c].step = "poll" /\ ~Busy(d, "c2h")
     /\ IF chan[d]["c2h"].error
        THEN mem' = Dropped({Host(v)}) /\ UNCHANGED <<where, svm>>
        ELSE /\ where' = [where EXCEPT ![v] = RAM]
             /\ svm' = [svm EXCEPT ![d] = [kernel_page_free(@, Frame(v)) EXCEPT
                                            !.tree = remove_vmem_interval(@, v, 1)]]
             /\ mem' = Dropped({Dev(d, Frame(v))})
     /\ isolated' = isolated \ {v}
     /\ cpu' = [cpu EXCEPT ![c] = IdleCpu]
     /\ UNCHANGED <<mmu, worker, user, call, mig, written, events, chan, wire>>

svm_migrate_to_ram(c) ==
  (\E v \in Pages : CpuFault(c, v)) \/ CpuSettle(c) \/ CpuSource(c) \/ CpuStart(c) \/ CpuDone(c)

----------------------------------------------------------------------------
(* A call that holds the mmap lock migrates the segments of a plan.         *)

trees == [d \in Devices |-> svm[d].tree]

First(plan, target) ==
  IF plan = <<>> THEN NoMig
  ELSE LET s == Head(plan)
       IN [step |-> IF s.from = RAM THEN "setup" ELSE "off", from |-> s.from, to |-> target,
           lo |-> s.lo, n |-> s.n, base |-> None, script |-> <<>>, cnt |-> 0, wait |-> "no",
           retried |-> FALSE]

Rest(plan) == IF plan = <<>> THEN plan ELSE Tail(plan)

Begin(by, target, plan) ==
  /\ mig' = First(plan, target)
  /\ call' = [by |-> by, target |-> target, plan |-> Rest(plan), failed |-> FALSE]

----------------------------------------------------------------------------
(* Device page faults: handle_iommu_page_fault.                             *)

iommu_page_fault_handler(d) ==
  /\ mmu[d].fifo # <<>> /\ "intr" \in mmu[d].intr /\ worker[d].pc = "idle"
  /\ mmu' = [mmu EXCEPT ![d].intr = {"issue"}]
  /\ worker' = [worker EXCEPT ![d].pc = "read"]
  /\ UNCHANGED <<where, isolated, svm, user, call, mig, cpu, written, events, dmaVars>>

(* The faults are read while no more are issued; without any, the handler   *)
(* ends.                                                                    *)
ReadFaults(d) ==
  /\ worker[d].pc = "read"
  /\ LET k == Smaller(Len(mmu[d].fifo), MaxFaults)
     IN /\ worker' = [worker EXCEPT ![d] =
                        [pc |-> IF k = 0 THEN "idle" ELSE "lock",
                         faults |-> remove_duplicates(Sorted(SubSeq(mmu[d].fifo, 1, k)))]]
        /\ mmu' = [mmu EXCEPT ![d].fifo = SubSeq(@, k + 1, Len(@)),
                              ![d].intr = IF k = 0 THEN Both ELSE {}]
  /\ UNCHANGED <<where, isolated, svm, user, call, mig, cpu, written, events, dmaVars>>

(* svm_perform_ptw: the frame of a page on a device, or None.               *)
svm_perform_ptw(v) == IF OnDevice(v) THEN Frame(v) ELSE None

(* Under the lock, pages that are present get a TLB entry and are done; the *)
(* others are migrated run by run, and without any the handler ends.        *)
Present(d) == {v \in Range(worker[d].faults) : is_page_present(svm[d].tree, v)}
Missing(d) == pack_array([i \in DOMAIN worker[d].faults |->
                IF worker[d].faults[i] \in Present(d) THEN 0 ELSE worker[d].faults[i]])

FaultPlan(d, rest) ==
  LET runs == Runs(Len(rest), is_contiguous(rest), Len(rest))
  IN FlattenSeq([i \in DOMAIN runs |->
                   svm_migrate_to_device(trees, d, rest[runs[i].at + 1], runs[i].len)])

HandleFaults(d) ==
  /\ worker[d].pc = "lock" /\ MmapFree
  /\ LET filled == [mmu[d] EXCEPT !.tlb = [v \in Pages |->
                      IF v \in Present(d) /\ svm_perform_ptw(v) # None THEN svm_perform_ptw(v) ELSE @[v]]]
     IN \E rest \in {Missing(d)} :
          IF rest = <<>>
          THEN /\ mmu' = [mmu EXCEPT ![d] = [start_fault_replay(filled) EXCEPT !.intr = Both]]
               /\ worker' = [worker EXCEPT ![d] = [pc |-> "idle", faults |-> <<>>]]
               /\ UNCHANGED <<call, mig>>
          ELSE /\ mmu' = [mmu EXCEPT ![d] = filled]
               /\ worker' = [worker EXCEPT ![d] = [pc |-> "migrate", faults |-> <<>>]]
               /\ \E plan \in {FaultPlan(d, rest)} : Begin(d, d, plan)
  /\ UNCHANGED <<where, isolated, svm, user, cpu, written, events, dmaVars>>

(* A failed migration has disabled the MMU and ends the handler with its    *)
(* interrupt off; otherwise it looks for more faults.                       *)
FaultsHandled(d) ==
  /\ call.by = d /\ mig = NoMig
  /\ mmu' = [mmu EXCEPT ![d] = [start_fault_replay(@) EXCEPT !.intr = {"issue"}]]
  /\ worker' = [worker EXCEPT ![d].pc = IF call.failed THEN "idle" ELSE "read"]
  /\ call' = NoCall
  /\ UNCHANGED <<where, isolated, svm, user, mig, cpu, written, events, dmaVars>>

----------------------------------------------------------------------------
(* User managed migrations of pages lo .. lo + n - 1.                       *)

(* The error state is looked at before the lock is taken.                   *)
UserRequest(d, target, lo, n) ==
  /\ Event
  /\ user = NoUser /\ call.by # "user"
  /\ svm[d].phase = "up" /\ svm[d].err = {}
  /\ user' = [target |-> target, lo |-> lo, n |-> n]
  /\ UNCHANGED <<where, isolated, mmu, svm, worker, call, mig, cpu, written, dmaVars>>

(* The range in blocks of MaxRange.                                         *)
Blocks(s) == [i \in 1 .. (s.n + MaxRange - 1) \div MaxRange |->
               Segment(s.from, s.lo + (i - 1) * MaxRange,
                       Smaller(MaxRange, s.n - (i - 1) * MaxRange))]

pcie_svm_user_managed_migration_to_device(d, lo, n) ==
  LET blocks == Blocks(Segment(RAM, lo, n))
  IN FlattenSeq([i \in DOMAIN blocks |->
                   svm_migrate_to_device(trees, d, blocks[i].lo, blocks[i].n)])

(* The intervals of each device in turn, clipped to the range.              *)
pcie_svm_user_managed_migration_to_ram(lo, n) ==
  LET found(d) == search_vmem_intervals(svm[d].tree, lo, n)
      clip(d, node) == LET a == Max({node.start, lo})
                           b == Min({node.last, lo + n - 1})
                       IN Blocks(Segment(d, a, b - a + 1))
      devs == SetToSeq(Devices)
  IN FlattenSeq([k \in DOMAIN devs |->
       FlattenSeq([i \in DOMAIN found(devs[k]) |-> clip(devs[k], found(devs[k])[i])])])

UserLock ==
  /\ user # NoUser /\ MmapFree
  /\ \E plan \in {IF user.target # RAM
                  THEN pcie_svm_user_managed_migration_to_device(user.target, user.lo, user.n)
                  ELSE pcie_svm_user_managed_migration_to_ram(user.lo, user.n)} :
       Begin("user", user.target, plan)
  /\ user' = NoUser
  /\ UNCHANGED <<where, isolated, mmu, svm, worker, cpu, written, events, dmaVars>>

UserReturn ==
  /\ call.by = "user" /\ mig = NoMig
  /\ call' = NoCall
  /\ UNCHANGED <<where, isolated, mmu, svm, worker, user, mig, cpu, written, events, dmaVars>>

----------------------------------------------------------------------------
(* The migration of a segment: svm_migrate_ram_to_dev, _dev_to_dev and      *)
(* _dev_to_ram.  base is the first frame allocated on the target.           *)

SegmentPages == mig.lo .. mig.lo + mig.n - 1
SourceFrames == [i \in 1 .. mig.n |-> Frame(mig.lo + i - 1)]
FromDevice == mig.from # RAM
ToDevice == mig.to # RAM

Buffers == {Buffer(i) : i \in 0 .. BufferPages - 1}
SourcePlaces == IF FromDevice THEN {Dev(mig.from, f) : f \in Range(SourceFrames)}
                ELSE {Host(v) : v \in SegmentPages}
TargetPlaces == IF ~ToDevice THEN {Host(v) : v \in SegmentPages}
                ELSE IF mig.base = None THEN {}
                ELSE {Dev(mig.to, f) : f \in mig.base .. mig.base + mig.n - 1}

(* The segments left after a failure: none on the way to a device; on the   *)
(* way to RAM only the interval is given up.                                *)
AfterFailure(plan) ==
  IF ToDevice THEN <<>>
  ELSE SelectSeq(plan, LAMBDA s : s.from # mig.from \/
         ~\E node \in svm[mig.from].tree : {mig.lo, s.lo} \subseteq PagesOf(node))

(* The end of a segment.  The page-fault handler disables the MMU after a   *)
(* failure.                                                                 *)
SegmentEnds(ok, m, s) ==
  /\ LET plan == IF ok THEN call.plan ELSE AfterFailure(call.plan)
     IN /\ mig' = First(plan, call.target)
        /\ call' = [call EXCEPT !.plan = Rest(plan), !.failed = @ \/ ~ok]
  /\ IF ~ok /\ call.by \in Devices
     THEN /\ mmu' = [m EXCEPT ![call.by].on = FALSE]
          /\ svm' = [s EXCEPT ![call.by].err = @ \cup {"mmu"}]
     ELSE mmu' = m /\ svm' = s

(* Moves from a device stop its accesses first.                             *)
StopAccesses ==
  /\ mig.step = "off"
  /\ mmu' = [mmu EXCEPT ![mig.from] = [invalidate_tlb_range(@, mig.lo, mig.n) EXCEPT !.on = FALSE]]
  /\ mig' = [mig EXCEPT !.step = "setup"]
  /\ UNCHANGED <<where, isolated, svm, worker, user, call, cpu, written, events, dmaVars>>

(* No access is active any more.                                            *)
Settled == mig.step = "setup" /\ (FromDevice => mmu[mig.from].act = None)

(* Between devices the MMU is activated again before the pages are          *)
(* collected.                                                               *)
Resumed(m) == IF FromDevice /\ ToDevice THEN [m EXCEPT ![mig.from].on = TRUE] ELSE m

(* The MMU of the source after a migration to RAM.                          *)
Reactivated(m) == IF FromDevice /\ ~ToDevice THEN [m EXCEPT ![mig.from].on = TRUE] ELSE m

(* All pages are mapped and reside where they are expected.                 *)
Collectable == \A v \in SegmentPages :
                 IF FromDevice THEN OnThis(mig.from, v)
                 ELSE where[v] \in {RAM, Empty}

(* The notifiers of the devices other than the owner are called.            *)
Setup ==
  /\ Settled /\ Collectable
  /\ LET others == Devices \ {IF FromDevice THEN mig.from ELSE mig.to}
     IN /\ mmu' = Resumed(NotifiedMmu(others, mig.lo, mig.n))
        /\ svm' = svm_tlb_invalidate_range_start(others, mig.lo, mig.n)
  /\ isolated' = isolated \cup SegmentPages
  /\ mig' = [mig EXCEPT !.step = "alloc"]
  /\ UNCHANGED <<where, worker, user, call, cpu, written, events, dmaVars>>

(* Without a VMA, or when not all pages are collected after some retries.   *)
SetupFails ==
  /\ Settled /\ (~Collectable \/ "refuse" \in Rare)
  /\ SegmentEnds(FALSE, Reactivated(Resumed(mmu)), svm)
  /\ UNCHANGED <<where, isolated, worker, user, cpu, written, events, dmaVars>>

(* Frames of the target, or pages of the host, and what is to be copied.    *)
Allocate ==
  /\ mig.step = "alloc"
  /\ IF ToDevice
     THEN LET base == AllocAddr(svm[mig.to].free, mig.n)
          IN /\ base # None
             /\ svm' = [svm EXCEPT ![mig.to].free = allocate_device_memory(@, mig.n)]
             /\ mig' = [mig EXCEPT !.step = "copy", !.base = base, !.script =
                          IF FromDevice THEN copy_dev_to_dev(mig.from, mig.to, SourceFrames, base)
                          ELSE copy_ram_to_dev(mig.to, mig.lo, mig.n,
                                 {v \in SegmentPages : where[v] = Empty}, base)]
     ELSE /\ mig' = [mig EXCEPT !.step = "copy",
                               !.script = copy_dev_to_ram(mig.from, mig.lo, SourceFrames)]
          /\ UNCHANGED svm
  /\ UNCHANGED <<where, isolated, mmu, worker, user, call, cpu, written, events, dmaVars>>

(* Mutant: the frames are forgotten.                                        *)
FramesForgotten(s) == s

(* The pages of the frames allocated for a segment are put.                 *)
FramesPut(s) ==
  IF mig.base = None THEN s
  ELSE [s EXCEPT ![mig.to].works = @ (+) SetToBag({<<f>> : f \in mig.base .. mig.base + mig.n - 1})]

(* fail_dma, fail_dmamap, fail_allocmem, fail_allocpage: frames and pages   *)
(* are given back.                                                          *)
GiveUp(s) ==
  /\ isolated' = isolated \ SegmentPages
  /\ mem' = Dropped(TargetPlaces \cup Buffers)
  /\ SegmentEnds(FALSE, Reactivated(mmu), s)

AllocateFails ==
  /\ mig.step = "alloc"
  /\ IF ToDevice THEN AllocAddr(svm[mig.to].free, mig.n) = None ELSE "refuse" \in Rare
  /\ GiveUp(svm)
  /\ UNCHANGED <<where, worker, user, cpu, written, events, chan, wire>>

----------------------------------------------------------------------------
(* The script of a copy.  cnt is cmd_cnt.                                   *)

Copying == mig.step = "copy" /\ mig.script # <<>>
Item == Head(mig.script)
Channel == chan[Item.dev][Item.dir]

(* When CmdLimit commands were posted, the count is read from the core.     *)
PostCommands ==
  /\ Copying /\ Item.op = "post" /\ mig.wait = "no"
  /\ LET cnt == IF Item.limited /\ mig.cnt >= CmdLimit THEN Len(Channel.queue) ELSE mig.cnt
     IN /\ ~(Item.limited /\ cnt >= CmdLimit)
        /\ mig' = [mig EXCEPT !.cnt = cnt + 1, !.script = Tail(@)]
        /\ chan' = [chan EXCEPT ![Item.dev][Item.dir] = Posted(@, Item.cmds)]
  /\ UNCHANGED <<where, isolated, mmu, svm, worker, user, call, cpu, written, events, mem, wire>>

(* Mutant: the channel is not waited for.                                   *)
PollOnce ==
  /\ Copying /\ Item.op = "wait" /\ Item.poll /\ ~Channel.error
  /\ mig' = [mig EXCEPT !.script = Tail(@), !.cnt = 0]
  /\ UNCHANGED <<where, isolated, mmu, svm, worker, user, call, cpu, written, events, dmaVars>>

(* wait_for_c2h_intr and wait_for_h2c_intr: poll the channel ...            *)
Poll ==
  /\ Copying /\ Item.op = "wait" /\ Item.poll /\ Channel.queue = <<>> /\ ~Channel.error
  /\ mig' = [mig EXCEPT !.script = Tail(@), !.cnt = 0]
  /\ UNCHANGED <<where, isolated, mmu, svm, worker, user, call, cpu, written, events, dmaVars>>

(* ... or enable its interrupt and sleep until the handler sets the flag.   *)
Sleep ==
  /\ Copying /\ mig.wait = "no"
  /\ \/ Item.op = "wait" /\ ~Item.poll
     \/ /\ Item.op = "post" /\ Item.limited /\ mig.cnt >= CmdLimit
        /\ Len(Channel.queue) >= CmdLimit
  /\ mig' = [mig EXCEPT !.wait = "sleep"]
  /\ chan' = [chan EXCEPT ![Item.dev][Item.dir] = Enabled(@)]
  /\ UNCHANGED <<where, isolated, mmu, svm, worker, user, call, cpu, written, events, mem, wire>>

(* The flag is reset and the interrupt disabled.                            *)
Wake ==
  /\ Copying /\ mig.wait = "sleep" /\ Channel.flag
  /\ chan' = [chan EXCEPT ![Item.dev][Item.dir] = Disabled([@ EXCEPT !.flag = FALSE])]
  /\ mig' = [mig EXCEPT !.wait = "no", !.cnt = 0,
                        !.script = IF Item.op = "wait" THEN Tail(@) ELSE @]
  /\ UNCHANGED <<where, isolated, mmu, svm, worker, user, call, cpu, written, events, mem, wire>>

(* The status registers that are read once all is copied.                   *)
Errors == (FromDevice /\ chan[mig.from]["c2h"].error) \/ (ToDevice /\ chan[mig.to]["h2c"].error)

(* The copy failed: a poll found an error, or an error flag is set.         *)
CopyFails ==
  /\ mig.step = "copy"
  /\ \/ mig.script = <<>> /\ Errors
     \/ Copying /\ Item.op = "wait" /\ Item.poll /\ Channel.queue = <<>> /\ Channel.error
  /\ GiveUp(FramesPut(svm))
  /\ UNCHANGED <<where, worker, user, cpu, written, events, chan, wire>>

(* Linux does not migrate the pages after all.  From RAM it is tried again, *)
(* once here: the code counts the tries from an uninitialised value.        *)
MigrateRefused ==
  /\ mig.step = "copy" /\ mig.script = <<>> /\ ~Errors /\ "refuse" \in Rare
  /\ Event
  /\ \/ GiveUp(FramesPut(svm))
     \/ /\ ~FromDevice /\ ~mig.retried
        /\ isolated' = isolated \ SegmentPages
        /\ mem' = Dropped(TargetPlaces)
        /\ svm' = FramesPut(svm)
        /\ mig' = [mig EXCEPT !.step = "setup", !.base = None, !.cnt = 0, !.retried = TRUE]
        /\ UNCHANGED <<mmu, call>>
  /\ UNCHANGED <<where, worker, user, cpu, written, chan, wire>>

(* All is copied: the pages get their new place, the target its TLB entries *)
(* and its interval, and the source gives up frames and interval.           *)
Commit ==
  /\ mig.step = "copy" /\ mig.script = <<>> /\ ~Errors
  /\ where' = [v \in Pages |-> IF v \notin SegmentPages THEN where[v]
                                ELSE IF ToDevice THEN <<mig.to, mig.base + (v - mig.lo)>>
                                ELSE RAM]
  /\ isolated' = isolated \ SegmentPages
  /\ mem' = Dropped(SourcePlaces \cup Buffers)
  /\ LET s == IF FromDevice
              THEN [svm EXCEPT ![mig.from].works = @ (+) SetToBag({SourceFrames}),
                               ![mig.from].tree = remove_vmem_interval(@, mig.lo, mig.n)]
              ELSE svm
     IN SegmentEnds(TRUE,
          IF ToDevice THEN [mmu EXCEPT ![mig.to] = add_tlb_range(@, mig.lo, mig.n, mig.base)]
          ELSE Reactivated(mmu),
          IF ToDevice THEN [s EXCEPT ![mig.to].tree = insert_vmem_interval(@, mig.lo, mig.n)]
          ELSE s)
  /\ UNCHANGED <<worker, user, cpu, written, events, chan, wire>>

----------------------------------------------------------------------------
(* The steps of the PageDMA cores.  At most one command fails.              *)
Core(d, dir) ==
  /\ \/ Execute(d, dir) /\ UNCHANGED events
     \/ /\ "dma_error" \in Rare /\ Event
        /\ \A e \in Devices : \A x \in Dirs : ~chan[e][x].error
        /\ ExecuteFails(d, dir)
     \/ svm_intr_handler(d, dir) /\ UNCHANGED events
  /\ UNCHANGED svmVars

Migration ==
  \/ StopAccesses \/ Setup \/ SetupFails \/ Allocate \/ AllocateFails
  \/ PostCommands \/ Poll \/ Sleep \/ Wake \/ CopyFails \/ MigrateRefused \/ Commit

Handler(d) == iommu_page_fault_handler(d) \/ ReadFaults(d) \/ HandleFaults(d) \/ FaultsHandled(d)

Device(d) == \E v \in Pages : DeviceHit(d, v) \/ IssueFault(d, v)

Process ==
  \/ UserLock \/ UserReturn
  \/ \E d \in Devices, r \in UserRanges :
       UserRequest(d, d, r[1], r[2]) \/ UserRequest(d, RAM, r[1], r[2])
  \/ \E v \in Pages : CpuWrite(v) \/ Unmap(v)
  \/ ProcessExit

Next ==
  \/ Process \/ Migration
  \/ \E c \in Cpus : svm_migrate_to_ram(c)
  \/ \E d \in Devices :
       \/ pcie_launch_svm(d) \/ TeardownBegin(d) \/ TeardownEnd(d) \/ svm_free_mmu_notifier(d)
       \/ (\E v \in Pages : DeviceAccess(d, v)) \/ Device(d) \/ DeviceWrites(d)
       \/ Handler(d) \/ FreeFrames(d)
       \/ \E dir \in Dirs : Core(d, dir)

(* The mmap lock is a fair lock, and a replayed access is far shorter than  *)
(* a migration: who asks for the lock, or finds a translation, again and    *)
(* again gets it.                                                           *)
Fairness ==
  /\ WF_vars(Migration) /\ SF_vars(UserLock) /\ WF_vars(UserReturn)
  /\ \A c \in Cpus : WF_vars(CpuSettle(c) \/ CpuSource(c) \/ CpuStart(c) \/ CpuDone(c))
  /\ \A d \in Devices :
       /\ WF_vars(\E v \in Pages : IssueFault(d, v))
       /\ SF_vars(\E v \in Pages : DeviceHit(d, v)) /\ WF_vars(DeviceWrites(d))
       /\ SF_vars(HandleFaults(d))
       /\ WF_vars(iommu_page_fault_handler(d) \/ ReadFaults(d) \/ FaultsHandled(d))
       /\ \A dir \in Dirs : WF_vars(Core(d, dir))

Spec == Init /\ [][Next]_vars /\ Fairness
----------------------------------------------------------------------------
(* Failures that the driver does not survive intact; the specification      *)
(* above leaves them out.                                                   *)

(* The page that cannot be mapped is put by the check and on the way out.   *)
MapFails ==
  /\ mig.step = "copy" /\ mig.cnt = 0 /\ ToDevice /\ ~FromDevice
  /\ \E f \in mig.base .. mig.base + mig.n - 1 :
       GiveUp([FramesPut(svm) EXCEPT ![mig.to].works = @ (+) SetToBag({<<f>>})])
  /\ UNCHANGED <<where, worker, user, cpu, written, events, chan, wire>>

(* A timeout or a signal ends the wait; the interrupt is disabled after it. *)
WaitFails(result) ==
  /\ Copying /\ mig.wait = "sleep" /\ ~Channel.flag
  /\ chan' = [chan EXCEPT ![Item.dev][Item.dir] = Disabled(@)]
  /\ GiveUp(FramesPut(IF result = "timeout" THEN [svm EXCEPT ![Item.dev].err = @ \cup {"dma"}] ELSE svm))
  /\ UNCHANGED <<where, worker, user, cpu, written, events, wire>>

(* The interrupt handler has no memory for the work item.                   *)
NoWork(d) ==
  /\ mmu[d].fifo # <<>> /\ "intr" \in mmu[d].intr /\ worker[d].pc = "idle"
  /\ mmu' = [mmu EXCEPT ![d].intr = {"issue"}]
  /\ UNCHANGED <<where, isolated, svm, worker, user, call, mig, cpu, written, events, dmaVars>>

SpecMapFails == Init /\ [][Next \/ MapFails]_vars
SpecWaitFails == Init /\ [][Next \/ \E r \in {"timeout", "signal"} : WaitFails(r)]_vars
SpecNoWork == Init /\ [][Next \/ \E d \in Devices : NoWork(d)]_vars /\ Fairness

----------------------------------------------------------------------------
(* Properties *)

(* The number of owners frame f of device d has: free blocks, work items    *)
(* that will free it, pages in it and the migration that allocated it.      *)
Owners(d, f) ==
  LET InWork(pages) == f \in Range(pages)
  IN Cardinality({i \in DOMAIN svm[d].free :
                    f \in svm[d].free[i].base .. svm[d].free[i].base + svm[d].free[i].size - 1})
     + FoldSet(LAMBDA p, n : n + svm[d].works[p], 0, {p \in BagToSet(svm[d].works) : InWork(p)})
     + Cardinality({v \in Pages : where[v] = <<d, f>>})
     + (IF mig # NoMig /\ mig.to = d /\ mig.base # None /\ f \in mig.base .. mig.base + mig.n - 1
        THEN 1 ELSE 0)

(* Device memory is neither lost nor given out twice: over migrations,      *)
(* their failures and the deferred frees, each frame has one owner, and the *)
(* free blocks stay sorted and merged.                                      *)
FramesConserved ==
  \A d \in Devices :
    /\ \A f \in Frames : Owners(d, f) = 1
    /\ \A i \in 1 .. Len(svm[d].free) - 1 :
         svm[d].free[i].base + svm[d].free[i].size < svm[d].free[i + 1].base

(* Wherever a page has been moved, it holds the value written to it last,   *)
(* by a CPU or by any device.                                               *)
Coherent ==
  \A v \in Pages :
    \/ where[v] = None
    \/ where[v] = Empty /\ v \notin written
    \/ where[v] = RAM /\ mem[Host(v)] = Content(v)
    \/ OnDevice(v) /\ mem[Dev(where[v][1], Frame(v))] = Content(v)

(* From launch to teardown, the MMU of a device translates, and an active   *)
(* access uses, only pages that reside in that frame of that device.        *)
TranslationsValid ==
  \A d \in {e \in Devices : svm[e].phase = "up"} :
    /\ \A v \in Pages : mmu[d].tlb[v] # None => where[v] = <<d, mmu[d].tlb[v]>>
    /\ mmu[d].act # None => where[mmu[d].act.page] = <<d, mmu[d].act.frame>>

(* When nobody migrates, the interval tree of a launched device covers the  *)
(* pages that reside there, in maximal intervals.                           *)
TreeMatches ==
  MmapFree =>
    \A d \in {e \in Devices : svm[e].phase = "up"} :
      /\ Covered(svm[d].tree) = {v \in Pages : OnThis(d, v)}
      /\ \A x, y \in svm[d].tree : x # y => (x.last + 1 < y.start \/ y.last + 1 < x.start)

(* A command in a queue writes only to what the transfer that posted it     *)
(* still holds, and the driver never fills a queue past its limit.          *)
TransfersOwned ==
  \A d \in Devices : \A dir \in Dirs :
    LET q == chan[d][dir].queue
    IN /\ \A i \in DOMAIN q : \A k \in 0 .. q[i].n - 1 :
            LET p == Offset(q[i].dst, k)
            IN CASE p[1] = "host" -> \E v \in isolated : p = Host(v)
                 [] p[1] = "dev" -> /\ mig # NoMig /\ mig.to = p[2]
                                    /\ p[3] \in mig.base .. mig.base + mig.n - 1
                 [] OTHER -> mig # NoMig
       /\ d \notin Networked => Len(q) <= CmdLimit

(* A page fault of a device that is served ends: the access is done, or the *)
(* MMU is put into its error state, unless SVM is torn down.                *)
FaultsResolved ==
  \A d \in Devices : \A v \in Pages :
    (mmu[d].want[v] = "issued") ~>
      (mmu[d].want[v] = "no" \/ svm[d].err # {} \/ svm[d].phase # "up")

(* handle_iommu_page_fault: "in case of failed page fault handling disable  *)
(* IOMMU since accelerator might not be able to deal with error responses"; *)
(* it stays disabled.                                                       *)
DisabledStaysOff == \A d \in Devices : "mmu" \in svm[d].err => ~mmu[d].on
=============================================================================
