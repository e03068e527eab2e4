------------------------------ MODULE PageDma ------------------------------
(***************************************************************************)
(* The PageDMA core of each device and the transfers the driver makes with *)
(* it (pcie_svm.c).  A channel works off a queue of commands; the driver    *)
(* posts a script of commands and waits.  What a command does is external: *)
(* it is taken from how the driver uses it.  A place is a page of host      *)
(* memory, a frame of device memory or a page of the bounce buffer.         *)
(***************************************************************************)
EXTENDS SvmMemory

CONSTANTS Devices,
          Pages,        \* virtual pages: numbers
          Frames,       \* frames of the memory of a device: 0 .. PHYS_MEM_SIZE - 1
          HostPage,     \* the physical page of a page in host memory: a number
          Networked,    \* devices with network_dma_enabled
          WithBar,      \* devices whose memory is exposed in a BAR (rdma_bar)
          MaxPages,     \* PAGE_DMA_MAX_NPAGES
          BufferPages,  \* DEV_TO_DEV_DMA_MAX_NPAGES
          PollLimit,    \* PAGE_DMA_POLL_LIMIT
          CmdLimit      \* 64

VARIABLES mem,          \* what each place holds
          chan,         \* per device and direction: the channel
          wire          \* page contents under way on the network, per receiver

dmaVars == <<mem, chan, wire>>

Dirs == {"c2h", "h2c"}

Host(v) == <<"host", HostPage[v]>>
Dev(d, f) == <<"dev", d, f>>
Buffer(i) == <<"buf", i>>
Net(d) == <<"net", d>>
Zero == <<"zero">>

Places == {Host(v) : v \in Pages} \cup {Dev(d, f) : d \in Devices, f \in Frames}
          \cup {Buffer(i) : i \in 0 .. BufferPages - 1}

(* The place i pages behind place p.                                        *)
Offset(p, i) == IF Len(p) = 1 \/ p[1] = "net" THEN p
                ELSE [p EXCEPT ![Len(p)] = @ + i]

(* enabled, pending: the interrupt; flag: wait_flag_c2h_intr or _h2c_intr;  *)
(* error: PAGE_DMA_STAT_ERROR_FLAGS, which the driver never clears.         *)
IdleChannel == [queue |-> <<>>, error |-> FALSE, enabled |-> FALSE,
                pending |-> FALSE, flag |-> FALSE]

Busy(d, dir) == chan[d][dir].queue # <<>>

----------------------------------------------------------------------------
(* Scripts: what a copy posts and waits for.                                *)

Post(d, dir, src, dst, n, limited) ==
  [op |-> "post", dev |-> d, dir |-> dir, limited |-> limited,
   cmds |-> <<[src |-> src, dst |-> dst, n |-> n]>>]

WaitFor(d, dir, poll) == [op |-> "wait", dev |-> d, dir |-> dir, poll |-> poll]

(* A transfer is cut into commands of at most MaxPages; every command gets  *)
(* the same addresses.                                                      *)
Commands(src, dst, n) ==
  [i \in 1 .. (n + MaxPages - 1) \div MaxPages |->
     [src |-> src, dst |-> dst,
      n |-> IF i * MaxPages <= n THEN MaxPages ELSE n % MaxPages]]

init_c2h_dma(d, dst, f, n, limited) ==
  [Post(d, "c2h", Dev(d, f), dst, n, limited) EXCEPT !.cmds = Commands(Dev(d, f), dst, n)]

init_h2c_dma(d, src, f, n, limited) ==
  [Post(d, "h2c", src, Dev(d, f), n, limited) EXCEPT !.cmds = Commands(src, Dev(d, f), n)]

Smaller(a, b) == IF a <= b THEN a ELSE b

(* Mutant: the sender is waited for.                                        *)
copy_dev_to_dev_network_early(s, d, src, base) ==
  <<init_h2c_dma(d, Net(d), base, Len(src), FALSE),
    init_c2h_dma(s, Net(d), src[1], Len(src), FALSE),
    WaitFor(s, "c2h", Len(src) < PollLimit)>>

(* The receiver is prepared for all pages, then the sender sends its        *)
(* contiguous runs; only the receiver is waited for.                        *)
copy_dev_to_dev_network(s, d, src, base) ==
  LET n    == Len(src)
      in   == Runs(n, 1 .. n, MaxPages)
      out  == Runs(n, is_contiguous(src), MaxPages)
  IN [i \in DOMAIN in |-> init_h2c_dma(d, Net(d), base + in[i].at, in[i].len, FALSE)]
     \o [i \in DOMAIN out |-> init_c2h_dma(s, Net(d), src[out[i].at + 1], out[i].len, FALSE)]
     \o <<WaitFor(d, "h2c", n < PollLimit)>>

(* The sender writes into the memory of the receiver.                       *)
copy_dev_to_dev_pcie_e2e(s, d, src, base) ==
  LET runs == Runs(Len(src), is_contiguous(src), MaxPages)
  IN [i \in DOMAIN runs |->
        init_c2h_dma(s, Dev(d, base + runs[i].at), src[runs[i].at + 1], runs[i].len, TRUE)]
     \o <<WaitFor(s, "c2h", Len(src) < PollLimit)>>

(* A buffer of host memory is filled run by run and written with one        *)
(* command, until all pages are copied.                                     *)
copy_dev_to_dev_buffered(s, d, src, base) ==
  LET chunk(at) ==
        LET n    == Smaller(Len(src) - at, BufferPages)
            part == SubSeq(src, at + 1, at + n)
            runs == Runs(n, is_contiguous(part), MaxPages)
        IN [i \in DOMAIN runs |->
              init_c2h_dma(s, Buffer(runs[i].at), part[runs[i].at + 1], runs[i].len, TRUE)]
           \o <<WaitFor(s, "c2h", n < PollLimit),
                init_h2c_dma(d, Buffer(0), base + at, n, FALSE),
                WaitFor(d, "h2c", n < PollLimit)>>
      chunks == (Len(src) + BufferPages - 1) \div BufferPages
  IN FlattenSeq([i \in 1 .. chunks |-> chunk((i - 1) * BufferPages)])

(* The method is chosen by what the two devices can do.                     *)
copy_dev_to_dev(s, d, src, base) ==
  IF s \in Networked /\ d \in Networked THEN copy_dev_to_dev_network(s, d, src, base)
  ELSE IF d \in WithBar THEN copy_dev_to_dev_pcie_e2e(s, d, src, base)
  ELSE copy_dev_to_dev_buffered(s, d, src, base)

is_contiguous_page(v) == HostPage[v] = HostPage[v - 1] + 1

(* Mutant: host pages are taken for contiguous.                             *)
copy_ram_to_dev_joined(d, lo, n, empty, base) ==
  <<init_h2c_dma(d, IF lo \in empty THEN Zero ELSE Host(lo), base, n, TRUE),
    WaitFor(d, "h2c", n < PollLimit)>>

(* From host memory: runs of host pages are copied, runs of pages that were *)
(* never written (empty) are cleared.                                       *)
copy_ram_to_dev(d, lo, n, empty, base) ==
  LET joined == {i \in 1 .. n - 1 :
                   IF lo + i \in empty THEN lo + i - 1 \in empty
                   ELSE lo + i - 1 \notin empty /\ is_contiguous_page(lo + i)}
      runs   == Runs(n, joined, MaxPages)
  IN [i \in DOMAIN runs |->
        init_h2c_dma(d, IF lo + runs[i].at \in empty THEN Zero ELSE Host(lo + runs[i].at),
                     base + runs[i].at, runs[i].len, TRUE)]
     \o <<WaitFor(d, "h2c", n < PollLimit)>>

(* To host memory: a run is contiguous on both sides.                       *)
copy_dev_to_ram(s, lo, src) ==
  LET joined == {i \in is_contiguous(src) : is_contiguous_page(lo + i)}
      runs   == Runs(Len(src), joined, MaxPages)
  IN [i \in DOMAIN runs |->
        init_c2h_dma(s, Host(lo + runs[i].at), src[runs[i].at + 1], runs[i].len, TRUE)]
     \o <<WaitFor(s, "c2h", Len(src) < PollLimit)>>

----------------------------------------------------------------------------
(* The core.                                                                *)

Posted(ch, cmds) == [ch EXCEPT !.queue = @ \o cmds]

(* The channel after its first command; the interrupt is raised when no     *)
(* command is left.                                                         *)
Advanced(ch, failed) ==
  [ch EXCEPT !.queue = Tail(@), !.error = @ \/ failed,
             !.pending = @ \/ (ch.enabled /\ Len(ch.queue) = 1)]

Enabled(ch) == [ch EXCEPT !.enabled = TRUE, !.pending = (ch.queue = <<>>)]

Disabled(ch) == [ch EXCEPT !.enabled = FALSE, !.pending = FALSE]

(* Places that are given up hold anything.                                  *)
Stale == -1
Dropped(places) == [p \in Places |-> IF p \in places THEN Stale ELSE mem[p]]

Contents(p, i) == IF p = Zero THEN 0
                  ELSE IF Offset(p, i) \in Places THEN mem[Offset(p, i)] ELSE Stale

Copied(cmd) ==
  LET target == {Offset(cmd.dst, i) : i \in 0 .. cmd.n - 1}
      index(p) == CHOOSE i \in 0 .. cmd.n - 1 : Offset(cmd.dst, i) = p
  IN [p \in Places |-> IF p \in target THEN Contents(cmd.src, index(p)) ELSE mem[p]]

Execute(d, dir) ==
  /\ Busy(d, dir)
  /\ LET cmd == Head(chan[d][dir].queue)
     IN \/ /\ cmd.src[1] # "net" /\ cmd.dst[1] # "net"
           /\ mem' = Copied(cmd)
           /\ UNCHANGED wire
        \/ /\ cmd.dst[1] = "net"
           /\ wire' = [wire EXCEPT ![cmd.dst[2]] =
                         @ \o [i \in 1 .. cmd.n |-> Contents(cmd.src, i - 1)]]
           /\ UNCHANGED mem
        \/ /\ cmd.src[1] = "net"
           /\ Len(wire[d]) >= cmd.n
           /\ mem' = [p \in Places |->
                        IF \E i \in 1 .. cmd.n : p = Offset(cmd.dst, i - 1)
                        THEN wire[d][CHOOSE i \in 1 .. cmd.n : p = Offset(cmd.dst, i - 1)]
                        ELSE mem[p]]
           /\ wire' = [wire EXCEPT ![d] = SubSeq(@, cmd.n + 1, Len(@))]
  /\ chan' = [chan EXCEPT ![d][dir] = Advanced(@, FALSE)]

(* A command that fails moves nothing.                                      *)
ExecuteFails(d, dir) ==
  /\ Busy(d, dir)
  /\ Head(chan[d][dir].queue).src[1] # "net" /\ Head(chan[d][dir].queue).dst[1] # "net"
  /\ chan' = [chan EXCEPT ![d][dir] = Advanced(@, TRUE)]
  /\ UNCHANGED <<mem, wire>>

(* svm_c2h_intr_handler, svm_h2c_intr_handler                               *)
svm_intr_handler(d, dir) ==
  /\ chan[d][dir].pending
  /\ chan' = [chan EXCEPT ![d][dir].pending = FALSE, ![d][dir].flag = TRUE]
  /\ UNCHANGED <<mem, wire>>
=============================================================================
