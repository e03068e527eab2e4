----------------------------- MODULE SvmMemory -----------------------------
(***************************************************************************)
(* The pure algorithms of the shared-virtual-memory driver (pcie_svm.c):   *)
(* the interval tree of virtual pages that reside on a device, the list of *)
(* free blocks of device memory, the splitting of page arrays into         *)
(* contiguous runs, the array helpers of the page-fault handler and the    *)
(* segmentation of a migration by source memory.  Addresses are counted in *)
(* pages; the last byte of an interval becomes its last page.              *)
(***************************************************************************)
EXTENDS Integers, Sequences, FiniteSets, SequencesExt

CONSTANTS None,  \* no address, no frame, nobody
          RAM    \* host memory, as opposed to a device

(* A node of the interval tree: the pages start .. last.                    *)
Node(a, b) == [start |-> a, last |-> b]

PagesOf(node) == node.start .. node.last

Covered(tree) == UNION {PagesOf(node) : node \in tree}

(* The nodes that interval_tree_iter_first and _next visit for a .. b: the *)
(* overlapping ones by increasing start.                                    *)
Overlapping(tree, a, b) ==
  SetToSortSeq({node \in tree : node.start <= b /\ node.last >= a},
               LAMBDA x, y : x.start < y.start)

(* Mutant: the interval that follows is not merged.                         *)
insert_vmem_interval_unmerged(tree, v, n) ==
  LET before == {node \in tree : v > 0 /\ (v - 1) \in PagesOf(node)}
      first  == IF before = {} THEN v ELSE (CHOOSE node \in before : TRUE).start
  IN (tree \ before) \cup {Node(first, v + n - 1)}

(* A node that ends before or begins after the new one is merged into it.   *)
insert_vmem_interval(tree, v, n) ==
  LET before == {node \in tree : v > 0 /\ (v - 1) \in PagesOf(node)}
      after  == {node \in tree : (v + n) \in PagesOf(node)}
      first  == IF before = {} THEN v ELSE (CHOOSE node \in before : TRUE).start
      final  == IF after = {} THEN v + n - 1
                ELSE (CHOOSE node \in after : TRUE).last
  IN (tree \ (before \cup after)) \cup {Node(first, final)}

(* What is put back of a node from which start .. end is taken, where start *)
(* is where the removal has come to.                                        *)
Remainder(node, start, end) ==
  IF node.start # start
  THEN {Node(node.start, start - 1)} \cup
       {Node(end + 1, x.last) : x \in {y \in {node} : y.last > end}}
  ELSE {Node(end + 1, x.last) : x \in {y \in {node} : y.last > end}}

remove_vmem_interval(tree, v, n) ==
  LET end   == v + n - 1
      nodes == Overlapping(tree, v, end)
      start(i) == IF i = 1 THEN v
                  ELSE IF nodes[i - 1].last + 1 < end
                       THEN nodes[i - 1].last + 1 ELSE end
  IN (tree \ {nodes[i] : i \in DOMAIN nodes}) \cup
     UNION {Remainder(nodes[i], start(i), end) : i \in DOMAIN nodes}

search_vmem_intervals(tree, v, n) == Overlapping(tree, v, v + n - 1)

is_page_present(tree, v) == Overlapping(tree, v, v) # <<>>

----------------------------------------------------------------------------
(* The list of free blocks, ordered by base.                                *)
Block(b, s) == [base |-> b, size |-> s]

(* First fit: the address handed out, or None.                            *)
AllocAddr(blocks, size) ==
  LET fits == {i \in DOMAIN blocks : blocks[i].size >= size}
  IN IF fits = {} THEN None ELSE blocks[Min(fits)].base

allocate_device_memory(blocks, size) ==
  LET i == Min({j \in DOMAIN blocks : blocks[j].size >= size})
      b == blocks[i]
  IN IF b.size = size THEN RemoveAt(blocks, i)
     ELSE [blocks EXCEPT ![i] = Block(b.base + size, b.size - size)]

(* The freed block is merged with the block before and the one after it.    *)
free_device_memory(blocks, addr, size) ==
  LET later == {i \in DOMAIN blocks : blocks[i].base > addr}
      at    == IF later = {} THEN Len(blocks) + 1 ELSE Min(later)
      joinsPrev == at > 1 /\ blocks[at - 1].base + blocks[at - 1].size = addr
      joinsNext == later # {} /\ addr + size = blocks[at].base
  IN IF joinsPrev /\ joinsNext
     THEN RemoveAt([blocks EXCEPT ![at - 1].size = @ + size + blocks[at].size],
                   at)
     ELSE IF joinsPrev THEN [blocks EXCEPT ![at - 1].size = @ + size]
     ELSE IF joinsNext
          THEN [blocks EXCEPT ![at] = Block(addr, size + @.size)]
     ELSE InsertAt(blocks, at, Block(addr, size))

----------------------------------------------------------------------------
(* The runs into which the code cuts n array elements: joined says which    *)
(* elements continue the one before, max bounds a run.  An element is       *)
(* counted from 0.                                                          *)
Runs(n, joined, max) ==
  LET len(i)  == Max({k \in 1 .. n - i : k <= max /\ (i + 1 .. i + k - 1) \subseteq joined})
      runs[i \in 0 .. n] ==
        IF i = n THEN <<>>
        ELSE <<[at |-> i, len |-> len(i)]>> \o runs[i + len(i)]
  IN runs[0]

(* The elements of a page array that continue the one before.               *)
is_contiguous(array) ==
  {i \in 1 .. Len(array) - 1 : array[i + 1] = array[i] + 1}

(* A worker frees the pages of an array run by run.                         *)
handle_device_pages_free(blocks, pages) ==
  LET runs == Runs(Len(pages), is_contiguous(pages), Len(pages))
      freed[i \in 0 .. Len(runs)] ==
        IF i = 0 THEN blocks
        ELSE free_device_memory(freed[i - 1], pages[runs[i].at + 1], runs[i].len)
  IN freed[Len(runs)]

----------------------------------------------------------------------------
(* The array helpers of the page-fault handler; 0 marks a handled entry.    *)
svm_cmp_addr(a, b) == a < b

Sorted(array) == SortSeq(array, svm_cmp_addr)

remove_duplicates(array) ==
  LET kept == {i \in DOMAIN array : i = 1 \/ array[i] # array[i - 1]}
  IN [i \in 1 .. Cardinality(kept) |-> array[SetToSortSeq(kept, <)[i]]]

pack_array(array) == SelectSeq(array, LAMBDA v : v # 0)

----------------------------------------------------------------------------
(* A segment of a migration: n pages from lo on, all of them in from, which *)
(* is RAM or a device.                                                      *)
Segment(from, lo, n) == [from |-> from, lo |-> lo, n |-> n]

(* The segments of a range in order: the next interval of any device, and   *)
(* before it what lies in RAM.                                              *)
Segments(trees, v, n) ==
  LET end  == v + n
      next(cur) == {<<d, node>> \in UNION {{<<e, x>> : x \in trees[e]} : e \in DOMAIN trees} :
                      node.start < end /\ node.last >= cur}
      plan[cur \in v .. end] ==
        IF cur = end THEN <<>>
        ELSE IF next(cur) = {} THEN <<Segment(RAM, cur, end - cur)>>
        ELSE LET first == CHOOSE p \in next(cur) :
                            \A q \in next(cur) : p[2].start <= q[2].start
                 at    == first[2].start
                 stop  == IF first[2].last + 1 < end THEN first[2].last + 1 ELSE end
             IN IF at > cur THEN <<Segment(RAM, cur, at - cur)>> \o plan[at]
                ELSE <<Segment(first[1], cur, stop - cur)>> \o plan[stop]
  IN plan[v]

(* Mutant: the intervals of dev are moved as well.                          *)
svm_migrate_to_device_again(trees, dev, v, n) == Segments(trees, v, n)

(* The segments that are moved to dev: its own intervals are passed over.   *)
svm_migrate_to_device(trees, dev, v, n) ==
  SelectSeq(Segments(trees, v, n), LAMBDA s : s.from # dev)
=============================================================================
