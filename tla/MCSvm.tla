------------------------------- MODULE MCSvm -------------------------------
EXTENDS Svm

Together == [v \in Pages |-> v]
Apart == [v \in Pages |-> 3 - v]
WholeRange == {<<1, 2>>}

(* TLC evaluates the definition that a constant stands for at every use,    *)
(* unless it only names another one.                                        *)
MCHostPage == Together
MCHostApart == Apart
MCUserRanges == WholeRange

(* The tree of the maximal intervals of a set of pages.                     *)
TreeOf(set) == {Node(a, b) : <<a, b>> \in {p \in set \X set :
                  /\ p[1] <= p[2] /\ p[1] .. p[2] \subseteq set
                  /\ p[1] - 1 \notin set /\ p[2] + 1 \notin set}}

Small == 0 .. 4
Ranges == {r \in Small \X (1 .. 5) : r[1] + r[2] - 1 \in Small}
PagesIn(r) == r[1] .. r[1] + r[2] - 1

(* insert_vmem_interval and remove_vmem_interval keep the maximal intervals *)
(* of the set of pages they stand for, for every set of five pages and      *)
(* every range that is absent or present.                                   *)
IntervalsExact == events = 0 =>
  \A set \in SUBSET Small : \A r \in Ranges :
    /\ PagesIn(r) \cap set = {} =>
         insert_vmem_interval(TreeOf(set), r[1], r[2]) = TreeOf(set \cup PagesIn(r))
    /\ PagesIn(r) \subseteq set =>
         remove_vmem_interval(TreeOf(set), r[1], r[2]) = TreeOf(set \ PagesIn(r))

(* The segments svm_migrate_to_device moves to d1 are the pages of the      *)
(* range that are not there yet, in order and each from where it resides,   *)
(* for every distribution of five pages over RAM and two devices.           *)
SegmentsExact == events = 0 =>
  \A place \in [Small -> Devices \cup {RAM}] : \A r \in Ranges :
    LET devTrees == [d \in Devices |-> TreeOf({v \in Small : place[v] = d})]
    IN \A to \in Devices :
         FlattenSeq([i \in DOMAIN svm_migrate_to_device(devTrees, to, r[1], r[2]) |->
           LET s == svm_migrate_to_device(devTrees, to, r[1], r[2])[i]
           IN [k \in 1 .. s.n |-> <<s.lo + k - 1, s.from>>]])
         = LET left == SetToSortSeq({v \in PagesIn(r) : place[v] # to}, <)
           IN [i \in DOMAIN left |-> <<left[i], place[left[i]]>>]

(* The tree of the pages on a device stands for exactly those pages, and a   *)
(* migration moves exactly the pages that are elsewhere.                     *)
VmemExact == IntervalsExact /\ SegmentsExact

(* The device-to-device transfers over the network keep the pages coherent,  *)
(* and every page fault of a device is resolved.                             *)
FaultsServed == []Coherent /\ FaultsResolved
=============================================================================
