-------------------------- MODULE RegionAllocator --------------------------
(***************************************************************************)
(* What the Allocator trait promises: granted regions lie in the memory and *)
(* do not overlap, a fixed request gets the location it names, and a        *)
(* request is refused only when the memory has no room for it.              *)
(***************************************************************************)
EXTENDS Naturals

CONSTANTS Start, End,   \* the memory is Start .. End - 1
          Need(_),      \* the size that is set aside for a request
          Sizes, Offsets

VARIABLES regions,  \* the granted regions, [base, size]
          answer    \* the answer to the last call

IsFree(base, size) ==
  /\ Start <= base /\ base + size <= End
  /\ \A r \in regions : r.base + r.size <= base \/ base + size <= r.base

Init == regions = {} /\ answer = <<"none">>

Grant(base, size) == /\ IsFree(base, size)
                     /\ regions' = regions \cup {[base |-> base, size |-> size]}
                     /\ answer' = <<"granted", base>>

Refuse(why) == answer' = why /\ UNCHANGED regions

Allocate(size) ==
  \/ \E base \in Start .. End : Grant(base, Need(size))
  \/ /\ \A base \in Start .. End : ~ IsFree(base, Need(size))
     /\ Refuse(<<"OutOfMemory", size>>)

AllocateFixed(size, offset) ==
  \/ Grant(offset, Need(size))
  \/ ~ IsFree(offset, Need(size)) /\ Refuse(<<"FixedNotAvailable", size, offset>>)

Free(ptr) ==
  \/ \E r \in regions : /\ r.base = ptr
                        /\ regions' = regions \ {r}
                        /\ answer' = <<"freed", ptr>>
  \/ (\A r \in regions : r.base # ptr) /\ Refuse(<<"UnknownMemory", ptr>>)

Next == \/ \E size \in Sizes \ {0} : Allocate(size)
        \/ \E size \in Sizes \ {0}, offset \in Offsets : AllocateFixed(size, offset)
        \/ 0 \in Sizes /\ Refuse(<<"InvalidSize">>)
        \/ \E ptr \in Start .. End : Free(ptr)

Spec == Init /\ [][Next]_<<regions, answer>>
=============================================================================
