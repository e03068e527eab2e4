-------------------------- MODULE GenericAllocator --------------------------
(***************************************************************************)
(* GenericAllocator of libtapasco (allocator.rs): first fit over a free     *)
(* list that is kept sorted and merged.  The caller holds the memory's      *)
(* mutex, so a call is one step.  memory_used is only ever searched by      *)
(* base: a set stands for the vector.  Arithmetic is that of u64 in a       *)
(* release build, modulo Mod.                                               *)
(***************************************************************************)
EXTENDS Naturals, Sequences, SequencesExt, Bitwise

CONSTANTS Address, Size, Alignment,  \* the arguments of new
          Mod,                       \* 2^64 in the code
          Sizes, Offsets             \* arguments of the calls

ASSUME AllocatorAssumption == /\ Size > 0 /\ Alignment > 0
                              /\ Address + Size < Mod

VARIABLES memory_free,  \* sequence of [base, size]
          memory_used,  \* set of [base, size]
          answer        \* what the last call returned

allocVars == <<memory_free, memory_used, answer>>

Segment(base, size) == [base |-> base, size |-> size]
Limit(s) == s.base + s.size

fix_alignment(size) ==
  ((size + (Alignment - 1)) % Mod) & (Mod - 1 - (Alignment - 1))

\* Each segment is joined to the one before it when the two touch
merge_memory(free) ==
  LET join(done, s) ==
        IF done # <<>> /\ Limit(Last(done)) = s.base
        THEN Append(Front(done), Segment(Last(done).base, Last(done).size + s.size))
        ELSE Append(done, s)
  IN FoldLeft(join, <<>>, free)

\* memory_free without the empty segment that an allocation may leave at x
DropEmpty(free, x) == IF free[x].size = 0 THEN RemoveAt(free, x) ELSE free

AllocInit == /\ memory_free = <<Segment(Address, Size)>>
             /\ memory_used = {}
             /\ answer = <<"none">>

Fail(why) == answer' = why /\ UNCHANGED <<memory_free, memory_used>>

\* Variant of Allocate that wants a byte more than it needs
AllocateStrict(size) ==
  LET need == fix_alignment(size)
      x == SelectInSeq(memory_free, LAMBDA s : s.size > need)
      s == memory_free[x]
  IN \/ size = 0 /\ Fail(<<"InvalidSize">>)
     \/ size # 0 /\ x = 0 /\ Fail(<<"OutOfMemory", size>>)
     \/ /\ size # 0 /\ x # 0
        /\ memory_used' = memory_used \cup {Segment(s.base, need)}
        /\ memory_free' = DropEmpty(ReplaceAt(memory_free, x,
                                      Segment(s.base + need, s.size - need)), x)
        /\ answer' = <<"granted", s.base>>

\* The requested area is taken from the left of the first segment that fits
Allocate(size) ==
  LET need == fix_alignment(size)
      x == SelectInSeq(memory_free, LAMBDA s : s.size >= need)
      s == memory_free[x]
  IN \/ size = 0 /\ Fail(<<"InvalidSize">>)
     \/ size # 0 /\ x = 0 /\ Fail(<<"OutOfMemory", size>>)
     \/ /\ size # 0 /\ x # 0
        /\ memory_used' = memory_used \cup {Segment(s.base, need)}
        /\ memory_free' = DropEmpty(ReplaceAt(memory_free, x,
                                      Segment(s.base + need, s.size - need)), x)
        /\ answer' = <<"granted", s.base>>

\* need bytes at offset lie in segment s
Fits(s, offset, need) == /\ s.base <= offset /\ offset <= Limit(s)
                         /\ Limit(s) - offset >= need

\* The free list when need bytes at offset are cut out of segment x
Cut(x, offset, need) ==
  LET s == memory_free[x]
      left == offset - s.base
      right == Segment(offset + need, s.size - (left + need))
  IN IF s.base = offset
     THEN ReplaceAt(memory_free, x, Segment(s.base + need, s.size - need))
     ELSE ReplaceAt(IF right.size > 0 THEN InsertAt(memory_free, x + 1, right)
                                      ELSE memory_free,
                    x, Segment(s.base, left))

AllocateFixed(size, offset) ==
  LET need == fix_alignment(size)
      x == SelectInSeq(memory_free, LAMBDA s : Fits(s, offset, need))
  IN \/ size = 0 /\ Fail(<<"InvalidSize">>)
     \/ size # 0 /\ x = 0 /\ Fail(<<"FixedNotAvailable", size, offset>>)
     \/ /\ size # 0 /\ x # 0
        /\ memory_used' = memory_used \cup {Segment(offset, need)}
        /\ memory_free' = DropEmpty(Cut(x, offset, need), x)
        /\ answer' = <<"granted", offset>>

\* The freed segment goes left of the first free segment behind it
Insert(m) ==
  LET x == SelectInSeq(memory_free, LAMBDA s : s.base > m.base)
  IN IF x = 0 THEN Append(memory_free, m) ELSE InsertAt(memory_free, x, m)

FreePtr(ptr) ==
  \/ \E m \in memory_used :
       /\ m.base = ptr
       /\ memory_used' = memory_used \ {m}
       /\ memory_free' = merge_memory(Insert(m))
       /\ answer' = <<"freed", ptr>>
  \/ (\A m \in memory_used : m.base # ptr) /\ Fail(<<"UnknownMemory", ptr>>)

AllocNext == \/ \E size \in Sizes : Allocate(size)
             \/ \E size \in Sizes, offset \in Offsets : AllocateFixed(size, offset)
             \/ \E ptr \in Address .. Address + Size : FreePtr(ptr)

AllocSpec == AllocInit /\ [][AllocNext]_allocVars

-----------------------------------------------------------------------------

Segments == [base : 0 .. Mod - 1, size : 0 .. Mod - 1]

AllocTypeOK == /\ memory_free \in Seq(Segments) /\ memory_used \subseteq Segments
               /\ answer[1] \in {"none", "granted", "freed", "InvalidSize", "OutOfMemory",
                                 "FixedNotAvailable", "UnknownMemory"}

\* The free list is sorted, without empty segments, and no two segments
\* touch: after any history of calls fragmentation is only what the live
\* allocations cause.
FreeListCanonical ==
  /\ AllocTypeOK
  /\ \A i \in DOMAIN memory_free : memory_free[i].size > 0
  /\ \A i \in 1 .. Len(memory_free) - 1 :
       Limit(memory_free[i]) < memory_free[i + 1].base

\* The promise of the Allocator trait, including that a request is refused
\* only when there is no room for it.
Promise == INSTANCE RegionAllocator WITH
             Start <- Address, End <- Address + Size, Need <- fix_alignment,
             regions <- memory_used

KeepsPromise == Promise!Spec

\* "Allocate returns a valid allocation of the given size": what is set aside
\* for a call that succeeds is at least what the caller asked for.
GrantCoversRequest ==
  [][\A size \in Sizes :
       Allocate(size) /\ memory_used' # memory_used =>
         \E m \in memory_used' \ memory_used : m.size >= size]_allocVars
=============================================================================
