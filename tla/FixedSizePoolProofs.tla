------------------------ MODULE FixedSizePoolProofs ------------------------
(***************************************************************************)
(* Proofs about FixedSizePool for every number of threads, every pool size  *)
(* and every modulus of the index type.                                     *)
(***************************************************************************)
EXTENDS FixedSizePool, TLAPS

\* A thread between its successful test_and_set and its atomic_clear.
Holding(t) == pc[t] \in {"count", "uncount", "clear"}

\* Slots have one holder, and a held slot is locked.
Exclusion ==
  /\ \A t \in Threads : \A i \in Holds(t) : locked[i]
  /\ \A t \in Threads : Holding(t) => idx[t] \notin owned[t]
  /\ \A t, u \in Threads : t # u => Holds(t) \cap Holds(u) = {}

\* refcnt is 1 from the add_fetch of a get to the sub_fetch of the put.
Counting ==
  /\ \A t \in Threads : \A i \in owned[t] : refcnt[i] = 1
  /\ \A t \in Threads : pc[t] = "uncount" => refcnt[idx[t]] = 1
  /\ \A t \in Threads : pc[t] \in {"count", "clear"} => refcnt[idx[t]] = 0
  /\ \A i \in Slots : ~ locked[i] => refcnt[i] = 0

\* The compare-and-swap of fsp_put only moves curr down.
CasLowers == \A t \in Threads : pc[t] = "cas" => idx[t] < old[t]

IInv == TypeOK /\ Exclusion /\ Counting /\ CasLowers /\ NoLostSlot

-----------------------------------------------------------------------------

LEMMA SmallMod == ASSUME NEW m \in Nat \ {0}, NEW n \in 0 .. m - 1 PROVE n % m = n
OBVIOUS

LEMMA SlotFacts == Slots \subseteq 0 .. IdxMod - 1 /\ INVALID_IDX \in 0 .. IdxMod - 1
BY PoolAssumption DEF Slots, INVALID_IDX

\* Every thread's program counter and locals keep their type.
LEMMA TypeCorrect == TypeOK /\ [Next]_vars => TypeOK'
<1> SUFFICES ASSUME TypeOK, [Next]_vars PROVE TypeOK'
  OBVIOUS
<1> USE SlotFacts, PoolAssumption DEF TypeOK, InGet, InPut, Return
<1>1. ASSUME NEW t \in Threads, GetStart(t) PROVE TypeOK'
  BY <1>1 DEF GetStart
<1>2. ASSUME NEW t \in Threads, GetFetch(t) PROVE TypeOK'
  <2>1. (curr + 1) % IdxMod \in 0 .. IdxMod - 1
    OBVIOUS
  <2>2. CASE curr < SZ
    <3>1. /\ curr \in Slots
          /\ pc' = [pc EXCEPT ![t] = "tas"]
          /\ idx' = [idx EXCEPT ![t] = curr]
          /\ curr' \in 0 .. IdxMod - 1
          /\ UNCHANGED <<locked, refcnt, old, owned>>
      BY <1>2, <2>1, <2>2 DEF GetFetch, Slots
    <3> QED BY <3>1
  <2>3. CASE ~ (curr < SZ)
    BY <1>2, <2>1, <2>3 DEF GetFetch
  <2> QED BY <2>2, <2>3
<1>3. ASSUME NEW t \in Threads, GetTestAndSet(t) PROVE TypeOK'
  BY <1>3 DEF GetTestAndSet
<1>4. ASSUME NEW t \in Threads, GetCount(t) PROVE TypeOK'
  BY <1>4 DEF GetCount
<1>5. ASSUME NEW t \in Threads, PutStart(t) PROVE TypeOK'
  BY <1>5 DEF PutStart
<1>6. ASSUME NEW t \in Threads, PutUncount(t) PROVE TypeOK'
  BY <1>6 DEF PutUncount
<1>7. ASSUME NEW t \in Threads, PutClear(t) PROVE TypeOK'
  BY <1>7 DEF PutClear
<1>8. ASSUME NEW t \in Threads, PutRead(t) PROVE TypeOK'
  BY <1>8 DEF PutRead
<1>9. ASSUME NEW t \in Threads, PutCas(t) PROVE TypeOK'
  BY <1>9 DEF PutCas
<1>10. CASE UNCHANGED vars
  BY <1>10 DEF vars
<1> QED
  BY <1>1, <1>2, <1>3, <1>4, <1>5, <1>6, <1>7, <1>8, <1>9, <1>10 DEF Next

\* A held slot is locked, and by one thread only.
LEMMA ExclusionStep == TypeOK /\ Exclusion /\ [Next]_vars => Exclusion'
<1> SUFFICES ASSUME TypeOK, Exclusion, [Next]_vars PROVE Exclusion'
  OBVIOUS
<1> USE DEF TypeOK, Exclusion, Holding, Holds, InGet, InPut, Return
<1>1. ASSUME NEW t \in Threads, GetStart(t) PROVE Exclusion'
  BY <1>1 DEF GetStart
<1>2. ASSUME NEW t \in Threads, GetFetch(t) PROVE Exclusion'
  BY <1>2 DEF GetFetch
<1>3. ASSUME NEW t \in Threads, GetTestAndSet(t) PROVE Exclusion'
  <2>1. CASE locked[idx[t]]
    BY <1>3, <2>1 DEF GetTestAndSet
  <2>2. CASE ~ locked[idx[t]]
    BY <1>3, <2>2 DEF GetTestAndSet
  <2> QED BY <2>1, <2>2
<1>4. ASSUME NEW t \in Threads, GetCount(t) PROVE Exclusion'
  BY <1>4 DEF GetCount
<1>5. ASSUME NEW t \in Threads, PutStart(t) PROVE Exclusion'
  BY <1>5 DEF PutStart
<1>6. ASSUME NEW t \in Threads, PutUncount(t) PROVE Exclusion'
  BY <1>6 DEF PutUncount
<1>7. ASSUME NEW t \in Threads, PutClear(t) PROVE Exclusion'
  BY <1>7 DEF PutClear
<1>8. ASSUME NEW t \in Threads, PutRead(t) PROVE Exclusion'
  BY <1>8 DEF PutRead
<1>9. ASSUME NEW t \in Threads, PutCas(t) PROVE Exclusion'
  BY <1>9 DEF PutCas
<1>10. CASE UNCHANGED vars
  BY <1>10 DEF vars
<1> QED
  BY <1>1, <1>2, <1>3, <1>4, <1>5, <1>6, <1>7, <1>8, <1>9, <1>10 DEF Next

\* refcnt counts the slot's one owner, and nobody once the slot is free.
LEMMA CountingStep ==
  TypeOK /\ Exclusion /\ Counting /\ [Next]_vars => Counting'
<1> SUFFICES ASSUME TypeOK, Exclusion, Counting, [Next]_vars PROVE Counting'
  OBVIOUS
<1> USE DEF TypeOK, Exclusion, Counting, Holding, Holds, InGet, InPut, Return
<1>1. ASSUME NEW t \in Threads, GetStart(t) PROVE Counting'
  BY <1>1 DEF GetStart
<1>2. ASSUME NEW t \in Threads, GetFetch(t) PROVE Counting'
  BY <1>2 DEF GetFetch
<1>3. ASSUME NEW t \in Threads, GetTestAndSet(t) PROVE Counting'
  BY <1>3 DEF GetTestAndSet
<1>4. ASSUME NEW t \in Threads, GetCount(t) PROVE Counting'
  BY <1>4 DEF GetCount
<1>5. ASSUME NEW t \in Threads, PutStart(t) PROVE Counting'
  BY <1>5 DEF PutStart
<1>6. ASSUME NEW t \in Threads, PutUncount(t) PROVE Counting'
  BY <1>6 DEF PutUncount
<1>7. ASSUME NEW t \in Threads, PutClear(t) PROVE Counting'
  BY <1>7 DEF PutClear
<1>8. ASSUME NEW t \in Threads, PutRead(t) PROVE Counting'
  BY <1>8 DEF PutRead
<1>9. ASSUME NEW t \in Threads, PutCas(t) PROVE Counting'
  BY <1>9 DEF PutCas
<1>10. CASE UNCHANGED vars
  BY <1>10 DEF vars
<1> QED
  BY <1>1, <1>2, <1>3, <1>4, <1>5, <1>6, <1>7, <1>8, <1>9, <1>10 DEF Next

\* fsp_put loops until curr is at most idx; it swaps only a larger value.
LEMMA CasLowersStep == TypeOK /\ CasLowers /\ [Next]_vars => CasLowers'
BY SlotFacts, PoolAssumption
   DEF TypeOK, CasLowers, Next, vars, Return, GetStart, GetFetch, GetTestAndSet,
       GetCount, PutStart, PutUncount, PutClear, PutRead, PutCas

\* A free slot stays reachable for later searches.
LEMMA NoLostSlotStep ==
  TypeOK /\ CasLowers /\ NoLostSlot /\ [Next]_vars => NoLostSlot'
<1> DEFINE Waiting(u, i) == idx[u] = i /\ pc[u] \in {"tas", "read", "cas"}
           Found(i) == curr <= i \/ \E u \in Threads : Waiting(u, i)
<1> SUFFICES ASSUME TypeOK, CasLowers, NoLostSlot, [Next]_vars,
                    NEW i \in Slots, ~ locked'[i]
             PROVE  Found(i)'
  BY DEF NoLostSlot
<1>0. ~ locked[i] => Found(i)
  BY DEF NoLostSlot
<1> USE SlotFacts, PoolAssumption DEF TypeOK, Return, Slots
<1>1. ASSUME NEW t \in Threads, GetStart(t) PROVE Found(i)'
  BY <1>0, <1>1 DEF GetStart
<1>2. ASSUME NEW t \in Threads, GetFetch(t) PROVE Found(i)'
  <2>1. ~ locked[i] /\ Found(i)
    BY <1>0, <1>2 DEF GetFetch
  <2>2. CASE curr = i
    BY <1>2, <2>2 DEF GetFetch
  <2>3. CASE curr < i
    <3>1. (curr + 1) % IdxMod = curr + 1
      <4>1. curr + 1 \in 0 .. IdxMod - 1 /\ IdxMod \in Nat \ {0}
        BY <2>3
      <4> QED BY <4>1, SmallMod
    <3>2. curr' <= i
      BY <1>2, <2>3, <3>1 DEF GetFetch
    <3> QED BY <3>2
  <2>4. CASE \E u \in Threads : Waiting(u, i)
    BY <1>2, <2>4 DEF GetFetch
  <2> QED BY <2>1, <2>2, <2>3, <2>4
<1>3. ASSUME NEW t \in Threads, GetTestAndSet(t) PROVE Found(i)'
  <2>1. ~ locked[i] /\ i # idx[t] /\ curr' = curr
    BY <1>3 DEF GetTestAndSet, InGet
  <2>2. CASE curr <= i
    BY <2>1, <2>2
  <2>3. ASSUME NEW u \in Threads, Waiting(u, i) PROVE Found(i)'
    BY <1>3, <2>1, <2>3 DEF GetTestAndSet
  <2> QED BY <1>0, <2>1, <2>2, <2>3
<1>4. ASSUME NEW t \in Threads, GetCount(t) PROVE Found(i)'
  BY <1>0, <1>4 DEF GetCount
<1>5. ASSUME NEW t \in Threads, PutStart(t) PROVE Found(i)'
  BY <1>0, <1>5 DEF PutStart
<1>6. ASSUME NEW t \in Threads, PutUncount(t) PROVE Found(i)'
  BY <1>0, <1>6 DEF PutUncount
<1>7. ASSUME NEW t \in Threads, PutClear(t) PROVE Found(i)'
  <2>1. CASE i = idx[t]
    <3>1. Waiting(t, i)'
      BY <1>7, <2>1 DEF PutClear
    <3> QED BY <3>1
  <2>2. CASE i # idx[t]
    <3>1. ~ locked[i] /\ curr' = curr
      BY <1>7, <2>2 DEF PutClear
    <3>2. ASSUME NEW u \in Threads, Waiting(u, i) PROVE Found(i)'
      BY <1>7, <3>2 DEF PutClear
    <3> QED BY <1>0, <3>1, <3>2
  <2> QED BY <2>1, <2>2
<1>8. ASSUME NEW t \in Threads, PutRead(t) PROVE Found(i)'
  <2>1. ~ locked[i] /\ curr' = curr
    BY <1>8 DEF PutRead
  <2>2. CASE curr <= i
    BY <2>1, <2>2
  <2>3. ASSUME ~ (curr <= i), NEW u \in Threads, Waiting(u, i) PROVE Waiting(u, i)'
    BY <1>8, <2>3 DEF PutRead
  <2> QED BY <1>0, <2>1, <2>2, <2>3
<1>9. ASSUME NEW t \in Threads, PutCas(t) PROVE Found(i)'
  <2>1. ~ locked[i]
    BY <1>9 DEF PutCas
  <2>2. CASE curr = old[t]
    <3>1. curr' = idx[t] /\ (curr <= i => idx[t] <= i)
      BY <1>9, <2>2 DEF PutCas, CasLowers
    <3>2. ASSUME NEW u \in Threads, Waiting(u, i) PROVE Found(i)'
      BY <1>9, <2>2, <3>1, <3>2 DEF PutCas
    <3> QED BY <1>0, <2>1, <2>2, <3>1, <3>2
  <2>3. CASE curr # old[t]
    BY <1>0, <1>9, <2>1, <2>3 DEF PutCas
  <2> QED BY <2>2, <2>3
<1>10. CASE UNCHANGED vars
  BY <1>0, <1>10 DEF vars
<1> QED
  BY <1>1, <1>2, <1>3, <1>4, <1>5, <1>6, <1>7, <1>8, <1>9, <1>10 DEF Next

-----------------------------------------------------------------------------

\* The strengthening is inductive.
THEOREM Inductive == Spec => []IInv
<1>1. Init => IInv
  BY SlotFacts, PoolAssumption
     DEF Init, IInv, TypeOK, Exclusion, Counting, CasLowers, NoLostSlot, Holding,
         Holds, InGet, InPut, Slots
<1>2. IInv /\ [Next]_vars => IInv'
  BY TypeCorrect, ExclusionStep, CountingStep, CasLowersStep, NoLostSlotStep DEF IInv
<1> QED
  BY <1>1, <1>2, PTL DEF Spec

\* Type correctness of the pool.
THEOREM TypeSafety == Spec => []TypeOK
BY Inductive, PTL DEF IInv

\* No slot is ever lost: fsp_put moves the start of the search back far
\* enough, whatever concurrent gets and puts do to curr in between.
THEOREM SlotsNeverLost == Spec => []NoLostSlot
BY Inductive, PTL DEF IInv

\* The assertion in fsp_get never fails.
THEOREM AssertionHolds == Spec => []RefcntAssertion
<1>1. IInv => RefcntAssertion
  BY DEF IInv, TypeOK, Counting, RefcntAssertion, InGet
<1> QED
  BY <1>1, Inductive, PTL

\* The lock-free pool implements the abstract pool of exclusive slots: the
\* test_and_set that finds the flag clear is Take, the clear is Give, and
\* nothing else changes who holds what.
THEOREM Refinement == Spec => ImplementsSlotPool
<1> DEFINE H == [t \in Threads |-> Holds(t)]
<1>1. Init => Abstract!Init
  BY DEF Init, Abstract!Init, Holds
<1>2. IInv /\ [Next]_vars => [Abstract!Next]_H
  <2> SUFFICES ASSUME IInv, [Next]_vars PROVE Abstract!Next \/ H' = H
    OBVIOUS
  <2> USE DEF IInv, TypeOK, Holds
  <2>1. ASSUME NEW t \in Threads, GetTestAndSet(t) PROVE Abstract!Next \/ H' = H
    <3>1. CASE locked[idx[t]]
      BY <2>1, <3>1 DEF GetTestAndSet
    <3>2. CASE ~ locked[idx[t]]
      <4>1. idx[t] \in Abstract!Free
        BY <2>1, <3>2 DEF GetTestAndSet, Abstract!Free, Exclusion, InGet
      <4>2. H' = [H EXCEPT ![t] = @ \cup {idx[t]}]
        <5>1. /\ idx' = idx /\ owned' = owned
              /\ pc' = [pc EXCEPT ![t] = "count"] /\ pc[t] = "tas"
          BY <2>1, <3>2 DEF GetTestAndSet
        <5>2. Holds(t)' = Holds(t) \cup {idx[t]}
          BY <5>1
        <5>3. ASSUME NEW u \in Threads, u # t PROVE Holds(u)' = Holds(u)
          BY <5>1, <5>3
        <5> HIDE DEF Holds
        <5> QED BY <5>2, <5>3
      <4> QED BY <4>1, <4>2 DEF Abstract!Next, Abstract!Take
    <3> QED BY <3>1, <3>2
  <2>2. ASSUME NEW t \in Threads, PutClear(t) PROVE Abstract!Next \/ H' = H
    <3>1. idx[t] \in H[t]
      BY <2>2 DEF PutClear
    <3>2. H' = [H EXCEPT ![t] = @ \ {idx[t]}]
      <4>1. /\ idx' = idx /\ owned' = owned
            /\ pc' = [pc EXCEPT ![t] = "read"] /\ pc[t] = "clear"
        BY <2>2 DEF PutClear
      <4>2. Holds(t)' = Holds(t) \ {idx[t]}
        BY <4>1 DEF Exclusion, Holding
      <4>3. ASSUME NEW u \in Threads, u # t PROVE Holds(u)' = Holds(u)
        BY <4>1, <4>3
      <4> HIDE DEF Holds
      <4> QED BY <4>2, <4>3
    <3> QED BY <3>1, <3>2 DEF Abstract!Next, Abstract!Give
  <2>3. ASSUME NEW t \in Threads, GetStart(t) PROVE H' = H
    BY <2>3 DEF GetStart
  <2>4. ASSUME NEW t \in Threads, GetFetch(t) PROVE H' = H
    BY <2>4 DEF GetFetch, Return
  <2>5. ASSUME NEW t \in Threads, GetCount(t) PROVE H' = H
    BY <2>5 DEF GetCount, Return
  <2>6. ASSUME NEW t \in Threads, PutStart(t) PROVE H' = H
    BY <2>6 DEF PutStart
  <2>7. ASSUME NEW t \in Threads, PutUncount(t) PROVE H' = H
    BY <2>7 DEF PutUncount
  <2>8. ASSUME NEW t \in Threads, PutRead(t) PROVE H' = H
    BY <2>8 DEF PutRead, Return
  <2>9. ASSUME NEW t \in Threads, PutCas(t) PROVE H' = H
    BY <2>9 DEF PutCas, Return
  <2>10. CASE UNCHANGED vars
    BY <2>10 DEF vars
  <2> QED
    BY <2>1, <2>2, <2>3, <2>4, <2>5, <2>6, <2>7, <2>8, <2>9, <2>10 DEF Next
<1> QED
  BY <1>1, <1>2, Inductive, PTL DEF Spec, ImplementsSlotPool, Abstract!Spec
=============================================================================
