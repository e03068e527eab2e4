-------------------------- MODULE DeviceAccessProofs --------------------------
(***************************************************************************)
(* For any number of files and list entries: the device's reference counts  *)
(* match what the files were granted, exclusive access excludes all but     *)
(* monitors, and the ioctls implement AccessModes.  The counts decide who   *)
(* is granted access, so Exclusion holds only together with CountsMatch,    *)
(* which in turn needs every granted entry to be released exactly once.     *)
(***************************************************************************)
EXTENDS DeviceAccess, FiniteSetTheorems, TLAPS

IInv == TypeOK /\ EntriesOwned /\ CountsMatch /\ Exclusion

USE EntriesAssumption, NoneAssumption

\* A count in TLA+ terms: a number up to SizeMax, 0 just if nobody is granted.
LEMMA CountFacts ==
  ASSUME NEW a \in Access
  PROVE  /\ IsFiniteSet(Granted(a)) /\ Cardinality(Granted(a)) \in 0 .. SizeMax
         /\ Cardinality(Granted(a)) = 0 <=> \A e \in Entries : access[e] # a
<1>1. Granted(a) \subseteq Entries BY DEF Granted
<1>2. /\ IsFiniteSet(Granted(a))
      /\ Cardinality(Granted(a)) \in Nat
      /\ Cardinality(Granted(a)) <= Cardinality(Entries)
  BY <1>1, FS_Subset, FS_CardinalityType
<1>3. Cardinality(Granted(a)) = 0 <=> Granted(a) = {} BY <1>2, FS_EmptySet
<1>4. Granted(a) = {} <=> \A e \in Entries : access[e] # a BY DEF Granted
<1>5. Cardinality(Entries) \in Nat BY FS_CardinalityType
<1> QED BY <1>2, <1>3, <1>4, <1>5

\* A granted entry adds one to the count of its mode.
LEMMA CountAdded ==
  ASSUME TypeOK, NEW e \in Entries, access[e] = None, NEW a \in Access,
         access' = [access EXCEPT ![e] = a], NEW b \in Access
  PROVE  Cardinality(Granted(b)') = Cardinality(Granted(b)) + (IF b = a THEN 1 ELSE 0)
<1>1. CASE b = a
  <2>1. Granted(b)' = Granted(b) \cup {e} BY <1>1 DEF Granted, TypeOK
  <2>2. e \notin Granted(b) BY <1>1 DEF Granted
  <2>3. IsFiniteSet(Granted(b)) /\ Cardinality(Granted(b)) \in Nat BY CountFacts
  <2>4. Cardinality(Granted(b) \cup {e}) = Cardinality(Granted(b)) + 1
    BY <2>2, <2>3, FS_AddElement
  <2> QED BY <1>1, <2>1, <2>3, <2>4
<1>2. CASE b # a
  <2>1. Granted(b)' = Granted(b) BY <1>2 DEF Granted, TypeOK
  <2> QED BY <1>2, <2>1, CountFacts
<1> QED BY <1>1, <1>2

\* A removed entry takes one from the count of its mode.
LEMMA CountRemoved ==
  ASSUME TypeOK, NEW e \in Entries, NEW a \in Access, access[e] = a,
         access' = [access EXCEPT ![e] = None], NEW b \in Access
  PROVE  Cardinality(Granted(b)') = Cardinality(Granted(b)) - (IF b = a THEN 1 ELSE 0)
<1>1. CASE b = a
  <2>1. Granted(b)' = Granted(b) \ {e} BY <1>1 DEF Granted, TypeOK
  <2>2. e \in Granted(b) BY <1>1 DEF Granted
  <2>3. IsFiniteSet(Granted(b)) /\ Cardinality(Granted(b)) \in Nat BY CountFacts
  <2>4. Cardinality(Granted(b) \ {e}) = Cardinality(Granted(b)) - 1
    BY <2>2, <2>3, FS_RemoveElement
  <2> QED BY <1>1, <2>1, <2>3, <2>4
<1>2. CASE b # a
  <2>1. Granted(b)' = Granted(b) BY <1>2 DEF Granted, TypeOK
  <2> QED BY <1>2, <2>1, CountFacts
<1> QED BY <1>1, <1>2

\* The release of an entry, by destroy or when the file is closed.
Releases(f, e) == e \in list[f] /\ device_release(access[e]) /\ Remove(f, e)

LEMMA ReleaseKeepsInv ==
  ASSUME IInv, NEW f \in Files, NEW e \in Entries, Releases(f, e),
         UNCHANGED <<state, answer>>
  PROVE  IInv'
<1> DEFINE a == access[e]
<1>1. a \in Access /\ list' = [list EXCEPT ![f] = @ \ {e}]
      /\ access' = [access EXCEPT ![e] = None]
  <2>1. access[e] # None BY DEF IInv, EntriesOwned, Releases
  <2>2. access[e] \in Access \cup {None} BY DEF IInv, TypeOK
  <2> QED BY <2>1, <2>2 DEF Releases, Remove
<1>2. ref_cnt[a] = Cardinality(Granted(a)) /\ ref_cnt[a] # 0
  BY <1>1, CountFacts DEF IInv, CountsMatch
<1>3. ref_cnt' = [ref_cnt EXCEPT ![a] = @ - 1]
  BY <1>1, <1>2 DEF Releases, device_release
<1>4. TypeOK'
  <2>1. ref_cnt \in [Access -> 0 .. SizeMax] BY DEF IInv, TypeOK
  <2>2. ref_cnt[a] - 1 \in 0 .. SizeMax BY <1>1, <1>2, <2>1
  <2>3. ref_cnt' \in [Access -> 0 .. SizeMax] BY <1>3, <2>1, <2>2
  <2>4. list' \in [Files -> SUBSET Entries] BY <1>1 DEF IInv, TypeOK
  <2>5. access' \in [Entries -> Access \cup {None}] BY <1>1 DEF IInv, TypeOK
  <2> QED BY <2>3, <2>4, <2>5 DEF IInv, TypeOK
<1>5. EntriesOwned'
  <2>1. \A g \in Files : list[g]' = IF g = f THEN list[f] \ {e} ELSE list[g]
    BY <1>1 DEF IInv, TypeOK
  <2>2. \A d \in Entries : access[d]' = IF d = e THEN None ELSE access[d]
    BY <1>1 DEF IInv, TypeOK
  <2>3. \A g \in Files : list[g] \subseteq Entries /\ (g # f => e \notin list[g])
    BY DEF IInv, TypeOK, EntriesOwned, Releases
  <2> QED BY <2>1, <2>2, <2>3 DEF IInv, EntriesOwned, Releases
<1>6. CountsMatch'
  <2> SUFFICES ASSUME NEW b \in Access
               PROVE  ref_cnt'[b] = Cardinality(Granted(b)')
    BY DEF CountsMatch
  <2>1. Cardinality(Granted(b)') = Cardinality(Granted(b)) - (IF b = a THEN 1 ELSE 0)
    BY <1>1, CountRemoved DEF IInv
  <2>2. ref_cnt[b] = Cardinality(Granted(b)) BY DEF IInv, CountsMatch
  <2>3. ref_cnt'[b] = IF b = a THEN ref_cnt[b] - 1 ELSE ref_cnt[b]
    BY <1>1, <1>3 DEF IInv, TypeOK
  <2> QED BY <2>1, <2>2, <2>3, CountFacts
<1>7. Exclusion' BY <1>1 DEF IInv, TypeOK, Exclusion, Access
<1> QED BY <1>4, <1>5, <1>6, <1>7 DEF IInv

\* A granted request.
Grants(f, e, a) == /\ Available(a) /\ access[e] = None
                   /\ access' = [access EXCEPT ![e] = a]
                   /\ list' = [list EXCEPT ![f] = @ \cup {e}]
                   /\ ref_cnt' = [ref_cnt EXCEPT ![a] = @ + 1]

LEMMA GrantKeepsInv ==
  ASSUME IInv, NEW f \in Files, NEW e \in Entries, NEW a \in Access,
         Grants(f, e, a), state[f] = "open",
         state' = state, answer' = [answer EXCEPT ![f] = <<"granted", a>>]
  PROVE  IInv'
<1>1. access \in [Entries -> Access \cup {None}] /\ list \in [Files -> SUBSET Entries]
      /\ ref_cnt \in [Access -> 0 .. SizeMax]
  BY DEF IInv, TypeOK
<1>2. CountsMatch'
  <2> SUFFICES ASSUME NEW b \in Access
               PROVE  ref_cnt'[b] = Cardinality(Granted(b)')
    BY DEF CountsMatch
  <2>1. Cardinality(Granted(b)') = Cardinality(Granted(b)) + (IF b = a THEN 1 ELSE 0)
    BY CountAdded DEF IInv, Grants
  <2>2. ref_cnt[b] = Cardinality(Granted(b)) BY DEF IInv, CountsMatch
  <2>3. ref_cnt'[b] = IF b = a THEN ref_cnt[b] + 1 ELSE ref_cnt[b]
    BY <1>1 DEF Grants
  <2> QED BY <1>1, <2>1, <2>2, <2>3, CountFacts
<1>3. TypeOK'
  <2>1. access' \in [Entries -> Access \cup {None}] BY <1>1 DEF Grants
  <2>2. \A b \in Access : Cardinality(Granted(b)') \in 0 .. SizeMax
    <3> SUFFICES ASSUME NEW b \in Access
                 PROVE  Cardinality(Granted(b)') \in 0 .. SizeMax
      OBVIOUS
    <3>1. Granted(b)' \subseteq Entries BY DEF Granted
    <3> QED BY <3>1, FS_Subset, FS_CardinalityType
  <2>3. ref_cnt'[a] \in 0 .. SizeMax BY <1>2, <2>2 DEF CountsMatch
  <2>4. ref_cnt' \in [Access -> 0 .. SizeMax] BY <1>1, <2>3 DEF Grants
  <2> QED BY <1>1, <2>1, <2>4 DEF IInv, TypeOK, Grants
<1>4. EntriesOwned'
  <2>1. \A g \in Files : list[g]' = IF g = f THEN list[f] \cup {e} ELSE list[g]
    BY <1>1 DEF Grants
  <2>2. \A d \in Entries : access[d]' = IF d = e THEN a ELSE access[d]
    BY <1>1 DEF Grants
  <2>3. \A g \in Files : list[g] \subseteq Entries /\ e \notin list[g]
    BY <1>1 DEF IInv, EntriesOwned, Grants
  <2> QED BY <2>1, <2>2, <2>3 DEF IInv, EntriesOwned
<1>5. Exclusion'
  <2>1. \A b \in Access : ref_cnt[b] = 0 <=> \A d \in Entries : access[d] # b
    BY CountFacts DEF IInv, CountsMatch
  <2>2. a # "monitor" => \A d \in Entries : access[d] # "exclusive"
    BY <2>1 DEF Grants, Available, Access
  <2>3. a = "exclusive" => \A d \in Entries : access[d] # "shared"
    BY <2>1 DEF Grants, Available, Access
  <2> QED BY <1>1, <2>2, <2>3 DEF IInv, Exclusion, Grants, Access
<1> QED BY <1>2, <1>3, <1>4, <1>5 DEF IInv

\* IInv is inductive.
THEOREM Inductive == IInv /\ [Next]_vars => IInv'
<1> SUFFICES ASSUME IInv, [Next]_vars PROVE IInv'
  OBVIOUS
<1>1. CASE UNCHANGED vars
  BY <1>1 DEF IInv, TypeOK, EntriesOwned, CountsMatch, Exclusion, Granted, vars
<1>2. ASSUME NEW f \in Files, Open(f) \/ Close(f) \/ Closed(f) PROVE IInv'
  <2>1. UNCHANGED <<ref_cnt, list, access, answer>>
    BY <1>2 DEF Open, Close, Closed
  <2>2. CountsMatch' /\ Exclusion' BY <2>1 DEF IInv, CountsMatch, Exclusion, Granted
  <2>3. TypeOK' BY <1>2, <2>1 DEF IInv, TypeOK, Open, Close, Closed
  <2>4. \A g \in Files : state'[g] = "closed" => list[g] = {}
    BY <1>2 DEF IInv, TypeOK, EntriesOwned, Open, Close, Closed
  <2>5. EntriesOwned' BY <2>1, <2>4 DEF IInv, EntriesOwned
  <2> QED BY <2>2, <2>3, <2>5 DEF IInv
<1>3. ASSUME NEW f \in Files, CloseEntry(f) PROVE IInv'
  <2> PICK e \in list[f] : device_release(access[e]) /\ Remove(f, e)
    BY <1>3 DEF CloseEntry
  <2>1. e \in Entries BY DEF IInv, TypeOK
  <2> QED BY <1>3, <2>1, ReleaseKeepsInv DEF CloseEntry, Releases
<1>4. ASSUME NEW f \in Files, NEW a \in Access, Destroy(f, a) PROVE IInv'
  <2> PICK e \in list[f] : access[e] = a /\ Remove(f, e)
    BY <1>4 DEF Destroy
  <2>1. e \in Entries BY DEF IInv, TypeOK
  <2> QED BY <1>4, <2>1, ReleaseKeepsInv DEF Destroy, Releases
<1>5. ASSUME NEW f \in Files, NEW a \in Access, Create(f, a) PROVE IInv'
  <2>1. CASE ~ Available(a)
    <3>1. UNCHANGED <<ref_cnt, list, access, state>>
      BY <1>5, <2>1 DEF Create
    <3>2. TypeOK' BY <1>5, <2>1, <3>1 DEF IInv, TypeOK, Create
    <3> QED BY <3>1, <3>2 DEF IInv, EntriesOwned, CountsMatch, Exclusion, Granted
  <2>2. CASE Available(a)
    <3>1. PICK e \in Entries : /\ access[e] = None
                               /\ access' = [access EXCEPT ![e] = a]
                               /\ list' = [list EXCEPT ![f] = @ \cup {e}]
      BY <1>5, <2>2 DEF Create
    <3>2. Grants(f, e, a) BY <1>5, <2>2, <3>1 DEF Create, Grants
    <3> QED BY <1>5, <2>2, <3>2, GrantKeepsInv DEF Create
  <2> QED BY <2>1, <2>2
<1> QED BY <1>1, <1>2, <1>3, <1>4, <1>5 DEF Next

LEMMA InitInv == Init => IInv
<1> SUFFICES ASSUME Init PROVE IInv
  OBVIOUS
<1>1. TypeOK BY DEF Init, TypeOK
<1>2. CountsMatch
  <2> SUFFICES ASSUME NEW a \in Access PROVE ref_cnt[a] = Cardinality(Granted(a))
    BY DEF CountsMatch
  <2>1. \A e \in Entries : access[e] # a BY DEF Init
  <2> QED BY <2>1, CountFacts DEF Init
<1>3. EntriesOwned /\ Exclusion BY DEF Init, EntriesOwned, Exclusion
<1> QED BY <1>1, <1>2, <1>3 DEF IInv

LEMMA Invariance == Spec => []IInv
BY InitInv, Inductive, PTL DEF Spec

\* Every variable keeps its type; in particular no reference count wraps.
THEOREM TypeSafety == Spec => []TypeOK
<1>1. IInv => TypeOK BY DEF IInv
<1> QED BY <1>1, Invariance, PTL

\* The reference counts match what the files were granted.
THEOREM CountsAlwaysMatch == Spec => []CountsMatch
<1>1. IInv => CountsMatch BY DEF IInv
<1> QED BY <1>1, Invariance, PTL

\* What a file was granted can always be released through it.
THEOREM EntriesAlwaysOwned == Spec => []EntriesOwned
<1>1. IInv => EntriesOwned BY DEF IInv
<1> QED BY <1>1, Invariance, PTL

\* Exclusive access excludes every other user but monitors.
THEOREM ExclusiveAccess == Spec => []Exclusion
<1>1. IInv => Exclusion BY DEF IInv
<1> QED BY <1>1, Invariance, PTL

\* A request is refused just when a grant is in its way.
LEMMA AvailableIsCompatible ==
  ASSUME IInv, NEW a \in Access
  PROVE  Available(a) <=> Modes!Compatible(a)
<1>1. \A b \in Access : ref_cnt[b] = 0 <=> \A d \in Entries : access[d] # b
  BY CountFacts DEF IInv, CountsMatch
<1>2. ref_cnt["exclusive"] = 0 <=> \A d \in Entries : access[d] # "exclusive"
  BY <1>1 DEF Access
<1>3. ref_cnt["shared"] = 0 <=> \A d \in Entries : access[d] # "shared"
  BY <1>1 DEF Access
<1>4. \A d \in Entries : access[d] \in Access \cup {None} BY DEF IInv, TypeOK
<1>5. Available(a) <=>
        \A d \in Entries : /\ access[d] = "exclusive" => a = "monitor"
                           /\ access[d] = "shared" => a # "exclusive"
  BY <1>2, <1>3 DEF Available
<1>6. \A d \in Entries :
        (access[d] # None => ~ Modes!Conflicts(a, access[d])) <=>
        /\ access[d] = "exclusive" => a = "monitor"
        /\ access[d] = "shared" => a # "exclusive"
  BY <1>4 DEF Access, Modes!Conflicts
<1> QED BY <1>5, <1>6 DEF Modes!Compatible

\* The ioctls and the file's release implement the access modes.
THEOREM Refinement == Spec => KeepsPromise
<1>1. Init => Modes!Init BY DEF Init, Modes!Init
<1>2. IInv /\ [Next]_vars => [Modes!Next]_<<access, answer>>
  <2> SUFFICES ASSUME IInv, [Next]_vars PROVE [Modes!Next]_<<access, answer>>
    OBVIOUS
  <2>1. ASSUME NEW f \in Files, NEW e \in list[f], Remove(f, e), UNCHANGED answer
        PROVE  Modes!Next
    <3>1. e \in Entries /\ access[e] # None
      BY DEF IInv, TypeOK, EntriesOwned
    <3> QED BY <2>1, <3>1 DEF Remove, Modes!Next, Modes!Drop
  <2>2. ASSUME NEW f \in Files, NEW a \in Access, Create(f, a) PROVE Modes!Next
    <3>1. a \in Modes!Modes BY DEF Access, Modes!Modes
    <3>2. CASE Available(a)
      <4>1. \E e \in Entries : Modes!Grant(f, e, a)
        BY <2>2, <3>2, AvailableIsCompatible DEF Create, Modes!Grant
      <4> QED BY <3>1, <4>1 DEF Modes!Next
    <3>3. CASE ~ Available(a)
      <4>1. Modes!Refuse(f, a)
        BY <2>2, <3>3, AvailableIsCompatible DEF Create, Modes!Refuse
      <4> QED BY <3>1, <4>1 DEF Modes!Next
    <3> QED BY <3>2, <3>3
  <2>3. ASSUME NEW f \in Files, CloseEntry(f) PROVE Modes!Next
    BY <2>1, <2>3 DEF CloseEntry
  <2>4. ASSUME NEW f \in Files, NEW a \in Access, Destroy(f, a) PROVE Modes!Next
    BY <2>1, <2>4 DEF Destroy
  <2>5. ASSUME NEW f \in Files, Open(f) \/ Close(f) \/ Closed(f)
        PROVE  UNCHANGED <<access, answer>>
    BY <2>5 DEF Open, Close, Closed
  <2>6. CASE UNCHANGED vars BY <2>6 DEF vars
  <2> QED BY <2>2, <2>3, <2>4, <2>5, <2>6 DEF Next
<1> QED BY <1>1, <1>2, Invariance, PTL DEF Spec, KeepsPromise, Modes!Spec
=============================================================================
