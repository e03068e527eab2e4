------------------------------ MODULE SlotPool ------------------------------
(***************************************************************************)
(* What a pool of numbered slots promises its users: a slot is held by at   *)
(* most one thread at a time, and a slot given back can be taken again.     *)
(***************************************************************************)
CONSTANTS Threads, Slots
VARIABLE holds   \* the slots each thread holds

Free == Slots \ UNION {holds[t] : t \in Threads}

Init == holds = [t \in Threads |-> {}]

Take(t) == \E i \in Free : holds' = [holds EXCEPT ![t] = @ \cup {i}]

Give(t) == \E i \in holds[t] : holds' = [holds EXCEPT ![t] = @ \ {i}]

Next == \E t \in Threads : Take(t) \/ Give(t)

Spec == Init /\ [][Next]_holds
=============================================================================
