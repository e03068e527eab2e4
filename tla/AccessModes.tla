----------------------------- MODULE AccessModes -----------------------------
(***************************************************************************)
(* What the kernel module promises about access to one device: a grant      *)
(* holds a mode until it is dropped.  Exclusive access needs a device with  *)
(* no grants but monitors, shared access one without an exclusive grant,    *)
(* monitoring is always possible; a request is refused only while a grant   *)
(* is in its way.                                                           *)
(***************************************************************************)
EXTENDS Naturals

CONSTANTS Files, Grants, None

VARIABLES held,    \* the mode a grant holds, or None
          answer   \* what the last request of a file was told

Modes == {"exclusive", "monitor", "shared"}

Conflicts(a, b) == \/ a = "exclusive" /\ b \in {"exclusive", "shared"}
                   \/ b = "exclusive" /\ a \in {"exclusive", "shared"}

Compatible(a) == \A g \in Grants : held[g] # None => ~ Conflicts(a, held[g])

Init == held = [g \in Grants |-> None] /\ answer = [f \in Files |-> <<"none", None>>]

Grant(f, g, a) == /\ held[g] = None /\ Compatible(a)
                  /\ held' = [held EXCEPT ![g] = a]
                  /\ answer' = [answer EXCEPT ![f] = <<"granted", a>>]

Refuse(f, a) == /\ ~ Compatible(a)
                /\ answer' = [answer EXCEPT ![f] = <<"busy", a>>]
                /\ UNCHANGED held

Drop(g) == held[g] # None /\ held' = [held EXCEPT ![g] = None] /\ UNCHANGED answer

Next == \/ \E f \in Files, g \in Grants, a \in Modes : Grant(f, g, a)
        \/ \E f \in Files, a \in Modes : Refuse(f, a)
        \/ \E g \in Grants : Drop(g)

Spec == Init /\ [][Next]_<<held, answer>>
=============================================================================
