------------------------------- MODULE EventHub -------------------------------
(***************************************************************************)
(* What the hub promises about an event: it enters the log once, with one  *)
(* of three outcomes; a routed event has a fixed set of receivers, one     *)
(* delivery each; a rejected one may be corrected later and then takes one *)
(* of the other two outcomes; those two are final.                         *)
(***************************************************************************)
CONSTANTS Events, Modules
VARIABLES outcome, receivers

Outcomes == {"NEW", "ROUTED", "NO_SUBSCRIBERS", "REJECTED"}

Init ==
  /\ outcome = [e \in Events |-> "NEW"]
  /\ receivers = [e \in Events |-> {}]

\* An event with no decision yet, or a rejected one, gets an outcome;
\* only a routed event has receivers.
Decide(e) ==
  /\ outcome[e] \in {"NEW", "REJECTED"}
  /\ \E to \in SUBSET Modules, o \in Outcomes \ {"NEW"} :
       /\ o = "ROUTED" <=> to # {}
       /\ outcome' = [outcome EXCEPT ![e] = o]
       /\ receivers' = [receivers EXCEPT ![e] = to]

Next == \E e \in Events : Decide(e)

Spec == Init /\ [][Next]_<<outcome, receivers>>
=============================================================================
