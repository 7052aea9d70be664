--------------------------- MODULE DeliveryPromise ---------------------------
(***************************************************************************)
(* What the hub promises for every delivery once its event was routed: it  *)
(* travels until the target module processes it or it is parked as an open *)
(* dead letter; an operator sends a parked one off again or settles it; a  *)
(* settled delivery stays settled.                                         *)
(***************************************************************************)
CONSTANT Deliveries
VARIABLE phase

Phases == {"NEW", "TRAVELLING", "PARKED", "SETTLED"}

Moves ==
  { <<"NEW", "TRAVELLING">>,      \* its event is routed
    <<"TRAVELLING", "SETTLED">>,  \* its consumer processes it
    <<"TRAVELLING", "PARKED">>,   \* its attempts are exhausted
    <<"PARKED", "TRAVELLING">>,   \* an operator retries it
    <<"PARKED", "SETTLED">> }     \* ... or discards it, or a late copy is processed

Init == phase = [d \in Deliveries |-> "NEW"]

\* One transaction may move several deliveries (a scan of the due retries).
Next ==
  /\ phase' \in [Deliveries -> Phases]
  /\ \A d \in Deliveries : phase'[d] # phase[d] => <<phase[d], phase'[d]>> \in Moves

\* No delivery travels for ever.
Leave(d) == Next /\ phase[d] = "TRAVELLING" /\ phase'[d] # "TRAVELLING"

Spec == Init /\ [][Next]_phase /\ \A d \in Deliveries : WF_phase(Leave(d))
=============================================================================
