-------------------------- MODULE MCDeliveryCycle --------------------------
(* Symmetry for the safety runs of DeliveryCycle: copies, handlers, scans,   *)
(* operators and deliveries are interchangeable.                             *)
EXTENDS DeliveryCycle, TLC

Symmetry ==
  Permutations(Copies) \cup Permutations(DlqHandlers) \cup Permutations(Scans)
    \cup Permutations(Operators) \cup Permutations(Deliveries)
=============================================================================
