------------------------------ MODULE MCIngest ------------------------------
(* Instances of Ingest: two messages carry the event e1, the first of them   *)
(* with data its schema rejects; a third carries e2, of the same type; the   *)
(* fourth is not a valid envelope.                                           *)
EXTENDS Ingest, TLC

CONSTANTS e1, e2, t1, m1, m2, m3, m4

MCTypeOf == (e1 :> t1) @@ (e2 :> t1)

\* Restricted to the messages of the instance.
MCEventOf ==
  [m \in Messages |-> IF m \in {m1, m2} THEN e1 ELSE IF m = m3 THEN e2 ELSE NoEvent]

MCFit == Messages \ {m1}

Symmetry ==
  Permutations(Workers) \cup Permutations(Requests) \cup Permutations(Operators)
    \cup Permutations(Modules)
=============================================================================
