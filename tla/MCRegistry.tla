------------------------------ MODULE MCRegistry ------------------------------
(***************************************************************************)
(* Registry on small instances: the administrator, two modules, one type.  *)
(***************************************************************************)
EXTENDS Registry, TLC

CONSTANTS core, a, b, t1, r1, r2

\* On the board the Core publishes t1, and the others consume it.
MCPublishes == {<<core, t1>>}
MCConsumes == {<<a, t1>>, <<b, t1>>}

\* Requests differ in nothing but their name, and so do the modules besides the
\* administrator.
Symmetry == {p @@ q : p \in Permutations(Requests), q \in Permutations({a, b})}

=============================================================================
