------------------------------ MODULE MCAccounts ------------------------------
(***************************************************************************)
(* Accounts on small instances: two accounts of one team.                  *)
(***************************************************************************)
EXTENDS Accounts, TLC

CONSTANTS core, a, e1, e2, r1, r2

MCTeamOf == e1 :> a @@ e2 :> a

===============================================================================
