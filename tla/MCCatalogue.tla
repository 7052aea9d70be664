------------------------------ MODULE MCCatalogue ------------------------------
(***************************************************************************)
(* Catalogue on small instances: a zona and a barrio of the seed, and one  *)
(* of each, and an item, that are not.                                     *)
(***************************************************************************)
EXTENDS Catalogue, TLC

CONSTANTS z1, z2, b1, b2, i1, n1, n2, p1, p2, r1, r2

MCSeedZona == b1 :> z1

================================================================================
