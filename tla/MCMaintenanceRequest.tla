------------------------ MODULE MCMaintenanceRequest ------------------------
(***************************************************************************)
(* Small instances of MaintenanceRequest.                                  *)
(***************************************************************************)
EXTENDS MaintenanceRequest

CONSTANTS ann, m1, m2, b1, s1, v1, house, flat

\* A property, and a unit of it.
HouseAndFlat == {<<house, None>>, <<house, flat>>}
\* One request may go through its whole life; a second one can only be created and linked.
Versions     == [r \in {m1, m2} |-> IF r = m1 THEN 7 ELSE 2]
=============================================================================
