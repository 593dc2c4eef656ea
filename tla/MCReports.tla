----------------------------- MODULE MCReports -----------------------------
(***************************************************************************)
(* Small instances of Reports.                                             *)
(***************************************************************************)
EXTENDS Reports, TLC

CONSTANTS i1, i2

\* The first day of a year and the last of a leap February; rent is dated the first of both months.
Boundaries == {<<2024, 1, 1>>, <<2024, 2, 29>>}

\* A unit let to two tenants in turn, with a change in February.
First  == [name |-> "first", start |-> <<2024, 1, 1>>, end |-> <<2024, 2, 12>>,
           rent |-> 100001, status |-> "active"]
Second == [name |-> "second", start |-> <<2024, 2, 13>>, end |-> None,
           rent |-> 100001, status |-> "active"]
Opened == {First, Second}

\* The first lease may be cancelled, and be active again.
Tenancies == Opened \cup {[First EXCEPT !.status = "cancelled"]}

\* A credit and a payment.
Signs == {-1, 2}

\* Nothing tells two slots apart.
Symmetry == Permutations(Ids)
=============================================================================
