---------------------------- MODULE MCTenantReceipt ----------------------------
(***************************************************************************)
(* Small instances of TenantReceipt.                                       *)
(***************************************************************************)
EXTENDS TenantReceipt, TLC

CONSTANTS r1, r2, c1, c2, q1, q2

\* Charge c1 is due first and is smaller than the largest receipt.
TwoCharges == [c \in {c1, c2} |-> IF c = c1 THEN 1 ELSE 2]
TwoRanks   == [c \in {c1, c2} |-> IF c = c1 THEN 1 ELSE 2]
OneCharge  == [c \in {c1} |-> 2]
OneRank    == [c \in {c1} |-> 1]

\* The requests of the web server are interchangeable.
Symmetry == Permutations(Requests)
================================================================================
