------------------------- MODULE MCVendorSettlement -------------------------
(***************************************************************************)
(* Small instances of VendorSettlement.                                    *)
(***************************************************************************)
EXTENDS VendorSettlement, TLC

CONSTANTS p1, p2, a1, a2

\* Nothing tells one payment or one account from another.
Symmetry == Permutations(Payments) \cup Permutations(Accounts)
=============================================================================
