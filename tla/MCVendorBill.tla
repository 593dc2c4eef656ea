----------------------------- MODULE MCVendorBill -----------------------------
(***************************************************************************)
(* Small instances of VendorBill.                                          *)
(***************************************************************************)
EXTENDS VendorBill, TLC

CONSTANTS alice, bob, c1, c2, p1, p2, a1, a2

\* Nothing tells one value of the financial fields, one property or one account from another.
Symmetry == Permutations(Cores) \cup Permutations(Places) \cup Permutations(Accounts)
===============================================================================
