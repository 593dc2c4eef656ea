-------------------------- MODULE MCDirectPosting --------------------------
(***************************************************************************)
(* Small instances of DirectPosting.                                       *)
(***************************************************************************)
EXTENDS DirectPosting, TLC

CONSTANTS w1, w2, c1, c2, n1, n2, a1, a2

\* Nothing tells two workers, two descriptions, two texts or two accounts apart.
Symmetry ==
  Permutations(Workers) \cup Permutations(Cores) \cup Permutations(Notes)
    \cup Permutations(Accounts)
=============================================================================
