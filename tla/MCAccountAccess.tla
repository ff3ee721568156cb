--------------------------- MODULE MCAccountAccess ---------------------------
(* Instances of AccountAccess for TLC. *)
EXTENDS AccountAccess, TLC

Interchangeable ==
    Permutations(Jobs) \cup Permutations(Links) \cup Permutations(Workers)
      \cup Permutations(Visitors)
=============================================================================
