----------------------------- MODULE MCAuthority -----------------------------
(* Authority on small instances; the .cfg files give the constants.        *)
EXTENDS Authority, TLC

(* Users, identifiers and replicas are interchangeable. *)
Symmetry == Permutations(Users) \cup Permutations(Convs) \cup Permutations(Replicas)
=============================================================================
