----------------------------- MODULE MCSessions -----------------------------
(* Sessions on small instances; the .cfg files give the constants.         *)
EXTENDS Sessions, TLC

(* Tokens, replicas and requests are interchangeable. *)
Symmetry == Permutations(Tokens) \cup Permutations(Replicas) \cup Permutations(Lanes)
=============================================================================
