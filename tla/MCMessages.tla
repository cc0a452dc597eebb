----------------------------- MODULE MCMessages -----------------------------
(* Messages on small instances; the .cfg files give the constants.         *)
EXTENDS Messages, TLC

(* Users, messages, texts, times and replicas are interchangeable. *)
Symmetry == Permutations(Users) \cup Permutations(Msgs) \cup Permutations(Contents)
            \cup Permutations(Times) \cup Permutations(Replicas)
=============================================================================
