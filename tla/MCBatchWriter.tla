---------------------------- MODULE MCBatchWriter ----------------------------
(* BatchWriter on small instances; the .cfg files give the constants.      *)
EXTENDS BatchWriter, TLC

(* The goroutines of a replica are interchangeable, and so are replicas.   *)
Symmetry == Permutations(Slots) \cup Permutations(Replicas)
=============================================================================
