----------------------------- MODULE MCGateway -----------------------------
(* Gateway on small instances; the .cfg files give the constants.          *)
EXTENDS Gateway, TLC

(* Whatever is named by the constants is interchangeable. *)
Symmetry == Permutations(Gateways) \cup Permutations(Sockets) \cup Permutations(Users)
            \cup Permutations(Conversations) \cup Permutations(Clients)

(* What a step may depend on; the rest is what clients show and histories. *)
Essential == <<state, members, messages, late, socket, rooms, task, wire, got>>
=============================================================================
