----------------------------- MODULE MCAccounts -----------------------------
(* Accounts on small instances; the .cfg files give the constants.         *)
EXTENDS Accounts, TLC

(* Identifiers, e-mails, values and requests are interchangeable. *)
Symmetry == Permutations(Accounts) \cup Permutations(Emails)
            \cup Permutations(Values) \cup Permutations(Slots)
=============================================================================
