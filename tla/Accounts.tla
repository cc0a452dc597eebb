------------------------------ MODULE Accounts ------------------------------
(***************************************************************************)
(* Accounts in services/user: registration (AuthService.register) and the  *)
(* update of a profile (UserService.update) on the users table.            *)
(*                                                                         *)
(* As in Sessions, a slot is a request in progress in a replica and every  *)
(* query is one step.  repository.save of an entity that has been read is  *)
(* two queries: it reads the row again and then updates the columns in     *)
(* which the entity differs from it.                                       *)
(*                                                                         *)
(* Passwords, access tokens and presence (one Redis command per request)   *)
(* are left out.  The token a registration ends with is that of a login in *)
(* Sessions.                                                               *)
(***************************************************************************)
CONSTANTS
    Accounts,  \* identifiers a registration can draw
    Emails,
    Values,    \* values of the fields of a profile
    Fields,    \* the fields that occur, "username" among them
    Slots,     \* bound: requests in progress at a time, in all replicas
    Faults     \* what may go wrong: SUBSET {"call", "crash"}

Absent == "absent"

AllFields == {"username", "display_name", "avatar_url"}

ASSUME AccountsAssumption ==
    /\ Absent \notin Values \cup Emails \cup Accounts
    /\ "username" \in Fields /\ Fields \subseteq AllFields
    /\ Faults \subseteq {"call", "crash"}

VARIABLES
    users,   \* users[a]: the row of account a
    slot,    \* slot[s]: the request s works on and its next query
    given,   \* history: given[a][f], the value last asked for and stored
    mixed    \* history: accounts two updates of which have overlapped

vars == <<users, slot, given, mixed>>

Nobody  == [email |-> Absent, profile |-> [f \in Fields |-> Absent]]
Profile == [Fields -> Values \cup {Absent}]
Idle    == [pc |-> "idle", account |-> Absent, email |-> Absent,
            dto |-> [f \in Fields |-> Absent], entity |-> [f \in Fields |-> Absent],
            changed |-> {}]

Registered == {a \in Accounts : users[a] # Nobody}

(* dto: the fields of the request, Absent where it has none; entity: the   *)
(* row as the request has read and modified it; changed: columns to update.*)
Request == [pc : {"findEmail", "insertUser", "insertToken", "findUser", "compare", "updateUser"},
            account : Accounts \cup {Absent}, email : Emails \cup {Absent},
            dto : Profile, entity : Profile, changed : SUBSET Fields]

TypeOK ==
    /\ users \in [Accounts -> [email : Emails \cup {Absent}, profile : Profile]]
    /\ \A a \in Accounts : users[a] # Nobody => Absent \notin {users[a].email, users[a].profile["username"]}
    /\ slot \in [Slots -> Request \cup {Idle}]
    /\ given \in [Accounts -> Profile]
    /\ mixed \subseteq Registered

Init ==
    /\ users = [a \in Accounts |-> Nobody]
    /\ slot = [s \in Slots |-> Idle]
    /\ given = [a \in Accounts |-> Nobody.profile]
    /\ mixed = {}

-----------------------------------------------------------------------------
(* Requests                                                                *)

Begin(s, request) == slot[s] = Idle /\ slot' = [slot EXCEPT ![s] = request]

Proceed(s, pc) == slot' = [slot EXCEPT ![s].pc = pc]

Answer(s) == slot' = [slot EXCEPT ![s] = Idle]

(* username and display_name are required, an avatar comes later. *)
Register(s) ==
    /\ \E e \in Emails, p \in Profile :
         /\ \A f \in Fields : p[f] = Absent <=> f = "avatar_url"
         /\ Begin(s, [Idle EXCEPT !.pc = "findEmail", !.email = e, !.dto = p])
    /\ UNCHANGED <<users, given, mixed>>

(* Only of the account of whoever asks; the fields are optional. *)
Update(s) ==
    /\ \E a \in Registered, p \in Profile :
         /\ Begin(s, [Idle EXCEPT !.pc = "findUser", !.account = a, !.dto = p])
         /\ mixed' = IF \E t \in Slots : slot[t].account = a THEN mixed \cup {a} ELSE mixed
    /\ UNCHANGED <<users, given>>

-----------------------------------------------------------------------------
(* Queries                                                                 *)

FindEmail(s) ==
    /\ slot[s].pc = "findEmail"
    /\ IF \E a \in Accounts : users[a].email = slot[s].email THEN Answer(s)
       ELSE Proceed(s, "insertUser")
    /\ UNCHANGED <<users, given, mixed>>

(* Mutant: e-mails have an index, usernames have none. *)
FreeMutant(e, name, a) == \A b \in Accounts \ {a} : users[b].email # e

(* The unique indexes have no other row with this e-mail or username. *)
Free(e, name, a) ==
    \A b \in Accounts \ {a} : users[b].email # e /\ users[b].profile["username"] # name

InsertUser(s) ==
    LET q == slot[s] IN
    /\ q.pc = "insertUser"
    /\ \E a \in Accounts \ Registered :
         IF Free(q.email, q.dto["username"], a)
         THEN /\ users' = [users EXCEPT ![a] = [email |-> q.email, profile |-> q.dto]]
              /\ given' = [given EXCEPT ![a] = q.dto]
              /\ Proceed(s, "insertToken")
         ELSE Answer(s) /\ UNCHANGED <<users, given>>
    /\ UNCHANGED mixed

(* When the token is not stored the account stays, and the request fails. *)
InsertToken(s) ==
    /\ slot[s].pc = "insertToken"
    /\ Answer(s)
    /\ UNCHANGED <<users, given, mixed>>

(* Mutant: fields the request does not have are cleared. *)
ModifiedMutant(p, dto) == dto

(* The fields that are not undefined replace those of the entity. *)
Modified(p, dto) == [f \in Fields |-> IF dto[f] = Absent THEN p[f] ELSE dto[f]]

FindUser(s) ==
    LET q == slot[s] IN
    /\ q.pc = "findUser"
    /\ slot' = [slot EXCEPT ![s].pc = "compare",
                            ![s].entity = Modified(users[q.account].profile, q.dto)]
    /\ UNCHANGED <<users, given, mixed>>

(* save reads the row again; without a difference there is no update. *)
Compare(s) ==
    LET q == slot[s]
        changed == {f \in Fields : q.entity[f] # users[q.account].profile[f]}
    IN
    /\ q.pc = "compare"
    /\ IF changed = {} THEN Answer(s)
       ELSE slot' = [slot EXCEPT ![s].pc = "updateUser", ![s].changed = changed]
    /\ given' = IF changed # {} THEN given
                ELSE [given EXCEPT ![q.account] = Modified(@, q.dto)]
    /\ UNCHANGED <<users, mixed>>

(* Mutant: the request is written as it is. *)
SavedMutant(q) == [users EXCEPT ![q.account].profile = q.dto]

(* The update of the columns that differ. *)
Saved(q) ==
    [users EXCEPT ![q.account].profile =
       [f \in Fields |-> IF f \in q.changed THEN q.entity[f] ELSE @[f]]]

Storable(q) == Free(users[q.account].email, Saved(q)[q.account].profile["username"], q.account)

UpdateUser(s) ==
    LET q == slot[s] IN
    /\ q.pc = "updateUser"
    /\ IF Storable(q)
       THEN users' = Saved(q) /\ given' = [given EXCEPT ![q.account] = Modified(@, q.dto)]
       ELSE UNCHANGED <<users, given>>
    /\ Answer(s)
    /\ UNCHANGED mixed

-----------------------------------------------------------------------------
(* What goes wrong                                                         *)

(* The pending query has no effect and the request fails. *)
FailedCall(s) ==
    /\ "call" \in Faults
    /\ slot[s] # Idle
    /\ Answer(s)
    /\ UNCHANGED <<users, given, mixed>>

(* All replicas stop; one that stops is a failed call of its slots. *)
Crash ==
    /\ "crash" \in Faults
    /\ slot' = [s \in Slots |-> Idle]
    /\ UNCHANGED <<users, given, mixed>>

-----------------------------------------------------------------------------
Query(s) == \/ FindEmail(s) \/ InsertUser(s) \/ InsertToken(s)
            \/ FindUser(s) \/ Compare(s) \/ UpdateUser(s)

Next == \/ \E s \in Slots : Register(s) \/ Update(s) \/ Query(s) \/ FailedCall(s)
        \/ Crash

Spec == Init /\ [][Next]_vars

-----------------------------------------------------------------------------
(* Properties                                                              *)

(* No two accounts have an e-mail or a username in common, although        *)
(* registrations look for the e-mail in one query and insert in another,   *)
(* and look for no username at all; the same for renamed accounts.         *)
IdentitiesUnique ==
    \A a, b \in Registered :
      a # b => /\ users[a].email # users[b].email
               /\ users[a].profile["username"] # users[b].profile["username"]

(* Every field of a profile has the value last asked for and stored: an    *)
(* update changes the fields it was given and no others                    *)
(* (user.service.spec.ts:111, "should not modify fields that are not       *)
(* provided"), as long as no two updates of the account have overlapped,   *)
(* whatever fails in them and whatever other accounts do.                  *)
KeptApart == \A a \in Accounts \ mixed : users[a].profile = given[a]

=============================================================================
