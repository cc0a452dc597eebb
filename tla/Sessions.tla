------------------------------ MODULE Sessions ------------------------------
(***************************************************************************)
(* Refresh tokens in services/user: login, refresh and logout of           *)
(* AuthService on the jwt table.                                           *)
(*                                                                         *)
(* Tokens belong to one user and a request touches one user's tokens, so   *)
(* these are the tokens of one user.  Node handles requests concurrently   *)
(* and continues one when its pending query has answered: a slot is a      *)
(* request in progress in a replica, and every query is one step.  A login *)
(* begins a session, which its token and all tokens it is exchanged for    *)
(* belong to.  Registration issues a first token exactly like a login;     *)
(* what else it does is in Accounts.                                       *)
(*                                                                         *)
(* Access tokens are verified without a table and are not modelled.        *)
(***************************************************************************)
EXTENDS Naturals, FiniteSets

CONSTANTS
    Tokens,       \* refresh tokens that can be issued
    MaxSessions,  \* bound: logins
    Replicas,     \* running copies of the user service
    Lanes,        \* bound: names for the requests a replica handles at a time
    Faults        \* what may go wrong: SUBSET {"call", "timeout", "crash"}

Slots == Replicas \X Lanes

None == "none"

ASSUME SessionsAssumption ==
    /\ None \notin Tokens
    /\ MaxSessions \in Nat
    /\ Faults \subseteq {"call", "timeout", "crash"}

VARIABLES
    jwt,       \* jwt[t]: the row of token t
    sessions,  \* sessions begun so far, which also names them
    slot,      \* slot[s]: the request that s works on and its next query
    known,     \* tokens the client has been answered
    heirs,     \* history: heirs[t], the tokens t was exchanged for
    ended,     \* history: sessions a logout found with nothing in progress
    touched    \* history: sessions a logout or the loss of a new token has touched

vars == <<jwt, sessions, slot, known, heirs, ended, touched>>

Ids == 1 .. MaxSessions

Unissued == [state |-> "unissued", expired |-> FALSE, session |-> 0]

Idle == [pc |-> "idle", token |-> None, session |-> 0, spent |-> FALSE]

(* spent: the token was not valid any more when the request arrived        *)
(* (history).                                                              *)
Request == [pc : {"login", "findToken", "revoke", "revokeExpired", "findUser",
                  "insertToken", "logout"},
            token : Tokens \cup {None}, session : Ids \cup {0}, spent : BOOLEAN]

TypeOK ==
    /\ jwt \in [Tokens -> [state : {"unissued", "valid", "revoked"},
                           expired : BOOLEAN, session : Ids \cup {0}]]
    /\ sessions \in 0 .. MaxSessions
    /\ slot \in [Slots -> Request \cup {Idle}]
    /\ known \subseteq {t \in Tokens : jwt[t].state # "unissued"}
    /\ heirs \in [Tokens -> SUBSET Tokens]
    /\ ended \subseteq touched
    /\ touched \subseteq 1 .. sessions

Init ==
    /\ jwt = [t \in Tokens |-> Unissued]
    /\ sessions = 0
    /\ slot = [s \in Slots |-> Idle]
    /\ known = {}
    /\ heirs = [t \in Tokens |-> {}]
    /\ ended = {}
    /\ touched = {}

-----------------------------------------------------------------------------
(* Requests                                                                *)

Begin(s, request) == slot[s] = Idle /\ slot' = [slot EXCEPT ![s] = request]

Proceed(s, pc) == slot' = [slot EXCEPT ![s].pc = pc]

Answer(s) == slot' = [slot EXCEPT ![s] = Idle]

Login(s) ==
    /\ sessions < MaxSessions
    /\ sessions' = sessions + 1
    /\ Begin(s, [pc |-> "login", token |-> None, session |-> sessions + 1, spent |-> FALSE])
    /\ UNCHANGED <<jwt, known, heirs, ended, touched>>

Refresh(s) ==
    /\ \E t \in known :
         Begin(s, [pc |-> "findToken", token |-> t, session |-> jwt[t].session,
                   spent |-> jwt[t].state # "valid"])
    /\ UNCHANGED <<jwt, sessions, known, heirs, ended, touched>>

Logout(s) ==
    /\ Begin(s, [pc |-> "logout", token |-> None, session |-> 0, spent |-> FALSE])
    /\ UNCHANGED <<jwt, sessions, known, heirs, ended, touched>>

-----------------------------------------------------------------------------
(* Queries                                                                 *)

(* The user is found and the password is right; a refused login ends here. *)
FindLogin(s) ==
    /\ slot[s].pc = "login"
    /\ Proceed(s, "insertToken") \/ Answer(s)
    /\ UNCHANGED <<jwt, sessions, known, heirs, ended, touched>>

(* Mutant: the token is looked up without revoked: false. *)
UsableMutant(t) == jwt[t].state # "unissued"

Usable(t) == jwt[t].state = "valid"

FindToken(s) ==
    LET t == slot[s].token IN
    /\ slot[s].pc = "findToken"
    /\ CASE ~Usable(t)                  -> Answer(s)
         [] Usable(t) /\ jwt[t].expired -> Proceed(s, "revokeExpired")
         [] OTHER                       -> Proceed(s, "revoke")
    /\ UNCHANGED <<jwt, sessions, known, heirs, ended, touched>>

Revoked(tokens) ==
    [t \in Tokens |-> IF t \in tokens /\ jwt[t].state = "valid"
                      THEN [jwt[t] EXCEPT !.state = "revoked"] ELSE jwt[t]]

(* Mutant: the token found is not revoked. *)
SavedMutant(t) == jwt

(* Mutant: the row is deleted, and its token free to be issued again, while *)
(* clients still hold it.                                                  *)
SavedFreeMutant(t) == [jwt EXCEPT ![t] = Unissued]

(* Mutant: every token of the user is revoked, as logout does. *)
SavedAllMutant(t) == Revoked(Tokens)

(* save writes the columns that differ from the row: revoked at most. *)
Saved(t) == Revoked({t})

Revoke(s) ==
    /\ \/ slot[s].pc = "revoke" /\ Proceed(s, "findUser")
       \/ slot[s].pc = "revokeExpired" /\ Answer(s)
    /\ jwt' = Saved(slot[s].token)
    /\ UNCHANGED <<sessions, known, heirs, ended, touched>>

FindUser(s) ==
    /\ slot[s].pc = "findUser"
    /\ Proceed(s, "insertToken")
    /\ UNCHANGED <<jwt, sessions, known, heirs, ended, touched>>

(* generateTokens stores a new token and the request answers with it.  The *)
(* gateway waits ten seconds for that: when it has given up, nobody learns *)
(* of the token.                                                           *)
InsertToken(s) ==
    LET q == slot[s] IN
    /\ q.pc = "insertToken"
    /\ \E t \in Tokens :
         /\ jwt[t] = Unissued
         /\ jwt' = [jwt EXCEPT ![t] = [state |-> "valid", expired |-> FALSE,
                                       session |-> q.session]]
         /\ \/ known' = known \cup {t} /\ touched' = touched
            \/ /\ "timeout" \in Faults
               /\ touched' = touched \cup {q.session} /\ known' = known
         /\ heirs' = IF q.token = None THEN heirs
                     ELSE [heirs EXCEPT ![q.token] = @ \cup {t}]
    /\ Answer(s)
    /\ UNCHANGED <<sessions, ended>>

(* Sessions a request is about to store a token for. *)
Issuing == {slot[s].session : s \in {r \in Slots :
                slot[r].pc \in {"login", "revoke", "findUser", "insertToken"}}}

(* Mutant: only the session begun last is ended. *)
LoggedOutMutant == {t \in Tokens : jwt[t].session = sessions}

(* UPDATE jwt SET revoked = true WHERE user_id = ... AND revoked = false.  *)
LoggedOut == Tokens

RevokeAll(s) ==
    /\ slot[s].pc = "logout"
    /\ jwt' = Revoked(LoggedOut)
    /\ ended' = ended \cup (1 .. sessions \ Issuing)
    /\ touched' = touched \cup 1 .. sessions
    /\ Answer(s)
    /\ UNCHANGED <<sessions, known, heirs>>

-----------------------------------------------------------------------------
(* Time and what goes wrong                                                *)

(* expires_at has passed. *)
Expire(t) ==
    /\ jwt[t].state # "unissued" /\ ~jwt[t].expired
    /\ jwt' = [jwt EXCEPT ![t].expired = TRUE]
    /\ UNCHANGED <<sessions, slot, known, heirs, ended, touched>>

(* Sessions whose token these requests have revoked and not yet replaced. *)
Spent(slots) == {slot[s].session : s \in {r \in slots : slot[r].pc \in {"findUser", "insertToken"}
                                                        /\ slot[r].token # None}}

(* The pending query fails and the request with it. *)
FailedCall(s) ==
    /\ "call" \in Faults
    /\ slot[s] # Idle
    /\ Answer(s)
    /\ touched' = touched \cup Spent({s})
    /\ UNCHANGED <<jwt, sessions, known, heirs, ended>>

Crash(r) ==
    /\ "crash" \in Faults
    /\ slot' = [s \in Slots |-> IF s[1] = r THEN Idle ELSE slot[s]]
    /\ touched' = touched \cup Spent({r} \X Lanes)
    /\ UNCHANGED <<jwt, sessions, known, heirs, ended>>

-----------------------------------------------------------------------------
Query(s) ==
    \/ FindLogin(s) \/ FindToken(s) \/ Revoke(s) \/ FindUser(s)
    \/ InsertToken(s) \/ RevokeAll(s)

Next == \/ \E s \in Slots : \/ Login(s) \/ Refresh(s) \/ Logout(s)
                            \/ Query(s) \/ FailedCall(s)
        \/ \E t \in Tokens : Expire(t)
        \/ \E r \in Replicas : Crash(r)

Spec == Init /\ [][Next]_vars

-----------------------------------------------------------------------------
(* Properties                                                              *)

(* A refresh that arrives with a token that was exchanged, has expired and *)
(* been refused, or was revoked by a logout gets no further than the       *)
(* lookup, whatever the requests before it are still doing.                *)
SpentRefused ==
    \A s \in Slots : slot[s].spent => slot[s].pc \in {"idle", "findToken"}

(* A token is exchanged at most once (tests/k6/README.md:104: "chaque      *)
(* token est à usage unique").                                             *)
ExchangedOnce == \A t \in Tokens : Cardinality(heirs[t]) <= 1

ValidOf(i) == {t \in Tokens : jwt[t].state = "valid" /\ jwt[t].session = i}

(* No two refreshes of a token are in progress at the same time. *)
Apart ==
    \A r, s \in Slots : slot[r].token # None /\ slot[r].token = slot[s].token => r = s

(* As long as no two refreshes of one token overlap, a token is exchanged  *)
(* once and a session has one valid token at most, whatever logins and     *)
(* logouts do meanwhile and whatever fails between the queries.            *)
RotatesApart == []Apart => [](ExchangedOnce /\ \A i \in Ids : Cardinality(ValidOf(i)) <= 1)

(* A session with no token on its way when the user logs out has no valid  *)
(* token from then on (services/user/README.md:87, `logout`).              *)
LogoutEnds == \A i \in ended : ValidOf(i) = {}

(* A client that is not refreshing holds a token it can refresh with until *)
(* it logs out, lets the token expire or a failure comes between the       *)
(* revocation and the answer, even when it refreshes one token several     *)
(* times at once: one session does not take another's token.               *)
NeverStranded ==
    \A i \in 1 .. sessions \ (touched \cup Issuing) :
      (\E t \in known : jwt[t].session = i)
        => \E t \in known : /\ jwt[t].session = i
                            /\ jwt[t].state = "valid" \/ jwt[t].expired

=============================================================================
