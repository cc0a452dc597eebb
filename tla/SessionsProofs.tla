--------------------------- MODULE SessionsProofs ---------------------------
(* Theorems about Sessions, for every set of tokens, replicas and requests *)
(* in progress, any number of logins and any faults.                       *)
EXTENDS Sessions, FiniteSetTheorems, TLAPS

-----------------------------------------------------------------------------
(* The inductive invariants                                                *)

(* At these queries a request may still store a token for its session. *)
IssuingSteps == {"login", "revoke", "findUser", "insertToken"}

(* What a request knows at each of its queries: a login was given no       *)
(* token; the token any other was given was issued and belongs to its      *)
(* session, has expired when it is refused for that, is revoked when it is *)
(* replaced, and is not valid if it was spent when the request arrived.    *)
Knows(s) ==
    LET q == slot[s] IN
    /\ q.pc \in {"findToken", "revoke", "revokeExpired", "findUser"} => q.token # None
    /\ q.pc = "login" => q.token = None
    /\ q.token # None => q.token \in known /\ q.session = jwt[q.token].session
    /\ q.pc \in IssuingSteps => q.session \in 1 .. sessions
    /\ q.pc = "revokeExpired" => jwt[q.token].expired
    /\ q.pc \in {"findUser", "insertToken"} /\ q.token # None => jwt[q.token].state = "revoked"
    /\ q.spent => q.pc = "findToken" /\ jwt[q.token].state # "valid"

Begun == \A t \in Tokens : jwt[t].state # "unissued" => jwt[t].session \in 1 .. sessions

(* Nothing is on its way to an ended session. *)
EndedForGood == \A i \in ended : ValidOf(i) = {} /\ i \notin Issuing

(* NeverStranded, as long as a request has only found the token and not    *)
(* yet revoked it.                                                         *)
KeepsOne ==
    \A i \in 1 .. sessions \ (touched \cup Spent(Slots)) :
      (\E t \in known : jwt[t].session = i)
        => \E t \in known : /\ jwt[t].session = i
                            /\ jwt[t].state = "valid" \/ jwt[t].expired

SessionsInv ==
    TypeOK /\ Begun /\ (\A s \in Slots : Knows(s)) /\ EndedForGood /\ KeepsOne

(* While no two refreshes of a token overlap: a token with an heir is      *)
(* revoked and nobody is exchanging it, one request at most may store a    *)
(* token for a session, and then the session has no valid token but the    *)
(* one this request is about to revoke.                                    *)
HeirsRevoked == \A t \in Tokens : heirs[t] # {} => jwt[t].state = "revoked"

OneHeir == \A t \in Tokens : \A a, b \in heirs[t] : a = b

OneValid == \A i \in Ids : \A t, u \in ValidOf(i) : t = u

HasTurn(s) ==
    /\ slot[s].token # None => heirs[slot[s].token] = {}
    /\ ValidOf(slot[s].session) \subseteq
         (IF slot[s].pc = "revoke" THEN {slot[s].token} ELSE {})

OneTurn == \A r, s \in Slots :
    /\ slot[r].pc \in IssuingSteps /\ slot[s].pc \in IssuingSteps
    /\ slot[r].session = slot[s].session
    => r = s

RotationInv ==
    /\ HeirsRevoked /\ OneHeir /\ OneValid /\ OneTurn
    /\ \A s \in Slots : slot[s].pc \in IssuingSteps => HasTurn(s)

-----------------------------------------------------------------------------
(* Operators                                                               *)

LEMMA IssuingHas ==
    /\ \A i : i \in Issuing <=> \E s \in Slots : slot[s].pc \in IssuingSteps /\ slot[s].session = i
    /\ \A i : i \in Issuing' <=> \E s \in Slots : slot'[s].pc \in IssuingSteps /\ slot'[s].session = i
BY DEF Issuing, IssuingSteps

(* A request that has revoked its token and not replaced it. *)
Owes(q) == q.pc \in {"findUser", "insertToken"} /\ q.token # None

LEMMA SpentHas ==
    ASSUME NEW S
    PROVE  /\ \A i : i \in Spent(S) <=> \E s \in S : Owes(slot[s]) /\ slot[s].session = i
           /\ \A i : i \in Spent(S)' <=> \E s \in S : Owes(slot'[s]) /\ slot'[s].session = i
BY DEF Spent, Owes

(* What holds of every step: no token is unissued, becomes valid again or  *)
(* changes its session, and no expiry is undone.                           *)
TokensAge ==
    \A t \in Tokens : jwt[t].state # "unissued" =>
      /\ jwt'[t].state # "unissued"
      /\ jwt'[t].session = jwt[t].session
      /\ jwt[t].expired => jwt'[t].expired
      /\ jwt[t].state = "revoked" => jwt'[t].state = "revoked"

LEMMA SlotTyped ==
    ASSUME TypeOK, NEW s \in Slots, slot[s] # Idle
    PROVE  /\ slot[s] \in Request /\ slot[s].pc # "idle"
           /\ slot[s].token \in Tokens \cup {None} /\ slot[s].session \in Ids \cup {0}
BY DEF TypeOK, Request

LEMMA IdleKnows == ASSUME NEW s \in Slots, slot'[s] = Idle PROVE Knows(s)'
BY DEF Knows, Idle, IssuingSteps

LEMMA OtherKnows ==
    ASSUME TypeOK, NEW s \in Slots, Knows(s), slot'[s] = slot[s], TokensAge,
           known \subseteq known', sessions' \in Nat, sessions <= sessions',
           \A t \in Tokens : jwt'[t] \in [state : {"unissued", "valid", "revoked"},
                                          expired : BOOLEAN, session : Ids \cup {0}]
    PROVE  Knows(s)'
<1>1. CASE slot[s] = Idle
  BY <1>1, IdleKnows
<1>2. CASE slot[s] # Idle
  <2> DEFINE q == slot[s]
  <2>1. q.token \in Tokens \cup {None} /\ q.pc # "idle"
    BY <1>2, SlotTyped
  <2>2. q.token # None => q.token \in Tokens /\ jwt[q.token].state # "unissued"
    BY <2>1 DEF Knows, TypeOK
  <2>3. 1 .. sessions \subseteq 1 .. sessions'
    BY DEF TypeOK
  <2>4. q.token # None => /\ jwt'[q.token].session = jwt[q.token].session
                          /\ jwt[q.token].expired => jwt'[q.token].expired
                          /\ jwt[q.token].state = "revoked" => jwt'[q.token].state = "revoked"
                          /\ jwt[q.token].state # "valid" => jwt'[q.token].state # "valid"
    BY <2>2 DEF TokensAge, TypeOK
  <2>5. /\ q.pc \in {"findToken", "revoke", "revokeExpired", "findUser"} => q.token # None
        /\ q.pc = "login" => q.token = None
        /\ q.token # None => q.token \in known /\ q.session = jwt[q.token].session
        /\ q.pc \in IssuingSteps => q.session \in 1 .. sessions
        /\ q.pc = "revokeExpired" => jwt[q.token].expired
        /\ q.pc \in {"findUser", "insertToken"} /\ q.token # None => jwt[q.token].state = "revoked"
        /\ q.spent => q.pc = "findToken" /\ jwt[q.token].state # "valid"
    BY DEF Knows
  <2> HIDE DEF q
  <2>6. /\ q.pc \in {"findToken", "revoke", "revokeExpired", "findUser"} => q.token # None
        /\ q.pc = "login" => q.token = None
        /\ q.token # None => q.token \in known' /\ q.session = jwt'[q.token].session
        /\ q.pc \in IssuingSteps => q.session \in 1 .. sessions'
        /\ q.pc = "revokeExpired" => jwt'[q.token].expired
        /\ q.pc \in {"findUser", "insertToken"} /\ q.token # None => jwt'[q.token].state = "revoked"
        /\ q.spent => q.pc = "findToken" /\ jwt'[q.token].state # "valid"
    BY <2>3, <2>4, <2>5
  <2> QED
    BY <2>6 DEF Knows, q
<1> QED
  BY <1>1, <1>2

-----------------------------------------------------------------------------
(* Steps that leave the tokens alone                                       *)

LEMMA SlotMoves ==
    ASSUME SessionsInv, NEW s \in Slots, NEW q \in Request \cup {Idle},
           slot' = [slot EXCEPT ![s] = q], UNCHANGED <<jwt, known, heirs, ended>>,
           sessions' \in sessions .. MaxSessions,
           touched \subseteq touched', touched' \subseteq 1 .. sessions',
           Knows(s)',
           q.pc \in IssuingSteps => q.session \notin ended,
           Owes(slot[s]) => slot[s].session \in touched' \/ (Owes(q) /\ q.session = slot[s].session)
    PROVE  SessionsInv'
<1>0. /\ TypeOK /\ Begun /\ (\A r \in Slots : Knows(r)) /\ EndedForGood /\ KeepsOne
      /\ sessions \in Nat /\ sessions' \in Nat /\ sessions <= sessions' /\ MaxSessions \in Nat
      /\ sessions' \in 0 .. MaxSessions
      /\ 1 .. sessions \subseteq 1 .. sessions'
  BY SessionsAssumption DEF SessionsInv, TypeOK, SessionsAssumption
<1>1. slot'[s] = q /\ \A r \in Slots \ {s} : slot'[r] = slot[r]
  BY <1>0 DEF TypeOK
<1>2. TypeOK'
  BY <1>0 DEF TypeOK
<1>3. Begun'
  BY <1>0 DEF Begun
<1>4. ASSUME NEW r \in Slots PROVE Knows(r)'
  <2>1. CASE r = s
    BY <2>1
  <2>2. CASE r # s
    BY <1>0, <1>1, <2>2, OtherKnows DEF TokensAge, TypeOK
  <2> QED
    BY <2>1, <2>2
<1>5. EndedForGood'
  <2> SUFFICES ASSUME NEW i \in ended PROVE ValidOf(i)' = {} /\ i \notin Issuing'
    BY DEF EndedForGood
  <2>1. ValidOf(i)' = {} /\ i \notin Issuing
    BY <1>0 DEF EndedForGood, ValidOf
  <2> QED
    BY <1>1, <2>1, IssuingHas
<1>6. KeepsOne'
  <2> SUFFICES ASSUME NEW i \in 1 .. sessions' \ (touched' \cup Spent(Slots)'),
                      NEW u \in known, jwt[u].session = i
               PROVE  \E t \in known : /\ jwt[t].session = i
                                       /\ jwt[t].state = "valid" \/ jwt[t].expired
    BY DEF KeepsOne
  <2>1. i \in 1 .. sessions
    BY <1>0 DEF Begun, TypeOK
  <2>2. i \notin Spent(Slots)
    BY <1>1, SpentHas
  <2> QED
    BY <1>0, <2>1, <2>2 DEF KeepsOne
<1> QED
  BY <1>2, <1>3, <1>4, <1>5, <1>6 DEF SessionsInv

LEMMA SlotAnswers ==
    ASSUME SessionsInv, NEW s \in Slots, Answer(s),
           UNCHANGED <<jwt, sessions, known, heirs, ended>>,
           touched' = touched \/ touched' = touched \cup Spent({s}),
           Owes(slot[s]) => slot[s].session \in touched'
    PROVE  SessionsInv'
<1>1. slot'[s] = Idle /\ slot' = [slot EXCEPT ![s] = Idle]
  BY DEF Answer, SessionsInv, TypeOK
<1>2. Knows(s)'
  BY <1>1, IdleKnows
<1>3. touched' \subseteq 1 .. sessions
  <2>1. Owes(slot[s]) => slot[s].session \in 1 .. sessions
    BY DEF SessionsInv, Knows, Owes, IssuingSteps
  <2>2. Spent({s}) \subseteq 1 .. sessions
    BY <2>1, SpentHas
  <2> QED
    BY <2>2 DEF SessionsInv, TypeOK
<1>4. sessions \in sessions .. MaxSessions
  BY SessionsAssumption DEF SessionsInv, TypeOK, SessionsAssumption
<1>5. Idle.pc \notin IssuingSteps
  BY DEF Idle, IssuingSteps
<1> QED
  BY <1>1, <1>2, <1>3, <1>4, <1>5, SlotMoves

LEMMA BeginKeeps ==
    ASSUME SessionsInv, NEW s \in Slots, Login(s) \/ Refresh(s) \/ Logout(s)
    PROVE  SessionsInv'
<1>0. /\ sessions \in Nat /\ MaxSessions \in Nat /\ sessions <= MaxSessions
      /\ ended \subseteq 1 .. sessions /\ touched \subseteq 1 .. sessions
      /\ slot[s] = Idle /\ ~Owes(Idle)
  BY SessionsAssumption
     DEF SessionsInv, TypeOK, SessionsAssumption, Login, Refresh, Logout, Begin, Owes, Idle
<1>1. CASE Login(s)
  <2> DEFINE q == [pc |-> "login", token |-> None, session |-> sessions + 1, spent |-> FALSE]
  <2>1. q \in Request /\ sessions' = sessions + 1 /\ sessions + 1 \in Ids
    BY <1>0, <1>1 DEF Request, Login, Ids
  <2>2. slot' = [slot EXCEPT ![s] = q] /\ slot'[s] = q
    BY <1>1 DEF Login, Begin, SessionsInv, TypeOK
  <2>3. Knows(s)'
    BY <1>0, <2>1, <2>2 DEF Knows, IssuingSteps
  <2>4. sessions + 1 \notin ended
    BY <1>0
  <2>5. touched \subseteq 1 .. sessions' /\ sessions' \in sessions .. MaxSessions
    BY <1>0, <1>1, <2>1 DEF Login
  <2> QED
    BY <1>0, <1>1, <2>1, <2>2, <2>3, <2>4, <2>5, SlotMoves DEF Login
<1>2. CASE Refresh(s)
  <2> PICK t \in known : slot' = [slot EXCEPT ![s] =
              [pc |-> "findToken", token |-> t, session |-> jwt[t].session,
               spent |-> jwt[t].state # "valid"]]
    BY <1>2 DEF Refresh, Begin
  <2> DEFINE q == [pc |-> "findToken", token |-> t, session |-> jwt[t].session,
                   spent |-> jwt[t].state # "valid"]
  <2>1. t \in Tokens /\ q \in Request
    BY DEF SessionsInv, TypeOK, Request
  <2>2. slot' = [slot EXCEPT ![s] = q] /\ slot'[s] = q
    BY <2>1 DEF SessionsInv, TypeOK
  <2>3. Knows(s)'
    <3>1. q.pc = "findToken" /\ q.token = t /\ q.session = jwt[t].session
      OBVIOUS
    <3>2. q.spent => jwt[t].state # "valid"
      <4>1. CASE jwt[t].state = "valid"
        <5>1. (jwt[t].state # "valid") = FALSE
          BY <4>1
        <5>2. q.spent = FALSE
          BY <5>1, Zenon
        <5> QED
          BY <5>2, Zenon
      <4> QED
        BY <4>1, Zenon
    <3>3. t # None
      BY <2>1, SessionsAssumption DEF SessionsAssumption
    <3> HIDE DEF q
    <3>4. jwt' = jwt /\ known' = known
      BY <1>2 DEF Refresh
    <3>5. slot'[s].spent => slot'[s].pc = "findToken" /\ jwt'[slot'[s].token].state # "valid"
      BY <2>2, <3>1, <3>2, <3>4, Zenon
    <3>6. /\ slot'[s].pc = "findToken" /\ slot'[s].token \in known' /\ slot'[s].token # None
          /\ slot'[s].session = jwt'[slot'[s].token].session
      BY <2>2, <3>1, <3>3, <3>4
    <3> QED
      BY <3>5, <3>6 DEF Knows, IssuingSteps
  <2>4. q.pc \notin IssuingSteps
    BY DEF IssuingSteps
  <2>5. UNCHANGED <<jwt, sessions, known, heirs, ended, touched>>
    BY <1>2 DEF Refresh
  <2>6. /\ sessions' \in sessions .. MaxSessions
        /\ touched \subseteq touched' /\ touched' \subseteq 1 .. sessions'
    BY <1>0, <2>5
  <2> HIDE DEF q
  <2> QED
    BY <1>0, <2>1, <2>2, <2>3, <2>4, <2>5, <2>6, SlotMoves
<1>3. CASE Logout(s)
  <2> DEFINE q == [pc |-> "logout", token |-> None, session |-> 0, spent |-> FALSE]
  <2>1. q \in Request
    BY DEF Request
  <2>2. slot' = [slot EXCEPT ![s] = q] /\ slot'[s] = q
    BY <1>3, <2>1 DEF Logout, Begin, SessionsInv, TypeOK
  <2>3. Knows(s)'
    BY <2>2 DEF Knows, IssuingSteps
  <2>4. q.pc \notin IssuingSteps
    BY DEF IssuingSteps
  <2>5. UNCHANGED <<jwt, sessions, known, heirs, ended, touched>>
    BY <1>3 DEF Logout
  <2>6. /\ sessions' \in sessions .. MaxSessions
        /\ touched \subseteq touched' /\ touched' \subseteq 1 .. sessions'
    BY <1>0, <2>5
  <2> HIDE DEF q
  <2> QED
    BY <1>0, <2>1, <2>2, <2>3, <2>4, <2>5, <2>6, SlotMoves
<1> QED
  BY <1>1, <1>2, <1>3

(* A request that goes on to its next query. *)
Onward(s, p) == [slot[s] EXCEPT !.pc = p]

Steps == {"login", "findToken", "revoke", "revokeExpired", "findUser", "insertToken", "logout"}

LEMMA Proceeds ==
    ASSUME TypeOK, NEW s \in Slots, slot[s].pc \in Steps, NEW p \in Steps, Proceed(s, p)
    PROVE  /\ slot[s] \in Request /\ Onward(s, p) \in Request
           /\ slot' = [slot EXCEPT ![s] = Onward(s, p)] /\ slot'[s] = Onward(s, p)
           /\ Onward(s, p).pc = p
           /\ Onward(s, p).token = slot[s].token /\ Onward(s, p).session = slot[s].session
           /\ slot[s].spent \/ ~Onward(s, p).spent
<1>1. slot[s] \in Request
  BY DEF TypeOK, Idle, Steps
<1>2. Onward(s, p) \in Request /\ Onward(s, p).pc = p
  BY <1>1 DEF Onward, Request, Steps
<1>3. slot' = [slot EXCEPT ![s] = Onward(s, p)] /\ slot'[s] = Onward(s, p)
  BY DEF Proceed, Onward, TypeOK
<1>4. Onward(s, p).token = slot[s].token /\ Onward(s, p).session = slot[s].session
  BY <1>1 DEF Onward, Request
<1>5. slot[s].spent \/ ~Onward(s, p).spent
  BY <1>1 DEF Onward, Request
<1> QED
  BY <1>1, <1>2, <1>3, <1>4, <1>5

LEMMA FindKeeps ==
    ASSUME SessionsInv, NEW s \in Slots, FindLogin(s) \/ FindToken(s) \/ FindUser(s)
    PROVE  SessionsInv'
<1>0. /\ TypeOK /\ Knows(s) /\ EndedForGood
      /\ UNCHANGED <<jwt, sessions, known, heirs, ended, touched>>
      /\ sessions' \in sessions .. MaxSessions
      /\ touched \subseteq touched' /\ touched' \subseteq 1 .. sessions'
  BY SessionsAssumption
     DEF SessionsInv, TypeOK, SessionsAssumption, FindLogin, FindToken, FindUser
<1>1. \/ Answer(s) /\ slot[s].pc \in {"login", "findToken"}
      \/ slot[s].pc = "login" /\ Proceed(s, "insertToken")
      \/ slot[s].pc = "findToken" /\ Usable(slot[s].token) /\ Proceed(s, "revoke")
      \/ /\ slot[s].pc = "findToken" /\ Usable(slot[s].token)
         /\ jwt[slot[s].token].expired /\ Proceed(s, "revokeExpired")
      \/ slot[s].pc = "findUser" /\ Proceed(s, "insertToken")
  BY DEF FindLogin, FindToken, FindUser
<1>2. CASE Answer(s) /\ slot[s].pc \in {"login", "findToken"}
  BY <1>0, <1>2, SlotAnswers DEF Owes
<1>3. ASSUME NEW p \in Steps, Proceed(s, p), slot[s].pc \in Steps, Knows(s)',
             p \in IssuingSteps => slot[s].session \notin ended,
             Owes(slot[s]) => p = "insertToken"
      PROVE  SessionsInv'
  <2> DEFINE q == Onward(s, p)
  <2>1. /\ q \in Request /\ slot' = [slot EXCEPT ![s] = q] /\ q.pc = p
        /\ q.token = slot[s].token /\ q.session = slot[s].session
    BY <1>0, <1>3, Proceeds
  <2> HIDE DEF q
  <2>2. Owes(slot[s]) => Owes(q)
    BY <1>3, <2>1 DEF Owes
  <2> QED
    BY <1>0, <1>3, <2>1, <2>2, SlotMoves
<1>4. CASE slot[s].pc = "login" /\ Proceed(s, "insertToken")
  <2>1. slot[s].session \notin ended
    BY <1>0, <1>4, IssuingHas DEF EndedForGood, IssuingSteps
  <2>2. Knows(s)'
    BY <1>0, <1>4, Proceeds DEF Knows, Steps, IssuingSteps
  <2> QED
    BY <1>3, <1>4, <2>1, <2>2 DEF Steps, Owes
<1>5. CASE slot[s].pc = "findUser" /\ Proceed(s, "insertToken")
  <2>1. slot[s].session \notin ended
    BY <1>0, <1>5, IssuingHas DEF EndedForGood, IssuingSteps
  <2>2. Knows(s)'
    BY <1>0, <1>5, Proceeds DEF Knows, Steps, IssuingSteps
  <2> QED
    BY <1>3, <1>5, <2>1, <2>2 DEF Steps
<1>6. CASE slot[s].pc = "findToken" /\ Usable(slot[s].token)
  <2>1. slot[s].token \in known /\ slot[s].session = jwt[slot[s].token].session /\ ~slot[s].spent
    BY <1>0, <1>6 DEF Knows, Usable
  <2>2. slot[s].token \in ValidOf(slot[s].session) /\ slot[s].session \in 1 .. sessions
    BY <1>6, <2>1 DEF Usable, ValidOf, SessionsInv, Begun, TypeOK
  <2>3. slot[s].session \notin ended
    BY <1>0, <2>2 DEF EndedForGood
  <2>4. CASE Proceed(s, "revoke")
    <3>1. Knows(s)'
      BY <1>0, <1>6, <2>1, <2>2, <2>4, Proceeds DEF Knows, Steps, IssuingSteps
    <3> QED
      BY <1>3, <1>6, <2>3, <2>4, <3>1 DEF Steps, Owes
  <2>5. CASE Proceed(s, "revokeExpired") /\ jwt[slot[s].token].expired
    <3>1. Knows(s)'
      BY <1>0, <1>6, <2>1, <2>5, Proceeds DEF Knows, Steps, IssuingSteps
    <3> QED
      BY <1>3, <1>6, <2>3, <2>5, <3>1 DEF Steps, Owes
  <2>6. CASE Answer(s)
    BY <1>2, <1>6, <2>6
  <2> QED
    BY <1>1, <1>6, <2>4, <2>5, <2>6 DEF Usable
<1> QED
  BY <1>1, <1>2, <1>4, <1>5, <1>6

-----------------------------------------------------------------------------
(* Steps that write tokens                                                 *)

Row == [state : {"unissued", "valid", "revoked"}, expired : BOOLEAN, session : Ids \cup {0}]

(* Revoking takes valid tokens only and leaves the rest of a row alone. *)
LEMMA RevokedHas ==
    ASSUME TypeOK, NEW T, jwt' = Revoked(T)
    PROVE  /\ jwt' \in [Tokens -> Row]
           /\ \A t \in Tokens :
                /\ jwt'[t].session = jwt[t].session
                /\ jwt[t].expired => jwt'[t].expired
                /\ jwt'[t].state = IF t \in T /\ jwt[t].state = "valid"
                                  THEN "revoked" ELSE jwt[t].state
                /\ t \notin T => jwt'[t] = jwt[t]
<1> SUFFICES ASSUME NEW t \in Tokens
             PROVE  /\ jwt'[t] \in Row
                    /\ jwt'[t].session = jwt[t].session
                    /\ jwt[t].expired => jwt'[t].expired
                    /\ jwt'[t].state = IF t \in T /\ jwt[t].state = "valid"
                                      THEN "revoked" ELSE jwt[t].state
                    /\ t \notin T => jwt'[t] = jwt[t]
  BY DEF Revoked
<1>1. jwt[t] \in Row
  BY DEF TypeOK, Row
<1>2. jwt'[t] = IF t \in T /\ jwt[t].state = "valid"
                THEN [jwt[t] EXCEPT !.state = "revoked"] ELSE jwt[t]
  BY DEF Revoked
<1>3. CASE t \in T /\ jwt[t].state = "valid"
  <2>1. jwt'[t] = [jwt[t] EXCEPT !.state = "revoked"]
    BY <1>2, <1>3
  <2>2. jwt'[t] \in Row /\ jwt'[t].session = jwt[t].session /\ jwt'[t].state = "revoked"
    BY <1>1, <2>1 DEF Row
  <2>3. jwt'[t].expired = jwt[t].expired
    BY <1>1, <2>1 DEF Row
  <2> QED
    BY <1>3, <2>2, <2>3
<1>4. CASE ~(t \in T /\ jwt[t].state = "valid")
  <2>1. jwt'[t] = jwt[t]
    BY <1>2, <1>4
  <2> QED
    BY <1>1, <1>4, <2>1
<1> QED
  BY <1>3, <1>4

(* A step that revokes or expires tokens and lets some requests end: what  *)
(* is left to show is that no session loses its last token.                *)
LEMMA TokensMove ==
    ASSUME SessionsInv, NEW S \in SUBSET Slots,
           jwt' \in [Tokens -> Row], TokensAge,
           \A t \in Tokens : jwt'[t].session = jwt[t].session,
           \A t \in Tokens : jwt'[t].state # jwt[t].state
                             => jwt[t].state = "valid" /\ jwt'[t].state = "revoked",
           slot' \in [Slots -> Request \cup {Idle}],
           \A s \in S : /\ Knows(s)'
                        /\ slot'[s].pc \in IssuingSteps => slot[s].pc \in IssuingSteps
                        /\ slot'[s].session \in {slot[s].session, 0},
           \A s \in Slots \ S : slot'[s] = slot[s],
           UNCHANGED <<sessions, known, heirs>>,
           touched \subseteq touched', touched' \subseteq 1 .. sessions,
           ended' \subseteq touched',
           \A i \in ended' \ ended : ValidOf(i)' = {} /\ i \notin Issuing,
           KeepsOne'
    PROVE  SessionsInv'
<1>0. /\ TypeOK /\ Begun /\ (\A r \in Slots : Knows(r)) /\ EndedForGood
      /\ sessions \in Nat /\ ended' \subseteq 1 .. sessions
  BY SessionsAssumption DEF SessionsInv, TypeOK, SessionsAssumption
<1>1. TypeOK'
  <2>1. \A t \in Tokens : jwt[t].state # "unissued" => jwt'[t].state # "unissued"
    BY DEF TokensAge
  <2> QED
    BY <1>0, <2>1 DEF TypeOK, Row
<1>2. Begun'
  <2> SUFFICES ASSUME NEW t \in Tokens, jwt'[t].state # "unissued"
               PROVE  jwt'[t].session \in 1 .. sessions'
    BY DEF Begun
  <2> QED
    BY <1>0 DEF Begun
<1>3. ASSUME NEW r \in Slots PROVE Knows(r)'
  <2>1. \A t \in Tokens : jwt'[t] \in [state : {"unissued", "valid", "revoked"},
                                       expired : BOOLEAN, session : Ids \cup {0}]
    BY DEF Row
  <2>2. CASE r \notin S
    BY <1>0, <2>1, <2>2, OtherKnows
  <2> QED
    BY <2>2
<1>4. EndedForGood'
  <2> SUFFICES ASSUME NEW i \in ended' PROVE ValidOf(i)' = {} /\ i \notin Issuing'
    BY DEF EndedForGood
  <2>1. ValidOf(i)' \subseteq ValidOf(i)
    BY DEF ValidOf
  <2>2. ValidOf(i)' = {} /\ i \notin Issuing
    <3>1. CASE i \in ended
      BY <1>0, <2>1, <3>1 DEF EndedForGood
    <3>2. CASE i \notin ended
      BY <3>2
    <3> QED
      BY <3>1, <3>2
  <2>3. i \in Nat \ {0}
    BY <1>0
  <2>4. ASSUME NEW s \in Slots, slot'[s].pc \in IssuingSteps, slot'[s].session = i
        PROVE  slot[s].pc \in IssuingSteps /\ slot[s].session = i
    <3>1. CASE s \in S
      BY <2>3, <2>4, <3>1
    <3>2. CASE s \notin S
      BY <2>4, <3>2
    <3> QED
      BY <3>1, <3>2
  <2> QED
    BY <2>2, <2>4, IssuingHas
<1> QED
  BY <1>1, <1>2, <1>3, <1>4 DEF SessionsInv

LEMMA RevokeKeeps ==
    ASSUME SessionsInv, NEW s \in Slots, Revoke(s)
    PROVE  SessionsInv'
<1> DEFINE k == slot[s].token
<1>0. /\ TypeOK /\ Knows(s) /\ KeepsOne /\ ended \subseteq touched /\ touched \subseteq 1 .. sessions
      /\ jwt' = Revoked({k})
      /\ UNCHANGED <<sessions, known, heirs, ended, touched>>
      /\ slot[s].pc \in {"revoke", "revokeExpired"}
      /\ slot \in [Slots -> Request \cup {Idle}]
  BY DEF SessionsInv, TypeOK, Revoke, Saved
<1>1. /\ k \in known /\ k \in Tokens /\ k # None /\ jwt[k].state # "unissued"
      /\ slot[s].session = jwt[k].session /\ ~slot[s].spent
  BY <1>0 DEF Knows, TypeOK
<1>2. /\ jwt' \in [Tokens -> Row]
      /\ \A t \in Tokens : /\ jwt'[t].session = jwt[t].session
                           /\ jwt[t].expired => jwt'[t].expired
                           /\ t # k => jwt'[t] = jwt[t]
      /\ jwt'[k].state = "revoked"
  <2>1. jwt[k].state \in {"unissued", "valid", "revoked"}
    BY <1>0, <1>1 DEF TypeOK
  <2>2. /\ jwt' \in [Tokens -> Row]
        /\ \A t \in Tokens :
             /\ jwt'[t].session = jwt[t].session
             /\ jwt[t].expired => jwt'[t].expired
             /\ jwt'[t].state = IF t \in {k} /\ jwt[t].state = "valid"
                                THEN "revoked" ELSE jwt[t].state
             /\ t \notin {k} => jwt'[t] = jwt[t]
    BY <1>0, RevokedHas
  <2> QED
    BY <1>1, <2>1, <2>2
<1>3. jwt[k].state \in {"valid", "revoked"}
  BY <1>0, <1>1 DEF TypeOK
<1>4. \A t \in Tokens : jwt'[t].state # jwt[t].state
                          => jwt[t].state = "valid" /\ jwt'[t].state = "revoked"
  BY <1>1, <1>2, <1>3
<1>5. TokensAge
  BY <1>1, <1>2, <1>3 DEF TokensAge
<1>6. \/ slot[s].pc = "revoke" /\ Proceed(s, "findUser")
      \/ slot[s].pc = "revokeExpired" /\ Answer(s)
  BY DEF Revoke
<1>7. /\ slot' \in [Slots -> Request \cup {Idle}]
      /\ \A r \in Slots \ {s} : slot'[r] = slot[r]
      /\ slot'[s].session \in {slot[s].session, 0}
      /\ Knows(s)'
      /\ slot[s].pc = "revoke" => /\ slot'[s].pc = "findUser" /\ slot'[s].token = k
                                  /\ slot'[s].session = slot[s].session
      /\ slot'[s].pc \in IssuingSteps => slot[s].pc = "revoke"
  <2>1. CASE slot[s].pc = "revoke" /\ Proceed(s, "findUser")
    <3>1. /\ Onward(s, "findUser") \in Request /\ slot' = [slot EXCEPT ![s] = Onward(s, "findUser")]
          /\ slot'[s].pc = "findUser" /\ slot'[s].token = k /\ slot'[s].session = slot[s].session
          /\ ~slot'[s].spent
      BY <1>0, <1>1, <2>1, Proceeds DEF Steps
    <3>2. Knows(s)'
      BY <1>0, <1>1, <1>2, <2>1, <3>1 DEF Knows, IssuingSteps
    <3> QED
      BY <1>0, <2>1, <3>1, <3>2
  <2>2. CASE slot[s].pc = "revokeExpired" /\ Answer(s)
    <3>1. slot' = [slot EXCEPT ![s] = Idle] /\ slot'[s] = Idle
      BY <1>0, <2>2 DEF Answer
    <3> QED
      BY <1>0, <2>2, <3>1, IdleKnows DEF Idle, IssuingSteps
  <2> QED
    BY <1>6, <2>1, <2>2
<1>8. KeepsOne'
  <2> SUFFICES ASSUME NEW i \in (1 .. sessions \ (touched \cup Spent(Slots)))',
                      NEW u \in known', jwt'[u].session = i
               PROVE  \E t \in known' : /\ jwt'[t].session = i
                                        /\ jwt'[t].state = "valid" \/ jwt'[t].expired
    BY DEF KeepsOne
  <2>0. /\ u \in known /\ jwt[u].session = i
        /\ i \in 1 .. sessions \ touched /\ i \notin Spent(Slots)'
    BY <1>0, <1>2 DEF TypeOK
  <2>1. i \notin Spent(Slots)
    <3> SUFFICES ASSUME NEW r \in Slots, Owes(slot[r]), slot[r].session = i PROVE FALSE
      BY SpentHas
    <3>1. r # s
      BY <1>0 DEF Owes
    <3> QED
      BY <1>7, <3>1, SpentHas
  <2>2. PICK t \in known : jwt[t].session = i /\ (jwt[t].state = "valid" \/ jwt[t].expired)
    BY <1>0, <2>0, <2>1 DEF KeepsOne
  <2>3. t \in Tokens
    BY <1>0 DEF TypeOK
  <2>4. CASE t # k
    BY <1>0, <1>2, <2>2, <2>3, <2>4
  <2>5. CASE t = k
    <3>1. slot[s].pc # "revoke"
      <4>1. slot[s].pc = "revoke" => Owes(slot'[s]) /\ slot'[s].session = i
        BY <1>1, <1>7, <2>2, <2>5 DEF Owes
      <4> QED
        BY <2>0, <4>1, SpentHas
    <3>2. jwt[k].expired
      BY <1>0, <3>1 DEF Knows
    <3> QED
      BY <1>0, <1>1, <1>2, <2>2, <2>5, <3>2
  <2> QED
    BY <2>4, <2>5
<1> HIDE DEF k
<1>9. /\ slot'[s].pc \in IssuingSteps => slot[s].pc \in IssuingSteps
      /\ {s} \in SUBSET Slots
  BY <1>7 DEF IssuingSteps
<1> QED
  BY <1>0, <1>2, <1>4, <1>5, <1>7, <1>8, <1>9, TokensMove

LEMMA RevokeAllKeeps ==
    ASSUME SessionsInv, NEW s \in Slots, RevokeAll(s)
    PROVE  SessionsInv'
<1>0. /\ TypeOK /\ ended \subseteq touched /\ touched \subseteq 1 .. sessions
      /\ jwt' = Revoked(Tokens)
      /\ UNCHANGED <<sessions, known, heirs>>
      /\ ended' = ended \cup (1 .. sessions \ Issuing) /\ touched' = touched \cup 1 .. sessions
      /\ slot \in [Slots -> Request \cup {Idle}]
      /\ slot' = [slot EXCEPT ![s] = Idle]
  BY DEF SessionsInv, TypeOK, RevokeAll, LoggedOut, Answer
<1>1. /\ jwt' \in [Tokens -> Row]
      /\ \A t \in Tokens : /\ jwt'[t].session = jwt[t].session
                           /\ jwt[t].expired => jwt'[t].expired
                           /\ jwt'[t].state = IF jwt[t].state = "valid" THEN "revoked"
                                              ELSE jwt[t].state
  BY <1>0, RevokedHas
<1>2. \A t \in Tokens : jwt'[t].state # jwt[t].state
                          => jwt[t].state = "valid" /\ jwt'[t].state = "revoked"
  BY <1>1
<1>3. TokensAge
  BY <1>1 DEF TokensAge
<1>4. /\ slot' \in [Slots -> Request \cup {Idle}] /\ slot'[s] = Idle
      /\ \A r \in Slots \ {s} : slot'[r] = slot[r]
  BY <1>0
<1>5. /\ Knows(s)'
      /\ slot'[s].pc \in IssuingSteps => slot[s].pc \in IssuingSteps
      /\ slot'[s].session \in {slot[s].session, 0}
      /\ {s} \in SUBSET Slots
  BY <1>4, IdleKnows DEF Idle, IssuingSteps
<1>6. \A i \in ended' \ ended : ValidOf(i)' = {} /\ i \notin Issuing
  BY <1>0, <1>1 DEF ValidOf
<1>7. KeepsOne'
  BY <1>0 DEF KeepsOne
<1>8. touched \subseteq touched' /\ touched' \subseteq 1 .. sessions /\ ended' \subseteq touched'
  BY <1>0
<1>9. /\ jwt' \in [Tokens -> Row] /\ \A t \in Tokens : jwt'[t].session = jwt[t].session
      /\ UNCHANGED <<sessions, known, heirs>>
  BY <1>0, <1>1
<1> QED
  BY <1>2, <1>3, <1>4, <1>5, <1>6, <1>7, <1>8, <1>9, TokensMove

LEMMA ExpireKeeps ==
    ASSUME SessionsInv, NEW k \in Tokens, Expire(k)
    PROVE  SessionsInv'
<1>0. /\ TypeOK /\ KeepsOne /\ ended \subseteq touched /\ touched \subseteq 1 .. sessions
      /\ UNCHANGED <<sessions, slot, known, heirs, ended, touched>>
      /\ slot \in [Slots -> Request \cup {Idle}] /\ jwt \in [Tokens -> Row]
      /\ jwt' = [jwt EXCEPT ![k].expired = TRUE]
  BY DEF SessionsInv, TypeOK, Expire, Row
<1>1. /\ jwt' \in [Tokens -> Row]
      /\ \A t \in Tokens : /\ jwt'[t].session = jwt[t].session
                           /\ jwt[t].expired => jwt'[t].expired
                           /\ jwt'[t].state = jwt[t].state
  BY <1>0 DEF Row
<1>2. TokensAge
  BY <1>1 DEF TokensAge
<1>3. KeepsOne'
  <2>1. known \subseteq Tokens /\ Spent(Slots)' = Spent(Slots)
    BY <1>0 DEF TypeOK, Spent
  <2> SUFFICES ASSUME NEW i \in 1 .. sessions \ (touched \cup Spent(Slots)),
                      NEW u \in known, jwt[u].session = i
               PROVE  \E t \in known : /\ jwt'[t].session = i
                                       /\ jwt'[t].state = "valid" \/ jwt'[t].expired
    BY <1>0, <1>1, <2>1 DEF KeepsOne
  <2> QED
    BY <1>0, <1>1, <2>1 DEF KeepsOne
<1>4. {} \in SUBSET Slots
  OBVIOUS
<1> QED
  BY <1>0, <1>1, <1>2, <1>3, <1>4, TokensMove

(* A request that stores its token names a session nobody has ended, so    *)
(* only that session gets a valid token, and it has the token as long as   *)
(* its answer arrives.                                                     *)
LEMMA InsertKeeps ==
    ASSUME SessionsInv, NEW s \in Slots, InsertToken(s)
    PROVE  SessionsInv'
<1> DEFINE q == slot[s]
<1>1. PICK k \in Tokens :
         /\ jwt[k] = Unissued
         /\ jwt' = [jwt EXCEPT ![k] = [state |-> "valid", expired |-> FALSE, session |-> q.session]]
         /\ \/ known' = known \cup {k} /\ touched' = touched
            \/ touched' = touched \cup {q.session} /\ known' = known
         /\ heirs' = IF q.token = None THEN heirs
                     ELSE [heirs EXCEPT ![q.token] = @ \cup {k}]
  BY DEF InsertToken
<1>2. /\ TypeOK /\ Begun /\ (\A r \in Slots : Knows(r)) /\ EndedForGood /\ KeepsOne
      /\ sessions \in Nat /\ sessions <= MaxSessions /\ MaxSessions \in Nat
      /\ ended \subseteq touched /\ touched \subseteq 1 .. sessions
      /\ UNCHANGED <<sessions, ended>>
      /\ slot \in [Slots -> Request \cup {Idle}] /\ jwt \in [Tokens -> Row]
      /\ known \subseteq Tokens /\ heirs \in [Tokens -> SUBSET Tokens]
      /\ slot[s].pc = "insertToken"
  BY SessionsAssumption DEF SessionsInv, TypeOK, Row, InsertToken, SessionsAssumption
<1>3. q.session \in 1 .. sessions /\ q.session \notin ended /\ (q.token # None => q.token \in Tokens)
  <2>1. q.session \in 1 .. sessions /\ (q.token # None => q.token \in Tokens)
    BY <1>2 DEF Knows, IssuingSteps
  <2>2. q.session \in Issuing
    BY <1>2, IssuingHas DEF IssuingSteps
  <2> QED
    BY <1>2, <2>1, <2>2 DEF EndedForGood
<1>4. slot' = [slot EXCEPT ![s] = Idle] /\ slot'[s] = Idle /\ \A r \in Slots \ {s} : slot'[r] = slot[r]
  BY <1>2 DEF InsertToken, Answer
<1>5. /\ jwt' \in [Tokens -> Row] /\ k \notin known
      /\ jwt'[k].state = "valid" /\ jwt'[k].session = q.session
      /\ \A t \in Tokens \ {k} : jwt'[t] = jwt[t]
  <2>1. q.session \in Ids
    BY <1>2, <1>3 DEF Ids
  <2> QED
    BY <1>1, <1>2, <2>1 DEF Row, Unissued, TypeOK
<1>6. \A t \in Tokens : jwt[t].state # "unissued" => t # k
  BY <1>1 DEF Unissued
<1> HIDE DEF q
<1>7. TypeOK'
  <2>1. slot' \in [Slots -> Request \cup {Idle}]
    BY <1>2, <1>4
  <2>2. known' \subseteq {t \in Tokens : jwt'[t].state # "unissued"}
    BY <1>1, <1>2, <1>5 DEF TypeOK
  <2>3. heirs' \in [Tokens -> SUBSET Tokens]
    BY <1>1, <1>2, <1>3
  <2>4. touched \subseteq touched' /\ touched' \subseteq 1 .. sessions
    BY <1>1, <1>2, <1>3
  <2>5. sessions' \in 0 .. MaxSessions
    BY <1>2
  <2> QED
    BY <1>2, <1>5, <2>1, <2>2, <2>3, <2>4, <2>5 DEF TypeOK, Row
<1>8. Begun'
  BY <1>2, <1>3, <1>5 DEF Begun
<1>9. ASSUME NEW r \in Slots PROVE Knows(r)'
  <2>1. TokensAge
    BY <1>5, <1>6 DEF TokensAge
  <2>2. known \subseteq known' /\ sessions' \in Nat /\ sessions <= sessions'
    BY <1>1, <1>2
  <2>3. \A t \in Tokens : jwt'[t] \in [state : {"unissued", "valid", "revoked"},
                                       expired : BOOLEAN, session : Ids \cup {0}]
    BY <1>5 DEF Row
  <2> QED
    BY <1>2, <1>4, <2>1, <2>2, <2>3, IdleKnows, OtherKnows
<1>10. EndedForGood'
  <2> SUFFICES ASSUME NEW i \in ended PROVE ValidOf(i)' = {} /\ i \notin Issuing'
    BY <1>2 DEF EndedForGood
  <2>1. ValidOf(i) = {} /\ i \notin Issuing /\ i # q.session
    BY <1>2, <1>3 DEF EndedForGood
  <2>2. ValidOf(i)' = {}
    BY <1>5, <2>1 DEF ValidOf
  <2>3. i \notin Issuing'
    BY <1>4, <2>1, IssuingHas DEF Idle, IssuingSteps
  <2> QED
    BY <2>2, <2>3
<1>11. KeepsOne'
  <2> SUFFICES ASSUME NEW i \in 1 .. sessions \ (touched' \cup Spent(Slots)'),
                      NEW u \in known', jwt'[u].session = i
               PROVE  \E t \in known' : /\ jwt'[t].session = i
                                        /\ jwt'[t].state = "valid" \/ jwt'[t].expired
    BY <1>2 DEF KeepsOne
  <2>1. CASE i = q.session
    BY <1>1, <1>5, <2>1
  <2>2. CASE i # q.session
    <3>1. u \in known /\ jwt[u].session = i
      BY <1>1, <1>2, <1>5, <2>2
    <3>2. i \notin Spent(Slots)
      BY <1>4, <2>2, SpentHas DEF q
    <3>3. i \notin touched
      BY <1>1
    <3>4. PICK t \in known : jwt[t].session = i /\ (jwt[t].state = "valid" \/ jwt[t].expired)
      BY <1>2, <3>1, <3>2, <3>3 DEF KeepsOne
    <3> QED
      BY <1>1, <1>2, <1>5, <3>4
  <2> QED
    BY <2>1, <2>2
<1> QED
  BY <1>7, <1>8, <1>9, <1>10, <1>11 DEF SessionsInv

(* The requests of a process that stops are gone; a session they had taken *)
(* a token from is touched.                                                *)
LEMMA CrashKeeps ==
    ASSUME SessionsInv, NEW r \in Replicas, Crash(r)
    PROVE  SessionsInv'
<1> DEFINE S == {r} \X Lanes
<1>1. /\ TypeOK /\ KeepsOne /\ (\A s \in Slots : Knows(s)) /\ sessions \in Nat
      /\ ended \subseteq touched /\ touched \subseteq 1 .. sessions
      /\ UNCHANGED <<jwt, sessions, known, heirs, ended>>
      /\ touched' = touched \cup Spent(S)
      /\ slot' = [s \in Slots |-> IF s[1] = r THEN Idle ELSE slot[s]]
      /\ slot \in [Slots -> Request \cup {Idle}] /\ jwt \in [Tokens -> Row]
  BY SessionsAssumption DEF SessionsInv, TypeOK, Crash, Row, SessionsAssumption
<1>2. /\ S \in SUBSET Slots
      /\ \A s \in S : slot'[s] = Idle
      /\ \A s \in Slots \ S : slot'[s] = slot[s]
      /\ slot' \in [Slots -> Request \cup {Idle}]
  BY <1>1 DEF Slots
<1> HIDE DEF S
<1>3. touched \subseteq touched' /\ touched' \subseteq 1 .. sessions /\ ended' \subseteq touched'
  <2>1. \A s \in S : Owes(slot[s]) => slot[s].session \in 1 .. sessions
    BY <1>1, <1>2 DEF Knows, Owes, IssuingSteps
  <2>2. Spent(S) \subseteq 1 .. sessions
    BY <2>1, SpentHas
  <2> QED
    BY <1>1, <2>2
<1>4. \A s \in S : /\ Knows(s)'
                   /\ slot'[s].pc \in IssuingSteps => slot[s].pc \in IssuingSteps
                   /\ slot'[s].session \in {slot[s].session, 0}
  BY <1>2, IdleKnows DEF Idle, IssuingSteps
<1>5. TokensAge
  BY <1>1 DEF TokensAge
<1>6. KeepsOne'
  <2> SUFFICES ASSUME NEW i \in 1 .. sessions \ (touched' \cup Spent(Slots)'),
                      NEW u \in known, jwt[u].session = i
               PROVE  \E t \in known : /\ jwt[t].session = i
                                       /\ jwt[t].state = "valid" \/ jwt[t].expired
    BY <1>1 DEF KeepsOne
  <2>1. i \notin Spent(Slots)
    <3> SUFFICES ASSUME NEW s \in Slots, Owes(slot[s]), slot[s].session = i PROVE FALSE
      BY SpentHas
    <3>1. CASE s \in S
      BY <1>1, <3>1, SpentHas
    <3>2. CASE s \notin S
      BY <1>2, <3>2, SpentHas
    <3> QED
      BY <3>1, <3>2
  <2> QED
    BY <1>1, <2>1 DEF KeepsOne
<1>7. /\ jwt' \in [Tokens -> Row]
      /\ \A t \in Tokens : jwt'[t].session = jwt[t].session
      /\ \A t \in Tokens : jwt'[t].state # jwt[t].state
                             => jwt[t].state = "valid" /\ jwt'[t].state = "revoked"
      /\ \A i \in ended' \ ended : ValidOf(i)' = {} /\ i \notin Issuing
      /\ UNCHANGED <<sessions, known, heirs>>
  BY <1>1
<1> QED
  BY <1>2, <1>3, <1>4, <1>5, <1>6, <1>7, TokensMove

-----------------------------------------------------------------------------
(* The invariant and what follows from it                                  *)

LEMMA FailedKeeps ==
    ASSUME SessionsInv, NEW s \in Slots, FailedCall(s)
    PROVE  SessionsInv'
<1>1. /\ Answer(s) /\ UNCHANGED <<jwt, sessions, known, heirs, ended>>
      /\ touched' = touched \cup Spent({s})
  BY DEF FailedCall
<1>2. Owes(slot[s]) => slot[s].session \in touched'
  BY <1>1, SpentHas
<1> QED
  BY <1>1, <1>2, SlotAnswers

LEMMA InvariantStarts == Init => SessionsInv
<1> SUFFICES ASSUME Init PROVE SessionsInv
  OBVIOUS
<1>1. \A s \in Slots : slot[s] = Idle
  BY DEF Init
<1>2. \A t \in Tokens : jwt[t] = Unissued
  BY DEF Init
<1>3. TypeOK
  BY <1>1, SessionsAssumption DEF Init, TypeOK, Unissued, SessionsAssumption
<1>4. Begun
  BY <1>2 DEF Begun, Unissued
<1>5. \A s \in Slots : Knows(s)
  BY <1>1 DEF Knows, Idle, IssuingSteps
<1>6. EndedForGood /\ KeepsOne
  BY DEF EndedForGood, KeepsOne, Init
<1> QED
  BY <1>3, <1>4, <1>5, <1>6 DEF SessionsInv

LEMMA InvariantKept == ASSUME SessionsInv, [Next]_vars PROVE SessionsInv'
<1>1. CASE UNCHANGED vars
  BY <1>1
     DEF SessionsInv, TypeOK, Begun, Knows, EndedForGood, KeepsOne, ValidOf, Issuing, Spent, vars
<1>2. CASE Next
  BY <1>2, BeginKeeps, FindKeeps, RevokeKeeps, InsertKeeps, RevokeAllKeeps, FailedKeeps,
     ExpireKeeps, CrashKeeps DEF Next, Query
<1> QED
  BY <1>1, <1>2

(* What every request knows of its token, and which sessions have a token  *)
(* they can go on with, holds after any interleaving of logins, refreshes, *)
(* logouts, failed calls and crashes of the user service.                  *)
THEOREM InvariantHolds == Spec => []SessionsInv
BY InvariantStarts, InvariantKept, PTL DEF Spec

(* Rows, requests in progress and the tokens clients hold keep their types. *)
THEOREM SessionsTyped == Spec => []TypeOK
<1>1. SessionsInv => TypeOK
  BY DEF SessionsInv
<1> QED
  BY <1>1, InvariantHolds, PTL

(* auth.service.ts:118 looks for a token that is not revoked, so a token   *)
(* that was spent when a refresh arrived with it is never replaced,        *)
(* whatever other requests do with the row between the two queries.        *)
THEOREM SpentTokensRefused == Spec => []SpentRefused
<1>1. SessionsInv => SpentRefused
  BY DEF SessionsInv, SpentRefused, Knows
<1> QED
  BY <1>1, InvariantHolds, PTL

(* A session that a logout found at rest never has a valid token again:    *)
(* the update of auth.service.ts:110 takes its last one, and a request     *)
(* stores a token only for a session it found valid before.                *)
THEOREM LogoutIsFinal == Spec => []LogoutEnds
<1>1. SessionsInv => LogoutEnds
  BY DEF SessionsInv, LogoutEnds, EndedForGood
<1> QED
  BY <1>1, InvariantHolds, PTL

(* A refresh writes the row of its own token only, and answers with a new  *)
(* one: a client that waits for no answer, lost none and has not logged    *)
(* out can go on with a token it holds, or let it expire.                  *)
THEOREM SessionsSurvive == Spec => []NeverStranded
<1>1. SessionsInv => NeverStranded
  <2> SUFFICES ASSUME SessionsInv PROVE NeverStranded
    OBVIOUS
  <2>1. Spent(Slots) \subseteq Issuing
    BY IssuingHas, SpentHas DEF Owes, IssuingSteps
  <2> QED
    BY <2>1 DEF SessionsInv, KeepsOne, NeverStranded
<1> QED
  BY <1>1, InvariantHolds, PTL

-----------------------------------------------------------------------------
(* Rotation, while no two refreshes of one token overlap                   *)

(* A step that stores no token: requests outside S end or do not move.     *)
LEMMA RotationMoves ==
    ASSUME RotationInv, NEW S \in SUBSET Slots, heirs' = heirs,
           \A t \in Tokens : jwt[t].state = "revoked" => jwt'[t].state = "revoked",
           \A i : ValidOf(i)' \subseteq ValidOf(i),
           \A s \in Slots \ S : slot'[s].pc \in IssuingSteps => slot'[s] = slot[s],
           \A s \in S : slot'[s].pc \in IssuingSteps =>
             /\ HasTurn(s)'
             /\ \A r \in Slots \ {s} : slot'[r].pc \in IssuingSteps
                                         => slot'[r].session # slot'[s].session
    PROVE  RotationInv'
<1>1. HeirsRevoked'
  BY DEF RotationInv, HeirsRevoked
<1>2. OneHeir'
  BY DEF RotationInv, OneHeir
<1>3. OneValid'
  BY DEF RotationInv, OneValid
<1>4. OneTurn'
  <2> SUFFICES ASSUME NEW r \in Slots, NEW s \in Slots,
                      slot'[r].pc \in IssuingSteps, slot'[s].pc \in IssuingSteps,
                      slot'[r].session = slot'[s].session, r # s
               PROVE  FALSE
    BY DEF OneTurn
  <2>1. r \notin S /\ s \notin S
    OBVIOUS
  <2>2. slot'[r] = slot[r] /\ slot'[s] = slot[s]
    BY <2>1
  <2> QED
    BY <2>2 DEF RotationInv, OneTurn
<1>5. ASSUME NEW s \in Slots, slot'[s].pc \in IssuingSteps PROVE HasTurn(s)'
  <2>1. CASE s \in S
    BY <1>5, <2>1
  <2>2. CASE s \notin S
    <3>1. slot'[s] = slot[s] /\ HasTurn(s)
      BY <1>5, <2>2 DEF RotationInv
    <3> QED
      BY <3>1 DEF HasTurn
  <2> QED
    BY <2>1, <2>2
<1> QED
  BY <1>1, <1>2, <1>3, <1>4, <1>5 DEF RotationInv

LEMMA OneMoves ==
    ASSUME RotationInv, NEW s \in Slots, heirs' = heirs,
           \A t \in Tokens : jwt[t].state = "revoked" => jwt'[t].state = "revoked",
           \A i : ValidOf(i)' \subseteq ValidOf(i),
           \A r \in Slots \ {s} : slot'[r] = slot[r],
           slot'[s].pc \in IssuingSteps =>
             /\ HasTurn(s)'
             /\ \A r \in Slots \ {s} : slot'[r].pc \in IssuingSteps
                                         => slot'[r].session # slot'[s].session
    PROVE  RotationInv'
<1> DEFINE S == {s}
<1>1. S \in SUBSET Slots
  OBVIOUS
<1>2. \A r \in Slots \ S : slot'[r].pc \in IssuingSteps => slot'[r] = slot[r]
  OBVIOUS
<1>3. \A t \in S : slot'[t].pc \in IssuingSteps =>
        /\ HasTurn(t)'
        /\ \A r \in Slots \ {t} : slot'[r].pc \in IssuingSteps
                                    => slot'[r].session # slot'[t].session
  OBVIOUS
<1> HIDE DEF S
<1> QED
  BY <1>1, <1>2, <1>3, RotationMoves

(* A request that goes on keeps its turn. *)
LEMMA TurnKept ==
    ASSUME SessionsInv, RotationInv, NEW s \in Slots, NEW p \in IssuingSteps \ {"revoke"},
           slot[s].pc \in IssuingSteps, Proceed(s, p), heirs' = heirs,
           \A t \in Tokens : jwt[t].state = "revoked" => jwt'[t].state = "revoked",
           \A i : ValidOf(i)' \subseteq ValidOf(i),
           NEW i, i = slot[s].session, ValidOf(i)' = {}
    PROVE  RotationInv'
<1>1. slot[s].pc \in Steps /\ p \in Steps /\ slot \in [Slots -> Request \cup {Idle}] /\ TypeOK
  BY DEF Steps, IssuingSteps, SessionsInv, TypeOK
<1>2. /\ slot'[s].pc = p /\ slot'[s].token = slot[s].token /\ slot'[s].session = slot[s].session
      /\ \A r \in Slots \ {s} : slot'[r] = slot[r]
  BY <1>1, Proceeds
<1>3. HasTurn(s)'
  <2>1. HasTurn(s) /\ slot'[s].session = i /\ slot'[s].pc # "revoke"
    BY <1>2 DEF RotationInv
  <2> QED
    BY <1>2, <2>1 DEF HasTurn
<1>4. \A r \in Slots \ {s} : slot'[r].pc \in IssuingSteps => slot'[r].session # slot'[s].session
  BY <1>2 DEF OneTurn, RotationInv
<1> QED
  BY <1>2, <1>3, <1>4, OneMoves

(* The request that finds its token valid gets the turn: another that had  *)
(* it would leave no token valid but its own, and theirs are apart.        *)
LEMMA TurnTaken ==
    ASSUME SessionsInv, RotationInv, Apart, NEW s \in Slots, FindToken(s)
    PROVE  RotationInv'
<1> DEFINE k == slot[s].token
<1>1. /\ TypeOK /\ Begun /\ Knows(s) /\ slot \in [Slots -> Request \cup {Idle}]
      /\ UNCHANGED <<jwt, heirs>> /\ slot[s].pc = "findToken"
      /\ sessions \in Nat /\ sessions <= MaxSessions /\ MaxSessions \in Nat
  BY SessionsAssumption DEF SessionsInv, TypeOK, FindToken, SessionsAssumption
<1>2. k # None /\ k \in known /\ k \in Tokens /\ slot[s].session = jwt[k].session
  BY <1>1 DEF Knows, TypeOK
<1>3. /\ \A t \in Tokens : jwt[t].state = "revoked" => jwt'[t].state = "revoked"
      /\ \A i : ValidOf(i)' \subseteq ValidOf(i)
  BY <1>1 DEF ValidOf
<1>4. CASE jwt[k].state = "valid" /\ Proceed(s, "revoke")
  <2>1. /\ slot'[s].pc = "revoke" /\ slot'[s].token = k /\ slot'[s].session = slot[s].session
        /\ \A r \in Slots \ {s} : slot'[r] = slot[r]
    BY <1>1, <1>4, Proceeds DEF Steps
  <2>2. k \in ValidOf(slot[s].session) /\ slot[s].session \in Ids
    BY <1>1, <1>2, <1>4 DEF ValidOf, Begun, Ids
  <2>3. HasTurn(s)'
    <3>1. heirs[k] = {}
      BY <1>2, <1>4 DEF RotationInv, HeirsRevoked
    <3>2. ValidOf(slot[s].session) \subseteq {k}
      BY <2>2 DEF RotationInv, OneValid
    <3> QED
      BY <1>1, <1>3, <2>1, <3>1, <3>2 DEF HasTurn
  <2>4. ASSUME NEW r \in Slots \ {s}, slot'[r].pc \in IssuingSteps
        PROVE  slot'[r].session # slot'[s].session
    <3> SUFFICES ASSUME slot[r].session = slot[s].session PROVE FALSE
      BY <2>1
    <3>1. HasTurn(r)
      BY <2>1, <2>4 DEF RotationInv
    <3>2. slot[r].token = k
      BY <2>2, <3>1 DEF HasTurn
    <3> QED
      BY <1>2, <3>2 DEF Apart
  <2> HIDE DEF k
  <2> QED
    BY <1>1, <1>3, <2>1, <2>3, <2>4, OneMoves
<1>5. CASE Proceed(s, "revokeExpired") \/ Answer(s)
  <2>1. slot'[s].pc \notin IssuingSteps /\ \A r \in Slots \ {s} : slot'[r] = slot[r]
    BY <1>1, <1>5, Proceeds DEF Steps, IssuingSteps, Answer, Idle
  <2> QED
    BY <1>1, <1>3, <2>1, OneMoves
<1> QED
  BY <1>4, <1>5 DEF FindToken, Usable

(* Only the request whose turn it is stores a token, when its session has  *)
(* none and its own token has no heir.                                     *)
LEMMA TurnUsed ==
    ASSUME SessionsInv, RotationInv, Apart, NEW s \in Slots, InsertToken(s)
    PROVE  RotationInv'
<1> DEFINE q == slot[s]
<1>1. PICK k \in Tokens :
         /\ jwt[k] = Unissued
         /\ jwt' = [jwt EXCEPT ![k] = [state |-> "valid", expired |-> FALSE, session |-> q.session]]
         /\ heirs' = IF q.token = None THEN heirs
                     ELSE [heirs EXCEPT ![q.token] = @ \cup {k}]
  BY DEF InsertToken
<1>2. /\ TypeOK /\ Knows(s) /\ slot \in [Slots -> Request \cup {Idle}]
      /\ heirs \in [Tokens -> SUBSET Tokens] /\ slot[s].pc = "insertToken"
      /\ jwt \in [Tokens -> Row]
      /\ slot' = [slot EXCEPT ![s] = Idle]
  BY DEF SessionsInv, TypeOK, InsertToken, Answer, Row
<1>3. /\ q.token # None => /\ q.token \in Tokens /\ jwt[q.token].state = "revoked"
                           /\ heirs[q.token] = {}
      /\ ValidOf(q.session) = {}
  <2>1. HasTurn(s)
    BY <1>2 DEF RotationInv, IssuingSteps
  <2> QED
    BY <1>2, <2>1 DEF Knows, HasTurn, TypeOK
<1>4. /\ jwt'[k].state = "valid" /\ jwt'[k].session = q.session /\ jwt[k].state = "unissued"
      /\ \A t \in Tokens \ {k} : jwt'[t] = jwt[t]
  BY <1>1, <1>2 DEF Unissued
<1>5. /\ slot'[s].pc \notin IssuingSteps
      /\ \A r \in Slots \ {s} : slot'[r] = slot[r]
  BY <1>2 DEF Idle, IssuingSteps
<1>6. /\ \A t \in Tokens : t # q.token => heirs'[t] = heirs[t]
      /\ q.token # None => heirs'[q.token] = {k}
  BY <1>1, <1>2, <1>3
<1> HIDE DEF q
<1>7. /\ \A i : i = q.session => ValidOf(i)' = {k}
      /\ \A i : i # q.session => ValidOf(i)' = ValidOf(i)
  BY <1>3, <1>4 DEF ValidOf
<1>8. HeirsRevoked'
  BY <1>3, <1>4, <1>6, SessionsAssumption DEF RotationInv, HeirsRevoked, SessionsAssumption
<1>9. OneHeir'
  BY <1>3, <1>6, SessionsAssumption DEF RotationInv, OneHeir, SessionsAssumption
<1>10. OneValid'
  BY <1>7 DEF RotationInv, OneValid
<1>11. OneTurn'
  BY <1>5 DEF RotationInv, OneTurn, q
<1>12. ASSUME NEW r \in Slots, slot'[r].pc \in IssuingSteps PROVE HasTurn(r)'
  <2>1. r # s /\ slot'[r] = slot[r] /\ HasTurn(r)
    BY <1>5, <1>12 DEF RotationInv
  <2>2. slot[r].session # q.session
    BY <1>2, <1>12, <2>1 DEF RotationInv, OneTurn, IssuingSteps, q
  <2>3. slot[r].token # None => slot[r].token # q.token /\ slot[r].token \in Tokens
    BY <1>2, <2>1, SlotTyped DEF Apart, TypeOK, Idle, Request, q
  <2> QED
    BY <1>6, <1>7, <2>1, <2>2, <2>3 DEF HasTurn
<1> QED
  BY <1>8, <1>9, <1>10, <1>11, <1>12 DEF RotationInv

LEMMA RotationStarts == Init => RotationInv
<1> SUFFICES ASSUME Init PROVE RotationInv
  OBVIOUS
<1>1. \A s \in Slots : slot[s] = Idle
  BY DEF Init
<1>2. \A i : ValidOf(i) = {}
  BY DEF Init, ValidOf, Unissued
<1>3. \A t \in Tokens : heirs[t] = {}
  BY DEF Init
<1> QED
  BY <1>1, <1>2, <1>3
     DEF RotationInv, HeirsRevoked, OneHeir, OneValid, OneTurn, Idle, IssuingSteps

LEMMA RotationKept ==
    ASSUME SessionsInv, RotationInv, Apart, [Next]_vars
    PROVE  RotationInv'
<1>0. /\ TypeOK /\ Begun /\ (\A s \in Slots : Knows(s))
      /\ slot \in [Slots -> Request \cup {Idle}] /\ jwt \in [Tokens -> Row]
      /\ sessions \in Nat /\ sessions <= MaxSessions /\ MaxSessions \in Nat
  BY SessionsAssumption DEF SessionsInv, TypeOK, Row, SessionsAssumption
<1>1. CASE UNCHANGED vars
  BY <1>1 DEF RotationInv, HeirsRevoked, OneHeir, OneValid, OneTurn, HasTurn, ValidOf, vars
<1>2. ASSUME jwt' = jwt
      PROVE  /\ \A t \in Tokens : jwt[t].state = "revoked" => jwt'[t].state = "revoked"
             /\ \A i : ValidOf(i)' = ValidOf(i)
  BY <1>2 DEF ValidOf
<1>3. ASSUME NEW s \in Slots, jwt' = jwt, heirs' = heirs, slot'[s].pc \notin IssuingSteps,
             \A r \in Slots \ {s} : slot'[r] = slot[r]
      PROVE  RotationInv'
  BY <1>2, <1>3, OneMoves
<1>4. ASSUME NEW s \in Slots, Login(s) PROVE RotationInv'
  <2> DEFINE q == [pc |-> "login", token |-> None, session |-> sessions + 1, spent |-> FALSE]
  <2>1. /\ slot'[s] = q /\ \A r \in Slots \ {s} : slot'[r] = slot[r]
        /\ jwt' = jwt /\ heirs' = heirs
    BY <1>0, <1>4 DEF Login, Begin
  <2>2. q.pc = "login" /\ q.token = None /\ q.session = sessions + 1
    OBVIOUS
  <2> HIDE DEF q
  <2>3. \A i : i = sessions + 1 => ValidOf(i) = {}
    BY <1>0 DEF Begun, ValidOf
  <2>4. HasTurn(s)'
    <3>1. \A i : i = sessions + 1 => ValidOf(i)' = {}
      BY <1>2, <2>1, <2>3
    <3> QED
      BY <2>1, <2>2, <3>1 DEF HasTurn
  <2>5. \A r \in Slots \ {s} : slot'[r].pc \in IssuingSteps => slot'[r].session # slot'[s].session
    BY <1>0, <2>1, <2>2 DEF Knows
  <2> QED
    BY <1>2, <2>1, <2>4, <2>5, OneMoves
<1>5. ASSUME NEW s \in Slots, Refresh(s) \/ Logout(s) PROVE RotationInv'
  <2>1. /\ slot'[s].pc \in {"findToken", "logout"} /\ \A r \in Slots \ {s} : slot'[r] = slot[r]
        /\ jwt' = jwt /\ heirs' = heirs
    BY <1>0, <1>5 DEF Refresh, Logout, Begin
  <2> QED
    BY <1>3, <2>1 DEF IssuingSteps
<1>6. ASSUME NEW s \in Slots, Answer(s), heirs' = heirs,
             \A t \in Tokens : jwt[t].state = "revoked" => jwt'[t].state = "revoked",
             \A i : ValidOf(i)' \subseteq ValidOf(i)
      PROVE  RotationInv'
  <2>1. slot'[s] = Idle /\ \A r \in Slots \ {s} : slot'[r] = slot[r]
    BY <1>0, <1>6 DEF Answer
  <2>2. slot'[s].pc \notin IssuingSteps
    BY <2>1 DEF Idle, IssuingSteps
  <2> QED
    BY <1>6, <2>1, <2>2, OneMoves
<1>7. ASSUME NEW s \in Slots, FindLogin(s) \/ FindUser(s) PROVE RotationInv'
  <2>1. jwt' = jwt /\ heirs' = heirs /\ slot[s].pc \in {"login", "findUser"}
    BY <1>7 DEF FindLogin, FindUser
  <2>2. CASE Answer(s)
    BY <1>2, <1>6, <2>1, <2>2
  <2>3. CASE Proceed(s, "insertToken")
    <3>1. slot[s].pc \in IssuingSteps /\ slot[s].pc # "revoke"
      BY <2>1 DEF IssuingSteps
    <3>2. PICK i : i = slot[s].session
      OBVIOUS
    <3>3. ValidOf(i) = {}
      <4>1. HasTurn(s)
        BY <3>1 DEF RotationInv
      <4> QED
        BY <3>1, <3>2, <4>1 DEF HasTurn
    <3> QED
      BY <1>2, <2>1, <2>3, <3>1, <3>2, <3>3, TurnKept DEF IssuingSteps
  <2> QED
    BY <1>7, <2>2, <2>3 DEF FindLogin, FindUser
<1>8. ASSUME NEW T, jwt' = Revoked(T)
      PROVE  /\ \A t \in Tokens : jwt[t].state = "revoked" => jwt'[t].state = "revoked"
             /\ \A i : ValidOf(i)' \subseteq ValidOf(i) \ T
  <2>1. \A t \in Tokens :
          /\ jwt'[t].session = jwt[t].session
          /\ jwt'[t].state = IF t \in T /\ jwt[t].state = "valid" THEN "revoked" ELSE jwt[t].state
    BY <1>0, <1>8, RevokedHas
  <2> QED
    BY <2>1 DEF ValidOf
<1>9. ASSUME NEW s \in Slots, Revoke(s) PROVE RotationInv'
  <2> DEFINE T == {slot[s].token}
  <2>1. jwt' = Revoked(T) /\ heirs' = heirs
    BY <1>9 DEF Revoke, Saved
  <2>2. /\ \A t \in Tokens : jwt[t].state = "revoked" => jwt'[t].state = "revoked"
        /\ \A i : ValidOf(i)' \subseteq ValidOf(i) \ T
    BY <1>8, <2>1
  <2>3. CASE Answer(s)
    BY <1>6, <2>1, <2>2, <2>3
  <2>4. CASE slot[s].pc = "revoke" /\ Proceed(s, "findUser")
    <3>1. PICK i : i = slot[s].session
      OBVIOUS
    <3>2. ValidOf(i) \subseteq T
      <4>1. HasTurn(s)
        BY <2>4 DEF RotationInv, IssuingSteps
      <4> QED
        BY <2>4, <3>1, <4>1 DEF HasTurn
    <3>3. /\ ValidOf(i)' = {} /\ \A j : ValidOf(j)' \subseteq ValidOf(j)
      BY <2>2, <3>2
    <3>4. "findUser" \in IssuingSteps \ {"revoke"} /\ slot[s].pc \in IssuingSteps
      BY <2>4 DEF IssuingSteps
    <3> QED
      BY <2>1, <2>2, <2>4, <3>1, <3>3, <3>4, TurnKept
  <2> QED
    BY <1>9, <2>3, <2>4 DEF Revoke
<1>10. ASSUME NEW s \in Slots, RevokeAll(s) PROVE RotationInv'
  BY <1>6, <1>8, <1>10 DEF RevokeAll
<1>11. ASSUME NEW s \in Slots, FailedCall(s) PROVE RotationInv'
  BY <1>2, <1>6, <1>11 DEF FailedCall
<1>12. ASSUME NEW k \in Tokens, Expire(k) PROVE RotationInv'
  <2>1. \A t \in Tokens : jwt'[t].state = jwt[t].state /\ jwt'[t].session = jwt[t].session
    BY <1>0, <1>12 DEF Expire, Row
  <2>2. \A i : ValidOf(i)' \subseteq ValidOf(i)
    BY <2>1 DEF ValidOf
  <2>3. heirs' = heirs /\ slot' = slot
    BY <1>12 DEF Expire
  <2>4. {} \in SUBSET Slots
    OBVIOUS
  <2> QED
    BY <2>1, <2>2, <2>3, <2>4, RotationMoves
<1>13. ASSUME NEW r \in Replicas, Crash(r) PROVE RotationInv'
  <2>1. /\ heirs' = heirs /\ jwt' = jwt
        /\ \A s \in Slots : slot'[s] = slot[s] \/ slot'[s] = Idle
    BY <1>13 DEF Crash
  <2>2. \A s \in Slots : slot'[s].pc \in IssuingSteps => slot'[s] = slot[s]
    BY <2>1 DEF Idle, IssuingSteps
  <2>3. {} \in SUBSET Slots
    OBVIOUS
  <2> QED
    BY <1>2, <2>1, <2>2, <2>3, RotationMoves
<1>14. CASE Next
  BY <1>4, <1>5, <1>7, <1>9, <1>10, <1>11, <1>12, <1>13, <1>14, TurnTaken, TurnUsed
     DEF Next, Query
<1> QED
  BY <1>1, <1>14

LEMMA AlikeAreOne == ASSUME NEW S, \A a, b \in S : a = b PROVE Cardinality(S) <= 1
<1>1. CASE S = {}
  BY <1>1, FS_EmptySet
<1>2. CASE S # {}
  <2>1. PICK a : S = {a}
    BY <1>2
  <2> QED
    BY <2>1, FS_Singleton
<1> QED
  BY <1>1, <1>2

(* As long as no two refreshes of one token overlap, which is all that     *)
(* auth.service.ts:118-131 leaves to the client, no token is exchanged     *)
(* twice and no session has two valid tokens, through crashes, failed      *)
(* calls and logouts between the queries.                                  *)
THEOREM RotationIsSafe == Spec => RotatesApart
<1> DEFINE Single == ExchangedOnce /\ \A i \in Ids : Cardinality(ValidOf(i)) <= 1
<1>1. SessionsInv /\ RotationInv => Single
  <2> SUFFICES ASSUME RotationInv PROVE Single
    OBVIOUS
  <2>1. ExchangedOnce
    BY AlikeAreOne DEF RotationInv, OneHeir, ExchangedOnce
  <2>2. \A i \in Ids : Cardinality(ValidOf(i)) <= 1
    BY AlikeAreOne DEF RotationInv, OneValid
  <2> QED
    BY <2>1, <2>2
<1>2. RotatesApart <=> ([]Apart => []Single)
  BY DEF RotatesApart
<1> HIDE DEF Single
<1> QED
  BY <1>1, <1>2, InvariantHolds, RotationStarts, RotationKept, PTL DEF Spec

=============================================================================
