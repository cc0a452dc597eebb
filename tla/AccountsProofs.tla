--------------------------- MODULE AccountsProofs ---------------------------
(* Theorems about Accounts, for every set of accounts, e-mails, values and *)
(* requests in progress and any faults.                                    *)
EXTENDS Accounts, TLAPS

-----------------------------------------------------------------------------
(* The inductive invariant                                                 *)

UpdateSteps == {"findUser", "compare", "updateUser"}

(* What a request knows at each of its queries: a registration has the     *)
(* fields it must have, an update is of an account that exists, and the    *)
(* entity it is about to save has a username.                              *)
Knows(s) ==
    LET q == slot[s] IN
    /\ q.pc \in {"findEmail", "insertUser"} => q.email # Absent /\ q.dto["username"] # Absent
    /\ q.pc \in UpdateSteps => q.account \in Registered
    /\ q.pc \notin UpdateSteps => q.account = Absent
    /\ q.pc \in {"compare", "updateUser"} => q.entity["username"] # Absent

(* The entity is the row of the account with what was asked for, and the   *)
(* columns to update are those in which it differs from the row.           *)
Current(s) ==
    LET q == slot[s]
        p == users[q.account].profile
    IN
    /\ q.pc \in {"compare", "updateUser"} => q.entity = Modified(p, q.dto)
    /\ q.pc = "updateUser" => q.changed = {f \in Fields : q.entity[f] # p[f]}

(* An account that is not mixed has one update at most, which is current.  *)
Alone ==
    \A s \in Slots : slot[s].account \in Accounts \ mixed =>
      /\ Current(s)
      /\ \A t \in Slots \ {s} : slot[t].account # slot[s].account

AccountsInv ==
    TypeOK /\ (\A s \in Slots : Knows(s)) /\ Alone /\ IdentitiesUnique /\ KeptApart

-----------------------------------------------------------------------------
(* Operators                                                               *)

LEMMA RowTyped ==
    ASSUME TypeOK, NEW a \in Accounts
    PROVE  /\ users[a] \in [email : Emails \cup {Absent}, profile : Profile]
           /\ given[a] \in Profile
           /\ users[a] # Nobody => users[a].email # Absent /\ users[a].profile["username"] # Absent
BY DEF TypeOK

LEMMA SlotTyped ==
    ASSUME TypeOK, NEW s \in Slots, slot[s].pc # "idle"
    PROVE  slot[s] \in Request /\ slot[s].dto \in Profile /\ slot[s].entity \in Profile
BY DEF TypeOK, Request, Idle

LEMMA ProfileValues ==
    ASSUME NEW p \in Profile
    PROVE  \A f \in Fields : p[f] \in Values \cup {Absent}
BY DEF Profile

LEMMA ModifiedHas ==
    ASSUME NEW p \in Profile, NEW dto \in Profile
    PROVE  /\ Modified(p, dto) \in Profile
           /\ p["username"] # Absent => Modified(p, dto)["username"] # Absent
<1>1. "username" \in Fields
  BY AccountsAssumption DEF AccountsAssumption
<1>2. \A f \in Fields : Modified(p, dto)[f] = (IF dto[f] = Absent THEN p[f] ELSE dto[f])
  BY DEF Modified
<1>3. Modified(p, dto) \in Profile
  BY ProfileValues DEF Profile, Modified
<1> QED
  BY <1>1, <1>2, <1>3

LEMMA IdleKnows == ASSUME NEW s \in Slots, slot'[s] = Idle PROVE Knows(s)'
BY DEF Knows, Idle, UpdateSteps

LEMMA IdleTyped == Idle \in [pc : {"idle"}, account : {Absent}, email : {Absent},
                             dto : Profile, entity : Profile, changed : SUBSET Fields]
BY DEF Idle, Profile

-----------------------------------------------------------------------------
(* A step of one request                                                   *)

(* What has to be shown of a step of s after which its slot is q: the      *)
(* others keep their rows, and so what they know of them.                  *)
LEMMA SlotMoves ==
    ASSUME AccountsInv, NEW s \in Slots, NEW q \in Request \cup {Idle},
           slot' = [slot EXCEPT ![s] = q],
           users' \in [Accounts -> [email : Emails \cup {Absent}, profile : Profile]],
           \A a \in Accounts :
             users'[a] # Nobody => Absent \notin {users'[a].email, users'[a].profile["username"]},
           given' \in [Accounts -> Profile],
           Registered \subseteq Registered', mixed \subseteq mixed', mixed' \subseteq Registered,
           \A t \in Slots \ {s} : slot[t].account \in Registered \ mixed'
                                    => users'[slot[t].account] = users[slot[t].account],
           Knows(s)',
           q.account \in Accounts \ mixed' =>
             Current(s)' /\ \A t \in Slots \ {s} : slot[t].account # q.account,
           IdentitiesUnique', KeptApart'
    PROVE  AccountsInv'
<1>0. /\ TypeOK /\ (\A t \in Slots : Knows(t)) /\ Alone
      /\ slot'[s] = q /\ \A t \in Slots \ {s} : slot'[t] = slot[t]
  BY DEF AccountsInv, TypeOK
<1>1. TypeOK'
  BY <1>0 DEF TypeOK
<1>2. ASSUME NEW t \in Slots PROVE Knows(t)'
  <2>1. CASE t = s
    BY <2>1
  <2>2. CASE t # s
    BY <1>0, <2>2 DEF Knows
  <2> QED
    BY <2>1, <2>2
<1>3. Alone'
  <2> SUFFICES ASSUME NEW t \in Slots, slot'[t].account \in Accounts \ mixed'
               PROVE  /\ Current(t)'
                      /\ \A r \in Slots \ {t} : slot'[r].account # slot'[t].account
    BY DEF Alone
  <2>1. CASE t = s
    BY <1>0, <2>1
  <2>2. CASE t # s
    <3>1. slot'[t] = slot[t] /\ slot[t].account \in Accounts \ mixed
      BY <1>0, <2>2
    <3>2. Current(t) /\ \A r \in Slots \ {t} : slot[r].account # slot[t].account
      BY <1>0, <3>1 DEF Alone
    <3>3. slot[t].account \in Registered
      BY <1>0, <3>1, AccountsAssumption DEF Knows, AccountsAssumption
    <3>4. users'[slot[t].account] = users[slot[t].account]
      BY <2>2, <3>1, <3>3
    <3>5. Current(t)'
      BY <3>1, <3>2, <3>4 DEF Current
    <3>6. ASSUME NEW r \in Slots \ {t} PROVE slot'[r].account # slot'[t].account
      BY <1>0, <2>2, <3>1, <3>2
    <3> QED
      BY <3>5, <3>6
  <2> QED
    BY <2>1, <2>2
<1> QED
  BY <1>1, <1>2, <1>3 DEF AccountsInv

(* A query that changes no row. *)
LEMMA RowsKept ==
    ASSUME AccountsInv, NEW s \in Slots, NEW q \in Request \cup {Idle},
           slot' = [slot EXCEPT ![s] = q], UNCHANGED <<users, given>>,
           mixed \subseteq mixed', mixed' \subseteq Registered, Knows(s)',
           q.account \in Accounts \ mixed' =>
             Current(s)' /\ \A t \in Slots \ {s} : slot[t].account # q.account
    PROVE  AccountsInv'
<1>1. TypeOK /\ IdentitiesUnique /\ KeptApart
  BY DEF AccountsInv
<1>2. Registered' = Registered /\ IdentitiesUnique' /\ KeptApart'
  BY <1>1 DEF Registered, IdentitiesUnique, KeptApart
<1>3. /\ users' \in [Accounts -> [email : Emails \cup {Absent}, profile : Profile]]
      /\ given' \in [Accounts -> Profile]
      /\ \A a \in Accounts :
           users'[a] # Nobody => Absent \notin {users'[a].email, users'[a].profile["username"]}
  BY <1>1 DEF TypeOK
<1>4. \A t \in Slots \ {s} : users'[slot[t].account] = users[slot[t].account]
  OBVIOUS
<1> QED
  BY <1>2, <1>3, <1>4, SlotMoves

LEMMA AnswerKeeps ==
    ASSUME AccountsInv, NEW s \in Slots, Answer(s), UNCHANGED <<users, given, mixed>>
    PROVE  AccountsInv'
<1>1. slot' = [slot EXCEPT ![s] = Idle] /\ slot'[s] = Idle /\ Idle \in Request \cup {Idle}
  BY DEF Answer, AccountsInv, TypeOK
<1>2. Knows(s)'
  BY <1>1, IdleKnows
<1>3. Idle.account \notin Accounts
  BY AccountsAssumption DEF AccountsAssumption, Idle
<1>4. mixed \subseteq Registered
  BY DEF AccountsInv, TypeOK
<1> QED
  BY <1>1, <1>2, <1>3, <1>4, RowsKept

-----------------------------------------------------------------------------
(* The actions                                                             *)

LEMMA RegisterKeeps == ASSUME AccountsInv, NEW s \in Slots, Register(s) PROVE AccountsInv'
<1>1. PICK e \in Emails, p \in Profile :
        /\ \A f \in Fields : p[f] = Absent <=> f = "avatar_url"
        /\ Begin(s, [Idle EXCEPT !.pc = "findEmail", !.email = e, !.dto = p])
  BY DEF Register
<1> DEFINE q == [Idle EXCEPT !.pc = "findEmail", !.email = e, !.dto = p]
<1>2. /\ q.pc = "findEmail" /\ q.account = Absent /\ q.email = e /\ q.dto = p
      /\ q \in Request
  BY IdleTyped DEF Idle, Request
<1> HIDE DEF q
<1>3. /\ slot' = [slot EXCEPT ![s] = q] /\ slot'[s] = q
      /\ UNCHANGED <<users, given, mixed>> /\ mixed \subseteq Registered
  BY <1>1 DEF Begin, Register, AccountsInv, TypeOK, q
<1>4. e # Absent /\ p["username"] # Absent /\ Absent \notin Accounts
  BY <1>1, AccountsAssumption DEF AccountsAssumption
<1>5. Knows(s)'
  BY <1>2, <1>3, <1>4 DEF Knows, UpdateSteps
<1> QED
  BY <1>2, <1>3, <1>4, <1>5, RowsKept

LEMMA UpdateKeeps == ASSUME AccountsInv, NEW s \in Slots, Update(s) PROVE AccountsInv'
<1>1. PICK a \in Registered, p \in Profile :
        /\ Begin(s, [Idle EXCEPT !.pc = "findUser", !.account = a, !.dto = p])
        /\ mixed' = IF \E t \in Slots : slot[t].account = a THEN mixed \cup {a} ELSE mixed
  BY DEF Update
<1> DEFINE q == [Idle EXCEPT !.pc = "findUser", !.account = a, !.dto = p]
<1>2. a \in Accounts
  BY DEF Registered
<1>3. q.pc = "findUser" /\ q.account = a /\ q \in Request
  BY <1>2, IdleTyped DEF Idle, Request
<1> HIDE DEF q
<1>4. /\ slot' = [slot EXCEPT ![s] = q] /\ slot'[s] = q
      /\ UNCHANGED <<users, given>> /\ mixed \subseteq Registered
  BY <1>1 DEF Begin, Update, AccountsInv, TypeOK, q
<1>5. mixed \subseteq mixed' /\ mixed' \subseteq Registered
  BY <1>1, <1>4
<1>6. Knows(s)'
  BY <1>1, <1>3, <1>4 DEF Knows, UpdateSteps, Registered
<1>7. a \in Accounts \ mixed' => \A t \in Slots \ {s} : slot[t].account # a
  BY <1>1
<1>8. Current(s)'
  BY <1>3, <1>4 DEF Current
<1> QED
  BY <1>3, <1>4, <1>5, <1>6, <1>7, <1>8, RowsKept

LEMMA ProceedKeeps ==
    ASSUME AccountsInv, NEW s \in Slots, UNCHANGED <<users, given, mixed>>,
           slot[s].pc = "findEmail", Proceed(s, "insertUser")
    PROVE  AccountsInv'
<1> DEFINE q == [slot[s] EXCEPT !.pc = "insertUser"]
<1>1. TypeOK /\ Knows(s) /\ mixed \subseteq Registered
  BY DEF AccountsInv, TypeOK
<1>2. slot[s] \in Request
  BY <1>1, SlotTyped
<1>3. /\ q.pc = "insertUser" /\ q.account = slot[s].account /\ q.email = slot[s].email
      /\ q.dto = slot[s].dto /\ q \in Request
  BY <1>2 DEF Request
<1>4. slot' = [slot EXCEPT ![s] = q] /\ slot'[s] = q
  BY <1>1, <1>2 DEF Proceed, TypeOK
<1> HIDE DEF q
<1>5. slot[s].account = Absent /\ Absent \notin Accounts
  BY <1>1, AccountsAssumption DEF Knows, UpdateSteps, AccountsAssumption
<1>6. Knows(s)'
  BY <1>1, <1>3, <1>4, <1>5 DEF Knows, UpdateSteps
<1> QED
  BY <1>1, <1>3, <1>4, <1>5, <1>6, RowsKept

LEMMA FindEmailKeeps == ASSUME AccountsInv, NEW s \in Slots, FindEmail(s) PROVE AccountsInv'
BY AnswerKeeps, ProceedKeeps DEF FindEmail

(* The database inserts the account. *)
LEMMA InsertKeeps ==
    ASSUME AccountsInv, NEW s \in Slots, slot[s].pc = "insertUser",
           NEW a \in Accounts \ Registered,
           Free(slot[s].email, slot[s].dto["username"], a),
           users' = [users EXCEPT ![a] = [email |-> slot[s].email, profile |-> slot[s].dto]],
           given' = [given EXCEPT ![a] = slot[s].dto],
           Proceed(s, "insertToken"), UNCHANGED mixed
    PROVE  AccountsInv'
<1> DEFINE q == [slot[s] EXCEPT !.pc = "insertToken"]
           row == [email |-> slot[s].email, profile |-> slot[s].dto]
<1>1. /\ TypeOK /\ Knows(s) /\ IdentitiesUnique /\ KeptApart
      /\ mixed \subseteq Registered /\ Registered \subseteq Accounts
  BY DEF AccountsInv, TypeOK, Registered
<1>2. slot[s] \in Request /\ slot[s].dto \in Profile
  BY <1>1, SlotTyped
<1>3. q.pc = "insertToken" /\ q.account = slot[s].account /\ q \in Request
  BY <1>2 DEF Request
<1>4. slot' = [slot EXCEPT ![s] = q] /\ slot'[s] = q
  BY <1>1, <1>2 DEF Proceed, TypeOK
<1>5. /\ row.email = slot[s].email /\ row.profile = slot[s].dto
      /\ row \in [email : Emails \cup {Absent}, profile : Profile]
      /\ row.email # Absent /\ row.profile["username"] # Absent
  BY <1>1, <1>2 DEF Request, Knows
<1>6. /\ users'[a] = row /\ \A b \in Accounts \ {a} : users'[b] = users[b]
      /\ given'[a] = row.profile /\ \A b \in Accounts \ {a} : given'[b] = given[b]
      /\ users' \in [Accounts -> [email : Emails \cup {Absent}, profile : Profile]]
      /\ given' \in [Accounts -> Profile]
  BY <1>1, <1>2, <1>5 DEF TypeOK
<1>7. Free(row.email, row.profile["username"], a)
  BY <1>5
<1> HIDE DEF q, row
<1>8. Registered' = Registered \cup {a}
  BY <1>5, <1>6 DEF Registered, Nobody
<1>9. \A b \in Accounts :
        users'[b] # Nobody => Absent \notin {users'[b].email, users'[b].profile["username"]}
  BY <1>1, <1>5, <1>6 DEF TypeOK
<1>10. IdentitiesUnique'
  BY <1>1, <1>6, <1>7, <1>8 DEF IdentitiesUnique, Free
<1>11. KeptApart'
  BY <1>1, <1>6 DEF KeptApart
<1>12. slot[s].account = Absent /\ Absent \notin Accounts
  BY <1>1, AccountsAssumption DEF Knows, UpdateSteps, AccountsAssumption
<1>13. Knows(s)'
  BY <1>3, <1>4, <1>12 DEF Knows, UpdateSteps
<1>14. \A t \in Slots \ {s} : slot[t].account \in Registered \ mixed'
                                => users'[slot[t].account] = users[slot[t].account]
  BY <1>1, <1>6
<1> QED
  BY <1>1, <1>3, <1>4, <1>6, <1>8, <1>9, <1>10, <1>11, <1>12, <1>13, <1>14, SlotMoves

LEMMA InsertUserKeeps == ASSUME AccountsInv, NEW s \in Slots, InsertUser(s) PROVE AccountsInv'
BY InsertKeeps, AnswerKeeps DEF InsertUser

LEMMA FindUserKeeps == ASSUME AccountsInv, NEW s \in Slots, FindUser(s) PROVE AccountsInv'
<1> DEFINE a == slot[s].account
           e == Modified(users[a].profile, slot[s].dto)
           q == [slot[s] EXCEPT !.pc = "compare", !.entity = e]
<1>1. /\ TypeOK /\ Knows(s) /\ Alone /\ mixed \subseteq Registered
      /\ slot[s].pc = "findUser" /\ UNCHANGED <<users, given, mixed>>
  BY DEF AccountsInv, TypeOK, FindUser
<1>2. slot[s] \in Request /\ slot[s].dto \in Profile
  BY <1>1, SlotTyped
<1>3. a \in Registered /\ a \in Accounts
  BY <1>1 DEF Knows, UpdateSteps, Registered
<1>4. users[a].profile \in Profile /\ users[a].profile["username"] # Absent
  BY <1>1, <1>3, RowTyped DEF Registered
<1>5. e \in Profile /\ e["username"] # Absent
  BY <1>2, <1>4, ModifiedHas
<1>6. /\ q.pc = "compare" /\ q.account = a /\ q.dto = slot[s].dto /\ q.entity = e
      /\ q \in Request
  BY <1>2, <1>5 DEF Request
<1>7. slot' = [slot EXCEPT ![s] = q] /\ slot'[s] = q
  BY <1>1, <1>2 DEF FindUser, TypeOK
<1>8. e = Modified(users'[a].profile, slot[s].dto)
  BY <1>1
<1> HIDE DEF q, e
<1>9. Knows(s)'
  BY <1>1, <1>3, <1>5, <1>6, <1>7 DEF Knows, UpdateSteps, Registered
<1>10. Current(s)'
  BY <1>6, <1>7, <1>8 DEF Current
<1>11. a \in Accounts \ mixed' => \A t \in Slots \ {s} : slot[t].account # a
  BY <1>1 DEF Alone
<1> QED
  BY <1>1, <1>6, <1>7, <1>9, <1>10, <1>11, RowsKept

(* save has found a difference. *)
LEMMA DifferenceKeeps ==
    ASSUME AccountsInv, NEW s \in Slots, slot[s].pc = "compare",
           NEW changed,
           changed = {f \in Fields : slot[s].entity[f] # users[slot[s].account].profile[f]},
           slot' = [slot EXCEPT ![s].pc = "updateUser", ![s].changed = changed],
           UNCHANGED <<users, given, mixed>>
    PROVE  AccountsInv'
<1> DEFINE q == [slot[s] EXCEPT !.pc = "updateUser", !.changed = changed]
<1>1. /\ TypeOK /\ Knows(s) /\ Alone /\ mixed \subseteq Registered
  BY DEF AccountsInv, TypeOK
<1>2. slot[s] \in Request
  BY <1>1, SlotTyped
<1>3. /\ q.pc = "updateUser" /\ q.account = slot[s].account /\ q.dto = slot[s].dto
      /\ q.entity = slot[s].entity /\ q.changed = changed /\ q \in Request
  BY <1>2 DEF Request
<1>4. slot' = [slot EXCEPT ![s] = q] /\ slot'[s] = q
  BY <1>1, <1>2 DEF TypeOK
<1> HIDE DEF q
<1>5. Knows(s)'
  BY <1>1, <1>3, <1>4 DEF Knows, UpdateSteps, Registered
<1>6. slot[s].account \in Accounts \ mixed' =>
        Current(s) /\ \A t \in Slots \ {s} : slot[t].account # slot[s].account
  BY <1>1 DEF Alone
<1>7. Current(s) => Current(s)'
  <2> SUFFICES ASSUME slot[s].entity = Modified(users[slot[s].account].profile, slot[s].dto)
               PROVE  Current(s)'
    BY DEF Current
  <2>1. slot'[s].entity = Modified(users'[slot'[s].account].profile, slot'[s].dto)
    BY <1>3, <1>4
  <2>2. slot'[s].changed = {f \in Fields : slot'[s].entity[f] # users'[slot'[s].account].profile[f]}
    BY <1>3, <1>4
  <2> QED
    BY <2>1, <2>2 DEF Current
<1> QED
  BY <1>1, <1>3, <1>4, <1>5, <1>6, <1>7, RowsKept

(* save has found none: the row is as was asked for. *)
LEMMA SameKeeps ==
    ASSUME AccountsInv, NEW s \in Slots, slot[s].pc = "compare", Answer(s),
           \A f \in Fields : slot[s].entity[f] = users[slot[s].account].profile[f],
           given' = [given EXCEPT ![slot[s].account] = Modified(@, slot[s].dto)],
           UNCHANGED <<users, mixed>>
    PROVE  AccountsInv'
<1> DEFINE a == slot[s].account
           p == users[a].profile
<1>1. /\ TypeOK /\ Knows(s) /\ Alone /\ IdentitiesUnique /\ KeptApart /\ mixed \subseteq Registered
  BY DEF AccountsInv, TypeOK
<1>2. slot[s].dto \in Profile /\ slot[s].entity \in Profile
  BY <1>1, SlotTyped
<1>3. a \in Registered /\ a \in Accounts
  BY <1>1 DEF Knows, UpdateSteps, Registered
<1>4. given[a] \in Profile /\ p \in Profile
  BY <1>1, <1>3, RowTyped
<1>5. /\ given'[a] = Modified(given[a], slot[s].dto)
      /\ \A b \in Accounts \ {a} : given'[b] = given[b]
      /\ given' \in [Accounts -> Profile]
  BY <1>1, <1>2, <1>3, <1>4, ModifiedHas DEF TypeOK
<1>6. p = slot[s].entity
  BY <1>2, <1>4 DEF Profile
<1>7. a \notin mixed => given'[a] = p
  <2>1. SUFFICES ASSUME a \notin mixed PROVE given'[a] = p
    OBVIOUS
  <2>2. slot[s].entity = Modified(p, slot[s].dto)
    BY <1>1, <1>3, <2>1 DEF Alone, Current
  <2>3. given[a] = p
    BY <1>1, <1>3, <2>1 DEF KeptApart
  <2> QED
    BY <1>5, <1>6, <2>2, <2>3
<1>8. KeptApart'
  BY <1>1, <1>3, <1>5, <1>7 DEF KeptApart
<1>9. Registered' = Registered /\ IdentitiesUnique'
  BY <1>1 DEF Registered, IdentitiesUnique
<1>10. slot' = [slot EXCEPT ![s] = Idle] /\ slot'[s] = Idle
  BY <1>1 DEF Answer, TypeOK
<1>11. Knows(s)' /\ Idle.account \notin Accounts
  BY <1>10, IdleKnows, AccountsAssumption DEF AccountsAssumption, Idle
<1>12. /\ users' \in [Accounts -> [email : Emails \cup {Absent}, profile : Profile]]
       /\ \A b \in Accounts :
            users'[b] # Nobody => Absent \notin {users'[b].email, users'[b].profile["username"]}
       /\ \A t \in Slots \ {s} : users'[slot[t].account] = users[slot[t].account]
  BY <1>1 DEF TypeOK
<1> QED
  BY <1>1, <1>5, <1>8, <1>9, <1>10, <1>11, <1>12, SlotMoves

LEMMA CompareKeeps == ASSUME AccountsInv, NEW s \in Slots, Compare(s) PROVE AccountsInv'
<1> DEFINE changed == {f \in Fields : slot[s].entity[f] # users[slot[s].account].profile[f]}
<1>1. CASE changed = {}
  <2>1. \A f \in Fields : slot[s].entity[f] = users[slot[s].account].profile[f]
    BY <1>1
  <2> QED
    BY <1>1, <2>1, SameKeeps DEF Compare
<1>2. CASE changed # {}
  BY <1>2, DifferenceKeeps DEF Compare
<1> QED
  BY <1>1, <1>2

(* The columns that differ are updated. *)
LEMMA SavedKeeps ==
    ASSUME AccountsInv, NEW s \in Slots, slot[s].pc = "updateUser", Answer(s),
           Storable(slot[s]), users' = Saved(slot[s]),
           given' = [given EXCEPT ![slot[s].account] = Modified(@, slot[s].dto)],
           UNCHANGED mixed
    PROVE  AccountsInv'
<1> DEFINE a == slot[s].account
           p == users[a].profile
           e == slot[s].entity
           r == [f \in Fields |-> IF f \in slot[s].changed THEN e[f] ELSE p[f]]
<1>1. /\ TypeOK /\ Knows(s) /\ Alone /\ IdentitiesUnique /\ KeptApart
      /\ mixed \subseteq Registered /\ Registered \subseteq Accounts
  BY DEF AccountsInv, TypeOK, Registered
<1>2. slot[s].dto \in Profile /\ e \in Profile
  BY <1>1, SlotTyped
<1>3. a \in Registered /\ a \in Accounts
  BY <1>1 DEF Knows, UpdateSteps, Registered
<1>4. /\ given[a] \in Profile /\ p \in Profile /\ p["username"] # Absent /\ users[a].email # Absent
      /\ users[a] \in [email : Emails \cup {Absent}, profile : Profile]
  BY <1>1, <1>3, RowTyped DEF Registered
<1>5. r \in Profile /\ r["username"] # Absent
  <2>1. "username" \in Fields
    BY AccountsAssumption DEF AccountsAssumption
  <2>2. e["username"] # Absent
    BY <1>1 DEF Knows
  <2> QED
    BY <1>2, <1>4, <2>1, <2>2, ProfileValues DEF Profile
<1>6. users' = [users EXCEPT ![a].profile = r]
  BY DEF Saved
<1>7. /\ users'[a].profile = r /\ users'[a].email = users[a].email
      /\ users'[a] \in [email : Emails \cup {Absent}, profile : Profile]
  <2> HIDE DEF r
  <2>1. users'[a] = [users[a] EXCEPT !.profile = r]
    BY <1>1, <1>3, <1>6 DEF TypeOK
  <2> QED
    BY <1>4, <1>5, <2>1
<1>8. \A b \in Accounts \ {a} : users'[b] = users[b]
  BY <1>1, <1>3, <1>6 DEF TypeOK
<1>9. users' \in [Accounts -> [email : Emails \cup {Absent}, profile : Profile]]
  BY <1>1, <1>6, <1>7, <1>8 DEF TypeOK
<1>10. Free(users[a].email, r["username"], a)
  BY <1>6, <1>7 DEF Storable
<1>11. a \notin mixed => r = Modified(p, slot[s].dto)
  <2>1. SUFFICES ASSUME a \notin mixed PROVE r = e /\ e = Modified(p, slot[s].dto)
    OBVIOUS
  <2>2. e = Modified(p, slot[s].dto) /\ slot[s].changed = {f \in Fields : e[f] # p[f]}
    BY <1>1, <1>3, <2>1 DEF Alone, Current
  <2>3. \A f \in Fields : r[f] = e[f]
    BY <2>2
  <2>4. r = e
    BY <1>2, <1>5, <2>3 DEF Profile
  <2> QED
    BY <2>2, <2>4
<1> HIDE DEF r
<1>12. /\ given'[a] = Modified(given[a], slot[s].dto)
       /\ \A b \in Accounts \ {a} : given'[b] = given[b]
       /\ given' \in [Accounts -> Profile]
  BY <1>1, <1>2, <1>3, <1>4, ModifiedHas DEF TypeOK
<1>13. KeptApart'
  BY <1>1, <1>3, <1>7, <1>8, <1>11, <1>12 DEF KeptApart
<1>14. Registered' = Registered
  BY <1>3, <1>4, <1>7, <1>8 DEF Registered, Nobody
<1>15. IdentitiesUnique'
  BY <1>1, <1>7, <1>8, <1>10, <1>14 DEF IdentitiesUnique, Free
<1>16. \A b \in Accounts :
         users'[b] # Nobody => Absent \notin {users'[b].email, users'[b].profile["username"]}
  BY <1>1, <1>4, <1>5, <1>7, <1>8 DEF TypeOK
<1>17. slot' = [slot EXCEPT ![s] = Idle] /\ slot'[s] = Idle
  BY <1>1 DEF Answer, TypeOK
<1>18. Knows(s)' /\ Idle.account \notin Accounts
  BY <1>17, IdleKnows, AccountsAssumption DEF AccountsAssumption, Idle
<1>19. \A t \in Slots \ {s} : slot[t].account \in Registered \ mixed'
                                => users'[slot[t].account] = users[slot[t].account]
  <2> SUFFICES ASSUME NEW t \in Slots \ {s}, slot[t].account \in Registered \ mixed
               PROVE  slot[t].account \in Accounts \ {a}
    BY <1>8
  <2> QED
    BY <1>1 DEF Alone
<1> QED
  BY <1>1, <1>9, <1>12, <1>13, <1>14, <1>15, <1>16, <1>17, <1>18, <1>19, SlotMoves

LEMMA UpdateUserKeeps == ASSUME AccountsInv, NEW s \in Slots, UpdateUser(s) PROVE AccountsInv'
BY SavedKeeps, AnswerKeeps DEF UpdateUser

(* All requests end at once. *)
LEMMA CrashKeeps == ASSUME AccountsInv, Crash PROVE AccountsInv'
<1>1. /\ TypeOK /\ IdentitiesUnique /\ KeptApart
      /\ slot' = [s \in Slots |-> Idle] /\ UNCHANGED <<users, given, mixed>>
  BY DEF AccountsInv, Crash
<1>2. \A s \in Slots : slot'[s] = Idle
  BY <1>1
<1>3. TypeOK' /\ IdentitiesUnique' /\ KeptApart'
  BY <1>1 DEF TypeOK, IdentitiesUnique, KeptApart, Registered
<1>4. \A s \in Slots : Knows(s)'
  BY <1>2, IdleKnows
<1>5. Alone'
  BY <1>2, AccountsAssumption DEF Alone, AccountsAssumption, Idle
<1> QED
  BY <1>3, <1>4, <1>5 DEF AccountsInv

-----------------------------------------------------------------------------
LEMMA InvariantStarts == Init => AccountsInv
<1> SUFFICES ASSUME Init PROVE AccountsInv
  OBVIOUS
<1>1. /\ \A s \in Slots : slot[s] = Idle
      /\ \A a \in Accounts : users[a] = Nobody /\ given[a] = Nobody.profile
  BY DEF Init
<1>2. Nobody \in [email : Emails \cup {Absent}, profile : Profile] /\ Nobody.profile \in Profile
  BY DEF Nobody, Profile
<1>3. TypeOK
  BY <1>1, <1>2 DEF Init, TypeOK
<1>4. \A s \in Slots : Knows(s)
  BY <1>1 DEF Knows, Idle, UpdateSteps
<1>5. Alone
  BY <1>1, AccountsAssumption DEF Alone, AccountsAssumption, Idle
<1>6. IdentitiesUnique /\ KeptApart
  BY <1>1 DEF IdentitiesUnique, KeptApart, Registered
<1> QED
  BY <1>3, <1>4, <1>5, <1>6 DEF AccountsInv

LEMMA InvariantKept == ASSUME AccountsInv, [Next]_vars PROVE AccountsInv'
<1>1. CASE UNCHANGED vars
  BY <1>1 DEF vars, AccountsInv, TypeOK, Registered, Knows, Alone, Current, IdentitiesUnique, KeptApart
<1>2. ASSUME NEW s \in Slots, Register(s) \/ Update(s) PROVE AccountsInv'
  BY <1>2, RegisterKeeps, UpdateKeeps
<1>3. ASSUME NEW s \in Slots, FindEmail(s) \/ InsertUser(s) \/ FindUser(s) PROVE AccountsInv'
  BY <1>3, FindEmailKeeps, InsertUserKeeps, FindUserKeeps
<1>4. ASSUME NEW s \in Slots, Compare(s) \/ UpdateUser(s) PROVE AccountsInv'
  BY <1>4, CompareKeeps, UpdateUserKeeps
<1>5. ASSUME NEW s \in Slots, InsertToken(s) \/ FailedCall(s) PROVE AccountsInv'
  BY <1>5, AnswerKeeps DEF InsertToken, FailedCall
<1> QED
  BY <1>1, <1>2, <1>3, <1>4, <1>5, CrashKeeps DEF Next, Query

-----------------------------------------------------------------------------
(* The theorems                                                            *)

(* Every reachable state has the inductive invariant: a request knows what *)
(* its next query needs (AuthService.register, UserService.update).        *)
THEOREM InvariantHolds == Spec => []AccountsInv
BY InvariantStarts, InvariantKept, PTL DEF Spec

(* Rows, requests and histories have their types, and an account that      *)
(* exists has an e-mail and a username, whatever updates it has had.       *)
THEOREM AccountsTyped == Spec => []TypeOK
<1>1. AccountsInv => TypeOK
  BY DEF AccountsInv
<1> QED
  BY <1>1, InvariantHolds, PTL

(* The unique indexes suffice: however registrations and renamings         *)
(* overlap, two accounts never have an e-mail or a username in common.     *)
THEOREM IdentitiesApart == Spec => []IdentitiesUnique
<1>1. AccountsInv => IdentitiesUnique
  BY DEF AccountsInv
<1> QED
  BY <1>1, InvariantHolds, PTL

(* As long as no two updates of an account overlap, its profile has in     *)
(* every field the value last asked for and stored, although save reads    *)
(* the row again and writes only the columns that differ.                  *)
THEOREM UpdatesKept == Spec => []KeptApart
<1>1. AccountsInv => KeptApart
  BY DEF AccountsInv
<1> QED
  BY <1>1, InvariantHolds, PTL

=============================================================================
