--------------------------- MODULE AuthorityProofs ---------------------------
(* That every change of a membership rests on an authority its actor has   *)
(* had, for every set of users, conversations and replicas and any number  *)
(* of requests that overlap.                                               *)
EXTENDS Authority, ConversationsProofs

-----------------------------------------------------------------------------
(* The inductive invariant                                                 *)

Owner(h) == "owner" \in held[h]

(* With the grounds of an owner nothing else is collected. *)
Has(h, ground) == Owner(h) \/ ground \in held[h]

(* What a request has been found to have at each of its calls. *)
Found(h) ==
    LET q == handler[h]
    IN  CASE h[2] = "GROUP_ADD_MEMBER" /\ q.pc \in {"getTarget", "createMember"} ->
               Owner(h) \/ (Has(h, "admin") /\ q.role = "member")
          [] h[2] = "GROUP_UPDATE_ROLE" /\ q.pc \in {"getTarget", "countOwners", "updateRole"} ->
               Owner(h)
          [] h[2] = "GROUP_DELETE" /\ q.pc \in {"deleteConversation", "deleteMembers"} ->
               /\ Owner(h)
               /\ q.pc = "deleteMembers" => conversations[q.conv] = "deleted"
          [] h[2] = "GROUP_REMOVE_MEMBER" /\ q.actor # q.target /\ q.pc = "getTarget" ->
               \/ q.actorRole = "owner" /\ Owner(h)
               \/ q.actorRole = "admin" /\ Has(h, "admin")
               \/ q.actorRole = "member"
          [] h[2] = "GROUP_REMOVE_MEMBER" /\ q.actor # q.target
             /\ q.pc \in {"countOwners", "deleteMember"} ->
               Has(h, "admin") /\ Has(h, "member")
          [] OTHER -> TRUE

(* A request holds the grounds it has now, and those it was found to have; *)
(* who creates or leaves acts for itself.                                  *)
Authorised(h) ==
    handler[h] # Idle =>
      /\ \A ground \in Grounds(h) : Has(h, ground)
      /\ h[2] \in {"GROUP_CREATE", "GROUP_LEAVE"} => handler[h].actor = handler[h].target
      /\ Found(h)

AuthorityInv == held \in [Handlers -> SUBSET Roles] /\ \A h \in Handlers : Authorised(h)

(* What Observe does to what a request at work has.                        *)
LEMMA HeldGrows ==
    ASSUME AuthorityInv, Observe, NEW h \in Handlers, handler'[h] # Idle
    PROVE  /\ Owner(h) => Owner(h)'
           /\ \A ground \in Roles : Has(h, ground) => Has(h, ground)'
           /\ \A ground \in Grounds(h)' : Has(h, ground)'
<1>1. held'[h] = Enough(held[h] \cup Grounds(h)')
  BY DEF Observe
<1> QED
  BY <1>1 DEF Owner, Has, Enough

LEMMA GroundsAreRoles == ASSUME NEW h \in Handlers PROVE Grounds(h) \subseteq Roles
BY DEF Grounds, Roles

LEMMA HeldTyped == ASSUME AuthorityInv, Observe PROVE held' \in [Handlers -> SUBSET Roles]
<1>1. ASSUME NEW h \in Handlers PROVE Grounds(h)' \subseteq Roles
  BY DEF Grounds, Roles
<1>2. ASSUME NEW h \in Handlers PROVE Enough(held[h] \cup Grounds(h)') \subseteq Roles
  BY <1>1 DEF Enough, AuthorityInv, Roles
<1> QED
  BY <1>2 DEF Observe

(* No conversation that has been deleted comes back. *)
DeletedStays == \A c \in Convs : conversations[c] = "deleted" => conversations'[c] = "deleted"

(* A request that a step does not move. *)
LEMMA StaysAuthorised ==
    ASSUME TypeOK, AuthorityInv, Observe, DeletedStays,
           NEW h \in Handlers, handler'[h] = handler[h]
    PROVE  Authorised(h)'
<1> SUFFICES ASSUME handler[h] # Idle PROVE Authorised(h)'
  BY DEF Authorised
<1>1. /\ Owner(h) => Owner(h)'
      /\ \A ground \in Roles : Has(h, ground) => Has(h, ground)'
      /\ \A ground \in Grounds(h)' : Has(h, ground)'
      /\ {"owner", "admin", "member"} = Roles
  BY HeldGrows DEF Roles
<1>2. Found(h) /\ (h[2] \in {"GROUP_CREATE", "GROUP_LEAVE"} => handler[h].actor = handler[h].target)
  BY DEF AuthorityInv, Authorised
<1>3. handler[h].pc = "deleteMembers" => handler[h].conv \in Convs
  BY BusyHandler
<1>4. Found(h)'
  <2> HIDE DEF Owner, Has
  <2> QED
    BY <1>1, <1>2, <1>3 DEF Found, DeletedStays
<1> QED
  BY <1>1, <1>2, <1>4 DEF Authorised

(* What remains to be shown of a step that moves h. *)
LEMMA MovedAuthorised ==
    ASSUME AuthorityInv, Observe, NEW h \in Handlers,
           handler'[h] # Idle =>
             /\ h[2] \in {"GROUP_CREATE", "GROUP_LEAVE"} => handler'[h].actor = handler'[h].target
             /\ Found(h)'
    PROVE  Authorised(h)'
BY HeldGrows DEF Authorised

LEMMA AnswerAuthorised ==
    ASSUME TypeOK, NEW h \in Handlers, Answer(h)
    PROVE  handler'[h] = Idle /\ Authorised(h)'
BY DEF Answer, TypeOK, Authorised

LEMMA Proceeded ==
    ASSUME TypeOK, NEW h \in Handlers, handler[h] # Idle, NEW step, Proceed(h, step)
    PROVE  /\ handler'[h].pc = step
           /\ handler'[h].actor = handler[h].actor /\ handler'[h].target = handler[h].target
           /\ handler'[h].conv = handler[h].conv /\ handler'[h].role = handler[h].role
           /\ handler'[h].actorRole = handler[h].actorRole
BY DEF Proceed, TypeOK, Request

-----------------------------------------------------------------------------
(* The steps of a handler                                                  *)

LEMMA ReceiveAuthorised ==
    ASSUME TypeOK, AuthorityInv, Observe, NEW h \in Handlers, Receive(h)
    PROVE  Authorised(h)'
<1> PICK actor \in Users, conv \in ConvsOf(h[2]), role \in RolesOf(h[2]) :
         \E target \in TargetsOf(h[2], actor) :
         handler' = [handler EXCEPT ![h] =
                       [pc |-> FirstStep(h[2], actor, target), actor |-> actor,
                        conv |-> conv, target |-> target, role |-> role,
                        actorRole |-> None]]
  BY DEF Receive
<1> PICK target \in TargetsOf(h[2], actor) :
         handler' = [handler EXCEPT ![h] =
                       [pc |-> FirstStep(h[2], actor, target), actor |-> actor,
                        conv |-> conv, target |-> target, role |-> role,
                        actorRole |-> None]]
  OBVIOUS
<1>1. /\ handler'[h].pc = FirstStep(h[2], actor, target)
      /\ handler'[h].actor = actor /\ handler'[h].target = target
  BY DEF TypeOK
<1>2. h[2] \in {"GROUP_CREATE", "GROUP_LEAVE"} => actor = target
  BY DEF TargetsOf
<1>3. FirstStep(h[2], actor, target) \in {"createConversation", "getTarget", "getConversation"}
      /\ (FirstStep(h[2], actor, target) = "getTarget"
            => h[2] = "GROUP_LEAVE" \/ (h[2] = "GROUP_REMOVE_MEMBER" /\ actor = target))
  BY DEF FirstStep
<1>4. Found(h)'
  BY <1>1, <1>3 DEF Found
<1> QED
  BY <1>1, <1>2, <1>4, MovedAuthorised

LEMMA ReadAuthorised ==
    ASSUME TypeOK, AuthorityInv, Observe, NEW h \in Handlers,
           GetConversation(h) \/ GetActor(h) \/ GetTarget(h) \/ CountOwners(h)
    PROVE  Authorised(h)'
<1>0. /\ h[2] \in AllSubjects
      /\ handler[h] # Idle /\ handler[h] \in Request /\ handler[h].conv \in Convs
      /\ handler[h].pc \in StepsOf(h[2])
  <2>1. handler[h].pc \notin {"idle", "createConversation"}
    BY DEF GetConversation, GetActor, GetTarget, CountOwners
  <2> QED
    BY <2>1, BusyHandler, HandlerSubject DEF Idle
<1>1. /\ Found(h)
      /\ h[2] \in {"GROUP_CREATE", "GROUP_LEAVE"} => handler[h].actor = handler[h].target
      /\ \A ground \in Grounds(h) : Has(h, ground)
  BY <1>0 DEF AuthorityInv, Authorised
<1>2. Roles = {"owner", "admin", "member"} /\ None \notin Roles
  BY DEF Roles, None
<1>3. CASE Answer(h)
  BY <1>3, AnswerAuthorised
<1>4. CASE GetConversation(h) /\ ~Answer(h)
  <2>1. Proceed(h, "getActor")
    BY <1>4 DEF GetConversation
  <2>2. /\ handler'[h].pc = "getActor"
        /\ handler'[h].actor = handler[h].actor /\ handler'[h].target = handler[h].target
    BY <1>0, <2>1, Proceeded
  <2>3. Found(h)'
    BY <2>2 DEF Found
  <2> QED
    BY <1>1, <2>2, <2>3, MovedAuthorised
<1>5. CASE GetActor(h) /\ ~Answer(h)
  <2> DEFINE r == members[handler[h].conv][handler[h].actor]
             next == IF h[2] = "GROUP_DELETE" THEN "deleteConversation" ELSE "getTarget"
  <2>1. ActorMay(h[2], r, handler[h].role)
        /\ handler' = [handler EXCEPT ![h].actorRole = r, ![h].pc = next]
    BY <1>5 DEF GetActor
  <2>2. /\ handler'[h].pc = next /\ handler'[h].actorRole = r
        /\ handler'[h].actor = handler[h].actor /\ handler'[h].target = handler[h].target
        /\ handler'[h].role = handler[h].role
    BY <1>0, <2>1 DEF TypeOK, Request
  <2>3. handler'[h] # Idle
    BY <2>2 DEF Idle
  <2>4. r \in Roles \cup {None} /\ handler[h].role \in RolesOf(h[2])
    BY <1>0 DEF TypeOK, Request
  <2>5. h[2] \in {"GROUP_ADD_MEMBER", "GROUP_REMOVE_MEMBER", "GROUP_UPDATE_ROLE", "GROUP_DELETE"}
    BY <1>0, <1>5 DEF GetActor, StepsOf, AllSubjects
  <2>6. /\ r = "owner" => Owner(h)
        /\ r = "admin" /\ h[2] \in {"GROUP_ADD_MEMBER", "GROUP_REMOVE_MEMBER"} => Has(h, "admin")
    <3>1. /\ r = "owner" => "owner" \in Grounds(h)
          /\ r = "admin" /\ h[2] \in {"GROUP_ADD_MEMBER", "GROUP_REMOVE_MEMBER"}
               => "admin" \in Grounds(h)
      BY <2>5 DEF Grounds
    <3> QED
      BY <1>1, <3>1 DEF Has, Owner
  <2>7. (Owner(h) => Owner(h)') /\ (Has(h, "admin") => Has(h, "admin")')
    BY <1>2, <2>3, HeldGrows
  <2>8. Found(h)'
    <3> HIDE DEF r, Has, Owner
    <3>1. CASE h[2] = "GROUP_ADD_MEMBER"
      BY <1>2, <2>1, <2>2, <2>6, <2>7, <3>1 DEF ActorMay, Found, Has
    <3>2. CASE h[2] \in {"GROUP_UPDATE_ROLE", "GROUP_DELETE"}
      BY <2>1, <2>2, <2>6, <2>7, <3>2 DEF ActorMay, Found
    <3>3. CASE h[2] = "GROUP_REMOVE_MEMBER"
      BY <1>2, <2>1, <2>2, <2>4, <2>6, <2>7, <3>3 DEF ActorMay, Found
    <3> QED
      BY <2>5, <3>1, <3>2, <3>3
  <2> QED
    BY <1>1, <2>2, <2>8, MovedAuthorised
<1>6. CASE GetTarget(h) /\ ~Answer(h)
  <2> DEFINE r == members[handler[h].conv][handler[h].target]
             next == AfterTarget(h[2], handler[h], r)
  <2>1. next # "idle" /\ Proceed(h, next) /\ handler[h].pc = "getTarget"
    BY <1>6 DEF GetTarget
  <2> HIDE DEF next
  <2>2. /\ handler'[h].pc = next /\ handler'[h].actorRole = handler[h].actorRole
        /\ handler'[h].actor = handler[h].actor /\ handler'[h].target = handler[h].target
        /\ handler'[h].role = handler[h].role
    BY <1>0, <2>1, Proceeded
  <2>3. handler'[h] # Idle
    BY <2>1, <2>2 DEF Idle
  <2>4. r \in Roles \cup {None}
    BY <1>0 DEF TypeOK, Request
  <2>5. h[2] \in {"GROUP_ADD_MEMBER", "GROUP_REMOVE_MEMBER", "GROUP_UPDATE_ROLE", "GROUP_LEAVE"}
    BY <1>0, <2>1 DEF StepsOf, AllSubjects
  <2>6. /\ Owner(h) => Owner(h)' /\ Has(h, "admin")' /\ Has(h, "member")'
        /\ Has(h, "admin") => Has(h, "admin")'
        /\ Has(h, "member") => Has(h, "member")'
    BY <1>2, <2>3, HeldGrows DEF Has
  <2>7. h[2] = "GROUP_REMOVE_MEMBER" /\ r = "member" => Has(h, "member")
    BY <1>1 DEF Grounds
  <2>8. Found(h)'
    <3> HIDE DEF r, Has, Owner
    <3>1. CASE h[2] = "GROUP_ADD_MEMBER"
      BY <1>1, <2>1, <2>2, <2>6, <3>1 DEF AfterTarget, Found, next
    <3>2. CASE h[2] = "GROUP_UPDATE_ROLE"
      BY <1>1, <2>1, <2>2, <2>6, <3>2 DEF AfterTarget, Found, next
    <3>3. CASE h[2] = "GROUP_REMOVE_MEMBER"
      <4>1. CASE handler[h].actor # handler[h].target
        BY <1>1, <1>2, <2>1, <2>2, <2>4, <2>6, <2>7, <3>3, <4>1 DEF AfterTarget, Found, next
      <4>2. CASE handler[h].actor = handler[h].target
        BY <2>2, <3>3, <4>2 DEF Found
      <4> QED
        BY <4>1, <4>2
    <3>4. CASE h[2] = "GROUP_LEAVE"
      BY <3>4 DEF Found
    <3> QED
      BY <2>5, <3>1, <3>2, <3>3, <3>4
  <2> QED
    BY <1>1, <2>2, <2>8, MovedAuthorised
<1>7. CASE CountOwners(h) /\ ~Answer(h)
  <2> DEFINE next == IF h[2] = "GROUP_UPDATE_ROLE" THEN "updateRole" ELSE "deleteMember"
  <2>1. Proceed(h, next) /\ handler[h].pc = "countOwners"
    BY <1>7 DEF CountOwners
  <2>2. /\ handler'[h].pc = next /\ handler'[h] # Idle
        /\ handler'[h].actor = handler[h].actor /\ handler'[h].target = handler[h].target
    BY <1>0, <2>1, Proceeded DEF Idle
  <2>3. h[2] \in {"GROUP_REMOVE_MEMBER", "GROUP_UPDATE_ROLE", "GROUP_LEAVE"}
    BY <1>0, <2>1 DEF StepsOf, AllSubjects
  <2>4. /\ Owner(h) => Owner(h)'
        /\ Has(h, "admin") => Has(h, "admin")'
        /\ Has(h, "member") => Has(h, "member")'
    BY <1>2, <2>2, HeldGrows
  <2>5. Found(h)'
    <3> HIDE DEF Has, Owner
    <3> QED
      BY <1>1, <2>1, <2>2, <2>3, <2>4 DEF Found
  <2> QED
    BY <1>1, <2>2, <2>5, MovedAuthorised
<1> QED
  BY <1>3, <1>4, <1>5, <1>6, <1>7

LEMMA WriteAuthorised ==
    ASSUME TypeOK, AuthorityInv, Observe, NEW h \in Handlers,
           \/ CreateConversation(h) \/ CreateMember(h) \/ UpdateRole(h) \/ DeleteMember(h)
           \/ DeleteConversation(h) \/ DeleteMembers(h) \/ Compensate(h)
           \/ FailedCall(h) \/ LostAnswer(h)
    PROVE  Authorised(h)'
<1>0. /\ h[2] \in AllSubjects
      /\ handler[h] # Idle /\ handler[h] \in Request
      /\ handler[h].pc \in StepsOf(h[2])
  <2>1. handler[h] # Idle
    BY DEF CreateConversation, CreateMember, UpdateRole, DeleteMember, DeleteConversation,
           DeleteMembers, Compensate, FailedCall, LostAnswer, Idle
  <2> QED
    BY <2>1, HandlerSubject DEF TypeOK
<1>1. /\ Found(h)
      /\ h[2] \in {"GROUP_CREATE", "GROUP_LEAVE"} => handler[h].actor = handler[h].target
  BY <1>0 DEF AuthorityInv, Authorised
<1>2. CASE Answer(h)
  BY <1>2, AnswerAuthorised
<1>3. CASE h[2] = "GROUP_CREATE" /\ ~Answer(h)
  <2>1. /\ handler'[h].actor = handler[h].actor /\ handler'[h].target = handler[h].target
    <3>1. \/ Proceed(h, "compensate")
          \/ CreateConversation(h)
          \/ Proceed(h, "deleteMembers")
      BY <1>3
         DEF CreateMember, UpdateRole, DeleteMember, DeleteConversation, DeleteMembers,
             Compensate, FailedCall, LostAnswer, InsertFails
    <3>2. CASE CreateConversation(h)
      <4>1. PICK c \in Convs :
                handler' = [handler EXCEPT ![h].conv = c, ![h].pc = "createMember"]
        BY <1>3, <3>2 DEF CreateConversation
      <4> QED
        BY <1>0, <4>1 DEF TypeOK, Request
    <3> QED
      BY <1>0, <3>1, <3>2, Proceeded
  <2>2. Found(h)'
    BY <1>3 DEF Found
  <2> QED
    BY <1>1, <1>3, <2>1, <2>2, MovedAuthorised
<1>4. CASE h[2] # "GROUP_CREATE" /\ ~Answer(h)
  <2>1. DeleteConversation(h) /\ Proceed(h, "deleteMembers") /\ MarkDeleted(handler[h].conv)
    BY <1>0, <1>4
       DEF CreateConversation, CreateMember, UpdateRole, DeleteMember, DeleteConversation,
           DeleteMembers, Compensate, FailedCall, LostAnswer, InsertFails, StepsOf, AllSubjects
  <2>2. h[2] = "GROUP_DELETE" /\ handler[h].conv \in Convs
    BY <1>0, <2>1, BusyHandler DEF DeleteConversation, StepsOf, AllSubjects
  <2>3. /\ handler'[h].pc = "deleteMembers" /\ handler'[h].conv = handler[h].conv
        /\ handler'[h] # Idle
    BY <1>0, <2>1, Proceeded DEF Idle
  <2>4. Owner(h)'
    BY <1>1, <2>1, <2>2, <2>3, HeldGrows DEF Found, DeleteConversation
  <2>5. conversations'[handler[h].conv] = "deleted"
    BY <2>1, <2>2 DEF MarkDeleted, TypeOK
  <2>6. Found(h)'
    BY <2>2, <2>3, <2>4, <2>5 DEF Found
  <2> QED
    BY <2>2, <2>6, MovedAuthorised
<1> QED
  BY <1>2, <1>3, <1>4

LEMMA OneHandlerMoves ==
    ASSUME TypeOK, NEW h \in Handlers, NEW g \in Handlers, g # h,
           Receive(h) \/ Call(h) \/ FailedCall(h) \/ LostAnswer(h)
    PROVE  handler'[g] = handler[g]
BY DEF TypeOK, Receive, Call, FailedCall, LostAnswer, GetConversation, GetActor, GetTarget,
       CountOwners, CreateConversation, CreateMember, UpdateRole, DeleteMember,
       DeleteConversation, DeleteMembers, Compensate, InsertFails, Answer, Proceed

LEMMA HandlerLeavesDeleted ==
    ASSUME TypeOK, NEW h \in Handlers,
           Receive(h) \/ Call(h) \/ FailedCall(h) \/ LostAnswer(h)
    PROVE  DeletedStays
BY DEF TypeOK, DeletedStays, Receive, Call, FailedCall, LostAnswer, GetConversation, GetActor,
       GetTarget, CountOwners, CreateConversation, CreateMember, UpdateRole, DeleteMember,
       DeleteConversation, DeleteMembers, Compensate, InsertConversation, InsertMember, MarkDeleted

LEMMA CrashAuthorised ==
    ASSUME TypeOK, AuthorityInv, Observe, NEW r \in Replicas, Crash(r), NEW h \in Handlers
    PROVE  Authorised(h)'
<1>1. CASE handler'[h] = Idle
  BY <1>1 DEF Authorised
<1>2. CASE handler'[h] # Idle
  <2>1. h[1] # r /\ handler'[h] = handler[h]
    BY <1>2 DEF Crash
  <2>2. Storage # "memory"
    BY <2>1, HandlerSubject, ConstantsAssumption DEF ConstantsAssumption
  <2>3. DeletedStays
    BY <2>2 DEF Crash, DeletedStays
  <2> QED
    BY <2>1, <2>3, StaysAuthorised
<1> QED
  BY <1>1, <1>2

LEMMA AuthorityInit == Init /\ held = [h \in Handlers |-> {}] => AuthorityInv
BY DEF Init, AuthorityInv, Authorised

LEMMA AuthorityStep ==
    ASSUME TypeOK, AuthorityInv, [Next /\ Observe]_observed
    PROVE  AuthorityInv'
<1>1. CASE UNCHANGED observed
  BY <1>1 DEF observed, vars, AuthorityInv, Authorised, Found, Grounds, Has, Owner
<1>2. CASE Next /\ Observe
  <2>1. ASSUME NEW g \in Handlers, Receive(g) \/ Call(g) \/ FailedCall(g) \/ LostAnswer(g),
               NEW h \in Handlers
        PROVE  Authorised(h)'
    <3>1. CASE h = g
      BY <1>2, <2>1, <3>1, ReceiveAuthorised, ReadAuthorised, WriteAuthorised DEF Call
    <3>2. CASE h # g
      BY <1>2, <2>1, <3>2, OneHandlerMoves, HandlerLeavesDeleted, StaysAuthorised
    <3> QED
      BY <3>1, <3>2
  <2>2. \A h \in Handlers : Authorised(h)'
    BY <1>2, <2>1, CrashAuthorised DEF Next
  <2>3. held' \in [Handlers -> SUBSET Roles]
    BY <1>2, HeldTyped
  <2> QED
    BY <2>2, <2>3 DEF AuthorityInv
<1> QED
  BY <1>1, <1>2

-----------------------------------------------------------------------------
(* What it means for a change of a membership                              *)

(* An addition, by its request or by a creation. *)
LEMMA InsertGranted ==
    ASSUME TypeOK, AuthorityInv, NEW h \in Handlers, handler[h].pc = "createMember",
           Insertable(handler[h].conv, handler[h].target),
           InsertMember(handler[h].conv, handler[h].target, handler[h].role),
           NEW c \in Convs, NEW u \in Users, members'[c][u] # members[c][u]
    PROVE  MayWrite(h, c, u, members'[c][u])
<1>1. /\ h[2] \in {"GROUP_CREATE", "GROUP_ADD_MEMBER"}
      /\ handler[h] # Idle /\ handler[h].conv \in Convs /\ handler[h].target \in Users
      /\ handler[h].role \in RolesOf(h[2])
  BY BusyHandler, HandlerSubject DEF StepsOf, AllSubjects, Request, Idle
<1>2. /\ c = handler[h].conv /\ u = handler[h].target /\ members'[c][u] = handler[h].role
      /\ members[c][u] = None
  BY <1>1 DEF InsertMember, Insertable, TypeOK
<1>3. Found(h) /\ (h[2] = "GROUP_CREATE" => handler[h].actor = handler[h].target)
  BY <1>1 DEF AuthorityInv, Authorised
<1> QED
  BY <1>1, <1>2, <1>3 DEF MayWrite, Found, Owner, Has, RolesOf

(* A change of a role, a removal or a departure. *)
LEMMA RoleGranted ==
    ASSUME TypeOK, AuthorityInv, NEW h \in Handlers, UpdateRole(h) \/ DeleteMember(h),
           NEW c \in Convs, NEW u \in Users, members'[c][u] # members[c][u]
    PROVE  MayWrite(h, c, u, members'[c][u])
<1>1. /\ handler[h] # Idle /\ handler[h].conv \in Convs /\ handler[h].target \in Users
      /\ handler[h].pc \in StepsOf(h[2]) /\ h[2] \in AllSubjects
  BY BusyHandler, HandlerSubject DEF UpdateRole, DeleteMember, Request, Idle
<1>2. c = handler[h].conv /\ u = handler[h].target /\ members[c][u] # None
  BY <1>1 DEF UpdateRole, DeleteMember, WriteRole, TypeOK
<1>3. Found(h) /\ (h[2] = "GROUP_LEAVE" => handler[h].actor = handler[h].target)
  BY <1>1 DEF AuthorityInv, Authorised
<1>4. CASE UpdateRole(h)
  <2>1. h[2] = "GROUP_UPDATE_ROLE" /\ members'[c][u] = handler[h].role
    BY <1>1, <1>2, <1>4 DEF UpdateRole, WriteRole, TypeOK, StepsOf, AllSubjects
  <2> QED
    BY <1>2, <1>3, <1>4, <2>1 DEF MayWrite, Found, Owner, UpdateRole
<1>5. CASE DeleteMember(h)
  <2>1. h[2] \in {"GROUP_REMOVE_MEMBER", "GROUP_LEAVE"} /\ members'[c][u] = None
    BY <1>1, <1>2, <1>5 DEF DeleteMember, WriteRole, TypeOK, StepsOf, AllSubjects
  <2> QED
    BY <1>2, <1>3, <1>5, <2>1 DEF MayWrite, Found, Owner, Has, DeleteMember
<1> QED
  BY <1>4, <1>5

(* A deletion, whose conversation is gone for good by then. *)
LEMMA DeletionGranted ==
    ASSUME TypeOK, AuthorityInv, NEW h \in Handlers, DeleteMembers(h),
           NEW c \in Convs, NEW u \in Users, members'[c][u] # members[c][u]
    PROVE  MayWrite(h, c, u, members'[c][u])
<1>1. /\ handler[h] # Idle /\ handler[h].conv \in Convs /\ h[2] = "GROUP_DELETE"
  BY BusyHandler, HandlerSubject DEF DeleteMembers, StepsOf, AllSubjects, Idle
<1>2. c = handler[h].conv /\ members'[c][u] = None
  BY <1>1 DEF DeleteMembers, TypeOK
<1>3. Found(h)
  BY <1>1 DEF AuthorityInv, Authorised
<1> QED
  BY <1>1, <1>2, <1>3 DEF MayWrite, Found, Owner, DeleteMembers

(* Whatever overlaps, a membership is changed only for an actor who has    *)
(* had the authority for that change since its request arrived. A process  *)
(* of the memory build that stops takes its memberships with it: the       *)
(* theorem is about those that do not.                                     *)
THEOREM ChangesAuthorised ==
    ASSUME Storage = "memory" => "crash" \notin Faults
    PROVE  ObservedSpec => GrantsAuthorised
<1> DEFINE Granted == \A c \in Convs, u \in Users :
         members'[c][u] # members[c][u] => \E h \in Handlers : MayWrite(h, c, u, members'[c][u])
<1>1. Init /\ held = [h \in Handlers |-> {}] => AuthorityInv
  BY AuthorityInit
<1>2. TypeOK /\ AuthorityInv /\ [Next /\ Observe]_observed => AuthorityInv'
  BY AuthorityStep
<1>3. TypeOK /\ AuthorityInv /\ Next => Granted
  <2> SUFFICES ASSUME TypeOK, AuthorityInv, Next, NEW c \in Convs, NEW u \in Users,
                      members'[c][u] # members[c][u]
               PROVE  \E h \in Handlers : MayWrite(h, c, u, members'[c][u])
    OBVIOUS
  <2>1. \A r \in Replicas : ~Crash(r)
    BY DEF Crash
  <2>2. PICK h \in Handlers : Receive(h) \/ Call(h) \/ FailedCall(h) \/ LostAnswer(h)
    BY <2>1 DEF Next
  <2>3. \/ CreateMember(h) \/ UpdateRole(h) \/ DeleteMember(h) \/ DeleteMembers(h)
        \/ LostAnswer(h)
    BY <2>2 DEF Receive, Call, FailedCall, GetConversation, GetActor, GetTarget, CountOwners,
                CreateConversation, DeleteConversation, Compensate, InsertConversation, MarkDeleted
  <2>4. CASE CreateMember(h) \/ LostAnswer(h)
    <3>1. /\ handler[h].pc = "createMember"
          /\ Insertable(handler[h].conv, handler[h].target)
          /\ InsertMember(handler[h].conv, handler[h].target, handler[h].role)
      BY <2>4 DEF CreateMember, LostAnswer, InsertConversation, MarkDeleted
    <3> QED
      BY <3>1, InsertGranted
  <2> QED
    BY <2>3, <2>4, RoleGranted, DeletionGranted
<1>4. TypeOK /\ AuthorityInv /\ [Next /\ Observe]_observed => [Granted]_observed
  BY <1>3
<1>5. [Next /\ Observe]_observed => [Next]_vars
  BY DEF observed
<1>6. [][Granted]_observed <=> GrantsAuthorised
  BY DEF GrantsAuthorised
<1> QED
  BY <1>1, <1>2, <1>4, <1>5, <1>6, TypeCorrect, PTL DEF Spec, ObservedSpec

=============================================================================
