------------------------- MODULE ConversationsProofs -------------------------
(* Theorems about Conversations, for every set of users, conversations and *)
(* replicas and every number of requests in flight.                        *)
EXTENDS Conversations, FiniteSetTheorems, TLAPS

-----------------------------------------------------------------------------
(* Moving a handler keeps the handlers well typed.                         *)

LEMMA BusyHandler ==
    ASSUME TypeOK, NEW h \in Handlers, handler[h].pc # "idle"
    PROVE  /\ handler[h] \in Request
           /\ handler[h].pc \in StepsOf(h[2])
           /\ handler[h].pc # "createConversation" => handler[h].conv \in Convs
           /\ handler[h].role \in RolesOf(h[2])
BY DEF TypeOK, Idle

LEMMA StepsAreSteps ==
    ASSUME NEW subject \in AllSubjects
    PROVE  /\ StepsOf(subject) \subseteq Steps
           /\ RolesOf(subject) \subseteq Roles \cup {None}
BY DEF StepsOf, RolesOf, Steps, AllSubjects, Roles, None

LEMMA HandlerSubject ==
    ASSUME NEW h \in Handlers
    PROVE  h[2] \in AllSubjects /\ h[1] \in Replicas
BY ConstantsAssumption DEF Handlers, ConstantsAssumption

(* What remains to be shown of a step that moves one handler: that the     *)
(* request it is left with is one its subject allows.                      *)
LEMMA HandlerTyped ==
    ASSUME TypeOK, NEW h \in Handlers, NEW q \in Request \cup {Idle},
           handler' = [handler EXCEPT ![h] = q],
           \/ q = Idle
           \/ /\ q.pc \in StepsOf(h[2])
              /\ q.pc # "createConversation" => q.conv \in Convs
              /\ q.role \in RolesOf(h[2]),
           conversations' \in [Convs -> {"absent", "live", "deleted"}],
           members' \in [Convs -> [Users -> Roles \cup {None}]]
    PROVE  TypeOK'
BY DEF TypeOK

LEMMA AnswerTyped ==
    ASSUME TypeOK, NEW h \in Handlers, Answer(h),
           conversations' \in [Convs -> {"absent", "live", "deleted"}],
           members' \in [Convs -> [Users -> Roles \cup {None}]]
    PROVE  TypeOK'
BY HandlerTyped DEF Answer

LEMMA ProceedTyped ==
    ASSUME TypeOK, NEW h \in Handlers, handler[h].pc # "idle",
           handler[h].pc # "createConversation",
           NEW step \in StepsOf(h[2]), step # "createConversation", Proceed(h, step),
           conversations' \in [Convs -> {"absent", "live", "deleted"}],
           members' \in [Convs -> [Users -> Roles \cup {None}]]
    PROVE  TypeOK'
<1> DEFINE q == [handler[h] EXCEPT !.pc = step]
<1>1. step \in Steps
  BY StepsAreSteps, HandlerSubject
<1>2. handler[h] \in Request /\ handler[h].conv \in Convs /\ handler[h].role \in RolesOf(h[2])
  BY BusyHandler
<1>3. q \in Request /\ q.pc = step /\ q.conv \in Convs /\ q.role \in RolesOf(h[2])
  BY <1>1, <1>2 DEF Request
<1>4. handler' = [handler EXCEPT ![h] = q]
  BY DEF Proceed
<1> QED
  BY <1>3, <1>4, HandlerTyped

LEMMA TablesTyped ==
    ASSUME TypeOK, NEW c \in Convs, NEW u \in Users, NEW role \in Roles \cup {None}
    PROVE  /\ [conversations EXCEPT ![c] = "live"] \in [Convs -> {"absent", "live", "deleted"}]
           /\ [conversations EXCEPT ![c] = "deleted"] \in [Convs -> {"absent", "live", "deleted"}]
           /\ [members EXCEPT ![c][u] = role] \in [Convs -> [Users -> Roles \cup {None}]]
           /\ [members EXCEPT ![c] = [v \in Users |-> None]]
                  \in [Convs -> [Users -> Roles \cup {None}]]
BY DEF TypeOK

LEMMA ReceiveTyped == ASSUME TypeOK, NEW h \in Handlers, Receive(h) PROVE TypeOK'
<1> PICK actor \in Users, conv \in ConvsOf(h[2]), role \in RolesOf(h[2]) :
         \E target \in TargetsOf(h[2], actor) :
         handler' = [handler EXCEPT ![h] =
                       [pc |-> FirstStep(h[2], actor, target), actor |-> actor,
                        conv |-> conv, target |-> target, role |-> role,
                        actorRole |-> None]]
  BY DEF Receive
<1> PICK target \in TargetsOf(h[2], actor) :
         handler' = [handler EXCEPT ![h] =
                       [pc |-> FirstStep(h[2], actor, target), actor |-> actor,
                        conv |-> conv, target |-> target, role |-> role,
                        actorRole |-> None]]
  OBVIOUS
<1> DEFINE q == [pc |-> FirstStep(h[2], actor, target), actor |-> actor,
                 conv |-> conv, target |-> target, role |-> role, actorRole |-> None]
<1>1. h[2] \in AllSubjects
  BY HandlerSubject
<1>2. target \in Users /\ conv \in Convs \cup {None}
  BY DEF TargetsOf, ConvsOf
<1>3. FirstStep(h[2], actor, target) \in StepsOf(h[2])
  BY <1>1 DEF FirstStep, StepsOf, AllSubjects
<1>4. FirstStep(h[2], actor, target) # "createConversation" => conv \in Convs
  BY DEF FirstStep, ConvsOf
<1>5. q \in Request
  BY <1>1, <1>2, <1>3, StepsAreSteps DEF Request
<1> QED
  BY <1>3, <1>4, <1>5, HandlerTyped DEF Receive, TypeOK

LEMMA ReadTyped ==
    ASSUME TypeOK, NEW h \in Handlers,
           GetConversation(h) \/ GetActor(h) \/ GetTarget(h) \/ CountOwners(h)
    PROVE  TypeOK'
<1> USE DEF TypeOK
<1>0. h[2] \in AllSubjects
  BY HandlerSubject
<1>1. CASE GetConversation(h)
  <2>1. CASE Answer(h)
    BY <1>1, <2>1, AnswerTyped DEF GetConversation
  <2>2. CASE Proceed(h, "getActor")
    <3>1. "getActor" \in StepsOf(h[2])
      BY <1>0, <1>1, BusyHandler DEF GetConversation, StepsOf, AllSubjects
    <3> QED
      BY <1>1, <2>2, <3>1, ProceedTyped DEF GetConversation
  <2> QED
    BY <1>1, <2>1, <2>2 DEF GetConversation
<1>2. CASE GetActor(h)
  <2>1. CASE Answer(h)
    BY <1>2, <2>1, AnswerTyped DEF GetActor
  <2>2. CASE ~Answer(h)
    <3> DEFINE next == IF h[2] = "GROUP_DELETE" THEN "deleteConversation" ELSE "getTarget"
               r == members[handler[h].conv][handler[h].actor]
               q == [handler[h] EXCEPT !.actorRole = r, !.pc = next]
    <3>1. /\ handler[h] \in Request /\ handler[h].conv \in Convs
          /\ handler[h].role \in RolesOf(h[2])
          /\ "getActor" \in StepsOf(h[2])
      BY <1>2, BusyHandler DEF GetActor
    <3>2. next \in StepsOf(h[2]) /\ next \in Steps
      BY <1>0, <3>1 DEF StepsOf, Steps, AllSubjects
    <3>3. r \in Roles \cup {None}
      BY <3>1 DEF Request
    <3>4. q \in Request /\ q.pc = next /\ q.conv \in Convs /\ q.role \in RolesOf(h[2])
      BY <3>1, <3>2, <3>3 DEF Request
    <3>5. handler' = [handler EXCEPT ![h] = q]
      BY <1>2, <2>2 DEF GetActor
    <3> QED
      BY <1>2, <3>2, <3>4, <3>5, HandlerTyped DEF GetActor
  <2> QED
    BY <2>1, <2>2
<1>3. CASE GetTarget(h)
  <2> DEFINE next == AfterTarget(h[2], handler[h], members[handler[h].conv][handler[h].target])
  <2>1. CASE Answer(h)
    BY <1>3, <2>1, AnswerTyped DEF GetTarget
  <2>2. CASE next # "idle" /\ Proceed(h, next)
    <3>1. next \in StepsOf(h[2]) /\ next # "createConversation"
      BY <1>0, <1>3, <2>2, BusyHandler DEF GetTarget, AfterTarget, StepsOf, AllSubjects
    <3> HIDE DEF next
    <3> QED
      BY <1>3, <2>2, <3>1, ProceedTyped DEF GetTarget
  <2> QED
    BY <1>3, <2>1, <2>2 DEF GetTarget
<1>4. CASE CountOwners(h)
  <2> DEFINE next == IF h[2] = "GROUP_UPDATE_ROLE" THEN "updateRole" ELSE "deleteMember"
  <2>1. CASE Answer(h)
    BY <1>4, <2>1, AnswerTyped DEF CountOwners
  <2>2. CASE Proceed(h, next)
    <3>1. next \in StepsOf(h[2]) /\ next # "createConversation"
      BY <1>0, <1>4, BusyHandler DEF CountOwners, StepsOf, AllSubjects
    <3> HIDE DEF next
    <3> QED
      BY <1>4, <2>2, <3>1, ProceedTyped DEF CountOwners
  <2> QED
    BY <1>4, <2>1, <2>2 DEF CountOwners
<1> QED
  BY <1>1, <1>2, <1>3, <1>4

LEMMA WriteTyped ==
    ASSUME TypeOK, NEW h \in Handlers,
           \/ CreateConversation(h) \/ CreateMember(h) \/ UpdateRole(h) \/ DeleteMember(h)
           \/ DeleteConversation(h) \/ DeleteMembers(h) \/ Compensate(h)
    PROVE  TypeOK'
<1>0. /\ h[2] \in AllSubjects
      /\ conversations \in [Convs -> {"absent", "live", "deleted"}]
      /\ members \in [Convs -> [Users -> Roles \cup {None}]]
  BY HandlerSubject DEF TypeOK
<1>1. CASE CreateConversation(h)
  <2>1. CASE Answer(h) /\ UNCHANGED <<conversations, members>>
    BY <1>0, <2>1, AnswerTyped
  <2>2. ASSUME NEW c \in Convs, InsertConversation(c),
               handler' = [handler EXCEPT ![h].conv = c, ![h].pc = "createMember"]
        PROVE  TypeOK'
    <3> DEFINE q == [handler[h] EXCEPT !.conv = c, !.pc = "createMember"]
    <3>1. /\ handler[h] \in Request /\ handler[h].role \in RolesOf(h[2])
          /\ "createConversation" \in StepsOf(h[2])
      BY <1>1, BusyHandler DEF CreateConversation
    <3>2. "createMember" \in StepsOf(h[2])
      BY <1>0, <3>1 DEF StepsOf, AllSubjects
    <3>3. q \in Request /\ q.pc = "createMember" /\ q.conv \in Convs /\ q.role \in RolesOf(h[2])
      BY <3>1 DEF Request, Steps
    <3>4. handler' = [handler EXCEPT ![h] = q]
      BY <2>2
    <3>5. conversations' \in [Convs -> {"absent", "live", "deleted"}] /\ UNCHANGED members
      BY <1>0, <2>2 DEF InsertConversation
    <3> HIDE DEF q
    <3> QED
      BY <1>0, <3>2, <3>3, <3>4, <3>5, HandlerTyped
  <2> QED
    BY <1>1, <2>1, <2>2 DEF CreateConversation
<1>2. CASE CreateMember(h)
  <2>1. /\ handler[h] \in Request /\ handler[h].conv \in Convs
        /\ handler[h].role \in RolesOf(h[2]) /\ "createMember" \in StepsOf(h[2])
    BY <1>2, BusyHandler DEF CreateMember
  <2>2. handler[h].role \in Roles /\ handler[h].target \in Users
    BY <1>0, <2>1 DEF StepsOf, RolesOf, AllSubjects, Request, Roles
  <2>3. members' \in [Convs -> [Users -> Roles \cup {None}]] /\ UNCHANGED conversations
    <3>1. [members EXCEPT ![handler[h].conv][handler[h].target] = handler[h].role]
              \in [Convs -> [Users -> Roles \cup {None}]]
      BY <2>1, <2>2, TablesTyped
    <3> QED
      BY <1>0, <1>2, <3>1 DEF CreateMember, InsertMember
  <2>4. CASE Answer(h)
    BY <1>0, <2>3, <2>4, AnswerTyped
  <2>5. CASE InsertFails(h) /\ h[2] = "GROUP_CREATE"
    <3>1. "compensate" \in StepsOf(h[2])
      BY <2>5 DEF StepsOf
    <3> QED
      BY <1>0, <1>2, <2>3, <2>5, <3>1, ProceedTyped DEF InsertFails, CreateMember
  <2> QED
    BY <1>2, <2>4, <2>5 DEF CreateMember, InsertFails
<1>3. CASE UpdateRole(h) \/ DeleteMember(h)
  <2>1. handler[h] \in Request /\ handler[h].conv \in Convs
    BY <1>3, BusyHandler DEF UpdateRole, DeleteMember
  <2>2. handler[h].role \in Roles \cup {None} /\ handler[h].target \in Users
    BY <2>1 DEF Request
  <2>3. \A role \in Roles \cup {None} :
           [members EXCEPT ![handler[h].conv][handler[h].target] = role]
               \in [Convs -> [Users -> Roles \cup {None}]]
    BY <2>1, <2>2, TablesTyped
  <2>4. members' \in [Convs -> [Users -> Roles \cup {None}]]
    BY <1>0, <1>3, <2>2, <2>3 DEF UpdateRole, DeleteMember, WriteRole
  <2> QED
    BY <1>0, <1>3, <2>4, AnswerTyped DEF UpdateRole, DeleteMember
<1>4. CASE DeleteConversation(h)
  <2>1. handler[h].conv \in Convs /\ "deleteConversation" \in StepsOf(h[2])
    BY <1>4, BusyHandler DEF DeleteConversation
  <2>2. CASE MarkDeleted(handler[h].conv) /\ Proceed(h, "deleteMembers")
    <3>1. "deleteMembers" \in StepsOf(h[2])
      BY <1>0, <2>1 DEF StepsOf, AllSubjects
    <3> QED
      BY <1>0, <1>4, <2>1, <2>2, <3>1, ProceedTyped, TablesTyped
         DEF DeleteConversation, MarkDeleted
  <2>3. CASE Answer(h) /\ UNCHANGED <<conversations, members>>
    BY <1>0, <2>3, AnswerTyped
  <2> QED
    BY <1>4, <2>2, <2>3 DEF DeleteConversation
<1>5. CASE DeleteMembers(h)
  <2>1. handler[h].conv \in Convs
    BY <1>5, BusyHandler DEF DeleteMembers
  <2> QED
    BY <1>0, <1>5, <2>1, AnswerTyped, TablesTyped DEF DeleteMembers
<1>6. CASE Compensate(h)
  <2>1. handler[h].conv \in Convs
    BY <1>6, BusyHandler DEF Compensate
  <2> QED
    BY <1>0, <1>6, <2>1, AnswerTyped, TablesTyped DEF Compensate, MarkDeleted
<1> QED
  BY <1>1, <1>2, <1>3, <1>4, <1>5, <1>6

LEMMA FaultTyped ==
    ASSUME TypeOK
    PROVE  /\ \A h \in Handlers : FailedCall(h) \/ LostAnswer(h) => TypeOK'
           /\ \A r \in Replicas : Crash(r) => TypeOK'
<1>0. /\ conversations \in [Convs -> {"absent", "live", "deleted"}]
      /\ members \in [Convs -> [Users -> Roles \cup {None}]]
  BY DEF TypeOK
<1>1. ASSUME NEW h \in Handlers, FailedCall(h) PROVE TypeOK'
  <2>1. CASE Answer(h)
    BY <1>0, <1>1, <2>1, AnswerTyped DEF FailedCall
  <2>2. CASE handler[h].pc = "createMember" /\ h[2] = "GROUP_CREATE"
    <3>1. "compensate" \in StepsOf(h[2])
      BY <2>2 DEF StepsOf
    <3> QED
      BY <1>0, <1>1, <2>2, <3>1, ProceedTyped DEF FailedCall, InsertFails
  <2> QED
    BY <1>1, <2>1, <2>2 DEF FailedCall, InsertFails
<1>2. ASSUME NEW h \in Handlers, LostAnswer(h) PROVE TypeOK'
  <2>1. CASE Answer(h) /\ \E c \in Convs : InsertConversation(c)
    BY <1>0, <2>1, AnswerTyped, TablesTyped DEF InsertConversation
  <2>2. CASE /\ handler[h].pc = "deleteConversation"
             /\ Answer(h) /\ MarkDeleted(handler[h].conv)
    <3>1. handler[h].conv \in Convs
      BY <2>2, BusyHandler
    <3> QED
      BY <1>0, <2>2, <3>1, AnswerTyped, TablesTyped DEF MarkDeleted
  <2>3. CASE /\ handler[h].pc = "createMember" /\ h[2] = "GROUP_CREATE"
             /\ InsertMember(handler[h].conv, handler[h].target, handler[h].role)
             /\ Proceed(h, "compensate")
    <3>1. handler[h] \in Request /\ handler[h].conv \in Convs
      BY <2>3, BusyHandler
    <3>2. "compensate" \in StepsOf(h[2])
      BY <2>3 DEF StepsOf
    <3>3. handler[h].target \in Users /\ handler[h].role \in Roles \cup {None}
      BY <3>1 DEF Request
    <3> QED
      BY <1>0, <2>3, <3>1, <3>2, <3>3, ProceedTyped, TablesTyped DEF InsertMember
  <2> QED
    BY <1>2, <2>1, <2>2, <2>3 DEF LostAnswer
<1>3. ASSUME NEW r \in Replicas, Crash(r) PROVE TypeOK'
  BY <1>3 DEF Crash, TypeOK
<1> QED
  BY <1>1, <1>2, <1>3

(* Every value stays in its type: in particular a handler never makes a    *)
(* call that its subject's code does not contain, and never reaches a      *)
(* table with a conversation it was not given.                             *)
THEOREM TypeCorrect == Spec => []TypeOK
<1>1. Init => TypeOK
  BY DEF Init, TypeOK
<1>2. TypeOK /\ [Next]_vars => TypeOK'
  <2> SUFFICES ASSUME TypeOK, [Next]_vars PROVE TypeOK'
    OBVIOUS
  <2>1. CASE UNCHANGED vars
    BY <2>1 DEF vars, TypeOK
  <2>2. ASSUME NEW h \in Handlers, Receive(h) \/ Call(h) \/ FailedCall(h) \/ LostAnswer(h)
        PROVE  TypeOK'
    BY <2>2, ReceiveTyped, ReadTyped, WriteTyped, FaultTyped DEF Call
  <2>3. ASSUME NEW r \in Replicas, Crash(r) PROVE TypeOK'
    BY <2>3, FaultTyped
  <2> QED
    BY <2>1, <2>2, <2>3 DEF Next
<1> QED
  BY <1>1, <1>2, PTL DEF Spec

-----------------------------------------------------------------------------
(* The last-owner guard.                                                   *)

(* A handler has found its request entitled in its conversation: what is   *)
(* left are the checks of the target and the writes.                       *)
Entitled(h) ==
    \/ handler[h].pc \in {"createMember", "countOwners", "updateRole", "deleteMember"}
    \/ handler[h].pc = "getTarget" /\ h[2] = "GROUP_ADD_MEMBER"

(* What a handler knows of the tables at each of its calls.  Nobody is     *)
(* entitled in a row that does not exist; an addition is carried out where *)
(* there is an owner; a reducer's target is still a member and, once the   *)
(* guard is passed, not the only owner; memberships are deleted after      *)
(* their conversation, never before.                                       *)
HandlerKnows(h) ==
    LET q == handler[h]
        c == handler[h].conv
    IN /\ Entitled(h) => conversations[c] # "absent"
       /\ h[2] = "GROUP_ADD_MEMBER" /\ Entitled(h) /\ conversations[c] = "live"
             => \E u \in Users : members[c][u] = "owner"
       /\ q.pc \in {"countOwners", "updateRole", "deleteMember"} /\ conversations[c] = "live"
             => members[c][q.target] # None
       /\ /\ q.pc \in {"updateRole", "deleteMember"} /\ conversations[c] = "live"
          /\ members[c][q.target] = "owner"
          => \E u \in Users \ {q.target} : members[c][u] = "owner"
       /\ q.pc = "deleteMembers" => conversations[c] = "deleted"

(* What the tables satisfy. *)
TablesOK ==
    \A c \in Convs :
        /\ conversations[c] = "absent" => \A u \in Users : members[c][u] = None
        /\ conversations[c] = "live" /\ (\E u \in Users : members[c][u] # None)
               => \E u \in Users : members[c][u] = "owner"

OwnerInv == TypeOK /\ TablesOK /\ \A h \in Handlers : HandlerKnows(h)

(* The step keeps an owner where there was one.                            *)
KeepsOwners ==
    \A c \in Convs : /\ conversations[c] = "live" /\ conversations'[c] = "live"
                     /\ \E u \in Users : members[c][u] = "owner"
                     => \E u \in Users : members'[c][u] = "owner"

(* The changes the calls make to the tables, and what each of them does to *)
(* TablesOK and to what the other handlers know.                           *)
TablesStep(h) ==
    /\ TablesOK'
    /\ KeepsOwners
    /\ \A g \in Handlers \ {h} : HandlerKnows(g)'

LEMMA SameTables ==
    ASSUME OwnerInv, NEW h \in Handlers, UNCHANGED <<conversations, members>>,
           \A g \in Handlers \ {h} : handler'[g] = handler[g]
    PROVE  TablesStep(h)
BY DEF OwnerInv, TablesOK, HandlerKnows, Entitled, TablesStep, KeepsOwners

LEMMA RowInserted ==
    ASSUME OwnerInv, NEW h \in Handlers, NEW c \in Convs, InsertConversation(c),
           \A g \in Handlers \ {h} : handler'[g] = handler[g]
    PROVE  TablesStep(h)
<1>1. TablesOK' /\ KeepsOwners
  BY DEF OwnerInv, TypeOK, TablesOK, InsertConversation, KeepsOwners, None
<1>2. ASSUME NEW g \in Handlers \ {h} PROVE HandlerKnows(g)'
  BY DEF OwnerInv, TypeOK, HandlerKnows, Entitled, InsertConversation
<1> QED
  BY <1>1, <1>2 DEF TablesStep

LEMMA MemberInserted ==
    ASSUME OwnerInv, NEW h \in Handlers, NEW c \in Convs, NEW u \in Users, NEW role \in Roles,
           members[c][u] = None, InsertMember(c, u, role),
           conversations[c] # "absent",
           role = "owner" \/ conversations[c] # "live" \/ \E v \in Users : members[c][v] = "owner",
           \A g \in Handlers \ {h} : handler'[g] = handler[g]
    PROVE  TablesStep(h)
<1>0. /\ members \in [Convs -> [Users -> Roles \cup {None}]]
      /\ members' = [members EXCEPT ![c][u] = role] /\ conversations' = conversations
      /\ \A d \in Convs, v \in Users : members[d][v] = "owner" => members'[d][v] = "owner"
      /\ \A d \in Convs, v \in Users : members[d][v] # None => members'[d][v] = members[d][v]
  BY DEF OwnerInv, TypeOK, InsertMember, None
<1>1. TablesOK' /\ KeepsOwners
  BY <1>0 DEF OwnerInv, TablesOK, KeepsOwners
<1>2. ASSUME NEW g \in Handlers \ {h} PROVE HandlerKnows(g)'
  <2>1. HandlerKnows(g) /\ handler'[g] = handler[g]
    BY DEF OwnerInv
  <2>2. Entitled(g)' = Entitled(g)
    BY <2>1 DEF Entitled
  <2>3. handler[g].pc \in {"countOwners", "updateRole", "deleteMember", "createMember", "getTarget"}
           => handler[g].conv \in Convs /\ handler[g].target \in Users
    BY BusyHandler DEF OwnerInv, Request
  <2> QED
    BY <1>0, <2>1, <2>2, <2>3 DEF HandlerKnows, Entitled
<1> QED
  BY <1>1, <1>2 DEF TablesStep

(* A reducer's write: what the others know of its conversation survives,   *)
(* because the only ones that rely on a membership are reducers.           *)
LEMMA RoleWritten ==
    ASSUME OwnerInv, NoOverlap, NEW h \in Handlers, h \in Reducers,
           NEW role \in Roles \cup {None},
           handler[h].pc \in {"updateRole", "deleteMember"},
           WriteRole(handler[h].conv, handler[h].target, role), UNCHANGED conversations,
           \A g \in Handlers \ {h} : handler'[g] = handler[g]
    PROVE  TablesStep(h)
<1> DEFINE c == handler[h].conv
           t == handler[h].target
<1>0. c \in Convs /\ t \in Users /\ HandlerKnows(h)
  BY BusyHandler DEF OwnerInv, Request
<1>1. /\ members \in [Convs -> [Users -> Roles \cup {None}]]
      /\ members' \in [Convs -> [Users -> Roles \cup {None}]]
      /\ \A d \in Convs, u \in Users : (d # c \/ u # t) => members'[d][u] = members[d][u]
      /\ members[c][t] = None => members'[c][t] = None
  BY <1>0 DEF OwnerInv, TypeOK, WriteRole
<1>2. KeepsOwners
  <2> SUFFICES ASSUME NEW d \in Convs, conversations[d] = "live",
                      NEW u \in Users, members[d][u] = "owner"
               PROVE  \E v \in Users : members'[d][v] = "owner"
    BY DEF KeepsOwners
  <2>1. CASE d # c \/ u # t
    BY <1>1, <2>1
  <2>2. CASE d = c /\ u = t
    <3>1. PICK v \in Users \ {t} : members[c][v] = "owner"
      BY <1>0, <2>2 DEF HandlerKnows
    <3> QED
      BY <1>0, <1>1, <2>2, <3>1
  <2> QED
    BY <2>1, <2>2
<1>3. TablesOK'
  <2> SUFFICES ASSUME NEW d \in Convs
               PROVE  /\ conversations[d] = "absent" => \A u \in Users : members'[d][u] = None
                      /\ conversations[d] = "live" /\ (\E u \in Users : members'[d][u] # None)
                            => \E u \in Users : members'[d][u] = "owner"
    BY DEF TablesOK
  <2>1. \A u \in Users : members'[d][u] # None => members[d][u] # None
    BY <1>0, <1>1
  <2> QED
    BY <1>2, <2>1 DEF OwnerInv, TablesOK, KeepsOwners
<1>4. ASSUME NEW g \in Handlers \ {h} PROVE HandlerKnows(g)'
  <2>1. HandlerKnows(g) /\ handler'[g] = handler[g]
    BY DEF OwnerInv
  <2>2. Entitled(g) => handler[g].conv \in Convs /\ handler[g].target \in Users
    BY BusyHandler DEF Entitled, OwnerInv, Request
  <2>3. CASE handler[g].pc \in {"countOwners", "updateRole", "deleteMember"}
    <3>1. g \in Reducers
      BY <2>3, BusyHandler, HandlerSubject DEF OwnerInv, Reducers, StepsOf, AllSubjects
    <3>2. handler[g].conv # c
      BY <2>3, <3>1 DEF NoOverlap, Idle
    <3>3. members'[handler[g].conv] = members[handler[g].conv]
      BY <1>0, <2>2, <2>3, <3>2 DEF OwnerInv, TypeOK, WriteRole, Entitled
    <3> QED
      BY <2>1, <2>2, <3>3 DEF HandlerKnows, Entitled
  <2>4. CASE handler[g].pc \notin {"countOwners", "updateRole", "deleteMember"}
    BY <1>2, <2>1, <2>2, <2>4 DEF HandlerKnows, Entitled, KeepsOwners
  <2> QED
    BY <2>3, <2>4
<1> QED
  BY <1>2, <1>3, <1>4 DEF TablesStep

LEMMA RowMarkedDeleted ==
    ASSUME OwnerInv, NEW h \in Handlers, NEW c \in Convs, MarkDeleted(c),
           \A g \in Handlers \ {h} : handler'[g] = handler[g]
    PROVE  TablesStep(h)
<1>1. TablesOK' /\ KeepsOwners
  BY DEF OwnerInv, TypeOK, TablesOK, MarkDeleted, KeepsOwners
<1>2. ASSUME NEW g \in Handlers \ {h} PROVE HandlerKnows(g)'
  <2>1. \A d \in Convs : conversations'[d] = conversations[d] \/ conversations'[d] = "deleted"
    BY DEF OwnerInv, TypeOK, MarkDeleted
  <2>2. Entitled(g) \/ handler[g].pc = "deleteMembers" => handler[g].conv \in Convs
    BY BusyHandler DEF Entitled, OwnerInv
  <2>3. HandlerKnows(g) /\ handler'[g] = handler[g] /\ members' = members
    BY DEF OwnerInv, MarkDeleted
  <2> QED
    BY <2>1, <2>2, <2>3 DEF HandlerKnows, Entitled
<1> QED
  BY <1>1, <1>2 DEF TablesStep

LEMMA MembersDeleted ==
    ASSUME OwnerInv, NEW h \in Handlers, NEW c \in Convs, conversations[c] = "deleted",
           members' = [members EXCEPT ![c] = [u \in Users |-> None]],
           UNCHANGED conversations,
           \A g \in Handlers \ {h} : handler'[g] = handler[g]
    PROVE  TablesStep(h)
<1>1. TablesOK' /\ KeepsOwners
  BY DEF OwnerInv, TypeOK, TablesOK, KeepsOwners
<1>2. ASSUME NEW g \in Handlers \ {h} PROVE HandlerKnows(g)'
  <2>1. \A d \in Convs : conversations[d] = "live" => members'[d] = members[d]
    BY DEF OwnerInv, TypeOK
  <2>2. Entitled(g) => handler[g].conv \in Convs
    BY BusyHandler DEF Entitled, OwnerInv
  <2> QED
    BY <2>1, <2>2 DEF OwnerInv, HandlerKnows, Entitled
<1> QED
  BY <1>1, <1>2 DEF TablesStep

-----------------------------------------------------------------------------
(* Each call of a handler, and what the handler knows after it.            *)

LEMMA Lifted ==
    ASSUME OwnerInv, TypeOK', NEW h \in Handlers, TablesStep(h), HandlerKnows(h)'
    PROVE  OwnerInv' /\ KeepsOwners
BY DEF OwnerInv, TablesStep

LEMMA AnswerKnows ==
    ASSUME OwnerInv, NEW h \in Handlers, Answer(h)
    PROVE  HandlerKnows(h)' /\ \A g \in Handlers \ {h} : handler'[g] = handler[g]
<1>1. handler'[h] = Idle /\ \A g \in Handlers \ {h} : handler'[g] = handler[g]
  BY DEF OwnerInv, TypeOK, Answer
<1>2. handler'[h].pc = "idle"
  BY <1>1 DEF Idle
<1> QED
  BY <1>1, <1>2 DEF HandlerKnows, Entitled

LEMMA ProceedMoves ==
    ASSUME OwnerInv, NEW h \in Handlers, NEW step, Proceed(h, step), handler[h].pc # "idle"
    PROVE  /\ handler'[h] = [handler[h] EXCEPT !.pc = step]
           /\ handler'[h].pc = step /\ handler'[h].conv = handler[h].conv
           /\ handler'[h].target = handler[h].target
           /\ \A g \in Handlers \ {h} : handler'[g] = handler[g]
BY BusyHandler DEF OwnerInv, TypeOK, Proceed, Request

LEMMA SpareOwner ==
    ASSUME NEW c \in Convs, NEW t \in Users, GuardPasses(c)
    PROVE  \E u \in Users \ {t} : members[c][u] = "owner"
<1>1. IsFiniteSet(OwnersOf(c))
  BY FS_Subset, ConstantsAssumption DEF ConstantsAssumption, OwnersOf
<1> SUFFICES ASSUME OwnersOf(c) \subseteq {t} PROVE FALSE
  BY DEF OwnersOf
<1>2. IsFiniteSet({t}) /\ Cardinality({t}) = 1
  BY FS_Singleton
<1>3. Cardinality(OwnersOf(c)) <= 1
  BY <1>2, FS_Subset
<1>4. Cardinality(OwnersOf(c)) \in Nat
  BY <1>1, FS_CardinalityType
<1> QED
  BY <1>3, <1>4 DEF GuardPasses

LEMMA ReadKeeps ==
    ASSUME OwnerInv, NEW h \in Handlers,
           GetConversation(h) \/ GetActor(h) \/ GetTarget(h) \/ CountOwners(h)
    PROVE  OwnerInv' /\ KeepsOwners
<1>0. /\ TypeOK /\ TypeOK' /\ HandlerKnows(h) /\ h[2] \in AllSubjects
      /\ UNCHANGED <<conversations, members>>
  BY ReadTyped, HandlerSubject
     DEF OwnerInv, GetConversation, GetActor, GetTarget, CountOwners
<1>1. /\ handler[h] \in Request /\ handler[h].conv \in Convs
      /\ handler[h].target \in Users /\ handler[h].actor \in Users
      /\ handler[h].pc \in StepsOf(h[2])
  BY <1>0, BusyHandler
     DEF Request, GetConversation, GetActor, GetTarget, CountOwners
<1>2. CASE Answer(h)
  BY <1>0, <1>2, AnswerKnows, SameTables, Lifted
<1>3. CASE ~Answer(h)
  <2>1. \A g \in Handlers \ {h} : handler'[g] = handler[g]
    BY <1>0, <1>3 DEF GetConversation, GetActor, GetTarget, CountOwners, Proceed, TypeOK
  <2> SUFFICES HandlerKnows(h)'
    BY <1>0, <2>1, SameTables, Lifted
  <2>2. CASE GetConversation(h)
    <3>1. handler'[h].pc = "getActor"
      BY <1>3, <2>2, ProceedMoves DEF GetConversation
    <3> QED
      BY <3>1 DEF HandlerKnows, Entitled
  <2>3. CASE GetActor(h)
    <3> DEFINE c == handler[h].conv
    <3>1. /\ handler'[h].conv = c
          /\ handler'[h].pc \in {"deleteConversation", "getTarget"}
          /\ members[c][handler[h].actor] # None
      BY <1>0, <1>1, <1>3, <2>3 DEF GetActor, ActorMay, TypeOK, Request, None
    <3>2. /\ conversations[c] # "absent"
          /\ conversations[c] = "live" => \E u \in Users : members[c][u] = "owner"
      BY <1>1, <3>1 DEF OwnerInv, TablesOK
    <3> QED
      BY <1>0, <3>1, <3>2 DEF HandlerKnows, Entitled
  <2>4. CASE GetTarget(h)
    <3> DEFINE c == handler[h].conv
               t == handler[h].target
               next == AfterTarget(h[2], handler[h], members[c][t])
    <3>1. Proceed(h, next) /\ next # "idle"
      BY <1>3, <2>4 DEF GetTarget
    <3>2. /\ handler'[h].conv = c /\ handler'[h].target = t /\ handler'[h].pc = next
      BY <2>4, <3>1, ProceedMoves DEF GetTarget
    <3>3. CASE h[2] = "GROUP_ADD_MEMBER"
      <4>1. next = "createMember"
        BY <3>1, <3>3 DEF AfterTarget
      <4>2. Entitled(h)
        BY <2>4, <3>3 DEF Entitled, GetTarget
      <4> QED
        BY <1>0, <3>2, <3>3, <4>1, <4>2 DEF HandlerKnows, Entitled
    <3>4. CASE h[2] # "GROUP_ADD_MEMBER"
      <4>1. /\ next \in {"countOwners", "updateRole", "deleteMember"}
            /\ members[c][t] # None
            /\ next # "countOwners" => members[c][t] # "owner"
        BY <3>1, <3>4 DEF AfterTarget
      <4>2. conversations[c] # "absent"
        BY <1>1, <4>1 DEF OwnerInv, TablesOK
      <4> HIDE DEF next
      <4> QED
        BY <1>0, <3>2, <3>4, <4>1, <4>2 DEF HandlerKnows, Entitled
    <3> QED
      BY <3>3, <3>4
  <2>5. CASE CountOwners(h)
    <3> DEFINE c == handler[h].conv
               t == handler[h].target
               next == IF h[2] = "GROUP_UPDATE_ROLE" THEN "updateRole" ELSE "deleteMember"
    <3>1. Proceed(h, next) /\ GuardPasses(c) /\ handler[h].pc = "countOwners"
      BY <1>3, <2>5 DEF CountOwners
    <3>2. handler'[h].conv = c /\ handler'[h].target = t /\ handler'[h].pc = next
      BY <3>1, ProceedMoves
    <3>3. \E u \in Users \ {t} : members[c][u] = "owner"
      BY <1>1, <3>1, SpareOwner
    <3>4. h[2] # "GROUP_ADD_MEMBER"
      BY <1>1, <3>1 DEF StepsOf
    <3> QED
      BY <1>0, <3>1, <3>2, <3>3, <3>4 DEF HandlerKnows, Entitled
  <2> QED
    BY <2>2, <2>3, <2>4, <2>5
<1> QED
  BY <1>2, <1>3

LEMMA CompensateKnows ==
    ASSUME OwnerInv, NEW h \in Handlers, Proceed(h, "compensate"), handler[h].pc = "createMember"
    PROVE  HandlerKnows(h)' /\ \A g \in Handlers \ {h} : handler'[g] = handler[g]
<1>1. handler'[h].pc = "compensate" /\ \A g \in Handlers \ {h} : handler'[g] = handler[g]
  BY ProceedMoves
<1>2. HandlerKnows(h)'
  BY <1>1 DEF HandlerKnows, Entitled
<1> QED
  BY <1>1, <1>2

LEMMA WriteKeeps ==
    ASSUME OwnerInv, NoOverlap, NEW h \in Handlers,
           \/ CreateConversation(h) \/ CreateMember(h) \/ UpdateRole(h) \/ DeleteMember(h)
           \/ DeleteConversation(h) \/ DeleteMembers(h) \/ Compensate(h)
    PROVE  OwnerInv' /\ KeepsOwners
<1>0. TypeOK /\ TypeOK' /\ HandlerKnows(h) /\ h[2] \in AllSubjects
  BY WriteTyped, HandlerSubject DEF OwnerInv
<1> DEFINE c == handler[h].conv
           t == handler[h].target
<1>1. handler[h] \in Request /\ handler[h].pc \in StepsOf(h[2]) /\ handler[h].role \in RolesOf(h[2])
  BY <1>0, BusyHandler DEF CreateConversation, CreateMember, UpdateRole, DeleteMember,
                           DeleteConversation, DeleteMembers, Compensate
<1>2. handler[h].pc # "createConversation" => c \in Convs
  BY <1>0, BusyHandler DEF CreateConversation, CreateMember, UpdateRole, DeleteMember,
                           DeleteConversation, DeleteMembers, Compensate
<1>3. CASE Answer(h) /\ UNCHANGED <<conversations, members>>
  BY <1>0, <1>3, AnswerKnows, SameTables, Lifted
<1>4. CASE CreateConversation(h)
  <2>1. ASSUME NEW d \in Convs, InsertConversation(d),
               handler' = [handler EXCEPT ![h].conv = d, ![h].pc = "createMember"]
        PROVE  OwnerInv' /\ KeepsOwners
    <3>1. /\ \A g \in Handlers \ {h} : handler'[g] = handler[g]
          /\ handler'[h].conv = d /\ handler'[h].pc = "createMember"
      BY <1>0, <1>1, <2>1 DEF TypeOK, Request
    <3>2. h[2] # "GROUP_ADD_MEMBER" /\ conversations'[d] = "live"
      BY <1>0, <1>1, <1>4, <2>1 DEF CreateConversation, StepsOf, InsertConversation, TypeOK
    <3>3. HandlerKnows(h)'
      BY <3>1, <3>2 DEF HandlerKnows, Entitled
    <3> QED
      BY <1>0, <2>1, <3>1, <3>3, RowInserted, Lifted
  <2> QED
    BY <1>3, <1>4, <2>1 DEF CreateConversation
<1>5. CASE CreateMember(h)
  <2>1. c \in Convs /\ t \in Users /\ handler[h].role \in Roles /\ Entitled(h)
    BY <1>0, <1>1, <1>2, <1>5
       DEF CreateMember, Request, StepsOf, RolesOf, AllSubjects, Roles, Entitled
  <2>2. CASE Insertable(c, t) /\ InsertMember(c, t, handler[h].role) /\ Answer(h)
    <3>1. h[2] = "GROUP_CREATE" \/ h[2] = "GROUP_ADD_MEMBER"
      BY <1>0, <1>1, <1>5 DEF CreateMember, StepsOf, AllSubjects
    <3>2. \/ handler[h].role = "owner" \/ conversations[c] # "live"
          \/ \E v \in Users : members[c][v] = "owner"
      BY <1>0, <1>1, <2>1, <3>1 DEF HandlerKnows, RolesOf
    <3>3. conversations[c] # "absent" /\ members[c][t] = None
      BY <1>0, <2>1, <2>2 DEF HandlerKnows, Insertable
    <3> QED
      BY <1>0, <2>1, <2>2, <3>2, <3>3, AnswerKnows, MemberInserted, Lifted
  <2>3. CASE Proceed(h, "compensate") /\ UNCHANGED <<conversations, members>>
    <3>1. HandlerKnows(h)' /\ \A g \in Handlers \ {h} : handler'[g] = handler[g]
      BY <1>5, <2>3, CompensateKnows DEF CreateMember
    <3> QED
      BY <1>0, <2>3, <3>1, SameTables, Lifted
  <2> QED
    BY <1>3, <1>5, <2>2, <2>3 DEF CreateMember, InsertFails
<1>6. CASE UpdateRole(h) \/ DeleteMember(h)
  <2>1. /\ handler[h].pc \in {"updateRole", "deleteMember"} /\ Answer(h)
        /\ UNCHANGED conversations
    BY <1>6 DEF UpdateRole, DeleteMember
  <2>2. h \in Reducers
    BY <1>0, <1>1, <2>1 DEF StepsOf, Reducers, AllSubjects
  <2>3. PICK role \in Roles \cup {None} : WriteRole(c, t, role)
    BY <1>1, <1>6 DEF UpdateRole, DeleteMember, Request
  <2> QED
    BY <1>0, <2>1, <2>2, <2>3, AnswerKnows, RoleWritten, Lifted
<1>7. CASE DeleteConversation(h)
  <2>1. CASE MarkDeleted(c) /\ Proceed(h, "deleteMembers")
    <3>1. /\ handler'[h].conv = c /\ handler'[h].pc = "deleteMembers"
          /\ \A g \in Handlers \ {h} : handler'[g] = handler[g]
      BY <1>7, <2>1, ProceedMoves DEF DeleteConversation
    <3>2. c \in Convs /\ conversations'[c] = "deleted"
      BY <1>0, <1>2, <1>7, <2>1 DEF DeleteConversation, MarkDeleted, TypeOK
    <3>3. HandlerKnows(h)'
      BY <3>1, <3>2 DEF HandlerKnows, Entitled
    <3> QED
      BY <1>0, <2>1, <3>1, <3>2, <3>3, RowMarkedDeleted, Lifted
  <2> QED
    BY <1>3, <1>7, <2>1 DEF DeleteConversation
<1>8. CASE DeleteMembers(h)
  <2>1. c \in Convs /\ conversations[c] = "deleted"
    BY <1>0, <1>2, <1>8 DEF DeleteMembers, HandlerKnows
  <2> QED
    BY <1>0, <1>8, <2>1, AnswerKnows, MembersDeleted, Lifted DEF DeleteMembers
<1>9. CASE Compensate(h)
  <2>1. c \in Convs
    BY <1>2, <1>9 DEF Compensate
  <2>2. CASE MarkDeleted(c) /\ Answer(h)
    BY <1>0, <2>1, <2>2, AnswerKnows, RowMarkedDeleted, Lifted
  <2> QED
    BY <1>3, <1>9, <2>2 DEF Compensate
<1> QED
  BY <1>4, <1>5, <1>6, <1>7, <1>8, <1>9

LEMMA OthersKeep ==
    ASSUME OwnerInv, NEW h \in Handlers, Receive(h) \/ FailedCall(h) \/ LostAnswer(h)
    PROVE  OwnerInv' /\ KeepsOwners
<1>0. TypeOK /\ TypeOK' /\ HandlerKnows(h)
  BY ReceiveTyped, FaultTyped DEF OwnerInv
<1>1. CASE Receive(h)
  <2>1. \A g \in Handlers \ {h} : handler'[g] = handler[g]
    BY <1>0, <1>1 DEF Receive, TypeOK
  <2>2. /\ handler'[h].pc \in {"createConversation", "getConversation", "getTarget"}
        /\ handler'[h].pc = "getTarget" => h[2] # "GROUP_ADD_MEMBER"
    BY <1>0, <1>1 DEF Receive, FirstStep, TypeOK
  <2>3. HandlerKnows(h)'
    BY <2>2 DEF HandlerKnows, Entitled
  <2> QED
    BY <1>0, <1>1, <2>1, <2>3, SameTables, Lifted DEF Receive
<1>2. CASE FailedCall(h)
  <2>1. CASE Answer(h)
    BY <1>0, <1>2, <2>1, AnswerKnows, SameTables, Lifted DEF FailedCall
  <2>2. CASE Proceed(h, "compensate") /\ handler[h].pc = "createMember"
    <3>1. HandlerKnows(h)' /\ \A g \in Handlers \ {h} : handler'[g] = handler[g]
      BY <2>2, CompensateKnows
    <3> QED
      BY <1>0, <1>2, <3>1, SameTables, Lifted DEF FailedCall
  <2> QED
    BY <1>2, <2>1, <2>2 DEF FailedCall, InsertFails
<1>3. CASE LostAnswer(h)
  <2>1. ASSUME Answer(h), NEW c \in Convs, InsertConversation(c)
        PROVE  OwnerInv' /\ KeepsOwners
    BY <1>0, <2>1, AnswerKnows, RowInserted, Lifted
  <2>2. CASE /\ handler[h].pc = "deleteConversation"
             /\ Answer(h) /\ MarkDeleted(handler[h].conv)
    <3>1. handler[h].conv \in Convs
      BY <1>0, <2>2, BusyHandler
    <3> QED
      BY <1>0, <2>2, <3>1, AnswerKnows, RowMarkedDeleted, Lifted
  <2>3. CASE /\ handler[h].pc = "createMember" /\ h[2] = "GROUP_CREATE"
             /\ Insertable(handler[h].conv, handler[h].target)
             /\ InsertMember(handler[h].conv, handler[h].target, handler[h].role)
             /\ Proceed(h, "compensate")
    <3>1. /\ handler[h].conv \in Convs /\ handler[h].target \in Users
          /\ handler[h].role = "owner" /\ handler[h].role \in Roles
      BY <1>0, <2>3, BusyHandler DEF RolesOf, Roles, Request
    <3>2. HandlerKnows(h)' /\ \A g \in Handlers \ {h} : handler'[g] = handler[g]
      BY <2>3, CompensateKnows
    <3>3. /\ conversations[handler[h].conv] # "absent"
          /\ members[handler[h].conv][handler[h].target] = None
      BY <1>0, <2>3 DEF HandlerKnows, Entitled, Insertable
    <3> QED
      BY <1>0, <2>3, <3>1, <3>2, <3>3, MemberInserted, Lifted
  <2> QED
    BY <1>3, <2>1, <2>2, <2>3 DEF LostAnswer
<1> QED
  BY <1>1, <1>2, <1>3

LEMMA CrashKeeps ==
    ASSUME OwnerInv, NEW r \in Replicas, Crash(r)
    PROVE  OwnerInv' /\ KeepsOwners
<1>0. TypeOK /\ TypeOK'
  BY FaultTyped DEF OwnerInv
<1>1. \A h \in Handlers : handler'[h] = Idle \/ handler'[h] = handler[h]
  BY DEF Crash
<1>2. CASE Storage = "memory"
  <2>1. \A h \in Handlers : handler'[h] = Idle
    BY <1>2, ConstantsAssumption, HandlerSubject DEF Crash, ConstantsAssumption
  <2>2. \A h \in Handlers : HandlerKnows(h)'
    BY <2>1 DEF HandlerKnows, Entitled, Idle
  <2>3. TablesOK' /\ KeepsOwners
    BY <1>0, <1>2 DEF Crash, TablesOK, KeepsOwners, TypeOK
  <2> QED
    BY <1>0, <2>2, <2>3 DEF OwnerInv
<1>3. CASE Storage # "memory"
  <2>1. UNCHANGED <<conversations, members>>
    BY <1>3 DEF Crash
  <2>2. \A h \in Handlers : HandlerKnows(h)'
    BY <1>1, <2>1 DEF OwnerInv, HandlerKnows, Entitled, Idle
  <2> QED
    BY <1>0, <2>1, <2>2 DEF OwnerInv, TablesOK, KeepsOwners
<1> QED
  BY <1>2, <1>3

LEMMA StepKeeps ==
    ASSUME OwnerInv, NoOverlap, [Next]_vars
    PROVE  OwnerInv' /\ KeepsOwners
<1>1. CASE UNCHANGED vars
  BY <1>1 DEF vars, OwnerInv, TypeOK, TablesOK, HandlerKnows, Entitled, KeepsOwners
<1>2. ASSUME NEW h \in Handlers, Receive(h) \/ Call(h) \/ FailedCall(h) \/ LostAnswer(h)
      PROVE  OwnerInv' /\ KeepsOwners
  BY <1>2, ReadKeeps, WriteKeeps, OthersKeep DEF Call
<1>3. ASSUME NEW r \in Replicas, Crash(r) PROVE OwnerInv' /\ KeepsOwners
  BY <1>3, CrashKeeps
<1> QED
  BY <1>1, <1>2, <1>3 DEF Next

LEMMA OwnerInvHolds == Spec /\ []NoOverlap => []OwnerInv
<1>1. Init => OwnerInv
  BY DEF Init, OwnerInv, TypeOK, TablesOK, HandlerKnows, Entitled, Idle
<1>2. OwnerInv /\ NoOverlap /\ [Next]_vars => OwnerInv'
  BY StepKeeps
<1> QED
  BY <1>1, <1>2, PTL DEF Spec

(* As long as no two reducers work on one conversation at the same time, a *)
(* live conversation with a member has an owner: whatever other requests   *)
(* run meanwhile, and whatever calls fail, answers are lost or replicas    *)
(* stop.                                                                   *)
THEOREM OwnerRemains == Spec => GuardSoundAlone
<1>1. OwnerInv => InhabitedHasOwner
  BY DEF OwnerInv, TablesOK, InhabitedHasOwner, MembersOf, OwnersOf
<1> QED
  BY <1>1, OwnerInvHolds, PTL DEF GuardSoundAlone

(* Under the same condition no step takes the last owner away.             *)
THEOREM LastOwnerStays == Spec /\ []NoOverlap => LastOwnerKept
<1>1. KeepsOwners =>
        \A c \in Convs : /\ conversations[c] = "live" /\ conversations'[c] = "live"
                         /\ OwnersOf(c) # {}
                         => OwnersOf(c)' # {}
  BY DEF KeepsOwners, OwnersOf
<1>2. OwnerInv /\ NoOverlap /\ [Next]_vars =>
        [\A c \in Convs : /\ conversations[c] = "live" /\ conversations'[c] = "live"
                          /\ OwnersOf(c) # {}
                          => OwnersOf(c)' # {}]_vars
  BY <1>1, StepKeeps
<1> QED
  BY <1>2, OwnerInvHolds, PTL DEF Spec, LastOwnerKept

-----------------------------------------------------------------------------
(* Creation and deletion: a conversation under creation belongs to its     *)
(* creator alone, and on the memory repository nobody is left behind in a  *)
(* deleted one.                                                            *)

(* A handler that may write to the rows of its conversation without asking *)
(* any further question about its actor.                                   *)
Acting(h) ==
    \/ Entitled(h)
    \/ handler[h].pc \in {"deleteConversation", "deleteMembers", "compensate"}

Creating(h) ==
    h[2] = "GROUP_CREATE" /\ handler[h].pc \in {"createMember", "compensate"}

Empty(c) == \A u \in Users : members[c][u] = None

Alone(h) ==
    LET c == handler[h].conv IN
    /\ conversations[c] = "live"
    /\ Empty(c)
    /\ \A g \in Handlers \ {h} : Acting(g) => handler[g].conv # c

CreationInv ==
    /\ TypeOK
    /\ \A c \in Convs : conversations[c] = "absent" => Empty(c)
    /\ \A h \in Handlers : Acting(h) => conversations[handler[h].conv] # "absent"
    /\ \A h \in Handlers : Creating(h) => Alone(h)

(* What a step of g can do to a conversation and to its own authority: it  *)
(* writes where it is acting already or to a row it inserts, and it starts *)
(* to act where its actor or its target is a member, or in its own row.    *)
SameRow(c) == conversations'[c] = conversations[c] /\ members'[c] = members[c]

NewRow(c) == /\ conversations[c] = "absent" /\ conversations'[c] = "live"
             /\ members'[c] = members[c]

Footprint(g) ==
    /\ \A h \in Handlers \ {g} : handler'[h] = handler[h]
    /\ \A c \in Convs : \/ SameRow(c)
                        \/ Acting(g) /\ handler[g].conv = c /\ conversations'[c] # "absent"
                        \/ NewRow(c)
    /\ Acting(g)' =>
         LET c == handler'[g].conv IN
         /\ c \in Convs
         /\ \/ Acting(g) /\ handler[g].conv = c /\ conversations'[c] # "absent"
            \/ ~Creating(g)' /\ SameRow(c) /\ ~Empty(c)
            \/ NewRow(c)
    /\ Creating(g)' =>
         LET c == handler'[g].conv IN
         \/ Creating(g) /\ handler[g].conv = c /\ SameRow(c)
         \/ NewRow(c)

LEMMA ActingConv ==
    ASSUME TypeOK, NEW h \in Handlers, Acting(h)
    PROVE  /\ handler[h] \in Request /\ handler[h].pc \in StepsOf(h[2])
           /\ handler[h].conv \in Convs /\ handler[h].role \in RolesOf(h[2])
BY BusyHandler DEF Acting, Entitled

LEMMA CreatingActs == ASSUME NEW h, Creating(h) PROVE Acting(h)
BY DEF Creating, Acting, Entitled

LEMMA FootprintKeeps ==
    ASSUME CreationInv, TypeOK', NEW g \in Handlers, Footprint(g)
    PROVE  CreationInv'
<1>1. ASSUME NEW c \in Convs, conversations'[c] = "absent" PROVE Empty(c)'
  BY <1>1 DEF CreationInv, Footprint, SameRow, NewRow, Empty
<1>2. ASSUME NEW h \in Handlers, Acting(h)' PROVE conversations'[handler'[h].conv] # "absent"
  <2>1. CASE h = g
    BY <1>2, <2>1 DEF Footprint, SameRow, NewRow, CreationInv, Empty
  <2>2. CASE h # g
    <3>1. handler'[h] = handler[h] /\ Acting(h)
      BY <1>2, <2>2 DEF Footprint, Acting, Entitled
    <3>2. handler[h].conv \in Convs /\ conversations[handler[h].conv] # "absent"
      BY <3>1, ActingConv DEF CreationInv
    <3> QED
      BY <3>1, <3>2 DEF Footprint, SameRow, NewRow
  <2> QED
    BY <2>1, <2>2
<1>3. ASSUME NEW h \in Handlers, Creating(h)' PROVE Alone(h)'
  <2> PICK c : c = handler'[h].conv
    OBVIOUS
  <2>1. CASE NewRow(c) /\ h = g
    <3>1. c \in Convs
      BY <1>3, <2>1, CreatingActs DEF Footprint, Creating, Acting, Entitled
    <3>2. conversations'[c] = "live" /\ Empty(c)'
      BY <2>1, <3>1 DEF NewRow, Empty, CreationInv
    <3>3. ASSUME NEW k \in Handlers \ {h}, Acting(k)' PROVE handler'[k].conv # c
      <4>1. handler'[k] = handler[k] /\ Acting(k)
        BY <2>1, <3>3 DEF Footprint, Acting, Entitled
      <4> QED
        BY <2>1, <4>1 DEF CreationInv, NewRow
    <3> QED
      BY <3>2, <3>3 DEF Alone
  <2>2. CASE Creating(h) /\ handler[h].conv = c /\ SameRow(c) /\ h = g
    <3>1. Alone(h)
      BY <2>2 DEF CreationInv
    <3>2. \A k \in Handlers \ {h} : Acting(k)' => Acting(k) /\ handler'[k] = handler[k]
      BY <2>2 DEF Footprint, Acting, Entitled
    <3> QED
      BY <2>2, <3>1, <3>2 DEF Alone, SameRow, Empty
  <2>3. CASE h # g
    <3>1. handler'[h] = handler[h] /\ Creating(h)
      BY <1>3, <2>3 DEF Footprint, Creating
    <3>2. Alone(h) /\ c \in Convs
      BY <3>1, CreatingActs, ActingConv DEF CreationInv
    <3>3. SameRow(c)
      BY <2>3, <3>1, <3>2 DEF Footprint, Alone, NewRow
    <3>4. ASSUME NEW k \in Handlers \ {h}, Acting(k)' PROVE handler'[k].conv # c
      <4>1. CASE k = g
        BY <2>3, <3>1, <3>2, <3>4, <4>1 DEF Footprint, Alone, NewRow
      <4>2. CASE k # g
        <5>1. handler'[k] = handler[k] /\ Acting(k)
          BY <3>4, <4>2 DEF Footprint, Acting, Entitled
        <5> QED
          BY <3>1, <3>2, <5>1 DEF Alone
      <4> QED
        BY <4>1, <4>2
    <3> QED
      BY <3>1, <3>2, <3>3, <3>4 DEF Alone, SameRow, Empty
  <2> QED
    BY <1>3, <2>1, <2>2, <2>3 DEF Footprint
<1> QED
  BY <1>1, <1>2, <1>3 DEF CreationInv

-----------------------------------------------------------------------------
(* Every step of a handler that does not lose an answer keeps to its       *)
(* footprint.                                                              *)

(* The rows a step of h may change. *)
RowsKept(h) ==
    \A c \in Convs : \/ SameRow(c)
                     \/ Acting(h) /\ handler[h].conv = c /\ conversations'[c] # "absent"
                     \/ NewRow(c)

LEMMA AnswerFootprint ==
    ASSUME TypeOK, NEW h \in Handlers, Answer(h), RowsKept(h)
    PROVE  Footprint(h)
<1>1. handler'[h].pc = "idle" /\ \A g \in Handlers \ {h} : handler'[g] = handler[g]
  BY DEF TypeOK, Answer, Idle
<1>2. ~Acting(h)' /\ ~Creating(h)'
  BY <1>1 DEF Acting, Entitled, Creating
<1> QED
  BY <1>1, <1>2 DEF Footprint, RowsKept

LEMMA SameRows ==
    ASSUME UNCHANGED <<conversations, members>>, NEW h
    PROVE  RowsKept(h) /\ \A c \in Convs : SameRow(c)
BY DEF RowsKept, SameRow

LEMMA ProceedFrame ==
    ASSUME TypeOK, NEW h \in Handlers, NEW step, Proceed(h, step), handler[h].pc # "idle"
    PROVE  /\ handler'[h].pc = step /\ handler'[h].conv = handler[h].conv
           /\ \A g \in Handlers \ {h} : handler'[g] = handler[g]
BY BusyHandler DEF TypeOK, Proceed, Request

(* Going on with a write one was entitled to already. *)
LEMMA GoesOn ==
    ASSUME CreationInv, NEW h \in Handlers, NEW step, Proceed(h, step),
           Acting(h), RowsKept(h), conversations'[handler[h].conv] # "absent",
           step \in {"createMember", "compensate"} =>
             Creating(h) /\ SameRow(handler[h].conv)
    PROVE  Footprint(h)
<1>1. TypeOK /\ handler[h].pc # "idle" /\ handler[h].conv \in Convs
  BY ActingConv DEF CreationInv, Acting, Entitled
<1>2. /\ handler'[h].pc = step /\ handler'[h].conv = handler[h].conv
      /\ \A g \in Handlers \ {h} : handler'[g] = handler[g]
  BY <1>1, ProceedFrame
<1> QED
  BY <1>1, <1>2 DEF Footprint, RowsKept, Creating

LEMMA ReadFootprint ==
    ASSUME CreationInv, NEW h \in Handlers,
           GetConversation(h) \/ GetActor(h) \/ GetTarget(h) \/ CountOwners(h)
    PROVE  Footprint(h)
<1>0. /\ TypeOK /\ h[2] \in AllSubjects /\ UNCHANGED <<conversations, members>>
      /\ RowsKept(h) /\ \A c \in Convs : SameRow(c)
  BY HandlerSubject, SameRows
     DEF CreationInv, GetConversation, GetActor, GetTarget, CountOwners
<1>1. /\ handler[h] \in Request /\ handler[h].conv \in Convs
      /\ handler[h].target \in Users /\ handler[h].actor \in Users
      /\ handler[h].pc \in StepsOf(h[2]) /\ handler[h].pc # "idle"
  BY <1>0, BusyHandler
     DEF Request, GetConversation, GetActor, GetTarget, CountOwners
<1> SUFFICES ASSUME ~Answer(h) PROVE Footprint(h)
  BY <1>0, AnswerFootprint
<1>2. CASE GetConversation(h)
  <2>1. Proceed(h, "getActor")
    BY <1>2 DEF GetConversation
  <2> QED
    BY <1>0, <1>1, <2>1, ProceedFrame DEF Footprint, RowsKept, Acting, Entitled, Creating
<1>3. CASE GetActor(h)
  <2>1. /\ handler'[h].conv = handler[h].conv
        /\ handler'[h].pc \in {"deleteConversation", "getTarget"}
        /\ members[handler[h].conv][handler[h].actor] # None
        /\ \A g \in Handlers \ {h} : handler'[g] = handler[g]
    BY <1>0, <1>1, <1>3 DEF GetActor, ActorMay, TypeOK, Request, None
  <2> QED
    BY <1>0, <1>1, <2>1 DEF Footprint, RowsKept, Creating, Empty
<1>4. CASE GetTarget(h)
  <2> DEFINE next == AfterTarget(h[2], handler[h], members[handler[h].conv][handler[h].target])
  <2>1. Proceed(h, next) /\ next # "idle" /\ handler[h].pc = "getTarget"
    BY <1>4 DEF GetTarget
  <2>2. CASE h[2] = "GROUP_ADD_MEMBER"
    <3>1. Acting(h) /\ conversations'[handler[h].conv] # "absent"
      BY <1>0, <2>1, <2>2 DEF Acting, Entitled, CreationInv
    <3>2. /\ handler'[h].conv = handler[h].conv
          /\ \A g \in Handlers \ {h} : handler'[g] = handler[g]
      BY <1>0, <1>1, <2>1, ProceedFrame
    <3> QED
      BY <1>0, <1>1, <2>2, <3>1, <3>2 DEF Footprint, RowsKept, Creating
  <2>3. CASE h[2] # "GROUP_ADD_MEMBER"
    <3>1. /\ next \in {"countOwners", "updateRole", "deleteMember"}
          /\ members[handler[h].conv][handler[h].target] # None
      BY <2>1, <2>3 DEF AfterTarget
    <3> HIDE DEF next
    <3>2. /\ handler'[h].conv = handler[h].conv /\ handler'[h].pc = next
          /\ \A g \in Handlers \ {h} : handler'[g] = handler[g]
      BY <1>0, <1>1, <2>1, ProceedFrame
    <3> QED
      BY <1>0, <1>1, <3>1, <3>2 DEF Footprint, RowsKept, Creating, Empty
  <2> QED
    BY <2>2, <2>3
<1>5. CASE CountOwners(h)
  <2>1. PICK step \in {"updateRole", "deleteMember"} : Proceed(h, step)
    BY <1>5 DEF CountOwners
  <2>2. Acting(h) /\ conversations'[handler[h].conv] # "absent"
    BY <1>0, <1>5 DEF CountOwners, Acting, Entitled, CreationInv
  <2> QED
    BY <1>0, <2>1, <2>2, GoesOn
<1> QED
  BY <1>2, <1>3, <1>4, <1>5

LEMMA CreateFootprint ==
    ASSUME CreationInv, NEW h \in Handlers, CreateConversation(h)
    PROVE  Footprint(h)
<1>0. TypeOK /\ handler[h] \in Request
  BY BusyHandler DEF CreationInv, CreateConversation
<1>1. ASSUME NEW d \in Convs, InsertConversation(d),
             handler' = [handler EXCEPT ![h].conv = d, ![h].pc = "createMember"]
      PROVE  Footprint(h)
  <2>1. handler'[h].conv = d /\ \A g \in Handlers \ {h} : handler'[g] = handler[g]
    BY <1>0, <1>1 DEF TypeOK, Request
  <2>2. NewRow(d) /\ \A c \in Convs \ {d} : SameRow(c)
    BY <1>0, <1>1 DEF InsertConversation, NewRow, SameRow, TypeOK
  <2> QED
    BY <2>1, <2>2 DEF Footprint
<1>2. CASE Answer(h) /\ UNCHANGED <<conversations, members>>
  BY <1>0, <1>2, AnswerFootprint, SameRows
<1> QED
  BY <1>1, <1>2 DEF CreateConversation

LEMMA MemberFootprint ==
    ASSUME CreationInv, NEW h \in Handlers, CreateMember(h) \/ FailedCall(h)
    PROVE  Footprint(h)
<1>0. TypeOK /\ handler[h].pc # "idle"
  BY DEF CreationInv, CreateMember, FailedCall, TypeOK, Idle, Request, Steps
<1>1. CASE Answer(h) /\ UNCHANGED <<conversations, members>>
  BY <1>0, <1>1, AnswerFootprint, SameRows
<1>2. CASE /\ handler[h].pc = "createMember" /\ h[2] = "GROUP_CREATE"
           /\ Proceed(h, "compensate") /\ UNCHANGED <<conversations, members>>
  <2>1. Creating(h) /\ Acting(h)
    BY <1>2 DEF Creating, Acting, Entitled
  <2>2. RowsKept(h) /\ SameRow(handler[h].conv)
    BY <1>2, SameRows DEF SameRow
  <2>3. conversations'[handler[h].conv] # "absent"
    BY <1>2, <2>1 DEF CreationInv
  <2> QED
    BY <2>1, <2>2, <2>3, <1>2, GoesOn
<1>3. CASE /\ handler[h].pc = "createMember" /\ Answer(h)
           /\ InsertMember(handler[h].conv, handler[h].target, handler[h].role)
  <2>1. Acting(h) /\ conversations'[handler[h].conv] # "absent"
    BY <1>3 DEF Acting, Entitled, CreationInv, InsertMember
  <2>2. RowsKept(h)
    BY <1>0, <1>3, <2>1 DEF RowsKept, SameRow, InsertMember, TypeOK
  <2> QED
    BY <1>0, <1>3, <2>2, AnswerFootprint
<1> QED
  BY <1>1, <1>2, <1>3 DEF CreateMember, FailedCall, InsertFails

LEMMA WriteFootprint ==
    ASSUME CreationInv, NEW h \in Handlers,
           \/ UpdateRole(h) \/ DeleteMember(h)
           \/ DeleteConversation(h) \/ DeleteMembers(h) \/ Compensate(h)
    PROVE  Footprint(h)
<1>0. TypeOK /\ Acting(h)
  BY DEF CreationInv, Acting, Entitled, UpdateRole, DeleteMember, DeleteConversation,
         DeleteMembers, Compensate
<1>1. handler[h].conv \in Convs /\ conversations[handler[h].conv] # "absent"
  BY <1>0, ActingConv DEF CreationInv
<1>2. RowsKept(h) /\ conversations'[handler[h].conv] # "absent"
  BY <1>0, <1>1 DEF RowsKept, SameRow, TypeOK, UpdateRole, DeleteMember, WriteRole,
                    DeleteConversation, MarkDeleted, DeleteMembers, Compensate
<1>3. CASE Answer(h)
  BY <1>0, <1>2, <1>3, AnswerFootprint
<1>4. CASE Proceed(h, "deleteMembers")
  BY <1>0, <1>2, <1>4, GoesOn
<1> QED
  BY <1>3, <1>4 DEF UpdateRole, DeleteMember, DeleteConversation, DeleteMembers, Compensate

LEMMA ReceiveFootprint ==
    ASSUME CreationInv, NEW h \in Handlers, Receive(h)
    PROVE  Footprint(h)
<1>1. /\ handler'[h].pc \in {"createConversation", "getConversation", "getTarget"}
      /\ handler'[h].pc = "getTarget" => h[2] # "GROUP_ADD_MEMBER"
      /\ \A g \in Handlers \ {h} : handler'[g] = handler[g]
  BY DEF CreationInv, Receive, FirstStep, TypeOK
<1>2. ~Acting(h)' /\ ~Creating(h)'
  BY <1>1 DEF Acting, Entitled, Creating
<1>3. RowsKept(h)
  BY SameRows DEF Receive
<1> QED
  BY <1>1, <1>2, <1>3 DEF Footprint, RowsKept

LEMMA CrashKeepsCreation ==
    ASSUME CreationInv, TypeOK', NEW r \in Replicas, Crash(r)
    PROVE  CreationInv'
<1>1. \A h \in Handlers : handler'[h] = Idle \/ handler'[h] = handler[h]
  BY DEF Crash
<1>2. \A h \in Handlers : handler'[h] = Idle => ~Acting(h)' /\ ~Creating(h)'
  BY DEF Acting, Entitled, Creating, Idle
<1>3. CASE Storage = "memory"
  <2>1. \A h \in Handlers : handler'[h] = Idle
    BY <1>3, ConstantsAssumption, HandlerSubject DEF Crash, ConstantsAssumption
  <2> QED
    BY <1>2, <1>3, <2>1 DEF Crash, CreationInv, Empty
<1>4. CASE Storage # "memory"
  <2>1. UNCHANGED <<conversations, members>>
    BY <1>4 DEF Crash
  <2>2. \A h \in Handlers : Acting(h)' => Acting(h) /\ handler'[h] = handler[h]
    BY <1>1, <1>2 DEF Acting, Entitled
  <2>3. \A h \in Handlers : Creating(h)' => Creating(h) /\ handler'[h] = handler[h]
    BY <1>1, <1>2 DEF Creating
  <2>4. \A h \in Handlers : Creating(h)' => Alone(h)'
    BY <2>1, <2>2, <2>3 DEF CreationInv, Alone, Empty
  <2> QED
    BY <2>1, <2>2, <2>4 DEF CreationInv, Empty
<1> QED
  BY <1>3, <1>4

LEMMA CreationStep ==
    ASSUME "answer" \notin Faults, CreationInv, TypeOK', [Next]_vars
    PROVE  CreationInv'
<1>1. CASE UNCHANGED vars
  BY <1>1 DEF vars, CreationInv, TypeOK, Empty, Acting, Entitled, Creating, Alone
<1>2. ASSUME NEW h \in Handlers, Receive(h) \/ Call(h) \/ FailedCall(h)
      PROVE  CreationInv'
  <2>1. Footprint(h)
    BY <1>2, ReadFootprint, CreateFootprint, MemberFootprint, WriteFootprint,
       ReceiveFootprint DEF Call
  <2> QED
    BY <2>1, FootprintKeeps
<1>3. ASSUME NEW r \in Replicas, Crash(r) PROVE CreationInv'
  BY <1>3, CrashKeepsCreation
<1> QED
  BY <1>1, <1>2, <1>3 DEF Next, LostAnswer

LEMMA CreationInvHolds ==
    ASSUME "answer" \notin Faults
    PROVE  Spec => []CreationInv
<1>1. Init => CreationInv
  BY DEF Init, CreationInv, TypeOK, Empty, Acting, Entitled, Creating, Idle
<1>2. CreationInv /\ TypeOK' /\ [Next]_vars => CreationInv'
  BY CreationStep
<1> QED
  BY <1>1, <1>2, TypeCorrect, PTL DEF Spec

(* As long as the result of a committed insert reaches the service, nobody *)
(* can join a conversation before its owner's membership is stored, in any *)
(* interleaving of requests, failures and stops: the compensation of a     *)
(* failed creation deletes an empty conversation.                          *)
THEOREM CreationAlone ==
    ASSUME "answer" \notin Faults
    PROVE  Spec => []CreationUndisturbed
<1>1. CreationInv => CreationUndisturbed
  BY DEF CreationInv, CreationUndisturbed, Creating, Alone, Empty, MembersOf
<1> QED
  BY <1>1, CreationInvHolds, PTL

-----------------------------------------------------------------------------
(* The memory repository refuses to store a membership of a conversation   *)
(* that is not live, and its calls do not fail.                            *)
Draining(c) == \E h \in Handlers : handler[h].pc = "deleteMembers" /\ handler[h].conv = c

DrainInv == \A c \in Convs : conversations[c] = "deleted" => Empty(c) \/ Draining(c)

(* A step that only moves another handler, or only takes members away.     *)
LEMMA DrainingOn ==
    ASSUME TypeOK, DrainInv, NEW g \in Handlers,
           \A h \in Handlers \ {g} : handler'[h] = handler[h],
           \A c \in Convs : conversations'[c] = "deleted" =>
               \/ Empty(c)'
               \/ handler'[g].pc = "deleteMembers" /\ handler'[g].conv = c
               \/ /\ conversations[c] = "deleted" /\ (Empty(c) => Empty(c)')
                  /\ handler[g].pc # "deleteMembers" \/ handler[g].conv # c
    PROVE  DrainInv'
<1> SUFFICES ASSUME NEW c \in Convs, conversations'[c] = "deleted"
             PROVE  Empty(c)' \/ Draining(c)'
  BY DEF DrainInv
<1> QED
  BY DEF DrainInv, Draining

LEMMA MemoryNeverFails ==
    ASSUME Storage = "memory"
    PROVE  "call" \notin Faults /\ "answer" \notin Faults
BY ConstantsAssumption DEF ConstantsAssumption

LEMMA DrainStep ==
    ASSUME Storage = "memory", CreationInv, DrainInv, [Next]_vars
    PROVE  DrainInv'
<1>0. TypeOK
  BY DEF CreationInv
<1>1. CASE UNCHANGED vars
  BY <1>1 DEF vars, DrainInv, Draining, Empty
<1>2. ASSUME NEW r \in Replicas, Crash(r) PROVE DrainInv'
  BY <1>2 DEF Crash, DrainInv
<1>3. ASSUME NEW g \in Handlers, Receive(g) \/ Call(g) PROVE DrainInv'
  <2>1. CASE Receive(g) \/ GetConversation(g) \/ GetActor(g) \/ GetTarget(g) \/ CountOwners(g)
    <3>1. /\ \A h \in Handlers \ {g} : handler'[h] = handler[h]
          /\ UNCHANGED <<conversations, members>> /\ handler[g].pc # "deleteMembers"
      BY <1>0, <2>1 DEF Receive, GetConversation, GetActor, GetTarget, CountOwners,
                        Answer, Proceed, TypeOK, Idle
    <3> QED
      BY <1>0, <3>1, DrainingOn DEF Empty
  <2>2. CASE CreateConversation(g)
    <3>1. /\ \A h \in Handlers \ {g} : handler'[h] = handler[h]
          /\ members' = members /\ handler[g].pc # "deleteMembers"
          /\ \A c \in Convs : conversations'[c] = "deleted" => conversations[c] = "deleted"
      BY <1>0, <2>2 DEF CreateConversation, InsertConversation, Answer, TypeOK
    <3> QED
      BY <1>0, <3>1, DrainingOn DEF Empty
  <2>3. CASE CreateMember(g)
    <3>1. /\ \A h \in Handlers \ {g} : handler'[h] = handler[h]
          /\ conversations' = conversations /\ handler[g].pc # "deleteMembers"
          /\ \A c \in Convs : conversations[c] = "deleted" => members'[c] = members[c]
      BY <1>0, <2>3 DEF CreateMember, InsertFails, InsertMember, Insertable, Answer,
                        Proceed, TypeOK
    <3> QED
      BY <1>0, <3>1, DrainingOn DEF Empty
  <2>4. CASE UpdateRole(g) \/ DeleteMember(g)
    <3>1. /\ \A h \in Handlers \ {g} : handler'[h] = handler[h]
          /\ conversations' = conversations /\ handler[g].pc # "deleteMembers"
      BY <1>0, <2>4 DEF UpdateRole, DeleteMember, Answer, TypeOK
    <3>2. \A c \in Convs : Empty(c) => Empty(c)'
      BY <1>0, <2>4 DEF UpdateRole, DeleteMember, WriteRole, Empty, TypeOK
    <3> QED
      BY <1>0, <3>1, <3>2, DrainingOn
  <2>5. CASE DeleteConversation(g)
    <3>1. \A h \in Handlers \ {g} : handler'[h] = handler[h]
      BY <1>0, <2>5 DEF DeleteConversation, Answer, Proceed, TypeOK
    <3>2. members' = members /\ handler[g].pc = "deleteConversation"
      BY <2>5 DEF DeleteConversation, MarkDeleted
    <3>3. \A c \in Convs : conversations'[c] = "deleted" =>
             \/ conversations[c] = "deleted"
             \/ handler'[g].pc = "deleteMembers" /\ handler'[g].conv = c
      BY <1>0, <2>5, ProceedFrame DEF DeleteConversation, MarkDeleted, TypeOK
    <3> QED
      BY <1>0, <3>1, <3>2, <3>3, DrainingOn DEF Empty
  <2>6. CASE DeleteMembers(g)
    <3>1. /\ \A h \in Handlers \ {g} : handler'[h] = handler[h]
          /\ conversations' = conversations
          /\ \A c \in Convs : c # handler[g].conv => members'[c] = members[c]
      BY <1>0, <2>6 DEF DeleteMembers, Answer, TypeOK
    <3>2. \A c \in Convs : c = handler[g].conv => Empty(c)'
      BY <1>0, <2>6 DEF DeleteMembers, Empty, TypeOK
    <3> QED
      BY <1>0, <3>1, <3>2, DrainingOn DEF Empty
  <2>7. CASE Compensate(g)
    <3>1. Creating(g)
      BY <1>0, <2>7, BusyHandler, HandlerSubject
         DEF Compensate, Creating, StepsOf, AllSubjects
    <3>2. Empty(handler[g].conv) /\ members' = members /\ handler[g].pc = "compensate"
      BY <2>7, <3>1 DEF CreationInv, Alone, Compensate, MarkDeleted
    <3>3. /\ \A h \in Handlers \ {g} : handler'[h] = handler[h]
          /\ \A c \in Convs : conversations'[c] = "deleted" =>
               conversations[c] = "deleted" \/ c = handler[g].conv
      BY <1>0, <2>7 DEF Compensate, MarkDeleted, Answer, TypeOK
    <3> QED
      BY <1>0, <3>2, <3>3, DrainingOn DEF Empty
  <2> QED
    BY <1>3, <2>1, <2>2, <2>3, <2>4, <2>5, <2>6, <2>7 DEF Call
<1> QED
  BY <1>1, <1>2, <1>3, MemoryNeverFails DEF Next, FailedCall, LostAnswer

(* On the memory repository an addition that overlaps a deletion never     *)
(* leaves a member behind in a deleted conversation.                       *)
THEOREM MemoryDrains ==
    ASSUME Storage = "memory"
    PROVE  Spec => []DeletedDrains
<1>1. Init => DrainInv
  BY DEF Init, DrainInv
<1>2. CreationInv /\ DrainInv /\ [Next]_vars => DrainInv'
  BY DrainStep
<1>3. Spec => []CreationInv
  BY CreationInvHolds, MemoryNeverFails
<1>4. DrainInv => DeletedDrains
  BY DEF DrainInv, Draining, DeletedDrains, Empty, MembersOf
<1> QED
  BY <1>1, <1>2, <1>3, <1>4, PTL DEF Spec
-----------------------------------------------------------------------------
(* The promise: when requests do not overlap each of them takes effect in  *)
(* one step of Membership.                                                 *)

Serial == \A g, h \in Handlers : handler[g] # Idle /\ handler[h] # Idle => g = h

(* What the reads of a request have shown of its actor and its target is   *)
(* still so, because nobody else writes.  Only a creation also relies on   *)
(* its row: the others find theirs live, or change what nobody sees.       *)
Sees(h) ==
    LET q == handler[h]
        c == q.conv
        actor == members[c][q.actor]
        target == members[c][q.target]
    IN /\ h[2] \in {"GROUP_CREATE", "GROUP_LEAVE"} => q.actor = q.target
       /\ h[2] = "GROUP_CREATE" /\ q.pc = "createMember" =>
            conversations[c] = "live" /\ Empty(c)
       /\ q.pc = "compensate" =>
            conversations[c] = "live" /\ (Empty(c) \/ actor = "owner")
       /\ h[2] = "GROUP_ADD_MEMBER" /\ q.pc \in {"getTarget", "createMember"} =>
            actor = "owner" \/ (actor = "admin" /\ q.role = "member")
       /\ h[2] = "GROUP_UPDATE_ROLE" /\ q.pc \in {"getTarget", "countOwners", "updateRole"} =>
            /\ actor = "owner"
            /\ q.pc # "getTarget" => target # q.role
       /\ q.pc = "deleteConversation" => actor = "owner"
       /\ h[2] = "GROUP_REMOVE_MEMBER" /\ q.actor # q.target =>
            /\ q.pc = "getTarget" => q.actorRole = actor /\ actor # None
            /\ q.pc \in {"countOwners", "deleteMember"} =>
                 actor = "owner" \/ (actor = "admin" /\ target = "member")

SerialInv == Serial /\ \A h \in Handlers : Sees(h)

LEMMA IdleSees == ASSUME NEW h \in Handlers, handler'[h] = Idle PROVE Sees(h)'
BY DEF Sees, Idle

(* A step of h is one of a request that has arrived, and moves no other.   *)
LEMMA MovesAlone ==
    ASSUME TypeOK, NEW h \in Handlers, Call(h) \/ FailedCall(h) \/ LostAnswer(h)
    PROVE  handler[h] # Idle /\ \A g \in Handlers \ {h} : handler'[g] = handler[g]
<1>1. handler[h] # Idle
  BY DEF Call, FailedCall, LostAnswer, GetConversation, GetActor, GetTarget, CountOwners,
         CreateConversation, CreateMember, UpdateRole, DeleteMember, DeleteConversation,
         DeleteMembers, Compensate, Idle
<1>2. ASSUME NEW g \in Handlers \ {h}, Answer(h) \/ \E step : Proceed(h, step)
      PROVE  handler'[g] = handler[g]
  BY <1>2 DEF Answer, Proceed, TypeOK
<1>3. CASE GetConversation(h) \/ GetTarget(h) \/ CountOwners(h)
  BY <1>1, <1>2, <1>3 DEF GetConversation, GetTarget, CountOwners
<1>4. CASE GetActor(h) \/ CreateConversation(h)
  BY <1>1, <1>2, <1>4 DEF GetActor, CreateConversation, TypeOK
<1>5. CASE CreateMember(h) \/ UpdateRole(h) \/ DeleteMember(h)
  BY <1>1, <1>2, <1>5 DEF CreateMember, UpdateRole, DeleteMember, InsertFails
<1>6. CASE DeleteConversation(h) \/ DeleteMembers(h) \/ Compensate(h)
  BY <1>1, <1>2, <1>6 DEF DeleteConversation, DeleteMembers, Compensate
<1>7. CASE FailedCall(h) \/ LostAnswer(h)
  BY <1>1, <1>2, <1>7 DEF FailedCall, LostAnswer, InsertFails
<1> QED
  BY <1>3, <1>4, <1>5, <1>6, <1>7 DEF Call

LEMMA ReceiveAlone ==
    ASSUME TypeOK, MaxInFlight = 1, NEW h \in Handlers, Receive(h)
    PROVE  \A g \in Handlers : handler[g] = Idle /\ (g # h => handler'[g] = Idle)
<1>1. IsFiniteSet(Subjects)
  <2>1. IsFiniteSet(AllSubjects)
    <3> DEFINE Three == {"GROUP_CREATE", "GROUP_ADD_MEMBER", "GROUP_REMOVE_MEMBER"}
               Rest == {"GROUP_UPDATE_ROLE", "GROUP_LEAVE", "GROUP_DELETE"}
    <3>1. IsFiniteSet(Three)
      <4>1. Three = {"GROUP_CREATE"} \cup ({"GROUP_ADD_MEMBER"} \cup {"GROUP_REMOVE_MEMBER"})
        OBVIOUS
      <4> HIDE DEF Three
      <4> QED
        BY <4>1, FS_Singleton, FS_Union
    <3>2. IsFiniteSet(Rest)
      <4>1. Rest = {"GROUP_UPDATE_ROLE"} \cup ({"GROUP_LEAVE"} \cup {"GROUP_DELETE"})
        OBVIOUS
      <4> HIDE DEF Rest
      <4> QED
        BY <4>1, FS_Singleton, FS_Union
    <3>3. AllSubjects = Three \cup Rest
      BY DEF AllSubjects
    <3> HIDE DEF Three, Rest
    <3> QED
      BY <3>1, <3>2, <3>3, FS_Union
  <2> QED
    BY <2>1, FS_Subset, ConstantsAssumption DEF ConstantsAssumption
<1>2. IsFiniteSet(Handlers)
  BY <1>1, FS_Product, ConstantsAssumption DEF ConstantsAssumption, Handlers
<1>3. IsFiniteSet(Busy)
  BY <1>2, FS_Subset DEF Busy
<1>4. Cardinality(Busy) = 0
  BY <1>3, FS_CardinalityType DEF Receive
<1>5. Busy = {}
  BY <1>3, <1>4, FS_EmptySet
<1>6. \A g \in Handlers : handler[g] = Idle
  BY <1>5 DEF Busy
<1>7. \A g \in Handlers \ {h} : handler'[g] = handler[g]
  BY DEF Receive, TypeOK
<1> QED
  BY <1>6, <1>7

LEMMA SerialKept ==
    ASSUME TypeOK, Serial, MaxInFlight = 1, [Next]_vars PROVE Serial'
<1>1. CASE UNCHANGED vars
  BY <1>1 DEF vars, Serial
<1>2. ASSUME NEW h \in Handlers, Receive(h) PROVE Serial'
  BY <1>2, ReceiveAlone DEF Serial
<1>3. ASSUME NEW h \in Handlers, Call(h) \/ FailedCall(h) \/ LostAnswer(h) PROVE Serial'
  BY <1>3, MovesAlone DEF Serial
<1>4. ASSUME NEW r \in Replicas, Crash(r) PROVE Serial'
  BY <1>4 DEF Crash, Serial
<1> QED
  BY <1>1, <1>2, <1>3, <1>4 DEF Next

-----------------------------------------------------------------------------
(* What the tables show of a change                                        *)

LEMMA VisibleHas ==
    /\ DOMAIN VisibleRoles = Convs /\ DOMAIN VisibleRoles' = Convs
    /\ \A c \in Convs :
         /\ VisibleRoles[c] = IF conversations[c] = "live" THEN members[c] ELSE Promise!Nobody
         /\ VisibleRoles'[c] = IF conversations'[c] = "live" THEN members'[c] ELSE Promise!Nobody
    /\ VisibleRoles = [c \in Convs |-> VisibleRoles[c]]
    /\ VisibleRoles' = [c \in Convs |-> VisibleRoles'[c]]
BY DEF VisibleRoles, Promise!Nobody, None, Promise!None

LEMMA SpentHas ==
    /\ \A c \in Convs : c \in SpentIds <=> conversations[c] = "deleted" \/ ~Empty(c)
    /\ \A c \in Convs : c \in SpentIds' <=> conversations'[c] = "deleted" \/ ~Empty(c)'
    /\ SpentIds \subseteq Convs /\ SpentIds' \subseteq Convs
BY DEF SpentIds, MembersOf, Empty

Unseen == UNCHANGED Promise!vars

(* Where only c changes, the rest looks the same. *)
LEMMA OnlyHere ==
    ASSUME NEW c \in Convs,
           \A d \in Convs \ {c} : conversations'[d] = conversations[d] /\ members'[d] = members[d]
    PROVE  /\ \A d \in Convs \ {c} : VisibleRoles'[d] = VisibleRoles[d]
           /\ \A d \in Convs \ {c} : d \in SpentIds' <=> d \in SpentIds
BY VisibleHas, SpentHas DEF Empty

LEMMA UnseenHere ==
    ASSUME NEW c \in Convs,
           \A d \in Convs \ {c} : conversations'[d] = conversations[d] /\ members'[d] = members[d],
           VisibleRoles'[c] = VisibleRoles[c], c \in SpentIds' <=> c \in SpentIds
    PROVE  Unseen
<1>1. \A d \in Convs : VisibleRoles'[d] = VisibleRoles[d]
  BY OnlyHere
<1>2. VisibleRoles' = VisibleRoles
  BY <1>1, VisibleHas
<1>3. SpentIds' = SpentIds
  BY OnlyHere, SpentHas
<1> QED
  BY <1>2, <1>3 DEF Unseen, Promise!vars

LEMMA TablesUnseen == ASSUME UNCHANGED <<conversations, members>> PROVE Unseen
BY DEF Unseen, Promise!vars, VisibleRoles, SpentIds, MembersOf

(* What happens in a deleted conversation is not seen. *)
LEMMA DeadUnseen ==
    ASSUME NEW c \in Convs, conversations[c] = "deleted", UNCHANGED conversations,
           \A d \in Convs \ {c} : members'[d] = members[d]
    PROVE  Unseen
<1>1. VisibleRoles'[c] = VisibleRoles[c] /\ c \in SpentIds /\ c \in SpentIds'
  BY VisibleHas, SpentHas
<1> QED
  BY <1>1, UnseenHere

(* A row without members is not seen either. *)
LEMMA RowUnseen ==
    ASSUME TypeOK, NEW c \in Convs, InsertConversation(c), Empty(c)
    PROVE  Unseen
<1>1. /\ conversations[c] = "absent" /\ conversations'[c] = "live"
      /\ \A d \in Convs \ {c} : conversations'[d] = conversations[d]
      /\ members' = members
  BY DEF InsertConversation, TypeOK
<1>2. members[c] = Promise!Nobody
  BY DEF Empty, TypeOK, Promise!Nobody, None, Promise!None
<1>3. VisibleRoles'[c] = VisibleRoles[c]
  BY <1>1, <1>2, VisibleHas
<1>4. c \notin SpentIds /\ c \notin SpentIds'
  BY <1>1, SpentHas DEF Empty
<1> QED
  BY <1>1, <1>3, <1>4, UnseenHere

(* A write to the membership of u in the live conversation c. *)
Shown(c, u, role) == VisibleRoles' = [VisibleRoles EXCEPT ![c][u] = role]

LEMMA RoleSeen ==
    ASSUME TypeOK, NEW c \in Convs, NEW u \in Users, NEW role \in Roles \cup {None},
           conversations[c] = "live", InsertMember(c, u, role)
    PROVE  /\ Shown(c, u, role)
           /\ VisibleRoles[c] = members[c]
           /\ members'[c][u] = role /\ \A v \in Users \ {u} : members'[c][v] = members[c][v]
           /\ \A d \in Convs \ {c} : d \in SpentIds' <=> d \in SpentIds
<1>1. /\ members'[c] = [members[c] EXCEPT ![u] = role] /\ UNCHANGED conversations
      /\ \A d \in Convs \ {c} : members'[d] = members[d]
      /\ members'[c][u] = role /\ \A v \in Users \ {u} : members'[c][v] = members[c][v]
  BY DEF TypeOK, InsertMember
<1>2. /\ VisibleRoles[c] = members[c] /\ VisibleRoles'[c] = members'[c]
      /\ \A d \in Convs \ {c} : VisibleRoles'[d] = VisibleRoles[d]
  BY <1>1, VisibleHas
<1>3. Shown(c, u, role)
  BY <1>1, <1>2, VisibleHas DEF Shown
<1> QED
  BY <1>1, <1>2, <1>3, OnlyHere

(* A live conversation is closed. *)
LEMMA ClosingSeen ==
    ASSUME TypeOK, NEW c \in Convs, MarkDeleted(c)
    PROVE  /\ conversations[c] = "live" /\ conversations'[c] = "deleted" /\ members' = members
           /\ VisibleRoles[c] = members[c]
           /\ VisibleRoles' = [VisibleRoles EXCEPT ![c] = Promise!Nobody]
           /\ SpentIds' = SpentIds \cup {c}
<1>1. /\ conversations[c] = "live" /\ conversations'[c] = "deleted"
      /\ \A d \in Convs \ {c} : conversations'[d] = conversations[d]
      /\ members' = members
  BY DEF MarkDeleted, TypeOK
<1>2. /\ VisibleRoles[c] = members[c] /\ VisibleRoles'[c] = Promise!Nobody
      /\ \A d \in Convs \ {c} : VisibleRoles'[d] = VisibleRoles[d]
  BY <1>1, VisibleHas
<1>3. VisibleRoles' = [VisibleRoles EXCEPT ![c] = Promise!Nobody]
  BY <1>2, VisibleHas
<1>4. SpentIds' = SpentIds \cup {c}
  BY <1>1, OnlyHere, SpentHas
<1> QED
  BY <1>1, <1>2, <1>3, <1>4

LEMMA PromisedStep ==
    ASSUME NEW c \in Convs, NEW u \in Users, NEW v \in Users, NEW role \in Roles,
           \/ Promise!Abandon(c) \/ Promise!Create(c, u)
           \/ Promise!Leave(c, u) \/ Promise!Delete(c, u) \/ Promise!Remove(c, u, v)
           \/ Promise!Add(c, u, v, role) \/ Promise!UpdateRole(c, u, v, role)
    PROVE  Promise!Next
BY DEF Promise!Next, Promise!Roles, Roles

-----------------------------------------------------------------------------
(* The steps of the only request                                           *)

Promised(h) == Sees(h)' /\ (Unseen \/ Promise!Next)

LEMMA AnswerSees == ASSUME TypeOK, NEW h \in Handlers, Answer(h) PROVE Sees(h)'
<1>1. handler'[h] = Idle
  BY DEF Answer, TypeOK
<1> QED
  BY <1>1, IdleSees

LEMMA ProceedHas ==
    ASSUME TypeOK, NEW h \in Handlers, handler[h].pc # "idle", NEW step, Proceed(h, step)
    PROVE  /\ handler'[h].pc = step
           /\ handler'[h].actor = handler[h].actor /\ handler'[h].target = handler[h].target
           /\ handler'[h].conv = handler[h].conv /\ handler'[h].role = handler[h].role
           /\ handler'[h].actorRole = handler[h].actorRole
BY BusyHandler DEF Proceed, TypeOK, Request

LEMMA BusyHas ==
    ASSUME TypeOK, NEW h \in Handlers, handler[h].pc # "idle"
    PROVE  /\ handler[h].actor \in Users /\ handler[h].target \in Users
           /\ handler[h].pc # "createConversation" => handler[h].conv \in Convs
           /\ handler[h].pc \in StepsOf(h[2]) /\ handler[h].role \in RolesOf(h[2])
           /\ h[2] \in AllSubjects
BY BusyHandler, HandlerSubject DEF Request

LEMMA ReceivePromised ==
    ASSUME TypeOK, NEW h \in Handlers, Receive(h) PROVE Promised(h)
<1> PICK actor \in Users, conv \in ConvsOf(h[2]), role \in RolesOf(h[2]) :
         \E target \in TargetsOf(h[2], actor) :
         handler' = [handler EXCEPT ![h] =
                       [pc |-> FirstStep(h[2], actor, target), actor |-> actor,
                        conv |-> conv, target |-> target, role |-> role,
                        actorRole |-> None]]
  BY DEF Receive
<1> PICK target \in TargetsOf(h[2], actor) :
         handler' = [handler EXCEPT ![h] =
                       [pc |-> FirstStep(h[2], actor, target), actor |-> actor,
                        conv |-> conv, target |-> target, role |-> role,
                        actorRole |-> None]]
  OBVIOUS
<1>1. /\ handler'[h].pc = FirstStep(h[2], actor, target)
      /\ handler'[h].actor = actor /\ handler'[h].target = target
  BY DEF TypeOK
<1>2. h[2] \in {"GROUP_CREATE", "GROUP_LEAVE"} => actor = target
  BY DEF TargetsOf
<1>3. /\ FirstStep(h[2], actor, target) \in {"createConversation", "getTarget", "getConversation"}
      /\ FirstStep(h[2], actor, target) = "getTarget"
           => h[2] = "GROUP_LEAVE" \/ (h[2] = "GROUP_REMOVE_MEMBER" /\ actor = target)
  BY DEF FirstStep
<1>4. Sees(h)'
  BY <1>1, <1>2, <1>3 DEF Sees
<1>5. Unseen
  BY TablesUnseen DEF Receive
<1> QED
  BY <1>4, <1>5 DEF Promised

LEMMA ReadPromised ==
    ASSUME TypeOK, NEW h \in Handlers, Sees(h),
           GetConversation(h) \/ GetActor(h) \/ GetTarget(h) \/ CountOwners(h)
    PROVE  Promised(h)
<1>0. /\ UNCHANGED <<conversations, members>> /\ handler[h].pc # "idle"
      /\ h[2] \in AllSubjects /\ handler[h].pc \in StepsOf(h[2])
  BY BusyHas DEF GetConversation, GetActor, GetTarget, CountOwners
<1> SUFFICES ASSUME ~Answer(h) PROVE Sees(h)'
  BY <1>0, TablesUnseen, AnswerSees DEF Promised
<1>1. CASE GetConversation(h)
  <2>1. Proceed(h, "getActor")
    BY <1>1 DEF GetConversation
  <2> QED
    BY <1>0, <2>1, ProceedHas DEF Sees
<1>2. CASE GetActor(h)
  <2> DEFINE actorRole == members[handler[h].conv][handler[h].actor]
             next == IF h[2] = "GROUP_DELETE" THEN "deleteConversation" ELSE "getTarget"
  <2>1. /\ ActorMay(h[2], actorRole, handler[h].role)
        /\ handler' = [handler EXCEPT ![h].actorRole = actorRole, ![h].pc = next]
        /\ handler[h].pc = "getActor"
    BY <1>2 DEF GetActor
  <2>2. /\ handler'[h].pc = next /\ handler'[h].actorRole = actorRole
        /\ handler'[h].actor = handler[h].actor /\ handler'[h].target = handler[h].target
        /\ handler'[h].conv = handler[h].conv /\ handler'[h].role = handler[h].role
    BY <1>0, <2>1, BusyHandler DEF TypeOK, Request
  <2>3. h[2] \in {"GROUP_ADD_MEMBER", "GROUP_REMOVE_MEMBER", "GROUP_UPDATE_ROLE", "GROUP_DELETE"}
    BY <1>0, <2>1 DEF StepsOf, AllSubjects
  <2>4. members'[handler'[h].conv][handler'[h].actor] = actorRole
    BY <1>0, <2>2
  <2>5. Sees(h)
    OBVIOUS
  <2> HIDE DEF actorRole, next
  <2>6. CASE h[2] = "GROUP_DELETE"
    <3>1. actorRole = "owner" /\ next = "deleteConversation"
      BY <2>1, <2>6 DEF ActorMay, next
    <3> QED
      BY <2>2, <2>4, <2>6, <3>1 DEF Sees
  <2>7. CASE h[2] = "GROUP_ADD_MEMBER"
    <3>1. next = "getTarget" /\ (actorRole = "owner" \/ (actorRole = "admin" /\ handler[h].role = "member"))
      BY <2>1, <2>7 DEF ActorMay, next
    <3> QED
      BY <2>2, <2>4, <2>7, <3>1 DEF Sees
  <2>8. CASE h[2] = "GROUP_UPDATE_ROLE"
    <3>1. next = "getTarget" /\ actorRole = "owner"
      BY <2>1, <2>8 DEF ActorMay, next
    <3> QED
      BY <2>2, <2>4, <2>8, <3>1 DEF Sees
  <2>9. CASE h[2] = "GROUP_REMOVE_MEMBER"
    <3>1. next = "getTarget" /\ actorRole # None
      BY <2>1, <2>9 DEF ActorMay, next
    <3> QED
      BY <2>2, <2>4, <2>9, <3>1 DEF Sees
  <2> QED
    BY <2>3, <2>6, <2>7, <2>8, <2>9
<1>3. CASE GetTarget(h)
  <2> DEFINE target == members[handler[h].conv][handler[h].target]
             next == AfterTarget(h[2], handler[h], target)
  <2>1. next # "idle" /\ Proceed(h, next) /\ handler[h].pc = "getTarget"
    BY <1>3 DEF GetTarget
  <2>2. /\ handler'[h].pc = next /\ handler'[h].actorRole = handler[h].actorRole
        /\ handler'[h].actor = handler[h].actor /\ handler'[h].target = handler[h].target
        /\ handler'[h].conv = handler[h].conv /\ handler'[h].role = handler[h].role
    BY <1>0, <2>1, ProceedHas
  <2>3. CASE h[2] = "GROUP_ADD_MEMBER"
    <3>1. next = "createMember"
      BY <2>1, <2>3 DEF AfterTarget
    <3> QED
      BY <1>0, <2>1, <2>2, <2>3, <3>1 DEF Sees
  <2>4. CASE h[2] = "GROUP_UPDATE_ROLE"
    <3>1. next \in {"countOwners", "updateRole"} /\ target # handler[h].role
      BY <2>1, <2>4 DEF AfterTarget
    <3> QED
      BY <1>0, <2>1, <2>2, <2>4, <3>1 DEF Sees
  <2>5. CASE h[2] \in {"GROUP_REMOVE_MEMBER", "GROUP_LEAVE"}
    <3>1. /\ next \in {"countOwners", "deleteMember"} /\ target # None
          /\ handler[h].actor # handler[h].target =>
               /\ handler[h].actorRole # "member"
               /\ handler[h].actorRole = "admin" => target = "member"
      BY <2>1, <2>5 DEF AfterTarget
    <3> DEFINE actor == members[handler[h].conv][handler[h].actor]
    <3>2. actor \in {"owner", "admin", "member", None}
      BY <1>0, <2>1, BusyHas DEF TypeOK, Roles
    <3>3. h[2] = "GROUP_REMOVE_MEMBER" /\ handler[h].actor # handler[h].target =>
            handler[h].actorRole = actor /\ actor # None
      BY <2>1 DEF Sees
    <3>4. h[2] = "GROUP_LEAVE" => handler[h].actor = handler[h].target
      BY DEF Sees
    <3>5. /\ members'[handler'[h].conv][handler'[h].actor] = actor
          /\ members'[handler'[h].conv][handler'[h].target] = target
      BY <1>0, <2>2
    <3> HIDE DEF actor, target, next
    <3>6. handler[h].actor # handler[h].target =>
            actor = "owner" \/ (actor = "admin" /\ target = "member")
      BY <2>5, <3>1, <3>2, <3>3, <3>4
    <3> QED
      BY <2>2, <2>5, <3>1, <3>4, <3>5, <3>6 DEF Sees
  <2>6. h[2] \in {"GROUP_ADD_MEMBER", "GROUP_UPDATE_ROLE", "GROUP_REMOVE_MEMBER", "GROUP_LEAVE"}
    BY <1>0, <2>1 DEF StepsOf, AllSubjects
  <2> QED
    BY <2>3, <2>4, <2>5, <2>6
<1>4. CASE CountOwners(h)
  <2> DEFINE next == IF h[2] = "GROUP_UPDATE_ROLE" THEN "updateRole" ELSE "deleteMember"
  <2>1. Proceed(h, next) /\ handler[h].pc = "countOwners"
    BY <1>4 DEF CountOwners
  <2>2. /\ handler'[h].pc = next /\ handler'[h].actorRole = handler[h].actorRole
        /\ handler'[h].actor = handler[h].actor /\ handler'[h].target = handler[h].target
        /\ handler'[h].conv = handler[h].conv /\ handler'[h].role = handler[h].role
    BY <1>0, <2>1, ProceedHas
  <2>3. h[2] \in {"GROUP_UPDATE_ROLE", "GROUP_REMOVE_MEMBER", "GROUP_LEAVE"}
    BY <1>0, <2>1 DEF StepsOf, AllSubjects
  <2> QED
    BY <1>0, <2>1, <2>2, <2>3 DEF Sees
<1> QED
  BY <1>1, <1>2, <1>3, <1>4

(* A creation stores its owner's membership. *)
LEMMA OpeningPromised ==
    ASSUME TypeOK, NEW c \in Convs, NEW u \in Users, conversations[c] = "live", Empty(c),
           InsertMember(c, u, "owner")
    PROVE  Promise!Next
<1>0. "owner" \in Roles \cup {None}
  BY DEF Roles
<1>1. /\ Shown(c, u, "owner") /\ members'[c][u] = "owner"
      /\ \A d \in Convs \ {c} : d \in SpentIds' <=> d \in SpentIds
  BY <1>0, RoleSeen
<1>2. c \notin SpentIds /\ c \in SpentIds'
  BY <1>1, SpentHas DEF Empty, None
<1>3. SpentIds' = SpentIds \cup {c}
  BY <1>1, <1>2, SpentHas
<1>4. Promise!Create(c, u)
  BY <1>1, <1>2, <1>3 DEF Promise!Create, Shown
<1> QED
  BY <1>4, PromisedStep DEF Roles

(* An owner's deletion, or what undoes a creation, marks the row. *)
LEMMA ClosingPromised ==
    ASSUME TypeOK, NEW c \in Convs, NEW u \in Users, MarkDeleted(c),
           Empty(c) \/ members[c][u] = "owner"
    PROVE  Promise!Next
<1>1. /\ conversations[c] = "live" /\ VisibleRoles[c] = members[c]
      /\ VisibleRoles' = [VisibleRoles EXCEPT ![c] = Promise!Nobody]
      /\ SpentIds' = SpentIds \cup {c}
  BY ClosingSeen
<1>2. CASE Empty(c)
  <2>1. VisibleRoles[c] = Promise!Nobody
    BY <1>1, <1>2 DEF Empty, TypeOK, Promise!Nobody, None, Promise!None
  <2>2. VisibleRoles' = VisibleRoles
    BY <1>1, <2>1, VisibleHas
  <2>3. c \notin SpentIds
    BY <1>1, <1>2, SpentHas
  <2>4. Promise!Abandon(c)
    BY <1>1, <2>2, <2>3 DEF Promise!Abandon
  <2> QED
    BY <2>4, PromisedStep DEF Roles
<1>3. CASE members[c][u] = "owner"
  <2>1. c \in SpentIds
    BY <1>3, SpentHas DEF Empty, None
  <2>2. SpentIds' = SpentIds
    BY <1>1, <2>1
  <2>3. Promise!Delete(c, u)
    BY <1>1, <1>3, <2>2 DEF Promise!Delete
  <2> QED
    BY <2>3, PromisedStep DEF Roles
<1> QED
  BY <1>2, <1>3

LEMMA CreationSubject ==
    ASSUME TypeOK, NEW h \in Handlers
    PROVE  /\ handler[h].pc \in {"createConversation", "compensate"} => h[2] = "GROUP_CREATE"
           /\ handler[h].pc = "createMember" => h[2] \in {"GROUP_CREATE", "GROUP_ADD_MEMBER"}
           /\ handler[h].pc \in {"deleteConversation", "deleteMembers"} => h[2] = "GROUP_DELETE"
           /\ handler[h].pc = "updateRole" => h[2] = "GROUP_UPDATE_ROLE"
           /\ handler[h].pc = "deleteMember" => h[2] \in {"GROUP_REMOVE_MEMBER", "GROUP_LEAVE"}
<1> SUFFICES ASSUME handler[h].pc # "idle"
             PROVE  /\ handler[h].pc \in {"createConversation", "compensate"} => h[2] = "GROUP_CREATE"
                    /\ handler[h].pc = "createMember" => h[2] \in {"GROUP_CREATE", "GROUP_ADD_MEMBER"}
                    /\ handler[h].pc \in {"deleteConversation", "deleteMembers"} => h[2] = "GROUP_DELETE"
                    /\ handler[h].pc = "updateRole" => h[2] = "GROUP_UPDATE_ROLE"
                    /\ handler[h].pc = "deleteMember" => h[2] \in {"GROUP_REMOVE_MEMBER", "GROUP_LEAVE"}
  OBVIOUS
<1>1. handler[h].pc \in StepsOf(h[2]) /\ h[2] \in AllSubjects
  BY BusyHas
<1> QED
  BY <1>1 DEF StepsOf, AllSubjects

LEMMA CreateConversationPromised ==
    ASSUME OwnerInv, NEW h \in Handlers, Sees(h), CreateConversation(h)
    PROVE  Promised(h)
<1>0. TypeOK /\ TablesOK /\ handler[h].pc = "createConversation" /\ h[2] = "GROUP_CREATE"
  BY CreationSubject DEF OwnerInv, CreateConversation
<1>1. CASE Answer(h) /\ UNCHANGED <<conversations, members>>
  BY <1>0, <1>1, AnswerSees, TablesUnseen DEF Promised
<1>2. ASSUME NEW c \in Convs, InsertConversation(c),
             handler' = [handler EXCEPT ![h].conv = c, ![h].pc = "createMember"]
      PROVE  Promised(h)
  <2>1. Empty(c)
    BY <1>0, <1>2 DEF TablesOK, InsertConversation, Empty
  <2>2. /\ handler'[h].pc = "createMember" /\ handler'[h].conv = c
        /\ handler'[h].actor = handler[h].actor /\ handler'[h].target = handler[h].target
    BY <1>0, <1>2, BusyHandler DEF TypeOK, Request
  <2>3. conversations'[c] = "live" /\ Empty(c)'
    BY <1>0, <1>2, <2>1 DEF InsertConversation, TypeOK, Empty
  <2>4. Sees(h)'
    BY <1>0, <2>2, <2>3 DEF Sees
  <2> QED
    BY <1>0, <1>2, <2>1, <2>4, RowUnseen DEF Promised
<1> QED
  BY <1>1, <1>2 DEF CreateConversation

(* An insert that fails is undone by a creation. *)
LEMMA InsertFailsPromised ==
    ASSUME TypeOK, NEW h \in Handlers, Sees(h), handler[h].pc = "createMember",
           InsertFails(h), UNCHANGED <<conversations, members>>
    PROVE  Promised(h)
<1>1. CASE Answer(h)
  BY <1>1, AnswerSees, TablesUnseen DEF Promised
<1>2. CASE h[2] = "GROUP_CREATE" /\ Proceed(h, "compensate")
  <2>1. /\ handler'[h].pc = "compensate" /\ handler'[h].conv = handler[h].conv
        /\ handler'[h].actor = handler[h].actor /\ handler'[h].target = handler[h].target
    BY <1>2, ProceedHas
  <2>2. conversations[handler[h].conv] = "live" /\ Empty(handler[h].conv)
    BY <1>2 DEF Sees
  <2>3. conversations'[handler[h].conv] = "live"
    BY <2>2
  <2>4. Empty(handler[h].conv)'
    BY <2>1, <2>2 DEF Empty
  <2>5. handler'[h].actor = handler'[h].target
    BY <1>2, <2>1 DEF Sees
  <2>6. Sees(h)'
    BY <1>2, <2>1, <2>3, <2>4, <2>5 DEF Sees
  <2> QED
    BY <2>6, TablesUnseen DEF Promised
<1> QED
  BY <1>1, <1>2 DEF InsertFails

LEMMA CreateMemberPromised ==
    ASSUME OwnerInv, NEW h \in Handlers, Sees(h), CreateMember(h)
    PROVE  Promised(h)
<1> DEFINE c == handler[h].conv
           u == handler[h].target
           a == handler[h].actor
           role == handler[h].role
<1>0. /\ TypeOK /\ TablesOK /\ HandlerKnows(h) /\ handler[h].pc = "createMember"
      /\ h[2] \in {"GROUP_CREATE", "GROUP_ADD_MEMBER"}
  BY CreationSubject DEF OwnerInv, CreateMember
<1>1. c \in Convs /\ u \in Users /\ a \in Users /\ role \in RolesOf(h[2])
  BY <1>0, BusyHas
<1>2. CASE InsertFails(h) /\ UNCHANGED <<conversations, members>>
  BY <1>0, <1>2, InsertFailsPromised
<1>3. CASE Insertable(c, u) /\ InsertMember(c, u, role) /\ Answer(h)
  <2>1. Sees(h)'
    BY <1>0, <1>3, AnswerSees
  <2>2. CASE h[2] = "GROUP_CREATE"
    <3>1. role = "owner" /\ conversations[c] = "live" /\ Empty(c)
      BY <1>0, <1>1, <2>2 DEF Sees, RolesOf
    <3> QED
      BY <1>0, <1>1, <1>3, <2>1, <3>1, OpeningPromised DEF Promised
  <2>3. CASE h[2] = "GROUP_ADD_MEMBER" /\ conversations[c] = "live"
    <3>1. role \in Roles /\ members[c][u] = None /\ UNCHANGED conversations
      BY <1>1, <1>3, <2>3 DEF RolesOf, Insertable, InsertMember
    <3>2. members[c][a] = "owner" \/ (members[c][a] = "admin" /\ role = "member")
      BY <1>0, <2>3 DEF Sees
    <3> HIDE DEF c, u, a, role
    <3>3. /\ Shown(c, u, role)
          /\ VisibleRoles[c] = members[c] /\ members'[c][u] = role
          /\ \A d \in Convs \ {c} : d \in SpentIds' <=> d \in SpentIds
      BY <1>0, <1>1, <1>3, <2>3, <3>1, RoleSeen
    <3>4. c \in SpentIds /\ c \in SpentIds'
      BY <1>1, <3>1, <3>2, <3>3, SpentHas DEF Empty, None, Roles
    <3>5. SpentIds' = SpentIds
      BY <3>3, <3>4, SpentHas
    <3>6. Promise!Add(c, a, u, role)
      BY <3>1, <3>2, <3>3, <3>5 DEF Promise!Add, Shown, None, Promise!None
    <3>7. Promise!Next
      BY <1>1, <3>1, <3>6, PromisedStep
    <3> QED
      BY <2>1, <3>7 DEF Promised
  <2>4. CASE h[2] = "GROUP_ADD_MEMBER" /\ conversations[c] # "live"
    <3>1. conversations[c] = "deleted"
      BY <1>0, <1>1, <2>4 DEF HandlerKnows, Entitled, TypeOK
    <3>2. UNCHANGED conversations /\ \A d \in Convs \ {c} : members'[d] = members[d]
      BY <1>0, <1>3 DEF InsertMember, TypeOK
    <3>3. Unseen
      BY <1>1, <3>1, <3>2, DeadUnseen
    <3> QED
      BY <2>1, <3>3 DEF Promised
  <2> QED
    BY <1>0, <2>2, <2>3, <2>4
<1> QED
  BY <1>2, <1>3 DEF CreateMember

(* A write that leaves u a member, or another owner, keeps c in use. *)
LEMMA StaysSpent ==
    ASSUME NEW c \in Convs, c \in SpentIds, \E v \in Users : members'[c][v] # None,
           \A d \in Convs \ {c} : d \in SpentIds' <=> d \in SpentIds
    PROVE  SpentIds' = SpentIds
BY SpentHas DEF Empty

LEMMA WriteRoleHas ==
    ASSUME TypeOK, NEW c \in Convs, NEW u \in Users, NEW role, WriteRole(c, u, role),
           UNCHANGED conversations
    PROVE  /\ members[c][u] # None => InsertMember(c, u, role)
           /\ \A d \in Convs \ {c} : members'[d] = members[d]
BY DEF WriteRole, InsertMember, TypeOK

LEMMA UpdateRolePromised ==
    ASSUME OwnerInv, NEW h \in Handlers, Sees(h), UpdateRole(h)
    PROVE  Promised(h)
<1> DEFINE c == handler[h].conv
           u == handler[h].target
           a == handler[h].actor
           role == handler[h].role
<1>0. /\ TypeOK /\ TablesOK /\ HandlerKnows(h) /\ handler[h].pc = "updateRole"
      /\ h[2] = "GROUP_UPDATE_ROLE" /\ WriteRole(c, u, role) /\ UNCHANGED conversations
      /\ Answer(h)
  BY CreationSubject DEF OwnerInv, UpdateRole
<1>1. c \in Convs /\ u \in Users /\ a \in Users /\ role \in RolesOf(h[2])
  BY <1>0, BusyHas
<1>2. Sees(h)'
  BY <1>0, AnswerSees
<1>3. role \in Roles
  BY <1>0, <1>1 DEF RolesOf
<1>4. members[c][a] = "owner" /\ members[c][u] # role
  BY <1>0 DEF Sees
<1>5. conversations[c] # "absent"
  BY <1>0 DEF HandlerKnows, Entitled
<1>6. conversations[c] = "live" =>
        /\ members[c][u] # None
        /\ members[c][u] = "owner" => \E v \in Users \ {u} : members[c][v] = "owner"
  BY <1>0 DEF HandlerKnows
<1> HIDE DEF c, u, a, role
<1>7. CASE conversations[c] = "live"
  <2>1. InsertMember(c, u, role)
    BY <1>0, <1>1, <1>6, <1>7, WriteRoleHas
  <2>2. /\ Shown(c, u, role)
        /\ VisibleRoles[c] = members[c] /\ members'[c][u] = role
        /\ \A d \in Convs \ {c} : d \in SpentIds' <=> d \in SpentIds
    BY <1>0, <1>1, <1>3, <1>7, <2>1, RoleSeen
  <2>3. c \in SpentIds
    BY <1>1, <1>4, SpentHas DEF Empty, None
  <2>4. SpentIds' = SpentIds
    BY <1>1, <1>3, <2>2, <2>3, StaysSpent DEF Roles, None
  <2>5. members[c][u] = "owner" => Promise!Spare(c, u)
    BY <1>6, <1>7, <2>2 DEF Promise!Spare, Promise!OwnersOf
  <2>6. Promise!UpdateRole(c, a, u, role)
    BY <1>4, <1>6, <1>7, <2>2, <2>4, <2>5 DEF Promise!UpdateRole, Shown, None, Promise!None
  <2> QED
    BY <1>1, <1>2, <1>3, <2>6, PromisedStep DEF Promised
<1>8. CASE conversations[c] = "deleted"
  BY <1>0, <1>1, <1>2, <1>8, WriteRoleHas, DeadUnseen DEF Promised
<1> QED
  BY <1>0, <1>1, <1>5, <1>7, <1>8 DEF TypeOK

LEMMA DeleteMemberPromised ==
    ASSUME OwnerInv, NEW h \in Handlers, Sees(h), DeleteMember(h)
    PROVE  Promised(h)
<1> DEFINE c == handler[h].conv
           u == handler[h].target
           a == handler[h].actor
<1>0. /\ TypeOK /\ TablesOK /\ HandlerKnows(h) /\ handler[h].pc = "deleteMember"
      /\ h[2] \in {"GROUP_REMOVE_MEMBER", "GROUP_LEAVE"}
      /\ WriteRole(c, u, None) /\ UNCHANGED conversations /\ Answer(h)
  BY CreationSubject DEF OwnerInv, DeleteMember
<1>1. c \in Convs /\ u \in Users /\ a \in Users
  BY <1>0, BusyHas
<1>2. Sees(h)'
  BY <1>0, AnswerSees
<1>3. a # u => members[c][a] = "owner" \/ (members[c][a] = "admin" /\ members[c][u] = "member")
  BY <1>0 DEF Sees
<1>4. conversations[c] # "absent"
  BY <1>0 DEF HandlerKnows, Entitled
<1>5. conversations[c] = "live" =>
        /\ members[c][u] # None
        /\ members[c][u] = "owner" => \E v \in Users \ {u} : members[c][v] = "owner"
  BY <1>0 DEF HandlerKnows
<1> HIDE DEF c, u, a
<1>6. CASE conversations[c] = "live"
  <2>1. InsertMember(c, u, None)
    BY <1>0, <1>1, <1>5, <1>6, WriteRoleHas
  <2>2. /\ Shown(c, u, None) /\ VisibleRoles[c] = members[c]
        /\ \A v \in Users \ {u} : members'[c][v] = members[c][v]
        /\ \A d \in Convs \ {c} : d \in SpentIds' <=> d \in SpentIds
    BY <1>0, <1>1, <1>6, <2>1, RoleSeen
  <2>3. c \in SpentIds
    BY <1>1, <1>5, <1>6, SpentHas DEF Empty
  <2>4. PICK v \in Users \ {u} : members[c][v] = "owner"
    BY <1>0, <1>1, <1>5, <1>6 DEF TablesOK
  <2>5. members'[c][v] # None
    BY <2>2, <2>4 DEF None
  <2>6. SpentIds' = SpentIds
    BY <1>1, <2>2, <2>3, <2>5, StaysSpent
  <2>7. Promise!Spare(c, u)
    BY <2>2, <2>4 DEF Promise!Spare, Promise!OwnersOf
  <2>8. CASE a = u
    <3>1. Promise!Leave(c, u)
      BY <1>5, <1>6, <2>2, <2>6, <2>7 DEF Promise!Leave, Shown, None, Promise!None
    <3> QED
      BY <1>1, <1>2, <3>1, PromisedStep DEF Promised, Roles
  <2>9. CASE a # u
    <3>1. Promise!Remove(c, a, u)
      BY <1>3, <1>5, <1>6, <2>2, <2>6, <2>9 DEF Promise!Remove, Shown, None, Promise!None
    <3> QED
      BY <1>1, <1>2, <3>1, PromisedStep DEF Promised, Roles
  <2> QED
    BY <2>8, <2>9
<1>7. CASE conversations[c] = "deleted"
  BY <1>0, <1>1, <1>2, <1>7, WriteRoleHas, DeadUnseen DEF Promised
<1> QED
  BY <1>0, <1>1, <1>4, <1>6, <1>7 DEF TypeOK

LEMMA DeletionPromised ==
    ASSUME OwnerInv, NEW h \in Handlers, Sees(h),
           DeleteConversation(h) \/ DeleteMembers(h) \/ Compensate(h)
    PROVE  Promised(h)
<1> DEFINE c == handler[h].conv
           a == handler[h].actor
<1>0. TypeOK /\ HandlerKnows(h) /\ handler[h].pc # "idle"
  BY DEF OwnerInv, DeleteConversation, DeleteMembers, Compensate
<1>1. a \in Users /\ c \in Convs
  BY <1>0, BusyHas DEF DeleteConversation, DeleteMembers, Compensate
<1>2. CASE Answer(h) /\ UNCHANGED <<conversations, members>>
  BY <1>0, <1>2, AnswerSees, TablesUnseen DEF Promised
<1>3. CASE handler[h].pc = "deleteConversation" /\ MarkDeleted(c) /\ Proceed(h, "deleteMembers")
  <2>1. members[c][a] = "owner" /\ h[2] = "GROUP_DELETE"
    BY <1>0, <1>3, CreationSubject DEF Sees
  <2>2. handler'[h].pc = "deleteMembers"
    BY <1>0, <1>3, ProceedHas
  <2>3. Sees(h)'
    BY <2>1, <2>2 DEF Sees
  <2> QED
    BY <1>0, <1>1, <1>3, <2>1, <2>3, ClosingPromised DEF Promised
<1>4. CASE DeleteMembers(h)
  <2>1. /\ conversations[c] = "deleted" /\ UNCHANGED conversations /\ Answer(h)
        /\ \A d \in Convs \ {c} : members'[d] = members[d]
    BY <1>0, <1>4 DEF DeleteMembers, HandlerKnows, TypeOK
  <2> QED
    BY <1>0, <1>1, <2>1, AnswerSees, DeadUnseen DEF Promised
<1>5. CASE handler[h].pc = "compensate" /\ MarkDeleted(c) /\ Answer(h)
  <2>1. Empty(c) \/ members[c][a] = "owner"
    BY <1>5 DEF Sees
  <2> QED
    BY <1>0, <1>1, <1>5, <2>1, AnswerSees, ClosingPromised DEF Promised
<1> QED
  BY <1>2, <1>3, <1>4, <1>5 DEF DeleteConversation, Compensate

LEMMA FaultPromised ==
    ASSUME OwnerInv, NEW h \in Handlers, Sees(h), FailedCall(h) \/ LostAnswer(h)
    PROVE  Promised(h)
<1> DEFINE c == handler[h].conv
           a == handler[h].actor
<1>0. TypeOK /\ TablesOK
  BY DEF OwnerInv
<1>1. CASE FailedCall(h)
  BY <1>0, <1>1, InsertFailsPromised, AnswerSees, TablesUnseen DEF FailedCall, Promised
<1>2. ASSUME NEW d \in Convs, Answer(h), InsertConversation(d) PROVE Promised(h)
  <2>1. Empty(d)
    BY <1>0, <1>2 DEF TablesOK, InsertConversation, Empty
  <2> QED
    BY <1>0, <1>2, <2>1, AnswerSees, RowUnseen DEF Promised
<1>3. CASE handler[h].pc = "deleteConversation" /\ Answer(h) /\ MarkDeleted(c)
  <2>1. a \in Users /\ c \in Convs /\ members[c][a] = "owner"
    BY <1>0, <1>3, BusyHas DEF Sees
  <2> QED
    BY <1>0, <1>3, <2>1, AnswerSees, ClosingPromised DEF Promised
<1>4. CASE /\ handler[h].pc = "createMember" /\ h[2] = "GROUP_CREATE"
           /\ InsertMember(c, handler[h].target, handler[h].role) /\ Proceed(h, "compensate")
  <2>1. a \in Users /\ c \in Convs /\ handler[h].role = "owner"
    BY <1>0, <1>4, BusyHas DEF RolesOf
  <2>2. conversations[c] = "live" /\ Empty(c) /\ a = handler[h].target
    BY <1>4 DEF Sees
  <2>3. InsertMember(c, a, "owner")
    BY <1>4, <2>1, <2>2
  <2>4. /\ handler'[h].pc = "compensate" /\ handler'[h].conv = c
        /\ handler'[h].actor = a /\ handler'[h].target = a
    BY <1>0, <1>4, <2>2, ProceedHas
  <2>5. conversations'[c] = "live" /\ members'[c][a] = "owner"
    BY <1>0, <2>1, <2>2, <2>3 DEF InsertMember, TypeOK
  <2>6. Sees(h)'
    BY <1>4, <2>4, <2>5 DEF Sees
  <2> QED
    BY <1>0, <2>1, <2>2, <2>3, <2>6, OpeningPromised DEF Promised
<1> QED
  BY <1>1, <1>2, <1>3, <1>4 DEF LostAnswer

LEMMA StepPromised ==
    ASSUME OwnerInv, SerialInv, MaxInFlight = 1, Storage = "memory" => "crash" \notin Faults,
           [Next]_vars
    PROVE  SerialInv' /\ (Unseen \/ Promise!Next)
<1>0. TypeOK /\ Serial /\ \A g \in Handlers : Sees(g)
  BY DEF OwnerInv, SerialInv
<1>1. Serial'
  BY <1>0, SerialKept
<1>2. CASE UNCHANGED vars
  <2>1. UNCHANGED <<conversations, members, handler>>
    BY <1>2 DEF vars
  <2>2. \A g \in Handlers : Sees(g)'
    BY <1>0, <2>1 DEF Sees, Empty
  <2> QED
    BY <1>1, <2>1, <2>2, TablesUnseen DEF SerialInv
<1>3. ASSUME NEW h \in Handlers, Receive(h) PROVE SerialInv' /\ (Unseen \/ Promise!Next)
  <2>1. \A g \in Handlers \ {h} : Sees(g)'
    BY <1>0, <1>3, ReceiveAlone, IdleSees
  <2>2. Promised(h)
    BY <1>0, <1>3, ReceivePromised
  <2> QED
    BY <1>1, <2>1, <2>2 DEF SerialInv, Promised
<1>4. ASSUME NEW h \in Handlers, Call(h) \/ FailedCall(h) \/ LostAnswer(h)
      PROVE  SerialInv' /\ (Unseen \/ Promise!Next)
  <2>1. handler[h] # Idle /\ \A g \in Handlers \ {h} : handler'[g] = handler[g]
    BY <1>0, <1>4, MovesAlone
  <2>2. \A g \in Handlers \ {h} : handler'[g] = Idle
    BY <1>0, <2>1 DEF Serial
  <2>3. \A g \in Handlers \ {h} : Sees(g)'
    BY <2>2, IdleSees
  <2>4. Promised(h)
    BY <1>0, <1>4, ReadPromised, CreateConversationPromised, CreateMemberPromised,
       UpdateRolePromised, DeleteMemberPromised, DeletionPromised, FaultPromised DEF Call
  <2> QED
    BY <1>1, <2>3, <2>4 DEF SerialInv, Promised
<1>5. ASSUME NEW r \in Replicas, Crash(r) PROVE SerialInv' /\ (Unseen \/ Promise!Next)
  <2>1. UNCHANGED <<conversations, members>>
    BY <1>5, ConstantsAssumption DEF Crash, ConstantsAssumption
  <2>2. \A g \in Handlers : handler'[g] = Idle \/ handler'[g] = handler[g]
    BY <1>5 DEF Crash
  <2>3. ASSUME NEW g \in Handlers PROVE Sees(g)'
    <3>1. CASE handler'[g] = Idle
      BY <3>1, IdleSees
    <3>2. CASE handler'[g] = handler[g]
      BY <1>0, <2>1, <3>2 DEF Sees, Empty
    <3> QED
      BY <2>2, <3>1, <3>2
  <2> QED
    BY <1>1, <2>1, <2>3, TablesUnseen DEF SerialInv
<1> QED
  BY <1>2, <1>3, <1>4, <1>5 DEF Next

LEMMA PromiseStarts == Init => SerialInv /\ Promise!Init
<1> SUFFICES ASSUME Init PROVE SerialInv /\ Promise!Init
  OBVIOUS
<1>1. /\ \A h \in Handlers : handler[h] = Idle
      /\ conversations = [c \in Convs |-> "absent"]
      /\ members = [c \in Convs |-> [u \in Users |-> None]]
  BY DEF Init
<1>2. SerialInv
  BY <1>1 DEF SerialInv, Serial, Sees, Idle
<1>3. VisibleRoles = [c \in Convs |-> Promise!Nobody]
  BY <1>1 DEF VisibleRoles, Promise!Nobody, None, Promise!None
<1>4. SpentIds = {}
  BY <1>1, SpentHas DEF Empty
<1> QED
  BY <1>2, <1>3, <1>4 DEF Promise!Init

LEMMA SerialNoOverlap == SerialInv => NoOverlap
BY DEF SerialInv, Serial, NoOverlap, Reducers

(* As long as the service handles one request at a time, it implements     *)
(* Membership: every request takes effect in a single step, with the       *)
(* authority and the guards stated there, although it is a sequence of     *)
(* calls that may fail, whose answers may be lost and between which a      *)
(* replica may stop.  The memory repository forgets everything when its    *)
(* process stops, and so is left out when that happens.                    *)
THEOREM MembershipImplemented ==
    ASSUME MaxInFlight = 1, Storage = "memory" => "crash" \notin Faults
    PROVE  Spec => KeepsPromise
<1>1. Init => OwnerInv
  BY DEF Init, OwnerInv, TypeOK, TablesOK, HandlerKnows, Entitled, Idle
<1>2. OwnerInv /\ SerialInv /\ [Next]_vars => OwnerInv'
  BY StepKeeps, SerialNoOverlap
<1>3. OwnerInv /\ SerialInv /\ [Next]_vars => SerialInv' /\ [Promise!Next]_(Promise!vars)
  BY StepPromised DEF Unseen
<1>4. KeepsPromise <=> Promise!Init /\ [][Promise!Next]_(Promise!vars)
  BY DEF KeepsPromise, Promise!Spec
<1> QED
  BY <1>1, <1>2, <1>3, <1>4, PromiseStarts, PTL DEF Spec

=============================================================================
