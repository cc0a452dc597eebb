---------------------------- MODULE Conversations ----------------------------
(***************************************************************************)
(* The conversation half of services/message: the GROUP_* handlers, the    *)
(* conversation service behind them and the two repositories.              *)
(*                                                                         *)
(* A replica subscribes to every subject and nats.go calls one             *)
(* subscription's callback at a time, so a handler is a (replica, subject) *)
(* pair working on at most one request.  A request is a sequence of        *)
(* repository calls with no transaction around them: each call (an SQL     *)
(* statement, or a section under the memory repository's mutex) is one     *)
(* step here and the calls of different handlers interleave freely.        *)
(*                                                                         *)
(* GROUP_GET, GROUP_LIST_FOR_USER and GROUP_LIST_MEMBERS only read and are *)
(* left out, as are payload validation and the fields nobody decides on    *)
(* (name, avatar, timestamps).                                             *)
(*                                                                         *)
(* An operator whose name ends in Mutant is a plausible mistake in the     *)
(* definition that follows it and is used nowhere: put in that             *)
(* definition's place, it breaks a property.                               *)
(***************************************************************************)
EXTENDS Naturals, FiniteSets

CONSTANTS
    Users,          \* user identifiers
    Convs,          \* identifiers the conversations table can hand out
    Replicas,       \* running copies of message-service
    Subjects,       \* the subjects on which requests arrive
    Storage,        \* "postgres" or "memory" (STORAGE in cmd/main.go)
    Faults,         \* what may go wrong: SUBSET {"call", "answer", "crash"}
    MaxInFlight     \* bound: requests being handled at the same time

AllSubjects == {"GROUP_CREATE", "GROUP_ADD_MEMBER", "GROUP_REMOVE_MEMBER",
                "GROUP_UPDATE_ROLE", "GROUP_LEAVE", "GROUP_DELETE"}

Roles == {"member", "admin", "owner"}
None  == "none"

Handlers == Replicas \X Subjects

ASSUME ConstantsAssumption ==
    /\ IsFiniteSet(Users)
    /\ IsFiniteSet(Replicas)
    /\ None \notin Convs
    /\ Subjects \subseteq AllSubjects
    /\ Storage \in {"postgres", "memory"}
    /\ Faults \subseteq {"call", "answer", "crash"}
    /\ MaxInFlight \in Nat
    \* each process of the memory build has tables of its own, and a map never
    \* fails to answer
    /\ Storage = "memory" => /\ \A r, s \in Replicas : r = s
                             /\ Faults \subseteq {"crash"}

VARIABLES
    conversations,  \* conversations[c]: the row c of the table
    members,        \* members[c][u]: role of the active membership row, or None
    handler         \* handler[h]: the request h works on and its next call

vars == <<conversations, members, handler>>

Steps == {"createConversation", "getConversation", "getActor", "getTarget",
          "countOwners", "createMember", "updateRole", "deleteMember",
          "deleteConversation", "deleteMembers", "compensate"}

Idle == [pc |-> "idle", actor |-> None, conv |-> None, target |-> None,
         role |-> None, actorRole |-> None]

Request == [pc : Steps, actor : Users, conv : Convs \cup {None}, target : Users,
            role : Roles \cup {None}, actorRole : Roles \cup {None}]

(* The role a request carries: a creator becomes an owner. *)
RolesOf(subject) ==
    CASE subject = "GROUP_CREATE" -> {"owner"}
      [] subject \in {"GROUP_ADD_MEMBER", "GROUP_UPDATE_ROLE"} -> Roles
      [] OTHER -> {None}

(* The calls the handler of a subject can be about to make. *)
StepsOf(subject) ==
    CASE subject = "GROUP_CREATE" -> {"createConversation", "createMember", "compensate"}
      [] subject = "GROUP_ADD_MEMBER" ->
           {"getConversation", "getActor", "getTarget", "createMember"}
      [] subject = "GROUP_REMOVE_MEMBER" ->
           {"getConversation", "getActor", "getTarget", "countOwners", "deleteMember"}
      [] subject = "GROUP_UPDATE_ROLE" ->
           {"getConversation", "getActor", "getTarget", "countOwners", "updateRole"}
      [] subject = "GROUP_LEAVE" -> {"getTarget", "countOwners", "deleteMember"}
      [] subject = "GROUP_DELETE" ->
           {"getConversation", "getActor", "deleteConversation", "deleteMembers"}

TypeOK ==
    /\ conversations \in [Convs -> {"absent", "live", "deleted"}]
    /\ members \in [Convs -> [Users -> Roles \cup {None}]]
    /\ handler \in [Handlers -> Request \cup {Idle}]
    /\ \A h \in Handlers :
         \/ handler[h] = Idle
         \/ /\ handler[h].pc \in StepsOf(h[2])
            /\ handler[h].pc # "createConversation" => handler[h].conv \in Convs
            /\ handler[h].role \in RolesOf(h[2])

Init ==
    /\ conversations = [c \in Convs |-> "absent"]
    /\ members = [c \in Convs |-> [u \in Users |-> None]]
    /\ handler = [h \in Handlers |-> Idle]

-----------------------------------------------------------------------------
Busy == {h \in Handlers : handler[h] # Idle}

OwnersOf(c) == {u \in Users : members[c][u] = "owner"}

(* The handler moves on to the repository call named step. *)
Proceed(h, step) == handler' = [handler EXCEPT ![h].pc = step]

(* The handler answers, with or without an error, and waits again. *)
Answer(h) == handler' = [handler EXCEPT ![h] = Idle]

(* Whom a request may name, by the fields of its payload.  A leaving user  *)
(* and a creator act on their own membership.                              *)
TargetsOf(subject, actor) ==
    IF subject \in {"GROUP_ADD_MEMBER", "GROUP_REMOVE_MEMBER", "GROUP_UPDATE_ROLE"}
    THEN Users ELSE {actor}

ConvsOf(subject) == IF subject = "GROUP_CREATE" THEN {None} ELSE Convs

(* Removing oneself is leaving: neither looks at the conversation row.     *)
FirstStep(subject, actor, target) ==
    CASE subject = "GROUP_CREATE" -> "createConversation"
      [] subject = "GROUP_LEAVE"  -> "getTarget"
      [] subject = "GROUP_REMOVE_MEMBER" /\ actor = target -> "getTarget"
      [] OTHER -> "getConversation"

Receive(h) ==
    /\ handler[h] = Idle
    /\ Cardinality(Busy) < MaxInFlight
    /\ \E actor \in Users, conv \in ConvsOf(h[2]), role \in RolesOf(h[2]) :
         \E target \in TargetsOf(h[2], actor) :
            handler' = [handler EXCEPT ![h] =
                          [pc |-> FirstStep(h[2], actor, target), actor |-> actor,
                           conv |-> conv, target |-> target, role |-> role,
                           actorRole |-> None]]
    /\ UNCHANGED <<conversations, members>>

-----------------------------------------------------------------------------
(* Reads                                                                   *)

GetConversation(h) ==
    /\ handler[h].pc = "getConversation"
    /\ \/ conversations[handler[h].conv] = "live" /\ Proceed(h, "getActor")
       \/ conversations[handler[h].conv] # "live" /\ Answer(h)
    /\ UNCHANGED <<conversations, members>>

(* Mutant: whoever is not a plain member may add, a stranger included.     *)
ActorMayMutant(subject, actorRole, role) ==
    IF subject = "GROUP_ADD_MEMBER" THEN actorRole # "member" ELSE actorRole # None

(* What requireActorMembership's callers ask of the actor's role; for a    *)
(* removal the role is only remembered, it is checked with the target's.   *)
ActorMay(subject, actorRole, role) ==
    CASE subject = "GROUP_ADD_MEMBER"    -> \/ actorRole = "owner"
                                            \/ actorRole = "admin" /\ role = "member"
      [] subject = "GROUP_REMOVE_MEMBER" -> actorRole # None
      [] OTHER                           -> actorRole = "owner"

GetActor(h) ==
    LET q == handler[h]
        actorRole == members[q.conv][q.actor]
    IN /\ q.pc = "getActor"
       /\ \/ /\ ActorMay(h[2], actorRole, q.role)
             /\ handler' = [handler EXCEPT
                  ![h].actorRole = actorRole,
                  ![h].pc = IF h[2] = "GROUP_DELETE" THEN "deleteConversation"
                                                     ELSE "getTarget"]
          \/ ~ActorMay(h[2], actorRole, q.role) /\ Answer(h)
       /\ UNCHANGED <<conversations, members>>

(* The decision taken on the target's membership: the next call, or "idle" *)
(* when the request is refused (or has nothing to do).                     *)
AfterTarget(subject, q, targetRole) ==
    CASE subject = "GROUP_ADD_MEMBER" ->
           IF targetRole = None THEN "createMember" ELSE "idle"
      [] subject = "GROUP_UPDATE_ROLE" ->
           IF targetRole \in {None, q.role} THEN "idle"
           ELSE IF targetRole = "owner" THEN "countOwners" ELSE "updateRole"
      [] OTHER ->    \* leaving, or being removed
           IF \/ targetRole = None
              \/ q.actor # q.target /\ q.actorRole = "member"
              \/ q.actor # q.target /\ q.actorRole = "admin" /\ targetRole # "member"
           THEN "idle"
           ELSE IF targetRole = "owner" THEN "countOwners" ELSE "deleteMember"

GetTarget(h) ==
    LET q == handler[h]
        next == AfterTarget(h[2], q, members[q.conv][q.target])
    IN /\ q.pc = "getTarget"
       /\ \/ next # "idle" /\ Proceed(h, next)
          \/ next = "idle" /\ Answer(h)
       /\ UNCHANGED <<conversations, members>>

(* Mutants: an off-by-one, and CountOwners without its filter on the role. *)
GuardOffByOneMutant(c) == Cardinality(OwnersOf(c)) >= 1
GuardAnyRoleMutant(c) == Cardinality({u \in Users : members[c][u] # None}) > 1

(* The last-owner guard of the three operations that take an owner away.   *)
GuardPasses(c) == Cardinality(OwnersOf(c)) > 1

CountOwners(h) ==
    /\ handler[h].pc = "countOwners"
    /\ \/ /\ GuardPasses(handler[h].conv)
          /\ Proceed(h, IF h[2] = "GROUP_UPDATE_ROLE" THEN "updateRole" ELSE "deleteMember")
       \/ ~GuardPasses(handler[h].conv) /\ Answer(h)
    /\ UNCHANGED <<conversations, members>>

-----------------------------------------------------------------------------
(* Writes.  The first conjunct of each names the call, the database part   *)
(* is an operator of its own because a call whose answer is lost has it    *)
(* too (see LostAnswer).                                                   *)

InsertConversation(c) ==
    /\ conversations[c] = "absent"
    /\ conversations' = [conversations EXCEPT ![c] = "live"]
    /\ UNCHANGED members

CreateConversation(h) ==
    /\ handler[h].pc = "createConversation"
    /\ \/ \E c \in Convs :
            /\ InsertConversation(c)
            /\ handler' = [handler EXCEPT ![h].conv = c, ![h].pc = "createMember"]
       \* bound: once Convs is used up the insert is taken to fail
       \/ /\ \A c \in Convs : conversations[c] # "absent"
          /\ Answer(h)
          /\ UNCHANGED <<conversations, members>>

(* Mutant: the memory repository does not look at deleted_at.              *)
InsertableMutant(c, u) == members[c][u] = None

(* Mutant: an insert that meets the row of another one overwrites it.      *)
UpsertMutant(c, u) == Storage = "memory" => conversations[c] = "live"

(* Postgres checks the partial unique index and the foreign key, which a   *)
(* soft-deleted row satisfies; the memory repository refuses deleted ones. *)
Insertable(c, u) ==
    /\ members[c][u] = None
    /\ Storage = "memory" => conversations[c] = "live"

InsertMember(c, u, role) ==
    /\ members' = [members EXCEPT ![c][u] = role]
    /\ UNCHANGED conversations

(* Mutant: every refused insert is compensated, an addition's too.         *)
InsertFailsMutant(h) == Proceed(h, "compensate")

(* A refused insert is undone by a creation and reported by an addition.   *)
InsertFails(h) ==
    IF h[2] = "GROUP_CREATE" THEN Proceed(h, "compensate") ELSE Answer(h)

CreateMember(h) ==
    LET q == handler[h] IN
    /\ q.pc = "createMember"
    /\ \/ Insertable(q.conv, q.target) /\ InsertMember(q.conv, q.target, q.role) /\ Answer(h)
       \/ /\ ~Insertable(q.conv, q.target)
          /\ InsertFails(h)
          /\ UNCHANGED <<conversations, members>>

(* UPDATE ... WHERE deleted_at IS NULL: a membership that is gone by now   *)
(* is left alone and the request answers "not found".                      *)
WriteRole(c, u, role) ==
    members' = IF members[c][u] = None THEN members
               ELSE [members EXCEPT ![c][u] = role]

UpdateRole(h) ==
    LET q == handler[h] IN
    /\ q.pc = "updateRole"
    /\ WriteRole(q.conv, q.target, q.role)
    /\ Answer(h)
    /\ UNCHANGED conversations

DeleteMember(h) ==
    LET q == handler[h] IN
    /\ q.pc = "deleteMember"
    /\ WriteRole(q.conv, q.target, None)
    /\ Answer(h)
    /\ UNCHANGED conversations

MarkDeleted(c) ==
    /\ conversations[c] = "live"
    /\ conversations' = [conversations EXCEPT ![c] = "deleted"]
    /\ UNCHANGED members

DeleteConversation(h) ==
    LET c == handler[h].conv IN
    /\ handler[h].pc = "deleteConversation"
    /\ \/ MarkDeleted(c) /\ Proceed(h, "deleteMembers")
       \/ conversations[c] # "live" /\ Answer(h) /\ UNCHANGED <<conversations, members>>

(* Mutant: the WHERE clause spares the owners.                             *)
DeleteMembersMutant(h) ==
    LET c == handler[h].conv IN
    /\ handler[h].pc = "deleteMembers"
    /\ members' = [members EXCEPT ![c] =
                    [u \in Users |-> IF @[u] = "owner" THEN "owner" ELSE None]]
    /\ Answer(h)
    /\ UNCHANGED conversations

DeleteMembers(h) ==
    LET c == handler[h].conv IN
    /\ handler[h].pc = "deleteMembers"
    /\ members' = [members EXCEPT ![c] = [u \in Users |-> None]]
    /\ Answer(h)
    /\ UNCHANGED conversations

(* The creation gives up and reports the insert's error whatever happens.  *)
Compensate(h) ==
    LET c == handler[h].conv IN
    /\ handler[h].pc = "compensate"
    /\ \/ MarkDeleted(c)
       \/ conversations[c] # "live" /\ UNCHANGED <<conversations, members>>
    /\ Answer(h)

-----------------------------------------------------------------------------
(* What goes wrong                                                         *)

(* The pending call fails and has no effect. *)
FailedCall(h) ==
    /\ "call" \in Faults
    /\ handler[h] # Idle
    /\ IF handler[h].pc = "createMember" THEN InsertFails(h) ELSE Answer(h)
    /\ UNCHANGED <<conversations, members>>

(* The pending write is committed but the connection is lost before its    *)
(* result: the handler takes the error path of a call that had its effect. *)
(* For the calls not named here both paths answer, so that the step is the *)
(* one of the successful call.                                             *)
LostAnswer(h) ==
    LET q == handler[h] IN
    /\ "answer" \in Faults
    /\ \/ q.pc = "createConversation" /\ Answer(h) /\ \E c \in Convs : InsertConversation(c)
       \/ q.pc = "deleteConversation" /\ Answer(h) /\ MarkDeleted(q.conv)
       \/ /\ q.pc = "createMember" /\ h[2] = "GROUP_CREATE"
          /\ Insertable(q.conv, q.target)
          /\ InsertMember(q.conv, q.target, q.role)
          /\ Proceed(h, "compensate")

(* A replica stops; its requests are gone and, with them, what the memory  *)
(* repository held.                                                        *)
Crash(r) ==
    /\ "crash" \in Faults
    /\ handler' = [h \in Handlers |-> IF h[1] = r THEN Idle ELSE handler[h]]
    /\ IF Storage = "memory"
       THEN /\ conversations' = [c \in Convs |-> "absent"]
            /\ members' = [c \in Convs |-> [u \in Users |-> None]]
       ELSE UNCHANGED <<conversations, members>>

-----------------------------------------------------------------------------
Call(h) ==
    \/ GetConversation(h) \/ GetActor(h) \/ GetTarget(h) \/ CountOwners(h)
    \/ CreateConversation(h) \/ CreateMember(h) \/ UpdateRole(h) \/ DeleteMember(h)
    \/ DeleteConversation(h) \/ DeleteMembers(h) \/ Compensate(h)

Next == \/ \E h \in Handlers : Receive(h) \/ Call(h) \/ FailedCall(h) \/ LostAnswer(h)
        \/ \E r \in Replicas : Crash(r)

Spec == Init /\ [][Next]_vars

(* A repository call returns: database/sql has no timeout here, but both   *)
(* repositories answer or fail.                                            *)
FairSpec == Spec /\ \A h \in Handlers : WF_vars(Call(h))

-----------------------------------------------------------------------------
(* Properties                                                              *)

MembersOf(c) == {u \in Users : members[c][u] # None}

(* Handlers that can take an owner away from a conversation that stays.    *)
Reducers == {h \in Handlers : h[2] \in {"GROUP_REMOVE_MEMBER", "GROUP_UPDATE_ROLE", "GROUP_LEAVE"}}

(* No two of them work on one conversation at the same time.               *)
NoOverlap ==
    \A g, h \in Reducers :
        handler[g] # Idle /\ handler[h] # Idle /\ handler[g].conv = handler[h].conv => g = h

(* A live conversation that somebody belongs to has an owner, so that      *)
(* somebody can administer it (conversation_service.go, ErrLastOwnerGuard).*)
InhabitedHasOwner ==
    \A c \in Convs : conversations[c] = "live" /\ MembersOf(c) # {} => OwnersOf(c) # {}

(* No step takes its last owner from a conversation that stays live: the   *)
(* service answers "cannot remove the last owner" instead.                 *)
LastOwnerKept ==
    [][\A c \in Convs : /\ conversations[c] = "live" /\ conversations'[c] = "live"
                        /\ OwnersOf(c) # {}
                        => OwnersOf(c)' # {}]_vars

(* The guard's count and the write it allows are two calls.  They protect  *)
(* the last owner as long as no other reducer works on the conversation,   *)
(* whatever else runs meanwhile and whatever fails or stops between calls. *)
GuardSoundAlone == []NoOverlap => []InhabitedHasOwner

(* Until its owner's membership is stored nobody can join a conversation,  *)
(* so that undoing a failed creation throws nobody out.                    *)
CreationUndisturbed ==
    \A h \in Handlers : /\ h[2] = "GROUP_CREATE"
                        /\ handler[h].pc \in {"createMember", "compensate"}
                        => MembersOf(handler[h].conv) = {}

(* On the memory repository, whoever still belongs to a deleted            *)
(* conversation is about to be put out by the deletion still in progress:  *)
(* an addition that overlaps the deletion leaves nobody behind.            *)
DeletedDrains ==
    \A c \in Convs : conversations[c] = "deleted" /\ MembersOf(c) # {}
                     => \E h \in Handlers : /\ handler[h].pc = "deleteMembers"
                                            /\ handler[h].conv = c

(* ... and in the end everybody is out for good.                           *)
DeletedStaysEmpty ==
    \A c \in Convs : conversations[c] = "deleted" ~> [](MembersOf(c) = {})

(* Seen by its users, a conversation is the set of its members' roles: it  *)
(* opens when its owner's membership is stored and closes for everybody    *)
(* when its row is marked deleted.                                         *)
VisibleRoles ==
    [c \in Convs |-> IF conversations[c] = "live" THEN members[c]
                     ELSE [u \in Users |-> None]]

SpentIds == {c \in Convs : conversations[c] = "deleted" \/ MembersOf(c) # {}}

Promise == INSTANCE Membership WITH roles <- VisibleRoles, used <- SpentIds

(* When no two requests overlap, every request takes effect in one step    *)
(* with the authority and the guards Membership.tla states, even when its  *)
(* calls fail, its answers are lost or its replica stops half way.         *)
KeepsPromise == Promise!Spec

=============================================================================
