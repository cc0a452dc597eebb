------------------------------ MODULE Messages ------------------------------
(***************************************************************************)
(* The messages of services/message: the handlers that send, edit, delete, *)
(* acknowledge, mark and list them, MessageService and the repositories on *)
(* postgres and in memory behind them.                                     *)
(*                                                                         *)
(* As in Conversations, a handler is one subject's callback in one         *)
(* replica, working on at most one request, and every repository call is a *)
(* step of its own.  The messages are those of one conversation.  Its      *)
(* members come and go while requests are handled: what the GROUP_*        *)
(* handlers (Conversations) do to it is RolesChange and ConversationGoes.  *)
(* The batch writer does for NEW_MESSAGE what Submission promises: while   *)
(* the handler waits it stores the message once, or never (StoreMessage).  *)
(*                                                                         *)
(* GET_MESSAGE is one read whose result is the answer and is left out, as  *)
(* are payload validation, names and timestamps nobody decides on.         *)
(*                                                                         *)
(* An operator whose name ends in Mutant is a plausible mistake in the     *)
(* definition that follows it and is used nowhere.                         *)
(***************************************************************************)
EXTENDS Naturals, FiniteSets

CONSTANTS
    Users,          \* user identifiers
    Msgs,           \* message identifiers the table can hand out
    Contents,       \* texts
    Times,          \* values of received_at
    Roles,          \* the roles that occur
    Replicas,       \* running copies of message-service
    Subjects,       \* the subjects on which requests arrive
    AskedStatuses,  \* what MESSAGE_SET_STATUS is asked for
    Storages,       \* values of STORAGE: SUBSET {"postgres", "memory"}
    Faults,         \* what may go wrong: SUBSET {"call", "answer", "crash"}
    MaxInFlight     \* bound: requests being handled at the same time

AllSubjects == {"NEW_MESSAGE", "UPDATE_MESSAGE", "DELETE_MESSAGE",
                "ACK_MESSAGE", "MESSAGE_SET_STATUS", "MESSAGE_MARK_SEEN", "LIST_MESSAGES"}

Moderators == {"admin", "owner"}
Statuses   == {"sent", "delivered", "seen"}
None       == "none"
Somebody   == "somebody"   \* a sender who asks for nothing any more

Handlers == Replicas \X Subjects

ASSUME MessagesAssumption ==
    /\ {None, Somebody} \cap (Users \cup Msgs \cup Contents \cup Times) = {}
    /\ Roles \subseteq {"member", "admin", "owner"}
    /\ Subjects \subseteq AllSubjects
    /\ AskedStatuses \subseteq Statuses
    /\ Faults \subseteq {"call", "answer", "crash"}
    /\ MaxInFlight \in Nat
    /\ Storages \subseteq {"postgres", "memory"}
    \* each process of the memory build has messages of its own
    /\ "memory" \in Storages => \A r, s \in Replicas : r = s

VARIABLES
    storage,        \* the repository, chosen when the service starts
    messages,       \* messages[m]: the row m
    receipts,       \* receipts[m][u]: received_at of the receipt, or None
    seenBy,         \* seenBy[m]: the users recorded as readers of m
    conversation,   \* whether the conversation is live
    roles,          \* roles[u]: u's role in it, or None
    handler,        \* handler[h]: the request h works on and its next call
    acked           \* history: the received_at answered to ACK_MESSAGE

vars == <<storage, messages, receipts, seenBy, conversation, roles, handler, acked>>

Steps == {"submit", "getMessage", "isMember", "getConversation", "getActor",
          "checkConversation", "listMembers", "updateMessage", "deleteMessage", "markReceived", "setStatus",
          "markSeen", "setSeen", "listMessages", "listReaders"}

Unused == [state |-> "absent", sender |-> None, content |-> None, status |-> "sent"]

Idle == [pc |-> "idle", actor |-> None, msg |-> None, arg |-> None,
         held |-> None, listed |-> {}]

Args == Contents \cup Times \cup Statuses \cup {None}

(* held: the best of the roles the actor has had since the request arrived *)
(* (history); listed: of the messages a list has read, those with status   *)
(* "seen" on postgres, those without readers in memory.                    *)
Request == [pc : Steps, actor : Users, msg : Msgs \cup {None}, arg : Args,
            held : Roles \cup {None}, listed : SUBSET Msgs]

TypeOK ==
    /\ storage \in Storages
    /\ messages \in [Msgs -> [state : {"absent", "live", "deleted"},
                              sender : Users \cup {None, Somebody},
                              content : Contents \cup {None}, status : Statuses]]
    /\ receipts \in [Msgs -> [Users -> Times \cup {None}]]
    /\ seenBy \in [Msgs -> SUBSET Users]
    /\ conversation \in {"live", "deleted"}
    /\ roles \in [Users -> Roles \cup {None}]
    /\ handler \in [Handlers -> Request \cup {Idle}]
    /\ acked \in [Msgs -> [Users -> SUBSET Times]]

Init ==
    /\ storage \in Storages
    /\ messages = [m \in Msgs |-> Unused]
    /\ receipts = [m \in Msgs |-> [u \in Users |-> None]]
    /\ seenBy = [m \in Msgs |-> {}]
    /\ conversation = "live"
    /\ roles \in [Users -> Roles \cup {None}]
    /\ handler = [h \in Handlers |-> Idle]
    /\ acked = [m \in Msgs |-> [u \in Users |-> {}]]

-----------------------------------------------------------------------------
(* The rest of the system                                                  *)

Live(m) == messages[m].state = "live"

Row(u, c) == [state |-> "live", sender |-> u, content |-> c, status |-> "sent"]

(* A message of somebody who asks for nothing else. *)
SomebodySends(m) ==
    /\ messages[m] = Unused
    /\ \E c \in Contents : messages' = [messages EXCEPT ![m] = Row(Somebody, c)]
    /\ UNCHANGED <<receipts, seenBy, conversation, roles, handler, acked>>

Better(r, s) == IF r \in Moderators \/ s = None THEN r ELSE s

(* A membership is stored, changed or deleted. *)
RolesChange ==
    \E u \in Users, r \in Roles \cup {None} :
      /\ r # roles[u]
      /\ roles' = [roles EXCEPT ![u] = r]
      /\ handler' = [h \in Handlers |->
           IF handler[h].actor = u THEN [handler[h] EXCEPT !.held = Better(r, @)]
                                   ELSE handler[h]]
      /\ UNCHANGED <<messages, receipts, seenBy, conversation, acked>>

ConversationGoes ==
    /\ conversation = "live"
    /\ conversation' = "deleted"
    /\ UNCHANGED <<messages, receipts, seenBy, roles, handler, acked>>

-----------------------------------------------------------------------------
(* Requests                                                                *)

Busy == {h \in Handlers : handler[h] # Idle}

Proceed(h, step) == handler' = [handler EXCEPT ![h].pc = step]

Answer(h) == handler' = [handler EXCEPT ![h] = Idle]

Refuse(h) == Answer(h) /\ UNCHANGED <<messages, receipts, seenBy, acked>>

MsgsOf(subject) == IF subject \in {"NEW_MESSAGE", "LIST_MESSAGES"} THEN {None} ELSE Msgs

ArgsOf(subject) ==
    CASE subject \in {"NEW_MESSAGE", "UPDATE_MESSAGE"} -> Contents
      [] subject = "ACK_MESSAGE"        -> Times
      [] subject = "MESSAGE_SET_STATUS" -> AskedStatuses
      [] OTHER                          -> {None}

FirstStep(subject) ==
    CASE subject = "MESSAGE_SET_STATUS" -> "setStatus"
      [] subject \in {"NEW_MESSAGE", "LIST_MESSAGES"} -> "isMember"
      [] OTHER                          -> "getMessage"

Receive(h) ==
    /\ handler[h] = Idle
    /\ Cardinality(Busy) < MaxInFlight
    /\ \E u \in Users, m \in MsgsOf(h[2]), a \in ArgsOf(h[2]) :
         handler' = [handler EXCEPT ![h] =
                       [pc |-> FirstStep(h[2]), actor |-> u, msg |-> m, arg |-> a,
                        held |-> roles[u], listed |-> {}]]
    /\ UNCHANGED <<messages, receipts, seenBy, conversation, roles, acked>>

GetMessage(h) ==
    /\ handler[h].pc = "getMessage"
    /\ IF Live(handler[h].msg) THEN Proceed(h, "isMember") ELSE Answer(h)
    /\ UNCHANGED <<messages, receipts, seenBy, conversation, roles, acked>>

(* The write of an authorised edit or deletion. *)
Mutation(subject) == IF subject = "UPDATE_MESSAGE" THEN "updateMessage" ELSE "deleteMessage"

(* What follows once the actor is known to be a member.  A sender edits    *)
(* and deletes its own messages, anybody else has its role looked up.      *)
AfterMember(h) ==
    CASE h[2] \in {"UPDATE_MESSAGE", "DELETE_MESSAGE"} ->
           IF handler[h].actor = messages[handler[h].msg].sender
           THEN Mutation(h[2]) ELSE "getConversation"
      [] h[2] = "ACK_MESSAGE"       -> "markReceived"
      [] h[2] = "MESSAGE_MARK_SEEN" -> "markSeen"
      [] h[2] = "LIST_MESSAGES"     -> "listMessages"
      [] h[2] = "NEW_MESSAGE"       -> "submit"

(* Mutant: an acknowledgement is taken from anybody. *)
AdmittedMutant(h) == h[2] = "ACK_MESSAGE" \/ roles[handler[h].actor] # None

Admitted(h) == roles[handler[h].actor] # None

IsMember(h) ==
    /\ handler[h].pc = "isMember"
    /\ IF Admitted(h) THEN Proceed(h, AfterMember(h)) ELSE Answer(h)
    /\ UNCHANGED <<messages, receipts, seenBy, conversation, roles, acked>>

(* ListMembers checks the conversation, the actor's membership and the     *)
(* conversation once more before it lists the members.                     *)
GetConversation(h) ==
    /\ handler[h].pc \in {"getConversation", "checkConversation"}
    /\ IF conversation = "live"
       THEN Proceed(h, IF handler[h].pc = "getConversation" THEN "getActor" ELSE "listMembers")
       ELSE Answer(h)
    /\ UNCHANGED <<messages, receipts, seenBy, conversation, roles, acked>>

GetActor(h) ==
    /\ handler[h].pc = "getActor"
    /\ IF roles[handler[h].actor] # None
       THEN Proceed(h, "checkConversation")
       ELSE Answer(h)
    /\ UNCHANGED <<messages, receipts, seenBy, conversation, roles, acked>>

(* Mutant: any member may edit and delete. *)
ModeratesMutant(h) == roles[handler[h].actor] # None

Moderates(h) == roles[handler[h].actor] \in Moderators

ListMembers(h) ==
    /\ handler[h].pc = "listMembers"
    /\ IF Moderates(h)
       THEN Proceed(h, Mutation(h[2]))
       ELSE Answer(h)
    /\ UNCHANGED <<messages, receipts, seenBy, conversation, roles, acked>>

-----------------------------------------------------------------------------
(* Writes: one statement, or one section under the memory repository's     *)
(* mutex, each                                                             *)

(* A flush of the batch writer stores the message its handler waits for.   *)
StoreMessage(h) ==
    LET q == handler[h] IN
    /\ q.pc = "submit"
    /\ \/ \E m \in Msgs : /\ messages[m] = Unused
                          /\ messages' = [messages EXCEPT ![m] = Row(q.actor, q.arg)]
       \* bound: once Msgs is used up the insert is taken to fail
       \/ (\A m \in Msgs : messages[m] # Unused) /\ UNCHANGED messages
    /\ Answer(h)
    /\ UNCHANGED <<receipts, seenBy, conversation, roles, acked>>

(* Mutant: the statements without "deleted_at IS NULL". *)
WritableMutant(m) == messages[m].state # "absent"

(* WHERE id = $1 AND deleted_at IS NULL; in memory, found in the slice.     *)
Writable(m) == Live(m)

UpdateMessage(h) ==
    LET q == handler[h] IN
    /\ q.pc = "updateMessage"
    /\ messages' = IF Writable(q.msg) THEN [messages EXCEPT ![q.msg].content = q.arg]
                                      ELSE messages
    /\ Answer(h)
    /\ UNCHANGED <<receipts, seenBy, conversation, roles, acked>>

(* The memory repository forgets the message's receipts and readers too.   *)
Forgets(m) == storage = "memory" /\ Live(m)

DeleteMessage(h) ==
    LET m == handler[h].msg IN
    /\ handler[h].pc = "deleteMessage"
    /\ messages' = IF Writable(m) THEN [messages EXCEPT ![m].state = "deleted"] ELSE messages
    /\ receipts' = IF Forgets(m) THEN [receipts EXCEPT ![m] = [u \in Users |-> None]] ELSE receipts
    /\ seenBy' = IF Forgets(m) THEN [seenBy EXCEPT ![m] = {}] ELSE seenBy
    /\ Answer(h)
    /\ UNCHANGED <<conversation, roles, acked>>

(* Mutant: ON CONFLICT ... DO UPDATE SET received_at. *)
KeptMutant(m, u, t) == t

(* The received_at that the receipt holds after an acknowledgement: a      *)
(* second one leaves the first one's.                                      *)
Kept(m, u, t) == IF receipts[m][u] = None THEN t ELSE receipts[m][u]

RecordReceipt(q) ==
    receipts' = [receipts EXCEPT ![q.msg][q.actor] = Kept(q.msg, q.actor, q.arg)]

MarkReceived(h) ==
    LET q == handler[h] IN
    /\ q.pc = "markReceived"
    /\ \/ /\ Writable(q.msg)
          /\ RecordReceipt(q)
          /\ acked' = [acked EXCEPT ![q.msg][q.actor] =
                                      @ \cup {Kept(q.msg, q.actor, q.arg)}]
          /\ Answer(h)
          /\ UNCHANGED <<messages, seenBy>>
       \/ ~Writable(q.msg) /\ Refuse(h)
    /\ UNCHANGED <<conversation, roles>>

(* Mutant: the status of a MESSAGE_MARK_SEEN is looked for in its payload. *)
StatusMutant(q) == q.arg

Status(q) == IF q.pc = "setSeen" THEN "seen" ELSE q.arg

(* MESSAGE_SET_STATUS, and the second write of MESSAGE_MARK_SEEN, whose    *)
(* error is only logged.                                                   *)
SetStatus(h) ==
    LET q == handler[h] IN
    /\ q.pc \in {"setStatus", "setSeen"}
    /\ messages' = IF Writable(q.msg) THEN [messages EXCEPT ![q.msg].status = Status(q)]
                                      ELSE messages
    /\ Answer(h)
    /\ UNCHANGED <<receipts, seenBy, conversation, roles, acked>>

(* Postgres has only the foreign key, which a row marked deleted satisfies;*)
(* the memory repository looks for the message.                            *)
Readable(m) == Live(m) \/ (storage = "postgres" /\ messages[m].state = "deleted")

RecordReader(q) == seenBy' = [seenBy EXCEPT ![q.msg] = @ \cup {q.actor}]

(* Mutant: an error of MarkMessageSeenBy is passed over.                   *)
MarkSeenMutant(h) ==
    LET q == handler[h] IN
    /\ q.pc = "markSeen"
    /\ seenBy' \in {seenBy, [seenBy EXCEPT ![q.msg] = @ \cup {q.actor}]}
    /\ Proceed(h, "setSeen")
    /\ UNCHANGED <<messages, receipts, conversation, roles, acked>>

MarkSeen(h) ==
    LET q == handler[h] IN
    /\ q.pc = "markSeen"
    /\ \/ /\ Readable(q.msg)
          /\ RecordReader(q)
          /\ Proceed(h, "setSeen")
          /\ UNCHANGED <<messages, receipts, acked>>
       \/ ~Readable(q.msg) /\ Refuse(h)
    /\ UNCHANGED <<conversation, roles>>

-----------------------------------------------------------------------------
(* LIST_MESSAGES on postgres reads the messages and then, in a second      *)
(* query, their readers.  The memory repository reads the readers under    *)
(* its lock and hands out the stored messages themselves, whose status is  *)
(* read when the answer is written.                                        *)

Listed ==
    {m \in Msgs : Live(m) /\ IF storage = "postgres" THEN messages[m].status = "seen"
                                                     ELSE seenBy[m] = {}}

ListMessages(h) ==
    /\ handler[h].pc = "listMessages"
    /\ IF \E m \in Msgs : Live(m)
       THEN handler' = [handler EXCEPT ![h].pc = "listReaders", ![h].listed = Listed]
       ELSE Answer(h)
    /\ UNCHANGED <<messages, receipts, seenBy, conversation, roles, acked>>

ListReaders(h) == handler[h].pc = "listReaders" /\ Refuse(h) /\ UNCHANGED <<conversation, roles>>

-----------------------------------------------------------------------------
(* What goes wrong                                                         *)

(* The pending call fails and has no effect: every handler answers.  The   *)
(* memory repository's calls do not fail.                                  *)
FailedCall(h) ==
    /\ "call" \in Faults /\ storage = "postgres"
    /\ handler[h] # Idle
    /\ Refuse(h)
    /\ UNCHANGED <<conversation, roles>>

(* The pending write is committed but its result is lost.  The writes not  *)
(* named here answer either way.                                           *)
LostAnswer(h) ==
    LET q == handler[h] IN
    /\ "answer" \in Faults /\ storage = "postgres"
    /\ \/ /\ q.pc = "markReceived" /\ Writable(q.msg)
          /\ RecordReceipt(q)
          /\ UNCHANGED seenBy
       \/ /\ q.pc = "markSeen" /\ Readable(q.msg)
          /\ RecordReader(q)
          /\ UNCHANGED receipts
    /\ Answer(h)
    /\ UNCHANGED <<messages, conversation, roles, acked>>

(* A replica stops and its requests are gone.  A process of the memory     *)
(* build takes everything with it, and the next one starts from Init.      *)
Crash(r) ==
    /\ "crash" \in Faults /\ storage = "postgres"
    /\ handler' = [h \in Handlers |-> IF h[1] = r THEN Idle ELSE handler[h]]
    /\ UNCHANGED <<messages, receipts, seenBy, conversation, roles, acked>>

-----------------------------------------------------------------------------
Call(h) ==
    \/ StoreMessage(h) \/ GetMessage(h) \/ IsMember(h) \/ GetConversation(h) \/ GetActor(h)
    \/ ListMembers(h) \/ UpdateMessage(h) \/ DeleteMessage(h) \/ MarkReceived(h) \/ SetStatus(h)
    \/ MarkSeen(h) \/ ListMessages(h) \/ ListReaders(h)

Step == \/ \E m \in Msgs : SomebodySends(m)
        \/ RolesChange
        \/ ConversationGoes
        \/ \E h \in Handlers : Receive(h) \/ Call(h) \/ FailedCall(h) \/ LostAnswer(h)
        \/ \E r \in Replicas : Crash(r)

Next == Step /\ UNCHANGED storage

Spec == Init /\ [][Next]_vars

-----------------------------------------------------------------------------
(* Properties                                                              *)

(* The actor has been the sender while a member, or a moderator, at some   *)
(* moment since its request arrived.                                       *)
Authority(h) ==
    \/ handler[h].held # None /\ handler[h].actor = messages[handler[h].msg].sender
    \/ handler[h].held \in Moderators

(* A message is edited or deleted only for its sender, as a member, or for *)
(* an admin or owner of the conversation, however the memberships change   *)
(* between the calls of the request (authorizeMessageMutation).            *)
EditsAuthorised ==
    [][\A m \in Msgs :
         /\ Live(m)
         /\ \/ messages'[m].content # messages[m].content
            \/ messages'[m].state = "deleted"
         => \E h \in Handlers : /\ h[2] \in {"UPDATE_MESSAGE", "DELETE_MESSAGE"}
                               /\ handler[h].msg = m
                               /\ Authority(h)]_vars

(* A message, a receipt or a reader is recorded only for somebody who has  *)
(* asked for it and been a member since (authorizeConversationMember):     *)
(* whoever is removed while a message waits for the next flush may still   *)
(* post it, whoever was not a member never does.                           *)
ActsByMembers ==
    [][\A m \in Msgs, u \in Users :
         \/ messages[m] = Unused /\ messages'[m].sender = u
         \/ receipts'[m][u] \notin {None, receipts[m][u]}
         \/ u \in seenBy'[m] \ seenBy[m]
         => \E h \in Handlers : /\ h[2] \in {"NEW_MESSAGE", "ACK_MESSAGE", "MESSAGE_MARK_SEEN"}
                               /\ handler[h].msg \in {m, None}
                               /\ handler[h].actor = u
                               /\ handler[h].held # None]_vars

(* An edit, a receipt or a status that was checked before a deletion does  *)
(* not change the message after it, on either repository.                  *)
DeletedFrozen ==
    [][\A m \in Msgs : messages[m].state = "deleted"
                        => messages'[m] = messages[m] /\ receipts'[m] = receipts[m]]_vars

(* Every acknowledgement a user gets for a message names the same time, on *)
(* whichever replica, after retries and lost answers (handler_lot6_test.go *)
(* 312: "received_at should remain first ack timestamp per user").         *)
OneReceiptTime ==
    \A m \in Msgs, u \in Users : \A s, t \in acked[m][u] : s = t

(* Messages that a list at work is about to show as seen, by nobody.       *)
SeenByNobody(h) ==
    IF storage = "postgres" THEN {m \in handler[h].listed : seenBy[m] = {}}
    ELSE {m \in handler[h].listed : messages[m].status = "seen"}

(* On postgres a list never shows a message as seen without somebody who   *)
(* has seen it, although status and readers are written by two calls and   *)
(* read by two queries: the reader is written first and read last.         *)
ListedSeenHasReader ==
    storage = "postgres" => \A h \in Handlers : SeenByNobody(h) = {}

=============================================================================
