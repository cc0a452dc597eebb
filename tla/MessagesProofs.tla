--------------------------- MODULE MessagesProofs ---------------------------
(* Theorems about Messages, for every set of users, messages, texts, times *)
(* and replicas, on either repository, with any faults and any number of   *)
(* requests in flight.                                                     *)
EXTENDS Messages, TLAPS

-----------------------------------------------------------------------------
(* The inductive invariant                                                 *)

(* The calls the handler of a subject can be about to make. *)
StepsOf(subject) ==
    CASE subject = "NEW_MESSAGE"        -> {"isMember", "submit"}
      [] subject = "UPDATE_MESSAGE"     ->
           {"getMessage", "isMember", "getConversation", "getActor", "checkConversation",
            "listMembers", "updateMessage"}
      [] subject = "DELETE_MESSAGE"     ->
           {"getMessage", "isMember", "getConversation", "getActor", "checkConversation",
            "listMembers", "deleteMessage"}
      [] subject = "ACK_MESSAGE"        -> {"getMessage", "isMember", "markReceived"}
      [] subject = "MESSAGE_SET_STATUS" -> {"setStatus"}
      [] subject = "MESSAGE_MARK_SEEN"  -> {"getMessage", "isMember", "markSeen", "setSeen"}
      [] subject = "LIST_MESSAGES"      -> {"isMember", "listMessages", "listReaders"}

(* The calls made before the actor is known to be a member. *)
Unchecked == {"getMessage", "isMember", "setStatus"}

(* The write of an edit or a deletion. *)
Mutations == {"updateMessage", "deleteMessage"}

(* A request carries what its subject's payload holds. *)
Proper(h) ==
    handler[h] # Idle => /\ handler[h].pc \in StepsOf(h[2])
                         /\ handler[h].msg \in MsgsOf(h[2])
                         /\ handler[h].arg \in ArgsOf(h[2])

(* What a request has been entitled to is no less than what its actor is   *)
(* entitled to now.                                                        *)
HeldCovers(h) ==
    handler[h] # Idle =>
      /\ roles[handler[h].actor] # None => handler[h].held # None
      /\ roles[handler[h].actor] \in Moderators => handler[h].held \in Moderators

(* Past its checks a request has been entitled to what it goes on to do. A *)
(* message that was found exists: its sender will not change.              *)
Entitled(h) ==
    handler[h] # Idle =>
      /\ handler[h].pc \notin Unchecked => handler[h].held # None
      /\ h[2] \in {"UPDATE_MESSAGE", "DELETE_MESSAGE"} /\ handler[h].pc # "getMessage"
           => messages[handler[h].msg].state # "absent"
      /\ handler[h].pc \in Mutations => Authority(h)

(* An acknowledgement is answered with what the receipt holds; the memory  *)
(* repository forgets it with the message, when nobody acknowledges it.    *)
AckedKept ==
    \A m \in Msgs, u \in Users :
      messages[m].state # "deleted" => acked[m][u] \subseteq {receipts[m][u]}

(* On postgres the status "seen" follows a reader.                         *)
SeenBySomebody ==
    storage = "postgres" =>
      /\ \A m \in Msgs : messages[m].status = "seen" => seenBy[m] # {}
      /\ \A h \in Handlers : handler[h].pc = "setSeen" => seenBy[handler[h].msg] # {}

MessagesInv ==
    /\ TypeOK
    /\ \A h \in Handlers : Proper(h) /\ HeldCovers(h) /\ Entitled(h)
    /\ AckedKept
    /\ OneReceiptTime

ReadersInv == MessagesInv /\ SeenBySomebody /\ ListedSeenHasReader

-----------------------------------------------------------------------------
(* The invariant when one handler moves                                    *)

HandlersOK ==
    /\ handler \in [Handlers -> Request \cup {Idle}]
    /\ \A h \in Handlers : Proper(h) /\ HeldCovers(h) /\ Entitled(h)

(* No row goes away, and none changes its sender. *)
RowsStay ==
    \A m \in Msgs : messages[m].state # "absent" =>
                      /\ messages'[m].state # "absent"
                      /\ messages'[m].sender = messages[m].sender

LEMMA NoneApart ==
    /\ None \notin Users /\ None \notin Msgs /\ None \notin Times /\ Somebody \notin Users
    /\ None \notin Roles /\ Roles \subseteq {"member", "admin", "owner"}
    /\ AskedStatuses \subseteq Statuses
BY MessagesAssumption DEF MessagesAssumption, None

LEMMA HandlerSubject ==
    ASSUME NEW h \in Handlers
    PROVE  h[2] \in AllSubjects /\ h[1] \in Replicas
BY MessagesAssumption DEF Handlers, MessagesAssumption

LEMMA StepsAreSteps ==
    ASSUME NEW subject \in AllSubjects
    PROVE  /\ StepsOf(subject) \subseteq Steps
           /\ MsgsOf(subject) \subseteq Msgs \cup {None}
           /\ ArgsOf(subject) \subseteq Args
BY NoneApart DEF StepsOf, MsgsOf, ArgsOf, Args, Steps, AllSubjects

LEMMA BusyHandler ==
    ASSUME HandlersOK, NEW h \in Handlers, handler[h].pc # "idle"
    PROVE  /\ handler[h] # Idle
           /\ handler[h] \in Request
           /\ handler[h].pc \in StepsOf(h[2])
           /\ handler[h].msg \in MsgsOf(h[2])
           /\ handler[h].arg \in ArgsOf(h[2])
BY DEF HandlersOK, Proper, Idle

(* The message of an edit, a deletion, an acknowledgement and so on.       *)
LEMMA HandlerMsg ==
    ASSUME HandlersOK, NEW h \in Handlers, handler[h].pc # "idle",
           handler[h].pc \notin {"isMember", "submit", "listMessages", "listReaders"}
    PROVE  handler[h].msg \in Msgs
<1>1. h[2] \in AllSubjects
  BY HandlerSubject
<1> QED
  BY <1>1, BusyHandler DEF StepsOf, MsgsOf, AllSubjects

LEMMA OtherHandler ==
    ASSUME HandlersOK, NEW g \in Handlers, handler'[g] = handler[g],
           RowsStay, UNCHANGED roles
    PROVE  (Proper(g) /\ HeldCovers(g) /\ Entitled(g))'
<1>1. /\ Proper(g)' /\ HeldCovers(g)'
      /\ HandlersOK => Proper(g) /\ HeldCovers(g) /\ Entitled(g)
  BY DEF HandlersOK, Proper, HeldCovers
<1>2. ASSUME handler[g] # Idle PROVE Entitled(g)'
  <2>1. g[2] \in AllSubjects
    BY HandlerSubject
  <2>2. handler[g].pc \in StepsOf(g[2]) /\ handler[g].msg \in MsgsOf(g[2])
    BY <1>1, <1>2 DEF Proper
  <2>3. handler[g].pc \in Mutations => g[2] \in {"UPDATE_MESSAGE", "DELETE_MESSAGE"}
    BY <2>1, <2>2 DEF StepsOf, Mutations, AllSubjects
  <2>4. g[2] \in {"UPDATE_MESSAGE", "DELETE_MESSAGE"} => handler[g].msg \in Msgs
    BY <2>2 DEF MsgsOf
  <2>5. handler[g].pc \in Mutations => Authority(g)'
    BY <1>1, <1>2, <2>3, <2>4 DEF Entitled, Authority, RowsStay, Mutations
  <2> QED
    BY <1>1, <1>2, <2>4, <2>5 DEF Entitled, RowsStay
<1> QED
  BY <1>1, <1>2 DEF Entitled

LEMMA AnswerKeeps ==
    ASSUME HandlersOK, NEW h \in Handlers, Answer(h), RowsStay, UNCHANGED roles
    PROVE  HandlersOK'
<1>1. handler' \in [Handlers -> Request \cup {Idle}] /\ handler'[h] = Idle
  BY DEF Answer, HandlersOK
<1>2. ASSUME NEW g \in Handlers PROVE (Proper(g) /\ HeldCovers(g) /\ Entitled(g))'
  <2>1. CASE g = h
    BY <1>1, <2>1 DEF Proper, HeldCovers, Entitled
  <2>2. CASE g # h
    <3>1. handler'[g] = handler[g]
      BY <2>2 DEF Answer, HandlersOK
    <3> QED
      BY <3>1, OtherHandler
  <2> QED
    BY <2>1, <2>2
<1> QED
  BY <1>1, <1>2 DEF HandlersOK

(* A handler that goes on to its next call, with q for what it is left     *)
(* with: the same request, at a step it is entitled to.                    *)
LEMMA MoveKeeps ==
    ASSUME HandlersOK, NEW h \in Handlers, handler[h].pc # "idle",
           NEW q \in Request, handler' = [handler EXCEPT ![h] = q],
           q.actor = handler[h].actor, q.msg = handler[h].msg,
           q.arg = handler[h].arg, q.held = handler[h].held,
           q.pc \in StepsOf(h[2]),
           q.pc \notin Unchecked => q.held # None,
           h[2] \in {"UPDATE_MESSAGE", "DELETE_MESSAGE"} /\ q.pc # "getMessage"
             => messages[q.msg].state # "absent",
           q.pc \in Mutations => Authority(h),
           UNCHANGED <<messages, roles>>
    PROVE  HandlersOK'
<1>1. /\ handler[h] # Idle
      /\ handler[h].msg \in MsgsOf(h[2]) /\ handler[h].arg \in ArgsOf(h[2])
  BY BusyHandler
<1>2. handler' \in [Handlers -> Request \cup {Idle}] /\ handler'[h] = q
  BY DEF HandlersOK
<1>3. (Proper(h) /\ HeldCovers(h) /\ Entitled(h))'
  <2>1. Proper(h)'
    BY <1>1, <1>2 DEF Proper
  <2>2. HeldCovers(h)'
    <3>1. HeldCovers(h)
      BY DEF HandlersOK
    <3> QED
      BY <3>1, <1>1, <1>2 DEF HeldCovers
  <2>3. Entitled(h)'
    BY <1>2 DEF Entitled, Authority
  <2> QED
    BY <2>1, <2>2, <2>3
<1>4. ASSUME NEW g \in Handlers, g # h PROVE (Proper(g) /\ HeldCovers(g) /\ Entitled(g))'
  <2>1. handler'[g] = handler[g] /\ RowsStay
    BY <1>4 DEF HandlersOK, RowsStay
  <2> QED
    BY <2>1, OtherHandler
<1> QED
  BY <1>2, <1>3, <1>4 DEF HandlersOK

LEMMA ProceedKeeps ==
    ASSUME HandlersOK, NEW h \in Handlers, handler[h].pc # "idle",
           NEW step \in StepsOf(h[2]), Proceed(h, step),
           step \notin Unchecked => handler[h].held # None,
           h[2] \in {"UPDATE_MESSAGE", "DELETE_MESSAGE"} /\ step # "getMessage"
             => messages[handler[h].msg].state # "absent",
           step \in Mutations => Authority(h),
           UNCHANGED <<messages, roles>>
    PROVE  HandlersOK'
<1> DEFINE q == [handler[h] EXCEPT !.pc = step]
<1>1. handler[h] \in Request /\ step \in Steps
  BY BusyHandler, HandlerSubject, StepsAreSteps
<1>2. /\ q \in Request
      /\ q.pc = step /\ q.actor = handler[h].actor /\ q.msg = handler[h].msg
      /\ q.arg = handler[h].arg /\ q.held = handler[h].held
  BY <1>1 DEF Request
<1>3. handler' = [handler EXCEPT ![h] = q]
  BY DEF Proceed
<1> HIDE DEF q
<1> QED
  BY <1>2, <1>3, MoveKeeps

-----------------------------------------------------------------------------
(* The steps of the handlers                                               *)

LEMMA ReceiveKeeps ==
    ASSUME TypeOK, HandlersOK, NEW h \in Handlers, Receive(h)
    PROVE  HandlersOK'
<1> PICK u \in Users, m \in MsgsOf(h[2]), a \in ArgsOf(h[2]) :
         handler' = [handler EXCEPT ![h] =
                       [pc |-> FirstStep(h[2]), actor |-> u, msg |-> m, arg |-> a,
                        held |-> roles[u], listed |-> {}]]
  BY DEF Receive
<1> DEFINE q == [pc |-> FirstStep(h[2]), actor |-> u, msg |-> m, arg |-> a,
                 held |-> roles[u], listed |-> {}]
<1>1. h[2] \in AllSubjects
  BY HandlerSubject
<1>2. FirstStep(h[2]) \in StepsOf(h[2]) /\ FirstStep(h[2]) \in Unchecked
  BY <1>1 DEF FirstStep, StepsOf, Unchecked, AllSubjects
<1>3. h[2] \in {"UPDATE_MESSAGE", "DELETE_MESSAGE"} => FirstStep(h[2]) = "getMessage"
  BY DEF FirstStep
<1>4. q \in Request
  BY <1>1, <1>2, StepsAreSteps DEF Request, TypeOK
<1>5. handler' \in [Handlers -> Request \cup {Idle}] /\ handler'[h] = q
  BY <1>4 DEF HandlersOK
<1>6. (Proper(h) /\ HeldCovers(h) /\ Entitled(h))'
  BY <1>2, <1>3, <1>5 DEF Proper, HeldCovers, Entitled, Unchecked, Mutations, Receive
<1>7. ASSUME NEW g \in Handlers, g # h PROVE (Proper(g) /\ HeldCovers(g) /\ Entitled(g))'
  <2>1. handler'[g] = handler[g] /\ RowsStay /\ UNCHANGED roles
    BY <1>7 DEF HandlersOK, RowsStay, Receive
  <2> QED
    BY <2>1, OtherHandler
<1> QED
  BY <1>5, <1>6, <1>7 DEF HandlersOK

LEMMA ReadKeeps ==
    ASSUME TypeOK, HandlersOK, NEW h \in Handlers,
           \/ GetMessage(h) \/ IsMember(h) \/ GetConversation(h) \/ GetActor(h)
           \/ ListMembers(h) \/ ListMessages(h) \/ ListReaders(h)
    PROVE  HandlersOK'
<1>0. /\ h[2] \in AllSubjects
      /\ handler[h].pc # "idle"
      /\ UNCHANGED <<messages, roles>>
      /\ RowsStay
  BY HandlerSubject
     DEF GetMessage, IsMember, GetConversation, GetActor, ListMembers, ListMessages,
         ListReaders, Refuse, RowsStay
<1>1. /\ handler[h] # Idle /\ handler[h] \in Request
      /\ handler[h].pc \in StepsOf(h[2]) /\ handler[h].msg \in MsgsOf(h[2])
      /\ HeldCovers(h) /\ Entitled(h)
  BY <1>0, BusyHandler DEF HandlersOK
<1>2. CASE Answer(h)
  BY <1>0, <1>2, AnswerKeeps
<1>3. CASE GetMessage(h) /\ ~Answer(h)
  <2>1. "isMember" \in StepsOf(h[2])
    BY <1>0, <1>1, <1>3 DEF GetMessage, StepsOf, AllSubjects
  <2>2. messages[handler[h].msg].state # "absent" /\ Proceed(h, "isMember")
    BY <1>3 DEF GetMessage, Live
  <2>3. "isMember" \in Unchecked /\ "isMember" \notin Mutations
    BY DEF Unchecked, Mutations
  <2> QED
    BY <1>0, <2>1, <2>2, <2>3, ProceedKeeps
<1>4. CASE IsMember(h) /\ ~Answer(h)
  <2> DEFINE next == AfterMember(h)
  <2>1. Proceed(h, next) /\ handler[h].held # None
    BY <1>1, <1>4 DEF IsMember, Admitted, HeldCovers
  <2>2. next \in StepsOf(h[2]) /\ (next \in Mutations => Authority(h))
    <3>1. CASE h[2] \in {"UPDATE_MESSAGE", "DELETE_MESSAGE"}
      <4>1. next = IF handler[h].actor = messages[handler[h].msg].sender
                   THEN Mutation(h[2]) ELSE "getConversation"
        BY <3>1 DEF AfterMember
      <4>2. Mutation(h[2]) \in StepsOf(h[2]) /\ "getConversation" \in StepsOf(h[2])
        BY <3>1 DEF Mutation, StepsOf
      <4> QED
        BY <2>1, <4>1, <4>2 DEF Authority, Mutations
    <3>2. CASE h[2] \in {"ACK_MESSAGE", "MESSAGE_MARK_SEEN", "LIST_MESSAGES", "NEW_MESSAGE"}
      BY <3>2 DEF AfterMember, StepsOf, Mutations
    <3>3. h[2] # "MESSAGE_SET_STATUS"
      BY <1>1, <1>4 DEF IsMember, StepsOf
    <3> QED
      BY <1>0, <3>1, <3>2, <3>3 DEF AllSubjects
  <2>3. h[2] \in {"UPDATE_MESSAGE", "DELETE_MESSAGE"} => messages[handler[h].msg].state # "absent"
    BY <1>1, <1>4 DEF Entitled, IsMember
  <2> HIDE DEF next
  <2> QED
    BY <1>0, <2>1, <2>2, <2>3, ProceedKeeps
<1>5. CASE (GetConversation(h) \/ GetActor(h)) /\ ~Answer(h)
  <2>1. PICK next \in {"getActor", "checkConversation", "listMembers"} : Proceed(h, next)
    BY <1>5 DEF GetConversation, GetActor
  <2>2. next \in StepsOf(h[2]) /\ handler[h].pc \notin Unchecked
    BY <1>0, <1>1, <1>5 DEF GetConversation, GetActor, StepsOf, AllSubjects, Unchecked
  <2>3. /\ handler[h].held # None
        /\ h[2] \in {"UPDATE_MESSAGE", "DELETE_MESSAGE"} => messages[handler[h].msg].state # "absent"
    BY <1>1, <2>2 DEF Entitled, Unchecked
  <2>4. next \notin Mutations
    BY DEF Mutations
  <2> QED
    BY <1>0, <2>1, <2>2, <2>3, <2>4, ProceedKeeps
<1>6. CASE ListMembers(h) /\ ~Answer(h)
  <2> DEFINE next == Mutation(h[2])
  <2>1. Proceed(h, next) /\ handler[h].held \in Moderators /\ handler[h].held # None
    BY <1>1, <1>6 DEF ListMembers, Moderates, HeldCovers, Moderators, None
  <2>2. next \in StepsOf(h[2])
    BY <1>0, <1>1, <1>6 DEF ListMembers, Mutation, StepsOf, AllSubjects
  <2>3. h[2] \in {"UPDATE_MESSAGE", "DELETE_MESSAGE"} => messages[handler[h].msg].state # "absent"
    BY <1>1, <1>6 DEF ListMembers, Entitled
  <2>4. Authority(h)
    BY <2>1 DEF Authority
  <2> HIDE DEF next
  <2> QED
    BY <1>0, <2>1, <2>2, <2>3, <2>4, ProceedKeeps
<1>7. CASE ListMessages(h) /\ ~Answer(h)
  <2> DEFINE q == [handler[h] EXCEPT !.pc = "listReaders", !.listed = Listed]
  <2>1. "listReaders" \in StepsOf(h[2]) /\ h[2] = "LIST_MESSAGES"
    BY <1>0, <1>1, <1>7 DEF ListMessages, StepsOf, AllSubjects
  <2>2. handler' = [handler EXCEPT ![h] = q]
    BY <1>7 DEF ListMessages
  <2>3. /\ q \in Request
        /\ q.pc = "listReaders" /\ q.actor = handler[h].actor /\ q.msg = handler[h].msg
        /\ q.arg = handler[h].arg /\ q.held = handler[h].held
    BY <1>1 DEF Request, Steps, Listed
  <2>4. handler[h].held # None /\ "listReaders" \notin Mutations
    BY <1>1, <1>7 DEF ListMessages, Entitled, Unchecked, Mutations
  <2> HIDE DEF q
  <2> QED
    BY <1>0, <2>1, <2>2, <2>3, <2>4, MoveKeeps
<1>8. ListReaders(h) => Answer(h)
  BY DEF ListReaders, Refuse
<1> QED
  BY <1>2, <1>3, <1>4, <1>5, <1>6, <1>7, <1>8

(* Of the writes only the first of MESSAGE_MARK_SEEN is not the last call. *)
LEMMA MarkSeenKeeps ==
    ASSUME TypeOK, HandlersOK, NEW h \in Handlers, MarkSeen(h)
    PROVE  HandlersOK'
<1>0. h[2] \in AllSubjects /\ RowsStay /\ UNCHANGED <<messages, roles>>
  BY HandlerSubject DEF MarkSeen, Refuse, RowsStay
<1>1. CASE Answer(h)
  BY <1>0, <1>1, AnswerKeeps
<1>2. CASE ~Answer(h)
  <2>1. handler[h].pc = "markSeen" /\ Proceed(h, "setSeen")
    BY <1>2 DEF MarkSeen, Refuse
  <2>2. handler[h] # Idle /\ "markSeen" \in StepsOf(h[2])
    BY <2>1, BusyHandler
  <2>3. h[2] = "MESSAGE_MARK_SEEN" /\ "setSeen" \in StepsOf(h[2]) /\ "setSeen" \notin Mutations
    BY <1>0, <2>2 DEF StepsOf, AllSubjects, Mutations
  <2>4. handler[h].held # None
    BY <2>1, <2>2 DEF HandlersOK, Entitled, Unchecked
  <2> QED
    BY <1>0, <2>1, <2>3, <2>4, ProceedKeeps
<1> QED
  BY <1>1, <1>2

LEMMA RolesChangeKeeps ==
    ASSUME TypeOK, HandlersOK, RolesChange
    PROVE  HandlersOK'
<1> PICK u \in Users, r \in Roles \cup {None} :
         /\ roles' = [roles EXCEPT ![u] = r]
         /\ handler' = [h \in Handlers |->
              IF handler[h].actor = u THEN [handler[h] EXCEPT !.held = Better(r, @)]
                                      ELSE handler[h]]
         /\ UNCHANGED messages
  BY DEF RolesChange
<1>0. /\ None \notin Moderators /\ Moderators = {"admin", "owner"}
      /\ Roles \subseteq {"member", "admin", "owner"} /\ None \notin Users
  BY NoneApart DEF Moderators, None
<1>1. ASSUME NEW h \in Handlers
      PROVE  /\ handler'[h] \in Request \cup {Idle}
             /\ (Proper(h) /\ HeldCovers(h) /\ Entitled(h))'
  <2>0. /\ handler[h] \in Request \cup {Idle}
        /\ Proper(h) /\ HeldCovers(h) /\ Entitled(h)
    BY DEF HandlersOK
  <2>1. CASE handler[h] = Idle
    <3>1. handler'[h] = Idle
      BY <1>0, <2>1 DEF Idle
    <3> QED
      BY <3>1 DEF Proper, HeldCovers, Entitled
  <2>2. CASE handler[h] # Idle /\ handler[h].actor = u
    <3> DEFINE q == [handler[h] EXCEPT !.held = Better(r, handler[h].held)]
    <3>1. handler[h] \in Request
      BY <2>0, <2>2
    <3>2. /\ Better(r, handler[h].held) \in Roles \cup {None}
          /\ handler[h].held # None => Better(r, handler[h].held) # None
          /\ handler[h].held \in Moderators => Better(r, handler[h].held) \in Moderators
          /\ r # None => Better(r, handler[h].held) # None
          /\ r \in Moderators => Better(r, handler[h].held) \in Moderators
      BY <1>0, <3>1 DEF Better, Request
    <3>3. /\ q \in Request /\ q # Idle
          /\ q.pc = handler[h].pc /\ q.actor = u /\ q.msg = handler[h].msg
          /\ q.arg = handler[h].arg /\ q.held = Better(r, handler[h].held)
      BY <1>0, <2>2, <3>1, <3>2 DEF Request, Idle
    <3>4. handler'[h] = q /\ roles'[u] = r
      BY <2>2 DEF TypeOK
    <3> HIDE DEF q
    <3>5. Proper(h)' /\ HeldCovers(h)'
      BY <2>0, <2>2, <3>2, <3>3, <3>4 DEF Proper, HeldCovers
    <3>6. Entitled(h)'
      BY <2>0, <2>2, <3>2, <3>3, <3>4 DEF Entitled, Authority
    <3> QED
      BY <3>3, <3>4, <3>5, <3>6
  <2>3. CASE handler[h] # Idle /\ handler[h].actor # u
    <3>1. handler'[h] = handler[h] /\ roles'[handler[h].actor] = roles[handler[h].actor]
      BY <2>0, <2>3 DEF TypeOK, Request
    <3> QED
      BY <2>0, <3>1 DEF Proper, HeldCovers, Entitled, Authority
  <2> QED
    BY <2>1, <2>2, <2>3
<1>2. handler' \in [Handlers -> Request \cup {Idle}]
  BY <1>1, Zenon
<1> QED
  BY <1>1, <1>2 DEF HandlersOK

-----------------------------------------------------------------------------
(* The tables                                                              *)

StoredRows == [state : {"absent", "live", "deleted"}, sender : Users \cup {None, Somebody},
             content : Contents \cup {None}, status : Statuses]

TablesOK ==
    /\ storage \in Storages
    /\ messages \in [Msgs -> StoredRows]
    /\ receipts \in [Msgs -> [Users -> Times \cup {None}]]
    /\ seenBy \in [Msgs -> SUBSET Users]
    /\ conversation \in {"live", "deleted"}
    /\ roles \in [Users -> Roles \cup {None}]
    /\ acked \in [Msgs -> [Users -> SUBSET Times]]

LEMMA TypeParts == TypeOK <=> TablesOK /\ handler \in [Handlers -> Request \cup {Idle}]
BY DEF TypeOK, TablesOK, StoredRows

(* What DeletedFrozen says of a step. *)
Frozen ==
    \A m \in Msgs : messages[m].state = "deleted" =>
                      messages'[m] = messages[m] /\ receipts'[m] = receipts[m]

ReceiptsOK == AckedKept /\ OneReceiptTime

(* A step that acknowledges nothing, and takes a receipt only from a       *)
(* message that it deletes.                                                *)
LEMMA ReceiptsStay ==
    ASSUME TablesOK, ReceiptsOK, UNCHANGED acked, Frozen,
           \A m \in Msgs, u \in Users :
             \/ receipts[m][u] = None
             \/ receipts'[m][u] = receipts[m][u]
             \/ messages'[m].state = "deleted"
    PROVE  ReceiptsOK'
<1>1. OneReceiptTime'
  BY DEF ReceiptsOK, OneReceiptTime
<1>2. ASSUME NEW m \in Msgs, NEW u \in Users, messages'[m].state # "deleted"
      PROVE  acked[m][u] \subseteq {receipts'[m][u]}
  <2>1. messages[m].state # "deleted"
    BY <1>2 DEF Frozen
  <2>2. acked[m][u] \subseteq {receipts[m][u]} /\ acked[m][u] \subseteq Times
    BY <2>1 DEF ReceiptsOK, AckedKept, TablesOK
  <2> QED
    BY <1>2, <2>2, NoneApart
<1> QED
  BY <1>1, <1>2 DEF ReceiptsOK, AckedKept

(* Where a row is written: only the text and the status of a row change,   *)
(* and its state as far as it has not been deleted.                        *)
LEMMA RowWritten ==
    ASSUME TablesOK, NEW m \in Msgs, NEW row \in StoredRows,
           messages' = [messages EXCEPT ![m] = row],
           messages[m].state # "deleted",
           messages[m].state # "absent" => row.state # "absent" /\ row.sender = messages[m].sender
    PROVE  /\ messages' \in [Msgs -> StoredRows]
           /\ RowsStay
           /\ UNCHANGED receipts => Frozen
BY DEF TablesOK, RowsStay, Frozen

LEMMA RowsUnchanged == ASSUME UNCHANGED messages PROVE RowsStay /\ (UNCHANGED receipts => Frozen)
BY DEF RowsStay, Frozen

LEMMA RowTyped ==
    ASSUME NEW u \in Users \cup {Somebody}, NEW c \in Contents
    PROVE  Row(u, c) \in StoredRows /\ Row(u, c).state = "live" /\ Row(u, c).sender = u
BY DEF Row, StoredRows, Statuses

LEMMA RowEdited ==
    ASSUME TablesOK, NEW m \in Msgs
    PROVE  /\ \A c \in Contents : LET row == [messages[m] EXCEPT !.content = c]
                                  IN  row \in StoredRows /\ row.state = messages[m].state
                                      /\ row.sender = messages[m].sender
           /\ \A st \in Statuses : LET row == [messages[m] EXCEPT !.status = st]
                                   IN  row \in StoredRows /\ row.state = messages[m].state
                                       /\ row.sender = messages[m].sender
           /\ LET row == [messages[m] EXCEPT !.state = "deleted"]
              IN  row \in StoredRows /\ row.state = "deleted"
                  /\ row.sender = messages[m].sender
BY DEF TablesOK, StoredRows

(* What a step that leaves the memberships alone has to keep. *)
TablesKept == TablesOK' /\ RowsStay /\ Frozen /\ ReceiptsOK' /\ UNCHANGED roles

LEMMA StoreKept ==
    ASSUME TablesOK, HandlersOK, ReceiptsOK, UNCHANGED storage,
           NEW h \in Handlers, StoreMessage(h)
    PROVE  TablesKept
<1>1. /\ UNCHANGED <<storage, receipts, seenBy, conversation, roles, acked>>
  BY DEF StoreMessage
<1>2. handler[h].actor \in Users /\ handler[h].arg \in Contents
  <2>1. h[2] \in AllSubjects /\ handler[h].pc = "submit" /\ handler[h] \in Request
        /\ "submit" \in StepsOf(h[2]) /\ handler[h].arg \in ArgsOf(h[2])
    BY HandlerSubject, BusyHandler DEF StoreMessage
  <2> QED
    BY <2>1 DEF StepsOf, ArgsOf, AllSubjects, Request
<1>3. messages' \in [Msgs -> StoredRows] /\ RowsStay /\ Frozen
  <2>1. CASE UNCHANGED messages
    BY <1>1, <2>1, RowsUnchanged DEF TablesOK
  <2>2. ASSUME NEW m \in Msgs, messages[m] = Unused,
               messages' = [messages EXCEPT ![m] = Row(handler[h].actor, handler[h].arg)]
        PROVE  messages' \in [Msgs -> StoredRows] /\ RowsStay /\ Frozen
    <3> DEFINE row == Row(handler[h].actor, handler[h].arg)
    <3>1. row \in StoredRows /\ messages[m].state = "absent"
      BY <1>2, <2>2, RowTyped DEF Unused
    <3> HIDE DEF row
    <3> QED
      BY <1>1, <2>2, <3>1, RowWritten DEF row
  <2> QED
    BY <2>1, <2>2 DEF StoreMessage
<1>4. ReceiptsOK'
  BY <1>1, <1>3, ReceiptsStay
<1> QED
  BY <1>1, <1>3, <1>4 DEF TablesKept, TablesOK

LEMMA SomebodyKept ==
    ASSUME TablesOK, ReceiptsOK, UNCHANGED storage, NEW m \in Msgs, SomebodySends(m)
    PROVE  TablesKept
<1>1. /\ UNCHANGED <<storage, receipts, seenBy, conversation, roles, acked>>
  BY DEF SomebodySends
<1>2. messages' \in [Msgs -> StoredRows] /\ RowsStay /\ Frozen
  <2> PICK c \in Contents : messages' = [messages EXCEPT ![m] = Row(Somebody, c)]
    BY DEF SomebodySends
  <2> DEFINE row == Row(Somebody, c)
  <2>1. row \in StoredRows /\ messages[m].state = "absent"
    BY RowTyped DEF SomebodySends, Unused
  <2> HIDE DEF row
  <2> QED
    BY <1>1, <2>1, RowWritten DEF row
<1>3. ReceiptsOK'
  BY <1>1, <1>2, ReceiptsStay
<1> QED
  BY <1>1, <1>2, <1>3 DEF TablesKept, TablesOK

LEMMA UpdateKept ==
    ASSUME TablesOK, HandlersOK, ReceiptsOK, UNCHANGED storage,
           NEW h \in Handlers, UpdateMessage(h)
    PROVE  TablesKept
<1>1. UNCHANGED <<storage, receipts, seenBy, conversation, roles, acked>>
  BY DEF UpdateMessage
<1>2. handler[h].msg \in Msgs /\ handler[h].arg \in Contents
  <2>1. h[2] \in AllSubjects /\ handler[h].pc = "updateMessage"
        /\ "updateMessage" \in StepsOf(h[2]) /\ handler[h].arg \in ArgsOf(h[2])
    BY HandlerSubject, BusyHandler DEF UpdateMessage
  <2> QED
    BY <2>1, HandlerMsg DEF StepsOf, ArgsOf, AllSubjects
<1>3. messages' \in [Msgs -> StoredRows] /\ RowsStay /\ Frozen
  <2> DEFINE m == handler[h].msg
             row == [messages[m] EXCEPT !.content = handler[h].arg]
  <2>1. CASE UNCHANGED messages
    BY <1>1, <2>1, RowsUnchanged DEF TablesOK
  <2>2. CASE Live(m) /\ messages' = [messages EXCEPT ![m] = row]
    <3>1. row \in StoredRows /\ row.state = messages[m].state /\ row.sender = messages[m].sender
      BY <1>2, RowEdited
    <3> HIDE DEF row
    <3> QED
      BY <1>1, <1>2, <2>2, <3>1, RowWritten DEF Live
  <2> QED
    BY <2>1, <2>2 DEF UpdateMessage, Writable
<1>4. ReceiptsOK'
  BY <1>1, <1>3, ReceiptsStay
<1> QED
  BY <1>1, <1>3, <1>4 DEF TablesKept, TablesOK

LEMMA DeleteKept ==
    ASSUME TablesOK, HandlersOK, ReceiptsOK, UNCHANGED storage,
           NEW h \in Handlers, DeleteMessage(h)
    PROVE  TablesKept
<1> DEFINE m == handler[h].msg
           row == [messages[m] EXCEPT !.state = "deleted"]
<1>1. UNCHANGED <<storage, conversation, roles, acked>>
  BY DEF DeleteMessage
<1>2. m \in Msgs
  BY HandlerMsg DEF DeleteMessage
<1>3. row \in StoredRows /\ row.state = "deleted" /\ row.sender = messages[m].sender
  BY <1>2, RowEdited
<1>4. CASE ~Live(m)
  <2>1. UNCHANGED <<messages, receipts, seenBy>>
    BY <1>4 DEF DeleteMessage, Writable, Forgets
  <2>2. RowsStay /\ Frozen
    BY <2>1, RowsUnchanged
  <2>3. ReceiptsOK'
    BY <1>1, <2>1, <2>2, ReceiptsStay
  <2> QED
    BY <1>1, <2>1, <2>2, <2>3 DEF TablesKept, TablesOK
<1>5. CASE Live(m)
  <2>1. messages' = [messages EXCEPT ![m] = row]
    BY <1>5 DEF DeleteMessage, Writable
  <2>2. /\ receipts' \in [Msgs -> [Users -> Times \cup {None}]]
        /\ \A n \in Msgs : n # m => receipts'[n] = receipts[n]
        /\ seenBy' \in [Msgs -> SUBSET Users]
    BY <1>2 DEF DeleteMessage, TablesOK
  <2>3. messages' \in [Msgs -> StoredRows] /\ RowsStay
    <3> HIDE DEF row
    <3> QED
      BY <1>2, <1>3, <1>5, <2>1, RowWritten DEF Live
  <2>4. Frozen
    BY <1>2, <1>5, <2>1, <2>2 DEF Frozen, Live, TablesOK
  <2>5. messages'[m].state = "deleted"
    BY <1>2, <1>3, <2>1 DEF TablesOK
  <2>6. ReceiptsOK'
    BY <1>1, <2>2, <2>4, <2>5, ReceiptsStay
  <2> QED
    BY <1>1, <2>2, <2>3, <2>4, <2>6 DEF TablesKept, TablesOK
<1> QED
  BY <1>4, <1>5

(* The receipt of an acknowledgement, stored with or without an answer.    *)
LEMMA ReceiptRecorded ==
    ASSUME TablesOK, HandlersOK, NEW h \in Handlers, handler[h].pc = "markReceived",
           RecordReceipt(handler[h])
    PROVE  LET m == handler[h].msg
               u == handler[h].actor
               t == Kept(m, u, handler[h].arg)
           IN  /\ m \in Msgs /\ u \in Users /\ t \in Times
               /\ receipts[m][u] \in {None, t}
               /\ receipts' = [receipts EXCEPT ![m][u] = t]
               /\ receipts' \in [Msgs -> [Users -> Times \cup {None}]]
               /\ receipts'[m][u] = t
               /\ \A n \in Msgs, v \in Users :
                    <<n, v>> # <<m, u>> => receipts'[n][v] = receipts[n][v]
               /\ \A n \in Msgs : n # m => receipts'[n] = receipts[n]
<1>1. h[2] = "ACK_MESSAGE" /\ handler[h].msg \in Msgs
  BY HandlerSubject, BusyHandler, HandlerMsg DEF StepsOf, AllSubjects
<1>2. handler[h].arg \in Times /\ handler[h].actor \in Users
  BY <1>1, BusyHandler DEF ArgsOf, Request
<1>3. Kept(handler[h].msg, handler[h].actor, handler[h].arg) \in Times
  BY <1>1, <1>2 DEF Kept, TablesOK
<1>4. receipts[handler[h].msg][handler[h].actor]
        \in {None, Kept(handler[h].msg, handler[h].actor, handler[h].arg)}
  BY DEF Kept
<1> HIDE DEF Kept
<1> QED
  BY <1>1, <1>2, <1>3, <1>4 DEF RecordReceipt, TablesOK

LEMMA AcknowledgeKept ==
    ASSUME TablesOK, HandlersOK, ReceiptsOK, UNCHANGED storage,
           NEW h \in Handlers, MarkReceived(h)
    PROVE  TablesKept
<1>1. UNCHANGED <<messages, seenBy, conversation, roles>>
  BY DEF MarkReceived, Refuse
<1>2. CASE UNCHANGED <<receipts, acked>>
  <2>1. RowsStay /\ Frozen
    BY <1>1, <1>2, RowsUnchanged
  <2> QED
    BY <1>1, <1>2, <2>1, ReceiptsStay DEF TablesKept, TablesOK
<1>3. CASE Writable(handler[h].msg) /\ ~UNCHANGED <<receipts, acked>>
  <2> DEFINE m == handler[h].msg
             u == handler[h].actor
             t == Kept(m, u, handler[h].arg)
  <2>1. /\ handler[h].pc = "markReceived" /\ RecordReceipt(handler[h])
        /\ acked' = [acked EXCEPT ![m][u] = @ \cup {t}]
        /\ messages[m].state = "live"
    BY <1>3 DEF MarkReceived, Refuse, Writable, Live
  <2>2. /\ m \in Msgs /\ u \in Users /\ t \in Times
        /\ receipts[m][u] \in {None, t}
        /\ receipts' \in [Msgs -> [Users -> Times \cup {None}]]
        /\ receipts'[m][u] = t
        /\ \A n \in Msgs, v \in Users :
             <<n, v>> # <<m, u>> => receipts'[n][v] = receipts[n][v]
        /\ \A n \in Msgs : n # m => receipts'[n] = receipts[n]
    BY <2>1, ReceiptRecorded
  <2> HIDE DEF m, u, t
  <2>3. RowsStay /\ Frozen
    BY <1>1, <2>1, <2>2, RowsUnchanged DEF Frozen
  <2>4. /\ acked' \in [Msgs -> [Users -> SUBSET Times]]
        /\ acked'[m][u] = acked[m][u] \cup {t}
        /\ \A n \in Msgs, v \in Users : <<n, v>> # <<m, u>> => acked'[n][v] = acked[n][v]
    BY <2>1, <2>2 DEF TablesOK
  <2>5. acked'[m][u] = {t}
    <3>1. acked[m][u] \subseteq {None, t} /\ acked[m][u] \subseteq Times
      BY <2>1, <2>2 DEF ReceiptsOK, AckedKept, TablesOK
    <3> QED
      BY <2>4, <3>1, NoneApart
  <2>6. ASSUME NEW n \in Msgs, NEW v \in Users
        PROVE  /\ messages'[n].state # "deleted" => acked'[n][v] \subseteq {receipts'[n][v]}
               /\ \A s, s2 \in acked'[n][v] : s = s2
    <3>1. CASE <<n, v>> = <<m, u>>
      BY <2>2, <2>5, <3>1
    <3>2. CASE <<n, v>> # <<m, u>>
      BY <1>1, <2>2, <2>4, <3>2 DEF ReceiptsOK, AckedKept, OneReceiptTime
    <3> QED
      BY <3>1, <3>2
  <2>7. ReceiptsOK'
    BY <2>6 DEF ReceiptsOK, AckedKept, OneReceiptTime
  <2> QED
    BY <1>1, <2>2, <2>3, <2>4, <2>7 DEF TablesKept, TablesOK
<1> QED
  BY <1>2, <1>3 DEF MarkReceived, Refuse

LEMMA StatusKept ==
    ASSUME TablesOK, HandlersOK, ReceiptsOK, UNCHANGED storage,
           NEW h \in Handlers, SetStatus(h)
    PROVE  TablesKept
<1>1. UNCHANGED <<storage, receipts, seenBy, conversation, roles, acked>>
  BY DEF SetStatus
<1>2. handler[h].msg \in Msgs /\ Status(handler[h]) \in Statuses
  <2>1. handler[h].pc \in {"setStatus", "setSeen"}
    BY DEF SetStatus
  <2>2. h[2] \in AllSubjects /\ handler[h].pc \in StepsOf(h[2]) /\ handler[h].arg \in ArgsOf(h[2])
        /\ handler[h].msg \in Msgs
    BY <2>1, HandlerSubject, BusyHandler, HandlerMsg
  <2>3. handler[h].pc = "setStatus" => h[2] = "MESSAGE_SET_STATUS"
    BY <2>2 DEF StepsOf, AllSubjects
  <2> QED
    BY <2>1, <2>2, <2>3, NoneApart DEF ArgsOf, Status, Statuses
<1>3. messages' \in [Msgs -> StoredRows] /\ RowsStay /\ Frozen
  <2> DEFINE m == handler[h].msg
             row == [messages[m] EXCEPT !.status = Status(handler[h])]
  <2>1. CASE UNCHANGED messages
    BY <1>1, <2>1, RowsUnchanged DEF TablesOK
  <2>2. CASE Live(m) /\ messages' = [messages EXCEPT ![m] = row]
    <3>1. row \in StoredRows /\ row.state = messages[m].state /\ row.sender = messages[m].sender
      BY <1>2, RowEdited
    <3> HIDE DEF row
    <3> QED
      BY <1>1, <1>2, <2>2, <3>1, RowWritten DEF Live
  <2> QED
    BY <2>1, <2>2 DEF SetStatus, Writable
<1>4. ReceiptsOK'
  BY <1>1, <1>3, ReceiptsStay
<1> QED
  BY <1>1, <1>3, <1>4 DEF TablesKept, TablesOK

(* A step that leaves rows, receipts and what was acknowledged alone.      *)
LEMMA NothingWritten ==
    ASSUME TablesOK, ReceiptsOK, UNCHANGED <<storage, messages, receipts, roles, acked>>,
           seenBy' \in [Msgs -> SUBSET Users], conversation' \in {"live", "deleted"}
    PROVE  TablesKept
<1>1. RowsStay /\ Frozen
  BY RowsUnchanged
<1>2. ReceiptsOK'
  BY <1>1, ReceiptsStay
<1> QED
  BY <1>1, <1>2 DEF TablesKept, TablesOK

LEMMA ReaderRecorded ==
    ASSUME TablesOK, HandlersOK, NEW h \in Handlers, handler[h].pc = "markSeen",
           RecordReader(handler[h])
    PROVE  /\ handler[h].msg \in Msgs
           /\ seenBy' \in [Msgs -> SUBSET Users]
           /\ \A m \in Msgs : seenBy[m] \subseteq seenBy'[m]
           /\ handler[h].actor \in seenBy'[handler[h].msg]
<1>1. handler[h].msg \in Msgs /\ handler[h].actor \in Users
  BY HandlerMsg, BusyHandler DEF Request
<1> QED
  BY <1>1 DEF RecordReader, TablesOK

LEMMA LostKept ==
    ASSUME TablesOK, HandlersOK, ReceiptsOK, UNCHANGED storage,
           NEW h \in Handlers, LostAnswer(h)
    PROVE  TablesKept
<1>1. UNCHANGED <<messages, conversation, roles, acked>>
  BY DEF LostAnswer
<1>2. CASE /\ handler[h].pc = "markReceived" /\ Writable(handler[h].msg)
           /\ RecordReceipt(handler[h])
           /\ UNCHANGED seenBy
  <2> DEFINE m == handler[h].msg
             u == handler[h].actor
             t == Kept(m, u, handler[h].arg)
  <2>1. /\ m \in Msgs /\ receipts[m][u] \in {None, t}
        /\ receipts' \in [Msgs -> [Users -> Times \cup {None}]]
        /\ receipts'[m][u] = t
        /\ \A n \in Msgs, v \in Users :
             <<n, v>> # <<m, u>> => receipts'[n][v] = receipts[n][v]
        /\ \A n \in Msgs : n # m => receipts'[n] = receipts[n]
    BY <1>2, ReceiptRecorded
  <2>2. messages[m].state = "live"
    BY <1>2 DEF Writable, Live
  <2> HIDE DEF m, u, t
  <2>3. RowsStay /\ Frozen
    BY <1>1, <2>1, <2>2, RowsUnchanged DEF Frozen
  <2>4. \A n \in Msgs, v \in Users : receipts[n][v] = None \/ receipts'[n][v] = receipts[n][v]
    BY <2>1
  <2>5. ReceiptsOK'
    BY <1>1, <2>3, <2>4, ReceiptsStay
  <2> QED
    BY <1>1, <1>2, <2>1, <2>3, <2>5 DEF TablesKept, TablesOK
<1>3. CASE /\ handler[h].pc = "markSeen" /\ RecordReader(handler[h])
           /\ UNCHANGED receipts
  BY <1>1, <1>3, ReaderRecorded, NothingWritten DEF TablesOK
<1> QED
  BY <1>2, <1>3 DEF LostAnswer

LEMMA MarkSeenKept ==
    ASSUME TablesOK, HandlersOK, ReceiptsOK, UNCHANGED storage,
           NEW h \in Handlers, MarkSeen(h)
    PROVE  TablesKept
<1>1. UNCHANGED <<messages, receipts, conversation, roles, acked>>
  BY DEF MarkSeen, Refuse
<1>2. seenBy' \in [Msgs -> SUBSET Users]
  BY ReaderRecorded DEF MarkSeen, Refuse, TablesOK
<1> QED
  BY <1>1, <1>2, NothingWritten DEF TablesOK

-----------------------------------------------------------------------------
(* The invariant holds                                                     *)

LEMMA InvParts ==
    /\ MessagesInv <=> TablesOK /\ HandlersOK /\ ReceiptsOK
    /\ MessagesInv' <=> TablesOK' /\ HandlersOK' /\ ReceiptsOK'
<1>1. MessagesInv <=> TablesOK /\ HandlersOK /\ ReceiptsOK
  BY TypeParts DEF MessagesInv, HandlersOK, ReceiptsOK
<1> QED
  BY <1>1, PTL

LEMMA InitKept == Init => MessagesInv
<1> SUFFICES ASSUME Init PROVE MessagesInv
  OBVIOUS
<1>1. TablesOK
  BY DEF Init, TablesOK, StoredRows, Unused, Statuses
<1>2. HandlersOK
  BY DEF Init, HandlersOK, Proper, HeldCovers, Entitled
<1>3. ReceiptsOK
  BY DEF Init, ReceiptsOK, AckedKept, OneReceiptTime
<1> QED
  BY <1>1, <1>2, <1>3, InvParts

LEMMA HandlerStep ==
    ASSUME MessagesInv, UNCHANGED storage, NEW h \in Handlers,
           Receive(h) \/ Call(h) \/ FailedCall(h) \/ LostAnswer(h)
    PROVE  MessagesInv' /\ Frozen
<1>0. TypeOK /\ TablesOK /\ HandlersOK /\ ReceiptsOK
  BY InvParts DEF MessagesInv
<1>1. ASSUME TablesKept, HandlersOK' PROVE MessagesInv' /\ Frozen
  <2>1. TablesOK' /\ ReceiptsOK' /\ Frozen
    BY <1>1 DEF TablesKept
  <2> QED
    BY <1>1, <2>1, InvParts
<1>2. CASE Receive(h)
  <2>1. TablesKept
    BY <1>0, <1>2, NothingWritten DEF Receive, TablesOK
  <2> QED
    BY <1>0, <1>1, <1>2, <2>1, ReceiveKeeps
<1>3. CASE \/ GetMessage(h) \/ IsMember(h) \/ GetConversation(h) \/ GetActor(h)
           \/ ListMembers(h) \/ ListMessages(h) \/ ListReaders(h)
  <2>1. TablesKept
    BY <1>0, <1>3, NothingWritten
       DEF GetMessage, IsMember, GetConversation, GetActor, ListMembers, ListMessages,
           ListReaders, Refuse, TablesOK
  <2>2. HandlersOK'
    BY <1>0, <1>3, ReadKeeps
  <2> QED
    BY <1>1, <2>1, <2>2
<1>4. CASE MarkSeen(h)
  BY <1>0, <1>1, <1>4, MarkSeenKept, MarkSeenKeeps
<1>5. CASE /\ \/ StoreMessage(h) \/ UpdateMessage(h) \/ DeleteMessage(h)
              \/ MarkReceived(h) \/ SetStatus(h) \/ LostAnswer(h)
  <2>1. TablesKept
    BY <1>0, <1>5, StoreKept, UpdateKept, DeleteKept, AcknowledgeKept, StatusKept, LostKept
  <2>2. RowsStay /\ UNCHANGED roles
    BY <2>1 DEF TablesKept
  <2>3. Answer(h)
    BY <1>5 DEF StoreMessage, UpdateMessage, DeleteMessage, MarkReceived, SetStatus,
                LostAnswer, Refuse
  <2> QED
    BY <1>0, <1>1, <2>1, <2>2, <2>3, AnswerKeeps
<1>6. CASE FailedCall(h)
  <2>1. TablesKept
    BY <1>0, <1>6, NothingWritten DEF FailedCall, Refuse, TablesOK
  <2>2. RowsStay /\ UNCHANGED roles
    BY <2>1 DEF TablesKept
  <2> QED
    BY <1>0, <1>1, <1>6, <2>1, <2>2, AnswerKeeps DEF FailedCall, Refuse
<1> QED
  BY <1>2, <1>3, <1>4, <1>5, <1>6 DEF Call

LEMMA OtherStep ==
    ASSUME MessagesInv, UNCHANGED storage,
           \/ \E m \in Msgs : SomebodySends(m)
           \/ RolesChange
           \/ ConversationGoes
           \/ \E r \in Replicas : Crash(r)
    PROVE  MessagesInv' /\ Frozen
<1>0. TypeOK /\ TablesOK /\ HandlersOK /\ ReceiptsOK
  BY InvParts DEF MessagesInv
<1>1. CASE \/ \E m \in Msgs : SomebodySends(m)
           \/ ConversationGoes
  <2>1. TablesKept /\ UNCHANGED handler
    BY <1>0, <1>1, SomebodyKept, NothingWritten DEF SomebodySends, ConversationGoes, TablesOK
  <2>2. HandlersOK'
    BY <1>0, <2>1, OtherHandler DEF HandlersOK, TablesKept
  <2> QED
    BY <2>1, <2>2, InvParts DEF TablesKept
<1>2. CASE RolesChange
  <2>1. UNCHANGED <<storage, messages, receipts, seenBy, conversation, acked>>
    BY <1>2 DEF RolesChange
  <2>2. roles' \in [Users -> Roles \cup {None}]
    BY <1>0, <1>2 DEF RolesChange, TablesOK
  <2>3. TablesOK' /\ Frozen
    BY <1>0, <2>1, <2>2, RowsUnchanged DEF TablesOK
  <2>4. ReceiptsOK'
    BY <1>0, <2>1, <2>3, ReceiptsStay
  <2>5. HandlersOK'
    BY <1>0, <1>2, RolesChangeKeeps
  <2> QED
    BY <2>3, <2>4, <2>5, InvParts
<1>3. CASE \E r \in Replicas : Crash(r)
  <2>1. TablesKept
    BY <1>0, <1>3, NothingWritten DEF Crash, TablesOK
  <2>2. \A h \in Handlers : handler'[h] \in {handler[h], Idle}
    BY <1>3 DEF Crash
  <2>3. handler' \in [Handlers -> Request \cup {Idle}]
    BY <1>0, <1>3 DEF Crash, HandlersOK
  <2>4. ASSUME NEW h \in Handlers PROVE (Proper(h) /\ HeldCovers(h) /\ Entitled(h))'
    <3>1. CASE handler'[h] = Idle
      BY <3>1 DEF Proper, HeldCovers, Entitled
    <3>2. CASE handler'[h] = handler[h]
      BY <1>0, <2>1, <3>2, OtherHandler DEF TablesKept
    <3> QED
      BY <2>2, <3>1, <3>2
  <2>5. HandlersOK'
    BY <2>3, <2>4 DEF HandlersOK
  <2> QED
    BY <2>1, <2>5, InvParts DEF TablesKept
<1> QED
  BY <1>1, <1>2, <1>3

LEMMA StepKept == MessagesInv /\ [Next]_vars => MessagesInv' /\ Frozen
<1>1. ASSUME MessagesInv, Next PROVE MessagesInv' /\ Frozen
  BY <1>1, HandlerStep, OtherStep DEF Next, Step
<1>2. ASSUME MessagesInv, UNCHANGED vars PROVE MessagesInv' /\ Frozen
  <2>1. Frozen /\ UNCHANGED <<storage, messages, receipts, seenBy, conversation, roles, handler, acked>>
    BY <1>2 DEF vars, Frozen
  <2>2. TablesOK' /\ HandlersOK' /\ ReceiptsOK'
    BY <1>2, <2>1, InvParts
       DEF TablesOK, HandlersOK, Proper, HeldCovers, Entitled, Authority,
           ReceiptsOK, AckedKept, OneReceiptTime
  <2> QED
    BY <2>1, <2>2, InvParts
<1> QED
  BY <1>1, <1>2

(* The inductive invariant behind the theorems below: what every handler   *)
(* still knows at each of its calls, and what a receipt holds.             *)
THEOREM InvariantHolds == Spec => []MessagesInv
<1>1. MessagesInv /\ [Next]_vars => MessagesInv'
  BY StepKept
<1> QED
  BY <1>1, InitKept, PTL DEF Spec

(* Every value stays in its type: no call of a request, whose checks may   *)
(* have been overtaken by others, leaves a table with what it cannot hold. *)
THEOREM MessagesTyped == Spec => []TypeOK
<1>1. MessagesInv => TypeOK
  BY DEF MessagesInv
<1> QED
  BY <1>1, InvariantHolds, PTL

(* Whoever acknowledges a message again, on whichever replica and after    *)
(* whichever fault, is answered with the time of the first one             *)
(* (MarkReceived).                                                         *)
THEOREM ReceiptTimeFixed == Spec => []OneReceiptTime
<1>1. MessagesInv => OneReceiptTime
  BY DEF MessagesInv
<1> QED
  BY <1>1, InvariantHolds, PTL

(* Nothing that was checked before a deletion changes the message or its   *)
(* receipts after it.                                                      *)
THEOREM DeletedMessagesFrozen == Spec => DeletedFrozen
<1>1. MessagesInv /\ [Next]_vars => [Frozen]_vars
  BY StepKept
<1>2. [Frozen]_vars <=> [\A m \in Msgs : messages[m].state = "deleted"
                          => messages'[m] = messages[m] /\ receipts'[m] = receipts[m]]_vars
  BY DEF Frozen
<1> QED
  BY <1>1, <1>2, InvariantHolds, PTL DEF Spec, DeletedFrozen

-----------------------------------------------------------------------------
(* Who edits, deletes and records                                          *)

(* Of a handler's calls these write rows, receipts or readers.             *)
LEMMA Writers ==
    ASSUME NEW h \in Handlers,
           Receive(h) \/ Call(h) \/ FailedCall(h) \/ LostAnswer(h),
           ~UNCHANGED <<messages, receipts, seenBy>>
    PROVE  \/ StoreMessage(h) \/ UpdateMessage(h) \/ DeleteMessage(h)
           \/ MarkReceived(h) \/ SetStatus(h) \/ MarkSeen(h) \/ LostAnswer(h)
BY DEF Receive, Call, FailedCall, GetMessage, IsMember, GetConversation, GetActor, ListMembers,
       ListMessages, ListReaders, Refuse

(* A live message is edited or deleted by the handlers that are about to.  *)
LEMMA EditStep ==
    ASSUME MessagesInv, Next, NEW m \in Msgs, Live(m),
           messages'[m].content # messages[m].content \/ messages'[m].state = "deleted"
    PROVE  \E h \in Handlers : handler[h].pc \in Mutations /\ handler[h].msg = m
<1>0. TablesOK /\ HandlersOK
  BY InvParts
<1>1. messages'[m] # messages[m]
  BY DEF Live
<1>2. PICK h \in Handlers : Receive(h) \/ Call(h) \/ FailedCall(h) \/ LostAnswer(h)
  <2>1. \A n \in Msgs : ~SomebodySends(n)
    BY <1>0, <1>1 DEF SomebodySends, TablesOK, Live, Unused
  <2>2. ~RolesChange /\ ~ConversationGoes /\ \A r \in Replicas : ~Crash(r)
    BY <1>1 DEF RolesChange, ConversationGoes, Crash
  <2> QED
    BY <2>1, <2>2 DEF Next, Step
<1>3. \/ StoreMessage(h) \/ UpdateMessage(h) \/ DeleteMessage(h) \/ SetStatus(h)
  BY <1>1, <1>2, Writers DEF MarkReceived, MarkSeen, LostAnswer, Refuse
<1>4. ~StoreMessage(h)
  BY <1>0, <1>1 DEF StoreMessage, TablesOK, Live, Unused
<1>5. ~SetStatus(h)
  <2> SUFFICES ASSUME SetStatus(h) PROVE FALSE
    OBVIOUS
  <2>1. messages'[m].content = messages[m].content /\ messages'[m].state = messages[m].state
    BY <1>0 DEF SetStatus, TablesOK, StoredRows
  <2> QED
    BY <2>1 DEF Live
<1>6. CASE UpdateMessage(h)
  BY <1>0, <1>1, <1>6 DEF UpdateMessage, TablesOK, Mutations
<1>7. CASE DeleteMessage(h)
  BY <1>0, <1>1, <1>7 DEF DeleteMessage, TablesOK, Mutations
<1> QED
  BY <1>3, <1>4, <1>5, <1>6, <1>7

LEMMA MutationEntitled ==
    ASSUME HandlersOK, NEW h \in Handlers, handler[h].pc \in Mutations
    PROVE  h[2] \in {"UPDATE_MESSAGE", "DELETE_MESSAGE"} /\ Authority(h)
<1>1. h[2] \in AllSubjects /\ handler[h] # Idle /\ handler[h].pc \in StepsOf(h[2])
  BY HandlerSubject, BusyHandler DEF Mutations
<1> QED
  BY <1>1 DEF StepsOf, Mutations, AllSubjects, HandlersOK, Entitled

(* However the memberships change between the calls of an edit or a        *)
(* deletion (authorizeMessageMutation), it is carried out only for the     *)
(* sender, as a member, or for an admin or owner.                          *)
THEOREM EditsByEntitled == Spec => EditsAuthorised
<1> DEFINE Edits == \A m \in Msgs :
         /\ Live(m)
         /\ \/ messages'[m].content # messages[m].content
            \/ messages'[m].state = "deleted"
         => \E h \in Handlers : /\ h[2] \in {"UPDATE_MESSAGE", "DELETE_MESSAGE"}
                               /\ handler[h].msg = m
                               /\ Authority(h)
<1>1. MessagesInv /\ Next => Edits
  <2> SUFFICES ASSUME MessagesInv, Next, NEW m \in Msgs, Live(m),
                      messages'[m].content # messages[m].content \/ messages'[m].state = "deleted"
               PROVE  \E h \in Handlers : /\ h[2] \in {"UPDATE_MESSAGE", "DELETE_MESSAGE"}
                                         /\ handler[h].msg = m
                                         /\ Authority(h)
    OBVIOUS
  <2>1. PICK h \in Handlers : handler[h].pc \in Mutations /\ handler[h].msg = m
    BY EditStep
  <2> QED
    BY <2>1, InvParts, MutationEntitled
<1>2. MessagesInv /\ [Next]_vars => [Edits]_vars
  BY <1>1
<1>3. [][Edits]_vars <=> EditsAuthorised
  BY DEF EditsAuthorised
<1> QED
  BY <1>2, <1>3, InvariantHolds, PTL DEF Spec

(* A message, a receipt or a reader is recorded by a handler for its actor.*)
LEMMA RecordStep ==
    ASSUME MessagesInv, Next, NEW m \in Msgs, NEW u \in Users,
           \/ messages[m] = Unused /\ messages'[m].sender = u
           \/ receipts'[m][u] \notin {None, receipts[m][u]}
           \/ u \in seenBy'[m] \ seenBy[m]
    PROVE  \E h \in Handlers : /\ handler[h].pc \in {"submit", "markReceived", "markSeen"}
                              /\ handler[h].msg \in {m, None}
                              /\ handler[h].actor = u
<1>0. TablesOK /\ HandlersOK
  BY InvParts
<1>1. ~UNCHANGED <<messages, receipts, seenBy>>
  BY NoneApart DEF Unused
<1>2. PICK h \in Handlers : Receive(h) \/ Call(h) \/ FailedCall(h) \/ LostAnswer(h)
  <2>1. \A n \in Msgs : ~SomebodySends(n)
    <3> SUFFICES ASSUME NEW n \in Msgs, SomebodySends(n) PROVE FALSE
      OBVIOUS
    <3>1. UNCHANGED <<receipts, seenBy>> /\ messages[m] = Unused /\ messages'[m].sender = u
      BY DEF SomebodySends
    <3>2. messages'[m].sender \in {messages[m].sender, Somebody}
      BY <1>0 DEF SomebodySends, TablesOK, Row
    <3> QED
      BY <3>1, <3>2, NoneApart DEF Unused
  <2>2. ~RolesChange /\ ~ConversationGoes /\ \A r \in Replicas : ~Crash(r)
    BY <1>1 DEF RolesChange, ConversationGoes, Crash
  <2> QED
    BY <2>1, <2>2 DEF Next, Step
<1>3. \/ StoreMessage(h) \/ UpdateMessage(h) \/ DeleteMessage(h)
      \/ MarkReceived(h) \/ SetStatus(h) \/ MarkSeen(h) \/ LostAnswer(h)
  BY <1>1, <1>2, Writers
<1>4. CASE StoreMessage(h)
  <2>1. UNCHANGED <<receipts, seenBy>> /\ messages[m] = Unused /\ messages'[m].sender = u
    BY <1>4 DEF StoreMessage
  <2>2. messages'[m] # messages[m]
    BY <2>1, NoneApart DEF Unused
  <2>3. messages'[m] = Row(handler[h].actor, handler[h].arg) /\ handler[h].pc = "submit"
    BY <1>0, <1>4, <2>2 DEF StoreMessage, TablesOK
  <2>4. h[2] = "NEW_MESSAGE"
    BY <1>0, <2>3, HandlerSubject, BusyHandler DEF StepsOf, AllSubjects
  <2>5. handler[h].msg = None
    BY <1>0, <2>3, <2>4, BusyHandler DEF MsgsOf
  <2> QED
    BY <2>1, <2>3, <2>5 DEF Row
<1>5. CASE UpdateMessage(h) \/ DeleteMessage(h) \/ SetStatus(h)
  <2>1. \A n \in Msgs : messages[n] = Unused => messages'[n] = messages[n]
    BY <1>0, <1>5 DEF UpdateMessage, DeleteMessage, SetStatus, Writable, Live, Unused, TablesOK
  <2>2. receipts'[m][u] \in {None, receipts[m][u]} /\ seenBy'[m] \subseteq seenBy[m]
    BY <1>0, <1>5 DEF UpdateMessage, DeleteMessage, SetStatus, TablesOK
  <2> QED
    BY <2>1, <2>2, NoneApart DEF Unused
<1>6. CASE MarkReceived(h) \/ MarkSeen(h) \/ LostAnswer(h)
  <2>1. UNCHANGED messages
    BY <1>6 DEF MarkReceived, MarkSeen, LostAnswer, Refuse
  <2>2. \/ receipts'[m][u] \notin {None, receipts[m][u]}
        \/ u \in seenBy'[m] \ seenBy[m]
    BY <2>1, NoneApart DEF Unused
  <2>3. \/ handler[h].pc = "markReceived" /\ RecordReceipt(handler[h]) /\ UNCHANGED seenBy
        \/ handler[h].pc = "markSeen" /\ RecordReader(handler[h]) /\ UNCHANGED receipts
    BY <1>6, <2>2 DEF MarkReceived, MarkSeen, LostAnswer, Refuse
  <2>4. handler[h].msg \in Msgs
    BY <1>0, <2>3, HandlerMsg
  <2>5. handler[h].msg = m /\ handler[h].actor = u
    BY <1>0, <2>2, <2>3, <2>4 DEF RecordReceipt, RecordReader, TablesOK
  <2> QED
    BY <2>3, <2>5
<1> QED
  BY <1>3, <1>4, <1>5, <1>6

LEMMA RecordEntitled ==
    ASSUME HandlersOK, NEW h \in Handlers, handler[h].pc \in {"submit", "markReceived", "markSeen"}
    PROVE  /\ h[2] \in {"NEW_MESSAGE", "ACK_MESSAGE", "MESSAGE_MARK_SEEN"}
           /\ handler[h].held # None
<1>1. h[2] \in AllSubjects /\ handler[h] # Idle /\ handler[h].pc \in StepsOf(h[2])
  BY HandlerSubject, BusyHandler
<1> QED
  BY <1>1 DEF StepsOf, AllSubjects, HandlersOK, Entitled, Unchecked

(* Nobody posts a message, acknowledges one or is recorded as its reader   *)
(* without having asked for it and been a member since                     *)
(* (authorizeConversationMember).                                          *)
THEOREM RecordsByMembers == Spec => ActsByMembers
<1> DEFINE Records(m, u) ==
              \/ messages[m] = Unused /\ messages'[m].sender = u
              \/ receipts'[m][u] \notin {None, receipts[m][u]}
              \/ u \in seenBy'[m] \ seenBy[m]
           Asked(m, u) ==
              \E h \in Handlers : /\ h[2] \in {"NEW_MESSAGE", "ACK_MESSAGE", "MESSAGE_MARK_SEEN"}
                                 /\ handler[h].msg \in {m, None}
                                 /\ handler[h].actor = u
                                 /\ handler[h].held # None
           Acts == \A m \in Msgs, u \in Users : Records(m, u) => Asked(m, u)
<1>1. MessagesInv /\ Next => Acts
  <2> SUFFICES ASSUME MessagesInv, Next, NEW m \in Msgs, NEW u \in Users, Records(m, u)
               PROVE  Asked(m, u)
    OBVIOUS
  <2>1. PICK h \in Handlers : /\ handler[h].pc \in {"submit", "markReceived", "markSeen"}
                             /\ handler[h].msg \in {m, None}
                             /\ handler[h].actor = u
    BY RecordStep
  <2> QED
    BY <2>1, InvParts, RecordEntitled
<1>2. MessagesInv /\ [Next]_vars => [Acts]_vars
  BY <1>1
<1>3. [][Acts]_vars <=> ActsByMembers
  BY DEF ActsByMembers
<1> QED
  BY <1>2, <1>3, InvariantHolds, PTL DEF Spec

-----------------------------------------------------------------------------
(* Readers on postgres                                                     *)

(* How a message comes to be seen, when nobody asks for that status.       *)
LEMMA StatusStep ==
    ASSUME MessagesInv, Next, "seen" \notin AskedStatuses, NEW m \in Msgs,
           messages'[m].status = "seen", messages[m].status # "seen"
    PROVE  \E h \in Handlers : handler[h].pc = "setSeen" /\ handler[h].msg = m
<1>0. TablesOK /\ HandlersOK
  BY InvParts
<1>1. messages'[m] # messages[m]
  OBVIOUS
<1>2. PICK h \in Handlers : Receive(h) \/ Call(h) \/ FailedCall(h) \/ LostAnswer(h)
  <2>1. \A n \in Msgs : ~SomebodySends(n)
    BY <1>0, <1>1 DEF SomebodySends, TablesOK, Row
  <2>2. ~RolesChange /\ ~ConversationGoes /\ \A r \in Replicas : ~Crash(r)
    BY <1>1 DEF RolesChange, ConversationGoes, Crash
  <2> QED
    BY <2>1, <2>2 DEF Next, Step
<1>3. \/ StoreMessage(h) \/ UpdateMessage(h) \/ DeleteMessage(h) \/ SetStatus(h)
  BY <1>1, <1>2, Writers DEF MarkReceived, MarkSeen, LostAnswer, Refuse
<1>4. ~StoreMessage(h)
  BY <1>0, <1>1 DEF StoreMessage, TablesOK, Row
<1>5. ~UpdateMessage(h) /\ ~DeleteMessage(h)
  <2> SUFFICES ASSUME UpdateMessage(h) \/ DeleteMessage(h) PROVE FALSE
    OBVIOUS
  <2>1. UpdateMessage(h) => messages'[m].status = messages[m].status
    BY <1>0 DEF UpdateMessage, TablesOK, StoredRows
  <2>2. DeleteMessage(h) => messages'[m].status = messages[m].status
    BY <1>0 DEF DeleteMessage, TablesOK, StoredRows
  <2> QED
    BY <2>1, <2>2
<1>6. CASE SetStatus(h)
  <2>1. handler[h].msg = m /\ Status(handler[h]) = "seen"
    BY <1>0, <1>1, <1>6 DEF SetStatus, TablesOK, StoredRows
  <2>2. handler[h].pc \in {"setStatus", "setSeen"}
    BY <1>6 DEF SetStatus
  <2>3. handler[h].pc # "setStatus"
    <3> SUFFICES ASSUME handler[h].pc = "setStatus" PROVE FALSE
      OBVIOUS
    <3>1. h[2] = "MESSAGE_SET_STATUS"
      BY <1>0, HandlerSubject, BusyHandler DEF StepsOf, AllSubjects
    <3> QED
      BY <1>0, <2>1, <3>1, BusyHandler DEF ArgsOf, Status
  <2> QED
    BY <2>1, <2>2, <2>3
<1> QED
  BY <1>3, <1>4, <1>5, <1>6

LEMMA ReadersStay ==
    ASSUME MessagesInv, Next, storage = "postgres"
    PROVE  \A m \in Msgs : seenBy[m] \subseteq seenBy'[m]
<1>0. TablesOK /\ HandlersOK
  BY InvParts
<1>1. ASSUME NEW h \in Handlers, Receive(h) \/ Call(h) \/ FailedCall(h) \/ LostAnswer(h)
      PROVE  \A m \in Msgs : seenBy[m] \subseteq seenBy'[m]
  <2>1. CASE UNCHANGED seenBy
    BY <2>1
  <2>2. CASE RecordReader(handler[h]) /\ handler[h].pc = "markSeen"
    BY <1>0, <2>2, ReaderRecorded
  <2>3. DeleteMessage(h) => UNCHANGED seenBy
    BY DEF DeleteMessage, Forgets
  <2> QED
    BY <1>1, <2>1, <2>2, <2>3, Writers
       DEF StoreMessage, UpdateMessage, MarkReceived, SetStatus, MarkSeen, LostAnswer, Refuse
<1>2. ASSUME \/ \E m \in Msgs : SomebodySends(m)
             \/ RolesChange \/ ConversationGoes
             \/ \E r \in Replicas : Crash(r)
      PROVE  \A m \in Msgs : seenBy[m] \subseteq seenBy'[m]
  BY <1>2 DEF SomebodySends, RolesChange, ConversationGoes, Crash
<1> QED
  BY <1>1, <1>2 DEF Next, Step

(* How a handler comes to be at the status of a reader it has recorded,    *)
(* and at the messages it has read for a list.                             *)
LEMMA PlaceStep ==
    ASSUME MessagesInv, Next, NEW h \in Handlers, handler'[h] # Idle
    PROVE  /\ handler'[h].pc = "setSeen" =>
                /\ handler'[h].msg = handler[h].msg
                /\ \/ handler[h].pc = "setSeen"
                   \/ handler[h].pc = "markSeen" /\ RecordReader(handler[h])
           /\ handler'[h].listed \subseteq handler[h].listed \cup Listed
<1>0. TablesOK /\ HandlersOK /\ handler[h] \in Request \cup {Idle}
  BY InvParts DEF HandlersOK
<1>1. ASSUME NEW g \in Handlers, Receive(g) \/ Call(g) \/ FailedCall(g) \/ LostAnswer(g), g # h
      PROVE  handler'[h] = handler[h]
  BY <1>0, <1>1
     DEF Receive, Call, FailedCall, LostAnswer, StoreMessage, GetMessage, IsMember,
         GetConversation, GetActor, ListMembers, UpdateMessage, DeleteMessage, MarkReceived,
         SetStatus, MarkSeen, ListMessages, ListReaders, Refuse, Answer, Proceed, HandlersOK
<1>2. CASE handler'[h] = handler[h]
  BY <1>2
<1>3. CASE Receive(h)
  <2>1. handler'[h].listed = {} /\ handler'[h].pc = FirstStep(h[2])
    BY <1>0, <1>3 DEF Receive, HandlersOK
  <2> QED
    BY <2>1 DEF FirstStep
<1>4. CASE Answer(h)
  BY <1>0, <1>4 DEF Answer, HandlersOK
<1>5. CASE \E step \in Steps : Proceed(h, step) /\ step # "setSeen" /\ handler[h] # Idle
  BY <1>0, <1>5 DEF Proceed, HandlersOK, Request
<1>6. CASE ListMessages(h) /\ ~Answer(h)
  BY <1>0, <1>6 DEF ListMessages, HandlersOK, Request, Idle
<1>7. CASE MarkSeen(h) /\ ~Answer(h)
  BY <1>0, <1>7 DEF MarkSeen, Refuse, Proceed, HandlersOK, Request, Idle
<1>8. CASE /\ GetMessage(h) \/ IsMember(h) \/ GetConversation(h) \/ GetActor(h) \/ ListMembers(h)
           /\ ~Answer(h)
  <2>1. /\ handler[h] # Idle /\ handler[h].pc \in StepsOf(h[2])
        /\ h[2] \in AllSubjects
    BY <1>0, <1>8, BusyHandler, HandlerSubject
       DEF GetMessage, IsMember, GetConversation, GetActor, ListMembers
  <2>2. (AfterMember(h) \in Steps /\ AfterMember(h) # "setSeen") \/ ~IsMember(h)
    BY <2>1 DEF AfterMember, Mutation, Steps, AllSubjects, IsMember, StepsOf
  <2>3. Mutation(h[2]) \in Steps /\ Mutation(h[2]) # "setSeen"
    BY DEF Mutation, Steps
  <2>4. CASE IsMember(h)
    BY <1>5, <1>8, <2>1, <2>2, <2>4 DEF IsMember
  <2>5. CASE ListMembers(h)
    BY <1>5, <1>8, <2>1, <2>3, <2>5 DEF ListMembers
  <2>6. CASE GetMessage(h) \/ GetConversation(h) \/ GetActor(h)
    <3>1. PICK step \in {"isMember", "getActor", "checkConversation", "listMembers"} :
              Proceed(h, step)
      BY <1>8, <2>6 DEF GetMessage, GetConversation, GetActor
    <3>2. step \in Steps /\ step # "setSeen"
      BY DEF Steps
    <3> QED
      BY <1>5, <2>1, <3>1, <3>2
  <2> QED
    BY <1>8, <2>4, <2>5, <2>6
<1>9. CASE RolesChange
  BY <1>0, <1>9 DEF RolesChange, Request, Idle
<1>10. CASE \E r \in Replicas : Crash(r)
  BY <1>2, <1>10 DEF Crash
<1>11. CASE (\E m \in Msgs : SomebodySends(m)) \/ ConversationGoes
  BY <1>2, <1>11 DEF SomebodySends, ConversationGoes
<1>12. CASE Receive(h) \/ Call(h) \/ FailedCall(h) \/ LostAnswer(h)
  BY <1>3, <1>4, <1>6, <1>7, <1>8, <1>12
     DEF Call, FailedCall, LostAnswer, Refuse, StoreMessage, UpdateMessage, DeleteMessage,
         MarkReceived, SetStatus, ListReaders
<1> QED
  BY <1>1, <1>2, <1>9, <1>10, <1>11, <1>12 DEF Next, Step

LEMMA ReadersStep ==
    "seen" \notin AskedStatuses => (ReadersInv /\ [Next]_vars => ReadersInv')
<1> SUFFICES ASSUME "seen" \notin AskedStatuses, ReadersInv, [Next]_vars PROVE ReadersInv'
  OBVIOUS
<1>0. MessagesInv /\ MessagesInv' /\ SeenBySomebody /\ ListedSeenHasReader
  BY StepKept DEF ReadersInv
<1>1. CASE UNCHANGED vars
  BY <1>0, <1>1 DEF ReadersInv, SeenBySomebody, ListedSeenHasReader, SeenByNobody, vars
<1>2. CASE Next
  <2> SUFFICES ASSUME storage' = "postgres" PROVE SeenBySomebody' /\ ListedSeenHasReader'
    BY <1>0 DEF ReadersInv, SeenBySomebody, ListedSeenHasReader
  <2>0. /\ storage = "postgres"
        /\ TablesOK /\ HandlersOK /\ TablesOK' /\ HandlersOK'
    BY <1>0, <1>2, InvParts DEF Next
  <2>1. \A m \in Msgs : seenBy[m] \subseteq seenBy'[m]
    BY <1>0, <1>2, <2>0, ReadersStay
  <2>2. ASSUME NEW h \in Handlers, handler[h].pc = "setSeen"
        PROVE  handler[h].msg \in Msgs /\ seenBy'[handler[h].msg] # {}
    BY <1>0, <2>0, <2>1, <2>2, HandlerMsg DEF SeenBySomebody
  <2>3. ASSUME NEW m \in Msgs, messages'[m].status = "seen"
        PROVE  seenBy'[m] # {}
    BY <1>0, <1>2, <2>0, <2>1, <2>2, <2>3, StatusStep DEF SeenBySomebody
  <2>4. ASSUME NEW h \in Handlers, handler'[h].pc = "setSeen"
        PROVE  seenBy'[handler'[h].msg] # {}
    <3>1. /\ handler'[h].msg = handler[h].msg
          /\ \/ handler[h].pc = "setSeen"
             \/ handler[h].pc = "markSeen" /\ RecordReader(handler[h])
      BY <1>0, <1>2, <2>4, PlaceStep DEF Idle
    <3> QED
      BY <2>0, <2>2, <3>1, ReaderRecorded
  <2>5. ASSUME NEW h \in Handlers, NEW m \in handler'[h].listed
        PROVE  m \in Msgs /\ seenBy'[m] # {}
    <3>1. handler'[h] # Idle /\ m \in Msgs
      BY <2>0, <2>5 DEF HandlersOK, Idle, Request
    <3>2. m \in handler[h].listed \cup Listed
      BY <1>0, <1>2, <2>5, <3>1, PlaceStep
    <3>3. seenBy[m] # {}
      BY <1>0, <2>0, <3>1, <3>2
         DEF Listed, SeenBySomebody, ListedSeenHasReader, SeenByNobody
    <3> QED
      BY <2>1, <3>1, <3>3
  <2> QED
    BY <2>0, <2>3, <2>4, <2>5 DEF SeenBySomebody, ListedSeenHasReader, SeenByNobody, Next
<1> QED
  BY <1>1, <1>2

(* As long as MESSAGE_SET_STATUS is not asked for "seen", which the        *)
(* gateway never does (ws/handler.go asks for "delivered"), a list on      *)
(* postgres shows no message as seen without somebody who has seen it.     *)
THEOREM SeenHasReader == "seen" \notin AskedStatuses => (Spec => []ListedSeenHasReader)
<1> SUFFICES ASSUME "seen" \notin AskedStatuses PROVE Spec => []ListedSeenHasReader
  OBVIOUS
<1>1. Init => ReadersInv
  <2>1. Init => SeenBySomebody /\ ListedSeenHasReader
    BY DEF Init, SeenBySomebody, ListedSeenHasReader, SeenByNobody, Unused, Idle
  <2> QED
    BY <2>1, InitKept DEF ReadersInv
<1>2. ReadersInv /\ [Next]_vars => ReadersInv'
  BY ReadersStep
<1>3. ReadersInv => ListedSeenHasReader
  BY DEF ReadersInv
<1> QED
  BY <1>1, <1>2, <1>3, PTL DEF Spec

=============================================================================
