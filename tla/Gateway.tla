------------------------------ MODULE Gateway ------------------------------
(***************************************************************************)
(* The gateway replicas: sockets and their rooms (ws/hub.go, ws/handler.go)*)
(* and the HTTP handlers that publish what they have had done.             *)
(*                                                                         *)
(* A task is a goroutine that works on a request of a client: the read     *)
(* loop of a socket, which handles the socket's messages one at a time, or *)
(* the handler of an HTTP request.  It asks message-service and waits for  *)
(* the answer until a timeout.  What message-service does with a request   *)
(* is external here and takes one step: Conversations, BatchWriter and     *)
(* Messages have its steps.                                                *)
(*                                                                         *)
(* NATS carries a publication to every gateway, the publisher included. It *)
(* keeps the order of one publisher and promises nothing else, so that     *)
(* there is a wire for each publisher and subscriber.                      *)
(*                                                                         *)
(* Left out are names, role changes and receipts, which show only in       *)
(* message-service, joins of other rooms than those of conversations, for  *)
(* which nobody is asked, and the upload that may come before a message: a *)
(* task waits for it and ends when it fails, as for an answer.             *)
(***************************************************************************)
EXTENDS Naturals, Sequences, FiniteSets

CONSTANTS
    Gateways,       \* running copies of the gateway
    Sockets,        \* WebSocket connections that can be made
    Clients,        \* bound: names for the HTTP requests under way
    Users,          \* user identifiers
    Conversations,  \* conversation identifiers
    Prefixes,       \* how clients name rooms: SUBSET {"conversation", "group"}
    Actions,        \* what clients do
    Contents,       \* texts; the first of a message is None
    MaxMessages,    \* bound: messages that get stored
    MaxAtOnce,      \* bound: tasks and copies of publications under way
    MaxLate,        \* bound: requests given up and not yet handled
    Faults          \* what may go wrong: SUBSET {"refusal", "timeout", "loss", "crash"}

SocketActions == {"join", "message", "delivered", "seen", "typing"}
HttpActions   == {"post", "patch", "create", "add"}
QuietActions  == {"delete", "remove", "drop"}

None == "none"
Gone == "gone"

ASSUME GatewayAssumption ==
    /\ {None, Gone} \cap (Gateways \cup Users \cup Conversations \cup Contents) = {}
    /\ Sockets \cap Clients = {}
    /\ "conversation" \in Prefixes /\ Prefixes \subseteq {"conversation", "group"}
    /\ Actions \subseteq SocketActions \cup HttpActions \cup QuietActions
    /\ MaxMessages \in Nat /\ MaxAtOnce \in Nat /\ MaxLate \in Nat
    /\ Faults \subseteq {"refusal", "timeout", "loss", "crash"}

Tasks     == Sockets \cup Clients
ConvRooms == Prefixes \X Conversations
UserRooms == {"user"} \X Users
Rooms     == ConvRooms \cup UserRooms

VARIABLES
    state,     \* message-service: state[c], whether c was created or deleted
    members,   \* message-service: who belongs to which conversation
    messages,  \* message-service: the messages in the order they were stored;
               \* past (history): the texts that were stored for one
    late,      \* late[t]: a request of t it has yet to handle, given up by t
    socket,    \* socket[s]: the connection and its session
    rooms,     \* rooms[g][r]: Hub.Rooms of g, absent rooms being empty
    task,      \* task[t]: the request t works on
    wire,      \* wire[p][g]: publications of p on their way to g
    got,       \* client of s: the messages it was sent, in order
    shown,     \* client of s: shown[s][m], the text it has for message m
    told,      \* client of s: the conversations it was told of
    owed       \* history: owed[s], frames published to a room that s was in

vars == <<state, members, messages, late, socket, rooms, task, wire, got, shown, told, owed>>

Nowhere == <<None, None>>

Ids == 1 .. MaxMessages

Texts == Contents \cup {None}

Frames == [kind : {"message", "updated"}, msg : Ids, text : Texts]
          \cup [kind : {"delivered", "seen"}, msg : Ids]
          \cup [kind : {"typing"}]
          \cup [kind : {"created"}, conv : Conversations]

Closed == [state |-> "closed", gateway |-> None, user |-> None, room |-> Nowhere]

Idle == [pc |-> "idle", does |-> None, gateway |-> None, user |-> None, room |-> Nowhere,
         conv |-> None, msg |-> 0, text |-> None, held |-> FALSE]

(* For "add" the user is the one who is added.  held: the user has been a  *)
(* member at some moment since the request was made (history).             *)
Request == [pc : {"waiting", "done", "refused"}, does : SocketActions \cup HttpActions,
            gateway : Gateways, user : Users, room : Rooms, conv : Conversations \cup {None},
            msg : Ids \cup {0}, text : Texts, held : BOOLEAN]

TypeOK ==
    /\ state \in [Conversations -> {"unused", "live", "deleted"}]
    /\ members \subseteq Users \X {c \in Conversations : state[c] = "live"}
    /\ messages \in Seq([conv : Conversations, text : Texts \cup {Gone}, past : SUBSET Texts,
                         sender : Tasks])
    /\ Len(messages) <= MaxMessages
    /\ late \in [Tasks -> Request \cup {Idle}]
    /\ socket \in [Sockets -> [state : {"open", "broken", "closed"}, gateway : Gateways,
                               user : Users, room : ConvRooms \cup {Nowhere}] \cup {Closed}]
    /\ rooms \in [Gateways -> [Rooms -> SUBSET Sockets]]
    /\ task \in [Tasks -> Request \cup {Idle}]
    /\ wire \in [Gateways -> [Gateways -> Seq([room : Rooms, frame : Frames])]]
    /\ got \in [Sockets -> Seq(Ids)]
    /\ shown \in [Sockets -> [Ids -> Texts \cup {"unknown"}]]
    /\ told \in [Sockets -> SUBSET Conversations]
    /\ owed \in [Sockets -> SUBSET Frames]

Init ==
    /\ state \in [Conversations -> {"unused", "live"}]
    /\ members \in SUBSET (Users \X {c \in Conversations : state[c] = "live"})
    /\ messages = <<>>
    /\ late = [t \in Tasks |-> Idle]
    /\ socket = [s \in Sockets |-> Closed]
    /\ rooms = [g \in Gateways |-> [r \in Rooms |-> {}]]
    /\ task = [t \in Tasks |-> Idle]
    /\ wire = [p \in Gateways |-> [g \in Gateways |-> <<>>]]
    /\ got = [s \in Sockets |-> <<>>]
    /\ shown = [s \in Sockets |-> [m \in Ids |-> "unknown"]]
    /\ told = [s \in Sockets |-> {}]
    /\ owed = [s \in Sockets |-> {}]

service == <<state, members, messages, late>>
client  == <<got, shown, told>>

-----------------------------------------------------------------------------
(* Rooms and publications                                                  *)

Join(g, r, s) == rooms' = [rooms EXCEPT ![g][r] = @ \cup {s}]

Leave(g, r, s) == rooms' = [rooms EXCEPT ![g][r] = @ \ {s}]

(* Open sockets in room r, in any gateway. *)
Listening(r) == {s \in Sockets : socket[s].state = "open" /\ s \in rooms[socket[s].gateway][r]}

(* Frames a client must not miss; it can do without the others.            *)
Owing == {"message", "created"}

(* Mutant: the hub of the publishing gateway is told, and no other. *)
ReachedMutant(p) == {p}

Reached(p) == Gateways

Publish(p, r, f) ==
    /\ wire' = [wire EXCEPT ![p] = [g \in Gateways |->
                  IF g \in Reached(p) THEN Append(@[g], [room |-> r, frame |-> f]) ELSE @[g]]]
    /\ owed' = [s \in Sockets |-> IF s \in Listening(r) /\ f.kind \in Owing
                                  THEN owed[s] \cup {f} ELSE owed[s]]

Silent == UNCHANGED <<wire, owed>>

(* The subscription of g hands the next publication of p to the sockets of *)
(* its room; the hub is locked meanwhile.  A broken connection takes no    *)
(* frame.                                                                  *)
Deliver(p, g) ==
    /\ wire[p][g] # <<>>
    /\ wire' = [wire EXCEPT ![p][g] = Tail(@)]
    /\ LET f == Head(wire[p][g]).frame
           reached == {s \in rooms[g][Head(wire[p][g]).room] : socket[s].state = "open"}
       IN /\ got' = [s \in Sockets |-> IF s \in reached /\ f.kind = "message"
                                       THEN Append(got[s], f.msg) ELSE got[s]]
          /\ shown' = [s \in Sockets |-> IF s \in reached /\ f.kind \in {"message", "updated"}
                                         THEN [shown[s] EXCEPT ![f.msg] = f.text] ELSE shown[s]]
          /\ told' = [s \in Sockets |-> IF s \in reached /\ f.kind = "created"
                                        THEN told[s] \cup {f.conv} ELSE told[s]]
    /\ UNCHANGED <<service, socket, rooms, task, owed>>

-----------------------------------------------------------------------------
(* Connections                                                             *)

(* The access token names the user; the socket joins the user's room. *)
Open(s) ==
    /\ socket[s] = Closed
    /\ \E g \in Gateways, u \in Users :
         /\ socket' = [socket EXCEPT ![s] = [state |-> "open", gateway |-> g,
                                             user |-> u, room |-> Nowhere]]
         /\ Join(g, <<"user", u>>, s)
    /\ UNCHANGED <<service, task, wire, client, owed>>

Break(s) ==
    /\ socket[s].state = "open"
    /\ socket' = [socket EXCEPT ![s].state = "broken"]
    /\ UNCHANGED <<service, rooms, task, wire, client, owed>>

(* Mutant: the socket stays in its room. *)
LeftMutant(s) == rooms' = rooms

(* The room stored in the session is left. *)
Left(s) == IF socket[s].room = Nowhere THEN rooms' = rooms
           ELSE Leave(socket[s].gateway, socket[s].room, s)

(* The read loop finds the connection broken and ends with OnClose. *)
Close(s) ==
    /\ socket[s].state = "broken"
    /\ task[s] = Idle
    /\ socket' = [socket EXCEPT ![s].state = "closed"]
    /\ Left(s)
    /\ UNCHANGED <<service, task, wire, client, owed>>

-----------------------------------------------------------------------------
(* Requests                                                                *)

UnderWay == Cardinality({t \in Tasks : task[t] # Idle})
            + Cardinality(UNION {{<<p, g, i>> : i \in DOMAIN wire[p][g]} : p, g \in Gateways})

Member(u, c) == <<u, c>> \in members

Ask(t, does, g, u, r, c, m, x) ==
    /\ does \in Actions
    /\ task[t] = Idle
    /\ UnderWay < MaxAtOnce
    /\ task' = [task EXCEPT ![t] =
         [pc |-> "waiting", does |-> does, gateway |-> g, user |-> u, room |-> r,
          conv |-> c, msg |-> m, text |-> x, held |-> Member(u, c)]]

(* A socket asks for a room of a conversation or sends a message to one,   *)
(* or reports a message it was sent.                                       *)
SocketAsks(s) ==
    LET q == socket[s] IN
    /\ q.state = "open"
    /\ \E r \in ConvRooms :
         \/ \E does \in {"join", "message"} : Ask(s, does, q.gateway, q.user, r, r[2], 0, None)
         \/ \E does \in {"delivered", "seen"}, i \in DOMAIN got[s] :
              Ask(s, does, q.gateway, q.user, r, r[2], got[s][i], None)
    /\ UNCHANGED <<service, socket, rooms, wire, client, owed>>

(* Whoever types is told about without asking anybody. *)
Typing(s) ==
    /\ "typing" \in Actions
    /\ socket[s].state = "open" /\ task[s] = Idle
    /\ UnderWay < MaxAtOnce
    /\ \E r \in ConvRooms : Publish(socket[s].gateway, r, [kind |-> "typing"])
    /\ UNCHANGED <<service, socket, rooms, task, client>>

Main(c) == <<"conversation", c>>

(* The room of whoever is told of a conversation that is new to it.        *)
Own(u) == <<"user", u>>

CreateGroup(t, g, u) == Ask(t, "create", g, u, Own(u), None, 0, None)

AddGroupMember(t, g, u) == \E c \in Conversations : Ask(t, "add", g, u, Own(u), c, 0, None)

Send(t, g, u) == \E c \in Conversations : Ask(t, "post", g, u, Main(c), c, 0, None)

Update(t, g, u) ==
    \E m \in DOMAIN messages, x \in Contents :
      Ask(t, "patch", g, u, Main(messages[m].conv), messages[m].conv, m, x)

HttpAsks(t) ==
    /\ \E g \in Gateways, u \in Users :
         CreateGroup(t, g, u) \/ AddGroupMember(t, g, u) \/ Send(t, g, u) \/ Update(t, g, u)
    /\ UNCHANGED <<service, socket, rooms, wire, client, owed>>

-----------------------------------------------------------------------------
(* Message-service                                                         *)

Stores(q) == q.does \in {"message", "post"}

(* Mutant: only rooms named "conversation:" are asked about. *)
GrantedMutant(q) == Member(q.user, q.conv) \/ (q.does = "join" /\ q.room[1] = "group")

(* Joining and sending take a membership.  Authority over the other        *)
(* requests is part of "refusal".                                          *)
Granted(q) ==
    /\ q.does \in {"join", "message", "post"} => Member(q.user, q.conv)
    /\ q.does = "patch" => messages[q.msg].text # Gone
    /\ q.does # "create" => state[q.conv] = "live"

(* q with the identifier it is given if it creates or stores something.    *)
Named(q) ==
    IF q.does = "create" THEN {[q EXCEPT !.conv = c] : c \in {d \in Conversations : state[d] = "unused"}}
    ELSE IF ~Stores(q) THEN {q}
    ELSE IF Len(messages) < MaxMessages THEN {[q EXCEPT !.msg = Len(messages) + 1]} ELSE {}

(* q, which t asked for, is carried out. *)
Stored(t, q) ==
    messages' = IF Stores(q) THEN Append(messages, [conv |-> q.conv, text |-> None,
                                                    past |-> {None}, sender |-> t])
                ELSE IF q.does = "patch" THEN [messages EXCEPT ![q.msg].text = q.text,
                                                               ![q.msg].past = @ \cup {q.text}]
                ELSE messages

Joined(q) ==
    /\ members' = IF q.does \in {"create", "add"} THEN members \cup {<<q.user, q.conv>>} ELSE members
    /\ state' = IF q.does = "create" THEN [state EXCEPT ![q.conv] = "live"] ELSE state

Remember(tasks) ==
    [t \in Tasks |-> [tasks[t] EXCEPT !.held = @ \/ <<tasks[t].user, tasks[t].conv>> \in members']]

Serve(t) ==
    /\ task[t].pc = "waiting"
    /\ \/ \E q \in Named(task[t]) :
            /\ Granted(q)
            /\ Stored(t, q) /\ Joined(q)
            /\ task' = Remember([task EXCEPT ![t] = [q EXCEPT !.pc = "done"]])
       \/ /\ ~Granted(task[t]) \/ "refusal" \in Faults
          /\ task' = [task EXCEPT ![t].pc = "refused"]
          /\ UNCHANGED <<state, members, messages>>
    /\ UNCHANGED <<late, socket, rooms, wire, client, owed>>

(* A request whose answer nobody waits for is carried out all the same. *)
ServeLate(t) ==
    /\ late[t] # Idle
    /\ late' = [late EXCEPT ![t] = Idle]
    /\ \/ \E q \in Named(late[t]) :
            /\ Granted(q)
            /\ Stored(t, q) /\ Joined(q)
            /\ task' = Remember(task)
       \/ UNCHANGED <<state, members, messages, task>>
    /\ UNCHANGED <<socket, rooms, wire, client, owed>>

(* Deletions and removals are told to whoever asked and to nobody else:    *)
(* the gateway that passes one on keeps nothing of it, and it is one step. *)
Delete(m) ==
    /\ "delete" \in Actions
    /\ messages[m].text # Gone
    /\ messages' = [messages EXCEPT ![m].text = Gone]
    /\ UNCHANGED <<state, members, late, socket, rooms, task, wire, client, owed>>

RemoveGroupMember(u, c) ==
    /\ "remove" \in Actions
    /\ Member(u, c)
    /\ members' = members \ {<<u, c>>}
    /\ UNCHANGED <<state, messages, late, socket, rooms, task, wire, client, owed>>

DeleteGroup(c) ==
    /\ "drop" \in Actions
    /\ state[c] = "live"
    /\ state' = [state EXCEPT ![c] = "deleted"]
    /\ members' = members \ (Users \X {c})
    /\ UNCHANGED <<messages, late, socket, rooms, task, wire, client, owed>>

-----------------------------------------------------------------------------
(* Answers                                                                 *)

(* What a task publishes when its request was carried out. *)
Frame(q) ==
    CASE q.does \in {"message", "post"}   -> [kind |-> "message", msg |-> q.msg, text |-> None]
      [] q.does = "patch"                 -> [kind |-> "updated", msg |-> q.msg, text |-> q.text]
      [] q.does \in {"delivered", "seen"} -> [kind |-> q.does, msg |-> q.msg]
      [] q.does \in {"create", "add"}     -> [kind |-> "created", conv |-> q.conv]

(* Reports are published whether or not they were recorded. *)
Told(q) == q.does \in {"delivered", "seen"}

End(t) == task' = [task EXCEPT ![t] = Idle]

(* Mutant: whatever the answer, the message is published. *)
PublishesMutant(q) == q.does # "join"

(* Mutant: an edit is published whatever the answer. *)
PublishesEditMutant(q) == q.does # "join" /\ (q.pc = "done" \/ q.does = "patch" \/ Told(q))

Publishes(q) == q.does # "join" /\ (q.pc = "done" \/ Told(q))

(* The answer arrives and the task ends. *)
Conclude(t) ==
    LET q == task[t] IN
    /\ q.pc \in {"done", "refused"}
    /\ End(t)
    /\ IF Publishes(q) THEN Publish(q.gateway, q.room, Frame(q)) ELSE Silent
    /\ IF q.does = "join" /\ q.pc = "done"
       THEN /\ Join(q.gateway, q.room, t)
            /\ socket' = [socket EXCEPT ![t].room = q.room]
       ELSE UNCHANGED <<rooms, socket>>
    /\ UNCHANGED <<service, client>>

(* Mutant: a send that has timed out is published, and once more when its  *)
(* answer arrives.                                                         *)
GivesUpMutant(t) ==
    IF Stores(task[t]) /\ task[t].pc = "done"
    THEN Publish(task[t].gateway, task[t].room, Frame(task[t])) /\ task' = task
    ELSE Silent /\ End(t)

(* The timeout.  An answer that is on its way is not read any more. *)
GivesUp(t) ==
    /\ End(t)
    /\ IF Told(task[t]) THEN Publish(task[t].gateway, task[t].room, Frame(task[t])) ELSE Silent

(* Bound: few requests are given up and unhandled, and one of each task. *)
Spare(t) == late[t] = Idle /\ Cardinality({u \in Tasks : late[u] # Idle}) < MaxLate

TimeOut(t) ==
    /\ "timeout" \in Faults
    /\ task[t] # Idle
    /\ Spare(t)
    /\ late' = IF task[t].pc = "waiting" THEN [late EXCEPT ![t] = task[t]] ELSE late
    /\ GivesUp(t)
    /\ UNCHANGED <<state, members, messages, socket, rooms, client>>

-----------------------------------------------------------------------------
(* What goes wrong                                                         *)

(* A publication does not reach g: its connection to NATS was interrupted. *)
Lose(p, g) ==
    /\ "loss" \in Faults
    /\ wire[p][g] # <<>>
    /\ wire' = [wire EXCEPT ![p][g] = Tail(@)]
    /\ UNCHANGED <<service, socket, rooms, task, client, owed>>

(* A gateway stops.  Its hub is empty when it is back. *)
Crash(g) ==
    /\ "crash" \in Faults
    /\ socket' = [s \in Sockets |-> IF socket[s].gateway = g /\ socket[s].state # "closed"
                                    THEN [socket[s] EXCEPT !.state = "closed"] ELSE socket[s]]
    /\ rooms' = [rooms EXCEPT ![g] = [r \in Rooms |-> {}]]
    /\ task' = [t \in Tasks |-> IF task[t].gateway = g THEN Idle ELSE task[t]]
    /\ wire' = [p \in Gateways |-> [wire[p] EXCEPT ![g] = <<>>]]
    /\ late' = [t \in Tasks |-> IF task[t].gateway = g /\ task[t].pc = "waiting" /\ Spare(t)
                                THEN task[t] ELSE late[t]]
    /\ UNCHANGED <<state, members, messages, client, owed>>

-----------------------------------------------------------------------------
Next ==
    \/ \E s \in Sockets : Open(s) \/ Break(s) \/ Close(s) \/ SocketAsks(s) \/ Typing(s)
    \/ \E t \in Clients : HttpAsks(t)
    \/ \E u \in Users, c \in Conversations : RemoveGroupMember(u, c)
    \/ \E c \in Conversations : DeleteGroup(c)
    \/ \E m \in DOMAIN messages : Delete(m)
    \/ \E t \in Tasks : Serve(t) \/ ServeLate(t) \/ Conclude(t) \/ TimeOut(t)
    \/ \E p, g \in Gateways : Deliver(p, g) \/ Lose(p, g)
    \/ \E g \in Gateways : Crash(g)

Spec == Init /\ [][Next]_vars

(* NATS delivers, a subscription's callback runs, and a request that is    *)
(* waited for is answered and its answer read.                             *)
Fairness ==
    /\ \A p, g \in Gateways : WF_vars(Deliver(p, g))
    /\ \A t \in Tasks : WF_vars(Serve(t)) /\ WF_vars(Conclude(t))

FairSpec == Spec /\ Fairness

-----------------------------------------------------------------------------
(* Properties                                                              *)

(* Publications on their way to g. *)
Pending(g) == UNION {{wire[p][g][i] : i \in DOMAIN wire[p][g]} : p \in Gateways}

(* A message is published only once it was stored, in a room of its        *)
(* conversation and with the text it was stored with (ws/handler.go:234,   *)
(* "seulement si le message a été sauvegardé avec succès"); an edit only   *)
(* if its text was stored for that message (modules/message/handler.go:408,*)
(* "après PATCH réussi").  That holds whatever is refused, times out or    *)
(* fails, and however late requests are carried out.                       *)
ShownStored ==
    \A g \in Gateways : \A w \in Pending(g) :
      w.frame.kind \in {"message", "updated"}
        => /\ w.frame.msg \in DOMAIN messages
           /\ w.room[2] = messages[w.frame.msg].conv
           /\ w.frame.text \in messages[w.frame.msg].past

(* A client gets the messages that one socket sends in the order in which  *)
(* they were stored, and each of them once.                                *)
SenderOrder ==
    \A s, t \in Sockets : \A i, j \in DOMAIN got[s] :
      /\ i < j
      /\ messages[got[s][i]].sender = t
      /\ messages[got[s][j]].sender = t
      => got[s][i] < got[s][j]

(* A socket enters a conversation's room only if its user has been a       *)
(* member since it asked, whichever way the room is named.                 *)
JoinsByMembers ==
    [][\A s \in Sockets, g \in Gateways, r \in ConvRooms :
         s \in rooms'[g][r] \ rooms[g][r]
           => task[s].does = "join" /\ task[s].room = r /\ task[s].held]_vars

(* Closing leaves the room joined last, even when the connection breaks    *)
(* while a join is waiting for its answer.                                 *)
LastRoomLeft ==
    \A s \in Sockets : socket[s].state = "closed" /\ socket[s].room # Nowhere
                       => s \notin rooms[socket[s].gateway][socket[s].room]

Has(s, f) == IF f.kind = "created" THEN f.conv \in told[s]
             ELSE \E i \in DOMAIN got[s] : got[s][i] = f.msg

(* When nothing is lost, a socket gets every message and every new         *)
(* conversation that was published to a room while it was in it, unless it *)
(* breaks, on whichever gateways sender and receiver are.                  *)
Reaches ==
    \A s \in Sockets, f \in [kind : {"message"}, msg : Ids, text : {None}]
                              \cup [kind : {"created"}, conv : Conversations] :
      f \in owed[s] ~> (Has(s, f) \/ socket[s].state # "open")

(* About message m: tasks that edit it or have yet to publish it, and      *)
(* publications under way.                                                 *)
Editing(m) == {t \in Tasks : task[t].msg = m /\ task[t].does \in {"message", "post", "patch"}}

Travelling(m) ==
    {w.frame : w \in {v \in UNION {Pending(g) : g \in Gateways} :
                        v.frame.kind \in {"message", "updated"} /\ v.frame.msg = m}}

(* An edit begins when what came before it has arrived. *)
Apart == \A m \in Ids : Cardinality(Editing(m)) + Cardinality(Travelling(m)) <= 1

Current ==
    \A s \in Sockets, m \in DOMAIN messages :
      /\ messages[m].text # Gone /\ socket[s].state = "open"
      /\ [kind |-> "message", msg |-> m, text |-> None] \in owed[s]
      /\ Editing(m) = {} /\ Travelling(m) = {}
      => shown[s][m] = messages[m].text

(* Clients in the room show the text that is stored once an edit has       *)
(* arrived, as long as the edits of a message are apart and none fails:    *)
(* the publication says what was stored and nothing says when.  Deletions  *)
(* are not published: nothing is said of a message that is gone.           *)
EditsConverge == []Apart => []Current

=============================================================================
