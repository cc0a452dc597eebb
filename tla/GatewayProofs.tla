--------------------------- MODULE GatewayProofs ---------------------------
(* Theorems about Gateway, for any number of gateways, sockets, users and  *)
(* conversations, and whatever is refused, times out, is lost or stops.    *)
EXTENDS Gateway, SequenceTheorems, TLAPS

-----------------------------------------------------------------------------
(* The inductive invariant                                                 *)

(* What t's request q is about: a room of the conversation, and a message  *)
(* of it for an edit.                                                      *)
About(t, q) ==
    /\ q.does # "typing"
    /\ q.does \in SocketActions => t \in Sockets /\ q.room \in ConvRooms
    /\ q.does \in {"message", "post"} =>
         q.conv \in Conversations /\ q.room \in ConvRooms /\ q.room[2] = q.conv
    /\ q.does = "add" => q.conv \in Conversations
    /\ q.does \in {"delivered", "seen"} => q.msg \in Ids
    /\ q.does = "patch" => q.msg \in DOMAIN messages /\ q.room[2] = messages[q.msg].conv

(* What follows from its having been carried out. *)
Done(t, q) ==
    q.pc = "done" =>
      /\ Stores(q) => /\ q.msg \in DOMAIN messages
                      /\ messages[q.msg].conv = q.conv /\ messages[q.msg].sender = t
                      /\ None \in messages[q.msg].past
      /\ q.does = "patch" => q.text \in messages[q.msg].past
      /\ q.does = "create" => q.conv \in Conversations
      /\ q.does = "join" => q.held

RequestsInv ==
    /\ \A t \in Tasks : task[t] # Idle => About(t, task[t]) /\ Done(t, task[t])
    /\ \A t \in Tasks : late[t] # Idle => About(t, late[t]) /\ late[t].pc = "waiting"

(* A socket's requests are made while it is connected, to its gateway, and *)
(* it is in rooms of that gateway only.                                    *)
SocketsInv ==
    /\ \A s \in Sockets : task[s] # Idle =>
         socket[s].state \in {"open", "broken"} /\ task[s].gateway = socket[s].gateway
    /\ \A s \in Sockets, g \in Gateways, r \in Rooms :
         s \in rooms[g][r] => socket[s].gateway = g
    /\ LastRoomLeft

(* Publication i on its way from p to g announces a message that t sent.   *)
Announces(p, g, i, t) ==
    /\ i \in DOMAIN wire[p][g]
    /\ wire[p][g][i].frame.kind = "message"
    /\ messages[wire[p][g][i].frame.msg].sender = t

(* The i-th message that the client of s got was sent by t. *)
GotFrom(s, i, t) == i \in DOMAIN got[s] /\ messages[got[s][i]].sender = t

PublishedInv ==
    /\ \A p, g \in Gateways : \A i \in DOMAIN wire[p][g] :
         wire[p][g][i].frame.kind \in {"message", "updated"} =>
           /\ wire[p][g][i].frame.msg \in DOMAIN messages
           /\ wire[p][g][i].room[2] = messages[wire[p][g][i].frame.msg].conv
           /\ wire[p][g][i].frame.text \in messages[wire[p][g][i].frame.msg].past
    /\ \A s \in Sockets : \A i \in DOMAIN got[s] :
         got[s][i] \in DOMAIN messages /\ socket[s].gateway \in Gateways

(* A socket's messages leave from its gateway, are in order on every wire, *)
(* after those that arrived and before the one it is about to publish.     *)
OrderInv ==
    /\ \A p, g \in Gateways, t \in Sockets : \A i \in DOMAIN wire[p][g] :
         Announces(p, g, i, t) => socket[t].gateway = p
    /\ \A p, g \in Gateways, t \in Sockets : \A i, j \in DOMAIN wire[p][g] :
         i < j /\ Announces(p, g, i, t) /\ Announces(p, g, j, t)
           => wire[p][g][i].frame.msg < wire[p][g][j].frame.msg
    /\ \A p, g \in Gateways, s, t \in Sockets : \A i \in DOMAIN got[s], j \in DOMAIN wire[p][g] :
         GotFrom(s, i, t) /\ socket[s].gateway = g /\ Announces(p, g, j, t)
           => got[s][i] < wire[p][g][j].frame.msg
    /\ \A t \in Sockets : task[t].pc = "done" /\ Stores(task[t]) =>
         /\ \A p, g \in Gateways : \A i \in DOMAIN wire[p][g] :
              Announces(p, g, i, t) => wire[p][g][i].frame.msg < task[t].msg
         /\ \A s \in Sockets : \A i \in DOMAIN got[s] : GotFrom(s, i, t) => got[s][i] < task[t].msg
    /\ SenderOrder

GatewayInv == TypeOK /\ RequestsInv /\ SocketsInv /\ PublishedInv /\ OrderInv

-----------------------------------------------------------------------------
(* Types                                                                   *)

Connections == [state : {"open", "broken", "closed"}, gateway : Gateways, user : Users,
                room : ConvRooms \cup {Nowhere}]

Publications == [room : Rooms, frame : Frames]

Stock == [conv : Conversations, text : Texts \cup {Gone}, past : SUBSET Texts, sender : Tasks]

LEMMA RequestTyped ==
    ASSUME NEW q \in Request \cup {Idle}, q # Idle
    PROVE  /\ q \in Request /\ q.pc \in {"waiting", "done", "refused"}
           /\ q.does \in SocketActions \cup HttpActions /\ q.gateway \in Gateways
           /\ q.user \in Users /\ q.room \in Rooms /\ q.conv \in Conversations \cup {None}
           /\ q.msg \in Ids \cup {0} /\ q.text \in Texts /\ q.held \in BOOLEAN
BY DEF Request

LEMMA RequestIsNotIdle == ASSUME NEW q \in Request PROVE q # Idle
BY DEF Request, Idle

LEMMA Stocked ==
    ASSUME TypeOK
    PROVE  /\ messages \in Seq(Stock) /\ Len(messages) \in 0 .. MaxMessages
           /\ DOMAIN messages = 1 .. Len(messages) /\ DOMAIN messages \subseteq Ids
           /\ \A m \in DOMAIN messages : messages[m] \in Stock
<1>1. messages \in Seq(Stock) /\ Len(messages) \in Nat /\ Len(messages) <= MaxMessages
  BY DEF TypeOK, Stock
<1>2. MaxMessages \in Nat
  BY GatewayAssumption DEF GatewayAssumption
<1>3. DOMAIN messages = 1 .. Len(messages) /\ \A m \in DOMAIN messages : messages[m] \in Stock
  BY <1>1
<1> QED
  BY <1>1, <1>2, <1>3 DEF Ids

LEMMA FrameTyped ==
    ASSUME NEW f \in Frames
    PROVE  /\ f.kind \in {"message", "updated"} => f.msg \in Ids /\ f.text \in Texts
           /\ f.kind = "created" => f.conv \in Conversations
BY DEF Frames

LEMMA Rests ==
    ASSUME TypeOK
    PROVE  /\ task \in [Tasks -> Request \cup {Idle}] /\ late \in [Tasks -> Request \cup {Idle}]
           /\ socket \in [Sockets -> Connections \cup {Closed}]
           /\ rooms \in [Gateways -> [Rooms -> SUBSET Sockets]]
           /\ wire \in [Gateways -> [Gateways -> Seq(Publications)]]
           /\ got \in [Sockets -> Seq(Ids)]
           /\ \A s \in Sockets : socket[s].state # "closed" => socket[s] \in Connections
           /\ \A s \in Sockets : socket[s].gateway \in Gateways => socket[s] \in Connections
<1>1. /\ task \in [Tasks -> Request \cup {Idle}] /\ late \in [Tasks -> Request \cup {Idle}]
      /\ rooms \in [Gateways -> [Rooms -> SUBSET Sockets]]
      /\ got \in [Sockets -> Seq(Ids)]
  BY DEF TypeOK
<1>2. socket \in [Sockets -> Connections \cup {Closed}]
  BY DEF TypeOK, Connections
<1>3. wire \in [Gateways -> [Gateways -> Seq(Publications)]]
  BY DEF TypeOK, Publications
<1>4. Closed.state = "closed" /\ Closed.gateway \notin Gateways
  BY GatewayAssumption DEF Closed, GatewayAssumption
<1>5. ASSUME NEW s \in Sockets
      PROVE  /\ socket[s].state # "closed" => socket[s] \in Connections
             /\ socket[s].gateway \in Gateways => socket[s] \in Connections
  BY <1>2, <1>4
<1> QED
  BY <1>1, <1>2, <1>3, <1>5

(* What is on a wire, after a step has taken a publication off it or put   *)
(* one on it.                                                              *)
LEMMA Taken ==
    ASSUME NEW w \in Seq(Publications), NEW v \in {w, Tail(w), <<>>}, w # <<>> \/ v = w
    PROVE  /\ v \in Seq(Publications) /\ DOMAIN v = 1 .. Len(v)
           /\ \E d \in {0, 1} : \A i \in DOMAIN v : i + d \in DOMAIN w /\ v[i] = w[i + d]
<1>0. Len(w) \in Nat /\ DOMAIN w = 1 .. Len(w)
  OBVIOUS
<1>1. CASE v = w
  BY <1>0, <1>1
<1>2. CASE v = <<>>
  BY <1>0, <1>2
<1>3. CASE w # <<>> /\ v = Tail(w)
  <2>1. v \in Seq(Publications) /\ Len(v) = Len(w) - 1 /\ \A i \in 1 .. Len(v) : v[i] = w[i + 1]
    BY <1>3, HeadTailProperties
  <2>2. DOMAIN v = 1 .. Len(v)
    BY <2>1
  <2>3. \A i \in DOMAIN v : i + 1 \in DOMAIN w /\ v[i] = w[i + 1]
    BY <1>0, <2>1, <2>2
  <2> QED
    BY <2>1, <2>2, <2>3
<1> QED
  BY <1>1, <1>2, <1>3

LEMMA Put ==
    ASSUME NEW w \in Seq(Publications), NEW x \in Publications
    PROVE  /\ Append(w, x) \in Seq(Publications)
           /\ DOMAIN w = 1 .. Len(w) /\ Len(w) \in Nat
           /\ DOMAIN Append(w, x) = 1 .. Len(w) + 1
           /\ Append(w, x)[Len(w) + 1] = x
           /\ \A i \in DOMAIN w : Append(w, x)[i] = w[i]
OBVIOUS

(* A step that puts nothing on a wire. *)
Drained ==
    \A p, g \in Gateways : /\ wire'[p][g] \in {wire[p][g], Tail(wire[p][g]), <<>>}
                           /\ wire[p][g] # <<>> \/ wire'[p][g] = wire[p][g]

(* What t's publication of f in room r does to the wires. *)
LEMMA Publishes1 ==
    ASSUME TypeOK, NEW p \in Gateways, NEW r \in Rooms, NEW f \in Frames, Publish(p, r, f)
    PROVE  /\ wire' \in [Gateways -> [Gateways -> Seq(Publications)]]
           /\ \A g \in Gateways : wire'[p][g] = Append(wire[p][g], [room |-> r, frame |-> f])
           /\ \A q \in Gateways \ {p} : wire'[q] = wire[q]
           /\ owed' \in [Sockets -> SUBSET Frames]
<1> DEFINE x == [room |-> r, frame |-> f]
<1>1. x \in Publications
  BY DEF Publications
<1>2. wire \in [Gateways -> [Gateways -> Seq(Publications)]]
  BY Rests
<1>3. wire' = [wire EXCEPT ![p] = [g \in Gateways |-> Append(wire[p][g], x)]]
  BY <1>2 DEF Publish, Reached
<1>4. [g \in Gateways |-> Append(wire[p][g], x)] \in [Gateways -> Seq(Publications)]
  BY <1>1, <1>2, Put
<1>5. owed' \in [Sockets -> SUBSET Frames]
  BY DEF Publish, TypeOK
<1> QED
  BY <1>2, <1>3, <1>4, <1>5

-----------------------------------------------------------------------------
(* What every step keeps                                                   *)

(* Messages are stored for good, with their conversation and sender. *)
MessagesAge ==
    \A m \in DOMAIN messages :
      /\ m \in DOMAIN messages'
      /\ messages'[m].conv = messages[m].conv /\ messages'[m].sender = messages[m].sender
      /\ messages[m].past \subseteq messages'[m].past

GatewaysKept ==
    \A s \in Sockets : socket[s].gateway \in Gateways => socket'[s].gateway = socket[s].gateway

LEMMA PublishedDrained ==
    ASSUME TypeOK, PublishedInv, MessagesAge, GatewaysKept, Drained, got' = got
    PROVE  PublishedInv'
<1>1. ASSUME NEW p \in Gateways, NEW g \in Gateways, NEW i \in DOMAIN wire'[p][g],
             wire'[p][g][i].frame.kind \in {"message", "updated"}
      PROVE  /\ wire'[p][g][i].frame.msg \in DOMAIN messages'
             /\ wire'[p][g][i].room[2] = messages'[wire'[p][g][i].frame.msg].conv
             /\ wire'[p][g][i].frame.text \in messages'[wire'[p][g][i].frame.msg].past
  <2>1. wire[p][g] \in Seq(Publications)
    BY Rests
  <2>2. PICK d \in {0, 1} : \A j \in DOMAIN wire'[p][g] :
                 j + d \in DOMAIN wire[p][g] /\ wire'[p][g][j] = wire[p][g][j + d]
    BY <2>1, Taken DEF Drained
  <2> QED
    BY <1>1, <2>2 DEF PublishedInv, MessagesAge
<1>2. ASSUME NEW s \in Sockets, NEW i \in DOMAIN got[s]
      PROVE  got[s][i] \in DOMAIN messages' /\ socket'[s].gateway \in Gateways
  BY DEF PublishedInv, MessagesAge, GatewaysKept
<1> QED
  BY <1>1, <1>2 DEF PublishedInv

LEMMA AnnouncedBefore ==
    ASSUME PublishedInv, MessagesAge, NEW p \in Gateways, NEW g \in Gateways, NEW t,
           NEW i \in DOMAIN wire'[p][g], NEW j \in DOMAIN wire[p][g],
           wire'[p][g][i] = wire[p][g][j], Announces(p, g, i, t)'
    PROVE  Announces(p, g, j, t) /\ wire[p][g][j].frame.msg \in DOMAIN messages
BY DEF PublishedInv, MessagesAge, Announces

LEMMA GotBefore ==
    ASSUME PublishedInv, MessagesAge, got' = got, NEW s \in Sockets, NEW t, NEW i, GotFrom(s, i, t)'
    PROVE  GotFrom(s, i, t) /\ got[s][i] \in DOMAIN messages
BY DEF PublishedInv, MessagesAge, GotFrom

LEMMA OrderDrained ==
    ASSUME TypeOK, PublishedInv, OrderInv, MessagesAge, GatewaysKept, Drained, got' = got,
           \A t \in Sockets : task'[t].pc = "done" /\ Stores(task'[t]) =>
             \/ task[t].pc = "done" /\ Stores(task[t]) /\ task'[t].msg = task[t].msg
             \/ task'[t].msg = Len(messages) + 1
    PROVE  OrderInv'
<1>0. ASSUME NEW p \in Gateways, NEW g \in Gateways
      PROVE  \E d \in {0, 1} : \A i \in DOMAIN wire'[p][g] :
               /\ i \in Nat /\ i + d \in DOMAIN wire[p][g] /\ wire'[p][g][i] = wire[p][g][i + d]
               /\ \A t : Announces(p, g, i, t)' =>
                    /\ Announces(p, g, i + d, t)
                    /\ wire[p][g][i + d].frame.msg \in DOMAIN messages
  <2>1. wire[p][g] \in Seq(Publications)
    BY Rests
  <2>2. DOMAIN wire'[p][g] = 1 .. Len(wire'[p][g])
    BY <2>1, Taken DEF Drained
  <2>3. PICK d \in {0, 1} : \A j \in DOMAIN wire'[p][g] :
                 j + d \in DOMAIN wire[p][g] /\ wire'[p][g][j] = wire[p][g][j + d]
    BY <2>1, Taken DEF Drained
  <2> QED
    BY <2>2, <2>3, AnnouncedBefore
<1>1. ASSUME NEW p \in Gateways, NEW g \in Gateways, NEW t \in Sockets, NEW i \in DOMAIN wire'[p][g],
             Announces(p, g, i, t)'
      PROVE  socket'[t].gateway = p
  BY <1>0, <1>1 DEF OrderInv, GatewaysKept
<1>2. ASSUME NEW p \in Gateways, NEW g \in Gateways, NEW t \in Sockets,
             NEW i \in DOMAIN wire'[p][g], NEW j \in DOMAIN wire'[p][g], i < j,
             Announces(p, g, i, t)', Announces(p, g, j, t)'
      PROVE  wire'[p][g][i].frame.msg < wire'[p][g][j].frame.msg
  <2>1. PICK d \in {0, 1} : \A k \in {i, j} :
               /\ k \in Nat /\ k + d \in DOMAIN wire[p][g] /\ wire'[p][g][k] = wire[p][g][k + d]
               /\ Announces(p, g, k + d, t)
    BY <1>0, <1>2
  <2>2. i + d < j + d
    BY <1>2, <2>1
  <2> QED
    BY <2>1, <2>2 DEF OrderInv
<1>3. ASSUME NEW p \in Gateways, NEW g \in Gateways, NEW s \in Sockets, NEW t \in Sockets,
             NEW i \in DOMAIN got[s], NEW j \in DOMAIN wire'[p][g],
             GotFrom(s, i, t)', socket'[s].gateway = g, Announces(p, g, j, t)'
      PROVE  got[s][i] < wire'[p][g][j].frame.msg
  <2>1. PICK k \in DOMAIN wire[p][g] : wire'[p][g][j] = wire[p][g][k] /\ Announces(p, g, k, t)
    BY <1>0, <1>3
  <2>2. GotFrom(s, i, t)
    BY <1>3, GotBefore
  <2>3. socket[s].gateway = g
    BY <1>3 DEF PublishedInv, GatewaysKept
  <2> QED
    BY <2>1, <2>2, <2>3 DEF OrderInv
<1>4. ASSUME NEW t \in Sockets, task'[t].pc = "done", Stores(task'[t])
      PROVE  /\ \A p, g \in Gateways : \A i \in DOMAIN wire'[p][g] :
                  Announces(p, g, i, t)' => wire'[p][g][i].frame.msg < task'[t].msg
             /\ \A s \in Sockets : \A i \in DOMAIN got[s] :
                  GotFrom(s, i, t)' => got[s][i] < task'[t].msg
  <2>1. \A m \in DOMAIN messages : m < Len(messages) + 1
    BY Stocked
  <2>2. ASSUME NEW p \in Gateways, NEW g \in Gateways, NEW i \in DOMAIN wire'[p][g],
               Announces(p, g, i, t)'
        PROVE  wire'[p][g][i].frame.msg < task'[t].msg
    <3>1. PICK k \in DOMAIN wire[p][g] : /\ wire'[p][g][i] = wire[p][g][k] /\ Announces(p, g, k, t)
                                         /\ wire[p][g][k].frame.msg \in DOMAIN messages
      BY <1>0, <2>2
    <3> QED
      BY <1>4, <2>1, <3>1 DEF OrderInv
  <2>3. ASSUME NEW s \in Sockets, NEW i \in DOMAIN got[s], GotFrom(s, i, t)'
        PROVE  got[s][i] < task'[t].msg
    <3>1. GotFrom(s, i, t) /\ got[s][i] \in DOMAIN messages
      BY <2>3, GotBefore
    <3> QED
      BY <1>4, <2>1, <3>1 DEF OrderInv
  <2> QED
    BY <2>2, <2>3
<1>5. SenderOrder'
  <2> SUFFICES ASSUME NEW s \in Sockets, NEW t \in Sockets,
                      NEW i \in DOMAIN got[s], NEW j \in DOMAIN got[s], i < j,
                      messages'[got[s][i]].sender = t, messages'[got[s][j]].sender = t
               PROVE  got[s][i] < got[s][j]
    BY DEF SenderOrder
  <2> QED
    BY DEF OrderInv, SenderOrder, PublishedInv, MessagesAge
<1> QED
  BY <1>1, <1>2, <1>3, <1>4, <1>5 DEF OrderInv

LEMMA RequestsKept ==
    ASSUME RequestsInv, MessagesAge,
           \A t \in Tasks : task'[t] # Idle =>
             \/ /\ task[t] # Idle
                /\ task'[t].pc \in {task[t].pc, "refused"} /\ task'[t].does = task[t].does
                /\ task'[t].room = task[t].room /\ task'[t].conv = task[t].conv
                /\ task'[t].msg = task[t].msg /\ task'[t].text = task[t].text
                /\ (task[t].held => task'[t].held)
             \/ About(t, task[t])' /\ Done(t, task[t])',
           \A t \in Tasks : late'[t] # Idle =>
             \/ late'[t] = late[t]
             \/ task[t] # Idle /\ late'[t] = task[t] /\ task[t].pc = "waiting"
    PROVE  RequestsInv'
<1>1. ASSUME NEW t, NEW q, NEW u, About(t, q), u.does = q.does, u.room = q.room, u.conv = q.conv,
             u.msg = q.msg
      PROVE  /\ u.does # "typing"
             /\ u.does \in SocketActions => t \in Sockets /\ u.room \in ConvRooms
             /\ u.does \in {"message", "post"} =>
                  u.conv \in Conversations /\ u.room \in ConvRooms /\ u.room[2] = u.conv
             /\ u.does = "add" => u.conv \in Conversations
             /\ u.does \in {"delivered", "seen"} => u.msg \in Ids
             /\ u.does = "patch" => u.msg \in DOMAIN messages' /\ u.room[2] = messages'[u.msg].conv
  BY <1>1 DEF About, MessagesAge
<1>2. ASSUME NEW t \in Tasks, task'[t] # Idle PROVE About(t, task[t])' /\ Done(t, task[t])'
  <2>1. CASE About(t, task[t])' /\ Done(t, task[t])'
    BY <2>1
  <2>2. CASE /\ task[t] # Idle
             /\ task'[t].pc \in {task[t].pc, "refused"} /\ task'[t].does = task[t].does
             /\ task'[t].room = task[t].room /\ task'[t].conv = task[t].conv
             /\ task'[t].msg = task[t].msg /\ task'[t].text = task[t].text
             /\ (task[t].held => task'[t].held)
    <3>1. About(t, task[t]) /\ Done(t, task[t])
      BY <2>2 DEF RequestsInv
    <3>2. About(t, task[t])'
      BY <1>1, <2>2, <3>1 DEF About
    <3>3. Done(t, task[t])'
      <4> SUFFICES ASSUME task'[t].pc = "done" PROVE Done(t, task[t])'
        BY DEF Done
      <4>1. task[t].pc = "done"
        BY <2>2
      <4>2. Stores(task'[t]) =>
              /\ task'[t].msg \in DOMAIN messages' /\ None \in messages'[task'[t].msg].past
              /\ messages'[task'[t].msg].conv = task'[t].conv
              /\ messages'[task'[t].msg].sender = t
        BY <2>2, <3>1, <4>1 DEF Done, MessagesAge, Stores
      <4>3. task'[t].does = "patch" => task'[t].text \in messages'[task'[t].msg].past
        BY <2>2, <3>1, <4>1 DEF About, Done, MessagesAge
      <4>4. /\ task'[t].does = "create" => task'[t].conv \in Conversations
            /\ task'[t].does = "join" => task'[t].held
        BY <2>2, <3>1, <4>1 DEF Done
      <4> QED
        BY <4>2, <4>3, <4>4 DEF Done
    <3> QED
      BY <3>2, <3>3
  <2> QED
    BY <1>2, <2>1, <2>2
<1>3. ASSUME NEW t \in Tasks, late'[t] # Idle PROVE About(t, late[t])' /\ late'[t].pc = "waiting"
  <2>1. PICK q : q = late'[t] /\ About(t, q) /\ q.pc = "waiting"
    BY <1>3 DEF RequestsInv
  <2> QED
    BY <1>1, <2>1 DEF About
<1> QED
  BY <1>2, <1>3 DEF RequestsInv

LEMMA SocketsKept ==
    ASSUME SocketsInv, rooms' = rooms, socket' = socket,
           \A s \in Sockets : task'[s] # Idle => task[s] # Idle /\ task'[s].gateway = task[s].gateway
    PROVE  SocketsInv'
BY DEF SocketsInv, LastRoomLeft

(* A step that publishes f for t, which was done with what it says. *)
LEMMA PublishedKept ==
    ASSUME TypeOK, PublishedInv, OrderInv, NEW t \in Tasks, NEW p \in Gateways, NEW r \in Rooms,
           NEW f \in Frames, Publish(p, r, f), UNCHANGED <<messages, got, socket>>,
           \A u \in Tasks : task'[u] \in {task[u], Idle},
           f.kind \in {"message", "updated"} =>
             /\ f.msg \in DOMAIN messages /\ r[2] = messages[f.msg].conv
             /\ f.text \in messages[f.msg].past,
           f.kind = "message" =>
             /\ messages[f.msg].sender = t /\ task'[t] = Idle
             /\ t \in Sockets => socket[t].gateway = p
             /\ task[t].pc = "done" /\ Stores(task[t]) /\ task[t].msg = f.msg
    PROVE  PublishedInv' /\ OrderInv'
<1> DEFINE x == [room |-> r, frame |-> f]
<1>1. x.room = r /\ x.frame = f /\ x \in Publications
  BY DEF Publications
<1>2. ASSUME NEW q \in Gateways, NEW g \in Gateways, NEW i \in DOMAIN wire'[q][g]
      PROVE  /\ i \in Nat
             /\ \/ i \in DOMAIN wire[q][g] /\ wire'[q][g][i] = wire[q][g][i]
                \/ /\ q = p /\ wire'[q][g][i] = x
                   /\ \A j \in DOMAIN wire'[q][g] : j # i => j < i /\ j \in DOMAIN wire[q][g]
                                                           /\ wire'[q][g][j] = wire[q][g][j]
  <2>1. wire[q][g] \in Seq(Publications)
    BY Rests
  <2>2. CASE q = p
    <3>1. wire'[q][g] = Append(wire[q][g], x)
      BY <2>2, Publishes1
    <3> QED
      BY <1>1, <2>1, <2>2, <3>1, Put
  <2>3. CASE q # p
    <3>1. wire'[q] = wire[q]
      BY <2>3, Publishes1
    <3> QED
      BY <2>1, <3>1
  <2> QED
    BY <2>2, <2>3
<1> HIDE DEF x
<1>3. PublishedInv'
  <2>1. ASSUME NEW q \in Gateways, NEW g \in Gateways, NEW i \in DOMAIN wire'[q][g],
               wire'[q][g][i].frame.kind \in {"message", "updated"}
        PROVE  /\ wire'[q][g][i].frame.msg \in DOMAIN messages
               /\ wire'[q][g][i].room[2] = messages[wire'[q][g][i].frame.msg].conv
               /\ wire'[q][g][i].frame.text \in messages[wire'[q][g][i].frame.msg].past
    BY <1>1, <1>2, <2>1 DEF PublishedInv
  <2> QED
    BY <2>1 DEF PublishedInv
<1>4. ASSUME NEW q \in Gateways, NEW g \in Gateways, NEW i \in DOMAIN wire'[q][g],
             NEW u \in Sockets, Announces(q, g, i, u)'
      PROVE  \/ i \in DOMAIN wire[q][g] /\ wire'[q][g][i] = wire[q][g][i] /\ Announces(q, g, i, u)
             \/ /\ q = p /\ wire'[q][g][i].frame = f /\ u = t /\ f.kind = "message"
                /\ \A j \in DOMAIN wire'[q][g] : j # i => j < i /\ j \in DOMAIN wire[q][g]
                                                        /\ wire'[q][g][j] = wire[q][g][j]
  <2>1. /\ wire'[q][g][i].frame.kind = "message"
        /\ messages[wire'[q][g][i].frame.msg].sender = u
    BY <1>4 DEF Announces
  <2>2. CASE i \in DOMAIN wire[q][g] /\ wire'[q][g][i] = wire[q][g][i]
    BY <2>1, <2>2 DEF Announces
  <2>3. CASE /\ q = p /\ wire'[q][g][i] = x
             /\ \A j \in DOMAIN wire'[q][g] : j # i => j < i /\ j \in DOMAIN wire[q][g]
                                                     /\ wire'[q][g][j] = wire[q][g][j]
    BY <1>1, <2>1, <2>3
  <2> QED
    BY <1>2, <2>2, <2>3
<1>5. ASSUME NEW s \in Sockets, NEW i, NEW u \in Sockets
      PROVE  GotFrom(s, i, u)' = GotFrom(s, i, u)
  BY DEF GotFrom
<1>6. ASSUME NEW q \in Gateways, NEW g \in Gateways, NEW u \in Sockets, NEW i \in DOMAIN wire'[q][g],
             Announces(q, g, i, u)'
      PROVE  socket'[u].gateway = q
  BY <1>4, <1>6 DEF OrderInv
<1>7. ASSUME NEW q \in Gateways, NEW g \in Gateways, NEW u \in Sockets,
             NEW i \in DOMAIN wire'[q][g], NEW j \in DOMAIN wire'[q][g], i < j,
             Announces(q, g, i, u)', Announces(q, g, j, u)'
      PROVE  wire'[q][g][i].frame.msg < wire'[q][g][j].frame.msg
  <2>0. i \in Nat /\ j \in Nat
    BY <1>2
  <2>1. i \in DOMAIN wire[q][g] /\ wire'[q][g][i] = wire[q][g][i] /\ Announces(q, g, i, u)
    <3>1. j # i /\ ~(j < i)
      BY <1>7, <2>0
    <3>2. ~(\A k \in DOMAIN wire'[q][g] : k # i => k < i /\ k \in DOMAIN wire[q][g]
                                                   /\ wire'[q][g][k] = wire[q][g][k])
      BY <1>7, <3>1
    <3> QED
      BY <1>4, <1>7, <3>2
  <2>2. CASE j \in DOMAIN wire[q][g] /\ wire'[q][g][j] = wire[q][g][j] /\ Announces(q, g, j, u)
    BY <1>7, <2>1, <2>2 DEF OrderInv
  <2>3. CASE q = p /\ wire'[q][g][j].frame = f /\ u = t /\ f.kind = "message"
    BY <2>1, <2>3 DEF OrderInv
  <2> QED
    BY <1>4, <1>7, <2>2, <2>3
<1>8. ASSUME NEW q \in Gateways, NEW g \in Gateways, NEW s \in Sockets, NEW u \in Sockets,
             NEW i \in DOMAIN got[s], NEW j \in DOMAIN wire'[q][g],
             GotFrom(s, i, u), socket[s].gateway = g, Announces(q, g, j, u)'
      PROVE  got[s][i] < wire'[q][g][j].frame.msg
  <2>1. CASE j \in DOMAIN wire[q][g] /\ wire'[q][g][j] = wire[q][g][j] /\ Announces(q, g, j, u)
    BY <1>8, <2>1 DEF OrderInv
  <2>2. CASE q = p /\ wire'[q][g][j].frame = f /\ u = t /\ f.kind = "message"
    BY <1>8, <2>2 DEF OrderInv
  <2> QED
    BY <1>4, <1>8, <2>1, <2>2
<1>9. ASSUME NEW u \in Sockets, task'[u].pc = "done", Stores(task'[u])
      PROVE  /\ \A q, g \in Gateways : \A i \in DOMAIN wire'[q][g] :
                  Announces(q, g, i, u)' => wire'[q][g][i].frame.msg < task'[u].msg
             /\ \A s \in Sockets : \A i \in DOMAIN got[s] : GotFrom(s, i, u) => got[s][i] < task'[u].msg
  <2>1. task'[u] = task[u] /\ ~(f.kind = "message" /\ u = t)
    BY <1>9 DEF Idle, Tasks
  <2> QED
    BY <1>4, <1>9, <2>1 DEF OrderInv
<1>10. SenderOrder'
  BY DEF OrderInv, SenderOrder
<1> QED
  BY <1>3, <1>5, <1>6, <1>7, <1>8, <1>9, <1>10 DEF OrderInv

-----------------------------------------------------------------------------
(* Delivery                                                                *)

LEMMA DeliverTyped ==
    ASSUME TypeOK, NEW p \in Gateways, NEW g \in Gateways, Deliver(p, g)
    PROVE  TypeOK'
<1> DEFINE w == wire[p][g]
           f == Head(w).frame
           reached == {s \in rooms[g][Head(w).room] : socket[s].state = "open"}
<1>1. /\ w \in Seq(Publications) /\ w # <<>> /\ wire' = [wire EXCEPT ![p][g] = Tail(w)]
      /\ wire \in [Gateways -> [Gateways -> Seq(Publications)]]
      /\ got' = [s \in Sockets |-> IF s \in reached /\ f.kind = "message"
                                   THEN Append(got[s], f.msg) ELSE got[s]]
      /\ shown' = [s \in Sockets |-> IF s \in reached /\ f.kind \in {"message", "updated"}
                                     THEN [shown[s] EXCEPT ![f.msg] = f.text] ELSE shown[s]]
      /\ told' = [s \in Sockets |-> IF s \in reached /\ f.kind = "created"
                                    THEN told[s] \cup {f.conv} ELSE told[s]]
      /\ UNCHANGED <<state, members, messages, late, socket, rooms, task, owed>>
  BY Rests DEF Deliver, service
<1>2. f \in Frames /\ Tail(w) \in Seq(Publications)
  <2>1. Head(w) \in Publications /\ Tail(w) \in Seq(Publications)
    BY <1>1, HeadTailProperties
  <2> QED
    BY <2>1 DEF Publications
<1> HIDE DEF w, f, reached
<1>3. wire' \in [Gateways -> [Gateways -> Seq([room : Rooms, frame : Frames])]]
  BY <1>1, <1>2 DEF Publications
<1>4. got' \in [Sockets -> Seq(Ids)]
  <2>1. got \in [Sockets -> Seq(Ids)]
    BY DEF TypeOK
  <2>2. \A s \in Sockets : f.kind = "message" => Append(got[s], f.msg) \in Seq(Ids)
    BY <1>2, <2>1, FrameTyped
  <2> QED
    BY <1>1, <2>1, <2>2
<1>5. shown' \in [Sockets -> [Ids -> Texts \cup {"unknown"}]]
  <2>1. shown \in [Sockets -> [Ids -> Texts \cup {"unknown"}]]
    BY DEF TypeOK
  <2>2. f.kind \in {"message", "updated"} => f.msg \in Ids /\ f.text \in Texts \cup {"unknown"}
    BY <1>2, FrameTyped
  <2> QED
    BY <1>1, <2>1, <2>2
<1>6. told' \in [Sockets -> SUBSET Conversations]
  <2>1. told \in [Sockets -> SUBSET Conversations]
    BY DEF TypeOK
  <2>2. f.kind = "created" => f.conv \in Conversations
    BY <1>2, FrameTyped
  <2> QED
    BY <1>1, <2>1, <2>2
<1> QED
  BY <1>1, <1>3, <1>4, <1>5, <1>6 DEF TypeOK

(* What was first on its wire comes after what its sender sent before and  *)
(* before what it sent since.                                              *)
LEMMA DeliverOrdered ==
    ASSUME TypeOK, SocketsInv, PublishedInv, OrderInv,
           NEW p \in Gateways, NEW g \in Gateways, Deliver(p, g)
    PROVE  PublishedInv' /\ OrderInv'
<1> DEFINE w == wire[p][g]
           f == Head(w).frame
           reached == {s \in rooms[g][Head(w).room] : socket[s].state = "open"}
<1>1. /\ w \in Seq(Publications) /\ w # <<>> /\ wire' = [wire EXCEPT ![p][g] = Tail(w)]
      /\ wire \in [Gateways -> [Gateways -> Seq(Publications)]]
      /\ got' = [s \in Sockets |-> IF s \in reached /\ f.kind = "message"
                                   THEN Append(got[s], f.msg) ELSE got[s]]
      /\ UNCHANGED <<messages, socket, task>>
      /\ got \in [Sockets -> Seq(Ids)]
  BY Rests DEF Deliver, service
<1>2. /\ 1 \in DOMAIN w /\ w[1] = Head(w) /\ w[1].frame = f
  BY <1>1
<1>3. \A s \in reached : socket[s].gateway = g
  <2>1. Head(w).room \in Rooms
    <3>1. Head(w) \in Publications
      BY <1>1, HeadTailProperties
    <3> QED
      BY <3>1 DEF Publications
  <2> QED
    BY <2>1, Rests DEF SocketsInv
<1> HIDE DEF f, reached
<1>4. ASSUME NEW q \in Gateways, NEW h \in Gateways
      PROVE  \E d \in {0, 1} :
               /\ q = p /\ h = g => d = 1
               /\ \A i \in DOMAIN wire'[q][h] :
                    i \in Nat \ {0} /\ i + d \in DOMAIN wire[q][h] /\ wire'[q][h][i] = wire[q][h][i + d]
  <2>1. wire[q][h] \in Seq(Publications)
    BY <1>1
  <2>2. CASE q = p /\ h = g
    <3>1. wire'[q][h] = Tail(w)
      BY <1>1, <2>2
    <3>2. /\ Len(Tail(w)) = Len(w) - 1 /\ Tail(w) \in Seq(Publications)
          /\ \A i \in 1 .. Len(Tail(w)) : Tail(w)[i] = w[i + 1]
      BY <1>1, HeadTailProperties
    <3> QED
      BY <1>1, <2>2, <3>1, <3>2
  <2>3. CASE ~(q = p /\ h = g)
    <3>1. wire'[q][h] = wire[q][h]
      BY <1>1, <2>3
    <3> QED
      BY <2>1, <2>3, <3>1
  <2> QED
    BY <2>2, <2>3
<1> HIDE DEF w
<1>5. ASSUME NEW s \in Sockets, NEW i \in DOMAIN got'[s]
      PROVE  /\ i \in Nat
             /\ \/ i \in DOMAIN got[s] /\ got'[s][i] = got[s][i]
                \/ /\ s \in reached /\ f.kind = "message" /\ got'[s][i] = f.msg
                   /\ \A j \in DOMAIN got'[s] : j < i => j \in DOMAIN got[s] /\ got'[s][j] = got[s][j]
                   /\ \A j \in DOMAIN got'[s] : ~(i < j)
  <2>1. got[s] \in Seq(Ids) /\ Len(got[s]) \in Nat /\ DOMAIN got[s] = 1 .. Len(got[s])
    BY <1>1
  <2>2. CASE s \in reached /\ f.kind = "message"
    <3>1. got'[s] = Append(got[s], f.msg)
      BY <1>1, <2>2
    <3>2. /\ DOMAIN got'[s] = 1 .. Len(got[s]) + 1 /\ got'[s][Len(got[s]) + 1] = f.msg
          /\ \A j \in DOMAIN got[s] : got'[s][j] = got[s][j]
      BY <2>1, <3>1
    <3> QED
      BY <2>1, <2>2, <3>2
  <2>3. CASE ~(s \in reached /\ f.kind = "message")
    <3>1. got'[s] = got[s]
      BY <1>1, <2>3
    <3> QED
      BY <2>1, <3>1
  <2> QED
    BY <2>2, <2>3
<1>6. f.kind = "message" => f.msg \in DOMAIN messages
  BY <1>2 DEF PublishedInv, w
<1>7. ASSUME NEW q \in Gateways, NEW h \in Gateways, NEW u \in Sockets, NEW i \in DOMAIN wire'[q][h],
             Announces(q, h, i, u)'
      PROVE  \E k \in DOMAIN wire[q][h] : /\ Announces(q, h, k, u) /\ wire'[q][h][i] = wire[q][h][k]
                                          /\ q = p /\ h = g => 1 < k
  <2>1. PICK d \in {0, 1} :
               /\ q = p /\ h = g => d = 1
               /\ \A j \in DOMAIN wire'[q][h] :
                    j \in Nat \ {0} /\ j + d \in DOMAIN wire[q][h] /\ wire'[q][h][j] = wire[q][h][j + d]
    BY <1>4
  <2>2. Announces(q, h, i + d, u)
    BY <1>1, <1>7, <2>1 DEF Announces
  <2> QED
    BY <2>1, <2>2
<1>8. ASSUME NEW s \in Sockets, NEW i \in DOMAIN got'[s], NEW u \in Sockets, GotFrom(s, i, u)'
      PROVE  \/ i \in DOMAIN got[s] /\ GotFrom(s, i, u) /\ got'[s][i] = got[s][i]
             \/ /\ s \in reached /\ Announces(p, g, 1, u) /\ got'[s][i] = w[1].frame.msg
                /\ \A j \in DOMAIN got'[s] : j < i => j \in DOMAIN got[s] /\ got'[s][j] = got[s][j]
                /\ \A j \in DOMAIN got'[s] : ~(i < j)
  <2>1. messages[got'[s][i]].sender = u
    BY <1>1, <1>8 DEF GotFrom
  <2>2. CASE i \in DOMAIN got[s] /\ got'[s][i] = got[s][i]
    BY <2>1, <2>2 DEF GotFrom
  <2>3. CASE /\ s \in reached /\ f.kind = "message" /\ got'[s][i] = f.msg
             /\ \A j \in DOMAIN got'[s] : j < i => j \in DOMAIN got[s] /\ got'[s][j] = got[s][j]
             /\ \A j \in DOMAIN got'[s] : ~(i < j)
    BY <1>2, <2>1, <2>3 DEF Announces, w
  <2> QED
    BY <1>5, <2>2, <2>3
<1>9. PublishedInv'
  <2>1. ASSUME NEW q \in Gateways, NEW h \in Gateways, NEW i \in DOMAIN wire'[q][h],
               wire'[q][h][i].frame.kind \in {"message", "updated"}
        PROVE  /\ wire'[q][h][i].frame.msg \in DOMAIN messages'
               /\ wire'[q][h][i].room[2] = messages'[wire'[q][h][i].frame.msg].conv
               /\ wire'[q][h][i].frame.text \in messages'[wire'[q][h][i].frame.msg].past
    <3>1. PICK k \in DOMAIN wire[q][h] : wire'[q][h][i] = wire[q][h][k]
      BY <1>4
    <3>2. wire[q][h][k].frame.kind \in {"message", "updated"} /\ messages' = messages
      BY <1>1, <2>1, <3>1
    <3> QED
      BY <3>1, <3>2 DEF PublishedInv
  <2>2. ASSUME NEW s \in Sockets, NEW i \in DOMAIN got'[s]
        PROVE  got'[s][i] \in DOMAIN messages' /\ socket'[s].gateway \in Gateways
    BY <1>1, <1>3, <1>5, <1>6 DEF PublishedInv
  <2> QED
    BY <2>1, <2>2 DEF PublishedInv
<1>10. ASSUME NEW q \in Gateways, NEW h \in Gateways, NEW u \in Sockets, NEW i \in DOMAIN wire'[q][h],
              Announces(q, h, i, u)'
       PROVE  socket'[u].gateway = q
  <2>1. PICK k \in DOMAIN wire[q][h] : Announces(q, h, k, u)
    BY <1>7, <1>10
  <2>2. socket[u].gateway = q
    BY <2>1 DEF OrderInv
  <2> QED
    BY <1>1, <2>2
<1>11. ASSUME NEW q \in Gateways, NEW h \in Gateways, NEW u \in Sockets,
              NEW i \in DOMAIN wire'[q][h], NEW j \in DOMAIN wire'[q][h], i < j,
              Announces(q, h, i, u)', Announces(q, h, j, u)'
       PROVE  wire'[q][h][i].frame.msg < wire'[q][h][j].frame.msg
  <2>1. PICK d \in {0, 1} : \A k \in DOMAIN wire'[q][h] :
               k \in Nat \ {0} /\ k + d \in DOMAIN wire[q][h] /\ wire'[q][h][k] = wire[q][h][k + d]
    BY <1>4
  <2>2. Announces(q, h, i + d, u) /\ Announces(q, h, j + d, u)
    BY <1>1, <1>11, <2>1 DEF Announces
  <2>3. i + d < j + d
    BY <1>11, <2>1
  <2> QED
    BY <2>1, <2>2, <2>3 DEF OrderInv
<1>12. ASSUME NEW q \in Gateways, NEW h \in Gateways, NEW s \in Sockets, NEW u \in Sockets,
              NEW i \in DOMAIN got'[s], NEW j \in DOMAIN wire'[q][h],
              GotFrom(s, i, u)', socket'[s].gateway = h, Announces(q, h, j, u)'
       PROVE  got'[s][i] < wire'[q][h][j].frame.msg
  <2>1. PICK k \in DOMAIN wire[q][h] : /\ Announces(q, h, k, u) /\ wire'[q][h][j] = wire[q][h][k]
                                       /\ q = p /\ h = g => 1 < k
    BY <1>7, <1>12
  <2>2. CASE i \in DOMAIN got[s] /\ GotFrom(s, i, u) /\ got'[s][i] = got[s][i]
    <3>1. socket[s].gateway = h
      BY <1>1, <1>12
    <3>2. got[s][i] < wire[q][h][k].frame.msg
      BY <2>1, <2>2, <3>1 DEF OrderInv
    <3> QED
      BY <2>1, <2>2, <3>2
  <2>3. CASE s \in reached /\ Announces(p, g, 1, u) /\ got'[s][i] = w[1].frame.msg
    <3>1. h = g
      BY <1>1, <1>3, <1>12, <2>3
    <3>2. q = p
      BY <1>2, <2>1, <2>3 DEF OrderInv, w
    <3>3. 1 \in DOMAIN wire[p][g] /\ 1 < k
      BY <1>2, <2>1, <3>1, <3>2 DEF w
    <3> QED
      BY <2>1, <2>3, <3>1, <3>2, <3>3 DEF OrderInv, w
  <2> QED
    BY <1>8, <1>12, <2>2, <2>3
<1>13. ASSUME NEW u \in Sockets, task'[u].pc = "done", Stores(task'[u])
       PROVE  /\ \A q, h \in Gateways : \A i \in DOMAIN wire'[q][h] :
                   Announces(q, h, i, u)' => wire'[q][h][i].frame.msg < task'[u].msg
              /\ \A s \in Sockets : \A i \in DOMAIN got'[s] :
                   GotFrom(s, i, u)' => got'[s][i] < task'[u].msg
  <2>1. task'[u] = task[u]
    BY <1>1
  <2>2. ASSUME NEW q \in Gateways, NEW h \in Gateways, NEW i \in DOMAIN wire'[q][h],
               Announces(q, h, i, u)'
        PROVE  wire'[q][h][i].frame.msg < task[u].msg
    BY <1>7, <1>13, <2>1, <2>2 DEF OrderInv
  <2>3. ASSUME NEW s \in Sockets, NEW i \in DOMAIN got'[s], GotFrom(s, i, u)'
        PROVE  got'[s][i] < task[u].msg
    <3>1. CASE i \in DOMAIN got[s] /\ GotFrom(s, i, u) /\ got'[s][i] = got[s][i]
      BY <1>13, <2>1, <3>1 DEF OrderInv
    <3>2. CASE Announces(p, g, 1, u) /\ got'[s][i] = w[1].frame.msg
      BY <1>2, <1>13, <2>1, <3>2 DEF OrderInv, w
    <3> QED
      BY <1>8, <2>3, <3>1, <3>2
  <2> QED
    BY <2>1, <2>2, <2>3
<1>14. SenderOrder'
  <2> SUFFICES ASSUME NEW s \in Sockets, NEW u \in Sockets,
                      NEW i \in DOMAIN got'[s], NEW j \in DOMAIN got'[s], i < j,
                      messages'[got'[s][i]].sender = u, messages'[got'[s][j]].sender = u
               PROVE  got'[s][i] < got'[s][j]
    BY DEF SenderOrder
  <2>1. GotFrom(s, i, u)' /\ GotFrom(s, j, u)'
    BY DEF GotFrom
  <2>2. i \in DOMAIN got[s] /\ GotFrom(s, i, u) /\ got'[s][i] = got[s][i]
    BY <1>8, <2>1
  <2>3. CASE j \in DOMAIN got[s] /\ GotFrom(s, j, u) /\ got'[s][j] = got[s][j]
    BY <2>2, <2>3 DEF OrderInv, SenderOrder, GotFrom
  <2>4. CASE s \in reached /\ Announces(p, g, 1, u) /\ got'[s][j] = w[1].frame.msg
    BY <1>2, <1>3, <2>2, <2>4 DEF OrderInv, w
  <2> QED
    BY <1>8, <2>1, <2>3, <2>4
<1> QED
  BY <1>9, <1>10, <1>11, <1>12, <1>13, <1>14 DEF OrderInv

LEMMA DeliverKeeps ==
    ASSUME GatewayInv, NEW p \in Gateways, NEW g \in Gateways, Deliver(p, g)
    PROVE  GatewayInv'
<1>1. UNCHANGED <<state, members, messages, late, socket, rooms, task>>
  BY DEF Deliver, service
<1>2. RequestsInv'
  BY <1>1 DEF GatewayInv, RequestsInv, About, Done
<1>3. SocketsInv'
  BY <1>1, SocketsKept DEF GatewayInv
<1> QED
  BY <1>2, <1>3, DeliverTyped, DeliverOrdered DEF GatewayInv

-----------------------------------------------------------------------------
(* Connections                                                             *)

LEMMA QuietKeeps ==
    ASSUME GatewayInv, TypeOK', RequestsInv', SocketsInv', MessagesAge, GatewaysKept, Drained,
           got' = got,
           \A t \in Sockets : task'[t].pc = "done" /\ Stores(task'[t]) =>
             \/ task[t].pc = "done" /\ Stores(task[t]) /\ task'[t].msg = task[t].msg
             \/ task'[t].msg = Len(messages) + 1
    PROVE  GatewayInv'
BY PublishedDrained, OrderDrained DEF GatewayInv

LEMMA ConnectionKeeps ==
    ASSUME GatewayInv, UNCHANGED <<service, task, wire, client, owed>>,
           socket' \in [Sockets -> Connections \cup {Closed}],
           rooms' \in [Gateways -> [Rooms -> SUBSET Sockets]],
           GatewaysKept, SocketsInv'
    PROVE  GatewayInv'
<1>1. TypeOK'
  BY DEF GatewayInv, TypeOK, service, client, Connections
<1>2. RequestsInv'
  BY DEF GatewayInv, RequestsInv, About, Done, service
<1>3. /\ MessagesAge /\ Drained /\ got' = got
  BY DEF MessagesAge, Drained, service, client
<1>4. \A t \in Sockets : task'[t] = task[t]
  OBVIOUS
<1> QED
  BY <1>1, <1>2, <1>3, <1>4, QuietKeeps

(* Only a socket with a request to wait for, which it closes without, can  *)
(* still enter a room.                                                     *)
LEMMA SocketHere ==
    ASSUME GatewayInv, NEW s \in Sockets
    PROVE  /\ socket[s].state = "closed" => task[s] = Idle
           /\ socket[s] = Closed => \A g \in Gateways, r \in Rooms : s \notin rooms[g][r]
<1>1. socket[s].state = "closed" => task[s] = Idle
  BY DEF GatewayInv, SocketsInv
<1>2. Closed.gateway \notin Gateways
  BY GatewayAssumption DEF Closed, GatewayAssumption
<1> QED
  BY <1>1, <1>2 DEF GatewayInv, SocketsInv

LEMMA OpenKeeps == ASSUME GatewayInv, NEW s \in Sockets, Open(s) PROVE GatewayInv'
<1> PICK g \in Gateways, u \in Users :
      /\ socket' = [socket EXCEPT ![s] = [state |-> "open", gateway |-> g,
                                          user |-> u, room |-> Nowhere]]
      /\ Join(g, <<"user", u>>, s)
  BY DEF Open
<1> DEFINE q == [state |-> "open", gateway |-> g, user |-> u, room |-> Nowhere]
           k == <<"user", u>>
<1>1. /\ TypeOK /\ SocketsInv /\ socket[s] = Closed
      /\ UNCHANGED <<service, task, wire, client, owed>>
      /\ socket \in [Sockets -> Connections \cup {Closed}]
      /\ rooms \in [Gateways -> [Rooms -> SUBSET Sockets]]
  BY Rests DEF GatewayInv, Open
<1>2. q \in Connections /\ q.state = "open" /\ q.gateway = g
  BY DEF Connections
<1>3. k \in Rooms
  BY DEF Rooms, UserRooms
<1>4. socket' = [socket EXCEPT ![s] = q] /\ rooms' = [rooms EXCEPT ![g][k] = @ \cup {s}]
  BY DEF Join
<1> HIDE DEF q, k
<1>5. /\ socket' \in [Sockets -> Connections \cup {Closed}]
      /\ rooms' \in [Gateways -> [Rooms -> SUBSET Sockets]]
      /\ socket'[s] = q /\ \A r \in Sockets \ {s} : socket'[r] = socket[r]
      /\ \A h \in Gateways, m \in Rooms : /\ rooms'[h][m] \subseteq rooms[h][m] \cup {s}
                                          /\ h # g => rooms'[h][m] = rooms[h][m]
  <2>1. /\ socket' \in [Sockets -> Connections \cup {Closed}]
        /\ socket'[s] = q /\ \A r \in Sockets \ {s} : socket'[r] = socket[r]
    BY <1>1, <1>2, <1>4
  <2>2. rooms' \in [Gateways -> [Rooms -> SUBSET Sockets]]
    BY <1>1, <1>3, <1>4
  <2>3. ASSUME NEW h \in Gateways, NEW m \in Rooms
        PROVE  /\ rooms'[h][m] \subseteq rooms[h][m] \cup {s}
               /\ h # g => rooms'[h][m] = rooms[h][m]
    <3>1. rooms' = [rooms EXCEPT ![g] = [rooms[g] EXCEPT ![k] = rooms[g][k] \cup {s}]]
      BY <1>4
    <3>2. CASE h = g
      BY <1>1, <1>3, <3>1, <3>2
    <3>3. CASE h # g
      BY <1>1, <3>1, <3>3
    <3> QED
      BY <3>2, <3>3
  <2> QED
    BY <2>1, <2>2, <2>3
<1>6. GatewaysKept
  BY <1>1, <1>5, GatewayAssumption DEF GatewaysKept, Closed, GatewayAssumption
<1>7. SocketsInv'
  <2>1. ASSUME NEW r \in Sockets, task'[r] # Idle
        PROVE  socket'[r].state \in {"open", "broken"} /\ task'[r].gateway = socket'[r].gateway
    <3>1. task[r] # Idle /\ r # s
      BY <1>1, <2>1, SocketHere DEF Closed
    <3> QED
      BY <1>1, <1>5, <3>1 DEF SocketsInv
  <2>2. ASSUME NEW r \in Sockets, NEW h \in Gateways, NEW m \in Rooms, r \in rooms'[h][m]
        PROVE  socket'[r].gateway = h
    <3>1. CASE r = s
      <4>1. s \notin rooms[h][m]
        BY <1>1, SocketHere
      <4>2. h = g
        BY <1>5, <2>2, <3>1, <4>1
      <4> QED
        BY <1>2, <1>5, <3>1, <4>2
    <3>2. CASE r # s
      <4>1. r \in rooms[h][m] /\ socket'[r] = socket[r]
        BY <1>5, <2>2, <3>2
      <4> QED
        BY <1>1, <4>1 DEF SocketsInv
    <3> QED
      BY <3>1, <3>2
  <2>3. ASSUME NEW r \in Sockets, socket'[r].state = "closed", socket'[r].room # Nowhere
        PROVE  r \notin rooms'[socket'[r].gateway][socket'[r].room]
    <3>1. r # s /\ socket'[r] = socket[r]
      BY <1>2, <1>5, <2>3
    <3>2. socket[r].gateway \in Gateways /\ socket[r].room \in Rooms
      BY <1>1, <2>3, <3>1 DEF Connections, Closed, Rooms
    <3>3. r \notin rooms[socket[r].gateway][socket[r].room]
      BY <1>1, <2>3, <3>1 DEF SocketsInv, LastRoomLeft
    <3>4. \A h \in Gateways, m \in Rooms : r \notin rooms[h][m] => r \notin rooms'[h][m]
      BY <1>5, <3>1
    <3> QED
      BY <3>1, <3>2, <3>3, <3>4
  <2> QED
    BY <2>1, <2>2, <2>3 DEF SocketsInv, LastRoomLeft
<1> QED
  BY <1>1, <1>5, <1>6, <1>7, ConnectionKeeps

LEMMA BreakKeeps == ASSUME GatewayInv, NEW s \in Sockets, Break(s) PROVE GatewayInv'
<1>1. /\ SocketsInv /\ socket[s].state = "open" /\ socket[s] \in Connections
      /\ UNCHANGED <<service, rooms, task, wire, client, owed>>
      /\ socket \in [Sockets -> Connections \cup {Closed}]
      /\ rooms \in [Gateways -> [Rooms -> SUBSET Sockets]]
      /\ socket' = [socket EXCEPT ![s].state = "broken"]
  BY Rests DEF GatewayInv, Break
<1>2. /\ socket' \in [Sockets -> Connections \cup {Closed}]
      /\ socket'[s].state = "broken"
      /\ \A r \in Sockets : socket'[r].gateway = socket[r].gateway
      /\ \A r \in Sockets \ {s} : socket'[r] = socket[r]
  BY <1>1 DEF Connections
<1>3. GatewaysKept
  BY <1>2 DEF GatewaysKept
<1>4. SocketsInv'
  BY <1>1, <1>2 DEF SocketsInv, LastRoomLeft
<1> QED
  BY <1>1, <1>2, <1>3, <1>4, ConnectionKeeps

LEMMA CloseKeeps == ASSUME GatewayInv, NEW s \in Sockets, Close(s) PROVE GatewayInv'
<1> DEFINE g == socket[s].gateway
           k == socket[s].room
<1>1. /\ SocketsInv /\ socket[s].state = "broken" /\ socket[s] \in Connections
      /\ UNCHANGED <<service, task, wire, client, owed>> /\ task[s] = Idle
      /\ socket \in [Sockets -> Connections \cup {Closed}]
      /\ rooms \in [Gateways -> [Rooms -> SUBSET Sockets]]
      /\ socket' = [socket EXCEPT ![s].state = "closed"]
  BY Rests DEF GatewayInv, Close
<1>2. /\ socket' \in [Sockets -> Connections \cup {Closed}]
      /\ socket'[s].gateway = g /\ socket'[s].room = k
      /\ \A r \in Sockets \ {s} : socket'[r] = socket[r]
  BY <1>1 DEF Connections
<1>3. g \in Gateways /\ k \in ConvRooms \cup {Nowhere}
  BY <1>1 DEF Connections
<1> HIDE DEF g, k
<1>4. /\ rooms' \in [Gateways -> [Rooms -> SUBSET Sockets]]
      /\ \A h \in Gateways, r \in Rooms : rooms'[h][r] \subseteq rooms[h][r]
      /\ k # Nowhere => s \notin rooms'[g][k]
  <2>1. CASE k = Nowhere
    <3>1. rooms' = rooms
      BY <2>1 DEF Close, Left, k
    <3> QED
      BY <1>1, <2>1, <3>1
  <2>2. CASE k # Nowhere
    <3>1. rooms' = [rooms EXCEPT ![g][k] = @ \ {s}] /\ k \in Rooms
      BY <1>3, <2>2 DEF Close, Left, Leave, k, g, Rooms
    <3> QED
      BY <1>1, <1>3, <3>1
  <2> QED
    BY <2>1, <2>2
<1>5. GatewaysKept
  BY <1>2 DEF GatewaysKept, g
<1>6. SocketsInv'
  <2>1. ASSUME NEW r \in Sockets, task'[r] # Idle
        PROVE  socket'[r].state \in {"open", "broken"} /\ task'[r].gateway = socket'[r].gateway
    <3>1. r # s /\ task[r] # Idle
      BY <1>1, <2>1
    <3> QED
      BY <1>1, <1>2, <3>1 DEF SocketsInv
  <2>2. ASSUME NEW r \in Sockets, NEW h \in Gateways, NEW m \in Rooms, r \in rooms'[h][m]
        PROVE  socket'[r].gateway = h
    <3>1. socket[r].gateway = h
      BY <1>1, <1>4, <2>2 DEF SocketsInv
    <3> QED
      BY <1>2, <3>1 DEF g
  <2>3. ASSUME NEW r \in Sockets, socket'[r].state = "closed", socket'[r].room # Nowhere
        PROVE  r \notin rooms'[socket'[r].gateway][socket'[r].room]
    <3>1. CASE r = s
      BY <1>2, <1>4, <2>3, <3>1
    <3>2. CASE r # s
      <4>1. socket'[r] = socket[r]
        BY <1>2, <3>2
      <4>2. socket[r].gateway \in Gateways /\ socket[r].room \in Rooms
        BY <1>1, <2>3, <4>1 DEF Connections, Closed, Rooms
      <4> QED
        BY <1>1, <1>4, <2>3, <4>1, <4>2 DEF SocketsInv, LastRoomLeft
    <3> QED
      BY <3>1, <3>2
  <2> QED
    BY <2>1, <2>2, <2>3 DEF SocketsInv, LastRoomLeft
<1> QED
  BY <1>1, <1>2, <1>4, <1>5, <1>6, ConnectionKeeps

-----------------------------------------------------------------------------
(* Requests                                                                *)

LEMMA AskKeeps ==
    ASSUME GatewayInv, NEW t \in Tasks, NEW does \in (SocketActions \cup HttpActions) \ {"typing"},
           NEW g \in Gateways, NEW u \in Users, NEW r \in Rooms, NEW c \in Conversations \cup {None},
           NEW m \in Ids \cup {0}, NEW x \in Texts, Ask(t, does, g, u, r, c, m, x),
           UNCHANGED <<service, socket, rooms, wire, client, owed>>,
           does \in SocketActions => t \in Sockets /\ r \in ConvRooms,
           does \in {"message", "post"} => c \in Conversations /\ r \in ConvRooms /\ r[2] = c,
           does = "add" => c \in Conversations,
           does \in {"delivered", "seen"} => m \in Ids,
           does = "patch" => m \in DOMAIN messages /\ r[2] = messages[m].conv,
           t \in Sockets => socket[t].state = "open" /\ socket[t].gateway = g
    PROVE  GatewayInv'
<1> DEFINE q == [pc |-> "waiting", does |-> does, gateway |-> g, user |-> u, room |-> r,
                 conv |-> c, msg |-> m, text |-> x, held |-> Member(u, c)]
<1>1. /\ TypeOK /\ RequestsInv /\ SocketsInv
      /\ task \in [Tasks -> Request \cup {Idle}] /\ task[t] = Idle
  BY Rests DEF GatewayInv, Ask
<1>2. q \in Request
  <2>1. Member(u, c) \in BOOLEAN
    BY DEF Member
  <2> QED
    BY <2>1 DEF Request
<1>3. task' = [task EXCEPT ![t] = q]
  BY DEF Ask
<1>4. q.pc = "waiting" /\ q.does = does /\ q.gateway = g /\ q.room = r /\ q.conv = c /\ q.msg = m
  OBVIOUS
<1> HIDE DEF q
<1>5. /\ task' \in [Tasks -> Request \cup {Idle}] /\ task'[t] = q
      /\ \A k \in Tasks \ {t} : task'[k] = task[k]
  BY <1>1, <1>2, <1>3
<1>6. TypeOK'
  BY <1>1, <1>5 DEF TypeOK, service, client
<1>7. MessagesAge /\ GatewaysKept /\ Drained /\ got' = got /\ messages' = messages
  BY DEF MessagesAge, GatewaysKept, Drained, service, client
<1>8. RequestsInv'
  <2>1. About(t, task[t])' /\ Done(t, task[t])'
    BY <1>4, <1>5, <1>7 DEF About, Done
  <2>2. late' = late
    BY DEF service
  <2>3. \A k \in Tasks \ {t} : task'[k] # Idle =>
          /\ task[k] # Idle
          /\ task'[k].pc \in {task[k].pc, "refused"} /\ task'[k].does = task[k].does
          /\ task'[k].room = task[k].room /\ task'[k].conv = task[k].conv
          /\ task'[k].msg = task[k].msg /\ task'[k].text = task[k].text
          /\ (task[k].held => task'[k].held)
    BY <1>5
  <2> QED
    BY <1>1, <1>7, <2>1, <2>2, <2>3, RequestsKept
<1>9. SocketsInv'
  <2>1. ASSUME NEW s \in Sockets, task'[s] # Idle
        PROVE  socket[s].state \in {"open", "broken"} /\ task'[s].gateway = socket[s].gateway
    <3>1. s \in Tasks
      BY DEF Tasks
    <3> QED
      BY <1>1, <1>4, <1>5, <2>1, <3>1 DEF SocketsInv
  <2> QED
    BY <1>1, <2>1 DEF SocketsInv, LastRoomLeft
<1>10. \A s \in Sockets : task'[s].pc = "done" /\ Stores(task'[s]) =>
         task[s].pc = "done" /\ Stores(task[s]) /\ task'[s].msg = task[s].msg
  BY <1>4, <1>5 DEF Tasks
<1> QED
  BY <1>6, <1>7, <1>8, <1>9, <1>10, QuietKeeps

LEMMA SocketAsksKeeps == ASSUME GatewayInv, NEW s \in Sockets, SocketAsks(s) PROVE GatewayInv'
<1> PICK r \in ConvRooms :
      \/ \E does \in {"join", "message"} :
           Ask(s, does, socket[s].gateway, socket[s].user, r, r[2], 0, None)
      \/ \E does \in {"delivered", "seen"}, i \in DOMAIN got[s] :
           Ask(s, does, socket[s].gateway, socket[s].user, r, r[2], got[s][i], None)
  BY DEF SocketAsks
<1>1. /\ socket[s].state = "open" /\ UNCHANGED <<service, socket, rooms, wire, client, owed>>
      /\ s \in Tasks
  BY DEF SocketAsks, Tasks
<1>2. /\ socket[s].gateway \in Gateways /\ socket[s].user \in Users
      /\ got \in [Sockets -> Seq(Ids)]
  BY <1>1, Rests DEF GatewayInv, Connections
<1>3. r \in Rooms /\ r[2] \in Conversations /\ None \in Texts /\ 0 \in Ids \cup {0}
  BY DEF Rooms, ConvRooms, Texts
<1>4. CASE \E does \in {"join", "message"} :
             Ask(s, does, socket[s].gateway, socket[s].user, r, r[2], 0, None)
  BY <1>1, <1>2, <1>3, <1>4, AskKeeps DEF SocketActions, HttpActions
<1>5. CASE \E does \in {"delivered", "seen"}, i \in DOMAIN got[s] :
             Ask(s, does, socket[s].gateway, socket[s].user, r, r[2], got[s][i], None)
  <2>1. \A i \in DOMAIN got[s] : got[s][i] \in Ids
    BY <1>2
  <2> QED
    BY <1>1, <1>2, <1>3, <1>5, <2>1, AskKeeps DEF SocketActions, HttpActions
<1> QED
  BY <1>4, <1>5

LEMMA HttpAsksKeeps == ASSUME GatewayInv, NEW t \in Clients, HttpAsks(t) PROVE GatewayInv'
<1> PICK g \in Gateways, u \in Users :
      CreateGroup(t, g, u) \/ AddGroupMember(t, g, u) \/ Send(t, g, u) \/ Update(t, g, u)
  BY DEF HttpAsks
<1>1. /\ UNCHANGED <<service, socket, rooms, wire, client, owed>>
      /\ t \in Tasks /\ t \notin Sockets
  BY GatewayAssumption DEF HttpAsks, Tasks, GatewayAssumption
<1>2. /\ Own(u) \in Rooms /\ None \in Texts /\ None \in Conversations \cup {None}
      /\ 0 \in Ids \cup {0}
  BY DEF Own, Rooms, UserRooms, Texts
<1>3. \A c \in Conversations : Main(c) \in Rooms /\ Main(c) \in ConvRooms /\ Main(c)[2] = c
  BY GatewayAssumption DEF Main, Rooms, ConvRooms, GatewayAssumption
<1>4. CASE CreateGroup(t, g, u)
  BY <1>1, <1>2, <1>4, AskKeeps DEF CreateGroup, SocketActions, HttpActions
<1>5. CASE AddGroupMember(t, g, u)
  <2>1. PICK c \in Conversations : Ask(t, "add", g, u, Own(u), c, 0, None)
    BY <1>5 DEF AddGroupMember
  <2> QED
    BY <1>1, <1>2, <2>1, AskKeeps DEF SocketActions, HttpActions
<1>6. CASE Send(t, g, u)
  <2>1. PICK c \in Conversations : Ask(t, "post", g, u, Main(c), c, 0, None)
    BY <1>6 DEF Send
  <2> QED
    BY <1>1, <1>2, <1>3, <2>1, AskKeeps DEF SocketActions, HttpActions
<1>7. CASE Update(t, g, u)
  <2>1. PICK m \in DOMAIN messages, x \in Contents :
          Ask(t, "patch", g, u, Main(messages[m].conv), messages[m].conv, m, x)
    BY <1>7 DEF Update
  <2>2. m \in Ids /\ messages[m].conv \in Conversations /\ x \in Texts
    BY Stocked DEF GatewayInv, Stock, Texts
  <2> QED
    BY <1>1, <1>3, <2>1, <2>2, AskKeeps DEF SocketActions, HttpActions
<1> QED
  BY <1>4, <1>5, <1>6, <1>7

LEMMA TypingKeeps == ASSUME GatewayInv, NEW s \in Sockets, Typing(s) PROVE GatewayInv'
<1> PICK r \in ConvRooms : Publish(socket[s].gateway, r, [kind |-> "typing"])
  BY DEF Typing
<1> DEFINE f == [kind |-> "typing"]
           g == socket[s].gateway
<1>1. /\ UNCHANGED <<service, socket, rooms, task, client>> /\ socket[s].state = "open"
      /\ s \in Tasks
  BY DEF Typing, Tasks
<1>2. g \in Gateways /\ r \in Rooms /\ f \in Frames /\ f.kind = "typing" /\ Publish(g, r, f)
  BY <1>1, Rests DEF GatewayInv, Connections, Rooms, Frames
<1> HIDE DEF f, g
<1>3. PublishedInv' /\ OrderInv'
  BY <1>1, <1>2, PublishedKept DEF GatewayInv, service, client
<1>4. /\ wire' \in [Gateways -> [Gateways -> Seq(Publications)]] /\ owed' \in [Sockets -> SUBSET Frames]
  BY <1>2, Publishes1 DEF GatewayInv
<1>5. TypeOK'
  BY <1>1, <1>4 DEF GatewayInv, TypeOK, service, client, Publications
<1>6. RequestsInv'
  BY <1>1 DEF GatewayInv, RequestsInv, About, Done, service
<1>7. SocketsInv'
  BY <1>1, SocketsKept DEF GatewayInv
<1> QED
  BY <1>3, <1>5, <1>6, <1>7 DEF GatewayInv

-----------------------------------------------------------------------------
(* Message-service                                                         *)

(* History changes nothing else about a request, and nothing of no request.*)
LEMMA RememberHas ==
    ASSUME NEW T \in [Tasks -> Request \cup {Idle}], <<None, None>> \notin members',
           task' = Remember(T)
    PROVE  /\ task' \in [Tasks -> Request \cup {Idle}]
           /\ \A t \in Tasks :
                /\ T[t] = Idle => task'[t] = Idle
                /\ task'[t].pc = T[t].pc /\ task'[t].does = T[t].does
                /\ task'[t].gateway = T[t].gateway /\ task'[t].room = T[t].room
                /\ task'[t].conv = T[t].conv /\ task'[t].msg = T[t].msg
                /\ task'[t].text = T[t].text
                /\ T[t].held => task'[t].held
                /\ T[t] # Idle /\ <<T[t].user, T[t].conv>> \in members' => task'[t].held
<1> SUFFICES ASSUME NEW t \in Tasks
             PROVE  /\ task'[t] \in Request \cup {Idle}
                    /\ T[t] = Idle => task'[t] = Idle
                    /\ task'[t].pc = T[t].pc /\ task'[t].does = T[t].does
                    /\ task'[t].gateway = T[t].gateway /\ task'[t].room = T[t].room
                    /\ task'[t].conv = T[t].conv /\ task'[t].msg = T[t].msg
                    /\ task'[t].text = T[t].text
                    /\ T[t].held => task'[t].held
                    /\ T[t] # Idle /\ <<T[t].user, T[t].conv>> \in members' => task'[t].held
  BY DEF Remember
<1> DEFINE x == T[t]
           now == <<x.user, x.conv>> \in members'
<1>1. task'[t] = [x EXCEPT !.held = x.held \/ now]
  BY DEF Remember
<1>2. CASE x = Idle
  <2>1. ~now /\ x.held = FALSE
    BY <1>2 DEF Idle
  <2>2. (x.held \/ now) = FALSE
    BY <2>1
  <2>3. task'[t] = [Idle EXCEPT !.held = FALSE]
    BY <1>1, <1>2, <2>2
  <2>4. task'[t] = Idle
    BY <2>3 DEF Idle
  <2> QED
    BY <1>2, <2>1, <2>4
<1>3. CASE x \in Request
  <2>1. PICK b \in BOOLEAN : b = (x.held \/ now)
    OBVIOUS
  <2>2. task'[t] = [x EXCEPT !.held = b]
    BY <1>1, <2>1
  <2>3. /\ task'[t] \in Request /\ task'[t].held = b
        /\ task'[t].pc = x.pc /\ task'[t].does = x.does /\ task'[t].gateway = x.gateway
        /\ task'[t].room = x.room /\ task'[t].conv = x.conv /\ task'[t].msg = x.msg
        /\ task'[t].text = x.text
    BY <1>3, <2>2 DEF Request
  <2>4. (x.held => b) /\ (now => b)
    BY <2>1
  <2> HIDE DEF x
  <2>5. task'[t].held = b
    BY <2>3
  <2>6. (x.held => task'[t].held) /\ (now => task'[t].held)
    BY <2>4, <2>5, Zenon
  <2> QED
    BY <1>3, <2>3, <2>6, RequestIsNotIdle DEF x
<1> QED
  BY <1>2, <1>3

(* q is the request a, carried out with the identifier it was given. *)
LEMMA CarriedOut ==
    ASSUME TypeOK, NEW t \in Tasks, NEW a \in Request, About(t, a), NEW q \in Named(a),
           Granted(q), Stored(t, q), Joined(q)
    PROVE  /\ q \in Request /\ q.pc = a.pc /\ q.does = a.does /\ q.gateway = a.gateway
           /\ q.user = a.user /\ q.room = a.room /\ q.text = a.text
           /\ (q.held => a.held) /\ (a.held => q.held)
           /\ q.does # "create" => q.conv = a.conv
           /\ ~Stores(q) => q.msg = a.msg
           /\ q.does = "create" => q.conv \in Conversations
           /\ state' \in [Conversations -> {"unused", "live", "deleted"}]
           /\ members' \subseteq Users \X {c \in Conversations : state'[c] = "live"}
           /\ messages' \in Seq(Stock) /\ Len(messages') <= MaxMessages
           /\ MessagesAge
           /\ Stores(q) => /\ q.msg = Len(messages) + 1 /\ q.msg \in DOMAIN messages'
                           /\ messages'[q.msg].conv = q.conv /\ messages'[q.msg].sender = t
                           /\ None \in messages'[q.msg].past
           /\ q.does = "patch" => q.text \in messages'[q.msg].past
           /\ q.does = "join" => <<q.user, q.conv>> \in members'
<1>0. /\ messages \in Seq(Stock) /\ Len(messages) \in Nat /\ Len(messages) <= MaxMessages
      /\ DOMAIN messages = 1 .. Len(messages) /\ MaxMessages \in Nat
      /\ state \in [Conversations -> {"unused", "live", "deleted"}]
      /\ members \subseteq Users \X {c \in Conversations : state[c] = "live"}
      /\ \A m \in DOMAIN messages : messages[m] \in Stock
  <2>1. MaxMessages \in Nat
    BY GatewayAssumption DEF GatewayAssumption
  <2>2. /\ state \in [Conversations -> {"unused", "live", "deleted"}]
        /\ members \subseteq Users \X {c \in Conversations : state[c] = "live"}
    BY DEF TypeOK
  <2>3. Len(messages) \in Nat /\ Len(messages) <= MaxMessages
    BY <2>1, Stocked
  <2> QED
    BY <2>1, <2>2, <2>3, Stocked
<1>1. CASE a.does = "create"
  <2>1. PICK c \in Conversations : state[c] = "unused" /\ q = [a EXCEPT !.conv = c]
    BY <1>1 DEF Named
  <2>2. /\ q \in Request /\ q.conv = c /\ q.pc = a.pc /\ q.does = a.does /\ q.gateway = a.gateway
        /\ q.user = a.user /\ q.room = a.room /\ q.msg = a.msg /\ q.held = a.held
        /\ q.text = a.text
        /\ q.user \in Users
    BY <2>1 DEF Request
  <2>3. ~Stores(q) /\ messages' = messages
    BY <1>1, <2>2 DEF Stores, Stored
  <2>4. state' = [state EXCEPT ![c] = "live"] /\ members' = members \cup {<<q.user, c>>}
    BY <1>1, <2>2 DEF Joined
  <2>5. /\ state' \in [Conversations -> {"unused", "live", "deleted"}]
        /\ members' \subseteq Users \X {d \in Conversations : state'[d] = "live"}
    BY <1>0, <2>2, <2>4
  <2> QED
    BY <1>0, <1>1, <2>2, <2>3, <2>5 DEF MessagesAge
<1>2. CASE Stores(a)
  <2>1. q = [a EXCEPT !.msg = Len(messages) + 1] /\ Len(messages) < MaxMessages
    BY <1>2 DEF Named, Stores
  <2>2. Len(messages) + 1 \in Ids
    BY <1>0, <2>1 DEF Ids
  <2>3. /\ q \in Request /\ q.conv = a.conv /\ q.pc = a.pc /\ q.does = a.does /\ q.gateway = a.gateway
        /\ q.user = a.user /\ q.room = a.room /\ q.msg = Len(messages) + 1 /\ q.held = a.held
        /\ q.text = a.text
    BY <2>1, <2>2 DEF Request
  <2>4. Stores(q) /\ q.does \in {"message", "post"} /\ q.conv \in Conversations
    BY <1>2, <2>3 DEF Stores, About
  <2> DEFINE e == [conv |-> q.conv, text |-> None, past |-> {None}, sender |-> t]
  <2>5. e \in Stock /\ e.conv = q.conv /\ e.sender = t /\ None \in e.past
    BY <2>4 DEF Stock, Texts
  <2>6. messages' = Append(messages, e)
    BY <2>4 DEF Stored
  <2>7. state' = state /\ members' = members
    BY <2>4 DEF Joined
  <2> HIDE DEF e
  <2>8. /\ messages' \in Seq(Stock) /\ Len(messages') = Len(messages) + 1
        /\ DOMAIN messages' = 1 .. Len(messages) + 1 /\ messages'[Len(messages) + 1] = e
        /\ \A m \in DOMAIN messages : messages'[m] = messages[m]
    BY <1>0, <2>5, <2>6
  <2>9. MessagesAge
    BY <1>0, <2>8 DEF MessagesAge
  <2> QED
    BY <1>0, <2>1, <2>3, <2>4, <2>5, <2>7, <2>8, <2>9
<1>3. CASE a.does # "create" /\ ~Stores(a)
  <2>1. q = a
    BY <1>3 DEF Named
  <2>2. /\ messages' \in Seq(Stock) /\ Len(messages') = Len(messages) /\ MessagesAge
        /\ q.does = "patch" => q.text \in messages'[q.msg].past
    <3>1. CASE q.does = "patch"
      <4>1. q.msg \in 1 .. Len(messages) /\ q.text \in Texts
        BY <1>0, <2>1, <3>1 DEF About, Request
      <4> DEFINE o == messages[q.msg].past \cup {q.text}
                 e == [messages[q.msg] EXCEPT !.text = q.text, !.past = o]
      <4>2. messages[q.msg] \in Stock
        BY <1>0, <4>1
      <4>3. /\ e \in Stock /\ e.conv = messages[q.msg].conv /\ e.sender = messages[q.msg].sender
            /\ messages[q.msg].past \subseteq e.past /\ q.text \in e.past
        <5>1. o \in SUBSET Texts /\ messages[q.msg].past \subseteq o /\ q.text \in o
          BY <4>1, <4>2 DEF Stock
        <5> HIDE DEF o
        <5> QED
          BY <4>1, <4>2, <5>1 DEF Stock
      <4>4. messages' = [messages EXCEPT ![q.msg] = e]
        BY <1>3, <2>1, <3>1 DEF Stored
      <4> HIDE DEF e
      <4>5. /\ messages' \in Seq(Stock) /\ Len(messages') = Len(messages)
            /\ \A j \in 1 .. Len(messages) : messages'[j] = IF j = q.msg THEN e ELSE messages[j]
        BY <1>0, <4>1, <4>3, <4>4, ExceptSeq
      <4>6. DOMAIN messages' = 1 .. Len(messages)
        BY <1>0, <4>5
      <4> QED
        BY <1>0, <4>1, <4>3, <4>5, <4>6 DEF MessagesAge
    <3>2. CASE q.does # "patch"
      BY <1>0, <1>3, <2>1, <3>2 DEF Stored, MessagesAge
    <3> QED
      BY <3>1, <3>2
  <2>3. state' = state
    BY <1>3, <2>1 DEF Joined
  <2>4. members' \subseteq Users \X {c \in Conversations : state'[c] = "live"}
    <3>1. CASE q.does = "add"
      <4>1. q.conv \in Conversations /\ state[q.conv] = "live" /\ q.user \in Users
        BY <2>1, <3>1 DEF About, Granted, Request
      <4>2. members' = members \cup {<<q.user, q.conv>>}
        BY <3>1 DEF Joined
      <4> QED
        BY <1>0, <2>3, <4>1, <4>2
    <3>2. CASE q.does # "add"
      BY <1>0, <1>3, <2>1, <2>3, <3>2 DEF Joined
    <3> QED
      BY <3>1, <3>2
  <2>5. q.does = "join" => <<q.user, q.conv>> \in members'
    BY <1>3, <2>1 DEF Joined, Granted, Member
  <2> QED
    BY <1>0, <1>3, <2>1, <2>2, <2>3, <2>4, <2>5
<1> QED
  BY <1>1, <1>2, <1>3

(* A step of message-service, seen from the gateways: T are the tasks      *)
(* after it but for what history remembers.                                *)
LEMMA ServiceKeeps ==
    ASSUME GatewayInv, UNCHANGED <<socket, rooms, wire, client, owed>>,
           state' \in [Conversations -> {"unused", "live", "deleted"}],
           members' \subseteq Users \X {c \in Conversations : state'[c] = "live"},
           messages' \in Seq(Stock), Len(messages') <= MaxMessages, MessagesAge,
           task' \in [Tasks -> Request \cup {Idle}],
           late' \in [Tasks -> Request \cup {Idle}],
           RequestsInv',
           \A t \in Tasks : task'[t] # Idle => task[t] # Idle /\ task'[t].gateway = task[t].gateway,
           \A t \in Sockets : task'[t].pc = "done" /\ Stores(task'[t]) =>
             \/ task[t].pc = "done" /\ Stores(task[t]) /\ task'[t].msg = task[t].msg
             \/ task'[t].msg = Len(messages) + 1
    PROVE  GatewayInv'
<1>1. TypeOK'
  BY DEF GatewayInv, TypeOK, client, Stock
<1>2. SocketsInv'
  BY SocketsKept DEF GatewayInv, Tasks
<1>3. GatewaysKept /\ Drained /\ got' = got
  BY DEF GatewaysKept, Drained, client
<1> QED
  BY <1>1, <1>2, <1>3, QuietKeeps

LEMMA ServeKeeps == ASSUME GatewayInv, NEW t \in Tasks, Serve(t) PROVE GatewayInv'
<1> DEFINE a == task[t]
<1>1. /\ TypeOK /\ RequestsInv /\ a.pc = "waiting"
      /\ UNCHANGED <<late, socket, rooms, wire, client, owed>>
      /\ task \in [Tasks -> Request \cup {Idle}] /\ late \in [Tasks -> Request \cup {Idle}]
  BY Rests DEF GatewayInv, Serve
<1>2. a \in Request /\ a # Idle /\ About(t, a)
  BY <1>1 DEF RequestsInv, Idle
<1>3. CASE /\ task' = [task EXCEPT ![t].pc = "refused"]
           /\ UNCHANGED <<state, members, messages>>
  <2>1. /\ task' \in [Tasks -> Request \cup {Idle}]
        /\ task'[t].pc = "refused" /\ task'[t].does = a.does /\ task'[t].room = a.room
        /\ task'[t].conv = a.conv /\ task'[t].msg = a.msg /\ task'[t].gateway = a.gateway
        /\ task'[t].text = a.text
        /\ \A k \in Tasks \ {t} : task'[k] = task[k]
    BY <1>1, <1>2, <1>3 DEF Request
  <2>2. a.held => task'[t].held
    <3>1. task'[t] = [a EXCEPT !.pc = "refused"]
      BY <1>1, <1>3
    <3>2. task'[t].held = a.held
      BY <1>2, <3>1 DEF Request
    <3> QED
      BY <3>2, Zenon
  <2>3. MessagesAge
    BY <1>3 DEF MessagesAge
  <2>4. \A k \in Tasks : task'[k] # Idle =>
          /\ task[k] # Idle
          /\ task'[k].pc \in {task[k].pc, "refused"} /\ task'[k].does = task[k].does
          /\ task'[k].room = task[k].room /\ task'[k].conv = task[k].conv
          /\ task'[k].msg = task[k].msg /\ task'[k].text = task[k].text
          /\ (task[k].held => task'[k].held)
    BY <1>2, <2>1, <2>2
  <2>5. RequestsInv'
    BY <1>1, <2>3, <2>4, RequestsKept
  <2>6. /\ \A k \in Tasks : task'[k] # Idle => task[k] # Idle /\ task'[k].gateway = task[k].gateway
        /\ \A k \in Sockets : task'[k].pc = "done" /\ Stores(task'[k]) =>
             task[k].pc = "done" /\ Stores(task[k]) /\ task'[k].msg = task[k].msg
    BY <1>2, <2>1 DEF Tasks
  <2>7. /\ state' \in [Conversations -> {"unused", "live", "deleted"}]
        /\ members' \subseteq Users \X {c \in Conversations : state'[c] = "live"}
        /\ messages' \in Seq(Stock) /\ Len(messages') <= MaxMessages
    BY <1>1, <1>3 DEF TypeOK, Stock
  <2> QED
    BY <1>1, <2>1, <2>3, <2>5, <2>6, <2>7, ServiceKeeps
<1>4. CASE \E q \in Named(a) : /\ Granted(q)
                               /\ Stored(t, q) /\ Joined(q)
                               /\ task' = Remember([task EXCEPT ![t] = [q EXCEPT !.pc = "done"]])
  <2> PICK q \in Named(a) : /\ Granted(q)
                            /\ Stored(t, q) /\ Joined(q)
                            /\ task' = Remember([task EXCEPT ![t] = [q EXCEPT !.pc = "done"]])
    BY <1>4
  <2>1. /\ q \in Request /\ q.does = a.does /\ q.gateway = a.gateway
        /\ q.user = a.user /\ q.room = a.room /\ q.text = a.text
        /\ q.does # "create" => q.conv = a.conv
        /\ ~Stores(q) => q.msg = a.msg
        /\ q.does = "create" => q.conv \in Conversations
        /\ state' \in [Conversations -> {"unused", "live", "deleted"}]
        /\ members' \subseteq Users \X {c \in Conversations : state'[c] = "live"}
        /\ messages' \in Seq(Stock) /\ Len(messages') <= MaxMessages
        /\ MessagesAge
        /\ Stores(q) => /\ q.msg = Len(messages) + 1 /\ q.msg \in DOMAIN messages'
                        /\ messages'[q.msg].conv = q.conv /\ messages'[q.msg].sender = t
                        /\ None \in messages'[q.msg].past
        /\ q.does = "patch" => q.text \in messages'[q.msg].past
        /\ q.does = "join" => <<q.user, q.conv>> \in members'
    BY <1>1, <1>2, CarriedOut
  <2> DEFINE d == [q EXCEPT !.pc = "done"]
             T == [task EXCEPT ![t] = d]
  <2>2. /\ d \in Request /\ d.pc = "done" /\ d.does = q.does /\ d.gateway = q.gateway
        /\ d.user = q.user /\ d.room = q.room /\ d.conv = q.conv /\ d.msg = q.msg
        /\ d.text = q.text
    BY <2>1 DEF Request
  <2>3. task' = Remember(T)
    OBVIOUS
  <2> HIDE DEF d
  <2>4. /\ T \in [Tasks -> Request \cup {Idle}] /\ T[t] = d
        /\ \A k \in Tasks \ {t} : T[k] = task[k]
    BY <1>1, <2>2
  <2> HIDE DEF T
  <2>5. <<None, None>> \notin members'
    BY <2>1, GatewayAssumption DEF GatewayAssumption
  <2>6. /\ task' \in [Tasks -> Request \cup {Idle}]
        /\ \A k \in Tasks :
             /\ T[k] = Idle => task'[k] = Idle
             /\ task'[k].pc = T[k].pc /\ task'[k].does = T[k].does
             /\ task'[k].gateway = T[k].gateway /\ task'[k].room = T[k].room
             /\ task'[k].conv = T[k].conv /\ task'[k].msg = T[k].msg
             /\ task'[k].text = T[k].text
             /\ T[k].held => task'[k].held
             /\ T[k] # Idle /\ <<T[k].user, T[k].conv>> \in members' => task'[k].held
    BY <2>3, <2>4, <2>5, RememberHas
  <2>7. /\ task'[t].pc = "done" /\ task'[t].does = q.does /\ task'[t].gateway = a.gateway
        /\ task'[t].room = a.room /\ task'[t].conv = q.conv /\ task'[t].msg = q.msg
        /\ task'[t].text = q.text
        /\ <<q.user, q.conv>> \in members' => task'[t].held
    <3>1. d # Idle
      BY <2>2, RequestIsNotIdle
    <3> QED
      BY <2>1, <2>2, <2>4, <2>6, <3>1
  <2>8. \A k \in Tasks \ {t} : task'[k] # Idle =>
          /\ task[k] # Idle
          /\ task'[k].pc \in {task[k].pc, "refused"} /\ task'[k].does = task[k].does
          /\ task'[k].room = task[k].room /\ task'[k].conv = task[k].conv
          /\ task'[k].msg = task[k].msg /\ task'[k].text = task[k].text
          /\ (task[k].held => task'[k].held)
          /\ task'[k].gateway = task[k].gateway /\ task'[k].pc = task[k].pc
    <3> SUFFICES ASSUME NEW k \in Tasks \ {t}, task'[k] # Idle
                 PROVE  /\ task[k] # Idle
                        /\ task'[k].pc \in {task[k].pc, "refused"} /\ task'[k].does = task[k].does
                        /\ task'[k].room = task[k].room /\ task'[k].conv = task[k].conv
                        /\ task'[k].msg = task[k].msg /\ task'[k].text = task[k].text
                        /\ (task[k].held => task'[k].held)
                        /\ task'[k].gateway = task[k].gateway /\ task'[k].pc = task[k].pc
      OBVIOUS
    <3>1. T[k] = task[k] /\ k \in Tasks
      BY <2>4
    <3>2. /\ T[k] = Idle => task'[k] = Idle
          /\ task'[k].pc = T[k].pc /\ task'[k].does = T[k].does
          /\ task'[k].gateway = T[k].gateway /\ task'[k].room = T[k].room
          /\ task'[k].conv = T[k].conv /\ task'[k].msg = T[k].msg
          /\ task'[k].text = T[k].text
      BY <2>6, <3>1
    <3>3. T[k].held => task'[k].held
      BY <2>6, <3>1
    <3>4. task[k].held => task'[k].held
      BY <3>1, <3>3
    <3> QED
      BY <3>1, <3>2, <3>4
  <2>9. About(t, task[t])'
    <3>1. q.does = "patch" => /\ q.msg \in DOMAIN messages'
                              /\ a.room[2] = messages'[q.msg].conv
      BY <1>2, <2>1 DEF About, MessagesAge, Stores
    <3> QED
      BY <1>2, <2>1, <2>7, <3>1 DEF About, Stores
  <2>10. Done(t, task[t])'
    BY <2>1, <2>7 DEF Done, Stores
  <2>11. RequestsInv'
    <3>1. \A k \in Tasks : task'[k] # Idle =>
            \/ /\ task[k] # Idle
               /\ task'[k].pc \in {task[k].pc, "refused"} /\ task'[k].does = task[k].does
               /\ task'[k].room = task[k].room /\ task'[k].conv = task[k].conv
               /\ task'[k].msg = task[k].msg /\ task'[k].text = task[k].text
               /\ (task[k].held => task'[k].held)
            \/ About(k, task[k])' /\ Done(k, task[k])'
      BY <2>8, <2>9, <2>10
    <3> QED
      BY <1>1, <2>1, <3>1, RequestsKept
  <2>12. \A k \in Tasks : task'[k] # Idle => task[k] # Idle /\ task'[k].gateway = task[k].gateway
    BY <1>2, <2>7, <2>8
  <2>13. ASSUME NEW k \in Sockets, task'[k].pc = "done", Stores(task'[k])
         PROVE  \/ task[k].pc = "done" /\ Stores(task[k]) /\ task'[k].msg = task[k].msg
                \/ task'[k].msg = Len(messages) + 1
    <3>1. CASE k = t
      BY <2>1, <2>7, <2>13, <3>1 DEF Stores
    <3>2. CASE k # t
      <4>1. k \in Tasks \ {t} /\ task'[k] # Idle
        BY <2>13, <3>2 DEF Tasks, Idle
      <4> QED
        BY <2>8, <2>13, <4>1 DEF Stores
    <3> QED
      BY <3>1, <3>2
  <2> QED
    BY <1>1, <2>1, <2>6, <2>11, <2>12, <2>13, ServiceKeeps
<1> QED
  BY <1>3, <1>4 DEF Serve

LEMMA ServeLateKeeps == ASSUME GatewayInv, NEW t \in Tasks, ServeLate(t) PROVE GatewayInv'
<1> DEFINE a == late[t]
<1>1. /\ TypeOK /\ RequestsInv /\ a # Idle /\ late' = [late EXCEPT ![t] = Idle]
      /\ UNCHANGED <<socket, rooms, wire, client, owed>>
      /\ task \in [Tasks -> Request \cup {Idle}] /\ late \in [Tasks -> Request \cup {Idle}]
  BY Rests DEF GatewayInv, ServeLate
<1>2. a \in Request /\ About(t, a)
  BY <1>1 DEF RequestsInv
<1>3. /\ late' \in [Tasks -> Request \cup {Idle}]
      /\ \A k \in Tasks : late'[k] # Idle => late'[k] = late[k]
  BY <1>1
<1>4. ASSUME task' = task, UNCHANGED <<state, members, messages>>
      PROVE  GatewayInv'
  <2>1. MessagesAge
    BY <1>4 DEF MessagesAge
  <2>2. RequestsInv'
    BY <1>1, <1>3, <1>4, <2>1, RequestsKept
  <2>3. /\ state' \in [Conversations -> {"unused", "live", "deleted"}]
        /\ members' \subseteq Users \X {c \in Conversations : state'[c] = "live"}
        /\ messages' \in Seq(Stock) /\ Len(messages') <= MaxMessages
        /\ task' \in [Tasks -> Request \cup {Idle}]
    BY <1>1, <1>4 DEF TypeOK, Stock
  <2> QED
    BY <1>1, <1>3, <1>4, <2>1, <2>2, <2>3, ServiceKeeps
<1>5. CASE \E q \in Named(a) : /\ Granted(q)
                               /\ Stored(t, q) /\ Joined(q)
                               /\ task' = Remember(task)
  <2> PICK q \in Named(a) : /\ Granted(q)
                            /\ Stored(t, q) /\ Joined(q)
                            /\ task' = Remember(task)
    BY <1>5
  <2>1. /\ state' \in [Conversations -> {"unused", "live", "deleted"}]
        /\ members' \subseteq Users \X {c \in Conversations : state'[c] = "live"}
        /\ messages' \in Seq(Stock) /\ Len(messages') <= MaxMessages
        /\ MessagesAge
    BY <1>1, <1>2, CarriedOut
  <2>2. <<None, None>> \notin members'
    BY <2>1, GatewayAssumption DEF GatewayAssumption
  <2>3. /\ task' \in [Tasks -> Request \cup {Idle}]
        /\ \A k \in Tasks :
             /\ task[k] = Idle => task'[k] = Idle
             /\ task'[k].pc = task[k].pc /\ task'[k].does = task[k].does
             /\ task'[k].gateway = task[k].gateway /\ task'[k].room = task[k].room
             /\ task'[k].conv = task[k].conv /\ task'[k].msg = task[k].msg
             /\ task'[k].text = task[k].text
             /\ task[k].held => task'[k].held
    BY <1>1, <2>2, RememberHas
  <2>4. RequestsInv'
    BY <1>1, <1>3, <2>1, <2>3, RequestsKept
  <2>5. /\ \A k \in Tasks : task'[k] # Idle => task[k] # Idle /\ task'[k].gateway = task[k].gateway
        /\ \A k \in Sockets : task'[k].pc = "done" /\ Stores(task'[k]) =>
             task[k].pc = "done" /\ Stores(task[k]) /\ task'[k].msg = task[k].msg
    BY <2>3 DEF Stores, Tasks
  <2> QED
    BY <1>1, <1>3, <2>1, <2>3, <2>4, <2>5, ServiceKeeps
<1> QED
  BY <1>4, <1>5 DEF ServeLate

(* What the gateways are not told of. *)
LEMMA UntoldKeeps ==
    ASSUME GatewayInv,
           \/ \E m \in DOMAIN messages : Delete(m)
           \/ \E u \in Users, c \in Conversations : RemoveGroupMember(u, c)
           \/ \E c \in Conversations : DeleteGroup(c)
    PROVE  GatewayInv'
<1>1. /\ TypeOK /\ RequestsInv
      /\ task \in [Tasks -> Request \cup {Idle}] /\ late \in [Tasks -> Request \cup {Idle}]
      /\ state \in [Conversations -> {"unused", "live", "deleted"}]
      /\ members \subseteq Users \X {c \in Conversations : state[c] = "live"}
      /\ messages \in Seq(Stock) /\ Len(messages) <= MaxMessages
  BY Rests DEF GatewayInv, TypeOK, Stock
<1>2. UNCHANGED <<late, socket, rooms, task, wire, client, owed>>
  BY DEF Delete, RemoveGroupMember, DeleteGroup
<1>3. /\ messages' \in Seq(Stock) /\ Len(messages') <= MaxMessages /\ MessagesAge
  <2>1. CASE messages' = messages
    BY <1>1, <2>1 DEF MessagesAge
  <2>2. CASE \E m \in DOMAIN messages : Delete(m)
    <3> PICK m \in DOMAIN messages : messages' = [messages EXCEPT ![m].text = Gone]
      BY <2>2 DEF Delete
    <3> DEFINE e == [messages[m] EXCEPT !.text = Gone]
    <3>1. messages[m] \in Stock /\ m \in 1 .. Len(messages)
      BY <1>1, Stocked
    <3>2. /\ e \in Stock /\ e.conv = messages[m].conv /\ e.sender = messages[m].sender
          /\ e.past = messages[m].past
      BY <3>1 DEF Stock
    <3>3. messages' = [messages EXCEPT ![m] = e]
      OBVIOUS
    <3> HIDE DEF e
    <3>4. /\ messages' \in Seq(Stock) /\ Len(messages') = Len(messages)
          /\ \A j \in 1 .. Len(messages) : messages'[j] = IF j = m THEN e ELSE messages[j]
      <4>1. /\ [messages EXCEPT ![m] = e] \in Seq(Stock)
            /\ Len([messages EXCEPT ![m] = e]) = Len(messages)
            /\ \A j \in 1 .. Len(messages) :
                 [messages EXCEPT ![m] = e][j] = IF j = m THEN e ELSE messages[j]
        BY <1>1, <3>1, <3>2, ExceptSeq
      <4> QED
        BY <3>3, <4>1
    <3>5. DOMAIN messages' = 1 .. Len(messages) /\ DOMAIN messages = 1 .. Len(messages)
      BY <1>1, <3>4
    <3> QED
      BY <1>1, <3>2, <3>4, <3>5 DEF MessagesAge
  <2> QED
    BY <2>1, <2>2 DEF RemoveGroupMember, DeleteGroup
<1>4. /\ state' \in [Conversations -> {"unused", "live", "deleted"}]
      /\ members' \subseteq Users \X {c \in Conversations : state'[c] = "live"}
  <2>1. CASE \E m \in DOMAIN messages : Delete(m)
    BY <1>1, <2>1 DEF Delete
  <2>2. CASE \E u \in Users, c \in Conversations : RemoveGroupMember(u, c)
    BY <1>1, <2>2 DEF RemoveGroupMember
  <2>3. CASE \E c \in Conversations : DeleteGroup(c)
    <3> PICK c \in Conversations : /\ state' = [state EXCEPT ![c] = "deleted"]
                                   /\ members' = members \ (Users \X {c})
      BY <2>3 DEF DeleteGroup
    <3>1. state' \in [Conversations -> {"unused", "live", "deleted"}]
      BY <1>1
    <3>2. ASSUME NEW w \in members' PROVE w \in Users \X {d \in Conversations : state'[d] = "live"}
      <4>1. PICK u \in Users, d \in Conversations : w = <<u, d>> /\ state[d] = "live"
        BY <1>1, <3>2
      <4>2. d # c
        BY <3>2, <4>1
      <4> QED
        BY <1>1, <4>1, <4>2
    <3> QED
      BY <3>1, <3>2
  <2> QED
    BY <2>1, <2>2, <2>3
<1>5. RequestsInv'
  BY <1>1, <1>2, <1>3, RequestsKept
<1>6. /\ \A t \in Tasks : task'[t] = task[t]
      /\ \A t \in Sockets : task'[t].pc = "done" /\ Stores(task'[t]) =>
           task[t].pc = "done" /\ Stores(task[t]) /\ task'[t].msg = task[t].msg
  BY <1>2
<1> QED
  BY <1>1, <1>2, <1>3, <1>4, <1>5, <1>6, ServiceKeeps

-----------------------------------------------------------------------------
(* Answers                                                                 *)

(* The task ends; its request may have been given up. *)
LEMMA EndsWell ==
    ASSUME GatewayInv, NEW t \in Tasks, End(t), UNCHANGED messages,
           \/ late' = late
           \/ task[t].pc = "waiting" /\ late' = [late EXCEPT ![t] = task[t]]
    PROVE  /\ task' \in [Tasks -> Request \cup {Idle}] /\ task'[t] = Idle
           /\ late' \in [Tasks -> Request \cup {Idle}]
           /\ \A u \in Tasks : task'[u] \in {task[u], Idle}
           /\ \A u \in Sockets : task'[u] # Idle => task'[u] = task[u] /\ task[u] # Idle
           /\ \A u \in Sockets : task'[u].pc = "done" => task'[u] = task[u]
           /\ MessagesAge /\ RequestsInv'
<1>1. /\ TypeOK /\ RequestsInv
      /\ task \in [Tasks -> Request \cup {Idle}] /\ late \in [Tasks -> Request \cup {Idle}]
      /\ task' = [task EXCEPT ![t] = Idle]
  BY Rests DEF GatewayInv, End
<1>2. /\ task' \in [Tasks -> Request \cup {Idle}] /\ task'[t] = Idle
      /\ \A u \in Tasks : task'[u] \in {task[u], Idle}
  BY <1>1
<1>3. /\ late' \in [Tasks -> Request \cup {Idle}]
      /\ \A u \in Tasks : late'[u] # Idle =>
           \/ late'[u] = late[u]
           \/ task[u] # Idle /\ late'[u] = task[u] /\ task[u].pc = "waiting"
  BY <1>1 DEF Idle
<1>4. MessagesAge
  BY DEF MessagesAge
<1>5. \A u \in Tasks : task'[u] # Idle =>
        /\ task[u] # Idle
        /\ task'[u].pc \in {task[u].pc, "refused"} /\ task'[u].does = task[u].does
        /\ task'[u].room = task[u].room /\ task'[u].conv = task[u].conv
        /\ task'[u].msg = task[u].msg /\ task'[u].text = task[u].text
        /\ (task[u].held => task'[u].held)
  BY <1>2
<1>6. RequestsInv'
  BY <1>1, <1>3, <1>4, <1>5, RequestsKept
<1>7. /\ \A u \in Sockets : task'[u] # Idle => task'[u] = task[u] /\ task[u] # Idle
      /\ \A u \in Sockets : task'[u].pc = "done" => task'[u] = task[u]
  BY <1>2 DEF Idle, Tasks
<1> QED
  BY <1>2, <1>3, <1>4, <1>6, <1>7

(* What a task may publish is of the room its request was about. *)
LEMMA FrameSays ==
    ASSUME TypeOK, NEW t \in Tasks, NEW q \in Request, About(t, q), Done(t, q),
           (q.pc = "done" /\ q.does # "join") \/ Told(q)
    PROVE  /\ Frame(q) \in Frames
           /\ Frame(q).kind \in {"message", "updated"} =>
                /\ Frame(q).msg \in DOMAIN messages /\ q.room[2] = messages[Frame(q).msg].conv
                /\ Frame(q).text \in messages[Frame(q).msg].past
           /\ Frame(q).kind = "message" =>
                /\ messages[Frame(q).msg].sender = t
                /\ q.pc = "done" /\ Stores(q) /\ q.msg = Frame(q).msg
<1>1. DOMAIN messages \subseteq Ids
  BY Stocked
<1>2. CASE q.does \in {"message", "post"}
  <2>1. q.pc = "done" /\ Stores(q)
    BY <1>2 DEF Told, Stores
  <2>2. Frame(q) = [kind |-> "message", msg |-> q.msg, text |-> None]
    BY <1>2 DEF Frame
  <2>3. /\ q.msg \in DOMAIN messages /\ messages[q.msg].conv = q.conv /\ messages[q.msg].sender = t
        /\ None \in messages[q.msg].past
    BY <2>1 DEF Done
  <2>4. q.room[2] = q.conv
    BY <1>2 DEF About
  <2> QED
    BY <1>1, <2>1, <2>2, <2>3, <2>4 DEF Frames, Texts
<1>3. CASE q.does = "patch"
  <2>1. Frame(q) = [kind |-> "updated", msg |-> q.msg, text |-> q.text]
    BY <1>3 DEF Frame
  <2>2. q.msg \in DOMAIN messages /\ q.room[2] = messages[q.msg].conv /\ q.text \in Texts
    BY <1>3 DEF About, Request
  <2>3. q.text \in messages[q.msg].past
    BY <1>3 DEF Done, Told
  <2> QED
    BY <1>1, <2>1, <2>2, <2>3 DEF Frames
<1>4. CASE q.does \in {"delivered", "seen"}
  <2>1. Frame(q) = [kind |-> q.does, msg |-> q.msg]
    BY <1>4 DEF Frame
  <2>2. q.msg \in Ids
    BY <1>4 DEF About
  <2> QED
    BY <1>4, <2>1, <2>2 DEF Frames
<1>5. CASE q.does \in {"create", "add"}
  <2>1. Frame(q) = [kind |-> "created", conv |-> q.conv]
    BY <1>5 DEF Frame
  <2>2. q.pc = "done"
    BY <1>5 DEF Told
  <2>3. q.conv \in Conversations
    BY <1>5, <2>2 DEF About, Done
  <2> QED
    BY <2>1, <2>3 DEF Frames
<1>6. q.does # "join" /\ q.does # "typing"
  BY DEF About, Told
<1> QED
  BY <1>2, <1>3, <1>4, <1>5, <1>6 DEF Request, SocketActions, HttpActions

(* A task ends and publishes what came of its request. *)
LEMMA TellsKeeps ==
    ASSUME GatewayInv, NEW t \in Tasks, NEW q, q = task[t], q # Idle,
           (q.pc = "done" /\ q.does # "join") \/ Told(q),
           End(t), Publish(q.gateway, q.room, Frame(q)),
           UNCHANGED <<state, members, messages, socket, rooms, client>>,
           \/ late' = late
           \/ task[t].pc = "waiting" /\ late' = [late EXCEPT ![t] = task[t]]
    PROVE  GatewayInv'
<1>1. /\ TypeOK /\ RequestsInv /\ SocketsInv /\ PublishedInv /\ OrderInv
      /\ q \in Request /\ q.gateway \in Gateways /\ q.room \in Rooms
  <2>1. q \in Request \cup {Idle}
    BY Rests DEF GatewayInv
  <2> QED
    BY <2>1, RequestTyped DEF GatewayInv
<1>2. About(t, q) /\ Done(t, q)
  BY <1>1 DEF RequestsInv
<1> DEFINE f == Frame(q)
<1>3. /\ f \in Frames
      /\ f.kind \in {"message", "updated"} =>
           /\ f.msg \in DOMAIN messages /\ q.room[2] = messages[f.msg].conv
           /\ f.text \in messages[f.msg].past
      /\ f.kind = "message" =>
           /\ messages[f.msg].sender = t
           /\ q.pc = "done" /\ Stores(q) /\ q.msg = f.msg
  BY <1>1, <1>2, FrameSays
<1>4. Publish(q.gateway, q.room, f)
  OBVIOUS
<1> HIDE DEF f
<1>5. /\ task' \in [Tasks -> Request \cup {Idle}] /\ task'[t] = Idle
      /\ late' \in [Tasks -> Request \cup {Idle}]
      /\ \A u \in Tasks : task'[u] \in {task[u], Idle}
      /\ \A u \in Sockets : task'[u] # Idle => task'[u] = task[u] /\ task[u] # Idle
      /\ RequestsInv'
  BY EndsWell
<1>6. t \in Sockets => socket[t].gateway = q.gateway
  BY <1>1 DEF SocketsInv
<1>7. PublishedInv' /\ OrderInv'
  BY <1>1, <1>3, <1>4, <1>5, <1>6, PublishedKept DEF client
<1>8. /\ wire' \in [Gateways -> [Gateways -> Seq(Publications)]]
      /\ owed' \in [Sockets -> SUBSET Frames]
  BY <1>1, <1>3, <1>4, Publishes1
<1>9. TypeOK'
  BY <1>1, <1>5, <1>8 DEF TypeOK, client, Publications
<1>10. SocketsInv'
  BY <1>1, <1>5, SocketsKept
<1> QED
  BY <1>5, <1>7, <1>9, <1>10 DEF GatewayInv

(* A task ends and publishes nothing. *)
LEMMA EndsKeeps ==
    ASSUME GatewayInv, NEW t \in Tasks, End(t), Silent,
           UNCHANGED <<state, members, messages, client>>,
           socket' \in [Sockets -> Connections \cup {Closed}],
           rooms' \in [Gateways -> [Rooms -> SUBSET Sockets]],
           GatewaysKept, SocketsInv',
           \/ late' = late
           \/ task[t].pc = "waiting" /\ late' = [late EXCEPT ![t] = task[t]]
    PROVE  GatewayInv'
<1>1. /\ task' \in [Tasks -> Request \cup {Idle}]
      /\ late' \in [Tasks -> Request \cup {Idle}]
      /\ \A u \in Sockets : task'[u].pc = "done" => task'[u] = task[u]
      /\ MessagesAge /\ RequestsInv'
  BY EndsWell
<1>2. TypeOK'
  BY <1>1 DEF GatewayInv, TypeOK, client, Silent, Connections
<1>3. Drained /\ got' = got
  BY DEF Drained, Silent, client
<1>4. \A u \in Sockets : task'[u].pc = "done" /\ Stores(task'[u]) =>
        task[u].pc = "done" /\ Stores(task[u]) /\ task'[u].msg = task[u].msg
  BY <1>1
<1> QED
  BY <1>1, <1>2, <1>3, <1>4, QuietKeeps

LEMMA TimeOutKeeps == ASSUME GatewayInv, NEW t \in Tasks, TimeOut(t) PROVE GatewayInv'
<1>1. /\ End(t) /\ UNCHANGED <<state, members, messages, socket, rooms, client>> /\ task[t] # Idle
      /\ \/ late' = late
         \/ task[t].pc = "waiting" /\ late' = [late EXCEPT ![t] = task[t]]
  BY DEF TimeOut, GivesUp
<1>2. CASE Told(task[t])
  BY <1>1, <1>2, TellsKeeps DEF TimeOut, GivesUp
<1>3. CASE ~Told(task[t])
  <2>1. Silent
    BY <1>3 DEF TimeOut, GivesUp
  <2>2. /\ socket' \in [Sockets -> Connections \cup {Closed}]
        /\ rooms' \in [Gateways -> [Rooms -> SUBSET Sockets]]
        /\ GatewaysKept
    BY <1>1, Rests DEF GatewayInv, GatewaysKept
  <2>3. \A u \in Sockets : task'[u] # Idle => task'[u] = task[u] /\ task[u] # Idle
    BY <1>1, EndsWell
  <2>4. SocketsInv'
    BY <1>1, <2>3, SocketsKept DEF GatewayInv
  <2> QED
    BY <1>1, <2>1, <2>2, <2>4, EndsKeeps
<1> QED
  BY <1>2, <1>3

(* A socket enters the room it asked for on its own gateway, and has not   *)
(* been closed meanwhile.                                                  *)
LEMMA EntersKept ==
    ASSUME GatewayInv, NEW t \in Sockets, task[t] # Idle, End(t),
           task[t].room \in ConvRooms, Join(task[t].gateway, task[t].room, t),
           socket' = [socket EXCEPT ![t].room = task[t].room]
    PROVE  /\ socket' \in [Sockets -> Connections \cup {Closed}]
           /\ rooms' \in [Gateways -> [Rooms -> SUBSET Sockets]]
           /\ GatewaysKept /\ SocketsInv'
<1> DEFINE g == task[t].gateway
           k == task[t].room
<1>1. /\ SocketsInv /\ socket \in [Sockets -> Connections \cup {Closed}]
      /\ rooms \in [Gateways -> [Rooms -> SUBSET Sockets]]
      /\ task \in [Tasks -> Request \cup {Idle}] /\ t \in Tasks
      /\ socket[t].state \in {"open", "broken"} /\ g = socket[t].gateway
      /\ socket[t] \in Connections
  BY Rests DEF GatewayInv, SocketsInv, Tasks
<1>2. g \in Gateways /\ k \in Rooms /\ k \in ConvRooms
  BY <1>1 DEF Connections, Rooms
<1>3. rooms' = [rooms EXCEPT ![g][k] = @ \cup {t}] /\ socket' = [socket EXCEPT ![t].room = k]
  BY DEF Join
<1>4. task' = [task EXCEPT ![t] = Idle]
  BY DEF End
<1> HIDE DEF g, k
<1>5. /\ socket' \in [Sockets -> Connections \cup {Closed}]
      /\ socket'[t].state = socket[t].state /\ socket'[t].gateway = g
      /\ \A r \in Sockets \ {t} : socket'[r] = socket[r]
  BY <1>1, <1>2, <1>3 DEF Connections
<1>6. rooms' \in [Gateways -> [Rooms -> SUBSET Sockets]]
  BY <1>1, <1>2, <1>3
<1>7. ASSUME NEW h \in Gateways, NEW m \in Rooms
      PROVE  /\ rooms'[h][m] \subseteq rooms[h][m] \cup {t}
             /\ h # g => rooms'[h][m] = rooms[h][m]
  <2>1. rooms' = [rooms EXCEPT ![g] = [rooms[g] EXCEPT ![k] = rooms[g][k] \cup {t}]]
    BY <1>3
  <2>2. CASE h = g
    BY <1>1, <1>2, <2>1, <2>2
  <2>3. CASE h # g
    BY <1>1, <2>1, <2>3
  <2> QED
    BY <2>2, <2>3
<1>8. GatewaysKept
  BY <1>1, <1>5 DEF GatewaysKept
<1>9. ASSUME NEW r \in Sockets, task'[r] # Idle
      PROVE  socket'[r].state \in {"open", "broken"} /\ task'[r].gateway = socket'[r].gateway
  <2>1. r # t /\ task'[r] = task[r]
    BY <1>1, <1>4, <1>9 DEF Tasks
  <2> QED
    BY <1>1, <1>5, <1>9, <2>1 DEF SocketsInv
<1>10. ASSUME NEW r \in Sockets, NEW h \in Gateways, NEW m \in Rooms, r \in rooms'[h][m]
       PROVE  socket'[r].gateway = h
  <2>1. CASE r \in rooms[h][m]
    <3>1. socket[r].gateway = h
      BY <1>1, <2>1 DEF SocketsInv
    <3> QED
      BY <1>1, <1>5, <3>1
  <2>2. CASE r \notin rooms[h][m]
    <3>1. r = t /\ h = g
      BY <1>7, <1>10, <2>2
    <3> QED
      BY <1>5, <3>1
  <2> QED
    BY <2>1, <2>2
<1>11. ASSUME NEW r \in Sockets, socket'[r].state = "closed", socket'[r].room # Nowhere
       PROVE  r \notin rooms'[socket'[r].gateway][socket'[r].room]
  <2>1. r # t /\ socket'[r] = socket[r]
    BY <1>1, <1>5, <1>11
  <2>2. socket[r].gateway \in Gateways /\ socket[r].room \in Rooms
    BY <1>1, <1>11, <2>1 DEF Connections, Closed, Rooms
  <2>3. r \notin rooms[socket[r].gateway][socket[r].room]
    BY <1>1, <1>11, <2>1 DEF SocketsInv, LastRoomLeft
  <2> QED
    BY <1>7, <2>1, <2>2, <2>3
<1> QED
  BY <1>5, <1>6, <1>8, <1>9, <1>10, <1>11 DEF SocketsInv, LastRoomLeft

LEMMA ConcludeKeeps == ASSUME GatewayInv, NEW t \in Tasks, Conclude(t) PROVE GatewayInv'
<1> DEFINE q == task[t]
<1>1. /\ End(t) /\ UNCHANGED <<state, members, messages, client>> /\ late' = late
      /\ q.pc \in {"done", "refused"} /\ q # Idle
  BY DEF Conclude, service, Idle
<1>2. CASE Publishes(q)
  <2>1. /\ UNCHANGED <<rooms, socket>> /\ Publish(q.gateway, q.room, Frame(q))
        /\ (q.pc = "done" /\ q.does # "join") \/ Told(q)
    BY <1>2 DEF Conclude, Publishes
  <2> QED
    BY <1>1, <2>1, TellsKeeps
<1>3. CASE ~Publishes(q) /\ ~(q.does = "join" /\ q.pc = "done")
  <2>1. Silent /\ UNCHANGED <<rooms, socket>>
    BY <1>3 DEF Conclude
  <2>2. /\ socket' \in [Sockets -> Connections \cup {Closed}]
        /\ rooms' \in [Gateways -> [Rooms -> SUBSET Sockets]]
        /\ GatewaysKept
    BY <2>1, Rests DEF GatewayInv, GatewaysKept
  <2>3. \A u \in Sockets : task'[u] # Idle => task'[u] = task[u] /\ task[u] # Idle
    BY <1>1, EndsWell
  <2>4. SocketsInv'
    BY <2>1, <2>3, SocketsKept DEF GatewayInv
  <2> QED
    BY <1>1, <2>1, <2>2, <2>4, EndsKeeps
<1>4. CASE q.does = "join" /\ q.pc = "done"
  <2>1. /\ Silent /\ Join(q.gateway, q.room, t)
        /\ socket' = [socket EXCEPT ![t].room = q.room]
    BY <1>4 DEF Conclude, Publishes
  <2>2. t \in Sockets /\ q.room \in ConvRooms
    BY <1>1, <1>4 DEF GatewayInv, RequestsInv, About, SocketActions
  <2>3. /\ socket' \in [Sockets -> Connections \cup {Closed}]
        /\ rooms' \in [Gateways -> [Rooms -> SUBSET Sockets]]
        /\ GatewaysKept /\ SocketsInv'
    BY <1>1, <2>1, <2>2, EntersKept
  <2> QED
    BY <1>1, <2>1, <2>3, EndsKeeps
<1> QED
  BY <1>2, <1>3, <1>4

-----------------------------------------------------------------------------
(* What goes wrong                                                         *)

LEMMA LoseKeeps ==
    ASSUME GatewayInv, NEW p \in Gateways, NEW g \in Gateways, Lose(p, g)
    PROVE  GatewayInv'
<1>1. /\ TypeOK /\ UNCHANGED <<service, socket, rooms, task, client, owed>>
      /\ wire[p][g] # <<>> /\ wire' = [wire EXCEPT ![p][g] = Tail(wire[p][g])]
      /\ wire \in [Gateways -> [Gateways -> Seq(Publications)]]
  BY Rests DEF GatewayInv, Lose
<1>2. Tail(wire[p][g]) \in Seq(Publications)
  BY <1>1, HeadTailProperties
<1>3. wire' \in [Gateways -> [Gateways -> Seq(Publications)]]
  BY <1>1, <1>2
<1>4. Drained
  BY <1>1 DEF Drained
<1>5. TypeOK'
  BY <1>1, <1>3 DEF TypeOK, service, client, Publications
<1>6. RequestsInv'
  BY <1>1 DEF GatewayInv, RequestsInv, About, Done, service
<1>7. SocketsInv'
  BY <1>1, SocketsKept DEF GatewayInv
<1>8. MessagesAge /\ GatewaysKept /\ got' = got
  BY <1>1 DEF MessagesAge, GatewaysKept, service, client
<1>9. \A t \in Sockets : task'[t] = task[t]
  BY <1>1
<1> QED
  BY <1>4, <1>5, <1>6, <1>7, <1>8, <1>9, QuietKeeps

(* The sockets of g are closed, and with them the rooms they were in are   *)
(* gone.                                                                   *)
LEMMA CrashKeeps == ASSUME GatewayInv, NEW g \in Gateways, Crash(g) PROVE GatewayInv'
<1>1. /\ TypeOK /\ RequestsInv /\ SocketsInv
      /\ UNCHANGED <<state, members, messages, client, owed>>
      /\ socket \in [Sockets -> Connections \cup {Closed}]
      /\ rooms \in [Gateways -> [Rooms -> SUBSET Sockets]]
      /\ wire \in [Gateways -> [Gateways -> Seq(Publications)]]
      /\ task \in [Tasks -> Request \cup {Idle}] /\ late \in [Tasks -> Request \cup {Idle}]
      /\ Sockets \subseteq Tasks
  BY Rests DEF GatewayInv, Crash, Tasks
<1>2. /\ socket' = [s \in Sockets |-> IF socket[s].gateway = g /\ socket[s].state # "closed"
                                      THEN [socket[s] EXCEPT !.state = "closed"] ELSE socket[s]]
      /\ rooms' = [rooms EXCEPT ![g] = [r \in Rooms |-> {}]]
      /\ task' = [t \in Tasks |-> IF task[t].gateway = g THEN Idle ELSE task[t]]
      /\ wire' = [p \in Gateways |-> [wire[p] EXCEPT ![g] = <<>>]]
      /\ late' = [t \in Tasks |-> IF task[t].gateway = g /\ task[t].pc = "waiting" /\ Spare(t)
                                  THEN task[t] ELSE late[t]]
  BY DEF Crash
<1>3. ASSUME NEW s \in Sockets
      PROVE  /\ socket'[s] \in Connections \cup {Closed}
             /\ socket'[s].gateway = socket[s].gateway /\ socket'[s].room = socket[s].room
             /\ socket'[s].state \in {socket[s].state, "closed"}
             /\ socket[s].gateway # g => socket'[s] = socket[s]
  <2>1. CASE socket[s].gateway = g /\ socket[s].state # "closed"
    <3>1. socket[s] \in Connections /\ socket'[s] = [socket[s] EXCEPT !.state = "closed"]
      BY <1>1, <1>2, <2>1, Rests
    <3> QED
      BY <2>1, <3>1 DEF Connections
  <2>2. CASE ~(socket[s].gateway = g /\ socket[s].state # "closed")
    <3>1. socket'[s] = socket[s]
      BY <1>2, <2>2
    <3> QED
      BY <1>1, <3>1
  <2> QED
    BY <2>1, <2>2
<1>4. socket' \in [Sockets -> Connections \cup {Closed}]
  BY <1>2, <1>3
<1>5. /\ rooms' \in [Gateways -> [Rooms -> SUBSET Sockets]]
      /\ \A h \in Gateways, r \in Rooms : /\ rooms'[h][r] \subseteq rooms[h][r]
                                          /\ h = g => rooms'[h][r] = {}
  BY <1>1, <1>2
<1>6. /\ wire' \in [Gateways -> [Gateways -> Seq(Publications)]]
      /\ \A p, h \in Gateways : wire'[p][h] \in {wire[p][h], <<>>}
  <2>1. <<>> \in Seq(Publications)
    OBVIOUS
  <2> QED
    BY <1>1, <1>2, <2>1
<1>7. Drained
  BY <1>6 DEF Drained
<1>8. /\ task' \in [Tasks -> Request \cup {Idle}]
      /\ \A t \in Tasks : task'[t] # Idle => task'[t] = task[t] /\ task[t].gateway # g
      /\ \A t \in Tasks : task'[t].pc = "done" => task'[t] = task[t]
  BY <1>1, <1>2 DEF Idle
<1>9. /\ late' \in [Tasks -> Request \cup {Idle}]
      /\ \A t \in Tasks : late'[t] # Idle =>
           \/ late'[t] = late[t]
           \/ task[t] # Idle /\ late'[t] = task[t] /\ task[t].pc = "waiting"
  BY <1>1, <1>2 DEF Idle
<1>10. MessagesAge /\ GatewaysKept /\ got' = got
  BY <1>1, <1>3 DEF MessagesAge, GatewaysKept, client
<1>11. RequestsInv'
  <2>1. \A t \in Tasks : task'[t] # Idle =>
          /\ task[t] # Idle
          /\ task'[t].pc \in {task[t].pc, "refused"} /\ task'[t].does = task[t].does
          /\ task'[t].room = task[t].room /\ task'[t].conv = task[t].conv
          /\ task'[t].msg = task[t].msg /\ task'[t].text = task[t].text
          /\ (task[t].held => task'[t].held)
    BY <1>8
  <2> QED
    BY <1>1, <1>9, <1>10, <2>1, RequestsKept
<1>12. SocketsInv'
  <2>1. ASSUME NEW s \in Sockets, task'[s] # Idle
        PROVE  socket'[s].state \in {"open", "broken"} /\ task'[s].gateway = socket'[s].gateway
    <3>1. task'[s] = task[s] /\ task[s].gateway # g
      BY <1>1, <1>8, <2>1
    <3>2. socket[s].state \in {"open", "broken"} /\ task[s].gateway = socket[s].gateway
      BY <1>1, <2>1, <3>1 DEF SocketsInv
    <3> QED
      BY <1>3, <3>1, <3>2
  <2>2. ASSUME NEW s \in Sockets, NEW h \in Gateways, NEW r \in Rooms, s \in rooms'[h][r]
        PROVE  socket'[s].gateway = h
    BY <1>1, <1>3, <1>5, <2>2 DEF SocketsInv
  <2>3. ASSUME NEW s \in Sockets, socket'[s].state = "closed", socket'[s].room # Nowhere
        PROVE  s \notin rooms'[socket'[s].gateway][socket'[s].room]
    <3>1. socket'[s] \in Connections
      BY <1>3, <2>3 DEF Closed
    <3>2. socket'[s].gateway \in Gateways /\ socket'[s].room \in Rooms
      BY <2>3, <3>1 DEF Connections, Rooms
    <3>3. CASE socket[s].gateway = g
      BY <1>3, <1>5, <3>2, <3>3
    <3>4. CASE socket[s].gateway # g
      <4>1. socket'[s] = socket[s]
        BY <1>3, <3>4
      <4>2. s \notin rooms[socket[s].gateway][socket[s].room]
        BY <1>1, <2>3, <4>1 DEF SocketsInv, LastRoomLeft
      <4> QED
        BY <1>5, <3>2, <4>1, <4>2
    <3> QED
      BY <3>3, <3>4
  <2> QED
    BY <2>1, <2>2, <2>3 DEF SocketsInv, LastRoomLeft
<1>13. TypeOK'
  <2>1. UNCHANGED <<state, members, messages, got, shown, told, owed>>
    BY <1>1 DEF client
  <2>2. /\ state' \in [Conversations -> {"unused", "live", "deleted"}]
        /\ members' \subseteq Users \X {c \in Conversations : state'[c] = "live"}
        /\ messages' \in Seq(Stock)
        /\ Len(messages') <= MaxMessages
        /\ got' \in [Sockets -> Seq(Ids)]
        /\ shown' \in [Sockets -> [Ids -> Texts \cup {"unknown"}]]
        /\ told' \in [Sockets -> SUBSET Conversations]
        /\ owed' \in [Sockets -> SUBSET Frames]
    BY <1>1, <2>1 DEF TypeOK, Stock
  <2>3. socket' \in [Sockets -> [state : {"open", "broken", "closed"}, gateway : Gateways,
                                 user : Users, room : ConvRooms \cup {Nowhere}] \cup {Closed}]
    BY <1>4 DEF Connections
  <2>4. wire' \in [Gateways -> [Gateways -> Seq([room : Rooms, frame : Frames])]]
    BY <1>6 DEF Publications
  <2> QED
    BY <1>5, <1>8, <1>9, <2>2, <2>3, <2>4 DEF TypeOK, Stock
<1>14. \A t \in Sockets : task'[t].pc = "done" /\ Stores(task'[t]) =>
         task[t].pc = "done" /\ Stores(task[t]) /\ task'[t].msg = task[t].msg
  BY <1>1, <1>8
<1> QED
  BY <1>7, <1>10, <1>11, <1>12, <1>13, <1>14, QuietKeeps

-----------------------------------------------------------------------------
(* The theorems                                                            *)

LEMMA InvariantStarts == Init => GatewayInv
<1> SUFFICES ASSUME Init PROVE GatewayInv
  OBVIOUS
<1>1. TypeOK
  <2>1. /\ state \in [Conversations -> {"unused", "live", "deleted"}]
        /\ members \subseteq Users \X {c \in Conversations : state[c] = "live"}
        /\ messages \in Seq(Stock)
        /\ Len(messages) <= MaxMessages
    BY GatewayAssumption DEF Init, GatewayAssumption
  <2>2. /\ late \in [Tasks -> Request \cup {Idle}] /\ task \in [Tasks -> Request \cup {Idle}]
        /\ rooms \in [Gateways -> [Rooms -> SUBSET Sockets]]
        /\ told \in [Sockets -> SUBSET Conversations]
        /\ owed \in [Sockets -> SUBSET Frames]
    BY DEF Init
  <2>3. socket \in [Sockets -> [state : {"open", "broken", "closed"}, gateway : Gateways,
                                user : Users, room : ConvRooms \cup {Nowhere}] \cup {Closed}]
    BY DEF Init
  <2>4. <<>> \in Seq([room : Rooms, frame : Frames]) /\ <<>> \in Seq(Ids)
    OBVIOUS
  <2>5. /\ wire \in [Gateways -> [Gateways -> Seq([room : Rooms, frame : Frames])]]
        /\ got \in [Sockets -> Seq(Ids)]
    BY <2>4 DEF Init
  <2>6. shown \in [Sockets -> [Ids -> Texts \cup {"unknown"}]]
    BY DEF Init
  <2> QED
    BY <2>1, <2>2, <2>3, <2>5, <2>6 DEF TypeOK, Stock
<1>2. RequestsInv
  BY DEF Init, RequestsInv
<1>3. SocketsInv
  <2>1. /\ \A s \in Sockets : task[s] = Idle /\ socket[s] = Closed
        /\ \A g \in Gateways, r \in Rooms : rooms[g][r] = {}
    BY DEF Init, Tasks
  <2> QED
    BY <2>1 DEF SocketsInv, LastRoomLeft, Closed
<1>4. /\ \A p, g \in Gateways : wire[p][g] = <<>> /\ DOMAIN wire[p][g] = {}
      /\ \A s \in Sockets : got[s] = <<>> /\ DOMAIN got[s] = {}
      /\ \A t \in Tasks : task[t].pc # "done"
  BY DEF Init, Idle
<1>5. PublishedInv
  BY <1>4 DEF PublishedInv
<1>6. OrderInv
  BY <1>4 DEF OrderInv, SenderOrder, Tasks
<1> QED
  BY <1>1, <1>2, <1>3, <1>5, <1>6 DEF GatewayInv

LEMMA InvariantKept == GatewayInv /\ [Next]_vars => GatewayInv'
<1> SUFFICES ASSUME GatewayInv, [Next]_vars PROVE GatewayInv'
  OBVIOUS
<1>1. CASE UNCHANGED vars
  <2>1. UNCHANGED <<state, members, messages, late, socket, rooms, task, wire, got, shown, told, owed>>
    BY <1>1 DEF vars
  <2>2. TypeOK'
    BY <2>1 DEF GatewayInv, TypeOK
  <2>3. RequestsInv' /\ SocketsInv'
    BY <2>1 DEF GatewayInv, RequestsInv, About, Done, SocketsInv, LastRoomLeft
  <2>4. MessagesAge /\ GatewaysKept /\ Drained
    BY <2>1 DEF MessagesAge, GatewaysKept, Drained
  <2>5. \A t \in Sockets : task'[t] = task[t]
    BY <2>1
  <2> QED
    BY <2>1, <2>2, <2>3, <2>4, <2>5, QuietKeeps
<1>2. CASE \E s \in Sockets : Open(s) \/ Break(s) \/ Close(s) \/ SocketAsks(s) \/ Typing(s)
  BY <1>2, OpenKeeps, BreakKeeps, CloseKeeps, SocketAsksKeeps, TypingKeeps
<1>3. CASE \E t \in Clients : HttpAsks(t)
  BY <1>3, HttpAsksKeeps
<1>4. CASE \/ \E u \in Users, c \in Conversations : RemoveGroupMember(u, c)
           \/ \E c \in Conversations : DeleteGroup(c)
           \/ \E m \in DOMAIN messages : Delete(m)
  BY <1>4, UntoldKeeps
<1>5. CASE \E t \in Tasks : Serve(t) \/ ServeLate(t) \/ Conclude(t) \/ TimeOut(t)
  BY <1>5, ServeKeeps, ServeLateKeeps, ConcludeKeeps, TimeOutKeeps
<1>6. CASE \E p, g \in Gateways : Deliver(p, g) \/ Lose(p, g)
  BY <1>6, DeliverKeeps, LoseKeeps
<1>7. CASE \E g \in Gateways : Crash(g)
  BY <1>7, CrashKeeps
<1> QED
  BY <1>1, <1>2, <1>3, <1>4, <1>5, <1>6, <1>7 DEF Next

(* In every reachable state of the gateways and of what they asked for,    *)
(* requests, connections, publications and their order agree.              *)
THEOREM InvariantHolds == Spec => []GatewayInv
BY InvariantStarts, InvariantKept, PTL DEF Spec

(* The hubs, the connections, the requests and the wires stay well formed. *)
THEOREM GatewayTyped == Spec => []TypeOK
<1>1. GatewayInv => TypeOK
  BY DEF GatewayInv
<1> QED
  BY <1>1, InvariantHolds, PTL

(* OnClose leaves the room that was joined last, even if the connection    *)
(* breaks while a join waits for its answer (ws/handler.go:77).            *)
THEOREM ClosingLeavesLastRoom == Spec => []LastRoomLeft
<1>1. GatewayInv => LastRoomLeft
  BY DEF GatewayInv, SocketsInv
<1> QED
  BY <1>1, InvariantHolds, PTL

(* A message or an edit is published, and so shown, only with a text that  *)
(* was stored for that message, and only in a room of its conversation:    *)
(* what was refused, or was stored too late for its answer to be read, is  *)
(* not (ws/handler.go:234, modules/message/handler.go:408).                *)
THEOREM ShownOnlyStored == Spec => []ShownStored
<1>1. GatewayInv => ShownStored
  BY DEF GatewayInv, PublishedInv, ShownStored, Pending
<1> QED
  BY <1>1, InvariantHolds, PTL

(* Every client gets the messages of one socket in the order in which they *)
(* were stored, and each of them once, across gateways and losses.         *)
THEOREM SendersInOrder == Spec => []SenderOrder
<1>1. GatewayInv => SenderOrder
  BY DEF GatewayInv, OrderInv
<1> QED
  BY <1>1, InvariantHolds, PTL

(* A socket enters a conversation's room only through a join that was      *)
(* answered, so that its user was a member after asking                    *)
(* (ws/handler.go:104), whichever way the room is named.                   *)
THEOREM JoinsAsked == Spec => JoinsByMembers
<1> DEFINE Entered == \A s \in Sockets, g \in Gateways, r \in ConvRooms :
                        s \in rooms'[g][r] \ rooms[g][r]
                          => task[s].does = "join" /\ task[s].room = r /\ task[s].held
<1>1. GatewayInv /\ [Next]_vars => [Entered]_vars
  <2> SUFFICES ASSUME GatewayInv, [Next]_vars, NEW s \in Sockets, NEW g \in Gateways,
                      NEW r \in ConvRooms, s \in rooms'[g][r], s \notin rooms[g][r]
               PROVE  task[s].does = "join" /\ task[s].room = r /\ task[s].held
    OBVIOUS
  <2>1. /\ rooms \in [Gateways -> [Rooms -> SUBSET Sockets]] /\ r \in Rooms
        /\ socket \in [Sockets -> Connections \cup {Closed}]
    BY Rests DEF GatewayInv, Rooms
  <2>2. CASE \E t \in Sockets : Open(t)
    <3> PICK t \in Sockets, h \in Gateways, u \in Users : Join(h, <<"user", u>>, t)
      BY <2>2 DEF Open
    <3>1. <<"user", u>> # r
      BY GatewayAssumption DEF ConvRooms, GatewayAssumption
    <3>2. rooms'[g][r] = rooms[g][r]
      BY <2>1, <3>1 DEF Join
    <3> QED
      BY <3>2
  <2>3. CASE \E t \in Sockets : Close(t)
    <3> PICK t \in Sockets : socket[t].state = "broken" /\ Left(t)
      BY <2>3 DEF Close
    <3>1. rooms'[g][r] \subseteq rooms[g][r]
      BY <2>1 DEF Left, Leave
    <3> QED
      BY <3>1
  <2>4. CASE \E t \in Tasks : Conclude(t)
    <3> PICK t \in Tasks : Conclude(t)
      BY <2>4
    <3>1. rooms' # rooms
      OBVIOUS
    <3>2. /\ task[t].does = "join" /\ task[t].pc = "done" /\ task[t] # Idle
          /\ Join(task[t].gateway, task[t].room, t)
      BY <3>1 DEF Conclude, Idle
    <3>3. task[t].held
      BY <3>2 DEF GatewayInv, RequestsInv, Done
    <3>4. t = s /\ task[t].room = r
      BY <2>1, <3>2 DEF Join
    <3> QED
      BY <3>2, <3>3, <3>4
  <2>5. CASE \E h \in Gateways : Crash(h)
    <3>1. rooms'[g][r] \subseteq rooms[g][r]
      BY <2>1, <2>5 DEF Crash
    <3> QED
      BY <3>1
  <2>6. CASE rooms' = rooms
    BY <2>6
  <2>7. \/ \E t \in Sockets : Open(t) \/ Close(t)
        \/ \E t \in Tasks : Conclude(t)
        \/ \E h \in Gateways : Crash(h)
        \/ rooms' = rooms
    BY DEF Next, vars, Break, SocketAsks, Typing, HttpAsks, RemoveGroupMember, DeleteGroup,
           Delete, Serve, ServeLate, TimeOut, Deliver, Lose
  <2> QED
    BY <2>2, <2>3, <2>4, <2>5, <2>6, <2>7
<1>2. [][Entered]_vars <=> JoinsByMembers
  BY DEF JoinsByMembers
<1> QED
  BY <1>1, <1>2, InvariantHolds, PTL DEF Spec
=============================================================================
