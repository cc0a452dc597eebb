---------------------------- MODULE Notifications ----------------------------
(***************************************************************************)
(* The notification service: one Redis list per user, newest first, cut    *)
(* to maxPerUser entries and expiring after a week without a push.         *)
(*                                                                         *)
(* Users have lists of their own and a request names one user, so this is  *)
(* the list of one of them.  A handler is one subscription's callback in   *)
(* one replica.  It sends Redis a pipeline, which is a number of commands  *)
(* and not a transaction: commands of other handlers may come between.     *)
(*                                                                         *)
(* The client library repeats a pipeline whose answers do not arrive, and  *)
(* does not know how much of it was executed, or still will be: Redis goes *)
(* on with what it has received over a connection that was given up.       *)
(*                                                                         *)
(* notification.get only reads the list and is left out, as are the type   *)
(* and the payload of a notification.                                      *)
(***************************************************************************)
EXTENDS Naturals, Sequences, FiniteSets

CONSTANTS
    Replicas,    \* running copies of the notification service
    Subjects,    \* the subjects on which requests arrive
    MaxPerUser,  \* entries a list is cut to (100 in the code)
    MaxRetries,  \* times a pipeline is sent again (3, the library's default)
    Buffers,     \* bound: names for connections given up and not yet read out
    MaxSent,     \* bound: notifications that are sent
    Faults       \* what may go wrong: SUBSET {"cut", "crash", "expiry"}

SendSubjects == {"notification.send", "message.sent"}

Handlers == Replicas \X Subjects

ASSUME NotificationsAssumption ==
    /\ Subjects \subseteq SendSubjects \cup {"notification.read"}
    /\ MaxPerUser \in Nat \ {0}
    /\ MaxRetries \in Nat
    /\ MaxSent \in Nat
    /\ Faults \subseteq {"cut", "crash", "expiry"}
    \* the connections of a replica that stops break
    /\ "crash" \in Faults => "cut" \in Faults

VARIABLES
    list,      \* the Redis list, list[1] is index 0: the notification, its flag
    ttl,       \* the key has a time to live
    stray,     \* stray[b]: what Redis has left to execute of a given-up connection
    handler,   \* handler[h]: what h is doing
    sent,      \* notifications that were sent, which also names them
    pushed,    \* history: the notifications pushed since the list expired, in order
    mixed,     \* history: the last of these pushes that fell into a notification.read
    covered    \* history: those a successful notification.read has listed

vars == <<list, ttl, stray, handler, sent, pushed, mixed, covered>>

Ids   == 1 .. MaxSent
Entry == [id : Ids, read : BOOLEAN]

Commands == [op : {"LPUSH"}, entry : Entry]
            \cup [op : {"LTRIM", "EXPIRE"}]
            \cup [op : {"LSET"}, index : Nat, entry : Entry]

(* cmds: the pipeline; done: how many of its commands Redis has executed   *)
(* in this attempt; failed: one of them has failed; tries: how often it    *)
(* may still be sent again; listed (history): the pushes whose entries a   *)
(* notification.read is marking.                                           *)
Idle == [pc |-> "idle", cmds |-> <<>>, done |-> 0, failed |-> FALSE, tries |-> 0, listed |-> {}]

TypeOK ==
    /\ list \in Seq(Entry)
    /\ ttl \in BOOLEAN
    /\ stray \in [Buffers -> Seq(Commands)]
    /\ handler \in [Handlers -> [pc : {"idle", "range", "pipeline"}, cmds : Seq(Commands),
                                 done : Nat, failed : BOOLEAN, tries : 0 .. MaxRetries,
                                 listed : SUBSET (1 .. Len(pushed))]]
    /\ \A h \in Handlers : handler[h].done <= Len(handler[h].cmds)
    /\ sent \in 0 .. MaxSent
    /\ pushed \in Seq(Ids)
    /\ mixed \in 0 .. Len(pushed)
    /\ covered \subseteq 1 .. Len(pushed)

Init ==
    /\ list = <<>>
    /\ ttl = FALSE
    /\ stray = [b \in Buffers |-> <<>>]
    /\ handler = [h \in Handlers |-> Idle]
    /\ sent = 0
    /\ pushed = <<>>
    /\ mixed = 0
    /\ covered = {}

(* The push that put its entry to position i of the list. *)
Serial(i) == Len(pushed) + 1 - i

redis   == <<list, ttl>>
history == <<pushed, mixed>>

-----------------------------------------------------------------------------
(* Handlers                                                                *)

(* Mutant: the identifier of the notification is not filled in. *)
SendPipelineMutant(n) ==
    <<[op |-> "LPUSH", entry |-> [id |-> 0, read |-> FALSE]],
      [op |-> "LTRIM"], [op |-> "EXPIRE"]>>

SendPipeline(n) ==
    <<[op |-> "LPUSH", entry |-> [id |-> n, read |-> FALSE]],
      [op |-> "LTRIM"], [op |-> "EXPIRE"]>>

Exec(h, cmds, listed) ==
    handler' = [handler EXCEPT ![h] = [pc |-> "pipeline", cmds |-> cmds, done |-> 0,
                                       failed |-> FALSE, tries |-> MaxRetries, listed |-> listed]]

Send(h) ==
    /\ h[2] \in SendSubjects
    /\ handler[h] = Idle
    /\ sent < MaxSent
    /\ sent' = sent + 1
    /\ Exec(h, SendPipeline(sent + 1), {})
    /\ UNCHANGED <<redis, history, stray, covered>>

MarkRead(h) ==
    /\ h[2] = "notification.read"
    /\ handler[h] = Idle
    /\ handler' = [handler EXCEPT ![h].pc = "range"]
    /\ UNCHANGED <<redis, history, stray, sent, covered>>

(* Mutant: entries that are read already are skipped and so not counted.   *)
MarksMutant ==
    LET unread == SelectSeq(list, LAMBDA e : ~e.read)
    IN [i \in DOMAIN unread |->
          [op |-> "LSET", index |-> i, entry |-> [unread[i] EXCEPT !.read = TRUE]]]

(* Every entry is written back as read to the index it was listed at.      *)
Marks == [i \in DOMAIN list |->
            [op |-> "LSET", index |-> i, entry |-> [list[i] EXCEPT !.read = TRUE]]]

(* LRANGE 0 -1; an empty pipeline is never sent and succeeds. *)
LRange(h) ==
    /\ handler[h].pc = "range"
    /\ Exec(h, Marks, {Serial(i) : i \in DOMAIN list})
    /\ UNCHANGED <<redis, history, stray, sent, covered>>

(* Exec returns the first error of the pipeline, if there is one. *)
Answer(h) ==
    LET q == handler[h] IN
    /\ q.pc = "pipeline" /\ q.done = Len(q.cmds)
    /\ covered' = IF q.failed THEN covered ELSE covered \cup q.listed
    /\ handler' = [handler EXCEPT ![h] = Idle]
    /\ UNCHANGED <<redis, history, stray, sent>>

-----------------------------------------------------------------------------
(* Redis executes command c.                                               *)

(* Positions that were listed may still be written to. *)
Marking ==
    \/ \E h \in Handlers : \E k \in DOMAIN handler[h].cmds : handler[h].cmds[k].op = "LSET"
    \/ \E b \in Buffers : \E k \in DOMAIN stray[b] : stray[b][k].op = "LSET"

LPush(c) ==
    /\ c.op = "LPUSH"
    /\ list' = <<c.entry>> \o list
    /\ pushed' = Append(pushed, c.entry.id)
    /\ mixed' = IF Marking THEN Len(pushed) + 1 ELSE mixed
    /\ UNCHANGED ttl

Trimmed(s) == IF Len(s) <= MaxPerUser THEN s ELSE SubSeq(s, 1, MaxPerUser)

LTrim(c) ==
    /\ c.op = "LTRIM"
    /\ list' = Trimmed(list)
    /\ UNCHANGED <<ttl, history>>

Expire(c) ==
    /\ c.op = "EXPIRE"
    /\ ttl' = (list # <<>>)
    /\ UNCHANGED <<list, history>>

LSet(c) ==
    /\ c.op = "LSET"
    /\ list' = IF c.index <= Len(list) THEN [list EXCEPT ![c.index] = c.entry] ELSE list
    /\ UNCHANGED <<ttl, history>>

Execute(c) == LPush(c) \/ LTrim(c) \/ Expire(c) \/ LSet(c)

(* The index is out of range, or there is no list. *)
Fails(c) == c.op = "LSET" /\ c.index > Len(list)

(* The next command of the pipeline of h. *)
Run(h) ==
    LET q == handler[h]
        c == q.cmds[q.done + 1]
    IN
    /\ q.done < Len(q.cmds)
    /\ Execute(c)
    /\ handler' = [handler EXCEPT ![h].done = @ + 1, ![h].failed = @ \/ Fails(c)]
    /\ UNCHANGED <<stray, sent, covered>>

(* The next command of a connection that its client has given up. *)
RunStray(b) ==
    /\ stray[b] # <<>>
    /\ Execute(Head(stray[b]))
    /\ stray' = [stray EXCEPT ![b] = Tail(@)]
    /\ UNCHANGED <<handler, sent, covered>>

-----------------------------------------------------------------------------
(* What goes wrong                                                         *)

(* The connection breaks or its answers take too long.  Redis has received *)
(* some of the pipeline, may be all of it, and executes that sooner or     *)
(* later.  The client sends the pipeline once more, from the beginning,    *)
(* unless it has done so often enough.                                     *)
Cut(h) ==
    LET q == handler[h] IN
    /\ "cut" \in Faults
    /\ q.pc = "pipeline" /\ q.cmds # <<>>
    /\ \/ UNCHANGED stray
       \/ \E b \in Buffers, n \in q.done + 1 .. Len(q.cmds) :
            /\ stray[b] = <<>>
            /\ stray' = [stray EXCEPT ![b] = SubSeq(q.cmds, q.done + 1, n)]
    /\ handler' = [handler EXCEPT ![h] =
         IF q.tries = 0 THEN Idle
         ELSE [q EXCEPT !.done = 0, !.failed = FALSE, !.tries = q.tries - 1]]
    /\ UNCHANGED <<redis, history, sent, covered>>

(* LRANGE has been tried often enough. *)
RangeFails(h) ==
    /\ "cut" \in Faults
    /\ handler[h].pc = "range"
    /\ handler' = [handler EXCEPT ![h] = Idle]
    /\ UNCHANGED <<redis, history, stray, sent, covered>>

(* A replica stops.  What Redis has received of it is left by a Cut that   *)
(* comes first.                                                            *)
Crash(r) ==
    /\ "crash" \in Faults
    /\ handler' = [h \in Handlers |-> IF h[1] = r THEN Idle ELSE handler[h]]
    /\ UNCHANGED <<redis, history, stray, sent, covered>>

(* A week has passed since the last push. *)
Expiry ==
    /\ "expiry" \in Faults
    /\ ttl
    /\ list' = <<>>
    /\ ttl' = FALSE
    /\ pushed' = <<>>
    /\ mixed' = 0
    /\ covered' = {}
    /\ handler' = [h \in Handlers |-> [handler[h] EXCEPT !.listed = {}]]
    /\ UNCHANGED <<stray, sent>>

-----------------------------------------------------------------------------
Next == \/ \E h \in Handlers : \/ Send(h) \/ MarkRead(h) \/ LRange(h) \/ Run(h) \/ Answer(h)
                               \/ Cut(h) \/ RangeFails(h)
        \/ \E b \in Buffers : RunStray(b)
        \/ \E r \in Replicas : Crash(r)
        \/ Expiry

Spec == Init /\ [][Next]_vars

-----------------------------------------------------------------------------
(* Properties                                                              *)

(* Nothing is missing but what MaxPerUser newer pushes have pushed out,    *)
(* whatever is trimmed, repeated or cut off, and by whom.                  *)
NoneMissing ==
    /\ Len(list) <= Len(pushed)
    /\ Len(list) < Len(pushed) => Len(list) >= MaxPerUser

(* Entry i is that of its push, and read if a notification.read that has   *)
(* listed it succeeded (notification_subscriber.go:43, "marquer toutes les *)
(* notifs d'un user comme lues").                                          *)
InOrder(i) ==
    /\ list[i].id = pushed[Serial(i)]
    /\ Serial(i) \in covered => list[i].read

(* Marking as read writes by position, to where the entries were when they *)
(* were listed.  The harm that a push in between does ends with it: what   *)
(* is pushed afterwards is neither lost nor moved nor left unread,         *)
(* although pipelines are sent again, commands of connections that were    *)
(* given up are executed late, and lists are trimmed and expire.           *)
ListSound ==
    NoneMissing /\ \A i \in DOMAIN list : Serial(i) > mixed => InOrder(i)

=============================================================================
