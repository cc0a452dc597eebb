------------------------- MODULE NotificationsProofs -------------------------
(* Theorems about Notifications, for every set of replicas, any length of  *)
(* the list, any number of notifications, of repetitions and of connections*)
(* that are given up, and any faults.                                      *)
EXTENDS Notifications, SequenceTheorems, TLAPS

-----------------------------------------------------------------------------
(* The inductive invariant                                                 *)
(*                                                                         *)
(* l is the list, p what was pushed, m the last push that was mixed into a *)
(* reading.                                                                *)

(* Command c marks as read what it finds at its position, unless that was  *)
(* pushed when pushes and readings were mixed.                             *)
Placed(c, p, m) ==
    c.op = "LSET" =>
      /\ c.index > 0 /\ c.entry.read
      /\ Len(p) + 1 - c.index > m => c.entry.id = p[Len(p) + 1 - c.index]

(* q is a notification.read that has found something to mark. *)
Reading(q) == q.cmds # <<>> /\ q.cmds[1].op = "LSET"

(* A reading has a command for every position, for whatever it has listed, *)
(* and what it has done in this attempt is read.                           *)
HandlerOK(q, l, p, m) ==
    /\ \A k \in DOMAIN q.cmds :
         /\ Placed(q.cmds[k], p, m)
         /\ Reading(q) => q.cmds[k].op = "LSET" /\ q.cmds[k].index = k
         /\ ~Reading(q) => q.cmds[k].op # "LSET"
    /\ q.listed # {} => Reading(q)
    /\ \A s \in q.listed : s > m => Len(p) + 1 - s \in DOMAIN q.cmds
    /\ Reading(q) => \A k \in 1 .. q.done : k \in DOMAIN l /\ Len(p) + 1 - k > m => l[k].read

StrayOK(s, p, m) == \A k \in DOMAIN s : Placed(s[k], p, m)

ListInv ==
    /\ TypeOK
    /\ ListSound
    /\ \A h \in Handlers : HandlerOK(handler[h], list, pushed, mixed)
    /\ \A b \in Buffers : StrayOK(stray[b], pushed, mixed)

-----------------------------------------------------------------------------
(* Commands, pipelines and handlers                                        *)

(* A handler when n notifications have been pushed. *)
Handler(n) == [pc : {"idle", "range", "pipeline"}, cmds : Seq(Commands), done : Nat,
               failed : BOOLEAN, tries : 0 .. MaxRetries, listed : SUBSET (1 .. n)]

LEMMA CommandHas ==
    ASSUME NEW c \in Commands
    PROVE  /\ c.op \in {"LPUSH", "LTRIM", "EXPIRE", "LSET"}
           /\ c.op = "LPUSH" => c.entry \in Entry
           /\ c.op = "LSET" => c.entry \in Entry /\ c.index \in Nat
BY DEF Commands

LEMMA IdleHas ==
    /\ Idle.cmds = <<>> /\ Idle.listed = {} /\ Idle.done = 0
    /\ \A n \in Nat : Idle \in Handler(n)
<1>1. <<>> \in Seq(Commands)
  BY EmptySeq
<1> QED
  BY <1>1, NotificationsAssumption DEF NotificationsAssumption, Idle, Handler

LEMMA PipelineHas ==
    ASSUME NEW n \in Ids
    PROVE  /\ SendPipeline(n) \in Seq(Commands)
           /\ SendPipeline(n) # <<>>
           /\ \A k \in DOMAIN SendPipeline(n) : SendPipeline(n)[k].op # "LSET"
<1>1. [op |-> "LPUSH", entry |-> [id |-> n, read |-> FALSE]] \in Commands
  BY DEF Commands, Entry
<1>2. [op |-> "LTRIM"] \in Commands /\ [op |-> "EXPIRE"] \in Commands
  BY DEF Commands
<1> QED
  BY <1>1, <1>2 DEF SendPipeline

LEMMA MarksHas ==
    ASSUME TypeOK
    PROVE  /\ Marks \in Seq(Commands) /\ DOMAIN Marks = DOMAIN list
           /\ \A i \in DOMAIN list :
                /\ Marks[i].op = "LSET" /\ Marks[i].index = i
                /\ Marks[i].entry.read /\ Marks[i].entry.id = list[i].id
<1>1. list \in Seq(Entry) /\ Len(list) \in Nat /\ DOMAIN list = 1 .. Len(list)
  BY DEF TypeOK
<1>2. ASSUME NEW i \in DOMAIN list
      PROVE  [op |-> "LSET", index |-> i, entry |-> [list[i] EXCEPT !.read = TRUE]] \in Commands
  <2>1. list[i] \in Entry /\ i \in Nat
    BY <1>1
  <2>2. [list[i] EXCEPT !.read = TRUE] \in Entry
    BY <2>1 DEF Entry
  <2> QED
    BY <2>1, <2>2 DEF Commands
<1>3. Marks \in [1 .. Len(list) -> Commands]
  BY <1>1, <1>2 DEF Marks
<1>4. ASSUME NEW i \in DOMAIN list
      PROVE  /\ Marks[i].op = "LSET" /\ Marks[i].index = i
             /\ Marks[i].entry.read /\ Marks[i].entry.id = list[i].id
  <2>1. list[i] \in Entry
    BY <1>1
  <2>2. list[i] \in [id : Ids, read : BOOLEAN]
    BY <2>1 DEF Entry
  <2>3. Marks[i] = [op |-> "LSET", index |-> i, entry |-> [list[i] EXCEPT !.read = TRUE]]
    BY DEF Marks
  <2> QED
    BY <2>2, <2>3
<1>5. Marks \in Seq(Commands)
  BY <1>1, <1>3, SeqDef
<1>6. DOMAIN Marks = DOMAIN list
  BY DEF Marks
<1> QED
  BY <1>4, <1>5, <1>6

LEMMA TrimmedHas ==
    ASSUME NEW s \in Seq(Entry)
    PROVE  /\ Trimmed(s) \in Seq(Entry)
           /\ \A i \in DOMAIN Trimmed(s) : i \in DOMAIN s /\ Trimmed(s)[i] = s[i]
           /\ Len(Trimmed(s)) = Len(s) \/ Len(Trimmed(s)) = MaxPerUser
BY NotificationsAssumption DEF NotificationsAssumption, Trimmed

LEMMA PrependHas ==
    ASSUME NEW s \in Seq(Entry), NEW e \in Entry
    PROVE  /\ <<e>> \o s \in Seq(Entry) /\ Len(<<e>> \o s) = Len(s) + 1
           /\ (<<e>> \o s)[1] = e
           /\ \A i \in DOMAIN (<<e>> \o s) :
                i # 1 => i - 1 \in DOMAIN s /\ (<<e>> \o s)[i] = s[i - 1]
OBVIOUS

LEMMA ReplacedHas ==
    ASSUME NEW s \in Seq(Entry), NEW e \in Entry, NEW k \in DOMAIN s
    PROVE  /\ [s EXCEPT ![k] = e] \in Seq(Entry)
           /\ Len([s EXCEPT ![k] = e]) = Len(s)
           /\ DOMAIN [s EXCEPT ![k] = e] = DOMAIN s
           /\ [s EXCEPT ![k] = e][k] = e
           /\ \A i \in DOMAIN s : i # k => [s EXCEPT ![k] = e][i] = s[i]
<1>1. s \in [1 .. Len(s) -> Entry] /\ Len(s) \in Nat
  OBVIOUS
<1>2. [s EXCEPT ![k] = e] \in [1 .. Len(s) -> Entry]
  BY <1>1
<1>3. [s EXCEPT ![k] = e] \in Seq(Entry)
  BY <1>1, <1>2, SeqDef
<1>4. DOMAIN [s EXCEPT ![k] = e] = 1 .. Len(s)
  BY <1>2
<1>5. Len([s EXCEPT ![k] = e]) = Len(s)
  BY <1>1, <1>3, <1>4, LenProperties
<1> QED
  BY <1>1, <1>3, <1>4, <1>5

LEMMA HandlerHas ==
    ASSUME TypeOK, NEW h \in Handlers
    PROVE  /\ handler[h] \in Handler(Len(pushed))
           /\ handler[h].cmds \in Seq(Commands)
           /\ handler[h].done \in Nat /\ handler[h].done <= Len(handler[h].cmds)
           /\ handler[h].listed \subseteq 1 .. Len(pushed)
           /\ handler[h].done < Len(handler[h].cmds) =>
                /\ handler[h].done + 1 \in DOMAIN handler[h].cmds
                /\ handler[h].cmds[handler[h].done + 1] \in Commands
<1>1. handler[h] \in Handler(Len(pushed)) /\ handler[h].done <= Len(handler[h].cmds)
  BY DEF TypeOK, Handler
<1>2. /\ handler[h].cmds \in Seq(Commands) /\ handler[h].done \in Nat
      /\ handler[h].listed \subseteq 1 .. Len(pushed)
  BY <1>1 DEF Handler
<1> QED
  BY <1>1, <1>2

LEMMA StrayHas ==
    ASSUME TypeOK, NEW b \in Buffers, stray[b] # <<>>
    PROVE  /\ stray[b] \in Seq(Commands) /\ Head(stray[b]) \in Commands
           /\ Head(stray[b]) = stray[b][1] /\ 1 \in DOMAIN stray[b]
           /\ Tail(stray[b]) \in Seq(Commands)
           /\ \A k \in DOMAIN Tail(stray[b]) :
                k + 1 \in DOMAIN stray[b] /\ Tail(stray[b])[k] = stray[b][k + 1]
<1>1. stray[b] \in Seq(Commands)
  BY DEF TypeOK
<1>2. /\ Tail(stray[b]) \in Seq(Commands) /\ Len(Tail(stray[b])) = Len(stray[b]) - 1
      /\ \A k \in 1 .. Len(Tail(stray[b])) : Tail(stray[b])[k] = stray[b][k + 1]
  BY <1>1, HeadTailProperties
<1>3. \A k \in DOMAIN Tail(stray[b]) : k + 1 \in DOMAIN stray[b]
  BY <1>1, <1>2
<1> QED
  BY <1>1, <1>2, <1>3

(* What a Cut leaves of a pipeline. *)
LEMMA RestHas ==
    ASSUME NEW s \in Seq(Commands), NEW d \in Nat, NEW n \in d + 1 .. Len(s)
    PROVE  /\ SubSeq(s, d + 1, n) \in Seq(Commands)
           /\ \A k \in DOMAIN SubSeq(s, d + 1, n) :
                d + k \in DOMAIN s /\ SubSeq(s, d + 1, n)[k] = s[d + k]
OBVIOUS

(* The command that a handler has Redis execute. *)
LEMMA RunHas ==
    ASSUME TypeOK, NEW h \in Handlers, Run(h)
    PROVE  /\ handler[h].done + 1 \in DOMAIN handler[h].cmds
           /\ handler[h].cmds[handler[h].done + 1] \in Commands
           /\ handler'[h].cmds = handler[h].cmds /\ handler'[h].listed = handler[h].listed
           /\ handler'[h].done = handler[h].done + 1
           /\ handler'[h].done <= Len(handler'[h].cmds)
           /\ handler'[h] \in Handler(Len(pushed))
           /\ \A g \in Handlers \ {h} : handler'[g] = handler[g]
           /\ handler' \in [Handlers -> Handler(Len(pushed))]
<1> DEFINE q == handler[h]
           c == q.cmds[q.done + 1]
<1>1. handler \in [Handlers -> Handler(Len(pushed))] /\ q \in Handler(Len(pushed))
  BY DEF TypeOK, Handler
<1>2. PICK f \in BOOLEAN : f = (q.failed \/ Fails(c))
  <2>1. q.failed \in BOOLEAN
    BY <1>1 DEF Handler
  <2> QED
    BY <2>1
<1>3. handler' = [handler EXCEPT ![h].done = q.done + 1, ![h].failed = f] /\ q.done < Len(q.cmds)
  BY <1>2 DEF Run
<1>4. /\ handler'[h] = [q EXCEPT !.done = q.done + 1, !.failed = f]
      /\ \A g \in Handlers \ {h} : handler'[g] = handler[g]
  BY <1>1, <1>3
<1>5. q.cmds \in Seq(Commands) /\ q.done \in Nat
  BY <1>1 DEF Handler
<1>6. /\ handler'[h] \in Handler(Len(pushed)) /\ handler'[h].cmds = q.cmds
      /\ handler'[h].listed = q.listed /\ handler'[h].done = q.done + 1
  <2> DEFINE d == q.done + 1
  <2>1. d \in Nat /\ handler'[h] = [[q EXCEPT !.done = d] EXCEPT !.failed = f]
    BY <1>4, <1>5
  <2> HIDE DEF d, q
  <2>2. [q EXCEPT !.done = d] \in Handler(Len(pushed))
    BY <1>1, <2>1 DEF Handler
  <2>3. [[q EXCEPT !.done = d] EXCEPT !.failed = f] \in Handler(Len(pushed))
    BY <2>2 DEF Handler
  <2>4. handler'[h].cmds = q.cmds /\ handler'[h].listed = q.listed /\ handler'[h].done = d
    BY <1>1, <2>1 DEF Handler
  <2> QED
    BY <2>1, <2>3, <2>4 DEF d
<1>7. q.done + 1 \in DOMAIN q.cmds /\ c \in Commands /\ q.done + 1 <= Len(q.cmds)
  BY <1>3, <1>5
<1>8. handler' \in [Handlers -> Handler(Len(pushed))]
  BY <1>1, <1>3, <1>4, <1>6
<1> QED
  BY <1>4, <1>6, <1>7, <1>8

LEMMA Grows ==
    ASSUME NEW m \in Nat, NEW n \in Nat, m <= n
    PROVE  /\ \A q \in Handler(m) : q \in Handler(n)
           /\ \A f \in [Handlers -> Handler(m)] : f \in [Handlers -> Handler(n)]
<1>1. \A s \in SUBSET (1 .. m) : s \in SUBSET (1 .. n)
  OBVIOUS
<1>2. \A q \in Handler(m) : q \in Handler(n)
  BY <1>1 DEF Handler
<1> QED
  BY <1>2

-----------------------------------------------------------------------------
(* The types                                                               *)

LEMMA TypesStart == Init => TypeOK
<1> SUFFICES ASSUME Init PROVE TypeOK
  OBVIOUS
<1>1. /\ list = <<>> /\ pushed = <<>> /\ ttl = FALSE /\ covered = {} /\ mixed = 0 /\ sent = 0
      /\ handler = [h \in Handlers |-> Idle] /\ stray = [b \in Buffers |-> <<>>]
  BY DEF Init
<1>2. list \in Seq(Entry) /\ pushed \in Seq(Ids) /\ Len(pushed) = 0
  BY <1>1, EmptySeq
<1>3. handler \in [Handlers -> Handler(Len(pushed))]
  BY <1>1, <1>2, IdleHas
<1>4. \A h \in Handlers : handler[h].done <= Len(handler[h].cmds)
  BY <1>1, IdleHas
<1>5. stray \in [Buffers -> Seq(Commands)]
  BY <1>1, EmptySeq
<1>6. sent \in 0 .. MaxSent
  BY <1>1, NotificationsAssumption DEF NotificationsAssumption
<1>7. mixed \in 0 .. Len(pushed) /\ covered \subseteq 1 .. Len(pushed)
  <2>1. mixed = 0 /\ covered = {} /\ Len(pushed) = 0
    BY <1>1, <1>2
  <2> QED
    BY <2>1
<1>8. ttl \in BOOLEAN
  BY <1>1
<1> QED
  BY <1>2, <1>3, <1>4, <1>5, <1>6, <1>7, <1>8 DEF TypeOK, Handler

(* A command makes of a list a list, and of the histories longer ones. *)
LEMMA ExecuteTypes ==
    ASSUME TypeOK, NEW c \in Commands, Execute(c)
    PROVE  /\ list' \in Seq(Entry) /\ ttl' \in BOOLEAN
           /\ pushed' \in Seq(Ids) /\ mixed' \in 0 .. Len(pushed')
           /\ Len(pushed) \in Nat /\ Len(pushed') \in Nat /\ Len(pushed) <= Len(pushed')
<1>0. /\ list \in Seq(Entry) /\ ttl \in BOOLEAN /\ pushed \in Seq(Ids)
      /\ mixed \in 0 .. Len(pushed) /\ Len(pushed) \in Nat
  BY DEF TypeOK
<1>1. CASE LPush(c)
  <2>1. c.entry \in Entry /\ c.entry.id \in Ids
    BY <1>1, CommandHas DEF LPush, Entry
  <2>2. list' = <<c.entry>> \o list /\ pushed' = Append(pushed, c.entry.id) /\ ttl' = ttl
    BY <1>1 DEF LPush
  <2>3. mixed' = Len(pushed) + 1 \/ mixed' = mixed
    BY <1>1 DEF LPush
  <2>4. pushed' \in Seq(Ids) /\ Len(pushed') = Len(pushed) + 1
    BY <1>0, <2>1, <2>2
  <2>5. list' \in Seq(Entry)
    BY <1>0, <2>1, <2>2
  <2> QED
    BY <1>0, <2>2, <2>3, <2>4, <2>5
<1>2. CASE LTrim(c)
  BY <1>0, <1>2, TrimmedHas DEF LTrim, history
<1>3. CASE Expire(c)
  BY <1>0, <1>3 DEF Expire, history
<1>4. CASE LSet(c)
  <2>1. c.entry \in Entry /\ c.index \in Nat
    BY <1>4, CommandHas DEF LSet
  <2>2. ttl' = ttl /\ pushed' = pushed /\ mixed' = mixed
    BY <1>4 DEF LSet, history
  <2>3. list' \in Seq(Entry)
    <3>1. CASE c.index <= Len(list)
      <4> DEFINE k == c.index
                 e == c.entry
      <4>1. list' = [list EXCEPT ![k] = e] /\ e \in Entry
        BY <1>4, <2>1, <3>1 DEF LSet
      <4>2. list \in [1 .. Len(list) -> Entry] /\ Len(list) \in Nat
        BY <1>0
      <4> HIDE DEF k, e
      <4>3. list' \in [1 .. Len(list) -> Entry]
        BY <4>1, <4>2
      <4> QED
        BY <4>2, <4>3, SeqDef
    <3>2. CASE ~(c.index <= Len(list))
      BY <1>0, <1>4, <3>2 DEF LSet
    <3> QED
      BY <3>1, <3>2
  <2> QED
    BY <1>0, <2>2, <2>3
<1> QED
  BY <1>1, <1>2, <1>3, <1>4 DEF Execute

(* A step that leaves Redis alone and changes one handler. *)
LEMMA OneHandler ==
    ASSUME TypeOK, NEW h \in Handlers, NEW q, q \in Handler(Len(pushed)),
           q.done <= Len(q.cmds), handler' = [handler EXCEPT ![h] = q]
    PROVE  /\ handler' \in [Handlers -> Handler(Len(pushed))]
           /\ \A g \in Handlers : handler'[g].done <= Len(handler'[g].cmds)
           /\ handler'[h] = q /\ \A g \in Handlers \ {h} : handler'[g] = handler[g]
<1>1. handler \in [Handlers -> Handler(Len(pushed))]
  BY DEF TypeOK, Handler
<1>2. \A g \in Handlers : handler[g].done <= Len(handler[g].cmds)
  BY DEF TypeOK
<1>3. handler'[h] = q /\ \A g \in Handlers \ {h} : handler'[g] = handler[g]
  BY <1>1
<1> QED
  BY <1>1, <1>2, <1>3

(* A pipeline that is sent for the first time. *)
LEMMA ExecHas ==
    ASSUME NEW n \in Nat, NEW cmds \in Seq(Commands), NEW s \in SUBSET (1 .. n)
    PROVE  LET q == [pc |-> "pipeline", cmds |-> cmds, done |-> 0,
                     failed |-> FALSE, tries |-> MaxRetries, listed |-> s]
           IN  q \in Handler(n) /\ q.done <= Len(q.cmds)
BY NotificationsAssumption DEF NotificationsAssumption, Handler

(* A pipeline that is sent again, or is no longer known by what it lists. *)
LEMMA AgainHas ==
    ASSUME NEW m \in Nat, NEW q \in Handler(m), q.tries # 0
    PROVE  LET a == [q EXCEPT !.done = 0, !.failed = FALSE, !.tries = q.tries - 1]
           IN  /\ a \in Handler(m) /\ a.done = 0 /\ a.done <= Len(a.cmds)
               /\ a.cmds = q.cmds /\ a.listed = q.listed
<1> DEFINE t == q.tries - 1
           a == [q EXCEPT !.done = 0, !.failed = FALSE, !.tries = t]
<1>1. q.tries \in 0 .. MaxRetries /\ q.cmds \in Seq(Commands)
  BY DEF Handler
<1>2. t \in 0 .. MaxRetries
  BY <1>1, NotificationsAssumption DEF NotificationsAssumption
<1> HIDE DEF t
<1>3. a \in Handler(m) /\ a.done = 0 /\ a.cmds = q.cmds /\ a.listed = q.listed
  BY <1>2 DEF Handler
<1> QED
  BY <1>1, <1>3 DEF t

LEMMA ForgottenHas ==
    ASSUME NEW m \in Nat, NEW q \in Handler(m), NEW n \in Nat
    PROVE  LET f == [q EXCEPT !.listed = {}]
           IN  /\ f \in Handler(n) /\ f.done = q.done /\ f.cmds = q.cmds /\ f.listed = {}
<1>1. {} \in SUBSET (1 .. n)
  OBVIOUS
<1> QED
  BY <1>1 DEF Handler

LEMMA ListedHas ==
    ASSUME TypeOK, NoneMissing
    PROVE  \A i \in DOMAIN list : Serial(i) \in 1 .. Len(pushed)
BY DEF TypeOK, NoneMissing, Serial

LEMMA TypesKept == ASSUME TypeOK, NoneMissing, [Next]_vars PROVE TypeOK'
<1>0. /\ list \in Seq(Entry) /\ ttl \in BOOLEAN /\ stray \in [Buffers -> Seq(Commands)]
      /\ handler \in [Handlers -> Handler(Len(pushed))]
      /\ \A h \in Handlers : handler[h].done <= Len(handler[h].cmds)
      /\ sent \in 0 .. MaxSent /\ pushed \in Seq(Ids)
      /\ mixed \in 0 .. Len(pushed) /\ covered \subseteq 1 .. Len(pushed)
      /\ MaxSent \in Nat /\ Len(pushed) \in Nat
  BY NotificationsAssumption DEF TypeOK, Handler, NotificationsAssumption
<1>1. CASE UNCHANGED vars
  BY <1>1 DEF vars, TypeOK
<1> DEFINE HandlersTyped ==
             /\ handler' \in [Handlers -> Handler(Len(pushed))]
             /\ \A h \in Handlers : handler'[h].done <= Len(handler'[h].cmds)
           IdleFits == Idle \in Handler(Len(pushed)) /\ Idle.done <= Len(Idle.cmds)
<1>2. IdleFits
  BY <1>0, IdleHas
<1>3. ASSUME HandlersTyped, UNCHANGED <<redis, history, sent, covered>>,
             stray' \in [Buffers -> Seq(Commands)]
      PROVE  TypeOK'
  <2>1. UNCHANGED <<list, ttl, pushed, mixed, sent, covered>>
    BY <1>3 DEF redis, history
  <2> QED
    BY <1>0, <1>3, <2>1 DEF TypeOK, Handler
<1>4. ASSUME NEW h \in Handlers, Send(h) PROVE TypeOK'
  <2>1. sent + 1 \in Ids /\ sent + 1 \in 0 .. MaxSent
    BY <1>0, <1>4 DEF Send, Ids
  <2>2. SendPipeline(sent + 1) \in Seq(Commands) /\ {} \in SUBSET (1 .. Len(pushed))
    BY <2>1, PipelineHas
  <2>3. HandlersTyped
    BY <1>0, <1>4, <2>2, ExecHas, OneHandler DEF Send, Exec
  <2>4. UNCHANGED <<list, ttl, pushed, mixed, covered, stray>> /\ sent' = sent + 1
    BY <1>4 DEF Send, redis, history
  <2> QED
    BY <1>0, <2>1, <2>3, <2>4 DEF TypeOK, Handler
<1>5. ASSUME NEW h \in Handlers, MarkRead(h) PROVE TypeOK'
  <2> DEFINE q == [handler[h] EXCEPT !.pc = "range"]
  <2>1. q \in Handler(Len(pushed)) /\ q.done <= Len(q.cmds)
    BY <1>0 DEF Handler
  <2>2. handler' = [handler EXCEPT ![h] = q]
    BY <1>0, <1>5 DEF MarkRead
  <2> HIDE DEF q
  <2>3. HandlersTyped
    BY <2>1, <2>2, OneHandler
  <2> QED
    BY <1>0, <1>3, <1>5, <2>3 DEF MarkRead
<1>6. ASSUME NEW h \in Handlers, LRange(h) PROVE TypeOK'
  <2> DEFINE s == {Serial(i) : i \in DOMAIN list}
  <2>1. Marks \in Seq(Commands)
    BY MarksHas
  <2>2. s \in SUBSET (1 .. Len(pushed))
    BY ListedHas
  <2>3. handler' = [handler EXCEPT ![h] =
          [pc |-> "pipeline", cmds |-> Marks, done |-> 0,
           failed |-> FALSE, tries |-> MaxRetries, listed |-> s]]
    BY <1>6 DEF LRange, Exec
  <2> HIDE DEF s
  <2>4. HandlersTyped
    BY <1>0, <2>1, <2>2, <2>3, ExecHas, OneHandler
  <2> QED
    BY <1>0, <1>3, <1>6, <2>4 DEF LRange
<1>7. ASSUME NEW h \in Handlers, Run(h) PROVE TypeOK'
  <2> DEFINE c == handler[h].cmds[handler[h].done + 1]
  <2>1. c \in Commands /\ Execute(c) /\ UNCHANGED <<stray, sent, covered>>
    BY <1>7, RunHas DEF Run
  <2> HIDE DEF c
  <2>2. /\ list' \in Seq(Entry) /\ ttl' \in BOOLEAN /\ pushed' \in Seq(Ids)
        /\ mixed' \in 0 .. Len(pushed') /\ Len(pushed') \in Nat /\ Len(pushed) <= Len(pushed')
    BY <2>1, ExecuteTypes
  <2>3. HandlersTyped
    BY <1>0, <1>7, RunHas
  <2>4. handler' \in [Handlers -> Handler(Len(pushed'))]
    BY <1>0, <2>2, <2>3, Grows
  <2>5. covered' \subseteq 1 .. Len(pushed')
    BY <1>0, <2>1, <2>2
  <2> QED
    BY <1>0, <2>1, <2>2, <2>3, <2>4, <2>5 DEF TypeOK, Handler
<1>8. ASSUME NEW h \in Handlers, Answer(h) PROVE TypeOK'
  <2>1. HandlersTyped
    BY <1>2, <1>8, OneHandler DEF Answer
  <2>2. UNCHANGED <<list, ttl, pushed, mixed, stray, sent>>
    BY <1>8 DEF Answer, redis, history
  <2>3. covered' \subseteq 1 .. Len(pushed)
    BY <1>0, <1>8, HandlerHas DEF Answer
  <2> QED
    BY <1>0, <2>1, <2>2, <2>3 DEF TypeOK, Handler
<1>9. ASSUME NEW h \in Handlers, Cut(h) PROVE TypeOK'
  <2> DEFINE q == handler[h]
             a == [q EXCEPT !.done = 0, !.failed = FALSE, !.tries = q.tries - 1]
             n == IF q.tries = 0 THEN Idle ELSE a
  <2>1. q \in Handler(Len(pushed))
    BY <1>0
  <2>2. n \in Handler(Len(pushed)) /\ n.done <= Len(n.cmds)
    <3>1. CASE q.tries = 0
      BY <1>2, <3>1
    <3>2. CASE q.tries # 0
      <4>1. a \in Handler(Len(pushed)) /\ a.done <= Len(a.cmds)
        BY <1>0, <2>1, <3>2, AgainHas
      <4> QED
        BY <3>2, <4>1
    <3> QED
      BY <3>1, <3>2
  <2>3. handler' = [handler EXCEPT ![h] = n]
    BY <1>9 DEF Cut
  <2> HIDE DEF n
  <2>4. HandlersTyped
    BY <2>2, <2>3, OneHandler
  <2>5. stray' \in [Buffers -> Seq(Commands)]
    <3>1. CASE UNCHANGED stray
      BY <1>0, <3>1
    <3>2. ASSUME NEW b \in Buffers, NEW i \in q.done + 1 .. Len(q.cmds),
                 stray' = [stray EXCEPT ![b] = SubSeq(q.cmds, q.done + 1, i)]
          PROVE  stray' \in [Buffers -> Seq(Commands)]
      <4>1. SubSeq(q.cmds, q.done + 1, i) \in Seq(Commands)
        BY <3>2, HandlerHas, RestHas
      <4> QED
        BY <1>0, <3>2, <4>1
    <3> QED
      BY <1>9, <3>1, <3>2 DEF Cut
  <2> QED
    BY <1>3, <1>9, <2>4, <2>5 DEF Cut
<1>10. ASSUME NEW h \in Handlers, RangeFails(h) PROVE TypeOK'
  <2>1. HandlersTyped
    BY <1>2, <1>10, OneHandler DEF RangeFails
  <2> QED
    BY <1>0, <1>3, <1>10, <2>1 DEF RangeFails
<1>11. ASSUME NEW b \in Buffers, RunStray(b) PROVE TypeOK'
  <2> DEFINE c == Head(stray[b])
  <2>1. c \in Commands /\ Execute(c) /\ Tail(stray[b]) \in Seq(Commands)
    BY <1>11, StrayHas DEF RunStray
  <2> HIDE DEF c
  <2>2. /\ list' \in Seq(Entry) /\ ttl' \in BOOLEAN /\ pushed' \in Seq(Ids)
        /\ mixed' \in 0 .. Len(pushed') /\ Len(pushed') \in Nat /\ Len(pushed) <= Len(pushed')
    BY <2>1, ExecuteTypes
  <2>3. UNCHANGED <<handler, sent, covered>> /\ stray' = [stray EXCEPT ![b] = Tail(stray[b])]
    BY <1>11 DEF RunStray
  <2>4. handler' \in [Handlers -> Handler(Len(pushed'))]
    BY <1>0, <2>2, <2>3, Grows
  <2>5. covered' \subseteq 1 .. Len(pushed') /\ stray' \in [Buffers -> Seq(Commands)]
    BY <1>0, <2>1, <2>2, <2>3
  <2> QED
    BY <1>0, <2>2, <2>3, <2>4, <2>5 DEF TypeOK, Handler
<1>12. ASSUME NEW r \in Replicas, Crash(r) PROVE TypeOK'
  <2>1. HandlersTyped
    BY <1>0, <1>2, <1>12 DEF Crash
  <2> QED
    BY <1>0, <1>3, <1>12, <2>1 DEF Crash
<1>13. CASE Expiry
  <2>1. /\ list' = <<>> /\ pushed' = <<>> /\ ttl' = FALSE /\ mixed' = 0 /\ covered' = {}
        /\ UNCHANGED <<stray, sent>>
        /\ handler' = [h \in Handlers |-> [handler[h] EXCEPT !.listed = {}]]
    BY <1>13 DEF Expiry
  <2>2. list' \in Seq(Entry) /\ pushed' \in Seq(Ids) /\ Len(pushed') = 0
    BY <2>1, EmptySeq
  <2>3. ASSUME NEW h \in Handlers
        PROVE  handler'[h] \in Handler(Len(pushed')) /\ handler'[h].done <= Len(handler'[h].cmds)
    <3> DEFINE f == [handler[h] EXCEPT !.listed = {}]
    <3>1. handler'[h] = f
      BY <2>1
    <3>2. /\ handler[h] \in Handler(Len(pushed)) /\ Len(pushed) \in Nat
          /\ handler[h].done <= Len(handler[h].cmds)
      BY <1>0
    <3>3. f \in Handler(0) /\ f.done = handler[h].done /\ f.cmds = handler[h].cmds
      BY <3>2, ForgottenHas
    <3> HIDE DEF f
    <3> QED
      BY <2>2, <3>1, <3>2, <3>3
  <2>4. handler' \in [Handlers -> Handler(Len(pushed'))]
    BY <2>1, <2>3
  <2>5. mixed' \in 0 .. Len(pushed') /\ covered' \subseteq 1 .. Len(pushed')
    <3>1. mixed' = 0 /\ covered' = {}
      BY <2>1
    <3> QED
      BY <2>2, <3>1
  <2>6. ttl' \in BOOLEAN
    BY <2>1
  <2> QED
    BY <1>0, <2>1, <2>2, <2>3, <2>4, <2>5, <2>6 DEF TypeOK, Handler
<1> QED
  BY <1>1, <1>4, <1>5, <1>6, <1>7, <1>8, <1>9, <1>10, <1>11, <1>12, <1>13 DEF Next

-----------------------------------------------------------------------------
(* What a command does to the list, and to what is said of commands that   *)
(* have yet to come                                                        *)

(* ListSound of list l, pushes p, the last mixed push m and readings v. *)
Sound(l, p, m, v) ==
    /\ Len(l) <= Len(p)
    /\ Len(l) < Len(p) => Len(l) >= MaxPerUser
    /\ \A i \in DOMAIN l : Len(p) + 1 - i > m =>
         /\ l[i].id = p[Len(p) + 1 - i]
         /\ Len(p) + 1 - i \in v => l[i].read

LEMMA SoundIs ==
    /\ ListSound <=> Sound(list, pushed, mixed, covered)
    /\ ListSound' <=> Sound(list', pushed', mixed', covered')
BY DEF ListSound, NoneMissing, InOrder, Serial, Sound

(* A push, mixed into a reading or not. *)
LEMMA PushSound ==
    ASSUME NEW l \in Seq(Entry), NEW p \in Seq(Ids), NEW m \in 0 .. Len(p),
           NEW v \in SUBSET (1 .. Len(p)), Sound(l, p, m, v), NEW e \in Entry,
           NEW n, n = m \/ n = Len(p) + 1
    PROVE  Sound(<<e>> \o l, Append(p, e.id), n, v)
<1> DEFINE r == <<e>> \o l
           o == Append(p, e.id)
<1>1. /\ Len(r) = Len(l) + 1 /\ r[1] = e
      /\ \A i \in DOMAIN r : i # 1 => i - 1 \in DOMAIN l /\ r[i] = l[i - 1]
      /\ DOMAIN r = 1 .. Len(l) + 1
  BY PrependHas
<1>2. e.id \in Ids
  BY DEF Entry
<1>3. /\ Len(o) = Len(p) + 1 /\ o[Len(p) + 1] = e.id
      /\ \A i \in 1 .. Len(p) : o[i] = p[i]
  BY <1>2
<1>4. Len(l) \in Nat /\ Len(p) \in Nat /\ MaxPerUser \in Nat /\ n \in Nat /\ n >= m /\ m \in Nat
  BY NotificationsAssumption DEF NotificationsAssumption
<1>5. Len(l) <= Len(p) /\ (Len(l) < Len(p) => Len(l) >= MaxPerUser)
  BY DEF Sound
<1> HIDE DEF r, o
<1>6. Len(r) <= Len(o) /\ (Len(r) < Len(o) => Len(r) >= MaxPerUser)
  BY <1>1, <1>3, <1>4, <1>5
<1>7. ASSUME NEW i \in DOMAIN r, Len(o) + 1 - i > n
      PROVE  r[i].id = o[Len(o) + 1 - i] /\ (Len(o) + 1 - i \in v => r[i].read)
  <2>1. CASE i = 1
    <3>1. Len(o) + 1 - i = Len(p) + 1
      BY <1>3, <1>4, <2>1
    <3>2. Len(p) + 1 \notin v
      BY <1>4
    <3> QED
      BY <1>1, <1>3, <2>1, <3>1, <3>2
  <2>2. CASE i # 1
    <3> DEFINE j == i - 1
    <3>1. j \in DOMAIN l /\ r[i] = l[j] /\ j \in Nat /\ j > 0 /\ i = j + 1 /\ j <= Len(p)
      BY <1>1, <1>4, <1>5, <2>2
    <3> HIDE DEF j
    <3>2. Len(o) + 1 - i = Len(p) + 1 - j /\ Len(p) + 1 - j \in 1 .. Len(p) /\ Len(p) + 1 - j > m
      BY <1>3, <1>4, <1>7, <3>1
    <3>3. l[j].id = p[Len(p) + 1 - j] /\ (Len(p) + 1 - j \in v => l[j].read)
      BY <3>1, <3>2 DEF Sound
    <3> QED
      BY <1>3, <3>1, <3>2, <3>3
  <2> QED
    BY <2>1, <2>2
<1>8. Sound(r, o, n, v)
  BY <1>6, <1>7 DEF Sound
<1> QED
  BY <1>8 DEF r, o

(* The list loses entries at its end, or has some of them marked as read.  *)
LEMMA RewriteSound ==
    ASSUME NEW l \in Seq(Entry), NEW p \in Seq(Ids), NEW m \in 0 .. Len(p),
           NEW v \in SUBSET (1 .. Len(p)), Sound(l, p, m, v), NEW r \in Seq(Entry),
           Len(r) = Len(l) \/ (Len(r) <= Len(l) /\ Len(r) >= MaxPerUser),
           \A i \in DOMAIN r : i \in DOMAIN l,
           \A i \in DOMAIN r : Len(p) + 1 - i > m => r[i].id = l[i].id,
           \A i \in DOMAIN r : l[i].read => r[i].read
    PROVE  Sound(r, p, m, v)
<1>1. Len(l) \in Nat /\ Len(p) \in Nat /\ Len(r) \in Nat /\ MaxPerUser \in Nat
  BY NotificationsAssumption DEF NotificationsAssumption
<1>2. Len(r) <= Len(p) /\ (Len(r) < Len(p) => Len(r) >= MaxPerUser)
  BY <1>1 DEF Sound
<1>3. ASSUME NEW i \in DOMAIN r, Len(p) + 1 - i > m
      PROVE  r[i].id = p[Len(p) + 1 - i] /\ (Len(p) + 1 - i \in v => r[i].read)
  <2>1. i \in DOMAIN l /\ r[i].id = l[i].id
    BY <1>3
  <2>2. l[i].id = p[Len(p) + 1 - i] /\ (Len(p) + 1 - i \in v => l[i].read)
    BY <1>3, <2>1 DEF Sound
  <2>3. l[i].read => r[i].read
    BY Zenon
  <2> QED
    BY <2>1, <2>2, <2>3
<1> QED
  BY <1>2, <1>3 DEF Sound

(* Once a push is mixed in nothing is said of the positions there were. *)
LEMMA MixedOK ==
    ASSUME NEW p \in Seq(Ids), NEW m \in 0 .. Len(p), NEW o \in Seq(Ids), NEW l, NEW r
    PROVE  /\ \A c \in Commands : Placed(c, p, m) => Placed(c, o, Len(o))
           /\ \A n \in Nat : \A q \in Handler(n) :
                n <= Len(o) /\ HandlerOK(q, l, p, m) => HandlerOK(q, r, o, Len(o))
           /\ \A s \in Seq(Commands) : StrayOK(s, p, m) => StrayOK(s, o, Len(o))
<1>0. Len(o) \in Nat
  OBVIOUS
<1>1. ASSUME NEW c \in Commands, Placed(c, p, m) PROVE Placed(c, o, Len(o))
  <2> SUFFICES ASSUME c.op = "LSET" PROVE Placed(c, o, Len(o))
    BY DEF Placed
  <2>1. c.index \in Nat /\ c.index > 0 /\ c.entry.read
    BY <1>1, CommandHas DEF Placed
  <2>2. ~(Len(o) + 1 - c.index > Len(o))
    BY <1>0, <2>1
  <2> QED
    BY <2>1, <2>2 DEF Placed
<1>2. ASSUME NEW n \in Nat, NEW q \in Handler(n), n <= Len(o), HandlerOK(q, l, p, m)
      PROVE  HandlerOK(q, r, o, Len(o))
  <2>1. q.cmds \in Seq(Commands) /\ q.listed \subseteq 1 .. n /\ q.done \in Nat
    BY DEF Handler
  <2>2. \A k \in DOMAIN q.cmds : Placed(q.cmds[k], o, Len(o))
    BY <1>1, <1>2, <2>1 DEF HandlerOK
  <2>3. \A s \in q.listed : ~(s > Len(o))
    BY <1>0, <1>2, <2>1
  <2>4. \A k \in 1 .. q.done : ~(Len(o) + 1 - k > Len(o))
    BY <1>0, <2>1
  <2> QED
    BY <1>2, <2>2, <2>3, <2>4 DEF HandlerOK
<1>3. ASSUME NEW s \in Seq(Commands), StrayOK(s, p, m) PROVE StrayOK(s, o, Len(o))
  BY <1>1, <1>3 DEF StrayOK
<1> QED
  BY <1>1, <1>2, <1>3

(* Where nothing marks, nothing depends on the list. *)
LEMMA UnmarkedOK ==
    ASSUME NEW n \in Nat, NEW q \in Handler(n), NEW l, NEW p, NEW m, HandlerOK(q, l, p, m),
           \A k \in DOMAIN q.cmds : q.cmds[k].op # "LSET",
           NEW r, NEW o, NEW i
    PROVE  HandlerOK(q, r, o, i)
<1>1. q.cmds \in Seq(Commands)
  BY DEF Handler
<1>2. ~Reading(q)
  BY <1>1 DEF Reading
<1>3. q.listed = {}
  BY <1>2 DEF HandlerOK
<1>4. \A k \in DOMAIN q.cmds : Placed(q.cmds[k], o, i)
  BY DEF Placed
<1> QED
  BY <1>2, <1>3, <1>4 DEF HandlerOK

(* The list of a reading may be rewritten by another. *)
LEMMA RewriteOK ==
    ASSUME NEW q, NEW l, NEW p, NEW m, HandlerOK(q, l, p, m), NEW r,
           \A i \in DOMAIN r : i \in DOMAIN l /\ (l[i].read => r[i].read)
    PROVE  HandlerOK(q, r, p, m)
BY DEF HandlerOK

(* A command that marks nothing else than what was listed at its position  *)
(* keeps the list, and what is said of the commands that have yet to come. *)
ExecutedOK(c) ==
    /\ Sound(list', pushed', mixed', covered)
    /\ \A h \in Handlers : HandlerOK(handler[h], list', pushed', mixed')
    /\ \A b \in Buffers : StrayOK(stray[b], pushed', mixed')
    /\ c.op = "LSET" => \A i \in DOMAIN list' : i = c.index => list'[i].read

LEMMA InvHas ==
    ASSUME ListInv
    PROVE  /\ TypeOK /\ ListSound /\ NoneMissing /\ Sound(list, pushed, mixed, covered)
           /\ \A h \in Handlers : HandlerOK(handler[h], list, pushed, mixed)
           /\ \A b \in Buffers : StrayOK(stray[b], pushed, mixed)
           /\ list \in Seq(Entry) /\ pushed \in Seq(Ids) /\ Len(pushed) \in Nat
           /\ mixed \in 0 .. Len(pushed) /\ covered \in SUBSET (1 .. Len(pushed))
           /\ handler \in [Handlers -> Handler(Len(pushed))]
           /\ stray \in [Buffers -> Seq(Commands)]
<1>1. TypeOK /\ ListSound
  BY DEF ListInv
<1>2. NoneMissing /\ Sound(list, pushed, mixed, covered)
  BY <1>1, SoundIs DEF ListSound
<1>3. handler \in [Handlers -> Handler(Len(pushed))]
  BY <1>1 DEF TypeOK, Handler
<1> QED
  BY <1>1, <1>2, <1>3 DEF ListInv, TypeOK

LEMMA PushKeeps ==
    ASSUME ListInv, NEW c \in Commands, LPush(c)
    PROVE  ExecutedOK(c)
<1> DEFINE e == c.entry
<1>1. /\ c.op = "LPUSH" /\ list' = <<e>> \o list /\ pushed' = Append(pushed, e.id)
      /\ mixed' = IF Marking THEN Len(pushed) + 1 ELSE mixed
  BY DEF LPush
<1>2. e \in Entry /\ e.id \in Ids
  BY <1>1, CommandHas DEF Entry
<1>3. pushed' \in Seq(Ids) /\ Len(pushed') = Len(pushed) + 1 /\ Len(pushed) <= Len(pushed')
  BY <1>1, <1>2, InvHas
<1>4. Sound(list', pushed', mixed', covered)
  <2>1. mixed' = mixed \/ mixed' = Len(pushed) + 1
    BY <1>1
  <2>2. Sound(<<e>> \o list, Append(pushed, e.id), mixed', covered)
    BY <1>2, <2>1, InvHas, PushSound
  <2> QED
    BY <1>1, <2>2
<1>5. CASE Marking
  <2>1. mixed' = Len(pushed')
    BY <1>1, <1>3, <1>5
  <2>2. ASSUME NEW h \in Handlers PROVE HandlerOK(handler[h], list', pushed', mixed')
    <3>1. handler[h] \in Handler(Len(pushed)) /\ HandlerOK(handler[h], list, pushed, mixed)
      BY InvHas
    <3> DEFINE o == pushed'
               r == list'
    <3>2. o \in Seq(Ids) /\ Len(pushed) <= Len(o)
      BY <1>3
    <3> HIDE DEF o, r
    <3>3. HandlerOK(handler[h], r, o, Len(o))
      BY <3>1, <3>2, InvHas, MixedOK
    <3> QED
      BY <2>1, <3>3 DEF o, r
  <2>3. ASSUME NEW b \in Buffers PROVE StrayOK(stray[b], pushed', mixed')
    <3>1. stray[b] \in Seq(Commands) /\ StrayOK(stray[b], pushed, mixed)
      BY InvHas
    <3> DEFINE o == pushed'
    <3>2. o \in Seq(Ids)
      BY <1>3
    <3> HIDE DEF o
    <3>3. StrayOK(stray[b], o, Len(o))
      BY <3>1, <3>2, InvHas, MixedOK
    <3> QED
      BY <2>1, <3>3 DEF o
  <2> QED
    BY <1>1, <1>4, <2>2, <2>3 DEF ExecutedOK
<1>6. CASE ~Marking
  <2>1. ASSUME NEW h \in Handlers PROVE HandlerOK(handler[h], list', pushed', mixed')
    <3>1. handler[h] \in Handler(Len(pushed)) /\ HandlerOK(handler[h], list, pushed, mixed)
      BY InvHas
    <3>2. \A k \in DOMAIN handler[h].cmds : handler[h].cmds[k].op # "LSET"
      BY <1>6 DEF Marking
    <3> QED
      BY <3>1, <3>2, InvHas, UnmarkedOK
  <2>2. ASSUME NEW b \in Buffers PROVE StrayOK(stray[b], pushed', mixed')
    BY <1>6 DEF Marking, StrayOK, Placed
  <2> QED
    BY <1>1, <1>4, <2>1, <2>2 DEF ExecutedOK
<1> QED
  BY <1>5, <1>6

(* Commands that push nothing. *)
LEMMA RewriteKeeps ==
    ASSUME ListInv, NEW c \in Commands, list' \in Seq(Entry), UNCHANGED history,
           Len(list') = Len(list) \/ (Len(list') <= Len(list) /\ Len(list') >= MaxPerUser),
           \A i \in DOMAIN list' : i \in DOMAIN list,
           \A i \in DOMAIN list' : Serial(i) > mixed => list'[i].id = list[i].id,
           \A i \in DOMAIN list' : list[i].read => list'[i].read,
           c.op = "LSET" => \A i \in DOMAIN list' : i = c.index => list'[i].read
    PROVE  ExecutedOK(c)
<1>1. pushed' = pushed /\ mixed' = mixed
  BY DEF history
<1> DEFINE r == list'
<1>2. /\ r \in Seq(Entry)
      /\ Len(r) = Len(list) \/ (Len(r) <= Len(list) /\ Len(r) >= MaxPerUser)
  OBVIOUS
<1>3. \A i \in DOMAIN r : i \in DOMAIN list
  OBVIOUS
<1>4. \A i \in DOMAIN r : Len(pushed) + 1 - i > mixed => r[i].id = list[i].id
  BY DEF Serial
<1>5. \A i \in DOMAIN r : list[i].read => r[i].read
  OBVIOUS
<1> HIDE DEF r
<1>6. Sound(r, pushed, mixed, covered)
  BY <1>2, <1>3, <1>4, <1>5, InvHas, RewriteSound
<1>7. \A h \in Handlers : HandlerOK(handler[h], r, pushed, mixed)
  <2>1. \A i \in DOMAIN r : i \in DOMAIN list /\ (list[i].read => r[i].read)
    BY <1>3, <1>5, Zenon
  <2> QED
    BY <2>1, InvHas, RewriteOK
<1> QED
  BY <1>1, <1>6, <1>7, InvHas DEF ExecutedOK, r

LEMMA LSetKeeps ==
    ASSUME ListInv, NEW c \in Commands, Placed(c, pushed, mixed), LSet(c)
    PROVE  ExecutedOK(c)
<1> DEFINE k == c.index
           e == c.entry
<1>1. /\ c.op = "LSET" /\ k \in Nat /\ e \in Entry /\ k > 0 /\ e.read /\ UNCHANGED history
      /\ Len(pushed) + 1 - k > mixed => e.id = pushed[Len(pushed) + 1 - k]
  BY CommandHas DEF LSet, Placed
<1>2. list \in Seq(Entry)
  BY InvHas
<1>3. CASE k <= Len(list)
  <2>1. k \in DOMAIN list /\ list' = [list EXCEPT ![k] = e]
    BY <1>1, <1>2, <1>3 DEF LSet
  <2>2. /\ list' \in Seq(Entry) /\ Len(list') = Len(list) /\ DOMAIN list' = DOMAIN list
        /\ list'[k] = e /\ \A i \in DOMAIN list : i # k => list'[i] = list[i]
    BY <1>1, <1>2, <2>1, ReplacedHas
  <2>3. ASSUME NEW i \in DOMAIN list', Serial(i) > mixed PROVE list'[i].id = list[i].id
    <3>1. CASE i = k
      <4>1. Len(pushed) + 1 - k > mixed /\ k \in DOMAIN list
        BY <2>1, <2>3, <3>1 DEF Serial
      <4>2. list[k].id = pushed[Len(pushed) + 1 - k]
        BY <4>1, InvHas DEF Sound
      <4> QED
        BY <1>1, <2>2, <3>1, <4>1, <4>2
    <3>2. CASE i # k
      BY <2>2, <3>2
    <3> QED
      BY <3>1, <3>2
  <2>4. ASSUME NEW i \in DOMAIN list', list[i].read PROVE list'[i].read
    <3>1. CASE i = k
      BY <1>1, <2>2, <3>1
    <3>2. CASE i # k
      BY <2>2, <2>4, <3>2
    <3> QED
      BY <3>1, <3>2
  <2>5. \A i \in DOMAIN list' : i = c.index => list'[i].read
    BY <1>1, <2>2
  <2> HIDE DEF k, e
  <2> QED
    BY <1>1, <2>2, <2>3, <2>4, <2>5, RewriteKeeps
<1>4. CASE ~(k <= Len(list))
  <2>1. list' = list
    BY <1>4 DEF LSet
  <2>2. \A i \in DOMAIN list' : i # k
    BY <1>1, <1>2, <1>4, <2>1
  <2>3. \A i \in DOMAIN list' : i = c.index => list'[i].read
    BY <2>2
  <2> QED
    BY <1>1, <1>2, <2>1, <2>3, RewriteKeeps
<1> QED
  BY <1>3, <1>4

LEMMA ExecuteKeeps ==
    ASSUME ListInv, NEW c \in Commands, Placed(c, pushed, mixed), Execute(c)
    PROVE  ExecutedOK(c)
<1>1. CASE LTrim(c)
  <2>1. list \in Seq(Entry) /\ Len(list) \in Nat
    BY InvHas
  <2>2. list' = Trimmed(list) /\ UNCHANGED history /\ c.op # "LSET"
    BY <1>1 DEF LTrim
  <2>3. /\ list' \in Seq(Entry) /\ \A i \in DOMAIN list' : i \in DOMAIN list /\ list'[i] = list[i]
        /\ Len(list') = Len(list) \/ Len(list') = MaxPerUser
    BY <2>1, <2>2, TrimmedHas
  <2>4. Len(list') = Len(list) \/ (Len(list') <= Len(list) /\ Len(list') >= MaxPerUser)
    BY <2>1, <2>2, <2>3, NotificationsAssumption DEF NotificationsAssumption, Trimmed
  <2> QED
    BY <2>2, <2>3, <2>4, RewriteKeeps
<1>2. CASE Expire(c)
  <2>1. list' = list /\ UNCHANGED history /\ c.op # "LSET" /\ list \in Seq(Entry)
    BY <1>2, InvHas DEF Expire
  <2> QED
    BY <2>1, RewriteKeeps
<1> QED
  BY <1>1, <1>2, PushKeeps, LSetKeeps DEF Execute

-----------------------------------------------------------------------------
(* Every step keeps the invariant                                          *)

(* A pipeline that marks nothing, such as an empty one. *)
LEMMA NoMarksOK ==
    ASSUME NEW q, q.cmds \in Seq(Commands), q.listed = {},
           \A k \in DOMAIN q.cmds : q.cmds[k].op # "LSET",
           NEW l, NEW p, NEW m
    PROVE  HandlerOK(q, l, p, m)
<1>1. ~Reading(q)
  BY DEF Reading
<1>2. \A k \in DOMAIN q.cmds : Placed(q.cmds[k], p, m)
  BY DEF Placed
<1> QED
  BY <1>1, <1>2 DEF HandlerOK

LEMMA IdleOK == ASSUME NEW l, NEW p, NEW m PROVE HandlerOK(Idle, l, p, m)
<1>1. Idle.cmds \in Seq(Commands) /\ Idle.listed = {} /\ DOMAIN Idle.cmds = {}
  BY IdleHas, EmptySeq
<1> QED
  BY <1>1, NoMarksOK

(* The same pipeline, with less of it done, and of less known. *)
LEMMA FewerOK ==
    ASSUME NEW q, NEW l, NEW p, NEW m, HandlerOK(q, l, p, m), q.done \in Nat,
           NEW n, n.cmds = q.cmds, n.listed \subseteq q.listed,
           n.done \in Nat, n.done <= q.done
    PROVE  HandlerOK(n, l, p, m)
<1>1. Reading(n) <=> Reading(q)
  BY DEF Reading
<1>2. \A k \in 1 .. n.done : k \in 1 .. q.done
  OBVIOUS
<1>3. n.listed # {} => q.listed # {}
  OBVIOUS
<1> QED
  BY <1>1, <1>2, <1>3 DEF HandlerOK

(* A step that Redis does not notice. *)
LEMMA QuietKeeps ==
    ASSUME ListInv, TypeOK', UNCHANGED <<redis, history, covered>>,
           \A h \in Handlers : HandlerOK(handler'[h], list, pushed, mixed),
           \A b \in Buffers : StrayOK(stray'[b], pushed, mixed)
    PROVE  ListInv'
<1>1. UNCHANGED <<list, pushed, mixed, covered>>
  BY DEF redis, history
<1>2. ListSound'
  BY <1>1, InvHas, SoundIs
<1>3. \A h \in Handlers : HandlerOK(handler'[h], list', pushed', mixed')
  BY <1>1
<1>4. \A b \in Buffers : StrayOK(stray'[b], pushed', mixed')
  BY <1>1
<1> QED
  BY <1>2, <1>3, <1>4 DEF ListInv

(* A step that changes handler h, and Redis does not notice. *)
LEMMA QuietOne ==
    ASSUME ListInv, TypeOK', UNCHANGED <<redis, history, stray, covered>>, NEW h \in Handlers,
           NEW q, handler' = [handler EXCEPT ![h] = q], HandlerOK(q, list, pushed, mixed)
    PROVE  ListInv'
<1>1. handler'[h] = q /\ \A g \in Handlers \ {h} : handler'[g] = handler[g]
  BY InvHas
<1>2. \A g \in Handlers : HandlerOK(handler'[g], list, pushed, mixed)
  BY <1>1, InvHas
<1>3. \A b \in Buffers : StrayOK(stray'[b], pushed, mixed)
  BY InvHas
<1> QED
  BY <1>2, <1>3, QuietKeeps

LEMMA SendKeeps ==
    ASSUME ListInv, TypeOK', NEW h \in Handlers, Send(h) PROVE ListInv'
<1> DEFINE q == [pc |-> "pipeline", cmds |-> SendPipeline(sent + 1), done |-> 0,
                 failed |-> FALSE, tries |-> MaxRetries, listed |-> {}]
<1>1. handler' = [handler EXCEPT ![h] = q] /\ UNCHANGED <<redis, history, stray, covered>>
  BY DEF Send, Exec
<1>2. sent + 1 \in Ids
  <2>1. sent \in 0 .. MaxSent /\ sent < MaxSent /\ MaxSent \in Nat
    BY InvHas, NotificationsAssumption DEF TypeOK, Send, NotificationsAssumption
  <2> QED
    BY <2>1 DEF Ids
<1>3. /\ q.cmds \in Seq(Commands) /\ q.listed = {}
      /\ \A k \in DOMAIN q.cmds : q.cmds[k].op # "LSET"
  BY <1>2, PipelineHas
<1> HIDE DEF q
<1> QED
  BY <1>1, <1>3, NoMarksOK, QuietOne

LEMMA MarkReadKeeps ==
    ASSUME ListInv, TypeOK', NEW h \in Handlers, MarkRead(h) PROVE ListInv'
<1> DEFINE q == [handler[h] EXCEPT !.pc = "range"]
<1>1. handler[h] \in Handler(Len(pushed)) /\ HandlerOK(handler[h], list, pushed, mixed)
  BY InvHas
<1>2. handler' = [handler EXCEPT ![h] = q] /\ UNCHANGED <<redis, history, stray, covered>>
  BY DEF MarkRead
<1>3. /\ q.cmds = handler[h].cmds /\ q.listed = handler[h].listed
      /\ q.done = handler[h].done /\ q.done \in Nat
  BY <1>1 DEF Handler
<1> HIDE DEF q
<1>4. HandlerOK(q, list, pushed, mixed)
  BY <1>1, <1>3, FewerOK
<1> QED
  BY <1>2, <1>4, QuietOne

(* A reading finds what the list is. *)
LEMMA LRangeKeeps ==
    ASSUME ListInv, TypeOK', NEW h \in Handlers, LRange(h) PROVE ListInv'
<1> DEFINE s == {Serial(i) : i \in DOMAIN list}
           q == [pc |-> "pipeline", cmds |-> Marks, done |-> 0,
                 failed |-> FALSE, tries |-> MaxRetries, listed |-> s]
<1>1. handler' = [handler EXCEPT ![h] = q] /\ UNCHANGED <<redis, history, stray, covered>>
  BY DEF LRange, Exec
<1>2. /\ Marks \in Seq(Commands) /\ DOMAIN Marks = DOMAIN list
      /\ \A i \in DOMAIN list : /\ Marks[i].op = "LSET" /\ Marks[i].index = i
                                /\ Marks[i].entry.read /\ Marks[i].entry.id = list[i].id
  BY InvHas, MarksHas
<1>3. list \in Seq(Entry) /\ DOMAIN list = 1 .. Len(list) /\ Len(pushed) \in Nat
  BY InvHas
<1>4. q.cmds = Marks /\ q.done = 0 /\ q.listed = s
  OBVIOUS
<1> HIDE DEF q
<1>5. \A k \in DOMAIN q.cmds : Placed(q.cmds[k], pushed, mixed)
  BY <1>2, <1>3, <1>4, InvHas DEF Placed, Sound
<1>6. q.cmds # <<>> => Reading(q)
  BY <1>2, <1>3, <1>4 DEF Reading
<1>7. q.listed # {} => Reading(q)
  BY <1>2, <1>3, <1>4, <1>6
<1>8. ASSUME NEW n \in q.listed PROVE Len(pushed) + 1 - n \in DOMAIN q.cmds
  <2>1. PICK i \in DOMAIN list : n = Len(pushed) + 1 - i
    BY <1>4 DEF Serial
  <2> QED
    BY <1>2, <1>3, <1>4, <2>1
<1>9. HandlerOK(q, list, pushed, mixed)
  BY <1>2, <1>4, <1>5, <1>6, <1>7, <1>8 DEF HandlerOK
<1> QED
  BY <1>1, <1>9, QuietOne

(* One more command of h, which has done what it was to do. *)
LEMMA RunKeeps ==
    ASSUME ListInv, TypeOK', NEW h \in Handlers, Run(h) PROVE ListInv'
<1> DEFINE d == handler[h].done
           c == handler[h].cmds[d + 1]
<1>1. TypeOK /\ UNCHANGED <<stray, sent, covered>> /\ Execute(c)
  BY InvHas DEF Run
<1>2. /\ d + 1 \in DOMAIN handler[h].cmds /\ c \in Commands
      /\ handler'[h].cmds = handler[h].cmds /\ handler'[h].listed = handler[h].listed
      /\ handler'[h].done = d + 1
      /\ \A g \in Handlers \ {h} : handler'[g] = handler[g]
  BY <1>1, RunHas
<1>3. /\ Placed(c, pushed, mixed)
      /\ Reading(handler[h]) => c.op = "LSET" /\ c.index = d + 1
  BY <1>2, InvHas DEF HandlerOK
<1>4. d \in Nat
  BY <1>1, HandlerHas
<1> HIDE DEF c, d
<1>5. ExecutedOK(c)
  BY <1>1, <1>2, <1>3, ExecuteKeeps
<1>6. ListSound'
  BY <1>1, <1>5, SoundIs DEF ExecutedOK
<1>7. \A b \in Buffers : StrayOK(stray'[b], pushed', mixed')
  BY <1>1, <1>5 DEF ExecutedOK
<1>8. HandlerOK(handler'[h], list', pushed', mixed')
  <2> DEFINE q == handler[h]
             n == handler'[h]
             r == list'
             o == pushed'
             m == mixed'
  <2>1. HandlerOK(q, r, o, m) /\ (c.op = "LSET" => \A i \in DOMAIN r : i = c.index => r[i].read)
    BY <1>5 DEF ExecutedOK
  <2>2. n.cmds = q.cmds /\ n.listed = q.listed /\ n.done = d + 1 /\ q.done = d
    BY <1>2 DEF d
  <2>3. Reading(q) => c.op = "LSET" /\ c.index = d + 1
    BY <1>3
  <2> HIDE DEF q, n, r, o, m
  <2>4. Reading(n) <=> Reading(q)
    BY <2>2 DEF Reading
  <2>5. ASSUME Reading(q), NEW k \in 1 .. d + 1, k \in DOMAIN r, Len(o) + 1 - k > m
        PROVE  r[k].read
    <3>1. CASE k = d + 1
      BY <2>1, <2>3, <2>5, <3>1
    <3>2. CASE k # d + 1
      <4>1. k \in 1 .. q.done
        BY <1>4, <2>2, <3>2
      <4> QED
        BY <2>1, <2>5, <4>1 DEF HandlerOK
    <3> QED
      BY <3>1, <3>2
  <2>6. HandlerOK(n, r, o, m)
    BY <2>1, <2>2, <2>4, <2>5 DEF HandlerOK
  <2> QED
    BY <2>6 DEF n, r, o, m
<1>9. \A g \in Handlers : HandlerOK(handler'[g], list', pushed', mixed')
  BY <1>2, <1>5, <1>8 DEF ExecutedOK
<1> QED
  BY <1>6, <1>7, <1>9 DEF ListInv

(* All that the reading has listed, and is still there, is read. *)
LEMMA AnswerKeeps ==
    ASSUME ListInv, TypeOK', NEW h \in Handlers, Answer(h) PROVE ListInv'
<1> DEFINE q == handler[h]
<1>1. /\ UNCHANGED <<list, pushed, mixed, stray>> /\ handler' = [handler EXCEPT ![h] = Idle]
      /\ q.done = Len(q.cmds) /\ (covered' = covered \/ covered' = covered \cup q.listed)
  BY DEF Answer, redis, history
<1>2. /\ HandlerOK(q, list, pushed, mixed) /\ q.cmds \in Seq(Commands)
      /\ q.listed \subseteq 1 .. Len(pushed)
  BY InvHas, HandlerHas
<1>3. list \in Seq(Entry) /\ Len(pushed) \in Nat /\ Sound(list, pushed, mixed, covered)
  BY InvHas
<1> HIDE DEF q
<1>4. ASSUME NEW i \in DOMAIN list, Len(pushed) + 1 - i > mixed,
             Len(pushed) + 1 - i \in covered'
      PROVE  list[i].read
  <2>1. CASE Len(pushed) + 1 - i \in covered
    BY <1>3, <1>4, <2>1 DEF Sound
  <2>2. CASE Len(pushed) + 1 - i \in q.listed
    <3>1. Reading(q) /\ Len(pushed) + 1 - (Len(pushed) + 1 - i) \in DOMAIN q.cmds
      BY <1>2, <1>4, <2>2 DEF HandlerOK
    <3>2. i \in 1 .. q.done
      BY <1>1, <1>2, <1>3, <3>1
    <3> QED
      BY <1>2, <1>4, <3>1, <3>2 DEF HandlerOK
  <2> QED
    BY <1>1, <1>4, <2>1, <2>2
<1>5. Sound(list, pushed, mixed, covered')
  BY <1>3, <1>4 DEF Sound
<1>6. ListSound'
  BY <1>1, <1>5, SoundIs
<1>7. \A g \in Handlers : HandlerOK(handler'[g], list', pushed', mixed')
  BY <1>1, InvHas, IdleOK
<1>8. \A b \in Buffers : StrayOK(stray'[b], pushed', mixed')
  BY <1>1, InvHas
<1> QED
  BY <1>6, <1>7, <1>8 DEF ListInv

(* The pipeline starts again; what Redis still has of it is part of it. *)
LEMMA CutKeeps ==
    ASSUME ListInv, TypeOK', NEW h \in Handlers, Cut(h) PROVE ListInv'
<1> DEFINE q == handler[h]
           a == [q EXCEPT !.done = 0, !.failed = FALSE, !.tries = q.tries - 1]
           n == IF q.tries = 0 THEN Idle ELSE a
<1>1. /\ q \in Handler(Len(pushed)) /\ Len(pushed) \in Nat /\ q.done \in Nat
      /\ q.cmds \in Seq(Commands) /\ HandlerOK(q, list, pushed, mixed)
  BY InvHas, HandlerHas
<1>2. HandlerOK(n, list, pushed, mixed)
  <2>1. CASE q.tries = 0
    BY <2>1, IdleOK
  <2>2. CASE q.tries # 0
    <3>1. a.cmds = q.cmds /\ a.listed = q.listed /\ a.done = 0
      BY <1>1, <2>2, AgainHas
    <3> HIDE DEF a, q
    <3>2. HandlerOK(a, list, pushed, mixed)
      BY <1>1, <3>1, FewerOK
    <3> QED
      BY <2>2, <3>2
  <2> QED
    BY <2>1, <2>2
<1>3. handler' = [handler EXCEPT ![h] = n] /\ UNCHANGED <<redis, history, covered>>
  BY DEF Cut
<1> HIDE DEF n
<1>4. \A g \in Handlers : HandlerOK(handler'[g], list, pushed, mixed)
  BY <1>2, <1>3, InvHas
<1>5. \A b \in Buffers : StrayOK(stray'[b], pushed, mixed)
  <2>1. CASE UNCHANGED stray
    BY <2>1, InvHas
  <2>2. ASSUME NEW b \in Buffers, NEW i \in q.done + 1 .. Len(q.cmds),
               stray' = [stray EXCEPT ![b] = SubSeq(q.cmds, q.done + 1, i)]
        PROVE  \A g \in Buffers : StrayOK(stray'[g], pushed, mixed)
    <3> DEFINE s == SubSeq(q.cmds, q.done + 1, i)
    <3>1. \A k \in DOMAIN s : q.done + k \in DOMAIN q.cmds /\ s[k] = q.cmds[q.done + k]
      BY <1>1, RestHas
    <3> HIDE DEF s, q
    <3>2. StrayOK(s, pushed, mixed)
      BY <1>1, <3>1 DEF StrayOK, HandlerOK
    <3> QED
      BY <2>2, <3>2, InvHas DEF s
  <2> QED
    BY <2>1, <2>2 DEF Cut
<1> QED
  BY <1>3, <1>4, <1>5, QuietKeeps

LEMMA RunStrayKeeps ==
    ASSUME ListInv, TypeOK', NEW b \in Buffers, RunStray(b) PROVE ListInv'
<1> DEFINE c == Head(stray[b])
<1>1. /\ Execute(c) /\ UNCHANGED <<handler, sent, covered>> /\ stray[b] # <<>>
      /\ stray' = [stray EXCEPT ![b] = Tail(stray[b])]
  BY DEF RunStray
<1>2. /\ c \in Commands /\ c = stray[b][1] /\ 1 \in DOMAIN stray[b]
      /\ \A k \in DOMAIN Tail(stray[b]) :
           k + 1 \in DOMAIN stray[b] /\ Tail(stray[b])[k] = stray[b][k + 1]
  BY <1>1, InvHas, StrayHas
<1>3. Placed(c, pushed, mixed)
  BY <1>2, InvHas DEF StrayOK
<1> HIDE DEF c
<1>4. ExecutedOK(c)
  BY <1>1, <1>2, <1>3, ExecuteKeeps
<1>5. ListSound'
  BY <1>1, <1>4, SoundIs DEF ExecutedOK
<1>6. \A h \in Handlers : HandlerOK(handler'[h], list', pushed', mixed')
  BY <1>1, <1>4 DEF ExecutedOK
<1>7. StrayOK(Tail(stray[b]), pushed', mixed')
  BY <1>2, <1>4 DEF ExecutedOK, StrayOK
<1>8. \A g \in Buffers : StrayOK(stray'[g], pushed', mixed')
  BY <1>1, <1>4, <1>7, InvHas DEF ExecutedOK
<1> QED
  BY <1>5, <1>6, <1>8 DEF ListInv

(* Everything is forgotten but the commands that are under way.            *)
LEMMA ExpiryKeeps == ASSUME ListInv, TypeOK', Expiry PROVE ListInv'
<1>1. /\ list' = <<>> /\ pushed' = <<>> /\ mixed' = 0 /\ covered' = {} /\ UNCHANGED stray
      /\ handler' = [h \in Handlers |-> [handler[h] EXCEPT !.listed = {}]]
  BY DEF Expiry
<1> DEFINE o == <<>>
<1>2. o \in Seq(Ids) /\ Len(o) = 0 /\ Len(o) \in Nat
  BY EmptySeq
<1>3. Sound(<<>>, <<>>, 0, {})
  BY DEF Sound
<1>4. ListSound'
  BY <1>1, <1>3, SoundIs
<1> HIDE DEF o
<1>5. ASSUME NEW h \in Handlers PROVE HandlerOK(handler'[h], o, o, Len(o))
  <2> DEFINE q == handler[h]
             f == [q EXCEPT !.listed = {}]
  <2>1. /\ q \in Handler(Len(pushed)) /\ Len(pushed) \in Nat /\ q.done \in Nat
        /\ HandlerOK(q, list, pushed, mixed)
    BY InvHas, HandlerHas
  <2>2. f \in Handler(0) /\ f.done = q.done /\ f.cmds = q.cmds /\ f.listed = {}
    BY <2>1, ForgottenHas
  <2>3. handler'[h] = f
    BY <1>1
  <2> HIDE DEF f, q
  <2>4. HandlerOK(f, list, pushed, mixed)
    BY <2>1, <2>2, FewerOK
  <2>5. pushed \in Seq(Ids) /\ mixed \in 0 .. Len(pushed)
    BY InvHas
  <2>6. \A n \in Nat : \A g \in Handler(n) :
          n <= Len(o) /\ HandlerOK(g, list, pushed, mixed) => HandlerOK(g, o, o, Len(o))
    BY <1>2, <2>5, MixedOK
  <2>7. 0 \in Nat /\ 0 <= Len(o)
    BY <1>2
  <2>8. HandlerOK(f, o, o, Len(o))
    BY <2>2, <2>4, <2>6, <2>7
  <2> QED
    BY <2>3, <2>8
<1>6. \A b \in Buffers : StrayOK(stray[b], o, Len(o))
  BY <1>2, InvHas, MixedOK
<1>7. list' = o /\ pushed' = o /\ mixed' = Len(o)
  BY <1>1, <1>2 DEF o
<1>8. \A h \in Handlers : HandlerOK(handler'[h], list', pushed', mixed')
  BY <1>5, <1>7
<1>9. \A b \in Buffers : StrayOK(stray'[b], pushed', mixed')
  BY <1>1, <1>6, <1>7
<1> QED
  BY <1>4, <1>8, <1>9 DEF ListInv

-----------------------------------------------------------------------------
LEMMA InvariantStarts == Init => ListInv
<1> SUFFICES ASSUME Init PROVE ListInv
  OBVIOUS
<1>1. /\ list = <<>> /\ pushed = <<>> /\ covered = {} /\ mixed = 0
      /\ \A h \in Handlers : handler[h] = Idle
      /\ \A b \in Buffers : stray[b] = <<>>
  BY DEF Init
<1>2. Sound(<<>>, <<>>, 0, {})
  BY DEF Sound
<1>3. ListSound
  BY <1>1, <1>2, SoundIs
<1>4. \A b \in Buffers : StrayOK(stray[b], pushed, mixed)
  BY <1>1 DEF StrayOK
<1> QED
  BY <1>1, <1>3, <1>4, IdleOK, TypesStart DEF ListInv

LEMMA InvariantKept == ASSUME ListInv, [Next]_vars PROVE ListInv'
<1>1. TypeOK'
  BY InvHas, TypesKept
<1>2. CASE UNCHANGED vars
  <2>1. UNCHANGED <<redis, history, covered, handler, stray>>
    BY <1>2 DEF vars, redis, history
  <2> QED
    BY <1>1, <2>1, InvHas, QuietKeeps
<1>3. ASSUME NEW h \in Handlers, RangeFails(h) PROVE ListInv'
  BY <1>1, <1>3, IdleOK, QuietOne DEF RangeFails
<1>4. ASSUME NEW r \in Replicas, Crash(r) PROVE ListInv'
  <2>1. \A h \in Handlers : HandlerOK(handler'[h], list, pushed, mixed)
    BY <1>4, IdleOK, InvHas DEF Crash
  <2> QED
    BY <1>1, <1>4, <2>1, InvHas, QuietKeeps DEF Crash
<1> QED
  BY <1>1, <1>2, <1>3, <1>4, SendKeeps, MarkReadKeeps, LRangeKeeps, RunKeeps, AnswerKeeps,
     CutKeeps, RunStrayKeeps, ExpiryKeeps DEF Next

LEMMA InvariantHolds == Spec => []ListInv
BY InvariantStarts, InvariantKept, PTL DEF Spec

(* The list, what is left of connections, the handlers and the histories   *)
(* have their types: every command Redis executes is one that the service  *)
(* has sent it.                                                            *)
THEOREM NotificationsTyped == Spec => []TypeOK
<1>1. ListInv => TypeOK
  BY InvHas
<1> QED
  BY <1>1, InvariantHolds, PTL

(* Marking as read writes by position, and in several commands.  A push    *)
(* that comes between them may be overwritten, and the harm ends with it:  *)
(* whatever is pushed after it stands where it belongs, and is read once a *)
(* notification.read that has listed it has succeeded, although pipelines  *)
(* are repeated, connections given up leave commands that are executed     *)
(* late, readings overlap, and lists are trimmed and expire.  At no time   *)
(* has the list lost anything but what MaxPerUser newer pushes have pushed *)
(* out of it (notification_service.go:55, :104).                           *)
THEOREM ReadingsSound == Spec => []ListSound
<1>1. ListInv => ListSound
  BY InvHas
<1> QED
  BY <1>1, InvariantHolds, PTL

=============================================================================
