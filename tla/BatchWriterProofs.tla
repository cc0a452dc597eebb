-------------------------- MODULE BatchWriterProofs --------------------------
(* Theorems about BatchWriter: everybody gets the answer to its own        *)
(* request, no request is lost, the writer never blocks on an answer, the  *)
(* rows of a goroutine are in order, and callers see Submission.           *)
EXTENDS BatchWriter, SequenceTheorems, FiniteSetTheorems, TLAPS

(* The first request of buf[r] that has no response yet.                   *)
First(r) == IF run[r] = "respond" THEN Len(buf[r]) + 1 - Len(outcome[r]) ELSE 1

(* Whoever sent m waits for its response.                                  *)
Waits(r, m) ==
    /\ m[1][1] = r
    /\ caller[m[1]] = "waiting"
    /\ sent[m[1]] = m[2]
    /\ reply[m] = <<>>

(* Rows of p stored so far are older than its n-th message.                *)
Older(p, n) == \A id \in DOMAIN table : table[id][1] = p => table[id][2] < n

Shape(r) ==
    /\ run[r] = "insert" => buf[r] # <<>>
    /\ run[r] = "select" => Len(buf[r]) < MaxBatchSize
    /\ run[r] = "respond" => Len(outcome[r]) \in 1 .. Len(buf[r])

(* The responses still to be sent are those of the requests they will be   *)
(* sent to.                                                                *)
Matched(r) ==
    run[r] = "respond" =>
        \A i \in 1 .. Len(outcome[r]) :
            \/ outcome[r][i] = Error
            \/ /\ outcome[r][i] \in DOMAIN table
               /\ table[outcome[r][i]] = buf[r][Len(buf[r]) - Len(outcome[r]) + i]

(* Every request without a response is there once, and is waited for.      *)
Queued(r) ==
    /\ \A i \in DOMAIN in[r] : Waits(r, in[r][i])
    /\ \A i \in First(r) .. Len(buf[r]) : Waits(r, buf[r][i])
    /\ \A i, j \in DOMAIN in[r] : in[r][i] = in[r][j] => i = j
    /\ \A i, j \in First(r) .. Len(buf[r]) : buf[r][i] = buf[r][j] => i = j
    /\ \A i \in DOMAIN in[r], j \in First(r) .. Len(buf[r]) : in[r][i] # buf[r][j]

(* What is still to be inserted is newer than what is stored.              *)
Fresh(r) ==
    /\ \A i \in DOMAIN in[r] : Older(in[r][i][1], in[r][i][2])
    /\ run[r] # "respond" => \A i \in DOMAIN buf[r] : Older(buf[r][i][1], buf[r][i][2])

AnswerInv ==
    /\ OwnAnswer
    /\ \A m \in Messages : reply[m] # <<>> => caller[m[1]] = "waiting" /\ sent[m[1]] = m[2]

OrderInv ==
    /\ StoredInOrder
    /\ \A p \in Callers : Older(p, sent[p] + 1)
    /\ \A p \in Callers : caller[p] = "sending" => Older(p, sent[p])

WriterInv ==
    /\ TypeOK
    /\ AnswerInv
    /\ OrderInv
    /\ \A r \in Replicas : Shape(r) /\ Matched(r) /\ Queued(r) /\ Fresh(r)

-----------------------------------------------------------------------------
(* Type correctness                                                        *)

LEMMA CurrentMessage ==
    ASSUME TypeOK, NEW p \in Callers, caller[p] # "idle"
    PROVE  Current(p) \in Messages
BY WriterAssumption DEF TypeOK, Current, Messages, WriterAssumption

LEMMA CallerReplica == ASSUME NEW p \in Callers PROVE p[1] \in Replicas
BY DEF Callers

LEMMA SubmitTyped == ASSUME TypeOK, NEW p \in Callers, Submit(p) PROVE TypeOK'
BY WriterAssumption DEF TypeOK, Submit, WriterAssumption

LEMMA SendTyped == ASSUME TypeOK, NEW p \in Callers, Send(p) PROVE TypeOK'
<1> DEFINE r == p[1]
           q == Append(in[r], Current(p))
<1>1. r \in Replicas /\ in[r] \in Seq(Messages) /\ Current(p) \in Messages
  BY CurrentMessage, CallerReplica DEF TypeOK, Send
<1>2. q \in Seq(Messages) /\ Len(q) = Len(in[r]) + 1
  BY <1>1, AppendProperties
<1>3. Len(q) <= ChanBuffer
  BY <1>1, <1>2, LenProperties, WriterAssumption DEF Send, WriterAssumption
<1>4. in' = [in EXCEPT ![r] = q]
  BY DEF Send
<1> HIDE DEF q
<1> QED
  BY <1>1, <1>2, <1>3, <1>4 DEF TypeOK, Send

LEMMA ReturnTyped == ASSUME TypeOK, NEW p \in Callers, Return(p) PROVE TypeOK'
<1>1. Current(p) \in Messages /\ reply[Current(p)] \in Seq(Response) /\ reply[Current(p)] # <<>>
  BY CurrentMessage DEF TypeOK, Return
<1>2. Tail(reply[Current(p)]) \in Seq(Response)
  BY <1>1, HeadTailProperties
<1> QED
  BY <1>1, <1>2 DEF TypeOK, Return

(* What taking a request does to the channel and to the buffer.            *)
LEMMA Taken ==
    ASSUME TypeOK, NEW r \in Replicas, Take(r)
    PROVE  /\ in[r] \in Seq(Messages) /\ Len(in[r]) \in Nat \ {0} /\ in[r][1] \in Messages
           /\ buf[r] \in Seq(Messages) /\ Len(buf[r]) \in Nat
           /\ in'[r] \in Seq(Messages) /\ Len(in'[r]) = Len(in[r]) - 1
           /\ \A i \in 1 .. Len(in'[r]) : in'[r][i] = in[r][i + 1]
           /\ buf'[r] \in Seq(Messages) /\ Len(buf'[r]) = Len(buf[r]) + 1
           /\ \A i \in 1 .. Len(buf[r]) : buf'[r][i] = buf[r][i]
           /\ buf'[r][Len(buf[r]) + 1] = in[r][1]
<1>1. /\ in[r] \in Seq(Messages) /\ in[r] # <<>> /\ buf[r] \in Seq(Messages)
      /\ in'[r] = Tail(in[r]) /\ buf'[r] = Append(buf[r], Head(in[r]))
  BY DEF TypeOK, Take
<1>2. Len(in[r]) \in Nat \ {0} /\ Head(in[r]) = in[r][1] /\ Head(in[r]) \in Messages
  BY <1>1, EmptySeq, HeadTailProperties, LenProperties
<1> QED
  BY <1>1, <1>2, LenProperties, HeadTailProperties, AppendProperties

LEMMA TakeTyped ==
    ASSUME TypeOK, NEW r \in Replicas, Shape(r), Take(r)
    PROVE  TypeOK'
<1>1. \A s \in Replicas \ {r} : in'[s] = in[s] /\ buf'[s] = buf[s]
  BY DEF TypeOK, Take
<1>2. Len(in'[r]) <= ChanBuffer /\ Len(buf'[r]) <= MaxBatchSize
  BY Taken, WriterAssumption DEF TypeOK, Take, Shape, WriterAssumption
<1> QED
  BY <1>1, <1>2, Taken DEF TypeOK, Take

(* What an insert, successful or not, does to the responses and the table. *)
LEMMA ErrorsTyped ==
    ASSUME NEW n \in Nat
    PROVE  Errors(n) \in Seq(Response) /\ Len(Errors(n)) = n /\ \A i \in 1 .. n : Errors(n)[i] = Error
BY DEF Errors, Response, Error

LEMMA Inserted ==
    ASSUME TypeOK, NEW r \in Replicas, InsertEnds(r)
    PROVE  /\ Len(buf[r]) \in Nat /\ Len(table) \in Nat
           /\ outcome'[r] \in Seq(Response) /\ Len(outcome'[r]) = Len(buf[r])
           /\ \/ UNCHANGED table /\ \A i \in 1 .. Len(buf[r]) : outcome'[r][i] = Error
              \/ /\ table' = table \o buf[r]
                 /\ \/ \A i \in 1 .. Len(buf[r]) : outcome'[r][i] = Len(table) + i
                    \/ \A i \in 1 .. Len(buf[r]) : outcome'[r][i] = Error
<1>1. buf[r] \in Seq(Messages) /\ Len(buf[r]) \in Nat /\ Len(table) \in Nat
  BY LenProperties DEF TypeOK
<1>2. outcome'[r] \in {Outcomes(Rows(r), buf[r]), Errors(Len(buf[r]))}
  BY DEF TypeOK, InsertEnds, Insert, FailedInsert, LostInsert
<1>3. /\ Rows(r) \in Seq(Response) /\ Len(Rows(r)) = Len(buf[r])
      /\ \A i \in 1 .. Len(buf[r]) : Rows(r)[i] = Len(table) + i
  BY <1>1, LenProperties DEF Rows, Response
<1>4. Outcomes(Rows(r), buf[r]) = Rows(r)
  BY <1>3 DEF Outcomes
<1>5. CASE Insert(r)
  BY <1>1, <1>3, <1>4, <1>5 DEF Insert, TypeOK
<1>6. CASE FailedInsert(r) \/ LostInsert(r)
  <2> DEFINE errors == Errors(Len(buf[r]))
  <2>1. /\ errors \in Seq(Response) /\ Len(errors) = Len(buf[r])
        /\ \A i \in 1 .. Len(buf[r]) : errors[i] = Error
    BY <1>1, ErrorsTyped
  <2>2. outcome'[r] = errors /\ (UNCHANGED table \/ table' = table \o buf[r])
    BY <1>6 DEF FailedInsert, LostInsert, TypeOK
  <2> QED
    BY <1>1, <2>1, <2>2
<1> QED
  BY <1>5, <1>6 DEF InsertEnds

LEMMA InsertTyped ==
    ASSUME TypeOK, NEW r \in Replicas, InsertEnds(r)
    PROVE  TypeOK'
<1>1. table \in Seq(Messages) /\ buf[r] \in Seq(Messages)
  BY DEF TypeOK
<1>2. table' \in Seq(Messages)
  BY <1>1, Inserted, ConcatProperties
<1>3. \A s \in Replicas \ {r} : outcome'[s] = outcome[s]
  BY DEF TypeOK, InsertEnds, Insert, FailedInsert, LostInsert
<1>4. DOMAIN outcome' = Replicas /\ outcome' = [s \in Replicas |-> outcome'[s]]
  BY DEF TypeOK, InsertEnds, Insert, FailedInsert, LostInsert
<1>5. outcome' \in [Replicas -> Seq(Response)]
  BY <1>3, <1>4, Inserted DEF TypeOK
<1> QED
  BY <1>2, <1>5 DEF TypeOK, InsertEnds, Insert, FailedInsert, LostInsert

LEMMA CrashTyped == ASSUME TypeOK, NEW r \in Replicas, Crash(r) PROVE TypeOK'
BY WriterAssumption DEF TypeOK, Crash, WriterAssumption

LEMMA Countdown == ASSUME NEW n \in Nat, NEW k \in 1 .. n PROVE k \in Nat \ {0} /\ n + 1 - k \in 1 .. n
OBVIOUS

(* What sending a response does, to a writer that has one to send.         *)
LEMMA Responded ==
    ASSUME TypeOK, NEW r \in Replicas, Shape(r), Respond(r)
    PROVE  /\ Len(buf[r]) \in Nat /\ Len(outcome[r]) \in 1 .. Len(buf[r])
           /\ First(r) = Len(buf[r]) + 1 - Len(outcome[r]) /\ First(r) \in 1 .. Len(buf[r])
           /\ Addressee(r) = buf[r][First(r)] /\ Addressee(r) \in Messages
           /\ outcome[r][1] \in Response
           /\ reply' = [reply EXCEPT ![Addressee(r)] = <<outcome[r][1]>>]
           /\ outcome'[r] \in Seq(Response) /\ Len(outcome'[r]) = Len(outcome[r]) - 1
           /\ \A i \in 1 .. Len(outcome'[r]) : outcome'[r][i] = outcome[r][i + 1]
<1>1. /\ buf[r] \in Seq(Messages) /\ outcome[r] \in Seq(Response) /\ run[r] = "respond"
      /\ Len(outcome[r]) \in 1 .. Len(buf[r])
  BY DEF TypeOK, Respond, Shape
<1>2. Len(buf[r]) \in Nat /\ Len(outcome[r]) \in Nat \ {0} /\ outcome[r] # <<>>
  BY <1>1, LenProperties, EmptySeq, Countdown
<1>3. First(r) = Len(buf[r]) + 1 - Len(outcome[r])
  BY <1>1 DEF First
<1>4. First(r) \in 1 .. Len(buf[r])
  BY <1>1, <1>2, <1>3, Countdown
<1>5. Addressee(r) = buf[r][First(r)]
  BY <1>3 DEF Addressee
<1>6. Addressee(r) \in Messages
  BY <1>1, <1>4, <1>5, ElementOfSeq
<1>7. /\ Head(outcome[r]) = outcome[r][1] /\ Head(outcome[r]) \in Response
      /\ Tail(outcome[r]) \in Seq(Response) /\ Len(Tail(outcome[r])) = Len(outcome[r]) - 1
      /\ \A i \in 1 .. Len(Tail(outcome[r])) : Tail(outcome[r])[i] = outcome[r][i + 1]
  BY <1>1, <1>2, HeadTailProperties
<1>8. outcome'[r] = Tail(outcome[r])
  BY DEF TypeOK, Respond
<1>9. reply' = [reply EXCEPT ![Addressee(r)] = <<outcome[r][1]>>]
  BY <1>7 DEF Respond
<1> QED
  BY <1>1, <1>2, <1>3, <1>4, <1>5, <1>6, <1>7, <1>8, <1>9

LEMMA RespondTyped ==
    ASSUME TypeOK, NEW r \in Replicas, Shape(r), Respond(r)
    PROVE  TypeOK'
<1>1. outcome[r][1] \in Response
  BY Responded
<1>2. \A x \in Response : <<x>> \in Seq(Response)
  OBVIOUS
<1>3. reply' \in [Messages -> Seq(Response)]
  BY <1>1, <1>2, Responded DEF TypeOK
<1>4. outcome'[r] \in Seq(Response)
  BY Responded
<1>5. outcome' \in [Replicas -> Seq(Response)]
  BY <1>4 DEF TypeOK, Respond
<1>6. /\ \/ UNCHANGED <<buf, run>>
         \/ buf' = [buf EXCEPT ![r] = <<>>] /\ run' = [run EXCEPT ![r] = "select"]
      /\ UNCHANGED <<table, sent, caller, in>>
  BY DEF Respond, Reset
<1>7. <<>> \in Seq(Messages) /\ Len(<<>>) <= MaxBatchSize
  BY WriterAssumption DEF WriterAssumption
<1> QED
  BY <1>3, <1>5, <1>6, <1>7 DEF TypeOK

-----------------------------------------------------------------------------
(* Every step keeps WriterInv                                              *)

(* A step of anything but r's writer that takes away nothing r waits for.  *)
SameWriter(r) == in'[r] = in[r] /\ buf'[r] = buf[r] /\ run'[r] = run[r] /\ outcome'[r] = outcome[r]

(* The table keeps its rows and gains none of r's messages.                *)
ForeignRows(r) ==
    /\ \A id \in DOMAIN table : id \in DOMAIN table' /\ table'[id] = table[id]
    /\ \A id \in DOMAIN table' \ DOMAIN table : table'[id][1][1] # r

LEMMA SameTable == ASSUME NEW r, UNCHANGED table PROVE ForeignRows(r)
BY DEF ForeignRows

LEMMA InvTypes ==
    ASSUME WriterInv, NEW r \in Replicas
    PROVE  /\ TypeOK /\ Shape(r) /\ Matched(r) /\ Queued(r) /\ Fresh(r)
           /\ in[r] \in Seq(Messages) /\ buf[r] \in Seq(Messages)
           /\ Len(in[r]) \in Nat /\ DOMAIN in[r] = 1 .. Len(in[r])
           /\ Len(buf[r]) \in Nat /\ DOMAIN buf[r] = 1 .. Len(buf[r])
           /\ outcome[r] \in Seq(Response) /\ Len(outcome[r]) \in Nat
           /\ First(r) \in 1 .. Len(buf[r]) + 1
           /\ \A i \in 1 .. Len(in[r]) : in[r][i] \in Messages
           /\ \A i \in 1 .. Len(buf[r]) : buf[r][i] \in Messages
<1>1. TypeOK /\ Shape(r) /\ Matched(r) /\ Queued(r) /\ Fresh(r)
  BY DEF WriterInv
<1>2. in[r] \in Seq(Messages) /\ buf[r] \in Seq(Messages) /\ outcome[r] \in Seq(Response)
  BY <1>1 DEF TypeOK
<1>3. /\ Len(in[r]) \in Nat /\ DOMAIN in[r] = 1 .. Len(in[r])
      /\ Len(buf[r]) \in Nat /\ DOMAIN buf[r] = 1 .. Len(buf[r]) /\ Len(outcome[r]) \in Nat
  BY <1>2, LenProperties
<1>4. First(r) \in 1 .. Len(buf[r]) + 1
  <2>1. CASE run[r] = "respond"
    <3>1. Len(outcome[r]) \in 1 .. Len(buf[r]) /\ First(r) = Len(buf[r]) + 1 - Len(outcome[r])
      BY <1>1, <2>1 DEF First, Shape
    <3>2. First(r) \in 1 .. Len(buf[r])
      BY <1>3, <3>1, Countdown
    <3> QED
      BY <1>3, <3>2
  <2>2. CASE run[r] # "respond"
    BY <1>3, <2>2 DEF First
  <2> QED
    BY <2>1, <2>2
<1> QED
  BY <1>1, <1>2, <1>3, <1>4, ElementOfSeq

LEMMA OtherWriter ==
    ASSUME WriterInv, NEW r \in Replicas, SameWriter(r), ForeignRows(r),
           \A m \in Messages : Waits(r, m) => Waits(r, m)'
    PROVE  Shape(r)' /\ Matched(r)' /\ Queued(r)' /\ Fresh(r)'
<1> DEFINE f == First(r)
<1>0. f' = f /\ Queued(r)
  BY InvTypes DEF SameWriter, First
<1>1. Shape(r)'
  BY InvTypes DEF SameWriter, Shape
<1>2. Matched(r)'
  BY InvTypes DEF SameWriter, Matched, ForeignRows
<1>3. Fresh(r)'
  <2>1. ASSUME NEW m \in Messages, m[1][1] = r, Older(m[1], m[2]) PROVE Older(m[1], m[2])'
    BY <2>1 DEF Older, ForeignRows
  <2>2. \A i \in 1 .. Len(in[r]) : Older(in[r][i][1], in[r][i][2])'
    <3> TAKE i \in 1 .. Len(in[r])
    <3>1. PICK m \in Messages : m = in[r][i] /\ Waits(r, m) /\ Older(m[1], m[2])
      BY <1>0, InvTypes DEF Queued, Fresh
    <3> QED
      BY <2>1, <3>1 DEF SameWriter, Waits
  <2>3. ASSUME run[r] # "respond", NEW i \in 1 .. Len(buf[r])
        PROVE  Older(buf[r][i][1], buf[r][i][2])'
    <3>1. f = 1
      BY <2>3 DEF First
    <3>2. PICK m \in Messages : m = buf[r][i] /\ Waits(r, m) /\ Older(m[1], m[2])
      BY <1>0, <2>3, <3>1, InvTypes DEF Queued, Fresh
    <3> QED
      BY <2>1, <3>2 DEF SameWriter, Waits
  <2> QED
    BY <2>2, <2>3, InvTypes DEF SameWriter, Fresh
<1>4. Queued(r)'
  <2>1. \A i \in 1 .. Len(in[r]) : Waits(r, in[r][i])'
    <3> TAKE i \in 1 .. Len(in[r])
    <3>1. PICK m \in Messages : m = in[r][i] /\ Waits(r, m)
      BY <1>0, InvTypes DEF Queued
    <3> QED
      BY <3>1 DEF SameWriter, Waits
  <2>2. \A i \in f .. Len(buf[r]) : Waits(r, buf[r][i])'
    <3> TAKE i \in f .. Len(buf[r])
    <3>1. i \in 1 .. Len(buf[r])
      BY InvTypes
    <3>2. PICK m \in Messages : m = buf[r][i] /\ Waits(r, m)
      BY <1>0, <3>1, InvTypes DEF Queued
    <3> QED
      BY <3>2 DEF SameWriter, Waits
  <2> QED
    BY <1>0, <2>1, <2>2, InvTypes DEF Queued, SameWriter
<1> QED
  BY <1>1, <1>2, <1>3, <1>4

LEMMA SubmitKeeps == ASSUME WriterInv, NEW p \in Callers, Submit(p) PROVE WriterInv'
<1>0. TypeOK /\ TypeOK'
  BY SubmitTyped DEF WriterInv
<1>1. /\ caller[p] = "idle" /\ caller'[p] = "sending" /\ sent'[p] = sent[p] + 1 /\ sent[p] \in Nat
      /\ \A q \in Callers \ {p} : caller'[q] = caller[q] /\ sent'[q] = sent[q]
      /\ UNCHANGED <<table, reply, in, buf, run, outcome>>
  BY <1>0 DEF TypeOK, Submit
<1>2. AnswerInv'
  BY <1>1 DEF WriterInv, AnswerInv, OwnAnswer, Messages
<1>3. OrderInv'
  <2>1. \A id \in DOMAIN table : table[id] \in Messages /\ table[id][2] \in Nat
    BY <1>0, ElementOfSeq, LenProperties DEF TypeOK, Messages
  <2>2. StoredInOrder'
    BY <1>1 DEF WriterInv, OrderInv, StoredInOrder
  <2>3. \A q \in Callers : Older(q, sent[q] + 1)
    BY DEF WriterInv, OrderInv
  <2>4. \A q \in Callers \ {p} : Older(q, sent[q] + 1)'
    BY <1>1, <2>3 DEF Older
  <2>5. Older(p, sent[p] + 1)'
    BY <1>1, <2>1, <2>3 DEF Older
  <2>6. Older(p, sent[p])'
    BY <1>1, <2>3 DEF Older
  <2>7. \A q \in Callers \ {p} : caller'[q] = "sending" => Older(q, sent[q])'
    BY <1>1 DEF WriterInv, OrderInv, Older
  <2> QED
    BY <2>2, <2>4, <2>5, <2>6, <2>7 DEF OrderInv
<1>4. ASSUME NEW r \in Replicas PROVE Shape(r)' /\ Matched(r)' /\ Queued(r)' /\ Fresh(r)'
  <2>1. \A m \in Messages : Waits(r, m) => Waits(r, m)'
    BY <1>1 DEF Waits, Messages
  <2> QED
    BY <1>1, <2>1, OtherWriter, SameTable DEF SameWriter
<1> QED
  BY <1>0, <1>2, <1>3, <1>4 DEF WriterInv

(* The steps that leave the table alone keep the order of its rows.        *)
LEMMA SameOrder ==
    ASSUME WriterInv, UNCHANGED <<table, sent>>,
           \A p \in Callers : caller'[p] = "sending" => caller[p] = "sending"
    PROVE  OrderInv'
BY DEF WriterInv, OrderInv, StoredInOrder, Older

LEMMA SendKeeps == ASSUME WriterInv, NEW p \in Callers, Send(p) PROVE WriterInv'
<1>a. PICK m \in Messages : m = Current(p) /\ m[1] = p /\ m[2] = sent[p]
  BY CurrentMessage DEF WriterInv, Send, Current
<1>b. PICK r \in Replicas : r = p[1]
  BY CallerReplica
<1>0. TypeOK /\ TypeOK'
  BY SendTyped DEF WriterInv
<1>1. /\ caller[p] = "sending" /\ caller'[p] = "waiting" /\ m[1] = p /\ m[2] = sent[p] /\ p[1] = r
      /\ \A q \in Callers \ {p} : caller'[q] = caller[q]
      /\ UNCHANGED <<table, sent, reply, buf, run, outcome>>
      /\ in'[r] = Append(in[r], m) /\ \A s \in Replicas \ {r} : in'[s] = in[s]
  BY <1>0, <1>a, <1>b DEF TypeOK, Send
<1>2. AnswerInv'
  BY <1>1 DEF WriterInv, AnswerInv, OwnAnswer, Messages
<1>3. OrderInv'
  BY <1>1, SameOrder
<1>4. \A s \in Replicas, x \in Messages : Waits(s, x) => Waits(s, x)' /\ x # m
  BY <1>0, <1>1 DEF Waits, Messages
<1>5. ASSUME NEW s \in Replicas \ {r} PROVE Shape(s)' /\ Matched(s)' /\ Queued(s)' /\ Fresh(s)'
  BY <1>1, <1>4, OtherWriter, SameTable DEF SameWriter
<1>c. PICK c : c = in'[r]
  OBVIOUS
<1>6. /\ Len(in[r]) \in Nat /\ DOMAIN c = 1 .. Len(in[r]) + 1
      /\ \A i \in 1 .. Len(in[r]) : c[i] = in[r][i]
      /\ c[Len(in[r]) + 1] = m
  BY <1>0, <1>1, <1>c, AppendProperties, LenProperties, InvTypes
<1>7. Shape(r)' /\ Matched(r)' /\ First(r)' = First(r)
  BY <1>0, <1>1, InvTypes DEF Shape, Matched, First
<1>8. reply[m] = <<>> /\ Waits(r, m)'
  BY <1>0, <1>1 DEF WriterInv, AnswerInv, Waits
<1>9. Queued(r)'
  <2> DEFINE rest == First(r) .. Len(buf[r])
  <2>1. ASSUME NEW i \in 1 .. Len(in[r]) PROVE Waits(r, c[i])' /\ c[i] # m
    <3>1. PICK x \in Messages : x = in[r][i] /\ Waits(r, x)
      BY InvTypes DEF Queued
    <3>2. x = c[i]
      BY <1>6, <3>1
    <3> QED
      BY <1>4, <3>1, <3>2
  <2>2. ASSUME NEW i \in rest PROVE Waits(r, buf[r][i])' /\ buf[r][i] # m
    <3>1. PICK x \in Messages : x = buf[r][i] /\ Waits(r, x)
      BY InvTypes DEF Queued
    <3> QED
      BY <1>1, <1>4, <3>1 DEF Waits
  <2>3. \A i \in DOMAIN c : i \in 1 .. Len(in[r]) \/ i = Len(in[r]) + 1
    BY <1>6
  <2>4. \A i \in DOMAIN c : Waits(r, c[i])'
    BY <1>6, <1>8, <2>1, <2>3
  <2>5. \A i, j \in DOMAIN c : c[i] = c[j] => i = j
    BY <1>6, <2>1, <2>3, InvTypes DEF Queued
  <2>6. \A i \in DOMAIN c, j \in rest : c[i] # buf[r][j]
    BY <1>6, <2>2, <2>3, InvTypes DEF Queued
  <2>7. \A i, j \in rest : buf[r][i] = buf[r][j] => i = j
    BY InvTypes DEF Queued
  <2> QED
    BY <1>1, <1>c, <1>7, <2>2, <2>4, <2>5, <2>6, <2>7 DEF Queued
<1>10. Fresh(r)'
  <2>1. Older(m[1], m[2])
    BY <1>1 DEF WriterInv, OrderInv
  <2>2. \A i \in DOMAIN c : Older(c[i][1], c[i][2])
    BY <1>6, <2>1, InvTypes DEF Fresh
  <2> QED
    BY <1>1, <1>c, <2>2, InvTypes DEF Fresh, Older
<1> QED
  BY <1>0, <1>2, <1>3, <1>5, <1>7, <1>9, <1>10 DEF WriterInv

LEMMA ReturnKeeps == ASSUME WriterInv, NEW p \in Callers, Return(p) PROVE WriterInv'
<1>a. PICK m \in Messages : m = Current(p) /\ m[1] = p /\ m[2] = sent[p]
  BY CurrentMessage DEF WriterInv, Return, Current
<1>0. TypeOK /\ TypeOK'
  BY ReturnTyped DEF WriterInv
<1>1. /\ caller[p] = "waiting" /\ caller'[p] = "idle" /\ m[1] = p /\ m[2] = sent[p]
      /\ reply[m] # <<>> /\ reply'[m] = Tail(reply[m]) /\ \A x \in Messages \ {m} : reply'[x] = reply[x]
      /\ \A q \in Callers \ {p} : caller'[q] = caller[q]
      /\ UNCHANGED <<table, sent, in, buf, run, outcome>>
  BY <1>0, <1>a DEF TypeOK, Return
<1>2. AnswerInv'
  <2>1. PICK a : reply[m] = <<a>>
    BY <1>1 DEF WriterInv, AnswerInv, OwnAnswer
  <2>2. reply'[m] = <<>>
    BY <1>1, <2>1
  <2>3. \A x \in Messages : x # m /\ x[1] = p => reply[x] = <<>>
    BY <1>1 DEF WriterInv, AnswerInv, Messages
  <2> QED
    BY <1>1, <2>2, <2>3 DEF WriterInv, AnswerInv, OwnAnswer, Messages
<1>3. OrderInv'
  BY <1>1, SameOrder
<1>4. \A s \in Replicas, x \in Messages : Waits(s, x) => Waits(s, x)'
  <2>1. \A x \in Messages : x # m /\ x[1] = p => x[2] # sent[p]
    BY <1>1 DEF Messages
  <2> QED
    BY <1>1, <2>1 DEF Waits, Messages
<1>5. \A s \in Replicas : Shape(s)' /\ Matched(s)' /\ Queued(s)' /\ Fresh(s)'
  BY <1>1, <1>4, OtherWriter, SameTable DEF SameWriter
<1> QED
  BY <1>0, <1>2, <1>3, <1>5 DEF WriterInv

LEMMA TickKeeps == ASSUME WriterInv, NEW r \in Replicas, Tick(r) PROVE WriterInv'
<1>0. TypeOK'
  BY DEF WriterInv, TypeOK, Tick
<1>1. /\ run[r] = "select" /\ run'[r] = "insert" /\ buf[r] # <<>>
      /\ \A s \in Replicas \ {r} : run'[s] = run[s]
      /\ UNCHANGED <<table, sent, caller, reply, in, buf, outcome>>
  BY DEF WriterInv, TypeOK, Tick
<1>2. AnswerInv'
  BY <1>1 DEF WriterInv, AnswerInv, OwnAnswer
<1>3. OrderInv'
  BY <1>1, SameOrder
<1>4. \A s \in Replicas \ {r} : Shape(s)' /\ Matched(s)' /\ Queued(s)' /\ Fresh(s)'
  BY <1>1, OtherWriter, SameTable DEF SameWriter, Waits
<1>5. Shape(r)' /\ Matched(r)' /\ First(r)' = First(r)
  BY <1>1 DEF Shape, Matched, First
<1>6. Queued(r)'
  BY <1>1, <1>5, InvTypes DEF Queued, Waits
<1>7. Fresh(r)'
  BY <1>1, InvTypes DEF Fresh, Older
<1> QED
  BY <1>0, <1>2, <1>3, <1>4, <1>5, <1>6, <1>7 DEF WriterInv

LEMMA CrashKeeps == ASSUME WriterInv, NEW r \in Replicas, Crash(r) PROVE WriterInv'
<1>0. TypeOK /\ TypeOK'
  BY CrashTyped DEF WriterInv
<1>1. /\ in'[r] = <<>> /\ buf'[r] = <<>> /\ run'[r] = "select" /\ UNCHANGED <<table, sent>>
      /\ \A s \in Replicas \ {r} : in'[s] = in[s] /\ buf'[s] = buf[s] /\ run'[s] = run[s] /\ outcome'[s] = outcome[s]
      /\ \A p \in Callers : caller'[p] = IF p[1] = r THEN "idle" ELSE caller[p]
      /\ \A m \in Messages : reply'[m] = IF m[1][1] = r THEN <<>> ELSE reply[m]
  BY <1>0 DEF TypeOK, Crash
<1>2. AnswerInv'
  BY <1>1 DEF WriterInv, AnswerInv, OwnAnswer, Messages
<1>3. OrderInv'
  BY <1>1, SameOrder
<1>4. \A s \in Replicas \ {r} : \A x \in Messages : Waits(s, x) => Waits(s, x)'
  BY <1>1 DEF Waits, Messages
<1>5. \A s \in Replicas \ {r} : Shape(s)' /\ Matched(s)' /\ Queued(s)' /\ Fresh(s)'
  BY <1>1, <1>4, OtherWriter, SameTable DEF SameWriter
<1>6. Len(<<>>) < MaxBatchSize /\ Len(<<>>) = 0 /\ DOMAIN <<>> = {} /\ 1 .. 0 = {}
  BY WriterAssumption DEF WriterAssumption
<1>7. Shape(r)' /\ Matched(r)' /\ Queued(r)' /\ Fresh(r)'
  BY <1>1, <1>6 DEF Shape, Matched, Queued, Fresh, First
<1> QED
  BY <1>0, <1>2, <1>3, <1>5, <1>7 DEF WriterInv

LEMMA TakeKeeps == ASSUME WriterInv, NEW r \in Replicas, Take(r) PROVE WriterInv'
<1>0. TypeOK /\ TypeOK' /\ Shape(r) /\ Queued(r) /\ Fresh(r)
  BY TakeTyped, InvTypes
<1>1. /\ run[r] = "select" /\ UNCHANGED <<table, sent, caller, reply, outcome>>
      /\ \A s \in Replicas \ {r} : in'[s] = in[s] /\ buf'[s] = buf[s] /\ run'[s] = run[s]
  BY <1>0 DEF TypeOK, Take
<1>2. AnswerInv'
  BY <1>1 DEF WriterInv, AnswerInv, OwnAnswer
<1>3. OrderInv'
  BY <1>1, SameOrder
<1>4. \A s \in Replicas \ {r} : Shape(s)' /\ Matched(s)' /\ Queued(s)' /\ Fresh(s)'
  BY <1>1, OtherWriter, SameTable DEF SameWriter, Waits
<1>5. PICK c, b, n, k : c = in'[r] /\ b = buf'[r] /\ n = Len(in[r]) /\ k = Len(buf[r])
  OBVIOUS
<1>6. /\ n \in Nat \ {0} /\ k \in Nat /\ DOMAIN in[r] = 1 .. n /\ DOMAIN buf[r] = 1 .. k
      /\ DOMAIN c = 1 .. n - 1 /\ \A i \in 1 .. n - 1 : c[i] = in[r][i + 1]
      /\ Len(b) = k + 1 /\ DOMAIN b = 1 .. k + 1
      /\ \A i \in 1 .. k : b[i] = buf[r][i]
      /\ b[k + 1] = in[r][1]
  BY <1>0, <1>5, Taken, LenProperties
<1>7. Shape(r)'
  <2>1. run'[r] = IF Len(b) >= MaxBatchSize THEN "insert" ELSE "select"
    BY <1>0, <1>1, <1>5 DEF Take, TypeOK
  <2> QED
    BY <1>5, <1>6, <2>1, WriterAssumption, EmptySeq DEF Shape, WriterAssumption
<1>8. First(r) = 1 /\ First(r)' = 1 /\ run'[r] # "respond" /\ Matched(r)'
  BY <1>0, <1>1 DEF First, Take, TypeOK, Matched
<1>9. \A i \in DOMAIN b : i \in 1 .. k \/ i = k + 1
  BY <1>6
<1>10. \A i \in DOMAIN c : i + 1 \in 1 .. n /\ i + 1 # 1 /\ c[i] = in[r][i + 1]
  BY <1>6
<1>11. 1 \in 1 .. n
  BY <1>6
<1>12. Queued(r)'
  <2> DEFINE o == in[r]
             d == buf[r]
  <2>1. /\ \A i \in 1 .. n : Waits(r, o[i])
        /\ \A i \in 1 .. k : Waits(r, d[i])
        /\ \A i, j \in 1 .. n : o[i] = o[j] => i = j
        /\ \A i, j \in 1 .. k : d[i] = d[j] => i = j
        /\ \A i \in 1 .. n, j \in 1 .. k : o[i] # d[j]
    <3>1. First(r) .. Len(buf[r]) = 1 .. k /\ DOMAIN in[r] = 1 .. n
      BY <1>5, <1>6, <1>8
    <3> QED
      BY <1>0, <3>1 DEF Queued
  <2>2. \A x : Waits(r, x) => Waits(r, x)'
    BY <1>1 DEF Waits
  <2>3. /\ \A i \in DOMAIN c : i + 1 \in 1 .. n /\ i + 1 # 1 /\ c[i] = o[i + 1]
        /\ \A i \in DOMAIN b : (i \in 1 .. k /\ b[i] = d[i]) \/ (i = k + 1 /\ b[i] = o[1])
        /\ 1 \in 1 .. n
    BY <1>6, <1>9, <1>10, <1>11
  <2>4. DOMAIN c \subseteq Nat /\ DOMAIN b \subseteq Nat
    BY <1>6
  <2> HIDE DEF o, d
  <2>5. \A i \in DOMAIN c : Waits(r, c[i])'
    BY <2>1, <2>2, <2>3
  <2>6. \A i \in DOMAIN b : Waits(r, b[i])'
    BY <2>1, <2>2, <2>3
  <2>7. \A i, j \in DOMAIN c : c[i] = c[j] => i = j
    <3> SUFFICES ASSUME NEW i \in DOMAIN c, NEW j \in DOMAIN c, c[i] = c[j] PROVE i = j
      OBVIOUS
    <3>1. i + 1 = j + 1
      BY <2>1, <2>3
    <3> QED
      BY <3>1, <2>4
  <2>8. \A i, j \in DOMAIN b : b[i] = b[j] => i = j
    BY <2>1, <2>3
  <2>9. \A i \in DOMAIN c, j \in DOMAIN b : c[i] # b[j]
    BY <2>1, <2>3
  <2> QED
    <3>1. DOMAIN b = 1 .. Len(b)
      BY <1>6
    <3> QED
      BY <1>5, <1>8, <2>5, <2>6, <2>7, <2>8, <2>9, <3>1 DEF Queued
<1>13. Fresh(r)'
  <2>1. \A i \in DOMAIN c : Older(c[i][1], c[i][2])
    BY <1>0, <1>6, <1>10 DEF Fresh
  <2>2. \A i \in DOMAIN b : Older(b[i][1], b[i][2])
    BY <1>0, <1>1, <1>6, <1>9, <1>11 DEF Fresh
  <2> QED
    BY <1>1, <1>5, <2>1, <2>2 DEF Fresh, Older
<1> QED
  BY <1>0, <1>2, <1>3, <1>4, <1>7, <1>8, <1>12, <1>13 DEF WriterInv

LEMMA RespondKeeps == ASSUME WriterInv, NEW r \in Replicas, Respond(r) PROVE WriterInv'
<1>0. TypeOK /\ TypeOK' /\ Shape(r) /\ Matched(r) /\ Queued(r) /\ Fresh(r)
  BY RespondTyped, InvTypes
<1>a. PICK m, n, k, f : m = Addressee(r) /\ n = Len(buf[r]) /\ k = Len(outcome[r]) /\ f = First(r)
  OBVIOUS
<1>b. /\ run[r] = "respond" /\ UNCHANGED <<table, sent, caller, in>> /\ reply[m] = <<>>
      /\ \A s \in Replicas \ {r} : outcome'[s] = outcome[s] /\ buf'[s] = buf[s] /\ run'[s] = run[s]
  BY <1>0, <1>a DEF TypeOK, Respond
<1>c. /\ n \in Nat /\ k \in 1 .. n /\ f = n + 1 - k /\ f \in 1 .. n /\ m = buf[r][f] /\ m \in Messages
      /\ Len(outcome'[r]) = k - 1 /\ \A i \in 1 .. k - 1 : outcome'[r][i] = outcome[r][i + 1]
  BY <1>0, <1>a, Responded
<1>d. reply'[m] = <<outcome[r][1]>> /\ \A x \in Messages \ {m} : reply'[x] = reply[x]
  BY <1>0, <1>a, <1>c, Responded DEF TypeOK
<1>2. \/ k > 1 /\ buf'[r] = buf[r] /\ run'[r] = "respond"
      \/ k = 1 /\ buf'[r] = <<>> /\ run'[r] = "select"
  BY <1>0, <1>a, <1>b DEF TypeOK, Respond, Reset
<1>3. Waits(r, m)
  <2>1. f \in f .. n
    BY <1>c
  <2> QED
    BY <1>0, <1>a, <1>c, <2>1 DEF Queued
<1>4. outcome[r][1] = Error \/ (outcome[r][1] \in DOMAIN table /\ table[outcome[r][1]] = m)
  <2>1. 1 \in 1 .. k /\ n - k + 1 = f
    BY <1>c
  <2> QED
    BY <1>0, <1>a, <1>b, <1>c, <2>1 DEF Matched
<1>5. AnswerInv'
  <2>1. \A x \in Messages : reply[x] # <<>> => caller[x[1]] = "waiting" /\ sent[x[1]] = x[2]
    BY DEF WriterInv, AnswerInv
  <2>2. (\A x \in Messages : reply[x] # <<>> => caller[x[1]] = "waiting" /\ sent[x[1]] = x[2])'
    BY <1>b, <1>d, <1>3, <2>1 DEF Waits
  <2>3. OwnAnswer'
    <3>1. ASSUME NEW x \in Messages \ {m}, reply'[x] \notin {<<>>, <<Error>>}
          PROVE  \E id \in DOMAIN table : reply'[x] = <<id>> /\ table[id] = x
      BY <1>d, <3>1 DEF WriterInv, AnswerInv, OwnAnswer
    <3>2. ASSUME reply'[m] \notin {<<>>, <<Error>>}
          PROVE  \E id \in DOMAIN table : reply'[m] = <<id>> /\ table[id] = m
      BY <1>d, <1>4, <3>2
    <3> QED
      BY <1>b, <3>1, <3>2 DEF OwnAnswer
  <2> QED
    BY <2>2, <2>3 DEF AnswerInv
<1>6. OrderInv'
  BY <1>b, SameOrder
<1>7. \A s \in Replicas, x \in Messages : Waits(s, x) /\ x # m => Waits(s, x)'
  BY <1>b, <1>d DEF Waits
<1>8. ASSUME NEW s \in Replicas \ {r} PROVE Shape(s)' /\ Matched(s)' /\ Queued(s)' /\ Fresh(s)'
  <2>1. \A x \in Messages : Waits(s, x) => Waits(s, x)'
    BY <1>3, <1>7 DEF Waits
  <2> QED
    BY <1>b, <2>1, OtherWriter, SameTable DEF SameWriter
<1>q. /\ \A i \in DOMAIN in[r] : Waits(r, in[r][i]) /\ Older(in[r][i][1], in[r][i][2])
      /\ \A i \in f .. n : Waits(r, buf[r][i])
      /\ \A i, j \in DOMAIN in[r] : in[r][i] = in[r][j] => i = j
      /\ \A i, j \in f .. n : buf[r][i] = buf[r][j] => i = j
      /\ \A i \in DOMAIN in[r], j \in f .. n : in[r][i] # buf[r][j]
  BY <1>0, <1>a DEF Queued, Fresh
<1>9. \A i \in DOMAIN in[r] : Waits(r, in[r][i])'
  <2> TAKE i \in DOMAIN in[r]
  <2>1. f \in f .. n
    BY <1>c
  <2>2. PICK x \in Messages : x = in[r][i] /\ Waits(r, x) /\ x # m
    BY <1>c, <1>q, <2>1, InvTypes
  <2> QED
    BY <1>b, <1>7, <2>2 DEF Waits
<1>10. \A i \in DOMAIN in[r] : Older(in[r][i][1], in[r][i][2])'
  BY <1>b, <1>q DEF Older
<1>11. CASE k = 1
  <2>1. buf'[r] = <<>> /\ run'[r] = "select" /\ First(r)' = 1
    BY <1>2, <1>11 DEF First
  <2>2. Len(<<>>) < MaxBatchSize /\ Len(<<>>) = 0 /\ DOMAIN <<>> = {} /\ 1 .. 0 = {}
    BY WriterAssumption DEF WriterAssumption
  <2>3. Shape(r)' /\ Matched(r)'
    BY <2>1, <2>2 DEF Shape, Matched
  <2>4. Queued(r)'
    BY <1>b, <1>q, <1>9, <2>1, <2>2 DEF Queued
  <2>5. Fresh(r)'
    BY <1>b, <1>10, <2>1, <2>2 DEF Fresh
  <2> QED
    BY <1>0, <1>5, <1>6, <1>8, <2>3, <2>4, <2>5 DEF WriterInv
<1>12. CASE k > 1
  <2>1. buf'[r] = buf[r] /\ run'[r] = "respond"
    BY <1>2, <1>12
  <2>2. First(r)' = f + 1 /\ k - 1 \in 1 .. n
    <3>1. First(r)' = n + 1 - (k - 1)
      BY <1>a, <1>c, <2>1 DEF First
    <3> QED
      BY <1>c, <1>12, <3>1
  <2>3. Shape(r)'
    BY <1>a, <1>c, <2>1, <2>2 DEF Shape
  <2>4. Matched(r)'
    <3>0. n \in Nat /\ k \in Nat
      BY <1>c
    <3>1. \A i \in 1 .. k - 1 : i + 1 \in 1 .. k /\ n - (k - 1) + i = n - k + (i + 1)
      BY <3>0
    <3>2. ASSUME NEW i \in 1 .. k
          PROVE  \/ outcome[r][i] = Error
                 \/ outcome[r][i] \in DOMAIN table /\ table[outcome[r][i]] = buf[r][n - k + i]
      BY <1>0, <1>a, <1>b DEF Matched
    <3>3. ASSUME NEW i \in 1 .. k - 1
          PROVE  \/ outcome'[r][i] = Error
                 \/ outcome'[r][i] \in DOMAIN table /\ table[outcome'[r][i]] = buf[r][n - (k - 1) + i]
      BY <1>c, <3>1, <3>2
    <3> QED
      BY <1>a, <1>b, <1>c, <2>1, <3>3 DEF Matched
  <2>5. \A i \in f + 1 .. n : i \in f .. n /\ i # f /\ f \in f .. n
    BY <1>c
  <2>6. \A i \in f + 1 .. n : Waits(r, buf[r][i])'
    <3> TAKE i \in f + 1 .. n
    <3>1. buf[r][i] # m /\ Waits(r, buf[r][i])
      BY <1>c, <1>q, <2>5
    <3>2. i \in 1 .. n
      BY <1>c
    <3>3. PICK x \in Messages : x = buf[r][i] /\ x # m /\ Waits(r, x)
      BY <1>a, <3>1, <3>2, InvTypes
    <3> QED
      BY <1>7, <2>1, <3>3 DEF Waits
  <2>7. Queued(r)'
    BY <1>a, <1>b, <1>q, <1>9, <2>1, <2>2, <2>5, <2>6 DEF Queued
  <2>8. Fresh(r)'
    BY <1>b, <1>10, <2>1 DEF Fresh
  <2> QED
    BY <1>0, <1>5, <1>6, <1>8, <2>3, <2>4, <2>7, <2>8 DEF WriterInv
<1> QED
  BY <1>c, <1>11, <1>12

LEMMA InsertKeeps == ASSUME WriterInv, NEW r \in Replicas, InsertEnds(r) PROVE WriterInv'
<1>0. TypeOK /\ TypeOK' /\ Shape(r) /\ Queued(r) /\ Fresh(r)
  BY InsertTyped, InvTypes
<1>a. PICK n, k, t : n = Len(table) /\ k = Len(buf[r]) /\ t = table'
  OBVIOUS
<1>1. /\ run[r] = "insert" /\ run'[r] = "respond" /\ UNCHANGED <<sent, caller, reply, in, buf>>
      /\ \A s \in Replicas \ {r} : run'[s] = run[s] /\ outcome'[s] = outcome[s]
  BY <1>0 DEF TypeOK, InsertEnds, Insert, FailedInsert, LostInsert
<1>2. /\ n \in Nat /\ k \in Nat \ {0} /\ DOMAIN table = 1 .. n /\ DOMAIN buf[r] = 1 .. k
      /\ buf[r] \in Seq(Messages) /\ table \in Seq(Messages)
  BY <1>0, <1>1, <1>a, LenProperties, EmptySeq DEF TypeOK, Shape
<1>3. \/ /\ t = table
         /\ \A i \in 1 .. k : outcome'[r][i] = Error
      \/ /\ DOMAIN t = 1 .. n + k
         /\ \A i \in 1 .. n : t[i] = table[i]
         /\ \A i \in 1 .. k : t[n + i] = buf[r][i]
         /\ \A i \in 1 .. k : outcome'[r][i] \in {Error, n + i}
  <2>1. CASE UNCHANGED table /\ \A i \in 1 .. k : outcome'[r][i] = Error
    BY <1>a, <2>1
  <2>2. CASE t = table \o buf[r] /\ \A i \in 1 .. k : outcome'[r][i] \in {Error, n + i}
    <3>1. Len(t) = n + k /\ DOMAIN t = 1 .. n + k
      BY <1>a, <1>2, <2>2, ConcatProperties, LenProperties
    <3>2. \A i \in 1 .. n + k : t[i] = IF i <= n THEN table[i] ELSE buf[r][i - n]
      BY <1>a, <1>2, <2>2, ConcatProperties
    <3>3. /\ \A i \in 1 .. n : i \in 1 .. n + k /\ i <= n
          /\ \A i \in 1 .. k : n + i \in 1 .. n + k /\ ~ (n + i <= n) /\ (n + i) - n = i
      BY <1>2
    <3> QED
      BY <2>2, <3>1, <3>2, <3>3
  <2> QED
    BY <1>0, <1>a, <2>1, <2>2, Inserted
<1>4. Len(outcome'[r]) = k
  BY <1>0, <1>a, Inserted
<1>5. \A id \in DOMAIN table : id \in DOMAIN t /\ t[id] = table[id]
  BY <1>2, <1>3
<1>6. \A id \in DOMAIN t \ DOMAIN table : \E j \in 1 .. k : id = n + j /\ t[id] = buf[r][j]
  <2>1. CASE t = table
    BY <2>1
  <2>2. CASE DOMAIN t = 1 .. n + k /\ \A i \in 1 .. k : t[n + i] = buf[r][i]
    <3> TAKE id \in DOMAIN t \ DOMAIN table
    <3>1. id - n \in 1 .. k /\ id = n + (id - n)
      BY <1>2, <2>2
    <3> QED
      BY <2>2, <3>1
  <2> QED
    BY <1>3, <2>1, <2>2
<1>7. First(r) = 1 /\ First(r)' = 1
  BY <1>1, <1>a, <1>2, <1>4 DEF First
<1>8. /\ \A i \in DOMAIN in[r] : in[r][i] \in Messages /\ Waits(r, in[r][i])
      /\ \A i \in 1 .. k : buf[r][i] \in Messages /\ Waits(r, buf[r][i])
      /\ \A i \in DOMAIN in[r], j \in 1 .. k : in[r][i] # buf[r][j]
      /\ \A i, j \in 1 .. k : buf[r][i] = buf[r][j] => i = j
  <2>1. First(r) .. Len(buf[r]) = 1 .. k
    BY <1>a, <1>7
  <2> QED
    BY <1>0, <1>a, <2>1, InvTypes DEF Queued
<1>9. \A x, y \in Messages : Waits(r, x) /\ Waits(r, y) /\ x[1] = y[1] => x = y
  BY DEF Waits, Messages
<1>10. \A id \in DOMAIN t \ DOMAIN table : t[id] \in Messages /\ Waits(r, t[id])
  BY <1>6, <1>8
<1>11. AnswerInv'
  <2>1. OwnAnswer'
    BY <1>1, <1>5, <1>a DEF WriterInv, AnswerInv, OwnAnswer
  <2> QED
    BY <1>1, <2>1 DEF WriterInv, AnswerInv
<1>12. ASSUME NEW s \in Replicas \ {r} PROVE Shape(s)' /\ Matched(s)' /\ Queued(s)' /\ Fresh(s)'
  <2>1. ForeignRows(s)
    BY <1>a, <1>5, <1>10 DEF ForeignRows, Waits
  <2> QED
    BY <1>1, <2>1, OtherWriter DEF SameWriter, Waits
<1>13. OrderInv'
  <2>1. StoredInOrder'
    <3> SUFFICES ASSUME NEW i \in DOMAIN t, NEW j \in DOMAIN t, i < j, t[i][1] = t[j][1]
                 PROVE  t[i][2] < t[j][2]
      BY <1>a DEF StoredInOrder
    <3>1. CASE j \in DOMAIN table
      <4>1. i \in DOMAIN table
        <5>1. CASE t = table
          BY <5>1
        <5>2. CASE DOMAIN t = 1 .. n + k
          BY <1>2, <3>1, <5>2
        <5> QED
          BY <1>3, <5>1, <5>2
      <4> QED
        BY <1>5, <3>1, <4>1 DEF WriterInv, OrderInv, StoredInOrder
    <3>2. CASE i \in DOMAIN table /\ j \notin DOMAIN table
      <4>1. PICK b \in 1 .. k : t[j] = buf[r][b]
        BY <1>6, <3>2
      <4>2. Older(t[j][1], t[j][2])
        BY <1>0, <1>1, <1>2, <4>1 DEF Fresh
      <4> QED
        BY <1>5, <3>2, <4>2 DEF Older
    <3>3. CASE i \notin DOMAIN table /\ j \notin DOMAIN table
      <4>1. PICK a \in 1 .. k, b \in 1 .. k : i = n + a /\ j = n + b /\ t[i] = buf[r][a] /\ t[j] = buf[r][b]
        BY <1>6, <3>3
      <4>2. t[i] = t[j]
        BY <1>9, <1>10, <3>3
      <4>3. a = b
        BY <1>8, <4>1, <4>2
      <4> QED
        BY <1>2, <4>1, <4>3
    <3> QED
      BY <3>1, <3>2, <3>3
  <2>2. \A p \in Callers : Older(p, sent[p] + 1)'
    <3> SUFFICES ASSUME NEW p \in Callers, NEW id \in DOMAIN t, t[id][1] = p PROVE t[id][2] < sent[p] + 1
      BY <1>a, <1>1 DEF Older
    <3>1. CASE id \in DOMAIN table
      BY <1>5, <3>1 DEF WriterInv, OrderInv, Older
    <3>2. CASE id \notin DOMAIN table
      <4>1. t[id][2] = sent[p]
        BY <1>10, <3>2 DEF Waits
      <4> QED
        BY <1>0, <4>1 DEF TypeOK
    <3> QED
      BY <3>1, <3>2
  <2>3. \A p \in Callers : caller'[p] = "sending" => Older(p, sent[p])'
    <3> SUFFICES ASSUME NEW p \in Callers, caller[p] = "sending", NEW id \in DOMAIN t, t[id][1] = p
                 PROVE  t[id][2] < sent[p]
      BY <1>a, <1>1 DEF Older
    <3>1. id \in DOMAIN table
      BY <1>10 DEF Waits
    <3> QED
      BY <1>5, <3>1 DEF WriterInv, OrderInv, Older
  <2> QED
    BY <2>1, <2>2, <2>3 DEF OrderInv
<1>14. Shape(r)'
  BY <1>1, <1>2, <1>4, <1>a DEF Shape
<1>15. Matched(r)'
  <2>1. ASSUME NEW i \in 1 .. k
        PROVE  \/ outcome'[r][i] = Error
               \/ outcome'[r][i] \in DOMAIN t /\ t[outcome'[r][i]] = buf[r][k - k + i]
    <3>1. k - k + i = i
      BY <1>2
    <3>2. CASE t = table /\ outcome'[r][i] = Error
      BY <3>2
    <3>3. CASE DOMAIN t = 1 .. n + k /\ t[n + i] = buf[r][i] /\ outcome'[r][i] \in {Error, n + i}
      <4>1. n + i \in 1 .. n + k
        BY <1>2
      <4> QED
        BY <3>1, <3>3, <4>1
    <3> QED
      BY <1>3, <3>2, <3>3
  <2> QED
    BY <1>1, <1>4, <1>a, <2>1 DEF Matched
<1>16. Queued(r)'
  BY <1>0, <1>1, <1>7 DEF Queued, Waits
<1>17. Fresh(r)'
  <2>1. ASSUME NEW i \in DOMAIN in[r], NEW id \in DOMAIN t, t[id][1] = in[r][i][1]
        PROVE  t[id][2] < in[r][i][2]
    <3>1. id \in DOMAIN table
      BY <1>6, <1>8, <1>9, <2>1
    <3> QED
      BY <1>0, <1>5, <2>1, <3>1 DEF Fresh, Older
  <2> QED
    BY <1>1, <1>a, <2>1 DEF Fresh, Older
<1> QED
  BY <1>0, <1>11, <1>12, <1>13, <1>14, <1>15, <1>16, <1>17 DEF WriterInv

-----------------------------------------------------------------------------
(* The theorems                                                            *)

LEMMA WriterInvInit == Init => WriterInv
<1> SUFFICES ASSUME Init PROVE WriterInv
  OBVIOUS
<1>1. Len(<<>>) = 0 /\ DOMAIN <<>> = {} /\ 1 .. 0 = {} /\ \A S : <<>> \in Seq(S)
  BY EmptySeq
<1>2. TypeOK
  BY <1>1, WriterAssumption DEF Init, TypeOK, WriterAssumption
<1>3. AnswerInv
  BY DEF Init, AnswerInv, OwnAnswer
<1>4. OrderInv
  BY <1>1 DEF Init, OrderInv, StoredInOrder, Older
<1>5. \A r \in Replicas : Shape(r) /\ Matched(r) /\ Queued(r) /\ Fresh(r)
  BY <1>1, WriterAssumption DEF Init, Shape, Matched, Queued, Fresh, First, WriterAssumption
<1> QED
  BY <1>2, <1>3, <1>4, <1>5 DEF WriterInv

LEMMA WriterInvStep == WriterInv /\ [Next]_vars => WriterInv'
<1> SUFFICES ASSUME WriterInv, [Next]_vars PROVE WriterInv'
  OBVIOUS
<1>1. CASE \E p \in Callers : Submit(p) \/ Send(p) \/ Return(p)
  BY <1>1, SubmitKeeps, SendKeeps, ReturnKeeps
<1>2. CASE \E r \in Replicas : Take(r) \/ Tick(r) \/ InsertEnds(r) \/ Respond(r) \/ Crash(r)
  BY <1>2, TakeKeeps, TickKeeps, InsertKeeps, RespondKeeps, CrashKeeps
<1>3. CASE UNCHANGED vars
  BY <1>3 DEF vars, WriterInv, TypeOK, AnswerInv, OwnAnswer, OrderInv, StoredInOrder, Older,
              Shape, Matched, Queued, Fresh, First, Waits
<1> QED
  BY <1>1, <1>2, <1>3 DEF Next

LEMMA WriterInvariant == Spec => []WriterInv
BY WriterInvInit, WriterInvStep, PTL DEF Spec

(* The channel and the buffer keep within their bounds, and every variable *)
(* its type.                                                               *)
THEOREM WriterTypes == Spec => []TypeOK
<1>1. WriterInv => TypeOK
  BY DEF WriterInv
<1> QED
  BY <1>1, WriterInvariant, PTL

(* Whatever fails and however the replicas interleave, whoever is given an *)
(* identifier is given that of its own message.                            *)
THEOREM EveryoneItsOwn == Spec => []OwnAnswer
<1>1. WriterInv => OwnAnswer
  BY DEF WriterInv, AnswerInv
<1> QED
  BY <1>1, WriterInvariant, PTL

(* The messages of a goroutine are stored at most once and in the order in *)
(* which it submitted them.                                                *)
THEOREM StoredOnceInOrder == Spec => []StoredInOrder
<1>1. WriterInv => StoredInOrder
  BY DEF WriterInv, OrderInv
<1> QED
  BY <1>1, WriterInvariant, PTL

(* A response channel has room for the one response its request is sent.   *)
THEOREM WriterNeverBlocks == Spec => []NeverBlocked
<1>1. WriterInv => NeverBlocked
  <2> SUFFICES ASSUME WriterInv, NEW r \in Replicas, run[r] = "respond" PROVE reply[Addressee(r)] = <<>>
    BY DEF NeverBlocked
  <2>1. Len(buf[r]) \in Nat /\ Len(outcome[r]) \in 1 .. Len(buf[r])
    BY InvTypes DEF Shape
  <2>2. First(r) = Len(buf[r]) + 1 - Len(outcome[r])
    BY DEF First
  <2>3. First(r) \in 1 .. Len(buf[r])
    BY <2>1, <2>2, Countdown
  <2>4. First(r) \in First(r) .. Len(buf[r])
    BY <2>1, <2>3
  <2>5. Addressee(r) = buf[r][First(r)]
    BY <2>2 DEF Addressee
  <2>6. \A i \in First(r) .. Len(buf[r]) : Waits(r, buf[r][i])
    BY InvTypes DEF Queued
  <2> QED
    BY <2>4, <2>5, <2>6 DEF Waits
<1> QED
  BY <1>1, WriterInvariant, PTL

-----------------------------------------------------------------------------
(* No request is lost                                                      *)

(* The request of p is in the channel, or in the buffer without a response.*)
There(p) ==
    \/ \E i \in DOMAIN in[p[1]] : in[p[1]][i] = Current(p)
    \/ \E i \in First(p[1]) .. Len(buf[p[1]]) : buf[p[1]][i] = Current(p)

NoneForgotten ==
    \A p \in Callers : caller[p] = "waiting" /\ reply[Current(p)] = <<>> => There(p)

LEMMA StillThere ==
    ASSUME NEW p \in Callers, There(p), Current(p)' = Current(p), SameWriter(p[1])
    PROVE  There(p)'
<1>1. First(p[1])' = First(p[1])
  BY DEF SameWriter, First
<1> QED
  BY <1>1 DEF SameWriter, There

(* A step of a caller, seen by another. *)
LEMMA OtherCallers ==
    ASSUME WriterInv, NoneForgotten, NEW p \in Callers, Submit(p) \/ Return(p),
           NEW q \in Callers \ {p}, caller'[q] = "waiting", reply'[Current(q)'] = <<>>
    PROVE  There(q)'
<1>1. TypeOK
  BY DEF WriterInv
<1>2. caller[q] = "waiting" /\ sent'[q] = sent[q] /\ UNCHANGED <<in, buf, run, outcome>>
  BY <1>1 DEF TypeOK, Submit, Return
<1>3. Current(q)' = Current(q) /\ Current(q) \in Messages /\ Current(q) # Current(p)
  BY <1>1, <1>2, CurrentMessage DEF Current
<1>4. reply'[Current(q)] = reply[Current(q)]
  BY <1>1, <1>3 DEF TypeOK, Submit, Return
<1>5. SameWriter(q[1])
  BY <1>2 DEF SameWriter
<1> QED
  BY <1>2, <1>3, <1>4, <1>5, StillThere DEF NoneForgotten

LEMMA SendForgetsNone ==
    ASSUME WriterInv, NoneForgotten, NEW p \in Callers, Send(p)
    PROVE  NoneForgotten'
<1> SUFFICES ASSUME NEW q \in Callers, caller'[q] = "waiting", reply'[Current(q)'] = <<>>
             PROVE  There(q)'
  BY DEF NoneForgotten
<1>1. TypeOK /\ UNCHANGED <<table, sent, reply, buf, run, outcome>> /\ p[1] \in Replicas
  BY CallerReplica DEF WriterInv, Send
<1>2. Current(q)' = Current(q) /\ q[1] \in Replicas
  BY <1>1, CallerReplica DEF Current
<1>3. /\ in[p[1]] \in Seq(Messages)
      /\ in'[p[1]] = Append(in[p[1]], Current(p)) /\ \A r \in Replicas \ {p[1]} : in'[r] = in[r]
  BY <1>1 DEF TypeOK, Send
<1>4. /\ DOMAIN in[p[1]] \subseteq DOMAIN in'[p[1]]
      /\ \A i \in DOMAIN in[p[1]] : in'[p[1]][i] = in[p[1]][i]
      /\ \E i \in DOMAIN in'[p[1]] : in'[p[1]][i] = Current(p)
  <2>1. /\ DOMAIN in[p[1]] = 1 .. Len(in[p[1]]) /\ Len(in[p[1]]) \in Nat
        /\ DOMAIN in'[p[1]] = 1 .. Len(in[p[1]]) + 1
        /\ in'[p[1]][Len(in[p[1]]) + 1] = Current(p)
        /\ \A i \in 1 .. Len(in[p[1]]) : in'[p[1]][i] = in[p[1]][i]
    BY <1>3
  <2>2. Len(in[p[1]]) + 1 \in DOMAIN in'[p[1]]
    BY <2>1
  <2> QED
    BY <2>1, <2>2
<1>5. CASE q = p
  BY <1>2, <1>4, <1>5 DEF There
<1>6. CASE q # p
  <2>1. caller[q] = "waiting"
    BY <1>1, <1>6 DEF TypeOK, Send
  <2>2. There(q)
    BY <1>1, <1>2, <2>1 DEF NoneForgotten
  <2>3. First(q[1])' = First(q[1]) /\ buf'[q[1]] = buf[q[1]]
    BY <1>1 DEF First
  <2>4. \A i \in DOMAIN in[q[1]] : i \in DOMAIN in'[q[1]] /\ in'[q[1]][i] = in[q[1]][i]
    BY <1>2, <1>3, <1>4
  <2> QED
    BY <1>2, <2>2, <2>3, <2>4 DEF There
<1> QED
  BY <1>5, <1>6

(* A step of r's writer that neither answers nor stops. *)
LEMMA WriterForgetsNone ==
    ASSUME WriterInv, NoneForgotten, NEW r \in Replicas, UNCHANGED <<sent, caller, reply>>,
           \A s \in Replicas \ {r} : SameWriter(s),
           \A p \in Callers : p[1] = r /\ There(p) => There(p)'
    PROVE  NoneForgotten'
<1> SUFFICES ASSUME NEW p \in Callers, caller[p] = "waiting", reply[Current(p)'] = <<>>
             PROVE  There(p)'
  BY DEF NoneForgotten
<1>1. Current(p)' = Current(p) /\ p[1] \in Replicas
  BY CallerReplica DEF Current
<1>2. There(p)
  BY <1>1 DEF NoneForgotten
<1> QED
  BY <1>1, <1>2, StillThere

LEMMA TakeForgetsNone ==
    ASSUME WriterInv, NoneForgotten, NEW r \in Replicas, Take(r)
    PROVE  NoneForgotten'
<1>1. /\ TypeOK /\ UNCHANGED <<table, sent, caller, reply, outcome>>
      /\ run[r] = "select" /\ run'[r] \in {"select", "insert"}
      /\ \A s \in Replicas \ {r} : SameWriter(s)
  BY DEF WriterInv, TypeOK, Take, SameWriter
<1>2. First(r) = 1 /\ First(r)' = 1
  BY <1>1 DEF First
<1>3. ASSUME NEW p \in Callers, p[1] = r, There(p) PROVE There(p)'
  <2>1. Current(p)' = Current(p)
    BY <1>1 DEF Current
  <2>2. /\ Len(in[r]) \in Nat \ {0} /\ DOMAIN in[r] = 1 .. Len(in[r]) /\ Len(buf[r]) \in Nat
        /\ DOMAIN in'[r] = 1 .. Len(in[r]) - 1
        /\ \A i \in 1 .. Len(in[r]) - 1 : in'[r][i] = in[r][i + 1]
        /\ Len(buf'[r]) = Len(buf[r]) + 1
        /\ \A i \in 1 .. Len(buf[r]) : buf'[r][i] = buf[r][i]
        /\ buf'[r][Len(buf[r]) + 1] = in[r][1]
    <3>1. /\ in[r] \in Seq(Messages) /\ Len(in[r]) \in Nat \ {0}
          /\ in'[r] \in Seq(Messages) /\ Len(in'[r]) = Len(in[r]) - 1
          /\ \A i \in 1 .. Len(in'[r]) : in'[r][i] = in[r][i + 1]
          /\ Len(buf[r]) \in Nat /\ Len(buf'[r]) = Len(buf[r]) + 1
          /\ \A i \in 1 .. Len(buf[r]) : buf'[r][i] = buf[r][i]
          /\ buf'[r][Len(buf[r]) + 1] = in[r][1]
      BY <1>1, Taken
    <3>2. DOMAIN in[r] = 1 .. Len(in[r]) /\ DOMAIN in'[r] = 1 .. Len(in'[r])
      BY <3>1, LenProperties
    <3> QED
      BY <3>1, <3>2
  <2>3. CASE \E i \in DOMAIN in[r] : in[r][i] = Current(p)
    <3>1. PICK i \in 1 .. Len(in[r]) : in[r][i] = Current(p)
      BY <2>2, <2>3
    <3>2. CASE i = 1
      <4>1. Len(buf[r]) + 1 \in 1 .. Len(buf'[r])
        BY <2>2
      <4> QED
        BY <1>2, <1>3, <2>1, <2>2, <3>1, <3>2, <4>1 DEF There
    <3>3. CASE i # 1
      <4>1. i - 1 \in 1 .. Len(in[r]) - 1 /\ in'[r][i - 1] = in[r][i]
        BY <2>2, <3>3
      <4> QED
        BY <1>3, <2>1, <2>2, <3>1, <4>1 DEF There
    <3> QED
      BY <3>2, <3>3
  <2>4. CASE \E i \in First(r) .. Len(buf[r]) : buf[r][i] = Current(p)
    <3>1. PICK i \in 1 .. Len(buf[r]) : buf[r][i] = Current(p)
      BY <1>2, <2>4
    <3>2. i \in 1 .. Len(buf'[r]) /\ buf'[r][i] = Current(p)
      BY <2>2, <3>1
    <3> QED
      BY <1>2, <1>3, <2>1, <3>2 DEF There
  <2> QED
    BY <1>3, <2>3, <2>4 DEF There
<1> QED
  BY <1>1, <1>3, WriterForgetsNone

LEMMA FlushForgetsNone ==
    ASSUME WriterInv, NoneForgotten, NEW r \in Replicas, Tick(r) \/ InsertEnds(r)
    PROVE  NoneForgotten'
<1>1. /\ TypeOK /\ UNCHANGED <<sent, caller, reply, in, buf>>
      /\ \A s \in Replicas \ {r} : SameWriter(s)
  BY DEF WriterInv, TypeOK, Tick, InsertEnds, Insert, FailedInsert, LostInsert, SameWriter
<1>2. First(r)' = First(r)
  <2>1. CASE Tick(r)
    BY <1>1, <2>1 DEF Tick, First, TypeOK
  <2>2. CASE InsertEnds(r)
    <3>1. Len(buf[r]) \in Nat /\ Len(outcome'[r]) = Len(buf[r])
      BY <1>1, <2>2, Inserted
    <3>2. run[r] = "insert" /\ run'[r] = "respond"
      BY <1>1, <2>2 DEF TypeOK, InsertEnds, Insert, FailedInsert, LostInsert
    <3> QED
      BY <1>1, <3>1, <3>2 DEF First
  <2> QED
    BY <2>1, <2>2
<1>3. ASSUME NEW p \in Callers, p[1] = r, There(p) PROVE There(p)'
  BY <1>1, <1>2, <1>3 DEF There, Current
<1> QED
  BY <1>1, <1>3, WriterForgetsNone

LEMMA Beyond ==
    ASSUME NEW n \in Nat, NEW f \in 1 .. n, NEW i \in f .. n, i # f
    PROVE  f # n /\ i \in f + 1 .. n
OBVIOUS

LEMMA RespondForgetsNone ==
    ASSUME WriterInv, NoneForgotten, NEW r \in Replicas, Respond(r)
    PROVE  NoneForgotten'
<1> SUFFICES ASSUME NEW p \in Callers, caller'[p] = "waiting", reply'[Current(p)'] = <<>>
             PROVE  There(p)'
  BY DEF NoneForgotten
<1>1. /\ TypeOK /\ Shape(r) /\ UNCHANGED <<table, sent, caller, in>>
      /\ \A s \in Replicas \ {r} : SameWriter(s)
  BY InvTypes DEF TypeOK, Respond, SameWriter
<1>2. Current(p)' = Current(p) /\ Current(p) \in Messages /\ p[1] \in Replicas
  BY <1>1, CurrentMessage, CallerReplica DEF Current
<1>3. /\ Len(buf[r]) \in Nat /\ Len(outcome[r]) \in 1 .. Len(buf[r])
      /\ First(r) = Len(buf[r]) + 1 - Len(outcome[r]) /\ First(r) \in 1 .. Len(buf[r])
      /\ Addressee(r) = buf[r][First(r)] /\ Addressee(r) \in Messages
      /\ reply' = [reply EXCEPT ![Addressee(r)] = <<outcome[r][1]>>]
      /\ Len(outcome'[r]) = Len(outcome[r]) - 1
  BY <1>1, Responded
<1>4. Current(p) # Addressee(r) /\ reply[Current(p)] = <<>>
  BY <1>1, <1>2, <1>3 DEF TypeOK
<1>5. There(p)
  BY <1>1, <1>2, <1>4 DEF NoneForgotten
<1>6. CASE p[1] # r
  BY <1>1, <1>2, <1>5, <1>6, StillThere
<1>7. CASE p[1] = r
  <2>1. CASE \E i \in DOMAIN in[r] : in[r][i] = Current(p)
    BY <1>1, <1>2, <1>7, <2>1 DEF There
  <2>2. CASE \E i \in First(r) .. Len(buf[r]) : buf[r][i] = Current(p)
    <3>1. PICK i \in First(r) .. Len(buf[r]) : buf[r][i] = Current(p)
      BY <2>2
    <3>2. i # First(r)
      BY <1>3, <1>4, <3>1
    <3>3. Len(outcome[r]) # 1
      <4>1. Len(outcome[r]) = 1 => First(r) = Len(buf[r])
        BY <1>3
      <4>2. First(r) # Len(buf[r])
        BY <1>3, <3>1, <3>2, Beyond
      <4> QED
        BY <4>1, <4>2
    <3>4. UNCHANGED <<buf, run>> /\ run[r] = "respond"
      BY <3>3 DEF Respond
    <3>5. First(r)' = First(r) + 1
      <4>1. First(r)' = Len(buf[r]) + 1 - Len(outcome'[r])
        BY <3>4 DEF First
      <4> QED
        BY <1>3, <4>1
    <3>6. i \in First(r)' .. Len(buf[r])
      <4>1. i \in First(r) + 1 .. Len(buf[r])
        BY <1>3, <3>1, <3>2, Beyond
      <4> QED
        BY <3>5, <4>1
    <3> QED
      BY <1>2, <1>7, <3>1, <3>4, <3>6 DEF There
  <2> QED
    BY <1>5, <1>7, <2>1, <2>2 DEF There
<1> QED
  BY <1>6, <1>7

LEMMA CrashForgetsNone ==
    ASSUME WriterInv, NoneForgotten, NEW r \in Replicas, Crash(r)
    PROVE  NoneForgotten'
<1> SUFFICES ASSUME NEW p \in Callers, caller'[p] = "waiting", reply'[Current(p)'] = <<>>
             PROVE  There(p)'
  BY DEF NoneForgotten
<1>1. /\ TypeOK /\ UNCHANGED <<table, sent>>
      /\ \A s \in Replicas \ {r} : SameWriter(s)
  BY DEF WriterInv, TypeOK, Crash, SameWriter
<1>2. p[1] # r /\ caller[p] = "waiting"
  BY <1>1 DEF TypeOK, Crash
<1>3. Current(p)' = Current(p) /\ Current(p) \in Messages /\ Current(p)[1] = p /\ p[1] \in Replicas
  BY <1>1, <1>2, CurrentMessage, CallerReplica DEF Current
<1>4. reply[Current(p)] = <<>>
  BY <1>1, <1>2, <1>3 DEF TypeOK, Crash
<1> QED
  BY <1>1, <1>2, <1>3, <1>4, StillThere DEF NoneForgotten

LEMMA NoneForgottenStep == WriterInv /\ NoneForgotten /\ [Next]_vars => NoneForgotten'
<1> SUFFICES ASSUME WriterInv, NoneForgotten, [Next]_vars PROVE NoneForgotten'
  OBVIOUS
<1>1. CASE \E p \in Callers : Submit(p) \/ Return(p)
  <2> PICK p \in Callers : Submit(p) \/ Return(p)
    BY <1>1
  <2>1. caller'[p] # "waiting"
    BY DEF WriterInv, TypeOK, Submit, Return
  <2> QED
    BY <2>1, OtherCallers DEF NoneForgotten
<1>2. CASE \E p \in Callers : Send(p)
  BY <1>2, SendForgetsNone
<1>3. CASE \E r \in Replicas : Take(r) \/ Tick(r) \/ InsertEnds(r) \/ Respond(r) \/ Crash(r)
  BY <1>3, TakeForgetsNone, FlushForgetsNone, RespondForgetsNone, CrashForgetsNone
<1>4. CASE UNCHANGED vars
  BY <1>4 DEF vars, NoneForgotten, There, Current, First
<1> QED
  BY <1>1, <1>2, <1>3, <1>4 DEF Next

LEMMA Joined ==
    ASSUME NEW S, NEW a \in Seq(S), NEW b \in Seq(S)
    PROVE  /\ \A i \in 1 .. Len(a) : i \in DOMAIN (a \o b) /\ (a \o b)[i] = a[i]
           /\ \A i \in 1 .. Len(b) : Len(a) + i \in DOMAIN (a \o b) /\ (a \o b)[Len(a) + i] = b[i]
           /\ \A i \in DOMAIN (a \o b) : i \in 1 .. Len(a) \/ \E j \in 1 .. Len(b) : i = Len(a) + j
<1>1. /\ Len(a) \in Nat /\ Len(b) \in Nat /\ DOMAIN (a \o b) = 1 .. Len(a) + Len(b)
      /\ \A i \in 1 .. Len(a) + Len(b) : (a \o b)[i] = IF i <= Len(a) THEN a[i] ELSE b[i - Len(a)]
  BY ConcatProperties, LenProperties
<1>2. ASSUME NEW i \in 1 .. Len(a) + Len(b), i \notin 1 .. Len(a)
      PROVE  \E j \in 1 .. Len(b) : i = Len(a) + j
  <2>1. i - Len(a) \in 1 .. Len(b) /\ i = Len(a) + (i - Len(a))
    BY <1>1, <1>2
  <2> QED
    BY <2>1
<1> QED
  BY <1>1, <1>2

LEMMA Offsets ==
    ASSUME NEW n \in Nat, NEW f \in 1 .. n + 1
    PROVE  /\ \A i \in 1 .. n + 1 - f : f + i - 1 \in f .. n
           /\ \A i, j \in 1 .. n + 1 - f : f + i - 1 = f + j - 1 => i = j
           /\ \A j \in f .. n : j + 1 - f \in 1 .. n + 1 - f /\ f + (j + 1 - f) - 1 = j
OBVIOUS

(* The requests of the buffer that have no response yet. *)
LEMMA Unanswered ==
    ASSUME WriterInv, NEW r \in Replicas
    PROVE  \E s \in Seq(Messages) :
             /\ Pending(r) = in[r] \o s
             /\ \A i \in 1 .. Len(s) : Waits(r, s[i])
             /\ \A i, j \in 1 .. Len(s) : s[i] = s[j] => i = j
             /\ \A i \in 1 .. Len(in[r]), j \in 1 .. Len(s) : in[r][i] # s[j]
             /\ \A j \in First(r) .. Len(buf[r]) : \E i \in 1 .. Len(s) : s[i] = buf[r][j]
<1> DEFINE f == First(r)
           n == Len(buf[r])
           s == SubSeq(buf[r], f, n)
<1>1. /\ n \in Nat /\ f \in 1 .. n + 1 /\ Queued(r) /\ DOMAIN in[r] = 1 .. Len(in[r])
      /\ \A i \in 1 .. n : buf[r][i] \in Messages
  BY InvTypes
<1>2. Pending(r) = in[r] \o s
  BY DEF Pending, First
<1>3. /\ \A i \in f .. n : Waits(r, buf[r][i])
      /\ \A i, j \in f .. n : buf[r][i] = buf[r][j] => i = j
      /\ \A i \in 1 .. Len(in[r]), j \in f .. n : in[r][i] # buf[r][j]
  BY <1>1 DEF Queued
<1> HIDE DEF f, n
<1>4. /\ s \in Seq(Messages) /\ Len(s) = n + 1 - f
      /\ \A i \in 1 .. n + 1 - f : s[i] = buf[r][f + i - 1]
  <2>1. f \in Int /\ n \in Int /\ \A i \in f .. n : buf[r][i] \in Messages
    BY <1>1
  <2>2. /\ s \in Seq(Messages) /\ Len(s) = IF f <= n THEN n - f + 1 ELSE 0
        /\ \A i \in 1 .. n - f + 1 : s[i] = buf[r][f + i - 1]
    BY <2>1, SubSeqProperties
  <2>3. n - f + 1 = n + 1 - f /\ (~(f <= n) => n + 1 - f = 0)
    BY <1>1
  <2> QED
    BY <2>2, <2>3
<1> HIDE DEF s
<1>5. /\ \A i \in 1 .. n + 1 - f : f + i - 1 \in f .. n
      /\ \A i, j \in 1 .. n + 1 - f : f + i - 1 = f + j - 1 => i = j
      /\ \A j \in f .. n : j + 1 - f \in 1 .. n + 1 - f /\ f + (j + 1 - f) - 1 = j
  BY <1>1, Offsets
<1>6. \A i \in 1 .. Len(s) : \E j \in f .. n : j = f + i - 1 /\ s[i] = buf[r][j]
  BY <1>4, <1>5
<1>7. ASSUME NEW i \in 1 .. Len(s), NEW j \in 1 .. Len(s), s[i] = s[j] PROVE i = j
  <2>1. PICK a \in f .. n : a = f + i - 1 /\ s[i] = buf[r][a]
    BY <1>6
  <2>2. PICK b \in f .. n : b = f + j - 1 /\ s[j] = buf[r][b]
    BY <1>6
  <2>3. a = b
    BY <1>3, <1>7, <2>1, <2>2
  <2> QED
    BY <1>4, <1>5, <2>1, <2>2, <2>3
<1>8. ASSUME NEW j \in f .. n PROVE \E i \in 1 .. Len(s) : s[i] = buf[r][j]
  <2>1. PICK i \in 1 .. n + 1 - f : f + i - 1 = j
    BY <1>5
  <2> QED
    BY <1>4, <2>1
<1>9. /\ \A i \in 1 .. Len(s) : Waits(r, s[i])
      /\ \A i \in 1 .. Len(in[r]), j \in 1 .. Len(s) : in[r][i] # s[j]
  BY <1>3, <1>6
<1>10. \A j \in First(r) .. Len(buf[r]) : \E i \in 1 .. Len(s) : s[i] = buf[r][j]
  BY <1>8 DEF f, n
<1> QED
  BY <1>2, <1>4, <1>7, <1>9, <1>10

(* Whatever fails or stops, a sender that waits has its request in exactly *)
(* one place until it is answered, and in none afterwards: a flush takes   *)
(* nothing out of the buffer that nobody was told about.                   *)
THEOREM RequestsKept == Spec => []NoRequestLost
<1>1. Init => NoneForgotten
  BY DEF Init, NoneForgotten
<1>2. WriterInv /\ NoneForgotten => NoRequestLost
  <2> SUFFICES ASSUME WriterInv, NoneForgotten, NEW p \in Callers, caller[p] = "waiting"
               PROVE  Cardinality({i \in DOMAIN Pending(p[1]) : Pending(p[1])[i] = Current(p)})
                        = IF reply[Current(p)] = <<>> THEN 1 ELSE 0
    BY DEF NoRequestLost
  <2> DEFINE r == p[1]
             places == {i \in DOMAIN Pending(r) : Pending(r)[i] = Current(p)}
  <2>1. r \in Replicas
    BY CallerReplica
  <2>2. There(p) \/ reply[Current(p)] # <<>>
    BY DEF NoneForgotten
  <2>3. There(p) => \/ \E i \in DOMAIN in[r] : in[r][i] = Current(p)
                    \/ \E i \in First(r) .. Len(buf[r]) : buf[r][i] = Current(p)
    BY DEF There
  <2> HIDE DEF r
  <2>4. PICK s \in Seq(Messages) :
             /\ Pending(r) = in[r] \o s
             /\ \A i \in 1 .. Len(s) : Waits(r, s[i])
             /\ \A i, j \in 1 .. Len(s) : s[i] = s[j] => i = j
             /\ \A i \in 1 .. Len(in[r]), j \in 1 .. Len(s) : in[r][i] # s[j]
             /\ \A j \in First(r) .. Len(buf[r]) : \E i \in 1 .. Len(s) : s[i] = buf[r][j]
    BY <2>1, Unanswered
  <2>5. /\ in[r] \in Seq(Messages) /\ DOMAIN in[r] = 1 .. Len(in[r])
        /\ \A i \in 1 .. Len(in[r]) : Waits(r, in[r][i])
        /\ \A i, j \in 1 .. Len(in[r]) : in[r][i] = in[r][j] => i = j
    BY <2>1, InvTypes DEF Queued
  <2>6. /\ \A i \in 1 .. Len(in[r]) : i \in DOMAIN Pending(r) /\ Pending(r)[i] = in[r][i]
        /\ \A i \in 1 .. Len(s) : /\ Len(in[r]) + i \in DOMAIN Pending(r)
                                  /\ Pending(r)[Len(in[r]) + i] = s[i]
        /\ \A i \in DOMAIN Pending(r) : i \in 1 .. Len(in[r])
                                        \/ \E j \in 1 .. Len(s) : i = Len(in[r]) + j
    BY <2>4, <2>5, Joined
  <2>7. ASSUME NEW i \in DOMAIN Pending(r) PROVE Waits(r, Pending(r)[i])
    <3>1. CASE i \in 1 .. Len(in[r])
      BY <2>5, <2>6, <3>1
    <3>2. CASE i \notin 1 .. Len(in[r])
      <4>1. PICK j \in 1 .. Len(s) : i = Len(in[r]) + j
        BY <2>6, <3>2
      <4> QED
        BY <2>4, <2>6, <4>1
    <3> QED
      BY <3>1, <3>2
  <2>8. ASSUME NEW i \in DOMAIN Pending(r), NEW j \in DOMAIN Pending(r), Pending(r)[i] = Pending(r)[j]
        PROVE  i = j
    <3>1. CASE i \in 1 .. Len(in[r]) /\ j \in 1 .. Len(in[r])
      BY <2>5, <2>6, <2>8, <3>1
    <3>2. CASE i \in 1 .. Len(in[r]) /\ j \notin 1 .. Len(in[r])
      BY <2>4, <2>6, <2>8, <3>2
    <3>3. CASE i \notin 1 .. Len(in[r]) /\ j \in 1 .. Len(in[r])
      BY <2>4, <2>6, <2>8, <3>3
    <3>4. CASE i \notin 1 .. Len(in[r]) /\ j \notin 1 .. Len(in[r])
      <4>1. PICK a \in 1 .. Len(s) : i = Len(in[r]) + a
        BY <2>6, <3>4
      <4>2. PICK b \in 1 .. Len(s) : j = Len(in[r]) + b
        BY <2>6, <3>4
      <4>3. Pending(r)[i] = s[a] /\ Pending(r)[j] = s[b]
        BY <2>6, <4>1, <4>2
      <4>4. s[a] = s[b]
        BY <2>8, <4>3
      <4>5. a = b
        BY <2>4, <4>4
      <4> QED
        BY <4>1, <4>2, <4>5
    <3> QED
      BY <3>1, <3>2, <3>3, <3>4
  <2>9. CASE reply[Current(p)] # <<>>
    <3>1. places = {}
      BY <2>7, <2>9 DEF Waits
    <3> QED
      BY <2>9, <3>1, FS_EmptySet DEF r
  <2>10. CASE reply[Current(p)] = <<>>
    <3>1. PICK i \in DOMAIN Pending(r) : Pending(r)[i] = Current(p)
      <4>1. CASE \E i \in DOMAIN in[r] : in[r][i] = Current(p)
        BY <2>5, <2>6, <4>1
      <4>2. CASE \E j \in First(r) .. Len(buf[r]) : buf[r][j] = Current(p)
        <5>1. PICK i \in 1 .. Len(s) : s[i] = Current(p)
          BY <2>4, <4>2
        <5> QED
          BY <2>6, <5>1
      <4> QED
        BY <2>2, <2>3, <2>10, <4>1, <4>2
    <3>2. places = {i}
      BY <2>8, <3>1
    <3> QED
      BY <2>10, <3>2, FS_Singleton DEF r
  <2> QED
    BY <2>9, <2>10
<1> QED
  BY <1>1, <1>2, NoneForgottenStep, WriterInvariant, PTL DEF Spec

-----------------------------------------------------------------------------
(* BatchWriter implements Submission: every step of the writer is, for its *)
(* callers, one of the steps Submission allows or none.                    *)

Calls == [p \in Callers |-> Call(p)]

(* A caller whose position in Submit and whose message's response channel  *)
(* stay as they are sees nothing.                                          *)
LEMMA SameCall ==
    ASSUME NEW p \in Callers, caller'[p] = caller[p], sent'[p] = sent[p],
           reply'[Current(p)] = reply[Current(p)]
    PROVE  Call(p)' = Call(p)
<1>1. Current(p)' = Current(p)
  BY DEF Current
<1> QED
  BY <1>1 DEF Call

LEMMA SameCalls ==
    ASSUME \A p \in Callers : Call(p)' = Call(p)
    PROVE  Calls' = Calls
BY DEF Calls

(* Steps inside the writer are no steps for its callers.                   *)
LEMMA InnerStep ==
    ASSUME UNCHANGED <<table, sent, reply>>,
           \A p \in Callers : (caller'[p] = "idle") <=> (caller[p] = "idle")
    PROVE  UNCHANGED <<table, sent, Calls>>
<1>1. \A p \in Callers : Current(p)' = Current(p)
  BY DEF Current
<1>2. \A p \in Callers : Call(p)' = Call(p)
  BY <1>1 DEF Call
<1> QED
  BY <1>2, SameCalls

LEMMA SubmitPromised ==
    ASSUME WriterInv, NEW p \in Callers, Submit(p)
    PROVE  Promise!Submit(p)
<1>1. TypeOK /\ AnswerInv
  BY DEF WriterInv
<1>2. /\ caller[p] = "idle" /\ caller'[p] = "sending" /\ sent[p] < MaxSubmits
      /\ sent' = [sent EXCEPT ![p] = @ + 1] /\ sent'[p] = sent[p] + 1 /\ sent[p] \in 0 .. MaxSubmits
      /\ UNCHANGED <<table, reply>>
      /\ \A q \in Callers \ {p} : caller'[q] = caller[q] /\ sent'[q] = sent[q]
  BY <1>1 DEF TypeOK, Submit
<1>3. Current(p)' \in Messages /\ Current(p)'[1] = p
  BY <1>1, <1>2, WriterAssumption DEF Current, Messages, WriterAssumption
<1>4. reply'[Current(p)'] = <<>>
  BY <1>1, <1>2, <1>3 DEF AnswerInv
<1>5. Call(p) = [state |-> "idle"] /\ Call(p)' = [state |-> "waiting"]
  BY <1>2, <1>4 DEF Call
<1>6. \A q \in Callers \ {p} : Call(q)' = Call(q)
  BY <1>2, SameCall
<1>7. Calls' = [Calls EXCEPT ![p] = [state |-> "waiting"]]
  BY <1>5, <1>6 DEF Calls
<1> QED
  BY <1>2, <1>5, <1>7 DEF Promise!Submit, Promise!Idle, Promise!Waiting, Calls

LEMMA ReturnPromised ==
    ASSUME WriterInv, NEW p \in Callers, Return(p)
    PROVE  Promise!Return(p)
<1>1. TypeOK /\ OwnAnswer
  BY DEF WriterInv, AnswerInv
<1>2. /\ caller[p] = "waiting" /\ caller'[p] = "idle" /\ UNCHANGED <<table, sent>>
      /\ reply[Current(p)] # <<>>
      /\ \A q \in Callers \ {p} : caller'[q] = caller[q]
      /\ \A m \in Messages : m # Current(p) => reply'[m] = reply[m]
  BY <1>1 DEF TypeOK, Return
<1>3. Call(p) = [state |-> "answered", answer |-> Head(reply[Current(p)])]
  BY <1>2 DEF Call
<1>4. Call(p)' = [state |-> "idle"]
  BY <1>2 DEF Call
<1>5. ASSUME NEW q \in Callers \ {p} PROVE Call(q)' = Call(q)
  <2>1. CASE caller[q] = "idle"
    BY <1>2, <2>1 DEF Call
  <2>2. CASE caller[q] # "idle"
    <3>1. Current(q) \in Messages /\ Current(q) # Current(p)
      BY <1>1, <2>2, CurrentMessage DEF Current
    <3> QED
      BY <1>2, <3>1, SameCall
  <2> QED
    BY <2>1, <2>2
<1>6. Calls' = [Calls EXCEPT ![p] = [state |-> "idle"]]
  BY <1>4, <1>5 DEF Calls
<1>7. Calls[p] # [state |-> "idle"] /\ Calls[p] # [state |-> "waiting"]
  <2>1. Calls[p].state = "answered"
    BY <1>3 DEF Calls
  <2> QED
    BY <2>1
<1> QED
  BY <1>2, <1>6, <1>7 DEF Promise!Return, Promise!Idle, Promise!Waiting, Calls

(* An insert is the only step that adds rows, all of the messages its      *)
(* buffer holds, whose senders are waiting.                                *)
LEMMA InsertPromised ==
    ASSUME WriterInv, WriterInv', NEW r \in Replicas, InsertEnds(r)
    PROVE  Promise!Store(r) \/ UNCHANGED <<table, sent, Calls>>
<1>1. /\ run[r] = "insert" /\ UNCHANGED <<sent, caller, reply>>
  BY DEF InsertEnds, Insert, FailedInsert, LostInsert
<1>2. Calls' = Calls
  BY <1>1, SameCall, SameCalls
<1>3. CASE table' = table \o buf[r]
  <2>1. PICK n, k : n = Len(table) /\ k = Len(buf[r])
    OBVIOUS
  <2>2. /\ n \in Nat /\ k \in Nat /\ DOMAIN table = 1 .. n /\ DOMAIN table' = 1 .. n + k
        /\ \A i \in 1 .. n : table'[i] = table[i]
        /\ \A i \in 1 .. k : table'[n + i] = buf[r][i]
    <3>1. table \in Seq(Messages) /\ buf[r] \in Seq(Messages) /\ table' \in Seq(Messages)
      BY InvTypes DEF WriterInv, TypeOK
    <3>2. n \in Nat /\ k \in Nat /\ DOMAIN table = 1 .. n
      BY <2>1, <3>1, LenProperties
    <3> QED
      BY <1>3, <2>1, <3>1, <3>2, ConcatProperties, LenProperties
  <2>3. \A i \in 1 .. k : \E p \in Callers :
          /\ p[1] = r /\ Calls[p] = [state |-> "waiting"] /\ buf[r][i] = <<p, sent[p]>>
          /\ \A id \in DOMAIN table : table[id] # <<p, sent[p]>>
    <3> SUFFICES ASSUME NEW i \in 1 .. k
                 PROVE  \E p \in Callers :
                          /\ p[1] = r /\ Calls[p] = [state |-> "waiting"]
                          /\ buf[r][i] = <<p, sent[p]>>
                          /\ \A id \in DOMAIN table : table[id] # <<p, sent[p]>>
      OBVIOUS
    <3>1. First(r) = 1
      BY <1>1 DEF First
    <3>2. PICK m \in Messages : m = buf[r][i] /\ Waits(r, m) /\ Older(m[1], m[2])
      BY <1>1, <2>1, <3>1, InvTypes DEF Queued, Fresh
    <3>3. PICK p \in Callers : p = m[1] /\ m = <<p, sent[p]>>
      BY <3>2 DEF Waits, Messages
    <3>4. Call(p) = [state |-> "waiting"]
      BY <3>2, <3>3 DEF Waits, Call, Current
    <3>5. \A id \in DOMAIN table : table[id] # m
      <4>1. m[2] \in Nat /\ ~(m[2] < m[2])
        BY DEF Messages
      <4> QED
        BY <3>2, <4>1 DEF Older
    <3> QED
      BY <3>2, <3>3, <3>4, <3>5 DEF Waits, Calls
  <2>4. \A i, j \in 1 .. k : buf[r][i] = buf[r][j] => i = j
    BY <1>1, <2>1, InvTypes DEF Queued, First
  <2>5. \A i \in DOMAIN table' \ DOMAIN table : \E a \in 1 .. k : i = n + a
    <3> SUFFICES ASSUME NEW i \in 1 .. n + k, i \notin 1 .. n PROVE \E a \in 1 .. k : i = n + a
      BY <2>2
    <3>1. i - n \in 1 .. k /\ i = n + (i - n)
      BY <2>2
    <3> QED
      BY <3>1
  <2>6. Promise!Appended
    <3>1. table' \in Seq(Messages)
      BY DEF WriterInv, TypeOK
    <3>2. Promise!Messages = Messages
      BY DEF Promise!Messages, Promise!Callers, Messages, Callers
    <3>3. \A i \in DOMAIN table : i \in DOMAIN table' /\ table'[i] = table[i]
      BY <2>2
    <3> QED
      BY <3>1, <3>2, <3>3 DEF Promise!Appended
  <2>7. \A i \in Promise!Added : \E p \in Callers :
          /\ p[1] = r /\ Calls[p] = [state |-> "waiting"] /\ table'[i] = <<p, sent[p]>>
          /\ \A id \in DOMAIN table : table[id] # <<p, sent[p]>>
    <3> TAKE i \in Promise!Added
    <3>1. PICK a \in 1 .. k : i = n + a
      BY <2>5 DEF Promise!Added
    <3>2. table'[i] = buf[r][a]
      BY <2>2, <3>1
    <3> QED
      BY <2>3, <3>2
  <2>8. \A i, j \in Promise!Added : table'[i] = table'[j] => i = j
    <3> SUFFICES ASSUME NEW i \in Promise!Added, NEW j \in Promise!Added, table'[i] = table'[j]
                 PROVE  i = j
      OBVIOUS
    <3>1. PICK a \in 1 .. k : i = n + a
      BY <2>5 DEF Promise!Added
    <3>2. PICK b \in 1 .. k : j = n + b
      BY <2>5 DEF Promise!Added
    <3> QED
      BY <2>2, <2>4, <3>1, <3>2
  <2>9. Promise!Store(r)
    BY <1>1, <1>2, <2>6, <2>7, <2>8
       DEF Promise!Store, Promise!Stored, Promise!Mine, Promise!Waiting, Promise!Callers, Callers, Calls
  <2> QED
    BY <2>9
<1>4. CASE UNCHANGED table
  BY <1>1, <1>2, <1>4
<1> QED
  BY <1>3, <1>4 DEF InsertEnds, Insert, FailedInsert, LostInsert

LEMMA RespondPromised ==
    ASSUME WriterInv, WriterInv', NEW r \in Replicas, Respond(r)
    PROVE  \E p \in Callers : Promise!Answer(p)
<1>0. TypeOK /\ OwnAnswer' /\ Shape(r) /\ Queued(r)
  BY InvTypes DEF WriterInv, AnswerInv
<1>1. PICK m \in Messages : m = Addressee(r) /\ Waits(r, m)
  <2>1. Len(buf[r]) \in Nat /\ First(r) \in 1 .. Len(buf[r])
    BY <1>0, Responded
  <2>2. First(r) \in First(r) .. Len(buf[r])
    BY <2>1
  <2> QED
    BY <1>0, <2>2, Responded DEF Queued
<1>2. PICK p \in Callers : p = m[1] /\ m = <<p, sent[p]>>
  BY <1>1 DEF Waits, Messages
<1>3. PICK a : a = outcome[r][1]
  OBVIOUS
<1>4. /\ UNCHANGED <<table, sent, caller>> /\ reply'[m] = <<a>>
      /\ \A x \in Messages \ {m} : reply'[x] = reply[x]
  BY <1>0, <1>1, <1>3, Responded DEF Respond, TypeOK
<1>5. Current(p) = m /\ Current(p)' = m
  BY <1>2, <1>4 DEF Current
<1>6. Call(p) = [state |-> "waiting"] /\ Call(p)' = [state |-> "answered", answer |-> a]
  <2>1. caller[p] = "waiting" /\ caller'[p] = "waiting" /\ reply[m] = <<>>
    BY <1>1, <1>2, <1>4 DEF Waits
  <2>2. reply'[m] # <<>> /\ Head(reply'[m]) = a
    BY <1>4
  <2> QED
    BY <1>5, <2>1, <2>2 DEF Call
<1>7. ASSUME NEW q \in Callers \ {p} PROVE Call(q)' = Call(q)
  <2>1. CASE caller[q] = "idle"
    BY <1>4, <2>1 DEF Call
  <2>2. CASE caller[q] # "idle"
    <3>1. Current(q) \in Messages /\ Current(q) # m
      BY <1>0, <1>2, <2>2, CurrentMessage DEF Current
    <3> QED
      BY <1>4, <3>1, SameCall
  <2> QED
    BY <2>1, <2>2
<1>8. Calls' = [Calls EXCEPT ![p] = [state |-> "answered", answer |-> a]]
  BY <1>6, <1>7 DEF Calls
<1>9. a = Error \/ (a \in DOMAIN table /\ table[a] = <<p, sent[p]>>)
  <2>1. CASE reply'[m] = <<Error>>
    BY <1>4, <2>1
  <2>2. CASE reply'[m] # <<Error>>
    <3>1. reply'[m] # <<>>
      BY <1>4
    <3>2. PICK id \in DOMAIN table : reply'[m] = <<id>> /\ table[id] = m
      BY <1>0, <1>4, <2>2, <3>1 DEF OwnAnswer
    <3>3. id = a
      BY <1>4, <3>2
    <3> QED
      BY <1>2, <3>2, <3>3
  <2> QED
    BY <2>1, <2>2
<1>10. a \in Promise!Answers(p)
  BY <1>9 DEF Promise!Answers, Promise!Mine, Promise!Error, Error
<1>11. Calls[p] = [state |-> "waiting"]
  BY <1>6 DEF Calls
<1>12. Promise!Answer(p)
  BY <1>4, <1>8, <1>10, <1>11 DEF Promise!Answer, Promise!Waiting, Promise!Told, Calls
<1> QED
  BY <1>12

LEMMA CrashPromised ==
    ASSUME WriterInv, NEW r \in Replicas, Crash(r)
    PROVE  Promise!Abandon(r)
<1>0. TypeOK
  BY DEF WriterInv
<1>1. /\ UNCHANGED <<table, sent>>
      /\ \A p \in Callers : caller'[p] = IF p[1] = r THEN "idle" ELSE caller[p]
      /\ \A m \in Messages : reply'[m] = IF m[1][1] = r THEN <<>> ELSE reply[m]
  BY <1>0 DEF TypeOK, Crash
<1>2. ASSUME NEW p \in Callers, p[1] = r PROVE Call(p)' = [state |-> "idle"]
  BY <1>1, <1>2 DEF Call
<1>3. ASSUME NEW p \in Callers, p[1] # r PROVE Call(p)' = Call(p)
  <2>1. CASE caller[p] = "idle"
    BY <1>1, <1>3, <2>1 DEF Call
  <2>2. CASE caller[p] # "idle"
    <3>1. Current(p) \in Messages /\ Current(p)[1] = p
      BY <1>0, <2>2, CurrentMessage DEF Current
    <3>2. reply'[Current(p)] = reply[Current(p)]
      BY <1>1, <1>3, <3>1
    <3> QED
      BY <1>1, <1>3, <3>2, SameCall
  <2> QED
    BY <2>1, <2>2
<1>4. Calls' = [p \in Callers |-> IF p[1] = r THEN [state |-> "idle"] ELSE Calls[p]]
  BY <1>2, <1>3 DEF Calls
<1> QED
  BY <1>1, <1>4 DEF Promise!Abandon, Promise!Idle, Promise!Callers, Callers, Calls

-----------------------------------------------------------------------------
LEMMA PromiseInit == Init => Promise!Init
<1> SUFFICES ASSUME Init PROVE Promise!Init
  OBVIOUS
<1>1. \A p \in Callers : Call(p) = [state |-> "idle"]
  BY DEF Init, Call
<1> QED
  BY <1>1 DEF Init, Promise!Init, Promise!Idle, Promise!Callers, Callers

LEMMA PromiseStep ==
    ASSUME WriterInv, WriterInv', [Next]_vars
    PROVE  [Promise!Next]_(Promise!vars)
<1>a. Promise!Callers = Callers
  BY DEF Promise!Callers, Callers
<1>b. UNCHANGED <<table, sent, Calls>> => UNCHANGED Promise!vars
  BY DEF Promise!vars, Calls
<1>1. ASSUME NEW p \in Callers, Submit(p) \/ Return(p) PROVE Promise!Next
  BY <1>a, <1>1, SubmitPromised, ReturnPromised DEF Promise!Next
<1>2. ASSUME NEW p \in Callers, Send(p) PROVE UNCHANGED <<table, sent, Calls>>
  <2>1. UNCHANGED <<table, sent, reply>> /\ \A q \in Callers : (caller'[q] = "idle") <=> (caller[q] = "idle")
    BY <1>2 DEF Send, WriterInv, TypeOK
  <2> QED
    BY <2>1, InnerStep
<1>3. ASSUME NEW r \in Replicas, Take(r) \/ Tick(r) PROVE UNCHANGED <<table, sent, Calls>>
  <2>1. UNCHANGED <<table, sent, reply, caller>>
    BY <1>3 DEF Take, Tick
  <2> QED
    BY <2>1, InnerStep
<1>4. ASSUME NEW r \in Replicas, InsertEnds(r)
      PROVE  Promise!Next \/ UNCHANGED <<table, sent, Calls>>
  BY <1>4, InsertPromised DEF Promise!Next
<1>5. ASSUME NEW r \in Replicas, Respond(r) PROVE Promise!Next
  BY <1>a, <1>5, RespondPromised DEF Promise!Next
<1>6. ASSUME NEW r \in Replicas, Crash(r) PROVE Promise!Next
  BY <1>6, CrashPromised DEF Promise!Next
<1>7. ASSUME UNCHANGED vars PROVE UNCHANGED <<table, sent, Calls>>
  <2>1. UNCHANGED <<table, sent, reply, caller>>
    BY <1>7 DEF vars
  <2> QED
    BY <2>1, InnerStep
<1> QED
  BY <1>b, <1>1, <1>2, <1>3, <1>4, <1>5, <1>6, <1>7 DEF Next

(* For any replicas, goroutines, channel and batch sizes and faults, what  *)
(* callers of Submit see is what Submission promises.                      *)
THEOREM PromiseKept == Spec => Promised
<1>1. Init => Promise!Init
  BY PromiseInit
<1>2. WriterInv /\ WriterInv' /\ [Next]_vars => [Promise!Next]_(Promise!vars)
  BY PromiseStep
<1> QED
  BY <1>1, <1>2, WriterInvariant, PTL DEF Spec, Promised, Promise!Spec
=============================================================================
