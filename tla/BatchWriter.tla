----------------------------- MODULE BatchWriter -----------------------------
(***************************************************************************)
(* services/message/internal/batch: goroutines submit messages to the      *)
(* writer of their replica and wait; the writer's one goroutine collects   *)
(* requests from a bounded channel, inserts them in bulk when the buffer   *)
(* is full or the ticker fires, and answers every request on a channel of  *)
(* its own, created with room for one response.                            *)
(*                                                                         *)
(* Submit promises to serve any number of goroutines.  handleSendMessage   *)
(* is its only caller and a replica runs one at a time, so that the        *)
(* service itself has one slot per replica.                                *)
(*                                                                         *)
(* An operator whose name ends in Mutant is a plausible mistake in the     *)
(* definition that follows it and is used nowhere.                         *)
(***************************************************************************)
EXTENDS Naturals, Sequences, FiniteSets

CONSTANTS
    Replicas,       \* running copies of message-service
    Slots,          \* goroutines of a replica that may submit
    ChanBuffer,     \* capacity of the request channel
    MaxBatchSize,   \* requests that make a batch
    Faults,         \* what may go wrong: SUBSET {"call", "answer", "crash"}
    MaxSubmits      \* bound: submissions of each goroutine

ASSUME WriterAssumption ==
    /\ ChanBuffer \in Nat \ {0}
    /\ MaxBatchSize \in Nat \ {0}
    /\ Faults \subseteq {"call", "answer", "crash"}
    /\ MaxSubmits \in Nat

Callers  == Replicas \X Slots
Messages == Callers \X (1 .. MaxSubmits)    \* the n-th message of a caller

VARIABLES
    table,      \* the rows of messages, in the order of their identifiers
    sent,       \* sent[p]: how many messages p has submitted
    caller,     \* caller[p]: where p is in Submit
    reply,      \* reply[m]: the response channel of m's request
    in,         \* in[r]: the request channel of r's writer
    buf,        \* buf[r]: the requests it has collected
    run,        \* run[r]: what its goroutine is doing
    outcome     \* outcome[r]: the responses it has still to send

vars == <<table, sent, caller, reply, in, buf, run, outcome>>

Error    == 0       \* the response of a failed insert
Response == Nat     \* the identifier of a row, or Error

TypeOK ==
    /\ table \in Seq(Messages)
    /\ sent \in [Callers -> 0 .. MaxSubmits]
    /\ caller \in [Callers -> {"idle", "sending", "waiting"}]
    /\ reply \in [Messages -> Seq(Response)]
    /\ in \in [Replicas -> Seq(Messages)]
    /\ buf \in [Replicas -> Seq(Messages)]
    /\ run \in [Replicas -> {"select", "insert", "respond"}]
    /\ outcome \in [Replicas -> Seq(Response)]
    /\ \A r \in Replicas : Len(in[r]) <= ChanBuffer /\ Len(buf[r]) <= MaxBatchSize
    /\ \A p \in Callers : caller[p] # "idle" => sent[p] # 0

Init ==
    /\ table = <<>>
    /\ sent = [p \in Callers |-> 0]
    /\ caller = [p \in Callers |-> "idle"]
    /\ reply = [m \in Messages |-> <<>>]
    /\ in = [r \in Replicas |-> <<>>]
    /\ buf = [r \in Replicas |-> <<>>]
    /\ run = [r \in Replicas |-> "select"]
    /\ outcome = [r \in Replicas |-> <<>>]

-----------------------------------------------------------------------------
(* Submit                                                                  *)

Current(p) == <<p, sent[p]>>

Submit(p) ==
    /\ caller[p] = "idle"
    /\ sent[p] < MaxSubmits
    /\ sent' = [sent EXCEPT ![p] = @ + 1]
    /\ caller' = [caller EXCEPT ![p] = "sending"]
    /\ UNCHANGED <<table, reply, in, buf, run, outcome>>

(* w.in <- request; blocks as long as the channel is full.                 *)
Send(p) ==
    LET r == p[1] IN
    /\ caller[p] = "sending"
    /\ Len(in[r]) < ChanBuffer
    /\ in' = [in EXCEPT ![r] = Append(@, Current(p))]
    /\ caller' = [caller EXCEPT ![p] = "waiting"]
    /\ UNCHANGED <<table, sent, reply, buf, run, outcome>>

(* res := <-ch *)
Return(p) ==
    /\ caller[p] = "waiting"
    /\ reply[Current(p)] # <<>>
    /\ reply' = [reply EXCEPT ![Current(p)] = Tail(@)]
    /\ caller' = [caller EXCEPT ![p] = "idle"]
    /\ UNCHANGED <<table, sent, in, buf, run, outcome>>

-----------------------------------------------------------------------------
(* The writer's goroutine                                                  *)

(* Mutant: the request that meets a full buffer is forgotten.              *)
TakeMutant(r) ==
    /\ run[r] = "select"
    /\ in[r] # <<>>
    /\ in' = [in EXCEPT ![r] = Tail(@)]
    /\ \/ /\ Len(buf[r]) + 1 < MaxBatchSize
          /\ buf' = [buf EXCEPT ![r] = Append(@, Head(in[r]))]
          /\ UNCHANGED run
       \/ /\ Len(buf[r]) + 1 >= MaxBatchSize
          /\ run' = [run EXCEPT ![r] = "insert"]
          /\ UNCHANGED buf
    /\ UNCHANGED <<table, sent, caller, reply, outcome>>

(* A request arrives; a full buffer is flushed at once.                    *)
Take(r) ==
    /\ run[r] = "select"
    /\ in[r] # <<>>
    /\ in' = [in EXCEPT ![r] = Tail(@)]
    /\ buf' = [buf EXCEPT ![r] = Append(@, Head(in[r]))]
    /\ run' = [run EXCEPT ![r] = IF Len(buf'[r]) >= MaxBatchSize THEN "insert" ELSE @]
    /\ UNCHANGED <<table, sent, caller, reply, outcome>>

(* The ticker fires; with an empty buffer there is nothing to flush.       *)
Tick(r) ==
    /\ run[r] = "select"
    /\ buf[r] # <<>>
    /\ run' = [run EXCEPT ![r] = "insert"]
    /\ UNCHANGED <<table, sent, caller, reply, in, buf, outcome>>

(* Mutant: only one of the senders is told of the error.                   *)
ErrorsMutant(n) == <<Error>>

Errors(n) == [i \in 1 .. n |-> Error]

(* Mutant: the rows are matched to the requests in the opposite order.     *)
OutcomesMutant(saved, requests) ==
    [i \in DOMAIN saved |-> saved[Len(saved) + 1 - i]]

(* The response to each request, given the rows the insert returned.       *)
Outcomes(saved, requests) ==
    IF Len(saved) # Len(requests) THEN Errors(Len(requests)) ELSE saved

(* INSERT ... VALUES (...), (...) RETURNING id: one statement for the      *)
(* whole batch, whose rows come back in the order of the values.  The      *)
(* identifiers of two replicas' statements may interleave in Postgres, and *)
(* a failed one leaves a gap; no property tells that from their order here.*)
Rows(r) == [i \in DOMAIN buf[r] |-> Len(table) + i]

Insert(r) ==
    /\ run[r] = "insert"
    /\ table' = table \o buf[r]
    /\ outcome' = [outcome EXCEPT ![r] = Outcomes(Rows(r), buf[r])]
    /\ run' = [run EXCEPT ![r] = "respond"]
    /\ UNCHANGED <<sent, caller, reply, in, buf>>

(* The statement fails and stores nothing: every sender gets the error.    *)
FailedInsert(r) ==
    /\ "call" \in Faults
    /\ run[r] = "insert"
    /\ outcome' = [outcome EXCEPT ![r] = Errors(Len(buf[r]))]
    /\ run' = [run EXCEPT ![r] = "respond"]
    /\ UNCHANGED <<table, sent, caller, reply, in, buf>>

(* Mutant: the statement is repeated when its rows do not come back.       *)
LostInsertMutant(r) ==
    /\ "answer" \in Faults
    /\ run[r] = "insert"
    /\ table' = table \o buf[r] \o buf[r]
    /\ outcome' = [outcome EXCEPT ![r] = [i \in DOMAIN buf[r] |-> Len(table) + Len(buf[r]) + i]]
    /\ run' = [run EXCEPT ![r] = "respond"]
    /\ UNCHANGED <<sent, caller, reply, in, buf>>

(* The statement is committed but its rows do not come back.               *)
LostInsert(r) ==
    /\ "answer" \in Faults
    /\ run[r] = "insert"
    /\ table' = table \o buf[r]
    /\ outcome' = [outcome EXCEPT ![r] = Errors(Len(buf[r]))]
    /\ run' = [run EXCEPT ![r] = "respond"]
    /\ UNCHANGED <<sent, caller, reply, in, buf>>

(* The request whose response is the next to be sent.                      *)
Addressee(r) == buf[r][Len(buf[r]) + 1 - Len(outcome[r])]

(* Mutant: the buffer is not emptied after a flush.                        *)
ResetMutant(requests) == requests

(* buf = buf[:0] *)
Reset(requests) == <<>>

(* respC <- response; would block if the channel held one already.         *)
Respond(r) ==
    /\ run[r] = "respond"
    /\ reply[Addressee(r)] = <<>>
    /\ reply' = [reply EXCEPT ![Addressee(r)] = <<Head(outcome[r])>>]
    /\ outcome' = [outcome EXCEPT ![r] = Tail(@)]
    /\ \/ Len(outcome[r]) > 1 /\ UNCHANGED <<buf, run>>
       \/ /\ Len(outcome[r]) = 1
          /\ buf' = [buf EXCEPT ![r] = Reset(@)]
          /\ run' = [run EXCEPT ![r] = "select"]
    /\ UNCHANGED <<table, sent, caller, in>>

-----------------------------------------------------------------------------
(* A replica stops with everything it had not inserted.                    *)
Crash(r) ==
    /\ "crash" \in Faults
    /\ in' = [in EXCEPT ![r] = <<>>]
    /\ buf' = [buf EXCEPT ![r] = <<>>]
    /\ run' = [run EXCEPT ![r] = "select"]
    /\ outcome' = [outcome EXCEPT ![r] = <<>>]
    /\ caller' = [p \in Callers |-> IF p[1] = r THEN "idle" ELSE caller[p]]
    /\ reply' = [m \in Messages |-> IF m[1][1] = r THEN <<>> ELSE reply[m]]
    /\ UNCHANGED <<table, sent>>

InsertEnds(r) == Insert(r) \/ FailedInsert(r) \/ LostInsert(r)

Next == \/ \E p \in Callers : Submit(p) \/ Send(p) \/ Return(p)
        \/ \E r \in Replicas : Take(r) \/ Tick(r) \/ InsertEnds(r) \/ Respond(r) \/ Crash(r)

Spec == Init /\ [][Next]_vars

(* The goroutines run and the insert ends.  select chooses among its ready *)
(* cases at random and a tick stays in the ticker's channel until it is    *)
(* received, so that neither case starves.  Senders blocked on a channel   *)
(* queue up: each gets its turn although another may fill the channel      *)
(* again before it runs.                                                   *)
Fairness ==
    /\ \A p \in Callers : SF_vars(Send(p)) /\ WF_vars(Return(p))
    /\ \A r \in Replicas : /\ WF_vars(Take(r)) /\ WF_vars(Tick(r))
                           /\ WF_vars(InsertEnds(r)) /\ WF_vars(Respond(r))

FairSpec == Spec /\ Fairness

-----------------------------------------------------------------------------
(* Properties                                                              *)

(* Whoever is given an identifier is given that of its own message: the    *)
(* rows of the bulk insert are matched to the right requests whatever else *)
(* is submitted, inserted by other replicas or taken back by a restart.    *)
OwnAnswer ==
    \A m \in Messages : reply[m] \notin {<<>>, <<Error>>}
                       => \E id \in DOMAIN table : reply[m] = <<id>> /\ table[id] = m

(* The messages of a goroutine are stored in the order it submitted them,  *)
(* and none of them twice.                                                 *)
StoredInOrder ==
    \A i, j \in DOMAIN table : i < j /\ table[i][1] = table[j][1] => table[i][2] < table[j][2]

(* The writer never blocks on a response channel, which would stop the     *)
(* sending of messages on its replica for good.                            *)
NeverBlocked == \A r \in Replicas : run[r] = "respond" => reply[Addressee(r)] = <<>>

(* Every request that was sent is in exactly one place: in the channel, in *)
(* the buffer without a response yet, or answered.                         *)
Pending(r) == in[r] \o SubSeq(buf[r], IF run[r] = "respond" THEN Len(buf[r]) + 1 - Len(outcome[r])
                                                           ELSE 1, Len(buf[r]))

NoRequestLost ==
    \A p \in Callers :
        LET places == {i \in DOMAIN Pending(p[1]) : Pending(p[1])[i] = Current(p)} IN
        caller[p] = "waiting" =>
            Cardinality(places) = IF reply[Current(p)] = <<>> THEN 1 ELSE 0

(* Where p is in Submit, for somebody who sees neither channels nor buffer.*)
Call(p) ==
    IF caller[p] = "idle" THEN [state |-> "idle"]
    ELSE IF reply[Current(p)] = <<>> THEN [state |-> "waiting"]
    ELSE [state |-> "answered", answer |-> Head(reply[Current(p)])]

Promise == INSTANCE Submission
             WITH log <- table, number <- sent, call <- [p \in Callers |-> Call(p)]

(* Seen from outside, the writer stores each message at most once and only *)
(* while its sender waits, answers it with its own row or an error, and    *)
(* stores nothing of a stopped replica's requests afterwards.              *)
Promised == Promise!Spec

(* Every Submit returns.                                                   *)
SubmitReturns == \A p \in Callers : caller[p] # "idle" ~> caller[p] = "idle"
=============================================================================
