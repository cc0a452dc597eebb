----------------------------- MODULE Submission -----------------------------
(***************************************************************************)
(* What the batch writer promises to those who call Submit: a message is   *)
(* stored at most once and only while its sender waits, several at a time  *)
(* in one statement; its sender is answered with its own row, or with an   *)
(* error, which alone says nothing of whether it was stored; and when a    *)
(* replica stops, whatever its senders waited for is never stored later.   *)
(*                                                                         *)
(* BatchWriter implements this with a channel, a buffer and response       *)
(* channels (BatchWriter!Promised).                                        *)
(***************************************************************************)
EXTENDS Naturals, Sequences

CONSTANTS
    Replicas,       \* running copies of message-service
    Slots,          \* goroutines of a replica that may submit
    MaxSubmits      \* bound: submissions of each goroutine

Callers  == Replicas \X Slots
Messages == Callers \X (1 .. MaxSubmits)    \* the n-th message of a caller

Error == 0      \* an answer is the identifier of a row, or Error

VARIABLES
    log,        \* the stored messages in the order of their identifiers
    number,     \* number[p]: how many messages p has submitted
    call        \* call[p]: whether Submit is under way, and its answer

vars == <<log, number, call>>

Idle    == [state |-> "idle"]
Waiting == [state |-> "waiting"]
Told(a) == [state |-> "answered", answer |-> a]

Init ==
    /\ log = <<>>
    /\ number = [p \in Callers |-> 0]
    /\ call = [p \in Callers |-> Idle]

Mine(p) == <<p, number[p]>>

Stored(m) == \E i \in DOMAIN log : log[i] = m

(* What p may be told of its message. *)
Answers(p) == {Error} \cup {i \in DOMAIN log : log[i] = Mine(p)}

Submit(p) ==
    /\ call[p] = Idle
    /\ number[p] < MaxSubmits
    /\ number' = [number EXCEPT ![p] = @ + 1]
    /\ call' = [call EXCEPT ![p] = Waiting]
    /\ UNCHANGED log

(* The identifiers of the rows that a statement adds at the end of the log *)
Added == DOMAIN log' \ DOMAIN log

Appended ==
    /\ log' \in Seq(Messages)
    /\ \A i \in DOMAIN log : i \in DOMAIN log' /\ log'[i] = log[i]

(* One statement stores messages of several senders of a replica.          *)
Store(r) ==
    /\ Appended
    /\ \A i \in Added : \E p \in Callers :
         p[1] = r /\ call[p] = Waiting /\ log'[i] = Mine(p) /\ ~Stored(Mine(p))
    /\ \A i, j \in Added : log'[i] = log'[j] => i = j
    /\ UNCHANGED <<number, call>>

Answer(p) ==
    /\ call[p] = Waiting
    /\ \E a \in Answers(p) : call' = [call EXCEPT ![p] = Told(a)]
    /\ UNCHANGED <<log, number>>

Return(p) ==
    /\ call[p] \notin {Idle, Waiting}
    /\ call' = [call EXCEPT ![p] = Idle]
    /\ UNCHANGED <<log, number>>

(* A replica stops. *)
Abandon(r) ==
    /\ call' = [p \in Callers |-> IF p[1] = r THEN Idle ELSE call[p]]
    /\ UNCHANGED <<log, number>>

Next == \/ \E p \in Callers : Submit(p) \/ Answer(p) \/ Return(p)
        \/ \E r \in Replicas : Store(r) \/ Abandon(r)

Spec == Init /\ [][Next]_vars
=============================================================================
