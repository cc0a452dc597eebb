# STORM in TLA+

A verification development kept beside the STORM chat platform. It models the
parts of the system whose correctness depends on the order in which things
happen, model-checks them with TLC on small instances and proves the central
results with TLAPS for every value of the constants. Paths are relative to the
repository, which is checked out under `src/`.

## The system

Every service is a process run in several replicas (the Kubernetes manifests
scale the gateway to 10, the message and user services to 5, the notification
service to 3). They talk over core NATS: requests with a timeout, queue groups
that hand a request to one replica, and publications nobody acknowledges.
Nothing is redelivered. Postgres and Redis are shared by the replicas.

| Component | State it keeps | Operations | Talks to |
|---|---|---|---|
| **gateway**, HTTP (`services/gateway/internal/modules`) | none | send, edit, delete, acknowledge a message; create and administer conversations; register, log in, refresh, log out; upload | requests to all services (2 s to 10 s timeouts), `message.broadcast.*` publications |
| **gateway**, WebSocket (`services/gateway/internal/ws`) | `Hub.Rooms`: room → sockets of this replica, under a `RWMutex`; one `room` per socket session | open, close, join, message, typing, delivered, seen; broadcast to a room | `GROUP_GET` on a join, `NEW_MESSAGE`, `MESSAGE_SET_STATUS`, `MESSAGE_MARK_SEEN`; subscribes to `message.broadcast.>` |
| **message-service**, conversations (`internal/service/conversation_service.go`, `internal/repo`) | `conversations`, `conversations_users` (Postgres, or maps of one process) | create, delete; add, remove, leave, change role; read | its repository, one call at a time, without transactions |
| **message-service**, batch writer (`internal/batch`) | channel of 10 000 requests, buffer of 500, ticker of 50 ms per replica | `Submit`, flush | bulk insert into `messages` |
| **message-service**, messages (`message_service.go`, `repo/postgres/message_repo.go`) | `messages`, `message_receipts`, `message_seen_by` | edit, delete, acknowledge, set status, mark seen, read | membership checks of the conversation service |
| **user-service** (`services/user/src`) | `users`, refresh tokens (`jwt`), presence keys in Redis | register, log in, validate, refresh, log out; profile, search, status | Postgres, Redis |
| **notification-service** | one Redis list of at most 100 notifications per user | send, list unread, mark read | Redis; subscribes to `message.sent` |
| **media-service** | none (an object store) | upload, URL, delete | S3/MinIO |

### What is hard, and what makes each part correct

* **Conversations.** A request is up to five repository calls with no
  transaction around them. nats.go runs the callbacks of one subscription one
  at a time, but each subject is a subscription of its own and there are
  several replicas, so any two requests can interleave at any call. A call can
  fail, commit and lose its answer, or never be made because the replica stops.
  Correct means: roles are granted and taken back only with the authority the
  service documents; a live conversation with members keeps an owner; a failed
  creation throws nobody out; a deleted conversation ends up empty.
* **Batch writer.** Many goroutines, one channel, one flush loop that answers
  by position. Correct means: every `Submit` returns, with its own row; a row
  is stored once, in its sender's order; the loop never blocks on an answer.
* **Messages.** Read-check-write sequences over messages, receipts, readers and
  status. Correct means: only members act, deleted messages stay deleted, and
  what is listed as seen has a reader.
* **Gateway.** A request that times out may have been carried out; a broadcast
  may be lost; rooms are joined with a check made once. Correct means: whoever
  may read a conversation sees what is stored there, closed sockets leave
  their rooms.
* **Authentication.** Refresh rotation and logout are several statements.
  Correct means: a refresh token is exchanged once, nothing survives a logout.
* **Notifications.** Read flags are written by position. Correct means: no
  notification is overwritten, an unread one is delivered.

`PROJECT.json` lists the hazards line by line with the properties that cover
them.

## Plan

1. `Membership`, `Conversations`: who belongs to a conversation. **Done**, with
   proofs.
2. `BatchWriter`: the path of a message into the database. **Done**, with
   proofs.
3. `Messages`: send, edit, delete, acknowledge, status and readers, on both
   repositories. **Done**.
4. `Sessions` and `Accounts`: tokens, registration, profiles. **Done**.
5. `Gateway`: rooms, sockets, broadcasts, the HTTP requests that publish and
   those that do not. **Done**.
6. `Notifications`: the Redis list, its trim and the read flags. **Done**.
7. `Authority`: what entitles a request while others overlap it. **Done**.
8. `Submission`: the abstract specification of sending, an at-most-once log,
   which `BatchWriter` implements. **Done**, with the proof.
9. Proofs: every safety property of the runs that hold is a theorem. **Done**;
   see *What is proved* for the hypotheses of some of them.
10. Left: the refinement of `Membership` for requests that overlap on
    different conversations only (the theorem asks for one request at a time).

Modules that are proved about use no recursive operators, state their
parameters as constants with a named assumption, and have one action per
repository call.

## Modules

### `Conversations.tla`, `Membership.tla`

| Model | Code |
|---|---|
| `conversations[c]` | the row of `conversations`: absent, live, or soft-deleted |
| `members[c][u]` | the role in the active row of `conversations_users`, or `None` |
| `handler[<<replica, subject>>]` | the request that subject's callback works on: its next repository call (`pc`), its payload and the actor's role it has read |
| `Receive` | the NATS callback and the payload (`nats/handler.go`) |
| `GetConversation`, `GetActor` | `requireActorMembership` and the checks its callers make on the role |
| `GetTarget`, `CountOwners` | `GetMembership` of the target, the last-owner guard |
| `CreateConversation`, `CreateMember`, `UpdateRole`, `DeleteMember`, `DeleteConversation`, `DeleteMembers`, `Compensate` | the writes, each one SQL statement or one section under the memory repository's mutex |
| `FailedCall`, `LostAnswer`, `Crash` | an error without effect, an error after a commit, a replica that stops |

`RemoveMember` of oneself is `LeaveConversation`, as in the code. `Storage`
chooses the repository; they differ in one point that matters: the memory
repository refuses a membership of a deleted conversation, Postgres stores it.

`Membership.tla` is the promise: a conversation is a function from users to
roles, every request takes effect in one step, with its authority and its
last-owner guard. `KeepsPromise` is `Membership!Spec` under the mapping that
shows a conversation only while its row is live. It holds when at most one
request is handled at a time (`MaxInFlight = 1`), faults and crashes between
the calls included; when requests overlap the service breaks it, and the other
properties say what is left.

### `Authority.tla`

`Conversations` observed by one history variable: `held[h]` collects the
grounds its request has had since it arrived (its actor was owner or admin,
whom it removes was a plain member). The service reads a role in one call and
writes in a later one, so the authority a write rests on may be gone by then.
`GrantsAuthorised` says that it was held at some moment of the request, for
every change of a membership, and that nobody is made a member twice. The
observer never restrains the service: `Observe` defines `held'` in every step.

### `BatchWriter.tla`, `Submission.tla`

| Model | Code |
|---|---|
| `caller[p]`, `sent[p]` | where goroutine `p` of a replica is in `Submit`; the number of the message it submits |
| `reply[m]` | `respC`, the channel of capacity one made for `m`'s request |
| `in[r]`, `buf[r]` | the channel `Writer.in` and the slice `buf` of replica `r`'s writer |
| `run[r]`, `outcome[r]` | the flush loop: in its `select`, in the insert, or sending the responses it still has |
| `table` | `messages`, shared by the replicas, in the order of the identifiers |
| `Submit`, `Send`, `Return` | the three steps of `Submit` |
| `Take`, `Tick` | the two cases of the `select`, with the flush of a full buffer |
| `Insert`, `FailedInsert`, `LostInsert` | `BulkSaveMessages`: done, failed without effect, or committed with its rows lost |
| `Respond` | one `respC <- response`, the last of which empties the buffer |
| `Crash` | a replica that stops: its channel, buffer and callers are gone, the table stays |

`Submit` is documented for any number of goroutines and modelled for several.
Its only caller, `handleSendMessage`, is the callback of one subscription, so
that a running replica has one sender: the service is the instance with one
slot per replica, whose batches hold one message.

`Submission.tla` is what `Submit` promises, with a log and one call per
goroutine and nothing of channels, buffers and positions: a message is stored
at most once, only while its sender waits, several in one statement; the sender
is told the identifier of its own message or an error, and an error says
nothing; a replica that stops abandons its calls for good. `Promised` is
`Submission!Spec` with `log` the table and `call[p]` read off `caller` and
`reply`. A retry after an error is a new submission, so clients that repeat a
send may store it twice: at most once is per submission.

A statement that is in flight when a replica stops takes effect before the
replica's next submission or not at all.

### `Messages.tla`

| Model | Code |
|---|---|
| `storage` | `STORAGE` in `cmd/main.go`, chosen once: Postgres or the memory repository |
| `messages[m]` | a row of `messages`: absent, live or marked deleted; sender, text, status. The memory repository takes a deleted message out of its slice |
| `receipts[m][u]`, `seenBy[m]` | `message_receipts`, `message_seen_by` |
| `roles[u]`, `conversation` | what the membership queries find; other requests change it at any time (`RolesChange`, `ConversationGoes`) |
| `handler[h]` | the request a subject's callback works on, its next repository call; `listed` is what a list has read, `held` (history) the best role its actor has had since it arrived |
| `StoreMessage` | the end of `handleSendMessage`: a flush stores the message (how is in `BatchWriter`) |
| `GetMessage`, `IsMember`, `GetConversation`, `GetActor`, `ListMembers` | `authorizeConversationMember` and `authorizeMessageMutation`, query by query |
| `UpdateMessage` ... `MarkSeen` | one SQL statement, or one section under the memory repository's mutex, each; `MarkSeen` is followed by `SetStatus` |
| `ListMessages`, `ListReaders` | the two queries of `GetMessagesByConversationID`; in memory, the locked section and the answer that reads the shared messages after it |

The repositories differ in four points that matter here: the memory
repository's calls do not fail and do not outlive a crash, it forgets receipts
and readers with a message, it refuses a reader of a deleted message, and its
lists hand out the stored messages themselves.

### `Gateway.tla`

| Model | Code |
|---|---|
| `socket[s]` | the connection and its session's `user_id` and `room` |
| `rooms[g][r]` | `Hub.Rooms` of replica `g` |
| `task[t]` | a socket's read loop (its messages are handled one at a time) or an HTTP handler, waiting for an answer |
| `wire[p][g]` | publications of `p` NATS has not yet handed to `g`; NATS keeps the order of one connection only |
| `state`, `members`, `messages`, `late` | message-service seen from here: a request takes one step, also after its timeout |
| `Open`, `Close`, `SocketAsks`, `Typing` | `onOpen`, `onClose`, `onMessage` |
| `HttpAsks`: `Send`, `Update`, `CreateGroup`, `AddGroupMember` | the HTTP handlers that publish when they succeed |
| `Delete`, `RemoveGroupMember`, `DeleteGroup` | the handlers that publish nothing (a departure is a removal of oneself); one step, as the gateway keeps nothing of them |
| `Conclude`, `TimeOut` | the answer (join the room, publish) or `nats.ErrTimeout` |
| `Deliver` | the subscription's callback, `BroadcastToRoom` |
| `Lose`, `Break`, `Crash` | a publication that does not arrive, a broken connection, a gateway that restarts |
| `got`, `shown`, `told` | what the client of a socket has been sent |

### `Sessions.tla`, `Accounts.tla`

A slot is a request in progress in a replica of the user-service, and each
query it awaits is a step, since Node continues other requests meanwhile.
`jwt` and `users` are the tables. `Sessions` has `login`, `refresh`, `logout`;
a session is a login and the tokens its first token is exchanged for.
`Accounts` has `register` and `update`. `repository.save` of an entity that was
read is two queries, `Compare` (TypeORM reads the row again and compares) and
`UpdateUser` (it updates the columns that differ).

### `Notifications.tla`

The Redis list of one user, newest first.

| Model | Code |
|---|---|
| `list`, `ttl` | the key `notifications:<user>` and whether it expires |
| `handler[h]` | one subject's callback: before its `LRANGE`, or in `Exec` with the pipeline `cmds`, of which Redis has executed `done` in this attempt |
| `Run`, `LPush`, `LTrim`, `Expire`, `LSet` | Redis executes the next command; other connections' commands come in between, since `Pipeline` is not `MULTI` |
| `Answer` | `Exec` returns, with the error of a command that failed |
| `Cut` | the connection breaks or the answers are late: go-redis, which `cmd/main.go` creates without `MaxRetries`, sends the whole pipeline again, up to three times, executed or not |
| `stray[b]`, `RunStray` | what Redis had received over that connection and executes whenever it comes to it, after the repetition if need be |
| `RangeFails`, `Crash`, `Expiry` | an `LRANGE` without an answer, a replica that stops, a week without a push |

Three histories serve the properties: `pushed` lists the pushes Redis has
executed, repetitions included, so that entry `i` of the list belongs to push
`Serial(i)`; `mixed` is the last of them that fell in between the commands of a
reading, or before those a reading has left on a connection; `covered` are the
pushes a successful `notification.read` has listed.

### The modules of proofs

`ConversationsProofs.tla`, `AuthorityProofs.tla`, `BatchWriterProofs.tla`,
`MessagesProofs.tla`, `GatewayProofs.tla`, `SessionsProofs.tla`,
`AccountsProofs.tla` and `NotificationsProofs.tla` extend the module they are
named after (`BatchWriterProofs` also proves the refinement of `Submission`,
`ConversationsProofs` that of `Membership`, and `AuthorityProofs` builds on
`ConversationsProofs`). Each states its inductive invariant first, then lemmas about the
model's operators, one lemma per action, and the theorems last. See *What is
proved*.

## Runs

| Run | Question | Instance |
|---|---|---|
| `conv_serial` | Does each request alone implement the atomic promise, whatever fails? | 3 users, 1 conversation, all operations, all faults, 1 request at a time |
| `conv_guard` | Does every change of a membership rest on an authority its actor has had, whatever overlaps? Is a creation undisturbed? | 2 users, 2 replicas, 2 requests at a time, Postgres, failing calls and crashes |
| `conv_memory` | Is the last-owner guard sound as long as reducers do not overlap? Does the memory repository leave anybody in a deleted conversation, and is it empty for good? | 2 users, 2 requests at a time, fairness |
| `conv_last_owner` | Does the last-owner guard do what `docs/roadmap.md` asks? (violated) | 2 users, 2 requests at a time, no faults |
| `batch` | Does the writer implement `Submission`? Is every request in one place, stored once and in order, answered with its own row, and does every `Submit` return? | 1 replica, 3 senders of 2 messages, channel of 1, batches of 2, all faults, fairness |
| `messages` | Who can change a message, does a deleted one stay as it was, do receipts, readers and status agree? | both repositories, 1 user and a second sender, 2 texts, 2 times, every subject, 2 requests at a time, all faults |
| `notifications` | Does a list lose nothing it should keep, and how far does the harm of marking by position reach, when pipelines are repeated? | 1 replica that sends and reads, list of 2, 2 notifications, pipelines repeated once, 1 connection given up at a time, crashes, expiry |
| `sessions` | What does a spent token buy, a logout end, a client keep; is rotation sound while refreshes do not overlap? | 3 tokens, 2 sessions, 2 requests at a time, all faults |
| `sess_once` | Is a refresh token single-use? (violated) | 3 tokens, 1 session, 2 requests at a time, no faults |
| `gw_safe` | Who enters a room, what is left on a close, what is published and how often? | 1 gateway, 1 socket, 1 HTTP client that edits, both room names, 2 messages, 2 things under way, 1 request carried out late, all faults |
| `gw_live` | Does what is published arrive, and do readers end up with the stored text? | 2 gateways, 1 socket that joins and types, 1 HTTP client that creates, adds, posts and edits, reports, deletions, refusals, fairness |
| `accounts` | Are e-mails and usernames unique, and do updates change only what they were given? | 2 accounts, 2 e-mails, 2 values, 2 requests at a time, failing queries and crashes |

**Bounds.** Users are interchangeable and a request names at most two of them
(actor and target); the third user of the larger instances is the bystander an
error could strike. Conversations do not interact, one is enough, and a
handler of another replica behaves like a handler of another subject, so that
`MaxInFlight` and not the number of replicas bounds the interleavings: two
requests show every pairwise race, three let an addition and a deletion
surround a removal. `conv_guard` has two replicas all the same, since two
additions of one user overlap only on two of them (one subject is one
callback at a time). Replicas and users are interchangeable there, and its
properties are an invariant and an action property, so that symmetry is sound;
no run with a liveness property uses it. Used-up identifiers make `createConversation` fail.
For the batch writer three senders and a channel of one fill the channel, the
buffer and still leave somebody blocked; batches of two are the smallest in
which positions can be confused; two messages of each sender let an answer
meet a later request. Several replicas are left to the proofs.

Every write of `Messages` is one statement, so two replicas serving one subject
do nothing two subjects' handlers could not do, except for two acknowledgements,
whose statements follow each other in either case. One user acts, on messages
of its own and of somebody else; the authority of an actor does not depend on
other users. A list of two notifications is the shortest whose positions can be
confused; two sends of which each may be repeated push up to four times, so that
entries are pushed out, and one connection given up at a time lets a command
arrive after its own repetition. Three tokens let a token be
exchanged while another session holds one. In `Gateway` sockets meet only in
rooms and on the wires, so one socket that sends and listens, and HTTP clients
that publish, show what a room does; two requests or copies under way let a
publication meet a join, a removal or a restart. `gw_safe` has one gateway, whose
publications travel over its own wire, and one request (`MaxLate`) that is
carried out after its task has given up; a second gateway is in `gw_live` and in
the theorems. Its view `Essential` leaves out what no step and none of its
properties reads (`shown`, `told`, `owed`).
The runs do not check deadlock: clients may stop, and counters are bounded.

**Fairness.** `FairSpec` asks weak fairness of `Call(h)`: a repository call a
handler has started returns, which `database/sql` and a mutex provide. It is
not asked of `Receive`: nobody has to send requests.

`FairSpec` of the batch writer asks that its goroutines run: weak fairness of
`Take` and `Tick` (`select` chooses at random among its ready cases, and a tick
stays in the ticker's channel until it is received), of the insert's end and of
each response, and strong fairness of `Send`, since goroutines blocked on a
full channel are queued and each gets its turn although others fill the channel
again. Nobody has to submit, and inserts may fail every time.

`FairSpec` of the gateway asks weak fairness of `Deliver` (the connection to
NATS is up and a subscription's callback runs), of `Serve` (message-service
answers) and of `Conclude` (the goroutine that waits reads the answer). No
client has to do anything, and `gw_live` has no losses: core NATS does not
redeliver, and with losses nothing is promised.

## Findings

`conv_last_owner`: two owners who leave at the same time both count two owners
and both go. The conversation stays live, has members, and nobody can
administer it again. `docs/roadmap.md:377` asks for the guard and
`conversation_service.go:23` names it "cannot remove the last owner".
`GuardSoundAlone` (run `conv_memory`, theorem `OwnerRemains`) says precisely
when it can be trusted: as long as no two of the three operations that take
owners away work on one conversation at the same time.

`sess_once`: two refreshes with one token that overlap both find it unrevoked
and are both answered with a new token. `tests/k6/README.md:104` says "chaque
token est à usage unique". `RotatesApart` says when it is true: as long as no
two refreshes of one token overlap.

### Known divergences without a run of their own

* `ws/handler.go:79`: a socket that closes leaves the room it joined last
  (`LastRoomLeft`). Its user's room and the rooms it joined earlier keep it
  until the gateway restarts, while `handler_test.go:55` expects an empty hub
  after joining one room by hand, and `docs/FRONT-INTEGRATION-PLAN.md:206` has
  clients join every conversation they know.
* `user.service.ts:62`: an update of a profile writes every column in which the
  entity it has read differs from the row, so an update that overlaps another
  can undo a field it was not given (`user.service.spec.ts:111`). `KeptApart`
  assumes that updates of an account do not overlap.
* `notification_service.go:104`: a notification pushed between the `LRANGE` and
  an `LSET` of marking as read moves the entries, and flags and contents reach
  the wrong ones: it can be overwritten by what was listed at its position.
  `ListSound` says that this ends with the entries pushed until then.
* `notification/cmd/main.go:36`: the Redis client repeats a pipeline whose
  answers it does not get. A push that was executed before its answer was lost
  is pushed again, so the user has the notification twice, and a copy pushed
  after a reading is unread although the notification was read.
* `auth.service.ts:109`: a logout that overlaps a refresh can come between its
  revocation and the insertion of its new token, which then stays valid.
  `LogoutEnds` speaks of sessions with no such token on its way.
* `auth.service.ts:48`: a registration stores the account before its refresh
  token. When the second fails the client is told of an error, and of a conflict
  if it tries again; the account can log in.
* `modules/message/handler.go:422`: edits of one message that overlap are
  published in either order, and readers may be left with the older text.
  `EditsConverge` speaks of edits that are apart.
* `modules/message/handler.go:112`: a send that times out may be stored all the
  same; it is never broadcast, and a client that sends again stores a second
  message. `ShownStored` and `SenderOrder` hold of both.
* `ws/hub.go:94`: a broadcast writes to every socket of the room without a
  deadline, so that one that never drains holds up its gateway's hub. `Reaches`
  rests on writes that end (fairness of `Deliver`).
* `memory/message_repo.go:92`: a list of the memory repository copies the
  readers under the lock and shares the rest of the message, whose status is
  read when the answer is written: a message marked as seen in between is shown
  as seen by nobody. `ListedSeenHasReader` is stated for Postgres, and TLC
  finds this when it is not.
* `ws/handler.go:236`: a message is published under the name that its sender
  gave the room, so that those in `group:7` miss what is sent to
  `conversation:7`. `docs/WS-CONTRACT-VERIFICATION.md` says in its section 4
  that the backend broadcasts to `conversation:<id>`, `handler_test.go:286`
  expects `group:123`.
* `modules/message/handler.go:429`: a deletion is stored and not broadcast, so
  clients show the message until they list again, and an edit stored before the
  deletion may be broadcast after it. `services/message/FUTURE_STEPS.md:19`
  names the publication as a next step; `EditsConverge` leaves messages that are
  gone out.

## What is proved

For every set of users, conversations and replicas, every subset of subjects
and of faults and every bound, from `ConstantsAssumption` alone (users and
replicas are finite; the memory repository is one process whose calls do not
fail):

* `TypeCorrect`: `Spec => []TypeOK`, including that a handler is only ever at
  the calls its subject makes.
* `OwnerRemains`: `Spec => ([]NoOverlap => []InhabitedHasOwner)`, and
  `LastOwnerStays`: `Spec /\ []NoOverlap => LastOwnerKept`. `InhabitedHasOwner`
  is not inductive: a handler that has passed its checks writes several steps
  later. `OwnerInv` adds what each handler still knows at each of its calls
  (`HandlerKnows`): an addition is only carried out where there is an owner, a
  reducer past the guard has a target that is not the only owner, memberships
  are deleted after their conversation. The proof has a lemma per kind of write
  (`RowInserted`, `MemberInserted`, `RoleWritten`, ...) saying that it keeps
  what every other handler knows, and one per step.
* `CreationAlone`: if `"answer" \notin Faults`, `Spec => []CreationUndisturbed`.
  The invariant `CreationInv` says that a handler which may still write to a
  conversation is never directed at one that is being created by another.
  With lost answers it does not hold: an owner whose row was stored although
  the insert reported an error is thrown out by the compensation, together
  with whoever was added in between.
* `MemoryDrains`: if `Storage = "memory"`, `Spec => []DeletedDrains`; the
  compensation's deletion needs `CreationInv` to find the conversation empty.

For every set of replicas and goroutines, every channel, batch size and subset
of faults, from `WriterAssumption` alone (the channel and a batch have room for
one request; the faults are those named):

* `WriterTypes`: `Spec => []TypeOK`, which bounds the channel and the buffer;
  `EveryoneItsOwn`: `Spec => []OwnAnswer`; `StoredOnceInOrder`:
  `Spec => []StoredInOrder`; `WriterNeverBlocks`: `Spec => []NeverBlocked`.
  They follow from one inductive invariant, `WriterInv`. Its core is `Queued`:
  the requests in the channel and those in the buffer that have no response
  yet are all different, and the goroutine of each is still waiting with an
  empty response channel; this is why a response always finds room and why no
  request is stored twice. `Matched` ties the responses still to be sent to
  the requests they will be sent to, `Fresh` says that what is not stored yet
  is newer than what is. `OtherWriter` shows that a step of one replica does
  not disturb what the invariant says of another, and one lemma per action
  shows the rest.
* `PromiseKept`: `Spec => Promised`, the refinement of `Submission`. A step of
  the writer is a step of `Submission` or a stutter: an insert is `Store`, a
  response is `Answer`, a crash is `Abandon`, and what travels through channel
  and buffer is not seen. `WriterInv` supplies what each case needs: a buffered
  request is one whose goroutine waits and which is not stored (so `Store` may
  store it), and the outcome to be sent is `0` or the row of that request (so
  `Answer` may give it).

* `RequestsKept`: `Spec => []NoRequestLost`. `WriterInv` gives that a request is
  in at most one place; `NoneForgotten` adds that the request of a goroutine
  which waits unanswered is in one, as no step takes a request out of the
  channel or the buffer without putting it further on or answering it.

For the conversations there are two more, from `ConstantsAssumption` and the
hypotheses named here:

* `MembershipImplemented`: if `MaxInFlight = 1`, `Spec => KeepsPromise`, the
  refinement of `Membership`. Reads and refusals are stutters, each write is
  the step of its request, and what is written to a conversation whose row is
  not live is not seen. `SerialInv` says why a late write still has its guard:
  nobody else is at work (`Serial`), so what a handler's reads have shown of
  actor and target is still so (`Sees`). One lemma per write makes it the
  step of `Membership` it stands for; `DeleteMembers` is a stutter because
  memberships are deleted after their conversation (`OwnerInv`).
* `ChangesAuthorised`: `ObservedSpec => GrantsAuthorised`, with any number of
  overlapping requests. `AuthorityInv` ties what a handler has checked at each
  of its calls (`Found`) to the grounds its request was observed to hold.
* Both ask that `Storage = "memory" => "crash" \notin Faults`: the memory
  repository is the process itself, which forgets every membership when it
  stops, authorised by nobody. With Postgres every crash is allowed.

For every set of users, messages, texts, times and replicas, on either
repository, with any faults and number of requests, from `MessagesAssumption`
alone:

* `InvariantHolds`: `Spec => []MessagesInv`: each handler carries what its
  subject's payload holds and is at a call of it (`Proper`), `held` is never
  less than what its actor may do now (`HeldCovers`), past a check it has been
  entitled to what it goes on to do (`Entitled`), and an acknowledgement is
  answered with what the receipt holds (`AckedKept`). It gives `MessagesTyped`,
  `ReceiptTimeFixed` (`OneReceiptTime`), `EditsByEntitled` (`EditsAuthorised`)
  and `RecordsByMembers` (`ActsByMembers`). `DeletedMessagesFrozen` rests on
  the conditions in the `WHERE` of each statement rather than on what a
  handler has read.
* `SeenHasReader`: if `"seen" \notin AskedStatuses`, `Spec =>
  []ListedSeenHasReader`. `MESSAGE_SET_STATUS` writes whatever it is sent; its
  one caller, `ws/handler.go:261`, asks for `"delivered"`, and the status
  `"seen"` comes from `MESSAGE_MARK_SEEN`, after the reader's row
  (`SeenBySomebody`).

For any gateways, sockets, clients, users and conversations, from
`GatewayAssumption` alone (among others, a WebSocket connection is not an HTTP
client, so that each has tasks of its own):

* `InvariantHolds`: `Spec => []GatewayInv`: what a request is about and what
  follows from its having been carried out (`RequestsInv`), a socket is only in
  rooms of its gateway and its read loop only works while it is connected
  (`SocketsInv`), what is on a wire carries a text that was stored for its
  message and is addressed to a room of its conversation (`PublishedInv`). It
  gives `GatewayTyped`, `ClosingLeavesLastRoom`, `ShownOnlyStored` and
  `JoinsAsked`. `past`, the history of the texts a message was stored with,
  tells an edit that was carried out from one that was refused; a text only
  gets there in the step of message-service that stores it.
* `SendersInOrder` needs `OrderInv`: all messages of a socket leave on the
  connection of its gateway, so on every wire they are in order, after those
  that have arrived and before the one being published. Without the wires
  `SenderOrder` is not inductive.

For every set of tokens, replicas and requests in progress, any logins and
faults, from `SessionsAssumption` alone:

* `InvariantHolds`: `Spec => []SessionsInv`: `Knows` says what a request still
  knows of its token (revoked before it is replaced, spent if it was so on
  arrival), `EndedForGood` that nothing is on its way to a session that was
  ended, `KeepsOne` is `NeverStranded` without the exception for a request
  that has found its token and not revoked it. It gives `SessionsTyped`,
  `SpentTokensRefused`, `LogoutIsFinal` and `SessionsSurvive`.
* `RotationIsSafe`: `Spec => RotatesApart`, from `RotationInv`, which is
  inductive as long as no two refreshes of a token overlap: one request at
  most may still store a token for a session (`OneTurn`), and the session then
  has no valid token but the one about to be revoked (`HasTurn`).

For every set of accounts, e-mails and values, from `AccountsAssumption` alone:

* `InvariantHolds`: `Spec => []AccountsInv`; `AccountsTyped`;
  `IdentitiesApart`: `Spec => []IdentitiesUnique`, from the unique indexes;
  `UpdatesKept`: `Spec => []KeptApart`. The last needs `Alone`: an account whose
  updates have not overlapped has one at work at most, whose entity is the row
  with what it was asked for, and whose columns to write are those that differ
  from it now (`Current`).

For any replicas, length of the list, number of notifications, of repetitions
and of connections given up, from `NotificationsAssumption` alone:

* `NotificationsTyped`, and `ReadingsSound`: `Spec => []ListSound`. `ListSound`
  is not inductive: an `LSET` may be executed long after its list was read, by a
  pipeline in its third attempt or over a connection nobody reads any more.
  `ListInv` adds what makes each of them harmless: a command still to be
  executed writes, at its position, the entry that stands there now or one
  that was pushed while somebody was reading (`Placed`, for pipelines and, as
  `StrayOK`, for what is left of connections), and a reading has marked what it
  has executed in this attempt and has a command for whatever it listed
  (`HandlerOK`). A push during a reading moves positions and sets `mixed`; a
  push without one finds no such command left.

Each of these invariants was checked with TLC, where the theorem needs one, on
the instance of its run before it was proved.

Only model-checked: the liveness properties `DeletedStaysEmpty`, `SubmitReturns`,
`Reaches` and `EditsConverge` (liveness and `ENABLED` are out of the prover's
reach), and the two violations, `LastOwnerKept` and `ExchangedOnce`, whose
counterexamples a proof has nothing to add to. `LastOwnerStays` and
`RotationIsSafe` are what is true instead.

## Not modelled

* Reads that decide nothing, payload validation, display names and avatars,
  passwords, access tokens (verified without state), metrics, generated protobuf
  code and the infrastructure.
* Media-service: it keeps no state, a request is one call to the object store
  under a key made of the time in nanoseconds and the file name, and nothing in
  the repository publishes `media.delete.requested`. An upload that precedes a
  message over the WebSocket is a wait that ends the task when it fails, as a
  refusal does.
* Presence: one Redis command per request, and no route of the gateway leads to
  it (`docs/roadmap.md:83` lists it as optional).
* Who publishes `message.sent` and `notification.*` (the subjects listed at
  `docs/P4_README.md:58`): nobody in the repository, so that `Notifications` has its pushes come from
  anywhere and no composition with the messages is possible.

`PROJECT.json` lists each component with what is left out.
