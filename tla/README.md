# MetaChat: TLA+ models, checks and proofs

MetaChat is a chat backend in Go: a gateway, an authentication service and a messaging service
over one PostgreSQL database. This directory holds its formal models.

## 1. Inventory

| Component | State it keeps | Operations | Interacts with |
|---|---|---|---|
| WebSocket hub, `services/messaging/websocket.go` | map user -> set of clients under an RWMutex; per client a channel of 256, a connection, two pumps | Register, Unregister, SendToUser, IsOnline, GetOnlineUsers, readPump, writePump | called by the messaging service and by the HTTP handlers |
| Messaging service, `services/messaging/{service,repository,handler}.go` | rows of conversations, participants, messages | SendMessage, MarkRead, HandleTyping | PostgreSQL statement by statement, then the hub |
| History and list, same files | reads the rows above; `updated_at` of a conversation | GetMessages by cursor, GetUserConversations | PostgreSQL, beside the sends that overlap |
| Conversations, same files | conversations and participants | CreateConversation, FindDirectConversation | PostgreSQL, one transaction for the insert |
| Authentication, `services/auth/*`, `internal/middleware/auth.go` | users, refresh tokens; JWTs are stateless | Register, Login, RefreshToken, Logout, profile, ValidateToken | PostgreSQL; the gateway validates access tokens by itself |
| Rate limiter, `internal/middleware/ratelimit.go` | token bucket per key, one mutex, a cleanup goroutine | Allow, allow, cleanup | wraps the gateway's mux |
| Gateway, `services/gateway/main.go`, `internal/middleware/logging.go` | requests in flight, three timers | routing, auth, query rewriting, HTTP proxy, shutdown | the two services |
| WebSocket proxy, `services/gateway/main.go` | two connections, two goroutines | dial, upgrade, copy both ways | the messaging service's `/ws` |
| Connection pool, `internal/database/postgres.go` | at most 10 connections | acquire, release | all repositories |
| Process start and shutdown, the `main.go` files | none | wiring, graceful shutdown | |
| Redis client, protobuf files, YAML configuration | unused by the code | | |

What is hard here: goroutines of many connections around one lock and many channels; a store that
is read in one statement and written in another without a transaction; tokens that are rotated in
four steps; errors ignored between two statements; timeouts of the gateway around work that
continues behind it; cleanup that races with use.

What makes each component correct:

- Hub: no send on a closed channel, no double close; the map, its keys and the channels agree; a
  device sees each event once and calls in order; nobody waits for a device that does not read;
  a dead connection leaves nothing behind.
- Messaging: a message event never tells what the store does not hold, nor a receipt of a stored
  message that it was read when it was not; a successful answer means stored and fanned out; order of events and of rows for operations that do not overlap.
- Conversations: all participants or none; the answer is the conversation asked for, however its
  ids are spelled, but for a creator named twice; only overlapping calls can create a second direct conversation.
- Authentication: only refresh tokens are exchanged, none after it was
  spent or has run out; a session nobody gave up stays.
- Rate limiter: no window of time admits more than burst plus refill, on one connection (a client
  may open many); deleting buckets is invisible; the map shrinks.
- Gateway: what a client is told is true of what the service did; a service acts only for the
  user of the token; a client that waits is answered, also in a
  shutdown.
- Proxy: each side gets a prefix of what the other sent; neither connection outlives the other.
- History: pages neither repeat nor skip messages; the list is as new as the request.

## 2. Modules

| Module | What it is |
|---|---|
| `Hub` | `websocket.go` and `HandleWebSocket`: every goroutine with its program counter, the RWMutex, the channels |
| `Mailbox` | what the hub promises one connection; `Hub` implements it |
| `HubProofs` | TLAPS proofs about `Hub`, among them that it implements `Mailbox` |
| `Messaging`, `MessagingProofs` | `SendMessage`, `MarkRead`, `HandleTyping`, statement by statement, then `SendToUser`; TLAPS proofs |
| `Conversations`, `ConversationsProofs` | `CreateConversation` and its transaction; TLAPS proofs |
| `Auth`, `AuthProofs` | `Register`, `Login`, `RefreshToken`, `Logout`, statement by statement, with a clock; TLAPS proofs |
| `History`, `HistoryProofs` | `GetMessages` and `GetUserConversations` while `CreateMessage`s commit; TLAPS proofs |
| `Gateway`, `GatewayProofs` | an HTTP request from the middlewares through `proxyRequest` and back; the shutdown; TLAPS proofs |
| `WsProxy`, `WsProxyProofs` | `handleWebSocket` of the gateway: dial, upgrade, the two copying goroutines; TLAPS proofs |
| `RateLimiter`, `RateLimiterProofs` | `Allow`, the lazy bucket, the cleanup goroutine; TLAPS proofs |
| `TokenBucket` | what the rate limiter promises one key; `RateLimiter` implements it |
| `MC*` | instances for TLC: who takes part, symmetry |

In every module a *piece* of an operation that a property depends on has a name of its own, after
the line of code it stands for, and just before it stand one or more *slips* with the same
parameters: the same line with a mistake somebody could have made (`Push` and `PushFront`). No
action uses a slip. `PROJECT.json` pairs each property with a slip that must break it, which shows
that the property depends on the code and is not true by the shape of the model.

### Hub

The state is the struct `Hub` (`clients`, and `online` for the keys of the outer map, so that an
empty inner map and an absent key differ), the RWMutex (`writer`, `readers`; a waiting writer keeps
new readers out, as in Go), and per client the channel `send` and whether it is closed, the
connection, and the program counters `pc` (handler, then readPump) and `wpc` (writePump). A panic
is recorded in `panics`. `Upgrade`, `LockHub`, `Register`, `StartPumps` are the handler;
`ReadFails`, `LockHub`, `DeleteClient`, `CloseChannel`, `CloseConn` are the deferred cleanup of
readPump, with the delete and the close as two steps because the code has them in that order under
one lock; `Call`, `BeginRange`, `SendOrSkip` (one per client of the range loop, in any order, as Go
ranges over a map), `EndRange` are `SendToUser`; `Receive`, `Write`, `WriteFails`, `SayGoodbye` are
writePump. A read pump calls `SendToUser` itself for the events it reads, so it can fan out to its
own client. What an event says does not matter here: it is the number of the call.

The WebSocket library writes Close frames of its own: `ReadMessage`, on the readPump, answers a
peer's Close frame, or a breach of the protocol, with one, and after any Close frame every write
fails with `ErrCloseSent`, the connection still being open. `ReadFails` may do that at any moment
(`framed` tells the library's answer from writePump's goodbye), `CanWrite` is what it leaves of a
connection, and the events still queued are then lost: `CloseFrameIsLast` is about the goodbye, and
about nothing following either frame.

### Messaging

A request has a kind (send, mark, typing) and a channel (HTTP or WebSocket) and walks through its
statements: participant check, insert, the UPDATE of `updated_at` (a step that can fail; its effect is
in `History`), or the marking UPDATE, then the load of the participants, then one `SendToUser` per
participant. `MarkRead` takes any message id: one that does not exist (`None`), is of another
conversation, or has been read already. The UPDATE then changes no row, or one the conversation
named has nothing to do with, no error comes of it, and the participants of the conversation named
(all of them: the comment `Notify sender about read receipt`, `service.go:118`, speaks of the sender)
get the receipt. `StatementFails` makes a statement fail, with its effect lost or, as after a broken
connection, kept. Failing to load the participants ends in success without a fan-out, and a result
that breaks off between two rows passes for a complete one, as in the code (`rows.Err` is not asked);
`blind` remembers both. `SendToUser` is one step that reaches the user's device, finds its channel full
or finds nobody: that is what `Hub` shows of it (`EveryDeviceServed`, `EveryCallReturns`,
`DeliveredInCallOrder`). A send or mark that came over a WebSocket carries a nil context; taking a
connection from the pool with it panics on a goroutine nothing recovers, and the process dies with
every other request in it (`Die`). `Crash` and `Restart` are the operator's.

### Conversations

A request holds *names*, strings the service compares as such, and a row holds a user: PostgreSQL
takes an id in capitals, or without hyphens, for the same UUID. `Person` maps the one to the other,
and an id of nobody to `None`. So a person named twice is two for the service, which looks for a
direct conversation of "both" or starts to insert them, and one for the database: the look-up
returns any conversation of two with that person in it (`AnswerFitsRequest` says so), an insert
breaks the primary key and the transaction is rolled back (`RefuseParticipant`). An id that is no
UUID fails like one that is nobody's, but already in the look-up, if there is one; that makes no difference here.

`Begin` deduplicates and counts; `FindDirectConversation` is the query as the database answers it
from what is committed; the transaction inserts the conversation and then one participant per
statement, and `Commit` makes all of it visible. `Fail` is a failing statement or a dying process
anywhere, with the deferred rollback; `CommitUnheard` is a commit whose reply is lost. The
conversation found is read again by `GetConversation`, whose list of participants may break off and
pass for complete, `rows.Err` not being asked: `cut` remembers it.

### Auth

A token is the record of its claims. This is exact: the code signs only the user, the times in
whole seconds and the type, so equal claims are equal strings and equal hashes, and the module can
tell that a token issued twice in a second is one token. `now` is the clock; time may pass between
any two statements. The table of refresh tokens is keyed by the request that saved the row, and
`hashOf` says which token it was saved for. A refresh ignores the error of its delete: `Fail` at
that statement goes on, and the history variable `botched` remembers it; `late` remembers the
refreshes that began with a token already past its time.

### History

A send is four steps, because the insert and the UPDATE are two transactions: `created_at` and
`updated_at` are the times at which these *begin*, their effect is there when they *commit*, and
several readings of the clock may be equal. `Query` is the SELECT by its meaning: any order of rows with
equal times. A reader walks back page by page, its cursor being the last message it got, as the
documented clients do, or asks for the list, which is one statement and then one per conversation
(`LastMessage`) while sends go on. `PageFails` and the last disjuncts of the list's actions are failing
statements and results cut short. A walk remembers what was stored when it began (`known`), which is
what the code can be held to: rows that commit during a walk behind its cursor are missed for good.
A client that asks for more than 100 messages gets at most 100 (50 when out of range) and would take
such a page for a last one; `limit` is what the code makes of the client's number, and pages are compared
with that.

### Gateway

A request is a record: its sort of route, whose token comes with it, which query
parameters. The eleven proxied routes are four sorts: public, protected, and the two that put
parameters into the path, `lookup` (a user's profile) and `page` (messages). `Arrive` is the chain of
middlewares up to the mux and the token check, `Forward`, `CannotForward` and `BodyFails` the reading of
the body and the making of the service's URL, then
`Relay`, `EndCopy` and `GiveUp` what `Do` comes to; a service is external: it executes, answers, dies or
never answers, also after the gateway has given up. A tick is a third of 15 seconds. `deadline` is the
server's (both of its time-outs run since the request), `patience` the client's to the services, `grace`
the shutdown's. A step of the gateway takes no time: `Tick` waits for a timer that has run out to be
served.

The handlers of `lookup` and `page` decode the parameters and put them into the path, and
`proxyRequest` appends the client's query to it again:
`/messages?conversation_id=X?conversation_id=X`. `Spoilt` is the parameter whose value the second `?`
becomes part of. Such a conversation, id or cursor is none and the service refuses the request, as
the instance's plain request for a page shows; so `scripts/smoke-test.sh:124-127`, which sends
`conversation_id` and expects 200, is not met. A decoded value is not encoded again, either: of
`id=X%26` the service reads `X`, the rest being a parameter of no meaning, so that it may well
answer (`Rewritten`: it may read anything); and a control character makes `NewRequestWithContext`
fail, which is answered 500 (`CannotForward`).

### WsProxy

Two connections with two ends each and a bounded buffer each way. `Dial` comes before `Upgrade`, as in
the code, and the upgrade depends on the ResponseWriter: the one `LoggingMiddleware` hands on has no
`Hijack`. The instance `ws_proxy` has both kinds, so that the proxying the code means to do is checked
too. A pump is the goroutine that reads from a side; its deferred calls close the service's
connection, then the client's. A close may lose what is under way.

### RateLimiter

A tick is the time in which a bucket regains one unit and a request costs `Cost` units, so with
`Cost` above 1 a bucket holds fractions of a token, as the float64 does (its rounding is left out).
`Allow` is the whole critical section: make the bucket if it is missing, refill, cap, take. The
cleanup goroutine receives a tick of its ticker (dropped when one is still waiting), then waits for
the mutex, then sweeps. A key is a connection: `RateLimitMiddleware` prefers the user of the request,
but the gateway wraps the whole mux in it (`main.go:274`), outside authentication, where there is no
user yet, and falls back on `RemoteAddr`, the address with the port. `Client` says who is behind a
connection. `TokenBucket` has one bucket per key for ever; the refinement mapping takes
a missing bucket to a full one and a present one to what it would hold if refilled now.

## 3. Runs

| Run | Instance | Shows |
|---|---|---|
| `hub_devices` | 2 connections of one user, 1 HTTP handler, channels of 1, 2 calls | `NoPanic`, `OnlineUsersAreConnected`, `EveryDeviceServed`, `CloseFrameIsLast`, `ImplementsMailbox` |
| `hub_connection` | 1 connection, 1 HTTP handler, channel of 2, 4 calls | `DeliveredInCallOrder`; under fairness `EveryCallReturns`, `ConnectionIsCleanedUp` |
| `messaging` | 2 requests over HTTP or WebSocket, 2 conversations of 3 users, 2 of whom ask and 1 of whom has a device, 1 fault, fairness | `EventsAreTrue`, `SuccessIsComplete`, `InOrder`, `StoredMessageIsFannedOut` |
| `messaging_websocket` | 1 send over a WebSocket | violated: `WsMessageIsStored` |
| `conversations_create` | 3 calls of up to 2 ids besides the creator's, 3 users, one with two spellings, an id of nobody, 1 failure | `NoPartialConversation`, `AnswerFitsRequest`, `DuplicatesOverlap` |
| `auth` | 4 requests of one user, 4 instants, lifetimes of 1 and 2, 1 failure | `OnlyRefreshTokensAreExchanged`, `SpentRowsStaySpent`, `SessionsLast`, `NoExpiredSession` |
| `rate_limiter` | 2 connections, burst of one and a half requests, idle time 3, period 2, 8 ticks | `WindowBound`, `IdleBucketsGo`, `ImplementsTokenBucket` |
| `rate_limiter_client` | the same, both connections of one client | violated: `ClientWindowBound` |
| `history` | 3 sends in 2 conversations, pages of 1 and 2, 1 fault | `PagesDescend`, `NothingIsSkipped`, `ListIsFresh`, `UpdatedAtIsRecent` |
| `ws_proxy` | both ResponseWriters, good and bad handshakes, buffers of 2, 3 messages each way, fairness | `StreamsArePrefixes`, `NobodyStaysRegistered`, `ClientLearns` |
| `ws_through_gateway` | the ResponseWriter the gateway passes | violated: `HandshakeSucceeds` |
| `gateway` | 2 requests of 7 sorts, with parameters spoilt, rewritten or unusable, time-outs of 3, 2 and 2, fairness | `AnswerIsTrue`, `NoAnswerIsLost`, `EveryRequestEnds` |

Every passing run checks its module's `TypeOK` too, except the second one of `Hub`. The three
violations are disagreements between a document or test and the code, quoted in `PROJECT.json`:

- `docs/SYSTEM_DESIGN.md` lets a message read from a WebSocket be inserted; the nil context ends
  the process first.
- The README connects a client to the gateway's `/api/v1/ws`; `LoggingMiddleware` hides the Hijacker
  the upgrade needs, so the gateway dials the messaging service, fails to upgrade and hangs up.
- `docs/SYSTEM_DESIGN.md` gives a client 10 requests a second and a burst of 20, by user id or IP, and
  the comment in `ratelimit.go` says the same; the key is a connection, and a client that opens a
  second one has a second bucket.

Three more are exceptions written into properties that hold:

- A comment says that for a direct conversation an existing one is looked for; two overlapping calls
  of a pair both look in vain, and no constraint stops the second insert. `DuplicatesOverlap`, which
  is proved, says that this is the only way.
- The design says that a refresh deletes the old token. A refresh within the second of issue returns
  the same token, whose row is back; and two overlapping refreshes both succeed.
  `SpentRowsStaySpent` says what does hold: a row that was there when a refresh or logout began is
  not found by a refresh that begins after it has succeeded.
- Messages with one `created_at` may be split by a page's end, and the rest is skipped; overlapping
  sends may leave the older `updated_at`. `NothingIsSkipped` and `UpdatedAtIsRecent` except just these.

Some further limits are written into the properties rather than checked apart: a device whose
channel is full loses the event for good (`EveryDeviceServed`), and a receipt is sent even for the
author's own mark, which the UPDATE excludes, and for a message that does not exist or is not of the
conversation the receipt names (`EventsAreTrue`). A comment and the error of `CreateConversation` want
2 participants at least, and count names: a creator named twice passes, and gets a conversation of
two he is in, if there is one, or an error of the insert (`AnswerFitsRequest`). A request whose body takes longer than
the 5 seconds between the two time-outs, or is with a service for less than a tick when a signal
comes, may lose its answer (`NoAnswerIsLost`); a success may be cut short after its status
(`AnswerIsTrue` says only that no success is invented).

### Bounds

- Two connections of one user are the least for which a range loop has an order, one device can lag
  behind another, and a key must stay when its first connection goes. Users share nothing in the
  hub but the lock, so one user suffices.
- A channel of 1 is full after one event while another is in writePump's hand; 2 is the least in
  which order can go wrong. With 4 calls one finds a channel of 2 full behind a stalled write.
- Two messaging requests give every interleaving of a pair, and the properties relate two requests
  at most. One fault, a failing statement or a
  crash, lets each happen at each step; more would end other requests in the same ways. Of two users one is in both
  conversations and one in the first only, so that requests of outsiders and receipts for messages of
  another conversation happen; the latter has the device, which tells a served, an absent and a wrong
  receiver apart. How devices of several users share a fan-out is `Hub`'s matter.
- Three conversation calls are two that overlap and one that comes after, and three users make
  groups that contain a pair. Two ids besides the creator's make such a group, or name one person twice.
- Four authentication requests are one that issues a token, two that use it and one that comes after
  or logs in besides; the one failure falls on any statement of any of them. Four instants are issue,
  either lifetime run out, and one after.
- Two connections share nothing in the limiter but the map. Its clock runs through burst, idleness, sweep and a burst after it; idle time equals
  burst, the least the assumption allows, so that the boundary itself is covered.
- Three messages are the least of which a page of one leaves two to be told apart by a cursor, with
  equal times or not; two conversations give the list an order. The default limit is 2 there, 50 in the code.
- The gateway's time-outs keep the code's order (15 s, 10 s, 10 s) in thirds of 15 s, rounded to keep
  room for a body that is late but not too late; a look-up whose id has an escaped character stands for
  all requests a service executes for a token; two requests let a shutdown wait for one and lose the other.
- Three messages fill a pump's hand and a buffer of two.
- All requests, calls and failures are bounded because a behaviour of the code is not; a bound only
  stops new work (`CHECK_DEADLOCK FALSE`: the system then rests, which is not a deadlock; that
  started work ends is what the liveness properties say).

### Fairness

`Hub` assumes that a goroutine that can go on does, and that a read from a connection that is down
returns. It assumes nothing of the peers: they need not connect, send, leave, or take what is
written to them, so `Write` and a failing write on an open connection are not fair. `Messaging`
assumes that a request that is running goes on; it does not assume that anyone connects, that a
killed process is started again (`docker-compose.yml` has no restart policy), or that statements
succeed. `WsProxy` assumes that a goroutine that can go on does, that a side reads the end of its
connection, and that the service reads what it is sent, as `readPump` does; the client need not read,
send or leave. `Gateway` assumes that time passes, that a handler that can go on does and that main
goes on after `Shutdown`; neither clients nor services have to do anything.

## 4. Proofs

All for any number of users, connections, requests, keys and any bounds, from the named assumptions
of the modules only. Every type invariant, safety invariant and action property of the passing runs
is proved, and both refinements. The assumptions say what an instance must be (sets of the right
kind, numbers that are numbers, at least one user and one conversation in `Messaging`), but for those
that carry an argument: `Cap <= Idle` of the rate limiter and the order of the gateway's time-outs.

`HubProofs`. `TypeCorrect` is inductive once one knows that a goroutine inside `SendToUser` has a
target and an event. `SafetyCorrect` proves the inductive invariant behind the rest: who holds the
mutex is determined by the program counters; a range loop visits registered clients only; a client
is registered from `Register` to the delete of `Unregister`; its channel is closed after that.
`NoPanic` alone is not inductive, since nothing in it says that a client in a range loop is open;
`LoopInv`, `MapInv` and `ChannelInv` together do, and `LockInv` is why a delete cannot come between.
`NeverPanics` and `OnlineCorrect` follow.

The rest is about what a channel has accepted: what is written, in writePump's hand and in the
channel, one behind the other. `Pumps` says when the hand is empty, so that `Receive` and `Write` move
an event along and change nothing of that sequence; only `SendOrSkip` does, which appends
(`ContentChanges`). `DeliveredInCallOrder` then needs that what is appended is new. That is `Numbered`:
no two running calls carry one event, none carries an event whose call has returned, and whoever has
been told an event was told by a call that has returned, or by a running one that has that connection
behind it. `EveryDeviceServed` is about the end of a loop; `Served` says for its middle that a
registered connection is still to be visited, or has been told, or was full. It is preserved because
the connections of a user cannot change while a loop runs, `LockInv` again. `CloseFrameIsLast` is
`Pumps` once more: a goodbye needs a channel closed and drained, and a closed channel is sent nothing.
`MailboxImplemented` maps `Register` to `Open`, the delete to `Shut`, a send that finds room to
`Accept` (new by `Numbered`, open by `LoopInv` and `MapInv`), `Write` to `Deliver`, all else to a stutter.

`MessagingProofs`. Each of the three properties looks back from an event or an answer to what its
request did before. `Progress` keeps that on the way: past the check a request is a participant's,
past the insert its message is stored, past the UPDATE of a mark the message, if there is one, is read
or its author's own. A crash changes none of it, as it ends requests and takes back no commit; `Sent` carries it over to
the inboxes. `SuccessIsComplete` needs `NobodyForgotten`: during a fan-out each participant is still to
be served or was told, was full or was absent. `InOrder` needs `Ordered`: who precedes a request
is over and stays so, an event is in an inbox only when its receiver is not to be served again, and no
row is ahead of the clock.

`AuthProofs`. `Shape`, part of `Typed`, says what a request has in hand at each statement. `Rows`: a row
is of a request that is over and holds the hash of the token it answered with. `Exchanges`: a refresh
that found a row had a refresh token with that row's hash, and goes on to have it when the row is
deleted, possibly by somebody else. `Refused`: a refresh begun too late is waiting for its validation or has
failed, and the clock does not go back. `SpentRowsStaySpent` speaks of two requests and the rows
between them; its inductive form `Gone` is about one: past its delete, unless that failed, none of
the rows that were there when it began is in the table with its token's hash. Rows that are inserted
later are of requests that were not over then, hence others. `SessionsLast` is inductive beside `Rows`.

`HistoryProofs`. `QueryReturns` is the lemma about the SELECT: rows of the table, none twice, in
descending order, none older than one left out, all of them if fewer than the limit. `Sends` says that
what was shown or known is a row, and rows stay as they are. `DescentCorrect` follows by joining a page
to those before it, since the cursor is their last row (`PagesJoin`). `Walked` is what a walk keeps: a
message known from the start that a shown one is older than has itself been shown, or another of
its instant; the cursor's condition is `<`, so a page starts past all of that instant. `Fresh` says of
the list that a conversation is still in the queue, or its statement failed, or its line is as new as
the request (`OrderIsComplete`: the first statement returns each conversation). `Timely`: what
precedes a send is over and no newer, and an UPDATE begins after its insert, so that one which
overwrites another's value with an older one belongs to a send that overlapped it.

`ConversationsProofs`. `TypeOK` holds the fact that a running transaction has inserted all but what
it has yet to insert. Two more invariants: `Progress` (where each call is and what it knows by then)
and `LookedInVain`: no call for the same pair had succeeded before a call began that goes on to
insert, or has inserted. Names and persons meet in counting: each insert adds a person who was not
there, so that a transaction that gets to its commit has as many rows as names (`RowInserted`,
`LoopDone`), and two names are two persons or one (`TwoNames`), which is all a look-up can be about
(`FoundFits`, `FittingIsFound`). `WholeOrNothing`, `AnswersFit` and
`OnlyOverlapDuplicates` follow.

`RateLimiterProofs`. `Refinement` rests on three lemmas about `Level`, what `Allow` would find in a
bucket now: a tick adds one up to the burst, a sweep changes nothing (it deletes what has been idle
long enough to be full, which is the assumption `Cap <= Idle`; in the code 600 seconds at 10 tokens
against a burst of 20), a call takes its cost. `WindowCorrect` needs `Funded`: the cost of all that a
key was admitted since any earlier admission, plus what its bucket holds now, is at most the burst
plus the time since. A window's bound itself is not inductive, as it says nothing of the bucket.
`CleanupCorrect` speaks of all instants, the sweeps come at ticks; `Swept` says of the time between,
when no tick is pending, that every bucket left was used within the idle time of the last one, and
`TicksAreApart` that no instant is a period or more past it.

`GatewayProofs`. `AnswerIsTrue` speaks of an answer that has been given; what carries it there is
`Served` (how far the service can be with a request that is at a given place in the gateway) and `Truth`
(only a request that passed the token check is seen by a service, an execution is one for the user of
the header the gateway sets, and a reply of success follows an execution). `NoAnswerIsLost` needs that
the timers leave time: `InTime` says that a request whose body was not late has more left to the
server's deadline than its service may take, and that the shutdown's grace outlasts every request
that is owed an answer when it begins. Both come from the order of the time-outs alone (the assumption
of the module), not from their values.

`WsProxyProofs`. That a side's messages form a prefix is not inductive: one lost on its way would still
leave a prefix before it. `InRow` says that received, outgoing, held and incoming messages are, one
behind the other, exactly what was sent, and each of the four steps that move a message keeps that;
`HandInv` is why a read does not overwrite a message that is still to be written.

Only model-checked: the liveness properties, since temporal reasoning under fairness and `ENABLED`
are beyond the prover used: `EveryCallReturns` and `ConnectionIsCleanedUp` of the hub,
`StoredMessageIsFannedOut` of `Messaging`, `EveryRequestEnds` of the gateway, `NobodyStaysRegistered`
and `ClientLearns` of the proxy. The violated properties are refuted by TLC. No definition is
recursive, so no induction over data is left open.

## 5. Not modelled

Profile reads and the single UPDATE of a profile (one statement each, nothing relates them to other
state), the connection pool (no handler waits for a second connection while it holds one), the start
of the processes, the shutdown of the two services (the same code as the gateway's, with 10 seconds
on either side), the unused Redis client, the type declarations and the deployment files;
`PROJECT.json` gives the reason for each. JSON decoding, password hashing, signing and logging are left
out of the modules except where they decide something (equal claims give equal tokens).

No module composes gateway, limiter, services and hub into one: what one takes from another is one
step or one choice, named where it is used (`SendToUser` in `Messaging`, the limiter's refusal in
`Gateway`, the hub's register and unregister in `WsProxy`).

## 6. Plan

Done: the modules above, their runs, and all their safety properties proved. Left, in this order:

1. Read the proofs again for steps that say more than they need and for lemmas two modules could share.
2. Lemmas towards the liveness properties that need no temporal reasoning: what can be done next while
   a call is running, and a measure each step of it lowers.
