# Rayfold, specified

Rayfold is a typed RPC protocol: a client sends a *batch* of ops (queries, commands, streams, live
queries) in one envelope and receives a stream of *frames*. A server keeps commands with an idempotency
key from running twice, keeps live queries up to date, and shares changes with the other servers of its
fleet through Postgres; a client queues commands while it is offline and shows them before they are
answered. There are two implementations, in TypeScript (`src/packages/`) and in Kotlin (`src/kotlin/`).
This directory specifies in TLA+ the parts of both whose correctness depends on the order in which
things happen, and the rules servers, clients and tools decide by.

Paths without a prefix are relative to `src/packages/`; `Batch.kt`, `Executor.kt`, `RayfoldHttp.kt` are in
`src/kotlin/rayfold-core`, `Jdbc*.kt` in `rayfold-jdbc`, `Transport.kt`, `OfflineQueue.kt` in
`rayfold-client`. "Spec 03" and so on are the documents under `src/spec/`.

1. [The system](#1-the-system) · 2. [The modules](#2-the-modules) · 3. [The runs](#3-the-runs) ·
4. [Findings](#4-findings) · 5. [What is proved](#5-what-is-proved) · 6. [What is only
model-checked](#6-what-is-only-model-checked-and-why) · 7. [What is not modelled](#7-what-is-not-modelled-and-why) ·
8. [Plan](#8-plan)

## 1. The system

| component | state it keeps | operations | talks to |
|---|---|---|---|
| **keyed commands** (`server/src/batch.ts` `claimKey`, `runOp`; `executor.ts` `runCommand`; `postgres/src/idempotency.ts`) | a table row per (viewer, key): a lease with a token, or a record with its frame; a put counter per server; a renewal interval per running command | `claim`, `get`, `renew`, `put`, `release`, `sweep`; run, project, emit | the database, other servers through it |
| **batch schedule** (`batch.ts` `validateEnvelope`, `runBatch`, `runOp`, `FrameSink`) | a task per op, the statuses references look at, abort controllers, the sink | start, refuse, end, pass the gate, cancel, drain, the reader leaves, settle | executor, keyed commands, server |
| **query and stream executor** (`executor.ts`, `args.ts`, `cost.ts`, `views.ts`) | loads in flight and the memo of a batch, a stream's iterator | load, share, fail, project, defer, take an item, stop | application code |
| **live queries** (`batch.ts` `runLive`, `live.ts` `ChangeBus`) | the result last sent, its read set, `dirty`, changes held during the first run | subscribe, run, hear a change, sleep, wake, end | the change bus, the relay, the batch's memo |
| **in-memory idempotency store** (`server/src/context.ts`, `Batch.kt`) | a map of claims and records | as the shared store, in one process | the server |
| **Postgres relay** (`postgres/src/relay.ts`, `server/src/relay.ts`) | a table of oversized messages, a chain of reads per subscriber | publish (inline, by row), sweep, take, read, pass on | `LISTEN/NOTIFY`, the buses of each server |
| **uploads** (`server/src/uploads.ts`, `postgres/src/uploads.ts`) | parts bounded by bytes and age | put, open, sweep | the servers of a fleet |
| **server lifecycle** (`server/src/server.ts`, `http.ts`) | batches in flight, `draining`, the relay's subscription | execute, drain, close, readiness, `shutdown` | batches, connections |
| **WebSocket server connection** (`server/src/ws.ts`) | ops by id, expiry, write buffer | message, cancel, refuse, drain, expire, close | batches, the server |
| **HTTP entry points and bindings** (`fetch.ts`, `http.ts`, `bindings.ts`, `RayfoldHttp.kt`) | a streamed body | admit, revalidate, answer, stream | the server |
| **offline queue** (`client/src/offline.ts`, `client.ts` `command`) | entries in the order they were made, the saved copy, whether a drain goes on and one more was asked for | add, drain, settle, save, reload | the server, the cache's predictions |
| **WebSocket client transport** (`client/src/ws-transport.ts`) | the socket in use, the one being opened, pending batches, frames without an op id | send, connect, route, attribute, return, the close event | the server |
| **client cache** (`client/src/cache.ts`) | entities, results, prediction layers and shadows | write, patch, predict, settle, overrule | client, offline queue |
| **client requests, watch, live** (`client.ts`) | handles, backoff, a live list and its versions | query, watch, live, reopen | transports, cache |
| **Kotlin runtime and client** (`src/kotlin/`) | the same, in coroutines and threads | the same | JDBC, OkHttp |
| **schema language, shapes, codec, SQL** (`schema`, `rb`, `postgres/src/index.ts`, `JdbcStore.kt`, `cli`) | a lock file of ordinals; learned shapes; tables | diff, lock, parse, encode, decode, page, push a policy down | servers, clients, tools |
| tools and adapters (`cli`, `lsp`, `explorer`, `builder`, `otel`, `react`, `angular`), counters | none of the protocol's | | |

**What is hard.** Servers are single-threaded, but every `await` is a point at which another op, another
server's statement, a timer, a cancel or a crash comes in between; in Kotlin every suspension is, and
threads besides. The hazards listed in `PROJECT.json` are of these kinds: *a lease that runs out under a
running command*; *a crash between an effect and its record*; *changes that commit while a query reads*;
*ops that end before their turn*; *loads shared by ops of which one is cancelled*; *a queue that others join
while its head is being sent*; *answers that come after the request was given up on*; *a close event
handled after its socket was replaced*; *an op id used again while the batch that used it first is
ending*; *predictions settled in another order than they were made*; *two translations of one policy*.

**What makes each part correct**

- keyed commands: a key takes effect once for as long as it is kept; its owner keeps it; a retry is told
  what happened, not something else, and is told something in the end.
- batch schedule: commands run in ascending order of their ids; an op runs on results that are there;
  each op is answered, with what its dependants were told; nothing waits for ever; a drain ends.
- executor: nothing is loaded twice or read stale; a failed load reaches who joined it and nobody later; an
  answer shows nothing denied and explains every null; its cost covers its work.
- live queries: what the screen shows when the query sleeps is what the database holds.
- relay: every server hears the others' messages, once, in one order.
- server and connection: what is in flight is counted until it was read; a connection is ended after its
  answers; an answer is for the op that has the id; shutdown comes to its end.
- offline queue: no command is lost, overtaken, or shown after it was answered; a drain drains.
- transports: one connection; a batch fails only if it was refused or its socket is gone; each one ends.
- cache: what it shows is what the server said with the unanswered commands applied in order.
- rules: compatible changes break nobody; ordinals are never given twice; what is written reads back; a WHERE
  clause keeps every row its policy allows; pages miss and repeat nothing.

## 2. The modules

Each component is one module with one action per handler, or per stretch of a handler between two
points where it lets others run. Comments above an operator name the function it stands for, and `map`
in `PROJECT.json` gives its lines. A definition marked `Mutant:` is a plausible mistake in the operator
that follows it; it is used by no specification and serves only to show that a property would notice.
The abstract specifications are `KeyStore`, `Delivery` and `LayeredView`.

### Keyed commands: `KeyStore`, `Commands`, `MemoryStore`, `KtCommand`
`KeyStore` is the promise of every idempotency store: a key is free, claimed by one attempt, or recorded;
only its claimant records or gives it up, and a lease or record that ran out may be given up by time.
`Commands` (several TypeScript servers on one Postgres table), `MemoryStore` (one process, both runtimes'
stores) and `KtCommand` (several Kotlin servers, JDBC) are each checked and proved to
implement it through a refinement mapping. In `MemoryStore` an entry carries its place in the map's order, and a sweep says what it leaves.

In `Commands`, `rows` is the table (`held` with what is left of the lease, `done` with its age and the kind
of frame recorded), `puts` the counter that decides which put also trims, `pc` where an attempt is
between two awaits, `timer` the renewal interval, `answer` its terminal frame, `aborted` its signal.
`committed`, `epoch` and `mine` are history: the effect, how often a key was given up, and in which
epoch an attempt took it. Clocks are kept as distances, so time is not bounded. `ClaimOwned`/`ClaimRefused`
are the upsert; `Look*` the statement that reads a refused row, which may be gone by then; `Wake` the
backoff; `Commit`, `ResolverFails`, `Emit`, `ProjectionFails` are `runCommand`; `Put`, `Release`, `Expire`,
`Trim` the statements after it; `Renew`, `RenewMissed` the interval; `StoreFails`, `ClaimAnswerLost`,
`Abort`, `Crash` what goes wrong. A token is identified with the attempt that drew it.

`KtCommand` differs where the code does: a claim is an insert, a read and a conditional update, each a
statement of its own; the record is written and the key released in `holding`'s `finally`; a renewal that
throws ends the scope (`LateFailures` says whether it may do so after the effect); the sweep is four statements.

### Batches: `Batch`, `KtBatch`, `Executor`, `LiveQuery`
`Batch.Init` ranges over every envelope `validateEnvelope` accepts for the given ids and kinds. `pc` of an
op goes `waiting` → `run` → `gate` → `done`; `gate` is an op that has ended and still waits for the command
before it, so that the next command does not overtake. `Refused`, `Start`, `RunEnds`, `Pass` are the parts of
an op's task; `AbortOp`, `AbortBatch`, `Drain`, `ReaderGone`, `Settle` are what happens around it. `KtBatch` is
`Batch.kt`: jobs that await one another, commands one after the other, one failing job that may cancel its
siblings. A last frame is sent unasked, as `Sink.push` sends it, and only who stops an op looks whether it has one:
`kbSent` is the first frame that ended an op, `kbTwice` the ops that were sent an error after it.

`Executor` is `loadField` under ops of one batch: `loading` and `memo` per entity and field, an op's levels
in turn, a command that forgets what was loaded (`left` is what it left in the database), a dry run that
does not; and, as a machine of its own, `runStream`: taking items, the limit, the abort, and `iterator.return()`, which
is waited for only if no abort came before (`Ask`, `Closed`).
`LiveQuery` is `runLive`: a commit happens first and is heard of later, in any order; the run reads the root,
then the item, then projects. `ItemsReach` says whether the items' type is among those `reachableEntityTypes`
finds within four levels; `EarlierOp` whether another op of the batch may have loaded the field before.

### What servers share: `PgRelay`, `Uploads`
`PgRelay.channel` is the order in which Postgres hands notifications to every listener. A large message goes
through `InsertRow`, `SweepRows`, `NotifyRef` while the same server may publish the next one. `chain` is
`subscribe`'s chain of promises: reads overlap, messages are passed on in turn. `delivered` and `reported` are
what the server's buses and `onError` get. `Uploads` is both stores: adding, opening, ageing, and the shared
one's sweep, which reads its total and then its oldest rows in statements of their own.

### A server under its connections: `ServerLife`, `WsConnection`, `ServerWire`, `KtServer`
`ServerLife` is the count of `execute`, `drain` and its timeout, `close` and the relay. `WsConnection`
EXTENDS it with one connection per `Conns`: ops by id, cancel, refusals, drain, expiry, the write buffer's
bound, and the client's end. `ServerWire` composes both with streamed HTTP responses and `shutdown()`, and is
where the properties of the whole are stated: the batch's ops, its sink and its reader are one machine.

`KtServer` is the same of `RayfoldServer.kt` and `WsSession.kt`, where messages are read on one thread, batches are coroutines on
others, and expiry and drain come from still others: so a batch's `onMessage` is four actions (`KsMessage`, `KsAccept` or
`KsRefuse`, `Keep`, `Launch`), `drain()` is a count, an entry in `idle` and a second count (`DrainCounts`, `DrainJoins`,
`DrainCountsAgain`), the last batch tells the waiting callers one by one (`HandOver`), and a session's end is a test and a flag
(`Look`, `EndSocket`). `ksStage` is where a batch stands, `ksDue` who has still to look whether a session is idle.
`ksBefore`, `ksRaced`, `ksSlipped` and `ksUnheard` are history.

### A client: `Delivery`, `OfflineQueue`, `KtQueue`, `WsTransport`, `Attribution`, `KtTransport`, `ClientCache`, `LayeredView`, `LiveClient`
`Delivery` is what the server does with a numbered command, shared by both queues. In `OfflineQueue`,
`direct` commands are sent without being queued, `entries` wait, `saved` is the storage, `run` is where the
drain stands and `again` the run someone asked for meanwhile. `KtQueue` is the Kotlin queue, with callers on
other threads, cancellation of a caller at each suspension, and a restart that loads what was saved.

In `WsTransport`, `ready` is the `readyState` of each socket, with `gone` once its close event has been
*handled*; `state` is how each batch stands with its reader; `orphans` are the frames without an op id with the
batches each may belong to, and `Attribution` the loop of `attribute`. `KtTransport` is the OkHttp transport:
listener callbacks on the socket's thread, batches as coroutines, a shared future while a socket opens.

`ClientCache` holds the operators of `cache.ts` (layers, shadows, merge policies, writes and patches);
`LiveClient` is a client that holds a live query or a watch over that cache while it and others edit, link and
delete; `LayeredView` is what it promises to show. `LiveClient` implements it.

### Rules: `SchemaDiff`, `Projection`, `PolicySql`, `PgPages`, `RbCodec`, `ShapeText`, `HttpEntry`
These are pure: each declares the inputs it ranges over and a short machine that goes through them one by one,
and its properties compare an operator translated from the code with a definition of what it is for.
`SchemaDiff` (with the `cli`'s lock over several versions), `Projection` (policies, defer, cost,
cache headers, bindings), `PolicySql` (both stores' WHERE clauses against the evaluator),
`PgPages` (pages over a table that changes between them), `RbCodec` (records by ordinal, decimals, limits),
`ShapeText` (parse, canonical text, expansion, registry), `HttpEntry` (what a request passes before it runs; the server
may begin to drain between the test of `draining` and the end of the body).

### How they fit together
`Batch` says when an op runs; `Commands` is what a command with a key does while it runs, `Executor` what
its ops read and what a stream does, `LiveQuery` what a live query does. `LiveQuery`'s `Deliver` in any order is what
`PgRelay` provides: messages of one server arrive in the order they were notified, between servers there is
none. `ServerWire` composes a server's count, its connections, its HTTP responses and its relay. `OfflineQueue`
and `KtQueue` face a server that runs each key once (`Delivery`), which is what `KeyStore` and its
implementations show. `LiveClient` composes the cache with a client's handles and a server that answers.

MC modules instantiate several components side by side where they share no state: their specification is a
choice, in the initial state, of the one that moves (`part`), so that one run checks each on its own. `MCLiveClient` and
`MCStores` hold the instances of parts of the runs `client` and `rules`.

## 3. The runs

| run | instance | shows |
|---|---|---|
| `client` | *queue*: three commands, one outside the queue at a time, two outages, a reload. *sockets*: three batches of two ops on two sockets. *key*: two attempts that use one key for different arguments on two servers, lease 3 renewed each tick, one missed renewal in a row, records kept for 2. *screen*: a live query or a watch of a list of two rows and one more, beside an edit, a link and a delete by this client and by others; answers, frames, rollbacks, lost connections in any order | `QueueKept` (nothing lost, run in order, no prediction left), `SocketsKept` (one connection; a refusal fails only a refused batch; `unavailable` only on the lost socket), `OwnerHoldsKey`, `RecordsAreTrue` (records and replays say what the first caller was told, of the same command), `ScreensHold` (lists and watches are what the server and the cache say), `ShowsLayers` (implements `LayeredView`), `SentEnds` (drains empty the queue, batches and attempts end), `ScreenCatchesUp` |
| `server` | *ts*: one connection with two batches that use an op id again, one streamed response, two calls of `drain`, a relay that is there, absent or still subscribing; clients read. *kt*: two requests and a drain; an id used again while the capability ends; a live query that is drained and expires; a client that leaves while the server drains | `FlightsCounted`, `AnswersComeThrough` (a drain resolves in time only when nobody reads; a socket is ended after its answers; no last frame under an id a later batch has taken), `KtSessionsKept` (counts are what runs, `drain()` waits for what was in flight and forgets no caller, ids have one batch, a socket is ended after its answers), `ServersEnd` (what nobody reads, shutdown and sessions end) |
| `ops` | *batch* and *kotlin*: three ops, three commands or a stream, a live query and a command; every valid way for them to refer to one another; each may fail, hang, be cancelled, drained. *loads*: a query, a command and a dry run over three shared entities, one failure. *stream*: a limit of two items. *live*: two items, three commits | `ScheduleKept` (commands in order, references held, every op answered once with what its dependants were told), `BatchEnds` (an op cancelled while it waits is answered behind a resolver that hangs; if resolvers return, ops that end by themselves end, and a drained batch does), `KtScheduleKept` (the same of the other runtime, with exactly who may hear of an error after its last frame), `LoadsShared`, `NobodyJoinsAFailure`, `ItemsBounded`, `LiveKept`, `OpsEnd` |
| `kotlin` | *queue*: three commands, two callers, one outage, restart or cancellation. *sockets*: two batches of two frames on two sockets. *key*: three attempts on two keys (a command, its retry, another), lease one tick, room for one record; beside it the same three in the shared store with a lease of one tick | `KqKept`, `KtSocketsKept`, `KcAnswersHold`, `KcKeepsKeys` (implements `KeyStore`), and of the shared store `AtMostOncePerEpoch`, `SharedKeepsKeys`, `LiveLeaseIsNotTaken`. Servers of the shared store do not crash in this run; the theorem `OneEffectPerEpoch` covers that |
| `rules` | *rules*: the inputs in `MCRules`: small schemas over three versions, data with denied rows, a union and a list of two, policies over nulls and decimals, tables of three keys, garbage messages, requests in every form, the server draining at any moment. *relay*: two servers that publish two messages and one, inline or large, rows kept for no time. *memory*: four callers on three keys, room for one record, lease and record one tick. *uploads*: three parts of sizes 1, 1, 2 in a bound of 2, swept by two servers | `SchemaKept`, `OrdinalsKept`, `AnswersHold` (nothing denied, nulls explained, the cost covers the work where a plain list counts as one), `PushdownIsSafe`, `PagesHold`, `WireFormsHold`, `RequestsHold`; `HeardInOrder`, `NothingGoesUnheard` (heard, or reported as gone); `MemoryKeepsKeys` (implements `KeyStore`); `RecordsAreBounded` (never more records than the bound, oldest first); `UploadsKept` (bytes within the bound, no sweep takes more than it must) |
| `queue_two`, `nested_self`, `policy_kotlin`, `uploads_kotlin`, `answers_kotlin`, `kotlin_renewals`, `kotlin_race` | one counterexample each | section 4 |

**Bounds, and why they are enough.** Two attempts are needed to contend for a key, and a second key for
a sweep to have something of another's to take; a tick of lease is the least a command can outlive.
(With a longer lease or an arbitrarily late timer, nothing new is reached: a command that was
stranded runs without a timer, at any distance from the clock.) Three ops are the least in which a
cancelled command stands between two others. Two items and three commits let the root be pointed
elsewhere during a run, and the new item change before or after it is read. Three commands let one be
lost on its way while one waits and another is being sent. Two messages of one server and one of another let
each kind of message stand before and behind each. Three batches are the least for which two refusals and
an answer come in any order; two on one connection the least that use an id again. Three uploads let a
sweep act on a total another has made stale. `MaxWrites`, `MaxSent`, `MaxTime`, `MaxClock`, `LastTime`,
`KcMaxNow`, `MaxOutages`, `MaxReloads`, `MaxRestarts`, `MaxCancels`, `MaxCalls`, `MaxErrors`, `Yields`,
`MaxSockets`, `KtSockets`, `MaxVersions`, `MaxTableWrites`, `MaxChanges` and the number `N` of commands bound
what the environment does; none is a limit of the code. `KcTries` bounds the claim loop of `KtCommand`, which the
code leaves open, and `MaxItems` *is* a limit of the code. `KbRenewalsThrow` says whether the store may fail to renew
the key of a command that has answered. What most of the modules claim is proved without
bounds (section 5).

**Symmetry** is used in `kotlin` and `kotlin_renewals`, over the two attempts of one key on one server; the
properties there are invariants and action properties that treat them alike.

**Deadlock** is not checked: every one of these systems may come to rest (all answered, all stopped), and the runs
are choices of several. That none rests where it must not is what the liveness properties say.

**Fairness**, and where the code justifies it. All of it is weak fairness, and no action of a user, of the
network failing, of an outage ending, or of a cancel is fair.
- `Commands`: promises settle, a resolver returns and time passes (`Step`, `Renew`, `Tick`); no store failure,
  cancel or crash has to happen.
- `Batch`, `KtBatch`: an op whose turn has come starts or is refused. `Executor`: promises run what waits on them.
  `LiveQuery`: the loop goes on and the bus delivers. `PgRelay`: Postgres answers.
- That application code comes back is *not* part of any of these specifications. It is the premise of the properties that
  need it: that resolvers return (`RunsReturn`, `KtRunsReturn`), that loaders do (`CallsReturn`, `ItemsProject`,
  `RunReturns`), that an iterator's `return()` does (`IteratorReturns`). That an op that waits is answered when it is
  cancelled, and that a stopped stream gets as far as asking its iterator to finish, needs none of the last.
- `ServerWire`: `Work` is what the server and its timers do by themselves, and, with `ClientsRead`, a client that
  reads what was written. A resolver that hangs is allowed. In `KtServer` threads run on and resolvers return (`KsWork`), and
  none of it goes on for ever; nobody has to send, cancel, leave or drain, and no timeout has to pass.
- `OfflineQueue`: the drain goes on and an attempt is answered or lost (its timeout); `online` need not fire.
- `WsTransport`: a socket opens or fails, brings its frames while it is open, and its close event comes.
- `LiveClient`: the server answers and its frames arrive while a connection stands; connections need not fail.

What leads to something is stated as `[]<>(P => Q)` where `P ~> Q` would say the same, because what `P` or `Q` says stands once
it holds (an op that was stopped, an answer), or `P` is only taken back when `Q` holds (a drain that was called for).

## 4. Findings

Each is a property that a document or a comment next to the code promises, violated in the run named.

1. `queue_two`, `client/src/offline.ts:148`. Two commands in flight: the later one is lost first, queued
   and is being sent again when the earlier one is lost too and is queued *in front* of it. The answer takes
   the first entry off the queue: the earlier command, never sent and never settled.
2. `kotlin_race`, `Transport.kt:302`. `closed()` ends the batches it finds in `pending` and then clears it: a batch
   that began in between is taken off without being ended, rides the next socket, and is not ended when that
   one ends.
3. `kotlin_renewals`, `Batch.kt:709`. A `renew()` that throws ends `holding`'s scope; it is no cancellation, so the
   key of a command that has committed is released, and a retry runs it again.
4. `policy_kotlin`, `JdbcStore.kt:189`. Decimals are compared as texts by the evaluator and by value in the WHERE
   clause: a negated comparison hides a row the policy allows.
5. `nested_self`, `client/src/cache.ts:94`. A patch may nest an entity in itself. `merge` reads what is stored of the
   entity, then stores the nested one, then writes what it read, with the patch, over it: fields the nested value
   brought are lost, though spec 13 says that nested entities are stored. All other runs and theorems about the
   cache are of rows that link to others (`LinksToOthers`).
6. `uploads_kotlin`, `RayfoldHttp.kt:415`. The Origin rule lets a POST with `Rayfold-Safe` pass because a batch that says so may
   only read; it does so on every route, and an upload reads nothing. A foreign page's upload with that header is kept, where
   `fetch.ts` answers 403. (A browser asks first, by a preflight, before it sends that header for a page.) The run `rules` says
   that the runtimes admit alike, and that foreign pages only read, for all other requests.
7. `answers_kotlin`, `Batch.kt:542`. `fail()` sends its error without asking whether the op was sent its last frame, and
   `untilDrained` throws even if its work has sent it. A stream that ends as the server drains gets `fin` twice. So does a command
   whose renewal throws after its `ok`. `KtScheduleKept` says that nobody else does.
8. `executor.ts:280`, without a run: only fairness could make it a counterexample, and none is justified. The comment above the line
   says that a resolver's iterator is not waited for once the op was aborted. An abort that comes while `return()`
   is already awaited does not end the wait. `StoppedStreamEnds` promises the end of such a stream only if `return()` comes back.

**Seen while modelling**, and not stated as runs. Where a model could not hold with them, the precondition
that leaves them out is named.

*Commands.*
- `server/src/batch.ts:490` says the lease outlives two missed renewals. The interval is `floor(lease / 3)`, so
  when the lease divides by three the third renewal is due at the instant the lease runs out, and a waiting
  retry may come first. `OwnerKeepsKey` is proved under the strict inequality; the run `client` allows one miss.
- `server/src/context.ts:151` says a caller whose renewal is answered `false` must stop. `runOp` stops renewing and
  lets the command go on.
- `server/src/context.ts` `put`: claims in flight count towards `maxEntries`, so a record may be evicted in the call that
  put it.
- Kotlin: a cancel between the emitted `ok` and the end of `holding` records "committed, then the op ended before
  its result was delivered", although the caller was told `ok`. `JdbcIdempotencyStore.sweep` and
  `postgres/src/uploads.ts` `sweep` count, select and delete in statements of their own, so concurrent sweeps delete more
  than the bound asks for; an upload exactly `ttl` old is expired when opened and not swept; an upload larger than the bound deletes itself.

*Batches and the executor.*
- `server/src/batch.ts:598`: a re-run of a live query judges changes by the read set of the result *before*; an entity
  whose type is beyond `reachableEntityTypes`' four levels may be shown and change unheard (`ItemsReach`). `batch.ts:575`:
  the first run shares the batch's memo, so it may take a field loaded before the query subscribed (`EarlierOp`).
- `server/src/batch.ts:655` (and `Batch.kt:815`): the walk marks an entity it first meets at the bound as visited, so
  what it finds depends on the order of the fields.
- `ctx.signal` is never tested between loaders (spec 04 §7 says it must be); a cancelled op whose resolver ignores the
  signal answers its data; a shared load rejected by another op's cancel fails the op that joined it (spec 04 line 218).
- A query that begins between a command's commit and its return may join loads made before the commit.
- Kotlin: a resolver that lets a `CancellationException` escape ends its siblings and the whole batch; a stopped op whose
  resolver does not notice answers `ok` while its dependants are refused; `RelayForwarding`'s order (`Executor.kt` 108-126) does not survive a suspending `publish`.

*Relay, server and sockets.*
- `postgres/src/relay.ts:89`: a large message is notified after its row was written, an inline one that the same server
  publishes next at once, so receivers hear them the wrong way round, whereas line 97 speaks of the order in which the
  publisher sent them. `HeardInOrder` is what does hold.
- `shutdown()`: a client that never reads, or an op that hangs past the drain's timeout, keeps `http.close` from calling
  back; `close()` whose bound passes while `subscribe` is pending never stops the relay later. The HTTP draining check is
  before the awaits of the body, so a batch whose body arrives while the server drains is still run (`HttpEntry`); bindings do not check it.
- `client/src/ws-transport.ts:123`: the close event fails everything in `pending`, also batches already sent on the
  replacement its own comment allows for (`Overlap`). Line 67: a batch whose reader has left is struck off the owners
  of a refusal that may have been its own; `OnlyRefusedFail` is stated for readers that stay.
- Kotlin transport: a collector cancelled while a socket opens cancels the shared future and leaves its entry in `pending`;
  a batch failed before it wrote still writes (`KtOnlyRefusedFail`'s precondition). `PgRelay.kt`: after a lost connection a new `listen` starts a poll on the dead one.

- Kotlin server: `RayfoldServer.kt:158` takes callers off `idle` one after the other. A caller of `drain()` that joins while that
  goes on, after a batch has begun, is told of an end it did not wait for: line 180 says `drain` returns once the batches already
  running have ended (`ksRaced`). `WsSession.kt:125`: an op that is kept between `revoke()`'s look at `ops` and its own `putAll`
  is never told to stop, and the socket outlives the capability by that op, whereas line 73 says it ends there (`ksUnheard`). Line 161: a
  batch that is taken on between the test and the close is cancelled unanswered (`ksSlipped`).

*Clients.*
- `client/src/client.ts:362, 380`: a live query and a watch of the same query keep one stored result; the watch's later answer
  replaces the list the live patches count positions in. `ScreensHold` is stated for clients that open one of them (`OneReader`).
- Across responses the later arrival wins (spec 13 §6). A refused command of the Kotlin queue cancels the drain it was sent from when the scope is the caller's.

*Rules.*
- Projection: a `@lazy` field selected twice is deferred with its first selection only; a denied entity at a nullable union
  position with an explicit shape fails the op (Kotlin answers null, as spec 06 §3 says); `estimateCost` charges nothing for a
  union field without a sub-shape, and one row for a list that is not a page, whatever its length (`cost.ts` 63-65), so a cheap shape may
  be answered with any number of objects (spec 06 §5 speaks of pages only; `CostCoversTheWork` counts such a list as one); clashing arguments are not merged across `@defer`.
- Cache headers: a deferred frame whose root is below a union has no `$type`, so its scope may be `public` (`TypesAreKnown`);
  an aliased field's policy is not found by name. Bindings fold frames with a shallow `Object.assign` (`NothingTwice`).
- Pages: a nested page with `first: 0` says total 0; `find` orders by id while pages order by `id::text`.
- Schema: `T?` → `T = default` on an argument is reported as no change though an explicit null is then refused; an
  `@ordinal` of a member that left an earlier lock is not reported; a type removed and added again loses its highest
  ordinals (`cli/src/main.ts` 44-65; spec 11 line 41 says otherwise).
- Shapes: TypeScript counts every argument value as a nesting level, Kotlin only `{` and `[`; `{a{x} a{y}}` and
  `{a{y} a{x}}` get different ids; canonical text quotes object keys and does not parse back.
- `exact` of a pushed-down bare field means truthiness, `decide()` asks for `=== true`; the superset holds all the same.

## 5. What is proved

The proofs are for every value of the constants, from the named assumptions of each module, which TLC
evaluates in the runs. Each shows `Init => Inv`, that each action preserves `Inv`, and `Inv => P`; most of the
invariants were checked with TLC first. `PROJECT.json` lists the theorems and the property of a run each states.

**CommandsProofs** (any fleet, attempts, keys, lease, time to live, bound)
- `OneEffectPerEpoch`, however late timers are. `AtMostOncePerEpoch` is not inductive: it does not say why a second
  attempt could not be in the same epoch. `OnceInv` adds that (`EpochInv`) attempts engaged with one key hold
  different epochs, none beyond the key's, and the one whose epoch is the key's is the holder of the row if it is
  held; and that (`EffectComesLast`) an attempt that took effect no longer claims or releases, so a key becomes free
  without a new epoch only when nothing happened under it.
- `OwnerKeepsKey`: `LeaseCovers => (Spec => []OwnerHoldsKey)`, where `LeaseCovers` is `Timely` and
  `(MaxMissed + 1) * RenewEvery < Lease`. `LeaseInv`: what is left of the owner's lease exceeds the time to its next
  renewal plus an interval for each miss still allowed.
- `RecordsTellTheTruth` and `RunningLeaseIsKept`: records, answers and replays agree, from an invariant that ties each
  attempt's stage to what its row says.
- `SharedStoreImplements`: every step of the table's statements is a step of `KeyStore` or none.

**KtCommandProofs** (the same for Kotlin servers): `KtAnswersHold` and `KtStoreImplements`, under `~LateFailures`, which is
exactly what the run `kotlin_renewals` refutes otherwise. A claim spans three statements there, so the invariant also says
what an attempt between two of them may have seen.

**BatchProofs** (any finite set of ids, every envelope)
- `BatchKeepsSchedule`, of which `CommandsRunInOrder`, `ReferencesHold` and `EveryOpIsAnswered` are parts. `BInv` adds that
  the commands that are done are the first ones (`DoneInOrder`: what the gate after an early end is for), that an op has a
  status exactly when it has ended (`EndedAnswered`), and that no frame is sent before there is a status (`Bookkeeping`).
  The gate of a command looks only at the one just before it; that it stands for all earlier ones (`GateIsAfterAll`)
  needs that a finite set of ids has a last one (`LastId`).
- `KotlinKeepsSchedule`, the same of `KtBatch`, where nothing keeps a second last frame from being sent. The invariant says who
  may still hear of an error after its last frame while it runs (`KtMayHearTwice`), and that whoever did is a stream in
  a server that drains or a command whose renewal may throw, and counts as failed (`KtToldTwice`).

**RunsProofs**
- `LoadsAreShared`, `FailuresAreForgotten`, for any ops, levels and dry runs: the invariant says who holds which load and
  that what a level read is what the last command before it left.
- `StreamIsBounded`, for a stream of any length. `LiveQueryKeepsUp` / `SleepsOnlyWhenCurrent`, under
  `Covered == ItemsReach /\ ~EarlierOp`: `QuietInv` says that, as long as there is no word of a commit (delivered or on
  its way), what the run has read so far is what the database holds.

**StoresProofs**
- `RelayHearsInOrder`, for any servers and messages: the chain of each relay is the stretch of the channel it was handed and
  has not passed on, with `delivered` and `reported` before it. `GoneRowsAreOld`.
- `MemoryStoreImplements` and `MemoryIsBounded`, for any callers, keys, lease, time to live and bound (`MemoryAssumption`: natural
  numbers, room for one entry). `MapInv` says that the map is in order (`InOrder`: an entry for a key, records by age, none from the
  future) and has few enough records (`Few`). What the sweeps leave is stated in closed form, by what stands before an entry
  (`Left`), not as a loop; `SweptFits` and `RoomFits` look at the first entry a sweep stops at. `Follows` says how any
  operation may change the map, key by key, and `SlotsFollow` that such a change is a step of `KeyStore`.

**ServerProofs** (any batches, connections, responses, drains; `WorkloadsFit`, `OneTransport` and `KtServerAssumption` say what a batch belongs to)
- `CountIsRight` and `NoAnswerIsLost`. `WireInv` is the conjunction of `Typed`; `Flights` (each batch is at a stage, its ops
  are fresh before it is heard, and from then on each is answered, in the sink or left, once); `Count` (`active` is the
  cardinality of what is in flight); `Told` (a reader that is done was told all of it); `Tracked` (an op of an open
  connection that is not answered is kept under its id as the latest there). That ids are reused is why `Tracked` names the latest.
- `KotlinSessionsKept`. `KsInv` adds to the three parts of the property where a batch may stand: an op kept under its id is of a
  batch of that session that was taken on and has not ended it, and of a batch that is being read no id is in use (`KsKept`: that is what
  `onMessage`'s test is for, and why one reader per session matters); what was told has ended, and a batch that is over on a
  session nobody closed or found idle has told all of it (`KsSaid`); a caller of `drain()` is in `idle` or was told, when nothing runs
  someone is telling, and who was told was so when all it waited for had ended (`KsWaits`).

**SendingProofs** (any batches, ops, frames and sockets; any commands, callers, outages, reloads and restarts)
- `AttributedIs`, what the loop of `attribute` does for any frames and batches: if each frame without an op id is the refusal
  of one of the open batches, of a different one each, and that batch is among those it may be of, then every batch the loop
  closes was refused, and the frames it keeps have the same property among the batches left. `OwnersAreRefused` is the step: n frames
  that may only be of n batches are the refusals of just these, by counting.
- `WsSocketsKept`: `~Overlap => (WsSpec => []SocketsKept)`. `WsInv` adds how sockets stand to one another (`SocketsInTurn`), each
  batch to its socket and to the server (`BatchesOnSockets`), the frames on their way to both (`FramesInPlace`: each batch is refused at
  most once), and that, while no reader left, each frame kept is the refusal, off the wire, of a batch that may own it
  (`OrphansInPlace`, the loop's precondition). With `Overlap` the property fails: the close event of a socket fails
  what is pending on the one that replaced it (section 4).
- `KotlinSocketsKept`: `~Racing => (KtSpec => []KtSocketsKept)`, where `kotlin_race` refutes the property with `Racing`. `KtInv`
  adds that a batch that began and has no end is pending, so that `closed()` finds it; that what is pending when `closed()` forgets it has
  ended (`KtCleared`); that a batch may still receive at least what the server owes it and what is on its way, by counting; and, while
  those the server refused are there to be told, the loop's precondition (`KtUnownedInPlace`).
- `OfflineCommandsKept`: `MaxDirect <= 1 => (QueueSpec => []QueueKept)`. `QueueInv` adds that a command outside the queue is
  alone (`OneAtATime`) and whose turn it is (`InTurn`): once a command is on its way, ran, or left a request behind, every command made before it is over,
  which is what makes the server's order the order they were made in. With two outside the queue at once it fails, as
  `queue_two` shows.
- `KotlinCommandsKept`: `KqSpec => []KqKept`, for any callers at once. `KqInv` weakens `InTurn` to what callers on any thread leave of it
  (`KqInTurn`): what was made before a command on its way has ended, is gone, or was under way beside it when it chose its way
  (`KqBesides`). Between `KqRemove` and `KqSettle` the drain's command waits and is no longer held, and a restart may come just there;
  `KqHolds` and `KqAtHead` account for it. The lemmas of both are about sequences that rise: an entry put before the first made later (`AddRises`) or taken out
  (`RemoveRises`) leaves the queue in order with one member more or less.

**LiveClientProofs** (any rows, fields, calls and workloads, any number of changes and lost connections). `LinksToOthers` leaves
out the entity nested in itself, which the cache stores wrongly (`nested_self`, section 4).
- `CacheImplementsLayers`: `CacheInv` says that what is stored of an entity is its base with the
  layers laid over it (`Laid`), and that only the entities some layer changes have a shadow. Each operator of `ClientCache` is
  shown to keep it once, as a lemma, and to be one of the steps of `LayeredView`: the server says something, a
  command is predicted, or one is settled.
- `ReadersSeeWhatIsThere`: lists and references name entities that are there, since a deletion takes all of them out at
  once; and every change to what a watch shows is marked, and so announced. It holds with a live query beside the watch.
- `ScreensAreOfOnePiece`: `LinksToOthers /\ OneReader => (Spec => []ScreensHold)`. The inductive invariant follows the
  response from the server to the list: each frame on its way speaks of the list the one before it left, and fields that are
  deferred come right behind the first part (`Streams`); the client's list is the one described so far, with gaps where this client
  was told of a deletion (`Alike`), and rows nobody else speaks of have the fields described (`RowsHeld`). That the positions
  of a frame turn the old list into the new one is a lemma about `listDiff`'s walk (`WalkLeads`, `Describes`), also for a list
  with gaps. It needs an induction over numbers, which the library's theorem cannot give here; `Counting` gets it from the
  finiteness of an interval.

## 6. What is only model-checked, and why

- **Liveness** (`SentEnds`, `BatchEnds`, `ServersEnd`, `NothingGoesUnheard`, `OpsEnd`, `ScreenCatchesUp`): the proof
  system does not reach liveness under fairness.
- **Recursion over data** (`SchemaKept`, `OrdinalsKept`, `AnswersHold`, `PushdownIsSafe`, `WireFormsHold`, `RequestsHold`):
  the operators recurse over shapes, expressions and values. No theorem is possible in a module that declares a
  RECURSIVE operator, and what a recursive function computes for every input would need an induction the provers cannot
  instantiate. So too `UploadsKept`, whose count sums the bytes of a sequence, and `PagesHold`, which sorts.

## 7. What is not modelled, and why

- Parsing and formatting: schema text, the bytes of frames and of Rayfold Binary, the text of compiled SQL, OpenAPI, MCP
  descriptions, the importers. They have test vectors and no state between calls.
- The command line beyond `check` and `lock`, the explorer, the language server, tracing, the builder, the examples and the
  documentation's playground: they keep no state of the protocol. Counters and usage: nothing reads them.
- Authentication: a decision on a viewer, an origin or a token. Where its outcome matters it is a failure that may or may not
  happen; expiry of a capability under a connection is modelled.
- UI adapters: they subscribe to `watch` and `live`.
- Parts of modelled components: `MemoryRelay`, the loss of a relay's listening connection, the codec a WebSocket drops when
  it is closed with 4409, eviction and persistence of the client's cache, frames that cannot be serialised.
- Kotlin's live queries, HTTP server, relay and uploads: modelled from the other runtime only.

## 8. Plan

1. **Kotlin servers**: the polling relay (`PgRelay.kt`), beside `PgRelay`; `Live.kt` beside `LiveQuery`; `RayfoldCache.kt` beside `ClientCache`.
2. **Reachable types** (`batch.ts` 648-670): the bounded walk over every small schema, in place of `ItemsReach`.
