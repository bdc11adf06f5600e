# A TLA+ model of the Kopano API daemon

Kopano API (`kapid`) is one Go process: an HTTP server, and plugins which
register HTTP routes with it and run goroutines of their own.  The modules here
model its core logic: the pub/sub streams of the `pubs` plugin, the key value
store of the `kvs` plugin, the worker discovery of the `grapi` plugin, the
life of the server and its plugins, and the way of a request through the access
check to its handler.  TLC checks small instances; TLAPS proves the main safety
properties of all of them for instances of any size, and that the event stream and
the documents of kvs implement the atomic specifications that clients rely on.

Contents: [inventory](#inventory), [modules](#modules-and-the-code),
[runs](#runs-and-bounds), [fairness](#fairness), [proofs](#proofs),
[what disagrees](#where-code-and-documentation-disagree),
[observations](#observations-without-a-run), [what is left out](#what-is-left-out),
[plan](#plan), [how to run](#how-to-run).

## Inventory

Paths are relative to `src/`.

### The parts and how they interact

```
 client --HTTP--> server.Server --route--> plugin.ServeHTTP --> handlers
                      |  \__ AccessTokenRequired (kcoidc, external)
                      |
                      |-- Initialize(ctx, errCh, srv) / Close() --> plugins
                      |-- listener goroutine --- errCh, exitCh --- Serve
 pubs:  read pumps, forwarders, webhook handlers --- commands --- hub goroutine
                                                 <-- channels ---
        connect handler -> table of keys <- websocket handler, cleanup goroutine
 kvs:   initializing goroutine -> KV (handle, statements) <- handlers, Close
 grapi: two finder goroutines -> proxies <- handlers
```

| part | state | operations | what is hard | what makes it correct |
|---|---|---|---|---|
| pubs, event stream (`plugins/pubs/pubsub.go`, `events.go`, `handlers.go`, `plugin.go`) | the registry and the buffered channels of the hub (`github.com/cskr/pubsub`), per connection a read pump and a forwarder | sub, unsub, pub, webhook pub, connect, disconnect, Close | one hub goroutine serves everybody over an unbuffered command channel and blocks on full subscriber channels; failures of a connection are noticed by two goroutines; Close in between | events in order and complete, no send on a closed channel, acks after effects, everything released, nobody waits for ever |
| pubs, stream keys (`plugins/pubs/handlers.go`, `http.go`, `plugin.go`) | table of keys, table of connections, a counter | connect, websocket request, purge of expired keys | requests and cleanup race for table entries | a key is used once, by whom it was given to, and does not live on |
| pubs, webhooks (`plugins/pubs/handlers.go`) | none: id and topic are in a signed token | register, publish | publishing races with everything in the stream; no access token, two ids in a request; webhooks of an earlier process | an event names a registered webhook and its topic |
| kvs, life of the store (`plugins/kvs/plugin.go`, `kv/kv.go`) | handle, statements, `migrate`, three channels, a mutex; the schema and the dirty mark in the database | initialize with retries and migrations, Close, lookup by requests | Close races with an attempt; requests read fields without the mutex; migrations fail half way | ready means usable, closed stays closed, Close is not held up, retries succeed some time |
| kvs, documents (`plugins/kvs/handlers.go`, `kv/statements.go`) | the table `kv` | GET, GET recurse=1, PUT, PUT batch, DELETE | partial failure of batches; an error of a commit that took effect; different columns in unique index and selections; three computations of the collection | batches are atomic, what was stored is found |
| kvs, JSON and base64 (`plugins/kvs/handlers.go`, `kv/record.go`) | none | decode and encode values | lengths and padding | what was given is stored |
| server, life (`server/server.go`, `server/plugins.go`) | plugin list, `errCh`, `exitCh`, `signalCh` | load, initialize, serve, shut down, close | three goroutines send to a channel of two; signals at any time | each plugin closed once, requests only meet live plugins, Serve ends |
| server, requests (`server/handlers.go`, `auth/`, `grapi/auth.go`) | the scopes each plugin requires, whether tokens can be validated yet; per request the auth record | configure, dispatch, check, act for a user | scopes are set while plugins initialize, some after their routes were made; tokens with any combination of claims; headers a client can send too | no effect without a valid token and the scopes in force; everything on behalf of the token's user |
| grapi (`plugins/grapi/plugin.go`, `proxy.go`) | two proxies under a mutex, `exitCh` | find sockets, install, proxy a request, Close | socket files appear and disappear while they are looked for; the proxy is made once | every worker is used, a request keeps a valid proxy, finders end |
| httpproxy (`proxy/`) | configuration of the embedded caddy proxy | make a proxy, pass a request on | external | - |
| command (`cmd/`) | flags, logger | start the server | - | - |

The hazards, each at its line and with the properties that would notice it, are
listed under `hazards` in `PROJECT.json`.

## Modules and the code

Actions carry the names of the functions or of the step they take inside one;
`PROJECT.json` maps every definition to its lines.  Definitions introduced by
"A bug" are variants of an action with a plausible mistake; no specification
uses them, they exist to show that the properties notice such a mistake.

**PubsFeed** is what a client can rely on: an atomic topic feed.  Publishing puts
an event on the feed of every subscriber, once for each topic of the event it is
subscribed to; a feed is delivered in order until its connection ends.

**PubsStream** is the event stream as the code has it, one variable per program
counter:

- `pump[c]`, `cmd[c]`: the read pump of connection `c`.  `Connect`, `Join`,
  `Greet` are `serveWebsocketConnection` and `onSubInit`, split at the call into
  the hub; `Receive`, `OnSub`/`OnUnsub`/`OnPub`, `Ack` are `OnText` with
  `onPubSub` and the handlers below it, split where the handler waits for the hub;
  `Reject` is `OnError`; `Fail` and `Hangup` are the connection closing and the
  pump noticing; `Disconnect` is `OnDisconnect` with `onUnsubAll`.
- `fwd[c]`: the forwarder started by `onSubInit` (`ForwardSent`, `ForwardFails`,
  `ForwardEnd`).
- `hook[h]`: a webhook publish request waiting for the hub.
- `running`, `todo`, `target`, `msg`, `subs`, `chan`, `buf`: the hub.  It is
  external and modelled from its use: commands are taken one at a time over an
  unbuffered channel, so that caller and hub move in one step (`HubReady`); for an
  event it sends to channel after channel (`todo`, `target`) and blocks on a full
  one (`HubSend`); a channel whose last topic is removed is closed (`Deregister`);
  `Shutdown` removes and closes all.
- `stop`: `PubsPlugin.Close`.

Events are numbered; topics and connections are model values; what an envelope
contains is left out, a malformed message is `Reject`.  The topics of a message are a
set: a topic that is given twice in one publish is sent twice by the hub library, which
the model does not show.

`AckAfterEffect`, which is about steps, has two parts, since a publish leaves no state to look at: `AckInv` says
that while the ack of a sub or unsub is sent the hub has, or no longer has, the
subscription; its other part says that a pump gets to the ack of a publish only in the
step in which the hub takes that event (`EventTaken`) for all who are subscribed then.

**StreamKeys** is how a connection comes about: `Stamp` and `Store` are
`handleWebsocketConnect` up to and including the insertion into `p.keys`;
`PopKey`, `UpgradeFails`, `Upgrade`, `NoConnection`, `Serve`, `End` are
`handleWebsocketConnection` and `serveWebsocketConnection`, split at every access
to shared state; `Scan` and `Purge` are `purgeExpiredKeys`, which iterates first
and removes afterwards; `Tick` is the ticker, which drops ticks nobody receives.
`user[k]` is the user whom the connect request
of key `k` was authenticated for, `record[k]` the user in the record stored under `k`, and
`req[r].user` the one in the record that request `r` has popped.
Time is counted in units; of a key only its age is kept.  `prompt` is the one
history variable: it stays true while no handler and no cleanup takes a unit or
more.

**KvLifecycle** is the store of the kvs plugin.  `init` is the goroutine of
`KVSPlugin.Initialize`, with one action for each step of `KV.Initialize` and
`KV.initialize` that can fail or that shares state with Close: `Begin`, `Open`,
`Ping`, `RegisterMigrate` (under the mutex), `Version`, `Migrate`/`MigrateFails`,
`Finish`/`FinishFails`/`FinishQuit` (under the mutex), `Retry`.  `close` is
`KVSPlugin.Close` and `KV.Close`, which holds the mutex from `CloseQuit` to
`CloseDB`.  Requests wait in `Stmt` (`StmtWait`, `StmtGet`) or, for a batch, do
not (`BatchBegin`).  A request that has got a statement from `Stmt` still has to start it
(`StmtStart`), which is an error once Close has closed it; and `CloseStmts` waits for the
calls of statements under way (`executing`), as `database/sql` does.  `handle` is the `*sql.DB` of the running attempt and `lost`
says that an open one has been forgotten.  `schema` and `dirty` are in the
database and may have any consistent value at the start, so that a restarted
process is covered.  `kv.db`, `kv.stmts` and the close of `kv.initializing` are
published in one step although they are three statements inside the critical
section: only a batch looks at one of them (`kv.db`, the first) without waiting for
the last, and it looks at nothing else.

**KvsDocs** is what HTTP clients of the kvs plugin can rely on: documents by user
and key, each request one atomic step.  **KvStore** has the rows, the handlers and
the statements: `Put`, `Get`, `Delete` are one statement each; a batch is a
transaction (`Begin`, `Exec`, `Commit`, `Rollback`), or answered at once if it has no
entries (`BatchNothing`).  `tx[r]` has how many entries of the
batch are done and the rows they have written, which nobody else sees; a commit lays
them over the table (`Apply`).  That an entry takes effect on the rows and not on the
table is what the database promises a transaction (ReadCommitted).  Statements and commits may answer with an error although they have taken effect.
What is stored is a value and the zero bytes behind it: `BatchValue` is the decoding of a
batch entry, by the lengths of `encoding/base64` (`EncodedLen`, `DecodedLen`).
`Recursive` is a GET with `recurse=1`, an operator on the table, since it changes
nothing; a document that is not the JSON it claims to be cannot be put into its
response (`Encodable`).  A key is the sequence of its segments.  `Empty` is the empty
segment: `<<Empty>>` is the key of `/kv/user/`, and a batch to it writes keys like `/a`,
which begin with `Empty`; no URL has such a key, since the router cleans paths
(`Urls`).  `Empty` is also the collection of a document that is in none.  That the code
compares strings, where `ab` is also below `a`, matters only for segments that are
the beginning of another one, which are excluded, as are keys that end in a slash.

Two properties are about what a recursive GET finds.  `RecursiveFindsAll` is what the
README of kvs says, all documents with the prefix, and does not hold (finding 3).
`RecursiveFindsCollection` is what does hold: nothing without the prefix is returned,
and within the limit every document that has it and is in the collection of the URL is,
by whichever of the two writers it was stored.

**ServerLifecycle** is `Server.Serve`: `LoadPlugins` (all plugins in any order, those
of `--plugins` in theirs, or none), `InitializePlugin`, `StartFails`,
`InitializeOIDC`, `Listen`, `OnError`/`OnSignal`, `Shutdown`, `Drained`,
`ClosePlugin`, `CancelContext`, `Exit`/`SecondSignal`; the listener goroutine
(`ServeStops`, `ServeExits`); and the goroutines of plugins that report to
`errCh` (`FinderStops`, `FinderFails`, `FinderSends`).  The listener takes a connection (`Accept`) while `down` is
"no"; its request is dispatched (`Request`) later, during the shutdown too, or never comes
(`Hangup`).  `Drained` is the return of `srv.Shutdown`, whose result `down` keeps: "clean"
when no connection is left, "timeout" when Shutdown gave up after 10 seconds.
Connections that were taken over by the websocket handler are none of these: Shutdown does
not wait for them, and they end with PubsStream.  A plugin is its Initialize
and Close here; KvLifecycle and PubsStream say when these return.

**HttpRequests** is ServerLifecycle with its requests; every step of it is a step of
ServerLifecycle or leaves that alone, which is proved.  `Configure` is what
`Initialize` of a plugin does about scopes: it makes its routes and then reads
what is configured, so `routed` and `required` may differ; grapi makes its handlers
at each request and uses `required`.  `ProviderReady` is the OIDC provider, which
Serve does not wait for beyond 10 seconds.  A request is accepted (`Connection`) and arrives (`Arrive`), goes to the
plugin of its path or to none (`NotHandled`), passes `AccessTokenRequired` or gets 403
(`Authorize`), and is handled: `Proxy` with `SetHeaders`
(`injectAuthIntoRequestHeaders`), `HandleUserKV`, `Connect`, `WebhookRegister`,
`WebhookPublish`.  A bearer token is a record of what the code looks at: whether it is
valid and an access token, its scopes, subject and the two parts of its identity
claim.  `inside` and `seen` record how far a request got and for whom.  A webhook
is its id and topic; `hooks` is the set of those a token exists for, since only a
token signed by this process, or by an earlier one with the same key, can be
decoded.  The websocket route, which needs no token, is in StreamKeys; what the handlers
do to the state of their plugins is in KvStore, PubsStream, StreamKeys and GrapiProxy.

**GrapiProxy** is the grapi plugin: per kind of socket a finder (`LookInVain`,
`Look`, `Wake`, `Leave`, `Install`, `InstallFails`), requests that take the proxy
under the lock and use it later (`Request`, `Respond`), `Close`, and the external
fleet of workers (`CreateFile`, `Restart`).  Its assumption on the environment is
that a fleet creates its files within one pause of the finder (`Burst` <= `Pause`).

**MCPubsStream**, **MCKvStore** and **MCHttpRequests** give model values, keys,
tokens and plugin lists to TLC.  **PubsStreamProofs**, **PubsStreamRefinement**,
**StreamKeysProofs**, **KvLifecycleProofs**, **KvStoreProofs**, **GrapiProxyProofs**,
**ServerLifecycleProofs** and **HttpRequestsProofs** hold the theorems about the
module each is named after.

The plugins are separate modules because they share nothing but the order in which
they start and stop, and the check in front of their handlers: plugins do not call
each other, and Serve calls them only through Initialize, ServeHTTP and Close.

## Runs and bounds

| run | what it shows | bounds, and why they are enough |
|---|---|---|
| `stream_safety` | types, no send on a closed channel, registration and release, acks after effects, the inductive invariant, and that the stream implements PubsFeed, with failing connections | two connections, two topics, a webhook, one event, channels of one.  Two topics are needed for an event that goes twice to one channel and so blocks the hub in the middle of an event; two connections for one that leaves or unsubscribes while the hub is busy with the other |
| `stream_live` | hub, subscribers and Close make progress: events that follow each other all arrive | two connections without failures, one topic, two events, channels of one: the second event finds channels full |
| `stream_stuck` | a counterexample, see below | one failing connection and three events: one is lost by the forwarder, one fills the channel, one blocks the hub |
| `keys` | single use, users, connection numbers, the lifetime of keys, what cleanup may remove, and that it does; the two inductive invariants of the proofs | two keys, two requests, expiration 1 and interval 2 units, the ratio of the code's 30 and 60 seconds.  Conflicts are between two requests for a key, or a request and the cleanup |
| `kv_lifecycle` | ready means usable, closed is closed, no crash in service, Close returns, the store becomes ready | one request of either kind; requests do not change what the others see.  Nothing else is bounded: the number of attempts is not |
| `kv_leak` | a counterexample, see below | no requests |
| `store` | KvStore implements KvsDocs; recursive GET finds what PUT and batch have stored | two users with two clients each and a request of either, six keys with up to three segments, batches of none to two entries, a limit of two, which a batch and a PUT to one collection exceed; keys include
the empty one and one written below it, so that documents without a collection are found
and missed; one value of a single byte that is not JSON, one that is, one that only claims to be |
| `store_recursive` | a counterexample, see below | one request, a key of one segment and one below it, one value |
| `batch_padding` | a counterexample, see below | one request |
| `server` | each plugin closed once, requests in a handler meet initialized and open plugins only, before and during the shutdown, an error or a signal ends Serve; what takes effect is authorized, for the token's user, and events name a registered webhook | `--plugins` with the three plugins and an unknown id, other scopes configured for grapi, both finders of grapi, `errCh` of two as in the code.  One request asks for anything, with one token for each reason to refuse it; another registers a webhook, which the first may publish to.  Requests meet only in the webhooks, so that a third adds nothing |
| `access_scopes` | a counterexample, see below | all orders of the plugins, other scopes configured for kvs, no finders |
| `grapi` | all workers of a fleet are used, requests keep a valid proxy, a proxy appears, the finder ends | two workers, two requests, two restarts, pause and burst of two ticks.  One kind of socket: the two finders share nothing but Close and time |

Symmetry is used for the safety run of the stream and for the store, over sets
whose elements no action tells apart; not where liveness is checked.

`CHECK_DEADLOCK FALSE` stands where the system may come to rest: clients that say
nothing more and a closed plugin (stream), a store that is closed and has answered
everything, a Serve that has returned.

## Fairness

Nothing is assumed of clients, signals, failures and calls of Close: they may
happen or not.

- PubsStream: a goroutine that can run runs (weak fairness of the steps that need
  nobody else).  A goroutine that waits for the hub gets strong fairness: it is
  enabled only while the hub is between two events, and the Go channel keeps
  waiting senders in order, so it is served if the hub comes back again and again.
  Forwarders are fair, which says that `RawSend` of a healthy connection returns.
- StreamKeys: time passes, the cleanup goroutine runs.  Handlers need not go on.
- KvLifecycle: both goroutines run.  The steps of Close have strong fairness
  because Go's mutex is fair to a waiting goroutine.  Strong fairness of `Open`, `Ping`,
  `Version`, `Migrate` and `Finish` is an assumption about the database, not about
  scheduling: if a step is tried again and again, it succeeds some time.  `Execute` of a statement is
weakly fair: `CloseStmts` waits for calls of statements, and Close returns only if
these do (they run on a connection of the database, with the context of their request).
- HttpRequests (and ServerLifecycle): Serve and the goroutines run; the listener stops once it has been shut
  down.  Nothing is assumed of the provider or of requests: Serve does not wait for
  either without a limit of time.  Finders end, by success, failure or the end of their plugin.
- GrapiProxy: time passes and finders run.  `Leave` has strong fairness: a finder
  that finds both its second over and the plugin ended chooses at random.

## Proofs

All theorems hold for every value of the constants the named assumption allows.
Each is the usual argument: an invariant that holds initially and is kept by every
action (one step of the proof each), and properties that follow from it.

**PubsStreamProofs**, from `StreamAssumption` (failing connections are
connections, finitely many topics, the broadcast topic is none of them, channels
have room for at least one event):

- `TypeCorrect`: `Spec => []TypeOK`.  More than a list of types: no channel holds
  more than its capacity, and the delivery the hub is making is one of those still to be
  made.  The steps that need care are `Accept` and `HubSend`, which choose the next
  `target` (lemmas `PickTyped`, `AcceptTyped`, `TargetTyped`), and the forwarder's
  `Take` (`TakeTyped`).
- `HubCorrect`: `Spec => []HubInv`, the inductive invariant.
- `NoSendOnClosedCorrect`, `ServedOrReleasedCorrect`, `AckAfterEffectCorrect`: the
  three properties follow from `HubInv`, but for the second part of `AckAfterEffect`,
  which is proved of each step.

Why a strengthening is needed: that the channel of every pending delivery is open
(`NoSendOnClosed`) is not inductive, since nothing in it stops an unsubscription from
closing a channel the hub still has to send to.  `HubInv` adds what does: pending
deliveries go to subscribers (`d[1] \in subs[d[2]]`), a channel is open exactly as
long as the hub has a topic for it, and a connection in service holds the broadcast
topic, which no client can name (`Broadcast \notin Topics`), so that no client
command can take away its last topic; and commands are taken only when no delivery
is pending.  An acknowledgement is right because the only other command that
could undo it comes from the same pump, which is busy acknowledging.

**PubsStreamRefinement** proves `ImplementsFeedCorrect`: `Spec => ImplementsFeed`, from
the same assumption.  The feed of a connection is its channel's buffer followed by
one copy of the event for each delivery the hub still owes it (`Owed`, a cardinality).
With that:

- taking an event in `OnPub` or `HookPublish` is publishing it at once to all
  subscribers (`AcceptPublishes`; here the hub must be idle, so that feeds are buffers);
- `HubSend` moves one copy from what is owed to the buffer and is invisible
  (`SendInvisible`, with `OwedBecomesBuffered` on sequences);
- the forwarder takes the head of the feed, as its buffer is not empty
  (`TakeAdvances`, `ForwardDelivers`, `ForwardFailsQuits`);
- a forwarder ends normally only when its channel is closed, and by `HubInv` nothing is
  owed to a closed channel, so nothing of the feed is lost (`ForwardEndQuits`);
- a feed that has ended does not begin again, for which `ForwarderStartedOnce` is
  proved besides.

**StreamKeysProofs**, from `KeysAssumption` (`NoUser` and `NoKey` are outside their
sets, expiration and interval are positive):

- `TypeCorrect`, and `KeyCorrect`: `Spec => []KeyInv`.  `SingleUse` alone is
  not inductive: it does not say that a key in the table is nobody's, nor that it
  cannot come back.  `KeyInv` says both: a key in the table has been stored and is held by
  nobody, a held key has been stored (and is stored once) and is out of the table, two
  holders of a key are one.  `SingleUseCorrect` and `ServedForUserCorrect` follow, the latter because `KeyInv` also
  keeps the record of a key in the table, and the one a request has popped, that of the
  user whom its connect request was authenticated for.
- `TimeCorrect`: `Spec => []TimeInv`, under prompt handlers and cleanup.  The bound on
  the age of keys is not inductive without the phase of the ticker: after a cleanup
  no remaining key is older than the expiration, and from then on age and phase grow
  together.  `LifetimeBoundedCorrect` follows, and, as what a cleanup has scanned is
  older than the expiration, the action property `PurgeSparesFreshCorrect`.
- `ActiveCorrect`: `Spec => []ActiveInv`, and from it `ActiveIsServingCorrect`.  That
  two sets have the same size is not inductive: a connection could remove another's
  entry and both still shrink by one.  `ActiveInv` says which entry is whose: the table
  holds exactly the numbers of the connections in service, and no two connections
  have one number.  So the numbers are a bijection between the two sets, and
  their cardinalities agree.

**KvLifecycleProofs**, from `LifecycleAssumption` (a request has one kind):
`TypeCorrect`; `StoreCorrect`: `Spec => []StoreInv`; `ClosedForGoodCorrect`,
`ReadyMeansUsableCorrect` and the action property `NoCrashInServiceCorrect`.
`StoreInv` adds that `db` is set exactly between the end of the last attempt and Close and
that no attempt is under way then: without it a step of an attempt could replace the
handle of a store in service, or a late `Finish` revive a closed one.
`LosesNoneInServiceCorrect` says where the leak of `kv_leak` ends: no step taken while the
store is ready forgets an open handle, so that only attempts that fail, or that find
the store closed, do.

**KvStoreProofs**, from `StoreAssumption` (keys are finitely many, as `ekey` is a
`VARCHAR(255)`, and not empty; limits are positive; malformed JSON is JSON by its
content type) and `NoneAssumption`, `NoDocumentAssumption` (`None` is no row, request,
answer, transaction or document):

- `StoreTypeCorrect`: `Spec => []TypeOK`.  What needs arithmetic is that a decoded value
  is followed by at most two zero bytes (`Padding`, `BatchValueStored`), for values of any
  length.
- `RowCorrect`: `Spec => []RowInv`.  PUT takes the collection from the key, a batch from
  its URL; that both file a document alike, `coll = PutCollection(key)`, holds because
  the keys of a batch are behind its URL (`SameCollection`).  For the table alone this is not
  inductive, since a commit brings in rows written before: `RowInv` says it of the rows of
  open transactions too.  `RecursiveFindsCollectionCorrect` follows: with all rows filed
  by their own key, selecting the collection and filtering by prefix leaves out
  nothing of the collection that has the prefix, and lets in nothing else.
- `TxCorrect`: `Spec => []TxInv`.  An open transaction has written, for each key,
  what the last of the entries done says (`LastRow`), so that when all are done it holds
  what the batch as a whole asks for (`Written`).  This takes the place of an induction over
  the batch: `Exec` is one step of it (`NextPlace`).
- `ImplementsDocsCorrect`: `Spec => ImplementsDocs`.  A document is what is left of a
  row without its collection, and a request of KvsDocs is the whole batch.
  `Put` is a write of one document (`PutWrites`), `Get` and `Delete` are theirs
  (`GetReads`, `DeleteDeletes`), `Fail` and `Rollback` are errors without effect
  (`FailsAlone`), and `Begin` and `Exec` are invisible.  `Commit` is the write of
  all documents at once (`CommitWrites`), for which `TxInv` is needed.
- `UsersApartCorrect`, the action property that what is stored changes only in the step
  that answers a request and only for its user, whatever else is under way.
- `GivenIsStoredCorrect`: if the length of every value that is not JSON is a multiple
  of three, what is stored is what was given.  So the padding is all there is to finding 4.

**GrapiProxyProofs**, from `GrapiAssumption` (a fleet creates its files within one
pause of the finder): `TypeCorrect`; `FinderCorrect`: `Spec => []FinderInv`;
`EveryWorkerServesCorrect` and `SnapshotStaysCorrect`.  What makes the second look
complete is a relation between two clocks: while a finder that has seen files
sleeps, it has not slept longer than the files exist (`slept[k] <= age[k]`), unless
the fleet is complete; so when it has slept the pause, which is no shorter than
the burst, all files are there.

**ServerLifecycleProofs**, from `ServerAssumption` (finitely many registered plugins,
an error channel with room): `TypeCorrect`; `ServeCorrect`, the invariant `PlaceInv /\
ServeInv`; `EachClosedOnceCorrect` and `RequestsMeetPluginsCorrect`.  `PlaceInv` bounds
how often a plugin was initialized or closed by the place of Serve in its list, which is
what types need when a plugin is in the list twice.  `ServeInv` is for lists without
repetition and says more: the plugins initialized, and closed, are exactly those before
that place (`Times`), none before the loop and all (`All`) after it, and the listener is
off until all are initialized.  None of the two properties is inductive without it,
since they speak of the ends of the loops only.  `RequestsMeetPluginsCorrect` needs one
thing more, `ConnectionInv`: connections exist only once the listener has been started, and none is left
once Shutdown has returned "clean".

**HttpRequestsProofs**, from `RequestsAssumption` (the shape of tokens and calls)
besides: `ImplementsServe`: `HttpSpec => Spec`, so that everything proved of
ServerLifecycle holds with requests; `HttpTypeCorrect`; and

- `IdentityIsTokensCorrect`, by `TokenInv`: a request that was let in carries the token
  it came with, and what a handler took the user for came from that.
- `GrantCorrect` and `AuthorizedCorrect`, for lists without repetition, by two invariants.  `ConfigInv` relates
  the scopes to the progress of the start: a plugin initialized once requires what
  is configured, and its routes what the source says.  `GrantInv` says that no
  request is open before the start is over and that whoever is inside was granted
  access by the scopes of `ConfigInv` (lemma `Admission`); it needs `ServeInv` to know that
  the plugin that handles a request is initialized.
- `ConfiguredScopesRequiredCorrect`: where the configuration of kvs and pubs names no scope
  beyond their defaults, every scope configured is required, whatever is configured for grapi.
  So finding 5 is about these two plugins and about such scopes only.
- `EventsNameTheirHookCorrect`, by `HookInv`: every known webhook comes from an
  earlier process or from a registration that was answered, and stays known.

The invariants were checked with TLC on the configurations of the runs before they were
proved (`HubInv`, `KeyInv` and `TimeInv` are part of runs).

Only model-checked: liveness and the role of fairness (`HubResponsive`,
`EventsReachSubscribers`, `CloseEndsForwarders`, `KeysGo`, `CloseReturns`,
`ReadyEventually`, `ErrorEndsServe`, `SignalEndsServe`, `ProxyAppears`, `FinderEnds`), which
TLAPS cannot reason about.  Every other property of a passing run is a theorem.

## Where code and documentation disagree

Each of these is a run that ends with a counterexample.

1. **A failed connection may never be released** (`stream_stuck`).  When `RawSend`
   fails the forwarder closes the connection and returns without draining its channel
   (`plugins/pubs/pubsub.go:75-81`).  Its topics stay registered until
   `OnDisconnect` reaches the hub.  If the channel fills up before, the hub blocks on
   it for ever: nobody receives from the channel, and `Unsub` waits for the
   hub.  Every publisher, subscriber and Close then waits too.  It takes more than 256
   events in that window.
2. **A database handle may be lost** (`kv_leak`).  An attempt that fails after
   `sql.Open`, or that finds the store closed, returns without closing its handle;
   Close only closes `kv.db` (`plugins/kvs/kv/kv.go:142-206`, `220-248`).
3. **A recursive GET of a key does not return the document with that key**
   (`store_recursive`).  PUT gives a document a collection only if its key has several
   segments (`plugins/kvs/handlers.go:157-160`); a GET with `recurse=1` selects the
   collection named by the first segment, however many there are (`handlers.go:69-72`).
   After PUT of `a` and of `a/b`, `GET a?recurse=1` returns `a/b` alone, while the README
   (`plugins/kvs/README.md:131-132`) promises all keys with the prefix.
4. **A batch stores more than it was given** (`batch_padding`).  The buffer for a
   decoded value is as long as its text allows, padding included, and the number of bytes
   decoded is dropped (`plugins/kvs/handlers.go:218-219`).  Up to two zero bytes follow
   the value.
5. **Configured scopes are not required** (`access_scopes`).  kvs and pubs call
   `addRoutes`, which passes `scopesRequired` to `AccessTokenRequired`, before they set it
   from the environment (`plugins/kvs/plugin.go:74`, `106-109`; `plugins/pubs/plugin.go:90`,
   `123-126`).  The endpoints go on requiring the default scopes.  grapi is not affected.

## Observations without a run

- After a signal nobody receives from `errCh` of capacity two.  If both grapi finders
  have reported an error, the listener goroutine blocks sending its own, never
  closes `exitCh`, and Serve waits until the next signal.  `SignalEndsServe` excepts
  exactly this state.  (`ErrorEndsServe` needs no exception: an error that ends Serve has
  made room.)
- `init` in `initializeProxy` is set by the first look that finds files and stays set if
  they are gone at the next one, as after a restart of the fleet; the next look that finds
  any takes them at once, while the fleet is still creating the others.
  `EveryWorkerServes` is stated for a fleet that was not restarted.
- An access token without a subject passes `AccessTokenRequired` without an auth record.
  grapi and kvs then answer 403, connect 500; registering a webhook needs no user.
- Registering a webhook answers 200; the README of pubs has 201 (`plugins/pubs/README.md:39`).
- PUT accepts 16 KiB, a batch 500 times that for its whole body, so that one of its
  documents may be larger than PUT would accept.
- PUT does not look at JSON.  A document that claims to be JSON and is not can be had
  with `raw=1` only; a recursive GET leaves it out.
- `EncodeToJSON` leaves out `content_type` for JSON, and a batch takes a value without
  `content_type` for base64, so what a recursive GET returns of a JSON document is not
  accepted back by a batch as it is.
- A batch entry without `key` is a nil pointer; net/http recovers the panic.
- A batch does not wait for the store and dereferences a nil `kv.db` before
  initialization and after Close; net/http recovers the panic.  In the model it is the
  state `crash`, and `NoCrashInService` says that it happens only then.
- A failed or interrupted `m.Up` is only logged (`kv.go:191-193`): the store may
  become ready with part of its schema.  `ReadyMeansUsable` therefore asks for the
  table only.
- After `Shutdown` of the hub a call of Pub, Sub or Unsub blocks for ever; read pumps and
  webhook handlers of that time end with the process.
- Events published before an unsubscription may arrive after its ack, and an event
  for two topics arrives once for each of them (PubsFeed).
- One slow subscriber delays everybody, since the hub waits for room in its channel.
- A stream key is usable for up to `connectExpiration` plus `connectCleanupInterval`.
- Documents without a collection, those with a key of a single segment, are returned by one
  recursive GET only, that of the empty key, `GET /kv/user/?recurse=1`; it returns no others
  but those of a batch to that key.
- The unique index and REPLACE use owner, key and realm, the selections use the client
  too.  A second client of a user that writes a key so replaces the document of the first, which
  gets 404 for it then.  KvsDocs says so; nothing in the repository promises otherwise, and
  `plugins/kvs/kv/kv_test.go:183-187` expects that clients do not see each other's documents.
- A batch whose statements affect no row is rolled back and answered 200
  (`kv.go:341-344`).  REPLACE always affects a row, so that `Commit` has no such case.
- `--plugins` with an id given twice makes the server initialize and close one plugin
  twice; a second Close of grapi or kvs panics on a closed channel, one of pubs waits for
  the hub that has ended.  `EachClosedOnce` is checked for lists without repetition.
- Serve returns without closing any plugin when an Initialize, OIDC or `net.Listen`
  fails; the process ends then.
- Plugins are closed after at most 10 seconds of draining, so slow requests may
  still run in them.  `RequestsMeetPlugins` excepts exactly this (`down` is "timeout").
- Signals that come while Serve is busy shutting down are dropped (`signalCh` has no
  buffer).
- Workers whose sockets appear after the proxy is installed are not used.
- The README of pubs lists a message type `closeTopic`, which `OnText` ignores, and its
  example sends topics in `info` where the code reads `data`.

## What is left out

- Network and database: sending, receiving and SQL are single steps that may fail.
- Contents of messages and values, logging, CORS, random generation (keys, ids and
  topics do not repeat), and of JSON and base64 everything but lengths and validity.
- The cryptography of access tokens and of webhook tokens: a token is valid or not, a
  webhook token exists or not.
- The embedded caddy proxy with the sticky cookie handler in front of it
  (`proxy/httpproxy`): which worker a request goes to is decided by caddy, from a header
  the handler sets.
- kcoidc, golang-migrate beyond its effects on schema and dirty mark, and the kwmserver
  connection beyond open and closed.
- The listeners for metrics and profiling and the healthcheck command, which share nothing
  with the rest.
- Weak memory: `kv.db` and `kv.stmts` are read without the mutex; the model takes
  such a read as atomic, before or after the write.
- An error of `RowsAffected`, which the MySQL and SQLite drivers do not return.
- The example plugin, command line and version information.

## Plan

Done, in this order: PubsFeed and PubsStream, StreamKeys, KvLifecycle, KvsDocs and
KvStore, ServerLifecycle, GrapiProxy, the lengths of values in KvStore, HttpRequests; the
proofs of the section above.

What is left, by what it would add:

1. The server with the plugins' own Close: PubsStream's `Shutdown` and KvLifecycle's
   `CloseStep` composed with `ClosePlugin`, to see what a blocked Close does to Serve.
2. HttpRequests with the tables behind its handlers: that the owner in `table` of KvStore
   and the user in `keys` of StreamKeys are the `seen` of the request.

## How to run

    tlc -config PubsStreamSafety.cfg MCPubsStream
    tlapm PubsStreamRefinement.tla

and likewise for the other configurations; `runs` in `PROJECT.json` says which
module each belongs to.
