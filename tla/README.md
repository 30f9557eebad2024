# A verification of NEXTonebotfilter

NEXTonebotfilter is a OneBot v11 gateway. OneBot implementations connect to it
(*upstreams*, a WebSocket listener), it connects to bots (*downstream apps*, one
WebSocket client each), and between the two it removes duplicates and filters
messages by rules. A console API over REST and SSE edits the configuration and
reloads the gateway while it runs.

This directory holds TLA+ specifications of the Go backend, the TLC runs that
model-check them, and theorems about them that TLAPS checks. Paths below are
relative to `src/backend/`.

## 1. Inventory

| component | source | state | operations |
|---|---|---|---|
| downstream client | `internal/filter/client.go` `wsClient` | `conn`, `connected`, `writeChan` (64), `stop`, `stopped`; the contexts of `run` and of each session | `run` (dial, register, select on stop / parent / read error, teardown, sleep), reader goroutine, `writeLoop` and `handleWrite`, `write` |
| upstream server | `internal/filter/server.go` `wsServer`, `manager.go` `handleUpstream` | `upstreams` by self id, each with a `writeChan` (64); `clients`; `dedup` | handshake, `serve`, `removeUpstream`, `broadcastToClients`, `writeMessage`, `upstreamWriteLoop`, `addClient`, `removeClient` |
| dedup cache | `server.go` `dedupCache` | expiry time by message key, the cleanup goroutine | `IsDup`, `cleanup`, `Stop` |
| event bus | `internal/filter/events.go` | ring buffer of events, sequence number, subscriber channels (64) | `Publish`, `Snapshot`, `Subscribe` and its unsubscribe |
| filter rules | `internal/filter/filter.go`, `types.go`, `message.go` | none after `Compile` | `Compile`, `Allow`, `prefixPass` |
| manager | `internal/filter/manager.go` | `running`, `gateway`, `server`, `httpSrv`, `clients`, `filters`, `cancel`, all under `mu` | `Start`, `Stop`, `Reload`, `startClientsLocked`, `stopClientsLocked`, `Status`, `AllowMessage` |
| configuration store and API | `internal/store`, `internal/server/api.go` | the SQLite rows of the gateway, apps and templates | CRUD handlers, YAML import and export, restart, event stream |
| YAML conversion | `internal/filter/yaml.go` | none | `ParseYAML`, `ApplyYAMLToModels`, `ExportYAML` |
| system transport | `client.go` (bindings) | one connection per bot below one client | switched off in this program (`README.md:19`) |
| process entry, static files | `cmd/nextonebotfilter/main.go`, `internal/server/embed.go` | none | start, signal, stop |
| console UI | `../console` | drafts of forms | REST and SSE calls |

How they interact:

* `main` calls `Manager.Start`, then serves the API, and on a signal calls
  `Manager.Stop`. API handlers write to the store and then call `Manager.Reload`
  with the context of their request. All three run under `Manager.mu`, and
  `stopClientsLocked` waits *under that mutex* for each client to end.
* The manager owns the clients: it creates them with a context and ends them by
  `close(c.stop)` or by that context. A client registers itself in
  `wsServer.clients` while it has a session.
* `serve` (one goroutine per upstream) hands each message to every registered
  client, by a new goroutine per message and client that calls `c.write`, which
  puts it into `writeChan` for the client's writer. In the other direction the
  client's reader calls `wsServer.writeMessage`, which puts the message into the
  upstream's `writeChan`.
* Every component publishes to the event bus; SSE handlers subscribe to it.

What is hard here: a client's fields are written by `run` and read by writers of
this and earlier sessions without a lock; each teardown has several steps; stop,
context and read error race in one `select`; reloads wait for other goroutines
with the mutex held; contexts have lifetimes that differ from those of the
objects they are given to; upstreams replace each other; the dedup cache races its
own cleanup and is replaced by a reload while `serve` uses it; the event bus sends
after it has released its lock; store edits and reloads of several requests
interleave.

What makes each component correct:

* *client*: it is in the list only with a connection; it has one live writer; it
  writes a frame at most once and a refused one never; when it has ended nothing is
  left behind; it begins nothing new after it was told to quit; it reconnects.
* *manager*: no client is orphaned or stopped twice; once the edits and reloads are
  over it holds what the store says; after `Stop` nothing runs and nothing starts
  again; no call hangs.
* *event bus*: a snapshot is the last events published, in order; a subscriber
  sees a subsequence of them from its subscription on; publishing never fails.
* *upstream server*: one connection per self id, the newest; a replaced one removes
  nothing of its successor; a response goes to the upstream it belongs to.
* *dedup cache*: of the copies of a message within the window one passes.
* *filter rules*: what `Compile` resolves is what the rules mean, prefix passes
  included.
* *store*: the default template exists; what runs is what is stored once the requests
  are over; an import changes what its file says and otherwise only what every import
  resets; an export keeps the rules.

## 2. Modules

| module | what it is |
|---|---|
| `ClientLife` | the abstract client: link `idle`, `trying`, `up`, `ended`; told to quit; crashed. What the manager relies on. |
| `DownstreamClient` | one `wsClient` with all its goroutines; implements `ClientLife`. |
| `MCDownstreamClient` | its instance for TLC. |
| `DownstreamClientProofs` | the theorems about it and their proofs. |
| `Manager` | the manager and its callers; each client object is one `ClientLife`. |
| `MCManager` | its instances for TLC. |
| `ManagerProofs` | its safety and what it asks of `ClientLife`, proved. |
| `EventFeed` | the abstract event bus: a window on the last events and an unordered, lossy delivery to each subscriber. |
| `EventBus` | the bus with its publishers and its SSE handlers; implements `EventFeed`. |
| `MCEventBus` | its instance for TLC. |
| `EventBusProofs` | its safety and the refinement of `EventFeed`, proved. |
| `UpstreamRegistry` | the upstream side: handshake, registration and replacement, the serve loop, replies and their write loop. |
| `MCUpstreamRegistry` | its instance for TLC. |
| `UpstreamRegistryProofs` | its safety, proved. |
| `FilterRules` | `Compile`, `Allow` and `prefixPass` as operators, the two ways in as actions, and what the rules mean as a second, independent definition. |
| `MCFilterRules` | its instance for TLC: the rule sets and the messages. |
| `FilterRulesProofs` | that verdicts and reasons are what the rules say, proved. |
| `FilterRewriteProofs` | what a rewrite by prefix leaves of a message, proved, with the induction it needs. |
| `DedupCache` | `IsDup` against itself, `cleanup` and the replacement of the cache. |
| `MCDedupCache` | its instance for TLC. |
| `DedupCacheProofs` | its safety, proved. |
| `ConfigStore` | the rows, the console's requests call by call of the store, the YAML merge and export, and the reload with its reads. |
| `MCConfigStore` | its instance for TLC. |
| `ConfigStoreProofs` | its safety, proved. |

The modules meet at named places. `Manager` runs the clients of `ClientLife`, which
`DownstreamClient` implements. The verdict that `DownstreamClient` takes as a constant set
is `Allow` of `FilterRules`; the answer of `s.dedup` that `UpstreamRegistry` leaves open is
`IsDup` of `DedupCache`; the store that `Manager` has as one configuration per app is
spelled out in `ConfigStore`, which in turn has nothing of the clients but their rules.

### `DownstreamClient` and `client.go`

Actions are the steps another goroutine can see. `runner` is the place of `run`:

| place | code | actions |
|---|---|---|
| `head` | 83-89, look at stop and parent | `TryOrReturn` |
| `dial` | 91-106, `Dial` | `DialOK`, `DialFail` |
| `flag`, `add`, `start` | 107-135, `connected`, `addClient`, start the loops | `SetConnected`, `AddClient`, `AddRefused`, `StartLoops` |
| `forget`, `unflag` | 111-112, after a refusal | `ForgetRefused`, `UnflagRefused` |
| `up` | 136-154, the `select` | `Lose`, `Quit` |
| `cancel` ... `nil` | 156-165 (or 141-153), the teardown | `Cancel`, `CloseConn`, `RemoveClient`, `ClearConnected`, `ForgetConn` |
| `sleep` | 310-324 | `SleepOver`, `SleepQuit` |
| `done` | 80, `close(c.stopped)` | |

The code has three copies of the teardown, one for each case of the `select`,
with the same five calls in the same order; the model has one, and `leaving` says
whether it ends in `return` and therefore without `client_down`.

`c.conn` is a plain field. `handleWrite` reads it three times: `PassChecks` and
`Discard` are the test at 354, `BeginWrite` and `NilPanic` the use at 363 or 369.
Parsing and filtering lie between them, so any number of other steps may. A
second writer that enters a connection in which one is writing may panic
(`ConcurrentPanic`) or go unnoticed (`BeginWrite`), as in the library. `fault` says
that the process died, and nothing moves afterwards. A write has no deadline: `Written`
waits for the bot to read, `WriteFails` is its error once the connection is gone.

A frame is a model value that an upstream sends once; `fwd` is the goroutine that
`broadcastToClients` starts for it. The goroutines of two frames are not ordered,
as in the code. `sent` counts the writes to a connection that was still open.

`rival` stands for another client of the same name in `wsServer.clients`. The
`Manager` module shows that none exists while one manager owns the clients; the
client does not rely on that.

### `Manager` and `manager.go`

`pc` is the place of each caller of the manager: `Boot` is `main`, and every
request is a handler goroutine. `lock` is the call of `m.mu.Lock`, `stop` and
`wait` are the loop of `stopClientsLocked` (one iteration is `StopOne`, `Stopped`),
`apps` and `start` are `startClientsLocked` before and after it has read the
store, which other requests edit at any time. A client object is the pair of its
app and the caller that created it; `link` is its `ClientLife` state. `ctxDone`
holds the contexts that are done: that of a request when its handler has returned
or its connection has gone, that of `Boot` when `Stop` cancels it. The steps a client
object takes by itself (`ClientTry` ... `ClientEnd`) are those of `ClientLife` by
construction; that a client takes no others is what the `downstream` run checks and
`Implements` proves.

`unapplied` is a history variable: the store was changed without a reload, or
could not be read by one, and no later reload has read it.

### `EventBus` and `events.go`

`Publish` is the part of the function up to the unlock, where the event gets its
number, enters the ring and the list of channels is copied into `todo`; `Send` is
one iteration of the loop after it, in any order since a Go map is copied in any
order. `SendPanics` is the iteration whose channel the unsubscribe function has
closed in between. It ends the goroutine. `net/http` recovers the panic of an
upstream's handler (`Handlers`); that of a client's goroutine ends the process.
A subscriber is one call of `Subscribe`; `Receive` and `Unsubscribe` are the loop
and the `defer` of `eventStream` in `api.go`. An event is its number and the
goroutine that published it.

### `UpstreamRegistry`, `server.go` and `handleUpstream`

`pc` is the place of the handler of one connection: `token` and `serve` are
`handleUpstream` before and after the upgrade, `loop` and `dedup` the loop of
`serve` with its first and second look at `s.dedup`, `cancel`, `remove` and `close`
the deferred `removeUpstream`. `Register` is the critical section of `serve` that
closes the connection with the same id and takes its place. `AskNilDedup` is the
panic of `s.dedup.IsDup` on nil: it runs the deferred call and is recovered by
`net/http`. `ServeOnNil` is the panic of `serve` on a nil `m.server`, before the
`defer`; the connection stays with the peer until the process, which is stopping,
has ended.

A reply is one call of `writeMessage` by a client's reader; `Count` and `Enqueue` are
its two critical sections. Its target is a constant `To`: the self id in its payload,
or `All`. `upstreamWriteLoop` is `Take`, `Written`, `WriteFails`, `WriterExit`.

### `FilterRules`, `filter.go` and `message.go`

A text is a sequence of words, one of which is `Blank`; a pattern is a model value, and
the regular expression library the two constants `Valid` and `Match`. A message has its
segments (`body`) and its `raw` form. A string message is an array of one text segment,
which is how `prefixPass` and `matchesText` treat it, except that `prefixPass` does not
remove the segment when nothing is left (`Rewrite`).

`Compiled` is `Compile`: `Inherit` is the four tests for an empty mode or mode default.
The patterns of a rule are a set, since one match is enough. `unknown` is any mode string
that is none of the known ones: neither the API nor the YAML import rejects one. An id rule
of such a mode admits (`filter.go:241`), a message rule blocks but for its prefixes (223). `Allow` and `JudgeText` are
`Allow` before and after line 145, with the reason of the event
that is emitted; `none` stands for no event. `Deliver` is `handleWrite` past its nil check,
with `ParseOneBotMessage` (`Parses`); `Probe` is `Manager.AllowMessage`, which builds a
message without the JSON object behind it: `intact` is false, and a prefix hit writes into
a nil map (`panic`).

### `DedupCache` and `server.go`

A call is one frame; `Ask` is the second look of `serve` at `s.dedup` with
`dedupCandidate`, the reading of the clock included. `LoadOrStore` and `CompareAndSwap`
are the two atomic operations of the loop of `IsDup`, `Pass` what they have in common when
they succeed. `FindExpired` and `Delete` are the callback of `Range` before and after its
comparison. Each cache has its own `sweep`: a stopped cleanup may still be in a tick.
`Key` is the tuple that `dedupKey` hashes; collisions of the 64-bit hash are left out.
`promised` and `robbed` are history variables.

### `ConfigStore`, `store.go`, `api.go` and `yaml.go`

`pc` is the place of each handler; `issued`, `apps`, `templates` and `gateway` are the
tables. Each action is one call of `store.go`, that is, one statement, with these
exception: `GetDefaultFilterTemplate` is one step (of two that race, one fails on the
unique name, which `Fail` covers). An import is `ReadGateway`, `ReadDefault`,
`SaveGateway`, `SaveDefault` and its loop over the apps; an export is the same two reads,
then `ExportTemplates` and `ExportApps`, and others write in between. `Reload` is the part
of `Manager.Reload` up to `stopClientsLocked`, taken when `m.mu` is free;
`ReloadIgnored` is its early return when the manager does not run. `ListApps`,
`ListTemplates` and `StartClients` are the reads of `startClientsLocked`, between which
other requests write. `Crash` ends the process in the middle of a request and starts it
again with the rows as they are (`Launched`): a disabled gateway does not start then, and
no reload starts it later. A gateway that runs and is then disabled by a save runs on, as
`Reload` does not look at `enabled`. `Manager.Stop` is in `Manager` only.

The merge of an import is that of `ApplyYAMLToModels`, column by column. A column of the
server section (`net`, over `Fields`) that the file leaves out, or that holds the zero
value, keeps what the row has (`MergedGateway`). `debug` and both id rules of the default
template are overwritten in any case: a file without them turns `debug` off and leaves the
template with rules of no mode (`Inherit`), as `yaml.go:170-174` does. `enabled` and the
settings of the dedup cache (`dedup`) are in no file.

`Save` is gorm's: every column, and an insert where there is no row; an insert takes the
default of the column for `enabled` = false, and an insert with an id of its own raises
the id that is issued next (`Issue`). A `template_id` need not have a row: nothing checks
it, so a template made later may be the one an app was waiting for (`Awaited`,
`MadeUnapplied`). A rule bundle is two values, its id rules,
which may inherit, and the rest. `late`, `unapplied` and `exposed` are history variables
for the excuses of the properties; `late` says of whom and of which part of what it has
read that another request has written since.

## 3. Runs

| run | shows | instance |
|---|---|---|
| `downstream` | the safety properties of a client, that it implements `ClientLife`, that its goroutines end, that it reconnects, that its queue drains if no write lasts for ever | two sessions, three frames (one refused), channel of one |
| `downstream_retry` | a violation: see finding 1 | the same |
| `manager` | `NoOrphan`, `NoDoubleClose`, `OneCleaner`, `InSync`, `StoppedForGood`, `WaitAnswered` | two apps, two requests, two configurations with a client and one without |
| `manager_live` | requests are answered and `Stop` returns | one app, two requests and `Stop` |
| `manager_restart`, `manager_settings` | violations: findings 2 and 3 | two apps |
| `events` | the bus implements `EventFeed`; a snapshot is the last events; a subscriber sees none twice; `Publish` returns | two publishers, two subscribers, three events, a ring of two, channels of one |
| `events_served` | a violation: finding 4 | the same, without fairness |
| `upstream` | entries belong to served connections, replacement and removal, routing of replies, every goroutine ends | two connections whose ids are equal or differ, one reply with a target and one without, channels of one |
| `rules` | verdicts, reasons and rewriting against the meaning of the rules | seven modes, an unknown one included, at each level of the id rules and of the message rules, prefixes none or three, 41 messages |
| `dedup` | one copy per window, no message dropped but for a copy or for one whose content reads like its id, every call returns | four calls, of which one has for its id what two others say; a window of one and three moments, two caches |
| `store` | what runs is what is stored, the default template stays, imports and exports keep what they should | three requests out of 15, one app and two templates at first |

The properties, in the words of the code:

* `RegisteredImpliesLinked`: a client in `wsServer.clients` has `conn` set to its
  session and `connected` true, because `removeClient` comes before the fields are
  cleared.
* `CleanExit`: when `c.stopped` is closed, no connection of this client is open
  and it is in no list.
* `OneLiveWriter`: a writer whose context is not cancelled is that of the current
  session. Older writers may exist, and may still hold a message.
* `DeliveredAtMostOnce`: over reconnects and stale writers, no frame is written
  twice, and none that the filter refused.
* `PanicNeedsTeardown`: neither of the two panics happens in a first session.
* `EventsTellLink`: outside of a teardown, the last of `client_up` and
  `client_down` is right. A client that ends by stop publishes no `client_down`;
  the property says so by leaving that phase out.
* `LifeSpec`: refinement of `ClientLife`, with its fairness.
* `GoroutinesEnd`, `Reconnect`, `QueueDrains`: liveness of the client. All three
  carry the exception that the process dies (finding 1). `QueueDrains` assumes that no
  write lasts for ever: `client.go:363` and 369 write without a deadline, so a bot that
  neither reads nor hangs up strands the queue. Its point is the rest: a frame survives any
  number of sessions in `writeChan`, and each session has a writer that takes it up.
* `NoOrphan`: each live client object is the one in `m.clients` under its name.
* `InSync`: when no request is between its edit and its reload, the manager holds the
  settings of the store, the filter of each enabled app, and for each of them that is not
  internal a client that nobody has stopped, and that has not ended unless through the
  context of the request that started it (finding 2). It does not speak of the listener
  (finding 3), nor of a reload that could not read the store.
* `WaitAnswered`: `stopClientsLocked` waits for `c.stopped` only while it holds `m.mu`, and
  only for a client whose goroutine was started and has been told to quit.
* `StoppedForGood`: after `Stop`, nothing runs, whichever reloads were waiting for
  the mutex.
* `CallersReturn`: nobody waits for ever under or for `m.mu`, neither a request nor `Stop`.
* `SnapshotIsTail`: for every limit, `Snapshot` is the events with the last numbers, as
  many as there are, the ring holds and the limit allows, in order and without a gap,
  before and after the ring has wrapped.
* `FeedSound`: a subscriber gets no event twice, and those of one goroutine in
  order. Those of two goroutines may be swapped, as nothing orders their sends.
* `FeedSafety`: refinement of `EventFeed`.
* `PublishReturns`: no subscriber can hold up a publisher.
* `SubscribersServed` (violated): when a publisher has ended, it has left no open page out.
  A full channel is no exception to it: such a page is sent to, and misses the event.
* `EntriesServed`: the handler of every entry of `s.upstreams` has yet to remove it,
  and its connection is not closed; a panic on the way changes nothing about it. The
  connection may be lost already, and what `writeMessage` then hands it is lost too.
* `ServedRegistered`: a connection that is read from is the one in the map. All older
  ones with its id are closed.
* `OwnEntryOnly`: an entry disappears by its own `removeUpstream` or by a successor.
* `Routed`: a reply with a target reaches one connection at most, of that self id.
* `KeptWhileConnected`: the gateway lets go of a connected upstream only after a
  reload has replaced the dedup cache. That it does then, if the reload comes
  between the two reads of `s.dedup`, is in the model (`AskNilDedup`).
* `LoopsEnd`: handler and write loop of a lost or replaced connection end, a write
  that the peer had blocked included.
* `VerdictAsMeant`: a message passes exactly when the configured rules let its group, its
  sender and its text in, where the deciding rule of each is the first level with a mode of
  its own. Where no level of the message rules has one, nothing is claimed of the text: see
  section 5.
* `EventsTellWhy`: the reason of an event is true of the configured rules, and the group is
  blamed before the sender.
* `RewriteKeepsRest`: a message that passes by its prefix has for its first text the
  replacement followed by exactly what came after a prefix of the rule that judged it; all
  other segments stay, in order; a `raw_message` that said what the segments say still does,
  up to blanks, unless the text that is replaced in it occurs there before its own place
  (`LeadOccursEarlier`). Every other message stays as it is.
* `OnePerWindow`: after a copy has passed, the next one in the same cache passes when its
  window is over, unless `cleanup` deleted an entry renewed since it was read.
* `NothingSwallowed`: a frame is dropped only for one of the same group, sender and second
  that passed within the window and says the same, or has the same id where neither says
  anything. The exception is a pair of which one says what the other, without content, has
  for its id; the run has such a pair.
* `CallsReturn`: the retry loop of `IsDup` ends.
* `LiveIsStored`: when all requests are over and the gateway runs, the settings in use and
  the rules of the apps are those of the rows. Excused are the delete of a template and the
  making of one that an app already refers to, which do not reload, and what a failed
  request leaves behind; a restart makes up for all. A gateway that was disabled at the start
  runs no app.
* `DefaultProtected`: only a save that takes its name or `builtin` off makes the seeded
  template deletable.
* `ImportKeepsRest`: the import's whole-row saves change `debug`, the default template's id
  rules and the columns the file says something of, and nothing else, except that they undo
  what others saved after the row was read.
* `ExportKeepsRules`: a file that is imported again gives back the columns of the gateway,
  the default id rules and the rules of every app. What another request wrote between the
  four reads of the export is excused, part by part.

### Bounds

* `MaxSession` = 2: each hazard of the client lies between one session and the next
  (a stale writer, a lost message, the field reset between two connections). The
  last session cannot be lost and is not used up by a refusal; without this the
  liveness properties would fail at the bound.
* `QueueCap` = 1 with two frames that pass: the channel can be full, and the
  goroutine of one frame overtakes the other. The third frame is refused.
* Manager: two apps, so that one client is stopped while another runs; two
  requests, so that one edits while another reloads and a reload follows a reload.
  Each request is one request; more of them repeat the same states with other
  object names. Liveness uses one app and one configuration, since it depends on
  who holds the mutex and for which client it waits.
* Event bus: a ring of two wraps with the third event; with a channel of one and two
  publishers a channel fills, sends overlap, and events of two publishers swap. Two
  subscribers, so that one leaves while another stays.
* Upstreams: two connections. With one id they replace each other, with two they
  share a reply without a target. `server`, `dedup` and the connections themselves
  need no bound. A channel of one fills with the second reply.
* Rules: `Allow` reads each level once and no two apps share anything, so all pairs of
  modes on the two levels of a kind, one kind at a time, are all cases there are. The
  messages have the shapes on which `prefixPass` branches: no text, a text after or before
  another segment, a text that is the prefix alone, two texts, a text that occurs earlier,
  in another segment or across its own leading blanks.
* Dedup: three frames share a key, two copies and one whose id reads like what they say, so
  that one renews an entry, one races it and one comes after the cleanup; the fourth is
  another message. A window of one moment and three moments, so that a window ends and a
  slow call stores a time that is over. Two caches: one replaced, one new; nil lies between.
* Store: three requests, so that an import overlaps a save and a third one reads in
  between; ids for two more apps and two more templates, as many as the requests can make.
  One of the requests refers to a template that another one makes, one disables the gateway.
  Of the columns that an import may leave out there are two, and each of the two files has
  one of them; one file has no default section and does not mention `debug`.
  Requests are interchangeable, which the symmetry set uses.

### Fairness

* Weak fairness of `run`, of each reader, writer and forwarding goroutine: the Go
  scheduler runs every goroutine that can run. A successful write (`Written`) is not among
  it, since the bot need not read; a failing one is. `Reconnect` and `GoroutinesEnd` hold
  without it, as the close of the connection fails the write; `QueueDrains` states what it
  needs of the bot as its hypothesis.
* Strong fairness of `DialOK`: it asks of the bot that it accepts a connection if
  it is dialled again and again. It is an assumption on the environment. `Dial`
  returns in any case, since it has a handshake timeout.
* Strong fairness of the acquisition of `m.mu`: Go's `sync.Mutex` switches to
  handing over to the first waiter after 1 ms and thereby starves nobody.
* Weak fairness of the steps of a client told to quit in `Manager` is what
  `LifeSpec` of `ClientLife` gives, and the `downstream` run checks that a client
  implements it.
* In `UpstreamRegistry` a successful write is not fair: the peer need not read. A
  failing one is.
* Weak fairness of `IsDup` in `DedupCache`: the goroutine of `serve` runs on.
* Nothing is asked of upstreams, of the callers of the API or of signals.

## 4. Proofs

Each theorem holds for every value of the constants that the module's named assumption
allows. The assumptions say that markers such as `NoMsg`, `None` or `Gone` are none of the
values they stand beside, that bounds and capacities are positive, and that rules, rows,
messages and requests have the shape of their Go types. TLC evaluates each of them on
every run. All modules are written without RECURSIVE operators. Every invariant and every action
property of a passing run is a theorem; of `LifeSpec`, the safety part.

| module | theorems on properties of the runs |
|---|---|
| `DownstreamClientProofs` | `TypeOK`, `RegisteredImpliesLinked`, `CleanExit`, `OneLiveWriter`, `PanicNeedsTeardown`, `EventsTellLink`, `DeliveredAtMostOnce`; `Implements`, the safety part of `LifeSpec` |
| `ManagerProofs` | `TypeOK`, `NoOrphan`, `NoDoubleClose`, `OneCleaner`, `InSync`, `StoppedForGood`, `WaitAnswered` |
| `UpstreamRegistryProofs` | `TypeOK`, `EntriesServed`, `ServedRegistered`, `OwnEntryOnly`, `KeptWhileConnected`, `Routed` |
| `EventBusProofs` | `SnapshotIsTail`, `FeedSound`, `FeedSafety` |
| `DedupCacheProofs` | `OnePerWindow`, `NothingSwallowed` |
| `FilterRulesProofs` | `VerdictAsMeant`, `EventsTellWhy` |
| `FilterRewriteProofs` | `RewriteKeepsRest` |
| `ConfigStoreProofs` | `LiveIsStored`, `DefaultProtected`, `ImportKeepsRest`, `ExportKeepsRules` |

**The client.** The argument has two layers. `LoopInv` is about the goroutines and says
nothing of messages. Its part `RunInv` fixes the shared fields by the place of `run`;
`SockInv` says that only the connection in hand is open; `WriterInv` says which
sessions may have a writer. None of the properties is inductive without it:
`RegisteredImpliesLinked`, for one, needs that `conn` is set at `flag` and not
touched until `nil`. Over `LoopInv`, `MsgInv` says that a frame is in one place at a
time: with its forwarding goroutine (`FwdInv`), once in the channel (`QueueInv`), in
the hand of one writer (`HoldInv`), or written. That a refused frame is not written
needs the part of `HoldInv` that a writer past the check holds none. `Implements`
follows from `TypeOK` and `RunInv`: each step of the loop is mapped to a step of
`ClientLife` or to a stutter, and every step of another goroutine to a stutter or
to a crash. `NoLoopLeaks` is the safety core of `GoroutinesEnd`: when `run` has returned,
no reader is left on an open connection and no writer untold, so none of them has anything
to wait for. It needs of `LoopInv` that the last connection is closed before `run` ends, and
beside it that readers and writers use connections that have been dialled (`DialledInv`).

**The manager.** All its properties rest on one invariant. `HolderInv` is the mutual
exclusion of `m.mu`: one owner is between `Lock` and `Unlock`. `RunInv` and `IdleInv` say
what there is while `running` is false. `StopInv` is the loop invariant of
`stopClientsLocked`: whatever it has passed has ended, so that emptying the map after it
orphans nobody. `FreshInv` says that the objects of an owner that has not started any are
unused, and with it `NoOrphan` becomes inductive. `CloseInv` is why no channel is closed
twice: a client in the map has been told to stop only by the loop that is still at work.
`SyncInv` says that a reload has read the settings of the store unless another edit waits
behind it; `HeldInv` that a client in the map was started and, but in the loop, not stopped;
`EndedInv` that a client which has ended was stopped or lost its context. Two theorems are
the safety core of `CallersReturn`. Whoever
waits for `c.stopped` holds `m.mu` and waits for a client that was started and has been told
to quit (`WaitsAreAnswered`). A client that has been told stays told, and each step it
takes brings it nearer its end (`ToldClientsSettle`: at most three steps, from a dial over a
connection to the return). What is left to fairness is that these steps are taken.

**The upstream server.** `EntriesServed` and `ServedRegistered` are inductive together,
once `FreshInv` adds that only an upgraded connection that nobody has closed is about to
be registered. `KeepInv` adds to `KeptWhileConnected` the handler between its two reads of
`s.dedup`; `RouteInv` adds to `Routed` that a reply with a target is nowhere before it is
put somewhere. `NoLoopLeaks` is the safety core of `LoopsEnd`: a write loop whose handler
has returned has been told, and its connection is closed. `ReleaseInv` adds the handler on
its way through `removeUpstream`: if the entry is no longer its own, the successor has
closed its connection.

**The event bus.** `RingInv` says which event is in the slot at each distance behind
`head`, before and after the ring has wrapped; `SnapshotCorrect` is arithmetic on it.
`SendInv` and `OrderInv` say what a publisher has yet to send and that it is later than
all it sent, and with them the order in which a subscriber sees the events of one
publisher is inductive. The refinement maps the ring to the window of `EventFeed` and the
channel, with what is on its way to it, to the mailbox. `WindowMoves` and `FeedStep` show
that each step of the bus is one of the feed or none.

**The dedup cache.** `WindowInv` says that an entry is the window which the last call that
passed has promised, or is gone after it, or was deleted after it had been renewed
(`robbed`, the one excuse of `OnePerWindow`). `TwinInv` says that an entry was made by a call
that passed. So a message is dropped only for a twin with the same key
(`DropsAreTwins`). `NoMessageSwallowed` reads the key: `dedupKey` (`server.go:110`) puts an
id where the content would be and does not mark it, so that equal keys mean equal contents,
equal ids of frames without content, or a content that reads like an id, which is the
exception the property names.

**The rules.** There is no state to speak of; the lemmas are about the operators.
`Inherited` says that the rule `Compile` picks is the one deciding level of the
configuration, or the last if none decides. `IdsAsMeant` and `MessageCompiled` say that ids,
patterns and prefixes mean after it what they mean in the configuration. `TextJudged` and
`Allowed` put them together to what `Allow` says, mode by mode, an unknown mode included.

**The rewriting.** `RewriteCorrect` is about texts of any length, so it needs induction.
The induction theorems of the library have an operator as a parameter, which the provers
cannot instantiate. `NumbersByInduction` and `SequencesByInduction` have a set instead,
that of the values with the property, and follow from `WFMin` of the library, which says
that a set of numbers has a least element. On them rest the laws of `Words`, a recursive
function, and of `Render`, which is `FlattenSeq` over the texts of the segments: what
they say of a sequence with one more element, and of two sequences joined. `LeadFound`
says that a message which begins with a prefix has a first text that is not blank, and
`Trimmed` that this text is its trimmed one, which `prefixPass` looks for in
`raw_message`, between two blank ones: so it does occur there, at its own place.
`LeadOccursEarlier` excludes the places before it, and so the first occurrence, which
`ReplaceFirstSubSeq` replaces, is that one (`ReplacedThere`). `RewriteKeeps` puts them
together over the body before, at and after the segment. Its arithmetic on
concatenations is done once, behind the name `Join` (`JoinLaws`), since the provers get
lost in nested `\o`. `OnlyPrefixesRewrite` is the invariant that ties this to the runs:
what the filter returns as a rewrite is `Rewrite` of a frame, by a rule of the app's
filter that it begins with a prefix of. `FramesNeverPanic` follows, as only a probe
lacks the JSON that `prefixPass` writes into.

**The store.** `PlaceInv` says which copies and reads a request has at each place.
`ProtectInv` adds to `DefaultProtected` the deletes and copies under way. `LateInv` says
that what an import or an export has read of a row or table is still what is stored, unless
that part of it is `late`: on it rest `ImportKeeps` and `ExportCorrect`. `LiveInv` says that, when no change is waiting for a reload (`Settled`), what a
reload has read is still so and what runs is what is stored. `LiveIsStored` is not inductive
without it, as a reload reads in three steps while others write. `NamesAreKeys` says that
rows of a table, and with them the apps that run, have names of their own: `m.clients` and
`m.filters` are kept by name, and two apps of one name would leave a client behind that
nobody can stop. It is what `Manager` takes for granted when it has one client per app. The
unique index of the tables is in the guards of the writes that hit it (`NameFree`); that
`GetDefaultFilterTemplate`, which has no such guard, cannot violate it, and that a reload
never mixes two readings of the table, is for the proof.

Three definitions had to be made more precise to be proved. `LiveIsStored` was false of
a store in which an app names a template that has no row and a later insert makes that
row without a reload; the run had no such app. And `Allow` was a CASE with arms that
overlap, for which TLA+ leaves open which arm is taken (TLC takes the first): where both
group and sender are refused, nothing said that the group is blamed. It now tests
them in the order of the code. `RewriteKeepsRest` was false of a message whose text begins
with a blank. Say a segment reads `#` and the text behind it ` # #`: `raw_message` is then
`# # #`, and the first `# #` in it, which is what `prefixPass` looks for, begins in the
segment and uses the text's own leading blank. The old exception looked only before the text.
The run has that message now, and TLC refutes the old property with it.

Only model-checked:

* liveness, which needs ENABLED: `GoroutinesEnd`, `Reconnect`, `QueueDrains`, the fairness
  half of `LifeSpec`, `CallersReturn`, `PublishReturns`, `LoopsEnd`, `CallsReturn`. Of
  `GoroutinesEnd`, `LoopsEnd` and `CallersReturn` the safety core is proved, as said above.
* That the instances of `ConfigStore` and `Manager` agree is said in words only: no theorem
  composes the two, or `FilterRules` with `DownstreamClient`.

## 5. Findings

1. `downstream_retry`. `handleWrite` tests `c.conn` and reads it again; `run` sets it
   to nil without a lock. If a teardown resets it in between, the writer calls
   `WriteJSON` on a nil connection, and as nothing recovers, the process dies, where
   the log (`client.go:100`) and the settings page promise a retry.
2. `manager_restart`. Every handler passes the context of its request to `Reload`,
   which gives it to the clients it starts. `net/http` ends it when the handler
   returns, so the clients leave as soon as a save has been answered.
3. `manager_settings`. A reload takes over the settings of the gateway and not its
   listener: neither a new address nor `enabled` has any effect before a restart of
   the process.
4. `events_served`. `Publish` sends, after the unlock, on channels it copied before.
   If a page closes in between, its unsubscribe function has closed the channel, and
   the send panics in spite of its `default` case. In the trace the publisher is the
   handler of an upstream: `net/http` recovers the panic, which ends that upstream's
   connection, and a page that is still open is never sent the event though its channel
   is empty. In the goroutine of a client the same panic ends the process.

Two disagreements between the code and the console's rule editor
(`../console/src/components/rule-editor.tsx`) were met in `FilterRules`. No run refutes the editor's lines; the
properties take neither side where the first one bites, and the code's where the second does:

* Line 46 tells the user that an unset mode is the same as `default` ("等同于 default,沿用
  通用消息规则"). For the common message rule itself it is not: left empty it lets everything
  in (`filter.go:146`), set to `default` it is resolved against itself and blocks everything
  its prefixes do not call for, without an event (`filter.go:77`, 223).
* Lines 231, 268 and 287 say that the prefix works whatever the mode is ("不依赖 mode"), and
  that the prefix hit is replaced before the message is forwarded. Under the modes `on` and
  empty `Allow` returns before it looks at prefixes (`filter.go:146`): the message passes
  with its prefix.

Seen in the models, where no line of the repository promises otherwise or the promise is
too weak to refute; the properties name these as their exceptions:

* A bot that neither reads nor hangs up blocks its client's writer for ever
  (`client.go:363`, 369); its queue fills, and `write` drops what follows.
* `Manager.AllowMessage` panics on a probe that hits a prefix: `prefixPass` writes into the
  nil map `msg.Intact` (`filter.go:316`, `manager.go:341`). No frame can meet it.
* A mode string that is none of the known ones is accepted and stored: of ids it admits all,
  of texts it blocks all that its prefixes do not call for, without an event.
* A frame without a `raw_message`, or whose `message_format` is missing, passes unfiltered
  (`client.go:359`).
* `raw_message` is rewritten where the text occurs first, which may be inside the code of
  an earlier segment, or begin there and end in the text (`filter.go:318`).
* `cleanup` may delete an entry that `IsDup` has renewed since it was compared, so a
  duplicate passes (`server.go:63`). A reload also forgets every window.
* An app created with `enabled` false is stored enabled, by the default of the column
  (`models.go:49`). An import enables, detaches from its template and resets every app it
  names. It sets `debug` and the id rules of the default template even if its file mentions
  neither (`yaml.go:170-174`).
* `dedupKey` does not tell a content from an id (`server.go:110`).
* Nothing checks the `template_id` of an app. If it has no row yet, a template created later,
  or the default template that a read makes, takes effect at the next reload only.
* The delete of a template leaves its id in the apps. From the next reload on they run
  their own rules, which `models.go:43` says are ignored when `TemplateID` is set.
* A template save with `builtin` false makes the default template deletable
  (`api.go:202`); the next read of it creates a new one with the seeded rules.
* A save of the gateway between the read and the write of an import is lost
  (`api.go:318-329`), and an import that fails after its first save has changed rows
  without a reload.
* An export reads four times without a transaction (`api.go:270-285`): with a save in
  between its file mixes two states.
* A gateway that was disabled when the process started is not started by enabling it, and
  one that runs is not stopped by disabling it (`manager.go:139`; finding 3).

## 6. Not modelled

* The system transport (`handleSystemWrite`, the bindings, `client.go:168-308` and
  374-411): dead code, since the one caller of `newWsClient` passes false
  (`manager.go:321`, `README.md:19`).
* `Status`, `IsRunning`, `IsAppEnabled`, `health` and the GET handlers: they read and
  change nothing. `GET` of the gateway or of the default template can create the row, but
  `Open` has done so before.
* The text of JSON and YAML, `FlexibleString`, `TestRegex`, regular expressions, access
  tokens, HTTP routing, logging, static files, CORS, the console.
* Ping and pong frames, read limits and TLS, which the WebSocket library handles.
* Real time, except as the counter of `DedupCache`: a sleep or a timeout may end at any
  moment.
* A crash of the process in the other modules than `ConfigStore`: nothing but the rows
  survives it.

## 7. Plan

Every safety property of a passing run is proved. What could be added:

1. `DownstreamClient` over `Manager`: that the client objects of the manager inherit what
   `DownstreamClientProofs` shows of one client. `Implements` is the half that exists; a
   module that composes the two would have one `DownstreamClient` per object.
2. `ConfigStore` over `Manager`: `NamesAreKeys` and `LiveIsCorrect` are what the manager
   relies on, but its own store is a function and not the tables.
3. The system transport, should it get a caller.
