# A formal model of Caroline

Caroline collects Docker logs with Agents, one per host, and delivers them to a
Hub that stores, searches, tails and alerts on them. This directory holds TLA+
modules for the parts of it whose correctness depends on order, failure and
time, the TLC configurations that check them, and proofs checked by TLAPS.
All source paths are relative to `src/`.

## 1. Inventory

| Component | State | Operations | Interacts through |
|---|---|---|---|
| Agent delivery pipeline (`internal/agent/{agent,batch,spool}.go`) | batch queue, sequence, entry counter, spool directory | collect, flush, replay, spool, prune, discover, stop | subscription channels, `SendBatch`, files |
| Agent sender (`internal/agent/{sender,hubpin}.go`) | Hub pin, authentication state | `SendBatch`, `Heartbeat`, register, control stream | HTTP; one mutex over all requests |
| Log stream manager (`internal/logstream/manager.go`) | streams, subscribers, per-stream dedupe sets | subscribe, refresh, watch, publish, close | goroutines and channels |
| Live broker (`internal/logstream/broker.go`) | subscribers, dedupe set | subscribe, publish, close | channels |
| Hub ingestion (`internal/ingest`, `internal/httpserver/agents.go`) | none of its own | ingest a batch, a heartbeat | store transactions, then the broker |
| Log store (`internal/storage/sqlite`) | logs, ingest_batches, containers, nodes, tokens, nonces | `WriteBatch`, `Cleanup`, `SyncContainers`, search | SQLite transactions under one mutex |
| Node registry (`internal/node`) | node status, tokens, nonces, Hub key | enroll, register, challenge, authenticate, revoke | store |
| Alert engine (`internal/alert`) | rules and rule states, JSON file | CRUD, match, resolve, notify, load | broker, notifier |
| Key files (`internal/agent/identity.go`, `internal/node/keys.go`) | one file each | load or create | file system |
| Docker client (`internal/docker`) | none | list, follow, decode frames | HTTP |
| Explorer (`internal/explorer`) | none | parse query, match, paginate, bucket | store rows |
| HTTP handlers (`internal/httpserver`) | one goroutine per request or live tail | call the services, stream | services, SSE |
| Explorer page (`web/src/app/bootstrap.ts`, `features/streaming`, `features/explorer`) | results, page token, live tail, history | search, append, reload, cancel, tail, Back | fetch, `EventSource`, timers |
| Alerts and nodes pages (`bootstrap.ts`, `features/alerts`, `features/nodes`) | lists, dialog, disabled buttons | load, save, toggle, delete, revoke | fetch |
| Overlays (`bootstrap.ts`) | open panels, backdrop, focus, address | gestures, Back, width | callbacks of animation frames |
| Entry list and detail (`features/logs`) | expanded, selected, focus | draw, open, move | live entries, keys |
| Query library (`features/workspace`) | saved and recent queries | record, save, delete | `localStorage`, other tabs |
| Timeline (`features/timeline`) | drag, marks, cursor | press, drag, release | pointer events, answers |
| Query editor (`features/query-editor`) | text, suggestions | type, move, take | keys, answers |

What is hard in each, and what makes it correct:

* **Delivery.** A request can time out and still be executed; the Agent can be
  killed between any two file operations; the Hub forgets receipts and rows on
  its own schedule. Correct means: no entry disappears except by a named limit
  or a death; a retry is neither stored nor published twice; a receipt protects
  its batch as long as the replay window or one of its rows lasts; and what is
  held is delivered in the end.
* **Log streams.** Subscribers come and go while containers start and stop and
  three kinds of goroutines work on the same maps. Correct means: nobody sends
  on a closed channel, every matching subscriber is attached to a running watch,
  and no stream is watched twice.
* **Alerts.** Matching, resolving, editing and restarting interleave. Correct
  means: at most one notification per cooldown, every announced firing is
  resolved, and the file agrees with what was announced.
* **Node registry.** Correct means: a token enrolls one node, a revoked node
  stays revoked, and a signed request is accepted once.
* **Live tail.** A search, a subscription and publications are separate steps.
  Correct means: what arrives is shown once, and a connection that is gone is
  released.
* **Explorer and web.** The user acts between every request and its answer.
  Correct means: following page tokens visits each row once; the entries, the
  page token and the tail shown belong together; and what is kept several times
  over (lists, panels, drafts, marks) agrees.
* **Key files.** Correct means: processes that run share one key, which stays.

`PROJECT.json` lists every component with its status and every hazard at its
line.

## 2. Plan

Done, in the order of what fails worst: delivery (`AgentSpool`, `IngestStore`,
`Delivery`, the abstract `ExactlyOnce`), the Agent's log streams (`LogStream`),
the Explorer page and the pages and widgets around it (`Explorer`, `AlertsPage`,
`NodesPage`, `Overlays`, `EntryList`, `QueryLibrary`, `TimelineDrag`,
`QueryEditor`), the alert engine (`AlertEngine`), enrollment (`Enrollment`), the
Hub's live tail (`LiveTail`), pages over a changing store (`Pagination`) and key
files (`KeyFile`). `WebApp` states what is asked of several parts of the page.
`MCDelivery`, `MCLogStream`, `MCLogStreamTurns` and `MCExplorer` instantiate one
component for TLC, `MCHub`, `MCWeb` and `MCProgress` several (section 7). The
proofs (section 10) are in `DeliveryProofs`, `LogStreamProofs`, `IdentityProofs`,
`HubProofs` (alert engine, live tail, pagination), `PlacesProofs` (lists),
`ExplorerProofs`, `PageProofs` (alert policies, entry list, library) and
`WebProofs` (nodes, overlays, timeline, editor).

What could follow: container metadata (heartbeats against replayed batches, the
`source` and `min` retention modes).

## 3. The delivery modules

`AgentSpool` is `spool.go`: a spool is a set of items (a batch and its file's
modification time). `Written` is `Write` with the prune that ends it, and
`FailedWrites` the spools that a failing `Write` may leave. Every file weighs 1,
so the size limit counts files.

`IngestStore` is the part of `sqlite.go` that decides on duplicates: `receipts`
is `ingest_batches`, `rows` is `logs`. `Accept` and `Ignore` are the two outcomes
of `WriteBatch`; `Cleanup` is `Cleanup` (mode `independent`) together with the
`cleanupAuxiliary` it defers.

`Delivery` extends it with the processes:

| Model | Code |
|---|---|
| `pc` | where the Agent's main goroutine is: the `select` loop, in `replaySpool`/`flushQueue` (`replay`), inside `SendBatch` (`post`), or not running |
| `queue`, `metadata`, `seq` | `BatchQueue`; `boot` and `nextEntry` are `bootID` and `entryID` |
| `hand` | the batch `flushQueue` has taken from the queue |
| `call`, `req` | the `SendBatch` that waits, and the requests in flight, also those nobody waits for any more |
| `receipts`, `rows` | the Hub's tables |
| `accepted`, `live`, `lost` | histories: accepted batches, published entries, entries given up |
| `Start`, `Collect`, `CollectOverflow`, `CollectOverflowFails`, `Discover`, `FlushTick`, `StopWithFlush`, `StopOnClosed` | the head and the branches of `runCollection` |
| `SendNext`, `SendSucceeds`, `SendFails`, `FlushDone`, `ReplayFails` | `replaySpool` and the rest of `flushQueue`; `GiveUp` is its error path |
| `IngestNew`, `IngestDuplicate`, `PublishEntry`, `Answer`, `Lose` | `handleAgentLogs` and `Ingest` |
| `Retain`, `HubRestart`, `Crash` | `runRetention`, the end of each process |
| `Tick` | an hour; guarded by the fact that a request is bounded to 20 seconds and the queue to one flush interval |

Abstractions. An entry is its InsertID and a time. Batches are cut by count;
the byte limit of `Ready` is another cause of the same step. Container metadata
is one Boolean, as only its presence makes `Flush` produce a batch. Authentication
inside `SendBatch` can only make the call fail, which `Lose` and `SendFails`
cover. Losing an answer is `SendFails` while it is under way. Both hosts share a
clock: the code compares Hub times with Hub times and Agent times with Agent
times. Boots are ordered as they are numbered where the code orders their random
names. Definitions whose comment begins with "Slip" are the wrong versions of
the definition after them, used to confirm that the properties notice.

After a 401 `SendBatch` authenticates again and repeats the request; the Hub
has refused the first copy before it read the batch, so the repetition adds
nothing to what one request can do.

`ExactlyOnce` is the abstract promise: an entry is collected, delivered at most
once after that, visible from its delivery, and invisible for good after its
expiry.

## 4. The log stream module

`LogStream` is `internal/logstream/manager.go` as the Agent uses it, with the
subscriber's goroutine from `agent.go`. A step is what one goroutine does under
one lock or in one call.

| Model | Code |
|---|---|
| `table`, `registered` | `Manager.streams`, `Manager.subscribers` |
| `stream` | the stream objects, also those no longer in the map; `watch` is where the goroutine of a started one is, `shown` the history of what it published. `Seen` and `LastSeen` are derived from it |
| `thread` | the goroutine of each subscriber (`main`) and the one that waits for its context (`ctx`): where it is, and the streams it has collected under the lock to cancel and to start after it |
| `closed`, `since` | subscribers with closed channels, `subscriber.since` |
| `List`, `Register`, `StartNext`, `Settled` | `SubscribeWithNodes` before, under and after its lock |
| `Relist`, `Reconcile`, `CancelNext`, `StartNext`, `Settled` | `Refresh`, likewise |
| `Return`, `Wake`, `Detach`, `CancelNext`, `CloseChannels` | the end of `runCollection`, the ctx goroutine, `closeSubscription` |
| `CloseManager` | `Manager.Close` deferred by `Agent.Run` |
| `Check`, `Connect`, `Refuse`, `Deliver`, `Disconnect`, `Resume`, `Leave` | `watch` with `publish` and `publishError` |
| `Change`, `WriteLine`, `docker`, `log`, `pos` | Docker, external |

Abstractions. A line is its position, which orders lines as their timestamps do.
Docker is asked for lines since a second and for none of the past (`tail=0`);
the model lets a connection start anywhere from that second on. A failed listing
changes nothing and is left out. Subscribers select every container, as the
Agent's do. Buffers are left out: a full one only drops entries. A stream object
that nothing refers to any more may be used again for a new one, so `Copies`
bounds those of one container that live at once, and a call that needs one more
waits. A send in a `select` whose `done` is closed as well takes either branch.

## 5. The Hub's modules

**`AlertEngine`** is `internal/alert/engine.go` with the rules of `rule.go`.

| Model | Code |
|---|---|
| `rules`, `states`, `file` | `Engine.rules`, `Engine.states`, the alert store. A failed save keeps rules as they were and states as they became |
| `phase` | `Run`: down, waiting for a subscription, consuming |
| `outbox`, `Send` | what `processEntry` and `resolve` decided on and `notify` delivers after the lock |
| `Create`, `Update`, `Delete`, `List` | the API, each under the lock with its save; `Update` is also `Patch` |
| `ProcessEntry`, `Resolve`, `Load` | `processEntry`, `resolve` with its ticker, `load` |
| `Subscribe`, `SubscriptionClosed`, `Tick`, `Crash` | the loop of `Run`, time, the end of the Hub |
| `since`, `owed`, `stale`, `lost` | histories: the age of the last firing notification, a firing one not answered yet, a file that missed a change, a start from such a file |

A time is kept as its age up to `MaxAge`. What the code does and no document
speaks of: match times are processing times; an incident begun inside the
cooldown stays silent even when it outlasts it; a notification decided before a
deletion is still sent, to the webhook of that moment; a failed delivery is not
repeated; `List` trims matches without saving; after a failed save and a death
of the Hub an end may be lost or a firing repeated (excepted by `lost`).

**`Enrollment`** is `sender.go` and `hubpin.go` on the Agent's side and
`node/service.go` with its tables on the Hub's.

| Model | Code |
|---|---|
| `nodes`, `tokens` | the tables `nodes` and `enrollment_tokens` |
| `calls` | requests; `step` is which of the handler's transactions is done |
| `agent` | pin file, key in memory, token, state of `ensureAuthenticatedLocked` |
| `Ask`, `Accept`, `FallBack`, `GiveUp`, `Timeout`, `Restart` | the Agent |
| `Check`, `Consume`, `SaveNode`, `Lookup`, `Touch`, `Challenge`, `StoreFails`, `HubRestart`, `Expire`, `Revoke` | the Hub, a transaction each |

Nobody forges or repeats requests in the model, so signatures, nonces and the
clock window are left out. `admits` is a history.

**`LiveTail`** is `Ingest`'s publication, the Broker, `handleTail` and the search
before it. `conn` is a subscription with its channel and handler, `ingest` what
each batch has still to publish, `viewer` a page. The two who close a
subscription, the watcher of its context and the returning handler, take the
same steps, `Unsubscribe` and `CloseChannel`. `new`, `came`, `overflow` and `had`
are histories. A page that reconnects asks again with the old `since`, and
nothing is replayed. Queries and selections are left out; `Close` of the Broker
ends every subscription as the end of its page does. In the code the range of a
search ends when it begins: an entry written while it runs is missed by search
and stream alike, which is one more way to `NewReach`'s violation.

**`Pagination`** is `SearchEntries` chunk by chunk, `paginateResponse` and
`IsAfterCursor`. An entry is its time and the place of its insert ID.

| Model | Code |
|---|---|
| `stored` | the table `logs` |
| `searching`, `found`, `last`, `truncated` | `SearchEntries`: what it has read, the last row's place |
| `cursor`, `order` | the page token and the sort of the walk; `pages`, `kept`, `cut` and `partial` are histories |
| `FirstPage`, `NextPage` | a search begins, without a token or with one |
| `ReadChunk`, `Fail` | a chunk of the `LIMIT` query, and its error path |
| `AnswerPage` | the filter of the store's answer by the cursor, the page and its token |
| `WriteRow`, `Cleanup` | `WriteBatch` and `Cleanup` |

A search holds the store's mutex, so writes and clean-ups fall between searches,
never between chunks. Every search reads from the first row, as the code does,
and drops what is not behind the cursor. Results are sets; `IsAfterCursor` orders
them, so `First` and `Final` pick by it what the code picks by position.

**`KeyFile`** is `LoadOrCreateIdentity`; `LoadOrCreateKey` takes the same steps.
`Part` is a file that was created and not written: no later start accepts it.
Power failures, which may empty a closed file, are left out.

## 6. The modules of the web application

The page runs on one thread. A step is one event (gesture, answer, timer, frame,
storage event) up to the next wait, so all interleaving is between events.
Renderings are part of the step that makes them.

| Module | What it models | What it leaves out |
|---|---|---|
| `Explorer` | `loadExplorer` with its append, reload and cancellation, the live tail, history, drawer, recent queries, timeline resolution | texts; the tail's connection messages |
| `AlertsPage` | lists and requests of the alert policies, the dialog, disabled buttons | the form's fields |
| `NodesPage` | list, revocation, enrollment tokens | texts |
| `Overlays` | drawer, filter sheet, backdrop, frames, focus, address, width | Back with a dialog open, the order of focus inside an overlay |
| `EntryList` | rows redrawn under expanded, selected and focused entries, the detail drawer | markup |
| `QueryLibrary` | the two lists in every tab, `localStorage` and its events, the confirmation of a deletion | the texts of queries |
| `TimelineDrag` | press, drag, release, the click that follows, redraws | drawing of bars |
| `QueryEditor` | suggestions for the word at the cursor and taking one | highlighting |

`Places` is `filter()` and `sort()` as these modules use them. The element at
place `k` of a sorted list is the one with `k` elements up to it, and what a
filter keeps are the places it keeps, in order: the meaning of `SelectSeq` and
`SortSeq` without their recursion, so that the lists can be reasoned about.

What the code does, the models contain and no document speaks of: *Load More*
leaves the next page's token in the address; after a cancellation or failure
Streaming stays on without a tail; the library's *Load* during a load mixes form
and results; the list of recent queries records a half-typed text when the
answer comes while one types; the scroll lock stays when the tail trims the open
entry; the answer to a save closes whichever alert dialog is open; a phone's
navigation marks Logs on the alerts page; the error details of one failure hide
later messages; a click on a suggestion closes the list that choosing it opened;
a list of suggestions outlives a text replaced from outside; *Tab* does not leave
the editor while there are suggestions.

## 7. Runs

| Run | Module, configuration | Question | Bounds |
|---|---|---|---|
| `safety` | `MCDelivery`, `Delivery_safety` | does duplicate suppression hold? | two requests overlap, retention by size removes one of two rows, the clock (2) passes the window (1), the Agent runs twice |
| `faults` | `MCDelivery`, `Delivery_faults` | are batches numbered, entries conserved and `ExactlyOnce` implemented on a failing disk? | the queue (1) is smaller than a batch (2), the spool holds one file and ages, one batch of metadata only, both retentions, a clock that stays in the first window |
| `liveness` | `MCDelivery`, `Delivery_liveness` | is what is held delivered? | a crash, Hub restarts and timeouts, one request at a time |
| `logstream` | `MCLogStreamTurns`, `LogStream_safety` | do the manager's maps, goroutines and channels agree? | two subscriptions of one container, overlapping or not, two stream objects |
| `logstream_liveness` | `MCLogStream`, `LogStream_liveness` | is a container followed again, and no line published twice? | one subscriber, a container that stops and restarts without bound, three lines, two in a second, a cache of two |
| `explorer` | `MCExplorer`, `Explorer_sessions` | does the explorer page show what was asked? | two searches, three entries, pages of one; five sessions |
| `web` | `MCWeb`, `Web_safety` | do the page's other parts agree with the Hub, the storage and themselves? | eight parts, below |
| `hub` | `MCHub`, `Hub_safety` | do the Hub's services keep their promises under failures? | five parts, below |
| `progress` | `MCProgress`, `Progress_liveness` | what must happen in the end | eight parts, small |
| `logstream_panic` | `MCLogStream`, `LogStream_panic` | `NeverSendsOnClosed` is violated | finding 3 |
| `stop` | `MCDelivery`, `Delivery_stop` | `StopKeepsQueue` is violated | finding 1 |
| `spooldrop` | `MCDelivery`, `Delivery_spooldrop` | `SpoolDropsOldest` is violated | finding 2 |

The properties of a run are those of its configuration; each is stated in words
above its definition. Where several facts about one component have to agree, the
property is the conjunction of named parts, the type invariant first:
`WatchesAgree` and `WatchesSettle` (`LogStream`), `PageFollowsSearch` and
`ListsSound` (`Explorer`), `RulesSound` and `NotificationsMatch`
(`AlertEngine`), `AdmissionSound` (`Enrollment`), `KeySound` (`KeyFile`),
`TailSound` (`LiveTail`), `WalkSound` (`Pagination`), `NodesInStep`
(`NodesPage`), `OverlaysAgree` (`Overlays`), `ChartAgrees` (`TimelineDrag`), and
`PagesAgree`, `LibraryAgrees`, `NothingForgotten` (`WebApp`) and those of
`MCProgress`, which put several modules together. Each part but the types has a
slip of its own that breaks it.

Parts and sessions. The modules of the Hub and of the web application share no
variable: what passes between them (requests, answers, storage events, batches)
is in the module of the side whose state it changes. Their composition would only
multiply their states, so `MCWeb`, `MCHub` and `MCProgress` look at one after
another. `part` is chosen in the initial state and never changes; the part it
names moves, the others rest. `MCHub` extends the modules of its parts and
`MCWeb` extends `WebApp`, which extends those of its own, so the properties
checked there are theirs as they stand and hold of the parts that rest as well;
where `MCProgress` has instances of a module, a property says with `part = ... =>`
which of them it speaks of. `session` of `MCExplorer` chooses in the same way among
sets of gestures, because all seventeen together are too many states: each
property has the gestures that touch what it speaks of. Each session is its own
bounds. The history `strayed` of `Explorer` says how far the form has been led away
from the results: by typing, by a search put in the form or taken back and not
run, by a custom range chosen under a load. Each part of `PageFollowsSearch` is
about pages that have not strayed as far as breaks it. `astray` of the alerts and
nodes pages says that requests overlapped or failed, `hurried` of `Overlays` that
a gesture came while callbacks were waiting; what the code does then is in
section 9.

| Part | Bounds |
|---|---|
| `searching`, `paging`, `going`, `reading`, `recording` (`MCExplorer`) | typing, running, paging and Streaming with a search newest first and one oldest first; pages with the tail ahead; Back, Forward and open pages; the drawer under a list of one; recent queries while the width changes |
| `alerts` | two rules; a third call only while there is at most one |
| `nodes` | two nodes, three calls |
| `overlays` | two steps of history, a phone turned once, two callbacks waiting, clicks that focus |
| `results` | three entries, a list of two |
| `library`, `history` | two tabs and one query, one tab and two queries; the storage refuses |
| `chart` | three buckets, three ranges, two pointers |
| `editor` | texts of three lexemes; an operator is offered and not taken, as it makes four of them with its field and blanks (`EditorHolds` is about texts of any length) |
| `alerts` (`MCHub`) | two rules out of three policies, three entries, one write, a failed save, a death |
| `enrollment` | two Agents, a token they share and one of its own, two requests at a time, three faults |
| `key` | two processes, two kills or failures |
| `tail` | two Agents, a page with an old and a new connection, a channel of one |
| `walk` | five entries, two of each time; chunks and pages of two, at most three |
| `engine`, `undisturbed` (`MCProgress`) | one rule with failures and two deaths; one rule nobody writes |
| `enroll` | an Agent with a token, three faults |
| the other parts of `MCProgress` | two processes, one connection, one rule, one node, two searches |

For delivery two entries, two boots and two requests are enough for these properties: each
relates at most two copies of one batch, or two batches, and each failure needs
one retry or one restart between them. `MaxBoots`, `MaxEntries`,
`MaxDiscovered` and `MaxClock` only bound the exploration. Deadlock is checked
in the delivery runs; `Retain` is always possible, so the check says little
there. It is off in the others: a process that has stopped, or panicked, takes no
more steps, and bounded gestures, calls and faults end every behaviour.

In the log stream runs the map is keyed by container and the properties relate
two streams of one container or two subscribers; the containers meet only in the
loops of `Refresh` and `closeSubscription`, whose cancellations and starts
`CancelNext` and `StartNext` take one at a time. Lines matter to `NoLineTwice`
alone, so `logstream` writes none. `ServedInTurn` promises something until two
subscriptions have overlapped, which the Agent's never do; with overlapping ones
neither `AtMostOneFollow` nor `AttachedToAll` holds (`Refresh` of one subscriber
removes a stream before cancelling it, and gives an existing stream no further
subscribers).

In the web runs a race needs one request under way and one more gesture, an
answer, or a second request; the bounds allow two or three. Two searches, two
rules, two nodes or two tabs are one and another. A time in `AlertEngine` stops at
`MaxAge`, past every window and cooldown. A walk through pages needs two pages
with something before, between and behind, and two entries of one time at the end
of a chunk.

Symmetry: `Slots` only name requests, and containers and subscribers are
interchangeable. The liveness runs use none, nor do the runs of parts.

Fairness. `FairSpec` of `Delivery` assumes that the Agent's goroutine keeps
running and that a killed Agent is restarted (`WF`), that handlers finish
(`WF`), and that of infinitely many attempts some are executed and answered
before the 20-second timeout (`SF` on ingestion and on `SendSucceeds`). Without
the last one an Agent whose Hub never answers replays for ever, as the code
does; it also excludes a batch that the Hub refuses for good, which blocks all
that are behind it. Nothing is assumed of crashes, losses, timeouts of the client, retention
or the clock.

`LiveSpec` of `LogStream` assumes that runnable goroutines run, that timers and
the discovery ticker fire (`WF`), that a cancelled `FollowLogs` returns (`WF`),
and that Docker answers `FollowLogs` if asked again and again (`SF` on
`Connect`). `EventuallyFollowed` speaks of a container that keeps running and a
subscriber that stays; nothing is assumed of Docker's changes, lost
connections or the stop.

For the pages, requests end: answered or failed (`WF`), timers and frames come
(`WF`); nothing is assumed of the user. `AlertEngine`: its ticker, its loop and
its notifier run, a Hub that died is started again (`WF`). `Enrollment`: handlers
finish, and the Agent goes on asking (`WF`); as faults are bounded, some request
gets through. `LiveTail`: goroutines run, and a browser that is there reads
(`WF`). `KeyFile`: a supervisor starts again what failed (`WF`).
`ProgressFairness` restates these, each for the part that moves.

## 8. Findings

1. `StopKeepsQueue`: a stop may lose the queue. Cancelling the context also
   closes the subscription; `select` in `runCollection` may choose the closed
   channel and return before the last flush (`internal/agent/agent.go:100-103`,
   `121-124` against `141-143`).
2. `SpoolDropsOldest`: the size limit drops in sequence order, and sequences
   restart with every process (`internal/agent/spool.go:116`, `153-158`).
3. `NeverSendsOnClosed` of `LogStream`: a stream that `Refresh` removes from the
   map keeps its subscribers (`internal/logstream/manager.go:257-261`),
   `closeSubscription` visits only the map (`434`), and the `select` in `publish`
   and `publishError` (`410-414`, `422-426`) may take the send on the closed
   channel although `done` is closed too. The window is short: between `Refresh`
   and the end of the removed stream's goroutine the subscription must close. For
   streams in the map `MapSendsToOpenChannels` excludes it.

The sentences of the repository these contradict are quoted in `PROJECT.json`.

## 9. Divergences without a run

Sentences of the repository that the models contradict, and for which no
configuration is kept. Each property is defined, with a comment, in the module
named; TLC reports it violated in an instance as small as the one given.

* `AcceptedOnce` (`Delivery`; `DedupRetention` 2, `SpoolMaxAge` 1, `MaxClock` 3,
  one entry). A batch is spooled, the Agent is down for longer than the replay
  window, the next process replays it: the spool's age limit is applied on
  `Write` only (`internal/agent/spool.go:65`, `agent.go:166-180`). README:543
  says "configure the window longer than every Agent's spool/retry lifetime".
* `TokenKeepsSearch` (`Explorer`; gestures filter, more; pages of one). *Load
  More*, a filter is changed, the page arrives: its cursor replaces the empty one
  and goes out with the new search (`bootstrap.ts:417`, `460-463`). README:362
  says "Keep the same search conditions, time range, and sort order when
  requesting the next page".
* `TailFollowsResult` (`Explorer`; filter, history). Back starts a search and
  opens its tail at once, on the old results (`bootstrap.ts:1266-1269`).
  README:238 says that the stream "reconnects from a new search result".
* `InTheOrderAsked` (`Explorer`; a search oldest first; more). A live entry
  arrives, then the next page: the page is put behind the newer entry
  (`bootstrap.ts:404-413`). README:275: "Supports newest/oldest sorting".
* `TimelineFitsWidth` (`Explorer`; two resolutions; resize). A resize during the
  first load is not acted upon (`features/timeline/resolution.ts:33`). README:265:
  "based on the timeline width".
* `CountedOnce` (`AlertsPage`; one rule). A creation is stored, a list is loaded,
  the creation's answer adds its rule again (`bootstrap.ts:743-747`). README:258:
  the view "provides policy, firing, enabled, and notification summaries".
* `SheetOnExplorer` (`Overlays`). An address with `view=alerts&fields=1`, written
  on a desktop, is opened on a phone: the backdrop covers the alerts page
  (`bootstrap.ts:239-247`). README:282: "Fields appears as a bottom sheet on
  mobile".
* `SheetShowsFields` (`Overlays`; `Rotations` 1, or two *Fields* links in one
  frame, `MaxFrames` 2). Nothing listens to the width, so a narrowed window has a
  sheet that nothing closes (`bootstrap.ts:235`); `focusSection` hides a sheet
  that is open already and leaves the backdrop (`316-329`). Same sentence.
* `MovesToNextRow` (`EntryList`). A row has the focus, a live entry arrives, `j`:
  the row is gone and the keys begin at the top (`features/logs/render.ts:48-68`).
  README:287: "Move to the next log row".
* `HistoryStays` (`QueryLibrary`; one tab, two queries). The library is open, a
  query is answered and recorded, one is deleted: the list as it was drawn is
  written (`features/workspace/controller.ts:251`). `messages.ts:22`: "Saved
  queries and history are stored in this browser."
* `SavedStaysSaved` (`QueryLibrary`; two tabs). The other tab saves, this one
  saves before it handles the event (`controller.ts:279-288`). `messages.ts:21`:
  "Query saved in this browser".
* `DragChoosesShown` (`TimelineDrag`). An answer with another range arrives during
  a drag: the release chooses by the new times
  (`features/timeline/render.ts:322-328`). README:271: "drag across a range to
  change the time range".
* `AnnouncedIsResolved` (`AlertEngine`; `changes` 1, or `crashes` 1). A firing rule
  is edited or deleted (`internal/alert/engine.go:124`, `194`, `225`), or the Hub
  is down until its window has passed (`534`): nothing says that the incident is
  over. README:264: a rule "sends a webhook notification for firing and resolution
  events when a webhook is configured".
* `AdmittedConnects` (`Enrollment`; `Setup` "url", one fault). The answer to an
  enrollment by URL is lost, the token is used, and every later try is refused;
  only the token's branch falls back to a challenge (`internal/agent/sender.go:154`).
  README:100: "subsequent starts use the saved `identity.json` and `hub.json`".
* `ConnectedIsPinned` (`Enrollment`; one fault). A first key is trusted in memory
  when its file could not be written, and is never written later
  (`sender.go:281-284`). README:198: the Agent "persists the Hub URL and
  public-key pin in `hub.json`".
* `CameReach` (`LiveTail`). Written before a search, delivered after it: in neither
  the answer nor the stream (`internal/logstream/broker.go:95`). README:235: "New
  entries appear as they arrive".
* `NewReach` (`LiveTail`). Written after a search, published before the page has
  subscribed (`internal/ingest/service.go:77`). Same sentence.
* `LimitIsTold` (`Pagination`; `MaxEntries` 3 of four matches). A search cut at
  50,000 entries is truncated but not marked approximate, and the page's badge
  looks at the latter (`internal/explorer/service.go:188`). README:358: "The UI
  shows this as `Partial`".

## 10. Proofs

`DeliveryProofs` proves for every value of the constants that satisfies
`SpoolLimitsAssumption`, `RetentionAssumption` and `DeliveryAssumption`:

* `TypeCorrect`: `Spec => []TypeOK`. `TypeOK` is inductive; the proof has one
  step per action and lemmas on what the helpers return (`ItemOfType`,
  `NewRowsType`, `BecomeType`, `GiveUpType`, ...).
* `RowsStayProtected`: `Spec => []RowsProtected`. Inductive by itself: a row
  enters with its receipt, and `Cleanup` keeps the receipts of the rows that it
  has left. `StoreSteps` reduces `Next` to the three kinds of step that touch
  the store or the clock.
* `SuppressionHolds`: `Spec => ReacceptOnlyAfterExpiry`. It needs the invariant
  `WindowOpen` (while the window of an acceptance lasts, its receipt is there
  with its time), because the property speaks of all earlier acceptances and the
  store only remembers receipts. From `RowsProtected` follows that no row of an
  unknown batch is retained, from `WindowOpen` that its earlier acceptances are
  past the window.
* `BatchesAreIdentified`: `Spec => []SequenceIdentifiesBatch`. The invariant is
  `Ledger`: where a batch may be at each stage (`Stages`), what remains of it
  elsewhere (`Remembered`, `Carried`), that counters are ahead of all they have
  numbered (`Counted`, `Numbered`), and that an entry is in one batch and in no
  other place (`OneBatchEach`, `QueueApart`). A batch must be followed into the
  Hub's history, because a late request brings it back from there.
* `EntriesStayAccounted`: `Spec => NothingVanishes`, from the same `Ledger`: no
  step takes an entry out of `Accounted`.
* `LiveEventsAreNew`: `Spec => NoDuplicateLiveEvents`, by `PublishedOnce`: a
  request that has something left to publish which is live already, or that
  shares its batch with another one, is of a batch accepted twice.
* `PipelineKeepsPromise`: the refinement `ExactlyOnceDelivery`, step by step.
  Its hypothesis `MaxClock <= DedupRetention` bounds the whole behaviour: the
  clock does not leave the first replay window. It is stronger than the condition
  that README:543 puts on the operator, under which no single batch is under way
  for longer than the window, however long the system runs. That some condition
  is needed shows `AcceptedOnce` (section 9); what holds without one is
  `SuppressionHolds`. `Bounded` gives the bounds of the guards.

`LogStreamProofs` proves under `LogStreamAssumption`, without a bound on
containers, subscribers or their overlap:

* `LogStreamTyped`: `Spec => []TypeOK`. `TypeOK` includes that the map holds one
  stream per container; `CreatedStreams` shows that what a call creates is for
  containers without one. The steps are grouped as in `Next` (`MainTyped`,
  `ThreadTyped`, `WatchTyped`, `RestTyped`).
* `MapKeepsToOpenChannels`: `Spec => []MapSendsToOpenChannels`. It is inductive
  together with `TypeOK` and `LivesOnce`: a closed channel must not come back
  through a registration, and only the order of a subscriber's life excludes it
  (its ctx goroutine starts after it registered, it closes after that, and what
  is detached stays unregistered).
* `MapAndWatchesAgree`: `Spec => []WatchesAgree`. `WatchInv` adds what each
  goroutine has left to do between its critical sections: a stream that follows
  is in the map or on somebody's list to cancel (`FollowersFound`), what is on
  such a list has left the map (`CancelledLeft`), and nobody has a list but on
  the way out of the lock (`Errands`).
* `OneFollowInTurn`: `TurnsSpec => []ServedInTurn`. `TurnsSpec` adds the history
  of whether two subscriptions have overlapped, `InTurn` is the invariant until
  then: the map is empty unless one is served, and who lists or is registered has
  no cancellation left to do.
* `LinesShownOnce`: `Spec => []NoLineTwice`. `ReplayInv` says that a connection
  stands behind all published lines but those of the second it was asked for, and
  that these are in the seen cache.

`ExplorerProofs` proves `TailIsLive`, `ShownStaysAsked` and
`DrawerStaysSelected` for any searches, entries, page sizes and gestures. What a
page at rest shows is not inductive; `SearchInv` adds what a load under way will
show: unless a reload is due it is for the search asked for (`LoadsAsked`), and a
load that settles has its own answer in the state (`SettlesOwn`).
`StreamFollowsSearch` adds `PageFollowsSearch`. Its three parts have an invariant
each, as far as `strayed` lets the part speak: `StreamInv` (a page to append finds
its results standing; with Streaming on the tail of a list that stands is open for
the search in the form), `ListInv` (unless one is typing, the form is what was
asked, the tail is the form's, and what is listed came for it) and `RecordInv`
(what settles or is recorded was answered).

`ListsAreSound` proves `Spec => []ListsSound`. Each entry is listed once because
`Fresh` drops what is there and a sorted set has no element twice. The order is
not inductive: `OrderInv` says that an answer on its way continues behind the
cursor it was asked with (`AnswerFalls`), that the cursor kept is at or behind the
end of the list while the tail begins in front of it (`ListFalls`), and that a
page to append was asked with the cursor that is still kept (`AppendContinues`).
It holds until a text is typed or a search is taken back: the next live entry is
then sorted in by the order in the form (`streaming/controller.ts:19-28`), which
is why `NewestFirstInOrder` is about pages that have not strayed. For oldest first
nothing like it holds (`InTheOrderAsked`, section 9).

`HubProofs` has the three services of the Hub. Of `AlertEngine` it proves
`MemoryRulesAreStored`, `PeakCovers`, `PausedStaysQuiet`, `CooldownIsKept` and
`ResolvedFollowsFiring` for any rules, thresholds, windows, cooldowns and any
number of failed saves and restarts; `EngineIsSound` and
`NotificationsAreMatched` put them together. What holds of the memory must hold
of the file, which becomes the memory: `GoodAll` is said of both, and `Heard`
that each remembers what was told, the memory unless it was loaded from a file
that had missed something, the file unless it misses something now.

`IdentityProofs` proves of `Enrollment` `TypesAreKept`, `TokenAdmitsAtMostOne` and
`ConnectedAgentIsNode`, together `AdmissionIsSound`, and `RevocationIsKept` for
any Agents, tokens, requests
and faults. The invariant adds what requests half done know: whose they are
(`Asks`), that a registration has a token (`Offers`), that who was looked up or
told yes has a row (`Knows`), and that a token used by a request which has not
saved its node yet belongs to it alone (`Spends`).

Of `KeyFile` it proves `KeyIsShared` (with its parts `RunningHasFile` and
`WritesAlone`) and `IdentityStays` for any processes and failures. `OneWriter`
needs `WrittenIsFile` and
`WriterHasKey`: who closes the file wrote what is in it.

Of `LiveTail`, `HubProofs` proves, under `LiveTailAssumption` (finitely many entries, each
of one Agent, and positive sizes):

* `TailIsSound`: `Spec => []TailSound`. `TailInv` says of each page (`PageOK`)
  where an entry is that came while the page was connected: shown, in its channel,
  dropped by a full channel, or still to be published and then not among those
  the Broker remembers; and `TailInv` that a channel is open while its
  subscription is in the map.
* `EntrySentOnce`: `Spec => SentOnce`, by `Recalls`: what a channel was given is
  among what the Broker remembers, if it has room for all entries (`Roomy`). A
  Broker that had to forget gives an entry again, which the property allows.

Of `Pagination`, `HubProofs` proves `PagesAreOneList`: `Spec => []WalkSound` under
`PaginationAssumption` (finitely many entries, insert IDs that identify them,
positive sizes). Timestamps may be equal and every chunk, page and
search limit may fall between equal ones. The order of a finite set has ranks
(`RankIsOrder`, `RankIsPlace`): the first `n` of a set are those of rank `n` or
less, which replaces an induction over chunks. `SearchInv` says that the rows
read so far are all those not behind the last one, `WalkInv` that all that is
listed is at or before the cursor and what was kept throughout is listed or
behind it.

`PlacesProofs` has what the lists of the page rest on: every place of a finite set
of numbers is taken once (`PlaceIs`), a sorted set is in order and has the
elements of the set (`RisingIs`, `FallingIs`), and a filtered list has what was
kept, in the order it had, and nothing twice that was not (`KeptIs`, `KeptOnce`).

`PageProofs` proves, for any rules, requests, entries, limits, tabs and queries:

* `WebhooksAreKept`: `Spec => WebhookKept` of `AlertsPage`. Which rule a form is
  about is decided when the dialog opens and what the Hub has may change until it
  is served; `CallFits` says that a save carries the form of the rule it names,
  `RulesHeld` that an id not given yet has no rule, so that no creation replaces
  one.
* `PageHolds`: `Spec => [](TypeOK /\ InStep)` of `AlertsPage`. `PageInv` says of
  each call under way what its answer will make of the page (`CallSound`, `Due`):
  unless calls overlapped or failed, that is what the Hub has.
* `EntryListHolds`: the detail's neighbours and the scroll lock of `EntryList`.
  `ListInv` adds that no entry is listed twice, so that the row of the selected one
  is known, and that an open drawer was drawn with the settings there are.
  `OpenedHolds`: `ListSpec => LiveKeepsOpened /\ ExpandsOne`.
* `LibraryHolds`: what tabs, libraries and storage agree about, and `SavedHolds`:
  `LibrarySpec => SavedUntilDeleted`. `LibraryInv` adds that every list, stored,
  held or drawn, is sound (`StoreSound`, `CopiesSound`, `DrawingsSound`: items
  numbered in the past, no query twice in a history) and that what a confirmation
  asks about is drawn (`AsksForDrawn`).

`WebProofs` proves, for any nodes, requests, history, callbacks, bars, ranges,
texts and suggestions:

* `NodesAreInStep`: `NodesSpec => []NodesInStep`. `InTurn` says, unless requests
  have overlapped or failed, that at most one is under way and that a list that
  was served is still the Hub's; `FewCalls` that the requests have numbers enough.
* `OverlaysStayInStep`: `OverlaySpec => []OverlaysAgree`, and `FocusComesBack`:
  `OverlaySpec => DrawerGivesFocusBack`. The page is a record and every handler a
  composition of its functions, so there is a lemma for each function on what it
  does to each field (`SyncedIs`, `ClosedIs`, ...) and on what it keeps
  (`Backed`, `Tells`, `Returns`). `CallbacksFit` says what a callback that opens a
  section finds: it is the last one asked for, and the sheet is closed - the two
  things that a hurried gesture or a turn breaks. `DrawerGivesFocusBack` is about
  the step that closes the drawer; the frame of an earlier toggle may still move
  the focus after it.
* `ChartIsSound`: `ChartSpec => []ChartAgrees`. `ClicksSuppressed` (a click that is
  due after a release will be suppressed) and `DragsFresh` (a press under way has
  chosen nothing) make one choice per press inductive; `TimesAreOrdered` is the
  arithmetic of bars and times.
* `EditorHolds`: `DraftIsText`, `TakesOnlyTheWord` and `ValueOfItsField` of
  `QueryEditor`. `EditorInv` says that the list on offer was built for the text as
  it is, at some caret, which may have moved since. A text set from outside under
  an open list (`replaced`, section 6) is where the promise ends.
* `PagesAgreeHolds`, `LibraryAgreesHolds` and `NothingForgottenHolds` put these
  together into the properties of `WebApp`; their hypotheses are the
  specifications of the parts, which share no variable.

Assumptions on constants are the named ones of the modules, which the runs
evaluate; no theorem but `PipelineKeepsPromise` has another hypothesis. They say
what sort of thing a constant is; the ones that say more are that `None` is no
rule, search, number or response; that the words of a query are not its operators
and blanks; and `QuotedAssumption`: a word in quotes is a lexeme of its own, which
no keyword is made of.

Every safety property of the passing runs is stated by a theorem. Only
model-checked:

* All violations, here and in section 9: they are counterexamples.
* Liveness (`EventuallyDelivered`, `WatchesSettle` and the properties of
  `MCProgress`), which is outside the proof system's reach together with
  `ENABLED`.

## 11. Not modelled

Container metadata with its heartbeats and the two retention modes that use it,
the control stream, nonces and signatures; a subscription of the Agent's manager
that selects containers; the query language, timeline buckets and field counts,
which are functions of the entries without state; the reader of Docker's frames;
notifier payloads, markup, styles, locales and argument parsing, which hold no
state worth checking. The components' notes in `PROJECT.json` say what is left
out of those that are modelled partly.
