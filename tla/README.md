# A formal model of rust_uma

rust_uma follows UMA oracle contracts on Polygon and pushes their events to
trading clients within milliseconds. This directory holds TLA+ modules that model
its concurrent parts, TLC configurations that check them on small instances, and
TLAPS proofs of the properties that matter most. Paths below are relative to the
repository (`src/...` is `src/src/...` in `PROJECT.json`, which gives, for every
definition, the lines it models).

## 1. The system

Three binaries and what runs between them:

```
 Polygon RPC endpoints          Polymarket catalog        forfeit feed
   | websockets (racers)  | HTTP       |                     |
   v                      v            v                     v
 tinyuma:  uma/rpc.rs -> pipeline.rs Processor -> batcher -> FrameHub -> api.rs /uma/v1/ws
                               |  storage channel                          |
                               v                                           v
                           storage.rs (events.wal, cursors)            uma-edge (several)
                                                                 upstream -> hub -> clients
                                                                    ^  heartbeat
                                                                    v
                                                                 uma-console (registry, tokens, alerts)
```

| Component | State | Operations | Hard behaviour | What makes it correct |
|---|---|---|---|---|
| RPC ingestion (`uma/rpc.rs`) | `latest_block`, one subscription per racer, running range walks, `uma.cursor` | subscribe, live log, back-fill, gap-fill, checkpoint | several racers and walks at once, sockets lost at any point, restarts | no log is left out; the cursor never moves back |
| event pipeline (`pipeline.rs`, `hub.rs`, `wire.rs`) | sequence counter, dedup ring and key index, two bounded channels, the open batch, frame ring, replay floor | process, insert, batch, encode, publish, `after` | racing sources, a full channel, capacity limits | one sequence per event, each event broadcast once, the floor says what was evicted |
| tinyuma session and edge upstream (`api.rs`, `edge/upstream.rs`, `edge/frame.rs`) | per-session cursor, frames in flight, the edge's resume cursor | dial, send what `after` returns, 1013, read, drop | sockets lost with frames in flight, eviction while an edge is away, frames out of order | nothing twice, nothing missed without a 1013 |
| event journal (`storage.rs`, `main.rs`) | `events.wal`, write buffer, record count | append, flush every second, compaction, recovery | crash between or inside entries, compaction with commands queued, dropped commands | the recovered ring and counters are usable, sequences are not reused |
| edge hub and sessions (`edge/hub.rs`, `edge/ring.rs`, `edge/server.rs`) | frame ring, subscribers with a bounded queue each, writer and reader tasks | publish, subscribe with replay, unsubscribe, release, kick | a slow client evicted while another subscribes | every client gets consecutive frames until it is closed |
| edge drain and admission (`edge/server.rs`, `edge/heartbeat.rs`, `bin/uma-edge.rs`) | three atomic flags, the drain task | drain, undrain, admin drain, signal, handshake tests | lock-free flags used by four tasks; tests made before the upgrade | one drain loop; a drain that exits does exit |
| tokens (`console/tokens.rs`, `edge/auth.rs`, heartbeats) | versioned token table and its file; each edge's copy | create, enable, disable, rename, delete, heartbeat, replace, kick | lost heartbeats, restarts, failed saves, handshakes under way | an edge at the console's version has its tokens; revoked tokens lose their connections |
| console registry (`console/registry.rs`) | nodes, last heartbeat, desired drain, admin bits | heartbeat, release, balance, list | decisions sent in answers that get lost, stale nodes | nodes taken off the list stay off it, a drain ends with its process, balancing comes to rest |
| market catalog (`enrichment.rs`) | condition table, two cursors, catalog file | full and incremental sync, new-market watch, save | pages that fail or leave markets out, three tasks on one catalog, crash between file and cursor | no market that Gamma answered is skipped by a cursor that moved on; the full walk finds the others |
| forfeit blocklist (`forfeit.rs`) | blocked matches, history | apply, prune, lookup, save | feed and pruning against the hot path | hot index and list agree, everything is saved, what the feed publishes is held back |
| mempool feed (`mempool/*`, `bin/mempool-uma.rs`) | rounds seen, pushed and confirmed requests | pending call, confirmation, prune | pendings that never confirm, late or reordered confirmations | each request pushed once, never of a superseded round; scores are earned |
| console alerts (`console/alerts.rs`) | series, firing state, pending messages | observe, evaluate, send, mark sent | delivery that fails, flapping | the chat shows what fires and what is over, and nothing else |
| console panel feed, log decoding, event model, categories, configuration, statistics | display rings, tables, counters | conversions and reads | — | — |

`PROJECT.json` lists the hazards of this code, each at its line, with the
properties that cover it.

## 2. Modules

| Module | Models | Kind |
|---|---|---|
| `Pipeline` | `Processor::process`, `EventHub`, `run_batcher`, `encode_frame`, `FrameHub` | component |
| `WsSession` | extends `Pipeline` with tinyuma's session and the edge's upstream loop | composition |
| `EdgeHub` | the edge's hub and client sessions | component |
| `ContiguousFeed` | what an edge promises a client | abstract specification, refined by `EdgeHub` |
| `Journal` | `events.wal` over crashes and restarts | component |
| `Ingest` | racers, back-fill, gap-fill, block cursor | component |
| `TokenSync` | token store, heartbeats, token set, handshakes | composition of console and edge |
| `EdgeDrain` | drain flags, drain task, admission | component |
| `Registry` | the console's registry with the edges and clients it steers | composition of console and edges |
| `CatalogSync` | the market catalog, its three tasks and its files | component |
| `MempoolGate` | mempool-uma: calldata, gate, confirm feed | component |
| `Forfeit` | the forfeit blocklist, its feed, saver and hot path | component |
| `Alerts` | the console's alert engine and its pushes | component |
| `MC*` | values for the constants and the symmetry sets | instances for TLC |
| `PipelineProofs`, `EdgeProofs`, `ResumeProofs`, `MirrorProofs`, `RegistryProofs`, `CatalogSyncProofs`, `AlertsProofs`, `MempoolProofs` | theorems | proofs |

### Pipeline
`process` is split into the sections another thread can get between: the
`contains` test and the catalog look-up (`Receive`, `Duplicate`), the `fetch_add` (`TakeSequence`), `insert`
(`Insert`, `InsertRefused`), the offer to the storage channel (`Route`, which drops the
record when the channel is full, as `try_send` does) and the awaited send to the
batcher (`Send`). A second copy of the same log can therefore pass the test and
lose at `insert`, and two sources can reach the batcher in the other order than
they took their sequences. The batcher takes a first event (`BatchFirst`), then more
(`BatchMore`) or one that does not fit and is kept for the next batch
(`BatchOverflow`), and publishes (`BatchPublish`: number, encode or drop, replay ring).
`Loaded` is what `main.rs` read back from the journal: the counter is its largest sequence, the floor that of
a resolved record the forfeit list did not hold, records that `insert` refuses included. `Recovered` is what `insert`
took; its assumption (`RecoveredAssumption`) is the property `RingDistinct` of `Journal`. An
event is its key, its sequence and whether the catalog resolved it; a size
is a number per key.

### WsSession
`Dial`, `SendAvailable`, `RefuseCursor` and `OnFrame` follow `run_upstream`, `websocket_session`, `send_available` and
`on_frame`; `DropSocket` may happen at any time and loses the frames in flight. A
write timeout is a drop with part of the frames written. `parse_frame` is represented by what it
returns, the frame's largest event sequence; the branch of `on_frame` for a frame it cannot read, which keeps the
cursor, is left out, because every frame here is one that `encode_frame` wrote within the limit. A session goes by the last sequence of a
frame and the edge by the largest, and with several sources neither need grow from frame to frame: `Late` names the
frames published after an event at or past their own end, `Overtaken` those that a later frame does not end after.

### EdgeHub and ContiguousFeed
`publish`, `subscribe`, `unsubscribe`, `release` and `kick_tokens` run under one
mutex and are one action each, eviction of full queues included. The writer and
reader of a session step on their own. A frame is its ring offset, so "consecutive
frames" is arithmetic. `ContiguousFeed` only knows the newest frame, where a client
joined and what it received.

### Journal
The file is a sequence of entries. A crash keeps any prefix of what was written but
not flushed and may leave half an entry (`Torn`), at which `load_events` stops;
the history variable `tore` remembers it. Compaction writes a new file from the
ring and may fail after its flush. `Restart` is the recovery of `main.rs`: newest
`Capacity` entries, `insert` one by one, the sequence counter. The replay floor it
computes is part of `Pipeline`'s initial state. The specification is `JournalSpec`, so that `ResumeProofs` can extend it beside `Ingest`.

### Ingest
A racer goes from `down` over `up` to `ended`; its first session never fills a gap,
later ones spawn a walk, in a step of its own: between the subscription and
`GapFill::spawn` other tasks may raise `latest_block`. A walk is a record that moves through head request, cursor
read (back-fill only) and batches. One `eth_getLogs` answer is processed in one
step. `latest` is `latest_block`, raised only by logs the dedup ring did not know.
A back-fill whose request fails starts over; a gap-fill gives up, and the history
variable `given` has the blocks it leaves. The history variable `since` is the head when
the process was first following the chain: every racer has made its first attempt, and a
block was observed (`latest_block` is not 0).

### TokenSync
A heartbeat goes idle, asked, answered, kicking; request or answer may be lost at each point.
`replace` and `kick_tokens` are separate steps, because they take different locks,
and so are the handshake's test and its subscription. Every save may fail.
`overtaken` (the set was replaced between a client's test and its subscription)
and `lost` (the console came back without an unsaved change) are history
variables for the properties. The specification is `TokenSpec`, beside `Forfeit`'s `Spec` in `MirrorProofs`.

### EdgeDrain
Every load, store and swap of `draining`, `drain_exits` and `drain_active` is a step.
The drain task goes test, count, release, back to test, and ends over cancelled or
finished. `MainReturns` (the main task ends after a signal) may happen at any time
after the listener is told to stop, since it depends on axum. `LoopDeadline` is the end of `drain_timeout`.
Two history variables name the two races that lose a drain which is to exit the process: `crossed` (`drain_exits` is stored between `cancel_drain`'s
load of it and its swap of `draining`, and the swap undoes the drain) and `skipped` (the swap of `drain_active` finds the flag of a loop that has read `draining` as false and is about to end).
The next `start_drain` resets them, and an undrain that met no drain sets neither. Its specification is `DrainSpec`
(`DrainInit`, `DrainNext`), so that `EdgeProofs` can extend it together with `EdgeHub`.

### Registry
`Beat` is the whole of `Registry::heartbeat`: the restart rule for `desired_drain`,
the relay exception and `decide_release`, which takes what it hands out off
`pending_release` at once. The answer is then under way until `Apply` or `Lose`.
`status_of` keeps the priority of the code. The admin routes test `is_relay` under
one lock and act under another, so they are `AdminTest` and `AdminAct`; `relay` and
`unrelay` test nothing. `persist` may fail, with the change left in memory. Clients
wait in a lobby and take any node within the spread of the emptiest serving one. `set_note` is there for what it saves: all admin bits, unsaved ones too.
A heartbeat is counted, sent and received in one step; only its answer is under way.
Ratios are integer arithmetic where the code has floating point. `hidden`,
`drainFor`, `asked` and `freed` are history variables.

### CatalogSync
A market's content is the `updatedAt` it was read with. A page of a walk holds one market,
answered at one moment (`Fetch`) and read at a later one (`Read`), so markets can change
under a walk. As `enrichment.rs:508` reports of Gamma, a page may leave out any markets that share the `updatedAt` at which the page before it
ended. `dropped` is the history of it: the markets left out of a task's walks that its cursors keep it from meeting again, until they
change. The watch reads `known_max`, awaits its page and upserts afterwards (`WatchBegin`, `WatchFetch`, `WatchRead`), its pages taken as one, so it too
can put older content over newer. `Listings` is what Gamma may list at first. `Reached`, `Take` and `EndStream` are `sync_incremental`; `EndStream`
leads to `persist_catalog` in its steps: create the temporary file, write, rename,
the two cursors. Reconcile walks without cursors and saves none. A failure in the first pass ends the process, a
later one ends the pass. `raced` (both tasks were persisting at once), `stale` (an older
content was put over a newer one, by a walk or by the watch) and `quiet` are history variables.

### MempoolGate
A transaction is a constant: its calldata as a list of items, its sender and its tip.
`check`, `on_confirmed` and `prune` are operators from gate to gate, because the gate is behind
one mutex. The Wilson bound of `trusted` is squared out to integers. The confirm feed goes from
`start` over `backfill` to `live` and back to `off`; logs are read in any order, chunks may
fail, blocks may be orphaned.

### Forfeit
`apply` and `prune` change `state` and then `index` under two locks, so each is two
actions, and `record_blocked` and its `notify_one`, after the unlock, are two (`Telling` in between). The saver's `Notify` is the one permit it can hold;
told to stop it leaves its loop and saves once more (`last`, `flush`), and the process may be gone before it has. `Publish`, `Amend` and `Failed` are
forfeit-feed, known from the frames the client parses. `overlap` (apply and prune were between their
halves together) and `unsaved` are history variables.

### Alerts
`Round` is a tick of `run_alerts` up to the push; `Sent` and `SendFails` are its
end, and a push that fails may have been shown. `observed` is what `observe` does to
one condition; `push` drops the samples that left the window from the front, as `pop_front` does. Times are ages, capped where no rule can tell the difference, so the
model has no clock and rounds need no bound. All rules are there; the constant
`Watched` says which ones an instance follows.

## 3. Runs

Every run finishes within five minutes on two cores, most within one. Every property has a
mutant, a plausible bug in one mapped definition, under which TLC finds it violated.

| Run | Checks | Instance |
|---|---|---|
| `pipeline` | `DedupWindow`, `DistinctSequences`, `BroadcastOnce`, `ReplayFloorCovers`, `SentIsBroadcast` | 2 sources, 3 keys of different size, all capacities 1, batches of 2, one recovered record, 5 sequences (frames like [3, 2] and [2] after [3] happen, and are evicted) |
| `ws_session` | `NoFrameTwice`, `NoSilentLoss`, `CatchesUp` | 2 sources, 1 edge, frame ring of 2, one recovered record, 5 sequences, sockets that drop until 4 frames were read (frames like [4, 3] and [3] after [4] are lost, repeated and evicted) |
| `edge_hub` | `Gapless`, `ImplementsFeed`, `RemovedIsClosed` | 2 subscribers, 2 tokens, ring 2, queue 1, 3 frames |
| `journal` | `RingDistinct`, `NoReuseUntorn` | 2 sources, 4 keys, ring 3, channel 2, 8 sequences in the first process and 4 and 3 after its restarts (compaction with commands queued), torn entries, 2 restarts (a file appended to behind a torn entry is read again) |
| `ingest` | `NothingSlipsPast`, `CursorForward`, `EventuallySeen` | 1 racer, 3 blocks, two logs in the second, chunks of one block, failing requests, 2 walks, 2 restarts |
| `token_sync` | `VersionNamesSet`, `RevokedAreKicked`, `EdgesConverge` | 1 edge, 2 tokens, 1 client, 3 versions, 2 restarts |
| `drain` | `OneLoop`, `UpgradeHasLoop`, `ExitDrainExits` | 2 clients, limit and batch 1, drains and undrains without bound, admin, signal, 3 drain tasks |
| `registry` | `HiddenStaysHidden`, `DrainOnlyItsProcess`, `NeverOverReleased`, `Settles` | 2 nodes of 2 seats, 2 clients, manual releases of 0 or 3 in batches of 2, 2 admin requests, restarts, losses or lapses |
| `catalog` | `HeldBehindCursor`, `CatalogBeforeCursor`, `ReconcileRepairs` | 3 markets, one without a condition id, both streams, markets with tied `updatedAt` or closed on either side of the lookback, pages that leave ties out, files of an older build or none, 2 further passes or watches, 1 fault |
| `mempool` | `PushedOnce`, `AgreeEarned`, `RoundsForward` | 4 transactions (two multicalls, a conflict, a dispute), 2 senders, 2 rounds, 2 lines, 2 mined, clock up to 3, 1 fault |
| `forfeit` | `IndexMatchesState`, `SavedWhenIdle`, `Learned` | 2 events of 2 matches that share a condition, expiry after 1 tick, clock up to 3, 1 hit, 1 fault (disconnect, failed lookup or write, stop, crash) |
| `alerts` | `NoOrphanRecovery`, `ToldIsTracked`, `GrowthIsReal`, `NoDataNoRecovery`, `ChatSettles` | 11 rules, 1 node, 3 situations, a recovery queue of 7, 1 fault (failed push, lost answer, restart of either side) |

Why these bounds are enough: every ring, queue and batch is at its limit after one
or two elements, so eviction, refusal and back-pressure happen in all of these
runs; two sources (nodes, clients, tokens, tasks) are the least that race, and the
processes of a kind interact only through the shared ring, counter or flags. In `Ingest` one racer and its walks already race for `latest_block`;
any number of racers is left to the proof. In
`TokenSync` one edge is enough because edges do not interact; in `Alerts` conditions
of different keys meet only in the recovery queue, which eleven rules overflow. The counters that
grow for ever (`MaxSequence`, `MaxOffset`, `MaxBlock`, `MaxVersion`, `MaxRestarts`, `MaxBoots`, `MaxStamp`,
`MaxTicks`, `MaxReads`, `MaxNow`, `MaxLines`, `MaxMined`, `MaxCount`) and the faults (`MaxFaults`, `MaxOps`)
are bounded in the guards. Bounds are chosen so that a ring wraps more than once.
Deadlock is checked where the system never stops (`Pipeline`, `WsSession`); elsewhere the
bounds, or a process that ends, stop the model.

### What the code does not keep

Where the models showed that code and comments differ, the property that holds
is stated up to the step that breaks the stronger one, with a history variable or
an instance that leaves it out.

- Two sources. A sequence is taken before the event is sent to the batcher (`pipeline.rs:161`), so two
  sources can put their events into frames in the other order. Frames, sessions and the floor go by the last sequence of a frame, and TLC finds, each by
  dropping the exception named from the property:
  - a frame [2] after a frame [3] is never sent to a session past 3, although `internal/api/llms.txt:172` promises "消息帧采用至少一次投递"
    (frames are delivered at least once): `Late` in `NoSilentLoss`;
  - a frame [3, 2] that is evicted leaves the floor at 2, so a cursor at 2 that missed event 3 is not refused, although `hub.rs:107` calls the floor
    the "Highest event sequence that was broadcast but can no longer be replayed": `Overtook` in `ReplayFloorCovers`;
  - an edge that takes a late frame last resumes from before one it has, and gets that one again: `Overtaken` in `NoFrameTwice`;
  - while the newest frame ends below the floor, `latest` is below it too, and even an edge that dials without a cursor is closed with 1013, until
    a newer frame is published: the second disjunct of `CatchesUp`.
- A torn entry. `Journal::open` (`storage.rs:460`) appends behind the half entry a crash left, at which `load_events` stops, so
  the process after next numbers again from before it, against `CHANGELOG.md:46`. `NoReuseUntorn` is `NoSequenceReuse` until the first torn entry.
- A ring smaller than the channel. `config.rs` reads `EVENT_RING_CAPACITY` and `RPC_LIVE_BUFFER` (`config.rs:186`) without relating them. The defaults, 10000 and 8192, keep
  `NoReuseUntorn`; a ring below the channel and the sources together does not, torn entry or not (section 5, "The counter").
- First sessions. A racer's first session fills no gap (`uma/rpc.rs:168`), and its live logs raise
  `latest_block` over blocks that another racer lost with its socket, from where no gap-fill returns, although `uma/rpc.rs:278` says nothing "can slip past".
  `NothingSlipsPast` is about the blocks mined from the moment (`since`) at which no racer has its first attempt ahead of it and `latest_block` is not 0.
- Blocks with several logs. A gap-fill starts after the newest block of which some log was processed (`uma/rpc.rs:223`), so a socket lost between two logs of a
  block may lose the second; `NothingSlipsPast` and `EventuallySeen` speak of blocks, and block 2 of the instance has two logs.
- Exiting drains that are lost. `edge/server.rs:407` says that a drain which exits the process cannot be taken back. It can, in two races: `cancel_drain` loads `drain_exits` and then clears
  `draining` (`edge/server.rs:410`, `:413`), and an admin drain or a signal stored in between is undone (`crossed`); the loop reads `draining = false` and clears `drain_active` in a second step
  (`edge/server.rs:378`), and a `start_drain` between the two starts no loop (`skipped`). In both the node refuses clients, or serves them again, and does not exit before another drain is started.
  `UpgradeHasLoop` and `ExitDrainExits` except exactly these two, until that next drain; without either exception TLC finds them violated.
- Markets left out. Gamma's pages leave out markets with tied `updatedAt`, the cursor passes them and the incremental walk never returns (`enrichment.rs:508`, `docs/WORKFLOW.md:143`). `HeldBehindCursor` and
  `CatalogBeforeCursor` are about the other markets (`Due`). `ReconcileRepairs` says that a full walk finds all that sync's pages left out, but its own pages come from the same
  Gamma and may leave ties out as well, which only the next full walk can find.
- Overlapping saves. `sync` and `reconcile` write the catalog through the same temporary file (`storage.rs:522`); when they overlap the
  file can be a mixture, or an older snapshot under a newer cursor, against `enrichment.rs:340`. The catalog properties hold up to `raced`.
- An overtaken page. `upsert` takes whatever is read last, so a page answered before a change and read after it, by a walk or by the watch, puts the older content back (`stale`).
- A skipped market is seen again by `sync_newest_markets` (`enrichment.rs:629`) only until a market with a higher id is known.
- `prune` and `apply` between their halves together lose a new condition from the hot index until the next expiry or restart (`overlap`).
- The saver is spawned detached (`forfeit.rs:562`) and `main.rs:201` does not wait for it, so the process may be gone before its last save.
- A failed save of the blocklist is not tried again before the next change (`unsaved`); the back-fill is limited to the events asked for.
- `blocked_before` uses the time the match was listed, so an event broadcast before its condition joined the match counts as held back.
- Edge alerts end in rounds without data: `edge_upstream_down` when the node goes stale, `edge_sequence_lag` when tinyuma cannot be reached,
  although `alerts.rs:268` says no data is not a recovery. `NoDataNoRecovery` is about tinyuma's rules, for which it holds.
- A push whose answer is lost is sent again, and what it told may then be untold (`doubt`).
- The confirm feed of mempool-uma reads nothing back after a reconnect, and a `removed` log undoes nothing.

Other places where the models follow the code and a document or a comment says
more than the code does:

- `cursor_rejected` of `run_upstream` is never cleared after a 1013, so every later dial goes without the cursor; `NoSilentLoss` is about edges that were never refused.
- Events are broadcast before they are flushed, so the replay floor recovered from the journal can be below a cursor a downstream holds.
- `run_backfill` reads `uma.cursor` after live logs may have advanced it.
- A token change whose save fails stays in memory; after a restart its version is given again (`lost` in `TokenSync`).
- A handshake whose token is revoked between its test and its subscription stays (`overtaken` in `TokenSync`).
- A console that never had a token answers at version 0 and sends no set, so the edge keeps its static list.
- `draining` and `max_clients` are tested before the upgrade and the client is counted after it.

## 4. Fairness

- `Pipeline`: weak fairness of each source's own sections and of the batcher, because
  spawned tasks that can run do; strong fairness of `Send`, because a tokio channel serves waiting
  senders in order. The storage writer has none: broadcasting must not
  depend on the disk.
- `WsSession`: weak fairness of the session (a publish wakes it) and of dialling (the loop never gives up); none of the pipeline.
- `EdgeHub`: weak fairness of the writer task; every write is timed.
- `Ingest`: weak fairness of processing, reconnecting, spawning gap-fills and of gap-fills wherever they
  have got to; no fairness of mining or of the back-fill.
- `TokenSync`: weak fairness of asking and kicking; strong fairness of answering and
  applying, that is, of heartbeats sent for ever some get through.
- `EdgeDrain`: weak fairness of callers inside `start_drain` and of the drain task; strong fairness of `LoopDeadline`, because `drain_timeout` passes
  however often the loop goes round, and a loop that finds clients left after it ends. Of the main task's own return none is assumed.
  Clients, operators and the console may do nothing for ever.

- `Registry`: weak fairness of an edge's heartbeat loop (beat, then apply) and of
  clients without a connection, which retry. Nothing is assumed of operators.
- `Forfeit`: weak fairness of the feed session, which redials with a bounded backoff,
  of the saver, and of the service manager that starts the process again.
- `Alerts`: while a situation lasts, the interval ticks; a push ends within its timeout.
- `CatalogSync`, `MempoolGate`, `Journal`: safety only.

## 5. Proofs

For all values of the constants, under the named assumptions of the modules
(capacities at least 1, finite sets of nodes and markets, a recovered ring without
duplicates). `PipelineProofs` covers `Pipeline` and `WsSession`, `EdgeProofs` covers
`EdgeHub` and `EdgeDrain`, `ResumeProofs` `Journal` and `Ingest`, `MirrorProofs` `TokenSync` and `Forfeit`.

| Theorem | States | Argument |
|---|---|---|
| `PipelineProofs!TypeCorrect` | `Spec => []TypeOK` | one lemma per section of `process` and of the batcher |
| `PipelineProofs!DedupWindowHolds` | `[]DedupWindow` | `HubInv`: the ring is the tail of the acceptance history and `keys` its exact index. Without that, `insert`'s test says nothing about the history |
| `PipelineProofs!DistinctSequencesHold` | `[]DistinctSequences` | `SeqInv`: sequences held by sources between `fetch_add` and `insert` are distinct from each other and from the accepted ones, and none is above the counter |
| `PipelineProofs!ReplayFloorCoversHolds` | `[]ReplayFloorCovers`, any number of sources | `FloorInv`: the ring holds the newest published frames, so `publish` raises the floor to the end of the frame it evicts and never lowers it |
| `PipelineProofs!BroadcastOnceHolds` | `[]BroadcastOnce` | `BroadcastInv`: an accepted event is in one place only: with its source, in the channel, pending, in the batch or in a frame; from the channel on it is resolved |
| `PipelineProofs!NoFrameTwiceHolds` | `WsSpec => []NoFrameTwice`, any number of sources and edges | `SessionInv`, see below |
| `PipelineProofs!NoSilentLossHolds` | `WsSpec => []NoSilentLoss`, any number of sources and edges | the same: each frame owed that did not come late is held, on the wire, or in the ring above the session's cursor, or the cursor is below the replay floor |
| `EdgeProofs!GaplessHolds` | `[](TypeOK /\ Gapless)` | `Inv`: types, the ring is a consecutive run ending at the newest frame, subscriptions not yet used are empty, `Gapless` |
| `EdgeProofs!FeedImplemented` | `Spec => ImplementsFeed` | the same invariant; each step maps to a step of `ContiguousFeed` or a stutter |
| `EdgeProofs!OneLoopHolds` | `[](DrainTypeOK /\ OneLoop)` of `EdgeDrain` | inductive with the types |
| `EdgeProofs!UpgradeHasLoopHolds` | `[]UpgradeHasLoop` of `EdgeDrain` | `UpgradeInv`: between `cancel_drain`'s load and swap an exiting drain is `crossed`, and from the store of `drain_exits` on, short of the two races, a caller still has `draining` to store, or `draining` is set and a caller about to swap or a task carries the drain |
| `ResumeProofs!RingDistinctHolds` | `JournalSpec => []RingDistinct` | `JournalInv`: a sequence names one record among those in the load window, the buffer, the channel, the ring and the one just taken, and the window of lines to be read only moves forward. With it, what `Pipeline` assumes of the ring it starts with (`RecoveredAssumption`) is what `Journal` delivers |
| `ResumeProofs!NoReuseUntornHolds` | `Capacity >= QueueCapacity + Cardinality(Source) - 1`: `JournalSpec => []NoReuseUntorn` | `Recoverable`, see below |
| `ResumeProofs!CursorForwardHolds` | `Spec => CursorForward` | the saved cursor is never above the one in memory, which only grows |
| `ResumeProofs!NothingSlipsPastHolds` | `Spec => []NothingSlipsPast`, any number of racers and of logs in a block | `FollowInv`, see below |
| `MirrorProofs!TypeCorrect` | `TokenSpec => []TypeOK` | one step per action |
| `MirrorProofs!VersionNamesSetHolds` | `[]VersionNamesSet` | `VersionInv`, until `lost`: the file is not ahead of memory and with memory's version has its tokens; neither an edge nor an answer under way has a version above the console's, nor the same one with another set |
| `MirrorProofs!RevokedAreKickedHolds` | `[]RevokedAreKicked`, failed saves included | `KickInv`: a handshake not overtaken has a live token |
| `RegistryProofs!HiddenStaysHiddenHolds` | `[]HiddenStaysHidden` | `HiddenInv`: a hidden node is off in memory and in the file. Both are needed: saving another node's change writes all of memory, and a restart reads all of the file |
| `RegistryProofs!DrainOnlyItsProcessHolds` | `[]DrainOnlyItsProcess` | `DrainInv`: a drain is wanted of the process known, and while an answer is under way the process known is the one that runs. Without the second part a drain asked for now would rename the process an answer on its way was meant for |
| `RegistryProofs!NeverOverReleasedHolds` | `[]NeverOverReleased` | `ReleaseInv`: with the types, what is pending, under way and closed is at most what was asked for; `auto_release` is a natural number whatever the sum over the other nodes is |
| `CatalogSyncProofs!HeldBehindCursorHolds` | `[]HeldBehindCursor` | `CatalogInv`, see below |
| `CatalogSyncProofs!CatalogBeforeCursorHolds` | `[]CatalogBeforeCursor` | the same |
| `CatalogSyncProofs!ReconcileRepairsHolds` | `Spec => ReconcileRepairs` | the same: while `quiet`, reconcile holds what it passed and the page it waits for is the next one |
| `MirrorProofs!IndexMatchesStateHolds` | `[]IndexMatchesState` | `IndexInv`, until `overlap`: between the halves of `apply` the index lacks what `apply` is about to put in; between those of `prune` the index to come fits the list |
| `MirrorProofs!SavedWhenIdleHolds` | `[]SavedWhenIdle` | `SaveInv`: without a permit and between no halves, what the saver holds or wrote is the list; `SeqsInv` shows that an event already merged changes nothing |
| `AlertsProofs!NoOrphanRecoveryHolds` | `[]NoOrphanRecovery` | `TellInv`: while a push is under way the engine stands as it did when the message was made; a queued recovery is of something told, and an alert that fired again meanwhile counts as untold |
| `AlertsProofs!ToldIsTrackedHolds` | `[]ToldIsTracked` | the same |
| `AlertsProofs!NoDataNoRecoveryHolds` | `Spec => NoDataNoRecovery` | the types; a rule that was not looked at keeps its condition |
| `AlertsProofs!GrowthIsRealHolds` | `[]GrowthIsReal` | `SeriesInv`: ages fall along a series, and each step up between two samples is at most the real growth between them; the sum over a suffix is then at most the growth over it |
| `MempoolProofs!PushedOnceHolds` | `[]PushedOnce` | `GateInv`, see below: a request of which a proposal was pushed has an `emitted_price` until `prune` forgets it |
| `MempoolProofs!RoundsForwardHolds` | `Spec => RoundsForward` | the same: `latest_round` is the newest round seen, and along the calls of a line it only grows |
| `MempoolProofs!AgreeEarnedHolds` | `[]AgreeEarned` | the same: a price remembered counts as offered and not yet as scored |

**The catalog.** `CatalogInv` has five parts. `Bounds`: no cursor and no page is ahead
of Gamma, so a market that changes is behind no cursor. `Stages`: what is so at each place
of a task. `Files`, until `raced`: the temporary file is of the task that is saving. `CoverInv`, until
`raced` or `stale`, speaks of the cursors at the end of the saves under way (`Goal`, `Limit`), not of the saved
ones: memory, the snapshots and the file have all that these pass but for what Gamma left out (`Due`), and a walk that is half way has
all it passed below its next cursor, while what lies ahead of it is not above the page it waits for, or has changed since.
`ReconInv`, while `quiet`, is the same for reconcile. The exception is as narrow as the code's loss: `Recalled` takes a market out of `dropped` when the cursors of the next walk let it be met again, `Touch` when it changes. The proof first reduces each action to
what it does to each task (`Kinds`), then shows each part kept by each kind.

**Sessions.** With several sources the ends of frames go up and down, so nothing can be said of a cursor and all frames at once. `SessionInv` is said frame by frame: a frame that an edge has, or that is on
its wire, is behind the cursor of the open session unless a later frame does not end after it (`FlowInv`), and a frame it is owed is got, on the wire or after the cursor unless an event at or past its end
was published before it (`OwedInv`). `NumberInv` (batches are numbered in the order they are published) and `ShapeInv` (a frame ends with the sequence of its last event) carry what is needed of the pipeline.

**The gate.** `GateInv` relates the gate to the histories. `OnceInv`: a request has at most one push more than it was forgotten, and
that one only while it has an `emitted_price`, which in turn means that `prune` will count it. `ScoreInv`: the prices of a sender still
remembered for a request (`Held`) are at most the ones it offered, and its score is at most the seed and the sum, over the proposals
that landed, of what was offered and is held no more; a confirmation moves prices from held to scored, `prune` gives them up, so neither can count twice. `FileInv` says the
same of the file, because a restart takes the greater of the file and the seed. `ChainInv`: each log to be read is of a proposal that landed, and these are finitely many.
A line of the pending feed is one step with several calls: `PassStep` shows the invariant kept by one call, `PassedOK` by all.

**The counter.** The next process counts on from the largest sequence among the last `Capacity` entries, so the newest record that was flushed, or a newer
one, has to be among them. `Recoverable`, until an entry is torn: wherever the writing may be cut (`CutsNear`), the newest record up to there is
at most `Slack` entries from the end, and with the records that sources took before it and have not inserted it will still be (`TailNear`). A compaction writes the ring
with commands still queued behind it, so the same is needed of the ring, counted against the other sources (`RingTop`), unless nothing was inserted since the start
(`Fresh`). The bound on the constants is exact: one less (1 command, 2 sources, a ring of 1; 2 commands, 2 sources, a ring of 2) and TLC finds `NoReuseUntorn` violated.

**The gaps.** All racers and walks raise the one `latest_block` from which the next gap-fill starts, so the danger is a block that is
missing and already below it. `FollowInv`: every missing block below `latest_block`, below the cursor or below the next block of a walk is owed by a gap-fill or was given up
(`Passed`, `WalksOK`), and every racer by itself will bring the missing blocks that no gap-fill owes (`Tracked`): they are in its channel, or its socket is lost and they are above all
its channel still has, or its gap-fill is still to be spawned. The second part is needed for the first: a racer may raise `latest_block` to the block at the head of its
channel only because the channel is in the order of blocks (`Feed`), so nothing below it is still to come. A lost socket cuts a suffix off and keeps the
order; a first session would break `Tracked`, which is why `since` waits for it (`Following`).
Assumed of the constants: at least one racer (`config.rs:150` falls back to the required URL), and a start block that is not in the future.

**Induction.** Where a proof needs it (a greatest element, the bound of a finite set, the sum over a
window) it goes through least elements of sets of numbers (`NatLessThanWellFounded`, `WFMin`). A fold or a
recursive function is expanded once a lemma has shown that a function with its equations exists (`QueueExists`, `SumsExist`, `InsertedExists`, `SumExists`, `FlatExists`, `PassedExists`).

Only model-checked:

- liveness (`SentIsBroadcast`, `CatchesUp`, `RemovedIsClosed`, `EventuallySeen`, `EdgesConverge`, `ExitDrainExits`,
  `Settles`, `Learned`, `ChatSettles`): the prover has no ENABLED. Every other property of a run is a theorem.

Type correctness is proved where a proof needs it and left to the evaluation of the model elsewhere.

## 6. What is left out

- Payloads, decoding (`uma/events`), formatting, categories, HTTP views, statistics and logs.
- I/O errors other than a failed compaction, failed saves of tokens, nodes, catalog and blocklist, and failed requests.
- Back-off delays and intervals: a step that waits may happen at any time.
- Chain reorganisations, but for `MempoolGate`, appear only as keys (`removed` is part of an event's key).
- Lag between providers: `Ingest` has one chain, so the head that a walk reads over HTTP is the head the WebSocket endpoints have reached. With an HTTP endpoint that lags behind them a gap-fill would end short of the gap.
- Heartbeat requests under way: a heartbeat is received as it is built; its answer may be late or lost.
- How axum, tokio and reqwest work inside; their channels and sockets are modelled from their use.
- Atomic operations are sequentially consistent, although a few loads of `draining` are `Relaxed`.
- `tools/` and `examples/`, which are separate programs.
- The console's panel feed, which keeps a display ring, and its polling of tinyuma: reads for display.
- `model.rs`, `category.rs` and `config.rs`: conversions, a keyword table and environment parsing, without state or order.
- The binary search for the first block of the seven-day window (a constant of `Ingest`) and the varint walk of `edge/frame.rs`: modelled by what they return.
- mempool-uma's own frame hub is that of `Pipeline`, and the gate is not composed with it.

## 7. Plan

1. Done: the twelve components above, with their runs and the proofs of section 5.
2. Pure algorithms against a reference: the frame walk of `edge/frame.rs`, the
   block search of `uma/rpc.rs`.
