# cryptofeed-rs in TLA+

A TLA+ development kept beside the Rust workspace: modules that model the parts of the
market-data engine whose correctness depends on *order* (of messages, of handlers, of
threads, of crashes), TLC runs that check them on small instances, and TLAPS proofs of the
results that matter most. Paths are relative to the repository (`src/` in PROJECT.json is
the repository root).

## 1. Inventory of the system

| part | state it keeps | operations | talks to |
|---|---|---|---|
| `book` (`l2.rs`) | levels per side, sequence, validity, depth | apply snapshot / change / atomic batch, clear, query | synchronizer, adapters, view plane, event-pulse |
| `book` (`sync.rs`) | sync state, expected sequence, bounded delta buffer with byte and time-span counters | buffer, snapshot-and-drain, live delta, gap, invalidate, resync | adapters |
| adapters (15 session machines) | per-symbol books, request ids, heartbeat and subscription state, live flag | one `on_input` per connected / disconnected / frame / HTTP / timer / control input, returning actions | runner |
| `engine/runner.rs` | lifecycle, timers, pending writes and HTTP, reconnect and stop flags, dispatcher, readiness flag | deliver an input, apply the actions it produced, consume the dispatcher | adapter, dispatch, recording, sinks |
| `engine/live.rs`, `reconnect.rs` | reconnect budget, backoff, stable-live interval | connect, flush, poll timers, read, tear down, back off, stop | transport, runner |
| `engine/control.rs`, `supervisor.rs` | sessions, rolling replacements | subscribe, replace (begin / complete), rotate, query a book, shut down | runner |
| `dispatch` | two bounded queues (batches, system events), overflow policy | push, pop, drain | runner, sinks |
| `sinks`, `daemon/sinks.rs` | one bounded mailbox and one worker thread per sink, outcome counters, health | enqueue, pop, deliver, wait for drain, shut down | dispatch; files, UDP, Kafka, NATS |
| `sinks/spill.rs` | write-ahead spill file, checkpoint, recovered items | spill, recover, checkpoint | a wrapped sink |
| `recording` | frame queue, open segment, rotation and disk-pressure state | enqueue, flush, rotate, drain at shutdown; read back | runner, disk |
| `replay` | cursor over recorded segments, one machine per session | feed recorded inputs back into adapters | recording, adapters |
| `daemon/run.rs`, `state.rs`, `main.rs` | venue tasks, live / stop flags, shutdown watch, readiness | start, restart, stop, drain | everything above |
| `daemon/view` | books rebuilt from events, tapes, profiles, bubbles, depth history | ingest batch / system event, query | sinks, HTTP |
| `analytics` | profile, flow, bubbles accumulators | add trade, roll session, snapshot | view plane |
| `event-pulse*` | contract cursor, windows, features, snapshots, prospective capture | admit input, advance, snapshot, preflight | recording, replay |
| `private` | credentials, login and account streams | login, subscribe, account events, stop | transport |
| `transport`, `model`, `adapter-api`, `facade`, `ffi`, `adapter-testkit` | sockets; value types; traits | I/O, conversions | all |

Behaviours that make it hard: snapshots and deltas race on every venue; a session is
reconnected, resynchronized and stopped at any await point; a bounded queue stands between
each two parts; sinks run on their own threads; the spill file and the recording must
survive a crash between any two writes; batches and system events travel in separate lanes.

Correctness properties looked for, per part:

* books: a live book is the venue's at the sequence it claims, nothing served is a mixture
  of two moments, never crossed; a bounded buffer whose counters are right; fail-closed.
* sessions and live loop: readiness never outlives the connection, a stop always ends the
  loop, no frame is read once a reconnect was requested, connect / disconnect alternate,
  nothing is lost in the dispatcher.
* sinks and spill: first in first out, every accepted item is delivered, dropped and counted,
  or still there; a crash neither loses an acknowledged record nor corrupts what follows.
* recording: what is read back is a prefix of what was accepted; shutdown drains.
* daemon: a shutdown ends every task; an optional venue is restarted, a required one is not.

## 2. Plan

Modules in order; each one is checked before the next begins.

1. `OrderBook`, `BookSynchronizer`, `SyntheticSession` (session + venue + view plane's book),
   with `OrderBookProofs`, `BookSynchronizerProofs`, `SyntheticSessionProofs`. **Done.**
2. `VenueFeed`, `EventLanes`, `BinanceSession`, `BinanceFutures`: REST snapshot bridged with
   buffered range events, request ids, retries, the `pu` chain, and the way of the emitted
   events to the view plane. **Done** for spot and COIN-M; the routed mode
   of USD-M extends `BinanceFutures`.
3. `LiveLoop`: runner + live loop + dispatcher with any session machine. **Done.**
4. `SinkWorkers`: mailboxes, worker threads, fan-out, shutdown with deadline. **Done.**
5. `SpillWal`: write-ahead spill with crashes. **Done**; an abstract reliable queue that it
   implements is still to come.
6. `RecordingPipeline`, `Replay`; `ControlPlane` (rolling replacement); `VenueTasks` (daemon).
7. the other adapters, by protocol family (checksum, previous-sequence, snapshot-first), all
   checked in one run in which the initial state chooses the venue;
   `private`; analytics; event-pulse cursor.

Theorems follow the same order: type correctness and the inductive invariant of each core
module (next: `LiveSequenceStep`, `SpillWal`, `SinkWorkers`, `BinanceSession`), then refinement
of the abstract specifications.

## 3. Modules and the code

**`OrderBook`** (`book/src/l2.rs`) is a library of pure operators on a record with the fields of
the Rust struct. A side maps prices to quantities, 0 for no level. `ApplySnapshot`,
`ApplyChange`, `ApplyChangesAtomic` return the new book and whether the call succeeded, with
the partial effects the code has when it fails.

**`BookSynchronizer`** (`book/src/sync.rs`): one operator per method. The drain of
`apply_snapshot_and_drain` is three operators (`StartDrain`, `DrainOne`, `FinishDrain`) so that
a session can run the loop one iteration per step, and so that a proof about it needs no
induction over the buffer.

**`SyntheticSession`** (`adapters/synthetic/src/session.rs`) is the session between a venue,
which publishes changes and keeps the book after each of them as `truth`, and the view plane,
which rebuilds a book from what the session emits. Snapshots are of any moment of the venue,
deltas any published change, in any order, any number of times, possibly damaged.

**`VenueFeed`** is the venue for range-based feeds: a patch per update id, and events that
cover a range of ids with the last value per level. `Faithful` compares a book with it; of a
depth-limited book it bounds only what is shown, since trimmed levels do not come back.

**`EventLanes`** is what lies between a session and the view plane's book: the dispatcher's
batch lane and system lane, `forward_dispatcher` (`sinks/src/sink.rs`), which empties the first
before the second, and the two places where the live loop calls it (after a frame, after an
idle tick). `turn` says whether the loop is before a read or handles a frame or a tick; `view`
is the view plane's book, `ahead` the same once the queued batches are delivered, `invalidated`
whether a `BookInvalidated` is queued. What a connection queued after its last frame is still
there when the next one begins.

**`BinanceSession`** and **`BinanceFutures`** (`adapters/binance/src/session.rs`,
`coinm_session.rs`) add the session: one action per arm of `on_input`, the snapshot's bridge,
the drain one event per step. HTTP responses may be late, refused, undecodable or missing;
request ids are fresh. The engine answers requests inside `flush_side_effects`; the models let
an answer come at any point of a connection, which includes every point the engine has. A
snapshot also arrives as a text frame when one decodes as such (`SnapshotFrame`): the handler
applies it to the first symbol without matching it with a request. Depth events have the
64 + 24 bytes per level that the code accounts for, and times count from the buffer's first
event, since only times within a buffer are compared.

**`LiveLoop`** (`engine/src/live.rs`, `runner.rs`, `reconnect.rs`) labels the points between
awaits with a `pc`. The adapter is any machine whose reply to each input is one of a set of
action lists, so every adapter's use of the actions is covered. The stop flag is set by
another task at any time.

**`SinkWorkers`** (`daemon/src/sinks.rs`): a producer that fans an event out to the sinks, per
sink a mailbox under a mutex with a condition variable and a worker thread, and a thread that
shuts down. A step is a critical section, a call of the sink or an access to the health
counters: `enqueue` pushes (`PushOne`) and counts the outcome after the mutex is released
(`CountPush`), as a failing worker discards and then counts. The condition variable's check
and wait are one step, which is what the mutex makes them; what `NoLostWakeup` would catch is
a path that changes the mailbox and does not notify.

**`SpillWal`** (`sinks/src/spill.rs`): the file is a sequence of cells, two of magic bytes and
per record a head and one or more of body, so that both the header and a record can be torn.
`Scan` is `scan_spill_file` with `validate_record_len`. `checkpoint_recovery` is split where a
crash matters: flush and sync, rename, directory sync. A process crash loses the writer's
buffer, a power loss also what was not synced and perhaps a rename or a new file whose
directory was not. `acked` holds the records a caller may rely on: a power loss leaves of them
only those acknowledged before a checkpoint that returned Ok (`durable`) or handed out, because
`spill_record` flushes and does not sync. Directory syncs are those of unix; elsewhere
`sync_parent_directory` does nothing and `NoReplayAfterCheckpoint` is not claimed.

The `MC*` modules name the values the configurations use.

## 4. Runs

| run | question | bounds and why they are enough |
|---|---|---|
| `synthetic_exact` | is a live book exact, a served book one moment of the venue, the flag honest, each live step the next change, the buffer within its limits | 3 changes (a gap, a duplicate, an overtaken delta and a locked book each need at most three); each of the three buffer limits is reached alone. The instance has upserts only and no depth limit: deletes and trimmed books rest on the theorems, which hold for every change and depth (`BufferAccounting` and `LiveSequenceStep` do not depend on either) |
| `binance_spot` | exactness across overlapping ranges, late responses and snapshot frames; what the view plane shows; depth-buffer counters; does a session without a book get one or reconnect | 3 update ids (a gap, a repeat and a straddling range), 2 requests, 2 buffered events; a bid, an ask that locks it (a book the session refuses) and the bid's removal; each buffer limit is reached alone |
| `binance_coinm` | the same with two snapshots pending and the `pu` chain | 3 ids, 2 requests, 2 buffered events; `Malformed = {FALSE}`: the locking update already fails the way a malformed one does, and snapshots may be malformed |
| `live_loop` | readiness, input order, budget, final drain, and whether a stop always ends the loop | capacity 4, one reconnect, a machine that uses every action and may answer every response with a request |
| `sink_workers` | order, accounting, honest drain, no lost wake-up, a shutdown that returns | two sinks, three policies, capacity 2, 3 events: one more than fits, with pushes and counts interleaved |
| `spill_wal` | does an acknowledged record survive, can the file be opened, is anything replayed after a checkpoint | 4 records of different lengths, none longer than `MAX_RECORD_BYTES`, against a limit of three |

Runs that end in a counterexample, each recorded under `findings`:

* `synthetic_fail_closed`: a refused replacement snapshot leaves the old book `Valid` and
  served after `BookInvalidated` was emitted (README.md: "fail-closed validation").
* `synthetic_view`: drained deltas are applied but never emitted, and a stale delta is emitted
  but not applied, so the view plane's book differs (docs/ops/ui.md).
* `binance_view`: a `BookInvalidated` that one connection left in the system lane is forwarded
  after the `BookSnapshot` of the next, so the view plane drops a book the session keeps live
  (docs/ops/ui.md). The run keeps to steps the live loop takes in that order (`LiveLoopStep`:
  responses are answered before the loop goes on, no resync is commanded). That the view plane
  never shows *other* levels than the session's is `ViewNeverDiffers`, which holds.
* `live_fill`: connections that end before the first frame or idle tick push status batches
  that nothing forwards, until the dispatcher is full (live.rs: "always drained").
* `spill_dirsync`: when the directory sync fails after the rename, the recovery offsets still
  describe the old file, and a retried checkpoint cuts records appended since.
  This needs a caller that retries after the error; the daemon does not run a stand-alone
  spill sink.

* `spill_reopen`: with `wal_limit_bytes` above `MAX_RECORD_BYTES` (64 MiB) a larger record is
  appended and acknowledged, and every later open refuses the file (spill.rs: "Existing records
  are loaded on reopen").

`AckedSurvive` and `Reopenable` are claimed only until the sink has returned an I/O error:
after a failed write its `BufWriter` still holds bytes that `wal_bytes` does not count, and a
body too large for the buffer leaves a torn record in front of later ones. A file of which
not even the header was completely written (`CrashInOpen`) is refused for ever; it holds no
record, and `Reopenable` leaves it out.

**Fairness.** Only liveness properties rest on it. `NeverStuck` assumes that the venue keeps
sending depth events on an open connection (strongly fair: the loop reaches its read again and
again, not continuously), that the drain loop runs on and that the live loop reaches its
consume; nothing of the REST endpoint; and that resyncs are not commanded and snapshot frames
not sent for ever, each of which drops the buffer whose overflow ends the wait. `StopEnds`
assumes the loop's task is scheduled; every await in it is bounded by a timeout or the stop
poll. The sink run assumes that threads are scheduled and time passes, not that the call of a
sink returns.

Deadlock is checked in every passing run; a loop that has ended stutters by `Terminated`.

## 5. Proofs

`SyntheticSessionProofs` proves, for every set of prices and quantities, every depth, every
buffer limit and every length of the venue's history: `TypeCorrect`, `LiveBookIsExact`,
`QueryableBookIsConsistent`, `ValidBookIsUncrossed`, `LiveFlagIsTruthful`. The assumptions are
those of the modules: prices and quantities are positive, the limits are naturals.

None of the invariants is inductive. `IndInv` adds three facts: `VenueHistory` (each book in
`truth` is the one before it with the logged change), `HeldIsAuthentic` (what is buffered or
being drained is what the venue published under that sequence) and `DrainIsExact` (between two
iterations of the drain the book is the venue's after `last`). The last one is what makes the
drain provable, since the book is then neither live nor valid. `NextIndInv` has a step per
action; the lemmas of `OrderBookProofs` and `BookSynchronizerProofs` say what each operator
returns. `FaithfulStep` carries exactness through a trimmed book.

Only model-checked: `LiveSequenceStep`, `BufferAccounting` (a fold over the buffer, which would
need induction over data), everything about the Binance sessions, live loop, sinks and spill
file, and all liveness properties (fairness and ENABLED are outside the prover's reach).

## 6. Not modelled

Decoding, encoding, sockets, configuration, the CLI, HTTP projections and the UI: a frame or a
call enters a model as its result. Channels without state (trades, tickers, candles). More
than one symbol per session. The parts listed under 6
and 7 of the plan.
