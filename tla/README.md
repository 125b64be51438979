# rpc-plane in TLA+

rpc-plane is a reverse proxy for Solana JSON-RPC: it spreads calls over several
upstream providers, watches their health, fails over, and can race a write over
all of them. This directory holds TLA+ models of its core, the TLC runs that
check them on small instances, and TLAPS proofs. Source paths are relative to
`src/`, so `src/health.rs` is the file `src/src/health.rs` of the tree this
project stands in; line numbers are those of the commit it was written against.

## The system

| Part | State | Operations | Hard about it |
|---|---|---|---|
| Provider health (`src/health.rs`) | per provider: sliding window of outcomes, failure streak, latency EMA, circuit and when it opened | `record`, `record_throttled` under one write lock | outcomes of requests sent long ago and of probes arrive in any order; nothing moves a circuit but a recorded outcome |
| Rate limiter (`src/health.rs`) | one token bucket per capped provider | `has_capacity` (peek), `try_acquire` (spend), `apply_rate_limit` (hot reload) | peek and spend are far apart; a limiter may be replaced under a request that holds it |
| Slot tracking (`src/health.rs`) | slots and their rounds per provider, a ring of the tips of the last 4 rounds, the reference's slots | `health_loop`, `reference_loop`, `snapshots_with_tips` | two writers' locks, three readers' locks, stragglers, failed legs |
| Router (`src/router.rs`) | none | `route` over a snapshot and the config | monitor and config are read separately and may disagree |
| Proxy (`src/proxy.rs`) | per request: the routed list, attempts, kept errors | `handle_rpc`, `sequential`, `broadcast`, `spawn_straggler_drain` | failover, races between legs, client disconnects, late legs |
| Hot reload (`src/main.rs`) | last mtime; swaps clients, monitor entries, config | `watch_config` | three shared structures changed one lock at a time; edits during a reload |
| Telemetry (`src/telemetry.rs`) | aggregator (buckets under one lock), bounded channel of raw events, the flush task's batch, waiters and their signal | `record_*`, `emit`, `flush_task`, `send_batch`, `flush_and_wait` | full channel, a drain between two counts, a signal that arrives during a POST |
| Historical analytics (`src/historical.rs`) | bounded queue, byte budget, drop counters, LRU of calls, windows of counts | `finish`, `worker_loop`, `flush` | back-pressure without waiting, jobs out of order, counters swapped while they are added to |
| Transaction analytics (`src/proxy.rs`, `src/tx.rs`) | decode queue of 1024 | `finish`, the decode worker, `flush`; `decode_request` | full queue, flush behind jobs; three wire formats, damaged bytes, saturating fees |
| Request classification (`src/proxy.rs`) | none | `classify_request` | a batch is routed by a label that leaves names out |
| Shutdown (`src/main.rs`) | | serving ends, then three flushes, each feeding the next | handlers, worker and flush task are still busy when it begins |
| Configuration, metrics, CLI and sockets | | parsing, counters, sockets | no protocol of their own |

A request goes: `handle_rpc` clones the config, takes a snapshot of the monitor
(circuit, score and a peek at the bucket of each provider), calls `route`, and
hands the list to `sequential` or `broadcast`. These look up each provider's
client, spend a token, forward, score the answer (`Outcome`) and record it in
the provider's health, which the next snapshot reads. Beside this run one probe
loop per provider that serves `getSlot`, a loop for the external reference, and
the config watcher.

What makes it correct, part by part: a circuit opens on faults, holds for its
cooldown, and recovers; a cap is never exceeded and a rate change is no fresh
burst; a provider is compared with the slots of its own round; a decision names
nobody who may not serve the request, and the healthy ones alone if there are
any; the client always gets an answer, the best one that was there, and each
answer is scored once; after an edit, config, clients and monitor agree again and
unchanged providers were left alone, and a request loses at most the providers
that changed under it; what analytics and telemetry report adds up to what was
offered to them, also at shutdown; a decoded transaction is the one that was
sent. `PROJECT.json` lists the hazards line by line with the properties aimed at
them.

## Modules

| Module | Models | State and actions |
|---|---|---|
| `ProviderHealth` | `Inner`, `push_sample`, `prune_window`, `hard_error_rate`, `apply_circuit_transitions` | pure functions from one `Inner` to the next; ages in seconds stand for `Instant`s |
| `CircuitBreaker` | one `ProviderHealth` under every order of outcomes | `inner`; `Record`, `RecordThrottled`, `Tick` |
| `BreakerContract` | abstract: what routing relies on of a circuit | `Open`, `LetOneThrough`, `Close`, `Wait` |
| `TokenBucket` | `TokenBucket`, `RateLimiter`, `try_acquire`, `apply_rate_limit` | all buckets ever installed, the current limiter, the handles requests hold; clone, peek, spend, retune, install, uninstall, tick |
| `ProbeRounds` | probe grid, `RoundTips`, `CommitmentSlots`, `CommitmentRounds`, both probe loops | one step per lock taken |
| `SlotSnapshot` | `snapshots_with_tips` and `Inner::drift`, over `ProbeRounds` | the reader's three kinds of locks |
| `Routing` | `classify`, `ProviderConfig::supports`, `route` with its four strategies, filters and degraded fallback | pure; returns the set of possible decisions |
| `Classify` | `classify_request`, over `Routing` | pure; a body is one call, a batch or garbage |
| `TxDecode` | `src/tx.rs`: `Cursor`, legacy, v0 and v1 decoding, `decode_request` | pure; the widths of the wire format are constants |
| `Outcomes` | status and JSON-RPC code predicates, body parsers, `Outcome`, `broadcast_error_rank` | pure |
| `Sequential` | `sequential` for one request | one step per loop turn or answer; `Disconnect` at the await |
| `Broadcast` | `broadcast` and the straggler drain for one request | spawn, join in any order, return, drain; `Panic`, `Disconnect` |
| `HandleRpc` | composition: the end of `handle_rpc`, `Sequential` or `Broadcast` | the request, its answers and its analytics are shared, the rest belongs to one path |
| `Dispatch` | composition: concurrent requests x health x caps x routing | `ProviderHealth` and `Routing` supply the steps; `Route`, `Shed`, `Forward`, `Answered`, `Exhausted`, `Probe`, `Refill`, `Tick`, `Toggle` |
| `HotReload` | `watch_config`, `client_rebuild_reason`, add, remove, caps, swap | one step per lock; `Write` is the operator |
| `ReloadTraffic` | composition: a request's three reads across `HotReload` | `ReadConfig`, `TakeSnapshot`, `TryProvider`, `Refuse`, `Respond` between the watcher's steps |
| `Reporting` | `TransactionAnalytics`, `Aggregator`, `RemoteReporter`, `flush_task`, the end of `run` | handlers: `FinishCounts`, `FinishSends`, `FinishReports`; worker: `WorkerReceives`, `WorkerReports`; recorders: `RecordRequest`, `EmitEvent`; flush task: `TaskReceives`, `TaskTicks`, `TaskNotified`, `TaskDrainsChannel`, `SendEnds`; shutdown: `ServeEnds`, `HistoricalFlush`, `TxFlush`, `PushWaiter`, `NotifyOne` |
| `Historical` | `HistoricalAnalytics` and `AnalyzerCore` | handlers: `Offer`, `Send`, `DropLogical`, `DropReason`; worker: `Analyze`, `FlushMessageReceived`, `IntervalTick`, `Emit`; shutdown: `CallFlush`, `SendFlush`; one step per lock, atomic or channel operation |
| `Sums` | nothing: the sum of a function as the number of its units, for `Reporting` and `Historical` | |
| `*_proofs` | theorems | |
| `MC*` | constants for TLC; `MCRequestBody` also wraps routing and decoding in one step each and holds the reference definitions they are compared with | |

Definitions keep the names of the code. An operator under a comment "Mutant" is
a wrong version of the definition after it; it is part of no specification and
serves to show that a property can fail.

Main abstractions. Time is counted in whole seconds (or ticks) and ages stop
where the code can no longer tell them apart. The f64 latency and score are left
out: routing is checked for every order of scores. Tokens are exact integers
instead of f64. An upstream body is kept as its JSON shape, the code of its
`error` and whether it has a result. In `Dispatch` the strategy is
`failover_ordered`, answers are successes, faults or 429s, and a snapshot is one
step. `Historical` keeps one known commitment beside `unknown`, and of a window
the counters of calls, lifecycles and evictions, not the histograms; all swaps of
a flush after the first are one step. `SlotSnapshot` takes the latest tips in one
step and keeps two of the three commitments, `confirmed` being treated like
`finalized`. In `Reporting` everything that is counted is a tally, how often each
measure was counted, and so are a bucket, an event and a POST; a latency or a fee
is the fact that it was sampled. A drain lists the transaction buckets in any
order, as the hash map does. `TxDecode` keeps the layout byte by byte and shrinks the byte: with
4-bit bytes a u32 is one byte and a u64 two, so TLC walks through whole
transactions. The shrinking must keep what `src/tx.rs:12` relies on, that a
signature count with the high bit set does not fit a legacy packet; that is
`TxDecodeAssumption`. `ReloadTraffic` leaves order, health and cap open: any
routed provider may be tried next.

## Runs

State counts are distinct states; each run takes at most two and a half minutes
on two workers.

| Run | States | What it checks |
|---|---|---|
| `breaker` | 55,169 | Streak, window, stamp and circuit agree in every state (`StreakMatchesWindow`, `OpenIffStamped`, `ClosedBelowTrip`); decisions count no expired outcome (`FreshAfterRecord`); a trip needs a failure (`TripNeedsFailure`); the breaker implements `BreakerContract`; a probed provider that only succeeds ends closed (`RecoversForGood`) |
| `handle_rpc` | 844,662 | Either path of a request. Sequential, over every list of up to four providers, two retries, 16 answers, skips and disconnects: scoring agrees with the broadcast leg's and failovers form a chain (`ReportsWhatHappened`), the synthetic 502 only without any JSON-RPC answer and a history miss only as last resort (`LastResort`). Broadcast, three legs in every order: a success is never masked by a faster error (`SuccessWins`), else the best error is returned (`BestErrorWins`). Both: analytics once, and no leg booked twice (`BookedOnce`), every request is answered and every late leg recorded (`Settles`) |
| `request_body` | 542,864 | Bodies through `classify_request` and `route`, for every health of three providers, every strategy, a config that knows one provider the monitor lacks and the converse: nobody gets a body of which it may not serve every call, also for calls the label leaves out, and every healthy provider that may serve it is named (`RoutesWhoMayServe`; of a batch of several methods, every one without an allowlist, see below); bodies without a write go in the strategy's order (`StrategyDecidesOrder`). Transactions of three formats through the decoder, whole, cut at every byte or one byte too long: what was encoded is read (`DecodesWhatWasEncoded`), and damage is refused or harmless (`DamageIsNotMisread`) |
| `dispatch` | 1,866,852 | Two concurrent requests, a capped provider before an uncapped one, circuits opening under them: a capped provider never starves the one behind it, a degraded request is always dispatched |
| `token_bucket` | 847,832 | No bucket hands out more than one burst plus what accrues, also while reloads replace it under a request; only time refills; a peek is free, also of a limiter that was replaced since it was cloned |
| `slot_snapshot` | 482,050 | Ring entries hold the maximum of their round despite stragglers; a slot is never stored before its round's tip; a slot and its stamp are the leg's last answer and the round of the probe that brought it (`StampMatchesSample`); a snapshot taken lock by lock compares like with like |
| `hot_reload` | 408,864 | Edits at any moment, half-written ones too, and a request that crosses them: structures agree when idle (`AgreeWhenIdle`), unchanged providers keep their health (`UnchangedKeepHealth`), the last edit takes effect (`EditsTakeEffect`), and a request is refused without asking anyone only if every provider of the config it read was dropped or rebuilt meanwhile (`RefusedOnlyByReload`) |
| `historical` | 1,692,060 | Two handlers, the worker and the shutdown: every offered call is in flight, counted or reported, once, and permits come back (`NothingLost`); lifecycles balance (`LifecyclesBalance`) and the LRU mirrors the map (`LruMirrorsState`) although jobs arrive out of the order of their stamps; the shutdown's flush reports all that was accepted before it (`FlushCoversAccepted`) |
| `reporting` | 341,072 | Handlers, decode worker, recorders, flush task and shutdown: whatever was counted is on its way, reported, or an event dropped at a full channel, exactly once (`ReportedOnce`); an event has a decode result for each submission (`WindowsAreWhole`); when the process exits, a POST with everything counted before the final flush has been attempted (`ShutdownReportsAll`), and it does exit (`ShutdownCompletes`) |
| `breaker_throttle`, `dispatch_race`, `dispatch_unprobed` | | violations, see below |

### Bounds, and why they are enough

* `breaker`: a window of 5 samples, 2 s long, cooldown 2 s, trip at 3 failures.
  Samples expire one at a time or together, both triggers (streak and rate) trip
  first in some behaviour, and the circuit goes through several cycles. The
  theorems cover all other values.
* `handle_rpc`: three forwards over four providers leave one list position to
  skip in every place; three legs make a winner, a better and a worse loser; the
  answers have one member per class (for legs, per rank) the code tells apart.
* `request_body`: two names fit a label, so a batch of three methods has one that
  is left out; two scores make ties and order. Transactions have up to two
  instructions out of ten (both budget tags: short, exact, longer than needed,
  largest; an empty and a foreign one), counts of one and two bytes, and for v1
  every combination of the fee's halves, the limit and a bit without meaning.
* `dispatch`: one token, two requests and windows of one sample are the smallest
  fleet in which a snapshot is stale when it is used. Retries are 0, where a
  shed that cost an attempt would show.
* `token_bucket`: two rates, two requests, two installs, three ticks of half a
  second: a request can hold a limiter across a replacement and a retune.
  Proved for all values.
* `slot_snapshot`: entries of the ring with different `round % TIP_ROUNDS`
  never touch each other, so a ring of one entry with two rounds has the only
  interaction there is, a round displacing another or coming too late.
* `hot_reload`: two providers and six configs that differ in one respect each
  (pool, url, cap, methods, provider added or removed), one of them replacing a
  provider by another; one request at a time, since requests do not interact.
* `reporting`: two handlers, one provider and `none`, a decode queue of one, a
  channel of one and batches of two: every queue is full at some time, and the
  final flush is asked for in every state of the flush task.
* `historical`: two handlers, up to three calls (four when the last is a batch),
  a queue of two, a budget of two units, one remembered call and a lifetime of
  one second: every reason for a drop, every transition, both evictions, and jobs
  whose queue order differs from that of their stamps. The handlers are alike, so
  TLC takes them up to permutation.

`handle_rpc` and `request_body` check no deadlock: a request ends, and a
computation is one step. The other passing runs do.

### Fairness

* A forward ends, with an answer or an error: `build_client` gives the client a
  30 s timeout (`src/proxy.rs:37`). Hence weak fairness of the handler, of the
  broadcast's handler and of the drain, which is a detached task.
* Probe loops, the watcher's ticker and time go on; a bucket refills.
* In `reporting`, tasks run when they can and a POST ends by its 10 s timeout
  (`src/main.rs:127`). `tokio::select!` picks among the ready branches at random,
  so a notified branch that is ready again and again is taken: strong fairness of
  `TaskNotified`, whose permit stays stored. That serving ends at all is not
  assumed; `ShutdownCompletes` begins there. Both servers wait for the handlers
  of open connections (`src/main.rs:192`, `src/main.rs:606`).
* In `dispatch_unprobed` clients keep asking; without that a provider that
  nobody asks would refute nothing.
* Nothing is assumed of providers (they need not break or mend), of operators
  or of clients that might disconnect.

## What the code does that its comments or docs say it does not

Each of the first three is a run whose property states the claim and which TLC
refutes.

* `breaker_throttle`: "a rate limit never opens the circuit"
  (`src/health.rs:713`). A recovery leaves the old failures in the window, and
  while the circuit is closed every outcome re-evaluates their rate: three
  failures, a successful half-open trial, then one 429 (or one more success)
  and the circuit is open again. It settles once the failures have left the
  window, which is `RecoversForGood`. The pruning of old successes has the same
  effect.
* `dispatch_race`: at capacity the proxy forwards rather than answer with a 502
  of its own (`src/config.rs:478`). Two requests both see a lone provider's last
  token in their snapshots; the second finds it spent, sheds to nobody, and is
  refused without anybody having been asked. `dispatch` shows that this is the
  only way: it never happens to a degraded request nor with an uncapped
  provider in the list.
* `dispatch_unprobed`: the breaker "probes for recovery, resumes traffic
  automatically" (`README.md:33`). A provider whose `methods` lack `getSlot` has
  no probe loop; once open, with an available peer, nothing ever records an
  outcome for it.

Met while modelling; the models have the behaviour, no run is spent on it:

* `src/proxy.rs:748`: once failures have used up the attempts, a recent
  provider's miss goes to the client although a full provider was not asked;
  `src/config.rs:485` speaks of no false "not found". `LastResort` states what
  does hold.
* `src/proxy.rs:777`: a full provider's retryable RPC error on the last attempt
  displaces a kept miss; `src/proxy.rs:612` says the miss is returned.
* `src/proxy.rs:1105`: a one-element JSON array is read positionally into a
  struct with an `error` field, so the answer to a one-call batch counts as an
  error.
* `src/health.rs:993`: a snapshot copies the ring before it reads the providers,
  so it can see a slot without its round, which `src/health.rs:1102` excludes;
  it then falls back to the latest tips (`LikeWithLike`).
* `src/main.rs:543`: an edit of `methods` does not start or stop a probe loop.
* `README.md:153` says that writes, when not broadcast, go through the failover
  list one provider at a time and don't use the read strategy; `route`
  (`src/router.rs:199`) applies the strategy to them like to reads, so
  `parallel_race` races them. `StrategyDecidesOrder` leaves out every body with a
  write in it.
* `src/config.rs:465` restricts a provider to a set of methods, and
  `src/config.rs:493` lets it serve those. `src/router.rs:167` asks with the
  label, which for a batch of several methods is no method name: a provider whose
  list holds all of them is left out, and if no other is healthy the decision is
  degraded although this one is. `RoutesWhoMayServe` demands such a provider
  neither in nor out.
* `src/config.rs:524` calls `batch_size` the maximum of events per POST; the tick
  and the flush (`src/telemetry.rs:540`) send all there is in one.
* `src/main.rs:196`: the historical aggregates of the last flush pass through
  `emit`, and are dropped if the channel is full; `ShutdownReportsAll` allows for
  it.
* `reporting.buffer_size = 0` is accepted and panics at start-up; `Reporting`
  assumes it is positive.

## What is proved

TLAPS checks these for every value of the constants. Each safety invariant below
needed a stronger, inductive one, which its proof module defines.

`CircuitBreaker_proofs` (assuming natural window, cooldown and trip count, a
positive denominator of the threshold). The inductive invariant is `TypeOK`,
`OpenIffStamped`, `ClosedBelowTrip` and `WindowOrdered` together: the pruning
pops a prefix, so that what is left is fresh only follows from the order of the
window, and the circuit's step needs the stamp. The lemmas follow the code:
`prune_window` returns a suffix and removes all expired samples, `push_sample`
keeps order and types, `apply_circuit_transitions` makes one of the contract's
moves.

* `TypeCorrect`, `StampCorrect`, `ClosedCorrect`: the invariants.
* `FreshCorrect`: no expired outcome is left after a record.
* `TripCorrect`: with a positive `circuit_open_failures`, a trip has a failure in
  the window. With 0 the code trips on the first outcome of any kind.
* `StreakCorrect`: the streak counter, kept apart from the window, agrees with
  it. Pruning drops a prefix, so while the last success is in the window the
  failures after it are; `ShiftedCardinality` relates the counts before and after.
* `Implementation`: the breaker implements `BreakerContract`.

`TokenBucket_proofs`. `NoOverspend` is not inductive: a bucket that had spent its
whole allowance might still hold tokens. `Conserved` bounds what was spent, what
is left and what has accrued but not been credited together by the allowance,
and with `TypeOK` it is kept by every action.

* `TypeCorrect`, `CapHolds` (the cap), `NoFreshBurst` (only time refills),
  `PeekCostsNothing`.

`HotReload_proofs` (assuming that configs are typed and that a listed provider
has a url). `AgreeWhenIdle` says nothing of the steps in between, so the
invariant says for every phase of `watch_config` which providers agree with the
new config already and which still with the old one: `Settled` before the first
change, then `Removing`, `Rebuilding` and `Capping`, each with what is known of
the provider whose client is changed and whose entry is not yet.

* `AgreeCorrect`: clients, entries and config agree whenever the watcher is idle.
* `KeepHealthCorrect`: a reload leaves the health of an unchanged provider alone.
* `RefusedCorrect`: traffic does not disturb the reload, so the invariant holds
  under `TrafficSpec`; `TrafficInv` adds that a provider which every config
  applied since the request began keeps is in the old and the new config with
  the inputs the request read, and is not lost to it.

`SlotSnapshot_proofs` (assuming a positive ring size). The invariant adds to the
checked properties that an entry of the ring holds a round of its own residue
and that nothing was reported for a later one (`RingInPlace`), and that a probe
which has observed its round, or stored its slots, has moved the ring that far
(`ObservedReached`, `StoredReached`).

* `RingCorrect`, `RoundBeforeSlotCorrect`: the probes' side.
* `StampCorrect`: a slot and its stamp are together the last answer of their leg.
  `sampled` notes that answer when it arrives, with the round the clock showed at
  the probe's tick; `slots` and `rounds` are written two locks later. In between
  the probe carries both, which is what `ProbeInPlace` and `AnswerCarried` add.
* `LikeWithLikeCorrect`: the reader's side. Its copy of the ring was true when it
  was taken, and maxima only grow (`BookBelowMax`).

`HandleRpc_proofs`, for lists and races of any length. On the sequential path
the invariant says that attempts count the forwards (`Counting`), that the next
failover is blamed on the provider asked last (`Blaming`), that every position
passed was asked or skipped (`Visiting`), and that the kept miss or error is all
the loop needs to remember (`Remembering`). On the broadcast path it says what
is known before and after the winner is decided. `HandleInvariant` joins the
two: the path is chosen once.

* `ReportsCorrect`, `LastResortCorrect`: the sequential path.
* `SuccessWinsCorrect`, `BestErrorCorrect`: the broadcast.
* `BookedOnceCorrect`: both.

`Dispatch_proofs` (assuming that the config lists at least one provider and none
twice, as `Config::validate` does).

* `SortStable`: `sort_by_score` lists every element once, no worse one ahead of a
  better one, equal ones in the order they had. Ranks number a finite total
  order without gaps (`RankOnto`).
* `RouteCorrect`: `route` names exactly the available providers that `supports`
  admits, each once, under every strategy and for every fleet, health and config.
* `OrderCorrect`: it names them in the strategy's order, writes too unless they
  are broadcast. A filter keeps the order
  of what it filters (`RetainPicks`), and so does a filter of a filter, so ties
  are in the order of the monitor's snapshots; the failover order walks the
  config, and who is not in it comes last.
* `CappedCorrect`, `DegradedCorrect`: concurrent requests, with `DispatchInv`: a
  request that has asked nobody has spent no attempt and was only shed behind
  the gate, so it runs out of providers and not of attempts.

`RouteCorrect` and `OrderCorrect` say of `route`, for all fleets and configs, what
`supports`, which compares labels, and the strategy make of it.
`RoutesWhoMayServe` and `StrategyDecidesOrder` compare it with what the docs say
of the calls of a body; they take the body through `classify_request` and stand
in the module of the decoder, which is out of the prover's reach. A score is any
integer: only its order matters, and a NaN score is outside the theorems as it is
outside the model.

`Historical_proofs` (assuming finitely many handlers, positive limits, and of a
job that a single has one call and a batch parses at most as many calls as it
has). The invariant says that the map, the LRU and the capacity fit together
(`Bounded`), that the lifecycle counters balance with the map, and that the calls
accepted are those counted and those in the queue (`Accounted`): some sequence of
partial sums runs along the queue from what is counted to what was accepted, and
at a flush it has reached what was accepted before the flush was called. So when
the worker takes the flush, all of that is counted; `EmitTotals` shows that the
event takes all of it, since a window that is not told about holds no calls.

* `LruCorrect`: map and LRU mirror each other within `state_capacity`, also when
  jobs come out of the order of their stamps.
* `LifecyclesCorrect`: `ProcessFacts` and `EvictFacts` show that analysis,
  expiry and eviction keep what the counters owe to the map.
* `FlushCorrect`: the shutdown's flush covers what was accepted before it.
* `NothingLostCorrect`: every offered call is with a handler, in the queue,
  dropped and counted, or analyzed, and every permit of the byte budget is free,
  with a handler or in the queue. `LossInv` adds to `HistoryInv` what a handler
  holds by its place (`Holds`) and that the swapped drop counter is empty unless
  a flush is under way. Sums over handlers and over the queue change by one term
  in each step (`HandlerSums`, `QueueAppended`, `QueueTaken`).

`Reporting_proofs` (assuming finitely many handlers, providers and decode errors,
labels that do not collide, and positive capacities, which `mpsc::channel` asks
for). The invariant has four layers, each proved from the ones before it.

* `ControlInv`, the theorem `ControlCorrect`: who can be where together. The
  handlers have ended before the shutdown begins (`MoversInv`); the decode queue
  holds one flush, last, only while `run` waits for it, and afterwards queue and
  worker stay empty (`QueueInv`); a permit or a flush branch exists only while
  `run` waits, and the waiter is registered from `flush_and_wait` to the exit
  (`FlushInv`); the batches and buckets that are empty in which phase
  (`PlacesInv`).
* `OnceInv`, for `ReportedOnceCorrect`: measure by measure, what was told is the
  sum over nine places. Each action moves an amount from one place to another or
  adds it to `told` and to one place. The drain moves all buckets into the batch
  in some order, which is a bijection and does not change a sum.
* `WindowInv`, for `WindowsAreWholeCorrect`: an event is only looked at once it is
  in a batch, so the invariant says the same, with the provider's label, of the
  buckets and of what the handlers and the worker are about to add to them.
* `DueInv`, for `ShutdownReportsAllCorrect`: from the final drain to the exit,
  where all that was due is; with `OnceInv` the rest is in places that
  `ControlInv` shows to be empty.

A sum is the number of units there are to count (`Sums`), so that what a changed
term, an appended or removed element, a permutation or a split does to it follows
from the library's facts about cardinality, without induction. Both proof modules
that need these lemmas state them.

Only model-checked:

* Liveness (`RecoversForGood`, `Settles`, `EditsTakeEffect`, `ShutdownCompletes`):
  fairness is out of the prover's reach.
* `DecodesWhatWasEncoded` and `DamageIsNotMisread`: the decoder is recursive over
  the bytes.
* `RoutesWhoMayServe` and `StrategyDecidesOrder` as they stand, that is
  together with the classification of the body; of `route` alone see above.

`Routing` writes `filter` as `Retain`, by ranks, where `SelectSeq` would do: its
recursive definition could not be proved about.

## What is not modelled

* The health score and the latency EMA: f64 arithmetic without state of its own;
  routing is checked for every order of scores instead.
* JSON, base58, base64 and TOML as text. Bodies, answers and configs enter as what
  the code reads out of them; the rules of `validate` are kept by the instances.
* The cut of a method label beyond 128 bytes.
* Percentiles and histograms in telemetry and historical analytics, and what both
  workers would do after their channels closed: the senders live as long as the
  process.
* Metrics other than the transaction counters, except as histories of what was
  recorded; the scrape.
* Sockets, TLS, HTTP/3, signals and the command line.
* Providers joining and leaving while a probe of theirs is under way, and where the
  outcome of a request is recorded that was dispatched before a rebuild.

## Plan

Done, in this order: the breaker with its contract and proofs; outcomes, the
sequential path and broadcast; routing; the composition `Dispatch`; the token
bucket with proofs; probe rounds with the snapshot reader; hot reload; historical
analytics; reporting and the shutdown; the composition `HandleRpc`; classification
and the transaction decoder; requests across a reload; then the proofs about hot
reload, the snapshot, `HandleRpc`, routing and dispatch, the streak of the breaker,
historical analytics and reporting.

Every safety invariant and action property that a passing run checks is now a
theorem, except for the decoder's and the classification's. What remains would be
to widen the models: a provider that is removed or rebuilt while a probe or a
request of its own is under way, and the f64 arithmetic of the health score.
