# TLA+ models of hft-lead-lag

`hft-lead-lag` receives book tickers of the same symbols from Binance and Gate,
looks for moves of one that lead the other, and trades them: on paper in fleets
of parameterised shadow traders, and through a (simulated) execution queue.
This directory holds TLA+ models of it, the TLC runs that check them and the
TLAPS proofs about them. Paths below are relative to `src/hft-lead-lag/src/`,
those of the ray driver to `src/hft-lead-lag/`.

## 1. The system

| Component | Code | State it keeps | Operations | Interacts with | Model |
|---|---|---|---|---|---|
| Start-up | `main.rs`, `runtime_symbols.rs`, `runtime_setup.rs` | chosen symbols, what was subscribed | fetch tickers, select, connect, subscribe, run | REST, adapters, everything it starts | `Startup` |
| Exchange adapters | `infrastructure/exchanges/` | sockets, subscription registries, bounded channels | receive, subscribe, reconnect and replay, drain | exchanges, event loop | `Feed` |
| Event loop, signal tick | `event_loop_runtime.rs`, `event_loop_core.rs`, `event_loop_ingest.rs` | pending symbols (bitset, count, cursor), stage timestamps, health flags | batch of tickers or error of an exchange, signal tick under a budget | offers updates to the control plane and intents to the execution queue | `SignalLoop` |
| LeadLag strategy, clock offsets | `application/services/lead_lag.rs`, `domain/screener/clock_offset.rs` | latest books, windows of offset samples | book updates, `check_signal` | event loop | `LeadLag` |
| Execution queue | `event_loop_execution.rs` | bounded channel, overflow lane, depth counter and gauge, kill switch, streak | `try_enqueue` (loop thread), worker task: receive, flush tick, send with timeout | event loop, health endpoint | `ExecutionQueue` |
| Control plane | `event_loop_control.rs`, `domain/screener/state.rs` | bounded channel, overflow lane, depth counter, pending map | `try_enqueue`, worker thread: receive, drain, flush, stop | event loop, screener, WebSocket | `ControlPlane` |
| Shadow fleet and traders | `domain/screener/shadow_fleet.rs`, `shadow_trader.rs`, `quote_ingest.rs` | positions, orders, trade deques, disabled flags | quote, tick, fill, close, drain, prune | screener | `ShadowTrader`, `ConfigPolicy`, `ShadowFleet` |
| Trial runtime | `runtime_hot_reload.rs`, `trial_batch_apply.rs`, `domain/screener/fleet_reload.rs`, `mod.rs`, `api/handlers.rs` | installed configs, fleets, active run, candidate history, `trial_runs_meta` | batch, control and grid loops, fresh start, ticks, pruning | screener, database, files | `TrialRuntime`, `FleetPatch` |
| Runtime grid | `runtime_grid.rs` | the file's settings, a pending generation | read, generate, sample | grid loop | `RuntimeGrid` |
| Portfolio engine | `domain/screener/portfolio_runtime.rs`, `mod.rs` | shortlists, owners, guards, paper state | record trade, rebalance, restore, fresh start | screener, database | `PortfolioEngine`, `Portfolio` |
| Database writer | `infrastructure/db.rs` | five staged channels, sequence numbers, trade buffer, pending flushes | enqueue, forwarders, worker, `flush_all` | screener, batch loop | `DbWriter` |
| Trial queue, acks, archive | `trial_queue_io.rs`, `trial_batch_protocol.rs`, `file_fingerprint.rs` | queue, archive and ack files | list, apply, acknowledge, archive, quarantine, restart | batch loop, ray driver, runner | `TrialQueue` |
| Runner | `api/runner.rs` | one active job, history, log | start, stop, status, scout and forward job, finish | HTTP, ray driver, trial queue | `TrialRunner`; its batch in `TrialQueue` |
| Ray driver | `ray_driver/` | batches, ack waits, file of references | submit, wait, clear, merge references | trial queue, runner | `RayDriver`; its batch in `TrialQueue` |
| Screener store caches | `domain/screener/catalog_cache.rs` and others | rows cache, catalog | rows, prune | HTTP | pruning in `TrialRuntime` |
| REST, enrichment, replay, HTTP views | `infrastructure/`, `api/` | caches, files | I/O | everything | inputs of `Startup`; else section 7 |

How they interact. Each socket has a task that writes what it receives into its
exchange's channel. One task runs the event loop, which drains these channels. It
never blocks on its consumers: an update goes into the control plane's channel or
overflow lane, an intent into the execution queue's. The control-plane worker is
an OS thread of its own and the only caller of `ScreenerStore::update`, which
ticks the fleets and accounts their closed trades to the portfolios; the
execution worker is a tokio task. Three watch loops (trial batch, trial control,
runtime grid), the portfolio scheduler and the HTTP handlers are further tasks
that change the screener while the control-plane thread ticks it. What they share
is a set of atomics, concurrent maps and mutexes, and one read-write lock,
`fleet_patch_gate`, that an update holds for reading and a fleet patch for
writing. The active run id is under no lock. The runner and the ray driver reach
the trial loops through files only.

What is hard here, and hardly reached by the repository's tests, is listed with
its source line in `PROJECT.json` under `hazards`: counters maintained by two
threads; acknowledgements and clear requests that cross timeouts, stops and
crashes through files; values published after they went stale; two lanes that
reorder one stream; a kill switch that must neither leak old orders nor stay on;
a bitset whose count and cursor must agree with its bits; the check-then-act
sequences of the hot-reload actors, which await the database between reading the
active run and changing it; trades counted from the end of a deque that is
trimmed; assignments made of candidates collected before the lock was taken;
subscriptions written while connections are lost; a job whose exit, output and
stop arrive in any order.

## 2. Modules

| Module | What it models | Composes |
|---|---|---|
| `ExecutionQueue` | the hand-off of intents; 2 threads, every shared access a step | - |
| `ControlPlane` | the hand-off of updates; 2 threads | what is offered to it is what `SignalLoop` receives |
| `SignalLoop` | the event loop's task: batches in, checks out | its checks are `LeadLag`'s, and decide the intents `ExecutionQueue` is offered |
| `TrialRuntime` | 4 actors and the ticking thread over the screener's run and fleet state | - |
| `RuntimeGrid` | operators: from the grid's file to configs | - |
| `FleetPatch` | 3 loops, quotes and the file over the installed configs, config by config | extends `RuntimeGrid`; run ids and trades are `TrialRuntime`'s |
| `ShadowTrader` | operators: a tick of one paper trader | - |
| `ConfigPolicy` | operators: a config's decayed policy window and its gate | extends `ShadowTrader` |
| `ShadowFleet` | a symbol's quotes, its fleet, the draining of closed trades and the policy | extends `ConfigPolicy` |
| `PortfolioEngine` | operators: candidates, ranking, dealing, guards | - |
| `Portfolio` | worker, scheduler, fresh start and restart over the portfolios | extends `PortfolioEngine`; what it persists goes through `DbWriter` |
| `DbWriter` | the channel chain, its forwarders, the writer task, `flush_all` | its flush is an await of the actors in `TrialRuntime` |
| `TrialQueue` | 2 clients, the batch and control loops, and the files between them; crash and restart | its `DecideBatch` is the `apply_trial_batch` whose steps `TrialRuntime` has |
| `Submissions` | abstract: what a submission is promised | implemented by `TrialQueue` |
| `RayDriver` | scout processes and the file of references | its submissions are a client of `TrialQueue` |
| `TrialRunner` | HTTP callers, jobs, child processes and their output | extends `RayDriver` |
| `Feed` | sockets, channels, reconnection and replay | its drains are `SignalLoop`'s batches |
| `Startup` | from the ticker replies to the running loop | extends `Feed` |
| `LeadLag` | clock offsets, books, the decision on a signal | what it reads is what `Feed` delivers |
| `*Proofs` | theorems, checked by TLAPS | `TrialRuntimeProofs`, `FleetPatchProofs` and `StartupProofs` extend the module of that name; four extend several, whose definitions have names of their own for that (`WriterSpec`, `SignalSpec`, `RunnerSpec`, `PortfolioSpec`): `QueueProofs` extends `ExecutionQueue` and `DbWriter`, `MarketDataProofs` `ControlPlane`, `SignalLoop` and `LeadLag`, `TrialJobProofs` `TrialQueue` and `TrialRunner`, `PaperTradingProofs` `ShadowFleet` and `Portfolio` |
| `FoldTheorems` | lemmas about sequences, folds and orders | extended by the proofs about lists |
| `MC*` | values of the constants for TLC | extend the module of that name (`MCStartup` checks `Feed` too, `MCTrialRunner` `RayDriver`) |

Reading a module: `pc`-like variables (`txPc`, `workerPc`, `batchPc`, ...) say
where in its function a thread is; an action's name is the code's step; the map
in `PROJECT.json` gives the lines each definition stands for. Definitions named
`Op_Something`, which come right before `Op`, are mutations of it: the way a
plausible bug would change it. Nothing uses them in a specification; each run's
properties are validated by replacing `Op` by one and seeing the property fail.
Every module has a type invariant. Most are not in the configurations: they hold
on the same instances and can be added to them, and those of seven modules are
theorems.

### ExecutionQueue

`try_enqueue` is a sequence of atomics: test the kill switch, raise
`queue_depth`, publish it, `try_send`; when the channel is full, lower the
counter, load it, publish it, and replace the symbol's intent in the overflow
lane. The worker pops the overflow lane first, otherwise `select!`s between a
received intent (lower, load, publish, process) and the flush interval (recover,
load, publish). `process_intent` recovers the switch when the cooldown is over,
drops the intent when the switch is on or the intent is stale, and sends it under
a timeout; a streak of timeouts trips the switch. Time is a counter `now`; a
decided intent is its symbol and the time of the decision. The model assumes
`MaxAge < Cooldown`, as in the defaults (250 ms and 5 s); both can be set from the
environment, and with a larger age limit `NoPreTripIntentSent` does not hold.
The branch for a closed channel is left out: `run_event_loop` returns `!` and
holds the sender. A poisoned mutex is left out here and in `ControlPlane`.

### ControlPlane

As above, but the worker merges what it receives and what it drains from the
overflow lane into one map per (symbol, exchange), and flushes it to the
screener. An update is its key and a version, the number of updates offered for
the key so far. `Accepts` is `SymbolState::ingest_quote`'s test against older
quotes. The worker may fail to start (its tokio runtime cannot be built), and the
sender may be dropped. The depth gauge is a copy of the counter and left out.

### SignalLoop

`PendingSymbolSet` with its bits, allocated words, count and cursor; an exchange
tick marks the batch's symbols; `handle_signal_tick` pops and checks up to
`Budget` symbols. A tick's handler and the loop are one task, so a batch is one
step, and the signal loop has a step per check. What `check_signal` decides does
not change this state. An error of `recv_book_ticker` means its channel is closed
for good: no tick of that exchange follows.

### TrialRuntime

A set of configs is the generation number of the patch that installed it; a
fleet is the generation it was built from and the run ids of its open positions.
A tick creates the fleet, closes some positions and opens one with the current
run id; if trades closed, two more steps account for them: reading the active
run, and adding to the candidate history. Patches wait for ticks (`GateFree`),
as the write lock does. `set_run_id` is two steps. Batches, clear requests, grid
reloads and fresh starts await the database between their steps, and every
statement on `trial_runs_meta` may fail, which the code only logs. `Prune` is the
removal of a stale symbol from the catalog, which HTTP readers do without the
gate. `promised`, `carried` and `left` are history and bound variables.

### DbWriter

A `send*()` takes a number, tries the channels in turn (a step each), and raises
`enqueued_seq`. A channel is the sequence of all commands it has accepted; those
beyond its capacity are the `send().await`s that wait for room, which tokio
serves in order, so `try_send` succeeds only below the capacity. Forwarders have
a step for receiving and one for sending, because a command in a forwarder's
hands is where the reordering happens. The writer handles one command per step:
the handler shares nothing but the channels and the flush answers it ends with.
Every transaction may fail. The database may fail to open, which closes the
chain from its front; dropping the last handle closes it from its back. The rows
are left out: a batch is its number and kind, the database the set of numbers
whose trades were written and the number of the snapshot it holds. The overflow
and watchdog gauges, which nothing reads back, are left out. `owed`, `ahead`,
`observed` and `writeFailed` are history variables.

### TrialQueue and Submissions

Two clients use the queue: the runner's forward job, inside the process and one
at a time, and the ray driver, outside. Each queues a payload (written under
another extension and renamed: one step), polls for the acknowledgement of its
submission id, which it removes, lets the run trade, and asks for the run to be
cleared through `trial-control.json`; it may give up at its deadline, and the
runner's job may be stopped at any time. A submission is its rank by the
timestamp in its id, and stands for its run too, because each submission comes
with a new run id. The batch loop first archives what an earlier life left in the
queue, then decides, acknowledges and archives the oldest payload. Archiving
falls back to a stash and to a quarantine marker; only for payloads in
`Immovable` may all three fail. Every write of an acknowledgement or of a clear
request may fail. The control loop remembers a changed fingerprint
(`control.new`) before it reads the file, and takes a file found at start for
seen. `controlTmp` is the one temporary name both clients rename from. `Crash`
ends the process, with the job in it, and starts it again; the files, the
acknowledgements and the driver go on.

`apply_trial_batch` and the clearing of a run are one step each here; what
happens inside them is `TrialRuntime`. The histories are `decision` (what
`apply_trial_batch` returned), `stuck` (payloads that could neither be moved nor
marked), `old` (what was queued at a crash) and `excused`: submissions whose
client ended before it knew of the batch's fate, and clear requests that failed,
were overwritten in the control or the temporary file, or were found at start.

`Submissions` is what the protocol promises, without files: a submission is
queued, then applied, rejected or discarded, once; its answer comes after the
decision, agrees with it, and is taken at most once; nothing is promised any more
once its payload is stuck. `StatusMap` and `AnswerMap` are the refinement mapping.

### RuntimeGrid and FleetPatch

`RuntimeGrid` follows the file to its configs: serde's defaults, the points of each
axis with their rounding, the combinations without repetition, the sample at a
fractional stride with its second pass, each a fold as in the code, and
`TraderConfig::validate`. A config is
the tuple of its points; the run has two axes for the seven of the code. `FleetPatch`
has the installed configs as a set of ids and each fleet as the set of ids it
trades, or `{}`. The batch loop writes the configs row by row, patches, and signals
the grid loop through a bounded channel; the grid loop drains that channel, reads
the file when it changed, decides under its apply interval, writes and patches; a
fresh start reads the installed configs and installs them again, in two steps. No
lock is held from one step to the next.
A write may fail after any number of rows. A grid generation with an invalid config is
refused by the patch, which leaves the store as it is and gives the gate back; only then
does `replace_fleet_configs` panic, and the grid loop's task ends (`gridPc` "dead") with its
pending generation and the receiver of the reset channel. Quotes, batches and fresh starts go
on. That is what a build with unwinding does; the release profile has `panic = "abort"`
(`Cargo.toml:23`), where the process ends there: a behaviour that goes no further, which
the specification, without fairness, allows too. `scoped` is a history variable: a patch with a scope was applied since
the last full one.

### ShadowTrader, ConfigPolicy and ShadowFleet

A trader is a record, and a tick a function of that record, the quotes, the gap
signals and the active run. All of `tick_with_context` is there: freshness, warm-up,
spikes, the pending order with its fill delay, stop, target, trailing stop, timeout
and early stop, fees, cooldown and the deque of trades, trimmed by time together
with the deque of their run ids. The averages over price samples are inputs.
`ShadowFleet` ticks all active traders of a symbol with each accepted quote, takes the
new trades from the end of each deque, and disables traders for their losses or for
want of trades. A tick carries the event time plus the median offset of its exchange,
so that ticks may go back in time: event times are within one unit of the latest, and
each median may change. `set_run_id` comes between two updates. `reported` and
`decided` are history variables. Each closed trade also weighs in its config's policy
window (`ConfigPolicy`): of the three windows the code keeps, the 6-hour one the gate
reads, with sums that are divided by `Shrink` of the time gone by where the code multiplies by a
power of e: like it, `Shrink` of two times is that of their sum, and a trade weighs enough
(`Unit`) for the quotients to be exact. The gate
is asked with the wall clock, which may be behind the corrected time of the last trade.

### PortfolioEngine and Portfolio

`PortfolioEngine` has the pool of candidates, their ranking, the deal of shortlists
and active symbols without overlap, and the guard's two streaks of stop losses.
`Portfolio` has two threads over it: the control-plane worker, which first adds closed
trades to the candidates' accumulators without the mutex, then records guards and
paper money under it, then sends the snapshot; and the scheduler, which first collects
candidates, then assigns, then sends. A fresh start clears everything but the
database, a restart restores guards, assignment and paper money from the snapshot and
candidates from the trades. Time is counted in rebalance intervals, and no step of a
thread takes any. `HistoryIsLongEnough` is the assumption that the history of
assignments spans the longest hold: in the code 64 snapshots, two minutes apart.
`everAssigned`, `since` and `newest` are history variables.

### Feed and Startup

A socket's task is one `select!` loop: it takes frames, writes the subscriptions it
is sent (recording each before the write), notices the loss of its connection, waits,
connects anew and replays the record message by message, while the network may fail
between any two of these. A ticker that finds the exchange's channel full is dropped.
The event loop drains a channel and keeps the latest ticker of each symbol. Tickers are
their symbol and a count. `Startup` gets there: it chooses the symbols from the two
replies (filtered, reconciled, without the blacklist, by volume, capped), connects both
exchanges, opens a Binance socket per chunk, subscribes, and discards what came before
the loop runs. Every call may fail: some end the program, a failed Binance batch is only
logged (`batchFailed`). A half-open connection that never errors is not modelled.

### LeadLag

The books of both roles, the estimator of each exchange's clock (bounded window, bounded
samples, median recomputed every few samples) and `check_signal` with its early returns
and its two executable spreads. Clocks are a constant apart and delivery takes at most
`Jitter` (`ClocksAreSteady`); books are not crossed (`QuotesAreSound`). Prices and times
are integers. The configuration may name one exchange twice, which falls back to the
default roles.

### TrialRunner and RayDriver

A start request looks at the active job under the mutex, validates files without it, and
looks again; a stop takes the sender of the job's channel and uses it. A scout is a child
process whose output two tasks read; its own task waits for the exit or the stop,
kills the child, awaits the readers and finishes the job: as stopped, by its exit status, or
as failed when waiting for it failed (`Outcomes`). The readers end with the child's pipes, which no
other process holds, or at a line that is not text, after which the rest is lost. A forward job selects configs
from the references and the table, queues its batch, and stops, fails or ends its budget;
what becomes of the batch is `TrialQueue`. `RayDriver` is the child: it loads the references
(a torn file counts as none), submits, queries what the run earned, merges (the trades of each
config added up, the configs ranked by their mean profit) and rewrites the file in place: first
empty, then whole. It may fail or be killed between any two steps.

## 3. Runs

| Run | Constants | States | Checks |
|---|---|---|---|
| `execution` | 2 symbols, channel of 1, streak 2, cooldown 2, age 1, 3 intents, time 4 | 441k | `DepthNeverDrifts`, `EveryIntentAccounted`, `NoPreTripIntentSent`, `KillSwitchRecovers` |
| `control_plane` | 2 keys, channel of 2, batch 2, 5 updates | 50k | `LatestWinsWithoutOverflow`, `EveryKeyApplied` |
| `signal` | 5 symbols, 2-bit words, budget 3 | 4.7k | `BacklogNeverOverstated`, `EveryMarkedChecked` |
| `trial_runtime` | 1 symbol, 2 runs, 2 batches, 1 each of clear, grid, fresh start | 2.1M | `FleetHasCurrentConfigs`, `NoTradesOfReplacedFleet`, `ActiveRunIsOpen` |
| `fleet_patch` | 2 symbols, 8 ids, 5 files, 1 each of batch, edit, fresh start | 344k | `UnscopedPatchesConverge`, `TradedConfigsAreDurable`, `PatchTouchesItsScope`, `GenerationSamplesItsGrid` |
| `shadow_fleet` | 1 config, 1 run, 2 books, 3 gaps, event times to 5 | 113k | `EveryCloseReported`, `NaturalKeysDiffer`, `ReportedUnderEntryRun`, `NoPositionOutlivesItsHold` |
| `portfolio` | 2 portfolios, 2 symbols, lists of 1, history of 2, 3 events, time 2 | 596k | `NoOverlap`, `SettledIsDurable`, `CooldownRespected`, `PaperFollowsTheEntry` |
| `db_writer` | 2 producers, 2 channels of 1, 1 flush, 3 numbers | 640k | `DropsCounted`, `TradesSurvive`, `ShutdownDrains`, `SnapshotNeverOlder` |
| `trial_queue` | 2 submissions, one a scout that takes over, one immovable, 1 crash | 362k | `Implements`, `StaleNeverApplied`, `RunEndsWithClient`, `QueueDrains` |
| `runner` | 2 callers, 2 jobs, 2 cycles, 1 line, log of 2 | 701k | `OneJobAtATime`, `FinishedLogIsComplete`, `StopEndsTheJob`, `ReferencesAccumulate` |
| `feed` | 3 sockets, 3 symbols, channels of 3 and 1, 3 quotes, 2 failures | 307k | `SubscriptionsSurvive`, `SubscribedSymbolsAreFed`, `BookIsLatest` |
| `lead_lag` | 1 symbol, clocks at +2 and -1, jitter 1, window 2, 3 books, 4 points in time | 759k | `LeaderIsNewer`, `SignalIsTradable` |

`execution`: the depth counter never drifts; every intent is in one place or counted
once; nothing decided before a trip is sent after it; the switch is lifted although it
blocks all traffic.

`control_plane`: without overflow the last update of each key arrives; every key offered
is applied, also when it was parked and nothing follows.

`signal`: when ticks leave a backlog and the cursor inside a word, the count never
promises more symbols than are pending, and a marked symbol is checked, unless the
wrap of `pop_first` forgot it (section 4).

`trial_runtime`: fleets trade the installed configs unless the last patch left them
alone; the trades of a replaced fleet are accounted before the patch; the run a batch
made current has an open row, however takeover, clear and re-submission interleave.
`SYMMETRY` permutes the two runs, which nothing tells apart; `VIEW` leaves out the
candidate history and the run read to extend it, which no other variable depends on and
no property of this run is about.

`fleet_patch`: unless a scope left symbols out, every fleet trades the installed configs,
although an incremental patch resets only fleets that trade a changed id and trusts the
batch for what those are; a config has its row before a fleet trades it; an incremental
patch resets what its plan names and leaves the rest; a generation is a sample of its
grid, whatever rounding does to the points. The two symbols are symmetric: every value
that names one is a set of symbols or a function of them.

`shadow_fleet`: every close is drained once, and weighs once in its config's policy, although
the deque is trimmed while trades are added; the gate recommends no config on fewer closes
than it asks for, whatever the wall clock says; a trade carries the run that was active when
its entry was decided; after a tick with a fresh gate quote no active trader holds a position
beyond its maximum. Two trades of a trader have different natural keys if its cooldown and two
fill delays outlast twice the freshness and what the gate's median may change (`Outlasts`), as
in the defaults (3000 ms, 6 ms and 1000 ms) while the median changes by less than 1012 ms.
Without the condition it is false: with no cooldown, a freshness of 3, two changes of a median
and the rest as in this run, TLC finds two trades entered at 3 and closed at 2 (a tick back in
time), of which the second would be dropped as a duplicate.

`portfolio`: no symbol in two portfolios or twice in one, in the memory and in the
snapshot; no assignment of a symbol that cools down although the candidates were collected
before; paper money goes to the owner at the entry; when all snapshots have been sent in
the order they were taken, a restart would find the same state.

`db_writer`: a batch that is neither on its way nor received was counted as dropped, and
only such (while the database opened: a failed open loses what was queued without
counting it); a failed write keeps buffered trades (a combined trades-and-snapshot
command is not retried, and no comment says it is); a snapshot is never replaced by one
with a lower number; the writer stops only when nothing is staged.

`trial_queue`: each batch is decided once and answered truthfully, or discarded; what an
earlier life left queued never becomes a run of a later one; once the control loop has
nothing to read, the current run has a client, but for the `excused` and `stuck` ones;
every queued payload leaves the queue unless one is stuck. What `RunEndsWithClient`
excuses is worth knowing: a job that times out, or is stopped before its acknowledgement,
leaves its batch queued; when that is applied, its run holds the lease with nobody left
to clear it, until a takeover, a fresh start or a clear request by hand.

`runner`: two requests that pass the first look together start one job; the log shown of a
finished job is its own and complete; a job asked to stop ends, also when its child would
not; a save of references loses no trade of any config, but the one save after a file
that was torn.

`feed`: whatever connections are lost while start-up subscribes and after it, what was
requested of a socket is live on its connection or about to be written; every chosen
symbol is finally live on both exchanges; a drained channel gives the last quote received
of each symbol, unless that very quote found the channel full.

`lead_lag`: no signal from a hedge quote received later than the primary's by more than
twice the jitter, however the clocks are set and however old the cached median is; the leg
of a signal gains.

The modules state more than the runs list. The type invariants, `OverflowBounded` and
`GaugeSettles` (`ExecutionQueue`), `EveryUpdateAccounted` and `QuoteNeverGoesBack`
(`ControlPlane`), `StagesMatchBacklog` and `GaugeCurrent` (`SignalLoop`),
`FlushReturns` and `FlushPersistsPrimary` (`DbWriter`) and `TradesTheBusiest` (`Startup`)
hold on the same instances; `BacklogExact` and `TickDrains` hold with a budget of 6 in
`signal`. Some of these are theorems (section 5). The four that section 4 names do not
hold, and are stated because a comment or a test says what they say.

Why the bounds are enough. In the queues, a channel of one or two entries is full as soon
as the worker pauses, so every path of `try_enqueue` meets every worker step; three
intents suffice for one in the channel, one in the overflow lane and one that replaces it,
with two symbols to tell replacing from adding; two timeouts trip the switch and leave an
intent to outlive it. Five updates of two keys fill the channel, park, and replace. Two-bit
words put five symbols in three words, with a partly used last one: every branch of the
scan and the wrap of the cursor occur. In `TrialRuntime` two batches and one request of
each other kind meet in every order; with one symbol a patch either takes its fleet or
leaves it, and more symbols do not interact. `FleetPatch` needs the second symbol for
scopes; one edit gives the grid loop a generation to hold while a batch and a fresh start
pass, before or after; its files have a grid above the limit, points that meet when
rounded, an axis that names one bound, an invalid point and a file that is missing or off.
In `ShadowFleet` traders of a symbol share no state but the count of active ones, so one
suffices; with a hold and a fill delay of one unit and a cooldown of two, five units are enough for a
second close, with and without a trimming between the two (the window is three), and one change
of a median for a tick that goes back. In
`Portfolio` two symbols and lists of one make both portfolios compete; three events are the
two losses of a fast streak and a win or a reset, and two units of time span a cooldown's
beginning and the trade of a position opened one assignment earlier. In `DbWriter` three
numbers fill two channels of one and drop the third, or overtake each other through the
staging channel; the kinds are shared out between the two producers so that each is sent.
The chain for every number of channels is a theorem. In `TrialQueue` two submissions are
one for each client or two in a row for one of them: an older one listed before a newer
one, a lease held and taken over, one request overwriting another; one crash meets every
state of both. In `TrialRunner` the second job meets the first one's end, its late lines
and its torn file, and a second cycle merges into what the first one saved. In `Feed` two
failures hit one connection twice, the second time during the replay, or two connections;
Binance's channel of three takes all quotes, Gate's of one drops. In `LeadLag` a window of
two samples recomputed every two holds a stale median over each other sample, and four
points in time exceed the age limit.

Fairness. `ExecutionQueue`: `try_enqueue` never blocks, and the worker always has its flush
interval: weak fairness of each. `ControlPlane`: the same, and strong fairness of the two
branches of `select!`, which tokio polls in random order, so that a branch that is ready
again and again is taken. `SignalLoop`: the signal tick is straight-line code: weak
fairness; no fairness of the exchanges. `DbWriter`: the runtime polls its tasks, so each
forwarder with something to do, the opening and the writer's receive branch are weakly
fair; producers, the timer and the outcome of transactions are not constrained.
`TrialQueue`: the batch loop is a task that sleeps and looks again: weak fairness; nothing
is assumed of clients. `Startup`: `main` is a task whose awaits have timeouts or errors,
and each socket's task is polled: weak fairness of both. The number of failures is bounded,
which says that the network is up long enough in the end; nothing obliges an exchange to
send. `TrialRunner`: a job's task is polled when it is ready, and so are the readers: weak
fairness of the scout's steps and of a forward job's queueing and stopping (its loops poll
their stop channel before their clock). A child process need not end, no acknowledgement
need come. `TrialRuntime`, `FleetPatch`, `ShadowFleet`, `Portfolio` and `LeadLag` state no
liveness.

Deadlock is checked in `execution`, `control_plane`, `signal`, `trial_runtime`, `fleet_patch`
and `db_writer`; `ControlPlane` and `DbWriter` have an explicit stuttering step for the state
in which everything ended. The other systems may rest: `trial_queue` and `runner` when every
submission and job has been handled, `feed` when start-up failed, and all of these, `shadow_fleet`, `portfolio` and `lead_lag` at their
bounds of time and events.

## 4. Observed disagreements

What the models showed, or reading for them, where the code does something else than a
comment, a document or a test says, or than its user may expect. The first five come with
a definition that TLC refutes when it is added to the run's configuration.

- **The latest update may lose** (`LatestWins`, `control_plane`). An update still in the
  channel overwrites the newer one drained from the overflow lane. The evidence notes
  promise that the latest update wins.
- **A pending symbol may be forgotten.** `pop_first` does not scan the start word's bits
  below the cursor after wrapping around, and sets the count to zero. It needs a backlog,
  more than 256 pending symbols; with at most 256 the theorem `EveryTickDrains` shows it
  harmless. `BacklogExact` fails in `signal`.
- **Candidates of another run** (`CandidatesOfActiveRun`, `trial_runtime` without `VIEW`).
  `set_run_id` clears the candidate history before it stores the id, and a tick reads the
  id before it adds to the history (`tests.rs:925` expects otherwise).
- **A clear request clears another run** (`BatchKeepsRun`, `trial_runtime` without `VIEW`).
  The control loop clears the active run after an await without looking again.
- **A flush may miss a staged batch** (`FlushObservesAll`, `db_writer` with three
  channels). `flush_all` waits for the highest number, and a higher one in the primary
  channel overtakes a lower one in a staging channel. What does hold is
  `FlushPersistsPrimary`.

Runtime configuration. An edited grid file whose generation has an invalid config reaches
`.expect` in `replace_fleet_configs` (`domain/screener/mod.rs:916`) after its configs were
written: with unwinding the grid loop's task ends, and no later edit of the file is applied;
in a release build the process ends. A batch with an invalid config is refused instead. The cap on grid configs is applied at start only, although
`docs/status/dynamics/2026-02-28-hft-rust-only-checkpoints.md:32` says it is always applied.
An axis that names only some bounds takes the others from the axis default (0, 0, 1) and not
from its own. A scoped patch with an id that is new to the store resets the fleets its scope
names and installs the configs for all, so the others trade the former ones until they are
reset. A fresh start reads the configs and installs them in two steps: a batch patched in
between is undone (`api/handlers.rs:934`). `upsert_configs` writes in no transaction
(`db.rs:388`).

Portfolios. A trade whose entry lies before the symbol's first owner is credited to its
present owner, and a fresh start keeps the history of assignments. Snapshots are sent after
the mutex is released, so an older one may be written last (`domain/screener/mod.rs:656`).
A fresh start takes no snapshot, so a restart restores what it had cleared. The candidates a
restart restores come from the trades of all runs.

Feeds. A full channel drops the newest ticker. The health flag `connected` is not cleared while
a socket reconnects; a half-open connection is not noticed. A failed Binance batch is only
logged (`main.rs:600`) and the program runs on Gate alone; the summary logged after it assumes
two symbols per socket, which is not the default. The fallback symbols BTCUSDT and ETHUSDT are
blacklisted (`runtime_symbols.rs:46`, `main.rs:99`), so that a failed fetch leaves nothing to
trade. Gate's contracts BTC_USD and BTC_USDT become the same symbol
(`infrastructure/rest/mod.rs:185`). Clock differences beyond `MAX_OFFSET_SAMPLE_ABS_NS` are
ignored, so that such a clock is not corrected at all.

Jobs. Stopping a scout kills it, so that its own `clear_active_run` never runs and its run
stays current. The file of references is written in place (`ray_driver/cli.py:123`): a scout
killed during the write leaves a torn file, and the next one starts without references. The
readers of a killed scout wait for any grandchild that holds the pipe.

## 5. Proofs

All theorems hold for every value of the constants that satisfies the modules'
assumptions; the bounds are constants too.

`QueueProofs`, on `ExecutionQueue`. `TypeCorrect` is inductive. `DepthExact` adds nothing to
types and the counter equation: one step per action shows that each step moves
the counter and the place of an intent together. `OverflowOnePerSymbol` is
inductive alone. `NothingSurvivesTrip` needs the strengthening `TripInv`: while the
switch is on, `recoverAt` is `lastTrip + Cooldown`, and every intent decided up to the
trip is stale once `now` reaches it because `MaxAge < Cooldown`; the
assumption is used there and nowhere else. `IntentsAccounted` needs that the overflow
lane is finite and holds one intent per symbol, which makes a replaced intent one; and
that an intent is in hand exactly at the program counters that say so (`Hands`).

`MarketDataProofs`, on `ControlPlane`. `TypeCorrect` includes that neither map holds two
updates of a key; its strengthening `TypeInv` adds that the event loop has at most one
update in hand and that the maps are finite, which makes the counts of replaced
entries numbers. `DepthExact` is inductive with the types. `QuotesMonotone` is
the action property: only `WorkerApply` touches a quote, and `Accepts` decides.
`LatestWinsInOrder` speaks of rest only, so what it needs is about every other state
(`OrderInv`): until the overflow lane is used, the last update of a key is in the event
loop's hand, or in the channel with none of the key behind it, or in the worker's map with
none in the channel, or is the quote with none on its way. No lane holds a version that was
not offered (`NotFromTheFuture`), so that `Accepts` cannot refuse it. `UpdatesAccounted`
adds to the equation that the updates offered can be counted (`AccountInv`): those of a key
are as many as its last version, which is at most `MaxUpdates`. Inserting updates into a map
moves them, and what they replace is counted as dropped (`InsertedMoves`); the equation ends
where a worker that failed drops its receiver.

On `SignalLoop`. `SignalTypes`; `NeverOverstated` by induction over the pops,
with cardinalities of finite sets of symbols; `StagesMatch`, inductive with the
types; `EveryTickDrains`, under `Budget > NumSymbols`: the invariant `DrainInv` is that
the count is exact, that outside the loop the set is empty with the cursor at zero,
and that inside it the cursor has passed only clear bits, so that `Behind` is
empty and the scan that ignores the start word's low bits loses nothing.

On `LeadLag`. `SignalsGain`: received books are sound (`BooksSound`), so a leg of at least
25 basis points between two of them has its bid above the other's ask (`LegGains`). It rests
on `QuotesAreSound`, which is about the exchanges: neither sends a crossed book. `LeadersLead`
bounds what the correction of the clocks can get wrong. A difference between receipt and
exchange time lies within the jitter of the exchange's skew; a median is one of the samples
(`MedianIsASample`), so the cached one does too, however old it is and whatever window it comes
from (`ClockKnown`), once there was a sample at all. There was one for each book that was
received (`Stamped`), because the receipt of a book is observed before it is stored. So the
corrected times of two books are off by at most the jitter each, and `ClockInv` needs no more.
`ClocksAreSteady` says that no sample is discarded for its size, `SamplesAreKept` that the
window is not empty.

`QueueProofs`, on `DbWriter`. `SnapshotOrder` rests on the types of the channels
(`ChannelTypes`): what the writer receives is a batch with a number.
`NoTradeLost` adds to the property that nothing is observed before the database
is open. `NothingLeftBehind`, for every number of channels: a forwarder that has
ended has drained, and so have all behind it (`DrainInOrder`), because a call in
progress holds a handle (`HandlesHeld`) and each forwarder holds the sender of
the channel before its own; so when the writer sees its channel closed, all of
them have ended. `DropsExact` (`CountInv`): a producer that tries has one batch, whose
number nobody else has, and a forwarder holds at most one, so a step moves one number in or
out of those accepted; appending to a channel and taking from it change the set of its
batches by that one (`PlainAppend`, `PlainTail`). `FlushesPersist` follows a flush from its
call (`FlushInv`): what was in the primary channel then is before the command in the line
(`LineInv`; appending leaves it there and taking the head moves it up, `InLineAppend`,
`InLineTail`), so it was received when the command is, and the write that the command asks for
puts on disk all that was received, unless a write failed (`NothingDiscarded`). That it stays so
needs that no two batches accepted have one number (`NumbersApart`), and a call never finds the
channel closed because it holds a handle.

`TrialRuntimeProofs`. `FleetsAreCurrent` and `ReplacedFleetsAreAccounted` share `FleetInv`;
the second part holds because a patch needs the gate, which a tick holds until its trades
are accounted, and what a scoped patch leaves is in `carried`. `ActiveRunHasRow` speaks of
the actors at rest; `MetaInv` asks for the open row in all states in which neither a batch
nor a clear request is between closing a row and what follows, and adds that a batch about
to open its row has promised its own run or none.

`TrialJobProofs`, on `TrialQueue`. `DecidedOnce` is the refinement: `TrialQueue` implements
`Submissions` for any number of submissions and crashes. Each step maps to a step
of one submission or to a stutter; the hard ones are that a listed payload is
undecided, and that the acknowledgement about to be written is the first. Both
come from `QueueInv`, whose central part, `DecidedInHand`, says that a payload
that is decided, or was left by an earlier life, is in the queue only while the
loop has it in hand: before and during the startup pass, or between its decision
and its archiving. `StaleIsArchived` follows from the same part. `RunsEnd` follows a
submission from the client that holds it (`Held`) over the request to clear it, still in the
temporary file or unread by the control loop (`Unread`), to where it can no longer be the
run (`Over`). `RunInv` says that every queued submission is in one of these or excused or stuck
(`Tracked`), that the current run was applied, that only a rejected batch is answered with an
error, and that whoever asks for a run to be cleared knows that it was decided; it uses
`QueueInv`, because only what is queued and undecided can become the run.

On `TrialRunner`. `OneJob`: `JobInv` is that a number not yet given out has no task
(`FreshIds`), that the living task is the active job's and lives exactly while that is running
(`AliveIsActive`), and that a process runs only while its task waits for it (`RunsInChild`).
The second look of `start` is where it is needed. `LogComplete`: a process's output is unread
only while its task is at work (`UnreadOfChild`), and the log is the active job's from its
first line and ends with the summary when the job is over (`LogOfActive`); trimming keeps the
end of a log (`TrimmedLog`).

On `RayDriver`, as `TrialRunner` starts it. `ReferencesKept`: what a scout that read a whole file
is about to write has, of each config, at least the trades the file has now (`KeepsTrades` in
`RefInv`). No other process writes the file meanwhile, since a process runs only while the active
job's task waits for it: that is `JobInv`, and why this is a theorem of the runner's
specification. A merge keeps trades because the sum of a config's trades over the rows
of the file followed by what was found is at least that over the file alone (`TradesGrow`), each
config that traded is accumulated to one row with that sum (`AccumulatedRows`), and all rows are
listed, as the ranking orders them strictly (`RankingOrders`, `MergedKeeps`): mean profits are
compared crosswise, which is transitive for positive numbers of trades.

`FleetPatchProofs`. `ConfigsAreDurable`: what each loop holds between its write and its
patch has its rows (`HeldIsDurable`), and a fresh start holds configs that were installed,
so every patch installs durable configs. `FleetsConverge`: without a scope every fleet is
empty or trades the installed configs, so the ids that fleets trade are the installed ones;
an accepted incremental plan has no id that is new to the store and at least one changed id,
which therefore every fleet trades, and all are reset (`UnscopedResetsAll`). The invariant
`ConvInv` adds that a batch about to be patched has one of the two modes. `PatchStaysInScope`
is the action property; the incremental patch is the only step of its shape. `GridsAreSampled`
is about the algorithm, for every number of axes, every limit and every rounding: the combinations
list exactly the tuples of the axes' points (`CombinationsAreTuples`, by induction over the axes),
deduplication keeps each once (`DedupedKeepsAll`), the fractional strides stay within the list
(`StridesWithin`), and the second pass ends at the limit, because there are that many different
configs to fill up with (`FillsUp`). The invariant `GridInv` adds that the file at hand is typed,
which `Parsed` preserves: `FilesAssumption` and `SettingsAssumption` say what toml and the
defaults can hold.

`StartupProofs`. `DrainsAreLatest` is about steps and rests on what the channels hold before
them (`BookInv`): the last ticker of a symbol in a channel has the last count received, unless
that was dropped (`LastIsCurrent`). That a batch with a ticker of a symbol has a last one
(`LastExists`) takes a least element. `NoneForgotten` has `SubscriptionInv` for each socket: it
was asked for what is recorded or still to be written, and on a connection that is up for what
is live, to be written or to be replayed (`Kept`); it is reconnecting only when the connection
is down. `record_subscription` forgets the oldest message when the registry is full, so the
theorem speaks of states in which no more messages were sent than it has room for: one for
each Binance socket, one for each symbol on Gate. The code's registry has room for 4096.
`SubscriptionsSurvive` without that condition is false for a registry of one, and holds in
`feed`, whose registry has room for all of them.

`PaperTradingProofs`, on `ShadowFleet`. Five theorems follow from one invariant,
`FleetInv`, which has for each config (`TraderInv`) the types of its trader, that the deque of
closed trades is the end of what was reported (`EndOf`), that the order or position at hand is of
the run of the last entry (`RunsKept`), and, where `Outlasts` holds, that entry times grow
(`KeysGrow`). The last is the delicate one, since ticks go back in time: a position was
entered at most the freshness after the gate quote of its fill, an exit order is placed at most
the freshness before a later gate quote, and the gate's event times never go back, so that the
two are apart by at most twice the freshness and the change of the median; the cooldown counts
from the fill of the exit. A tick goes through its three stages (`FillStep`, `ExitStep`,
`EntryStep`) and closes at most one trade (`TickStep`), so that the fleet, which counts back from
the end of the deque, reports just that one (`LastIsNew`). That trimming never drops the trade
that was just closed (`OutdatedKeepsLast`) takes a least element. The theorems assume
`TraderConfig::validate` and that medians are integers; `ReportedUnderEntryRun` and
`NoPositionOutlivesItsHold` are action properties.

`ClosesWeighedOnce` is `EveryCloseReported` as a whole: what was closed was drained once, and the
policy's window holds of each trade what time left of its weight. `PolicyInv` has that the window's
time is the latest of any trade reported (`ClockIsLatest`), that its sum is that of the decayed
weights (`Weighed`), and that it is at most the trades' full weight. When a trade is added the clock
may stay, as its time may lie before the latest, or go on, and then every summand shrinks by the
same factor (`SumsScale`); that dividing the sum at each step is the same as dividing each weight
once is where the decay must be exponential and exact (`DecayAssumption`, `DividesTwice`). The
gate's decision is about the same sum, and a sum of `n` trades cannot exceed `n` weights.

On `Portfolio`. `SnapshotsSettle`: whichever thread changed the runtime last holds a snapshot of
what it has now, until it sends it (`WorkerHolds`, `SchedHolds`), and what is persisted is current
unless a newer snapshot is on its way (`PersistedOrHeld`). That a change without a snapshot cannot
happen is where `Changes` is needed.

`PortfolioTyped`, `PortfoliosApart` and `RebalanceRespectsCooldowns` share `RaceInv`, which types
every variable of the race, the snapshots on their way included, and says of each assignment,
wherever it is held, that its lists are apart (`HeldApart`). Its core is `AssignmentApart`: the
candidates are ranked by a strict order (`RanksStrictly`, `RanksTransitively`: rates of wins and
mean profits are compared crosswise), the pool lists each eligible one that does not cool down
once (`PoolListed`), the deal moves a cursor over the pool, so that what it deals was not
dealt before (`ShortlistedDeals`), and what is activated is of the portfolio's own shortlist
(`ActivatedPicks`). The scheduler reads the guards when it assigns, which is why a cooldown that
began after the candidates were collected is respected. `RaceAssumption` and `TradesAssumption`
are the types of the engine's constants and of what trades bring.

`PaperFollowsOwners` needs the history of assignments (`EntryInv`): at every time at which a
position that closes now may have been opened, and which no restart cut off (`since`), the last
assignment remembered is the one that was in force (`Matches`), and so it is for the trades the
worker has drained and not yet recorded (`DrainedMatch`). Two assignments remembered are an
interval apart, but for the one a fresh start makes come early (`Spaced`): so when the history is
full and forgets its oldest, that one is older than any hold (`OldestIsOld`). This is where
`HistoryIsLongEnough` is used: `HistoryCap - 2` intervals and one unit are no shorter than
`MaxHold`. In the code that is two hours, against holds of at most 30 seconds in the grids and two
minutes in what the ray driver may submit (`ray_driver/bounds.py:38`).

`FoldTheorems` is what the proofs about lists share. The provers cannot instantiate the library's
induction theorems, which take an operator; their place is taken by induction over a set of
positions (`IntervalInduction`, from the well-foundedness of the naturals). `FoldLeft` is defined
through a recursive function: `FoldRuns` shows that there is such a function, with a value for each
prefix of the sequence, and each fold then states what its runs keep. `SortedExists` shows that a
finite set with a strict order can be listed in that order, so that there is what the `CHOOSE` of a
sort picks.

What is proved and what is only checked. Each invariant and each action property of the runs is
stated by a theorem, and so is the refinement; `SubscriptionsSurvive` under the condition above. Only
model-checked are the six liveness properties, since TLAPS does not prove what rests on fairness:
`KillSwitchRecovers`, `EveryKeyApplied`, `EveryMarkedChecked`, `QueueDrains`, `StopEndsTheJob` and
`SubscribedSymbolsAreFed`. No theorem says that start-up selects at most so many symbols.

## 6. Plan

1. The modules of section 2: done.
2. The rows cache: its dirty flag against updates.
3. `expand` and `promote` of the ray driver as operators over configs.

## 7. Not modelled, and why

Parsing of frames, requests and signatures is I/O whose outcome the models take as input.
Floating-point prices are small integers: no property is about rounding of prices. The
recording and replay of raw frames serves tests and studies. HTTP views, templates, latency
statistics and logging change no state the properties are about; neither do the schema's
migrations and queries, the health gauges and the enrichment's caches. Of the ray driver,
`expand` and `promote` decide what is submitted and are not modelled, nor are its reports. A
half-open connection, a poisoned mutex, and the loss of the
database file are outside the models' faults.
