# quanta: a verification project

`src/src/quanta` is a Python program that records market data of three crypto
exchanges, keeps it in a lake, researches strategies on it and trades on a
(demo or paper) account; `src/deploy` installs and updates it. This directory
holds TLA+ models of the parts whose correctness depends on the order of
events or on a careful algorithm, the TLC runs that check them, and proofs that
TLAPS checks. `PROJECT.json` maps every definition to the lines it models; file
names below are relative to `src/src/quanta/`.

## 1. Inventory

| component | state | operations | hard behaviour |
|---|---|---|---|
| order state machine (`oms/state.py`) | - | `advance` | reports in any order, duplicates |
| order management (`oms/oms.py`, `oms/store.py`) | SQLite: orders, fills, adjustments, journal; frozen symbols in memory | `submit`, `cancel`, `on_event`, `resolve_unknown`, `reconcile` | awaits inside every operation, lost and late answers, restart |
| user stream (`venues/binance_usdm/user_stream.py`) | listen key, connections | reconnect, keepalive, renewal | events lost while down, told twice in an overlap |
| REST client (`rest.py`, `trade_rest.py`, `errors.py`, `ratelimit.py`) | used weight, weight in flight, block | `request`, `classify`, `acquire`/`release` | unknown outcomes, headers out of order, a minute of another clock |
| kill switch (`risk/killswitch.py`) | sticky level (persisted), conditions (memory) | `escalate`, `set_sticky`, `condition`, `resume` | several writers, levels set across awaits |
| risk check (`risk/limits.py`) | times of orders and positions (memory), day start and peak equity (persisted) | `check`, `DailyLoss.update` | what was checked is stale when the order fills |
| trader (`trader/`) | ready, flattening and reconcile-needed flags, dead-man switches, command files | start-up, the loop, `flatten`, `ensure_protected`, `deadman`, commands, canary, drills | three tasks share one kill switch, one OMS and the exchange's countdown |
| bot (`bot/runner.py`, `strategy.py`, `livedata.py`) | trades (memory and meta table), minute bars | open, decide, manage, adopt orphans, shut down; load and update bars | an order fills while its placement is awaited; crash between order and record; a computer that sleeps |
| paper broker (`bot/broker.py`) | orders, position, balance in memory | the broker's calls, fills from public trades, funding | stop, target and close filled by the same trade |
| managed WebSocket (`net/ws.py`) | current, next and old connection | open, rotate, reconnect | overlapping connections, duplicates |
| order-book synchronisation (`sequencing.py`, `recorder/binance_usdm.py`, `bybit_linear.py`, `deribit.py`, `marketstate/`) | sequencer, book, requested snapshots | `on_event`, `on_snapshot`, resync | a snapshot racing the diff stream, gaps |
| raw segments (`recorder/segment.py`, `uploader.py`) | `.partial` and final files, manifests, markers | append, flush, finalize, recover, upload, retention | crash between any two file operations, failing disk |
| recorder service (`recorder/service.py`, `diskguard.py`, `base.py`) | guard, backlog, meta records, pollers | start, stop, disk check, poll loops | losses that must be told; HTTP 451 and rate limits |
| lake (`lake/`) | Parquet tables, manifests, markers, reports, check results | normalize, daily job, quality report, checks against the archive | death between two files, late raw data, retries |
| archive (`archive/`) | mirror, sidecars, Parquet | download, verify, convert, resume | new versions upstream, quota, death in between |
| research (`research/`) | registrations, trial ledger, results | backtests, cross-validation, gates, the lockbox | look-ahead, code edited during a run, a run that is killed |
| status page (`ui/`) | history of metrics | scrape, evaluate | counters that begin again, missed scrapes |
| operator tools (`tools/`, `cli.py`) | - | book audit, trade check, others | - |
| deployment (`src/deploy`) | checked-out commit, running services, `update.json` | hourly update, installer | a run that is killed, a failing installation, an operator beside it |
| web site (`src/tadilat-sitesi`) | - | static page of another trade | - |

How they interact: every order goes risk check -> OMS -> REST client; answers,
stream events, queries and reconciliation meet in the order table. The OMS
reports problems to the trader, which turns them into kill-switch conditions;
the kill switch decides whether the next order is allowed. The bot and the
canary are clients of the trader. Recorder and trader share the WebSocket
manager and the weight budget and are otherwise separate processes. The
recorder writes segments, the daily lake job reads them, checks read the lake
and the archive, research and the bot read what the archive and the exchange
published, and the status page reads the metrics and result files of all.
Everything in a process is one asyncio thread: code between two `await`s is
atomic, and that is the granularity of the actions below.

## 2. Modules and what they stand for

    OrderState <- Oms <- MCOms               OrderTruth      <- Oms implements it
                   ^-- OmsProofs
    Ledger <- MCServices <- ServicesProofs   PositionTruth   <- Ledger implements it
    Segments <- SegmentsProofs               ...... instanced by MCServices
    AutoUpdate                               ...... instanced by MCServices
    TraderControl <--------------------- Protocols
    ManagedWs <- DepthSync <- DepthSyncProofs <-'
         ^
         +-- StreamBook <- BybitSync, DeribitSync
                 ^-- MCBooks <- BooksProofs
                       (instances of DepthSyncProofs, BybitSync, DeribitSync)
    BotTrades
    OnlineParts <- DataParts <- MCData
         ^              ^-- DataProofs
         '-- OnlineProofs
    WeightBudget RiskCheck BotEntries
    Recorder StatusPage Pollers LiveBars ......... instanced by OnlineParts
    LakeDaily LakeChecks TardisImport VisionArchive
    ResearchLedger PaperBroker DeadMan ........... instanced by DataParts
    Recording                                ...... instanced by MCData
    LakeTable TradeEngine PointInTime        ...... pure, instanced by MCData

The arrows are EXTENDS. Four conventions hold everywhere:

- an action is the code between two `await`s of one coroutine (or between two
  file operations, two commands of a script); variables marked *memory* are lost
  in a crash, those marked *persisted* are rows of SQLite or files;
- an external party (exchange, network, archive, operator) is a few actions of
  its own that may happen at any time; what it may do is limited only by what
  the code relies on, and such definitions are marked external in the map;
- definitions commented "Bug" are never part of a specification: each is the
  form a mapped definition would have with a plausible mistake in it, and shows
  that the property listed with it in `PROJECT.json` notices;
- the modules `MC...` and `Protocols` put several specifications side by side:
  the initial state chooses one, which then runs by itself. In `MCData` its
  variables stand for those of a pool; `OnlineParts` and `DataParts` have the
  parts of it that `OnlineProofs` and `DataProofs` are about (in two modules,
  because every instance in its context makes each step of a proof slower).
  Nothing is shared between the parts, so such a run is the sum of its parts and
  its states are those of all of them.

### Orders: `OrderState`, `Oms`, `OrderTruth`

`OrderState` is `oms/state.py`: statuses, ranks, the table of allowed moves and
`advance`, split into `Stale` (ignored) and `Illegal` (raises).

`Oms` is `oms/oms.py` over `oms/store.py` and the parts of `trade_rest.py` and
`errors.py` that decide what a failing request means.

| variables | code |
|---|---|
| `row`, `filled`, `anomalies` | the row of `orders` (status, cumulative quantity), journal entries `oms_anomaly` |
| `frozen` | `Oms.frozen` |
| `phase` | the order start-up, reconcile, ready of `trader/service.py` |
| `call` | the coroutine in `submit`, per order |
| `todo`, `query` | the loops over rows in `resolve_unknown` and `reconcile`, and `cancel`, each with one request out |
| `net`, `signed`, `age` | the order request: on the wire or not, signed when; age in steps of 5 s |
| `ex`, `exQty`, `up`, `stream` | the exchange and the user stream |

`Submit` writes intent and row (one step: there is no await in between); `Sign`
is the request leaving after it got its weight; `SubmitReply` and `Failed` are
the two ends of `submit`; `OnEvent` is `on_event`; `ResolveUnknown`,
`Reconcile` and `Cancel` begin their coroutines, whose awaits are `Ask`,
`Answer`, `QueryReply`, `QueryFails`, `CancelArrives`, `CancelReply`,
`CancelFails` and `Continue`. `Crash` and `CrashInSubmit` restart the process.
The clock is an age per order because the code compares only two ages: 5 s (a
SENT row is worth a query) and 10 s (`UNKNOWN_GRACE_NS`); the exchange's
`recvWindow` (5 s) and the client's time limit (10 s) bound how far `Tick` may
run ahead of a request.

`OrderTruth` says what the table promises without saying how: a row before an
order, only true statements about it, and only forward.

### Positions: `Ledger`, `PositionTruth`

The first part of `Ledger` is the user stream: the listen key, its keepalive and
expiry, and connections that overlap when they are replaced. The rest adds the fills of the store (`fills`,
`filled`, once per trade id), `position_adjust`, and `reconcile` with the
positions it took (`snap`) before it waits for more answers. `PositionTruth` is
its promise: our position changes once per trade that is told, and by a
comparison only to a position the exchange had while it was under way.

### Who may trade: `TraderControl`, `DeadMan`, `RiskCheck`, `WeightBudget`

`TraderControl` is `risk/killswitch.py` with the tasks that set and obey it: the
one-second loop, `flatten`, `ensure_protected` and `commands` of
`trader/service.py`, the canary and the flatten drill.

| variables | code |
|---|---|
| `sticky`, `reason`, `conds` | `KillSwitch.sticky`, `sticky_reason`, `conditions`; `level` is the property of that name |
| `ready`, `flat`, `since` | `Trader.ready`, `_flattening` (who asked and why, step, attempts left, where the loop goes on), `_unprotected_since` |
| `loop`, `drill`, `canary` | where each task waits |
| `frozen` | the symbol is in `Oms.frozen` |
| `files` | the command directory |
| `entry`, `pos`, `stop` | the entries, the position and its protective stop at the exchange |
| `asked` | history: a limit or a person wants trading stopped |

The OMS is reduced to one fact, that a request may stay without an answer and
freezes the symbol until a query resolves it. Equity is reduced to which of the
four branches of `refresh_account` is taken. The position that
`ensure_protected` reads is the store's and may lag behind the exchange's
(`held`), and the mark price may be missing (`priced`); passes that miss a
position for one of these reasons are bounded (`MaxLags`), like the faults.

`DeadMan` is `Trader.deadman` with the drill of the same name and the exchange's
countdown, which the code never reads: `on` is `_deadman_on`, `ask` the request
under way, `row` what the store believes of the entry, `timer` the exchange's.
`RiskCheck` is `check` around `Trader.place`, with orders that rest between the
check and their fill. `Intents` are what goes through `place`: the bot's and the
canary's entries, exits and stops, and the order of the dead-man drill. What
`flatten` and `ensure_protected` send goes straight to the OMS
(`service.py:212`, `264`): it is neither checked nor remembered, and only takes
from positions (`Closes`). `WeightBudget` is `ratelimit.py` against an exchange that
counts in the minutes of its own clock.

### Books: `ManagedWs`, `DepthSync`, `StreamBook`, `BybitSync`, `DeribitSync`

`ManagedWs` is `net/ws.py`: the supervisor (`run`), the active connection, the
one being opened or closed (`other`), and which readers run (`open`).
`DepthSync` composes it with `DepthSequencer`, the capture's `_sequence_depth`,
`_resync`, `_snapshot_worker`, `update_scales` and `_after_lifecycle`, and
`L2Book`. The book has `NLevels` levels and update k writes k to level k mod
`NLevels`, so a book tells exactly which updates it has seen of every level: a
lost, doubled or late update makes a different book. A snapshot may be of any
age (`Resync(id)` for every id).

Bybit and Deribit have no REST snapshot: a subscription begins with one, on its
connection. `StreamBook` is what they share: the exchange's updates (`head`),
how far each connection has delivered them (`pos`), behind which update a
snapshot comes (`due`), and the three fields of `BookState` that decide (`last`,
`book`, `known`). In `BybitSync` the numbers `u` need not be contiguous, so a
missing frame is not noticed and the model has none; they begin again with 1
when the service restarts. In `DeribitSync` a change names its predecessor; a
gap or a level that cannot be represented sends unsubscribe and subscribe on
the active connection.

One side of `L2Book` with its cached best price, and the offline audit that
replays a recording between snapshots, are the last parts of `LakeTable`.

### The recorder: `Segments`, `Recorder`, `Recording`, `Pollers`

`Segments` is `segment.py` and `uploader.py` for one channel: `queue` is
`_queue`, `job` the call in the writer thread with the file operation that
comes next, `disk` the directory, `remote` durable storage. Every file operation
is a step that may fail, and the process may die behind it. A checksum is the
sequence of frames it was computed from, so a wrong one is visible.

`Recorder` is the disk guard, the backlog that is trimmed while writes fail, and
the meta records that tell of it, up to what the completeness check of trades
against the archive (`Status`) makes of them. `Recording` is what `lake/quality.py`
computes as a day's coverage from lifecycle events. `Pollers` is `poll_loop`
with the Binance jobs and `poll_error`.

### The lake and the archive: `LakeDaily`, `LakeChecks`, `LakeTable`, `TardisImport`, `VisionArchive`

`LakeDaily` is the daily job with its tables, manifests, report and marker, and
the scheduler's catch-up, while the raw data of a day still grow; `LakeChecks`
the verification of each day against the archive, with its retries, and what
the status page makes of it. `LakeTable` is pure: what the normalizers keep of
each kind of frame, the duplicate filter, spilling and merging, and the audit
of a recorded book. `TardisImport`
and `VisionArchive` are the importers with failures, quota, new versions
upstream and deaths.

### Research: `ResearchLedger`, `TradeEngine`, `PointInTime`

`ResearchLedger` is the runners as sequences of steps (`run`) over a
registration, the trial ledger, result files and the lockbox, while somebody
edits code and data. The others are pure: `TradeEngine` turns signals into
trades and accepts them under portfolio limits, and has the splits of
cross-validation; `PointInTime` has the rows of the forecasting model, the
universe and the hourly panel of the crowding test. It models a number by the
set of times it is computed from, so "no value of the future" is a statement
about sets.

### The bot: `BotTrades`, `BotEntries`, `LiveBars`, `PaperBroker`

`BotTrades` is `bot/runner.py` on one contract (`open`, `manage`, `step`,
`_on_filled`, `_exit`, `_close`, `_finish`, `adopt_orphans`, shutdown, restart)
over the exchange broker. `ex` and `xpos` are the exchange, `reports` the user
stream, `seen`, `spos` and `keys` the store, `saved` the trades in the meta
table, `trade` the trade in memory, `task` where the manage loop waits; a
reduce-only order closes at most what the exchange has. `signals` holds what the
entries so far ordered, in lots; an entry is filled lot by lot. `due` stands for
the clock: the deadlines of an entry, a hold and an exit are minutes away (5, 60
and 5 by default, `bot/config.py:41`), so one passes only after a moment in which
no report was on its way and no close of the manage loop was under way since it
was set (`Tick`). A report or a close that takes longer is one of the failures.
`BotEntries` is the size of entries on several contracts against the
caps, `LiveBars` the minute bars with reloads and outages, `PaperBroker` the
simulated exchange of `bot/broker.py`.

### Around it: `StatusPage`, `AutoUpdate`

`StatusPage` is the scrape loop, the history of metrics, increases over restarts
and the sources' issues. `AutoUpdate` is `src/deploy/auto-update.sh` with the
parts of `bootstrap.sh` it uses: the CI gate, checkout, installation, rollback,
`update.json`, kills at any point, and an operator who runs the installer or
starts the updater past the gate (`QUANTA_UPDATE_SKIP_CI`).

## 3. Runs

Times are for two workers.

| run | instance | shows |
|---|---|---|
| `oms_one` | two intents with one key, one regular and one conditional; 2 lots; 1 event on the stream; 1 crash | the table never contradicts the exchange, rows come before orders, one key means one order, and `Oms` implements `OrderTruth`; 988 000 states, 100 s |
| `oms_more` | stream down: two orders of one symbol without a crash, or one with a crash; fairness | an unknown outcome blocks the next order of the symbol; queries alone resolve every order and thaw its symbol; 149 000 states, 115 s |
| `protocols` | the book of Binance: 2 connections (symmetric), 3 events, buffer of 2, 1 fault, 3 levels. Loop, canary, 2 commands, 1 crash, and a failure, a lost answer or a missed position | the book is the exchange's; what was stopped stays stopped; a running flatten is on record; 3.3 million states, 110 s |
| `control_live` | loop, 1 flatten drill; 1 failure, 1 lost answer and 1 crash, or 1 missed position; fairness | flatten ends, positions get stops, conditions clear; 250 000 states, 145 s |
| `control_lost` | loop, 1 drill, 1 command | **violation** of `StaysStopped` (finding) |
| `books` | Bybit and Deribit with 1 and with 2 connections, 3 updates, 1 fault, 3 levels, one restart of the numbers; `DepthSync` with 1 connection; fairness | the books are the exchange's; a snapshot that is awaited is asked for or under way; a requested snapshot of Binance comes; 204 000 states, 120 s |
| `bot_trades` | 2 trades of 1 lot or 1 trade of 3 lots (`SmallPlans`), one fault of any kind, 1 attempt to close before the trader is ready, both settings of `close_on_exit`; fairness | stops stay, positions are protected or closed, trades end flat, nothing is forgotten, also when an entry fills in parts and `adopt_orphans` sells some of them; 1.13 million states, 175 s |
| `bot_forgets` | 1 lost answer | **violation** of `EntryHasTrade` (finding) |
| `services` | `Segments`: 3 records, 2 hours, 3 files, queue of 2, 2 failures, 2 crashes. `Ledger`: 2 trades, 2 faults, both directions. `AutoUpdate`: 3 commits, 2 faults, 1 installation by hand. Fairness | durability, order, manifests, shipping; positions implement `PositionTruth` and heal; nothing untested is deployed, and the last green commit runs in the end; 231 000 states, 110 s |
| `segments_torn` | a write that fails half way | **violation** of `Durable` (finding) |
| `data` | fifteen state machines and the pure algorithms: those of `OnlineParts` and `DataParts` with the constants in `Data.cfg`, the others with those at their instances in `MCData` | see below; 4.7 million states, 130 s |
| `trials_uncounted` | one trial in two runs | **violation** of `TriesCounted` (finding) |

The parts of `data`, by property:

| property | parts | shows |
|---|---|---|
| `LakeIsTrue` | `LakeDaily`, `LakeChecks` | a complete day was made from one version of the raw data; no input makes the service die again and again; a check is repeated unless it failed, and a day left unverified is told |
| `ArchiveIsTrue`, `QuotaIsKept` | `TardisImport`, `VisionArchive` | what is on disk was verified and is whole; no download begins behind the quota, and what was verified stays |
| `ResearchIsHonest` | `ResearchLedger` | results match the ledger, the lockbox is evaluated once, and nothing held out is looked at before the trials are recorded |
| `PaperHolds` | `PaperBroker` | no position is turned around, the balance adds up, funding is paid once |
| `SwitchHolds` | `DeadMan`, for the demo account and for the bot's | a dead trader's entry is cancelled if it had been covered; a living one's is covered; the switch cancels nothing under a trader that is well |
| `CaptureIsTrue` | `Recorder`, `StatusPage`, `Pollers`, `LiveBars` | losses of the recorder never fail the day's check; green is fresh, increases are neither lost nor doubled over restarts; the flag of a refused location is true and no symbol before an unknown one starves; a decision's bars have no hole unless an update was cut off |
| `LimitsHold`, `CapsAreKept` | `WeightBudget`, `RiskCheck`, `BotEntries` | the exchange's weight limit, exposure, rates, and the loss at the stop; entries and positions stay within the bot's share, but for rests of filled entries |
| `AlgorithmsHold` | `Recording`, the three pure modules, the check of trades in `Recorder`, the listing in `VisionArchive` | the coverage is what was recorded; each algorithm against a definition that says what it is for, on all its small inputs (80 000); the pages of a listing give every file once |

Why these bounds are enough for what they are meant to show:

- orders do not interact except through the symbol's freeze and the idempotency
  key, so two orders, one of each kind, contain every pair of interactions; 2
  lots are the least with a partial fill; one event on the stream can be older
  or newer than each of the answers under way; one crash may come at each
  point, and a second finds the same persisted state a first would;
- in `TraderControl` two commands are the least in which one can undo the other;
  the other faults are combined with each other once each;
- two connections are all `ManagedWs` ever has open; three events are needed for
  a gap behind a bridge, and 3 > 2 overflows the buffer; an event carries one or
  two updates, so a snapshot may fall inside one;
- Bybit with two connections has a bound of its own, `Orderly`: without faults,
  restarts and resets beside an open connection. With them its book can be
  wrong (below), so the run says what does hold: everything with one
  connection, and the overlap as long as it is orderly. `SnapshotComes` is
  stated for one connection for the same reason;
- three records fill the queue of two and overflow it while a write fails; two
  failures make a failing retry;
- two trades are needed for orders of the first that outlive it, three lots for
  an entry that goes on filling after `adopt_orphans` has sold its first lot: the
  store's position then passes through 0 while the exchange's does not. One trade
  of 4 lots without faults was checked too and keeps `TradesEndFlat` and
  `StopStays`. `TradesEndFlat` is stated without faults. `StopStays` is for one
  fault: with two it fails, as is said below;
- two fills, opposite or equal, are the least that can be lost, doubled and
  compensated; two faults interrupt the repair of the first one;
- three commits: one that runs, one that fails, and one that follows it; two
  faults make an installation and its rollback fail;
- the dead-man switch keeps the order of the code's times (renewal, drill's
  countdown, lateness of a pass, countdown) as its assumption
  `Renew + 3 * Delay < Countdown`; 13 ticks are an entry, its cover, a death and
  the countdown's end. `Accounts` bounds the drills, faults and entries of each
  kind of account. `Delay > 0` says that a pass takes time: without it
  `EntriesAreCovered` would be asked of the instant at which the request leaves;
- the weight budget has two minutes and clocks a tick apart, so a request may be
  counted in a minute other than its own; the poller has two symbols, the one
  before and the one after an unknown one; research has every kind of runner,
  two runs, one edit and one new manifest in between them;
- the pure algorithms have every input up to 3-5 elements over the few values
  their comparisons tell apart (equal, before, after; inside, outside).

`CHECK_DEADLOCK FALSE` is set everywhere because every instance stops when its
bounds (events, commands, records, trades, ticks) are used up; that a system
does not stop early is what the liveness properties say. `SYMMETRY` is used only
where the specification has no fairness and the connections are
interchangeable.

### What the violations show

- `control_lost`: the drill resumes when the reason on record is a drill's. A
  flatten command during the drill's flatten returns at once without a trace,
  and a halt before it is overwritten by the level and reason the drill's
  flatten sets; either way the drill resumes what the operator stopped.
- `segments_torn`: `_write_batch` may fail after part of the frame reached the
  file. The frame is queued again and appended behind the torn part, where
  `scan_frames` never gets to. `services` therefore has `Damage = {"nothing"}`
  for failing writes, while crashes leave torn frames.
- `bot_forgets`: an entry whose request stays without an answer is reported as
  refused; it may rest or fill with no trade that would cancel or protect it.
  The position of such an entry is closed by `adopt_orphans`
  (`NothingForgotten` includes this case).
- `trials_uncounted`: a trial is appended once whatever run it belongs to, so one
  that an exploratory run evaluated first is not counted for the registration.

### Smaller disagreements

TLC finds each of these instances violated; the constants that are not given
are those of the run of the same module. They are not runs of the project, and
can be repeated by writing the configuration down.

| module, constants | property | what happens |
|---|---|---|
| `MCOms` (`OneSpec`): `Orders = {o1, o2}`, `NoKeys`, `Algo = {}`, `MaxQty = 1` | `NoOrderWhileUnknown` | the freeze is in memory: after a restart an order that is still UNKNOWN does not block its symbol (`oms.py:88`) |
| `MCOms` (`OneSpec`): `Orders = {o1}`, `Algo = {}`, `MaxQty = 1`, `MaxCrashes = 0`, `BudgetBlocks = TRUE` | `ClosedIsClosed` | an order request waits for request weight longer than the grace period, is given up, and leaves afterwards (`oms.py:39`) |
| `MCOms` (`OneSpec`): `Orders = {o1}`, `Algo = {o1}`, `MaxQty = 1`, `MaxStream = 2`, `MaxCrashes = 0` | `NoContradiction` | a conditional order that triggered is no longer in the list of armed ones, is taken for EXPIRED, and the FILLED event is an anomaly (`oms.py:300`) |
| `TraderControl` (`TraderFairSpec`): no canary, 1 failure, nothing else | `ErrorClears` | a failing pass sets the condition `error`; nothing clears it, so one failed call pauses entries until a restart |
| `TraderControl`: no canary, 1 drill, 1 lost answer | `ExitsAllowed` | the emergency close is refused while its symbol is frozen |
| `TraderControl` (`TraderFairSpec`): canary, 1 lost answer | `EntryEnds` | the canary's entry rests for ever after a lost answer (`canary.py:3-4`) |
| `DeribitSync`: 2 connections, 1 fault | `SnapshotComes` | a resubscription is under way on the old connection when the rotation closes it; the new one's snapshot has already come, the flag stays up and every change is ignored until the next rotation (`deribit.py:287`, against `deribit.py:14`) |
| `BybitSync`: 2 connections, 1 fault | `SnapshotComes` | the active connection drops during the overlap: the number is forgotten (`bybit_linear.py:252`) although the new connection delivers, and its snapshot has already come |
| `BybitSync`: 2 connections, no fault | `BookIsTrue` | the older snapshot of a slower connection starts the book, and the next delta of the faster one is applied over what it had already delivered (`bybit_linear.py:187`) |
| `Segments`: 4 records, 3 hours, 4 files, no failure, 1 crash | `FinalHasManifest` | a crash between rename and manifest leaves a file nobody finishes or uploads (`segment.py:274`) |
| `BotTrades`: `Kinds = {"crashes"}` | `Resumes` | a restarted bot acts before the trader has reconciled and gives up a trade whose entry filled meanwhile (`runner.py:14`) |
| `BotTrades`: `Kinds = {"stops"}` | `LeftWithStop` | a shutdown just after the entry filled leaves the position without a stop (`runner.py:16`) |
| `BotTrades`: `Kinds = {"stops"}`, `CloseOnExit = {TRUE}` | `LeftWithoutOrders` | a shutdown that closes leaves a resting exit order behind (`runner.py:513`) |
| `BotTrades`: `MaxFaults = 2`, without `Faults <= 1` | `StopStays` | an entry that was reported as refused rests (`bot_forgets`) and fills while the next trade ends; a crash during that trade's `_finish`, its stop cancelled, brings back the trade as open with the position of the other and no stop (`runner.py:309`) |

Properties of the modules of `data` that are stated beside the others and do
not hold either: `LakeChecks!RetriedUntilDone` (a failed check is final),
`LiveBars!BarsAreWhole` (a gap between a request's rows and a reload),
`Pollers!KnownSymbolsAreFresh` (an unknown symbol starves those after it),
`BotEntries!GrossHolds` (rests of partly filled entries), `PointInTime!FinalRunIsTheSame`
(a final run reads outcomes across the border) and
`PointInTime!LiveFundingIsResearch` (funding rates are refreshed every 1800 s).

Noticed while modelling, without a run: 

- Lake: the report's flag for schema errors can never rise, because no manifest
  carries them; a day that is made again by hand after its raw data were
  removed overwrites its manifest with 0 rows; runs by hand and by the
  scheduler share one spill directory; a full disk removes the marker of an
  earlier death; if all streams are down at midnight the next day is taken for
  not running.
- Normalizers: a funding interval that changes and changes back is dropped as a
  duplicate; Bybit's book keys drop updates after a second restart of the
  numbers in a day; ticker deltas of a slower connection overwrite newer fields.
- Positions: two reconciliations that are hit by the same race clear
  `position_mismatch` although the position is wrong. A restart forgets the
  times of the rate limits.
- Research: an exploratory or dirty final run opens the lockbox; a crash between
  opening and evaluation uses it up; `git_state` and the data's hash are read
  behind the simulation; the last decision of a month is judged with the next
  month's forecast; `rolling_extreme` counts bars, not minutes; `fill_gaps` uses
  a gap's eventual length; a universe built on a partly published archive is
  cached and never built again.
- Recorder and page: responses with errors of a depth snapshot are not recorded;
  a stream that never sent anything is not "silent"; losses between the last
  scrape and a crash are never told; `sustained` over a gap in the scrapes
  speaks of one point.
- Bot: after a sleep of the computer a decision is made for an old grid time; the
  fee check does not hold up the first entries; a stop may lose a tick more than
  the share allows.
- Dead-man switch: an entry is not covered before the first renewal (up to 15 s),
  though the runbook says a crash cancels entries within 60 s
  (`docs/runbooks/recorder.md:229`); after a lost answer or a crash a countdown
  may run that the loop does not know of, and cancels exits; the drill's result
  is "ok" also when its order was filled; its clean-up takes the canary's orders
  with it.
- Update: a run that is killed behind the checkout makes the next one say
  `up_to_date`, and the operator's installer then only starts what runs already;
  only the last commit that failed is remembered; a transient failure refuses a
  good commit for good; `skipped_failed` hides the warning of a failed rollback
  from the page an hour later.

## 4. Fairness

Weak fairness is assumed only of what the process does by itself: a coroutine
that can run does run (asyncio), a loop begins its next pass, the uploader scans
again, a restart recovers, time passes, a request ends with an answer or at its
time limit, the hourly timer fires and an installation ends. Strong fairness is
assumed where the code asks the same question again and again and the answer
depends on the outside:

- `Answer` and `QueryReply` of the resolver (`Oms`), `Resolve` that thaws and
  `Reconcile` that finds nothing (`TraderControl`): the loop repeats them every
  few seconds, and the exchange is not unreachable for ever;
- `Resync(LastUpdate)` (`DepthSync`): a snapshot that is requested again and
  again is not older than the buffered events every time.

Nothing is assumed of the operator, of fills, of faults, of new data, of the
next connection, of check runs that end, or of a restart happening at all
(`Start` in `BotTrades` is not fair: its liveness speaks of a process that
runs). Faults are bounded, so "in the end" means: once they have ceased.
Where an eventuality is to hold for a stream or a branch that comes to rest,
the property says so (`AccountHeals`: no trade interrupts the last comparison;
`LatestRuns`: the branch stays at a green commit).

The modules of `MCData` have no fairness; what must happen there is stated with time: a countdown that has passed, a day whose retries are over,
the next scrape.

## 5. Proofs

`tlapm` checks them for every value of the constants that satisfies the named
assumption of the module; TLC evaluates each assumption in the runs.

- `OmsProofs`: `TypeCorrect` (`TypeOK`), then `WriteAheadHolds` and
  `OneOrderPerKeyHolds`. `WriteAhead` is not inductive: that an order at the
  exchange has a row does not say that one on its way there has. `SentOnce`
  adds it (a request leaves once, after the row is marked sent; nobody asks for
  an order without a row), and `Inv1 == TypeOK /\ WriteAhead /\ SentOnce` is
  inductive. The proof has two parts: a frame lemma for the many steps that send
  nothing (`NothingSent`, `NothingAsked`), and the few that do.
  `OneOrderPerKey` follows from what `Accepts` checks and the fact that a row is
  never removed.
  `TableIsTrueHolds` and `RefinesHolds` prove the central claim, that what the
  table says of an order is what became of it, and that `Oms` implements
  `OrderTruth`, **when requests are signed at once and queries answered within
  one age step** (`Prompt`): the grace period after which an unknown order is
  taken for one that never arrived is only sound then, and the second row of
  the table of smaller disagreements is what happens otherwise. `FrozenHolds`
  proves `NoOrderWhileUnknown` **without crashes**; the freeze is in memory.
- `ServicesProofs`, about the three parts of `MCServices`. `PositionFollows`:
  `Ledger` implements `PositionTruth` for any trades, quantities and faults; the
  initial state maps to the initial state, and every step to a step or a
  stutter; the invariant it needs says that while a reconciliation is in
  progress, the exchange's position and the one it took are among those since it
  began. `PositionFollowsHere`, `RecordsKept` and `UpdatesSafe` carry this and
  the theorems of `SegmentsProofs` and the three about `AutoUpdate` to the
  specification that `services` checks. Those three are `OnlyTestedHolds`,
  `NotTwiceHolds` and `ServicesFollowHolds` (`OnlyTested`, `NotTwice` and
  `RunsWhatIsCheckedOut`), for at least one commit and any number of faults and
  installations by hand. Their invariant has three parts beside where the updater
  is: what is checked out, was deployed before, or is being installed is tested
  or was chosen by hand; of the refused commits all but the last are behind what
  is deployed, and the last is the one `update.json` names and the run hands on;
  and what is checked out at each point of a run.
- `SegmentsProofs`: `TypeCorrect`, `DurableHolds`, `InOrderHolds`, `OwnHourHolds`
  and `ManifestTrueHolds`, for any records, hours, files, faults and crashes,
  **when a write that fails leaves the file as it was** (`CleanFailures`;
  `segments_torn` shows that `Durable` needs it). The invariant ties what is in
  the file that is open, what its checksum was computed from and what the job in
  the writer thread holds to the queue, for each step of the writer and after a
  crash; all records on disk, in the job and in the queue, in this order, are
  the records that were accepted.
- `Protocols`, about the trader and the two protocols together: `StoppedStays`
  (`StaysStopped`) and `FlattenRecorded` (`FlattenOnRecord`) **when no flatten
  drill runs** (`MaxDrills = 0`), for any number of commands, failures, lost
  answers and crashes; with a drill `control_lost` refutes the first one. The
  invariant adds that a flatten belongs to the loop, which waits for it: nothing
  else moves the level while it runs. `OnlyResumeHolds` (`OnlyResumeLeaves`)
  and `TraderTypeCorrect` hold with drills too; `TypesHold` (`TypesOK`) and
  `ControlResumes` are about the specifications that TLC runs.
- `DepthSyncProofs`: `NoStrayHolds`, `OneRequestHolds`, `BookHasScalesHolds`,
  `BookIsTrueHolds` and `DepthTypes`, for any number of connections, events,
  faults, price levels and any buffer. `OneRequest` needs that the worker's
  pause behind a stale snapshot is spent with the sequencer still waiting,
  `BookHasScales` that there is no book before the scales are known.
  `BookIsTrue` is about what the replay of the buffer does to the book. Both are
  folds; `FoldExists` shows by induction over the length that the function
  behind a fold exists, `ApplyAllFolds` and `ReplayFolds` unfold one element,
  and `ReplayHeld` follows the replay event by event: the book is the exchange's
  at the sequencer's update, or a gap was found.
- `BooksProofs`: `BookTypesHold`, `StreamBooksHold` and `SnapshotComesHolds`
  (`TypeOK`, `StreamBooks` and `SnapshotComes` of `MCBooks`), for any numbers of
  updates, levels and faults; `DeribitBookHolds` is `BookIsTrue` of
  `DeribitSync` alone, with any number of connections. The work is in
  `BookAtNext`, that one more update of the exchange is one more level set in
  the book, and in three invariants: `DeribitInv` (no book before the scales are
  known), `BybitOne` (over one connection at a time the number seen last is the
  one of the connection's update, before and behind a restart of the numbers,
  and what is due is the snapshot of the restart), `BybitTwo` (over two, without
  faults: update n was seen on one of them, and a connection whose snapshot has
  come is not ahead of it). That `SnapshotComes` needs one connection at a time
  is not for want of a proof: see the smaller disagreements.
- `DataProofs`: `SwitchAlwaysHolds`, `ArchiveStaysTrue`, `LakeStaysTrue`,
  `PaperAlwaysHolds` and `ResearchStaysHonest` (`SwitchHolds`, `ArchiveIsTrue`,
  `LakeIsTrue`, `PaperHolds`, `ResearchIsHonest`) and `QuotaAlwaysKept`
  (`QuotaIsKept`), each of `PartsSpec`, whose behaviours are those of the
  specification of `data` in which one of the seven parts of `DataParts` runs;
  of the other parts these properties say nothing. The parts' modules state the invariants, one step of each part keeps them, and `DataStep`
  puts the parts together:
  - `SwitchInv`: neither property of an entry is inductive. A countdown the loop
    knows of is renewed before it runs out (`Renewed`, with a case for a drill
    under way and one for a request that has arrived and is not answered), and
    an entry without cover is younger than the last pass that could have seen
    it (`CoveredSoon`). Both need that loop and drill keep up with the clock
    (`LoopInTime`, `DrillInTime`) and the order of the times above;
  - `VisionInv`, `TardisInv`: what each step of a file has behind it is on disk.
    A file with a sidecar is whole and not at work; an archive file is what its
    checksum said when it was listed. `QuotaIsMet` ties what a run says of its
    files to the flag the next download looks at;
  - `DailyInv`: without the marker no table was touched since a run that ended;
    the venues a run has behind it are whole and in its report; `DiesRarely`
    counts deaths and the runs still to come that nobody asks for;
  - `ChecksInv`: every document's status is what its results say, and a day that
    was checked with its archives there and nothing going wrong waits for
    nothing, unless it has failed (`TriedOnce` is one such check);
  - `PaperInv`: what rests belongs to the current trade, is its entry alone or
    reduces it; the position has the trade's side. The balance is the sum of
    what the fills come to (`ProfitAddsUp`, `ReductionFills`), and a funding
    time that was paid is before the next one;
  - `ResearchInv`: the order of what a run has left to do. `ProgramsInOrder`
    shows for every kind of runner that the look comes last, behind gates and
    lockbox, and behind the recording where trials are recorded; a run that has its recording behind it has
    recorded every trial (`RecordedSoFar`), and one that will look has passed
    the gates and is the first to open the lockbox (`Gated`).
- `OnlineProofs`: `LimitsAlwaysHold` (`LimitsHold`), `CapsAlwaysKept`
  (`CapsAreKept`) and `CaptureStaysTrue` (`CaptureIsTrue`), of `OnlineSpec`, in
  which one of the seven parts of `OnlineParts` runs. Four of these modules add
  up: weights of requests, sizes of positions and orders, worths of contracts,
  losses between two scrapes. What a sum over
  a finite set does when one term changes, joins or leaves is proved first
  (`MeasureExists` to `SumApart`, by induction over the subsets of a finite set),
  and how minutes roll (`NextRemainder`, `SameQuotient`). The invariants stand
  in the modules they are about, each under "Why it holds":
  - `BudgetInv`: that we used no more than the budget is not inductive, because
    what we used is known only from headers, which come late, out of order and
    with the weight of others. `UseIsKnown` says that whatever number between
    the one we hold and the exchange's count is put in its place, what it leaves
    out of our use is in flight, was given up, or belongs to the minute before;
    `FlightIsCounted`, that `in_flight` covers what is in flight; `BudgetIsKept`
    is the promise with the requests on their way included. While the clocks
    disagree the local minute may begin within the exchange's (`Crossed`), and
    what was used before it is forgotten: hence twice the budget. The assumption
    `MaxSkew < Minutes` says that the clocks are less than a minute apart; the
    trader stops at one second (`clock_halt_s`, `risk/limits.py`);
  - `RiskInv`: exposure and number of positions are bounded **with all that
    rests** (`GrossIsKnown`, `NumberIsKnown`): an order that is filled moves
    between two terms of the sum, one that is placed was checked or is a part of
    the slack. For the rates, of the orders sent since any time in the window
    each process sent no more than the limit, and the present one remembers all
    of its own (`OrdersAreCounted`);
  - `BotInv`: every position is of a trade, trades are no more than allowed, and
    a trade's risk is what `size` made it, which neither fills nor the market
    move. `CapsAlwaysKept` needs of it only that a contract without a trade has
    no position: of the others, `open_notional` counts what `Committed` does,
    except the rest of an entry that is filled in part;
  - `RecorderInv` (of `Recorder`): every trade that is neither on disk nor queued lies next
    to a record with nothing kept between them, or the recorder is down and the
    record is the one of its next start (`AllTold`). That the daily check accepts
    what it then finds needs the order of queue, disk and records (`InOrder`). It
    says nothing once the write backlog was trimmed (`cut`): `TrimsExplained`,
    which has no such exception, does not hold;
  - `PageInv`: between two scrapes of one process the counter tells what was lost,
    and over a restart no more than that (`Follows`). The increase of a window is
    then a sum that telescopes from the last scrape before the window;
  - `PollersInv`: each job begins to ask within a time of the last change or
    failure that depends on where it is. `ClockIsSoon` is about the next question
    that is answered as things are now, `SymbolsAreSoon` about the way of the
    round to the symbol it is at (`Way`);
  - `LiveInv`: bars are an interval up to the page in question, which reaches as
    far back as the history does but for the grid (`Complete`).

  `RatesHold` is about the orders that go through `place`, whatever their
  purpose. Emergency closes do not (`service.py:212`, `264`): they are outside
  the check, and no rate is promised for them.

  The proof of `SymbolsAreFresh` failed for a reason: its bound `Round` took the longest of
  the waits between two rounds, but a rate limit that is met at the first symbol
  of a round adds its wait to the interval. With the constants of the run both
  come to 8; with interval, refusal and rate limit of 5 and a time-out of 1 TLC finds a
  symbol that is heard later. `Round` has the sum now, and the theorem holds for
  every value.

Only model-checked:

- every liveness property (liveness and ENABLED are beyond the prover);
- `BotTrades`: `TypeOK`, `TradesEndFlat` and `StopStays`, whose invariant would
  have to follow every report on its way through the await of each step;
- `AlgorithmsHold`: what a recursive definition or a fold computes for every
  input is proved only where it could be unfolded (`DepthSyncProofs`). The pure
  modules are compared by TLC with their reference definitions on all small
  inputs, the coverage of `Recording` with what was recorded in every state of a
  recording: it is a fold over the log of lifecycle events, whatever their
  number.

Where a theorem has a hypothesis on the constants (printed bold above), the runs
have instances with it and without it, and what is lost without it is a finding
or a smaller disagreement.

## 6. What is not modelled

`PROJECT.json` lists every component with its status and what is left out of it.
In general: prices and sizes where no property tells them apart, wording and
logging, the HTTP and WebSocket libraries (external), backoff and pauses that
only delay. In `Oms` an order may expire at any time, which includes the
dead-man switch; partial answers of a list of open orders are covered because
any row may be missing from it. `TradesEndFlat` speaks of behaviours without the faults behind
which the code knowingly gives something up (a cancel that fails, a request that
stays without an answer); what holds with them is `NothingForgotten` and
`StopStays`.

Not modelled, and why:

- strategies, indicators, models, statistics and reports of `research/`: numbers
  in one process, where only what is read (`PointInTime`) and what is
  recorded (`ResearchLedger`) depends on order;
- column decoding and latency statistics of the lake, URL building and CSV
  columns of the archive: data layout;
- the HTTP routes and the layout of the status page, the cards of the trader;
- one-shot commands (`tools/access.py`, `tools/volume.py`, most of `cli.py`): they
  read files and print;
- `DailyLoss`, which reads floating-point equity; the market feed and
  `state.json` of the trader, which no decision but a condition reads;
- the reconnect drill, which forces what the user stream does by itself;
- most steps of the installer, containers and monitoring configuration; the web
  site, which has nothing to do with the program.

## 7. Plan

Done: order state and order management, who may trade, the books of three
venues, capture files, the bot's trade; positions and the user stream; request
weight, risk check, sizing, paper exchange and dead-man switch; the recorder
around its writers, the lake's job, checks and table; both archives; research's
ledger, engine and point-in-time rows; the status page; the update.

Proofs that are left: `TypeOK`, `StopStays` and `TradesEndFlat` of `BotTrades`;
the coverage of `Recording`, by unfolding its fold
over the log like those of `DepthSyncProofs`; and what the prover cannot do, liveness
and the recursive algorithms.

To extend the model: `DailyLoss` and the conditions of the market feed in the
trader, the installer's other steps, and `access.py` among the operator's tools.
