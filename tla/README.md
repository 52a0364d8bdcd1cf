# AI_trading_BTC: models, checks and proofs

A TLA+ development of the trading system in `src/`: automatic traders on the
Binance Spot Testnet and the Binance Futures demo, the files they keep, the
processes that watch them and the research pipeline around them. This document
says what the parts are, what is modelled and how it corresponds to the code,
what TLC checks, what TLAPS proves, and what is left.

## 1. The system

Everything is Python. Processes talk through JSON files under `state/`, replaced
as a whole (write `*.tmp`, `os.replace`), and through the exchange. No file has a
lock; a process keeps nothing else over a restart.

| Component | State | Operations | Interacts with |
|---|---|---|---|
| Spot auto traders: `auto_trading/engine.py`, loop in `scripts/run_binance_testnet_auto.py` | none but the files below | `run_once` per trader in turn: readiness check, candles, protection guard, live price, signal, risk, BUY / SELL with a journaled attempt | state store and position store (writes), broker, guard, LINE, event journal |
| State store: `auto_trading/state_store.py` | one file per trader: last candle, halted, order attempt | `assert_ready`, `begin_order_attempt`, `mark_order_acknowledged`, `mark_order_uncertain`, `finalize_order_attempt`, `mark_candle_processed`, `halt` | its trader only |
| Position store: `monitoring/position_store.py` | one file per lane: a list of position records | add, close, stop moves, triggers, quarantine, fill reconciliation | shared by trader, monitor, reconciler, scripts |
| Protection: `execution/binance_spot_protection*.py`, `binance_spot_reconciliation.py` | the order lists at the exchange | `ensure_protected`, `assert_software_exit_safe`, `place_oco`, `reconcile` | engine, operator scripts |
| Futures short trader: `auto_trading/futures_short_engine.py` and its script | its own state and position file | as the spot trader, without guard; entry SELL, reduceOnly BUY | Futures demo broker |
| Brokers: `execution/binance_testnet.py`, `binance_futures_testnet.py`, hybrid | none | one signed HTTP call per operation; no retry | exchange |
| TP/SL monitor: `scripts/monitor_binance_testnet_positions.py` | position file | `mark_triggered`, message, `mark_notification_sent` | same file as the engine |
| Fill reconciler, trade path observer | fields of the position records | called after every round of a trader loop | position file |
| Operator scripts: manual order, protect, reconcile, quarantine | position file, exchange | one run each | next to the automation |
| Phase 4.1 validation: `validation/phase41_trade.py` | its own position file | `entry`, `sample`, `exit`, each an HTTP request in a thread pool | broker |
| Hermes3D journal, sidecar, projections | append-only journal, log cursors | publish, tail, stream | reads all state files, writes none of them |
| Research: scheduler, forward OOS, integrity, milestones, promotion gate | JSON/JSONL stores, checkpoint, lock directory | one run a day, append evidence, freeze, evaluate | its own files |
| Paper broker, backtest, strategies, risk engine | in memory | pure computations, one shared portfolio | FastAPI thread pool |
| Launcher and containers | process table | start, restart | all processes |

What makes it hard: an order and the files that describe it can never change in
one step, so every crash, lost answer and failed write falls between two of
them; the exchange fills protective orders and liquidates at any time; a wrong
reaction (a blind retry) buys or sells twice; files are shared by processes that
load, modify and replace them without a lock; evidence and cursors are written
in several files that a crash can leave apart. What must be right:

- traders: coins (or a short) on the exchange are tracked or the trader is
  blocked; nothing is sold twice; at most one exposure; an order is journaled
  before it is submitted; an open attempt is always resolved;
- position file: a record is never made up, a closed one stays closed, and what
  one process saved is undone by another only when their calls overlap;
- reconciler, sidecar: every fill / log line is taken into account, once;
- live room: what a viewer sees comes to agree with the files;
- validation: one position at most, nothing bought that is not recorded;
- research: evidence only grows, a day is run until it has succeeded, one run at
  a time, and a milestone or a promotion is judged by audited trades only.

`PROJECT.json` lists every component with its status, and under `hazards` the
places in the code where these can go wrong.

## 2. What is modelled, and how it corresponds to the code

A step of every process model lies between two points where the process can die
or its environment can move: one exchange call or one file write, with the
computation around it. Variables are the files, the exchange and the local
variables that live across such a point; only the first two survive a crash.
`PROJECT.json` maps every definition to the lines it stands for.

| Module | Models | State | Actions |
|---|---|---|---|
| `AutoTradeStateStore` | `state_store.py` | operators on one state record | one operator per method; a failing write is an action of the caller |
| `PositionStore` | `position_store.py` (all methods that change a row, queries) | operators on the position file as a function of entry order ids | as above; `AddRefused` is `_add_position`'s refusal |
| `SpotAutoTrader` | `engine.py`, protection guard/service/reconciler, spot broker, process loop | `state`, `positions` (files), `orders`, `nextId` (exchange), `clock`, `pc`, `turn`, `candle`, `hold`, `job` (locals) | `Start` to `Sweep` follow `main` and `run_once`; `Begin`, `SubmitBuy`/`SubmitSell`/`SubmitFails`, `Confirm`, `Uncertain`, `Record`, `Finalize` follow an order; `Protect`, `PlaceOco` the guard; `OcoFills`, `OcoCanceled`, `CandleCloses` the exchange; `Crash`, `ReadFails`, `WriteFails` the faults |
| `FuturesShortTrader` | `futures_short_engine.py`, Futures broker, its loop | as above with one trader, plus `short` (net position of the account) and `filled[id]` | the same protocol without guard; partial executions, `Liquidation` |
| `FailClosedTrader` | what the docstring "Fail-closed ... automatic trader" promises | `mode`, `exposure`, `tracked` per trader | abstract specification of both traders |
| `SpotPositionFile` | the spot position file under all its writers: engine, `trade_path_observer.py`, `binance_fill_reconciler.py` (one process), the TP/SL monitor, the order, protection, reconcile and quarantine scripts | `file`, `copy`, `call` (a store method between its load and its save), `bought`, `sold`, `protected`, `filled`, `lost` (exchange), `pc`, `at`, `left`, `tries`, `rows`, `exits` (locals) | `Load`/`Save`/`Raise` of a call; `EngineBuy`, `EngineSell`, `EngineSettle`, `EngineProtect`, `EngineSaves`; `Observe`; `SweepStarts` to `SweepEnds`; `MonitorLoads` to `MonitorEnds`; `ManualBuy`, `ManualProtect`, `Audited`, `Quarantine`, `ScriptReconciles`, `DryRunRestores`; `FillProtective`, `Reset` (exchange), `Crash` |
| `LogSidecar` | `sidecar.py`, the logs it tails | `log` (files), `journal`, `saved` (files), `cursors`, `pc`, `source`, `offset` (process) | `Start` (constructor), `Open`/`ReadLine`/`EndOfLog` (`_read_source`), `Save`, `Crash`, and the traders' `BeginLine`/`EndLine`/`RestartTrader` |
| `Phase41Validation` | `validation/phase41_trade.py` as the API serves it | `book` (its file), `thread[r]` (a request), `entered`, `exited` (exchange) | `Starts` (preflight and look at the file), `ReadsCandles`, `ReadsPrice`, `Buys`, `Sells`, `Captures`/`Saves`/`StoreRaises` (a store call), `SweepStarts`, `Visits`, `Fetches`, `SweepEnds` (the reconciler inside the request), `Reports`, `ProcessEnds` |
| `EventStream` | `journal.py`, `events.py`, `lifecycle.py`, the snapshot, the simulator | `row`, `halted` (files), `unread`, `split` (the journal from the viewer's offset), `viewer` (the stream's sets), `view`, `lifecycle`, `printed`, `echoed` | `Opens`, `Closes`, `Halts`, `TraderPublishes`, `Prints`, `RoundFails` (a trader); `Echoes`, `EchoRewinds` (sidecar); `Probe` (simulator); `LoadsActive` to `Refreshes` (`stream`); `Connects`, `Disconnects` |
| `DailyResearch` | `daily_scheduler.py`, lock and trap of `run_phase562_daily.sh`, cron | `lock`, `marked` (files), `runner[r]`, `child`, `date`, `code`, `pc` (processes), `today`, `due` | `Poll`, `Record`, `TakeLock`, `Skip`, `FailEarly`, `Succeed`, `Fail`, `KillRunner`, `StopScheduler`/`StartScheduler`, `TimeComes`, `Midnight` |
| `OosValidation` | `frozen_oos_validation.py` (`validate`), verdicts of the gate and of `evidence_stage` | operators on sets of rows | |
| `ForwardOos` | the stages of the daily script: `forward_oos.py`, `forward_oos_automation.py`, `historical_store.py`, `evidence_integrity.py`, `oos_promotion_gate.py`, `oos_milestones.py`, `oos_line_alerts.py`; who starts the script and writes down how it ended; the append by hand (`update_phase561_forward_oos.py`); the dashboard of `research_operations.py` | `store`, `checkpoint`, `audited`, `integrity`, `gate`, `promotion`, `history`, `candidate`, `notified`, `lock`, `result` (files), `pc`, `run` (script), `scheduler`, `hand` (processes), `now`, `market`, `filled`, `earliest` (world) | `SchedulerStarts`, `CronStarts`, `SchedulerSkips`, `StateWritten`; `NoNewData` to `Heartbeat`, one action per load and write of a stage; `StageDies`, `Killed`, `SchedulerDies`; `HandStarts` to `HandStops`; `Refreezes`, `StoreRestored`, `PinRemoved`, `LockRemoved`, `GapFilled`, `Tick` |
| `FuturesRoom`, `TradingRuntime`, `MCForwardOos` | compositions and small markets for TLC | | |
| `StoreLemmas` and the modules named `..._proofs` | lemmas on the stores; one module of invariants and theorems per component | | |

Composition: both trader modules extend the two store modules; the refinement
instantiates `FailClosedTrader` under the mapping at the end of each trader
module (mode from the state file, exposure from the exchange, tracked from the
position file). `SpotPositionFile` and `Phase41Validation` use the same
operators of `PositionStore`, with the load and the save of a method in separate
steps. `FuturesRoom` puts the live room next to the Futures trader and
`TradingRuntime` the validation trade next to the sidecar; in both the two halves
read nothing of each other, so a behaviour moves one of them.

Abstractions that hold throughout: prices, sizes and signals are choices (a
comparison with a level may go either way, a strategy emits any action it can
emit); LINE messages and journal events, whose failure the code swallows or
reports, are left out; an exchange answer is confirmed, rejected, or lost after
the exchange acted. Definitions named as mutants (a comment says so) change one
definition the way a plausible bug would; only the mutant runs use them.

## 3. What the runs check

| Run | Question | Bounds |
|---|---|---|
| `spot_guarded` | Two traders as `build_traders` makes them with protection on: do files and exchange agree, or is the trader blocked? Seven safety properties, two liveness properties, and the refinement of `FailClosedTrader`. | 3 executed BUYs, 2 candles, 2 faults |
| `spot_same_candle` | Can one candle buy twice? Yes (finding). | 2 BUYs, 1 candle, 2 faults |
| `spot_halts` | Does one uncertain order stop the automation as a whole? No (finding). | 2 BUYs, 1 fault |
| `futures_short` | The same questions for the short trader, whose market closes execute completely; and for the live room: does a viewer come to see what the files say, is a close told, does a late record reopen a trade? | lot of 2 units, 3 entries, 3 candles, 2 faults; room: 1 order, 1 level, 1 fault |
| `futures_expired` | And when a close executes in part or not at all? A CLOSED record with the account short (finding, no fault needed). | 1 entry |
| `position_file` | What can a file without a lock lose or claim, and who is told? | one position of each origin, 2 tries of the reconciler, 2 script runs, 1 level hit, 1 crash |
| `sidecar` | Is every complete line published, history not, and what the saved cursor has passed never lost? And: does the validation lane show what was bought and not sold? | 2 logs, 3 lines of which one reports nothing, 1 restart of a trader, 1 crash; 2 threads, 3 requests, 2 BUYs, 1 end of the API |
| `sidecar_replay` | Is a line published at most once? No (finding). | 1 log, 1 line, 1 crash |
| `daily` | Do scheduler and cron keep the runners apart, mark the right day and retry failures? | 3 processes, 2 days, 2 faults |
| `daily_unearned` | Is a day marked only after a successful runner? No (finding, no fault needed). | 2 processes, 1 day |
| `forward_oos` | Do store, checkpoint, audit, gate and milestones of several runs agree, whatever fails, dies or is appended by hand between their writes, and does evidence arrive? | one market of four views (two settings, a gap open or filled), 2 hours, milestones at 1 and 2 trades; per behaviour an append by hand, or a filled gap and a fault, or a file restored or removed, a second manifest and a fault |
| `forward_accepted` | Has an accepted candidate passed the validation it was judged by? No (finding, no fault needed). | the same market, nothing disturbs it |

Why the bounds are enough. Two traders show every interference the loop allows
(one is ahead, one behind in the sweep), one guarded and one not; three BUYs let
a trader lose one, trade again and meet the rest of the first; two faults let a
crash follow a lost answer or a failed write, which is where the recovery code is
itself interrupted. A lot of two units has a proper part. Half-line offsets show
a torn line; three lines over two logs show a crash between the logs of one
poll. Two days show a run across midnight; three processes are cron's runner,
the scheduler's and an orphan. One position of each origin shows the trading
process against each other writer of its row; with two tries a position can change between them. Two
requests can overlap in every pair of kinds, and the third sees what the two
left. An hour of the forward market stands for the hours between two runs: the
second run sees what the first one left, and the views differ in which trades
there are, in the content of one and in what a later hour adds. What
the theorems of section 5 state holds without these bounds: there they are
parameters.

Deadlock is checked where the processes are never all stuck: in the trader runs,
in `sidecar` and in `forward_oos`. It is off in `daily`, where the clock stops at
its bound, and in `position_file`, where a halted trading process waits for an
operator.

What the properties are for:

- `TrackedOrBlocked`, `BooksTellTheTruth`, `NeverSoldTwice`,
  `OneExposurePerTrader`: crashes, lost acknowledgements and order lists that
  fill on their own never lead to forgotten, invented or doubly sold coins.
- `ProtectedBeforeDecision`, `ProtectionEstablished`: a crash between a BUY and
  its order list does not leave a naked position that trading goes on with.
- `JournaledBeforeSubmit`, `AttemptResolved`: the write-ahead journal, and that
  an open attempt ends as FINALIZED or as a halt an operator sees.
- `BooksMatchExchange` (Futures): the same for the netted short account, and no
  order adds to a short.
- `BooksMatchExchange`, `BoughtIsTracked`, `ClosedIsFinal`, `ToldBeforeMarked`
  (position file): a lost update brings back an older row but never makes one up,
  and none counts as reconciled without its exit and its PnL;
  coins drop out of the file, and a closed row opens again, only when a save
  really fell between another writer's load and save (`clobbered`), the order
  script's BUY was refused by the store or died before it, a dry run restored the
  file it loaded, or the monitor marked a legacy position.
- `ViewCatchesUp`, `CloseTold`, `ClosedIsNotActive`: what the stream tells,
  against the files, while the trader dies before it publishes, the sidecar
  repeats or loses lines and the viewer reads half a record.
- `ValidationLossIsTold`: the validation lane never shows two open positions;
  what it shows wrongly was an error of a caller's order or needs overlapping
  requests.
- `MilestoneAudited`: a milestone counts the trades the daily replay finds up to
  the hour it names, with or without a filled gap. An append by hand is the one
  thing that can make it count others, in two ways the property tells apart: it
  adds trades (of another warm-up or fee, of an earlier boundary, or closed at the
  opening price of a candle that has just begun) whose order_ids raise no
  conflict, or it writes back a store it loaded before the script wrote and drops
  what the script had appended (`byHand`). The store's conflict check does not
  see either: another warm-up or a filled gap gives most trades another order_id,
  not another content.
- `OneFrozenContract`, `EvidenceRecorded`: all milestones are judged with one
  manifest, and while nobody disturbs the evidence every milestone is recorded and
  told.
- `HealthyIsConsistent`: between two runs a HEALTHY dashboard shows files of one
  run, if the scheduler has written down how the last script ended (`heard`).
  `last_result` is written after the script, by another process: it says SUCCESS
  of an older run when cron started the last one, when the scheduler died with its
  script, and when a skip on a stale lock (finding 5) exits 0. In these cases the
  dashboard may say HEALTHY of files a dead stage left apart, for the 30 hours
  until they are stale; the model has all three.
- `ConsumedIsPublished`, `ReplayNeedsCrash`, `HistoryNotReplayed`,
  `LineDelivered`: at-least-once delivery with the cursor as commit point. The
  one exception in them is real: a log that was truncated in place and outgrew
  the old offset before the next poll cannot be told from the old one (`skipped`).
- `OneRunnerAtWork`, `StaleLockNeedsKill`, `MarkedDayHandled`,
  `SuccessesBounded`, `FailedAttemptRetried`: lock, exit status and state file.
  `run_phase562_termux_scheduler.py:22` describes the scheduler as making "at most
  one successful run per local day". That is so for a scheduler alone that does
  not die between a run and its state; `SuccessesBounded` states what remains with
  cron beside it and with deaths: one run, one of cron's, and one per fault.

Every property of a passing run has a mutant of a mapped definition under which
TLC finds it violated.

### Findings

1. README.md:214 "The same candle cannot submit the same BUY repeatedly":
   `finalize_order_attempt` and `mark_candle_processed` are two writes, and a
   crash between them after the BUY and again after the SELL repeats the candle.
2. README.md:219 "If the process dies or the order result becomes uncertain,
   automation halts": an open attempt stops its own trader, at its next turn;
   others trade meanwhile.
3. `binance_futures_testnet.py:339` replaces a missing average price by a
   reference price, so the check for missing fill data in `_close_short` can
   never fail, and the filled quantity of a close is not looked at.
4. HERMES3D_TRADING_ROOM.md:36 "restarting the sidecar does not replay
   already-consumed lines": it does after a crash before the save.
5. `run_phase562_daily.sh:23` exits 0 when it skips, and `daily_scheduler.py`
   marks the day, contrary to its comment at line 124. For the same reason a lock
   left by a kill makes every later day count as done.
6. `frozen_oos_validation.py:327` requires every structural check to be true, and
   one of them, `oos_retuning`, is the constant False: the checkpoint's state is
   FAIL whatever the trades are, while the gate, which reads that field as
   negative, may say ACCEPT for the same trades.

What the models show besides, where no document says otherwise:

- Two overlapping exits of the validation trade sell twice; a sample that
  overlaps an exit saves the rows it loaded and reopens the position; two
  overlapping entries both buy, and the second caller gets an HTTP error while
  its coins are in no file. A lost BUY answer leaves nothing, and the next entry
  buys again: this lane has no journal.
- A monitor that meets an open `triple_ema` position (`take_profit` None) raises
  before it sends pending notifications, in every round.
- A replay with another warm-up (300 candles by default by hand, 288 in the daily
  script) or after the exchange has filled a gap finds other trades. Where an
  order_id stays and its content does not, the append ends with "immutable
  research trade conflict" in every later run; where the order_ids differ, which
  is the usual case, the old trades stay in the store next to the new ones, and
  checkpoint, audit and milestones count both.
- `last_result` of the research scheduler does not describe the last run of the
  script (see `HealthyIsConsistent`).
- A candidate that never loses has no profit factor and is rejected.
- The simulator's CIRCUIT_BREAKER takes the key of the baseline trader, so that
  the real halt of a legacy trader is not told to that viewer (events.py:99, 194).
  A STRATEGY exit of a legacy trader triggers neither event nor snapshot. A
  record read halfway is lost to that viewer (journal.py:384). A halted trader
  that is restarted publishes its halt again, and ORDER_OPEN may be told twice.

## 4. Fairness

- Traders: weak fairness of the process as a whole, restart included.
  `docker-compose.runtime.yml` says `restart: unless-stopped` for both, and each
  call has a timeout. The Termux launcher restarts nothing, so there the liveness
  properties hold up to the next crash only. No fairness of the exchange, of faults or of any choice
  within a step.
- Sidecar: weak fairness of its steps while it runs. The launcher does not
  restart it, so `LineDelivered` gives up when it is down.
- Daily research: weak fairness of the scheduler's steps and of each runner's
  (the requests of its stages have timeouts). Nothing restarts the scheduler, and
  nothing makes a runner succeed.
- Forward evidence: the clock goes on, the scheduler starts the script
  (`DailyResearch`) and writes down its exit code, and no stage hangs, which is
  the timeout of its requests. Stages, script and scheduler may die as often as
  the budget of faults says, any number in the proofs. Nobody has to remove a
  stale lock: `EvidenceRecorded` gives up while there is one.
- Live room: weak fairness of the API's stream while a viewer is connected and of
  a trader that runs. None of the sidecar, of the viewer or of the simulator.
- None for the position file, where only safety is checked, and none for the
  validation trade: nobody has to send a request.

## 5. What is proved

TLAPS checks the proofs for every value of the constants that satisfies the
named assumption of the module (the bounds are natural numbers; guarded traders
have a fixed exit, as in `build_traders`; processes and files are finite sets
where they are counted). Every safety property of a passing run, invariant or
action property, is a theorem, and so are both refinements. Where a property is
not inductive, which is nearly everywhere, the module proves a stronger invariant
and TLC has checked that one first.

| Module | Theorems | Assumed besides |
|---|---|---|
| `SpotAutoTrader_proofs` | `TypeOK`, `TrackedOrBlocked`, `NeverSoldTwice`, `BooksTellTheTruth`, `OneExposurePerTrader`, `ProtectedBeforeDecision`, `JournaledBeforeSubmit`, `ImplementsFailClosed` | nothing |
| `FuturesRoom_proofs` | `TypeOK`, `RoomTypeOK`, `JournaledBeforeSubmit`, `ClosedIsNotActive`; `BooksMatchExchange`, `ImplementsFailClosed` | the last two: `Complete` |
| `SpotPositionFile_proofs` | `TypeOK`, `ToldBeforeMarked`, `BooksMatchExchange`, `BoughtIsTracked`, `ClosedIsFinal` | nothing |
| `TradingRuntime_proofs`, `Phase41Validation_proofs` | `RuntimeTypeOK`, `ConsumedIsPublished`, `ReplayNeedsCrash`, `HistoryNotReplayed`, `ValidationLossIsTold` | nothing |
| `DailyResearch_proofs` | `TypeOK`, `OneRunnerAtWork`, `StaleLockNeedsKill`, `MarkedDayHandled`, `SuccessesBounded` | nothing |
| `ForwardOos_proofs` | `TypeOK`, `MilestoneAudited`, `OneFrozenContract`, `HealthyIsConsistent` | nothing |

**Spot traders.** `IInv` adds to the types and the properties:

- `OrdersAgree` ties an order list to the position it protects (ACTIVE only
  behind an open, unsold position; FILLED means sold). Without it a list could
  fill for coins the engine has sold.
- `BooksAgree`: a trader that is not blocked has clean books. It is what a
  crash must restore, and it holds because the attempt is open, hence the
  trader blocked, from the journal entry to the record.
- `OneLive`: one unresolved or untracked entry per trader.
- `ControlInv`: what each program point may rely on; for example at "submit" the
  attempt is SUBMITTING and the trader has no live entry (BUY) or holds a
  position without order list (SELL). Without it a step would have to re-check
  what `run_once` checked several steps earlier.

The step case has one lemma per kind of action: steps that touch neither books
nor exchange, writes of the state file, decisions, writes of the position file,
orders, order lists. `StoreLemmas` states what each store method returns. For the
refinement: under `IInv` a trader has at most one live entry, so the mapped
exposure and tracked are read off that entry; each step then moves one trader by
one abstract action or stutters (`Lift`).

**Futures trader.** The invariant has two layers. `IInv` needs no assumption: one
entry at most is live (executed and not CLOSED in the file), a trader that is
ready has recorded it, and each program point finds what the earlier ones
checked. It gives `NoEntryUntracked` whatever a close leaves open. `Books` relates
that entry to what the account is short, and is kept only if a market close
executes completely (`Complete`, that is `Leftovers = {0}`): the code does not look
at the filled quantity of a close (finding 3), and the run `futures_expired`,
which differs in nothing else, breaks it. So `BooksMatchExchange` and the
refinement are theorems under `Complete`, the value the run `futures_short` gives.

**Live room.** The room's halves touch no variable of the trader, so `RoomSpec`
implements `Spec` and the theorems carry over (`TraderAlone`). `RInv` says that a
record of a close closes the trade in the snapshot for good, and that a trade
closed in the file, by a trader that publishes and has had no failed round, either
is closed in the snapshot or has its record as the only one still to append.

**Position file.** A stale save brings a whole older list back, so an invariant
about the file alone is not kept. `RowsInv` is about every list there is: the
file, the copy of each call, the rows a script loaded before its work. Their rows
and the arguments of calls under way (`Sound`) only mention facts of the exchange
that stay so (`Grows`), so neither ages while its process waits. `BoughtInv`
follows the one BUY the trading process has not recorded through its journal.

**Sidecar.** Line k of a log lies at its half lines 2k-1 and 2k. `CursorInv` says
of the saved cursor and of the one in memory that the lines they have passed are
known (published, from before the first start, or noise) and that ignored
lines lie before them; `HandleInv` the same of an open handle, whose log may have
begun anew since; `ReplayInv` that a line was published as often as the process
died, or once more and the process's own cursor is behind it. The third is why a
line is not read twice by one process; it is not about the saved cursor, which a
crash falls back to.

**Validation trade.** `RowsInv` again covers every list a request works on.
`EntryInv` follows one entry that no request has lost, undone or raced for: the
file agrees with what was bought and sold but between the order and the save of
the one request at work on it. `SalesInv` counts: each SELL spends a request.
The proofs are about `Phase41Validation` on its own; `TradingRuntime_proofs`
instantiates them and shows that the lane of the composition is the same one
(`SameLane`).

**Daily research.** A runner at work holds the lock (`LockInv`), and a scheduler
that waits, or has read status 0, does so for a runner started for `date`
(`WaitInv`); without the second a run that ends after midnight could mark a day
nobody worked on. `SuccessesBounded` needs a count: the complete runs of a day,
plus its runners nobody waits for, plus one if the scheduler may still start or
wait for one, stay within one, the faults and cron's one (`CountInv`).

**Forward evidence.** The store, what the script is about to write and what an
append by hand has in memory hold trades of some view of the market, and without
appends by hand only those the daily replay finds (`StoreInv`). An append of the
script that has come to its end has stored all of them for its hour, unless an
append by hand has dropped some (`AppendInv`), so the checkpoint written behind it
counts them (`CheckpointInv`); the audit passes only with that count, and the gate
behind it, whose load may see a store changed since, is again held against it by
what is known of the store (`StageInv`): so the milestone stage writes a true
entry. Without `AppendInv` a store filled halfway by a run that died could be the
one a checkpoint counts. `SchedulerInv` says what the scheduler's exit code, or
the result it has written, stands for: that the script it started has come to its
end and left the three counts equal, which no death between two writes can claim.

Only model-checked: the liveness properties (`AttemptResolved`,
`ProtectionEstablished`, `ViewCatchesUp`, `CloseTold`, `LineDelivered`,
`FailedAttemptRetried`, `EvidenceRecorded`), because fairness and ENABLED are out of
the prover's reach, and the findings, which are counterexamples. Induction over
data and RECURSIVE operators are out of reach too; no module needs them: the live
room applies the records of a series, one or two, one by one.

## 6. Not modelled

No state, or floating-point data without control: formatting, Decimal rounding
and market filters, request signing, LINE text, indicators, the fit of the
machine-learning models, offline research, backtest, analytics and performance
reports, the office user interface. The paper portfolio and the risk limits are
left for numeric modules (plan).

Left out of a modelled part:

- Spot: a sale that executes only in part.
- Position file: at most two writers at a time besides the exchange (trading
  process with scripts, or with the monitor); a Testnet reset once, next to the
  scripts; the audit's reads of the exchange are one step; a process with an
  unfinished journal stops until it is restarted; the temporary file name the
  writers share; the order of the list but for legacy rows, which come first. The
  observer's and the attempt's fields are not kept, their saves put back the
  loaded rows; that a quarantined row's EXCHANGE_HISTORY_LOST is overwritten by a
  reconciler that loaded it before (`position_store.py:390`) is in the model, and no
  property forbids it. The monitor's liveness is not checked: over three processes it
  takes longer than a run may, and with an open `triple_ema` position it fails.
- Validation: the temporary file name its threads share
  (`position_store.py:22-26`): a replace that fails because the other thread's came
  first, or that takes the other's bytes; quantities; the number of the reconciler's retries (any); RECONCILED
  stands for both terminal statuses. The account holds other coins, so a second
  SELL executes.
- Live room: the journal's 1 MB window, heartbeats, a second order at once,
  several viewers (they share nothing), the start of a halted trader; the
  snapshot reads both files at once; the records of one echoed line are one step.
- Forward evidence: one script at a time (`DailyResearch` proves the lock); files
  are restored, removed or frozen anew between two runs only; of an append by hand
  the fetch and the first load are one step, and a skip on the lock and the
  SUCCESS written of it; hashes of stores and history; what candidates contain
  beyond their trades; a counter of runs that is never reset by hand.

## 7. Plan

1. Done: stores, spot traders, abstract trader, safety and refinement proofs;
   position file under all writers; sidecar, live room; daily lock and scheduler
   with proofs; forward evidence with proofs; validation trade.
2. Done: Futures trader, live room, position file, sidecar and validation trade
   with proofs.
3. Proofs worth adding: the safety parts of the liveness arguments, that what a
   waiting process waits for is there (an open attempt leaves a program point that
   resolves it or a process that is down, a row to be notified a monitor that
   still has it).
4. Paper portfolio under concurrent requests, risk limits and backtest loop as
   bounded numeric modules; office rebuild of the launcher.
