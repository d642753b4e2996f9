# TradeHive: TLA+ models and proofs

TradeHive trades short-dated option contracts around the clock. This directory
holds TLA+ models of the parts that decide what it does with money and with its
own state, the TLC runs that check them on small instances, and theorems about
most of them that TLAPS has checked for every instance. Paths are relative to the
repository (`src/`); `PROJECT.json` maps each definition to the lines it models.

```
tlc -workers 2 -config SupervisorSafety.cfg MCSupervisor      # a run
tlapm SupervisorProofs.tla                                    # the proofs
```

Contents: [1 inventory](#1-the-system), [2 modules](#2-modules-and-code),
[3 runs](#3-runs-bounds-results), [4 fairness](#4-fairness),
[5 findings](#5-findings), [6 proofs](#6-proofs),
[7 what is only model-checked](#7-what-is-only-model-checked),
[8 what is not modelled](#8-not-modelled), [9 plan](#9-plan).

## 1 The system

One process, started by systemd, holds one `HiveSupervisor` which owns one
`TradingRuntime`. The supervisor runs a loop: a heartbeat, then the handler of the
state it is in. The handler calls the runtime, which calls a broker over HTTP (or
the in-memory paper broker), the SQLite store and the JSON history. There is one
task, so nothing in the process runs in parallel with a handler; what does go on
during every `await` is the broker, the clock, and the possibility that the process
dies. systemd's watchdog is fed by the loop itself, from the heartbeat.

| Component | State it keeps | Operations | Interacts through |
|---|---|---|---|
| Supervisor (`bot/src/supervisor.rs`) | `state`, `checkpoint`, `retry_count` | `initialize_and_recover`, `step`, `emit_heartbeat`, `transition_to_verified`, `graceful_shutdown` | calls into the runtime; the checkpoint row |
| Watchdog (`supervisor.rs`, `cli/src/main.rs`, `deploy/systemd/trading-hive.service`) | `last_heartbeat`, `last_ping`, `last_progress`, the deadline of the start | heartbeat, ping, stall check, back-off | `sd_notify` to systemd, which ends and restarts the process |
| Trading runtime (`bot/src/lib.rs`) | bot plans, open trades, `active`, kill switch, statistics, session id | a market bar, a signal, an exit, reconcile, closing, liquidation, manufacturing | broker, store, risk, hive, history |
| Sizing (`bot/src/sizing.rs`) | none | quantity of an order | called by `handle_signal` |
| Execution and brokers (`execution`) | orders, positions, account (at the broker) | submit, cancel, poll, positions, open orders | HTTP; fills at any time |
| Risk governor (`risk`) | limits, kill switch | authorise an order on a portfolio snapshot | called with what the runtime has read |
| SQLite store (`storage/src/lib.rs`) | checkpoint, `open_trades`, `bot_plans`, idempotency, daily P/L | row reads and writes | survives the process |
| JSON history (`storage/src/json_history.rs`) | files, a lock file each | `record_*`, `upsert_bot`, `append_bot_event` | shared by the processes of a data directory |
| Hive (`hive`) | research notes, Q-tables | research, allocation, manufacturing | history, deployment |
| Deployment (`deployment`) | fleet of bots | create, promote, activate, retire | called while manufacturing |
| Backtest (`backtest`) | pending signal, position, trades | one bar at a time, two engines | none |
| Session clock (`domain/src/market_session.rs`) | none | holidays, trading days, phase of a time, next open and close | read by the supervisor |
| Market data feed (`market-data`, `domain/src/lib.rs`, `bot/src/lib.rs:721-775`) | seen events and the candle under way of each symbol; `event_keys` and `candles` rows | poll, `on_market_bar_at`, `push_event` | bars in; candles to the strategies; age of the last event to the supervisor |
| Domain types, options data, strategies | none | quotes, filters, signals | called by the runtime |
| Intelligence, research, memory | trade records in memory | reports | none that trades |
| State authority, sentinel, operations, reconcile | small stores | | used by no other crate |
| Command line (`cli`) | none | configuration, start | builds the supervisor |

What is hard here, and what makes each part correct:

* **Supervisor**: the process may die between any two writes, so the row must name
  the state before memory does; a save may fail, and the program often ignores
  that; a start initialises twice; the handlers read the phase of the market once
  and use it after long awaits. Correct: no crash loses a state, Halted is final,
  Learning is only entered flat, it never trades without bots or after an unexplained
  position, and a recovery or a finalization comes to an end.
* **Watchdog**: one loop feeds systemd, decides that it is stalled, and sleeps through
  a back-off that grows to some two and a half minutes (128 seconds and a fifth), while
  systemd waits for 30 seconds; a step that fails counts as a retry and does not sleep.
  Correct: systemd ends a process for a cause only, and what is lost is ended.
* **Feed**: every poll returns bars of the polls before; bars come late or never; a
  restart has forgotten what it built; one age stands for all symbols. Correct: no
  bar counts twice, none is lost between two polls, decisions are made on fresh
  candles.
* **Trading runtime, execution**: an order may be accepted though its answer is
  lost; a crash may hit between the fill, the row and the entry in memory; stops
  fill in parts while the runtime polls and cancels them. Correct: whatever is at
  the broker can be found again, stops never sell more than was bought, profit is
  counted once, an unknown position does not stay unnoticed.
* **Risk and sizing**: the portfolio is put together from three calls while fills
  go on, and resting orders become positions later. Correct: the limits hold.
* **Manufacturing**: a session may be prepared twice, rows are only added, a
  restart reads them back. Correct: capital and numbers stay within the policy, better
  bots get no less, and a retired bot stays retired.
* **History**: several processes read, change and replace a file. Correct: updates
  are applied whole and one after the other, and the lock is not forgotten.
* **Backtest**: a signal of one bar is acted on at a later one. Correct: no
  look-ahead, one position at a time, none held longer than configured, no signal lost.

The full list, line by line, is under "hazards" in `PROJECT.json`, each with the
properties that would show it going wrong, or the reason none does.

## 2 Modules and code

| Module | Models | Used by |
|---|---|---|
| `Lifecycle` | the promise of the supervisor: its states, its edges, the row that moves with them | `Supervisor` |
| `Supervisor` | `HiveSupervisor` driving a runtime whose positions are held or not | `MCSupervisor`, `SupervisorProofs` |
| `Watchdog` | the loop of the supervisor in seconds, and systemd around it | `MCWatchdog`, `WatchdogProofs` |
| `MarketSession` | the calendar and the clock of a session, as operators | `Feed` |
| `Feed` | the Trading tick, polls, bars, candles, the age of the data | `MCFeed`, `FeedProofs` |
| `Trade` | trades in one contract, with quantities: buy, protect, sell, reconcile, crash | `MCTrade`, `TradeProofs` |
| `Exposure` | reading the account, sizing, risk checks, fills in between | `MCExposure`, `ExposureProofs` |
| `Manufacturing` | sharing out capital, plans, their rows, the fleet | `MCManufacturing`, `ManufacturingProofs` |
| `HistoryLog`, `History` | the promise of a history file, and the lock and rename that keep it | `MCHistory`, `HistoryProofs` |
| `Backtest` | the bar loops of both engines | `MCBacktest`, `BacktestProofs` |

The same code is seen from different sides. `handle_signal` is in `Supervisor`
(what it does to the set of open trades and orders), in `Trade` (the order in
which store, broker and memory are written) and in `Exposure` (what it had read).
Joining them would multiply their states; each property is about the side its
module keeps in full. What one side leaves to another is any outcome the other may
have: `Supervisor` lets a buy fill at once, rest, or be refused. In the same way
`step` of the supervisor is in `Supervisor` (what it does to rows, plans and
trades), in `Watchdog` (what it costs in seconds) and in `Feed` (the tick of
Trading, which polls).

Definitions called *Variant* are not part of any specification. Each stands before
the definition it replaces and is that code with a plausible error in it;
"mutants" in `PROJECT.json` says which property finds it.

### Supervisor

A position is a contract that is held or not. `proc` says what the process is doing
(`down`, the two initialisations of a start, `run`, `stopping`) and `pc` how far a
handler with several awaits has come; between two values of `pc` orders fill, the
phase moves on, services break, the process dies. `state`, `cp`, `retry` are the
supervisor's fields and `disk` the checkpoint row. `tracked` are the trades in
memory and `stored` their rows; `guarded` those whose protective order id is
known, and `hit` those whose protective order has filled.

| Action | Code |
|---|---|
| `Boot`, `Initialize` | `TradingRuntime::new`, `initialize_and_recover` (called by `main` and again by `run_supervised`) |
| `Heartbeat`, `Stall` | `emit_heartbeat` with and without progress |
| `StepStarting` ... `StepRecovering` | the handlers of `step`, one per state |
| `StepError` | what `run_supervised` does with an `Err` |
| `Interrupt`, `Shutdown` | SIGINT, `graceful_shutdown` |
| `Crash` | the process is gone: a panic, the machine, and SIGTERM too, for which there is no handler |
| `Enter`, `Refused` | `transition_to_verified` with a save that works, or fails |
| `Reconcile` | `TradingRuntime::reconcile` |
| `World` | fills, the clock, outages |

Choices made: a service that is `faulty` may fail each call or not. The day is cut
into the phases of the default configuration; `WaitingForNextSession` is `Dawn`
before a session and `Night` after it, and a day off goes from the one to the other.
A session id is a local date, thus `day`. All orders are day orders. An event of an
earlier day is always stale and one of the same day may be. In `Reconcile` the
positions are read first and orders may fill before the trades are looked at, as
in the code. A trade that ends leaves memory before its row does, and the row may not
go (`Dropped`). `synced` and `alarmed` are history variables. Left out because nothing
reaches them: Trading without plans (`supervisor.rs:1068`), a step in ShuttingDown.

### Lifecycle

What a reader of `SupervisorState` and `transition_to_verified` would say the
supervisor does, in three variables and no word of clocks, retries or trades:
`Edges` are the transitions between states, `Go` moves the state and the row at
once, `Assess` is a start (a row that says Halted is taken over, any other is
recovered from), `End` a crash or an exit. `Supervisor` implements it:
`Promise == INSTANCE Lifecycle WITH life <- Life, state <- state, row <- disk.sup`,
where `Life` forgets how far a handler has come, and `FollowsLifecycle ==
Promise!Spec`. Every await inside a handler is a stutter of `Lifecycle`; a save that
fails is one, too, since then neither state nor row move.

### Watchdog

Seconds instead of trades. A start is `InitReady`, `InitRecovering`, `InitHalted` or
`InitUnreadable`, twice over (`main` and `run_supervised`); a step is its head (`HeadEarly`,
`HeadHealthy`, `HeadStalled`: `emit_heartbeat`) and its body, whose `Costs` are the
work and the sleep of the state. Ages are counted in seconds since the event they
are the age of, as far as anybody compares them. `Ended` is systemd: `WatchdogSec`
since the last `WATCHDOG=1`, or systemd's default start timeout without a `READY=1`, after which
`Boot` (`Restart=always`). A process that nobody manages (`managed = FALSE`) feeds
nothing and is ended by nobody. `Break` is a broker whose positions will never match
again. Finalizing and Learning are one state, `Closing`: they cost the same.

A store may refuse saves (`Outage`; it is `back` again, or never). Every transition is
`Enters`, or `Refused` and nothing changes. A handler whose transition is refused returns an
`Err`, as does a tick to which the broker does not tell the clock, and `run_supervised`
counts it (`StepError`): one retry more, the budget judged, and no sleep. How long that
takes is up to SQLite: nothing when the disk is full, the `busy_timeout` of five seconds when
another process holds the lock (`Refusal`). A failure of preparing, closing or recovering
is judged by the same `check_retry_budget` (`Failed`), and a recovery then backs off.

### MarketSession and Feed

`MarketSession` is the calendar (`Holidays`, `Observed`, `Easter`, `IsTradingDay`) and
the phases of a day (`PhaseAt`, `IsOpen`, `NextMarketOpen`...) as operators on a day
number and a minute; the time zone is left to chrono.

`Feed` lets the minutes `Pass`, in which bars are published, late, or never, and runs
the tick of Trading over them: `TickHalt`, `TickClosed` or `TickBegin` are what the
health check and the clock decide (the broker's own clock, when it fails or is closed,
makes a tick that polls nothing, and a minute without a tick is allowed anyway), `Poll` fetches the window of the next symbol,
`TickEnd` ends it. A bar that was fetched is fed by one of `FeedUnreserved` (its key
cannot be written), `FeedDropped` (`push_event` has seen it, or a later one),
`FeedGrows` (the candle under way) and `FeedCompletes` (it starts the next candle; the
one before is saved and decided on). `Crash` is anywhere, and may fall between the key
of a bar and its candle. Time is the minute of the day: a tick takes less than one,
since systemd ends a process that is silent for 30 seconds.

### Trade

One contract, entry orders of `Lots` contracts. `order` and `pos` are the broker's,
`row` and `idem` the store's, `mem` the trade in memory, and `t`, `n`, `q` the local
variables of the handler at `pc`. The clone `t` matters: `manage_open_trade` works on
a clone it took before its awaits and writes the trade back. `AsRow` drops
`last_protective_filled_qty`, which has no column. `Entry` is `handle_signal`,
`Manage` and `Exit` are `manage_open_trade`, `Closing` is `execute_market_closing`
and `Reconcile` is `reconcile` with the reserved orders it looks up (`Resolved`).
A fault is one failed write or one lost answer, wherever one can be; a fill without a
price, of which nothing is booked, is a fault too. Most failing writes end the handler. Some
are ignored: the row of `daily_realized` (`Uncounted`) but after an exit, and the answer to a
flattening order (`Answered`), which is written at the latest when the faults are used up.
An order whose FAILED cannot be written stays reserved (`Failed`). A flattening order that is
rejected, cancelled or expired engages the kill switch (`FlattenRejected`). `CrashSubmitted`
is the crash after the broker took an order and before anything was written, and
`CrashProtecting` the same for the stop that reconcile sends. The stop (`Protect`) may
be looked up and found, sent and recorded, sent and its answer lost, or, when the
look-up fails, sent again. The
paper broker fills a limit sell at once and Alpaca's may rest; the model allows both.
A protective order that is submitted again has the same client order id, so the
broker refuses it.

### Exposure

Money in whole units, prices fixed, several contracts on a few underlyings.
`ReadPositions`, `ReadAccount`, `ReadOrders` are the three calls of `handle_signal`,
with fills between them; `Sized` is the sizing, where volatility, confidence
and correlation may only make the quantity smaller, hence any `byRisk`; `Authorized`
is the part of `authorize_with_stop` that depends on other orders. The checks on one
order alone can only refuse it: `Refuse`. Stops are counted as exposure, as in the
code (their `reduce_only` is false), and a partly filled order with its whole
quantity. The stop price is lost on the way to the governor (`bot/src/lib.rs:1764`), so a stop
is counted at the mark of the position that was read, and at 1.0 where none was
(`StopReference`, `BasePrice`).

### Manufacturing

`Batches` are the plans that `allocate_candidates` and
`manufacture_promoted_bots_for_session` return for any confidences and any
contracts: rank, select within the numbers, share the capital by confidence under
the cap of the symbol. A ranking is a function from ranks to candidates, in any
order where confidences are equal; a batch is a function from those ranks that became
plans. The two loops of `allocate_candidates` go down the ranks and decide each by what was
decided above it. `Selected` and `Shared` state that rule for all ranks at once: the set of
ranks, and the capital of each, that satisfy it, of which there is one. `MCManufacturing`
checks them against the loops (`LoopsAgree`). `Prepare`, `Make` (one plan: row, fleet, memory), `Activate`,
`Recover`, `NextDay`, `Close` and `Restart` are what a session does to the rows of
`bot_plans`, to the plans in memory and to the `BotFleet`. `saved` is the session in
the checkpoint. A row that cannot be written ends the preparation and leaves those
before it. A preparation before the open ends in waiting, and the next one comes at
once, `idle` here; in an open market it ends in `trading`. The version and the
configuration of a strategy, part of a candidate's identity, are left out: a symbol has
each strategy once.

### History and HistoryLog

`HistoryLog` changes the file by whole updates. In `History` a process creates the
lock file (`Acquire`, or `Busy` up to `Tries` times), reads the file and changes its
copy, renames a temporary file over it and removes the lock. Each operation may
fail, each process may die. One file is modelled, since each has its own lock;
`record_*` is an update of a new id. `Atomic == Log!Spec` states that `History`
implements `HistoryLog` (the file is mapped to itself).

### Backtest

The loop of both engines over bars that have a bid, an ask, a signal, or not:
exits, then the pending entry when it has waited `latency` bars, then the new signal.
`options` says which engine. Prices, costs and statistics are left out. `Delay` is the
code's `latency.max(1)`; `NoLookAhead` is stated without it: by the configured latency, and
never at the bar of the signal.

## 3 Runs, bounds, results

| Run | Instance | Shows |
|---|---|---|
| `supervisor_safety` | 1 contract, 2 days, 2 retries, 1 outage, 1 stop; the second day only without an outage (`FewFaults`) | `DurabilityFirst`, `TradesSurviveCrash`, `TradingHasPlans`, `FollowsLifecycle`, `FinalizedFlat`, `PlansFollowMatch`, `MismatchStopsEntries` |
| `supervisor_liveness` | 1 contract, 1 day, 2 retries, 1 outage, fair | `RecoveryDecides`, `FinalizationDecides` |
| `watchdog` | the intervals of the code and of the unit file, a stall after 30 seconds, a budget of 7, steps of 5, 15 or 60 seconds, outages of the store without number, fair | `BudgetOutOfReach`, `EndedForCause`, `StallIsFatal`, `BudgetIsSpent`, `UnreadyIsEnded` |
| `feed_candles` | 2 symbols, candles of 2 minutes, window of 2, age of 120 seconds, minutes 950 to 956 before a close at 961, bars up to 3 minutes late, 2 gaps, 1 trouble | `TypeOK`, `NoBarTwice`, `WholeCandles`, `DecisionFresh`; and the calendar (below) |
| `trade_crashes` | 2 lots, 2 entries, 1 exit, 1 crash, 1 fault, fair | `TypeOK`, `ReservedFirst`, `FailedIsAbsent`, `StopsCovered`, `RowIsCurrent`, `Noticed` |
| `exposure_limits` | 3 contracts on 2 underlyings, 3 buys, limits 5 and 4, 2 positions | `TypeOK`, `WithinLimits`, `AtMostTwice`, `PositionsWithinLimit` |
| `manufacturing_budget` | 2 symbols by 2 strategies, capital 8, cap 5, 3 bots, 2 a symbol, 2 days, 2 preparations, 1 restart | `TypeOK`, `BudgetKept`, `BetterGetsMore`, `RetiredIsFinal` |
| `history_lock` | 2 processes, 2 records, 1 event, 2 tries, 1 crash, 1 fault, fair | `OneWriter`, `StaleNeedsCrash`, `Atomic`, `LockReleased` |
| `backtest_loop` | 5 bars, holds 1 and 2, latency 0 to 2, both engines | `NoLookAhead`, `OneAtATime`, `HoldBounded`, `SignalsTaken` |
| `halt_lost` | 1 day, 3 retries, 1 outage, 1 stop | fails `HaltIsDurable` |
| `partial_counted_twice` | 2 lots, 1 entry, 1 exit | fails `RealizedOnce` |
| `silent_halt` | as `feed_candles`, 1 symbol, the program's age of 30 seconds | fails `HaltMeansSilence` |

Why these bounds. *Supervisor*: handlers treat the contracts of a set alike, one at a
time, and the properties quantify over single contracts, so one is enough for TLC;
the proofs are for any set. One outage lasts as long as it likes and is
enough to fail any number of consecutive calls; a second stop adds nothing that the
`Init` of a new process does not have, since the first may come anywhere. Two days
are needed for plans and events of the day before; an outage and a second day are not
combined, to keep the run within minutes. Two retries tell "again" from
"budget spent", in the liveness run too: the first failure backs off and is tried again,
the second halts. *Watchdog*: every interval is the one of the code or of the unit file
but `Stall`, which is 120 seconds there: at 30 the stall is reached in fewer states,
in the same order (after `Heartbeat`, after `WatchdogSec`), and the budget, which is 10: seven is
the least above six, at which the back-off stops growing. Steps of 5, 15 and 60 seconds
are shorter than what a heartbeat leaves of `WatchdogSec`, exactly that, and longer
than all of it. `Outage` begins and ends between steps and may refuse any save in between,
so it also stands for shorter ones; whole seconds do not tell `last_heartbeat` from
`last_ping`, which is set microseconds later: a ping skipped by that is out of the model. *Feed*: two minutes make a candle
with an inside and an edge, and a window that overlaps the one before; the seven
minutes hold three candles and the change to MarketClosing; a bar may be late by more
than the window; a second symbol is needed because one age stands for both. 120
seconds are the least age with which a tick after the turn of a minute can go on at all
(finding 3).
*Trade*: two lots are the least that fill in parts, the second entry
is the trade that follows one a crash or a stop has ended. *Exposure*: two
contracts of one underlying and one of another tell the total from the limit of a
symbol; three buys are one more than the limits allow, and prices of 1 and 2
make the limits bind unevenly. *Manufacturing*: three bots of four candidates make
both limits and the spill-over happen, two preparations may be of one day or of
two, and a restart comes anywhere. Symbols and strategies are alike there
(`Symmetry`): candidates of equal confidence come in any order, so nothing tells one from
another, and the properties are about single states and steps. *History*: two tries
tell the last attempt from others, two records tell an update lost from one applied.
*Backtest*: five bars hold a signal, the longest latency, the longest hold and one
more signal.

The calendar is checked by the assumptions of `MCFeed`, which TLC evaluates with the two
runs of it: Easter against the church's tables of full moons for 300 years
(`EasterAsTabled`), dates against their succession (`DatesCount`), and that no holiday is
observed on a weekend and no break is longer than the search of `next_trading_date`
goes in the model (`Breaks`). In the same way `LoopsAgree` of `MCManufacturing` compares, for
every ranking of the instance, `Selected` and `Shared` with the loops of
`allocate_candidates` written as folds.

Deadlock is checked except in `backtest_loop`, which ends after the last bar, in
`manufacturing_budget`, which ends when the preparations and days that are
explored are used up, in the runs of `Feed`, which end with the last minute or a halt,
and in `watchdog`: a process that nobody manages and that died stays down.

The types of `Supervisor`, `Watchdog`, `History` and `Backtest` are theorems, so no run
spends a property on them.

What holds is worth reading closely:

* `BudgetOutOfReach`: under systemd, and as long as the store takes every save, the
  budget is never used up. The back-off grows beyond the 30 seconds systemd waits, so the
  process is ended and starts again with its count at zero: a runtime that cannot recover
  is restarted for ever and never Halted by its budget. Without systemd it is
  (`BudgetIsSpent`). The premise about the store is needed: while it refuses saves, every
  step that changes the state fails, is counted and does not sleep (`supervisor.rs:1521`), so the ten
  retries are spent within moments, under systemd too, and the process halts on its budget
  as soon as the store takes that (`supervisor.rs:813`).
* `StallIsFatal`: a runtime that is found stalled is not saved by the recovery it is
  sent to: it withheld one ping, and the back-off lasts past the next.
* `UnreadyIsEnded`: a start that did not match sends no `READY=1`, a later recovery does
  not either, so that systemd ends it after 90 seconds though it trades; and a process
  that is Halted from its row is restarted every 90 seconds.
* `WithinLimits` has the premise that no buy fills
  between two reads of a signal; without it only `AtMostTwice` holds.
  `PositionsWithinLimit` holds while buys fill when they are sent: `MAX_POSITIONS`
  counts positions, and buys that rest are no positions yet.
* `FailedIsAbsent` has the premise that no answer is lost: with one, the store may say
  FAILED of an order that the broker has, and `Noticed` says what happens then.
* `BudgetKept` has the premise that no day was prepared twice or the process not
  restarted: rows of `bot_plans` are never removed (`storage/src/lib.rs:639`), so that
  after a second preparation of a session a restart brings back the bots of both. That is
  no rare case: before the open a session is prepared again and again
  (`supervisor.rs:917`, `:1059`).
* `WholeCandles` has the premise that nothing crashed or failed: a bar whose key is
  written and whose process dies is in no candle, ever (`bot/src/lib.rs:742`). That is
  the price of `NoBarTwice`.
* `DecisionFresh` says of two symbols that one of them is fresh: a symbol whose bars
  stopped is decided on late as long as another has recent ones.

## 4 Fairness

* `Supervisor!FairSpec`: the loop, the two initialisations and the shutdown go on
  as long as they can (one task on a runtime that schedules it; each handler has
  timeouts in its HTTP client), systemd starts the process again
  (`Restart=always`), and an outage ends at some time. Nothing is assumed about
  fills, the clock, or the heartbeat.
* `Watchdog!FairSpec`: the loop runs (`Start`, `Head`, `Body`), systemd starts the
  process again (`Boot`). That the broker or the store breaks, that it does not, or that
  a store comes back is not assumed; what a store that refuses for ever withholds is
  in the conclusion of `BudgetIsSpent`.
* `Trade!FairSpec`: a handler that has begun goes on, a process that died comes
  back, and a reconciliation begins again and again (each session starts with one)
  and ends. A new entry, an exit's condition, fills and cancellations need not come.
* `History!FairSpec`: a process that is in an update and alive goes on. That it
  gets the lock is not assumed: it may give up.

## 5 Findings

1. **A halt can be lost** (`halt_lost`, `bot/src/supervisor.rs:597`). A start that finds
   the Halted row ignores the failure of its save and keeps the default checkpoint in
   memory, which the next heartbeat writes over the Halted row. The next start
   recovers and trades. The test at `bot/tests/supervisor_suite.rs:355` says it must
   remain Halted.
2. **Profit is counted twice** (`partial_counted_twice`, `bot/src/lib.rs:1267`). A
   protective order that fills in parts is counted part by part by the watch, and
   as a whole by the poll of its cancellation and by reconcile. `bot/src/lib.rs:988`
   claims to "handle protective order partial fills correctly".
3. **The supervisor halts on data that arrived in time** (`silent_halt`,
   `supervisor.rs:1121`). A bar is polled when its minute is over, and its age counts
   from the start of that minute (`bot/src/lib.rs:748`), so that the newest bar is at
   least 60 seconds old; the limit `max_quote_age_secs` is 30 (`bot/src/lib.rs:62`, `:79`)
   and nothing sets another. The first tick after the first bar engages the kill switch
   and halts. The tests at `bot/tests/supervisor_suite.rs:594` and `:612` mean the halt
   for data that is hours old.

The models contain other paths that a reader may find surprising, of which no document
promises the opposite, so no run is about them. A flattening that fails leads through
Recovering, after the close, to WaitingForSession with the position open
(`supervisor.rs:1414`). A recovery that matches resets the retry counter
(`supervisor.rs:1402`), so a preparation may fail for ever. A restart trades the plans of
the session in the checkpoint whatever day it is (`supervisor.rs:666`).

## 6 Proofs

The theorems hold for every value of the constants that satisfies the named
assumptions of the modules: sets of contracts are finite (`SymbolsAssumption`), there
is at least one day, retry, attempt, lot, symbol (`MaxDayAssumption`,
`MaxRetriesAssumption`, `TriesAssumption`, `LotsAssumption`, `FrameAssumption`), times and
bounds are natural numbers (`PeriodAssumption`, `DelayAssumption`, `BoundsAssumption`,
`SpanAssumption`, `TroublesAssumption`), a session opens and closes at a minute of the day
(`SessionAssumption`), in `Exposure` contracts are finitely many and their prices and the
limits positive (`ContractsAssumption`, `PricesAssumption`, `LimitsAssumption`), in
`Manufacturing` symbols and strategies are finitely many (`NamesAssumption`), capital and
limits are positive and the cap of a symbol is at most the capital (`PolicyAssumption`:
`allocate_candidates` returns nothing otherwise, or takes the nearest such value), and in
`Backtest` there are at least three bars (fewer are refused),
a hold of at least one bar and a natural latency. Some theorems need more, and say so
with an ASSUME of their own: `OpenPhases`, and those on systemd (`TwoBeats`,
`LongBackOff`, below). No other
assumption is made: bounds on outages, crashes and faults may be any number, so the
theorems are about any number of them.

**`SupervisorProofs`**

| Theorem | States | Inductive invariant |
|---|---|---|
| `TypeCorrect` | `[]TypeOK` | itself |
| `Durable` | `[]DurabilityFirst` | `CheckpointsAgree` |
| `TradesDurable` | `[]TradesSurviveCrash` | itself, with `NothingInMemory` |
| `HaltIsFinal` | `HaltedSticks` (no run: TLC sees it within `FollowsLifecycle`) | `StepInState` |
| `LearningIsFlat` | `FinalizedFlat` | `StepInState`, `NoOrdersAtPositions` |
| `TradingNeedsPlans` | `[]TradingHasPlans` | `PlansGated` |
| `PlansNeedMatch` | `PlansFollowMatch` | `PlansGated` |
| `MismatchBarsEntries` | `MismatchStopsEntries` | `PlansGated` |

`DurabilityFirst` speaks of the row only, and is not inductive: a heartbeat writes the
checkpoint in memory, so that one must name the state, too, and the second
initialisation of a start reads the row again. `CheckpointsAgree` adds both, and
`NothingInMemory` adds that a process that is down starts from nothing. The
lemmas `*Advances` say what every handler does to it: it leaves state, row and the
state in the checkpoint alone, or moves and writes what it moved to (`Advanced`).
`HaltedSticks` needs that a handler cut at an await is still in the state it began
in (`StepInState`): else the rest of a preparation could run in Halted.
`FinalizedFlat` needs `NoOrdersAtPositions`: once `list_open_orders` was empty nothing
can fill before the positions are read, since nothing is sent. The last three need
`PlansGated`: plans are there only in a process that has reconciled, are built only
right after a match, are there whenever it trades, and a mismatch leaves the kill
switch engaged (nothing in the program releases it).

Its last part is about `Lifecycle`: `Implements` (`Spec => FollowsLifecycle`), every step of `Supervisor` is a step of `Lifecycle` or leaves its three variables alone;
and `LifecycleIsDurable`: from the abstract specification alone, the row names the state
whenever the loop is running. The argument: `StepEdge` says that each handler takes an
edge of its state (by the handlers, using `StepInState`), `DurabilityFirst` and
`CheckpointsAgree` that a state and its row move together. Two more invariants are
needed, and are theorems by the way: `LoopStates`, the loop is never in ShuttingDown, and
`StartingKnown`, while the state is Starting the checkpoint in memory is the default one or the
row, which is what a heartbeat may write.

**`TradeProofs`**

| Theorem | States | Part of the invariant |
|---|---|---|
| `TypeCorrect` | `[]TypeOK` | `Typed` |
| `AlwaysReservedFirst` | `[]ReservedFirst` | `Traced` |
| `GivenUpIsAbsent` | `[]FailedIsAbsent` | `Traced` |
| `StopsAlwaysCovered` | `[]StopsCovered` | `Covered` |
| `RowAlwaysCurrent` | `[]RowIsCurrent` | `RowKeepsUp` |

The invariant is `Sound == Typed /\ Covered /\ Traced /\ RowKeepsUp`. `Typed` says besides the
types which variables of a handler are in use at which `pc` (`Labels`), that every
trade in memory, in the row or in a clone comes from an entry order (`Books`), and that
an id that was never sent has nothing (`Blank`). `StopsCovered` alone is not inductive: a
stop is sent with the quantity of a trade, so all three copies of a trade must be
bought (`Backed`). `FailedIsAbsent` needs that an order about to be sent is reserved and not
at the broker (`Pending`): only then is an order that recovery does not find one that was
never sent. To keep the case split small the proof first says what steps may do at all:
`BrokerMoves` (orders grow, or one is sent from one of four points), `TradeMoves` (the
copies of a trade only shrink or are copied, but for a new entry), `*Writes` (where rows and
idempotency change); each part of the invariant is then preserved by these three
(`TypedStep`, `BackedStep`, `StopsStep`, `TracedStep`, `RowStep`). Proving it found a CASE in the
model whose arms overlapped; the code's order of tests is now in the model as well.

**`ExposureProofs`**, for any contracts, prices, limits, quantities and any number of orders
and fills:

| Theorem | States | Inductive invariant |
|---|---|---|
| `ExposureTyped` | `[]TypeOK` | `Books` |
| `LimitsHold` | `[]WithinLimits` | `Bounded` of all contracts and of those of each underlying, `ReadStands` |
| `TwiceTheLimits` | `[]AtMostTwice` | `Bounded` |
| `PositionsLimited` | `[]PositionsWithinLimit` | `Sparse` |

`Books` says besides the types that a stop is as large as its trade and a trade no larger
than its position, so that selling never leaves less than nothing. `Bounded(C, M)` is
about any set `C` of contracts and the limit `M` that is checked for it (`Governed`), so
that one proof serves the limit of the account and that of a symbol. It relates the
handler's read to the books: what is committed now is at most the positions that were
read and `M` more, since the buys that were resting then never exceeded `M` and every
fill only turns a resting buy into a position. Hence twice the limit; and, if no buy
filled between the reads (`~raced`, `ReadStands`), the limit itself. `Sparse` is the same
for the number of positions as long as no buy rests. The sums in these formulas are
`SumFunctionOnSet` of the community modules. Its laws (splitting a sum, replacing a
term, comparing term by term) are proved first, from the recursion that defines it and
an induction over finite sets (`SubsetInduction`) that takes a minimal counterexample:
the induction theorems of the library take an operator, which no installed prover
instantiates, while `WFMin` takes a set.

**`ManufacturingProofs`**, for any symbols and strategies (finitely many), confidences,
contracts, capital, cap, numbers of bots, and any number of days, preparations and restarts:

| Theorem | States | Inductive invariant |
|---|---|---|
| `ManufacturingTyped` | `[]TypeOK` | itself |
| `BudgetIsKept` | `[]BudgetKept` | `Accounted` |
| `BetterGetNoLess` | `[]BetterGetsMore` | the batch is one of `Batches` |
| `RetiredStayRetired` | `RetiredIsFinal` | none |
| `BotsAreAlone` | `[]Alone(fleet)` (no run states it) | itself |

The hard part is about the allocation, not about steps: that every batch is
`WithinPolicy` (`BatchFits`). A sum over ranks is defined as a number of units, the
cardinality of the pairs of a rank and one of its units, so that the laws of sums
are facts about cardinalities (`SumStep`, `SumOfPart`, `SumAlong`). The numbers of bots
(`SelectedWithin`) and the cap of a symbol (`SharedInSymbol`) follow from looking at the last rank
that was taken: the loop looked at all others before it took that one. The total
(`SharedInTotal`) follows in proportion: a share times the sum of the confidences is at most
the capital times the confidence, so rounding down never gives out more than there is.
`BetterGetsMore` compares two shares of one symbol: the later one has the smaller
proportion, and what is left of the cap is no more than it was. `Accounted` carries this to
what trades: the plans in memory and the rows of a session that was prepared once come from
one batch (`Sourced`); the rows of a session that was prepared twice need not, which is why
`BudgetKept` makes an exception for a restart that reads them back.

**`FeedProofs`**: `FeedIsTyped` (`[]TypeOK`), `BarsCountOnce` (`[]NoBarTwice`),
`DecisionsAreStored`, `DecisionsAreFresh` (`[]DecisionFresh`), `CandlesAreWhole`
(`[]WholeCandles`) and `OpenPhases`, for any number of
symbols, any window, frame, age, gaps, crashes and failures. The invariant `Feedable` says that
candles are made of bars whose key is in the store (`Counted`), that candles of a symbol
share no bar (`Sound`), and that what is still to be fed of a poll has no key yet. The key
comes first, so a crash between key and candle loses a bar and never doubles it.
`DecisionsAreFresh` rests on `Timely`: the candle under way is that of the last bar fed
(`InOrder`), the age that the health check looks at is no younger than the last bar of
*some* symbol (`Remembered`), and so every tick that feeds began with a symbol whose data
were recent, or with none that is behind the window (`Judged`). `CandlesAreWhole` adds
`Whole`: what the builder has passed is in its candle (`Complete`), and what it has not come
to is in the batch or will be in the next window (`Reachable`). That no bar falls out
between two polls is arithmetic on two bounds: the health check allows no more than
`MaxAge` between the last event and a tick, and the window reaches `Window` back
(`Oldest`).
`OpenPhases`: a minute is open (`session_state_at`) exactly when its phase is MarketOpen or
MarketClosing (`phase_at`), for any hours whose phases do not pass midnight (`Ordinary`).

**`WatchdogProofs`**: `LoopTyped`; `ShortStepsSurvive` (`EndedForCause`) and `StalledAreLost`
(`StallIsFatal`) for any intervals, delays and lengths of steps with `TwoBeats`: systemd waits
for no more than two heartbeats, as the unit file has it, and `new()` sets the last
heartbeat back far enough. `BudgetNeverSpent` (`[]BudgetOutOfReach`) has the premise `LongBackOff`:
the delay after six failures (64 times two seconds, less a fifth of jitter: 102) is at least
`WatchdogSec` and the start timeout (30 and 90), and the budget (10) is larger than six;
so whoever gets that far is ended while it sleeps, and starts again at zero. While systemd
looks on and the store takes every save, no more than six failures are counted (`Few`), and
none outside of a recovery (`NoneElsewhere`): a failing preparation or closing counts
the first and goes to recovery. It says nothing of a process whose store has refused a save
since it started. The invariant `Synced` relates the clocks that could run
apart: until a stall is found, the ages of the last heartbeat and of the last ping are
that of what systemd heard last, each as far as it is counted.

**`HistoryProofs`**: `TypeCorrect`; `Exclusive` (`[]OneWriter`); `LockNotForgotten`
(`[]StaleNeedsCrash`); `ImplementsLog` (`Spec => Atomic`), every step of `History` is an
update of `HistoryLog` or leaves the file. The invariant `IInv` adds to `OneWriter`
that whoever is inside holds a lock that exists (`LockHeld`: so the next one cannot
enter), and that what a process is about to write is its update applied to the file
as it is now (`CopyIsCurrent`: nobody wrote since it read, as it is alone). Crashes
and failures do not disturb either: they leave the lock, never take it away from
somebody inside.

**`BacktestProofs`**, for any number of bars, any quotes, signals, holds and latencies:
`TypeCorrect`; `Causal` (`[]NoLookAhead`); `InOrder` (`[]OneAtATime`); `ClosedInTime`
(`[]HoldBounded`); `ActedOn` (`SignalsTaken`). `IInv` adds to the types that a waiting signal
comes from an earlier bar than the one that is looked at, and that the position, as
well as every trade that is over, kept the distance of its latency. `Orderly` adds the
order of things: any two trades, trades and position, position and waiting signal, and
that the position had no price since its hold was over.

## 7 What is only model-checked

* Liveness: `RecoveryDecides`, `FinalizationDecides`, `Noticed`, `LockReleased`,
  `BudgetIsSpent`, `UnreadyIsEnded`. They
  rest on fairness, hence on ENABLED, which the prover has no support for.
* The calendar, but for `OpenPhases`: a matter of computing it for the years in question.
* That `Selected` and `Shared` of `Manufacturing` are what the loops compute (`LoopsAgree`): for
  every input it needs an induction over a fold, which takes an operator and is out of
  the prover's reach.

Every invariant and every action property of a passing run is a theorem. No recursive
operator is used anywhere: a loop of the code is a fold, or the function that
satisfies its rule.

## 8 Not modelled

* Numbers: exit conditions, indicators, strategies, evaluation, Q-learning, option
  scores, costs, statistics. A strategy may signal anything and a confidence may be
  any number of a small range.
* The HTTP of brokers and of market data, retries within a call, JSON. Quotes: a bar's
  prices are not kept, the synthetic provider is for tests.
* `ProgressLease`, `WatchdogHandle` and `spawn_managed_watchdog` (`supervisor.rs:253-353`):
  a thread that tests start and the program does not.
* Options data: filters and scores of a chain, without state; the expiry policy is a
  bound on a date.
* State authority, sentinel, operations, reconcile, intelligence, research: linked
  into nothing that trades. Memory: one list, appended and read by one task.
* The command line: it reads the environment and starts the supervisor; the guard of the
  start, which is in it, is in `Watchdog`.
* Capital authority and tokens of the risk governor: nothing redeems a token.
* Code the program never calls: `run_session`, `run_analysis_window_and_manufacture`,
  pausing or retiring a single bot, the "existing trade" branch of `handle_signal`.
  `append_bot_event` is called by tests only and is in `History` as part of its API.
* A capital limit per strategy: the code checks `STRATEGY_CAPITAL` for each order
  alone, so there is no sum to keep a property about.

## 9 Plan

The order was: the supervisor first (it decides whether anything trades), then the
trade with its quantities, exposure, manufacturing, history, backtest; then the life
cycle as an abstract specification, the watchdog, the calendar and the feed; the proofs
followed each module. What is left:

1. A history of failed preparations in `Supervisor`: a recovery that matches resets
   the retry counter (`supervisor.rs:1402`), so that they may go on for ever. Worth a
   property as soon as a document says how often a preparation may be tried.
2. The research of a session (`hive/src/lib.rs`): what is found while earlier notes are
   read back from the history.
