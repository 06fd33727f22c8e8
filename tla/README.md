# A TLA+ model of the trading platform's desks

This directory models the parts of the platform that hold money, orders and positions, and
the protocols that keep them going: the **live trading desk**, which trades real money
through Angel One; the **paper broker**, which simulates a broker's order book; the **live
intraday books**, which copy a tournament's trades; the **F&O rolls**, which replace an
account's straddle every day; the **Go option engine**, two loops over one ledger; the
**module switches** that stop any of these; and the **Dhan token manager** they all need.
The Python parts are asyncio code over MongoDB collections, with several tasks working on
the same documents and, mostly, no lock. The modules are checked with TLC on small
instances, and their safety properties are proved with TLAPS for every instance.

All paths below are relative to the repository root; `services/` is `backend/app/services/`.

## 1. Inventory

| Component | State it keeps | Operations | What is hard about it |
|---|---|---|---|
| Live trading desk — `services/live_trading_engine.py`, `intraday_session.py`, `intraday_lab_scheduler.py` | ledger rows (`OPEN/CLOSED/VOID`, mismatch mark), state document (armed, kill switch, reject streak), per-strategy flags, burned bars; in memory: refused symbols, time of the last broker read, the manage lock | `run_cycle` = `manage_cycle` + `scan_cycle`; close-out loop; `panic_close_all`; arm, disarm, kill switch, flags | several tasks, a broker that acts on its own, orders whose outcome is unknown, restarts, two square-off clocks |
| Paper broker — `services/paper_broker/` | `pt_orders`, `pt_positions`, `pt_holdings`, `pt_trades`, `pt_ledger`; in memory: the day last settled | `place`, `modify`, `cancel`, `square_off`, `tick`, `settle_delivery`, MTF interest, reset | four collections written one after the other without a transaction, API calls beside the loop, a snapshot used after awaits, a cutoff clock |
| Module switches — `desk_switches.py`, `module_gate.py`, `module_registry.py`, `api/routes/main_control.py` | one document per module; in memory: a copy of them and its age | toggle, bulk, all, only; `gated()` of the schedulers and the API gate | lookups that cross a write and its invalidation, half-done bulk writes, the database away, one switch behind two doors |
| Dhan token manager — `dhan_token.py`, `api/routes/broker.py`, `prelive-service/rotate_dhan_token.py` | the stored token and its expiry, a Redis lock and a cooldown; at Dhan: the one live token | should_refresh, refresh_locked, store; rotate; connect | one live token per account over several processes, a lock that expires, minters that take no lock, a mint whose store fails |
| Strategy runs — `live_engine.py`, `strategy_runner.py`, `market-data-service/live_feed.py` | runs in memory and in MongoDB, the watchlist, bars | start, stop, bar handler | a shared watchlist, bars published once, restarts |
| Live intraday books — `live_intraday_mirror.py`, `live_intraday_engine.py`, `book_reset.py` | copies of the tournament's positions, ids skipped per day, the last reset | a pass (`sync`): read, plan, write; reset | trades written later than their time, passes broken off, a reset that takes no lock, at most N positions on one capital |
| F&O paper positions and daily rolls — `fno_positions.py`, `fno_auto_roll.py`, `fno_stock_roll.py` | positions and orders of an account, the day last rolled | exit, basket, fill; roll of the index and of the stocks | closing and selling again in many steps, any of which fails; a fill that reads, awaits and writes |
| Premium paper service — `premium-paper-service/` | trades sealed once final, accounts derived from them | replay, seal | replays must agree |
| Pre-live option desks — `prelive-service/` | positions, scoreboard, heartbeat | `on_bar`, square-off | mostly one thread |
| Go option engine — `NIFTY-PILOT-SOVEREIGN/engine/` | ledger of trades, the risk gate's session, counts, pause and kill switch, each strategy's walk-forward track; all in memory | evaluation loop: look, check, enter, register; monitor: close, register, tell the track | two goroutines, the ledger and the risk gate lock themselves, the tracks do not, and nothing locks a sequence; counts beside the ledger; entries after the close |
| Other automatic desks — options, MCX, index, commodity executors | as the two desks above | as above | as above |
| Caches, streams, backtests, strategies, research, AI, frontends | caches and data | reads | rate limits; otherwise numeric |

How they meet: the shared intraday loop and `POST /run` call the live desk's `run_cycle`; the
close-out loop calls its `manage_cycle`; the tournament's registry gives the verdicts that
gate its entries; Angel holds the positions. The paper broker is driven by its own loop every
20 seconds and by the requests of the API. The live intraday books read the tournament's
positions; the F&O rolls fill through `fno_positions.py`, as the API does. Each scheduler asks
the module switches before a cycle, and whoever talks to Dhan asks the token manager. The Go
engine is a process of its own. The modules therefore share no state, and what one needs of
another is an action that may happen at any time: `Verdict`, `TournamentOpens`, a pass or a
roll that does not come.

What makes each correct:

* **Live desk**: an exit closes and never opens; the ledger says what the broker holds; one
  entry per signal; capital limits hold; the kill switch stops entries; whatever goes wrong,
  a row is closed in the end.
* **Live intraday books**: on the trades' own clock a book never held more than it may, nor
  one stock twice, nor more than its money; what was decided stands; a recorded reset holds.
* **F&O rolls**: a failed roll is finished, never doubled; a day is marked when its straddle
  stands.
* **Go engine**: caps hold on the ledger; nothing is carried overnight; each track hears of
  each trade.
* **Switches**: off means off within the copy's time to live; on means running.
* **Token**: one login at a time; the stored token works; if it does not, it is replaced.
* **Paper broker**: a share is in one book at a time and in as many as were traded; delivery
  never goes short; the margin is covered; the cutoff leaves nothing intraday; an order ends
  once.

`PROJECT.json` lists every hazard of this code at the line where it bites, with the
properties that watch it or the reason why none does.

## 2. Modules

| Module | Models |
|---|---|
| `LiveDesk` | the live desk, and Angel as far as the desk reads it |
| `MCLiveDesk` | its instances: one or two stocks; the desk's square-off at clock 1, the broker's from 2 |
| `LiveDeskProofs` | theorems about `LiveDesk` |
| `OrderRules` | the paper broker's pure rules: validation, triggers, fill price, the split of an order between the books |
| `PaperBook` | what the paper broker promises: an order book and the shares it moves, each fill one step |
| `PaperBroker` | the paper broker, await by await; its refinement mapping to `PaperBook` |
| `MCPaperBroker` | its instances: the tickets users place, the margin rates |
| `PaperBrokerProofs` | theorems about `PaperBroker`, its rules and its refinement of `PaperBook` |
| `MirrorBooks`, `MCMirrorBooks`, `MirrorBooksProofs` | one live intraday book, its passes and its reset; three tournament trades; theorems |
| `FnoRoll`, `MCFnoRoll`, `FnoRollProofs` | one F&O account, rolled by either program, and the fill beneath; theorems |
| `PilotEngine`, `MCPilotEngine`, `PilotEngineProofs` | the Go engine's two trading loops over the ledger, the risk gate and the tracks; theorems |
| `DeskSwitches`, `MCDeskSwitches`, `DeskSwitchesProofs` | the module switches, their copy and their two doors; theorems |
| `TokenManager`, `MCTokenManager`, `TokenManagerProofs` | the Dhan token and everybody who mints one; theorems |
| `FoldProofs` | lemmas about sums over finite sets and about folds, for the three proof modules that add things up |

### 2.1 LiveDesk

Every asyncio task has a label `pc[p]`; a step is what the task does between two awaits
whose interleaving matters. `Runner` tasks run `run_cycle`, `Closer` tasks run `manage_cycle`
only, `Panicker` tasks run `panic_close_all`.

| Code | Actions |
|---|---|
| `manage_cycle`, `_manage_lock` | `Begin`, `Lock`, `Unlock` |
| `reconcile_broker_closes` | `ReadLedger` (rows of today, the 30 s throttle), `BookUnread`, `ReadBook` (close, void or mark, all from one book) |
| `_manage_cycle` | `Snapshot`, `CloseStale`, `KeepOpen`, `SendExit` |
| `_close_real`, `_place_angel_order` | `PlaceExit`, then `RecordExit` or `ExitFailed` |
| `scan_cycle` | `ScanHalted`, `Scan`, `NoSignal`, `Offer` (the gate again, and the bar burned), `EndScan` |
| `_open_position` | `Check`, `PlaceEntry`, then `RecordEntry` or `EntryFailed` |
| `panic_close_all` | `Panic`, `PanicExit`, `PanicKill`, `PanicDisarm` |
| `set_armed`, `set_kill_switch`, `set_strategy_enabled` | `Arm`, `Disarm`, `KillSwitch`, `SetEnabled` |
| the registry; Angel; time; the process | `Verdict`; `SquareOff`, `ExecuteEntry`, `ExecuteExit`; `Elapse`, `Tick`, `NextDay`; `Crash` |

An entry order and the row it leads to share a number. `held` is the set of entries Angel
still holds; `stray[y]` counts what exit orders opened by mistake, so "an exit never opens a
position" is the invariant `stray = 0`. Angel knows quantities and not rows: an exit of one
row may close another like it.

Abstractions. One position is one unit of quantity and of capital (`Slice` per strategy,
`Ceiling` for the desk); the sizing against the account's balance is left out. Prices are
left out: a target or a stop may be hit in any cycle, and `reconcile_fills`, which only
re-prices, has no action. The bar is the day's. The verdict gate is on. A signal may come for
any pair and either side. Streaks of rejects above `MaxRejects` and strays beyond `MaxStray`
are kept at the bound: the code's counter has no upper end, and only "at the limit or above" is
ever asked of it. The gates of `scan_cycle` and of `arming_check`, reads of several
documents each, are one step. The other desks of the close-out pass are left out.

What may go wrong is a constant, `Faults`; each run names what it admits.

### 2.2 OrderRules, PaperBook, PaperBroker

A caller (`Loop`: the scheduler's task; `User`: requests) has a label `at[c]`, the order in
hand `job[c]`, and what `execute` decided for it, `plan[c]`.

| Code | Actions |
|---|---|
| `place`, `square_off` | `Place`, `Exit`: no quote, waits for its trigger, IOC, rests, or goes to `execute` |
| `execute` | `Decide` (reads position, holdings, funds, and splits), `Book` (position and holdings), `Trade`, `Complete`, or `Reject` |
| `modify`, `cancel` | `Modify` / `Modified`, `Cancel` / `Cancelled`: read, then write |
| `tick` | `Tick` (snapshot), `Sweep` (arm and fill one order), `Expire`, `SquareOff`, `TickDone` |
| `settle_delivery` | `SettleCall`, `Settle`, `SettleHold`, `SettleMark`, `SettleDone` |
| the clock; the process | `Advance`, `Restart` |

The order row is written last, after the position and the trade; what lies between is where
calls overtake each other and where a restart bites. `Overlap = FALSE` gives the broker in
which one call ends before the next begins, the reading its documentation takes.

Abstractions. One account, one contract, the equity cutoff. One quote per call. Margin is
`Rate` units per share of a product, so P&L, fees, the cash ledger and MTF funding drop out.
The reads of one `execute` are one step, and so are its writes to position and holdings.
Days are trading days, and the phase `open` begins at midnight: `place` does not look at the
market's hours. `settled_on` of the loop repeats `last_settled` and is one variable with it.
Not modelled: account reset, MTF interest, marking, reports, F&O margins.

`PaperBook` is the abstract broker: `Rest`, `Fill` (status and shares of one product in one
step, by any amount but none), `Drop`, `Expire`. The mapping takes an order for complete from the write of its position on, and
counts a product's shares over open positions and holdings, a lot in settlement once.

### 2.3 MirrorBooks

| Code | Actions |
|---|---|
| `sync`, `_sync_lock`, `_floor`, the open rows | `Begin` |
| `_parents`, `_decided`, `pending_since`, `closed_after`, `plan_book` | `ReadAndPlan`, with the operators from `Ids` to `PlanBook` |
| the writes of `_sync` | `WriteClose` (in the order of the closes), `WriteOpen` (in the order of the entries), `WriteSkips` |
| `book_reset.reset` | `ResetRead`, `ResetDelete`, `ResetRecord`; `ResetFails` when one of its steps raises |
| the tournament; time; the process | `TournamentOpens`, `TournamentCloses`; `Tick`; `Crash` |

`plan_book` loops over events; the module says what its variables are at the time of an
entry: `HeldAt` and `CashAt` are `held` and `cash` once everything that closed by then is
freed, the rows closed later are put back (its rewind), and the copies the replay has taken
are counted. The reads after `Begin` are one step: they only see more of the tournament, and
a trade seen by one of them alone is decided by the next pass. Fees are left out, a share
gains or loses a whole unit, the breaker (halt, kill, day's loss) is left to chance. Left out
too: trade rows, scores and marks, the window `LOOKBACK` (`LIVE_INTRADAY_LOOKBACK_DAYS`, 4 days
unless set), rows without a parent, the pause of a book, the roster's filter, and the minute for
which `reset_at` is remembered. A pass and a reset may stop between any two of their steps; the
deletes of a reset, one call per collection, are one step.

### 2.4 TokenManager

| Code | Actions |
|---|---|
| `_get_dhan_client`, the loop in `main.py`, `POST /refresh-token` | `Begin` with the caller's `Margin` |
| `refresh_locked` | `CheckCooldown`, `Acquire` or `AcquireUnlocked`, `WaitOver`, `LoginOk` / `LoginFails` / `LoginLost`, `Store` / `StoreFails`, `Release` |
| `rotate_dhan_token.main` | `ScriptBegin`, `ScriptLogin` (three attempts), `ScriptLoginLost` (Dhan has minted, the answer is lost), `Store` |
| `connect_broker` | `Connect`, `Store` |
| the lock's and the cooldown's time to live; the expiry; a kill | `LockExpires`, `LockOverrun`, `CooldownEnds`, `Age`, `Killed` |

`active` is the token Dhan accepts, `stored` the application's. A token's life has the three
values the margins tell apart. A token nobody holds any more is used again as a name.
Whatever disturbs the protocol costs one of `MaxTroubles`; `lost` (a token whose answer, store or
holder was lost), `crossed` and `overran` record which kind it was, and `StoredWorks` and `OneLogin` are stated against them.

### 2.5 DeskSwitches

| Code | Actions |
|---|---|
| `_load` behind `is_on`, from `gated` or the API gate | `Begin`, `Read`, `Loaded` or `LoadFails`, then work or not; `CycleEnds` |
| `snapshot` for the page | `View`, and after every write `Invalidate` |
| `set_module`, `set_many`, `set_all`, `set_only` | `Call` (what is to be written), `WriteDoc` one by one, `WriteFails`, `Invalidate` |
| the clock, the database, the process | `Tick`, `Outage`, `Recover`, `Restart` |

Time is kept as ages, so that no clock grows: `cacheAge` is the time since `_cache_at`, `age`
that since a lookup began, `since` how long a switch has stood; all stop at `TTL + 1`.
`AnswerFrom` fails open, as the code does: no copy at all means on. Left out: `is_on_cached`,
the gate's table of which request belongs to which module, its counters.

### 2.6 PilotEngine

| Code | Actions |
|---|---|
| `evaluationLoop` | `EvTick`, `EvScan` (`openByStrategy`), `EvSignal`, `EvEquity` |
| `risk.CheckEntryAllowed`, `rolloverIfNewSession` | `CheckEntryAllowed` with `Rollover` and `Below` |
| `execution.ExecuteEntry`, `risk.RegisterOpen` | `RecordEntry`, `RegisterOpen` |
| `positionMonitorLoop`, `closePosition` | `MonTick`, `MonVisit` (forced out, by price, or left), `RegisterClose`, `RecordTrade`, `SweepEnds` |

Each step is one call: of the ledger or of the risk gate, which lock themselves, or of a track,
which has no lock. `RecordTrade` in the monitor and `IsTradeable` in the evaluation loop are a data
race on the track's status. Only the monitor writes it, and the one change that matters to a
reader is `ACTIVE` to `DEMOTED`: a read beside the write finds the old string, the new one or a mix
of their pointer and length, which is not `DEMOTED` either. The two orders of `EvSignal` and
`RecordTrade` are therefore all outcomes. A signal, a hit stop or target, an exit's result
and the quality of a window are left to chance; equity is the sum of results, exactly. Time is
session, last minute, the half hour after the close, night. `Tick` assumes that the half hour
is enough for the pass under way to end and for one sweep after it. Once a spot price is set
it never returns to zero, so the monitor's skip of a missing price is left out, as are lots,
costs, the margin book (nothing blocks margin), the reconciliation (nothing calls it), feeds
and the analytics.

### 2.7 FnoRoll

| Code | Actions |
|---|---|
| `_is_due`, the two loops, the routes `auto-roll/run`, `stock-roll/run`, `exit` | `Due`, `BeginRoll`, `BeginExit` |
| the closes: `run_roll`, `close_all`, `exit_position` | `CloseNext`, `FindExisting`, `Write`, `AllClosed` |
| `execute_basket`: all legs priced, one margin gate | `PriceBasket` |
| the legs: the basket's, or `sell_straddles` with `place_order` | `SellLeg`, `FindExisting`, `Write` |
| `_fill` | `FindExisting` reads the position; `Write` writes what that read says |
| `_record`; the stock roll's `last_session` | `Record` |
| the server; the clock | `Crash`; `Tick` |

The account is of one of the two kinds for a whole behaviour. One straddle is rolled; the
stock roll's many are independent legs of the same loop. Spot, expiry and strike are resolved
before anything is closed, so a roll that resolves none has no action. The stock roll skips each
stock it cannot resolve and still closes what it holds of it: `Reopening` lets a stock roll go from
the closes to the mark without a sale. Quotes and margin
fail by chance, counted in `MaxFaults`. Left out: pending limit orders, moving a straddle to
the money, the account's reset and binding, prices and margin numbers.

## 3. Runs

| Run | Instance | Checks |
|---|---|---|
| `live_desk` | two strategies, a closing-auction stock, runner and closer, two orders; verdicts, rejects, refused entries, unread book, breaker | `TypeOK`, `BooksAgree` |
| `live_overlap` | two runners and the closer, one strategy and stock, two orders; kill switch, rejects, restarts | `NoStray`, `MarkedNotExited`, `KillDrains` |
| `live_faults` | one runner and the panic button, one strategy, two stocks, two orders; every entry fault, no price, margin call, restart | `OneEntryPerBar`, `CapitalRespected` |
| `live_liveness` | runner and closer, one order, two days; all faults but margin calls, restarts and missing prices; flags | `EveryRowCloses`, under `FairSpec` |
| `paper_serial` | loop and one user, every call, two days, two orders, with and without a quote; one call at a time | `TypeOK`, `TradesExplainBooks`, `WithinCapital`, `CutoffFlattens`, `Promise` |
| `paper_overlap` | loop and one user, three orders, place, exit and settle overlapping, one restart | `NeverShort` |
| `mirror_books` | three trades, two in one stock, prices 1 and 2, two slots, capital 4, trades written up to one tick late, two of: a reset, a reset that raises, a stop | `TypeOK`, `SlotsHold`, `OneStock`, `CashHolds`, `ResetHolds`, `DecisionsStand`, `CopiesClose` under `FairSpec` |
| `token_manager` | the loop and the manual route, the script, a user, five names for tokens, two disturbances | `TypeOK`, `OneLogin`, `StoredWorks`, `OwnLockOnly`, `Recovers` under `FairSpec` |
| `desk_switches` | two modules, a scheduler, a page, a copy that lives two ticks, outages, one restart | `TypeOK`, `CopyIsRecent`, `OffHolds`, `OnWorks` under `FairSpec` |
| `pilot_engine` | two underlyings, one strategy, cap 1, three trades, a day, its night and the next morning | `TypeOK`, `CapHolds`, `OneEach`, `FlatAtNight`, `Told` |
| `fno_roll` | both kinds of account, two strikes, one lot, three failures or stops, two requests, three windows | `TypeOK`, `NoDoubling`, `FailedIsRetried`, `MarkedHoldsStraddle`, `DueIsRolled` under `FairSpec` |

`Promise` is the refinement: every behaviour of the serial broker is one of `PaperBook`.
`mirror_books` and `fno_roll` do not check deadlock: their bounded time ends.

One run ends in a violation: `live_refused_exit`. An exit Angel declines for the symbol
answers `"SKIP"`, which `_close_real` takes for an order id: the row is closed, the position
is not. `PROJECT.json` quotes the docstring that says otherwise.

### Counterexamples kept as configurations

These configurations are run by hand (`tlc -config X.cfg <module>`); each ends in a
violation and shows what the passing runs leave out.

| Configuration, module | Property | Shows |
|---|---|---|
| `live_panic`, `MCLiveDesk` | `NoStray` | the panic button takes no lock; beside a manage cycle both exit one row, and the second order opens a position (`live_trading_engine.py:820-823` says the lock makes two exits impossible) |
| `live_restart`, `MCLiveDesk` | `NoStray` | the process stops twice, each time after Angel executed an exit and before the ledger has it, on rows of opposite sides: Angel's net is the ledger's again, the book is taken to agree (`live_trading_engine.py:958-959`) and the second exit is sent once more |
| `live_double_entry`, `MCLiveDesk` | `OneEntryPerBar` | the burned bars are read once per scan; two scans at once enter twice (`live_trading_engine.py:721`) |
| `live_entry_race`, `MCLiveDesk` | `BooksAgree` | an opposite entry that is executed and not yet in the ledger nets a symbol to zero; another task's reconciliation closes a live row (`live_trading_engine.py:845-848`) |
| `paper_cancel`, `MCPaperBroker` | `FinalStays` | cancel writes over an order that was filled after its read (`orders.py:3-6`) |
| `paper_reverse`, `MCPaperBroker` | `NoReversal` | an MIS sell larger than the long position leaves a short (`orders.py:20-22`) |
| `mirror_race`, `MCMirrorBooks` | `StaysReset` | a reset beside a pass: the pass inserts copies from before the reset (`book_reset.py:19-22`) |
| `mirror_stop`, `MCMirrorBooks` | `StaysReset` | a reset stops, or raises, after its deletes and before its record (`book_reset.py:109-116`): the floor is the old one, and the next pass copies the deleted trades again. No pass runs beside the reset |
| `token_remint`, `MCTokenManager` | `HealthyMintsNothing` | who waited at the cooldown does not look at the token again after it has the lock, and mints although a fresh token is stored (`broker.py:31-35`) |
| `switches_stale`, `MCDeskSwitches` | `NeverStale` | a lookup that began before a write stores what it read after the write invalidated the copy (`desk_switches.py:37-39`) |
| `pilot_breaker`, `MCPilotEngine` | `BreakerResets` | the daily-loss trigger stays active on the next day; the engine clears it nowhere (`internal/risk/engine.go:1-4`, `71-74`) |
| `fno_again`, `MCFnoRoll` | `FailedIsRetried` | a second roll on a marked day closes the straddle and fails: the day stays marked, and nobody tries again (`fno_auto_roll.py:42-43`, `294-296`) |
| `fno_overlap`, `MCFnoRoll` | `NoDoubling` | two exits of one position read it before either writes, and the account ends long |

### Bounds, and why they are enough

* `MaxOrders` 2 (live): every property relates at most two positions: two strategies in one
  stock, a position and the one an exit hits instead, an entry and its repetition. The
  liveness run follows one row.
* Clock 0–3: before and after the entry cutoff, the desk's square-off, the broker's. The run
  with the panic button has no closer and stops at 2; its one strategy reaches its slice and not
  the desk's ceiling, which the theorem covers. `LastDay` is 2 where a row must outlive
  its session.
* `MaxRejects` 2: one reject below the limit and one at it (the code's limit is
  the constant `MAX_CONSECUTIVE_REJECTS = 3`, and the streaks below it differ in nothing else).
* Paper: two orders and their square-offs, quantities 1 and 2, prices 1 and 2: an order
  smaller than, equal to and larger than a position, a limit above and below the market.
  Capital 3 makes the margin check bite. Three orders where calls overlap: buy, sell and exit.

`paper_overlap` needs no more than one user: its two callers already interleave at every
await, and the theorem about `NeverShort` covers any number.

Of the other modules:

* `MirrorBooks`: two slots and three trades, so that one is refused for each reason (slot,
  stock, cash), and a slot freed can be taken again; `Lag` 1 puts an entry before a close the
  pass has booked; the clock 0–2 orders them in every way. Capital 4 buys two cheap shares, one dear one or none,
  depending on what was lost before. Two troubles: a stop or a failure inside a reset,
  two resets, a reset and a pass broken off after it. The theorems cover any number.
* `TokenManager`: two refreshers contend for the lock; five names are enough for the stored
  token, the live one and those in three hands. Two troubles: every pair of a Redis outage, an
  overrun lock, a kill, a lost answer, a failed store, a script and a user. The theorems
  cover any number of each.
* `DeskSwitches`: `TTL` 2 tells "just written", "old" and "expired" apart. One scheduler and
  one page interleave at every await; the theorems cover any number. `Unknown` is a key the
  registry does not have: a bulk request may name it, and `set_many` must not write it.
* `PilotEngine`: three trades are a full cap, the one it refuses, and the one after a close;
  results -3 and 2 on a capital of 100 reach the daily loss (3 %) and the drawdown (2 %).
  Time 5 is the second day's last minute. One strategy keeps `openBy` and the cap in play over
  two underlyings.
* `FnoRoll`: six rows hold the straddle of a roll, of one that failed half way and of its
  repetition; three faults break one attempt off at each of its three stages.

### Fairness

`FairSpec` assumes of the code only what its loops guarantee: the close-out loop starts
passes for ever (`squareoff_loop` catches everything and sleeps); a cycle under way goes on,
because every await in it has a timeout or an error; the lock is an `asyncio.Lock`, first
come, first served, hence strong fairness of `Lock`. Of the world: time passes, the throttle's
30 seconds elapse, Angel squares off MIS. Nothing is assumed of the user, of signals, or of
the intraday loop, which the module switches may stop. A price must exist: with `no_price`
for ever, `_manage_cycle` skips the row for ever, and so the liveness run leaves it out.

The other fair specifications assume the same of their loops and no more. `MirrorBooks`: passes
run for ever, and one under way goes on. That a pass may enter is not assumed, since the
switch may stop it. `TokenManager`: the loop looks every hour, every await has a timeout, keys
expire, and, the one assumption about Dhan, who asks again and again is granted a login in
the end (strong fairness of `LoginOk`). `DeskSwitches`: time passes, a find or a write answers
or raises, schedulers come round. `FnoRoll`: the tick loop runs inside the window and a
request goes on; nothing is assumed of the operator, and faults are finitely many.
`PilotEngine` states no liveness; what must have happened by night is an invariant.

## 4. Proofs

TLAPS checks every proof to its leaves; the theorems hold for all values of the constants
that satisfy the assumptions `DeskAssumption`, `BrokerAssumption`, `MirrorAssumption`,
`TokenAssumption`, `SwitchAssumption`, `PilotAssumption` and `RollAssumption`, which TLC
evaluates in every run of the module. A theorem with a further hypothesis on the constants
(one runner, no overlap, a fault left out) says so in its statement; why it needs one is said
below.

**LiveDeskProofs.**

* `TypeCorrect`: `TypeOK`, which is `Typed` and `RowsHaveOrders`. Neither is inductive alone: that
  a closed entry's day is a number needs every row and every row in a task's hands to belong to
  an accepted order.
* `KillSwitchDrains`: the action property, from a step lemma about each label.
* `MarkedRowsNotExited`: rests on `LockHeld`, mutual exclusion of manage cycles. A row is
  marked only at `book`, by the lock's holder, while another cycle's exit would need the lock.
* `OneEntry`: for a single runner. `BarsBurned` strengthens it: the pair in hand is burned for
  today and has no entry yet, and every accepted entry's bar is burned. The hypothesis is
  needed: `live_double_entry` is what happens with two.
* `NoExitOpens`: with any number of runners and closers, under `Orderly`. `WorksOnOpen` says a
  cycle's rows are still open and its time is the clock's; `Covered` says Angel holds each
  open row until it squares off, but for one whose exit is being recorded; `Accepted` keeps an
  entry between the broker and the ledger apart from all rows. `Orderly` names what the engine
  takes for granted: no panic, lost acknowledgement, late rejection, early square-off, slow
  cycle or restart. `live_overlap` checks `NoStray` with restarts too, for two orders; with
  three, and two strategies on a stock, restarts break it (`live_restart`).
* `CapitalIsRespected`: for a single runner, whatever fails. `RoomKept` says that the room the
  check found is still there while the order is out and until its row is written: everybody
  else only closes rows. Two runners may both find the last room.
* `LedgerMatchesBroker`: under `Reliable`, which adds to `Orderly` one runner, no declined exit
  and a close-out that starts after the entry cutoff, as the desk's times have it. `Apart`
  keeps entries and the close-out loop on different sides of the cutoff; `Known` says that what
  Angel holds is in the ledger or about to be, that an accepted exit has closed its position,
  and that a cycle which is about to read Angel's book has every open row before it. Without
  the hypotheses `live_entry_race` and `live_refused_exit` are what happens.

**PaperBrokerProofs.** First the rules, about every order, position and holding:
`ValidStopCanFill`, `FillsAtTheMarket`, `SplitWithinBooks`, `DeliveryCannotGoShort`.

`BrokerTypes` and `DeliveryNeverShort` follow from one inductive invariant
`Inv == TypeOK /\ Hands /\ Known /\ Planned /\ NeverShort`. `NeverShort` alone is not
inductive: between `Decide` and `Book` the position may be changed by others, and `Planned`
says why the plan stays harmless (what it leaves is not negative, it opens no short, and its
row is one of its product). Nothing is assumed about overlaps or restarts.

The other four, `TradesExplain`, `CapitalCovers`, `CutoffLeavesNothing` and
`BrokerKeepsPromise`, assume `Serial`: a call ends before the next begins. It is the reading
the code's own documentation takes, and none of the four holds when calls overlap: TLC violates
each of them on `paper_serial` with `Overlap = TRUE`. The process may stop between any two
steps: `CapitalCovers` and `CutoffLeavesNothing` hold through any number of stops, and
`TradesExplain` until the first, because a stop after the position's write and before the
trade's leaves shares no trade row explains. `BrokerKeepsPromise` assumes `MaxRestarts = 0`
for the same reason: the order of such a stop rests again with its position moved, which
`PaperBook` does not allow. Their inductive invariant is `Calm`, next to `Inv`:

* `Solo`, one call at a time; `Rows`, a product has one open row and it holds shares; `Sheet`,
  ids not given out have no order;
* `InHand`, `Swept`, `Flattening`, `Lots`: what a call has read before its awaits is still so
  (the order in hand has not ended, the sweep's snapshot is the orders, the square-off has all
  intraday rows before it, a settlement the rows as they are);
* `Ready`: the plan is what `execute` would decide now, and is paid for;
* `Explained`, `Filled`, `WithinCapital`: shares are the trades' sums but for the trade about
  to be written and an order has one trade row once complete, both until the process first
  stops, and margin is covered.

Each action has a step lemma; sums over rows are reduced to the one row that changed.
`BrokerKeepsPromise` then maps every action to one of `PaperBook` or to none (`BookMaps` to
`Fill`, `AcceptMaps`, `DeskMaps`, `SweepMaps` and `RejectMaps` to `Rest` and `Drop`,
`ExpireMaps` to `Expire`; `Trade` and `Complete` change nothing `PaperBook` sees, since
`Explained` makes the shares count from the write of the position on).

**MirrorBooksProofs.** All safety properties of its run. A plan is a fold over the entries;
`FoldProofs` gives the function the fold computes, and `EnteredSound` the induction over the
order of entries: whatever was taken before an entry obeys slots, stocks and cash at every
time of the trades' clock. The invariant `Base` (types; `Parents` and `Copied`, times in order;
`OpenRead`, the open rows read are all there are; `Planned`, what a pass still has to write)
and `Fits`, the book as it will be when the plan comes to an entry, give `BookTypes`,
`SlotsNeverExceeded`, `StockHeldOnce` and `Decisions`, with resets at any moment.
`CashNeverNegative` and `RecordedResetHolds` assume that no pass runs beside a reset: `Alone` adds
`Resets`, `Affords` and the two properties. Stops and failures inside the reset are covered; then
`ResetHolds` speaks of the last reset that was recorded, and that a reset which deleted everything
and never was recorded holds nothing back is `mirror_stop`. For `RecordedResetHolds` the hypothesis
is needed (the race of `mirror_race` breaks `ResetHolds` as well). For the cash it serves the proof, since a reset may delete gains that a plan
in hand counts on; TLC found no violation with a reset beside a pass in three trades. The hard
step is the entry written late: it must be affordable at its own time, although closes booked
since have moved money; `PlanCash` bounds what the book had then by what each copy leaves at
the least.

**FoldProofs.** Induction over a finite set; that a function with a fold's recursion exists;
and from it how `SumFunctionOnSet` grows, shrinks, compares and changes with one of its terms
(`SumInsert`, `SumRemove`, `SumLeq`, `SumChange`, `SumPart` and so on).

**TokenManagerProofs.** `TokenTypes`; `LoginsExclude` from an invariant that says whose the
lock is: as long as nobody overran it, whoever is between login and release holds it.
`StoredTokenWorks` needs to know who may have the live token: it is the stored one or in the
hands of somebody about to store it, unless one was lost or two minters crossed.
`OwnersRelease` follows step by step.

**DeskSwitchesProofs.** `SwitchTypes`; `CopyRecent`, which is inductive once a lookup that has
read is known to have a snapshot: writes set `since` to 0, and a tick ages copy, lookup and
switch alike until all stop at `Old`. `OffIsHeld` is an action property on top of it.

**PilotEngineProofs.** All five properties of its run. `Basis` holds the types, the ledger's
bound, and that the monitor, the only one that closes, has nothing but open trades before it.
`TracksTold` and `PilotTypes` follow from it: the ledger bounds what a track was told.
`OneTradeEach` rests on `Looked`: between a look and the end of its underlying, whatever is
open there was seen or entered since, and the pass alone enters. `NightIsFlat` rests on
`Calm`: a pass stays within its day, the last sweep has every open trade before it and must
close it, and until the day's first check nothing is open. `CapIsKept` rests on `Counts`: the
gate's count, plus the entry it is about to hear of, covers the open trades and the one whose
close it has not heard of; the check leaves room for one. `Calm` is what makes the count's
return to nothing on a new day sound. A pass's order is arithmetic on a division, whence the
lemmas from `Division` to `SameUnderlying`.

**FnoRollProofs.** `RollTypes` holds whatever overlaps; its `Basis` also says that a request
counts each of its positions once. The other three are about one request at a time (with two,
`fno_overlap` is what happens). `Serial` says what a request has achieved at each label: a
close fills exactly the position it was sent for, since no other open one has its contract;
what an index roll has still to close is all that is open; then it has sold exactly the legs
before the one in hand. `StraddleStands` reads this at `Record`. `FailureIsRetried` adds
`Undone`: a request that closed anything works on an unmarked day. `NothingDoubles` is about
both kinds of account. On the index, `IndexShort`: every open position is short the day's lots
and stands alone on its wing, so that the sum over a wing has at most one term. On the stocks a
wing may hold any number of positions, and `StockShort` bounds their sum: all are short; what a
request has still to close is open and stays so until its turn; a sale adds to the position it
read; and a roll that has missed a position, or has closed them all, has room for one round
more on each wing it has not sold yet (`Spare`, `StockHeld`).

**Only model-checked**: liveness (`EveryRowCloses`, `CopiesClose`, `Recovers`, `OnWorks`,
`DueIsRolled`), which is out of the prover's reach. Every other property of a passing run is
stated by a theorem. The properties of the violating configurations do not hold of the code as
it is and have none, though `Promise` contains `FinalStays` for a broker called one call at a
time.

## 5. What holds only under a hypothesis

The runs leave out a fault where the code documents that it accepts the consequence or has no
answer. `NoStray` fails with `lost_ack` (an exit sent again without a look at the book, within
the throttle), `late_reject` on an otherwise empty book, `slow`, a margin call between the
book and the exit, and two restarts that lose exits of opposite sides (`live_restart`). `BooksAgree` fails
across a restart between an accepted entry and its row, and when a reconciliation falls between
the two (`live_entry_race`); its run has no entries once the closer runs, as the desk's times have
it. `OneEntryPerBar` and `CapitalRespected` are about one `run_cycle` at a time
(`live_double_entry`).
`TradesExplainBooks`, `WithinCapital`, `CutoffFlattens` and `Promise` fail when calls of the
paper broker overlap, and `TradesExplainBooks` and `Promise` when the process stops inside
one. These are listed as hazards.

The properties of the other modules hold under these: `ResetHolds` when no pass runs beside a
reset (`RaceReset`), and only of a reset that came to its record: one that stops after its deletes
is forgotten (`mirror_stop`); `NoDoubling` and `MarkedHoldsStraddle` when one request works on an
account at a time (`Overlap`), and `FailedIsRetried` when, besides, nobody rolls again a day
that is marked (`Again`); `FlatAtNight` when the last pass and one sweep fit in half an hour;
`OffHolds` while the database answers, since the code fails open without it.

## 6. Plan

1. `StrategyRuns`: runs, the shared watchlist and the feed.
2. `sync_positions` and pending limit orders in `FnoRoll`; the other desks built on the same
   fill.
3. The reset of `MirrorBooks` across several books, and the pattern and top-10 books that
   share `plan_book`.
4. Liveness of the paper broker: every DAY order ends; CNC buys settle.
5. Proofs: `NoExitOpens` with restarts, for a single runner and one strategy on a stock; the
   four serial theorems of the paper broker for callers that work on different orders and
   products.

## 7. Not modelled

The repository is far larger than its protocols: strategies, pricing, pattern libraries,
backtests, research and AI services and the frontends are formulas, statistics and pages,
without state whose interleavings matter, and make up most of its lines. The desks listed as
not modelled in `PROJECT.json` (options, MCX, index, commodities, pre-live) repeat the live
desk's or the F&O positions' design on other instruments. The caches and streams pace and
fan out quotes, which every module here takes as input.
