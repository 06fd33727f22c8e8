----------------------------- MODULE PilotEngine -----------------------------
(***************************************************************************)
(* The Go option engine (NIFTY-PILOT-SOVEREIGN/engine): the evaluation     *)
(* loop that enters paper trades and the position monitor that closes them *)
(* (cmd/niftypilot/main.go), two goroutines over the ledger                *)
(* (internal/ledger), the risk gate (internal/risk) and the strategies'    *)
(* walk-forward tracks (internal/validator).  The ledger and the risk gate *)
(* lock themselves; nothing locks a sequence of calls.  A track has no lock*)
(* at all: only the monitor writes it, and the evaluation loop reads its   *)
(* status beside that.  Such a read finds the old status, the new one or a *)
(* mix of the two; a mix is not DEMOTED and counts like the old one, so the*)
(* two orders of RecordTrade and EvSignal are all there is to find.        *)
(*                                                                         *)
(* Time is counted in parts of a day: the session, its last minute from    *)
(* 15:29, the half hour after it, and the night.  Prices, costs and signals*)
(* are left to chance: a strategy may signal either direction, a trade may *)
(* hit its stop or its target, and an exit nets one of Result.             *)
(* Whether a window passes or is bad is left to chance too.                *)
(***************************************************************************)
EXTENDS Integers, FiniteSets, Sequences

CONSTANTS
  Underlyings, Strategies,     \* sequences, in the order of the pass
  MaxConcurrentPerDir,
  DailyLossPct, DrawdownPct,   \* percents of the equity
  Pause,                       \* IntradayPauseDuration, in parts of a day
  MinTradesPerWindow,
  Capital, Result,             \* the paper capital; what an exit may net
  MaxTrades, LastTime          \* bounds

Elements(s)  == {s[i] : i \in DOMAIN s}
Strategy  == Elements(Strategies)
Direction == {"LONG", "SHORT"}
Status    == {"PROBATION", "PENDING", "ACTIVE", "DEMOTED"}
Id        == 1..MaxTrades
None      == 0

ASSUME PilotAssumption ==
  /\ Underlyings \in Seq(Elements(Underlyings)) /\ Strategies \in Seq(Strategy)
  /\ Underlyings # <<>> /\ Strategies # <<>>
  /\ \A s \in {Underlyings, Strategies} : \A i, j \in DOMAIN s : s[i] = s[j] => i = j
  /\ MaxConcurrentPerDir \in Nat \ {0} /\ DailyLossPct \in Nat \ {0} /\ DrawdownPct \in Nat \ {0}
  /\ Pause \in Nat \ {0} /\ MinTradesPerWindow \in Nat \ {0}
  /\ Capital \in Nat \ {0} /\ Result \subseteq Int
  /\ MaxTrades \in Nat /\ LastTime \in Nat

VARIABLES
  time,
  trades,       \* the ledger, in the order of its entries
  realized,     \* RealizedPnL: what its closed trades netted, as the code adds it up
  track,        \* each strategy's track: its status, and the trades it was told of
  kill,         \* the kill switch is active
  session,      \* sessionStartDate
  start, peak,  \* sessionStartEquity, peakEquityToday
  paused,       \* intradayPausedUntil
  count,        \* longCount, shortCount
  ev,           \* the evaluation loop: what it does next, and what it has read
  mon,          \* the position monitor, likewise
  swept         \* history: since the close a whole sweep ran after the last pass

riskVars == <<kill, session, start, peak, paused, count>>
ledger   == <<trades, realized>>
vars     == <<time, ledger, track, riskVars, ev, mon, swept>>

-----------------------------------------------------------------------------
Day(t)          == t \div 4
Part(t)         == t % 4
Session == 0
LastMinute == 1
HalfHour == 2
Night == 3
IsMarketOpen(t) == Part(t) \in {Session, LastMinute}
IsForceClose(t) == Part(t) \in {LastMinute, HalfHour}

Open  == {n \in DOMAIN trades : trades[n].open}
Trade == [strategy : Strategy, underlying : Elements(Underlyings), direction : Direction,
          open : BOOLEAN]

\* A pass visits every strategy for the first underlying, then for the second.
Steps         == Len(Underlyings) * Len(Strategies)
Underlying(i) == Underlyings[((i - 1) \div Len(Strategies)) + 1]
Strat(i)      == Strategies[((i - 1) % Len(Strategies)) + 1]
First(i)      == (i - 1) % Len(Strategies) = 0

EvLabels  == {"idle", "scan", "signal", "equity", "check", "record", "register"}
MonLabels == {"idle", "sweep", "register", "track"}

TypeOK ==
  /\ time \in 0..LastTime
  /\ trades \in Seq(Trade) /\ Len(trades) <= MaxTrades /\ realized \in Int
  /\ track \in [Strategy -> [status : Status, told : 0..MaxTrades]]
  /\ kill \in BOOLEAN /\ session \in -1..Day(LastTime)
  /\ start \in Int /\ peak \in Int /\ paused \in 0..LastTime + Pause
  /\ count \in [Direction -> 0..MaxTrades]
  /\ ev \in [at : EvLabels, now : 0..LastTime, i : 1..Steps, openBy : SUBSET Strategy,
             dir : Direction, equity : Int]
  /\ mon \in [at : MonLabels, now : 0..LastTime, left : SUBSET Id, trade : Id \cup {None},
              last : BOOLEAN]
  /\ swept \in BOOLEAN

Init ==
  /\ time = 0 /\ trades = <<>> /\ realized = 0
  /\ track = [s \in Strategy |-> [status |-> "PROBATION", told |-> 0]]
  /\ kill = FALSE /\ session = -1 /\ start = 0 /\ peak = 0 /\ paused = 0
  /\ count = [d \in Direction |-> 0]
  /\ ev = [at |-> "idle", now |-> 0, i |-> 1, openBy |-> {}, dir |-> "LONG", equity |-> 0]
  /\ mon = [at |-> "idle", now |-> 0, left |-> {}, trade |-> None, last |-> FALSE]
  /\ swept = FALSE

-----------------------------------------------------------------------------
(* evaluationLoop.  The next strategy of the pass; a new underlying begins *)
(* with a look at the open trades.  What was read for the last one is      *)
(* forgotten.                                                              *)

Onward(e) ==
  LET i == e.i + 1
      fresh == [e EXCEPT !.dir = "LONG", !.equity = 0]
  IN  IF e.i = Steps THEN [fresh EXCEPT !.at = "idle", !.i = 1, !.now = 0, !.openBy = {}]
      ELSE IF First(i) THEN [fresh EXCEPT !.at = "scan", !.i = i, !.openBy = {}]
      ELSE [fresh EXCEPT !.at = "signal", !.i = i]

EvTick ==
  /\ ev.at = "idle" /\ IsMarketOpen(time)
  /\ ev' = [ev EXCEPT !.at = "scan", !.now = time]
  /\ UNCHANGED <<time, ledger, track, riskVars, mon, swept>>

OpenBy(u) == {trades[n].strategy : n \in {k \in Open : trades[k].underlying = u}}

EvScan ==
  /\ ev.at = "scan"
  /\ ev' = [ev EXCEPT !.at = "signal", !.openBy = OpenBy(Underlying(ev.i))]
  /\ UNCHANGED <<time, ledger, track, riskVars, mon, swept>>

IsTradeable(s) == track[s].status # "DEMOTED"

\* Mutant of MayEnter: the open trades are not looked at.
MayEnterAgain(e) == IsTradeable(Strat(e.i))

MayEnter(e) == IsTradeable(Strat(e.i)) /\ Strat(e.i) \notin e.openBy

EvSignal ==
  /\ ev.at = "signal"
  /\ \/ \E d \in Direction : MayEnter(ev) /\ Len(trades) < MaxTrades /\ ev' = [ev EXCEPT !.at = "equity", !.dir = d]
     \/ ev' = Onward(ev)
  /\ UNCHANGED <<time, ledger, track, riskVars, mon, swept>>

\* The argument of CheckEntryAllowed, read before the risk engine is locked.
EvEquity ==
  /\ ev.at = "equity"
  /\ ev' = [ev EXCEPT !.at = "check", !.equity = Capital + realized]
  /\ UNCHANGED <<time, ledger, track, riskVars, mon, swept>>

\* CheckEntryAllowed, under the risk engine's lock.  Nothing in the engine blocks margin, so
\* the margin breaker, which comes last, never refuses.
Below(e, from, pct) == from > 0 /\ 100 * (from - e) >= pct * from

Rollover ==
  IF session # Day(ev.now)
  THEN [start |-> ev.equity, peak |-> ev.equity, count |-> [d \in Direction |-> 0]]
  ELSE [start |-> start, peak |-> IF ev.equity > peak THEN ev.equity ELSE peak, count |-> count]

CheckEntryAllowed ==
  /\ ev.at = "check"
  /\ IF kill THEN ev' = Onward(ev) /\ UNCHANGED riskVars
     ELSE LET r    == Rollover
              loss == Below(ev.equity, r.start, DailyLossPct)
              dd   == Below(ev.equity, r.peak, DrawdownPct)
              rest == ev.now < paused
          IN  /\ session' = Day(ev.now) /\ start' = r.start /\ peak' = r.peak /\ count' = r.count
              /\ kill' = loss
              /\ paused' = IF ~loss /\ ~rest /\ dd THEN ev.now + Pause ELSE paused
              /\ ev' = IF loss \/ rest \/ dd \/ r.count[ev.dir] >= MaxConcurrentPerDir
                       THEN Onward(ev) ELSE [ev EXCEPT !.at = "record"]
  /\ UNCHANGED <<time, ledger, track, mon, swept>>

\* ExecuteEntry.
RecordEntry ==
  /\ ev.at = "record"
  /\ trades' = Append(trades, [strategy |-> Strat(ev.i), underlying |-> Underlying(ev.i),
                               direction |-> ev.dir, open |-> TRUE])
  /\ ev' = [ev EXCEPT !.at = "register"]
  /\ UNCHANGED <<time, realized, track, riskVars, mon, swept>>

RegisterOpen ==
  /\ ev.at = "register"
  /\ count' = [count EXCEPT ![ev.dir] = @ + 1]
  /\ ev' = Onward([ev EXCEPT !.openBy = @ \cup {Strat(ev.i)}])
  /\ UNCHANGED <<time, ledger, track, kill, session, start, peak, paused, mon, swept>>

-----------------------------------------------------------------------------
(* positionMonitorLoop.  last says that the sweep began after the close    *)
(* and after the day's last pass.                                          *)

MonTick ==
  /\ mon.at = "idle"
  /\ LET last == Part(time) = HalfHour /\ ev.at = "idle"
     IN  IF Open = {} THEN swept' = (swept \/ last) /\ UNCHANGED mon
         ELSE /\ mon' = [at |-> "sweep", now |-> time, left |-> Open, trade |-> None, last |-> last]
              /\ UNCHANGED swept
  /\ UNCHANGED <<time, ledger, track, riskVars, ev>>

SweepEnds ==
  /\ mon.at = "sweep" /\ mon.left = {}
  /\ mon' = [mon EXCEPT !.at = "idle", !.now = 0, !.last = FALSE]
  /\ swept' = (swept \/ mon.last)
  /\ UNCHANGED <<time, ledger, track, riskVars, ev>>

\* Mutants of Closing: only the minute of 15:29 forces trades out; nothing does.
ClosingAt1529(now) == IF Part(now) = LastMinute THEN {TRUE} ELSE IF IsMarketOpen(now) THEN BOOLEAN ELSE {FALSE}
ClosingByPrice(now) == IF IsMarketOpen(now) THEN BOOLEAN ELSE {FALSE}

\* Whether the monitor closes a trade it looks at: by force, or if the price says so.
Closing(now) == IF IsForceClose(now) THEN {TRUE} ELSE IF IsMarketOpen(now) THEN BOOLEAN ELSE {FALSE}

\* The next trade of the sweep; ExecuteExit, if it is to be closed.
MonVisit ==
  /\ mon.at = "sweep"
  /\ \E n \in mon.left, close \in Closing(mon.now) :
       /\ mon' = [mon EXCEPT !.left = @ \ {n}, !.at = IF close THEN "register" ELSE "sweep",
                             !.trade = IF close THEN n ELSE None]
       /\ IF close
          THEN \E r \in Result :
                 /\ trades' = [trades EXCEPT ![n].open = FALSE]
                 /\ realized' = realized + r
          ELSE UNCHANGED ledger
  /\ UNCHANGED <<time, track, riskVars, ev, swept>>

\* Mutant of RegisterClose: the count has no floor.
RegisterCloseBelow ==
  /\ mon.at = "register"
  /\ count' = [count EXCEPT ![trades[mon.trade].direction] = @ - 1]
  /\ mon' = [mon EXCEPT !.at = "track"]
  /\ UNCHANGED <<time, ledger, track, kill, session, start, peak, paused, ev, swept>>

RegisterClose ==
  /\ mon.at = "register"
  /\ LET d == trades[mon.trade].direction
     IN  count' = [count EXCEPT ![d] = IF @ > 0 THEN @ - 1 ELSE @]
  /\ mon' = [mon EXCEPT !.at = "track"]
  /\ UNCHANGED <<time, ledger, track, kill, session, start, peak, paused, ev, swept>>

\* RecordTrade: the status moves when a window is full.
After(status) ==
  CASE status = "PROBATION" -> {"PROBATION", "PENDING"}
    [] status = "PENDING"   -> {"ACTIVE", "PROBATION"}
    [] status = "ACTIVE"    -> {"ACTIVE", "DEMOTED"}
    [] status = "DEMOTED"   -> {"DEMOTED"}

\* Mutant of RecordTrade: the track is not told of the trades forced out.
RecordTradeByPrice ==
  /\ mon.at = "track"
  /\ LET s    == trades[mon.trade].strategy
         told == track[s].told + 1
     IN  IF IsForceClose(mon.now) THEN UNCHANGED track
         ELSE \E next \in After(track[s].status) :
                track' = [track EXCEPT ![s] = [status |-> next, told |-> told]]
  /\ mon' = [mon EXCEPT !.at = "sweep", !.trade = None]
  /\ UNCHANGED <<time, ledger, riskVars, ev, swept>>

RecordTrade ==
  /\ mon.at = "track"
  /\ LET s    == trades[mon.trade].strategy
         told == track[s].told + 1
     IN  \E next \in IF told % MinTradesPerWindow = 0 THEN After(track[s].status)
                     ELSE {track[s].status} :
           track' = [track EXCEPT ![s] = [status |-> next, told |-> told]]
  /\ mon' = [mon EXCEPT !.at = "sweep", !.trade = None]
  /\ UNCHANGED <<time, ledger, riskVars, ev, swept>>

-----------------------------------------------------------------------------
(* The half hour from the close to 16:00 is long: the pass under way ends, *)
(* and then a whole sweep runs.                                            *)

Tick ==
  /\ time < LastTime /\ (Part(time) = HalfHour => swept)
  /\ time' = time + 1 /\ swept' = FALSE
  /\ UNCHANGED <<ledger, track, riskVars, ev, mon>>

Evaluate == EvTick \/ EvScan \/ EvSignal \/ EvEquity \/ CheckEntryAllowed \/ RecordEntry \/ RegisterOpen
Monitor  == MonTick \/ SweepEnds \/ MonVisit \/ RegisterClose \/ RecordTrade

Next == Evaluate \/ Monitor \/ Tick
Spec == Init /\ [][Next]_vars

-----------------------------------------------------------------------------
(* Properties.                                                             *)

InDir(d) == {n \in Open : trades[n].direction = d}

\* No more trades are open in a direction than the risk engine allows, although its counts
\* are kept beside the ledger, are reset by the day's first check and move in other steps
\* than the ledger does (CheckEntryAllowed, RegisterOpen, RegisterClose).
CapHolds == \A d \in Direction : Cardinality(InDir(d)) <= MaxConcurrentPerDir

\* A strategy has one open trade on an underlying at most, by a look at the open trades
\* that is as old as the pass over the underlying (openByStrategy).
OneEach ==
  \A n, k \in Open :
    trades[n].strategy = trades[k].strategy /\ trades[n].underlying = trades[k].underlying => n = k

\* Nothing is carried overnight, not even what a pass begun at 15:29:59 entered after the
\* close (isForceClose).
FlatAtNight == Part(time) = Night => Open = {}

\* A strategy's track is told of every closed trade once, except of the one the monitor is
\* about to tell it of (closePosition, RecordTrade).
Told ==
  \A s \in Strategy :
    track[s].told + (IF mon.at \in {"register", "track"} /\ trades[mon.trade].strategy = s THEN 1 ELSE 0)
      = Cardinality({n \in DOMAIN trades \ Open : trades[n].strategy = s})

\* What the package and rolloverIfNewSession say of the daily loss circuit breaker: it is
\* reset at market open; no check is refused for the loss of an earlier day.
BreakerResets == kill /\ ev.at = "check" => session = Day(ev.now)
=============================================================================
