-------------------------- MODULE PilotEngineProofs ---------------------------
(***************************************************************************)
(* Theorems about PilotEngine, for any underlyings, strategies, caps,      *)
(* percents and results.                                                   *)
(***************************************************************************)
EXTENDS PilotEngine, FiniteSetTheorems, TLAPS

-----------------------------------------------------------------------------
(* The order of a pass, and the parts of a day.                            *)

LEMMA Division ==
  ASSUME NEW n \in Nat \ {0}, NEW k \in Nat
  PROVE  k = n * (k \div n) + (k % n) /\ k % n \in 0..(n - 1) /\ k \div n \in Nat
  BY SMT

LEMMA Quotient ==
  ASSUME NEW n \in Nat \ {0}, NEW q \in Nat, NEW r \in 0..(n - 1)
  PROVE  (n * q + r) \div n = q
  BY SMT

LEMMA Factor ==
  ASSUME NEW n \in Nat \ {0}, NEW q \in Nat, NEW p \in Nat, n * q < n * p
  PROVE  q < p
  BY SMT

\* Every step of a pass has a strategy and an underlying.
LEMMA PassSteps ==
  /\ Len(Strategies) \in Nat \ {0} /\ Len(Underlyings) \in Nat \ {0} /\ Steps \in Nat \ {0}
  /\ \A i \in 1..Steps : Strat(i) \in Strategy /\ Underlying(i) \in Elements(Underlyings)
<1> DEFINE n == Len(Strategies)
           m == Len(Underlyings)
<1>1. n \in Nat \ {0} /\ m \in Nat \ {0} /\ DOMAIN Strategies = 1..n /\ DOMAIN Underlyings = 1..m
  BY PilotAssumption
<1>2. Steps = m * n /\ Steps \in Nat \ {0}
  BY <1>1 DEF Steps
<1> HIDE DEF n, m
<1>3. ASSUME NEW i \in 1..Steps
      PROVE  ((i - 1) % n) + 1 \in 1..n /\ ((i - 1) \div n) + 1 \in 1..m
  <2> DEFINE k == i - 1
  <2>1. k \in Nat /\ k < m * n
    BY <1>2, <1>3
  <2> HIDE DEF k
  <2>2. k = n * (k \div n) + (k % n) /\ k % n \in 0..(n - 1) /\ k \div n \in Nat
    BY <1>1, <2>1, Division
  <2> DEFINE q == k \div n
  <2>3. q \in Nat /\ n * q <= k
    BY <1>1, <2>1, <2>2
  <2> HIDE DEF q
  <2>4. n * q < n * m
    BY <1>1, <2>1, <2>3
  <2>5. q < m
    BY <1>1, <2>3, <2>4, Factor
  <2>. QED
    BY <1>1, <2>2, <2>3, <2>5 DEF k, q
<1>. QED
  BY <1>1, <1>2, <1>3 DEF Strat, Underlying, Strategy, Elements, n, m

\* The next step of a pass that is not at the first strategy stays with its underlying.
LEMMA SameUnderlying ==
  ASSUME NEW i \in 1..Steps, i # Steps, ~First(i + 1)
  PROVE  Underlying(i + 1) = Underlying(i)
<1> DEFINE n == Len(Strategies)
           k == i - 1
<1>1. n \in Nat \ {0} /\ Steps \in Nat
  BY PassSteps
<1>2. k \in Nat /\ k + 1 = i
  BY <1>1
<1>3. i % n # 0
  BY <1>2 DEF First
<1> HIDE DEF n, k
<1> DEFINE q == k \div n
           r == k % n
<1>4. k = n * q + r /\ r \in 0..(n - 1) /\ q \in Nat
  BY <1>1, <1>2, Division
<1> HIDE DEF q, r
<1>5. r + 1 # n
  <2>1. SUFFICES ASSUME r + 1 = n PROVE FALSE
    OBVIOUS
  <2>2. i = n * q + n /\ i \in Nat
    BY <1>1, <1>2, <1>4, <2>1
  <2>3. i = n * (q + 1) + 0
    BY <1>1, <1>4, <2>2
  <2>4. i \div n = q + 1
    BY <1>1, <1>4, <2>3, Quotient
  <2>5. i = n * (i \div n) + (i % n)
    BY <1>1, <2>2, Division
  <2>6. i % n \in Nat
    BY <1>1, <2>2
  <2>. QED
    BY <1>1, <1>3, <1>4, <2>3, <2>4, <2>5, <2>6
<1>6. i = n * q + (r + 1) /\ r + 1 \in 0..(n - 1)
  BY <1>1, <1>2, <1>4, <1>5
<1>7. i \div n = q
  BY <1>1, <1>4, <1>6, Quotient
<1>8. (i + 1) - 1 = i
  BY <1>2
<1>. QED
  BY <1>7, <1>8 DEF Underlying, n, k, q

LEMMA DayParts ==
  ASSUME NEW t \in Nat
  PROVE  /\ Day(t) \in Nat /\ Part(t) \in 0..3
         /\ Part(t) = 3 => Part(t + 1) = 0
         /\ Part(t) # 3 => Part(t + 1) = Part(t) + 1 /\ Day(t + 1) = Day(t)
         /\ \A u \in 0..t : Day(u) <= Day(t)
  BY DEF Day, Part
-----------------------------------------------------------------------------
(* What every step relies on: types, the ledger's bound, and that the      *)
(* monitor, which alone closes, has only open trades before it.            *)

Pass  == [at : EvLabels, now : 0..LastTime, i : 1..Steps, openBy : SUBSET Strategy,
          dir : Direction, equity : Int]
Sweep == [at : MonLabels, now : 0..LastTime, left : SUBSET Id, trade : Id \cup {None},
          last : BOOLEAN]

Entering(d) == IF ev.at = "register" /\ ev.dir = d THEN 1 ELSE 0

Basis ==
  /\ time \in 0..LastTime
  /\ trades \in Seq(Trade) /\ Len(trades) <= MaxTrades /\ realized \in Int
  /\ track \in [Strategy -> [status : Status, told : Nat]]
  /\ kill \in BOOLEAN /\ session \in -1..Day(LastTime)
  /\ start \in Int /\ peak \in Int /\ paused \in 0..LastTime + Pause
  /\ count \in [Direction -> Nat]
  /\ \A d \in Direction : count[d] + Entering(d) <= Len(trades)
  /\ ev \in Pass /\ mon \in Sweep /\ swept \in BOOLEAN
  /\ mon.left \subseteq Open
  /\ mon.at \in {"register", "track"} => mon.trade \in DOMAIN trades \ Open
  /\ ev.at \in {"equity", "check", "record"} => Len(trades) < MaxTrades

\* Where a pass goes on.
LEMMA OnwardTypes ==
  ASSUME NEW e \in Pass
  PROVE  /\ Onward(e) \in Pass /\ Onward(e).at \in {"idle", "scan", "signal"}
         /\ Onward(e).at # "idle" => Onward(e).now = e.now
         /\ Onward(e).at = "signal" =>
              Underlying(Onward(e).i) = Underlying(e.i) /\ Onward(e).openBy = e.openBy
<1> DEFINE fresh == [e EXCEPT !.dir = "LONG", !.equity = 0]
<1>1. Steps \in Nat \ {0} /\ e.i \in 1..Steps /\ 0 \in 0..LastTime /\ 1 \in 1..Steps
  BY PassSteps, PilotAssumption DEF Pass
<1>2. fresh \in Pass /\ fresh.now = e.now /\ fresh.i = e.i /\ fresh.openBy = e.openBy
  <2> DEFINE north == [e EXCEPT !.dir = "LONG"]
  <2>1. north \in Pass /\ north.now = e.now /\ north.i = e.i /\ north.openBy = e.openBy
    BY DEF Pass, Direction
  <2>2. fresh = [north EXCEPT !.equity = 0]
    BY DEF Pass
  <2> HIDE DEF north
  <2>. QED
    BY <2>1, <2>2 DEF Pass
<1> HIDE DEF fresh
<1>3. CASE e.i = Steps
  <2> DEFINE over == [fresh EXCEPT !.at = "idle", !.i = 1]
  <2>1. over \in Pass /\ over.at = "idle"
    BY <1>1, <1>2 DEF Pass, EvLabels
  <2>2. Onward(e) = [over EXCEPT !.now = 0, !.openBy = {}]
    BY <1>2, <1>3 DEF Onward, fresh, Pass
  <2> HIDE DEF over
  <2>. QED
    BY <1>1, <2>1, <2>2 DEF Pass, EvLabels
<1>4. CASE e.i # Steps /\ First(e.i + 1)
  <2>1. Onward(e) = [fresh EXCEPT !.at = "scan", !.i = e.i + 1, !.openBy = {}]
    BY <1>4 DEF Onward, fresh
  <2>2. e.i + 1 \in 1..Steps
    BY <1>1, <1>4
  <2>. QED
    BY <1>1, <1>2, <2>1, <2>2 DEF Pass, EvLabels
<1>5. CASE e.i # Steps /\ ~First(e.i + 1)
  <2>1. Onward(e) = [fresh EXCEPT !.at = "signal", !.i = e.i + 1]
    BY <1>5 DEF Onward, fresh
  <2>2. e.i + 1 \in 1..Steps
    BY <1>1, <1>5
  <2>3. Underlying(e.i + 1) = Underlying(e.i)
    BY <1>1, <1>5, SameUnderlying
  <2>. QED
    BY <1>1, <1>2, <2>1, <2>2, <2>3 DEF Pass, EvLabels
<1>. QED
  BY <1>3, <1>4, <1>5

\* What an entry does to the ledger,
LEMMA Entry ==
  ASSUME Basis, RecordEntry
  PROVE  /\ trades' \in Seq(Trade) /\ Len(trades') = Len(trades) + 1
         /\ DOMAIN trades' = DOMAIN trades \cup {Len(trades) + 1} /\ Len(trades) + 1 \notin DOMAIN trades
         /\ \A n \in DOMAIN trades : trades'[n] = trades[n]
         /\ Open' = Open \cup {Len(trades) + 1}
         /\ trades'[Len(trades) + 1] = [strategy |-> Strat(ev.i), underlying |-> Underlying(ev.i),
                                        direction |-> ev.dir, open |-> TRUE]
<1> DEFINE new == [strategy |-> Strat(ev.i), underlying |-> Underlying(ev.i),
                   direction |-> ev.dir, open |-> TRUE]
<1>1. new \in Trade
  BY PassSteps DEF Basis, Pass, Trade
<1>2. trades' = Append(trades, new) /\ trades \in Seq(Trade) /\ new.open
  BY DEF RecordEntry, Basis
<1> HIDE DEF new
<1>3. /\ trades' \in Seq(Trade) /\ Len(trades') = Len(trades) + 1
      /\ DOMAIN trades = 1..Len(trades) /\ DOMAIN trades' = 1..(Len(trades) + 1)
      /\ Len(trades) \in Nat
  BY <1>1, <1>2
<1>4. trades'[Len(trades) + 1] = new /\ \A n \in DOMAIN trades : trades'[n] = trades[n]
  BY <1>1, <1>2, <1>3
<1>5. DOMAIN trades' = DOMAIN trades \cup {Len(trades) + 1} /\ Len(trades) + 1 \notin DOMAIN trades
  BY <1>3
<1>. QED
  BY <1>2, <1>3, <1>4, <1>5 DEF Open, new

\* and what a close does.
LEMMA Close ==
  ASSUME Basis, NEW n \in Open, trades' = [trades EXCEPT ![n].open = FALSE]
  PROVE  /\ trades' \in Seq(Trade) /\ Len(trades') = Len(trades) /\ DOMAIN trades' = DOMAIN trades
         /\ Open' = Open \ {n} /\ n \in DOMAIN trades
         /\ \A k \in DOMAIN trades : /\ trades'[k].strategy = trades[k].strategy
                                    /\ trades'[k].underlying = trades[k].underlying
                                    /\ trades'[k].direction = trades[k].direction
<1>1. trades \in Seq(Trade) /\ n \in DOMAIN trades /\ DOMAIN trades = 1..Len(trades)
  BY DEF Basis, Open
<1>2. \A k \in DOMAIN trades : trades[k] \in Trade
  BY <1>1
<1>3. [trades[n] EXCEPT !.open = FALSE] \in Trade
  BY <1>1, <1>2 DEF Trade
<1>4. trades' = [trades EXCEPT ![n] = [trades[n] EXCEPT !.open = FALSE]]
  BY <1>1
<1>5. /\ trades' \in Seq(Trade) /\ Len(trades') = Len(trades) /\ DOMAIN trades' = DOMAIN trades
      /\ \A k \in DOMAIN trades : trades'[k] = IF k = n THEN [trades[n] EXCEPT !.open = FALSE] ELSE trades[k]
  BY <1>1, <1>3, <1>4
<1>. QED
  BY <1>1, <1>2, <1>5 DEF Open, Trade
-----------------------------------------------------------------------------
(* Basis is an invariant: one lemma per loop.                              *)

LEMMA BasisInit == Init => Basis
<1> SUFFICES ASSUME Init PROVE Basis
  OBVIOUS
<1>1. 1 \in 1..Steps /\ 0 \in 0..LastTime /\ LastTime \in Nat
  BY PassSteps, PilotAssumption
<1>2. ev \in Pass /\ mon \in Sweep /\ mon.left = {} /\ mon.at = "idle" /\ ev.at = "idle"
  BY <1>1 DEF Init, Pass, Sweep, EvLabels, MonLabels, Direction
<1>3. -1 \in -1..Day(LastTime) /\ 0 \in 0..LastTime + Pause
  BY <1>1, PilotAssumption, DayParts
<1>4. trades \in Seq(Trade) /\ Len(trades) = 0 /\ MaxTrades \in Nat
  BY PilotAssumption DEF Init
<1>5. track \in [Strategy -> [status : Status, told : Nat]] /\ count \in [Direction -> Nat]
  BY DEF Init, Status
<1>6. \A d \in Direction : count[d] = 0 /\ Entering(d) = 0
  BY <1>2 DEF Init, Entering
<1>7. \A d \in Direction : count[d] + Entering(d) <= Len(trades)
  BY <1>4, <1>6
<1>8. time \in 0..LastTime /\ realized \in Int /\ start \in Int /\ peak \in Int
  BY <1>1 DEF Init
<1>9. kill \in BOOLEAN /\ swept \in BOOLEAN /\ session = -1 /\ paused = 0
  BY DEF Init
<1>. QED
  BY <1>2, <1>3, <1>4, <1>5, <1>7, <1>8, <1>9 DEF Basis

\* A step of the pass that moves on without touching the ledger or the gate.
LEMMA OnwardBasis ==
  ASSUME Basis, ev' \in Pass, ev'.at \in {"idle", "scan", "signal", "equity", "check"},
         ev'.at \in {"equity", "check"} => Len(trades) < MaxTrades,
         UNCHANGED <<time, ledger, track, riskVars, mon, swept>>
  PROVE  Basis'
<1>1. Open' = Open /\ \A d \in Direction : Entering(d)' = 0
  BY DEF Open, ledger, Entering
<1>2. \A d \in Direction : count[d] <= Len(trades)
  BY DEF Basis, Entering, Direction
<1>. QED
  BY <1>1, <1>2 DEF Basis, ledger, riskVars

LEMMA EvaluateBasis == Basis /\ Evaluate => Basis'
<1> SUFFICES ASSUME Basis, Evaluate PROVE Basis'
  OBVIOUS
<1>1. ev \in Pass /\ time \in 0..LastTime
  BY DEF Basis
<1>2. CASE EvTick
  BY <1>1, <1>2, OnwardBasis DEF EvTick, Pass, EvLabels
<1>3. CASE EvScan
  <2>1. OpenBy(Underlying(ev.i)) \in SUBSET Strategy
    <3>1. \A n \in Open : trades[n] \in Trade
      BY DEF Open, Basis
    <3>. QED
      BY <3>1 DEF OpenBy, Trade
  <2>. QED
    BY <1>1, <1>3, <2>1, OnwardBasis DEF EvScan, Pass, EvLabels
<1>4. CASE EvSignal
  <2>1. CASE \E d \in Direction : MayEnter(ev) /\ Len(trades) < MaxTrades /\ ev' = [ev EXCEPT !.at = "equity", !.dir = d]
    BY <1>1, <1>4, <2>1, OnwardBasis DEF EvSignal, Pass, EvLabels
  <2>2. CASE ev' = Onward(ev)
    BY <1>1, <1>4, <2>2, OnwardTypes, OnwardBasis DEF EvSignal
  <2>. QED
    BY <1>4, <2>1, <2>2 DEF EvSignal
<1>5. CASE EvEquity
  <2>1. Capital + realized \in Int /\ Len(trades) < MaxTrades
    BY <1>5, PilotAssumption DEF Basis, EvEquity
  <2>. QED
    BY <1>1, <1>5, <2>1, OnwardBasis DEF EvEquity, Pass, EvLabels
<1>6. CASE CheckEntryAllowed
  <2>1. CASE kill
    BY <1>1, <1>6, <2>1, OnwardTypes, OnwardBasis DEF CheckEntryAllowed
  <2>2. CASE ~kill
    <3>1. /\ Rollover.start \in Int /\ Rollover.peak \in Int /\ Rollover.count \in [Direction -> Nat]
          /\ \A d \in Direction : Rollover.count[d] <= count[d]
      BY <1>1 DEF Rollover, Basis, Pass
    <3>2. /\ kill' \in BOOLEAN /\ session' = Day(ev.now) /\ start' = Rollover.start /\ peak' = Rollover.peak
          /\ count' = Rollover.count /\ paused' \in {paused, ev.now + Pause}
          /\ ev' \in {Onward(ev), [ev EXCEPT !.at = "record"]}
          /\ UNCHANGED <<time, ledger, track, mon, swept>>
      BY <1>6, <2>2 DEF CheckEntryAllowed, Below
    <3>3. session' \in -1..Day(LastTime) /\ paused' \in 0..LastTime + Pause
      <4>1. ev.now \in 0..LastTime /\ LastTime \in Nat /\ Pause \in Nat
        BY <1>1, PilotAssumption DEF Pass
      <4>2. Day(ev.now) \in Nat /\ Day(LastTime) \in Nat /\ Day(ev.now) <= Day(LastTime)
        BY <4>1, DayParts
      <4>3. paused \in 0..LastTime + Pause
        BY DEF Basis
      <4>. QED
        BY <3>2, <4>1, <4>2, <4>3
    <3>4. ev' \in Pass /\ ev'.at \in {"idle", "scan", "signal", "record"}
      BY <1>1, <3>2, OnwardTypes DEF Pass, EvLabels
    <3>5. Len(trades) < MaxTrades /\ Open' = Open /\ \A d \in Direction : Entering(d)' = 0
      BY <1>6, <3>2, <3>4 DEF CheckEntryAllowed, Basis, Open, ledger, Entering
    <3>6. \A d \in Direction : count[d] <= Len(trades) /\ Len(trades) \in Nat /\ count[d] \in Nat
      BY DEF Basis, Entering, Direction
    <3>7. \A d \in Direction : count'[d] + Entering(d)' <= Len(trades)'
      BY <3>1, <3>2, <3>5, <3>6 DEF ledger
    <3>. QED
      BY <3>1, <3>2, <3>3, <3>4, <3>5, <3>7 DEF Basis, ledger
  <2>. QED
    BY <2>1, <2>2
<1>7. CASE RecordEntry
  <2>1. ev' \in Pass /\ ev'.at = "register" /\ ev'.dir = ev.dir /\ Len(trades) < MaxTrades /\ ev.at = "record"
    BY <1>1, <1>7 DEF RecordEntry, Basis, Pass, EvLabels
  <2>2. /\ trades' \in Seq(Trade) /\ Len(trades') = Len(trades) + 1 /\ Len(trades) \in Nat
        /\ DOMAIN trades \ Open \subseteq DOMAIN trades' \ Open' /\ Open \subseteq Open'
    BY <1>7, Entry DEF Basis
  <2>3. \A d \in Direction : count'[d] + Entering(d)' <= Len(trades')
    BY <1>7, <2>1, <2>2 DEF RecordEntry, riskVars, Basis, Entering
  <2>4. mon.at \in {"register", "track"} => mon.trade \in DOMAIN trades' \ Open'
    BY <2>2 DEF Basis
  <2>. QED
    <3>1. Len(trades') <= MaxTrades
      BY <2>1, <2>2, PilotAssumption
    <3>2. mon.left \subseteq Open' /\ ev'.at \notin {"equity", "check", "record"}
      BY <2>1, <2>2 DEF Basis
    <3>. QED
      BY <1>7, <2>1, <2>2, <2>3, <2>4, <3>1, <3>2 DEF RecordEntry, riskVars, Basis
<1>8. CASE RegisterOpen
  <2> DEFINE e == [ev EXCEPT !.openBy = @ \cup {Strat(ev.i)}]
  <2>1. e \in Pass
    BY <1>1, PassSteps DEF Pass
  <2>2. ev' \in Pass /\ ev'.at \in {"idle", "scan", "signal"}
    BY <1>8, <2>1, OnwardTypes DEF RegisterOpen
  <2>3. count' = [count EXCEPT ![ev.dir] = @ + 1] /\ ev.at = "register" /\ ev.dir \in Direction
    BY <1>1, <1>8 DEF RegisterOpen, Pass
  <2>4. count' \in [Direction -> Nat] /\ \A d \in Direction : count'[d] + Entering(d)' <= Len(trades)
    BY <2>2, <2>3 DEF Basis, Entering
  <2>5. Open' = Open
    BY <1>8 DEF RegisterOpen, ledger, Open
  <2>. QED
    BY <1>8, <2>2, <2>4, <2>5 DEF RegisterOpen, Basis, ledger
<1>. QED
  BY <1>2, <1>3, <1>4, <1>5, <1>6, <1>7, <1>8 DEF Evaluate

LEMMA MonitorBasis == Basis /\ Monitor => Basis'
<1> SUFFICES ASSUME Basis, Monitor PROVE Basis'
  OBVIOUS
<1>1. mon \in Sweep /\ time \in 0..LastTime /\ trades \in Seq(Trade) /\ Open \subseteq Id
  <2>1. DOMAIN trades = 1..Len(trades) /\ Len(trades) <= MaxTrades /\ Len(trades) \in Nat
    BY DEF Basis
  <2>. QED
    BY <2>1, PilotAssumption DEF Basis, Open, Id
<1>2. CASE MonTick
  <2>1. mon' \in Sweep /\ swept' \in BOOLEAN /\ mon'.at \in {"idle", "sweep"} /\ mon'.left \subseteq Open
    <3> DEFINE last == Part(time) = HalfHour /\ ev.at = "idle"
               look == [at |-> "sweep", now |-> time, left |-> Open, trade |-> None, last |-> last]
    <3>1. last \in BOOLEAN /\ swept \in BOOLEAN /\ mon.left \subseteq Open /\ mon.at = "idle"
      BY <1>2 DEF MonTick, Basis
    <3>2. \/ mon' = mon /\ swept' = (swept \/ last)
          \/ mon' = look /\ swept' = swept
      BY <1>2 DEF MonTick
    <3> HIDE DEF last
    <3>3. look \in Sweep
      BY <1>1, <3>1 DEF Sweep, MonLabels
    <3>. QED
      BY <1>1, <3>1, <3>2, <3>3
  <2>2. Open' = Open /\ \A d \in Direction : Entering(d)' = Entering(d)
    BY <1>2 DEF MonTick, ledger, Open, Entering
  <2>. QED
    BY <1>2, <2>1, <2>2 DEF MonTick, Basis, ledger, riskVars
<1>3. CASE SweepEnds
  <2>1. mon' \in Sweep /\ swept' \in BOOLEAN /\ mon'.at = "idle" /\ mon'.left = {}
    <3>1. mon'.left = mon.left
      BY <1>1, <1>3 DEF SweepEnds, Sweep
    <3>2. 0 \in 0..LastTime
      BY PilotAssumption
    <3>3. mon' \in Sweep /\ mon'.at = "idle"
      BY <1>1, <1>3, <3>2 DEF SweepEnds, Sweep, MonLabels
    <3>. QED
      BY <1>1, <1>3, <3>1, <3>3 DEF SweepEnds, Sweep, Basis
  <2>2. Open' = Open /\ \A d \in Direction : Entering(d)' = Entering(d)
    BY <1>3 DEF SweepEnds, ledger, Open, Entering
  <2>. QED
    BY <1>3, <2>1, <2>2 DEF SweepEnds, Basis, ledger, riskVars
<1>4. CASE MonVisit
  <2>1. PICK n \in mon.left, close \in Closing(mon.now) :
          /\ mon' = [mon EXCEPT !.left = @ \ {n}, !.at = IF close THEN "register" ELSE "sweep",
                                !.trade = IF close THEN n ELSE None]
          /\ IF close
             THEN \E r \in Result :
                    /\ trades' = [trades EXCEPT ![n].open = FALSE]
                    /\ realized' = realized + r
             ELSE UNCHANGED ledger
    BY <1>4 DEF MonVisit
  <2>2. n \in Open /\ n \in Id
    BY <1>1 DEF Basis
  <2>3. mon' \in Sweep /\ mon'.left = mon.left \ {n}
    BY <1>1, <2>1, <2>2 DEF Sweep, MonLabels
  <2>4. CASE close
    <3>1. /\ trades' \in Seq(Trade) /\ Len(trades') = Len(trades) /\ DOMAIN trades' = DOMAIN trades
          /\ Open' = Open \ {n} /\ n \in DOMAIN trades
      BY <2>1, <2>2, <2>4, Close
    <3>2. realized' \in Int
      <4>1. PICK r \in Result : realized' = realized + r
        BY <2>1, <2>4
      <4>. QED
        BY <4>1, PilotAssumption DEF Basis
    <3>3. mon'.trade = n /\ mon'.left \subseteq Open'
      BY <1>1, <2>1, <2>3, <2>4, <3>1 DEF Basis, Sweep
    <3>4. \A d \in Direction : Entering(d)' = Entering(d)
      BY <1>4 DEF MonVisit, Entering
    <3>. QED
      BY <1>4, <2>3, <3>1, <3>2, <3>3, <3>4 DEF MonVisit, Basis, riskVars
  <2>5. CASE ~close
    <3>1. Open' = Open /\ mon'.at = "sweep" /\ UNCHANGED ledger
      BY <1>1, <2>1, <2>5 DEF Open, ledger, Sweep
    <3>2. \A d \in Direction : Entering(d)' = Entering(d)
      BY <1>4 DEF MonVisit, Entering
    <3>. QED
      BY <1>4, <2>3, <3>1, <3>2 DEF MonVisit, Basis, riskVars, ledger
  <2>. QED
    BY <2>4, <2>5
<1>5. CASE RegisterClose
  <2>1. mon' \in Sweep /\ mon'.at = "track" /\ mon'.left = mon.left /\ mon'.trade = mon.trade
    BY <1>1, <1>5 DEF RegisterClose, Sweep, MonLabels
  <2>2. count' \in [Direction -> Nat] /\ \A d \in Direction : count'[d] <= count[d]
    <3> DEFINE d == trades[mon.trade].direction
    <3>1. count' = [count EXCEPT ![d] = IF count[d] > 0 THEN count[d] - 1 ELSE count[d]]
      BY <1>5 DEF RegisterClose
    <3>2. d \in Direction /\ count \in [Direction -> Nat]
      <4>1. mon.trade \in DOMAIN trades
        BY <1>5 DEF RegisterClose, Basis
      <4>2. trades[mon.trade] \in Trade
        BY <1>1, <4>1
      <4>. QED
        BY <4>2 DEF Trade, Basis
    <3> HIDE DEF d
    <3>. QED
      BY <3>1, <3>2
  <2>3. Open' = Open /\ \A d \in Direction : Entering(d)' = Entering(d) /\ Entering(d) \in Nat
    BY <1>5 DEF RegisterClose, ledger, Open, Entering
  <2>4. \A d \in Direction : count'[d] + Entering(d)' <= Len(trades)
    BY <1>1, <2>2, <2>3 DEF Basis
  <2>. QED
    BY <1>5, <2>1, <2>2, <2>3, <2>4 DEF RegisterClose, Basis, ledger
<1>6. CASE RecordTrade
  <2>1. mon' \in Sweep /\ mon'.at = "sweep" /\ mon'.left = mon.left
    BY <1>1, <1>6 DEF RecordTrade, Sweep, MonLabels
  <2>2. track' \in [Strategy -> [status : Status, told : Nat]]
    <3> DEFINE n == trades[mon.trade].strategy
    <3>1. n \in Strategy /\ track[n] \in [status : Status, told : Nat]
      <4>1. mon.trade \in DOMAIN trades
        BY <1>6 DEF RecordTrade, Basis
      <4>2. trades[mon.trade] \in Trade
        BY <1>1, <4>1
      <4>. QED
        BY <4>2 DEF Trade, Basis
    <3>2. PICK status \in After(track[n].status) \cup {track[n].status} :
            track' = [track EXCEPT ![n] = [status |-> status, told |-> track[n].told + 1]]
      BY <1>6, <3>1 DEF RecordTrade
    <3> HIDE DEF n
    <3>3. status \in Status /\ track[n].told + 1 \in Nat
      BY <3>1, <3>2 DEF After, Status
    <3>. QED
      BY <3>1, <3>2, <3>3 DEF Basis
  <2>3. Open' = Open /\ \A d \in Direction : Entering(d)' = Entering(d)
    BY <1>6 DEF RecordTrade, ledger, Open, Entering
  <2>. QED
    BY <1>6, <2>1, <2>2, <2>3 DEF RecordTrade, Basis, ledger, riskVars
<1>. QED
  BY <1>2, <1>3, <1>4, <1>5, <1>6 DEF Monitor

LEMMA TickBasis == Basis /\ Tick => Basis'
<1> SUFFICES ASSUME Basis, Tick PROVE Basis'
  OBVIOUS
<1>1. time' \in 0..LastTime
  BY PilotAssumption DEF Basis, Tick
<1>2. Open' = Open /\ \A d \in Direction : Entering(d)' = Entering(d)
  BY DEF Tick, ledger, Open, Entering
<1>. QED
  BY <1>1, <1>2 DEF Tick, Basis, ledger, riskVars

LEMMA BasisHolds == Spec => []Basis
<1>1. Basis /\ UNCHANGED vars => Basis'
  BY DEF Basis, vars, ledger, riskVars, Open, Entering
<1>2. Basis /\ [Next]_vars => Basis'
  BY <1>1, EvaluateBasis, MonitorBasis, TickBasis DEF Next
<1>. QED
  BY BasisInit, <1>2, PTL DEF Spec
-----------------------------------------------------------------------------
(* Told.                                                                   *)

ClosedOf(s)  == {n \in DOMAIN trades \ Open : trades[n].strategy = s}
Untold(s)    == IF mon.at \in {"register", "track"} /\ trades[mon.trade].strategy = s THEN 1 ELSE 0

LEMMA ClosedFinite ==
  ASSUME Basis, NEW s
  PROVE  /\ IsFiniteSet(ClosedOf(s)) /\ Cardinality(ClosedOf(s)) \in Nat
         /\ Cardinality(ClosedOf(s)) <= Len(trades)
<1>1. DOMAIN trades = 1..Len(trades) /\ Len(trades) \in Nat
  BY DEF Basis
<1>2. IsFiniteSet(1..Len(trades)) /\ Cardinality(1..Len(trades)) = Len(trades)
  <2>1. IsFiniteSet(1..Len(trades)) /\ Cardinality(1..Len(trades)) = IF 1 > Len(trades) THEN 0 ELSE Len(trades) - 1 + 1
    BY <1>1, FS_Interval
  <2>. QED
    BY <1>1, <2>1
<1>3. ClosedOf(s) \subseteq 1..Len(trades)
  BY <1>1 DEF ClosedOf
<1>. QED
  BY <1>2, <1>3, FS_Subset, FS_CardinalityType

\* As long as nothing closes, nothing is closed.
LEMMA ClosedStays ==
  ASSUME Basis, NEW s, UNCHANGED trades \/ RecordEntry
  PROVE  ClosedOf(s)' = ClosedOf(s)
<1>1. CASE UNCHANGED trades
  BY <1>1 DEF ClosedOf, Open
<1>2. CASE RecordEntry
  BY <1>2, Entry DEF ClosedOf
<1>. QED
  BY <1>1, <1>2

LEMMA ToldStep == Basis /\ Told /\ [Next]_vars => Told'
<1> SUFFICES ASSUME Basis, Told, [Next]_vars, NEW s \in Strategy
             PROVE  track'[s].told + Untold(s)' = Cardinality(ClosedOf(s)')
  BY DEF Told, Untold, ClosedOf
<1>1. track[s].told + Untold(s) = Cardinality(ClosedOf(s)) /\ track[s].told \in Nat /\ mon \in Sweep
  BY DEF Told, Untold, ClosedOf, Basis
<1>2. CASE UNCHANGED <<track, mon>> /\ (UNCHANGED trades \/ RecordEntry)
  <2>1. ClosedOf(s)' = ClosedOf(s)
    BY <1>2, ClosedStays
  <2>2. Untold(s)' = Untold(s)
    BY <1>2, Entry DEF Untold, Basis
  <2>. QED
    BY <1>1, <1>2, <2>1, <2>2
<1>3. CASE UNCHANGED <<track, trades>> /\ mon'.at \in {"idle", "sweep"} /\ mon.at \in {"idle", "sweep"}
  <2>1. ClosedOf(s)' = ClosedOf(s) /\ Untold(s)' = 0 /\ Untold(s) = 0
    BY <1>3, ClosedStays DEF Untold
  <2>. QED
    BY <1>1, <1>3, <2>1
<1>4. CASE MonTick \/ SweepEnds
  <2>1. mon.at \in {"idle", "sweep"} /\ UNCHANGED <<track, trades>>
    BY <1>4 DEF MonTick, SweepEnds, ledger
  <2>2. mon'.at \in {"idle", "sweep"}
    <3>1. CASE MonTick
      BY <3>1 DEF MonTick
    <3>2. CASE SweepEnds
      BY <1>1, <3>2 DEF SweepEnds, Sweep
    <3>. QED
      BY <1>4, <3>1, <3>2
  <2>. QED
    BY <1>3, <2>1, <2>2
<1>5. CASE MonVisit
  <2>1. PICK n \in mon.left, close \in Closing(mon.now) :
          /\ mon' = [mon EXCEPT !.left = @ \ {n}, !.at = IF close THEN "register" ELSE "sweep",
                                !.trade = IF close THEN n ELSE None]
          /\ IF close
             THEN \E r \in Result :
                    /\ trades' = [trades EXCEPT ![n].open = FALSE]
                    /\ realized' = realized + r
             ELSE UNCHANGED ledger
    BY <1>5 DEF MonVisit
  <2>2. n \in Open /\ mon.at = "sweep" /\ UNCHANGED track /\ Untold(s) = 0
    BY <1>5 DEF Basis, MonVisit, Untold
  <2>3. CASE close
    <3>1. /\ DOMAIN trades' = DOMAIN trades /\ Open' = Open \ {n} /\ n \in DOMAIN trades
          /\ \A k \in DOMAIN trades : trades'[k].strategy = trades[k].strategy
      BY <2>1, <2>2, <2>3, Close
    <3>2. mon'.at = "register" /\ mon'.trade = n
      BY <1>1, <2>1, <2>3 DEF Sweep
    <3>3. CASE trades[n].strategy = s
      <4>1. ClosedOf(s)' = ClosedOf(s) \cup {n} /\ n \notin ClosedOf(s)
        BY <2>2, <3>1, <3>3 DEF ClosedOf
      <4>2. Untold(s)' = 1
        BY <3>1, <3>2, <3>3 DEF Untold
      <4>. QED
        <5>1. Cardinality(ClosedOf(s)') = Cardinality(ClosedOf(s)) + 1
          BY <4>1, ClosedFinite, FS_AddElement
        <5>2. Untold(s) = 0 /\ track'[s].told = track[s].told
          BY <2>2
        <5>. QED
          BY <1>1, <4>2, <5>1, <5>2
    <3>4. CASE trades[n].strategy # s
      <4>1. ClosedOf(s)' = ClosedOf(s)
        BY <2>2, <3>1, <3>4 DEF ClosedOf
      <4>2. Untold(s)' = 0
        BY <3>1, <3>2, <3>4 DEF Untold
      <4>. QED
        BY <1>1, <2>2, <4>1, <4>2
    <3>. QED
      BY <3>3, <3>4
  <2>4. CASE ~close
    BY <1>1, <1>3, <2>1, <2>2, <2>4 DEF Sweep, ledger
  <2>. QED
    BY <2>3, <2>4
<1>6. CASE RegisterClose
  <2>1. mon'.at = "track" /\ mon'.trade = mon.trade /\ mon.at = "register" /\ UNCHANGED <<trades, track>>
    BY <1>1, <1>6 DEF RegisterClose, Sweep, ledger
  <2>2. ClosedOf(s)' = ClosedOf(s) /\ Untold(s)' = Untold(s)
    BY <2>1, ClosedStays DEF Untold
  <2>. QED
    BY <1>1, <2>1, <2>2
<1>7. CASE RecordTrade
  <2> DEFINE t == trades[mon.trade].strategy
  <2>1. mon'.at = "sweep" /\ mon.at = "track" /\ UNCHANGED trades
    BY <1>1, <1>7 DEF RecordTrade, Sweep, ledger
  <2>2. ClosedOf(s)' = ClosedOf(s) /\ Untold(s)' = 0 /\ Untold(s) = IF t = s THEN 1 ELSE 0
    BY <2>1, ClosedStays DEF Untold
  <2>3. PICK status : track' = [track EXCEPT ![t] = [status |-> status, told |-> track[t].told + 1]]
    BY <1>7 DEF RecordTrade
  <2> HIDE DEF t
  <2>4. track'[s].told = track[s].told + (IF t = s THEN 1 ELSE 0)
    BY <1>1, <2>3 DEF Basis
  <2>. QED
    BY <1>1, <2>2, <2>4
<1>8. CASE Evaluate \/ Tick \/ UNCHANGED vars
  BY <1>2, <1>8 DEF Evaluate, EvTick, EvScan, EvSignal, EvEquity, CheckEntryAllowed, RecordEntry,
                    RegisterOpen, Tick, vars, ledger, riskVars
<1>. QED
  BY <1>4, <1>5, <1>6, <1>7, <1>8 DEF Next, Monitor

\* For any strategies and any interleaving of the two loops: a strategy's track is told of each
\* of its closed trades exactly once (closePosition, RecordTrade).
THEOREM TracksTold == Spec => []Told
<1>1. Init => Told
  <2> SUFFICES ASSUME Init, NEW s \in Strategy PROVE track[s].told + Untold(s) = Cardinality(ClosedOf(s))
    BY DEF Told, Untold, ClosedOf
  <2>1. ClosedOf(s) = {} /\ Untold(s) = 0 /\ track[s].told = 0
    BY DEF Init, ClosedOf, Untold
  <2>. QED
    BY <2>1, FS_EmptySet
<1>. QED
  BY <1>1, ToldStep, BasisHolds, PTL DEF Spec

\* Every reachable state is typed.  That a track and a count stay within the bound on trades
\* needs more than types: a track is told of closed trades only, a count is raised once a trade.
THEOREM PilotTypes == Spec => []TypeOK
<1>1. Basis /\ Told => TypeOK
  <2> SUFFICES ASSUME Basis, Told PROVE TypeOK
    OBVIOUS
  <2>1. Len(trades) \in Nat /\ Len(trades) <= MaxTrades /\ MaxTrades \in Nat
    BY PilotAssumption DEF Basis
  <2>2. ASSUME NEW s \in Strategy
        PROVE  track[s] \in [status : Status, told : 0..MaxTrades]
    <3>1. track[s].told + Untold(s) = Cardinality(ClosedOf(s)) /\ Untold(s) \in Nat
      BY DEF Told, Untold, ClosedOf
    <3>2. track[s] \in [status : Status, told : Nat]
      BY DEF Basis
    <3>3. Cardinality(ClosedOf(s)) <= Len(trades) /\ Cardinality(ClosedOf(s)) \in Nat
      BY ClosedFinite
    <3>4. track[s].told \in 0..MaxTrades
      BY <2>1, <3>1, <3>2, <3>3
    <3>. QED
      BY <3>2, <3>4
  <2>3. track \in [Strategy -> [status : Status, told : 0..MaxTrades]]
    BY <2>2 DEF Basis
  <2>4. ASSUME NEW d \in Direction PROVE count[d] \in 0..MaxTrades
    <3>1. count[d] + Entering(d) <= Len(trades) /\ count[d] \in Nat /\ Entering(d) \in Nat
      BY DEF Basis, Entering
    <3>. QED
      BY <2>1, <3>1
  <2>5. count \in [Direction -> 0..MaxTrades]
    BY <2>4 DEF Basis
  <2>. QED
    BY <2>3, <2>5 DEF Basis, TypeOK, Pass, Sweep
<1>. QED
  BY <1>1, BasisHolds, TracksTold, PTL

-----------------------------------------------------------------------------
(* OneEach.                                                                *)

\* The pass knows every strategy with an open trade on its underlying, and enters none of them.
Looked ==
  /\ ev.at \in {"signal", "equity", "check", "record", "register"} =>
       \A n \in Open : trades[n].underlying = Underlying(ev.i) =>
                        \/ trades[n].strategy \in ev.openBy
                        \/ ev.at = "register" /\ trades[n].strategy = Strat(ev.i)
  /\ ev.at \in {"equity", "check", "record"} => Strat(ev.i) \notin ev.openBy

\* A pass that goes on knows what it knew.
LEMMA OnwardLooked ==
  ASSUME Basis, UNCHANGED trades, NEW e \in Pass, ev' = Onward(e), e.i = ev.i,
         \A n \in Open : trades[n].underlying = Underlying(ev.i) => trades[n].strategy \in e.openBy
  PROVE  Looked'
<1>1. ev'.at \in {"idle", "scan", "signal"}
      /\ (ev'.at = "signal" => Underlying(ev'.i) = Underlying(ev.i) /\ ev'.openBy = e.openBy)
  BY OnwardTypes
<1>2. Open' = Open
  BY DEF Open
<1>3. CASE ev'.at = "signal"
  <2>1. \A n \in Open' : trades'[n].underlying = Underlying(ev'.i) => trades'[n].strategy \in ev'.openBy
    BY <1>1, <1>2, <1>3
  <2>. QED
    BY <1>3, <2>1 DEF Looked, Underlying, Strat
<1>4. CASE ev'.at # "signal"
  BY <1>1, <1>4 DEF Looked
<1>. QED
  BY <1>3, <1>4

LEMMA LookedStep == Basis /\ Looked /\ [Next]_vars => Looked'
<1> SUFFICES ASSUME Basis, Looked, [Next]_vars PROVE Looked'
  OBVIOUS
<1>1. ev \in Pass /\ trades \in Seq(Trade)
  BY DEF Basis
<1>2. CASE UNCHANGED <<ev, trades>>
  BY <1>2 DEF Looked, Open, Underlying, Strat
<1>3. CASE EvTick
  <2>1. ev'.at = "scan"
    BY <1>1, <1>3 DEF EvTick, Pass
  <2>. QED
    BY <2>1 DEF Looked
<1>4. CASE EvScan
  <2>1. ev'.at = "signal" /\ ev'.i = ev.i /\ ev'.openBy = OpenBy(Underlying(ev.i)) /\ UNCHANGED trades
    BY <1>1, <1>4 DEF EvScan, Pass, ledger
  <2>2. \A n \in Open : trades[n].underlying = Underlying(ev.i) => trades[n].strategy \in OpenBy(Underlying(ev.i))
    BY DEF OpenBy
  <2>3. Open' = Open
    BY <2>1 DEF Open
  <2>. QED
    BY <2>1, <2>2, <2>3 DEF Looked, Underlying, Strat
<1>5. CASE ev.at \in {"signal", "check"} /\ ev' = Onward(ev) /\ UNCHANGED trades
  <2>1. \A n \in Open : trades[n].underlying = Underlying(ev.i) => trades[n].strategy \in ev.openBy
    BY <1>5 DEF Looked
  <2>. QED
    BY <1>1, <1>5, <2>1, OnwardLooked
<1>6. CASE /\ ev.at \in {"signal", "equity", "check"} /\ ev'.at \in {"equity", "check", "record"}
           /\ ev'.i = ev.i /\ ev'.openBy = ev.openBy /\ UNCHANGED trades /\ Strat(ev.i) \notin ev.openBy
  <2>1. Open' = Open
    BY <1>6 DEF Open
  <2>2. \A n \in Open : trades[n].underlying = Underlying(ev.i) => trades[n].strategy \in ev.openBy
    BY <1>6 DEF Looked
  <2>. QED
    BY <1>6, <2>1, <2>2 DEF Looked, Underlying, Strat
<1>7. CASE EvSignal
  <2>1. ASSUME NEW d \in Direction, MayEnter(ev), ev' = [ev EXCEPT !.at = "equity", !.dir = d]
        PROVE  Looked'
    <3>1. ev'.at = "equity" /\ ev'.i = ev.i /\ ev'.openBy = ev.openBy
      BY <1>1, <2>1 DEF Pass
    <3>. QED
      BY <1>6, <1>7, <2>1, <3>1 DEF EvSignal, MayEnter, ledger
  <2>2. CASE ev' = Onward(ev)
    BY <1>5, <1>7, <2>2 DEF EvSignal, ledger
  <2>. QED
    BY <1>7, <2>1, <2>2 DEF EvSignal
<1>8. CASE EvEquity
  <2>1. ev'.at = "check" /\ ev'.i = ev.i /\ ev'.openBy = ev.openBy
    BY <1>1, <1>8 DEF EvEquity, Pass
  <2>. QED
    BY <1>6, <1>8, <2>1 DEF EvEquity, ledger, Looked
<1>9. CASE CheckEntryAllowed
  <2>1. ev.at = "check" /\ UNCHANGED trades /\ ev' \in {Onward(ev), [ev EXCEPT !.at = "record"]}
    BY <1>9 DEF CheckEntryAllowed, ledger
  <2>2. CASE ev' = [ev EXCEPT !.at = "record"]
    <3>1. ev'.at = "record" /\ ev'.i = ev.i /\ ev'.openBy = ev.openBy
      BY <1>1, <2>2 DEF Pass
    <3>. QED
      BY <1>6, <2>1, <3>1 DEF Looked
  <2>. QED
    BY <1>5, <2>1, <2>2
<1>10. CASE RecordEntry
  <2>1. ev.at = "record" /\ ev'.at = "register" /\ ev'.i = ev.i /\ ev'.openBy = ev.openBy
    BY <1>1, <1>10 DEF RecordEntry, Pass
  <2>2. /\ Open' = Open \cup {Len(trades) + 1} /\ \A n \in DOMAIN trades : trades'[n] = trades[n]
        /\ trades'[Len(trades) + 1].strategy = Strat(ev.i)
    BY <1>10, Entry
  <2>3. \A n \in Open : trades[n].underlying = Underlying(ev.i) => trades[n].strategy \in ev.openBy
    BY <2>1 DEF Looked
  <2>4. \A n \in Open' : trades'[n].underlying = Underlying(ev'.i) =>
          trades'[n].strategy \in ev'.openBy \/ trades'[n].strategy = Strat(ev'.i)
    BY <2>1, <2>2, <2>3 DEF Open
  <2>. QED
    BY <2>1, <2>4 DEF Looked, Underlying, Strat
<1>11. CASE RegisterOpen
  <2> DEFINE e == [ev EXCEPT !.openBy = @ \cup {Strat(ev.i)}]
  <2>1. e \in Pass /\ e.i = ev.i /\ e.openBy = ev.openBy \cup {Strat(ev.i)}
    BY <1>1, PassSteps DEF Pass
  <2>2. ev' = Onward(e) /\ ev.at = "register" /\ UNCHANGED trades
    BY <1>11 DEF RegisterOpen, ledger
  <2> HIDE DEF e
  <2>3. \A n \in Open : trades[n].underlying = Underlying(ev.i) => trades[n].strategy \in e.openBy
    BY <2>1, <2>2 DEF Looked
  <2>. QED
    BY <2>1, <2>2, <2>3, OnwardLooked
<1>12. CASE MonVisit
  <2>1. PICK n \in mon.left :
          trades' = [trades EXCEPT ![n].open = FALSE] \/ UNCHANGED trades
    BY <1>12 DEF MonVisit, ledger
  <2>2. n \in Open /\ UNCHANGED ev
    BY <1>12 DEF Basis, MonVisit
  <2>3. CASE trades' = [trades EXCEPT ![n].open = FALSE]
    <3>1. /\ Open' = Open \ {n}
          /\ \A k \in Open : /\ trades'[k].strategy = trades[k].strategy
                             /\ trades'[k].underlying = trades[k].underlying
      BY <2>2, <2>3, Close DEF Open
    <3>. QED
      BY <2>2, <3>1 DEF Looked, Underlying, Strat
  <2>. QED
    BY <1>2, <2>1, <2>2, <2>3
<1>13. CASE MonTick \/ SweepEnds \/ RegisterClose \/ RecordTrade \/ Tick \/ UNCHANGED vars
  BY <1>2, <1>13 DEF MonTick, SweepEnds, RegisterClose, RecordTrade, Tick, vars, ledger
<1>. QED
  BY <1>3, <1>4, <1>7, <1>8, <1>9, <1>10, <1>11, <1>12, <1>13 DEF Next, Evaluate, Monitor

LEMMA OneEachStep == Basis /\ Looked /\ OneEach /\ [Next]_vars => OneEach'
<1> SUFFICES ASSUME Basis, Looked, OneEach, [Next]_vars PROVE OneEach'
  OBVIOUS
<1>1. CASE UNCHANGED trades
  BY <1>1 DEF OneEach, Open
<1>2. CASE RecordEntry
  <2> DEFINE new == Len(trades) + 1
  <2>1. /\ Open' = Open \cup {new} /\ new \notin DOMAIN trades
        /\ \A n \in DOMAIN trades : trades'[n] = trades[n]
        /\ trades'[new].strategy = Strat(ev.i) /\ trades'[new].underlying = Underlying(ev.i)
    BY <1>2, Entry
  <2>2. \A n \in Open : trades[n].underlying = Underlying(ev.i) => trades[n].strategy # Strat(ev.i)
    BY <1>2 DEF Looked, RecordEntry
  <2> HIDE DEF new
  <2>3. \A n \in Open : n \in DOMAIN trades /\ trades'[n] = trades[n]
    BY <2>1 DEF Open
  <2>. QED
    BY <2>1, <2>2, <2>3 DEF OneEach
<1>3. CASE MonVisit
  <2>1. PICK n \in mon.left :
          trades' = [trades EXCEPT ![n].open = FALSE] \/ UNCHANGED trades
    BY <1>3 DEF MonVisit, ledger
  <2>2. n \in Open
    BY DEF Basis
  <2>3. CASE trades' = [trades EXCEPT ![n].open = FALSE]
    <3>1. /\ Open' = Open \ {n}
          /\ \A k \in Open : /\ trades'[k].strategy = trades[k].strategy
                             /\ trades'[k].underlying = trades[k].underlying
      BY <2>2, <2>3, Close DEF Open
    <3>. QED
      BY <3>1 DEF OneEach
  <2>. QED
    BY <1>1, <2>1, <2>3
<1>4. UNCHANGED trades \/ RecordEntry \/ MonVisit
  BY DEF Next, Evaluate, Monitor, EvTick, EvScan, EvSignal, EvEquity, CheckEntryAllowed, RegisterOpen,
         MonTick, SweepEnds, RegisterClose, RecordTrade, Tick, vars, ledger
<1>. QED
  BY <1>1, <1>2, <1>3, <1>4

\* For any number of strategies and underlyings: however the monitor closes trades while a pass
\* works with what it saw, no strategy ever has two open trades on one underlying.
THEOREM OneTradeEach == Spec => []OneEach
<1>1. Init => Looked /\ OneEach
  BY DEF Init, Looked, OneEach, Open
<1>2. Spec => []Looked
  BY <1>1, LookedStep, BasisHolds, PTL DEF Spec
<1>. QED
  BY <1>1, <1>2, OneEachStep, BasisHolds, PTL DEF Spec
-----------------------------------------------------------------------------
(* FlatAtNight.                                                            *)

\* A pass belongs to the day it works in; the last sweep leaves nothing; before the day's first
\* check that goes through nothing is open and nobody is closing.
Calm ==
  /\ ev.at # "idle" => Day(ev.now) = Day(time) /\ Part(time) # Night
  /\ Part(time) = Night => Open = {} /\ mon.at = "idle"
  /\ swept => Part(time) = HalfHour /\ Open = {} /\ mon.at = "idle" /\ ev.at = "idle"
  /\ mon.last => /\ mon.at # "idle" /\ Part(time) = HalfHour /\ ev.at = "idle"
                 /\ IsForceClose(mon.now) /\ Open \subseteq mon.left
  /\ session # Day(time) => Open = {} /\ mon.at = "idle" /\ ev.at \notin {"record", "register"}

\* A step of the pass that leaves the ledger alone and enters nothing.
LEMMA PassCalm ==
  ASSUME Basis, Calm, UNCHANGED <<time, trades, mon, swept>>,
         ev.at # "idle", ev'.at # "idle" => ev'.now = ev.now,
         session' = session \/ session' = Day(time),
         ev'.at \in {"record", "register"} => session' = Day(time)
  PROVE  Calm'
<1>1. Open' = Open
  BY DEF Open
<1>2. ~swept /\ ~mon.last /\ Part(time) # Night /\ Day(ev.now) = Day(time)
  BY DEF Calm
<1>. QED
  BY <1>1, <1>2 DEF Calm, Night

LEMMA EvaluateCalm == Basis /\ Calm /\ Evaluate => Calm'
<1> SUFFICES ASSUME Basis, Calm, Evaluate PROVE Calm'
  OBVIOUS
<1>1. ev \in Pass /\ time \in Nat
  BY PilotAssumption DEF Basis
<1>2. CASE EvTick
  <2>1. ev'.at = "scan" /\ ev'.now = time /\ Part(time) \notin {HalfHour, Night}
    BY <1>1, <1>2 DEF EvTick, Pass, IsMarketOpen, Session, LastMinute, HalfHour, Night
  <2>2. Open' = Open /\ UNCHANGED <<time, mon, swept, session>>
    BY <1>2 DEF EvTick, ledger, Open, riskVars
  <2>. QED
    BY <2>1, <2>2 DEF Calm
<1>3. CASE EvScan \/ EvSignal \/ EvEquity
  <2>1. ev.at # "idle" /\ UNCHANGED <<time, trades, mon, swept, session>>
    BY <1>3 DEF EvScan, EvSignal, EvEquity, ledger, riskVars
  <2>2. (ev'.at # "idle" => ev'.now = ev.now) /\ ev'.at \notin {"record", "register"}
    <3>1. CASE EvScan
      BY <1>1, <3>1 DEF EvScan, Pass
    <3>2. CASE EvEquity
      BY <1>1, <3>2 DEF EvEquity, Pass
    <3>3. CASE EvSignal
      BY <1>1, <3>3, OnwardTypes DEF EvSignal, Pass
    <3>. QED
      BY <1>3, <3>1, <3>2, <3>3
  <2>. QED
    BY <2>1, <2>2, PassCalm
<1>4. CASE CheckEntryAllowed
  <2>1. ev.at = "check" /\ UNCHANGED <<time, trades, mon, swept>>
    BY <1>4 DEF CheckEntryAllowed, ledger
  <2>2. Day(ev.now) = Day(time)
    BY <2>1 DEF Calm
  <2>3. CASE kill
    <3>1. ev' = Onward(ev) /\ session' = session
      BY <1>4, <2>3 DEF CheckEntryAllowed, riskVars
    <3>. QED
      BY <1>1, <2>1, <3>1, OnwardTypes, PassCalm
  <2>4. CASE ~kill
    <3>1. ev' \in {Onward(ev), [ev EXCEPT !.at = "record"]} /\ session' = Day(time)
      BY <1>4, <2>2, <2>4 DEF CheckEntryAllowed
    <3>2. ev'.at # "idle" => ev'.now = ev.now
      BY <1>1, <3>1, OnwardTypes DEF Pass
    <3>. QED
      BY <2>1, <3>1, <3>2, PassCalm
  <2>. QED
    BY <2>3, <2>4
<1>5. CASE RecordEntry
  <2>1. ev.at = "record" /\ ev'.at = "register" /\ ev'.now = ev.now
    BY <1>1, <1>5 DEF RecordEntry, Pass
  <2>2. UNCHANGED <<time, mon, swept, session>>
    BY <1>5 DEF RecordEntry, riskVars
  <2>3. ~swept /\ ~mon.last /\ Part(time) # Night /\ Day(ev.now) = Day(time) /\ session = Day(time)
    BY <2>1 DEF Calm
  <2>. QED
    BY <2>1, <2>2, <2>3 DEF Calm, Night
<1>6. CASE RegisterOpen
  <2> DEFINE e == [ev EXCEPT !.openBy = @ \cup {Strat(ev.i)}]
  <2>1. e \in Pass /\ e.now = ev.now
    BY <1>1, PassSteps DEF Pass
  <2>2. ev' = Onward(e) /\ ev.at = "register" /\ UNCHANGED <<time, trades, mon, swept, session>>
    BY <1>6 DEF RegisterOpen, ledger
  <2> HIDE DEF e
  <2>3. (ev'.at # "idle" => ev'.now = ev.now) /\ ev'.at \notin {"record", "register"}
    BY <2>1, <2>2, OnwardTypes
  <2>. QED
    BY <2>2, <2>3, PassCalm
<1>. QED
  BY <1>2, <1>3, <1>4, <1>5, <1>6 DEF Evaluate

LEMMA MonitorCalm == Basis /\ Calm /\ Monitor => Calm'
<1> SUFFICES ASSUME Basis, Calm, Monitor PROVE Calm'
  OBVIOUS
<1>1. mon \in Sweep /\ UNCHANGED <<time, ev, session>>
  BY DEF Basis, Monitor, MonTick, SweepEnds, MonVisit, RegisterClose, RecordTrade, riskVars
<1>2. CASE MonTick
  <2> DEFINE last == Part(time) = HalfHour /\ ev.at = "idle"
  <2>1. Open' = Open /\ mon.at = "idle" /\ ~mon.last
    BY <1>2 DEF MonTick, ledger, Open, Calm
  <2>2. CASE Open = {}
    <3>1. swept' = (swept \/ last) /\ mon' = mon
      BY <1>2, <2>2 DEF MonTick
    <3>. QED
      BY <1>1, <2>1, <2>2, <3>1 DEF Calm
  <2>3. CASE Open # {}
    <3>1. mon' = [at |-> "sweep", now |-> time, left |-> Open, trade |-> None, last |-> last] /\ swept' = swept
      BY <1>2, <2>3 DEF MonTick
    <3>2. mon'.at = "sweep" /\ mon'.now = time /\ mon'.left = Open /\ mon'.last = last
      BY <3>1
    <3>3. Part(time) # Night /\ ~swept /\ session = Day(time)
      BY <2>3 DEF Calm
    <3>. QED
      BY <1>1, <2>1, <3>1, <3>2, <3>3 DEF Calm, IsForceClose, Night
  <2>. QED
    BY <2>2, <2>3
<1>3. mon.at # "idle" => Part(time) # Night /\ ~swept /\ session = Day(time)
  BY DEF Calm
<1>4. CASE SweepEnds
  <2>1. Open' = Open /\ mon.at = "sweep" /\ mon'.at = "idle" /\ ~mon'.last /\ swept' = (swept \/ mon.last)
    BY <1>1, <1>4 DEF SweepEnds, ledger, Open, Sweep
  <2>2. mon.last => Open = {} /\ Part(time) = HalfHour /\ ev.at = "idle"
    BY <1>4 DEF Calm, SweepEnds
  <2>. QED
    BY <1>1, <1>3, <2>1, <2>2 DEF Calm, Night
<1>5. CASE MonVisit
  <2>1. PICK n \in mon.left, close \in Closing(mon.now) :
          /\ mon' = [mon EXCEPT !.left = @ \ {n}, !.at = IF close THEN "register" ELSE "sweep",
                                !.trade = IF close THEN n ELSE None]
          /\ IF close
             THEN \E r \in Result :
                    /\ trades' = [trades EXCEPT ![n].open = FALSE]
                    /\ realized' = realized + r
             ELSE UNCHANGED ledger
    BY <1>5 DEF MonVisit
  <2>2. mon.at = "sweep" /\ UNCHANGED swept /\ n \in Open
    BY <1>5 DEF MonVisit, Basis
  <2>3. mon'.at \in {"register", "sweep"} /\ mon'.left = mon.left \ {n} /\ mon'.last = mon.last /\ mon'.now = mon.now
    BY <1>1, <2>1 DEF Sweep
  <2>4. IsForceClose(mon.now) => close
    BY <2>1 DEF Closing
  <2>5. Open' = IF close THEN Open \ {n} ELSE Open
    <3>1. CASE close
      BY <2>1, <2>2, <3>1, Close
    <3>2. CASE ~close
      BY <2>1, <3>2 DEF Open, ledger
    <3>. QED
      BY <3>1, <3>2
  <2>6. mon.last => Open' \subseteq mon'.left
    BY <2>3, <2>4, <2>5 DEF Calm
  <2>. QED
    BY <1>1, <1>3, <2>2, <2>3, <2>6 DEF Calm, Night
<1>6. CASE RegisterClose \/ RecordTrade
  <2>1. Open' = Open /\ UNCHANGED swept /\ mon.at # "idle"
    BY <1>6 DEF RegisterClose, RecordTrade, ledger, Open
  <2>2. mon'.at # "idle" /\ mon'.left = mon.left /\ mon'.last = mon.last /\ mon'.now = mon.now
    <3>1. CASE RegisterClose
      BY <1>1, <3>1 DEF RegisterClose, Sweep
    <3>2. CASE RecordTrade
      BY <1>1, <3>2 DEF RecordTrade, Sweep
    <3>. QED
      BY <1>6, <3>1, <3>2
  <2>. QED
    BY <1>1, <1>3, <2>1, <2>2 DEF Calm, Night
<1>. QED
  BY <1>2, <1>4, <1>5, <1>6 DEF Monitor

LEMMA TickCalm == Basis /\ Calm /\ Tick => Calm'
<1> SUFFICES ASSUME Basis, Calm, Tick PROVE Calm'
  OBVIOUS
<1>1. time' = time + 1 /\ ~swept' /\ Open' = Open /\ UNCHANGED <<mon, ev, session>>
  BY DEF Tick, ledger, Open, riskVars
<1>2. /\ Part(time) \in 0..3
      /\ Part(time) = 3 => Part(time') = 0
      /\ Part(time) # 3 => Part(time') = Part(time) + 1 /\ Day(time') = Day(time)
  <2>1. time \in Nat
    BY PilotAssumption DEF Basis
  <2>. QED
    BY <1>1, <2>1, DayParts
<1>3. Part(time) = HalfHour => swept
  BY DEF Tick
<1>4. CASE Part(time) = HalfHour
  <2>1. Open = {} /\ mon.at = "idle" /\ ev.at = "idle" /\ Day(time') = Day(time) /\ Part(time') = 3
    BY <1>2, <1>3, <1>4 DEF Calm, HalfHour
  <2>2. ~mon.last
    BY <2>1 DEF Calm
  <2>. QED
    BY <1>1, <2>1, <2>2 DEF Calm, Night
<1>5. CASE Part(time) = Night
  <2>1. Open = {} /\ mon.at = "idle" /\ ev.at = "idle" /\ Part(time') = 0
    BY <1>2, <1>5 DEF Calm, Night
  <2>2. ~mon.last
    BY <2>1 DEF Calm
  <2>. QED
    BY <1>1, <2>1, <2>2 DEF Calm, Night
<1>6. CASE Part(time) \notin {HalfHour, Night}
  <2>1. Part(time') # 3 /\ Day(time') = Day(time)
    BY <1>2, <1>6 DEF HalfHour, Night
  <2>2. ~mon.last
    BY <1>6 DEF Calm
  <2>. QED
    BY <1>1, <1>6, <2>1, <2>2 DEF Calm, Night
<1>. QED
  BY <1>4, <1>5, <1>6

LEMMA CalmHolds == Spec => []Calm
<1>1. Init => Calm
  BY DEF Init, Calm, Day, Part, Night, Open
<1>2. Calm /\ UNCHANGED vars => Calm'
  BY DEF Calm, vars, ledger, riskVars, Open
<1>3. Basis /\ Calm /\ [Next]_vars => Calm'
  BY <1>2, EvaluateCalm, MonitorCalm, TickCalm DEF Next
<1>. QED
  BY <1>1, <1>3, BasisHolds, PTL DEF Spec

\* Nothing is carried overnight, also when a pass begun at the last second enters after the close,
\* as long as one sweep of the monitor runs between the last pass and 16:00 (isForceClose).
THEOREM NightIsFlat == Spec => []FlatAtNight
<1>1. Calm => FlatAtNight
  BY DEF Calm, FlatAtNight
<1>. QED
  BY <1>1, CalmHolds, PTL
-----------------------------------------------------------------------------
(* CapHolds.                                                               *)

\* The monitor has closed a trade in the ledger and not yet told the gate.
Leaving(d) == IF mon.at = "register" /\ trades[mon.trade].direction = d THEN 1 ELSE 0

\* The gate counts every open trade and every one it is not yet told the end of, except the one
\* it is about to be told the beginning of, for which the check left room.
Counts ==
  /\ \A d \in Direction : /\ count[d] <= MaxConcurrentPerDir
                          /\ Cardinality(InDir(d)) + Leaving(d) <= count[d] + Entering(d)
  /\ ev.at \in {"record", "register"} => count[ev.dir] < MaxConcurrentPerDir

LEMMA InDirFinite ==
  ASSUME Basis, NEW d \in Direction
  PROVE  IsFiniteSet(InDir(d)) /\ Cardinality(InDir(d)) \in Nat
<1>1. InDir(d) \subseteq 1..Len(trades) /\ Len(trades) \in Nat
  BY DEF Basis, InDir, Open
<1>2. IsFiniteSet(1..Len(trades))
  BY <1>1, FS_Interval
<1>3. IsFiniteSet(InDir(d))
  BY <1>1, <1>2, FS_Subset
<1>. QED
  BY <1>3, FS_CardinalityType

\* A step that leaves the ledger, the monitor and the counts alone and enters nothing.
LEMMA PassCounts ==
  ASSUME Basis, Counts, UNCHANGED <<trades, mon, count>>,
         ev.at # "register", ev'.at # "register",
         ev'.at = "record" => count[ev'.dir] < MaxConcurrentPerDir
  PROVE  Counts'
<1>1. \A d \in Direction : InDir(d)' = InDir(d) /\ Leaving(d)' = Leaving(d)
  BY DEF InDir, Open, Leaving
<1>2. \A d \in Direction : Entering(d)' = 0 /\ Entering(d) = 0
  BY DEF Entering
<1>. QED
  BY <1>1, <1>2 DEF Counts

LEMMA EvaluateCounts == Basis /\ Calm /\ Counts /\ Evaluate => Counts'
<1> SUFFICES ASSUME Basis, Calm, Counts, Evaluate PROVE Counts'
  OBVIOUS
<1>1. ev \in Pass /\ MaxConcurrentPerDir \in Nat \ {0} /\ count \in [Direction -> Nat]
  BY PilotAssumption DEF Basis
<1>2. CASE EvTick \/ EvScan \/ EvSignal \/ EvEquity
  <2>1. ev.at # "register" /\ UNCHANGED <<trades, mon, count>>
    BY <1>2 DEF EvTick, EvScan, EvSignal, EvEquity, ledger, riskVars
  <2>2. ev'.at \notin {"record", "register"}
    <3>1. CASE EvTick
      BY <1>1, <3>1 DEF EvTick, Pass
    <3>2. CASE EvScan
      BY <1>1, <3>2 DEF EvScan, Pass
    <3>3. CASE EvSignal
      BY <1>1, <3>3, OnwardTypes DEF EvSignal, Pass
    <3>4. CASE EvEquity
      BY <1>1, <3>4 DEF EvEquity, Pass
    <3>. QED
      BY <1>2, <3>1, <3>2, <3>3, <3>4
  <2>. QED
    BY <2>1, <2>2, PassCounts
<1>3. CASE CheckEntryAllowed
  <2>1. ev.at = "check" /\ UNCHANGED <<trades, mon>> /\ Day(ev.now) = Day(time) /\ ev.dir \in Direction
    BY <1>1, <1>3 DEF CheckEntryAllowed, ledger, Calm, Pass
  <2>2. CASE kill
    <3>1. ev' = Onward(ev) /\ count' = count
      BY <1>3, <2>2 DEF CheckEntryAllowed, riskVars
    <3>2. ev'.at \notin {"record", "register"}
      BY <1>1, <3>1, OnwardTypes
    <3>. QED
      BY <2>1, <3>1, <3>2, PassCounts
  <2>3. CASE ~kill
    <3>1. /\ count' = Rollover.count
          /\ \/ ev' = Onward(ev)
             \/ ev' = [ev EXCEPT !.at = "record"] /\ ~(Rollover.count[ev.dir] >= MaxConcurrentPerDir)
      BY <1>3, <2>3 DEF CheckEntryAllowed
    <3>2. /\ ev'.at # "register"
          /\ ev'.at = "record" => count'[ev'.dir] < MaxConcurrentPerDir
      <4>1. CASE ev' = Onward(ev)
        BY <1>1, <4>1, OnwardTypes
      <4>2. CASE ev' = [ev EXCEPT !.at = "record"] /\ ~(Rollover.count[ev.dir] >= MaxConcurrentPerDir)
        <5>1. ev'.at = "record" /\ ev'.dir = ev.dir
          BY <1>1, <4>2 DEF Pass
        <5>2. count'[ev.dir] \in Nat
          BY <1>1, <2>1, <3>1 DEF Rollover
        <5>. QED
          BY <1>1, <3>1, <4>2, <5>1, <5>2
      <4>. QED
        BY <3>1, <4>1, <4>2
    <3>3. CASE session = Day(ev.now)
      <4>1. count' = count
        BY <3>1, <3>3 DEF Rollover
      <4>. QED
        BY <2>1, <3>2, <4>1, PassCounts
    \* The day's first check: nothing is open, and the counts start again from nothing.
    <3>4. CASE session # Day(ev.now)
      <4>1. count' = [d \in Direction |-> 0]
        BY <3>1, <3>4 DEF Rollover
      <4>2. Open = {} /\ mon.at = "idle"
        BY <2>1, <3>4 DEF Calm
      <4>3. \A d \in Direction : InDir(d)' = {} /\ Leaving(d)' = 0 /\ Entering(d)' = 0
        BY <2>1, <3>2, <4>2 DEF InDir, Open, Leaving, Entering
      <4>4. Cardinality({}) = 0
        BY FS_EmptySet
      <4>. QED
        BY <1>1, <3>2, <4>1, <4>3, <4>4 DEF Counts
    <3>. QED
      BY <3>3, <3>4
  <2>. QED
    BY <2>2, <2>3
<1>4. CASE RecordEntry
  <2>1. /\ ev.at = "record" /\ ev'.at = "register" /\ ev'.dir = ev.dir /\ ev.dir \in Direction
        /\ UNCHANGED <<mon, count>>
    BY <1>1, <1>4 DEF RecordEntry, Pass, riskVars
  <2> DEFINE new == Len(trades) + 1
  <2>2. /\ DOMAIN trades' = DOMAIN trades \cup {new} /\ new \notin DOMAIN trades
        /\ \A n \in DOMAIN trades : trades'[n] = trades[n]
        /\ Open' = Open \cup {new} /\ trades'[new].direction = ev.dir
    BY <1>4, Entry
  <2> HIDE DEF new
  <2>3. ASSUME NEW d \in Direction
        PROVE  Cardinality(InDir(d)') + Leaving(d)' <= count'[d] + Entering(d)'
    <3>1. Leaving(d)' = Leaving(d)
      <4>1. mon.at = "register" => mon.trade \in DOMAIN trades
        BY DEF Basis
      <4>. QED
        BY <2>1, <2>2, <4>1 DEF Leaving
    <3>2. Leaving(d) \in Nat /\ count[d] \in Nat /\ Cardinality(InDir(d)) \in Nat /\ IsFiniteSet(InDir(d))
      BY <1>1, InDirFinite DEF Leaving
    <3>3. Cardinality(InDir(d)) + Leaving(d) <= count[d]
      BY <2>1, <3>2 DEF Counts, Entering
    <3>4. CASE d = ev.dir
      <4>1. InDir(d)' = InDir(d) \cup {new} /\ new \notin InDir(d)
        BY <2>2, <3>4 DEF InDir, Open
      <4>2. Cardinality(InDir(d)') = Cardinality(InDir(d)) + 1
        BY <3>2, <4>1, FS_AddElement
      <4>3. Entering(d)' = 1
        BY <2>1, <3>4 DEF Entering
      <4>. QED
        BY <2>1, <3>1, <3>2, <3>3, <4>2, <4>3
    <3>5. CASE d # ev.dir
      <4>1. InDir(d)' = InDir(d)
        BY <2>2, <3>5 DEF InDir, Open
      <4>2. Entering(d)' = 0
        BY <2>1, <3>5 DEF Entering
      <4>. QED
        BY <2>1, <3>1, <3>2, <3>3, <4>1, <4>2
    <3>. QED
      BY <3>4, <3>5
  <2>. QED
    BY <2>1, <2>3 DEF Counts
<1>5. CASE RegisterOpen
  <2> DEFINE e == [ev EXCEPT !.openBy = @ \cup {Strat(ev.i)}]
  <2>1. e \in Pass
    BY <1>1, PassSteps DEF Pass
  <2>2. ev' = Onward(e) /\ UNCHANGED <<trades, mon>>
    BY <1>5 DEF RegisterOpen, ledger
  <2> HIDE DEF e
  <2>3. ev'.at \notin {"record", "register"}
    BY <2>1, <2>2, OnwardTypes
  <2>4. ev.at = "register" /\ count' = [count EXCEPT ![ev.dir] = @ + 1] /\ ev.dir \in Direction
    BY <1>1, <1>5 DEF RegisterOpen, Pass
  <2>5. ASSUME NEW d \in Direction
        PROVE  /\ count'[d] <= MaxConcurrentPerDir
               /\ Cardinality(InDir(d)') + Leaving(d)' <= count'[d] + Entering(d)'
    <3>1. InDir(d)' = InDir(d) /\ Leaving(d)' = Leaving(d) /\ Entering(d)' = 0
      BY <2>2, <2>3 DEF InDir, Open, Leaving, Entering
    <3>2. count'[d] = count[d] + Entering(d)
      BY <1>1, <2>4 DEF Entering
    <3>3. count'[d] <= MaxConcurrentPerDir
      BY <1>1, <2>4 DEF Counts
    <3>4. count'[d] \in Nat
      BY <1>1, <3>2 DEF Entering
    <3>. QED
      BY <3>1, <3>2, <3>3, <3>4 DEF Counts
  <2>. QED
    BY <2>3, <2>5 DEF Counts
<1>. QED
  BY <1>2, <1>3, <1>4, <1>5 DEF Evaluate

LEMMA MonitorCounts == Basis /\ Counts /\ Monitor => Counts'
<1> SUFFICES ASSUME Basis, Counts, Monitor PROVE Counts'
  OBVIOUS
<1>1. /\ mon \in Sweep /\ ev' = ev /\ MaxConcurrentPerDir \in Nat \ {0} /\ count \in [Direction -> Nat]
      /\ ev.dir \in Direction
  BY PilotAssumption
  DEF Basis, Pass, Monitor, MonTick, SweepEnds, MonVisit, RegisterClose, RecordTrade
<1>2. \A d \in Direction : Entering(d)' = Entering(d) /\ Entering(d) \in Nat
  BY <1>1 DEF Entering
<1>3. CASE MonTick \/ SweepEnds \/ RecordTrade
  <2>1. mon.at # "register" /\ UNCHANGED <<trades, count>>
    BY <1>3 DEF MonTick, SweepEnds, RecordTrade, ledger, riskVars
  <2>2. mon'.at # "register"
    <3>1. CASE MonTick
      BY <3>1 DEF MonTick
    <3>2. CASE SweepEnds
      BY <1>1, <3>2 DEF SweepEnds, Sweep
    <3>3. CASE RecordTrade
      BY <1>1, <3>3 DEF RecordTrade, Sweep
    <3>. QED
      BY <1>3, <3>1, <3>2, <3>3
  <2>3. \A d \in Direction : InDir(d)' = InDir(d) /\ Leaving(d)' = Leaving(d)
    BY <2>1, <2>2 DEF InDir, Open, Leaving
  <2>. QED
    BY <1>1, <1>2, <2>1, <2>3 DEF Counts
<1>4. CASE MonVisit
  <2>1. PICK n \in mon.left, close \in Closing(mon.now) :
          /\ mon' = [mon EXCEPT !.left = @ \ {n}, !.at = IF close THEN "register" ELSE "sweep",
                                !.trade = IF close THEN n ELSE None]
          /\ IF close
             THEN \E r \in Result :
                    /\ trades' = [trades EXCEPT ![n].open = FALSE]
                    /\ realized' = realized + r
             ELSE UNCHANGED ledger
    BY <1>4 DEF MonVisit
  <2>2. mon.at = "sweep" /\ count' = count /\ n \in Open
    BY <1>4 DEF MonVisit, riskVars, Basis
  <2>3. \A d \in Direction : Leaving(d) = 0
    BY <2>2 DEF Leaving
  <2>4. CASE ~close
    <3>1. mon'.at # "register" /\ UNCHANGED trades
      BY <1>1, <2>1, <2>4 DEF Sweep, ledger
    <3>2. \A d \in Direction : InDir(d)' = InDir(d) /\ Leaving(d)' = 0
      BY <3>1 DEF InDir, Open, Leaving
    <3>. QED
      BY <1>1, <1>2, <2>2, <2>3, <3>2 DEF Counts
  <2>5. CASE close
    <3>1. mon'.at = "register" /\ mon'.trade = n
      BY <1>1, <2>1, <2>5 DEF Sweep
    <3>2. /\ Open' = Open \ {n} /\ n \in DOMAIN trades
          /\ \A k \in DOMAIN trades : trades'[k].direction = trades[k].direction
      BY <2>1, <2>2, <2>5, Close
    <3>3. ASSUME NEW d \in Direction
          PROVE  Cardinality(InDir(d)') + Leaving(d)' = Cardinality(InDir(d))
      <4>1. IsFiniteSet(InDir(d)) /\ Cardinality(InDir(d)) \in Nat
        BY InDirFinite
      <4>2. CASE trades[n].direction = d
        <5>1. InDir(d)' = InDir(d) \ {n} /\ n \in InDir(d)
          BY <2>2, <3>2, <4>2 DEF InDir, Open
        <5>2. Cardinality(InDir(d)') = Cardinality(InDir(d)) - 1
          BY <4>1, <5>1, FS_RemoveElement
        <5>3. Leaving(d)' = 1
          BY <3>1, <3>2, <4>2 DEF Leaving
        <5>. QED
          BY <4>1, <5>2, <5>3
      <4>3. CASE trades[n].direction # d
        <5>1. InDir(d)' = InDir(d) /\ Leaving(d)' = 0
          BY <3>1, <3>2, <4>3 DEF InDir, Open, Leaving
        <5>. QED
          BY <4>1, <5>1
      <4>. QED
        BY <4>2, <4>3
    <3>4. \A d \in Direction : Cardinality(InDir(d)) <= count[d] + Entering(d)
      BY <2>3, InDirFinite DEF Counts
    <3>. QED
      BY <1>1, <1>2, <2>2, <3>3, <3>4 DEF Counts
  <2>. QED
    BY <2>4, <2>5
<1>5. CASE RegisterClose
  <2> DEFINE g == trades[mon.trade].direction
  <2>1. /\ mon.at = "register" /\ mon'.at = "track" /\ UNCHANGED trades
        /\ count' = [count EXCEPT ![g] = IF @ > 0 THEN @ - 1 ELSE @]
    BY <1>1, <1>5 DEF RegisterClose, Sweep, ledger
  <2>2. g \in Direction
    <3>1. mon.trade \in DOMAIN trades /\ trades \in Seq(Trade)
      BY <2>1 DEF Basis
    <3>2. trades[mon.trade] \in Trade
      BY <3>1
    <3>. QED
      BY <3>2 DEF Trade
  <2> HIDE DEF g
  <2>3. ASSUME NEW d \in Direction
        PROVE  /\ count'[d] <= count[d] /\ count'[d] \in Nat
               /\ Cardinality(InDir(d)') + Leaving(d)' <= count'[d] + Entering(d)'
    <3>1. InDir(d)' = InDir(d) /\ Leaving(d)' = 0 /\ Leaving(d) = IF g = d THEN 1 ELSE 0
      BY <2>1 DEF InDir, Open, Leaving, g
    <3>2. count'[d] = (IF d = g /\ count[d] > 0 THEN count[d] - 1 ELSE count[d]) /\ count[d] \in Nat
      BY <1>1, <2>1, <2>2
    <3>3. Cardinality(InDir(d)) + Leaving(d) <= count[d] + Entering(d) /\ Cardinality(InDir(d)) \in Nat
      BY InDirFinite DEF Counts
    <3>. QED
      BY <1>2, <3>1, <3>2, <3>3
  <2>. QED
    BY <1>1, <2>3 DEF Counts
<1>. QED
  BY <1>3, <1>4, <1>5 DEF Monitor

LEMMA CountsHolds == Spec => []Counts
<1>1. Init => Counts
  <2> SUFFICES ASSUME Init PROVE Counts
    OBVIOUS
  <2>1. Open = {} /\ mon.at = "idle" /\ ev.at = "idle" /\ \A d \in Direction : count[d] = 0
    BY DEF Init, Open
  <2>2. \A d \in Direction : Cardinality(InDir(d)) = 0 /\ Leaving(d) = 0 /\ Entering(d) = 0
    BY <2>1, FS_EmptySet DEF InDir, Leaving, Entering
  <2>. QED
    BY <2>1, <2>2, PilotAssumption DEF Counts
<1>2. Counts /\ (Tick \/ UNCHANGED vars) => Counts'
  BY DEF Counts, Tick, vars, ledger, riskVars, InDir, Open, Leaving, Entering
<1>3. Basis /\ Calm /\ Counts /\ [Next]_vars => Counts'
  BY <1>2, EvaluateCounts, MonitorCounts DEF Next
<1>. QED
  BY <1>1, <1>3, BasisHolds, CalmHolds, PTL DEF Spec

\* For any cap: although the gate's counts trail the ledger, entries and exits interleave, and a
\* new session sets the counts to nothing, no direction ever has more open trades than it allows.
THEOREM CapIsKept == Spec => []CapHolds
<1>1. Basis /\ Counts => CapHolds
  <2> SUFFICES ASSUME Basis, Counts, NEW d \in Direction
               PROVE  Cardinality(InDir(d)) <= MaxConcurrentPerDir
    BY DEF CapHolds
  <2>1. Cardinality(InDir(d)) + Leaving(d) <= count[d] + Entering(d) /\ count[d] <= MaxConcurrentPerDir
    BY DEF Counts
  <2>2. Entering(d) = 1 => count[d] < MaxConcurrentPerDir
    BY DEF Counts, Entering
  <2>3. /\ Entering(d) \in {0, 1} /\ Leaving(d) \in {0, 1} /\ count[d] \in Nat
        /\ MaxConcurrentPerDir \in Nat /\ Cardinality(InDir(d)) \in Nat
    BY InDirFinite, PilotAssumption DEF Entering, Leaving, Basis
  <2>. QED
    BY <2>1, <2>2, <2>3
<1>. QED
  BY <1>1, BasisHolds, CountsHolds, PTL
=============================================================================
