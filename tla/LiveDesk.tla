------------------------------ MODULE LiveDesk ------------------------------
(***************************************************************************)
(* The real-money desk of the trading platform, live_trading_engine.py, and *)
(* the broker account it trades in.                                        *)
(*                                                                         *)
(* Three kinds of asyncio task work on one ledger: Runner tasks run        *)
(* run_cycle (the intraday loop, and every POST /run), Closer tasks run    *)
(* manage_cycle alone (the close-out loop), Panicker tasks run             *)
(* panic_close_all.  A step of a task is what it does between two awaits   *)
(* whose interleaving matters: reading the ledger, reading Angel's book,   *)
(* sending one order, recording one order.  Angel's side of the account is *)
(* modelled from what the engine reads of it: the positions it holds, the  *)
(* strays an exit order opened by mistake, and the symbols its book lists. *)
(*                                                                         *)
(* One position is one unit of quantity and one slot of capital.  Prices,  *)
(* fees and P&L are abstracted: a target or a stop may be hit at any time. *)
(***************************************************************************)
EXTENDS Integers, FiniteSets

CONSTANTS
  Strategy,        \* SELECTED: the strategies the desk may trade
  Symbol,          \* the stocks it may trade them in
  MaxOrders,       \* entry orders the broker accepts, and so ledger rows; a bound
  MaxStray,        \* positions opened by mistake, per symbol and way; a bound
  Runner,          \* tasks in run_cycle
  Closer,          \* tasks in manage_cycle only
  Panicker,        \* tasks in panic_close_all
  None,            \* no task, no order, nothing in hand
  MaxRejects,      \* MAX_CONSECUTIVE_REJECTS
  Slice,           \* positions a strategy's own capital can carry
  Ceiling,         \* positions the whole desk can carry: DESK_CEILING
  EntryCutoff,     \* clock value from which no entry is made
  CloseoutFrom,    \* clock value from which the close-out loop runs
  SquareOffDue,    \* per symbol: the desk's own square-off time
  BrokerFrom,      \* per symbol: Angel squares MIS off itself from here
  CloseTime,       \* the end of the session's clock
  Switches,        \* which of the user's and the registry's switches are used
  LastDay,         \* days are numbered 1..LastDay; a bound
  Faults           \* which environment faults may happen

\* reject        Angel fails an order           refuse_entry / refuse_exit  it declines the symbol
\* lost_ack      it executes an order whose call raised
\* late_reject   it rejects an entry order after accepting it
\* book          its position book cannot be read, or comes back empty
\* no_price      a row has neither a live quote nor a daily bar this cycle
\* rms           it squares a position off at any time (margin call)
\* breaker       the daily-loss breaker is tripped, or Angel is not configured
\* slow          the clock moves while a cycle is running
\* crash         the process restarts between any two steps
FaultKinds == {"reject", "refuse_entry", "refuse_exit", "lost_ack",
               "late_reject", "book", "no_price", "rms", "breaker", "slow", "crash"}

\* kill: the kill switch.  flags: the per-strategy flags.  verdicts: the registry's.
SwitchKinds == {"kill", "flags", "verdicts"}

\* An entry order and the ledger row it leads to share one identity.
PosId == 1..MaxOrders

ASSUME DeskAssumption ==
  /\ None \notin Runner \cup Closer \cup Panicker \cup PosId \cup Strategy \cup Symbol
  /\ Runner \cap Closer = {} /\ Runner \cap Panicker = {} /\ Closer \cap Panicker = {}
  /\ MaxRejects \in Nat \ {0} /\ Slice \in Nat /\ Ceiling \in Nat /\ LastDay \in Nat \ {0} /\ MaxOrders \in Nat /\ MaxStray \in Nat \ {0}
  /\ EntryCutoff \in Nat /\ CloseoutFrom \in Nat /\ CloseTime \in Nat
  /\ SquareOffDue \in [Symbol -> Nat] /\ BrokerFrom \in [Symbol -> Nat]
  /\ \A y \in Symbol : SquareOffDue[y] <= BrokerFrom[y] /\ BrokerFrom[y] <= CloseTime
  /\ Faults \subseteq FaultKinds /\ Switches \subseteq SwitchKinds

VARIABLES
  armed, kill, rejects,  \* the desk's state document
  enabled,               \* per-strategy flags
  confirmed,             \* strategies whose registry verdict is CONFIRMED
  lastBar,               \* the "entry_bars" document: last bar acted on
  status, mismatch,      \* ledger rows: status, and reconcile_status = "mismatch"
  refused,               \* _refused_symbols (process memory)
  recent,                \* Angel's book was read less than 30 s ago (process memory)
  lock,                  \* _manage_lock
  pc, todo, cur,         \* each task: its label, rows left, the row in hand,
  now,                   \* the time its cycle goes by, read once,
  offers, pick, saw,     \* pairs left to scan, the pair in hand, rejects it read
  entry, held, stray, listed,  \* Angel: entry orders, what it holds, mistakes, its book
  day, clock

deskVars   == <<armed, kill, rejects, enabled, confirmed, lastBar>>
ledgerVars == <<status, mismatch>>
memVars    == <<refused, recent, lock>>
taskVars   == <<pc, todo, cur, now, offers, pick, saw>>
brokerVars == <<entry, held, stray, listed>>
timeVars   == <<day, clock>>
vars == <<deskVars, ledgerVars, memVars, taskVars, brokerVars, timeVars>>

-----------------------------------------------------------------------------
(* Types and the initial state.                                            *)

Proc  == Runner \cup Closer \cup Panicker
Pair  == Strategy \X Symbol
Side  == {-1, 1}                   \* SELL and BUY, as the sign of the quantity

Order == [strategy : Strategy, symbol : Symbol, side : Side, day : 1..LastDay]
NoOrder == [strategy |-> None, symbol |-> None, side |-> 0, day |-> 0]

Labels == {"idle", "manage", "reconcile", "book", "snapshot", "exits", "exit_ok",
           "exit_fail", "scan", "offers", "check", "order", "entry_ok",
           "entry_fail", "panic", "panic_off"}

\* The labels at which a task of manage_cycle holds _manage_lock.
Managing == {"reconcile", "book", "snapshot", "exits", "exit_ok", "exit_fail"}

DeskTypes ==
  /\ armed \in BOOLEAN /\ kill \in BOOLEAN /\ rejects \in 0..MaxRejects
  /\ enabled \in [Strategy -> BOOLEAN] /\ confirmed \subseteq Strategy
  /\ lastBar \in [Pair -> 0..LastDay]

LedgerTypes ==
  /\ status \in [PosId -> {"NONE", "OPEN", "CLOSED", "VOID"}]
  /\ mismatch \subseteq PosId

MemTypes == refused \subseteq Symbol /\ recent \in BOOLEAN /\ lock \in Proc \cup {None}

TaskTypes ==
  /\ pc \in [Proc -> Labels]
  /\ todo \in [Proc -> SUBSET PosId]
  /\ cur \in [Proc -> PosId \cup {None}] /\ now \in [Proc -> 0..CloseTime]
  /\ offers \in [Proc -> SUBSET Pair]
  /\ pick \in [Proc -> Pair \cup {<<None, None>>}]
  /\ saw \in [Proc -> 0..MaxRejects]

BrokerTypes ==
  /\ entry \in [PosId -> Order \cup {NoOrder}]
  /\ held \subseteq PosId
  /\ stray \in [Symbol -> -MaxStray..MaxStray]
  /\ listed \subseteq Symbol

TimeTypes == day \in 1..LastDay /\ clock \in 0..CloseTime

Typed == DeskTypes /\ LedgerTypes /\ MemTypes /\ TaskTypes /\ BrokerTypes /\ TimeTypes

\* Every ledger row, and whatever a task has in hand, belongs to an order the
\* broker accepted; a pair in hand is a pair.
RowsHaveOrders ==
  /\ \A x \in PosId : status[x] # "NONE" => entry[x] \in Order
  /\ \A p \in Proc : \A x \in todo[p] : entry[x] \in Order
  /\ \A p \in Proc : pc[p] \in {"exit_ok", "exit_fail", "entry_ok"} =>
                     cur[p] \in PosId /\ entry[cur[p]] \in Order
  /\ \A p \in Proc : pc[p] \in {"check", "order"} => pick[p] \in Pair

TypeOK == Typed /\ RowsHaveOrders

Init ==
  /\ armed = FALSE /\ kill = FALSE /\ rejects = 0
  /\ enabled = [s \in Strategy |-> TRUE] /\ confirmed \in SUBSET Strategy
  /\ lastBar = [k \in Pair |-> 0]
  /\ status = [x \in PosId |-> "NONE"] /\ mismatch = {}
  /\ refused = {} /\ recent = FALSE /\ lock = None
  /\ pc = [p \in Proc |-> "idle"] /\ todo = [p \in Proc |-> {}]
  /\ cur = [p \in Proc |-> None] /\ now = [p \in Proc |-> 0] /\ offers = [p \in Proc |-> {}]
  /\ pick = [p \in Proc |-> <<None, None>>] /\ saw = [p \in Proc |-> 0]
  /\ entry = [x \in PosId |-> NoOrder] /\ held = {}
  /\ stray = [y \in Symbol |-> 0] /\ listed = {}
  /\ day = 1 /\ clock = 0

-----------------------------------------------------------------------------
(* The ledger and the broker's book, as the engine computes over them.     *)

Open == {x \in PosId : status[x] = "OPEN"}
OpenToday == {x \in Open : entry[x].day = day}

Signed(X) == Cardinality({x \in X : entry[x].side = 1})
               - Cardinality({x \in X : entry[x].side = -1})

In(X, y) == {x \in X : entry[x].symbol = y}

\* netqty of symbol y in Angel's position book.
Net(y) == Signed(In(held, y)) + stray[y]

OpenOf(s) == {x \in Open : entry[x].strategy = s}

Goto(p, l) == pc' = [pc EXCEPT ![p] = l]

\* Where a task goes on after an exit order: the manage loop or the panic loop.
ExitLoop(p) == IF p \in Panicker THEN "panic" ELSE "exits"

-----------------------------------------------------------------------------
(* What Angel does with an order.                                          *)

\* The broker executes an exit for row x.  It knows quantities, not rows: the
\* order closes x, or another position like it; if it holds none, the order opens
\* the opposite position.  Mistakes are counted up to MaxStray each way.
Alike(x) == {z \in held : entry[z].symbol = entry[x].symbol /\ entry[z].side = entry[x].side}

ExecuteExit(x) ==
  IF Alike(x) # {}
  THEN /\ \E z \in Alike(x) : (x \in held => z = x) /\ held' = held \ {z}
       /\ UNCHANGED <<stray, listed>>
  ELSE /\ stray' = [stray EXCEPT ![entry[x].symbol] =
                       IF @ - entry[x].side \in -MaxStray..MaxStray THEN @ - entry[x].side ELSE @]
       /\ listed' = listed \cup {entry[x].symbol} /\ UNCHANGED held

\* The broker accepts entry order x.  It fills, or - a fault - it is rejected
\* after the acceptance and the position never exists.
ExecuteEntry(x, o) ==
  /\ entry' = [entry EXCEPT ![x] = o]
  /\ \/ held' = held \cup {x} /\ listed' = listed \cup {o.symbol}
     \/ "late_reject" \in Faults /\ UNCHANGED <<held, listed>>
  /\ UNCHANGED stray

-----------------------------------------------------------------------------
(* manage_cycle, under _manage_lock.                                       *)

\* run_cycle and the close-out pass both start by managing what is open: the
\* intraday loop in the session, the close-out loop in its window, which goes on
\* after the session.
Begin(p) ==
  /\ pc[p] = "idle"
  /\ \/ p \in Runner /\ clock < CloseTime
     \/ p \in Closer /\ clock >= CloseoutFrom
  /\ Goto(p, "manage")
  /\ UNCHANGED <<deskVars, ledgerVars, memVars, todo, cur, now, offers, pick, saw, brokerVars, timeVars>>

\* Mutant of Lock: manage_cycle without _manage_lock.
LockNotTaken(p) ==
  /\ pc[p] = "manage"
  /\ Goto(p, "reconcile")
  /\ UNCHANGED <<deskVars, ledgerVars, memVars, todo, cur, now, offers, pick, saw, brokerVars,
                 timeVars>>

Lock(p) ==
  /\ pc[p] = "manage" /\ lock = None
  /\ lock' = p /\ Goto(p, "reconcile")
  /\ UNCHANGED <<deskVars, ledgerVars, refused, recent, todo, cur, now, offers, pick, saw,
                 brokerVars, timeVars>>

\* reconcile_broker_closes, up to the await of Angel's book: the rows opened
\* today are read, and the read of the book is throttled.
ReadLedger(p) ==
  /\ pc[p] = "reconcile"
  /\ IF OpenToday = {} \/ recent
     THEN Goto(p, "snapshot") /\ UNCHANGED <<recent, todo>>
     ELSE recent' = TRUE /\ todo' = [todo EXCEPT ![p] = OpenToday] /\ Goto(p, "book")
  /\ UNCHANGED <<deskVars, ledgerVars, refused, lock, cur, now, offers, pick, saw, brokerVars, timeVars>>

\* An unreadable book, or an empty one, infers nothing.
BookUnread(p) ==
  /\ pc[p] = "book"
  /\ "book" \in Faults \/ listed = {}
  /\ todo' = [todo EXCEPT ![p] = {}] /\ Goto(p, "snapshot")
  /\ UNCHANGED <<deskVars, ledgerVars, memVars, cur, now, offers, pick, saw, brokerVars, timeVars>>

\* What the book says of the rows R the cycle read: the symbols it does not list;
\* the rows of a symbol whose quantity differs; those of a symbol that is flat and
\* whose rows are all on one side, which Angel must have closed.
Unlisted(R) == {x \in R : entry[x].symbol \notin listed}
RowsLike(x, R) == In(R, entry[x].symbol)
Differing(R) == {x \in R \ Unlisted(R) : Net(entry[x].symbol) # Signed(RowsLike(x, R))}
BrokerFlat(R) ==
  {x \in Differing(R) :
     /\ Net(entry[x].symbol) = 0
     /\ \A z \in RowsLike(x, R) : entry[z].side = entry[x].side}

\* Angel's order book shows the entry rejected: it was accepted and never filled.
Rejected(R) == {x \in R : x \notin held}

\* The rows the broker closed are closed at its fills, with no order sent; a
\* row whose entry was rejected is voided; the rest that disagree are marked.
\* Without a closing price the rows of a flat symbol are marked too, and without
\* an order book no row is voided.
ReadBook(p) ==
  /\ pc[p] = "book" /\ listed # {}
  /\ \E readable \in IF "book" \in Faults THEN BOOLEAN ELSE {TRUE} :
       LET closed == IF readable THEN BrokerFlat(todo[p]) ELSE {}
           void   == IF readable THEN Rejected(Unlisted(todo[p])) ELSE {}
       IN /\ status' = [x \in PosId |-> IF x \in closed THEN "CLOSED"
                                        ELSE IF x \in void THEN "VOID" ELSE status[x]]
          /\ mismatch' = (mismatch \cup Differing(todo[p])) \ (closed \cup void)
  /\ todo' = [todo EXCEPT ![p] = {}] /\ Goto(p, "snapshot")
  /\ UNCHANGED <<deskVars, memVars, cur, now, offers, pick, saw, brokerVars, timeVars>>

\* _manage_cycle: the open rows and the time, once for the whole cycle.
Snapshot(p) ==
  /\ pc[p] = "snapshot"
  /\ todo' = [todo EXCEPT ![p] = Open] /\ now' = [now EXCEPT ![p] = clock]
  /\ Goto(p, "exits")
  /\ UNCHANGED <<deskVars, ledgerVars, memVars, cur, offers, pick, saw, brokerVars, timeVars>>

\* Mutant of CloseStale: the mark is looked at before the session.
CloseStaleUnmarked(p, x) ==
  /\ pc[p] = "exits" /\ x \in todo[p] /\ entry[x].day < day /\ x \notin mismatch
  /\ status' = [status EXCEPT ![x] = "CLOSED"]
  /\ todo' = [todo EXCEPT ![p] = @ \ {x}]
  /\ UNCHANGED <<deskVars, mismatch, memVars, pc, cur, now, offers, pick, saw, brokerVars,
                 timeVars>>

\* A row of an earlier session is closed without an order.
CloseStale(p, x) ==
  /\ pc[p] = "exits" /\ x \in todo[p] /\ entry[x].day < day
  /\ status' = [status EXCEPT ![x] = "CLOSED"]
  /\ mismatch' = mismatch \ {x}
  /\ todo' = [todo EXCEPT ![p] = @ \ {x}]
  /\ UNCHANGED <<deskVars, memVars, pc, cur, now, offers, pick, saw, brokerVars, timeVars>>

\* Mutant of Exitable: marked rows are not skipped.
ExitableMarked(p, x) ==
  /\ entry[x].day = day
  /\ now[p] < BrokerFrom[entry[x].symbol]

\* A row the cycle may send an exit for: opened today, not marked, and its time
\* not in the window in which the broker squares off itself.
Exitable(p, x) ==
  /\ entry[x].day = day
  /\ x \notin mismatch
  /\ now[p] < BrokerFrom[entry[x].symbol]

\* Nothing to do for this row in this cycle: no price at all, or a row of today
\* that may not be exited or has hit neither target, stop nor square-off time.
KeepOpen(p, x) ==
  /\ pc[p] = "exits" /\ x \in todo[p]
  /\ \/ "no_price" \in Faults
     \/ entry[x].day = day /\ (~Exitable(p, x) \/ now[p] < SquareOffDue[entry[x].symbol])
  /\ todo' = [todo EXCEPT ![p] = @ \ {x}]
  /\ UNCHANGED <<deskVars, ledgerVars, memVars, pc, cur, now, offers, pick, saw, brokerVars,
                 timeVars>>

\* _place_angel_order for an exit, called from _close_real.  A refused symbol
\* answers "SKIP", which _close_real takes for an order id.
PlaceExit(p, x) ==
  /\ cur' = [cur EXCEPT ![p] = x]
  /\ \/ /\ ExecuteExit(x) /\ Goto(p, "exit_ok") /\ UNCHANGED <<refused, saw>>
     \/ /\ "refuse_exit" \in Faults
        /\ refused' = refused \cup {entry[x].symbol} /\ Goto(p, "exit_ok")
        /\ UNCHANGED <<held, stray, listed, saw>>
     \/ /\ "reject" \in Faults
        /\ saw' = [saw EXCEPT ![p] = rejects] /\ Goto(p, "exit_fail")
        /\ UNCHANGED <<held, stray, listed, refused>>
     \/ /\ "lost_ack" \in Faults
        /\ ExecuteExit(x) /\ saw' = [saw EXCEPT ![p] = rejects] /\ Goto(p, "exit_fail")
        /\ UNCHANGED refused
  /\ UNCHANGED <<deskVars, ledgerVars, recent, lock, todo, now, offers, pick, entry, timeVars>>

\* Target, stop, or the square-off time.
SendExit(p, x) ==
  /\ pc[p] = "exits" /\ x \in todo[p] /\ Exitable(p, x)
  /\ PlaceExit(p, x)

\* _close_real after an accepted order: reject streak cleared, row closed.
RecordExit(p) ==
  /\ pc[p] = "exit_ok"
  /\ rejects' = 0
  /\ status' = [status EXCEPT ![cur[p]] = "CLOSED"]
  /\ todo' = [todo EXCEPT ![p] = @ \ {cur[p]}]
  /\ cur' = [cur EXCEPT ![p] = None] /\ Goto(p, ExitLoop(p))
  /\ UNCHANGED <<armed, kill, enabled, confirmed, lastBar, mismatch, memVars, now, offers, pick, saw,
                 brokerVars, timeVars>>

\* _register_reject: the count it read plus one, and the desk disarmed from the
\* limit on.  The code's count has no upper end; it is only ever compared with the
\* limit and set to 0, so the value MaxRejects stands for every count from it on.
CountReject(p) ==
  /\ rejects' = IF saw[p] < MaxRejects THEN saw[p] + 1 ELSE MaxRejects
  /\ armed' = (armed /\ saw[p] + 1 < MaxRejects)
  /\ saw' = [saw EXCEPT ![p] = 0]

\* Mutant of ExitFailed: the row is closed although the exit was not accepted.
ExitFailedClosed(p) ==
  /\ pc[p] = "exit_fail" /\ CountReject(p)
  /\ status' = [status EXCEPT ![cur[p]] = "CLOSED"]
  /\ todo' = [todo EXCEPT ![p] = @ \ {cur[p]}]
  /\ cur' = [cur EXCEPT ![p] = None] /\ Goto(p, ExitLoop(p))
  /\ UNCHANGED <<kill, enabled, confirmed, lastBar, mismatch, memVars, now, offers, pick,
                 brokerVars, timeVars>>

ExitFailed(p) ==
  /\ pc[p] = "exit_fail" /\ CountReject(p)
  /\ todo' = [todo EXCEPT ![p] = @ \ {cur[p]}]
  /\ cur' = [cur EXCEPT ![p] = None] /\ Goto(p, ExitLoop(p))
  /\ UNCHANGED <<kill, enabled, confirmed, lastBar, ledgerVars, memVars, now, offers, pick, brokerVars,
                 timeVars>>

Unlock(p) ==
  /\ pc[p] = "exits" /\ todo[p] = {}
  /\ lock' = None /\ now' = [now EXCEPT ![p] = 0]
  /\ Goto(p, IF p \in Runner THEN "scan" ELSE "idle")
  /\ UNCHANGED <<deskVars, ledgerVars, refused, recent, todo, cur, offers, pick, saw, brokerVars,
                 timeVars>>

-----------------------------------------------------------------------------
(* scan_cycle.  It takes no lock.                                          *)

\* Strategies that may place an order: enabled, with a CONFIRMED verdict.
Tradable == {s \in confirmed : enabled[s]}

\* The breaker is tripped or Angel is not configured: the cycle ends here.
ScanHalted(p) ==
  /\ pc[p] = "scan" /\ "breaker" \in Faults
  /\ Goto(p, "idle")
  /\ UNCHANGED <<deskVars, ledgerVars, memVars, todo, cur, now, offers, pick, saw, brokerVars, timeVars>>

\* The gates, then the pairs not yet acted on for the current bar.
Scan(p) ==
  /\ pc[p] = "scan"
  /\ IF ~armed \/ kill
     THEN Goto(p, "idle") /\ UNCHANGED <<armed, offers>>
     ELSE IF Tradable = {}
     THEN armed' = FALSE /\ Goto(p, "idle") /\ UNCHANGED offers
     ELSE /\ offers' = [offers EXCEPT ![p] =
               IF clock >= EntryCutoff THEN {}
               ELSE {k \in Tradable \X Symbol : lastBar[k] # day}]
          /\ Goto(p, "offers") /\ UNCHANGED armed
  /\ UNCHANGED <<kill, rejects, enabled, confirmed, lastBar, ledgerVars, memVars, todo, cur, now,
                 pick, saw, brokerVars, timeVars>>

\* No signal, or no live quote, for this pair.
NoSignal(p, k) ==
  /\ pc[p] = "offers" /\ k \in offers[p]
  /\ offers' = [offers EXCEPT ![p] = @ \ {k}]
  /\ UNCHANGED <<deskVars, ledgerVars, memVars, pc, todo, cur, now, pick, saw, brokerVars, timeVars>>

\* Identities not yet used; a signal is taken up only while one is left for it.
Unused == {x \in PosId : entry[x] = NoOrder}
RoomForOrder == Cardinality(Unused) > Cardinality({q \in Proc : pc[q] \in {"check", "order"}})

\* Mutant of Offer: the gate is not read again before the order.
OfferUngated(p, k) ==
  /\ pc[p] = "offers" /\ k \in offers[p] /\ RoomForOrder
  /\ lastBar' = [lastBar EXCEPT ![k] = day]
  /\ offers' = [offers EXCEPT ![p] = @ \ {k}]
  /\ pick' = [pick EXCEPT ![p] = k] /\ Goto(p, "check")
  /\ UNCHANGED <<armed, kill, rejects, enabled, confirmed, ledgerVars, memVars, todo, cur, now,
                 saw, brokerVars, timeVars>>

\* Mutant of Offer: the bar is not burned before the order.
OfferUnburned(p, k) ==
  /\ pc[p] = "offers" /\ k \in offers[p] /\ RoomForOrder
  /\ armed /\ ~kill
  /\ offers' = [offers EXCEPT ![p] = @ \ {k}]
  /\ pick' = [pick EXCEPT ![p] = k] /\ Goto(p, "check")
  /\ UNCHANGED <<deskVars, ledgerVars, memVars, todo, cur, now, saw, brokerVars, timeVars>>

\* A signal: the gate is read again, and the bar is burned before the order.
Offer(p, k) ==
  /\ pc[p] = "offers" /\ k \in offers[p] /\ RoomForOrder
  /\ IF ~armed \/ kill
     THEN /\ offers' = [offers EXCEPT ![p] = {}] /\ Goto(p, "idle")
          /\ UNCHANGED <<lastBar, pick>>
     ELSE /\ lastBar' = [lastBar EXCEPT ![k] = day]
          /\ offers' = [offers EXCEPT ![p] = @ \ {k}]
          /\ pick' = [pick EXCEPT ![p] = k] /\ Goto(p, "check")
  /\ UNCHANGED <<armed, kill, rejects, enabled, confirmed, ledgerVars, memVars, todo, cur, now, saw,
                 brokerVars, timeVars>>

EndScan(p) ==
  /\ pc[p] = "offers" /\ offers[p] = {}
  /\ Goto(p, "idle")
  /\ UNCHANGED <<deskVars, ledgerVars, memVars, todo, cur, now, offers, pick, saw, brokerVars, timeVars>>

\* Mutant of MayEnter: the strategy's own capital is not checked.
MayEnterUnfunded(k) ==
  /\ k[2] \notin refused
  /\ In(OpenOf(k[1]), k[2]) = {}
  /\ Cardinality(Open) < Ceiling

\* _open_position up to the order: refused symbols, one open row per strategy
\* and symbol, and the strategy's remaining capital.
MayEnter(k) ==
  /\ k[2] \notin refused
  /\ In(OpenOf(k[1]), k[2]) = {}
  /\ Cardinality(OpenOf(k[1])) < Slice
  /\ Cardinality(Open) < Ceiling

Check(p) ==
  /\ pc[p] = "check"
  /\ IF MayEnter(pick[p])
     THEN Goto(p, "order") /\ UNCHANGED pick
     ELSE Goto(p, "offers") /\ pick' = [pick EXCEPT ![p] = <<None, None>>]
  /\ UNCHANGED <<deskVars, ledgerVars, memVars, todo, cur, now, offers, saw, brokerVars, timeVars>>

\* Mutant of PlaceEntry: the "SKIP" of a declined symbol is taken for an order id.
PlaceEntrySkipBooked(p) ==
  /\ pc[p] = "order"
  /\ \/ /\ \E x \in Unused, d \in Side :
             /\ \A z \in Unused : x <= z
             /\ ExecuteEntry(x, [strategy |-> pick[p][1], symbol |-> pick[p][2],
                                 side |-> d, day |-> day])
             /\ \/ /\ cur' = [cur EXCEPT ![p] = x] /\ Goto(p, "entry_ok")
                   /\ UNCHANGED saw
                \/ /\ "lost_ack" \in Faults
                   /\ saw' = [saw EXCEPT ![p] = rejects] /\ Goto(p, "entry_fail")
                   /\ UNCHANGED cur
        /\ UNCHANGED refused
     \/ /\ "refuse_entry" \in Faults
        /\ refused' = refused \cup {pick[p][2]} /\ Goto(p, "entry_ok")
        /\ \E x \in Unused : cur' = [cur EXCEPT ![p] = x]
        /\ UNCHANGED <<saw, brokerVars>>
     \/ /\ "reject" \in Faults
        /\ saw' = [saw EXCEPT ![p] = rejects] /\ Goto(p, "entry_fail")
        /\ UNCHANGED <<cur, refused, brokerVars>>
  /\ pick' = [pick EXCEPT ![p] = <<None, None>>]
  /\ UNCHANGED <<deskVars, ledgerVars, recent, lock, todo, now, offers, timeVars>>

\* _place_angel_order for an entry.
PlaceEntry(p) ==
  /\ pc[p] = "order"
  /\ \/ /\ \E x \in Unused, d \in Side :
             /\ \A z \in Unused : x <= z
             /\ ExecuteEntry(x, [strategy |-> pick[p][1], symbol |-> pick[p][2],
                                 side |-> d, day |-> day])
             /\ \/ /\ cur' = [cur EXCEPT ![p] = x] /\ Goto(p, "entry_ok")
                   /\ UNCHANGED saw
                \/ /\ "lost_ack" \in Faults
                   /\ saw' = [saw EXCEPT ![p] = rejects] /\ Goto(p, "entry_fail")
                   /\ UNCHANGED cur
        /\ UNCHANGED refused
     \/ /\ "refuse_entry" \in Faults
        /\ refused' = refused \cup {pick[p][2]} /\ Goto(p, "offers")
        /\ UNCHANGED <<cur, saw, brokerVars>>
     \/ /\ "reject" \in Faults
        /\ saw' = [saw EXCEPT ![p] = rejects] /\ Goto(p, "entry_fail")
        /\ UNCHANGED <<cur, refused, brokerVars>>
  /\ pick' = [pick EXCEPT ![p] = <<None, None>>]
  /\ UNCHANGED <<deskVars, ledgerVars, recent, lock, todo, now, offers, timeVars>>

\* _open_position after an accepted order: reject streak cleared, row inserted.
RecordEntry(p) ==
  /\ pc[p] = "entry_ok"
  /\ rejects' = 0
  /\ status' = [status EXCEPT ![cur[p]] = "OPEN"]
  /\ cur' = [cur EXCEPT ![p] = None] /\ Goto(p, "offers")
  /\ UNCHANGED <<armed, kill, enabled, confirmed, lastBar, mismatch, memVars, todo, now, offers, pick,
                 saw, brokerVars, timeVars>>

EntryFailed(p) ==
  /\ pc[p] = "entry_fail" /\ CountReject(p) /\ Goto(p, "offers")
  /\ UNCHANGED <<kill, enabled, confirmed, lastBar, ledgerVars, memVars, todo, cur, now, offers, pick,
                 brokerVars, timeVars>>

-----------------------------------------------------------------------------
(* panic_close_all.  It takes no lock.                                     *)

Panic(p) ==
  /\ p \in Panicker /\ pc[p] = "idle"
  /\ todo' = [todo EXCEPT ![p] = Open] /\ Goto(p, "panic")
  /\ UNCHANGED <<deskVars, ledgerVars, memVars, cur, now, offers, pick, saw, brokerVars, timeVars>>

\* Every row of the snapshot gets an exit order, whatever its mark or session.
PanicExit(p, x) ==
  /\ pc[p] = "panic" /\ x \in todo[p]
  /\ PlaceExit(p, x)

PanicKill(p) ==
  /\ pc[p] = "panic" /\ todo[p] = {}
  /\ kill' = TRUE /\ Goto(p, "panic_off")
  /\ UNCHANGED <<armed, rejects, enabled, confirmed, lastBar, ledgerVars, memVars, todo, cur,
                 now, offers, pick, saw, brokerVars, timeVars>>

PanicDisarm(p) ==
  /\ pc[p] = "panic_off"
  /\ armed' = FALSE /\ Goto(p, "idle")
  /\ UNCHANGED <<kill, rejects, enabled, confirmed, lastBar, ledgerVars, memVars, todo, cur,
                 now, offers, pick, saw, brokerVars, timeVars>>

-----------------------------------------------------------------------------
(* The user and the registry.                                              *)

\* arming_check: ledger blockers and verdict blockers.
LedgerClean == ~kill /\ Open \subseteq OpenToday /\ Open \cap mismatch = {}
VerdictsClean ==
  /\ \E s \in Strategy : enabled[s]
  /\ \A s \in Strategy : enabled[s] => s \in confirmed

Arm ==
  /\ LedgerClean /\ VerdictsClean
  /\ armed' = TRUE /\ rejects' = 0
  /\ UNCHANGED <<kill, enabled, confirmed, lastBar, ledgerVars, memVars, taskVars, brokerVars,
                 timeVars>>

Disarm ==
  /\ armed' = FALSE
  /\ UNCHANGED <<kill, rejects, enabled, confirmed, lastBar, ledgerVars, memVars, taskVars,
                 brokerVars, timeVars>>

KillSwitch(active) ==
  /\ "kill" \in Switches /\ kill' = active
  /\ UNCHANGED <<armed, rejects, enabled, confirmed, lastBar, ledgerVars, memVars, taskVars,
                 brokerVars, timeVars>>

SetEnabled(s, on) ==
  /\ "flags" \in Switches /\ enabled' = [enabled EXCEPT ![s] = on]
  /\ UNCHANGED <<armed, kill, rejects, confirmed, lastBar, ledgerVars, memVars, taskVars,
                 brokerVars, timeVars>>

\* The incubation registry confirms a strategy, or fails one it had confirmed.
Verdict(s) ==
  /\ "verdicts" \in Switches
  /\ confirmed' = IF s \in confirmed THEN confirmed \ {s} ELSE confirmed \cup {s}
  /\ UNCHANGED <<armed, kill, rejects, enabled, lastBar, ledgerVars, memVars, taskVars, brokerVars,
                 timeVars>>

-----------------------------------------------------------------------------
(* The broker on its own, time, and restarts.                              *)

\* Angel squares off what it holds in y: MIS at the end of the session, or a
\* margin call.
SquareOff(y) ==
  /\ clock >= BrokerFrom[y] \/ "rms" \in Faults
  /\ Net(y) # 0
  /\ held' = held \ In(held, y) /\ stray' = [stray EXCEPT ![y] = 0]
  /\ UNCHANGED <<deskVars, ledgerVars, memVars, taskVars, entry, listed, timeVars>>

\* Thirty seconds pass since the last read of the book.
Elapse ==
  /\ recent /\ recent' = FALSE
  /\ UNCHANGED <<deskVars, ledgerVars, refused, lock, taskVars, brokerVars, timeVars>>

\* A cycle is over before the clock reaches the next cutoff, unless it is slow.
Idle == \A p \in Proc : pc[p] = "idle"

Tick ==
  /\ Idle \/ "slow" \in Faults
  /\ clock < CloseTime /\ clock' = clock + 1
  /\ UNCHANGED <<deskVars, ledgerVars, memVars, taskVars, brokerVars, day>>

\* MIS cannot outlive its session; Angel's book of the day is gone.
NextDay ==
  /\ Idle /\ clock = CloseTime /\ day < LastDay
  /\ \A y \in Symbol : Net(y) = 0
  /\ day' = day + 1 /\ clock' = 0 /\ recent' = FALSE
  /\ held' = {} /\ stray' = [y \in Symbol |-> 0] /\ listed' = {}
  /\ UNCHANGED <<deskVars, ledgerVars, refused, lock, taskVars, entry>>

\* Process memory is lost, the database is not.
Crash ==
  /\ "crash" \in Faults
  /\ refused' = {} /\ recent' = FALSE /\ lock' = None
  /\ pc' = [p \in Proc |-> "idle"] /\ todo' = [p \in Proc |-> {}]
  /\ cur' = [p \in Proc |-> None] /\ now' = [p \in Proc |-> 0] /\ offers' = [p \in Proc |-> {}]
  /\ pick' = [p \in Proc |-> <<None, None>>] /\ saw' = [p \in Proc |-> 0]
  /\ UNCHANGED <<deskVars, ledgerVars, brokerVars, timeVars>>

Step(p) ==
  \/ Begin(p) \/ Lock(p) \/ ReadLedger(p) \/ BookUnread(p) \/ ReadBook(p) \/ Snapshot(p)
  \/ \E x \in PosId : CloseStale(p, x) \/ KeepOpen(p, x) \/ SendExit(p, x)
  \/ RecordExit(p) \/ ExitFailed(p) \/ Unlock(p)
  \/ ScanHalted(p) \/ Scan(p) \/ \E k \in Pair : NoSignal(p, k) \/ Offer(p, k)
  \/ EndScan(p) \/ Check(p) \/ PlaceEntry(p) \/ RecordEntry(p) \/ EntryFailed(p)
  \/ \E x \in PosId : PanicExit(p, x)
  \/ PanicKill(p) \/ PanicDisarm(p)

User ==
  \/ Arm \/ Disarm \/ \E b \in BOOLEAN : KillSwitch(b)
  \/ \E s \in Strategy : Verdict(s) \/ \E b \in BOOLEAN : SetEnabled(s, b)
  \/ \E p \in Proc : Panic(p)

World == (\E y \in Symbol : SquareOff(y)) \/ Elapse \/ Tick \/ NextDay \/ Crash

Next == (\E p \in Proc : Step(p)) \/ User \/ World

Spec == Init /\ [][Next]_vars

\* What the scheduling justifies: the close-out loop keeps starting cycles, a
\* cycle that has started goes on (every await of it has a timeout), the lock is
\* an asyncio.Lock and so first come first served, time passes, Angel squares
\* off.  Nothing is assumed of the user, nor of the loop behind the switches.
Fairness ==
  /\ \A p \in Proc : WF_vars(pc[p] # "idle" /\ Step(p)) /\ SF_vars(Lock(p))
  /\ \A p \in Closer : WF_vars(Begin(p))
  /\ WF_vars(Elapse) /\ WF_vars(Tick) /\ SF_vars(NextDay)
  /\ \A y \in Symbol : WF_vars(SquareOff(y))

FairSpec == Spec /\ Fairness

-----------------------------------------------------------------------------
(* What the desk must never do.                                            *)

\* An exit order closes a position the broker holds; it never opens one.  The
\* engine calls this the hazard its lock, its reading of Angel's book before
\* every exit decision and its square-off times exist for.
NoStray == \A y \in Symbol : stray[y] = 0

\* Before the broker's own square-off, the ledger and the broker agree on every
\* position of the day that no task is working on: it is OPEN in the ledger
\* exactly when Angel holds it.
InFlight(x) == \E p \in Proc : cur[p] = x

BooksAgree ==
  \A x \in PosId :
    entry[x].day = day /\ clock < BrokerFrom[entry[x].symbol] /\ ~InFlight(x)
      => (status[x] = "OPEN" <=> x \in held)

\* One real entry per strategy, symbol and bar, however often the cycle runs,
\* fails, or restarts: the bar is burned before the order is sent.
OneEntryPerBar ==
  \A x, z \in PosId :
    x # z /\ entry[x] # NoOrder /\ entry[z] # NoOrder
      => \/ entry[x].strategy # entry[z].strategy
         \/ entry[x].symbol # entry[z].symbol
         \/ entry[x].day # entry[z].day

\* No strategy carries more open positions than its own capital allows, nor the
\* desk more than its ceiling, though both are checked before the order is sent.
CapitalRespected ==
  /\ \A s \in Strategy : Cardinality(OpenOf(s)) <= Slice
  /\ Cardinality(Open) <= Ceiling

\* A row the reconciliation marked is never the one an automatic exit is in
\* flight for: manage cycles of different tasks do not overlap.
MarkedNotExited ==
  \A p \in Runner \cup Closer :
    pc[p] \in {"exit_ok", "exit_fail"} => cur[p] \notin mismatch

\* Once the kill switch is on, the tasks past the re-check of the gate only get
\* fewer: at most one entry order per task can still go out.
Entering == {p \in Proc : pc[p] \in {"check", "order"}}

KillDrains == [][kill /\ kill' => Entering' \subseteq Entering]_vars

\* No row outlives the session after its own: whatever was rejected, marked or
\* unreadable on the day, and whatever the user switched off, the close-out loop
\* of the next day closes it.
EveryRowCloses ==
  \A x \in PosId : (status[x] = "OPEN" /\ day < LastDay) ~> status[x] # "OPEN"

=============================================================================
