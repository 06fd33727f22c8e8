----------------------------- MODULE PaperBroker ----------------------------
(***************************************************************************)
(* The paper broker (services/paper_broker): one account trading one       *)
(* contract.  Its books are four Mongo collections: orders, positions,     *)
(* holdings and trades.  Callers work on them concurrently, with no lock:  *)
(* the scheduler's loop (Loop) and the requests of the API (User).  A step *)
(* of a caller runs from one await that others can overtake to the next:   *)
(* what a call reads, what it writes to the position and the holdings, the *)
(* trade row, the order row.                                               *)
(*                                                                         *)
(* The quote is one value per call.  Margin is abstracted to Rate units    *)
(* for each share of a product, so that P&L, fees and the funding of MTF   *)
(* drop out; the account's capital is Capital units.                       *)
(***************************************************************************)
EXTENDS OrderRules, Functions

CONSTANTS
  Loop, User,     \* callers: the scheduler's loop, requests of the API
  Ticket,         \* the order requests users may make
  Price,          \* what a quote may say; 0 is no quote
  Rate,           \* margin of one share, per product
  Capital,        \* the account's capital
  MaxOrders,      \* orders placed; a bound
  MaxPositions,   \* position rows inserted; a bound
  MaxShares,      \* shares of one product traded by one order; a bound
  LastDay,        \* days are numbered 1..LastDay; a bound
  Calls,          \* what users call: place, modify, cancel, exit, tick, settle
  Overlap,        \* whether one call may run while another one awaits
  MaxRestarts     \* times the process stops, between any two steps; a bound

Caller == Loop \cup User
Order  == 1..MaxOrders
Pos    == 1..MaxPositions
Id     == 1..(MaxOrders + MaxPositions)
AutoId(p) == MaxOrders + p          \* the order id "AUTO-<position id>"

Request == [product : Product, side : {"BUY", "SELL"}, type : OrderType,
            validity : Validity, qty : 1..MaxShares, price : Nat, trigger : Nat]

ASSUME BrokerAssumption ==
  /\ MaxOrders \in Nat /\ MaxPositions \in Nat /\ MaxShares \in Nat /\ LastDay \in Nat \ {0}
  /\ Loop \cap User = {} /\ Ticket \subseteq Request /\ Price \subseteq Nat
  /\ Rate \in [Product -> Nat] /\ Capital \in Nat
  /\ Overlap \in BOOLEAN /\ MaxRestarts \in Nat
  /\ Calls \subseteq {"place", "modify", "cancel", "exit", "tick", "settle"}

VARIABLES
  orders,        \* pt_orders: id -> row
  pos,           \* pt_positions: row number -> row
  holdings,      \* pt_holdings: settled CNC shares
  traded, fills, \* pt_trades: net shares of each product, rows of each order
  settledOn,     \* _state["last_settled"] (process memory)
  at,            \* each caller: what it does next,
  back,          \*   what it goes on with after the order in hand,
  todo,          \*   the orders its cursor has left to go through,
  lots,          \*   the positions it has left to settle,
  job,           \*   the order in hand, as it was read or built,
  plan,          \*   what execute decided for it,
  ltp,           \*   the quote it goes by
  issued,        \* ids given to orders so far
  day, phase,
  restarts       \* so far

bookVars == <<orders, pos, holdings, traded, fills>>
callVars == <<at, back, todo, lots, job, plan, ltp>>
envVars  == <<settledOn, issued, day, phase, restarts>>
vars     == <<bookVars, callVars, envVars>>

-----------------------------------------------------------------------------
(* Types and the initial state.                                            *)

Status == {"PENDING", "TRIGGER_PENDING", "COMPLETE", "CANCELLED", "REJECTED", "EXPIRED"}
OpenStatuses == {"PENDING", "TRIGGER_PENDING"}

OrderRow == [status : Status, product : Product, side : {"BUY", "SELL"}, type : OrderType,
             validity : Validity, qty : Nat, price : Nat, trigger : Nat]
NoOrder == [status |-> "NONE"]

PosRow == [status : {"NONE", "OPEN", "CLOSED", "SETTLED"}, product : Product, qty : Int]
NoPos  == [status |-> "NONE", product |-> "CNC", qty |-> 0]

\* pos is the row to close into, left what stays in it (orders.py:429).
Plan   == [pos : Pos \cup {0}, left : Int, close : Nat, hold : Nat, open : Nat]
NoPlan == [pos |-> 0, left |-> 0, close |-> 0, hold |-> 0, open |-> 0]

\* An order in the hands of a caller: its id, and the row as it was read or built.
Item   == Id \X OrderRow
NoItem == <<0, NoOrder>>

Labels == {"idle", "tick", "squareoff", "settle", "lots", "mark", "modify", "cancel",
           "execute", "reject", "book", "trade", "complete"}

BookTypes ==
  /\ orders \in [Id -> OrderRow \cup {NoOrder}] /\ pos \in [Pos -> PosRow]
  /\ holdings \in Int /\ traded \in [Product -> Int] /\ fills \in [Id -> Nat]

CallTypes ==
  /\ at \in [Caller -> Labels] /\ back \in [Caller -> {"idle", "tick", "squareoff"}]
  /\ todo \in [Caller -> SUBSET Item] /\ lots \in [Caller -> SUBSET (Pos \X Nat)]
  /\ job \in [Caller -> Item \cup {NoItem}] /\ plan \in [Caller -> Plan]
  /\ ltp \in [Caller -> Nat]

EnvTypes ==
  /\ settledOn \in 0..LastDay /\ issued \in 0..MaxOrders /\ day \in 1..LastDay
  /\ phase \in {"open", "late", "grace", "shut"} /\ restarts \in 0..MaxRestarts

TypeOK == BookTypes /\ CallTypes /\ EnvTypes

Init ==
  /\ orders = [i \in Id |-> NoOrder] /\ pos = [p \in Pos |-> NoPos]
  /\ holdings = 0 /\ traded = [p \in Product |-> 0] /\ fills = [i \in Id |-> 0]
  /\ at = [c \in Caller |-> "idle"] /\ back = [c \in Caller |-> "idle"]
  /\ todo = [c \in Caller |-> {}] /\ lots = [c \in Caller |-> {}] /\ job = [c \in Caller |-> NoItem]
  /\ plan = [c \in Caller |-> NoPlan] /\ ltp = [c \in Caller |-> 0]
  /\ settledOn = 0 /\ issued = 0 /\ day = 1 /\ phase = "open" /\ restarts = 0

-----------------------------------------------------------------------------
(* Reading the books.                                                      *)

Resting      == {i \in Id : orders[i].status \in OpenStatuses}
OpenRows(pr) == {p \in Pos : pos[p].status = "OPEN" /\ pos[p].product = pr}
AllOpen      == {p \in Pos : pos[p].status = "OPEN"}

\* blocked_margin: resting orders block none, every row has margin_blocked 0.0.
Blocked == SumFunction([p \in AllOpen |-> Rate[pos[p].product] * Abs(pos[p].qty)])

\* The MARKET order that closes n shares of a position of this product and size.
CloseOrder(row, n) ==
  [status |-> "PENDING", product |-> row.product, side |-> IF row.qty > 0 THEN "SELL" ELSE "BUY",
   type |-> "MARKET", validity |-> "DAY", qty |-> n, price |-> 0, trigger |-> 0]

\* past_squareoff and "at or after MARKET_CLOSE"; phase "open" begins at midnight.
PastSquareOff == phase # "open"
PastClose     == phase \in {"grace", "shut"}
\* The loop runs while the market is open and in the grace minutes after it.
LoopRuns      == phase # "shut"

\* A call starts; without Overlap, only when no other one is under way.
Begin(c) == at[c] = "idle" /\ (Overlap \/ \A d \in Caller : at[d] = "idle")

Goto(c, label) == at' = [at EXCEPT ![c] = label]

\* The order i, in the form row, goes to execute; then the caller goes on with next.
Execute(c, i, row, next) ==
  /\ Goto(c, "execute") /\ back' = [back EXCEPT ![c] = next]
  /\ job' = [job EXCEPT ![c] = <<i, row>>]

-----------------------------------------------------------------------------
(* orders.execute                                                          *)

\* Mutant of Decide: the funds are not checked.
DecideUnfunded(c) ==
  LET row == job[c][2] IN
  /\ at[c] = "execute"
  /\ \E p \in IF OpenRows(row.product) = {} THEN {0} ELSE OpenRows(row.product) :
       LET held == IF p = 0 THEN 0 ELSE pos[p].qty
           new  == OpeningQty(row, held)
       IN
       IF Refused(row, held, holdings)
       THEN Goto(c, "reject") /\ UNCHANGED plan
       ELSE /\ Goto(c, "book")
            /\ plan' = [plan EXCEPT ![c] =
                 [pos |-> p, left |-> Remaining(row, held), close |-> ClosingQty(row, held),
                  hold |-> HoldingsQty(row, held, holdings), open |-> new]]
  /\ UNCHANGED <<bookVars, back, todo, lots, job, ltp, envVars>>

\* Its reads: the position it closes into, the holdings, the funds; and the split.
Decide(c) ==
  LET row == job[c][2] IN
  /\ at[c] = "execute"
  /\ \E p \in IF OpenRows(row.product) = {} THEN {0} ELSE OpenRows(row.product) :
       LET held == IF p = 0 THEN 0 ELSE pos[p].qty
           new  == OpeningQty(row, held)
       IN
       IF \/ Refused(row, held, holdings)
          \/ new > 0 /\ Rate[row.product] * new > Capital - Blocked
       THEN Goto(c, "reject") /\ UNCHANGED plan
       ELSE /\ Goto(c, "book")
            /\ plan' = [plan EXCEPT ![c] =
                 [pos |-> p, left |-> Remaining(row, held), close |-> ClosingQty(row, held),
                  hold |-> HoldingsQty(row, held, holdings), open |-> new]]
  /\ UNCHANGED <<bookVars, back, todo, lots, job, ltp, envVars>>

\* The position row, closed or cut down to what was decided when it was read.
\* A row that closes keeps its quantity.
Closed(rows, pl) ==
  IF pl.close = 0 THEN rows
  ELSE IF pl.left = 0 THEN [rows EXCEPT ![pl.pos].status = "CLOSED"]
  ELSE [rows EXCEPT ![pl.pos].qty = pl.left]

\* _open_or_add on these rows: added to the open row of the product, or a new row.
Opened(rows, row, n) ==
  LET same == {p \in Pos : rows[p].status = "OPEN" /\ rows[p].product = row.product}
      free == {p \in Pos : rows[p].status = "NONE"}
  IN IF n = 0 THEN {rows}
     ELSE IF same # {}
     THEN {[rows EXCEPT ![p].qty = @ + Signed(row.side, n)] : p \in same}
     ELSE {[rows EXCEPT ![p] = [status |-> "OPEN", product |-> row.product,
                                qty |-> Signed(row.side, n)]] :
             p \in {f \in free : \A g \in free : f <= g}}

\* The position is written, then the holdings it sold from.
Book(c) ==
  LET row == job[c][2]  pl == plan[c] IN
  /\ at[c] = "book" /\ Goto(c, "trade")
  /\ pos' \in Opened(Closed(pos, pl), row, pl.open)
  /\ holdings' = IF pl.hold = 0 THEN holdings ELSE Larger(0, holdings - pl.hold)
  /\ UNCHANGED <<orders, traded, fills, back, todo, lots, job, plan, ltp, envVars>>

\* Mutant of Executed: the quantity ordered.
ExecutedOrdered(c) == job[c][2].qty

\* What the trade row says: the quantity executed.
Executed(c) == plan[c].close + plan[c].hold + plan[c].open

Trade(c) ==
  LET row == job[c][2] IN
  /\ at[c] = "trade" /\ Goto(c, "complete")
  /\ traded' = [traded EXCEPT ![row.product] = @ + Signed(row.side, Executed(c))]
  /\ fills' = [fills EXCEPT ![job[c][1]] = @ + 1]
  /\ UNCHANGED <<orders, pos, holdings, back, todo, lots, job, plan, ltp, envVars>>

\* The caller is done with the order in hand.
PutDown(c) ==
  /\ Goto(c, back[c]) /\ back' = [back EXCEPT ![c] = "idle"]
  /\ job' = [job EXCEPT ![c] = NoItem] /\ plan' = [plan EXCEPT ![c] = NoPlan]
  /\ ltp' = IF back[c] = "idle" THEN [ltp EXCEPT ![c] = 0] ELSE ltp

\* The order row is replaced, whatever it says by now; the row of an order that
\* execute was called with first is inserted here.
Complete(c) ==
  /\ at[c] = "complete" /\ PutDown(c)
  /\ orders' = [orders EXCEPT ![job[c][1]] =
                  [job[c][2] EXCEPT !.status = "COMPLETE", !.qty = Executed(c)]]
  /\ UNCHANGED <<pos, holdings, traded, fills, todo, lots, envVars>>

\* _reject: the same, with the reason.
Reject(c) ==
  /\ at[c] = "reject" /\ PutDown(c)
  /\ orders' = [orders EXCEPT ![job[c][1]] = [job[c][2] EXCEPT !.status = "REJECTED"]]
  /\ UNCHANGED <<pos, holdings, traded, fills, todo, lots, envVars>>

-----------------------------------------------------------------------------
(* The calls of the API: place, square_off, modify, cancel.                *)

Row(t) == [status |-> "PENDING", product |-> t.product, side |-> t.side, type |-> t.type,
           validity |-> t.validity, qty |-> t.qty, price |-> t.price, trigger |-> t.trigger]

\* place, from its quote on: rejected without one, else it waits for its trigger,
\* is cancelled (IOC) or rests when it cannot fill, or goes to execute.
Accept(c, row, q) ==
  LET i == issued + 1
      insert(st) == /\ orders' = [orders EXCEPT ![i] = [row EXCEPT !.status = st]]
                    /\ UNCHANGED <<at, back, job, ltp>>
  IN
  /\ Begin(c) /\ issued < MaxOrders /\ issued' = i
  /\ IF q = 0 THEN insert("REJECTED")
     ELSE IF row.type \in Stops /\ ~Triggered(row, q) THEN insert("TRIGGER_PENDING")
     ELSE IF ~Marketable(row, q)
     THEN insert(IF row.validity = "IOC" THEN "CANCELLED" ELSE "PENDING")
     ELSE /\ Execute(c, i, row, "idle") /\ ltp' = [ltp EXCEPT ![c] = q]
          /\ UNCHANGED orders
  /\ UNCHANGED <<pos, holdings, traded, fills, todo, lots, plan, settledOn, day, phase, restarts>>

Place(c) ==
  /\ c \in User /\ "place" \in Calls
  /\ \E t \in Ticket, q \in Price : Valid(t) /\ Accept(c, Row(t), q)

\* square_off: a position is closed, all of it or a part, by a MARKET order.
Exit(c) ==
  /\ c \in User /\ "exit" \in Calls
  /\ \E p \in AllOpen, q \in Price :
       \E n \in 1..Abs(pos[p].qty) : Accept(c, CloseOrder(pos[p], n), q)

\* modify changes the fields it is given; price and trigger cannot be taken away.
Amended(row, t) ==
  [row EXCEPT !.type = t.type, !.qty = t.qty,
              !.price = IF t.price = 0 THEN @ ELSE t.price,
              !.trigger = IF t.trigger = 0 THEN @ ELSE t.trigger]

\* A stop that is modified is armed again from the quote.
Rearmed(row, q) ==
  IF row.type \in Stops
  THEN [row EXCEPT !.status = IF q # 0 /\ Triggered(row, q) THEN "PENDING" ELSE "TRIGGER_PENDING"]
  ELSE row

\* It reads the row, awaits the quote of a stop, and replaces the row.
Modify(c) ==
  /\ c \in User /\ "modify" \in Calls /\ Begin(c) /\ Goto(c, "modify")
  /\ \E i \in Resting, t \in Ticket, q \in Price :
       LET new == Amended(orders[i], t) IN
       Valid(new) /\ job' = [job EXCEPT ![c] = <<i, Rearmed(new, q)>>]
  /\ UNCHANGED <<bookVars, back, todo, lots, plan, ltp, envVars>>

Modified(c) ==
  /\ at[c] = "modify" /\ PutDown(c)
  /\ orders' = [orders EXCEPT ![job[c][1]] = job[c][2]]
  /\ UNCHANGED <<pos, holdings, traded, fills, todo, lots, envVars>>

\* Mutant of Cancel: any order that there is can be cancelled.
CancelAny(c) ==
  /\ c \in User /\ "cancel" \in Calls /\ Begin(c) /\ Goto(c, "cancel")
  /\ \E i \in 1..issued : job' = [job EXCEPT ![c] = <<i, orders[i]>>]
  /\ UNCHANGED <<bookVars, back, todo, lots, plan, ltp, envVars>>

\* cancel reads the row, and writes its status in a second call.
Cancel(c) ==
  /\ c \in User /\ "cancel" \in Calls /\ Begin(c) /\ Goto(c, "cancel")
  /\ \E i \in Resting : job' = [job EXCEPT ![c] = <<i, orders[i]>>]
  /\ UNCHANGED <<bookVars, back, todo, lots, plan, ltp, envVars>>

Cancelled(c) ==
  /\ at[c] = "cancel" /\ PutDown(c)
  /\ orders' = [orders EXCEPT ![job[c][1]].status = "CANCELLED"]
  /\ UNCHANGED <<pos, holdings, traded, fills, todo, lots, envVars>>

-----------------------------------------------------------------------------
(* engine.tick, from the loop or from POST /tick                           *)

\* Its snapshot: every resting order, and one quote for all of them.
Tick(c) ==
  /\ Begin(c) /\ IF c \in Loop THEN LoopRuns ELSE "tick" \in Calls
  /\ IF Resting = {} /\ AllOpen = {}
     THEN /\ c \in Loop /\ phase = "grace" /\ settledOn < day
          /\ Goto(c, "settle") /\ UNCHANGED <<todo, ltp>>
     ELSE /\ Goto(c, "tick")
          /\ todo' = [todo EXCEPT ![c] = {<<i, orders[i]>> : i \in Resting}]
          /\ \E q \in Price : ltp' = [ltp EXCEPT ![c] = q]
  /\ UNCHANGED <<bookVars, back, lots, job, plan, envVars>>

\* One order of the snapshot: left alone, armed, and filled if it can be.
Sweep(c) ==
  /\ at[c] = "tick"
  /\ \E it \in todo[c] :
       LET row   == [it[2] EXCEPT !.status = "PENDING"]
           armed == it[2].status = "PENDING" \/ Triggered(it[2], ltp[c])
       IN
       /\ todo' = [todo EXCEPT ![c] = @ \ {it}]
       /\ IF ltp[c] # 0 /\ armed /\ it[2].status = "TRIGGER_PENDING"
          THEN orders' = [orders EXCEPT ![it[1]].status = "PENDING"]
          ELSE UNCHANGED orders
       /\ IF ltp[c] # 0 /\ armed /\ Marketable(row, ltp[c])
          THEN Execute(c, it[1], row, "tick")
          ELSE UNCHANGED <<at, back, job>>
  /\ UNCHANGED <<pos, holdings, traded, fills, lots, plan, ltp, envVars>>

\* The orders a tick sends to square off MIS: the rows open now, after the fills.
SquareOffs ==
  {<<AutoId(p), CloseOrder(pos[p], Abs(pos[p].qty))>> : p \in OpenRows("MIS")}

\* Mutant of Expire: MIS is squared off at the close, not at the cutoff.
ExpireAtClose(c) ==
  /\ at[c] = "tick" /\ todo[c] = {} /\ Goto(c, "squareoff")
  /\ orders' = [i \in Id |->
       IF PastClose /\ i \in Resting /\ orders[i].validity = "DAY"
       THEN [orders[i] EXCEPT !.status = "EXPIRED"] ELSE orders[i]]
  /\ todo' = [todo EXCEPT ![c] = IF PastClose THEN SquareOffs ELSE {}]
  /\ UNCHANGED <<pos, holdings, traded, fills, back, lots, job, plan, ltp, envVars>>

\* The sweep is over: DAY orders expire past the close, MIS is squared off past the cutoff.
Expire(c) ==
  /\ at[c] = "tick" /\ todo[c] = {} /\ Goto(c, "squareoff")
  /\ orders' = [i \in Id |->
       IF PastClose /\ i \in Resting /\ orders[i].validity = "DAY"
       THEN [orders[i] EXCEPT !.status = "EXPIRED"] ELSE orders[i]]
  /\ todo' = [todo EXCEPT ![c] = IF PastSquareOff THEN SquareOffs ELSE {}]
  /\ UNCHANGED <<pos, holdings, traded, fills, back, lots, job, plan, ltp, envVars>>

\* Each goes to execute at the tick's quote, or at one of its own; without one it is left.
SquareOff(c) ==
  /\ at[c] = "squareoff"
  /\ \E it \in todo[c], q \in Price :
       /\ ltp[c] # 0 => q = ltp[c]
       /\ todo' = [todo EXCEPT ![c] = @ \ {it}]
       /\ IF q # 0 THEN Execute(c, it[1], it[2], "squareoff") ELSE UNCHANGED <<at, back, job>>
  /\ UNCHANGED <<bookVars, lots, plan, ltp, envVars>>

\* The tick is over; the loop goes on to settle, once a day, in the grace minutes.
TickDone(c) ==
  /\ at[c] = "squareoff" /\ todo[c] = {}
  /\ Goto(c, IF c \in Loop /\ phase = "grace" THEN "settle" ELSE "idle")
  /\ ltp' = [ltp EXCEPT ![c] = 0]
  /\ UNCHANGED <<bookVars, back, todo, lots, job, plan, envVars>>

-----------------------------------------------------------------------------
(* engine.settle_delivery, from the loop or from POST /settle              *)

SettleCall(c) ==
  /\ c \in User /\ "settle" \in Calls /\ Begin(c) /\ Goto(c, "settle")
  /\ UNCHANGED <<bookVars, back, todo, lots, job, plan, ltp, envVars>>

\* Nothing when it has run today; else the open CNC rows it goes through.
Settle(c) ==
  /\ at[c] = "settle"
  /\ IF settledOn = day THEN Goto(c, "idle") /\ UNCHANGED lots
     ELSE /\ Goto(c, "lots")
          /\ lots' = [lots EXCEPT ![c] =
               {<<p, pos[p].qty>> : p \in {r \in OpenRows("CNC") : pos[r].qty > 0}}]
  /\ UNCHANGED <<bookVars, back, todo, job, plan, ltp, envVars>>

\* One row: its shares are added to the holdings, then the row is marked.
SettleHold(c) ==
  /\ at[c] = "lots" /\ Goto(c, "mark")
  /\ \E lot \in lots[c] :
       /\ lots' = [lots EXCEPT ![c] = @ \ {lot}]
       /\ holdings' = holdings + lot[2]
       /\ plan' = [plan EXCEPT ![c] = [pos |-> lot[1], left |-> lot[2],
                                         close |-> 0, hold |-> 0, open |-> 0]]
  /\ UNCHANGED <<orders, pos, traded, fills, back, todo, job, ltp, envVars>>

SettleMark(c) ==
  /\ at[c] = "mark" /\ Goto(c, "lots")
  /\ pos' = [pos EXCEPT ![plan[c].pos].status = "SETTLED"]
  /\ plan' = [plan EXCEPT ![c] = NoPlan]
  /\ UNCHANGED <<orders, holdings, traded, fills, back, todo, lots, job, ltp, envVars>>

SettleDone(c) ==
  /\ at[c] = "lots" /\ lots[c] = {} /\ Goto(c, "idle") /\ settledOn' = day
  /\ UNCHANGED <<bookVars, back, todo, lots, job, plan, ltp, issued, day, phase, restarts>>

-----------------------------------------------------------------------------
(* The clock, the process, and the whole system.                           *)

Clock == [open |-> "late", late |-> "grace", grace |-> "shut", shut |-> "open"]

Advance ==
  /\ Overlap \/ \A c \in Caller : at[c] = "idle"
  /\ phase = "shut" => day < LastDay
  /\ phase' = Clock[phase] /\ day' = IF phase = "shut" THEN day + 1 ELSE day
  /\ UNCHANGED <<bookVars, callVars, settledOn, issued, restarts>>

Restart ==
  /\ restarts < MaxRestarts /\ restarts' = restarts + 1
  /\ at' = [c \in Caller |-> "idle"] /\ back' = [c \in Caller |-> "idle"]
  /\ todo' = [c \in Caller |-> {}] /\ lots' = [c \in Caller |-> {}]
  /\ job' = [c \in Caller |-> NoItem] /\ plan' = [c \in Caller |-> NoPlan]
  /\ ltp' = [c \in Caller |-> 0] /\ settledOn' = 0
  /\ UNCHANGED <<bookVars, issued, day, phase>>

Fill(c)   == Decide(c) \/ Book(c) \/ Trade(c) \/ Complete(c) \/ Reject(c)
Desk(c)   == Place(c) \/ Exit(c) \/ Modify(c) \/ Modified(c) \/ Cancel(c) \/ Cancelled(c)
Engine(c) == Tick(c) \/ Sweep(c) \/ Expire(c) \/ SquareOff(c) \/ TickDone(c)
Settling(c) == SettleCall(c) \/ Settle(c) \/ SettleHold(c) \/ SettleMark(c) \/ SettleDone(c)

Next ==
  \/ \E c \in Caller : Fill(c) \/ Desk(c) \/ Engine(c) \/ Settling(c)
  \/ Advance \/ Restart

Spec == Init /\ [][Next]_vars

-----------------------------------------------------------------------------
(* Properties.                                                             *)

\* The shares of a product on the books: its open positions and, for CNC, the
\* holdings, less the lot that is in both while it is being settled.
Settled == SumFunction([c \in {d \in Caller : at[d] = "mark"} |-> plan[c].left])
Shares(pr) == SumFunction([p \in OpenRows(pr) |-> pos[p].qty])
              + IF pr = "CNC" THEN holdings - Settled ELSE 0

\* A tick that ends past the cutoff, with a quote, leaves no intraday position
\* open, the one it opened itself in its sweep included, and past the close no
\* DAY order resting (engine.py:9-21).
CutoffFlattens == [][
  \A c \in Caller : at[c] = "squareoff" /\ at'[c] \in {"idle", "settle"} /\ restarts' = restarts =>
    /\ PastSquareOff /\ ltp[c] # 0 => OpenRows("MIS")' = {}
    /\ PastClose => \A i \in Id : orders[i].status \in OpenStatuses => orders[i].validity # "DAY"]_vars

\* Between two calls the trades explain the books: for each product the open
\* positions and the holdings are what the trade rows add up to, and no order
\* has traded twice (orders.py:291-292).
TradesExplainBooks ==
  (\A c \in Caller : at[c] = "idle") =>
    /\ \A pr \in Product : Shares(pr) = traded[pr]
    /\ \A i \in Id : fills[i] = IF orders[i].status = "COMPLETE" THEN 1 ELSE 0

\* The positions never block more than the capital (orders.py:351-359).
WithinCapital == Blocked <= Capital

\* However calls overlap and whenever the process stops, a delivery position and
\* the holdings are never negative, and a row that is open holds shares.
NeverShort ==
  /\ holdings >= 0
  /\ \A p \in Pos : pos[p].status = "OPEN" /\ pos[p].product \in Delivery => pos[p].qty > 0

\* An order that has ended stays as it ended (orders.py:3-6).
FinalStays == [][\A i \in Id : orders[i].status \in Status \ OpenStatuses =>
                   orders'[i].status = orders[i].status]_vars

\* A sell that exceeds a long position closes what is there and is refused the
\* rest: no order turns a long position into a short one (orders.py:20-22).
NoReversal == [][\A pr \in Product : Shares(pr) > 0 => Shares(pr)' >= 0]_vars

\* The broker of PaperBook: an order is complete from its position's write on.
BookStatus(i) ==
  IF \E c \in Caller : at[c] \in {"trade", "complete"} /\ job[c][1] = i
  THEN "COMPLETE" ELSE orders[i].status

Abstract == INSTANCE PaperBook WITH
  Products <- Product, DeliveryOnly <- Delivery,
  status <- [i \in Id |-> BookStatus(i)], net <- [pr \in Product |-> Shares(pr)]

Promise == Abstract!Spec
=============================================================================
