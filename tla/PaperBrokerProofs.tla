------------------------- MODULE PaperBrokerProofs --------------------------
(***************************************************************************)
(* What holds of the paper broker for every set of callers and tickets:    *)
(* first however its calls overlap and whenever the process stops, then    *)
(* what holds of it only when one call ends before the next one begins.    *)
(***************************************************************************)
EXTENDS PaperBroker, FoldProofs

-----------------------------------------------------------------------------
(* What the rules guarantee, for every order, price and book.              *)

\* An order as far as the rules look at it.
OrderDoc == [product : Product, side : {"BUY", "SELL"}, type : OrderType,
             qty : Nat, price : Nat, trigger : Nat]

\* A stop-loss limit order that validate_order lets through is not one that
\* "arms and then can never fill" (core.py:139-147): at the moment the market
\* touches its trigger, it is both triggered and marketable.
THEOREM ValidStopCanFill ==
  ASSUME NEW o \in OrderDoc, Valid(o), o.type \in Stops
  PROVE  Triggered(o, o.trigger) /\ Marketable(o, o.trigger)
BY DEF OrderDoc, Valid, Stops, Triggered, Marketable, OrderType

\* An order the engine sends to execute fills at the market, and never beyond
\* its own limit (fill_price_for, core.py:175-186).
THEOREM FillsAtTheMarket ==
  ASSUME NEW o \in OrderDoc, NEW market \in Nat \ {0}, Valid(o), Marketable(o, market)
  PROVE  /\ FillPrice(o, market) = market
         /\ o.type \in {"LIMIT", "SL"} =>
              IF o.side = "BUY" THEN market <= o.price ELSE market >= o.price
BY DEF OrderDoc, Valid, Marketable, FillPrice, Smaller, Larger, OrderType, Stops

\* The split of an order never trades more than was ordered, and never sells
\* the same share twice: what closes comes out of the position, what is taken
\* from the holdings is there, and a close never crosses zero.
THEOREM SplitWithinBooks ==
  ASSUME NEW o \in OrderDoc, NEW held \in Int, NEW kept \in Nat
  PROVE  /\ FilledQty(o, held, kept) <= o.qty
         /\ HoldingsQty(o, held, kept) <= kept
         /\ ClosingQty(o, held) <= Abs(held)
         /\ held >= 0 => Remaining(o, held) >= 0 \/ o.side = "BUY"
         /\ held <= 0 => Remaining(o, held) <= 0 \/ o.side = "SELL"
<1>1. o.side \in {"BUY", "SELL"} /\ o.qty \in Nat
  BY DEF OrderDoc
<1>2. ClosingQty(o, held) \in 0..o.qty /\ ClosingQty(o, held) <= Abs(held)
  BY <1>1 DEF ClosingQty, Smaller, Abs
<1>3. /\ HoldingsQty(o, held, kept) \in 0..(o.qty - ClosingQty(o, held))
      /\ HoldingsQty(o, held, kept) <= kept
  BY <1>1, <1>2 DEF HoldingsQty, Smaller, Larger
<1>4. /\ OpeningQty(o, held) \in {0, o.qty - ClosingQty(o, held)}
      /\ HoldingsQty(o, held, kept) # 0 => OpeningQty(o, held) = 0
  BY <1>1 DEF HoldingsQty, OpeningQty, Delivery
<1>5. FilledQty(o, held, kept) <= o.qty
  BY <1>1, <1>2, <1>3, <1>4 DEF FilledQty
<1>6. /\ held >= 0 => Remaining(o, held) >= 0 \/ o.side = "BUY"
      /\ held <= 0 => Remaining(o, held) <= 0 \/ o.side = "SELL"
  BY <1>1, <1>2 DEF Remaining, Signed, Abs
<1> QED BY <1>2, <1>3, <1>5, <1>6

\* A delivery product cannot go short (orders.py:13-17): whatever is ordered, a
\* sell leaves the position and the holdings at zero or more and opens nothing,
\* and what the books cannot cover does not trade.
THEOREM DeliveryCannotGoShort ==
  ASSUME NEW o \in OrderDoc, o.product \in Delivery, o.side = "SELL",
         NEW held \in Nat, NEW kept \in Nat
  PROVE  /\ OpeningQty(o, held) = 0
         /\ Remaining(o, held) >= 0
         /\ kept - HoldingsQty(o, held, kept) >= 0
         /\ FilledQty(o, held, kept) <= held + kept
<1>1. held \in Int /\ kept \in Nat /\ o.qty \in Nat /\ o.side # "BUY" /\ "SELL" # "BUY"
  BY DEF OrderDoc
<1>2. /\ HoldingsQty(o, held, kept) <= kept
      /\ ClosingQty(o, held) <= Abs(held)
      /\ Remaining(o, held) >= 0
  BY <1>1, SplitWithinBooks
<1>3. OpeningQty(o, held) = 0
  BY DEF OpeningQty
<1>4. ClosingQty(o, held) \in Nat /\ ClosingQty(o, held) <= held
  BY <1>1, <1>2 DEF ClosingQty, Smaller, Abs
<1>5. HoldingsQty(o, held, kept) \in Int
  BY <1>1, <1>4 DEF HoldingsQty, Smaller, Larger
<1> QED BY <1>1, <1>2, <1>3, <1>4, <1>5 DEF FilledQty

-----------------------------------------------------------------------------
(* The inductive invariant.                                                *)

\* A caller with an order in hand has a row of it, and only such a caller has a
\* place to come back to.
Hands ==
  \A c \in Caller :
    /\ at[c] \in {"execute", "reject", "book", "trade", "complete", "modify", "cancel"} =>
         job[c] \in Item
    /\ back[c] # "idle" => at[c] \in {"execute", "reject", "book", "trade", "complete"}

\* The rows whose status alone is written are there.
Known ==
  \A c \in Caller :
    /\ at[c] = "tick" \/ back[c] = "tick" => \A it \in todo[c] : orders[it[1]] \in OrderRow
    /\ at[c] = "cancel" => orders[job[c][1]] \in OrderRow

\* What execute decided stays harmless until it is written, whatever others
\* write in between: the row it closes into is one of its product, and a delivery
\* order leaves no less than nothing of it and opens no short.
Planned ==
  \A c \in Caller :
    /\ at[c] = "mark" => plan[c].pos \in Pos
    /\ at[c] = "book" =>
         /\ plan[c].close # 0 =>
              /\ plan[c].pos \in Pos /\ pos[plan[c].pos].status # "NONE"
              /\ pos[plan[c].pos].product = job[c][2].product
              /\ job[c][2].product \in Delivery => plan[c].left >= 0
         /\ job[c][2].product \in Delivery /\ job[c][2].side = "SELL" => plan[c].open = 0

\* The inductive invariant.
Inv == TypeOK /\ Hands /\ Known /\ Planned /\ NeverShort

-----------------------------------------------------------------------------
(* The operators execute is made of.                                       *)

\* The rows never hold a short delivery position.
Covered(rows) ==
  \A p \in Pos : rows[p].status = "OPEN" /\ rows[p].product \in Delivery => rows[p].qty > 0

\* A row, once inserted, stays, with its product.
Kept(rows, rows2) ==
  \A p \in Pos : rows[p].status # "NONE" =>
    rows2[p].status # "NONE" /\ rows2[p].product = rows[p].product

LEMMA Constants ==
  /\ MaxOrders \in Nat /\ MaxPositions \in Nat
  /\ \A p \in Pos : AutoId(p) \in Id /\ p \in Nat
  /\ \A i \in 0..MaxOrders : i < MaxOrders => i + 1 \in Id /\ i + 1 \in 0..MaxOrders
BY BrokerAssumption DEF BrokerAssumption, Pos, Id, AutoId

LEMMA RowTypes ==
  ASSUME NEW row \in OrderRow, NEW st \in Status, NEW n \in Nat
  PROVE  /\ [row EXCEPT !.status = st] \in OrderRow
         /\ [row EXCEPT !.status = st, !.qty = n] \in OrderRow
BY DEF OrderRow

LEMMA CloseOrderType ==
  ASSUME NEW row \in PosRow, NEW n \in Nat
  PROVE  CloseOrder(row, n) \in OrderRow
BY DEF CloseOrder, OrderRow, PosRow, Status, OrderType, Validity

\* An order's split is in natural numbers; a delivery sell opens nothing and
\* leaves no less than nothing of a position that is not short.
LEMMA Split ==
  ASSUME NEW row \in OrderRow, NEW held \in Int, NEW h \in Int
  PROVE  /\ ClosingQty(row, held) \in Nat /\ HoldingsQty(row, held, h) \in Nat
         /\ OpeningQty(row, held) \in Nat /\ Remaining(row, held) \in Int
         /\ held >= 0 /\ ClosingQty(row, held) # 0 => Remaining(row, held) >= 0
         /\ held = 0 => ClosingQty(row, held) = 0
<1>1. row.qty \in Nat /\ row.side \in {"BUY", "SELL"} /\ "BUY" # "SELL"
  BY DEF OrderRow
<1>2. ClosingQty(row, held) \in 0..row.qty /\ ClosingQty(row, held) <= Abs(held)
  BY <1>1 DEF ClosingQty, Smaller, Abs
<1>3. HoldingsQty(row, held, h) \in Nat /\ OpeningQty(row, held) \in Nat
  BY <1>1, <1>2 DEF HoldingsQty, OpeningQty, Smaller, Larger
<1>4. Remaining(row, held) \in Int
  BY <1>1, <1>2 DEF Remaining, Signed
<1>5. held >= 0 /\ ClosingQty(row, held) # 0 => Remaining(row, held) >= 0
  BY <1>1, <1>2 DEF Remaining, Signed, ClosingQty, Abs
<1>6. held = 0 => ClosingQty(row, held) = 0
  BY DEF ClosingQty
<1> QED BY <1>2, <1>3, <1>4, <1>5, <1>6

\* Closing into a row of the order's product leaves the rows covered.
LEMMA ClosedRows ==
  ASSUME NEW rows \in [Pos -> PosRow], NEW pl \in Plan, Covered(rows),
         pl.close # 0 => /\ pl.pos \in Pos /\ rows[pl.pos].status # "NONE"
                         /\ rows[pl.pos].product \in Delivery => pl.left >= 0
  PROVE  /\ Closed(rows, pl) \in [Pos -> PosRow] /\ Covered(Closed(rows, pl))
         /\ Kept(rows, Closed(rows, pl))
<1>0. pl.left \in Int
  BY DEF Plan
<1>1. CASE pl.close = 0
  BY <1>1 DEF Closed, Kept
<1>2. CASE pl.close # 0 /\ pl.left = 0
  <2>1. Closed(rows, pl) = [rows EXCEPT ![pl.pos].status = "CLOSED"] /\ pl.pos \in Pos
    BY <1>2 DEF Closed
  <2> QED BY <2>1 DEF PosRow, Covered, Kept
<1>3. CASE pl.close # 0 /\ pl.left # 0
  <2>1. Closed(rows, pl) = [rows EXCEPT ![pl.pos].qty = pl.left] /\ pl.pos \in Pos
    BY <1>3 DEF Closed
  <2>2. rows[pl.pos].product \in Delivery => pl.left > 0
    BY <1>0, <1>3
  <2> QED BY <1>0, <2>1, <2>2 DEF PosRow, Covered, Kept
<1> QED BY <1>1, <1>2, <1>3

\* So does opening, or adding to, a position, but for a delivery sell.
LEMMA OpenedRows ==
  ASSUME NEW rows \in [Pos -> PosRow], NEW row \in OrderRow, NEW n \in Nat, Covered(rows),
         row.product \in Delivery /\ row.side = "SELL" => n = 0,
         NEW r \in Opened(rows, row, n)
  PROVE  r \in [Pos -> PosRow] /\ Covered(r) /\ Kept(rows, r)
<1>0. /\ row.product \in Product /\ row.side \in {"BUY", "SELL"} /\ Signed(row.side, n) \in Int
      /\ n # 0 /\ row.product \in Delivery => Signed(row.side, n) > 0
  BY DEF OrderRow, Signed
<1>1. CASE n = 0
  BY <1>1 DEF Opened, Kept
<1>2. ASSUME n # 0, NEW p \in Pos, rows[p].status = "OPEN", rows[p].product = row.product,
             r = [rows EXCEPT ![p].qty = @ + Signed(row.side, n)]
      PROVE  r \in [Pos -> PosRow] /\ Covered(r) /\ Kept(rows, r)
  <2>1. rows[p] \in PosRow /\ rows[p].qty \in Int
    BY DEF PosRow
  <2>2. r \in [Pos -> PosRow] /\ Kept(rows, r)
    BY <1>0, <1>2, <2>1 DEF PosRow, Kept
  <2>3. row.product \in Delivery => rows[p].qty > 0
    BY <1>2 DEF Covered
  <2>4. Covered(r)
    BY <1>0, <1>2, <2>1, <2>3 DEF Covered, PosRow
  <2> QED BY <2>2, <2>4
<1>3. ASSUME n # 0, NEW p \in Pos, rows[p].status = "NONE",
             r = [rows EXCEPT ![p] = [status |-> "OPEN", product |-> row.product,
                                      qty |-> Signed(row.side, n)]]
      PROVE  r \in [Pos -> PosRow] /\ Covered(r) /\ Kept(rows, r)
  BY <1>0, <1>3 DEF PosRow, Covered, Kept
<1>4. CASE n # 0 /\ \E p \in Pos : rows[p].status = "OPEN" /\ rows[p].product = row.product
  <2>1. r \in {[rows EXCEPT ![p].qty = @ + Signed(row.side, n)] :
                p \in {q \in Pos : rows[q].status = "OPEN" /\ rows[q].product = row.product}}
    BY <1>4 DEF Opened
  <2>2. PICK p \in Pos : /\ rows[p].status = "OPEN" /\ rows[p].product = row.product
                         /\ r = [rows EXCEPT ![p].qty = @ + Signed(row.side, n)]
    BY <2>1
  <2> QED BY <1>2, <1>4, <2>2
<1>5. CASE n # 0 /\ ~\E p \in Pos : rows[p].status = "OPEN" /\ rows[p].product = row.product
  <2>1. PICK p \in Pos : /\ rows[p].status = "NONE"
                         /\ r = [rows EXCEPT ![p] = [status |-> "OPEN", product |-> row.product,
                                                     qty |-> Signed(row.side, n)]]
    BY <1>5 DEF Opened
  <2> QED BY <1>3, <1>5, <2>1
<1> QED BY <1>1, <1>4, <1>5

-----------------------------------------------------------------------------
(* The invariant.                                                          *)

LEMMA InitInv == Init => Inv
<1> SUFFICES ASSUME Init PROVE Inv
  OBVIOUS
<1>1. NoPlan \in Plan /\ NoPos \in PosRow /\ 1 \in 1..LastDay /\ 0 \in 0..LastDay
      /\ 0 \in 0..MaxOrders /\ 0 \in 0..MaxRestarts
  BY BrokerAssumption DEF BrokerAssumption, Plan, NoPlan, NoPos, PosRow, Product
<1>2. BookTypes
  BY <1>1 DEF Init, BookTypes
<1>3. CallTypes
  BY <1>1 DEF Init, CallTypes, Labels
<1>4. EnvTypes
  BY <1>1 DEF Init, EnvTypes
<1>5. Hands /\ Known /\ Planned /\ NeverShort
  BY <1>1 DEF Init, Hands, Known, Planned, NeverShort, NoPos
<1> QED BY <1>2, <1>3, <1>4, <1>5 DEF Inv, TypeOK

LEMMA Nulls == NoPlan \in Plan
BY DEF NoPlan, Plan

\* place and square_off hand an order over.
LEMMA AcceptInv ==
  ASSUME Inv, NEW c \in Caller, NEW row \in OrderRow, NEW q \in Price, Accept(c, row, q)
  PROVE  Inv'
<1> USE DEF Inv, TypeOK
<1>1. /\ issued + 1 \in Id /\ issued + 1 \in 0..MaxOrders /\ at[c] = "idle" /\ q \in Nat
  BY Constants, BrokerAssumption DEF BrokerAssumption, Accept, Begin, EnvTypes
<1>2. \/ /\ \E st \in Status : orders' = [orders EXCEPT ![issued + 1] = [row EXCEPT !.status = st]]
         /\ UNCHANGED <<at, back, job, ltp>>
      \/ /\ at' = [at EXCEPT ![c] = "execute"] /\ back' = [back EXCEPT ![c] = "idle"]
         /\ job' = [job EXCEPT ![c] = <<issued + 1, row>>] /\ ltp' = [ltp EXCEPT ![c] = q]
         /\ UNCHANGED orders
  BY DEF Accept, Execute, Goto, Status
<1>3. /\ issued' = issued + 1
      /\ UNCHANGED <<pos, holdings, traded, fills, todo, lots, plan, settledOn, day, phase, restarts>>
  BY DEF Accept
<1>4. \A st \in Status : [row EXCEPT !.status = st] \in OrderRow
  BY RowTypes
<1>5. BookTypes' /\ \A i \in Id : orders[i] \in OrderRow => orders'[i] \in OrderRow
  BY <1>1, <1>2, <1>3, <1>4 DEF BookTypes
<1>6. CallTypes'
  BY <1>1, <1>2, <1>3 DEF CallTypes, Labels, Item
<1>7. Hands'
  BY <1>1, <1>2, <1>3 DEF Hands, CallTypes, Item
<1>8. Known'
  BY <1>1, <1>2, <1>3, <1>5 DEF Known, Hands, CallTypes, Item
<1>9. Planned' /\ NeverShort' /\ EnvTypes'
  BY <1>1, <1>2, <1>3 DEF Planned, NeverShort, EnvTypes, CallTypes
<1> QED BY <1>5, <1>6, <1>7, <1>8, <1>9

\* Every step keeps the invariant.
LEMMA NextInv == Inv /\ [Next]_vars => Inv'
<1> SUFFICES ASSUME Inv, [Next]_vars PROVE Inv'
  OBVIOUS
<1> USE DEF Inv, TypeOK
<1>1. ASSUME NEW c \in Caller, Decide(c) PROVE Inv'
  <2> DEFINE row == job[c][2]
  <2>0. row \in OrderRow /\ row.product \in Product /\ at[c] = "execute" /\ holdings \in Int
    BY <1>1 DEF Decide, Hands, Item, OrderRow, BookTypes
  <2>1. PICK p \in IF OpenRows(row.product) = {} THEN {0} ELSE OpenRows(row.product) :
          LET held == IF p = 0 THEN 0 ELSE pos[p].qty
              new  == OpeningQty(row, held)
          IN IF \/ Refused(row, held, holdings)
                \/ new > 0 /\ Rate[row.product] * new > Capital - Blocked
             THEN Goto(c, "reject") /\ UNCHANGED plan
             ELSE /\ Goto(c, "book")
                  /\ plan' = [plan EXCEPT ![c] =
                       [pos |-> p, left |-> Remaining(row, held), close |-> ClosingQty(row, held),
                        hold |-> HoldingsQty(row, held, holdings), open |-> new]]
    BY <1>1 DEF Decide
  <2> DEFINE held == IF p = 0 THEN 0 ELSE pos[p].qty
             new == OpeningQty(row, held)
             decided == [pos |-> p, left |-> Remaining(row, held), close |-> ClosingQty(row, held),
                         hold |-> HoldingsQty(row, held, holdings), open |-> new]
  <2>2. /\ p = 0 \/ (p \in Pos /\ pos[p].status = "OPEN" /\ pos[p].product = row.product)
        /\ p \in Pos => p # 0
    BY Constants DEF OpenRows, Pos
  <2>3. held \in Int /\ (row.product \in Delivery => held >= 0)
    BY <2>2 DEF BookTypes, PosRow, NeverShort
  <2>4. decided \in Plan
    BY <2>0, <2>2, <2>3, Split DEF Plan
  <2>5. /\ \/ at' = [at EXCEPT ![c] = "reject"] /\ plan' = plan
           \/ at' = [at EXCEPT ![c] = "book"] /\ plan' = [plan EXCEPT ![c] = decided]
        /\ UNCHANGED <<bookVars, back, todo, lots, job, ltp, envVars>>
    BY <1>1, <2>1 DEF Decide, Goto
  <2>6. CallTypes'
    BY <2>4, <2>5 DEF CallTypes, Labels
  <2>7. /\ decided.close # 0 =>
             /\ decided.pos \in Pos /\ pos[decided.pos].status # "NONE"
             /\ pos[decided.pos].product = row.product
             /\ row.product \in Delivery => decided.left >= 0
        /\ row.product \in Delivery /\ row.side = "SELL" => decided.open = 0
    BY <2>0, <2>2, <2>3, Split DEF OpeningQty
  <2>8. Planned'
    BY <2>5, <2>7 DEF Planned, CallTypes, bookVars
  <2>9. Hands' /\ Known'
    BY <2>0, <2>5 DEF Hands, Known, CallTypes, bookVars
  <2>10. BookTypes' /\ EnvTypes' /\ NeverShort'
    BY <2>5 DEF BookTypes, EnvTypes, NeverShort, bookVars, envVars
  <2> QED BY <2>6, <2>8, <2>9, <2>10 DEF Inv, TypeOK
<1>2. ASSUME NEW c \in Caller, Book(c) PROVE Inv'
  <2> DEFINE row == job[c][2]
             pl  == plan[c]
  <2>0. row \in OrderRow /\ pl \in Plan /\ at[c] = "book" /\ holdings \in Int /\ Covered(pos)
    BY <1>2 DEF Book, Hands, Item, CallTypes, BookTypes, NeverShort, Covered
  <2>1. /\ pl.close # 0 => /\ pl.pos \in Pos /\ pos[pl.pos].status # "NONE"
                           /\ pos[pl.pos].product \in Delivery => pl.left >= 0
        /\ row.product \in Delivery /\ row.side = "SELL" => pl.open = 0
    BY <2>0 DEF Planned
  <2>2. /\ Closed(pos, pl) \in [Pos -> PosRow] /\ Covered(Closed(pos, pl))
        /\ Kept(pos, Closed(pos, pl))
    BY <2>0, <2>1, ClosedRows DEF BookTypes
  <2>3. pos' \in Opened(Closed(pos, pl), row, pl.open) /\ pl.open \in Nat
    BY <1>2, <2>0 DEF Book, Plan
  <2>4. pos' \in [Pos -> PosRow] /\ Covered(pos') /\ Kept(Closed(pos, pl), pos')
    BY <2>0, <2>1, <2>2, <2>3, OpenedRows
  <2>5. Kept(pos, pos')
    BY <2>2, <2>4 DEF Kept
  <2>6. pl.hold \in Nat
    BY <2>0 DEF Plan
  <2>7. holdings' \in Int /\ holdings' >= 0
    BY <1>2, <2>0, <2>6 DEF Book, Larger, NeverShort
  <2>8. NeverShort'
    BY <2>4, <2>7 DEF NeverShort, Covered
  <2>9. BookTypes'
    BY <1>2, <2>4, <2>7 DEF Book, BookTypes
  <2>10. Planned'
    BY <1>2, <2>5 DEF Book, Planned, Kept, Goto, CallTypes
  <2>11. CallTypes' /\ Hands' /\ Known' /\ EnvTypes'
    BY <1>2 DEF Book, CallTypes, Labels, Goto, Hands, Known, EnvTypes, envVars
  <2> QED BY <2>8, <2>9, <2>10, <2>11 DEF Inv, TypeOK
<1>3. ASSUME NEW c \in Caller, Trade(c) PROVE Inv'
  <2>0. /\ job[c] \in Item /\ job[c][1] \in Id /\ job[c][2] \in OrderRow /\ at[c] = "trade"
        /\ Executed(c) \in Nat /\ job[c][2].product \in Product
        /\ Signed(job[c][2].side, Executed(c)) \in Int
    BY <1>3 DEF Trade, Hands, Item, Executed, CallTypes, Plan, OrderRow, Signed
  <2>1. BookTypes'
    BY <1>3, <2>0 DEF Trade, BookTypes, bookVars
  <2>2. CallTypes'
    BY <1>3, <2>0 DEF Trade, CallTypes, Goto, Labels, callVars, Item
  <2>3. EnvTypes'
    BY <1>3, <2>0 DEF Trade, EnvTypes, envVars
  <2>4. Hands'
    BY <1>3, <2>0 DEF Trade, Hands, Goto, CallTypes
  <2>5. Known'
    BY <1>3, <2>0 DEF Trade, Known, Hands, Goto, CallTypes, BookTypes, bookVars
  <2>6. Planned'
    BY <1>3, <2>0 DEF Trade, Planned, Goto, CallTypes, bookVars
  <2>7. NeverShort'
    BY <1>3, <2>0 DEF Trade, NeverShort, bookVars
  <2> QED BY <2>1, <2>2, <2>3, <2>4, <2>5, <2>6, <2>7
<1>4. ASSUME NEW c \in Caller, Complete(c) PROVE Inv'
  <2>0. /\ job[c] \in Item /\ job[c][1] \in Id /\ job[c][2] \in OrderRow /\ at[c] = "complete"
        /\ Executed(c) \in Nat
    BY <1>4 DEF Complete, Hands, Item, Executed, CallTypes, Plan
  <2>00. [job[c][2] EXCEPT !.status = "COMPLETE", !.qty = Executed(c)] \in OrderRow
    BY <2>0, RowTypes DEF Status
  <2>1. BookTypes'
    BY <1>4, <2>0, <2>00 DEF Complete, PutDown, BookTypes, bookVars
  <2>2. CallTypes'
    BY <1>4, <2>0, <2>00, Nulls DEF Complete, PutDown, CallTypes, Goto, Labels, callVars, Item
  <2>3. EnvTypes'
    BY <1>4, <2>0, <2>00 DEF Complete, PutDown, EnvTypes, envVars
  <2>4. Hands'
    BY <1>4, <2>0, <2>00 DEF Complete, PutDown, Hands, Goto, CallTypes
  <2>5. Known'
    BY <1>4, <2>0, <2>00 DEF Complete, PutDown, Known, Hands, Goto, CallTypes, BookTypes, bookVars
  <2>6. Planned'
    BY <1>4, <2>0, <2>00 DEF Complete, PutDown, Planned, Goto, CallTypes, bookVars
  <2>7. NeverShort'
    BY <1>4, <2>0, <2>00 DEF Complete, PutDown, NeverShort, bookVars
  <2> QED BY <2>1, <2>2, <2>3, <2>4, <2>5, <2>6, <2>7
<1>5. ASSUME NEW c \in Caller, Reject(c) PROVE Inv'
  <2>0. job[c] \in Item /\ job[c][1] \in Id /\ job[c][2] \in OrderRow /\ at[c] = "reject"
    BY <1>5 DEF Reject, Hands, Item
  <2>00. [job[c][2] EXCEPT !.status = "REJECTED"] \in OrderRow
    BY <2>0, RowTypes DEF Status
  <2>1. BookTypes'
    BY <1>5, <2>0, <2>00 DEF Reject, PutDown, BookTypes, bookVars
  <2>2. CallTypes'
    BY <1>5, <2>0, <2>00, Nulls DEF Reject, PutDown, CallTypes, Goto, Labels, callVars, Item
  <2>3. EnvTypes'
    BY <1>5, <2>0, <2>00 DEF Reject, PutDown, EnvTypes, envVars
  <2>4. Hands'
    BY <1>5, <2>0, <2>00 DEF Reject, PutDown, Hands, Goto, CallTypes
  <2>5. Known'
    BY <1>5, <2>0, <2>00 DEF Reject, PutDown, Known, Hands, Goto, CallTypes, BookTypes, bookVars
  <2>6. Planned'
    BY <1>5, <2>0, <2>00 DEF Reject, PutDown, Planned, Goto, CallTypes, bookVars
  <2>7. NeverShort'
    BY <1>5, <2>0, <2>00 DEF Reject, PutDown, NeverShort, bookVars
  <2> QED BY <2>1, <2>2, <2>3, <2>4, <2>5, <2>6, <2>7
<1>6. ASSUME NEW c \in Caller, Place(c) PROVE Inv'
  <2>1. PICK t \in Ticket, q \in Price : Accept(c, Row(t), q)
    BY <1>6 DEF Place
  <2>2. t \in Request /\ 1..MaxShares \subseteq Nat
    BY BrokerAssumption DEF BrokerAssumption
  <2>3. Row(t) \in OrderRow
    BY <2>2 DEF Row, OrderRow, Request, Status
  <2> QED BY <2>1, <2>3, AcceptInv
<1>7. ASSUME NEW c \in Caller, Exit(c) PROVE Inv'
  <2>1. PICK p \in AllOpen, q \in Price :
          \E m \in 1..Abs(pos[p].qty) : Accept(c, CloseOrder(pos[p], m), q)
    BY <1>7 DEF Exit
  <2>2. PICK m \in 1..Abs(pos[p].qty) : Accept(c, CloseOrder(pos[p], m), q)
    BY <2>1
  <2>3. pos[p] \in PosRow /\ m \in Nat
    BY DEF AllOpen, BookTypes, PosRow, Abs
  <2>4. CloseOrder(pos[p], m) \in OrderRow
    BY <2>3, CloseOrderType
  <2> QED BY <2>2, <2>4, AcceptInv
<1>8. ASSUME NEW c \in Caller, Modify(c) PROVE Inv'
  <2>0. \A i \in Resting : i \in Id /\ orders[i] \in OrderRow
    BY DEF Resting, OpenStatuses, BookTypes, NoOrder
  <2>00. \A i \in Resting, t \in Ticket, q \in Price :
           Rearmed(Amended(orders[i], t), q) \in OrderRow
    <3> SUFFICES ASSUME NEW i \in Resting, NEW t \in Ticket, NEW q \in Price
                 PROVE  Rearmed(Amended(orders[i], t), q) \in OrderRow
      OBVIOUS
    <3>1. t \in Request /\ 1..MaxShares \subseteq Nat
      BY BrokerAssumption DEF BrokerAssumption
    <3>2. Amended(orders[i], t) \in OrderRow
      BY <2>0, <3>1 DEF Amended, OrderRow, Request
    <3> QED BY <3>2 DEF Rearmed, OrderRow, Status
  <2>1. BookTypes'
    BY <1>8, <2>0, <2>00 DEF Modify, Begin, BookTypes, bookVars
  <2>2. CallTypes'
    BY <1>8, <2>0, <2>00 DEF Modify, Begin, CallTypes, Goto, Labels, callVars, Item
  <2>3. EnvTypes'
    BY <1>8, <2>0, <2>00 DEF Modify, Begin, EnvTypes, envVars
  <2>4. Hands'
    BY <1>8, <2>0, <2>00 DEF Modify, Begin, Hands, Goto, CallTypes, Item
  <2>5. Known'
    BY <1>8, <2>0, <2>00 DEF Modify, Begin, Known, Hands, Goto, CallTypes, BookTypes, bookVars
  <2>6. Planned'
    BY <1>8, <2>0, <2>00 DEF Modify, Begin, Planned, Goto, CallTypes, bookVars
  <2>7. NeverShort'
    BY <1>8, <2>0, <2>00 DEF Modify, Begin, NeverShort, bookVars
  <2> QED BY <2>1, <2>2, <2>3, <2>4, <2>5, <2>6, <2>7
<1>9. ASSUME NEW c \in Caller, Modified(c) PROVE Inv'
  <2>0. job[c] \in Item /\ job[c][1] \in Id /\ job[c][2] \in OrderRow /\ at[c] = "modify"
    BY <1>9 DEF Modified, Hands, Item
  <2>1. BookTypes'
    BY <1>9, <2>0 DEF Modified, PutDown, BookTypes, bookVars
  <2>2. CallTypes'
    BY <1>9, <2>0, Nulls DEF Modified, PutDown, CallTypes, Goto, Labels, callVars, Item
  <2>3. EnvTypes'
    BY <1>9, <2>0 DEF Modified, PutDown, EnvTypes, envVars
  <2>4. Hands'
    BY <1>9, <2>0 DEF Modified, PutDown, Hands, Goto, CallTypes
  <2>5. Known'
    BY <1>9, <2>0 DEF Modified, PutDown, Known, Hands, Goto, CallTypes, BookTypes, bookVars
  <2>6. Planned'
    BY <1>9, <2>0 DEF Modified, PutDown, Planned, Goto, CallTypes, bookVars
  <2>7. NeverShort'
    BY <1>9, <2>0 DEF Modified, PutDown, NeverShort, bookVars
  <2> QED BY <2>1, <2>2, <2>3, <2>4, <2>5, <2>6, <2>7
<1>10. ASSUME NEW c \in Caller, Cancel(c) PROVE Inv'
  <2>0. \A i \in Resting : i \in Id /\ orders[i] \in OrderRow
    BY DEF Resting, OpenStatuses, BookTypes, NoOrder
  <2>1. BookTypes'
    BY <1>10, <2>0 DEF Cancel, Begin, BookTypes, bookVars
  <2>2. CallTypes'
    BY <1>10, <2>0 DEF Cancel, Begin, CallTypes, Goto, Labels, callVars, Item
  <2>3. EnvTypes'
    BY <1>10, <2>0 DEF Cancel, Begin, EnvTypes, envVars
  <2>4. Hands'
    BY <1>10, <2>0 DEF Cancel, Begin, Hands, Goto, CallTypes, Item
  <2>5. Known'
    BY <1>10, <2>0 DEF Cancel, Begin, Known, Hands, Goto, CallTypes, BookTypes, bookVars
  <2>6. Planned'
    BY <1>10, <2>0 DEF Cancel, Begin, Planned, Goto, CallTypes, bookVars
  <2>7. NeverShort'
    BY <1>10, <2>0 DEF Cancel, Begin, NeverShort, bookVars
  <2> QED BY <2>1, <2>2, <2>3, <2>4, <2>5, <2>6, <2>7
<1>11. ASSUME NEW c \in Caller, Cancelled(c) PROVE Inv'
  <2>0. job[c] \in Item /\ job[c][1] \in Id /\ orders[job[c][1]] \in OrderRow /\ at[c] = "cancel"
    BY <1>11 DEF Cancelled, Hands, Known, Item
  <2>00. [orders[job[c][1]] EXCEPT !.status = "CANCELLED"] \in OrderRow
    BY <2>0, RowTypes DEF Status
  <2>1. BookTypes'
    BY <1>11, <2>0, <2>00 DEF Cancelled, PutDown, BookTypes, bookVars
  <2>2. CallTypes'
    BY <1>11, <2>0, <2>00, Nulls DEF Cancelled, PutDown, CallTypes, Goto, Labels, callVars, Item
  <2>3. EnvTypes'
    BY <1>11, <2>0, <2>00 DEF Cancelled, PutDown, EnvTypes, envVars
  <2>4. Hands'
    BY <1>11, <2>0, <2>00 DEF Cancelled, PutDown, Hands, Goto, CallTypes
  <2>5. Known'
    BY <1>11, <2>0, <2>00 DEF Cancelled, PutDown, Known, Hands, Goto, CallTypes, BookTypes,
       bookVars
  <2>6. Planned'
    BY <1>11, <2>0, <2>00 DEF Cancelled, PutDown, Planned, Goto, CallTypes, bookVars
  <2>7. NeverShort'
    BY <1>11, <2>0, <2>00 DEF Cancelled, PutDown, NeverShort, bookVars
  <2> QED BY <2>1, <2>2, <2>3, <2>4, <2>5, <2>6, <2>7
<1>12. ASSUME NEW c \in Caller, Tick(c) PROVE Inv'
  <2>0. \A i \in Resting : i \in Id /\ orders[i] \in OrderRow
    BY DEF Resting, OpenStatuses, BookTypes, NoOrder
  <2>00. \A q \in Price : q \in Nat
    BY BrokerAssumption DEF BrokerAssumption
  <2>1. BookTypes'
    BY <1>12, <2>0, <2>00 DEF Tick, Begin, BookTypes, bookVars
  <2>2. CallTypes'
    BY <1>12, <2>0, <2>00 DEF Tick, Begin, CallTypes, Goto, Labels, callVars, Item
  <2>3. EnvTypes'
    BY <1>12, <2>0, <2>00 DEF Tick, Begin, EnvTypes, envVars
  <2>4. Hands'
    BY <1>12, <2>0, <2>00 DEF Tick, Begin, Hands, Goto, CallTypes
  <2>5. Known'
    BY <1>12, <2>0, <2>00 DEF Tick, Begin, Known, Hands, Goto, CallTypes, BookTypes, bookVars
  <2>6. Planned'
    BY <1>12, <2>0, <2>00 DEF Tick, Begin, Planned, Goto, CallTypes, bookVars
  <2>7. NeverShort'
    BY <1>12, <2>0, <2>00 DEF Tick, Begin, NeverShort, bookVars
  <2> QED BY <2>1, <2>2, <2>3, <2>4, <2>5, <2>6, <2>7
<1>13. ASSUME NEW c \in Caller, Sweep(c) PROVE Inv'
  <2>0. PICK it \in todo[c] :
          LET row   == [it[2] EXCEPT !.status = "PENDING"]
              armed == it[2].status = "PENDING" \/ Triggered(it[2], ltp[c])
          IN
          /\ todo' = [todo EXCEPT ![c] = @ \ {it}]
          /\ IF ltp[c] # 0 /\ armed /\ it[2].status = "TRIGGER_PENDING"
             THEN orders' = [orders EXCEPT ![it[1]].status = "PENDING"]
             ELSE UNCHANGED orders
          /\ IF ltp[c] # 0 /\ armed /\ Marketable(row, ltp[c])
             THEN Execute(c, it[1], row, "tick")
             ELSE UNCHANGED <<at, back, job>>
    BY <1>13 DEF Sweep
  <2> DEFINE row == [it[2] EXCEPT !.status = "PENDING"]
  <2>02. it \in Item /\ at[c] = "tick" /\ orders[it[1]] \in OrderRow
    BY <1>13 DEF Sweep, CallTypes, Known
  <2>01. /\ it \in Item /\ it[1] \in Id /\ row \in OrderRow /\ <<it[1], row>> \in Item
         /\ orders[it[1]] \in OrderRow
         /\ [orders[it[1]] EXCEPT !.status = "PENDING"] \in OrderRow /\ at[c] = "tick"
    BY <2>02, RowTypes DEF Item, Status
  <2>00. /\ todo' = [todo EXCEPT ![c] = @ \ {it}]
         /\ orders' \in {orders, [orders EXCEPT ![it[1]].status = "PENDING"]}
         /\ \/ /\ at' = [at EXCEPT ![c] = "execute"] /\ back' = [back EXCEPT ![c] = "tick"]
               /\ job' = [job EXCEPT ![c] = <<it[1], row>>]
            \/ UNCHANGED <<at, back, job>>
         /\ UNCHANGED <<pos, holdings, traded, fills, lots, plan, ltp, envVars>>
    BY <1>13, <2>0 DEF Sweep, Execute, Goto
  <2>03. \A i \in Id : orders[i] \in OrderRow => orders'[i] \in OrderRow
    BY <2>01, <2>00 DEF BookTypes
  <2>1. BookTypes'
    BY <2>01, <2>00 DEF BookTypes, bookVars
  <2>2. CallTypes'
    <3>1. /\ at' \in [Caller -> Labels] /\ back' \in [Caller -> {"idle", "tick", "squareoff"}]
      BY <2>00 DEF CallTypes, Labels
    <3>2. todo' \in [Caller -> SUBSET Item]
      BY <2>00 DEF CallTypes
    <3>3. job' \in [Caller -> Item \cup {NoItem}]
      BY <2>01, <2>00 DEF CallTypes
    <3>. QED
      BY <2>00, <3>1, <3>2, <3>3 DEF CallTypes
  <2>3. EnvTypes'
    BY <2>01, <2>00 DEF EnvTypes, envVars
  <2>4. Hands'
    BY <2>01, <2>00 DEF Hands, Goto, CallTypes
  <2>5. Known'
    <3> SUFFICES ASSUME NEW d \in Caller
                 PROVE  /\ at'[d] = "tick" \/ back'[d] = "tick" =>
                             \A x \in todo'[d] : orders'[x[1]] \in OrderRow
                        /\ at'[d] = "cancel" => orders'[job'[d][1]] \in OrderRow
      BY DEF Known
    <3>1. /\ \A x \in todo[d] : x[1] \in Id
          /\ at[d] = "cancel" => job[d][1] \in Id
      BY DEF CallTypes, Hands, Item
    <3>2. CASE d = c
      BY <2>00, <2>01, <2>03, <3>1, <3>2 DEF Known, CallTypes
    <3>3. CASE d # c
      <4>1. /\ todo'[d] = todo[d] /\ at'[d] = at[d] /\ back'[d] = back[d] /\ job'[d] = job[d]
        BY <2>00, <2>01, <2>03, <3>3 DEF CallTypes
      <4> QED BY <2>00, <2>01, <2>03, <3>1, <4>1 DEF Known
    <3> QED BY <3>2, <3>3
  <2>6. Planned'
    BY <2>01, <2>00 DEF Planned, Goto, CallTypes, bookVars
  <2>7. NeverShort'
    BY <2>01, <2>00 DEF NeverShort, bookVars
  <2> QED BY <2>1, <2>2, <2>3, <2>4, <2>5, <2>6, <2>7
<1>14. ASSUME NEW c \in Caller, Expire(c) PROVE Inv'
  <2>0. \A i \in Resting : i \in Id /\ orders[i] \in OrderRow
    BY DEF Resting, OpenStatuses, BookTypes, NoOrder
  <2>00. /\ \A i \in Resting : [orders[i] EXCEPT !.status = "EXPIRED"] \in OrderRow
         /\ \A p \in Pos : <<AutoId(p), CloseOrder(pos[p], Abs(pos[p].qty))>> \in Item
    <3>1. \A p \in Pos : pos[p] \in PosRow /\ Abs(pos[p].qty) \in Nat
      BY DEF BookTypes, PosRow, Abs
    <3> QED BY <2>0, <3>1, RowTypes, CloseOrderType, Constants DEF Status, Item
  <2>01. /\ at[c] = "tick" /\ back[c] = "idle" /\ at' = [at EXCEPT ![c] = "squareoff"]
         /\ \A i \in Id : orders[i] \in OrderRow => orders'[i] \in OrderRow
         /\ \A d \in Caller \ {c} : todo'[d] = todo[d] /\ at'[d] = at[d]
         /\ UNCHANGED <<back, job>>
    BY <1>14, <2>00 DEF Expire, Goto, Hands, CallTypes
  <2>1. BookTypes'
    BY <1>14, <2>0, <2>01, <2>00 DEF Expire, BookTypes, bookVars
  <2>2. CallTypes'
    BY <1>14, <2>0, <2>01, <2>00 DEF Expire, CallTypes, Goto, Labels, callVars, Item, SquareOffs,
       OpenRows
  <2>3. EnvTypes'
    BY <1>14, <2>0, <2>01, <2>00 DEF Expire, EnvTypes, envVars
  <2>4. Hands'
    BY <1>14, <2>0, <2>01, <2>00 DEF Expire, Hands, Goto, CallTypes
  <2>5. Known'
    <3> SUFFICES ASSUME NEW d \in Caller
                 PROVE  /\ at'[d] = "tick" \/ back'[d] = "tick" =>
                             \A x \in todo'[d] : orders'[x[1]] \in OrderRow
                        /\ at'[d] = "cancel" => orders'[job'[d][1]] \in OrderRow
      BY DEF Known
    <3>1. /\ \A x \in todo[d] : x[1] \in Id
          /\ at[d] = "cancel" => job[d][1] \in Id
      BY DEF CallTypes, Hands, Item
    <3>2. CASE d = c
      BY <2>01, <3>1, <3>2 DEF Known, CallTypes
    <3>3. CASE d # c
      <4>1. /\ todo'[d] = todo[d] /\ at'[d] = at[d] /\ back'[d] = back[d] /\ job'[d] = job[d]
        BY <2>01, <3>3 DEF CallTypes
      <4> QED BY <2>01, <3>1, <4>1 DEF Known
    <3> QED BY <3>2, <3>3
  <2>6. Planned'
    BY <1>14, <2>0, <2>01, <2>00 DEF Expire, Planned, Goto, CallTypes, bookVars
  <2>7. NeverShort'
    BY <1>14, <2>0, <2>01, <2>00 DEF Expire, NeverShort, bookVars
  <2> QED BY <2>1, <2>2, <2>3, <2>4, <2>5, <2>6, <2>7
<1>15. ASSUME NEW c \in Caller, SquareOff(c) PROVE Inv'
  <2>0. PICK it \in todo[c], q \in Price :
          /\ todo' = [todo EXCEPT ![c] = @ \ {it}]
          /\ IF q # 0 THEN Execute(c, it[1], it[2], "squareoff") ELSE UNCHANGED <<at, back, job>>
    BY <1>15 DEF SquareOff
  <2>00. /\ it \in Item /\ <<it[1], it[2]>> \in Item /\ at[c] = "squareoff"
         /\ \/ /\ at' = [at EXCEPT ![c] = "execute"] /\ back' = [back EXCEPT ![c] = "squareoff"]
               /\ job' = [job EXCEPT ![c] = <<it[1], it[2]>>]
            \/ UNCHANGED <<at, back, job>>
         /\ UNCHANGED <<bookVars, lots, plan, ltp, envVars>>
    BY <1>15, <2>0 DEF SquareOff, Execute, Goto, CallTypes, Item
  <2>1. BookTypes'
    BY <2>0, <2>00 DEF BookTypes, bookVars
  <2>2. CallTypes'
    BY <2>0, <2>00 DEF CallTypes, Goto, Labels, callVars, Item
  <2>3. EnvTypes'
    BY <2>0, <2>00 DEF EnvTypes, envVars
  <2>4. Hands'
    BY <2>0, <2>00 DEF Hands, Goto, CallTypes
  <2>5. Known'
    BY <2>0, <2>00 DEF Known, Hands, Goto, CallTypes, BookTypes, bookVars
  <2>6. Planned'
    BY <2>0, <2>00 DEF Planned, Goto, CallTypes, bookVars
  <2>7. NeverShort'
    BY <2>0, <2>00 DEF NeverShort, bookVars
  <2> QED BY <2>1, <2>2, <2>3, <2>4, <2>5, <2>6, <2>7
<1>16. ASSUME NEW c \in Caller, TickDone(c) PROVE Inv'
  <2>1. BookTypes'
    BY <1>16 DEF TickDone, BookTypes, bookVars
  <2>2. CallTypes'
    BY <1>16 DEF TickDone, CallTypes, Goto, Labels, callVars, Item
  <2>3. EnvTypes'
    BY <1>16 DEF TickDone, EnvTypes, envVars
  <2>4. Hands'
    BY <1>16 DEF TickDone, Hands, Goto, CallTypes
  <2>5. Known'
    BY <1>16 DEF TickDone, Known, Hands, Goto, CallTypes, BookTypes, bookVars
  <2>6. Planned'
    BY <1>16 DEF TickDone, Planned, Goto, CallTypes, bookVars
  <2>7. NeverShort'
    BY <1>16 DEF TickDone, NeverShort, bookVars
  <2> QED BY <2>1, <2>2, <2>3, <2>4, <2>5, <2>6, <2>7
<1>17. ASSUME NEW c \in Caller, SettleCall(c) PROVE Inv'
  <2>1. BookTypes'
    BY <1>17 DEF SettleCall, Begin, BookTypes, bookVars
  <2>2. CallTypes'
    BY <1>17 DEF SettleCall, Begin, CallTypes, Goto, Labels, callVars, Item
  <2>3. EnvTypes'
    BY <1>17 DEF SettleCall, Begin, EnvTypes, envVars
  <2>4. Hands'
    BY <1>17 DEF SettleCall, Begin, Hands, Goto, CallTypes
  <2>5. Known'
    BY <1>17 DEF SettleCall, Begin, Known, Hands, Goto, CallTypes, BookTypes, bookVars
  <2>6. Planned'
    BY <1>17 DEF SettleCall, Begin, Planned, Goto, CallTypes, bookVars
  <2>7. NeverShort'
    BY <1>17 DEF SettleCall, Begin, NeverShort, bookVars
  <2> QED BY <2>1, <2>2, <2>3, <2>4, <2>5, <2>6, <2>7
<1>18. ASSUME NEW c \in Caller, Settle(c) PROVE Inv'
  <2>0. \A p \in OpenRows("CNC") : p \in Pos /\ (pos[p].qty > 0 => pos[p].qty \in Nat)
    BY DEF OpenRows, BookTypes, PosRow
  <2>1. BookTypes'
    BY <1>18, <2>0 DEF Settle, BookTypes, bookVars
  <2>2. CallTypes'
    BY <1>18, <2>0 DEF Settle, CallTypes, Goto, Labels, callVars, Item
  <2>3. EnvTypes'
    BY <1>18, <2>0 DEF Settle, EnvTypes, envVars
  <2>4. Hands'
    BY <1>18, <2>0 DEF Settle, Hands, Goto, CallTypes
  <2>5. Known'
    BY <1>18, <2>0 DEF Settle, Known, Hands, Goto, CallTypes, BookTypes, bookVars
  <2>6. Planned'
    BY <1>18, <2>0 DEF Settle, Planned, Goto, CallTypes, bookVars
  <2>7. NeverShort'
    BY <1>18, <2>0 DEF Settle, NeverShort, bookVars
  <2> QED BY <2>1, <2>2, <2>3, <2>4, <2>5, <2>6, <2>7
<1>19. ASSUME NEW c \in Caller, SettleHold(c) PROVE Inv'
  <2> DEFINE taken(lot) == [pos |-> lot[1], left |-> lot[2], close |-> 0, hold |-> 0, open |-> 0]
  <2>0. PICK lot \in lots[c] :
          /\ lots' = [lots EXCEPT ![c] = @ \ {lot}] /\ holdings' = holdings + lot[2]
          /\ plan' = [plan EXCEPT ![c] = taken(lot)]
    BY <1>19 DEF SettleHold
  <2>00. lot[1] \in Pos /\ lot[2] \in Nat /\ taken(lot) \in Plan
    BY DEF CallTypes, Plan
  <2>1. BookTypes'
    BY <1>19, <2>0, <2>00 DEF SettleHold, BookTypes, bookVars
  <2>2. CallTypes'
    BY <1>19, <2>0, <2>00 DEF SettleHold, CallTypes, Goto, Labels, callVars, Item
  <2>3. EnvTypes'
    BY <1>19, <2>0, <2>00 DEF SettleHold, EnvTypes, envVars
  <2>4. Hands'
    BY <1>19, <2>0, <2>00 DEF SettleHold, Hands, Goto, CallTypes
  <2>5. Known'
    BY <1>19, <2>0, <2>00 DEF SettleHold, Known, Hands, Goto, CallTypes, BookTypes, bookVars
  <2>6. Planned'
    BY <1>19, <2>0, <2>00 DEF SettleHold, Planned, Goto, CallTypes, bookVars
  <2>7. NeverShort'
    BY <1>19, <2>0, <2>00 DEF SettleHold, NeverShort, bookVars, BookTypes
  <2> QED BY <2>1, <2>2, <2>3, <2>4, <2>5, <2>6, <2>7
<1>20. ASSUME NEW c \in Caller, SettleMark(c) PROVE Inv'
  <2>0. plan[c].pos \in Pos /\ at[c] = "mark" /\ NoPlan \in Plan
    BY <1>20 DEF SettleMark, Planned, Plan, NoPlan
  <2>1. BookTypes'
    BY <1>20, <2>0 DEF SettleMark, BookTypes, bookVars, PosRow
  <2>2. CallTypes'
    BY <1>20, <2>0 DEF SettleMark, CallTypes, Goto, Labels, callVars, Item
  <2>3. EnvTypes'
    BY <1>20, <2>0 DEF SettleMark, EnvTypes, envVars
  <2>4. Hands'
    BY <1>20, <2>0 DEF SettleMark, Hands, Goto, CallTypes
  <2>5. Known'
    BY <1>20, <2>0 DEF SettleMark, Known, Hands, Goto, CallTypes, BookTypes, bookVars
  <2>6. Planned'
    BY <1>20, <2>0 DEF SettleMark, Planned, Goto, CallTypes, bookVars
  <2>7. NeverShort'
    BY <1>20, <2>0 DEF SettleMark, NeverShort, bookVars
  <2> QED BY <2>1, <2>2, <2>3, <2>4, <2>5, <2>6, <2>7
<1>21. ASSUME NEW c \in Caller, SettleDone(c) PROVE Inv'
  <2>1. BookTypes'
    BY <1>21 DEF SettleDone, BookTypes, bookVars
  <2>2. CallTypes'
    BY <1>21 DEF SettleDone, CallTypes, Goto, Labels, callVars, Item
  <2>3. EnvTypes'
    BY <1>21 DEF SettleDone, EnvTypes, envVars
  <2>4. Hands'
    BY <1>21 DEF SettleDone, Hands, Goto, CallTypes
  <2>5. Known'
    BY <1>21 DEF SettleDone, Known, Hands, Goto, CallTypes, BookTypes, bookVars
  <2>6. Planned'
    BY <1>21 DEF SettleDone, Planned, Goto, CallTypes, bookVars
  <2>7. NeverShort'
    BY <1>21 DEF SettleDone, NeverShort, bookVars
  <2> QED BY <2>1, <2>2, <2>3, <2>4, <2>5, <2>6, <2>7
<1>22. CASE Advance
  <2>0. LastDay \in Nat /\ MaxRestarts \in Nat
    BY BrokerAssumption DEF BrokerAssumption
  <2>1. BookTypes'
    BY <1>22, <2>0 DEF Advance, Clock, bookVars, callVars, BookTypes
  <2>2. CallTypes'
    BY <1>22, <2>0 DEF Advance, Clock, bookVars, callVars, CallTypes, Goto, Labels
  <2>3. EnvTypes'
    BY <1>22, <2>0 DEF Advance, Clock, bookVars, callVars, EnvTypes
  <2>4. Hands'
    BY <1>22, <2>0 DEF Advance, Clock, bookVars, callVars, Hands, Goto, CallTypes
  <2>5. Known'
    BY <1>22, <2>0 DEF Advance, Clock, bookVars, callVars, Known, Hands, Goto, CallTypes,
       BookTypes
  <2>6. Planned'
    BY <1>22, <2>0 DEF Advance, Clock, bookVars, callVars, Planned, Goto, CallTypes
  <2>7. NeverShort'
    BY <1>22, <2>0 DEF Advance, Clock, bookVars, callVars, NeverShort
  <2> QED BY <2>1, <2>2, <2>3, <2>4, <2>5, <2>6, <2>7
<1>23. CASE Restart
  <2>0. NoPlan \in Plan /\ LastDay \in Nat /\ MaxRestarts \in Nat
    BY Nulls, BrokerAssumption DEF BrokerAssumption
  <2>1. BookTypes'
    BY <1>23, <2>0 DEF Restart, bookVars, BookTypes
  <2>2. CallTypes'
    BY <1>23, <2>0 DEF Restart, bookVars, CallTypes, Goto, Labels
  <2>3. EnvTypes'
    BY <1>23, <2>0 DEF Restart, bookVars, EnvTypes
  <2>4. Hands'
    BY <1>23, <2>0 DEF Restart, bookVars, Hands, Goto, CallTypes
  <2>5. Known'
    BY <1>23, <2>0 DEF Restart, bookVars, Known, Hands, Goto, CallTypes, BookTypes
  <2>6. Planned'
    BY <1>23, <2>0 DEF Restart, bookVars, Planned, Goto, CallTypes
  <2>7. NeverShort'
    BY <1>23, <2>0 DEF Restart, bookVars, NeverShort
  <2> QED BY <2>1, <2>2, <2>3, <2>4, <2>5, <2>6, <2>7
<1>24. CASE UNCHANGED vars
  <2>1. BookTypes'
    BY <1>24 DEF vars, bookVars, callVars, envVars, BookTypes
  <2>2. CallTypes'
    BY <1>24 DEF vars, bookVars, callVars, envVars, CallTypes, Goto, Labels
  <2>3. EnvTypes'
    BY <1>24 DEF vars, bookVars, callVars, envVars, EnvTypes
  <2>4. Hands'
    BY <1>24 DEF vars, bookVars, callVars, envVars, Hands, Goto, CallTypes
  <2>5. Known'
    BY <1>24 DEF vars, bookVars, callVars, envVars, Known, Hands, Goto, CallTypes, BookTypes
  <2>6. Planned'
    BY <1>24 DEF vars, bookVars, callVars, envVars, Planned, Goto, CallTypes
  <2>7. NeverShort'
    BY <1>24 DEF vars, bookVars, callVars, envVars, NeverShort
  <2> QED BY <2>1, <2>2, <2>3, <2>4, <2>5, <2>6, <2>7
<1> QED BY <1>1, <1>2, <1>3, <1>4, <1>5, <1>6, <1>7, <1>8, <1>9, <1>10, <1>11, <1>12, <1>13,
   <1>14, <1>15, <1>16, <1>17, <1>18, <1>19, <1>20, <1>21, <1>22, <1>23, <1>24 DEF Next, Fill,
   Desk, Engine, Settling

\* The broker's collections and its calls are of the shape the code gives them.
THEOREM BrokerTypes == Spec => []TypeOK
<1>1. Init => Inv
  BY InitInv
<1>2. Inv /\ [Next]_vars => Inv'
  BY NextInv
<1>3. Inv => TypeOK
  BY DEF Inv
<1> QED BY <1>1, <1>2, <1>3, PTL DEF Spec

\* However calls overlap and whenever the process stops, no CNC or MTF position
\* and no holding is ever short (orders.py:13-17), for every set of callers,
\* tickets, prices and bounds.
THEOREM DeliveryNeverShort == Spec => []NeverShort
<1>1. Init => Inv
  BY InitInv
<1>2. Inv /\ [Next]_vars => Inv'
  BY NextInv
<1>3. Inv => NeverShort
  BY DEF Inv
<1> QED BY <1>1, <1>2, <1>3, PTL DEF Spec

-----------------------------------------------------------------------------
(* One call at a time.                                                     *)

\* A call ends before the next one begins: without it the promises below are broken (the
\* runs paper_overlap and paper_cancel). The process may still stop between any two steps.
Serial == ~Overlap

Working == {"execute", "reject", "book", "trade", "complete"}

Solo == \A c, d \in Caller : at[c] # "idle" /\ at[d] # "idle" => c = d

\* A product has one open row, and the row holds shares.
Tidy(rows) ==
  /\ \A p, q \in Pos :
       rows[p].status = "OPEN" /\ rows[q].status = "OPEN" /\ rows[p].product = rows[q].product => p = q
  /\ \A p \in Pos : rows[p].status = "OPEN" => rows[p].qty # 0

Rows == Tidy(pos)

\* The ids not given out have no order, nor has the square-off of a row that may still need it.
Sheet ==
  /\ \A i \in Resting : i <= issued /\ orders[i].qty >= 1
  /\ \A i \in Order : i > issued => orders[i] = NoOrder
  /\ \A p \in Pos : pos[p].status \in {"NONE", "OPEN"} => orders[AutoId(p)] = NoOrder

\* The order in hand has not ended, and what is being amended rests.
InHand ==
  \A c \in Caller :
    /\ at[c] \in Working => /\ orders[job[c][1]].status \in OpenStatuses \cup {"NONE"}
                            /\ job[c][2].qty >= 1
                            /\ back[c] # "squareoff" => job[c][1] <= issued
    /\ at[c] \in {"modify", "cancel"} => job[c][1] \in Resting
    /\ at[c] = "modify" => job[c][2].qty >= 1 /\ job[c][2].status \in OpenStatuses
    /\ at[c] \in {"trade", "complete"} => Executed(c) >= 1

\* A sweep's snapshot is what the orders still are.
Swept ==
  \A c \in Caller : at[c] = "tick" \/ back[c] = "tick" =>
    \A it \in todo[c] : /\ it[1] \in Resting /\ it[2] = orders[it[1]]
                        /\ back[c] = "tick" => job[c][1] # it[1]

\* The square-off has every intraday row before it and closes all of it; what is past
\* the close no longer rests.
Flattening ==
  \A c \in Caller :
    /\ at[c] = "squareoff" => todo[c] \subseteq SquareOffs
    /\ at[c] = "squareoff" /\ PastSquareOff /\ ltp[c] # 0 => todo[c] = SquareOffs
    /\ back[c] = "squareoff" =>
         /\ todo[c] = {} /\ at[c] # "reject"
         /\ at[c] \in {"execute", "book"} => job[c] \in SquareOffs
         /\ at[c] \in {"trade", "complete"} =>
              SquareOffs = {} /\ \E p \in Pos : job[c][1] = AutoId(p) /\ pos[p].status = "CLOSED"
    /\ "squareoff" \in {at[c], back[c]} /\ PastClose =>
         \A i \in Resting : orders[i].validity # "DAY"

\* A settlement goes through the row as it is.
Lots ==
  \A c \in Caller :
    /\ at[c] = "lots" => \A lot \in lots[c] : lot[1] \in OpenRows("CNC") /\ pos[lot[1]].qty = lot[2]
    /\ at[c] = "mark" => /\ lots[c] = {} /\ plan[c].pos \in OpenRows("CNC")
                         /\ pos[plan[c].pos].qty = plan[c].left

\* What execute decides of a row.
HeldIn(p) == IF p = 0 THEN 0 ELSE pos[p].qty
Decided(row, p) ==
  [pos |-> p, left |-> Remaining(row, HeldIn(p)), close |-> ClosingQty(row, HeldIn(p)),
   hold |-> HoldingsQty(row, HeldIn(p), holdings), open |-> OpeningQty(row, HeldIn(p))]

ClosesInto(pr) == IF OpenRows(pr) = {} THEN {0} ELSE OpenRows(pr)

\* The plan is still for the books as they are, and paid for.
Ready ==
  \A c \in Caller : at[c] = "book" =>
    /\ \E p \in ClosesInto(job[c][2].product) :
         ~Refused(job[c][2], HeldIn(p), holdings) /\ plan[c] = Decided(job[c][2], p)
    /\ plan[c].open > 0 => Rate[job[c][2].product] * plan[c].open <= Capital - Blocked

\* The trades explain the books, but for the one being written, until the process stops.
Explained ==
  restarts = 0 => \A pr \in Product :
    /\ (\A c \in Caller : ~(at[c] = "trade" /\ job[c][2].product = pr)) => Shares(pr) = traded[pr]
    /\ \A c \in Caller : at[c] = "trade" /\ job[c][2].product = pr =>
         Shares(pr) = traded[pr] + Signed(job[c][2].side, Executed(c))

\* An order has one trade row once it is complete, or about to be, until the process stops.
Filled ==
  restarts = 0 => \A i \in Id :
    fills[i] = IF \/ orders[i].status = "COMPLETE"
                  \/ \E c \in Caller : at[c] = "complete" /\ job[c][1] = i THEN 1 ELSE 0

\* The inductive invariant of a broker that is called one call at a time.
Calm == Solo /\ Rows /\ Sheet /\ InHand /\ Swept /\ Flattening /\ Lots /\ Ready /\ Explained /\ Filled
        /\ WithinCapital

-----------------------------------------------------------------------------
(* Shares and margin of the rows.                                          *)

Weight(r, pr) == IF r.status = "OPEN" /\ r.product = pr THEN r.qty ELSE 0
Charge(r)     == IF r.status = "OPEN" THEN Rate[r.product] * Abs(r.qty) ELSE 0
Net(rows, pr) == SumFunctionOnSet([p \in Pos |-> Weight(rows[p], pr)], Pos)
Margin(rows)  == SumFunctionOnSet([p \in Pos |-> Charge(rows[p])], Pos)

LEMMA Magnitudes ==
  ASSUME NEW k \in Nat, NEW a \in Int, NEW b \in Int
  PROVE  /\ Abs(a) \in Nat /\ k * Abs(a) \in Nat
         /\ Abs(a) <= Abs(b) => k * Abs(a) <= k * Abs(b)
         /\ k * Abs(a + b) <= k * Abs(a) + k * Abs(b)
<1>1. Abs(a) \in Nat /\ Abs(b) \in Nat /\ Abs(a + b) \in Nat /\ Abs(a + b) <= Abs(a) + Abs(b)
  BY DEF Abs
<1>2. \A x, y \in Nat : k * x \in Nat /\ (x <= y => k * x <= k * y) /\ k * (x + y) = k * x + k * y
  OBVIOUS
<1>. QED
  BY <1>1, <1>2

LEMMA RowValues ==
  ASSUME NEW r \in PosRow, NEW pr \in Product
  PROVE  Weight(r, pr) \in Int /\ Charge(r) \in Nat
<1>1. r.qty \in Int /\ r.product \in Product /\ Rate[r.product] \in Nat
  BY BrokerAssumption DEF PosRow, BrokerAssumption
<1>. QED
  BY <1>1, Magnitudes DEF Weight, Charge

LEMMA FinitePos == IsFiniteSet(Pos)
BY BrokerAssumption, FS_Interval DEF Pos, BrokerAssumption

LEMMA SumTypes ==
  ASSUME NEW rows \in [Pos -> PosRow], NEW pr \in Product
  PROVE  Net(rows, pr) \in Int /\ Margin(rows) \in Int
<1> DEFINE w == [p \in Pos |-> Weight(rows[p], pr)]
           m == [p \in Pos |-> Charge(rows[p])]
<1>1. \A p \in Pos : w[p] \in Int /\ m[p] \in Int
  BY RowValues
<1>. HIDE DEF w, m
<1>2. SumFunctionOnSet(w, Pos) \in Int
  BY <1>1, FinitePos, SumType
<1>3. SumFunctionOnSet(m, Pos) \in Int
  BY <1>1, FinitePos, SumType
<1>. QED
  BY <1>2, <1>3 DEF Net, Margin, w, m

\* One row changes.
LEMMA RowChange ==
  ASSUME NEW rows \in [Pos -> PosRow], NEW rows2 \in [Pos -> PosRow], NEW z \in Pos,
         \A p \in Pos \ {z} : rows2[p] = rows[p], NEW pr \in Product
  PROVE  /\ Net(rows2, pr) = Net(rows, pr) - Weight(rows[z], pr) + Weight(rows2[z], pr)
         /\ Margin(rows2) = Margin(rows) - Charge(rows[z]) + Charge(rows2[z])
<1> DEFINE w == [p \in Pos |-> Weight(rows[p], pr)]
           v == [p \in Pos |-> Weight(rows2[p], pr)]
           m == [p \in Pos |-> Charge(rows[p])]
           n == [p \in Pos |-> Charge(rows2[p])]
<1>1. \A p \in Pos : w[p] \in Int /\ v[p] \in Int
  BY RowValues
<1>2. \A p \in Pos : m[p] \in Int /\ n[p] \in Int
  BY RowValues
<1>3. \A p \in Pos \ {z} : v[p] = w[p] /\ n[p] = m[p]
  OBVIOUS
<1>4. /\ w[z] = Weight(rows[z], pr) /\ v[z] = Weight(rows2[z], pr)
      /\ m[z] = Charge(rows[z]) /\ n[z] = Charge(rows2[z])
  OBVIOUS
<1>. HIDE DEF w, v, m, n
<1>5. SumFunctionOnSet(v, Pos) = SumFunctionOnSet(w, Pos) - w[z] + v[z]
  BY <1>1, <1>3, FinitePos, SumChange
<1>6. SumFunctionOnSet(n, Pos) = SumFunctionOnSet(m, Pos) - m[z] + n[z]
  BY <1>2, <1>3, FinitePos, SumChange
<1>. QED
  BY <1>4, <1>5, <1>6 DEF Net, Margin, w, v, m, n

\* The sums over the open rows are sums over all rows.
LEMMA OpenSums ==
  ASSUME NEW rows \in [Pos -> PosRow], NEW pr \in Product
  PROVE  /\ SumFunction([p \in {q \in Pos : rows[q].status = "OPEN" /\ rows[q].product = pr} |->
                            rows[p].qty]) = Net(rows, pr)
         /\ SumFunction([p \in {q \in Pos : rows[q].status = "OPEN"} |->
                            Rate[rows[p].product] * Abs(rows[p].qty)]) = Margin(rows)
<1> DEFINE P == {q \in Pos : rows[q].status = "OPEN" /\ rows[q].product = pr}
           Q == {q \in Pos : rows[q].status = "OPEN"}
           f == [p \in P |-> rows[p].qty]
           g == [p \in Q |-> Rate[rows[p].product] * Abs(rows[p].qty)]
           w == [p \in Pos |-> Weight(rows[p], pr)]
           m == [p \in Pos |-> Charge(rows[p])]
<1>1. P \in SUBSET Pos /\ Q \in SUBSET Pos /\ DOMAIN f = P /\ DOMAIN g = Q
  OBVIOUS
<1>2. \A p \in Pos : w[p] \in Int /\ m[p] \in Int
  BY RowValues
<1>3. \A p \in P : w[p] = f[p]
  BY DEF Weight
<1>4. \A p \in Pos \ P : w[p] = 0
  BY DEF Weight
<1>5. \A p \in Q : m[p] = g[p]
  BY DEF Charge
<1>6. \A p \in Pos \ Q : m[p] = 0
  BY DEF Charge
<1>. HIDE DEF P, Q, f, g, w, m
<1>7. \A p \in P : f[p] \in Int /\ w[p] = f[p]
  BY <1>1, <1>2, <1>3
<1>8. SumFunctionOnSet(f, P) = SumFunctionOnSet(w, Pos)
  BY <1>1, <1>4, <1>7, FinitePos, SumPart
<1>9. \A p \in Q : g[p] \in Int /\ m[p] = g[p]
  BY <1>1, <1>2, <1>5
<1>10. SumFunctionOnSet(g, Q) = SumFunctionOnSet(m, Pos)
  BY <1>1, <1>6, <1>9, FinitePos, SumPart
<1>11. SumFunction(f) = Net(rows, pr)
  BY <1>1, <1>8 DEF SumFunction, Net, w
<1>12. SumFunction(g) = Margin(rows)
  BY <1>1, <1>10 DEF SumFunction, Margin, m
<1>. QED
  BY <1>11, <1>12 DEF f, g, P, Q

LEMMA BooksAdd ==
  ASSUME BookTypes
  PROVE  /\ Blocked = Margin(pos)
         /\ \A pr \in Product :
              Shares(pr) = Net(pos, pr) + IF pr = "CNC" THEN holdings - Settled ELSE 0
<1>1. pos \in [Pos -> PosRow] /\ "CNC" \in Product
  BY DEF BookTypes, Product
<1>2. Blocked = Margin(pos)
  BY <1>1, OpenSums DEF Blocked, AllOpen
<1>3. \A pr \in Product : SumFunction([p \in OpenRows(pr) |-> pos[p].qty]) = Net(pos, pr)
  BY <1>1, OpenSums DEF OpenRows
<1>. QED
  BY <1>2, <1>3 DEF Shares

LEMMA BooksWillAdd ==
  ASSUME BookTypes'
  PROVE  /\ Blocked' = Margin(pos')
         /\ \A pr \in Product :
              Shares(pr)' = Net(pos', pr) + IF pr = "CNC" THEN holdings' - Settled' ELSE 0
<1>1. pos' \in [Pos -> PosRow] /\ "CNC" \in Product
  BY DEF BookTypes, Product
<1>2. Blocked' = Margin(pos')
  BY <1>1, OpenSums DEF Blocked, AllOpen
<1>3. \A pr \in Product : SumFunction([p \in OpenRows(pr)' |-> pos'[p].qty]) = Net(pos', pr)
  BY <1>1, OpenSums DEF OpenRows
<1>. QED
  BY <1>2, <1>3 DEF Shares

\* The lot in settlement.
LotCounts ==
  /\ (\A d \in Caller : at[d] # "mark") => Settled = 0
  /\ \A c \in Caller :
       at[c] = "mark" /\ plan[c].left \in Int /\ (\A d \in Caller : at[d] = "mark" => d = c)
         => Settled = plan[c].left

LEMMA OneLot == LotCounts
<1>1. ASSUME \A d \in Caller : at[d] # "mark" PROVE Settled = 0
  <2> DEFINE f == [x \in {d \in Caller : at[d] = "mark"} |-> plan[x].left]
  <2>1. DOMAIN f = {}
    BY <1>1
  <2>. HIDE DEF f
  <2>2. SumFunction(f) = 0
    BY <2>1, SumEmpty DEF SumFunction
  <2>. QED
    BY <2>2 DEF f, Settled
<1>2. ASSUME NEW c \in Caller, at[c] = "mark", plan[c].left \in Int,
             \A d \in Caller : at[d] = "mark" => d = c
      PROVE  Settled = plan[c].left
  <2> DEFINE f == [x \in {d \in Caller : at[d] = "mark"} |-> plan[x].left]
  <2>1. DOMAIN f = {c} /\ f[c] = plan[c].left
    BY <1>2
  <2>. HIDE DEF f
  <2>2. SumFunction(f) = f[c]
    BY <1>2, <2>1, SumOne DEF SumFunction
  <2>. QED
    BY <2>1, <2>2 DEF f, Settled
<1>. QED
  BY <1>1, <1>2 DEF LotCounts

LEMMA OneLotNext == LotCounts'
BY OneLot, PTL

-----------------------------------------------------------------------------
(* What booking an order does to the rows.                                 *)

\* A row is closed or cut down.
LEMMA ClosedSums ==
  ASSUME NEW rows \in [Pos -> PosRow], NEW pl \in Plan, NEW pr \in Product,
         pl.close # 0 => /\ pl.pos \in Pos /\ rows[pl.pos].status = "OPEN"
                         /\ Abs(pl.left) <= Abs(rows[pl.pos].qty)
  PROVE  /\ Closed(rows, pl) \in [Pos -> PosRow]
         /\ Net(Closed(rows, pl), pr) =
              Net(rows, pr) + IF pl.close # 0 /\ rows[pl.pos].product = pr
                              THEN pl.left - rows[pl.pos].qty ELSE 0
         /\ Margin(Closed(rows, pl)) <= Margin(rows)
<1>0. pl.left \in Int /\ Net(rows, pr) \in Int /\ Margin(rows) \in Int
  BY SumTypes DEF Plan
<1>1. CASE pl.close = 0
  BY <1>0, <1>1 DEF Closed
<1>2. CASE pl.close # 0
  <2> DEFINE z == pl.pos
             rows2 == Closed(rows, pl)
  <2>1. /\ z \in Pos /\ rows[z] \in PosRow /\ rows[z].status = "OPEN" /\ rows[z].qty \in Int
        /\ rows[z].product \in Product /\ Abs(pl.left) <= Abs(rows[z].qty)
    BY <1>2 DEF PosRow
  <2>2. /\ rows2 \in [Pos -> PosRow] /\ \A p \in Pos \ {z} : rows2[p] = rows[p]
        /\ rows2[z].product = rows[z].product
        /\ IF pl.left = 0 THEN rows2[z].status = "CLOSED"
                          ELSE rows2[z].status = "OPEN" /\ rows2[z].qty = pl.left
    <3>1. CASE pl.left = 0
      <4>1. rows2 = [rows EXCEPT ![z].status = "CLOSED"]
        BY <1>2, <3>1 DEF Closed
      <4>. QED
        BY <2>1, <3>1, <4>1 DEF PosRow
    <3>2. CASE pl.left # 0
      <4>1. rows2 = [rows EXCEPT ![z].qty = pl.left]
        BY <1>2, <3>2 DEF Closed
      <4>. QED
        BY <1>0, <2>1, <3>2, <4>1 DEF PosRow
    <3>. QED
      BY <3>1, <3>2
  <2>. HIDE DEF rows2, z
  <2>3. /\ Net(rows2, pr) = Net(rows, pr) - Weight(rows[z], pr) + Weight(rows2[z], pr)
        /\ Margin(rows2) = Margin(rows) - Charge(rows[z]) + Charge(rows2[z])
    BY <2>1, <2>2, RowChange
  <2>4. Weight(rows2[z], pr) - Weight(rows[z], pr) =
          IF rows[z].product = pr THEN pl.left - rows[z].qty ELSE 0
    BY <1>0, <2>1, <2>2 DEF Weight
  <2>5. Charge(rows2[z]) <= Charge(rows[z]) /\ Charge(rows2[z]) \in Nat /\ Charge(rows[z]) \in Nat
    <3>1. Rate[rows[z].product] \in Nat
      BY <2>1, BrokerAssumption DEF BrokerAssumption
    <3>2. /\ Rate[rows[z].product] * Abs(pl.left) \in Nat
          /\ Rate[rows[z].product] * Abs(rows[z].qty) \in Nat
          /\ Rate[rows[z].product] * Abs(pl.left) <= Rate[rows[z].product] * Abs(rows[z].qty)
      BY <1>0, <2>1, <3>1, Magnitudes
    <3>. QED
      BY <2>1, <2>2, <3>2 DEF Charge
  <2>6. Weight(rows2[z], pr) \in Int /\ Weight(rows[z], pr) \in Int
    BY <2>1, <2>2, RowValues
  <2>7. Net(rows2, pr) = Net(rows, pr) + IF rows[z].product = pr THEN pl.left - rows[z].qty ELSE 0
    BY <1>0, <2>1, <2>3, <2>4, <2>6
  <2>8. Margin(rows2) <= Margin(rows)
    BY <1>0, <2>3, <2>5
  <2>. QED
    BY <1>2, <2>2, <2>7, <2>8 DEF rows2, z
<1>. QED
  BY <1>1, <1>2

\* Shares are opened, or added to a row.
LEMMA OpenedSums ==
  ASSUME NEW rows \in [Pos -> PosRow], NEW row \in OrderRow, NEW n \in Nat, NEW pr \in Product,
         NEW r \in Opened(rows, row, n)
  PROVE  /\ r \in [Pos -> PosRow]
         /\ Net(r, pr) = Net(rows, pr) + IF row.product = pr THEN Signed(row.side, n) ELSE 0
         /\ Margin(r) <= Margin(rows) + Rate[row.product] * n
<1>0. /\ Net(rows, pr) \in Int /\ Margin(rows) \in Int /\ row.product \in Product
      /\ row.side \in {"BUY", "SELL"} /\ Signed(row.side, n) \in Int /\ Abs(Signed(row.side, n)) = n
      /\ Rate[row.product] \in Nat /\ Rate[row.product] * n \in Nat
  <2>1. row.side \in {"BUY", "SELL"} /\ row.product \in Product
    BY DEF OrderRow
  <2>2. Signed(row.side, n) \in Int /\ Abs(Signed(row.side, n)) = n
    BY <2>1 DEF Signed, Abs
  <2>3. Rate[row.product] \in Nat
    BY <2>1, BrokerAssumption DEF BrokerAssumption
  <2>4. Rate[row.product] * n \in Nat
    BY <2>3
  <2>. QED
    BY <2>1, <2>2, <2>3, <2>4, SumTypes
<1>1. CASE n = 0
  <2>1. r = rows
    BY <1>1 DEF Opened
  <2>2. Signed(row.side, n) = 0
    BY <1>0, <1>1 DEF Signed, Abs
  <2>3. Margin(rows) <= Margin(rows) + Rate[row.product] * n
    BY <1>0
  <2>. QED
    BY <1>0, <2>1, <2>2, <2>3
<1>2. ASSUME NEW z \in Pos, r \in [Pos -> PosRow], \A p \in Pos \ {z} : r[p] = rows[p],
             Weight(r[z], pr) = Weight(rows[z], pr) + (IF row.product = pr THEN Signed(row.side, n) ELSE 0),
             Charge(r[z]) <= Charge(rows[z]) + Rate[row.product] * n
      PROVE  /\ Net(r, pr) = Net(rows, pr) + IF row.product = pr THEN Signed(row.side, n) ELSE 0
             /\ Margin(r) <= Margin(rows) + Rate[row.product] * n
  <2>1. /\ Net(r, pr) = Net(rows, pr) - Weight(rows[z], pr) + Weight(r[z], pr)
        /\ Margin(r) = Margin(rows) - Charge(rows[z]) + Charge(r[z])
    BY <1>2, RowChange
  <2>2. /\ Weight(r[z], pr) \in Int /\ Weight(rows[z], pr) \in Int
        /\ Charge(r[z]) \in Int /\ Charge(rows[z]) \in Int
    BY <1>2, RowValues
  <2>. QED
    BY <1>0, <1>2, <2>1, <2>2
<1>3. ASSUME NEW z \in Pos, rows[z].status = "OPEN", rows[z].product = row.product,
             r = [rows EXCEPT ![z].qty = @ + Signed(row.side, n)]
      PROVE  /\ r \in [Pos -> PosRow] /\ \A p \in Pos \ {z} : r[p] = rows[p]
             /\ Weight(r[z], pr) = Weight(rows[z], pr) + (IF row.product = pr THEN Signed(row.side, n) ELSE 0)
             /\ Charge(r[z]) <= Charge(rows[z]) + Rate[row.product] * n
  <2>1. rows[z] \in PosRow /\ rows[z].qty \in Int
    BY DEF PosRow
  <2>2. /\ r \in [Pos -> PosRow] /\ \A p \in Pos \ {z} : r[p] = rows[p]
        /\ r[z].status = "OPEN" /\ r[z].product = row.product
        /\ r[z].qty = rows[z].qty + Signed(row.side, n)
    BY <1>0, <1>3, <2>1 DEF PosRow
  <2>3. /\ Rate[row.product] * Abs(r[z].qty) <=
             Rate[row.product] * Abs(rows[z].qty) + Rate[row.product] * n
    BY <1>0, <2>1, <2>2, Magnitudes
  <2>4. Charge(r[z]) <= Charge(rows[z]) + Rate[row.product] * n
    BY <1>3, <2>2, <2>3 DEF Charge
  <2>5. Weight(r[z], pr) = Weight(rows[z], pr) + (IF row.product = pr THEN Signed(row.side, n) ELSE 0)
    BY <1>0, <1>3, <2>1, <2>2 DEF Weight
  <2>. QED
    BY <2>2, <2>4, <2>5
<1>4. ASSUME NEW z \in Pos, rows[z].status = "NONE",
             r = [rows EXCEPT ![z] = [status |-> "OPEN", product |-> row.product,
                                      qty |-> Signed(row.side, n)]]
      PROVE  /\ r \in [Pos -> PosRow] /\ \A p \in Pos \ {z} : r[p] = rows[p]
             /\ Weight(r[z], pr) = Weight(rows[z], pr) + (IF row.product = pr THEN Signed(row.side, n) ELSE 0)
             /\ Charge(r[z]) <= Charge(rows[z]) + Rate[row.product] * n
  <2>1. /\ r \in [Pos -> PosRow] /\ \A p \in Pos \ {z} : r[p] = rows[p]
        /\ r[z].status = "OPEN" /\ r[z].product = row.product /\ r[z].qty = Signed(row.side, n)
    BY <1>0, <1>4 DEF PosRow
  <2>2. Charge(rows[z]) = 0 /\ Weight(rows[z], pr) = 0
    BY <1>4 DEF Charge, Weight
  <2>3. Charge(r[z]) = Rate[row.product] * n
    BY <1>0, <2>1 DEF Charge
  <2>4. Weight(r[z], pr) = IF row.product = pr THEN Signed(row.side, n) ELSE 0
    BY <2>1 DEF Weight
  <2>. QED
    BY <1>0, <2>1, <2>2, <2>3, <2>4
<1>5. CASE n # 0
  <2>1. \/ \E z \in Pos : /\ rows[z].status = "OPEN" /\ rows[z].product = row.product
                          /\ r = [rows EXCEPT ![z].qty = @ + Signed(row.side, n)]
        \/ \E z \in Pos : /\ rows[z].status = "NONE"
                          /\ r = [rows EXCEPT ![z] = [status |-> "OPEN", product |-> row.product,
                                                      qty |-> Signed(row.side, n)]]
    BY <1>5 DEF Opened
  <2>. QED
    BY <1>2, <1>3, <1>4, <2>1
<1>. QED
  BY <1>1, <1>5

\* A filled order's split: all of it, or what is there of a delivery sale; it closes or it
\* opens beside nothing, or adds to a row of its own side.
LEMMA SplitSums ==
  ASSUME NEW row \in OrderRow, row.qty >= 1, NEW held \in Int, NEW kept \in Nat,
         ~Refused(row, held, kept)
  PROVE  /\ ClosingQty(row, held) + HoldingsQty(row, held, kept) + OpeningQty(row, held) >= 1
         /\ Remaining(row, held) - held = Signed(row.side, ClosingQty(row, held))
         /\ Abs(Remaining(row, held)) <= Abs(held)
         /\ HoldingsQty(row, held, kept) <= kept
         /\ HoldingsQty(row, held, kept) # 0 => row.product = "CNC" /\ row.side = "SELL"
         /\ ClosingQty(row, held) # 0 => held # 0
         /\ ClosingQty(row, held) # 0 /\ Remaining(row, held) # 0 => OpeningQty(row, held) = 0
         /\ ClosingQty(row, held) = 0 /\ held # 0 => (held > 0 <=> row.side = "BUY")
<1>1. row.qty \in Nat /\ row.side \in {"BUY", "SELL"} /\ "BUY" # "SELL"
  BY DEF OrderRow
<1>2. /\ ClosingQty(row, held) \in 0..row.qty /\ ClosingQty(row, held) <= Abs(held)
      /\ ClosingQty(row, held) # 0 => held # 0 /\ (held > 0) # (row.side = "BUY")
      /\ ClosingQty(row, held) = 0 /\ held # 0 => (held > 0 <=> row.side = "BUY")
      /\ ClosingQty(row, held) # 0 => ClosingQty(row, held) = row.qty \/ ClosingQty(row, held) = Abs(held)
  BY <1>1 DEF ClosingQty, Smaller, Abs
<1>3. /\ HoldingsQty(row, held, kept) \in Nat /\ HoldingsQty(row, held, kept) <= kept
      /\ HoldingsQty(row, held, kept) # 0 => row.product = "CNC" /\ row.side = "SELL"
  BY <1>1, <1>2 DEF HoldingsQty, Smaller, Larger
<1>4. Remaining(row, held) - held = Signed(row.side, ClosingQty(row, held))
  BY <1>1, <1>2 DEF Remaining, Signed
<1>5. Abs(Remaining(row, held)) <= Abs(held)
  BY <1>1, <1>2 DEF Remaining, Signed, Abs
<1>6. ClosingQty(row, held) # 0 /\ Remaining(row, held) # 0 => OpeningQty(row, held) = 0
  BY <1>1, <1>2 DEF Remaining, Signed, Abs, OpeningQty
<1>7. ClosingQty(row, held) + HoldingsQty(row, held, kept) + OpeningQty(row, held) >= 1
  <2>1. OpeningQty(row, held) \in Nat
    BY <1>1, <1>2 DEF OpeningQty
  <2>2. CASE row.product \in Delivery /\ row.side = "SELL"
    <3>1. FilledQty(row, held, kept) # 0
      BY <1>1, <2>2 DEF Refused
    <3>. QED
      BY <1>2, <1>3, <2>1, <3>1 DEF FilledQty
  <2>3. CASE ~(row.product \in Delivery /\ row.side = "SELL")
    BY <1>1, <1>2, <1>3, <2>3 DEF OpeningQty
  <2>. QED
    BY <2>2, <2>3
<1>. QED
  BY <1>2, <1>3, <1>4, <1>5, <1>6, <1>7

\* Where an order closes: the one open row of its product, or nothing.
LEMMA ClosesIntoRow ==
  ASSUME BookTypes, Rows, NEW pr \in Product, NEW p \in ClosesInto(pr)
  PROVE  /\ HeldIn(p) \in Int
         /\ \/ p = 0 /\ OpenRows(pr) = {} /\ HeldIn(p) = 0
            \/ /\ p \in Pos /\ p # 0 /\ pos[p].status = "OPEN" /\ pos[p].product = pr
               /\ HeldIn(p) = pos[p].qty /\ HeldIn(p) # 0 /\ OpenRows(pr) = {p}
<1>1. \A q \in Pos : q # 0 /\ pos[q].qty \in Int
  BY Constants DEF Pos, BookTypes, PosRow
<1>. QED
  BY <1>1 DEF ClosesInto, OpenRows, Rows, Tidy, HeldIn

\* No row comes back.
Older(rows, rows2) ==
  \A p \in Pos : rows2[p].status \in {"NONE", "OPEN"} => rows[p].status \in {"NONE", "OPEN"}

LEMMA ClosedTidy ==
  ASSUME NEW rows \in [Pos -> PosRow], Tidy(rows), NEW pl \in Plan,
         pl.close # 0 => pl.pos \in Pos /\ rows[pl.pos].status = "OPEN"
  PROVE  Tidy(Closed(rows, pl)) /\ Older(rows, Closed(rows, pl))
<1>1. CASE pl.close = 0
  BY <1>1 DEF Closed, Older
<1>2. CASE pl.close # 0 /\ pl.left = 0
  <2>1. Closed(rows, pl) = [rows EXCEPT ![pl.pos].status = "CLOSED"] /\ pl.pos \in Pos
    BY <1>2 DEF Closed
  <2> DEFINE rows2 == Closed(rows, pl)
  <2>2. \A p \in Pos : /\ rows2[p].qty = rows[p].qty /\ rows2[p].product = rows[p].product
                       /\ rows2[p].status = "OPEN" => rows[p].status = "OPEN"
                       /\ rows2[p].status = "NONE" => rows[p].status = "NONE"
    BY <2>1 DEF PosRow
  <2>. HIDE DEF rows2
  <2>3. ASSUME NEW p \in Pos, NEW q \in Pos, rows2[p].status = "OPEN", rows2[q].status = "OPEN",
               rows2[p].product = rows2[q].product
        PROVE  p = q
    <3>1. rows[p].status = "OPEN" /\ rows[q].status = "OPEN" /\ rows[p].product = rows[q].product
      BY <2>2, <2>3
    <3>. QED
      BY <3>1 DEF Tidy
  <2>4. \A p \in Pos : rows2[p].status = "OPEN" => rows2[p].qty # 0
    BY <2>2 DEF Tidy
  <2>5. Older(rows, rows2)
    BY <2>2 DEF Older
  <2>6. Tidy(rows2)
    BY <2>3, <2>4 DEF Tidy
  <2>. QED
    BY <2>5, <2>6 DEF rows2
<1>3. CASE pl.close # 0 /\ pl.left # 0
  <2>1. Closed(rows, pl) = [rows EXCEPT ![pl.pos].qty = pl.left] /\ pl.pos \in Pos
    BY <1>3 DEF Closed
  <2>2. pl.left \in Int
    BY DEF Plan
  <2>. QED
    BY <1>3, <2>1, <2>2 DEF PosRow, Tidy, Older
<1>. QED
  BY <1>1, <1>2, <1>3

LEMMA OpenedTidy ==
  ASSUME NEW rows \in [Pos -> PosRow], Tidy(rows), NEW row \in OrderRow, NEW n \in Nat,
         \A p \in Pos : n # 0 /\ rows[p].status = "OPEN" /\ rows[p].product = row.product =>
           rows[p].qty + Signed(row.side, n) # 0,
         NEW r \in Opened(rows, row, n)
  PROVE  Tidy(r) /\ Older(rows, r)
<1>0. /\ row.product \in Product /\ row.side \in {"BUY", "SELL"} /\ Signed(row.side, n) \in Int
      /\ n # 0 => Signed(row.side, n) # 0
  BY DEF OrderRow, Signed
<1>1. CASE n = 0
  BY <1>1 DEF Opened, Older
<1>2. ASSUME n # 0, NEW z \in Pos, rows[z].status = "OPEN", rows[z].product = row.product,
             r = [rows EXCEPT ![z].qty = @ + Signed(row.side, n)]
      PROVE  Tidy(r) /\ Older(rows, r)
  <2>1. rows[z] \in PosRow /\ rows[z].qty \in Int /\ rows[z].qty + Signed(row.side, n) # 0
    BY <1>2 DEF PosRow
  <2>2. \A p \in Pos : /\ r[p].status = rows[p].status /\ r[p].product = rows[p].product
                       /\ r[p].qty # 0 \/ (p # z /\ r[p].qty = rows[p].qty)
    BY <1>2, <2>1 DEF PosRow
  <2>. QED
    BY <2>2 DEF Tidy, Older
<1>3. ASSUME n # 0, NEW z \in Pos, rows[z].status = "NONE",
             ~\E p \in Pos : rows[p].status = "OPEN" /\ rows[p].product = row.product,
             r = [rows EXCEPT ![z] = [status |-> "OPEN", product |-> row.product,
                                      qty |-> Signed(row.side, n)]]
      PROVE  Tidy(r) /\ Older(rows, r)
  BY <1>0, <1>3 DEF Tidy, Older
<1>4. CASE n # 0
  <2>1. \/ \E z \in Pos : /\ rows[z].status = "OPEN" /\ rows[z].product = row.product
                          /\ r = [rows EXCEPT ![z].qty = @ + Signed(row.side, n)]
        \/ /\ ~\E x \in Pos : rows[x].status = "OPEN" /\ rows[x].product = row.product
           /\ \E z \in Pos : /\ rows[z].status = "NONE"
                             /\ r = [rows EXCEPT ![z] = [status |-> "OPEN", product |-> row.product,
                                                         qty |-> Signed(row.side, n)]]
    BY <1>4 DEF Opened
  <2>. QED
    BY <1>2, <1>3, <1>4, <2>1
<1>. QED
  BY <1>1, <1>4

\* What booking an order leaves: rows as tidy as before, the shares it traded added, and
\* no more margin than what it opened.
LEMMA Booked ==
  ASSUME BookTypes, Rows, holdings >= 0, NEW row \in OrderRow, row.qty >= 1,
         NEW p \in ClosesInto(row.product), ~Refused(row, HeldIn(p), holdings),
         NEW pl, pl = Decided(row, p), NEW r \in Opened(Closed(pos, pl), row, pl.open)
  PROVE  /\ r \in [Pos -> PosRow] /\ Tidy(r) /\ Older(pos, r)
         /\ \A pr \in Product :
              Net(r, pr) = Net(pos, pr) + IF row.product = pr
                                          THEN Signed(row.side, pl.close + pl.open) ELSE 0
         /\ Margin(r) <= Margin(pos) + Rate[row.product] * pl.open
<1> DEFINE rows == Closed(pos, pl)
           held == HeldIn(p)
<1>1. /\ pl.pos = p /\ pl.left = Remaining(row, held) /\ pl.close = ClosingQty(row, held)
      /\ pl.open = OpeningQty(row, held) /\ pl.hold = HoldingsQty(row, held, holdings)
  BY DEF Decided
<1>2. /\ pos \in [Pos -> PosRow] /\ row.product \in Product /\ row.side \in {"BUY", "SELL"}
      /\ holdings \in Nat
  BY DEF BookTypes, OrderRow
<1>3. /\ held \in Int
      /\ \/ p = 0 /\ OpenRows(row.product) = {} /\ held = 0
         \/ /\ p \in Pos /\ p # 0 /\ pos[p].status = "OPEN" /\ pos[p].product = row.product
            /\ held = pos[p].qty /\ held # 0 /\ OpenRows(row.product) = {p}
  BY <1>2, ClosesIntoRow
<1>4. /\ pl.close \in Nat /\ pl.open \in Nat /\ pl.left \in Int /\ pl.hold \in Nat
      /\ pl.close # 0 => held # 0
      /\ pl.close # 0 /\ pl.left # 0 => pl.open = 0
      /\ pl.close = 0 /\ held # 0 => (held > 0 <=> row.side = "BUY")
      /\ pl.left - held = Signed(row.side, pl.close) /\ Abs(pl.left) <= Abs(held)
  BY <1>1, <1>2, <1>3, Split, SplitSums
<1>5. /\ Signed(row.side, pl.open) \in Int /\ (pl.open # 0 => Signed(row.side, pl.open) # 0)
      /\ row.side = "BUY" => Signed(row.side, pl.open) >= 0
      /\ row.side = "SELL" => Signed(row.side, pl.open) <= 0
      /\ Signed(row.side, pl.close + pl.open) = Signed(row.side, pl.close) + Signed(row.side, pl.open)
      /\ pl.close = 0 => Signed(row.side, pl.close) = 0
      /\ Signed(row.side, pl.close) \in Int
  BY <1>2, <1>4 DEF Signed
<1>6. pl \in Plan /\ pl = Decided(row, p)
  BY <1>3, <1>4 DEF Decided, Plan
<1>. HIDE DEF held
<1>7. pl.close # 0 => /\ pl.pos \in Pos /\ pos[pl.pos].status = "OPEN"
                      /\ pos[pl.pos].product = row.product /\ pos[pl.pos].qty = held
                      /\ Abs(pl.left) <= Abs(pos[pl.pos].qty)
  BY <1>1, <1>3, <1>4
<1>8. Tidy(rows) /\ Older(pos, rows)
  BY <1>2, <1>6, <1>7, ClosedTidy DEF Rows
<1>9. /\ rows \in [Pos -> PosRow] /\ Margin(rows) <= Margin(pos)
      /\ \A pr \in Product :
           Net(rows, pr) = Net(pos, pr) + IF row.product = pr THEN Signed(row.side, pl.close) ELSE 0
  <2>1. \A pr \in Product :
          /\ rows \in [Pos -> PosRow]
          /\ Net(rows, pr) = Net(pos, pr) + IF pl.close # 0 /\ pos[pl.pos].product = pr
                                            THEN pl.left - pos[pl.pos].qty ELSE 0
          /\ Margin(rows) <= Margin(pos)
    BY <1>2, <1>6, <1>7, ClosedSums
  <2>2. \A pr \in Product : (IF pl.close # 0 /\ pos[pl.pos].product = pr THEN pl.left - pos[pl.pos].qty ELSE 0)
                              = IF row.product = pr THEN Signed(row.side, pl.close) ELSE 0
    BY <1>4, <1>5, <1>7
  <2>. QED
    BY <1>2, <2>1, <2>2
<1>10. \A q \in Pos : pl.open # 0 /\ rows[q].status = "OPEN" /\ rows[q].product = row.product =>
         rows[q].qty + Signed(row.side, pl.open) # 0
  <2>. SUFFICES ASSUME NEW q \in Pos, pl.open # 0, rows[q].status = "OPEN", rows[q].product = row.product
                PROVE  rows[q].qty + Signed(row.side, pl.open) # 0
    OBVIOUS
  <2>1. CASE pl.close = 0
    <3>1. rows = pos
      BY <2>1 DEF Closed
    <3>2. q \in OpenRows(row.product)
      BY <3>1 DEF OpenRows
    <3>3. held = pos[q].qty /\ held # 0
      BY <1>3, <3>2
    <3>4. held > 0 <=> row.side = "BUY"
      BY <1>4, <2>1, <3>3
    <3>5. /\ row.side = "BUY" => Signed(row.side, pl.open) > 0
          /\ row.side = "SELL" => Signed(row.side, pl.open) < 0
      BY <1>5
    <3>. QED
      BY <1>2, <1>3, <1>5, <3>1, <3>3, <3>4, <3>5
  <2>2. CASE pl.close # 0
    <3>1. pl.left = 0 /\ rows = [pos EXCEPT ![p].status = "CLOSED"] /\ p \in Pos
      BY <1>1, <1>3, <1>4, <2>2 DEF Closed
    <3>2. rows[q].status = "OPEN" => q # p /\ rows[q] = pos[q]
      BY <1>2, <3>1 DEF PosRow
    <3>3. q \in OpenRows(row.product) /\ q # p
      BY <3>2 DEF OpenRows
    <3>. QED
      BY <1>3, <3>1, <3>3
  <2>. QED
    BY <2>1, <2>2
<1>. HIDE DEF rows
<1>11. r \in Opened(rows, row, pl.open)
  BY DEF rows
<1>12. Tidy(r) /\ Older(rows, r)
  BY <1>4, <1>8, <1>9, <1>10, <1>11, OpenedTidy
<1>13. \A pr \in Product :
         /\ r \in [Pos -> PosRow]
         /\ Net(r, pr) = Net(rows, pr) + IF row.product = pr THEN Signed(row.side, pl.open) ELSE 0
         /\ Margin(r) <= Margin(rows) + Rate[row.product] * pl.open
  BY <1>4, <1>9, <1>11, OpenedSums
<1>14. Older(pos, r)
  BY <1>8, <1>12 DEF Older
<1>15. \A pr \in Product : Net(pos, pr) \in Int /\ Margin(pos) \in Int /\ Margin(rows) \in Int
                           /\ Margin(r) \in Int /\ Rate[row.product] * pl.open \in Int
  <2>1. Rate[row.product] * pl.open \in Int
    BY <1>2, <1>4, BrokerAssumption DEF BrokerAssumption
  <2>. QED
    BY <1>2, <1>9, <1>13, <2>1, SumTypes
<1>16. \A pr \in Product :
         Net(r, pr) = Net(pos, pr) + IF row.product = pr THEN Signed(row.side, pl.close + pl.open) ELSE 0
  <2>. SUFFICES ASSUME NEW pr \in Product
                PROVE  Net(r, pr) = Net(pos, pr) + IF row.product = pr
                                                   THEN Signed(row.side, pl.close + pl.open) ELSE 0
    OBVIOUS
  <2>1. CASE row.product = pr
    BY <1>5, <1>9, <1>13, <1>15, <2>1
  <2>2. CASE row.product # pr
    BY <1>9, <1>13, <1>15, <2>2
  <2>. QED
    BY <2>1, <2>2
<1>17. Margin(r) <= Margin(pos) + Rate[row.product] * pl.open
  BY <1>2, <1>9, <1>13, <1>15
<1>. QED
  BY <1>2, <1>12, <1>13, <1>14, <1>16, <1>17

-----------------------------------------------------------------------------
(* One caller at work.                                                     *)

Quiet(c) == \A d \in Caller : d # c => at[d] = "idle" /\ back[d] = "idle"

LEMMA OnlyOne ==
  ASSUME Inv, Solo, NEW c \in Caller, at[c] # "idle"
  PROVE  Quiet(c)
BY DEF Inv, Hands, Solo, Quiet

LEMMA NoneYet ==
  ASSUME Inv, Serial, NEW c \in Caller, Begin(c)
  PROVE  Quiet(c) /\ at[c] = "idle" /\ back[c] = "idle"
BY DEF Inv, Hands, Serial, Quiet, Begin

LEMMA AutoIds ==
  /\ \A p \in Pos : AutoId(p) \in Id /\ AutoId(p) \notin Order /\ AutoId(p) > MaxOrders
  /\ \A p, q \in Pos : AutoId(p) = AutoId(q) => p = q
BY BrokerAssumption DEF BrokerAssumption, AutoId, Pos, Order, Id

\* What the types say, in the form the steps use.
LEMMA Typed ==
  ASSUME Inv
  PROVE  /\ at \in [Caller -> Labels] /\ back \in [Caller -> {"idle", "tick", "squareoff"}]
         /\ todo \in [Caller -> SUBSET Item] /\ lots \in [Caller -> SUBSET (Pos \X Nat)]
         /\ job \in [Caller -> Item \cup {NoItem}] /\ plan \in [Caller -> Plan] /\ ltp \in [Caller -> Nat]
         /\ orders \in [Id -> OrderRow \cup {NoOrder}] /\ pos \in [Pos -> PosRow]
         /\ holdings \in Nat /\ traded \in [Product -> Int] /\ fills \in [Id -> Nat]
         /\ issued \in 0..MaxOrders /\ MaxOrders \in Nat /\ Order \subseteq Id
         /\ \A i \in Order : i \in Nat
BY BrokerAssumption DEF BrokerAssumption, Inv, TypeOK, CallTypes, BookTypes, EnvTypes, NeverShort, Order, Id

\* Nothing is booked: the rows, the trades' sum and the margin are what they were.
LEMMA Unbooked ==
  ASSUME Inv, Inv', Calm, UNCHANGED restarts, UNCHANGED <<pos, holdings, traded>>,
         \A d \in Caller : at[d] \notin {"mark", "trade"} /\ at'[d] \notin {"mark", "trade"}
  PROVE  /\ Rows' /\ Explained' /\ WithinCapital'
         /\ Blocked' = Blocked /\ AllOpen' = AllOpen /\ SquareOffs' = SquareOffs
         /\ \A pr \in Product : OpenRows(pr)' = OpenRows(pr)
<1>1. Blocked' = Blocked
  <2>1. BookTypes /\ BookTypes' /\ pos' = pos
    BY DEF Inv, TypeOK
  <2>2. Blocked = Margin(pos) /\ Blocked' = Margin(pos')
    BY <2>1, BooksAdd, BooksWillAdd
  <2>. QED
    BY <2>1, <2>2
<1>2. \A pr \in Product : Shares(pr)' = Shares(pr)
  <2>1. BookTypes /\ BookTypes' /\ pos' = pos /\ holdings' = holdings
    BY DEF Inv, TypeOK
  <2>2. Settled = 0 /\ Settled' = 0
    BY OneLot, OneLotNext DEF LotCounts
  <2>3. \A pr \in Product :
          /\ Shares(pr) = Net(pos, pr) + IF pr = "CNC" THEN holdings - Settled ELSE 0
          /\ Shares(pr)' = Net(pos', pr) + IF pr = "CNC" THEN holdings' - Settled' ELSE 0
    BY <2>1, BooksAdd, BooksWillAdd
  <2>. QED
    BY <2>1, <2>2, <2>3
<1>3. Explained'
  BY <1>2 DEF Calm, Explained
<1>4. WithinCapital'
  BY <1>1 DEF Calm, WithinCapital
<1>5. Rows'
  BY DEF Calm, Rows
<1>. QED
  BY <1>1, <1>3, <1>4, <1>5 DEF AllOpen, OpenRows, SquareOffs

LEMMA DecideCalm ==
  ASSUME Inv, Inv', Calm, UNCHANGED restarts, NEW c \in Caller, Decide(c)
  PROVE  Calm'
<1> DEFINE row == job[c][2]
<1>1. /\ at[c] = "execute" /\ job[c] \in Item /\ row \in OrderRow /\ row.qty >= 1 /\ row.product \in Product
      /\ Quiet(c) /\ BookTypes
  BY OnlyOne, Typed DEF Decide, Inv, Hands, Calm, InHand, Item, OrderRow, Working, TypeOK
<1>2. PICK p \in ClosesInto(row.product) :
        /\ IF \/ Refused(row, HeldIn(p), holdings)
              \/ /\ OpeningQty(row, HeldIn(p)) > 0
                 /\ Rate[row.product] * OpeningQty(row, HeldIn(p)) > Capital - Blocked
           THEN Goto(c, "reject") /\ UNCHANGED plan
           ELSE Goto(c, "book") /\ plan' = [plan EXCEPT ![c] = Decided(row, p)]
  BY DEF Decide, ClosesInto, HeldIn, Decided
<1>3. /\ UNCHANGED <<bookVars, back, todo, lots, job, ltp, envVars>>
      /\ \A d \in Caller : d # c => at'[d] = "idle"
      /\ \/ at'[c] = "reject"
            /\ \/ Refused(row, HeldIn(p), holdings)
               \/ OpeningQty(row, HeldIn(p)) > 0
         \/ /\ at'[c] = "book" /\ plan'[c] = Decided(row, p) /\ ~Refused(row, HeldIn(p), holdings)
            /\ OpeningQty(row, HeldIn(p)) > 0 =>
                 ~(Rate[row.product] * OpeningQty(row, HeldIn(p)) > Capital - Blocked)
  BY <1>1, <1>2, Typed DEF Decide, Goto, Quiet
<1>4. /\ Rows' /\ Explained' /\ WithinCapital' /\ Blocked' = Blocked /\ SquareOffs' = SquareOffs
      /\ \A pr \in Product : OpenRows(pr)' = OpenRows(pr)
  <2>1. UNCHANGED <<pos, holdings, traded>>
    BY <1>3 DEF bookVars
  <2>2. \A d \in Caller : at[d] \notin {"mark", "trade"} /\ at'[d] \notin {"mark", "trade"}
    BY <1>1, <1>3 DEF Quiet
  <2>. QED
    BY <2>1, <2>2, Unbooked
<1>5. Solo'
  BY <1>3 DEF Solo
<1>6. Sheet' /\ Filled'
  BY <1>1, <1>3 DEF Calm, Sheet, Filled, Resting, bookVars, envVars, Quiet
<1>7. InHand' /\ Lots' /\ Swept'
  BY <1>1, <1>3 DEF Calm, InHand, Lots, Swept, Resting, bookVars, envVars, Working, Quiet
<1>8. Ready'
  <2>1. CASE at'[c] = "reject"
    BY <1>3, <2>1 DEF Ready
  <2>2. CASE at'[c] # "reject"
    <3>1. /\ at'[c] = "book" /\ plan'[c] = Decided(row, p) /\ ~Refused(row, HeldIn(p), holdings)
          /\ OpeningQty(row, HeldIn(p)) > 0 =>
               ~(Rate[row.product] * OpeningQty(row, HeldIn(p)) > Capital - Blocked)
      BY <1>3, <2>2
    <3>2. plan'[c].open = OpeningQty(row, HeldIn(p))
      BY <3>1 DEF Decided
    <3>3. HeldIn(p) \in Int
      BY <1>1, ClosesIntoRow DEF Calm
    <3>4. plan'[c].open \in Nat
      BY <1>1, <3>2, <3>3, Split, Typed
    <3>5. plan'[c].open > 0 => Rate[row.product] * plan'[c].open <= Capital - Blocked
      <4>1. Rate[row.product] * plan'[c].open \in Int
        BY <1>1, <3>4, BrokerAssumption DEF BrokerAssumption
      <4>2. Blocked \in Int /\ Capital \in Int
        BY <1>1, BooksAdd, SumTypes, Typed, BrokerAssumption DEF BrokerAssumption
      <4>. QED
        BY <3>1, <3>2, <4>1, <4>2
    <3>6. /\ ClosesInto(row.product)' = ClosesInto(row.product) /\ UNCHANGED <<pos, holdings, job>>
          /\ Decided(row, p)' = Decided(row, p) /\ HeldIn(p)' = HeldIn(p)
      BY <1>3 DEF ClosesInto, OpenRows, Decided, HeldIn, bookVars
    <3>7. ASSUME NEW d \in Caller, at'[d] = "book"
          PROVE  d = c
      BY <1>3, <3>7
    <3>8. /\ \E x \in ClosesInto(row.product)' :
               (~Refused(job[c][2], HeldIn(x), holdings) /\ plan[c] = Decided(job[c][2], x))'
          /\ (plan[c].open > 0 => Rate[job[c][2].product] * plan[c].open <= Capital - Blocked)'
      BY <1>4, <3>1, <3>5, <3>6
    <3>9. (\A d \in Caller : at[d] = "book" => d = c)'
      BY <3>7
    <3>. QED
      BY <3>6, <3>8, <3>9 DEF Ready
  <2>. QED
    BY <2>1, <2>2
<1>9. Flattening'
  <2>1. back[c] = "squareoff" => at'[c] = "book"
    <3>. SUFFICES ASSUME back[c] = "squareoff" PROVE at'[c] # "reject"
      BY <1>3
    <3>1. job[c] \in SquareOffs
      BY <1>1 DEF Calm, Flattening
    <3>2. PICK z \in OpenRows("MIS") : job[c] = <<AutoId(z), CloseOrder(pos[z], Abs(pos[z].qty))>>
      BY <3>1 DEF SquareOffs
    <3>3. /\ row.product = "MIS" /\ row.qty = Abs(pos[z].qty) /\ row.side = IF pos[z].qty > 0 THEN "SELL" ELSE "BUY"
      BY <3>2 DEF CloseOrder, OpenRows
    <3>4. HeldIn(p) = pos[z].qty /\ HeldIn(p) \in Int
      BY <1>1, <3>2, <3>3, ClosesIntoRow DEF Calm
    <3>5. OpeningQty(row, HeldIn(p)) = 0
      BY <3>3, <3>4 DEF OpeningQty, ClosingQty, Smaller, Abs, Delivery
    <3>6. ~Refused(row, HeldIn(p), holdings)
      BY <3>3 DEF Refused, Delivery
    <3>. QED
      BY <1>3, <3>5, <3>6
  <2>. QED
    BY <1>1, <1>3, <1>4, <2>1 DEF Calm, Flattening, Resting, PastClose, PastSquareOff, bookVars, envVars, Quiet
<1>. QED
  BY <1>4, <1>5, <1>6, <1>7, <1>8, <1>9 DEF Calm

LEMMA BookCalm ==
  ASSUME Inv, Inv', Calm, UNCHANGED restarts, NEW c \in Caller, Book(c)
  PROVE  Calm'
<1> DEFINE row == job[c][2]
           pl  == plan[c]
<1>1. /\ at[c] = "book" /\ job[c] \in Item /\ row \in OrderRow /\ row.qty >= 1 /\ row.product \in Product
      /\ row.side \in {"BUY", "SELL"} /\ Quiet(c) /\ BookTypes /\ Rows /\ holdings >= 0 /\ pl \in Plan
  BY OnlyOne, Typed DEF Book, Inv, Hands, Calm, InHand, Item, OrderRow, Working, TypeOK, NeverShort
<1>2. PICK p \in ClosesInto(row.product) : ~Refused(row, HeldIn(p), holdings) /\ pl = Decided(row, p)
  BY <1>1 DEF Calm, Ready
<1>3. /\ \A d \in Caller : d # c => at'[d] = "idle"
      /\ at'[c] = "trade" /\ pos' \in Opened(Closed(pos, pl), row, pl.open)
      /\ holdings' = IF pl.hold = 0 THEN holdings ELSE Larger(0, holdings - pl.hold)
      /\ UNCHANGED <<orders, traded, fills, back, todo, lots, job, plan, ltp, envVars>>
  BY <1>1, Typed DEF Book, Goto, Quiet
<1>4. /\ pos' \in [Pos -> PosRow] /\ Tidy(pos') /\ Older(pos, pos')
      /\ \A pr \in Product :
           Net(pos', pr) = Net(pos, pr) + IF row.product = pr
                                          THEN Signed(row.side, pl.close + pl.open) ELSE 0
      /\ Margin(pos') <= Margin(pos) + Rate[row.product] * pl.open
  BY <1>1, <1>2, <1>3, Booked
<1>5. /\ HeldIn(p) \in Int
      /\ \/ p = 0 /\ OpenRows(row.product) = {} /\ HeldIn(p) = 0
         \/ /\ p \in Pos /\ p # 0 /\ pos[p].status = "OPEN" /\ pos[p].product = row.product
            /\ HeldIn(p) = pos[p].qty /\ HeldIn(p) # 0 /\ OpenRows(row.product) = {p}
  BY <1>1, <1>2, ClosesIntoRow
<1>6. /\ pl.close = ClosingQty(row, HeldIn(p)) /\ pl.open = OpeningQty(row, HeldIn(p))
      /\ pl.hold = HoldingsQty(row, HeldIn(p), holdings) /\ pl.left = Remaining(row, HeldIn(p))
      /\ pl.pos = p
  BY <1>2 DEF Decided
<1>7. /\ pl.close \in Nat /\ pl.open \in Nat /\ pl.hold \in Nat /\ Executed(c) >= 1
      /\ pl.hold <= holdings /\ (pl.hold # 0 => row.product = "CNC" /\ row.side = "SELL")
  <2>1. holdings \in Nat
    BY Typed
  <2>. QED
    BY <1>1, <1>2, <1>5, <1>6, <2>1, SplitSums DEF Executed, Plan
<1>8. Solo' /\ Rows'
  BY <1>3, <1>4 DEF Solo, Rows
<1>9. Sheet'
  BY <1>3, <1>4 DEF Calm, Sheet, Resting, envVars, Older
<1>10. Filled'
  BY <1>1, <1>3 DEF Calm, Filled, Quiet
<1>11. InHand' /\ Swept'
  BY <1>1, <1>3, <1>7 DEF Calm, InHand, Swept, Resting, envVars, Working, Quiet, Executed
<1>12. Lots' /\ Ready'
  BY <1>3 DEF Lots, Ready
<1>13. Flattening'
  <2>1. ASSUME back[c] = "squareoff"
        PROVE  SquareOffs' = {} /\ \E z \in Pos : job[c][1] = AutoId(z) /\ pos'[z].status = "CLOSED"
    <3>1. job[c] \in SquareOffs
      BY <1>1, <2>1 DEF Calm, Flattening
    <3>2. PICK z \in OpenRows("MIS") : job[c] = <<AutoId(z), CloseOrder(pos[z], Abs(pos[z].qty))>>
      BY <3>1 DEF SquareOffs
    <3>3. /\ row.product = "MIS" /\ row.qty = Abs(pos[z].qty) /\ row.side = (IF pos[z].qty > 0 THEN "SELL" ELSE "BUY")
          /\ job[c][1] = AutoId(z)
      BY <3>2 DEF CloseOrder, OpenRows
    <3>4. z = p /\ p \in Pos /\ HeldIn(p) = pos[z].qty /\ HeldIn(p) # 0 /\ OpenRows("MIS") = {p}
      BY <1>5, <3>2, <3>3
    <3>5. pl.open = 0 /\ pl.close # 0 /\ pl.left = 0
      BY <1>5, <1>6, <3>3, <3>4 DEF OpeningQty, ClosingQty, Remaining, Signed, Smaller, Abs, Delivery
    <3>6. pos' = [pos EXCEPT ![p].status = "CLOSED"]
      BY <1>3, <1>6, <3>5 DEF Opened, Closed
    <3>7. pos'[p].status = "CLOSED" /\ \A q \in Pos \ {p} : pos'[q] = pos[q]
      BY <3>4, <3>6, Typed DEF PosRow
    <3>8. OpenRows("MIS")' = {}
      BY <3>4, <3>7 DEF OpenRows
    <3>. QED
      BY <3>3, <3>4, <3>7, <3>8 DEF SquareOffs
  <2>. QED
    BY <1>1, <1>3, <2>1 DEF Calm, Flattening, Resting, PastClose, PastSquareOff, envVars, Quiet
<1>14. WithinCapital'
  <2>1. Blocked = Margin(pos) /\ Blocked' = Margin(pos')
    BY <1>1, BooksAdd, BooksWillAdd DEF Inv, TypeOK
  <2>2. Margin(pos) \in Int /\ Margin(pos') \in Int /\ Rate[row.product] \in Nat /\ Capital \in Nat
    BY <1>1, <1>4, Typed, SumTypes, BrokerAssumption DEF BrokerAssumption
  <2>3. Rate[row.product] * pl.open \in Nat
    BY <1>7, <2>2
  <2>4. /\ pl.open > 0 => Rate[row.product] * pl.open <= Capital - Blocked
        /\ Blocked <= Capital
    BY <1>1 DEF Calm, Ready, WithinCapital
  <2>5. CASE pl.open = 0
    <3>1. Rate[row.product] * pl.open = 0
      BY <2>2, <2>5
    <3>. QED
      BY <1>4, <2>1, <2>2, <2>4, <3>1 DEF WithinCapital
  <2>6. CASE pl.open > 0
    BY <1>4, <2>1, <2>2, <2>3, <2>4, <2>6 DEF WithinCapital
  <2>. QED
    BY <1>7, <2>5, <2>6
<1>15. \A pr \in Product :
         Shares(pr)' = Shares(pr) + IF row.product = pr THEN Signed(row.side, Executed(c)) ELSE 0
  <2>. SUFFICES ASSUME NEW pr \in Product
                PROVE  Shares(pr)' = Shares(pr) + IF row.product = pr THEN Signed(row.side, Executed(c)) ELSE 0
    OBVIOUS
  <2>1. Settled = 0 /\ Settled' = 0
    BY <1>1, <1>3, OneLot, OneLotNext DEF LotCounts, Quiet
  <2>2. /\ Shares(pr) = Net(pos, pr) + IF pr = "CNC" THEN holdings - Settled ELSE 0
        /\ Shares(pr)' = Net(pos', pr) + IF pr = "CNC" THEN holdings' - Settled' ELSE 0
    BY <1>1, BooksAdd, BooksWillAdd DEF Inv, TypeOK
  <2>3. Net(pos, pr) \in Int /\ Net(pos', pr) \in Int /\ holdings \in Nat
    BY <1>1, <1>4, Typed, SumTypes
  <2>4. holdings' = holdings - pl.hold
    BY <1>3, <1>7, <2>3 DEF Larger
  <2>5. /\ Executed(c) = pl.close + pl.hold + pl.open
        /\ Signed(row.side, pl.close + pl.open) \in Int
        /\ Signed(row.side, Executed(c)) = Signed(row.side, pl.close + pl.open) - pl.hold
    BY <1>1, <1>7 DEF Executed, Signed
  <2>6. CASE row.product = pr
    <3>1. pr # "CNC" => pl.hold = 0
      BY <1>7, <2>6
    <3>. QED
      BY <1>4, <1>7, <2>1, <2>2, <2>3, <2>4, <2>5, <2>6, <3>1
  <2>7. CASE row.product # pr
    <3>1. pr = "CNC" => pl.hold = 0
      BY <1>7, <2>7
    <3>. QED
      BY <1>4, <2>1, <2>2, <2>3, <2>4, <2>7, <3>1
  <2>. QED
    BY <2>6, <2>7
<1>16. Explained'
  <2>. SUFFICES ASSUME restarts = 0 PROVE Explained'
    BY DEF Explained
  <2>1. \A pr \in Product : Shares(pr) = traded[pr]
    BY <1>1 DEF Calm, Explained, Quiet
  <2>2. Executed(c)' = Executed(c) /\ job' = job /\ traded' = traded
    BY <1>3 DEF Executed
  <2>3. \A pr \in Product : traded[pr] \in Int /\ Signed(row.side, Executed(c)) \in Int
    BY <1>1, <1>7, Typed DEF Executed, Signed
  <2>. SUFFICES ASSUME NEW pr \in Product
                PROVE  /\ (\A d \in Caller : ~(at'[d] = "trade" /\ job'[d][2].product = pr)) =>
                             Shares(pr)' = traded'[pr]
                       /\ \A d \in Caller : at'[d] = "trade" /\ job'[d][2].product = pr =>
                             Shares(pr)' = traded'[pr] + Signed(job'[d][2].side, Executed(d)')
    BY DEF Explained
  <2>4. \A d \in Caller : at'[d] = "trade" => d = c
    BY <1>3
  <2>5. CASE row.product = pr
    BY <1>3, <1>15, <2>1, <2>2, <2>3, <2>4, <2>5
  <2>6. CASE row.product # pr
    BY <1>3, <1>15, <2>1, <2>2, <2>3, <2>4, <2>6
  <2>. QED
    BY <2>5, <2>6
<1>. QED
  BY <1>8, <1>9, <1>10, <1>11, <1>12, <1>13, <1>14, <1>16 DEF Calm

LEMMA TradeCalm ==
  ASSUME Inv, Inv', Calm, UNCHANGED restarts, NEW c \in Caller, Trade(c)
  PROVE  Calm'
<1> DEFINE row == job[c][2]
           i   == job[c][1]
<1>1. /\ at[c] = "trade" /\ job[c] \in Item /\ row \in OrderRow /\ row.product \in Product /\ i \in Id
      /\ row.side \in {"BUY", "SELL"} /\ Quiet(c) /\ BookTypes
  BY OnlyOne, Typed DEF Trade, Inv, Hands, Item, OrderRow, TypeOK, Calm
<1>2. /\ \A d \in Caller : d # c => at'[d] = "idle"
      /\ at'[c] = "complete"
      /\ \A pr \in Product : traded'[pr] = IF pr = row.product THEN traded[pr] + Signed(row.side, Executed(c))
                                                               ELSE traded[pr]
      /\ \A j \in Id : fills'[j] = IF j = i THEN fills[j] + 1 ELSE fills[j]
      /\ UNCHANGED <<orders, pos, holdings, back, todo, lots, job, plan, ltp, envVars>>
  BY <1>1, Typed DEF Trade, Goto, Quiet
<1>3. Solo' /\ Rows' /\ Sheet'
  BY <1>2 DEF Calm, Solo, Rows, Sheet, Resting, envVars
<1>4. InHand' /\ Swept' /\ Lots' /\ Ready'
  BY <1>1, <1>2 DEF Calm, InHand, Swept, Lots, Ready, Resting, envVars, Working, Quiet, Executed
<1>5. Flattening'
  BY <1>1, <1>2 DEF Calm, Flattening, Resting, PastClose, PastSquareOff, envVars, Quiet, SquareOffs, OpenRows
<1>6. Filled'
  <2>1. restarts = 0 => \A j \in Id : fills[j] = IF orders[j].status = "COMPLETE" THEN 1 ELSE 0
    BY <1>1 DEF Calm, Filled, Quiet
  <2>2. orders[i].status # "COMPLETE"
    BY <1>1 DEF Calm, InHand, Working, OpenStatuses
  <2>. QED
    BY <1>1, <1>2, <2>1, <2>2 DEF Filled
<1>7. Blocked' = Blocked /\ \A pr \in Product : Shares(pr)' = Shares(pr)
  <2>1. Settled = 0 /\ Settled' = 0
    BY <1>1, <1>2, OneLot, OneLotNext DEF LotCounts, Quiet
  <2>. QED
    BY <1>1, <1>2, <2>1, BooksAdd, BooksWillAdd DEF Inv, TypeOK
<1>8. Explained' /\ WithinCapital'
  <2>1. restarts = 0 => \A pr \in Product :
          Shares(pr) = traded[pr] + IF pr = row.product THEN Signed(row.side, Executed(c)) ELSE 0
    BY <1>1, Typed DEF Calm, Explained, Quiet
  <2>2. restarts = 0 => \A pr \in Product : Shares(pr)' = traded'[pr]
    BY <1>1, <1>2, <1>7, <2>1, Typed
  <2>. QED
    BY <1>2, <1>7, <2>2 DEF Calm, Explained, WithinCapital
<1>. QED
  BY <1>3, <1>4, <1>5, <1>6, <1>8 DEF Calm

\* The caller puts the order down; what it wrote of it leaves its square-off behind.
LEMMA CompleteCalm ==
  ASSUME Inv, Inv', Calm, UNCHANGED restarts, NEW c \in Caller, Complete(c) \/ Reject(c)
  PROVE  Calm'
<1> DEFINE i == job[c][1]
<1>1. /\ at[c] \in {"complete", "reject"} /\ job[c] \in Item /\ i \in Id /\ job[c][2] \in OrderRow /\ Quiet(c)
      /\ back[c] \in {"idle", "tick", "squareoff"}
  BY OnlyOne, Typed DEF Complete, Reject, Inv, Hands, Item, TypeOK, Calm
<1>2. /\ \A d \in Caller : d # c => at'[d] = "idle" /\ back'[d] = "idle"
      /\ at'[c] = back[c] /\ back'[c] = "idle" /\ UNCHANGED <<pos, holdings, traded, fills, todo, lots, envVars>>
      /\ back[c] # "idle" => ltp' = ltp
      /\ \A j \in Id : j # i => orders'[j] = orders[j]
      /\ orders'[i].status = IF at[c] = "complete" THEN "COMPLETE" ELSE "REJECTED"
  <2>1. /\ PutDown(c) /\ UNCHANGED <<pos, holdings, traded, fills, todo, lots, envVars>>
        /\ \E r : /\ orders' = [orders EXCEPT ![i] = r]
                 /\ r.status = IF at[c] = "complete" THEN "COMPLETE" ELSE "REJECTED"
    <3>1. CASE Complete(c)
      <4> DEFINE r == [job[c][2] EXCEPT !.status = "COMPLETE", !.qty = Executed(c)]
      <4>1. r.status = "COMPLETE" /\ at[c] = "complete" /\ orders' = [orders EXCEPT ![i] = r]
        BY <1>1, <3>1 DEF Complete, OrderRow
      <4>. QED
        BY <3>1, <4>1 DEF Complete
    <3>2. CASE Reject(c)
      <4> DEFINE r == [job[c][2] EXCEPT !.status = "REJECTED"]
      <4>1. r.status = "REJECTED" /\ at[c] = "reject" /\ orders' = [orders EXCEPT ![i] = r]
        BY <1>1, <3>2 DEF Reject, OrderRow
      <4>. QED
        BY <3>2, <4>1 DEF Reject
    <3>. QED
      BY <3>1, <3>2
  <2>2. orders \in [Id -> OrderRow \cup {NoOrder}]
    BY Typed
  <2>3. /\ \A j \in Id : j # i => orders'[j] = orders[j]
        /\ orders'[i].status = IF at[c] = "complete" THEN "COMPLETE" ELSE "REJECTED"
    BY <1>1, <2>1, <2>2
  <2>. QED
    BY <1>1, <2>1, <2>3, Typed DEF PutDown, Goto, Quiet
<1>3. /\ Rows' /\ Explained' /\ WithinCapital' /\ SquareOffs' = SquareOffs
  <2>1. \A d \in Caller : at[d] \notin {"mark", "trade"} /\ at'[d] \notin {"mark", "trade"}
    BY <1>1, <1>2 DEF Quiet
  <2>. QED
    BY <1>2, <2>1, Unbooked
<1>4. Resting' \subseteq Resting \ {i} /\ \A j \in Resting' : orders'[j] = orders[j]
  BY <1>2 DEF Resting, OpenStatuses
<1>5. /\ i \in Order => i <= issued
      /\ \A p \in Pos : i = AutoId(p) => pos[p].status = "CLOSED"
  <2>1. CASE back[c] = "squareoff"
    <3>1. at[c] = "complete"
      BY <1>1, <2>1 DEF Calm, Flattening
    <3>2. \E p \in Pos : job[c][1] = AutoId(p) /\ pos[p].status = "CLOSED"
      BY <3>1, <2>1 DEF Calm, Flattening
    <3>. QED
      BY <3>2, AutoIds
  <2>2. CASE back[c] # "squareoff"
    <3>1. i <= issued
      BY <1>1, <2>2 DEF Calm, InHand, Working
    <3>2. \A p \in Pos : i # AutoId(p)
      BY <1>1, <3>1, AutoIds, Typed DEF Id
    <3>. QED
      BY <3>1, <3>2
  <2>. QED
    BY <2>1, <2>2
<1>6. Solo' /\ Lots' /\ Ready'
  BY <1>1, <1>2 DEF Solo, Lots, Ready
<1>7. Sheet'
  <2>1. \A j \in Order : j > issued => orders'[j] = NoOrder
    BY <1>2, <1>5, Typed DEF Calm, Sheet
  <2>2. \A p \in Pos : pos[p].status \in {"NONE", "OPEN"} => orders'[AutoId(p)] = NoOrder
    BY <1>2, <1>5, AutoIds DEF Calm, Sheet
  <2>. QED
    BY <1>2, <1>4, <2>1, <2>2 DEF Calm, Sheet, envVars
<1>8. InHand'
  BY <1>1, <1>2 DEF InHand, Working
<1>9. Swept'
  <2>1. \A it \in todo[c] : it[1] \in Id
    BY Typed DEF Item
  <2>. QED
    BY <1>1, <1>2, <2>1 DEF Calm, Swept, Resting
<1>10. Flattening'
  <2>1. back[c] = "squareoff" => todo[c] = {} /\ SquareOffs = {}
    BY <1>1 DEF Calm, Flattening
  <2>2. back[c] = "squareoff" /\ PastClose => \A j \in Resting' : orders'[j].validity # "DAY"
    BY <1>4 DEF Calm, Flattening
  <2>. QED
    BY <1>2, <1>3, <2>1, <2>2 DEF Flattening, PastClose, PastSquareOff, envVars
<1>11. Filled'
  <2>1. restarts = 0 =>
          \A j \in Id : fills[j] = IF orders[j].status = "COMPLETE" \/ (at[c] = "complete" /\ j = i) THEN 1 ELSE 0
    BY <1>1 DEF Calm, Filled, Quiet
  <2>2. orders[i].status # "COMPLETE"
    BY <1>1 DEF Calm, InHand, Working, OpenStatuses
  <2>3. \A d \in Caller : at'[d] # "complete"
    BY <1>1, <1>2
  <2>. QED
    BY <1>1, <1>2, <2>1, <2>2, <2>3 DEF Filled
<1>. QED
  BY <1>3, <1>6, <1>7, <1>8, <1>9, <1>10, <1>11 DEF Calm

-----------------------------------------------------------------------------
(* The calls of the API.                                                   *)

\* An order of the API, inserted or handed to execute.
LEMMA AcceptCalm ==
  ASSUME Inv, Inv', Calm, UNCHANGED restarts, Serial, NEW c \in Caller, NEW row \in OrderRow, row.qty >= 1,
         NEW q \in Price, Accept(c, row, q)
  PROVE  Calm'
<1> DEFINE i == issued + 1
<1>1. /\ Quiet(c) /\ at[c] = "idle" /\ back[c] = "idle" /\ i \in Order /\ i \in Id /\ i \in Nat
      /\ orders[i] = NoOrder /\ issued' = i /\ i > issued
  <2>1. Quiet(c) /\ at[c] = "idle" /\ back[c] = "idle" /\ issued < MaxOrders /\ issued' = i
    BY NoneYet DEF Accept
  <2>2. i \in Order /\ i > issued /\ i \in Nat /\ i \in Id
    BY <2>1, Typed DEF Order
  <2>. QED
    BY <2>1, <2>2 DEF Calm, Sheet
<1>2. /\ \A d \in Caller : d # c => at'[d] = "idle" /\ back'[d] = "idle"
      /\ back'[c] = "idle" /\ UNCHANGED <<pos, holdings, traded, fills, todo, lots, plan>>
      /\ \/ /\ at'[c] = "idle"
            /\ \E st \in Status : st # "COMPLETE" /\ orders' = [orders EXCEPT ![i] = [row EXCEPT !.status = st]]
         \/ at'[c] = "execute" /\ job'[c] = <<i, row>> /\ UNCHANGED orders
  BY <1>1, Typed DEF Accept, Execute, Goto, Status, Quiet
<1>3. /\ Rows' /\ Explained' /\ WithinCapital' /\ SquareOffs' = SquareOffs
  <2>1. \A d \in Caller : at[d] \notin {"mark", "trade"} /\ at'[d] \notin {"mark", "trade"}
    BY <1>1, <1>2 DEF Quiet
  <2>. QED
    BY <1>2, <2>1, Unbooked
<1>4. /\ \A j \in Id : j # i => orders'[j] = orders[j]
      /\ orders'[i] = NoOrder \/ orders'[i].qty >= 1
      /\ orders'[i].status # "COMPLETE"
  <2>1. orders \in [Id -> OrderRow \cup {NoOrder}] /\ orders[i].status = "NONE"
    BY <1>1, Typed DEF NoOrder
  <2>2. CASE UNCHANGED orders
    BY <1>1, <2>1, <2>2
  <2>3. ASSUME NEW st \in Status, st # "COMPLETE", orders' = [orders EXCEPT ![i] = [row EXCEPT !.status = st]]
        PROVE  /\ \A j \in Id : j # i => orders'[j] = orders[j]
               /\ orders'[i].qty >= 1 /\ orders'[i].status # "COMPLETE"
    BY <1>1, <2>1, <2>3 DEF OrderRow
  <2>. QED
    BY <1>2, <2>2, <2>3
<1>5. Solo' /\ Swept' /\ Flattening' /\ Lots' /\ Ready'
  BY <1>1, <1>2 DEF Solo, Swept, Flattening, Lots, Ready
<1>6. InHand'
  BY <1>1, <1>2 DEF InHand, Working, NoOrder
<1>7. Sheet'
  <2>1. \A j \in Resting' : j <= i /\ orders'[j].qty >= 1
    BY <1>1, <1>4, Typed DEF Calm, Sheet, Resting, NoOrder, OpenStatuses, Id
  <2>2. \A j \in Order : j > i => orders'[j] = NoOrder
    BY <1>1, <1>4, Typed DEF Calm, Sheet
  <2>3. \A p \in Pos : pos[p].status \in {"NONE", "OPEN"} => orders'[AutoId(p)] = NoOrder
    BY <1>1, <1>4, AutoIds DEF Calm, Sheet
  <2>. QED
    BY <1>1, <1>2, <2>1, <2>2, <2>3 DEF Sheet
<1>8. Filled'
  <2>1. restarts = 0 => \A j \in Id : fills[j] = IF orders[j].status = "COMPLETE" THEN 1 ELSE 0
    BY <1>1 DEF Calm, Filled, Quiet
  <2>2. orders[i].status # "COMPLETE" /\ \A d \in Caller : at'[d] # "complete"
    BY <1>1, <1>2 DEF NoOrder
  <2>. QED
    BY <1>1, <1>2, <1>4, <2>1, <2>2 DEF Filled
<1>. QED
  BY <1>3, <1>5, <1>6, <1>7, <1>8 DEF Calm

LEMMA PlaceCalm ==
  ASSUME Inv, Inv', Calm, UNCHANGED restarts, Serial, NEW c \in Caller, Place(c) \/ Exit(c)
  PROVE  Calm'
<1>1. CASE Place(c)
  <2>1. PICK t \in Ticket, q \in Price : Accept(c, Row(t), q)
    BY <1>1 DEF Place
  <2>2. t \in Request /\ \A m \in 1..MaxShares : m \in Nat /\ m >= 1
    BY BrokerAssumption DEF BrokerAssumption
  <2>3. Row(t) \in OrderRow /\ Row(t).qty >= 1
    BY <2>2 DEF Row, OrderRow, Request, Status
  <2>. QED
    BY <2>1, <2>3, AcceptCalm
<1>2. CASE Exit(c)
  <2>1. PICK p \in AllOpen, q \in Price :
          \E m \in 1..Abs(pos[p].qty) : Accept(c, CloseOrder(pos[p], m), q)
    BY <1>2 DEF Exit
  <2>2. PICK m \in 1..Abs(pos[p].qty) : Accept(c, CloseOrder(pos[p], m), q)
    BY <2>1
  <2>3. pos[p] \in PosRow /\ m \in Nat /\ m >= 1
    BY Typed DEF AllOpen, PosRow, Abs
  <2>4. CloseOrder(pos[p], m) \in OrderRow /\ CloseOrder(pos[p], m).qty >= 1
    BY <2>3, CloseOrderType DEF CloseOrder
  <2>. QED
    BY <2>2, <2>4, AcceptCalm
<1>. QED
  BY <1>1, <1>2

\* modify and cancel read a resting order.
LEMMA ReadCalm ==
  ASSUME Inv, Inv', Calm, UNCHANGED restarts, Serial, NEW c \in Caller, Modify(c) \/ Cancel(c)
  PROVE  Calm'
<1>1. Quiet(c) /\ at[c] = "idle" /\ back[c] = "idle"
  BY NoneYet DEF Modify, Cancel
<1>2. /\ \A d \in Caller : d # c => at'[d] = "idle" /\ back'[d] = "idle"
      /\ at'[c] \in {"modify", "cancel"} /\ back'[c] = "idle"
      /\ UNCHANGED <<bookVars, back, todo, lots, plan, ltp, envVars>>
      /\ job'[c][1] \in Resting
      /\ at'[c] = "modify" => job'[c][2].qty >= 1 /\ job'[c][2].status \in OpenStatuses
  <2>1. CASE Cancel(c)
    <3>1. PICK i \in Resting : job' = [job EXCEPT ![c] = <<i, orders[i]>>]
      BY <2>1 DEF Cancel
    <3>. QED
      BY <1>1, <2>1, <3>1, Typed DEF Cancel, Goto, Quiet
  <2>2. CASE Modify(c)
    <3>1. PICK i \in Resting, t \in Ticket, q \in Price :
            job' = [job EXCEPT ![c] = <<i, Rearmed(Amended(orders[i], t), q)>>]
      BY <2>2 DEF Modify
    <3>2. /\ orders[i] \in OrderRow /\ orders[i].status \in OpenStatuses
      BY Typed DEF Resting, OpenStatuses, NoOrder
    <3>3. t \in Request /\ \A m \in 1..MaxShares : m \in Nat /\ m >= 1
      BY BrokerAssumption DEF BrokerAssumption
    <3>4. /\ Amended(orders[i], t) \in OrderRow /\ Amended(orders[i], t).qty >= 1
          /\ Amended(orders[i], t).status \in OpenStatuses
      BY <3>2, <3>3 DEF Amended, OrderRow, Request
    <3>5. /\ Rearmed(Amended(orders[i], t), q).qty >= 1
          /\ Rearmed(Amended(orders[i], t), q).status \in OpenStatuses
      BY <3>4 DEF Rearmed, OrderRow, OpenStatuses
    <3>. QED
      BY <1>1, <2>2, <3>1, <3>5, Typed DEF Modify, Goto, Quiet
  <2>. QED
    BY <2>1, <2>2
<1>3. /\ Rows' /\ Explained' /\ WithinCapital' /\ SquareOffs' = SquareOffs
  <2>1. \A d \in Caller : at[d] \notin {"mark", "trade"} /\ at'[d] \notin {"mark", "trade"}
    BY <1>1, <1>2 DEF Quiet
  <2>2. UNCHANGED <<pos, holdings, traded>>
    BY <1>2 DEF bookVars
  <2>. QED
    BY <2>1, <2>2, Unbooked
<1>4. Solo' /\ Swept' /\ Flattening' /\ Lots' /\ Ready'
  BY <1>1, <1>2 DEF Solo, Swept, Flattening, Lots, Ready
<1>5. InHand'
  BY <1>1, <1>2 DEF InHand, Working, Resting, bookVars
<1>6. Sheet' /\ Filled'
  BY <1>1, <1>2 DEF Calm, Sheet, Filled, Resting, bookVars, envVars, Quiet
<1>. QED
  BY <1>3, <1>4, <1>5, <1>6 DEF Calm

\* And write it.
LEMMA WriteCalm ==
  ASSUME Inv, Inv', Calm, UNCHANGED restarts, NEW c \in Caller, Modified(c) \/ Cancelled(c)
  PROVE  Calm'
<1> DEFINE i == job[c][1]
<1>1. /\ Quiet(c) /\ at[c] \in {"modify", "cancel"} /\ back[c] = "idle" /\ i \in Resting /\ i \in Id
      /\ job[c] \in Item /\ orders[i] \in OrderRow
  BY OnlyOne, Typed DEF Modified, Cancelled, Inv, Hands, Calm, InHand, Resting, Item, OpenStatuses, NoOrder
<1>2. /\ \A d \in Caller : d # c => at'[d] = "idle" /\ back'[d] = "idle"
      /\ at'[c] = "idle" /\ back'[c] = "idle"
      /\ UNCHANGED <<pos, holdings, traded, fills, todo, lots, envVars>>
  BY <1>1, Typed DEF Modified, Cancelled, PutDown, Goto, Quiet
<1>3. /\ \A j \in Id : j # i => orders'[j] = orders[j]
      /\ orders'[i].status # "CANCELLED" => orders'[i].status \in OpenStatuses /\ orders'[i].qty >= 1
  <2>1. CASE Modified(c)
    <3>1. orders' = [orders EXCEPT ![i] = job[c][2]] /\ at[c] = "modify"
      BY <2>1 DEF Modified
    <3>. QED
      BY <1>1, <3>1, Typed DEF Calm, InHand
  <2>2. CASE Cancelled(c)
    <3>1. orders' = [orders EXCEPT ![i].status = "CANCELLED"]
      BY <2>2 DEF Cancelled
    <3>. QED
      BY <1>1, <3>1, Typed DEF OrderRow
  <2>. QED
    BY <2>1, <2>2
<1>4. /\ Rows' /\ Explained' /\ WithinCapital' /\ SquareOffs' = SquareOffs
  <2>1. \A d \in Caller : at[d] \notin {"mark", "trade"} /\ at'[d] \notin {"mark", "trade"}
    BY <1>1, <1>2 DEF Quiet
  <2>. QED
    BY <1>2, <2>1, Unbooked
<1>5. Solo' /\ Swept' /\ Flattening' /\ Lots' /\ Ready' /\ InHand'
  BY <1>1, <1>2 DEF Solo, Swept, Flattening, Lots, Ready, InHand, Working
<1>6. Sheet'
  <2>1. i <= issued /\ i \in Order /\ orders[i] # NoOrder
    BY <1>1, Typed DEF Calm, Sheet, Resting, OpenStatuses, NoOrder, Id, Order
  <2>2. \A j \in Resting' : j <= issued /\ orders'[j].qty >= 1
    BY <1>1, <1>3, <2>1 DEF Calm, Sheet, Resting, OpenStatuses
  <2>3. \A j \in Order : j > issued => orders'[j] = NoOrder
    BY <1>3, <2>1, Typed DEF Calm, Sheet
  <2>4. \A p \in Pos : pos[p].status \in {"NONE", "OPEN"} => orders'[AutoId(p)] = NoOrder
    BY <1>3, <2>1, AutoIds DEF Calm, Sheet
  <2>. QED
    BY <1>2, <2>2, <2>3, <2>4 DEF Sheet, envVars
<1>7. Filled'
  <2>1. restarts = 0 => \A j \in Id : fills[j] = IF orders[j].status = "COMPLETE" THEN 1 ELSE 0
    BY <1>1 DEF Calm, Filled, Quiet
  <2>2. orders[i].status # "COMPLETE" /\ \A d \in Caller : at'[d] # "complete"
    BY <1>1, <1>2 DEF Resting, OpenStatuses
  <2>. QED
    BY <1>1, <1>2, <1>3, <2>1, <2>2 DEF Filled, OpenStatuses
<1>. QED
  BY <1>4, <1>5, <1>6, <1>7 DEF Calm

-----------------------------------------------------------------------------
(* The engine.                                                             *)

LEMMA TickCalm ==
  ASSUME Inv, Inv', Calm, UNCHANGED restarts, Serial, NEW c \in Caller, Tick(c)
  PROVE  Calm'
<1>1. Quiet(c) /\ at[c] = "idle" /\ back[c] = "idle"
  BY NoneYet DEF Tick
<1>2. /\ \A d \in Caller : d # c => at'[d] = "idle" /\ back'[d] = "idle"
      /\ at'[c] \in {"tick", "settle"} /\ back'[c] = "idle"
      /\ at'[c] = "tick" => todo'[c] = {<<i, orders[i]>> : i \in Resting}
      /\ UNCHANGED <<orders, pos, holdings, traded, fills, issued, phase>>
  BY <1>1, Typed DEF Tick, Goto, Quiet, bookVars, envVars
<1>3. /\ Rows' /\ Explained' /\ WithinCapital' /\ SquareOffs' = SquareOffs
  <2>1. \A d \in Caller : at[d] \notin {"mark", "trade"} /\ at'[d] \notin {"mark", "trade"}
    BY <1>1, <1>2 DEF Quiet
  <2>. QED
    BY <1>2, <2>1, Unbooked
<1>4. Resting' = Resting
  BY <1>2 DEF Resting
<1>5. Solo' /\ InHand' /\ Flattening' /\ Lots' /\ Ready'
  BY <1>1, <1>2 DEF Solo, InHand, Flattening, Lots, Ready, Working
<1>6. Swept'
  BY <1>2, <1>4 DEF Swept
<1>7. Sheet' /\ Filled'
  BY <1>1, <1>2, <1>4 DEF Calm, Sheet, Filled, Quiet
<1>. QED
  BY <1>3, <1>5, <1>6, <1>7 DEF Calm

LEMMA SweepCalm ==
  ASSUME Inv, Inv', Calm, UNCHANGED restarts, NEW c \in Caller, Sweep(c)
  PROVE  Calm'
<1>1. Quiet(c) /\ at[c] = "tick" /\ back[c] = "idle"
  BY OnlyOne DEF Sweep, Calm, Inv, Hands
<1>2. PICK it \in todo[c] :
        /\ todo' = [todo EXCEPT ![c] = @ \ {it}]
        /\ \/ it[2].status = "TRIGGER_PENDING" /\ orders' = [orders EXCEPT ![it[1]].status = "PENDING"]
           \/ UNCHANGED orders
        /\ \/ Execute(c, it[1], [it[2] EXCEPT !.status = "PENDING"], "tick")
           \/ UNCHANGED <<at, back, job>>
  BY DEF Sweep
<1>3. /\ it \in Item /\ it[1] \in Resting /\ it[1] \in Id /\ it[2] = orders[it[1]] /\ orders[it[1]] \in OrderRow
      /\ \A x \in todo[c] : x \in Item /\ x[1] \in Resting /\ x[2] = orders[x[1]]
  BY <1>1, <1>2, Typed DEF Calm, Swept, Item
<1>4. /\ \A d \in Caller : d # c => at'[d] = "idle" /\ back'[d] = "idle"
      /\ todo'[c] = todo[c] \ {it}
      /\ UNCHANGED <<pos, holdings, traded, fills, issued, phase>>
      /\ \/ at'[c] = "tick" /\ back'[c] = "idle"
         \/ /\ at'[c] = "execute" /\ back'[c] = "tick"
            /\ job'[c] = <<it[1], [it[2] EXCEPT !.status = "PENDING"]>>
  BY <1>1, <1>2, Typed DEF Sweep, Execute, Goto, Quiet, envVars
<1>5. /\ \A j \in Id : j # it[1] => orders'[j] = orders[j]
      /\ orders'[it[1]].status \in OpenStatuses /\ orders'[it[1]].qty = orders[it[1]].qty
  <2>1. CASE UNCHANGED orders
    BY <1>3, <2>1 DEF Resting
  <2>2. CASE orders' = [orders EXCEPT ![it[1]].status = "PENDING"]
    BY <1>3, <2>2, Typed DEF OrderRow, OpenStatuses
  <2>. QED
    BY <1>2, <2>1, <2>2
<1>6. /\ Rows' /\ Explained' /\ WithinCapital' /\ SquareOffs' = SquareOffs
  <2>1. \A d \in Caller : at[d] \notin {"mark", "trade"} /\ at'[d] \notin {"mark", "trade"}
    BY <1>1, <1>4 DEF Quiet
  <2>. QED
    BY <1>4, <2>1, Unbooked
<1>7. Resting' = Resting
  BY <1>3, <1>5 DEF Resting
<1>8. Solo' /\ Flattening' /\ Lots' /\ Ready'
  BY <1>1, <1>4 DEF Solo, Flattening, Lots, Ready
<1>9. InHand'
  <2>1. it[1] <= issued /\ orders[it[1]].qty >= 1
    BY <1>3 DEF Calm, Sheet
  <2>2. [it[2] EXCEPT !.status = "PENDING"].qty >= 1
    BY <1>3, <2>1 DEF OrderRow
  <2>. QED
    <3>1. CASE at'[c] = "tick"
      BY <1>4, <3>1 DEF InHand, Working
    <3>2. CASE at'[c] = "execute"
      <4>1. job'[c] = <<it[1], [it[2] EXCEPT !.status = "PENDING"]>>
        BY <1>4, <3>2
      <4>2. job'[c][1] = it[1] /\ job'[c][2].qty >= 1
        <5> DEFINE r == [it[2] EXCEPT !.status = "PENDING"]
        <5>1. r.qty >= 1 /\ job'[c] = <<it[1], r>>
          BY <2>2, <4>1
        <5>. HIDE DEF r
        <5>. QED
          BY <5>1
      <4>3. issued' = issued /\ \A d \in Caller : d # c => at'[d] = "idle"
        BY <1>4
      <4>4. \A d \in Caller : at'[d] \notin {"modify", "cancel", "trade", "complete"}
        BY <3>2, <4>3
      <4>5. \A d \in Caller : at'[d] \in Working => d = c
        BY <4>3 DEF Working
      <4>. QED
        BY <1>5, <2>1, <4>2, <4>3, <4>4, <4>5 DEF InHand
    <3>. QED
      BY <1>4, <3>1, <3>2
<1>10. Swept'
  <2>1. \A x \in todo'[c] : x[1] # it[1]
    BY <1>3, <1>4 DEF Item
  <2>2. \A x \in todo'[c] : x[1] \in Resting' /\ x[2] = orders'[x[1]]
    BY <1>3, <1>4, <1>5, <1>7, <2>1 DEF Item
  <2>. QED
    BY <1>4, <2>1, <2>2 DEF Swept
<1>11. Sheet'
  <2>1. \A j \in Id : orders[j] = NoOrder => orders'[j] = NoOrder
    BY <1>3, <1>5 DEF Resting, OpenStatuses, NoOrder
  <2>2. \A j \in Resting' : j <= issued /\ orders'[j].qty >= 1
    BY <1>3, <1>5, <1>7 DEF Calm, Sheet, Resting
  <2>. QED
    BY <1>4, <2>1, <2>2, AutoIds, Typed DEF Calm, Sheet
<1>12. Filled'
  <2>1. restarts = 0 => \A j \in Id : fills[j] = IF orders[j].status = "COMPLETE" THEN 1 ELSE 0
    BY <1>1 DEF Calm, Filled, Quiet
  <2>2. orders[it[1]].status # "COMPLETE" /\ \A d \in Caller : at'[d] # "complete"
    BY <1>3, <1>4 DEF Resting, OpenStatuses
  <2>. QED
    BY <1>4, <1>5, <2>1, <2>2 DEF Filled, OpenStatuses
<1>. QED
  BY <1>6, <1>8, <1>9, <1>10, <1>11, <1>12 DEF Calm

LEMMA ExpireCalm ==
  ASSUME Inv, Inv', Calm, UNCHANGED restarts, NEW c \in Caller, Expire(c)
  PROVE  Calm'
<1>1. Quiet(c) /\ at[c] = "tick" /\ back[c] = "idle"
  BY OnlyOne DEF Expire, Calm, Inv, Hands
<1>2. /\ \A d \in Caller : d # c => at'[d] = "idle" /\ back'[d] = "idle"
      /\ at'[c] = "squareoff" /\ back'[c] = "idle"
      /\ todo'[c] = IF PastSquareOff THEN SquareOffs ELSE {}
      /\ UNCHANGED <<pos, holdings, traded, fills, issued, phase>>
  BY <1>1, Typed DEF Expire, Goto, Quiet, envVars
<1>3. \A j \in Id : orders'[j] = IF PastClose /\ j \in Resting /\ orders[j].validity = "DAY"
                                 THEN [orders[j] EXCEPT !.status = "EXPIRED"] ELSE orders[j]
  BY DEF Expire
<1>4. \A j \in Id : /\ j \notin Resting => orders'[j] = orders[j]
                    /\ j \in Resting => orders'[j].status # "COMPLETE"
                    /\ j \in Resting' => /\ j \in Resting /\ orders'[j] = orders[j]
                                         /\ PastClose => orders'[j].validity # "DAY"
  <2>. SUFFICES ASSUME NEW j \in Id
                PROVE  /\ j \notin Resting => orders'[j] = orders[j]
                       /\ j \in Resting => orders'[j].status # "COMPLETE"
                       /\ orders'[j].status \in OpenStatuses =>
                            /\ j \in Resting /\ orders'[j] = orders[j]
                            /\ PastClose => orders'[j].validity # "DAY"
    BY DEF Resting
  <2>1. CASE PastClose /\ j \in Resting /\ orders[j].validity = "DAY"
    <3>1. orders[j] \in OrderRow
      BY <2>1, Typed DEF Resting, OpenStatuses, NoOrder
    <3>2. orders'[j].status = "EXPIRED"
      BY <1>3, <2>1, <3>1 DEF OrderRow
    <3>. QED
      BY <2>1, <3>2 DEF OpenStatuses
  <2>2. CASE ~(PastClose /\ j \in Resting /\ orders[j].validity = "DAY")
    BY <1>3, <2>2 DEF Resting, OpenStatuses
  <2>. QED
    BY <2>1, <2>2
<1>5. /\ Rows' /\ Explained' /\ WithinCapital' /\ SquareOffs' = SquareOffs
  <2>1. \A d \in Caller : at[d] \notin {"mark", "trade"} /\ at'[d] \notin {"mark", "trade"}
    BY <1>1, <1>2 DEF Quiet
  <2>. QED
    BY <1>2, <2>1, Unbooked
<1>6. Solo' /\ InHand' /\ Swept' /\ Lots' /\ Ready'
  BY <1>1, <1>2 DEF Solo, InHand, Swept, Lots, Ready, Working
<1>7. Resting' \subseteq Resting
  BY <1>4 DEF Resting
<1>8. Flattening'
  <2>1. PastClose' = PastClose /\ PastSquareOff' = PastSquareOff
    BY <1>2 DEF PastClose, PastSquareOff
  <2>2. PastClose => \A j \in Resting' : orders'[j].validity # "DAY"
    BY <1>4, <1>7 DEF Resting
  <2>. QED
    BY <1>2, <1>5, <2>1, <2>2 DEF Flattening
<1>9. Sheet'
  <2>1. \A j \in Id : orders[j] = NoOrder => orders'[j] = NoOrder
    BY <1>4 DEF Resting, OpenStatuses, NoOrder
  <2>2. \A j \in Resting' : j <= issued /\ orders'[j].qty >= 1
    BY <1>4, <1>7 DEF Calm, Sheet, Resting
  <2>. QED
    BY <1>2, <2>1, <2>2, AutoIds, Typed DEF Calm, Sheet
<1>10. Filled'
  <2>1. restarts = 0 => \A j \in Id : fills[j] = IF orders[j].status = "COMPLETE" THEN 1 ELSE 0
    BY <1>1 DEF Calm, Filled, Quiet
  <2>2. \A j \in Resting : orders[j].status # "COMPLETE"
    BY DEF Resting, OpenStatuses
  <2>3. \A d \in Caller : at'[d] # "complete"
    BY <1>2
  <2>. QED
    BY <1>2, <1>4, <2>1, <2>2, <2>3 DEF Filled
<1>. QED
  BY <1>5, <1>6, <1>8, <1>9, <1>10 DEF Calm

\* A square-off that goes to execute is the only one there is.
LEMMA SquareOffCalm ==
  ASSUME Inv, Inv', Calm, UNCHANGED restarts, NEW c \in Caller, SquareOff(c)
  PROVE  Calm'
<1>1. Quiet(c) /\ at[c] = "squareoff" /\ back[c] = "idle"
  BY OnlyOne DEF SquareOff, Calm, Inv, Hands
<1>2. PICK it \in todo[c], q \in Price :
        /\ ltp[c] # 0 => q = ltp[c]
        /\ todo' = [todo EXCEPT ![c] = @ \ {it}]
        /\ IF q # 0 THEN Execute(c, it[1], it[2], "squareoff") ELSE UNCHANGED <<at, back, job>>
  BY DEF SquareOff
<1>3. it \in SquareOffs /\ todo[c] \subseteq SquareOffs
  BY <1>1, <1>2 DEF Calm, Flattening
<1>4. PICK z \in OpenRows("MIS") : it = <<AutoId(z), CloseOrder(pos[z], Abs(pos[z].qty))>>
  BY <1>3 DEF SquareOffs
<1>5. todo[c] = {it}
  <2>1. \A x \in SquareOffs : x = it
    <3>. SUFFICES ASSUME NEW y \in OpenRows("MIS") PROVE y = z
      BY <1>4 DEF SquareOffs
    <3>. QED
      BY DEF Calm, Rows, Tidy, OpenRows
  <2>. QED
    BY <1>2, <1>3, <2>1
<1>6. /\ \A d \in Caller : d # c => at'[d] = "idle" /\ back'[d] = "idle"
      /\ todo'[c] = {}
      /\ UNCHANGED <<orders, pos, holdings, traded, fills, issued, phase, ltp>>
      /\ \/ at'[c] = "squareoff" /\ back'[c] = "idle" /\ ltp[c] = 0
         \/ at'[c] = "execute" /\ back'[c] = "squareoff" /\ job'[c] = <<it[1], it[2]>>
  BY <1>1, <1>2, <1>5, Typed DEF SquareOff, Execute, Goto, Quiet, envVars, bookVars
<1>7. /\ Rows' /\ Explained' /\ WithinCapital' /\ SquareOffs' = SquareOffs
  <2>1. \A d \in Caller : at[d] \notin {"mark", "trade"} /\ at'[d] \notin {"mark", "trade"}
    BY <1>1, <1>6 DEF Quiet
  <2>. QED
    BY <1>6, <2>1, Unbooked
<1>8. Resting' = Resting
  BY <1>6 DEF Resting
<1>9. Solo' /\ Lots' /\ Ready' /\ Swept'
  BY <1>1, <1>6 DEF Solo, Lots, Ready, Swept
<1>10. InHand'
  <2>1. orders[it[1]].status = "NONE"
    BY <1>4 DEF Calm, Sheet, OpenRows, NoOrder
  <2>2. it[2].qty >= 1
    <3>1. pos[z].qty # 0 /\ pos[z].qty \in Int
      BY Typed DEF Calm, Rows, Tidy, OpenRows, PosRow
    <3>2. it[2].qty = Abs(pos[z].qty)
      BY <1>4 DEF CloseOrder
    <3>. QED
      BY <3>1, <3>2 DEF Abs
  <2>. QED
    BY <1>6, <2>1, <2>2 DEF InHand, Working
<1>11. Flattening'
  <2>1. PastClose' = PastClose /\ PastSquareOff' = PastSquareOff
    BY <1>6 DEF PastClose, PastSquareOff
  <2>2. PastClose => \A j \in Resting : orders[j].validity # "DAY"
    BY <1>1 DEF Calm, Flattening
  <2>3. <<it[1], it[2]>> = it
    BY <1>4
  <2>. QED
    BY <1>3, <1>6, <1>7, <1>8, <2>1, <2>2, <2>3 DEF Flattening
<1>12. Sheet' /\ Filled'
  BY <1>1, <1>6, <1>8 DEF Calm, Sheet, Filled, Quiet
<1>. QED
  BY <1>7, <1>9, <1>10, <1>11, <1>12 DEF Calm

\* A tick ends; a settlement is called, or has run already.
LEMMA PassCalm ==
  ASSUME Inv, Inv', Calm, UNCHANGED restarts, NEW c \in Caller, Quiet(c), back[c] = "idle",
         at[c] \notin {"mark", "trade", "complete"},
         \A d \in Caller : d # c => at'[d] = "idle",
         at'[c] \in {"idle", "settle"}, UNCHANGED <<bookVars, back, issued, phase>>
  PROVE  Calm'
<1>1. /\ UNCHANGED <<orders, pos, holdings, traded, fills>>
      /\ \A d \in Caller : d # c => back'[d] = "idle"
  BY DEF bookVars, Quiet
<1>2. /\ Rows' /\ Explained' /\ WithinCapital' /\ SquareOffs' = SquareOffs
  <2>1. \A d \in Caller : at[d] \notin {"mark", "trade"} /\ at'[d] \notin {"mark", "trade"}
    BY DEF Quiet
  <2>. QED
    BY <1>1, <2>1, Unbooked
<1>3. Solo' /\ InHand' /\ Swept' /\ Flattening' /\ Lots' /\ Ready'
  BY <1>1 DEF Solo, InHand, Swept, Flattening, Lots, Ready, Working
<1>4. Sheet' /\ Filled'
  BY <1>1 DEF Calm, Sheet, Filled, Resting, Quiet
<1>. QED
  BY <1>2, <1>3, <1>4 DEF Calm

LEMMA TickDoneCalm ==
  ASSUME Inv, Inv', Calm, UNCHANGED restarts, NEW c \in Caller, TickDone(c)
  PROVE  Calm'
<1>1. Quiet(c) /\ at[c] = "squareoff" /\ back[c] = "idle"
  BY OnlyOne DEF TickDone, Calm, Inv, Hands
<1>2. /\ \A d \in Caller : d # c => at'[d] = "idle"
      /\ at'[c] \in {"idle", "settle"} /\ UNCHANGED <<bookVars, back, issued, phase>>
  BY <1>1, Typed DEF TickDone, Goto, Quiet, envVars
<1>. QED
  BY <1>1, <1>2, PassCalm

-----------------------------------------------------------------------------
(* Settlement.                                                             *)

LEMMA SettleCalm ==
  ASSUME Inv, Inv', Calm, UNCHANGED restarts, Serial, NEW c \in Caller, SettleCall(c) \/ Settle(c) \/ SettleDone(c)
  PROVE  Calm'
<1>1. CASE SettleCall(c)
  <2>1. Quiet(c) /\ at[c] = "idle" /\ back[c] = "idle"
    BY <1>1, NoneYet DEF SettleCall
  <2>2. /\ \A d \in Caller : d # c => at'[d] = "idle"
        /\ at'[c] = "settle" /\ UNCHANGED <<bookVars, back, issued, phase>>
    BY <1>1, <2>1, Typed DEF SettleCall, Goto, Quiet, envVars
  <2>. QED
    BY <2>1, <2>2, PassCalm
<1>2. CASE SettleDone(c)
  <2>1. Quiet(c) /\ at[c] = "lots" /\ back[c] = "idle"
    BY <1>2, OnlyOne DEF SettleDone, Calm, Inv, Hands
  <2>2. /\ \A d \in Caller : d # c => at'[d] = "idle"
        /\ at'[c] = "idle" /\ UNCHANGED <<bookVars, back, issued, phase>>
    BY <1>2, <2>1, Typed DEF SettleDone, Goto, Quiet
  <2>. QED
    BY <2>1, <2>2, PassCalm
<1>3. CASE Settle(c)
  <2>1. Quiet(c) /\ at[c] = "settle" /\ back[c] = "idle"
    BY <1>3, OnlyOne DEF Settle, Calm, Inv, Hands
  <2>2. CASE settledOn = day
    <3>1. /\ \A d \in Caller : d # c => at'[d] = "idle"
          /\ at'[c] = "idle" /\ UNCHANGED <<bookVars, back, issued, phase>>
      BY <1>3, <2>1, <2>2, Typed DEF Settle, Goto, Quiet, envVars
    <3>. QED
      BY <2>1, <3>1, PassCalm
  <2>3. CASE settledOn # day
    <3>1. /\ \A d \in Caller : d # c => at'[d] = "idle" /\ back'[d] = "idle"
          /\ at'[c] = "lots" /\ back'[c] = "idle"
          /\ lots'[c] = {<<p, pos[p].qty>> : p \in {r \in OpenRows("CNC") : pos[r].qty > 0}}
          /\ UNCHANGED <<orders, pos, holdings, traded, fills, issued, phase>>
      BY <1>3, <2>1, <2>3, Typed DEF Settle, Goto, Quiet, envVars, bookVars
    <3>2. Rows' /\ Explained' /\ WithinCapital' /\ SquareOffs' = SquareOffs /\ OpenRows("CNC")' = OpenRows("CNC")
      <4>1. \A d \in Caller : at[d] \notin {"mark", "trade"} /\ at'[d] \notin {"mark", "trade"}
        BY <2>1, <3>1 DEF Quiet
      <4>. QED
        BY <3>1, <4>1, Unbooked DEF Product
    <3>3. Solo' /\ InHand' /\ Swept' /\ Flattening' /\ Ready'
      BY <3>1 DEF Solo, InHand, Swept, Flattening, Ready, Working
    <3>4. Lots'
      BY <3>1, <3>2 DEF Lots
    <3>5. Sheet' /\ Filled'
      BY <2>1, <3>1 DEF Calm, Sheet, Filled, Resting, Quiet
    <3>. QED
      BY <3>2, <3>3, <3>4, <3>5 DEF Calm
  <2>. QED
    BY <2>2, <2>3
<1>. QED
  BY <1>1, <1>2, <1>3

\* The shares of a lot are in the position and in the holdings, and counted once.
LEMMA SettleHoldCalm ==
  ASSUME Inv, Inv', Calm, UNCHANGED restarts, NEW c \in Caller, SettleHold(c)
  PROVE  Calm'
<1>1. Quiet(c) /\ at[c] = "lots" /\ back[c] = "idle"
  BY OnlyOne DEF SettleHold, Calm, Inv, Hands
<1>2. PICK lot \in lots[c] :
        /\ lots' = [lots EXCEPT ![c] = @ \ {lot}] /\ holdings' = holdings + lot[2]
        /\ plan' = [plan EXCEPT ![c] = [pos |-> lot[1], left |-> lot[2], close |-> 0, hold |-> 0, open |-> 0]]
  BY DEF SettleHold
<1>3. /\ lot \in Pos \X Nat /\ lot[1] \in OpenRows("CNC") /\ pos[lot[1]].qty = lot[2] /\ lot[2] \in Nat
      /\ \A x \in lots[c] : x \in Pos \X Nat /\ x[1] \in OpenRows("CNC") /\ pos[x[1]].qty = x[2]
  BY <1>1, <1>2, Typed DEF Calm, Lots
<1>4. lots[c] = {lot}
  <2>1. \A x \in lots[c] : x[1] = lot[1]
    BY <1>2, <1>3 DEF Calm, Rows, Tidy, OpenRows
  <2>. QED
    BY <1>2, <1>3, <2>1
<1>5. /\ \A d \in Caller : d # c => at'[d] = "idle" /\ back'[d] = "idle"
      /\ at'[c] = "mark" /\ back'[c] = "idle" /\ lots'[c] = {}
      /\ plan'[c].pos = lot[1] /\ plan'[c].left = lot[2]
      /\ UNCHANGED <<orders, pos, traded, fills, issued, phase>>
  BY <1>1, <1>2, <1>4, Typed DEF SettleHold, Goto, Quiet, envVars
<1>6. Blocked' = Blocked /\ \A pr \in Product : Shares(pr)' = Shares(pr)
  <2>1. BookTypes /\ BookTypes' /\ holdings \in Nat
    BY Typed DEF Inv, TypeOK
  <2>2. Settled = 0
    BY <1>1, OneLot DEF LotCounts, Quiet
  <2>3. Settled' = lot[2]
    BY <1>3, <1>5, OneLotNext DEF LotCounts
  <2>4. /\ Blocked = Margin(pos) /\ Blocked' = Margin(pos')
        /\ \A pr \in Product :
             /\ Shares(pr) = Net(pos, pr) + IF pr = "CNC" THEN holdings - Settled ELSE 0
             /\ Shares(pr)' = Net(pos', pr) + IF pr = "CNC" THEN holdings' - Settled' ELSE 0
    BY <2>1, BooksAdd, BooksWillAdd
  <2>5. holdings' - Settled' = holdings - Settled
    BY <1>2, <1>3, <2>1, <2>2, <2>3
  <2>. QED
    BY <1>5, <2>4, <2>5
<1>7. Explained' /\ WithinCapital'
  <2>1. \A d \in Caller : at[d] # "trade" /\ at'[d] # "trade"
    BY <1>1, <1>5 DEF Quiet
  <2>. QED
    BY <1>5, <1>6, <2>1 DEF Calm, Explained, WithinCapital
<1>8. Solo' /\ InHand' /\ Swept' /\ Flattening' /\ Ready'
  BY <1>5 DEF Solo, InHand, Swept, Flattening, Ready, Working
<1>9. Lots'
  BY <1>3, <1>5 DEF Lots, OpenRows
<1>10. Rows' /\ Sheet' /\ Filled'
  BY <1>1, <1>5 DEF Calm, Rows, Sheet, Filled, Resting, Quiet
<1>. QED
  BY <1>7, <1>8, <1>9, <1>10 DEF Calm

LEMMA SettleMarkCalm ==
  ASSUME Inv, Inv', Calm, UNCHANGED restarts, NEW c \in Caller, SettleMark(c)
  PROVE  Calm'
<1> DEFINE z == plan[c].pos
<1>1. /\ Quiet(c) /\ at[c] = "mark" /\ back[c] = "idle" /\ lots[c] = {}
      /\ z \in OpenRows("CNC") /\ z \in Pos /\ pos[z].qty = plan[c].left
      /\ pos[z].status = "OPEN" /\ pos[z].product = "CNC" /\ pos[z].qty \in Int
  BY OnlyOne, Typed DEF SettleMark, Calm, Inv, Hands, Lots, OpenRows, PosRow
<1>2. /\ \A d \in Caller : d # c => at'[d] = "idle" /\ back'[d] = "idle"
      /\ at'[c] = "lots" /\ back'[c] = "idle" /\ lots'[c] = {}
      /\ pos' = [pos EXCEPT ![z].status = "SETTLED"]
      /\ UNCHANGED <<orders, holdings, traded, fills, issued, phase>>
  BY <1>1, Typed DEF SettleMark, Goto, Quiet, envVars
<1>3. /\ pos \in [Pos -> PosRow] /\ pos' \in [Pos -> PosRow] /\ BookTypes /\ BookTypes'
      /\ \A p \in Pos \ {z} : pos'[p] = pos[p]
      /\ pos'[z].status = "SETTLED"
  BY <1>1, <1>2, Typed DEF Inv, TypeOK, BookTypes, PosRow
<1>4. /\ \A pr \in Product : Net(pos', pr) = Net(pos, pr) - IF pr = "CNC" THEN plan[c].left ELSE 0
      /\ Margin(pos') <= Margin(pos)
  <2>. SUFFICES ASSUME NEW pr \in Product
                PROVE  /\ Net(pos', pr) = Net(pos, pr) - IF pr = "CNC" THEN plan[c].left ELSE 0
                       /\ Margin(pos') <= Margin(pos)
    BY DEF Product
  <2>1. /\ Net(pos', pr) = Net(pos, pr) - Weight(pos[z], pr) + Weight(pos'[z], pr)
        /\ Margin(pos') = Margin(pos) - Charge(pos[z]) + Charge(pos'[z])
    BY <1>1, <1>3, RowChange
  <2>2. Weight(pos'[z], pr) = 0 /\ Charge(pos'[z]) = 0
    BY <1>3 DEF Weight, Charge
  <2>3. Weight(pos[z], pr) = IF pr = "CNC" THEN plan[c].left ELSE 0
    BY <1>1 DEF Weight
  <2>4. Charge(pos[z]) \in Nat /\ Weight(pos[z], pr) \in Int /\ Net(pos, pr) \in Int /\ Margin(pos) \in Int
    BY <1>1, <1>3, RowValues, SumTypes
  <2>. QED
    BY <2>1, <2>2, <2>3, <2>4
<1>5. Blocked' <= Blocked /\ \A pr \in Product : Shares(pr)' = Shares(pr)
  <2>1. Settled = plan[c].left
    BY <1>1, OneLot DEF LotCounts, Quiet
  <2>2. Settled' = 0
    BY <1>2, OneLotNext DEF LotCounts
  <2>3. /\ Blocked = Margin(pos) /\ Blocked' = Margin(pos')
        /\ \A pr \in Product :
             /\ Shares(pr) = Net(pos, pr) + IF pr = "CNC" THEN holdings - Settled ELSE 0
             /\ Shares(pr)' = Net(pos', pr) + IF pr = "CNC" THEN holdings' - Settled' ELSE 0
    BY <1>3, BooksAdd, BooksWillAdd
  <2>4. holdings \in Nat /\ plan[c].left \in Int /\ \A pr \in Product : Net(pos, pr) \in Int
    BY <1>1, <1>3, Typed, SumTypes
  <2>. SUFFICES ASSUME NEW pr \in Product PROVE Shares(pr)' = Shares(pr)
    BY <1>4, <2>3
  <2>5. CASE pr = "CNC"
    <3>1. Shares(pr) = Net(pos, pr) + (holdings - plan[c].left)
      BY <2>1, <2>3, <2>5
    <3>2. Shares(pr)' = Net(pos, pr) - plan[c].left + (holdings - 0)
      BY <1>2, <1>4, <2>2, <2>3, <2>5
    <3>3. Net(pos, pr) \in Int
      BY <2>4
    <3>. QED
      BY <2>4, <3>1, <3>2, <3>3
  <2>6. CASE pr # "CNC"
    BY <1>4, <2>3, <2>4, <2>6
  <2>. QED
    BY <2>5, <2>6
<1>6. Explained' /\ WithinCapital'
  <2>1. \A d \in Caller : at[d] # "trade" /\ at'[d] # "trade"
    BY <1>1, <1>2 DEF Quiet
  <2>2. Blocked \in Int /\ Blocked' \in Int /\ Capital \in Nat
    <3>1. "CNC" \in Product
      BY DEF Product
    <3>. QED
      BY <1>3, <3>1, BooksAdd, BooksWillAdd, SumTypes, BrokerAssumption DEF BrokerAssumption
  <2>. QED
    BY <1>2, <1>5, <2>1, <2>2 DEF Calm, Explained, WithinCapital
<1>7. Solo' /\ InHand' /\ Swept' /\ Flattening' /\ Ready' /\ Lots'
  BY <1>2 DEF Solo, InHand, Swept, Flattening, Ready, Lots, Working
<1>8. Rows' /\ Sheet' /\ Filled'
  <2>1. \A p \in Pos : pos'[p].status \in {"NONE", "OPEN"} => p # z /\ pos'[p] = pos[p]
    BY <1>3
  <2>2. Rows'
    BY <2>1 DEF Calm, Rows, Tidy
  <2>3. Sheet' /\ Filled'
    BY <1>1, <1>2, <2>1 DEF Calm, Sheet, Filled, Resting, Quiet
  <2>. QED
    BY <2>2, <2>3
<1>. QED
  BY <1>6, <1>7, <1>8 DEF Calm

-----------------------------------------------------------------------------
(* The whole system, one call at a time.                                   *)

LEMMA AdvanceCalm ==
  ASSUME Inv, Inv', Calm, UNCHANGED restarts, Serial, Advance
  PROVE  Calm'
<1>1. \A d \in Caller : at[d] = "idle" /\ back[d] = "idle"
  BY DEF Inv, Hands, Advance, Serial
<1>2. UNCHANGED <<orders, pos, holdings, traded, fills, at, back, issued>>
  BY DEF Advance, bookVars, callVars
<1>3. Rows' /\ Explained' /\ WithinCapital'
  <2>1. \A d \in Caller : at[d] \notin {"mark", "trade"} /\ at'[d] \notin {"mark", "trade"}
    BY <1>1, <1>2
  <2>. QED
    BY <1>2, <2>1, Unbooked
<1>4. Solo' /\ InHand' /\ Swept' /\ Flattening' /\ Lots' /\ Ready'
  BY <1>1, <1>2 DEF Solo, InHand, Swept, Flattening, Lots, Ready, Working
<1>5. Sheet' /\ Filled'
  BY <1>1, <1>2 DEF Calm, Sheet, Filled, Resting
<1>. QED
  BY <1>3, <1>4, <1>5 DEF Calm

LEMMA InitCalm == Init => Calm
<1>. SUFFICES ASSUME Init PROVE Calm
  OBVIOUS
<1>1. /\ \A p \in Pos : pos[p].status = "NONE"
      /\ \A i \in Id : orders[i] = NoOrder /\ fills[i] = 0
      /\ \A c \in Caller : at[c] = "idle" /\ back[c] = "idle"
      /\ holdings = 0 /\ \A pr \in Product : traded[pr] = 0
  BY DEF Init, NoPos
<1>2. Resting = {} /\ AllOpen = {} /\ \A pr \in Product : OpenRows(pr) = {}
  BY <1>1 DEF Resting, AllOpen, OpenRows, OpenStatuses, NoOrder
<1>3. Blocked = 0
  <2> DEFINE f == [p \in AllOpen |-> Rate[pos[p].product] * Abs(pos[p].qty)]
  <2>1. DOMAIN f = {}
    BY <1>2
  <2>. HIDE DEF f
  <2>2. SumFunction(f) = 0
    BY <2>1, SumEmpty DEF SumFunction
  <2>. QED
    BY <2>2 DEF f, Blocked
<1>4. \A pr \in Product : Shares(pr) = 0
  <2>. SUFFICES ASSUME NEW pr \in Product PROVE Shares(pr) = 0
    OBVIOUS
  <2> DEFINE f == [p \in OpenRows(pr) |-> pos[p].qty]
  <2>1. DOMAIN f = {}
    BY <1>2
  <2>. HIDE DEF f
  <2>2. SumFunction(f) = 0
    BY <2>1, SumEmpty DEF SumFunction
  <2>3. Settled = 0
    BY <1>1, OneLot DEF LotCounts
  <2>. QED
    BY <1>1, <2>2, <2>3 DEF f, Shares
<1>5. Solo /\ InHand /\ Swept /\ Flattening /\ Lots /\ Ready
  BY <1>1 DEF Solo, InHand, Swept, Flattening, Lots, Ready, Working
<1>6. Rows /\ Sheet /\ Filled
  BY <1>1, <1>2, AutoIds, Typed, Constants DEF Rows, Tidy, Sheet, Filled, NoOrder, Order, Id
<1>7. Explained /\ WithinCapital
  BY <1>1, <1>3, <1>4, BrokerAssumption DEF Explained, WithinCapital, BrokerAssumption
<1>. QED
  BY <1>5, <1>6, <1>7 DEF Calm

LEMMA StutterCalm ==
  ASSUME Calm, UNCHANGED vars
  PROVE  Calm'
<1>1. UNCHANGED <<orders, pos, holdings, traded, fills, at, back, todo, lots, job, plan, ltp, issued, phase,
                  restarts>>
  BY DEF vars, bookVars, callVars, envVars
<1>2. Settled' = Settled /\ Blocked' = Blocked /\ SquareOffs' = SquareOffs /\ Resting' = Resting
  BY <1>1 DEF Settled, Blocked, AllOpen, SquareOffs, OpenRows, Resting
<1>3. \A pr \in Product : Shares(pr)' = Shares(pr)
  BY <1>1, <1>2 DEF Shares, OpenRows
<1>4. Solo' /\ Rows' /\ Sheet' /\ InHand' /\ Swept'
  BY <1>1, <1>2 DEF Calm, Solo, Rows, Sheet, InHand, Swept, Executed
<1>5. Flattening' /\ Lots' /\ Filled' /\ WithinCapital'
  BY <1>1, <1>2 DEF Calm, Flattening, Lots, Filled, WithinCapital, PastClose, PastSquareOff, OpenRows
<1>6. Explained'
  BY <1>1, <1>3 DEF Calm, Explained, Executed
<1>7. Ready'
  BY <1>1, <1>2 DEF Calm, Ready, ClosesInto, OpenRows, HeldIn, Decided
<1>. QED
  BY <1>4, <1>5, <1>6, <1>7 DEF Calm

LEMMA Undisturbed ==
  ASSUME NEW c \in Caller, Fill(c) \/ Desk(c) \/ Engine(c) \/ Settling(c)
  PROVE  UNCHANGED restarts
<1>1. CASE Fill(c)
  BY <1>1 DEF Fill, Decide, Book, Trade, Complete, Reject, envVars
<1>2. CASE Desk(c)
  BY <1>2 DEF Desk, Place, Exit, Modify, Modified, Cancel, Cancelled, Accept, envVars
<1>3. CASE Engine(c)
  BY <1>3 DEF Engine, Tick, Sweep, Expire, SquareOff, TickDone, envVars
<1>4. CASE Settling(c)
  BY <1>4 DEF Settling, SettleCall, Settle, SettleHold, SettleMark, SettleDone, envVars
<1>. QED
  BY <1>1, <1>2, <1>3, <1>4

\* The process stops: no call is left, the books are as the last write left them.
LEMMA RestartCalm ==
  ASSUME Inv, Inv', Calm, Restart
  PROVE  Calm'
<1>1. /\ \A d \in Caller : at'[d] = "idle" /\ back'[d] = "idle"
      /\ UNCHANGED <<orders, pos, issued>>
  BY DEF Restart, bookVars
<1>2. restarts' # 0
  BY DEF Restart, Inv, TypeOK, EnvTypes
<1>3. Solo' /\ InHand' /\ Swept' /\ Flattening' /\ Lots' /\ Ready'
  BY <1>1 DEF Solo, InHand, Swept, Flattening, Lots, Ready, Working
<1>4. Rows' /\ Sheet' /\ WithinCapital'
  BY <1>1 DEF Calm, Rows, Sheet, Resting, WithinCapital, Blocked, AllOpen
<1>5. Explained' /\ Filled'
  BY <1>2 DEF Explained, Filled
<1>. QED
  BY <1>3, <1>4, <1>5 DEF Calm

LEMMA NextCalm ==
  ASSUME Serial, Inv, Inv', Calm, [Next]_vars
  PROVE  Calm'
<1>1. ASSUME NEW c \in Caller, Fill(c) PROVE Calm'
  BY <1>1, Undisturbed, DecideCalm, BookCalm, TradeCalm, CompleteCalm DEF Fill
<1>2. ASSUME NEW c \in Caller, Desk(c) PROVE Calm'
  BY <1>2, Undisturbed, PlaceCalm, ReadCalm, WriteCalm DEF Desk
<1>3. ASSUME NEW c \in Caller, Engine(c) PROVE Calm'
  BY <1>3, Undisturbed, TickCalm, SweepCalm, ExpireCalm, SquareOffCalm, TickDoneCalm DEF Engine
<1>4. ASSUME NEW c \in Caller, Settling(c) PROVE Calm'
  BY <1>4, Undisturbed, SettleCalm, SettleHoldCalm, SettleMarkCalm DEF Settling
<1>5. CASE Advance
  BY <1>5, AdvanceCalm DEF Advance
<1>6. CASE Restart
  BY <1>6, RestartCalm
<1>7. CASE UNCHANGED vars
  BY <1>7, StutterCalm
<1>. QED
  BY <1>1, <1>2, <1>3, <1>4, <1>5, <1>6, <1>7 DEF Next

LEMMA CalmHolds ==
  ASSUME Serial
  PROVE  Spec => [](Inv /\ Calm)
<1>1. Init => Inv /\ Calm
  BY InitInv, InitCalm
<1>2. Inv /\ Calm /\ [Next]_vars => Inv' /\ Calm'
  BY NextInv, NextCalm
<1>. QED
  BY <1>1, <1>2, PTL DEF Spec

\* Between two calls the trades explain the books, when calls do not overlap, until the
\* process stops: for each product the open positions and the holdings are what the trade
\* rows add up to, and no order has traded twice (orders.py:291-292). A stop between the
\* position's write and the trade's leaves a position no trade row explains, so nothing
\* is said of the books after one.
THEOREM TradesExplain == ASSUME Serial PROVE Spec => [](restarts = 0 => TradesExplainBooks)
<1>1. Inv /\ Calm => (restarts = 0 => TradesExplainBooks)
  BY DEF TradesExplainBooks, Calm, Explained, Filled
<1>. QED
  BY <1>1, CalmHolds, PTL

\* The funds check holds, when calls do not overlap and whenever the process stops: the
\* positions never block more than the capital (orders.py:351-359).
THEOREM CapitalCovers == ASSUME Serial PROVE Spec => []WithinCapital
<1>1. Inv /\ Calm => WithinCapital
  BY DEF Calm
<1>. QED
  BY <1>1, CalmHolds, PTL

\* A tick that ends past the cutoff, with a quote, leaves no intraday position open and,
\* past the close, no DAY order resting, when calls do not overlap and whenever the
\* process stops (engine.py:9-21).
THEOREM CutoffLeavesNothing == ASSUME Serial PROVE Spec => CutoffFlattens
<1> DEFINE P(c) ==
      at[c] = "squareoff" /\ at'[c] \in {"idle", "settle"} /\ restarts' = restarts =>
        /\ PastSquareOff /\ ltp[c] # 0 => OpenRows("MIS")' = {}
        /\ PastClose => \A i \in Id : orders[i].status \in OpenStatuses => orders[i].validity # "DAY"
<1>1. ASSUME Inv, Calm, [Next]_vars, NEW c \in Caller
      PROVE  P(c)
  <2>. SUFFICES ASSUME at[c] = "squareoff", at'[c] \in {"idle", "settle"}, restarts' = restarts
                PROVE  /\ PastSquareOff /\ ltp[c] # 0 => OpenRows("MIS")' = {}
                       /\ PastClose => \A i \in Resting : orders[i].validity # "DAY"
    BY DEF Resting
  <2>1. PastClose => \A i \in Resting : orders[i].validity # "DAY"
    BY <1>1 DEF Calm, Flattening
  <2>2. Quiet(c)
    BY <1>1, OnlyOne DEF Calm
  <2>3. TickDone(c)
    <3>1. /\ at \in [Caller -> Labels]
          /\ ~UNCHANGED vars
          /\ \A d \in Caller : d # c => at[d] = "idle"
      BY <1>1, <2>2, Typed DEF vars, callVars, Quiet
    <3>2. ~Advance /\ ~Restart
      BY <1>1, <3>1 DEF Advance, Restart, callVars, Serial, Inv, TypeOK, EnvTypes
    <3>3. \A d \in Caller : ~Fill(d)
      BY <3>1 DEF Fill, Decide, Book, Trade, Complete, Reject
    <3>4. \A d \in Caller : ~Desk(d)
      <4>1. \A d \in Caller : ~Begin(d)
        BY DEF Begin, Serial
      <4>2. \A d \in Caller : \A row, q : ~Accept(d, row, q)
        BY <4>1 DEF Accept
      <4>. QED
        BY <3>1, <4>1, <4>2 DEF Desk, Place, Exit, Modify, Modified, Cancel, Cancelled
    <3>5. \A d \in Caller : ~Settling(d)
      BY <3>1 DEF Settling, SettleCall, Settle, SettleHold, SettleMark, SettleDone, Begin, Serial
    <3>6. \A d \in Caller : ~Tick(d) /\ ~Sweep(d) /\ ~Expire(d)
      BY <3>1 DEF Tick, Sweep, Expire, Begin, Serial
    <3>7. ~SquareOff(c) /\ \A d \in Caller : d # c => ~SquareOff(d) /\ ~TickDone(d)
      BY <3>1 DEF SquareOff, TickDone, Execute, Goto
    <3>. QED
      BY <1>1, <3>1, <3>2, <3>3, <3>4, <3>5, <3>6, <3>7 DEF Next, Engine
  <2>4. PastSquareOff /\ ltp[c] # 0 => SquareOffs = {}
    BY <1>1, <2>3 DEF Calm, Flattening, TickDone
  <2>5. PastSquareOff /\ ltp[c] # 0 => OpenRows("MIS") = {}
    BY <2>4 DEF SquareOffs
  <2>6. OpenRows("MIS")' = OpenRows("MIS")
    BY <2>3 DEF TickDone, bookVars, OpenRows
  <2>. QED
    BY <2>1, <2>5, <2>6
<1>2. Inv /\ Calm /\ [Next]_vars => [\A c \in Caller : P(c)]_vars
  BY <1>1
<1>. HIDE DEF P
<1>3. Spec => [][\A c \in Caller : P(c)]_vars
  BY <1>2, CalmHolds, PTL DEF Spec
<1>. QED
  BY <1>3 DEF P, CutoffFlattens

-----------------------------------------------------------------------------
(* One call at a time, the broker does what PaperBook promises.            *)

Statuses == [i \in Id |-> BookStatus(i)]
NetShares == [pr \in Product |-> Shares(pr)]

\* A step of PaperBook, or none.
Simulates == [Abstract!Next]_<<Statuses, NetShares>>

LEMMA PaperStutters ==
  ASSUME UNCHANGED <<Statuses, NetShares>>
  PROVE  Simulates
BY DEF Simulates

LEMMA PaperMoves ==
  ASSUME NEW i \in Id, NEW s, s \in OpenStatuses \cup {"CANCELLED", "REJECTED"},
         BookStatus(i) \in OpenStatuses \cup {"NONE"},
         Statuses' = [Statuses EXCEPT ![i] = s], NetShares' = NetShares
  PROVE  Simulates
<1>1. Statuses[i] \notin Abstract!Final
  BY DEF Statuses, OpenStatuses, Abstract!Final
<1>2. CASE s \in OpenStatuses
  <2>1. Abstract!Rest(i, s) /\ s \in Abstract!Resting
    BY <1>1, <1>2 DEF Abstract!Rest, Abstract!Resting, OpenStatuses, Statuses, NetShares
  <2>. QED
    BY <2>1 DEF Abstract!Next, Simulates
<1>3. CASE s \in {"CANCELLED", "REJECTED"}
  <2>1. Abstract!Drop(i, s)
    BY <1>1, <1>3 DEF Abstract!Drop, Statuses, NetShares
  <2>. QED
    BY <1>3, <2>1 DEF Abstract!Next, Simulates
<1>. QED
  BY <1>2, <1>3

\* The trades say what the shares are.
LEMMA SharesStay ==
  ASSUME Calm, Calm', restarts = 0, restarts' = 0, traded' = traded,
         \A d \in Caller : at[d] # "trade" /\ at'[d] # "trade"
  PROVE  NetShares' = NetShares
BY DEF Calm, Explained, NetShares

\* Nothing that PaperBook sees happens.
LEMMA Unseen ==
  ASSUME Calm, Calm', restarts = 0, restarts' = 0, UNCHANGED <<orders, traded>>,
         \A d \in Caller : at[d] \notin {"trade", "complete"} /\ at'[d] \notin {"trade", "complete"}
  PROVE  Simulates
<1>1. NetShares' = NetShares
  BY SharesStay
<1>2. Statuses' = Statuses
  BY DEF Statuses, BookStatus
<1>. QED
  BY <1>1, <1>2, PaperStutters

\* An order moves, outside execute.
LEMMA OrderMoves ==
  ASSUME Calm, Calm', restarts = 0, restarts' = 0, traded' = traded,
         NEW i \in Id, orders[i].status \in OpenStatuses \cup {"NONE"},
         \A j \in Id : j # i => orders'[j] = orders[j],
         orders'[i].status \in OpenStatuses \cup {"CANCELLED", "REJECTED"},
         \A d \in Caller : at[d] \notin {"trade", "complete"} /\ at'[d] \notin {"trade", "complete"}
  PROVE  Simulates
<1>1. NetShares' = NetShares
  BY SharesStay
<1>2. \A j \in Id : BookStatus(j) = orders[j].status /\ BookStatus(j)' = orders'[j].status
  BY DEF BookStatus
<1>3. Statuses' = [Statuses EXCEPT ![i] = orders'[i].status]
  BY <1>2 DEF Statuses
<1>. QED
  BY <1>1, <1>2, <1>3, PaperMoves

LEMMA DecideMaps ==
  ASSUME Inv, Calm, Calm', restarts = 0, restarts' = 0, NEW c \in Caller, Decide(c)
  PROVE  Simulates
<1>1. Quiet(c) /\ at[c] = "execute"
  BY OnlyOne DEF Decide, Calm
<1>2. \A d \in Caller : at'[d] \notin {"trade", "complete"}
  BY <1>1, Typed DEF Decide, Goto, Quiet
<1>3. UNCHANGED <<orders, traded>>
  BY DEF Decide, bookVars
<1>. QED
  BY <1>1, <1>2, <1>3, Unseen DEF Quiet

\* The position is written: the order and its product move together.
LEMMA BookMaps ==
  ASSUME Inv, Inv', Calm, Calm', restarts = 0, restarts' = 0, NEW c \in Caller, Book(c)
  PROVE  Simulates
<1> DEFINE i  == job[c][1]
           pr == job[c][2].product
           n  == Signed(job[c][2].side, Executed(c))
<1>1. /\ Quiet(c) /\ at[c] = "book" /\ i \in Id /\ pr \in Product /\ job[c][2] \in OrderRow
      /\ orders[i].status \in OpenStatuses \cup {"NONE"}
  BY OnlyOne, Typed DEF Book, Calm, Inv, Hands, InHand, Working, Item, OrderRow
<1>2. /\ \A d \in Caller : d # c => at'[d] = "idle"
      /\ at'[c] = "trade" /\ UNCHANGED <<orders, traded, job, plan>>
  BY <1>1, Typed DEF Book, Goto, Quiet
<1>3. \A j \in Id : /\ BookStatus(j) = orders[j].status
                    /\ BookStatus(j)' = IF j = i THEN "COMPLETE" ELSE orders[j].status
  BY <1>1, <1>2 DEF BookStatus, Quiet
<1>4. n \in Int /\ n # 0
  <2>1. Executed(c)' >= 1 /\ Executed(c)' = Executed(c) /\ Executed(c) \in Nat
    BY <1>2, Typed DEF Calm, InHand, Executed, Plan
  <2>. QED
    BY <1>1, <2>1 DEF Signed, OrderRow
<1>5. \A p \in Product : Shares(p) = traded[p] /\ traded[p] \in Int
  BY <1>1, Typed DEF Calm, Explained, Quiet
<1>6. /\ Shares(pr)' = traded[pr] + n
      /\ \A p \in Product : p # pr => Shares(p)' = traded[p]
  <2>1. Executed(c)' = Executed(c)
    BY <1>2 DEF Executed
  <2>2. Explained'
    BY DEF Calm
  <2>3. Shares(pr)' = traded[pr] + n
    BY <1>1, <1>2, <2>1, <2>2 DEF Explained
  <2>4. \A p \in Product : p # pr => Shares(p)' = traded[p]
    BY <1>1, <1>2, <2>2 DEF Explained
  <2>. QED
    BY <2>3, <2>4
<1>7. pr \in Delivery => Shares(pr)' >= 0
  <2>. SUFFICES ASSUME pr \in Delivery PROVE Shares(pr)' >= 0
    OBVIOUS
  <2> DEFINE w == [p \in Pos |-> Weight(pos'[p], pr)]
  <2>1. BookTypes' /\ pos' \in [Pos -> PosRow] /\ holdings' >= 0 /\ holdings' \in Int
    BY DEF Inv, TypeOK, BookTypes, NeverShort
  <2>2. \A p \in Pos : w[p] \in Nat
    BY <2>1 DEF Weight, Inv, NeverShort, PosRow
  <2>. HIDE DEF w
  <2>3. SumFunctionOnSet(w, Pos) \in Nat
    BY <2>2, FinitePos, SumNat
  <2>4. Net(pos', pr) \in Nat
    BY <2>3 DEF Net, w
  <2>5. Settled' = 0
    BY <1>2, OneLotNext DEF LotCounts
  <2>6. Shares(pr)' = Net(pos', pr) + IF pr = "CNC" THEN holdings' - Settled' ELSE 0
    BY <1>1, <1>2, <2>1, BooksWillAdd
  <2>. QED
    BY <2>1, <2>4, <2>5, <2>6
<1>8. Abstract!Fill(i)
  <2>1. Statuses[i] \notin Abstract!Final
    BY <1>1, <1>3 DEF Statuses, OpenStatuses, Abstract!Final
  <2>2. Statuses' = [Statuses EXCEPT ![i] = "COMPLETE"]
    BY <1>1, <1>3 DEF Statuses
  <2>3. NetShares'[pr] \in Int \ {NetShares[pr]} /\ (pr \in Delivery => NetShares'[pr] >= 0)
    <3>1. NetShares[pr] = traded[pr] /\ NetShares'[pr] = Shares(pr)'
      BY <1>1, <1>2, <1>5 DEF NetShares
    <3>2. traded[pr] \in Int /\ Shares(pr)' = traded[pr] + n
      BY <1>1, <1>5, <1>6
    <3>. HIDE DEF n, pr
    <3>. QED
      BY <1>4, <1>7, <3>1, <3>2
  <2>4. NetShares' = [NetShares EXCEPT ![pr] = NetShares'[pr]]
    <3>1. \A p \in Product : p # pr => Shares(p)' = Shares(p)
      BY <1>5, <1>6
    <3>. QED
      BY <1>1, <3>1 DEF NetShares
  <2>. QED
    BY <1>1, <2>1, <2>2, <2>3, <2>4 DEF Abstract!Fill, Statuses, NetShares
<1>. QED
  BY <1>1, <1>8 DEF Abstract!Next, Simulates

LEMMA TradeMaps ==
  ASSUME Inv, Inv', Calm, Calm', restarts = 0, restarts' = 0, NEW c \in Caller, Trade(c)
  PROVE  Simulates
<1>1. Quiet(c) /\ at[c] = "trade" /\ job[c][2].product \in Product
  BY OnlyOne, Typed DEF Trade, Calm, Inv, Hands, Item, OrderRow
<1>2. /\ \A d \in Caller : d # c => at'[d] = "idle"
      /\ at'[c] = "complete" /\ UNCHANGED <<orders, job>>
      /\ traded' = [traded EXCEPT ![job[c][2].product] = @ + Signed(job[c][2].side, Executed(c))]
  BY <1>1, Typed DEF Trade, Goto, Quiet
<1>3. Statuses' = Statuses
  BY <1>1, <1>2 DEF Statuses, BookStatus, Quiet
<1>4. \A pr \in Product : Shares(pr)' = traded'[pr]
  BY <1>2 DEF Calm, Explained
<1>5. \A pr \in Product : Shares(pr) = traded'[pr]
  BY <1>1, <1>2, Typed DEF Calm, Explained, Quiet
<1>6. NetShares' = NetShares
  BY <1>4, <1>5 DEF NetShares
<1>. QED
  BY <1>3, <1>6, PaperStutters

LEMMA CompleteMaps ==
  ASSUME Inv, Calm, Calm', restarts = 0, restarts' = 0, NEW c \in Caller, Complete(c)
  PROVE  Simulates
<1> DEFINE i == job[c][1]
<1>1. Quiet(c) /\ at[c] = "complete" /\ i \in Id /\ job[c][2] \in OrderRow /\ back[c] \in {"idle", "tick", "squareoff"}
  BY OnlyOne, Typed DEF Complete, Calm, Inv, Hands, Item
<1>2. /\ \A d \in Caller : at'[d] \notin {"trade", "complete"}
      /\ traded' = traded
      /\ orders' = [orders EXCEPT ![i] = [job[c][2] EXCEPT !.status = "COMPLETE", !.qty = Executed(c)]]
  BY <1>1, Typed DEF Complete, PutDown, Goto, Quiet
<1>3. \A j \in Id : orders'[j].status = IF j = i THEN "COMPLETE" ELSE orders[j].status
  BY <1>1, <1>2, Typed DEF OrderRow
<1>4. Statuses' = Statuses
  BY <1>1, <1>2, <1>3 DEF Statuses, BookStatus, Quiet
<1>5. NetShares' = NetShares
  BY <1>1, <1>2, SharesStay DEF Quiet
<1>. QED
  BY <1>4, <1>5, PaperStutters

LEMMA RejectMaps ==
  ASSUME Inv, Calm, Calm', restarts = 0, restarts' = 0, NEW c \in Caller, Reject(c)
  PROVE  Simulates
<1> DEFINE i == job[c][1]
<1>1. /\ Quiet(c) /\ at[c] = "reject" /\ i \in Id /\ job[c][2] \in OrderRow /\ back[c] \in {"idle", "tick", "squareoff"}
      /\ orders[i].status \in OpenStatuses \cup {"NONE"}
  BY OnlyOne, Typed DEF Reject, Calm, Inv, Hands, Item, InHand, Working
<1>2. /\ \A d \in Caller : at'[d] \notin {"trade", "complete"}
      /\ traded' = traded
      /\ orders' = [orders EXCEPT ![i] = [job[c][2] EXCEPT !.status = "REJECTED"]]
  BY <1>1, Typed DEF Reject, PutDown, Goto, Quiet
<1>3. orders'[i].status = "REJECTED" /\ \A j \in Id : j # i => orders'[j] = orders[j]
  BY <1>1, <1>2, Typed DEF OrderRow
<1>. QED
  BY <1>1, <1>2, <1>3, OrderMoves DEF Quiet

LEMMA AcceptMaps ==
  ASSUME Inv, Calm, Calm', restarts = 0, restarts' = 0, Serial, NEW c \in Caller,
         NEW row \in OrderRow, NEW q \in Price, Accept(c, row, q)
  PROVE  Simulates
<1> DEFINE i == issued + 1
<1>1. /\ Quiet(c) /\ at[c] = "idle" /\ i \in Id /\ orders[i].status = "NONE"
  <2>1. Quiet(c) /\ at[c] = "idle" /\ issued < MaxOrders
    BY NoneYet DEF Accept
  <2>2. i \in Order /\ i > issued /\ i \in Id
    BY <2>1, Typed DEF Order
  <2>. QED
    BY <2>1, <2>2 DEF Calm, Sheet, NoOrder
<1>2. /\ \A d \in Caller : at'[d] \notin {"trade", "complete"}
      /\ traded' = traded
      /\ \/ UNCHANGED orders
         \/ \E st \in OpenStatuses \cup {"CANCELLED", "REJECTED"} :
              orders' = [orders EXCEPT ![i] = [row EXCEPT !.status = st]]
  BY <1>1, Typed DEF Accept, Execute, Goto, OpenStatuses, Quiet
<1>3. CASE UNCHANGED orders
  BY <1>1, <1>2, <1>3, Unseen DEF Quiet
<1>4. ASSUME NEW st \in OpenStatuses \cup {"CANCELLED", "REJECTED"},
             orders' = [orders EXCEPT ![i] = [row EXCEPT !.status = st]]
      PROVE  Simulates
  <2>1. orders'[i].status = st /\ \A j \in Id : j # i => orders'[j] = orders[j]
    BY <1>1, <1>4, Typed DEF OrderRow
  <2>. QED
    BY <1>1, <1>2, <2>1, OrderMoves DEF Quiet
<1>. QED
  BY <1>2, <1>3, <1>4

LEMMA DeskMaps ==
  ASSUME Inv, Calm, Calm', restarts = 0, restarts' = 0, Serial, NEW c \in Caller, Desk(c)
  PROVE  Simulates
<1>1. CASE Place(c)
  <2>1. PICK t \in Ticket, q \in Price : Accept(c, Row(t), q)
    BY <1>1 DEF Place
  <2>2. t \in Request /\ \A m \in 1..MaxShares : m \in Nat
    BY BrokerAssumption DEF BrokerAssumption
  <2>3. Row(t) \in OrderRow
    BY <2>2 DEF Row, OrderRow, Request, Status
  <2>. QED
    BY <2>1, <2>3, AcceptMaps
<1>2. CASE Exit(c)
  <2>1. PICK p \in AllOpen, q \in Price :
          \E m \in 1..Abs(pos[p].qty) : Accept(c, CloseOrder(pos[p], m), q)
    BY <1>2 DEF Exit
  <2>2. PICK m \in 1..Abs(pos[p].qty) : Accept(c, CloseOrder(pos[p], m), q)
    BY <2>1
  <2>3. pos[p] \in PosRow /\ m \in Nat
    BY Typed DEF AllOpen, PosRow, Abs
  <2>. QED
    BY <2>2, <2>3, CloseOrderType, AcceptMaps
<1>3. CASE Modify(c) \/ Cancel(c)
  <2>1. Quiet(c) /\ at[c] = "idle"
    BY <1>3, NoneYet DEF Modify, Cancel
  <2>2. UNCHANGED <<orders, traded>> /\ \A d \in Caller : at'[d] \notin {"trade", "complete"}
    BY <1>3, <2>1, Typed DEF Modify, Cancel, Goto, Quiet, bookVars
  <2>. QED
    BY <2>1, <2>2, Unseen DEF Quiet
<1>4. CASE Modified(c) \/ Cancelled(c)
  <2> DEFINE i == job[c][1]
  <2>1. /\ Quiet(c) /\ at[c] \in {"modify", "cancel"} /\ back[c] = "idle" /\ i \in Resting /\ i \in Id
        /\ orders[i] \in OrderRow /\ orders[i].status \in OpenStatuses
    BY <1>4, OnlyOne, Typed DEF Modified, Cancelled, Inv, Hands, Calm, InHand, Resting, OpenStatuses, NoOrder
  <2>2. traded' = traded /\ \A d \in Caller : at'[d] \notin {"trade", "complete"}
    BY <1>4, <2>1, Typed DEF Modified, Cancelled, PutDown, Goto, Quiet
  <2>3. /\ \A j \in Id : j # i => orders'[j] = orders[j]
        /\ orders'[i].status \in OpenStatuses \cup {"CANCELLED"}
    <3>1. CASE Modified(c)
      <4>1. orders' = [orders EXCEPT ![i] = job[c][2]] /\ at[c] = "modify"
        BY <3>1 DEF Modified
      <4>. QED
        BY <2>1, <4>1, Typed DEF Calm, InHand
    <3>2. CASE Cancelled(c)
      <4>1. orders' = [orders EXCEPT ![i].status = "CANCELLED"]
        BY <3>2 DEF Cancelled
      <4>. QED
        BY <2>1, <4>1, Typed DEF OrderRow
    <3>. QED
      BY <1>4, <3>1, <3>2
  <2>. QED
    BY <2>1, <2>2, <2>3, OrderMoves DEF Quiet
<1>. QED
  BY <1>1, <1>2, <1>3, <1>4 DEF Desk

LEMMA SweepMaps ==
  ASSUME Inv, Calm, Calm', restarts = 0, restarts' = 0, NEW c \in Caller, Sweep(c)
  PROVE  Simulates
<1>1. Quiet(c) /\ at[c] = "tick"
  BY OnlyOne DEF Sweep, Calm
<1>2. PICK it \in todo[c] :
        /\ \/ orders' = [orders EXCEPT ![it[1]].status = "PENDING"]
           \/ UNCHANGED orders
        /\ \/ Execute(c, it[1], [it[2] EXCEPT !.status = "PENDING"], "tick")
           \/ UNCHANGED <<at, back, job>>
  BY DEF Sweep
<1>3. it[1] \in Resting /\ it[1] \in Id /\ orders[it[1]] \in OrderRow /\ orders[it[1]].status \in OpenStatuses
  BY <1>1, <1>2, Typed DEF Calm, Swept, Item, Resting
<1>4. traded' = traded /\ \A d \in Caller : at'[d] \notin {"trade", "complete"}
  BY <1>1, <1>2, Typed DEF Sweep, Execute, Goto, Quiet
<1>5. CASE UNCHANGED orders
  BY <1>1, <1>4, <1>5, Unseen DEF Quiet
<1>6. CASE orders' = [orders EXCEPT ![it[1]].status = "PENDING"]
  <2>1. orders'[it[1]].status = "PENDING" /\ \A j \in Id : j # it[1] => orders'[j] = orders[j]
    BY <1>3, <1>6, Typed DEF OrderRow
  <2>2. "PENDING" \in OpenStatuses
    BY DEF OpenStatuses
  <2>. QED
    BY <1>1, <1>3, <1>4, <2>1, <2>2, OrderMoves DEF Quiet
<1>. QED
  BY <1>2, <1>5, <1>6

LEMMA ExpireMaps ==
  ASSUME Inv, Calm, Calm', restarts = 0, restarts' = 0, NEW c \in Caller, Expire(c)
  PROVE  Simulates
<1> DEFINE dead == {i \in Resting : PastClose /\ orders[i].validity = "DAY"}
<1>1. Quiet(c) /\ at[c] = "tick"
  BY OnlyOne DEF Expire, Calm
<1>2. traded' = traded /\ \A d \in Caller : at'[d] \notin {"trade", "complete"}
  BY <1>1, Typed DEF Expire, Goto, Quiet
<1>3. NetShares' = NetShares
  BY <1>1, <1>2, SharesStay DEF Quiet
<1>4. \A j \in Id : BookStatus(j) = orders[j].status /\ BookStatus(j)' = orders'[j].status
  BY <1>1, <1>2 DEF BookStatus, Quiet
<1>5. \A j \in Id : orders'[j].status = IF j \in dead THEN "EXPIRED" ELSE orders[j].status
  <2>. SUFFICES ASSUME NEW j \in Id
                PROVE  orders'[j].status = IF j \in dead THEN "EXPIRED" ELSE orders[j].status
    OBVIOUS
  <2>1. orders'[j] = IF j \in dead THEN [orders[j] EXCEPT !.status = "EXPIRED"] ELSE orders[j]
    BY DEF Expire
  <2>2. j \in dead => orders[j] \in OrderRow
    BY Typed DEF Resting, OpenStatuses, NoOrder
  <2>. QED
    BY <2>1, <2>2 DEF OrderRow
<1>. HIDE DEF dead
<1>6. Statuses' = [i \in Id |-> IF i \in dead THEN "EXPIRED" ELSE Statuses[i]]
  BY <1>4, <1>5 DEF Statuses
<1>7. dead \in SUBSET {i \in Id : Statuses[i] \in Abstract!Resting}
  BY <1>4 DEF dead, Resting, OpenStatuses, Statuses, Abstract!Resting
<1>8. Abstract!Expire(dead)
  BY <1>3, <1>6 DEF Abstract!Expire, Statuses, NetShares
<1>. QED
  BY <1>7, <1>8 DEF Abstract!Next, Simulates, Statuses

LEMMA EngineMaps ==
  ASSUME Inv, Calm, Calm', restarts = 0, restarts' = 0, Serial, NEW c \in Caller,
         Tick(c) \/ SquareOff(c) \/ TickDone(c) \/ Settling(c)
  PROVE  Simulates
<1>1. /\ Quiet(c) /\ at[c] \notin {"trade", "complete"}
      /\ UNCHANGED <<orders, traded>> /\ \A d \in Caller : at'[d] \notin {"trade", "complete"}
  <2>1. CASE Tick(c) \/ SettleCall(c)
    <3>1. Quiet(c) /\ at[c] = "idle"
      BY <2>1, NoneYet DEF Tick, SettleCall
    <3>. QED
      BY <2>1, <3>1, Typed DEF Tick, SettleCall, Goto, Quiet, bookVars
  <2>2. CASE SquareOff(c) \/ TickDone(c)
    <3>1. Quiet(c) /\ at[c] = "squareoff"
      BY <2>2, OnlyOne DEF SquareOff, TickDone, Calm
    <3>. QED
      BY <2>2, <3>1, Typed DEF SquareOff, TickDone, Execute, Goto, Quiet, bookVars
  <2>3. CASE Settle(c) \/ SettleHold(c) \/ SettleMark(c) \/ SettleDone(c)
    <3>1. Quiet(c) /\ at[c] \in {"settle", "lots", "mark"}
      BY <2>3, OnlyOne DEF Settle, SettleHold, SettleMark, SettleDone, Calm
    <3>. QED
      BY <2>3, <3>1, Typed DEF Settle, SettleHold, SettleMark, SettleDone, Goto, Quiet, bookVars
  <2>. QED
    BY <2>1, <2>2, <2>3 DEF Settling
<1>. QED
  BY <1>1, Unseen DEF Quiet

LEMMA StepMaps ==
  ASSUME Serial, MaxRestarts = 0, Inv, Inv', Calm, Calm', [Next]_vars
  PROVE  Simulates
<1>0. restarts = 0 /\ restarts' = 0
  BY DEF Inv, TypeOK, EnvTypes
<1>1. ASSUME NEW c \in Caller, Fill(c) PROVE Simulates
  BY <1>0, <1>1, DecideMaps, BookMaps, TradeMaps, CompleteMaps, RejectMaps DEF Fill
<1>2. ASSUME NEW c \in Caller, Desk(c) PROVE Simulates
  BY <1>0, <1>2, DeskMaps
<1>3. ASSUME NEW c \in Caller, Engine(c) \/ Settling(c) PROVE Simulates
  BY <1>0, <1>3, SweepMaps, ExpireMaps, EngineMaps DEF Engine
<1>4. CASE Advance
  <2>1. \A d \in Caller : at[d] = "idle" /\ at'[d] = "idle"
    BY <1>4 DEF Advance, Serial, callVars
  <2>2. UNCHANGED <<orders, traded>>
    BY <1>4 DEF Advance, bookVars
  <2>. QED
    BY <1>0, <2>1, <2>2, Unseen
<1>5. CASE Restart
  BY <1>0, <1>5 DEF Restart
<1>6. CASE UNCHANGED vars
  <2>1. Statuses' = Statuses
    BY <1>6 DEF vars, bookVars, callVars, Statuses, BookStatus
  <2>2. NetShares' = NetShares
    BY <1>6 DEF vars, bookVars, callVars, NetShares, Shares, OpenRows, Settled
  <2>. QED
    BY <2>1, <2>2, PaperStutters
<1>. QED
  BY <1>1, <1>2, <1>3, <1>4, <1>5, <1>6 DEF Next

\* When calls do not overlap and the process does not stop the broker is the one its documentation promises: an order
\* moves from its resting states to one final state and stays there, and a position moves
\* only by an order that completes, once, together with that order (orders.py:3-6, 291-292).
THEOREM BrokerKeepsPromise == ASSUME Serial, MaxRestarts = 0 PROVE Spec => Promise
<1>1. Init => Abstract!Init
  <2>. SUFFICES ASSUME Init PROVE Abstract!Init
    OBVIOUS
  <2>1. Calm /\ restarts = 0 /\ \A c \in Caller : at[c] = "idle"
    BY InitCalm DEF Init
  <2>2. \A i \in Id : BookStatus(i) = "NONE"
    BY <2>1 DEF Init, BookStatus, NoOrder
  <2>3. \A pr \in Product : Shares(pr) = 0
    BY <2>1 DEF Init, Calm, Explained
  <2>. QED
    BY <2>2, <2>3 DEF Abstract!Init
<1>2. Inv /\ Calm /\ Inv' /\ Calm' /\ [Next]_vars => Simulates
  BY StepMaps
<1>. QED
  BY <1>1, <1>2, CalmHolds, PTL DEF Spec, Promise, Abstract!Spec, Simulates, Statuses, NetShares
=============================================================================
