----------------------------- MODULE OrderRules -----------------------------
(***************************************************************************)
(* The pure rules of the paper broker: core.py (what an order may be, when *)
(* it triggers, when and where it fills) and the first half of             *)
(* orders.execute (how an order is split between the books).               *)
(*                                                                         *)
(* An order is a record with at least the fields product, side, type,      *)
(* validity, qty, price and trigger; a price or trigger of 0 is the        *)
(* source's None, which its tests treat as a zero price too.  A position   *)
(* is a signed quantity.  Lots, segments and fees are left out.            *)
(***************************************************************************)
EXTENDS Integers

Product   == {"CNC", "MTF", "MIS", "NRML"}
Delivery  == {"CNC", "MTF"}           \* products that cannot go short
OrderType == {"MARKET", "LIMIT", "SL", "SL-M"}
Validity  == {"DAY", "IOC"}
Stops     == {"SL", "SL-M"}

Smaller(a, b) == IF a <= b THEN a ELSE b
Larger(a, b)  == IF a >= b THEN a ELSE b
Abs(n)        == IF n < 0 THEN -n ELSE n

\* Buying raises the position, selling lowers it.
Signed(side, n) == IF side = "BUY" THEN n ELSE -n

-----------------------------------------------------------------------------
(* core.py                                                                 *)

\* validate_order: what the front end of a broker refuses.
Valid(o) ==
  /\ o.qty >= 1
  /\ o.type \in {"LIMIT", "SL"} => o.price # 0
  /\ o.type \in Stops => o.trigger # 0
  /\ o.type = "MARKET" => o.price = 0
  /\ o.type = "SL" => IF o.side = "BUY" THEN o.price >= o.trigger
                                        ELSE o.price <= o.trigger

Triggered(o, ltp) ==
  /\ o.trigger # 0
  /\ IF o.side = "BUY" THEN ltp >= o.trigger ELSE ltp <= o.trigger

Marketable(o, ltp) ==
  \/ o.type \in {"MARKET", "SL-M"}
  \/ /\ o.price # 0
     /\ IF o.side = "BUY" THEN ltp <= o.price ELSE ltp >= o.price

\* fill_price_for: the better of the limit and the market.
FillPrice(o, ltp) ==
  IF o.type \in {"MARKET", "SL-M"} THEN ltp
  ELSE IF o.side = "BUY" THEN Smaller(o.price, ltp) ELSE Larger(o.price, ltp)

-----------------------------------------------------------------------------
(* orders.execute, up to its first write                                   *)

\* Mutant of ClosingQty: not capped at the order.
ClosingQtyUncapped(o, held) ==
  IF held # 0 /\ (held > 0) # (o.side = "BUY") THEN Abs(held) ELSE 0

\* How much of an order closes an open position of signed size held.
ClosingQty(o, held) ==
  IF held # 0 /\ (held > 0) # (o.side = "BUY") THEN Smaller(o.qty, Abs(held)) ELSE 0

\* How much of what is left a CNC sell takes out of the holdings.
HoldingsQty(o, held, holdings) ==
  IF o.product = "CNC" /\ o.side = "SELL"
  THEN Smaller(o.qty - ClosingQty(o, held), Larger(0, holdings)) ELSE 0

\* Mutant of OpeningQty: what a delivery sell does not close is opened.
OpeningQtyShort(o, held) == o.qty - ClosingQty(o, held)

\* A sell of a delivery product opens nothing: what the books cannot cover is cut off.
OpeningQty(o, held) ==
  IF o.product \in Delivery /\ o.side = "SELL" THEN 0 ELSE o.qty - ClosingQty(o, held)

\* The quantity that trades, after the cut.
FilledQty(o, held, holdings) ==
  ClosingQty(o, held) + HoldingsQty(o, held, holdings) + OpeningQty(o, held)

\* Refused outright when the cut leaves nothing.
Refused(o, held, holdings) ==
  o.product \in Delivery /\ o.side = "SELL" /\ o.qty > 0 /\ FilledQty(o, held, holdings) = 0

\* What is left of the position the order closes into.
Remaining(o, held) == held + Signed(o.side, ClosingQty(o, held))
=============================================================================
