--------------------------- MODULE MCPaperBroker ----------------------------
(* Instances of PaperBroker for TLC.                                       *)
EXTENDS PaperBroker

CONSTANTS loop, u1, u2

Req(pr, side, type, qty, price, trigger) ==
  [product |-> pr, side |-> side, type |-> type, validity |-> "DAY",
   qty |-> qty, price |-> price, trigger |-> trigger]

\* A share blocks its price, less the product's leverage.
MCRate == [pr \in Product |-> IF pr = "MIS" THEN 1 ELSE 2]

\* Delivery bought, and sold in a larger size; an intraday stop, and an intraday
\* order that cannot wait.
SerialTickets ==
  {Req("CNC", "BUY", "MARKET", 1, 0, 0), Req("CNC", "SELL", "LIMIT", 2, 2, 0),
   Req("MIS", "SELL", "SL", 2, 1, 1),
   [Req("MIS", "BUY", "LIMIT", 1, 1, 0) EXCEPT !.validity = "IOC"]}

\* The same contract traded by calls that overtake each other.
OverlapTickets ==
  {Req("CNC", "BUY", "MARKET", 2, 0, 0), Req("CNC", "SELL", "LIMIT", 1, 2, 0)}
=============================================================================
