----------------------------- MODULE PaperBook ------------------------------
(***************************************************************************)
(* What the paper broker promises about its order book and its positions,  *)
(* as the header of orders.py states it: an order is a record from the     *)
(* moment it is accepted, it moves from its resting states to one final    *)
(* state and stays there, and a position moves only by an order that       *)
(* completes, once, together with that order.                              *)
(***************************************************************************)
EXTENDS Integers

CONSTANTS
  Id,            \* orders, the square-off's own ones included
  Products,      \* the products an account may hold
  DeliveryOnly   \* those among them that cannot go short

VARIABLES
  status,        \* of each order
  net            \* shares of each product, positions and holdings together

Resting == {"PENDING", "TRIGGER_PENDING"}
Final   == {"COMPLETE", "CANCELLED", "REJECTED", "EXPIRED"}

Init ==
  /\ status = [i \in Id |-> "NONE"]
  /\ net = [p \in Products |-> 0]

\* An order comes to rest, is armed or re-armed.
Rest(i, s) ==
  /\ status[i] \notin Final /\ status' = [status EXCEPT ![i] = s]
  /\ UNCHANGED net

\* An order completes: the order, and the position it fills into, in one step.
Fill(i) ==
  /\ status[i] \notin Final /\ status' = [status EXCEPT ![i] = "COMPLETE"]
  /\ \E p \in Products :
       /\ net'[p] \in Int \ {net[p]} /\ (p \in DeliveryOnly => net'[p] >= 0)
       /\ net' = [net EXCEPT ![p] = net'[p]]

\* An order ends without a fill.
Drop(i, s) ==
  /\ status[i] \notin Final /\ status' = [status EXCEPT ![i] = s]
  /\ UNCHANGED net

\* The session ends for orders that rest.
Expire(dead) ==
  /\ status' = [i \in Id |-> IF i \in dead THEN "EXPIRED" ELSE status[i]]
  /\ UNCHANGED net

Next ==
  \/ \E i \in Id, s \in Resting : Rest(i, s)
  \/ \E i \in Id : Fill(i)
  \/ \E i \in Id, s \in {"CANCELLED", "REJECTED"} : Drop(i, s)
  \/ \E dead \in SUBSET {i \in Id : status[i] \in Resting} : Expire(dead)

Spec == Init /\ [][Next]_<<status, net>>
=============================================================================
