------------------------------- MODULE FnoRoll -------------------------------
(***************************************************************************)
(* The daily roll of an F&O paper account: close every open option, then   *)
(* sell one at-the-money straddle.  Two programs do it, each on an account *)
(* of its own: services/fno_auto_roll.py on the index, which stops at the  *)
(* first failure and sells the pair as one basket, and                     *)
(* services/fno_stock_roll.py on the stocks, which goes on after a failure *)
(* and sells leg by leg.  Both fill through services/fno_positions.py      *)
(* (exit_position, execute_basket, place_order, _fill), and so do the      *)
(* operator's own exits.                                                   *)
(*                                                                         *)
(* One account is followed; account says which program rolls it.  Positions*)
(* are counted in lots, short ones negative; of a stock account those of   *)
(* one stock are followed.  Spot, expiry and strike are resolved before    *)
(* anything is closed: a roll that resolves nothing changes nothing and is *)
(* left out, but the stock roll closes what it holds of a stock that its   *)
(* plan had to skip.  Margin and quotes are left to chance.                *)
(***************************************************************************)
EXTENDS Integers, FiniteSets, Functions

CONSTANTS
  Accounts,      \* which accounts are followed: subset of {"index", "stock"}
  Strikes, Lots,
  None,
  Overlap,       \* requests may run beside one another
  Again,         \* the operator may run the roll after the day's roll is marked
  MaxFaults,     \* bound: failures and crashes
  MaxRequests,   \* bound: rolls and exits the operator asks for
  MaxRows,       \* bound: positions open or held at once
  LastTime       \* bound: thirds of days

Wings     == {"CE", "PE"}
Contracts == Strikes \X Wings
Rows      == 1..MaxRows
Runners   == {"scheduler", "operator", "exit"}   \* the tick, POST .../run, POST .../exit
Before == 0
Window == 1
After  == 2

ASSUME RollAssumption ==
  /\ Accounts \subseteq {"index", "stock"} /\ Accounts # {}
  /\ Lots \in Nat \ {0} /\ Overlap \in BOOLEAN /\ Again \in BOOLEAN
  /\ None \notin Contracts /\ None \notin Strikes
  /\ MaxFaults \in Nat /\ MaxRequests \in Nat /\ MaxRows \in Nat /\ LastTime \in Nat

VARIABLES
  account,   \* which of the two programs rolls this account
  time,      \* before, inside and after the window, day after day
  rows,      \* fno_positions: contract and lots of each open position
  done,      \* last_rolled_on / last_session: the last day marked
  job,       \* each request: where it is and what it has read
  faults, requests,
  missed,    \* history: positions a stock roll could not close
  broken     \* history: the last roll of today closed positions and did not end well

vars == <<account, time, rows, done, job, faults, requests, missed, broken>>

Day   == time \div 3
Today == Day + 1
Phase == time % 3
Free  == [c |-> None, lots |-> 0]
Open  == {i \in Rows : rows[i] # Free}
Idle  == [at |-> "idle", strike |-> None, todo |-> {}, closed |-> 0, failed |-> FALSE,
          wing |-> "CE", selling |-> FALSE, c |-> None, order |-> 0, seen |-> 0, had |-> 0]

Labels == {"idle", "close", "find", "write", "price", "leg", "record"}

TypeOK ==
  /\ account \in Accounts /\ time \in 0..LastTime
  /\ rows \in [Rows -> [c : Contracts \cup {None}, lots : Int]]
  /\ \A i \in Rows : rows[i].c = None <=> rows[i].lots = 0
  /\ done \in 0..Today
  /\ job \in [Runners -> [at : Labels, strike : Strikes \cup {None}, todo : SUBSET Rows,
                          closed : 0..MaxRows, failed : BOOLEAN, wing : Wings,
                          selling : BOOLEAN, c : Contracts \cup {None}, order : Int,
                          seen : 0..MaxRows, had : Int]]
  /\ faults \in 0..MaxFaults /\ requests \in 0..MaxRequests /\ missed \in 0..MaxFaults
  /\ broken \in BOOLEAN

Init ==
  /\ account \in Accounts /\ time = 0
  /\ rows = [i \in Rows |-> Free] /\ done = 0
  /\ job = [r \in Runners |-> Idle]
  /\ faults = 0 /\ requests = 0 /\ missed = 0 /\ broken = FALSE

-----------------------------------------------------------------------------
(* Starting.  The scheduler rolls in the window of a day not marked yet;   *)
(* the operator's roll asks nothing.  The strike is the one at the money   *)
(* now, and the positions to close are listed.                             *)

Quiet(r) == Overlap \/ \A q \in Runners : job[q] = Idle

DueOnce == Phase = Window /\ done # Today /\ ~broken

Due == Phase = Window /\ done # Today

BeginRoll(r, strike) ==
  /\ job[r] = Idle /\ Quiet(r)
  /\ \/ r = "scheduler" /\ Due /\ UNCHANGED requests
     \/ r = "operator" /\ (Again \/ done # Today)
        /\ requests < MaxRequests /\ requests' = requests + 1
  /\ job' = [job EXCEPT ![r] = [Idle EXCEPT !.at = "close", !.strike = strike, !.todo = Open]]
  /\ UNCHANGED <<account, time, rows, done, faults, missed, broken>>

BeginExit(i) ==
  /\ job["exit"] = Idle /\ Quiet("exit")
  /\ i \in Open /\ requests < MaxRequests /\ requests' = requests + 1
  /\ job' = [job EXCEPT !["exit"] = [Idle EXCEPT !.at = "close", !.todo = {i}]]
  /\ UNCHANGED <<account, time, rows, done, faults, missed, broken>>

-----------------------------------------------------------------------------
(* exit_position: the position is looked up by its id, then priced.  What  *)
(* fails is remembered: it stops the index roll, the stock roll goes on.   *)

Fault == faults < MaxFaults /\ faults' = faults + 1

CloseNext(r, i) ==
  /\ job[r].at = "close" /\ i \in job[r].todo
  /\ LET rest == [job[r] EXCEPT !.todo = @ \ {i}]
     IN  \/ /\ i \in Open
            /\ job' = [job EXCEPT ![r] = [rest EXCEPT !.at = "find", !.c = rows[i].c,
                                            !.order = -rows[i].lots]]
            /\ UNCHANGED <<faults, missed>>
         \/ /\ i \notin Open                              \* already closed
            /\ job' = [job EXCEPT ![r] = [rest EXCEPT !.failed = TRUE]]
            /\ UNCHANGED <<faults, missed>>
         \/ /\ i \in Open /\ Fault                        \* no live quote
            /\ job' = [job EXCEPT ![r] = [rest EXCEPT !.failed = TRUE]]
            /\ missed' = missed + 1
  /\ UNCHANGED <<account, time, rows, done, requests, broken>>

MayReopenAnyway(j) == j.failed => j.closed > 0

\* The index roll sells only if everything closed; the stock roll unless nothing did.
MayReopen(j) == IF account = "index" THEN ~j.failed ELSE j.failed => j.closed > 0

\* The pair as one basket, or leg by leg; nothing of a stock the plan skips.
Reopening == IF account = "index" THEN {"price"} ELSE {"leg", "record"}

AllClosed(r) ==
  /\ job[r].at = "close" /\ job[r].todo = {}
  /\ \E next \in Reopening :
       job' = [job EXCEPT ![r] = IF r # "exit" /\ MayReopen(@) THEN [@ EXCEPT !.at = next] ELSE Idle]
  /\ broken' = (broken \/ (r # "exit" /\ ~MayReopen(job[r]) /\ job[r].closed > 0))
  /\ UNCHANGED <<account, time, rows, done, faults, requests, missed>>

-----------------------------------------------------------------------------
(* execute_basket: every leg is priced and the pair passes one margin gate *)
(* before the first is filled.                                             *)

PriceBasketMarked(r) ==
  /\ job[r].at = "price"
  /\ \/ job' = [job EXCEPT ![r].at = "leg"] /\ UNCHANGED <<faults, done, broken>>
     \/ Fault /\ job' = [job EXCEPT ![r] = Idle] /\ broken' = TRUE /\ done' = Today
  /\ UNCHANGED <<account, time, rows, requests, missed>>

PriceBasket(r) ==
  /\ job[r].at = "price"
  /\ \/ job' = [job EXCEPT ![r].at = "leg"] /\ UNCHANGED <<faults, broken>>
     \/ Fault /\ job' = [job EXCEPT ![r] = Idle] /\ broken' = TRUE
  /\ UNCHANGED <<account, time, rows, done, requests, missed>>

\* What follows a leg: the put after the call, then the record.
Read(j)    == [j EXCEPT !.c = None, !.order = 0, !.seen = 0, !.had = 0]
NextLeg(j) == IF j.wing = "CE" THEN [Read(j) EXCEPT !.at = "leg", !.wing = "PE"]
              ELSE [Read(j) EXCEPT !.at = "record"]

SellLegSkipped(r) ==
  /\ job[r].at = "leg"
  /\ \/ /\ job' = [job EXCEPT ![r] = [@ EXCEPT !.at = "find", !.selling = TRUE,
                                      !.c = <<job[r].strike, job[r].wing>>, !.order = -Lots]]
        /\ UNCHANGED faults
     \/ /\ Fault
        /\ job' = [job EXCEPT ![r] = NextLeg(@)]
  /\ UNCHANGED <<account, time, rows, done, requests, missed, broken>>

SellLeg(r) ==
  /\ job[r].at = "leg"
  /\ \/ /\ job' = [job EXCEPT ![r] = [@ EXCEPT !.at = "find", !.selling = TRUE,
                                      !.c = <<job[r].strike, job[r].wing>>, !.order = -Lots]]
        /\ UNCHANGED faults
     \/ /\ account = "stock" /\ Fault                      \* place_order: no live quote
        /\ job' = [job EXCEPT ![r] = NextLeg(@)]
  /\ UNCHANGED <<account, time, rows, done, requests, missed, broken>>

-----------------------------------------------------------------------------
(* _fill: the open position in the contract is read; spot, group and cash  *)
(* are awaited; then what was read decides what is written.                *)

FindExisting(r) ==
  /\ job[r].at = "find"
  /\ LET found == {i \in Open : rows[i].c = job[r].c}
     IN  \/ /\ found = {}
            /\ job' = [job EXCEPT ![r] = [@ EXCEPT !.at = "write"]]
         \/ \E i \in found :
              job' = [job EXCEPT ![r] = [@ EXCEPT !.at = "write", !.seen = i, !.had = rows[i].lots]]
  /\ UNCHANGED <<account, time, rows, done, faults, requests, missed, broken>>

\* An id nobody holds: a new position's id is never one that was listed or read before.
Held   == UNION {job[r].todo \cup {job[r].seen} : r \in Runners}
Unused == {i \in Rows \ Open : i \notin Held}
NewRow == CHOOSE i \in Unused : TRUE

Opening(j) == j.had = 0 \/ (j.had > 0 <=> j.order > 0)
Size(n)    == IF n < 0 THEN -n ELSE n

WrittenOpen(j) ==
  LET sum == j.had + j.order
  IN  IF j.seen = 0 THEN [rows EXCEPT ![NewRow] = [c |-> j.c, lots |-> j.order]]
      ELSE [rows EXCEPT ![j.seen].lots = sum]

\* The order is carried out on what was read: a position read open is set to the sum,
\* whatever it holds by now; one closed meanwhile stays closed.
Written(j) ==
  LET sum == j.had + j.order
  IN  IF j.seen = 0 THEN [rows EXCEPT ![NewRow] = [c |-> j.c, lots |-> j.order]]
      ELSE IF j.seen \notin Open THEN rows
      ELSE [rows EXCEPT ![j.seen] = IF sum = 0 THEN Free ELSE [@ EXCEPT !.lots = sum]]

\* What a fill that raises leaves: an exit goes on to the next position and remembers,
\* the basket ends the roll, the stock roll goes on to its next leg.
Raised(j) == IF ~j.selling THEN [Read(j) EXCEPT !.at = "close", !.failed = TRUE]
             ELSE IF account = "index" THEN Idle ELSE NextLeg(j)

Write(r) ==
  /\ job[r].at = "write"
  /\ LET j == job[r]
         raises == ~Opening(j) /\ Size(j.had) < Size(j.order)
         gated  == Opening(j) /\ (~j.selling \/ account = "stock")
     IN  \/ /\ ~raises /\ (j.seen = 0 => Unused # {})
            /\ rows' = Written(j)
            /\ job' = [job EXCEPT ![r] = IF j.selling THEN NextLeg(j)
                         ELSE [Read(j) EXCEPT !.at = "close", !.closed = @ + 1]]
            /\ UNCHANGED <<faults, broken>>
         \/ /\ raises \/ gated                             \* too few open, or no margin
            /\ IF raises THEN UNCHANGED faults ELSE Fault
            /\ job' = [job EXCEPT ![r] = Raised(j)]
            /\ broken' = (broken \/ (j.selling /\ account = "index"))
            /\ UNCHANGED rows
  /\ UNCHANGED <<account, time, done, requests, missed>>

-----------------------------------------------------------------------------
(* _record, and the stock roll's session mark: only the end of a roll that *)
(* came this far marks the day.                                            *)

Record(r) ==
  /\ job[r].at = "record"
  /\ done' = Today /\ broken' = FALSE
  /\ job' = [job EXCEPT ![r] = Idle]
  /\ UNCHANGED <<account, time, rows, faults, requests, missed>>

-----------------------------------------------------------------------------
(* The server stops: every request is lost, what was written stays.        *)

Crash ==
  /\ \E r \in Runners : job[r] # Idle
  /\ Fault
  /\ broken' = (broken \/ \E r \in Runners \ {"exit"} : job[r] # Idle /\ job[r].closed > 0)
  /\ job' = [r \in Runners |-> Idle]
  /\ UNCHANGED <<account, time, rows, done, requests, missed>>

\* A request takes minutes: none lasts into the next day.
Tick ==
  /\ time < LastTime
  /\ Phase = After => \A r \in Runners : job[r] = Idle
  /\ time' = time + 1
  /\ broken' = (broken /\ Phase # After)
  /\ UNCHANGED <<account, rows, done, job, faults, requests, missed>>

Step(r) ==
  \/ \E i \in Rows : CloseNext(r, i)
  \/ AllClosed(r) \/ PriceBasket(r) \/ SellLeg(r)
  \/ FindExisting(r) \/ Write(r) \/ Record(r)

Next ==
  \/ \E r \in {"scheduler", "operator"}, k \in Strikes : BeginRoll(r, k)
  \/ \E i \in Rows : BeginExit(i)
  \/ \E r \in Runners : Step(r)
  \/ Crash
  \/ Tick

Spec == Init /\ [][Next]_vars

\* The tick loop runs for as long as the server does, and every request runs on.
FairSpec ==
  /\ Spec
  /\ WF_vars(\E k \in Strikes : BeginRoll("scheduler", k))
  /\ \A r \in Runners : WF_vars(Step(r))

-----------------------------------------------------------------------------
Sum(w) == SumFunction([i \in {k \in Open : rows[k].c[2] = w} |-> rows[i].lots])

\* A half-finished roll is undone by the next attempt, never doubled: however often rolls
\* fail, stop half way or are repeated, each wing is short the day's lots at most, and the
\* account holds nothing long.  A stock roll goes on after a failed close, so each position
\* it could not close may add one round.
NoDoubling ==
  /\ \A i \in Rows : rows[i].lots <= 0
  /\ \A w \in Wings : Sum(w) >= -Lots * (1 + IF account = "index" THEN 0 ELSE missed)

\* The day of an index account is marked only by a roll that leaves exactly the straddle:
\* both wings of one strike, nothing else open.
MarkedHoldsStraddle ==
  [][account = "index" /\ done' # done =>
       \E k \in Strikes : {rows[i] : i \in Open} =
                            {[c |-> <<k, w>>, lots |-> -Lots] : w \in Wings}
                          /\ Cardinality(Open) = 2]_vars

\* A roll that closed positions and then failed leaves the day unmarked, so that the next
\* tick inside the window tries again.
FailedIsRetried == account = "index" /\ broken => done # Today

\* A due roll is carried out: whatever fails and however often the server stops, once that
\* ends the day is marked, unless the window closes first.
DueIsRolled == (Due ~> (done = Today \/ Phase # Window))
=============================================================================
