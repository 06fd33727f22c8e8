----------------------------- MODULE MirrorBooks -----------------------------
(***************************************************************************)
(* One Live Intraday book (services/live_intraday_mirror.py): a small      *)
(* account that copies the tournament's trades.  A pass (sync) replays, in *)
(* time order, what the tournament did since the last pass, and writes the *)
(* copies; passes are serialised by _sync_lock, some of them close only    *)
(* (the manage cycle, the close-out job), others enter too (the shared     *)
(* loop).  The tournament's positions appear and close while a pass is     *)
(* under way, and some are written later than the time they carry.  A      *)
(* reset (services/book_reset.py) takes no lock, deletes the rows first    *)
(* and records itself afterwards.                                          *)
(*                                                                         *)
(* Failures covered: the process stops between any two steps of a pass or  *)
(* of a reset, and a reset raises between two of its steps.  An exception  *)
(* inside a pass leaves what a stop of the pass leaves.                    *)
(*                                                                         *)
(* A copy is known by its parent, as the unique index on                   *)
(* (book, parent_position_id) has it.  Fees drop out: a copy gains or      *)
(* loses a whole number of units per share.  Trade rows, scores and marks  *)
(* are reports made of the rows and are left out.                          *)
(***************************************************************************)
EXTENDS Integers, FiniteSetsExt, Functions

CONSTANTS
  Parent,       \* the tournament's positions, numbered
  Stock,        \* the symbol of each
  Price,        \* the entry price of each
  Gain,         \* what a share of one may gain
  Capital,      \* the book's capital
  MaxOpen,      \* MAX_OPEN: positions at a time
  Lag,          \* how much later than its time a position is written; a bound
  LastTime,     \* the clock runs from 0; a bound
  MaxTroubles,  \* resets, failures of a reset and stops of the process; a bound
  RaceReset     \* whether a reset may run beside a pass

ASSUME MirrorAssumption ==
  /\ Parent \subseteq Nat /\ IsFiniteSet(Parent) /\ DOMAIN Stock = Parent
  /\ Price \in [Parent -> Nat \ {0}] /\ Gain \subseteq Int
  /\ \A p \in Parent, g \in Gain : Price[p] + g >= 0
  /\ Capital \in Nat /\ MaxOpen \in Nat \ {0} /\ Lag \in Nat /\ LastTime \in Nat
  /\ MaxTroubles \in Nat /\ RaceReset \in BOOLEAN

VARIABLES
  clock,
  parent,       \* intraday_lab_positions: the tournament's positions
  row,          \* live_intraday_positions of the book: the copies
  skipped,      \* the ids in the book's mirror_skipped documents
  resetAt,      \* book_resets: the last reset's time
  pc,           \* the pass under way: its next step,
  entries,      \*   whether it may enter,
  floor,        \*   the earliest entry it may copy,
  open,         \*   the open rows it read,
  plan,         \*   what plan_book told it to write
  wiping,       \* the reset under way: when it began and the rows it read
  wiped,        \* history: when the last reset that deleted rows began, recorded or not
  troubles

world == <<clock, parent>>
books == <<row, skipped, resetAt>>
pass  == <<pc, entries, floor, open, plan>>
admin == <<wiping, wiped>>
vars  == <<world, books, pass, admin, troubles>>

-----------------------------------------------------------------------------
Time == 0..LastTime

NoParent == [status |-> "NONE", opened |-> 0, closed |-> 0, gain |-> 0, written |-> 0]
ParentRow == [status : {"NONE", "OPEN", "CLOSED"}, opened : Time, closed : Time,
              gain : Gain \cup {0}, written : Time]

NoRow == [status |-> "NONE", qty |-> 0, opened |-> 0, closed |-> 0, gain |-> 0]
Row   == [status : {"NONE", "OPEN", "CLOSED"}, qty : Nat, opened : Time, closed : Time,
          gain : Gain \cup {0}]

\* Copies by their parent; one that is not there has status NONE.
Copies   == [Parent -> Row]
NoCopies == [p \in Parent |-> NoRow]
Ids(copies) == {p \in Parent : copies[p].status # "NONE"}

\* closes: rows to close, with the parent as read; opens: rows to insert; skips: ids.
NoPlan == [closes |-> NoCopies, opens |-> NoCopies, skips |-> {}]
NoWipe == [at |-> 0, rows |-> {}, step |-> "none"]

TypeOK ==
  /\ clock \in Time /\ parent \in [Parent -> ParentRow] /\ row \in Copies
  /\ \A p \in Parent : row[p].status # "NONE" => row[p].qty > 0
  /\ skipped \subseteq Parent /\ resetAt \in Time /\ wiped \in Time
  /\ pc \in {"idle", "read", "write"} /\ entries \in BOOLEAN
  /\ floor \in Time /\ open \in Copies
  /\ plan \in [closes : Copies, opens : Copies, skips : SUBSET Parent]
  /\ wiping \in [at : Time, rows : SUBSET Parent, step : {"none", "delete", "record"}]
  /\ troubles \in 0..MaxTroubles

Init ==
  /\ clock = 0 /\ parent = [p \in Parent |-> NoParent]
  /\ row = NoCopies /\ skipped = {} /\ resetAt = 0
  /\ pc = "idle" /\ entries = FALSE /\ floor = 0 /\ open = NoCopies /\ plan = NoPlan
  /\ wiping = NoWipe /\ wiped = 0 /\ troubles = 0

-----------------------------------------------------------------------------
(* plan_book: the decision, from a book r, its open rows and the parents   *)
(* in scope.  A close frees its slot, its stock and its cash at its own    *)
(* time, before the entries of that time; so an entry at t sees            *)
(*   - the open rows, unless their parent closed by t,                     *)
(*   - the closed rows that closed after t (REWIND),                       *)
(*   - the copies this replay has taken, unless their parent closed by t.  *)

Spend(p, r)  == Price[p] * r.qty
Profit(r)    == r.gain * r.qty
Return(p, r) == Spend(p, r) + Profit(r)

\* The copy of p with n shares, closed with its parent if that is closed.
CopyOf(p, n) ==
  [status |-> parent[p].status, qty |-> n, opened |-> parent[p].opened,
   closed |-> parent[p].closed, gain |-> parent[p].gain]

ClosedBy(p, t) == parent[p].status = "CLOSED" /\ parent[p].closed <= t

OpenRows   == {p \in Parent : row[p].status = "OPEN"}
ClosedRows == {p \in Parent : row[p].status = "CLOSED"}

\* Mutant of Replayed: the replay starts from the book as it is now.
ReplayedNone(t) == {}

\* The rows closed after the first entry to decide (pending_since, closed_after)
\* are put back and freed at their own time: at t, those not closed yet are held.
Replayed(t) == {p \in ClosedRows : row[p].closed > t}

\* What the closed rows made, and what the rows still open cost.
Realized == SumFunction([p \in ClosedRows |-> Profit(row[p])])
Spent    == SumFunction([p \in OpenRows |-> Spend(p, row[p])])
Cost(taken) == SumFunction([p \in Ids(taken) |-> Spend(p, taken[p])])

\* Mutant of CashAt: what the closed rows lost is not counted.
CashUnrealized(t, taken) == Capital - Spent - Cost(taken)

\* plan_book's cash before its first event, its rewind included, and what it is at t:
\* taken are the copies of this replay, Freed what came back by then.
CashAt(t, taken) ==
  LET Freed(copies) == SumFunction([p \in {q \in Ids(copies) : ClosedBy(q, t)} |->
                                      Return(p, CopyOf(p, copies[p].qty))])
  IN  Capital + Realized - Spent - SumFunction([p \in Replayed(t) |-> Return(p, row[p])])
        - Cost(taken) + Freed(open) + Freed(taken)

HeldAt(t, taken) ==
  Replayed(t) \cup {p \in Ids(open) \cup Ids(taken) : ~ClosedBy(p, t)}

Shares(p, cash) == Min({Capital \div MaxOpen, Max({cash, 0})}) \div Price[p]

\* Mutants of Refused: the stock is not looked at; no share is bought.
RefusedNotByStock(p, taken, breaker) ==
  LET t == parent[p].opened
  IN  \/ breaker
      \/ Cardinality(HeldAt(t, taken)) >= MaxOpen
      \/ Shares(p, CashAt(t, taken)) < 1

RefusedAtAnySize(p, taken, breaker) ==
  LET t == parent[p].opened
  IN  \/ breaker
      \/ Cardinality(HeldAt(t, taken)) >= MaxOpen
      \/ \E q \in HeldAt(t, taken) : Stock[q] = Stock[p]

\* Whether the entry p is taken, after the copies in taken.
Refused(p, taken, breaker) ==
  LET t == parent[p].opened
  IN  \/ breaker
      \/ Cardinality(HeldAt(t, taken)) >= MaxOpen
      \/ \E q \in HeldAt(t, taken) : Stock[q] = Stock[p]
      \/ Shares(p, CashAt(t, taken)) < 1

\* Entries in the order the tournament took them.
Earlier(p, q) ==
  parent[p].opened < parent[q].opened \/ (parent[p].opened = parent[q].opened /\ p < q)

InScope ==
  {p \in Parent : parent[p].status # "NONE" /\ (parent[p].opened >= floor \/ p \in Ids(open))}

\* Mutant of Pending: what was skipped is not read.
PendingAgain == IF entries THEN {p \in InScope : row[p].status = "NONE" /\ p \notin Ids(open)} ELSE {}

Pending == IF entries THEN {p \in InScope : row[p].status = "NONE" /\ p \notin skipped \cup Ids(open)} ELSE {}

\* One entry of the replay, after the copies taken before it.
Taking(p, taken, breaker) ==
  IF Refused(p, taken, breaker) THEN taken
  ELSE [taken EXCEPT ![p] = CopyOf(p, Shares(p, CashAt(parent[p].opened, taken)))]

\* The replay takes up the latest of S after the others.
Latest(S) == CHOOSE p \in S : \A q \in S : q = p \/ Earlier(q, p)

Entered(breaker) ==
  MapThenFoldSet(LAMBDA p, taken : Taking(p, taken, breaker), NoCopies, LAMBDA p : p,
                 Latest, Pending)

\* Mutant of PlanBook: no copy is recognised as this book's (the tag of another desk).
PlanBookUntagged(breaker) ==
  LET taken == Entered(breaker)
  IN  [closes |-> NoCopies, opens |-> taken, skips |-> Pending \ Ids(taken)]

PlanBook(breaker) ==
  LET taken == Entered(breaker)
      ended == {p \in Ids(open) : parent[p].status = "CLOSED"}
  IN  [closes |-> [p \in Parent |-> IF p \in ended THEN CopyOf(p, open[p].qty) ELSE NoRow],
       opens  |-> taken,
       skips  |-> Pending \ Ids(taken)]

-----------------------------------------------------------------------------
(* A pass: sync, _sync.                                                    *)

\* Mutant of Begin: the floor is when copying began.
BeginUnfloored ==
  /\ pc = "idle" /\ (RaceReset \/ wiping.step = "none")
  /\ entries' \in BOOLEAN
  /\ floor' = 0 /\ open' = [p \in Parent |-> IF p \in OpenRows THEN row[p] ELSE NoRow]
  /\ pc' = "read"
  /\ UNCHANGED <<world, books, plan, admin, troubles>>

\* The lock is taken; the floor and the open rows are read.
Begin ==
  /\ pc = "idle" /\ (RaceReset \/ wiping.step = "none")
  /\ entries' \in BOOLEAN
  /\ floor' = resetAt /\ open' = [p \in Parent |-> IF p \in OpenRows THEN row[p] ELSE NoRow]
  /\ pc' = "read"
  /\ UNCHANGED <<world, books, plan, admin, troubles>>

\* The parents, the totals, the breaker, what is decided, the closed rows; the plan.
ReadAndPlan ==
  /\ pc = "read"
  /\ \E breaker \in BOOLEAN : plan' = PlanBook(entries /\ breaker)
  /\ pc' = "write" /\ entries' = FALSE /\ floor' = 0 /\ open' = NoCopies
  /\ UNCHANGED <<world, books, admin, troubles>>

\* In the order of the closes; update_one has status OPEN in its filter.
WriteClose ==
  /\ pc = "write" /\ Ids(plan.closes) # {}
  /\ \E p \in Ids(plan.closes) :
       /\ \A q \in Ids(plan.closes) : plan.closes[p].closed <= plan.closes[q].closed
       /\ row' = [row EXCEPT ![p] = IF @.status = "OPEN" THEN plan.closes[p] ELSE @]
       /\ plan' = [plan EXCEPT !.closes = [@ EXCEPT ![p] = NoRow]]
  /\ UNCHANGED <<world, skipped, resetAt, pc, entries, floor, open, admin, troubles>>

\* insert_one; the unique index refuses a parent that is copied already.
WriteOpen ==
  /\ pc = "write" /\ Ids(plan.closes) = {} /\ Ids(plan.opens) # {}
  /\ \E p \in Ids(plan.opens) :
       /\ \A q \in Ids(plan.opens) : p = q \/ Earlier(p, q)
       /\ row' = [row EXCEPT ![p] = IF @.status = "NONE" THEN plan.opens[p] ELSE @]
       /\ plan' = [plan EXCEPT !.opens = [@ EXCEPT ![p] = NoRow]]
  /\ UNCHANGED <<world, skipped, resetAt, pc, entries, floor, open, admin, troubles>>

\* The skipped ids are added to the day's document; the pass is over.
WriteSkips ==
  /\ pc = "write" /\ Ids(plan.closes) = {} /\ Ids(plan.opens) = {}
  /\ skipped' = skipped \cup plan.skips
  /\ pc' = "idle" /\ plan' = NoPlan
  /\ UNCHANGED <<world, row, resetAt, entries, floor, open, admin, troubles>>

-----------------------------------------------------------------------------
(* A reset of the book: book_reset.reset.                                  *)

ResetRead ==
  /\ wiping.step = "none" /\ troubles < MaxTroubles /\ (RaceReset \/ pc = "idle")
  /\ wiping' = [at |-> clock, rows |-> OpenRows \cup ClosedRows, step |-> "delete"]
  /\ troubles' = troubles + 1
  /\ UNCHANGED <<world, books, pass, wiped>>

ResetDelete ==
  /\ wiping.step = "delete"
  /\ row' = [p \in Parent |-> IF p \in wiping.rows THEN NoRow ELSE row[p]]
  /\ wiped' = wiping.at
  /\ wiping' = [wiping EXCEPT !.step = "record", !.rows = {}]
  /\ UNCHANGED <<world, skipped, resetAt, pass, troubles>>

ResetRecord ==
  /\ wiping.step = "record"
  /\ resetAt' = wiping.at
  /\ wiping' = NoWipe
  /\ UNCHANGED <<world, row, skipped, pass, wiped, troubles>>

\* A step of the reset raises: the request fails, no pass is touched.
ResetFails ==
  /\ troubles < MaxTroubles /\ wiping.step # "none"
  /\ troubles' = troubles + 1
  /\ wiping' = NoWipe
  /\ UNCHANGED <<world, books, pass, wiped>>

-----------------------------------------------------------------------------
(* The tournament (external), time, and the process.                       *)

\* A position is written up to Lag after the time it carries.
TournamentOpens(p) ==
  /\ parent[p].status = "NONE"
  /\ \E t \in Time :
       /\ t <= clock /\ clock - t <= Lag
       /\ parent' = [parent EXCEPT ![p] = [NoParent EXCEPT !.status = "OPEN", !.opened = t,
                                                            !.written = clock]]
  /\ UNCHANGED <<clock, books, pass, admin, troubles>>

\* So is its close; a position closes after it was written.
TournamentCloses(p) ==
  /\ parent[p].status = "OPEN"
  /\ \E t \in Time, g \in Gain :
       /\ t <= clock /\ clock - t <= Lag /\ t > parent[p].written
       /\ parent' = [parent EXCEPT ![p].status = "CLOSED", ![p].closed = t, ![p].gain = g]
  /\ UNCHANGED <<clock, books, pass, admin, troubles>>

Tick ==
  /\ clock < LastTime
  /\ clock' = clock + 1
  /\ UNCHANGED <<parent, books, pass, admin, troubles>>

\* The process stops inside a pass or a reset: what was under way is gone, what was written
\* stays.  A reset may have deleted and not recorded itself.
Crash ==
  /\ troubles < MaxTroubles /\ (pc # "idle" \/ wiping.step # "none")
  /\ troubles' = troubles + 1
  /\ pc' = "idle" /\ entries' = FALSE /\ floor' = 0 /\ open' = NoCopies /\ plan' = NoPlan
  /\ wiping' = NoWipe
  /\ UNCHANGED <<world, books, wiped>>

PassStep == Begin \/ ReadAndPlan \/ WriteClose \/ WriteOpen \/ WriteSkips

Next ==
  \/ PassStep
  \/ ResetRead \/ ResetDelete \/ ResetRecord \/ ResetFails
  \/ \E p \in Parent : TournamentOpens(p) \/ TournamentCloses(p)
  \/ Tick \/ Crash

Spec == Init /\ [][Next]_vars

\* The close-out job and the shared loop run passes for ever, and every await of a pass
\* ends; nothing is assumed of entries, which the module's switch may stop.
\* (Only ReadAndPlan takes pc from "read" to "write".)
Fairness ==
  /\ WF_vars(Begin)
  /\ WF_pc(pc = "read" /\ pc' = "write")
  /\ WF_vars(WriteClose \/ WriteOpen \/ WriteSkips)
  /\ WF_vars(ResetDelete \/ ResetRecord)
FairSpec == Spec /\ Fairness

-----------------------------------------------------------------------------
(* What the book shows on the trades' own clock: at a time t it holds the  *)
(* copies opened by t and not closed by t.                                 *)

HeldOnClock(t) == {p \in OpenRows \cup ClosedRows :
                     row[p].opened <= t /\ (row[p].status = "OPEN" \/ row[p].closed > t)}

CashOnClock(t) ==
  Capital + SumFunction([p \in {q \in ClosedRows : row[q].closed <= t} |-> Profit(row[p])])
          - SumFunction([p \in HeldOnClock(t) |-> Spend(p, row[p])])

\* In whatever order passes ran, and whenever the process stopped, the book never held
\* more than MAX_OPEN positions at one time of the trades' own clock.
SlotsHold == \A t \in Time : Cardinality(HeldOnClock(t)) <= MaxOpen

\* Nor two positions in one stock.
OneStock == \A t \in Time : \A p, q \in HeldOnClock(t) : Stock[p] = Stock[q] => p = q

\* Nor did it spend money it did not have.
CashHolds == \A t \in Time : CashOnClock(t) >= 0

\* What a step may do to the decision on one trade.
Stands(p) ==
  /\ row[p].status # "NONE" /\ row'[p].status # "NONE" =>
       /\ row'[p].qty = row[p].qty /\ row'[p].opened = row[p].opened
       /\ row[p].status = "CLOSED" => row'[p] = row[p]
  /\ row[p].status # "NONE" /\ row'[p].status = "NONE" => wiping.step = "delete"
  /\ p \in skipped => row'[p].status = row[p].status \/ row[p].status # "NONE"

\* A decision stands: a copy keeps its size and its times and closes once, and a trade that
\* was skipped is never taken later, whatever pass, retry or restart comes; only a reset
\* deletes.
DecisionsStand == [][\A p \in Parent : Stands(p)]_vars

\* A reset that was recorded holds: whatever passes, stops and later resets follow, the book
\* has no copy of a trade the tournament opened before it.
ResetHolds == \A p \in Parent : row[p].status # "NONE" => row[p].opened >= resetAt

\* book_reset.py's claim that a book stays reset, for every reset that emptied it.  The code
\* does not keep it: a pass that runs beside the reset writes copies it planned before
\* (mirror_race.cfg), and a reset that stops after its deletes never moves the floor
\* (mirror_stop.cfg).
StaysReset == \A p \in Parent : row[p].status # "NONE" => row[p].opened >= wiped

\* The copies still open although their parents have closed.
Overdue == {p \in OpenRows : parent[p].status = "CLOSED"}

\* The book catches up: a time comes when no copy is overdue, whatever broke passes off, so
\* every copy whose parent has closed is closed in the end.
CopiesClose == Overdue # {} ~> Overdue = {}
=============================================================================
