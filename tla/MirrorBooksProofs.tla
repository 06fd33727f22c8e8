------------------------- MODULE MirrorBooksProofs -------------------------
(* What holds of a Live Intraday book for every tournament, stock, price    *)
(* and capital, whenever the process stops: first of a plan, then of the    *)
(* passes that write it.                                                    *)
EXTENDS MirrorBooks, FoldProofs

\* Held at t, as far as the copies of a book can tell: not closed by then, whenever opened.
Busy(copies, t) == {q \in Ids(copies) : ~(copies[q].status = "CLOSED" /\ copies[q].closed <= t)}

\* What a copy leaves of the book's cash from t on, at the least.
Least(p, r, t) ==
  IF r.status = "NONE" THEN 0
  ELSE IF r.status = "CLOSED" /\ r.closed <= t THEN Profit(r)
  ELSE 0 - Spend(p, r)

CashLeft(copies, t) == Capital + SumFunctionOnSet([q \in Parent |-> Least(q, copies[q], t)], Parent)

\* The book as it will be when a plan pl comes to the entry p: its closes are written, and
\* its entries before p.
Before(pl, p) ==
  [q \in Parent |-> IF q \in Ids(pl.opens) /\ Earlier(q, p) THEN pl.opens[q]
                    ELSE IF q \in Ids(pl.closes) /\ row[q].status = "OPEN" THEN pl.closes[q]
                    ELSE row[q]]

-----------------------------------------------------------------------------
(* The inductive invariant.                                                *)

\* A copy is of a trade the tournament has, and has its times.
Copied(copies) ==
  \A p \in Ids(copies) :
    /\ parent[p].status # "NONE" /\ copies[p].opened = parent[p].opened
    /\ copies[p].status = "CLOSED" => copies[p].closed >= copies[p].opened

Parents ==
  \A p \in Parent :
    /\ parent[p].opened <= parent[p].written
    /\ parent[p].status = "CLOSED" => parent[p].closed >= parent[p].opened

\* The open rows a pass has read are all there are, but for those a reset deleted since.
OpenRead ==
  pc = "read" =>
    /\ \A p \in OpenRows : p \in Ids(open) /\ open[p].qty = row[p].qty
    /\ \A p \in Ids(open) : parent[p].status # "NONE"

\* The plan is for the book as it is: its entries are new, its closes keep the size.
Planned ==
  /\ pc # "write" => plan = NoPlan
  /\ \A p \in Ids(plan.opens) :
       /\ row[p].status = "NONE" /\ plan.opens[p].qty > 0 /\ p \notin skipped
       /\ p \notin Ids(plan.closes)
  /\ \A p \in Ids(plan.closes) :
       /\ plan.closes[p].status = "CLOSED"
       /\ row[p].status = "OPEN" => plan.closes[p].qty = row[p].qty

\* Each entry of the plan will find a slot and its stock free, whatever was closed or reset
\* before it comes to be written.
Fits ==
  \A p \in Ids(plan.opens) :
    /\ Cardinality(Busy(Before(plan, p), plan.opens[p].opened)) < MaxOpen
    /\ \A q \in Busy(Before(plan, p), plan.opens[p].opened) : Stock[q] # Stock[p]

\* And its money.
Affords ==
  \A p \in Ids(plan.opens) :
    Spend(p, plan.opens[p]) <= CashLeft(Before(plan, p), plan.opens[p].opened)

\* A reset that no pass runs beside empties the book before it moves the floor, wherever it or
\* a pass is broken off.
Resets ==
  /\ wiping.step # "none" => pc = "idle"
  /\ wiping.step = "delete" => wiping.rows = Ids(row)
  /\ wiping.step = "record" => Ids(row) = {}
  /\ pc = "read" => floor = resetAt /\ Ids(open) = OpenRows
  /\ \A p \in Ids(plan.opens) : plan.opens[p].opened >= resetAt

Base == TypeOK /\ Parents /\ Copied(row) /\ Copied(plan.opens) /\ Copied(plan.closes) /\ OpenRead /\ Planned
Inv  == Base /\ Fits /\ SlotsHold /\ OneStock
Alone == Resets /\ Affords /\ CashHolds /\ ResetHolds

-----------------------------------------------------------------------------
(* Shares and money.                                                       *)

LEMMA Division ==
  ASSUME NEW x \in Nat, NEW k \in Nat \ {0}
  PROVE  x \div k \in Nat /\ k * (x \div k) <= x
OBVIOUS

LEMMA MinOfTwo ==
  ASSUME NEW a \in Int, NEW b \in Int
  PROVE  Min({a, b}) = IF a <= b THEN a ELSE b
BY DEF Min

LEMMA MaxOfTwo ==
  ASSUME NEW a \in Int, NEW b \in Int
  PROVE  Max({a, b}) = IF a >= b THEN a ELSE b
BY DEF Max

\* The shares an entry buys are paid for, and are within the slot's part of the capital.
LEMMA SharesPaid ==
  ASSUME NEW p \in Parent, NEW cash \in Int
  PROVE  /\ Shares(p, cash) \in Nat
         /\ Shares(p, cash) >= 1 => Price[p] * Shares(p, cash) <= cash
<1> DEFINE part == Capital \div MaxOpen
           most == IF cash >= 0 THEN cash ELSE 0
           money == IF part <= most THEN part ELSE most
<1>1. part \in Nat
  BY MirrorAssumption, Division
<1>2. money \in Nat /\ money <= most
  BY <1>1
<1>3. Shares(p, cash) = money \div Price[p]
  <2>1. Max({cash, 0}) = most
    BY MaxOfTwo
  <2>2. most \in Int /\ part \in Int
    BY <1>1
  <2>. HIDE DEF most, part
  <2>3. Min({part, most}) = IF part <= most THEN part ELSE most
    BY <2>2, MinOfTwo
  <2>. QED
    BY <2>1, <2>3 DEF Shares, part
<1>4. Price[p] \in Nat \ {0}
  BY MirrorAssumption
<1> HIDE DEF money
<1>5. money \div Price[p] \in Nat /\ Price[p] * (money \div Price[p]) <= money
  BY <1>2, <1>4, Division
<1>6. money >= 1 => money <= cash
  BY <1>2
<1>7. money \div Price[p] >= 1 => money >= 1
  <2> DEFINE n == money \div Price[p]
      k == Price[p]
  <2>1. n \in Nat /\ k * n <= money /\ k \in Nat \ {0}
    BY <1>4, <1>5
  <2>2. k * n \in Nat /\ (n >= 1 => k * n >= 1)
    <3>. HIDE DEF n, k
    <3>. QED
      BY <2>1
  <2>. HIDE DEF n, k
  <2>3. n >= 1 => money >= 1
    BY <1>2, <2>1, <2>2
  <2>. QED
    BY <2>3 DEF n, k
<1> DEFINE paid == Price[p] * (money \div Price[p])
<1>8. paid \in Int
  BY <1>4, <1>5
<1>9. money \div Price[p] >= 1 => paid <= cash
  <2>. HIDE DEF paid
  <2>1. paid <= money
    BY <1>5 DEF paid
  <2>. QED
    BY <1>2, <1>6, <1>7, <1>8, <2>1
<1>. QED
  BY <1>3, <1>5, <1>9

\* What a copy costs, makes and gives back are integers; it never gives back less than nothing.
LEMMA MoneyTypes ==
  ASSUME NEW p \in Parent, NEW r \in Row
  PROVE  /\ Spend(p, r) \in Nat /\ Profit(r) \in Int /\ Return(p, r) \in Nat
         /\ Return(p, r) = Spend(p, r) + Profit(r)
         /\ \A t \in Time : Least(p, r, t) \in Int /\ Least(p, r, t) >= 0 - Spend(p, r)
<1>1. Price[p] \in Nat /\ r.qty \in Nat /\ r.gain \in Int /\ Price[p] + r.gain >= 0
  <2>1. Price[p] \in Nat /\ r.qty \in Nat /\ r.gain \in Gain \cup {0}
    BY MirrorAssumption DEF Row
  <2>2. \A g \in Gain : g \in Int /\ Price[p] + g >= 0
    BY MirrorAssumption
  <2>. QED
    BY <2>1, <2>2
<1>2. Price[p] * r.qty \in Nat /\ r.gain * r.qty \in Int
  BY <1>1
<1>3. Price[p] * r.qty + r.gain * r.qty = (Price[p] + r.gain) * r.qty
  BY <1>1
<1>4. (Price[p] + r.gain) * r.qty \in Nat
  BY <1>1
<1>5. /\ Spend(p, r) \in Nat /\ Profit(r) \in Int /\ Return(p, r) \in Nat
      /\ Return(p, r) = Spend(p, r) + Profit(r)
  BY <1>2, <1>3, <1>4 DEF Spend, Profit, Return
<1>. QED
  BY <1>5 DEF Least

-----------------------------------------------------------------------------
(* The replay: what an entry it takes can rely on.                         *)

LEMMA FiniteParents == \A S \in SUBSET Parent : IsFiniteSet(S)
BY MirrorAssumption, FS_Subset

\* The entries have an order.
LEMMA EarlierOrder ==
  ASSUME TypeOK
  PROVE  /\ \A p, q \in Parent : p = q \/ Earlier(p, q) \/ Earlier(q, p)
         /\ \A p, q \in Parent : Earlier(p, q) => ~Earlier(q, p) /\ p # q
         /\ \A p, q, r \in Parent : Earlier(p, q) /\ Earlier(q, r) => Earlier(p, r)
<1>1. \A p \in Parent : p \in Nat /\ parent[p].opened \in Nat
  BY MirrorAssumption DEF TypeOK, ParentRow, Time
<1>. QED
  BY <1>1 DEF Earlier

\* So there is a latest one of any.
LEMMA LatestIs ==
  ASSUME TypeOK, NEW S \in SUBSET Parent, S # {}
  PROVE  Latest(S) \in S /\ \A q \in S : q = Latest(S) \/ Earlier(q, Latest(S))
<1> DEFINE Last(T, p) == \A q \in T : q = p \/ Earlier(q, p)
           G == {T \in SUBSET S : T = {} \/ \E p \in T : Last(T, p)}
<1>1. {} \in G
  OBVIOUS
<1>2. ASSUME NEW T \in SUBSET S, NEW x \in S \ T, T \in G PROVE T \cup {x} \in G
  <2>1. CASE T = {}
    BY <2>1
  <2>2. CASE T # {}
    <3>1. PICK p \in T : Last(T, p)
      BY <1>2, <2>2
    <3>2. CASE Earlier(x, p)
      <4>1. Last(T \cup {x}, p)
        BY <3>1, <3>2
      <4>. QED
        BY <4>1
    <3>3. CASE ~Earlier(x, p)
      <4>1. Earlier(p, x)
        BY <3>3, EarlierOrder
      <4>2. \A q \in T : Earlier(q, x)
        BY <3>1, <4>1, EarlierOrder
      <4>. QED
        BY <4>2
    <3>. QED
      BY <3>2, <3>3
  <2>. QED
    BY <2>1, <2>2
<1>3. IsFiniteSet(S)
  BY FiniteParents
<1>. HIDE DEF G
<1>4. S \in G
  BY <1>1, <1>2, <1>3, SetInduction
<1>. QED
  BY <1>4 DEF Latest, G

\* The cash a replay reckons with is an amount.
LEMMA CashType ==
  ASSUME TypeOK, NEW t \in Time, NEW taken \in Copies
  PROVE  CashAt(t, taken) \in Int
<1> DEFINE freed(copies) == {q \in Ids(copies) : ClosedBy(q, t)}
           freedF(copies) == [p \in freed(copies) |-> Return(p, CopyOf(p, copies[p].qty))]
<1>1. \A p \in Parent : row[p] \in Row /\ taken[p] \in Row /\ open[p] \in Row
  BY DEF TypeOK, Copies
<1>2. \A p \in Parent : \A n \in Nat : CopyOf(p, n) \in Row
  BY DEF TypeOK, ParentRow, CopyOf, Row
<1>3. \A p \in Parent : \A r \in Row : Spend(p, r) \in Int /\ Profit(r) \in Int /\ Return(p, r) \in Int
  BY MoneyTypes
<1>4. \A p \in Parent : \A r \in Row : r.qty \in Nat
  BY DEF Row
<1>5. Realized \in Int
  <2>1. SumFunctionOnSet([p \in ClosedRows |-> Profit(row[p])], ClosedRows) \in Int
    BY <1>1, <1>3, FiniteParents, SumType DEF ClosedRows
  <2>. QED
    BY <2>1 DEF Realized, SumFunction
<1>6. Spent \in Int
  <2>1. SumFunctionOnSet([p \in OpenRows |-> Spend(p, row[p])], OpenRows) \in Int
    BY <1>1, <1>3, FiniteParents, SumType DEF OpenRows
  <2>. QED
    BY <2>1 DEF Spent, SumFunction
<1>7. SumFunction([p \in Replayed(t) |-> Return(p, row[p])]) \in Int
  <2>1. SumFunctionOnSet([p \in Replayed(t) |-> Return(p, row[p])], Replayed(t)) \in Int
    BY <1>1, <1>3, FiniteParents, SumType DEF Replayed, ClosedRows
  <2>. QED
    BY <2>1 DEF SumFunction
<1>8. Cost(taken) \in Int
  <2>1. SumFunctionOnSet([p \in Ids(taken) |-> Spend(p, taken[p])], Ids(taken)) \in Int
    BY <1>1, <1>3, FiniteParents, SumType DEF Ids
  <2>. QED
    BY <2>1 DEF Cost, SumFunction
<1>9. ASSUME NEW copies \in {open, taken} PROVE SumFunction(freedF(copies)) \in Int
  <2>1. \A p \in freed(copies) : Return(p, CopyOf(p, copies[p].qty)) \in Int
    BY <1>1, <1>2, <1>3, <1>4 DEF Ids
  <2>2. IsFiniteSet(freed(copies))
    BY FiniteParents DEF Ids
  <2>3. SumFunctionOnSet(freedF(copies), freed(copies)) \in Int
    BY <2>1, <2>2, SumType
  <2>. QED
    BY <2>3 DEF SumFunction
<1>. Capital \in Int
  BY MirrorAssumption
<1>. QED
  BY <1>5, <1>6, <1>7, <1>8, <1>9 DEF CashAt

\* Among the copies taken, those of entries before p.
EarlierOf(taken, p) == [q \in Parent |-> IF Earlier(q, p) THEN taken[q] ELSE NoRow]

\* What is true of the copies a replay has taken, however many entries it has seen.
Sound(taken, breaker) ==
  /\ taken \in Copies /\ \A p \in Parent \ Ids(taken) : taken[p] = NoRow
  /\ \A p \in Ids(taken) :
       /\ ~Refused(p, EarlierOf(taken, p), breaker)
       /\ taken[p] = CopyOf(p, Shares(p, CashAt(parent[p].opened, EarlierOf(taken, p))))

LEMMA TakingSound ==
  ASSUME TypeOK, NEW x \in Parent, parent[x].status # "NONE", NEW breaker \in BOOLEAN,
         NEW taken, Sound(taken, breaker), \A q \in Ids(taken) : Earlier(q, x)
  PROVE  /\ Sound(Taking(x, taken, breaker), breaker)
         /\ Ids(Taking(x, taken, breaker)) \subseteq Ids(taken) \cup {x}
<1> DEFINE more == [taken EXCEPT ![x] = CopyOf(x, Shares(x, CashAt(parent[x].opened, taken)))]
<1>0. CASE Refused(x, taken, breaker)
  BY <1>0 DEF Taking
<1>1. CASE ~Refused(x, taken, breaker)
  <2>1. taken \in Copies /\ x \notin Ids(taken) /\ parent[x].opened \in Time
    BY EarlierOrder DEF Sound, TypeOK, ParentRow, Ids
  <2>2. CopyOf(x, Shares(x, CashAt(parent[x].opened, taken))) \in Row
    <3>1. Shares(x, CashAt(parent[x].opened, taken)) \in Nat
      BY <2>1, CashType, SharesPaid
    <3>. QED
      BY <3>1 DEF TypeOK, ParentRow, CopyOf, Row
  <2>3. more \in Copies
    BY <2>1, <2>2 DEF Copies
  <2>4. Ids(more) = Ids(taken) \cup {x} /\ \A p \in Parent \ Ids(more) : more[p] = NoRow
    <3>1. \A q \in Parent : q # x => more[q] = taken[q]
      BY <2>1 DEF Copies
    <3>2. more[x].status # "NONE"
      BY <2>1 DEF Copies, CopyOf
    <3>. HIDE DEF more
    <3>. QED
      BY <3>1, <3>2 DEF Ids, Sound
  <2>5. EarlierOf(more, x) = taken
    <3>1. \A q \in Parent : q # x => more[q] = taken[q]
      BY <2>1 DEF Copies
    <3>2. \A q \in Parent : (IF Earlier(q, x) THEN more[q] ELSE NoRow) = taken[q]
      BY <2>1, <3>1, EarlierOrder DEF Sound
    <3>. HIDE DEF more
    <3>3. taken = [q \in Parent |-> taken[q]]
      BY <2>1 DEF Copies
    <3>. QED
      BY <3>2, <3>3 DEF EarlierOf
  <2>6. ASSUME NEW p \in Ids(taken) PROVE EarlierOf(more, p) = EarlierOf(taken, p)
    <3>1. \A q \in Parent : q # x => more[q] = taken[q]
      BY <2>1 DEF Copies
    <3>2. ~Earlier(x, p)
      BY EarlierOrder DEF Ids
    <3>. HIDE DEF more
    <3>. QED
      BY <3>1, <3>2 DEF EarlierOf
  <2>7. \A p \in Ids(taken) : more[p] = taken[p]
    BY <2>1 DEF Copies, Ids
  <2>8. more[x] = CopyOf(x, Shares(x, CashAt(parent[x].opened, taken)))
    BY <2>1 DEF Copies
  <2>. HIDE DEF more
  <2>9. Sound(more, breaker)
    BY <1>1, <2>3, <2>4, <2>5, <2>6, <2>7, <2>8 DEF Sound
  <2>. QED
    BY <1>1, <2>4, <2>9 DEF Taking, more
<1>. QED
  BY <1>0, <1>1

LEMMA PendingParents ==
  /\ Pending \in SUBSET Parent
  /\ \A p \in Pending : /\ parent[p].status # "NONE" /\ row[p].status = "NONE"
                       /\ p \notin skipped /\ p \notin Ids(open) /\ parent[p].opened >= floor
BY DEF Pending, InScope

LEMMA NoCopiesThere ==
  NoCopies \in Copies /\ Ids(NoCopies) = {} /\ \A p \in Parent : NoCopies[p] = NoRow
<1>1. NoRow \in Row
  BY MirrorAssumption DEF NoRow, Row, Time
<1>. QED
  BY <1>1 DEF Copies, Ids, NoCopies, NoRow

\* The copies taken after each part of what is pending.
IsReplay(it, breaker) ==
  /\ it[{}] = NoCopies
  /\ \A s \in SUBSET Pending : s # {} =>
       it[s] = Taking(Latest(s), it[s \ {Latest(s)}], breaker)
  /\ Entered(breaker) = it[Pending]

\* The fold has a value for every part of what it folds.
LEMMA EnteredFold ==
  ASSUME TypeOK, NEW breaker \in BOOLEAN
  PROVE  \E it : IsReplay(it, breaker)
<1> DEFINE Rec(it) == it = [s \in SUBSET Pending |->
                             IF s = {} THEN NoCopies
                             ELSE Taking(Latest(s), it[s \ {Latest(s)}], breaker)]
           pick == [s \in SUBSET Pending |-> Latest(s)]
           step == [x \in Pending |-> [v \in Copies |-> Taking(x, v, breaker)]]
<1>1. \A s \in SUBSET Pending : s # {} => Latest(s) \in s
  BY LatestIs, PendingParents
<1>2. \A x \in Pending : \A v \in Copies : Taking(x, v, breaker) \in Copies
  <2>. SUFFICES ASSUME NEW x \in Pending, NEW v \in Copies PROVE Taking(x, v, breaker) \in Copies
    OBVIOUS
  <2>1. x \in Parent /\ parent[x].opened \in Time
    BY PendingParents DEF TypeOK, ParentRow
  <2>2. Shares(x, CashAt(parent[x].opened, v)) \in Nat
    BY <2>1, CashType, SharesPaid
  <2>3. CopyOf(x, Shares(x, CashAt(parent[x].opened, v))) \in Row
    BY <2>1, <2>2 DEF TypeOK, ParentRow, CopyOf, Row
  <2>. QED
    BY <2>1, <2>3 DEF Taking, Copies
<1>3. IsFiniteSet(Pending) /\ Picks(pick, Pending) /\ Steps(step, Pending, Copies) /\ NoCopies \in Copies
  BY <1>1, <1>2, FiniteParents, PendingParents, NoCopiesThere DEF Picks, Steps
<1>. HIDE DEF pick, step
<1>4. PICK it \in [SUBSET Pending -> Copies] : IsFold(it, Pending, NoCopies, pick, step)
  BY <1>3, FoldExists, Zenon
<1>5. Rec(it)
  <2>1. it[{}] = NoCopies
    BY <1>4 DEF IsFold
  <2>2. ASSUME NEW s \in SUBSET Pending, s # {}
        PROVE  it[s] = Taking(Latest(s), it[s \ {Latest(s)}], breaker)
    <3>1. pick[s] = Latest(s) /\ Latest(s) \in Pending /\ s \ {Latest(s)} \in SUBSET Pending
      BY <1>1, <2>2 DEF pick
    <3>2. it[s] = step[Latest(s)][it[s \ {Latest(s)}]] /\ it[s \ {Latest(s)}] \in Copies
      BY <1>4, <2>2, <3>1 DEF IsFold
    <3>. QED
      BY <3>1, <3>2 DEF step
  <2>. QED
    BY <2>1, <2>2
<1>6. Entered(breaker) = (CHOOSE jt : Rec(jt))[Pending]
  BY DEF Entered, MapThenFoldSet
<1> DEFINE jt == CHOOSE kt : Rec(kt)
<1>7. Rec(jt)
  <2>. HIDE DEF Rec
  <2>. QED
    BY <1>5
<1>. HIDE DEF jt
<1>8. jt[{}] = NoCopies /\ \A s \in SUBSET Pending : s # {} =>
         jt[s] = Taking(Latest(s), jt[s \ {Latest(s)}], breaker)
  BY <1>7
<1>. HIDE DEF Rec
<1>9. IsReplay(jt, breaker)
  BY <1>6, <1>8 DEF jt, IsReplay
<1>. QED
  BY <1>9

\* Every entry the replay takes had its slot, its stock and its money when its turn came.
LEMMA EnteredSound ==
  ASSUME TypeOK, NEW breaker \in BOOLEAN
  PROVE  Sound(Entered(breaker), breaker) /\ Ids(Entered(breaker)) \subseteq Pending
<1>0. PICK it : IsReplay(it, breaker)
  BY EnteredFold
<1>1. /\ it[{}] = NoCopies
      /\ \A s \in SUBSET Pending : s # {} =>
           it[s] = Taking(Latest(s), it[s \ {Latest(s)}], breaker)
      /\ Entered(breaker) = it[Pending]
  BY <1>0 DEF IsReplay
<1> DEFINE G == {s \in SUBSET Pending : Sound(it[s], breaker) /\ Ids(it[s]) \subseteq s}
<1>2. ASSUME NEW s \in SUBSET Pending, \A u \in SUBSET s : u # s => u \in G PROVE s \in G
  <2>1. CASE s = {}
    <3>1. Sound(NoCopies, breaker)
      BY NoCopiesThere DEF Sound
    <3>. QED
      BY <1>1, <2>1, <3>1, NoCopiesThere
  <2>2. CASE s # {}
    <3> DEFINE x == Latest(s)
               rest == s \ {x}
    <3>1. x \in s /\ (\A q \in s : q = x \/ Earlier(q, x)) /\ parent[x].status # "NONE" /\ x \in Parent
      BY <2>2, LatestIs, PendingParents
    <3>2. Sound(it[rest], breaker) /\ Ids(it[rest]) \subseteq rest
      BY <1>2, <3>1
    <3>3. it[s] = Taking(x, it[rest], breaker)
      BY <1>1, <2>2
    <3>4. \A q \in Ids(it[rest]) : Earlier(q, x)
      BY <3>1, <3>2
    <3>. HIDE DEF x, rest
    <3>5. Sound(it[s], breaker) /\ Ids(it[s]) \subseteq rest \cup {x}
      BY <3>1, <3>2, <3>3, <3>4, TakingSound
    <3>6. rest \cup {x} \subseteq s
      BY <3>1 DEF rest
    <3>. QED
      BY <3>5, <3>6
  <2>. QED
    BY <2>1, <2>2
<1>. HIDE DEF G
<1>3. IsFiniteSet(Pending) /\ Pending \in SUBSET Pending
  BY FiniteParents, PendingParents
<1>4. Pending \in G
  BY <1>2, <1>3, SubsetInduction
<1>. QED
  BY <1>1, <1>4 DEF G

\* What the plan holds.
LEMMA PlanHas ==
  ASSUME TypeOK, NEW breaker \in BOOLEAN
  PROVE  /\ PlanBook(breaker) \in [closes : Copies, opens : Copies, skips : SUBSET Parent]
         /\ PlanBook(breaker).opens = Entered(breaker)
         /\ Ids(PlanBook(breaker).closes) = {q \in Ids(open) : parent[q].status = "CLOSED"}
         /\ \A q \in Ids(PlanBook(breaker).closes) :
              PlanBook(breaker).closes[q] = CopyOf(q, open[q].qty)
<1> DEFINE ended == {q \in Ids(open) : parent[q].status = "CLOSED"}
           closes == [q \in Parent |-> IF q \in ended THEN CopyOf(q, open[q].qty) ELSE NoRow]
<1>1. \A q \in Parent : CopyOf(q, open[q].qty) \in Row
  BY DEF TypeOK, Copies, Row, ParentRow, CopyOf
<1>2. NoRow \in Row
  BY MirrorAssumption DEF NoRow, Row, Time
<1>3. closes \in Copies
  BY <1>1, <1>2 DEF Copies
<1>4. Ids(closes) = ended
  BY DEF Ids, NoRow, CopyOf
<1>5. Entered(breaker) \in Copies /\ Pending \in SUBSET Parent
  BY EnteredSound, PendingParents DEF Sound
<1>6. PlanBook(breaker) = [closes |-> closes, opens |-> Entered(breaker),
                           skips |-> Pending \ Ids(Entered(breaker))]
  BY DEF PlanBook
<1>7. \A q \in ended : closes[q] = CopyOf(q, open[q].qty)
  BY DEF Ids
<1>. HIDE DEF closes, ended
<1>. QED
  BY <1>3, <1>4, <1>5, <1>6, <1>7 DEF ended

\* When the plan comes to an entry, the book holds no more than the replay had it hold.
LEMMA PlanHolds ==
  ASSUME Base, pc = "read", NEW breaker \in BOOLEAN, NEW p \in Ids(Entered(breaker))
  PROVE  Busy(Before(PlanBook(breaker), p), parent[p].opened)
           \subseteq HeldAt(parent[p].opened, EarlierOf(Entered(breaker), p))
<1> DEFINE pl == PlanBook(breaker)
           T == Entered(breaker)
           t == parent[p].opened
<1>. SUFFICES ASSUME NEW q \in Busy(Before(pl, p), t) PROVE q \in HeldAt(t, EarlierOf(T, p))
  OBVIOUS
<1>0. q \in Parent /\ TypeOK /\ row[q] \in Row /\ T \in Copies
  BY EnteredSound DEF Busy, Ids, Base, TypeOK, Copies, Sound
<1>1. pl.opens = T /\ Ids(pl.closes) = {r \in Ids(open) : parent[r].status = "CLOSED"}
      /\ \A r \in Ids(pl.closes) : pl.closes[r] = CopyOf(r, open[r].qty)
  BY <1>0, PlanHas
<1>. HIDE DEF pl
<1>2. Before(pl, p)[q] = IF q \in Ids(T) /\ Earlier(q, p) THEN T[q]
                         ELSE IF q \in Ids(pl.closes) /\ row[q].status = "OPEN" THEN pl.closes[q]
                         ELSE row[q]
  BY <1>0, <1>1 DEF Before
<1> DEFINE r == Before(pl, p)[q]
<1>3. r.status # "NONE" /\ ~(r.status = "CLOSED" /\ r.closed <= t)
  BY DEF Busy, Ids
<1>. HIDE DEF t
<1>4. CASE q \in Ids(T) /\ Earlier(q, p)
  <2>1. q \in Ids(EarlierOf(T, p))
    BY <1>0, <1>4 DEF EarlierOf, Ids
  <2>2. \E n : T[q] = CopyOf(q, n)
    BY <1>0, <1>4, EnteredSound DEF Sound
  <2>3. ~ClosedBy(q, t)
    BY <1>2, <1>3, <1>4, <2>2 DEF CopyOf, ClosedBy
  <2>. QED
    BY <2>1, <2>3 DEF HeldAt
<1>5. CASE ~(q \in Ids(T) /\ Earlier(q, p)) /\ q \in Ids(pl.closes) /\ row[q].status = "OPEN"
  <2>1. r = CopyOf(q, open[q].qty) /\ q \in Ids(open)
    BY <1>1, <1>2, <1>5
  <2>2. ~ClosedBy(q, t)
    BY <1>3, <2>1 DEF CopyOf, ClosedBy
  <2>. QED
    BY <2>1, <2>2 DEF HeldAt
<1>6. CASE ~(q \in Ids(T) /\ Earlier(q, p)) /\ ~(q \in Ids(pl.closes) /\ row[q].status = "OPEN")
  <2>1. r = row[q]
    BY <1>2, <1>6
  <2>2. CASE row[q].status = "OPEN"
    <3>1. q \in Ids(open)
      BY <1>0, <2>2 DEF Base, OpenRead, OpenRows
    <3>2. ~ClosedBy(q, t)
      BY <1>1, <1>6, <2>2, <3>1 DEF ClosedBy
    <3>. QED
      BY <3>1, <3>2 DEF HeldAt
  <2>3. CASE row[q].status = "CLOSED"
    <3>1. row[q].closed > t
      <4>1. row[q].closed \in Int /\ t \in Int
        BY <1>0 DEF Row, t, Ids, TypeOK, ParentRow, Time
      <4>. QED
        BY <1>3, <2>1, <2>3, <4>1
    <3>. QED
      BY <1>0, <2>3, <3>1 DEF HeldAt, Replayed, ClosedRows
  <2>. QED
    BY <1>0, <1>3, <2>1, <2>2, <2>3 DEF Row
<1>. QED
  BY <1>4, <1>5, <1>6

\* A sum over some of the parents, as one over all.
LEMMA SumOver ==
  ASSUME NEW P \in SUBSET Parent, NEW f, DOMAIN f = P, NEW g,
         \A q \in Parent : g[q] \in Int, \A q \in P : g[q] = f[q], \A q \in Parent \ P : g[q] = 0
  PROVE  SumFunction(f) = SumFunctionOnSet(g, Parent)
<1>1. IsFiniteSet(Parent)
  BY FiniteParents
<1>2. \A q \in P : f[q] \in Int /\ g[q] = f[q]
  OBVIOUS
<1>. QED
  BY <1>1, <1>2, SumPart DEF SumFunction

\* And the cash it will have then is what the replay reckoned with.
LEMMA PlanCash ==
  ASSUME Base, pc = "read", Ids(open) = OpenRows, NEW breaker \in BOOLEAN,
         NEW p \in Ids(Entered(breaker))
  PROVE  CashLeft(Before(PlanBook(breaker), p), parent[p].opened)
           = CashAt(parent[p].opened, EarlierOf(Entered(breaker), p))
<1> DEFINE pl == PlanBook(breaker)
           T == EarlierOf(Entered(breaker), p)
           t == parent[p].opened
           back(copies, q) == Return(q, CopyOf(q, copies[q].qty))
           freed(copies) == {q \in Ids(copies) : ClosedBy(q, t)}
           a == [q \in Parent |-> IF q \in ClosedRows THEN Profit(row[q]) ELSE 0]
           b == [q \in Parent |-> IF q \in OpenRows THEN Spend(q, row[q]) ELSE 0]
           c == [q \in Parent |-> IF q \in Replayed(t) THEN Return(q, row[q]) ELSE 0]
           d == [q \in Parent |-> IF q \in Ids(T) THEN Spend(q, T[q]) ELSE 0]
           e == [q \in Parent |-> IF q \in freed(open) THEN back(open, q) ELSE 0]
           f == [q \in Parent |-> IF q \in freed(T) THEN back(T, q) ELSE 0]
           low == [q \in Parent |-> Least(q, Before(pl, p)[q], t)]
           s1 == [q \in Parent |-> a[q] - b[q]]
           s2 == [q \in Parent |-> s1[q] - c[q]]
           s3 == [q \in Parent |-> s2[q] - d[q]]
           s4 == [q \in Parent |-> s3[q] + e[q]]
           Sum(h) == SumFunctionOnSet(h, Parent)
<1>0. TypeOK /\ p \in Parent /\ t \in Time
  BY DEF Base, Ids, TypeOK, ParentRow
<1>1. T \in Copies /\ Entered(breaker) \in Copies
  <2>1. Entered(breaker) \in Copies
    BY <1>0, EnteredSound DEF Sound
  <2>2. NoRow \in Row
    BY MirrorAssumption DEF NoRow, Row, Time
  <2>. QED
    BY <2>1, <2>2 DEF EarlierOf, Copies
<1>2. \A q \in Parent : row[q] \in Row /\ open[q] \in Row /\ T[q] \in Row
  BY <1>0, <1>1 DEF TypeOK, Copies
<1>3. \A q \in Parent : \A n \in Nat : CopyOf(q, n) \in Row
  BY <1>0 DEF TypeOK, ParentRow, CopyOf, Row
<1>4. \A q \in Parent : CopyOf(q, open[q].qty) \in Row /\ CopyOf(q, T[q].qty) \in Row
  BY <1>2, <1>3 DEF Row
<1>. HIDE DEF t, pl, T
<1>5. \A q \in Parent : /\ a[q] \in Int /\ b[q] \in Int /\ c[q] \in Int
                        /\ d[q] \in Int /\ e[q] \in Int /\ f[q] \in Int
  BY <1>2, <1>4, MoneyTypes
<1>6. ASSUME NEW q \in Parent PROVE low[q] = a[q] - b[q] - c[q] - d[q] + e[q] + f[q]
  <2> DEFINE r == Before(pl, p)[q]
  <2>1. pl.opens = Entered(breaker) /\ Ids(pl.closes) = {x \in Ids(open) : parent[x].status = "CLOSED"}
        /\ \A x \in Ids(pl.closes) : pl.closes[x] = CopyOf(x, open[x].qty)
    BY <1>0, PlanHas DEF pl
  <2>2. r = IF q \in Ids(Entered(breaker)) /\ Earlier(q, p) THEN Entered(breaker)[q]
            ELSE IF q \in Ids(pl.closes) /\ row[q].status = "OPEN" THEN pl.closes[q]
            ELSE row[q]
    BY <2>1 DEF Before
  <2>3. /\ q \in Ids(T) <=> q \in Ids(Entered(breaker)) /\ Earlier(q, p)
        /\ q \in Ids(T) => T[q] = Entered(breaker)[q]
    BY DEF T, EarlierOf, Ids, NoRow
  <2>4. low[q] = Least(q, r, t)
    OBVIOUS
  <2>5. row[q] \in Row /\ T[q] \in Row /\ open[q] \in Row
        /\ CopyOf(q, open[q].qty) \in Row /\ CopyOf(q, T[q].qty) \in Row
    BY <1>2, <1>4
  <2>6. \A x \in Row : /\ Spend(q, x) \in Int /\ Profit(x) \in Int
                      /\ Return(q, x) = Spend(q, x) + Profit(x)
    BY MoneyTypes
  <2>7. row[q].status \in {"NONE", "OPEN", "CLOSED"} /\ t \in Int /\ row[q].closed \in Int
    BY <1>0, <2>5 DEF Row, Time
  <2>8. q \in Ids(T) => row[q].status = "NONE" /\ q \notin Ids(open)
    BY <1>0, <2>3, EnteredSound, PendingParents
  <2>9. \A x \in Row : ClosedBy(q, t) <=> /\ CopyOf(q, x.qty).status = "CLOSED"
                                        /\ CopyOf(q, x.qty).closed <= t
    BY DEF ClosedBy, CopyOf
  <2>10. CASE q \in Ids(T)
    <3>1. /\ a[q] = 0 /\ b[q] = 0 /\ c[q] = 0 /\ e[q] = 0
          /\ d[q] = Spend(q, T[q]) /\ f[q] = IF ClosedBy(q, t) THEN back(T, q) ELSE 0
      BY <2>8, <2>10 DEF ClosedRows, OpenRows, Replayed
    <3>2. r = T[q] /\ r.status # "NONE"
      BY <2>2, <2>3, <2>10 DEF Ids
    <3>3. CopyOf(q, T[q].qty) = T[q]
      <4>1. \E n : T[q] = CopyOf(q, n)
        BY <1>0, <2>3, <2>10, EnteredSound DEF Sound
      <4>. QED
        BY <4>1 DEF CopyOf
    <3>4. f[q] = IF ClosedBy(q, t) THEN Spend(q, T[q]) + Profit(T[q]) ELSE 0
      BY <2>5, <2>6, <3>1, <3>3
    <3>5. low[q] = IF ClosedBy(q, t) THEN Profit(T[q]) ELSE 0 - Spend(q, T[q])
      BY <2>4, <2>5, <2>9, <3>2, <3>3 DEF Least
    <3>. HIDE DEF a, b, c, d, e, f, low
    <3>. QED
      BY <2>5, <2>6, <3>1, <3>4, <3>5
  <2>11. CASE q \notin Ids(T) /\ row[q].status = "OPEN"
    <3>1. q \in Ids(open) /\ open[q].qty = row[q].qty
      BY <2>11 DEF Base, OpenRead, OpenRows
    <3>2. /\ a[q] = 0 /\ b[q] = Spend(q, row[q]) /\ c[q] = 0 /\ d[q] = 0 /\ f[q] = 0
          /\ e[q] = IF ClosedBy(q, t) THEN back(open, q) ELSE 0
      BY <2>11, <3>1 DEF ClosedRows, OpenRows, Replayed
    <3>3. r = IF parent[q].status = "CLOSED" THEN CopyOf(q, row[q].qty) ELSE row[q]
      BY <2>1, <2>2, <2>3, <2>11, <3>1
    <3>4. Spend(q, CopyOf(q, row[q].qty)) = Spend(q, row[q])
      BY DEF Spend, CopyOf
    <3>5. e[q] = IF ClosedBy(q, t) THEN Spend(q, row[q]) + Profit(CopyOf(q, row[q].qty)) ELSE 0
      BY <2>5, <2>6, <3>1, <3>2, <3>4
    <3>6. low[q] = IF ClosedBy(q, t) THEN Profit(CopyOf(q, row[q].qty)) ELSE 0 - Spend(q, row[q])
      BY <2>4, <2>11, <3>3, <3>4 DEF Least, ClosedBy, CopyOf
    <3>7. Profit(CopyOf(q, row[q].qty)) \in Int
      BY <2>5, <2>6, <3>1
    <3>. HIDE DEF a, b, c, d, e, f, low
    <3>. QED
      BY <2>5, <2>6, <3>2, <3>5, <3>6, <3>7
  <2>12. CASE q \notin Ids(T) /\ row[q].status # "OPEN"
    <3>1. q \notin Ids(open) /\ r = row[q]
      BY <2>2, <2>3, <2>12 DEF OpenRows
    <3>2. b[q] = 0 /\ d[q] = 0 /\ e[q] = 0 /\ f[q] = 0
      BY <2>12, <3>1 DEF OpenRows
    <3>3. CASE row[q].status = "NONE"
      <4>1. a[q] = 0 /\ c[q] = 0 /\ low[q] = 0
        BY <2>4, <3>1, <3>3 DEF ClosedRows, Replayed, Least
      <4>. HIDE DEF a, b, c, d, e, f, low
      <4>. QED
        BY <3>2, <4>1
    <3>4. CASE row[q].status = "CLOSED"
      <4>1. /\ a[q] = Profit(row[q])
            /\ c[q] = IF row[q].closed > t THEN Spend(q, row[q]) + Profit(row[q]) ELSE 0
        BY <2>5, <2>6, <3>4 DEF ClosedRows, Replayed
      <4>2. low[q] = IF row[q].closed > t THEN 0 - Spend(q, row[q]) ELSE Profit(row[q])
        BY <2>4, <2>7, <3>1, <3>4 DEF Least
      <4>. HIDE DEF a, b, c, d, e, f, low
      <4>. QED
        BY <2>5, <2>6, <3>2, <4>1, <4>2
    <3>. QED
      BY <2>7, <2>12, <3>3, <3>4
  <2>. QED
    BY <2>10, <2>11, <2>12
<1>7. /\ Realized = Sum(a) /\ Spent = Sum(b) /\ Cost(T) = Sum(d)
      /\ SumFunction([q \in Replayed(t) |-> Return(q, row[q])]) = Sum(c)
      /\ SumFunction([q \in freed(open) |-> back(open, q)]) = Sum(e)
      /\ SumFunction([q \in freed(T) |-> back(T, q)]) = Sum(f)
  <2>1. Realized = Sum(a)
    <3> DEFINE h == [q \in ClosedRows |-> Profit(row[q])]
    <3>1. /\ ClosedRows \in SUBSET Parent /\ DOMAIN h = ClosedRows
          /\ \A q \in ClosedRows : a[q] = h[q]
          /\ \A q \in Parent \ ClosedRows : a[q] = 0
      BY DEF ClosedRows
    <3>2. SumFunction(h) = Sum(a)
      <4>. HIDE DEF a, h
      <4>. QED
        BY <1>5, <3>1, SumOver
    <3>. QED
      BY <3>2 DEF Realized
  <2>2. Spent = Sum(b)
    <3> DEFINE h == [q \in OpenRows |-> Spend(q, row[q])]
    <3>1. /\ OpenRows \in SUBSET Parent /\ DOMAIN h = OpenRows
          /\ \A q \in OpenRows : b[q] = h[q]
          /\ \A q \in Parent \ OpenRows : b[q] = 0
      BY DEF OpenRows
    <3>2. SumFunction(h) = Sum(b)
      <4>. HIDE DEF b, h
      <4>. QED
        BY <1>5, <3>1, SumOver
    <3>. QED
      BY <3>2 DEF Spent
  <2>3. Cost(T) = Sum(d)
    <3> DEFINE h == [q \in Ids(T) |-> Spend(q, T[q])]
    <3>1. /\ Ids(T) \in SUBSET Parent /\ DOMAIN h = Ids(T)
          /\ \A q \in Ids(T) : d[q] = h[q]
          /\ \A q \in Parent \ Ids(T) : d[q] = 0
      BY DEF Ids
    <3>2. SumFunction(h) = Sum(d)
      <4>. HIDE DEF d, h
      <4>. QED
        BY <1>5, <3>1, SumOver
    <3>. QED
      BY <3>2 DEF Cost
  <2>4. SumFunction([q \in Replayed(t) |-> Return(q, row[q])]) = Sum(c)
    <3> DEFINE h == [q \in Replayed(t) |-> Return(q, row[q])]
    <3>1. /\ Replayed(t) \in SUBSET Parent /\ DOMAIN h = Replayed(t)
          /\ \A q \in Replayed(t) : c[q] = h[q]
          /\ \A q \in Parent \ Replayed(t) : c[q] = 0
      BY DEF Replayed, ClosedRows
    <3>2. SumFunction(h) = Sum(c)
      <4>. HIDE DEF c, h
      <4>. QED
        BY <1>5, <3>1, SumOver
    <3>. QED
      BY <3>2
  <2>5. SumFunction([q \in freed(open) |-> back(open, q)]) = Sum(e)
    <3> DEFINE h == [q \in freed(open) |-> back(open, q)]
    <3>1. /\ freed(open) \in SUBSET Parent /\ DOMAIN h = freed(open)
          /\ \A q \in freed(open) : e[q] = h[q]
          /\ \A q \in Parent \ freed(open) : e[q] = 0
      BY DEF Ids
    <3>2. SumFunction(h) = Sum(e)
      <4>. HIDE DEF e, h
      <4>. QED
        BY <1>5, <3>1, SumOver
    <3>. QED
      BY <3>2
  <2>6. SumFunction([q \in freed(T) |-> back(T, q)]) = Sum(f)
    <3> DEFINE h == [q \in freed(T) |-> back(T, q)]
    <3>1. /\ freed(T) \in SUBSET Parent /\ DOMAIN h = freed(T)
          /\ \A q \in freed(T) : f[q] = h[q]
          /\ \A q \in Parent \ freed(T) : f[q] = 0
      BY DEF Ids
    <3>2. SumFunction(h) = Sum(f)
      <4>. HIDE DEF f, h
      <4>. QED
        BY <1>5, <3>1, SumOver
    <3>. QED
      BY <3>2
  <2>. QED
    BY <2>1, <2>2, <2>3, <2>4, <2>5, <2>6
<1>8. CashAt(t, T) = Capital + Sum(a) - Sum(b) - Sum(c) - Sum(d) + Sum(e) + Sum(f)
  <2>. HIDE DEF a, b, c, d, e, f
  <2>. QED
    BY <1>7 DEF CashAt
<1>9. Sum(low) = Sum(a) - Sum(b) - Sum(c) - Sum(d) + Sum(e) + Sum(f)
  <2>0. IsFiniteSet(Parent)
    BY FiniteParents
  <2>1. \A q \in Parent : /\ s1[q] = a[q] - b[q] /\ s2[q] = s1[q] - c[q] /\ s3[q] = s2[q] - d[q]
                         /\ s4[q] = s3[q] + e[q] /\ low[q] = s4[q] + f[q]
    BY <1>5, <1>6
  <2>. HIDE DEF a, b, c, d, e, f, low, s1, s2, s3, s4
  <2>2. \A q \in Parent : s1[q] \in Int /\ s2[q] \in Int /\ s3[q] \in Int /\ s4[q] \in Int
    BY <1>5, <2>1
  <2>3. Sum(s1) = Sum(a) - Sum(b)
    BY <1>5, <2>0, <2>1, SumMinus
  <2>4. Sum(s2) = Sum(s1) - Sum(c)
    BY <1>5, <2>0, <2>1, <2>2, SumMinus
  <2>5. Sum(s3) = Sum(s2) - Sum(d)
    BY <1>5, <2>0, <2>1, <2>2, SumMinus
  <2>6. Sum(s4) = Sum(s3) + Sum(e)
    BY <1>5, <2>0, <2>1, <2>2, SumPlus
  <2>7. Sum(low) = Sum(s4) + Sum(f)
    BY <1>5, <2>0, <2>1, <2>2, SumPlus
  <2>. HIDE DEF Sum
  <2>. QED
    BY <2>3, <2>4, <2>5, <2>6, <2>7
<1>10. CashLeft(Before(pl, p), t) = Capital + Sum(low)
  BY DEF CashLeft
<1>11. /\ Sum(a) \in Int /\ Sum(b) \in Int /\ Sum(c) \in Int /\ Sum(d) \in Int
       /\ Sum(e) \in Int /\ Sum(f) \in Int /\ Capital \in Int
  <2>1. IsFiniteSet(Parent) /\ Capital \in Int
    BY MirrorAssumption
  <2>. HIDE DEF a, b, c, d, e, f
  <2>. QED
    BY <1>5, <2>1, SumType
<1>12. CashLeft(Before(pl, p), t) = CashAt(t, T)
  <2>. HIDE DEF Sum, a, b, c, d, e, f, low
  <2>. QED
    BY <1>8, <1>9, <1>10, <1>11
<1>. QED
  BY <1>12 DEF pl, t, T

-----------------------------------------------------------------------------
(* What the invariant needs of a step.                                     *)

\* A step that leaves every time with no more copies keeps the slots and the stocks.
LEMMA FewerHeld ==
  ASSUME SlotsHold, OneStock, MirrorAssumption,
         \A t \in Time : HeldOnClock(t)' \subseteq HeldOnClock(t)
  PROVE  SlotsHold' /\ OneStock'
<1>1. ASSUME NEW t \in Time PROVE Cardinality(HeldOnClock(t)') <= MaxOpen
  <2>1. IsFiniteSet(HeldOnClock(t))
    BY FiniteParents DEF HeldOnClock, OpenRows, ClosedRows
  <2>2. /\ Cardinality(HeldOnClock(t)') <= Cardinality(HeldOnClock(t))
        /\ Cardinality(HeldOnClock(t)) \in Nat /\ Cardinality(HeldOnClock(t)') \in Nat
    BY <2>1, FS_Subset, FS_CardinalityType
  <2>. QED
    BY <2>2, MirrorAssumption DEF SlotsHold
<1>2. SlotsHold'
  BY <1>1 DEF SlotsHold, Time
<1>3. OneStock'
  BY DEF OneStock, Time
<1>. QED
  BY <1>2, <1>3

\* One that leaves the entries of the plan with no more than they had to reckon with keeps them fitting.
LEMMA FitsStill ==
  ASSUME Fits, TypeOK,
         \A p \in Ids(plan'.opens) :
           /\ p \in Ids(plan.opens) /\ plan'.opens[p] = plan.opens[p]
           /\ Busy(Before(plan, p)', plan.opens[p].opened) \subseteq Busy(Before(plan, p), plan.opens[p].opened)
  PROVE  Fits'
<1>. SUFFICES ASSUME NEW p \in Ids(plan'.opens)
              PROVE  LET busy == Busy(Before(plan, p)', plan'.opens[p].opened)
                     IN  Cardinality(busy) < MaxOpen /\ \A q \in busy : Stock[q] # Stock[p]
  BY DEF Fits, Busy, Ids
<1> DEFINE was == Busy(Before(plan, p), plan.opens[p].opened)
           now == Busy(Before(plan, p)', plan.opens[p].opened)
<1>1. now \subseteq was /\ plan'.opens[p] = plan.opens[p] /\ p \in Ids(plan.opens)
  OBVIOUS
<1>2. IsFiniteSet(was)
  BY FiniteParents DEF Busy, Ids
<1>3. Cardinality(was) < MaxOpen /\ \A q \in was : Stock[q] # Stock[p]
  BY <1>1 DEF Fits
<1>. HIDE DEF was, now
<1>4. Cardinality(now) <= Cardinality(was) /\ Cardinality(now) \in Int /\ Cardinality(was) \in Int
  BY <1>1, <1>2, FS_Subset, FS_CardinalityType
<1>5. Cardinality(now) < MaxOpen
  BY <1>3, <1>4, MirrorAssumption
<1>. QED
  BY <1>1, <1>3, <1>5 DEF now

\* A trade the tournament has keeps the time it was opened.
Kept == \A p \in Parent : parent[p].status # "NONE" =>
          parent'[p].status # "NONE" /\ parent'[p].opened = parent[p].opened

\* While neither the book nor the plan changes, what the plan comes to does not.
LEMMA BeforeStays ==
  ASSUME TypeOK, Copied(plan.opens), row' = row, plan' = plan, Kept
  PROVE  \A p \in Ids(plan.opens) : Before(plan, p)' = Before(plan, p)
<1>. SUFFICES ASSUME NEW p \in Ids(plan.opens) PROVE Before(plan, p)' = Before(plan, p)
  OBVIOUS
<1>1. \A q \in Ids(plan.opens) : Earlier(q, p)' <=> Earlier(q, p)
  BY DEF Copied, Kept, Earlier, Ids
<1>. QED
  BY <1>1 DEF Before, Ids

\* So a step of the tournament, of the clock, or of a pass or reset that writes nothing keeps
\* what is said of rows and plan.
LEMMA BooksStay ==
  ASSUME Inv, row' = row, plan' = plan, Kept
  PROVE  /\ Copied(row)' /\ Copied(plan.opens)' /\ Copied(plan.closes)'
         /\ Fits' /\ SlotsHold' /\ OneStock'
         /\ Affords => Affords'
         /\ CashHolds => CashHolds'
<1>1. TypeOK /\ Copied(row) /\ Copied(plan.opens) /\ Copied(plan.closes) /\ Fits /\ SlotsHold /\ OneStock
  BY DEF Inv, Base
<1>2. Copied(row)' /\ Copied(plan.opens)' /\ Copied(plan.closes)'
  BY <1>1 DEF Copied, Kept, Ids
<1>3. \A p \in Ids(plan.opens) : Before(plan, p)' = Before(plan, p)
  BY <1>1, BeforeStays
<1>4. Fits'
  BY <1>1, <1>3, FitsStill
<1>5. \A t \in Time : HeldOnClock(t)' = HeldOnClock(t)
  BY DEF HeldOnClock, OpenRows, ClosedRows
<1>6. SlotsHold' /\ OneStock'
  BY <1>1, <1>5, FewerHeld, MirrorAssumption
<1>7. Affords => Affords'
  BY <1>3 DEF Affords, CashLeft, Ids, Spend, Least, Profit
<1>8. CashHolds => CashHolds'
  BY <1>5 DEF CashHolds, CashOnClock, ClosedRows, Spend, Profit, Time
<1>. QED
  BY <1>2, <1>4, <1>6, <1>7, <1>8

\* And one that drops the plan.
LEMMA PlanDropped ==
  ASSUME Inv, row' = row, parent' = parent, plan' = NoPlan
  PROVE  /\ Copied(row)' /\ Copied(plan.opens)' /\ Copied(plan.closes)'
         /\ Ids(plan.opens)' = {} /\ Ids(plan.closes)' = {}
         /\ Fits' /\ SlotsHold' /\ OneStock' /\ Affords'
         /\ CashHolds => CashHolds'
<1>1. Ids(plan.opens)' = {} /\ Ids(plan.closes)' = {}
  BY NoCopiesThere DEF NoPlan, Ids
<1>2. Copied(row)' /\ Copied(plan.opens)' /\ Copied(plan.closes)'
  BY <1>1 DEF Inv, Base, Copied, Ids
<1>3. Fits' /\ Affords'
  BY <1>1 DEF Fits, Affords
<1>5. \A t \in Time : HeldOnClock(t)' = HeldOnClock(t)
  BY DEF HeldOnClock, OpenRows, ClosedRows
<1>6. SlotsHold' /\ OneStock'
  BY <1>5, FewerHeld, MirrorAssumption DEF Inv
<1>8. CashHolds => CashHolds'
  BY <1>5 DEF CashHolds, CashOnClock, ClosedRows, Spend, Profit, Time
<1>. QED
  BY <1>1, <1>2, <1>3, <1>6, <1>8

-----------------------------------------------------------------------------
(* A pass.                                                                 *)

LEMMA BeginKeeps == ASSUME Inv, Begin PROVE Inv'
<1>1. Base /\ TypeOK
  BY DEF Inv, Base
<1>2. NoRow \in Row
  BY MirrorAssumption DEF NoRow, Row, Time
<1>3. open' \in Copies /\ Ids(open)' = OpenRows /\ \A p \in OpenRows : open'[p] = row[p]
  <2>1. open' = [p \in Parent |-> IF p \in OpenRows THEN row[p] ELSE NoRow]
    BY DEF Begin
  <2>2. open' \in Copies
    BY <1>1, <1>2, <2>1 DEF TypeOK, Copies
  <2>. QED
    BY <2>1, <2>2 DEF Ids, OpenRows, NoRow
<1>4. TypeOK'
  BY <1>1, <1>3 DEF TypeOK, Begin, world, books, admin, Copies, Row, Time, ParentRow
<1>5. Parents'
  BY <1>1 DEF Base, Parents, Begin, world
<1>6. OpenRead'
  <2>1. OpenRows' = OpenRows
    BY DEF Begin, books, OpenRows
  <2>2. \A p \in OpenRows : parent'[p].status # "NONE"
    BY <1>1 DEF Base, Copied, Ids, OpenRows, Begin, world
  <2>. QED
    BY <1>3, <2>1, <2>2 DEF OpenRead, Begin, books
<1>7. Planned'
  BY <1>1 DEF Base, Planned, Begin, books, Ids
<1>8. row' = row /\ plan' = plan /\ Kept
  BY DEF Begin, world, books, Kept
<1>. QED
  BY <1>4, <1>5, <1>6, <1>7, <1>8, BooksStay DEF Inv, Base

LEMMA ReadAndPlanKeeps == ASSUME Inv, ReadAndPlan PROVE Inv'
<1>1. Base /\ TypeOK
  BY DEF Inv, Base
<1>2. PICK breaker \in BOOLEAN : plan' = PlanBook(breaker)
  BY <1>1 DEF ReadAndPlan, TypeOK
<1>3. /\ pc = "read" /\ pc' = "write" /\ row' = row /\ parent' = parent /\ skipped' = skipped
  BY DEF ReadAndPlan, world, books
<1> DEFINE T == Entered(breaker)
<1>4. /\ plan' \in [closes : Copies, opens : Copies, skips : SUBSET Parent]
      /\ plan'.opens = T
      /\ Ids(plan'.closes) = {q \in Ids(open) : parent[q].status = "CLOSED"}
      /\ \A q \in Ids(plan'.closes) : plan'.closes[q] = CopyOf(q, open[q].qty)
  BY <1>1, <1>2, PlanHas
<1>5. Sound(T, breaker) /\ Ids(T) \subseteq Pending
  BY <1>1, EnteredSound
<1>6. TypeOK'
  <2>1. open' \in Copies /\ floor' \in Time /\ entries' \in BOOLEAN
    <3>1. open' = NoCopies /\ floor' = 0 /\ entries' = FALSE
      BY DEF ReadAndPlan
    <3>2. 0 \in Time
      BY MirrorAssumption DEF Time
    <3>. QED
      BY <3>1, <3>2, NoCopiesThere
  <2>2. /\ clock' = clock /\ resetAt' = resetAt /\ wiping' = wiping /\ wiped' = wiped
        /\ troubles' = troubles
    BY DEF ReadAndPlan, world, books, admin
  <2>. QED
    BY <1>1, <1>3, <1>4, <2>1, <2>2 DEF TypeOK, Copies, Row, ParentRow, Time
<1>7. ASSUME NEW p \in Ids(T)
      PROVE  /\ p \in Parent /\ parent[p].status # "NONE" /\ row[p].status = "NONE"
             /\ p \notin skipped /\ p \notin Ids(open)
             /\ \E n \in Nat : n >= 1 /\ T[p] = CopyOf(p, n)
             /\ ~Refused(p, EarlierOf(T, p), breaker)
  <2>1. p \in Pending
    BY <1>5
  <2>2. /\ ~Refused(p, EarlierOf(T, p), breaker)
        /\ T[p] = CopyOf(p, Shares(p, CashAt(parent[p].opened, EarlierOf(T, p))))
    BY <1>5 DEF Sound
  <2>3. p \in Parent /\ parent[p].opened \in Time
    BY <1>1, <2>1, PendingParents DEF TypeOK, ParentRow
  <2>4. EarlierOf(T, p) \in Copies
    BY <1>5, NoCopiesThere DEF Sound, EarlierOf, Copies, NoCopies
  <2>5. Shares(p, CashAt(parent[p].opened, EarlierOf(T, p))) \in Nat
    BY <1>1, <2>3, <2>4, CashType, SharesPaid
  <2>6. Shares(p, CashAt(parent[p].opened, EarlierOf(T, p))) >= 1
    BY <2>2, <2>5 DEF Refused
  <2>. QED
    BY <2>1, <2>2, <2>3, <2>5, <2>6, PendingParents
<1>8. Parents'
  BY <1>1, <1>3 DEF Base, Parents
<1>9. Copied(row)'
  BY <1>1, <1>3 DEF Base, Copied, Ids
<1>10. Copied(plan.opens)'
  <2>1. ASSUME NEW p \in Ids(T)
        PROVE  /\ parent[p].status # "NONE" /\ T[p].opened = parent[p].opened
               /\ T[p].status = "CLOSED" => T[p].closed >= T[p].opened
    <3>1. PICK n \in Nat : T[p] = CopyOf(p, n)
      BY <1>7
    <3>. HIDE DEF T
    <3>. QED
      BY <1>1, <1>7, <3>1 DEF Base, Parents, CopyOf
  <2>. HIDE DEF T
  <2>. QED
    BY <1>3, <1>4, <2>1 DEF Copied, Ids
<1>11. Copied(plan.closes)'
  <2>1. ASSUME NEW p \in Ids(plan'.closes)
        PROVE  /\ parent[p].status # "NONE" /\ plan'.closes[p].opened = parent[p].opened
               /\ plan'.closes[p].closed >= plan'.closes[p].opened
    <3>1. p \in Parent /\ parent[p].status = "CLOSED" /\ plan'.closes[p] = CopyOf(p, open[p].qty)
      BY <1>4 DEF Ids
    <3>. QED
      BY <1>1, <3>1 DEF Base, Parents, CopyOf
  <2>. QED
    BY <1>3, <2>1 DEF Copied, Ids
<1>12. OpenRead'
  BY <1>3 DEF OpenRead
<1>13. Planned'
  <2>1. ASSUME NEW p \in Ids(T)
        PROVE  /\ row[p].status = "NONE" /\ T[p].qty > 0 /\ p \notin skipped
               /\ p \notin Ids(plan'.closes)
    <3>1. PICK n \in Nat : n >= 1 /\ T[p] = CopyOf(p, n)
      BY <1>7
    <3>. HIDE DEF T
    <3>2. T[p].qty > 0
      BY <3>1 DEF CopyOf
    <3>. QED
      BY <1>4, <1>7, <3>2
  <2>2. ASSUME NEW p \in Ids(plan'.closes)
        PROVE  /\ plan'.closes[p].status = "CLOSED"
               /\ row[p].status = "OPEN" => plan'.closes[p].qty = row[p].qty
    <3>1. p \in Parent /\ parent[p].status = "CLOSED" /\ plan'.closes[p] = CopyOf(p, open[p].qty)
      BY <1>4 DEF Ids
    <3>. QED
      BY <1>1, <1>3, <3>1 DEF CopyOf, Base, OpenRead, OpenRows
  <2>. HIDE DEF T
  <2>. QED
    BY <1>3, <1>4, <2>1, <2>2 DEF Planned, Ids
<1>14. \A p \in Parent : Before(plan, p)' = Before(PlanBook(breaker), p)
  BY <1>2, <1>3 DEF Before, Ids, Earlier
<1>15. Fits'
  <2>. SUFFICES ASSUME NEW p \in Ids(T)
                PROVE  LET busy == Busy(Before(PlanBook(breaker), p), T[p].opened)
                       IN  Cardinality(busy) < MaxOpen /\ \A q \in busy : Stock[q] # Stock[p]
    <3>1. \A p \in Ids(plan.opens)' : Before(plan, p)' = Before(PlanBook(breaker), p)
      BY <1>14 DEF Ids
    <3>2. Ids(plan.opens)' = Ids(T)
      BY <1>4 DEF Ids
    <3>3. \A p \in Ids(plan.opens)' : Busy(Before(plan, p), plan.opens[p].opened)'
                                       = Busy(Before(PlanBook(breaker), p), T[p].opened)
      BY <1>4, <3>1 DEF Busy, Ids
    <3>. HIDE DEF T
    <3>. QED
      BY <3>2, <3>3 DEF Fits
  <2> DEFINE busy == Busy(Before(PlanBook(breaker), p), T[p].opened)
             held == HeldAt(parent[p].opened, EarlierOf(T, p))
  <2>1. T[p].opened = parent[p].opened
    <3>1. PICK n \in Nat : T[p] = CopyOf(p, n)
      BY <1>7
    <3>. HIDE DEF T
    <3>. QED
      BY <3>1 DEF CopyOf
  <2>2. busy \subseteq held
    BY <1>1, <1>3, <2>1, PlanHolds
  <2>3. ~(Cardinality(held) >= MaxOpen) /\ \A q \in held : Stock[q] # Stock[p]
    BY <1>7 DEF Refused
  <2>4. IsFiniteSet(held)
    BY FiniteParents DEF HeldAt, Replayed, ClosedRows, Ids
  <2>. HIDE DEF busy, held
  <2>5. Cardinality(busy) <= Cardinality(held) /\ Cardinality(busy) \in Nat /\ Cardinality(held) \in Nat
    BY <2>2, <2>4, FS_Subset, FS_CardinalityType
  <2>6. Cardinality(busy) < MaxOpen
    BY <2>3, <2>5, MirrorAssumption
  <2>. QED
    BY <2>2, <2>3, <2>6 DEF busy
<1>16. SlotsHold' /\ OneStock'
  <2>1. \A t \in Time : HeldOnClock(t)' = HeldOnClock(t)
    BY <1>3 DEF HeldOnClock, OpenRows, ClosedRows
  <2>. QED
    BY <2>1, FewerHeld, MirrorAssumption DEF Inv
<1>. QED
  BY <1>6, <1>8, <1>9, <1>10, <1>11, <1>12, <1>13, <1>15, <1>16 DEF Inv, Base

\* A close that is written changes nothing the plan's entries reckoned with.
LEMMA CloseBefore ==
  ASSUME Base, WriteClose
  PROVE  /\ plan'.opens = plan.opens /\ parent' = parent
         /\ \A p \in Ids(plan.opens) : Before(plan, p)' = Before(plan, p)
<1>1. PICK x \in Ids(plan.closes) :
        /\ row' = [row EXCEPT ![x] = IF @.status = "OPEN" THEN plan.closes[x] ELSE @]
        /\ plan' = [plan EXCEPT !.closes = [@ EXCEPT ![x] = NoRow]]
  BY DEF WriteClose
<1>2. /\ row \in Copies /\ plan \in [closes : Copies, opens : Copies, skips : SUBSET Parent]
      /\ x \in Parent
  BY DEF Base, TypeOK, Ids
<1>3. /\ plan'.opens = plan.opens /\ plan'.closes = [plan.closes EXCEPT ![x] = NoRow]
      /\ parent' = parent
  BY <1>1, <1>2 DEF WriteClose, world
<1>4. /\ plan'.closes[x] = NoRow /\ \A q \in Parent : q # x => plan'.closes[q] = plan.closes[q]
      /\ row'[x] = IF row[x].status = "OPEN" THEN plan.closes[x] ELSE row[x]
      /\ \A q \in Parent : q # x => row'[q] = row[q]
  BY <1>1, <1>2, <1>3 DEF Copies
<1>5. plan.closes[x].status = "CLOSED" /\ x \notin Ids(plan.opens)
  BY DEF Base, Planned
<1>6. ASSUME NEW p \in Ids(plan.opens), NEW q \in Parent
      PROVE  (IF q \in Ids(plan'.opens) /\ Earlier(q, p)' THEN plan'.opens[q]
              ELSE IF q \in Ids(plan'.closes) /\ row'[q].status = "OPEN" THEN plan'.closes[q]
              ELSE row'[q])
             = Before(plan, p)[q]
  <2>1. Earlier(q, p)' <=> Earlier(q, p)
    BY <1>3 DEF Earlier
  <2>2. CASE q = x
    BY <1>3, <1>4, <1>5, <2>1, <2>2 DEF Before, Ids, NoRow
  <2>3. CASE q # x
    BY <1>3, <1>4, <2>1, <2>3 DEF Before, Ids
  <2>. QED
    BY <2>2, <2>3
<1>7. ASSUME NEW p \in Ids(plan.opens) PROVE Before(plan, p)' = Before(plan, p)
  <2>1. Before(plan, p)' = [q \in Parent |-> Before(plan, p)[q]]
    BY <1>6 DEF Before, Ids
  <2>. QED
    BY <2>1 DEF Before
<1>. QED
  BY <1>3, <1>7

LEMMA WriteCloseKeeps == ASSUME Inv, WriteClose PROVE Inv'
<1>0. Base
  BY DEF Inv
<1>1. PICK x \in Ids(plan.closes) :
        /\ row' = [row EXCEPT ![x] = IF @.status = "OPEN" THEN plan.closes[x] ELSE @]
        /\ plan' = [plan EXCEPT !.closes = [@ EXCEPT ![x] = NoRow]]
  BY DEF WriteClose
<1>2. /\ row \in Copies /\ plan \in [closes : Copies, opens : Copies, skips : SUBSET Parent]
      /\ x \in Parent /\ NoRow \in Row
  BY <1>0, MirrorAssumption DEF Base, TypeOK, Ids, Row, NoRow, Time
<1>3. /\ plan'.opens = plan.opens /\ plan'.closes = [plan.closes EXCEPT ![x] = NoRow]
      /\ parent' = parent /\ skipped' = skipped /\ pc' = "write" /\ pc = "write"
      /\ plan' \in [closes : Copies, opens : Copies, skips : SUBSET Parent]
  BY <1>1, <1>2 DEF WriteClose, world, Copies
<1>4. /\ plan'.closes[x] = NoRow /\ \A q \in Parent : q # x => plan'.closes[q] = plan.closes[q]
      /\ row'[x] = IF row[x].status = "OPEN" THEN plan.closes[x] ELSE row[x]
      /\ \A q \in Parent : q # x => row'[q] = row[q]
      /\ row' \in Copies
  BY <1>1, <1>2, <1>3 DEF Copies
<1>5. /\ plan.closes[x].status = "CLOSED" /\ x \notin Ids(plan.opens)
      /\ row[x].status = "OPEN" => plan.closes[x].qty = row[x].qty
      /\ plan.closes[x].opened = parent[x].opened /\ plan.closes[x].closed >= plan.closes[x].opened
      /\ parent[x].status # "NONE"
  BY <1>0 DEF Base, Planned, Copied
<1>6. TypeOK'
  <2>1. \A p \in Parent : row'[p].status # "NONE" => row'[p].qty > 0
    BY <1>0, <1>4, <1>5 DEF Base, TypeOK
  <2>. QED
    BY <1>0, <1>3, <1>4, <2>1 DEF Base, TypeOK, WriteClose, world, admin
<1>7. Parents' /\ OpenRead'
  BY <1>0, <1>3 DEF Base, Parents, OpenRead
<1>8. Copied(row)' /\ Copied(plan.opens)' /\ Copied(plan.closes)'
  BY <1>0, <1>3, <1>4, <1>5 DEF Base, Copied, Ids, NoRow
<1>9. Planned'
  BY <1>0, <1>3, <1>4, <1>5 DEF Base, Planned, Ids, NoRow
<1>10. Fits'
  BY <1>0, <1>3, CloseBefore, FitsStill DEF Inv, Base
<1>11. ASSUME NEW t \in Time, NEW q \in HeldOnClock(t)' PROVE q \in HeldOnClock(t)
  <2>1. q \in Parent /\ row'[q].opened <= t /\ (row'[q].status = "OPEN" \/ row'[q].closed > t)
        /\ row'[q].status \in {"OPEN", "CLOSED"}
    BY DEF HeldOnClock, OpenRows, ClosedRows
  <2>2. CASE q = x /\ row[q].status = "OPEN"
    <3>1. row'[q].opened = row[q].opened
      BY <1>0, <1>4, <1>5, <2>2 DEF Base, Copied, Ids
    <3>. QED
      BY <2>1, <2>2, <3>1 DEF HeldOnClock, OpenRows, ClosedRows
  <2>3. CASE ~(q = x /\ row[q].status = "OPEN")
    BY <1>4, <2>1, <2>3 DEF HeldOnClock, OpenRows, ClosedRows
  <2>. QED
    BY <2>2, <2>3
<1>12. SlotsHold' /\ OneStock'
  <2>1. SlotsHold /\ OneStock
    BY DEF Inv
  <2>. QED
    BY <1>11, <2>1, FewerHeld, MirrorAssumption
<1>. QED
  BY <1>6, <1>7, <1>8, <1>9, <1>10, <1>12 DEF Inv, Base

\* The entry written next finds the book as it reckoned; those after it still do.
LEMMA OpenBefore ==
  ASSUME Base, NEW x \in Ids(plan.opens), Ids(plan.closes) = {},
         \A q \in Ids(plan.opens) : x = q \/ Earlier(x, q),
         row' = [row EXCEPT ![x] = IF @.status = "NONE" THEN plan.opens[x] ELSE @],
         plan' = [plan EXCEPT !.opens = [@ EXCEPT ![x] = NoRow]], parent' = parent
  PROVE  /\ Before(plan, x) = row /\ row[x].status = "NONE" /\ row'[x] = plan.opens[x]
         /\ row' \in Copies /\ plan' \in [closes : Copies, opens : Copies, skips : SUBSET Parent]
         /\ \A q \in Parent : q # x => row'[q] = row[q] /\ plan'.opens[q] = plan.opens[q]
         /\ Ids(plan.opens)' = Ids(plan.opens) \ {x} /\ plan'.closes = plan.closes
         /\ \A p \in Ids(plan.opens)' : Before(plan, p)' = Before(plan, p)
<1>1. /\ TypeOK /\ row \in Copies /\ plan \in [closes : Copies, opens : Copies, skips : SUBSET Parent]
      /\ x \in Parent /\ NoRow \in Row
  BY MirrorAssumption DEF Base, TypeOK, Ids, Row, NoRow, Time
<1>2. row[x].status = "NONE"
  BY DEF Base, Planned
<1>3. /\ row'[x] = plan.opens[x] /\ \A q \in Parent : q # x => row'[q] = row[q]
      /\ plan'.opens[x] = NoRow /\ \A q \in Parent : q # x => plan'.opens[q] = plan.opens[q]
      /\ plan'.closes = plan.closes /\ row' \in Copies
      /\ plan' \in [closes : Copies, opens : Copies, skips : SUBSET Parent]
  BY <1>1, <1>2 DEF Copies
<1>4. Ids(plan.opens)' = Ids(plan.opens) \ {x} /\ Ids(plan.closes)' = {}
  BY <1>3 DEF Ids, NoRow
<1>5. Before(plan, x) = row
  <2>1. \A q \in Ids(plan.opens) : ~Earlier(q, x)
    BY <1>1, EarlierOrder DEF Ids
  <2>2. row = [q \in Parent |-> row[q]]
    BY <1>1 DEF Copies
  <2>. QED
    BY <2>1, <2>2 DEF Before
<1>6. ASSUME NEW p \in Ids(plan.opens)' PROVE Before(plan, p)' = Before(plan, p)
  <2>1. p \in Ids(plan.opens) /\ Earlier(x, p)
    BY <1>4
  <2>2. \A q \in Parent : Earlier(q, p)' <=> Earlier(q, p)
    BY DEF Earlier
  <2>3. \A q \in Parent : (IF q \in Ids(plan.opens)' /\ Earlier(q, p)' THEN plan'.opens[q] ELSE row'[q])
                        = (IF q \in Ids(plan.opens) /\ Earlier(q, p) THEN plan.opens[q] ELSE row[q])
    BY <1>3, <1>4, <2>1, <2>2
  <2>4. Before(plan, p) = [q \in Parent |-> IF q \in Ids(plan.opens) /\ Earlier(q, p)
                                            THEN plan.opens[q] ELSE row[q]]
    BY DEF Before
  <2>5. Before(plan, p)' = [q \in Parent |-> IF q \in Ids(plan.opens)' /\ Earlier(q, p)'
                                             THEN plan'.opens[q] ELSE row'[q]]
    BY <1>4 DEF Before, Ids
  <2>. QED
    BY <2>3, <2>4, <2>5
<1>. QED
  BY <1>1, <1>2, <1>3, <1>4, <1>5, <1>6

\* From the time of the entry that is written on, the book holds at most what was busy and
\* the entry; before it, what it held.
LEMMA OpenHeld ==
  ASSUME Base, NEW x \in Ids(plan.opens), row[x].status = "NONE", row'[x] = plan.opens[x],
         \A q \in Parent : q # x => row'[q] = row[q], NEW t \in Time
  PROVE  IF plan.opens[x].opened <= t
         THEN HeldOnClock(t)' \subseteq Busy(row, plan.opens[x].opened) \cup {x}
         ELSE HeldOnClock(t)' \subseteq HeldOnClock(t)
<1>1. \A q \in Parent : row[q] \in Row /\ plan.opens[q] \in Row
  BY DEF Base, TypeOK, Copies
<1>. SUFFICES ASSUME NEW q \in HeldOnClock(t)'
              PROVE  IF plan.opens[x].opened <= t
                     THEN q \in Busy(row, plan.opens[x].opened) \cup {x}
                     ELSE q \in HeldOnClock(t)
  OBVIOUS
<1>2. q \in Parent /\ row'[q].opened <= t /\ (row'[q].status = "OPEN" \/ row'[q].closed > t)
      /\ row'[q].status \in {"OPEN", "CLOSED"}
  BY DEF HeldOnClock, OpenRows, ClosedRows
<1>3. CASE q = x
  BY <1>2, <1>3
<1>4. CASE q # x
  <2>1. row'[q] = row[q] /\ row[q].closed \in Int /\ plan.opens[x].opened \in Int /\ t \in Int
    BY <1>1, <1>2, <1>4 DEF Row, Ids, Time
  <2>. QED
    BY <1>2, <1>4, <2>1 DEF HeldOnClock, OpenRows, ClosedRows, Busy, Ids
<1>. QED
  BY <1>3, <1>4

LEMMA WriteOpenKeeps == ASSUME Inv, WriteOpen PROVE Inv'
<1>0. Base /\ TypeOK
  BY DEF Inv, Base
<1>1. PICK x \in Ids(plan.opens) :
        /\ \A q \in Ids(plan.opens) : x = q \/ Earlier(x, q)
        /\ row' = [row EXCEPT ![x] = IF @.status = "NONE" THEN plan.opens[x] ELSE @]
        /\ plan' = [plan EXCEPT !.opens = [@ EXCEPT ![x] = NoRow]]
  BY DEF WriteOpen
<1>2. /\ parent' = parent /\ skipped' = skipped /\ pc' = "write" /\ pc = "write"
      /\ Ids(plan.closes) = {}
  BY DEF WriteOpen, world
<1>3. /\ Before(plan, x) = row /\ row[x].status = "NONE" /\ row'[x] = plan.opens[x]
      /\ row' \in Copies /\ plan' \in [closes : Copies, opens : Copies, skips : SUBSET Parent]
      /\ \A q \in Parent : q # x => row'[q] = row[q] /\ plan'.opens[q] = plan.opens[q]
      /\ Ids(plan.opens)' = Ids(plan.opens) \ {x} /\ plan'.closes = plan.closes
      /\ \A p \in Ids(plan.opens)' : Before(plan, p)' = Before(plan, p)
  BY <1>0, <1>1, <1>2, OpenBefore
<1>4. x \in Parent /\ plan.opens[x].qty > 0
  BY <1>0 DEF Base, Planned, Ids
<1>5. TypeOK'
  <2>1. \A p \in Parent : row'[p].status # "NONE" => row'[p].qty > 0
    BY <1>0, <1>3, <1>4 DEF TypeOK
  <2>. QED
    BY <1>0, <1>2, <1>3, <2>1 DEF TypeOK, WriteOpen, world, admin
<1>6. Parents' /\ OpenRead'
  BY <1>0, <1>2 DEF Base, Parents, OpenRead
<1>7. Copied(row)' /\ Copied(plan.opens)' /\ Copied(plan.closes)'
  BY <1>0, <1>2, <1>3 DEF Base, Copied, Ids
<1>8. Planned'
  BY <1>0, <1>2, <1>3 DEF Base, Planned, Ids
<1>9. Fits'
  <2>1. \A p \in Ids(plan'.opens) : p \in Ids(plan.opens) \ {x}
    BY <1>3 DEF Ids
  <2>2. \A p \in Ids(plan'.opens) : plan'.opens[p] = plan.opens[p] /\ Before(plan, p)' = Before(plan, p)
    BY <1>3, <2>1 DEF Ids
  <2>3. Fits
    BY DEF Inv
  <2>. QED
    BY <1>0, <2>1, <2>2, <2>3, FitsStill
<1>10. /\ Cardinality(Busy(row, plan.opens[x].opened)) < MaxOpen
       /\ \A q \in Busy(row, plan.opens[x].opened) : Stock[q] # Stock[x]
  BY <1>3 DEF Inv, Fits
<1>11. ASSUME NEW t \in Time
       PROVE  /\ Cardinality(HeldOnClock(t)') <= MaxOpen
              /\ \A p, q \in HeldOnClock(t)' : Stock[p] = Stock[q] => p = q
  <2> DEFINE busy == Busy(row, plan.opens[x].opened)
  <2>1. SlotsHold /\ OneStock
    BY DEF Inv
  <2>2. IsFiniteSet(busy) /\ IsFiniteSet(HeldOnClock(t))
    BY FiniteParents DEF Busy, Ids, HeldOnClock, OpenRows, ClosedRows
  <2>3. CASE plan.opens[x].opened <= t
    <3>1. HeldOnClock(t)' \subseteq busy \cup {x}
      BY <1>0, <1>3, <2>3, OpenHeld
    <3>2. x \notin busy
      BY <1>3 DEF Busy, Ids
    <3>. HIDE DEF busy
    <3>3. IsFiniteSet(busy \cup {x}) /\ Cardinality(busy \cup {x}) = Cardinality(busy) + 1
      BY <2>2, <3>2, FS_AddElement
    <3>4. /\ Cardinality(HeldOnClock(t)') <= Cardinality(busy \cup {x})
          /\ Cardinality(HeldOnClock(t)') \in Nat /\ Cardinality(busy) \in Nat
      BY <2>2, <3>1, <3>3, FS_Subset, FS_CardinalityType
    <3>5. Cardinality(HeldOnClock(t)') <= MaxOpen
      BY <1>10, <3>3, <3>4, MirrorAssumption DEF busy
    <3>6. ASSUME NEW p \in HeldOnClock(t)', NEW q \in HeldOnClock(t)', Stock[p] = Stock[q]
          PROVE  p = q
      <4>1. CASE p # x /\ q # x
        <5>1. p \in HeldOnClock(t) /\ q \in HeldOnClock(t)
          BY <1>3, <4>1 DEF HeldOnClock, OpenRows, ClosedRows
        <5>. QED
          BY <2>1, <3>6, <5>1 DEF OneStock
      <4>2. CASE p = x /\ q # x
        BY <1>10, <3>1, <3>6, <4>2 DEF busy
      <4>3. CASE p # x /\ q = x
        BY <1>10, <3>1, <3>6, <4>3 DEF busy
      <4>. QED
        BY <4>1, <4>2, <4>3
    <3>. QED
      BY <3>5, <3>6
  <2>4. CASE ~(plan.opens[x].opened <= t)
    <3>1. HeldOnClock(t)' \subseteq HeldOnClock(t)
      BY <1>0, <1>3, <2>4, OpenHeld
    <3>2. /\ Cardinality(HeldOnClock(t)') <= Cardinality(HeldOnClock(t))
          /\ Cardinality(HeldOnClock(t)) \in Nat /\ Cardinality(HeldOnClock(t)') \in Nat
      BY <2>2, <3>1, FS_Subset, FS_CardinalityType
    <3>3. Cardinality(HeldOnClock(t)') <= MaxOpen
      BY <2>1, <3>2, MirrorAssumption DEF SlotsHold
    <3>. QED
      BY <2>1, <3>1, <3>3 DEF OneStock
  <2>. QED
    BY <2>3, <2>4
<1>12. SlotsHold' /\ OneStock'
  BY <1>11 DEF SlotsHold, OneStock, Time
<1>. QED
  BY <1>5, <1>6, <1>7, <1>8, <1>9, <1>12 DEF Inv, Base

LEMMA WriteSkipsKeeps == ASSUME Inv, WriteSkips PROVE Inv'
<1>0. Base /\ TypeOK
  BY DEF Inv, Base
<1>1. /\ row' = row /\ parent' = parent /\ plan' = NoPlan /\ pc' = "idle"
      /\ skipped' = skipped \cup plan.skips
  BY DEF WriteSkips, world
<1>2. NoPlan \in [closes : Copies, opens : Copies, skips : SUBSET Parent]
  BY NoCopiesThere DEF NoPlan
<1>3. TypeOK'
  BY <1>0, <1>1, <1>2 DEF TypeOK, WriteSkips, world, admin
<1>4. Parents' /\ OpenRead'
  BY <1>0, <1>1 DEF Base, Parents, OpenRead
<1>5. /\ Copied(row)' /\ Copied(plan.opens)' /\ Copied(plan.closes)'
      /\ Ids(plan.opens)' = {} /\ Ids(plan.closes)' = {}
      /\ Fits' /\ SlotsHold' /\ OneStock'
  BY <1>1, PlanDropped
<1>6. Planned'
  BY <1>1, <1>5 DEF Planned
<1>. QED
  BY <1>3, <1>4, <1>5, <1>6 DEF Inv, Base

-----------------------------------------------------------------------------
(* A reset, the tournament, time and the process.                          *)

LEMMA ResetReadKeeps == ASSUME Inv, ResetRead PROVE Inv'
<1>0. Base /\ TypeOK
  BY DEF Inv, Base
<1>1. /\ row' = row /\ parent' = parent /\ plan' = plan /\ pc' = pc /\ open' = open
      /\ skipped' = skipped
  BY DEF ResetRead, world, books, pass
<1>2. TypeOK'
  BY <1>0, MirrorAssumption DEF TypeOK, ResetRead, world, books, pass, OpenRows, ClosedRows
<1>3. Parents' /\ OpenRead' /\ Planned'
  BY <1>0, <1>1 DEF Base, Parents, OpenRead, OpenRows, Planned, Ids
<1>. QED
  BY <1>1, <1>2, <1>3, BooksStay DEF Inv, Base, Kept

LEMMA ResetDeleteKeeps == ASSUME Inv, ResetDelete PROVE Inv'
<1>0. Base /\ TypeOK
  BY DEF Inv, Base
<1>1. /\ parent' = parent /\ plan' = plan /\ pc' = pc /\ open' = open
      /\ skipped' = skipped /\ row' = [p \in Parent |-> IF p \in wiping.rows THEN NoRow ELSE row[p]]
  BY DEF ResetDelete, world, pass
<1>2. NoRow \in Row
  BY MirrorAssumption DEF NoRow, Row, Time
<1>3. /\ row' \in Copies /\ \A p \in Parent : row'[p] = row[p] \/ row'[p] = NoRow
  BY <1>0, <1>1, <1>2 DEF TypeOK, Copies
<1>4. TypeOK'
  <2>1. \A p \in Parent : row'[p].status # "NONE" => row'[p].qty > 0
    BY <1>0, <1>3 DEF TypeOK, NoRow
  <2>. QED
    BY <1>0, <1>3, <2>1 DEF TypeOK, ResetDelete, world, pass
<1>5. Parents' /\ Planned'
  BY <1>0, <1>1, <1>3 DEF Base, Parents, Planned, Ids, NoRow
<1>6. Copied(row)' /\ Copied(plan.opens)' /\ Copied(plan.closes)'
  BY <1>0, <1>1, <1>3 DEF Base, Copied, Ids, NoRow
<1>7. OpenRead'
  BY <1>0, <1>1, <1>3 DEF Base, OpenRead, OpenRows, Ids, NoRow
<1>8. Fits'
  <2>1. ASSUME NEW p \in Ids(plan'.opens)
        PROVE  /\ p \in Ids(plan.opens) /\ plan'.opens[p] = plan.opens[p]
               /\ Busy(Before(plan, p)', plan.opens[p].opened) \subseteq Busy(Before(plan, p), plan.opens[p].opened)
    <3>1. \A q \in Parent : Earlier(q, p)' <=> Earlier(q, p)
      BY <1>1 DEF Earlier
    <3>2. \A q \in Parent : Before(plan, p)'[q] = Before(plan, p)[q] \/ Before(plan, p)'[q] = NoRow
      BY <1>1, <1>3, <3>1 DEF Before, Ids, NoRow
    <3>. QED
      BY <1>1, <3>2 DEF Busy, Ids, NoRow
  <2>2. Fits
    BY DEF Inv
  <2>. QED
    BY <1>0, <2>1, <2>2, FitsStill
<1>9. SlotsHold' /\ OneStock'
  <2>1. \A t \in Time : HeldOnClock(t)' \subseteq HeldOnClock(t)
    BY <1>3 DEF HeldOnClock, OpenRows, ClosedRows, NoRow
  <2>. QED
    BY <2>1, FewerHeld, MirrorAssumption DEF Inv
<1>. QED
  BY <1>4, <1>5, <1>6, <1>7, <1>8, <1>9 DEF Inv, Base

LEMMA ResetRecordKeeps == ASSUME Inv, ResetRecord PROVE Inv'
<1>0. Base /\ TypeOK
  BY DEF Inv, Base
<1>1. /\ row' = row /\ parent' = parent /\ plan' = plan /\ pc' = pc /\ open' = open
      /\ skipped' = skipped
  BY DEF ResetRecord, world, pass
<1>2. TypeOK'
  <2>1. NoWipe \in [at : Time, rows : SUBSET Parent, step : {"none", "delete", "record"}]
    BY MirrorAssumption DEF NoWipe, Time
  <2>. QED
    BY <1>0, <2>1 DEF TypeOK, ResetRecord, world, pass
<1>3. Parents' /\ OpenRead' /\ Planned'
  BY <1>0, <1>1 DEF Base, Parents, OpenRead, OpenRows, Planned, Ids
<1>. QED
  BY <1>1, <1>2, <1>3, BooksStay DEF Inv, Base, Kept

LEMMA ResetFailsKeeps == ASSUME Inv, ResetFails PROVE Inv'
<1>0. Base /\ TypeOK
  BY DEF Inv, Base
<1>1. /\ row' = row /\ parent' = parent /\ plan' = plan /\ pc' = pc /\ open' = open
      /\ skipped' = skipped
  BY DEF ResetFails, world, books, pass
<1>2. TypeOK'
  <2>1. NoWipe \in [at : Time, rows : SUBSET Parent, step : {"none", "delete", "record"}]
    BY MirrorAssumption DEF NoWipe, Time
  <2>2. troubles' \in 0..MaxTroubles
    BY <1>0, MirrorAssumption DEF TypeOK, ResetFails
  <2>. QED
    BY <1>0, <2>1, <2>2 DEF TypeOK, ResetFails, world, books, pass
<1>3. Parents' /\ OpenRead' /\ Planned'
  BY <1>0, <1>1 DEF Base, Parents, OpenRead, OpenRows, Planned, Ids
<1>. QED
  BY <1>1, <1>2, <1>3, BooksStay DEF Inv, Base, Kept

\* What a trade of the tournament does to the passes: its copies keep its times.
LEMMA TournamentKeeps ==
  ASSUME Inv, NEW p \in Parent, TournamentOpens(p) \/ TournamentCloses(p) PROVE Inv'
<1>0. Base /\ TypeOK
  BY DEF Inv, Base
<1>1. /\ row' = row /\ plan' = plan /\ pc' = pc /\ open' = open /\ skipped' = skipped
      /\ clock' = clock /\ resetAt' = resetAt /\ entries' = entries /\ floor' = floor
      /\ wiping' = wiping /\ wiped' = wiped /\ troubles' = troubles
  BY DEF TournamentOpens, TournamentCloses, books, pass, admin
<1>2. parent \in [Parent -> ParentRow] /\ clock \in Time
  BY <1>0 DEF TypeOK
<1>3. CASE TournamentOpens(p)
  <2>1. PICK t \in Time :
          /\ t <= clock
          /\ parent' = [parent EXCEPT ![p] = [NoParent EXCEPT !.status = "OPEN", !.opened = t,
                                                               !.written = clock]]
    BY <1>3 DEF TournamentOpens
  <2>2. /\ parent[p].status = "NONE"
        /\ parent'[p] = [status |-> "OPEN", opened |-> t, closed |-> 0, gain |-> 0, written |-> clock]
        /\ \A q \in Parent : q # p => parent'[q] = parent[q]
    BY <1>2, <1>3, <2>1 DEF TournamentOpens, NoParent
  <2>3. parent'[p] \in ParentRow
    BY <1>2, <2>2, MirrorAssumption DEF ParentRow, Time
  <2>4. parent' \in [Parent -> ParentRow]
    BY <1>2, <2>1, <2>2, <2>3
  <2>5. Kept
    BY <2>2 DEF Kept
  <2>6. Parents'
    BY <1>0, <2>1, <2>2 DEF Base, Parents
  <2>. QED
    BY <1>0, <1>1, <2>4, <2>5, <2>6, BooksStay
       DEF Inv, Base, TypeOK, OpenRead, OpenRows, Planned, Ids, Kept
<1>4. CASE TournamentCloses(p)
  <2>1. PICK t \in Time, g \in Gain :
          /\ t > parent[p].written
          /\ parent' = [parent EXCEPT ![p].status = "CLOSED", ![p].closed = t, ![p].gain = g]
    BY <1>4 DEF TournamentCloses
  <2>2. /\ parent[p].status = "OPEN"
        /\ parent'[p] = [parent[p] EXCEPT !.status = "CLOSED", !.closed = t, !.gain = g]
        /\ \A q \in Parent : q # p => parent'[q] = parent[q]
    BY <1>2, <1>4, <2>1 DEF TournamentCloses
  <2>3. /\ parent'[p] \in ParentRow /\ parent'[p].status = "CLOSED" /\ parent'[p].closed = t
        /\ parent'[p].opened = parent[p].opened /\ parent'[p].written = parent[p].written
    BY <1>2, <2>2 DEF ParentRow
  <2>4. parent' \in [Parent -> ParentRow]
    BY <1>2, <2>1, <2>2, <2>3
  <2>5. Kept
    BY <2>2, <2>3 DEF Kept
  <2>6. Parents'
    <3>1. t \in Int /\ parent[p].written \in Int /\ parent[p].opened \in Int
      BY <1>2 DEF ParentRow, Time
    <3>2. parent[p].opened <= parent[p].written
      BY <1>0 DEF Base, Parents
    <3>3. t >= parent[p].opened
      BY <2>1, <3>1, <3>2
    <3>. QED
      BY <1>0, <2>2, <2>3, <3>2, <3>3 DEF Base, Parents
  <2>. QED
    BY <1>0, <1>1, <2>4, <2>5, <2>6, BooksStay
       DEF Inv, Base, TypeOK, OpenRead, OpenRows, Planned, Ids, Kept
<1>. QED
  BY <1>3, <1>4

LEMMA TickKeeps == ASSUME Inv, Tick \/ UNCHANGED vars PROVE Inv'
<1>0. Base /\ TypeOK
  BY DEF Inv, Base
<1>1. /\ row' = row /\ parent' = parent /\ plan' = plan /\ pc' = pc /\ open' = open
      /\ skipped' = skipped
  BY DEF Tick, vars, world, books, pass
<1>2. TypeOK'
  <2>1. clock' \in Time
    BY <1>0, MirrorAssumption DEF TypeOK, Tick, Time, vars, world
  <2>. QED
    BY <1>0, <2>1 DEF TypeOK, Tick, vars, world, books, pass, admin
<1>3. Parents' /\ OpenRead' /\ Planned'
  BY <1>0, <1>1 DEF Base, Parents, OpenRead, OpenRows, Planned, Ids
<1>. QED
  BY <1>1, <1>2, <1>3, BooksStay DEF Inv, Base, Kept

LEMMA CrashKeeps == ASSUME Inv, Crash PROVE Inv'
<1>0. Base /\ TypeOK
  BY DEF Inv, Base
<1>1. /\ row' = row /\ parent' = parent /\ plan' = NoPlan /\ pc' = "idle"
      /\ skipped' = skipped /\ resetAt' = resetAt
      /\ open' = NoCopies /\ floor' = 0 /\ entries' = FALSE
      /\ wiping' = NoWipe /\ wiped' = wiped /\ clock' = clock
  BY DEF Crash, world, books
<1>2. /\ NoPlan \in [closes : Copies, opens : Copies, skips : SUBSET Parent]
      /\ NoWipe \in [at : Time, rows : SUBSET Parent, step : {"none", "delete", "record"}]
      /\ NoCopies \in Copies /\ 0 \in Time
  BY NoCopiesThere, MirrorAssumption DEF NoPlan, NoWipe, Time
<1>3. troubles' \in 0..MaxTroubles
  BY <1>0, MirrorAssumption DEF TypeOK, Crash
<1>4. TypeOK'
  BY <1>0, <1>1, <1>2, <1>3 DEF TypeOK
<1>5. Parents' /\ OpenRead'
  BY <1>0, <1>1 DEF Base, Parents, OpenRead
<1>6. /\ Copied(row)' /\ Copied(plan.opens)' /\ Copied(plan.closes)'
      /\ Ids(plan.opens)' = {} /\ Ids(plan.closes)' = {}
      /\ Fits' /\ SlotsHold' /\ OneStock'
  BY <1>1, PlanDropped
<1>7. Planned'
  BY <1>1, <1>6 DEF Planned
<1>. QED
  BY <1>4, <1>5, <1>6, <1>7 DEF Inv, Base

LEMMA InitInv == Init => Inv
<1>. SUFFICES ASSUME Init PROVE Inv
  OBVIOUS
<1>1. /\ row = NoCopies /\ plan = NoPlan /\ pc = "idle" /\ open = NoCopies
      /\ Ids(plan.opens) = {} /\ Ids(plan.closes) = {} /\ Ids(row) = {}
      /\ parent = [p \in Parent |-> NoParent]
  BY NoCopiesThere DEF Init, NoPlan
<1>2. /\ NoPlan \in [closes : Copies, opens : Copies, skips : SUBSET Parent]
      /\ NoWipe \in [at : Time, rows : SUBSET Parent, step : {"none", "delete", "record"}]
      /\ NoCopies \in Copies /\ 0 \in Time /\ NoParent \in ParentRow
  BY NoCopiesThere, MirrorAssumption DEF NoPlan, NoWipe, Time, NoParent, ParentRow
<1>3. TypeOK
  <2>1. \A p \in Parent : row[p].status = "NONE"
    BY <1>1, NoCopiesThere DEF NoRow
  <2>2. /\ clock = 0 /\ skipped = {} /\ resetAt = 0 /\ entries = FALSE /\ floor = 0
        /\ wiping = NoWipe /\ wiped = 0 /\ troubles = 0
    BY DEF Init
  <2>3. parent \in [Parent -> ParentRow] /\ troubles \in 0..MaxTroubles
    BY <1>1, <1>2, <2>2, MirrorAssumption
  <2>. QED
    BY <1>1, <1>2, <2>1, <2>2, <2>3 DEF TypeOK
<1>4. Parents
  BY <1>1 DEF Parents, NoParent
<1>5. Copied(row) /\ Copied(plan.opens) /\ Copied(plan.closes) /\ OpenRead /\ Planned /\ Fits
  BY <1>1 DEF Copied, OpenRead, Planned, Fits
<1>6. SlotsHold /\ OneStock
  <2>1. \A t \in Time : HeldOnClock(t) = {}
    BY <1>1 DEF HeldOnClock, OpenRows, ClosedRows, Ids
  <2>. QED
    BY <2>1, FS_EmptySet, MirrorAssumption DEF SlotsHold, OneStock
<1>. QED
  BY <1>3, <1>4, <1>5, <1>6 DEF Inv, Base

\* Whatever a pass, a reset, the tournament or the process does, the invariant stays.
LEMMA NextInv == ASSUME Inv, [Next]_vars PROVE Inv'
<1>1. CASE PassStep
  BY <1>1, BeginKeeps, ReadAndPlanKeeps, WriteCloseKeeps, WriteOpenKeeps, WriteSkipsKeeps DEF PassStep
<1>2. CASE ResetRead \/ ResetDelete \/ ResetRecord \/ ResetFails
  BY <1>2, ResetReadKeeps, ResetDeleteKeeps, ResetRecordKeeps, ResetFailsKeeps
<1>3. CASE \E p \in Parent : TournamentOpens(p) \/ TournamentCloses(p)
  BY <1>3, TournamentKeeps
<1>4. CASE Tick \/ Crash \/ UNCHANGED vars
  BY <1>4, TickKeeps, CrashKeeps
<1>. QED
  BY <1>1, <1>2, <1>3, <1>4 DEF Next

\* The inductive invariant.
LEMMA BookInv == Spec => []Inv
<1>1. Inv /\ [Next]_vars => Inv'
  BY NextInv
<1>. QED
  BY <1>1, InitInv, PTL DEF Spec

\* A book holds copies of the tournament's trades, each of at least one share.
THEOREM BookTypes == Spec => []TypeOK
<1>1. Inv => TypeOK
  BY DEF Inv, Base
<1>. QED
  BY <1>1, BookInv, PTL

\* On the trades' own clock the book never held more positions than it has slots, for any
\* tournament, however late its trades were written, in whatever order passes ran, whenever
\* the process stopped or a reset came between (plan_book's REWIND).
THEOREM SlotsNeverExceeded == Spec => []SlotsHold
<1>1. Inv => SlotsHold
  BY DEF Inv
<1>. QED
  BY <1>1, BookInv, PTL

\* Nor two positions in one stock.
THEOREM StockHeldOnce == Spec => []OneStock
<1>1. Inv => OneStock
  BY DEF Inv
<1>. QED
  BY <1>1, BookInv, PTL

-----------------------------------------------------------------------------
(* Decisions.                                                              *)

LEMMA StepStands == ASSUME Inv, [Next]_vars PROVE \A p \in Parent : Stands(p)
<1>0. Base /\ TypeOK
  BY DEF Inv, Base
<1>1. CASE row' = row
  BY <1>1 DEF Stands
<1>2. CASE WriteClose
  <2>1. PICK x \in Ids(plan.closes) :
          row' = [row EXCEPT ![x] = IF @.status = "OPEN" THEN plan.closes[x] ELSE @]
    BY <1>2 DEF WriteClose
  <2>2. /\ x \in Parent /\ row \in Copies /\ plan.closes[x].status = "CLOSED"
        /\ row[x].status = "OPEN" => /\ plan.closes[x].qty = row[x].qty
                                     /\ plan.closes[x].opened = row[x].opened
    BY <1>0 DEF Base, TypeOK, Planned, Copied, Ids
  <2>3. /\ row'[x] = IF row[x].status = "OPEN" THEN plan.closes[x] ELSE row[x]
        /\ \A q \in Parent : q # x => row'[q] = row[q]
    BY <2>1, <2>2 DEF Copies
  <2>. QED
    BY <2>2, <2>3 DEF Stands
<1>3. CASE WriteOpen
  <2>1. PICK x \in Ids(plan.opens) :
          row' = [row EXCEPT ![x] = IF @.status = "NONE" THEN plan.opens[x] ELSE @]
    BY <1>3 DEF WriteOpen
  <2>2. x \in Parent /\ row \in Copies /\ row[x].status = "NONE" /\ x \notin skipped
    BY <1>0 DEF Base, TypeOK, Planned, Ids
  <2>3. \A q \in Parent : q # x => row'[q] = row[q]
    BY <2>1, <2>2 DEF Copies
  <2>. QED
    BY <2>2, <2>3 DEF Stands
<1>4. CASE ResetDelete
  <2>1. \A p \in Parent : row'[p] = row[p] \/ row'[p] = NoRow
    BY <1>0, <1>4 DEF ResetDelete, TypeOK, Copies
  <2>. QED
    BY <1>4, <2>1 DEF Stands, ResetDelete, NoRow
<1>5. row' = row \/ WriteClose \/ WriteOpen \/ ResetDelete
  BY DEF Next, PassStep, Begin, ReadAndPlan, WriteSkips, ResetRead, ResetRecord, TournamentOpens,
         TournamentCloses, Tick, Crash, ResetFails, vars, world, books
<1>. QED
  BY <1>1, <1>2, <1>3, <1>4, <1>5

\* A copy keeps its size and its times and closes once, and what was skipped stays skipped,
\* whatever pass, retry, restart or reset comes.
THEOREM Decisions == Spec => DecisionsStand
<1>1. Inv /\ [Next]_vars => [\A p \in Parent : Stands(p)]_vars
  BY StepStands
<1>. QED
  BY <1>1, BookInv, PTL DEF Spec, DecisionsStand

-----------------------------------------------------------------------------
(* Cash.                                                                   *)

\* What a copy adds to the cash the book shows at t.
Shown(p, r, t) ==
  IF r.status = "NONE" THEN 0
  ELSE IF r.status = "CLOSED" /\ r.closed <= t THEN Profit(r)
  ELSE IF r.opened <= t THEN 0 - Spend(p, r)
  ELSE 0

CashShown(copies, t) == Capital + SumFunctionOnSet([q \in Parent |-> Shown(q, copies[q], t)], Parent)

LEMMA ShownTypes ==
  ASSUME NEW p \in Parent, NEW r \in Row, NEW t \in Time PROVE Shown(p, r, t) \in Int
BY MoneyTypes DEF Shown

LEMMA ShownSums ==
  ASSUME NEW b \in Copies, NEW t \in Time
  PROVE  LET closed == {q \in Parent : b[q].status = "CLOSED"}
             opened == {q \in Parent : b[q].status = "OPEN"}
             held   == {p \in opened \cup closed :
                          b[p].opened <= t /\ (b[p].status = "OPEN" \/ b[p].closed > t)}
             gone   == {q \in closed : b[q].closed <= t}
         IN  Capital + SumFunction([p \in gone |-> Profit(b[p])])
                     - SumFunction([p \in held |-> Spend(p, b[p])])
             = CashShown(b, t)
<1> DEFINE closed == {q \in Parent : b[q].status = "CLOSED"}
           opened == {q \in Parent : b[q].status = "OPEN"}
           held == {p \in opened \cup closed :
                      b[p].opened <= t /\ (b[p].status = "OPEN" \/ b[p].closed > t)}
           gone == {q \in closed : b[q].closed <= t}
           fG == [p \in gone |-> Profit(b[p])]
           fH == [p \in held |-> Spend(p, b[p])]
           g == [q \in Parent |-> IF q \in gone THEN Profit(b[q]) ELSE 0]
           h == [q \in Parent |-> IF q \in held THEN Spend(q, b[q]) ELSE 0]
           s == [q \in Parent |-> Shown(q, b[q], t)]
<1>1. \A q \in Parent : b[q] \in Row
  BY DEF Copies
<1>2. \A q \in Parent : Profit(b[q]) \in Int /\ Spend(q, b[q]) \in Int
  BY <1>1, MoneyTypes
<1>3. \A q \in Parent : g[q] \in Int /\ h[q] \in Int
  BY <1>2
<1>4. SumFunction(fG) = SumFunctionOnSet(g, Parent)
  <2>1. /\ gone \in SUBSET Parent /\ DOMAIN fG = gone /\ \A q \in gone : g[q] = fG[q]
        /\ \A q \in Parent \ gone : g[q] = 0
    OBVIOUS
  <2>. HIDE DEF fG, g, gone
  <2>. QED
    BY <1>3, <2>1, SumOver
<1>5. SumFunction(fH) = SumFunctionOnSet(h, Parent)
  <2>1. /\ held \in SUBSET Parent /\ DOMAIN fH = held /\ \A q \in held : h[q] = fH[q]
        /\ \A q \in Parent \ held : h[q] = 0
    OBVIOUS
  <2>. HIDE DEF fH, h, held
  <2>. QED
    BY <1>3, <2>1, SumOver
<1>6. ASSUME NEW q \in Parent PROVE s[q] = g[q] - h[q]
  <2>1. b[q].status \in {"NONE", "OPEN", "CLOSED"} /\ b[q].closed \in Int /\ t \in Int
    BY <1>1 DEF Row, Time
  <2>2. q \in gone <=> b[q].status = "CLOSED" /\ b[q].closed <= t
    OBVIOUS
  <2>3. q \in held <=> /\ b[q].status \in {"OPEN", "CLOSED"} /\ b[q].opened <= t
                       /\ b[q].status = "OPEN" \/ ~(b[q].closed <= t)
    BY <2>1
  <2>4. g[q] = (IF q \in gone THEN Profit(b[q]) ELSE 0) /\ h[q] = (IF q \in held THEN Spend(q, b[q]) ELSE 0)
    OBVIOUS
  <2>5. s[q] = Shown(q, b[q], t)
    OBVIOUS
  <2>. HIDE DEF gone, held, g, h, s
  <2>. QED
    BY <1>2, <2>1, <2>2, <2>3, <2>4, <2>5 DEF Shown
<1>7. SumFunctionOnSet(s, Parent) = SumFunctionOnSet(g, Parent) - SumFunctionOnSet(h, Parent)
  <2>1. \A q \in Parent : s[q] \in Int
    BY <1>3, <1>6
  <2>2. IsFiniteSet(Parent)
    BY FiniteParents
  <2>. HIDE DEF s, g, h
  <2>. QED
    BY <1>3, <1>6, <2>1, <2>2, SumMinus
<1>8. SumFunctionOnSet(g, Parent) \in Int /\ SumFunctionOnSet(h, Parent) \in Int /\ Capital \in Int
  <2>1. IsFiniteSet(Parent) /\ Capital \in Int
    BY MirrorAssumption
  <2>. HIDE DEF g, h
  <2>. QED
    BY <1>3, <2>1, SumType
<1>9. CashShown(b, t) = Capital + SumFunctionOnSet(s, Parent)
  BY DEF CashShown
<1>10. Capital + SumFunction(fG) - SumFunction(fH) = CashShown(b, t)
  <2>. HIDE DEF s, g, h, fG, fH
  <2>. QED
    BY <1>4, <1>5, <1>7, <1>8, <1>9
<1>. QED
  BY <1>10

LEMMA CashIsShown == TypeOK => \A t \in Time : CashOnClock(t) = CashShown(row, t)
BY ShownSums DEF TypeOK, CashOnClock, HeldOnClock, ClosedRows, OpenRows

LEMMA CashWillBeShown == TypeOK' => \A t \in Time : CashOnClock(t)' = CashShown(row', t)
BY ShownSums DEF TypeOK, CashOnClock, HeldOnClock, ClosedRows, OpenRows

\* A step of this kind leaves a book that no pass races with a reset as it should be.
LEMMA NothingWritten ==
  ASSUME Inv, Alone, row' = row, plan' = plan, Kept, resetAt' = resetAt,
         floor' = floor, open' = open, pc' = pc
  PROVE  /\ Affords' /\ CashHolds' /\ ResetHolds'
         /\ wiping' = wiping => Alone'
<1>1. Affords' /\ CashHolds'
  BY BooksStay DEF Alone
<1>2. ResetHolds'
  BY DEF Alone, ResetHolds
<1>3. wiping' = wiping => Resets'
  BY DEF Alone, Resets, Ids, OpenRows
<1>. QED
  BY <1>1, <1>2, <1>3 DEF Alone

LEMMA BeginAlone == ASSUME Inv, Alone, ~RaceReset, Begin PROVE Alone'
<1>1. /\ row' = row /\ plan' = plan /\ Kept /\ resetAt' = resetAt
      /\ wiping' = wiping /\ wiping.step = "none" /\ pc' = "read" /\ floor' = resetAt
      /\ open' = [p \in Parent |-> IF p \in OpenRows THEN row[p] ELSE NoRow]
  BY DEF Begin, world, books, admin, Kept
<1>2. Affords' /\ CashHolds'
  BY <1>1, BooksStay DEF Alone
<1>3. ResetHolds'
  BY <1>1 DEF Alone, ResetHolds
<1>4. Ids(open)' = OpenRows' /\ Ids(plan.opens)' = Ids(plan.opens) /\ OpenRows' = OpenRows
  BY <1>1 DEF Ids, OpenRows, NoRow
<1>5. Resets'
  BY <1>1, <1>4 DEF Alone, Resets
<1>. QED
  BY <1>2, <1>3, <1>5 DEF Alone

LEMMA ReadAndPlanAlone == ASSUME Inv, Alone, ~RaceReset, ReadAndPlan PROVE Alone'
<1>1. Base /\ TypeOK /\ pc = "read" /\ Ids(open) = OpenRows /\ wiping.step = "none"
      /\ floor = resetAt
  BY DEF Inv, Base, Alone, Resets, ReadAndPlan, TypeOK
<1>2. PICK breaker \in BOOLEAN : plan' = PlanBook(breaker)
  BY <1>1 DEF ReadAndPlan, TypeOK
<1>3. /\ pc' = "write" /\ row' = row /\ parent' = parent /\ wiping' = wiping
      /\ resetAt' = resetAt
  BY DEF ReadAndPlan, world, books, admin
<1> DEFINE T == Entered(breaker)
           cash(p) == CashAt(parent[p].opened, EarlierOf(T, p))
<1>4. plan'.opens = T
  BY <1>1, <1>2, PlanHas
<1>5. Sound(T, breaker) /\ Ids(T) \subseteq Pending
  BY <1>1, EnteredSound
<1>6. ASSUME NEW p \in Ids(T)
      PROVE  /\ p \in Parent /\ T[p].opened = parent[p].opened /\ T[p].opened >= resetAt
             /\ Spend(p, T[p]) <= CashLeft(Before(PlanBook(breaker), p), T[p].opened)
  <2>1. p \in Parent /\ parent[p].opened >= floor /\ parent[p].opened \in Time
    BY <1>1, <1>5, PendingParents DEF TypeOK, ParentRow
  <2>2. T[p] = CopyOf(p, Shares(p, cash(p))) /\ ~Refused(p, EarlierOf(T, p), breaker)
    BY <1>5 DEF Sound
  <2>3. EarlierOf(T, p) \in Copies
    BY <1>5, NoCopiesThere DEF Sound, EarlierOf, Copies, NoCopies
  <2>4. cash(p) \in Int
    BY <1>1, <2>1, <2>3, CashType
  <2>5. Shares(p, cash(p)) \in Nat /\ ~(Shares(p, cash(p)) < 1)
    BY <2>1, <2>2, <2>4, SharesPaid DEF Refused
  <2>6. Price[p] * Shares(p, cash(p)) <= cash(p)
    <3>. HIDE DEF cash
    <3>1. Shares(p, cash(p)) >= 1
      BY <2>5
    <3>. QED
      BY <2>1, <2>4, <3>1, SharesPaid
  <2>7. CashLeft(Before(PlanBook(breaker), p), parent[p].opened) = cash(p)
    BY <1>1, PlanCash
  <2>. HIDE DEF T, cash
  <2>8. T[p].opened = parent[p].opened /\ T[p].qty = Shares(p, cash(p))
    BY <2>2 DEF CopyOf
  <2>. QED
    BY <1>1, <2>1, <2>6, <2>7, <2>8 DEF Spend
<1>7. Affords'
  <2>1. \A p \in Ids(plan.opens)' : Before(plan, p)' = Before(PlanBook(breaker), p)
    BY <1>2, <1>3 DEF Before, Ids, Earlier
  <2>2. Ids(plan.opens)' = Ids(T)
    BY <1>4 DEF Ids
  <2>3. \A p \in Ids(plan.opens)' :
          /\ Spend(p, plan.opens[p])' = Spend(p, T[p])
          /\ CashLeft(Before(plan, p), plan.opens[p].opened)'
               = CashLeft(Before(PlanBook(breaker), p), T[p].opened)
    BY <1>4, <2>1 DEF CashLeft, Spend, Least, Profit
  <2>. HIDE DEF T
  <2>. QED
    BY <1>6, <2>2, <2>3 DEF Affords
<1>8. CashHolds' /\ ResetHolds'
  <2>1. \A t \in Time : CashOnClock(t)' = CashOnClock(t)
    BY <1>3 DEF CashOnClock, HeldOnClock, OpenRows, ClosedRows, Spend, Profit
  <2>. QED
    BY <1>3, <2>1 DEF Alone, CashHolds, ResetHolds, Time
<1>9. Resets'
  <2>1. Ids(plan.opens)' = Ids(T)
    BY <1>4 DEF Ids
  <2>2. \A p \in Ids(plan.opens)' : plan'.opens[p].opened >= resetAt
    BY <1>4, <1>6, <2>1
  <2>. HIDE DEF T
  <2>. QED
    BY <1>1, <1>3, <2>2 DEF Resets
<1>. QED
  BY <1>7, <1>8, <1>9 DEF Alone

LEMMA WriteCloseAlone == ASSUME Inv, Alone, ~RaceReset, WriteClose PROVE Alone'
<1>0. Base /\ TypeOK /\ TypeOK'
  BY WriteCloseKeeps DEF Inv, Base
<1>1. PICK x \in Ids(plan.closes) :
        row' = [row EXCEPT ![x] = IF @.status = "OPEN" THEN plan.closes[x] ELSE @]
  BY DEF WriteClose
<1>2. /\ x \in Parent /\ row \in Copies /\ row' \in Copies /\ plan.closes[x].status = "CLOSED"
      /\ plan.closes[x] \in Row
      /\ row[x].status = "OPEN" => /\ plan.closes[x].qty = row[x].qty
                                   /\ plan.closes[x].opened = row[x].opened
                                   /\ plan.closes[x].closed >= row[x].opened
  BY <1>0 DEF Base, TypeOK, Planned, Copied, Ids, Copies
<1>3. /\ row'[x] = IF row[x].status = "OPEN" THEN plan.closes[x] ELSE row[x]
      /\ \A q \in Parent : q # x => row'[q] = row[q]
  BY <1>1, <1>2 DEF Copies
<1>4. /\ pc = "write" /\ pc' = "write" /\ wiping' = wiping /\ resetAt' = resetAt
  BY DEF WriteClose, admin
<1>5. plan'.opens = plan.opens /\ \A p \in Ids(plan.opens) : Before(plan, p)' = Before(plan, p)
  BY <1>0, CloseBefore
<1>6. Affords'
  BY <1>5 DEF Alone, Affords, CashLeft, Ids, Spend, Least, Profit
<1>7. ResetHolds'
  BY <1>2, <1>3, <1>4 DEF Alone, ResetHolds
<1>8. Resets'
  BY <1>4, <1>5 DEF Alone, Resets, Ids
<1>9. ASSUME NEW t \in Time PROVE CashShown(row, t) <= CashShown(row', t)
  <2> DEFINE f == [q \in Parent |-> Shown(q, row[q], t)]
             g == [q \in Parent |-> Shown(q, row'[q], t)]
  <2>1. \A q \in Parent : row[q] \in Row /\ row'[q] \in Row
    BY <1>2 DEF Copies
  <2>2. \A q \in Parent : f[q] \in Int /\ g[q] \in Int
    BY <2>1, ShownTypes
  <2>3. f[x] <= g[x]
    <3>0. f[x] = Shown(x, row[x], t) /\ g[x] = Shown(x, row'[x], t) /\ f[x] \in Int
      BY <1>2, <2>2
    <3>. HIDE DEF f, g
    <3>1. CASE row[x].status # "OPEN"
      BY <1>3, <3>0, <3>1
    <3>2. CASE row[x].status = "OPEN"
      <4> DEFINE r == plan.closes[x]
      <4>1. row'[x] = r /\ r.status = "CLOSED"
        BY <1>2, <1>3, <3>2
      <4>2. Spend(x, r) = Spend(x, row[x])
        BY <1>2, <3>2 DEF Spend
      <4>3. Spend(x, r) \in Nat /\ Profit(r) \in Int /\ Spend(x, r) + Profit(r) >= 0
        BY <1>2, MoneyTypes
      <4>4. r.opened = row[x].opened /\ r.closed >= row[x].opened
            /\ r.closed \in Int /\ row[x].opened \in Int /\ t \in Int
        BY <1>2, <2>1, <3>2 DEF Row, Time
      <4>5. f[x] = IF row[x].opened <= t THEN 0 - Spend(x, r) ELSE 0
        BY <3>0, <3>2, <4>2 DEF Shown
      <4>6. g[x] = IF r.closed <= t THEN Profit(r) ELSE IF row[x].opened <= t THEN 0 - Spend(x, r) ELSE 0
        BY <3>0, <4>1, <4>4 DEF Shown
      <4>. HIDE DEF r
      <4>. QED
        BY <4>3, <4>4, <4>5, <4>6
    <3>. QED
      BY <3>1, <3>2
  <2>4. \A q \in Parent : f[q] <= g[q]
    <3>1. \A q \in Parent : q # x => f[q] = g[q]
      BY <1>3
    <3>. HIDE DEF f, g
    <3>. QED
      BY <2>2, <2>3, <3>1
  <2>5. IsFiniteSet(Parent) /\ Capital \in Int
    BY MirrorAssumption
  <2>6. CashShown(row, t) = Capital + SumFunctionOnSet(f, Parent)
        /\ CashShown(row', t) = Capital + SumFunctionOnSet(g, Parent)
    BY DEF CashShown
  <2>. HIDE DEF f, g
  <2>7. SumFunctionOnSet(f, Parent) <= SumFunctionOnSet(g, Parent)
    BY <2>2, <2>4, <2>5, SumLeq
  <2>8. SumFunctionOnSet(f, Parent) \in Int /\ SumFunctionOnSet(g, Parent) \in Int
    BY <2>2, <2>5, SumType
  <2>. QED
    BY <2>5, <2>6, <2>7, <2>8
<1>10. CashHolds'
  <2>1. ASSUME NEW t \in Time PROVE CashOnClock(t)' >= 0
    <3>1. CashOnClock(t) = CashShown(row, t) /\ CashOnClock(t)' = CashShown(row', t)
      BY <1>0, CashIsShown, CashWillBeShown
    <3>2. CashShown(row, t) >= 0
      BY <3>1 DEF Alone, CashHolds
    <3>3. CashShown(row, t) \in Int /\ CashShown(row', t) \in Int
      <4>1. \A q \in Parent : Shown(q, row[q], t) \in Int /\ Shown(q, row'[q], t) \in Int
        BY <1>2, ShownTypes DEF Copies
      <4>2. IsFiniteSet(Parent) /\ Capital \in Int
        BY MirrorAssumption
      <4>. QED
        BY <4>1, <4>2, SumType DEF CashShown
    <3>. QED
      BY <1>9, <3>1, <3>2, <3>3
  <2>. QED
    BY <2>1 DEF CashHolds, Time
<1>. QED
  BY <1>6, <1>7, <1>8, <1>10 DEF Alone

LEMMA WriteOpenAlone == ASSUME Inv, Alone, ~RaceReset, WriteOpen PROVE Alone'
<1>0. Base /\ TypeOK /\ TypeOK'
  BY WriteOpenKeeps DEF Inv, Base
<1>1. PICK x \in Ids(plan.opens) :
        /\ \A q \in Ids(plan.opens) : x = q \/ Earlier(x, q)
        /\ row' = [row EXCEPT ![x] = IF @.status = "NONE" THEN plan.opens[x] ELSE @]
        /\ plan' = [plan EXCEPT !.opens = [@ EXCEPT ![x] = NoRow]]
  BY DEF WriteOpen
<1>2. /\ parent' = parent /\ pc = "write" /\ pc' = "write" /\ Ids(plan.closes) = {}
      /\ wiping' = wiping /\ resetAt' = resetAt
  BY DEF WriteOpen, world, admin
<1>3. /\ Before(plan, x) = row /\ row[x].status = "NONE" /\ row'[x] = plan.opens[x]
      /\ row' \in Copies
      /\ \A q \in Parent : q # x => row'[q] = row[q] /\ plan'.opens[q] = plan.opens[q]
      /\ Ids(plan.opens)' = Ids(plan.opens) \ {x}
      /\ \A p \in Ids(plan.opens)' : Before(plan, p)' = Before(plan, p)
  BY <1>0, <1>1, <1>2, OpenBefore
<1> DEFINE r == plan.opens[x]
           u == plan.opens[x].opened
<1>4. /\ x \in Parent /\ row \in Copies /\ r \in Row /\ r.status # "NONE" /\ u \in Time
      /\ r.status = "CLOSED" => r.closed >= u
      /\ u >= resetAt /\ Spend(x, r) <= CashLeft(row, u)
  BY <1>0, <1>3 DEF Base, TypeOK, Copied, Copies, Ids, Row, Alone, Resets, Affords
<1>5. Affords'
  <2>1. \A p \in Ids(plan.opens)' : p \in Ids(plan.opens) /\ plan'.opens[p] = plan.opens[p]
    BY <1>3 DEF Ids
  <2>2. \A p \in Ids(plan.opens)' :
          /\ Spend(p, plan.opens[p])' = Spend(p, plan.opens[p])
          /\ CashLeft(Before(plan, p), plan.opens[p].opened)'
               = CashLeft(Before(plan, p), plan.opens[p].opened)
    BY <1>3, <2>1 DEF CashLeft, Spend, Least, Profit
  <2>3. Affords
    BY DEF Alone
  <2>. QED
    BY <2>1, <2>2, <2>3 DEF Affords
<1>6. ResetHolds'
  BY <1>2, <1>3, <1>4 DEF Alone, ResetHolds
<1>7. Resets'
  <2>1. \A p \in Ids(plan.opens)' : p \in Ids(plan.opens) /\ plan'.opens[p] = plan.opens[p]
    BY <1>3 DEF Ids
  <2>. QED
    BY <1>2, <2>1 DEF Alone, Resets
<1>8. ASSUME NEW t \in Time PROVE CashShown(row', t) \in Int /\ CashShown(row', t) >= 0
  <2> DEFINE f == [q \in Parent |-> Shown(q, row[q], t)]
             g == [q \in Parent |-> Shown(q, row'[q], t)]
             low == [q \in Parent |-> Least(q, row[q], u)]
             less == [q \in Parent |-> IF q = x THEN 0 - Spend(x, r) ELSE low[q]]
  <2>1. \A q \in Parent : row[q] \in Row /\ row'[q] \in Row
    BY <1>3, <1>4 DEF Copies
  <2>2. /\ \A q \in Parent : f[q] \in Int /\ g[q] \in Int /\ low[q] \in Int /\ less[q] \in Int
        /\ Spend(x, r) \in Nat
    BY <1>4, <2>1, ShownTypes, MoneyTypes
  <2>3. \A q \in Parent : q # x => f[q] = g[q]
    BY <1>3
  <2>4. IsFiniteSet(Parent) /\ Capital \in Int
    BY MirrorAssumption
  <2>5. /\ CashShown(row', t) = Capital + SumFunctionOnSet(g, Parent)
        /\ CashShown(row, t) = Capital + SumFunctionOnSet(f, Parent)
        /\ CashLeft(row, u) = Capital + SumFunctionOnSet(low, Parent)
    BY DEF CashShown, CashLeft
  <2>6. g[x] = Shown(x, r, t) /\ f[x] = 0 /\ low[x] = 0 /\ less[x] = 0 - Spend(x, r)
    BY <1>3, <1>4 DEF Shown, Least
  <2>7. \A q \in Parent \ {x} : less[q] = low[q]
    OBVIOUS
  <2>8. ASSUME u <= t, NEW q \in Parent, q # x PROVE low[q] <= f[q]
    <3>1. /\ row[q] \in Row /\ row[q].closed \in Int /\ u \in Int /\ t \in Int
          /\ Spend(q, row[q]) \in Nat /\ Profit(row[q]) \in Int /\ Spend(q, row[q]) + Profit(row[q]) >= 0
      BY <1>4, <2>1, MoneyTypes DEF Row, Time
    <3>2. low[q] = Least(q, row[q], u) /\ f[q] = Shown(q, row[q], t)
      OBVIOUS
    <3>. HIDE DEF low, f, u
    <3>. QED
      BY <2>8, <3>1, <3>2 DEF Least, Shown
  <2>9. /\ SumFunctionOnSet(g, Parent) \in Int /\ SumFunctionOnSet(f, Parent) \in Int
        /\ SumFunctionOnSet(low, Parent) \in Int /\ SumFunctionOnSet(less, Parent) \in Int
    <3>. HIDE DEF f, g, low, less
    <3>. QED
      BY <2>2, <2>4, SumType
  <2>10. CASE u <= t
    <3>1. less[x] <= g[x]
      <4>1. Shown(x, r, t) >= 0 - Spend(x, r)
        <5>1. Profit(r) \in Int /\ Spend(x, r) \in Nat /\ Spend(x, r) + Profit(r) >= 0
          BY <1>4, MoneyTypes
        <5>. QED
          BY <5>1 DEF Shown
      <4>. HIDE DEF less, g
      <4>. QED
        BY <2>6, <4>1
    <3>2. \A q \in Parent : less[q] <= g[q]
      <4>. HIDE DEF f, g, low, less
      <4>. QED
        BY <2>3, <2>7, <2>8, <2>10, <3>1
    <3>. HIDE DEF f, g, low, less
    <3>3. SumFunctionOnSet(less, Parent) <= SumFunctionOnSet(g, Parent)
      BY <2>2, <2>4, <3>2, SumLeq
    <3>4. SumFunctionOnSet(less, Parent) = SumFunctionOnSet(low, Parent) - low[x] + less[x]
      BY <1>4, <2>2, <2>4, <2>7, SumChange
    <3>. HIDE DEF r, u
    <3>. QED
      BY <1>4, <2>2, <2>4, <2>5, <2>6, <2>9, <3>3, <3>4
  <2>11. CASE ~(u <= t)
    <3>1. g[x] = 0
      <4>1. r.closed \in Int /\ u \in Int /\ t \in Int
        BY <1>4 DEF Row, Time
      <4>2. Shown(x, r, t) = 0
        BY <1>4, <2>11, <4>1 DEF Shown
      <4>. QED
        BY <2>6, <4>2
    <3>2. \A q \in Parent : f[q] = g[q]
      <4>. HIDE DEF f, g
      <4>. QED
        BY <2>3, <2>6, <3>1
    <3>. HIDE DEF f, g
    <3>3. SumFunctionOnSet(f, Parent) = SumFunctionOnSet(g, Parent)
      BY <2>2, <2>4, <3>2, SumEqual
    <3>4. CashShown(row, t) >= 0
      BY <1>0, CashIsShown DEF Alone, CashHolds
    <3>. QED
      BY <2>4, <2>5, <2>9, <3>3, <3>4
  <2>. QED
    BY <2>10, <2>11
<1>9. CashHolds'
  BY <1>0, <1>8, CashWillBeShown DEF CashHolds, Time
<1>. QED
  BY <1>5, <1>6, <1>7, <1>9 DEF Alone

LEMMA DropAlone ==
  ASSUME Inv, Alone, ~RaceReset, WriteSkips \/ Crash PROVE Alone'
<1>1. /\ row' = row /\ parent' = parent /\ plan' = NoPlan /\ pc' = "idle" /\ resetAt' = resetAt
      /\ wiping' = NoWipe \/ (wiping' = wiping /\ wiping.step = "none")
  BY DEF WriteSkips, Crash, world, books, admin, Alone, Resets
<1>2. Affords' /\ Ids(plan.opens)' = {} /\ CashHolds'
  BY <1>1, PlanDropped DEF Alone
<1>3. ResetHolds'
  BY <1>1 DEF Alone, ResetHolds
<1>4. Resets'
  BY <1>1, <1>2 DEF Alone, Resets, NoWipe
<1>. QED
  BY <1>2, <1>3, <1>4 DEF Alone

LEMMA ResetAlone ==
  ASSUME Inv, Alone, ~RaceReset, ResetRead \/ ResetDelete \/ ResetRecord \/ ResetFails
  PROVE  Alone'
<1>0. Base /\ TypeOK
  BY DEF Inv, Base
<1>1. pc = "idle" /\ pc' = "idle" /\ plan' = plan /\ plan = NoPlan /\ Kept /\ Ids(plan.opens) = {}
  <2>1. pc = "idle"
    BY DEF ResetRead, ResetDelete, ResetRecord, ResetFails, Alone, Resets
  <2>2. plan = NoPlan
    BY <1>0, <2>1 DEF Base, Planned
  <2>. QED
    BY <2>1, <2>2, NoCopiesThere
       DEF ResetRead, ResetDelete, ResetRecord, ResetFails, pass, world, Kept, NoPlan
<1>2. CASE ResetRead
  <2>1. /\ row' = row /\ resetAt' = resetAt /\ floor' = floor /\ open' = open
        /\ wiping.step = "none" /\ wiping'.step = "delete" /\ wiping'.rows = OpenRows \cup ClosedRows
    BY <1>2 DEF ResetRead, books, pass
  <2>2. Affords' /\ CashHolds' /\ ResetHolds'
    BY <1>1, <2>1, NothingWritten
  <2>3. OpenRows \cup ClosedRows = Ids(row)
    BY <1>0 DEF OpenRows, ClosedRows, Ids, TypeOK, Copies, Row
  <2>4. Resets'
    BY <1>1, <2>1, <2>3 DEF Alone, Resets, Ids
  <2>. QED
    BY <2>2, <2>4 DEF Alone
<1>3. CASE ResetDelete
  <2>1. /\ wiping.step = "delete" /\ wiping'.step = "record" /\ resetAt' = resetAt
        /\ wiping.rows = Ids(row)
        /\ row' = [p \in Parent |-> IF p \in wiping.rows THEN NoRow ELSE row[p]]
    BY <1>0, <1>3 DEF ResetDelete, TypeOK, Alone, Resets
  <2>2. \A p \in Parent : row'[p].status = "NONE"
    BY <2>1 DEF Ids, NoRow
  <2>3. Resets'
    BY <1>1, <2>1, <2>2 DEF Resets, Ids
  <2>4. Affords'
    BY <1>1 DEF Affords, Ids
  <2>5. ResetHolds'
    BY <2>2 DEF ResetHolds
  <2>6. CashHolds'
    <3>1. TypeOK'
      BY <1>3, ResetDeleteKeeps DEF Inv, Base
    <3>2. ASSUME NEW t \in Time PROVE CashShown(row', t) = Capital
      <4> DEFINE g == [q \in Parent |-> Shown(q, row'[q], t)]
      <4>1. \A q \in Parent : g[q] = 0
        BY <2>2 DEF Shown
      <4>2. IsFiniteSet(Parent) /\ Capital \in Int
        BY MirrorAssumption
      <4>3. CashShown(row', t) = Capital + SumFunctionOnSet(g, Parent)
        BY DEF CashShown
      <4>. HIDE DEF g
      <4>4. SumFunctionOnSet(g, Parent) = 0
        <5>1. {} \in SUBSET Parent
          OBVIOUS
        <5>. QED
          BY <4>1, <4>2, <5>1, SumPart, SumEmpty
      <4>. QED
        BY <4>2, <4>3, <4>4
    <3>. QED
      BY <3>1, <3>2, CashWillBeShown, MirrorAssumption DEF CashHolds, Time
  <2>. QED
    BY <2>3, <2>4, <2>5, <2>6 DEF Alone
<1>4. CASE ResetRecord
  <2>1. /\ row' = row /\ wiping' = NoWipe /\ Ids(row) = {} /\ parent' = parent
    BY <1>4 DEF ResetRecord, world, Alone, Resets
  <2>2. Affords' /\ CashHolds'
    BY <1>1, <2>1, BooksStay DEF Alone
  <2>3. ResetHolds'
    BY <2>1 DEF ResetHolds, Ids
  <2>4. Resets'
    BY <1>1, <2>1 DEF Alone, Resets, NoWipe, Ids
  <2>. QED
    BY <2>2, <2>3, <2>4 DEF Alone
<1>5. CASE ResetFails
  <2>1. /\ row' = row /\ resetAt' = resetAt /\ floor' = floor /\ open' = open /\ wiping' = NoWipe
    BY <1>5 DEF ResetFails, books, pass
  <2>2. Affords' /\ CashHolds' /\ ResetHolds'
    BY <1>1, <2>1, NothingWritten
  <2>3. Resets'
    BY <1>1, <2>1 DEF Alone, Resets, NoWipe, Ids
  <2>. QED
    BY <2>2, <2>3 DEF Alone
<1>. QED
  BY <1>2, <1>3, <1>4, <1>5

LEMMA QuietAlone ==
  ASSUME Inv, Alone, ~RaceReset,
         Tick \/ UNCHANGED vars \/ \E p \in Parent : TournamentOpens(p) \/ TournamentCloses(p)
  PROVE  Alone'
<1>1. /\ row' = row /\ plan' = plan /\ resetAt' = resetAt /\ floor' = floor
      /\ open' = open /\ pc' = pc /\ wiping' = wiping
  BY DEF Tick, TournamentOpens, TournamentCloses, vars, world, books, pass, admin
<1>2. Kept
  <2>1. CASE parent' = parent
    BY <2>1 DEF Kept
  <2>2. ASSUME NEW p \in Parent, TournamentOpens(p) \/ TournamentCloses(p) PROVE Kept
    <3>1. parent \in [Parent -> ParentRow]
      BY DEF Inv, Base, TypeOK
    <3>2. CASE TournamentOpens(p)
      BY <3>1, <3>2 DEF TournamentOpens, Kept
    <3>3. CASE TournamentCloses(p)
      <4>1. PICK t \in Time, g \in Gain :
              parent' = [parent EXCEPT ![p].status = "CLOSED", ![p].closed = t, ![p].gain = g]
        BY <3>3 DEF TournamentCloses
      <4>2. /\ parent'[p] = [parent[p] EXCEPT !.status = "CLOSED", !.closed = t, !.gain = g]
            /\ \A q \in Parent : q # p => parent'[q] = parent[q]
        BY <3>1, <4>1
      <4>3. parent'[p].status = "CLOSED" /\ parent'[p].opened = parent[p].opened
        BY <3>1, <4>2 DEF ParentRow
      <4>. QED
        BY <4>2, <4>3 DEF Kept
    <3>. QED
      BY <2>2, <3>2, <3>3
  <2>. QED
    BY <2>1, <2>2 DEF Tick, vars, world
<1>. QED
  BY <1>1, <1>2, NothingWritten

LEMMA InitAlone == ASSUME Init, ~RaceReset PROVE Alone
<1>1. /\ row = NoCopies /\ plan = NoPlan /\ pc = "idle" /\ wiping = NoWipe /\ wiped = 0 /\ resetAt = 0
      /\ Ids(plan.opens) = {} /\ \A p \in Parent : row[p].status = "NONE"
  BY NoCopiesThere DEF Init, NoPlan, NoRow
<1>2. Resets /\ Affords /\ ResetHolds
  BY <1>1 DEF Resets, Affords, ResetHolds, NoWipe
<1>3. CashHolds
  <2>1. OpenRows = {} /\ ClosedRows = {}
    BY <1>1 DEF OpenRows, ClosedRows
  <2>2. ASSUME NEW t \in Time PROVE CashOnClock(t) = Capital
    <3>1. {q \in ClosedRows : row[q].closed <= t} = {} /\ HeldOnClock(t) = {}
      BY <2>1 DEF HeldOnClock
    <3>2. /\ SumFunction([p \in {q \in ClosedRows : row[q].closed <= t} |-> Profit(row[p])]) = 0
          /\ SumFunction([p \in HeldOnClock(t) |-> Spend(p, row[p])]) = 0
      BY <3>1, SumEmpty DEF SumFunction
    <3>. QED
      BY <3>2, MirrorAssumption DEF CashOnClock
  <2>. QED
    BY <2>2, MirrorAssumption DEF CashHolds
<1>. QED
  BY <1>2, <1>3 DEF Alone

LEMMA NextAlone == ASSUME Inv, Alone, ~RaceReset, [Next]_vars PROVE Alone'
<1>1. CASE PassStep
  BY <1>1, BeginAlone, ReadAndPlanAlone, WriteCloseAlone, WriteOpenAlone, DropAlone DEF PassStep
<1>2. CASE ResetRead \/ ResetDelete \/ ResetRecord \/ ResetFails
  BY <1>2, ResetAlone
<1>3. CASE (\E p \in Parent : TournamentOpens(p) \/ TournamentCloses(p)) \/ Tick \/ UNCHANGED vars
  BY <1>3, QuietAlone
<1>4. CASE Crash
  BY <1>4, DropAlone
<1>. QED
  BY <1>1, <1>2, <1>3, <1>4 DEF Next

\* The rest of the inductive invariant, when no pass runs beside a reset.
LEMMA AloneInv == ASSUME ~RaceReset PROVE Spec => []Alone
<1>1. Init => Alone
  BY InitAlone
<1>2. Inv /\ Alone /\ [Next]_vars => Alone'
  BY NextAlone
<1>. QED
  BY <1>1, <1>2, BookInv, PTL DEF Spec

\* A book never spends money it does not have, at any time of the trades' own clock, for any
\* prices, gains and losses: what an entry pays was free when it was taken, and nothing that
\* is written later, before its time or after it, takes it back.
THEOREM CashNeverNegative == ASSUME ~RaceReset PROVE Spec => []CashHolds
<1>1. Alone => CashHolds
  BY DEF Alone
<1>. QED
  BY <1>1, AloneInv, PTL

\* For any trades, resets, failed resets, stops and restarts: when no pass runs beside a reset,
\* the book has no copy of a trade the tournament opened before the last recorded reset.
THEOREM RecordedResetHolds == ASSUME ~RaceReset PROVE Spec => []ResetHolds
<1>1. Alone => ResetHolds
  BY DEF Alone
<1>. QED
  BY <1>1, AloneInv, PTL
=============================================================================
