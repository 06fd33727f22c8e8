---------------------------- MODULE FnoRollProofs ----------------------------
(***************************************************************************)
(* Theorems about FnoRoll, for any strikes, lots, requests and failures.   *)
(***************************************************************************)
EXTENDS FnoRoll, FoldProofs

-----------------------------------------------------------------------------
(* Types.                                                                  *)

Job == [at : Labels, strike : Strikes \cup {None}, todo : SUBSET Rows, closed : Nat,
        failed : BOOLEAN, wing : Wings, selling : BOOLEAN, c : Contracts \cup {None},
        order : Int, seen : 0..MaxRows, had : Int]

Filling(j) == j.at \in {"find", "write"}
Pending(j) == IF Filling(j) /\ ~j.selling THEN 1 ELSE 0

\* What a request in hand looks like, whatever the others do: each position is closed once, a
\* fill has an order, and only a write has read a position.
Fits(r, j) ==
  /\ j.at = "idle" => j = Idle
  /\ j.closed + Cardinality(j.todo) + Pending(j) <= MaxRows
  /\ Filling(j) => j.c \in Contracts /\ j.order # 0
  /\ j.at = "close" => ~j.selling
  /\ j.at \in {"close", "price"} \/ (Filling(j) /\ ~j.selling) => j.wing = "CE"
  /\ j.at # "write" => j.seen = 0 /\ j.had = 0
  /\ j.at # "idle" /\ r # "exit" => j.strike \in Strikes
  /\ r = "exit" => ~j.selling /\ j.at \in {"idle", "close", "find", "write"}

Row == [c : Contracts \cup {None}, lots : Int]

Basis ==
  /\ account \in Accounts /\ time \in 0..LastTime
  /\ rows \in [Rows -> Row] /\ \A i \in Rows : rows[i].c = None <=> rows[i].lots = 0
  /\ done \in 0..Today
  /\ job \in [Runners -> Job] /\ \A r \in Runners : Fits(r, job[r])
  /\ faults \in 0..MaxFaults /\ requests \in 0..MaxRequests /\ missed \in 0..faults
  /\ broken \in BOOLEAN

LEMMA RowSets ==
  ASSUME NEW S \in SUBSET Rows
  PROVE  IsFiniteSet(S) /\ Cardinality(S) \in 0..MaxRows
<1>1. IsFiniteSet(Rows) /\ Cardinality(Rows) = MaxRows
  <2>1. MaxRows \in Nat
    BY RollAssumption
  <2>2. IsFiniteSet(1..MaxRows) /\ Cardinality(1..MaxRows) = IF 1 > MaxRows THEN 0 ELSE MaxRows - 1 + 1
    BY <2>1, FS_Interval
  <2>. QED
    BY <2>1, <2>2 DEF Rows
<1>2. IsFiniteSet(S) /\ Cardinality(S) <= Cardinality(Rows)
  BY <1>1, FS_Subset
<1>3. Cardinality(S) \in Nat
  BY <1>2, FS_CardinalityType
<1>. QED
  BY <1>1, <1>2, <1>3, RollAssumption

LEMMA IdleFits ==
  Idle \in Job /\ \A r \in Runners : Fits(r, Idle)
<1>1. MaxRows \in Nat /\ Cardinality({}) = 0
  BY RollAssumption, FS_EmptySet
<1>2. Idle \in Job
  BY <1>1 DEF Idle, Job, Labels, Wings
<1>. QED
  BY <1>1, <1>2 DEF Idle, Fits, Filling, Pending

LEMMA Days ==
  ASSUME NEW t \in Nat
  PROVE  /\ t \div 3 \in Nat /\ (t + 1) \div 3 \in {t \div 3, (t \div 3) + 1}
         /\ t % 3 # 2 => (t + 1) \div 3 = t \div 3
  BY SMT

\* A request's step, as far as the jobs go.
LEMMA JobStep ==
  ASSUME Basis, NEW r \in Runners, NEW j \in Job, Fits(r, j), job' = [job EXCEPT ![r] = j]
  PROVE  job' \in [Runners -> Job] /\ \A q \in Runners : Fits(q, job'[q])
  BY DEF Basis

LEMMA BasisInit == Init => Basis
<1> SUFFICES ASSUME Init PROVE Basis
  OBVIOUS
<1>1. job \in [Runners -> Job] /\ \A r \in Runners : Fits(r, job[r])
  BY IdleFits DEF Init
<1>2. rows \in [Rows -> Row] /\ \A i \in Rows : rows[i].c = None /\ rows[i].lots = 0
  BY DEF Init, Free, Row
<1>3. time = 0 /\ Today = 1 /\ time \in 0..LastTime /\ done \in 0..Today
  BY RollAssumption DEF Init, Today, Day
<1>. QED
  <2>1. MaxFaults \in Nat /\ MaxRequests \in Nat
    BY RollAssumption
  <2>2. /\ account \in Accounts /\ faults \in 0..MaxFaults /\ requests \in 0..MaxRequests
        /\ missed \in 0..faults
    BY <2>1 DEF Init
  <2>3. broken \in BOOLEAN
    BY DEF Init
  <2>. QED
    BY <1>1, <1>2, <1>3, <2>2, <2>3 DEF Basis

\* Where a leg leads, and what a fill that raised leaves.
LEMMA ReadFits ==
  ASSUME NEW j \in Job
  PROVE  /\ Read(j) \in Job /\ Read(j).at = j.at /\ Read(j).strike = j.strike /\ Read(j).todo = j.todo
         /\ Read(j).closed = j.closed /\ Read(j).wing = j.wing /\ Read(j).selling = j.selling
         /\ Read(j).failed = j.failed /\ Read(j).seen = 0 /\ Read(j).had = 0
<1> DEFINE p == [j EXCEPT !.c = None]
           q == [p EXCEPT !.order = 0]
           s == [q EXCEPT !.seen = 0]
<1>0. 0 \in Int
  OBVIOUS
<1>1. p \in Job /\ p = [j EXCEPT !.c = None]
  BY DEF Job
<1> HIDE DEF p
<1>2. q \in Job /\ q = [p EXCEPT !.order = 0]
  BY <1>0, <1>1 DEF Job
<1> HIDE DEF q
<1>3. 0 \in 0..MaxRows
  BY RollAssumption
<1>4. s \in Job /\ s = [q EXCEPT !.seen = 0]
  BY <1>2, <1>3 DEF Job
<1> HIDE DEF s
<1>5. [s EXCEPT !.had = 0] \in Job
  BY <1>0, <1>4 DEF Job
<1>6. Read(j) = [s EXCEPT !.had = 0]
  BY <1>1, <1>2, <1>4 DEF Read, Job
<1>. QED
  BY <1>1, <1>2, <1>4, <1>5, <1>6 DEF Job

LEMMA NextLegFits ==
  ASSUME NEW r \in Runners, NEW j \in Job, Fits(r, j), r # "exit", j.at # "idle", j.at # "close",
         j.at \in {"leg"} \/ (Filling(j) /\ j.selling)
  PROVE  /\ NextLeg(j) \in Job /\ Fits(r, NextLeg(j))
         /\ NextLeg(j).at = (IF j.wing = "CE" THEN "leg" ELSE "record")
         /\ NextLeg(j).strike = j.strike /\ (j.wing = "CE" => NextLeg(j).wing = "PE")
<1>1. /\ Read(j) \in Job /\ Read(j).at = j.at /\ Read(j).strike = j.strike /\ Read(j).todo = j.todo
      /\ Read(j).closed = j.closed /\ Read(j).wing = j.wing /\ Read(j).seen = 0 /\ Read(j).had = 0
  BY ReadFits
<1>2. 0 = Pending(j) /\ Cardinality(j.todo) \in Nat /\ j.closed \in Nat /\ MaxRows \in Nat
  BY RowSets, RollAssumption DEF Pending, Filling, Job
<1>3. j.closed + Cardinality(j.todo) <= MaxRows
  BY <1>2 DEF Fits
<1>4. CASE j.wing = "CE"
  <2>1. NextLeg(j) = [Read(j) EXCEPT !.at = "leg", !.wing = "PE"]
    BY <1>4 DEF NextLeg
  <2>2. /\ NextLeg(j) \in Job /\ NextLeg(j).at = "leg" /\ NextLeg(j).strike = j.strike
        /\ NextLeg(j).todo = j.todo /\ NextLeg(j).closed = j.closed /\ NextLeg(j).wing = "PE"
        /\ NextLeg(j).seen = 0 /\ NextLeg(j).had = 0
    BY <1>1, <2>1 DEF Job, Labels, Wings
  <2>. QED
    BY <1>2, <1>3, <1>4, <2>2 DEF Fits, Filling, Pending
<1>5. CASE j.wing # "CE"
  <2>1. NextLeg(j) = [Read(j) EXCEPT !.at = "record"]
    BY <1>5 DEF NextLeg
  <2>2. /\ NextLeg(j) \in Job /\ NextLeg(j).at = "record" /\ NextLeg(j).strike = j.strike
        /\ NextLeg(j).todo = j.todo /\ NextLeg(j).closed = j.closed
        /\ NextLeg(j).seen = 0 /\ NextLeg(j).had = 0
    BY <1>1, <2>1 DEF Job, Labels
  <2>. QED
    BY <1>2, <1>3, <1>5, <2>2 DEF Fits, Filling, Pending
<1>. QED
  BY <1>4, <1>5

\* The steps of a request that are not writes.
LEMMA CloseBasis ==
  ASSUME Basis, NEW r \in Runners, NEW i \in Rows, CloseNext(r, i)
  PROVE  Basis'
<1> DEFINE j    == job[r]
           rest == [j EXCEPT !.todo = @ \ {i}]
           sell == [rest EXCEPT !.at = "find"]
           pick == [sell EXCEPT !.c = rows[i].c]
           fill == [pick EXCEPT !.order = -rows[i].lots]
           fail == [rest EXCEPT !.failed = TRUE]
<1>1. j \in Job /\ Fits(r, j) /\ j.at = "close" /\ i \in j.todo
  BY DEF Basis, CloseNext
<1>2. j.closed \in Nat /\ Cardinality(j.todo) \in Nat /\ MaxRows \in Nat
      /\ Cardinality(j.todo \ {i}) = Cardinality(j.todo) - 1
  <2>1. j.todo \in SUBSET Rows /\ j.closed \in Nat
    BY <1>1 DEF Job
  <2>. QED
    BY <1>1, <2>1, RowSets, FS_RemoveElement, RollAssumption
<1>3. j.closed + Cardinality(j.todo) <= MaxRows /\ j.seen = 0 /\ j.had = 0 /\ ~j.selling /\ j.wing = "CE"
      /\ (r # "exit" => j.strike \in Strikes)
  BY <1>1, <1>2 DEF Fits, Pending, Filling
<1> HIDE DEF j
<1>4. /\ rest \in Job /\ rest.at = "close" /\ rest.todo = j.todo \ {i} /\ rest.closed = j.closed
      /\ rest.seen = 0 /\ rest.had = 0 /\ ~rest.selling /\ rest.strike = j.strike /\ rest.wing = "CE"
  BY <1>1, <1>3 DEF Job
<1> HIDE DEF rest
<1>5. fail \in Job /\ Fits(r, fail)
  <2>1. /\ fail \in Job /\ fail.at = "close" /\ fail.todo = j.todo \ {i} /\ fail.closed = j.closed
        /\ fail.seen = 0 /\ fail.had = 0 /\ ~fail.selling /\ fail.strike = j.strike /\ fail.wing = "CE"
    BY <1>4 DEF Job
  <2> HIDE DEF fail
  <2>. QED
    BY <1>2, <1>3, <2>1 DEF Fits, Pending, Filling
<1>6. ASSUME i \in Open
      PROVE  fill \in Job /\ Fits(r, fill)
  <2>1. rows[i] \in Row /\ rows[i] # Free /\ (rows[i].c = None <=> rows[i].lots = 0)
    BY <1>6 DEF Basis, Open
  <2>2. rows[i].c \in Contracts /\ rows[i].lots \in Int /\ rows[i].lots # 0
    BY <2>1 DEF Row, Free
  <2>3. -rows[i].lots \in Int /\ -rows[i].lots # 0
    BY <2>2
  <2>4. sell \in Job /\ sell = [rest EXCEPT !.at = "find"]
    BY <1>4 DEF Job, Labels
  <2> HIDE DEF sell
  <2>5. pick \in Job /\ pick = [sell EXCEPT !.c = rows[i].c]
    BY <2>2, <2>4 DEF Job
  <2> HIDE DEF pick
  <2>6. fill \in Job
    BY <2>3, <2>5 DEF Job
  <2>7. /\ fill.at = "find" /\ fill.todo = j.todo \ {i} /\ fill.closed = j.closed
        /\ fill.seen = 0 /\ fill.had = 0 /\ ~fill.selling /\ fill.strike = j.strike /\ fill.wing = "CE"
        /\ fill.c = rows[i].c /\ fill.order = -rows[i].lots
    BY <1>4, <2>4, <2>5 DEF Job
  <2> HIDE DEF fill
  <2>. QED
    BY <1>2, <1>3, <2>2, <2>3, <2>6, <2>7 DEF Fits, Pending, Filling
<1>7. /\ job' = [job EXCEPT ![r] = fail] \/ (i \in Open /\ job' = [job EXCEPT ![r] = fill])
      /\ (UNCHANGED <<faults, missed>> \/ (Fault /\ missed' = missed + 1))
      /\ UNCHANGED <<account, time, rows, done, requests, broken>>
  <2>1. fill = [rest EXCEPT !.at = "find", !.c = rows[i].c, !.order = -rows[i].lots]
    BY <1>4 DEF Job
  <2>. QED
    BY <2>1 DEF CloseNext, rest, j
<1>8. job' \in [Runners -> Job] /\ \A q \in Runners : Fits(q, job'[q])
  BY <1>5, <1>6, <1>7, JobStep
<1>9. faults' \in 0..MaxFaults /\ missed' \in 0..faults'
  <2>1. faults \in 0..MaxFaults /\ missed \in 0..faults /\ MaxFaults \in Nat
    BY RollAssumption DEF Basis
  <2>. QED
    BY <1>7, <2>1 DEF Fault
<1>. QED
  BY <1>7, <1>8, <1>9 DEF Basis, Today, Day

\* A step that leaves the positions and the clock alone.
LEMMA KeepsBasis ==
  ASSUME Basis, job' \in [Runners -> Job], \A q \in Runners : Fits(q, job'[q]),
         UNCHANGED <<account, time, rows, missed>>, done' \in {done, Today},
         requests' \in 0..MaxRequests, UNCHANGED faults \/ Fault, broken' \in BOOLEAN
  PROVE  Basis'
<1>1. Today' = Today /\ done' \in 0..Today'
  <2>1. time \in Nat
    BY RollAssumption DEF Basis
  <2>2. Today \in Nat
    BY <2>1, Days DEF Today, Day
  <2>. QED
    BY <2>2 DEF Today, Day, Basis
<1>2. faults' \in 0..MaxFaults /\ missed' \in 0..faults'
  BY RollAssumption DEF Fault, Basis
<1>. QED
  BY <1>1, <1>2 DEF Basis

LEMMA BeginBasis ==
  ASSUME Basis,
         \/ \E r \in {"scheduler", "operator"}, k \in Strikes : BeginRoll(r, k)
         \/ \E i \in Rows : BeginExit(i)
  PROVE  Basis'
<1>0. Open \in SUBSET Rows /\ Open \subseteq Rows
  BY DEF Open
<1>1. CASE \E r \in {"scheduler", "operator"}, k \in Strikes : BeginRoll(r, k)
  <2>1. PICK r \in {"scheduler", "operator"}, k \in Strikes : BeginRoll(r, k)
    BY <1>1
  <2> DEFINE a == [Idle EXCEPT !.at = "close"]
             b == [a EXCEPT !.strike = k]
             j == [b EXCEPT !.todo = Open]
  <2>2. r \in Runners
    BY DEF Runners
  <2>3. a \in Job /\ a = [Idle EXCEPT !.at = "close"]
    BY IdleFits DEF Job, Labels
  <2> HIDE DEF a
  <2>4. b \in Job /\ b = [a EXCEPT !.strike = k]
    BY <2>3 DEF Job
  <2> HIDE DEF b
  <2>5. j \in Job
    BY <1>0, <2>4 DEF Job
  <2>6. /\ j.at = "close" /\ j.strike = k /\ j.todo = Open /\ j.closed = 0 /\ ~j.selling /\ j.wing = "CE"
        /\ j.seen = 0 /\ j.had = 0
    BY <2>3, <2>4, IdleFits DEF Job, Idle
  <2>7. j = [Idle EXCEPT !.at = "close", !.strike = k, !.todo = Open]
    BY <2>3, <2>4, IdleFits DEF Job
  <2> HIDE DEF j
  <2>8. Cardinality(Open) \in 0..MaxRows /\ MaxRows \in Nat
    BY <1>0, RowSets, RollAssumption
  <2>9. Fits(r, j)
    BY <2>1, <2>6, <2>8 DEF Fits, Pending, Filling
  <2>10. job' = [job EXCEPT ![r] = j] /\ UNCHANGED <<account, time, rows, done, faults, missed, broken>>
    BY <2>1, <2>7 DEF BeginRoll
  <2>11. requests' \in 0..MaxRequests
    <3>1. requests' = requests \/ (requests < MaxRequests /\ requests' = requests + 1)
      BY <2>1 DEF BeginRoll
    <3>. QED
      BY <3>1, RollAssumption DEF Basis
  <2>. QED
    BY <2>2, <2>5, <2>9, <2>10, <2>11, JobStep, KeepsBasis DEF Basis
<1>2. CASE \E i \in Rows : BeginExit(i)
  <2>1. PICK i \in Rows : BeginExit(i)
    BY <1>2
  <2> DEFINE a == [Idle EXCEPT !.at = "close"]
             j == [a EXCEPT !.todo = {i}]
  <2>2. "exit" \in Runners
    BY DEF Runners
  <2>3. a \in Job /\ a = [Idle EXCEPT !.at = "close"]
    BY IdleFits DEF Job, Labels
  <2> HIDE DEF a
  <2>4. j \in Job
    BY <2>3 DEF Job
  <2>5. /\ j.at = "close" /\ j.todo = {i} /\ j.closed = 0 /\ ~j.selling /\ j.wing = "CE"
        /\ j.seen = 0 /\ j.had = 0
    BY <2>3, IdleFits DEF Job, Idle
  <2>6. j = [Idle EXCEPT !.at = "close", !.todo = {i}]
    BY <2>3, IdleFits DEF Job
  <2> HIDE DEF j
  <2>7. Cardinality({i}) \in 0..MaxRows /\ MaxRows \in Nat
    BY RowSets, RollAssumption
  <2>8. Fits("exit", j)
    BY <2>5, <2>7 DEF Fits, Pending, Filling
  <2>9. job' = [job EXCEPT !["exit"] = j] /\ UNCHANGED <<account, time, rows, done, faults, missed, broken>>
    BY <2>1, <2>6 DEF BeginExit
  <2>10. requests' \in 0..MaxRequests
    <3>1. requests < MaxRequests /\ requests' = requests + 1
      BY <2>1 DEF BeginExit
    <3>. QED
      BY <3>1, RollAssumption DEF Basis
  <2>. QED
    BY <2>2, <2>4, <2>8, <2>9, <2>10, JobStep, KeepsBasis DEF Basis
<1>. QED
  BY <1>1, <1>2

LEMMA RollBasis ==
  ASSUME Basis, NEW r \in Runners, AllClosed(r) \/ PriceBasket(r) \/ SellLeg(r) \/ Record(r)
  PROVE  Basis'
<1> DEFINE j == job[r]
<1>1. j \in Job /\ Fits(r, j)
  BY DEF Basis
<1>2. j.closed \in Nat /\ Cardinality(j.todo) \in Nat /\ MaxRows \in Nat /\ Pending(j) \in {0, 1}
  BY <1>1, RowSets, RollAssumption DEF Job, Pending
<1>3. Idle \in Job /\ Fits(r, Idle)
  BY IdleFits
<1>4. requests \in 0..MaxRequests /\ broken \in BOOLEAN
  BY DEF Basis
<1>5. ASSUME NEW l \in {"price", "leg", "record"}, j.at \in {"close", "price"}, r # "exit"
      PROVE  [j EXCEPT !.at = l] \in Job /\ Fits(r, [j EXCEPT !.at = l])
  <2> DEFINE k == [j EXCEPT !.at = l]
  <2>1. k \in Job
    BY <1>1 DEF Job, Labels
  <2>2. /\ k.at = l /\ k.todo = j.todo /\ k.closed = j.closed /\ k.seen = j.seen /\ k.had = j.had
        /\ k.wing = j.wing /\ k.strike = j.strike /\ k.selling = j.selling
    BY <1>1 DEF Job
  <2> HIDE DEF k
  <2>3. j.wing = "CE" /\ j.seen = 0 /\ j.had = 0 /\ j.strike \in Strikes
        /\ j.closed + Cardinality(j.todo) + Pending(j) <= MaxRows
    BY <1>1, <1>5 DEF Fits
  <2>4. Pending(k) = 0 /\ ~Filling(k) /\ k.at \notin {"idle", "close", "write"}
    BY <2>2 DEF Pending, Filling
  <2>5. k.closed + Cardinality(k.todo) + Pending(k) <= MaxRows
    BY <1>2, <2>2, <2>3, <2>4
  <2>6. k.wing = "CE" /\ k.strike \in Strikes /\ k.seen = 0 /\ k.had = 0
    BY <2>2, <2>3
  <2>7. Fits(r, k)
    BY <1>5, <2>4, <2>5, <2>6 DEF Fits
  <2>. QED
    BY <2>1, <2>7 DEF k
<1>6. CASE AllClosed(r)
  <2>1. \/ job' = [job EXCEPT ![r] = Idle]
        \/ r # "exit" /\ \E l \in {"price", "leg", "record"} : job' = [job EXCEPT ![r] = [j EXCEPT !.at = l]]
    BY <1>6 DEF AllClosed, Reopening
  <2>2. j.at = "close" /\ broken' \in BOOLEAN
    BY <1>6 DEF AllClosed
  <2>3. job' \in [Runners -> Job] /\ \A q \in Runners : Fits(q, job'[q])
    BY <1>3, <1>5, <2>1, <2>2, JobStep
  <2>. QED
    BY <1>4, <1>6, <2>2, <2>3, KeepsBasis DEF AllClosed
<1>7. CASE PriceBasket(r)
  <2>1. j.at = "price" /\ r # "exit"
    BY <1>1, <1>7 DEF PriceBasket, Fits
  <2>2. job' \in {[job EXCEPT ![r] = Idle], [job EXCEPT ![r] = [j EXCEPT !.at = "leg"]]}
    <3>1. CASE job' = [job EXCEPT ![r].at = "leg"]
      BY <3>1
    <3>. QED
      BY <1>7, <3>1 DEF PriceBasket
  <2>3. job' \in [Runners -> Job] /\ \A q \in Runners : Fits(q, job'[q])
    BY <1>3, <1>5, <2>1, <2>2, JobStep
  <2>4. broken' \in BOOLEAN
    BY <1>4, <1>7 DEF PriceBasket
  <2>. QED
    BY <1>4, <1>7, <2>3, <2>4, KeepsBasis DEF PriceBasket
<1>8. CASE SellLeg(r)
  <2> DEFINE a == [j EXCEPT !.at = "find"]
             b == [a EXCEPT !.selling = TRUE]
             c == [b EXCEPT !.c = <<j.strike, j.wing>>]
             k == [c EXCEPT !.order = -Lots]
  <2>1. j.at = "leg" /\ r # "exit" /\ j.strike \in Strikes /\ j.wing \in Wings
    BY <1>1, <1>8 DEF SellLeg, Fits, Job
  <2>2. <<j.strike, j.wing>> \in Contracts /\ -Lots \in Int /\ -Lots # 0
    BY <2>1, RollAssumption DEF Contracts
  <2>3. a \in Job /\ a = [j EXCEPT !.at = "find"]
    BY <1>1 DEF Job, Labels
  <2> HIDE DEF a
  <2>4. b \in Job /\ b = [a EXCEPT !.selling = TRUE]
    BY <2>3 DEF Job
  <2> HIDE DEF b
  <2>5. c \in Job /\ c = [b EXCEPT !.c = <<j.strike, j.wing>>]
    BY <2>2, <2>4 DEF Job
  <2> HIDE DEF c
  <2>6. k \in Job
    BY <2>2, <2>5 DEF Job
  <2>7. /\ k.at = "find" /\ k.selling /\ k.c = <<j.strike, j.wing>> /\ k.order = -Lots /\ k.todo = j.todo
        /\ k.closed = j.closed /\ k.seen = j.seen /\ k.had = j.had /\ k.strike = j.strike
    BY <1>1, <2>3, <2>4, <2>5 DEF Job
  <2>8. k = [j EXCEPT !.at = "find", !.selling = TRUE, !.c = <<j.strike, j.wing>>, !.order = -Lots]
    BY <1>1, <2>3, <2>4, <2>5 DEF Job
  <2> HIDE DEF k
  <2>9. Fits(r, k)
    <3>1. j.seen = 0 /\ j.had = 0 /\ j.closed + Cardinality(j.todo) + Pending(j) <= MaxRows
      BY <1>1, <2>1 DEF Fits
    <3>2. Pending(k) = 0
      BY <2>7 DEF Pending
    <3>. QED
      BY <1>2, <2>1, <2>2, <2>7, <3>1, <3>2 DEF Fits, Filling
  <2>10. job' = [job EXCEPT ![r] = k] \/ job' = [job EXCEPT ![r] = NextLeg(j)]
    BY <1>8, <2>8 DEF SellLeg
  <2>11. job' \in [Runners -> Job] /\ \A q \in Runners : Fits(q, job'[q])
    BY <1>1, <2>1, <2>6, <2>9, <2>10, NextLegFits, JobStep
  <2>. QED
    BY <1>4, <1>8, <2>11, KeepsBasis DEF SellLeg
<1>9. CASE Record(r)
  <2>1. job' \in [Runners -> Job] /\ \A q \in Runners : Fits(q, job'[q])
    BY <1>3, <1>9, JobStep DEF Record
  <2>. QED
    BY <1>4, <1>9, <2>1, KeepsBasis DEF Record
<1>. QED
  BY <1>6, <1>7, <1>8, <1>9

LEMMA FindBasis ==
  ASSUME Basis, NEW r \in Runners, FindExisting(r)
  PROVE  Basis'
<1> DEFINE j     == job[r]
           found == {i \in Open : rows[i].c = j.c}
           k     == [j EXCEPT !.at = "write"]
           l(i)  == [k EXCEPT !.seen = i]
           m(i)  == [l(i) EXCEPT !.had = rows[i].lots]
<1>1. j \in Job /\ Fits(r, j) /\ j.at = "find"
  BY DEF Basis, FindExisting
<1>2. k \in Job /\ k = [j EXCEPT !.at = "write"]
  BY <1>1 DEF Job, Labels
<1>3. /\ k.at = "write" /\ k.todo = j.todo /\ k.closed = j.closed /\ k.selling = j.selling
      /\ k.wing = j.wing /\ k.strike = j.strike /\ k.c = j.c /\ k.order = j.order
  BY <1>1 DEF Job
<1> HIDE DEF k
<1>4. ASSUME NEW i \in found
      PROVE  /\ m(i) \in Job /\ m(i) = [j EXCEPT !.at = "write", !.seen = i, !.had = rows[i].lots]
             /\ m(i).at = "write" /\ m(i).todo = j.todo /\ m(i).closed = j.closed
             /\ m(i).selling = j.selling /\ m(i).wing = j.wing /\ m(i).strike = j.strike
             /\ m(i).c = j.c /\ m(i).order = j.order
  <2>1. i \in 0..MaxRows /\ rows[i].lots \in Int
    BY RollAssumption DEF Open, Rows, Basis, Row
  <2>2. l(i) \in Job /\ l(i) = [k EXCEPT !.seen = i]
    BY <1>2, <2>1 DEF Job
  <2> HIDE DEF l
  <2>3. m(i) \in Job
    BY <2>1, <2>2 DEF Job
  <2>4. m(i) = [j EXCEPT !.at = "write", !.seen = i, !.had = rows[i].lots]
    BY <1>1, <1>2, <2>2 DEF Job
  <2>. QED
    BY <1>1, <1>2, <1>3, <2>2, <2>3, <2>4 DEF Job
<1> HIDE DEF m
<1>5. ASSUME NEW n \in Job, n.at = "write", n.todo = j.todo, n.closed = j.closed, n.selling = j.selling,
             n.wing = j.wing, n.strike = j.strike, n.c = j.c, n.order = j.order
      PROVE  Fits(r, n)
  <2>1. Filling(n) /\ Filling(j) /\ Pending(n) = Pending(j)
    BY <1>1, <1>5 DEF Filling, Pending
  <2>. QED
    BY <1>1, <1>5, <2>1 DEF Fits
<1>6. job' = [job EXCEPT ![r] = k] \/ \E i \in found : job' = [job EXCEPT ![r] = m(i)]
  <2>1. \/ job' = [job EXCEPT ![r] = [j EXCEPT !.at = "write"]]
        \/ \E i \in found : job' = [job EXCEPT ![r] = [j EXCEPT !.at = "write", !.seen = i, !.had = rows[i].lots]]
    BY DEF FindExisting
  <2>2. ASSUME NEW i \in found, job' = [job EXCEPT ![r] = [j EXCEPT !.at = "write", !.seen = i, !.had = rows[i].lots]]
        PROVE  job' = [job EXCEPT ![r] = m(i)]
    BY <1>4, <2>2
  <2>. QED
    BY <1>2, <2>1, <2>2
<1>7. job' \in [Runners -> Job] /\ \A q \in Runners : Fits(q, job'[q])
  <2>1. Fits(r, k) /\ \A i \in found : Fits(r, m(i))
    BY <1>2, <1>3, <1>4, <1>5
  <2>. QED
    BY <1>2, <1>4, <1>6, <2>1, JobStep
<1>. QED
  BY <1>7, KeepsBasis DEF FindExisting, Basis

\* What a write makes of the positions.
LEMMA WrittenRows ==
  ASSUME Basis, NEW r \in Runners, NEW j \in Job, Fits(r, j), j.at = "write",
         j.seen = 0 => Unused # {}
  PROVE  /\ Written(j) \in [Rows -> Row]
         /\ \A i \in Rows : Written(j)[i].c = None <=> Written(j)[i].lots = 0
         /\ j.seen = 0 => /\ NewRow \in Rows \ Open
                          /\ Written(j)[NewRow] = [c |-> j.c, lots |-> j.order]
                          /\ [c |-> j.c, lots |-> j.order] # Free
                          /\ \A i \in Rows \ {NewRow} : Written(j)[i] = rows[i]
         /\ j.seen # 0 => \A i \in Rows \ {j.seen} : Written(j)[i] = rows[i]
         /\ j.seen \in Open => /\ j.had + j.order = 0 => Written(j)[j.seen] = Free
                               /\ Written(j)[j.seen].c \in {rows[j.seen].c, None}
<1>1. rows \in [Rows -> Row] /\ \A i \in Rows : rows[i].c = None <=> rows[i].lots = 0
  BY DEF Basis
<1>2. j.c \in Contracts /\ j.order \in Int /\ j.order # 0 /\ j.had \in Int /\ None \notin Contracts
  BY RollAssumption DEF Fits, Filling, Job
<1>3. 0 \notin Open
  BY DEF Open, Rows
<1>4. CASE j.seen = 0
  <2> DEFINE new == [c |-> j.c, lots |-> j.order]
  <2>1. NewRow \in Rows \ Open
    BY <1>4 DEF NewRow, Unused
  <2>2. Written(j) = [rows EXCEPT ![NewRow] = new]
    BY <1>4 DEF Written
  <2>3. new \in Row /\ new # Free /\ new.c # None /\ new.lots # 0
    BY <1>2 DEF Row, Free
  <2>. QED
    BY <1>1, <1>3, <1>4, <2>1, <2>2, <2>3
<1>5. CASE j.seen # 0 /\ j.seen \notin Open
  BY <1>1, <1>5 DEF Written
<1>6. CASE j.seen # 0 /\ j.seen \in Open
  <2> DEFINE sum == j.had + j.order
             new == IF sum = 0 THEN Free ELSE [rows[j.seen] EXCEPT !.lots = sum]
  <2>1. Written(j) = [rows EXCEPT ![j.seen] = new] /\ j.seen \in Rows
    BY <1>6 DEF Written, Open
  <2>2. rows[j.seen] \in Row /\ rows[j.seen].c # None /\ sum \in Int
    BY <1>1, <1>2, <1>6 DEF Open, Row, Free
  <2>3. new \in Row /\ (new.c = None <=> new.lots = 0) /\ new.c \in {rows[j.seen].c, None}
        /\ (sum = 0 => new = Free)
    BY <2>2 DEF Row, Free
  <2> HIDE DEF new
  <2>. QED
    BY <1>1, <1>6, <2>1, <2>3
<1>. QED
  BY <1>4, <1>5, <1>6

LEMMA WriteBasis ==
  ASSUME Basis, NEW r \in Runners, Write(r)
  PROVE  Basis'
<1> DEFINE j      == job[r]
           a      == [Read(j) EXCEPT !.at = "close"]
           closed  == [a EXCEPT !.closed = @ + 1]
           failed == [a EXCEPT !.failed = TRUE]
<1>1. j \in Job /\ Fits(r, j) /\ j.at = "write"
  BY DEF Basis, Write
<1>2. j.closed \in Nat /\ Cardinality(j.todo) \in Nat /\ MaxRows \in Nat
  BY <1>1, RowSets, RollAssumption DEF Job
<1>3. a \in Job /\ a = [Read(j) EXCEPT !.at = "close"]
  BY <1>1, ReadFits DEF Job, Labels
<1> HIDE DEF a
<1>4. ASSUME ~j.selling
      PROVE  closed \in Job /\ Fits(r, closed) /\ failed \in Job /\ Fits(r, failed)
  <2>1. j.closed + Cardinality(j.todo) + 1 <= MaxRows /\ j.wing = "CE" /\ (r # "exit" => j.strike \in Strikes)
    BY <1>1, <1>4 DEF Fits, Pending, Filling
  <2>2. j.closed + 1 \in Nat
    BY <1>2
  <2>3. /\ a.at = "close" /\ a.todo = j.todo /\ a.closed = j.closed /\ ~a.selling /\ a.wing = "CE"
        /\ a.strike = j.strike /\ a.seen = 0 /\ a.had = 0
    BY <1>1, <1>3, <1>4, <2>1, ReadFits DEF Job
  <2>4. /\ closed \in Job /\ closed.at = "close" /\ closed.todo = j.todo /\ closed.closed = j.closed + 1
        /\ ~closed.selling /\ closed.wing = "CE" /\ closed.strike = j.strike /\ closed.seen = 0 /\ closed.had = 0
    BY <1>3, <2>2, <2>3 DEF Job
  <2>5. /\ failed \in Job /\ failed.at = "close" /\ failed.todo = j.todo /\ failed.closed = j.closed
        /\ ~failed.selling /\ failed.wing = "CE" /\ failed.strike = j.strike /\ failed.seen = 0 /\ failed.had = 0
    BY <1>3, <2>3 DEF Job
  <2> HIDE DEF closed, failed
  <2>6. Fits(r, closed)
    BY <1>2, <2>1, <2>4 DEF Fits, Pending, Filling
  <2>7. Fits(r, failed)
    BY <1>2, <2>1, <2>5 DEF Fits, Pending, Filling
  <2>. QED
    BY <2>4, <2>5, <2>6, <2>7
<1>5. ASSUME j.selling
      PROVE  NextLeg(j) \in Job /\ Fits(r, NextLeg(j))
  <2>1. r # "exit" /\ Filling(j)
    BY <1>1, <1>5 DEF Fits, Filling
  <2>. QED
    BY <1>1, <1>5, <2>1, NextLegFits
<1>6. closed = [Read(j) EXCEPT !.at = "close", !.closed = @ + 1] /\ failed = [Read(j) EXCEPT !.at = "close", !.failed = TRUE]
  BY <1>1, <1>3, ReadFits DEF Job
<1>7. Idle \in Job /\ Fits(r, Idle)
  BY IdleFits
<1>8. \E k \in Job : Fits(r, k) /\ job' = [job EXCEPT ![r] = k]
  <2>1. \/ job' = [job EXCEPT ![r] = IF j.selling THEN NextLeg(j)
                                     ELSE [Read(j) EXCEPT !.at = "close", !.closed = @ + 1]]
        \/ job' = [job EXCEPT ![r] = Raised(j)]
    BY DEF Write
  <2>2. (~j.selling => Raised(j) = failed) /\ (j.selling => Raised(j) \in {Idle, NextLeg(j)})
    BY <1>6 DEF Raised
  <2>. QED
    BY <1>4, <1>5, <1>6, <1>7, <2>1, <2>2
<1>9. job' \in [Runners -> Job] /\ \A q \in Runners : Fits(q, job'[q])
  BY <1>8, JobStep
<1>10. rows' \in [Rows -> Row] /\ \A i \in Rows : rows'[i].c = None <=> rows'[i].lots = 0
  <2>1. UNCHANGED rows \/ (rows' = Written(j) /\ (j.seen = 0 => Unused # {}))
    BY DEF Write
  <2>2. CASE UNCHANGED rows
    BY <2>2 DEF Basis
  <2>3. CASE rows' = Written(j) /\ (j.seen = 0 => Unused # {})
    <3> HIDE DEF j
    <3>1. /\ Written(j) \in [Rows -> Row]
          /\ \A i \in Rows : Written(j)[i].c = None <=> Written(j)[i].lots = 0
      BY <1>1, <2>3, WrittenRows
    <3>. QED
      BY <2>3, <3>1
  <2>. QED
    BY <2>1, <2>2, <2>3
<1>11. (UNCHANGED faults \/ Fault) /\ broken' \in BOOLEAN
       /\ UNCHANGED <<account, time, done, requests, missed>>
  BY DEF Write, Basis
<1>12. faults' \in 0..MaxFaults /\ missed' \in 0..faults'
  BY <1>11, RollAssumption DEF Fault, Basis
<1>. QED
  BY <1>9, <1>10, <1>11, <1>12 DEF Basis, Today, Day

LEMMA BasisHolds == Spec => []Basis
<1>1. Basis /\ [Next]_vars => Basis'
  <2> SUFFICES ASSUME Basis, [Next]_vars PROVE Basis'
    OBVIOUS
  <2>1. CASE UNCHANGED vars
    BY <2>1 DEF vars, Basis, Today, Day
  <2>2. CASE Crash
    <3>1. job' \in [Runners -> Job] /\ \A q \in Runners : Fits(q, job'[q])
      BY <2>2, IdleFits DEF Crash
    <3>2. broken' \in BOOLEAN /\ Fault /\ UNCHANGED <<account, time, rows, done, requests, missed>>
      BY <2>2 DEF Crash, Basis
    <3>. QED
      BY <3>1, <3>2, KeepsBasis DEF Basis
  <2>3. CASE Tick
    <3>1. time \in Nat /\ time' \in 0..LastTime /\ time' = time + 1
      BY <2>3, RollAssumption DEF Tick, Basis
    <3>2. Today' \in {Today, Today + 1} /\ Today \in Nat
      BY <3>1, Days DEF Today, Day
    <3>3. done' \in 0..Today'
      BY <2>3, <3>2 DEF Tick, Basis
    <3>4. broken' \in BOOLEAN
      BY <2>3 DEF Tick, Basis
    <3>. QED
      BY <2>3, <3>1, <3>3, <3>4 DEF Tick, Basis
  <2>4. CASE \E r \in Runners : Step(r)
    BY <2>4, CloseBasis, RollBasis, FindBasis, WriteBasis DEF Step
  <2>. QED
    BY <2>1, <2>2, <2>3, <2>4, BeginBasis DEF Next
<1>. QED
  BY <1>1, BasisInit, PTL DEF Spec

\* Every reachable state of the rolls is typed, with or without requests beside one another.
THEOREM RollTypes == Spec => []TypeOK
<1>1. Basis => TypeOK
  <2> SUFFICES ASSUME Basis PROVE TypeOK
    OBVIOUS
  <2>1. \A r \in Runners : job[r].closed \in 0..MaxRows
    <3>1. ASSUME NEW r \in Runners
          PROVE  job[r].closed \in 0..MaxRows
      <4>1. job[r] \in Job /\ Fits(r, job[r])
        BY DEF Basis
      <4>2. job[r].closed \in Nat /\ Cardinality(job[r].todo) \in Nat /\ Pending(job[r]) \in Nat
            /\ job[r].closed + Cardinality(job[r].todo) + Pending(job[r]) <= MaxRows /\ MaxRows \in Nat
        BY <4>1, RowSets, RollAssumption DEF Job, Fits, Pending
      <4>. QED
        BY <4>2
    <3>. QED
      BY <3>1
  <2>2. \A r \in Runners :
          job[r] \in [at : Labels, strike : Strikes \cup {None}, todo : SUBSET Rows,
                      closed : 0..MaxRows, failed : BOOLEAN, wing : Wings,
                      selling : BOOLEAN, c : Contracts \cup {None}, order : Int,
                      seen : 0..MaxRows, had : Int]
    BY <2>1 DEF Basis, Job
  <2>3. missed \in 0..MaxFaults
    BY RollAssumption DEF Basis
  <2>. QED
    BY <2>2, <2>3 DEF Basis, TypeOK, Row
<1>. QED
  BY <1>1, BasisHolds, PTL
-----------------------------------------------------------------------------
(* One request at a time (~Overlap): what it has achieved at each label.   *)

Busy(r) == job[r].at # "idle"
Alone   == \A q, r \in Runners : Busy(q) /\ Busy(r) => q = r
Unique  == \A i, k \in Open : rows[i].c = rows[k].c => i = k

\* The account holds the wings W of the straddle at strike k, and nothing else.
Short(k, w) == [c |-> <<k, w>>, lots |-> -Lots]
Sold(k, W)  == /\ \A i \in Open : \E w \in W : rows[i] = Short(k, w)
               /\ \A w \in W : \E i \in Open : rows[i] = Short(k, w)
Earlier(w)  == IF w = "CE" THEN {} ELSE {"CE"}

\* A close fills exactly the position it was sent for, and as long as none failed, what a roll
\* has yet to close is all that is open.
ClosingStage(r) ==
  LET j == job[r]
      sure == ~j.failed /\ r # "exit"
  IN  /\ j.at = "close" /\ sure => Open \subseteq j.todo
      /\ Filling(j) /\ ~j.selling =>
           \E i \in Open : /\ rows[i].c = j.c /\ rows[i].lots = -j.order
                           /\ sure => Open \subseteq j.todo \cup {i}
                           /\ j.at = "write" => j.seen = i /\ j.had = rows[i].lots

\* A sale is of the roll's own strike and writes what stands there now.
SellingStage(r) ==
  LET j == job[r]
  IN  /\ Filling(j) /\ j.selling => j.c = <<j.strike, j.wing>> /\ j.order = -Lots
      /\ j.at = "write" /\ j.selling =>
           \/ j.seen = 0 /\ j.had = 0 /\ \A i \in Open : rows[i].c # j.c
           \/ j.seen \in Open /\ rows[j.seen].c = j.c

\* The index roll has sold what comes before the leg in hand, and nothing else is open.
IndexStage(r) ==
  LET j == job[r]
  IN  account = "index" =>
        /\ j.at = "price" => Open = {}
        /\ j.at = "leg" \/ (Filling(j) /\ j.selling) => Sold(j.strike, Earlier(j.wing))
        /\ j.at = "record" => Sold(j.strike, Wings)

Stage(r) == ClosingStage(r) /\ SellingStage(r) /\ IndexStage(r)
Serial   == Alone /\ Unique /\ \A r \in Runners : Stage(r)

\* An index account holds one straddle's lots at most.
IndexShort ==
  account = "index" =>
    /\ \A i \in Open : rows[i].lots = -Lots
    /\ \A i, k \in Open : rows[i].c[2] = rows[k].c[2] => i = k

\* Whoever rolls does so on a day not marked.
Undone ==
  /\ \A r \in Runners \ {"exit"} : Busy(r) => done # Today
  /\ broken => done # Today

\* When one request works, the others have nothing in hand.
LEMMA Others ==
  ASSUME Alone, NEW r \in Runners, Busy(r), \A q \in Runners \ {r} : job'[q] = job[q]
  PROVE  Alone' /\ \A q \in Runners \ {r} : Stage(q)'
<1>1. \A q \in Runners \ {r} : job'[q].at = "idle"
  BY DEF Alone, Busy
<1>2. Alone'
  BY <1>1 DEF Alone, Busy
<1>. QED
  BY <1>1, <1>2 DEF Stage, ClosingStage, SellingStage, IndexStage, Filling

\* With nothing in hand every stage is as it should be.
LEMMA IdleStage ==
  ASSUME NEW r \in Runners, job'[r].at = "idle"
  PROVE  Stage(r)'
  BY DEF Stage, ClosingStage, SellingStage, IndexStage, Filling

LEMMA BeginSerial ==
  ASSUME Basis, Serial, ~Overlap,
         \/ \E r \in {"scheduler", "operator"}, k \in Strikes : BeginRoll(r, k)
         \/ \E i \in Rows : BeginExit(i)
  PROVE  Serial'
<1>1. PICK r \in Runners :
        /\ \A q \in Runners : job[q] = Idle
        /\ \A q \in Runners \ {r} : job'[q] = job[q]
        /\ job'[r].at = "close"
        /\ r # "exit" => job'[r].todo = Open
        /\ UNCHANGED <<account, rows>>
  <2>1. CASE \E r \in {"scheduler", "operator"}, k \in Strikes : BeginRoll(r, k)
    <3>1. PICK r \in {"scheduler", "operator"}, k \in Strikes : BeginRoll(r, k)
      BY <2>1
    <3> DEFINE j == [Idle EXCEPT !.at = "close", !.strike = k, !.todo = Open]
    <3>2. j.at = "close" /\ j.todo = Open
      BY DEF Idle
    <3>3. job' = [job EXCEPT ![r] = j] /\ Quiet(r) /\ UNCHANGED <<account, rows>>
      BY <3>1 DEF BeginRoll
    <3> HIDE DEF j
    <3>4. r \in Runners /\ job \in [Runners -> Job] /\ \A q \in Runners : job[q] = Idle
      BY <3>3 DEF Runners, Basis, Quiet
    <3>. QED
      BY <3>2, <3>3, <3>4
  <2>2. CASE \E i \in Rows : BeginExit(i)
    <3>1. PICK i \in Rows : BeginExit(i)
      BY <2>2
    <3> DEFINE j == [Idle EXCEPT !.at = "close", !.todo = {i}]
    <3>2. j.at = "close"
      BY DEF Idle
    <3>3. job' = [job EXCEPT !["exit"] = j] /\ Quiet("exit") /\ UNCHANGED <<account, rows>>
      BY <3>1 DEF BeginExit
    <3> HIDE DEF j
    <3>4. "exit" \in Runners /\ job \in [Runners -> Job] /\ \A q \in Runners : job[q] = Idle
      BY <3>3 DEF Runners, Basis, Quiet
    <3>. QED
      BY <3>2, <3>3, <3>4
  <2>. QED
    BY <2>1, <2>2
<1>2. Idle.at = "idle"
  BY DEF Idle
<1>3. Alone' /\ \A q \in Runners \ {r} : Stage(q)'
  <2>1. \A q \in Runners \ {r} : job'[q].at = "idle"
    BY <1>1, <1>2
  <2>. QED
    BY <2>1, IdleStage DEF Alone, Busy
<1>4. Open' = Open /\ Unique'
  BY <1>1 DEF Serial, Unique, Open
<1>5. Stage(r)'
  BY <1>1, <1>4 DEF Stage, ClosingStage, SellingStage, IndexStage, Filling
<1>. QED
  BY <1>3, <1>4, <1>5 DEF Serial

LEMMA CloseSerial ==
  ASSUME Basis, Serial, NEW r \in Runners, NEW i \in Rows, CloseNext(r, i)
  PROVE  Serial'
<1> DEFINE j == job[r]
<1>1. j \in Job /\ j.at = "close" /\ ~j.selling /\ i \in j.todo /\ job \in [Runners -> Job]
  BY DEF Basis, Fits, CloseNext
<1>2. UNCHANGED <<account, rows>> /\ Open' = Open /\ Unique'
  BY DEF CloseNext, Serial, Unique, Open
<1>3. ~j.failed /\ r # "exit" => Open \subseteq j.todo
  BY <1>1 DEF Serial, Stage, ClosingStage
<1>4. CASE /\ i \in Open
           /\ job' = [job EXCEPT ![r] = [[j EXCEPT !.todo = @ \ {i}]
                                           EXCEPT !.at = "find", !.c = rows[i].c, !.order = -rows[i].lots]]
  <2> DEFINE rest == [j EXCEPT !.todo = @ \ {i}]
             fill == [rest EXCEPT !.at = "find", !.c = rows[i].c, !.order = -rows[i].lots]
  <2>1. rest \in Job /\ rest.todo = j.todo \ {i} /\ rest.failed = j.failed /\ rest.selling = j.selling
    BY <1>1 DEF Job
  <2> HIDE DEF rest
  <2>2. /\ fill.at = "find" /\ fill.c = rows[i].c /\ fill.order = -rows[i].lots
        /\ fill.todo = j.todo \ {i} /\ fill.failed = j.failed /\ fill.selling = j.selling
    BY <2>1 DEF Job
  <2>3. job'[r] = fill
    BY <1>1, <1>4 DEF rest
  <2> HIDE DEF fill
  <2>4. /\ job'[r].at = "find" /\ job'[r].c = rows[i].c /\ job'[r].order = -rows[i].lots
        /\ job'[r].todo = j.todo \ {i} /\ job'[r].failed = j.failed /\ ~job'[r].selling
    BY <1>1, <2>2, <2>3
  <2>5. \A q \in Runners \ {r} : job'[q] = job[q]
    BY <1>1, <1>4
  <2>6. rows[i].lots = -(-rows[i].lots)
    BY DEF Basis, Row
  <2>7. ClosingStage(r)'
    BY <1>2, <1>3, <1>4, <2>4, <2>6 DEF ClosingStage, Filling
  <2>8. Stage(r)'
    BY <2>4, <2>7 DEF Stage, SellingStage, IndexStage, Filling
  <2>. QED
    BY <1>1, <1>2, <2>5, <2>8, Others DEF Serial, Busy
<1>5. CASE job' = [job EXCEPT ![r] = [[j EXCEPT !.todo = @ \ {i}] EXCEPT !.failed = TRUE]]
  <2>1. job'[r].at = "close" /\ job'[r].failed
    BY <1>1, <1>5 DEF Job
  <2>2. \A q \in Runners \ {r} : job'[q] = job[q]
    BY <1>1, <1>5
  <2>3. Stage(r)'
    BY <2>1 DEF Stage, ClosingStage, SellingStage, IndexStage, Filling
  <2>. QED
    BY <1>1, <1>2, <2>2, <2>3, Others DEF Serial, Busy
<1>6. \/ /\ i \in Open
         /\ job' = [job EXCEPT ![r] = [[j EXCEPT !.todo = @ \ {i}]
                                         EXCEPT !.at = "find", !.c = rows[i].c, !.order = -rows[i].lots]]
      \/ job' = [job EXCEPT ![r] = [[j EXCEPT !.todo = @ \ {i}] EXCEPT !.failed = TRUE]]
  BY DEF CloseNext
<1>. QED
  BY <1>4, <1>5, <1>6

LEMMA RollSerial ==
  ASSUME Basis, Serial, NEW r \in Runners, AllClosed(r) \/ PriceBasket(r) \/ SellLeg(r) \/ Record(r)
  PROVE  Serial'
<1> DEFINE j == job[r]
<1>1. j \in Job /\ Fits(r, j) /\ j.at \in {"close", "price", "leg", "record"} /\ job \in [Runners -> Job]
  BY DEF Basis, AllClosed, PriceBasket, SellLeg, Record
<1>2. UNCHANGED <<account, rows>> /\ Open' = Open /\ Unique'
  BY DEF AllClosed, PriceBasket, SellLeg, Record, Serial, Unique, Open
<1>3. Busy(r) /\ Alone /\ \A q \in Runners \ {r} : job'[q] = job[q]
  BY <1>1 DEF Busy, Serial, AllClosed, PriceBasket, SellLeg, Record
<1>4. Stage(r)
  BY DEF Serial
<1>5. ASSUME job'[r] = Idle
      PROVE  Stage(r)'
  BY <1>5, IdleStage DEF Idle
<1>6. ASSUME AllClosed(r), job'[r] # Idle
      PROVE  Stage(r)'
  <2>1. /\ r # "exit" /\ MayReopen(j) /\ j.at = "close" /\ j.todo = {}
        /\ \E next \in Reopening : job'[r] = [j EXCEPT !.at = next]
    BY <1>1, <1>6 DEF AllClosed
  <2>2. job'[r].at \in (IF account = "index" THEN {"price"} ELSE {"leg", "record"})
    BY <1>1, <2>1 DEF Job, Reopening
  <2>3. account = "index" => Open = {}
    BY <1>4, <2>1 DEF MayReopen, Stage, ClosingStage
  <2>. QED
    BY <1>2, <2>2, <2>3 DEF Stage, ClosingStage, SellingStage, IndexStage, Filling
<1>7. ASSUME PriceBasket(r), job'[r] # Idle
      PROVE  Stage(r)'
  <2>1. j.at = "price" /\ job'[r] = [j EXCEPT !.at = "leg"] /\ j.wing = "CE"
    BY <1>1, <1>7 DEF PriceBasket, Fits
  <2>2. job'[r].at = "leg" /\ job'[r].wing = "CE" /\ job'[r].strike = j.strike
    BY <1>1, <2>1 DEF Job
  <2>3. account = "index" => Open = {}
    BY <1>4, <2>1 DEF Stage, IndexStage
  <2>. QED
    BY <1>2, <2>2, <2>3 DEF Stage, ClosingStage, SellingStage, IndexStage, Filling, Sold, Earlier
<1>8. ASSUME SellLeg(r)
      PROVE  Stage(r)'
  <2>1. CASE job'[r] = [j EXCEPT !.at = "find", !.selling = TRUE, !.c = <<j.strike, j.wing>>, !.order = -Lots]
    <3>1. /\ job'[r].at = "find" /\ job'[r].selling /\ job'[r].c = <<j.strike, j.wing>>
          /\ job'[r].order = -Lots /\ job'[r].strike = j.strike /\ job'[r].wing = j.wing
      BY <1>1, <2>1 DEF Job
    <3>2. account = "index" => Sold(j.strike, Earlier(j.wing))
      BY <1>4, <1>8 DEF SellLeg, Stage, IndexStage
    <3>. QED
      BY <1>2, <3>1, <3>2 DEF Stage, ClosingStage, SellingStage, IndexStage, Filling, Sold, Short
  <2>2. CASE account = "stock" /\ job'[r] = NextLeg(j)
    <3>1. NextLeg(j).at \in {"leg", "record"}
      BY <1>1, <1>8, NextLegFits DEF SellLeg, Fits
    <3>. QED
      BY <1>2, <2>2, <3>1 DEF Stage, ClosingStage, SellingStage, IndexStage, Filling
  <2>. QED
    BY <1>1, <1>8, <2>1, <2>2 DEF SellLeg
<1>9. Stage(r)'
  <2>1. Record(r) => job'[r] = Idle
    BY <1>1 DEF Record
  <2>. QED
    BY <1>5, <1>6, <1>7, <1>8, <2>1
<1>. QED
  BY <1>2, <1>3, <1>9, Others DEF Serial

LEMMA FindSerial ==
  ASSUME Basis, Serial, NEW r \in Runners, FindExisting(r)
  PROVE  Serial'
<1> DEFINE j     == job[r]
           found == {i \in Open : rows[i].c = j.c}
<1>1. j \in Job /\ Fits(r, j) /\ j.at = "find" /\ job \in [Runners -> Job] /\ j.seen = 0 /\ j.had = 0
  BY DEF Basis, FindExisting, Fits
<1>2. UNCHANGED <<account, rows>> /\ Open' = Open /\ Unique'
  BY DEF FindExisting, Serial, Unique, Open
<1>3. Busy(r) /\ Alone /\ \A q \in Runners \ {r} : job'[q] = job[q]
  BY <1>1 DEF Busy, Serial, FindExisting
<1>4. Stage(r) /\ Unique
  BY DEF Serial
<1>5. \/ found = {} /\ job'[r] = [j EXCEPT !.at = "write"]
      \/ \E i \in found : job'[r] = [j EXCEPT !.at = "write", !.seen = i, !.had = rows[i].lots]
  BY <1>1 DEF FindExisting
<1> DEFINE Kept(k) == /\ k.at = "write" /\ k.c = j.c /\ k.order = j.order /\ k.todo = j.todo
                     /\ k.failed = j.failed /\ k.selling = j.selling
                     /\ k.strike = j.strike /\ k.wing = j.wing
<1>6. Kept(job'[r])
  <2>1. ASSUME NEW i, job'[r] = [j EXCEPT !.at = "write", !.seen = i, !.had = rows[i].lots]
        PROVE  Kept(job'[r])
    BY <1>1, <2>1 DEF Job
  <2>2. ASSUME job'[r] = [j EXCEPT !.at = "write"]
        PROVE  Kept(job'[r])
    BY <1>1, <2>2 DEF Job
  <2>. QED
    BY <1>5, <2>1, <2>2
<1>7. \/ found = {} /\ job'[r].seen = 0 /\ job'[r].had = 0
      \/ \E i \in found : job'[r].seen = i /\ job'[r].had = rows[i].lots
  <2>1. ASSUME NEW i \in found, job'[r] = [j EXCEPT !.at = "write", !.seen = i, !.had = rows[i].lots]
        PROVE  job'[r].seen = i /\ job'[r].had = rows[i].lots
    BY <1>1, <2>1 DEF Job
  <2>2. ASSUME job'[r] = [j EXCEPT !.at = "write"]
        PROVE  job'[r].seen = 0 /\ job'[r].had = 0
    BY <1>1, <2>2 DEF Job
  <2>. QED
    BY <1>5, <2>1, <2>2
<1>8. ClosingStage(r)'
  <2>1. SUFFICES ASSUME ~j.selling
                 PROVE  ClosingStage(r)'
    BY <1>6 DEF ClosingStage
  <2>2. PICK i \in Open : /\ rows[i].c = j.c /\ rows[i].lots = -j.order
                          /\ ~j.failed /\ r # "exit" => Open \subseteq j.todo \cup {i}
    BY <1>1, <1>4, <2>1 DEF Stage, ClosingStage, Filling
  <2>3. found = {i}
    BY <1>4, <2>2 DEF Unique
  <2>4. job'[r].seen = i /\ job'[r].had = rows[i].lots
    BY <1>7, <2>3
  <2>. QED
    BY <1>2, <1>6, <2>2, <2>4 DEF ClosingStage
<1>9. SellingStage(r)'
  <2>1. SUFFICES ASSUME j.selling
                 PROVE  SellingStage(r)'
    BY <1>6 DEF SellingStage
  <2>2. j.c = <<j.strike, j.wing>> /\ j.order = -Lots
    BY <1>1, <1>4, <2>1 DEF Stage, SellingStage, Filling
  <2>3. \/ job'[r].seen = 0 /\ job'[r].had = 0 /\ \A i \in Open : rows[i].c # j.c
        \/ job'[r].seen \in Open /\ rows[job'[r].seen].c = j.c
    BY <1>7
  <2>. QED
    BY <1>2, <1>6, <2>2, <2>3 DEF SellingStage
<1>10. IndexStage(r)'
  <2>1. account = "index" /\ j.selling => Sold(j.strike, Earlier(j.wing))
    BY <1>1, <1>4 DEF Stage, IndexStage, Filling
  <2>. QED
    BY <1>2, <1>6, <2>1 DEF IndexStage, Sold, Short, Filling
<1>. QED
  BY <1>2, <1>3, <1>8, <1>9, <1>10, Others DEF Serial, Stage

\* The leg in hand has not been sold.
LEMMA NotYetSold ==
  ASSUME NEW k, NEW w, Sold(k, Earlier(w)), NEW i \in Open
  PROVE  rows[i].c # <<k, w>>
<1>1. w # "CE" /\ rows[i] = Short(k, "CE")
  BY DEF Sold, Earlier
<1>2. rows[i].c = <<k, "CE">>
  BY <1>1 DEF Short
<1>. QED
  BY <1>1, <1>2

\* What a write does to the open positions.
LEMMA WriteOpen ==
  ASSUME Basis, NEW r \in Runners, NEW j, j = job[r], j.at = "write", rows' = Written(j),
         j.seen = 0 => Unused # {}
  PROVE  /\ j.seen = 0 =>
              /\ Open' = Open \cup {NewRow} /\ NewRow \notin Open
              /\ rows'[NewRow] = [c |-> j.c, lots |-> j.order]
              /\ \A i \in Open : rows'[i] = rows[i]
         /\ j.seen \in Open =>
              /\ Open' \subseteq Open /\ \A i \in Open' : rows'[i].c = rows[i].c
              /\ j.had + j.order = 0 => Open' = Open \ {j.seen} /\ \A i \in Open' : rows'[i] = rows[i]
<1>1. j \in Job /\ Fits(r, j)
  BY DEF Basis
<1>2. /\ rows' \in [Rows -> Row]
      /\ \A i \in Rows : rows'[i].c = None <=> rows'[i].lots = 0
      /\ j.seen = 0 => /\ NewRow \in Rows \ Open
                       /\ rows'[NewRow] = [c |-> j.c, lots |-> j.order]
                       /\ [c |-> j.c, lots |-> j.order] # Free
                       /\ \A i \in Rows \ {NewRow} : rows'[i] = rows[i]
      /\ j.seen # 0 => \A i \in Rows \ {j.seen} : rows'[i] = rows[i]
      /\ j.seen \in Open => /\ j.had + j.order = 0 => rows'[j.seen] = Free
                            /\ rows'[j.seen].c \in {rows[j.seen].c, None}
  BY <1>1, WrittenRows
<1>3. CASE j.seen = 0
  <2>1. Open' = Open \cup {NewRow}
    BY <1>2, <1>3 DEF Open
  <2>2. 0 \notin Open
    BY DEF Open, Rows
  <2>. QED
    BY <1>2, <1>3, <2>1, <2>2 DEF Open
<1>4. CASE j.seen \in Open
  <2>1. j.seen # 0 /\ j.seen \in Rows
    BY <1>4 DEF Open, Rows
  <2>2. ASSUME NEW i \in Open'
        PROVE  i \in Open /\ rows'[i].c = rows[i].c
    <3>1. CASE i = j.seen
      <4>1. rows'[i].c # None
        <5>1. rows'[i] \in Row /\ rows'[i] # Free /\ (rows'[i].c = None <=> rows'[i].lots = 0)
          BY <1>2, <2>1, <2>2, <3>1 DEF Open
        <5>. QED
          BY <5>1 DEF Row, Free
      <4>. QED
        BY <1>2, <1>4, <3>1, <4>1
    <3>2. CASE i # j.seen
      BY <1>2, <2>1, <2>2, <3>2 DEF Open
    <3>. QED
      BY <3>1, <3>2
  <2>3. ASSUME j.had + j.order = 0
        PROVE  Open' = Open \ {j.seen} /\ \A i \in Open' : rows'[i] = rows[i]
    <3>1. \A i \in Rows \ {j.seen} : rows'[i] = rows[i]
      BY <1>2, <2>1
    <3>2. rows'[j.seen] = Free
      BY <1>2, <1>4, <2>3
    <3>. QED
      BY <3>1, <3>2 DEF Open
  <2>. QED
    BY <2>1, <2>2, <2>3
<1>. QED
  BY <1>3, <1>4

\* One request at a time: a close takes its position away, an index roll adds the leg in hand,
\* and neither ever fails; a stock roll goes on with its next leg.
LEMMA WriteEffect ==
  ASSUME Basis, Serial, NEW r \in Runners, NEW j, j = job[r], Write(r)
  PROVE  \/ /\ ~j.selling /\ UNCHANGED broken
            /\ job'[r] = [Read(j) EXCEPT !.at = "close", !.closed = @ + 1]
            /\ \E i \in Open : /\ rows[i].c = j.c /\ Open' = Open \ {i} /\ \A k \in Open' : rows'[k] = rows[k]
                               /\ ~j.failed /\ r # "exit" => Open \subseteq j.todo \cup {i}
         \/ /\ j.selling /\ account = "index" /\ UNCHANGED broken
            /\ job'[r] = NextLeg(j) /\ Sold(j.strike, Earlier(j.wing))
            /\ Open' = Open \cup {NewRow} /\ NewRow \notin Open
            /\ rows'[NewRow] = Short(j.strike, j.wing) /\ \A k \in Open : rows'[k] = rows[k]
         \/ j.selling /\ account = "stock" /\ job'[r] = NextLeg(j) /\ UNCHANGED broken /\ Unique'
<1>1. j \in Job /\ Fits(r, j) /\ j.at = "write" /\ Filling(j) /\ job \in [Runners -> Job]
  BY DEF Basis, Write, Filling
<1>2. ClosingStage(r) /\ SellingStage(r) /\ IndexStage(r) /\ Unique
  BY DEF Serial, Stage
<1> DEFINE raises == ~Opening(j) /\ Size(j.had) < Size(j.order)
           gated  == Opening(j) /\ (~j.selling \/ account = "stock")
<1>3. \/ /\ ~raises /\ (j.seen = 0 => Unused # {}) /\ rows' = Written(j) /\ UNCHANGED broken
         /\ job'[r] = IF j.selling THEN NextLeg(j) ELSE [Read(j) EXCEPT !.at = "close", !.closed = @ + 1]
      \/ /\ raises \/ gated
         /\ job'[r] = Raised(j) /\ UNCHANGED rows
         /\ broken' = (broken \/ (j.selling /\ account = "index"))
  BY <1>1 DEF Write
<1>4. account \in {"index", "stock"}
  BY RollAssumption DEF Basis
<1>5. CASE ~j.selling
  <2>1. PICK i \in Open : /\ rows[i].c = j.c /\ rows[i].lots = -j.order
                          /\ ~j.failed /\ r # "exit" => Open \subseteq j.todo \cup {i}
                          /\ j.seen = i /\ j.had = rows[i].lots
    BY <1>1, <1>2, <1>5 DEF ClosingStage
  <2>2. j.had \in Int /\ j.order \in Int /\ j.order # 0 /\ j.had = -j.order /\ j.had + j.order = 0
    BY <1>1, <2>1 DEF Fits, Job
  <2>3. ~raises /\ ~gated
    BY <2>2 DEF Opening, Size
  <2>4. rows' = Written(j) /\ j.seen \in Open /\ j.seen # 0
    BY <1>3, <2>1, <2>3 DEF Open, Rows
  <2>5. Open' = Open \ {i} /\ \A k \in Open' : rows'[k] = rows[k]
    BY <1>1, <2>1, <2>2, <2>4, WriteOpen
  <2>. QED
    BY <1>3, <1>5, <2>1, <2>3, <2>5
<1>6. CASE j.selling /\ account = "index"
  <2>1. /\ j.c = <<j.strike, j.wing>> /\ j.order = -Lots /\ Sold(j.strike, Earlier(j.wing))
        /\ \/ j.seen = 0 /\ j.had = 0 /\ \A i \in Open : rows[i].c # j.c
           \/ j.seen \in Open /\ rows[j.seen].c = j.c
    BY <1>1, <1>2, <1>6 DEF SellingStage, IndexStage
  <2>2. \A i \in Open : rows[i].c # j.c
    BY <2>1, NotYetSold
  <2>3. j.seen = 0 /\ j.had = 0
    BY <2>1, <2>2
  <2>4. ~raises /\ ~gated
    BY <1>6, <2>3 DEF Opening
  <2>5. rows' = Written(j) /\ Unused # {} /\ UNCHANGED broken /\ job'[r] = NextLeg(j)
    BY <1>3, <1>6, <2>3, <2>4
  <2>6. /\ Open' = Open \cup {NewRow} /\ NewRow \notin Open
        /\ rows'[NewRow] = [c |-> j.c, lots |-> j.order] /\ \A k \in Open : rows'[k] = rows[k]
    BY <1>1, <2>3, <2>5, WriteOpen
  <2>. QED
    BY <1>6, <2>1, <2>5, <2>6 DEF Short
<1>7. CASE j.selling /\ account = "stock"
  <2>1. job'[r] = NextLeg(j) /\ UNCHANGED broken
    <3>1. Raised(j) = NextLeg(j)
      BY <1>7 DEF Raised
    <3>2. broken \in BOOLEAN
      BY DEF Basis
    <3> HIDE DEF raises, gated
    <3>. QED
      BY <1>3, <1>7, <3>1, <3>2
  <2>2. CASE UNCHANGED rows
    BY <1>2, <1>7, <2>1, <2>2 DEF Unique, Open
  <2>3. CASE rows' = Written(j) /\ (j.seen = 0 => Unused # {})
    <3>1. \/ j.seen = 0 /\ \A i \in Open : rows[i].c # j.c
          \/ j.seen \in Open
      BY <1>1, <1>2, <1>7 DEF SellingStage
    <3>2. CASE j.seen = 0 /\ \A i \in Open : rows[i].c # j.c
      <4>1. /\ Open' = Open \cup {NewRow} /\ \A k \in Open : rows'[k] = rows[k]
            /\ rows'[NewRow] = [c |-> j.c, lots |-> j.order]
        BY <1>1, <2>3, <3>2, WriteOpen
      <4>2. /\ Open' = Open \cup {NewRow} /\ rows'[NewRow].c = j.c /\ \A k \in Open : rows'[k] = rows[k]
        BY <4>1
      <4>3. Unique'
        BY <1>2, <3>2, <4>2 DEF Unique
      <4>. QED
        BY <1>7, <2>1, <4>3
    <3>3. CASE j.seen \in Open
      <4>1. Open' \subseteq Open /\ \A i \in Open' : rows'[i].c = rows[i].c
        BY <1>1, <2>3, <3>3, WriteOpen
      <4>2. Unique'
        BY <1>2, <4>1 DEF Unique
      <4>. QED
        BY <1>7, <2>1, <4>2
    <3>. QED
      BY <3>1, <3>2, <3>3
  <2>. QED
    BY <1>3, <2>2, <2>3
<1>. QED
  BY <1>4, <1>5, <1>6, <1>7

LEMMA WriteSerial ==
  ASSUME Basis, Serial, NEW r \in Runners, Write(r)
  PROVE  Serial'
<1> DEFINE j == job[r]
<1>1. j \in Job /\ Fits(r, j) /\ j.at = "write" /\ Filling(j) /\ job \in [Runners -> Job]
  BY DEF Basis, Write, Filling
<1>2. Busy(r) /\ Alone /\ Unique /\ (\A q \in Runners \ {r} : job'[q] = job[q]) /\ account' = account
  BY <1>1 DEF Busy, Serial, Write
<1>3. j.selling => /\ NextLeg(j).at = (IF j.wing = "CE" THEN "leg" ELSE "record")
                   /\ NextLeg(j).strike = j.strike /\ (j.wing = "CE" => NextLeg(j).wing = "PE")
  <2>1. SUFFICES ASSUME j.selling
                 PROVE  /\ NextLeg(j).at = (IF j.wing = "CE" THEN "leg" ELSE "record")
                        /\ NextLeg(j).strike = j.strike /\ (j.wing = "CE" => NextLeg(j).wing = "PE")
    OBVIOUS
  <2>2. r # "exit"
    BY <1>1, <2>1 DEF Fits
  <2>. QED
    BY <1>1, <2>1, <2>2, NextLegFits
<1>4. CASE /\ ~j.selling
           /\ job'[r] = [Read(j) EXCEPT !.at = "close", !.closed = @ + 1]
           /\ \E i \in Open : /\ Open' = Open \ {i} /\ \A k \in Open' : rows'[k] = rows[k]
                              /\ ~j.failed /\ r # "exit" => Open \subseteq j.todo \cup {i}
  <2>1. job'[r].at = "close" /\ job'[r].failed = j.failed /\ job'[r].todo = j.todo
    BY <1>1, <1>4, ReadFits DEF Job
  <2>2. Stage(r)'
    BY <1>4, <2>1 DEF Stage, ClosingStage, SellingStage, IndexStage, Filling
  <2>3. Unique'
    BY <1>2, <1>4 DEF Unique
  <2>. QED
    BY <1>2, <2>2, <2>3, Others DEF Serial
<1>5. CASE /\ j.selling /\ account = "index" /\ job'[r] = NextLeg(j) /\ Sold(j.strike, Earlier(j.wing))
           /\ Open' = Open \cup {NewRow} /\ NewRow \notin Open
           /\ rows'[NewRow] = Short(j.strike, j.wing) /\ \A k \in Open : rows'[k] = rows[k]
  <2>1. Unique'
    <3>1. \A i \in Open : rows[i].c # rows'[NewRow].c
      BY <1>5, NotYetSold DEF Short
    <3>. QED
      BY <1>2, <1>5, <3>1 DEF Unique
  <2>2. j.wing \in Wings
    BY <1>1 DEF Job
  <2> DEFINE SoldNow(W) == /\ \A i \in Open' : \E w \in W : rows'[i] = Short(j.strike, w)
                           /\ \A w \in W : \E i \in Open' : rows'[i] = Short(j.strike, w)
  <2>3. SoldNow(Earlier(j.wing) \cup {j.wing})
    BY <1>5 DEF Sold
  <2>4. CASE j.wing = "CE"
    <3>1. job'[r].at = "leg" /\ job'[r].strike = j.strike /\ job'[r].wing = "PE"
      BY <1>3, <1>5, <2>4
    <3>2. Earlier("PE") = Earlier(j.wing) \cup {j.wing}
      BY <2>4 DEF Earlier
    <3>3. SoldNow(Earlier("PE"))
      BY <2>3, <3>2
    <3>4. IndexStage(r)'
      BY <3>1, <3>3 DEF IndexStage, Filling, Sold, Short
    <3>5. Stage(r)'
      BY <3>1, <3>4 DEF Stage, ClosingStage, SellingStage, Filling
    <3>. QED
      BY <1>2, <2>1, <3>5, Others DEF Serial
  <2>5. CASE j.wing = "PE"
    <3>1. job'[r].at = "record" /\ job'[r].strike = j.strike
      BY <1>3, <1>5, <2>5
    <3>2. Wings = Earlier(j.wing) \cup {j.wing}
      BY <2>5 DEF Earlier, Wings
    <3>3. SoldNow(Wings)
      BY <2>3, <3>2
    <3>4. IndexStage(r)'
      BY <3>1, <3>3 DEF IndexStage, Filling, Sold, Short
    <3>5. Stage(r)'
      BY <3>1, <3>4 DEF Stage, ClosingStage, SellingStage, Filling
    <3>. QED
      BY <1>2, <2>1, <3>5, Others DEF Serial
  <2>. QED
    BY <2>2, <2>4, <2>5 DEF Wings
<1>6. CASE j.selling /\ account = "stock" /\ job'[r] = NextLeg(j) /\ Unique'
  <2>1. job'[r].at \in {"leg", "record"}
    BY <1>3, <1>6
  <2>2. Stage(r)'
    BY <1>2, <1>6, <2>1 DEF Stage, ClosingStage, SellingStage, IndexStage, Filling
  <2>. QED
    BY <1>2, <1>6, <2>2, Others DEF Serial
<1>. QED
  BY <1>4, <1>5, <1>6, WriteEffect

LEMMA SerialHolds ==
  ASSUME ~Overlap
  PROVE  Spec => []Serial
<1>1. Init => Serial
  <2> SUFFICES ASSUME Init PROVE Serial
    OBVIOUS
  <2>1. Open = {} /\ \A r \in Runners : job[r].at = "idle"
    BY DEF Init, Open, Idle
  <2>. QED
    BY <2>1 DEF Serial, Alone, Busy, Unique, Stage, ClosingStage, SellingStage, IndexStage, Filling
<1>2. Basis /\ Serial /\ [Next]_vars => Serial'
  <2> SUFFICES ASSUME Basis, Serial, [Next]_vars PROVE Serial'
    OBVIOUS
  <2>1. CASE UNCHANGED <<account, rows, job>>
    <3>1. Open' = Open /\ Alone' /\ Unique'
      BY <2>1 DEF Open, Serial, Alone, Busy, Unique
    <3>2. ASSUME NEW r \in Runners
          PROVE  Stage(r)'
      <4>1. ClosingStage(r) /\ SellingStage(r) /\ IndexStage(r)
        BY DEF Serial, Stage
      <4>2. ClosingStage(r)'
        BY <2>1, <3>1, <4>1 DEF ClosingStage, Filling
      <4>3. SellingStage(r)'
        BY <2>1, <3>1, <4>1 DEF SellingStage, Filling
      <4>4. IndexStage(r)'
        BY <2>1, <3>1, <4>1 DEF IndexStage, Filling, Sold, Short
      <4>. QED
        BY <4>2, <4>3, <4>4 DEF Stage
    <3>. QED
      BY <3>1, <3>2 DEF Serial
  <2>2. CASE Crash
    <3>1. Unique' /\ \A r \in Runners : job'[r].at = "idle"
      BY <2>2 DEF Crash, Serial, Unique, Open, Idle
    <3>. QED
      BY <3>1, IdleStage DEF Serial, Alone, Busy
  <2>3. CASE \E r \in Runners : Step(r)
    BY <2>3, CloseSerial, RollSerial, FindSerial, WriteSerial DEF Step
  <2>. QED
    BY <2>1, <2>2, <2>3, BeginSerial DEF Next, vars, Tick
<1>. QED
  BY <1>1, <1>2, BasisHolds, PTL DEF Spec

\* For any strikes and lots, and whatever fails or stops: if one request at a time works on an
\* index account, its day is marked only when the account holds exactly the straddle.
THEOREM StraddleStands ==
  ASSUME ~Overlap
  PROVE  Spec => MarkedHoldsStraddle
<1>1. ASSUME Serial, Basis, [Next]_vars, account = "index", done' # done
      PROVE  \E k \in Strikes : {rows[i] : i \in Open} =
                                  {[c |-> <<k, w>>, lots |-> -Lots] : w \in Wings}
                                /\ Cardinality(Open) = 2
  <2>1. PICK r \in Runners : Record(r)
    BY <1>1 DEF Next, vars, BeginRoll, BeginExit, Step, CloseNext, AllClosed, PriceBasket, SellLeg,
                FindExisting, Write, Crash, Tick
  <2> DEFINE k == job[r].strike
  <2>2. job[r].at = "record" /\ k \in Strikes
    BY <1>1, <2>1 DEF Record, Basis, Fits
  <2>3. Sold(k, Wings) /\ Unique
    BY <1>1, <2>2 DEF Serial, Stage, IndexStage
  <2> HIDE DEF k
  <2>4. PICK a \in Open, b \in Open : rows[a] = Short(k, "CE") /\ rows[b] = Short(k, "PE")
    BY <2>3 DEF Sold, Wings
  <2>5. rows[a].c = <<k, "CE">> /\ rows[b].c = <<k, "PE">> /\ a # b
    <3>1. rows[a].c = <<k, "CE">> /\ rows[b].c = <<k, "PE">>
      BY <2>4 DEF Short
    <3>. QED
      BY <3>1
  <2>6. Open = {a, b}
    <3>1. ASSUME NEW i \in Open
          PROVE  i = a \/ i = b
      <4>1. rows[i] = Short(k, "CE") \/ rows[i] = Short(k, "PE")
        BY <2>3 DEF Sold, Wings
      <4>2. rows[i].c = rows[a].c \/ rows[i].c = rows[b].c
        BY <2>4, <4>1
      <4>. QED
        BY <2>3, <4>2 DEF Unique
    <3>. QED
      BY <3>1
  <2>7. Cardinality(Open) = 2
    <3>1. IsFiniteSet({a}) /\ Cardinality({a}) = 1
      BY FS_Singleton
    <3>2. Cardinality({a} \cup {b}) = Cardinality({a}) + 1
      BY <2>5, <3>1, FS_AddElement
    <3>3. Open = {a} \cup {b}
      BY <2>6
    <3>. QED
      BY <3>1, <3>2, <3>3
  <2>8. {rows[i] : i \in Open} = {Short(k, w) : w \in Wings}
    BY <2>4, <2>6 DEF Wings
  <2>. QED
    BY <2>2, <2>7, <2>8 DEF Short
<1>2. Basis /\ Serial /\ [Next]_vars =>
        [account = "index" /\ done' # done =>
           \E k \in Strikes : {rows[i] : i \in Open} =
                                {[c |-> <<k, w>>, lots |-> -Lots] : w \in Wings}
                              /\ Cardinality(Open) = 2]_vars
  BY <1>1
<1>. QED
  BY <1>2, BasisHolds, SerialHolds, PTL DEF Spec, MarkedHoldsStraddle

\* If, besides, nobody rolls again a day that is marked: a roll that closed positions and then
\* failed leaves the day unmarked, whichever program ran it.
THEOREM FailureIsRetried ==
  ASSUME ~Overlap, ~Again
  PROVE  Spec => []FailedIsRetried
<1>1. Init => Undone
  BY DEF Init, Undone, Busy, Idle
<1>2. Basis /\ Serial /\ Undone /\ [Next]_vars => Undone'
  <2> SUFFICES ASSUME Basis, Serial, Undone, [Next]_vars PROVE Undone'
    OBVIOUS
  <2>1. job \in [Runners -> Job] /\ time \in Nat /\ done \in 0..Today /\ Today \in Nat
    <3>1. time \in Nat
      BY RollAssumption DEF Basis
    <3>. QED
      BY <3>1, Days DEF Basis, Today, Day
  <2>2. CASE UNCHANGED vars
    BY <2>2 DEF vars, Undone, Busy, Today, Day
  <2>3. CASE \E r \in {"scheduler", "operator"}, k \in Strikes : BeginRoll(r, k)
    <3>1. done # Today /\ UNCHANGED <<time, done, broken>>
      BY <2>3 DEF BeginRoll, Due
    <3>. QED
      BY <3>1 DEF Undone, Today, Day
  <2>4. CASE \E i \in Rows : BeginExit(i)
    <3>1. UNCHANGED <<time, done, broken>> /\ \A q \in Runners \ {"exit"} : job'[q] = job[q]
      BY <2>1, <2>4 DEF BeginExit
    <3>. QED
      BY <3>1 DEF Undone, Busy, Today, Day
  <2>5. ASSUME NEW r \in Runners, Step(r), ~Record(r)
        PROVE  Undone'
    <3>1. UNCHANGED <<time, done>> /\ Busy(r) /\ \A q \in Runners \ {r} : job'[q] = job[q]
      BY <2>1, <2>5 DEF Step, CloseNext, AllClosed, PriceBasket, SellLeg, FindExisting, Write, Busy
    <3>2. CASE r # "exit"
      BY <3>1, <3>2 DEF Undone, Busy, Today, Day
    <3>3. CASE r = "exit"
      <4>1. Fits(r, job[r])
        BY DEF Basis
      <4>2. broken' = broken
        <5>1. broken \in BOOLEAN
          BY DEF Basis
        <5>2. ~PriceBasket(r) /\ ~SellLeg(r)
          BY <3>3, <4>1 DEF PriceBasket, SellLeg, Fits
        <5>3. CASE Write(r)
          BY <3>3, <4>1, <5>1, <5>3 DEF Write, Fits
        <5>4. CASE AllClosed(r)
          BY <3>3, <5>1, <5>4 DEF AllClosed
        <5>. QED
          BY <2>5, <5>2, <5>3, <5>4 DEF Step, CloseNext, FindExisting
      <4>. QED
        BY <3>1, <3>3, <4>2 DEF Undone, Busy, Today, Day
    <3>. QED
      BY <3>2, <3>3
  <2>6. ASSUME NEW r \in Runners, Record(r)
        PROVE  Undone'
    <3>1. Busy(r) /\ ~broken' /\ job'[r].at = "idle" /\ \A q \in Runners \ {r} : job'[q] = job[q]
      BY <2>1, <2>6 DEF Record, Busy, Idle
    <3>2. \A q \in Runners : job'[q].at = "idle"
      BY <3>1 DEF Serial, Alone, Busy
    <3>. QED
      BY <3>1, <3>2 DEF Undone, Busy
  <2>7. CASE Crash
    <3>1. UNCHANGED <<time, done>> /\ \A r \in Runners : job'[r].at = "idle"
      BY <2>7 DEF Crash, Idle
    <3>2. broken' => done # Today
      <4>1. CASE broken
        BY <4>1 DEF Undone
      <4>2. CASE \E r \in Runners \ {"exit"} : job[r] # Idle
        BY <4>2 DEF Undone, Busy, Basis, Fits
      <4>. QED
        BY <2>7, <4>1, <4>2 DEF Crash
    <3>. QED
      BY <3>1, <3>2 DEF Undone, Busy, Today, Day
  <2>8. CASE Tick
    <3>1. time' = time + 1 /\ UNCHANGED <<done, job>>
      BY <2>8 DEF Tick
    <3>2. CASE Phase = After
      <4>1. \A r \in Runners : job'[r].at = "idle"
        BY <2>8, <3>2 DEF Tick, Idle
      <4>2. ~broken'
        BY <2>8, <3>2 DEF Tick
      <4>. QED
        BY <4>1, <4>2 DEF Undone, Busy
    <3>3. CASE Phase # After
      <4>1. Today' = Today
        BY <2>1, <3>1, <3>3, Days DEF Today, Day, Phase, After
      <4>2. broken' => broken
        BY <2>8 DEF Tick
      <4>. QED
        BY <3>1, <4>1, <4>2 DEF Undone, Busy
    <3>. QED
      BY <3>2, <3>3
  <2>. QED
    BY <2>2, <2>3, <2>4, <2>5, <2>6, <2>7, <2>8 DEF Next, Step
<1>3. Undone => FailedIsRetried
  BY DEF Undone, FailedIsRetried
<1>. QED
  BY <1>1, <1>2, <1>3, BasisHolds, SerialHolds, PTL DEF Spec

LEMMA ShortHolds ==
  ASSUME ~Overlap
  PROVE  Spec => []IndexShort
<1>1. Init => IndexShort
  BY DEF Init, IndexShort, Open
<1>2. Basis /\ Serial /\ IndexShort /\ [Next]_vars => IndexShort'
  <2> SUFFICES ASSUME Basis, Serial, IndexShort, [Next]_vars
               PROVE  IndexShort'
    OBVIOUS
  <2> SUFFICES ASSUME account = "index"
               PROVE  /\ \A i \in Open' : rows'[i].lots = -Lots
                      /\ \A i, k \in Open' : rows'[i].c[2] = rows'[k].c[2] => i = k
    <3>1. ASSUME NEW r \in Runners, Step(r)
          PROVE  account' = account
      BY <3>1 DEF Step, CloseNext, AllClosed, PriceBasket, SellLeg, FindExisting, Write, Record
    <3>2. account' = account
      BY <3>1 DEF Next, vars, BeginRoll, BeginExit, Crash, Tick
    <3>. QED
      BY <3>2 DEF IndexShort
  <2>1. /\ \A i \in Open : rows[i].lots = -Lots
        /\ \A i, k \in Open : rows[i].c[2] = rows[k].c[2] => i = k
    BY DEF IndexShort
  <2>2. CASE UNCHANGED rows
    BY <2>1, <2>2 DEF Open
  <2>3. ASSUME NEW r \in Runners, Write(r)
        PROVE  /\ \A i \in Open' : rows'[i].lots = -Lots
               /\ \A i, k \in Open' : rows'[i].c[2] = rows'[k].c[2] => i = k
    <3> DEFINE j == job[r]
    <3>1. CASE \E i \in Open : Open' = Open \ {i} /\ \A k \in Open' : rows'[k] = rows[k]
      BY <2>1, <3>1
    <3>2. CASE /\ Sold(j.strike, Earlier(j.wing))
               /\ Open' = Open \cup {NewRow} /\ NewRow \notin Open
               /\ rows'[NewRow] = Short(j.strike, j.wing) /\ \A k \in Open : rows'[k] = rows[k]
      <4>1. rows'[NewRow].lots = -Lots /\ rows'[NewRow].c = <<j.strike, j.wing>>
        BY <3>2 DEF Short
      <4>2. ASSUME NEW i \in Open
            PROVE  rows[i].c[2] # rows'[NewRow].c[2]
        <5>1. j.wing # "CE" /\ rows[i] = Short(j.strike, "CE")
          BY <3>2 DEF Sold, Earlier
        <5>2. rows[i].c = <<j.strike, "CE">>
          BY <5>1 DEF Short
        <5>. QED
          BY <4>1, <5>1, <5>2
      <4>. QED
        BY <2>1, <3>2, <4>1, <4>2
    <3>. QED
      BY <2>3, <3>1, <3>2, WriteEffect
  <2>4. UNCHANGED rows \/ \E r \in Runners : Write(r)
    BY DEF Next, vars, BeginRoll, BeginExit, Step, CloseNext, AllClosed, PriceBasket, SellLeg,
           FindExisting, Record, Crash, Tick
  <2>. QED
    BY <2>2, <2>3, <2>4
<1>. QED
  BY <1>1, <1>2, BasisHolds, SerialHolds, PTL DEF Spec

\* What a sum over one position or none is.
LEMMA SumOfOne ==
  ASSUME NEW w, \A i \in Open : rows[i].lots = -Lots,
         \A i, k \in Open : rows[i].c[2] = rows[k].c[2] => i = k
  PROVE  Sum(w) \in {0, -Lots}
<1> DEFINE held == {i \in Open : rows[i].c[2] = w}
           f    == [i \in held |-> rows[i].lots]
<1>1. -Lots \in Int
  BY RollAssumption
<1>2. CASE held = {}
  <2>1. DOMAIN f = {}
    BY <1>2
  <2>. HIDE DEF f
  <2>2. SumFunction(f) = 0
    BY <2>1, SumEmpty DEF SumFunction
  <2>. QED
    BY <2>2 DEF f, Sum
<1>3. ASSUME NEW i \in held
      PROVE  Sum(w) = -Lots
  <2>1. DOMAIN f = {i} /\ f[i] = -Lots
    BY <1>3
  <2>. HIDE DEF f
  <2>2. SumFunction(f) = f[i]
    BY <1>1, <2>1, SumOne DEF SumFunction
  <2>. QED
    BY <2>1, <2>2 DEF f, Sum
<1>. QED
  BY <1>2, <1>3

-----------------------------------------------------------------------------
(* A stock account, one request at a time: how many lots each wing is      *)
(* short.  A roll closes all it finds, but for what it missed, and only    *)
(* then sells each wing once; so before it sells a wing there is room for  *)
(* one round more than before.                                             *)

Closes(j) == j.at = "close" \/ (Filling(j) /\ ~j.selling)
Sells(j)  == j.at = "leg" \/ (Filling(j) /\ j.selling)

\* What is listed is open until its turn comes, and a sale adds to what is read.
StockStage(r) ==
  LET j == job[r]
  IN  /\ j.at # "price"
      /\ Closes(j) => \A i \in j.todo : i \in Open /\ (Filling(j) => rows[i].c # j.c)
      /\ j.at = "write" /\ j.selling =>
           j.had <= 0 /\ (j.seen # 0 => j.seen \in Open /\ j.had = rows[j.seen].lots)

\* The roll has missed a position, or has closed them all, and has not sold the wing.
Spare(r, w) ==
  LET j == job[r]
  IN  r # "exit" /\ \/ Closes(j) /\ j.failed
                    \/ Sells(j) /\ (j.wing = "CE" \/ w = "PE")

StockHeld(w) ==
  /\ Sum(w) >= -Lots * (missed + 1)
  /\ \A r \in Runners : Spare(r, w) => Sum(w) >= -Lots * missed

StockShort ==
  account = "stock" =>
    /\ \A i \in Open : rows[i].lots < 0
    /\ \A r \in Runners : StockStage(r)
    /\ \A w \in Wings : StockHeld(w)

\* The sum over a wing, of any positions p.
SumOf(p, w)      == SumFunction([i \in {k \in {i \in Rows : p[i] # Free} : p[k].c[2] = w} |-> p[i].lots])
ShareOf(p, i, w) == IF p[i] # Free /\ p[i].c[2] = w THEN p[i].lots ELSE 0

LEMMA SumIsShares ==
  ASSUME NEW p \in [Rows -> Row], NEW w
  PROVE  SumOf(p, w) = SumFunctionOnSet([i \in Rows |-> ShareOf(p, i, w)], Rows)
<1> DEFINE S == {k \in {i \in Rows : p[i] # Free} : p[k].c[2] = w}
           f == [i \in S |-> p[i].lots]
           g == [i \in Rows |-> ShareOf(p, i, w)]
<1>1. S \in SUBSET Rows /\ IsFiniteSet(Rows)
  BY RowSets
<1>2. \A i \in S : f[i] \in Int /\ g[i] = f[i]
  BY DEF ShareOf, Row
<1>3. \A i \in Rows \ S : g[i] = 0
  BY DEF ShareOf
<1>4. DOMAIN f = S
  OBVIOUS
<1>5. SumOf(p, w) = SumFunction(f)
  BY DEF SumOf
<1> HIDE DEF S, f, g
<1>6. SumFunctionOnSet(f, S) = SumFunctionOnSet(g, Rows)
  BY <1>1, <1>2, <1>3, SumPart
<1>. QED
  BY <1>4, <1>5, <1>6 DEF SumFunction, g

\* What one changed position does to the sums.
LEMMA SumOneChanged ==
  ASSUME NEW p \in [Rows -> Row], NEW q \in [Rows -> Row], NEW z \in Rows,
         \A i \in Rows \ {z} : q[i] = p[i], NEW w
  PROVE  /\ SumOf(p, w) \in Int
         /\ SumOf(q, w) = SumOf(p, w) - ShareOf(p, z, w) + ShareOf(q, z, w)
<1> DEFINE f == [i \in Rows |-> ShareOf(p, i, w)]
           g == [i \in Rows |-> ShareOf(q, i, w)]
<1>1. IsFiniteSet(Rows)
  BY RowSets
<1>2. \A i \in Rows : f[i] \in Int /\ g[i] \in Int
  BY DEF ShareOf, Row
<1>3. \A i \in Rows \ {z} : g[i] = f[i]
  BY DEF ShareOf
<1>4. f[z] = ShareOf(p, z, w) /\ g[z] = ShareOf(q, z, w)
  OBVIOUS
<1>5. SumOf(p, w) = SumFunctionOnSet(f, Rows) /\ SumOf(q, w) = SumFunctionOnSet(g, Rows)
  BY SumIsShares
<1> HIDE DEF f, g
<1>6. SumFunctionOnSet(g, Rows) = SumFunctionOnSet(f, Rows) - f[z] + g[z]
  BY <1>1, <1>2, <1>3, SumChange
<1>7. SumFunctionOnSet(f, Rows) \in Int
  BY <1>1, <1>2, SumType
<1>. QED
  BY <1>4, <1>5, <1>6, <1>7

LEMMA SumOfNone ==
  ASSUME Open = {}, NEW w
  PROVE  Sum(w) = 0
<1> DEFINE f == [i \in {k \in Open : rows[k].c[2] = w} |-> rows[i].lots]
<1>1. DOMAIN f = {}
  OBVIOUS
<1> HIDE DEF f
<1>2. SumFunction(f) = 0
  BY <1>1, SumEmpty DEF SumFunction
<1>. QED
  BY <1>2 DEF f, Sum

LEMMA SumsAre ==
  ASSUME NEW w
  PROVE  Sum(w) = SumOf(rows, w) /\ Sum(w)' = SumOf(rows', w)
  BY DEF Sum, SumOf, Open

LEMMA SumIsInt ==
  ASSUME Basis, NEW w
  PROVE  Sum(w) \in Int
<1>1. CASE Rows = {}
  BY <1>1, SumOfNone DEF Open
<1>2. ASSUME NEW z \in Rows
      PROVE  Sum(w) \in Int
  BY SumOneChanged, SumsAre DEF Basis
<1>. QED
  BY <1>1, <1>2

\* The bounds are integers; one position missed gives one round.
LEMMA Rounds ==
  ASSUME Basis
  PROVE  /\ Lots \in Nat /\ Lots # 0 /\ missed \in Nat
         /\ -Lots * missed \in Int /\ -Lots * (missed + 1) = -Lots * missed - Lots
         /\ -Lots * missed <= 0
<1>1. Lots \in Nat /\ Lots # 0 /\ missed \in Nat
  BY RollAssumption DEF Basis
<1>2. \A a, b \in Nat : -a * b \in Int /\ -a * (b + 1) = -a * b - a /\ -a * b <= 0
  OBVIOUS
<1>. QED
  BY <1>1, <1>2

LEMMA IdleStock ==
  ASSUME NEW r \in Runners, job'[r].at = "idle"
  PROVE  StockStage(r)' /\ \A w \in Wings : ~Spare(r, w)'
  BY DEF StockStage, Spare, Closes, Sells, Filling

\* When one request works, only what it does matters.
LEMMA StockStep ==
  ASSUME Alone, NEW r \in Runners, Busy(r), \A q \in Runners \ {r} : job'[q] = job[q],
         \A i \in Open' : rows'[i].lots < 0, StockStage(r)',
         \A w \in Wings : /\ Sum(w)' >= -Lots * (missed' + 1)
                          /\ Spare(r, w)' => Sum(w)' >= -Lots * missed'
  PROVE  StockShort'
<1>1. \A q \in Runners \ {r} : job'[q].at = "idle"
  BY DEF Alone, Busy
<1>2. \A q \in Runners \ {r} : StockStage(q)' /\ \A w \in Wings : ~Spare(q, w)'
  BY <1>1, IdleStock
<1>3. ASSUME NEW w \in Wings
      PROVE  StockHeld(w)'
  <2>1. Sum(w)' >= -Lots * (missed' + 1) /\ (Spare(r, w)' => Sum(w)' >= -Lots * missed')
    OBVIOUS
  <2>2. ASSUME NEW q \in Runners, Spare(q, w)'
        PROVE  Sum(w)' >= -Lots * missed'
    <3>1. q = r
      BY <1>2, <2>2
    <3>. QED
      BY <2>1, <2>2, <3>1
  <2>. QED
    BY <2>1, <2>2 DEF StockHeld
<1>4. \A q \in Runners : StockStage(q)'
  BY <1>2
<1>. QED
  BY <1>3, <1>4 DEF StockShort

LEMMA BeginStock ==
  ASSUME Basis, Serial, StockShort, ~Overlap, account = "stock",
         \/ \E r \in {"scheduler", "operator"}, k \in Strikes : BeginRoll(r, k)
         \/ \E i \in Rows : BeginExit(i)
  PROVE  StockShort'
<1>1. PICK r \in Runners :
        /\ \A q \in Runners : job[q] = Idle
        /\ \A q \in Runners \ {r} : job'[q] = job[q]
        /\ job'[r].at = "close" /\ ~job'[r].failed /\ ~job'[r].selling
        /\ job'[r].todo \subseteq Open
        /\ UNCHANGED <<account, rows, missed>>
  <2>1. CASE \E r \in {"scheduler", "operator"}, k \in Strikes : BeginRoll(r, k)
    <3>1. PICK r \in {"scheduler", "operator"}, k \in Strikes : BeginRoll(r, k)
      BY <2>1
    <3> DEFINE j == [Idle EXCEPT !.at = "close", !.strike = k, !.todo = Open]
    <3>2. j.at = "close" /\ j.todo = Open /\ ~j.failed /\ ~j.selling
      BY DEF Idle
    <3>3. job' = [job EXCEPT ![r] = j] /\ Quiet(r) /\ UNCHANGED <<account, rows, missed>>
      BY <3>1 DEF BeginRoll
    <3> HIDE DEF j
    <3>4. r \in Runners /\ job \in [Runners -> Job] /\ \A q \in Runners : job[q] = Idle
      BY <3>3 DEF Runners, Basis, Quiet
    <3>. QED
      BY <3>2, <3>3, <3>4
  <2>2. CASE \E i \in Rows : BeginExit(i)
    <3>1. PICK i \in Rows : BeginExit(i)
      BY <2>2
    <3> DEFINE j == [Idle EXCEPT !.at = "close", !.todo = {i}]
    <3>2. j.at = "close" /\ j.todo = {i} /\ ~j.failed /\ ~j.selling
      BY DEF Idle
    <3>3. job' = [job EXCEPT !["exit"] = j] /\ Quiet("exit") /\ UNCHANGED <<account, rows, missed>> /\ i \in Open
      BY <3>1 DEF BeginExit
    <3> HIDE DEF j
    <3>4. "exit" \in Runners /\ job \in [Runners -> Job] /\ \A q \in Runners : job[q] = Idle
      BY <3>3 DEF Runners, Basis, Quiet
    <3>. QED
      BY <3>2, <3>3, <3>4
  <2>. QED
    BY <2>1, <2>2
<1>2. \A q \in Runners \ {r} : job'[q].at = "idle"
  BY <1>1 DEF Idle
<1>3. \A q \in Runners \ {r} : StockStage(q)' /\ \A w \in Wings : ~Spare(q, w)'
  BY <1>2, IdleStock
<1>4. Open' = Open
  BY <1>1 DEF Open
<1>5. StockStage(r)' /\ \A w \in Wings : ~Spare(r, w)'
  BY <1>1, <1>4 DEF StockStage, Spare, Closes, Sells, Filling
<1>6. ASSUME NEW w \in Wings
      PROVE  StockHeld(w)'
  <2>1. Sum(w) >= -Lots * (missed + 1)
    BY DEF StockShort, StockHeld
  <2>2. Sum(w)' = Sum(w)
    BY <1>1, SumsAre
  <2>3. \A q \in Runners : ~Spare(q, w)'
    BY <1>3, <1>5
  <2>. QED
    BY <1>1, <2>1, <2>2, <2>3 DEF StockHeld
<1>7. (\A q \in Runners : StockStage(q)') /\ \A i \in Open' : rows'[i].lots < 0
  BY <1>1, <1>3, <1>4, <1>5 DEF StockShort
<1>. QED
  BY <1>6, <1>7 DEF StockShort

LEMMA CloseStock ==
  ASSUME Basis, Serial, StockShort, account = "stock", NEW r \in Runners, NEW i \in Rows, CloseNext(r, i)
  PROVE  StockShort'
<1> DEFINE j == job[r]
           rest == [j EXCEPT !.todo = @ \ {i}]
           fill == [rest EXCEPT !.at = "find", !.c = rows[i].c, !.order = -rows[i].lots]
           fail == [rest EXCEPT !.failed = TRUE]
<1>1. j \in Job /\ j.at = "close" /\ ~j.selling /\ i \in j.todo /\ job \in [Runners -> Job]
  BY DEF Basis, Fits, CloseNext
<1>2. UNCHANGED <<account, rows>> /\ Open' = Open /\ Unique
  BY DEF CloseNext, Serial, Open
<1>3. j.todo \subseteq Open
  BY <1>1 DEF StockShort, StockStage, Closes
<1>4. \/ job' = [job EXCEPT ![r] = fill] /\ UNCHANGED missed
      \/ job' = [job EXCEPT ![r] = fail] /\ missed' = missed + 1
  BY <1>1, <1>3 DEF CloseNext
<1>5. Alone /\ Busy(r) /\ \A q \in Runners \ {r} : job'[q] = job[q]
  BY <1>1, <1>4 DEF Serial, Busy
<1>6. /\ rest \in Job /\ rest.at = "close" /\ rest.todo = j.todo \ {i} /\ rest.failed = j.failed
      /\ ~rest.selling
  BY <1>1 DEF Job
<1>7. \A k \in Open' : rows'[k].lots < 0
  BY <1>2 DEF StockShort
<1>8. \A w : Sum(w)' = Sum(w)
  BY <1>2, SumsAre
<1> HIDE DEF rest
<1>9. CASE job' = [job EXCEPT ![r] = fill] /\ UNCHANGED missed
  <2>1. /\ fill.at = "find" /\ fill.todo = j.todo \ {i} /\ fill.failed = j.failed
        /\ ~fill.selling /\ fill.c = rows[i].c
    BY <1>6 DEF Job
  <2> HIDE DEF fill
  <2>2. job'[r] = fill
    BY <1>1, <1>9
  <2>3. \A k \in j.todo \ {i} : k \in Open /\ rows[k].c # rows[i].c
    BY <1>1, <1>2, <1>3 DEF Unique
  <2>4. StockStage(r)'
    BY <1>2, <2>1, <2>2, <2>3 DEF StockStage
  <2>5. ASSUME NEW w \in Wings
        PROVE  /\ Sum(w)' >= -Lots * (missed' + 1)
               /\ Spare(r, w)' => Sum(w)' >= -Lots * missed'
    <3>1. Spare(r, w)' => Spare(r, w)
      BY <1>1, <2>1, <2>2 DEF Spare, Closes, Sells, Filling
    <3>. QED
      BY <1>8, <1>9, <3>1 DEF StockShort, StockHeld
  <2>. QED
    BY <1>5, <1>7, <2>4, <2>5, StockStep
<1>10. CASE job' = [job EXCEPT ![r] = fail] /\ missed' = missed + 1
  <2>1. fail.at = "close" /\ fail.todo = j.todo \ {i} /\ ~fail.selling
    BY <1>6 DEF Job
  <2> HIDE DEF fail
  <2>2. job'[r] = fail
    BY <1>1, <1>10
  <2>3. StockStage(r)'
    BY <1>2, <1>3, <2>1, <2>2 DEF StockStage, Filling
  <2>4. ASSUME NEW w \in Wings
        PROVE  /\ Sum(w)' >= -Lots * (missed' + 1)
               /\ Spare(r, w)' => Sum(w)' >= -Lots * missed'
    <3>1. Sum(w) >= -Lots * (missed + 1) /\ Sum(w) \in Int
      BY SumIsInt DEF StockShort, StockHeld
    <3>2. -Lots * ((missed + 1) + 1) = -Lots * (missed + 1) - Lots /\ -Lots * (missed + 1) \in Int
          /\ Lots \in Nat
      BY Rounds
    <3>. QED
      BY <1>8, <1>10, <3>1, <3>2
  <2>. QED
    BY <1>5, <1>7, <2>3, <2>4, StockStep
<1>. QED
  BY <1>4, <1>9, <1>10

LEMMA RollStock ==
  ASSUME Basis, Serial, StockShort, account = "stock", NEW r \in Runners,
         AllClosed(r) \/ PriceBasket(r) \/ SellLeg(r) \/ Record(r)
  PROVE  StockShort'
<1> DEFINE j == job[r]
<1>1. j \in Job /\ Fits(r, j) /\ j.at \in {"close", "leg", "record"} /\ job \in [Runners -> Job]
  BY DEF Basis, AllClosed, PriceBasket, SellLeg, Record, StockShort, StockStage
<1>2. UNCHANGED <<account, rows, missed>> /\ Open' = Open
  BY DEF AllClosed, PriceBasket, SellLeg, Record, Open
<1>3. Busy(r) /\ Alone /\ \A q \in Runners \ {r} : job'[q] = job[q]
  BY <1>1 DEF Busy, Serial, AllClosed, PriceBasket, SellLeg, Record
<1>4. \A i \in Open' : rows'[i].lots < 0
  BY <1>2 DEF StockShort
<1>5. \A w : Sum(w)' = Sum(w)
  BY <1>2, SumsAre
<1>6. SUFFICES StockStage(r)' /\ \A w \in Wings : Spare(r, w)' => Sum(w) >= -Lots * missed
  <2>1. \A w \in Wings : Sum(w) >= -Lots * (missed + 1)
    BY DEF StockShort, StockHeld
  <2>. QED
    BY <1>2, <1>3, <1>4, <1>5, <1>6, <2>1, StockStep
<1>7. CASE job'[r] = Idle
  BY <1>7, IdleStock DEF Idle
<1>8. CASE AllClosed(r) /\ job'[r] # Idle
  <2>1. /\ r # "exit" /\ j.at = "close" /\ j.todo = {}
        /\ \E next \in {"leg", "record"} : job'[r] = [j EXCEPT !.at = next]
    BY <1>1, <1>8 DEF AllClosed, Reopening
  <2>2. job'[r].at \in {"leg", "record"}
    BY <1>1, <2>1 DEF Job
  <2>3. StockStage(r)'
    BY <2>2 DEF StockStage, Closes, Filling
  <2>4. ASSUME NEW w \in Wings
        PROVE  Sum(w) >= -Lots * missed
    <3>1. CASE j.failed
      <4>1. Spare(r, w)
        BY <2>1, <3>1 DEF Spare, Closes
      <4>. QED
        BY <4>1 DEF StockShort, StockHeld
    <3>2. CASE ~j.failed
      <4>1. Open = {}
        BY <2>1, <3>2 DEF Serial, Stage, ClosingStage
      <4>2. Sum(w) = 0
        BY <4>1, SumOfNone
      <4>. QED
        BY <4>2, Rounds
    <3>. QED
      BY <3>1, <3>2
  <2>. QED
    BY <2>3, <2>4
<1>9. CASE SellLeg(r)
  <2>0. j.at = "leg" /\ r # "exit"
    BY <1>1, <1>9 DEF SellLeg, Fits
  <2>1. CASE job'[r] = [j EXCEPT !.at = "find", !.selling = TRUE, !.c = <<j.strike, j.wing>>, !.order = -Lots]
    <3>1. job'[r].at = "find" /\ job'[r].selling /\ job'[r].wing = j.wing
      BY <1>1, <2>1 DEF Job
    <3>2. StockStage(r)'
      BY <3>1 DEF StockStage, Closes, Filling
    <3>3. \A w \in Wings : Spare(r, w)' => Spare(r, w)
      BY <2>0, <3>1 DEF Spare, Closes, Sells, Filling
    <3>. QED
      BY <3>2, <3>3 DEF StockShort, StockHeld
  <2>2. CASE job'[r] = NextLeg(j)
    <3>1. NextLeg(j).at = (IF j.wing = "CE" THEN "leg" ELSE "record") /\ (j.wing = "CE" => NextLeg(j).wing = "PE")
      BY <1>1, <2>0, NextLegFits
    <3>2. StockStage(r)'
      BY <2>2, <3>1 DEF StockStage, Closes, Filling
    <3>3. \A w \in Wings : Spare(r, w)' => Spare(r, w)
      BY <2>0, <2>2, <3>1 DEF Spare, Closes, Sells, Filling
    <3>. QED
      BY <3>2, <3>3 DEF StockShort, StockHeld
  <2>. QED
    BY <1>1, <1>9, <2>1, <2>2 DEF SellLeg
<1>10. CASE Record(r)
  BY <1>1, <1>7, <1>10 DEF Record
<1>11. ~PriceBasket(r)
  BY <1>1 DEF PriceBasket
<1>. QED
  BY <1>7, <1>8, <1>9, <1>10, <1>11

LEMMA FindStock ==
  ASSUME Basis, Serial, StockShort, account = "stock", NEW r \in Runners, FindExisting(r)
  PROVE  StockShort'
<1> DEFINE j     == job[r]
           found == {i \in Open : rows[i].c = j.c}
<1>1. j \in Job /\ Fits(r, j) /\ j.at = "find" /\ job \in [Runners -> Job] /\ j.seen = 0 /\ j.had = 0
  BY DEF Basis, FindExisting, Fits
<1>2. UNCHANGED <<account, rows, missed>> /\ Open' = Open
  BY DEF FindExisting, Open
<1>3. Busy(r) /\ Alone /\ \A q \in Runners \ {r} : job'[q] = job[q]
  BY <1>1 DEF Busy, Serial, FindExisting
<1>4. \/ job'[r] = [j EXCEPT !.at = "write"]
      \/ \E i \in found : job'[r] = [j EXCEPT !.at = "write", !.seen = i, !.had = rows[i].lots]
  BY <1>1 DEF FindExisting
<1> DEFINE Kept(k) == /\ k.at = "write" /\ k.c = j.c /\ k.todo = j.todo /\ k.failed = j.failed
                     /\ k.selling = j.selling /\ k.wing = j.wing
<1>5. /\ Kept(job'[r])
      /\ \/ job'[r].seen = 0 /\ job'[r].had = 0
         \/ \E i \in found : job'[r].seen = i /\ job'[r].had = rows[i].lots
  <2>1. ASSUME NEW i \in found, job'[r] = [j EXCEPT !.at = "write", !.seen = i, !.had = rows[i].lots]
        PROVE  Kept(job'[r]) /\ job'[r].seen = i /\ job'[r].had = rows[i].lots
    BY <1>1, <2>1 DEF Job
  <2>2. ASSUME job'[r] = [j EXCEPT !.at = "write"]
        PROVE  Kept(job'[r]) /\ job'[r].seen = 0 /\ job'[r].had = 0
    BY <1>1, <2>2 DEF Job
  <2> HIDE DEF Kept
  <2>. QED
    BY <1>4, <2>1, <2>2
<1>6. \A i \in Open : rows[i].lots < 0 /\ rows[i].lots \in Int
  BY DEF StockShort, Open, Basis, Row
<1>7. job'[r].had <= 0 /\ (job'[r].seen # 0 => job'[r].seen \in Open /\ job'[r].had = rows[job'[r].seen].lots)
  BY <1>5, <1>6
<1>8. StockStage(r)
  BY DEF StockShort
<1>9. StockStage(r)'
  BY <1>1, <1>2, <1>5, <1>7, <1>8 DEF StockStage, Closes, Filling
<1>10. ASSUME NEW w \in Wings
       PROVE  /\ Sum(w)' >= -Lots * (missed' + 1)
              /\ Spare(r, w)' => Sum(w)' >= -Lots * missed'
  <2>1. Spare(r, w)' => Spare(r, w)
    BY <1>1, <1>5 DEF Spare, Closes, Sells, Filling
  <2>2. Sum(w)' = Sum(w)
    BY <1>2, SumsAre
  <2>. QED
    BY <1>2, <2>1, <2>2 DEF StockShort, StockHeld
<1>. QED
  BY <1>2, <1>3, <1>6, <1>9, <1>10, StockStep

\* What a sale writes: a new position of the day's lots, or as many more on the one it read.
LEMMA SaleAdds ==
  ASSUME Basis, Serial, StockShort, account = "stock", NEW r \in Runners, NEW j, j = job[r],
         j.at = "write", j.selling, rows' = Written(j), j.seen = 0 => Unused # {}, Basis'
  PROVE  /\ \A i \in Open' : rows'[i].lots < 0
         /\ \A w \in Wings : Sum(w)' = Sum(w) - IF w = j.wing THEN Lots ELSE 0
<1>1. j \in Job /\ Fits(r, j) /\ Filling(j) /\ Lots \in Nat /\ Lots # 0
  BY Rounds DEF Basis, Filling
<1>2. j.c = <<j.strike, j.wing>> /\ j.order = -Lots
  BY <1>1 DEF Serial, Stage, SellingStage
<1>3. /\ \A i \in Open : rows[i].lots < 0 /\ rows[i].lots \in Int
      /\ j.had <= 0 /\ (j.seen # 0 => j.seen \in Open /\ j.had = rows[j.seen].lots)
      /\ j.seen \in Open => rows[j.seen].c = j.c
      /\ j.seen = 0 => j.had = 0
  <2>1. \A i \in Open : rows[i].lots < 0 /\ rows[i].lots \in Int
    BY DEF StockShort, Open, Basis, Row
  <2>2. j.had <= 0 /\ (j.seen # 0 => j.seen \in Open /\ j.had = rows[j.seen].lots)
    BY DEF StockShort, StockStage
  <2>3. 0 \notin Open
    BY DEF Open, Rows
  <2>. QED
    BY <2>1, <2>2, <2>3 DEF Serial, Stage, SellingStage
<1>4. rows \in [Rows -> Row] /\ rows' \in [Rows -> Row]
  BY DEF Basis
<1>5. \E z \in Rows : /\ \A i \in Rows \ {z} : rows'[i] = rows[i]
                      /\ rows'[z] # Free /\ rows'[z].c = j.c /\ rows'[z].lots < 0
                      /\ rows'[z].lots = (IF z \in Open THEN rows[z].lots ELSE 0) - Lots
                      /\ z \in Open => rows[z].c = j.c
  <2>1. CASE j.seen = 0
    <3>1. /\ NewRow \in Rows \ Open /\ rows'[NewRow] = [c |-> j.c, lots |-> j.order]
          /\ [c |-> j.c, lots |-> j.order] # Free /\ \A i \in Rows \ {NewRow} : rows'[i] = rows[i]
      BY <1>1, <2>1, WrittenRows
    <3>. QED
      BY <1>1, <1>2, <3>1
  <2>2. CASE j.seen # 0
    <3> DEFINE z == j.seen
    <3>1. z \in Open /\ z \in Rows /\ j.had = rows[z].lots /\ rows[z].c = j.c /\ rows[z] \in Row
      BY <1>3, <1>4, <2>2 DEF Open
    <3>2. j.had + j.order = rows[z].lots - Lots /\ rows[z].lots < 0 /\ rows[z].lots \in Int
      BY <1>1, <1>2, <1>3, <3>1
    <3>3. j.had + j.order < 0 /\ j.had + j.order \in Int
      BY <1>1, <3>2
    <3>4. rows' = [rows EXCEPT ![z] = [@ EXCEPT !.lots = j.had + j.order]]
      <4>1. j.had + j.order # 0 /\ j.seen # 0 /\ j.seen \in Open
        BY <2>2, <3>1, <3>3
      <4>2. rows' = [rows EXCEPT ![j.seen] = IF j.had + j.order = 0 THEN Free ELSE [@ EXCEPT !.lots = j.had + j.order]]
        BY <4>1 DEF Written
      <4>. QED
        BY <4>1, <4>2
    <3> HIDE DEF z
    <3>5. rows'[z] = [rows[z] EXCEPT !.lots = j.had + j.order] /\ \A i \in Rows \ {z} : rows'[i] = rows[i]
      BY <1>4, <3>1, <3>4
    <3>6. rows'[z].lots = j.had + j.order /\ rows'[z].c = j.c
      BY <3>1, <3>5 DEF Row
    <3>7. rows'[z] # Free
      BY <3>3, <3>6 DEF Free
    <3>. QED
      BY <3>1, <3>2, <3>3, <3>5, <3>6, <3>7
  <2>. QED
    BY <2>1, <2>2
<1>6. PICK z \in Rows : /\ \A i \in Rows \ {z} : rows'[i] = rows[i]
                        /\ rows'[z] # Free /\ rows'[z].c = j.c /\ rows'[z].lots < 0
                        /\ rows'[z].lots = (IF z \in Open THEN rows[z].lots ELSE 0) - Lots
                        /\ z \in Open => rows[z].c = j.c
  BY <1>5
<1>7. \A i \in Open' : rows'[i].lots < 0
  BY <1>3, <1>6 DEF Open
<1>8. ASSUME NEW w \in Wings
      PROVE  Sum(w)' = Sum(w) - IF w = j.wing THEN Lots ELSE 0
  <2>1. Sum(w) \in Int /\ Sum(w)' = Sum(w) - ShareOf(rows, z, w) + ShareOf(rows', z, w)
    BY <1>4, <1>6, SumOneChanged, SumsAre
  <2>2. j.c[2] = j.wing
    BY <1>2
  <2>3. rows[z] # Free <=> z \in Open
    BY DEF Open
  <2>4. CASE w = j.wing
    <3>1. ShareOf(rows, z, w) = (IF z \in Open THEN rows[z].lots ELSE 0)
      BY <1>6, <2>2, <2>3, <2>4 DEF ShareOf
    <3>2. ShareOf(rows', z, w) = ShareOf(rows, z, w) - Lots
      BY <1>6, <2>2, <2>4, <3>1 DEF ShareOf
    <3>3. ShareOf(rows, z, w) \in Int
      BY <1>3, <3>1
    <3>. QED
      BY <1>1, <2>1, <2>4, <3>2, <3>3
  <2>5. CASE w # j.wing
    <3>1. ShareOf(rows, z, w) = 0 /\ ShareOf(rows', z, w) = 0
      BY <1>6, <2>2, <2>3, <2>5 DEF ShareOf
    <3>. QED
      BY <2>1, <2>5, <3>1
  <2>. QED
    BY <2>4, <2>5
<1>. QED
  BY <1>7, <1>8

LEMMA WriteStock ==
  ASSUME Basis, Serial, StockShort, account = "stock", NEW r \in Runners, Write(r), Basis'
  PROVE  StockShort'
<1> DEFINE j == job[r]
<1>1. j \in Job /\ Fits(r, j) /\ j.at = "write" /\ Filling(j) /\ job \in [Runners -> Job]
  BY DEF Basis, Write, Filling
<1>2. Busy(r) /\ Alone /\ (\A q \in Runners \ {r} : job'[q] = job[q]) /\ UNCHANGED <<account, missed>>
  BY <1>1 DEF Busy, Serial, Write
<1>3. StockStage(r) /\ \A i \in Open : rows[i].lots < 0 /\ rows[i].lots \in Int
  BY DEF StockShort, Open, Basis, Row
<1>4. CASE /\ ~j.selling
           /\ job'[r] = [Read(j) EXCEPT !.at = "close", !.closed = @ + 1]
           /\ \E i \in Open : rows[i].c = j.c /\ Open' = Open \ {i} /\ \A k \in Open' : rows'[k] = rows[k]
  <2>1. PICK i \in Open : rows[i].c = j.c /\ Open' = Open \ {i} /\ \A k \in Open' : rows'[k] = rows[k]
    BY <1>4
  <2>2. job'[r].at = "close" /\ job'[r].failed = j.failed /\ job'[r].todo = j.todo /\ ~job'[r].selling
    BY <1>1, <1>4, ReadFits DEF Job
  <2>3. \A k \in Open' : rows'[k].lots < 0
    BY <1>3, <2>1
  <2>4. StockStage(r)'
    <3>1. \A k \in j.todo : k \in Open'
      BY <1>1, <1>3, <1>4, <2>1 DEF StockStage, Closes
    <3>. QED
      BY <2>2, <3>1 DEF StockStage, Filling
  <2>5. ASSUME NEW w \in Wings
        PROVE  /\ Sum(w)' >= -Lots * (missed' + 1)
               /\ Spare(r, w)' => Sum(w)' >= -Lots * missed'
    <3>1. i \in Rows /\ rows[i] # Free /\ rows'[i] = Free
      BY <2>1 DEF Open
    <3>2. \A k \in Rows \ {i} : rows'[k] = rows[k]
      BY <2>1 DEF Open
    <3>3. rows \in [Rows -> Row] /\ rows' \in [Rows -> Row]
      BY DEF Basis
    <3>4. Sum(w) \in Int /\ Sum(w)' = Sum(w) - ShareOf(rows, i, w) + ShareOf(rows', i, w)
      BY <3>1, <3>2, <3>3, SumOneChanged, SumsAre
    <3>5. ShareOf(rows, i, w) <= 0 /\ ShareOf(rows, i, w) \in Int /\ ShareOf(rows', i, w) = 0
      BY <1>3, <3>1 DEF ShareOf
    <3>6. Sum(w)' >= Sum(w) /\ Sum(w)' \in Int
      BY <3>4, <3>5
    <3>7. -Lots * missed \in Int /\ -Lots * (missed + 1) \in Int
      BY Rounds
    <3>8. Spare(r, w)' => Spare(r, w)
      BY <1>1, <1>4, <2>2 DEF Spare, Closes, Sells, Filling
    <3>9. Sum(w) >= -Lots * (missed + 1) /\ (Spare(r, w) => Sum(w) >= -Lots * missed)
      BY DEF StockShort, StockHeld
    <3> HIDE DEF j
    <3>. QED
      BY <1>2, <3>4, <3>6, <3>7, <3>8, <3>9
  <2>. QED
    BY <1>2, <2>3, <2>4, <2>5, StockStep
<1>5. CASE j.selling /\ job'[r] = NextLeg(j)
  <2>1. /\ NextLeg(j).at = (IF j.wing = "CE" THEN "leg" ELSE "record")
        /\ (j.wing = "CE" => NextLeg(j).wing = "PE") /\ r # "exit"
    <3>1. r # "exit"
      BY <1>1, <1>5 DEF Fits
    <3>. QED
      BY <1>1, <1>5, <3>1, NextLegFits
  <2>2. StockStage(r)'
    BY <1>5, <2>1 DEF StockStage, Closes, Filling
  <2>3. \A w \in Wings : Spare(r, w)' => j.wing = "CE" /\ w = "PE"
    BY <1>5, <2>1 DEF Spare, Closes, Sells, Filling
  <2>4. Spare(r, j.wing) /\ (j.wing = "CE" => \A w \in Wings : Spare(r, w))
    BY <1>1, <1>5, <2>1 DEF Spare, Sells, Job, Wings
  <2>5. /\ \A i \in Open' : rows'[i].lots < 0
        /\ \/ \A w \in Wings : Sum(w)' = Sum(w)
           \/ \A w \in Wings : Sum(w)' = Sum(w) - IF w = j.wing THEN Lots ELSE 0
    <3>1. CASE UNCHANGED rows
      BY <1>3, <3>1, SumsAre DEF Open
    <3>2. CASE rows' = Written(j) /\ (j.seen = 0 => Unused # {})
      BY <1>1, <1>5, <3>2, SaleAdds
    <3>. QED
      BY <3>1, <3>2 DEF Write
  <2>6. ASSUME NEW w \in Wings
        PROVE  /\ Sum(w)' >= -Lots * (missed' + 1)
               /\ Spare(r, w)' => Sum(w)' >= -Lots * missed'
    <3>1. Sum(w) >= -Lots * (missed + 1) /\ (Spare(r, w) => Sum(w) >= -Lots * missed) /\ Sum(w) \in Int
      BY SumIsInt DEF StockShort, StockHeld
    <3>2. /\ -Lots * missed \in Int /\ -Lots * (missed + 1) = -Lots * missed - Lots /\ Lots \in Nat
      BY Rounds
    <3>3. Spare(r, w)' => w # j.wing /\ Spare(r, w)
      BY <2>3, <2>4
    <3> DEFINE room == -Lots * missed
               rest == -Lots * (missed + 1)
    <3>4. /\ room \in Int /\ rest = room - Lots /\ Lots \in Nat /\ Sum(w) \in Int
          /\ Sum(w) >= rest /\ (Spare(r, w) => Sum(w) >= room)
      BY <3>1, <3>2
    <3> HIDE DEF room, rest, j
    <3>5. Sum(w)' >= rest /\ (Spare(r, w)' => Sum(w)' >= room)
      <4>1. CASE Sum(w)' = Sum(w)
        BY <3>3, <3>4, <4>1
      <4>2. CASE Sum(w)' = Sum(w) - IF w = j.wing THEN Lots ELSE 0
        BY <2>4, <3>3, <3>4, <4>2
      <4>. QED
        BY <2>5, <4>1, <4>2
    <3>. QED
      BY <1>2, <3>5 DEF room, rest
  <2>. QED
    BY <1>2, <2>2, <2>5, <2>6, StockStep
<1>. QED
  BY <1>4, <1>5, WriteEffect

LEMMA StockHolds ==
  ASSUME ~Overlap
  PROVE  Spec => []StockShort
<1>1. Basis /\ Init => StockShort
  <2> SUFFICES ASSUME Basis, Init PROVE StockShort
    OBVIOUS
  <2>1. Open = {} /\ missed = 0 /\ \A r \in Runners : job[r] = Idle
    BY DEF Init, Open
  <2>2. \A w : Sum(w) = 0
    BY <2>1, SumOfNone
  <2>3. -Lots * missed <= 0 /\ -Lots * (missed + 1) <= 0
    BY Rounds
  <2>. QED
    BY <2>1, <2>2, <2>3 DEF StockShort, StockStage, StockHeld, Spare, Closes, Sells, Filling, Idle
<1>2. Basis /\ Basis' /\ Serial /\ StockShort /\ [Next]_vars => StockShort'
  <2> SUFFICES ASSUME Basis, Basis', Serial, StockShort, [Next]_vars PROVE StockShort'
    OBVIOUS
  <2>0. account' = account
    <3>1. ASSUME NEW r \in Runners, Step(r)
          PROVE  account' = account
      BY <3>1 DEF Step, CloseNext, AllClosed, PriceBasket, SellLeg, FindExisting, Write, Record
    <3>. QED
      BY <3>1 DEF Next, vars, BeginRoll, BeginExit, Crash, Tick
  <2>1. SUFFICES ASSUME account = "stock"
                 PROVE  StockShort'
    BY <2>0 DEF StockShort
  <2>2. CASE UNCHANGED <<account, rows, job, missed>>
    <3>1. Open' = Open /\ \A w : Sum(w)' = Sum(w)
      BY <2>2, SumsAre DEF Open
    <3>2. ASSUME NEW r \in Runners
          PROVE  StockStage(r)' /\ \A w \in Wings : Spare(r, w)' => Spare(r, w)
      <4>1. StockStage(r)
        BY <2>1 DEF StockShort
      <4>2. StockStage(r)'
        BY <2>2, <3>1, <4>1 DEF StockStage, Closes, Filling
      <4>3. \A w \in Wings : Spare(r, w)' => Spare(r, w)
        BY <2>2 DEF Spare, Closes, Sells, Filling
      <4>. QED
        BY <4>2, <4>3
    <3>3. ASSUME NEW w \in Wings
          PROVE  StockHeld(w)'
      BY <2>1, <2>2, <3>1, <3>2 DEF StockShort, StockHeld
    <3>. QED
      BY <2>1, <2>2, <3>1, <3>2, <3>3 DEF StockShort
  <2>3. CASE Crash
    <3>1. UNCHANGED <<account, rows, missed>> /\ Open' = Open /\ \A r \in Runners : job'[r].at = "idle"
      BY <2>3 DEF Crash, Open, Idle
    <3>2. \A r \in Runners : StockStage(r)' /\ \A w \in Wings : ~Spare(r, w)'
      BY <3>1, IdleStock
    <3>3. ASSUME NEW w \in Wings
          PROVE  StockHeld(w)'
      <4>1. Sum(w)' = Sum(w)
        BY <3>1, SumsAre
      <4>. QED
        BY <2>1, <3>1, <3>2, <4>1 DEF StockShort, StockHeld
    <3>. QED
      BY <2>1, <3>1, <3>2, <3>3 DEF StockShort
  <2>4. CASE \E r \in Runners : Step(r)
    BY <2>1, <2>4, CloseStock, RollStock, FindStock, WriteStock DEF Step
  <2>. QED
    BY <2>1, <2>2, <2>3, <2>4, BeginStock DEF Next, vars, Tick
<1>. QED
  BY <1>1, <1>2, BasisHolds, SerialHolds, PTL DEF Spec

\* For any strikes and lots, and whatever fails, stops or is repeated: if one request at a time
\* works on an account, nothing is ever long, and each wing is short the day's lots at most, plus
\* one round for each position a stock roll could not close.
THEOREM NothingDoubles ==
  ASSUME ~Overlap
  PROVE  Spec => []NoDoubling
<1>1. Basis /\ IndexShort /\ StockShort => NoDoubling
  <2> SUFFICES ASSUME Basis, IndexShort, StockShort PROVE NoDoubling
    OBVIOUS
  <2>1. Lots \in Nat /\ missed \in Nat /\ account \in {"index", "stock"}
    BY RollAssumption DEF Basis
  <2>2. ASSUME NEW i \in Rows
        PROVE  rows[i].lots <= 0
    <3>1. CASE i \in Open
      <4>1. rows[i].lots \in Int
        BY DEF Basis, Row
      <4>. QED
        BY <2>1, <3>1, <4>1 DEF IndexShort, StockShort
    <3>2. CASE i \notin Open
      BY <3>2 DEF Open, Free
    <3>. QED
      BY <3>1, <3>2
  <2>3. ASSUME NEW w \in Wings
        PROVE  Sum(w) >= -Lots * (1 + IF account = "index" THEN 0 ELSE missed)
    <3>1. CASE account = "index"
      <4>1. Sum(w) \in {0, -Lots}
        BY <3>1, SumOfOne DEF IndexShort
      <4>2. -Lots * (1 + IF account = "index" THEN 0 ELSE missed) = -Lots
        BY <2>1, <3>1
      <4>. QED
        BY <2>1, <4>1, <4>2
    <3>2. CASE account = "stock"
      <4>1. Sum(w) >= -Lots * (missed + 1)
        BY <3>2 DEF StockShort, StockHeld
      <4>2. 1 + (IF account = "index" THEN 0 ELSE missed) = missed + 1
        BY <2>1, <3>2
      <4>. QED
        BY <4>1, <4>2
    <3>. QED
      BY <2>1, <3>1, <3>2
  <2>. QED
    BY <2>2, <2>3 DEF NoDoubling
<1>. QED
  BY <1>1, BasisHolds, ShortHolds, StockHolds, PTL
=============================================================================
