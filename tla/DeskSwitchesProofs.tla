-------------------------- MODULE DeskSwitchesProofs -------------------------
(***************************************************************************)
(* Theorems about DeskSwitches, for any modules, desks, control pages and  *)
(* any CACHE_TTL.                                                          *)
(***************************************************************************)
EXTENDS DeskSwitches, TLAPS

-----------------------------------------------------------------------------
(* TypeOK                                                                  *)

\* Every route writes a sequence of documents.
LEMMA CallsAreDocs == Calls \subseteq Seq(Module \X BOOLEAN)
<1> USE SwitchAssumption
<1>0. Len(Registry) \in Nat /\ DOMAIN Registry = 1..Len(Registry)
  OBVIOUS
<1>1. \A m \in Module, on \in BOOLEAN : SetModule(m, on) \in Seq(Module \X BOOLEAN)
  BY DEF SetModule
<1>2. ASSUME NEW f, \A i \in DOMAIN Registry : f[i] \in Module \X BOOLEAN,
             f = [i \in DOMAIN Registry |-> f[i]]
      PROVE  f \in Seq(Module \X BOOLEAN)
  <2>1. f \in [1..Len(Registry) -> Module \X BOOLEAN]
    BY <1>0, <1>2
  <2>. QED
    BY <1>0, <2>1
<1>3. \A i \in DOMAIN Registry : Registry[i] \in Module
  BY DEF Module
<1>5. ASSUME NEW on \in BOOLEAN PROVE SetAll(on) \in Seq(Module \X BOOLEAN)
  BY <1>2, <1>3 DEF SetAll
<1>6. ASSUME NEW m \in Module PROVE SetOnly(m) \in Seq(Module \X BOOLEAN)
  BY <1>2, <1>3 DEF SetOnly
<1>4. SetMany \subseteq Seq(Module \X BOOLEAN)
  BY <1>0 DEF SetMany, Dicts
<1>. QED
  BY <1>1, <1>4, <1>5, <1>6 DEF Calls

\* Whoever gets an answer works or rests, and its lookup is over.
LEMMA AnswerTypes ==
  ASSUME TypeOK, NEW p \in Party, NEW states, AnswerFrom(p, states)
  PROVE  /\ at' \in [Party -> Labels] /\ snap' \in [Party -> States \cup {None}]
         /\ age' \in [Party -> Ages] /\ at'[p] \in {"idle", "work"}
         /\ \A q \in Party : at'[q] = "loaded" => at[q] = "loaded" /\ snap'[q] = snap[q] /\ age'[q] = age[q]
<1>1. Then(p, p \in Desk /\ Says(states, Of[p])) \in {"idle", "work"}
  BY DEF Then
<1>2. 0 \in Ages
  BY SwitchAssumption DEF Ages, Old
<1>3. at' \in [Party -> Labels] /\ at'[p] \in {"idle", "work"}
  BY <1>1 DEF AnswerFrom, TypeOK, Labels
<1>4. snap' \in [Party -> States \cup {None}] /\ age' \in [Party -> Ages]
  BY <1>2 DEF AnswerFrom, TypeOK
<1>5. ASSUME NEW q \in Party, at'[q] = "loaded"
      PROVE  at[q] = "loaded" /\ snap'[q] = snap[q] /\ age'[q] = age[q]
  <2>1. q # p
    BY <1>3, <1>5
  <2>. QED
    BY <1>5, <2>1 DEF AnswerFrom, TypeOK
<1>. QED
  BY <1>3, <1>4, <1>5

\* The same of a lookup, whether it hits the copy or goes to the database.
LEMMA LookupTypes ==
  ASSUME TypeOK, NEW p \in Party, Lookup(p)
  PROVE  /\ at' \in [Party -> Labels] /\ snap' \in [Party -> States \cup {None}]
         /\ age' \in [Party -> Ages]
         /\ \A q \in Party : at'[q] = "loaded" => at[q] = "loaded" /\ snap'[q] = snap[q] /\ age'[q] = age[q]
<1>1. CASE Valid
  BY <1>1, AnswerTypes DEF Lookup
<1>2. CASE ~Valid
  BY <1>2 DEF Lookup, TypeOK, Labels
<1>. QED
  BY <1>1, <1>2

\* Ages stay ages.
LEMMA OlderIsAge == \A n \in Ages : Older(n) \in Ages /\ n <= Older(n)
  BY SwitchAssumption DEF Older, Ages, Old

\* A written document leaves states and ages.
LEMMA PutTypes ==
  ASSUME TypeOK, NEW doc \in Module \X BOOLEAN, Put(doc)
  PROVE  /\ store' \in States /\ since' \in [Module -> Ages]
         /\ \A m \in Module : (store'[m] = store[m] /\ since'[m] = since[m]) \/ since'[m] = 0
<1>1. doc[1] \in Module /\ doc[2] \in BOOLEAN /\ 0 \in Ages
  BY SwitchAssumption DEF Ages, Old
<1>2. store' \in States
  BY <1>1 DEF Put, TypeOK, States
<1>3. CASE store[doc[1]] = doc[2]
  BY <1>1, <1>2, <1>3 DEF Put, TypeOK, States
<1>4. CASE store[doc[1]] # doc[2]
  BY <1>1, <1>2, <1>4 DEF Put, TypeOK, States
<1>. QED
  BY <1>3, <1>4

\* Every step keeps the types.
LEMMA TypeStep == TypeOK /\ [Next]_vars => TypeOK'
<1> SUFFICES ASSUME TypeOK, [Next]_vars PROVE TypeOK'
  OBVIOUS
<1> USE DEF copy, look
<1>0. Old \in Ages /\ 0 \in Ages
  BY SwitchAssumption DEF Ages, Old
<1>1. ASSUME NEW d \in Desk, Begin(d) PROVE TypeOK'
  BY <1>1, LookupTypes DEF Begin, TypeOK, Party
<1>2. ASSUME NEW d \in Desk, CycleEnds(d) PROVE TypeOK'
  BY <1>2 DEF CycleEnds, TypeOK, Labels, Party
<1>3. ASSUME NEW p \in Party, Read(p) PROVE TypeOK'
  <2>1. at' \in [Party -> Labels] /\ snap' \in [Party -> States \cup {None}]
    BY <1>3 DEF Read, TypeOK, Labels
  <2>2. store # None
    BY SwitchAssumption DEF TypeOK, States
  <2>3. \A q \in Party : at'[q] = "loaded" => snap'[q] # None
    BY <1>3, <2>2 DEF Read, TypeOK
  <2>. QED
    BY <1>3, <2>1, <2>3 DEF Read, TypeOK
<1>4. ASSUME NEW p \in Party, Loaded(p) PROVE TypeOK'
  <2>1. cache' \in States \cup {None} /\ cacheAge' \in Ages
    BY <1>4 DEF Loaded, TypeOK
  <2>. QED
    BY <1>4, <2>1, AnswerTypes DEF Loaded, TypeOK
<1>5. ASSUME NEW p \in Party, LoadFails(p) PROVE TypeOK'
  BY <1>5, AnswerTypes DEF LoadFails, TypeOK
<1>6. ASSUME NEW a \in Admin, View(a) PROVE TypeOK'
  BY <1>6, LookupTypes DEF View, TypeOK, Party
<1>7. ASSUME NEW a \in Admin, Call(a) PROVE TypeOK'
  <2>1. todo' \in [Admin -> Seq(Module \X BOOLEAN)]
    BY <1>7, CallsAreDocs DEF Call, TypeOK
  <2>2. at' \in [Party -> Labels] /\ \A q \in Party : at'[q] = "loaded" => at[q] = "loaded"
    BY <1>7 DEF Call, TypeOK, Labels, Party
  <2>. QED
    BY <1>7, <2>1, <2>2 DEF Call, TypeOK
<1>8. ASSUME NEW a \in Admin, WriteDoc(a) PROVE TypeOK'
  <2>1. todo[a] \in Seq(Module \X BOOLEAN) /\ todo[a] # <<>>
    BY <1>8 DEF WriteDoc, TypeOK
  <2>2. Head(todo[a]) \in Module \X BOOLEAN /\ Tail(todo[a]) \in Seq(Module \X BOOLEAN)
    BY <2>1
  <2>3. todo' \in [Admin -> Seq(Module \X BOOLEAN)]
    BY <1>8, <2>2 DEF WriteDoc, TypeOK
  <2>. QED
    BY <1>8, <2>2, <2>3, PutTypes DEF WriteDoc, TypeOK
<1>9. ASSUME NEW a \in Admin, WriteFails(a) PROVE TypeOK'
  <2>1. todo[a] \in Seq(Module \X BOOLEAN) /\ todo[a] # <<>>
    BY <1>9 DEF WriteFails, TypeOK
  <2>2. Head(todo[a]) \in Module \X BOOLEAN
    BY <2>1
  <2>3. store' \in States /\ since' \in [Module -> Ages]
    BY <1>9, <2>2, PutTypes DEF WriteFails, TypeOK
  <2>4. todo' \in [Admin -> Seq(Module \X BOOLEAN)]
    BY <1>9 DEF WriteFails, TypeOK
  <2>5. at' \in [Party -> Labels] /\ \A q \in Party : at'[q] = "loaded" => at[q] = "loaded"
    BY <1>9 DEF WriteFails, TypeOK, Labels, Party
  <2>. QED
    BY <1>9, <2>3, <2>4, <2>5 DEF WriteFails, TypeOK
<1>10. ASSUME NEW a \in Admin, Invalidate(a) PROVE TypeOK'
  <2>1. at' \in [Party -> Labels] /\ \A q \in Party : at'[q] = "loaded" => at[q] = "loaded"
    BY <1>10 DEF Invalidate, TypeOK, Labels, Party
  <2>. QED
    BY <1>0, <1>10, <2>1 DEF Invalidate, TypeOK
<1>11. ASSUME Tick PROVE TypeOK'
  <2>1. cacheAge' \in Ages /\ since' \in [Module -> Ages] /\ age' \in [Party -> Ages]
    BY <1>11, OlderIsAge DEF Tick, TypeOK
  <2>. QED
    BY <1>11, <2>1 DEF Tick, TypeOK
<1>12. CASE Outage \/ Recover
  BY <1>12 DEF Outage, Recover, TypeOK
<1>13. CASE Restart
  <2>1. at' \in [Party -> Labels] /\ age' \in [Party -> Ages] /\ restarts' \in 0..MaxRestarts
    BY <1>0, <1>13, SwitchAssumption DEF Restart, TypeOK, Labels
  <2>2. todo' \in [Admin -> Seq(Module \X BOOLEAN)]
    BY <1>13 DEF Restart
  <2>. QED
    BY <1>0, <1>13, <2>1, <2>2 DEF Restart, TypeOK
<1>14. CASE UNCHANGED vars
  BY <1>14 DEF vars, TypeOK
<1>. QED
  BY <1>1, <1>2, <1>3, <1>4, <1>5, <1>6, <1>7, <1>8, <1>9, <1>10, <1>11, <1>12, <1>13, <1>14 DEF Next

\* The process starts with types.
LEMMA TypeInit == Init => TypeOK
<1> SUFFICES ASSUME Init PROVE TypeOK
  OBVIOUS
<1>1. Old \in Ages /\ 0 \in Ages /\ 0 \in 0..MaxRestarts
  BY SwitchAssumption DEF Ages, Old
<1>. QED
  BY <1>1 DEF Init, TypeOK, Labels

\* The types of the switches, the copy and the lookups, at all times.
THEOREM SwitchTypes == Spec => []TypeOK
<1>. QED
  BY TypeInit, TypeStep, PTL DEF Spec

-----------------------------------------------------------------------------
(* What is handed out is recent.                                           *)

Inv == TypeOK /\ CopyIsRecent

\* States that were recent stay so while the ages do not fall and no switch changes.
LEMMA FreshStays ==
  ASSUME TypeOK, NEW s \in States, NEW n \in Ages, NEW k \in Ages, Fresh(s, n), n <= k,
         \A m \in Module : (store'[m] = store[m] /\ since'[m] = since[m]) \/ since'[m] = 0
  PROVE  \A m \in Module : s[m] = store'[m] \/ since'[m] <= k
<1> SUFFICES ASSUME NEW m \in Module PROVE s[m] = store'[m] \/ since'[m] <= k
  OBVIOUS
<1>1. s[m] = store[m] \/ since[m] <= n
  BY DEF Fresh
<1>2. since[m] \in Nat /\ n \in Nat /\ k \in Nat
  BY SwitchAssumption DEF TypeOK, Ages, Old
<1>. QED
  BY <1>1, <1>2

\* If the copy and the lookups are only taken over or dropped, they stay recent.
LEMMA RecentKept ==
  ASSUME TypeOK, CopyIsRecent,
         \A m \in Module : (store'[m] = store[m] /\ since'[m] = since[m]) \/ since'[m] = 0,
         \/ cache' = None
         \/ cache' = cache /\ cacheAge' = cacheAge
         \/ \E p \in Party : at[p] = "loaded" /\ cache' = snap[p] /\ cacheAge' = age[p],
         \A q \in Party : at'[q] = "loaded" => at[q] = "loaded" /\ snap'[q] = snap[q] /\ age'[q] = age[q]
  PROVE  CopyIsRecent'
<1>1. ASSUME NEW q \in Party, at[q] = "loaded"
      PROVE  \A m \in Module : snap[q][m] = store'[m] \/ since'[m] <= age[q]
  <2>1. snap[q] \in States /\ age[q] \in Ages /\ Fresh(snap[q], age[q])
    BY <1>1 DEF TypeOK, CopyIsRecent
  <2>2. age[q] <= age[q]
    BY <2>1, SwitchAssumption DEF Ages, Old
  <2>. QED
    BY <2>1, <2>2, FreshStays
<1>2. ASSUME cache # None
      PROVE  \A m \in Module : cache[m] = store'[m] \/ since'[m] <= cacheAge
  <2>1. cache \in States /\ cacheAge \in Ages /\ Fresh(cache, cacheAge)
    BY <1>2 DEF TypeOK, CopyIsRecent
  <2>2. cacheAge <= cacheAge
    BY <2>1, SwitchAssumption DEF Ages, Old
  <2>. QED
    BY <2>1, <2>2, FreshStays
<1>3. (\A p \in Party : at[p] = "loaded" => Fresh(snap[p], age[p]))'
  BY <1>1 DEF Fresh
<1>4. (cache # None => Fresh(cache, cacheAge))'
  BY <1>1, <1>2 DEF Fresh
<1>. QED
  BY <1>3, <1>4 DEF CopyIsRecent

\* Every step keeps what is handed out recent.
LEMMA RecentStep == Inv /\ [Next]_vars => CopyIsRecent'
<1> SUFFICES ASSUME TypeOK, CopyIsRecent, [Next]_vars PROVE CopyIsRecent'
  BY DEF Inv
<1> USE DEF copy, look
<1>1. ASSUME NEW d \in Desk, Begin(d) PROVE CopyIsRecent'
  BY <1>1, LookupTypes, RecentKept DEF Begin, Party
<1>2. ASSUME NEW d \in Desk, CycleEnds(d) PROVE CopyIsRecent'
  <2>1. \A q \in Party : at'[q] = "loaded" => at[q] = "loaded"
    BY <1>2 DEF CycleEnds, TypeOK, Party
  <2>. QED
    BY <1>2, <2>1, RecentKept DEF CycleEnds
<1>3. ASSUME NEW p \in Party, Read(p) PROVE CopyIsRecent'
  <2>1. (cache # None => Fresh(cache, cacheAge))'
    BY <1>3 DEF Read, CopyIsRecent, Fresh
  <2>2. ASSUME NEW q \in Party, at'[q] = "loaded" PROVE Fresh(snap[q], age[q])'
    <3>1. CASE q = p
      BY <1>3, <3>1 DEF Read, TypeOK, Fresh
    <3>2. CASE q # p
      BY <1>3, <2>2, <3>2 DEF Read, TypeOK, CopyIsRecent, Fresh
    <3>. QED
      BY <3>1, <3>2
  <2>. QED
    BY <2>1, <2>2 DEF CopyIsRecent
<1>4. ASSUME NEW p \in Party, Loaded(p) PROVE CopyIsRecent'
  BY <1>4, AnswerTypes, RecentKept DEF Loaded
<1>5. ASSUME NEW p \in Party, LoadFails(p) PROVE CopyIsRecent'
  BY <1>5, AnswerTypes, RecentKept DEF LoadFails
<1>6. ASSUME NEW a \in Admin, View(a) PROVE CopyIsRecent'
  BY <1>6, LookupTypes, RecentKept DEF View, Party
<1>7. ASSUME NEW a \in Admin, Call(a) PROVE CopyIsRecent'
  <2>1. \A q \in Party : at'[q] = "loaded" => at[q] = "loaded"
    BY <1>7 DEF Call, TypeOK, Party
  <2>. QED
    BY <1>7, <2>1, RecentKept DEF Call
<1>8. ASSUME NEW a \in Admin, WriteDoc(a) PROVE CopyIsRecent'
  <2>1. Head(todo[a]) \in Module \X BOOLEAN
    BY <1>8 DEF WriteDoc, TypeOK
  <2>. QED
    BY <1>8, <2>1, PutTypes, RecentKept DEF WriteDoc
<1>9. ASSUME NEW a \in Admin, WriteFails(a) PROVE CopyIsRecent'
  <2>1. Head(todo[a]) \in Module \X BOOLEAN
    BY <1>9 DEF WriteFails, TypeOK
  <2>2. \A m \in Module : (store'[m] = store[m] /\ since'[m] = since[m]) \/ since'[m] = 0
    BY <1>9, <2>1, PutTypes DEF WriteFails
  <2>3. \A q \in Party : at'[q] = "loaded" => at[q] = "loaded"
    BY <1>9 DEF WriteFails, TypeOK, Party
  <2>. QED
    BY <1>9, <2>2, <2>3, RecentKept DEF WriteFails
<1>10. ASSUME NEW a \in Admin, Invalidate(a) PROVE CopyIsRecent'
  <2>1. \A q \in Party : at'[q] = "loaded" => at[q] = "loaded"
    BY <1>10 DEF Invalidate, TypeOK, Party
  <2>. QED
    BY <1>10, <2>1, RecentKept DEF Invalidate
<1>11. ASSUME Tick PROVE CopyIsRecent'
  <2>1. \A n, k \in Ages : n <= k => Older(n) <= Older(k)
    BY SwitchAssumption DEF Older, Ages, Old
  <2>2. \A m \in Module : since[m] \in Ages /\ since'[m] = Older(since[m]) /\ store'[m] = store[m]
    BY <1>11 DEF Tick, TypeOK
  <2>3. (cache # None => Fresh(cache, cacheAge))'
    BY <1>11, <2>1, <2>2 DEF Tick, TypeOK, CopyIsRecent, Fresh
  <2>4. ASSUME NEW q \in Party, at'[q] = "loaded" PROVE Fresh(snap[q], age[q])'
    <3>1. at[q] = "loaded" /\ age[q] \in Ages /\ age'[q] = Older(age[q]) /\ snap'[q] = snap[q]
      BY <1>11, <2>4 DEF Tick, TypeOK
    <3>. QED
      BY <2>1, <2>2, <3>1 DEF CopyIsRecent, Fresh
  <2>. QED
    BY <2>3, <2>4 DEF CopyIsRecent
<1>12. CASE Outage \/ Recover
  BY <1>12 DEF Outage, Recover, CopyIsRecent, Fresh
<1>13. CASE Restart
  BY <1>13 DEF Restart, CopyIsRecent
<1>14. CASE UNCHANGED vars
  BY <1>14 DEF vars, CopyIsRecent, Fresh
<1>. QED
  BY <1>1, <1>2, <1>3, <1>4, <1>5, <1>6, <1>7, <1>8, <1>9, <1>10, <1>11, <1>12, <1>13, <1>14 DEF Next

\* The invariant holds throughout.
LEMMA Invariance == Spec => []Inv
<1>1. Init => Inv
  BY TypeInit DEF Init, Inv, CopyIsRecent
<1>2. Inv /\ [Next]_vars => Inv'
  BY TypeStep, RecentStep DEF Inv
<1>. QED
  BY <1>1, <1>2, PTL DEF Spec

\* Whatever the copy or a lookup under way has wrong was changed after the lookup that read
\* it began (_load, _invalidate).
THEOREM CopyRecent == Spec => []CopyIsRecent
<1>. QED
  BY Invariance, PTL DEF Inv

-----------------------------------------------------------------------------
(* An off module's desk starts nothing, but for the age of an answer.      *)

\* Whoever starts on an answer starts because the answer says so.
LEMMA StartsOnAnswer ==
  ASSUME TypeOK, NEW p \in Party, NEW states, AnswerFrom(p, states), NEW d \in Desk, Starts(d)
  PROVE  p = d /\ Says(states, Of[d])
<1>1. d \in Party
  BY DEF Party
<1>2. p = d
  BY <1>1 DEF AnswerFrom, Starts, TypeOK
<1>. QED
  BY <1>1, <1>2 DEF AnswerFrom, Starts, TypeOK, Then

\* One step: a desk that starts while its module is off has an answer of allowed age.
LEMMA StartStep ==
  ASSUME Inv, Next, NEW d \in Desk, up, Starts(d), ~store[Of[d]]
  PROVE  since[Of[d]] < TTL \/ since[Of[d]] <= age[d]
<1> USE DEF copy, look
<1>0. Of[d] \in Module /\ d \in Party /\ TypeOK /\ CopyIsRecent
  BY SwitchAssumption DEF Party, Inv
<1>1. ASSUME NEW p \in Party, Lookup(p) PROVE since[Of[d]] < TTL
  <2>1. CASE Valid
    <3>1. cache # None /\ Says(cache, Of[d])
      BY <1>0, <1>1, <2>1, StartsOnAnswer DEF Lookup, Valid
    <3>2. since[Of[d]] <= cacheAge /\ cacheAge < TTL
      BY <1>0, <2>1, <3>1 DEF Says, CopyIsRecent, Fresh, Valid
    <3>. QED
      BY <1>0, <3>2, SwitchAssumption DEF TypeOK, Ages, Old
  <2>2. CASE ~Valid
    BY <1>0, <1>1, <2>2 DEF Lookup, Starts, TypeOK
  <2>. QED
    BY <2>1, <2>2
<1>2. ASSUME NEW p \in Party, Loaded(p) PROVE since[Of[d]] <= age[d]
  <2>1. p = d /\ Says(snap[p], Of[d])
    BY <1>0, <1>2, StartsOnAnswer DEF Loaded
  <2>2. snap[d] # None /\ Fresh(snap[d], age[d])
    BY <1>0, <1>2, <2>1 DEF Loaded, TypeOK, CopyIsRecent
  <2>. QED
    BY <1>0, <2>1, <2>2 DEF Says, Fresh
<1>3. ASSUME NEW e \in Desk, Begin(e) PROVE since[Of[d]] < TTL
  BY <1>1, <1>3 DEF Begin, Party
<1>4. ASSUME NEW a \in Admin, View(a) PROVE since[Of[d]] < TTL
  BY <1>1, <1>4 DEF View, Party
<1>5. ASSUME NEW e \in Desk, CycleEnds(e) PROVE FALSE
  BY <1>0, <1>5 DEF CycleEnds, Starts, TypeOK
<1>6. ASSUME NEW p \in Party, Read(p) \/ LoadFails(p) PROVE FALSE
  BY <1>0, <1>6 DEF Read, LoadFails, Starts, TypeOK
<1>7. ASSUME NEW a \in Admin, Call(a) \/ WriteDoc(a) \/ WriteFails(a) \/ Invalidate(a) PROVE FALSE
  BY <1>0, <1>7 DEF Call, WriteDoc, WriteFails, Invalidate, Starts, TypeOK
<1>8. CASE Tick \/ Outage \/ Recover \/ Restart
  BY <1>0, <1>8 DEF Tick, Outage, Recover, Restart, Starts, TypeOK
<1>. QED
  BY <1>2, <1>3, <1>4, <1>5, <1>6, <1>7, <1>8 DEF Next

\* While the database answers, a desk starts work for a module that is off only within
\* CACHE_TTL of the switch or if the switch fell while it was looking (gated, _decide).
THEOREM OffIsHeld == Spec => OffHolds
<1>1. Inv /\ [Next]_vars =>
        [\A d \in Desk : up /\ Starts(d) /\ ~store[Of[d]]
                            => since[Of[d]] < TTL \/ since[Of[d]] <= age[d]]_vars
  BY StartStep
<1>. QED
  BY <1>1, Invariance, PTL DEF Spec, OffHolds
=============================================================================
