----------------------------- MODULE DeskSwitches ----------------------------
(***************************************************************************)
(* The module switches (services/desk_switches.py) and the two doors they  *)
(* close: the schedulers' gated() and the API gate (services/              *)
(* module_gate.py).  One document per module says ON or OFF; the process   *)
(* keeps a copy of all of them for CACHE_TTL.  A lookup that misses the    *)
(* copy awaits the database, and meanwhile the control page may write and  *)
(* invalidate: the lookup then stores what it read before the write.       *)
(*                                                                         *)
(* Time is counted in ticks and kept as ages, which stop at Old.  A desk   *)
(* is whoever works only while its module is on: a scheduler's cycle or a  *)
(* request that counts as work.  A plain read passes the gate whatever the *)
(* switch says; its lookup is that of the control page (View).             *)
(***************************************************************************)
EXTENDS Naturals, Sequences

CONSTANTS
  Registry,     \* the module keys, in the registry's order
  Unknown,      \* a key the registry does not have: an old browser tab's
  Desk, Of,     \* who works, and the module it belongs to
  Admin,        \* open control pages
  TTL,          \* CACHE_TTL, in ticks
  None,         \* no copy
  Outages,      \* whether the database may be away
  MaxRestarts   \* a bound

Module == {Registry[i] : i \in DOMAIN Registry}
Party  == Desk \cup Admin
Old    == TTL + 1

ASSUME SwitchAssumption ==
  /\ Registry \in Seq(Module) /\ Of \in [Desk -> Module]
  /\ Desk \cap Admin = {} /\ TTL \in Nat \ {0} /\ Outages \in BOOLEAN /\ MaxRestarts \in Nat
  /\ None \notin [Module -> BOOLEAN] /\ Unknown \notin Module

VARIABLES
  store,        \* desk_switches: the switch of each module; no document means on
  up,           \* the database answers
  cache,        \* _cache
  cacheAge,     \* how long ago _cache_at was
  at,           \* what each party does
  snap, age,    \* what its lookup has read, and how long ago the lookup began
  todo,         \* documents a control page has still to write
  since,        \* history: how long each module's switch has stood
  restarts

copy == <<cache, cacheAge>>
look == <<at, snap, age>>
vars == <<store, up, copy, look, todo, since, restarts>>

-----------------------------------------------------------------------------
States == [Module -> BOOLEAN]
Labels == {"idle", "load", "loaded", "work", "write"}
Ages   == 0..Old

\* Every variable keeps its type; what is stored or about to be written is a switch of a module
\* of the registry, and whoever has looked has an answer.
TypeOK ==
  /\ store \in States /\ up \in BOOLEAN
  /\ cache \in States \cup {None} /\ cacheAge \in Ages
  /\ at \in [Party -> Labels] /\ snap \in [Party -> States \cup {None}]
  /\ age \in [Party -> Ages] /\ todo \in [Admin -> Seq(Module \X BOOLEAN)]
  /\ since \in [Module -> Ages] /\ restarts \in 0..MaxRestarts
  /\ \A p \in Party : at[p] = "loaded" => snap[p] # None

Init ==
  /\ store \in States /\ up = TRUE /\ cache = None /\ cacheAge = Old
  /\ at = [p \in Party |-> "idle"] /\ snap = [p \in Party |-> None]
  /\ age = [p \in Party |-> 0] /\ todo = [a \in Admin |-> <<>>]
  /\ since = [m \in Module |-> Old] /\ restarts = 0

-----------------------------------------------------------------------------
(* A lookup: _load, and what is_on's caller does with the answer.          *)

Says(states, m) == IF states = None THEN TRUE ELSE states[m]
\* Mutant of Valid: the copy serves one tick too long.
ValidTooLong == cache # None /\ cacheAge <= TTL

Valid == cache # None /\ cacheAge < TTL

\* gated() runs the cycle, or the gate serves the request, if the module is on.  A control
\* page only shows the states.
Then(p, on) == IF p \in Desk /\ on THEN "work" ELSE "idle"

AnswerFrom(p, states) ==
  /\ at'   = [at EXCEPT ![p] = Then(p, p \in Desk /\ Says(states, Of[p]))]
  /\ snap' = [snap EXCEPT ![p] = None] /\ age' = [age EXCEPT ![p] = 0]

Lookup(p) ==
  IF Valid THEN AnswerFrom(p, cache)
  ELSE at' = [at EXCEPT ![p] = "load"] /\ UNCHANGED <<snap, age>>

\* Mutant of Begin: every hit renews the copy.
BeginRenews(d) ==
  /\ at[d] = "idle" /\ Lookup(d)
  /\ cache' = cache /\ cacheAge' = IF Valid THEN 0 ELSE cacheAge
  /\ UNCHANGED <<store, up, todo, since, restarts>>

Begin(d) == at[d] = "idle" /\ Lookup(d) /\ UNCHANGED <<store, up, copy, todo, since, restarts>>
View(a)  == at[a] = "idle" /\ Lookup(a) /\ UNCHANGED <<store, up, copy, todo, since, restarts>>

\* The database takes the find.
Read(p) ==
  /\ at[p] = "load" /\ up
  /\ at' = [at EXCEPT ![p] = "loaded"] /\ snap' = [snap EXCEPT ![p] = store]
  /\ UNCHANGED <<store, up, copy, age, todo, since, restarts>>

\* Mutant of Loaded: the copy is stamped when the answer arrives.
LoadedNow(p) ==
  /\ at[p] = "loaded"
  /\ cache' = snap[p] /\ cacheAge' = 0
  /\ AnswerFrom(p, snap[p])
  /\ UNCHANGED <<store, up, todo, since, restarts>>

\* _cache_at is the time the lookup began, not the time it ended.
Loaded(p) ==
  /\ at[p] = "loaded"
  /\ cache' = snap[p] /\ cacheAge' = age[p]
  /\ AnswerFrom(p, snap[p])
  /\ UNCHANGED <<store, up, todo, since, restarts>>

\* The store is unreachable: carry on with the last copy, however old, or with all on.
LoadFails(p) ==
  /\ at[p] = "load" /\ ~up
  /\ AnswerFrom(p, cache)
  /\ UNCHANGED <<store, up, copy, todo, since, restarts>>

CycleEnds(d) ==
  /\ at[d] = "work" /\ at' = [at EXCEPT ![d] = "idle"]
  /\ UNCHANGED <<store, up, copy, snap, age, todo, since, restarts>>

-----------------------------------------------------------------------------
(* The control page: what each route writes, one document after another.   *)

SetModule(m, on) == <<<<m, on>>>>
SetAll(on) == [i \in DOMAIN Registry |-> <<Registry[i], on>>]
SetOnly(m) == [i \in DOMAIN Registry |-> <<Registry[i], Registry[i] = m>>]
\* Any keys in any order, each once, as a dict has them; at most Len(Registry), a bound.
Dicts(keys) ==
  {s \in UNION {[1..n -> keys \X BOOLEAN] : n \in 0..Len(Registry)} :
     \A i, j \in DOMAIN s : s[i][1] = s[j][1] => i = j}

\* Mutant of SetMany: the registry is not asked, every key of the request is written.
SetManyUnchecked == Dicts(Module \cup {Unknown})

\* A key outside the registry is passed over and the others keep their order: what is
\* written is a dict of known keys.
SetMany == Dicts(Module)

Calls == {SetModule(m, on) : m \in Module, on \in BOOLEAN} \cup {SetAll(on) : on \in BOOLEAN}
         \cup {SetOnly(m) : m \in Module} \cup SetMany

Call(a) ==
  /\ at[a] = "idle"
  /\ \E c \in Calls : todo' = [todo EXCEPT ![a] = c]
  /\ at' = [at EXCEPT ![a] = "write"]
  /\ UNCHANGED <<store, up, copy, snap, age, since, restarts>>

Put(doc) ==
  /\ store' = [store EXCEPT ![doc[1]] = doc[2]]
  /\ since' = IF store[doc[1]] = doc[2] THEN since ELSE [since EXCEPT ![doc[1]] = 0]

WriteDoc(a) ==
  /\ at[a] = "write" /\ todo[a] # <<>> /\ up
  /\ Put(Head(todo[a])) /\ todo' = [todo EXCEPT ![a] = Tail(@)]
  /\ UNCHANGED <<up, copy, look, restarts>>

\* The write raises, applied or not: the rest is dropped and the copy is not invalidated.
WriteFails(a) ==
  /\ at[a] = "write" /\ todo[a] # <<>> /\ ~up
  /\ Put(Head(todo[a])) \/ UNCHANGED <<store, since>>
  /\ todo' = [todo EXCEPT ![a] = <<>>] /\ at' = [at EXCEPT ![a] = "idle"]
  /\ UNCHANGED <<up, copy, snap, age, restarts>>

\* The last document is written: _invalidate, then the reply's snapshot.
Invalidate(a) ==
  /\ at[a] = "write" /\ todo[a] = <<>>
  /\ cache' = None /\ cacheAge' = Old
  /\ at' = [at EXCEPT ![a] = "load"]
  /\ UNCHANGED <<store, up, snap, age, todo, since, restarts>>

-----------------------------------------------------------------------------
\* Ages are compared with TTL and with each other; from Old on they all mean too old.
Older(n) == IF n < Old THEN n + 1 ELSE n

Tick ==
  /\ cacheAge' = Older(cacheAge) /\ since' = [m \in Module |-> Older(since[m])]
  /\ age' = [p \in Party |-> IF at[p] \in {"load", "loaded"} THEN Older(age[p]) ELSE age[p]]
  /\ UNCHANGED <<store, up, cache, at, snap, todo, restarts>>

Outage  == /\ Outages /\ up /\ up' = FALSE /\ UNCHANGED <<store, copy, look, todo, since, restarts>>
Recover == ~up /\ up' = TRUE /\ UNCHANGED <<store, copy, look, todo, since, restarts>>

Restart ==
  /\ restarts < MaxRestarts /\ restarts' = restarts + 1
  /\ cache' = None /\ cacheAge' = Old
  /\ at' = [p \in Party |-> "idle"] /\ snap' = [p \in Party |-> None]
  /\ age' = [p \in Party |-> 0] /\ todo' = [a \in Admin |-> <<>>]
  /\ UNCHANGED <<store, up, since>>

Next ==
  \/ \E d \in Desk : Begin(d) \/ CycleEnds(d)
  \/ \E p \in Party : Read(p) \/ Loaded(p) \/ LoadFails(p)
  \/ \E a \in Admin : View(a) \/ Call(a) \/ WriteDoc(a) \/ WriteFails(a) \/ Invalidate(a)
  \/ Tick \/ Outage \/ Recover \/ Restart

Spec == Init /\ [][Next]_vars

\* Time passes, the database answers what it was asked or the driver gives up, a scheduler
\* comes round and a cycle ends.  Nothing makes anybody touch a switch.
Fairness ==
  /\ WF_vars(Tick)
  /\ \A d \in Desk : WF_vars(Begin(d)) /\ WF_vars(CycleEnds(d))
  /\ \A p \in Party : WF_vars(Read(p) \/ LoadFails(p)) /\ WF_vars(Loaded(p))
  /\ \A a \in Admin : WF_vars(WriteDoc(a) \/ WriteFails(a)) /\ WF_vars(Invalidate(a))

FairSpec == Spec /\ Fairness

-----------------------------------------------------------------------------
(* Properties.                                                             *)

Fresh(states, n) == \A m \in Module : states[m] = store[m] \/ since[m] <= n

\* A switch the copy, or a lookup under way, has wrong was changed after the lookup that
\* read it began: whatever _load hands out was true less than CACHE_TTL before it was asked
\* for, also when a write, its invalidation and the lookup cross.
CopyIsRecent ==
  /\ cache # None => Fresh(cache, cacheAge)
  /\ \A p \in Party : at[p] = "loaded" => Fresh(snap[p], age[p])

Starts(d) == at[d] # "work" /\ at'[d] = "work"

\* While the database answers, a desk starts work for a module that is off only within
\* CACHE_TTL of the switch, or if the switch fell while the desk was looking (gated, the
\* gate's _decide).
OffHolds ==
  [][\A d \in Desk : up /\ Starts(d) /\ ~store[Of[d]]
                      => since[Of[d]] < TTL \/ since[Of[d]] <= age[d]]_vars

\* A module that stays on while the database answers keeps working, also when it was off
\* until a moment ago.
OnWorks ==
  \A d \in Desk : <>[](up /\ store[Of[d]]) => []<>(at[d] = "work")

\* What the module's header says of the copy: with no control page at work, it is what the
\* database holds ("invalidates on write, so it is never stale in practice").
NeverStale ==
  (\A a \in Admin : at[a] # "write") /\ Valid => cache = store

=============================================================================
