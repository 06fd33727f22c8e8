---------------------------- MODULE TokenManager -----------------------------
(***************************************************************************)
(* The Dhan access token (services/dhan_token.py and its callers in        *)
(* api/routes/broker.py and main.py; prelive-service/rotate_dhan_token.py).*)
(* Dhan keeps one token alive per account: minting one revokes the one     *)
(* before.  The application keeps its token in broker_credentials and      *)
(* refreshes it under a Redis lock that expires by itself.  Three parties  *)
(* mint without the lock: the rotation script, a user who connects a token *)
(* of their own, and everybody while Redis does not answer.                *)
(*                                                                         *)
(* The token's remaining life has three values: "fresh", "old" (under the  *)
(* loop's margin of two hours) and "stale" (under the readers' margin of   *)
(* half an hour, or dead, or unreadable).  Whatever disturbs the protocol  *)
(* is counted in troubles.                                                 *)
(***************************************************************************)
EXTENDS Naturals, FiniteSets

CONSTANTS
  Caller,       \* who refreshes under the lock: requests, the loop, the manual route
  Hourly,       \* the background loop among them
  Margin,       \* the lives of the stored token at which each one refreshes
  Script, User, \* runs of the rotation script; users who connect a token
  Token,        \* names for tokens, used again once forgotten
  None,         \* no token, no holder
  Dead,         \* the lock's owner was killed
  MaxTries,     \* attempts of the rotation script (3)
  MaxTroubles   \* a bound

Party == Caller \cup Script \cup User
Life  == {"fresh", "old", "stale"}

ASSUME TokenAssumption ==
  /\ Caller \cap Script = {} /\ Caller \cap User = {} /\ Script \cap User = {}
  /\ Hourly \in Caller /\ Margin \in [Caller -> SUBSET Life]
  /\ None \notin Party \cup Token /\ Dead \notin Party \cup {None}
  /\ Token # {} /\ MaxTries \in Nat \ {0} /\ MaxTroubles \in Nat

VARIABLES
  stored,       \* broker_credentials: the token
  life,         \*   what its expiry says
  active,       \* the token Dhan accepts
  lock,         \* dhan:totp:lock
  cooling,      \* dhan:totp:cooldown
  at,           \* what each party does next
  mine,         \* the token each party has minted and not stored
  tries,        \* attempts the script has made
  lost,         \* history: the last token minted was never stored, or never answered for
  crossed,      \* history: two parties had minted and not stored at one time
  overran,      \* history: somebody minted without holding the lock
  troubles

credVars == <<stored, life>>
history  == <<lost, crossed, overran>>
vars     == <<credVars, active, lock, cooling, at, mine, tries, history, troubles>>

-----------------------------------------------------------------------------
Labels == {"idle", "cooldown", "lock", "wait", "login", "store", "release"}

TypeOK ==
  /\ stored \in Token /\ life \in Life /\ active \in Token
  /\ lock \in Caller \cup {None, Dead} /\ cooling \in BOOLEAN
  /\ at \in [Party -> Labels] /\ mine \in [Party -> Token \cup {None}]
  /\ tries \in [Script -> 0..MaxTries]
  /\ lost \in BOOLEAN /\ crossed \in BOOLEAN /\ overran \in BOOLEAN
  /\ troubles \in 0..MaxTroubles

Init ==
  /\ stored = (CHOOSE t \in Token : TRUE) /\ active = stored /\ life = "fresh"
  /\ lock = None /\ cooling = FALSE
  /\ at = [p \in Party |-> "idle"] /\ mine = [p \in Party |-> None]
  /\ tries = [s \in Script |-> 0]
  /\ lost = FALSE /\ crossed = FALSE /\ overran = FALSE /\ troubles = 0

Goto(p, label) == at' = [at EXCEPT ![p] = label]
Trouble == troubles < MaxTroubles /\ troubles' = troubles + 1

\* The parties whose token is minted and not stored yet.
Minted == {p \in Party : at[p] = "store"}

-----------------------------------------------------------------------------
(* refresh_locked.                                                         *)

\* should_refresh of a request, the margin of the loop, the manual route.
Begin(c) ==
  /\ at[c] = "idle" /\ life \in Margin[c]
  /\ Goto(c, "cooldown")
  /\ UNCHANGED <<credVars, active, lock, cooling, mine, tries, history, troubles>>

\* The cooldown is read.  When Redis does not answer, the refresh goes on.
CheckCooldown(c) ==
  /\ at[c] = "cooldown"
  /\ \/ /\ Goto(c, IF cooling THEN "idle" ELSE "lock")
        /\ UNCHANGED troubles
     \/ Goto(c, "lock") /\ Trouble
  /\ UNCHANGED <<credVars, active, lock, cooling, mine, tries, history>>

\* Mutant of Acquire: SET without NX.
AcquireAny(c) ==
  /\ at[c] = "lock"
  /\ lock' = c /\ Goto(c, "login")
  /\ UNCHANGED <<credVars, active, cooling, mine, tries, history, troubles>>

\* SET NX with a time to live.
Acquire(c) ==
  /\ at[c] = "lock"
  /\ IF lock = None THEN lock' = c /\ Goto(c, "login") ELSE UNCHANGED lock /\ Goto(c, "wait")
  /\ UNCHANGED <<credVars, active, cooling, mine, tries, history, troubles>>

\* Redis does not answer: the login goes ahead without the lock.
AcquireUnlocked(c) ==
  /\ at[c] = "lock" /\ Trouble
  /\ Goto(c, "login") /\ overran' = TRUE
  /\ UNCHANGED <<credVars, active, lock, cooling, mine, tries, lost, crossed>>

\* _wait_for_release: the lock is free, or 25 seconds are over.
WaitOver(c) ==
  /\ at[c] = "wait"
  /\ Goto(c, "idle")
  /\ UNCHANGED <<credVars, active, lock, cooling, mine, tries, history, troubles>>

\* A token nobody knows yet.
Unused == Token \ ({stored, active} \cup {mine[q] : q \in Minted})
Fresh  == CHOOSE n \in Unused : TRUE

\* A login: Dhan revokes the token before.
Mint(p) ==
  /\ Unused # {}
  /\ active' = Fresh /\ mine' = [mine EXCEPT ![p] = Fresh]
  /\ crossed' = (crossed \/ Minted # {})

LoginOk(c) ==
  /\ at[c] = "login" /\ Mint(c)
  /\ Goto(c, "store")
  /\ UNCHANGED <<credVars, lock, cooling, tries, lost, overran, troubles>>

\* 429 sets the cooldown; any other failure does nothing.
LoginFails(c) ==
  /\ at[c] = "login"
  /\ cooling' \in {cooling, TRUE}
  /\ Goto(c, "release")
  /\ UNCHANGED <<credVars, active, lock, mine, tries, history, troubles>>

\* Dhan minted and the answer was lost.
LoginLost(c) ==
  /\ at[c] = "login" /\ Trouble
  /\ Unused # {} /\ active' = Fresh /\ lost' = TRUE
  /\ Goto(c, "release")
  /\ UNCHANGED <<credVars, lock, cooling, mine, tries, crossed, overran>>

\* Mutant of Store: a token that is fresh by now is left alone.
StoreIfNeeded(p) ==
  /\ at[p] = "store"
  /\ IF life = "fresh" THEN UNCHANGED credVars ELSE stored' = mine[p] /\ life' = "fresh"
  /\ mine' = [mine EXCEPT ![p] = None]
  /\ Goto(p, IF p \in Caller THEN "release" ELSE "idle")
  /\ UNCHANGED <<active, lock, cooling, tries, history, troubles>>

\* store_token, for whoever minted.  A party that is alone with the newest token
\* puts right what was lost or crossed before.
Store(p) ==
  /\ at[p] = "store"
  /\ stored' = mine[p] /\ life' = "fresh"
  /\ mine' = [mine EXCEPT ![p] = None]
  /\ IF mine[p] = active /\ Minted = {p}
     THEN lost' = FALSE /\ crossed' = FALSE
     ELSE UNCHANGED <<lost, crossed>>
  /\ Goto(p, IF p \in Caller THEN "release" ELSE "idle")
  /\ UNCHANGED <<active, lock, cooling, tries, overran, troubles>>

StoreFails(p) ==
  /\ at[p] = "store" /\ Trouble
  /\ mine' = [mine EXCEPT ![p] = None] /\ lost' = TRUE
  /\ Goto(p, IF p \in Caller THEN "release" ELSE "idle")
  /\ UNCHANGED <<credVars, active, lock, cooling, tries, crossed, overran>>

\* Mutant of Release: the key is deleted, whoever owns it.
ReleaseAny(c) ==
  /\ at[c] = "release" /\ Goto(c, "idle")
  /\ lock' = None /\ UNCHANGED troubles
  /\ UNCHANGED <<credVars, active, cooling, mine, tries, history>>

\* _RELEASE_SCRIPT: the owner deletes the lock.  Without Redis it stays until it expires.
Release(c) ==
  /\ at[c] = "release" /\ Goto(c, "idle")
  /\ \/ lock' = (IF lock = c THEN None ELSE lock) /\ UNCHANGED troubles
     \/ lock' = (IF lock = c THEN Dead ELSE lock) /\ Trouble
  /\ UNCHANGED <<credVars, active, cooling, mine, tries, history>>

-----------------------------------------------------------------------------
(* Those who mint without the lock.                                        *)

\* rotate_dhan_token.py: unless it is forced, it leaves a token with two hours left.
ScriptBegin(s) ==
  /\ at[s] = "idle" /\ Trouble
  /\ \E force \in BOOLEAN : force \/ life # "fresh"
  /\ Goto(s, "login") /\ tries' = [tries EXCEPT ![s] = 0]
  /\ UNCHANGED <<credVars, active, lock, cooling, mine, history>>

\* Mutant of ScriptLogin: one attempt too many.
ScriptLoginOn(s) ==
  /\ at[s] = "login"
  /\ tries' = [tries EXCEPT ![s] = @ + 1]
  /\ Goto(s, IF tries[s] = MaxTries THEN "idle" ELSE "login")
  /\ UNCHANGED <<credVars, active, lock, cooling, mine, history, troubles>>

\* generate_token, tried again after a failure; what it raises sets no cooldown.
ScriptLogin(s) ==
  /\ at[s] = "login"
  /\ \/ /\ Mint(s) /\ Goto(s, "store") /\ UNCHANGED tries
     \/ /\ tries' = [tries EXCEPT ![s] = @ + 1]
        /\ Goto(s, IF tries[s] + 1 = MaxTries THEN "idle" ELSE "login")
        /\ UNCHANGED <<active, mine, crossed>>
  /\ UNCHANGED <<credVars, lock, cooling, lost, overran, troubles>>

\* Dhan minted and the script's answer was lost: an attempt like any other that failed.
ScriptLoginLost(s) ==
  /\ at[s] = "login" /\ Trouble
  /\ Unused # {} /\ active' = Fresh /\ lost' = TRUE
  /\ tries' = [tries EXCEPT ![s] = @ + 1]
  /\ Goto(s, IF tries[s] + 1 = MaxTries THEN "idle" ELSE "login")
  /\ UNCHANGED <<credVars, lock, cooling, mine, crossed, overran>>

\* connect_broker: a token the user minted elsewhere, which Dhan has just accepted.
Connect(u) ==
  /\ at[u] = "idle" /\ Trouble
  /\ Mint(u) /\ Goto(u, "store")
  /\ UNCHANGED <<credVars, lock, cooling, tries, lost, overran>>

-----------------------------------------------------------------------------
(* Time, and the processes.                                                *)

\* Mutant of Killed: the lock of a killed owner does not expire.
KilledForGood(c) ==
  /\ at[c] # "idle" /\ Trouble
  /\ Goto(c, "idle") /\ mine' = [mine EXCEPT ![c] = None]
  /\ lost' = (lost \/ at[c] = "store")
  /\ UNCHANGED <<credVars, active, lock, cooling, tries, crossed, overran>>

\* A process is killed in the middle of a refresh.
Killed(c) ==
  /\ at[c] # "idle" /\ Trouble
  /\ Goto(c, "idle") /\ mine' = [mine EXCEPT ![c] = None]
  /\ lost' = (lost \/ at[c] = "store")
  /\ lock' = IF lock = c THEN Dead ELSE lock
  /\ UNCHANGED <<credVars, active, cooling, tries, crossed, overran>>

\* The lock's time to live ends: its owner is gone,
LockExpires ==
  /\ lock = Dead
  /\ lock' = None
  /\ UNCHANGED <<credVars, active, cooling, at, mine, tries, history, troubles>>

\* or overran it.
LockOverrun ==
  /\ lock \in Caller /\ Trouble
  /\ lock' = None /\ overran' = TRUE
  /\ UNCHANGED <<credVars, active, cooling, at, mine, tries, lost, crossed>>

CooldownEnds ==
  /\ cooling
  /\ cooling' = FALSE
  /\ UNCHANGED <<credVars, active, lock, at, mine, tries, history, troubles>>

Age ==
  /\ life # "stale"
  /\ life' = IF life = "fresh" THEN "old" ELSE "stale"
  /\ UNCHANGED <<stored, active, lock, cooling, at, mine, tries, history, troubles>>

Refresh(c) ==
  \/ Begin(c) \/ CheckCooldown(c) \/ Acquire(c) \/ AcquireUnlocked(c) \/ WaitOver(c)
  \/ LoginOk(c) \/ LoginFails(c) \/ LoginLost(c) \/ Release(c) \/ Killed(c)

Next ==
  \/ \E c \in Caller : Refresh(c)
  \/ \E p \in Party : Store(p) \/ StoreFails(p)
  \/ \E s \in Script : ScriptBegin(s) \/ ScriptLogin(s) \/ ScriptLoginLost(s)
  \/ \E u \in User : Connect(u)
  \/ LockExpires \/ LockOverrun \/ CooldownEnds \/ Age

Spec == Init /\ [][Next]_vars

\* A refresh under way goes on: every await has a timeout.  The loop looks every hour.
\* Time passes.  Dhan, asked again and again, grants a login in the end.
Fairness ==
  /\ WF_vars(Begin(Hourly)) /\ WF_vars(LockExpires) /\ WF_vars(CooldownEnds) /\ WF_vars(Age)
  /\ \A c \in Caller :
       /\ WF_vars(CheckCooldown(c)) /\ WF_vars(Acquire(c)) /\ WF_vars(WaitOver(c))
       /\ WF_vars(LoginOk(c) \/ LoginFails(c)) /\ SF_vars(LoginOk(c)) /\ WF_vars(Release(c))
  /\ \A p \in Party : WF_vars(Store(p))
  /\ \A s \in Script : WF_vars(ScriptLogin(s))

FairSpec == Spec /\ Fairness

-----------------------------------------------------------------------------
\* The lock serialises logins, over kills and expiries: as long as nobody overran it and
\* Redis answered, no two refreshes are between their login and their release.
Busy == {c \in Caller : at[c] \in {"login", "store", "release"}}
OneLogin == ~overran => \A c, d \in Busy : c = d

\* The stored token is the one Dhan accepts, unless a mint is on its way to the store, the
\* newest token was lost, or two parties crossed.  So the only ways to a revoked token are a
\* login whose answer was lost, a kill between login and store, a failed store, and a second
\* minter between the two; and the next party that mints and stores alone ends it.
StoredWorks == lost \/ crossed \/ Minted # {} \/ stored = active

\* A lock is released by its owner or by its time to live, never by somebody else who
\* overran theirs.
OwnLockOnly ==
  [][lock' # lock /\ lock \in Caller => at'[lock] # at[lock] \/ troubles' # troubles]_vars

\* Whatever happened, a token that is revoked or about to expire is replaced in the end by one
\* that works.
Recovers == (stored # active \/ life = "stale") ~> (stored = active /\ life # "stale")

\* broker.py:31-36: a healthy token triggers no login, and a simultaneous burst of
\* requests produces exactly one.
HealthyMintsNothing ==
  \A c \in Caller : at[c] = "login" => life \in Margin[c]
=============================================================================
