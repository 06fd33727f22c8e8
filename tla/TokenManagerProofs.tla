------------------------- MODULE TokenManagerProofs --------------------------
(***************************************************************************)
(* Theorems about TokenManager, for any number of callers, script runs and *)
(* users, and any number of troubles.                                      *)
(***************************************************************************)
EXTENDS TokenManager, TLAPS

-----------------------------------------------------------------------------
(* The inductive invariant: who is busy holds the lock, unless it was      *)
(* overrun; and the only token under way to the store is the active one,   *)
(* unless one was lost or two crossed.                                     *)

Locked == ~overran => \A c \in Busy : lock = c

Settled ==
  ~lost /\ ~crossed =>
     /\ \A p \in Party : at[p] = "store" =>
          /\ mine[p] = active
          /\ \A q \in Party : at[q] = "store" => q = p
     /\ (\A p \in Party : at[p] # "store") => stored = active

\* A party about to store has a token.
Carried == \A p \in Party : at[p] = "store" => mine[p] \in Token

\* The script has an attempt left.
Attempts == \A s \in Script : at[s] = "login" => tries[s] < MaxTries

Inv == TypeOK /\ Carried /\ Attempts /\ Locked /\ Settled

\* The token Dhan hands out is a token.
LEMMA FreshIsToken == Unused # {} => Fresh \in Token
  BY DEF Unused, Fresh

\* Initially nothing is under way.
LEMMA InitInv == Init => Inv
<1> SUFFICES ASSUME Init PROVE Inv
  OBVIOUS
<1> MaxTries \in Nat \ {0} /\ MaxTroubles \in Nat /\ Token # {}
  BY TokenAssumption
<1>1. stored \in Token
  BY DEF Init
<1>2. lock \in Caller \cup {None, Dead} /\ at \in [Party -> Labels] /\ mine \in [Party -> Token \cup {None}]
  BY DEF Init, Labels
<1>3. tries \in [Script -> 0..MaxTries] /\ troubles \in 0..MaxTroubles
  BY DEF Init
<1>4. TypeOK
  BY <1>1, <1>2, <1>3 DEF TypeOK, Init, Life
<1>5. Locked /\ Carried /\ Attempts
  BY DEF Init, Locked, Busy, Party, Carried, Attempts
<1>6. Settled
  BY DEF Init, Settled
<1>. QED
  BY <1>4, <1>5, <1>6 DEF Inv

-----------------------------------------------------------------------------
(* TypeOK over a step.                                                     *)

LEMMA RefreshTypes ==
  ASSUME TypeOK, NEW c \in Caller, Refresh(c)
  PROVE  TypeOK'
<1> c \in Party /\ None \notin Party \cup Token /\ Dead \notin Party \cup {None} /\ MaxTroubles \in Nat
  BY TokenAssumption DEF Party
<1> USE DEF TypeOK, Goto, Labels, Trouble, credVars, history
<1>1. CASE Begin(c)
  BY <1>1 DEF Begin
<1>2. CASE CheckCooldown(c)
  BY <1>2 DEF CheckCooldown
<1>3. CASE Acquire(c)
  BY <1>3 DEF Acquire
<1>4. CASE AcquireUnlocked(c)
  BY <1>4 DEF AcquireUnlocked
<1>5. CASE WaitOver(c)
  BY <1>5 DEF WaitOver
<1>6. CASE LoginOk(c)
  BY <1>6, FreshIsToken DEF LoginOk, Mint
<1>7. CASE LoginFails(c)
  BY <1>7 DEF LoginFails
<1>8. CASE LoginLost(c)
  BY <1>8, FreshIsToken DEF LoginLost
<1>9. CASE Release(c)
  BY <1>9 DEF Release
<1>10. CASE Killed(c)
  BY <1>10 DEF Killed
<1>. QED
  BY <1>1, <1>2, <1>3, <1>4, <1>5, <1>6, <1>7, <1>8, <1>9, <1>10 DEF Refresh

LEMMA PartyTypes ==
  ASSUME TypeOK, NEW p \in Party, Store(p) \/ StoreFails(p), mine[p] \in Token
  PROVE  TypeOK'
<1> MaxTroubles \in Nat
  BY TokenAssumption
<1> USE DEF TypeOK, Goto, Labels, Trouble, credVars, history, Life
<1>1. CASE Store(p)
  BY <1>1 DEF Store
<1>2. CASE StoreFails(p)
  BY <1>2 DEF StoreFails
<1>. QED
  BY <1>1, <1>2
\* Every step keeps the types.
LEMMA NextTypes ==
  ASSUME TypeOK, Carried, Attempts, Next
  PROVE  TypeOK'
<1> MaxTroubles \in Nat /\ MaxTries \in Nat \ {0} /\ Script \subseteq Party /\ User \subseteq Party
  BY TokenAssumption DEF Party
<1> USE DEF TypeOK, Goto, Labels, Trouble, credVars, history
<1>1. ASSUME NEW c \in Caller, Refresh(c) PROVE TypeOK'
  BY <1>1, RefreshTypes
<1>2. ASSUME NEW p \in Party, Store(p) \/ StoreFails(p) PROVE TypeOK'
  <2>1. at[p] = "store"
    BY <1>2 DEF Store, StoreFails
  <2>. QED
    BY <1>2, <2>1, PartyTypes DEF Carried
<1>3. ASSUME NEW s \in Script, ScriptBegin(s) PROVE TypeOK'
  BY <1>3 DEF ScriptBegin
<1>4. ASSUME NEW s \in Script, ScriptLogin(s) PROVE TypeOK'
  <2>1. CASE Mint(s) /\ Goto(s, "store") /\ UNCHANGED tries
    BY <1>4, <2>1, FreshIsToken DEF ScriptLogin, Mint
  <2>2. CASE tries' = [tries EXCEPT ![s] = @ + 1] /\ UNCHANGED <<active, mine, crossed>>
    <3>1. at[s] = "login" /\ UNCHANGED <<stored, life, lock, cooling, lost, overran, troubles>>
      BY <1>4 DEF ScriptLogin
    <3>2. tries[s] + 1 \in 0..MaxTries
      BY <3>1 DEF Attempts
    <3>3. at' \in [Party -> Labels]
      BY <1>4 DEF ScriptLogin, Mint
    <3>. QED
      BY <2>2, <3>1, <3>2, <3>3
  <2>. QED
    BY <1>4, <2>1, <2>2 DEF ScriptLogin
<1>10. ASSUME NEW s \in Script, ScriptLoginLost(s) PROVE TypeOK'
  <2>1. tries[s] + 1 \in 0..MaxTries
    BY <1>10 DEF ScriptLoginLost, Attempts
  <2>2. active' \in Token /\ at' \in [Party -> Labels]
    BY <1>10, FreshIsToken DEF ScriptLoginLost
  <2>. QED
    BY <1>10, <2>1, <2>2 DEF ScriptLoginLost
<1>5. ASSUME NEW u \in User, Connect(u) PROVE TypeOK'
  BY <1>5, FreshIsToken DEF Connect, Mint
<1>6. CASE LockExpires
  BY <1>6 DEF LockExpires
<1>9. CASE LockOverrun
  BY <1>9 DEF LockOverrun
<1>7. CASE CooldownEnds
  BY <1>7 DEF CooldownEnds
<1>8. CASE Age
  BY <1>8 DEF Age, Life
<1>. QED
  BY <1>1, <1>2, <1>3, <1>4, <1>5, <1>6, <1>7, <1>8, <1>9, <1>10 DEF Next

-----------------------------------------------------------------------------
(* Who may store has a token, and the script has an attempt left.          *)

LEMMA NextCarried ==
  ASSUME TypeOK, Carried, Attempts, Next
  PROVE  Carried' /\ Attempts'
<1> Script \subseteq Party /\ User \subseteq Party /\ Caller \subseteq Party /\ MaxTries \in Nat \ {0}
    /\ Caller \cap Script = {} /\ User \cap Script = {}
  BY TokenAssumption DEF Party
<1> USE DEF TypeOK, Carried, Attempts, Goto
<1>1. ASSUME NEW c \in Caller, Refresh(c) PROVE Carried' /\ Attempts'
  <2>1. CASE LoginOk(c)
    BY <2>1, FreshIsToken DEF LoginOk, Mint
  <2>2. CASE ~LoginOk(c)
    BY <1>1, <2>2 DEF Refresh, Begin, CheckCooldown, Acquire, AcquireUnlocked, WaitOver, LoginFails,
       LoginLost, Release, Killed
  <2>. QED
    BY <2>1, <2>2
<1>2. ASSUME NEW p \in Party, Store(p) \/ StoreFails(p) PROVE Carried' /\ Attempts'
  BY <1>2 DEF Store, StoreFails
<1>3. ASSUME NEW s \in Script, ScriptBegin(s) PROVE Carried' /\ Attempts'
  BY <1>3 DEF ScriptBegin
<1>4. ASSUME NEW s \in Script, ScriptLogin(s) PROVE Carried' /\ Attempts'
  <2>1. CASE Mint(s) /\ Goto(s, "store") /\ UNCHANGED tries
    BY <2>1, FreshIsToken DEF Mint
  <2>2. CASE /\ tries' = [tries EXCEPT ![s] = @ + 1] /\ UNCHANGED <<active, mine, crossed>>
             /\ Goto(s, IF tries[s] + 1 = MaxTries THEN "idle" ELSE "login")
    <3>1. tries[s] \in Nat /\ tries[s] < MaxTries /\ tries'[s] = tries[s] + 1
      BY <1>4, <2>2 DEF ScriptLogin
    <3>. QED
      BY <2>2, <3>1
  <2>. QED
    BY <1>4, <2>1, <2>2 DEF ScriptLogin
<1>7. ASSUME NEW s \in Script, ScriptLoginLost(s) PROVE Carried' /\ Attempts'
  <2>1. tries[s] \in Nat /\ tries[s] < MaxTries /\ tries'[s] = tries[s] + 1
    BY <1>7 DEF ScriptLoginLost
  <2>. QED
    BY <1>7, <2>1 DEF ScriptLoginLost
<1>5. ASSUME NEW u \in User, Connect(u) PROVE Carried' /\ Attempts'
  BY <1>5, FreshIsToken DEF Connect, Mint
<1>6. CASE LockExpires \/ LockOverrun \/ CooldownEnds \/ Age
  BY <1>6 DEF LockExpires, LockOverrun, CooldownEnds, Age
<1>. QED
  BY <1>1, <1>2, <1>3, <1>4, <1>5, <1>6, <1>7 DEF Next

-----------------------------------------------------------------------------
(* Who is busy holds the lock.                                             *)

LEMMA NextLocked ==
  ASSUME TypeOK, Locked, Next
  PROVE  Locked'
<1> Caller \subseteq Party /\ Caller \cap Script = {} /\ Caller \cap User = {}
    /\ None \notin Caller /\ Dead \notin Caller
  BY TokenAssumption DEF Party
<1> USE DEF TypeOK, Locked, Busy, Goto
<1>1. ASSUME NEW c \in Caller, Refresh(c) PROVE Locked'
  <2>1. CASE Acquire(c)
    BY <2>1 DEF Acquire, history
  <2>2. CASE LoginOk(c) \/ LoginFails(c) \/ LoginLost(c)
    BY <2>2 DEF LoginOk, LoginFails, LoginLost, history, Mint
  <2>3. CASE Release(c) \/ Killed(c)
    BY <2>3 DEF Release, Killed, history
  <2>4. CASE Begin(c) \/ CheckCooldown(c) \/ AcquireUnlocked(c) \/ WaitOver(c)
    BY <2>4 DEF Begin, CheckCooldown, AcquireUnlocked, WaitOver, history
  <2>. QED
    BY <1>1, <2>1, <2>2, <2>3, <2>4 DEF Refresh
<1>2. ASSUME NEW p \in Party, Store(p) \/ StoreFails(p) PROVE Locked'
  BY <1>2 DEF Store, StoreFails
<1>3. ASSUME NEW s \in Script, ScriptBegin(s) \/ ScriptLogin(s) \/ ScriptLoginLost(s)
      PROVE  Locked'
  BY <1>3 DEF ScriptBegin, ScriptLogin, ScriptLoginLost, Mint, history
<1>4. ASSUME NEW u \in User, Connect(u) PROVE Locked'
  BY <1>4 DEF Connect, Mint
<1>5. CASE LockExpires \/ LockOverrun \/ CooldownEnds \/ Age
  BY <1>5 DEF LockExpires, LockOverrun, CooldownEnds, Age, history
<1>. QED
  BY <1>1, <1>2, <1>3, <1>4, <1>5 DEF Next

-----------------------------------------------------------------------------
(* The token under way to the store is the active one.                     *)

\* A login either is alone or crosses.
LEMMA MintSettled ==
  ASSUME TypeOK, Settled, NEW p \in Party, Mint(p), Goto(p, "store"), at[p] # "store",
         UNCHANGED lost
  PROVE  Settled'
<1>1. CASE Minted # {}
  BY <1>1 DEF Mint, Settled
<1>2. CASE Minted = {}
  <2>1. \A q \in Party : at[q] # "store"
    BY <1>2 DEF Minted
  <2>2. \A q \in Party : at'[q] = "store" => q = p
    BY <2>1 DEF Goto, TypeOK
  <2>3. at'[p] = "store" /\ mine'[p] = active'
    BY DEF Goto, TypeOK, Mint
  <2>. QED
    BY <2>2, <2>3 DEF Settled
<1>. QED
  BY <1>1, <1>2

LEMMA NextSettled ==
  ASSUME TypeOK, Settled, Next
  PROVE  Settled'
<1> Caller \subseteq Party /\ Script \subseteq Party /\ User \subseteq Party
  BY DEF Party
<1>1. ASSUME NEW c \in Caller, Refresh(c) PROVE Settled'
  <2>1. CASE LoginOk(c)
    BY <2>1, MintSettled DEF LoginOk
  <2>2. CASE LoginLost(c)
    BY <2>2 DEF LoginLost, Settled
  <2>3. CASE Killed(c)
    BY <2>3 DEF Killed, Settled, Goto, TypeOK, credVars
  <2>4. CASE ~(LoginOk(c) \/ LoginLost(c) \/ Killed(c))
    BY <1>1, <2>4 DEF Refresh, Begin, CheckCooldown, Acquire, AcquireUnlocked, WaitOver, LoginFails,
       Release, Settled, Goto, TypeOK, credVars, history
  <2>. QED
    BY <2>1, <2>2, <2>3, <2>4
<1>2. ASSUME NEW p \in Party, Store(p) PROVE Settled'
  <2>1. CASE mine[p] = active /\ Minted = {p}
    <3>1. \A q \in Party : at'[q] # "store"
      BY <1>2, <2>1 DEF Store, Goto, TypeOK, Minted
    <3>2. stored' = active'
      BY <1>2, <2>1 DEF Store
    <3>. QED
      BY <3>1, <3>2 DEF Settled
  <2>2. CASE ~(mine[p] = active /\ Minted = {p})
    <3>1. lost' = lost /\ crossed' = crossed /\ at[p] = "store"
      BY <1>2, <2>2 DEF Store
    <3>2. CASE ~lost /\ ~crossed
      <4>1. mine[p] = active /\ \A q \in Party : at[q] = "store" => q = p
        BY <3>1, <3>2 DEF Settled
      <4>. QED
        BY <2>2, <3>1, <4>1 DEF Minted
    <3>. QED
      BY <3>1, <3>2 DEF Settled
  <2>. QED
    BY <2>1, <2>2
<1>3. ASSUME NEW p \in Party, StoreFails(p) PROVE Settled'
  BY <1>3 DEF StoreFails, Settled
<1>4. ASSUME NEW s \in Script, ScriptBegin(s) PROVE Settled'
  BY <1>4 DEF ScriptBegin, Settled, Goto, TypeOK, credVars, history
<1>5. ASSUME NEW s \in Script, ScriptLogin(s) PROVE Settled'
  <2>1. CASE Mint(s) /\ Goto(s, "store")
    BY <1>5, <2>1, MintSettled DEF ScriptLogin
  <2>2. CASE ~Mint(s)
    BY <1>5, <2>2 DEF ScriptLogin, Settled, Goto, TypeOK, credVars
  <2>. QED
    BY <1>5, <2>1, <2>2 DEF ScriptLogin, Settled, Goto, TypeOK, credVars
<1>8. ASSUME NEW s \in Script, ScriptLoginLost(s) PROVE Settled'
  BY <1>8 DEF ScriptLoginLost, Settled
<1>6. ASSUME NEW u \in User, Connect(u) PROVE Settled'
  BY <1>6, MintSettled DEF Connect
<1>7. CASE LockExpires \/ LockOverrun \/ CooldownEnds \/ Age
  BY <1>7 DEF LockExpires, LockOverrun, CooldownEnds, Age, Settled, credVars, history
<1>. QED
  BY <1>1, <1>2, <1>3, <1>4, <1>5, <1>6, <1>7, <1>8 DEF Next

-----------------------------------------------------------------------------
LEMMA Inductive == Inv /\ [Next]_vars => Inv'
<1> SUFFICES ASSUME Inv, [Next]_vars PROVE Inv'
  OBVIOUS
<1>1. CASE Next
  BY <1>1, NextTypes, NextCarried, NextLocked, NextSettled DEF Inv
<1>2. CASE UNCHANGED vars
  BY <1>2 DEF Inv, TypeOK, Carried, Attempts, Locked, Busy, Settled, vars, credVars, history
<1>. QED
  BY <1>1, <1>2

LEMMA InvHolds == Spec => []Inv
  BY InitInv, Inductive, PTL DEF Spec

\* The variables keep their types, and a party about to store has a token.
THEOREM TokenTypes == Spec => []TypeOK
<1>1. Inv => TypeOK
  BY DEF Inv
<1>. QED
  BY <1>1, InvHolds, PTL

\* Two refreshes are never between their login and their release, as long as nobody
\* overran the lock and Redis answered.
THEOREM LoginsExclude == Spec => []OneLogin
<1>1. Inv => OneLogin
  BY DEF Inv, Locked, OneLogin
<1>. QED
  BY <1>1, InvHolds, PTL

\* The stored token works but for a mint under way, a lost token, or a crossing.
THEOREM StoredTokenWorks == Spec => []StoredWorks
<1>1. Inv => StoredWorks
  BY DEF Inv, Settled, StoredWorks, Minted
<1>. QED
  BY <1>1, InvHolds, PTL

\* Only the owner, or the end of the lock's time, takes the lock away.
THEOREM OwnersRelease == Spec => OwnLockOnly
<1>1. Inv /\ [Next]_vars =>
        [lock' # lock /\ lock \in Caller => at'[lock] # at[lock] \/ troubles' # troubles]_vars
  <2> SUFFICES ASSUME Inv, Next, lock' # lock, lock \in Caller
               PROVE  at'[lock] # at[lock] \/ troubles' # troubles
    OBVIOUS
  <2> troubles \in Nat /\ at \in [Party -> Labels] /\ Caller \subseteq Party
      /\ None \notin Caller /\ Dead \notin Caller
    BY TokenAssumption DEF Inv, TypeOK, Party
  <2>1. ASSUME NEW c \in Caller, Refresh(c) PROVE at'[lock] # at[lock] \/ troubles' # troubles
    BY <2>1 DEF Refresh, Begin, CheckCooldown, Acquire, AcquireUnlocked, WaitOver, LoginOk, LoginFails,
       LoginLost, Release, Killed, Goto, Trouble
  <2>2. ASSUME NEW p \in Party, Store(p) \/ StoreFails(p) PROVE FALSE
    BY <2>2 DEF Store, StoreFails
  <2>3. ASSUME NEW s \in Script, ScriptBegin(s) \/ ScriptLogin(s) \/ ScriptLoginLost(s) PROVE FALSE
    BY <2>3 DEF ScriptBegin, ScriptLogin, ScriptLoginLost
  <2>4. ASSUME NEW u \in User, Connect(u) PROVE FALSE
    BY <2>4 DEF Connect
  <2>5. CASE LockExpires \/ LockOverrun \/ CooldownEnds \/ Age
    BY <2>5 DEF LockExpires, LockOverrun, CooldownEnds, Age, Trouble
  <2>. QED
    BY <2>1, <2>2, <2>3, <2>4, <2>5 DEF Next
<1>. QED
  BY <1>1, InvHolds, PTL DEF Spec, OwnLockOnly
=============================================================================
