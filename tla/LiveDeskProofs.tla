--------------------------- MODULE LiveDeskProofs ---------------------------
(***************************************************************************)
(* Proofs about LiveDesk, for every value of its constants.                *)
(***************************************************************************)
EXTENDS LiveDesk, FiniteSetTheorems, TLAPS

-----------------------------------------------------------------------------
(* Types.                                                                  *)

USE DEF deskVars, ledgerVars, memVars, taskVars, brokerVars, timeVars, vars

\* Every action keeps every variable in its type.
LEMMA TypeStep == Typed /\ RowsHaveOrders /\ [Next]_vars => Typed'
<1> SUFFICES ASSUME Typed, RowsHaveOrders, [Next]_vars
             PROVE  Typed'
  OBVIOUS
<1> USE DeskAssumption DEF Typed
<1>0. CASE UNCHANGED vars
  BY <1>0 DEF DeskTypes, LedgerTypes, MemTypes, TaskTypes, BrokerTypes, TimeTypes, Pair
<1>1. ASSUME NEW p \in Proc, Begin(p) PROVE Typed'
  <2>1. TaskTypes'
    BY <1>1 DEF Begin, TaskTypes, Goto, Labels
  <2>2. DeskTypes' /\ LedgerTypes' /\ MemTypes' /\ BrokerTypes' /\ TimeTypes'
    BY <1>1 DEF Begin, DeskTypes, LedgerTypes, MemTypes, BrokerTypes, TimeTypes
  <2> QED
    BY <2>1, <2>2
<1>2. ASSUME NEW p \in Proc, Lock(p) PROVE Typed'
  <2>1. MemTypes'
    BY <1>2 DEF Lock, MemTypes
  <2>2. TaskTypes'
    BY <1>2 DEF Lock, TaskTypes, Goto, Labels
  <2>3. DeskTypes' /\ LedgerTypes' /\ BrokerTypes' /\ TimeTypes'
    BY <1>2 DEF Lock, DeskTypes, LedgerTypes, BrokerTypes, TimeTypes
  <2> QED
    BY <2>1, <2>2, <2>3
<1>3. ASSUME NEW p \in Proc, ReadLedger(p) PROVE Typed'
  <2>1. MemTypes'
    BY <1>3 DEF ReadLedger, OpenToday, Open, MemTypes
  <2>2. TaskTypes'
    BY <1>3 DEF ReadLedger, OpenToday, Open, TaskTypes, Goto, Labels
  <2>3. DeskTypes' /\ LedgerTypes' /\ BrokerTypes' /\ TimeTypes'
    BY <1>3 DEF ReadLedger, DeskTypes, LedgerTypes, BrokerTypes, TimeTypes
  <2> QED
    BY <2>1, <2>2, <2>3
<1>4. ASSUME NEW p \in Proc, BookUnread(p) PROVE Typed'
  <2>1. TaskTypes'
    BY <1>4 DEF BookUnread, TaskTypes, Goto, Labels
  <2>2. DeskTypes' /\ LedgerTypes' /\ MemTypes' /\ BrokerTypes' /\ TimeTypes'
    BY <1>4 DEF BookUnread, DeskTypes, LedgerTypes, MemTypes, BrokerTypes, TimeTypes
  <2> QED
    BY <2>1, <2>2
<1>5. ASSUME NEW p \in Proc, ReadBook(p) PROVE Typed'
  <2>1. LedgerTypes'
    BY <1>5 DEF ReadBook, LedgerTypes, BrokerTypes, TaskTypes, Differing, Unlisted
  <2>2. TaskTypes'
    BY <1>5 DEF ReadBook, TaskTypes, Goto, Labels
  <2>3. DeskTypes' /\ MemTypes' /\ BrokerTypes' /\ TimeTypes'
    BY <1>5 DEF ReadBook, DeskTypes, MemTypes, BrokerTypes, TimeTypes
  <2> QED
    BY <2>1, <2>2, <2>3
<1>6. ASSUME NEW p \in Proc, Snapshot(p) PROVE Typed'
  <2>1. TaskTypes'
    BY <1>6 DEF Snapshot, Open, TaskTypes, Goto, Labels, TimeTypes
  <2>2. DeskTypes' /\ LedgerTypes' /\ MemTypes' /\ BrokerTypes' /\ TimeTypes'
    BY <1>6 DEF Snapshot, DeskTypes, LedgerTypes, MemTypes, BrokerTypes, TimeTypes
  <2> QED
    BY <2>1, <2>2
<1>7. ASSUME NEW p \in Proc, RecordExit(p) PROVE Typed'
  <2>1. DeskTypes'
    BY <1>7 DEF RecordExit, ExitLoop, DeskTypes
  <2>2. LedgerTypes'
    BY <1>7 DEF RecordExit, ExitLoop, LedgerTypes
  <2>3. TaskTypes'
    BY <1>7 DEF RecordExit, ExitLoop, TaskTypes, Goto, Labels
  <2>4. MemTypes' /\ BrokerTypes' /\ TimeTypes'
    BY <1>7 DEF RecordExit, MemTypes, BrokerTypes, TimeTypes
  <2> QED
    BY <2>1, <2>2, <2>3, <2>4
<1>8. ASSUME NEW p \in Proc, ExitFailed(p) PROVE Typed'
  <2>1. DeskTypes'
    BY <1>8 DEF ExitFailed, CountReject, ExitLoop, DeskTypes, TaskTypes
  <2>2. TaskTypes'
    BY <1>8 DEF ExitFailed, CountReject, ExitLoop, TaskTypes, Goto, Labels
  <2>3. LedgerTypes' /\ MemTypes' /\ BrokerTypes' /\ TimeTypes'
    BY <1>8 DEF ExitFailed, LedgerTypes, MemTypes, BrokerTypes, TimeTypes
  <2> QED
    BY <2>1, <2>2, <2>3
<1>9. ASSUME NEW p \in Proc, Unlock(p) PROVE Typed'
  <2>1. MemTypes'
    BY <1>9 DEF Unlock, MemTypes
  <2>2. TaskTypes'
    BY <1>9 DEF Unlock, TaskTypes, Goto, Labels
  <2>3. DeskTypes' /\ LedgerTypes' /\ BrokerTypes' /\ TimeTypes'
    BY <1>9 DEF Unlock, DeskTypes, LedgerTypes, BrokerTypes, TimeTypes
  <2> QED
    BY <2>1, <2>2, <2>3
<1>10. ASSUME NEW p \in Proc, ScanHalted(p) PROVE Typed'
  <2>1. TaskTypes'
    BY <1>10 DEF ScanHalted, TaskTypes, Goto, Labels
  <2>2. DeskTypes' /\ LedgerTypes' /\ MemTypes' /\ BrokerTypes' /\ TimeTypes'
    BY <1>10 DEF ScanHalted, DeskTypes, LedgerTypes, MemTypes, BrokerTypes, TimeTypes
  <2> QED
    BY <2>1, <2>2
<1>11. ASSUME NEW p \in Proc, Scan(p) PROVE Typed'
  <2>1. DeskTypes'
    BY <1>11 DEF Scan, Tradable, Pair, DeskTypes
  <2>2. Tradable \subseteq Strategy
    BY DEF Tradable, DeskTypes
  <2>3. {z \in Tradable \X Symbol : lastBar[z] # day} \in SUBSET Pair
    BY <2>2 DEF Pair
  <2>4. TaskTypes'
    BY <1>11, <2>3 DEF Scan, TaskTypes, Goto, Labels
  <2>5. LedgerTypes' /\ MemTypes' /\ BrokerTypes' /\ TimeTypes'
    BY <1>11 DEF Scan, LedgerTypes, MemTypes, BrokerTypes, TimeTypes
  <2> QED
    BY <2>1, <2>2, <2>3, <2>4, <2>5
<1>12. ASSUME NEW p \in Proc, EndScan(p) PROVE Typed'
  <2>1. TaskTypes'
    BY <1>12 DEF EndScan, TaskTypes, Goto, Labels
  <2>2. DeskTypes' /\ LedgerTypes' /\ MemTypes' /\ BrokerTypes' /\ TimeTypes'
    BY <1>12 DEF EndScan, DeskTypes, LedgerTypes, MemTypes, BrokerTypes, TimeTypes
  <2> QED
    BY <2>1, <2>2
<1>13. ASSUME NEW p \in Proc, Check(p) PROVE Typed'
  <2>1. TaskTypes'
    BY <1>13 DEF Check, TaskTypes, Goto, Labels
  <2>2. DeskTypes' /\ LedgerTypes' /\ MemTypes' /\ BrokerTypes' /\ TimeTypes'
    BY <1>13 DEF Check, DeskTypes, LedgerTypes, MemTypes, BrokerTypes, TimeTypes
  <2> QED
    BY <2>1, <2>2
<1>14. ASSUME NEW p \in Proc, PlaceEntry(p) PROVE Typed'
  <2>1. MemTypes'
    BY <1>14 DEF PlaceEntry, ExecuteEntry, Unused, MemTypes, Pair, RowsHaveOrders, TaskTypes,
       BrokerTypes, Order
  <2>2. TaskTypes'
    BY <1>14 DEF PlaceEntry, ExecuteEntry, Unused, TaskTypes, Goto, Labels, DeskTypes
  <2>3. BrokerTypes'
    BY <1>14 DEF PlaceEntry, ExecuteEntry, Unused, BrokerTypes, Side, Pair, TimeTypes,
       RowsHaveOrders, TaskTypes, Order
  <2>4. DeskTypes' /\ LedgerTypes' /\ TimeTypes'
    BY <1>14 DEF PlaceEntry, ExecuteEntry, Unused, DeskTypes, LedgerTypes, TimeTypes
  <2> QED
    BY <2>1, <2>2, <2>3, <2>4
<1>15. ASSUME NEW p \in Proc, RecordEntry(p) PROVE Typed'
  <2>1. DeskTypes'
    BY <1>15 DEF RecordEntry, DeskTypes
  <2>2. LedgerTypes'
    BY <1>15 DEF RecordEntry, LedgerTypes
  <2>3. TaskTypes'
    BY <1>15 DEF RecordEntry, TaskTypes, Goto, Labels
  <2>4. MemTypes' /\ BrokerTypes' /\ TimeTypes'
    BY <1>15 DEF RecordEntry, MemTypes, BrokerTypes, TimeTypes
  <2> QED
    BY <2>1, <2>2, <2>3, <2>4
<1>16. ASSUME NEW p \in Proc, EntryFailed(p) PROVE Typed'
  <2>1. DeskTypes'
    BY <1>16 DEF EntryFailed, CountReject, DeskTypes, TaskTypes
  <2>2. TaskTypes'
    BY <1>16 DEF EntryFailed, CountReject, TaskTypes, Goto, Labels
  <2>3. LedgerTypes' /\ MemTypes' /\ BrokerTypes' /\ TimeTypes'
    BY <1>16 DEF EntryFailed, LedgerTypes, MemTypes, BrokerTypes, TimeTypes
  <2> QED
    BY <2>1, <2>2, <2>3
<1>17. ASSUME NEW p \in Proc, PanicKill(p) PROVE Typed'
  <2>1. DeskTypes'
    BY <1>17 DEF PanicKill, DeskTypes
  <2>2. TaskTypes'
    BY <1>17 DEF PanicKill, TaskTypes, Goto, Labels
  <2>3. LedgerTypes' /\ MemTypes' /\ BrokerTypes' /\ TimeTypes'
    BY <1>17 DEF PanicKill, LedgerTypes, MemTypes, BrokerTypes, TimeTypes
  <2> QED
    BY <2>1, <2>2, <2>3
<1>18. ASSUME NEW p \in Proc, PanicDisarm(p) PROVE Typed'
  <2>1. DeskTypes'
    BY <1>18 DEF PanicDisarm, DeskTypes
  <2>2. TaskTypes'
    BY <1>18 DEF PanicDisarm, TaskTypes, Goto, Labels
  <2>3. LedgerTypes' /\ MemTypes' /\ BrokerTypes' /\ TimeTypes'
    BY <1>18 DEF PanicDisarm, LedgerTypes, MemTypes, BrokerTypes, TimeTypes
  <2> QED
    BY <2>1, <2>2, <2>3
<1>19. ASSUME NEW p \in Proc, Panic(p) PROVE Typed'
  <2>1. TaskTypes'
    BY <1>19 DEF Panic, Open, TaskTypes, Goto, Labels
  <2>2. DeskTypes' /\ LedgerTypes' /\ MemTypes' /\ BrokerTypes' /\ TimeTypes'
    BY <1>19 DEF Panic, DeskTypes, LedgerTypes, MemTypes, BrokerTypes, TimeTypes
  <2> QED
    BY <2>1, <2>2
<1>20. ASSUME NEW p \in Proc, NEW x \in PosId, CloseStale(p, x) PROVE Typed'
  <2>1. LedgerTypes'
    BY <1>20 DEF CloseStale, LedgerTypes
  <2>2. TaskTypes'
    BY <1>20 DEF CloseStale, TaskTypes, Goto, Labels
  <2>3. DeskTypes' /\ MemTypes' /\ BrokerTypes' /\ TimeTypes'
    BY <1>20 DEF CloseStale, DeskTypes, MemTypes, BrokerTypes, TimeTypes
  <2> QED
    BY <2>1, <2>2, <2>3
<1>21. ASSUME NEW p \in Proc, NEW x \in PosId, KeepOpen(p, x) PROVE Typed'
  <2>1. TaskTypes'
    BY <1>21 DEF KeepOpen, TaskTypes, Goto, Labels
  <2>2. DeskTypes' /\ LedgerTypes' /\ MemTypes' /\ BrokerTypes' /\ TimeTypes'
    BY <1>21 DEF KeepOpen, DeskTypes, LedgerTypes, MemTypes, BrokerTypes, TimeTypes
  <2> QED
    BY <2>1, <2>2
<1>22. ASSUME NEW p \in Proc, NEW x \in PosId, SendExit(p, x) PROVE Typed'
  <2>1. MemTypes'
    BY <1>22 DEF SendExit, PlaceExit, ExecuteExit, Alike, MemTypes, RowsHaveOrders, TaskTypes,
       BrokerTypes, Order
  <2>2. TaskTypes'
    BY <1>22 DEF SendExit, PlaceExit, ExecuteExit, Alike, TaskTypes, Goto, Labels, DeskTypes
  <2>3. BrokerTypes'
    BY <1>22 DEF SendExit, PlaceExit, ExecuteExit, Alike, BrokerTypes, RowsHaveOrders, TaskTypes,
       Order
  <2>4. DeskTypes' /\ LedgerTypes' /\ TimeTypes'
    BY <1>22 DEF SendExit, PlaceExit, ExecuteExit, Alike, DeskTypes, LedgerTypes, TimeTypes
  <2> QED
    BY <2>1, <2>2, <2>3, <2>4
<1>23. ASSUME NEW p \in Proc, NEW x \in PosId, PanicExit(p, x) PROVE Typed'
  <2>1. MemTypes'
    BY <1>23 DEF PanicExit, PlaceExit, ExecuteExit, Alike, MemTypes, RowsHaveOrders, TaskTypes,
       BrokerTypes, Order
  <2>2. TaskTypes'
    BY <1>23 DEF PanicExit, PlaceExit, ExecuteExit, Alike, TaskTypes, Goto, Labels, DeskTypes
  <2>3. BrokerTypes'
    BY <1>23 DEF PanicExit, PlaceExit, ExecuteExit, Alike, BrokerTypes, RowsHaveOrders, TaskTypes,
       Order
  <2>4. DeskTypes' /\ LedgerTypes' /\ TimeTypes'
    BY <1>23 DEF PanicExit, PlaceExit, ExecuteExit, Alike, DeskTypes, LedgerTypes, TimeTypes
  <2> QED
    BY <2>1, <2>2, <2>3, <2>4
<1>24. ASSUME NEW p \in Proc, NEW k \in Pair, NoSignal(p, k) PROVE Typed'
  <2>1. TaskTypes'
    BY <1>24 DEF NoSignal, TaskTypes, Goto, Labels
  <2>2. DeskTypes' /\ LedgerTypes' /\ MemTypes' /\ BrokerTypes' /\ TimeTypes'
    BY <1>24 DEF NoSignal, DeskTypes, LedgerTypes, MemTypes, BrokerTypes, TimeTypes
  <2> QED
    BY <2>1, <2>2
<1>25. ASSUME NEW p \in Proc, NEW k \in Pair, Offer(p, k) PROVE Typed'
  <2>1. DeskTypes'
    BY <1>25 DEF Offer, DeskTypes, TimeTypes
  <2>2. TaskTypes'
    BY <1>25 DEF Offer, TaskTypes, Goto, Labels
  <2>3. LedgerTypes' /\ MemTypes' /\ BrokerTypes' /\ TimeTypes'
    BY <1>25 DEF Offer, LedgerTypes, MemTypes, BrokerTypes, TimeTypes
  <2> QED
    BY <2>1, <2>2, <2>3
<1>26. CASE Arm
  <2>1. DeskTypes'
    BY <1>26 DEF Arm, DeskTypes
  <2>2. LedgerTypes' /\ MemTypes' /\ TaskTypes' /\ BrokerTypes' /\ TimeTypes'
    BY <1>26 DEF Arm, LedgerTypes, MemTypes, TaskTypes, BrokerTypes, TimeTypes
  <2> QED
    BY <2>1, <2>2
<1>27. CASE Disarm
  <2>1. DeskTypes'
    BY <1>27 DEF Disarm, DeskTypes
  <2>2. LedgerTypes' /\ MemTypes' /\ TaskTypes' /\ BrokerTypes' /\ TimeTypes'
    BY <1>27 DEF Disarm, LedgerTypes, MemTypes, TaskTypes, BrokerTypes, TimeTypes
  <2> QED
    BY <2>1, <2>2
<1>28. ASSUME NEW b \in BOOLEAN, KillSwitch(b) PROVE Typed'
  <2>1. DeskTypes'
    BY <1>28 DEF KillSwitch, DeskTypes
  <2>2. LedgerTypes' /\ MemTypes' /\ TaskTypes' /\ BrokerTypes' /\ TimeTypes'
    BY <1>28 DEF KillSwitch, LedgerTypes, MemTypes, TaskTypes, BrokerTypes, TimeTypes
  <2> QED
    BY <2>1, <2>2
<1>29. ASSUME NEW s \in Strategy, NEW b \in BOOLEAN, SetEnabled(s, b) PROVE Typed'
  <2>1. DeskTypes'
    BY <1>29 DEF SetEnabled, DeskTypes
  <2>2. LedgerTypes' /\ MemTypes' /\ TaskTypes' /\ BrokerTypes' /\ TimeTypes'
    BY <1>29 DEF SetEnabled, LedgerTypes, MemTypes, TaskTypes, BrokerTypes, TimeTypes
  <2> QED
    BY <2>1, <2>2
<1>30. ASSUME NEW s \in Strategy, Verdict(s) PROVE Typed'
  <2>1. DeskTypes'
    BY <1>30 DEF Verdict, DeskTypes
  <2>2. LedgerTypes' /\ MemTypes' /\ TaskTypes' /\ BrokerTypes' /\ TimeTypes'
    BY <1>30 DEF Verdict, LedgerTypes, MemTypes, TaskTypes, BrokerTypes, TimeTypes
  <2> QED
    BY <2>1, <2>2
<1>31. ASSUME NEW y \in Symbol, SquareOff(y) PROVE Typed'
  <2>1. BrokerTypes'
    BY <1>31 DEF SquareOff, BrokerTypes
  <2>2. DeskTypes' /\ LedgerTypes' /\ MemTypes' /\ TaskTypes' /\ TimeTypes'
    BY <1>31 DEF SquareOff, DeskTypes, LedgerTypes, MemTypes, TaskTypes, TimeTypes
  <2> QED
    BY <2>1, <2>2
<1>32. CASE Elapse
  <2>1. MemTypes'
    BY <1>32 DEF Elapse, MemTypes
  <2>2. DeskTypes' /\ LedgerTypes' /\ TaskTypes' /\ BrokerTypes' /\ TimeTypes'
    BY <1>32 DEF Elapse, DeskTypes, LedgerTypes, TaskTypes, BrokerTypes, TimeTypes
  <2> QED
    BY <2>1, <2>2
<1>33. CASE Tick
  <2>1. TimeTypes'
    BY <1>33 DEF Tick, TimeTypes
  <2>2. DeskTypes' /\ LedgerTypes' /\ MemTypes' /\ TaskTypes' /\ BrokerTypes'
    BY <1>33 DEF Tick, DeskTypes, LedgerTypes, MemTypes, TaskTypes, BrokerTypes
  <2> QED
    BY <2>1, <2>2
<1>34. CASE NextDay
  <2>1. MemTypes'
    BY <1>34 DEF NextDay, MemTypes
  <2>2. BrokerTypes'
    BY <1>34 DEF NextDay, BrokerTypes
  <2>3. TimeTypes'
    BY <1>34 DEF NextDay, TimeTypes
  <2>4. DeskTypes' /\ LedgerTypes' /\ TaskTypes'
    BY <1>34 DEF NextDay, DeskTypes, LedgerTypes, TaskTypes
  <2> QED
    BY <2>1, <2>2, <2>3, <2>4
<1>35. CASE Crash
  <2>1. MemTypes'
    BY <1>35 DEF Crash, MemTypes
  <2>2. TaskTypes'
    BY <1>35 DEF Crash, TaskTypes, Goto, Labels
  <2>3. DeskTypes' /\ LedgerTypes' /\ BrokerTypes' /\ TimeTypes'
    BY <1>35 DEF Crash, DeskTypes, LedgerTypes, BrokerTypes, TimeTypes
  <2> QED
    BY <2>1, <2>2, <2>3
<1>36. ASSUME NEW p \in Proc, Step(p) PROVE Typed'
  BY <1>36, <1>1, <1>2, <1>3, <1>4, <1>5, <1>6, <1>20, <1>21, <1>22, <1>7, <1>8, <1>9, <1>10,
     <1>11, <1>24, <1>25, <1>12, <1>13, <1>14, <1>15, <1>16, <1>23, <1>17, <1>18 DEF Step
<1>37. CASE User
  BY <1>37, <1>26, <1>27, <1>28, <1>29, <1>30, <1>19 DEF User
<1>38. CASE World
  BY <1>38, <1>31, <1>32, <1>33, <1>34, <1>35 DEF World
<1> QED
  BY <1>0, <1>36, <1>37, <1>38 DEF Next

\* Rows keep their orders: entry orders are never rewritten, and rows and hands
\* are only ever filled from orders that were accepted.
LEMMA RowsStep ==
  Typed /\ RowsHaveOrders /\ [Next]_vars => RowsHaveOrders'
<1> SUFFICES ASSUME Typed, RowsHaveOrders, [Next]_vars
             PROVE  RowsHaveOrders'
  OBVIOUS
<1> USE DeskAssumption DEF Typed, TaskTypes, RowsHaveOrders, Goto
<1>0. CASE UNCHANGED vars
  BY <1>0
<1>1. ASSUME NEW p \in Proc, Begin(p) PROVE RowsHaveOrders'
  BY <1>1 DEF Begin
<1>2. ASSUME NEW p \in Proc, Lock(p) PROVE RowsHaveOrders'
  BY <1>2 DEF Lock
<1>3. ASSUME NEW p \in Proc, ReadLedger(p) PROVE RowsHaveOrders'
  BY <1>3 DEF ReadLedger, Open, OpenToday
<1>4. ASSUME NEW p \in Proc, BookUnread(p) PROVE RowsHaveOrders'
  BY <1>4 DEF BookUnread
<1>5. ASSUME NEW p \in Proc, ReadBook(p) PROVE RowsHaveOrders'
  BY <1>5 DEF ReadBook, BrokerFlat, Differing, Rejected, Unlisted
<1>6. ASSUME NEW p \in Proc, Snapshot(p) PROVE RowsHaveOrders'
  BY <1>6 DEF Snapshot, Open
<1>7. ASSUME NEW p \in Proc, NEW x \in PosId, CloseStale(p, x) PROVE RowsHaveOrders'
  BY <1>7 DEF CloseStale
<1>8. ASSUME NEW p \in Proc, NEW x \in PosId, KeepOpen(p, x) PROVE RowsHaveOrders'
  BY <1>8 DEF KeepOpen
<1>9. ASSUME NEW p \in Proc, NEW x \in PosId, SendExit(p, x) PROVE RowsHaveOrders'
  BY <1>9 DEF SendExit, PlaceExit, ExecuteExit
<1>10. ASSUME NEW p \in Proc, RecordExit(p) PROVE RowsHaveOrders'
  BY <1>10 DEF RecordExit, ExitLoop
<1>11. ASSUME NEW p \in Proc, ExitFailed(p) PROVE RowsHaveOrders'
  BY <1>11 DEF ExitFailed, ExitLoop
<1>12. ASSUME NEW p \in Proc, Unlock(p) PROVE RowsHaveOrders'
  BY <1>12 DEF Unlock
<1>13. ASSUME NEW p \in Proc, ScanHalted(p) PROVE RowsHaveOrders'
  BY <1>13 DEF ScanHalted
<1>14. ASSUME NEW p \in Proc, Scan(p) PROVE RowsHaveOrders'
  BY <1>14 DEF Scan
<1>15. ASSUME NEW p \in Proc, NEW k \in Pair, NoSignal(p, k) PROVE RowsHaveOrders'
  BY <1>15 DEF NoSignal
<1>16. ASSUME NEW p \in Proc, NEW k \in Pair, Offer(p, k) PROVE RowsHaveOrders'
  BY <1>16 DEF Offer
<1>17. ASSUME NEW p \in Proc, EndScan(p) PROVE RowsHaveOrders'
  BY <1>17 DEF EndScan
<1>18. ASSUME NEW p \in Proc, Check(p) PROVE RowsHaveOrders'
  BY <1>18 DEF Check
<1>19. ASSUME NEW p \in Proc, PlaceEntry(p) PROVE RowsHaveOrders'
  <2>1. NoOrder \notin Order
    BY DEF NoOrder, Order, Side
  <2>2. \A x \in PosId : entry[x] \in Order => entry'[x] = entry[x]
    BY <1>19, <2>1 DEF PlaceEntry, ExecuteEntry, Unused, BrokerTypes
  <2>3. pc'[p] = "entry_ok" => cur'[p] \in PosId /\ entry'[cur'[p]] \in Order
    BY <1>19 DEF PlaceEntry, ExecuteEntry, Unused, BrokerTypes, TimeTypes, Order, Side, Pair
  <2>4. pc'[p] \in {"entry_ok", "offers", "entry_fail"}
    BY <1>19 DEF PlaceEntry
  <2> QED
    BY <1>19, <2>2, <2>3, <2>4 DEF PlaceEntry
<1>20. ASSUME NEW p \in Proc, RecordEntry(p) PROVE RowsHaveOrders'
  BY <1>20 DEF RecordEntry
<1>21. ASSUME NEW p \in Proc, EntryFailed(p) PROVE RowsHaveOrders'
  BY <1>21 DEF EntryFailed
<1>22. ASSUME NEW p \in Proc, NEW x \in PosId, PanicExit(p, x) PROVE RowsHaveOrders'
  BY <1>22 DEF PanicExit, PlaceExit, ExecuteExit
<1>23. ASSUME NEW p \in Proc, PanicKill(p) PROVE RowsHaveOrders'
  BY <1>23 DEF PanicKill
<1>24. ASSUME NEW p \in Proc, PanicDisarm(p) PROVE RowsHaveOrders'
  BY <1>24 DEF PanicDisarm
<1>25. CASE Arm
  BY <1>25 DEF Arm
<1>26. CASE Disarm
  BY <1>26 DEF Disarm
<1>27. ASSUME NEW b \in BOOLEAN, KillSwitch(b) PROVE RowsHaveOrders'
  BY <1>27 DEF KillSwitch
<1>28. ASSUME NEW s \in Strategy, NEW b \in BOOLEAN, SetEnabled(s, b) PROVE RowsHaveOrders'
  BY <1>28 DEF SetEnabled
<1>29. ASSUME NEW s \in Strategy, Verdict(s) PROVE RowsHaveOrders'
  BY <1>29 DEF Verdict
<1>30. ASSUME NEW p \in Proc, Panic(p) PROVE RowsHaveOrders'
  BY <1>30 DEF Panic, Open
<1>31. ASSUME NEW y \in Symbol, SquareOff(y) PROVE RowsHaveOrders'
  BY <1>31 DEF SquareOff
<1>32. CASE Elapse
  BY <1>32 DEF Elapse
<1>33. CASE Tick
  BY <1>33 DEF Tick
<1>34. CASE NextDay
  BY <1>34 DEF NextDay
<1>35. CASE Crash
  BY <1>35 DEF Crash
<1>36. ASSUME NEW p \in Proc, Step(p) PROVE RowsHaveOrders'
  BY <1>36, <1>1, <1>2, <1>3, <1>4, <1>5, <1>6, <1>7, <1>8, <1>9, <1>10, <1>11, <1>12, <1>13,
     <1>14, <1>15, <1>16, <1>17, <1>18, <1>19, <1>20, <1>21, <1>22, <1>23, <1>24 DEF Step
<1>37. CASE User
  BY <1>37, <1>25, <1>26, <1>27, <1>28, <1>29, <1>30 DEF User
<1>38. CASE World
  BY <1>38, <1>31, <1>32, <1>33, <1>34, <1>35 DEF World
<1> QED
  BY <1>0, <1>36, <1>37, <1>38 DEF Next

LEMMA InitTypes == Init => Typed /\ RowsHaveOrders
<1> USE DeskAssumption DEF Init
<1>1. Init => DeskTypes
  <2>1. Init => lastBar \in [Pair -> 0..LastDay] /\ rejects \in 0..MaxRejects
    OBVIOUS
  <2> QED
    BY <2>1 DEF DeskTypes
<1>2. Init => LedgerTypes /\ MemTypes
  BY DEF LedgerTypes, MemTypes
<1>3. Init => TaskTypes
  BY DEF TaskTypes, Labels
<1>4. Init => BrokerTypes /\ TimeTypes
  BY DEF BrokerTypes, TimeTypes
<1>5. Init => RowsHaveOrders
  BY DEF RowsHaveOrders
<1> QED
  BY <1>1, <1>2, <1>3, <1>4, <1>5 DEF Typed

\* Every variable keeps its type, and every ledger row and every row in a task's hands belongs
\* to an order the broker accepted, for any number of tasks, strategies, symbols, days and
\* faults; a declined or failed entry leaves no row.
THEOREM TypeCorrect == Spec => []TypeOK
<1>1. Init => TypeOK
  BY InitTypes DEF TypeOK
<1>2. TypeOK /\ [Next]_vars => TypeOK'
  BY TypeStep, RowsStep DEF TypeOK
<1> QED
  BY <1>1, <1>2, PTL DEF Spec

-----------------------------------------------------------------------------
(* The kill switch.                                                        *)

\* Only Offer lets a task in among those about to order, and it reads the gate.
LEMMA EnteringStep ==
  Typed /\ [Next]_vars => (kill /\ kill' => Entering' \subseteq Entering)
<1> SUFFICES ASSUME Typed, [Next]_vars, kill, kill'
             PROVE  Entering' \subseteq Entering
  OBVIOUS
<1> USE DEF Typed, TaskTypes, Entering, Goto
<1>0. CASE UNCHANGED vars
  BY <1>0
<1>1. ASSUME NEW p \in Proc, Begin(p) PROVE Entering' \subseteq Entering
  BY <1>1 DEF Begin
<1>2. ASSUME NEW p \in Proc, Lock(p) PROVE Entering' \subseteq Entering
  BY <1>2 DEF Lock
<1>3. ASSUME NEW p \in Proc, ReadLedger(p) PROVE Entering' \subseteq Entering
  BY <1>3 DEF ReadLedger
<1>4. ASSUME NEW p \in Proc, BookUnread(p) PROVE Entering' \subseteq Entering
  BY <1>4 DEF BookUnread
<1>5. ASSUME NEW p \in Proc, ReadBook(p) PROVE Entering' \subseteq Entering
  BY <1>5 DEF ReadBook
<1>6. ASSUME NEW p \in Proc, Snapshot(p) PROVE Entering' \subseteq Entering
  BY <1>6 DEF Snapshot
<1>7. ASSUME NEW p \in Proc, NEW x \in PosId, CloseStale(p, x) PROVE Entering' \subseteq Entering
  BY <1>7 DEF CloseStale
<1>8. ASSUME NEW p \in Proc, NEW x \in PosId, KeepOpen(p, x) PROVE Entering' \subseteq Entering
  BY <1>8 DEF KeepOpen
<1>9. ASSUME NEW p \in Proc, NEW x \in PosId, SendExit(p, x) PROVE Entering' \subseteq Entering
  BY <1>9 DEF SendExit, PlaceExit, ExecuteExit
<1>10. ASSUME NEW p \in Proc, RecordExit(p) PROVE Entering' \subseteq Entering
  BY <1>10 DEF RecordExit, ExitLoop
<1>11. ASSUME NEW p \in Proc, ExitFailed(p) PROVE Entering' \subseteq Entering
  BY <1>11 DEF ExitFailed, ExitLoop
<1>12. ASSUME NEW p \in Proc, Unlock(p) PROVE Entering' \subseteq Entering
  BY <1>12 DEF Unlock
<1>13. ASSUME NEW p \in Proc, ScanHalted(p) PROVE Entering' \subseteq Entering
  BY <1>13 DEF ScanHalted
<1>14. ASSUME NEW p \in Proc, Scan(p) PROVE Entering' \subseteq Entering
  BY <1>14 DEF Scan
<1>15. ASSUME NEW p \in Proc, NEW k \in Pair, NoSignal(p, k) PROVE Entering' \subseteq Entering
  BY <1>15 DEF NoSignal
<1>16. ASSUME NEW p \in Proc, NEW k \in Pair, Offer(p, k) PROVE Entering' \subseteq Entering
  BY <1>16 DEF Offer
<1>17. ASSUME NEW p \in Proc, EndScan(p) PROVE Entering' \subseteq Entering
  BY <1>17 DEF EndScan
<1>18. ASSUME NEW p \in Proc, Check(p) PROVE Entering' \subseteq Entering
  BY <1>18 DEF Check
<1>19. ASSUME NEW p \in Proc, PlaceEntry(p) PROVE Entering' \subseteq Entering
  BY <1>19 DEF PlaceEntry, ExecuteEntry, Unused
<1>20. ASSUME NEW p \in Proc, RecordEntry(p) PROVE Entering' \subseteq Entering
  BY <1>20 DEF RecordEntry
<1>21. ASSUME NEW p \in Proc, EntryFailed(p) PROVE Entering' \subseteq Entering
  BY <1>21 DEF EntryFailed
<1>22. ASSUME NEW p \in Proc, NEW x \in PosId, PanicExit(p, x) PROVE Entering' \subseteq Entering
  BY <1>22 DEF PanicExit, PlaceExit, ExecuteExit
<1>23. ASSUME NEW p \in Proc, PanicKill(p) PROVE Entering' \subseteq Entering
  BY <1>23 DEF PanicKill
<1>24. ASSUME NEW p \in Proc, PanicDisarm(p) PROVE Entering' \subseteq Entering
  BY <1>24 DEF PanicDisarm
<1>25. CASE Arm
  BY <1>25 DEF Arm
<1>26. CASE Disarm
  BY <1>26 DEF Disarm
<1>27. ASSUME NEW b \in BOOLEAN, KillSwitch(b) PROVE Entering' \subseteq Entering
  BY <1>27 DEF KillSwitch
<1>28. ASSUME NEW s \in Strategy, NEW b \in BOOLEAN, SetEnabled(s, b) PROVE Entering' \subseteq
   Entering
  BY <1>28 DEF SetEnabled
<1>29. ASSUME NEW s \in Strategy, Verdict(s) PROVE Entering' \subseteq Entering
  BY <1>29 DEF Verdict
<1>30. ASSUME NEW p \in Proc, Panic(p) PROVE Entering' \subseteq Entering
  BY <1>30 DEF Panic
<1>31. ASSUME NEW y \in Symbol, SquareOff(y) PROVE Entering' \subseteq Entering
  BY <1>31 DEF SquareOff
<1>32. CASE Elapse
  BY <1>32 DEF Elapse
<1>33. CASE Tick
  BY <1>33 DEF Tick
<1>34. CASE NextDay
  BY <1>34 DEF NextDay
<1>35. CASE Crash
  BY <1>35 DEF Crash
<1>36. ASSUME NEW p \in Proc, Step(p) PROVE Entering' \subseteq Entering
  BY <1>36, <1>1, <1>2, <1>3, <1>4, <1>5, <1>6, <1>7, <1>8, <1>9, <1>10, <1>11, <1>12, <1>13,
     <1>14, <1>15, <1>16, <1>17, <1>18, <1>19, <1>20, <1>21, <1>22, <1>23, <1>24 DEF Step
<1>37. CASE User
  BY <1>37, <1>25, <1>26, <1>27, <1>28, <1>29, <1>30 DEF User
<1>38. CASE World
  BY <1>38, <1>31, <1>32, <1>33, <1>34, <1>35 DEF World
<1> QED
  BY <1>0, <1>36, <1>37, <1>38 DEF Next

\* Once the kill switch is on, only the entries already past the gate can still go
\* out, whatever else happens.
THEOREM KillSwitchDrains == Spec => KillDrains
<1>1. TypeOK /\ [Next]_vars => (kill /\ kill' => Entering' \subseteq Entering)
  BY EnteringStep DEF TypeOK
<1> QED
  BY <1>1, TypeCorrect, PTL DEF Spec, KillDrains

-----------------------------------------------------------------------------
(* The manage lock.                                                        *)

\* A managing task holds the lock; the panic tasks have labels of their own.
PanicLabels == {"panic", "panic_off"}

LockHeld ==
  /\ \A p \in Runner \cup Closer : pc[p] \in Managing => lock = p
  /\ \A p \in Runner \cup Closer : pc[p] \notin PanicLabels
  /\ \A p \in Panicker : pc[p] \in PanicLabels \cup {"idle", "exit_ok", "exit_fail"}

\* Mutual exclusion of the manage cycles, which a restart resets with the rest of
\* the process's memory.
LEMMA LockStep ==
  Typed /\ LockHeld /\ [Next]_vars => LockHeld'
<1> SUFFICES ASSUME Typed, LockHeld, [Next]_vars
             PROVE  LockHeld'
  OBVIOUS
<1> USE DeskAssumption DEF Typed, TaskTypes, LockHeld, Managing, PanicLabels, Goto, Proc
<1>0. CASE UNCHANGED vars
  BY <1>0
<1>1. ASSUME NEW p \in Proc, Begin(p) PROVE LockHeld'
  BY <1>1 DEF Begin
<1>2. ASSUME NEW p \in Proc, Lock(p) PROVE LockHeld'
  BY <1>2 DEF Lock
<1>3. ASSUME NEW p \in Proc, ReadLedger(p) PROVE LockHeld'
  BY <1>3 DEF ReadLedger
<1>4. ASSUME NEW p \in Proc, BookUnread(p) PROVE LockHeld'
  BY <1>4 DEF BookUnread
<1>5. ASSUME NEW p \in Proc, ReadBook(p) PROVE LockHeld'
  BY <1>5 DEF ReadBook
<1>6. ASSUME NEW p \in Proc, Snapshot(p) PROVE LockHeld'
  BY <1>6 DEF Snapshot
<1>7. ASSUME NEW p \in Proc, NEW x \in PosId, CloseStale(p, x) PROVE LockHeld'
  BY <1>7 DEF CloseStale
<1>8. ASSUME NEW p \in Proc, NEW x \in PosId, KeepOpen(p, x) PROVE LockHeld'
  BY <1>8 DEF KeepOpen
<1>9. ASSUME NEW p \in Proc, NEW x \in PosId, SendExit(p, x) PROVE LockHeld'
  BY <1>9 DEF SendExit, PlaceExit, ExecuteExit
<1>10. ASSUME NEW p \in Proc, RecordExit(p) PROVE LockHeld'
  BY <1>10 DEF RecordExit, ExitLoop
<1>11. ASSUME NEW p \in Proc, ExitFailed(p) PROVE LockHeld'
  BY <1>11 DEF ExitFailed, ExitLoop
<1>12. ASSUME NEW p \in Proc, Unlock(p) PROVE LockHeld'
  BY <1>12 DEF Unlock
<1>13. ASSUME NEW p \in Proc, ScanHalted(p) PROVE LockHeld'
  BY <1>13 DEF ScanHalted
<1>14. ASSUME NEW p \in Proc, Scan(p) PROVE LockHeld'
  BY <1>14 DEF Scan
<1>15. ASSUME NEW p \in Proc, NEW k \in Pair, NoSignal(p, k) PROVE LockHeld'
  BY <1>15 DEF NoSignal
<1>16. ASSUME NEW p \in Proc, NEW k \in Pair, Offer(p, k) PROVE LockHeld'
  BY <1>16 DEF Offer
<1>17. ASSUME NEW p \in Proc, EndScan(p) PROVE LockHeld'
  BY <1>17 DEF EndScan
<1>18. ASSUME NEW p \in Proc, Check(p) PROVE LockHeld'
  BY <1>18 DEF Check
<1>19. ASSUME NEW p \in Proc, PlaceEntry(p) PROVE LockHeld'
  BY <1>19 DEF PlaceEntry, ExecuteEntry, Unused
<1>20. ASSUME NEW p \in Proc, RecordEntry(p) PROVE LockHeld'
  BY <1>20 DEF RecordEntry
<1>21. ASSUME NEW p \in Proc, EntryFailed(p) PROVE LockHeld'
  BY <1>21 DEF EntryFailed
<1>22. ASSUME NEW p \in Proc, NEW x \in PosId, PanicExit(p, x) PROVE LockHeld'
  BY <1>22 DEF PanicExit, PlaceExit, ExecuteExit
<1>23. ASSUME NEW p \in Proc, PanicKill(p) PROVE LockHeld'
  BY <1>23 DEF PanicKill
<1>24. ASSUME NEW p \in Proc, PanicDisarm(p) PROVE LockHeld'
  BY <1>24 DEF PanicDisarm
<1>25. CASE Arm
  BY <1>25 DEF Arm
<1>26. CASE Disarm
  BY <1>26 DEF Disarm
<1>27. ASSUME NEW b \in BOOLEAN, KillSwitch(b) PROVE LockHeld'
  BY <1>27 DEF KillSwitch
<1>28. ASSUME NEW s \in Strategy, NEW b \in BOOLEAN, SetEnabled(s, b) PROVE LockHeld'
  BY <1>28 DEF SetEnabled
<1>29. ASSUME NEW s \in Strategy, Verdict(s) PROVE LockHeld'
  BY <1>29 DEF Verdict
<1>30. ASSUME NEW p \in Proc, Panic(p) PROVE LockHeld'
  BY <1>30 DEF Panic
<1>31. ASSUME NEW y \in Symbol, SquareOff(y) PROVE LockHeld'
  BY <1>31 DEF SquareOff
<1>32. CASE Elapse
  BY <1>32 DEF Elapse
<1>33. CASE Tick
  BY <1>33 DEF Tick
<1>34. CASE NextDay
  BY <1>34 DEF NextDay
<1>35. CASE Crash
  BY <1>35 DEF Crash
<1>36. ASSUME NEW p \in Proc, Step(p) PROVE LockHeld'
  BY <1>36, <1>1, <1>2, <1>3, <1>4, <1>5, <1>6, <1>7, <1>8, <1>9, <1>10, <1>11, <1>12, <1>13,
     <1>14, <1>15, <1>16, <1>17, <1>18, <1>19, <1>20, <1>21, <1>22, <1>23, <1>24 DEF Step
<1>37. CASE User
  BY <1>37, <1>25, <1>26, <1>27, <1>28, <1>29, <1>30 DEF User
<1>38. CASE World
  BY <1>38, <1>31, <1>32, <1>33, <1>34, <1>35 DEF World
<1> QED
  BY <1>0, <1>36, <1>37, <1>38 DEF Next

\* A row is marked only by a cycle that is reading the book, which no other cycle
\* can be sending an exit beside.
LEMMA MarkedStep ==
  Typed /\ LockHeld /\ MarkedNotExited /\ [Next]_vars => MarkedNotExited'
<1> SUFFICES ASSUME Typed, LockHeld, MarkedNotExited, [Next]_vars
             PROVE  MarkedNotExited'
  OBVIOUS
<1> USE DeskAssumption DEF Typed, TaskTypes, LockHeld, Managing, PanicLabels, MarkedNotExited,
   Goto, Proc
<1>0. CASE UNCHANGED vars
  BY <1>0
<1>1. ASSUME NEW p \in Proc, Begin(p) PROVE MarkedNotExited'
  BY <1>1 DEF Begin
<1>2. ASSUME NEW p \in Proc, Lock(p) PROVE MarkedNotExited'
  BY <1>2 DEF Lock
<1>3. ASSUME NEW p \in Proc, ReadLedger(p) PROVE MarkedNotExited'
  BY <1>3 DEF ReadLedger
<1>4. ASSUME NEW p \in Proc, BookUnread(p) PROVE MarkedNotExited'
  BY <1>4 DEF BookUnread
<1>5. ASSUME NEW p \in Proc, ReadBook(p) PROVE MarkedNotExited'
  BY <1>5 DEF ReadBook
<1>6. ASSUME NEW p \in Proc, Snapshot(p) PROVE MarkedNotExited'
  BY <1>6 DEF Snapshot
<1>7. ASSUME NEW p \in Proc, NEW x \in PosId, CloseStale(p, x) PROVE MarkedNotExited'
  BY <1>7 DEF CloseStale
<1>8. ASSUME NEW p \in Proc, NEW x \in PosId, KeepOpen(p, x) PROVE MarkedNotExited'
  BY <1>8 DEF KeepOpen
<1>9. ASSUME NEW p \in Proc, NEW x \in PosId, SendExit(p, x) PROVE MarkedNotExited'
  BY <1>9 DEF SendExit, Exitable, PlaceExit, ExecuteExit
<1>10. ASSUME NEW p \in Proc, RecordExit(p) PROVE MarkedNotExited'
  BY <1>10 DEF RecordExit, ExitLoop
<1>11. ASSUME NEW p \in Proc, ExitFailed(p) PROVE MarkedNotExited'
  BY <1>11 DEF ExitFailed, ExitLoop
<1>12. ASSUME NEW p \in Proc, Unlock(p) PROVE MarkedNotExited'
  BY <1>12 DEF Unlock
<1>13. ASSUME NEW p \in Proc, ScanHalted(p) PROVE MarkedNotExited'
  BY <1>13 DEF ScanHalted
<1>14. ASSUME NEW p \in Proc, Scan(p) PROVE MarkedNotExited'
  BY <1>14 DEF Scan
<1>15. ASSUME NEW p \in Proc, NEW k \in Pair, NoSignal(p, k) PROVE MarkedNotExited'
  BY <1>15 DEF NoSignal
<1>16. ASSUME NEW p \in Proc, NEW k \in Pair, Offer(p, k) PROVE MarkedNotExited'
  BY <1>16 DEF Offer
<1>17. ASSUME NEW p \in Proc, EndScan(p) PROVE MarkedNotExited'
  BY <1>17 DEF EndScan
<1>18. ASSUME NEW p \in Proc, Check(p) PROVE MarkedNotExited'
  BY <1>18 DEF Check
<1>19. ASSUME NEW p \in Proc, PlaceEntry(p) PROVE MarkedNotExited'
  BY <1>19 DEF PlaceEntry, ExecuteEntry, Unused
<1>20. ASSUME NEW p \in Proc, RecordEntry(p) PROVE MarkedNotExited'
  BY <1>20 DEF RecordEntry
<1>21. ASSUME NEW p \in Proc, EntryFailed(p) PROVE MarkedNotExited'
  BY <1>21 DEF EntryFailed
<1>22. ASSUME NEW p \in Proc, NEW x \in PosId, PanicExit(p, x) PROVE MarkedNotExited'
  BY <1>22 DEF PanicExit, PlaceExit, ExecuteExit
<1>23. ASSUME NEW p \in Proc, PanicKill(p) PROVE MarkedNotExited'
  BY <1>23 DEF PanicKill
<1>24. ASSUME NEW p \in Proc, PanicDisarm(p) PROVE MarkedNotExited'
  BY <1>24 DEF PanicDisarm
<1>25. CASE Arm
  BY <1>25 DEF Arm
<1>26. CASE Disarm
  BY <1>26 DEF Disarm
<1>27. ASSUME NEW b \in BOOLEAN, KillSwitch(b) PROVE MarkedNotExited'
  BY <1>27 DEF KillSwitch
<1>28. ASSUME NEW s \in Strategy, NEW b \in BOOLEAN, SetEnabled(s, b) PROVE MarkedNotExited'
  BY <1>28 DEF SetEnabled
<1>29. ASSUME NEW s \in Strategy, Verdict(s) PROVE MarkedNotExited'
  BY <1>29 DEF Verdict
<1>30. ASSUME NEW p \in Proc, Panic(p) PROVE MarkedNotExited'
  BY <1>30 DEF Panic
<1>31. ASSUME NEW y \in Symbol, SquareOff(y) PROVE MarkedNotExited'
  BY <1>31 DEF SquareOff
<1>32. CASE Elapse
  BY <1>32 DEF Elapse
<1>33. CASE Tick
  BY <1>33 DEF Tick
<1>34. CASE NextDay
  BY <1>34 DEF NextDay
<1>35. CASE Crash
  BY <1>35 DEF Crash
<1>36. ASSUME NEW p \in Proc, Step(p) PROVE MarkedNotExited'
  BY <1>36, <1>1, <1>2, <1>3, <1>4, <1>5, <1>6, <1>7, <1>8, <1>9, <1>10, <1>11, <1>12, <1>13,
     <1>14, <1>15, <1>16, <1>17, <1>18, <1>19, <1>20, <1>21, <1>22, <1>23, <1>24 DEF Step
<1>37. CASE User
  BY <1>37, <1>25, <1>26, <1>27, <1>28, <1>29, <1>30 DEF User
<1>38. CASE World
  BY <1>38, <1>31, <1>32, <1>33, <1>34, <1>35 DEF World
<1> QED
  BY <1>0, <1>36, <1>37, <1>38 DEF Next

\* The reconciliation never marks a row whose automatic exit is in flight, for any
\* number of overlapping run_cycle and close-out tasks and any faults.
THEOREM MarkedRowsNotExited == Spec => []MarkedNotExited
<1>1. Init => LockHeld /\ MarkedNotExited
  BY DeskAssumption DEF Init, LockHeld, MarkedNotExited, Managing, PanicLabels, Proc
<1>2. TypeOK /\ LockHeld /\ MarkedNotExited /\ [Next]_vars => LockHeld' /\ MarkedNotExited'
  BY LockStep, MarkedStep DEF TypeOK
<1> QED
  BY <1>1, <1>2, TypeCorrect, PTL DEF Spec

-----------------------------------------------------------------------------
(* One entry per strategy, symbol and bar.                                 *)

\* The labels of scan_cycle, after its gates.
ScanLabels == {"offers", "check", "order", "entry_ok", "entry_fail"}

SingleRunner == \A p, q \in Runner : p = q

\* Entries on the pair k for today's bar.
EnteredToday(k) ==
  {x \in PosId : entry[x].strategy = k[1] /\ entry[x].symbol = k[2] /\ entry[x].day = day}

\* Only the runner scans; the bar of every accepted entry is burned; the pairs
\* still to be offered are not burned; the pair in hand is burned for today and
\* has no entry of today yet.
BarsBurned ==
  /\ \A p \in Proc : pc[p] \in ScanLabels \cup {"scan"} => p \in Runner
  /\ \A x \in PosId : entry[x] # NoOrder =>
       entry[x].day <= lastBar[<<entry[x].strategy, entry[x].symbol>>]
  /\ \A k \in Pair : lastBar[k] <= day
  /\ \A p \in Proc : pc[p] \in ScanLabels => \A k \in offers[p] : lastBar[k] # day
  /\ \A p \in Proc : pc[p] \in {"check", "order"} =>
       lastBar[pick[p]] = day /\ EnteredToday(pick[p]) = {}

LEMMA LeqTransitive == \A m, n, o \in Nat : m <= n /\ n <= o => m <= o
  OBVIOUS

\* What the scan has burned covers every entry it has sent.
LEMMA BarsStep ==
  SingleRunner /\ Typed /\ RowsHaveOrders /\ BarsBurned /\ [Next]_vars => BarsBurned'
<1> SUFFICES ASSUME SingleRunner, Typed, RowsHaveOrders, BarsBurned, [Next]_vars
             PROVE  BarsBurned'
  OBVIOUS
<1> USE DeskAssumption DEF Typed, RowsHaveOrders, TaskTypes, BarsBurned, ScanLabels,
   EnteredToday, Goto
<1>0. CASE UNCHANGED vars
  BY <1>0
<1>1. ASSUME NEW p \in Proc, Begin(p) PROVE BarsBurned'
  BY <1>1 DEF Begin
<1>2. ASSUME NEW p \in Proc, Lock(p) PROVE BarsBurned'
  BY <1>2 DEF Lock
<1>3. ASSUME NEW p \in Proc, ReadLedger(p) PROVE BarsBurned'
  BY <1>3 DEF ReadLedger
<1>4. ASSUME NEW p \in Proc, BookUnread(p) PROVE BarsBurned'
  BY <1>4 DEF BookUnread
<1>5. ASSUME NEW p \in Proc, ReadBook(p) PROVE BarsBurned'
  BY <1>5 DEF ReadBook
<1>6. ASSUME NEW p \in Proc, Snapshot(p) PROVE BarsBurned'
  BY <1>6 DEF Snapshot
<1>7. ASSUME NEW p \in Proc, NEW x \in PosId, CloseStale(p, x) PROVE BarsBurned'
  BY <1>7 DEF CloseStale
<1>8. ASSUME NEW p \in Proc, NEW x \in PosId, KeepOpen(p, x) PROVE BarsBurned'
  BY <1>8 DEF KeepOpen
<1>9. ASSUME NEW p \in Proc, NEW x \in PosId, SendExit(p, x) PROVE BarsBurned'
  BY <1>9 DEF SendExit, PlaceExit, ExecuteExit
<1>10. ASSUME NEW p \in Proc, RecordExit(p) PROVE BarsBurned'
  BY <1>10 DEF RecordExit, ExitLoop
<1>11. ASSUME NEW p \in Proc, ExitFailed(p) PROVE BarsBurned'
  BY <1>11 DEF ExitFailed, ExitLoop
<1>12. ASSUME NEW p \in Proc, Unlock(p) PROVE BarsBurned'
  BY <1>12 DEF Unlock
<1>13. ASSUME NEW p \in Proc, ScanHalted(p) PROVE BarsBurned'
  BY <1>13 DEF ScanHalted
<1>14. ASSUME NEW p \in Proc, Scan(p) PROVE BarsBurned'
  BY <1>14 DEF Scan
<1>15. ASSUME NEW p \in Proc, NEW k \in Pair, NoSignal(p, k) PROVE BarsBurned'
  BY <1>15 DEF NoSignal
<1>16. ASSUME NEW p \in Proc, NEW k \in Pair, Offer(p, k) PROVE BarsBurned'
  <2>1. \A q \in Proc : pc[q] \in ScanLabels => q = p
    BY <1>16 DEF Offer, SingleRunner
  <2>2. lastBar[k] \in Nat /\ day \in Nat /\ 0 < day /\ lastBar[k] < day
    <3>1. lastBar[k] # day /\ lastBar[k] <= day
      BY <1>16 DEF Offer
    <3>2. lastBar[k] \in Nat /\ day \in Nat /\ 0 < day
      BY DEF DeskTypes, TimeTypes
    <3>3. \A m, n \in Nat : m # n /\ m <= n => m < n
      OBVIOUS
    <3> QED
      BY <3>1, <3>2, <3>3, Zenon
  <2>3. EnteredToday(k) = {}
    <3> SUFFICES ASSUME NEW x \in PosId, entry[x].strategy = k[1], entry[x].symbol = k[2],
                        entry[x].day = day
                 PROVE  FALSE
      OBVIOUS
    <3>1. entry[x] # NoOrder
      BY <2>2 DEF NoOrder
    <3>2. day <= lastBar[<<k[1], k[2]>>]
      BY <3>1
    <3>3. <<k[1], k[2]>> = k
      BY DEF Pair
    <3> QED
      BY <2>2, <3>2, <3>3
  <2>4. CASE ~armed \/ kill
    BY <1>16, <2>4 DEF Offer
  <2>5. CASE armed /\ ~kill
    <3>1. /\ lastBar' = [lastBar EXCEPT ![k] = day]
          /\ offers' = [offers EXCEPT ![p] = @ \ {k}]
          /\ pick' = [pick EXCEPT ![p] = k]
          /\ pc' = [pc EXCEPT ![p] = "check"]
          /\ p \in Runner /\ entry' = entry /\ day' = day
      BY <1>16, <2>5 DEF Offer
    <3>2. \A z \in Pair : lastBar'[z] = IF z = k THEN day ELSE lastBar[z]
      BY <3>1 DEF DeskTypes
    <3>3. \A z \in Pair : /\ lastBar[z] \in Nat /\ lastBar'[z] \in Nat
                          /\ lastBar'[z] <= day /\ lastBar[z] <= lastBar'[z]
      BY <2>2, <3>2 DEF DeskTypes
    <3>4. ASSUME NEW x \in PosId, entry[x] # NoOrder
          PROVE  entry[x].day <= lastBar'[<<entry[x].strategy, entry[x].symbol>>]
      <4> DEFINE key == <<entry[x].strategy, entry[x].symbol>>
      <4>1. key \in Pair /\ entry[x].day \in Nat
        BY <3>4 DEF BrokerTypes, Order, Pair
      <4>2. entry[x].day <= lastBar[key]
        BY <3>4
      <4>3. lastBar[key] \in Nat /\ lastBar'[key] \in Nat /\ lastBar[key] <= lastBar'[key]
        BY <3>3, <4>1
      <4>4. entry[x].day <= lastBar'[key]
        <5> HIDE DEF key
        <5> QED
          BY <4>1, <4>2, <4>3, LeqTransitive, Zenon
      <4> QED
        BY <4>4
    <3>5. \A q \in Proc : pc'[q] \in ScanLabels => q = p
      BY <2>1, <3>1
    <3>6. \A z \in offers'[p] : lastBar'[z] # day
      BY <1>16, <3>1, <3>2 DEF Offer
    <3>7. pick'[p] = k /\ lastBar'[k] = day
      BY <3>1, <3>2
    <3> QED
      BY <2>3, <3>1, <3>3, <3>4, <3>5, <3>6, <3>7
  <2> QED
    BY <2>4, <2>5
<1>17. ASSUME NEW p \in Proc, EndScan(p) PROVE BarsBurned'
  BY <1>17 DEF EndScan
<1>18. ASSUME NEW p \in Proc, Check(p) PROVE BarsBurned'
  BY <1>18 DEF Check
<1>19. ASSUME NEW p \in Proc, PlaceEntry(p) PROVE BarsBurned'
  <2>1. \A q \in Proc : pc[q] \in ScanLabels => q = p
    BY <1>19 DEF PlaceEntry, SingleRunner
  <2>2. ASSUME NEW x \in PosId, entry'[x] # NoOrder
        PROVE  entry'[x].day <= lastBar[<<entry'[x].strategy, entry'[x].symbol>>]
    <3>1. CASE entry'[x] = entry[x]
      BY <2>2, <3>1
    <3>2. CASE entry'[x] # entry[x]
      <4>1. /\ entry'[x].day = day
            /\ entry'[x].strategy = pick[p][1] /\ entry'[x].symbol = pick[p][2]
        BY <1>19, <3>2 DEF PlaceEntry, ExecuteEntry, BrokerTypes
      <4>2. lastBar[pick[p]] = day /\ pick[p] \in Pair /\ day \in Nat
        BY <1>19 DEF PlaceEntry, TimeTypes
      <4> QED
        BY <4>1, <4>2 DEF Pair
    <3> QED
      BY <3>1, <3>2
  <2>3. \A q \in Proc : pc'[q] \in ScanLabels => q = p
    BY <1>19, <2>1 DEF PlaceEntry
  <2>4. pc'[p] \in {"entry_ok", "offers", "entry_fail"}
    BY <1>19 DEF PlaceEntry
  <2>5. lastBar' = lastBar /\ offers' = offers /\ day' = day
    BY <1>19 DEF PlaceEntry
  <2>6. p \in Runner /\ \A z \in offers[p] : lastBar[z] # day
    BY <1>19 DEF PlaceEntry
  <2>7. \A q \in Proc : pc'[q] = "scan" => q \in Runner
    BY <1>19 DEF PlaceEntry
  <2> QED
    BY <2>2, <2>3, <2>4, <2>5, <2>6, <2>7
<1>20. ASSUME NEW p \in Proc, RecordEntry(p) PROVE BarsBurned'
  BY <1>20 DEF RecordEntry
<1>21. ASSUME NEW p \in Proc, EntryFailed(p) PROVE BarsBurned'
  BY <1>21 DEF EntryFailed
<1>22. ASSUME NEW p \in Proc, NEW x \in PosId, PanicExit(p, x) PROVE BarsBurned'
  BY <1>22 DEF PanicExit, PlaceExit, ExecuteExit
<1>23. ASSUME NEW p \in Proc, PanicKill(p) PROVE BarsBurned'
  BY <1>23 DEF PanicKill
<1>24. ASSUME NEW p \in Proc, PanicDisarm(p) PROVE BarsBurned'
  BY <1>24 DEF PanicDisarm
<1>25. CASE Arm
  BY <1>25 DEF Arm
<1>26. CASE Disarm
  BY <1>26 DEF Disarm
<1>27. ASSUME NEW b \in BOOLEAN, KillSwitch(b) PROVE BarsBurned'
  BY <1>27 DEF KillSwitch
<1>28. ASSUME NEW s \in Strategy, NEW b \in BOOLEAN, SetEnabled(s, b) PROVE BarsBurned'
  BY <1>28 DEF SetEnabled
<1>29. ASSUME NEW s \in Strategy, Verdict(s) PROVE BarsBurned'
  BY <1>29 DEF Verdict
<1>30. ASSUME NEW p \in Proc, Panic(p) PROVE BarsBurned'
  BY <1>30 DEF Panic
<1>31. ASSUME NEW y \in Symbol, SquareOff(y) PROVE BarsBurned'
  BY <1>31 DEF SquareOff
<1>32. CASE Elapse
  BY <1>32 DEF Elapse
<1>33. CASE Tick
  BY <1>33 DEF Tick
<1>34. CASE NextDay
  BY <1>34 DEF NextDay, Idle, DeskTypes, TimeTypes
<1>35. CASE Crash
  BY <1>35 DEF Crash
<1>36. ASSUME NEW p \in Proc, Step(p) PROVE BarsBurned'
  BY <1>36, <1>1, <1>2, <1>3, <1>4, <1>5, <1>6, <1>7, <1>8, <1>9, <1>10, <1>11, <1>12, <1>13,
     <1>14, <1>15, <1>16, <1>17, <1>18, <1>19, <1>20, <1>21, <1>22, <1>23, <1>24 DEF Step
<1>37. CASE User
  BY <1>37, <1>25, <1>26, <1>27, <1>28, <1>29, <1>30 DEF User
<1>38. CASE World
  BY <1>38, <1>31, <1>32, <1>33, <1>34, <1>35 DEF World
<1> QED
  BY <1>0, <1>36, <1>37, <1>38 DEF Next

\* The order the broker accepts is on a pair with no entry of today.
LEMMA EntryStep ==
  Typed /\ RowsHaveOrders /\ BarsBurned /\ OneEntryPerBar /\ [Next]_vars => OneEntryPerBar'
<1> SUFFICES ASSUME Typed, RowsHaveOrders, BarsBurned, OneEntryPerBar, [Next]_vars
             PROVE  OneEntryPerBar'
  OBVIOUS
<1>1. ASSUME NEW p \in Proc, PlaceEntry(p) PROVE OneEntryPerBar'
  <2>2. CASE entry' = entry
    BY <2>2 DEF OneEntryPerBar
  <2>3. CASE entry' # entry
    <3>0. PICK n \in PosId, d \in Side :
            entry' = [entry EXCEPT ![n] = [strategy |-> pick[p][1], symbol |-> pick[p][2],
                                           side |-> d, day |-> day]]
      BY <1>1, <2>3 DEF PlaceEntry, ExecuteEntry, Unused
    <3>1. \A x \in PosId : x # n => entry'[x] = entry[x]
      BY <3>0 DEF Typed, BrokerTypes
    <3>2. entry'[n].strategy = pick[p][1] /\ entry'[n].symbol = pick[p][2]
             /\ entry'[n].day = day
      BY <3>0 DEF Typed, BrokerTypes
    <3>3. \A x \in PosId : \/ entry[x].strategy # pick[p][1] \/ entry[x].symbol # pick[p][2]
                           \/ entry[x].day # day
      BY <1>1 DEF PlaceEntry, BarsBurned, EnteredToday
    <3> QED
      BY <3>1, <3>2, <3>3 DEF OneEntryPerBar
  <2> QED
    BY <2>2, <2>3
<1>2. CASE entry' = entry
  BY <1>2 DEF OneEntryPerBar
<1>3. ASSUME NEW p \in Proc, Step(p), ~PlaceEntry(p) PROVE entry' = entry
  BY <1>3 DEF Step, Begin, Lock, ReadLedger, BookUnread, ReadBook, Snapshot, CloseStale, KeepOpen,
     SendExit, PlaceExit, RecordExit, ExitFailed, Unlock, ScanHalted, Scan, NoSignal, Offer,
     EndScan, Check, RecordEntry, EntryFailed, PanicExit, PanicKill, PanicDisarm
<1>4. User \/ World \/ UNCHANGED vars => entry' = entry
  BY DEF User, World, Arm, Disarm, KillSwitch, SetEnabled, Verdict, Panic, SquareOff, Elapse,
     Tick, NextDay, Crash
<1> QED
  BY <1>1, <1>2, <1>3, <1>4 DEF Next

\* With one run_cycle at a time, no strategy enters the same symbol twice on one
\* bar: whatever the broker rejects, accepts without saying so, or the process
\* forgets in a restart, and whoever closes the position in between.
THEOREM OneEntry == SingleRunner => (Spec => []OneEntryPerBar)
<1> SUFFICES ASSUME SingleRunner PROVE Spec => []OneEntryPerBar
  OBVIOUS
<1>1. Init => BarsBurned /\ OneEntryPerBar
  BY DeskAssumption DEF Init, BarsBurned, ScanLabels, OneEntryPerBar
<1>2. TypeOK /\ BarsBurned /\ OneEntryPerBar /\ [Next]_vars
        => BarsBurned' /\ OneEntryPerBar'
  BY BarsStep, EntryStep DEF TypeOK
<1> QED
  BY <1>1, <1>2, TypeCorrect, PTL DEF Spec

-----------------------------------------------------------------------------
(* Capital.                                                                *)

Room(s) == Cardinality(OpenOf(s)) < Slice /\ Cardinality(Open) < Ceiling

\* Whoever has an entry order out, or one that is accepted and not yet recorded,
\* still has room for its row.
RoomKept ==
  \A p \in Proc, s \in Strategy :
    /\ pc[p] = "order" /\ pick[p][1] = s => Room(s)
    /\ pc[p] = "entry_ok" /\ entry[cur[p]].strategy = s => Room(s)

\* Rows become fewer by every step but the insertion of one.
LEMMA OpenShrinks ==
  ASSUME Typed, RowsHaveOrders, [Next]_vars, \A p \in Proc : ~RecordEntry(p)
  PROVE  Open' \subseteq Open
<1> USE DEF Open
<1>1. ASSUME NEW p \in Proc, Step(p) PROVE Open' \subseteq Open
  <2> USE <1>1 DEF Typed, LedgerTypes
  <2>1. ASSUME NEW x \in PosId, CloseStale(p, x) \/ KeepOpen(p, x) \/ SendExit(p, x) \/ PanicExit(p, x)
        PROVE  Open' \subseteq Open
    BY <2>1 DEF CloseStale, KeepOpen, SendExit, PanicExit, PlaceExit
  <2>2. ASSUME ReadBook(p) PROVE Open' \subseteq Open
    BY <2>2 DEF ReadBook
  <2>3. ASSUME RecordExit(p) PROVE Open' \subseteq Open
    BY <2>3 DEF RecordExit
  <2>4. ASSUME status' = status PROVE Open' \subseteq Open
    BY <2>4
  <2>5. ASSUME Step(p), ~ReadBook(p), ~RecordExit(p),
               ~\E x \in PosId : CloseStale(p, x) \/ KeepOpen(p, x) \/ SendExit(p, x) \/ PanicExit(p, x)
        PROVE  status' = status
    BY <2>5 DEF Step, Begin, Lock, ReadLedger, BookUnread, Snapshot, ExitFailed, Unlock,
       ScanHalted, Scan, NoSignal, Offer, EndScan, Check, PlaceEntry, EntryFailed, PanicKill,
       PanicDisarm
  <2> QED
    BY <2>1, <2>2, <2>3, <2>4, <2>5
<1>2. User \/ World \/ UNCHANGED vars => status' = status
  BY DEF User, World, Arm, Disarm, KillSwitch, SetEnabled, Verdict, Panic, SquareOff, Elapse,
     Tick, NextDay, Crash
<1> QED
  BY <1>1, <1>2 DEF Next

\* An accepted order is never rewritten.
LEMMA OrdersStay ==
  ASSUME Typed, [Next]_vars
  PROVE  \A x \in PosId : entry[x] \in Order => entry'[x] = entry[x]
<1>1. NoOrder \notin Order
  BY DEF NoOrder, Order, Side
<1>2. ASSUME NEW p \in Proc, PlaceEntry(p)
      PROVE  \A x \in PosId : entry[x] \in Order => entry'[x] = entry[x]
  BY <1>1, <1>2 DEF PlaceEntry, ExecuteEntry, Unused, Typed, BrokerTypes
<1>3. ASSUME NEW p \in Proc, Step(p), ~PlaceEntry(p) PROVE entry' = entry
  BY <1>3 DEF Step, Begin, Lock, ReadLedger, BookUnread, ReadBook, Snapshot, CloseStale, KeepOpen,
     SendExit, PlaceExit, RecordExit, ExitFailed, Unlock, ScanHalted, Scan, NoSignal, Offer,
     EndScan, Check, RecordEntry, EntryFailed, PanicExit, PanicKill, PanicDisarm
<1>4. User \/ World \/ UNCHANGED vars => entry' = entry
  BY DEF User, World, Arm, Disarm, KillSwitch, SetEnabled, Verdict, Panic, SquareOff, Elapse,
     Tick, NextDay, Crash
<1> QED
  BY <1>2, <1>3, <1>4 DEF Next

\* How a task gets to send an order, and to hold one that was accepted.
LEMMA OrderSent ==
  ASSUME Typed, RowsHaveOrders, [Next]_vars, NEW q \in Proc
  PROVE  /\ pc'[q] = "order" => /\ pick'[q] = pick[q]
                                /\ pc[q] = "order" \/ MayEnter(pick[q])
         /\ pc'[q] = "order" => pc[q] \in {"check", "order"}
         /\ pc'[q] = "entry_ok" =>
              \/ pc[q] = "entry_ok" /\ cur'[q] = cur[q]
              \/ pc[q] = "order" /\ entry'[cur'[q]].strategy = pick[q][1]
<1> DEFINE Here ==
      /\ pc'[q] = "order" => /\ pick'[q] = pick[q]
                             /\ pc[q] = "order" \/ MayEnter(pick[q])
      /\ pc'[q] = "order" => pc[q] \in {"check", "order"}
      /\ pc'[q] = "entry_ok" =>
           \/ pc[q] = "entry_ok" /\ cur'[q] = cur[q]
           \/ pc[q] = "order" /\ entry'[cur'[q]].strategy = pick[q][1]
<1> USE DEF Typed, TaskTypes, Goto
<1>1. ASSUME NEW p \in Proc, PlaceEntry(p) PROVE Here
  BY <1>1 DEF PlaceEntry, ExecuteEntry, Unused, BrokerTypes
<1>2. ASSUME NEW p \in Proc, Check(p) PROVE Here
  BY <1>2 DEF Check
<1>3. ASSUME NEW p \in Proc, NEW x \in PosId,
             CloseStale(p, x) \/ KeepOpen(p, x) \/ SendExit(p, x) \/ PanicExit(p, x)
      PROVE  Here
  BY <1>3 DEF CloseStale, KeepOpen, SendExit, PanicExit, PlaceExit
<1>4. ASSUME NEW p \in Proc,
             \/ Begin(p) \/ Lock(p) \/ ReadLedger(p) \/ BookUnread(p) \/ ReadBook(p) \/ Snapshot(p)
             \/ RecordExit(p) \/ ExitFailed(p) \/ Unlock(p) \/ ScanHalted(p) \/ Scan(p)
      PROVE  Here
  BY <1>4 DEF Begin, Lock, ReadLedger, BookUnread, ReadBook, Snapshot, RecordExit, ExitFailed,
     ExitLoop, Unlock, ScanHalted, Scan
<1>5. ASSUME NEW p \in Proc,
             \/ \E k \in Pair : NoSignal(p, k) \/ Offer(p, k)
             \/ EndScan(p) \/ RecordEntry(p) \/ EntryFailed(p) \/ PanicKill(p) \/ PanicDisarm(p)
      PROVE  Here
  BY <1>5 DEF NoSignal, Offer, EndScan, RecordEntry, EntryFailed, PanicKill, PanicDisarm
<1>6. User \/ World \/ UNCHANGED vars => Here
  BY DEF User, World, Arm, Disarm, KillSwitch, SetEnabled, Verdict, Panic, SquareOff, Elapse,
     Tick, NextDay, Crash
<1>7. ASSUME NEW p \in Proc, Step(p) PROVE Here
  <2> HIDE DEF Here
  <2> QED
    BY <1>1, <1>2, <1>3, <1>4, <1>5, <1>7 DEF Step
<1> QED
  <2>1. Here
    <3> HIDE DEF Here
    <3> QED
      BY <1>6, <1>7 DEF Next
  <2> QED
    BY <2>1

\* Fewer rows leave no less room; one more row takes one place.
LEMMA RoomCounts ==
  ASSUME Typed, RowsHaveOrders, [Next]_vars
  PROVE  /\ Open' \subseteq Open =>
              /\ Cardinality(Open') <= Cardinality(Open)
              /\ \A s \in Strategy : Cardinality(OpenOf(s)') <= Cardinality(OpenOf(s))
         /\ \A x \in PosId : Open' \subseteq Open \cup {x} =>
              /\ Cardinality(Open') <= Cardinality(Open) + 1
              /\ \A s \in Strategy :
                   /\ Cardinality(OpenOf(s)') <= Cardinality(OpenOf(s)) + 1
                   /\ entry'[x].strategy # s => Cardinality(OpenOf(s)') <= Cardinality(OpenOf(s))
         /\ Cardinality(Open) \in Nat /\ \A s \in Strategy : Cardinality(OpenOf(s)) \in Nat
         /\ Cardinality(Open') \in Nat /\ \A s \in Strategy : Cardinality(OpenOf(s)') \in Nat
<1>1. IsFiniteSet(PosId)
  <2>1. MaxOrders \in Int /\ 1 \in Int
    BY DeskAssumption
  <2> QED
    BY <2>1, FS_Interval DEF PosId
<1>2. IsFiniteSet(Open) /\ \A s \in Strategy : IsFiniteSet(OpenOf(s))
  BY <1>1, FS_Subset DEF Open, OpenOf
<1>3. IsFiniteSet(Open') /\ \A s \in Strategy : IsFiniteSet(OpenOf(s)')
  BY <1>1, FS_Subset DEF Open, OpenOf
<1>4. \A x \in Open : entry'[x] = entry[x]
  BY OrdersStay DEF Open, RowsHaveOrders
<1>5. /\ Cardinality(Open) \in Nat /\ \A s \in Strategy : Cardinality(OpenOf(s)) \in Nat
      /\ Cardinality(Open') \in Nat /\ \A s \in Strategy : Cardinality(OpenOf(s)') \in Nat
  BY <1>2, <1>3, FS_CardinalityType
<1>6. ASSUME Open' \subseteq Open
      PROVE  /\ Cardinality(Open') <= Cardinality(Open)
             /\ \A s \in Strategy : Cardinality(OpenOf(s)') <= Cardinality(OpenOf(s))
  <2>1. \A s \in Strategy : OpenOf(s)' \subseteq OpenOf(s)
    BY <1>4, <1>6 DEF OpenOf
  <2> QED
    BY <1>2, <1>6, <2>1, FS_Subset
<1>7. ASSUME NEW x \in PosId, Open' \subseteq Open \cup {x}
      PROVE  /\ Cardinality(Open') <= Cardinality(Open) + 1
             /\ \A s \in Strategy :
                  /\ Cardinality(OpenOf(s)') <= Cardinality(OpenOf(s)) + 1
                  /\ entry'[x].strategy # s => Cardinality(OpenOf(s)') <= Cardinality(OpenOf(s))
  <2>1. ASSUME NEW S, NEW T, IsFiniteSet(T), S \subseteq T \cup {x}
        PROVE  Cardinality(S) <= Cardinality(T) + 1
    <3>1. IsFiniteSet(T \cup {x}) /\ Cardinality(T \cup {x}) <= Cardinality(T) + 1
      <4>1. IsFiniteSet(T \cup {x})
        BY <2>1, FS_AddElement
      <4>2. Cardinality(T) \in Nat
        BY <2>1, FS_CardinalityType
      <4>3. Cardinality(T \cup {x}) = IF x \in T THEN Cardinality(T) ELSE Cardinality(T) + 1
        BY <2>1, FS_AddElement
      <4> QED
        BY <4>1, <4>2, <4>3
    <3>2. Cardinality(S) <= Cardinality(T \cup {x}) /\ IsFiniteSet(S)
      BY <2>1, <3>1, FS_Subset
    <3>3. Cardinality(S) \in Nat /\ Cardinality(T) \in Nat /\ Cardinality(T \cup {x}) \in Nat
      BY <2>1, <3>1, <3>2, FS_CardinalityType
    <3> QED
      BY <3>1, <3>2, <3>3
  <2>2. \A s \in Strategy : OpenOf(s)' \subseteq OpenOf(s) \cup {x}
    BY <1>4, <1>7 DEF OpenOf
  <2>3. \A s \in Strategy : entry'[x].strategy # s => OpenOf(s)' \subseteq OpenOf(s)
    BY <1>4, <1>7 DEF OpenOf
  <2> QED
    BY <1>2, <1>7, <2>1, <2>2, <2>3, FS_Subset
<1> QED
  BY <1>5, <1>6, <1>7

\* Between the check and the insertion, rows are only closed.
LEMMA RoomStep ==
  ASSUME SingleRunner, Typed, RowsHaveOrders, BarsBurned, RoomKept, CapitalRespected, [Next]_vars
  PROVE  RoomKept' /\ CapitalRespected'
<1> USE DeskAssumption
<1>1. ASSUME NEW p \in Proc, RecordEntry(p) PROVE RoomKept' /\ CapitalRespected'
  <2>1. pc[p] = "entry_ok" /\ p \in Runner
    BY <1>1 DEF RecordEntry, BarsBurned, ScanLabels
  <2>2. /\ cur[p] \in PosId /\ entry[cur[p]] \in Order /\ entry' = entry
        /\ pc' = [pc EXCEPT ![p] = "offers"]
        /\ Open' \subseteq Open \cup {cur[p]}
    BY <1>1, <2>1 DEF RecordEntry, RowsHaveOrders, Goto, Open, Typed, LedgerTypes
  <2>3. \A q \in Proc : pc'[q] \notin {"order", "entry_ok"}
    BY <2>1, <2>2 DEF Typed, TaskTypes, BarsBurned, ScanLabels, SingleRunner
  <2>4. Room(entry[cur[p]].strategy) /\ entry[cur[p]].strategy \in Strategy
    BY <2>1, <2>2 DEF RoomKept, Order
  <2>5. CapitalRespected'
    <3>1. /\ Cardinality(Open') <= Cardinality(Open) + 1
          /\ \A s \in Strategy :
               /\ Cardinality(OpenOf(s)') <= Cardinality(OpenOf(s)) + 1
               /\ entry[cur[p]].strategy # s => Cardinality(OpenOf(s)') <= Cardinality(OpenOf(s))
      BY <2>2, RoomCounts
    <3>2. /\ Cardinality(Open) \in Nat /\ Cardinality(Open') \in Nat
          /\ \A s \in Strategy : Cardinality(OpenOf(s)) \in Nat /\ Cardinality(OpenOf(s)') \in Nat
      BY RoomCounts
    <3>3. Cardinality(Open') <= Ceiling
      BY <2>4, <3>1, <3>2 DEF Room
    <3>4. ASSUME NEW s \in Strategy PROVE Cardinality(OpenOf(s)') <= Slice
      <4>1. CASE s = entry[cur[p]].strategy
        BY <2>4, <3>1, <3>2, <4>1 DEF Room
      <4>2. CASE s # entry[cur[p]].strategy
        BY <3>1, <3>2, <4>2 DEF CapitalRespected
      <4> QED
        BY <4>1, <4>2
    <3> QED
      BY <3>3, <3>4 DEF CapitalRespected
  <2> QED
    BY <2>3, <2>5 DEF RoomKept
<1>2. ASSUME \A p \in Proc : ~RecordEntry(p) PROVE RoomKept' /\ CapitalRespected'
  <2>1. /\ Cardinality(Open') <= Cardinality(Open)
        /\ \A s \in Strategy : Cardinality(OpenOf(s)') <= Cardinality(OpenOf(s))
    BY <1>2, OpenShrinks, RoomCounts
  <2>2. /\ Cardinality(Open) \in Nat /\ Cardinality(Open') \in Nat
        /\ \A s \in Strategy : Cardinality(OpenOf(s)) \in Nat /\ Cardinality(OpenOf(s)') \in Nat
    BY RoomCounts
  <2>3. CapitalRespected'
    BY <2>1, <2>2 DEF CapitalRespected
  <2>4. ASSUME NEW s \in Strategy, Room(s) PROVE Room(s)'
    BY <2>1, <2>2, <2>4 DEF Room
  <2>5. ASSUME NEW q \in Proc, NEW s \in Strategy, pc'[q] = "order", pick'[q][1] = s
        PROVE  Room(s)'
    <3>1. pick'[q] = pick[q] /\ (pc[q] = "order" \/ MayEnter(pick[q]))
      BY <2>5, OrderSent
    <3>2. Room(s)
      BY <2>5, <3>1 DEF RoomKept, MayEnter, Room
    <3> QED
      BY <2>4, <3>2
  <2>6. ASSUME NEW q \in Proc, NEW s \in Strategy, pc'[q] = "entry_ok",
               entry'[cur'[q]].strategy = s
        PROVE  Room(s)'
    <3>1. \/ pc[q] = "entry_ok" /\ cur'[q] = cur[q]
          \/ pc[q] = "order" /\ entry'[cur'[q]].strategy = pick[q][1]
      BY <2>6, OrderSent
    <3>2. CASE pc[q] = "entry_ok" /\ cur'[q] = cur[q]
      <4>1. entry'[cur[q]] = entry[cur[q]]
        BY <3>2, OrdersStay DEF RowsHaveOrders
      <4> QED
        BY <2>4, <2>6, <3>2, <4>1 DEF RoomKept
    <3>3. CASE pc[q] = "order" /\ entry'[cur'[q]].strategy = pick[q][1]
      BY <2>4, <2>6, <3>3 DEF RoomKept
    <3> QED
      BY <3>1, <3>2, <3>3
  <2> QED
    BY <2>3, <2>5, <2>6 DEF RoomKept
<1> QED
  BY <1>1, <1>2

\* With one run_cycle at a time, the capital that was free when the order was sent
\* is still free when its row is inserted: no strategy carries more positions than
\* its slice, nor the desk more than its ceiling, whatever else the panic button,
\* the close-out loop, the broker and restarts do in between.
THEOREM CapitalIsRespected == SingleRunner => (Spec => []CapitalRespected)
<1> SUFFICES ASSUME SingleRunner PROVE Spec => []CapitalRespected
  OBVIOUS
<1>1. Init => BarsBurned /\ RoomKept /\ CapitalRespected
  <2> SUFFICES ASSUME Init PROVE BarsBurned /\ RoomKept /\ CapitalRespected
    OBVIOUS
  <2>1. BarsBurned /\ RoomKept
    BY DeskAssumption DEF Init, BarsBurned, ScanLabels, RoomKept
  <2>2. Open = {} /\ \A s \in Strategy : OpenOf(s) = {}
    BY DEF Init, Open, OpenOf
  <2>3. Cardinality({}) = 0 /\ 0 <= Slice /\ 0 <= Ceiling
    BY FS_EmptySet, DeskAssumption
  <2> QED
    BY <2>1, <2>2, <2>3 DEF CapitalRespected
<1>2. TypeOK /\ BarsBurned /\ RoomKept /\ CapitalRespected /\ [Next]_vars
        => BarsBurned' /\ RoomKept' /\ CapitalRespected'
  BY BarsStep, RoomStep DEF TypeOK
<1> QED
  BY <1>1, <1>2, TypeCorrect, PTL DEF Spec

-----------------------------------------------------------------------------
(* No exit order opens a position.                                         *)

\* No panic close-out, and a broker and a process that do what the comments of
\* the engine take for granted: an order that raised was not executed, an order
\* that was accepted fills, nothing is squared off before its time, a cycle is
\* over before the clock moves on, and no restart cuts it short.  Orders may be
\* rejected, symbols refused, the book and the prices unreadable.
Orderly ==
  /\ Panicker = {}
  /\ Faults \cap {"lost_ack", "late_reject", "rms", "slow", "crash"} = {}

ExitLabels == {"exits", "exit_ok", "exit_fail"}

\* A cycle only works on rows that are still open, by the time it is.
WorksOnOpen ==
  /\ \A p \in Proc : pc[p] \in ExitLabels \cup {"book"} => todo[p] \subseteq Open
  /\ \A p \in Proc : pc[p] \in ExitLabels => now[p] = clock
  /\ \A p \in Proc : pc[p] \in {"exit_ok", "exit_fail"} => cur[p] \in todo[p]

\* An accepted entry waits for its row alone, and Angel holds it until it squares
\* off; no order is of a later day.
Accepted ==
  /\ \A p \in Proc : pc[p] = "entry_ok" =>
       /\ status[cur[p]] = "NONE"
       /\ clock < BrokerFrom[entry[cur[p]].symbol] => cur[p] \in held
  /\ \A p, q \in Proc : pc[p] = "entry_ok" /\ pc[q] = "entry_ok" /\ p # q => cur[p] # cur[q]
  /\ \A x \in PosId : entry[x].day <= day

\* Angel holds every open row of the day until it squares off itself, but for the
\* row whose exit has just been executed and is about to be recorded.
Covered ==
  \A x \in PosId :
    status[x] = "OPEN" /\ entry[x].day = day /\ clock < BrokerFrom[entry[x].symbol]
      => x \in held \/ \E p \in Proc : pc[p] = "exit_ok" /\ cur[p] = x

\* Rows in the hands of a cycle stay open: the other tasks that close rows need
\* the lock it holds.
LEMMA WorkStep ==
  Orderly /\ Typed /\ RowsHaveOrders /\ LockHeld /\ WorksOnOpen /\ [Next]_vars => WorksOnOpen'
<1> SUFFICES ASSUME Orderly, Typed, RowsHaveOrders, LockHeld, WorksOnOpen, [Next]_vars
             PROVE  WorksOnOpen'
  OBVIOUS
<1> USE DeskAssumption DEF Typed, TaskTypes, RowsHaveOrders, LockHeld, Managing, PanicLabels,
   Goto, Proc, Orderly, ExitLabels, WorksOnOpen, Open
<1>0. CASE UNCHANGED vars
  BY <1>0
<1>1. ASSUME NEW p \in Proc, Begin(p) PROVE WorksOnOpen'
  BY <1>1 DEF Begin
<1>2. ASSUME NEW p \in Proc, Lock(p) PROVE WorksOnOpen'
  BY <1>2 DEF Lock
<1>3. ASSUME NEW p \in Proc, ReadLedger(p) PROVE WorksOnOpen'
  BY <1>3 DEF ReadLedger, OpenToday
<1>4. ASSUME NEW p \in Proc, BookUnread(p) PROVE WorksOnOpen'
  BY <1>4 DEF BookUnread
<1>5. ASSUME NEW p \in Proc, ReadBook(p) PROVE WorksOnOpen'
  BY <1>5 DEF ReadBook
<1>6. ASSUME NEW p \in Proc, Snapshot(p) PROVE WorksOnOpen'
  BY <1>6 DEF Snapshot
<1>7. ASSUME NEW p \in Proc, NEW x \in PosId, CloseStale(p, x) PROVE WorksOnOpen'
  BY <1>7 DEF CloseStale
<1>8. ASSUME NEW p \in Proc, NEW x \in PosId, KeepOpen(p, x) PROVE WorksOnOpen'
  BY <1>8 DEF KeepOpen
<1>9. ASSUME NEW p \in Proc, NEW x \in PosId, SendExit(p, x) PROVE WorksOnOpen'
  BY <1>9 DEF SendExit, PlaceExit, ExecuteExit
<1>10. ASSUME NEW p \in Proc, RecordExit(p) PROVE WorksOnOpen'
  BY <1>10 DEF RecordExit, ExitLoop
<1>11. ASSUME NEW p \in Proc, ExitFailed(p) PROVE WorksOnOpen'
  BY <1>11 DEF ExitFailed, ExitLoop
<1>12. ASSUME NEW p \in Proc, Unlock(p) PROVE WorksOnOpen'
  BY <1>12 DEF Unlock
<1>13. ASSUME NEW p \in Proc, ScanHalted(p) PROVE WorksOnOpen'
  BY <1>13 DEF ScanHalted
<1>14. ASSUME NEW p \in Proc, Scan(p) PROVE WorksOnOpen'
  BY <1>14 DEF Scan
<1>15. ASSUME NEW p \in Proc, NEW k \in Pair, NoSignal(p, k) PROVE WorksOnOpen'
  BY <1>15 DEF NoSignal
<1>16. ASSUME NEW p \in Proc, NEW k \in Pair, Offer(p, k) PROVE WorksOnOpen'
  BY <1>16 DEF Offer
<1>17. ASSUME NEW p \in Proc, EndScan(p) PROVE WorksOnOpen'
  BY <1>17 DEF EndScan
<1>18. ASSUME NEW p \in Proc, Check(p) PROVE WorksOnOpen'
  BY <1>18 DEF Check
<1>19. ASSUME NEW p \in Proc, PlaceEntry(p) PROVE WorksOnOpen'
  BY <1>19 DEF PlaceEntry, ExecuteEntry, Unused
<1>20. ASSUME NEW p \in Proc, RecordEntry(p) PROVE WorksOnOpen'
  BY <1>20 DEF RecordEntry
<1>21. ASSUME NEW p \in Proc, EntryFailed(p) PROVE WorksOnOpen'
  BY <1>21 DEF EntryFailed
<1>22. ASSUME NEW p \in Proc, NEW x \in PosId, PanicExit(p, x) PROVE WorksOnOpen'
  BY <1>22 DEF PanicExit, PlaceExit, ExecuteExit
<1>23. ASSUME NEW p \in Proc, PanicKill(p) PROVE WorksOnOpen'
  BY <1>23 DEF PanicKill
<1>24. ASSUME NEW p \in Proc, PanicDisarm(p) PROVE WorksOnOpen'
  BY <1>24 DEF PanicDisarm
<1>25. CASE Arm
  BY <1>25 DEF Arm
<1>26. CASE Disarm
  BY <1>26 DEF Disarm
<1>27. ASSUME NEW b \in BOOLEAN, KillSwitch(b) PROVE WorksOnOpen'
  BY <1>27 DEF KillSwitch
<1>28. ASSUME NEW s \in Strategy, NEW b \in BOOLEAN, SetEnabled(s, b) PROVE WorksOnOpen'
  BY <1>28 DEF SetEnabled
<1>29. ASSUME NEW s \in Strategy, Verdict(s) PROVE WorksOnOpen'
  BY <1>29 DEF Verdict
<1>30. ASSUME NEW p \in Proc, Panic(p) PROVE WorksOnOpen'
  BY <1>30 DEF Panic
<1>31. ASSUME NEW y \in Symbol, SquareOff(y) PROVE WorksOnOpen'
  BY <1>31 DEF SquareOff
<1>32. CASE Elapse
  BY <1>32 DEF Elapse
<1>33. CASE Tick
  BY <1>33 DEF Tick, Idle
<1>34. CASE NextDay
  BY <1>34 DEF NextDay, Idle
<1>35. CASE Crash
  BY <1>35 DEF Crash
<1>36. ASSUME NEW p \in Proc, Step(p) PROVE WorksOnOpen'
  BY <1>36, <1>1, <1>2, <1>3, <1>4, <1>5, <1>6, <1>7, <1>8, <1>9, <1>10, <1>11, <1>12, <1>13,
     <1>14, <1>15, <1>16, <1>17, <1>18, <1>19, <1>20, <1>21, <1>22, <1>23, <1>24 DEF Step
<1>37. CASE User
  BY <1>37, <1>25, <1>26, <1>27, <1>28, <1>29, <1>30 DEF User
<1>38. CASE World
  BY <1>38, <1>31, <1>32, <1>33, <1>34, <1>35 DEF World
<1> QED
  BY <1>0, <1>36, <1>37, <1>38 DEF Next

\* An exit is sent for a row Angel holds, and takes nothing else from it.
LEMMA ExitSent ==
  ASSUME Orderly, Typed, RowsHaveOrders, LockHeld, WorksOnOpen, Covered,
         NEW p \in Proc, NEW x \in PosId, SendExit(p, x)
  PROVE  /\ status[x] = "OPEN" /\ x \in held /\ p \in Runner \cup Closer
         /\ held' \in {held, held \ {x}} /\ (x \notin held' => pc'[p] = "exit_ok")
         /\ pc' = [pc EXCEPT ![p] = pc'[p]] /\ pc'[p] \in {"exit_ok", "exit_fail"}
         /\ cur' = [cur EXCEPT ![p] = x]
         /\ UNCHANGED <<status, entry, stray, day, clock>>
<1> USE DeskAssumption DEF Typed, TaskTypes
<1>1. /\ pc[p] = "exits" /\ x \in todo[p] /\ entry[x].day = day
      /\ now[p] < BrokerFrom[entry[x].symbol]
  BY DEF SendExit, Exitable
<1>2. /\ p \in Runner \cup Closer /\ lock = p
  BY <1>1 DEF LockHeld, PanicLabels, Managing, Proc
<1>3. status[x] = "OPEN" /\ now[p] = clock
  BY <1>1 DEF WorksOnOpen, ExitLabels, Open
<1>4. \A q \in Proc : pc[q] # "exit_ok"
  BY <1>1, <1>2 DEF LockHeld, Managing, Orderly, Proc
<1>5. x \in held
  BY <1>1, <1>3, <1>4 DEF Covered
<1>6. x \in Alike(x)
  BY <1>5 DEF Alike
<1>7. "lost_ack" \notin Faults
  BY DEF Orderly
<1>8. ExecuteExit(x) => held' = held \ {x} /\ stray' = stray
  BY <1>5, <1>6 DEF ExecuteExit
<1>9. PlaceExit(p, x)
  BY DEF SendExit
<1>10. /\ pc' = [pc EXCEPT ![p] = pc'[p]] /\ pc'[p] \in {"exit_ok", "exit_fail"}
       /\ cur' = [cur EXCEPT ![p] = x] /\ UNCHANGED <<status, entry, day, clock>>
  BY <1>9 DEF PlaceExit, Goto
<1>11. /\ held' \in {held, held \ {x}} /\ (x \notin held' => pc'[p] = "exit_ok")
       /\ stray' = stray
  BY <1>5, <1>7, <1>8, <1>9 DEF PlaceExit, Goto
<1> QED
  BY <1>2, <1>3, <1>5, <1>10, <1>11

NotFilled(p) == UNCHANGED <<entry, held, cur>> /\ pc'[p] \in {"offers", "entry_fail"}

Filled(p, n, o) ==
  /\ entry[n] = NoOrder /\ o.day = day
  /\ entry' = [entry EXCEPT ![n] = o] /\ held' = held \cup {n}
  /\ cur' = [cur EXCEPT ![p] = n] /\ pc'[p] = "entry_ok"

\* An entry order is accepted and filled under a new identity, or nothing happens
\* but a refusal or a rejection.
LEMMA EntrySent ==
  ASSUME Orderly, Typed, RowsHaveOrders, NEW p \in Proc, PlaceEntry(p)
  PROVE  /\ UNCHANGED <<status, todo, day, clock>>
         /\ pc' = [pc EXCEPT ![p] = pc'[p]]
         /\ NotFilled(p) \/ \E n \in PosId, o \in Order : Filled(p, n, o)
<1>1. "lost_ack" \notin Faults /\ "late_reject" \notin Faults
  BY DEF Orderly
<1>2. UNCHANGED <<status, todo, day, clock>> /\ pc' = [pc EXCEPT ![p] = pc'[p]]
  BY DEF PlaceEntry, Typed, TaskTypes, Goto
<1>3. CASE NotFilled(p)
  BY <1>2, <1>3
<1>4. CASE ~NotFilled(p)
  <2> DEFINE o(d) == [strategy |-> pick[p][1], symbol |-> pick[p][2], side |-> d, day |-> day]
  <2>1. PICK n \in Unused, d \in Side :
          ExecuteEntry(n, o(d)) /\ cur' = [cur EXCEPT ![p] = n] /\ pc'[p] = "entry_ok"
    BY <1>1, <1>4 DEF NotFilled, PlaceEntry, Typed, TaskTypes, Goto
  <2>2. o(d) \in Order
    BY DEF PlaceEntry, RowsHaveOrders, Typed, TimeTypes, Pair, Order
  <2>3. entry[n] = NoOrder /\ n \in PosId
    BY DEF Unused
  <2>4. entry' = [entry EXCEPT ![n] = o(d)] /\ held' = held \cup {n}
    BY <1>1, <2>1 DEF ExecuteEntry
  <2>5. o(d).day = day
    OBVIOUS
  <2> HIDE DEF o
  <2> QED
    BY <1>2, <2>1, <2>2, <2>3, <2>4, <2>5 DEF Filled
<1> QED
  BY <1>3, <1>4

\* No exit touches an entry whose row is not there yet.
LEMMA AcceptedStep ==
  Orderly /\ Typed /\ RowsHaveOrders /\ LockHeld /\ WorksOnOpen /\ Covered /\ Accepted /\
     [Next]_vars => Accepted'
<1> SUFFICES ASSUME Orderly, Typed, RowsHaveOrders, LockHeld, WorksOnOpen, Covered, Accepted,
   [Next]_vars
             PROVE  Accepted'
  OBVIOUS
<1> USE DeskAssumption DEF Typed, TaskTypes, RowsHaveOrders, LockHeld, Managing, PanicLabels,
   Goto, Proc, Orderly, ExitLabels, WorksOnOpen, Open, Accepted
<1>0. CASE UNCHANGED vars
  BY <1>0
<1>1. ASSUME NEW p \in Proc, Begin(p) PROVE Accepted'
  BY <1>1 DEF Begin
<1>2. ASSUME NEW p \in Proc, Lock(p) PROVE Accepted'
  BY <1>2 DEF Lock
<1>3. ASSUME NEW p \in Proc, ReadLedger(p) PROVE Accepted'
  BY <1>3 DEF ReadLedger
<1>4. ASSUME NEW p \in Proc, BookUnread(p) PROVE Accepted'
  BY <1>4 DEF BookUnread
<1>5. ASSUME NEW p \in Proc, ReadBook(p) PROVE Accepted'
  BY <1>5 DEF ReadBook, BrokerFlat, Differing, Rejected, Unlisted
<1>6. ASSUME NEW p \in Proc, Snapshot(p) PROVE Accepted'
  BY <1>6 DEF Snapshot
<1>7. ASSUME NEW p \in Proc, NEW x \in PosId, CloseStale(p, x) PROVE Accepted'
  BY <1>7 DEF CloseStale
<1>8. ASSUME NEW p \in Proc, NEW x \in PosId, KeepOpen(p, x) PROVE Accepted'
  BY <1>8 DEF KeepOpen
<1>9. ASSUME NEW p \in Proc, NEW x \in PosId, SendExit(p, x) PROVE Accepted'
  BY <1>9, ExitSent
<1>10. ASSUME NEW p \in Proc, RecordExit(p) PROVE Accepted'
  BY <1>10 DEF RecordExit, ExitLoop, LedgerTypes
<1>11. ASSUME NEW p \in Proc, ExitFailed(p) PROVE Accepted'
  BY <1>11 DEF ExitFailed, ExitLoop
<1>12. ASSUME NEW p \in Proc, Unlock(p) PROVE Accepted'
  BY <1>12 DEF Unlock
<1>13. ASSUME NEW p \in Proc, ScanHalted(p) PROVE Accepted'
  BY <1>13 DEF ScanHalted
<1>14. ASSUME NEW p \in Proc, Scan(p) PROVE Accepted'
  BY <1>14 DEF Scan
<1>15. ASSUME NEW p \in Proc, NEW k \in Pair, NoSignal(p, k) PROVE Accepted'
  BY <1>15 DEF NoSignal
<1>16. ASSUME NEW p \in Proc, NEW k \in Pair, Offer(p, k) PROVE Accepted'
  BY <1>16 DEF Offer
<1>17. ASSUME NEW p \in Proc, EndScan(p) PROVE Accepted'
  BY <1>17 DEF EndScan
<1>18. ASSUME NEW p \in Proc, Check(p) PROVE Accepted'
  BY <1>18 DEF Check
<1>19. ASSUME NEW p \in Proc, PlaceEntry(p) PROVE Accepted'
  <2>0. pc[p] = "order"
    BY <1>19 DEF PlaceEntry
  <2>1. CASE NotFilled(p)
    <3>1. UNCHANGED <<status, todo, day, clock>> /\ pc' = [pc EXCEPT ![p] = pc'[p]]
      BY <1>19, EntrySent
    <3>2. \A q \in Proc : \/ q # p /\ pc'[q] = pc[q] /\ cur'[q] = cur[q]
                          \/ q = p /\ pc'[q] \notin {"entry_ok", "exit_ok"}
      BY <2>1, <3>1 DEF NotFilled
    <3> QED
      BY <2>0, <2>1, <3>1, <3>2 DEF NotFilled
  <2>2. ASSUME NEW n \in PosId, NEW o \in Order, Filled(p, n, o)
        PROVE  Accepted'
    <3>1. UNCHANGED <<status, todo, day, clock>> /\ pc' = [pc EXCEPT ![p] = "entry_ok"]
      BY <1>19, <2>2, EntrySent DEF Filled
    <3>2. status[n] = "NONE" /\ \A q \in Proc : pc[q] = "entry_ok" => cur[q] # n
      BY <2>2 DEF Filled, NoOrder, Order, Side
    <3>3. \A x \in PosId : x # n => entry'[x] = entry[x]
      BY <2>2 DEF Filled, BrokerTypes
    <3>4. entry'[n] = o
      BY <2>2 DEF Filled, BrokerTypes
    <3>5. day <= day
      BY DEF TimeTypes
    <3>6. \A q \in Proc : \/ q # p /\ pc'[q] = pc[q] /\ cur'[q] = cur[q]
                          \/ q = p /\ pc'[q] = "entry_ok" /\ cur'[q] = n
      BY <2>2, <3>1 DEF Filled
    <3>7. \A x \in PosId : entry'[x].day <= day'
      BY <2>2, <3>1, <3>3, <3>4, <3>5 DEF Filled
    <3>8. \A q \in Proc : pc'[q] = "entry_ok" =>
            /\ status'[cur'[q]] = "NONE"
            /\ clock' < BrokerFrom[entry'[cur'[q]].symbol] => cur'[q] \in held'
      <4>1. n \in held' /\ held \subseteq held'
        BY <2>2 DEF Filled
      <4> QED
        BY <3>1, <3>2, <3>3, <3>6, <4>1
    <3> QED
      BY <3>2, <3>6, <3>7, <3>8
  <2> QED
    <3>1. NotFilled(p) \/ \E n \in PosId, o \in Order : Filled(p, n, o)
      BY <1>19, EntrySent
    <3> QED
      BY <2>1, <2>2, <3>1
<1>20. ASSUME NEW p \in Proc, RecordEntry(p) PROVE Accepted'
  BY <1>20 DEF RecordEntry
<1>21. ASSUME NEW p \in Proc, EntryFailed(p) PROVE Accepted'
  BY <1>21 DEF EntryFailed
<1>22. ASSUME NEW p \in Proc, NEW x \in PosId, PanicExit(p, x) PROVE Accepted'
  BY <1>22 DEF PanicExit, PlaceExit, ExecuteExit
<1>23. ASSUME NEW p \in Proc, PanicKill(p) PROVE Accepted'
  BY <1>23 DEF PanicKill
<1>24. ASSUME NEW p \in Proc, PanicDisarm(p) PROVE Accepted'
  BY <1>24 DEF PanicDisarm
<1>25. CASE Arm
  BY <1>25 DEF Arm
<1>26. CASE Disarm
  BY <1>26 DEF Disarm
<1>27. ASSUME NEW b \in BOOLEAN, KillSwitch(b) PROVE Accepted'
  BY <1>27 DEF KillSwitch
<1>28. ASSUME NEW s \in Strategy, NEW b \in BOOLEAN, SetEnabled(s, b) PROVE Accepted'
  BY <1>28 DEF SetEnabled
<1>29. ASSUME NEW s \in Strategy, Verdict(s) PROVE Accepted'
  BY <1>29 DEF Verdict
<1>30. ASSUME NEW p \in Proc, Panic(p) PROVE Accepted'
  BY <1>30 DEF Panic
<1>31. ASSUME NEW y \in Symbol, SquareOff(y) PROVE Accepted'
  BY <1>31 DEF SquareOff, In, BrokerTypes, TimeTypes
<1>32. CASE Elapse
  BY <1>32 DEF Elapse
<1>33. CASE Tick
  BY <1>33 DEF Tick, Idle
<1>34. CASE NextDay
  BY <1>34 DEF NextDay, Idle, BrokerTypes, TimeTypes, Order, NoOrder
<1>35. CASE Crash
  BY <1>35 DEF Crash
<1>36. ASSUME NEW p \in Proc, Step(p) PROVE Accepted'
  BY <1>36, <1>1, <1>2, <1>3, <1>4, <1>5, <1>6, <1>7, <1>8, <1>9, <1>10, <1>11, <1>12, <1>13,
     <1>14, <1>15, <1>16, <1>17, <1>18, <1>19, <1>20, <1>21, <1>22, <1>23, <1>24 DEF Step
<1>37. CASE User
  BY <1>37, <1>25, <1>26, <1>27, <1>28, <1>29, <1>30 DEF User
<1>38. CASE World
  BY <1>38, <1>31, <1>32, <1>33, <1>34, <1>35 DEF World
<1> QED
  BY <1>0, <1>36, <1>37, <1>38 DEF Next

\* A row leaves Angel's book only by the exit it is closed for.
LEMMA CoveredStep ==
  Orderly /\ Typed /\ RowsHaveOrders /\ LockHeld /\ WorksOnOpen /\ Accepted /\ Covered /\
     [Next]_vars => Covered'
<1> SUFFICES ASSUME Orderly, Typed, RowsHaveOrders, LockHeld, WorksOnOpen, Accepted, Covered,
   [Next]_vars
             PROVE  Covered'
  OBVIOUS
<1> USE DeskAssumption DEF Typed, TaskTypes, RowsHaveOrders, LockHeld, Managing, PanicLabels,
   Goto, Proc, Orderly, ExitLabels, WorksOnOpen, Open, Accepted, Covered
<1>0. CASE UNCHANGED vars
  BY <1>0
<1>1. ASSUME NEW p \in Proc, Begin(p) PROVE Covered'
  BY <1>1 DEF Begin
<1>2. ASSUME NEW p \in Proc, Lock(p) PROVE Covered'
  BY <1>2 DEF Lock
<1>3. ASSUME NEW p \in Proc, ReadLedger(p) PROVE Covered'
  BY <1>3 DEF ReadLedger
<1>4. ASSUME NEW p \in Proc, BookUnread(p) PROVE Covered'
  BY <1>4 DEF BookUnread
<1>5. ASSUME NEW p \in Proc, ReadBook(p) PROVE Covered'
  BY <1>5 DEF ReadBook
<1>6. ASSUME NEW p \in Proc, Snapshot(p) PROVE Covered'
  BY <1>6 DEF Snapshot
<1>7. ASSUME NEW p \in Proc, NEW x \in PosId, CloseStale(p, x) PROVE Covered'
  BY <1>7 DEF CloseStale
<1>8. ASSUME NEW p \in Proc, NEW x \in PosId, KeepOpen(p, x) PROVE Covered'
  BY <1>8 DEF KeepOpen
<1>9. ASSUME NEW p \in Proc, NEW x \in PosId, SendExit(p, x) PROVE Covered'
  <2>1. /\ x \in held /\ held' \in {held, held \ {x}} /\ (x \notin held' => pc'[p] = "exit_ok")
        /\ pc' = [pc EXCEPT ![p] = pc'[p]] /\ cur' = [cur EXCEPT ![p] = x]
        /\ UNCHANGED <<status, entry, day, clock>>
    BY <1>9, ExitSent
  <2>2. pc[p] = "exits"
    BY <1>9 DEF SendExit
  <2>3. x \in held' \/ (pc'[p] = "exit_ok" /\ cur'[p] = x)
    BY <2>1
  <2>4. ASSUME NEW q \in Proc, pc[q] = "exit_ok"
        PROVE  q # p /\ pc'[q] = "exit_ok" /\ cur'[q] = cur[q]
    BY <2>1, <2>2, <2>4
  <2>5. \A z \in PosId : z # x /\ z \in held => z \in held'
    BY <2>1
  <2> QED
    BY <2>1, <2>3, <2>4, <2>5
<1>10. ASSUME NEW p \in Proc, RecordExit(p) PROVE Covered'
  BY <1>10 DEF RecordExit, ExitLoop, LedgerTypes
<1>11. ASSUME NEW p \in Proc, ExitFailed(p) PROVE Covered'
  BY <1>11 DEF ExitFailed, ExitLoop
<1>12. ASSUME NEW p \in Proc, Unlock(p) PROVE Covered'
  BY <1>12 DEF Unlock
<1>13. ASSUME NEW p \in Proc, ScanHalted(p) PROVE Covered'
  BY <1>13 DEF ScanHalted
<1>14. ASSUME NEW p \in Proc, Scan(p) PROVE Covered'
  BY <1>14 DEF Scan
<1>15. ASSUME NEW p \in Proc, NEW k \in Pair, NoSignal(p, k) PROVE Covered'
  BY <1>15 DEF NoSignal
<1>16. ASSUME NEW p \in Proc, NEW k \in Pair, Offer(p, k) PROVE Covered'
  BY <1>16 DEF Offer
<1>17. ASSUME NEW p \in Proc, EndScan(p) PROVE Covered'
  BY <1>17 DEF EndScan
<1>18. ASSUME NEW p \in Proc, Check(p) PROVE Covered'
  BY <1>18 DEF Check
<1>19. ASSUME NEW p \in Proc, PlaceEntry(p) PROVE Covered'
  <2>0. pc[p] = "order"
    BY <1>19 DEF PlaceEntry
  <2>1. CASE NotFilled(p)
    <3>1. UNCHANGED <<status, todo, day, clock>> /\ pc' = [pc EXCEPT ![p] = pc'[p]]
      BY <1>19, EntrySent
    <3>2. \A q \in Proc : \/ q # p /\ pc'[q] = pc[q] /\ cur'[q] = cur[q]
                          \/ q = p /\ pc'[q] \notin {"entry_ok", "exit_ok"}
      BY <2>1, <3>1 DEF NotFilled
    <3> QED
      BY <2>0, <2>1, <3>1, <3>2 DEF NotFilled
  <2>2. ASSUME NEW n \in PosId, NEW o \in Order, Filled(p, n, o)
        PROVE  Covered'
    <3>1. UNCHANGED <<status, todo, day, clock>> /\ pc' = [pc EXCEPT ![p] = "entry_ok"]
      BY <1>19, <2>2, EntrySent DEF Filled
    <3>2. status[n] = "NONE" /\ \A q \in Proc : pc[q] = "entry_ok" => cur[q] # n
      BY <2>2 DEF Filled, NoOrder, Order, Side
    <3>3. \A x \in PosId : x # n => entry'[x] = entry[x]
      BY <2>2 DEF Filled, BrokerTypes
    <3>4. entry'[n] = o
      BY <2>2 DEF Filled, BrokerTypes
    <3>5. day <= day
      BY DEF TimeTypes
    <3>6. \A q \in Proc : \/ q # p /\ pc'[q] = pc[q] /\ cur'[q] = cur[q]
                          \/ q = p /\ pc'[q] = "entry_ok" /\ cur'[q] = n
      BY <2>2, <3>1 DEF Filled
    <3> QED
      BY <2>0, <2>2, <3>1, <3>2, <3>3, <3>4, <3>5, <3>6 DEF Filled
  <2> QED
    <3>1. NotFilled(p) \/ \E n \in PosId, o \in Order : Filled(p, n, o)
      BY <1>19, EntrySent
    <3> QED
      BY <2>1, <2>2, <3>1
<1>20. ASSUME NEW p \in Proc, RecordEntry(p) PROVE Covered'
  BY <1>20 DEF RecordEntry
<1>21. ASSUME NEW p \in Proc, EntryFailed(p) PROVE Covered'
  BY <1>21 DEF EntryFailed
<1>22. ASSUME NEW p \in Proc, NEW x \in PosId, PanicExit(p, x) PROVE Covered'
  BY <1>22 DEF PanicExit, PlaceExit, ExecuteExit
<1>23. ASSUME NEW p \in Proc, PanicKill(p) PROVE Covered'
  BY <1>23 DEF PanicKill
<1>24. ASSUME NEW p \in Proc, PanicDisarm(p) PROVE Covered'
  BY <1>24 DEF PanicDisarm
<1>25. CASE Arm
  BY <1>25 DEF Arm
<1>26. CASE Disarm
  BY <1>26 DEF Disarm
<1>27. ASSUME NEW b \in BOOLEAN, KillSwitch(b) PROVE Covered'
  BY <1>27 DEF KillSwitch
<1>28. ASSUME NEW s \in Strategy, NEW b \in BOOLEAN, SetEnabled(s, b) PROVE Covered'
  BY <1>28 DEF SetEnabled
<1>29. ASSUME NEW s \in Strategy, Verdict(s) PROVE Covered'
  BY <1>29 DEF Verdict
<1>30. ASSUME NEW p \in Proc, Panic(p) PROVE Covered'
  BY <1>30 DEF Panic
<1>31. ASSUME NEW y \in Symbol, SquareOff(y) PROVE Covered'
  BY <1>31 DEF SquareOff, In, BrokerTypes, TimeTypes
<1>32. CASE Elapse
  BY <1>32 DEF Elapse
<1>33. CASE Tick
  BY <1>33 DEF Tick, Idle, TimeTypes, Order
<1>34. CASE NextDay
  BY <1>34 DEF NextDay, Idle, BrokerTypes, TimeTypes, Order, NoOrder
<1>35. CASE Crash
  BY <1>35 DEF Crash
<1>36. ASSUME NEW p \in Proc, Step(p) PROVE Covered'
  BY <1>36, <1>1, <1>2, <1>3, <1>4, <1>5, <1>6, <1>7, <1>8, <1>9, <1>10, <1>11, <1>12, <1>13,
     <1>14, <1>15, <1>16, <1>17, <1>18, <1>19, <1>20, <1>21, <1>22, <1>23, <1>24 DEF Step
<1>37. CASE User
  BY <1>37, <1>25, <1>26, <1>27, <1>28, <1>29, <1>30 DEF User
<1>38. CASE World
  BY <1>38, <1>31, <1>32, <1>33, <1>34, <1>35 DEF World
<1> QED
  BY <1>0, <1>36, <1>37, <1>38 DEF Next

\* The exits that are sent are for rows Angel holds.
LEMMA StrayStep ==
  Orderly /\ Typed /\ RowsHaveOrders /\ LockHeld /\ WorksOnOpen /\ Covered /\ NoStray /\
     [Next]_vars => NoStray'
<1> SUFFICES ASSUME Orderly, Typed, RowsHaveOrders, LockHeld, WorksOnOpen, Covered, NoStray,
   [Next]_vars
             PROVE  NoStray'
  OBVIOUS
<1> USE DeskAssumption DEF Typed, TaskTypes, RowsHaveOrders, LockHeld, Managing, PanicLabels,
   Goto, Proc, Orderly, ExitLabels, WorksOnOpen, Open, Covered, NoStray
<1>0. CASE UNCHANGED vars
  BY <1>0
<1>1. ASSUME NEW p \in Proc, Begin(p) PROVE NoStray'
  BY <1>1 DEF Begin
<1>2. ASSUME NEW p \in Proc, Lock(p) PROVE NoStray'
  BY <1>2 DEF Lock
<1>3. ASSUME NEW p \in Proc, ReadLedger(p) PROVE NoStray'
  BY <1>3 DEF ReadLedger
<1>4. ASSUME NEW p \in Proc, BookUnread(p) PROVE NoStray'
  BY <1>4 DEF BookUnread
<1>5. ASSUME NEW p \in Proc, ReadBook(p) PROVE NoStray'
  BY <1>5 DEF ReadBook
<1>6. ASSUME NEW p \in Proc, Snapshot(p) PROVE NoStray'
  BY <1>6 DEF Snapshot
<1>7. ASSUME NEW p \in Proc, NEW x \in PosId, CloseStale(p, x) PROVE NoStray'
  BY <1>7 DEF CloseStale
<1>8. ASSUME NEW p \in Proc, NEW x \in PosId, KeepOpen(p, x) PROVE NoStray'
  BY <1>8 DEF KeepOpen
<1>9. ASSUME NEW p \in Proc, NEW x \in PosId, SendExit(p, x) PROVE NoStray'
  BY <1>9, ExitSent
<1>10. ASSUME NEW p \in Proc, RecordExit(p) PROVE NoStray'
  BY <1>10 DEF RecordExit, ExitLoop
<1>11. ASSUME NEW p \in Proc, ExitFailed(p) PROVE NoStray'
  BY <1>11 DEF ExitFailed, ExitLoop
<1>12. ASSUME NEW p \in Proc, Unlock(p) PROVE NoStray'
  BY <1>12 DEF Unlock
<1>13. ASSUME NEW p \in Proc, ScanHalted(p) PROVE NoStray'
  BY <1>13 DEF ScanHalted
<1>14. ASSUME NEW p \in Proc, Scan(p) PROVE NoStray'
  BY <1>14 DEF Scan
<1>15. ASSUME NEW p \in Proc, NEW k \in Pair, NoSignal(p, k) PROVE NoStray'
  BY <1>15 DEF NoSignal
<1>16. ASSUME NEW p \in Proc, NEW k \in Pair, Offer(p, k) PROVE NoStray'
  BY <1>16 DEF Offer
<1>17. ASSUME NEW p \in Proc, EndScan(p) PROVE NoStray'
  BY <1>17 DEF EndScan
<1>18. ASSUME NEW p \in Proc, Check(p) PROVE NoStray'
  BY <1>18 DEF Check
<1>19. ASSUME NEW p \in Proc, PlaceEntry(p) PROVE NoStray'
  BY <1>19 DEF PlaceEntry, ExecuteEntry, Unused
<1>20. ASSUME NEW p \in Proc, RecordEntry(p) PROVE NoStray'
  BY <1>20 DEF RecordEntry
<1>21. ASSUME NEW p \in Proc, EntryFailed(p) PROVE NoStray'
  BY <1>21 DEF EntryFailed
<1>22. ASSUME NEW p \in Proc, NEW x \in PosId, PanicExit(p, x) PROVE NoStray'
  BY <1>22 DEF PanicExit, PlaceExit, ExecuteExit
<1>23. ASSUME NEW p \in Proc, PanicKill(p) PROVE NoStray'
  BY <1>23 DEF PanicKill
<1>24. ASSUME NEW p \in Proc, PanicDisarm(p) PROVE NoStray'
  BY <1>24 DEF PanicDisarm
<1>25. CASE Arm
  BY <1>25 DEF Arm
<1>26. CASE Disarm
  BY <1>26 DEF Disarm
<1>27. ASSUME NEW b \in BOOLEAN, KillSwitch(b) PROVE NoStray'
  BY <1>27 DEF KillSwitch
<1>28. ASSUME NEW s \in Strategy, NEW b \in BOOLEAN, SetEnabled(s, b) PROVE NoStray'
  BY <1>28 DEF SetEnabled
<1>29. ASSUME NEW s \in Strategy, Verdict(s) PROVE NoStray'
  BY <1>29 DEF Verdict
<1>30. ASSUME NEW p \in Proc, Panic(p) PROVE NoStray'
  BY <1>30 DEF Panic
<1>31. ASSUME NEW y \in Symbol, SquareOff(y) PROVE NoStray'
  BY <1>31 DEF SquareOff
<1>32. CASE Elapse
  BY <1>32 DEF Elapse
<1>33. CASE Tick
  BY <1>33 DEF Tick
<1>34. CASE NextDay
  BY <1>34 DEF NextDay
<1>35. CASE Crash
  BY <1>35 DEF Crash
<1>36. ASSUME NEW p \in Proc, Step(p) PROVE NoStray'
  BY <1>36, <1>1, <1>2, <1>3, <1>4, <1>5, <1>6, <1>7, <1>8, <1>9, <1>10, <1>11, <1>12, <1>13,
     <1>14, <1>15, <1>16, <1>17, <1>18, <1>19, <1>20, <1>21, <1>22, <1>23, <1>24 DEF Step
<1>37. CASE User
  BY <1>37, <1>25, <1>26, <1>27, <1>28, <1>29, <1>30 DEF User
<1>38. CASE World
  BY <1>38, <1>31, <1>32, <1>33, <1>34, <1>35 DEF World
<1> QED
  BY <1>0, <1>36, <1>37, <1>38 DEF Next

\* While the broker and the process are orderly, no exit order ever opens a
\* position, however many run_cycle and close-out tasks overlap, whatever Angel
\* rejects or refuses, and whether or not its book can be read: the lock, the row
\* that stays OPEN until its exit is accepted, and the square-off times suffice.
THEOREM NoExitOpens == Orderly => (Spec => []NoStray)
<1> SUFFICES ASSUME Orderly PROVE Spec => []NoStray
  OBVIOUS
<1> DEFINE Inv == LockHeld /\ WorksOnOpen /\ Accepted /\ Covered /\ NoStray
<1>1. Init => Inv
  <2> USE DeskAssumption DEF Init
  <2>1. Init => LockHeld
    BY DEF LockHeld, Managing, PanicLabels, Proc
  <2>2. Init => WorksOnOpen /\ Covered /\ NoStray
    BY DEF WorksOnOpen, ExitLabels, Covered, NoStray
  <2>3. Init => Accepted
    BY DEF Accepted, NoOrder
  <2> QED
    BY <2>1, <2>2, <2>3
<1>2. TypeOK /\ Inv /\ [Next]_vars => Inv'
  BY LockStep, WorkStep, AcceptedStep, CoveredStep, StrayStep DEF TypeOK
<1>3. Inv => NoStray
  OBVIOUS
<1> HIDE DEF Inv
<1> QED
  BY <1>1, <1>2, <1>3, TypeCorrect, PTL DEF Spec

-----------------------------------------------------------------------------
(* The ledger and the broker agree.                                        *)

\* What Orderly leaves out besides: Angel never declines the exit of a symbol, whose
\* answer the engine takes for an order id; one run_cycle at a time, since an entry
\* that is not in the ledger yet would confuse another task's reconciliation; and
\* the close-out loop starts after the last entries (15:00 and 14:30).
Reliable ==
  /\ Orderly /\ SingleRunner /\ "refuse_exit" \notin Faults
  /\ EntryCutoff <= CloseoutFrom

\* The close-out loop works after the cutoff, entries are made before it.
Apart ==
  /\ \A p \in Closer : pc[p] # "idle" => clock >= CloseoutFrom
  /\ \A p \in Proc : pc[p] = "offers" /\ offers[p] # {} => clock < EntryCutoff
  /\ \A p \in Proc : pc[p] \in {"check", "order", "entry_ok", "entry_fail"} =>
                       p \in Runner /\ clock < EntryCutoff
  /\ \A p \in Proc : pc[p] \in {"scan", "offers"} => p \in Runner

\* What Angel holds is of today and in the ledger, or about to be; an exit that was
\* accepted has closed its position; a cycle before Angel's book has all open rows.
Known ==
  /\ \A x \in held : /\ x \in PosId /\ entry[x].day = day
                     /\ status[x] = "OPEN" \/ \E q \in Proc : pc[q] = "entry_ok" /\ cur[q] = x
  /\ \A p \in Proc : pc[p] = "exit_ok" => cur[p] \notin held
  /\ \A p \in Proc : pc[p] = "book" => todo[p] = OpenToday

\* Nothing is entered while the close-out loop works: the clock stands still for
\* both, and it has passed the cutoff.
LEMMA ApartStep ==
  ASSUME Reliable, Typed, Apart, [Next]_vars
  PROVE  Apart'
<1> USE DeskAssumption DEF Typed, TaskTypes, TimeTypes, Reliable, Orderly, Apart, Goto, Proc
<1>0. CASE UNCHANGED vars
  BY <1>0
<1>1. ASSUME NEW p \in Proc, Begin(p) PROVE Apart'
  BY <1>1 DEF Begin
<1>2. ASSUME NEW p \in Proc, Lock(p) PROVE Apart'
  BY <1>2 DEF Lock
<1>3. ASSUME NEW p \in Proc, ReadLedger(p) PROVE Apart'
  BY <1>3 DEF ReadLedger
<1>4. ASSUME NEW p \in Proc, BookUnread(p) PROVE Apart'
  BY <1>4 DEF BookUnread
<1>5. ASSUME NEW p \in Proc, ReadBook(p) PROVE Apart'
  BY <1>5 DEF ReadBook
<1>6. ASSUME NEW p \in Proc, Snapshot(p) PROVE Apart'
  BY <1>6 DEF Snapshot
<1>7. ASSUME NEW p \in Proc, NEW x \in PosId, CloseStale(p, x) PROVE Apart'
  BY <1>7 DEF CloseStale
<1>8. ASSUME NEW p \in Proc, NEW x \in PosId, KeepOpen(p, x) PROVE Apart'
  BY <1>8 DEF KeepOpen
<1>9. ASSUME NEW p \in Proc, NEW x \in PosId, SendExit(p, x) PROVE Apart'
  BY <1>9 DEF SendExit, PlaceExit, ExecuteExit
<1>10. ASSUME NEW p \in Proc, RecordExit(p) PROVE Apart'
  BY <1>10 DEF RecordExit, ExitLoop
<1>11. ASSUME NEW p \in Proc, ExitFailed(p) PROVE Apart'
  BY <1>11 DEF ExitFailed, ExitLoop
<1>12. ASSUME NEW p \in Proc, Unlock(p) PROVE Apart'
  BY <1>12 DEF Unlock
<1>13. ASSUME NEW p \in Proc, ScanHalted(p) PROVE Apart'
  BY <1>13 DEF ScanHalted
<1>14. ASSUME NEW p \in Proc, Scan(p) PROVE Apart'
  BY <1>14 DEF Scan
<1>15. ASSUME NEW p \in Proc, NEW k \in Pair, NoSignal(p, k) PROVE Apart'
  BY <1>15 DEF NoSignal
<1>16. ASSUME NEW p \in Proc, NEW k \in Pair, Offer(p, k) PROVE Apart'
  BY <1>16 DEF Offer
<1>17. ASSUME NEW p \in Proc, EndScan(p) PROVE Apart'
  BY <1>17 DEF EndScan
<1>18. ASSUME NEW p \in Proc, Check(p) PROVE Apart'
  BY <1>18 DEF Check
<1>19. ASSUME NEW p \in Proc, PlaceEntry(p) PROVE Apart'
  BY <1>19 DEF PlaceEntry, ExecuteEntry, Unused
<1>20. ASSUME NEW p \in Proc, RecordEntry(p) PROVE Apart'
  BY <1>20 DEF RecordEntry
<1>21. ASSUME NEW p \in Proc, EntryFailed(p) PROVE Apart'
  BY <1>21 DEF EntryFailed
<1>22. ASSUME NEW p \in Proc, NEW x \in PosId, PanicExit(p, x) PROVE Apart'
  BY <1>22 DEF PanicExit, PlaceExit, ExecuteExit
<1>23. ASSUME NEW p \in Proc, PanicKill(p) PROVE Apart'
  BY <1>23 DEF PanicKill
<1>24. ASSUME NEW p \in Proc, PanicDisarm(p) PROVE Apart'
  BY <1>24 DEF PanicDisarm
<1>25. CASE Arm
  BY <1>25 DEF Arm
<1>26. CASE Disarm
  BY <1>26 DEF Disarm
<1>27. ASSUME NEW b \in BOOLEAN, KillSwitch(b) PROVE Apart'
  BY <1>27 DEF KillSwitch
<1>28. ASSUME NEW s \in Strategy, NEW b \in BOOLEAN, SetEnabled(s, b) PROVE Apart'
  BY <1>28 DEF SetEnabled
<1>29. ASSUME NEW s \in Strategy, Verdict(s) PROVE Apart'
  BY <1>29 DEF Verdict
<1>30. ASSUME NEW p \in Proc, Panic(p) PROVE Apart'
  BY <1>30 DEF Panic
<1>31. ASSUME NEW y \in Symbol, SquareOff(y) PROVE Apart'
  BY <1>31 DEF SquareOff
<1>32. CASE Elapse
  BY <1>32 DEF Elapse
<1>33. CASE Tick
  BY <1>33 DEF Tick, Idle
<1>34. CASE NextDay
  BY <1>34 DEF NextDay, Idle
<1>35. CASE Crash
  BY <1>35 DEF Crash
<1>36. ASSUME NEW p \in Proc, Step(p) PROVE Apart'
  BY <1>36, <1>1, <1>2, <1>3, <1>4, <1>5, <1>6, <1>7, <1>8, <1>9, <1>10, <1>11, <1>12, <1>13,
     <1>14, <1>15, <1>16, <1>17, <1>18, <1>19, <1>20, <1>21, <1>22, <1>23, <1>24 DEF Step
<1>37. CASE User
  BY <1>37, <1>25, <1>26, <1>27, <1>28, <1>29, <1>30 DEF User
<1>38. CASE World
  BY <1>38, <1>31, <1>32, <1>33, <1>34, <1>35 DEF World
<1> QED
  BY <1>0, <1>36, <1>37, <1>38 DEF Next

\* A symbol that is flat and whose rows are all on one side is one Angel holds
\* nothing of: what it holds of it is among those rows.
LEMMA FlatNotHeld ==
  ASSUME Reliable, Typed, RowsHaveOrders, LockHeld, WorksOnOpen, Apart, Known, NoStray,
         NEW p \in Proc, ReadBook(p), NEW x \in BrokerFlat(todo[p])
  PROVE  x \notin held
<1> USE DEF Typed, TaskTypes
<1>1. pc[p] = "book" /\ todo[p] = OpenToday /\ x \in PosId /\ x \in todo[p]
  BY DEF ReadBook, Known, BrokerFlat, Differing
<1>2. \A q \in Proc : pc[q] # "entry_ok"
  <2>1. p \in Runner \/ p \in Closer
    BY DEF Proc, Reliable, Orderly
  <2>2. CASE p \in Runner
    BY <1>1, <2>2 DEF Apart, Reliable, SingleRunner
  <2>3. CASE p \in Closer
    <3>1. ~(clock < EntryCutoff)
      BY <1>1, <2>3, DeskAssumption DEF Apart, Reliable, TimeTypes
    <3> QED
      BY <3>1 DEF Apart
  <2> QED
    BY <2>1, <2>2, <2>3
<1>3. held \subseteq OpenToday
  BY <1>2 DEF Known, OpenToday, Open
<1> SUFFICES ASSUME x \in held PROVE FALSE
  OBVIOUS
<1> DEFINE y == entry[x].symbol
           H == In(held, y)
           B == {z \in H : entry[z].side = 1}
           S == {z \in H : entry[z].side = -1}
<1>4. entry[x] \in Order /\ y \in Symbol /\ entry[x].side \in {-1, 1}
  BY <1>1 DEF RowsHaveOrders, Order, Side
<1>5. /\ Net(y) = 0 /\ stray[y] = 0
      /\ \A z \in H : entry[z].side = entry[x].side
  BY <1>1, <1>3, <1>4 DEF BrokerFlat, RowsLike, In, NoStray
<1>6. Cardinality(B) - Cardinality(S) + 0 = 0
  BY <1>5 DEF Net, Signed
<1>7. x \in H /\ IsFiniteSet(H)
  <2>1. MaxOrders \in Int /\ 1 \in Int
    BY DeskAssumption
  <2>2. IsFiniteSet(PosId)
    BY <2>1, FS_Interval DEF PosId
  <2>3. H \subseteq PosId
    BY <1>3 DEF In, OpenToday, Open
  <2> QED
    BY <2>2, <2>3, FS_Subset DEF In
<1>8. \A T : IsFiniteSet(T) => Cardinality(T) \in Nat /\ (Cardinality(T) = 0 <=> T = {})
  BY FS_EmptySet, FS_CardinalityType
<1>9. CASE entry[x].side = 1
  <2>1. x \in B /\ S = {} /\ IsFiniteSet(B) /\ IsFiniteSet(S)
    BY <1>5, <1>7, <1>9, FS_Subset
  <2> HIDE DEF B, S, H
  <2>2. B # {} \/ S # {}
    BY <2>1
  <2>3. Cardinality(B) \in Nat /\ Cardinality(S) \in Nat /\ Cardinality({}) = 0
    BY <1>8, <2>1
  <2>4. B = {} \/ S = {}
    BY <2>1
  <2> QED
    BY <1>6, <1>8, <2>1, <2>2, <2>3, <2>4
<1>10. CASE entry[x].side = -1
  <2>1. x \in S /\ B = {} /\ IsFiniteSet(B) /\ IsFiniteSet(S)
    BY <1>5, <1>7, <1>10, FS_Subset
  <2> HIDE DEF B, S, H
  <2>2. B # {} \/ S # {}
    BY <2>1
  <2>3. Cardinality(B) \in Nat /\ Cardinality(S) \in Nat /\ Cardinality({}) = 0
    BY <1>8, <2>1
  <2>4. B = {} \/ S = {}
    BY <2>1
  <2> QED
    BY <1>6, <1>8, <2>1, <2>2, <2>3, <2>4
<1> QED
  BY <1>4, <1>9, <1>10

\* Nothing Angel holds leaves the ledger but by an exit it has accepted.
LEMMA KnownStep ==
  ASSUME Reliable, Typed, RowsHaveOrders, LockHeld, WorksOnOpen, Accepted, Covered, NoStray, Apart,
         Known, [Next]_vars
  PROVE  Known'
<1> USE DeskAssumption DEF Typed, TaskTypes, RowsHaveOrders, LockHeld, Managing, PanicLabels,
   Goto, Proc, ExitLabels, WorksOnOpen, Open, OpenToday, Accepted, Known
<1>0. CASE UNCHANGED vars
  BY <1>0
<1>1. ASSUME NEW p \in Proc, Begin(p) PROVE Known'
  BY <1>1 DEF Begin
<1>2. ASSUME NEW p \in Proc, Lock(p) PROVE Known'
  BY <1>2 DEF Lock
<1>3. ASSUME NEW p \in Proc, ReadLedger(p) PROVE Known'
  BY <1>3 DEF ReadLedger, OpenToday
<1>4. ASSUME NEW p \in Proc, BookUnread(p) PROVE Known'
  BY <1>4 DEF BookUnread
<1>5. ASSUME NEW p \in Proc, ReadBook(p) PROVE Known'
  <2>1. /\ pc' = [pc EXCEPT ![p] = "snapshot"] /\ pc[p] = "book"
        /\ UNCHANGED <<held, entry, day, cur>> /\ todo' = [todo EXCEPT ![p] = {}]
    BY <1>5 DEF ReadBook
  <2>2. \A x \in held : status[x] = "OPEN" => status'[x] = "OPEN"
    <3>1. \A x \in held : x \notin BrokerFlat(todo[p])
      BY <1>5, FlatNotHeld
    <3>2. \A x \in held : x \notin Rejected(Unlisted(todo[p]))
      BY DEF Rejected
    <3> QED
      BY <1>5, <3>1, <3>2 DEF ReadBook, Known
  <2>3. \A q \in Proc : pc'[q] # "book"
    BY <1>5, <2>1 DEF Reliable, Orderly
  <2>4. \A q \in Proc : pc[q] = "entry_ok" => pc'[q] = "entry_ok"
    BY <2>1
  <2>5. \A q \in Proc : pc'[q] = "exit_ok" => pc[q] = "exit_ok"
    BY <2>1
  <2> QED
    BY <2>1, <2>2, <2>3, <2>4, <2>5
<1>6. ASSUME NEW p \in Proc, Snapshot(p) PROVE Known'
  BY <1>6 DEF Snapshot
<1>7. ASSUME NEW p \in Proc, NEW x \in PosId, CloseStale(p, x) PROVE Known'
  <2>1. x \notin held
    BY <1>7 DEF CloseStale, TimeTypes
  <2>2. \A q \in Proc : pc[q] # "book"
    BY <1>7 DEF CloseStale, Reliable, Orderly
  <2> QED
    BY <1>7, <2>1, <2>2 DEF CloseStale, LedgerTypes
<1>8. ASSUME NEW p \in Proc, NEW x \in PosId, KeepOpen(p, x) PROVE Known'
  BY <1>8 DEF KeepOpen
<1>9. ASSUME NEW p \in Proc, NEW x \in PosId, SendExit(p, x) PROVE Known'
  <2>1. /\ held' \subseteq held
        /\ pc' = [pc EXCEPT ![p] = pc'[p]] /\ pc'[p] \in {"exit_ok", "exit_fail"}
        /\ cur' = [cur EXCEPT ![p] = x] /\ UNCHANGED <<status, entry, day>>
    BY <1>9, ExitSent DEF Reliable
  <2>2. pc'[p] = "exit_ok" => x \notin held'
    <3>1. x \in held
      BY <1>9, ExitSent DEF Reliable
    <3>2. x \in Alike(x)
      BY <3>1 DEF Alike
    <3>3. "refuse_exit" \notin Faults
      BY DEF Reliable
    <3> QED
      BY <1>9, <3>1, <3>2, <3>3 DEF SendExit, PlaceExit, ExecuteExit
  <2>3. pc[p] = "exits" /\ \A q \in Proc : pc[q] # "book" /\ todo' = todo
    BY <1>9 DEF SendExit, PlaceExit, Reliable, Orderly
  <2>4. \A q \in Proc : pc'[q] # "book"
    BY <2>1, <2>3
  <2>5. \A q \in Proc : pc'[q] = "exit_ok" => cur'[q] \notin held'
    BY <2>1, <2>2
  <2>6. \A q \in Proc : pc[q] = "entry_ok" => pc'[q] = "entry_ok" /\ cur'[q] = cur[q]
    BY <2>1, <2>3
  <2> QED
    BY <2>1, <2>4, <2>5, <2>6
<1>10. ASSUME NEW p \in Proc, RecordExit(p) PROVE Known'
  <2>1. \A q \in Proc : pc[q] # "book"
    BY <1>10 DEF RecordExit, Reliable, Orderly
  <2> QED
    BY <1>10, <2>1 DEF RecordExit, ExitLoop, LedgerTypes
<1>11. ASSUME NEW p \in Proc, ExitFailed(p) PROVE Known'
  BY <1>11 DEF ExitFailed, ExitLoop
<1>12. ASSUME NEW p \in Proc, Unlock(p) PROVE Known'
  BY <1>12 DEF Unlock
<1>13. ASSUME NEW p \in Proc, ScanHalted(p) PROVE Known'
  BY <1>13 DEF ScanHalted
<1>14. ASSUME NEW p \in Proc, Scan(p) PROVE Known'
  BY <1>14 DEF Scan
<1>15. ASSUME NEW p \in Proc, NEW k \in Pair, NoSignal(p, k) PROVE Known'
  BY <1>15 DEF NoSignal
<1>16. ASSUME NEW p \in Proc, NEW k \in Pair, Offer(p, k) PROVE Known'
  BY <1>16 DEF Offer
<1>17. ASSUME NEW p \in Proc, EndScan(p) PROVE Known'
  BY <1>17 DEF EndScan
<1>18. ASSUME NEW p \in Proc, Check(p) PROVE Known'
  BY <1>18 DEF Check
<1>19. ASSUME NEW p \in Proc, PlaceEntry(p) PROVE Known'
  <2>0. pc[p] = "order" /\ Orderly
    BY <1>19 DEF PlaceEntry, Reliable
  <2>1. /\ UNCHANGED <<status, todo, day, clock>> /\ pc' = [pc EXCEPT ![p] = pc'[p]]
        /\ NotFilled(p) \/ \E n \in PosId, o \in Order : Filled(p, n, o)
    BY <1>19, <2>0, EntrySent
  <2>2. CASE NotFilled(p)
    BY <2>0, <2>1, <2>2 DEF NotFilled
  <2>3. ASSUME NEW n \in PosId, NEW o \in Order, Filled(p, n, o)
        PROVE  Known'
    <3>1. /\ status[n] = "NONE" /\ entry' = [entry EXCEPT ![n] = o] /\ o.day = day
          /\ held' = held \cup {n} /\ cur' = [cur EXCEPT ![p] = n]
          /\ pc' = [pc EXCEPT ![p] = "entry_ok"]
      BY <2>1, <2>3 DEF Filled, NoOrder, Order, Side
    <3>2. \A x \in PosId : x # n => entry'[x] = entry[x]
      BY <3>1 DEF BrokerTypes
    <3>3. entry'[n] = o
      BY <3>1 DEF BrokerTypes
    <3>4. OpenToday' = OpenToday
      BY <2>1, <3>1, <3>2 DEF OpenToday
    <3>5. \A q \in Proc : pc[q] = "exit_ok" => cur[q] # n
      BY <3>1
    <3>6. \A x \in held' :
            /\ x \in PosId /\ entry'[x].day = day'
            /\ status'[x] = "OPEN" \/ \E q \in Proc : pc'[q] = "entry_ok" /\ cur'[q] = x
      <4> TAKE x \in held'
      <4>1. CASE x = n
        BY <2>1, <3>1, <3>3, <4>1
      <4>2. CASE x # n
        BY <2>0, <2>1, <3>1, <3>2, <4>2
      <4> QED
        BY <4>1, <4>2
    <3> QED
      BY <2>0, <2>1, <3>1, <3>4, <3>5, <3>6
  <2> QED
    BY <2>1, <2>2, <2>3
<1>20. ASSUME NEW p \in Proc, RecordEntry(p) PROVE Known'
  <2>1. \A q \in Proc : pc[q] # "book"
    <3> SUFFICES ASSUME NEW q \in Proc, pc[q] = "book" PROVE FALSE
      OBVIOUS
    <3>1. pc[p] = "entry_ok" /\ p \in Runner /\ clock < EntryCutoff
      BY <1>20 DEF RecordEntry, Apart
    <3>2. q \in Closer
      BY <3>1 DEF Reliable, Orderly, SingleRunner
    <3> QED
      BY <3>1, <3>2, DeskAssumption DEF Apart, Reliable, TimeTypes
  <2>2. /\ status' = [status EXCEPT ![cur[p]] = "OPEN"] /\ cur' = [cur EXCEPT ![p] = None]
        /\ pc' = [pc EXCEPT ![p] = "offers"] /\ UNCHANGED <<held, entry, day>>
        /\ pc[p] = "entry_ok"
    BY <1>20 DEF RecordEntry
  <2>3. \A x \in held : status'[x] = IF x = cur[p] THEN "OPEN" ELSE status[x]
    BY <2>2 DEF LedgerTypes
  <2> QED
    BY <2>1, <2>2, <2>3
<1>21. ASSUME NEW p \in Proc, EntryFailed(p) PROVE Known'
  BY <1>21 DEF EntryFailed
<1>22. ASSUME NEW p \in Proc, NEW x \in PosId, PanicExit(p, x) PROVE Known'
  BY <1>22 DEF PanicExit, LockHeld, Reliable, Orderly
<1>23. ASSUME NEW p \in Proc, PanicKill(p) PROVE Known'
  BY <1>23 DEF PanicKill
<1>24. ASSUME NEW p \in Proc, PanicDisarm(p) PROVE Known'
  BY <1>24 DEF PanicDisarm
<1>25. CASE Arm
  BY <1>25 DEF Arm
<1>26. CASE Disarm
  BY <1>26 DEF Disarm
<1>27. ASSUME NEW b \in BOOLEAN, KillSwitch(b) PROVE Known'
  BY <1>27 DEF KillSwitch
<1>28. ASSUME NEW s \in Strategy, NEW b \in BOOLEAN, SetEnabled(s, b) PROVE Known'
  BY <1>28 DEF SetEnabled
<1>29. ASSUME NEW s \in Strategy, Verdict(s) PROVE Known'
  BY <1>29 DEF Verdict
<1>30. ASSUME NEW p \in Proc, Panic(p) PROVE Known'
  BY <1>30 DEF Panic
<1>31. ASSUME NEW y \in Symbol, SquareOff(y) PROVE Known'
  BY <1>31 DEF SquareOff, OpenToday
<1>32. CASE Elapse
  BY <1>32 DEF Elapse
<1>33. CASE Tick
  BY <1>33 DEF Tick, OpenToday
<1>34. CASE NextDay
  BY <1>34 DEF NextDay, Idle
<1>35. CASE Crash
  BY <1>35 DEF Crash, Reliable, Orderly
<1>36. ASSUME NEW p \in Proc, Step(p) PROVE Known'
  BY <1>36, <1>1, <1>2, <1>3, <1>4, <1>5, <1>6, <1>7, <1>8, <1>9, <1>10, <1>11, <1>12, <1>13,
     <1>14, <1>15, <1>16, <1>17, <1>18, <1>19, <1>20, <1>21, <1>22, <1>23, <1>24 DEF Step
<1>37. CASE User
  BY <1>37, <1>25, <1>26, <1>27, <1>28, <1>29, <1>30 DEF User
<1>38. CASE World
  BY <1>38, <1>31, <1>32, <1>33, <1>34, <1>35 DEF World
<1> QED
  BY <1>0, <1>36, <1>37, <1>38 DEF Next

\* While Angel accepts or rejects what it is asked and one run_cycle runs beside the
\* close-out loop, the ledger says OPEN of exactly the positions of the day that Angel
\* holds, but for the one a task is working on and until Angel squares off itself:
\* whatever is rejected, whenever the book cannot be read, the reconciliation never
\* closes a row Angel still holds and no position is held that no row is kept for.
THEOREM LedgerMatchesBroker == Reliable => (Spec => []BooksAgree)
<1> SUFFICES ASSUME Reliable PROVE Spec => []BooksAgree
  OBVIOUS
<1> DEFINE Inv == /\ LockHeld /\ WorksOnOpen /\ Accepted /\ Covered /\ NoStray
                  /\ Apart /\ Known
<1>1. Init => Inv
  <2> USE DeskAssumption DEF Init
  <2>1. Init => LockHeld
    BY DEF LockHeld, Managing, PanicLabels, Proc
  <2>2. Init => WorksOnOpen /\ Covered /\ NoStray
    BY DEF WorksOnOpen, ExitLabels, Covered, NoStray
  <2>3. Init => Accepted
    BY DEF Accepted, NoOrder
  <2>4. Init => Apart /\ Known
    BY DEF Apart, Known, Proc
  <2> QED
    BY <2>1, <2>2, <2>3, <2>4
<1>2. TypeOK /\ Inv /\ [Next]_vars => Inv'
  <2> SUFFICES ASSUME TypeOK, Inv, [Next]_vars PROVE Inv'
    OBVIOUS
  <2>1. Orderly /\ Typed /\ RowsHaveOrders
    BY DEF Reliable, TypeOK
  <2>2. LockHeld' /\ WorksOnOpen' /\ Accepted' /\ Covered' /\ NoStray'
    BY <2>1, LockStep, WorkStep, AcceptedStep, CoveredStep, StrayStep
  <2>3. Apart' /\ Known'
    BY <2>1, ApartStep, KnownStep
  <2> QED
    BY <2>2, <2>3
<1>3. Inv => BooksAgree
  BY DEF Covered, Known, BooksAgree, InFlight
<1> HIDE DEF Inv
<1> QED
  BY <1>1, <1>2, <1>3, TypeCorrect, PTL DEF Spec

=============================================================================
