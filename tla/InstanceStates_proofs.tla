----------------------- MODULE InstanceStates_proofs -----------------------
(***************************************************************************)
(* Proofs about InstanceStates, for any number of instances and slots: the *)
(* types, that a slot no hole shadows is found, that an instance is let    *)
(* run at most once on a bar unless its run time was lost, and that a step *)
(* of one instance leaves the slots of the others alone.                   *)
(***************************************************************************)
EXTENDS InstanceStates, TLAPS

\* Instances whose record is where the code looks for it.
Sound == Instances \ (shadowed \cup lost)

\* Which labels go with which goal, who holds the critical section.
Control ==
    \A i \in Instances :
        /\ pc[i] \in {"load", "nested"} => i \in Live
        /\ pc[i] \in {"clear", "reclaim", "answer"} => i \notin Live
        /\ pc[i] \in {"nested", "answer"} => goal[i] \in {"grant", "deny", "update"}
        /\ pc[i] \in {"open", "write"} => goal[i] # "none"
        /\ pc[i] \notin {"nested", "open", "write", "answer"} => goal[i] = "none"
        /\ goal[i] = "reset" => i \notin Live
        /\ (lock = i) <=> (goal[i] \notin {"none", "reset"})

\* A thread between its lookup and its use of the slot still owns the slot.
Held ==
    \A i \in Instances :
        /\ pc[i] \in {"load", "clear", "open", "write"} => slots[idx[i]].id = i
        /\ pc[i] = "clear" => \A j \in Slots : j < idx[i] => slots[j].id # i

\* No stored run time lies in the future.
PastTimes ==
    /\ \A k \in Slots : slots[k].lastRun <= now
    /\ \A i \in Instances : bar[i] <= now /\ files[i].state.lastRun <= now
    /\ \A i \in Instances : pc[i] = "gate" =>
          \A k \in Slots : slots[k].id = i => slots[k].lastRun <= bar[i]

\* The last run of an instance is recorded in its slot, and in its file if it is live.
RecordedFor(i) ==
    /\ (pc[i] \notin {"off", "load"} \/ i \notin Live) => \E k \in Slots : slots[k].id = i
    /\ pc[i] # "load" =>
          \A k \in Slots : slots[k].id = i => slots[k].lastRun >= lastGrant[i]

Recorded == \A i \in Sound : lastGrant[i] # NoTime => RecordedFor(i)

\* A bar about to be granted is recorded in the slot, and later than the last one.
PendingFor(i) ==
    /\ \E k \in Slots : slots[k].id = i
    /\ \A k \in Slots : slots[k].id = i => slots[k].lastRun = bar[i]
    /\ bar[i] > lastGrant[i]

Pending == \A i \in Sound : goal[i] = "grant" => PendingFor(i)

IInv ==
    /\ TypeOK
    /\ Control
    /\ FileHoldsOwner
    /\ Held
    /\ OwnSlotFound
    /\ PastTimes
    /\ RunTimeOnDiskFirst
    /\ Recorded
    /\ Pending
    /\ AtMostOncePerBar

-----------------------------------------------------------------------------

USE DEF NoTime, NoIndex, NoBar

LEMMA InitTypeOK == Init => TypeOK
  BY TableAssumption DEF Init, TypeOK, Slots, SlotState, Fresh, FileState, NoFile,
     Times, Bars, Labels, Goals

LEMMA Defaults ==
  /\ NoBar \in Bars /\ NoIndex \in Slots /\ NoTime \in Times
  /\ Bars \subseteq Times
  /\ Fresh \in SlotState
  BY TableAssumption DEF Bars, Slots, Times, Fresh, SlotState

LEMMA SlotWritten ==
  ASSUME slots \in [Slots -> SlotState], NEW k \in Slots,
         NEW i \in Instances \cup {Free}, NEW t \in Times
  PROVE  /\ [slots EXCEPT ![k].id = i] \in [Slots -> SlotState]
         /\ [slots EXCEPT ![k].id = i, ![k].lastRun = t] \in [Slots -> SlotState]
         /\ [slots EXCEPT ![k].id = i, ![k].lastUpdate = t] \in [Slots -> SlotState]
         /\ [slots EXCEPT ![k] = [Fresh EXCEPT !.id = i]] \in [Slots -> SlotState]
  BY Defaults DEF SlotState, Fresh

LEMMA ClaimedType ==
  ASSUME slots \in [Slots -> SlotState], NEW i \in Instances, NEW k \in Slots
  PROVE  Claimed(i, k) \in [Slots -> SlotState]
  BY SlotWritten, Defaults DEF Claimed

LEMMA ReturnType ==
  ASSUME TypeOK, NEW i \in Instances, Return(i)
  PROVE  /\ lock' \in Instances \cup {Free}
         /\ goal' \in [Instances -> Goals]
         /\ idx' \in [Instances -> Slots]
         /\ pc' \in [Instances -> Labels]
         /\ bar' \in [Instances -> Bars]
         /\ lastGrant' \in [Instances -> Times]
         /\ reran' \subseteq Instances
  BY Defaults DEF TypeOK, Return, EndTick, Labels, Goals

LEMMA ReleaseType ==
  ASSUME TypeOK, NEW i \in Instances, Release(i)
  PROVE  TypeOK'
  <1>1. slots' \in [Slots -> SlotState]
    BY SlotWritten DEF TypeOK, Release
  <1>2. shadowed' \subseteq Instances /\ lost' \subseteq Instances
    BY DEF TypeOK, Release, BehindHole
  <1>3. lastGrant' \in [Instances -> Times] /\ reran' \subseteq Instances
    BY Defaults DEF TypeOK, Release
  <1> QED
    BY <1>1, <1>2, <1>3 DEF TypeOK, Release, Labels

LEMMA NextTypeOK == TypeOK /\ [Next]_vars => TypeOK'
  <1> SUFFICES ASSUME TypeOK, [Next]_vars PROVE TypeOK'
    OBVIOUS
  <1> USE Defaults
  <1>1. CASE \E i \in Instances : InitClaim(i)
    BY <1>1, ClaimedType DEF InitClaim, TypeOK, history, Labels
  <1>2. CASE \E i \in Instances : InitTableFull(i)
    BY <1>2 DEF InitTableFull, TypeOK, history, Labels
  <1>3. CASE \E i \in Instances : LoadMissing(i)
    BY <1>3, ReleaseType DEF LoadMissing
  <1>4. CASE \E i \in Instances : LoadFile(i)
    BY <1>4 DEF LoadFile, TypeOK, history, Labels, FileState
  <1>5. CASE \E i \in Instances : ResetClear(i)
    BY <1>5, ReleaseType DEF ResetClear
  <1>6. CASE \E i \in Instances : Erase(i)
    <2> PICK i \in Instances : Erase(i)
      BY <1>6
    <2>1. slots[idx[i]] \in SlotState /\ idx[i] \in Slots
      BY DEF TypeOK
    <2>2. slots[idx[i]].id \in Instances \cup {Free}
      BY <2>1 DEF SlotState
    <2>3. slots' \in [Slots -> SlotState]
      BY <2>1, <2>2, SlotWritten DEF Erase, TypeOK
    <2>4. lost' \subseteq Instances
      BY <2>2 DEF Erase, TypeOK
    <2> QED
      BY <2>3, <2>4 DEF Erase, TypeOK, Labels
  <1>7. CASE \E i \in Instances : ResetClaim(i)
    BY <1>7, ClaimedType DEF ResetClaim, TypeOK, history, Labels, Goals
  <1>8. CASE \E i \in Instances : ResetTableFull(i)
    BY <1>8 DEF ResetTableFull, TypeOK, history, Labels
  <1>9. CASE \E i \in Instances : NestedClaim(i)
    BY <1>9, ClaimedType DEF NestedClaim, TypeOK, history, Labels
  <1>10. CASE \E i \in Instances : BackupOpen(i)
    BY <1>10 DEF BackupOpen, TypeOK, history, Labels, FileState
  <1>11. CASE \E i \in Instances : BackupOpenFails(i)
    BY <1>11, ReturnType DEF BackupOpenFails, TypeOK, history
  <1>12. CASE \E i \in Instances : BackupWrite(i)
    BY <1>12, ReturnType DEF BackupWrite, TypeOK, history, Record, FileState
  <1>13. CASE \E i \in Instances : TickBegin(i)
    BY <1>13, ClaimedType DEF TickBegin, TypeOK, history, Labels
  <1>14. CASE \E i \in Instances : NotTrading(i)
    BY <1>14 DEF NotTrading, TypeOK, history, EndTick, Labels
  <1>15. CASE \E i \in Instances : Ungated(i)
    BY <1>15 DEF Ungated, TypeOK, history, Labels
  <1>16. CASE \E i \in Instances : GateRefuses(i)
    BY <1>16 DEF GateRefuses, TypeOK, history, EndTick, Labels
  <1>17. CASE \E i \in Instances : GateStores(i)
    <2> PICK i \in Instances : GateStores(i)
      BY <1>17
    <2> PICK k \in Slots : slots' = StoreRunTime(i, k)
      BY DEF GateStores
    <2>1. slots' \in [Slots -> SlotState]
      <3>1. bar[i] \in Times
        BY DEF TypeOK
      <3> QED
        BY <3>1, SlotWritten DEF TypeOK, StoreRunTime
    <2>2. goal' \in [Instances -> Goals]
      BY DEF GateStores, TypeOK, Goals
    <2> QED
      BY <2>1, <2>2 DEF GateStores, TypeOK, history, Labels
  <1>18. CASE \E i \in Instances : GateAnswers(i)
    BY <1>18, ReturnType DEF GateAnswers, TypeOK, history
  <1>19. CASE \E i \in Instances : SetLastOrderUpdateTime(i)
    <2> PICK i \in Instances : SetLastOrderUpdateTime(i)
      BY <1>19
    <2> PICK k \in Slots : slots' = [slots EXCEPT ![k].id = i, ![k].lastUpdate = bar[i]]
      BY DEF SetLastOrderUpdateTime
    <2>1. slots' \in [Slots -> SlotState]
      <3>1. bar[i] \in Times
        BY DEF TypeOK
      <3> QED
        BY <3>1, SlotWritten DEF TypeOK
    <2> QED
      BY <2>1 DEF SetLastOrderUpdateTime, TypeOK, history, Labels, Goals
  <1>20. CASE \E i \in Instances : StrategyReturns(i)
    BY <1>20 DEF StrategyReturns, TypeOK, history, EndTick, Labels
  <1>21. CASE \E i \in Instances : Deinit(i)
    BY <1>21 DEF Deinit, TypeOK, history, Labels
  <1>22. CASE NewBar
    BY <1>22, TableAssumption DEF NewBar, TypeOK, history, Bars
  <1>23. CASE Crash
    BY <1>23, TableAssumption DEF Crash, TypeOK, Labels, Goals
  <1>24. CASE UNCHANGED vars
    BY <1>24 DEF vars, TypeOK
  <1> QED
    BY <1>1, <1>2, <1>3, <1>4, <1>5, <1>6, <1>7, <1>8, <1>9, <1>10, <1>11, <1>12, <1>13, <1>14, <1>15, <1>16, <1>17, <1>18, <1>19, <1>20, <1>21, <1>22, <1>23, <1>24
    DEF Next, Initialise, Backup, Tick

(***************************************************************************)
(* The variables keep their types: no index leaves the table, no stored    *)
(* time lies outside the bars that opened.                                 *)
(***************************************************************************)
THEOREM TypeCorrect == Spec => []TypeOK
  BY InitTypeOK, NextTypeOK, PTL DEF Spec

-----------------------------------------------------------------------------

LEMMA NextControl == IInv /\ TypeOK' /\ [Next]_vars => Control'
  <1> SUFFICES ASSUME IInv, TypeOK', [Next]_vars PROVE Control'
    OBVIOUS
  <1> USE TableAssumption DEF IInv, TypeOK, Control
  <1>1. CASE \E i \in Instances : InitClaim(i)
    BY <1>1 DEF InitClaim, history, Claimed, FirstFor, Usable
  <1>2. CASE \E i \in Instances : InitTableFull(i)
    BY <1>2 DEF InitTableFull, history
  <1>3. CASE \E i \in Instances : LoadMissing(i)
    BY <1>3 DEF LoadMissing, history, Release
  <1>4. CASE \E i \in Instances : LoadFile(i)
    BY <1>4 DEF LoadFile, history
  <1>5. CASE \E i \in Instances : ResetClear(i)
    BY <1>5 DEF ResetClear, history, Release
  <1>6. CASE \E i \in Instances : Erase(i)
    BY <1>6 DEF Erase, history
  <1>7. CASE \E i \in Instances : ResetClaim(i)
    BY <1>7 DEF ResetClaim, history, Claimed, FirstFor, Usable
  <1>8. CASE \E i \in Instances : ResetTableFull(i)
    BY <1>8 DEF ResetTableFull, history
  <1>9. CASE \E i \in Instances : NestedClaim(i)
    BY <1>9 DEF NestedClaim, history, Claimed, FirstFor, Usable
  <1>10. CASE \E i \in Instances : BackupOpen(i)
    BY <1>10 DEF BackupOpen, history
  <1>11. CASE \E i \in Instances : BackupOpenFails(i)
    BY <1>11 DEF BackupOpenFails, history, Return, EndTick
  <1>12. CASE \E i \in Instances : BackupWrite(i)
    BY <1>12 DEF BackupWrite, history, Return, EndTick, Record
  <1>13. CASE \E i \in Instances : TickBegin(i)
    BY <1>13 DEF TickBegin, history, Claimed, FirstFor, Usable
  <1>14. CASE \E i \in Instances : NotTrading(i)
    BY <1>14 DEF NotTrading, history, EndTick
  <1>15. CASE \E i \in Instances : Ungated(i)
    BY <1>15 DEF Ungated, history
  <1>16. CASE \E i \in Instances : GateRefuses(i)
    BY <1>16 DEF GateRefuses, history, EndTick
  <1>17. CASE \E i \in Instances : GateStores(i)
    BY <1>17 DEF GateStores, history, StoreRunTime, FirstFor, Usable
  <1>18. CASE \E i \in Instances : GateAnswers(i)
    BY <1>18 DEF GateAnswers, history, Return, EndTick
  <1>19. CASE \E i \in Instances : SetLastOrderUpdateTime(i)
    BY <1>19 DEF SetLastOrderUpdateTime, history, FirstFor, Usable
  <1>20. CASE \E i \in Instances : StrategyReturns(i)
    BY <1>20 DEF StrategyReturns, history, EndTick
  <1>21. CASE \E i \in Instances : Deinit(i)
    BY <1>21 DEF Deinit, history
  <1>22. CASE NewBar
    BY <1>22 DEF NewBar, history
  <1>23. CASE Crash
    BY <1>23 DEF Crash, Fresh
  <1>24. CASE UNCHANGED vars
    BY <1>24 DEF vars
  <1> QED
    BY <1>1, <1>2, <1>3, <1>4, <1>5, <1>6, <1>7, <1>8, <1>9, <1>10, <1>11, <1>12, <1>13, <1>14, <1>15, <1>16, <1>17, <1>18, <1>19, <1>20, <1>21, <1>22, <1>23, <1>24
    DEF Next, Initialise, Backup, Tick

LEMMA NextFileHoldsOwner == IInv /\ TypeOK' /\ [Next]_vars => FileHoldsOwner'
  <1> SUFFICES ASSUME IInv, TypeOK', [Next]_vars PROVE FileHoldsOwner'
    OBVIOUS
  <1> USE TableAssumption DEF IInv, TypeOK, FileHoldsOwner, Held
  <1>1. CASE \E i \in Instances : InitClaim(i)
    BY <1>1 DEF InitClaim, history, Claimed, FirstFor, Usable
  <1>2. CASE \E i \in Instances : InitTableFull(i)
    BY <1>2 DEF InitTableFull, history
  <1>3. CASE \E i \in Instances : LoadMissing(i)
    BY <1>3 DEF LoadMissing, history, Release
  <1>4. CASE \E i \in Instances : LoadFile(i)
    BY <1>4 DEF LoadFile, history
  <1>5. CASE \E i \in Instances : ResetClear(i)
    BY <1>5 DEF ResetClear, history, Release
  <1>6. CASE \E i \in Instances : Erase(i)
    BY <1>6 DEF Erase, history
  <1>7. CASE \E i \in Instances : ResetClaim(i)
    BY <1>7 DEF ResetClaim, history, Claimed, FirstFor, Usable
  <1>8. CASE \E i \in Instances : ResetTableFull(i)
    BY <1>8 DEF ResetTableFull, history
  <1>9. CASE \E i \in Instances : NestedClaim(i)
    BY <1>9 DEF NestedClaim, history, Claimed, FirstFor, Usable
  <1>10. CASE \E i \in Instances : BackupOpen(i)
    BY <1>10 DEF BackupOpen, history
  <1>11. CASE \E i \in Instances : BackupOpenFails(i)
    BY <1>11 DEF BackupOpenFails, history, Return, EndTick
  <1>12. CASE \E i \in Instances : BackupWrite(i)
    BY <1>12 DEF BackupWrite, history, Return, EndTick, Record
  <1>13. CASE \E i \in Instances : TickBegin(i)
    BY <1>13 DEF TickBegin, history, Claimed, FirstFor, Usable
  <1>14. CASE \E i \in Instances : NotTrading(i)
    BY <1>14 DEF NotTrading, history, EndTick
  <1>15. CASE \E i \in Instances : Ungated(i)
    BY <1>15 DEF Ungated, history
  <1>16. CASE \E i \in Instances : GateRefuses(i)
    BY <1>16 DEF GateRefuses, history, EndTick
  <1>17. CASE \E i \in Instances : GateStores(i)
    BY <1>17 DEF GateStores, history, StoreRunTime, FirstFor, Usable
  <1>18. CASE \E i \in Instances : GateAnswers(i)
    BY <1>18 DEF GateAnswers, history, Return, EndTick
  <1>19. CASE \E i \in Instances : SetLastOrderUpdateTime(i)
    BY <1>19 DEF SetLastOrderUpdateTime, history, FirstFor, Usable
  <1>20. CASE \E i \in Instances : StrategyReturns(i)
    BY <1>20 DEF StrategyReturns, history, EndTick
  <1>21. CASE \E i \in Instances : Deinit(i)
    BY <1>21 DEF Deinit, history
  <1>22. CASE NewBar
    BY <1>22 DEF NewBar, history
  <1>23. CASE Crash
    BY <1>23 DEF Crash, Fresh
  <1>24. CASE UNCHANGED vars
    BY <1>24 DEF vars
  <1> QED
    BY <1>1, <1>2, <1>3, <1>4, <1>5, <1>6, <1>7, <1>8, <1>9, <1>10, <1>11, <1>12, <1>13, <1>14, <1>15, <1>16, <1>17, <1>18, <1>19, <1>20, <1>21, <1>22, <1>23, <1>24
    DEF Next, Initialise, Backup, Tick

LEMMA NextHeld == IInv /\ TypeOK' /\ [Next]_vars => Held'
  <1> SUFFICES ASSUME IInv, TypeOK', [Next]_vars PROVE Held'
    OBVIOUS
  <1> USE TableAssumption DEF IInv, TypeOK, Held, Control, FileHoldsOwner
  <1>1. CASE \E i \in Instances : InitClaim(i)
    BY <1>1 DEF InitClaim, history, Claimed, FirstFor, Usable
  <1>2. CASE \E i \in Instances : InitTableFull(i)
    BY <1>2 DEF InitTableFull, history
  <1>3. CASE \E i \in Instances : LoadMissing(i)
    BY <1>3 DEF LoadMissing, history, Release
  <1>4. CASE \E i \in Instances : LoadFile(i)
    BY <1>4 DEF LoadFile, history
  <1>5. CASE \E i \in Instances : ResetClear(i)
    BY <1>5 DEF ResetClear, history, Release
  <1>6. CASE \E i \in Instances : Erase(i)
    BY <1>6 DEF Erase, history
  <1>7. CASE \E i \in Instances : ResetClaim(i)
    BY <1>7 DEF ResetClaim, history, Claimed, FirstFor, Usable
  <1>8. CASE \E i \in Instances : ResetTableFull(i)
    BY <1>8 DEF ResetTableFull, history
  <1>9. CASE \E i \in Instances : NestedClaim(i)
    BY <1>9 DEF NestedClaim, history, Claimed, FirstFor, Usable
  <1>10. CASE \E i \in Instances : BackupOpen(i)
    BY <1>10 DEF BackupOpen, history
  <1>11. CASE \E i \in Instances : BackupOpenFails(i)
    BY <1>11 DEF BackupOpenFails, history, Return, EndTick
  <1>12. CASE \E i \in Instances : BackupWrite(i)
    BY <1>12 DEF BackupWrite, history, Return, EndTick, Record
  <1>13. CASE \E i \in Instances : TickBegin(i)
    <2> PICK i \in Instances : TickBegin(i)
      BY <1>13
    <2>1. CASE UNCHANGED slots
      BY <2>1 DEF TickBegin, history
    <2>2. CASE \E k \in Slots : FirstFor(i, k) /\ slots' = Claimed(i, k)
      BY <2>2 DEF TickBegin, history, Claimed, FirstFor, Usable
    <2> QED
      BY <2>1, <2>2 DEF TickBegin
  <1>14. CASE \E i \in Instances : NotTrading(i)
    BY <1>14 DEF NotTrading, history, EndTick
  <1>15. CASE \E i \in Instances : Ungated(i)
    BY <1>15 DEF Ungated, history
  <1>16. CASE \E i \in Instances : GateRefuses(i)
    BY <1>16 DEF GateRefuses, history, EndTick
  <1>17. CASE \E i \in Instances : GateStores(i)
    BY <1>17 DEF GateStores, history, StoreRunTime, FirstFor, Usable
  <1>18. CASE \E i \in Instances : GateAnswers(i)
    BY <1>18 DEF GateAnswers, history, Return, EndTick
  <1>19. CASE \E i \in Instances : SetLastOrderUpdateTime(i)
    BY <1>19 DEF SetLastOrderUpdateTime, history, FirstFor, Usable
  <1>20. CASE \E i \in Instances : StrategyReturns(i)
    BY <1>20 DEF StrategyReturns, history, EndTick
  <1>21. CASE \E i \in Instances : Deinit(i)
    BY <1>21 DEF Deinit, history
  <1>22. CASE NewBar
    BY <1>22 DEF NewBar, history
  <1>23. CASE Crash
    BY <1>23 DEF Crash, Fresh
  <1>24. CASE UNCHANGED vars
    BY <1>24 DEF vars
  <1> QED
    BY <1>1, <1>2, <1>3, <1>4, <1>5, <1>6, <1>7, <1>8, <1>9, <1>10, <1>11, <1>12, <1>13, <1>14, <1>15, <1>16, <1>17, <1>18, <1>19, <1>20, <1>21, <1>22, <1>23, <1>24
    DEF Next, Initialise, Backup, Tick

\* Giving a slot back: whoever has a slot above it is recorded as shadowed.
LEMMA ReleaseOwnSlotFound ==
  ASSUME IInv, NEW i \in Instances, pc[i] \in {"load", "clear"}, Release(i)
  PROVE  OwnSlotFound'
  <1> SUFFICES ASSUME NEW m \in Instances \ shadowed', NEW k \in Slots, slots'[k].id = m,
                      NEW j \in Slots, j < k
               PROVE  slots'[j].id \notin {Free, m}
    BY DEF OwnSlotFound
  <1> USE DEF IInv, TypeOK
  <1>1. /\ slots[idx[i]].id = i /\ idx[i] \in Slots
        /\ slots'[idx[i]].id = Free
        /\ \A n \in Slots : n # idx[i] => slots'[n] = slots[n]
    BY DEF Held, Release
  <1>2. k # idx[i] /\ slots[k].id = m
    BY <1>1, TableAssumption
  <1>3. m \notin BehindHole(idx[i])
    BY DEF Release
  <1>4. ~(k > idx[i])
    BY <1>2, <1>3 DEF BehindHole
  <1>5. j # idx[i]
    BY <1>1, <1>4, TableAssumption DEF Slots
  <1>6. CASE m = i
    <2>1. pc[i] = "clear" => FALSE
      BY <1>1, <1>2, <1>4, <1>6, TableAssumption DEF Held, Slots
    <2>2. i \in Live /\ m \notin shadowed
      BY <2>1, <1>6 DEF Control, Release
    <2> QED
      BY <2>2, <1>1, <1>2, <1>5 DEF OwnSlotFound
  <1>7. CASE m # i
    <2>1. m \notin shadowed
      BY <1>7 DEF Release
    <2> QED
      BY <2>1, <1>1, <1>2, <1>5 DEF OwnSlotFound
  <1> QED
    BY <1>6, <1>7

LEMMA NextOwnSlotFound == IInv /\ TypeOK' /\ [Next]_vars => OwnSlotFound'
  <1> SUFFICES ASSUME IInv, TypeOK', [Next]_vars PROVE OwnSlotFound'
    OBVIOUS
  <1> USE TableAssumption DEF IInv, TypeOK, OwnSlotFound, Held, FileHoldsOwner, Control
  <1>1. CASE \E i \in Instances : InitClaim(i)
    BY <1>1 DEF InitClaim, history, Claimed, FirstFor, Usable
  <1>2. CASE \E i \in Instances : InitTableFull(i)
    BY <1>2 DEF InitTableFull, history
  <1>3. CASE \E i \in Instances : LoadMissing(i)
    BY <1>3, ReleaseOwnSlotFound DEF LoadMissing
  <1>4. CASE \E i \in Instances : LoadFile(i)
    BY <1>4 DEF LoadFile, history
  <1>5. CASE \E i \in Instances : ResetClear(i)
    BY <1>5, ReleaseOwnSlotFound DEF ResetClear
  <1>6. CASE \E i \in Instances : Erase(i)
    BY <1>6 DEF Erase, history
  <1>7. CASE \E i \in Instances : ResetClaim(i)
    BY <1>7 DEF ResetClaim, history, Claimed, FirstFor, Usable
  <1>8. CASE \E i \in Instances : ResetTableFull(i)
    BY <1>8 DEF ResetTableFull, history
  <1>9. CASE \E i \in Instances : NestedClaim(i)
    BY <1>9 DEF NestedClaim, history, Claimed, FirstFor, Usable
  <1>10. CASE \E i \in Instances : BackupOpen(i)
    BY <1>10 DEF BackupOpen, history
  <1>11. CASE \E i \in Instances : BackupOpenFails(i)
    BY <1>11 DEF BackupOpenFails, history, Return, EndTick
  <1>12. CASE \E i \in Instances : BackupWrite(i)
    BY <1>12 DEF BackupWrite, history, Return, EndTick, Record
  <1>13. CASE \E i \in Instances : TickBegin(i)
    <2> PICK i \in Instances : TickBegin(i)
      BY <1>13
    <2>1. CASE UNCHANGED slots
      BY <2>1 DEF TickBegin, history
    <2>2. CASE \E k \in Slots : FirstFor(i, k) /\ slots' = Claimed(i, k)
      BY <2>2 DEF TickBegin, history, Claimed, FirstFor, Usable
    <2> QED
      BY <2>1, <2>2 DEF TickBegin
  <1>14. CASE \E i \in Instances : NotTrading(i)
    BY <1>14 DEF NotTrading, history, EndTick
  <1>15. CASE \E i \in Instances : Ungated(i)
    BY <1>15 DEF Ungated, history
  <1>16. CASE \E i \in Instances : GateRefuses(i)
    BY <1>16 DEF GateRefuses, history, EndTick
  <1>17. CASE \E i \in Instances : GateStores(i)
    BY <1>17 DEF GateStores, history, StoreRunTime, FirstFor, Usable
  <1>18. CASE \E i \in Instances : GateAnswers(i)
    BY <1>18 DEF GateAnswers, history, Return, EndTick
  <1>19. CASE \E i \in Instances : SetLastOrderUpdateTime(i)
    BY <1>19 DEF SetLastOrderUpdateTime, history, FirstFor, Usable
  <1>20. CASE \E i \in Instances : StrategyReturns(i)
    BY <1>20 DEF StrategyReturns, history, EndTick
  <1>21. CASE \E i \in Instances : Deinit(i)
    BY <1>21 DEF Deinit, history
  <1>22. CASE NewBar
    BY <1>22 DEF NewBar, history
  <1>23. CASE Crash
    BY <1>23 DEF Crash, Fresh
  <1>24. CASE UNCHANGED vars
    BY <1>24 DEF vars
  <1> QED
    BY <1>1, <1>2, <1>3, <1>4, <1>5, <1>6, <1>7, <1>8, <1>9, <1>10, <1>11, <1>12, <1>13, <1>14, <1>15, <1>16, <1>17, <1>18, <1>19, <1>20, <1>21, <1>22, <1>23, <1>24
    DEF Next, Initialise, Backup, Tick

\* Every stored time is a number, and none is earlier than NoTime.
LEMMA Times0 ==
  ASSUME TypeOK
  PROVE  /\ now \in Nat \ {0}
         /\ \A k \in Slots : slots[k].lastRun \in Int /\ slots[k].lastRun >= NoTime
         /\ \A i \in Instances : /\ bar[i] \in Nat \ {0}
                                 /\ files[i].state.lastRun \in Int
                                 /\ files[i].state.lastRun >= NoTime
                                 /\ lastGrant[i] \in Int
                                 /\ lastGrant[i] >= NoTime
  BY TableAssumption DEF TypeOK, SlotState, FileState, Times, Bars

\* What the steps that write a slot do to the run times in the table.
LEMMA ClaimedTimes ==
  ASSUME TypeOK, NEW i \in Instances, NEW k \in Slots, FirstFor(i, k), slots' = Claimed(i, k)
  PROVE  /\ slots'[k].id = i
         /\ slots'[k].lastRun = IF slots[k].id = i THEN slots[k].lastRun ELSE NoTime
         /\ slots[k].id \in {Free, i}
         /\ \A j \in Slots : j # k => slots'[j] = slots[j]
  BY TableAssumption DEF TypeOK, Claimed, FirstFor, Usable, Fresh, SlotState

LEMMA NextPastTimes == IInv /\ TypeOK' /\ [Next]_vars => PastTimes'
  <1> SUFFICES ASSUME IInv, TypeOK', [Next]_vars PROVE PastTimes'
    OBVIOUS
  <1> USE TableAssumption, Times0 DEF IInv, PastTimes
  <1>1. CASE \E i \in Instances : InitClaim(i) \/ ResetClaim(i) \/ NestedClaim(i)
    <2> PICK i \in Instances, k \in Slots :
             /\ InitClaim(i) \/ ResetClaim(i) \/ NestedClaim(i)
             /\ FirstFor(i, k) /\ slots' = Claimed(i, k)
      BY <1>1 DEF InitClaim, ResetClaim, NestedClaim
    <2>1. \A j \in Slots : slots'[j].lastRun <= now
      BY ClaimedTimes
    <2>2. /\ UNCHANGED <<files, bar, now>>
          /\ \A m \in Instances : pc'[m] = "gate" => m # i /\ pc[m] = "gate"
      BY DEF InitClaim, ResetClaim, NestedClaim, TypeOK
    <2>3. \A m \in Instances, j \in Slots : m # i /\ slots'[j].id = m => slots'[j] = slots[j]
      BY ClaimedTimes
    <2> QED
      BY <2>1, <2>2, <2>3
  <1>2. CASE \E i \in Instances : LoadMissing(i) \/ ResetClear(i)
    <2> PICK i \in Instances : pc[i] \in {"load", "clear"} /\ Release(i)
      BY <1>2 DEF LoadMissing, ResetClear
    <2>1. \A k \in Slots : slots'[k].lastRun = slots[k].lastRun
      BY DEF Release, TypeOK, SlotState
    <2>2. \A m \in Instances : pc'[m] = "gate" => m # i /\ pc[m] = "gate"
      BY DEF Release, TypeOK
    <2>3. \A m \in Instances, k \in Slots : slots'[k].id = m => slots[k].id = m
      BY DEF Release, TypeOK, SlotState
    <2> QED
      BY <2>1, <2>2, <2>3 DEF Release
  <1>3. CASE \E i \in Instances : LoadFile(i)
    <2> PICK i \in Instances : LoadFile(i)
      BY <1>3
    <2>1. /\ UNCHANGED <<files, bar, now>>
          /\ \A m \in Instances : pc'[m] = "gate" => m # i /\ pc[m] = "gate"
      BY DEF LoadFile, TypeOK
    <2>2. \A k \in Slots : slots'[k] \in {slots[k], files[i].state}
      BY DEF LoadFile, TypeOK
    <2>3. \A k \in Slots : slots'[k].lastRun <= now
      BY <2>2
    <2>4. slots[idx[i]].id = i
      BY DEF LoadFile, Held
    <2>5. \A m \in Instances, k \in Slots : m # i /\ slots'[k].id = m => slots'[k] = slots[k]
      BY <2>4 DEF LoadFile, TypeOK, FileHoldsOwner
    <2> QED
      BY <2>1, <2>3, <2>5
  <1>4. CASE \E i \in Instances : Erase(i)
    BY <1>4 DEF Erase, TypeOK, Fresh
  <1>5. CASE \E i \in Instances : BackupOpen(i)
    BY <1>5 DEF BackupOpen, TypeOK, Fresh
  <1>6. CASE \E i \in Instances : BackupOpenFails(i) \/ GateAnswers(i)
    <2> PICK i \in Instances : Return(i) /\ UNCHANGED <<slots, files, now>>
      BY <1>6 DEF BackupOpenFails, GateAnswers
    <2> QED
      BY DEF Return, EndTick, TypeOK
  <1>7. CASE \E i \in Instances : BackupWrite(i)
    BY <1>7 DEF BackupWrite, TypeOK, Record, Return, EndTick
  <1>8. CASE \E i \in Instances : TickBegin(i)
    <2> PICK i \in Instances : TickBegin(i)
      BY <1>8
    <2>1. CASE UNCHANGED slots
      BY <2>1 DEF TickBegin, TypeOK
    <2>2. CASE \E k \in Slots : FirstFor(i, k) /\ slots' = Claimed(i, k)
      <3> PICK k \in Slots : FirstFor(i, k) /\ slots' = Claimed(i, k)
        BY <2>2
      <3>1. \A j \in Slots : slots'[j].lastRun <= now
        BY ClaimedTimes
      <3>2. \A m \in Instances, j \in Slots : m # i /\ slots'[j].id = m => slots'[j] = slots[j]
        BY ClaimedTimes
      <3> QED
        BY <3>1, <3>2 DEF TickBegin, TypeOK
    <2> QED
      BY <2>1, <2>2 DEF TickBegin
  <1>9. CASE \E i \in Instances :
             \/ NotTrading(i) \/ Ungated(i) \/ GateRefuses(i) \/ StrategyReturns(i)
             \/ Deinit(i) \/ InitTableFull(i) \/ ResetTableFull(i)
    BY <1>9 DEF NotTrading, Ungated, GateRefuses, StrategyReturns, Deinit, InitTableFull,
       ResetTableFull, EndTick, TypeOK
  <1>10. CASE \E i \in Instances : GateStores(i)
    BY <1>10 DEF GateStores, StoreRunTime, FirstFor, Usable, TypeOK
  <1>11. CASE \E i \in Instances : SetLastOrderUpdateTime(i)
    BY <1>11 DEF SetLastOrderUpdateTime, FirstFor, Usable, TypeOK
  <1>12. CASE NewBar
    BY <1>12 DEF NewBar
  <1>13. CASE Crash
    BY <1>13 DEF Crash, Fresh, TypeOK
  <1>14. CASE UNCHANGED vars
    BY <1>14 DEF vars
  <1> QED
    BY <1>1, <1>2, <1>3, <1>4, <1>5, <1>6, <1>7, <1>8, <1>9, <1>10, <1>11, <1>12, <1>13, <1>14
    DEF Next, Initialise, Backup, Tick

\* An instance that is not shadowed has one slot, and the lookup finds it.
LEMMA LookupFindsOwnSlot ==
  ASSUME IInv, NEW i \in Instances \ shadowed, NEW k \in Slots, NEW n \in Slots,
         slots[n].id = i
  PROVE  /\ FirstFor(i, k) => k = n
         /\ slots[k].id = i => k = n
  BY TableAssumption DEF IInv, OwnSlotFound, FirstFor, Usable, Slots

\* A lookup that claims a slot leaves the records of the instances that have one alone.
LEMMA ClaimKeepsRecords ==
  ASSUME IInv, NEW i \in Instances, NEW k \in Slots, FirstFor(i, k), slots' = Claimed(i, k),
         NEW m \in Instances \ shadowed, \E n \in Slots : slots[n].id = m
  PROVE  \A n \in Slots : /\ slots'[n].id = m <=> slots[n].id = m
                          /\ slots[n].id = m => slots'[n] = slots[n]
  <1> PICK n \in Slots : slots[n].id = m
    OBVIOUS
  <1>1. CASE m = i
    BY <1>1, LookupFindsOwnSlot DEF Claimed
  <1>2. CASE m # i
    BY <1>2, ClaimedTimes, TableAssumption DEF IInv
  <1> QED
    BY <1>1, <1>2

LEMMA NextRunTimeOnDiskFirst == IInv /\ TypeOK' /\ [Next]_vars => RunTimeOnDiskFirst'
  <1> SUFFICES ASSUME IInv, TypeOK', [Next]_vars PROVE RunTimeOnDiskFirst'
    OBVIOUS
  <1> USE TableAssumption, Times0 DEF IInv, TypeOK, Sound, RunTimeOnDiskFirst, Recorded, RecordedFor, Pending, PendingFor, Control, Held
  <1>1. CASE \E i \in Instances : InitClaim(i)
    BY <1>1 DEF InitClaim, Claimed, FirstFor, Usable, Fresh, history
  <1>2. CASE \E i \in Instances : InitTableFull(i)
    BY <1>2 DEF InitTableFull, TableFull, Usable, history
  <1>3. CASE \E i \in Instances : LoadMissing(i)
    BY <1>3 DEF LoadMissing, Release, history
  <1>4. CASE \E i \in Instances : LoadFile(i)
    BY <1>4 DEF LoadFile, history
  <1>5. CASE \E i \in Instances : ResetClear(i)
    BY <1>5 DEF ResetClear, Release, history
  <1>6. CASE \E i \in Instances : Erase(i)
    BY <1>6 DEF Erase, Fresh, history
  <1>7. CASE \E i \in Instances : ResetClaim(i)
    BY <1>7 DEF ResetClaim, Claimed, FirstFor, Usable, Fresh, history
  <1>8. CASE \E i \in Instances : ResetTableFull(i)
    BY <1>8 DEF ResetTableFull, TableFull, Usable, history
  <1>9. CASE \E i \in Instances : NestedClaim(i)
    BY <1>9 DEF NestedClaim, Claimed, FirstFor, Usable, Fresh, history
  <1>10. CASE \E i \in Instances : BackupOpen(i)
    BY <1>10 DEF BackupOpen, history
  <1>11. CASE \E i \in Instances : BackupOpenFails(i)
    BY <1>11 DEF BackupOpenFails, Return, EndTick, history
  <1>12. CASE \E i \in Instances : BackupWrite(i)
    BY <1>12 DEF BackupWrite, Return, EndTick, Record, history
  <1>13. CASE \E i \in Instances : TickBegin(i)
    BY <1>13 DEF TickBegin, Claimed, FirstFor, Usable, Fresh, history
  <1>14. CASE \E i \in Instances : NotTrading(i) \/ Ungated(i) \/ GateRefuses(i) \/ StrategyReturns(i) \/ Deinit(i)
    BY <1>14 DEF NotTrading, Ungated, GateRefuses, StrategyReturns, Deinit, EndTick, history
  <1>15. CASE \E i \in Instances : GateStores(i)
    BY <1>15 DEF GateStores, StoreRunTime, FirstFor, Usable, history
  <1>16. CASE \E i \in Instances : GateAnswers(i)
    BY <1>16 DEF GateAnswers, Return, EndTick, history
  <1>17. CASE \E i \in Instances : SetLastOrderUpdateTime(i)
    BY <1>17 DEF SetLastOrderUpdateTime, FirstFor, Usable, history
  <1>18. CASE NewBar
    BY <1>18 DEF NewBar, history
  <1>19. CASE Crash
    BY <1>19 DEF Crash, Fresh, history
  <1>20. CASE UNCHANGED vars
    BY <1>20 DEF vars, history
  <1> QED
    BY <1>1, <1>2, <1>3, <1>4, <1>5, <1>6, <1>7, <1>8, <1>9, <1>10, <1>11, <1>12, <1>13, <1>14, <1>15, <1>16, <1>17, <1>18, <1>19, <1>20
    DEF Next, Initialise, Backup, Tick

LEMMA NextRecorded == IInv /\ TypeOK' /\ [Next]_vars => Recorded'
  <1> SUFFICES ASSUME IInv, TypeOK', [Next]_vars PROVE Recorded'
    OBVIOUS
  <1>1. CASE \E i \in Instances : InitClaim(i)
    <2> PICK i \in Instances, k \in Slots :
             InitClaim(i) /\ FirstFor(i, k) /\ slots' = Claimed(i, k)
      BY <1>1 DEF InitClaim
    <2> SUFFICES ASSUME NEW m \in Sound', lastGrant'[m] # NoTime
                 PROVE  RecordedFor(m)'
      BY DEF Recorded
    <2>1. m \in Sound /\ m \in Instances \ shadowed /\ lastGrant[m] # NoTime /\ RecordedFor(m)
      BY DEF InitClaim, history, Sound, IInv, Recorded
    <2>2. /\ UNCHANGED lastGrant
          /\ m # i => pc'[m] = pc[m]
          /\ pc[i] = "off" /\ pc'[i] \in {"load", "clear"}
      BY DEF InitClaim, history, IInv, TypeOK
    <2>3. CASE \E n \in Slots : slots[n].id = m
      <3>1. \A n \in Slots : /\ slots'[n].id = m <=> slots[n].id = m
                             /\ slots[n].id = m => slots'[n] = slots[n]
        BY <2>1, <2>3, ClaimKeepsRecords
      <3> QED
        BY <2>1, <2>2, <2>3, <3>1 DEF RecordedFor
    <2>4. CASE \A n \in Slots : slots[n].id # m
      <3>1. m \in Live /\ pc[m] \in {"off", "load"}
        BY <2>1, <2>4 DEF RecordedFor
      <3>2. TypeOK /\ Control
        BY DEF IInv
      <3> QED
        BY <2>1, <2>2, <2>4, <3>1, <3>2, ClaimedTimes DEF RecordedFor, Control, InitClaim, TypeOK
    <2> QED
      BY <2>3, <2>4
  <1>2. CASE \E i \in Instances : ResetClaim(i)
    <2> PICK i \in Instances, k \in Slots :
             ResetClaim(i) /\ FirstFor(i, k) /\ slots' = Claimed(i, k)
      BY <1>2 DEF ResetClaim
    <2> SUFFICES ASSUME NEW m \in Sound', lastGrant'[m] # NoTime
                 PROVE  RecordedFor(m)'
      BY DEF Recorded
    <2>1. m \in Sound /\ m \in Instances \ shadowed /\ lastGrant[m] # NoTime /\ RecordedFor(m)
      BY DEF ResetClaim, history, Sound, IInv, Recorded
    <2>2. /\ UNCHANGED lastGrant
          /\ m # i => pc'[m] = pc[m]
          /\ pc[i] = "reclaim" /\ pc'[i] \in {"open"}
      BY DEF ResetClaim, history, IInv, TypeOK
    <2>3. CASE \E n \in Slots : slots[n].id = m
      <3>1. \A n \in Slots : /\ slots'[n].id = m <=> slots[n].id = m
                             /\ slots[n].id = m => slots'[n] = slots[n]
        BY <2>1, <2>3, ClaimKeepsRecords
      <3> QED
        BY <2>1, <2>2, <2>3, <3>1 DEF RecordedFor
    <2>4. CASE \A n \in Slots : slots[n].id # m
      <3>1. m \in Live /\ pc[m] \in {"off", "load"}
        BY <2>1, <2>4 DEF RecordedFor
      <3>2. TypeOK /\ Control
        BY DEF IInv
      <3> QED
        BY <2>1, <2>2, <2>4, <3>1, <3>2, ClaimedTimes DEF RecordedFor, Control
    <2> QED
      BY <2>3, <2>4
  <1>3. CASE \E i \in Instances : NestedClaim(i)
    <2> PICK i \in Instances, k \in Slots :
             NestedClaim(i) /\ FirstFor(i, k) /\ slots' = Claimed(i, k)
      BY <1>3 DEF NestedClaim
    <2> SUFFICES ASSUME NEW m \in Sound', lastGrant'[m] # NoTime
                 PROVE  RecordedFor(m)'
      BY DEF Recorded
    <2>1. m \in Sound /\ m \in Instances \ shadowed /\ lastGrant[m] # NoTime /\ RecordedFor(m)
      BY DEF NestedClaim, history, Sound, IInv, Recorded
    <2>2. /\ UNCHANGED lastGrant
          /\ m # i => pc'[m] = pc[m]
          /\ pc[i] = "nested" /\ pc'[i] \in {"open"}
      BY DEF NestedClaim, history, IInv, TypeOK
    <2>3. CASE \E n \in Slots : slots[n].id = m
      <3>1. \A n \in Slots : /\ slots'[n].id = m <=> slots[n].id = m
                             /\ slots[n].id = m => slots'[n] = slots[n]
        BY <2>1, <2>3, ClaimKeepsRecords
      <3> QED
        BY <2>1, <2>2, <2>3, <3>1 DEF RecordedFor
    <2>4. CASE \A n \in Slots : slots[n].id # m
      <3>1. m \in Live /\ pc[m] \in {"off", "load"}
        BY <2>1, <2>4 DEF RecordedFor
      <3>2. TypeOK /\ Control
        BY DEF IInv
      <3> QED
        BY <2>1, <2>2, <2>4, <3>1, <3>2, ClaimedTimes DEF RecordedFor, Control
    <2> QED
      BY <2>3, <2>4
  <1>4. CASE \E i \in Instances : TickBegin(i)
    <2> PICK i \in Instances : TickBegin(i)
      BY <1>4
    <2> SUFFICES ASSUME NEW m \in Sound', lastGrant'[m] # NoTime
                 PROVE  RecordedFor(m)'
      BY DEF Recorded
    <2>1. m \in Sound /\ m \in Instances \ shadowed /\ lastGrant[m] # NoTime /\ RecordedFor(m)
      BY DEF TickBegin, history, Sound, IInv, Recorded
    <2>2. /\ UNCHANGED lastGrant
          /\ m # i => pc'[m] = pc[m]
          /\ pc[i] = "idle" /\ pc'[i] \in {"gate"}
      BY DEF TickBegin, history, IInv, TypeOK
    <2>5. CASE UNCHANGED slots
      BY <2>1, <2>2, <2>5 DEF RecordedFor
    <2> SUFFICES ASSUME NEW k \in Slots, FirstFor(i, k), slots' = Claimed(i, k)
                 PROVE  RecordedFor(m)'
      BY <2>5 DEF TickBegin
    <2>3. CASE \E n \in Slots : slots[n].id = m
      <3>1. \A n \in Slots : /\ slots'[n].id = m <=> slots[n].id = m
                             /\ slots[n].id = m => slots'[n] = slots[n]
        BY <2>1, <2>3, ClaimKeepsRecords
      <3> QED
        BY <2>1, <2>2, <2>3, <3>1 DEF RecordedFor
    <2>4. CASE \A n \in Slots : slots[n].id # m
      <3>1. m \in Live /\ pc[m] \in {"off", "load"}
        BY <2>1, <2>4 DEF RecordedFor
      <3>2. TypeOK /\ Control
        BY DEF IInv
      <3> QED
        BY <2>1, <2>2, <2>4, <3>1, <3>2, ClaimedTimes DEF RecordedFor, Control
    <2> QED
      BY <2>3, <2>4
  <1>5. CASE \E i \in Instances : LoadFile(i)
    <2> PICK i \in Instances : LoadFile(i)
      BY <1>5
    <2> SUFFICES ASSUME NEW m \in Sound', lastGrant'[m] # NoTime
                 PROVE  RecordedFor(m)'
      BY DEF Recorded
    <2>1. /\ m \in Sound /\ m \in Instances \ shadowed
          /\ lastGrant[m] # NoTime /\ RecordedFor(m)
      BY DEF LoadFile, history, Sound, IInv, Recorded
    <2>2. slots[idx[i]].id = i /\ idx[i] \in Slots /\ i \in Live
      BY DEF LoadFile, IInv, Held, TypeOK, Control
    <2>3. CASE m = i
      <3>1. /\ files[i].kind = "full" /\ files[i].state.id = i
            /\ files[i].state.lastRun >= lastGrant[i]
        BY <2>1, <2>2, <2>3 DEF LoadFile, IInv, RunTimeOnDiskFirst, FileHoldsOwner, Sound
      <3>2. slots'[idx[i]] = files[i].state /\ UNCHANGED lastGrant
        BY <2>2, <3>1 DEF LoadFile, IInv, TypeOK
      <3>3. \A j \in Slots : j # idx[i] => slots'[j] = slots[j]
        BY <2>2, <3>1 DEF LoadFile, IInv, TypeOK
      <3>4. \A j \in Slots : slots'[j].id = i => j = idx[i]
        BY <2>1, <2>2, <2>3, <3>3, LookupFindsOwnSlot
      <3> QED
        BY <2>2, <2>3, <3>1, <3>2, <3>4 DEF RecordedFor
    <2>4. CASE m # i
      <3>1. slots'[idx[i]].id = i
        BY <2>2 DEF LoadFile, IInv, FileHoldsOwner, TypeOK
      <3>2. \A j \in Slots : j # idx[i] => slots'[j] = slots[j]
        BY <2>2 DEF LoadFile, IInv, TypeOK
      <3>3. \A j \in Slots : slots[j].id = m \/ slots'[j].id = m => slots'[j] = slots[j]
        BY <2>2, <2>4, <3>1, <3>2
      <3>4. pc'[m] = pc[m] /\ UNCHANGED lastGrant
        BY <2>1, <2>4 DEF LoadFile, IInv, TypeOK
      <3> QED
        BY <2>1, <3>3, <3>4 DEF RecordedFor
    <2> QED
      BY <2>3, <2>4
  <1>6. CASE \E i \in Instances : GateStores(i)
    <2> PICK i \in Instances : GateStores(i)
      BY <1>6
    <2> PICK k \in Slots : FirstFor(i, k) /\ slots' = StoreRunTime(i, k)
      BY DEF GateStores
    <2> SUFFICES ASSUME NEW m \in Sound', lastGrant'[m] # NoTime
                 PROVE  RecordedFor(m)'
      BY DEF Recorded
    <2>1. /\ m \in Sound /\ m \in Instances \ shadowed /\ UNCHANGED lastGrant
          /\ lastGrant[m] # NoTime /\ RecordedFor(m)
      BY DEF GateStores, history, Sound, IInv, Recorded
    <2>2. slots'[k].id = i /\ slots'[k].lastRun = bar[i]
      BY DEF StoreRunTime, IInv, TypeOK, SlotState
    <2>3. \A j \in Slots : j # k => slots'[j] = slots[j]
      BY DEF StoreRunTime, IInv, TypeOK
    <2>4. CASE m = i
      <3> PICK n \in Slots : slots[n].id = i
        BY <2>1, <2>4 DEF GateStores, RecordedFor
      <3>1. n = k
        BY <2>1, <2>4, LookupFindsOwnSlot
      <3>2. slots[k].lastRun >= lastGrant[i] /\ slots[k].lastRun <= bar[i]
        BY <2>1, <2>4, <3>1 DEF GateStores, IInv, PastTimes, RecordedFor
      <3>3. bar[i] >= lastGrant[i]
        BY <3>2, Times0 DEF IInv
      <3>4. \A j \in Slots : slots'[j].id = i => j = k
        BY <2>1, <2>3, <2>4, <3>1, LookupFindsOwnSlot
      <3> QED
        BY <2>1, <2>2, <2>4, <3>3, <3>4 DEF RecordedFor
    <2>5. CASE m # i
      <3>1. slots[k].id # m /\ slots'[k].id # m
        BY <2>1, <2>2, <2>5, TableAssumption DEF FirstFor, Usable, Sound
      <3>2. pc'[m] = pc[m]
        BY <2>1, <2>5 DEF GateStores, IInv, TypeOK
      <3> QED
        BY <2>1, <2>3, <3>1, <3>2 DEF RecordedFor
    <2> QED
      BY <2>4, <2>5
  <1>7. CASE \E i \in Instances : SetLastOrderUpdateTime(i)
    <2> PICK i \in Instances : SetLastOrderUpdateTime(i)
      BY <1>7
    <2> PICK k \in Slots :
             /\ FirstFor(i, k)
             /\ slots' = [slots EXCEPT ![k].id = i, ![k].lastUpdate = bar[i]]
      BY DEF SetLastOrderUpdateTime
    <2> SUFFICES ASSUME NEW m \in Sound', lastGrant'[m] # NoTime
                 PROVE  RecordedFor(m)'
      BY DEF Recorded
    <2>1. /\ m \in Sound /\ m \in Instances \ shadowed /\ UNCHANGED lastGrant
          /\ lastGrant[m] # NoTime /\ RecordedFor(m)
      BY DEF SetLastOrderUpdateTime, history, Sound, IInv, Recorded
    <2>2. slots'[k].id = i /\ slots'[k].lastRun = slots[k].lastRun
      BY DEF IInv, TypeOK, SlotState
    <2>3. \A j \in Slots : j # k => slots'[j] = slots[j]
      BY DEF IInv, TypeOK
    <2>4. CASE m = i
      <3> PICK n \in Slots : slots[n].id = i
        BY <2>1, <2>4 DEF SetLastOrderUpdateTime, RecordedFor
      <3>1. n = k
        BY <2>1, <2>4, LookupFindsOwnSlot
      <3>3. slots[k].lastRun >= lastGrant[i]
        BY <2>1, <2>4, <3>1 DEF SetLastOrderUpdateTime, RecordedFor
      <3>4. \A j \in Slots : slots'[j].id = i => j = k
        BY <2>1, <2>3, <2>4, <3>1, LookupFindsOwnSlot
      <3> QED
        BY <2>1, <2>2, <2>4, <3>3, <3>4 DEF RecordedFor
    <2>5. CASE m # i
      <3>1. slots[k].id # m /\ slots'[k].id # m
        BY <2>1, <2>2, <2>5, TableAssumption DEF FirstFor, Usable, Sound
      <3>2. pc'[m] = pc[m]
        BY <2>1, <2>5 DEF SetLastOrderUpdateTime, IInv, TypeOK
      <3> QED
        BY <2>1, <2>3, <3>1, <3>2 DEF RecordedFor
    <2> QED
      BY <2>4, <2>5
  <1>8. CASE \E i \in Instances : InitTableFull(i)
    BY <1>8, TableAssumption, Times0
    DEF InitTableFull, TableFull, Usable, history,
        IInv, TypeOK, Sound, Recorded, RecordedFor, RunTimeOnDiskFirst, PastTimes,
        Pending, PendingFor, Control, Held, OwnSlotFound, FileHoldsOwner
  <1>9. CASE \E i \in Instances : LoadMissing(i)
    BY <1>9, TableAssumption, Times0
    DEF LoadMissing, Release, history,
        IInv, TypeOK, Sound, Recorded, RecordedFor, RunTimeOnDiskFirst, PastTimes,
        Pending, PendingFor, Control, Held, OwnSlotFound, FileHoldsOwner
  <1>10. CASE \E i \in Instances : ResetClear(i)
    BY <1>10, TableAssumption, Times0
    DEF ResetClear, Release, history,
        IInv, TypeOK, Sound, Recorded, RecordedFor, RunTimeOnDiskFirst, PastTimes,
        Pending, PendingFor, Control, Held, OwnSlotFound, FileHoldsOwner
  <1>11. CASE \E i \in Instances : Erase(i)
    BY <1>11, TableAssumption, Times0
    DEF Erase, Fresh, history,
        IInv, TypeOK, Sound, Recorded, RecordedFor, RunTimeOnDiskFirst, PastTimes,
        Pending, PendingFor, Control, Held, OwnSlotFound, FileHoldsOwner
  <1>12. CASE \E i \in Instances : ResetTableFull(i)
    BY <1>12, TableAssumption, Times0
    DEF ResetTableFull, TableFull, Usable, history,
        IInv, TypeOK, Sound, Recorded, RecordedFor, RunTimeOnDiskFirst, PastTimes,
        Pending, PendingFor, Control, Held, OwnSlotFound, FileHoldsOwner
  <1>13. CASE \E i \in Instances : BackupOpen(i)
    BY <1>13, TableAssumption, Times0
    DEF BackupOpen, history,
        IInv, TypeOK, Sound, Recorded, RecordedFor, RunTimeOnDiskFirst, PastTimes,
        Pending, PendingFor, Control, Held, OwnSlotFound, FileHoldsOwner
  <1>14. CASE \E i \in Instances : BackupOpenFails(i)
    BY <1>14, TableAssumption, Times0
    DEF BackupOpenFails, Return, EndTick, history,
        IInv, TypeOK, Sound, Recorded, RecordedFor, RunTimeOnDiskFirst, PastTimes,
        Pending, PendingFor, Control, Held, OwnSlotFound, FileHoldsOwner
  <1>15. CASE \E i \in Instances : BackupWrite(i)
    BY <1>15, TableAssumption, Times0
    DEF BackupWrite, Return, EndTick, Record, history,
        IInv, TypeOK, Sound, Recorded, RecordedFor, RunTimeOnDiskFirst, PastTimes,
        Pending, PendingFor, Control, Held, OwnSlotFound, FileHoldsOwner
  <1>16. CASE \E i \in Instances : NotTrading(i) \/ Ungated(i)
    BY <1>16, TableAssumption, Times0
    DEF NotTrading, Ungated, EndTick, history,
        IInv, TypeOK, Sound, Recorded, RecordedFor, RunTimeOnDiskFirst, PastTimes,
        Pending, PendingFor, Control, Held, OwnSlotFound, FileHoldsOwner
  <1>17. CASE \E i \in Instances : GateRefuses(i) \/ StrategyReturns(i) \/ Deinit(i)
    BY <1>17, TableAssumption, Times0
    DEF GateRefuses, StrategyReturns, Deinit, EndTick, history,
        IInv, TypeOK, Sound, Recorded, RecordedFor, RunTimeOnDiskFirst, PastTimes,
        Pending, PendingFor, Control, Held, OwnSlotFound, FileHoldsOwner
  <1>18. CASE \E i \in Instances : GateAnswers(i)
    BY <1>18, TableAssumption, Times0
    DEF GateAnswers, Return, EndTick, history,
        IInv, TypeOK, Sound, Recorded, RecordedFor, RunTimeOnDiskFirst, PastTimes,
        Pending, PendingFor, Control, Held, OwnSlotFound, FileHoldsOwner
  <1>19. CASE NewBar
    BY <1>19, TableAssumption, Times0
    DEF NewBar, history,
        IInv, TypeOK, Sound, Recorded, RecordedFor, RunTimeOnDiskFirst, PastTimes,
        Pending, PendingFor, Control, Held, OwnSlotFound, FileHoldsOwner
  <1>20. CASE Crash
    BY <1>20, TableAssumption, Times0
    DEF Crash, Fresh, history,
        IInv, TypeOK, Sound, Recorded, RecordedFor, RunTimeOnDiskFirst, PastTimes,
        Pending, PendingFor, Control, Held, OwnSlotFound, FileHoldsOwner
  <1>21. CASE UNCHANGED vars
    BY <1>21, TableAssumption, Times0
    DEF vars, history,
        IInv, TypeOK, Sound, Recorded, RecordedFor, RunTimeOnDiskFirst, PastTimes,
        Pending, PendingFor, Control, Held, OwnSlotFound, FileHoldsOwner
  <1> QED
    BY <1>1, <1>2, <1>3, <1>4, <1>5, <1>6, <1>7, <1>8, <1>9, <1>10, <1>11, <1>12, <1>13, <1>14, <1>15, <1>16, <1>17, <1>18, <1>19, <1>20, <1>21
    DEF Next, Initialise, Backup, Tick

LEMMA NextPending == IInv /\ TypeOK' /\ [Next]_vars => Pending'
  <1> SUFFICES ASSUME IInv, TypeOK', [Next]_vars PROVE Pending'
    OBVIOUS
  <1>1. CASE \E i \in Instances : LoadFile(i)
    <2> PICK i \in Instances : LoadFile(i)
      BY <1>1
    <2> SUFFICES ASSUME NEW m \in Sound', goal'[m] = "grant"
                 PROVE  PendingFor(m)'
      BY DEF Pending
    <2>1. /\ m \in Sound /\ goal[m] = "grant" /\ m # i /\ m \in Instances
          /\ PendingFor(m) /\ UNCHANGED <<bar, lastGrant>>
      BY DEF LoadFile, history, Sound, IInv, TypeOK, Control, Pending
    <2>2. slots[idx[i]].id = i /\ slots'[idx[i]].id = i /\ idx[i] \in Slots
      BY DEF LoadFile, IInv, TypeOK, Held, FileHoldsOwner
    <2>3. \A j \in Slots : j # idx[i] => slots'[j] = slots[j]
      BY <2>2 DEF LoadFile, IInv, TypeOK
    <2> QED
      BY <2>1, <2>2, <2>3 DEF PendingFor
  <1>2. CASE \E i \in Instances : ResetClear(i) \/ LoadMissing(i)
    <2> PICK i \in Instances : pc[i] \in {"load", "clear"} /\ Release(i)
      BY <1>2 DEF ResetClear, LoadMissing
    <2> SUFFICES ASSUME NEW m \in Sound', goal'[m] = "grant"
                 PROVE  PendingFor(m)'
      BY DEF Pending
    <2>1. /\ goal[m] = "grant" /\ m # i /\ m \in Instances
          /\ UNCHANGED bar /\ lastGrant'[m] = lastGrant[m]
      BY DEF Release, Sound, IInv, TypeOK, Control
    <2>2. m \in Sound /\ PendingFor(m)
      BY <2>1 DEF Release, Sound, IInv, Pending
    <2>3. slots[idx[i]].id = i /\ slots'[idx[i]].id = Free /\ idx[i] \in Slots
      BY DEF Release, IInv, TypeOK, Held
    <2>4. \A j \in Slots : j # idx[i] => slots'[j] = slots[j]
      BY <2>3 DEF Release, IInv, TypeOK
    <2> QED
      BY <2>1, <2>2, <2>3, <2>4, TableAssumption DEF PendingFor
  <1>3. CASE \E i \in Instances : InitClaim(i)
    <2> PICK i \in Instances, k \in Slots :
             InitClaim(i) /\ FirstFor(i, k) /\ slots' = Claimed(i, k)
      BY <1>3 DEF InitClaim
    <2> SUFFICES ASSUME NEW m \in Sound', goal'[m] = "grant"
                 PROVE  PendingFor(m)'
      BY DEF Pending
    <2>1. m \in Sound /\ m \in Instances \ shadowed /\ goal[m] = "grant"
      BY DEF InitClaim, history, Sound, IInv, TypeOK, Control
    <2>2. PendingFor(m) /\ bar'[m] = bar[m] /\ UNCHANGED lastGrant
      BY <2>1 DEF InitClaim, history, IInv, TypeOK, Control, Pending
    <2> QED
      BY <2>1, <2>2, ClaimKeepsRecords DEF PendingFor
  <1>4. CASE \E i \in Instances : ResetClaim(i)
    <2> PICK i \in Instances, k \in Slots :
             ResetClaim(i) /\ FirstFor(i, k) /\ slots' = Claimed(i, k)
      BY <1>4 DEF ResetClaim
    <2> SUFFICES ASSUME NEW m \in Sound', goal'[m] = "grant"
                 PROVE  PendingFor(m)'
      BY DEF Pending
    <2>1. m \in Sound /\ m \in Instances \ shadowed /\ goal[m] = "grant"
      BY DEF ResetClaim, history, Sound, IInv, TypeOK, Control
    <2>2. PendingFor(m) /\ bar'[m] = bar[m] /\ UNCHANGED lastGrant
      BY <2>1 DEF ResetClaim, history, IInv, TypeOK, Control, Pending
    <2> QED
      BY <2>1, <2>2, ClaimKeepsRecords DEF PendingFor
  <1>5. CASE \E i \in Instances : NestedClaim(i)
    <2> PICK i \in Instances, k \in Slots :
             NestedClaim(i) /\ FirstFor(i, k) /\ slots' = Claimed(i, k)
      BY <1>5 DEF NestedClaim
    <2> SUFFICES ASSUME NEW m \in Sound', goal'[m] = "grant"
                 PROVE  PendingFor(m)'
      BY DEF Pending
    <2>1. m \in Sound /\ m \in Instances \ shadowed /\ goal[m] = "grant"
      BY DEF NestedClaim, history, Sound, IInv, TypeOK, Control
    <2>2. PendingFor(m) /\ bar'[m] = bar[m] /\ UNCHANGED lastGrant
      BY <2>1 DEF NestedClaim, history, IInv, TypeOK, Control, Pending
    <2> QED
      BY <2>1, <2>2, ClaimKeepsRecords DEF PendingFor
  <1>6. CASE \E i \in Instances : TickBegin(i)
    <2> PICK i \in Instances : TickBegin(i)
      BY <1>6
    <2> SUFFICES ASSUME NEW m \in Sound', goal'[m] = "grant"
                 PROVE  PendingFor(m)'
      BY DEF Pending
    <2>1. m \in Sound /\ m \in Instances \ shadowed /\ goal[m] = "grant"
      BY DEF TickBegin, history, Sound, IInv, TypeOK, Control
    <2>2. PendingFor(m) /\ bar'[m] = bar[m] /\ UNCHANGED lastGrant
      BY <2>1 DEF TickBegin, history, IInv, TypeOK, Control, Pending
    <2>3. CASE UNCHANGED slots
      BY <2>2, <2>3 DEF PendingFor
    <2>4. CASE \E k \in Slots : FirstFor(i, k) /\ slots' = Claimed(i, k)
      BY <2>1, <2>2, <2>4, ClaimKeepsRecords DEF PendingFor
    <2> QED
      BY <2>3, <2>4 DEF TickBegin
  <1>7. CASE \E i \in Instances : GateStores(i)
    <2> PICK i \in Instances : GateStores(i)
      BY <1>7
    <2> PICK k \in Slots :
             /\ FirstFor(i, k) /\ slots' = StoreRunTime(i, k)
             /\ slots[k].id = Free \/ slots[k].lastRun # bar[i]
             /\ goal' = [goal EXCEPT ![i] = IF slots[k].id = i THEN "grant" ELSE "deny"]
      BY DEF GateStores
    <2> SUFFICES ASSUME NEW m \in Sound', goal'[m] = "grant"
                 PROVE  PendingFor(m)'
      BY DEF Pending
    <2>1. m \in Sound /\ m \in Instances \ shadowed /\ UNCHANGED <<lastGrant, bar>>
      BY DEF GateStores, history, Sound
    <2>2. slots'[k].id = i /\ slots'[k].lastRun = bar[i]
      BY DEF StoreRunTime, IInv, TypeOK, SlotState
    <2>3. \A j \in Slots : j # k => slots'[j] = slots[j]
      BY DEF StoreRunTime, IInv, TypeOK
    <2>4. CASE m = i
      <3>1. slots[k].id = i
        BY <2>4 DEF IInv, TypeOK
      <3>2. \A j \in Slots : slots'[j].id = i => j = k
        BY <2>1, <2>3, <2>4, <3>1, LookupFindsOwnSlot
      <3>3. bar[i] # slots[k].lastRun /\ slots[k].lastRun <= bar[i]
        BY <3>1, TableAssumption DEF GateStores, IInv, PastTimes
      <3>4. lastGrant[i] # NoTime => slots[k].lastRun >= lastGrant[i]
        BY <2>1, <2>4, <3>1 DEF GateStores, IInv, Recorded, RecordedFor
      <3>5. /\ bar[i] \in Nat \ {0} /\ slots[k].lastRun \in Int /\ lastGrant[i] \in Int
        BY Times0 DEF IInv
      <3>6. bar[i] > lastGrant[i]
        BY <3>3, <3>4, <3>5
      <3> QED
        BY <2>1, <2>2, <2>4, <3>2, <3>6 DEF PendingFor
    <2>5. CASE m # i
      <3>1. slots[k].id # m /\ slots'[k].id # m
        BY <2>1, <2>2, <2>5, TableAssumption DEF FirstFor, Usable, Sound
      <3>2. goal[m] = "grant"
        BY <2>1, <2>5 DEF IInv, TypeOK
      <3>3. PendingFor(m)
        BY <2>1, <3>2 DEF IInv, Pending
      <3> QED
        BY <2>1, <2>3, <3>1, <3>3 DEF PendingFor
    <2> QED
      BY <2>4, <2>5
  <1>8. CASE \E i \in Instances : InitTableFull(i)
    BY <1>8, TableAssumption, Times0
    DEF InitTableFull, TableFull, Usable, history,
        IInv, TypeOK, Sound, Recorded, RecordedFor, RunTimeOnDiskFirst, PastTimes,
        Pending, PendingFor, Control, Held, OwnSlotFound, FileHoldsOwner
  <1>9. CASE \E i \in Instances : Erase(i)
    BY <1>9, TableAssumption, Times0
    DEF Erase, Fresh, history,
        IInv, TypeOK, Sound, Recorded, RecordedFor, RunTimeOnDiskFirst, PastTimes,
        Pending, PendingFor, Control, Held, OwnSlotFound, FileHoldsOwner
  <1>10. CASE \E i \in Instances : ResetTableFull(i)
    BY <1>10, TableAssumption, Times0
    DEF ResetTableFull, TableFull, Usable, history,
        IInv, TypeOK, Sound, Recorded, RecordedFor, RunTimeOnDiskFirst, PastTimes,
        Pending, PendingFor, Control, Held, OwnSlotFound, FileHoldsOwner
  <1>11. CASE \E i \in Instances : BackupOpen(i)
    BY <1>11, TableAssumption, Times0
    DEF BackupOpen, history,
        IInv, TypeOK, Sound, Recorded, RecordedFor, RunTimeOnDiskFirst, PastTimes,
        Pending, PendingFor, Control, Held, OwnSlotFound, FileHoldsOwner
  <1>12. CASE \E i \in Instances : BackupOpenFails(i)
    BY <1>12, TableAssumption, Times0
    DEF BackupOpenFails, Return, EndTick, history,
        IInv, TypeOK, Sound, Recorded, RecordedFor, RunTimeOnDiskFirst, PastTimes,
        Pending, PendingFor, Control, Held, OwnSlotFound, FileHoldsOwner
  <1>13. CASE \E i \in Instances : BackupWrite(i)
    BY <1>13, TableAssumption, Times0
    DEF BackupWrite, Return, EndTick, Record, history,
        IInv, TypeOK, Sound, Recorded, RecordedFor, RunTimeOnDiskFirst, PastTimes,
        Pending, PendingFor, Control, Held, OwnSlotFound, FileHoldsOwner
  <1>14. CASE \E i \in Instances : NotTrading(i) \/ Ungated(i)
    BY <1>14, TableAssumption, Times0
    DEF NotTrading, Ungated, EndTick, history,
        IInv, TypeOK, Sound, Recorded, RecordedFor, RunTimeOnDiskFirst, PastTimes,
        Pending, PendingFor, Control, Held, OwnSlotFound, FileHoldsOwner
  <1>15. CASE \E i \in Instances : GateRefuses(i) \/ StrategyReturns(i) \/ Deinit(i)
    BY <1>15, TableAssumption, Times0
    DEF GateRefuses, StrategyReturns, Deinit, EndTick, history,
        IInv, TypeOK, Sound, Recorded, RecordedFor, RunTimeOnDiskFirst, PastTimes,
        Pending, PendingFor, Control, Held, OwnSlotFound, FileHoldsOwner
  <1>16. CASE \E i \in Instances : GateAnswers(i)
    BY <1>16, TableAssumption, Times0
    DEF GateAnswers, Return, EndTick, history,
        IInv, TypeOK, Sound, Recorded, RecordedFor, RunTimeOnDiskFirst, PastTimes,
        Pending, PendingFor, Control, Held, OwnSlotFound, FileHoldsOwner
  <1>17. CASE \E i \in Instances : SetLastOrderUpdateTime(i)
    BY <1>17, TableAssumption, Times0
    DEF SetLastOrderUpdateTime, FirstFor, Usable, history,
        IInv, TypeOK, Sound, Recorded, RecordedFor, RunTimeOnDiskFirst, PastTimes,
        Pending, PendingFor, Control, Held, OwnSlotFound, FileHoldsOwner
  <1>18. CASE NewBar
    BY <1>18, TableAssumption, Times0
    DEF NewBar, history,
        IInv, TypeOK, Sound, Recorded, RecordedFor, RunTimeOnDiskFirst, PastTimes,
        Pending, PendingFor, Control, Held, OwnSlotFound, FileHoldsOwner
  <1>19. CASE Crash
    BY <1>19, TableAssumption, Times0
    DEF Crash, Fresh, history,
        IInv, TypeOK, Sound, Recorded, RecordedFor, RunTimeOnDiskFirst, PastTimes,
        Pending, PendingFor, Control, Held, OwnSlotFound, FileHoldsOwner
  <1>20. CASE UNCHANGED vars
    BY <1>20, TableAssumption, Times0
    DEF vars, history,
        IInv, TypeOK, Sound, Recorded, RecordedFor, RunTimeOnDiskFirst, PastTimes,
        Pending, PendingFor, Control, Held, OwnSlotFound, FileHoldsOwner
  <1> QED
    BY <1>1, <1>2, <1>3, <1>4, <1>5, <1>6, <1>7, <1>8, <1>9, <1>10, <1>11, <1>12, <1>13, <1>14, <1>15, <1>16, <1>17, <1>18, <1>19, <1>20
    DEF Next, Initialise, Backup, Tick

LEMMA NextAtMostOncePerBar == IInv /\ TypeOK' /\ [Next]_vars => AtMostOncePerBar'
  <1> SUFFICES ASSUME IInv, TypeOK', [Next]_vars PROVE AtMostOncePerBar'
    OBVIOUS
  <1> USE TableAssumption, Times0 DEF IInv, TypeOK, Sound, AtMostOncePerBar, Pending, PendingFor, Control, Held
  <1>1. CASE \E i \in Instances : InitClaim(i)
    BY <1>1 DEF InitClaim, Claimed, FirstFor, Usable, Fresh, history
  <1>2. CASE \E i \in Instances : InitTableFull(i)
    BY <1>2 DEF InitTableFull, TableFull, Usable, history
  <1>3. CASE \E i \in Instances : LoadMissing(i)
    BY <1>3 DEF LoadMissing, Release, history
  <1>4. CASE \E i \in Instances : LoadFile(i)
    BY <1>4 DEF LoadFile, history
  <1>5. CASE \E i \in Instances : ResetClear(i)
    BY <1>5 DEF ResetClear, Release, history
  <1>6. CASE \E i \in Instances : Erase(i)
    BY <1>6 DEF Erase, Fresh, history
  <1>7. CASE \E i \in Instances : ResetClaim(i)
    BY <1>7 DEF ResetClaim, Claimed, FirstFor, Usable, Fresh, history
  <1>8. CASE \E i \in Instances : ResetTableFull(i)
    BY <1>8 DEF ResetTableFull, TableFull, Usable, history
  <1>9. CASE \E i \in Instances : NestedClaim(i)
    BY <1>9 DEF NestedClaim, Claimed, FirstFor, Usable, Fresh, history
  <1>10. CASE \E i \in Instances : BackupOpen(i)
    BY <1>10 DEF BackupOpen, history
  <1>11. CASE \E i \in Instances : BackupOpenFails(i)
    BY <1>11 DEF BackupOpenFails, Return, EndTick, history
  <1>12. CASE \E i \in Instances : BackupWrite(i)
    BY <1>12 DEF BackupWrite, Return, EndTick, Record, history
  <1>13. CASE \E i \in Instances : TickBegin(i)
    BY <1>13 DEF TickBegin, Claimed, FirstFor, Usable, Fresh, history
  <1>14. CASE \E i \in Instances : NotTrading(i) \/ Ungated(i) \/ GateRefuses(i) \/ StrategyReturns(i) \/ Deinit(i)
    BY <1>14 DEF NotTrading, Ungated, GateRefuses, StrategyReturns, Deinit, EndTick, history
  <1>15. CASE \E i \in Instances : GateStores(i)
    BY <1>15 DEF GateStores, StoreRunTime, FirstFor, Usable, history
  <1>16. CASE \E i \in Instances : GateAnswers(i)
    BY <1>16 DEF GateAnswers, Return, EndTick, history
  <1>17. CASE \E i \in Instances : SetLastOrderUpdateTime(i)
    BY <1>17 DEF SetLastOrderUpdateTime, FirstFor, Usable, history
  <1>18. CASE NewBar
    BY <1>18 DEF NewBar, history
  <1>19. CASE Crash
    BY <1>19 DEF Crash, Fresh, history
  <1>20. CASE UNCHANGED vars
    BY <1>20 DEF vars, history
  <1> QED
    BY <1>1, <1>2, <1>3, <1>4, <1>5, <1>6, <1>7, <1>8, <1>9, <1>10, <1>11, <1>12, <1>13, <1>14, <1>15, <1>16, <1>17, <1>18, <1>19, <1>20
    DEF Next, Initialise, Backup, Tick

-----------------------------------------------------------------------------

LEMMA InitIInv == Init => IInv
  <1> SUFFICES ASSUME Init PROVE IInv
    OBVIOUS
  <1>1. TypeOK
    BY InitTypeOK
  <1>2. Control /\ Held /\ Recorded /\ Pending
    BY TableAssumption
    DEF Init, Control, Held, Recorded, Pending, Sound
  <1>3. FileHoldsOwner /\ OwnSlotFound /\ RunTimeOnDiskFirst /\ AtMostOncePerBar
    BY TableAssumption
    DEF Init, FileHoldsOwner, OwnSlotFound, RunTimeOnDiskFirst, AtMostOncePerBar, NoFile, Fresh
  <1>4. PastTimes
    BY DEF Init, PastTimes, NoFile, Fresh
  <1> QED
    BY <1>1, <1>2, <1>3, <1>4 DEF IInv

LEMMA NextIInv == IInv /\ [Next]_vars => IInv'
  <1> SUFFICES ASSUME IInv, [Next]_vars PROVE IInv'
    OBVIOUS
  <1>1. TypeOK'
    BY NextTypeOK DEF IInv
  <1> QED
    BY <1>1, NextControl, NextFileHoldsOwner, NextHeld, NextOwnSlotFound, NextPastTimes,
       NextRunTimeOnDiskFirst, NextRecorded, NextPending, NextAtMostOncePerBar
    DEF IInv

\* The inductive invariant holds in every state, whatever the sizes.
THEOREM Invariance == Spec => []IInv
  BY InitIInv, NextIInv, PTL DEF Spec

(***************************************************************************)
(* hasInstanceRunOnCurrentBar lets no instance run twice on a bar, for any *)
(* number of instances, slots, bars and crashes, unless its slot came to   *)
(* lie behind a hole or its stored run time was lost.                      *)
(***************************************************************************)
THEOREM RunsAtMostOncePerBar == Spec => []AtMostOncePerBar
  <1>1. IInv => AtMostOncePerBar
    BY DEF IInv
  <1> QED
    BY <1>1, Invariance, PTL

(***************************************************************************)
(* The state file records a run before the strategy starts it.             *)
(***************************************************************************)
THEOREM RunTimeIsOnDiskFirst == Spec => []RunTimeOnDiskFirst
  <1>1. IInv => RunTimeOnDiskFirst
    BY DEF IInv
  <1> QED
    BY <1>1, Invariance, PTL

(***************************************************************************)
(* The lookup of getInstanceState finds the slot of an instance no hole    *)
(* has shadowed.                                                           *)
(***************************************************************************)
THEOREM LookupIsSound == Spec => []OwnSlotFound
  <1>1. IInv => OwnSlotFound
    BY DEF IInv
  <1> QED
    BY <1>1, Invariance, PTL

(***************************************************************************)
(* A state file only ever holds the record of the instance it is named     *)
(* after, although backupInstanceState reads the slot outside the lock.    *)
(***************************************************************************)
THEOREM FilesAreOwn == Spec => []FileHoldsOwner
  <1>1. IInv => FileHoldsOwner
    BY DEF IInv
  <1> QED
    BY <1>1, Invariance, PTL

(***************************************************************************)
(* What one step does to the slot of an instance whose thread did not take *)
(* it.  Slots are only claimed when unused, and a thread that stores into  *)
(* one after leaving the critical section still owns it (Held).            *)
(***************************************************************************)
SlotKept(i) ==
    \A k \in Slots : slots[k].id = i => slots'[k].id = i /\ slots'[k].lastRun = slots[k].lastRun

LEMMA ClaimKeepsSlots ==
  ASSUME TypeOK, NEW j \in Instances, NEW n \in Slots, FirstFor(j, n), slots' = Claimed(j, n)
  PROVE  \A i \in Instances : SlotKept(i)
  BY ClaimedTimes, TableAssumption DEF SlotKept

LEMMA ReleaseKeepsSlots ==
  ASSUME IInv, NEW j \in Instances, pc[j] \in {"load", "clear"}, Release(j),
         NEW i \in Instances, pc'[i] = pc[i]
  PROVE  SlotKept(i)
  <1>1. i # j /\ slots[idx[j]].id = j /\ idx[j] \in Slots
    BY DEF Release, IInv, Held, TypeOK
  <1>2. \A k \in Slots : k # idx[j] => slots'[k] = slots[k]
    BY <1>1 DEF Release, IInv, TypeOK
  <1> QED
    BY <1>1, <1>2 DEF SlotKept

LEMMA StepKeepsSlots ==
  ASSUME IInv, [Next]_vars, crashes' = crashes, NEW i \in Instances \ lost', pc'[i] = pc[i]
  PROVE  SlotKept(i)
  <1>1. CASE UNCHANGED slots
    BY <1>1 DEF SlotKept
  <1>2. CASE \E j \in Instances : InitClaim(j) \/ ResetClaim(j) \/ NestedClaim(j) \/ TickBegin(j)
    BY <1>1, <1>2, ClaimKeepsSlots DEF InitClaim, ResetClaim, NestedClaim, TickBegin, IInv
  <1>3. CASE \E j \in Instances : LoadMissing(j) \/ ResetClear(j)
    BY <1>3, ReleaseKeepsSlots DEF LoadMissing, ResetClear
  <1>4. CASE \E j \in Instances : LoadFile(j)
    <2> PICK j \in Instances : LoadFile(j)
      BY <1>4
    <2>1. i # j /\ slots[idx[j]].id = j /\ idx[j] \in Slots
      BY DEF LoadFile, IInv, Held, TypeOK
    <2>2. \A k \in Slots : k # idx[j] => slots'[k] = slots[k]
      BY <2>1 DEF LoadFile, IInv, TypeOK
    <2> QED
      BY <2>1, <2>2 DEF SlotKept
  <1>5. CASE \E j \in Instances : Erase(j)
    <2> PICK j \in Instances : Erase(j)
      BY <1>5
    <2>1. idx[j] \in Slots /\ slots[idx[j]] \in SlotState
      BY DEF IInv, TypeOK
    <2>2. \A k \in Slots : k # idx[j] => slots'[k] = slots[k]
      BY DEF Erase, IInv, TypeOK
    <2>3. slots'[idx[j]].id = slots[idx[j]].id /\ slots'[idx[j]].lastRun = NoTime
      BY <2>1 DEF Erase, IInv, TypeOK, Fresh
    <2>4. slots[idx[j]].id = i => slots[idx[j]].lastRun = NoTime
      BY TableAssumption DEF Erase
    <2> QED
      BY <2>2, <2>3, <2>4 DEF SlotKept
  <1>6. CASE \E j \in Instances : GateStores(j)
    <2> PICK j \in Instances : GateStores(j)
      BY <1>6
    <2>1. i # j
      BY DEF GateStores, IInv, TypeOK
    <2>2. PICK n \in Slots : FirstFor(j, n) /\ slots' = StoreRunTime(j, n)
      BY DEF GateStores
    <2>3. slots[n].id # i /\ \A k \in Slots : k # n => slots'[k] = slots[k]
      BY <2>1, <2>2, TableAssumption DEF FirstFor, Usable, StoreRunTime, IInv, TypeOK
    <2> QED
      BY <2>3 DEF SlotKept
  <1>7. CASE \E j \in Instances : SetLastOrderUpdateTime(j)
    <2> PICK j \in Instances : SetLastOrderUpdateTime(j)
      BY <1>7
    <2>1. PICK n \in Slots : /\ FirstFor(j, n)
                             /\ slots' = [slots EXCEPT ![n].id = j, ![n].lastUpdate = bar[j]]
      BY DEF SetLastOrderUpdateTime
    <2>2. /\ slots[n].id = i => i = j
          /\ \A k \in Slots : k # n => slots'[k] = slots[k]
          /\ slots'[n].id = j /\ slots'[n].lastRun = slots[n].lastRun
      BY <2>1, TableAssumption DEF FirstFor, Usable, IInv, TypeOK, SlotState
    <2> QED
      BY <2>2 DEF SlotKept
  <1>8. CASE Crash
    BY <1>8, TableAssumption DEF Crash, IInv, TypeOK
  <1>9. CASE \E j \in Instances :
                \/ InitTableFull(j) \/ ResetTableFull(j) \/ BackupOpen(j) \/ BackupOpenFails(j)
                \/ BackupWrite(j) \/ NotTrading(j) \/ Ungated(j) \/ GateRefuses(j) \/ GateAnswers(j)
                \/ StrategyReturns(j) \/ Deinit(j)
    BY <1>9, <1>1
    DEF InitTableFull, ResetTableFull, BackupOpen, BackupOpenFails, BackupWrite, NotTrading,
        Ungated, GateRefuses, GateAnswers, StrategyReturns, Deinit
  <1>10. CASE NewBar \/ UNCHANGED vars
    BY <1>10, <1>1 DEF NewBar, vars
  <1> QED
    BY <1>2, <1>3, <1>4, <1>5, <1>6, <1>7, <1>8, <1>9, <1>10 DEF Next, Initialise, Backup, Tick

(***************************************************************************)
(* No thread takes the slot of another instance, or changes its run time,  *)
(* unless the instance is recorded as lost (InstanceStates.c:50).          *)
(***************************************************************************)
THEOREM SlotsAreLeftAlone == Spec => OthersLeaveSlotAlone
  <1>1. IInv /\ [Next]_vars =>
          [crashes' = crashes =>
             \A i \in Instances \ lost' : pc'[i] = pc[i] =>
                \A k \in Slots : slots[k].id = i =>
                   /\ slots'[k].id = i
                   /\ slots'[k].lastRun = slots[k].lastRun]_vars
    BY StepKeepsSlots DEF SlotKept
  <1> QED
    BY <1>1, Invariance, PTL DEF Spec, OthersLeaveSlotAlone

=============================================================================
