--------------------------- MODULE InstanceStates ---------------------------
(***************************************************************************)
(* The table of per-instance run states that every strategy instance       *)
(* loaded into the framework DLL shares (TradingStrategies/src/            *)
(* InstanceStates.c), the state file each instance keeps, and the gate     *)
(* that decides on every tick whether the strategy may run on this bar.    *)
(*                                                                         *)
(* Each instance is driven by one thread of the trading terminal: it is    *)
(* initialised, receives ticks, is removed and initialised again.  A step  *)
(* of the model is what the code does between two points where another     *)
(* thread, or the death of the process, can be noticed: a section under    *)
(* the critical section is one step up to the file operations in it; an    *)
(* access to the table outside the critical section is a step of its own.  *)
(***************************************************************************)
EXTENDS Integers

CONSTANTS
    Instances,     \* instance IDs, one terminal thread each
    Free,          \* the instanceId of an unused slot (-1 in the code)
    Live,          \* instances trading live; the others are back-tests
    EveryTick,     \* instances whose RUN_EVERY_TICK setting is on
    MaxInstances,  \* slots of the table
    MaxBar,        \* bound: number of bars the market opens
    MaxCrashes,    \* bound: how often the process dies
    Recursive      \* what enterCriticalSection gives: a recursive mutex, or not

ASSUME TableAssumption ==
    /\ Free \notin Instances
    /\ Live \subseteq Instances
    /\ EveryTick \subseteq Instances
    /\ MaxInstances \in Nat \ {0}
    /\ MaxBar \in Nat \ {0}
    /\ MaxCrashes \in Nat
    /\ Recursive \in BOOLEAN

VARIABLES
    slots,      \* gInstanceStates
    files,      \* the <instanceId>.state files
    lock,       \* the thread inside the critical section, or Free
    pc,         \* where the thread of an instance is
    idx,        \* the local instanceIndex of a call in progress
    bar,        \* the bar time the tick in progress was called with
    goal,       \* what a backup in progress is part of
    now,        \* the bar the market is on
    crashes,    \* how often the process has died
    lastGrant,  \* history: last bar the gate let the instance run on
    reran,      \* history: instances let run twice on one bar
    shadowed,   \* history: instances whose slot came to lie behind a hole
    lost        \* history: instances whose stored run time was lost or never loaded

vars == <<slots, files, lock, pc, idx, bar, goal, now, crashes,
          lastGrant, reran, shadowed, lost>>
history == <<lastGrant, reran, shadowed, lost>>

Slots   == 1..MaxInstances
NoTime  == -1
Bars    == 1..MaxBar
Times   == Bars \cup {NoTime}

SlotState == [id : Instances \cup {Free}, lastRun : Times, lastUpdate : Times]
(***************************************************************************)
(* A definition whose name ends in _Something is a broken variant of the   *)
(* one that follows it: the properties are shown to fail when it is used.  *)
(***************************************************************************)

Fresh_Zeroed == [id |-> Free, lastRun |-> 0, lastUpdate |-> 0]
Fresh     == [id |-> Free, lastRun |-> NoTime, lastUpdate |-> NoTime]

\* The locals of a call that has ended are set back to these.
NoIndex == 1
NoBar   == 1

\* A state file does not exist, has been truncated by fopen("wb"), or holds a record.
FileState == [kind : {"none", "empty", "full"}, state : SlotState]
NoFile    == [kind |-> "none", state |-> Fresh]

-----------------------------------------------------------------------------
(***************************************************************************)
(* The lookup every function of InstanceStates.c repeats: the first slot   *)
(* that is unused or carries the ID, whichever comes first.                *)
(***************************************************************************)
Usable(i, k)  == slots[k].id \in {Free, i}
TableFull(i)  == \A k \in Slots : ~Usable(i, k)

FirstFor_Last(i, k) == Usable(i, k) /\ \A j \in Slots : j > k => ~Usable(i, j)
FirstFor(i, k)      == Usable(i, k) /\ \A j \in Slots : j < k => ~Usable(i, j)

\* safe_getInstanceIndex: an unused slot is initialised and claimed.
Claimed(i, k) ==
    IF slots[k].id = i THEN slots ELSE [slots EXCEPT ![k] = [Fresh EXCEPT !.id = i]]

\* The slot k is given back: every instance with a slot above k is now behind a hole.
BehindHole(k) == {j \in Instances : \E m \in Slots : m > k /\ slots[m].id = j}

Init ==
    /\ slots = [k \in Slots |-> Fresh]
    /\ files = [i \in Instances |-> NoFile]
    /\ lock = Free
    /\ pc = [i \in Instances |-> "off"]
    /\ idx = [i \in Instances |-> NoIndex]
    /\ bar = [i \in Instances |-> NoBar]
    /\ goal = [i \in Instances |-> "none"]
    /\ now = 1
    /\ crashes = 0
    /\ lastGrant = [i \in Instances |-> NoTime]
    /\ reran = {}
    /\ shadowed = {}
    /\ lost = {}

-----------------------------------------------------------------------------
(***************************************************************************)
(* initInstance: loadInstanceState for a live instance, resetInstanceState *)
(* for a back-test.  Both begin with safe_getInstanceIndex.                *)
(***************************************************************************)
InitClaim(i) ==
    /\ pc[i] = "off"
    /\ lock = Free
    /\ \E k \in Slots :
          /\ FirstFor(i, k)
          /\ slots' = Claimed(i, k)
          /\ idx' = [idx EXCEPT ![i] = k]
    /\ pc' = [pc EXCEPT ![i] = IF i \in Live THEN "load" ELSE "clear"]
    /\ UNCHANGED <<files, lock, bar, goal, now, crashes, history>>

\* No slot is left: an error is logged, and initInstance goes on.
InitTableFull(i) ==
    /\ pc[i] = "off"
    /\ lock = Free
    /\ TableFull(i)
    /\ pc' = [pc EXCEPT ![i] = "idle"]
    /\ lost' = IF i \in Live /\ files[i].kind = "full" THEN lost \cup {i} ELSE lost
    /\ UNCHANGED <<slots, files, lock, idx, bar, goal, now, crashes,
                   lastGrant, reran, shadowed>>

\* initializeInstanceState outside the critical section stores instanceId first.
\* From here on the slots above are behind a hole, and the stored times are gone.
Release(i) ==
    /\ slots' = [slots EXCEPT ![idx[i]].id = Free]
    /\ pc' = [pc EXCEPT ![i] = "erase"]
    /\ IF i \in Live
       THEN /\ shadowed' = shadowed \cup BehindHole(idx[i])
            /\ lost' = IF slots[idx[i]].lastRun = NoTime THEN lost ELSE lost \cup {i}
            /\ UNCHANGED <<lastGrant, reran>>
       ELSE /\ shadowed' = (shadowed \ {i}) \cup BehindHole(idx[i])
            /\ lost' = lost \ {i}
            /\ lastGrant' = [lastGrant EXCEPT ![i] = NoTime]
            /\ reran' = reran \ {i}
    /\ UNCHANGED <<files, lock, idx, bar, goal, now, crashes>>

\* There is no file: the slot just claimed is marked unused again, outside the lock.
LoadMissing(i) ==
    /\ pc[i] = "load"
    /\ files[i].kind = "none"
    /\ Release(i)

\* fread() into the slot; a truncated file leaves the slot as it was.
LoadFile(i) ==
    /\ pc[i] = "load"
    /\ files[i].kind # "none"
    /\ IF files[i].kind = "full"
       THEN /\ slots' = [slots EXCEPT ![idx[i]] = files[i].state]
            /\ lost' = IF slots[idx[i]].lastRun \in {NoTime, files[i].state.lastRun}
                       THEN lost ELSE lost \cup {i}
       ELSE UNCHANGED <<slots, lost>>
    /\ pc' = [pc EXCEPT ![i] = "idle"]
    /\ idx' = [idx EXCEPT ![i] = NoIndex]
    /\ UNCHANGED <<files, lock, bar, goal, now, crashes, lastGrant, reran, shadowed>>

\* resetInstanceState clears the slot in the same way: a new test starts.
ResetClear(i) ==
    /\ pc[i] = "clear"
    /\ Release(i)

Erase_Whole(i) ==
    /\ pc[i] = "erase"
    /\ slots' = [slots EXCEPT ![idx[i]] = Fresh]
    /\ idx' = [idx EXCEPT ![i] = NoIndex]
    /\ pc' = [pc EXCEPT ![i] = IF i \in Live THEN "idle" ELSE "reclaim"]
    /\ UNCHANGED <<files, lock, bar, goal, now, crashes, history>>

\* The other fields follow, whoever may have claimed the slot in between.
Erase(i) ==
    /\ pc[i] = "erase"
    /\ LET slot == slots[idx[i]]
       IN  /\ slots' = [slots EXCEPT ![idx[i]] = [Fresh EXCEPT !.id = slot.id]]
           /\ lost' = IF slot.id = Free \/ slot.lastRun = NoTime
                      THEN lost ELSE lost \cup {slot.id}
    /\ idx' = [idx EXCEPT ![i] = NoIndex]
    /\ pc' = [pc EXCEPT ![i] = IF i \in Live THEN "idle" ELSE "reclaim"]
    /\ UNCHANGED <<files, lock, bar, goal, now, crashes,
                   lastGrant, reran, shadowed>>

\* ... and its backupInstanceState looks the slot up again.
ResetClaim(i) ==
    /\ pc[i] = "reclaim"
    /\ lock = Free
    /\ \E k \in Slots :
          /\ FirstFor(i, k)
          /\ slots' = Claimed(i, k)
          /\ idx' = [idx EXCEPT ![i] = k]
    /\ goal' = [goal EXCEPT ![i] = "reset"]
    /\ pc' = [pc EXCEPT ![i] = "open"]
    /\ UNCHANGED <<files, lock, bar, now, crashes, history>>

ResetTableFull(i) ==
    /\ pc[i] = "reclaim"
    /\ lock = Free
    /\ TableFull(i)
    /\ pc' = [pc EXCEPT ![i] = "idle"]
    /\ UNCHANGED <<slots, files, lock, idx, bar, goal, now, crashes, history>>

-----------------------------------------------------------------------------
(***************************************************************************)
(* backupInstanceState, from fopen("wb") on.  Called by the gate and by    *)
(* setLastOrderUpdateTime it runs under the lock they hold.                *)
(***************************************************************************)

\* Control goes back to the terminal.
EndTick(i) ==
    /\ pc' = [pc EXCEPT ![i] = "idle"]
    /\ bar' = [bar EXCEPT ![i] = NoBar]

\* What the caller does once backupInstanceState has returned.
Return(i) ==
    /\ lock' = IF goal[i] = "reset" THEN lock ELSE Free
    /\ goal' = [goal EXCEPT ![i] = "none"]
    /\ idx' = [idx EXCEPT ![i] = NoIndex]
    /\ IF goal[i] \in {"grant", "update"}
       THEN pc' = [pc EXCEPT ![i] = "run"] /\ UNCHANGED bar
       ELSE EndTick(i)
    /\ IF goal[i] = "grant"
       THEN /\ lastGrant' = [lastGrant EXCEPT ![i] = bar[i]]
            /\ reran' = IF lastGrant[i] = bar[i] THEN reran \cup {i} ELSE reran
       ELSE UNCHANGED <<lastGrant, reran>>

NestedClaim_NotRecursive(i) ==
    /\ pc[i] = "nested"
    /\ lock = Free
    /\ \E k \in Slots :
          /\ FirstFor(i, k)
          /\ slots' = Claimed(i, k)
          /\ idx' = [idx EXCEPT ![i] = k]
    /\ pc' = [pc EXCEPT ![i] = "open"]
    /\ UNCHANGED <<files, lock, bar, goal, now, crashes, history>>

\* The lookup of a backup made while the caller is inside the critical section.
NestedClaim(i) ==
    /\ pc[i] = "nested"
    /\ Recursive
    /\ \E k \in Slots :
          /\ FirstFor(i, k)
          /\ slots' = Claimed(i, k)
          /\ idx' = [idx EXCEPT ![i] = k]
    /\ pc' = [pc EXCEPT ![i] = "open"]
    /\ UNCHANGED <<files, lock, bar, goal, now, crashes, history>>

BackupOpen_WriteBehind(i) ==
    /\ pc[i] = "open"
    /\ files' = [files EXCEPT ![i] = [kind |-> "empty", state |-> Fresh]]
    /\ Return(i)
    /\ UNCHANGED <<slots, now, crashes, shadowed, lost>>

BackupOpen(i) ==
    /\ pc[i] = "open"
    /\ files' = [files EXCEPT ![i] = [kind |-> "empty", state |-> Fresh]]
    /\ pc' = [pc EXCEPT ![i] = "write"]
    /\ UNCHANGED <<slots, lock, idx, bar, goal, now, crashes, history>>

\* The file cannot be opened: logged, and the caller is not told.
BackupOpenFails(i) ==
    /\ pc[i] = "open"
    /\ lost' = IF goal[i] = "reset" THEN lost ELSE lost \cup {i}
    /\ Return(i)
    /\ UNCHANGED <<slots, files, now, crashes, shadowed>>

\* The record fwrite() takes from the table.
Record_First(i) == slots[1]
Record(i) == slots[idx[i]]

BackupWrite(i) ==
    /\ pc[i] = "write"
    /\ files' = [files EXCEPT ![i] = [kind |-> "full", state |-> Record(i)]]
    /\ Return(i)
    /\ UNCHANGED <<slots, now, crashes, shadowed, lost>>

-----------------------------------------------------------------------------
(***************************************************************************)
(* One tick of an instance.                                                *)
(***************************************************************************)

\* convertMqlParameters / convertCParameters call getInstanceState first.
TickBegin(i) ==
    /\ pc[i] = "idle"
    /\ lock = Free
    /\ \/ TableFull(i) /\ UNCHANGED slots
       \/ \E k \in Slots : FirstFor(i, k) /\ slots' = Claimed(i, k)
    /\ bar' = [bar EXCEPT ![i] = now]
    /\ pc' = [pc EXCEPT ![i] = "gate"]
    /\ UNCHANGED <<files, lock, idx, goal, now, crashes, history>>

\* runStrategy returns before it asks: no prices, or not a time to trade at.
NotTrading(i) ==
    /\ pc[i] = "gate"
    /\ EndTick(i)
    /\ UNCHANGED <<slots, files, lock, idx, goal, now, crashes, history>>

\* runStrategy does not ask the gate: every tick runs, or areOrdersCorrect is
\* FALSE (never for a back-test) and the bar is run again to repair the orders.
Ungated(i) ==
    /\ pc[i] = "gate"
    /\ i \in EveryTick \cup Live
    /\ pc' = [pc EXCEPT ![i] = "run"]
    /\ UNCHANGED <<slots, files, lock, idx, bar, goal, now, crashes, history>>

\* hasInstanceRunOnCurrentBar answers TRUE: a full table, or this bar already run.
GateRefuses(i) ==
    /\ pc[i] = "gate"
    /\ i \notin EveryTick
    /\ lock = Free
    /\ \/ TableFull(i)
       \/ \E k \in Slots :
             /\ FirstFor(i, k)
             /\ slots[k].id = i
             /\ slots[k].lastRun = bar[i]
    /\ EndTick(i)
    /\ UNCHANGED <<slots, files, lock, idx, goal, now, crashes, history>>

StoreRunTime_IdOnly(i, k) == [slots EXCEPT ![k].id = i]
StoreRunTime(i, k)        == [slots EXCEPT ![k].id = i, ![k].lastRun = bar[i]]

\* The slot is an unused one (claimed without initialising it, the answer is TRUE),
\* or has another run time (the answer is FALSE).  A live instance writes its file
\* before the answer is returned.
GateStores(i) ==
    /\ pc[i] = "gate"
    /\ i \notin EveryTick
    /\ lock = Free
    /\ \E k \in Slots :
          /\ FirstFor(i, k)
          /\ slots[k].id = Free \/ slots[k].lastRun # bar[i]
          /\ slots' = StoreRunTime(i, k)
          /\ goal' = [goal EXCEPT ![i] = IF slots[k].id = i THEN "grant" ELSE "deny"]
    /\ lock' = i
    /\ pc' = [pc EXCEPT ![i] = IF i \in Live THEN "nested" ELSE "answer"]
    /\ UNCHANGED <<files, idx, bar, now, crashes, history>>

\* A back-test has nothing to write.
GateAnswers(i) ==
    /\ pc[i] = "answer"
    /\ Return(i)
    /\ UNCHANGED <<slots, files, now, crashes, shadowed, lost>>

\* The running strategy opens or updates an order: setLastOrderUpdateTime.
SetLastOrderUpdateTime(i) ==
    /\ pc[i] = "run"
    /\ lock = Free
    /\ \E k \in Slots :
          /\ FirstFor(i, k)
          /\ slots[k].id = Free \/ slots[k].lastUpdate # bar[i]
          /\ slots' = [slots EXCEPT ![k].id = i, ![k].lastUpdate = bar[i]]
    /\ IF i \in Live
       THEN /\ lock' = i
            /\ goal' = [goal EXCEPT ![i] = "update"]
            /\ pc' = [pc EXCEPT ![i] = "nested"]
       ELSE UNCHANGED <<lock, goal, pc>>
    /\ UNCHANGED <<files, idx, bar, now, crashes, history>>

StrategyReturns(i) ==
    /\ pc[i] = "run"
    /\ EndTick(i)
    /\ UNCHANGED <<slots, files, lock, idx, goal, now, crashes, history>>

-----------------------------------------------------------------------------

\* The strategy is removed from its chart; deinitInstance leaves the table alone.
Deinit(i) ==
    /\ pc[i] = "idle"
    /\ pc' = [pc EXCEPT ![i] = "off"]
    /\ UNCHANGED <<slots, files, lock, idx, bar, goal, now, crashes, history>>

NewBar ==
    /\ now < MaxBar
    /\ now' = now + 1
    /\ UNCHANGED <<slots, files, lock, pc, idx, bar, goal, crashes, history>>

\* The process dies and is started again: initializeInstanceStates empties the table,
\* the files stay.  A back-test that was running is gone.
Crash ==
    /\ crashes < MaxCrashes
    /\ crashes' = crashes + 1
    /\ slots' = [k \in Slots |-> Fresh]
    /\ lock' = Free
    /\ pc' = [i \in Instances |-> "off"]
    /\ goal' = [i \in Instances |-> "none"]
    /\ idx' = [i \in Instances |-> NoIndex]
    /\ bar' = [i \in Instances |-> NoBar]
    /\ lastGrant' = [i \in Instances |-> IF i \in Live THEN lastGrant[i] ELSE NoTime]
    /\ reran' = reran \cap Live
    /\ shadowed' = shadowed \cap Live
    /\ lost' = (lost \cap Live) \cup {i \in Live : pc[i] = "write"}
    /\ UNCHANGED <<files, now>>

-----------------------------------------------------------------------------

\* A step of initInstance.
Initialise(i) ==
    \/ InitClaim(i) \/ InitTableFull(i) \/ LoadMissing(i) \/ LoadFile(i)
    \/ ResetClear(i) \/ Erase(i) \/ ResetClaim(i) \/ ResetTableFull(i)

\* A step of backupInstanceState.
Backup(i) ==
    \/ NestedClaim(i) \/ BackupOpen(i) \/ BackupOpenFails(i) \/ BackupWrite(i)

\* A step of a tick, its backups left out.
Tick(i) ==
    \/ NotTrading(i) \/ Ungated(i) \/ GateRefuses(i) \/ GateStores(i) \/ GateAnswers(i)
    \/ SetLastOrderUpdateTime(i) \/ StrategyReturns(i)

Next ==
    \/ \E i \in Instances :
          \/ Initialise(i) \/ Backup(i) \/ TickBegin(i) \/ Tick(i) \/ Deinit(i)
    \/ NewBar
    \/ Crash

Spec == Init /\ [][Next]_vars

(***************************************************************************)
(* A thread that is inside a call goes on with it.  Steps that enter the   *)
(* critical section are enabled only now and then while others use it: the *)
(* operating system is taken not to pass a waiting thread over for ever.   *)
(***************************************************************************)
Fairness ==
    \A i \in Instances :
        /\ WF_vars(LoadMissing(i) \/ LoadFile(i) \/ ResetClear(i) \/ Erase(i))
        /\ WF_vars(Backup(i))
        /\ WF_vars(GateAnswers(i))
        /\ WF_vars(StrategyReturns(i))
        /\ SF_vars(ResetClaim(i) \/ ResetTableFull(i))
        /\ SF_vars(GateRefuses(i) \/ GateStores(i))
        /\ WF_vars(i \in EveryTick /\ Ungated(i))

FairSpec == Spec /\ Fairness

-----------------------------------------------------------------------------

Labels == {"off", "idle", "load", "clear", "erase", "reclaim", "nested",
           "open", "write", "gate", "answer", "run"}
Goals  == {"none", "reset", "grant", "deny", "update"}

TypeOK ==
    /\ slots \in [Slots -> SlotState]
    /\ files \in [Instances -> FileState]
    /\ lock \in Instances \cup {Free}
    /\ pc \in [Instances -> Labels]
    /\ idx \in [Instances -> Slots]
    /\ bar \in [Instances -> Bars]
    /\ goal \in [Instances -> Goals]
    /\ now \in Bars
    /\ crashes \in 0..MaxCrashes
    /\ lastGrant \in [Instances -> Times]
    /\ reran \subseteq Instances
    /\ shadowed \subseteq Instances
    /\ lost \subseteq Instances

(***************************************************************************)
(* hasInstanceRunOnCurrentBar lets an instance run at most once on a bar,  *)
(* over ticks, re-initialisations and restarts of the process, as long as  *)
(* its slot did not come to lie behind a hole and its run time was written.*)
(***************************************************************************)
AtMostOncePerBar == \A i \in Instances \ (shadowed \cup lost) : i \notin reran

(***************************************************************************)
(* Before a live instance is let run, the time of that run is in its state *)
(* file: a process that dies right after the strategy sent its orders      *)
(* remembers that the bar is done (hasInstanceRunOnCurrentBar calls        *)
(* backupInstanceState before it returns FALSE).                           *)
(***************************************************************************)
RunTimeOnDiskFirst ==
    \A i \in Live \ (shadowed \cup lost) :
        (lastGrant[i] # NoTime /\ pc[i] # "write") =>
            /\ files[i].kind = "full"
            /\ files[i].state.lastRun >= lastGrant[i]

(***************************************************************************)
(* The lookup loop stops at the first slot that is unused or has the ID: a *)
(* slot is found again only if no unused slot, and no second slot of the   *)
(* instance, lies before it (safe_getInstanceIndex and its copies).        *)
(***************************************************************************)
OwnSlotFound ==
    \A i \in Instances \ shadowed : \A k \in Slots :
        slots[k].id = i => \A j \in Slots : j < k => slots[j].id \notin {Free, i}

(***************************************************************************)
(* A state file holds the record of the instance it is named after, in     *)
(* spite of backupInstanceState reading a shared slot outside the lock:    *)
(* loadInstanceState copies the whole record, the instanceId included.     *)
(***************************************************************************)
FileHoldsOwner ==
    \A i \in Instances : files[i].kind = "full" => files[i].state.id = i

(***************************************************************************)
(* What other threads do leaves the slot of an instance and its run time   *)
(* alone, unless it is recorded as lost (initializeInstanceState running   *)
(* unlocked while the slot is claimed by another thread).                  *)
(***************************************************************************)
OthersLeaveSlotAlone ==
    [][crashes' = crashes =>
          \A i \in Instances \ lost' : pc'[i] = pc[i] =>
             \A k \in Slots : slots[k].id = i =>
                /\ slots'[k].id = i
                /\ slots'[k].lastRun = slots[k].lastRun]_vars

(***************************************************************************)
(* Every call into the library returns: the critical section is given back *)
(* on every path, and taking it again inside a backup does not wait.       *)
(***************************************************************************)
CallsReturn ==
    \A i \in Instances : []<>(pc[i] \in {"off", "idle"})

=============================================================================
