------------------------------ MODULE Framework ------------------------------
(***************************************************************************)
(* How the threads that use the library get its shared tables: the         *)
(* once-only initialisation (initFramework in AsirikuyFrameworkAPI.c), and *)
(* the table in which an instance claims, uses and gives back the row with *)
(* its rates buffers (ContiguousRatesCircBuf.c).                           *)
(*                                                                         *)
(* One thread per instance: a chart of the trading terminal, which retries *)
(* the initialisation on every tick, or a back-test, which tries a few     *)
(* times and then goes on.  Sections under the critical section make no    *)
(* call that waits, so each is one step; every other access to the flags   *)
(* and to the table is a step of its own.                                  *)
(***************************************************************************)
EXTENDS Integers, FiniteSets

CONSTANTS
    Instances,     \* instance IDs, one thread each
    Testers,       \* those that are back-tests
    Free,          \* the instanceId of an unused row (-1)
    Static,        \* the instanceId in memory nobody has initialised (0)
    MaxInstances,  \* rows of the table
    MaxBuffers,    \* buffers of a row (MAX_RATES_BUFFERS): how often all rows are reset
    MaxTries,      \* how often a back-test asks for the framework (3 in tester.c)
    MaxFailures    \* bound: how often the initialisation fails

ASSUME FrameworkAssumption ==
    /\ Testers \subseteq Instances
    /\ Free \notin Instances /\ Static \notin Instances /\ Free # Static
    /\ MaxInstances \in Nat \ {0}
    /\ MaxBuffers \in Nat \ {0}
    /\ MaxTries \in Nat \ {0}
    /\ MaxFailures \in Nat

VARIABLES
    initialized,   \* the two static flags of initFramework
    initializing,
    rows,          \* gRatesBuffers: whose row it is, and whose arrays it points to
    pc,            \* where a thread is
    job,           \* what it clears rows for
    row,           \* its loop index or its row
    buffer,        \* the inner loop index of resetAllRatesBuffers
    tries,         \* how often a back-test has asked before
    failures,      \* how often the initialisation has failed
    outside,       \* history: back-tests that went on without the framework
    exposed        \* history: threads that claimed a row that was still being cleared

flags == <<initialized, initializing>>
vars == <<flags, rows, pc, job, row, buffer, tries, failures, outside, exposed>>

Rows == 1..MaxInstances
Buffers == 1..MaxBuffers
None == Free
RowState == [id : Instances \cup {Free, Static}, arrays : Instances \cup {None}]

Init ==
    /\ initialized = FALSE /\ initializing = FALSE
    /\ rows = [r \in Rows |-> [id |-> Static, arrays |-> None]]
    /\ pc = [t \in Instances |-> "out"]
    /\ job = [t \in Instances |-> "none"]
    /\ row = [t \in Instances |-> 1] /\ buffer = [t \in Instances |-> 1]
    /\ tries = [t \in Instances |-> 0]
    /\ failures = 0
    /\ outside = {} /\ exposed = {}

Go(t, label) == pc' = [pc EXCEPT ![t] = label]

\* resetAllRatesBuffers, and resetInstanceBuffer in initInstance and deinitInstance.
Reset(t, purpose) ==
    /\ Go(t, "reset")
    /\ job' = [job EXCEPT ![t] = purpose]

-----------------------------------------------------------------------------
(* initFramework *)

\* The first test of initialized, outside the critical section.
Enter(t) ==
    /\ pc[t] = "out"
    /\ Go(t, IF initialized THEN "passed" ELSE "turn")
    /\ UNCHANGED <<flags, rows, job, row, buffer, tries, failures, outside, exposed>>

TakeTurn_Unguarded(t) ==
    /\ pc[t] = "turn"
    /\ initializing' = TRUE /\ Go(t, "turned")
    /\ UNCHANGED <<initialized, rows, job, row, buffer, tries, failures, outside, exposed>>

\* In the critical section: WAIT_FOR_INIT, or it is this thread's turn.
TakeTurn(t) ==
    /\ pc[t] = "turn"
    /\ IF initializing
       THEN Go(t, "wait") /\ UNCHANGED initializing
       ELSE initializing' = TRUE /\ Go(t, "turned")
    /\ UNCHANGED <<initialized, rows, job, row, buffer, tries, failures, outside, exposed>>

CheckAgain_Passed(t) ==
    /\ pc[t] \in {"passed", "turned"}
    /\ IF pc[t] = "passed"
       THEN initializing' = FALSE /\ Reset(t, "init")
       ELSE Go(t, "body") /\ UNCHANGED <<initializing, job>>
    /\ UNCHANGED <<initialized, rows, row, buffer, tries, failures, outside, exposed>>

\* The second test of initialized.
CheckAgain(t) ==
    /\ pc[t] \in {"passed", "turned"}
    /\ IF initialized
       THEN initializing' = FALSE /\ Reset(t, "init")
       ELSE Go(t, "body") /\ UNCHANGED <<initializing, job>>
    /\ UNCHANGED <<initialized, rows, row, buffer, tries, failures, outside, exposed>>

Fail_KeepingTurn(t) ==
    /\ pc[t] = "body"
    /\ failures < MaxFailures
    /\ failures' = failures + 1
    /\ Go(t, "failed")
    /\ UNCHANGED <<flags, rows, job, row, buffer, tries, outside, exposed>>

\* No or a bad configuration, time zone file or TA-Lib.
Fail(t) ==
    /\ pc[t] = "body"
    /\ failures < MaxFailures
    /\ failures' = failures + 1
    /\ initializing' = FALSE
    /\ Go(t, "failed")
    /\ UNCHANGED <<initialized, rows, job, row, buffer, tries, outside, exposed>>

\* resetAllRatesBuffers begins with the first buffer of the first row.
ResetAllRatesBuffers(t) ==
    /\ pc[t] = "body"
    /\ row' = [row EXCEPT ![t] = 1] /\ buffer' = [buffer EXCEPT ![t] = 1]
    /\ Reset(t, "all")
    /\ UNCHANGED <<flags, rows, tries, failures, outside, exposed>>

\* The other tables follow, then the flags are set one after the other.
Publish(t) ==
    /\ pc[t] = "publish"
    /\ initialized' = TRUE
    /\ Go(t, "unmark")
    /\ UNCHANGED <<initializing, rows, job, row, buffer, tries, failures, outside, exposed>>

Unmark(t) ==
    /\ pc[t] = "unmark"
    /\ initializing' = FALSE
    /\ Reset(t, "init")
    /\ UNCHANGED <<initialized, rows, row, buffer, tries, failures, outside, exposed>>

\* A terminal calls again on its next tick; a back-test only a few times, and only
\* while another thread is initialising.
MayRetry(t) == t \notin Testers \/ (pc[t] = "wait" /\ tries[t] + 1 < MaxTries)

Retry(t) ==
    /\ pc[t] \in {"wait", "failed"}
    /\ MayRetry(t)
    /\ tries' = [tries EXCEPT ![t] = IF t \in Testers THEN @ + 1 ELSE 0]
    /\ Go(t, "out")
    /\ UNCHANGED <<flags, rows, job, row, buffer, failures, outside, exposed>>

GoOnOutside_Charts(t) ==
    /\ pc[t] \in {"wait", "failed"}
    /\ outside' = outside \cup {t}
    /\ tries' = [tries EXCEPT ![t] = 0]
    /\ Go(t, "in")
    /\ UNCHANGED <<flags, rows, job, row, buffer, failures, exposed>>

\* runPortfolioTest logs the error and goes on.
GoOnOutside(t) ==
    /\ pc[t] \in {"wait", "failed"}
    /\ ~MayRetry(t)
    /\ outside' = outside \cup {t}
    /\ tries' = [tries EXCEPT ![t] = 0]
    /\ Go(t, "in")
    /\ UNCHANGED <<flags, rows, job, row, buffer, failures, exposed>>

-----------------------------------------------------------------------------
(* Clearing rows: resetAllRatesBuffers goes through all, resetInstanceBuffer *)
(* through those of the instance.  No lock is held.                          *)

Clearing == {"null", "again"}

\* The thread has begun, and not finished, to clear its row.
Busy(t) == pc[t] \in Clearing \/ (job[t] = "all" /\ buffer[t] > 1)

BeingCleared == {row[t] : t \in {u \in Instances : Busy(u)}}

UnclaimRow_AnyOwner(t) ==
    /\ pc[t] = "reset"
    /\ \E r \in Rows :
          /\ r = row[t] \/ rows[r].id = t
          /\ row' = [row EXCEPT ![t] = r]
          /\ rows' = [rows EXCEPT ![r].id = Free]
    /\ Go(t, "null")
    /\ UNCHANGED <<flags, job, buffer, tries, failures, outside, exposed>>

\* initRatesBuffer: the row is marked unused first ...
UnclaimRow(t) ==
    /\ pc[t] = "reset"
    /\ \E r \in Rows :
          /\ IF job[t] = "all" THEN r = row[t] ELSE rows[r].id = t
          /\ row' = [row EXCEPT ![t] = r]
          /\ rows' = [rows EXCEPT ![r].id = Free]
    /\ Go(t, "null")
    /\ UNCHANGED <<flags, job, buffer, tries, failures, outside, exposed>>

\* ... then its pointers are set to NULL ...
NullArrays(t) ==
    /\ pc[t] = "null"
    /\ rows' = [rows EXCEPT ![row[t]].arrays = None]
    /\ Go(t, "again")
    /\ UNCHANGED <<flags, job, row, buffer, tries, failures, outside, exposed>>

\* The two loops of resetAllRatesBuffers: every row once for each of its buffers.
NextBuffer(t) ==
    IF buffer[t] < MaxBuffers
    THEN /\ buffer' = [buffer EXCEPT ![t] = @ + 1]
         /\ Go(t, "reset") /\ UNCHANGED <<job, row>>
    ELSE /\ buffer' = [buffer EXCEPT ![t] = 1]
         /\ row' = [row EXCEPT ![t] = IF @ < MaxInstances THEN @ + 1 ELSE 1]
         /\ IF row[t] < MaxInstances
            THEN Go(t, "reset") /\ UNCHANGED job
            ELSE Go(t, "publish") /\ job' = [job EXCEPT ![t] = "none"]

\* ... and the caller marks it unused again.
MarkUnused(t) ==
    /\ pc[t] = "again"
    /\ rows' = [rows EXCEPT ![row[t]].id = Free]
    /\ IF job[t] = "all"
       THEN NextBuffer(t)
       ELSE Go(t, "reset") /\ UNCHANGED <<job, row, buffer>>
    /\ UNCHANGED <<flags, tries, failures, outside, exposed>>

\* The loop over the rows has ended.
ResetInstanceBufferReturns(t) ==
    /\ pc[t] = "reset" /\ job[t] # "all"
    /\ \A r \in Rows : rows[r].id # t
    /\ Go(t, IF job[t] = "init" THEN "in" ELSE "out")
    /\ job' = [job EXCEPT ![t] = "none"]
    /\ row' = [row EXCEPT ![t] = 1]
    /\ UNCHANGED <<flags, rows, buffer, tries, failures, outside, exposed>>

-----------------------------------------------------------------------------
(* Ticks *)

OwnRow_Never(t, r) == FALSE
OwnRow(t, r) == rows[r].id = t

\* allocateRates: the row the instance has ...
FindRow(t) ==
    /\ pc[t] = "in"
    /\ \E r \in Rows : OwnRow(t, r) /\ row' = [row EXCEPT ![t] = r]
    /\ Go(t, "use")
    /\ UNCHANGED <<flags, rows, job, buffer, tries, failures, outside, exposed>>

FirstFree(r) == rows[r].id = Free /\ \A q \in Rows : q < r => rows[q].id # Free

\* ... or, in the critical section, the first unused one, with arrays of its own.  Without
\* one the tick fails (TOO_MANY_INSTANCES) and changes nothing.
ClaimRow(t) ==
    /\ pc[t] = "in"
    /\ \A r \in Rows : ~OwnRow(t, r)
    /\ \E r \in Rows :
          /\ FirstFree(r)
          /\ rows' = [rows EXCEPT ![r] = [id |-> t, arrays |-> t]]
          /\ row' = [row EXCEPT ![t] = r]
          /\ exposed' = IF r \in BeingCleared THEN exposed \cup {t} ELSE exposed \ {t}
    /\ Go(t, "use")
    /\ UNCHANGED <<flags, job, buffer, tries, failures, outside>>

\* The strategy has read the bars of its row.
TickReturns(t) ==
    /\ pc[t] = "use"
    /\ Go(t, "in")
    /\ UNCHANGED <<flags, rows, job, row, buffer, tries, failures, outside, exposed>>

\* deinit() of the chart calls deinitInstance, initialised or not.
Deinit(t) ==
    /\ t \notin Testers
    /\ pc[t] \in {"in", "wait", "failed"}
    /\ Reset(t, "deinit")
    /\ UNCHANGED <<flags, rows, row, buffer, tries, failures, outside, exposed>>

\* A back-test ends without deinitInstance; the next one begins with initInstanceC.
TestEnds(t) ==
    /\ t \in Testers
    /\ pc[t] = "in"
    /\ Go(t, "out")
    /\ outside' = outside \ {t}
    /\ UNCHANGED <<flags, rows, job, row, buffer, tries, failures, exposed>>

-----------------------------------------------------------------------------

InitFramework(t) ==
    \/ Enter(t) \/ TakeTurn(t) \/ CheckAgain(t) \/ Fail(t) \/ ResetAllRatesBuffers(t)
    \/ Publish(t) \/ Unmark(t)

ClearRows(t) ==
    \/ UnclaimRow(t) \/ NullArrays(t) \/ MarkUnused(t) \/ ResetInstanceBufferReturns(t)

Tick(t) == FindRow(t) \/ ClaimRow(t) \/ TickReturns(t)

Next ==
    \E t \in Instances :
        \/ InitFramework(t) \/ Retry(t) \/ GoOnOutside(t)
        \/ ClearRows(t) \/ Tick(t) \/ Deinit(t) \/ TestEnds(t)

Spec == Init /\ [][Next]_vars

\* A call goes on; a chart that was told to wait gets its next tick.
Fairness == \A t \in Instances : WF_vars(InitFramework(t) \/ ClearRows(t)) /\ WF_vars(Retry(t))

FairSpec == Spec /\ Fairness

-----------------------------------------------------------------------------

Labels == {"out", "turn", "passed", "turned", "body", "reset", "null", "again", "publish",
           "unmark", "wait", "failed", "in", "use"}

TypeOK ==
    /\ initialized \in BOOLEAN /\ initializing \in BOOLEAN
    /\ rows \in [Rows -> RowState]
    /\ pc \in [Instances -> Labels]
    /\ job \in [Instances -> {"none", "all", "init", "deinit"}]
    /\ row \in [Instances -> Rows] /\ buffer \in [Instances -> Buffers]
    /\ tries \in [Instances -> 0..(MaxTries - 1)]
    /\ failures \in 0..MaxFailures
    /\ outside \subseteq Testers
    /\ exposed \subseteq Instances

\* The thread runs the part of initFramework that fills the tables.
InBody(t) == pc[t] \in {"body", "publish"} \/ job[t] = "all"

\* It has been told that the framework is initialised.
Admitted(t) == t \notin outside /\ (pc[t] \in {"in", "use"} \/ job[t] = "init")

(***************************************************************************)
(* Only one thread at a time initialises the framework, although the flag  *)
(* that keeps the others out is written without the critical section.      *)
(***************************************************************************)
OneInitialiser == \A t, u \in Instances : InBody(t) /\ InBody(u) => t = u

(***************************************************************************)
(* No thread is told SUCCESS before the tables are filled, and they are    *)
(* never filled again under one that was: a thread that read the flag too  *)
(* early and got its turn too late finds out by the second test.           *)
(***************************************************************************)
TablesReadyFirst ==
    \A t \in Instances : Admitted(t) => initialized /\ \A u \in Instances : ~InBody(u)

(***************************************************************************)
(* While an instance uses its row, the row is its own and points to its    *)
(* own arrays, whatever the others allocate and release without the lock - *)
(* unless it claimed the row while another thread was still clearing it.   *)
(***************************************************************************)
OwnerKeepsRow ==
    \A t \in Instances \ exposed : pc[t] = "use" => rows[row[t]] = [id |-> t, arrays |-> t]

(***************************************************************************)
(* An instance has one row: allocateRates would take the first, and        *)
(* incrementRatesOffset move the buffers of the first.                     *)
(***************************************************************************)
OneRowEach ==
    \A q, r \in Rows : rows[q].id \in Instances /\ rows[q].id = rows[r].id => q = r

(***************************************************************************)
(* Every chart is initialised at last, or removed, however often the       *)
(* initialisation fails and whoever is told to wait.                       *)
(***************************************************************************)
EveryChartGetsIn ==
    \A t \in Instances \ Testers : <>(Admitted(t) \/ job[t] = "deinit")

=============================================================================
