-------------------------- MODULE Framework_proofs --------------------------
(***************************************************************************)
(* Proofs about Framework, for any number of charts, back-tests and rows:  *)
(* the framework is initialised by one thread at a time and before any     *)
(* other uses it, and an instance keeps the one row it claimed.            *)
(***************************************************************************)
EXTENDS Framework, TLAPS

\* The thread has the turn: it will initialise, unless it finds that that has been done.
HasTurn(t) == InBody(t) \/ pc[t] = "turned"

\* What the two flags mean.
FlagsMean ==
    /\ initialized => \A t \in Instances : ~InBody(t)
    /\ ~initialized =>
          /\ \A t \in Instances : HasTurn(t) => initializing
          /\ \A t, u \in Instances : HasTurn(t) /\ HasTurn(u) => t = u
          /\ \A t \in Instances : pc[t] \notin {"passed", "unmark"} /\ ~Admitted(t)

\* Which places belong to clearing rows, and to threads that were not admitted.
Places ==
    \A t \in Instances :
        /\ pc[t] \in {"reset", "null", "again"} <=> job[t] # "none"
        /\ t \in outside => pc[t] \in {"in", "use"}

\* A row keeps the ID of static memory until the initialisation comes to it.
Untouched ==
    /\ (~initialized /\ \A u \in Instances : job[u] # "all" /\ pc[u] # "publish") =>
          \A r \in Rows : rows[r].id = Static
    /\ \A u \in Instances : job[u] = "all" =>
          \A r \in Rows :
             (r > row[u] \/ (r = row[u] /\ pc[u] = "reset" /\ buffer[u] = 1)) =>
                rows[r].id = Static
    /\ \A u \in Instances : pc[u] \in Clearing => rows[row[u]].id # Static

\* A row that was claimed when nobody was clearing it has the arrays of its owner, and
\* nobody begins to clear it.
Owned ==
    \A t \in Instances \ exposed :
        /\ pc[t] = "use" => rows[row[t]].id = t
        /\ \A r \in Rows : rows[r].id = t =>
              /\ rows[r].arrays = t
              /\ \A u \in Instances : Busy(u) => row[u] # r

IInv == TypeOK /\ FlagsMean /\ Places /\ Untouched /\ Owned /\ OneRowEach

LEMMA InitIInv == Init => IInv
  <1> SUFFICES ASSUME Init PROVE IInv
    OBVIOUS
  <1>1. TypeOK
    <2>1. rows \in [Rows -> RowState]
      BY DEF Init, RowState, None
    <2>2. 1 \in Rows /\ 1 \in Buffers /\ 0 \in 0..(MaxTries - 1) /\ 0 \in 0..MaxFailures
      BY FrameworkAssumption DEF Rows, Buffers
    <2> QED
      BY <2>1, <2>2 DEF Init, TypeOK, Labels
  <1>2. FlagsMean /\ Places
    BY DEF Init, FlagsMean, Places, HasTurn, InBody, Admitted
  <1>3. Untouched
    BY DEF Init, Untouched, Clearing
  <1>4. Owned /\ OneRowEach
    BY FrameworkAssumption DEF Init, Owned, OneRowEach, Busy, Clearing
  <1> QED
    BY <1>1, <1>2, <1>3, <1>4 DEF IInv

\* What marking a row unused, and setting its pointers to NULL, does to the table.
LEMMA RowMarked ==
  ASSUME TypeOK, NEW r \in Rows, rows' = [rows EXCEPT ![r].id = Free]
  PROVE  /\ rows' \in [Rows -> RowState]
         /\ rows'[r].id = Free /\ rows'[r].arrays = rows[r].arrays
         /\ \A q \in Rows : q # r => rows'[q] = rows[q]
  <1>1. rows[r] \in RowState
    BY DEF TypeOK
  <1>2. [rows[r] EXCEPT !.id = Free] \in RowState
    BY <1>1 DEF RowState
  <1> QED
    BY <1>1, <1>2 DEF TypeOK, RowState

LEMMA RowNulled ==
  ASSUME TypeOK, NEW r \in Rows, rows' = [rows EXCEPT ![r].arrays = None]
  PROVE  /\ rows' \in [Rows -> RowState]
         /\ rows'[r].id = rows[r].id
         /\ \A q \in Rows : q # r => rows'[q] = rows[q]
  <1>1. rows[r] \in RowState
    BY DEF TypeOK
  <1>2. [rows[r] EXCEPT !.arrays = None] \in RowState
    BY <1>1 DEF RowState
  <1> QED
    BY <1>1, <1>2 DEF TypeOK, RowState

\* What a step does is one of these.
LEMMA NextCases ==
  ASSUME [Next]_vars
  PROVE  \/ UNCHANGED vars
         \/ \E t \in Instances :
               \/ Enter(t) \/ TakeTurn(t) \/ CheckAgain(t) \/ Fail(t)
               \/ ResetAllRatesBuffers(t) \/ Publish(t) \/ Unmark(t) \/ Retry(t)
               \/ GoOnOutside(t) \/ UnclaimRow(t) \/ NullArrays(t) \/ MarkUnused(t)
               \/ ResetInstanceBufferReturns(t) \/ FindRow(t) \/ ClaimRow(t)
               \/ TickReturns(t) \/ Deinit(t) \/ TestEnds(t)
  BY DEF Next, InitFramework, ClearRows, Tick

LEMMA NextTypeOK == TypeOK /\ [Next]_vars => TypeOK'
  <1> SUFFICES ASSUME TypeOK, [Next]_vars PROVE TypeOK'
    OBVIOUS
  <1> USE FrameworkAssumption DEF TypeOK, Labels, Rows, Buffers, RowState, None, flags, Go, Reset
  <1>1. CASE UNCHANGED vars
    BY <1>1 DEF vars, flags
  <1>2. ASSUME NEW t \in Instances, Enter(t) PROVE TypeOK'
    BY <1>2 DEF Enter
  <1>3. ASSUME NEW t \in Instances, TakeTurn(t) PROVE TypeOK'
    BY <1>3 DEF TakeTurn
  <1>4. ASSUME NEW t \in Instances, CheckAgain(t) PROVE TypeOK'
    BY <1>4 DEF CheckAgain
  <1>5. ASSUME NEW t \in Instances, Fail(t) PROVE TypeOK'
    <2>1. failures' \in 0..MaxFailures
      BY <1>5 DEF Fail
    <2>2. /\ pc' = [pc EXCEPT ![t] = "failed"] /\ initializing' = FALSE
          /\ UNCHANGED <<initialized, rows, job, row, buffer, tries, outside, exposed>>
      BY <1>5 DEF Fail
    <2> QED
      BY <2>1, <2>2
  <1>6. ASSUME NEW t \in Instances, ResetAllRatesBuffers(t) PROVE TypeOK'
    BY <1>6 DEF ResetAllRatesBuffers
  <1>7. ASSUME NEW t \in Instances, Publish(t) \/ Unmark(t) PROVE TypeOK'
    BY <1>7 DEF Publish, Unmark
  <1>8. ASSUME NEW t \in Instances, Retry(t) PROVE TypeOK'
    BY <1>8 DEF Retry, MayRetry
  <1>9. ASSUME NEW t \in Instances, GoOnOutside(t) PROVE TypeOK'
    BY <1>9 DEF GoOnOutside, MayRetry
  <1>10. ASSUME NEW t \in Instances, UnclaimRow(t) PROVE TypeOK'
    <2> PICK r \in Rows : /\ row' = [row EXCEPT ![t] = r]
                          /\ rows' = [rows EXCEPT ![r].id = Free]
      BY <1>10 DEF UnclaimRow
    <2>1. rows' \in [Rows -> RowState]
      BY RowMarked
    <2>2. /\ pc' = [pc EXCEPT ![t] = "null"]
          /\ UNCHANGED <<initialized, initializing, job, buffer, tries, failures, outside, exposed>>
      BY <1>10 DEF UnclaimRow
    <2> QED
      BY <2>1, <2>2
  <1>11. ASSUME NEW t \in Instances, NullArrays(t) PROVE TypeOK'
    BY <1>11, RowNulled DEF NullArrays
  <1>12. ASSUME NEW t \in Instances, MarkUnused(t) PROVE TypeOK'
    <2>1. rows' \in [Rows -> RowState]
      BY <1>12, RowMarked DEF MarkUnused
    <2>2. row' \in [Instances -> Rows] /\ buffer' \in [Instances -> Buffers]
      <3>1. /\ 1 \in Rows /\ (row[t] < MaxInstances => row[t] + 1 \in Rows)
            /\ 1 \in Buffers /\ (buffer[t] < MaxBuffers => buffer[t] + 1 \in Buffers)
        OBVIOUS
      <3>2. CASE job[t] = "all" /\ buffer[t] < MaxBuffers
        BY <1>12, <3>1, <3>2 DEF MarkUnused, NextBuffer
      <3>3. CASE job[t] = "all" /\ ~(buffer[t] < MaxBuffers)
        <4>1. /\ row' = [row EXCEPT ![t] = IF @ < MaxInstances THEN @ + 1 ELSE 1]
              /\ buffer' = [buffer EXCEPT ![t] = 1]
          BY <1>12, <3>3 DEF MarkUnused, NextBuffer
        <4> QED
          BY <3>1, <4>1
      <3>4. CASE job[t] # "all"
        BY <1>12, <3>4 DEF MarkUnused
      <3> QED
        BY <3>2, <3>3, <3>4
    <2>3. /\ pc' \in [Instances -> Labels]
          /\ job' \in [Instances -> {"none", "all", "init", "deinit"}]
      BY <1>12 DEF MarkUnused, NextBuffer
    <2>4. UNCHANGED <<initialized, initializing, tries, failures, outside, exposed>>
      BY <1>12 DEF MarkUnused
    <2> QED
      BY <2>1, <2>2, <2>3, <2>4
  <1>13. ASSUME NEW t \in Instances, ResetInstanceBufferReturns(t) PROVE TypeOK'
    BY <1>13 DEF ResetInstanceBufferReturns
  <1>14. ASSUME NEW t \in Instances, FindRow(t) PROVE TypeOK'
    BY <1>14 DEF FindRow
  <1>15. ASSUME NEW t \in Instances, ClaimRow(t) PROVE TypeOK'
    BY <1>15 DEF ClaimRow
  <1>16. ASSUME NEW t \in Instances, TickReturns(t) PROVE TypeOK'
    BY <1>16 DEF TickReturns
  <1>17. ASSUME NEW t \in Instances, Deinit(t) PROVE TypeOK'
    BY <1>17 DEF Deinit
  <1>18. ASSUME NEW t \in Instances, TestEnds(t) PROVE TypeOK'
    BY <1>18 DEF TestEnds
  <1> QED
    BY NextCases, <1>1, <1>2, <1>3, <1>4, <1>5, <1>6, <1>7, <1>8, <1>9, <1>10, <1>11, <1>12,
       <1>13, <1>14, <1>15, <1>16, <1>17, <1>18

LEMMA NextFlagsMean == IInv /\ [Next]_vars => FlagsMean'
  <1> SUFFICES ASSUME IInv, [Next]_vars PROVE FlagsMean'
    OBVIOUS
  <1> USE DEF IInv, TypeOK, FlagsMean, Places, HasTurn, InBody, Admitted, Go, Reset, flags
  <1>1. CASE UNCHANGED vars
    BY <1>1 DEF vars, flags
  <1>2. ASSUME NEW t \in Instances, Enter(t) PROVE FlagsMean'
    BY <1>2 DEF Enter
  <1>3. ASSUME NEW t \in Instances, TakeTurn(t) PROVE FlagsMean'
    BY <1>3 DEF TakeTurn
  <1>4. ASSUME NEW t \in Instances, CheckAgain(t) PROVE FlagsMean'
    BY <1>4 DEF CheckAgain
  <1>5. ASSUME NEW t \in Instances, Fail(t) PROVE FlagsMean'
    BY <1>5 DEF Fail
  <1>6. ASSUME NEW t \in Instances, ResetAllRatesBuffers(t) PROVE FlagsMean'
    BY <1>6 DEF ResetAllRatesBuffers
  <1>7. ASSUME NEW t \in Instances, Publish(t) PROVE FlagsMean'
    BY <1>7 DEF Publish
  <1>8. ASSUME NEW t \in Instances, Unmark(t) PROVE FlagsMean'
    BY <1>8 DEF Unmark
  <1>9. ASSUME NEW t \in Instances, Retry(t) PROVE FlagsMean'
    BY <1>9 DEF Retry
  <1>10. ASSUME NEW t \in Instances, GoOnOutside(t) PROVE FlagsMean'
    BY <1>10 DEF GoOnOutside
  <1>11. ASSUME NEW t \in Instances, UnclaimRow(t) \/ NullArrays(t) PROVE FlagsMean'
    BY <1>11 DEF UnclaimRow, NullArrays
  <1>12. ASSUME NEW t \in Instances, MarkUnused(t) PROVE FlagsMean'
    BY <1>12 DEF MarkUnused, NextBuffer
  <1>13. ASSUME NEW t \in Instances, ResetInstanceBufferReturns(t) PROVE FlagsMean'
    BY <1>13 DEF ResetInstanceBufferReturns
  <1>14. ASSUME NEW t \in Instances, FindRow(t) \/ ClaimRow(t) \/ TickReturns(t)
         PROVE  FlagsMean'
    BY <1>14 DEF FindRow, ClaimRow, TickReturns
  <1>15. ASSUME NEW t \in Instances, Deinit(t) PROVE FlagsMean'
    BY <1>15 DEF Deinit
  <1>16. ASSUME NEW t \in Instances, TestEnds(t) PROVE FlagsMean'
    BY <1>16 DEF TestEnds
  <1> QED
    BY NextCases, <1>1, <1>2, <1>3, <1>4, <1>5, <1>6, <1>7, <1>8, <1>9, <1>10, <1>11, <1>12,
       <1>13, <1>14, <1>15, <1>16

LEMMA NextPlaces == IInv /\ [Next]_vars => Places'
  <1> SUFFICES ASSUME IInv, [Next]_vars PROVE Places'
    OBVIOUS
  <1> USE FrameworkAssumption DEF IInv, TypeOK, Places, Go, Reset, flags
  <1>1. CASE UNCHANGED vars
    BY <1>1 DEF vars, flags
  <1>2. ASSUME NEW t \in Instances, Enter(t) \/ TakeTurn(t) \/ CheckAgain(t) PROVE Places'
    BY <1>2 DEF Enter, TakeTurn, CheckAgain
  <1>3. ASSUME NEW t \in Instances, Fail(t) \/ ResetAllRatesBuffers(t) PROVE Places'
    BY <1>3 DEF Fail, ResetAllRatesBuffers
  <1>4. ASSUME NEW t \in Instances, Publish(t) \/ Unmark(t) PROVE Places'
    BY <1>4 DEF Publish, Unmark
  <1>5. ASSUME NEW t \in Instances, Retry(t) \/ GoOnOutside(t) PROVE Places'
    BY <1>5 DEF Retry, GoOnOutside
  <1>6. ASSUME NEW t \in Instances, UnclaimRow(t) \/ NullArrays(t) PROVE Places'
    BY <1>6 DEF UnclaimRow, NullArrays
  <1>7. ASSUME NEW t \in Instances, MarkUnused(t) PROVE Places'
    BY <1>7 DEF MarkUnused, NextBuffer
  <1>8. ASSUME NEW t \in Instances, ResetInstanceBufferReturns(t) PROVE Places'
    BY <1>8 DEF ResetInstanceBufferReturns
  <1>9. ASSUME NEW t \in Instances, FindRow(t) \/ ClaimRow(t) \/ TickReturns(t) PROVE Places'
    BY <1>9 DEF FindRow, ClaimRow, TickReturns
  <1>10. ASSUME NEW t \in Instances, Deinit(t) \/ TestEnds(t) PROVE Places'
    BY <1>10 DEF Deinit, TestEnds
  <1> QED
    BY NextCases, <1>1, <1>2, <1>3, <1>4, <1>5, <1>6, <1>7, <1>8, <1>9, <1>10

\* Most steps leave the table of the rows, and who clears which, alone.
Quiet(t) ==
    \/ Enter(t) \/ TakeTurn(t) \/ CheckAgain(t) \/ Fail(t) \/ Unmark(t) \/ Retry(t)
    \/ GoOnOutside(t) \/ TickReturns(t) \/ Deinit(t) \/ TestEnds(t)

LEMMA QuietLeavesAlone ==
  ASSUME TypeOK, NEW t \in Instances, Quiet(t)
  PROVE  /\ UNCHANGED <<rows, row, buffer, exposed>>
         /\ pc[t] \notin Clearing /\ pc'[t] \notin Clearing /\ pc'[t] \notin {"publish", "use"}
         /\ \A u \in Instances : u # t => pc'[u] = pc[u] /\ job'[u] = job[u]
         /\ job'[t] = job[t] \/ (job'[t] # "all" /\ job'[t] # "none")
  BY DEF Quiet, TypeOK, Clearing, Go, Reset, flags, Enter, TakeTurn, CheckAgain, Fail, Unmark,
     Retry, GoOnOutside, TickReturns, Deinit, TestEnds

\* The row and the table after the steps of clearing a row.
LEMMA UnclaimRowStep ==
  ASSUME TypeOK, NEW t \in Instances, UnclaimRow(t)
  PROVE  /\ UNCHANGED <<initialized, job, buffer, exposed>> /\ pc[t] = "reset" /\ pc'[t] = "null"
         /\ row'[t] \in Rows /\ rows'[row'[t]].id = Free
         /\ IF job[t] = "all" THEN row'[t] = row[t] ELSE rows[row'[t]].id = t
         /\ \A q \in Rows : q # row'[t] => rows'[q] = rows[q]
         /\ \A u \in Instances : u # t => pc'[u] = pc[u] /\ row'[u] = row[u]
  <1>1. PICK r \in Rows : /\ IF job[t] = "all" THEN r = row[t] ELSE rows[r].id = t
                          /\ row' = [row EXCEPT ![t] = r]
                          /\ rows' = [rows EXCEPT ![r].id = Free]
    BY DEF UnclaimRow
  <1>2. row'[t] = r /\ \A u \in Instances : u # t => row'[u] = row[u]
    BY <1>1 DEF TypeOK
  <1>3. rows'[r].id = Free /\ \A q \in Rows : q # r => rows'[q] = rows[q]
    BY <1>1, RowMarked
  <1>4. pc[t] = "reset" /\ pc'[t] = "null" /\ \A u \in Instances : u # t => pc'[u] = pc[u]
    BY DEF UnclaimRow, Go, TypeOK
  <1> QED
    BY <1>1, <1>2, <1>3, <1>4 DEF UnclaimRow, flags

LEMMA NullArraysStep ==
  ASSUME TypeOK, NEW t \in Instances, NullArrays(t)
  PROVE  /\ UNCHANGED <<initialized, job, row, buffer, exposed>>
         /\ pc[t] = "null" /\ pc'[t] = "again"
         /\ \A q \in Rows : rows'[q].id = rows[q].id /\ (q # row[t] => rows'[q] = rows[q])
         /\ \A u \in Instances : u # t => pc'[u] = pc[u]
  <1>1. /\ rows'[row[t]].id = rows[row[t]].id
        /\ \A q \in Rows : q # row[t] => rows'[q] = rows[q]
    BY RowNulled DEF NullArrays, TypeOK
  <1>2. pc[t] = "null" /\ pc'[t] = "again" /\ \A u \in Instances : u # t => pc'[u] = pc[u]
    BY DEF NullArrays, Go, TypeOK
  <1> QED
    BY <1>1, <1>2 DEF NullArrays, flags

LEMMA MarkUnusedStep ==
  ASSUME TypeOK, NEW t \in Instances, MarkUnused(t)
  PROVE  /\ UNCHANGED <<initialized, exposed>>
         /\ pc[t] = "again" /\ pc'[t] \in {"reset", "publish"}
         /\ Busy(t)' => row'[t] = row[t]
         /\ rows'[row[t]].id = Free
         /\ \A q \in Rows : q # row[t] => rows'[q] = rows[q]
         /\ \A u \in Instances : u # t =>
               /\ pc'[u] = pc[u] /\ job'[u] = job[u]
               /\ row'[u] = row[u] /\ buffer'[u] = buffer[u]
  <1>1. rows'[row[t]].id = Free /\ \A q \in Rows : q # row[t] => rows'[q] = rows[q]
    BY RowMarked DEF MarkUnused, TypeOK
  <1>2. /\ pc[t] = "again" /\ pc'[t] \in {"reset", "publish"}
        /\ \A u \in Instances : u # t =>
              /\ pc'[u] = pc[u] /\ job'[u] = job[u]
              /\ row'[u] = row[u] /\ buffer'[u] = buffer[u]
    BY DEF MarkUnused, NextBuffer, Go, TypeOK
  <1>3. Busy(t)' => row'[t] = row[t]
    <2>1. CASE job[t] = "all" /\ ~(buffer[t] < MaxBuffers)
      BY <1>2, <2>1 DEF MarkUnused, NextBuffer, TypeOK, Busy, Clearing
    <2>2. CASE ~(job[t] = "all" /\ ~(buffer[t] < MaxBuffers))
      BY <2>2 DEF MarkUnused, NextBuffer
    <2> QED
      BY <2>1, <2>2
  <1> QED
    BY <1>1, <1>2, <1>3 DEF MarkUnused, NextBuffer, flags

\* A claim takes a row that is not in use, for a thread that has none.
LEMMA ClaimRowStep ==
  ASSUME TypeOK, NEW t \in Instances, ClaimRow(t)
  PROVE  /\ UNCHANGED <<initialized, job, buffer>> /\ pc[t] = "in" /\ pc'[t] = "use"
         /\ row'[t] \in Rows /\ rows[row'[t]].id = Free
         /\ rows'[row'[t]].id = t /\ rows'[row'[t]].arrays = t
         /\ \A q \in Rows : rows[q].id # t /\ (q # row'[t] => rows'[q] = rows[q])
         /\ \A u \in Instances : u # t => pc'[u] = pc[u] /\ row'[u] = row[u]
         /\ exposed' = IF row'[t] \in BeingCleared THEN exposed \cup {t} ELSE exposed \ {t}
  <1>1. PICK r \in Rows :
           /\ FirstFree(r)
           /\ rows' = [rows EXCEPT ![r] = [id |-> t, arrays |-> t]]
           /\ row' = [row EXCEPT ![t] = r]
           /\ exposed' = IF r \in BeingCleared THEN exposed \cup {t} ELSE exposed \ {t}
    BY DEF ClaimRow
  <1>2. /\ row'[t] = r /\ \A u \in Instances : u # t => row'[u] = row[u]
        /\ rows'[r] = [id |-> t, arrays |-> t]
        /\ \A q \in Rows : q # r => rows'[q] = rows[q]
    BY <1>1 DEF TypeOK
  <1>3. pc[t] = "in" /\ pc'[t] = "use" /\ \A u \in Instances : u # t => pc'[u] = pc[u]
    BY DEF ClaimRow, Go, TypeOK
  <1>4. \A q \in Rows : rows[q].id # t
    BY DEF ClaimRow, OwnRow
  <1>5. UNCHANGED <<initialized, job, buffer>>
    BY DEF ClaimRow, flags
  <1> QED
    BY <1>1, <1>2, <1>3, <1>4, <1>5 DEF FirstFree

LEMMA NextUntouched == IInv /\ [Next]_vars => Untouched'
  <1> SUFFICES ASSUME IInv, [Next]_vars PROVE Untouched'
    OBVIOUS
  <1> USE DEF IInv, Untouched
  <1>1. CASE UNCHANGED vars
    BY <1>1 DEF vars, flags, Clearing
  <1>2. ASSUME NEW t \in Instances, Quiet(t) PROVE Untouched'
    <2>1. initialized' = initialized
      BY <1>2 DEF Quiet, flags, Enter, TakeTurn, CheckAgain, Fail, Unmark, Retry, GoOnOutside,
         TickReturns, Deinit, TestEnds
    <2>2. job[t] # "all" /\ pc[t] # "publish"
      BY <1>2 DEF Places, Clearing, Quiet, Enter, TakeTurn, CheckAgain, Fail, Unmark, Retry,
         GoOnOutside, TickReturns, Deinit, TestEnds
    <2> QED
      BY <1>2, <2>1, <2>2, QuietLeavesAlone DEF Clearing
  <1>3. ASSUME NEW t \in Instances, ResetAllRatesBuffers(t) PROVE Untouched'
    <2>1. /\ pc[t] = "body" /\ UNCHANGED <<initialized, rows>>
          /\ row' = [row EXCEPT ![t] = 1] /\ pc' = [pc EXCEPT ![t] = "reset"]
          /\ job' = [job EXCEPT ![t] = "all"]
      BY <1>3 DEF ResetAllRatesBuffers, Reset, Go, flags
    <2>2. ~initialized /\ \A u \in Instances : InBody(u) => u = t
      BY <2>1 DEF FlagsMean, HasTurn, InBody
    <2>3. job[t] = "none"
      BY <2>1 DEF Places
    <2>4. \A r \in Rows : rows[r].id = Static
      BY <2>1, <2>2, <2>3 DEF InBody
    <2> QED
      BY <2>1, <2>2, <2>4 DEF TypeOK, InBody, Clearing
  <1>4. ASSUME NEW t \in Instances, Publish(t) PROVE Untouched'
    BY <1>4 DEF Publish, Go, TypeOK, Clearing, FlagsMean, HasTurn, InBody, Places
  <1>5. ASSUME NEW t \in Instances, UnclaimRow(t) PROVE Untouched'
    <2>1. /\ UNCHANGED <<initialized, job, buffer>> /\ pc[t] = "reset" /\ pc'[t] = "null"
          /\ row'[t] \in Rows /\ rows'[row'[t]].id = Free
          /\ IF job[t] = "all" THEN row'[t] = row[t] ELSE rows[row'[t]].id = t
          /\ \A q \in Rows : q # row'[t] => rows'[q] = rows[q]
          /\ \A u \in Instances : u # t => pc'[u] = pc[u] /\ row'[u] = row[u]
      BY <1>5, UnclaimRowStep
    <2>2. \A u \in Instances : row[u] \in Rows
      BY DEF TypeOK
    <2>3. \A u \in Instances : job[t] = "all" /\ job[u] = "all" => u = t
      BY DEF FlagsMean, HasTurn, InBody
    <2>4. \A r \in Rows : rows'[r].id # Static <=> (rows[r].id # Static \/ r = row'[t])
      BY <2>1, FrameworkAssumption
    <2>5. (~initialized' /\ \A u \in Instances : job'[u] # "all" /\ pc'[u] # "publish") =>
              \A r \in Rows : rows'[r].id = Static
      BY <2>1, FrameworkAssumption
    <2>6. ASSUME NEW u \in Instances, job'[u] = "all", NEW r \in Rows,
                 r > row'[u] \/ (r = row'[u] /\ pc'[u] = "reset" /\ buffer'[u] = 1)
          PROVE  rows'[r].id = Static
      <3>1. rows[r].id = Static
        BY <2>1, <2>2, <2>6
      <3>2. r # row'[t]
        BY <2>1, <2>2, <2>3, <2>6, <3>1, FrameworkAssumption DEF Rows
      <3> QED
        BY <2>1, <3>1, <3>2
    <2>7. ASSUME NEW u \in Instances, pc'[u] \in Clearing PROVE rows'[row'[u]].id # Static
      BY <2>1, <2>2, <2>4, <2>7 DEF Clearing
    <2> QED
      BY <2>5, <2>6, <2>7
  <1>6. ASSUME NEW t \in Instances, NullArrays(t) PROVE Untouched'
    <2>1. /\ UNCHANGED <<initialized, job, buffer>> /\ pc[t] = "null" /\ pc'[t] = "again"
          /\ \A q \in Rows : rows'[q].id = rows[q].id
          /\ \A u \in Instances : row'[u] = row[u] /\ row[u] \in Rows
          /\ \A u \in Instances : u # t => pc'[u] = pc[u]
      BY <1>6, NullArraysStep DEF TypeOK
    <2> QED
      BY <2>1 DEF Clearing
  <1>7. ASSUME NEW t \in Instances, MarkUnused(t) PROVE Untouched'
    <2>1. /\ initialized' = initialized /\ pc[t] = "again" /\ pc'[t] \notin Clearing
          /\ rows'[row[t]].id = Free
          /\ \A q \in Rows : q # row[t] => rows'[q] = rows[q]
          /\ \A u \in Instances : u # t =>
                /\ pc'[u] = pc[u] /\ job'[u] = job[u]
                /\ row'[u] = row[u] /\ buffer'[u] = buffer[u]
      BY <1>7, MarkUnusedStep DEF Clearing
    <2>2. /\ job'[t] = "all" => job[t] = "all" /\ \/ row'[t] = row[t] + 1
                                                  \/ row'[t] = row[t] /\ buffer'[t] # 1
          /\ job[t] = "all" => job'[t] = "all" \/ pc'[t] = "publish"
      <3>1. CASE job[t] = "all" /\ buffer[t] < MaxBuffers
        <4>1. job' = job /\ row' = row /\ buffer'[t] = buffer[t] + 1
          BY <1>7, <3>1 DEF MarkUnused, NextBuffer, TypeOK
        <4>2. buffer[t] \in Nat \ {0}
          BY DEF TypeOK, Buffers
        <4> QED
          BY <3>1, <4>1, <4>2
      <3>2. CASE job[t] = "all" /\ ~(buffer[t] < MaxBuffers)
        BY <1>7, <3>2 DEF MarkUnused, NextBuffer, TypeOK, Go
      <3>3. CASE job[t] # "all"
        BY <1>7, <3>3 DEF MarkUnused
      <3> QED
        BY <3>1, <3>2, <3>3
    <2>3. \A u \in Instances : row[u] \in Rows
      BY DEF TypeOK
    <2>4. \A u \in Instances : job[t] = "all" /\ job[u] = "all" => u = t
      BY DEF FlagsMean, HasTurn, InBody
    <2>5. rows[row[t]].id # Static
      BY <2>1 DEF Clearing
    <2>6. \A r \in Rows : rows[r].id = Static => rows'[r].id = Static
      BY <2>1, <2>5
    <2>7. \A r \in Rows : rows[r].id # Static => rows'[r].id # Static
      BY <2>1, FrameworkAssumption
    <2>8. (~initialized' /\ \A u \in Instances : job'[u] # "all" /\ pc'[u] # "publish") =>
              \A r \in Rows : rows'[r].id = Static
      BY <2>1, <2>2, <2>6
    <2>9. ASSUME NEW u \in Instances, job'[u] = "all", NEW r \in Rows,
                 r > row'[u] \/ (r = row'[u] /\ pc'[u] = "reset" /\ buffer'[u] = 1)
          PROVE  rows'[r].id = Static
      <3>1. CASE u # t
        BY <2>1, <2>6, <2>9, <3>1
      <3>2. CASE u = t
        <4>1. job[t] = "all" /\ (row'[t] = row[t] + 1 \/ (row'[t] = row[t] /\ r > row'[t]))
          BY <2>2, <2>9, <3>2
        <4>2. r > row[t]
          BY <2>3, <2>9, <3>2, <4>1 DEF Rows
        <4> QED
          BY <2>6, <4>1, <4>2
      <3> QED
        BY <3>1, <3>2
    <2>10. ASSUME NEW u \in Instances, pc'[u] \in Clearing PROVE rows'[row'[u]].id # Static
      BY <2>1, <2>3, <2>7, <2>10
    <2> QED
      BY <2>8, <2>9, <2>10
  <1>8. ASSUME NEW t \in Instances, ResetInstanceBufferReturns(t) PROVE Untouched'
    BY <1>8 DEF ResetInstanceBufferReturns, TypeOK, Clearing, Go, flags
  <1>9. ASSUME NEW t \in Instances, FindRow(t) PROVE Untouched'
    BY <1>9 DEF FindRow, TypeOK, Clearing, Go, flags, Places
  <1>10. ASSUME NEW t \in Instances, ClaimRow(t) PROVE Untouched'
    <2>1. /\ UNCHANGED <<initialized, job, buffer>> /\ pc[t] = "in" /\ pc'[t] = "use"
          /\ row'[t] \in Rows /\ rows[row'[t]].id = Free /\ rows'[row'[t]].id = t
          /\ \A q \in Rows : q # row'[t] => rows'[q] = rows[q]
          /\ \A u \in Instances : u # t => pc'[u] = pc[u] /\ row'[u] = row[u]
      BY <1>10, ClaimRowStep
    <2>2. \A r \in Rows : rows'[r].id = Static <=> rows[r].id = Static
      BY <2>1, FrameworkAssumption
    <2>3. \A u \in Instances : row[u] \in Rows
      BY DEF TypeOK
    <2>4. job[t] = "none"
      BY <2>1 DEF Places
    <2> QED
      BY <2>1, <2>2, <2>3, <2>4 DEF Clearing
  <1> QED
    BY NextCases, <1>1, <1>2, <1>3, <1>4, <1>5, <1>6, <1>7, <1>8, <1>9, <1>10 DEF Quiet

LEMMA NextOneRowEach == IInv /\ [Next]_vars => OneRowEach'
  <1> SUFFICES ASSUME IInv, [Next]_vars PROVE OneRowEach'
    OBVIOUS
  <1> USE DEF IInv, OneRowEach
  <1>1. CASE rows' = rows
    BY <1>1
  <1>2. ASSUME NEW t \in Instances, UnclaimRow(t) \/ NullArrays(t) \/ MarkUnused(t)
        PROVE  OneRowEach'
    <2>1. \A q \in Rows : rows'[q].id \in Instances => rows'[q].id = rows[q].id
      BY <1>2, UnclaimRowStep, NullArraysStep, MarkUnusedStep, FrameworkAssumption DEF TypeOK
    <2> QED
      BY <2>1
  <1>3. ASSUME NEW t \in Instances, ClaimRow(t) PROVE OneRowEach'
    BY <1>3, ClaimRowStep
  <1>4. \/ rows' = rows
        \/ \E t \in Instances :
              UnclaimRow(t) \/ NullArrays(t) \/ MarkUnused(t) \/ ClaimRow(t)
    BY NextCases DEF vars, flags, Enter, TakeTurn, CheckAgain, Fail, ResetAllRatesBuffers,
       Publish, Unmark, Retry, GoOnOutside, ResetInstanceBufferReturns, FindRow, TickReturns,
       Deinit, TestEnds
  <1> QED
    BY <1>1, <1>2, <1>3, <1>4

LEMMA NextOwned == IInv /\ [Next]_vars => Owned'
  <1> SUFFICES ASSUME IInv, [Next]_vars PROVE Owned'
    OBVIOUS
  <1> USE DEF IInv, Owned
  <1>1. CASE UNCHANGED vars
    BY <1>1 DEF vars, flags, Busy, Clearing
  <1>2. ASSUME NEW t \in Instances, Quiet(t) PROVE Owned'
    <2>1. \A u \in Instances : /\ Busy(u)' => Busy(u)
                               /\ pc'[u] = "use" => pc[u] = "use"
      BY <1>2, QuietLeavesAlone DEF Busy, Clearing
    <2> QED
      BY <1>2, <2>1, QuietLeavesAlone
  <1>3. ASSUME NEW t \in Instances, ResetAllRatesBuffers(t) \/ Publish(t) PROVE Owned'
    BY <1>3 DEF ResetAllRatesBuffers, Publish, Reset, Go, flags, TypeOK, Busy, Clearing
  <1>4. ASSUME NEW t \in Instances, UnclaimRow(t) PROVE Owned'
    <2>1. \A s \in Instances \ exposed : s # t => rows[row'[t]].id # s
      <3>1. CASE job[t] = "all" /\ buffer[t] = 1
        BY <1>4, <3>1, UnclaimRowStep, FrameworkAssumption DEF Untouched
      <3>2. CASE job[t] = "all" /\ buffer[t] # 1
        <4>1. Busy(t)
          BY <3>2 DEF Busy, TypeOK, Buffers
        <4> QED
          BY <1>4, <3>2, <4>1, UnclaimRowStep
      <3>3. CASE job[t] # "all"
        BY <1>4, <3>3, UnclaimRowStep
      <3> QED
        BY <3>1, <3>2, <3>3
    <2>2. \A u \in Instances : row[u] \in Rows
      BY DEF TypeOK
    <2>3. \A q \in Rows : rows'[q].id \in Instances => q # row'[t] /\ rows'[q] = rows[q]
      BY <1>4, UnclaimRowStep, FrameworkAssumption
    <2>4. \A u \in Instances :
             u # t => row'[u] = row[u] /\ pc'[u] = pc[u] /\ (Busy(u)' => Busy(u))
      BY <1>4, UnclaimRowStep DEF Busy
    <2>5. pc'[t] # "use" /\ exposed' = exposed
      BY <1>4, UnclaimRowStep
    <2>6. ASSUME NEW s \in Instances \ exposed, pc'[s] = "use" PROVE rows'[row'[s]].id = s
      <3>1. s # t /\ rows[row[s]].id = s /\ row'[s] = row[s] /\ row[s] # row'[t]
        BY <2>1, <2>4, <2>5, <2>6
      <3> QED
        BY <1>4, <2>2, <3>1, UnclaimRowStep
    <2>7. ASSUME NEW s \in Instances \ exposed, NEW q \in Rows, rows'[q].id = s
          PROVE  rows'[q].arrays = s /\ \A u \in Instances : Busy(u)' => row'[u] # q
      BY <2>3, <2>4, <2>7
    <2> QED
      BY <2>5, <2>6, <2>7
  <1>5. ASSUME NEW t \in Instances, NullArrays(t) PROVE Owned'
    BY <1>5, NullArraysStep DEF TypeOK, Busy, Clearing
  <1>6. ASSUME NEW t \in Instances, MarkUnused(t) PROVE Owned'
    <2>1. \A u \in Instances : /\ Busy(u)' => Busy(u) /\ row'[u] = row[u]
                               /\ pc'[u] = "use" => pc[u] = "use" /\ row'[u] = row[u]
      BY <1>6, MarkUnusedStep DEF Busy, Clearing
    <2>2. Busy(t) /\ \A u \in Instances : row[u] \in Rows
      BY <1>6, MarkUnusedStep DEF Busy, Clearing, TypeOK
    <2>3. \A q \in Rows : rows'[q].id \in Instances => rows'[q] = rows[q]
      BY <1>6, MarkUnusedStep, FrameworkAssumption
    <2>4. ASSUME NEW s \in Instances \ exposed, pc'[s] = "use" PROVE rows'[row'[s]].id = s
      <3>1. rows[row[s]].id = s /\ row'[s] = row[s] /\ row[s] # row[t]
        BY <2>1, <2>2, <2>4
      <3> QED
        BY <1>6, <2>2, <3>1, MarkUnusedStep
    <2>5. exposed' = exposed
      BY <1>6, MarkUnusedStep
    <2> QED
      BY <2>1, <2>3, <2>4, <2>5
  <1>7. ASSUME NEW t \in Instances, ResetInstanceBufferReturns(t) PROVE Owned'
    BY <1>7 DEF ResetInstanceBufferReturns, TypeOK, Busy, Clearing, Go, flags
  <1>8. ASSUME NEW t \in Instances, FindRow(t) PROVE Owned'
    <2>1. PICK r \in Rows : rows[r].id = t /\ row' = [row EXCEPT ![t] = r]
      BY <1>8 DEF FindRow, OwnRow
    <2>2. /\ UNCHANGED <<rows, exposed, job, buffer>> /\ pc[t] = "in"
          /\ pc' = [pc EXCEPT ![t] = "use"]
      BY <1>8 DEF FindRow, Go
    <2>3. ~Busy(t)
      BY <2>2 DEF Busy, Clearing, Places
    <2>4. \A u \in Instances : /\ Busy(u)' => u # t /\ Busy(u)
                               /\ u # t => row'[u] = row[u] /\ pc'[u] = pc[u]
      BY <2>1, <2>2, <2>3 DEF Busy, Clearing, TypeOK
    <2>5. row'[t] = r
      BY <2>1 DEF TypeOK
    <2> QED
      BY <2>1, <2>2, <2>4, <2>5
  <1>9. ASSUME NEW t \in Instances, ClaimRow(t) PROVE Owned'
    <2> DEFINE r == row'[t]
    <2>1. /\ pc'[t] = "use" /\ r \in Rows /\ rows[r].id = Free
          /\ rows'[r].id = t /\ rows'[r].arrays = t
          /\ \A q \in Rows : rows[q].id # t /\ (q # r => rows'[q] = rows[q])
          /\ \A u \in Instances : u # t => row'[u] = row[u] /\ pc'[u] = pc[u]
          /\ exposed' = IF r \in BeingCleared THEN exposed \cup {t} ELSE exposed \ {t}
      BY <1>9, ClaimRowStep
    <2>2. \A u \in Instances : /\ row[u] \in Rows
                               /\ Busy(u)' => u # t /\ Busy(u) /\ row'[u] = row[u]
      BY <1>9, ClaimRowStep DEF TypeOK, Busy, Clearing, Places
    <2>3. ASSUME NEW s \in Instances \ exposed', s # t
          PROVE  /\ s \notin exposed
                 /\ pc'[s] = "use" => rows'[row'[s]].id = s
                 /\ \A q \in Rows : rows'[q].id = s =>
                       q # r /\ rows'[q] = rows[q] /\ rows[q].id = s
      BY <2>1, <2>2, <2>3, FrameworkAssumption
    <2>4. ASSUME NEW s \in Instances \ exposed', s # t, NEW q \in Rows, rows'[q].id = s
          PROVE  /\ rows'[q].arrays = s
                 /\ \A u \in Instances : Busy(u)' => row'[u] # q
      BY <2>2, <2>3, <2>4
    <2>5. ASSUME t \notin exposed'
          PROVE  /\ rows'[row'[t]].id = t
                 /\ \A q \in Rows : rows'[q].id = t =>
                       /\ rows'[q].arrays = t
                       /\ \A u \in Instances : Busy(u)' => row'[u] # q
      <3>1. r \notin BeingCleared
        BY <2>1, <2>5
      <3>2. \A u \in Instances : Busy(u) => row[u] # r
        BY <3>1 DEF BeingCleared
      <3> QED
        BY <2>1, <2>2, <3>2
    <2> QED
      BY <2>3, <2>4, <2>5
  <1> QED
    BY NextCases, <1>1, <1>2, <1>3, <1>4, <1>5, <1>6, <1>7, <1>8, <1>9 DEF Quiet

LEMMA NextIInv == IInv /\ [Next]_vars => IInv'
  BY NextTypeOK, NextFlagsMean, NextPlaces, NextUntouched, NextOwned, NextOneRowEach DEF IInv

\* The invariant holds in every behaviour of the specification.
THEOREM Invariance == Spec => []IInv
  <1>1. Init => IInv
    BY InitIInv
  <1>2. IInv /\ [Next]_vars => IInv'
    BY NextIInv
  <1> QED
    BY <1>1, <1>2, PTL DEF Spec

-----------------------------------------------------------------------------

\* Every variable keeps its type: a row index stays in the table, and a back-test never asks
\* more often than it may (tester.c tries three times).
THEOREM TypeCorrect == Spec => []TypeOK
  <1>1. IInv => TypeOK
    BY DEF IInv
  <1> QED
    BY <1>1, Invariance, PTL

\* One thread at a time fills the tables in initFramework, although initialized is first read,
\* and initializing cleared, without the critical section.
THEOREM OneInitialises == Spec => []OneInitialiser
  <1>1. IInv => OneInitialiser
    BY DEF IInv, FlagsMean, OneInitialiser, HasTurn
  <1> QED
    BY <1>1, Invariance, PTL

\* initFramework answers SUCCESS only after the tables are filled, and no thread fills them
\* again while another uses them.
THEOREM TablesReady == Spec => []TablesReadyFirst
  <1>1. IInv => TablesReadyFirst
    BY DEF IInv, FlagsMean, TablesReadyFirst
  <1> QED
    BY <1>1, Invariance, PTL

\* Whoever resets rows without the lock, in
\* resetInstanceBuffer or resetAllRatesBuffers, leaves a row to the instance that claimed it, unless it was
\* already clearing the row when the instance claimed it.
THEOREM KeepsRow == Spec => []OwnerKeepsRow
  <1>1. IInv => OwnerKeepsRow
    <2>1. ASSUME IInv, NEW t \in Instances \ exposed, pc[t] = "use"
          PROVE  rows[row[t]] = [id |-> t, arrays |-> t]
      <3>1. row[t] \in Rows /\ rows[row[t]] \in RowState
        BY <2>1 DEF IInv, TypeOK
      <3>2. rows[row[t]].id = t /\ rows[row[t]].arrays = t
        BY <2>1, <3>1 DEF IInv, Owned
      <3> QED
        BY <3>1, <3>2 DEF RowState
    <2> QED
      BY <2>1 DEF IInv, OwnerKeepsRow
  <1> QED
    BY <1>1, Invariance, PTL

\* allocateRates gives an instance one row: it takes the row the instance has before it claims one.
THEOREM OneRow == Spec => []OneRowEach
  <1>1. IInv => OneRowEach
    BY DEF IInv
  <1> QED
    BY <1>1, Invariance, PTL

=============================================================================
