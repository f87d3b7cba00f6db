--------------------------- MODULE JobSweepProofs ---------------------------
(***************************************************************************)
(* Proofs about the post-unlock sweep, for every set of jobs, every attempt *)
(* budget and every number of unlocks: type correctness, that a claim is    *)
(* held until its terminal write, and that the outcome a row records is     *)
(* what its run did.                                                        *)
(***************************************************************************)
EXTENDS JobSweep, TLAPS

-----------------------------------------------------------------------------
(* Every statement on a row yields a row. *)

LEMMA ConfigurationTypes ==
    ASSUME NEW r \in JobRecord, NEW en \in BOOLEAN, NEW due \in DueTime
    PROVE  /\ ScheduleRow(r, en, due) \in JobRecord
           /\ ReconfigureRow(r, en, due) \in JobRecord
           /\ DeleteRow(r) \in JobRecord
           /\ CancelRow(r) \in JobRecord
  <1>1. AbsentRow \in JobRecord
    BY DEF AbsentRow, JobRecord, JobState, JobOutcome, Marker, DueTime
  <1>2. NewRow(en, due) \in JobRecord
    BY <1>1 DEF NewRow, JobRecord, JobState
  <1>3. ScheduleRow(r, en, due) \in JobRecord
    BY <1>2 DEF ScheduleRow, JobRecord
  <1>4. ReconfigureRow(r, en, due) \in JobRecord
    BY <1>2 DEF ReconfigureRow, JobRecord
  <1>5. DeleteRow(r) \in JobRecord
    BY <1>1 DEF DeleteRow
  <1>6. CancelRow(r) \in JobRecord
    BY DEF CancelRow, JobRecord, JobState, JobOutcome
  <1> QED BY <1>3, <1>4, <1>5, <1>6

LEMMA SettledTypes ==
    ASSUME NEW r \in JobRecord, NEW once,
           NEW state \in JobState, NEW outcome \in JobOutcome
    PROVE  /\ Settled(r, state, outcome) \in JobRecord
           /\ SucceededRow(r, once) \in JobRecord
  <1>1. Settled(r, state, outcome) \in JobRecord
    BY DEF Settled, JobRecord, Marker
  <1>2. Settled(r, "succeeded", "succeeded") \in JobRecord
    BY DEF Settled, JobRecord, JobState, JobOutcome, Marker
  <1>3. NextDueAfter(once) \in DueTime
    BY DEF NextDueAfter, DueTime
  <1>4. SucceededRow(r, once) \in JobRecord
    BY <1>2, <1>3 DEF SucceededRow, JobRecord
  <1> QED BY <1>1, <1>4

LEMMA RecoveryTypes ==
    ASSUME NEW r \in JobRecord, NEW once
    PROVE  RecoverRow(r, once) \in JobRecord
  <1>1. /\ Settled(r, "failed", "failed") \in JobRecord
        /\ Settled(r, "cancelled", "cancelled") \in JobRecord
        /\ SucceededRow(r, once) \in JobRecord
    BY SettledTypes DEF JobState, JobOutcome
  <1>2. Settled(r, "queued", r.outcome) \in JobRecord
    BY SettledTypes DEF JobState, JobRecord
  <1>3. [Settled(r, "queued", r.outcome) EXCEPT !.due = "now"] \in JobRecord
    BY <1>2 DEF JobRecord, DueTime
  <1> QED BY <1>1, <1>3 DEF RecoverRow

LEMMA ClaimTypes ==
    ASSUME NEW r \in JobRecord, NEW n \in Nat, NEW w \in Nat, NEW o \in Marker
    PROVE  /\ ClaimedRow(r, n, w) \in JobRecord
           /\ MarkRow(r, o) \in JobRecord
  BY DEF ClaimedRow, MarkRow, JobRecord, JobState, Marker

LEMMA FinishTypes ==
    ASSUME NEW r \in JobRecord, NEW e, NEW retry, NEW once
    PROVE  /\ FinishCancelled(r) \in JobRecord
           /\ FinishFailure(r, retry) \in JobRecord
           /\ ApplyExecution(r, e, retry, once) \in JobRecord
  <1>1. FinishCancelled(r) \in JobRecord
    BY DEF FinishCancelled, JobRecord, JobState, JobOutcome, Marker
  <1>2. /\ Settled(r, "failed", "failed") \in JobRecord
        /\ Settled(r, "queued", "failed") \in JobRecord
        /\ Settled(r, "queued", "skipped") \in JobRecord
        /\ SucceededRow(r, once) \in JobRecord
    BY SettledTypes DEF JobState, JobOutcome
  <1>3. [Settled(r, "queued", "failed") EXCEPT !.due = "later"] \in JobRecord
    BY <1>2 DEF JobRecord, DueTime
  <1>4. FinishFailure(r, retry) \in JobRecord
    BY <1>1, <1>2, <1>3 DEF FinishFailure, FailedRow
  <1>5. ApplyExecution(r, e, retry, once) \in JobRecord
    BY <1>1, <1>2, <1>4 DEF ApplyExecution, FinishCommitted
  <1> QED BY <1>1, <1>4, <1>5

-----------------------------------------------------------------------------
(* Type correctness. *)

\* Every step of the host, the sweep, the handler and the watcher keeps the types.
LEMMA TypeStep == TypeOK /\ [Next]_vars => TypeOK'
  <1> SUFFICES ASSUME TypeOK, [Next]_vars
               PROVE  TypeOK'
    OBVIOUS
  <1> USE JobsAssumption
  <1> USE DEF TypeOK
  <1>b. \A j \in Jobs, r \in JobRecord : [row EXCEPT ![j] = r] \in [Jobs -> JobRecord]
    OBVIOUS
  <1>c. \A j \in Jobs : row[j] \in JobRecord
    OBVIOUS
  <1>d. \A j \in Jobs, o \in Marker : [effect EXCEPT ![j] = o] \in [Jobs -> Marker]
    OBVIOUS
  <1>e. \A j \in Jobs, n \in Nat : [starts EXCEPT ![j] = n] \in [Jobs -> Nat]
    OBVIOUS
  <1>1. CASE Unlock
    BY <1>1 DEF Unlock, runner, history
  <1>2. CASE Lock
    BY <1>2 DEF Lock, runner, history
  <1>3. CASE Crash
    BY <1>3 DEF Crash, history, Steps, JobExecution
  <1>4. ASSUME NEW j \in Jobs, TimePasses(j) PROVE TypeOK'
    <2>1. [row[j] EXCEPT !.due = "now"] \in JobRecord
      BY <1>c DEF JobRecord, DueTime
    <2>2. row' = [row EXCEPT ![j] = [row[j] EXCEPT !.due = "now"]]
      BY <1>4 DEF TimePasses
    <2> QED BY <1>4, <1>b, <2>1, <2>2 DEF TimePasses, host, runner, history
  <1>5. ASSUME NEW j \in Jobs, CancelJob(j) PROVE TypeOK'
    <2>1. CancelRow(row[j]) \in JobRecord
      BY <1>c, ConfigurationTypes DEF DueTime
    <2> QED BY <1>5, <1>b, <2>1 DEF CancelJob, host, runner, history
  <1>6. ASSUME NEW j \in Jobs, DeleteJob(j) PROVE TypeOK'
    <2>1. DeleteRow(row[j]) \in JobRecord
      BY <1>c, ConfigurationTypes DEF DueTime
    <2> QED BY <1>6, <1>b, <1>e, <2>1 DEF DeleteJob, host, runner
  <1>7. ASSUME NEW j \in Jobs, NEW en \in BOOLEAN, NEW due \in {"later", "now"},
               ScheduleJob(j, en, due) \/ ReconfigureJob(j, en, due)
        PROVE  TypeOK'
    <2>1. /\ ScheduleRow(row[j], en, due) \in JobRecord
          /\ ReconfigureRow(row[j], en, due) \in JobRecord
      BY <1>c, ConfigurationTypes DEF DueTime
    <2>2. CASE ScheduleJob(j, en, due)
      BY <2>2, <1>b, <2>1 DEF ScheduleJob, host, runner, history
    <2>3. CASE ReconfigureJob(j, en, due)
      BY <2>3, <1>b, <1>e, <2>1 DEF ReconfigureJob, host, runner
    <2> QED BY <1>7, <2>2, <2>3
  <1>8. ASSUME NEW w \in pending, TaskFindsLocked(w) PROVE TypeOK'
    BY <1>8 DEF TaskFindsLocked, runner, history
  <1>9. ASSUME NEW w \in pending, BeginSweep(w) PROVE TypeOK'
    <2>1. row' \in [Jobs -> JobRecord]
      BY <1>9, <1>c, RecoveryTypes DEF BeginSweep
    <2>2. starts' \in [Jobs -> Nat]
      BY <1>9 DEF BeginSweep
    <2> QED BY <1>9, <2>1, <2>2 DEF BeginSweep, Steps
  <1>10. CASE ListDue
    <2>1. snap' \in [Jobs -> Nat]
      BY <1>10, <1>c DEF ListDue, JobRecord
    <2> QED BY <1>10, <2>1 DEF ListDue, Steps, host, history
  <1>11. CASE EndSweep
    BY <1>11 DEF EndSweep, Steps, host, history
  <1>12. ASSUME NEW j \in Jobs, ExhaustedJob(j) PROVE TypeOK'
    <2>1. FinishFailure(row[j], FALSE) \in JobRecord
      BY <1>c, FinishTypes
    <2> QED BY <1>12, <1>b, <2>1 DEF ExhaustedJob, host, history
  <1>13. ASSUME NEW j \in Jobs, ClaimJob(j) PROVE TypeOK'
    <2>0. snap[j] + 1 \in Nat /\ sweepWin \in Nat
      OBVIOUS
    <2>1. ClaimedRow(row[j], snap[j] + 1, sweepWin) \in JobRecord
      BY <1>c, <2>0, ClaimTypes DEF Marker
    <2>2. row' \in [Jobs -> JobRecord] /\ effect' \in [Jobs -> Marker]
      BY <1>13, <1>b, <1>d, <2>1 DEF ClaimJob, Marker
    <2> QED BY <1>13, <2>2 DEF ClaimJob, host, Steps, ClaimSteps, JobExecution
  <1>14. CASE CheckRequest
    <2>1. FinishCancelled(row[cur]) \in JobRecord
      BY <1>c, FinishTypes
    <2> QED BY <1>14, <1>b, <2>1 DEF CheckRequest, host, history, Steps, ClaimSteps
  <1>15. CASE PolicySkips
    <2>1. ApplyExecution(row[cur], "Skipped", FALSE, Once(cur)) \in JobRecord
      BY <1>c, FinishTypes
    <2> QED BY <1>15, <1>b, <2>1 DEF PolicySkips, host, history, Steps
  <1>16. CASE StartHandler
    BY <1>16, <1>e DEF StartHandler, host, Steps, ClaimSteps, HandlerSteps
  <1>17. CASE WatcherCancels
    BY <1>17 DEF WatcherCancels, host, history
  <1>18. CASE StoreFails
    BY <1>18 DEF StoreFails, host, history, Steps
  <1>19. CASE HandlerReturned
    BY <1>19 DEF HandlerReturned, Overridden, host, history, Steps, ClaimSteps, JobExecution
  <1>20. CASE Finish
    <2>1. ApplyExecution(row[cur], exec, row[cur].attempts < MaxAttempts, Once(cur))
            \in JobRecord
      BY <1>c, FinishTypes
    <2> QED BY <1>20, <1>b, <1>e, <2>1 DEF Finish, host, Steps, JobExecution
  <1>21. CASE BackupStart \/ Assemble \/ Put \/ Stored \/ ReadBack \/ LastLook
    BY <1>21 DEF BackupStart, Assemble, Put, Stored, ReadBack, LastLook, LookAndUndo,
       Return, Goto, ExportLeaves, host, history, Steps, ClaimSteps, HandlerSteps, JobExecution
  <1>22. CASE VerifiedReceipt \/ FailureReceipt
    <2>1. \A o \in Marker : MarkRow(row[cur], o) \in JobRecord
      BY <1>c, ClaimTypes
    <2>2. row' \in [Jobs -> JobRecord] /\ effect' \in [Jobs -> Marker]
      BY <1>22, <1>b, <1>d, <2>1 DEF VerifiedReceipt, FailureReceipt, RecordReceipt, Marker
    <2>3. exec' \in JobExecution /\ pc' \in Steps
      BY <1>22 DEF VerifiedReceipt, FailureReceipt, RecordReceipt, Return, Steps, ClaimSteps,
         HandlerSteps, JobExecution
    <2> QED BY <1>22, <2>2, <2>3 DEF VerifiedReceipt, FailureReceipt, host
  <1>23. CASE UNCHANGED vars
    BY <1>23 DEF vars
  <1> QED
    BY <1>1, <1>2, <1>3, <1>4, <1>5, <1>6, <1>7, <1>8, <1>9, <1>10, <1>11, <1>12, <1>13,
       <1>14, <1>15, <1>16, <1>17, <1>18, <1>19, <1>20, <1>21, <1>22, <1>23
       DEF Next, HostStep, SweepStep, HandlerStep

(***************************************************************************)
(* The sweep's table and locals keep their types (JobRecord, JobExecution   *)
(* and the locals of run_due_with_clock) in every reachable state.          *)
(***************************************************************************)
THEOREM TypeCorrect == Spec => []TypeOK
  <1>1. Init => TypeOK
    <2>1. AbsentRow \in JobRecord
      BY DEF AbsentRow, JobRecord, JobState, JobOutcome, Marker, DueTime
    <2>2. ASSUME Init
          PROVE  /\ row \in [Jobs -> JobRecord] /\ effect \in [Jobs -> Marker]
                 /\ snap \in [Jobs -> Nat] /\ starts \in [Jobs -> Nat]
      BY <2>1, <2>2 DEF Init, Marker
    <2>3. ASSUME Init
          PROVE  window \in 0..MaxUnlocks /\ sweepWin \in 0..MaxUnlocks
      BY <2>3, JobsAssumption DEF Init
    <2>4. ASSUME Init
          PROVE  pending \subseteq 1..MaxUnlocks /\ todo \subseteq Jobs
      BY <2>4 DEF Init
    <2>5. ASSUME Init
          PROVE  /\ vault \in {"locked", "open"} /\ pc \in Steps /\ cur \in Jobs
                 /\ token \in BOOLEAN /\ exec \in JobExecution
                 /\ file \in {"absent", "partial", "stored"}
      BY <2>5, JobsAssumption DEF Init, JobExecution, Steps
    <2> QED BY <2>2, <2>3, <2>4, <2>5 DEF TypeOK
  <1> QED BY <1>1, TypeStep, PTL DEF Spec

-----------------------------------------------------------------------------
(* The recorded outcome. *)

\* The steps of a run in which nothing can have been committed yet.
BeforeReceipt == ClaimSteps \ {"returned", "finish"}

\* A running row's marker is what its run committed.
MarkerIsEffect ==
    \A j \in Jobs : row[j].state = "running" => row[j].marker = effect[j]

\* What the handler reports, and what the runner records, against what was committed.  A
\* cancellation is true when the marker can be read.
ReportIsTrue ==
    pc \in {"returned", "finish"} =>
        /\ exec \in {"Committed", "Failed", "Cancelled"}
        /\ exec = "Committed" => effect[cur] = "succeeded"
        /\ exec = "Failed"    => effect[cur] # "succeeded"
        /\ exec = "Cancelled" /\ "marker" \notin Faults => effect[cur] = "none"

\* A row that waits in the list is not running: it was not when it was listed, and
\* only this sweep's claim starts a row.
ListedWaits == \A j \in todo : row[j].state # "running"

(***************************************************************************)
(* The inductive invariant: the claim is held, so the marker is written     *)
(* when the effect is, so the runner's override reads the truth.            *)
(***************************************************************************)
RunInvariant ==
    /\ ClaimIsHeld
    /\ MarkerIsEffect
    /\ ListedWaits
    /\ pc \in BeforeReceipt => effect[cur] = "none"
    /\ ReportIsTrue

\* A statement other than a run's own does not move a running row or its marker.
LEMMA OthersKeepRunning ==
    ASSUME NEW r \in JobRecord, NEW en, NEW due
    PROVE  /\ r.state = "running" =>
                /\ CancelRow(r).state = "running"
                /\ CancelRow(r).marker = r.marker
                /\ ScheduleRow(r, en, due).state = "running"
                /\ ScheduleRow(r, en, due).marker = r.marker
           /\ r.state # "running" =>
                /\ CancelRow(r).state # "running"
                /\ ScheduleRow(r, en, due).state # "running"
                /\ ReconfigureRow(r, en, due).state # "running"
                /\ DeleteRow(r).state # "running"
  BY DEF CancelRow, ScheduleRow, ReconfigureRow, DeleteRow, NewRow, AbsentRow, JobRecord

\* Recovery leaves no running row, and settles a row with a request as its marker says.
LEMMA RecoverySettles ==
    ASSUME NEW r \in JobRecord, NEW once
    PROVE  /\ RecoverRow(r, once).state # "running"
           /\ r.state = "running" =>
                /\ RecoverRow(r, once).state = "cancelled" => r.marker = "none"
                /\ RecoverRow(r, once).state = "succeeded" => r.marker = "succeeded"
                /\ RecoverRow(r, once).state = "failed" => r.marker # "succeeded"
  BY DEF RecoverRow, Settled, SucceededRow, JobRecord, Marker

\* A terminal write ends the run, and records only what the report and the marker allow.
LEMMA TerminalWrite ==
    ASSUME NEW r \in JobRecord, NEW e \in {"Committed", "Failed", "Cancelled", "Skipped"},
           NEW retry, NEW once
    PROVE  /\ ApplyExecution(r, e, retry, once).state # "running"
           /\ r.state = "running" =>
                /\ ApplyExecution(r, e, retry, once).state = "succeeded" => e = "Committed"
                /\ ApplyExecution(r, e, retry, once).state = "failed" => e = "Failed"
                /\ ApplyExecution(r, e, retry, once).state = "cancelled" =>
                        e \in {"Cancelled", "Skipped"} \/ r.marker = "none"
                /\ e = "Committed" => ApplyExecution(r, e, retry, once).state = "succeeded"
  <1>1. /\ FinishCancelled(r).state # "running"
        /\ r.state = "running" => FinishCancelled(r).state = "cancelled"
    BY DEF FinishCancelled, JobRecord
  <1>2. \A s \in JobState, o \in JobOutcome : Settled(r, s, o).state = s
    BY DEF Settled, JobRecord
  <1>3. SucceededRow(r, once).state = "succeeded"
    BY DEF SucceededRow, Settled, JobRecord
  <1>4. FailedRow(r, retry).state \in {"queued", "failed"}
    BY DEF FailedRow, Settled, JobRecord
  <1>5. CASE e = "Committed"
    BY <1>3, <1>5 DEF ApplyExecution, FinishCommitted
  <1>6. CASE e = "Failed"
    BY <1>1, <1>4, <1>6 DEF ApplyExecution, FinishFailure, FailureMatches
  <1>7. CASE e = "Cancelled"
    BY <1>1, <1>7 DEF ApplyExecution
  <1>8. CASE e = "Skipped"
    BY <1>1, <1>2, <1>8 DEF ApplyExecution, JobState, JobOutcome
  <1> QED BY <1>5, <1>6, <1>7, <1>8

\* Only a claim starts a row.
LEMMA OnlyClaimStarts ==
    ASSUME TypeOK, Next, NEW k \in Jobs, row[k].state # "running", ~ClaimJob(k)
    PROVE  row'[k].state # "running"
  <1>a. /\ row \in [Jobs -> JobRecord] /\ cur \in Jobs
        /\ \A j \in Jobs : row[j] \in JobRecord
    BY DEF TypeOK
  <1>1. CASE row' = row
    BY <1>1
  <1>2. ASSUME NEW j \in Jobs, TimePasses(j) PROVE row'[k].state # "running"
    BY <1>2, <1>a DEF TimePasses, JobRecord
  <1>3. ASSUME NEW j \in Jobs, CancelJob(j) PROVE row'[k].state # "running"
    BY <1>3, <1>a, OthersKeepRunning DEF CancelJob
  <1>4. ASSUME NEW j \in Jobs, DeleteJob(j) PROVE row'[k].state # "running"
    BY <1>4, <1>a, OthersKeepRunning DEF DeleteJob
  <1>5. ASSUME NEW j \in Jobs, NEW en \in BOOLEAN, NEW due \in {"later", "now"},
               ScheduleJob(j, en, due) \/ ReconfigureJob(j, en, due)
        PROVE  row'[k].state # "running"
    <2>1. CASE ScheduleJob(j, en, due)
      <3>1. row' = [row EXCEPT ![j] = ScheduleRow(row[j], en, due)]
        BY <2>1 DEF ScheduleJob
      <3> QED BY <3>1, <1>a, OthersKeepRunning
    <2>2. CASE ReconfigureJob(j, en, due)
      <3>1. row' = [row EXCEPT ![j] = ReconfigureRow(row[j], en, due)]
        BY <2>2 DEF ReconfigureJob
      <3> QED BY <3>1, <1>a, OthersKeepRunning
    <2> QED BY <1>5, <2>1, <2>2
  <1>6. ASSUME NEW w \in pending, BeginSweep(w) PROVE row'[k].state # "running"
    BY <1>6, <1>a, RecoverySettles DEF BeginSweep
  <1>7. ASSUME NEW j \in Jobs, ExhaustedJob(j) PROVE row'[k].state # "running"
    <2>1. FinishFailure(row[j], FALSE).state # "running"
      BY <1>a DEF FinishFailure, FailedRow, Settled, FinishCancelled, JobRecord
    <2> QED BY <1>7, <1>a, <2>1 DEF ExhaustedJob
  <1>8. ASSUME NEW j \in Jobs, ClaimJob(j) PROVE row'[k].state # "running"
    BY <1>8, <1>a DEF ClaimJob
  <1>9. CASE CheckRequest \/ PolicySkips \/ Finish \/ VerifiedReceipt \/ FailureReceipt
    <2>1. \/ row' = row
          \/ row' = [row EXCEPT ![cur] = FinishCancelled(@)]
          \/ \E e, retry : row' = [row EXCEPT ![cur] = ApplyExecution(@, e, retry, Once(cur))]
          \/ \E o : row' = [row EXCEPT ![cur] = MarkRow(@, o)]
      BY <1>9 DEF CheckRequest, PolicySkips, Finish, VerifiedReceipt, FailureReceipt,
         RecordReceipt
    <2>2. FinishCancelled(row[cur]).state # "running"
      BY <1>a DEF FinishCancelled, JobRecord
    <2>3. \A e, retry : ApplyExecution(row[cur], e, retry, Once(cur)).state # "running"
      BY <2>2, <1>a DEF ApplyExecution, FinishCommitted, FinishFailure, FailedRow, Settled,
         SucceededRow, JobRecord
    <2>4. \A o : MarkRow(row[cur], o).state = row[cur].state
      BY <1>a DEF MarkRow, JobRecord
    <2> QED BY <1>a, <2>1, <2>2, <2>3, <2>4
  <1>10. CASE ListDue \/ EndSweep \/ StartHandler \/ StoreFails \/ HandlerReturned
    BY <1>10, <1>1 DEF ListDue, EndSweep, StartHandler, StoreFails, HandlerReturned
  <1>11. CASE BackupStart \/ Assemble \/ Put \/ Stored \/ ReadBack \/ LastLook \/ WatcherCancels
    BY <1>11, <1>1 DEF BackupStart, Assemble, Put, Stored, ReadBack, LastLook, ExportLeaves,
       WatcherCancels
  <1>12. CASE Unlock \/ Lock \/ Crash
    BY <1>12, <1>1 DEF Unlock, Lock, Crash
  <1>13. ASSUME NEW w \in pending, TaskFindsLocked(w) PROVE row' = row
    BY <1>13 DEF TaskFindsLocked
  <1> QED
    BY <1>1, <1>2, <1>3, <1>4, <1>5, <1>6, <1>7, <1>8, <1>9, <1>10, <1>11, <1>12, <1>13
       DEF Next, HostStep, SweepStep, HandlerStep

\* The rows in the list keep waiting: the list only shrinks, and a claim takes its row off.
LEMMA ListedStep ==
    ASSUME TypeOK, ListedWaits, [Next]_vars
    PROVE  ListedWaits'
  <1>1. CASE UNCHANGED vars
    BY <1>1 DEF vars, ListedWaits
  <1>2. CASE ListDue
    BY <1>2 DEF ListDue, DueRow, ListedWaits
  <1>3. CASE Next /\ ~ListDue
    <2>1. todo' \subseteq todo /\ \A j \in Jobs : ClaimJob(j) => j \notin todo'
      BY <1>3 DEF Next, HostStep, SweepStep, HandlerStep, Unlock, Lock, Crash, TimePasses,
         CancelJob, DeleteJob, ScheduleJob, ReconfigureJob, TaskFindsLocked, BeginSweep,
         EndSweep, ExhaustedJob, ClaimJob, CheckRequest, PolicySkips, StartHandler, StoreFails,
         HandlerReturned, Finish, BackupStart, Assemble, Put, Stored, ReadBack, LastLook,
         VerifiedReceipt, FailureReceipt, WatcherCancels, ExportLeaves, runner
    <2> QED BY <1>3, <2>1, OnlyClaimStarts DEF ListedWaits, TypeOK
  <1> QED BY <1>1, <1>2, <1>3

\* Every step keeps the run invariant.
LEMMA RunStep ==
    ASSUME TypeOK, RunInvariant, [Next]_vars
    PROVE  RunInvariant'
  <1> USE JobsAssumption
  <1>0. ListedWaits'
    BY ListedStep DEF RunInvariant
  <1> SUFFICES ASSUME ListedWaits' PROVE RunInvariant'
    BY <1>0
  <1> USE DEF RunInvariant, ClaimIsHeld, MarkerIsEffect, ReportIsTrue
  <1>a. /\ row \in [Jobs -> JobRecord] /\ cur \in Jobs /\ effect \in [Jobs -> Marker]
        /\ \A j \in Jobs : row[j] \in JobRecord
        /\ todo \subseteq Jobs
    BY DEF TypeOK
  <1>b. /\ "idle" \notin ClaimSteps /\ "list" \notin ClaimSteps /\ "ready" \notin ClaimSteps
        /\ BeforeReceipt \subseteq ClaimSteps
        /\ BeforeReceipt = {"claimed", "decide", "start", "assemble", "put", "stored", "readback",
                            "look", "receipt", "failreceipt"}
        /\ "idle" \notin BeforeReceipt /\ "list" \notin BeforeReceipt
        /\ "ready" \notin BeforeReceipt
        /\ {"returned", "finish"} \subseteq ClaimSteps
        /\ \A p \in {"returned", "finish"} : p \notin BeforeReceipt
    BY DEF BeforeReceipt, ClaimSteps, HandlerSteps
  <1>1. CASE Unlock \/ Lock
    BY <1>1 DEF Unlock, Lock, runner, history
  <1>2. CASE Crash
    BY <1>2, <1>b DEF Crash, history
  <1>3. ASSUME NEW j \in Jobs, TimePasses(j) PROVE RunInvariant'
    <2>1. \A k \in Jobs : row'[k].state = row[k].state /\ row'[k].marker = row[k].marker
      BY <1>3, <1>a DEF TimePasses, JobRecord
    <2> QED BY <1>3, <1>a, <2>1 DEF TimePasses, host, runner, history
  <1>4. ASSUME NEW j \in Jobs, CancelJob(j) PROVE RunInvariant'
    <2>1. \A k \in Jobs : /\ row'[k].state = "running" <=> row[k].state = "running"
                          /\ row[k].state = "running" => row'[k].marker = row[k].marker
      BY <1>4, <1>a, OthersKeepRunning DEF CancelJob
    <2> QED BY <1>4, <1>a, <2>1 DEF CancelJob, host, runner, history
  <1>5. ASSUME NEW j \in Jobs, NEW en \in BOOLEAN, NEW due \in {"later", "now"},
               DeleteJob(j) \/ ScheduleJob(j, en, due) \/ ReconfigureJob(j, en, due)
        PROVE  RunInvariant'
    <2>1. \A k \in Jobs : row'[k].state = "running" =>
                /\ row[k].state = "running"
                /\ row'[k].marker = row[k].marker
      <3>1. CASE DeleteJob(j)
        <4>1. row' = [row EXCEPT ![j] = DeleteRow(row[j])] /\ row[j].state # "running"
          BY <3>1 DEF DeleteJob
        <4> QED BY <4>1, <1>a, OthersKeepRunning
      <3>2. CASE ScheduleJob(j, en, due)
        <4>1. row' = [row EXCEPT ![j] = ScheduleRow(row[j], en, due)]
          BY <3>2 DEF ScheduleJob
        <4> QED BY <4>1, <1>a, OthersKeepRunning
      <3>3. CASE ReconfigureJob(j, en, due)
        <4>1. /\ row' = [row EXCEPT ![j] = ReconfigureRow(row[j], en, due)]
              /\ row[j].state # "running"
          BY <3>3 DEF ReconfigureJob
        <4> QED BY <4>1, <1>a, OthersKeepRunning
      <3> QED BY <1>5, <3>1, <3>2, <3>3
    <2>2. pc = "idle" /\ pc' = pc /\ effect' = effect /\ todo' = todo
      BY <1>5 DEF DeleteJob, ScheduleJob, ReconfigureJob, ControllerFree, runner, history
    <2> QED BY <1>b, <2>1, <2>2
  <1>6. ASSUME NEW w \in pending, TaskFindsLocked(w) PROVE RunInvariant'
    BY <1>6 DEF TaskFindsLocked, runner, history
  <1>7. ASSUME NEW w \in pending, BeginSweep(w) PROVE RunInvariant'
    <2>1. \A k \in Jobs : row'[k].state # "running"
      BY <1>7, <1>a, RecoverySettles DEF BeginSweep
    <2> QED BY <1>7, <1>b, <2>1 DEF BeginSweep
  <1>8. CASE ListDue \/ EndSweep \/ StoreFails
    BY <1>8, <1>b DEF ListDue, EndSweep, StoreFails, history
  <1>9. ASSUME NEW j \in Jobs, ExhaustedJob(j) PROVE RunInvariant'
    <2>1. FinishFailure(row[j], FALSE).state # "running"
      BY <1>a DEF FinishFailure, FailedRow, Settled, FinishCancelled, JobRecord
    <2> QED BY <1>9, <1>a, <1>b, <2>1 DEF ExhaustedJob, history
  <1>10. ASSUME NEW j \in Jobs, ClaimJob(j) PROVE RunInvariant'
    <2>1. CASE ClaimMatches(row[j], snap[j] + 1, sweepWin)
      <3>1. /\ row' = [row EXCEPT ![j] = ClaimedRow(row[j], snap[j] + 1, sweepWin)]
            /\ effect' = [effect EXCEPT ![j] = "none"]
            /\ cur' = j /\ pc' = "claimed"
        BY <1>10, <2>1 DEF ClaimJob
      <3>2. row'[j].state = "running" /\ row'[j].marker = "none" /\ effect'[j] = "none"
        BY <3>1, <1>a DEF ClaimedRow, JobRecord
      <3>3. \A k \in Jobs \ {j} : row'[k] = row[k] /\ effect'[k] = effect[k]
        BY <3>1, <1>a
      <3> QED BY <3>1, <3>2, <3>3
    <2>2. CASE ~ClaimMatches(row[j], snap[j] + 1, sweepWin)
      BY <1>10, <2>2 DEF ClaimJob
    <2> QED BY <2>1, <2>2
  <1>11. CASE CheckRequest
    <2>1. CASE row[cur].cancel
      <3>1. FinishCancelled(row[cur]).state # "running"
        BY <1>a DEF FinishCancelled, JobRecord
      <3> QED BY <1>11, <1>a, <1>b, <2>1, <3>1 DEF CheckRequest, history
    <2>2. CASE ~row[cur].cancel
      BY <1>11, <1>b, <2>2 DEF CheckRequest, history
    <2> QED BY <2>1, <2>2
  <1>12. CASE PolicySkips
    <2>1. ApplyExecution(row[cur], "Skipped", FALSE, Once(cur)).state # "running"
      BY <1>a DEF ApplyExecution, Settled, FinishCancelled, JobRecord
    <2> QED BY <1>12, <1>a, <1>b, <2>1 DEF PolicySkips, history
  <1>13. CASE StartHandler \/ WatcherCancels
    BY <1>13, <1>b DEF StartHandler, WatcherCancels, history
  <1>14. CASE BackupStart \/ Assemble \/ Put \/ Stored \/ ReadBack \/ LastLook
    <2>1. /\ pc \in BeforeReceipt /\ row' = row /\ cur' = cur /\ effect' = effect
      BY <1>14, <1>b DEF BackupStart, Assemble, Put, Stored, ReadBack, LastLook, ExportLeaves,
         history
    <2>2. \/ pc' = "returned" /\ exec' \in {"Cancelled", "Failed"}
          \/ pc' \in BeforeReceipt
      BY <1>14, <1>b DEF BackupStart, Assemble, Put, Stored, ReadBack, LastLook, LookAndUndo,
         Return, Goto
    <2> QED BY <2>1, <2>2, <1>b
  <1>15. CASE VerifiedReceipt \/ FailureReceipt
    <2>1. PICK o \in {"succeeded", "failed"}, e \in {"Committed", "Failed"} :
             /\ RecordReceipt(o, e)
             /\ e = "Committed" <=> o = "succeeded"
             /\ pc \in BeforeReceipt /\ cur' = cur
      BY <1>15, <1>b DEF VerifiedReceipt, FailureReceipt
    <2>2. pc' = "returned" /\ row[cur].state = "running" /\ effect[cur] = "none"
      BY <2>1, <1>b DEF RecordReceipt, Return
    <2>3. CASE UNCHANGED <<row, effect>> /\ Return("Failed")
      BY <2>1, <2>2, <2>3, <1>b DEF Return
    <2>4. CASE /\ row' = [row EXCEPT ![cur] = MarkRow(@, o)]
               /\ effect' = [effect EXCEPT ![cur] = o]
               /\ Return(e)
      <3>1. row'[cur].state = "running" /\ row'[cur].marker = o /\ effect'[cur] = o
        BY <2>2, <2>4, <1>a DEF MarkRow, JobRecord
      <3>2. \A k \in Jobs \ {cur} : row'[k] = row[k] /\ effect'[k] = effect[k]
        BY <2>4, <1>a
      <3> QED BY <2>1, <2>2, <2>4, <3>1, <3>2, <1>b DEF Return
    <2> QED BY <2>1, <2>3, <2>4 DEF RecordReceipt
  <1>16. CASE HandlerReturned
    <2>1. \/ exec' = Overridden(exec, token, row[cur].marker # "none")
          \/ exec' = Overridden(exec, token, FALSE) /\ "marker" \in Faults
      BY <1>16 DEF HandlerReturned
    <2>2. /\ pc = "returned" /\ pc' = "finish" /\ cur' = cur /\ row' = row /\ effect' = effect
      BY <1>16 DEF HandlerReturned, history
    <2>3. row[cur].marker = effect[cur]
      BY <1>a, <1>b, <2>2
    <2> QED BY <1>a, <1>b, <2>1, <2>2, <2>3 DEF Overridden
  <1>17. CASE Finish
    <2>1. exec \in {"Committed", "Failed", "Cancelled"}
      BY <1>17 DEF Finish
    <2>2. row'[cur].state # "running"
      BY <1>17, <1>a, <2>1, TerminalWrite DEF Finish
    <2> QED BY <1>17, <1>a, <1>b, <2>2 DEF Finish
  <1>18. CASE UNCHANGED vars
    BY <1>18 DEF vars
  <1> QED
    BY <1>1, <1>2, <1>3, <1>4, <1>5, <1>6, <1>7, <1>8, <1>9, <1>10, <1>11, <1>12, <1>13,
       <1>14, <1>15, <1>16, <1>17, <1>18 DEF Next, HostStep, SweepStep, HandlerStep

\* Every step from a state of the run invariant records a true outcome.
LEMMA OutcomeStep ==
    ASSUME TypeOK, RunInvariant, Next, "marker" \notin Faults, NEW i \in Jobs
    PROVE  OutcomeTrue(i)
  <1> SUFFICES ASSUME row[i].state = "running", row'[i].state # "running"
               PROVE  /\ row'[i].state = "cancelled" => effect[i] = "none"
                      /\ row'[i].state = "succeeded" => effect[i] = "succeeded"
                      /\ row'[i].state = "failed"    => effect[i] # "succeeded"
    BY DEF OutcomeTrue
  <1>a. /\ row \in [Jobs -> JobRecord] /\ cur \in Jobs
        /\ \A j \in Jobs : row[j] \in JobRecord
        /\ row[i].marker = effect[i]
    BY DEF TypeOK, RunInvariant, MarkerIsEffect
  <1>b. pc \in BeforeReceipt => effect[cur] = "none"
    BY DEF RunInvariant
  <1>1. CASE row' = row
    BY <1>1
  <1>2. ASSUME NEW j \in Jobs, TimePasses(j) PROVE FALSE
    BY <1>2, <1>a DEF TimePasses, JobRecord
  <1>3. ASSUME NEW j \in Jobs, CancelJob(j) PROVE FALSE
    BY <1>3, <1>a, OthersKeepRunning DEF CancelJob
  <1>4. ASSUME NEW j \in Jobs, DeleteJob(j) PROVE FALSE
    BY <1>4, <1>a DEF DeleteJob
  <1>5. ASSUME NEW j \in Jobs, NEW en \in BOOLEAN, NEW due \in {"later", "now"},
               ScheduleJob(j, en, due) \/ ReconfigureJob(j, en, due)
        PROVE  FALSE
    <2>1. CASE ScheduleJob(j, en, due)
      <3>1. row' = [row EXCEPT ![j] = ScheduleRow(row[j], en, due)]
        BY <2>1 DEF ScheduleJob
      <3> QED BY <3>1, <1>a, OthersKeepRunning
    <2>2. CASE ReconfigureJob(j, en, due)
      BY <2>2, <1>a DEF ReconfigureJob
    <2> QED BY <1>5, <2>1, <2>2
  <1>6. ASSUME NEW w \in pending, BeginSweep(w)
        PROVE  /\ row'[i].state = "cancelled" => effect[i] = "none"
               /\ row'[i].state = "succeeded" => effect[i] = "succeeded"
               /\ row'[i].state = "failed"    => effect[i] # "succeeded"
    BY <1>6, <1>a, RecoverySettles DEF BeginSweep
  <1>7. ASSUME NEW j \in Jobs, ExhaustedJob(j)
        PROVE  FALSE
    BY <1>7, <1>a DEF ExhaustedJob, RunInvariant, ListedWaits
  <1>8. ASSUME NEW j \in Jobs, ClaimJob(j) PROVE FALSE
    BY <1>8, <1>a DEF ClaimJob, ClaimMatches
  <1>9. CASE CheckRequest
    <2>1. pc \in BeforeReceipt /\ row' = [row EXCEPT ![cur] = FinishCancelled(row[cur])]
      BY <1>9, <1>a DEF CheckRequest, BeforeReceipt, ClaimSteps, HandlerSteps
    <2>2. FinishCancelled(row[cur]).state \in {"cancelled", row[cur].state}
      BY <1>a DEF FinishCancelled, JobRecord
    <2> QED BY <1>a, <1>b, <2>1, <2>2
  <1>10. CASE PolicySkips
    <2>1. /\ pc \in BeforeReceipt
          /\ row' = [row EXCEPT ![cur] = ApplyExecution(@, "Skipped", FALSE, Once(cur))]
      BY <1>10 DEF PolicySkips, BeforeReceipt, ClaimSteps, HandlerSteps
    <2>2. ApplyExecution(row[cur], "Skipped", FALSE, Once(cur)).state
            \in {"cancelled", "queued", row[cur].state}
      BY <1>a DEF ApplyExecution, Settled, FinishCancelled, JobRecord
    <2> QED BY <1>a, <1>b, <2>1, <2>2
  <1>11. CASE VerifiedReceipt \/ FailureReceipt
    <2>1. PICK o : row' = [row EXCEPT ![cur] = MarkRow(@, o)] \/ row' = row
      BY <1>11 DEF VerifiedReceipt, FailureReceipt, RecordReceipt
    <2>2. MarkRow(row[cur], o).state = row[cur].state
      BY <1>a DEF MarkRow, JobRecord
    <2> QED BY <1>a, <2>1, <2>2
  <1>12. CASE Finish
    <2>1. /\ exec \in {"Committed", "Failed", "Cancelled"}
          /\ exec = "Committed" => effect[cur] = "succeeded"
          /\ exec = "Failed"    => effect[cur] # "succeeded"
          /\ exec = "Cancelled" => effect[cur] = "none"
      BY <1>12 DEF Finish, RunInvariant, ReportIsTrue
    <2>2. PICK retry : row' = [row EXCEPT ![cur] = ApplyExecution(@, exec, retry, Once(cur))]
      BY <1>12 DEF Finish
    <2>3. cur = i
      BY <1>a, <2>2
    <2> QED BY <1>a, <2>1, <2>2, <2>3, TerminalWrite
  <1>13. CASE ListDue \/ EndSweep \/ StartHandler \/ StoreFails \/ HandlerReturned
    BY <1>13, <1>1 DEF ListDue, EndSweep, StartHandler, StoreFails, HandlerReturned
  <1>14. CASE BackupStart \/ Assemble \/ Put \/ Stored \/ ReadBack \/ LastLook \/ WatcherCancels
    BY <1>14, <1>1 DEF BackupStart, Assemble, Put, Stored, ReadBack, LastLook, ExportLeaves,
       WatcherCancels
  <1>15. CASE Unlock \/ Lock \/ Crash
    BY <1>15, <1>1 DEF Unlock, Lock, Crash
  <1>16. ASSUME NEW w \in pending, TaskFindsLocked(w) PROVE row' = row
    BY <1>16 DEF TaskFindsLocked
  <1> QED
    BY <1>1, <1>2, <1>3, <1>4, <1>5, <1>6, <1>7, <1>8, <1>9, <1>10, <1>11, <1>12, <1>13,
       <1>14, <1>15, <1>16 DEF Next, HostStep, SweepStep, HandlerStep

\* The run invariant holds in every reachable state.
LEMMA RunInvariantHolds == Spec => [](TypeOK /\ RunInvariant)
  <1>1. Init => RunInvariant
    BY DEF Init, RunInvariant, ClaimIsHeld, MarkerIsEffect, ListedWaits, ReportIsTrue, BeforeReceipt,
       ClaimSteps, HandlerSteps, AbsentRow
  <1>2. TypeOK /\ RunInvariant /\ [Next]_vars => RunInvariant'
    BY RunStep
  <1> QED BY <1>1, <1>2, TypeCorrect, PTL DEF Spec

(***************************************************************************)
(* While a run is between its claim and its terminal write only its own     *)
(* runner moves its row out of running: cancel_job keeps the claim,         *)
(* reconfigure_job and delete_job refuse, and the controller's lock keeps   *)
(* other sweeps' recovery away.                                             *)
(***************************************************************************)
THEOREM ClaimHeld == Spec => []ClaimIsHeld
  BY RunInvariantHolds, PTL DEF RunInvariant

(***************************************************************************)
(* Rules 1 and 2 of the job-runtime crate for the scheduled backup: what a  *)
(* row records when its run ends is what the run committed, whenever the    *)
(* commit marker can be read back.                                          *)
(***************************************************************************)
THEOREM OutcomeIsTrue ==
    ASSUME "marker" \notin Faults
    PROVE  Spec => RecordedOutcomeIsTrue
  <1>1. TypeOK /\ RunInvariant /\ [Next]_vars => [\A j \in Jobs : OutcomeTrue(j)]_vars
    BY OutcomeStep
  <1> QED BY <1>1, RunInvariantHolds, PTL DEF Spec, RecordedOutcomeIsTrue

-----------------------------------------------------------------------------
(* The destination of a cancelled export. *)

\* The steps of a run before it has written anything to the destination.
BeforePut == {"claimed", "decide", "start", "assemble", "put"}

\* The item is absent where the run has not written it, and where it reports a cancellation.
DestinationClean ==
    /\ pc \in BeforePut => file = "absent"
    /\ CancelLeavesDestination

LEMMA DestinationStep ==
    ASSUME DestinationClean, [Next]_vars
    PROVE  DestinationClean'
  <1> USE DEF DestinationClean, CancelLeavesDestination, BeforePut
  <1>1. CASE HostStep
    BY <1>1 DEF HostStep, Unlock, Lock, Crash, TimePasses, CancelJob, DeleteJob, ScheduleJob,
                ReconfigureJob, runner
  <1>2. CASE SweepStep
    <2>1. CASE HandlerReturned \/ Finish \/ ListDue \/ EndSweep \/ StoreFails
      BY <2>1 DEF HandlerReturned, Finish, ListDue, EndSweep, StoreFails
    <2>2. CASE CheckRequest \/ PolicySkips \/ StartHandler
      BY <2>2 DEF CheckRequest, PolicySkips, StartHandler
    <2>3. ASSUME NEW w \in pending, TaskFindsLocked(w) \/ BeginSweep(w) PROVE DestinationClean'
      BY <2>3 DEF TaskFindsLocked, BeginSweep, runner
    <2>4. ASSUME NEW j \in Jobs, ExhaustedJob(j) PROVE DestinationClean'
      BY <2>4 DEF ExhaustedJob
    <2>5. ASSUME NEW j \in Jobs, ClaimJob(j) PROVE DestinationClean'
      BY <2>5 DEF ClaimJob
    <2> QED BY <1>2, <2>1, <2>2, <2>3, <2>4, <2>5 DEF SweepStep
  <1>3. CASE BackupStart \/ Assemble \/ Put
    BY <1>3 DEF BackupStart, Assemble, Put, Return, Goto
  <1>4. CASE Stored \/ ReadBack \/ LastLook
    BY <1>4 DEF Stored, ReadBack, LastLook, LookAndUndo, Return, Goto
  <1>5. CASE VerifiedReceipt \/ FailureReceipt
    BY <1>5 DEF VerifiedReceipt, FailureReceipt, RecordReceipt, Return
  <1>6. CASE WatcherCancels \/ UNCHANGED vars
    BY <1>6 DEF WatcherCancels, vars
  <1> QED BY <1>1, <1>2, <1>3, <1>4, <1>5, <1>6 DEF Next, HandlerStep

(***************************************************************************)
(* A cancelled export leaves no stored or partial item of its own behind,   *)
(* whichever look at the token saw the request (run_scheduled_backup).      *)
(***************************************************************************)
THEOREM CancelledExportLeavesNothing == Spec => []CancelLeavesDestination
  <1>1. Init => DestinationClean
    BY DEF Init, DestinationClean, CancelLeavesDestination
  <1>2. DestinationClean => CancelLeavesDestination
    BY DEF DestinationClean
  <1> QED BY <1>1, <1>2, DestinationStep, PTL DEF Spec

-----------------------------------------------------------------------------
(* A cancelled row stays cancelled. *)

\* Recovery, the claim and every terminal write leave a cancelled row as it is.
LEMMA CancelledIsFinal ==
    ASSUME NEW r \in JobRecord, r.state = "cancelled"
    PROVE  /\ CancelRow(r) = r /\ FinishCancelled(r) = r /\ DeleteRow(r).state = "absent"
           /\ \A once : RecoverRow(r, once) = r
           /\ \A retry : FinishFailure(r, retry) = r
           /\ \A e, retry, once : ApplyExecution(r, e, retry, once) = r
           /\ \A o : MarkRow(r, o) = r
           /\ \A en, due : ScheduleRow(r, en, due).state = "cancelled"
           /\ \A en, due : ReconfigureRow(r, en, due).state = "queued"
  <1>1. FinishCancelled(r) = r /\ \A retry : FinishFailure(r, retry) = r
    BY DEF FinishCancelled, FinishFailure, FailureMatches
  <1>2. \A e, retry, once : ApplyExecution(r, e, retry, once) = r
    BY <1>1 DEF ApplyExecution, FinishUncancelled, FinishCommitted
  <1>3. CancelRow(r) = r /\ (\A once : RecoverRow(r, once) = r) /\ \A o : MarkRow(r, o) = r
    BY DEF CancelRow, RecoverRow, MarkRow
  <1>4. DeleteRow(r).state = "absent" /\ \A en, due : ScheduleRow(r, en, due).state = "cancelled"
    BY DEF ScheduleRow, DeleteRow, AbsentRow, JobRecord
  <1>5. \A en, due : ReconfigureRow(r, en, due).state = "queued"
    BY DEF ReconfigureRow, NewRow, AbsentRow
  <1> QED BY <1>1, <1>2, <1>3, <1>4, <1>5

\* What any step may do to a row: a statement of the table on that row alone, or recovery.
LEMMA RowSteps ==
    ASSUME TypeOK, [Next]_vars, NEW k \in Jobs
    PROVE  \/ row'[k] = row[k]
           \/ TimePasses(k) /\ row'[k] = [row[k] EXCEPT !.due = "now"]
           \/ CancelJob(k) /\ row'[k] = CancelRow(row[k])
           \/ DeleteJob(k) /\ row'[k] = DeleteRow(row[k])
           \/ \E en \in BOOLEAN, due \in {"later", "now"} :
                 \/ ScheduleJob(k, en, due) /\ row'[k] = ScheduleRow(row[k], en, due)
                 \/ ReconfigureJob(k, en, due) /\ row'[k] = ReconfigureRow(row[k], en, due)
           \/ row'[k] = RecoverRow(row[k], Once(k)) /\ \E w \in pending : BeginSweep(w)
           \/ ExhaustedJob(k) /\ row'[k] = FinishFailure(row[k], FALSE)
           \/ /\ ClaimJob(k)
              /\ ClaimMatches(row[k], snap[k] + 1, sweepWin)
              /\ row'[k] = ClaimedRow(row[k], snap[k] + 1, sweepWin)
           \/ CheckRequest /\ row'[k] = FinishCancelled(row[k])
           \/ PolicySkips /\ row'[k] = ApplyExecution(row[k], "Skipped", FALSE, Once(k))
           \/ /\ Finish /\ cur = k
              /\ row'[k] = ApplyExecution(row[k], exec, row[k].attempts < MaxAttempts, Once(k))
           \/ \E o \in {"succeeded", "failed"} : row'[k] = MarkRow(row[k], o)
  <1> USE DEF TypeOK
  <1>1. CASE HostStep
    <2>1. CASE Unlock \/ Lock \/ Crash
      BY <2>1 DEF Unlock, Lock, Crash
    <2>2. ASSUME NEW j \in Jobs, TimePasses(j)
          PROVE  row'[k] = row[k] \/ (j = k /\ row'[k] = [row[k] EXCEPT !.due = "now"])
      <3>1. row' = [row EXCEPT ![j] = [row[j] EXCEPT !.due = "now"]]
        BY <2>2 DEF TimePasses
      <3> QED BY <3>1
    <2>3. ASSUME NEW j \in Jobs, CancelJob(j)
          PROVE  row'[k] = row[k] \/ (j = k /\ row'[k] = CancelRow(row[k]))
      BY <2>3 DEF CancelJob
    <2>4. ASSUME NEW j \in Jobs, DeleteJob(j)
          PROVE  row'[k] = row[k] \/ (j = k /\ row'[k] = DeleteRow(row[k]))
      BY <2>4 DEF DeleteJob
    <2>5. ASSUME NEW j \in Jobs, NEW en \in BOOLEAN, NEW due \in {"later", "now"},
                 ScheduleJob(j, en, due)
          PROVE  row'[k] = row[k] \/ (j = k /\ row'[k] = ScheduleRow(row[k], en, due))
      BY <2>5 DEF ScheduleJob
    <2>6. ASSUME NEW j \in Jobs, NEW en \in BOOLEAN, NEW due \in {"later", "now"},
                 ReconfigureJob(j, en, due)
          PROVE  row'[k] = row[k] \/ (j = k /\ row'[k] = ReconfigureRow(row[k], en, due))
      BY <2>6 DEF ReconfigureJob
    <2> QED BY <1>1, <2>1, <2>2, <2>3, <2>4, <2>5, <2>6 DEF HostStep
  <1>2. CASE SweepStep
    <2>1. CASE ListDue \/ EndSweep \/ StoreFails \/ StartHandler \/ HandlerReturned
      BY <2>1 DEF ListDue, EndSweep, StoreFails, StartHandler, HandlerReturned
    <2>2. ASSUME NEW w \in pending, TaskFindsLocked(w) PROVE row'[k] = row[k]
      BY <2>2 DEF TaskFindsLocked
    <2>3. ASSUME NEW w \in pending, BeginSweep(w) PROVE row'[k] = RecoverRow(row[k], Once(k))
      BY <2>3 DEF BeginSweep
    <2>4. ASSUME NEW j \in Jobs, ExhaustedJob(j)
          PROVE  row'[k] = row[k] \/ (j = k /\ row'[k] = FinishFailure(row[k], FALSE))
      BY <2>4 DEF ExhaustedJob
    <2>5. ASSUME NEW j \in Jobs, ClaimJob(j)
          PROVE  \/ row'[k] = row[k]
                 \/ /\ j = k
                    /\ ClaimMatches(row[k], snap[k] + 1, sweepWin)
                    /\ row'[k] = ClaimedRow(row[k], snap[k] + 1, sweepWin)
      BY <2>5 DEF ClaimJob
    <2>6. CASE CheckRequest
      BY <2>6 DEF CheckRequest
    <2>7. CASE PolicySkips
      BY <2>7 DEF PolicySkips
    <2>8. CASE Finish
      BY <2>8 DEF Finish
    <2> QED BY <1>2, <2>1, <2>2, <2>3, <2>4, <2>5, <2>6, <2>7, <2>8 DEF SweepStep
  <1>3. CASE BackupStart \/ Assemble \/ Put \/ Stored \/ ReadBack \/ LastLook \/ WatcherCancels
    BY <1>3 DEF BackupStart, Assemble, Put, Stored, ReadBack, LastLook, ExportLeaves,
                WatcherCancels
  <1>4. CASE VerifiedReceipt \/ FailureReceipt
    BY <1>4 DEF VerifiedReceipt, FailureReceipt, RecordReceipt
  <1>5. CASE UNCHANGED vars
    BY <1>5 DEF vars
  <1> QED BY <1>1, <1>2, <1>3, <1>4, <1>5 DEF Next, HandlerStep

(***************************************************************************)
(* A request that reached a waiting row is final (cancel_job): the sweep    *)
(* that listed the row neither starts it nor records anything over it.      *)
(***************************************************************************)
THEOREM CancelledStaysCancelled == Spec => CancelIsFinal
  <1>1. TypeOK /\ [Next]_vars =>
          [\A j \in Jobs :
              row[j].state = "cancelled" =>
                  row'[j].state \in {"cancelled", "queued", "absent"}]_vars
    <2> SUFFICES ASSUME TypeOK, [Next]_vars, NEW j \in Jobs, row[j].state = "cancelled"
                 PROVE  row'[j].state \in {"cancelled", "queued", "absent"}
      OBVIOUS
    <2>1. row[j] \in JobRecord
      BY DEF TypeOK
    <2>2. [row[j] EXCEPT !.due = "now"].state = "cancelled"
      BY <2>1 DEF JobRecord
    <2>3. ~ClaimMatches(row[j], snap[j] + 1, sweepWin)
      BY DEF ClaimMatches
    <2>4. /\ CancelRow(row[j]) = row[j] /\ FinishCancelled(row[j]) = row[j]
          /\ RecoverRow(row[j], Once(j)) = row[j] /\ FinishFailure(row[j], FALSE) = row[j]
          /\ DeleteRow(row[j]).state = "absent"
      BY <2>1, CancelledIsFinal
    <2>5. \A e, retry : ApplyExecution(row[j], e, retry, Once(j)) = row[j]
      BY <2>1, CancelledIsFinal
    <2>6. \A o : MarkRow(row[j], o) = row[j]
      BY <2>1, CancelledIsFinal
    <2>7. \A en, due : /\ ScheduleRow(row[j], en, due).state = "cancelled"
                       /\ ReconfigureRow(row[j], en, due).state = "queued"
      BY <2>1, CancelledIsFinal
    <2>8. \/ row'[j] = row[j] \/ row'[j] = [row[j] EXCEPT !.due = "now"]
          \/ row'[j] = DeleteRow(row[j])
          \/ \E en \in BOOLEAN, due \in {"later", "now"} :
                row'[j] \in {ScheduleRow(row[j], en, due), ReconfigureRow(row[j], en, due)}
      BY <2>3, <2>4, <2>5, <2>6, RowSteps
    <2>9. CASE row'[j] = row[j] \/ row'[j] = [row[j] EXCEPT !.due = "now"]
      BY <2>2, <2>9
    <2>10. CASE row'[j] = DeleteRow(row[j])
      BY <2>4, <2>10
    <2>11. ASSUME NEW en \in BOOLEAN, NEW due \in {"later", "now"},
                  row'[j] \in {ScheduleRow(row[j], en, due), ReconfigureRow(row[j], en, due)}
           PROVE  row'[j].state \in {"cancelled", "queued"}
      BY <2>7, <2>11
    <2> QED BY <2>8, <2>9, <2>10, <2>11
  <1> QED BY <1>1, TypeCorrect, PTL DEF Spec, CancelIsFinal

-----------------------------------------------------------------------------
(* The attempt budget. *)

\* The counter goes up with each claim and is cleared together with the starts it counts:
\* between a claim and the handler's start one attempt is counted and not yet used.
BudgetKept ==
    \A j \in Jobs :
        /\ row[j].attempts <= MaxAttempts
        /\ row[j].state = "absent" => row[j].attempts = 0
        /\ starts[j] <= row[j].attempts
        /\ pc \in {"claimed", "decide"} /\ cur = j => starts[j] < row[j].attempts

\* s is a row of the same attempt as r.
SameAttempt(r, s) == s.attempts = r.attempts /\ (s.state = "absent" => r.state = "absent")

\* Requests, time, the marker, and every end of a run but a success keep the attempt.
LEMMA AttemptKept ==
    ASSUME NEW r \in JobRecord
    PROVE  /\ SameAttempt(r, r)
           /\ SameAttempt(r, [r EXCEPT !.due = "now"])
           /\ SameAttempt(r, CancelRow(r))
           /\ SameAttempt(r, FinishCancelled(r))
           /\ SameAttempt(r, FinishFailure(r, FALSE))
           /\ \A once : SameAttempt(r, ApplyExecution(r, "Skipped", FALSE, once))
           /\ \A o : SameAttempt(r, MarkRow(r, o))
           /\ \A en, due : r.state # "absent" => SameAttempt(r, ScheduleRow(r, en, due))
           /\ \A en, due : r.state = "absent" => ScheduleRow(r, en, due).attempts = 0
  <1>1. SameAttempt(r, r) /\ SameAttempt(r, [r EXCEPT !.due = "now"])
    BY DEF SameAttempt, JobRecord
  <1>2. SameAttempt(r, CancelRow(r)) /\ SameAttempt(r, FinishCancelled(r))
    BY DEF SameAttempt, CancelRow, FinishCancelled, JobRecord
  <1>3. SameAttempt(r, FinishFailure(r, FALSE))
    BY <1>2 DEF SameAttempt, FinishFailure, FailedRow, Settled, JobRecord
  <1>4. SameAttempt(r, Settled(r, "queued", "skipped"))
    BY DEF SameAttempt, Settled, JobRecord
  <1>5. \A once : SameAttempt(r, ApplyExecution(r, "Skipped", FALSE, once))
    BY <1>2, <1>4 DEF ApplyExecution
  <1>6. \A o : SameAttempt(r, MarkRow(r, o))
    BY DEF SameAttempt, MarkRow, JobRecord
  <1>7. /\ \A en, due : r.state # "absent" => SameAttempt(r, ScheduleRow(r, en, due))
        /\ \A en, due : r.state = "absent" => ScheduleRow(r, en, due).attempts = 0
    BY DEF SameAttempt, ScheduleRow, NewRow, AbsentRow, JobRecord
  <1> QED BY <1>1, <1>2, <1>3, <1>5, <1>6, <1>7

\* Recovery and the outcome of a run keep the attempt, or end in a success that clears it.
LEMMA AttemptCleared ==
    ASSUME NEW r \in JobRecord, NEW e, NEW retry, NEW once
    PROVE  /\ \/ SameAttempt(r, RecoverRow(r, once))
              \/ /\ RecoverRow(r, once).state = "succeeded"
                 /\ RecoverRow(r, once).attempts = 0
           /\ \/ SameAttempt(r, ApplyExecution(r, e, retry, once))
              \/ /\ ApplyExecution(r, e, retry, once).state = "succeeded"
                 /\ ApplyExecution(r, e, retry, once).attempts = 0
  <1>1. SucceededRow(r, once).state = "succeeded" /\ SucceededRow(r, once).attempts = 0
    BY DEF SucceededRow, Settled, JobRecord
  <1>2. \A s \in JobState \ {"absent"} : \A o : SameAttempt(r, Settled(r, s, o))
    BY DEF SameAttempt, Settled, JobRecord
  <1>3. SameAttempt(r, r) /\ SameAttempt(r, FinishCancelled(r))
    BY AttemptKept
  <1>4. /\ SameAttempt(r, [Settled(r, "queued", r.outcome) EXCEPT !.due = "now"])
        /\ SameAttempt(r, [Settled(r, "queued", "failed") EXCEPT !.due = "later"])
    BY DEF SameAttempt, Settled, JobRecord
  <1>5. \/ SameAttempt(r, RecoverRow(r, once))
        \/ RecoverRow(r, once) = SucceededRow(r, once)
    BY <1>2, <1>3, <1>4 DEF RecoverRow, JobState, JobRecord, Marker
  <1>6. SameAttempt(r, FinishFailure(r, retry))
    BY <1>2, <1>3, <1>4 DEF FinishFailure, FailedRow, JobState
  <1>7. \/ SameAttempt(r, ApplyExecution(r, e, retry, once))
        \/ ApplyExecution(r, e, retry, once) = SucceededRow(r, once)
    BY <1>2, <1>3, <1>6 DEF ApplyExecution, FinishCommitted, JobState
  <1> QED BY <1>1, <1>5, <1>7

\* Steps that count and start nothing.
LEMMA BudgetFrame ==
    ASSUME TypeOK, BudgetKept, \A j \in Jobs : SameAttempt(row[j], row'[j]), starts' = starts,
           pc' \in {"claimed", "decide"} => pc \in {"claimed", "decide"} /\ cur' = cur
    PROVE  BudgetKept'
  BY DEF BudgetKept, SameAttempt, TypeOK, JobRecord

LEMMA BudgetStep ==
    ASSUME TypeOK, BudgetKept, [Next]_vars
    PROVE  BudgetKept'
  <1> USE JobsAssumption
  <1>a. /\ \A j \in Jobs : row[j] \in JobRecord /\ SameAttempt(row[j], row[j])
        /\ row \in [Jobs -> JobRecord] /\ starts \in [Jobs -> Nat] /\ cur \in Jobs
    BY DEF TypeOK, SameAttempt
  <1>b. \A j \in Jobs : row[j].attempts \in Nat
    BY <1>a DEF JobRecord
  <1>1. CASE Unlock \/ Lock \/ Crash
    BY <1>1, <1>a, BudgetFrame DEF Unlock, Lock, Crash, runner, history
  <1>2. ASSUME NEW j \in Jobs, TimePasses(j) PROVE BudgetKept'
    <2>1. row' = [row EXCEPT ![j] = [row[j] EXCEPT !.due = "now"]]
      BY <1>2 DEF TimePasses
    <2>2. \A k \in Jobs : SameAttempt(row[k], row'[k])
      BY <2>1, <1>a, AttemptKept
    <2> QED BY <1>2, <2>2, BudgetFrame DEF TimePasses, runner, history
  <1>3. ASSUME NEW j \in Jobs, CancelJob(j) PROVE BudgetKept'
    <2>1. \A k \in Jobs : SameAttempt(row[k], row'[k])
      BY <1>3, <1>a, AttemptKept DEF CancelJob
    <2> QED BY <1>3, <2>1, BudgetFrame DEF CancelJob, runner, history
  <1>4. ASSUME NEW j \in Jobs, NEW r \in JobRecord, r.attempts = 0, pc = "idle", pc' = pc,
               row' = [row EXCEPT ![j] = r],
               starts' = [starts EXCEPT ![j] = 0] \/ (starts' = starts /\ starts[j] = 0)
        PROVE  BudgetKept'
    BY <1>4, <1>a, <1>b DEF BudgetKept
  <1>5. ASSUME NEW j \in Jobs, DeleteJob(j) PROVE BudgetKept'
    <2>1. DeleteRow(row[j]) \in JobRecord /\ DeleteRow(row[j]).attempts = 0
      BY <1>5, <1>a, ConfigurationTypes DEF DeleteJob, DeleteRow, AbsentRow, DueTime
    <2> QED BY <1>4, <1>5, <2>1 DEF DeleteJob, ControllerFree, runner
  <1>6. ASSUME NEW j \in Jobs, NEW en \in BOOLEAN, NEW due \in {"later", "now"},
               ReconfigureJob(j, en, due)
        PROVE  BudgetKept'
    <2>1. ReconfigureRow(row[j], en, due) \in JobRecord
      BY <1>a, ConfigurationTypes DEF DueTime
    <2>2. NewRow(en, due) \in JobRecord /\ NewRow(en, due).attempts = 0
      BY DEF NewRow, AbsentRow, JobRecord, JobState, JobOutcome, Marker, DueTime
    <2>3. ReconfigureRow(row[j], en, due).attempts = 0
      BY <1>6, <2>2 DEF ReconfigureJob, ReconfigureRow, JobRecord
    <2>4. row' = [row EXCEPT ![j] = ReconfigureRow(row[j], en, due)]
      BY <1>6 DEF ReconfigureJob
    <2> QED BY <1>4, <1>6, <2>1, <2>3, <2>4 DEF ReconfigureJob, ControllerFree, runner
  <1>7. ASSUME NEW j \in Jobs, NEW en \in BOOLEAN, NEW due \in {"later", "now"},
               ScheduleJob(j, en, due)
        PROVE  BudgetKept'
    <2>1. row' = [row EXCEPT ![j] = ScheduleRow(row[j], en, due)]
      BY <1>7 DEF ScheduleJob
    <2>2. pc = "idle" /\ pc' = pc /\ starts' = starts /\ cur' = cur
      BY <1>7 DEF ScheduleJob, ControllerFree, runner, history
    <2>3. CASE row[j].state = "absent"
      <3>1. ScheduleRow(row[j], en, due) \in JobRecord
        BY <1>a, ConfigurationTypes DEF DueTime
      <3>2. ScheduleRow(row[j], en, due).attempts = 0
        BY <1>a, <2>3, AttemptKept
      <3>3. starts[j] = 0
        <4>1. starts[j] \in Nat /\ row[j].attempts = 0 /\ starts[j] <= row[j].attempts
          BY <1>a, <2>3 DEF BudgetKept
        <4> QED BY <4>1
      <3> QED BY <1>4, <2>1, <2>2, <3>1, <3>2, <3>3
    <2>4. CASE row[j].state # "absent"
      <3>1. SameAttempt(row[j], ScheduleRow(row[j], en, due))
        BY <1>a, <2>4, AttemptKept
      <3>2. \A k \in Jobs : SameAttempt(row[k], row'[k])
        BY <1>a, <2>1, <3>1
      <3> QED BY <2>2, <3>2, BudgetFrame
    <2> QED BY <2>3, <2>4
  <1>8. ASSUME NEW w \in pending, TaskFindsLocked(w) PROVE BudgetKept'
    BY <1>8, <1>a, BudgetFrame DEF TaskFindsLocked, runner, history
  <1>9. ASSUME NEW w \in pending, BeginSweep(w) PROVE BudgetKept'
    <2>1. row' \in [Jobs -> JobRecord]
      BY <1>9, <1>a, RecoveryTypes DEF BeginSweep
    <2>2. ASSUME NEW k \in Jobs
          PROVE  /\ row'[k].attempts <= MaxAttempts
                 /\ row'[k].state = "absent" => row'[k].attempts = 0
                 /\ starts'[k] <= row'[k].attempts
      <3>1. \/ SameAttempt(row[k], row'[k])
            \/ row'[k].state = "succeeded" /\ row'[k].attempts = 0
        <4>1. row'[k] = RecoverRow(row[k], Once(k))
          BY <1>9 DEF BeginSweep
        <4> QED BY <4>1, <1>a, AttemptCleared
      <3>2. starts'[k] = IF row'[k].state = "succeeded" THEN 0 ELSE starts[k]
        BY <1>9 DEF BeginSweep
      <3> QED BY <3>1, <3>2, <1>b DEF BudgetKept, SameAttempt
    <2>3. pc' = "list"
      BY <1>9 DEF BeginSweep
    <2> QED BY <2>2, <2>3 DEF BudgetKept
  <1>10. CASE ListDue \/ EndSweep \/ StoreFails \/ HandlerReturned
    BY <1>10, <1>a, BudgetFrame DEF ListDue, EndSweep, StoreFails, HandlerReturned, history
  <1>11. ASSUME NEW j \in Jobs, ExhaustedJob(j) PROVE BudgetKept'
    <2>1. \A k \in Jobs : SameAttempt(row[k], row'[k])
      BY <1>11, <1>a, AttemptKept DEF ExhaustedJob
    <2> QED BY <1>11, <2>1, BudgetFrame DEF ExhaustedJob, history
  <1>12. ASSUME NEW j \in Jobs, ClaimJob(j) PROVE BudgetKept'
    <2>1. CASE ~ClaimMatches(row[j], snap[j] + 1, sweepWin)
      BY <1>12, <2>1, <1>a, BudgetFrame DEF ClaimJob
    <2>2. CASE ClaimMatches(row[j], snap[j] + 1, sweepWin)
      <3>1. /\ row' = [row EXCEPT ![j] = ClaimedRow(row[j], snap[j] + 1, sweepWin)]
            /\ starts' = starts /\ cur' = j
            /\ snap[j] + 1 <= MaxAttempts /\ snap[j] + 1 = row[j].attempts + 1
        BY <1>12, <2>2 DEF ClaimJob, ClaimMatches
      <3>2. /\ row'[j].attempts = row[j].attempts + 1 /\ row'[j].state = "running"
            /\ \A k \in Jobs \ {j} : row'[k] = row[k]
        BY <3>1, <1>a DEF ClaimedRow, JobRecord
      <3> QED BY <3>1, <3>2, <1>a, <1>b DEF BudgetKept
    <2> QED BY <2>1, <2>2
  <1>13. CASE CheckRequest
    <2>1. \A k \in Jobs : SameAttempt(row[k], row'[k])
      BY <1>13, <1>a, AttemptKept DEF CheckRequest
    <2> QED BY <1>13, <2>1, BudgetFrame DEF CheckRequest, history
  <1>14. CASE PolicySkips
    <2>1. \A k \in Jobs : SameAttempt(row[k], row'[k])
      BY <1>14, <1>a, AttemptKept DEF PolicySkips
    <2> QED BY <1>14, <2>1, BudgetFrame DEF PolicySkips, history
  <1>15. CASE StartHandler
    <2>1. /\ row' = row /\ starts' = [starts EXCEPT ![cur] = starts[cur] + 1]
          /\ pc = "decide" /\ pc' = "start"
      BY <1>15 DEF StartHandler
    <2> QED BY <2>1, <1>a, <1>b DEF BudgetKept
  <1>16. CASE Finish
    <2>1. /\ row' = [row EXCEPT ![cur] =
                ApplyExecution(row[cur], exec, row[cur].attempts < MaxAttempts, Once(cur))]
          /\ starts' = IF row'[cur].state = "succeeded" THEN [starts EXCEPT ![cur] = 0] ELSE starts
          /\ pc' = "ready"
      BY <1>16 DEF Finish
    <2>2. \/ SameAttempt(row[cur], row'[cur])
          \/ row'[cur].state = "succeeded" /\ row'[cur].attempts = 0
      BY <2>1, <1>a, AttemptCleared
    <2>3. \A k \in Jobs \ {cur} : row'[k] = row[k] /\ starts'[k] = starts[k]
      BY <2>1, <1>a
    <2>4. starts'[cur] = IF row'[cur].state = "succeeded" THEN 0 ELSE starts[cur]
      BY <2>1, <1>a
    <2> QED BY <2>1, <2>2, <2>3, <2>4, <1>a, <1>b DEF BudgetKept, SameAttempt
  <1>17. CASE BackupStart \/ Assemble \/ Put \/ Stored \/ ReadBack \/ LastLook \/ WatcherCancels
    <2>1. /\ row' = row /\ starts' = starts /\ cur' = cur
          /\ pc' \in {"claimed", "decide"} => pc \in {"claimed", "decide"}
      BY <1>17 DEF BackupStart, Assemble, Put, Stored, ReadBack, LastLook, LookAndUndo, Return,
                   Goto, ExportLeaves, WatcherCancels, history
    <2> QED BY <1>a, <2>1, BudgetFrame
  <1>18. CASE VerifiedReceipt \/ FailureReceipt
    <2>1. starts' = starts /\ pc' = "returned"
      BY <1>18 DEF VerifiedReceipt, FailureReceipt, RecordReceipt, Return
    <2>2. \/ row' = row
          \/ \E o \in {"succeeded", "failed"} : row' = [row EXCEPT ![cur] = MarkRow(row[cur], o)]
      BY <1>18 DEF VerifiedReceipt, FailureReceipt, RecordReceipt
    <2>3. \A o : SameAttempt(row[cur], MarkRow(row[cur], o))
      BY <1>a, AttemptKept
    <2>4. \A k \in Jobs : SameAttempt(row[k], row'[k])
      BY <1>a, <2>2, <2>3
    <2> QED BY <2>1, <2>4, BudgetFrame
  <1>19. CASE UNCHANGED vars
    BY <1>19, <1>a, BudgetFrame DEF vars
  <1> QED
    BY <1>1, <1>2, <1>3, <1>5, <1>6, <1>7, <1>8, <1>9, <1>10, <1>11, <1>12, <1>13, <1>14,
       <1>15, <1>16, <1>17, <1>18, <1>19 DEF Next, HostStep, SweepStep, HandlerStep

(***************************************************************************)
(* Between two successes or configurations a handler starts at most         *)
(* max_attempts times (claim_job counts the attempt before the work), also  *)
(* when every start ends in a crash that recovery requeues.                 *)
(***************************************************************************)
THEOREM HandlerStartsBounded == Spec => []AttemptBudget
  <1>1. Init => BudgetKept
    BY JobsAssumption DEF Init, BudgetKept, AbsentRow
  <1>2. TypeOK /\ BudgetKept => AttemptBudget
    <2> SUFFICES ASSUME TypeOK, BudgetKept, NEW j \in Jobs PROVE starts[j] <= MaxAttempts
      BY DEF AttemptBudget
    <2>1. row[j].attempts \in Nat /\ starts[j] \in Nat
      BY DEF TypeOK, JobRecord
    <2> QED BY <2>1, JobsAssumption DEF BudgetKept
  <1> QED BY <1>1, <1>2, BudgetStep, TypeCorrect, PTL DEF Spec
=============================================================================
