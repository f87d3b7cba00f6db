------------------------------ MODULE JobStore ------------------------------
(***************************************************************************)
(* The durable_jobs table of the vault database, one row at a time: every   *)
(* operator below is the effect of one SQL statement (or of one             *)
(* transaction) of crates/db-worker/src/jobs.rs on a row.  A statement      *)
(* whose WHERE clause does not match leaves the row as it is.  The module   *)
(* has no state; JobSweep and ConnectorRefresh keep the table.              *)
(***************************************************************************)
EXTENDS Naturals

\* A durable job's state; "absent" is a job that has no row.
JobState == {"absent", "queued", "running", "succeeded", "failed", "cancelled"}

\* last_outcome; "none" is NULL.
JobOutcome == {"none", "succeeded", "failed", "cancelled", "skipped"}

\* The commit marker (committed_at with committed_outcome); "none" is NULL.
Marker == {"none", "succeeded", "failed"}

(***************************************************************************)
(* next_due_at against the clock: NULL, in the future, or not later than    *)
(* now.  Waiting turns "later" into "now" (TimePasses in the state          *)
(* machines); a new due time is either given or computed from the schedule. *)
(***************************************************************************)
DueTime == {"none", "later", "now"}

\* Unlock windows are fresh UUIDs: numbers here, 0 being NULL.
JobRecord ==
    [state: JobState, attempts: Nat, due: DueTime, enabled: BOOLEAN, window: Nat,
     cancel: BOOLEAN, marker: Marker, outcome: JobOutcome]

\* What a handler reports; "none" while it has not returned.
JobExecution == {"none", "Succeeded", "Committed", "Failed", "Cancelled", "Skipped"}

AbsentRow ==
    [state |-> "absent", attempts |-> 0, due |-> "none", enabled |-> FALSE,
     window |-> 0, cancel |-> FALSE, marker |-> "none", outcome |-> "none"]

\* Schedule::next_due_after: a job that runs once has no next due time.
NextDueAfter(once) == IF once THEN "none" ELSE "later"

-----------------------------------------------------------------------------
(* Configuration. *)

NewRow(en, due) ==
    [AbsentRow EXCEPT !.state = "queued", !.due = due, !.enabled = en]

\* schedule_job: insert, or replace the configuration and keep the runtime state.
ScheduleRow(r, en, due) ==
    IF r.state = "absent"
    THEN NewRow(en, due)
    ELSE [r EXCEPT !.due = due, !.enabled = en]

\* reconfigure_job: refused while running, otherwise back to the queue.
ReconfigureRow(r, en, due) ==
    IF r.state = "running"
    THEN r
    ELSE [NewRow(en, due) EXCEPT !.marker = r.marker]

\* delete_job: a running row is left to the run that holds it.
DeleteRow(r) == IF r.state = "running" THEN r ELSE AbsentRow

\* cancel_job without its case for a running row: the claim is taken away.
CancelRow_TakesRunning(r) ==
    IF r.state \in {"absent", "failed", "cancelled"} THEN r
    ELSE [r EXCEPT !.state = "cancelled", !.outcome = "cancelled", !.cancel = TRUE]

\* cancel_job: a running row keeps its claim and carries the request.
CancelRow(r) ==
    IF r.state \in {"absent", "failed", "cancelled"} THEN r
    ELSE IF r.state = "running" THEN [r EXCEPT !.cancel = TRUE]
    ELSE [r EXCEPT !.state = "cancelled", !.outcome = "cancelled", !.cancel = TRUE]

-----------------------------------------------------------------------------
(* Recovery and the claim. *)

\* Every terminal write clears the request and the marker.
Settled(r, state, outcome) ==
    [r EXCEPT !.state = state, !.outcome = outcome, !.cancel = FALSE, !.marker = "none"]

\* The row after a success, with the next due time of its schedule.
SucceededRow(r, once) ==
    [Settled(r, "succeeded", "succeeded") EXCEPT !.attempts = 0, !.due = NextDueAfter(once)]

\* recover_running that does not read the marker.
RecoverRow_IgnoresMarker(r, once) ==
    IF r.state # "running" THEN r
    ELSE IF r.cancel THEN Settled(r, "cancelled", "cancelled")
    ELSE [Settled(r, "queued", r.outcome) EXCEPT !.due = "now"]

\* recover_running without the statement that requeues rows that carry no request.
RecoverRow_RequestsOnly(r, once) ==
    IF r.state # "running" \/ ~r.cancel THEN r
    ELSE CASE r.marker = "failed"    -> Settled(r, "failed", "failed")
           [] r.marker = "succeeded" -> SucceededRow(r, once)
           [] OTHER                  -> Settled(r, "cancelled", "cancelled")

(***************************************************************************)
(* recover_running: a running row with a request is recorded as what its    *)
(* marker says was committed, or as cancelled without one; a running row    *)
(* without a request goes back to the queue, due at once, marker or not,    *)
(* with the attempt it was claimed for still counted.                       *)
(***************************************************************************)
RecoverRow(r, once) ==
    IF r.state # "running" THEN r
    ELSE IF r.cancel THEN
        CASE r.marker = "failed"    -> Settled(r, "failed", "failed")
          [] r.marker = "succeeded" -> SucceededRow(r, once)
          [] OTHER                  -> Settled(r, "cancelled", "cancelled")
    ELSE [Settled(r, "queued", r.outcome) EXCEPT !.due = "now"]

\* due_jobs: what the sweep of window w lists.
DueRow(r, w) ==
    /\ r.enabled
    /\ r.state \in {"queued", "succeeded"}
    /\ r.due = "now"
    /\ r.window # w

\* claim_job that trusts the list: the row's state is not checked again.
ClaimMatches_TrustsList(r, attempt, w) ==
    /\ r.state # "absent"
    /\ r.attempts + 1 = attempt
    /\ r.window # w

\* claim_job's WHERE clause, for the attempt the caller read when it listed the row.
ClaimMatches(r, attempt, w) ==
    /\ r.state \in {"queued", "succeeded"}
    /\ r.attempts + 1 = attempt
    /\ r.window # w

\* claim_job that leaves the attempt counter to the terminal writes.
ClaimedRow_KeepsAttempts(r, attempt, w) ==
    [r EXCEPT !.state = "running", !.window = w, !.cancel = FALSE, !.marker = "none"]

\* claim_job's SET clause: a new claim starts with no request and no marker.
ClaimedRow(r, attempt, w) ==
    [r EXCEPT !.state = "running", !.attempts = attempt, !.window = w,
              !.cancel = FALSE, !.marker = "none"]

\* The effect's transaction without the marker.
MarkRow_Omitted(r, outcome) == r

\* mark_committed, in the transaction of the durable effect: the first value is kept.
MarkRow(r, outcome) ==
    IF r.state = "running" /\ r.marker = "none" THEN [r EXCEPT !.marker = outcome] ELSE r

-----------------------------------------------------------------------------
(* Terminal writes. *)

\* finish_cancelled: it leaves cancel_requested as it is and reads no marker.
FinishCancelled(r) ==
    IF r.state = "running"
    THEN [r EXCEPT !.state = "cancelled", !.outcome = "cancelled", !.marker = "none"]
    ELSE r

\* finish_success / finish_skipped: a pending request makes them match no row.
FinishUncancelled(r) == r.state = "running" /\ ~r.cancel

\* finish_committed: no guard on the request.
FinishCommitted(r, once) ==
    IF r.state = "running" THEN SucceededRow(r, once) ELSE r

\* finish_failure's WHERE clause: a request blocks it unless the marker is set.
FailureMatches(r) ==
    /\ r.state \in {"running", "queued", "succeeded"}
    /\ ~r.cancel \/ r.marker # "none"

\* finish_failure's SET clause: back to the queue with a later due time, or failed.
FailedRow(r, retry) ==
    IF retry
    THEN [Settled(r, "queued", "failed") EXCEPT !.due = "later"]
    ELSE Settled(r, "failed", "failed")

\* finish_failure followed by the runner's finish_cancelled when it matched no row.
FinishFailure(r, retry) ==
    IF FailureMatches(r) THEN FailedRow(r, retry) ELSE FinishCancelled(r)

(***************************************************************************)
(* JobRunner::apply_execution: the terminal write of an execution, and      *)
(* finish_cancelled in its place when the write reports that a request won. *)
(* A retryable failure is queued again while the attempt is within budget.  *)
(***************************************************************************)
ApplyExecution(r, execution, retry, once) ==
    CASE execution = "Succeeded" ->
            IF FinishUncancelled(r) THEN SucceededRow(r, once) ELSE FinishCancelled(r)
      [] execution = "Committed" -> FinishCommitted(r, once)
      [] execution = "Failed"    -> FinishFailure(r, retry)
      [] execution = "Skipped"   ->
            IF FinishUncancelled(r) THEN Settled(r, "queued", "skipped") ELSE FinishCancelled(r)
      [] OTHER -> FinishCancelled(r)
=============================================================================
