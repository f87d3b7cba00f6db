------------------------------ MODULE JobSweep ------------------------------
(***************************************************************************)
(* The post-unlock sweep of durable jobs and the scheduled backup it runs.  *)
(*                                                                          *)
(* Every unlock opens a window and spawns a task.  The task takes the vault *)
(* controller's lock, recovers the rows a crash left running, lists the due *)
(* rows and runs them one by one: claim, policy, handler with a watcher     *)
(* thread that polls the row's cancellation request, terminal write.  The   *)
(* controller's lock is held for the whole sweep, so neither a lock command *)
(* nor another sweep gets in between, but each step on the table is a       *)
(* transaction of its own: a cancellation, a change of configuration or a   *)
(* crash can fall between any two of them.                                  *)
(*                                                                          *)
(* Sources: crates/job-runtime/src/lib.rs (JobRunner), crates/db-worker     *)
(* (the table, module JobStore), crates/finance-kernel/src/backup_jobs.rs   *)
(* and apps/desktop/src-tauri/src/backup_job.rs (the handler).              *)
(***************************************************************************)
EXTENDS JobStore

CONSTANTS
    Jobs,         \* ids of the rows the sweep is responsible for
    BackupJob,    \* the one job that has a handler; the policy skips the others
    OnceJobs,     \* jobs whose schedule is Once
    MaxAttempts,  \* JobSpec.max_attempts, the same for every job
    MaxUnlocks,   \* bound: how many times the vault is unlocked
    Faults        \* which fallible calls may fail

(***************************************************************************)
(* "watch": the watcher's read of the request; "marker": the runner's read  *)
(* of the commit marker; "store": any other statement of the runner, which  *)
(* aborts the sweep; "receipt": saving the backup's receipt; "export": the  *)
(* export's own work and its file operations.                               *)
(***************************************************************************)
FaultKinds == {"watch", "marker", "store", "receipt", "export"}

ASSUME JobsAssumption ==
    /\ BackupJob \in Jobs
    /\ OnceJobs \subseteq Jobs
    /\ MaxAttempts \in Nat \ {0}
    /\ MaxUnlocks \in Nat
    /\ Faults \subseteq FaultKinds

VARIABLES
    row,      \* the durable_jobs table
    vault,    \* "locked" or "open"
    window,   \* number of unlocks so far; the last window's id
    pending,  \* windows whose task has not started its sweep
    pc,       \* where the running sweep is; "idle" when none runs
    sweepWin, \* the running sweep's window
    todo,     \* rows listed and not handled yet
    snap,     \* attempt counters as listed, the attempt numbers claims use
    cur,      \* the job being handled
    token,    \* the invocation's CancellationToken
    exec,     \* the execution to record
    file,     \* this run's item in the backup destination
    effect,   \* what the latest run of each job committed (history)
    starts    \* handler starts since the last success or new configuration (history)

table == <<row>>
runner == <<pc, sweepWin, todo, snap, cur, token, exec, file>>
host == <<vault, window, pending>>
history == <<effect, starts>>
vars == <<row, vault, window, pending, pc, sweepWin, todo, snap, cur, token, exec,
          file, effect, starts>>

\* The steps between a successful claim and the terminal write.
HandlerSteps == {"start", "assemble", "put", "stored", "readback", "look", "receipt",
                 "failreceipt", "returned"}
ClaimSteps == {"claimed", "decide"} \union HandlerSteps \union {"finish"}
Steps == {"idle", "list", "ready"} \union ClaimSteps

Once(j) == j \in OnceJobs

Init ==
    /\ row = [j \in Jobs |-> AbsentRow]
    /\ vault = "locked"
    /\ window = 0
    /\ pending = {}
    /\ pc = "idle"
    /\ sweepWin = 0
    /\ todo = {}
    /\ snap = [j \in Jobs |-> 0]
    /\ cur = BackupJob
    /\ token = FALSE
    /\ exec = "none"
    /\ file = "absent"
    /\ effect = [j \in Jobs |-> "none"]
    /\ starts = [j \in Jobs |-> 0]

-----------------------------------------------------------------------------
(* The host: unlock, lock, crash, and callers of the table. *)

\* A sweep holds the controller's lock from its first statement to its last.
ControllerFree == vault = "open" /\ pc = "idle"

\* A successful unlock opens a fresh window and spawns its task.
Unlock ==
    /\ vault = "locked"
    /\ window < MaxUnlocks
    /\ vault' = "open"
    /\ window' = window + 1
    /\ pending' = pending \union {window + 1}
    /\ UNCHANGED <<row, runner, history>>

\* Locking waits for a running sweep.
Lock ==
    /\ ControllerFree
    /\ window < MaxUnlocks
    /\ vault' = "locked"
    /\ UNCHANGED <<row, window, pending, runner, history>>

\* The process dies: the table stays, everything in memory is gone.
Crash ==
    /\ vault = "open" \/ pending # {}
    /\ window < MaxUnlocks
    /\ vault' = "locked"
    /\ pending' = {}
    /\ pc' = "idle"
    /\ todo' = {}
    /\ token' = FALSE
    /\ exec' = "none"
    /\ UNCHANGED <<row, window, sweepWin, snap, cur, file, history>>

TimePasses(j) ==
    /\ row[j].due = "later"
    /\ row' = [row EXCEPT ![j].due = "now"]
    /\ UNCHANGED <<host, runner, history>>

ScheduleJob(j, en, due) ==
    /\ ControllerFree
    /\ row' = [row EXCEPT ![j] = ScheduleRow(@, en, due)]
    /\ UNCHANGED <<host, runner, history>>

ReconfigureJob(j, en, due) ==
    /\ ControllerFree
    /\ row[j].state # "running"
    /\ row' = [row EXCEPT ![j] = ReconfigureRow(@, en, due)]
    /\ starts' = [starts EXCEPT ![j] = 0]
    /\ UNCHANGED <<host, runner, effect>>

DeleteJob(j) ==
    /\ ControllerFree
    /\ row[j].state \notin {"absent", "running"}
    /\ row' = [row EXCEPT ![j] = DeleteRow(@)]
    /\ starts' = [starts EXCEPT ![j] = 0]
    /\ UNCHANGED <<host, runner, effect>>

\* A request is one statement on the table and needs no other lock.
CancelJob(j) ==
    /\ vault = "open"
    /\ CancelRow(row[j]) # row[j]
    /\ row' = [row EXCEPT ![j] = CancelRow(@)]
    /\ UNCHANGED <<host, runner, history>>

-----------------------------------------------------------------------------
(* The sweep up to the handler. *)

\* A task that finds the vault locked ends with an error and changes nothing.
TaskFindsLocked(w) ==
    /\ w \in pending
    /\ vault = "locked"
    /\ pending' = pending \ {w}
    /\ UNCHANGED <<row, vault, window, runner, history>>

\* The sweep starts with the recovery of rows left running.
BeginSweep(w) ==
    /\ w \in pending
    /\ vault = "open"
    /\ pc = "idle"
    /\ pending' = pending \ {w}
    /\ row' = [j \in Jobs |-> RecoverRow(row[j], Once(j))]
    /\ starts' = [j \in Jobs |-> IF row'[j].state = "succeeded" THEN 0 ELSE starts[j]]
    /\ sweepWin' = w
    /\ pc' = "list"
    /\ UNCHANGED <<vault, window, todo, snap, cur, token, exec, file, effect>>

ListDue ==
    /\ pc = "list"
    /\ todo' = {j \in Jobs : DueRow(row[j], sweepWin)}
    /\ snap' = [j \in Jobs |-> row[j].attempts]
    /\ pc' = "ready"
    /\ UNCHANGED <<row, host, sweepWin, cur, token, exec, file, history>>

EndSweep ==
    /\ pc = "ready"
    /\ todo = {}
    /\ pc' = "idle"
    /\ UNCHANGED <<row, host, sweepWin, todo, snap, cur, token, exec, file, history>>

\* A row whose next attempt is past the budget fails for good, unclaimed.
ExhaustedJob(j) ==
    /\ pc = "ready"
    /\ j \in todo
    /\ snap[j] + 1 > MaxAttempts
    /\ row' = [row EXCEPT ![j] = FinishFailure(@, FALSE)]
    /\ todo' = todo \ {j}
    /\ UNCHANGED <<host, pc, sweepWin, snap, cur, token, exec, file, history>>

\* The claim, or the row has changed since it was listed and is passed over.
ClaimJob(j) ==
    /\ pc = "ready"
    /\ j \in todo
    /\ snap[j] + 1 <= MaxAttempts
    /\ todo' = todo \ {j}
    /\ IF ClaimMatches(row[j], snap[j] + 1, sweepWin)
       THEN /\ row' = [row EXCEPT ![j] = ClaimedRow(@, snap[j] + 1, sweepWin)]
            /\ effect' = [effect EXCEPT ![j] = "none"]
            /\ cur' = j
            /\ token' = FALSE
            /\ exec' = "none"
            /\ file' = "absent"
            /\ pc' = "claimed"
       ELSE UNCHANGED <<row, effect, cur, token, exec, file, pc>>
    /\ UNCHANGED <<host, sweepWin, snap, starts>>

\* A request that is already there ends the run before it starts.
CheckRequest ==
    /\ pc = "claimed"
    /\ IF row[cur].cancel
       THEN /\ row' = [row EXCEPT ![cur] = FinishCancelled(@)]
            /\ pc' = "ready"
       ELSE /\ pc' = "decide"
            /\ UNCHANGED row
    /\ UNCHANGED <<host, sweepWin, todo, snap, cur, token, exec, file, history>>

\* should_run is false: a missing handler, or backups turned off or without a folder.
PolicySkips ==
    /\ pc = "decide"
    /\ row' = [row EXCEPT ![cur] = ApplyExecution(@, "Skipped", FALSE, Once(cur))]
    /\ pc' = "ready"
    /\ UNCHANGED <<host, sweepWin, todo, snap, cur, token, exec, file, history>>

StartHandler ==
    /\ pc = "decide"
    /\ cur = BackupJob
    /\ starts' = [starts EXCEPT ![cur] = @ + 1]
    /\ pc' = "start"
    /\ UNCHANGED <<row, host, sweepWin, todo, snap, cur, token, exec, file, effect>>

\* The watcher thread sees the request, or cannot read it and stops the run.
WatcherCancels ==
    /\ pc \in HandlerSteps \ {"returned"}
    /\ ~token
    /\ row[cur].cancel \/ "watch" \in Faults
    /\ token' = TRUE
    /\ UNCHANGED <<row, host, pc, sweepWin, todo, snap, cur, exec, file, history>>

\* A statement of the runner fails and the sweep returns the error.
StoreFails ==
    /\ "store" \in Faults
    /\ pc \in {"list", "ready", "claimed", "decide", "finish"}
    /\ pc' = "idle"
    /\ todo' = {}
    /\ UNCHANGED <<row, host, sweepWin, snap, cur, token, exec, file, history>>

-----------------------------------------------------------------------------
(* The handler: the scheduled backup export. *)

Return(e) ==
    /\ exec' = e
    /\ pc' = "returned"

Goto(step) ==
    /\ pc' = step
    /\ UNCHANGED exec

ExportLeaves == UNCHANGED <<row, host, sweepWin, todo, snap, cur, token, history>>

\* The token is read before anything else; a bad schedule setting is an error.
BackupStart ==
    /\ pc = "start"
    /\ \/ token /\ Return("Cancelled")
       \/ ~token /\ Goto("assemble")
       \/ ~token /\ "export" \in Faults /\ Return("Failed")
    /\ UNCHANGED file
    /\ ExportLeaves

\* Assembling the container: stopped by a request, or failed (recorded by a receipt).
Assemble ==
    /\ pc = "assemble"
    /\ \/ token /\ Return("Cancelled")
       \/ ~token /\ Goto("put")
       \/ "export" \in Faults /\ Goto("failreceipt")
    /\ UNCHANGED file
    /\ ExportLeaves

\* Opening and writing the item: a request between two chunks removes the partial file.
Put ==
    /\ pc = "put"
    /\ \/ token /\ Return("Cancelled") /\ file' = "absent"
       \/ ~token /\ Goto("stored") /\ file' = "stored"
       \/ /\ "export" \in Faults
          /\ Goto("failreceipt")
          /\ file' \in {"absent", "partial"}
    /\ ExportLeaves

\* The look that reports the run as cancelled and leaves the item where it is.
LookAndUndo_KeepsFile(next) ==
    \/ ~token /\ Goto(next) /\ UNCHANGED file
    \/ token /\ Return("Cancelled") /\ UNCHANGED file
    \/ token /\ "export" \in Faults /\ Goto(next) /\ UNCHANGED file

\* The look after each of the three steps that follow the write: a request removes the
\* stored item, and a removal that fails lets the run go on.
LookAndUndo(next) ==
    \/ ~token /\ Goto(next) /\ UNCHANGED file
    \/ token /\ Return("Cancelled") /\ file' = "absent"
    \/ token /\ "export" \in Faults /\ Goto(next) /\ UNCHANGED file

Stored ==
    /\ pc = "stored"
    /\ LookAndUndo("readback")
    /\ ExportLeaves

\* Reading the item back and verifying it.
ReadBack ==
    /\ pc = "readback"
    /\ \/ LookAndUndo("look")
       \/ "export" \in Faults /\ Goto("failreceipt") /\ UNCHANGED file
    /\ ExportLeaves

LastLook ==
    /\ pc = "look"
    /\ LookAndUndo("receipt")
    /\ ExportLeaves

\* The receipt and the row's marker are one transaction; saving it can fail.
RecordReceipt(outcome, execution) ==
    \/ /\ row' = [row EXCEPT ![cur] = MarkRow(@, outcome)]
       /\ effect' = [effect EXCEPT ![cur] = outcome]
       /\ Return(execution)
    \/ /\ "receipt" \in Faults
       /\ Return("Failed")
       /\ UNCHANGED <<row, effect>>

VerifiedReceipt ==
    /\ pc = "receipt"
    /\ RecordReceipt("succeeded", "Committed")
    /\ UNCHANGED <<host, sweepWin, todo, snap, cur, token, file, starts>>

\* A failure's receipt is written without a look at the request.
FailureReceipt ==
    /\ pc = "failreceipt"
    /\ RecordReceipt("failed", "Failed")
    /\ UNCHANGED <<host, sweepWin, todo, snap, cur, token, file, starts>>

-----------------------------------------------------------------------------
(* The end of a run. *)

(***************************************************************************)
(* The runner's override, from the token and the marker read back from the  *)
(* table: a request wins over anything that is not committed.  A failed     *)
(* read of the marker counts as "not committed".                            *)
(***************************************************************************)
Overridden(execution, cancelled, marked) ==
    IF cancelled /\ execution # "Committed" /\ ~marked THEN "Cancelled"
    ELSE IF marked /\ execution = "Succeeded" THEN "Committed"
    ELSE execution

HandlerReturned ==
    /\ pc = "returned"
    /\ \E marked \in {row[cur].marker # "none"}
                       \union (IF "marker" \in Faults THEN {FALSE} ELSE {}) :
          exec' = Overridden(exec, token, marked)
    /\ pc' = "finish"
    /\ UNCHANGED <<row, host, sweepWin, todo, snap, cur, token, file, history>>

\* The terminal write, in the transaction that also decides a late request.
Finish ==
    /\ pc = "finish"
    /\ row' = [row EXCEPT ![cur] =
                 ApplyExecution(@, exec, row[cur].attempts < MaxAttempts, Once(cur))]
    /\ starts' = IF row'[cur].state = "succeeded" THEN [starts EXCEPT ![cur] = 0] ELSE starts
    /\ pc' = "ready"
    /\ exec' = "none"
    /\ UNCHANGED <<host, sweepWin, todo, snap, cur, token, file, effect>>

-----------------------------------------------------------------------------
HostStep ==
    \/ Unlock
    \/ Lock
    \/ Crash
    \/ \E j \in Jobs : TimePasses(j)
    \/ \E j \in Jobs : CancelJob(j)
    \/ \E j \in Jobs : DeleteJob(j)
    \/ \E j \in Jobs, en \in BOOLEAN, due \in {"later", "now"} : ScheduleJob(j, en, due)
    \/ \E j \in Jobs, en \in BOOLEAN, due \in {"later", "now"} : ReconfigureJob(j, en, due)

SweepStep ==
    \/ \E w \in pending : TaskFindsLocked(w)
    \/ \E w \in pending : BeginSweep(w)
    \/ ListDue
    \/ EndSweep
    \/ \E j \in Jobs : ExhaustedJob(j)
    \/ \E j \in Jobs : ClaimJob(j)
    \/ CheckRequest
    \/ PolicySkips
    \/ StartHandler
    \/ HandlerReturned
    \/ Finish
    \/ StoreFails

HandlerStep ==
    \/ BackupStart
    \/ Assemble
    \/ Put
    \/ Stored
    \/ ReadBack
    \/ LastLook
    \/ VerifiedReceipt
    \/ FailureReceipt

Next == HostStep \/ SweepStep \/ HandlerStep \/ WatcherCancels

Spec == Init /\ [][Next]_vars

(***************************************************************************)
(* The sweep's thread and its handler keep running while the process lives, *)
(* and the user comes back: a locked vault is unlocked again (within the    *)
(* bound).  Nothing is assumed of cancellations, configuration, time, the   *)
(* watcher, locks or crashes.                                               *)
(***************************************************************************)
Fairness == WF_vars(SweepStep) /\ WF_vars(HandlerStep) /\ WF_vars(Unlock)

FairSpec == Spec /\ Fairness

-----------------------------------------------------------------------------
(* Properties. *)

\* The type of every variable (JobRecord, JobExecution and the sweep's locals).
TypeOK ==
    /\ row \in [Jobs -> JobRecord]
    /\ vault \in {"locked", "open"}
    /\ window \in 0..MaxUnlocks
    /\ pending \subseteq 1..MaxUnlocks
    /\ pc \in Steps
    /\ sweepWin \in 0..MaxUnlocks
    /\ todo \subseteq Jobs
    /\ snap \in [Jobs -> Nat]
    /\ cur \in Jobs
    /\ token \in BOOLEAN
    /\ exec \in JobExecution
    /\ file \in {"absent", "partial", "stored"}
    /\ effect \in [Jobs -> Marker]
    /\ starts \in [Jobs -> Nat]

(***************************************************************************)
(* "A job's recorded outcome must be true" (the rules at the head of the    *)
(* job-runtime crate): when a run's row leaves running it is cancelled only *)
(* if the run committed nothing, succeeded only if it committed a verified  *)
(* receipt, failed only if it did not, whatever the order of request,       *)
(* receipt, watcher, crash, recovery and terminal write.                    *)
(***************************************************************************)
OutcomeTrue(j) ==
    row[j].state = "running" =>
        /\ row'[j].state = "cancelled" => effect[j] = "none"
        /\ row'[j].state = "succeeded" => effect[j] = "succeeded"
        /\ row'[j].state = "failed"    => effect[j] # "succeeded"

RecordedOutcomeIsTrue == [][\A j \in Jobs : OutcomeTrue(j)]_vars

(***************************************************************************)
(* The export returns "cancelled" only with the destination as it was: no   *)
(* stored or partial item of this run is left behind, whichever of the five *)
(* looks at the token saw the request.                                      *)
(***************************************************************************)
CancelLeavesDestination ==
    pc = "returned" /\ exec = "Cancelled" => file = "absent"

(***************************************************************************)
(* The attempt budget bounds real work: between two successes (or new       *)
(* configurations) a handler is started at most MaxAttempts times, however  *)
(* often the process crashes inside a run and recovery requeues the row.    *)
(***************************************************************************)
AttemptBudget == \A j \in Jobs : starts[j] <= MaxAttempts

(***************************************************************************)
(* No two holders: while a run is between its claim and its terminal write  *)
(* nothing but its own runner moves its row out of running, so a late       *)
(* cancellation, a new configuration, a removal or another window's task    *)
(* cannot end or restart the work under it.                                 *)
(***************************************************************************)
ClaimIsHeld == pc \in ClaimSteps => row[cur].state = "running"

(***************************************************************************)
(* A request that reached a waiting row is final: a row that was cancelled  *)
(* while it waited in the sweep's list is not started, failed or recorded   *)
(* by that sweep from what it read before; only a new configuration or a    *)
(* removal ends it.                                                         *)
(***************************************************************************)
CancelIsFinal ==
    [][\A j \in Jobs :
          row[j].state = "cancelled" => row'[j].state \in {"cancelled", "queued", "absent"}]_vars

(***************************************************************************)
(* A row never stays running: every run ends in a terminal write or is      *)
(* recovered by a later unlock's sweep.                                     *)
(***************************************************************************)
NoRowStuckRunning ==
    \A j \in Jobs : row[j].state = "running" ~> row[j].state # "running"
=============================================================================
