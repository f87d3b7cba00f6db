-------------------------- MODULE ConnectorRefresh --------------------------
(***************************************************************************)
(* The scheduled refresh of bank connections.                               *)
(*                                                                          *)
(* A provider fetch takes seconds to minutes, so this sweep, unlike the one *)
(* of JobSweep, does not keep the vault controller's lock: it claims all    *)
(* due rows under the lock, then works on one connection after the other,   *)
(* taking the lock for each short section only.  Between two sections the   *)
(* user can lock the vault, unlock it again (a second task starts, recovers *)
(* the rows the first one still works on, and claims them), switch to       *)
(* another vault, forget the connection, refresh it by hand, or ask for the *)
(* run to be cancelled.  What keeps the tasks apart is the in-flight slot   *)
(* of a connection, and what makes a cancellation truthful is the look at   *)
(* the request inside the section that commits.                             *)
(*                                                                          *)
(* An action that needs the controller's lock and completes under it is one *)
(* step; the commit section, whose writes are separate transactions, is     *)
(* several steps during which nobody else gets the lock.                    *)
(***************************************************************************)
EXTENDS JobStore, FiniteSets

CONSTANTS
    Conns,        \* connection ids, each with its own refresh job
    Vaults,       \* vault paths the controller can point at
    Home,         \* the vault that holds the connections
    MaxAttempts,  \* REFRESH_MAX_ATTEMPTS
    MaxUnlocks,   \* bound: how many times a vault is unlocked
    Faults        \* "lost": a provider thread dies; "write": a write fails

ASSUME RefreshAssumption ==
    /\ Home \in Vaults
    /\ MaxAttempts \in Nat \ {0}
    /\ MaxUnlocks \in Nat
    /\ Faults \subseteq {"lost", "write"}

VARIABLES
    row,     \* the durable_jobs rows of the connections, in Home's database
    conn,    \* the connection: not linked yet, live, or forgotten for good
    mapped,  \* connections with an account mapped to them
    recent,  \* last_synced_at against the job's interval
    path,    \* the vault the controller points at
    open,    \* whether it is unlocked
    window,  \* number of unlocks so far
    task,    \* the post-unlock task of each window
    slot,    \* connector_syncs_in_flight
    orphan,  \* connections with an abandoned provider call that has not ended
    manual,  \* connections walked by a manual sync
    effect   \* what the run of each row's latest claim wrote (history)

vars == <<row, conn, mapped, recent, path, open, window, task, slot, orphan, manual, effect>>
controller == <<path, open, window>>
walks == <<slot, orphan, manual>>

Windows == 1..MaxUnlocks

\* Steps that need no lock or take it for one section, and the commit section's steps.
ShortSteps == {"none", "sweep", "claim", "next", "bind", "links", "credential", "fetch",
               "commit", "ingestfail", "check", "record", "seam"}
CommitSteps == {"writelinks", "writebatch", "stamp"}

\* Locals of run_due_connector_refresh and connector_sync_inner.
Task ==
    [pc: ShortSteps \union CommitSteps, todo: SUBSET Conns, refreshable: SUBSET Conns,
     lastTry: SUBSET Conns, job: Conns \union {"none"}, walk: {"none", "discover", "sync"},
     bound: Vaults, exec: JobExecution]

\* No task, or one that has ended.
Ended ==
    [pc |-> "none", todo |-> {}, refreshable |-> {}, lastTry |-> {}, job |-> "none",
     walk |-> "none", bound |-> Home, exec |-> "none"]

\* "old" and "new" are within the interval; "old" was stamped before the due time was set.
Recency == {"never", "stale", "old", "new"}
Fresh(c) == recent[c] \in {"old", "new"}

HomeOpen == open /\ path = Home
Live(c) == HomeOpen /\ conn[c] = "live"

\* A task inside its commit section holds the controller's lock.
LockFree == \A w \in Windows : task[w].pc \notin CommitSteps

At(w, step) == task[w].pc = step
Goto(w, step) == task' = [task EXCEPT ![w].pc = step]

\* A due time computed from now: an earlier stamp will have aged when it is reached.
Aged(after) ==
    [c \in Conns |-> IF after[c].state = "succeeded" /\ row[c].state # "succeeded"
                        /\ recent[c] = "new"
                     THEN "old" ELSE recent[c]]

Init ==
    /\ row = [c \in Conns |-> AbsentRow]
    /\ conn \in [Conns -> {"new", "live"}]
    /\ mapped = {}
    /\ recent = [c \in Conns |-> "never"]
    /\ path = Home
    /\ open = FALSE
    /\ window = 0
    /\ task = [w \in Windows |-> Ended]
    /\ slot = {}
    /\ orphan = {}
    /\ manual = {}
    /\ effect = [c \in Conns |-> "none"]

-----------------------------------------------------------------------------
(* The user and the host. *)

\* Every unlock, of any vault, spawns a task that works on whichever vault is open.
Unlock ==
    /\ ~open
    /\ window < MaxUnlocks
    /\ open' = TRUE
    /\ window' = window + 1
    /\ task' = [task EXCEPT ![window + 1].pc = "sweep"]
    /\ UNCHANGED <<row, conn, mapped, recent, path, walks, effect>>

Lock ==
    /\ open
    /\ LockFree
    /\ window < MaxUnlocks
    /\ open' = FALSE
    /\ UNCHANGED <<row, conn, mapped, recent, path, window, task, walks, effect>>

\* The vault is locked first, then the controller points at another one.
SwitchVault(v) ==
    /\ LockFree
    /\ v # path
    /\ path' = v
    /\ open' = FALSE
    /\ UNCHANGED <<row, conn, mapped, recent, window, task, walks, effect>>

\* The process dies, possibly between forgetting a connection and removing its job.
Crash ==
    /\ open
    /\ window < MaxUnlocks
    /\ \/ UNCHANGED <<conn, recent>>
       \/ \E c \in Conns : /\ Live(c)
                          /\ LockFree
                          /\ conn' = [conn EXCEPT ![c] = "forgotten"]
                          /\ recent' = [recent EXCEPT ![c] = "never"]
    /\ path' = Home
    /\ open' = FALSE
    /\ task' = [w \in Windows |-> Ended]
    /\ slot' = {}
    /\ orphan' = {}
    /\ manual' = {}
    /\ UNCHANGED <<row, mapped, window, effect>>

\* A new connection gets its job, due at once.
Link(c) ==
    /\ HomeOpen
    /\ LockFree
    /\ conn[c] = "new"
    /\ conn' = [conn EXCEPT ![c] = "live"]
    /\ row' = [row EXCEPT ![c] = NewRow(TRUE, "now")]
    /\ UNCHANGED <<mapped, recent, controller, task, walks, effect>>

\* The connection is tombstoned and its job removed, unless the row is running.
Forget(c) ==
    /\ Live(c)
    /\ LockFree
    /\ conn' = [conn EXCEPT ![c] = "forgotten"]
    /\ row' = [row EXCEPT ![c] = DeleteRow(@)]
    /\ recent' = [recent EXCEPT ![c] = "never"]
    /\ UNCHANGED <<mapped, controller, task, walks, effect>>

MapAccount(c) ==
    /\ Live(c)
    /\ LockFree
    /\ c \notin mapped
    /\ mapped' = mapped \union {c}
    /\ UNCHANGED <<row, conn, recent, controller, task, walks, effect>>

\* A new cadence is due at once; under a longer interval an old stamp is recent again.
SetCadence(c, enabled) ==
    /\ Live(c)
    /\ LockFree
    /\ row[c].state # "running"
    /\ row' = [row EXCEPT ![c] = ReconfigureRow(@, enabled, "now")]
    /\ recent' \in {[recent EXCEPT ![c] = r] :
                      r \in IF recent[c] = "never" THEN {"never"} ELSE {"stale", "new"}}
    /\ UNCHANGED <<conn, mapped, controller, task, walks, effect>>

\* A request that does not wait for the controller's lock.
CancelJob_NoLock(c) ==
    /\ HomeOpen
    /\ CancelRow(row[c]) # row[c]
    /\ row' = [row EXCEPT ![c] = CancelRow(@)]
    /\ UNCHANGED <<conn, mapped, recent, controller, task, walks, effect>>

\* Requesting a cancellation takes the controller's lock.
CancelJob(c) ==
    /\ HomeOpen
    /\ LockFree
    /\ CancelRow(row[c]) # row[c]
    /\ row' = [row EXCEPT ![c] = CancelRow(@)]
    /\ UNCHANGED <<conn, mapped, recent, controller, task, walks, effect>>

\* The row's due time is reached; a stamp older than it is no longer recent then.
TimePasses(c) ==
    /\ row[c].due = "later"
    /\ row' = [row EXCEPT ![c].due = "now"]
    /\ recent' = [recent EXCEPT ![c] =
                    IF row[c].state = "succeeded" /\ @ = "old" THEN "stale" ELSE @]
    /\ UNCHANGED <<conn, mapped, controller, task, walks, effect>>

StampAges(c) ==
    /\ Fresh(c)
    /\ recent' = [recent EXCEPT ![c] = "stale"]
    /\ UNCHANGED <<row, conn, mapped, controller, task, walks, effect>>

\* A manual sync walks with the slot taken and no job.
ManualStart(c) ==
    /\ Live(c)
    /\ LockFree
    /\ c \notin slot
    /\ slot' = slot \union {c}
    /\ manual' = manual \union {c}
    /\ UNCHANGED <<row, conn, mapped, recent, controller, task, orphan, effect>>

\* It stamps the connection if that still exists in the open vault, or it fails.
ManualEnd(c) ==
    /\ c \in manual
    /\ LockFree
    /\ manual' = manual \ {c}
    /\ slot' = slot \ {c}
    /\ \/ UNCHANGED recent
       \/ Live(c) /\ recent' = [recent EXCEPT ![c] = "new"]
    /\ UNCHANGED <<row, conn, mapped, controller, task, orphan, effect>>

-----------------------------------------------------------------------------
(* The task: recovery, claim, and the choice of the next connection. *)

\* The durable-job sweep of the task: for these rows, its recovery of what was left running.
PostUnlockSweep(w) ==
    /\ At(w, "sweep")
    /\ LockFree
    /\ row' = IF HomeOpen THEN [c \in Conns |-> RecoverRow(row[c], FALSE)] ELSE row
    /\ recent' = Aged(row')
    /\ Goto(w, "claim")
    /\ UNCHANGED <<conn, mapped, controller, walks, effect>>

\* A connection without a job gets one before the claim.
Backfilled ==
    [c \in Conns |-> IF conn[c] = "live" /\ row[c].state = "absent"
                     THEN NewRow(TRUE, "now") ELSE row[c]]

\* Exhausted rows fail for good; the others are claimed, all under one lock.
Claim(w) ==
    /\ At(w, "claim")
    /\ LockFree
    /\ IF HomeOpen
       THEN LET rows == Backfilled
                due == {c \in Conns : DueRow(rows[c], w)}
                spent == {c \in due : rows[c].attempts + 1 > MaxAttempts}
                got == due \ spent
            IN /\ row' = [c \in Conns |->
                            IF c \in spent THEN FinishFailure(rows[c], FALSE)
                            ELSE IF c \in got THEN ClaimedRow(rows[c], rows[c].attempts + 1, w)
                            ELSE rows[c]]
               /\ effect' = [c \in Conns |-> IF c \in got THEN "none" ELSE effect[c]]
               /\ task' = [task EXCEPT ![w] =
                    [Ended EXCEPT !.pc = "next", !.todo = got,
                       !.refreshable = {c \in got : conn[c] = "live" /\ ~Fresh(c)},
                       !.lastTry = {c \in got : rows[c].attempts + 1 = MaxAttempts}]]
       ELSE /\ task' = [task EXCEPT ![w] = Ended]
            /\ UNCHANGED <<row, effect>>
    /\ UNCHANGED <<conn, mapped, recent, controller, walks>>

SweepEnds(w) ==
    /\ At(w, "next")
    /\ task[w].todo = {}
    /\ task' = [task EXCEPT ![w] = Ended]
    /\ UNCHANGED <<row, conn, mapped, recent, controller, walks, effect>>

\* refresh_one up to the slot, from what was read at the claim: an unknown or recently
\* refreshed connection is skipped, one that is being walked counts as done.
Decide(w, c) ==
    LET chosen == [task[w] EXCEPT !.todo = @ \ {c}, !.job = c, !.walk = "none",
                                  !.bound = Home, !.exec = "none"]
    IN /\ At(w, "next")
       /\ c \in task[w].todo
       /\ IF c \notin task[w].refreshable
          THEN /\ task' = [task EXCEPT ![w] = [chosen EXCEPT !.pc = "seam", !.exec = "Skipped"]]
               /\ UNCHANGED slot
          ELSE IF c \in slot
          THEN /\ task' = [task EXCEPT ![w] = [chosen EXCEPT !.pc = "seam", !.exec = "Succeeded"]]
               /\ UNCHANGED slot
          ELSE /\ task' = [task EXCEPT ![w] = [chosen EXCEPT !.pc = "bind"]]
               /\ slot' = slot \union {c}
       /\ UNCHANGED <<row, conn, mapped, recent, controller, orphan, manual, effect>>

-----------------------------------------------------------------------------
(* One connection: connector_sync_inner. *)

Job(w) == task[w].job

\* Every return releases the slot.
Return(w, execution) ==
    /\ task' = [task EXCEPT ![w].pc = "seam", ![w].exec = execution]
    /\ slot' = slot \ {Job(w)}

\* Only a run whose claim still holds the row counts as that row's run.
Wrote(w, what) ==
    effect' = IF row[Job(w)].window = w /\ row[Job(w)].state = "running"
              THEN [effect EXCEPT ![Job(w)] = what] ELSE effect

\* with_vault_bound: the vault that was active when the sync started, and unlocked.
BoundOpen(w) == open /\ path = task[w].bound

BindVault(w) ==
    /\ At(w, "bind")
    /\ LockFree
    /\ task' = [task EXCEPT ![w].pc = "links", ![w].bound = path]
    /\ UNCHANGED <<row, conn, mapped, recent, controller, walks, effect>>

\* Without a mapped account the sync only discovers accounts.
ReadLinks(w) ==
    /\ At(w, "links")
    /\ LockFree
    /\ IF Live(Job(w))
       THEN /\ task' = [task EXCEPT ![w].pc = "credential",
                          ![w].walk = IF Job(w) \in mapped THEN "sync" ELSE "discover"]
            /\ UNCHANGED slot
       ELSE Return(w, "Failed")
    /\ UNCHANGED <<row, conn, mapped, recent, controller, orphan, manual, effect>>

ReadCredential(w) ==
    /\ At(w, "credential")
    /\ LockFree
    /\ IF Live(Job(w))
       THEN Goto(w, "fetch") /\ UNCHANGED slot
       ELSE Return(w, "Failed")
    /\ UNCHANGED <<row, conn, mapped, recent, controller, orphan, manual, effect>>

\* The provider answers with data or with an error, or its thread dies.
FetchEnds(w) ==
    /\ At(w, "fetch")
    /\ \/ \E step \in {"commit", "check"} : Goto(w, step) /\ UNCHANGED slot
       \/ "lost" \in Faults /\ Return(w, "Failed")
    /\ UNCHANGED <<row, conn, mapped, recent, controller, orphan, manual, effect>>

\* An abandoned fetch whose caller releases the slot on its way out.
Abandon_FreesSlot(w) ==
    /\ At(w, "fetch")
    /\ LockFree
    /\ HomeOpen
    /\ row[Job(w)].cancel
    /\ Return(w, "Cancelled")
    /\ orphan' = orphan \union {Job(w)}
    /\ UNCHANGED <<row, conn, mapped, recent, controller, manual, effect>>

\* A request seen while waiting: the call is abandoned and keeps the slot until it ends.
Abandon(w) ==
    /\ At(w, "fetch")
    /\ LockFree
    /\ HomeOpen
    /\ row[Job(w)].cancel
    /\ task' = [task EXCEPT ![w].pc = "seam", ![w].exec = "Cancelled"]
    /\ orphan' = orphan \union {Job(w)}
    /\ UNCHANGED <<row, conn, mapped, recent, controller, slot, manual, effect>>

\* An abandoned call whose thread does not release the slot.
OrphanEnds_KeepsSlot(c) ==
    /\ c \in orphan
    /\ orphan' = orphan \ {c}
    /\ UNCHANGED <<row, conn, mapped, recent, controller, task, slot, manual, effect>>

\* EndGuard: the abandoned call's own thread releases the slot.
OrphanEnds(c) ==
    /\ c \in orphan
    /\ orphan' = orphan \ {c}
    /\ slot' = slot \ {c}
    /\ UNCHANGED <<row, conn, mapped, recent, controller, task, manual, effect>>

\* An error of the commit section: a sync records it on the connection's health first.
SectionFails(w) ==
    IF task[w].walk = "sync"
    THEN Goto(w, "ingestfail") /\ UNCHANGED slot
    ELSE Return(w, "Failed")

\* The commit section that does not check that the connection still exists.
CommitStart_AnyConnection(w) ==
    /\ At(w, "commit")
    /\ LockFree
    /\ IF ~BoundOpen(w) THEN SectionFails(w)
       ELSE IF row[Job(w)].cancel THEN Return(w, "Cancelled")
       ELSE Goto(w, "writelinks") /\ UNCHANGED slot
    /\ UNCHANGED <<row, conn, mapped, recent, controller, orphan, manual, effect>>

\* The commit section begins: right vault, connection still there, no request.
CommitStart(w) ==
    /\ At(w, "commit")
    /\ LockFree
    /\ IF ~BoundOpen(w) \/ ~Live(Job(w)) THEN SectionFails(w)
       ELSE IF row[Job(w)].cancel THEN Return(w, "Cancelled")
       ELSE Goto(w, "writelinks") /\ UNCHANGED slot
    /\ UNCHANGED <<row, conn, mapped, recent, controller, orphan, manual, effect>>

\* The accounts the provider names (a write only when something changed); a discovery
\* also clears the connection's error and ends here.
WriteLinks(w) ==
    /\ At(w, "writelinks")
    /\ \/ /\ \/ Wrote(w, "links")
             \/ IF task[w].walk = "discover" THEN Wrote(w, "health") ELSE UNCHANGED effect
          /\ IF task[w].walk = "discover" THEN Return(w, "Committed")
             ELSE Goto(w, "writebatch") /\ UNCHANGED slot
       \/ /\ "write" \in Faults
          /\ SectionFails(w)
          /\ \/ Wrote(w, "links")
             \/ UNCHANGED effect
    /\ UNCHANGED <<row, conn, mapped, recent, controller, orphan, manual>>

\* The import: its first transaction sets the row's marker, a later one may fail.
WriteBatch(w) ==
    /\ At(w, "writebatch")
    /\ \/ /\ row' = [row EXCEPT ![Job(w)] = MarkRow(@, "succeeded")]
          /\ Wrote(w, "batch")
          /\ \/ Goto(w, "stamp") /\ UNCHANGED slot
             \/ "write" \in Faults /\ SectionFails(w)
       \/ /\ "write" \in Faults
          /\ SectionFails(w)
          /\ UNCHANGED <<row, effect>>
    /\ UNCHANGED <<conn, mapped, recent, controller, orphan, manual>>

\* Watermarks, last_synced_at and the notice.
Stamp(w) ==
    /\ At(w, "stamp")
    /\ \/ /\ recent' = [recent EXCEPT ![Job(w)] = "new"]
          /\ Return(w, "Committed")
       \/ /\ "write" \in Faults
          /\ SectionFails(w)
          /\ UNCHANGED recent
    /\ UNCHANGED <<row, conn, mapped, controller, orphan, manual, effect>>

\* What a failed sync leaves on the connection's health, unless it wrote more before.
Health(w) ==
    IF Live(Job(w)) /\ effect[Job(w)] = "none" THEN Wrote(w, "health") ELSE UNCHANGED effect

RecordIngestFailure(w) ==
    /\ At(w, "ingestfail")
    /\ LockFree
    /\ IF BoundOpen(w) THEN Health(w) ELSE UNCHANGED effect
    /\ Return(w, "Failed")
    /\ UNCHANGED <<row, conn, mapped, recent, controller, orphan, manual>>

\* A provider error: a request seen now, in a section of its own, ends the run ...
LookBeforeFailure(w) ==
    /\ At(w, "check")
    /\ LockFree
    /\ IF HomeOpen /\ row[Job(w)].cancel
       THEN Return(w, "Cancelled")
       ELSE Goto(w, "record") /\ UNCHANGED slot
    /\ UNCHANGED <<row, conn, mapped, recent, controller, orphan, manual, effect>>

\* The provider error recorded before the request is looked at.
RecordProviderFailure_LooksAfter(w) ==
    /\ At(w, "record")
    /\ LockFree
    /\ IF BoundOpen(w) THEN Health(w) ELSE UNCHANGED effect
    /\ Return(w, IF HomeOpen /\ row[Job(w)].cancel THEN "Cancelled" ELSE "Committed")
    /\ UNCHANGED <<row, conn, mapped, recent, controller, orphan, manual>>

\* ... or the error is recorded in the next section: a network error does not stamp the
\* connection, every other one does.
RecordProviderFailure(w) ==
    /\ At(w, "record")
    /\ LockFree
    /\ \/ /\ BoundOpen(w)
          /\ Health(w)
          /\ \/ UNCHANGED recent
             \/ Live(Job(w)) /\ recent' = [recent EXCEPT ![Job(w)] = "new"]
          /\ \/ Return(w, "Committed")
             \/ "write" \in Faults /\ Return(w, "Failed")
       \/ /\ ~BoundOpen(w) \/ "write" \in Faults
          /\ Return(w, "Failed")
          /\ UNCHANGED <<recent, effect>>
    /\ UNCHANGED <<row, conn, mapped, controller, orphan, manual>>

\* The outcome is recorded by the job's id.  In a locked vault the whole sweep ends with an
\* error; in another vault the statement matches no row.
Finish(w) ==
    /\ At(w, "seam")
    /\ LockFree
    /\ row' = IF HomeOpen
              THEN [row EXCEPT ![Job(w)] =
                      ApplyExecution(@, task[w].exec, Job(w) \notin task[w].lastTry, FALSE)]
              ELSE row
    /\ recent' = Aged(row')
    /\ task' = [task EXCEPT ![w] =
                  IF open THEN [@ EXCEPT !.pc = "next", !.job = "none", !.walk = "none",
                                         !.bound = Home, !.exec = "none"]
                  ELSE Ended]
    /\ UNCHANGED <<conn, mapped, controller, walks, effect>>

-----------------------------------------------------------------------------
UserStep ==
    \/ Unlock
    \/ Lock
    \/ Crash
    \/ \E v \in Vaults : SwitchVault(v)
    \/ \E c \in Conns : Link(c)
    \/ \E c \in Conns : Forget(c)
    \/ \E c \in Conns : MapAccount(c)
    \/ \E c \in Conns, enabled \in BOOLEAN : SetCadence(c, enabled)
    \/ \E c \in Conns : CancelJob(c)
    \/ \E c \in Conns : TimePasses(c)
    \/ \E c \in Conns : StampAges(c)
    \/ \E c \in Conns : ManualStart(c)

TaskStep(w) ==
    \/ PostUnlockSweep(w)
    \/ Claim(w)
    \/ SweepEnds(w)
    \/ \E c \in Conns : Decide(w, c)
    \/ BindVault(w)
    \/ ReadLinks(w)
    \/ ReadCredential(w)
    \/ FetchEnds(w)
    \/ Abandon(w)
    \/ CommitStart(w)
    \/ WriteLinks(w)
    \/ WriteBatch(w)
    \/ Stamp(w)
    \/ RecordIngestFailure(w)
    \/ LookBeforeFailure(w)
    \/ RecordProviderFailure(w)
    \/ Finish(w)

Next ==
    \/ UserStep
    \/ \E w \in Windows : TaskStep(w)
    \/ \E c \in Conns : OrphanEnds(c)
    \/ \E c \in Conns : ManualEnd(c)

Spec == Init /\ [][Next]_vars

(***************************************************************************)
(* A task's thread, an abandoned call's thread and a manual sync's thread   *)
(* keep running while the process lives (a provider call ends, by answer or *)
(* by its transport's timeout), and a locked vault is unlocked again within *)
(* the bound.  Nothing is assumed of any other step of the user.            *)
(***************************************************************************)
Fairness ==
    /\ \A w \in Windows : WF_vars(TaskStep(w))
    /\ \A c \in Conns : WF_vars(OrphanEnds(c)) /\ WF_vars(ManualEnd(c))
    /\ WF_vars(Unlock)

FairSpec == Spec /\ Fairness

-----------------------------------------------------------------------------
(* Properties. *)

\* Tasks that are inside connector_sync_inner for a connection, slot taken.
Walkers(c) ==
    {w \in Windows : /\ task[w].job = c
                     /\ task[w].pc \notin {"none", "sweep", "claim", "next", "seam"}}

(***************************************************************************)
(* "One sync per connection still holds" (ADR 0060, addendum 2026-10-31,    *)
(* decision 3): a task's walk, an abandoned call that has not ended and a   *)
(* manual sync never overlap on a connection, across re-unlocks while a     *)
(* fetch is in flight, cancellations and vault switches.                    *)
(***************************************************************************)
OneWalkPerConnection ==
    \A c \in Conns :
        Cardinality(Walkers(c)) + (IF c \in orphan THEN 1 ELSE 0)
                                + (IF c \in manual THEN 1 ELSE 0) <= 1

(***************************************************************************)
(* connector_sync_scheduled_impl: "nothing is written for a run that ends   *)
(* Cancelled", whichever of the three looks at the request ended it.        *)
(***************************************************************************)
CancelledRunWroteNothing ==
    \A w \in Windows :
        task[w].pc = "seam" /\ task[w].exec = "Cancelled" /\ row[task[w].job].window = w
            => effect[task[w].job] = "none"

(***************************************************************************)
(* The commit section writes only to the vault the sync started in, while   *)
(* it is open, and only for a connection that still exists: the walk took   *)
(* minutes, and lock, switch and forget were all possible during it.        *)
(***************************************************************************)
CommitHoldsVault ==
    \A w \in Windows :
        task[w].pc \in CommitSteps =>
            /\ open
            /\ path = task[w].bound
            /\ path = Home
            /\ conn[task[w].job] = "live"

(***************************************************************************)
(* The commit is the linearization point (rule 3 of the job-runtime crate): *)
(* once a request is on the row of a run that has written nothing, that run *)
(* writes no account and no transaction.  A provider error may still be     *)
(* recorded (ADR 0060, decision 7).                                         *)
(***************************************************************************)
RequestStopsCommit ==
    [][\A c \in Conns :
          row[c].state = "running" /\ row[c].cancel /\ effect[c] = "none"
              => effect'[c] \in {"none", "health"}]_vars

Holders(c) ==
    {w \in Windows : c \in task[w].todo \/ (task[w].job = c /\ task[w].pc # "next")}

(***************************************************************************)
(* A run that imported is never recorded as cancelled, by its own outcome   *)
(* or by the recovery after a crash, unless a task still holds the row by a *)
(* claim that was taken over: such a task writes its own outcome by the     *)
(* job's id, over the run of the later claim.                               *)
(***************************************************************************)
LedgerRunNeverCancelled ==
    [][\A c \in Conns :
          (/\ row[c].state = "running"
           /\ row'[c].state = "cancelled"
           /\ \A w \in Holders(c) : row[c].window = w) => effect[c] # "batch"]_vars

\* A row never stays running: the task records its outcome, or a later unlock recovers it.
NoRowStuckRunning ==
    \A c \in Conns : row[c].state = "running" ~> row[c].state # "running"

\* The slot of a connection is always released, also by a call that was abandoned.
SlotFreed == \A c \in Conns : c \in slot ~> c \notin slot
=============================================================================
