----------------------- MODULE ConnectorRefreshProofs -----------------------
(***************************************************************************)
(* Proofs about the refresh sweep, for every set of connections and vaults, *)
(* every attempt budget, any number of unlocks (so of tasks that meet on a  *)
(* connection), with provider threads that die and writes that fail.        *)
(***************************************************************************)
EXTENDS ConnectorRefresh, FiniteSetTheorems, TLAPS

-----------------------------------------------------------------------------
(* The statements on a row, as far as the refresh depends on them. *)

\* What a statement other than the claim and the marker does to a row: it starts no run,
\* keeps the window or clears it, and keeps the marker of a run that goes on.
Tame(r, s) ==
    /\ s \in JobRecord
    /\ s.window \in {r.window, 0}
    /\ s.marker \in {"none", r.marker}
    /\ s.state = "running" => r.state = "running" /\ s.marker = r.marker

LEMMA AbsentIsRow == AbsentRow \in JobRecord /\ AbsentRow.window = 0 /\ AbsentRow.marker = "none"
  BY DEF AbsentRow, JobRecord, JobState, JobOutcome, Marker, DueTime

\* A new job's row belongs to no window, carries no marker and does not run.
LEMMA NewRowTame ==
    ASSUME NEW r \in JobRecord, NEW en \in BOOLEAN, NEW due \in DueTime
    PROVE  /\ Tame(r, NewRow(en, due))
           /\ NewRow(en, due).state = "queued"
           /\ NewRow(en, due).due = due
  BY DEF Tame, NewRow, AbsentRow, JobRecord, JobState, JobOutcome, Marker, DueTime

\* Configuration, deletion, a request and the passing of time are tame.
LEMMA ConfigurationTame ==
    ASSUME NEW r \in JobRecord, NEW en \in BOOLEAN, NEW due \in DueTime
    PROVE  /\ Tame(r, ReconfigureRow(r, en, due))
           /\ Tame(r, DeleteRow(r))
           /\ Tame(r, CancelRow(r))
           /\ Tame(r, [r EXCEPT !.due = due])
           /\ Tame(r, r)
  <1>1. Tame(r, r)
    BY DEF Tame
  <1>2. Tame(r, [r EXCEPT !.due = due])
    BY DEF Tame, JobRecord
  <1>3. Tame(r, DeleteRow(r))
    BY <1>1, AbsentIsRow DEF Tame, DeleteRow, AbsentRow
  <1>4. Tame(r, CancelRow(r))
    BY DEF Tame, CancelRow, JobRecord, JobState, JobOutcome
  <1>5. NewRow(en, due) \in JobRecord /\ NewRow(en, due).window = 0 /\ NewRow(en, due).state = "queued"
    BY NewRowTame, AbsentIsRow DEF Tame, NewRow, AbsentRow
  <1>6. [NewRow(en, due) EXCEPT !.marker = r.marker] \in JobRecord
    BY <1>5 DEF JobRecord
  <1>7. /\ [NewRow(en, due) EXCEPT !.marker = r.marker].window = 0
        /\ [NewRow(en, due) EXCEPT !.marker = r.marker].state = "queued"
        /\ [NewRow(en, due) EXCEPT !.marker = r.marker].marker = r.marker
    BY <1>5 DEF JobRecord
  <1>8. Tame(r, ReconfigureRow(r, en, due))
    BY <1>1, <1>6, <1>7 DEF Tame, ReconfigureRow
  <1> QED BY <1>1, <1>2, <1>3, <1>4, <1>8

\* A terminal write ends the run and clears the marker.
LEMMA SettledTame ==
    ASSUME NEW r \in JobRecord, NEW once, NEW outcome \in JobOutcome,
           NEW state \in JobState \ {"running"}
    PROVE  /\ Tame(r, Settled(r, state, outcome))
           /\ Settled(r, state, outcome).state = state
           /\ Tame(r, SucceededRow(r, once))
           /\ SucceededRow(r, once).state = "succeeded"
  <1>1. Tame(r, Settled(r, state, outcome)) /\ Settled(r, state, outcome).state = state
    BY DEF Tame, Settled, JobRecord, Marker
  <1>2. NextDueAfter(once) \in DueTime
    BY DEF NextDueAfter, DueTime
  <1>3. Tame(r, SucceededRow(r, once)) /\ SucceededRow(r, once).state = "succeeded"
    BY <1>2 DEF Tame, SucceededRow, Settled, JobRecord, JobState, JobOutcome, Marker
  <1> QED BY <1>1, <1>3

\* Recovery is tame, and records a cancellation only over a row without a marker.
LEMMA RecoverTame ==
    ASSUME NEW r \in JobRecord, NEW once
    PROVE  /\ Tame(r, RecoverRow(r, once))
           /\ r.state = "running" /\ RecoverRow(r, once).state = "cancelled" => r.marker = "none"
  <1>1. /\ Tame(r, Settled(r, "failed", "failed"))
        /\ Tame(r, Settled(r, "cancelled", "cancelled"))
        /\ Tame(r, SucceededRow(r, once))
        /\ Settled(r, "failed", "failed").state = "failed"
        /\ SucceededRow(r, once).state = "succeeded"
    BY SettledTame DEF JobState, JobOutcome
  <1>2. /\ Tame(r, [Settled(r, "queued", r.outcome) EXCEPT !.due = "now"])
        /\ [Settled(r, "queued", r.outcome) EXCEPT !.due = "now"].state = "queued"
    BY DEF Tame, Settled, JobRecord, JobState, Marker, DueTime
  <1>3. r.marker \in Marker
    BY DEF JobRecord
  <1>4. CASE r.state # "running"
    BY <1>4, ConfigurationTame DEF RecoverRow, DueTime
  <1>5. CASE r.state = "running" /\ r.cancel
    <2>1. CASE r.marker = "failed"
      BY <1>1, <1>5, <2>1 DEF RecoverRow
    <2>2. CASE r.marker = "succeeded"
      BY <1>1, <1>5, <2>2 DEF RecoverRow
    <2>3. CASE r.marker = "none"
      BY <1>1, <1>5, <2>3 DEF RecoverRow
    <2> QED BY <1>3, <2>1, <2>2, <2>3 DEF Marker
  <1>6. CASE r.state = "running" /\ ~r.cancel
    BY <1>2, <1>6 DEF RecoverRow
  <1> QED BY <1>4, <1>5, <1>6

LEMMA FinishFailureTame ==
    ASSUME NEW r \in JobRecord, NEW retry
    PROVE  /\ Tame(r, FinishCancelled(r))
           /\ Tame(r, FinishFailure(r, retry))
           /\ r.state = "running" /\ FinishFailure(r, retry).state = "cancelled" => r.marker = "none"
           /\ FinishFailure(r, retry).state # "running"
  <1>1. Tame(r, FinishCancelled(r)) /\ FinishCancelled(r).state # "running"
    BY DEF Tame, FinishCancelled, JobRecord, JobState, JobOutcome, Marker
  <1>2. Tame(r, Settled(r, "failed", "failed")) /\ Settled(r, "failed", "failed").state = "failed"
    BY SettledTame DEF JobState, JobOutcome
  <1>3. /\ Tame(r, [Settled(r, "queued", "failed") EXCEPT !.due = "later"])
        /\ [Settled(r, "queued", "failed") EXCEPT !.due = "later"].state = "queued"
    BY DEF Tame, Settled, JobRecord, JobState, JobOutcome, Marker, DueTime
  <1>4. CASE FailureMatches(r)
    BY <1>1, <1>2, <1>3, <1>4 DEF FinishFailure, FailedRow
  <1>5. CASE ~FailureMatches(r)
    BY <1>1, <1>5 DEF FinishFailure, FailureMatches
  <1> QED BY <1>1, <1>4, <1>5

\* The outcome of a run is tame, ends the run, and is a cancellation over a marker only when
\* the run says it was cancelled, or wrote nothing and was requested to stop.
LEMMA OutcomeTame ==
    ASSUME NEW r \in JobRecord, NEW e \in JobExecution \ {"none"}, NEW retry, NEW once
    PROVE  /\ Tame(r, ApplyExecution(r, e, retry, once))
           /\ /\ r.state = "running"
              /\ ApplyExecution(r, e, retry, once).state = "cancelled"
              => e \in {"Cancelled", "Succeeded", "Skipped"} \/ r.marker = "none"
  <1>1. /\ Tame(r, SucceededRow(r, once))
        /\ SucceededRow(r, once).state = "succeeded"
        /\ Tame(r, Settled(r, "queued", "skipped"))
        /\ Settled(r, "queued", "skipped").state = "queued"
    BY SettledTame DEF JobState, JobOutcome
  <1>2. Tame(r, FinishCancelled(r)) /\ Tame(r, r)
    BY FinishFailureTame DEF Tame
  <1>3. CASE e = "Succeeded"
    BY <1>1, <1>2, <1>3 DEF ApplyExecution
  <1>4. CASE e = "Committed"
    BY <1>1, <1>2, <1>4 DEF ApplyExecution, FinishCommitted
  <1>5. CASE e = "Failed"
    BY <1>5, FinishFailureTame DEF ApplyExecution
  <1>6. CASE e = "Skipped"
    BY <1>1, <1>2, <1>6 DEF ApplyExecution
  <1>7. CASE e = "Cancelled"
    BY <1>2, <1>7 DEF ApplyExecution
  <1> QED BY <1>3, <1>4, <1>5, <1>6, <1>7 DEF JobExecution

\* A row just claimed in window w.
Claimed(r, w) ==
    /\ r \in JobRecord
    /\ r.window = w
    /\ r.marker = "none"
    /\ r.state = "running"

\* A claim starts a run without a marker; the marker is all that the commit sets.
LEMMA ClaimAndMark ==
    ASSUME NEW r \in JobRecord, NEW n \in Nat, NEW w \in Nat
    PROVE  /\ Claimed(ClaimedRow(r, n, w), w)
           /\ MarkRow(r, "succeeded") \in JobRecord
           /\ MarkRow(r, "succeeded").window = r.window
           /\ MarkRow(r, "succeeded").state = r.state
           /\ MarkRow(r, "succeeded").cancel = r.cancel
           /\ MarkRow(r, "succeeded").marker \in {r.marker, "succeeded"}
           /\ r.state = "running" => MarkRow(r, "succeeded").marker # "none"
  BY DEF Claimed, ClaimedRow, MarkRow, JobRecord, JobState, Marker

-----------------------------------------------------------------------------
(* The invariant. *)

\* Inside connector_sync_inner.
WalkSteps ==
    {"bind", "links", "credential", "fetch", "commit", "ingestfail", "check", "record"}
        \union CommitSteps

\* Before the first write of a run, and on the ways out that only a look at the request takes.
LookSteps == {"bind", "links", "credential", "fetch", "commit", "check"}

Effects == {"none", "links", "health", "batch"}

TypeOK ==
    /\ row \in [Conns -> JobRecord]
    /\ conn \in [Conns -> {"new", "live", "forgotten"}]
    /\ mapped \subseteq Conns
    /\ recent \in [Conns -> Recency]
    /\ path \in Vaults
    /\ open \in BOOLEAN
    /\ window \in 0..MaxUnlocks
    /\ task \in [Windows -> Task]
    /\ slot \subseteq Conns
    /\ orphan \subseteq Conns
    /\ manual \subseteq Conns
    /\ effect \in [Conns -> Effects]

Walking(w) == task[w].pc \in WalkSteps

\* The slot of a connection has one owner: a walking task, an abandoned call, or a manual sync.
SlotOwned ==
    /\ orphan \subseteq slot
    /\ manual \subseteq slot
    /\ orphan \intersect manual = {}
    /\ \A w \in Windows : Walking(w) => Job(w) \in slot \ (orphan \union manual)
    /\ \A w, v \in Windows : Walking(w) /\ Walking(v) /\ Job(w) = Job(v) => w = v

\* What the commit section checked when it began stays so, since it holds the lock.
CommitHeld ==
    \A w \in Windows :
        task[w].pc \in CommitSteps =>
            /\ open
            /\ path = task[w].bound
            /\ path = Home
            /\ conn[Job(w)] = "live"
            /\ ~row[Job(w)].cancel

\* A run that has not begun to write, or ended with an outcome a request may override.
Unwritten(w) ==
    \/ task[w].pc \in LookSteps
    \/ task[w].pc = "seam" /\ task[w].exec \in {"Cancelled", "Succeeded", "Skipped"}

\* A task's claim that still holds its row wrote nothing while it is in the list or unwritten.
Honest(w) ==
    /\ task[w].pc \in WalkSteps \union {"seam"} => Job(w) \in Conns \ task[w].todo
    /\ task[w].pc = "seam" => task[w].exec # "none"
    /\ Unwritten(w) /\ row[Job(w)].window = w => effect[Job(w)] = "none"
    /\ \A c \in task[w].todo : row[c].window = w => effect[c] = "none"

\* The marker tells that the running run imported.
MarkerTrue ==
    \A c \in Conns :
        /\ row[c].marker \in {"none", "succeeded"}
        /\ row[c].state = "running" /\ effect[c] = "batch" => row[c].marker = "succeeded"

Safe ==
    /\ TypeOK
    /\ SlotOwned
    /\ CommitHeld
    /\ \A w \in Windows : Honest(w)
    /\ MarkerTrue

-----------------------------------------------------------------------------
(* Steps that leave the tasks alone. *)

\* Any row of a tame step keeps the truth of the marker.
LEMMA TameMarkers ==
    ASSUME MarkerTrue, NEW c \in Conns, Tame(row[c], row'[c]), effect'[c] = effect[c]
    PROVE  /\ row'[c].marker \in {"none", "succeeded"}
           /\ row'[c].state = "running" /\ effect'[c] = "batch" => row'[c].marker = "succeeded"
  BY DEF MarkerTrue, Tame

\* A task another actor leaves alone stays honest, when its own rows keep their effect.
LEMMA HonestKept ==
    ASSUME NEW v \in Windows, Honest(v), task'[v] = task[v], task[v] \in Task,
           \A c \in Conns : row'[c].window = v =>
               row[c].window = v /\ effect'[c] \in {effect[c], "none"}
    PROVE  Honest(v)'
  <1>1. Job(v)' = Job(v) /\ (Unwritten(v) <=> Unwritten(v)')
    BY DEF Job, Unwritten
  <1>2. task[v].todo \subseteq Conns
    BY DEF Task
  <1>3. Unwritten(v) => Job(v) \in Conns
    BY DEF Honest, Unwritten, LookSteps, WalkSteps
  <1> QED BY <1>1, <1>2, <1>3 DEF Honest

\* All of them, when no task moved and the rows moved tamely.
LEMMA StillHonest ==
    ASSUME TypeOK, \A w \in Windows : Honest(w), MarkerTrue, UNCHANGED <<task, effect>>,
           \A c \in Conns : Tame(row[c], row'[c])
    PROVE  (\A w \in Windows : Honest(w)') /\ MarkerTrue'
  <1>1. ASSUME NEW v \in Windows PROVE Honest(v)'
    <2>1. v # 0 /\ task[v] \in Task
      BY DEF Windows, TypeOK
    <2>2. \A c \in Conns : row'[c].window = v =>
              row[c].window = v /\ effect'[c] \in {effect[c], "none"}
      BY <2>1 DEF Tame
    <2> QED BY <2>1, <2>2, HonestKept
  <1>2. MarkerTrue'
    BY TameMarkers DEF MarkerTrue
  <1> QED BY <1>1, <1>2

\* The two other parts, for a step that leaves tasks and slots alone.
LEMMA StillOwned ==
    ASSUME SlotOwned, UNCHANGED <<task, slot, orphan, manual>>
    PROVE  SlotOwned'
  BY DEF SlotOwned, Walking, Job

LEMMA StillHeld ==
    ASSUME CommitHeld, UNCHANGED task, LockFree
    PROVE  CommitHeld'
  BY DEF CommitHeld, LockFree

\* A step on the row of one connection.
LEMMA OneRowTame ==
    ASSUME TypeOK, NEW c \in Conns, NEW r, Tame(row[c], r), row' = [row EXCEPT ![c] = r]
    PROVE  row' \in [Conns -> JobRecord] /\ \A d \in Conns : Tame(row[d], row'[d])
  <1>1. r \in JobRecord
    BY DEF Tame
  <1>2. \A d \in Conns : row[d] \in JobRecord /\ Tame(row[d], row[d])
    BY DEF TypeOK, Tame
  <1> QED BY <1>1, <1>2 DEF TypeOK

\* Every step of the user or the clock that changes neither tasks nor slots, under the lock.
LEMMA UserKeeps ==
    ASSUME Safe, TypeOK', UNCHANGED <<task, slot, orphan, manual, effect>>, LockFree,
           \A c \in Conns : Tame(row[c], row'[c])
    PROVE  Safe'
  <1>1. SlotOwned' /\ CommitHeld'
    BY StillOwned, StillHeld DEF Safe
  <1>2. (\A w \in Windows : Honest(w)') /\ MarkerTrue'
    BY StillHonest DEF Safe
  <1> QED BY <1>1, <1>2 DEF Safe

LEMMA RowsTame ==
    ASSUME TypeOK
    PROVE  \A c \in Conns : row[c] \in JobRecord /\ Tame(row[c], row[c])
  BY DEF TypeOK, Tame

-----------------------------------------------------------------------------
(* The user and the clock. *)

LEMMA LinkSafe == ASSUME Safe, NEW c \in Conns, Link(c) PROVE Safe'
  <1>1. /\ row' \in [Conns -> JobRecord] /\ \A d \in Conns : Tame(row[d], row'[d])
    <2>1. Tame(row[c], NewRow(TRUE, "now"))
      BY RowsTame, NewRowTame DEF Safe, DueTime
    <2> QED BY <2>1, OneRowTame DEF Safe, Link
  <1>2. TypeOK'
    BY <1>1 DEF Safe, TypeOK, Link, controller, walks
  <1> QED BY <1>1, <1>2, UserKeeps DEF Link, walks

LEMMA ForgetSafe == ASSUME Safe, NEW c \in Conns, Forget(c) PROVE Safe'
  <1>1. /\ row' \in [Conns -> JobRecord] /\ \A d \in Conns : Tame(row[d], row'[d])
    <2>1. Tame(row[c], DeleteRow(row[c]))
      BY RowsTame, ConfigurationTame DEF Safe, DueTime
    <2> QED BY <2>1, OneRowTame DEF Safe, Forget
  <1>2. TypeOK'
    BY <1>1 DEF Safe, TypeOK, Forget, controller, walks, Recency
  <1> QED BY <1>1, <1>2, UserKeeps DEF Forget, walks

LEMMA SetCadenceSafe ==
    ASSUME Safe, NEW c \in Conns, NEW enabled \in BOOLEAN, SetCadence(c, enabled) PROVE Safe'
  <1>1. /\ row' \in [Conns -> JobRecord] /\ \A d \in Conns : Tame(row[d], row'[d])
    <2>1. Tame(row[c], ReconfigureRow(row[c], enabled, "now"))
      BY RowsTame, ConfigurationTame DEF Safe, DueTime
    <2> QED BY <2>1, OneRowTame DEF Safe, SetCadence
  <1>2. recent' \in [Conns -> Recency]
    BY DEF Safe, TypeOK, SetCadence, Recency
  <1>3. TypeOK'
    BY <1>1, <1>2 DEF Safe, TypeOK, SetCadence, controller, walks
  <1> QED BY <1>1, <1>3, UserKeeps DEF SetCadence, walks

LEMMA CancelJobSafe == ASSUME Safe, NEW c \in Conns, CancelJob(c) PROVE Safe'
  <1>1. /\ row' \in [Conns -> JobRecord] /\ \A d \in Conns : Tame(row[d], row'[d])
    <2>1. Tame(row[c], CancelRow(row[c]))
      BY RowsTame, ConfigurationTame DEF Safe, DueTime
    <2> QED BY <2>1, OneRowTame DEF Safe, CancelJob
  <1>2. TypeOK'
    BY <1>1 DEF Safe, TypeOK, CancelJob, controller, walks
  <1> QED BY <1>1, <1>2, UserKeeps DEF CancelJob, walks

\* Time passes without the lock, and touches no request.
LEMMA TimePassesSafe == ASSUME Safe, NEW c \in Conns, TimePasses(c) PROVE Safe'
  <1>1. /\ row' \in [Conns -> JobRecord] /\ \A d \in Conns : Tame(row[d], row'[d])
    <2>1. Tame(row[c], [row[c] EXCEPT !.due = "now"])
      BY RowsTame, ConfigurationTame DEF Safe, DueTime
    <2>2. row' = [row EXCEPT ![c] = [row[c] EXCEPT !.due = "now"]]
      BY DEF TimePasses
    <2> QED BY <2>1, <2>2, OneRowTame DEF Safe
  <1>2. recent' \in [Conns -> Recency]
    BY DEF Safe, TypeOK, TimePasses, Recency
  <1>3. TypeOK'
    BY <1>1, <1>2 DEF Safe, TypeOK, TimePasses, controller, walks
  <1>4. SlotOwned' /\ (\A w \in Windows : Honest(w)') /\ MarkerTrue'
    BY <1>1, StillOwned, StillHonest DEF Safe, TimePasses, walks
  <1>5. \A d \in Conns : row'[d].cancel = row[d].cancel
    BY DEF TimePasses, Safe, TypeOK, JobRecord
  <1>6. \A w \in Windows : task[w].pc \in CommitSteps => Job(w) \in Conns
    BY DEF Safe, Honest, WalkSteps
  <1>7. CommitHeld'
    BY <1>5, <1>6 DEF Safe, CommitHeld, TimePasses, controller, Job
  <1> QED BY <1>3, <1>4, <1>7 DEF Safe

LEMMA MapAccountSafe == ASSUME Safe, NEW c \in Conns, MapAccount(c) PROVE Safe'
  <1>1. TypeOK' /\ \A d \in Conns : Tame(row[d], row'[d])
    BY RowsTame DEF Safe, TypeOK, MapAccount, controller, walks
  <1> QED BY <1>1, UserKeeps DEF MapAccount, walks

LEMMA StampAgesSafe == ASSUME Safe, NEW c \in Conns, StampAges(c) PROVE Safe'
  <1>1. TypeOK' /\ \A d \in Conns : Tame(row[d], row'[d])
    BY RowsTame DEF Safe, TypeOK, StampAges, controller, walks, Recency
  <1>2. SlotOwned' /\ (\A w \in Windows : Honest(w)') /\ MarkerTrue'
    BY <1>1, StillOwned, StillHonest DEF Safe, StampAges, walks
  <1>3. CommitHeld'
    BY DEF Safe, CommitHeld, StampAges, controller, Job
  <1> QED BY <1>1, <1>2, <1>3 DEF Safe

LEMMA LockSafe == ASSUME Safe, Lock PROVE Safe'
  <1>1. TypeOK' /\ \A d \in Conns : Tame(row[d], row'[d])
    BY RowsTame DEF Safe, TypeOK, Lock, walks
  <1> QED BY <1>1, UserKeeps DEF Lock, walks

LEMMA SwitchVaultSafe == ASSUME Safe, NEW v \in Vaults, SwitchVault(v) PROVE Safe'
  <1>1. TypeOK' /\ \A d \in Conns : Tame(row[d], row'[d])
    BY RowsTame DEF Safe, TypeOK, SwitchVault, walks
  <1> QED BY <1>1, UserKeeps DEF SwitchVault, walks

\* An unlock finds no commit section, since those hold the vault open.
LEMMA UnlockSafe == ASSUME Safe, Unlock PROVE Safe'
  <1>1. window + 1 \in Windows /\ window + 1 \in 0..MaxUnlocks
    BY RefreshAssumption DEF Safe, TypeOK, Unlock, Windows
  <1>2. task' = [task EXCEPT ![window + 1] = [task[window + 1] EXCEPT !.pc = "sweep"]]
    BY DEF Unlock
  <1>3. /\ [task[window + 1] EXCEPT !.pc = "sweep"] \in Task
        /\ [task[window + 1] EXCEPT !.pc = "sweep"].pc = "sweep"
        /\ [task[window + 1] EXCEPT !.pc = "sweep"].todo = task[window + 1].todo
    <2>1. task[window + 1] \in Task
      BY <1>1 DEF Safe, TypeOK
    <2> QED BY <2>1 DEF Task, ShortSteps
  <1>4. /\ task' \in [Windows -> Task]
        /\ task'[window + 1].pc = "sweep"
        /\ task'[window + 1].todo = task[window + 1].todo
        /\ \A v \in Windows \ {window + 1} : task'[v] = task[v]
    BY <1>1, <1>2, <1>3 DEF Safe, TypeOK
  <1>5. TypeOK'
    BY <1>1, <1>4 DEF Safe, TypeOK, Unlock, walks
  <1>6. SlotOwned'
    BY <1>4 DEF Safe, SlotOwned, Walking, Job, WalkSteps, CommitSteps, Unlock, walks
  <1>7. CommitHeld'
    BY <1>4 DEF Safe, CommitHeld, CommitSteps, Unlock
  <1>8. ASSUME NEW v \in Windows PROVE Honest(v)'
    <2>1. CASE v = window + 1
      BY <1>4, <2>1 DEF Safe, Honest, Unwritten, WalkSteps, LookSteps, CommitSteps, Unlock
    <2>2. CASE v # window + 1
      BY <1>4, <2>2, HonestKept DEF Safe, TypeOK, Unlock
    <2> QED BY <2>1, <2>2
  <1>9. MarkerTrue'
    BY DEF Safe, MarkerTrue, Unlock
  <1> QED BY <1>5, <1>6, <1>7, <1>8, <1>9 DEF Safe

LEMMA EndedIsTask == Ended \in Task /\ Ended.pc = "none" /\ Ended.todo = {}
  BY RefreshAssumption DEF Ended, Task, ShortSteps, JobExecution

\* A crash ends every task, abandoned call and manual sync, and empties the slots.
LEMMA CrashSafe == ASSUME Safe, Crash PROVE Safe'
  <1>1. conn' \in [Conns -> {"new", "live", "forgotten"}] /\ recent' \in [Conns -> Recency]
    BY DEF Crash, Safe, TypeOK, Recency
  <1>2. TypeOK'
    BY <1>1, EndedIsTask, RefreshAssumption DEF Crash, Safe, TypeOK
  <1>3. \A w \in Windows : task'[w] = Ended
    BY DEF Crash
  <1>4. SlotOwned' /\ CommitHeld' /\ \A w \in Windows : Honest(w)'
    BY <1>3, EndedIsTask
    DEF SlotOwned, CommitHeld, Honest, Unwritten, Walking, WalkSteps, LookSteps, CommitSteps, Crash
  <1>5. MarkerTrue'
    BY DEF Safe, MarkerTrue, Crash
  <1> QED BY <1>2, <1>4, <1>5 DEF Safe

\* A manual sync takes a free slot and gives its own back.
LEMMA ManualSafe ==
    ASSUME Safe, NEW c \in Conns, ManualStart(c) \/ ManualEnd(c) \/ OrphanEnds(c) PROVE Safe'
  <1>1. UNCHANGED <<row, conn, mapped, path, open, window, task, effect>>
    BY DEF ManualStart, ManualEnd, OrphanEnds, controller
  <1>2. recent' \in [Conns -> Recency]
    BY DEF ManualStart, ManualEnd, OrphanEnds, Safe, TypeOK, Recency
  <1>3. TypeOK'
    BY <1>1, <1>2 DEF ManualStart, ManualEnd, OrphanEnds, Safe, TypeOK
  <1>4. SlotOwned'
    BY <1>1 DEF ManualStart, ManualEnd, OrphanEnds, Safe, SlotOwned, Walking, Job
  <1>5. (\A w \in Windows : Honest(w)') /\ MarkerTrue'
    BY <1>1, RowsTame, StillHonest DEF Safe
  <1>6. CommitHeld'
    BY <1>1 DEF Safe, CommitHeld, Job
  <1> QED BY <1>3, <1>4, <1>5, <1>6 DEF Safe

-----------------------------------------------------------------------------
(* How a step moves its task. *)

Steps == ShortSteps \union CommitSteps

\* Task w goes to step s; its list, its connection and the other tasks stay as they are.
Moves(w, s) ==
    /\ task' \in [Windows -> Task]
    /\ \A v \in Windows \ {w} : task'[v] = task[v]
    /\ task'[w].pc = s
    /\ task'[w].todo = task[w].todo
    /\ task'[w].job = task[w].job

LEMMA GotoMoves ==
    ASSUME TypeOK, NEW w \in Windows, NEW s \in Steps, Goto(w, s)
    PROVE  Moves(w, s) /\ task'[w].exec = task[w].exec /\ task'[w].bound = task[w].bound
  <1>1. task' = [task EXCEPT ![w] = [task[w] EXCEPT !.pc = s]]
    BY DEF Goto
  <1>2. /\ [task[w] EXCEPT !.pc = s] \in Task
        /\ [task[w] EXCEPT !.pc = s].pc = s
        /\ [task[w] EXCEPT !.pc = s].todo = task[w].todo
        /\ [task[w] EXCEPT !.pc = s].job = task[w].job
        /\ [task[w] EXCEPT !.pc = s].exec = task[w].exec
        /\ [task[w] EXCEPT !.pc = s].bound = task[w].bound
    BY DEF TypeOK, Task, Steps
  <1> QED BY <1>1, <1>2 DEF TypeOK, Moves

LEMMA SeamMoves ==
    ASSUME TypeOK, NEW w \in Windows, NEW e \in JobExecution,
           task' = [task EXCEPT ![w].pc = "seam", ![w].exec = e]
    PROVE  Moves(w, "seam") /\ task'[w].exec = e
  <1>1. task' = [task EXCEPT ![w] = [task[w] EXCEPT !.pc = "seam", !.exec = e]]
    BY DEF TypeOK
  <1>2. /\ [task[w] EXCEPT !.pc = "seam", !.exec = e] \in Task
        /\ [task[w] EXCEPT !.pc = "seam", !.exec = e].pc = "seam"
        /\ [task[w] EXCEPT !.pc = "seam", !.exec = e].todo = task[w].todo
        /\ [task[w] EXCEPT !.pc = "seam", !.exec = e].job = task[w].job
        /\ [task[w] EXCEPT !.pc = "seam", !.exec = e].exec = e
    <2>1. task[w] \in Task
      BY DEF TypeOK
    <2> QED BY <2>1 DEF Task, ShortSteps
  <1> QED BY <1>1, <1>2 DEF TypeOK, Moves

LEMMA ReturnMoves ==
    ASSUME TypeOK, NEW w \in Windows, NEW e \in JobExecution, Return(w, e)
    PROVE  Moves(w, "seam") /\ task'[w].exec = e /\ slot' = slot \ {Job(w)}
  BY SeamMoves DEF Return

\* A walk that goes on keeps its slot.
LEMMA WalkOwned ==
    ASSUME TypeOK, SlotOwned, NEW w \in Windows, NEW s \in WalkSteps,
           Walking(w), Moves(w, s), UNCHANGED walks
    PROVE  SlotOwned'
  BY DEF SlotOwned, Walking, Moves, Job, walks

\* A walk that returns gives up its own slot and nobody else's.
LEMMA ReturnOwned ==
    ASSUME TypeOK, SlotOwned, NEW w \in Windows, Walking(w), Moves(w, "seam"),
           slot' = slot \ {Job(w)}, UNCHANGED <<orphan, manual>>
    PROVE  SlotOwned' /\ slot' \subseteq Conns
  <1>1. ~Walking(w)'
    BY DEF Moves, Walking, WalkSteps, CommitSteps
  <1>2. \A v \in Windows \ {w} : (Walking(v)' <=> Walking(v)) /\ Job(v)' = Job(v)
    BY DEF Moves, Walking, Job
  <1> QED BY <1>1, <1>2 DEF SlotOwned, TypeOK

\* A task outside a walk neither gains nor loses a slot.
LEMMA IdleOwned ==
    ASSUME SlotOwned, NEW w \in Windows, ~Walking(w), ~Walking(w)',
           \A v \in Windows \ {w} : task'[v] = task[v], UNCHANGED walks
    PROVE  SlotOwned'
  <1>1. \A v \in Windows \ {w} : (Walking(v)' <=> Walking(v)) /\ Job(v)' = Job(v)
    BY DEF Walking, Job
  <1> QED BY <1>1 DEF SlotOwned, walks

\* The commit section of another task keeps what it holds: it has the lock, or nothing
\* it depends on changes.
LEMMA OthersHeld ==
    ASSUME Safe, NEW w \in Windows, \A v \in Windows \ {w} : task'[v] = task[v],
           \/ LockFree
           \/ UNCHANGED <<conn, path, open>> /\ \A c \in Conns : row'[c].cancel = row[c].cancel,
           task'[w].pc \in CommitSteps =>
               open' /\ path' = task'[w].bound /\ path' = Home
                     /\ conn'[Job(w)'] = "live" /\ ~row'[Job(w)'].cancel
    PROVE  CommitHeld'
  <1>1. \A v \in Windows : task[v].pc \in CommitSteps => Job(v) \in Conns
    BY DEF Safe, Honest, WalkSteps
  <1>2. \A v \in Windows \ {w} : Job(v)' = Job(v)
    BY DEF Job
  <1>3. ASSUME NEW v \in Windows \ {w}, task'[v].pc \in CommitSteps
        PROVE  /\ open' /\ path' = task'[v].bound /\ path' = Home
               /\ conn'[Job(v)'] = "live" /\ ~row'[Job(v)'].cancel
    BY <1>1, <1>2, <1>3 DEF Safe, CommitHeld, LockFree
  <1> QED BY <1>3 DEF CommitHeld

\* A step that writes nothing: the mover stays honest when it does not claim to be
\* unwritten where it was not before.
LEMMA MoverHonest ==
    ASSUME Safe, NEW w \in Windows, NEW s, Moves(w, s), UNCHANGED effect,
           \A c \in Conns : row'[c].window = w => row[c].window = w,
           s \in WalkSteps \union {"seam"} => task[w].pc \in WalkSteps,
           Unwritten(w)' => Unwritten(w),
           s = "seam" => task'[w].exec # "none"
    PROVE  Honest(w)'
  <1>1. Job(w)' = Job(w) /\ task[w].todo \subseteq Conns
    BY DEF Moves, Job, Safe, TypeOK, Task
  <1>2. Unwritten(w) => Job(w) \in Conns
    BY DEF Safe, Honest, Unwritten, WalkSteps, LookSteps
  <1> QED BY <1>1, <1>2 DEF Safe, Honest, Moves

\* The others stay honest through any step that does not touch the effect of their rows.
LEMMA OthersHonest ==
    ASSUME Safe, NEW w \in Windows, \A v \in Windows \ {w} : task'[v] = task[v],
           \A c \in Conns, v \in Windows \ {w} : row'[c].window = v =>
               row[c].window = v /\ effect'[c] \in {effect[c], "none"}
    PROVE  \A v \in Windows \ {w} : Honest(v)'
  BY HonestKept DEF Safe, TypeOK

\* What a step of task w may write: to its own connection, while its claim holds the row.
WritesOnly(w, written) ==
    \/ effect' = effect
    \/ /\ row[Job(w)].window = w
       /\ \E e \in written : effect' = [effect EXCEPT ![Job(w)] = e]

LEMMA WroteOnly ==
    ASSUME NEW w \in Windows, NEW e, Wrote(w, e)
    PROVE  WritesOnly(w, {e})
  BY DEF Wrote, WritesOnly

LEMMA HealthOnly ==
    ASSUME NEW w \in Windows, Health(w)
    PROVE  WritesOnly(w, {"health"})
  BY WroteOnly DEF Health, WritesOnly

\* The mover after a write: it is past its looks at the request.
LEMMA WriterHonest ==
    ASSUME Safe, NEW w \in Windows, NEW s \in WalkSteps \union {"seam"}, Moves(w, s), Walking(w),
           WritesOnly(w, Effects), \A c \in Conns : row'[c].window = row[c].window,
           ~Unwritten(w)', s = "seam" => task'[w].exec # "none"
    PROVE  Honest(w)'
  <1>1. Job(w)' = Job(w) /\ task[w].todo \subseteq Conns /\ Job(w) \in Conns \ task[w].todo
    BY DEF Moves, Job, Safe, TypeOK, Task, Honest, Walking
  <1>2. \A c \in task[w].todo : effect'[c] = effect[c]
    BY <1>1 DEF WritesOnly, Safe, TypeOK
  <1> QED BY <1>1, <1>2 DEF Safe, Honest, Moves

\* A step inside a walk, or out of it, that leaves the row and the connection alone.
LEMMA WalkStepSafe ==
    ASSUME Safe, NEW w \in Windows, Walking(w),
           NEW s \in WalkSteps \union {"seam"}, Moves(w, s),
           UNCHANGED <<row, conn, mapped, path, open, window, orphan, manual>>,
           recent' \in [Conns -> Recency],
           WritesOnly(w, Effects \ {"batch"}),
           effect' = effect \/ ~Unwritten(w)',
           Unwritten(w)' => Unwritten(w),
           \/ s = "seam" /\ task'[w].exec # "none" /\ slot' = slot \ {Job(w)}
           \/ s # "seam" /\ slot' = slot,
           s \in CommitSteps =>
               open /\ path = task'[w].bound /\ path = Home
                    /\ conn[Job(w)] = "live" /\ ~row[Job(w)].cancel
    PROVE  Safe'
  <1>1. Job(w) \in Conns /\ Job(w)' = Job(w)
    BY DEF Safe, Honest, Walking, Moves, Job
  <1>2. effect' \in [Conns -> Effects]
    BY DEF WritesOnly, Safe, TypeOK
  <1>3. SlotOwned' /\ slot' \subseteq Conns
    <2>1. CASE s = "seam"
      BY <2>1, ReturnOwned DEF Safe, WalkSteps, CommitSteps
    <2>2. CASE s # "seam"
      BY <2>2, WalkOwned DEF Safe, walks, TypeOK
    <2> QED BY <2>1, <2>2
  <1>4. TypeOK'
    BY <1>2, <1>3 DEF Safe, TypeOK, Moves
  <1>5. CommitHeld'
    <2>1. \A v \in Windows \ {w} : task'[v] = task[v]
      BY DEF Moves
    <2>2. task'[w].pc = s
      BY DEF Moves
    <2> QED BY <1>1, <2>1, <2>2, OthersHeld
  <1>6. \A v \in Windows \ {w} : Honest(v)'
    <2>1. \A c \in Conns : effect'[c] = effect[c] \/ row[c].window = w
      BY <1>1 DEF WritesOnly, Safe, TypeOK
    <2> QED BY <2>1, OthersHonest DEF Moves
  <1>7. Honest(w)'
    <2>1. CASE effect' = effect
      <3>1. task[w].pc \in WalkSteps
        BY DEF Walking
      <3> QED BY <2>1, <3>1, MoverHonest
    <2>2. CASE ~Unwritten(w)'
      <3>1. WritesOnly(w, Effects)
        BY DEF WritesOnly
      <3> QED BY <2>2, <3>1, WriterHonest
    <2> QED BY <2>1, <2>2
  <1>8. MarkerTrue'
    BY <1>1 DEF Safe, TypeOK, MarkerTrue, WritesOnly
  <1> QED BY <1>3, <1>4, <1>5, <1>6, <1>7, <1>8 DEF Safe

\* The two shapes most steps have.
LEMMA QuietGoto ==
    ASSUME Safe, NEW w \in Windows, Walking(w), NEW s \in WalkSteps \ CommitSteps, Moves(w, s),
           UNCHANGED <<row, conn, mapped, recent, controller, walks, effect>>,
           s \in LookSteps => task[w].pc \in LookSteps
    PROVE  Safe'
  <1>1. s # "seam" /\ (Unwritten(w)' => Unwritten(w))
    BY DEF WalkSteps, CommitSteps, Unwritten, Moves
  <1>2. WritesOnly(w, Effects \ {"batch"})
    BY DEF WritesOnly
  <1> QED BY <1>1, <1>2, WalkStepSafe DEF controller, walks, Safe, TypeOK

LEMMA QuietReturn ==
    ASSUME Safe, NEW w \in Windows, Walking(w), NEW e \in {"Failed", "Cancelled", "Committed"},
           Return(w, e), e = "Cancelled" => task[w].pc \in LookSteps,
           UNCHANGED <<row, conn, mapped, controller, orphan, manual, effect>>,
           recent' \in [Conns -> Recency]
    PROVE  Safe'
  <1>1. Moves(w, "seam") /\ task'[w].exec = e /\ slot' = slot \ {Job(w)}
    BY ReturnMoves DEF Safe, JobExecution
  <1>2. Unwritten(w)' => Unwritten(w)
    BY <1>1 DEF Unwritten, Moves, LookSteps
  <1>3. WritesOnly(w, Effects \ {"batch"}) /\ "seam" \notin CommitSteps
    BY DEF WritesOnly, CommitSteps
  <1> QED BY <1>1, <1>2, <1>3, WalkStepSafe DEF controller

-----------------------------------------------------------------------------
(* The task: recovery, claim and choice. *)

LEMMA AgedRecency ==
    ASSUME TypeOK, NEW rows
    PROVE  Aged(rows) \in [Conns -> Recency]
  BY DEF Aged, TypeOK, Recency

LEMMA SweepSafe == ASSUME Safe, NEW w \in Windows, PostUnlockSweep(w) PROVE Safe'
  <1>1. row' \in [Conns -> JobRecord] /\ \A d \in Conns : Tame(row[d], row'[d])
    <2>1. \A d \in Conns : Tame(row[d], RecoverRow(row[d], FALSE))
      BY RowsTame, RecoverTame DEF Safe
    <2>2. \A d \in Conns : RecoverRow(row[d], FALSE) \in JobRecord
      BY <2>1 DEF Tame
    <2> QED BY <2>1, <2>2, RowsTame DEF Safe, TypeOK, PostUnlockSweep
  <1>2. recent' \in [Conns -> Recency]
    BY AgedRecency DEF Safe, PostUnlockSweep
  <1>3. Moves(w, "claim")
    BY GotoMoves DEF Safe, PostUnlockSweep, Steps, ShortSteps
  <1>4. TypeOK'
    BY <1>1, <1>2, <1>3 DEF Safe, TypeOK, Moves, PostUnlockSweep, controller, walks
  <1>5. ~Walking(w) /\ ~Walking(w)' /\ ~Unwritten(w)' /\ "claim" \notin WalkSteps \union {"seam"}
    BY <1>3 DEF Walking, WalkSteps, CommitSteps, LookSteps, Unwritten, PostUnlockSweep, At, Moves
  <1>6. SlotOwned'
    BY <1>3, <1>5, IdleOwned DEF Safe, PostUnlockSweep, Moves
  <1>7. CommitHeld'
    BY <1>3, OthersHeld DEF PostUnlockSweep, Moves, CommitSteps
  <1>8. \A c \in Conns, v \in Windows : row'[c].window = v => row[c].window = v
    BY <1>1 DEF Tame, Windows
  <1>9. Honest(w)'
    BY <1>3, <1>5, <1>8, MoverHonest DEF PostUnlockSweep
  <1>10. \A v \in Windows \ {w} : Honest(v)'
    BY <1>3, <1>8, OthersHonest DEF PostUnlockSweep, Moves
  <1>11. MarkerTrue'
    BY <1>1, TameMarkers DEF Safe, MarkerTrue, PostUnlockSweep
  <1> QED BY <1>4, <1>6, <1>7, <1>9, <1>10, <1>11 DEF Safe

LEMMA SweepEndsSafe == ASSUME Safe, NEW w \in Windows, SweepEnds(w) PROVE Safe'
  <1>1. /\ task' \in [Windows -> Task]
        /\ task'[w] = Ended
        /\ \A v \in Windows \ {w} : task'[v] = task[v]
    BY EndedIsTask DEF SweepEnds, Safe, TypeOK
  <1>2. TypeOK'
    BY <1>1 DEF Safe, TypeOK, SweepEnds, controller, walks
  <1>3. ~Walking(w) /\ ~Walking(w)' /\ ~Unwritten(w)' /\ "none" \notin WalkSteps \union {"seam"}
    BY <1>1, EndedIsTask DEF Walking, WalkSteps, CommitSteps, LookSteps, Unwritten, SweepEnds, At
  <1>4. SlotOwned'
    BY <1>1, <1>3, IdleOwned DEF Safe, SweepEnds
  <1>5. CommitHeld'
    BY <1>1, EndedIsTask, OthersHeld DEF SweepEnds, controller, CommitSteps
  <1>6. Honest(w)'
    BY <1>1, <1>3, EndedIsTask DEF Honest
  <1>7. \A v \in Windows \ {w} : Honest(v)'
    BY <1>1, OthersHonest DEF SweepEnds
  <1>8. MarkerTrue'
    BY DEF Safe, MarkerTrue, SweepEnds
  <1> QED BY <1>2, <1>4, <1>5, <1>6, <1>7, <1>8 DEF Safe

\* The row a claim leaves: untouched, backfilled, failed for good, or claimed.
LEMMA ClaimRows ==
    ASSUME Safe, NEW w \in Windows, Claim(w), HomeOpen
    PROVE  \E got \in SUBSET Conns, refresh \in SUBSET Conns, last \in SUBSET Conns :
             /\ refresh \subseteq got
             /\ row' \in [Conns -> JobRecord]
             /\ \A c \in Conns \ got : Tame(row[c], row'[c])
             /\ \A c \in got : Claimed(row'[c], w)
             /\ effect' = [c \in Conns |-> IF c \in got THEN "none" ELSE effect[c]]
             /\ task' = [task EXCEPT ![w] =
                    [Ended EXCEPT !.pc = "next", !.todo = got, !.refreshable = refresh,
                                  !.lastTry = last]]
  <1> DEFINE due == {c \in Conns : DueRow(Backfilled[c], w)}
             spent == {c \in due : Backfilled[c].attempts + 1 > MaxAttempts}
             got == due \ spent
             refresh == {c \in got : conn[c] = "live" /\ ~Fresh(c)}
             last == {c \in got : Backfilled[c].attempts + 1 = MaxAttempts}
  <1>1. /\ row' = [c \in Conns |->
                    IF c \in spent THEN FinishFailure(Backfilled[c], FALSE)
                    ELSE IF c \in got THEN ClaimedRow(Backfilled[c], Backfilled[c].attempts + 1, w)
                    ELSE Backfilled[c]]
        /\ effect' = [c \in Conns |-> IF c \in got THEN "none" ELSE effect[c]]
        /\ task' = [task EXCEPT ![w] =
              [Ended EXCEPT !.pc = "next", !.todo = got, !.refreshable = refresh,
                            !.lastTry = last]]
    BY DEF Claim
  <1>2. \A c \in Conns : Tame(row[c], Backfilled[c]) /\ Backfilled[c] \in JobRecord
    <2> SUFFICES ASSUME NEW c \in Conns PROVE Tame(row[c], Backfilled[c])
      BY DEF Tame
    <2> QED BY RowsTame, NewRowTame DEF Backfilled, Safe, DueTime
  <1>3. \A c \in Conns : Tame(row[c], FinishFailure(Backfilled[c], FALSE))
    <2> SUFFICES ASSUME NEW c \in Conns PROVE Tame(row[c], FinishFailure(Backfilled[c], FALSE))
      OBVIOUS
    <2>1. Tame(Backfilled[c], FinishFailure(Backfilled[c], FALSE))
      BY <1>2, FinishFailureTame
    <2>2. FinishFailure(Backfilled[c], FALSE).state # "running"
      BY <1>2, FinishFailureTame
    <2> QED BY <1>2, <2>1, <2>2 DEF Tame
  <1>4. \A c \in Conns : Claimed(ClaimedRow(Backfilled[c], Backfilled[c].attempts + 1, w), w)
    <2> SUFFICES ASSUME NEW c \in Conns
                 PROVE  Claimed(ClaimedRow(Backfilled[c], Backfilled[c].attempts + 1, w), w)
      OBVIOUS
    <2>1. Backfilled[c].attempts + 1 \in Nat /\ w \in Nat /\ Backfilled[c] \in JobRecord
      BY <1>2 DEF JobRecord, Windows
    <2> QED BY <2>1, ClaimAndMark
  <1>5. /\ got \in SUBSET Conns /\ refresh \in SUBSET Conns /\ last \in SUBSET Conns
        /\ refresh \subseteq got /\ spent \subseteq Conns /\ spent \intersect got = {}
    OBVIOUS
  <1>6. /\ \A c \in Conns \ got : Tame(row[c], row'[c])
        /\ \A c \in got : Claimed(row'[c], w)
    <2> HIDE DEF spent, got
    <2> QED BY <1>1, <1>2, <1>3, <1>4, <1>5
  <1>7. row' \in [Conns -> JobRecord]
    <2>1. \A c \in Conns :
            /\ FinishFailure(Backfilled[c], FALSE) \in JobRecord
            /\ ClaimedRow(Backfilled[c], Backfilled[c].attempts + 1, w) \in JobRecord
      BY <1>3, <1>4 DEF Tame, Claimed
    <2> HIDE DEF spent, got
    <2> QED BY <1>1, <1>2, <2>1
  <1> HIDE DEF spent, got, refresh, last
  <1> QED BY <1>1, <1>5, <1>6, <1>7

LEMMA ClaimSafe == ASSUME Safe, NEW w \in Windows, Claim(w) PROVE Safe'
  <1>1. UNCHANGED <<conn, mapped, recent, path, open, window, slot, orphan, manual>>
    BY DEF Claim, controller, walks
  <1>2. ~Walking(w) /\ LockFree
    BY DEF Claim, At, Walking, WalkSteps, CommitSteps
  <1>3. CASE HomeOpen
    <2>1. PICK got \in SUBSET Conns, refresh \in SUBSET Conns, last \in SUBSET Conns :
             /\ refresh \subseteq got
             /\ row' \in [Conns -> JobRecord]
             /\ \A c \in Conns \ got : Tame(row[c], row'[c])
             /\ \A c \in got : Claimed(row'[c], w)
             /\ effect' = [c \in Conns |-> IF c \in got THEN "none" ELSE effect[c]]
             /\ task' = [task EXCEPT ![w] =
                    [Ended EXCEPT !.pc = "next", !.todo = got, !.refreshable = refresh,
                                  !.lastTry = last]]
      BY <1>3, ClaimRows
    <2>2. LET t == [Ended EXCEPT !.pc = "next", !.todo = got, !.refreshable = refresh,
                                 !.lastTry = last]
          IN  t \in Task /\ t.pc = "next" /\ t.todo = got
      BY RefreshAssumption DEF Ended, Task, ShortSteps, JobExecution
    <2>3. /\ task' \in [Windows -> Task]
          /\ task'[w].pc = "next"
          /\ task'[w].todo = got
          /\ \A v \in Windows \ {w} : task'[v] = task[v]
      BY <2>1, <2>2 DEF Safe, TypeOK
    <2>4. effect' \in [Conns -> Effects]
      BY <2>1 DEF Safe, TypeOK, Effects
    <2>5. TypeOK'
      BY <1>1, <2>1, <2>3, <2>4 DEF Safe, TypeOK
    <2>6. ~Walking(w)' /\ ~Unwritten(w)' /\ "next" \notin WalkSteps \union {"seam"}
      BY <2>3 DEF Walking, Unwritten, WalkSteps, CommitSteps, LookSteps
    <2>7. SlotOwned'
      BY <1>1, <1>2, <2>3, <2>6, IdleOwned DEF Safe, walks
    <2>8. CommitHeld'
      BY <1>2, <2>3, OthersHeld DEF CommitSteps
    <2>9. Honest(w)'
      <3>1. \A c \in got : effect'[c] = "none"
        BY <2>1
      <3> QED BY <2>3, <2>6, <3>1 DEF Honest
    <2>10. \A c \in Conns, v \in Windows \ {w} : row'[c].window = v =>
               row[c].window = v /\ effect'[c] \in {effect[c], "none"}
      BY <2>1 DEF Tame, Claimed, Windows
    <2>11. \A v \in Windows \ {w} : Honest(v)'
      BY <2>3, <2>10, OthersHonest
    <2>12. MarkerTrue'
      <3>1. ASSUME NEW c \in got
            PROVE  row'[c].marker = "none" /\ effect'[c] = "none"
        BY <2>1 DEF Claimed
      <3>2. ASSUME NEW c \in Conns \ got
            PROVE  Tame(row[c], row'[c]) /\ effect'[c] = effect[c]
        BY <2>1
      <3>3. ASSUME NEW c \in Conns \ got
            PROVE  /\ row'[c].marker \in {"none", "succeeded"}
                   /\ row'[c].state = "running" /\ effect'[c] = "batch"
                          => row'[c].marker = "succeeded"
        BY <3>2, TameMarkers DEF Safe
      <3> QED BY <3>1, <3>3 DEF MarkerTrue
    <2> QED BY <2>5, <2>7, <2>8, <2>9, <2>11, <2>12 DEF Safe
  <1>4. CASE ~HomeOpen
    <2>1. task' = [task EXCEPT ![w] = Ended] /\ UNCHANGED <<row, effect>>
      BY <1>4 DEF Claim
    <2>2. /\ task' \in [Windows -> Task]
          /\ task'[w] = Ended
          /\ \A v \in Windows \ {w} : task'[v] = task[v]
      BY <2>1, EndedIsTask DEF Safe, TypeOK
    <2>3. TypeOK'
      BY <1>1, <2>1, <2>2 DEF Safe, TypeOK
    <2>4. ~Walking(w)' /\ ~Unwritten(w)' /\ "none" \notin WalkSteps \union {"seam"}
      BY <2>2, EndedIsTask DEF Walking, Unwritten, WalkSteps, CommitSteps, LookSteps
    <2>5. SlotOwned'
      BY <1>1, <1>2, <2>2, <2>4, IdleOwned DEF Safe, walks
    <2>6. CommitHeld'
      BY <1>2, <2>2, EndedIsTask, OthersHeld DEF CommitSteps
    <2>7. Honest(w)'
      BY <2>2, <2>4, EndedIsTask DEF Honest
    <2>8. \A v \in Windows \ {w} : Honest(v)'
      BY <2>1, <2>2, OthersHonest
    <2>9. MarkerTrue'
      BY <2>1 DEF Safe, MarkerTrue
    <2> QED BY <2>3, <2>5, <2>6, <2>7, <2>8, <2>9 DEF Safe
  <1> QED BY <1>3, <1>4

\* The choice of the next connection takes a slot only when it is free; a connection that
\* is skipped, or walked by someone else, wrote nothing for this claim.
LEMMA DecideSafe == ASSUME Safe, NEW w \in Windows, NEW c \in Conns, Decide(w, c) PROVE Safe'
  <1> DEFINE chosen == [task[w] EXCEPT !.todo = @ \ {c}, !.job = c, !.walk = "none",
                                       !.bound = Home, !.exec = "none"]
  <1>1. /\ At(w, "next") /\ c \in task[w].todo
        /\ UNCHANGED <<row, conn, mapped, recent, path, open, window, orphan, manual, effect>>
    BY DEF Decide, controller
  <1>2. /\ chosen \in Task
        /\ chosen.job = c
        /\ chosen.todo = task[w].todo \ {c}
        /\ chosen.exec = "none"
    BY RefreshAssumption DEF Safe, TypeOK, Task, JobExecution
  <1> HIDE DEF chosen
  <1>4. PICK s \in {"seam", "bind"}, e \in {"none", "Skipped", "Succeeded"} :
            /\ task' = [task EXCEPT ![w] = [chosen EXCEPT !.pc = s, !.exec = e]]
            /\ \/ s = "seam" /\ e # "none" /\ slot' = slot
               \/ s = "bind" /\ c \notin slot /\ slot' = slot \union {c}
    <2>1. CASE c \notin task[w].refreshable
      BY <2>1 DEF Decide, chosen
    <2>2. CASE c \in task[w].refreshable /\ c \in slot
      BY <2>2 DEF Decide, chosen
    <2>3. CASE c \in task[w].refreshable /\ c \notin slot
      <3>1. task' = [task EXCEPT ![w] = [chosen EXCEPT !.pc = "bind"]] /\ slot' = slot \union {c}
        BY <2>3 DEF Decide, chosen
      <3>2. [chosen EXCEPT !.pc = "bind"] = [chosen EXCEPT !.pc = "bind", !.exec = "none"]
        BY <1>2 DEF Task
      <3> QED BY <2>3, <3>1, <3>2
    <2> QED BY <2>1, <2>2, <2>3
  <1>5. /\ task' \in [Windows -> Task]
        /\ task'[w].pc = s /\ task'[w].exec = e /\ task'[w].job = c
        /\ task'[w].todo = task[w].todo \ {c}
        /\ \A v \in Windows \ {w} : task'[v] = task[v]
    <2> DEFINE t == [chosen EXCEPT !.pc = s, !.exec = e]
    <2>1. t \in Task /\ t.pc = s /\ t.exec = e /\ t.job = c /\ t.todo = task[w].todo \ {c}
      BY <1>2 DEF Task, ShortSteps, JobExecution
    <2>2. task \in [Windows -> Task] /\ task' = [task EXCEPT ![w] = t]
      BY <1>4 DEF Safe, TypeOK
    <2> HIDE DEF t
    <2> QED BY <2>1, <2>2
  <1>6. TypeOK'
    BY <1>1, <1>4, <1>5 DEF Safe, TypeOK
  <1>7. ~Walking(w)
    BY <1>1 DEF At, Walking, WalkSteps, CommitSteps
  <1>8. \A v \in Windows \ {w} : (Walking(v)' <=> Walking(v)) /\ Job(v)' = Job(v)
    BY <1>5 DEF Walking, Job
  <1>9. SlotOwned'
    <2>1. CASE s = "seam"
      <3>1. ~Walking(w)'
        BY <1>5, <2>1 DEF Walking, WalkSteps, CommitSteps
      <3> QED BY <1>1, <1>4, <1>5, <1>7, <2>1, <3>1, IdleOwned DEF Safe, walks
    <2>2. CASE s = "bind"
      <3>1. Job(w)' = c /\ c \notin slot /\ slot' = slot \union {c}
        BY <1>4, <1>5, <2>2 DEF Job
      <3> QED BY <1>1, <1>8, <3>1 DEF Safe, SlotOwned
    <2> QED BY <2>1, <2>2
  <1>10. CommitHeld'
    BY <1>1, <1>5, OthersHeld DEF CommitSteps
  <1>11. Honest(w)'
    <2>1. row[c].window = w => effect[c] = "none"
      BY <1>1 DEF Safe, Honest
    <2>2. \A d \in task[w].todo \ {c} : row[d].window = w => effect[d] = "none"
      BY DEF Safe, Honest
    <2>3. s = "seam" => e # "none"
      BY <1>4
    <2> QED BY <1>1, <1>5, <2>1, <2>2, <2>3 DEF Honest, Job
  <1>12. \A v \in Windows \ {w} : Honest(v)'
    BY <1>1, <1>5, OthersHonest
  <1>13. MarkerTrue'
    BY <1>1 DEF Safe, MarkerTrue
  <1> QED BY <1>6, <1>9, <1>10, <1>11, <1>12, <1>13 DEF Safe

-----------------------------------------------------------------------------
(* One connection: the walk. *)

LEMMA BindSafe == ASSUME Safe, NEW w \in Windows, BindVault(w) PROVE Safe'
  <1>1. task' = [task EXCEPT ![w] = [task[w] EXCEPT !.pc = "links", !.bound = path]]
    BY DEF BindVault, Safe, TypeOK
  <1>2. LET t == [task[w] EXCEPT !.pc = "links", !.bound = path]
        IN  t \in Task /\ t.pc = "links" /\ t.todo = task[w].todo /\ t.job = task[w].job
    <2>1. task[w] \in Task /\ path \in Vaults
      BY DEF Safe, TypeOK
    <2> QED BY <2>1 DEF Task, ShortSteps
  <1>3. Moves(w, "links")
    BY <1>1, <1>2 DEF Moves, Safe, TypeOK
  <1>4. Walking(w) /\ task[w].pc \in LookSteps /\ "links" \in WalkSteps \ CommitSteps
    BY DEF BindVault, At, Walking, WalkSteps, LookSteps, CommitSteps
  <1> QED BY <1>3, <1>4, QuietGoto DEF BindVault

LEMMA ReadLinksSafe == ASSUME Safe, NEW w \in Windows, ReadLinks(w) PROVE Safe'
  <1>1. Walking(w) /\ task[w].pc \in LookSteps /\ "credential" \in WalkSteps \ CommitSteps
    BY DEF ReadLinks, At, Walking, WalkSteps, LookSteps, CommitSteps
  <1>2. CASE Live(Job(w))
    <2> DEFINE k == IF Job(w) \in mapped THEN "sync" ELSE "discover"
    <2>1. task' = [task EXCEPT ![w] = [task[w] EXCEPT !.pc = "credential", !.walk = k]]
      BY <1>2 DEF ReadLinks, Safe, TypeOK
    <2>2. k \in {"none", "discover", "sync"}
      OBVIOUS
    <2> HIDE DEF k
    <2>3. LET t == [task[w] EXCEPT !.pc = "credential", !.walk = k]
          IN  t \in Task /\ t.pc = "credential" /\ t.todo = task[w].todo /\ t.job = task[w].job
      <3>1. task[w] \in Task
        BY DEF Safe, TypeOK
      <3> QED BY <2>2, <3>1 DEF Task, ShortSteps
    <2>4. Moves(w, "credential")
      BY <2>1, <2>3 DEF Moves, Safe, TypeOK
    <2> QED BY <1>1, <1>2, <2>4, QuietGoto DEF ReadLinks, walks
  <1>3. CASE ~Live(Job(w))
    BY <1>1, <1>3, QuietReturn DEF ReadLinks, Safe, TypeOK
  <1> QED BY <1>2, <1>3

LEMMA ReadCredentialSafe == ASSUME Safe, NEW w \in Windows, ReadCredential(w) PROVE Safe'
  <1>1. /\ Walking(w) /\ task[w].pc \in LookSteps
        /\ "fetch" \in WalkSteps \ CommitSteps /\ "fetch" \in Steps
    BY DEF ReadCredential, At, Walking, WalkSteps, LookSteps, CommitSteps, Steps, ShortSteps
  <1>2. CASE Live(Job(w))
    BY <1>1, <1>2, GotoMoves, QuietGoto DEF ReadCredential, Safe, walks
  <1>3. CASE ~Live(Job(w))
    BY <1>1, <1>3, QuietReturn DEF ReadCredential, Safe, TypeOK
  <1> QED BY <1>2, <1>3

LEMMA FetchEndsSafe == ASSUME Safe, NEW w \in Windows, FetchEnds(w) PROVE Safe'
  <1>1. Walking(w) /\ task[w].pc \in LookSteps
    BY DEF FetchEnds, At, Walking, WalkSteps, LookSteps, CommitSteps
  <1>2. ASSUME NEW s \in {"commit", "check"}, Goto(w, s), UNCHANGED slot PROVE Safe'
    <2>1. s \in Steps /\ s \in WalkSteps \ CommitSteps
      BY DEF Steps, ShortSteps, WalkSteps, CommitSteps
    <2> QED BY <1>1, <1>2, <2>1, GotoMoves, QuietGoto DEF FetchEnds, Safe, walks
  <1>3. CASE Return(w, "Failed")
    BY <1>1, <1>3, QuietReturn DEF FetchEnds, Safe, TypeOK
  <1> QED BY <1>2, <1>3 DEF FetchEnds

\* The abandoned call takes over the slot of its task.
LEMMA AbandonSafe == ASSUME Safe, NEW w \in Windows, Abandon(w) PROVE Safe'
  <1>1. Moves(w, "seam") /\ task'[w].exec = "Cancelled"
    BY SeamMoves DEF Abandon, Safe, JobExecution
  <1>2. /\ UNCHANGED <<row, conn, mapped, recent, path, open, window, slot, manual, effect>>
        /\ orphan' = orphan \union {Job(w)}
        /\ LockFree
    BY DEF Abandon, controller
  <1>3. Walking(w) /\ Unwritten(w) /\ Job(w) \in Conns
    BY DEF Abandon, At, Walking, Unwritten, WalkSteps, LookSteps, Safe, Honest
  <1>4. TypeOK'
    BY <1>1, <1>2, <1>3 DEF Safe, TypeOK, Moves
  <1>5. ~Walking(w)'
    BY <1>1 DEF Moves, Walking, WalkSteps, CommitSteps
  <1>6. \A v \in Windows \ {w} : (Walking(v)' <=> Walking(v)) /\ Job(v)' = Job(v)
    BY <1>1 DEF Moves, Walking, Job
  <1>7. SlotOwned'
    <2>1. Job(w) \in slot \ (orphan \union manual)
      BY <1>3 DEF Safe, SlotOwned
    <2>2. \A v \in Windows \ {w} : Walking(v) => Job(v) # Job(w)
      BY <1>3 DEF Safe, SlotOwned
    <2> QED BY <1>2, <1>5, <1>6, <2>1, <2>2 DEF Safe, SlotOwned
  <1>8. CommitHeld'
    BY <1>1, <1>2, OthersHeld DEF Moves, CommitSteps
  <1>9. Honest(w)'
    BY <1>1, <1>2, <1>3, MoverHonest DEF Walking
  <1>10. \A v \in Windows \ {w} : Honest(v)'
    BY <1>1, <1>2, OthersHonest DEF Moves
  <1>11. MarkerTrue'
    BY <1>2 DEF Safe, MarkerTrue
  <1> QED BY <1>4, <1>7, <1>8, <1>9, <1>10, <1>11 DEF Safe

\* An error of the commit section goes to the health section, or out.
LEMMA SectionFailsMoves ==
    ASSUME TypeOK, NEW w \in Windows, SectionFails(w)
    PROVE  \/ Moves(w, "ingestfail") /\ slot' = slot
           \/ Moves(w, "seam") /\ task'[w].exec = "Failed" /\ slot' = slot \ {Job(w)}
  <1>1. CASE task[w].walk = "sync"
    BY <1>1, GotoMoves DEF SectionFails, Steps, ShortSteps
  <1>2. CASE task[w].walk # "sync"
    BY <1>2, ReturnMoves DEF SectionFails, JobExecution
  <1> QED BY <1>1, <1>2

LEMMA FailedSectionSafe ==
    ASSUME Safe, NEW w \in Windows, Walking(w), SectionFails(w),
           UNCHANGED <<row, conn, mapped, path, open, window, orphan, manual, recent>>,
           WritesOnly(w, Effects \ {"batch"})
    PROVE  Safe'
  <1>1. recent' \in [Conns -> Recency]
    BY DEF Safe, TypeOK
  <1>2. CASE Moves(w, "ingestfail") /\ slot' = slot
    <2>1. "ingestfail" \in WalkSteps \ CommitSteps /\ "ingestfail" # "seam"
      BY DEF WalkSteps, CommitSteps
    <2>2. ~Unwritten(w)'
      BY <1>2 DEF Unwritten, Moves, LookSteps
    <2> QED BY <1>1, <1>2, <2>1, <2>2, WalkStepSafe
  <1>3. CASE Moves(w, "seam") /\ task'[w].exec = "Failed" /\ slot' = slot \ {Job(w)}
    <2>1. "seam" \notin CommitSteps /\ ~Unwritten(w)'
      BY <1>3 DEF Unwritten, Moves, LookSteps, CommitSteps
    <2> QED BY <1>1, <1>3, <2>1, WalkStepSafe
  <1> QED BY <1>2, <1>3, SectionFailsMoves DEF Safe

\* The commit section begins with the vault and the connection checked and no request.
LEMMA CommitStartSafe == ASSUME Safe, NEW w \in Windows, CommitStart(w) PROVE Safe'
  <1>1. /\ Walking(w) /\ task[w].pc \in LookSteps /\ "writelinks" \in Steps
        /\ "writelinks" \in WalkSteps /\ "writelinks" # "seam" /\ "writelinks" \notin LookSteps
    BY DEF CommitStart, At, Walking, WalkSteps, LookSteps, CommitSteps, Steps
  <1>2. UNCHANGED <<row, conn, mapped, recent, path, open, window, orphan, manual, effect>>
    BY DEF CommitStart, controller
  <1>3. recent' \in [Conns -> Recency] /\ WritesOnly(w, Effects \ {"batch"})
    BY <1>2 DEF Safe, TypeOK, WritesOnly
  <1>4. CASE SectionFails(w)
    BY <1>1, <1>2, <1>3, <1>4, FailedSectionSafe
  <1>5. CASE Return(w, "Cancelled")
    BY <1>1, <1>2, <1>3, <1>5, QuietReturn DEF controller
  <1>6. CASE /\ BoundOpen(w) /\ Live(Job(w)) /\ ~row[Job(w)].cancel
             /\ Goto(w, "writelinks") /\ UNCHANGED slot
    <2>1. Moves(w, "writelinks") /\ task'[w].bound = task[w].bound
      BY <1>1, <1>6, GotoMoves DEF Safe
    <2>2. ~Unwritten(w)'
      BY <2>1, <1>1 DEF Unwritten, Moves
    <2>3. /\ open /\ path = task'[w].bound /\ path = Home
          /\ conn[Job(w)] = "live" /\ ~row[Job(w)].cancel
      BY <1>6, <2>1 DEF BoundOpen, Live, HomeOpen
    <2> QED BY <1>1, <1>2, <1>3, <1>6, <2>1, <2>2, <2>3, WalkStepSafe
  <1> QED BY <1>4, <1>5, <1>6 DEF CommitStart

\* Inside the section everything it checked still holds.
LEMMA InSection ==
    ASSUME Safe, NEW w \in Windows, task[w].pc \in CommitSteps
    PROVE  /\ Walking(w) /\ Job(w) \in Conns
           /\ open /\ path = task[w].bound /\ path = Home
           /\ conn[Job(w)] = "live" /\ ~row[Job(w)].cancel
  BY DEF Safe, CommitHeld, Walking, WalkSteps, Honest

\* A step of the section to its next step.
LEMMA SectionGoesOn ==
    ASSUME Safe, NEW w \in Windows, task[w].pc \in CommitSteps, NEW s \in CommitSteps,
           Goto(w, s), UNCHANGED <<row, conn, mapped, recent, controller, walks>>,
           WritesOnly(w, Effects \ {"batch"})
    PROVE  Safe'
  <1>1. s \in Steps /\ s \in WalkSteps /\ s # "seam" /\ s \notin LookSteps
    BY DEF Steps, WalkSteps, CommitSteps, LookSteps
  <1>2. Moves(w, s) /\ task'[w].bound = task[w].bound
    BY <1>1, GotoMoves DEF Safe
  <1>3. ~Unwritten(w)' /\ recent' \in [Conns -> Recency]
    BY <1>1, <1>2 DEF Unwritten, Moves, Safe, TypeOK
  <1> QED BY <1>1, <1>2, <1>3, InSection, WalkStepSafe DEF controller, walks

\* A return that may have written, with an outcome no request overrides.
LEMMA WrittenReturn ==
    ASSUME Safe, NEW w \in Windows, Walking(w), NEW e \in {"Failed", "Committed"}, Return(w, e),
           UNCHANGED <<row, conn, mapped, path, open, window, orphan, manual>>,
           recent' \in [Conns -> Recency], WritesOnly(w, Effects \ {"batch"})
    PROVE  Safe'
  <1>1. Moves(w, "seam") /\ task'[w].exec = e /\ slot' = slot \ {Job(w)}
    BY ReturnMoves DEF Safe, JobExecution
  <1>2. ~Unwritten(w)' /\ "seam" \notin CommitSteps
    BY <1>1 DEF Unwritten, Moves, LookSteps, CommitSteps
  <1> QED BY <1>1, <1>2, WalkStepSafe

LEMMA WriteLinksSafe == ASSUME Safe, NEW w \in Windows, WriteLinks(w) PROVE Safe'
  <1>1. task[w].pc \in CommitSteps /\ Walking(w) /\ "writebatch" \in CommitSteps
    BY DEF WriteLinks, At, Walking, WalkSteps, CommitSteps
  <1>2. UNCHANGED <<row, conn, mapped, recent, path, open, window, orphan, manual>>
    BY DEF WriteLinks, controller
  <1>3. recent' \in [Conns -> Recency]
    BY <1>2 DEF Safe, TypeOK
  <1>4. WritesOnly(w, Effects \ {"batch"})
    <2>1. Wrote(w, "links") \/ Wrote(w, "health") \/ UNCHANGED effect
      BY DEF WriteLinks
    <2>2. Wrote(w, "links") => WritesOnly(w, {"links"})
      BY WroteOnly
    <2>3. Wrote(w, "health") => WritesOnly(w, {"health"})
      BY WroteOnly
    <2> QED BY <2>1, <2>2, <2>3 DEF WritesOnly, Effects
  <1>5. CASE Return(w, "Committed")
    BY <1>1, <1>2, <1>3, <1>4, <1>5, WrittenReturn
  <1>6. CASE Goto(w, "writebatch") /\ UNCHANGED slot
    BY <1>1, <1>2, <1>4, <1>6, SectionGoesOn DEF controller, walks
  <1>7. CASE SectionFails(w)
    BY <1>1, <1>2, <1>4, <1>7, FailedSectionSafe
  <1> QED BY <1>5, <1>6, <1>7 DEF WriteLinks

\* The import and the marker are one transaction.
LEMMA WriteBatchSafe == ASSUME Safe, NEW w \in Windows, WriteBatch(w) PROVE Safe'
  <1>1. /\ task[w].pc \in CommitSteps /\ "stamp" \in CommitSteps
        /\ "stamp" \in WalkSteps \cap Steps /\ "ingestfail" \in WalkSteps
    BY DEF WriteBatch, At, WalkSteps, CommitSteps, Steps
  <1>2. UNCHANGED <<conn, mapped, recent, path, open, window, orphan, manual>>
    BY DEF WriteBatch, controller
  <1>3. Walking(w) /\ Job(w) \in Conns
    BY <1>1, InSection
  <1>4. CASE SectionFails(w) /\ UNCHANGED <<row, effect>>
    BY <1>2, <1>3, <1>4, FailedSectionSafe DEF WritesOnly
  <1>5. CASE /\ row' = [row EXCEPT ![Job(w)] = MarkRow(@, "succeeded")]
             /\ Wrote(w, "batch")
             /\ (Goto(w, "stamp") /\ UNCHANGED slot) \/ SectionFails(w)
    <2>1. \A c \in Conns : row[c] \in JobRecord
      BY DEF Safe, TypeOK
    <2>2. row' = [row EXCEPT ![Job(w)] = MarkRow(row[Job(w)], "succeeded")]
      BY <1>5
    <2>3. /\ row' \in [Conns -> JobRecord]
          /\ row'[Job(w)] = MarkRow(row[Job(w)], "succeeded")
          /\ \A c \in Conns \ {Job(w)} : row'[c] = row[c]
      BY <1>3, <2>1, <2>2, ClaimAndMark DEF Safe, TypeOK, Windows
    <2>4. \A c \in Conns : row'[c].window = row[c].window /\ row'[c].cancel = row[c].cancel
      BY <1>3, <2>1, <2>3, ClaimAndMark DEF Windows
    <2>5. WritesOnly(w, Effects) /\ effect' \in [Conns -> Effects]
      BY <1>5, WroteOnly DEF WritesOnly, Effects, Safe, TypeOK
    <2>6. MarkerTrue'
      <3>1. ASSUME NEW c \in Conns \ {Job(w)}
            PROVE  row'[c] = row[c] /\ effect'[c] = effect[c]
        BY <2>3, <1>5 DEF Wrote, Safe, TypeOK
      <3>2. LET s == row'[Job(w)]
            IN  /\ s.marker \in {"none", "succeeded"}
                /\ s.state = "running" => s.marker = "succeeded"
        BY <1>3, <2>1, <2>3, ClaimAndMark DEF Safe, MarkerTrue, Windows
      <3> QED BY <3>1, <3>2 DEF Safe, MarkerTrue
    <2>7. PICK s \in {"stamp", "ingestfail", "seam"} :
             /\ Moves(w, s)
             /\ s = "stamp" => slot' = slot /\ task'[w].bound = task[w].bound
             /\ s = "ingestfail" => slot' = slot
             /\ s = "seam" => task'[w].exec = "Failed" /\ slot' = slot \ {Job(w)}
      <3>1. CASE Goto(w, "stamp") /\ UNCHANGED slot
        BY <1>1, <3>1, GotoMoves DEF Safe
      <3>2. CASE SectionFails(w)
        BY <3>2, SectionFailsMoves DEF Safe
      <3> QED BY <1>5, <3>1, <3>2
    <2>8. SlotOwned' /\ slot' \subseteq Conns
      <3>1. CASE s = "seam"
        BY <1>2, <1>3, <2>7, <3>1, ReturnOwned DEF Safe
      <3>2. CASE s # "seam"
        BY <1>1, <1>2, <1>3, <2>7, <3>2, WalkOwned DEF Safe, TypeOK, walks
      <3> QED BY <3>1, <3>2
    <2>9. TypeOK'
      BY <1>2, <2>3, <2>5, <2>7, <2>8 DEF Safe, TypeOK, Moves
    <2>10. CommitHeld'
      <3>1. \A v \in Windows \ {w} : task'[v] = task[v]
        BY <2>7 DEF Moves
      <3>2. task'[w].pc = s /\ Job(w)' = Job(w) /\ (s \in CommitSteps => s = "stamp")
        BY <2>7 DEF Moves, Job, CommitSteps
      <3> QED BY <1>1, <1>2, <1>3, <2>4, <2>7, <3>1, <3>2, InSection, OthersHeld
    <2>11. ~Unwritten(w)'
      BY <2>7 DEF Moves, Unwritten, LookSteps
    <2>12. Honest(w)'
      <3>1. s \in WalkSteps \union {"seam"}
        BY <1>1
      <3> QED BY <1>3, <2>4, <2>5, <2>7, <2>11, <3>1, WriterHonest
    <2>13. \A v \in Windows \ {w} : Honest(v)'
      <3>1. \A c \in Conns : effect'[c] = effect[c] \/ row[c].window = w
        BY <1>3, <2>5 DEF WritesOnly, Safe, TypeOK
      <3> QED BY <2>4, <2>7, <3>1, OthersHonest DEF Moves
    <2> QED BY <2>6, <2>8, <2>9, <2>10, <2>12, <2>13 DEF Safe
  <1> QED BY <1>4, <1>5 DEF WriteBatch

LEMMA StampSafe == ASSUME Safe, NEW w \in Windows, Stamp(w) PROVE Safe'
  <1>1. task[w].pc \in CommitSteps
    BY DEF Stamp, At, CommitSteps
  <1>2. Walking(w) /\ Job(w) \in Conns
    BY <1>1, InSection
  <1>3. UNCHANGED <<row, conn, mapped, path, open, window, orphan, manual, effect>>
    BY DEF Stamp, controller
  <1>4. WritesOnly(w, Effects \ {"batch"})
    BY <1>3 DEF WritesOnly
  <1>5. CASE recent' = [recent EXCEPT ![Job(w)] = "new"] /\ Return(w, "Committed")
    <2>1. recent' \in [Conns -> Recency]
      BY <1>2, <1>5 DEF Safe, TypeOK, Recency
    <2> QED BY <1>2, <1>3, <1>4, <1>5, <2>1, WrittenReturn
  <1>6. CASE SectionFails(w) /\ UNCHANGED recent
    BY <1>2, <1>3, <1>4, <1>6, FailedSectionSafe
  <1> QED BY <1>5, <1>6 DEF Stamp

LEMMA RecordIngestSafe == ASSUME Safe, NEW w \in Windows, RecordIngestFailure(w) PROVE Safe'
  <1>1. Walking(w) /\ recent' \in [Conns -> Recency]
    BY DEF RecordIngestFailure, At, Walking, WalkSteps, Safe, TypeOK
  <1>2. WritesOnly(w, Effects \ {"batch"})
    BY HealthOnly DEF RecordIngestFailure, WritesOnly, Effects
  <1> QED BY <1>1, <1>2, WrittenReturn DEF RecordIngestFailure, controller

LEMMA LookSafe == ASSUME Safe, NEW w \in Windows, LookBeforeFailure(w) PROVE Safe'
  <1>1. /\ Walking(w) /\ task[w].pc \in LookSteps /\ recent' \in [Conns -> Recency]
        /\ "record" \in WalkSteps \ CommitSteps /\ "record" \in Steps /\ "record" \notin LookSteps
    BY DEF LookBeforeFailure, At, Walking, WalkSteps, LookSteps, CommitSteps, Steps, ShortSteps,
           Safe, TypeOK
  <1>2. CASE Return(w, "Cancelled")
    BY <1>1, <1>2, QuietReturn DEF LookBeforeFailure
  <1>3. CASE Goto(w, "record") /\ UNCHANGED slot
    BY <1>1, <1>3, GotoMoves, QuietGoto DEF LookBeforeFailure, Safe, walks
  <1> QED BY <1>2, <1>3 DEF LookBeforeFailure

LEMMA RecordProviderSafe ==
    ASSUME Safe, NEW w \in Windows, RecordProviderFailure(w) PROVE Safe'
  <1>1. Walking(w)
    BY DEF RecordProviderFailure, At, Walking, WalkSteps
  <1>2. recent' \in [Conns -> Recency]
    <2>1. UNCHANGED recent \/ recent' = [recent EXCEPT ![Job(w)] = "new"]
      BY DEF RecordProviderFailure
    <2> QED BY <2>1 DEF Safe, TypeOK, Recency
  <1>3. WritesOnly(w, Effects \ {"batch"})
    BY HealthOnly DEF RecordProviderFailure, WritesOnly, Effects
  <1>4. Return(w, "Committed") \/ Return(w, "Failed")
    BY DEF RecordProviderFailure
  <1> QED BY <1>1, <1>2, <1>3, <1>4, WrittenReturn DEF RecordProviderFailure, controller

\* The outcome is written by the job's id; the task goes on, or ends in a locked vault.
LEMMA FinishSafe == ASSUME Safe, NEW w \in Windows, Finish(w) PROVE Safe'
  <1> DEFINE e == task[w].exec
  <1>1. Job(w) \in Conns /\ e \in JobExecution \ {"none"}
    BY DEF Finish, At, Safe, Honest, TypeOK, Task
  <1>2. UNCHANGED <<conn, mapped, path, open, window, slot, orphan, manual, effect>> /\ LockFree
    BY DEF Finish, controller, walks
  <1>3. row' \in [Conns -> JobRecord] /\ \A d \in Conns : Tame(row[d], row'[d])
    <2>1. CASE HomeOpen
      <3> DEFINE r == ApplyExecution(row[Job(w)], e, Job(w) \notin task[w].lastTry, FALSE)
      <3>1. Tame(row[Job(w)], r)
        BY <1>1, RowsTame, OutcomeTame DEF Safe
      <3>2. row' = [row EXCEPT ![Job(w)] = r]
        BY <2>1 DEF Finish
      <3> HIDE DEF r
      <3> QED BY <1>1, <3>1, <3>2, OneRowTame DEF Safe
    <2>2. CASE ~HomeOpen
      BY <2>2, RowsTame DEF Finish, Safe, TypeOK
    <2> QED BY <2>1, <2>2
  <1>4. recent' \in [Conns -> Recency]
    BY AgedRecency DEF Safe, Finish
  <1>5. /\ task' \in [Windows -> Task]
        /\ task'[w].pc \in {"next", "none"}
        /\ task'[w].todo \subseteq task[w].todo
        /\ \A v \in Windows \ {w} : task'[v] = task[v]
    <2>1. CASE open
      <3> DEFINE t == [task[w] EXCEPT !.pc = "next", !.job = "none", !.walk = "none",
                                      !.bound = Home, !.exec = "none"]
      <3>1. task' = [task EXCEPT ![w] = t]
        BY <2>1 DEF Finish
      <3>2. t \in Task /\ t.pc = "next" /\ t.todo = task[w].todo
        <4>1. task[w] \in Task
          BY DEF Safe, TypeOK
        <4> QED BY <4>1, RefreshAssumption DEF Task, ShortSteps, JobExecution
      <3> HIDE DEF t
      <3> QED BY <3>1, <3>2 DEF Safe, TypeOK
    <2>2. CASE ~open
      BY <2>2, EndedIsTask DEF Finish, Safe, TypeOK
    <2> QED BY <2>1, <2>2
  <1>6. TypeOK'
    BY <1>2, <1>3, <1>4, <1>5 DEF Safe, TypeOK
  <1>7. ~Walking(w) /\ ~Walking(w)' /\ ~Unwritten(w)'
    BY <1>5 DEF Finish, At, Walking, Unwritten, WalkSteps, CommitSteps, LookSteps
  <1>8. SlotOwned'
    BY <1>2, <1>5, <1>7, IdleOwned DEF Safe, walks
  <1>9. CommitHeld'
    BY <1>2, <1>5, OthersHeld DEF CommitSteps
  <1>10. \A c \in Conns, v \in Windows : row'[c].window = v => row[c].window = v
    BY <1>3 DEF Tame, Windows
  <1>11. Honest(w)'
    <2>1. \A c \in task'[w].todo : c \in Conns /\ c \in task[w].todo
      BY <1>5 DEF Safe, TypeOK, Task
    <2> QED BY <1>2, <1>5, <1>7, <1>10, <2>1 DEF Safe, Honest, WalkSteps, CommitSteps
  <1>12. \A v \in Windows \ {w} : Honest(v)'
    BY <1>2, <1>5, <1>10, OthersHonest
  <1>13. MarkerTrue'
    BY <1>2, <1>3, TameMarkers DEF Safe, MarkerTrue
  <1> QED BY <1>6, <1>8, <1>9, <1>11, <1>12, <1>13 DEF Safe

-----------------------------------------------------------------------------
(* The invariant holds. *)

LEMMA SafeInit == Init => Safe
  <1> SUFFICES ASSUME Init PROVE Safe
    OBVIOUS
  <1>1. TypeOK
    <2>1. /\ row \in [Conns -> JobRecord]
          /\ recent \in [Conns -> Recency]
          /\ effect \in [Conns -> Effects]
      BY AbsentIsRow DEF Init, Recency, Effects
    <2>2. conn \in [Conns -> {"new", "live", "forgotten"}]
      BY DEF Init
    <2>3. task \in [Windows -> Task] /\ window \in 0..MaxUnlocks
      BY EndedIsTask, RefreshAssumption DEF Init
    <2> QED BY <2>1, <2>2, <2>3, RefreshAssumption DEF Init, TypeOK
  <1>2. \A w \in Windows : task[w] = Ended
    BY DEF Init
  <1>3. SlotOwned /\ CommitHeld /\ \A w \in Windows : Honest(w)
    BY <1>2, EndedIsTask
    DEF Init, SlotOwned, CommitHeld, Honest, Unwritten, Walking, WalkSteps, LookSteps, CommitSteps
  <1>4. MarkerTrue
    BY AbsentIsRow DEF Init, MarkerTrue
  <1> QED BY <1>1, <1>3, <1>4 DEF Safe

LEMMA TaskSafe == ASSUME Safe, NEW w \in Windows, TaskStep(w) PROVE Safe'
  BY SweepSafe, ClaimSafe, SweepEndsSafe, DecideSafe, BindSafe, ReadLinksSafe, ReadCredentialSafe,
     FetchEndsSafe, AbandonSafe, CommitStartSafe, WriteLinksSafe, WriteBatchSafe, StampSafe,
     RecordIngestSafe, LookSafe, RecordProviderSafe, FinishSafe
  DEF TaskStep

LEMMA UserSafe == ASSUME Safe, UserStep PROVE Safe'
  BY UnlockSafe, LockSafe, CrashSafe, SwitchVaultSafe, LinkSafe, ForgetSafe, MapAccountSafe,
     SetCadenceSafe, CancelJobSafe, TimePassesSafe, StampAgesSafe, ManualSafe
  DEF UserStep

LEMMA SafeStep == Safe /\ [Next]_vars => Safe'
  <1> SUFFICES ASSUME Safe, [Next]_vars PROVE Safe'
    OBVIOUS
  <1>1. CASE UNCHANGED vars
    <2>1. UNCHANGED <<row, conn, mapped, recent, path, open, window, task, slot, orphan, manual,
                      effect>>
      BY <1>1 DEF vars
    <2>2. TypeOK' /\ SlotOwned' /\ CommitHeld' /\ MarkerTrue'
      BY <2>1 DEF Safe, TypeOK, SlotOwned, CommitHeld, MarkerTrue, Walking, Job
    <2>3. \A w \in Windows : Honest(w)'
      BY <2>1 DEF Safe, Honest, Unwritten, Job
    <2> QED BY <2>2, <2>3 DEF Safe
  <1>2. CASE Next
    BY <1>2, UserSafe, TaskSafe, ManualSafe DEF Next
  <1> QED BY <1>1, <1>2

LEMMA SafeAlways == Spec => []Safe
  BY SafeInit, SafeStep, PTL DEF Spec

-----------------------------------------------------------------------------
(* The theorems. *)

(***************************************************************************)
(* Rows, tasks, slots and walks keep their types (durable_jobs, ScheduledRun *)
(* and the locals of connector_sync_inner, connector_syncs_in_flight).      *)
(***************************************************************************)
THEOREM RefreshTypeCorrect == Spec => []TypeOK
  <1>1. Safe => TypeOK
    BY DEF Safe
  <1> QED BY <1>1, SafeAlways, PTL

(***************************************************************************)
(* One walk per connection (claim_connector_sync and EndGuard): however     *)
(* many tasks, abandoned calls and manual syncs meet on it.                 *)
(***************************************************************************)
THEOREM OneWalk == Spec => []OneWalkPerConnection
  <1>1. Safe => OneWalkPerConnection
    <2> SUFFICES ASSUME Safe, NEW c \in Conns
                 PROVE  Cardinality(Walkers(c)) + (IF c \in orphan THEN 1 ELSE 0)
                                               + (IF c \in manual THEN 1 ELSE 0) <= 1
      BY DEF OneWalkPerConnection
    <2>1. \A w \in Walkers(c) : w \in Windows /\ Walking(w) /\ Job(w) = c
      BY DEF Walkers, Walking, WalkSteps, Job, Safe, TypeOK, Task, ShortSteps
    <2>2. \A w, v \in Walkers(c) : w = v
      BY <2>1 DEF Safe, SlotOwned
    <2>3. Walkers(c) # {} => c \notin orphan /\ c \notin manual
      BY <2>1 DEF Safe, SlotOwned
    <2>4. ~(c \in orphan /\ c \in manual)
      BY DEF Safe, SlotOwned
    <2>5. CASE Walkers(c) = {}
      <3>1. Cardinality(Walkers(c)) = 0
        BY <2>5, FS_EmptySet
      <3> QED BY <2>4, <3>1
    <2>6. CASE Walkers(c) # {}
      <3>1. PICK w \in Walkers(c) : TRUE
        BY <2>6
      <3>2. Walkers(c) = {w}
        BY <2>2, <3>1
      <3>3. Cardinality(Walkers(c)) = 1
        BY <3>2, FS_Singleton
      <3> QED BY <2>3, <2>6, <3>3
    <2> QED BY <2>5, <2>6
  <1> QED BY <1>1, SafeAlways, PTL

(***************************************************************************)
(* A run that ends Cancelled wrote nothing, whichever of the three looks at *)
(* the request ended it (connector_sync_scheduled_impl).                    *)
(***************************************************************************)
THEOREM CancelledIsEmpty == Spec => []CancelledRunWroteNothing
  <1>1. Safe => CancelledRunWroteNothing
    BY DEF Safe, Honest, Unwritten, CancelledRunWroteNothing, Job
  <1> QED BY <1>1, SafeAlways, PTL

(***************************************************************************)
(* The commit section writes to the vault the sync started in, unlocked,    *)
(* for a connection that exists (with_vault_bound).                         *)
(***************************************************************************)
THEOREM CommitIsBound == Spec => []CommitHoldsVault
  <1>1. Safe => CommitHoldsVault
    BY DEF Safe, CommitHeld, CommitHoldsVault, Job
  <1> QED BY <1>1, SafeAlways, PTL

-----------------------------------------------------------------------------
(* The action properties. *)

\* Outside the commit section a step leaves every effect, clears it, or records an error.
LEMMA WritesAreCommits ==
    ASSUME Safe, [Next]_vars, NEW c \in Conns, effect'[c] \notin {effect[c], "none", "health"}
    PROVE  \E w \in Windows : task[w].pc \in CommitSteps /\ Job(w) = c
  <1>1. \/ effect' = effect
        \/ \E w \in Windows : \/ Claim(w) \/ WriteLinks(w) \/ WriteBatch(w)
                              \/ RecordIngestFailure(w) \/ RecordProviderFailure(w)
    <2>1. CASE UserStep
      BY <2>1 DEF UserStep, Unlock, Lock, Crash, SwitchVault, Link, Forget, MapAccount, SetCadence,
                  CancelJob, TimePasses, StampAges, ManualStart
    <2>2. ASSUME NEW w \in Windows, TaskStep(w)
          PROVE  \/ effect' = effect
                 \/ Claim(w) \/ WriteLinks(w) \/ WriteBatch(w)
                 \/ RecordIngestFailure(w) \/ RecordProviderFailure(w)
      BY <2>2 DEF TaskStep, PostUnlockSweep, SweepEnds, Decide, BindVault, ReadLinks,
                  ReadCredential, FetchEnds, Abandon, CommitStart, Stamp, LookBeforeFailure, Finish
    <2>3. ASSUME NEW d \in Conns, OrphanEnds(d) \/ ManualEnd(d) PROVE effect' = effect
      BY <2>3 DEF OrphanEnds, ManualEnd
    <2>4. CASE UNCHANGED vars
      BY <2>4 DEF vars
    <2> QED BY <2>1, <2>2, <2>3, <2>4 DEF Next
  <1>2. effect' # effect
    OBVIOUS
  <1>3. ASSUME NEW w \in Windows, Claim(w) PROVE FALSE
    <2>1. \E got : effect' = [d \in Conns |-> IF d \in got THEN "none" ELSE effect[d]]
      BY <1>2, <1>3 DEF Claim
    <2> QED BY <2>1
  <1>4. ASSUME NEW w \in Windows, WriteLinks(w) \/ WriteBatch(w)
        PROVE  task[w].pc \in CommitSteps /\ Job(w) = c
    <2>1. task[w].pc \in CommitSteps
      BY <1>4 DEF WriteLinks, WriteBatch, At, CommitSteps
    <2>2. Wrote(w, "links") \/ Wrote(w, "health") \/ Wrote(w, "batch")
      BY <1>2, <1>4 DEF WriteLinks, WriteBatch
    <2>3. WritesOnly(w, Effects)
      <3>1. Wrote(w, "links") => WritesOnly(w, {"links"})
        BY WroteOnly
      <3>2. Wrote(w, "health") => WritesOnly(w, {"health"})
        BY WroteOnly
      <3>3. Wrote(w, "batch") => WritesOnly(w, {"batch"})
        BY WroteOnly
      <3> QED BY <2>2, <3>1, <3>2, <3>3 DEF WritesOnly, Effects
    <2> QED BY <2>1, <2>3 DEF WritesOnly, Safe, TypeOK
  <1>5. ASSUME NEW w \in Windows, RecordIngestFailure(w) \/ RecordProviderFailure(w)
        PROVE  FALSE
    <2>1. WritesOnly(w, {"health"})
      BY <1>5, HealthOnly DEF RecordIngestFailure, RecordProviderFailure, WritesOnly
    <2> QED BY <2>1 DEF WritesOnly, Safe, TypeOK
  <1> QED BY <1>1, <1>2, <1>3, <1>4, <1>5

(***************************************************************************)
(* The commit is the linearization point: a request on the row of a run     *)
(* that has written nothing keeps it from writing an account or a           *)
(* transaction (the look at the request in connector_sync_inner's phase 3). *)
(***************************************************************************)
THEOREM RequestStops == Spec => RequestStopsCommit
  <1>1. Safe /\ [Next]_vars =>
          [\A c \in Conns : row[c].state = "running" /\ row[c].cancel /\ effect[c] = "none"
                               => effect'[c] \in {"none", "health"}]_vars
    <2> SUFFICES ASSUME Safe, [Next]_vars, NEW c \in Conns, row[c].cancel, effect[c] = "none",
                        effect'[c] \notin {"none", "health"}
                 PROVE  FALSE
      OBVIOUS
    <2>1. PICK w \in Windows : task[w].pc \in CommitSteps /\ Job(w) = c
      BY WritesAreCommits
    <2> QED BY <2>1, InSection
  <1> QED BY <1>1, SafeAlways, PTL DEF Spec, RequestStopsCommit

\* Only recovery and an outcome turn a running row into a cancelled one.
LEMMA CancelledBy ==
    ASSUME Safe, [Next]_vars, NEW c \in Conns, row[c].state = "running",
           row'[c].state = "cancelled"
    PROVE  \E w \in Windows :
              \/ PostUnlockSweep(w) /\ row'[c] = RecoverRow(row[c], FALSE)
              \/ Finish(w) /\ HomeOpen /\ Job(w) = c
  <1>1. row' # row
    OBVIOUS
  <1>2. \A d \in Conns : row[d] \in JobRecord
    BY DEF Safe, TypeOK
  <1>3. ASSUME NEW d \in Conns, Link(d) PROVE FALSE
    BY <1>3, <1>2, NewRowTame DEF Link, Safe, TypeOK, DueTime
  <1>4. ASSUME NEW d \in Conns, Forget(d) PROVE FALSE
    BY <1>4 DEF Forget, DeleteRow, Safe, TypeOK
  <1>5. ASSUME NEW d \in Conns, NEW enabled \in BOOLEAN, SetCadence(d, enabled) PROVE FALSE
    BY <1>5 DEF SetCadence, Safe, TypeOK
  <1>6. ASSUME NEW d \in Conns, CancelJob(d) PROVE FALSE
    <2>1. row[c].state = "running" => CancelRow(row[c]).state = "running"
      BY <1>2 DEF CancelRow, JobRecord
    <2> QED BY <1>6, <2>1 DEF CancelJob, Safe, TypeOK
  <1>7. ASSUME NEW d \in Conns, TimePasses(d) PROVE FALSE
    <2>1. [row[d] EXCEPT !.due = "now"].state = row[d].state
      BY <1>2 DEF JobRecord
    <2>2. row' = [row EXCEPT ![d] = [row[d] EXCEPT !.due = "now"]]
      BY <1>7 DEF TimePasses
    <2> QED BY <2>1, <2>2 DEF Safe, TypeOK
  <1>8. ASSUME UserStep PROVE FALSE
    BY <1>1, <1>3, <1>4, <1>5, <1>6, <1>7, <1>8
    DEF UserStep, Unlock, Lock, Crash, SwitchVault, MapAccount, StampAges, ManualStart
  <1>9. ASSUME NEW w \in Windows, Claim(w) PROVE FALSE
    <2>1. Backfilled[c] = row[c]
      BY DEF Backfilled
    <2>2. ~DueRow(Backfilled[c], w)
      BY <2>1 DEF DueRow
    <2>3. HomeOpen => row'[c] = Backfilled[c]
      BY <1>9, <2>2 DEF Claim
    <2>4. ~HomeOpen => row' = row
      BY <1>9 DEF Claim
    <2> QED BY <2>1, <2>3, <2>4
  <1>10. ASSUME NEW w \in Windows, WriteBatch(w) PROVE FALSE
    <2>1. row' = [row EXCEPT ![Job(w)] = MarkRow(row[Job(w)], "succeeded")]
      BY <1>1, <1>10 DEF WriteBatch
    <2>2. row[c].state = "running" => MarkRow(row[c], "succeeded").state = "running"
      BY <1>2 DEF MarkRow, JobRecord
    <2> QED BY <2>1, <2>2 DEF Safe, TypeOK
  <1>11. ASSUME NEW w \in Windows, PostUnlockSweep(w) PROVE row'[c] = RecoverRow(row[c], FALSE)
    BY <1>1, <1>11 DEF PostUnlockSweep
  <1>12. ASSUME NEW w \in Windows, Finish(w) PROVE HomeOpen /\ Job(w) = c
    BY <1>1, <1>12 DEF Finish, Safe, TypeOK
  <1>13. ASSUME NEW w \in Windows, TaskStep(w)
         PROVE  \/ PostUnlockSweep(w) /\ row'[c] = RecoverRow(row[c], FALSE)
                \/ Finish(w) /\ HomeOpen /\ Job(w) = c
    BY <1>1, <1>9, <1>10, <1>11, <1>12, <1>13
    DEF TaskStep, SweepEnds, Decide, BindVault, ReadLinks, ReadCredential, FetchEnds, Abandon,
        CommitStart, WriteLinks, Stamp, RecordIngestFailure, LookBeforeFailure,
        RecordProviderFailure
  <1>14. ~UNCHANGED vars /\ \A d \in Conns : ~OrphanEnds(d) /\ ~ManualEnd(d)
    BY <1>1 DEF vars, OrphanEnds, ManualEnd
  <1> QED BY <1>8, <1>13, <1>14 DEF Next

(***************************************************************************)
(* A run that imported is never recorded as cancelled (recover_running and  *)
(* apply_execution), unless a task whose claim was taken over still holds   *)
(* the row and writes its own outcome there.                                *)
(***************************************************************************)
THEOREM LedgerRunKeepsOutcome == Spec => LedgerRunNeverCancelled
  <1>1. Safe /\ [Next]_vars =>
          [\A c \in Conns :
              (/\ row[c].state = "running"
               /\ row'[c].state = "cancelled"
               /\ \A w \in Holders(c) : row[c].window = w) => effect[c] # "batch"]_vars
    <2> SUFFICES ASSUME Safe, [Next]_vars, NEW c \in Conns, row[c].state = "running",
                        row'[c].state = "cancelled", \A w \in Holders(c) : row[c].window = w,
                        effect[c] = "batch"
                 PROVE  FALSE
      OBVIOUS
    <2>1. row[c] \in JobRecord /\ row[c].marker = "succeeded"
      BY DEF Safe, TypeOK, MarkerTrue
    <2>2. PICK w \in Windows :
              \/ PostUnlockSweep(w) /\ row'[c] = RecoverRow(row[c], FALSE)
              \/ Finish(w) /\ HomeOpen /\ Job(w) = c
      BY CancelledBy
    <2>3. CASE row'[c] = RecoverRow(row[c], FALSE)
      BY <2>1, <2>3, RecoverTame
    <2>4. CASE Finish(w) /\ HomeOpen /\ Job(w) = c
      <3> DEFINE e == task[w].exec
      <3>1. task[w].pc = "seam" /\ w \in Holders(c)
        BY <2>4 DEF Finish, At, Holders, Job
      <3>2. e \in JobExecution \ {"none"}
        BY <3>1 DEF Safe, TypeOK, Task, Honest
      <3>3. row'[c] = ApplyExecution(row[c], e, c \notin task[w].lastTry, FALSE)
        BY <2>4 DEF Finish, Safe, TypeOK
      <3> HIDE DEF e
      <3>4. ApplyExecution(row[c], e, c \notin task[w].lastTry, FALSE).state = "cancelled"
                => e \in {"Cancelled", "Succeeded", "Skipped"}
        <4> DEFINE r == row[c]
                   retry == c \notin task[w].lastTry
        <4>1. r \in JobRecord /\ r.state = "running" /\ r.marker = "succeeded"
          BY <2>1
        <4> HIDE DEF r, retry
        <4>2. ApplyExecution(r, e, retry, FALSE).state = "cancelled"
                  => e \in {"Cancelled", "Succeeded", "Skipped"}
          BY <3>2, <4>1, OutcomeTame
        <4> QED BY <4>2 DEF r, retry
      <3>5. Unwritten(w)
        BY <3>1, <3>3, <3>4 DEF Unwritten, e
      <3> QED BY <2>4, <3>1, <3>5 DEF Safe, Honest, Holders
    <2> QED BY <2>2, <2>3, <2>4
  <1> QED BY <1>1, SafeAlways, PTL DEF Spec, LedgerRunNeverCancelled
=============================================================================
