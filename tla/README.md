# dohflow: specifications

TLA+ models of the parts of dohflow where the order of events decides whether the program is
correct, the TLC configurations that check them on small instances, and TLAPS proofs of what
matters most. Every definition is translated from the source tree; `PROJECT.json` ("map") gives
the lines each one stands for.

| File | What it is |
|------|------------|
| `JobStore.tla` | the statements on one row of the `durable_jobs` table, as operators |
| `JobSweep.tla`, `MCJobSweep.tla`, `JobSweep*.cfg` | the post-unlock job sweep and the scheduled backup |
| `JobSweepProofs.tla` | theorems about `JobSweep` |
| `ConnectorRefresh.tla`, `MCConnectorRefresh.tla`, `ConnectorRefresh*.cfg` | the scheduled refresh of bank connections |
| `ConnectorRefreshProofs.tla` | theorems about `ConnectorRefresh` |
| `AtomicVault.tla` | what a vault promises about its key, abstractly |
| `KeyRotation.tla`, `MCKeyRotation.tla`, `KeyRotation*.cfg` | the rotation of the vault's key, file by file, and its recovery |
| `KeyRotationProofs.tla` | theorems about `KeyRotation`, the refinement of `AtomicVault` among them |
| `SyncCounter.tla`, `MCSyncCounter.tla`, `SyncCounter.cfg` | the counter register of one key, its witness, and the snapshot publisher |
| `SyncCounterProofs.tla` | theorems about `SyncCounter` |
| `SyncBase.tla` | the base image of a replica, its outbox and its operation log |
| `RebasePlan.tla` | the plan of a rebase: which commands are re-applied, which are queued |
| `SyncRebase.tla`, `MCSyncRebase.tla`, `SyncRebase.cfg` | a rebase on a scratch vault, composed with `SyncBase` |
| `SyncRebaseProofs.tla` | theorems about `SyncBase`, `RebasePlan` and `SyncRebase` |
| `SyncVoid.tla`, `MCSyncVoid.tla`, `SyncVoid.cfg` | voids, the status of a replica, rebootstrap |
| `SyncVoidProofs.tla` | theorems about `SyncVoid` |
| `MemberChain.tla` | the rules of membership and epoch records |
| `AppendOnce.tla` | what the log promises about a command, abstractly |
| `SyncPush.tla`, `MCSyncPush.tla`, `SyncPush.cfg` | sealing, pushing, retrying and pulling under a changing membership |
| `SyncPushProofs.tla` | theorems about `SyncPush` and `MemberChain`, the refinement of `AppendOnce` among them |
| `TouchId.tla`, `MCTouchId.tla`, `TouchId.cfg` | Touch ID unlock: the keychain item, its markers and who may write them |
| `TouchIdProofs.tla` | theorems about `TouchId` |

To check a model: `tlc -config JobSweep.cfg MCJobSweep.tla`; to check the proofs:
`tlapm JobSweepProofs.tla`. In the modules, a definition named `X_Y` just before `X` is `X` with a
plausible bug; it is used by no specification and shows which property would notice (see "Mutants").

## 1. The system

dohflow is a desktop application for personal finance (Rust behind a Tauri shell). All of a user's
data is in one encrypted **vault**: a SQLCipher database, an envelope file that wraps its key, a
directory of attachment blobs, and images kept for Sync. One **kernel** per unlocked vault owns a
**database worker**, a thread with the only connection; everything that reads or writes goes
through it as a message. The desktop shell keeps a **VaultController** behind an async mutex, "the
controller's lock", and runs IPC commands and background tasks against it.

### Components, state and interactions

`PROJECT.json` lists all of them, with status. The ones with behaviour of their own:

| Component | State it keeps | Operations | Hard behaviours |
|-----------|----------------|------------|-----------------|
| **Durable jobs** (`job-runtime`, `db-worker/src/jobs.rs`) | a row per job: state, attempt, due time, claim window, cancel request, commit marker, last outcome | schedule, reconfigure, delete, cancel, recover, list, claim, mark, five terminal writes | each step is its own transaction, so a request, a commit and an outcome can fall in any order; crash loops; attempts |
| **Backup export** (`finance-kernel/src/backup_jobs.rs`) | the item in the destination, the receipt | assemble, put, undo, read back, receipt | a cancel after the write, a failure between write and receipt |
| **Connector refresh** (`connector_refresh.rs`, `abandonable.rs`) | in-flight slots, the tasks' locals, abandoned calls | claim, decide, bind, fetch, commit, record | works *without* the controller's lock: lock, switch, forget, cancel and a second task all get in between |
| **Key rotation** (`finance-kernel/src/rekey.rs`) | sixteen files, a journal among them, and an advisory lease | prepare, commit, apply, roll back, recover | a crash or an error between any two file operations, a second process |
| **Vault lifecycle** (`vault.rs`, `vault_registry.rs`) | the controller's state, the registry | create, open, unlock, lock, delete, restore, change password, switch | partial failure of multi-file operations |
| **Command log** (`db-worker/src/lib.rs`) | operations, idempotency keys, hybrid clock | dispatch, replay, revert | retry of what was already done, a panic inside a transaction |
| **Sync counter** (`sync_counter.rs`, `sync_register.rs`, `witness.rs`, `sync_snapshot.rs`) | a register and a saved record in the vault, a witness in the keychain, a file per snapshot | reserve, reconcile, seal, discard | crash between the writes, restored backups, two callers |
| **Sync rebase** (`base_image.rs`, `db-worker/src/rebase*`) | base image and its row, outbox, scratch vault, queued commands | capture, verify, roll back, pull, replay, queue | commands that land meanwhile, ordering, refusal of a group |
| **Sync contract** (`sync-core`) | accepted index, void ledger, status, membership chain | push, retry, bind, void, verify | exactly once under retries, late pushes across a cutover, replicas that must agree |
| **Touch ID** (`touch_id/`) | one keychain item, and in its public tag the markers: fingerprint, boot, password stamp, failed prompts | enable, unlock, note a password, sweep, retire, disable | a prompt waits outside every lock; enable and a change of the key are two steps each |
| **Ingestion** (`ingestion.rs`, `staged_import.rs`) | staged rows, matches | stage, match, promote, void | a retry of a partly promoted batch |

The rest are pure computations (forecast, pay schedules, categorisation, importers, wire formats,
money), thin platform adapters, read models and user interface.

How they interact, as far as the models care:

- Every unlock opens a *window* (a fresh id) and spawns one task. The task first takes the
  controller's lock and runs the **job sweep** (recovery, then backup and every other due job),
  releases it, and then runs the **connector refresh**, which claims its rows under the lock and
  works on them without it.
- Both use the **durable_jobs** table. What the handler did durably and what the table records are
  different transactions; the *commit marker*, written in the transaction of the effect, relates
  them. A *cancel request* is a flag on the row, read by a watcher thread during a backup and by
  the sync itself during a refresh.
- **Sync** is a library so far: the register, the base image, the rebase, the decisions about
  pushes, voids and membership are in this code, the service and the engine that drive them are not.
  The models drive them as the documentation of each module says they will be driven, and
  `PROJECT.json` marks those definitions external.
- A **rotation** holds the controller's lock from start to end, so in one process it excludes the
  sweep's sections, imports and locks; other processes are kept out by the lease file. Startup
  recovery runs when the controller is created or pointed at another vault.

### What makes them correct

- *Jobs*: the recorded outcome is what the run did; a claim is held until its terminal write; a
  cancelled run leaves no trace; crashes are bounded by the attempt budget; no row is stuck.
- *Refresh*: one walk per connection; a cancelled run wrote nothing; the commit writes to the vault
  and the connection the sync started with; every slot is freed.
- *Rotation*: at every instant exactly one of the old and the new vault is whole and is the one the
  next start opens; no acknowledged write is lost; nothing stays under a retired key.
- *Sync counter*: no counter is ever used twice, nothing is sent from a rolled-back vault, a crash is
  not taken for a rollback, a retry sends the same bytes.
- *Rebase*: the base is what the service last saw; every command is in the base, in the log after it
  or in the outbox; the rebuilt vault is the pulled order plus the local commands that still apply,
  whole groups only.
- *Sync contract*: a command is accepted once and its machine learns where; every member reads what
  was accepted; the log alone decides what is skipped.
- *Touch ID*: a prompt is shown only as the owner's rule allows; what an attempt writes late never
  undoes a password; an item never offers a key that does not open the vault.
- *Command log*: a command with one key takes effect once.

Where each of these can go wrong in a way that tests hardly reach is listed, line by line, under
"hazards" in `PROJECT.json`, together with the property that covers it or the reason none does yet.

## 2. The plan

| # | Modules | Status |
|---|---------|--------|
| 1 | `JobStore`, `JobSweep`, `JobSweepProofs` | modelled, checked, safety proved |
| 2 | `ConnectorRefresh` (uses `JobStore`), `ConnectorRefreshProofs` | modelled, checked, safety proved |
| 3 | `KeyRotation` implementing `AtomicVault`, `KeyRotationProofs` | modelled, checked, safety and refinement proved |
| 4 | `SyncCounter`, `SyncCounterProofs` | modelled, checked, safety proved |
| 5 | `SyncBase`, `RebasePlan`, composed in `SyncRebase`; `SyncRebaseProofs` | modelled, checked, safety proved |
| 6 | `SyncVoid`, `SyncVoidProofs` | modelled, checked, safety proved |
| 7 | `MemberChain` used by `SyncPush`, which implements `AppendOnce`; `SyncPushProofs` | modelled, checked, safety and refinement proved |
| 8 | `TouchId`, `TouchIdProofs` | modelled, checked, safety proved |
| 9 | `VaultLifecycle` (create, restore, delete, switch, registry), `CommandLog`, `Ingestion` | not started |

Every safety property of a passing run is a theorem. What would come next are the modules of row 9 with their own.

## 3. JobStore and JobSweep: durable jobs and the scheduled backup

**State.** `row` is the table: one record per job with the columns of `durable_jobs` that decide
anything. Times are abstracted to a due time that is absent, later or now (`TimePasses` makes it
now); window ids, which are UUIDs, are the number of the unlock. Retry delays and quiet hours are
not told apart from any other later due time. `vault`, `window` and `pending` are the host's
state. `pc`, `sweepWin`, `todo`, `snap`, `cur`, `token`, `exec` are the locals of
`JobRunner::run_due_inner` and its callees; `file` is the item of the current export.
`effect` (what the latest run committed) and `starts` (handler starts since the last success or
configuration) are history variables: no action reads them.

**Actions.** `Unlock`, `Lock`, `Crash` are the host; `ScheduleJob`, `ReconfigureJob`, `DeleteJob`,
`CancelJob` the callers of the table. The first three need the controller's lock. `CancelJob` may
fall between any two steps of the sweep, which is the reason the watcher exists. `BeginSweep` (recovery),
`ListDue`, `ExhaustedJob`, `ClaimJob`, `CheckRequest`, `PolicySkips`, `StartHandler`,
`HandlerReturned`, `Finish`, `EndSweep`, `StoreFails` are the runner, one action per transaction;
`BackupStart` … `FailureReceipt` are the export with its five looks at the token;
`WatcherCancels` is the watcher thread. Each statement's WHERE and SET clauses are operators of
`JobStore` (`ClaimMatches`, `ClaimedRow`, `RecoverRow`, `FailureMatches`, …); a statement that
matches no row changes nothing.

**Properties.** `RecordedOutcomeIsTrue` (what a row becomes when it leaves running agrees with what
the run committed), `CancelLeavesDestination`, `AttemptBudget`, `ClaimIsHeld`, `CancelIsFinal`,
`NoRowStuckRunning` (liveness).

| Run | Bounds | What it shows |
|-----|--------|---------------|
| `job_sweep` | 1 job (the backup), 2 attempts, 3 unlocks, every fault but a failed marker read | every interleaving of a request with every step of an export, with failures and crashes. Two attempts are the fewest with a retry and a last attempt; three unlocks are one for each plus one in which the exhausted row is met (`backup_jobs.rs` uses three attempts; the third differs from the second in nothing but the count) |
| `job_sweep_two` | 2 jobs (the other without a handler and scheduled once), 2 unlocks, export failures | the second row's turn comes with stale data from the list; under fairness no row stays running |

**Fairness.** Weak fairness of the sweep's steps, of the handler's steps and of `Unlock`: the
thread that runs them is not descheduled for ever, and a user who keeps using the program unlocks
it. None of a request, a configuration, a crash, a lock, time or the watcher is assumed to happen.
`Lock` and `Crash` are bounded by `window < MaxUnlocks`, so the last session stays up: a row that
is left running by the *very last* crash of the vault's life is of course never recovered.

**Faults.** `"watch"`, `"store"`, `"receipt"`, `"export"`, `"marker"`: which fallible calls may
fail. `"marker"` (the runner's own read of the commit marker) is in no listed run, because with it
`RecordedOutcomeIsTrue` fails: see section 12.

## 4. ConnectorRefresh: bank connections

**State.** `row` is the same table, one row per connection; `conn`, `mapped`, `recent` are what the
refresh reads of a connection (linked or forgotten; with a mapped account or not; recently
refreshed or not, with "old" for a stamp that will have aged when the next due time comes); `path`
and `open` the controller; `task[w]` the locals of the task of each window, from
`run_due_connector_refresh` down to `connector_sync_inner`; `slot` is `connector_syncs_in_flight`;
`orphan` the abandoned provider calls that have not ended; `manual` the manual syncs.

**Actions.** `Unlock`, `Lock`, `SwitchVault`, `Crash`, `Link`, `Forget`, `MapAccount`,
`SetCadence`, `CancelJob`, `ManualStart`, `ManualEnd` are the user; `TimePasses` and `StampAges`
the clock. The task: `PostUnlockSweep`, `Claim` (all due rows under one lock), `Decide`,
`BindVault`, `ReadLinks`, `ReadCredential`, `FetchEnds`, `Abandon`, then the commit section
`CommitStart`, `WriteLinks`, `WriteBatch`, `Stamp` or, for errors, `RecordIngestFailure`,
`LookBeforeFailure`, `RecordProviderFailure`, and `Finish`. `OrphanEnds` is the abandoned call's own
thread. A section that takes the controller's lock and finishes under it is one step; the commit
section is several transactions and so several steps, with the lock held (`LockFree` is false).
A crash can fall between any two of them, and inside a `Forget`, whose two writes are two
transactions.

**Properties.** `OneWalkPerConnection`, `CancelledRunWroteNothing`, `CommitHoldsVault`,
`RequestStopsCommit`, `LedgerRunNeverCancelled`; liveness `NoRowStuckRunning` and `SlotFreed`.
`LedgerRunNeverCancelled` is stated for a row that is held by no task but the one whose claim it
carries, because recovery can give a row to a second task while the first still works for it (section
12): what the first then records, by id alone, falls on the later claim. It is not enough to count
the holders: with three unlocks the overtaken task can finish, unrequested, over a later run that
imported, when that run has already let go of the row. The proof attempt showed this; two unlocks
are one too few for it.

| Run | Bounds | What it shows |
|-----|--------|---------------|
| `refresh` | 1 connection, 2 vaults, 2 attempts, 2 unlocks, dead threads and failing writes | two tasks meet on one connection, beside manual syncs and abandoned calls; two vaults because what matters is *another* vault. Two tasks suffice: a third one adds a third walker that the same slot keeps out |
| `refresh_live` | the same with 1 vault, failing writes | no row stuck, no slot leaked, under fairness |

One connection is enough for the properties about slots and commits because tasks meet only on the
same connection and the loop over connections shares nothing but the lock; a sweep of two
connections was checked once while the model was written and is too large to be run routinely.

**Fairness.** Weak fairness of each task, of an abandoned call's end and of a manual sync's end: they are threads
of a live process, and a provider call ends by its answer or its transport's timeout. `Unlock` as
above. `refresh_live` does not check for deadlock: when every connection is
forgotten, every task has ended and the last unlock is used up, nothing is left to do.

## 5. KeyRotation and AtomicVault: changing the key

**State.** `disk` has the vault's files by name, each absent or with what recovery can tell of it:
for a database the key it is under and its rows, for an envelope the key it wraps, for an image its
key and whether it can be read, for the journal its contents. `blobs` is the set of names in the
attachment directory; a name is the attachment and the key, since the code derives names from the
key. `lease` is the advisory lock. `ctl[p]` is the `VaultController` of process `p` with the locals
of the operation it is in. `acked` (history) are the imports reported to the user.

**Actions.** Every file operation is a step, and `FileOp` lets each one succeed, fail without effect
or fail after its effect; `OnError` is what the code does next. `RotateKey`, `BeginExport` …
`Verify` are prepare; `InstallJournal` with `CommitWrite` the commit, with the read-back of a
commit whose rename landed but whose directory sync failed; `ApplyStep` and `RollBackStep` walk the order of
the code's steps; `FinishRotation`, `RecoverAfterFinish`, `Reopen` the end; `Open` with `Decide` is
startup recovery; `ReadEnvelope`, `OpenWorker`, `Import`, `TornImport`, `Lock`, `Crash` the rest of a
vault's life.

Besides the bounds, `RotationAssumption` says only that `None` is no process, no key and nothing a file can hold. The types (`Database`,
`Image`, `Journal`, `Disk`) name exactly what recovery can meet in a file.

**Abstract specification.** `AtomicVault` has a key and rows; a write adds a row, a rotation
replaces the key in one step. `KeyRotation` implements it (`ImplementsVault`): `AuthKey` and
`AuthDb` say which files are *the* vault, the journaled ones from the commit on, the live ones
before.

**Properties.** `VaultWhole`, `WritesKept`, `RetiredKeyGone`, `KernelKeyFits`,
`CorruptOnlyAfterFault`, `ImplementsVault`; liveness `OperationEnds`, which also says that a vault
reported as corrupt heals when it is opened again.

| Run | Bounds | What it shows |
|-----|--------|---------------|
| `rotation` | 1 process, 2 attachments, 3 keys (two rotations), 2 crashes, 1 failing operation | a crash inside a rotation and one inside its recovery, with an error anywhere; a second rotation over what the first one left |
| `rotation_errors` | 2 attachments, 3 keys, 2 failing operations, 1 crash that may fall inside an import; a second process that starts once these are spent (`SecondIsLate`) | an error in the handling of an error; the lease keeps a second process out at every moment |
| `rotation_overwritten` | 2 processes, 1 crash | *violation*, section 12 |

`SecondIsLate` loses nothing of two processes without a fault, because crashes and failing operations
can be spent before anything else happens; a crash *beside* a second process is `rotation_overwritten`.
Two attachments tell "every row's blob" from "the row's blob", and let one write come before and
one after a rotation. Three keys make a leftover of the first rotation visible to the second. The
crash bound is one more than the nesting of recovery needs: recovery's state is the disk, so a
third crash meets a disk two crashes can already leave.

**Fairness.** A begun operation goes on (`Proceed`), and a user opens a vault that is not open
(`Open` outside "Locked"). Crashes are bounded, not fair.

**What a crash keeps.** Completed file operations survive in their order. A power loss that
reorders the directory's metadata is not modelled; the code syncs files and directories at the
points where it relies on the order.

## 6. SyncCounter: a nonce is used once

**State.** `register` is the row of one key's context (the next counter, absent before the first
reservation), `saved` the record beside it of the sealed snapshot that may be sent again, `witness` the
value outside the vault that a restore does not take back, `files` the saved containers, `backup` the
vault's rows in an export. `call[c]` is a thread inside `reserve`, `reconcile`, `SnapshotSealer::seal` or
`discard`, with what it has read. `uses`, `restored`, `live` and the field `alone` are history.

**Actions.** Every call on the store, the witness or a file is a step: `ReadRegister` and
`ReadWitness` are `check`; `BearContext`, `CommitAdvance` (a compare-and-set) and `AdvanceWitness` are
`reserve`; `ReadSaved`, `ReadFile`, `ReadPrevious`, `Encrypt`, `WriteFile`, `RecordSaved`, `RemoveOldFile` are
`seal`; `Forget`, `ClearSaved`, `Unlink` are `discard`; `RaiseWitness` is `reconcile`. Any of them can fail
(`Fails`), and a witness or a file write can take effect and still report a failure. `Crash`,
`LoseFile`, `ExportBackup` and `RestoreBackup` are the environment.

**Assumptions.** One live copy of a vault writes to one witness (two copies of a vault that are both
open share its process lock only if they share its path), and the witness never forgets or goes back:
that is the contract of `platform-traits/src/witness.rs`, whose implementation is the keychain's.

**Properties.** `NonceUsedOnce`, `NothingSentRolledBack`, `CrashIsNotLoss` and `ResendsSameBytes`. The last
two are about a call that no other call overlapped (`alone`): with a second caller between the read
of the register and that of the witness, `check` can report a loss that is none (section 12).

| Run | Bounds | What it shows |
|-----|--------|---------------|
| `sync_counter` | 2 callers, 2 snapshot ids with one content, counters 0 and 1 | each of two callers can hold a counter while a restore takes the register back, and the cap is reached; two ids because the record of one snapshot displaces another's file. A third counter repeats the second. Callers, ids and contents are symmetric, and no liveness is checked |

## 7. SyncBase, RebasePlan and SyncRebase: the base image and the rebase

**State.** `cmd` are the commands of this device in order (a command's place is its id) with their
group, cause and rows; `done` the live vault's operation log, `outbox` the unpushed ones. `row` is
`sync_base`, `image` the file it vouches for, `temp` and `capture` the capture in progress. `server` is the
service's log and `known` how much of it the vault holds. `rebase` is the scratch vault with the
executor's locals. `slipped` is history.

**Actions.** `Dispatch` is a command's transaction (mutation, log row, outbox row while Sync is on).
`BeginCapture` to `CommitRow` are the phases of `capture_base_image`; commands land between them, except
while the writer's lock is held. `Reconciled` is what an unlock does about a missing or foreign image.
`BeginRebase` and `CopyBase` are `rollback_to`, `ApplyPulled` one envelope, `ReadLocal`, `Trial`, `ReplayNext` and
`QueueRest` the executor: a command the new base refuses queues its group and starts the next trial
from the copy. `Abandon` is any error. `AcceptPush`, `CleanPull`, `OtherPushes` and `Stop` are the engine,
the service and the host; `LoseImage` and `RestoreBackup` the filesystem and the user.

`RebasePlan` is pure: `Plan` is the code's root-by-root closure over the outbox, `LeastClosure` the
reference definition. The bounds are numbers, with `MaxDispatch <= MaxLocal`, and `None` is no record
(`SyncBaseAssumption`).

**Properties.** `BaseIsServerState`, `NothingUnaccounted`, `PlanIsLeastClosure`, `RebuiltVaultIsWhole`. A command
that lands while the very first image is stripped, when Sync is still off, has neither an outbox row
nor a place in the image; `NothingUnaccounted` and `RebuiltVaultIsWhole` leave out exactly those
(`slipped`, section 12).

| Run | Bounds | What it shows |
|-----|--------|---------------|
| `sync_rebase` | one contested row; 2 commands dispatched by steps and 1 from elsewhere, 2 images; and every outbox of 3 commands in the middle of a rebase | the first part reaches a capture interrupted at every phase, an advance on an older base and a restored backup; the second starts from every combination of groups, causes and touched rows that three commands can have, because the closure needs three to pull a command in through another one. One row suffices: the plan asks of a command only whether it touched a contested row |

## 8. SyncVoid: replicas that skip the same positions

**State.** One replica: `status` is `SyncStatus`, `next` the frontier, `pulled` how far it has read, `ledger`
the honored voids, `root` and `permit` a rebootstrap, `version` its engine build. `log` is what the
service keeps: envelopes with a verdict (valid, refused by the receiver's checks, refused by the
apply) and an engine version, and voids.

**Actions.** `Pull`, `Check` (the receiver checks, on any pulled position, also ahead of the frontier and
behind it), `Apply`, `ApplyFails`, `ApplyForks`, `ChainForks`, `Offer` (`offer_in_order` up to the first void
that changes the replica), `TakePermit` and `Install` (rebootstrap), `Restart` with another build.
`CheckShown` is a service that shows another envelope. `Outcome` is `offer_one`, in its order of
conditions.

**One replica is enough.** What the log alone decides is written beside the replica: `Frontiers` and
`SkippedBelow` follow from the log. A replica that always agrees with the log agrees with every other
one, which is what `void.rs` promises ("two replicas that see the same log in any order build the
same ledger").

**Assumption.** The snapshot a replica installs is another honest replica's: its ledger is the one the log
decides at its frontier.

**Properties.** `LogDecides`, `LedgerParses`, `SpamNeverBlocks`.

| Run | Bounds | What it shows |
|-----|--------|---------------|
| `sync_void` | 4 positions, 2 builds, one envelope or fork shown to this replica only | every log of two envelopes, at least one of them poisoned, and two voids that name either of them, truthfully or not, or one void twice; two voids are what it takes for one to block or repeat another |

## 9. MemberChain, SyncPush and AppendOnce: a command enters the log once

**State.** The service: `chain` (membership and epoch records), `place` (the head of the log at which each
epoch record was installed), `log`, `index`. Each machine: the `device` it is enrolled as, the `view` of the
chain it has verified, how far it has `pulled`, whether it `halted`. `box` is the outbox entry of a
command: committed, sealed and verified, saved, bound. `wire` holds every push ever sent: each may
arrive any number of times, or never, and its answer may be lost.

**Actions.** `Seal`, `Persist`, `Crash`, `Upload`, `SealAgain` are the producer; `Push` with `Answer` the service's
transaction (replay lookup, checks, compare of the base with the head, append and insert);
`InstallRecords` a cutover, grant or rotation by any member; `Fetch` a page of the chain, `Pull` the next
envelope judged at its position (`Verdict` is `classify_envelope`) and matched with the outbox; `Enroll` a
machine whose device was revoked and that comes back as another one with its outbox.

**Assumptions.** The lookup, the append and the insert are one transaction of the service
(`accepted.rs` demands it); records are honestly signed, the chain has no fork; a device that is
revoked stops pushing successfully at once, because the service authenticates it. The beginning is a
chain that verifies from its first record (`StartVerifies`), and every machine is enrolled as a device, every
command in the outbox of a machine (`MachinesAreEnrolled`).

**Abstract specification.** `AppendOnce`: a log to which each command and each idempotency key is appended
once, and an issuer who is told once, at the position where the bytes it saved are.

**Properties.** `AppendsOnce` (the refinement), `NoForkAlone`, `MembersRead`.

| Run | Bounds | What it shows |
|-----|--------|---------------|
| `sync_push` | 2 machines with a command each, keys equal or not, 2 seals, 4 devices of which one can be granted and any revoked, one installation of records beyond the three of the beginning | a push delayed across a cutover, a grant or a rotation at any position; a seal under the old epoch and a second one under the new; the same command from two devices of one machine. One installation is enough for each boundary, because a verdict looks at the newest record before a position. The run does not check for deadlock: when every command is bound and every bound is used up, nothing is left to do. Keys are symmetric |

## 10. TouchId: when a finger may stand for the password

**State.** `item` is the one keychain item of the active vault: the key it releases and its public tag,
which holds the markers. A key is the number of the envelope that wraps it, which is also the
envelope's fingerprint; `env` is the envelope on disk. `vault` is the controller, `boot` and `clock` the
machine, `running` the attempt that set `attempt_running`. `att[a]` is a call of `touch_id_unlock` with what it
read before the prompt, `cmd[t]` where a thread is in its command. `password` (the last note of a
password), `shown` (prompts since then that no finger answered, which is why an attempt carries
`charge`) and `missed` are history.

**Threads.** Attempts run on the blocking pool; between the count and the answer they hold nothing. The
main thread runs the synchronous commands one after another (`PasswordUnlock` with the note that
follows it, `LockVault`, `Enable` with `Install`, `Disable`, a password change); a rotation and the sweep at
launch are on threads of their own. One action is one holding of the controller's lock, one of the
markers' mutex, or one call of the store, and each call of the store may fail.

**Actions.** `BeginUnlock`, `ReadFingerprint`, `Count` or `Refused`, then what came of the prompt: `Unmatched`,
`LockedOut`, `Matched`, `Restore`, `Retire`; a released key is tried by `Open`, and `RestoreStale` with `Retire` follow
a key of another envelope. `VerifyCurrentPassword`, `RetireBeforeChange`, `ChangeKey`, `RetireAfterChange` are a
change of the key by either thread. `Tick`, `Crash` and `Restart` are the environment; a restart begins a new
boot, a crash does not.

**Properties.** `PromptRule` (the owner's rule K1 to K3, said of the history and not of the markers),
`MarkersCarryPassword`, `OfferedItemOpens`, `RetiredItemGone`.

| Run | Bounds | What it shows |
|-----|--------|---------------|
| `touch_id` | 2 attempts, 2 failed prompts allowed, an age of 1 tick and a clock that ticks once, 2 envelopes, 1 crash or restart | the second attempt is the one that finds the first still at its prompt, or starts between its answer and its last write; two failed prompts are the fewest with one left and none left; one tick makes a stamp too old; one change of the key makes an item stale. Attempts are symmetric, and no liveness is checked |

**Fairness.** None: a person may leave a prompt up for ever, and nothing waits for it but the next attempt.

## 11. Proofs

All theorems hold for every value of the constants that satisfies the module's assumptions. Each
inductive invariant was checked by TLC, as an invariant of the component's run, before it was proved.

`JobSweepProofs`, for every set of jobs, attempt budget and number of unlocks (`JobsAssumption`):

- `TypeCorrect`: `Spec => []TypeOK`.
- `ClaimHeld`: `Spec => []ClaimIsHeld`.
- `OutcomeIsTrue`: `Spec => RecordedOutcomeIsTrue`, if `"marker" \notin Faults`, that is, the runner's
  read of the marker does not fail; without this it is false (section 12).
- `CancelledExportLeavesNothing`: `Spec => []CancelLeavesDestination`.
- `CancelledStaysCancelled`: `Spec => CancelIsFinal`.
- `HandlerStartsBounded`: `Spec => []AttemptBudget`.

*The argument.* That an outcome is true is not inductive: it needs to know, at the terminal write,
that the marker in the row and the effect agree and that the execution the runner holds is about
that effect. `RunInvariant` says so at every step of a run. Its parts:

1. `ClaimIsHeld`: from the claim to the terminal write the row is running. No other action moves a
   running row: `CancelRow` only sets the request, `ReconfigureRow` and `DeleteRow` refuse it, and
   recovery runs only at the beginning of a sweep, while the controller's lock excludes a second one.
2. `MarkerIsEffect`: while a row is running its marker is what the run committed, because both are
   written in one transaction and the claim clears both.
3. Rows that are listed but not claimed are not running, and a run that has not come to its receipt
   has no effect yet.
4. What the handler reports and the runner is about to record is the truth about the effect:
   "Committed" only with a success, "Failed" only without one, "Cancelled" only without any effect.

Each action is a step of the proof and each conjunct it can disturb a step below it. The effect of
every statement on a row is a lemma about an operator of `JobStore`. A cancelled export needs besides
what the item is at each step of the handler (its undo runs before it reports); the budget needs
that `starts` is never above the row's attempts, and below them from a claim to the handler's start.

`ConnectorRefreshProofs`, for every set of connections and vaults, attempt budget and number of
unlocks (`RefreshAssumption`):

- `RefreshTypeCorrect`: `Spec => []TypeOK`.
- `OneWalk`, `CommitIsBound`, `RequestStops`, `CancelledIsEmpty`, `LedgerRunKeepsOutcome`: the five safety
  properties of the run.

*The argument* (`Safe`): a slot has an owner, and whoever walks a connection, a task, an abandoned call or
a manual sync, is the owner (`SlotOwned`); an overtaken task keeps its slot, since nothing takes one away.
The task inside a commit section holds the controller's lock, so neither lock nor switch nor forget
falls between its check and its last write (`CommitHeld`). As long as a row carries a task's window, a run
of that task which has not begun to write has no effect (`Honest`), and the marker of a running row tells
whether the run imported (`MarkerTrue`). Once recovery has given the row away, nothing is claimed about
the first task, which is the hypothesis of `LedgerRunKeepsOutcome`.

`KeyRotationProofs`, for any attachments, keys, number of crashes and of imports (`RotationAssumption`):

- `RotationTypeCorrect`: `Spec => []TypeOK`, for any number of processes and faults.
- `OldOrNew`: `[]VaultWhole`; `WritesSurvive`: `[]WritesKept`; `KernelKeeps`: `[]KernelKeyFits`;
  `CrashesHeal`: `[]CorruptOnlyAfterFault`; `RotationIsAtomic`: `ImplementsVault`, the refinement of
  `AtomicVault`. These are for one process and at most one failing operation.
- `NothingRetiredStays`: `[]RetiredKeyGone`, for one process, at most one failing operation and no torn import.

*The hypotheses are needed.* With two processes `WritesKept` is false: that is the run
`rotation_overwritten`. With two failing operations `VaultWhole` is: the hazard at `rekey.rs:592`. A torn
import leaves a blob that no rotation re-addresses: the hazard at `rekey.rs:677`. `WritesKept` and
`KernelKeyFits` are also checked by TLC with two failing operations (`rotation_errors`).

*The argument* has three layers.

1. *Types and the lease*, for any number of processes. A process that works on the files of a rotation
   holds the lease, so at most one does; whatever step it is at, the files that the step opens exist
   and open under the key it has at hand.
2. *The two vaults* (`Whole`, which is `Fits` for every process). `Old`: nothing is committed, and the live
   files are the vault under its key, with every acknowledged row. `New`: the journal says committed, and
   each file it names is whole, either staged or already in place. Until the journal is installed `Old`
   holds and no step of prepare touches a live file; from then on `New` holds, and an apply step moves or
   removes one file, so it does not matter how many of them a crash leaves undone (`Done` says which are
   not). A key that a rotation generates is above every key on the disk. One failing operation is
   absorbed, because a commit whose directory sync fails is read back. For the refinement, `AuthKey`
   changes in the step that installs the journal and the rows in the one that imports; every other step
   is a stutter.
3. *The remains* (`Tidy`). Before the commit every blob is the vault's own or one the journal announces, and
   the journal names the vault's key as the old one; after it, every blob is one of the journal's old or
   new names (`Clean`). `Swept` says what the steps of apply and of roll back have removed; the journal goes
   last.

`SyncCounterProofs`, for every set of callers, ids and contents and every last counter
(`CounterAssumption`):

- `CounterTypeCorrect`: `Spec => []TypeOK`.
- `NonceNeverReused`: `Spec => []NonceUsedOnce`.
- `RolledBackVaultIsSilent`: `Spec => []NothingSentRolledBack`.
- `LossMeansRestored`: `Spec => []CrashIsNotLoss`.
- `RetriesSendTheSame`: `Spec => []ResendsSameBytes`.

*The argument.* A used counter is below the witness (`UsedBelowWitness`), and a counter that is committed
but not used yet is below the register and differs from every other one in hand (`HandFresh`,
`HandsDiffer`). A caller that has only read may be overtaken; what saves it is the compare-and-set: *if*
the register still is what it read, then everything used or in hand is below the counter it would
take (`GrantFresh`, with `ReadBehind`). A restore takes the register back and ends every call; from
there on `check` passes only when the register has caught up with the witness, and the witness
never goes back. A failing call leaves a counter burnt, never free.

The last two theorems need a second layer (`SoloInv`). No call in progress is alone beside another one, so
what a call alone has read is still so (`AloneUndisturbed`). In a vault that was never restored register,
witness and record agree (`NeverBehind`), and the witness exists before the first advance (`Witnessing`);
so a call alone finds no loss. While a container is the last one handed out, it is the recorded one, its
file is whole, its counter is below the register, and whoever is at work is alone (`LiveKept`): a retry
finds it.

`SyncRebaseProofs`, for any rows, commands, entries of other devices and images, and outboxes of every size
and shape (`SyncBaseAssumption`):

- `RebaseTypes`: `Spec => []TypeOK`.
- `BaseIsAlwaysServerState`: `Spec => []BaseIsServerState`; `EveryCommandAccounted`: `Spec => []NothingUnaccounted`.
- `PlanAlwaysLeast`: `Spec => []PlanIsLeastClosure`; `RebuiltAlwaysWhole`: `Spec => []RebuiltVaultIsWhole`.

*The argument* (`Safe`) has three parts.

1. *One log.* No command is in the service's log twice, and other devices' entries are numbered as they come
   (`LogOrdered`). The live vault, and a backup with the outbox it was exported with, `Follows` that log up to
   an entry: it holds all entries up to it, and of the later ones only those its outbox still names, which is
   how a restored backup comes to hold a command that was accepted after it was made. A push and a pull move
   the entry; `FollowsGrows` says that other devices' entries change nothing.
2. *The record and its image.* An image says something only if its digest is the row's, so the invariant is
   about that case alone: then the image is the vault's `Base` at the row's entry, for the live row and for the
   backup's (`Stands`). Losing the image makes the claim empty, and a new image has a digest no earlier record
   names, except while its own record is being written (`Settled`). A capture carries the claim with it,
   phase by phase (`Capturing`): no unpushed command at the copy, and what lands afterwards lands in the
   outbox too.
3. *The rebase.* While it pulls, all entries up to its head are in the scratch vault, and none of its outbox
   but those (`Rebasing`). When the outbox is read at a head not behind the live vault's, what is seen is in
   the pulled order or local (`Trying`); a trial adds planned commands in ascending order, and a refused one
   leaves the pulled order, from which the next trial starts.

That the plan is the least closure (`PlanIsClosure`) is a statement about two recursive functions. The frontier
of a root has as many rounds as the outbox has commands; a round that adds nothing is the last, and rounds
that all add something would find more commands than there are (`FrontierIsLeast`). Root after root, what is
queued is the closure of the roots so far and each command's root pulls it in (`RootClosed`). Both go by the
least-number principle on the rounds and the roots (`Count`), as does the ascending order of a push
(`OrderExists`).

`SyncVoidProofs`, for every log, length, set of builds and number of restarts and snapshots
(`VoidAssumption`):

- `LedgerAlwaysParses`: `Spec => []LedgerParses`.
- `LogAloneDecides`: `Spec => []LogDecides`.
- `TruthfulVoidHeard`: `Spec => []SpamNeverBlocks`.

*The argument.* A void is honored only at the frontier and stands behind it, and every range of the
ledger ends below the frontier, because a context in which one does not is refused; so each new range
extends an ascending sequence. That the log alone decides is an argument about `Frontiers`, the least set
that holds the first frontier and with each one the next (`FrontiersLeast`): frontiers are ordered as
their voids are (`FrontierOrder`), a void that changes a replica is the one the log honors there
(`GenuineChanges`, `HonoredIsDecided`), so the replica's frontier is always one of `Frontiers` and its skipped
positions those of `SkippedBelow`. The recursive function of `Frontiers` is reasoned about with the
least-number principle, which follows from the well-foundedness of `<` (`LeastNumber`): no smallest
position is where the two differ.

`SyncPushProofs`, for any commands, keys, machines, devices, beginning chain and number of seals and records
(`BoundsAreNat`, `StartVerifies`, `MachinesAreEnrolled`):

- `PushImplementsPromise`: `Spec => AppendsOnce`, the refinement of `AppendOnce`.
- `NoForkOfOnesOwn`: `Spec => []NoForkAlone`; `MembersAlwaysRead`: `Spec => []MembersRead`.

*The argument for the promise* (`PushInv`): the index is exactly the log; an envelope on the wire or in an
outbox entry is of a known command, and an entry's envelope is of its own command. A push the index does not
know therefore repeats no command and no key of the log (`UnknownIsNew`), a replay's position is where the
very bytes are (`ReplayIsKnown`), and a pull binds only the envelope that is saved. Every other action is
a step of the outbox, or a stutter. Membership decides whether a push is accepted, never whether it
is accepted twice, so this part needs nothing of it.

*The argument for the other two* (`Whole`) does need it.

1. *A verified chain* (`ChainWhole`). `extend` is two folds, over membership records and over epoch records. A
   fold is a run: a sequence of chains, one per record (`FoldRuns`), so what holds of the first one and is kept by
   one record holds of the last. Kept are: each step has the version of its place, a device is added once
   and revoked after that (`MembershipAppends`); epochs do not go back, and the last record of an epoch
   names the head whose members are exactly the recipients of that epoch's key, over all its records
   (`EpochAppends`, by cases of the reason table). A page only continues a chain (`ExtendFollows`), so every view
   is a beginning of the service's chain (`Chains`), which says the same of the members at any version
   both have (`FollowsMembers`).
2. *The position decides* (`Judged`). For every position of the log, the newest record placed before it has
   that envelope's epoch, and its sealer is a member at that record's head; a record installed later is
   placed at the head of the log and moves no earlier position. The last record of the same epoch may name
   a later head, but only one that adds members. `MembersRead` follows (`ReadByMembers`).
3. *An envelope given up stays given up* (`Owned`). `SealAgain` gives up only an envelope that is `Stale`: of
   an old epoch, on a base behind the head, or by a device that is gone, and nothing the service does makes
   it less so (`StaleStays`). A push of bytes that are not the saved ones is stale, so whatever is accepted is
   what its machine saved, and each command is in the log once. Then `decide_push` and `match_pulled` find for
   a saved envelope either itself or nothing (`NoForkPushed`), unless two commands share a key.

`TouchIdProofs`, for any attempts, limit of prompts, age, clock, keys and number of stops
(`TouchIdAssumption`):

- `PromptsFollowRule`: `Spec => PromptRule`.
- `MarkersNeverOlder`, `OfferOpens`, `RetiredKeyHeldByNone`: `MarkersCarryPassword`, `OfferedItemOpens` and
  `RetiredItemGone` always hold.

*The argument* (`Safe`): one attempt is in flight at most (`OneAttempt`), so the markers beside an item are
written by that one or by a password. The count in the markers is never below the prompts that no
finger answered (`PromptsCounted`), and one above them while an answered prompt has not been given
back (`ChargeFits`); a password resets both and makes the prompt in flight "old", whose count is then
not found in the markers, so it is given back to nobody. What an attempt may still write is a
fingerprint of the item's key or of an envelope that is gone, and an enable that holds its material
is not older than any marker beside it (`FingerprintsFit`): therefore no write makes an item look like
the current envelope's when it is not. The steps that write no markers share one lemma (`Kept`),
those that write an attempt's another (`Rewritten`), those that note a password a third
(`NotedSafe`).

The type invariants of `JobSweep`, `SyncCounter` and `TouchId` are in no run, because the theorems cover them
for every instance (`TypeOK` is a conjunct of `Safe`). That of `SyncPush`, which says also that the index is the
log and that every chain held verifies from its first record, holds under `SyncPush.cfg` when it is added
there; the run keeps to the properties that are about a hazard.

*Only model-checked*: liveness (`OperationEnds`, `NoRowStuckRunning`, `SlotFreed`), which the prover does not
handle: it needs ENABLED for the fairness. What a RECURSIVE operator computes is out of the prover's reach
too; what a recursive *function* or a fold computes is not, by the least-number argument (`Count`).

## 12. Where code and documentation disagree

One run ends in a counterexample on purpose. `rotation_overwritten`: a process that had deferred its
recovery unlocks by password after the rotating process died behind its commit; what it then writes
is discarded when the journal is rolled forward. Only the Touch ID unlock refuses while a journal
exists. `PROJECT.json` ("findings") quotes the lines of ADR 0083 that rely on the opposite.

Seen while modelling, each reproduced once with TLC and without a routine run; most are also listed
as hazards:

- *Last attempt.* The process dies after the receipt of the last allowed attempt and before the
  terminal write. Recovery requeues the row, marker or not, with the attempt counted; the next sweep
  fails it for good although the backup exists.
- *Two holders.* Recovery takes every running row for an orphan. The refresh does not hold the lock,
  so lock and unlock during a fetch give one row two tasks. The slot still keeps the walk single; the
  second task counts the connection as done. The first one's outcome is written by id (`WHERE id = ?1 AND
  state = 'running'`), so it lands on the second one's claim: a run that imported can be recorded as
  cancelled. `LedgerRunNeverCancelled` leaves out exactly this.
- *Skips.* A claim counts an attempt and a skip does not give it back: a connection that is recent at
  `max_attempts` unlocks in a row ends as failed, although a skip is said to leave it eligible.
- *Refused process.* A process whose unlock is refused because another one rotates classifies with the
  journal in view and reports a corrupt vault.
- *Marker read.* If the runner's read of the marker fails while a request is pending, Cancelled is
  recorded over a committed failure receipt.
- *Links.* The discovery pass writes links in a transaction without the marker; a request with a
  later failure is then recorded as Cancelled over those links.
- *Two faults in one rotation* (the commit's directory sync, then reading the journal back) roll a
  committed journal back. The model allows it (`CommitWrite`, `AbortPrepare` with no journal); the
  old vault stays whole and no write is lost, but the commit is not final, contrary to ADR 0083 §2.
- *Torn import.* A crash between a blob and its row leaves a blob that no rotation re-addresses.
- *Side files* of an image copy survive a second crash, because the stray check does not look for them.
- *Check beside a reservation.* `check` reads the register and the witness in two calls. A caller whose
  two reads straddle another one's reservation finds the witness ahead and reports `NonceStateLost`,
  which condemns a healthy key. `SyncCounter` allows it; `CrashIsNotLoss` is stated for a call alone.
- *First capture.* With Sync off no command gets an outbox row, and the writer is free while the first
  image is stripped (`base_image.rs`, phase 2): a command that lands then is in neither, and the first
  rebase would not bring it back, although ADR 0074 says of a rebase that "nothing is discarded".
  `slipped` are these commands.
- *Enable beside a rotation.* `retire_after_change` says that an enable that raced the change cannot
  survive it. An enable that read its material before the change and stores it after the second
  removal does survive, until the next password unlock or sweep; it is never offered
  (`OfferedItemOpens`). `missed` names it, together with a change whose second removal fails, is skipped
  because the rotation failed after its commit, or is cut off by a crash.
- *Unavailable store.* `retire` takes every `Unavailable` for "holds no item", a locked keychain included,
  so a change of the key goes ahead with the old item in place.
- *Lock-out beside a password.* On a lock-out the markers read before the prompt are written over
  whatever stands there, also over those of a password noted meanwhile; the result asks for the
  password once more. In the same direction, a note or a sweep that read its fingerprint before a
  change of the key can delete an item stored after it.

## 13. Mutants

Every property of every passing run is tied to one definition with a plausible bug: a claim that
trusts the list, a recovery without the marker, a slot that is not kept by an abandoned call, a
journal removed early, a commit that trusts a reported error, an import without the controller's
lock, an advance that does not compare, a capture with unpushed commands, a closure that forgets
siblings, a void that covers without being honored, a service that looks up one identity only, a
cancelled prompt that gives its count back, and so on. Replacing the definition makes TLC violate that property under the run's own configuration.

## 14. Not modelled, and why

- *In the job modules*: manual backups and "run now" (the same function, no row); retry delays and
  backoff (a later due time); the package's bytes; errors of the scheduling calls.
- *In the refresh*: credentials and a missing adapter (both end as "not refreshable", a skip);
  currency holds and the attention list; request budgets; what a batch contains. The claim under the
  lock is one step, although it is a statement per row: nobody else reaches the table in between
  except a crash, which leaves a prefix that recovery treats row by row.
- *In the rotation*: a wrong password and too little space (both return before anything changes);
  the re-wrap of each attachment key (one with the export); the live images' side files; existence
  checks that misreport an I/O error as absence; blob names left behind when the journal could not
  be read back; change of password, deletion and restore.
- *In the counter*: two live copies of one vault with one witness, and a witness that forgets; both are
  excluded by the contract, not by this code. Cryptography, and the register's other contexts.
- *In the base and the rebase*: the swap that installs a rebuilt vault and the person's decision about
  a queued command, which are not in this code; the genesis reset and the row-by-row comparison;
  why a command is refused (any may be); the state `Rebasing` of `sync_base`, which nothing in this
  code sets; "auto iff untouched" is checked as the code has it, which is conservative. A restored
  backup's outbox may name commands the service already has; which of the twins wins is the engine's.
- *In voids*: whether a target can be determined from a void's bytes (a parser); signatures.
- *In pushes and membership*: forks of the chain and two records for one place, the genesis ceremony and
  its guard, custody of epoch keys, claims, approval of an upload by the user, forged records. The liveness of an
  engine that is not in the code is not claimed.
- *In Touch ID*: deletion of a vault and switching to another one (each vault has its own item);
  markers that cannot be parsed (the item is deleted, as a stale one); a clock that cannot be read (no
  prompt, or the item is deleted, which the model has); the platform's own access control, and what
  the screen is told.
- *Whole components*: see the notes in `PROJECT.json`. Dispatch with its idempotency keys is one
  transaction under one mutex. Calendar arithmetic, forecasts and money are pure; parsers, byte
  formats, cryptography, migrations, read models and the user interface have no interleaving that a
  model would show more about than their tests. The vault's lifecycle is the part of the host with
  behaviour that is left.

Symmetry is used only in `sync_counter`, `sync_push` and `touch_id`, whose interchangeable values no definition
tells apart and which check no liveness.
