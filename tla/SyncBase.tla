------------------------------ MODULE SyncBase ------------------------------
(***************************************************************************)
(* The base image of a replica: the copy of the vault a rebase restores,    *)
(* the row that vouches for it, and the outbox of the commands the service  *)
(* has not seen.                                                            *)
(*                                                                          *)
(* A capture reads the row and verifies the image it names, checks the      *)
(* outbox and copies the vault under the writer's lock, strips and hashes   *)
(* the copy with the writer free, and renames it into place inside the      *)
(* transaction that records it.  Commands land between the phases, the      *)
(* process stops anywhere, the image is lost, a backup without the image is *)
(* restored.  Pushing and pulling on a clean outbox are the Sync engine's,  *)
(* which is not in this code: they are modelled as the documentation of the *)
(* base image uses them.                                                    *)
(*                                                                          *)
(* Sources: crates/db-worker/src/base_image.rs, sync_state.rs and the       *)
(* command path of lib.rs; crates/finance-kernel/src/vault.rs (restore).    *)
(***************************************************************************)
EXTENDS Integers, Sequences, FiniteSets

CONSTANTS
    Rows,       \* class-1 rows that commands write
    MaxLocal,   \* bound: commands of this device
    MaxDispatch,\* bound: commands dispatched by steps, at most MaxLocal
    MaxRemote,  \* bound: commands the service accepts from other devices
    MaxImages,  \* bound: images captured
    None

VARIABLES
    cmd,      \* every command dispatched here, in order: its id is its place
    done,     \* ids in the live vault's operation log
    outbox,   \* ids in sync_outbox
    row,      \* sync_base: None with Sync off
    image,    \* sync/base.db
    temp,     \* the capture's private copy
    capture,  \* the capture in progress
    images,   \* images captured so far; an image's number stands for its digest
    server,   \* the service's log: [id, rows]
    known,    \* how many of its entries the live vault holds
    open,     \* a worker holds the vault
    backup,   \* a backup of the vault's file, taken with Sync on
    slipped   \* commands that landed during a capture made with Sync off (history)

liveVars == <<cmd, done, outbox, slipped>>
baseVars == <<row, image, temp, capture, images>>
engineVars == <<server, known>>
hostVars == <<open, backup>>

Locals == 1 .. MaxLocal
Remotes == MaxLocal + 1 .. MaxLocal + MaxRemote
Ids == Locals \union Remotes
Heads == 0 .. MaxLocal + MaxRemote
Digests == 1 .. MaxImages

\* A command's correlation group is named by the group's first command.
Commands == [group : Locals, cause : Locals \union {None}, rows : SUBSET Rows]
BaseRows == [seq : Heads, digest : Digests \union {None}, state : {"Ready", "NoBase"}]
Images == [digest : Digests, has : SUBSET Ids]
Phases == {"idle", "verify", "copy", "strip", "rename", "commit"}
Captures == [pc : Phases, mode : {"initialize", "advance"}, seq : Heads,
             recorded : BaseRows \union {None}, really : {"none", "Ready", "NoBase"}]

Backups == [done : SUBSET Ids, outbox : SUBSET Locals, row : BaseRows, known : Heads]

\* The bounds are numbers, and what is absent is not a record.
ASSUME SyncBaseAssumption ==
    /\ {MaxLocal, MaxDispatch, MaxRemote, MaxImages} \subseteq Nat
    /\ MaxDispatch <= MaxLocal
    /\ None \notin BaseRows /\ None \notin Images /\ None \notin Backups

Resting == [pc |-> "idle", mode |-> "initialize", seq |-> 0, recorded |-> None,
            really |-> "none"]

InitBase ==
    /\ cmd = <<>>
    /\ done = {} /\ outbox = {} /\ slipped = {}
    /\ row = None /\ image = None /\ temp = None
    /\ capture = Resting
    /\ images = 0
    /\ server = <<>>
    /\ known = 0
    /\ open = TRUE
    /\ backup = None

\* verify_base: only a file with the recorded digest is a base.
Verify(r) ==
    IF r.state = "Ready" /\ (image = None \/ image.digest # r.digest) THEN "NoBase" ELSE r.state

\* base_image_status
HasBase == row # None /\ Verify(row) = "Ready"

\* The writer's lock is held from the rename to the end of its transaction.
WriterFree == open /\ capture.pc # "commit"

Accepted(s) == {server[i].id : i \in 1 .. s}
After(s) == Accepted(Len(server)) \ Accepted(s)

\* Mutant: the outbox row takes the number the next log row will have.
Dispatch_NextRow ==
    /\ WriterFree
    /\ Len(cmd) < MaxDispatch
    /\ cmd' = Append(cmd, [group |-> Len(cmd) + 1, cause |-> None, rows |-> Rows])
    /\ done' = done \union {Len(cmd')}
    /\ outbox' = IF row = None THEN outbox ELSE outbox \union {Len(cmd') + 1}
    /\ UNCHANGED <<slipped, baseVars, engineVars, hostVars>>

(***************************************************************************)
(* dispatch: the mutation, its operation-log row and, while a sync_base row *)
(* exists, its outbox entry commit together.                                *)
(***************************************************************************)
Dispatch ==
    /\ WriterFree
    /\ Len(cmd) < MaxDispatch
    /\ LET c == Len(cmd) + 1
       IN  /\ \E g \in {c} \union {cmd[d].group : d \in done \intersect Locals},
                 k \in {None} \union (done \intersect Locals), w \in SUBSET Rows :
                  cmd' = Append(cmd, [group |-> g, cause |-> k, rows |-> w])
           /\ done' = done \union {c}
           /\ outbox' = IF row = None THEN outbox ELSE outbox \union {c}
           /\ slipped' = IF row = None /\ capture.pc \in {"strip", "rename"}
                         THEN slipped \union {c} ELSE slipped
    /\ UNCHANGED <<baseVars, engineVars, hostVars>>

(***************************************************************************)
(* capture_base_image.  The gate admits one capture at a time.              *)
(***************************************************************************)
CaptureEnds == capture' = Resting /\ temp' = None

BeginCapture(mode) ==
    /\ WriterFree
    /\ capture.pc = "idle"
    /\ images < MaxImages
    /\ capture' = [Resting EXCEPT !.pc = "verify", !.mode = mode, !.seq = known,
                                  !.recorded = row]
    /\ UNCHANGED <<liveVars, row, image, temp, images, engineVars, hostVars>>

\* Phase 0, without the lock: vouch for the recorded base.
VerifyRecorded ==
    /\ capture.pc = "verify"
    /\ capture' = [capture EXCEPT
                     !.pc = "copy",
                     !.really = IF capture.recorded = None THEN "none"
                                ELSE Verify(capture.recorded)]
    /\ UNCHANGED <<liveVars, row, image, temp, images, engineVars, hostVars>>

\* Mutant: unpushed commands do not refuse the capture.
Admitted_Unpushed ==
    /\ row = capture.recorded
    /\ IF capture.mode = "initialize"
       THEN capture.really \in {"none", "NoBase"}
       ELSE capture.really = "Ready" /\ capture.seq >= row.seq

Admitted ==
    /\ row = capture.recorded
    /\ IF capture.mode = "initialize"
       THEN capture.really \in {"none", "NoBase"}
       ELSE capture.really = "Ready" /\ capture.seq >= row.seq
    /\ outbox = {}

\* Phase 1, under the lock; a busy checkpoint or a failing copy ends it too.
CopyVault ==
    /\ capture.pc = "copy"
    /\ \/ /\ Admitted
          /\ temp' = [digest |-> images + 1, has |-> done]
          /\ slipped' = IF row = None THEN {} ELSE slipped
          /\ capture' = [capture EXCEPT !.pc = "strip"]
       \/ CaptureEnds /\ slipped' = slipped
    /\ UNCHANGED <<cmd, done, outbox, row, image, images, engineVars, hostVars>>

\* Phase 2, the writer free: strip, vacuum, hash.
StripCopy ==
    /\ capture.pc = "strip"
    /\ \/ images' = temp.digest /\ temp' = temp /\ capture' = [capture EXCEPT !.pc = "rename"]
       \/ images' = images /\ CaptureEnds
    /\ UNCHANGED <<liveVars, row, image, engineVars, hostVars>>

\* Phase 3, under the lock to its end: the rename, then the commit of the row.
RenameCopy ==
    /\ capture.pc = "rename"
    /\ \/ /\ row = capture.recorded
          /\ image' = temp
          /\ temp' = None
          /\ capture' = [capture EXCEPT !.pc = "commit"]
       \/ image' = image /\ CaptureEnds
    /\ UNCHANGED <<liveVars, row, images, engineVars, hostVars>>

\* Mutant: recording a base empties the outbox.
CommitRow_ClearsOutbox ==
    /\ capture.pc = "commit"
    /\ row' = [seq |-> capture.seq, digest |-> images, state |-> "Ready"]
    /\ CaptureEnds
    /\ outbox' = {}
    /\ UNCHANGED <<cmd, done, slipped, image, images, engineVars, hostVars>>

\* The directory's flush or the commit may fail: the record stays as it was.
CommitRow ==
    /\ capture.pc = "commit"
    /\ row' \in {row, [seq |-> capture.seq, digest |-> images, state |-> "Ready"]}
    /\ CaptureEnds
    /\ UNCHANGED <<liveVars, image, images, engineVars, hostVars>>

Capture ==
    \/ BeginCapture("initialize") \/ BeginCapture("advance")
    \/ VerifyRecorded \/ CopyVault \/ StripCopy \/ RenameCopy \/ CommitRow

(***************************************************************************)
(* The engine, as the base image's documentation uses it: it pushes and     *)
(* pulls only on a base it can vouch for.                                   *)
(***************************************************************************)
Ascending(s) == CHOOSE q \in [1 .. Cardinality(s) -> s] :
                    \A i, j \in DOMAIN q : i < j => q[i] < q[j]

EngineRests == WriterFree /\ capture.pc = "idle" /\ HasBase

AcceptPush ==
    /\ EngineRests
    /\ outbox # {}
    /\ known = Len(server)
    /\ LET order == Ascending(outbox)
       IN  server' = server \o [i \in DOMAIN order |->
                                  [id |-> order[i], rows |-> cmd[order[i]].rows]]
    /\ known' = Len(server')
    /\ outbox' = {}
    /\ UNCHANGED <<cmd, done, slipped, baseVars, hostVars>>

CleanPull ==
    /\ EngineRests
    /\ outbox = {}
    /\ known < Len(server)
    /\ known' = known + 1
    /\ done' = done \union {server[known'].id}
    /\ UNCHANGED <<cmd, outbox, slipped, baseVars, server, hostVars>>

OtherPushes ==
    LET n == Cardinality({i \in DOMAIN server : server[i].id \in Remotes})
    IN  /\ n < MaxRemote
        /\ row # None
        /\ \E w \in SUBSET Rows : server' = Append(server, [id |-> MaxLocal + n + 1, rows |-> w])
        /\ UNCHANGED <<liveVars, baseVars, known, hostVars>>

(***************************************************************************)
(* The host.                                                                *)
(***************************************************************************)
\* reconcile_base_image; a failure of it does not stop the unlock.
Reconciled ==
    \/ temp' \in {temp, None} /\ UNCHANGED <<row, image>>
    \/ /\ temp' = None
       /\ image' = IF row = None THEN None ELSE image
       /\ row' = IF row # None /\ Verify(row) = "NoBase"
                 THEN [row EXCEPT !.state = "NoBase", !.digest = None] ELSE row

Open ==
    /\ ~open
    /\ open' = TRUE
    /\ Reconciled
    /\ UNCHANGED <<liveVars, capture, images, engineVars, backup>>

Stop ==
    /\ open
    /\ open' = FALSE
    /\ capture' = Resting
    /\ UNCHANGED <<liveVars, row, image, temp, images, engineVars, backup>>

LoseImage ==
    /\ image # None
    /\ image' = None
    /\ UNCHANGED <<liveVars, row, temp, capture, images, engineVars, hostVars>>

ExportBackup ==
    /\ WriterFree
    /\ row # None
    /\ backup = None
    /\ backup' = [done |-> done, outbox |-> outbox, row |-> row, known |-> known]
    /\ UNCHANGED <<liveVars, baseVars, engineVars, open>>

\* The Sync directory is removed first, but a failure to remove it is ignored.
RestoreBackup ==
    /\ ~open
    /\ backup # None
    /\ done' = backup.done /\ outbox' = backup.outbox /\ known' = backup.known
    /\ row' = backup.row
    /\ backup' = None
    /\ image' \in {image, None}
    /\ temp' \in {temp, None}
    /\ UNCHANGED <<cmd, slipped, capture, images, server, open>>

Host == Open \/ LoseImage \/ ExportBackup \/ RestoreBackup

(***************************************************************************)
(* Properties.                                                              *)
(***************************************************************************)
BaseTypes ==
    /\ Len(cmd) <= MaxLocal /\ \A c \in DOMAIN cmd : cmd[c] \in Commands
    /\ done \subseteq Ids /\ outbox \subseteq done \intersect Locals /\ slipped \subseteq Locals
    /\ row \in BaseRows \union {None}
    /\ image \in Images \union {None}
    /\ temp \in Images \union {None}
    /\ capture \in Captures
    /\ images \in 0 .. MaxImages
    /\ \A i \in DOMAIN server : server[i] \in [id : Ids, rows : SUBSET Rows]
    /\ known \in 0 .. Len(server)
    /\ open \in BOOLEAN
    /\ backup \in Backups \union {None}

\* A base the vault vouches for is the vault as the service last saw it at base_seq: it holds
\* every entry up to base_seq, none after it and nothing unpushed, so a rebase on it pulls and
\* replays each command exactly once.
BaseIsServerState ==
    open /\ HasBase =>
        /\ Accepted(row.seq) \subseteq image.has
        /\ image.has \intersect After(row.seq) = {}
        /\ image.has \intersect outbox = {}

\* With a base, every command of the live vault is in the base, in the service's log after it,
\* or in the outbox: what a rebase restores, pulls and replays.  Turning Sync on is the one
\* exception: a command that lands while the first image is stripped (slipped).
NothingUnaccounted ==
    open /\ HasBase => done \subseteq image.has \union After(row.seq) \union outbox \union slipped
=============================================================================
