---------------------------- MODULE KeyRotation ----------------------------
(***************************************************************************)
(* Rotation of the vault's data encryption key, and startup recovery of a   *)
(* rotation that a crash or an I/O error interrupted.                        *)
(*                                                                          *)
(* The key is used by several files that no file system replaces together:  *)
(* the database, the envelope that wraps the key, the attachment blobs      *)
(* (their names depend on the key) and the two Sync images.  A rotation     *)
(* prepares all of them beside the live ones, commits with one rename of    *)
(* the journal, and then swaps them one after the other.                    *)
(*                                                                          *)
(* Every file operation is a step: a process can die between any two of     *)
(* them, and any of them can fail, before or after it took effect (a rename *)
(* that landed and a directory sync that did not).  A file is what the      *)
(* recovery can tell of it: absent, or which key it is under and which rows *)
(* it holds.  Completed operations survive a crash in their order.          *)
(***************************************************************************)
EXTENDS Integers, Sequences, FiniteSets

CONSTANTS
    Procs,       \* processes of the application that can open the vault
    Docs,        \* attachments a user may import; each import is a write
    None,        \* an absent file, an unread journal, a free lease
    MaxKeys,     \* bound: keys ever generated, the first one included
    MaxCrashes,  \* bound: processes that die
    MaxFaults,   \* bound: file operations that fail
    Torn         \* whether a crash can fall between a blob and its row

Keys == 1..MaxKeys

\* What recovery can tell of a database, of a Sync image and of the rotation's journal.
Database == [key : Keys, rows : SUBSET Docs]
Image == [key : Keys, readable : BOOLEAN]
Journal == [state : {"preparing", "prepared", "committed"}, old : Keys, new : Keys,
            docs : SUBSET Docs, db : Database \cup {None},
            images : [{"base", "pre"} -> {"absent", "keep", "drop"}]]

\* A missing file is not one with content.
ASSUME RotationAssumption ==
    /\ None \notin Procs
    /\ {MaxKeys, MaxCrashes, MaxFaults} \subseteq Nat
    /\ MaxKeys >= 1
    /\ Torn \in BOOLEAN
    /\ None \notin Keys /\ None \notin Database /\ None \notin Image /\ None \notin Journal
    /\ None # "file"

VARIABLES
    disk,     \* the vault's files but the blobs
    blobs,    \* blob names: an attachment and the key that names it
    lease,    \* holder of the advisory lock on <vault>.runner.lock
    ctl,      \* the VaultController of each process
    keys,     \* number of keys generated so far
    acked,    \* attachments whose import was reported to the user (history)
    crashes,
    faults

vars == <<disk, blobs, lease, ctl, keys, acked, crashes, faults>>
bounds == <<keys, acked, crashes>>

Images == <<"base", "pre">>
ImageNew == [base |-> "baseNew", pre |-> "preNew"]
ImageSides == [base |-> "baseNewSides", pre |-> "preNewSides"]

\* The controller outside every operation, and a process that does not run.
Idle(state) == [state |-> state, pc |-> "ready", k |-> 0, caller |-> "none",
                key |-> 0, new |-> 0, journal |-> None]
Off == [Idle("NoVault") EXCEPT !.pc = "off"]

PreparePcs == {"export", "exporting", "image", "imaging", "tmp", "install", "link", "verify"}

----------------------------------------------------------------------------
(* What is on disk. *)

Present(d, f) == d[f] # None

Init ==
    /\ \E image \in [{"base", "pre"} -> {None} \cup [key : {1}, readable : BOOLEAN]] :
           disk = [db |-> [key |-> 1, rows |-> {}], wal |-> None, newDb |-> None,
                   newSides |-> None, oldDb |-> None, env |-> 1, newEnv |-> None,
                   base |-> image["base"], pre |-> image["pre"], baseNew |-> None,
                   preNew |-> None, baseNewSides |-> None, preNewSides |-> None,
                   probe |-> None, journalTmp |-> None, journal |-> None]
    /\ blobs = {}
    /\ lease = None
    /\ ctl = [p \in Procs |-> Off]
    /\ keys = 1
    /\ acked = {}
    /\ crashes = 0
    /\ faults = 0

\* A database as a connection reads it, through the write-ahead log beside it.
Content(d) == IF Present(d, "wal") THEN d.wal ELSE d.db

\* The key opens the database: SQLCipher reads both files under the one key.
Openable(d, key) == Present(d, "db") /\ d.db.key = key /\ Content(d).key = key

ClassifyFiles(d) ==
    CASE Present(d, "db") /\ Present(d, "env") -> "Locked"
      [] ~Present(d, "db") /\ ~Present(d, "env") -> "NoVault"
      [] OTHER -> "Corrupt"

Classify(d) == IF Present(d, "journal") THEN "Corrupt" ELSE ClassifyFiles(d)

\* Leftovers of a prepare that never wrote its journal.
Stray(d) == \E f \in {"newDb", "newEnv", "journalTmp", "probe", "newSides",
                      "baseNew", "preNew"} : Present(d, f)

Committed(d) == Present(d, "journal") /\ d.journal.state = "committed"

NewNames(j) == IF j = None THEN {} ELSE j.docs \X {j.new}
OldNames(j) == j.docs \X {j.old}

\* A check that forgets the files a first, interrupted apply has already moved.
InPlace_OnlyWaiting(d, waiting, live, content) == d[waiting] = content

\* Each file is either waiting with the journaled bytes or already in place with them.
InPlace(d, waiting, live, content) ==
    IF Present(d, waiting) THEN d[waiting] = content ELSE d[live] = content

CommittedFilesAgree(d, b, j) ==
    /\ j.db # None
    /\ InPlace(d, "newDb", "db", j.db)
    /\ InPlace(d, "newEnv", "env", j.new)
    /\ NewNames(j) \subseteq b
    /\ \A i \in {"base", "pre"} :
           j.images[i] = "keep" =>
               InPlace(d, ImageNew[i], i, [key |-> j.new, readable |-> TRUE])

----------------------------------------------------------------------------
(* One file operation of a process, its failure, and what follows each. *)

Remove(d, f) == [d EXCEPT ![f] = None]
Rename(d, from, to) == [d EXCEPT ![to] = d[from], ![from] = None]

\* Recovery is over: its caller releases the lease and looks at the files.
Recovered(d) == Idle(Classify(d))

\* What process p does after a file operation failed and left the disk at d.
OnError(p, d) ==
    LET c == ctl[p] IN
    IF c.pc \in PreparePcs THEN [c EXCEPT !.pc = "abort"]
    ELSE CASE c.caller = "abort"  -> [Idle("Unlocked") EXCEPT !.key = c.key]
           [] c.caller = "finish" -> [c EXCEPT !.pc = "recover"]
           [] OTHER               -> Recovered(d)

\* The vault has an owner while it is unlocked, rotated or recovered.
Owns(c) == c.state = "Unlocked" \/ c.pc \notin {"off", "ready", "unlock"}

\* p replaces the files by d and b and goes on as c, which may let go of the lease.
Moves(p, d, b, c) ==
    /\ disk' = d
    /\ blobs' = b
    /\ ctl' = [ctl EXCEPT ![p] = c]
    /\ lease' = IF Owns(c) THEN p ELSE IF lease = p THEN None ELSE lease

Fails(p, d, b) ==
    /\ faults < MaxFaults
    /\ faults' = faults + 1
    /\ \/ Moves(p, d, b, OnError(p, d))
       \/ Moves(p, disk, blobs, OnError(p, disk))

\* The operation takes effect, or it is reported as failed with or without its effect.
FileOp(p, d, b, c) ==
    \/ Moves(p, d, b, c) /\ UNCHANGED faults
    \/ Fails(p, d, b)

----------------------------------------------------------------------------
(* roll_back: remove what prepare made, the journal last. *)

RollBackOrder == <<"probe", "newDb", "newSides", "newEnv", "baseNew", "baseNewSides",
                   "preNew", "preNewSides", "blobs", "journalTmp", "journal">>

BeginRollBack(c, j, caller) ==
    [c EXCEPT !.pc = "rollback", !.k = 1, !.journal = j, !.caller = caller]

\* A kernel that is re-keyed before the commit.
RolledBack_NewKey(c, d) ==
    IF c.caller = "abort" THEN [Idle("Unlocked") EXCEPT !.key = c.new] ELSE Recovered(d)

\* After the last removal: a failed prepare returns to the unlocked vault, recovery looks at the disk.
RolledBack(c, d) ==
    IF c.caller = "abort" THEN [Idle("Unlocked") EXCEPT !.key = c.key] ELSE Recovered(d)

RollBackStep(p) ==
    LET c == ctl[p]
        f == RollBackOrder[c.k]
        linked == (NewNames(c.journal) \ (IF c.journal = None THEN {} ELSE OldNames(c.journal)))
                      \cap blobs
        next(d) == IF c.k = Len(RollBackOrder) THEN RolledBack(c, d)
                   ELSE [c EXCEPT !.k = @ + 1]
    IN  /\ c.pc = "rollback"
        /\ \/ f # "blobs" /\ LET d == Remove(disk, f) IN FileOp(p, d, blobs, next(d))
           \/ f = "blobs" /\ \E name \in linked : FileOp(p, disk, blobs \ {name}, c)
           \/ f = "blobs" /\ linked = {} /\ Moves(p, disk, blobs, next(disk)) /\ UNCHANGED faults
        /\ UNCHANGED bounds

(* apply_committed: idempotent steps, the journal last. *)

ApplyOrder == <<"oldSides", "dbAside", "dbIn", "envIn", "base", "pre",
                "oldBlobs", "oldDb", "journalTmp", "journal">>

BeginApply(c, j, caller) ==
    [c EXCEPT !.pc = "apply", !.k = 1, !.journal = j, !.caller = caller]

\* An image that could not be carried over stays.
SwapImage_KeepsUnreadable(d, j, i) ==
    IF j.images[i] = "keep" /\ Present(d, ImageNew[i]) THEN Rename(d, ImageNew[i], i) ELSE d

\* The swap of one Sync image: its copy replaces it, or it is dropped.
SwapImage(d, j, i) ==
    CASE j.images[i] = "drop" -> Remove(d, i)
      [] j.images[i] = "keep" /\ Present(d, ImageNew[i]) -> Rename(d, ImageNew[i], i)
      [] OTHER -> d

ApplyOp(d, j, op) ==
    CASE op = "oldSides" -> Remove(d, "wal")
      [] op = "dbAside"  -> IF Present(d, "newDb") /\ Present(d, "db")
                            THEN Rename(d, "db", "oldDb") ELSE d
      [] op = "dbIn"     -> IF Present(d, "newDb") THEN Rename(d, "newDb", "db") ELSE d
      [] op = "envIn"    -> IF Present(d, "newEnv") THEN Rename(d, "newEnv", "env") ELSE d
      [] op \in {"base", "pre"} -> SwapImage(d, j, op)
      [] OTHER           -> Remove(d, op)

\* After the last step: the rotation reopens the vault under its lease, recovery looks at the disk.
Applied(c, d) ==
    IF c.caller = "finish" THEN [c EXCEPT !.pc = "reopen"] ELSE Recovered(d)

ApplyStep(p) ==
    LET c == ctl[p]
        op == ApplyOrder[c.k]
        retired == (OldNames(c.journal) \ NewNames(c.journal)) \cap blobs
        next(d) == IF c.k = Len(ApplyOrder) THEN Applied(c, d) ELSE [c EXCEPT !.k = @ + 1]
    IN  /\ c.pc = "apply"
        /\ \/ /\ op # "oldBlobs"
              /\ LET d == ApplyOp(disk, c.journal, op) IN FileOp(p, d, blobs, next(d))
           \/ op = "oldBlobs" /\ \E name \in retired : FileOp(p, disk, blobs \ {name}, c)
           \/ /\ op = "oldBlobs" /\ retired = {}
              /\ Moves(p, disk, blobs, next(disk)) /\ UNCHANGED faults
        /\ UNCHANGED bounds

----------------------------------------------------------------------------
(* Startup recovery: VaultController::open, or a switch to this vault's path. *)

\* Recovery that finishes a rotation which was prepared but not committed.
Decide_PreparedIsEnough(c, caller) ==
    LET j == disk.journal IN
    CASE j = None /\ ~Stray(disk) -> Recovered(disk)
      [] j = None /\ Stray(disk) -> BeginRollBack(c, None, caller)
      [] j # None /\ j.state # "preparing" ->
             IF CommittedFilesAgree(disk, blobs, j) THEN BeginApply(c, j, caller)
             ELSE IF Committed(disk) THEN Recovered(disk) ELSE BeginRollBack(c, j, caller)
      [] OTHER -> BeginRollBack(c, j, caller)

\* recover_interrupted_rekey, from the journal on disk.
Decide(c, caller) ==
    LET j == disk.journal IN
    CASE j = None /\ ~Stray(disk) -> Recovered(disk)
      [] j = None /\ Stray(disk) -> BeginRollBack(c, None, caller)
      [] Committed(disk) -> IF CommittedFilesAgree(disk, blobs, j) THEN BeginApply(c, j, caller)
                            ELSE Recovered(disk)
      [] OTHER -> BeginRollBack(c, j, caller)

CanOpen(c) == c.pc = "off" \/ (c.pc = "ready" /\ c.state \in {"Locked", "Corrupt", "NoVault"})

\* Under the lease, unless another process owns the vault: then nothing is touched, and
\* the files are classified without looking at the journal.  A journal that cannot be read
\* is left alone.
Open(p) ==
    /\ CanOpen(ctl[p])
    /\ \/ lease = None /\ Moves(p, disk, blobs, Decide(Idle("NoVault"), "open")) /\ UNCHANGED faults
       \/ /\ lease = None /\ faults < MaxFaults /\ faults' = faults + 1
          /\ Moves(p, disk, blobs, Recovered(disk))
       \/ lease \notin {None, p} /\ Moves(p, disk, blobs, Idle(ClassifyFiles(disk))) /\ UNCHANGED faults
    /\ UNCHANGED bounds

\* After finish_rotation failed: the same recovery, under the lease the process still holds.
RecoverAfterFinish(p) ==
    /\ ctl[p].pc = "recover"
    /\ Moves(p, disk, blobs, Decide(ctl[p], "open"))
    /\ UNCHANGED <<keys, acked, crashes, faults>>

----------------------------------------------------------------------------
(* Unlocking, writing, locking. *)

\* The envelope is read before the lease is taken.
ReadEnvelope(p) ==
    /\ ctl[p].pc = "ready" /\ ctl[p].state = "Locked"
    /\ Moves(p, disk, blobs,
             IF Present(disk, "env") THEN [Idle("Unlocking") EXCEPT !.pc = "unlock", !.key = disk.env]
             ELSE Idle(Classify(disk)))
    /\ UNCHANGED <<keys, acked, crashes, faults>>

\* The worker opens under the lease; every failure re-classifies the disk.
OpenWorker(p) ==
    /\ ctl[p].pc = "unlock"
    /\ Moves(p, disk, blobs,
             IF lease = None /\ Openable(disk, ctl[p].key)
             THEN [Idle("Unlocked") EXCEPT !.key = ctl[p].key]
             ELSE Idle(Classify(disk)))
    /\ UNCHANGED <<keys, acked, crashes, faults>>

\* The controller's lock is free: no rotation of this process is running.
KernelFree(p) == ctl[p].pc = "ready" /\ ctl[p].state = "Unlocked"

\* A command that reaches the kernel without the controller's lock.
Import_NoControllerLock(p, doc) ==
    LET key == ctl[p].key IN
    /\ KernelFree(p) \/ ctl[p].pc \in PreparePcs
    /\ doc \notin acked
    /\ disk' = [disk EXCEPT !.wal = [key |-> key, rows |-> Content(disk).rows \cup {doc}]]
    /\ blobs' = blobs \cup {<<doc, key>>}
    /\ acked' = acked \cup {doc}
    /\ UNCHANGED <<lease, ctl, keys, crashes, faults>>

\* import_attachment: the blob, then its row, through the write-ahead log.
Import(p, doc) ==
    LET key == ctl[p].key IN
    /\ KernelFree(p)
    /\ doc \notin acked
    /\ disk' = [disk EXCEPT !.wal = [key |-> key, rows |-> Content(disk).rows \cup {doc}]]
    /\ blobs' = blobs \cup {<<doc, key>>}
    /\ acked' = acked \cup {doc}
    /\ UNCHANGED <<lease, ctl, keys, crashes, faults>>

\* The process dies with the blob written and its row not.
TornImport(p, doc) ==
    /\ Torn /\ KernelFree(p) /\ crashes < MaxCrashes
    /\ doc \notin acked
    /\ Moves(p, disk, blobs \cup {<<doc, ctl[p].key>>}, Off)
    /\ crashes' = crashes + 1
    /\ UNCHANGED <<keys, acked, faults>>

\* lock_checked: the write-ahead log is checkpointed, unless a reader keeps it busy.
Lock(p) ==
    /\ KernelFree(p)
    /\ \E d \in {[disk EXCEPT !.db = Content(disk), !.wal = None], disk} :
           Moves(p, d, blobs, Idle("Locked"))
    /\ UNCHANGED <<keys, acked, crashes, faults>>

Crash(p) ==
    /\ ctl[p].pc # "off" /\ crashes < MaxCrashes
    /\ Moves(p, disk, blobs, Off)
    /\ crashes' = crashes + 1
    /\ UNCHANGED <<keys, acked, faults>>

----------------------------------------------------------------------------
(* rotate_key: prepare, commit. *)

\* The password opened the envelope, nothing of an earlier rotation is left, and the space
\* check left its hard-link probe, if there is a blob to link.
RotateKey(p) ==
    /\ KernelFree(p) /\ keys < MaxKeys
    /\ \A f \in {"journal", "newDb", "newEnv"} : ~Present(disk, f)
    /\ keys' = keys + 1
    /\ Moves(p, [disk EXCEPT !.probe = IF blobs = {} THEN None ELSE "file"], blobs,
             [ctl[p] EXCEPT !.state = "Rekeying", !.pc = "export", !.new = keys + 1])
    /\ UNCHANGED <<acked, crashes, faults>>

\* The probe is removed, the log checkpointed into the database, the copy begun.
BeginExport(p) ==
    LET c == ctl[p] IN
    /\ c.pc = "export"
    /\ FileOp(p, [disk EXCEPT !.probe = None, !.db = Content(disk), !.wal = None,
                              !.newDb = [key |-> c.new, rows |-> {}], !.newSides = "file"],
              blobs, [c EXCEPT !.pc = "exporting"])
    /\ UNCHANGED bounds

\* The copy is one closed file; every row's blob has its new name in it.
EndExport(p) ==
    LET c == ctl[p]
        j == [state |-> "preparing", old |-> c.key, new |-> c.new, docs |-> disk.db.rows,
              db |-> None, images |-> [base |-> "absent", pre |-> "absent"]]
    IN  /\ c.pc = "exporting"
        /\ FileOp(p, [disk EXCEPT !.newDb = [key |-> c.new, rows |-> disk.db.rows],
                                  !.newSides = None],
                  blobs, [c EXCEPT !.pc = "image", !.k = 1, !.journal = j])
        /\ UNCHANGED bounds

\* An image loop that does not move on.
NextImage_Stays(c) == [c EXCEPT !.pc = "image"]

\* The next image, or the journal once both are done.
NextImage(c) ==
    IF c.k = Len(Images) THEN [c EXCEPT !.pc = "tmp"] ELSE [c EXCEPT !.pc = "image", !.k = @ + 1]

\* A readable image is copied, an unreadable one is listed for removal.
BeginImage(p) ==
    LET c == ctl[p]
        i == Images[c.k]
    IN  /\ c.pc = "image"
        /\ \/ /\ ~Present(disk, i)
              /\ Moves(p, disk, blobs, NextImage(c)) /\ UNCHANGED faults
           \/ /\ Present(disk, i) /\ ~disk[i].readable
              /\ Moves(p, disk, blobs, NextImage([c EXCEPT !.journal.images[i] = "drop"]))
              /\ UNCHANGED faults
           \/ /\ Present(disk, i) /\ disk[i].readable
              /\ IF Present(disk, ImageNew[i])
                 THEN Moves(p, disk, blobs, OnError(p, disk)) /\ UNCHANGED faults
                 ELSE FileOp(p, [disk EXCEPT ![ImageNew[i]] = [key |-> c.new, readable |-> FALSE],
                                             ![ImageSides[i]] = "file"],
                             blobs, [c EXCEPT !.pc = "imaging"])
        /\ UNCHANGED bounds

EndImage(p) ==
    LET c == ctl[p]
        i == Images[c.k]
    IN  /\ c.pc = "imaging"
        /\ FileOp(p, [disk EXCEPT ![ImageNew[i]] = [key |-> c.new, readable |-> TRUE],
                                  ![ImageSides[i]] = None],
                  blobs, NextImage([c EXCEPT !.journal.images[i] = "keep"]))
        /\ UNCHANGED bounds

\* write_journal: the temporary file, then the rename.
WriteJournalTmp(p) ==
    /\ ctl[p].pc = "tmp"
    /\ FileOp(p, [disk EXCEPT !.journalTmp = "file"], blobs, [ctl[p] EXCEPT !.pc = "install"])
    /\ UNCHANGED bounds

\* What follows an installed journal; after the commit the kernel closes into the lease.
Installed(c) ==
    CASE c.journal.state = "preparing" -> [c EXCEPT !.pc = "link"]
      [] c.journal.state = "prepared"  -> [c EXCEPT !.pc = "tmp", !.journal.state = "committed"]
      [] OTHER                         -> [c EXCEPT !.pc = "finish", !.caller = "finish"]

\* A commit that takes a reported error for a rename that did not land.
CommitWrite_TrustsError(p, d) ==
    \/ Moves(p, d, blobs, Installed(ctl[p])) /\ UNCHANGED faults
    \/ Fails(p, d, blobs)

\* The commit point.  If the write reports an error the journal is read back: the rename that
\* landed is a commit all the same, one that did not, or cannot be read back, is not.
CommitWrite(p, d) ==
    \/ Moves(p, d, blobs, Installed(ctl[p])) /\ faults' \in {faults, faults + 1} \cap 0..MaxFaults
    \/ /\ faults < MaxFaults /\ faults' = faults + 1
       /\ Moves(p, disk, blobs, OnError(p, disk))
    \/ /\ faults + 1 < MaxFaults /\ faults' = faults + 2
       /\ Moves(p, d, blobs, OnError(p, d))

InstallJournal(p) ==
    LET c == ctl[p]
        d == [disk EXCEPT !.journal = c.journal, !.journalTmp = None]
    IN  /\ c.pc = "install"
        /\ \/ c.journal.state # "committed" /\ FileOp(p, d, blobs, Installed(c))
           \/ c.journal.state = "committed" /\ CommitWrite(p, d)
        /\ UNCHANGED bounds

LinkBlob(p) ==
    LET c == ctl[p] IN
    /\ c.pc = "link"
    /\ \E name \in NewNames(c.journal) \ blobs : FileOp(p, disk, blobs \cup {name}, c)
    /\ UNCHANGED bounds

\* An envelope that wraps no key.
WriteNewEnvelope_Blank(p) ==
    LET c == ctl[p] IN
    /\ c.pc = "link" /\ NewNames(c.journal) \subseteq blobs
    /\ FileOp(p, [disk EXCEPT !.newEnv = 0], blobs, [c EXCEPT !.pc = "verify"])
    /\ UNCHANGED bounds

WriteNewEnvelope(p) ==
    LET c == ctl[p] IN
    /\ c.pc = "link" /\ NewNames(c.journal) \subseteq blobs
    /\ FileOp(p, [disk EXCEPT !.newEnv = c.new], blobs, [c EXCEPT !.pc = "verify"])
    /\ UNCHANGED bounds

\* The copy opens under the new key and names present blobs; its hash goes into the journal.
Verify(p) ==
    LET c == ctl[p]
        ok == /\ Present(disk, "newDb") /\ disk.newDb.key = c.new
              /\ disk.newDb.rows \X {c.new} \subseteq blobs
    IN  /\ c.pc = "verify"
        /\ IF ok THEN FileOp(p, disk, blobs, [c EXCEPT !.pc = "tmp", !.journal.state = "prepared",
                                                       !.journal.db = disk.newDb])
                 ELSE Moves(p, disk, blobs, OnError(p, disk)) /\ UNCHANGED faults
        /\ UNCHANGED bounds

\* A failed prepare reads its journal back, takes an unreadable one for none, and rolls back.
AbortPrepare(p) ==
    LET c == ctl[p] IN
    /\ c.pc = "abort"
    /\ \/ Moves(p, disk, blobs, BeginRollBack(c, disk.journal, "abort")) /\ UNCHANGED faults
       \/ /\ faults < MaxFaults /\ faults' = faults + 1
          /\ Moves(p, disk, blobs, BeginRollBack(c, None, "abort"))
    /\ UNCHANGED bounds

\* The kernel is closed; the committed journal is read again and its files are checked.
FinishRotation(p) ==
    LET c == ctl[p] IN
    /\ c.pc = "finish"
    /\ Moves(p, disk, blobs,
             IF Committed(disk) /\ CommittedFilesAgree(disk, blobs, disk.journal)
             THEN BeginApply(c, disk.journal, "finish") ELSE [c EXCEPT !.pc = "recover"])
    /\ UNCHANGED <<keys, acked, crashes, faults>>

\* The reopen takes the lease over; if it fails the vault is left locked.
Reopen(p) ==
    /\ ctl[p].pc = "reopen"
    /\ \/ /\ Present(disk, "env") /\ Openable(disk, disk.env)
          /\ Moves(p, disk, blobs, [Idle("Unlocked") EXCEPT !.key = disk.env])
          /\ UNCHANGED faults
       \/ /\ faults < MaxFaults /\ faults' = faults + 1
          /\ Moves(p, disk, blobs, Idle("Locked"))
    /\ UNCHANGED bounds

Prepare(p) ==
    \/ BeginExport(p) \/ EndExport(p) \/ BeginImage(p) \/ EndImage(p)
    \/ WriteJournalTmp(p) \/ InstallJournal(p) \/ LinkBlob(p)
    \/ WriteNewEnvelope(p) \/ Verify(p) \/ AbortPrepare(p)

\* The steps a process takes by itself once an operation has begun.
Proceed(p) ==
    \/ Prepare(p) \/ FinishRotation(p) \/ RecoverAfterFinish(p) \/ Reopen(p)
    \/ RollBackStep(p) \/ ApplyStep(p) \/ OpenWorker(p)

Next ==
    \E p \in Procs :
        \/ Proceed(p) \/ Open(p) \/ ReadEnvelope(p) \/ Lock(p) \/ RotateKey(p) \/ Crash(p)
        \/ \E doc \in Docs : Import(p, doc) \/ TornImport(p, doc)

\* A begun operation runs to its end, and a user opens a vault that is not open.
Fairness == \A p \in Procs : WF_vars(Proceed(p)) /\ WF_vars(ctl[p].state # "Locked" /\ Open(p))

Spec == Init /\ [][Next]_vars
FairSpec == Spec /\ Fairness

----------------------------------------------------------------------------
(* What the vault is, whoever looks at it next. *)

\* Before the commit the live files are the vault; after it, the journaled ones, wherever they are.
AuthKey == IF Committed(disk) THEN disk.journal.new ELSE disk.env
AuthDb ==
    IF Committed(disk) /\ Present(disk, "newDb") THEN disk.newDb
    ELSE IF Present(disk, "db") THEN Content(disk) ELSE None

\* The image a Sync rebase would restore once recovery has run.
AuthImage(i) ==
    IF ~Committed(disk) THEN disk[i]
    ELSE IF disk.journal.images[i] = "drop" THEN None
    ELSE IF Present(disk, ImageNew[i]) THEN disk[ImageNew[i]] ELSE disk[i]

Maybe(S) == S \cup {None}

IsDisk(d) ==
    /\ DOMAIN d = {"db", "wal", "newDb", "newSides", "oldDb", "env", "newEnv", "base", "pre",
                   "baseNew", "preNew", "baseNewSides", "preNewSides", "probe", "journalTmp",
                   "journal"}
    /\ {d.db, d.wal, d.newDb, d.oldDb} \subseteq Maybe(Database)
    /\ {d.base, d.pre, d.baseNew, d.preNew} \subseteq Maybe(Image)
    /\ {d.env, d.newEnv} \subseteq Maybe(Keys)
    /\ {d.newSides, d.baseNewSides, d.preNewSides, d.probe, d.journalTmp} \subseteq {None, "file"}
    /\ d.journal \in Maybe(Journal)

IsController(c) ==
    /\ DOMAIN c = {"state", "pc", "k", "caller", "key", "new", "journal"}
    /\ c.state \in {"NoVault", "Locked", "Unlocking", "Unlocked", "Rekeying", "Corrupt"}
    /\ c.pc \in PreparePcs \cup {"off", "ready", "unlock", "abort", "finish", "recover", "reopen",
                                "rollback", "apply"}
    /\ c.k \in Nat /\ c.caller \in {"none", "open", "abort", "finish"}
    /\ {c.key, c.new} \subseteq 0..MaxKeys
    /\ c.journal \in Maybe(Journal)

TypeOK ==
    /\ IsDisk(disk)
    /\ blobs \subseteq Docs \X Keys
    /\ lease \in Procs \cup {None}
    /\ DOMAIN ctl = Procs /\ \A p \in Procs : IsController(ctl[p])
    /\ keys \in Keys /\ acked \subseteq Docs
    /\ crashes \in 0..MaxCrashes /\ faults \in 0..MaxFaults

\* At every instant the authoritative vault is whole: its database, its log, its envelope and
\* the blob of every row are under one key, whatever a crash or an error leaves half done
\* (ADR 0083: "either the old vault or the new vault, never a mismatched pair").
VaultWhole ==
    /\ AuthDb # None
    /\ AuthDb.key = AuthKey
    /\ Committed(disk) => AuthKey \in {disk.env, disk.newEnv}
    /\ ~Committed(disk) => disk.db.key = AuthKey
    /\ AuthDb.rows \X {AuthKey} \subseteq blobs
    /\ \A i \in {"base", "pre"} : AuthImage(i) # None => AuthImage(i).key = AuthKey

\* No import that was reported to the user is ever missing from the authoritative vault: the
\* copy that a rotation commits is never older than the database it replaces.
WritesKept == AuthDb # None /\ AuthDb.rows = acked

\* An unlocked vault that no rotation is working on has nothing left under a retired key: no
\* database, no image, no blob name (ADR 0083, section 6).
RetiredKeyGone ==
    \A p \in Procs :
        KernelFree(p) /\ ~Present(disk, "journal") =>
            /\ ~Present(disk, "oldDb")
            /\ \A f \in {"db", "wal", "base", "pre"} : Present(disk, f) => disk[f].key >= disk.env
            /\ \A name \in blobs : name[2] >= disk.env

\* The key the kernel works with is the one of the files it works on, also when a rotation
\* failed half way and returned to the old vault; and a vault that was classified as locked
\* opens with the password's key, if no other process replaced the envelope since it was read.
KernelKeyFits ==
    \A p \in Procs :
        /\ KernelFree(p) => Openable(disk, ctl[p].key) /\ disk.env = ctl[p].key
        /\ ctl[p].pc = "unlock" /\ ctl[p].key = disk.env /\ lease = None => Openable(disk, ctl[p].key)

\* Without an I/O error no vault is ever classified as corrupt: whatever a crash leaves, the
\* journal agrees with the files.
CorruptOnlyAfterFault == (\E p \in Procs : ctl[p].state = "Corrupt") => faults > 0

\* Every rotation and every recovery ends, and a vault found contradictory after an I/O error
\* heals when it is opened again.
OperationEnds ==
    \A p \in Procs, state \in {"Rekeying", "Corrupt"} :
        ctl[p].state = state ~> ctl[p].state # state

----------------------------------------------------------------------------
(* Seen from outside, a rotation is one step. *)

Vault == INSTANCE AtomicVault WITH key <- AuthKey, rows <- AuthDb.rows
ImplementsVault == Vault!Spec
=============================================================================
