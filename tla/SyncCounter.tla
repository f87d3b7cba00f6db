---------------------------- MODULE SyncCounter ----------------------------
(***************************************************************************)
(* The counter register of one AEAD key and the publish path of a snapshot. *)
(*                                                                          *)
(* Every encryption under one key uses a counter of its own as its nonce.   *)
(* The register (a row of the vault) holds the next counter; the witness    *)
(* (outside the vault, not restored with it) remembers how far the register *)
(* had come.  A reservation compares the two, commits the register's        *)
(* advance, advances the witness and only then hands the counter out.  The  *)
(* publish of a snapshot first looks for the container it may have sealed   *)
(* already, and otherwise reserves, seals, writes the container's file and  *)
(* records it beside the register.                                          *)
(*                                                                          *)
(* Each call on the register takes the writer's lock for itself and each    *)
(* call on the witness is its own, so the steps of two callers interleave,  *)
(* and a crash, a failing call or a restored backup can fall between any    *)
(* two of them.                                                             *)
(*                                                                          *)
(* Sources: crates/vault-crypto/src/sync_counter.rs and sync_snapshot.rs,   *)
(* crates/db-worker/src/sync_register.rs, and the contract of               *)
(* crates/platform-traits/src/witness.rs.                                   *)
(***************************************************************************)
EXTENDS Integers

CONSTANTS
    Callers,   \* threads that publish snapshots of the vault
    Objects,   \* snapshot ids
    Contents,  \* what a snapshot carries: base_seq and plaintext
    Last,      \* the key's last counter, MAX_INVOCATION_COUNTER
    None       \* no entry, no record, no file

ASSUME CounterAssumption ==
    /\ Last \in Nat
    /\ None \notin Nat

VARIABLES
    register,  \* next_counter of the context, None before the first advance
    saved,     \* the saved sealed snapshot recorded beside the register
    witness,   \* the witnessed next_counter
    files,     \* the saved container of each snapshot id
    backup,    \* a backup of the vault's rows, None if none was made
    call,      \* what each caller is doing
    uses,      \* how often each counter was used to encrypt (history)
    restored,  \* a backup has been restored (history)
    live       \* the container last handed out and not given up since (history)

vault == <<register, saved>>
vars == <<register, saved, witness, files, backup, call, uses, restored, live>>

Counters == 0 .. Last
Publishes == [object : Objects, content : Contents]
Containers == [counter : Counters, publish : Publishes]
Entries == (1 .. Last + 1) \union {None}
Saves == Containers \union {None}

Resting == {"idle", "lost"}
SealSteps == {"saved", "file", "previous", "birth", "commit", "advance", "encrypt",
              "write", "record", "remove"}
Steps == Resting \union {"register", "witness", "raise"} \union SealSteps
             \union {"forget", "clear", "unlink"}

\* held: the register as this call's check read it; seen: the saved record it read.
Calls == [pc : Steps, check : {"reuse", "reserve", "reconcile"}, publish : Publishes,
          held : Entries, seen : Saves, alone : BOOLEAN]

\* A register entry's counter: a context without an entry starts at 0.
Value(entry) == IF entry = None THEN 0 ELSE entry

NextCounter(c) == Value(call[c].held)
ContainerOf(c) == [counter |-> NextCounter(c), publish |-> call[c].publish]

\* Mutant: only a register equal to its witness is consistent.
Consistent_Equal(r, w) == IF r = None THEN w \in {None, 0} ELSE r = w

\* Mutant: a register without an entry is taken for a fresh context.
Consistent_NoEntryIsFresh(r, w) == r # None => w # None /\ r >= w

\* The comparison rule: no entry and a witness that issued nothing, or an entry the
\* witness is not ahead of.  Anything else is NonceStateLost.
Consistent(r, w) ==
    \/ r = None /\ w \in {None, 0}
    \/ r # None /\ w # None /\ r >= w

\* The witness takes a value that is not behind the one it holds.
Takes(w, value) == w # None => w <= value

Idle(p) == [pc |-> "idle", check |-> "reuse", publish |-> p, held |-> None,
            seen |-> None, alone |-> TRUE]

Init ==
    /\ register = None
    /\ saved = None
    /\ witness = None
    /\ files = [o \in Objects |-> None]
    /\ backup = None
    /\ \E p \in Publishes : call = [c \in Callers |-> Idle(p)]
    /\ uses = [k \in Counters |-> 0]
    /\ restored = FALSE
    /\ live = None

(***************************************************************************)
(* A call begins.  alone records that no other call overlaps this one.      *)
(***************************************************************************)
Busy(c) == call[c].pc \notin Resting

Begin(c, first, check, p) ==
    LET others == \E d \in Callers \ {c} : Busy(d)
    IN  /\ ~Busy(c)
        /\ call' = [d \in Callers |->
                      IF d = c
                      THEN [pc |-> first, check |-> check, publish |-> p, held |-> None,
                            seen |-> None, alone |-> ~others]
                      ELSE [call[d] EXCEPT !.alone = @ /\ ~Busy(d)]]
        /\ live' = IF others THEN None ELSE live
        /\ UNCHANGED <<vault, witness, files, backup, uses, restored>>

Seal(c, p) == Begin(c, "register", "reuse", p)
Reconcile(c, p) == Begin(c, "register", "reconcile", p)
Discard(c, p) == Begin(c, "forget", "reuse", p)

Goto(c, step) == call' = [call EXCEPT ![c].pc = step]

\* Any call on the store, the witness or the files may fail; the publish ends there.
Fails(c) ==
    /\ Busy(c)
    /\ Goto(c, "idle")
    /\ UNCHANGED <<vault, witness, files, backup, uses, restored, live>>

(***************************************************************************)
(* CounterRegister::check: the register, then the witness.                  *)
(***************************************************************************)
ReadRegister(c) ==
    /\ call[c].pc = "register"
    /\ call' = [call EXCEPT ![c].pc = "witness", ![c].held = register]
    /\ UNCHANGED <<vault, witness, files, backup, uses, restored, live>>

\* Where a check that found the two consistent goes on.
AfterCheck(check, held) ==
    CASE check = "reuse" -> "saved"
      [] check = "reconcile" -> IF held = None THEN "idle" ELSE "raise"
      [] check = "reserve" -> IF Value(held) > Last THEN "idle"
                              ELSE IF held = None THEN "birth" ELSE "commit"

ReadWitness(c) ==
    /\ call[c].pc = "witness"
    /\ Goto(c, IF Consistent(call[c].held, witness)
               THEN AfterCheck(call[c].check, call[c].held)
               ELSE "lost")
    /\ UNCHANGED <<vault, witness, files, backup, uses, restored, live>>

\* Raise the witness to value; it may do so and still report a failure.
Witnessed(c, value, next) ==
    /\ \/ /\ Takes(witness, value)
          /\ witness' = value
          /\ Goto(c, next) \/ Goto(c, "idle")
       \/ /\ ~Takes(witness, value)
          /\ witness' = witness
          /\ Goto(c, "idle")
    /\ UNCHANGED <<vault, files, backup, uses, restored, live>>

RaiseWitness(c) == call[c].pc = "raise" /\ Witnessed(c, NextCounter(c), "idle")

(***************************************************************************)
(* CounterRegister::reserve.                                                *)
(***************************************************************************)
BearContext(c) == call[c].pc = "birth" /\ Witnessed(c, 0, "commit")

\* Mutant: the advance does not compare.
CommitAdvance_Blind(c) ==
    /\ call[c].pc = "commit"
    /\ register' = NextCounter(c) + 1
    /\ Goto(c, "advance")
    /\ UNCHANGED <<saved, witness, files, backup, uses, restored, live>>

\* A compare-and-set on the value the check read.
CommitAdvance(c) ==
    /\ call[c].pc = "commit"
    /\ IF register = call[c].held
       THEN /\ register' = NextCounter(c) + 1
            /\ Goto(c, "advance")
       ELSE /\ register' = register
            /\ Goto(c, "idle")
    /\ UNCHANGED <<saved, witness, files, backup, uses, restored, live>>

AdvanceWitness(c) ==
    call[c].pc = "advance" /\ Witnessed(c, NextCounter(c) + 1, "encrypt")

(***************************************************************************)
(* SnapshotSealer::seal around the reservation.                             *)
(***************************************************************************)
\* reusable: the record of this very publish, below the register, and then its file.
ReadSaved(c) ==
    /\ call[c].pc = "saved"
    /\ call' = [call EXCEPT
                  ![c].pc = IF saved = None THEN "previous"
                            ELSE IF saved.publish # call[c].publish THEN "previous"
                            ELSE IF saved.counter < NextCounter(c) THEN "file"
                            ELSE "lost",
                  ![c].seen = saved]
    /\ UNCHANGED <<vault, witness, files, backup, uses, restored, live>>

Returns(c, container) ==
    /\ Goto(c, "idle")
    /\ live' = IF call[c].alone THEN container ELSE None

\* The file of the record, whole and sealed with the recorded counter, is sent again.
ReadFile(c) ==
    /\ call[c].pc = "file"
    /\ IF files[call[c].publish.object] = call[c].seen
       THEN Returns(c, call[c].seen)
       ELSE Goto(c, "previous") /\ live' = live
    /\ UNCHANGED <<vault, witness, files, backup, uses, restored>>

ReadPrevious(c) ==
    /\ call[c].pc = "previous"
    /\ call' = [call EXCEPT ![c].pc = "register", ![c].check = "reserve", ![c].seen = saved]
    /\ UNCHANGED <<vault, witness, files, backup, uses, restored, live>>

\* The container handed out is given up when its object is.
NoLonger(o) == IF live # None /\ live.publish.object = o THEN None ELSE live

Encrypt(c) ==
    /\ call[c].pc = "encrypt"
    /\ uses' = [uses EXCEPT ![NextCounter(c)] = @ + 1]
    /\ Goto(c, "write")
    /\ UNCHANGED <<vault, witness, files, backup, restored, live>>

\* The rename may have landed although the directory's flush fails.
WriteFile(c) ==
    /\ call[c].pc = "write"
    /\ files' = [files EXCEPT ![call[c].publish.object] = ContainerOf(c)]
    /\ Goto(c, "record") \/ Goto(c, "idle")
    /\ live' = NoLonger(call[c].publish.object)
    /\ UNCHANGED <<vault, witness, backup, uses, restored>>

RecordSaved(c) ==
    /\ call[c].pc = "record"
    /\ saved' = ContainerOf(c)
    /\ LET old == call[c].seen
       IN  IF old # None /\ old.publish.object # call[c].publish.object
           THEN Goto(c, "remove") /\ live' = None
           ELSE Returns(c, ContainerOf(c))
    /\ UNCHANGED <<register, witness, files, backup, uses, restored>>

RemoveOldFile(c) ==
    /\ call[c].pc = "remove"
    /\ files' = [files EXCEPT ![call[c].seen.publish.object] = None]
    /\ Returns(c, ContainerOf(c))
    /\ UNCHANGED <<vault, witness, backup, uses, restored>>

(***************************************************************************)
(* SnapshotSealer::discard, when the receipt has arrived.                   *)
(***************************************************************************)
\* Mutant: the saved record is cleared whatever publish it is of.
Forget_Any(c) ==
    /\ call[c].pc = "forget"
    /\ Goto(c, IF saved # None THEN "clear" ELSE "unlink")
    /\ UNCHANGED <<vault, witness, files, backup, uses, restored, live>>

Forget(c) ==
    /\ call[c].pc = "forget"
    /\ Goto(c, IF saved # None /\ saved.publish.object = call[c].publish.object
               THEN "clear" ELSE "unlink")
    /\ UNCHANGED <<vault, witness, files, backup, uses, restored, live>>

ClearSaved(c) ==
    /\ call[c].pc = "clear"
    /\ saved' = None
    /\ live' = NoLonger(call[c].publish.object)
    /\ Goto(c, "unlink")
    /\ UNCHANGED <<register, witness, files, backup, uses, restored>>

Unlink(c) ==
    /\ call[c].pc = "unlink"
    /\ files' = [files EXCEPT ![call[c].publish.object] = None]
    /\ live' = NoLonger(call[c].publish.object)
    /\ Goto(c, "idle")
    /\ UNCHANGED <<vault, witness, backup, uses, restored>>

(***************************************************************************)
(* The environment.  A process that stops loses every call; a restore also  *)
(* takes the vault's rows back, but neither the witness nor the files.      *)
(***************************************************************************)
AllStop == \E p \in Publishes : call' = [c \in Callers |-> Idle(p)]

Crash ==
    /\ AllStop
    /\ UNCHANGED <<vault, witness, files, backup, uses, restored, live>>

\* A saved file is damaged or swept away between two publishes.
LoseFile(o) ==
    /\ \A c \in Callers : ~Busy(c)
    /\ files' = [files EXCEPT ![o] = None]
    /\ live' = NoLonger(o)
    /\ UNCHANGED <<vault, witness, backup, call, uses, restored>>

ExportBackup ==
    /\ backup' = [register |-> register, saved |-> saved]
    /\ UNCHANGED <<vault, witness, files, call, uses, restored, live>>

RestoreBackup ==
    /\ backup # None
    /\ register' = backup.register
    /\ saved' = backup.saved
    /\ restored' = TRUE
    /\ live' = None
    /\ AllStop
    /\ UNCHANGED <<witness, files, backup, uses>>

Step(c) ==
    \/ \E p \in Publishes : Seal(c, p) \/ Reconcile(c, p) \/ Discard(c, p)
    \/ Fails(c)
    \/ ReadRegister(c) \/ ReadWitness(c) \/ RaiseWitness(c)
    \/ BearContext(c) \/ CommitAdvance(c) \/ AdvanceWitness(c)
    \/ ReadSaved(c) \/ ReadFile(c) \/ ReadPrevious(c)
    \/ Encrypt(c) \/ WriteFile(c) \/ RecordSaved(c) \/ RemoveOldFile(c)
    \/ Forget(c) \/ ClearSaved(c) \/ Unlink(c)

Next ==
    \/ \E c \in Callers : Step(c)
    \/ Crash \/ ExportBackup \/ RestoreBackup
    \/ \E o \in Objects : LoseFile(o)

Spec == Init /\ [][Next]_vars

-----------------------------------------------------------------------------
\* The types of the variables.
TypeOK ==
    /\ register \in Entries
    /\ saved \in Saves
    /\ witness \in (0 .. Last + 1) \union {None}
    /\ files \in [Objects -> Saves]
    /\ backup \in [register : Entries, saved : Saves] \union {None}
    /\ call \in [Callers -> Calls]
    /\ uses \in [Counters -> Nat]
    /\ restored \in BOOLEAN
    /\ live \in Saves

\* No counter encrypts twice under the key: not after a crash between the register and the
\* witness, not after a failing witness, not after a restored backup, not for two callers.
NonceUsedOnce == \A k \in Counters : uses[k] <= 1

\* NonceStateLost condemns the key, so a crash or a failing call alone never causes it: a
\* call nothing overlaps finds the nonce state lost only in a vault that was restored.
CrashIsNotLoss ==
    \A c \in Callers : call[c].pc = "lost" /\ call[c].alone => restored

\* A retry of the publish that was last handed out sends the same bytes again: it never
\* seals that publish a second time, across crashes and failed calls in between.
ResendsSameBytes ==
    \A c \in Callers : call[c].pc = "encrypt" /\ call[c].alone /\ live # None =>
        live.publish # call[c].publish

\* Nothing is sealed or sent from a rolled-back timeline: a call past its check, fresh seal
\* or saved container, is in a vault whose register has not fallen behind the witness.
NothingSentRolledBack ==
    \A c \in Callers : call[c].pc \in SealSteps => Value(register) >= Value(witness)
=============================================================================
