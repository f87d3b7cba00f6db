------------------------------- MODULE TouchId -------------------------------
(***************************************************************************)
(* Touch ID unlock, the application's half (touch_id/mod.rs, app.rs,        *)
(* policy.rs and the commands that call them): one keychain item for the    *)
(* active vault, whose public tag holds the markers that decide when Touch  *)
(* ID is offered.                                                           *)
(*                                                                          *)
(* Three kinds of thread meet on the item.  Touch ID attempts run on the    *)
(* blocking pool, each waiting on a person with no lock held.  The main     *)
(* thread runs the synchronous commands one after another: unlock with the  *)
(* password, lock, enable, disable, change password.  A key rotation and    *)
(* the sweep at launch run on the pool as well.  One action is one holding  *)
(* of the controller lock, of the markers mutex, or one call of the store.  *)
(* Key material is the number of the envelope that wraps it, which is also  *)
(* the envelope's fingerprint.                                              *)
(***************************************************************************)
EXTENDS Integers, FiniteSets

CONSTANTS
    Attempts,    \* calls of touch_id_unlock that may run at once
    None,
    MaxFailed,   \* MAX_FAILED_PROMPTS
    MaxAge,      \* MAX_PASSWORD_AGE_NS, in ticks of the monotonic clock
    MaxClock,    \* bound: the clock's last tick in one boot
    MaxKeys,     \* bound: envelopes, the first included
    MaxStops     \* bound: deaths of the process and restarts of the machine

Markers == [fp : Nat, boot : Nat, stamp : Nat, failed : Nat]
Items == [key : Nat, tag : Markers]

ASSUME TouchIdAssumption ==
    /\ MaxFailed \in Nat \ {0}
    /\ MaxAge \in Nat /\ MaxClock \in Nat /\ MaxKeys \in Nat /\ MaxStops \in Nat
    /\ None \notin Attempts \cup Nat \cup Items

Pool == "pool"   \* the thread of a key rotation
Main == "main"   \* the thread of the synchronous commands
Launch == "launch"   \* the thread of the sweep
Threads == {Pool, Main, Launch}

VARIABLES
    item,      \* None, or the item: its secret's key and its tag (the markers)
    env,       \* the key envelope on disk
    vault,     \* the controller's state: "Locked" or "Unlocked"
    boot,      \* the running boot's id
    clock,     \* its monotonic clock
    running,   \* attempt_running: the attempt that set it
    att,       \* the attempts
    cmd,       \* the commands: where each thread is, and the fingerprint it carries
    stops,     \* deaths and restarts so far
    password,  \* history: when the markers last took note of the vault password
    shown,     \* history: prompts since then that no finger answered
    missed     \* history: a key change whose item may be left (see RetiredItemGone)

store == <<item, shown, password, missed>>
vars == <<item, env, vault, boot, clock, running, att, cmd, stops, password, shown, missed>>

NoMarkers == [fp |-> 0, boot |-> 0, stamp |-> 0, failed |-> 0]

\* with_failed_prompts: the same markers with another count.
WithFailedPrompts(tag, n) == [fp |-> tag.fp, boot |-> tag.boot, stamp |-> tag.stamp, failed |-> n]
Counted(tag) == WithFailedPrompts(tag, tag.failed + 1)

\* update_public_tag: the secret stays, its markers change.
Tagged(tag) == [key |-> item.key, tag |-> tag]

\* An attempt: the fingerprint it read, the markers before it counted, the key it was released.
\* charge: whether its prompt is among shown ("up"), was answered by a finger ("paid"), or was
\* shown before the password was last noted ("old").
NoAttempt == [pc |-> "idle", fp |-> None, before |-> NoMarkers, key |-> None, charge |-> "old"]

NoCommand == [pc |-> "idle", fp |-> None]
Launched(t) == [pc |-> IF t = Launch THEN "read" ELSE "idle", fp |-> None]

Init ==
    /\ item = None /\ env = 1 /\ vault = "Locked"
    /\ boot = 1 /\ clock = 0
    /\ running = None
    /\ att = [a \in Attempts |-> NoAttempt]
    /\ cmd = [t \in Threads |-> Launched(t)]
    /\ stops = 0
    /\ password = [boot |-> 0, stamp |-> 0] /\ shown = 0 /\ missed = FALSE

-----------------------------------------------------------------------------
(* The steps on the item *)

\* policy::eligibility for a device that answers: K1 same boot, K2 prompts left, K3 age.
Eligible(tag) ==
    /\ tag.boot = boot
    /\ tag.failed < MaxFailed
    /\ tag.stamp <= clock /\ clock - tag.stamp < MaxAge

\* The item is deleted, or the store fails and it stays.
Delete == item' \in {None, item}

\* The markers take note of a password: this boot, now, no failed prompts.
Noted(key, fp) ==
    /\ item' = [key |-> key, tag |-> [fp |-> fp, boot |-> boot, stamp |-> clock, failed |-> 0]]
    /\ password' = [boot |-> boot, stamp |-> clock]
    /\ shown' = 0
    /\ att' = [a \in Attempts |-> [att[a] EXCEPT !.charge = "old"]]

\* The fingerprint in the envelope on disk, or None when it cannot be read.
Fingerprint == {env, None}

-----------------------------------------------------------------------------
(* An attempt: app::unlock, TouchId::unlock *)

AttGoto(a, pc) == att' = [att EXCEPT ![a].pc = pc]

\* The attempt is over, and with it its AttemptGuard.
EndAttempt(a) ==
    /\ att' = [att EXCEPT ![a] = NoAttempt]
    /\ running' = IF running = a THEN None ELSE running

\* A vault that is not locked refuses before anything is prompted or counted.
BeginUnlock(a) ==
    /\ att[a].pc = "idle" /\ vault = "Locked"
    /\ AttGoto(a, "read")
    /\ UNCHANGED <<store, env, vault, boot, clock, running, cmd, stops>>

ReadFingerprint(a) ==
    /\ att[a].pc = "read"
    /\ \E fp \in Fingerprint :
           att' = [att EXCEPT ![a] = [pc |-> "count", fp |-> fp, before |-> NoMarkers,
                                      key |-> None, charge |-> "old"]]
    /\ UNCHANGED <<store, env, vault, boot, clock, running, cmd, stops>>

\* Another attempt is running, Touch ID is not offered or not available, the markers or the
\* clock cannot be read, or the count cannot be written: no prompt, nothing changes.
Refused(a) ==
    /\ att[a].pc = "count"
    /\ EndAttempt(a)
    /\ UNCHANGED <<store, env, vault, boot, clock, cmd, stops>>

\* The check, the read and the increment are one markers step, before the prompt is shown.
Count(a) ==
    /\ att[a].pc = "count" /\ running = None
    /\ item # None /\ att[a].fp = item.tag.fp /\ Eligible(item.tag)
    /\ item' = Tagged(Counted(item.tag))
    /\ att' = [att EXCEPT ![a] = [pc |-> "prompt", fp |-> att[a].fp, before |-> item.tag,
                                  key |-> None, charge |-> "up"]]
    /\ running' = a
    /\ shown' = shown + 1
    /\ UNCHANGED <<env, vault, boot, clock, cmd, stops, password, missed>>

\* Mutant: The restore does not look whether the markers are still its own.
RestoredTag_Blind(a) ==
    \/ UNCHANGED item
    \/ item # None /\ item' = Tagged(att[a].before)

\* The count goes back to what it was before, if the markers are still those of this attempt.
RestoredTag(a) ==
    \/ UNCHANGED item
    \/ /\ item # None /\ item.tag = Counted(att[a].before)
       /\ item' = Tagged(att[a].before)

\* Mutant: A cancelled prompt gives its count back, as a successful one does.
Unmatched_Restores(a) ==
    /\ att[a].pc = "prompt"
    /\ RestoredTag(a)
    /\ EndAttempt(a)
    /\ UNCHANGED <<env, vault, boot, clock, cmd, stops, password, shown, missed>>

\* Cancelled, a wrong finger, or a status nobody mapped: the count stays.
Unmatched(a) ==
    /\ att[a].pc = "prompt"
    /\ EndAttempt(a)
    /\ UNCHANGED <<store, env, vault, boot, clock, cmd, stops>>

\* BiometryLockedOut: the markers of before the prompt, with the count at its limit.
LockedOut(a) ==
    /\ att[a].pc = "prompt"
    /\ \/ UNCHANGED item
       \/ item # None /\ item' = Tagged(WithFailedPrompts(att[a].before, MaxFailed))
    /\ EndAttempt(a)
    /\ UNCHANGED <<env, vault, boot, clock, cmd, stops, password, shown, missed>>

\* The finger matched, and the store released the item's key.
Matched(a) ==
    /\ att[a].pc = "prompt" /\ item # None
    /\ att' = [att EXCEPT ![a] = [pc |-> "open", fp |-> att[a].fp, before |-> att[a].before,
                                  key |-> item.key,
                                  charge |-> IF att[a].charge = "up" THEN "paid"
                                             ELSE att[a].charge]]
    /\ shown' = IF att[a].charge = "up" THEN shown - 1 ELSE shown
    /\ UNCHANGED <<item, env, vault, boot, clock, running, cmd, stops, password, missed>>

\* unlock_with_released: it opens a locked vault the key fits; a vault that was opened meanwhile,
\* is damaged or has a rotation to recover refuses; a key of another envelope is stale.
Open(a) ==
    /\ att[a].pc = "open"
    /\ \/ /\ vault = "Locked" /\ att[a].key = env
          /\ vault' = "Unlocked" /\ AttGoto(a, "opened")
       \/ /\ UNCHANGED vault /\ AttGoto(a, "opened")
       \/ /\ vault = "Locked" /\ att[a].key # env
          /\ UNCHANGED vault /\ AttGoto(a, "stale")
    /\ UNCHANGED <<store, env, boot, clock, running, cmd, stops>>

\* The prompt ended without a verdict on a finger (the store was not reached, nothing is
\* enrolled), the vault was opened, or it refused for a reason of its own.
Restore(a) ==
    /\ att[a].pc \in {"prompt", "opened"}
    /\ RestoredTag(a)
    /\ shown' = IF att[a].charge = "up" THEN shown - 1 ELSE shown
    /\ EndAttempt(a)
    /\ UNCHANGED <<env, vault, boot, clock, cmd, stops, password, missed>>

RestoreStale(a) ==
    /\ att[a].pc = "stale"
    /\ RestoredTag(a)
    /\ AttGoto(a, "retire")
    /\ UNCHANGED <<env, vault, boot, clock, running, cmd, stops, password, shown, missed>>

\* NotFound after the prompt, or a stale key: the item goes.
Retire(a) ==
    /\ att[a].pc \in {"prompt", "retire"}
    /\ Delete
    /\ EndAttempt(a)
    /\ UNCHANGED <<env, vault, boot, clock, cmd, stops, password, shown, missed>>

Attempt(a) ==
    \/ BeginUnlock(a) \/ ReadFingerprint(a) \/ Refused(a) \/ Count(a)
    \/ Unmatched(a) \/ LockedOut(a) \/ Matched(a) \/ Open(a)
    \/ Restore(a) \/ RestoreStale(a) \/ Retire(a)

-----------------------------------------------------------------------------
(* The commands *)

Goto(t, pc) == cmd' = [cmd EXCEPT ![t].pc = pc]
Finish(t) == cmd' = [cmd EXCEPT ![t] = NoCommand]

\* unlock_vault_with_options_impl, up to the release of the controller lock.
PasswordUnlock ==
    /\ cmd[Main].pc = "idle" /\ vault = "Locked"
    /\ vault' = "Unlocked"
    /\ Goto(Main, "read")
    /\ UNCHANGED <<store, env, boot, clock, running, att, stops>>

\* note_password_unlock and sweep read the fingerprint before their markers step.
ReadForMarkers(t) ==
    /\ cmd[t].pc = "read"
    /\ \E fp \in Fingerprint : cmd' = [cmd EXCEPT ![t] = [pc |-> "markers", fp |-> fp]]
    /\ UNCHANGED <<store, env, vault, boot, clock, running, att, stops>>

\* note_password_unlock: an item of this envelope is stamped anew, or deleted when that fails;
\* any other is deleted.
NotePasswordUnlock ==
    /\ cmd[Main].pc = "markers"
    /\ \/ /\ item # None /\ cmd[Main].fp = item.tag.fp
          /\ Noted(item.key, item.tag.fp)
       \/ /\ Delete
          /\ UNCHANGED <<password, shown, att>>
    /\ Finish(Main)
    /\ UNCHANGED <<env, vault, boot, clock, running, stops, missed>>

\* sweep: an item of another envelope is deleted; an envelope that cannot be read is no reason.
Sweep ==
    /\ cmd[Launch].pc = "markers"
    /\ IF item # None /\ cmd[Launch].fp \notin {None, item.tag.fp} THEN Delete ELSE UNCHANGED item
    /\ Finish(Launch)
    /\ UNCHANGED <<env, vault, boot, clock, running, att, stops, password, shown, missed>>

LockVault ==
    /\ cmd[Main].pc = "idle" /\ vault = "Unlocked"
    /\ vault' = "Locked"
    /\ UNCHANGED <<store, env, boot, clock, running, att, cmd, stops>>

\* enable: the password is checked and the material read under the controller lock.
Enable ==
    /\ cmd[Main].pc = "idle" /\ vault = "Unlocked"
    /\ cmd' = [cmd EXCEPT ![Main] = [pc |-> "install", fp |-> env]]
    /\ UNCHANGED <<store, env, vault, boot, clock, running, att, stops>>

\* Mutant: The markers take the fingerprint of the envelope on disk when they are stored.
MarkedFingerprint_OnDisk(material) == env

\* The fingerprint of the markers is the one inside the material.
MarkedFingerprint(material) == material

\* install: the item is stored with fresh markers, or none is left.
Install ==
    /\ cmd[Main].pc = "install"
    /\ \/ /\ Noted(cmd[Main].fp, MarkedFingerprint(cmd[Main].fp))
          /\ missed' = (missed \/ cmd[Main].fp # env)
       \/ /\ Delete
          /\ UNCHANGED <<password, shown, att, missed>>
    /\ Finish(Main)
    /\ UNCHANGED <<env, vault, boot, clock, running, stops>>

\* disable: the item is deleted, or the command reports that it could not be.
Disable ==
    /\ cmd[Main].pc = "idle"
    /\ Delete
    /\ UNCHANGED <<env, vault, boot, clock, running, att, cmd, stops, password, shown, missed>>

-----------------------------------------------------------------------------
(* Changes of the key: a password change on the main thread, a rotation on the pool *)

VerifyCurrentPassword(t) ==
    /\ t \in {Main, Pool} /\ cmd[t].pc = "idle" /\ vault = "Unlocked"
    /\ Goto(t, "before")
    /\ UNCHANGED <<store, env, vault, boot, clock, running, att, stops>>

\* retire: a store that is unavailable counts as one that holds no item.
Retired == \/ item' = None /\ UNCHANGED missed
           \/ UNCHANGED item /\ missed' = (missed \/ item # None)

\* retire_before_change: an item that cannot be removed stops the change.
RetireBeforeChange(t) ==
    /\ cmd[t].pc = "before"
    /\ \/ Retired /\ Goto(t, "change")
       \/ UNCHANGED <<item, missed>> /\ Finish(t)
    /\ UNCHANGED <<env, vault, boot, clock, running, att, stops, password, shown>>

\* change_password or rotate_key, under the controller lock.  A rotation that fails after its
\* commit leaves the vault locked and returns before the second removal.
ChangeKey(t) ==
    /\ cmd[t].pc = "change"
    /\ \/ /\ vault = "Unlocked" /\ env < MaxKeys
          /\ env' = env + 1
          /\ \/ Goto(t, "after") /\ UNCHANGED <<vault, missed>>
             \/ /\ t = Pool /\ Finish(t) /\ vault' = "Locked"
                /\ missed' = (missed \/ item # None)
       \/ Finish(t) /\ UNCHANGED <<env, vault, missed>>
    /\ UNCHANGED <<item, boot, clock, running, att, stops, password, shown>>

\* Mutant: The item is removed before a change only.
RetireAfterChange_Skipped(t) ==
    /\ cmd[t].pc = "after"
    /\ Finish(t)
    /\ UNCHANGED <<store, env, vault, boot, clock, running, att, stops>>

\* retire_after_change: a failure is only logged.
RetireAfterChange(t) ==
    /\ cmd[t].pc = "after"
    /\ Retired
    /\ Finish(t)
    /\ UNCHANGED <<env, vault, boot, clock, running, att, stops, password, shown>>

Command(t) ==
    \/ VerifyCurrentPassword(t) \/ RetireBeforeChange(t) \/ ChangeKey(t) \/ RetireAfterChange(t)
    \/ ReadForMarkers(t)

-----------------------------------------------------------------------------
(* The clock, the process and the machine *)

Tick ==
    /\ clock < MaxClock
    /\ clock' = clock + 1
    /\ UNCHANGED <<store, env, vault, boot, running, att, cmd, stops>>

\* The process starts again: the vault locked, no attempt, no command, the sweep to run.
Relaunch ==
    /\ stops < MaxStops /\ stops' = stops + 1
    /\ vault' = "Locked" /\ running' = None
    /\ att' = [a \in Attempts |-> NoAttempt]
    /\ cmd' = [t \in Threads |-> Launched(t)]
    /\ missed' = (missed \/ \E t \in Threads : cmd[t].pc = "after" /\ item # None)
    /\ UNCHANGED <<item, env, password, shown>>

Crash ==
    /\ Relaunch
    /\ UNCHANGED <<boot, clock>>

Restart ==
    /\ boot' = boot + 1 /\ clock' = 0
    /\ Relaunch

Next ==
    \/ \E a \in Attempts : Attempt(a)
    \/ \E t \in Threads : Command(t)
    \/ PasswordUnlock \/ NotePasswordUnlock \/ Sweep \/ LockVault
    \/ Enable \/ Install \/ Disable
    \/ Tick \/ Crash \/ Restart

Spec == Init /\ [][Next]_vars

-----------------------------------------------------------------------------
(* Properties *)

AttemptPcs == {"idle", "read", "count", "prompt", "open", "opened", "stale", "retire"}
CommandPcs == {"idle", "read", "markers", "install", "before", "change", "after"}

AttemptStates == [pc : AttemptPcs, fp : Nat \cup {None}, before : Markers,
                  key : Nat \cup {None}, charge : {"up", "paid", "old"}]
CommandStates == [pc : CommandPcs, fp : Nat \cup {None}]

TypeOK ==
    /\ item \in Items \cup {None}
    /\ env \in Nat /\ vault \in {"Locked", "Unlocked"}
    /\ boot \in Nat /\ clock \in Nat /\ stops \in Nat
    /\ running \in Attempts \cup {None}
    /\ att \in [Attempts -> AttemptStates]
    /\ cmd \in [Threads -> CommandStates]
    /\ password \in [boot : Nat, stamp : Nat]
    /\ shown \in Nat /\ missed \in BOOLEAN

(***************************************************************************)
(* The owner's rule (policy.rs, K1 to K3): a prompt is shown only if the    *)
(* markers took note of the vault password in this boot and less than       *)
(* MaxAge ago, and at most MaxFailed prompts since then were left without a *)
(* finger that matched: cancelled, failed, or still up when the process     *)
(* died, whatever re-stamps, restores, changes of the key and other         *)
(* attempts came between.                                                   *)
(***************************************************************************)
PromptRule ==
    [][shown' > shown => /\ shown < MaxFailed
                         /\ password.boot = boot
                         /\ clock - password.stamp < MaxAge]_vars

(***************************************************************************)
(* "If a password unlock re-stamped them meanwhile, ... that newer state    *)
(* stands" (TouchId::restore): however late an attempt ends, the markers    *)
(* beside the item are those of the last password, or at the limit of       *)
(* failed prompts, where only a password helps.                             *)
(***************************************************************************)
MarkersCarryPassword ==
    item # None => \/ item.tag.failed >= MaxFailed
                   \/ item.tag.boot = password.boot /\ item.tag.stamp = password.stamp

(***************************************************************************)
(* An item whose markers match the envelope holds that envelope's key, also *)
(* when a rotation runs between the two halves of enable, or an attempt     *)
(* that counted on an older item writes its markers beside a newer one.     *)
(***************************************************************************)
OfferedItemOpens == item # None /\ item.tag.fp = env => item.key = env

(***************************************************************************)
(* "The item is removed again (a Touch ID enable that raced the change      *)
(* cannot survive it)" (app::retire_after_change): an item of a retired key *)
(* is there only while a change still has its second removal before it.     *)
(* missed names what the code lets through: an enable that read its         *)
(* material before the change and stores it after, a removal from a store   *)
(* that is unavailable, a change that ends or dies without its second       *)
(* removal.                                                                 *)
(***************************************************************************)
RetiredItemGone ==
    item # None /\ item.key # env => missed \/ \E t \in Threads : cmd[t].pc = "after"

=============================================================================
