---------------------------- MODULE TouchIdProofs ----------------------------
(***************************************************************************)
(* Proofs about TouchId, for any number of attempts, prompts, keys, clock   *)
(* ticks and restarts.                                                      *)
(*                                                                          *)
(* The four properties rest on one inductive invariant, Safe.  Its parts    *)
(* say who may write the markers (OneAttempt), how the history of prompts   *)
(* is bounded by the count in the markers and by the attempt in flight      *)
(* (PromptsCounted, ChargeFits), and how old the fingerprints are that an   *)
(* attempt or a half-done enable may still write (FingerprintsFit).         *)
(***************************************************************************)
EXTENDS TouchId, TLAPS

\* A prompt was counted, and its count may still be given back.
InFlight(a) == att[a].pc \in {"prompt", "open", "opened", "stale"}

\* The attempt in flight is the one that holds attempt_running.
OneAttempt == \A a \in Attempts : InFlight(a) => running = a

\* The markers count every prompt that no finger answered, and there are never too many.
PromptsCounted ==
    /\ shown <= MaxFailed
    /\ item # None => shown <= item.tag.failed

\* What the markers can be while an attempt is in flight, by what became of its prompt.
ChargeFits ==
    \A a \in Attempts : InFlight(a) =>
        /\ att[a].charge = "up" => att[a].pc = "prompt" /\ shown > 0
        /\ att[a].charge = "paid" /\ item # None => shown < item.tag.failed
        /\ att[a].charge = "old" /\ item # None => item.tag.failed = 0
        /\ att[a].charge # "old" => /\ att[a].before.boot = password.boot
                                    /\ att[a].before.stamp = password.stamp

\* No marker names an envelope later than the one on disk; while an enable holds its material,
\* none names a later one than that; and what may be written beside an item is its own
\* fingerprint or that of an envelope that is gone.
FingerprintsFit ==
    /\ item # None => /\ item.tag.fp <= env
                      /\ item.tag.fp = item.key \/ item.tag.fp < env
    /\ \A a \in Attempts : InFlight(a) =>
           /\ att[a].before.fp <= env
           /\ item # None => att[a].before.fp = item.key \/ att[a].before.fp < env
    /\ cmd[Main].pc = "install" =>
           /\ cmd[Main].fp \in Nat /\ cmd[Main].fp <= env
           /\ item # None => item.tag.fp <= cmd[Main].fp
           /\ \A a \in Attempts : InFlight(a) => att[a].before.fp <= cmd[Main].fp

Safe ==
    /\ TypeOK
    /\ OneAttempt
    /\ PromptsCounted
    /\ ChargeFits
    /\ MarkersCarryPassword
    /\ FingerprintsFit
    /\ RetiredItemGone

-----------------------------------------------------------------------------

(* Types *)

LEMMA NoAttemptType == NoAttempt \in AttemptStates
  BY DEF NoAttempt, AttemptStates, AttemptPcs, NoMarkers, Markers

LEMMA CommandTypes ==
    /\ NoCommand \in CommandStates
    /\ \A t \in Threads : Launched(t) \in CommandStates
  BY DEF NoCommand, Launched, CommandStates, CommandPcs

LEMMA TaggedType ==
    ASSUME item \in Items, NEW tag \in Markers, NEW n \in Nat
    PROVE  /\ Tagged(tag) \in Items
           /\ WithFailedPrompts(tag, n) \in Markers
           /\ item.tag \in Markers
  BY DEF Tagged, WithFailedPrompts, Items, Markers

LEMMA ItemType == ASSUME TypeOK, item # None PROVE item \in Items
  BY DEF TypeOK

\* What a step does to one attempt or one command keeps all of them typed.
LEMMA AttGotoType ==
    ASSUME TypeOK, NEW a \in Attempts, NEW pc \in AttemptPcs, AttGoto(a, pc)
    PROVE  att' \in [Attempts -> AttemptStates]
  BY DEF TypeOK, AttGoto, AttemptStates

LEMMA EndAttemptType ==
    ASSUME TypeOK, NEW a \in Attempts, EndAttempt(a)
    PROVE  /\ att' \in [Attempts -> AttemptStates]
           /\ running' \in Attempts \cup {None}
  BY NoAttemptType DEF TypeOK, EndAttempt

LEMMA GotoType ==
    ASSUME TypeOK, NEW t \in Threads, NEW pc \in CommandPcs, Goto(t, pc)
    PROVE  cmd' \in [Threads -> CommandStates]
  BY DEF TypeOK, Goto, CommandStates

LEMMA FinishType ==
    ASSUME TypeOK, NEW t \in Threads, Finish(t)
    PROVE  cmd' \in [Threads -> CommandStates]
  BY CommandTypes DEF TypeOK, Finish

LEMMA NotedType ==
    ASSUME TypeOK, NEW key \in Nat, NEW fp \in Nat, Noted(key, fp)
    PROVE  /\ item' \in Items
           /\ password' \in [boot : Nat, stamp : Nat]
           /\ shown' \in Nat
           /\ att' \in [Attempts -> AttemptStates]
  <1>1. item' \in Items /\ password' \in [boot : Nat, stamp : Nat] /\ shown' \in Nat
    BY DEF TypeOK, Noted, Items, Markers
  <1>2. \A a \in Attempts : [att[a] EXCEPT !.charge = "old"] \in AttemptStates
    BY DEF TypeOK, AttemptStates
  <1> QED BY <1>1, <1>2 DEF Noted

LEMMA RestoredType ==
    ASSUME TypeOK, NEW a \in Attempts, RestoredTag(a)
    PROVE  item' \in Items \cup {None}
  <1>1. att[a].before \in Markers
    BY DEF TypeOK, AttemptStates
  <1> QED BY <1>1, ItemType, TaggedType DEF TypeOK, RestoredTag

LEMMA TypeInit == Init => TypeOK
<1> SUFFICES ASSUME Init PROVE TypeOK
  OBVIOUS
<1>1. att \in [Attempts -> AttemptStates]
  BY NoAttemptType DEF Init
<1>2. cmd \in [Threads -> CommandStates]
  BY CommandTypes DEF Init
<1> QED
  BY <1>1, <1>2 DEF Init, TypeOK

LEMMA AttemptType ==
    ASSUME TypeOK, ChargeFits, NEW a \in Attempts, Attempt(a)
    PROVE  TypeOK'
<1>b. shown \in Nat /\ (InFlight(a) /\ att[a].charge = "up" => shown - 1 \in Nat)
  BY DEF TypeOK, ChargeFits
<1>a. att[a] \in AttemptStates
  BY DEF TypeOK
<1>1. CASE BeginUnlock(a)
  BY <1>1, AttGotoType DEF TypeOK, BeginUnlock, AttemptPcs, store
<1>2. CASE ReadFingerprint(a)
  BY <1>2 DEF TypeOK, ReadFingerprint, Fingerprint, AttemptStates, AttemptPcs, NoMarkers, Markers, store
<1>3. CASE Refused(a)
  BY <1>3, EndAttemptType DEF TypeOK, Refused, store
<1>4. CASE Count(a)
  <2>1. item \in Items /\ item.tag \in Markers /\ item.tag.failed + 1 \in Nat
    BY <1>4, ItemType DEF Count, Items, Markers
  <2>2. item' \in Items
    BY <1>4, <2>1, TaggedType DEF Count, Counted
  <2>3. att' \in [Attempts -> AttemptStates]
    BY <1>4, <1>a, <2>1 DEF TypeOK, Count, AttemptStates, AttemptPcs
  <2> QED BY <1>4, <2>2, <2>3 DEF TypeOK, Count
<1>5. CASE Unmatched(a)
  BY <1>5, EndAttemptType DEF TypeOK, Unmatched, store
<1>6. CASE LockedOut(a)
  <2>1. item' \in Items \cup {None}
    <3>1. CASE UNCHANGED item
      BY <3>1 DEF TypeOK
    <3>2. CASE item # None /\ item' = Tagged(WithFailedPrompts(att[a].before, MaxFailed))
      BY <3>2, <1>a, ItemType, TaggedType, TouchIdAssumption DEF AttemptStates
    <3> QED BY <1>6, <3>1, <3>2 DEF LockedOut
  <2> QED BY <1>6, <2>1, EndAttemptType DEF TypeOK, LockedOut
<1>7. CASE Matched(a)
  <2>1. item.key \in Nat
    BY <1>7, ItemType DEF Matched, Items
  <2>2. att' \in [Attempts -> AttemptStates]
    BY <1>7, <1>a, <2>1 DEF TypeOK, Matched, AttemptStates, AttemptPcs
  <2>3. shown' \in Nat
    BY <1>7, <1>b DEF Matched, InFlight
  <2> QED BY <1>7, <2>2, <2>3 DEF TypeOK, Matched
<1>8. CASE Open(a)
  BY <1>8, AttGotoType DEF TypeOK, Open, AttemptPcs, store
<1>9. CASE Restore(a)
  <2>1. shown' \in Nat
    BY <1>9, <1>b DEF Restore, InFlight
  <2> QED BY <1>9, <2>1, RestoredType, EndAttemptType DEF TypeOK, Restore
<1>10. CASE RestoreStale(a)
  BY <1>10, RestoredType, AttGotoType DEF TypeOK, RestoreStale, AttemptPcs
<1>11. CASE Retire(a)
  BY <1>11, EndAttemptType DEF TypeOK, Retire, Delete
<1> QED
  BY <1>1, <1>2, <1>3, <1>4, <1>5, <1>6, <1>7, <1>8, <1>9, <1>10, <1>11 DEF Attempt

LEMMA CommandType ==
    ASSUME TypeOK, NEW t \in Threads, Command(t)
    PROVE  TypeOK'
<1>1. CASE VerifyCurrentPassword(t)
  BY <1>1, GotoType DEF TypeOK, VerifyCurrentPassword, CommandPcs, store
<1>2. CASE RetireBeforeChange(t)
  <2>1. cmd' \in [Threads -> CommandStates]
    BY <1>2, GotoType, FinishType DEF RetireBeforeChange, CommandPcs
  <2> QED BY <1>2, <2>1 DEF TypeOK, RetireBeforeChange, Retired
<1>3. CASE ChangeKey(t)
  <2>1. cmd' \in [Threads -> CommandStates]
    BY <1>3, GotoType, FinishType DEF ChangeKey, CommandPcs
  <2>2. env' \in Nat
    BY <1>3 DEF TypeOK, ChangeKey
  <2>3. vault' \in {"Locked", "Unlocked"}
    BY <1>3 DEF TypeOK, ChangeKey
  <2>4. missed' \in BOOLEAN
    BY <1>3, Zenon DEF TypeOK, ChangeKey
  <2> QED BY <1>3, <2>1, <2>2, <2>3, <2>4 DEF TypeOK, ChangeKey
<1>4. CASE RetireAfterChange(t)
  BY <1>4, FinishType DEF TypeOK, RetireAfterChange, Retired
<1>5. CASE ReadForMarkers(t)
  BY <1>5 DEF TypeOK, ReadForMarkers, Fingerprint, CommandStates, CommandPcs, store
<1> QED
  BY <1>1, <1>2, <1>3, <1>4, <1>5 DEF Command

\* The key an enable carries is a number only while it does: Safe says so.
LEMMA OtherType ==
    ASSUME TypeOK, FingerprintsFit,
           PasswordUnlock \/ NotePasswordUnlock \/ Sweep \/ LockVault \/ Enable \/ Install \/ Disable
             \/ Tick \/ Crash \/ Restart
    PROVE  TypeOK'
<1>m. Main \in Threads /\ Launch \in Threads
  BY DEF Threads
<1>1. CASE PasswordUnlock
  BY <1>1, <1>m, GotoType DEF TypeOK, PasswordUnlock, CommandPcs, store
<1>2. CASE NotePasswordUnlock
  <2>1. cmd' \in [Threads -> CommandStates]
    BY <1>2, <1>m, FinishType DEF NotePasswordUnlock
  <2>2. CASE item # None /\ Noted(item.key, item.tag.fp)
    <3>1. item.key \in Nat /\ item.tag.fp \in Nat
      BY <2>2, ItemType DEF Items, Markers
    <3> QED BY <1>2, <2>1, <2>2, <3>1, NotedType DEF TypeOK, NotePasswordUnlock
  <2>3. CASE Delete /\ UNCHANGED <<password, shown, att>>
    BY <1>2, <2>1, <2>3 DEF TypeOK, NotePasswordUnlock, Delete
  <2> QED BY <1>2, <2>2, <2>3 DEF NotePasswordUnlock
<1>3. CASE Sweep
  BY <1>3, <1>m, FinishType DEF TypeOK, Sweep, Delete
<1>4. CASE LockVault
  BY <1>4 DEF TypeOK, LockVault, store
<1>5. CASE Enable
  BY <1>5, <1>m DEF TypeOK, Enable, CommandStates, CommandPcs, store
<1>6. CASE Install
  <2>1. cmd' \in [Threads -> CommandStates]
    BY <1>6, <1>m, FinishType DEF Install
  <2>2. CASE /\ Noted(cmd[Main].fp, MarkedFingerprint(cmd[Main].fp))
             /\ missed' = (missed \/ cmd[Main].fp # env)
    <3>1. cmd[Main].fp \in Nat /\ MarkedFingerprint(cmd[Main].fp) \in Nat
      BY <1>6 DEF FingerprintsFit, Install, MarkedFingerprint
    <3> QED BY <1>6, <2>1, <2>2, <3>1, NotedType DEF TypeOK, Install
  <2>3. CASE Delete /\ UNCHANGED <<password, shown, att, missed>>
    BY <1>6, <2>1, <2>3 DEF TypeOK, Install, Delete
  <2> QED BY <1>6, <2>2, <2>3 DEF Install
<1>7. CASE Disable
  BY <1>7 DEF TypeOK, Disable, Delete
<1>8. CASE Tick
  BY <1>8 DEF TypeOK, Tick, store
<1>9. ASSUME Relaunch PROVE /\ att' \in [Attempts -> AttemptStates]
                            /\ cmd' \in [Threads -> CommandStates]
                            /\ stops' \in Nat /\ missed' \in BOOLEAN
  BY <1>9, NoAttemptType, CommandTypes DEF TypeOK, Relaunch
<1>10. CASE Crash
  BY <1>10, <1>9 DEF TypeOK, Crash, Relaunch
<1>11. CASE Restart
  BY <1>11, <1>9 DEF TypeOK, Restart, Relaunch
<1> QED
  BY <1>1, <1>2, <1>3, <1>4, <1>5, <1>6, <1>7, <1>8, <1>10, <1>11

LEMMA TypeStep == Safe /\ [Next]_vars => TypeOK'
<1>1. CASE UNCHANGED vars
  BY <1>1 DEF Safe, TypeOK, vars
<1> QED
  BY <1>1, AttemptType, CommandType, OtherType DEF Next, Safe

-----------------------------------------------------------------------------
(* Preservation *)

\* The attempts after a step that puts none in flight: those in flight were so before, and keep
\* what they know.
Settled ==
    \A a \in Attempts : InFlight(a)' =>
        /\ InFlight(a) /\ running' = running
        /\ att'[a].before = att[a].before /\ att'[a].charge = att[a].charge
        /\ att[a].charge = "up" => att'[a].pc = "prompt"

\* The command of the main thread carries no other fingerprint than it did, but for an enable
\* that reads the envelope.
Carried ==
    cmd'[Main].pc = "install" =>
        \/ cmd[Main].pc = "install" /\ cmd'[Main].fp = cmd[Main].fp
        \/ cmd'[Main].fp = env

\* A change that had its second removal before it has it still, or what it leaves is named.
Named ==
    /\ missed => missed'
    /\ \A t \in Threads : cmd[t].pc = "after" => missed' \/ cmd'[t].pc = "after"

\* Most steps write no markers: the item stays or goes.
LEMMA Kept ==
    ASSUME Safe, TypeOK', item' = item \/ item' = None,
           UNCHANGED <<env, password>>, shown' <= shown,
           shown' = shown \/ \A a \in Attempts : ~ InFlight(a)',
           Settled, Carried, item' # None => Named
    PROVE  Safe'
<1>1. OneAttempt'
  BY DEF Safe, OneAttempt, Settled
<1>2. PromptsCounted'
  <2>1. shown \in Nat /\ shown' \in Nat /\ (item # None => item.tag.failed \in Nat)
    BY ItemType DEF Safe, TypeOK, Items, Markers
  <2> QED BY <2>1, TouchIdAssumption DEF Safe, PromptsCounted
<1>3. ChargeFits'
  BY DEF Safe, ChargeFits, Settled
<1>4. MarkersCarryPassword'
  BY DEF Safe, MarkersCarryPassword
<1>5. FingerprintsFit'
  <2>1. item' # None => item'.tag.fp <= env' /\ (item'.tag.fp = item'.key \/ item'.tag.fp < env')
    BY DEF Safe, FingerprintsFit
  <2>2. ASSUME NEW a \in Attempts, InFlight(a)'
        PROVE  /\ att'[a].before.fp <= env'
               /\ item' # None => att'[a].before.fp = item'.key \/ att'[a].before.fp < env'
    BY <2>2 DEF Safe, FingerprintsFit, Settled
  <2>3. ASSUME cmd'[Main].pc = "install"
        PROVE  /\ cmd'[Main].fp \in Nat /\ cmd'[Main].fp <= env'
               /\ item' # None => item'.tag.fp <= cmd'[Main].fp
               /\ \A a \in Attempts : InFlight(a)' => att'[a].before.fp <= cmd'[Main].fp
    BY <2>1, <2>2, <2>3 DEF Safe, TypeOK, FingerprintsFit, Settled, Carried
  <2> QED BY <2>1, <2>2, <2>3 DEF FingerprintsFit, InFlight
<1>6. RetiredItemGone'
  BY DEF Safe, RetiredItemGone, Named
<1> QED
  BY <1>1, <1>2, <1>3, <1>4, <1>5, <1>6 DEF Safe

\* Only one attempt is in flight, so none is when it ends.
LEMMA LastEnds ==
    ASSUME Safe, NEW a \in Attempts, InFlight(a), NEW pc \in {"idle", "retire"},
           att'[a].pc = pc, \A b \in Attempts \ {a} : att'[b] = att[b]
    PROVE  \A b \in Attempts : ~ InFlight(b)'
  BY DEF Safe, OneAttempt, InFlight

LEMMA EndAttemptSettles ==
    ASSUME Safe, NEW a \in Attempts, EndAttempt(a)
    PROVE  /\ Settled
           /\ att'[a].pc = "idle" /\ \A b \in Attempts \ {a} : att'[b] = att[b]
<1>1. att'[a] = NoAttempt /\ \A b \in Attempts \ {a} : att'[b] = att[b]
  BY DEF Safe, TypeOK, EndAttempt
<1>2. \A b \in Attempts : InFlight(b)' => b # a
  BY <1>1 DEF InFlight, NoAttempt
<1>3. \A b \in Attempts \ {a} : InFlight(b) => running' = running
  BY DEF Safe, OneAttempt, EndAttempt
<1> QED
  BY <1>1, <1>2, <1>3 DEF Settled, InFlight, NoAttempt, Safe, ChargeFits

\* The markers of an attempt that ends are written beside the item.
LEMMA Rewritten ==
    ASSUME Safe, TypeOK', NEW a \in Attempts, InFlight(a), \A b \in Attempts : ~ InFlight(b)',
           UNCHANGED <<env, password, cmd, missed>>,
           item # None, NEW n \in Nat, item' = Tagged(WithFailedPrompts(att[a].before, n)),
           shown' <= n, shown' <= MaxFailed,
           n >= MaxFailed \/ att[a].charge # "old"
    PROVE  Safe'
<1>1. /\ item'.key = item.key
      /\ item'.tag.fp = att[a].before.fp /\ item'.tag.failed = n
      /\ item'.tag.boot = att[a].before.boot /\ item'.tag.stamp = att[a].before.stamp
  BY DEF Tagged, WithFailedPrompts
<1>2. OneAttempt' /\ ChargeFits'
  BY DEF OneAttempt, ChargeFits
<1>3. PromptsCounted'
  BY <1>1 DEF PromptsCounted
<1>4. MarkersCarryPassword'
  BY <1>1 DEF Safe, ChargeFits, MarkersCarryPassword
<1>5. FingerprintsFit'
  BY <1>1 DEF Safe, FingerprintsFit
<1>6. RetiredItemGone'
  BY <1>1 DEF Safe, RetiredItemGone
<1> QED
  BY <1>2, <1>3, <1>4, <1>5, <1>6 DEF Safe

\* The markers take note of a password.
LEMMA NotedSafe ==
    ASSUME Safe, TypeOK', NEW key \in Nat, NEW fp \in Nat, Noted(key, fp),
           UNCHANGED <<env, running>>, cmd'[Main].pc # "install",
           fp <= env, fp = key \/ fp < env,
           \A a \in Attempts : InFlight(a) => att[a].before.fp = key \/ att[a].before.fp < env,
           key # env => missed' \/ \E t \in Threads : cmd'[t].pc = "after"
    PROVE  Safe'
<1>1. /\ item'.key = key /\ item'.tag.fp = fp /\ item'.tag.failed = 0
      /\ item'.tag.boot = password'.boot /\ item'.tag.stamp = password'.stamp
      /\ shown' = 0
  BY DEF Noted
<1>2. \A a \in Attempts : /\ att'[a].pc = att[a].pc /\ att'[a].before = att[a].before
                          /\ att'[a].charge = "old"
  BY DEF Safe, TypeOK, AttemptStates, Noted
<1>3. OneAttempt'
  BY <1>2 DEF Safe, OneAttempt, InFlight
<1>4. PromptsCounted'
  BY <1>1, TouchIdAssumption DEF PromptsCounted
<1>5. ChargeFits'
  BY <1>1, <1>2 DEF ChargeFits
<1>6. MarkersCarryPassword'
  BY <1>1 DEF MarkersCarryPassword
<1>7. FingerprintsFit'
  BY <1>1, <1>2 DEF Safe, FingerprintsFit, InFlight
<1>8. RetiredItemGone'
  BY <1>1 DEF RetiredItemGone
<1> QED
  BY <1>3, <1>4, <1>5, <1>6, <1>7, <1>8 DEF Safe

LEMMA AttemptSafe ==
    ASSUME Safe, TypeOK', NEW a \in Attempts, Attempt(a)
    PROVE  Safe'
<1>t. /\ att \in [Attempts -> AttemptStates] /\ att[a] \in AttemptStates
      /\ shown \in Nat /\ env \in Nat
      /\ item # None => item \in Items /\ item.tag \in Markers /\ item.tag.failed \in Nat
  BY ItemType DEF Safe, TypeOK, Items, Markers
\* Attempts write no command.
<1>c. ASSUME UNCHANGED <<cmd, missed>> PROVE Carried /\ Named
  BY <1>c DEF Carried, Named
<1>1. CASE BeginUnlock(a)
  <2>1. Settled
    BY <1>1, <1>t DEF BeginUnlock, AttGoto, AttemptStates, Settled, InFlight, Safe, ChargeFits
  <2> QED BY <1>1, <1>c, <1>t, <2>1, Kept DEF BeginUnlock, store
<1>2. CASE ReadFingerprint(a)
  <2>1. Settled
    BY <1>2, <1>t DEF ReadFingerprint, Settled, InFlight, Safe, ChargeFits
  <2> QED BY <1>2, <1>c, <1>t, <2>1, Kept DEF ReadFingerprint, store
<1>3. CASE Refused(a)
  BY <1>3, <1>c, <1>t, EndAttemptSettles, Kept DEF Refused, store
<1>4. CASE Count(a)
  <2>1. /\ item # None /\ item'.key = item.key /\ item'.tag.fp = item.tag.fp
        /\ item'.tag.boot = item.tag.boot /\ item'.tag.stamp = item.tag.stamp
        /\ item'.tag.failed = item.tag.failed + 1
    BY <1>4 DEF Count, Tagged, Counted, WithFailedPrompts
  <2>2. \A b \in Attempts : ~ InFlight(b)
    <3>1. None \notin Attempts
      BY TouchIdAssumption
    <3> QED BY <1>4, <3>1 DEF Safe, OneAttempt, Count
  <2>3. /\ att'[a].pc = "prompt" /\ att'[a].before = item.tag /\ att'[a].charge = "up"
        /\ \A b \in Attempts \ {a} : att'[b] = att[b]
    BY <1>4, <1>t DEF Count
  <2>4. \A b \in Attempts : InFlight(b)' => b = a
    BY <2>2, <2>3 DEF InFlight
  <2>5. /\ item.tag.failed < MaxFailed /\ shown <= item.tag.failed
        /\ item.tag.boot = password.boot /\ item.tag.stamp = password.stamp
    BY <1>4, <1>t, TouchIdAssumption DEF Count, Eligible, Safe, PromptsCounted, MarkersCarryPassword
  <2>6. OneAttempt'
    BY <1>4, <2>4 DEF Count, OneAttempt
  <2>7. PromptsCounted'
    BY <1>4, <1>t, <2>1, <2>5, TouchIdAssumption DEF Count, PromptsCounted
  <2>8. ChargeFits'
    BY <1>4, <1>t, <2>3, <2>4, <2>5 DEF Count, ChargeFits
  <2>9. MarkersCarryPassword'
    BY <1>4, <2>1, <2>5 DEF Count, MarkersCarryPassword
  <2>10. FingerprintsFit'
    BY <1>4, <2>1, <2>3, <2>4 DEF Count, Safe, FingerprintsFit
  <2>11. RetiredItemGone'
    BY <1>4, <2>1 DEF Count, Safe, RetiredItemGone
  <2> QED
    BY <2>6, <2>7, <2>8, <2>9, <2>10, <2>11 DEF Safe
<1>5. CASE Unmatched(a)
  BY <1>5, <1>c, <1>t, EndAttemptSettles, Kept DEF Unmatched, store
<1>6. CASE LockedOut(a)
  <2>1. CASE UNCHANGED item
    BY <1>6, <1>c, <1>t, <2>1, EndAttemptSettles, Kept DEF LockedOut
  <2>2. CASE item # None /\ item' = Tagged(WithFailedPrompts(att[a].before, MaxFailed))
    <3>1. InFlight(a) /\ \A b \in Attempts : ~ InFlight(b)'
      BY <1>6, EndAttemptSettles, LastEnds DEF LockedOut, InFlight
    <3>2. MaxFailed \in Nat /\ MaxFailed >= MaxFailed /\ shown' <= MaxFailed
      BY <1>6, <1>t, TouchIdAssumption DEF LockedOut, Safe, PromptsCounted
    <3> QED BY <1>6, <2>2, <3>1, <3>2, Rewritten DEF LockedOut
  <2> QED BY <1>6, <2>1, <2>2 DEF LockedOut
<1>7. CASE Matched(a)
  <2>1. InFlight(a) /\ \A b \in Attempts : InFlight(b) => b = a
    BY <1>7 DEF Matched, InFlight, Safe, OneAttempt
  <2>2. /\ att'[a].pc = "open" /\ att'[a].before = att[a].before
        /\ att'[a].charge = IF att[a].charge = "up" THEN "paid" ELSE att[a].charge
        /\ \A b \in Attempts \ {a} : att'[b] = att[b]
    BY <1>7, <1>t DEF Matched
  <2>3. \A b \in Attempts : InFlight(b)' => b = a
    BY <2>1, <2>2 DEF InFlight
  <2>4. OneAttempt'
    BY <1>7, <2>1, <2>3 DEF Matched, Safe, OneAttempt
  <2>5. PromptsCounted'
    BY <1>7, <1>t, TouchIdAssumption DEF Matched, Safe, PromptsCounted
  <2>6. ChargeFits'
    <3>1. CASE att[a].charge = "up"
      BY <1>7, <1>t, <2>1, <2>2, <2>3, <3>1 DEF Matched, Safe, PromptsCounted, ChargeFits
    <3>2. CASE att[a].charge # "up"
      BY <1>7, <1>t, <2>1, <2>2, <2>3, <3>2 DEF Matched, Safe, ChargeFits
    <3> QED BY <3>1, <3>2
  <2>7. MarkersCarryPassword'
    BY <1>7 DEF Matched, Safe, MarkersCarryPassword
  <2>8. FingerprintsFit'
    BY <1>7, <2>1, <2>2, <2>3 DEF Matched, Safe, FingerprintsFit
  <2>9. RetiredItemGone'
    BY <1>7 DEF Matched, Safe, RetiredItemGone
  <2> QED
    BY <2>4, <2>5, <2>6, <2>7, <2>8, <2>9 DEF Safe
<1>8. CASE Open(a)
  <2>1. Settled
    BY <1>8, <1>t DEF Open, AttGoto, AttemptStates, Settled, InFlight, Safe, ChargeFits
  <2> QED BY <1>8, <1>c, <1>t, <2>1, Kept DEF Open, store
<1>9. ASSUME InFlight(a), RestoredTag(a), UNCHANGED <<env, password, cmd, missed>>, Settled,
             \A b \in Attempts : ~ InFlight(b)',
             shown' = IF att[a].charge = "up" THEN shown - 1 ELSE shown
      PROVE  Safe'
  <2>1. shown' <= shown /\ shown' \in Nat
    BY <1>9, <1>t DEF Safe, ChargeFits
  <2>2. CASE UNCHANGED item
    BY <1>9, <1>c, <2>1, <2>2, Kept
  <2>3. CASE item # None /\ item.tag = Counted(att[a].before) /\ item' = Tagged(att[a].before)
    <3>1. /\ att[a].before \in Markers
          /\ item.tag.failed = att[a].before.failed + 1
          /\ att[a].before.failed \in Nat
      BY <1>t, <2>3 DEF AttemptStates, Markers, Counted, WithFailedPrompts
    <3>2. att[a].charge # "old"
      BY <1>9, <2>3, <3>1 DEF Safe, ChargeFits
    <3>3. att[a].before = WithFailedPrompts(att[a].before, att[a].before.failed)
      BY <3>1 DEF Markers, WithFailedPrompts
    <3>4. shown' <= att[a].before.failed
      BY <1>9, <1>t, <2>3, <3>1, <3>2 DEF Safe, PromptsCounted, ChargeFits, AttemptStates
    <3>5. shown' <= MaxFailed
      BY <1>t, <2>1, TouchIdAssumption DEF Safe, PromptsCounted
    <3> QED BY <1>9, <2>3, <3>1, <3>2, <3>3, <3>4, <3>5, Rewritten
  <2> QED BY <1>9, <2>2, <2>3 DEF RestoredTag
<1>10. CASE Restore(a)
  <2>1. InFlight(a) /\ Settled /\ \A b \in Attempts : ~ InFlight(b)'
    BY <1>10, EndAttemptSettles, LastEnds DEF Restore, InFlight
  <2> QED BY <1>9, <1>10, <2>1 DEF Restore
<1>11. CASE RestoreStale(a)
  <2>1. InFlight(a) /\ att[a].charge # "up"
    BY <1>11 DEF RestoreStale, InFlight, Safe, ChargeFits
  <2>2. att'[a].pc = "retire" /\ \A b \in Attempts \ {a} : att'[b] = att[b]
    BY <1>11, <1>t DEF RestoreStale, AttGoto, AttemptStates
  <2>3. \A b \in Attempts : ~ InFlight(b)'
    BY <2>1, <2>2, LastEnds
  <2> QED BY <1>9, <1>11, <2>1, <2>3 DEF RestoreStale, Settled
<1>12. CASE Retire(a)
  BY <1>12, <1>c, <1>t, EndAttemptSettles, Kept DEF Retire, Delete
<1> QED
  BY <1>1, <1>2, <1>3, <1>4, <1>5, <1>6, <1>7, <1>8, <1>10, <1>11, <1>12 DEF Attempt

\* A step that leaves the attempts alone settles them.
LEMMA AttemptsAlone ==
    ASSUME Safe, UNCHANGED <<att, running>> PROVE Settled
  BY DEF Safe, ChargeFits, Settled, InFlight

LEMMA CommandSafe ==
    ASSUME Safe, TypeOK', NEW t \in Threads, Command(t)
    PROVE  Safe'
<1>t. /\ cmd \in [Threads -> CommandStates] /\ cmd[t] \in CommandStates /\ cmd[Main] \in CommandStates
      /\ env \in Nat /\ shown \in Nat /\ shown <= shown /\ missed \in BOOLEAN
      /\ item # None => item.tag.fp \in Nat /\ item.key \in Nat
  BY ItemType DEF Safe, TypeOK, Threads, Items, Markers
\* What Goto and Finish do to the main thread's enable and to a change that is after its commit.
<1>g. ASSUME NEW pc \in CommandPcs \ {"install"}, Goto(t, pc)
      PROVE  /\ Carried
             /\ cmd[t].pc # "after" => \A u \in Threads : cmd[u].pc = "after" => cmd'[u].pc = "after"
             /\ cmd'[t].pc = pc
             /\ cmd'[Main].pc = "install" => cmd'[Main] = cmd[Main]
  BY <1>g, <1>t DEF Goto, CommandStates, Carried
<1>f. ASSUME Finish(t)
      PROVE  /\ Carried
             /\ cmd[t].pc # "after" => \A u \in Threads : cmd[u].pc = "after" => cmd'[u].pc = "after"
             /\ cmd'[Main].pc = "install" => cmd'[Main] = cmd[Main]
  BY <1>f, <1>t DEF Finish, NoCommand, Carried
<1>1. CASE VerifyCurrentPassword(t)
  <2>1. Carried /\ Named
    BY <1>1, <1>g DEF VerifyCurrentPassword, CommandPcs, Named, store
  <2> QED BY <1>1, <1>t, <2>1, AttemptsAlone, Kept DEF VerifyCurrentPassword, store
<1>2. CASE RetireBeforeChange(t)
  <2>1. Carried /\ (item' # None => Named) /\ (item' = item \/ item' = None)
    <3>1. CASE Retired /\ Goto(t, "change")
      BY <1>2, <3>1, <1>g DEF RetireBeforeChange, CommandPcs, Named, Retired
    <3>2. CASE UNCHANGED <<item, missed>> /\ Finish(t)
      BY <1>2, <3>2, <1>f DEF RetireBeforeChange, Named
    <3> QED BY <1>2, <3>1, <3>2 DEF RetireBeforeChange
  <2> QED BY <1>2, <1>t, <2>1, AttemptsAlone, Kept DEF RetireBeforeChange
<1>3. CASE ChangeKey(t)
  <2>1. CASE Finish(t) /\ UNCHANGED <<env, vault, missed>>
    <3>1. Carried /\ Named
      BY <1>3, <2>1, <1>f DEF ChangeKey, Named
    <3> QED BY <1>3, <1>t, <2>1, <3>1, AttemptsAlone, Kept DEF ChangeKey
  <2>2. CASE /\ env' = env + 1
             /\ \/ Goto(t, "after") /\ UNCHANGED <<vault, missed>>
                \/ Finish(t) /\ missed' = (missed \/ item # None)
    <3>1. cmd'[Main].pc = "install" => cmd'[Main] = cmd[Main]
      BY <2>2, <1>g, <1>f DEF CommandPcs
    <3>2. item # None => missed' \/ \E u \in Threads : cmd'[u].pc = "after"
      <4>1. CASE Goto(t, "after")
        BY <4>1, <1>g DEF CommandPcs
      <4> QED BY <2>2, <4>1
    <3>3. \A a \in Attempts : att[a].before.fp \in Nat
      BY DEF Safe, TypeOK, AttemptStates, Markers
    <3>4. OneAttempt' /\ PromptsCounted' /\ ChargeFits' /\ MarkersCarryPassword'
      BY <1>3 DEF ChangeKey, Safe, OneAttempt, PromptsCounted, ChargeFits, MarkersCarryPassword, InFlight
    <3>5. FingerprintsFit'
      <4>1. item' # None => item'.tag.fp <= env' /\ (item'.tag.fp = item'.key \/ item'.tag.fp < env')
        BY <1>3, <1>t, <2>2 DEF ChangeKey, Safe, FingerprintsFit
      <4>2. ASSUME NEW a \in Attempts, InFlight(a)'
            PROVE  att'[a].before.fp <= env' /\ att'[a].before.fp < env'
        BY <1>3, <1>t, <2>2, <3>3, <4>2 DEF ChangeKey, Safe, FingerprintsFit, InFlight
      <4>3. ASSUME cmd'[Main].pc = "install"
            PROVE  /\ cmd'[Main].fp \in Nat /\ cmd'[Main].fp <= env'
                   /\ item' # None => item'.tag.fp <= cmd'[Main].fp
                   /\ \A a \in Attempts : InFlight(a)' => att'[a].before.fp <= cmd'[Main].fp
        BY <1>3, <1>t, <2>2, <3>1, <4>3 DEF ChangeKey, Safe, FingerprintsFit, InFlight
      <4> QED BY <4>1, <4>2, <4>3 DEF FingerprintsFit, InFlight
    <3>6. RetiredItemGone'
      BY <1>3, <3>2 DEF ChangeKey, RetiredItemGone
    <3> QED BY <3>4, <3>5, <3>6 DEF Safe
  <2> QED BY <1>3, <2>1, <2>2 DEF ChangeKey
<1>4. CASE RetireAfterChange(t)
  <2>1. item' # None => missed'
    BY <1>4 DEF RetireAfterChange, Retired
  <2> QED BY <1>4, <1>t, <1>f, <2>1, AttemptsAlone, Kept DEF RetireAfterChange, Retired, Named
<1>5. CASE ReadForMarkers(t)
  <2>1. Carried /\ Named
    BY <1>5, <1>t DEF ReadForMarkers, Carried, Named, store
  <2> QED BY <1>5, <1>t, <2>1, AttemptsAlone, Kept DEF ReadForMarkers, store
<1> QED
  BY <1>1, <1>2, <1>3, <1>4, <1>5 DEF Command

LEMMA OtherSafe ==
    ASSUME Safe, TypeOK',
           PasswordUnlock \/ NotePasswordUnlock \/ Sweep \/ LockVault \/ Enable \/ Install \/ Disable
             \/ Tick \/ Crash \/ Restart
    PROVE  Safe'
<1>t. /\ cmd \in [Threads -> CommandStates] /\ Main \in Threads /\ Launch \in Threads /\ Main # Launch
      /\ env \in Nat /\ shown \in Nat /\ shown <= shown
      /\ \A a \in Attempts : att[a].before.fp \in Nat
      /\ item # None => item.tag.fp \in Nat /\ item.key \in Nat
  BY ItemType DEF Safe, TypeOK, AttemptStates, Threads, Main, Launch, Items, Markers
<1>f. ASSUME NEW t \in {Main, Launch}, Finish(t), cmd[t].pc # "after", missed => missed'
      PROVE  Carried /\ Named
  BY <1>f, <1>t DEF Finish, NoCommand, Carried, Named
<1>n. ASSUME UNCHANGED <<cmd, missed>> PROVE Carried /\ Named
  BY <1>n DEF Carried, Named
<1>1. CASE PasswordUnlock
  <2>1. Carried /\ Named
    BY <1>1, <1>t DEF PasswordUnlock, Goto, CommandStates, Carried, Named, store
  <2> QED BY <1>1, <1>t, <2>1, AttemptsAlone, Kept DEF PasswordUnlock, store
<1>2. CASE NotePasswordUnlock
  <2>1. CASE Delete /\ UNCHANGED <<password, shown, att>>
    BY <1>2, <1>t, <1>f, <2>1, AttemptsAlone, Kept DEF NotePasswordUnlock, Delete
  <2>2. CASE item # None /\ Noted(item.key, item.tag.fp)
    <3>1. cmd'[Main].pc = "idle" /\ Named
      BY <1>2, <1>t, <1>f DEF NotePasswordUnlock, Finish, NoCommand
    <3>2. /\ item.tag.fp <= env /\ (item.tag.fp = item.key \/ item.tag.fp < env)
          /\ \A a \in Attempts : InFlight(a) => att[a].before.fp = item.key \/ att[a].before.fp < env
      BY <2>2 DEF Safe, FingerprintsFit
    <3>3. item.key # env => missed' \/ \E t \in Threads : cmd'[t].pc = "after"
      BY <2>2, <3>1 DEF Safe, RetiredItemGone, Named
    <3> QED BY <1>2, <1>t, <2>2, <3>1, <3>2, <3>3, NotedSafe DEF NotePasswordUnlock
  <2> QED BY <1>2, <2>1, <2>2 DEF NotePasswordUnlock
<1>3. CASE Sweep
  BY <1>3, <1>t, <1>f, AttemptsAlone, Kept DEF Sweep, Delete
<1>4. CASE LockVault
  BY <1>4, <1>t, <1>n, AttemptsAlone, Kept DEF LockVault, store
<1>5. CASE Enable
  <2>1. Carried /\ Named
    BY <1>5, <1>t DEF Enable, Carried, Named, store
  <2> QED BY <1>5, <1>t, <2>1, AttemptsAlone, Kept DEF Enable, store
<1>6. CASE Install
  <2>1. CASE Delete /\ UNCHANGED <<password, shown, att, missed>>
    BY <1>6, <1>t, <1>f, <2>1, AttemptsAlone, Kept DEF Install, Delete
  <2>2. CASE /\ Noted(cmd[Main].fp, MarkedFingerprint(cmd[Main].fp))
             /\ missed' = (missed \/ cmd[Main].fp # env)
    <3>1. cmd'[Main].pc = "idle" /\ (cmd[Main].fp # env => missed')
      BY <1>6, <1>t, <2>2 DEF Install, Finish, NoCommand
    <3>2. /\ cmd[Main].fp \in Nat /\ cmd[Main].fp <= env
          /\ \A a \in Attempts : InFlight(a) => att[a].before.fp <= cmd[Main].fp
      BY <1>6 DEF Install, Safe, FingerprintsFit
    <3>3. \A a \in Attempts : InFlight(a) => att[a].before.fp = cmd[Main].fp \/ att[a].before.fp < env
      BY <1>t, <3>2
    <3> QED BY <1>6, <2>2, <3>1, <3>2, <3>3, NotedSafe DEF Install, MarkedFingerprint
  <2> QED BY <1>6, <2>1, <2>2 DEF Install
<1>7. CASE Disable
  BY <1>7, <1>t, <1>n, AttemptsAlone, Kept DEF Disable, Delete
<1>8. CASE Tick
  BY <1>8, <1>t, <1>n, AttemptsAlone, Kept DEF Tick, store
<1>9. ASSUME Relaunch PROVE Safe'
  <2>1. Settled
    BY <1>9 DEF Relaunch, NoAttempt, Settled, InFlight
  <2>2. Carried
    BY <1>9, <1>t DEF Relaunch, Launched, Carried, Main, Launch
  <2>3. item' # None => Named
    BY <1>9 DEF Relaunch, Named
  <2> QED BY <1>9, <1>t, <2>1, <2>2, <2>3, Kept DEF Relaunch
<1>10. CASE Crash \/ Restart
  BY <1>9, <1>10 DEF Crash, Restart
<1> QED
  BY <1>1, <1>2, <1>3, <1>4, <1>5, <1>6, <1>7, <1>8, <1>10

LEMMA SafeInit == Init => Safe
<1> SUFFICES ASSUME Init PROVE Safe
  OBVIOUS
<1>1. /\ item = None /\ shown = 0 /\ cmd[Main].pc = "idle"
      /\ \A a \in Attempts : ~ InFlight(a)
  BY DEF Init, NoAttempt, InFlight, Launched, Threads, Main, Launch
<1> QED
  BY <1>1, TypeInit, TouchIdAssumption
  DEF Safe, OneAttempt, PromptsCounted, ChargeFits, MarkersCarryPassword, FingerprintsFit,
      RetiredItemGone

LEMMA SafeStep == Safe /\ [Next]_vars => Safe'
<1> SUFFICES ASSUME Safe, [Next]_vars PROVE Safe'
  OBVIOUS
<1>1. TypeOK'
  BY TypeStep
<1>2. CASE UNCHANGED vars
  BY <1>2
  DEF vars, Safe, TypeOK, OneAttempt, PromptsCounted, ChargeFits, MarkersCarryPassword,
      FingerprintsFit, RetiredItemGone, InFlight
<1> QED
  BY <1>1, <1>2, AttemptSafe, CommandSafe, OtherSafe DEF Next

-----------------------------------------------------------------------------
(* Theorems *)

\* Only a counted prompt raises shown, and the markers it was checked against say no more than
\* the history does.
LEMMA PromptStep == Safe /\ [Next]_vars /\ shown' > shown =>
                        /\ shown < MaxFailed
                        /\ password.boot = boot
                        /\ clock - password.stamp < MaxAge
<1> SUFFICES ASSUME Safe, [Next]_vars, shown' > shown
             PROVE  /\ shown < MaxFailed
                    /\ password.boot = boot
                    /\ clock - password.stamp < MaxAge
  OBVIOUS
<1>1. shown \in Nat /\ ~ (shown > shown) /\ ~ (shown - 1 > shown) /\ ~ (0 > shown)
  BY DEF Safe, TypeOK
<1>2. ASSUME NEW a \in Attempts, Attempt(a) PROVE Count(a)
  <2>1. CASE Restore(a) \/ Matched(a)
    BY <1>1, <2>1 DEF Restore, Matched
  <2> QED
    BY <1>1, <1>2, <2>1
    DEF Attempt, BeginUnlock, ReadFingerprint, Refused, Unmatched, LockedOut, Open, RestoreStale,
        Retire, store
<1>3. \A t \in Threads : ~ Command(t)
  BY <1>1
  DEF Command, VerifyCurrentPassword, RetireBeforeChange, ChangeKey, RetireAfterChange,
      ReadForMarkers, store
<1>4. ~ (NotePasswordUnlock \/ Install)
  BY <1>1 DEF NotePasswordUnlock, Install, Noted
<1>5. ~ (PasswordUnlock \/ Sweep \/ LockVault \/ Enable \/ Disable \/ Tick \/ Crash \/ Restart)
  BY <1>1 DEF PasswordUnlock, Sweep, LockVault, Enable, Disable, Tick, Crash, Restart, Relaunch, store
<1>6. PICK a \in Attempts : Count(a)
  BY <1>1, <1>2, <1>3, <1>4, <1>5 DEF Next, vars
<1>7. /\ item # None /\ item.tag.boot = boot /\ item.tag.failed < MaxFailed
      /\ clock - item.tag.stamp < MaxAge
  BY <1>6 DEF Count, Eligible
<1>8. item.tag.failed \in Nat /\ shown <= item.tag.failed
  BY <1>7, ItemType DEF Safe, PromptsCounted, Items, Markers
<1>9. password.boot = item.tag.boot /\ password.stamp = item.tag.stamp
  BY <1>7, <1>8, TouchIdAssumption DEF Safe, MarkersCarryPassword
<1> QED
  BY <1>1, <1>7, <1>8, <1>9, TouchIdAssumption

LEMMA SafeAlways == Spec => []Safe
  BY SafeInit, SafeStep, PTL DEF Spec

(***************************************************************************)
(* The owner's rule: whatever attempts, commands, key changes, failures of  *)
(* the store and restarts come between, a prompt is shown only if the       *)
(* password was noted in this boot and not too long ago, and too few        *)
(* prompts since then were left without a finger that matched.              *)
(***************************************************************************)
THEOREM PromptsFollowRule == Spec => PromptRule
  BY SafeAlways, PromptStep, PTL DEF Spec, PromptRule

(***************************************************************************)
(* However late an attempt writes its markers back, the markers beside the  *)
(* item carry the last password noted, or are at the limit of failed        *)
(* prompts (TouchId::restore, after_load_error).                            *)
(***************************************************************************)
THEOREM MarkersNeverOlder == Spec => []MarkersCarryPassword
<1>1. Safe => MarkersCarryPassword
  BY DEF Safe
<1> QED
  BY <1>1, SafeAlways, PTL

(***************************************************************************)
(* An item whose markers match the envelope holds its key, although enable  *)
(* reads its material and stores it in two steps (app::enable, install).    *)
(***************************************************************************)
THEOREM OfferOpens == Spec => []OfferedItemOpens
<1>1. Safe => OfferedItemOpens
  BY ItemType DEF Safe, TypeOK, FingerprintsFit, OfferedItemOpens, Items, Markers
<1> QED
  BY <1>1, SafeAlways, PTL

(***************************************************************************)
(* An item of a retired key outlives the change only in the cases the code  *)
(* leaves open, which missed names (retire_before_change,                   *)
(* retire_after_change).                                                    *)
(***************************************************************************)
THEOREM RetiredKeyHeldByNone == Spec => []RetiredItemGone
<1>1. Safe => RetiredItemGone
  BY DEF Safe
<1> QED
  BY <1>1, SafeAlways, PTL

=============================================================================
