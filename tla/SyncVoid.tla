------------------------------ MODULE SyncVoid ------------------------------
(***************************************************************************)
(* Voids and the status of a replica: how a replica moves past a position   *)
(* of the log whose envelope authenticates but is invalid.                  *)
(*                                                                          *)
(* Every honest replica stops there.  A member appends a void that names    *)
(* the position; a replica skips the range from the position to the void    *)
(* only if it is itself stopped there, in log order, at the envelope the    *)
(* void names.  Envelopes are checked ahead of the frontier and again       *)
(* behind it, voids name valid positions, other digests, other commands or  *)
(* the same position twice, builds change their engine version, snapshots   *)
(* are installed, and the service may show two envelopes at one position.   *)
(*                                                                          *)
(* One replica is modelled, beside what the log alone decides: a replica    *)
(* that always agrees with the log agrees with every other one.  The Sync   *)
(* engine that pulls, applies and offers is not in this code; it is         *)
(* modelled as the documentation of the two modules tells it to behave.     *)
(*                                                                          *)
(* Sources: crates/sync-core/src/void.rs and status.rs.                     *)
(***************************************************************************)
EXTENDS Integers, Sequences, FiniteSets

CONSTANTS
    MaxSeq,    \* bound: length of the log
    Versions,  \* engine versions
    Logs,      \* the logs considered
    MaxShown,  \* bound: envelopes the service shows beside the log's, and forked applies
    None

VARIABLES
    log,      \* what the service keeps
    status,   \* SyncStatus
    next,     \* next_to_apply: the lowest position neither applied nor skipped
    pulled,   \* the highest position pulled in order
    ledger,   \* VoidLedger: the honored voids
    root,     \* the snapshot this replica was bootstrapped from
    version,  \* the engine version of the build that runs
    permit,   \* a RebootstrapPermit, with the ledger of the snapshot it is for
    shown

vars == <<log, status, next, pulled, ledger, root, version, permit, shown>>

Positions == 1 .. MaxSeq
Envelopes == [kind : {"envelope"}, version : Versions, verdict : {"valid", "receiver", "apply"}]
Voids == [kind : {"void"}, id : Positions, target : Positions,
          names : {"same", "command", "digest"}]

ASSUME VoidAssumption ==
    /\ MaxSeq \in Nat /\ MaxShown \in Nat
    /\ \A l \in Logs : l \in Seq(Envelopes \union Voids) /\ Len(l) = MaxSeq

\* HonoredVoid.
Ranges == [id : Positions, first : Positions, last : Positions]

IsVoid(k) == log[k].kind = "void"

\* The envelope of the log, one the service shows only to this replica, one nobody has.
NamedDigest(v) == IF log[v].names = "digest" THEN "lie" ELSE "log"

(***************************************************************************)
(* SyncStatus.                                                              *)
(***************************************************************************)
Healthy == [kind |-> "Healthy", seq |-> 0, digest |-> "log", wants |-> None]
Halted(why, k) == [kind |-> why, seq |-> k, digest |-> "log", wants |-> None]
Recoverable == {"WriteSetMismatch", "AppliedPositionInvalid"}
Halts == Recoverable \union {"SeqConflict", "VoidAtTwoPositions", "Fork"}
Stops == {"EnvelopeInvalid", "UpdateRequired"}

IsHalted(s) == s.kind \in Halts
Halt(s, why, k) == IF IsHalted(s) THEN s ELSE Halted(why, k)

CanApply(s, k) == s.kind = "Healthy" \/ (s.kind \in Stops /\ k < s.seq)

\* The earlier position wins; a halted replica stays halted.
StopAt(s, stop) ==
    IF IsHalted(s) \/ (s.kind \in Stops /\ s.seq <= stop.seq) THEN s ELSE stop

\* observe_engine_version: at one position the version gate beats a verdict.
ObserveVersion(s, k, digest) ==
    LET update == [kind |-> "UpdateRequired", seq |-> k, digest |-> digest,
                   wants |-> log[k].version]
    IN  IF s.kind = "EnvelopeInvalid" /\ s.seq = k THEN update ELSE StopAt(s, update)

\* observe_stop, for the checks of the receiver and for a failed apply.
ObserveStop(s, k, digest, fails) ==
    CASE s.kind \in Stops /\ s.seq = k /\ s.digest # digest -> Halted("SeqConflict", k)
      [] ~(s.kind \in Stops /\ s.seq = k /\ s.digest # digest) ->
            IF log[k].version # version THEN ObserveVersion(s, k, digest)
            ELSE IF fails
            THEN StopAt(s, [kind |-> "EnvelopeInvalid", seq |-> k, digest |-> digest,
                            wants |-> None])
            ELSE s

Skips(k) == \E i \in DOMAIN ledger : ledger[i].first <= k /\ k <= ledger[i].last

\* Mutant: every check is recorded, also one behind the frontier.
ObserveInContext_Always(s, k, digest, fails) == ObserveStop(s, k, digest, fails)

\* observe_envelope_in_context.
ObserveInContext(s, k, digest, fails) ==
    IF Skips(k) \/ (k < next /\ ~fails) THEN s
    ELSE IF k < next THEN Halt(s, "AppliedPositionInvalid", k)
    ELSE ObserveStop(s, k, digest, fails)

\* observe_own_engine_version.
ObserveOwn(s, v) == IF s.kind = "UpdateRequired" /\ s.wants = v THEN Healthy ELSE s

(***************************************************************************)
(* The honor rule.                                                          *)
(***************************************************************************)
Held == {v \in Positions : v <= pulled /\ IsVoid(v)}

\* The context contradicts the replica's own state: the offer is refused.
OfferRefused ==
    \/ status.kind \in Stops /\ status.seq < next
    \/ root >= next
    \/ \E i \in DOMAIN ledger : ledger[i].last >= next

\* Mutant: a position checked out of order counts as found invalid.
Outcome_AnyStop(v) ==
    LET k == log[v].target
        honored == {i \in DOMAIN ledger : ledger[i].id = log[v].id}
    IN  CASE honored # {} ->
                IF \A i \in honored : ledger[i].last + 1 = v THEN "AlreadyHonored"
                ELSE "VoidAtTwoPositions"
          [] honored = {} /\ (v <= k \/ Skips(k) \/ k <= root \/ k < next) -> "Inert"
          [] honored = {} /\ ~(v <= k \/ Skips(k) \/ k <= root \/ k < next) ->
                CASE ~(status.kind = "EnvelopeInvalid" /\ status.seq = k) -> "NotYetEvaluated"
                  [] status.kind = "EnvelopeInvalid" /\ status.seq = k ->
                        IF NamedDigest(v) # status.digest THEN "DigestAtStop"
                        ELSE IF log[v].names = "command" THEN "Inert" ELSE "Honored"

\* Mutant: the range of a void that was only pulled counts as covered.
Covered_ByHeld(v) ==
    \E w \in Held : w < v /\ log[w].target <= log[v].target /\ log[v].target < w

Covered(v) == Skips(log[v].target)

\* offer_one: the first condition that fails decides.
Outcome(v) ==
    LET k == log[v].target
        honored == {i \in DOMAIN ledger : ledger[i].id = log[v].id}
        inert == v <= k \/ Covered(v) \/ k <= root \/ k < next
        stopped == next = k /\ status.kind = "EnvelopeInvalid" /\ status.seq = k
    IN  CASE honored # {} ->
                IF \A i \in honored : ledger[i].last + 1 = v THEN "AlreadyHonored"
                ELSE "VoidAtTwoPositions"
          [] honored = {} /\ inert -> "Inert"
          [] honored = {} /\ ~inert /\ ~stopped -> "NotYetEvaluated"
          [] honored = {} /\ ~inert /\ stopped ->
                IF NamedDigest(v) # status.digest THEN "DigestAtStop"
                ELSE IF log[v].names = "command" THEN "Inert" ELSE "Honored"

Changing == {v \in Held : Outcome(v) \in {"Honored", "DigestAtStop", "VoidAtTwoPositions"}}
First(s) == CHOOSE v \in s : \A w \in s : v <= w

\* Mutant: the bounds of the range are swapped.
HonoredRange_Swapped(v) == [id |-> log[v].id, first |-> v - 1, last |-> log[v].target]

HonoredRange(v) == [id |-> log[v].id, first |-> log[v].target, last |-> v - 1]

(***************************************************************************)
(* What the log alone decides.                                              *)
(***************************************************************************)
Poisoned(k) == ~IsVoid(k) /\ log[k].verdict # "valid"
Genuine(k) == {v \in k + 1 .. MaxSeq : IsVoid(v) /\ log[v].target = k /\ log[v].names = "same"}

\* Where a replica goes on after position k; 0 if it stays there.
Beyond(k) ==
    IF ~Poisoned(k) THEN k + 1 ELSE IF Genuine(k) = {} THEN 0 ELSE First(Genuine(k))

\* The positions a replica's frontier takes.
Frontiers ==
    LET to[n \in 0 .. MaxSeq] ==
            IF n = 0 THEN {1}
            ELSE LET before == to[n - 1]
                 IN  before \union {Beyond(k) : k \in before \intersect Positions}
    IN  to[MaxSeq] \ {0}

\* The ranges it has skipped when it has reached f.
SkippedBelow(f) ==
    {[id |-> log[Beyond(k)].id, first |-> k, last |-> Beyond(k) - 1] :
        k \in {j \in Frontiers : j < f /\ Poisoned(j) /\ Beyond(j) # 0}}

\* VoidLedger::decode: strictly ascending, disjoint ranges.
IsLedger(l) ==
    /\ \A i \in DOMAIN l : l[i].first <= l[i].last
    /\ \A i, j \in DOMAIN l : i < j => l[i].last < l[j].first

Encoded(ranges) ==
    CHOOSE l \in [1 .. Cardinality(ranges) -> ranges] :
        \A i, j \in DOMAIN l : i < j => l[i].first < l[j].first

(***************************************************************************)
(* The replica.                                                             *)
(***************************************************************************)
Init ==
    /\ log \in Logs
    /\ status = Healthy
    /\ next = 1 /\ pulled = 0
    /\ ledger = <<>>
    /\ root = 0
    /\ version \in Versions
    /\ permit = None
    /\ shown = 0

Pull ==
    /\ pulled < MaxSeq
    /\ pulled' = pulled + 1
    /\ UNCHANGED <<log, status, next, ledger, root, version, permit, shown>>

\* The receiver checks run on any pulled position, also again, also ahead of the frontier.
Check(k) ==
    /\ ~IsVoid(k)
    /\ status' = ObserveInContext(status, k, "log", log[k].version = version
                                                        /\ log[k].verdict = "receiver")
    /\ UNCHANGED <<log, next, pulled, ledger, root, version, permit, shown>>

\* The service shows another envelope at the position.
CheckShown(k) ==
    /\ ~IsVoid(k)
    /\ shown < MaxShown
    /\ shown' = shown + 1
    /\ \E fails \in BOOLEAN : status' = ObserveInContext(status, k, "shown", fails)
    /\ UNCHANGED <<log, next, pulled, ledger, root, version, permit>>

\* A record of the log that is not an envelope, or a valid one, moves the frontier.
Apply ==
    /\ next <= pulled
    /\ CanApply(status, next)
    /\ ~IsVoid(next) => (log[next].version = version /\ log[next].verdict = "valid")
    /\ next' = next + 1
    /\ UNCHANGED <<log, status, pulled, ledger, root, version, permit, shown>>

ApplyFails ==
    /\ next <= pulled
    /\ CanApply(status, next)
    /\ ~IsVoid(next) /\ log[next].version = version /\ log[next].verdict = "apply"
    /\ status' = ObserveStop(status, next, "log", TRUE)
    /\ UNCHANGED <<log, next, pulled, ledger, root, version, permit, shown>>

\* The apply succeeds with another write set.
ApplyForks ==
    /\ next <= pulled
    /\ CanApply(status, next)
    /\ ~IsVoid(next) /\ log[next].version = version /\ log[next].verdict = "valid"
    /\ shown < MaxShown
    /\ shown' = shown + 1
    /\ status' = Halt(status, "WriteSetMismatch", next)
    /\ UNCHANGED <<log, next, pulled, ledger, root, version, permit>>

\* The membership chain forks, or an epoch is equivocated.
ChainForks ==
    /\ shown < MaxShown
    /\ shown' = shown + 1
    /\ status' = Halt(status, "Fork", next)
    /\ UNCHANGED <<log, next, pulled, ledger, root, version, permit>>

\* offer_in_order over every void held, up to the first that changes the replica; a void that
\* is honored ends the stop and moves the frontier past its range.
Offer ==
    /\ ~OfferRefused
    /\ \E v \in Changing :
          /\ \A w \in Changing : v <= w
          /\ IF Outcome(v) = "Honored"
             THEN /\ ledger' = Append(ledger, HonoredRange(v))
                  /\ status' = IF status.seq = HonoredRange(v).first THEN Healthy ELSE status
                  /\ next' = HonoredRange(v).last + 1
             ELSE /\ status' = Halt(status, IF Outcome(v) = "DigestAtStop" THEN "SeqConflict"
                                            ELSE "VoidAtTwoPositions", log[v].target)
                  /\ UNCHANGED <<next, ledger>>
    /\ UNCHANGED <<log, pulled, root, version, permit, shown>>

\* rebootstrap_permit: a snapshot of this build's version, rooted in no range of a void held.
Permits(s, r, recorded) ==
    /\ ~\E v \in Held : log[v].target <= r /\ r < v
    /\ CASE s.kind = "EnvelopeInvalid" ->
                \E i \in DOMAIN recorded :
                    recorded[i].first <= s.seq /\ s.seq <= recorded[i].last /\ recorded[i].last < r
         [] s.kind \in {"UpdateRequired"} \union Recoverable -> s.seq <= r
         [] OTHER -> FALSE

\* Another replica's snapshot is verified, and its ledger parsed.
TakePermit ==
    /\ ~(status.kind = "Healthy")
    /\ \E f \in Frontiers :
          LET recorded == Encoded(SkippedBelow(f))
          IN  /\ recorded \in Seq(Ranges) /\ IsLedger(recorded)
              /\ Permits(status, f - 1, recorded)
              /\ permit' = [stop |-> status, root |-> f - 1, ledger |-> recorded]
    /\ UNCHANGED <<log, status, next, pulled, ledger, root, version, shown>>

\* observe_rebootstrapped: only the stop the permit was issued for.
Install ==
    /\ permit # None
    /\ permit' = None
    /\ IF status = permit.stop
       THEN /\ status' = Healthy
            /\ root' = permit.root /\ next' = permit.root + 1
            /\ ledger' = permit.ledger
            /\ pulled' = IF pulled < permit.root THEN permit.root ELSE pulled
       ELSE UNCHANGED <<status, root, next, ledger, pulled>>
    /\ UNCHANGED <<log, version, shown>>

\* A halt is persisted with the ledger and the frontier; a stop may be, or is found again.
Restart(v) ==
    /\ version' = v
    /\ status' \in {ObserveOwn(status, v), IF IsHalted(status) THEN status ELSE Healthy}
    /\ pulled' = next - 1
    /\ permit' = None
    /\ UNCHANGED <<log, next, ledger, root, shown>>

Next ==
    \/ Pull \/ Apply \/ ApplyFails \/ ApplyForks \/ ChainForks \/ Offer
    \/ TakePermit \/ Install
    \/ \E k \in 1 .. pulled : Check(k) \/ CheckShown(k)
    \/ \E v \in Versions : Restart(v)

Spec == Init /\ [][Next]_vars

(***************************************************************************)
(* Properties.                                                              *)
(***************************************************************************)
\* "Honoring only ever produces strictly ascending, disjoint ranges": what a replica persists or
\* publishes with a snapshot parses again.
LedgerParses == IsLedger(ledger)

\* "Two replicas that see the same log in any order build the same ledger": the frontier and the
\* ledger are the ones the log decides, whatever was checked, offered, restarted or installed
\* when, so a member cannot void a valid envelope and no two replicas skip different positions.
LogDecides ==
    /\ next \in Frontiers
    /\ {ledger[i] : i \in DOMAIN ledger} = SkippedBelow(next)

\* "An inert void over a valid range never blocks a later genuine void inside it": a replica that
\* is stopped in log order and holds a void that names its stop truthfully moves on when it offers
\* what it holds, or halts on an earlier contradiction.
SpamNeverBlocks ==
    LET genuine == Genuine(next) \intersect Held
    IN  status.kind = "EnvelopeInvalid" /\ status.seq = next /\ genuine # {} =>
            ~OfferRefused /\ \E v \in Changing : v <= First(genuine)
=============================================================================
