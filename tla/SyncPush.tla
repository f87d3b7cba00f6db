------------------------------ MODULE SyncPush ------------------------------
(***************************************************************************)
(* How a command gets into the log of a synced vault, exactly once.         *)
(*                                                                          *)
(* A machine seals a command of its outbox, verifies and saves the sealed   *)
(* bytes, uploads them, and uploads the same bytes again when it hears      *)
(* nothing.  The service looks up both identities of a push before it       *)
(* judges anything else, so that a retry of an accepted envelope gets its   *)
(* old position back; a new envelope must come from an authorized device,   *)
(* be of the epoch in force and be sealed on the head.  Meanwhile devices   *)
(* are added and revoked and keys rotated, each at a position of the log,   *)
(* pushes arrive late or more than once, answers are lost, machines crash   *)
(* between seal and save, and a machine whose device was revoked enrolls as *)
(* another device with the outbox of the old one.  Every machine follows    *)
(* the chain in pages and judges every envelope by the epoch in force where *)
(* it stands.                                                               *)
(*                                                                          *)
(* Sources: crates/sync-core/src/accepted.rs, service.rs, producer.rs,      *)
(* crates/vault-crypto/src/sync_envelope.rs, sync_records.rs.  The service  *)
(* and the Sync engine around these decisions are not in this code; they    *)
(* are modelled as its documentation tells them to behave.                  *)
(***************************************************************************)
EXTENDS MemberChain

CONSTANTS
    Commands, Tags, Machines,
    Home,        \* the machine whose outbox a command is in
    First,       \* the device each machine is enrolled as in the beginning
    Start,       \* the chain in the beginning
    MaxSeals,    \* bound: seals of one command
    MaxRecords,  \* bound: epoch records of the chain
    None

ASSUME BoundsAreNat == MaxSeals \in Nat \ {0} /\ MaxRecords \in Nat

ASSUME StartVerifies ==
    /\ Start \in [steps : Seq(MembershipRecords), epochs : Seq(EpochRecords)] /\ Start # Refused
    /\ Extend(NoChain, Start.steps, Start.epochs) = Start

ASSUME MachinesAreEnrolled == Home \in [Commands -> Machines] /\ First \in [Machines -> Devices]

VARIABLES
    tag,     \* the tag of each command's idempotency key
    chain,   \* the records the service holds
    place,   \* the head of the log at which each epoch record was installed
    log,     \* accepted envelopes; the position is the seq
    index,   \* the accepted-envelope index
    wire,    \* pushes that were sent, each to arrive any number of times
    device,  \* the device a machine is enrolled as
    view,    \* the chain a machine has verified
    pulled,  \* the position up to which a machine has pulled
    halted,  \* the machine has seen a fork
    box      \* the outbox entry of each command

serviceVars == <<chain, place, log, index>>
machineVars == <<device, view, pulled, halted>>
vars == <<tag, serviceVars, wire, machineVars, box>>

Envelopes == [command : Commands, device : Devices, seal : 1 .. MaxSeals,
              epoch : 1 .. KeyEpoch(Start) + MaxRecords - Len(Start.epochs),
              base : 0 .. Cardinality(Commands)]

\* The record of an envelope the service accepted.
Accepted(envelope, seq) ==
    [command |-> envelope.command, tag |-> tag[envelope.command], envelope |-> envelope,
     seq |-> seq]

(***************************************************************************)
(* The decisions.                                                           *)
(***************************************************************************)
\* Mutant: one lookup is enough.
DecidePush_ByCommand(envelope) ==
    LET same == {r \in index : r.command = envelope.command}
    IN  CASE same = {} -> "unknown"
          [] \E r \in same : r.envelope = envelope -> "replay"
          [] OTHER -> "fork"

\* decide_push, over by_command_id and by_tag.
DecidePush(envelope) ==
    LET known == {r \in index : r.command = envelope.command \/ r.tag = tag[envelope.command]}
    IN  CASE known = {} -> "unknown"
          [] \E r \in known : known = {r} /\ r.envelope = envelope -> "replay"
          [] OTHER -> "fork"

\* check_new_push.
CheckNewPush(envelope) ==
    envelope.device \in Authorized(chain) /\ envelope.epoch = KeyEpoch(chain)

\* match_pulled.
MatchPulled(mine, theirs) ==
    IF mine.command # theirs.command /\ tag[mine.command] # tag[theirs.command] THEN "not mine"
    ELSE IF mine = theirs THEN "bind" ELSE "fork"

\* Mutant: a record covers the head it was installed at.
RecordBefore_Inclusive(seq) ==
    CHOOSE i \in DOMAIN place : place[i] <= seq /\ \A j \in DOMAIN place : place[j] <= seq => j <= i

\* The newest epoch record positioned before an envelope; before is strict.
RecordBefore(seq) ==
    CHOOSE i \in DOMAIN place : place[i] < seq /\ \A j \in DOMAIN place : place[j] < seq => j <= i

\* classify_envelope of a machine, at a position of the log.
Verdict(m, seq) ==
    LET i == RecordBefore(seq)
        inForce == view[m].epochs[i]
    IN  CASE i > Len(view[m].epochs) -> "chain behind"
          [] i <= Len(view[m].epochs) ->
                CASE log[seq].epoch # inForce.epoch -> "invalid"
                  [] /\ log[seq].epoch = inForce.epoch
                     /\ inForce.epoch \notin KeysOf(view[m], device[m]) -> "no key"
                  [] /\ log[seq].epoch = inForce.epoch
                     /\ inForce.epoch \in KeysOf(view[m], device[m]) ->
                        IF log[seq].device \in AuthorizedAt(view[m], inForce.head)
                        THEN "valid" ELSE "invalid"

(***************************************************************************)
(* The state.                                                               *)
(***************************************************************************)
Waiting == [step |-> "committed", seals |-> 0, envelope |-> None, seq |-> 0]

Init ==
    /\ tag \in [Commands -> Tags]
    /\ chain = Start /\ place = [i \in DOMAIN Start.epochs |-> 0]
    /\ log = <<>> /\ index = {}
    /\ wire = {}
    /\ device = First
    /\ view = [m \in Machines |-> Start]
    /\ pulled = [m \in Machines |-> 0]
    /\ halted = [m \in Machines |-> FALSE]
    /\ box = [c \in Commands |-> Waiting]

Credential(m) == device[m] \in Authorized(chain)
Mine(m) == {c \in Commands : Home[c] = m}
Holds(c, step) == box[c].step = step /\ ~halted[Home[c]]

(***************************************************************************)
(* The producer.                                                            *)
(***************************************************************************)
\* Seal under a counter of its own, and verify by opening as a receiver would.
Seal(c) ==
    LET m == Home[c]
        epoch == KeyEpoch(view[m])
        sealed == [command |-> c, device |-> device[m], seal |-> box[c].seals + 1,
                   epoch |-> epoch, base |-> pulled[m]]
    IN  /\ Holds(c, "committed") /\ box[c].seals < MaxSeals
        /\ epoch \in KeysOf(view[m], device[m]) /\ device[m] \in MembersIn(view[m], epoch)
        /\ box' = [box EXCEPT ![c] = [step |-> "verified", seals |-> sealed.seal,
                                     envelope |-> sealed, seq |-> 0]]
        /\ UNCHANGED <<tag, serviceVars, wire, machineVars>>

\* The approved bytes are persisted with the outbox entry; only then are they uploaded.
Persist(c) ==
    /\ Holds(c, "verified")
    /\ box' = [box EXCEPT ![c].step = "saved"]
    /\ UNCHANGED <<tag, serviceVars, wire, machineVars>>

Unsealed(entry) == [entry EXCEPT !.step = "committed", !.envelope = None]

\* What is not persisted is gone, and is sealed again under the next counter.
Crash(m) ==
    /\ \E c \in Mine(m) : box[c].step = "verified"
    /\ box' = [c \in Commands |-> IF c \in Mine(m) /\ box[c].step = "verified"
                                  THEN Unsealed(box[c]) ELSE box[c]]
    /\ UNCHANGED <<tag, serviceVars, wire, machineVars>>

\* Byte for byte the same bytes, as often as it likes.
Upload(c) ==
    /\ Holds(c, "saved")
    /\ wire' = wire \union {[from |-> device[Home[c]], envelope |-> box[c].envelope]}
    /\ UNCHANGED <<tag, serviceVars, machineVars, box>>

\* The saved bytes can never be accepted (another epoch, or a base behind what was pulled) and
\* the index knows neither identity: seal the command again.
SealAgain(c) ==
    /\ Holds(c, "saved") /\ Credential(Home[c])
    /\ \/ box[c].envelope.epoch # KeyEpoch(view[Home[c]])
       \/ box[c].envelope.base < pulled[Home[c]]
    /\ DecidePush(box[c].envelope) = "unknown"
    /\ box' = [box EXCEPT ![c] = Unsealed(@)]
    /\ UNCHANGED <<tag, serviceVars, wire, machineVars>>

Bound(entry, seq) == [entry EXCEPT !.step = "bound", !.seq = seq]

(***************************************************************************)
(* The service.                                                             *)
(***************************************************************************)
\* Mutant: a base behind the head is appended as well.
Answer_NoSwap(p) ==
    IF p.from \notin Authorized(chain) THEN "no credential"
    ELSE IF DecidePush(p.envelope) # "unknown" THEN DecidePush(p.envelope)
    ELSE IF ~CheckNewPush(p.envelope) THEN "refused" ELSE "accepted"

\* What a push comes to: parse, then the replay lookup, then the rest.
Answer(p) ==
    IF p.from \notin Authorized(chain) THEN "no credential"
    ELSE IF DecidePush(p.envelope) # "unknown" THEN DecidePush(p.envelope)
    ELSE IF ~CheckNewPush(p.envelope) THEN "refused"
    ELSE IF p.envelope.base # Len(log) THEN "behind" ELSE "accepted"

PositionOf(envelope, records) == (CHOOSE r \in records : r.envelope = envelope).seq

\* A push arrives; the lookup, the checks, the append and the insert are one transaction.  The
\* answer reaches the machine or is lost.
Push(p) ==
    LET c == p.envelope.command
        answer == Answer(p)
    IN  /\ IF answer = "accepted"
           THEN log' = Append(log, p.envelope)
                /\ index' = index \union {Accepted(p.envelope, Len(log) + 1)}
           ELSE UNCHANGED <<log, index>>
        /\ \/ UNCHANGED <<box, halted>>
           \/ /\ answer \in {"accepted", "replay"}
              /\ Holds(c, "saved") /\ box[c].envelope = p.envelope
              /\ box' = [box EXCEPT ![c] = Bound(@, PositionOf(p.envelope, index'))]
              /\ UNCHANGED halted
           \/ /\ answer = "fork" /\ Holds(c, "saved") /\ box[c].envelope = p.envelope
              /\ halted' = [halted EXCEPT ![Home[c]] = TRUE]
              /\ UNCHANGED box
        /\ UNCHANGED <<tag, chain, place, wire, device, view, pulled>>

\* The membership records a member may put next, each alone.
Changes(m) == {<<[version |-> Version(chain) + 1, action |-> a, device |-> d,
                  signer |-> device[m]]>> : a \in {"add", "revoke"}, d \in Devices}

\* The epoch record of a change.  Epoch keys are named by the epoch they are made for.
NewRecord(m, reason, stepped) ==
    LET epoch == KeyEpoch(chain) + IF reason = "grant" THEN 0 ELSE 1
    IN  [place |-> Len(chain.epochs) + 1, reason |-> reason, epoch |-> epoch, key |-> epoch,
         head |-> Version(stepped), sealer |-> device[m],
         recipients |-> Recipients(stepped, reason, Version(stepped))]

\* A member that has seen the whole chain adds or revokes a device, with the epoch record of the
\* change, or rotates the key.
InstallRecords(m) ==
    /\ Credential(m) /\ view[m] = chain /\ Len(chain.epochs) < MaxRecords
    /\ \E reason \in {"cutover", "grant", "rotation"} :
        \E memberships \in {<<>>} \union Changes(m) :
            LET stepped == Stepped(chain, memberships)
                next == Extend(chain, memberships, <<NewRecord(m, reason, stepped)>>)
            IN  stepped # Refused /\ next # Refused /\ chain' = next
    /\ place' = Append(place, Len(log))
    /\ UNCHANGED <<tag, log, index, wire, machineVars, box>>

(***************************************************************************)
(* Every machine.                                                           *)
(***************************************************************************)
\* A page of the chain that ends anywhere, from what is verified or from the beginning.
Fetch(m) ==
    /\ Credential(m) /\ ~halted[m] /\ view[m] # chain
    /\ \E from \in {0, 1}, to \in Version(view[m]) .. Version(chain),
          last \in Len(view[m].epochs) .. Len(chain.epochs) :
        LET next == Extend(view[m], SubSeq(chain.steps, from * Version(view[m]) + 1, to),
                           SubSeq(chain.epochs, from * Len(view[m].epochs) + 1, last))
        IN  next # Refused /\ view' = [view EXCEPT ![m] = next]
    /\ UNCHANGED <<tag, serviceVars, wire, device, pulled, halted, box>>

\* The next envelope of the log, judged where it stands, against every entry of the outbox.
Pull(m) ==
    LET seq == pulled[m] + 1
        open == {c \in Mine(m) : box[c].step = "saved"}
        match(c) == MatchPulled(box[c].envelope, log[seq])
    IN  /\ Credential(m) /\ ~halted[m] /\ seq \in DOMAIN log
        /\ Verdict(m, seq) = "valid"
        /\ IF \E c \in open : match(c) = "fork"
           THEN halted' = [halted EXCEPT ![m] = TRUE] /\ UNCHANGED <<pulled, box>>
           ELSE /\ pulled' = [pulled EXCEPT ![m] = seq]
                /\ box' = [c \in Commands |-> IF c \in open /\ match(c) = "bind"
                                              THEN Bound(box[c], seq) ELSE box[c]]
                /\ UNCHANGED halted
        /\ UNCHANGED <<tag, serviceVars, wire, device, view>>

\* A machine whose device was revoked enrolls as a device a member has added, and starts from
\* the snapshot at the head with its outbox.
Enroll(m) ==
    /\ ~Credential(m) /\ ~halted[m]
    /\ \E d \in Authorized(chain) \ {device[n] : n \in Machines} :
        device' = [device EXCEPT ![m] = d]
    /\ view' = [view EXCEPT ![m] = NoChain]
    /\ pulled' = [pulled EXCEPT ![m] = Len(log)]
    /\ box' = [c \in Commands |-> IF c \in Mine(m) /\ box[c].step = "verified"
                                  THEN Unsealed(box[c]) ELSE box[c]]
    /\ UNCHANGED <<tag, serviceVars, wire, halted>>

Next ==
    \/ \E c \in Commands : Seal(c) \/ Persist(c) \/ Upload(c) \/ SealAgain(c)
    \/ \E p \in wire : Push(p)
    \/ \E m \in Machines : InstallRecords(m) \/ Crash(m) \/ Fetch(m) \/ Pull(m) \/ Enroll(m)

Spec == Init /\ [][Next]_vars

(***************************************************************************)
(* Properties.                                                              *)
(***************************************************************************)
\* Every value has its type; the service and every machine hold chains that verify from the
\* beginning; the index is exactly the log; only what is sealed has an envelope.
TypeOK ==
    /\ tag \in [Commands -> Tags]
    /\ Extend(NoChain, chain.steps, chain.epochs) = chain
    /\ place \in [DOMAIN chain.epochs -> 0 .. Len(log)]
    /\ log \in BoundedSeq(Envelopes, Cardinality(Commands))
    /\ index = {Accepted(log[i], i) : i \in DOMAIN log}
    /\ \A p \in wire : p.from \in Devices /\ p.envelope \in Envelopes
    /\ device \in [Machines -> Devices]
    /\ \A m \in Machines : Extend(NoChain, view[m].steps, view[m].epochs) = view[m]
    /\ pulled \in [Machines -> 0 .. Len(log)]
    /\ halted \in [Machines -> BOOLEAN]
    /\ box \in [Commands ->
         [step : {"committed"}, seals : 0 .. MaxSeals, envelope : {None}, seq : {0}] \union
         [step : {"verified", "saved"}, seals : 1 .. MaxSeals, envelope : Envelopes, seq : {0}] \union
         [step : {"bound"}, seals : 1 .. MaxSeals, envelope : Envelopes, seq : DOMAIN log]]

\* Whatever is retried, delayed, lost, sealed again or enrolled anew, a command and an idempotency
\* key are appended once, and the machine that issued the command is told once, and is told the
\* position where the bytes it saved are.  decide_push looks both identities up in one snapshot
\* before anything else of a push is judged; match_pulled binds what a machine pulls.
Log == INSTANCE AppendOnce WITH
    Unknown <- None,
    accepted <- log,
    saved <- [c \in Commands |-> IF box[c].step \in {"saved", "bound"}
                                 THEN box[c].envelope ELSE None],
    told <- [c \in Commands |-> IF box[c].step = "bound" THEN box[c].seq ELSE None]

AppendsOnce == Log!Spec

\* A machine never halts on a fork of its own making: unless two commands share an idempotency
\* key, no retry, late push or second seal of a command is taken for a fork, by the service
\* (decide_push) or by the machine that pulls it (match_pulled).
NoForkAlone ==
    (\E m \in Machines : halted[m]) => \E c, d \in Commands : c # d /\ tag[c] = tag[d]

\* What the service accepts, every member reads, and reads alike: under the epoch records it has
\* verified, a machine finds no accepted envelope invalid at its position, it lacks the key only
\* if its device was no member of that epoch, and it holds the key of no other epoch.  The
\* service judges by the chain of the moment (check_new_push), a receiver by the newest record
\* before the position (EpochAtPosition, classify_envelope), with the keys accept_records gave it.
MembersRead ==
    \A m \in Machines, seq \in DOMAIN log :
        LET i == RecordBefore(seq)
            members == MembersIn(view[m], chain.epochs[i].epoch)
        IN  i <= Len(view[m].epochs) =>
                Verdict(m, seq) = IF device[m] \in members THEN "valid" ELSE "no key"
=============================================================================
