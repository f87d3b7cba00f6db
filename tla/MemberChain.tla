---------------------------- MODULE MemberChain ----------------------------
(***************************************************************************)
(* The membership chain of a synced vault and its epoch records, as a       *)
(* verifier sees them.                                                      *)
(*                                                                          *)
(* A membership record adds or revokes a device; an epoch record names the  *)
(* membership head it covers and seals the epoch's key to devices.  A       *)
(* revocation is a cutover to a fresh key, an addition a grant of the       *)
(* current one, a rotation a fresh key for the same members.  Everything a  *)
(* device reads or sends is judged against a chain verified record by       *)
(* record.                                                                  *)
(*                                                                          *)
(* A device is one enrollment: its id, fingerprint and keys come and go     *)
(* together, and a re-enrolled machine is another device.  A record names   *)
(* its place by a number: with one chain, the number stands for the hash    *)
(* that links it.  Signatures are taken as valid; records that a fork of    *)
(* the chain would sign are not modelled.                                   *)
(*                                                                          *)
(* Source: crates/sync-core/src/membership.rs.                              *)
(***************************************************************************)
EXTENDS Naturals, Sequences, FiniteSets, SequencesExt

CONSTANTS
    Devices,
    Refused   \* what a verifier returns instead of a state

\* What the service stores: membership records, and epoch records.
MembershipRecords == [version : Nat, action : {"add", "revoke"}, device : Devices, signer : Devices]
EpochRecords == [place : Nat, reason : {"genesis", "grant", "cutover", "rotation"}, epoch : Nat,
                 key : Nat, head : Nat, sealer : Devices, recipients : SUBSET Devices]

\* VerifiedState: the membership steps and the epoch records accepted so far.
NoChain == [steps |-> <<>>, epochs |-> <<>>]

Added(chain, v) == {chain.steps[i].device : i \in {j \in 1 .. v : chain.steps[j].action = "add"}}
Revoked(chain, v) ==
    {chain.steps[i].device : i \in {j \in 1 .. v : chain.steps[j].action = "revoke"}}

\* Member::authorized_at, and authorized: at a membership version, and at the head.
AuthorizedAt(chain, v) == Added(chain, v) \ Revoked(chain, v)
Version(chain) == Len(chain.steps)
Authorized(chain) == AuthorizedAt(chain, Version(chain))

KeyEpoch(chain) == IF chain.epochs = <<>> THEN 0 ELSE Last(chain.epochs).epoch

\* authorized_member_in_epoch: at the last head a record of the epoch names.
MembersIn(chain, epoch) ==
    LET of == {i \in DOMAIN chain.epochs : chain.epochs[i].epoch = epoch}
    IN  IF of = {} THEN {}
        ELSE AuthorizedAt(chain, chain.epochs[CHOOSE i \in of : \A j \in of : j <= i].head)

\* Rules 1 to 6 for the record after the last one.
MembershipFits(chain, m) ==
    /\ m.version = Version(chain) + 1
    /\ \/ chain.steps = <<>> /\ m.action = "add" /\ m.signer = m.device
       \/ /\ m.signer \in Authorized(chain)
          /\ \/ m.action = "add" /\ m.device \notin Added(chain, Version(chain))
             \/ /\ m.action = "revoke" /\ m.device \in Authorized(chain)
                /\ Cardinality(Authorized(chain)) > 1

\* apply_membership: a record at an accepted position is the same record again.
ApplyMembership(chain, m) ==
    CASE chain # Refused /\ m.version \in DOMAIN chain.steps /\ chain.steps[m.version] = m -> chain
      [] chain # Refused /\ MembershipFits(chain, m) ->
            [chain EXCEPT !.steps = Append(@, m)]
      [] OTHER -> Refused

\* Mutant: a grant may name any record.
ReasonFits_AnyGrant(chain, e) ==
    LET last == Last(chain.epochs)
        fresh == \A i \in DOMAIN chain.epochs : chain.epochs[i].key # e.key
    IN  \/ chain.epochs = <<>> /\ e.reason = "genesis" /\ e.epoch = 1 /\ e.head = 1
        \/ /\ chain.epochs # <<>> /\ e.epoch = last.epoch + 1 /\ fresh
           /\ \/ /\ e.reason = "cutover" /\ e.head = last.head + 1
                 /\ chain.steps[e.head].action = "revoke"
              \/ e.reason = "rotation" /\ e.head = last.head
        \/ /\ chain.epochs # <<>> /\ e.reason = "grant" /\ e.head = last.head + 1
           /\ e.epoch = last.epoch /\ e.key = last.key

\* The reason table: what each reason does to the epoch, its key and the head.
ReasonFits(chain, e) ==
    LET last == Last(chain.epochs)
        fresh == \A i \in DOMAIN chain.epochs : chain.epochs[i].key # e.key
    IN  \/ chain.epochs = <<>> /\ e.reason = "genesis" /\ e.epoch = 1 /\ e.head = 1
        \/ /\ chain.epochs # <<>> /\ e.epoch = last.epoch + 1 /\ fresh
           /\ \/ /\ e.reason = "cutover" /\ e.head = last.head + 1
                 /\ chain.steps[e.head].action = "revoke"
              \/ e.reason = "rotation" /\ e.head = last.head
        \/ /\ chain.epochs # <<>> /\ e.reason = "grant" /\ e.head = last.head + 1
           /\ chain.steps[e.head].action = "add"
           /\ e.epoch = last.epoch /\ e.key = last.key

\* Exactly the set the reason names.
Recipients(chain, reason, head) ==
    IF reason # "grant" THEN AuthorizedAt(chain, head)
    ELSE Added(chain, head) \ Added(chain, head - 1)

\* apply_epoch.
ApplyEpoch(chain, e) ==
    CASE chain # Refused /\ e.place \in DOMAIN chain.epochs /\ chain.epochs[e.place] = e -> chain
      [] /\ chain # Refused /\ e.place = Len(chain.epochs) + 1
         /\ e.head \in DOMAIN chain.steps /\ e.sealer \in AuthorizedAt(chain, e.head)
         /\ ReasonFits(chain, e) /\ e.recipients = Recipients(chain, e.reason, e.head) ->
            [chain EXCEPT !.epochs = Append(@, e)]
      [] OTHER -> Refused

\* The newest epoch record must name the newest membership record.
Covered(chain) ==
    chain.steps = <<>> \/ (chain.epochs # <<>> /\ Last(chain.epochs).head = Version(chain))

\* extend: every record verifies, or nothing changes.
Stepped(chain, memberships) == FoldLeft(ApplyMembership, chain, memberships)

Extend(chain, memberships, epochs) ==
    LET next == FoldLeft(ApplyEpoch, Stepped(chain, memberships), epochs)
    IN  IF next # Refused /\ Covered(next) THEN next ELSE Refused

\* accept_records: the epochs whose key a record seals to this device.
KeysOf(chain, device) ==
    {chain.epochs[i].epoch : i \in {j \in DOMAIN chain.epochs :
                                        device \in chain.epochs[j].recipients}}
=============================================================================
