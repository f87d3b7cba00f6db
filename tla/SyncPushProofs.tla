--------------------------- MODULE SyncPushProofs ---------------------------
(***************************************************************************)
(* Proof that pushing commands implements the log's promise, for any        *)
(* commands, idempotency keys, machines, membership chain and number of     *)
(* seals.                                                                   *)
(*                                                                          *)
(* The promise needs little of the state: the index is exactly the log, an  *)
(* envelope in flight or in the outbox is of the command it is for, and the *)
(* log is a sequence.  Membership, epochs and views decide whether a push is *)
(* accepted, never whether it is accepted twice.                            *)
(*                                                                          *)
(* That a machine never meets a fork it made itself, and that every member  *)
(* opens the log, need the rest: what a verified chain is (ChainWhole), that *)
(* a chain only grows (Follows), which epoch record stands behind a position *)
(* of the log (Judged), and that an envelope a machine gave up can never be *)
(* accepted behind its back (Clean).                                        *)
(***************************************************************************)
EXTENDS SyncPush, WellFoundedInduction, TLAPS

Steps == {"committed", "verified", "saved", "bound"}

IsEntry(c, entry) ==
    /\ entry = [step |-> entry.step, seals |-> entry.seals, envelope |-> entry.envelope,
                seq |-> entry.seq]
    /\ entry.step \in Steps
    /\ entry.step # "committed" => entry.envelope.command = c

LogIsWhole ==
    /\ \E S : log \in Seq(S)
    /\ \A i \in DOMAIN log : log[i].command \in Commands
    /\ index = {Accepted(log[i], i) : i \in DOMAIN log}

BoxIsWhole ==
    /\ box = [c \in Commands |-> box[c]]
    /\ \A c \in Commands : IsEntry(c, box[c])

WireIsWhole == \A p \in wire : p.envelope.command \in Commands

PushInv == LogIsWhole /\ BoxIsWhole /\ WireIsWhole

\* What the machines have saved and were told, as Log sees it.
Saved == [c \in Commands |-> IF box[c].step \in {"saved", "bound"} THEN box[c].envelope ELSE None]
Told == [c \in Commands |-> IF box[c].step = "bound" THEN box[c].seq ELSE None]

-----------------------------------------------------------------------------
\* decide_push knows an envelope when the index holds one of its identities.
LEMMA UnknownIsNew ==
    ASSUME NEW e, DecidePush(e) = "unknown"
    PROVE  \A r \in index : r.command # e.command /\ r.tag # tag[e.command]
<1> DEFINE known == {r \in index : r.command = e.command \/ r.tag = tag[e.command]}
<1>1. known = {}
  <2>1. CASE known # {} /\ \E r \in known : known = {r} /\ r.envelope = e
    BY <2>1 DEF DecidePush
  <2>2. CASE known # {} /\ ~\E r \in known : known = {r} /\ r.envelope = e
    BY <2>2 DEF DecidePush
  <2> QED BY <2>1, <2>2
<1> QED BY <1>1

LEMMA DecidedApart ==
    ASSUME NEW e
    PROVE  DecidePush(e) # "accepted"
<1> DEFINE known == {r \in index : r.command = e.command \/ r.tag = tag[e.command]}
           held == \E r \in known : known = {r} /\ r.envelope = e
<1>1. CASE known = {}
  BY <1>1 DEF DecidePush
<1>2. CASE known # {} /\ held
  BY <1>2 DEF DecidePush
<1>3. CASE known # {} /\ ~held
  BY <1>3 DEF DecidePush
<1> QED BY <1>1, <1>2, <1>3

\* A replay is of an envelope the index holds.
LEMMA ReplayIsKnown ==
    ASSUME NEW e, DecidePush(e) = "replay"
    PROVE  \E r \in index : r.envelope = e
<1> DEFINE known == {r \in index : r.command = e.command \/ r.tag = tag[e.command]}
<1>1. \E r \in known : known = {r} /\ r.envelope = e
  <2>1. CASE known = {}
    BY <2>1 DEF DecidePush
  <2>2. CASE known # {} /\ ~\E r \in known : known = {r} /\ r.envelope = e
    BY <2>2 DEF DecidePush
  <2> QED BY <2>1, <2>2
<1> QED BY <1>1

-----------------------------------------------------------------------------
(***************************************************************************)
(* The invariant.                                                           *)
(***************************************************************************)
LEMMA InitPush == Init => PushInv
<1> SUFFICES ASSUME Init PROVE PushInv
  OBVIOUS
<1>1. LogIsWhole
  BY DEF Init, LogIsWhole
<1>2. BoxIsWhole
  BY DEF Init, BoxIsWhole, IsEntry, Waiting, Steps
<1>3. WireIsWhole
  BY DEF Init, WireIsWhole
<1> QED BY <1>1, <1>2, <1>3 DEF PushInv

\* A step that changes one entry keeps the box whole.
LEMMA OneEntry ==
    ASSUME BoxIsWhole, NEW c \in Commands, NEW entry, IsEntry(c, entry),
           box' = [box EXCEPT ![c] = entry]
    PROVE  BoxIsWhole'
<1>1. box' = [d \in Commands |-> IF d = c THEN entry ELSE box[d]]
  BY DEF BoxIsWhole
<1>2. ASSUME NEW d \in Commands PROVE IsEntry(d, box[d])'
  BY <1>1 DEF BoxIsWhole, IsEntry
<1> QED BY <1>1, <1>2 DEF BoxIsWhole

LEMMA BoundEntry ==
    ASSUME BoxIsWhole, NEW c \in Commands, box[c].step = "saved", NEW seq
    PROVE  /\ IsEntry(c, Bound(box[c], seq))
           /\ Bound(box[c], seq).step = "bound" /\ Bound(box[c], seq).seq = seq
           /\ Bound(box[c], seq).envelope = box[c].envelope
<1>1. PICK seals, envelope, old : box[c] = [step |-> "saved", seals |-> seals,
                                            envelope |-> envelope, seq |-> old]
  BY DEF BoxIsWhole, IsEntry
<1>2. [box[c] EXCEPT !.step = "bound"] =
        [step |-> "bound", seals |-> seals, envelope |-> envelope, seq |-> old]
  BY <1>1
<1>3. [[step |-> "bound", seals |-> seals, envelope |-> envelope, seq |-> old] EXCEPT !.seq = seq]
        = [step |-> "bound", seals |-> seals, envelope |-> envelope, seq |-> seq]
  OBVIOUS
<1>4. Bound(box[c], seq) =
        [step |-> "bound", seals |-> seals, envelope |-> envelope, seq |-> seq]
  BY <1>2, <1>3 DEF Bound
<1>5. envelope.command = c
  BY <1>1 DEF BoxIsWhole, IsEntry
<1> QED BY <1>1, <1>4, <1>5 DEF IsEntry, Steps

LEMMA UnsealedEntry ==
    ASSUME BoxIsWhole, NEW c \in Commands
    PROVE  IsEntry(c, Unsealed(box[c])) /\ Unsealed(box[c]).step = "committed"
<1>1. PICK step, seals, envelope, seq : box[c] = [step |-> step, seals |-> seals,
                                                  envelope |-> envelope, seq |-> seq]
  BY DEF BoxIsWhole, IsEntry
<1>2. [box[c] EXCEPT !.step = "committed"] =
        [step |-> "committed", seals |-> seals, envelope |-> envelope, seq |-> seq]
  BY <1>1
<1>3. [[step |-> "committed", seals |-> seals, envelope |-> envelope, seq |-> seq]
            EXCEPT !.envelope = None]
        = [step |-> "committed", seals |-> seals, envelope |-> None, seq |-> seq]
  OBVIOUS
<1>4. Unsealed(box[c]) =
        [step |-> "committed", seals |-> seals, envelope |-> None, seq |-> seq]
  BY <1>2, <1>3 DEF Unsealed
<1> QED BY <1>4 DEF IsEntry, Steps

\* A step that unseals entries of a set keeps the box whole.
LEMMA UnsealedEntries ==
    ASSUME BoxIsWhole, NEW C \in SUBSET Commands,
           box' = [c \in Commands |-> IF c \in C THEN Unsealed(box[c]) ELSE box[c]]
    PROVE  BoxIsWhole'
<1>1. ASSUME NEW c \in Commands PROVE IsEntry(c, box[c])'
  <2>1. CASE c \in C
    BY <2>1, UnsealedEntry DEF IsEntry
  <2>2. CASE c \notin C
    BY <2>2 DEF BoxIsWhole, IsEntry
  <2> QED BY <2>1, <2>2
<1> QED BY <1>1 DEF BoxIsWhole

\* An append and its record keep the log whole.
LEMMA AppendedLog ==
    ASSUME LogIsWhole, NEW e, e.command \in Commands, UNCHANGED tag,
           log' = Append(log, e), index' = index \union {Accepted(e, Len(log) + 1)}
    PROVE  LogIsWhole'
<1> PICK S : log \in Seq(S)
  BY DEF LogIsWhole
<1>1. log \in Seq(S \union {e}) /\ e \in S \union {e}
  OBVIOUS
<1>2. log' \in Seq(S \union {e}) /\ DOMAIN log' = 1 .. Len(log) + 1 /\ Len(log) \in Nat
  BY <1>1
<1>3. \A i \in DOMAIN log : log'[i] = log[i]
  BY <1>1
<1>4. log'[Len(log) + 1] = e
  BY <1>1
<1>5. DOMAIN log' = DOMAIN log \union {Len(log) + 1}
  BY <1>1, <1>2
<1>6. \A i \in DOMAIN log' : log'[i].command \in Commands
  BY <1>3, <1>4, <1>5 DEF LogIsWhole
<1>7. index' = {Accepted(log[i], i) : i \in DOMAIN log} \union {Accepted(e, Len(log) + 1)}
  BY DEF LogIsWhole
<1>8. index' = {Accepted(log[i], i)' : i \in DOMAIN log'}
  BY <1>3, <1>4, <1>5, <1>7 DEF Accepted
<1> QED BY <1>2, <1>6, <1>8 DEF LogIsWhole

-----------------------------------------------------------------------------
\* What a push changes.
LEMMA PushKeeps ==
    ASSUME PushInv, NEW p \in wire, Push(p)
    PROVE  PushInv'
<1> DEFINE c == p.envelope.command
<1>1. c \in Commands /\ UNCHANGED <<tag, wire>>
  BY DEF PushInv, WireIsWhole, Push
<1>2. LogIsWhole'
  <2>1. CASE Answer(p) = "accepted"
    <3>1. log' = Append(log, p.envelope) /\ index' = index \union {Accepted(p.envelope, Len(log) + 1)}
      BY <2>1 DEF Push
    <3> QED BY <1>1, <3>1, AppendedLog DEF PushInv
  <2>2. CASE Answer(p) # "accepted"
    <3>1. UNCHANGED <<log, index>>
      BY <2>2 DEF Push
    <3> QED BY <1>1, <3>1 DEF PushInv, LogIsWhole, Accepted
  <2> QED BY <2>1, <2>2
<1>3. BoxIsWhole'
  <2>1. CASE UNCHANGED box
    BY <2>1 DEF PushInv, BoxIsWhole, IsEntry
  <2>2. CASE ~UNCHANGED box
    <3> DEFINE seq == PositionOf(p.envelope, index')
    <3>1. Holds(c, "saved") /\ box' = [box EXCEPT ![c] = Bound(box[c], seq)]
      BY <2>2 DEF Push
    <3>2. box[c].step = "saved"
      BY <3>1 DEF Holds
    <3> HIDE DEF seq
    <3>3. IsEntry(c, Bound(box[c], seq))
      BY <1>1, <3>2, BoundEntry DEF PushInv
    <3> QED BY <1>1, <3>1, <3>3, OneEntry DEF PushInv
  <2> QED BY <2>1, <2>2
<1>4. WireIsWhole'
  BY <1>1 DEF PushInv, WireIsWhole
<1> QED BY <1>2, <1>3, <1>4 DEF PushInv

\* Nothing else appends to the log.
LEMMA LogStays ==
    ASSUME PushInv, UNCHANGED <<tag, log, index>>
    PROVE  LogIsWhole'
BY DEF PushInv, LogIsWhole, Accepted

-----------------------------------------------------------------------------
(***************************************************************************)
(* What each other action does to the box and the wire.                     *)
(***************************************************************************)
LEMMA SealKeeps ==
    ASSUME PushInv, NEW c \in Commands, Seal(c)
    PROVE  PushInv' /\ box[c].step = "committed" /\ UNCHANGED <<tag, log>>
           /\ \E entry : entry.step = "verified" /\ box' = [box EXCEPT ![c] = entry]
<1>1. UNCHANGED <<tag, log, index, wire>> /\ box[c].step = "committed"
  BY DEF Seal, serviceVars, Holds
<1>2. PICK entry : entry.step = "verified" /\ IsEntry(c, entry) /\ box' = [box EXCEPT ![c] = entry]
  BY DEF Seal, IsEntry, Steps
<1>3. LogIsWhole' /\ BoxIsWhole' /\ WireIsWhole'
  BY <1>1, <1>2, LogStays, OneEntry DEF PushInv, WireIsWhole
<1> QED BY <1>1, <1>2, <1>3 DEF PushInv

LEMMA PersistKeeps ==
    ASSUME PushInv, NEW c \in Commands, Persist(c)
    PROVE  PushInv' /\ box[c].step = "verified" /\ UNCHANGED <<tag, log>>
           /\ \E entry : entry.step = "saved" /\ box' = [box EXCEPT ![c] = entry]
<1> DEFINE entry == [box[c] EXCEPT !.step = "saved"]
<1>1. UNCHANGED <<tag, log, index, wire>> /\ box[c].step = "verified"
  BY DEF Persist, serviceVars, Holds
<1>2. entry.step = "saved" /\ IsEntry(c, entry)
  <2>1. PICK seals, envelope, seq : box[c] = [step |-> "verified", seals |-> seals,
                                              envelope |-> envelope, seq |-> seq]
    BY <1>1 DEF PushInv, BoxIsWhole, IsEntry
  <2>2. entry = [step |-> "saved", seals |-> seals, envelope |-> envelope, seq |-> seq]
    BY <2>1
  <2>3. envelope.command = c
    BY <1>1, <2>1 DEF PushInv, BoxIsWhole, IsEntry
  <2> HIDE DEF entry
  <2> QED BY <2>2, <2>3 DEF IsEntry, Steps
<1>3. box' = [box EXCEPT ![c] = entry]
  BY DEF Persist
<1> HIDE DEF entry
<1>4. LogIsWhole' /\ BoxIsWhole' /\ WireIsWhole'
  BY <1>1, <1>2, <1>3, LogStays, OneEntry DEF PushInv, WireIsWhole
<1> QED BY <1>1, <1>2, <1>3, <1>4 DEF PushInv

LEMMA SealAgainKeeps ==
    ASSUME PushInv, NEW c \in Commands, SealAgain(c)
    PROVE  PushInv' /\ box[c].step = "saved" /\ UNCHANGED <<tag, log>>
           /\ \E entry : entry.step = "committed" /\ box' = [box EXCEPT ![c] = entry]
<1>1. UNCHANGED <<tag, log, index, wire>> /\ box[c].step = "saved"
  BY DEF SealAgain, serviceVars, Holds
<1>2. box' = [box EXCEPT ![c] = Unsealed(box[c])]
  BY DEF SealAgain
<1>3. IsEntry(c, Unsealed(box[c])) /\ Unsealed(box[c]).step = "committed"
  BY UnsealedEntry DEF PushInv
<1>4. LogIsWhole' /\ BoxIsWhole' /\ WireIsWhole'
  BY <1>1, <1>2, <1>3, LogStays, OneEntry DEF PushInv, WireIsWhole
<1> QED BY <1>1, <1>2, <1>3, <1>4 DEF PushInv

LEMMA UploadKeeps ==
    ASSUME PushInv, NEW c \in Commands, Upload(c)
    PROVE  PushInv' /\ UNCHANGED <<tag, log, box>>
<1>1. UNCHANGED <<tag, log, index, box>> /\ box[c].step = "saved"
  BY DEF Upload, serviceVars, Holds
<1>2. box[c].envelope.command = c
  BY <1>1 DEF PushInv, BoxIsWhole, IsEntry
<1>3. wire' = wire \union {[from |-> device[Home[c]], envelope |-> box[c].envelope]}
  BY DEF Upload
<1>4. WireIsWhole'
  BY <1>2, <1>3 DEF PushInv, WireIsWhole
<1>5. LogIsWhole' /\ BoxIsWhole'
  BY <1>1, LogStays DEF PushInv, BoxIsWhole, IsEntry
<1> QED BY <1>1, <1>4, <1>5 DEF PushInv

\* A crash and an enrollment lose what was verified and not saved.
LEMMA LosesKeeps ==
    ASSUME PushInv, NEW m \in Machines, Crash(m) \/ Enroll(m)
    PROVE  PushInv' /\ UNCHANGED <<tag, log>>
           /\ box' = [c \in Commands |-> IF c \in Mine(m) /\ box[c].step = "verified"
                                         THEN Unsealed(box[c]) ELSE box[c]]
<1> DEFINE C == {c \in Mine(m) : box[c].step = "verified"}
<1>1. UNCHANGED <<tag, log, index, wire>>
  BY DEF Crash, Enroll, serviceVars
<1>2. box' = [c \in Commands |-> IF c \in Mine(m) /\ box[c].step = "verified"
                                THEN Unsealed(box[c]) ELSE box[c]]
  BY DEF Crash, Enroll
<1>3. C \in SUBSET Commands
  BY DEF Mine
<1>4. box' = [c \in Commands |-> IF c \in C THEN Unsealed(box[c]) ELSE box[c]]
  BY <1>2
<1> HIDE DEF C
<1>5. LogIsWhole' /\ BoxIsWhole' /\ WireIsWhole'
  BY <1>1, <1>3, <1>4, LogStays, UnsealedEntries DEF PushInv, WireIsWhole
<1> QED BY <1>1, <1>2, <1>5 DEF PushInv

\* A pull that is no fork binds the one entry whose bytes were accepted.
LEMMA PullKeeps ==
    ASSUME PushInv, NEW m \in Machines, Pull(m)
    PROVE  /\ PushInv' /\ UNCHANGED <<tag, log>>
           /\ \/ UNCHANGED box
              \/ \E c \in Commands : /\ box[c].step = "saved" /\ pulled[m] + 1 \in DOMAIN log
                                     /\ box[c].envelope = log[pulled[m] + 1]
                                     /\ box' = [box EXCEPT ![c] = Bound(box[c], pulled[m] + 1)]
<1> DEFINE seq == pulled[m] + 1
           binds(c) == /\ c \in Mine(m) /\ box[c].step = "saved"
                       /\ MatchPulled(box[c].envelope, log[seq]) = "bind"
<1>1. UNCHANGED <<tag, log, index, wire>> /\ seq \in DOMAIN log
  BY DEF Pull, serviceVars
<1>2. \/ UNCHANGED box
      \/ box' = [c \in Commands |-> IF binds(c) THEN Bound(box[c], seq) ELSE box[c]]
  BY DEF Pull
<1>3. ASSUME NEW c, binds(c)
      PROVE  c \in Commands /\ box[c].envelope = log[seq] /\ c = log[seq].command
  <2>1. c \in Commands /\ box[c].step = "saved"
    BY <1>3 DEF Mine
  <2>2. box[c].envelope = log[seq]
    BY <1>3 DEF MatchPulled
  <2>3. box[c].envelope.command = c
    BY <2>1 DEF PushInv, BoxIsWhole, IsEntry
  <2> QED BY <2>1, <2>2, <2>3
<1>4. ASSUME ~UNCHANGED box
      PROVE  \E c \in Commands : /\ box[c].step = "saved" /\ box[c].envelope = log[seq]
                                 /\ box' = [box EXCEPT ![c] = Bound(box[c], seq)]
  <2>1. box = [c \in Commands |-> box[c]]
    BY DEF PushInv, BoxIsWhole
  <2>2. box' = [c \in Commands |-> IF binds(c) THEN Bound(box[c], seq) ELSE box[c]]
    BY <1>2, <1>4
  <2>3. PICK c \in Commands : binds(c)
    <3>1. CASE \A c \in Commands : ~binds(c)
      <4> HIDE DEF binds
      <4>1. box' = [c \in Commands |-> box[c]]
        BY <2>2, <3>1
      <4> QED BY <1>4, <2>1, <4>1
    <3> QED BY <3>1
  <2>4. \A d \in Commands : binds(d) => d = c
    BY <1>3, <2>3
  <2>5. box[c].step = "saved" /\ box[c].envelope = log[seq]
    BY <1>3, <2>3
  <2> HIDE DEF binds, seq
  <2>6. box' = [d \in Commands |-> IF d = c THEN Bound(box[c], seq) ELSE box[d]]
    BY <2>2, <2>3, <2>4
  <2>7. box' = [box EXCEPT ![c] = Bound(box[c], seq)]
    BY <2>1, <2>6
  <2> QED BY <2>5, <2>7
<1> HIDE DEF seq, binds
<1>5. BoxIsWhole'
  <2>1. CASE UNCHANGED box
    BY <2>1 DEF PushInv, BoxIsWhole, IsEntry
  <2>2. CASE ~UNCHANGED box
    BY <1>4, <2>2, BoundEntry, OneEntry DEF PushInv
  <2> QED BY <2>1, <2>2
<1>6. LogIsWhole' /\ WireIsWhole'
  BY <1>1, LogStays DEF PushInv, WireIsWhole
<1> QED BY <1>1, <1>4, <1>5, <1>6 DEF PushInv, seq

-----------------------------------------------------------------------------
(***************************************************************************)
(* Every step is a step of the promise, or none.                            *)
(***************************************************************************)
LEMMA Stutters ==
    ASSUME UNCHANGED <<tag, log>>, UNCHANGED <<Saved, Told>>
    PROVE  UNCHANGED Log!vars
BY DEF Log!vars, Saved, Told

\* A step that changes one entry changes what is saved and told of one command.
LEMMA OneChange ==
    ASSUME BoxIsWhole, NEW c \in Commands, NEW entry, box' = [box EXCEPT ![c] = entry]
    PROVE  /\ Saved' = [Saved EXCEPT ![c] = IF entry.step \in {"saved", "bound"}
                                           THEN entry.envelope ELSE None]
           /\ Told' = [Told EXCEPT ![c] = IF entry.step = "bound" THEN entry.seq ELSE None]
           /\ \A d \in Commands : Saved'[d] = IF d = c /\ entry.step \in {"saved", "bound"}
                                             THEN entry.envelope
                                             ELSE IF d = c THEN None ELSE Saved[d]
<1>1. box' = [d \in Commands |-> IF d = c THEN entry ELSE box[d]]
  BY DEF BoxIsWhole
<1> QED BY <1>1 DEF Saved, Told

LEMMA Saves ==
    ASSUME BoxIsWhole, UNCHANGED <<tag, log>>, NEW c \in Commands, NEW entry,
           box' = [box EXCEPT ![c] = entry], box[c].step # "bound", entry.step # "bound"
    PROVE  Log!Save(c)
<1>1. Told[c] = None /\ Told' = [Told EXCEPT ![c] = None]
  BY OneChange DEF Told
<1>2. Told' = Told
  BY <1>1 DEF Told
<1>3. Saved' = [Saved EXCEPT ![c] = Saved'[c]]
  BY OneChange
<1> QED BY <1>1, <1>2, <1>3 DEF Log!Save, Saved, Told

\* Binding an entry to a position of its envelope.
LEMMA BindingTells ==
    ASSUME BoxIsWhole, NEW c \in Commands, NEW seq, box[c].step = "saved",
           box' = [box EXCEPT ![c] = Bound(box[c], seq)]
    PROVE  /\ Saved' = Saved /\ Saved[c] = box[c].envelope
           /\ Told[c] = None /\ Told' = [Told EXCEPT ![c] = seq]
<1>1. /\ Bound(box[c], seq).step = "bound" /\ Bound(box[c], seq).seq = seq
      /\ Bound(box[c], seq).envelope = box[c].envelope
  BY BoundEntry
<1>2. Saved[c] = box[c].envelope /\ Told[c] = None
  BY DEF Saved, Told
<1> DEFINE entry == Bound(box[c], seq)
<1> HIDE DEF entry
<1>3. Saved' = [Saved EXCEPT ![c] = Saved[c]] /\ Told' = [Told EXCEPT ![c] = seq]
  <2>1. /\ Saved' = [Saved EXCEPT ![c] = IF entry.step \in {"saved", "bound"}
                                        THEN entry.envelope ELSE None]
        /\ Told' = [Told EXCEPT ![c] = IF entry.step = "bound" THEN entry.seq ELSE None]
    BY OneChange DEF entry
  <2>2. (IF entry.step \in {"saved", "bound"} THEN entry.envelope ELSE None) = Saved[c]
    BY <1>1, <1>2 DEF entry
  <2>3. (IF entry.step = "bound" THEN entry.seq ELSE None) = seq
    BY <1>1 DEF entry
  <2> QED BY <2>1, <2>2, <2>3
<1>4. [Saved EXCEPT ![c] = Saved[c]] = Saved
  BY DEF Saved
<1> QED BY <1>2, <1>3, <1>4

\* A push the service appends.
LEMMA AppendsAsPromised ==
    ASSUME PushInv, NEW p \in wire, Push(p), Answer(p) = "accepted"
    PROVE  Log!Accept(p.envelope.command)
<1> DEFINE e == p.envelope
           c == p.envelope.command
<1>1. PICK S : log \in Seq(S)
  BY DEF PushInv, LogIsWhole
<1>2. log' = Append(log, e) /\ index' = index \union {Accepted(e, Len(log) + 1)} /\ UNCHANGED tag
  BY DEF Push
<1>3. log' \in Seq(S \union {e}) /\ Len(log') = Len(log) + 1 /\ log'[Len(log')] = e
  BY <1>1, <1>2
<1>4. DecidePush(e) = "unknown"
  <2>1. DecidePush(e) # "unknown" => DecidePush(e) = "accepted"
    BY DEF Answer
  <2> QED BY <2>1, DecidedApart
<1>5. \A r \in index : r.command # c /\ r.tag # tag[c]
  BY <1>4, UnknownIsNew
<1>6. \A i \in DOMAIN log : tag[log[i].command] # tag[c]
  <2>1. \A i \in DOMAIN log : Accepted(log[i], i) \in index
    BY DEF PushInv, LogIsWhole
  <2>2. \A x, i : Accepted(x, i).tag = tag[x.command]
    BY DEF Accepted
  <2> HIDE DEF c
  <2> QED BY <1>5, <2>1, <2>2
<1>7. c \in Commands
  BY DEF PushInv, WireIsWhole
<1>8. Saved' = Saved /\ (Told' = Told \/ (Told[c] = None /\ Saved[c] = e
                                        /\ Told' = [Told EXCEPT ![c] = Len(log')]))
  <2>1. CASE UNCHANGED box
    BY <2>1 DEF Saved, Told
  <2>2. CASE ~UNCHANGED box
    <3>1. /\ box[c].step = "saved" /\ box[c].envelope = e
          /\ box' = [box EXCEPT ![c] = Bound(box[c], PositionOf(e, index'))]
      BY <2>2 DEF Push, Holds
    <3>2. PositionOf(e, index') = Len(log')
      <4>1. \A r \in index : r.envelope # e
        BY <1>5 DEF PushInv, LogIsWhole, Accepted
      <4>2. \A r \in index' : r.envelope = e <=> r = Accepted(e, Len(log) + 1)
        BY <1>2, <4>1 DEF Accepted
      <4>3. Accepted(e, Len(log) + 1) \in index'
        BY <1>2
      <4>4. (CHOOSE r \in index' : r.envelope = e) = Accepted(e, Len(log) + 1)
        BY <4>2, <4>3
      <4>5. Accepted(e, Len(log) + 1).seq = Len(log')
        BY <1>3 DEF Accepted
      <4> QED BY <4>4, <4>5 DEF PositionOf
    <3> QED BY <1>7, <3>1, <3>2, BindingTells DEF PushInv
  <2> QED BY <2>1, <2>2
<1> QED BY <1>2, <1>3, <1>6, <1>8 DEF Log!Accept, Saved, Told

\* A push the service does not append.
LEMMA AnswersAsPromised ==
    ASSUME PushInv, NEW p \in wire, Push(p), Answer(p) # "accepted"
    PROVE  UNCHANGED Log!vars \/ Log!Tell(p.envelope.command)
<1> DEFINE e == p.envelope
           c == p.envelope.command
<1>1. UNCHANGED <<tag, log, index>> /\ c \in Commands
  BY DEF Push, PushInv, WireIsWhole
<1>2. CASE UNCHANGED box
  BY <1>1, <1>2, Stutters DEF Saved, Told
<1>3. CASE ~UNCHANGED box
  <2>1. /\ Answer(p) = "replay" /\ box[c].step = "saved" /\ box[c].envelope = e
        /\ box' = [box EXCEPT ![c] = Bound(box[c], PositionOf(e, index))]
    BY <1>1, <1>3 DEF Push, Holds
  <2>2. \E r \in index : r.envelope = e
    <3>1. DecidePush(e) = "replay"
      BY <2>1 DEF Answer
    <3> QED BY <3>1, ReplayIsKnown
  <2>3. PICK r \in index : r.envelope = e /\ PositionOf(e, index) = r.seq
    BY <2>2 DEF PositionOf
  <2>4. PICK i \in DOMAIN log : r = Accepted(log[i], i)
    BY DEF PushInv, LogIsWhole
  <2>5. log[i] = e /\ PositionOf(e, index) = i
    BY <2>3, <2>4 DEF Accepted
  <2>6. /\ Saved' = Saved /\ Saved[c] = e
        /\ Told[c] = None /\ Told' = [Told EXCEPT ![c] = i]
    BY <1>1, <2>1, <2>5, BindingTells DEF PushInv
  <2>7. Log!Tell(c)
    BY <1>1, <2>5, <2>6 DEF Log!Tell, Saved, Told
  <2> QED BY <2>7
<1> QED BY <1>2, <1>3

\* What is lost was neither saved nor told.
LEMMA LosesNothingSaved ==
    ASSUME PushInv, NEW m \in Machines, Crash(m) \/ Enroll(m)
    PROVE  UNCHANGED Log!vars
<1>1. /\ UNCHANGED <<tag, log>>
      /\ box' = [c \in Commands |-> IF c \in Mine(m) /\ box[c].step = "verified"
                                   THEN Unsealed(box[c]) ELSE box[c]]
  BY LosesKeeps
<1>2. \A c \in Commands : Unsealed(box[c]).step = "committed"
  BY UnsealedEntry DEF PushInv
<1>3. UNCHANGED <<Saved, Told>>
  BY <1>1, <1>2 DEF Saved, Told
<1> QED BY <1>1, <1>3, Stutters

LEMMA NextPush ==
    ASSUME PushInv, [Next]_vars
    PROVE  PushInv' /\ [Log!Next]_(Log!vars)
<1>1. ASSUME NEW c \in Commands, Seal(c) PROVE PushInv' /\ [Log!Next]_(Log!vars)
  BY <1>1, SealKeeps, Saves DEF PushInv, Log!Next
<1>2. ASSUME NEW c \in Commands, Persist(c) PROVE PushInv' /\ [Log!Next]_(Log!vars)
  BY <1>2, PersistKeeps, Saves DEF PushInv, Log!Next
<1>3. ASSUME NEW c \in Commands, SealAgain(c) PROVE PushInv' /\ [Log!Next]_(Log!vars)
  BY <1>3, SealAgainKeeps, Saves DEF PushInv, Log!Next
<1>4. ASSUME NEW c \in Commands, Upload(c) PROVE PushInv' /\ [Log!Next]_(Log!vars)
  BY <1>4, UploadKeeps, Stutters DEF Saved, Told
<1>5. ASSUME NEW p \in wire, Push(p) PROVE PushInv' /\ [Log!Next]_(Log!vars)
  BY <1>5, PushKeeps, AppendsAsPromised, AnswersAsPromised DEF PushInv, WireIsWhole, Log!Next
<1>6. ASSUME NEW m \in Machines, InstallRecords(m) \/ Fetch(m)
      PROVE  PushInv' /\ [Log!Next]_(Log!vars)
  <2>1. UNCHANGED <<tag, log, index, wire, box>>
    BY <1>6 DEF InstallRecords, Fetch, serviceVars
  <2>2. PushInv'
    BY <2>1, LogStays DEF PushInv, BoxIsWhole, IsEntry, WireIsWhole
  <2> QED BY <2>1, <2>2, Stutters DEF Saved, Told
<1>7. ASSUME NEW m \in Machines, Crash(m) \/ Enroll(m) PROVE PushInv' /\ [Log!Next]_(Log!vars)
  BY <1>7, LosesKeeps, LosesNothingSaved
<1>8. ASSUME NEW m \in Machines, Pull(m) PROVE PushInv' /\ [Log!Next]_(Log!vars)
  <2>1. PushInv' /\ UNCHANGED <<tag, log>>
    BY <1>8, PullKeeps
  <2>2. CASE UNCHANGED box
    BY <2>1, <2>2, Stutters DEF Saved, Told
  <2>3. ASSUME NEW c \in Commands, NEW seq \in DOMAIN log, box[c].step = "saved",
               box[c].envelope = log[seq], box' = [box EXCEPT ![c] = Bound(box[c], seq)]
        PROVE  Log!Tell(c)
    <3>1. /\ Saved' = Saved /\ Saved[c] = log[seq]
          /\ Told[c] = None /\ Told' = [Told EXCEPT ![c] = seq]
      BY <2>3, BindingTells DEF PushInv
    <3> QED BY <2>1, <3>1 DEF Log!Tell, Saved, Told
  <2> QED BY <1>8, <2>1, <2>2, <2>3, PullKeeps DEF Log!Next
<1>9. CASE UNCHANGED vars
  <2>1. UNCHANGED <<tag, log, index, wire, box>>
    BY <1>9 DEF vars, serviceVars
  <2>2. PushInv'
    BY <2>1, LogStays DEF PushInv, BoxIsWhole, IsEntry, WireIsWhole
  <2> QED BY <2>1, <2>2, Stutters DEF Saved, Told
<1> QED BY <1>1, <1>2, <1>3, <1>4, <1>5, <1>6, <1>7, <1>8, <1>9 DEF Next

\* Pushing implements the promise: each command and each idempotency key is appended once, and a
\* machine is told once, and the position of the bytes it saved, whatever decide_push is asked and
\* however often, in whatever order pushes, pulls, crashes and enrollments come.
THEOREM PushImplementsPromise == Spec => AppendsOnce
<1>1. Init => Log!Init
  BY DEF Init, Log!Init, Waiting
<1>2. PushInv /\ [Next]_vars => PushInv' /\ [Log!Next]_(Log!vars)
  BY NextPush
<1> QED BY <1>1, <1>2, InitPush, PTL DEF Spec, AppendsOnce, Log!Spec

-----------------------------------------------------------------------------
(* Numbers. *)

\* A set that holds zero and with each number the next holds them all.
LEMMA Count ==
    ASSUME NEW S, 0 \in S, \A n \in Nat : n \in S => n + 1 \in S
    PROVE  Nat \subseteq S
<1> DEFINE T == Nat \ S
<1> SUFFICES ASSUME T # {} PROVE FALSE
  OBVIOUS
<1>1. PICK n \in T : \A m \in T : ~(<<m, n>> \in OpToRel(<, Nat))
  BY WFMin, NatLessThanWellFounded
<1>2. \A m \in T : ~(m < n)
  BY <1>1 DEF OpToRel
<1>3. n \in Nat /\ n # 0 /\ n - 1 \in Nat
  OBVIOUS
<1>4. n - 1 \notin T
  BY <1>2, <1>3
<1> QED BY <1>3, <1>4

-----------------------------------------------------------------------------
(* What a verifier makes of records, one after the other. *)

Apply(kind, ch, record) ==
    IF kind = "step" THEN ApplyMembership(ch, record) ELSE ApplyEpoch(ch, record)

\* The recursion of the fold has a solution on the first n records.
FoldText(kind, base, s, f, t) ==
    IF t = {} THEN base ELSE Apply(kind, f[t \ {Max(t)}], s[Max(t)])

Solves(kind, base, s, n, f) == f = [t \in SUBSET (1 .. n) |-> FoldText(kind, base, s, f, t)]

FoldDefinedTo(kind, base, s, n) == \E f : Solves(kind, base, s, n, f)

LEMMA LastOfUpTo ==
    ASSUME NEW n \in Nat, NEW t \in SUBSET (1 .. n + 1), n + 1 \in t
    PROVE  Max(t) = n + 1
<1>1. \A x \in t : n + 1 >= x
  OBVIOUS
<1>2. \A x \in t : (\A y \in t : x >= y) => x = n + 1
  OBVIOUS
<1> QED BY <1>1, <1>2 DEF Max

LEMMA FoldDefined ==
    ASSUME NEW kind, NEW base, NEW s, NEW n \in Nat
    PROVE  FoldDefinedTo(kind, base, s, n)
<1> DEFINE S == {k \in Nat : FoldDefinedTo(kind, base, s, k)}
<1>1. 0 \in S
  <2> DEFINE f == [t \in SUBSET (1 .. 0) |-> base]
  <2>1. \A t \in SUBSET (1 .. 0) : t = {}
    OBVIOUS
  <2>2. f = [t \in SUBSET (1 .. 0) |-> FoldText(kind, base, s, f, t)]
    BY <2>1 DEF FoldText
  <2> QED BY <2>2 DEF FoldDefinedTo, Solves
<1>2. ASSUME NEW k \in Nat, k \in S
      PROVE  k + 1 \in S
  <2>1. PICK f : f = [t \in SUBSET (1 .. k) |-> FoldText(kind, base, s, f, t)]
    BY <1>2 DEF FoldDefinedTo, Solves
  <2> DEFINE g == [t \in SUBSET (1 .. k + 1) |->
                     IF t \in SUBSET (1 .. k) THEN f[t] ELSE Apply(kind, f[t \ {k + 1}], s[k + 1])]
  <2>2. ASSUME NEW t \in SUBSET (1 .. k + 1)
        PROVE  g[t] = FoldText(kind, base, s, g, t)
    <3>1. CASE t \in SUBSET (1 .. k)
      <4>1. g[t] = f[t] /\ f[t] = FoldText(kind, base, s, f, t)
        BY <2>1, <3>1
      <4>2. t \ {Max(t)} \in SUBSET (1 .. k) /\ t \ {Max(t)} \in SUBSET (1 .. k + 1)
        BY <3>1
      <4>3. g[t \ {Max(t)}] = f[t \ {Max(t)}]
        BY <4>2
      <4> HIDE DEF g
      <4> QED BY <4>1, <4>3 DEF FoldText
    <3>2. CASE t \notin SUBSET (1 .. k)
      <4>1. k + 1 \in t /\ t # {}
        <5>1. PICK x \in t : x \notin 1 .. k
          BY <3>2
        <5>2. x = k + 1
          BY <5>1
        <5> QED BY <5>2
      <4>2. Max(t) = k + 1
        BY <4>1, LastOfUpTo
      <4>3. t \ {k + 1} \in SUBSET (1 .. k) /\ t \ {k + 1} \in SUBSET (1 .. k + 1)
        <5>1. \A x \in t \ {k + 1} : x \in 1 .. k
          OBVIOUS
        <5> QED BY <5>1
      <4>4. g[t \ {k + 1}] = f[t \ {k + 1}]
        BY <4>3
      <4>5. g[t] = Apply(kind, f[t \ {k + 1}], s[k + 1])
        BY <3>2
      <4> HIDE DEF g
      <4> QED BY <4>1, <4>2, <4>4, <4>5 DEF FoldText
    <3> QED BY <3>1, <3>2
  <2>3. g = [t \in SUBSET (1 .. k + 1) |-> g[t]]
    OBVIOUS
  <2> HIDE DEF g
  <2>4. g = [t \in SUBSET (1 .. k + 1) |-> FoldText(kind, base, s, g, t)]
    BY <2>2, <2>3
  <2> QED BY <2>4 DEF FoldDefinedTo, Solves
<1> HIDE DEF S
<1>3. Nat \subseteq S
  BY <1>1, <1>2, Count
<1> QED BY <1>3 DEF S

\* A solution runs through the records in order.
Runs(kind, base, s, r) ==
    r[0] = base /\ \A k \in 1 .. Len(s) : r[k] = Apply(kind, r[k - 1], s[k])

LEMMA FoldRuns ==
    ASSUME NEW kind, NEW base, NEW s, Len(s) \in Nat,
           NEW f, Solves(kind, base, s, Len(s), f)
    PROVE  \E r : Runs(kind, base, s, r) /\ r[Len(s)] = f[1 .. Len(s)]
<1> DEFINE r == [k \in 0 .. Len(s) |-> f[1 .. k]]
<1>0. \A t \in SUBSET (1 .. Len(s)) : f[t] = FoldText(kind, base, s, f, t)
  BY DEF Solves
<1>1. r[0] = base
  <2>1. (1 .. 0) = {} /\ (1 .. 0) \in SUBSET (1 .. Len(s))
    OBVIOUS
  <2>2. f[1 .. 0] = FoldText(kind, base, s, f, 1 .. 0)
    BY <1>0, <2>1
  <2>3. f[1 .. 0] = base
    BY <2>1, <2>2 DEF FoldText
  <2> QED BY <2>3
<1>2. ASSUME NEW k \in 1 .. Len(s)
      PROVE  r[k] = Apply(kind, r[k - 1], s[k])
  <2>1. k - 1 \in Nat /\ (k - 1) + 1 = k
    OBVIOUS
  <2>2. (1 .. k) \in SUBSET (1 .. Len(s)) /\ k \in 1 .. k /\ (1 .. k) # {}
    OBVIOUS
  <2>3. Max(1 .. k) = k
    BY <2>1, <2>2, LastOfUpTo
  <2>4. (1 .. k) \ {k} = 1 .. (k - 1)
    OBVIOUS
  <2>5. f[1 .. k] = FoldText(kind, base, s, f, 1 .. k)
    BY <1>0, <2>2
  <2>6. f[1 .. k] = Apply(kind, f[1 .. (k - 1)], s[k])
    BY <2>2, <2>3, <2>4, <2>5 DEF FoldText
  <2> QED BY <2>6
<1>3. r[Len(s)] = f[1 .. Len(s)]
  OBVIOUS
<1> HIDE DEF r
<1> QED BY <1>1, <1>2, <1>3 DEF Runs

\* Folding the memberships, and the epochs.
LEMMA FoldOfSteps ==
    ASSUME NEW base, NEW S, NEW s \in Seq(S)
    PROVE  \E r : Runs("step", base, s, r) /\ r[Len(s)] = FoldLeft(ApplyMembership, base, s)
<1>1. DOMAIN s = 1 .. Len(s) /\ Len(s) \in Nat
  OBVIOUS
<1> DEFINE iter[t \in SUBSET (DOMAIN s)] ==
             IF t = {} THEN base
             ELSE LET x == Max(t) IN ApplyMembership(iter[t \ {x}], s[x])
           Text(f, t) == IF t = {} THEN base
                         ELSE LET x == Max(t) IN ApplyMembership(f[t \ {x}], s[x])
<1>2. FoldLeft(ApplyMembership, base, s) = iter[DOMAIN s]
  BY DEF FoldLeft, MapThenFoldSet
<1>3. \A f, t : FoldText("step", base, s, f, t) = Text(f, t)
  BY DEF FoldText, Apply
<1>4. PICK f : f = [t \in SUBSET (1 .. Len(s)) |-> FoldText("step", base, s, f, t)]
  <2>1. FoldDefinedTo("step", base, s, Len(s))
    BY <1>1, FoldDefined
  <2> HIDE DEF iter, Text
  <2> QED BY <2>1 DEF FoldDefinedTo, Solves
<1>5. f = [t \in SUBSET (DOMAIN s) |-> Text(f, t)]
  <2> HIDE DEF Text
  <2> QED BY <1>1, <1>3, <1>4
<1>6. iter = [t \in SUBSET (DOMAIN s) |-> Text(iter, t)]
  BY <1>5, Zenon
<1> HIDE DEF iter, Text
<1>7. Solves("step", base, s, Len(s), iter)
  BY <1>1, <1>3, <1>6 DEF Solves
<1>8. PICK r : Runs("step", base, s, r) /\ r[Len(s)] = iter[1 .. Len(s)]
  BY <1>1, <1>7, FoldRuns
<1> QED BY <1>1, <1>2, <1>8

LEMMA FoldOfEpochs ==
    ASSUME NEW base, NEW S, NEW s \in Seq(S)
    PROVE  \E r : Runs("epoch", base, s, r) /\ r[Len(s)] = FoldLeft(ApplyEpoch, base, s)
<1>1. DOMAIN s = 1 .. Len(s) /\ Len(s) \in Nat
  OBVIOUS
<1> DEFINE iter[t \in SUBSET (DOMAIN s)] ==
             IF t = {} THEN base
             ELSE LET x == Max(t) IN ApplyEpoch(iter[t \ {x}], s[x])
           Text(f, t) == IF t = {} THEN base
                         ELSE LET x == Max(t) IN ApplyEpoch(f[t \ {x}], s[x])
<1>2. FoldLeft(ApplyEpoch, base, s) = iter[DOMAIN s]
  BY DEF FoldLeft, MapThenFoldSet
<1>3. \A f, t : FoldText("epoch", base, s, f, t) = Text(f, t)
  BY DEF FoldText, Apply
<1>4. PICK f : f = [t \in SUBSET (1 .. Len(s)) |-> FoldText("epoch", base, s, f, t)]
  <2>1. FoldDefinedTo("epoch", base, s, Len(s))
    BY <1>1, FoldDefined
  <2> HIDE DEF iter, Text
  <2> QED BY <2>1 DEF FoldDefinedTo, Solves
<1>5. f = [t \in SUBSET (DOMAIN s) |-> Text(f, t)]
  <2> HIDE DEF Text
  <2> QED BY <1>1, <1>3, <1>4
<1>6. iter = [t \in SUBSET (DOMAIN s) |-> Text(iter, t)]
  BY <1>5, Zenon
<1> HIDE DEF iter, Text
<1>7. Solves("epoch", base, s, Len(s), iter)
  BY <1>1, <1>3, <1>6 DEF Solves
<1>8. PICK r : Runs("epoch", base, s, r) /\ r[Len(s)] = iter[1 .. Len(s)]
  BY <1>1, <1>7, FoldRuns
<1> QED BY <1>1, <1>2, <1>8

-----------------------------------------------------------------------------
(* Chains as a verifier leaves them. *)

\* Each step has the version of its place; a device is added once, and revoked after that.
StepsWhole(ch) ==
    \A v \in 1 .. Len(ch.steps) :
        /\ ch.steps[v].version = v
        /\ \/ ch.steps[v].action = "add" /\ ch.steps[v].device \notin Added(ch, v - 1)
           \/ ch.steps[v].action = "revoke" /\ ch.steps[v].device \in Added(ch, v - 1)

\* Each epoch record has the number of its place, names a head that is there, and goes back
\* to no epoch before.
EpochsWhole(ch) ==
    /\ \A i \in 1 .. Len(ch.epochs) : /\ ch.epochs[i].place = i
                                      /\ ch.epochs[i].epoch \in Nat
                                      /\ ch.epochs[i].head \in 1 .. Len(ch.steps)
    /\ \A i, j \in 1 .. Len(ch.epochs) : i <= j => ch.epochs[i].epoch <= ch.epochs[j].epoch

\* The last record of an epoch.
LastOf(ch, i) == \A j \in 1 .. Len(ch.epochs) : ch.epochs[j].epoch = ch.epochs[i].epoch => j <= i

Sealed(ch, epoch, d) ==
    \E k \in 1 .. Len(ch.epochs) : ch.epochs[k].epoch = epoch /\ d \in ch.epochs[k].recipients

\* The key of an epoch is sealed to its members and to nobody else.
KeysWhole(ch) ==
    \A i \in 1 .. Len(ch.epochs) : LastOf(ch, i) =>
        \A d : Sealed(ch, ch.epochs[i].epoch, d) <=> d \in AuthorizedAt(ch, ch.epochs[i].head)

IsChain(ch) ==
    /\ ch = [steps |-> ch.steps, epochs |-> ch.epochs]
    /\ \E S : ch.steps \in Seq(S)
    /\ \E S : ch.epochs \in Seq(S)

ChainWhole(ch) == IsChain(ch) /\ StepsWhole(ch) /\ EpochsWhole(ch) /\ KeysWhole(ch)

\* One chain is the beginning of another.
Follows(ch, whole) ==
    /\ Len(ch.steps) <= Len(whole.steps)
    /\ \A i \in 1 .. Len(ch.steps) : ch.steps[i] = whole.steps[i]
    /\ Len(ch.epochs) <= Len(whole.epochs)
    /\ \A i \in 1 .. Len(ch.epochs) : ch.epochs[i] = whole.epochs[i]

LEMMA ChainLengths ==
    ASSUME NEW ch, IsChain(ch)
    PROVE  /\ Len(ch.steps) \in Nat /\ DOMAIN ch.steps = 1 .. Len(ch.steps)
           /\ Len(ch.epochs) \in Nat /\ DOMAIN ch.epochs = 1 .. Len(ch.epochs)
           /\ ch.steps = <<>> <=> Len(ch.steps) = 0
           /\ ch.epochs = <<>> <=> Len(ch.epochs) = 0
BY DEF IsChain

LEMMA AddedIs ==
    ASSUME NEW ch, NEW v
    PROVE  /\ \A d : d \in Added(ch, v) <=>
                \E i \in 1 .. v : ch.steps[i].action = "add" /\ ch.steps[i].device = d
           /\ \A d : d \in Revoked(ch, v) <=>
                \E i \in 1 .. v : ch.steps[i].action = "revoke" /\ ch.steps[i].device = d
BY DEF Added, Revoked

LEMMA SameMembers ==
    ASSUME NEW a, NEW b, NEW v, \A i \in 1 .. v : a.steps[i] = b.steps[i]
    PROVE  /\ Added(a, v) = Added(b, v) /\ Revoked(a, v) = Revoked(b, v)
           /\ AuthorizedAt(a, v) = AuthorizedAt(b, v)
<1>1. \A d : d \in Added(a, v) <=> d \in Added(b, v)
  BY AddedIs
<1>2. \A d : d \in Revoked(a, v) <=> d \in Revoked(b, v)
  BY AddedIs
<1>3. Added(a, v) = Added(b, v) /\ Revoked(a, v) = Revoked(b, v)
  BY <1>1, <1>2
<1> QED BY <1>3 DEF AuthorizedAt

LEMMA AddedGrows ==
    ASSUME NEW ch, NEW v \in Nat, NEW w \in Nat, v <= w
    PROVE  Added(ch, v) \subseteq Added(ch, w) /\ Revoked(ch, v) \subseteq Revoked(ch, w)
<1>1. \A i \in 1 .. v : i \in 1 .. w
  OBVIOUS
<1> QED BY <1>1, AddedIs

LEMMA RevokedWereAdded ==
    ASSUME NEW ch, StepsWhole(ch), Len(ch.steps) \in Nat, NEW v \in Nat, v <= Len(ch.steps)
    PROVE  Revoked(ch, v) \subseteq Added(ch, v)
<1> SUFFICES ASSUME NEW d \in Revoked(ch, v) PROVE d \in Added(ch, v)
  OBVIOUS
<1>1. PICK i \in 1 .. v : ch.steps[i].action = "revoke" /\ ch.steps[i].device = d
  BY AddedIs
<1>2. d \in Added(ch, i - 1)
  BY <1>1 DEF StepsWhole
<1> QED BY <1>2, AddedGrows

\* A device that is added is authorized from then on, the others stay as they are.
LEMMA GrantAdds ==
    ASSUME NEW ch, StepsWhole(ch), Len(ch.steps) \in Nat, NEW v \in Nat, v + 1 <= Len(ch.steps),
           ch.steps[v + 1].action = "add"
    PROVE  AuthorizedAt(ch, v + 1) = AuthorizedAt(ch, v) \union (Added(ch, v + 1) \ Added(ch, v))
<1> DEFINE new == ch.steps[v + 1].device
<1>1. new \notin Added(ch, v)
  <2>1. ch.steps[v + 1].device \notin Added(ch, (v + 1) - 1) /\ (v + 1) - 1 = v
    BY DEF StepsWhole
  <2> QED BY <2>1
<1>2. \A i \in 1 .. v + 1 : i \in 1 .. v \/ i = v + 1
  OBVIOUS
<1>3. \A d : d \in Revoked(ch, v + 1) <=> d \in Revoked(ch, v)
  <2>1. "add" # "revoke"
    OBVIOUS
  <2>2. \A i \in 1 .. v : i \in 1 .. v + 1
    OBVIOUS
  <2> QED BY <1>2, <2>1, <2>2, AddedIs
<1>4. Added(ch, v) \subseteq Added(ch, v + 1) /\ Revoked(ch, v) \subseteq Added(ch, v)
  BY AddedGrows, RevokedWereAdded
<1>5. \A d \in Added(ch, v + 1) : d \in Added(ch, v) \/ d = new
  BY <1>2, AddedIs
<1> HIDE DEF new
<1> QED BY <1>1, <1>3, <1>4, <1>5 DEF AuthorizedAt

LEMMA LastIndex ==
    ASSUME NEW n \in Nat, NEW T \in SUBSET (1 .. n), T # {}
    PROVE  \E i \in T : \A j \in T : j <= i
<1> DEFINE D == {n - j : j \in T}
<1>1. D \in SUBSET Nat /\ D # {}
  <2>1. \A j \in T : n - j \in Nat
    OBVIOUS
  <2>2. PICK j \in T : TRUE
    OBVIOUS
  <2>3. n - j \in D
    OBVIOUS
  <2>4. D \in SUBSET Nat
    BY <2>1
  <2> QED BY <2>3, <2>4
<1>2. PICK x \in D : \A y \in D : ~(<<y, x>> \in OpToRel(<, Nat))
  <2> HIDE DEF D
  <2> QED BY <1>1, WFMin, NatLessThanWellFounded
<1>3. PICK i \in T : x = n - i
  OBVIOUS
<1>4. ASSUME NEW j \in T PROVE j <= i
  <2>1. n - j \in D /\ n - j \in Nat /\ n - i \in Nat
    OBVIOUS
  <2>2. ~(n - j < n - i)
    BY <1>2, <1>3, <2>1 DEF OpToRel
  <2> QED BY <2>2
<1> QED BY <1>4

\* The members of an epoch are those of the head its last record names.
LEMMA MembersOfLast ==
    ASSUME NEW ch, IsChain(ch), NEW i \in 1 .. Len(ch.epochs)
    PROVE  \E last \in 1 .. Len(ch.epochs) :
             /\ LastOf(ch, last) /\ ch.epochs[last].epoch = ch.epochs[i].epoch
             /\ MembersIn(ch, ch.epochs[i].epoch) = AuthorizedAt(ch, ch.epochs[last].head)
<1> DEFINE T == {j \in DOMAIN ch.epochs : ch.epochs[j].epoch = ch.epochs[i].epoch}
<1>1. DOMAIN ch.epochs = 1 .. Len(ch.epochs) /\ Len(ch.epochs) \in Nat
  BY ChainLengths
<1>2. T \in SUBSET (1 .. Len(ch.epochs)) /\ i \in T
  BY <1>1
<1>3. PICK last \in T : \A j \in T : j <= last
  <2> HIDE DEF T
  <2> QED BY <1>1, <1>2, LastIndex
<1>4. (CHOOSE k \in T : \A j \in T : j <= k) = last
  <2>1. \A k \in T : (\A j \in T : j <= k) => k = last
    BY <1>1, <1>3
  <2> HIDE DEF T
  <2> QED BY <1>3, <2>1
<1>5. MembersIn(ch, ch.epochs[i].epoch) = AuthorizedAt(ch, ch.epochs[last].head)
  <2>1. T # {}
    BY <1>2
  <2>2. MembersIn(ch, ch.epochs[i].epoch) =
          IF T = {} THEN {} ELSE AuthorizedAt(ch, ch.epochs[CHOOSE k \in T : \A j \in T : j <= k].head)
    BY DEF MembersIn
  <2> HIDE DEF T
  <2> QED BY <1>4, <2>1, <2>2
<1> QED BY <1>1, <1>3, <1>5 DEF LastOf

LEMMA KeysAreSealed ==
    ASSUME NEW ch, IsChain(ch), NEW epoch, NEW d
    PROVE  epoch \in KeysOf(ch, d) <=> Sealed(ch, epoch, d)
<1>1. DOMAIN ch.epochs = 1 .. Len(ch.epochs)
  BY ChainLengths
<1> QED BY <1>1 DEF KeysOf, Sealed

\* A device has the key of an epoch exactly if it is a member of it.
LEMMA KeysAreMembers ==
    ASSUME NEW ch, ChainWhole(ch), NEW i \in 1 .. Len(ch.epochs), NEW d
    PROVE  ch.epochs[i].epoch \in KeysOf(ch, d) <=> d \in MembersIn(ch, ch.epochs[i].epoch)
<1>1. PICK last \in 1 .. Len(ch.epochs) :
        /\ LastOf(ch, last) /\ ch.epochs[last].epoch = ch.epochs[i].epoch
        /\ MembersIn(ch, ch.epochs[i].epoch) = AuthorizedAt(ch, ch.epochs[last].head)
  BY MembersOfLast DEF ChainWhole
<1>2. Sealed(ch, ch.epochs[i].epoch, d) <=> d \in AuthorizedAt(ch, ch.epochs[last].head)
  BY <1>1 DEF ChainWhole, KeysWhole
<1>3. ch.epochs[i].epoch \in KeysOf(ch, d) <=> Sealed(ch, ch.epochs[i].epoch, d)
  BY KeysAreSealed DEF ChainWhole
<1> QED BY <1>1, <1>2, <1>3

-----------------------------------------------------------------------------
(* One record more. *)

LEMMA FollowsItself ==
    ASSUME NEW ch, IsChain(ch)
    PROVE  Follows(ch, ch)
BY ChainLengths DEF Follows

LEMMA FollowsOn ==
    ASSUME NEW a, NEW b, NEW c, IsChain(a), IsChain(b), IsChain(c), Follows(a, b), Follows(b, c)
    PROVE  Follows(a, c)
<1>1. /\ Len(a.steps) \in Nat /\ Len(b.steps) \in Nat /\ Len(c.steps) \in Nat
      /\ Len(a.epochs) \in Nat /\ Len(b.epochs) \in Nat /\ Len(c.epochs) \in Nat
  BY ChainLengths
<1>2. /\ Len(a.steps) =< Len(b.steps) /\ Len(b.steps) =< Len(c.steps)
      /\ Len(a.epochs) =< Len(b.epochs) /\ Len(b.epochs) =< Len(c.epochs)
  BY DEF Follows
<1>3. \A i \in 1 .. Len(a.steps) : a.steps[i] = c.steps[i]
  <2> TAKE i \in 1 .. Len(a.steps)
  <2>1. i \in 1 .. Len(b.steps)
    BY <1>1, <1>2
  <2>2. a.steps[i] = b.steps[i]
    BY DEF Follows
  <2>3. b.steps[i] = c.steps[i]
    BY <2>1 DEF Follows
  <2> QED BY <2>2, <2>3
<1>4. \A i \in 1 .. Len(a.epochs) : a.epochs[i] = c.epochs[i]
  <2> TAKE i \in 1 .. Len(a.epochs)
  <2>1. i \in 1 .. Len(b.epochs)
    BY <1>1, <1>2
  <2>2. a.epochs[i] = b.epochs[i]
    BY DEF Follows
  <2>3. b.epochs[i] = c.epochs[i]
    BY <2>1 DEF Follows
  <2> QED BY <2>2, <2>3
<1>5. Len(a.steps) =< Len(c.steps) /\ Len(a.epochs) =< Len(c.epochs)
  BY <1>1, <1>2
<1> QED BY <1>3, <1>4, <1>5 DEF Follows

\* What a longer chain says of the members at a version of a shorter one.
LEMMA FollowsMembers ==
    ASSUME NEW a, NEW b, IsChain(a), IsChain(b), Follows(a, b),
           NEW v \in Nat, v <= Len(a.steps)
    PROVE  /\ Added(a, v) = Added(b, v) /\ Revoked(a, v) = Revoked(b, v)
           /\ AuthorizedAt(a, v) = AuthorizedAt(b, v)
<1>1. Len(a.steps) \in Nat
  BY ChainLengths
<1>2. \A i \in 1 .. v : a.steps[i] = b.steps[i]
  BY <1>1 DEF Follows
<1> QED BY <1>2, SameMembers

LEMMA KeyEpochIs ==
    ASSUME NEW ch, IsChain(ch), EpochsWhole(ch)
    PROVE  /\ KeyEpoch(ch) \in Nat
           /\ Len(ch.epochs) # 0 => KeyEpoch(ch) = ch.epochs[Len(ch.epochs)].epoch
           /\ Len(ch.epochs) = 0 => KeyEpoch(ch) = 0
<1>1. Len(ch.epochs) \in Nat /\ (ch.epochs = <<>> <=> Len(ch.epochs) = 0)
  BY ChainLengths
<1>2. Len(ch.epochs) # 0 => Len(ch.epochs) \in 1 .. Len(ch.epochs)
  BY <1>1
<1> QED BY <1>1, <1>2 DEF KeyEpoch, Last, EpochsWhole

LEMMA KeyEpochGrows ==
    ASSUME NEW a, NEW b, ChainWhole(a), ChainWhole(b), Follows(a, b)
    PROVE  KeyEpoch(a) <= KeyEpoch(b)
<1>1. /\ Len(a.epochs) \in Nat /\ Len(b.epochs) \in Nat /\ Len(a.epochs) <= Len(b.epochs)
      /\ IsChain(a) /\ IsChain(b) /\ EpochsWhole(a) /\ EpochsWhole(b)
  BY ChainLengths DEF ChainWhole, Follows
<1>2. CASE Len(a.epochs) = 0
  BY <1>1, <1>2, KeyEpochIs
<1>3. CASE Len(a.epochs) # 0
  <2>1. Len(a.epochs) \in 1 .. Len(b.epochs) /\ Len(b.epochs) \in 1 .. Len(b.epochs)
        /\ Len(a.epochs) \in 1 .. Len(a.epochs)
    BY <1>1, <1>3
  <2>2. b.epochs[Len(a.epochs)].epoch <= b.epochs[Len(b.epochs)].epoch
    BY <1>1, <2>1 DEF EpochsWhole
  <2>3. a.epochs[Len(a.epochs)] = b.epochs[Len(a.epochs)]
    BY <2>1 DEF Follows
  <2> QED BY <1>1, <1>3, <2>1, <2>2, <2>3, KeyEpochIs
<1> QED BY <1>2, <1>3

LEMMA MembershipCases ==
    ASSUME NEW ch, NEW m, ApplyMembership(ch, m) # Refused
    PROVE  /\ ch # Refused
           /\ \/ /\ ApplyMembership(ch, m) = ch
                 /\ m.version \in DOMAIN ch.steps /\ ch.steps[m.version] = m
              \/ /\ ApplyMembership(ch, m) = [ch EXCEPT !.steps = Append(@, m)]
                 /\ MembershipFits(ch, m)
<1> DEFINE again == ch # Refused /\ m.version \in DOMAIN ch.steps /\ ch.steps[m.version] = m
           fits == ch # Refused /\ MembershipFits(ch, m)
<1>1. CASE again
  <2>1. CASE fits
    BY <2>1, <1>1 DEF ApplyMembership
  <2>2. CASE ~fits
    BY <2>2, <1>1 DEF ApplyMembership
  <2> QED BY <2>1, <2>2
<1>2. CASE ~again
  <2>1. CASE fits
    BY <2>1, <1>2 DEF ApplyMembership
  <2>2. CASE ~fits
    BY <2>2, <1>2 DEF ApplyMembership
  <2> QED BY <2>1, <2>2
<1> QED BY <1>1, <1>2

\* A membership appended to a whole chain.
LEMMA MembershipAppends ==
    ASSUME NEW ch, ChainWhole(ch), NEW m, MembershipFits(ch, m)
    PROVE  LET next == [ch EXCEPT !.steps = Append(@, m)]
           IN  /\ ChainWhole(next) /\ Follows(ch, next) /\ next.epochs = ch.epochs
               /\ Len(next.steps) = Len(ch.steps) + 1 /\ next.steps[Len(ch.steps) + 1] = m
<1> DEFINE next == [ch EXCEPT !.steps = Append(@, m)]
           n == Len(ch.steps)
<1>1. n \in Nat /\ DOMAIN ch.steps = 1 .. n /\ IsChain(ch)
  BY ChainLengths DEF ChainWhole
<1>2. PICK S : ch.steps \in Seq(S)
  BY <1>1 DEF IsChain
<1>3. next = [steps |-> Append(ch.steps, m), epochs |-> ch.epochs]
  <2>1. ch = [steps |-> ch.steps, epochs |-> ch.epochs]
    BY <1>1 DEF IsChain
  <2>2. next = [[steps |-> ch.steps, epochs |-> ch.epochs] EXCEPT !.steps = Append(ch.steps, m)]
    BY <2>1
  <2>3. [[steps |-> ch.steps, epochs |-> ch.epochs] EXCEPT !.steps = Append(ch.steps, m)]
          = [steps |-> Append(ch.steps, m), epochs |-> ch.epochs]
    <3> DEFINE x == ch.steps
               y == ch.epochs
               z == Append(ch.steps, m)
    <3> HIDE DEF x, y, z
    <3>1. [[steps |-> x, epochs |-> y] EXCEPT !.steps = z] = [steps |-> z, epochs |-> y]
      OBVIOUS
    <3> QED BY <3>1 DEF x, y, z
  <2> HIDE DEF next
  <2> QED BY <2>2, <2>3
<1> HIDE DEF next
<1>4. /\ next.steps = Append(ch.steps, m) /\ next.epochs = ch.epochs
      /\ next.steps \in Seq(S \union {m})
  BY <1>2, <1>3
<1>5. Len(next.steps) = n + 1 /\ next.steps[n + 1] = m
      /\ \A i \in 1 .. n : next.steps[i] = ch.steps[i]
  BY <1>1, <1>2, <1>4
<1>6. IsChain(next)
  BY <1>1, <1>3, <1>4 DEF IsChain
<1>7. Follows(ch, next)
  BY <1>1, <1>4, <1>5, ChainLengths DEF Follows
<1>8. \A v \in 0 .. n : /\ Added(next, v) = Added(ch, v)
                        /\ AuthorizedAt(next, v) = AuthorizedAt(ch, v)
  BY <1>1, <1>6, <1>7, FollowsMembers
<1>9. m.version = n + 1 /\ \/ m.action = "add" /\ m.device \notin Added(ch, n)
                           \/ m.action = "revoke" /\ m.device \in Added(ch, n)
  <2>1. m.version = n + 1
    BY DEF MembershipFits, Version
  <2>2. CASE ch.steps = <<>> /\ m.action = "add"
    <3>1. n = 0
      BY <2>2
    <3>2. \A d : d \notin Added(ch, 0)
      BY AddedIs
    <3> QED BY <2>1, <2>2, <3>1, <3>2
  <2>3. CASE ~(ch.steps = <<>> /\ m.action = "add")
    BY <2>1, <2>3 DEF MembershipFits, Version, Authorized, AuthorizedAt
  <2> QED BY <2>2, <2>3
<1>10. StepsWhole(next)
  <2> SUFFICES ASSUME NEW v \in 1 .. Len(next.steps)
               PROVE  /\ next.steps[v].version = v
                      /\ \/ /\ next.steps[v].action = "add"
                            /\ next.steps[v].device \notin Added(next, v - 1)
                         \/ /\ next.steps[v].action = "revoke"
                            /\ next.steps[v].device \in Added(next, v - 1)
    BY DEF StepsWhole
  <2>1. CASE v = n + 1
    <3>1. v - 1 = n /\ n \in 0 .. n
      BY <1>1, <2>1
    <3> QED BY <1>5, <1>8, <1>9, <2>1, <3>1
  <2>2. CASE v # n + 1
    <3>1. v \in 1 .. n /\ v - 1 \in 0 .. n
      BY <1>1, <1>5, <2>2
    <3> QED BY <1>5, <1>8, <3>1 DEF ChainWhole, StepsWhole
  <2> QED BY <2>1, <2>2
<1>11. EpochsWhole(next)
  <2>1. \A h \in 1 .. n : h \in 1 .. Len(next.steps)
    BY <1>1, <1>5
  <2> QED BY <1>4, <2>1 DEF ChainWhole, EpochsWhole
<1>12. KeysWhole(next)
  <2> SUFFICES ASSUME NEW i \in 1 .. Len(next.epochs), LastOf(next, i), NEW d
               PROVE  Sealed(next, next.epochs[i].epoch, d) <=>
                        d \in AuthorizedAt(next, next.epochs[i].head)
    BY DEF KeysWhole
  <2>1. i \in 1 .. Len(ch.epochs) /\ next.epochs[i] = ch.epochs[i] /\ LastOf(ch, i)
    BY <1>4 DEF LastOf
  <2>2. Sealed(next, next.epochs[i].epoch, d) <=> Sealed(ch, ch.epochs[i].epoch, d)
    BY <1>4 DEF Sealed
  <2>3. ch.epochs[i].head \in 0 .. n
    BY <1>1, <2>1 DEF ChainWhole, EpochsWhole
  <2>4. AuthorizedAt(next, next.epochs[i].head) = AuthorizedAt(ch, ch.epochs[i].head)
    BY <1>8, <2>1, <2>3
  <2> QED BY <2>1, <2>2, <2>4 DEF ChainWhole, KeysWhole
<1> QED BY <1>4, <1>5, <1>6, <1>7, <1>10, <1>11, <1>12 DEF ChainWhole, next

LEMMA EpochCases ==
    ASSUME NEW ch, NEW e, ApplyEpoch(ch, e) # Refused
    PROVE  /\ ch # Refused
           /\ \/ /\ ApplyEpoch(ch, e) = ch
                 /\ e.place \in DOMAIN ch.epochs /\ ch.epochs[e.place] = e
              \/ /\ ApplyEpoch(ch, e) = [ch EXCEPT !.epochs = Append(@, e)]
                 /\ e.place = Len(ch.epochs) + 1 /\ e.head \in DOMAIN ch.steps
                 /\ ReasonFits(ch, e) /\ e.recipients = Recipients(ch, e.reason, e.head)
<1> DEFINE again == ch # Refused /\ e.place \in DOMAIN ch.epochs /\ ch.epochs[e.place] = e
           fits == /\ ch # Refused /\ e.place = Len(ch.epochs) + 1
                   /\ e.head \in DOMAIN ch.steps /\ e.sealer \in AuthorizedAt(ch, e.head)
                   /\ ReasonFits(ch, e) /\ e.recipients = Recipients(ch, e.reason, e.head)
<1>1. CASE again
  <2>1. CASE fits
    BY <2>1, <1>1 DEF ApplyEpoch
  <2>2. CASE ~fits
    BY <2>2, <1>1 DEF ApplyEpoch
  <2> QED BY <2>1, <2>2
<1>2. CASE ~again
  <2>1. CASE fits
    BY <2>1, <1>2 DEF ApplyEpoch
  <2>2. CASE ~fits
    BY <2>2, <1>2 DEF ApplyEpoch
  <2> QED BY <2>1, <2>2
<1> QED BY <1>1, <1>2

\* What the reason table leaves of a record: a fresh epoch sealed to everybody who is authorized,
\* or the epoch of the record before, sealed to the device the next step adds.
LEMMA ReasonMeans ==
    ASSUME NEW ch, ChainWhole(ch), NEW e, e.head \in DOMAIN ch.steps, ReasonFits(ch, e),
           e.recipients = Recipients(ch, e.reason, e.head)
    PROVE  LET n == Len(ch.epochs) IN
           \/ /\ e.epoch = KeyEpoch(ch) + 1 /\ e.recipients = AuthorizedAt(ch, e.head)
              /\ \A i \in 1 .. n : ch.epochs[i].epoch < e.epoch
           \/ /\ n # 0 /\ e.epoch = ch.epochs[n].epoch
              /\ e.head = ch.epochs[n].head + 1 /\ ch.steps[e.head].action = "add"
              /\ e.recipients = Added(ch, e.head) \ Added(ch, e.head - 1)
<1> DEFINE n == Len(ch.epochs)
<1>1. n \in Nat /\ (ch.epochs = <<>> <=> n = 0) /\ IsChain(ch) /\ EpochsWhole(ch)
  BY ChainLengths DEF ChainWhole
<1>2. Last(ch.epochs) = ch.epochs[n]
  BY DEF Last
<1>3. /\ KeyEpoch(ch) \in Nat /\ (n # 0 => KeyEpoch(ch) = ch.epochs[n].epoch)
      /\ (n = 0 => KeyEpoch(ch) = 0)
  BY <1>1, KeyEpochIs
<1>4. \A i \in 1 .. n : ch.epochs[i].epoch \in Nat /\ ch.epochs[i].epoch <= KeyEpoch(ch)
  <2> SUFFICES ASSUME NEW i \in 1 .. n
               PROVE  ch.epochs[i].epoch \in Nat /\ ch.epochs[i].epoch <= KeyEpoch(ch)
    OBVIOUS
  <2>1. n \in 1 .. n /\ i <= n /\ n # 0
    BY <1>1
  <2> QED BY <1>1, <1>3, <2>1 DEF EpochsWhole
<1>5. CASE n # 0 /\ e.reason = "grant" /\ e.head = ch.epochs[n].head + 1
           /\ ch.steps[e.head].action = "add" /\ e.epoch = ch.epochs[n].epoch
  BY <1>5 DEF Recipients
<1>6. CASE e.reason # "grant" /\ e.epoch = KeyEpoch(ch) + 1
  <2>1. \A i \in 1 .. n : ch.epochs[i].epoch < e.epoch
    BY <1>3, <1>4, <1>6
  <2> QED BY <1>6, <2>1 DEF Recipients
<1>7. \/ n # 0 /\ e.reason = "grant" /\ e.head = ch.epochs[n].head + 1
         /\ ch.steps[e.head].action = "add" /\ e.epoch = ch.epochs[n].epoch
      \/ e.reason # "grant" /\ e.epoch = KeyEpoch(ch) + 1
  <2>1. CASE ch.epochs = <<>> /\ e.reason = "genesis" /\ e.epoch = 1
    BY <1>1, <1>3, <2>1
  <2>2. CASE ch.epochs # <<>> /\ e.epoch = ch.epochs[n].epoch + 1
             /\ (e.reason = "cutover" \/ e.reason = "rotation")
    BY <1>1, <1>3, <2>2
  <2>3. CASE ch.epochs # <<>> /\ e.reason = "grant" /\ e.head = ch.epochs[n].head + 1
             /\ ch.steps[e.head].action = "add" /\ e.epoch = ch.epochs[n].epoch
    BY <1>1, <2>3
  <2> HIDE DEF n
  <2> QED BY <1>2, <2>1, <2>2, <2>3 DEF ReasonFits
<1> QED BY <1>5, <1>6, <1>7

\* An epoch record appended to a whole chain.
LEMMA EpochAppends ==
    ASSUME NEW ch, ChainWhole(ch), NEW e, e.place = Len(ch.epochs) + 1,
           e.head \in DOMAIN ch.steps, ReasonFits(ch, e),
           e.recipients = Recipients(ch, e.reason, e.head)
    PROVE  LET next == [ch EXCEPT !.epochs = Append(@, e)]
           IN  /\ ChainWhole(next) /\ Follows(ch, next) /\ next.steps = ch.steps
               /\ Len(next.epochs) = Len(ch.epochs) + 1 /\ next.epochs[Len(ch.epochs) + 1] = e
<1> DEFINE next == [ch EXCEPT !.epochs = Append(@, e)]
           n == Len(ch.epochs)
<1>1. /\ n \in Nat /\ DOMAIN ch.steps = 1 .. Len(ch.steps) /\ Len(ch.steps) \in Nat
      /\ IsChain(ch) /\ StepsWhole(ch) /\ EpochsWhole(ch) /\ KeysWhole(ch)
  BY ChainLengths DEF ChainWhole
<1>2. PICK S : ch.epochs \in Seq(S)
  BY <1>1 DEF IsChain
<1>3. next = [steps |-> ch.steps, epochs |-> Append(ch.epochs, e)]
  <2>1. ch = [steps |-> ch.steps, epochs |-> ch.epochs]
    BY <1>1 DEF IsChain
  <2>2. next = [[steps |-> ch.steps, epochs |-> ch.epochs] EXCEPT !.epochs = Append(ch.epochs, e)]
    BY <2>1
  <2>3. [[steps |-> ch.steps, epochs |-> ch.epochs] EXCEPT !.epochs = Append(ch.epochs, e)]
          = [steps |-> ch.steps, epochs |-> Append(ch.epochs, e)]
    <3> DEFINE x == ch.steps
               y == ch.epochs
               z == Append(ch.epochs, e)
    <3> HIDE DEF x, y, z
    <3>1. [[steps |-> x, epochs |-> y] EXCEPT !.epochs = z] = [steps |-> x, epochs |-> z]
      OBVIOUS
    <3> QED BY <3>1 DEF x, y, z
  <2> HIDE DEF next
  <2> QED BY <2>2, <2>3
<1> HIDE DEF next
<1>4. /\ next.epochs = Append(ch.epochs, e) /\ next.steps = ch.steps
      /\ next.epochs \in Seq(S \union {e})
  BY <1>2, <1>3
<1>5. Len(next.epochs) = n + 1 /\ next.epochs[n + 1] = e
      /\ \A i \in 1 .. n : next.epochs[i] = ch.epochs[i]
  BY <1>1, <1>2, <1>4
<1>6. IsChain(next)
  BY <1>1, <1>3, <1>4 DEF IsChain
<1>7. Follows(ch, next)
  BY <1>1, <1>4, <1>5 DEF Follows
<1>8. \A v \in Nat : Added(next, v) = Added(ch, v) /\ AuthorizedAt(next, v) = AuthorizedAt(ch, v)
  <2> SUFFICES ASSUME NEW v \in Nat
               PROVE  Added(next, v) = Added(ch, v) /\ AuthorizedAt(next, v) = AuthorizedAt(ch, v)
    OBVIOUS
  <2> QED BY <1>4, SameMembers
<1>9. StepsWhole(next)
  <2>1. \A v \in 1 .. Len(ch.steps) : v - 1 \in Nat
    BY <1>1
  <2> QED BY <1>1, <1>4, <1>8, <2>1 DEF StepsWhole
<1>10. \/ /\ e.epoch = KeyEpoch(ch) + 1 /\ e.recipients = AuthorizedAt(ch, e.head)
          /\ \A i \in 1 .. n : ch.epochs[i].epoch < e.epoch
       \/ /\ n # 0 /\ e.epoch = ch.epochs[n].epoch
          /\ e.head = ch.epochs[n].head + 1 /\ ch.steps[e.head].action = "add"
          /\ e.recipients = Added(ch, e.head) \ Added(ch, e.head - 1)
  BY ReasonMeans
<1>11. \A i \in 1 .. n : ch.epochs[i].epoch \in Nat /\ ch.epochs[i].epoch <= e.epoch
  <2> SUFFICES ASSUME NEW i \in 1 .. n
               PROVE  ch.epochs[i].epoch \in Nat /\ ch.epochs[i].epoch <= e.epoch
    OBVIOUS
  <2>1. ch.epochs[i].epoch \in Nat /\ KeyEpoch(ch) \in Nat
    BY <1>1, KeyEpochIs DEF EpochsWhole
  <2>2. n \in 1 .. n /\ i <= n
    BY <1>1
  <2>3. ch.epochs[i].epoch <= ch.epochs[n].epoch
    BY <1>1, <2>2 DEF EpochsWhole
  <2> QED BY <1>10, <2>1, <2>3
<1>12. e.epoch \in Nat /\ e.head \in 1 .. Len(ch.steps)
  <2>1. KeyEpoch(ch) \in Nat
    BY <1>1, KeyEpochIs
  <2>2. n # 0 => n \in 1 .. n
    BY <1>1
  <2> QED BY <1>1, <1>10, <1>11, <2>1, <2>2
<1>13. \A i \in 1 .. n + 1 : i \in 1 .. n \/ i = n + 1
  BY <1>1
<1>14. EpochsWhole(next)
  <2>1. \A i \in 1 .. n + 1 : /\ next.epochs[i].place = i
                              /\ next.epochs[i].epoch \in Nat
                              /\ next.epochs[i].head \in 1 .. Len(next.steps)
    BY <1>1, <1>4, <1>5, <1>12, <1>13 DEF EpochsWhole
  <2>2. ASSUME NEW i \in 1 .. n + 1, NEW j \in 1 .. n + 1, i <= j
        PROVE  next.epochs[i].epoch <= next.epochs[j].epoch
    <3>1. CASE i = n + 1
      <4>1. j = n + 1
        BY <1>1, <2>2, <3>1
      <4> QED BY <1>5, <1>12, <3>1, <4>1
    <3>2. CASE i \in 1 .. n /\ j = n + 1
      BY <1>5, <1>11, <3>2
    <3>3. CASE i \in 1 .. n /\ j \in 1 .. n
      BY <1>1, <1>5, <2>2, <3>3 DEF EpochsWhole
    <3> QED BY <1>13, <3>1, <3>2, <3>3
  <2> QED BY <1>5, <2>1, <2>2 DEF EpochsWhole
<1>15. \A epoch, d : Sealed(next, epoch, d) <=>
          Sealed(ch, epoch, d) \/ (epoch = e.epoch /\ d \in e.recipients)
  <2>1. \A i \in 1 .. n : i \in 1 .. n + 1
    BY <1>1
  <2>2. n + 1 \in 1 .. n + 1
    BY <1>1
  <2> QED BY <1>5, <1>13, <2>1, <2>2 DEF Sealed
<1>16. KeysWhole(next)
  <2> SUFFICES ASSUME NEW i \in 1 .. n + 1, LastOf(next, i), NEW d
               PROVE  Sealed(next, next.epochs[i].epoch, d) <=>
                        d \in AuthorizedAt(next, next.epochs[i].head)
    BY <1>5 DEF KeysWhole
  <2>1. next.epochs[i].head \in Nat
    BY <1>5, <1>14 DEF EpochsWhole
  <2>2. AuthorizedAt(next, next.epochs[i].head) = AuthorizedAt(ch, next.epochs[i].head)
    BY <1>8, <2>1
  <2>3. CASE i \in 1 .. n
    <3>1. next.epochs[i].epoch # e.epoch
      <4>1. n + 1 \in 1 .. n + 1 /\ ~(n + 1 <= i)
        BY <1>1, <2>3
      <4> QED BY <1>5, <4>1 DEF LastOf
    <3>2. LastOf(ch, i)
      <4>1. \A j \in 1 .. n : j \in 1 .. n + 1
        BY <1>1
      <4> QED BY <1>5, <2>3, <4>1 DEF LastOf
    <3>3. Sealed(ch, ch.epochs[i].epoch, d) <=> d \in AuthorizedAt(ch, ch.epochs[i].head)
      BY <1>1, <2>3, <3>2 DEF KeysWhole
    <3> QED BY <1>5, <1>15, <2>2, <2>3, <3>1, <3>3
  <2>4. CASE i = n + 1
    <3>1. next.epochs[i] = e
      BY <1>5, <2>4
    <3>2. CASE \A j \in 1 .. n : ch.epochs[j].epoch < e.epoch
      <4>1. e.recipients = AuthorizedAt(ch, e.head)
        <5>1. n # 0 => n \in 1 .. n
          BY <1>1
        <5> QED BY <1>10, <1>12, <3>2, <5>1
      <4>2. ~Sealed(ch, e.epoch, d)
        <5>1. \A j \in 1 .. n : ch.epochs[j].epoch # e.epoch
          BY <1>11, <1>12, <3>2
        <5> QED BY <5>1 DEF Sealed
      <4> QED BY <1>15, <2>2, <3>1, <4>1, <4>2
    <3>3. CASE /\ n # 0 /\ e.epoch = ch.epochs[n].epoch
               /\ e.head = ch.epochs[n].head + 1 /\ ch.steps[e.head].action = "add"
               /\ e.recipients = Added(ch, e.head) \ Added(ch, e.head - 1)
      <4> DEFINE h == ch.epochs[n].head
      <4>1. n \in 1 .. n /\ LastOf(ch, n)
        BY <1>1, <3>3 DEF LastOf
      <4>2. h \in Nat /\ h + 1 <= Len(ch.steps) /\ e.head = h + 1 /\ e.head - 1 = h
        BY <1>1, <1>12, <3>3, <4>1 DEF EpochsWhole
      <4>3. Sealed(ch, e.epoch, d) <=> d \in AuthorizedAt(ch, h)
        BY <1>1, <3>3, <4>1 DEF KeysWhole
      <4>4. AuthorizedAt(ch, h + 1) = AuthorizedAt(ch, h) \union (Added(ch, h + 1) \ Added(ch, h))
        <5> HIDE DEF h
        <5> QED BY <1>1, <3>3, <4>2, GrantAdds
      <4> HIDE DEF h
      <4> QED BY <1>15, <2>2, <3>1, <3>3, <4>2, <4>3, <4>4
    <3> QED BY <1>10, <3>2, <3>3
  <2> QED BY <1>13, <2>3, <2>4
<1> QED BY <1>4, <1>5, <1>6, <1>7, <1>9, <1>14, <1>16 DEF ChainWhole, next

-----------------------------------------------------------------------------
(* Many records. *)

\* What folding k membership records makes of a chain.
SteppedTo(base, s, k, ch) ==
    /\ ChainWhole(ch) /\ Follows(base, ch) /\ ch.epochs = base.epochs
    /\ \A i \in 1 .. Len(ch.steps) : i <= Len(base.steps) \/ \E j \in 1 .. k : ch.steps[i] = s[j]

LEMMA StepRun ==
    ASSUME NEW base, ChainWhole(base), NEW S, NEW s \in Seq(S), NEW r, Runs("step", base, s, r)
    PROVE  \A k \in 0 .. Len(s) : r[k] # Refused => SteppedTo(base, s, k, r[k])
<1> DEFINE P(k) == k <= Len(s) => (r[k] # Refused => SteppedTo(base, s, k, r[k]))
           T == {k \in Nat : P(k)}
<1>1. 0 \in T
  <2>1. SteppedTo(base, s, 0, base)
    BY FollowsItself, ChainLengths DEF SteppedTo, ChainWhole
  <2> QED BY <2>1 DEF Runs
<1>2. ASSUME NEW k \in Nat, k \in T PROVE k + 1 \in T
  <2> SUFFICES ASSUME k + 1 <= Len(s), r[k + 1] # Refused
               PROVE  SteppedTo(base, s, k + 1, r[k + 1])
    OBVIOUS
  <2>1. k <= Len(s) /\ k + 1 \in 1 .. Len(s) /\ (k + 1) - 1 = k
    OBVIOUS
  <2>2. r[k + 1] = ApplyMembership(r[k], s[k + 1])
    BY <2>1 DEF Runs, Apply
  <2> DEFINE ch == r[k]
             m == s[k + 1]
  <2>3. SteppedTo(base, s, k, ch)
    <3>1. r[k] # Refused
      BY <2>2, MembershipCases
    <3> QED BY <1>2, <2>1, <3>1
  <2> HIDE DEF ch, m, P, T
  <2>4. \A j \in 1 .. k : j \in 1 .. k + 1
    OBVIOUS
  <2>5. CASE r[k + 1] = ch
    BY <2>3, <2>4, <2>5 DEF SteppedTo
  <2>6. CASE r[k + 1] = [ch EXCEPT !.steps = Append(@, m)] /\ MembershipFits(ch, m)
    <3> DEFINE next == [ch EXCEPT !.steps = Append(@, m)]
    <3>1. /\ ChainWhole(next) /\ Follows(ch, next) /\ next.epochs = ch.epochs
          /\ Len(next.steps) = Len(ch.steps) + 1 /\ next.steps[Len(ch.steps) + 1] = m
      BY <2>3, <2>6, MembershipAppends DEF SteppedTo
    <3> HIDE DEF next
    <3>2. Follows(base, next)
      BY <2>3, <3>1, FollowsOn DEF SteppedTo, ChainWhole
    <3>3. ASSUME NEW i \in 1 .. Len(next.steps)
          PROVE  i <= Len(base.steps) \/ \E j \in 1 .. k + 1 : next.steps[i] = s[j]
      <4>1. Len(ch.steps) \in Nat
        BY <2>3, ChainLengths DEF SteppedTo, ChainWhole
      <4>2. CASE i = Len(ch.steps) + 1
        BY <2>1, <3>1, <4>2 DEF m
      <4>3. CASE i # Len(ch.steps) + 1
        <5>1. i \in 1 .. Len(ch.steps)
          BY <3>1, <4>1, <4>3
        <5>2. next.steps[i] = ch.steps[i]
          BY <3>1, <5>1 DEF Follows
        <5> QED BY <2>3, <2>4, <5>1, <5>2 DEF SteppedTo
      <4> QED BY <4>2, <4>3
    <3>4. SteppedTo(base, s, k + 1, next)
      BY <2>3, <3>1, <3>2, <3>3 DEF SteppedTo
    <3> QED BY <2>6, <3>4 DEF next
  <2> QED BY <2>2, <2>5, <2>6, MembershipCases DEF ch, m
<1> HIDE DEF T, P
<1>3. Nat \subseteq T
  BY <1>1, <1>2, Count
<1> QED BY <1>3 DEF T, P

\* What folding k epoch records makes of a chain.
SealedTo(base, s, k, ch) ==
    /\ ChainWhole(ch) /\ Follows(base, ch) /\ ch.steps = base.steps
    /\ \A i \in 1 .. Len(ch.epochs) :
          i <= Len(base.epochs) \/ \E j \in 1 .. k : ch.epochs[i] = s[j]
    /\ \A j \in 1 .. k : s[j].place \in 1 .. Len(ch.epochs) /\ ch.epochs[s[j].place] = s[j]

LEMMA EpochRun ==
    ASSUME NEW base, ChainWhole(base), NEW S, NEW s \in Seq(S), NEW r, Runs("epoch", base, s, r)
    PROVE  \A k \in 0 .. Len(s) : r[k] # Refused => SealedTo(base, s, k, r[k])
<1> DEFINE P(k) == k <= Len(s) => (r[k] # Refused => SealedTo(base, s, k, r[k]))
           T == {k \in Nat : P(k)}
<1>1. 0 \in T
  <2>1. SealedTo(base, s, 0, base)
    BY FollowsItself, ChainLengths DEF SealedTo, ChainWhole
  <2> QED BY <2>1 DEF Runs
<1>2. ASSUME NEW k \in Nat, k \in T PROVE k + 1 \in T
  <2> SUFFICES ASSUME k + 1 <= Len(s), r[k + 1] # Refused
               PROVE  SealedTo(base, s, k + 1, r[k + 1])
    OBVIOUS
  <2>1. k <= Len(s) /\ k + 1 \in 1 .. Len(s) /\ (k + 1) - 1 = k
    OBVIOUS
  <2>2. r[k + 1] = ApplyEpoch(r[k], s[k + 1])
    BY <2>1 DEF Runs, Apply
  <2> DEFINE ch == r[k]
             e == s[k + 1]
  <2>3. SealedTo(base, s, k, ch)
    <3>1. r[k] # Refused
      BY <2>2, EpochCases
    <3> QED BY <1>2, <2>1, <3>1
  <2> HIDE DEF ch, e, P, T
  <2>4. \A j \in 1 .. k + 1 : j \in 1 .. k \/ j = k + 1
    OBVIOUS
  <2>5. \A j \in 1 .. k : j \in 1 .. k + 1
    OBVIOUS
  <2>6. Len(ch.epochs) \in Nat /\ DOMAIN ch.epochs = 1 .. Len(ch.epochs)
    BY <2>3, ChainLengths DEF SealedTo, ChainWhole
  <2>7. CASE r[k + 1] = ch /\ e.place \in DOMAIN ch.epochs /\ ch.epochs[e.place] = e
    BY <2>3, <2>4, <2>5, <2>6, <2>7 DEF SealedTo, e
  <2>8. CASE /\ r[k + 1] = [ch EXCEPT !.epochs = Append(@, e)]
             /\ e.place = Len(ch.epochs) + 1 /\ e.head \in DOMAIN ch.steps
             /\ ReasonFits(ch, e) /\ e.recipients = Recipients(ch, e.reason, e.head)
    <3> DEFINE next == [ch EXCEPT !.epochs = Append(@, e)]
    <3>1. /\ ChainWhole(next) /\ Follows(ch, next) /\ next.steps = ch.steps
          /\ Len(next.epochs) = Len(ch.epochs) + 1 /\ next.epochs[Len(ch.epochs) + 1] = e
      BY <2>3, <2>8, EpochAppends DEF SealedTo
    <3> HIDE DEF next
    <3>2. Follows(base, next)
      BY <2>3, <3>1, FollowsOn DEF SealedTo, ChainWhole
    <3>3. \A i \in 1 .. Len(ch.epochs) : i \in 1 .. Len(next.epochs) /\ next.epochs[i] = ch.epochs[i]
      BY <2>6, <3>1 DEF Follows
    <3>4. ASSUME NEW i \in 1 .. Len(next.epochs)
          PROVE  i <= Len(base.epochs) \/ \E j \in 1 .. k + 1 : next.epochs[i] = s[j]
      <4>1. CASE i = Len(ch.epochs) + 1
        BY <2>1, <3>1, <4>1 DEF e
      <4>2. CASE i # Len(ch.epochs) + 1
        <5>1. i \in 1 .. Len(ch.epochs)
          BY <2>6, <3>1, <4>2
        <5>2. i <= Len(base.epochs) \/ \E j \in 1 .. k : ch.epochs[i] = s[j]
          BY <2>3, <5>1 DEF SealedTo
        <5> QED BY <2>5, <3>3, <5>1, <5>2
      <4> QED BY <4>1, <4>2
    <3>5. ASSUME NEW j \in 1 .. k + 1
          PROVE  s[j].place \in 1 .. Len(next.epochs) /\ next.epochs[s[j].place] = s[j]
      <4>1. CASE j = k + 1
        BY <2>6, <2>8, <3>1, <4>1 DEF e
      <4>2. CASE j \in 1 .. k
        <5>1. s[j].place \in 1 .. Len(ch.epochs) /\ ch.epochs[s[j].place] = s[j]
          BY <2>3, <4>2 DEF SealedTo
        <5> QED BY <3>3, <5>1
      <4> QED BY <2>4, <4>1, <4>2
    <3>6. SealedTo(base, s, k + 1, next)
      BY <2>3, <3>1, <3>2, <3>4, <3>5 DEF SealedTo
    <3> QED BY <2>8, <3>6 DEF next
  <2>9. r[k + 1] = ApplyEpoch(ch, e) /\ ApplyEpoch(ch, e) # Refused
    BY <2>2 DEF ch, e
  <2>10. \/ /\ r[k + 1] = ch
            /\ e.place \in DOMAIN ch.epochs /\ ch.epochs[e.place] = e
         \/ /\ r[k + 1] = [ch EXCEPT !.epochs = Append(@, e)]
            /\ e.place = Len(ch.epochs) + 1 /\ e.head \in DOMAIN ch.steps
            /\ ReasonFits(ch, e) /\ e.recipients = Recipients(ch, e.reason, e.head)
    BY <2>9, EpochCases
  <2> QED BY <2>7, <2>8, <2>10
<1> HIDE DEF T, P
<1>3. Nat \subseteq T
  BY <1>1, <1>2, Count
<1> QED BY <1>3 DEF T, P

\* A chain that refuses one record refuses the rest.
LEMMA RefusedStays ==
    ASSUME NEW S, NEW s \in Seq(S)
    PROVE  FoldLeft(ApplyEpoch, Refused, s) = Refused
<1>1. PICK r : Runs("epoch", Refused, s, r) /\ r[Len(s)] = FoldLeft(ApplyEpoch, Refused, s)
  BY FoldOfEpochs
<1> DEFINE T == {k \in Nat : k <= Len(s) => r[k] = Refused}
<1>2. 0 \in T
  BY <1>1 DEF Runs
<1>3. ASSUME NEW k \in Nat, k \in T PROVE k + 1 \in T
  <2> SUFFICES ASSUME k + 1 <= Len(s) PROVE r[k + 1] = Refused
    OBVIOUS
  <2>1. k <= Len(s) /\ k + 1 \in 1 .. Len(s) /\ (k + 1) - 1 = k
    OBVIOUS
  <2>2. r[k + 1] = ApplyEpoch(Refused, s[k + 1])
    BY <1>1, <1>3, <2>1 DEF Runs, Apply
  <2> QED BY <2>2, EpochCases
<1> HIDE DEF T
<1>4. Nat \subseteq T
  BY <1>2, <1>3, Count
<1> QED BY <1>1, <1>4 DEF T

\* Everything extend leaves of a whole chain, if it does not refuse.
LEMMA ExtendWhole ==
    ASSUME NEW base, ChainWhole(base), NEW A, NEW ms \in Seq(A), NEW B, NEW es \in Seq(B),
           Extend(base, ms, es) # Refused
    PROVE  LET next == Extend(base, ms, es)
           IN  /\ ChainWhole(next) /\ Follows(base, next) /\ Covered(next)
               /\ \A i \in 1 .. Len(next.steps) :
                     i <= Len(base.steps) \/ \E j \in 1 .. Len(ms) : next.steps[i] = ms[j]
               /\ \A i \in 1 .. Len(next.epochs) :
                     i <= Len(base.epochs) \/ \E j \in 1 .. Len(es) : next.epochs[i] = es[j]
               /\ \A j \in 1 .. Len(es) : es[j].place \in 1 .. Len(next.epochs)
<1> DEFINE mid == Stepped(base, ms)
           next == FoldLeft(ApplyEpoch, mid, es)
<1>1. Extend(base, ms, es) = next /\ next # Refused /\ Covered(next)
  BY DEF Extend
<1>2. PICK r : Runs("step", base, ms, r) /\ r[Len(ms)] = mid
  BY FoldOfSteps DEF Stepped
<1>3. PICK q : Runs("epoch", mid, es, q) /\ q[Len(es)] = next
  <2> HIDE DEF mid
  <2> QED BY FoldOfEpochs DEF next
<1>4. mid # Refused
  <2> HIDE DEF mid
  <2> QED BY <1>1, RefusedStays DEF next
<1> HIDE DEF mid, next
<1>5. SteppedTo(base, ms, Len(ms), mid)
  <2>1. \A k \in 0 .. Len(ms) : r[k] # Refused => SteppedTo(base, ms, k, r[k])
    BY <1>2, StepRun
  <2> QED BY <1>2, <1>4, <2>1
<1>6. SealedTo(mid, es, Len(es), next)
  <2>1. ChainWhole(mid)
    BY <1>5 DEF SteppedTo
  <2>2. \A k \in 0 .. Len(es) : q[k] # Refused => SealedTo(mid, es, k, q[k])
    BY <1>3, <2>1, EpochRun
  <2> QED BY <1>1, <1>3, <2>2
<1>7. ChainWhole(next) /\ Follows(base, next)
  BY <1>5, <1>6, FollowsOn DEF SteppedTo, SealedTo, ChainWhole
<1>8. next.steps = mid.steps /\ mid.epochs = base.epochs
  BY <1>5, <1>6 DEF SteppedTo, SealedTo
<1>9. \A i \in 1 .. Len(next.steps) :
         i <= Len(base.steps) \/ \E j \in 1 .. Len(ms) : next.steps[i] = ms[j]
  BY <1>5, <1>8 DEF SteppedTo
<1>10. \A i \in 1 .. Len(next.epochs) :
          i <= Len(base.epochs) \/ \E j \in 1 .. Len(es) : next.epochs[i] = es[j]
  BY <1>6, <1>8 DEF SealedTo
<1>11. \A j \in 1 .. Len(es) : es[j].place \in 1 .. Len(next.epochs)
  BY <1>6 DEF SealedTo
<1> QED BY <1>1, <1>7, <1>9, <1>10, <1>11

\* Extending a beginning of a chain with records of the chain leaves a beginning of it.
LEMMA ExtendFollows ==
    ASSUME NEW base, ChainWhole(base), NEW whole, ChainWhole(whole), Follows(base, whole),
           NEW A, NEW ms \in Seq(A), NEW B, NEW es \in Seq(B), Extend(base, ms, es) # Refused,
           \A j \in 1 .. Len(ms) : \E i \in 1 .. Len(whole.steps) : ms[j] = whole.steps[i],
           \A j \in 1 .. Len(es) : \E i \in 1 .. Len(whole.epochs) : es[j] = whole.epochs[i]
    PROVE  Follows(Extend(base, ms, es), whole)
<1> DEFINE next == Extend(base, ms, es)
<1>1. /\ ChainWhole(next)  /\ Follows(base, next)
      /\ \A i \in 1 .. Len(next.steps) :
            i <= Len(base.steps) \/ \E j \in 1 .. Len(ms) : next.steps[i] = ms[j]
      /\ \A i \in 1 .. Len(next.epochs) :
            i <= Len(base.epochs) \/ \E j \in 1 .. Len(es) : next.epochs[i] = es[j]
  BY ExtendWhole
<1> HIDE DEF next
<1>2. /\ Len(next.steps) \in Nat /\ Len(next.epochs) \in Nat
      /\ Len(whole.steps) \in Nat /\ Len(whole.epochs) \in Nat
      /\ Len(base.steps) \in Nat /\ Len(base.epochs) \in Nat
  BY <1>1, ChainLengths DEF ChainWhole
<1>3. ASSUME NEW i \in 1 .. Len(next.steps)
      PROVE  i \in 1 .. Len(whole.steps) /\ next.steps[i] = whole.steps[i]
  <2>1. CASE i <= Len(base.steps)
    <3>1. i \in 1 .. Len(base.steps) /\ i \in 1 .. Len(whole.steps)
      BY <1>2, <2>1 DEF Follows
    <3> QED BY <1>1, <3>1 DEF Follows
  <2>2. CASE \E j \in 1 .. Len(ms) : next.steps[i] = ms[j]
    <3>1. PICK k \in 1 .. Len(whole.steps) : next.steps[i] = whole.steps[k]
      BY <2>2
    <3>2. next.steps[i].version = i /\ whole.steps[k].version = k
      BY <1>1 DEF ChainWhole, StepsWhole
    <3> QED BY <3>1, <3>2
  <2> QED BY <1>1, <2>1, <2>2
<1>4. ASSUME NEW i \in 1 .. Len(next.epochs)
      PROVE  i \in 1 .. Len(whole.epochs) /\ next.epochs[i] = whole.epochs[i]
  <2>1. CASE i <= Len(base.epochs)
    <3>1. i \in 1 .. Len(base.epochs) /\ i \in 1 .. Len(whole.epochs)
      BY <1>2, <2>1 DEF Follows
    <3> QED BY <1>1, <3>1 DEF Follows
  <2>2. CASE \E j \in 1 .. Len(es) : next.epochs[i] = es[j]
    <3>1. PICK k \in 1 .. Len(whole.epochs) : next.epochs[i] = whole.epochs[k]
      BY <2>2
    <3>2. next.epochs[i].place = i /\ whole.epochs[k].place = k
      BY <1>1 DEF ChainWhole, EpochsWhole
    <3> QED BY <3>1, <3>2
  <2> QED BY <1>1, <2>1, <2>2
<1>5. Len(next.steps) <= Len(whole.steps)
  <2>1. Len(next.steps) # 0 => Len(next.steps) \in 1 .. Len(next.steps)
    BY <1>2
  <2> QED BY <1>2, <1>3, <2>1
<1>6. Len(next.epochs) <= Len(whole.epochs)
  <2>1. Len(next.epochs) # 0 => Len(next.epochs) \in 1 .. Len(next.epochs)
    BY <1>2
  <2> QED BY <1>2, <1>4, <2>1
<1> QED BY <1>3, <1>4, <1>5, <1>6 DEF Follows, next

\* A portion of a sequence is made of its elements.
LEMMA Portion ==
    ASSUME NEW A, NEW s \in Seq(A), NEW a \in Nat, a >= 1, NEW b \in Nat, b <= Len(s)
    PROVE  /\ SubSeq(s, a, b) \in Seq(A)
           /\ \A j \in 1 .. Len(SubSeq(s, a, b)) : \E i \in 1 .. Len(s) : SubSeq(s, a, b)[j] = s[i]
<1> DEFINE sub == SubSeq(s, a, b)
           n == IF a <= b THEN b - a + 1 ELSE 0
<1>1. n \in Nat /\ \A j \in 1 .. n : a + j - 1 \in 1 .. Len(s)
  OBVIOUS
<1>2. sub = [j \in 1 .. n |-> s[a + j - 1]]
  OBVIOUS
<1>3. \A j \in 1 .. n : s[a + j - 1] \in A
  BY <1>1
<1>4. Len(sub) = n
  BY <1>1, <1>2
<1>5. sub \in Seq(A)
  BY <1>1, <1>2, <1>3
<1>6. \A j \in 1 .. n : sub[j] = s[a + j - 1]
  BY <1>2
<1> HIDE DEF sub, n
<1>7. \A j \in 1 .. Len(sub) : \E i \in 1 .. Len(s) : sub[j] = s[i]
  BY <1>1, <1>4, <1>6
<1> QED BY <1>5, <1>7 DEF sub

-----------------------------------------------------------------------------
(***************************************************************************)
(* The chains of the service and of the machines.                           *)
(***************************************************************************)
Chains ==
    /\ ChainWhole(chain) /\ Covered(chain)
    /\ view = [m \in Machines |-> view[m]]
    /\ \A m \in Machines : ChainWhole(view[m]) /\ Follows(view[m], chain)

LEMMA NoChainWhole ==
    ASSUME NEW whole, IsChain(whole)
    PROVE  ChainWhole(NoChain) /\ Follows(NoChain, whole)
<1>1. NoChain.steps = <<>> /\ NoChain.epochs = <<>> /\ <<>> \in Seq({}) /\ Len(<<>>) = 0
  BY DEF NoChain
<1>2. IsChain(NoChain)
  <2>1. NoChain = [steps |-> NoChain.steps, epochs |-> NoChain.epochs]
    BY DEF NoChain
  <2> QED BY <1>1, <2>1 DEF IsChain
<1>3. \A i \in 1 .. 0 : FALSE
  OBVIOUS
<1>4. Len(NoChain.steps) = 0 /\ Len(NoChain.epochs) = 0
  BY <1>1
<1>5. StepsWhole(NoChain) /\ EpochsWhole(NoChain) /\ KeysWhole(NoChain)
  BY <1>3, <1>4 DEF StepsWhole, EpochsWhole, KeysWhole
<1>6. Follows(NoChain, whole)
  BY <1>3, <1>4, ChainLengths DEF Follows
<1> QED BY <1>2, <1>5, <1>6 DEF ChainWhole

LEMMA InitChains == Init => Chains
<1> SUFFICES ASSUME Init PROVE Chains
  OBVIOUS
<1>1. /\ Start.steps \in Seq(MembershipRecords) /\ Start.epochs \in Seq(EpochRecords)
      /\ Start = [steps |-> Start.steps, epochs |-> Start.epochs]
      /\ Start # Refused /\ Extend(NoChain, Start.steps, Start.epochs) = Start
  BY StartVerifies
<1>2. IsChain(Start)
  BY <1>1 DEF IsChain
<1>3. ChainWhole(NoChain)
  BY <1>2, NoChainWhole
<1>4. ChainWhole(Start) /\ Covered(Start)
  <2>1. Extend(NoChain, Start.steps, Start.epochs) # Refused
    BY <1>1
  <2>2. /\ ChainWhole(Extend(NoChain, Start.steps, Start.epochs))
        /\ Covered(Extend(NoChain, Start.steps, Start.epochs))
    BY <1>1, <1>3, <2>1, ExtendWhole
  <2> QED BY <1>1, <2>2
<1>5. Follows(Start, Start)
  BY <1>2, FollowsItself
<1> QED BY <1>4, <1>5 DEF Init, Chains

\* What the service installs goes on from what it has, with one epoch record more.
LEMMA InstallGrows ==
    ASSUME Chains, NEW m \in Machines, InstallRecords(m)
    PROVE  /\ ChainWhole(chain') /\ Follows(chain, chain') /\ Covered(chain')
           /\ Len(chain'.epochs) = Len(chain.epochs) + 1
<1>1. \E reason \in {"cutover", "grant", "rotation"} :
        \E memberships \in {<<>>} \union Changes(m) :
            LET stepped == Stepped(chain, memberships)
                next == Extend(chain, memberships, <<NewRecord(m, reason, stepped)>>)
            IN  stepped # Refused /\ next # Refused /\ chain' = next
  BY Zenon DEF InstallRecords
<1>2. PICK memberships, record :
           /\ memberships \in {<<>>} \union Changes(m)
           /\ record.place = Len(chain.epochs) + 1
           /\ Extend(chain, memberships, <<record>>) # Refused
           /\ chain' = Extend(chain, memberships, <<record>>)
  <2>1. \A reason, stepped : NewRecord(m, reason, stepped).place = Len(chain.epochs) + 1
    BY DEF NewRecord
  <2> QED BY <1>1, <2>1
<1>3. PICK A : memberships \in Seq(A)
  <2>1. CASE memberships = <<>>
    <3>1. memberships \in Seq({})
      BY <2>1
    <3> QED BY <3>1
  <2>2. CASE memberships # <<>>
    <3>1. memberships \in Changes(m)
      BY <1>2, <2>2
    <3>2. PICK x : memberships = <<x>>
      BY <3>1 DEF Changes
    <3>3. memberships \in Seq({x})
      BY <3>2
    <3> QED BY <3>3
  <2> QED BY <2>1, <2>2
<1> DEFINE es == <<record>>
<1>4. es \in Seq({record}) /\ Len(es) = 1 /\ es[1] = record /\ 1 \in 1 .. Len(es)
      /\ \A j \in 1 .. Len(es) : es[j] = record
  OBVIOUS
<1>5. chain' = Extend(chain, memberships, es) /\ Extend(chain, memberships, es) # Refused
  BY <1>2
<1> HIDE DEF es
<1>6. /\ ChainWhole(chain') /\ Follows(chain, chain') /\ Covered(chain')
      /\ \A i \in 1 .. Len(chain'.epochs) :
            i <= Len(chain.epochs) \/ \E j \in 1 .. Len(es) : chain'.epochs[i] = es[j]
      /\ \A j \in 1 .. Len(es) : es[j].place \in 1 .. Len(chain'.epochs)
  <2>1. ChainWhole(chain)
    BY DEF Chains
  <2> DEFINE next == Extend(chain, memberships, es)
  <2>2. /\ ChainWhole(next) /\ Follows(chain, next) /\ Covered(next)
        /\ \A i \in 1 .. Len(next.epochs) :
              i <= Len(chain.epochs) \/ \E j \in 1 .. Len(es) : next.epochs[i] = es[j]
        /\ \A j \in 1 .. Len(es) : es[j].place \in 1 .. Len(next.epochs)
    <3>1. es \in Seq({record})
      BY <1>4
    <3> HIDE DEF es
    <3> QED BY <1>3, <1>5, <2>1, <3>1, ExtendWhole
  <2>3. chain' = next
    BY <1>5
  <2> HIDE DEF next
  <2> QED BY <2>2, <2>3
<1>7. Len(chain.epochs) \in Nat /\ Len(chain'.epochs) \in Nat
  BY <1>6, ChainLengths DEF Chains, ChainWhole
<1>8. Len(chain.epochs) + 1 <= Len(chain'.epochs)
  BY <1>2, <1>4, <1>6, <1>7
<1>9. \A i \in 1 .. Len(chain'.epochs) : i <= Len(chain.epochs) + 1
  <2> SUFFICES ASSUME NEW i \in 1 .. Len(chain'.epochs), ~(i <= Len(chain.epochs))
               PROVE  i <= Len(chain.epochs) + 1
    BY <1>7
  <2>1. chain'.epochs[i] = record
    BY <1>4, <1>6
  <2>2. chain'.epochs[i].place = i
    BY <1>6 DEF ChainWhole, EpochsWhole
  <2> QED BY <1>2, <1>7, <2>1, <2>2
<1>10. Len(chain'.epochs) \in 1 .. Len(chain'.epochs)
  BY <1>7, <1>8
<1>11. Len(chain'.epochs) = Len(chain.epochs) + 1
  BY <1>7, <1>8, <1>9, <1>10
<1> QED BY <1>6, <1>11

\* A page leaves the view a beginning of the service's chain, and no shorter than it was.
LEMMA FetchGrows ==
    ASSUME Chains, NEW m \in Machines, Fetch(m)
    PROVE  /\ view' = [view EXCEPT ![m] = view'[m]]
           /\ ChainWhole(view'[m]) /\ Follows(view[m], view'[m]) /\ Follows(view'[m], chain)
<1>1. PICK from \in {0, 1}, to \in Version(view[m]) .. Version(chain),
           last \in Len(view[m].epochs) .. Len(chain.epochs) :
        LET next == Extend(view[m], SubSeq(chain.steps, from * Version(view[m]) + 1, to),
                           SubSeq(chain.epochs, from * Len(view[m].epochs) + 1, last))
        IN  next # Refused /\ view' = [view EXCEPT ![m] = next]
  BY DEF Fetch
<1>2. /\ ChainWhole(chain) /\ ChainWhole(view[m]) /\ Follows(view[m], chain)
      /\ IsChain(chain) /\ IsChain(view[m])
  BY DEF Chains, ChainWhole
<1>3. /\ Len(chain.steps) \in Nat /\ Len(chain.epochs) \in Nat
      /\ Len(view[m].steps) \in Nat /\ Len(view[m].epochs) \in Nat
  BY <1>2, ChainLengths
<1>4. PICK A : chain.steps \in Seq(A)
  BY <1>2 DEF IsChain
<1>5. PICK B : chain.epochs \in Seq(B)
  BY <1>2 DEF IsChain
<1>6. PICK a \in Nat : a >= 1 /\ from * Version(view[m]) + 1 = a
  BY <1>3 DEF Version
<1>7. PICK b \in Nat : b >= 1 /\ from * Len(view[m].epochs) + 1 = b
  BY <1>3
<1>8. to \in Nat /\ to <= Len(chain.steps) /\ last \in Nat /\ last <= Len(chain.epochs)
  BY <1>3 DEF Version
<1> DEFINE ms == SubSeq(chain.steps, a, to)
           es == SubSeq(chain.epochs, b, last)
           next == Extend(view[m], ms, es)
<1>9. ms \in Seq(A) /\ \A j \in 1 .. Len(ms) : \E i \in 1 .. Len(chain.steps) : ms[j] = chain.steps[i]
  BY <1>3, <1>4, <1>6, <1>8, Portion
<1>10. es \in Seq(B)
       /\ \A j \in 1 .. Len(es) : \E i \in 1 .. Len(chain.epochs) : es[j] = chain.epochs[i]
  <2>1. PICK s \in Seq(B) : s = chain.epochs
    BY <1>5
  <2>2. last \in Nat /\ last <= Len(s) /\ b \in Nat /\ b >= 1
    BY <1>7, <1>8, <2>1
  <2>3. /\ SubSeq(s, b, last) \in Seq(B)
        /\ \A j \in 1 .. Len(SubSeq(s, b, last)) :
             \E i \in 1 .. Len(s) : SubSeq(s, b, last)[j] = s[i]
    BY <2>2, Portion
  <2> QED BY <2>1, <2>3
<1>11. next # Refused /\ view' = [view EXCEPT ![m] = next]
  BY <1>1, <1>6, <1>7
<1> HIDE DEF ms, es
<1>15. next # Refused => ChainWhole(next) /\ Follows(view[m], next)
  <2>1. ChainWhole(view[m])
    BY <1>2
  <2>2. ms \in Seq(A) /\ es \in Seq(B)
    BY <1>9, <1>10
  <2> QED BY <2>1, <2>2, ExtendWhole
<1>12. ChainWhole(next) /\ Follows(view[m], next)
  BY <1>11, <1>15
<1>13. Follows(next, chain)
  <2>1. ms \in Seq(A) /\ es \in Seq(B)
    BY <1>9, <1>10
  <2>2. ChainWhole(view[m]) /\ ChainWhole(chain) /\ Follows(view[m], chain)
    BY <1>2
  <2>3. Extend(view[m], ms, es) # Refused
    BY <1>11
  <2>4. \A j \in 1 .. Len(ms) : \E i \in 1 .. Len(chain.steps) : ms[j] = chain.steps[i]
    BY <1>9
  <2>5. \A j \in 1 .. Len(es) : \E i \in 1 .. Len(chain.epochs) : es[j] = chain.epochs[i]
    BY <1>10
  <2> QED BY <2>1, <2>2, <2>3, <2>4, <2>5, ExtendFollows
<1> HIDE DEF next
<1>14. view'[m] = next
  BY <1>11 DEF Chains
<1> QED BY <1>11, <1>12, <1>13, <1>14

LEMMA EnrollView ==
    ASSUME Chains, NEW m \in Machines, Enroll(m)
    PROVE  view' = [view EXCEPT ![m] = NoChain] /\ UNCHANGED <<chain, place, log, tag, wire, halted>>
BY DEF Enroll, serviceVars

LEMMA ChainsStay ==
    ASSUME Chains, UNCHANGED <<chain, view>>
    PROVE  Chains' /\ Follows(chain, chain') /\ \A m \in Machines : KeyEpoch(view[m]) <= KeyEpoch(view'[m])
<1>1. Chains' /\ ChainWhole(chain) /\ \A m \in Machines : ChainWhole(view[m])
  BY DEF Chains
<1>2. Follows(chain, chain')
  BY <1>1, FollowsItself DEF ChainWhole
<1>3. \A m \in Machines : Follows(view[m], view[m])
  BY <1>1, FollowsItself DEF ChainWhole
<1>4. \A m \in Machines : KeyEpoch(view[m]) <= KeyEpoch(view[m])
  BY <1>1, <1>3, KeyEpochGrows
<1> QED BY <1>1, <1>2, <1>4

LEMMA InstallChains ==
    ASSUME Chains, NEW m \in Machines, InstallRecords(m)
    PROVE  Chains'
<1>1. ChainWhole(chain') /\ Follows(chain, chain') /\ Covered(chain') /\ UNCHANGED view
  <2>1. UNCHANGED view
    BY DEF InstallRecords, machineVars
  <2> QED BY <2>1, InstallGrows
<1>2. ASSUME NEW n \in Machines PROVE ChainWhole(view[n]) /\ Follows(view[n], chain')
  BY <1>1, FollowsOn DEF Chains, ChainWhole
<1> QED BY <1>1, <1>2 DEF Chains

LEMMA ViewChains ==
    ASSUME Chains, NEW m \in Machines, NEW ch, view' = [view EXCEPT ![m] = ch],
           ChainWhole(ch), Follows(ch, chain), UNCHANGED chain
    PROVE  Chains' /\ \A n \in Machines : view'[n] = IF n = m THEN ch ELSE view[n]
<1>1. view' = [n \in Machines |-> IF n = m THEN ch ELSE view[n]]
  BY DEF Chains
<1>2. view' = [n \in Machines |-> view'[n]]
  BY <1>1
<1> QED BY <1>1, <1>2 DEF Chains

-----------------------------------------------------------------------------
(***************************************************************************)
(* What the log holds, by the epoch record each envelope comes after.       *)
(***************************************************************************)
\* The newest record placed before a position.
Newest(i, seq) ==
    /\ i \in 1 .. Len(place) /\ place[i] < seq
    /\ \A j \in 1 .. Len(place) : place[j] < seq => j <= i

Judged ==
    /\ \E S : log \in Seq(S)
    /\ place \in Seq(Nat) /\ Len(place) = Len(chain.epochs)
    /\ \A i \in 1 .. Len(place) : place[i] <= Len(log)
    /\ \A seq \in 1 .. Len(log) : \E i \in 1 .. Len(place) :
          /\ Newest(i, seq) /\ log[seq].epoch = chain.epochs[i].epoch
          /\ log[seq].device \in AuthorizedAt(chain, chain.epochs[i].head)

Lengths ==
    /\ Len(log) \in Nat /\ DOMAIN log = 1 .. Len(log)
    /\ Len(place) \in Nat /\ DOMAIN place = 1 .. Len(place)

LEMMA JudgedLengths == Judged => Lengths
BY DEF Judged, Lengths

LEMMA InitJudged == Init => Judged
<1> SUFFICES ASSUME Init PROVE Judged
  OBVIOUS
<1>1. log = <<>> /\ place = [i \in DOMAIN Start.epochs |-> 0] /\ chain = Start
  BY DEF Init
<1>2. Start.epochs \in Seq(EpochRecords)
  BY StartVerifies
<1>3. place \in Seq(Nat) /\ Len(place) = Len(chain.epochs) /\ \A i \in 1 .. Len(place) : place[i] = 0
  BY <1>1, <1>2
<1>4. log \in Seq({}) /\ Len(log) = 0
  BY <1>1
<1>5. \A seq \in 1 .. 0 : FALSE
  OBVIOUS
<1> QED BY <1>3, <1>4, <1>5 DEF Judged

\* What the service accepts it judges by the chain of the moment: everybody who is authorized is a
\* member at the head of the newest record.
LEMMA AcceptJudged ==
    ASSUME Judged, Chains, NEW e, CheckNewPush(e), log' = Append(log, e), UNCHANGED <<chain, place>>
    PROVE  Judged'
<1> DEFINE n == Len(place)
           seq == Len(log) + 1
<1>1. PICK S : log \in Seq(S)
  BY DEF Judged
<1>2. n \in Nat /\ n = Len(chain.epochs) /\ seq \in Nat /\ Len(log) \in Nat /\ place \in Seq(Nat)
  BY JudgedLengths DEF Judged, Lengths
<1>3. /\ log' \in Seq(S \union {e}) /\ Len(log') = seq /\ log'[seq] = e
      /\ \A i \in 1 .. Len(log) : log'[i] = log[i]
  BY <1>1
<1>4. /\ IsChain(chain) /\ StepsWhole(chain) /\ EpochsWhole(chain) /\ Covered(chain)
      /\ Len(chain.steps) \in Nat
  BY ChainLengths DEF Chains, ChainWhole
<1>5. e.device \in AuthorizedAt(chain, Version(chain)) /\ e.epoch = KeyEpoch(chain)
  BY DEF CheckNewPush, Authorized
<1>6. Len(chain.steps) # 0
  <2>1. PICK i \in 1 .. Version(chain) : TRUE
    BY <1>5, AddedIs DEF AuthorizedAt
  <2> QED BY <1>4, <2>1 DEF Version
<1>7. n # 0 /\ chain.epochs[n].head = Version(chain) /\ e.epoch = chain.epochs[n].epoch
  <2>1. chain.steps # <<>> /\ Last(chain.epochs) = chain.epochs[n] /\ (chain.epochs # <<>> <=> n # 0)
    BY <1>2, <1>4, <1>6, ChainLengths DEF Last
  <2>2. n # 0 /\ chain.epochs[n].head = Version(chain)
    BY <1>4, <2>1 DEF Covered
  <2> QED BY <1>2, <1>4, <1>5, <2>2, KeyEpochIs
<1>8. n \in 1 .. n /\ Newest(n, seq)
  <2>1. place[n] <= Len(log) /\ place[n] \in Nat
    BY <1>2, <1>7 DEF Judged
  <2> QED BY <1>2, <1>7, <2>1 DEF Newest
<1>9. ASSUME NEW s \in 1 .. seq
      PROVE  \E i \in 1 .. Len(place) :
                /\ Newest(i, s) /\ log'[s].epoch = chain.epochs[i].epoch
                /\ log'[s].device \in AuthorizedAt(chain, chain.epochs[i].head)
  <2>1. CASE s = seq
    BY <1>3, <1>5, <1>7, <1>8, <2>1
  <2>2. CASE s # seq
    <3>1. s \in 1 .. Len(log)
      BY <1>2, <2>2
    <3> QED BY <1>3, <3>1 DEF Judged
  <2> QED BY <2>1, <2>2
<1>10. \A i \in 1 .. Len(place) : place[i] <= Len(log')
  <2>1. \A i \in 1 .. Len(place) : place[i] <= Len(log) /\ place[i] \in Nat
    BY <1>2 DEF Judged
  <2> QED BY <1>2, <1>3, <2>1
<1>11. \A i, s : Newest(i, s)' <=> Newest(i, s)
  BY DEF Newest
<1> HIDE DEF n, seq
<1>12. /\ \E T : log' \in Seq(T)
       /\ place' = place /\ chain' = chain /\ Len(log') = seq
  BY <1>3
<1>13. \A s \in 1 .. Len(log') : \E i \in 1 .. Len(place') :
          /\ Newest(i, s)' /\ log'[s].epoch = chain'.epochs[i].epoch
          /\ log'[s].device \in AuthorizedAt(chain', chain'.epochs[i].head)
  BY <1>9, <1>11, <1>12
<1> QED BY <1>2, <1>10, <1>12, <1>13 DEF Judged, n

\* A record that is installed comes before no envelope that is in the log.
LEMMA InstallJudged ==
    ASSUME Judged, Chains, NEW m \in Machines, InstallRecords(m)
    PROVE  Judged'
<1>1. /\ ChainWhole(chain') /\ Follows(chain, chain') /\ Len(chain'.epochs) = Len(chain.epochs) + 1
      /\ ChainWhole(chain)
  BY InstallGrows DEF Chains
<1>2. UNCHANGED log /\ place' = Append(place, Len(log))
  BY Zenon DEF InstallRecords
<1> DEFINE n == Len(place)
<1>3. /\ n \in Nat /\ n = Len(chain.epochs) /\ Len(log) \in Nat /\ place \in Seq(Nat)
  BY JudgedLengths DEF Judged, Lengths
<1>4. /\ place' \in Seq(Nat) /\ Len(place') = n + 1 /\ place'[n + 1] = Len(log)
      /\ \A i \in 1 .. n : place'[i] = place[i]
  BY <1>2, <1>3
<1>5. \A i \in 1 .. n + 1 : i \in 1 .. n \/ i = n + 1
  BY <1>3
<1>6. \A i \in 1 .. n + 1 : place'[i] <= Len(log')
  BY <1>2, <1>3, <1>4, <1>5 DEF Judged
<1>7. ASSUME NEW seq \in 1 .. Len(log)
      PROVE  \E i \in 1 .. n + 1 :
                /\ Newest(i, seq)' /\ log[seq].epoch = chain'.epochs[i].epoch
                /\ log[seq].device \in AuthorizedAt(chain', chain'.epochs[i].head)
  <2>1. PICK i \in 1 .. n : /\ Newest(i, seq) /\ log[seq].epoch = chain.epochs[i].epoch
                            /\ log[seq].device \in AuthorizedAt(chain, chain.epochs[i].head)
    BY DEF Judged
  <2>2. i \in 1 .. n + 1 /\ chain'.epochs[i] = chain.epochs[i]
    BY <1>1, <1>3 DEF Follows
  <2>3. chain.epochs[i].head \in Nat /\ chain.epochs[i].head <= Len(chain.steps)
    <3>1. EpochsWhole(chain) /\ IsChain(chain)
      BY <1>1 DEF ChainWhole
    <3>2. chain.epochs[i].head \in 1 .. Len(chain.steps)
      BY <1>3, <2>1, <3>1 DEF EpochsWhole
    <3> QED BY <3>1, <3>2, ChainLengths
  <2>4. AuthorizedAt(chain', chain.epochs[i].head) = AuthorizedAt(chain, chain.epochs[i].head)
    BY <1>1, <2>3, FollowsMembers DEF ChainWhole
  <2>5. Newest(i, seq)'
    <3>1. ~(Len(log) < seq)
      BY <1>3
    <3>2. place[i] < seq /\ \A j \in 1 .. n : place[j] < seq => j <= i
      BY <2>1 DEF Newest
    <3>3. i \in 1 .. Len(place') /\ place'[i] < seq
      BY <1>4, <2>1, <2>2, <3>2
    <3>4. \A j \in 1 .. n + 1 : place'[j] < seq => j <= i
      BY <1>4, <1>5, <3>1, <3>2
    <3> QED BY <1>4, <3>3, <3>4 DEF Newest
  <2> QED BY <2>1, <2>2, <2>4, <2>5
<1>8. Len(place') = Len(chain'.epochs) /\ \E S : log' \in Seq(S)
  BY <1>1, <1>2, <1>3, <1>4 DEF Judged
<1> HIDE DEF n
<1> QED BY <1>2, <1>4, <1>6, <1>7, <1>8 DEF Judged

LEMMA JudgedStays ==
    ASSUME Judged, UNCHANGED <<chain, place, log>>
    PROVE  Judged'
BY DEF Judged, Newest

\* The record before a position is the newest one placed before it.
LEMMA RecordBeforeIs ==
    ASSUME Judged, NEW seq, NEW i, Newest(i, seq)
    PROVE  RecordBefore(seq) = i
<1>1. DOMAIN place = 1 .. Len(place) /\ Len(place) \in Nat
  BY JudgedLengths DEF Lengths
<1>2. \A k \in 1 .. Len(place) :
         (place[k] < seq /\ \A j \in 1 .. Len(place) : place[j] < seq => j <= k) => k = i
  BY <1>1 DEF Newest
<1>3. /\ i \in DOMAIN place /\ place[i] < seq
      /\ \A j \in DOMAIN place : place[j] < seq => j <= i
  BY <1>1 DEF Newest
<1>4. (CHOOSE k \in DOMAIN place : place[k] < seq /\ \A j \in DOMAIN place : place[j] < seq => j <= k) = i
  BY <1>1, <1>2, <1>3
<1> QED BY <1>4 DEF RecordBefore

\* What every member reads.
LEMMA ReadByMembers == Judged /\ Chains => MembersRead
<1> SUFFICES ASSUME Judged, Chains, NEW m \in Machines, NEW seq \in DOMAIN log,
                    RecordBefore(seq) <= Len(view[m].epochs)
             PROVE  Verdict(m, seq) =
                      IF device[m] \in MembersIn(view[m], chain.epochs[RecordBefore(seq)].epoch)
                      THEN "valid" ELSE "no key"
  BY DEF MembersRead
<1>1. PICK i \in 1 .. Len(place) :
        /\ Newest(i, seq) /\ log[seq].epoch = chain.epochs[i].epoch
        /\ log[seq].device \in AuthorizedAt(chain, chain.epochs[i].head)
  BY JudgedLengths DEF Judged, Lengths
<1>2. RecordBefore(seq) = i
  BY <1>1, RecordBeforeIs
<1>3. ChainWhole(view[m]) /\ Follows(view[m], chain) /\ IsChain(view[m]) /\ IsChain(chain)
  BY DEF Chains, ChainWhole
<1>4. i \in 1 .. Len(view[m].epochs) /\ view[m].epochs[i] = chain.epochs[i]
      /\ Len(view[m].epochs) \in Nat /\ i <= Len(view[m].epochs)
  <2>1. i \in Nat /\ i >= 1 /\ Len(view[m].epochs) \in Nat /\ i <= Len(view[m].epochs)
    BY <1>2, <1>3, ChainLengths, JudgedLengths DEF Lengths
  <2> QED BY <1>3, <2>1 DEF Follows
<1> DEFINE inForce == view[m].epochs[i]
           members == MembersIn(view[m], chain.epochs[i].epoch)
<1>5. inForce.epoch \in KeysOf(view[m], device[m]) <=> device[m] \in members
  BY <1>3, <1>4, KeysAreMembers
<1>6. log[seq].epoch = inForce.epoch /\ log[seq].device \in AuthorizedAt(view[m], inForce.head)
  <2>1. inForce.head \in Nat /\ inForce.head <= Len(view[m].steps)
    BY <1>3, <1>4, ChainLengths DEF ChainWhole, EpochsWhole
  <2>2. AuthorizedAt(view[m], inForce.head) = AuthorizedAt(chain, inForce.head)
    BY <1>3, <2>1, FollowsMembers
  <2> QED BY <1>1, <1>4, <2>2
<1>7. Verdict(m, seq) =
        CASE i > Len(view[m].epochs) -> "chain behind"
          [] i <= Len(view[m].epochs) ->
                CASE log[seq].epoch # inForce.epoch -> "invalid"
                  [] /\ log[seq].epoch = inForce.epoch
                     /\ inForce.epoch \notin KeysOf(view[m], device[m]) -> "no key"
                  [] /\ log[seq].epoch = inForce.epoch
                     /\ inForce.epoch \in KeysOf(view[m], device[m]) ->
                        IF log[seq].device \in AuthorizedAt(view[m], inForce.head)
                        THEN "valid" ELSE "invalid"
  BY <1>2 DEF Verdict
<1> HIDE DEF inForce, members
<1>8. ~(i > Len(view[m].epochs))
  BY <1>4
<1>9. Verdict(m, seq) = IF device[m] \in members THEN "valid" ELSE "no key"
  <2>1. CASE device[m] \in members
    BY <1>4, <1>5, <1>6, <1>7, <1>8, <2>1
  <2>2. CASE device[m] \notin members
    BY <1>4, <1>5, <1>6, <1>7, <1>8, <2>2
  <2> QED BY <2>1, <2>2
<1> QED BY <1>2, <1>9 DEF members

-----------------------------------------------------------------------------
(***************************************************************************)
(* An envelope that was given up can never be accepted.                     *)
(***************************************************************************)
\* Of an epoch before the one in force, on a base behind the head, or by a device that is gone.
Stale(e, ch, head) ==
    \/ e.epoch < KeyEpoch(ch)
    \/ e.base < head
    \/ e.device \in Revoked(ch, Version(ch))

Numbered(e) == e.epoch \in Nat /\ e.base \in Nat

\* An envelope of the outbox is stale, or its machine is still the device that sealed it and has
\* not gone back behind its epoch.
Current(e, dev, seen, ch, head) ==
    /\ Numbered(e) /\ e.device \in Added(ch, Version(ch))
    /\ Stale(e, ch, head) \/ (e.device = dev /\ e.epoch <= KeyEpoch(seen))

\* The machine of the command has saved this envelope.
Ours(entries, e) ==
    entries[e.command].step \in {"saved", "bound"} /\ entries[e.command].envelope = e

Owned ==
    /\ \A i \in 1 .. Len(log) : log[i].command \in Commands /\ Ours(box, log[i])
    /\ \A i, j \in 1 .. Len(log) : log[i].command = log[j].command => i = j
    /\ \A p \in wire : /\ p.envelope.command \in Commands /\ Numbered(p.envelope)
                       /\ Ours(box, p.envelope) \/ Stale(p.envelope, chain, Len(log))
    /\ \A c \in Commands : box[c].step \in {"verified", "saved"} =>
          Current(box[c].envelope, device[Home[c]], view[Home[c]], chain, Len(log))

Machined ==
    /\ device = [m \in Machines |-> device[m]]
    /\ pulled = [m \in Machines |-> pulled[m]]
    /\ \A m \in Machines : pulled[m] \in Nat /\ pulled[m] <= Len(log)

LEMMA VersionGrows ==
    ASSUME NEW ch, NEW next, IsChain(ch), IsChain(next), Follows(ch, next)
    PROVE  /\ Added(ch, Version(ch)) \subseteq Added(next, Version(next))
           /\ Revoked(ch, Version(ch)) \subseteq Revoked(next, Version(next))
<1>1. Len(ch.steps) \in Nat /\ Len(next.steps) \in Nat /\ Len(ch.steps) <= Len(next.steps)
  BY ChainLengths DEF Follows
<1>2. /\ Added(ch, Len(ch.steps)) = Added(next, Len(ch.steps))
      /\ Revoked(ch, Len(ch.steps)) = Revoked(next, Len(ch.steps))
  BY <1>1, FollowsMembers
<1> QED BY <1>1, <1>2, AddedGrows DEF Version

LEMMA StaleStays ==
    ASSUME NEW ch, NEW next, ChainWhole(ch), ChainWhole(next), Follows(ch, next),
           NEW n \in Nat, NEW k \in Nat, n <= k, NEW e, Numbered(e), Stale(e, ch, n)
    PROVE  Stale(e, next, k)
<1>1. IsChain(ch) /\ IsChain(next) /\ EpochsWhole(ch) /\ EpochsWhole(next)
  BY DEF ChainWhole
<1>2. KeyEpoch(ch) <= KeyEpoch(next)
  BY KeyEpochGrows
<1>3. KeyEpoch(ch) \in Nat /\ KeyEpoch(next) \in Nat
  BY <1>1, KeyEpochIs
<1>4. Revoked(ch, Version(ch)) \subseteq Revoked(next, Version(next))
  BY <1>1, VersionGrows
<1>5. CASE e.epoch < KeyEpoch(ch)
  BY <1>2, <1>3, <1>5 DEF Stale, Numbered
<1>6. CASE e.base < n
  BY <1>6 DEF Stale, Numbered
<1>7. CASE e.device \in Revoked(ch, Version(ch))
  BY <1>4, <1>7 DEF Stale
<1> QED BY <1>5, <1>6, <1>7 DEF Stale

\* A machine stays what it was and sees no less, or it was a device that is gone.
Goes(dev, seen, dev2, seen2, ch) ==
    \/ dev2 = dev /\ ChainWhole(seen) /\ ChainWhole(seen2) /\ KeyEpoch(seen) <= KeyEpoch(seen2)
    \/ dev \notin Authorized(ch)

LEMMA CurrentStays ==
    ASSUME NEW ch, NEW next, ChainWhole(ch), ChainWhole(next), Follows(ch, next),
           NEW n \in Nat, NEW k \in Nat, n <= k,
           NEW dev, NEW seen, NEW dev2, NEW seen2, Goes(dev, seen, dev2, seen2, ch),
           NEW e, Current(e, dev, seen, ch, n)
    PROVE  Current(e, dev2, seen2, next, k)
<1>1. Numbered(e) /\ e.device \in Added(next, Version(next))
  BY VersionGrows DEF Current, ChainWhole
<1>2. CASE Stale(e, ch, n)
  BY <1>1, <1>2, StaleStays DEF Current
<1>3. CASE ~Stale(e, ch, n) /\ dev \notin Authorized(ch)
  <2>1. e.device = dev /\ e.device \in Added(ch, Version(ch))
    BY <1>3 DEF Current
  <2> QED BY <1>3, <2>1 DEF Stale, Authorized, AuthorizedAt
<1>4. CASE ~Stale(e, ch, n) /\ dev2 = dev /\ ChainWhole(seen) /\ ChainWhole(seen2)
           /\ KeyEpoch(seen) <= KeyEpoch(seen2)
  <2>1. e.device = dev /\ e.epoch <= KeyEpoch(seen) /\ e.epoch \in Nat
    BY <1>4 DEF Current, Numbered
  <2>2. KeyEpoch(seen) \in Nat /\ KeyEpoch(seen2) \in Nat
    BY <1>4, KeyEpochIs DEF ChainWhole
  <2> QED BY <1>1, <1>4, <2>1, <2>2 DEF Current
<1> QED BY <1>2, <1>3, <1>4 DEF Goes

\* A step keeps what is owned when the machines, the log and the chain only go on, what was saved
\* stays saved unless it is given up as stale, and what is new is owned.
LEMMA OwnedStays ==
    ASSUME Owned, Chains, ChainWhole(chain'), Follows(chain, chain'), Home \in [Commands -> Machines],
           Len(log) \in Nat, Len(log') \in Nat, Len(log) <= Len(log'),
           \A m \in Machines : Goes(device[m], view[m], device'[m], view'[m], chain),
           \A i \in 1 .. Len(log') :
              \/ i \in 1 .. Len(log) /\ log'[i] = log[i]
              \/ log'[i].command \in Commands /\ Ours(box', log'[i])
                 /\ \A j \in 1 .. Len(log') : log'[j].command = log'[i].command => j = i,
           \A p \in wire' : \/ p \in wire
                            \/ /\ p.envelope.command \in Commands /\ Numbered(p.envelope)
                               /\ Ours(box', p.envelope),
           \A c \in Commands : box[c].step \in {"saved", "bound"} =>
              \/ box'[c].step \in {"saved", "bound"} /\ box'[c].envelope = box[c].envelope
              \/ /\ Stale(box[c].envelope, chain, Len(log))
                 /\ \A i \in 1 .. Len(log) : log[i].command # c,
           \A c \in Commands : box'[c].step \in {"verified", "saved"} =>
              \/ box[c].step \in {"verified", "saved"} /\ box'[c].envelope = box[c].envelope
              \/ Current(box'[c].envelope, device'[Home[c]], view'[Home[c]], chain', Len(log'))
    PROVE  Owned'
<1>1. ChainWhole(chain)
  BY DEF Chains
<1>2. ASSUME NEW i \in 1 .. Len(log)
      PROVE  (box'[log[i].command].step \in {"saved", "bound"}
                /\ box'[log[i].command].envelope = log[i])
  <2>1. log[i].command \in Commands /\ Ours(box, log[i])
    BY DEF Owned
  <2> QED BY <2>1 DEF Ours
<1>3. \A i \in 1 .. Len(log') : log'[i].command \in Commands /\ Ours(box', log'[i])
  <2> SUFFICES ASSUME NEW i \in 1 .. Len(log')
               PROVE  log'[i].command \in Commands /\ Ours(box', log'[i])
    OBVIOUS
  <2>1. CASE i \in 1 .. Len(log) /\ log'[i] = log[i]
    BY <1>2, <2>1 DEF Ours, Owned
  <2> QED BY <2>1
<1>4. \A i, j \in 1 .. Len(log') : log'[i].command = log'[j].command => i = j
  BY DEF Owned
<1>5. ASSUME NEW p \in wire'
      PROVE  /\ p.envelope.command \in Commands /\ Numbered(p.envelope)
             /\ Ours(box', p.envelope) \/ Stale(p.envelope, chain', Len(log'))
  <2>1. CASE p \in wire
    <3>1. /\ p.envelope.command \in Commands /\ Numbered(p.envelope)
          /\ Ours(box, p.envelope) \/ Stale(p.envelope, chain, Len(log))
      BY <2>1 DEF Owned
    <3>2. CASE Stale(p.envelope, chain, Len(log))
      BY <1>1, <3>1, <3>2, StaleStays
    <3>3. CASE Ours(box, p.envelope) /\ ~Stale(p.envelope, chain, Len(log))
      BY <3>1, <3>3 DEF Ours
    <3> QED BY <3>1, <3>2, <3>3
  <2> QED BY <2>1
<1>6. ASSUME NEW c \in Commands, box'[c].step \in {"verified", "saved"}
      PROVE  Current(box'[c].envelope, device'[Home[c]], view'[Home[c]], chain', Len(log'))
  <2>1. CASE box[c].step \in {"verified", "saved"} /\ box'[c].envelope = box[c].envelope
    <3>1. Current(box[c].envelope, device[Home[c]], view[Home[c]], chain, Len(log))
      BY <2>1 DEF Owned
    <3>2. Home[c] \in Machines
      OBVIOUS
    <3>3. Goes(device[Home[c]], view[Home[c]], device'[Home[c]], view'[Home[c]], chain)
      BY <3>2
    <3>4. Current(box[c].envelope, device'[Home[c]], view'[Home[c]], chain', Len(log'))
      BY <1>1, <3>1, <3>3, CurrentStays
    <3> QED BY <2>1, <3>4
  <2> QED BY <1>6, <2>1
<1> QED BY <1>3, <1>4, <1>5, <1>6 DEF Owned

LEMMA BoxOwned ==
    ASSUME Owned, Chains, Judged, ChainWhole(chain'), Follows(chain, chain'), UNCHANGED <<log, wire>>,
           \A m \in Machines : Goes(device[m], view[m], device'[m], view'[m], chain),
           \A c \in Commands : box[c].step \in {"saved", "bound"} =>
              \/ box'[c].step \in {"saved", "bound"} /\ box'[c].envelope = box[c].envelope
              \/ /\ Stale(box[c].envelope, chain, Len(log))
                 /\ \A i \in 1 .. Len(log) : log[i].command # c,
           \A c \in Commands : box'[c].step \in {"verified", "saved"} =>
              \/ box[c].step \in {"verified", "saved"} /\ box'[c].envelope = box[c].envelope
              \/ Current(box'[c].envelope, device'[Home[c]], view'[Home[c]], chain', Len(log'))
    PROVE  Owned'
<1>1. Home \in [Commands -> Machines]
  BY MachinesAreEnrolled
<1>2. Len(log) \in Nat /\ Len(log') \in Nat /\ Len(log) <= Len(log')
  BY JudgedLengths DEF Lengths
<1>3. \A i \in 1 .. Len(log') : i \in 1 .. Len(log) /\ log'[i] = log[i]
  OBVIOUS
<1>4. \A p \in wire' : p \in wire
  OBVIOUS
<1> QED BY <1>1, <1>2, <1>3, <1>4, OwnedStays

LEMMA StayingGoes ==
    ASSUME Chains, UNCHANGED <<chain, device, view>>
    PROVE  /\ ChainWhole(chain') /\ Follows(chain, chain')
           /\ \A m \in Machines : Goes(device[m], view[m], device'[m], view'[m], chain)
<1>1. /\ ChainWhole(chain') /\ Follows(chain, chain')
      /\ \A m \in Machines : KeyEpoch(view[m]) <= KeyEpoch(view'[m])
  BY ChainsStay DEF Chains
<1>2. \A m \in Machines : ChainWhole(view[m]) /\ view'[m] = view[m] /\ device'[m] = device[m]
  BY DEF Chains
<1> QED BY <1>1, <1>2 DEF Goes

LEMMA EntryAt ==
    ASSUME BoxIsWhole, NEW c \in Commands, NEW entry, box' = [box EXCEPT ![c] = entry]
    PROVE  \A d \in Commands : box'[d] = IF d = c THEN entry ELSE box[d]
BY DEF BoxIsWhole

\* A device seals under an epoch it is a member of, in the chain its machine has seen.
LEMMA SealCurrent ==
    ASSUME Chains, Judged, Machined, NEW c \in Commands, Seal(c)
    PROVE  \E e, entry : /\ box' = [box EXCEPT ![c] = entry] /\ entry.envelope = e
                         /\ entry.step = "verified"
                         /\ Current(e, device[Home[c]], view[Home[c]], chain, Len(log))
<1> DEFINE m == Home[c]
           seen == view[m]
           epoch == KeyEpoch(seen)
           e == [command |-> c, device |-> device[m], seal |-> box[c].seals + 1,
                 epoch |-> epoch, base |-> pulled[m]]
           entry == [step |-> "verified", seals |-> e.seal, envelope |-> e, seq |-> 0]
<1>1. /\ epoch \in KeysOf(seen, device[m]) /\ device[m] \in MembersIn(seen, epoch)
      /\ box' = [box EXCEPT ![c] = entry]
  BY DEF Seal
<1>2. m \in Machines
  BY MachinesAreEnrolled
<1>3. ChainWhole(seen) /\ Follows(seen, chain) /\ IsChain(seen) /\ IsChain(chain)
  BY <1>2 DEF Chains, ChainWhole
<1> HIDE DEF m, seen
<1>4. PICK i \in 1 .. Len(seen.epochs) : seen.epochs[i].epoch = epoch
  BY <1>1, <1>3, KeysAreSealed DEF Sealed
<1>5. PICK last \in 1 .. Len(seen.epochs) :
        MembersIn(seen, epoch) = AuthorizedAt(seen, seen.epochs[last].head)
  BY <1>3, <1>4, MembersOfLast
<1> DEFINE h == seen.epochs[last].head
<1>6. h \in Nat /\ h <= Len(seen.steps) /\ Len(seen.steps) \in Nat
  BY <1>3, ChainLengths DEF ChainWhole, EpochsWhole
<1>7. device[m] \in Added(chain, h)
  <2>1. device[m] \in Added(seen, h)
    BY <1>1, <1>5 DEF AuthorizedAt
  <2> QED BY <1>3, <1>6, <2>1, FollowsMembers
<1>8. device[m] \in Added(chain, Version(chain))
  <2>1. Len(chain.steps) \in Nat /\ h <= Len(chain.steps)
    BY <1>3, <1>6, ChainLengths DEF Follows
  <2> QED BY <1>6, <1>7, <2>1, AddedGrows DEF Version
<1>9. epoch \in Nat /\ epoch <= epoch
  BY <1>3, KeyEpochIs DEF ChainWhole
<1>10. pulled[m] \in Nat
  BY <1>2 DEF Machined
<1>11. e.device = device[m] /\ e.epoch = epoch /\ e.base = pulled[m]
  OBVIOUS
<1>12. entry.envelope = e /\ entry.step = "verified"
  OBVIOUS
<1> HIDE DEF e, entry, epoch
<1>13. Current(e, device[m], seen, chain, Len(log))
  BY <1>8, <1>9, <1>10, <1>11 DEF Current, Numbered, epoch
<1> QED BY <1>1, <1>12, <1>13 DEF m, seen

LEMMA SealOwned ==
    ASSUME PushInv, Owned, Chains, Judged, Machined, NEW c \in Commands, Seal(c)
    PROVE  Owned'
<1>1. PICK e, entry : /\ box' = [box EXCEPT ![c] = entry] /\ entry.envelope = e
                      /\ entry.step = "verified"
                      /\ Current(e, device[Home[c]], view[Home[c]], chain, Len(log))
  BY SealCurrent
<1>2. box[c].step = "committed" /\ UNCHANGED <<log, wire, chain, device, view>>
  BY Zenon DEF Seal, Holds, serviceVars, machineVars
<1>3. \A d \in Commands : box'[d] = IF d = c THEN entry ELSE box[d]
  BY <1>1, EntryAt DEF PushInv
<1>4. \A d \in Commands : box[d].step \in {"saved", "bound"} =>
          box'[d].step \in {"saved", "bound"} /\ box'[d].envelope = box[d].envelope
  BY <1>2, <1>3
<1>5. \A d \in Commands : box'[d].step \in {"verified", "saved"} =>
          \/ box[d].step \in {"verified", "saved"} /\ box'[d].envelope = box[d].envelope
          \/ Current(box'[d].envelope, device'[Home[d]], view'[Home[d]], chain', Len(log'))
  BY <1>1, <1>2, <1>3
<1>6. /\ ChainWhole(chain') /\ Follows(chain, chain')
      /\ \A m \in Machines : Goes(device[m], view[m], device'[m], view'[m], chain)
  BY <1>2, StayingGoes
<1> QED BY <1>2, <1>4, <1>5, <1>6, BoxOwned

LEMMA PersistOwned ==
    ASSUME PushInv, Owned, Chains, Judged, NEW c \in Commands, Persist(c)
    PROVE  Owned'
<1> DEFINE entry == [box[c] EXCEPT !.step = "saved"]
<1>1. box[c].step = "verified" /\ UNCHANGED <<log, wire, chain, device, view>>
      /\ box' = [box EXCEPT ![c] = entry]
  BY DEF Persist, Holds, serviceVars, machineVars
<1>2. entry.envelope = box[c].envelope
  <2>1. PICK step, seals, envelope, seq : box[c] = [step |-> step, seals |-> seals,
                                                    envelope |-> envelope, seq |-> seq]
    BY DEF PushInv, BoxIsWhole, IsEntry
  <2>2. entry = [step |-> "saved", seals |-> seals, envelope |-> envelope, seq |-> seq]
    BY <2>1
  <2> QED BY <2>1, <2>2
<1> HIDE DEF entry
<1>3. \A d \in Commands : box'[d] = IF d = c THEN entry ELSE box[d]
  BY <1>1, EntryAt DEF PushInv
<1>4. \A d \in Commands : box[d].step \in {"saved", "bound"} =>
          box'[d].step \in {"saved", "bound"} /\ box'[d].envelope = box[d].envelope
  BY <1>1, <1>3
<1>5. \A d \in Commands : box'[d].step \in {"verified", "saved"} =>
          box[d].step \in {"verified", "saved"} /\ box'[d].envelope = box[d].envelope
  BY <1>1, <1>2, <1>3
<1>6. /\ ChainWhole(chain') /\ Follows(chain, chain')
      /\ \A m \in Machines : Goes(device[m], view[m], device'[m], view'[m], chain)
  BY <1>1, StayingGoes
<1> QED BY <1>1, <1>4, <1>5, <1>6, BoxOwned

\* A saved envelope is given up only when it is stale, and its command is in no log.
LEMMA SealAgainOwned ==
    ASSUME PushInv, Owned, Chains, Judged, Machined, NEW c \in Commands, SealAgain(c)
    PROVE  Owned'
<1> DEFINE e == box[c].envelope
           m == Home[c]
<1>1. /\ box[c].step = "saved" /\ UNCHANGED <<log, wire, chain, device, view>>
      /\ box' = [box EXCEPT ![c] = Unsealed(box[c])]
      /\ e.epoch # KeyEpoch(view[m]) \/ e.base < pulled[m]
      /\ DecidePush(e) = "unknown"
  BY DEF SealAgain, Holds, serviceVars, machineVars
<1>2. m \in Machines
  BY MachinesAreEnrolled
<1>3. Unsealed(box[c]).step = "committed" /\ e.command = c
  BY <1>1, UnsealedEntry DEF PushInv, BoxIsWhole, IsEntry
<1>4. \A i \in 1 .. Len(log) : log[i].command # c
  <2>1. \A r \in index : r.command # e.command
    BY <1>1, UnknownIsNew
  <2>2. \A i \in 1 .. Len(log) : Accepted(log[i], i) \in index
    BY JudgedLengths DEF PushInv, LogIsWhole, Lengths
  <2>3. \A x, i : Accepted(x, i).command = x.command
    BY DEF Accepted
  <2> QED BY <1>3, <2>1, <2>2, <2>3
<1>5. Current(e, device[m], view[m], chain, Len(log))
  BY <1>1 DEF Owned
<1>6. Stale(e, chain, Len(log))
  <2> SUFFICES ASSUME ~Stale(e, chain, Len(log)) PROVE FALSE
    OBVIOUS
  <2> HIDE DEF e, m
  <2>1. e.epoch \in Nat /\ e.base \in Nat /\ e.epoch <= KeyEpoch(view[m])
    BY <1>5 DEF Current, Numbered
  <2>2. ChainWhole(view[m]) /\ ChainWhole(chain) /\ Follows(view[m], chain)
    BY <1>2 DEF Chains
  <2>3. /\ KeyEpoch(view[m]) \in Nat /\ KeyEpoch(chain) \in Nat
        /\ KeyEpoch(view[m]) <= KeyEpoch(chain)
    BY <2>2, KeyEpochIs, KeyEpochGrows DEF ChainWhole
  <2>4. CASE e.epoch # KeyEpoch(view[m])
    BY <2>1, <2>3, <2>4 DEF Stale
  <2>5. CASE e.base < pulled[m]
    <3>1. pulled[m] \in Nat /\ pulled[m] <= Len(log) /\ Len(log) \in Nat
      BY <1>2, JudgedLengths DEF Machined, Lengths
    <3> QED BY <2>1, <2>5, <3>1 DEF Stale
  <2> QED BY <1>1, <2>4, <2>5
<1>7. \A d \in Commands : box'[d] = IF d = c THEN Unsealed(box[c]) ELSE box[d]
  BY <1>1, EntryAt DEF PushInv
<1>8. \A d \in Commands : box[d].step \in {"saved", "bound"} =>
          \/ box'[d].step \in {"saved", "bound"} /\ box'[d].envelope = box[d].envelope
          \/ /\ Stale(box[d].envelope, chain, Len(log))
             /\ \A i \in 1 .. Len(log) : log[i].command # d
  BY <1>4, <1>6, <1>7
<1>9. \A d \in Commands : box'[d].step \in {"verified", "saved"} =>
          box[d].step \in {"verified", "saved"} /\ box'[d].envelope = box[d].envelope
  BY <1>3, <1>7
<1>10. /\ ChainWhole(chain') /\ Follows(chain, chain')
       /\ \A n \in Machines : Goes(device[n], view[n], device'[n], view'[n], chain)
  BY <1>1, StayingGoes
<1>11. UNCHANGED <<log, wire>>
  BY <1>1
<1> HIDE DEF e, m
<1> QED BY <1>8, <1>9, <1>10, <1>11, BoxOwned

LEMMA UploadOwned ==
    ASSUME PushInv, Owned, Chains, Judged, NEW c \in Commands, Upload(c)
    PROVE  Owned'
<1>1. /\ box[c].step = "saved" /\ UNCHANGED <<log, box, chain, device, view>>
      /\ wire' = wire \union {[from |-> device[Home[c]], envelope |-> box[c].envelope]}
  BY DEF Upload, Holds, serviceVars, machineVars
<1>2. box[c].envelope.command = c
  BY <1>1 DEF PushInv, BoxIsWhole, IsEntry
<1>3. Numbered(box[c].envelope)
  BY <1>1 DEF Owned, Current
<1>4. \A p \in wire' : \/ p \in wire
                       \/ /\ p.envelope.command \in Commands /\ Numbered(p.envelope)
                          /\ Ours(box', p.envelope)
  BY <1>1, <1>2, <1>3 DEF Ours
<1>5. Home \in [Commands -> Machines]
  BY MachinesAreEnrolled
<1>6. Len(log) \in Nat /\ Len(log') \in Nat /\ Len(log) <= Len(log')
  BY <1>1, JudgedLengths DEF Lengths
<1>7. \A i \in 1 .. Len(log') : i \in 1 .. Len(log) /\ log'[i] = log[i]
  BY <1>1
<1>8. /\ ChainWhole(chain') /\ Follows(chain, chain')
      /\ \A m \in Machines : Goes(device[m], view[m], device'[m], view'[m], chain)
  BY <1>1, StayingGoes
<1>9. \A d \in Commands : box[d].step \in {"saved", "bound"} =>
          box'[d].step \in {"saved", "bound"} /\ box'[d].envelope = box[d].envelope
  BY <1>1
<1>10. \A d \in Commands : box'[d].step \in {"verified", "saved"} =>
          box[d].step \in {"verified", "saved"} /\ box'[d].envelope = box[d].envelope
  BY <1>1
<1> QED BY <1>4, <1>5, <1>6, <1>7, <1>8, <1>9, <1>10, OwnedStays

\* What is bound was saved, and stays what it was.
LEMMA BindKeeps ==
    ASSUME PushInv, NEW c \in Commands, NEW seq, box[c].step = "saved",
           box' = [box EXCEPT ![c] = Bound(box[c], seq)]
    PROVE  /\ \A d \in Commands : box[d].step \in {"saved", "bound"} =>
                 box'[d].step \in {"saved", "bound"} /\ box'[d].envelope = box[d].envelope
           /\ \A d \in Commands : box'[d].step \in {"verified", "saved"} =>
                 box[d].step \in {"verified", "saved"} /\ box'[d].envelope = box[d].envelope
<1>1. /\ Bound(box[c], seq).step = "bound" /\ Bound(box[c], seq).envelope = box[c].envelope
  BY BoundEntry DEF PushInv
<1> DEFINE entry == Bound(box[c], seq)
<1>2. entry.step = "bound" /\ entry.envelope = box[c].envelope /\ box' = [box EXCEPT ![c] = entry]
  BY <1>1
<1> HIDE DEF entry
<1>3. \A d \in Commands : box'[d] = IF d = c THEN entry ELSE box[d]
  BY <1>2, EntryAt DEF PushInv
<1> QED BY <1>2, <1>3

\* What a crash or an enrollment loses was not saved.
LEMMA LossKeeps ==
    ASSUME PushInv, NEW m \in Machines,
           box' = [c \in Commands |-> IF c \in Mine(m) /\ box[c].step = "verified"
                                      THEN Unsealed(box[c]) ELSE box[c]]
    PROVE  /\ \A d \in Commands : box[d].step \in {"saved", "bound"} =>
                 box'[d].step \in {"saved", "bound"} /\ box'[d].envelope = box[d].envelope
           /\ \A d \in Commands : box'[d].step \in {"verified", "saved"} =>
                 box[d].step \in {"verified", "saved"} /\ box'[d].envelope = box[d].envelope
<1>1. \A d \in Commands : Unsealed(box[d]).step = "committed"
  BY UnsealedEntry DEF PushInv
<1> QED BY <1>1

LEMMA CrashOwned ==
    ASSUME PushInv, Owned, Chains, Judged, NEW m \in Machines, Crash(m)
    PROVE  Owned'
<1>1. UNCHANGED <<log, wire, chain, device, view>>
      /\ box' = [c \in Commands |-> IF c \in Mine(m) /\ box[c].step = "verified"
                                    THEN Unsealed(box[c]) ELSE box[c]]
  BY DEF Crash, serviceVars, machineVars
<1>2. /\ ChainWhole(chain') /\ Follows(chain, chain')
      /\ \A n \in Machines : Goes(device[n], view[n], device'[n], view'[n], chain)
  BY <1>1, StayingGoes
<1> QED BY <1>1, <1>2, LossKeeps, BoxOwned

\* A machine enrolls again only when the device it was is gone.
LEMMA EnrollOwned ==
    ASSUME PushInv, Owned, Chains, Judged, Machined, NEW m \in Machines, Enroll(m)
    PROVE  Chains' /\ Owned' /\ Machined'
<1>1. /\ UNCHANGED <<log, wire, chain>> /\ device[m] \notin Authorized(chain)
      /\ view' = [view EXCEPT ![m] = NoChain] /\ pulled' = [pulled EXCEPT ![m] = Len(log)]
      /\ box' = [c \in Commands |-> IF c \in Mine(m) /\ box[c].step = "verified"
                                    THEN Unsealed(box[c]) ELSE box[c]]
  BY DEF Enroll, Credential, serviceVars
<1>2. PICK d : device' = [device EXCEPT ![m] = d]
  BY DEF Enroll
<1>3. ChainWhole(NoChain) /\ Follows(NoChain, chain)
  BY NoChainWhole DEF Chains, ChainWhole
<1>4. Chains' /\ \A n \in Machines : view'[n] = IF n = m THEN NoChain ELSE view[n]
  BY <1>1, <1>3, ViewChains
<1>5. \A n \in Machines : n # m => device'[n] = device[n]
  BY <1>2 DEF Machined
<1>6. ASSUME NEW n \in Machines
      PROVE  Goes(device[n], view[n], device'[n], view'[n], chain)
  <2>1. CASE n = m
    BY <1>1, <2>1 DEF Goes
  <2>2. CASE n # m
    <3>1. ChainWhole(view[n]) /\ Follows(view[n], view[n])
      BY FollowsItself DEF Chains, ChainWhole
    <3>2. KeyEpoch(view[n]) <= KeyEpoch(view[n])
      BY <3>1, KeyEpochGrows
    <3> QED BY <1>4, <1>5, <2>2, <3>1, <3>2 DEF Goes
  <2> QED BY <2>1, <2>2
<1>7. ChainWhole(chain') /\ Follows(chain, chain')
  BY <1>1, FollowsItself DEF Chains, ChainWhole
<1>8. Owned'
  BY <1>1, <1>6, <1>7, LossKeeps, BoxOwned
<1>9. Machined'
  <2>1. Len(log) \in Nat
    BY JudgedLengths DEF Lengths
  <2>2. device' = [n \in Machines |-> device'[n]] /\ pulled' = [n \in Machines |-> pulled'[n]]
    BY <1>1, <1>2 DEF Machined
  <2>3. \A n \in Machines : pulled'[n] \in Nat /\ pulled'[n] <= Len(log')
    BY <1>1, <2>1 DEF Machined
  <2> QED BY <2>2, <2>3 DEF Machined
<1> QED BY <1>4, <1>8, <1>9

LEMMA PullOwned ==
    ASSUME PushInv, Owned, Chains, Judged, Machined, NEW m \in Machines, Pull(m)
    PROVE  Owned' /\ Machined'
<1>1. UNCHANGED <<log, wire, chain, device, view>> /\ pulled[m] + 1 \in DOMAIN log
      /\ (UNCHANGED pulled \/ pulled' = [pulled EXCEPT ![m] = pulled[m] + 1])
  BY DEF Pull, serviceVars
<1>2. /\ \A d \in Commands : box[d].step \in {"saved", "bound"} =>
             box'[d].step \in {"saved", "bound"} /\ box'[d].envelope = box[d].envelope
      /\ \A d \in Commands : box'[d].step \in {"verified", "saved"} =>
             box[d].step \in {"verified", "saved"} /\ box'[d].envelope = box[d].envelope
  <2>1. CASE UNCHANGED box
    BY <2>1
  <2>2. CASE ~UNCHANGED box
    <3>1. PICK c \in Commands : /\ box[c].step = "saved"
                                /\ box' = [box EXCEPT ![c] = Bound(box[c], pulled[m] + 1)]
      BY <2>2, PullKeeps
    <3> QED BY <3>1, BindKeeps
  <2> QED BY <2>1, <2>2
<1>3. /\ ChainWhole(chain') /\ Follows(chain, chain')
      /\ \A n \in Machines : Goes(device[n], view[n], device'[n], view'[n], chain)
  BY <1>1, StayingGoes
<1>4. Owned'
  BY <1>1, <1>2, <1>3, BoxOwned
<1>5. Machined'
  <2>1. DOMAIN log = 1 .. Len(log) /\ Len(log) \in Nat /\ pulled[m] \in Nat
    BY JudgedLengths DEF Lengths, Machined
  <2>2. device' = [n \in Machines |-> device'[n]]
    BY <1>1 DEF Machined
  <2>3. CASE UNCHANGED pulled
    BY <1>1, <2>2, <2>3 DEF Machined
  <2>4. CASE pulled' = [pulled EXCEPT ![m] = pulled[m] + 1]
    <3>1. pulled' = [n \in Machines |-> pulled'[n]]
      BY <2>4 DEF Machined
    <3>2. \A n \in Machines : pulled'[n] \in Nat /\ pulled'[n] <= Len(log')
      BY <1>1, <2>1, <2>4 DEF Machined
    <3> QED BY <2>2, <3>1, <3>2 DEF Machined
  <2> QED BY <1>1, <2>3, <2>4
<1> QED BY <1>4, <1>5

\* What the service accepts is not stale, so it is what the machine has saved.
LEMMA PushOwned ==
    ASSUME PushInv, Owned, Chains, Judged, Machined, NEW p \in wire, Push(p)
    PROVE  Judged' /\ Owned' /\ Machined'
<1> DEFINE e == p.envelope
           c == p.envelope.command
<1>1. UNCHANGED <<wire, chain, place, device, view, pulled>> /\ c \in Commands
  BY DEF Push, PushInv, WireIsWhole
<1>2. /\ \A d \in Commands : box[d].step \in {"saved", "bound"} =>
             box'[d].step \in {"saved", "bound"} /\ box'[d].envelope = box[d].envelope
      /\ \A d \in Commands : box'[d].step \in {"verified", "saved"} =>
             box[d].step \in {"verified", "saved"} /\ box'[d].envelope = box[d].envelope
  <2>1. CASE UNCHANGED box
    BY <2>1
  <2>2. CASE ~UNCHANGED box
    <3>1. box[c].step = "saved" /\ box' = [box EXCEPT ![c] = Bound(box[c], PositionOf(e, index'))]
      BY <2>2 DEF Push, Holds
    <3> HIDE DEF c, e
    <3> QED BY <1>1, <3>1, BindKeeps
  <2> QED BY <2>1, <2>2
<1>3. /\ ChainWhole(chain') /\ Follows(chain, chain')
      /\ \A n \in Machines : Goes(device[n], view[n], device'[n], view'[n], chain)
  BY <1>1, StayingGoes
<1>4. Len(log) \in Nat /\ DOMAIN log = 1 .. Len(log)
  BY JudgedLengths DEF Lengths
<1>5. CASE UNCHANGED log
  <2>1. Judged'
    BY <1>1, <1>5, JudgedStays
  <2>2. Owned'
    BY <1>1, <1>2, <1>3, <1>5, BoxOwned
  <2>3. Machined'
    BY <1>1, <1>5 DEF Machined
  <2> QED BY <2>1, <2>2, <2>3
<1>6. CASE ~UNCHANGED log
  <2>1. Answer(p) = "accepted" /\ log' = Append(log, e)
    BY <1>6 DEF Push
  <2>2. DecidePush(e) = "unknown" /\ CheckNewPush(e) /\ e.base = Len(log)
    <3>1. DecidePush(e) # "accepted"
      BY DecidedApart
    <3> QED BY <2>1, <3>1 DEF Answer
  <2>3. Judged'
    BY <1>1, <2>1, <2>2, AcceptJudged
  <2>4. PICK S : log \in Seq(S)
    BY DEF Judged
  <2>5. /\ Len(log') = Len(log) + 1 /\ log'[Len(log) + 1] = e
        /\ \A i \in 1 .. Len(log) : log'[i] = log[i]
    BY <2>1, <2>4
  <2>6. ~Stale(e, chain, Len(log))
    <3>1. e.epoch = KeyEpoch(chain) /\ e.device \notin Revoked(chain, Version(chain))
      BY <2>2 DEF CheckNewPush, Authorized, AuthorizedAt
    <3>2. KeyEpoch(chain) \in Nat
      BY KeyEpochIs DEF Chains, ChainWhole
    <3> HIDE DEF e
    <3> QED BY <1>4, <2>2, <3>1, <3>2 DEF Stale
  <2>7. Ours(box, e)
    BY <2>6 DEF Owned
  <2>8. Ours(box', e)
    BY <1>1, <1>2, <2>7 DEF Ours
  <2>9. \A i \in 1 .. Len(log) : log[i].command # c
    <3>1. \A r \in index : r.command # c
      BY <2>2, UnknownIsNew
    <3>2. \A i \in 1 .. Len(log) : Accepted(log[i], i) \in index
      BY <1>4 DEF PushInv, LogIsWhole
    <3>3. \A x, i : Accepted(x, i).command = x.command
      BY DEF Accepted
    <3> HIDE DEF c
    <3> QED BY <3>1, <3>2, <3>3
  <2> HIDE DEF e
  <2>10. e.command = c
    BY DEF e
  <2> HIDE DEF c
  <2>11. \A i \in 1 .. Len(log') :
            \/ i \in 1 .. Len(log) /\ log'[i] = log[i]
            \/ log'[i].command \in Commands /\ Ours(box', log'[i])
               /\ \A j \in 1 .. Len(log') : log'[j].command = log'[i].command => j = i
    <3> SUFFICES ASSUME NEW i \in 1 .. Len(log'), ~(i \in 1 .. Len(log))
                 PROVE  log'[i].command \in Commands /\ Ours(box', log'[i])
                        /\ \A j \in 1 .. Len(log') : log'[j].command = log'[i].command => j = i
      BY <2>5
    <3>1. i = Len(log) + 1 /\ log'[i] = e
      BY <1>4, <2>5
    <3>2. \A j \in 1 .. Len(log') : j \in 1 .. Len(log) \/ j = i
      BY <1>4, <2>5, <3>1
    <3> QED BY <1>1, <2>5, <2>8, <2>9, <2>10, <3>1, <3>2
  <2>12. Home \in [Commands -> Machines]
    BY MachinesAreEnrolled
  <2>13. Len(log') \in Nat /\ Len(log) <= Len(log')
    BY <1>4, <2>5
  <2>14. \A q \in wire' : q \in wire
    BY <1>1
  <2>15. Owned'
    BY <1>2, <1>3, <1>4, <2>11, <2>12, <2>13, <2>14, OwnedStays
  <2>16. Machined'
    <3>1. \A n \in Machines : pulled[n] \in Nat /\ pulled[n] <= Len(log')
      BY <1>4, <2>5 DEF Machined
    <3> QED BY <1>1, <3>1 DEF Machined
  <2> QED BY <2>3, <2>15, <2>16
<1> QED BY <1>5, <1>6

LEMMA InstallOwned ==
    ASSUME PushInv, Owned, Chains, Judged, NEW m \in Machines, InstallRecords(m)
    PROVE  Owned'
<1>1. UNCHANGED <<log, wire, box, device, view>>
  BY Zenon DEF InstallRecords, machineVars
<1>2. ChainWhole(chain') /\ Follows(chain, chain')
  BY InstallGrows
<1>3. ASSUME NEW n \in Machines
      PROVE  Goes(device[n], view[n], device'[n], view'[n], chain)
  <2>1. ChainWhole(view[n]) /\ Follows(view[n], view[n])
    BY FollowsItself DEF Chains, ChainWhole
  <2>2. KeyEpoch(view[n]) <= KeyEpoch(view[n])
    BY <2>1, KeyEpochGrows
  <2> QED BY <1>1, <2>1, <2>2 DEF Goes
<1> QED BY <1>1, <1>2, <1>3, BoxOwned

LEMMA FetchOwned ==
    ASSUME PushInv, Owned, Chains, Judged, NEW m \in Machines, Fetch(m)
    PROVE  Chains' /\ Owned'
<1>1. UNCHANGED <<log, wire, box, device, chain>>
  BY DEF Fetch, serviceVars
<1>2. /\ view' = [view EXCEPT ![m] = view'[m]]
      /\ ChainWhole(view'[m]) /\ Follows(view[m], view'[m]) /\ Follows(view'[m], chain)
  BY FetchGrows
<1>3. PICK ch : ch = view'[m]
  OBVIOUS
<1>4. Chains' /\ \A n \in Machines : view'[n] = IF n = m THEN ch ELSE view[n]
  BY <1>1, <1>2, <1>3, ViewChains
<1>5. ASSUME NEW n \in Machines
      PROVE  Goes(device[n], view[n], device'[n], view'[n], chain)
  <2>1. ChainWhole(view[n]) /\ Follows(view[n], view[n])
    BY FollowsItself DEF Chains, ChainWhole
  <2>2. Follows(view[n], view'[n]) /\ ChainWhole(view'[n])
    BY <1>2, <1>4, <2>1
  <2>3. KeyEpoch(view[n]) <= KeyEpoch(view'[n])
    BY <2>1, <2>2, KeyEpochGrows
  <2> QED BY <1>1, <2>1, <2>2, <2>3 DEF Goes
<1>6. ChainWhole(chain') /\ Follows(chain, chain')
  BY <1>1, FollowsItself DEF Chains, ChainWhole
<1>7. Owned'
  BY <1>1, <1>5, <1>6, BoxOwned
<1> QED BY <1>4, <1>7

-----------------------------------------------------------------------------
(***************************************************************************)
(* No fork of one's own making.                                             *)
(***************************************************************************)
Distinct == \A c, d \in Commands : c # d => tag[c] # tag[d]

\* An envelope its machine has saved is no fork: what the index knows of it is itself.
LEMMA NoForkPushed ==
    ASSUME PushInv, Owned, Judged, Distinct, NEW e, e.command \in Commands,
           box[e.command].step = "saved", box[e.command].envelope = e
    PROVE  DecidePush(e) # "fork"
<1> DEFINE known == {r \in index : r.command = e.command \/ r.tag = tag[e.command]}
<1>1. DOMAIN log = 1 .. Len(log)
  BY JudgedLengths DEF Lengths
<1>2. index = {Accepted(log[i], i) : i \in 1 .. Len(log)}
  BY <1>1 DEF PushInv, LogIsWhole
<1>3. \A x, i : /\ Accepted(x, i).command = x.command /\ Accepted(x, i).tag = tag[x.command]
                /\ Accepted(x, i).envelope = x
  BY DEF Accepted
<1>4. ASSUME NEW i \in 1 .. Len(log), Accepted(log[i], i) \in known
      PROVE  log[i].command = e.command /\ log[i] = e
  <2>1. log[i].command \in Commands /\ Ours(box, log[i])
    BY DEF Owned
  <2>2. log[i].command = e.command
    BY <1>3, <1>4, <2>1 DEF Distinct
  <2> QED BY <2>1, <2>2 DEF Ours
<1>5. \A r \in known : \E i \in 1 .. Len(log) : r = Accepted(log[i], i)
  BY <1>2
<1>6. \A r, q \in known : r = q
  <2> SUFFICES ASSUME NEW r \in known, NEW q \in known PROVE r = q
    OBVIOUS
  <2>1. PICK i \in 1 .. Len(log) : r = Accepted(log[i], i)
    BY <1>5
  <2>2. PICK j \in 1 .. Len(log) : q = Accepted(log[j], j)
    BY <1>5
  <2>3. log[i].command = log[j].command
    BY <1>4, <2>1, <2>2
  <2>4. i = j
    BY <2>3 DEF Owned
  <2> QED BY <2>1, <2>2, <2>4
<1>7. \A r \in known : r.envelope = e
  BY <1>3, <1>4, <1>5
<1>8. CASE known = {}
  BY <1>8 DEF DecidePush
<1>9. CASE known # {}
  <2>1. \E r \in known : known = {r} /\ r.envelope = e
    <3>1. PICK r \in known : TRUE
      BY <1>9
    <3>2. known = {r}
      BY <1>6
    <3> QED BY <1>7, <3>1, <3>2
  <2> QED BY <1>9, <2>1 DEF DecidePush
<1> QED BY <1>8, <1>9

LEMMA PushNoFork ==
    ASSUME PushInv, Owned, Judged, Distinct, NEW p \in wire, Push(p)
    PROVE  UNCHANGED halted
<1> SUFFICES ASSUME ~UNCHANGED halted PROVE FALSE
  OBVIOUS
<1> DEFINE e == p.envelope
<1>1. Answer(p) = "fork" /\ box[e.command].step = "saved" /\ box[e.command].envelope = e
  BY DEF Push, Holds
<1>2. e.command \in Commands
  BY DEF PushInv, WireIsWhole
<1>3. DecidePush(e) = "fork"
  BY <1>1 DEF Answer
<1> HIDE DEF e
<1> QED BY <1>1, <1>2, <1>3, NoForkPushed

LEMMA PullNoFork ==
    ASSUME PushInv, Owned, Judged, Distinct, NEW m \in Machines, Pull(m)
    PROVE  UNCHANGED halted
<1> SUFFICES ASSUME ~UNCHANGED halted PROVE FALSE
  OBVIOUS
<1> DEFINE seq == pulled[m] + 1
<1>1. /\ seq \in DOMAIN log
      /\ \E c \in {d \in Mine(m) : box[d].step = "saved"} :
            MatchPulled(box[c].envelope, log[seq]) = "fork"
  BY DEF Pull
<1>2. PICK c \in Commands : box[c].step = "saved" /\ MatchPulled(box[c].envelope, log[seq]) = "fork"
  BY <1>1 DEF Mine
<1>3. seq \in 1 .. Len(log)
  BY <1>1, JudgedLengths DEF Lengths
<1> HIDE DEF seq
<1>4. box[c].envelope.command = c
  BY <1>2 DEF PushInv, BoxIsWhole, IsEntry
<1>5. log[seq].command \in Commands /\ Ours(box, log[seq])
  BY <1>3 DEF Owned
<1>6. CASE log[seq].command = c
  <2>1. box[c].envelope = log[seq]
    BY <1>5, <1>6 DEF Ours
  <2>2. MatchPulled(box[c].envelope, log[seq]) = "bind"
    BY <1>4, <1>6, <2>1 DEF MatchPulled
  <2> QED BY <1>2, <2>2
<1>7. CASE log[seq].command # c
  <2>1. tag[log[seq].command] # tag[c]
    BY <1>5, <1>7 DEF Distinct
  <2>2. MatchPulled(box[c].envelope, log[seq]) = "not mine"
    BY <1>4, <1>7, <2>1 DEF MatchPulled
  <2> QED BY <1>2, <2>2
<1> QED BY <1>6, <1>7

-----------------------------------------------------------------------------
(***************************************************************************)
(* The invariant of the whole.                                              *)
(***************************************************************************)
Whole == PushInv /\ Chains /\ Judged /\ Owned /\ Machined

Clean == Distinct => \A m \in Machines : ~halted[m]

LEMMA CleanIsAlone == Clean => NoForkAlone
BY DEF Clean, Distinct, NoForkAlone

LEMMA InitWhole == Init => Whole /\ Clean
<1> SUFFICES ASSUME Init PROVE Whole /\ Clean
  OBVIOUS
<1>1. PushInv /\ Chains /\ Judged
  BY InitPush, InitChains, InitJudged
<1>2. Owned
  <2>1. log = <<>> /\ wire = {} /\ box = [c \in Commands |-> Waiting]
    BY DEF Init
  <2>2. Len(log) = 0
    BY <2>1
  <2>3. \A i \in 1 .. Len(log) : FALSE
    BY <2>2
  <2>4. \A c \in Commands : box[c].step = "committed"
    BY <2>1 DEF Waiting
  <2> QED BY <2>1, <2>3, <2>4 DEF Owned
<1>3. Machined
  <2>1. device = First /\ pulled = [m \in Machines |-> 0] /\ Len(log) = 0
    BY DEF Init
  <2>2. device = [m \in Machines |-> device[m]]
    BY <2>1, MachinesAreEnrolled
  <2> QED BY <2>1, <2>2 DEF Machined
<1>4. Clean
  BY DEF Init, Clean
<1> QED BY <1>1, <1>2, <1>3, <1>4 DEF Whole

LEMMA MachinedStays ==
    ASSUME Machined, UNCHANGED <<device, pulled, log>>
    PROVE  Machined'
BY DEF Machined

LEMMA NextWhole ==
    ASSUME Whole, [Next]_vars
    PROVE  Whole' /\ UNCHANGED tag /\ (Distinct => UNCHANGED halted)
<1> USE DEF Whole
<1>1. PushInv' 
  BY NextPush
<1>2. ASSUME NEW c \in Commands, Seal(c) \/ Persist(c) \/ SealAgain(c) \/ Upload(c)
      PROVE  Whole' /\ UNCHANGED <<tag, halted>>
  <2>1. UNCHANGED <<tag, halted, chain, place, log, device, view, pulled>>
    BY <1>2, Zenon DEF Seal, Persist, SealAgain, Upload, serviceVars, machineVars
  <2>2. Chains' /\ Judged' /\ Machined'
    BY <2>1, ChainsStay, JudgedStays, MachinedStays
  <2>3. Owned'
    BY <1>2, SealOwned, PersistOwned, SealAgainOwned, UploadOwned
  <2> QED BY <1>1, <2>1, <2>2, <2>3
<1>3. ASSUME NEW p \in wire, Push(p) PROVE Whole' /\ UNCHANGED tag /\ (Distinct => UNCHANGED halted)
  <2>1. UNCHANGED <<tag, chain, view>>
    BY <1>3 DEF Push
  <2>2. Chains'
    BY <2>1, ChainsStay
  <2>3. Judged' /\ Owned' /\ Machined'
    BY <1>3, PushOwned
  <2>4. Distinct => UNCHANGED halted
    BY <1>3, PushNoFork
  <2> QED BY <1>1, <2>1, <2>2, <2>3, <2>4
<1>4. ASSUME NEW m \in Machines, InstallRecords(m) PROVE Whole' /\ UNCHANGED <<tag, halted>>
  <2>1. UNCHANGED <<tag, halted, log, device, pulled>>
    BY <1>4, Zenon DEF InstallRecords, machineVars
  <2>2. Chains' /\ Judged' /\ Owned'
    BY <1>4, InstallChains, InstallJudged, InstallOwned
  <2> QED BY <1>1, <2>1, <2>2, MachinedStays
<1>5. ASSUME NEW m \in Machines, Crash(m) PROVE Whole' /\ UNCHANGED <<tag, halted>>
  <2>1. UNCHANGED <<tag, halted, chain, place, log, device, view, pulled>>
    BY <1>5 DEF Crash, serviceVars, machineVars
  <2>2. Chains' /\ Judged' /\ Machined'
    BY <2>1, ChainsStay, JudgedStays, MachinedStays
  <2> QED BY <1>1, <1>5, <2>1, <2>2, CrashOwned
<1>6. ASSUME NEW m \in Machines, Fetch(m) PROVE Whole' /\ UNCHANGED <<tag, halted>>
  <2>1. UNCHANGED <<tag, halted, chain, place, log, device, pulled>>
    BY <1>6 DEF Fetch, serviceVars
  <2>2. Judged' /\ Machined'
    BY <2>1, JudgedStays, MachinedStays
  <2> QED BY <1>1, <1>6, <2>1, <2>2, FetchOwned
<1>7. ASSUME NEW m \in Machines, Pull(m) PROVE Whole' /\ UNCHANGED tag /\ (Distinct => UNCHANGED halted)
  <2>1. UNCHANGED <<tag, chain, place, log, view>>
    BY <1>7 DEF Pull, serviceVars
  <2>2. Chains' /\ Judged'
    BY <2>1, ChainsStay, JudgedStays
  <2>3. Owned' /\ Machined'
    BY <1>7, PullOwned
  <2>4. Distinct => UNCHANGED halted
    BY <1>7, PullNoFork
  <2> QED BY <1>1, <2>1, <2>2, <2>3, <2>4
<1>8. ASSUME NEW m \in Machines, Enroll(m) PROVE Whole' /\ UNCHANGED <<tag, halted>>
  <2>1. UNCHANGED <<tag, halted, chain, place, log>>
    BY <1>8 DEF Enroll, serviceVars
  <2>2. Judged'
    BY <2>1, JudgedStays
  <2> QED BY <1>1, <1>8, <2>1, <2>2, EnrollOwned
<1>9. CASE UNCHANGED vars
  <2>1. UNCHANGED <<tag, halted, chain, place, log, wire, device, view, pulled, box>>
    BY <1>9 DEF vars, serviceVars, machineVars
  <2>2. Chains' /\ Judged' /\ Machined'
    BY <2>1, ChainsStay, JudgedStays, MachinedStays
  <2>3. Owned'
    BY <2>1 DEF Owned
  <2> QED BY <1>1, <2>1, <2>2, <2>3
<1> HIDE DEF Whole
<1> QED BY <1>2, <1>3, <1>4, <1>5, <1>6, <1>7, <1>8, <1>9 DEF Next

LEMMA NextClean ==
    ASSUME Whole, Clean, [Next]_vars
    PROVE  Clean'
<1>1. UNCHANGED tag /\ (Distinct => UNCHANGED halted)
  BY NextWhole
<1>2. Distinct' <=> Distinct
  BY <1>1 DEF Distinct
<1> QED BY <1>1, <1>2 DEF Clean

\* A machine never halts on a fork of its own making, unless two commands share an idempotency
\* key: a saved envelope is given up only when it can never be accepted (SealAgain), so what
\* decide_push and match_pulled know of a command is the bytes its machine has saved.
THEOREM NoForkOfOnesOwn == Spec => []NoForkAlone
<1>1. Init => Whole /\ Clean
  BY InitWhole
<1>2. Whole /\ Clean /\ [Next]_vars => (Whole /\ Clean)'
  BY NextWhole, NextClean
<1> QED BY <1>1, <1>2, CleanIsAlone, PTL DEF Spec

\* What the service accepts, every member reads, and nobody else has the key: the chain the service
\* judges by (check_new_push) and the record a receiver judges by (classify_envelope) agree, and the
\* recipients the reason table demands are, together, the members of the epoch.
THEOREM MembersAlwaysRead == Spec => []MembersRead
<1>1. Init => Whole
  BY InitWhole
<1>2. Whole /\ [Next]_vars => Whole'
  BY NextWhole
<1>3. Whole => MembersRead
  BY ReadByMembers DEF Whole
<1> QED BY <1>1, <1>2, <1>3, PTL DEF Spec
=============================================================================
