------------------------- MODULE KeyRotationProofs -------------------------
(***************************************************************************)
(* What the rotation of the vault's key keeps, proved for any attachments,  *)
(* keys and crashes: types and the lease for any processes and failing      *)
(* operations, the vault's content for one process and one failure.         *)
(***************************************************************************)
EXTENDS KeyRotation, TLAPS

----------------------------------------------------------------------------
(* Who touches the files: for any number of processes. *)

\* Steps of a rotation that can still be given up: the live files are the ones of its key.
Served(c) ==
    \/ c.pc = "ready" /\ c.state = "Unlocked"
    \/ c.pc \in PreparePcs \cup {"abort"}
    \/ c.pc = "rollback" /\ c.caller = "abort"

\* The locals of an operation have been set by the time it uses them.
LocalsSet(c) ==
    /\ c.state = "Unlocked" => c.pc = "ready"
    /\ c.pc = "unlock" => c.key \in Keys
    /\ c.pc \in PreparePcs => c.new \in Keys
    /\ c.pc \in {"image", "imaging", "tmp", "install", "link", "verify", "apply"} =>
           c.journal \in Journal
    /\ c.pc \in {"image", "imaging"} => c.k \in 1..2
    /\ c.pc = "rollback" => c.k \in 1..11 /\ c.caller \in {"open", "abort"}
    /\ c.pc = "apply" => c.k \in 1..10 /\ c.caller \in {"open", "finish"}

\* Files, blobs and a controller that fit: its key opens the live files it may return to.
Good(d, b, c) ==
    /\ IsDisk(d) /\ b \subseteq Docs \X Keys /\ IsController(c)
    /\ LocalsSet(c)
    /\ Served(c) => Openable(d, c.key)

\* The lease is held by the process that has the vault.
LeaseKept == \A p \in Procs : Owns(ctl[p]) <=> lease = p

Ready == /\ IsDisk(disk) /\ blobs \subseteq Docs \X Keys
         /\ \A p \in Procs : Good(disk, blobs, ctl[p])
         /\ LeaseKept
         /\ DOMAIN ctl = Procs /\ lease \in Procs \cup {None}

LEMMA Steps ==
    /\ \A k \in 1..11 : RollBackOrder[k] = "blobs" \/ RollBackOrder[k] \in
           {"probe", "newDb", "newSides", "newEnv", "baseNew", "baseNewSides", "preNew",
            "preNewSides", "journalTmp", "journal"}
    /\ \A k \in 1..10 : ApplyOrder[k] \in
           {"oldSides", "dbAside", "dbIn", "envIn", "base", "pre", "oldBlobs", "oldDb",
            "journalTmp", "journal"}
    /\ Len(RollBackOrder) = 11 /\ Len(ApplyOrder) = 10 /\ Len(Images) = 2
    /\ Images[1] = "base" /\ Images[2] = "pre"
  <1>1. \A k \in 1..11 : k = 1 \/ k = 2 \/ k = 3 \/ k = 4 \/ k = 5 \/ k = 6 \/ k = 7 \/ k = 8 \/ k = 9
                         \/ k = 10 \/ k = 11
    OBVIOUS
  <1>2. \A k \in 1..10 : k = 1 \/ k = 2 \/ k = 3 \/ k = 4 \/ k = 5 \/ k = 6 \/ k = 7 \/ k = 8 \/ k = 9
                         \/ k = 10
    OBVIOUS
  <1> QED BY <1>1, <1>2 DEF RollBackOrder, ApplyOrder, Images

LEMMA IdleGood ==
    ASSUME NEW d, IsDisk(d), NEW b \in SUBSET (Docs \X Keys)
    PROVE  Good(d, b, Recovered(d)) /\ Good(d, b, Off) /\ ~Owns(Recovered(d)) /\ ~Owns(Off)
  <1>1. Classify(d) \in {"Locked", "NoVault", "Corrupt"}
    BY DEF Classify, ClassifyFiles
  <1> QED
    BY <1>1, RotationAssumption DEF Good, Recovered, Idle, Off, IsController, LocalsSet, Served, PreparePcs, Owns, Maybe

\* A move of the process that has the lease, or that takes it, or that leaves the files alone.
LEMMA MovesReady ==
    ASSUME Ready, NEW p \in Procs, NEW d, NEW b, NEW c, Moves(p, d, b, c), Good(d, b, c),
           lease = p \/ d = disk, Owns(c) => lease \in {None, p}
    PROVE  Ready'
  <1>1. /\ disk' = d /\ blobs' = b /\ ctl' = [ctl EXCEPT ![p] = c]
        /\ lease' = IF Owns(c) THEN p ELSE IF lease = p THEN None ELSE lease
    BY DEF Moves
  <1>2. p # None /\ IsController(c) /\ IsDisk(d) /\ b \subseteq Docs \X Keys
    BY RotationAssumption DEF Good
  <1>3. ctl'[p] = c /\ \A q \in Procs \ {p} : ctl'[q] = ctl[q]
    BY <1>1, <1>2 DEF Ready
  <1>4. ASSUME NEW q \in Procs PROVE (Owns(ctl[q]) <=> lease = q)' /\ Good(disk, blobs, ctl[q])'
    <2>1. CASE q = p
      BY <2>1, <1>1, <1>2, <1>3
    <2>2. CASE q # p
      <3>1. Owns(ctl[q]) <=> lease = q
        BY DEF Ready, LeaseKept
      <3>2. Good(disk, blobs, ctl[q])
        BY DEF Ready
      <3>3. ctl'[q] = ctl[q]
        BY <2>2, <1>3
      <3>4. (Owns(ctl[q]) <=> lease = q)'
        BY <3>1, <3>3, <2>2, <1>1, RotationAssumption DEF Owns
      <3>5. Served(ctl[q]) => Owns(ctl[q])
        BY DEF Served, Owns, PreparePcs
      <3>6. Good(disk, blobs, ctl[q])'
        BY <3>1, <3>2, <3>3, <3>5, <2>2, <1>1, <1>2 DEF Good
      <3> QED BY <3>4, <3>6
    <2> QED BY <2>1, <2>2
  <1>5. DOMAIN ctl' = Procs /\ lease' \in Procs \cup {None}
    BY <1>1, <1>2 DEF Ready
  <1> QED BY <1>1, <1>2, <1>4, <1>5 DEF Ready, LeaseKept

LEMMA OnErrorGood ==
    ASSUME Ready, NEW p \in Procs, NEW d, IsDisk(d), NEW b \in SUBSET (Docs \X Keys),
           ctl[p].pc \in PreparePcs \cup {"rollback", "apply"},
           Served(ctl[p]) => Openable(d, ctl[p].key)
    PROVE  Good(d, b, OnError(p, d))
  <1> DEFINE c == ctl[p]
  <1>1. IsController(c) /\ LocalsSet(c)
    BY DEF Ready, Good
  <1>2. CASE c.pc \in PreparePcs
    <2>1. OnError(p, d) = [c EXCEPT !.pc = "abort"]
      BY <1>2 DEF OnError
    <2>2. /\ IsController(OnError(p, d))
          /\ OnError(p, d).pc = "abort" /\ OnError(p, d).state = c.state
          /\ OnError(p, d).key = c.key
      BY <2>1, <1>1 DEF IsController
    <2>3. c.state # "Unlocked" /\ Served(c)
      BY <1>1, <1>2 DEF LocalsSet, PreparePcs, Served
    <2> QED BY <2>2, <2>3 DEF Good, LocalsSet, Served, PreparePcs
  <1>3. CASE c.pc \notin PreparePcs /\ c.caller = "abort"
    <2>1. OnError(p, d) = [Idle("Unlocked") EXCEPT !.key = c.key]
      BY <1>3 DEF OnError
    <2>2. Served(c)
      BY <1>1, <1>3 DEF LocalsSet, Served
    <2>3. c.key \in 0..MaxKeys
      BY <1>1 DEF IsController
    <2>4. /\ IsController(OnError(p, d))
          /\ OnError(p, d).pc = "ready" /\ OnError(p, d).state = "Unlocked"
          /\ OnError(p, d).key = c.key
      BY <2>1, <2>3, RotationAssumption DEF IsController, Idle, Maybe
    <2> QED BY <2>2, <2>4 DEF Good, LocalsSet, Served, PreparePcs
  <1>4. CASE c.pc \notin PreparePcs /\ c.caller = "finish"
    <2>1. OnError(p, d) = [c EXCEPT !.pc = "recover"]
      BY <1>4 DEF OnError
    <2> QED BY <2>1, <1>1, <1>4 DEF Good, IsController, LocalsSet, Served, PreparePcs
  <1>5. CASE c.pc \notin PreparePcs /\ c.caller \notin {"abort", "finish"}
    <2>1. OnError(p, d) = Recovered(d)
      BY <1>5 DEF OnError
    <2> QED BY <2>1, IdleGood
  <1> QED BY <1>2, <1>3, <1>4, <1>5

\* A file operation of the process that has the lease.
LEMMA FileOpReady ==
    ASSUME Ready, NEW p \in Procs, NEW d, NEW b, NEW c, FileOp(p, d, b, c), Good(d, b, c),
           ctl[p].pc \in PreparePcs \cup {"rollback", "apply"},
           Served(ctl[p]) => Openable(d, ctl[p].key)
    PROVE  Ready'
  <1>1. lease = p
    BY DEF Ready, LeaseKept, Owns, PreparePcs
  <1>2. Good(disk, blobs, ctl[p])
    BY DEF Ready
  <1>3. Good(d, b, OnError(p, d)) /\ Good(disk, blobs, OnError(p, disk))
    BY <1>2, OnErrorGood DEF Good
  <1>4. \/ Moves(p, d, b, c) \/ Moves(p, d, b, OnError(p, d)) \/ Moves(p, disk, blobs, OnError(p, disk))
    BY DEF FileOp, Fails
  <1>5. CASE Moves(p, d, b, c)
    BY <1>1, <1>5, MovesReady
  <1>6. CASE Moves(p, d, b, OnError(p, d))
    BY <1>1, <1>3, <1>6, MovesReady
  <1>7. CASE Moves(p, disk, blobs, OnError(p, disk))
    BY <1>1, <1>3, <1>7, MovesReady
  <1> QED BY <1>4, <1>5, <1>6, <1>7

\* What beginning to roll back or to apply sets and keeps.
LEMMA BeginsTyped ==
    ASSUME NEW c, IsController(c), NEW caller \in {"open", "abort", "finish"}
    PROVE  /\ \A j \in Maybe(Journal) :
                 LET e == BeginRollBack(c, j, caller) IN
                 /\ IsController(e) /\ e.pc = "rollback" /\ e.k = 1 /\ e.caller = caller
                 /\ e.journal = j /\ e.state = c.state /\ e.key = c.key /\ e.new = c.new
           /\ \A j \in Journal :
                 LET e == BeginApply(c, j, caller) IN
                 /\ IsController(e) /\ e.pc = "apply" /\ e.k = 1 /\ e.caller = caller
                 /\ e.journal = j /\ e.state = c.state /\ e.key = c.key /\ e.new = c.new
  BY DEF IsController, BeginRollBack, BeginApply, Maybe

\* Recovery's first look at the files, under the lease.
LEMMA DecideGood ==
    ASSUME NEW c, NEW caller, Good(disk, blobs, c), caller = "open",
           c.state # "Unlocked"
    PROVE  Good(disk, blobs, Decide(c, caller))
  <1>0. IsController(c)
    BY DEF Good
  <1>1. Good(disk, blobs, Recovered(disk))
    BY IdleGood DEF Good
  <1>2. \A j \in Maybe(Journal) : Good(disk, blobs, BeginRollBack(c, j, "open"))
    BY <1>0, BeginsTyped DEF Good, LocalsSet, Served, PreparePcs
  <1>3. \A j \in Journal : Good(disk, blobs, BeginApply(c, j, "open"))
    BY <1>0, BeginsTyped DEF Good, LocalsSet, Served, PreparePcs
  <1>4. disk.journal \in Maybe(Journal) /\ None \in Maybe(Journal)
        /\ (Committed(disk) => disk.journal \in Journal)
    BY DEF Good, IsDisk, Maybe, Committed, Present
  <1> QED BY <1>1, <1>2, <1>3, <1>4 DEF Decide

Leftovers == {"probe", "newDb", "newSides", "newEnv", "baseNew", "baseNewSides", "preNew",
              "preNewSides", "journalTmp", "journal"}

\* Removing what a rotation prepared leaves the live files.
LEMMA RemoveTyped ==
    ASSUME NEW d, IsDisk(d), NEW f \in Leftovers
    PROVE  /\ IsDisk(Remove(d, f))
           /\ \A g \in {"db", "wal", "env"} : Remove(d, f)[g] = d[g]
           /\ \A key : Openable(Remove(d, f), key) <=> Openable(d, key)
           /\ Remove(d, f).env = d.env
  <1>1. IsDisk(Remove(d, f))
    BY DEF IsDisk, Remove, Maybe, Leftovers
  <1>2. /\ Remove(d, f).db = d.db /\ Remove(d, f).wal = d.wal /\ Remove(d, f).env = d.env
    BY DEF IsDisk, Remove, Leftovers
  <1>3. \A g \in {"db", "wal", "env"} : Remove(d, f)[g] = d[g]
    BY <1>2
  <1>4. \A key : Openable(Remove(d, f), key) <=> Openable(d, key)
    BY <1>2 DEF Openable, Content, Present
  <1> QED BY <1>1, <1>2, <1>3, <1>4

LEMMA RollBackReady ==
    ASSUME Ready, NEW p \in Procs, RollBackStep(p)
    PROVE  Ready'
  <1> DEFINE c == ctl[p]
  <1> DEFINE f == RollBackOrder[c.k]
  <1> DEFINE next(d) == IF c.k = Len(RollBackOrder) THEN RolledBack(c, d) ELSE [c EXCEPT !.k = @ + 1]
  <1>1. /\ c.pc = "rollback" /\ Good(disk, blobs, c)
        /\ c.k \in 1..11 /\ c.caller \in {"open", "abort"} /\ c.state # "Unlocked"
        /\ Served(c) <=> c.caller = "abort"
    BY DEF RollBackStep, Ready, Good, LocalsSet, Served, PreparePcs
  <1>2. ASSUME NEW d, IsDisk(d), c.caller = "abort" => Openable(d, c.key)
        PROVE  Good(d, blobs, next(d))
    <2>1. IsController(c) /\ blobs \subseteq Docs \X Keys
      BY <1>1 DEF Good
    <2>2. CASE c.k # 11
      <3>1. next(d) = [c EXCEPT !.k = c.k + 1]
        BY <2>2, Steps
      <3>2. /\ IsController(next(d)) /\ next(d).pc = "rollback" /\ next(d).k \in 1..11
            /\ next(d).caller = c.caller /\ next(d).key = c.key /\ next(d).state = c.state
        BY SMTT(20), <3>1, <2>1, <2>2, <1>1 DEF IsController
      <3> HIDE DEF next
      <3> QED BY <3>2, <2>1, <1>1, <1>2 DEF Good, LocalsSet, Served, PreparePcs
    <2>3. CASE c.k = 11 /\ c.caller = "abort"
      <3>1. next(d) = [Idle("Unlocked") EXCEPT !.key = c.key]
        BY <2>3, Steps DEF RolledBack
      <3>2. /\ IsController(next(d)) /\ next(d).pc = "ready" /\ next(d).state = "Unlocked"
            /\ next(d).key = c.key
        BY <3>1, <2>1, RotationAssumption DEF IsController, Idle, Maybe
      <3> QED BY <3>2, <2>1, <2>3, <1>2 DEF Good, LocalsSet, Served, PreparePcs
    <2>4. CASE c.k = 11 /\ c.caller # "abort"
      <3>1. next(d) = Recovered(d)
        BY <2>4, Steps DEF RolledBack
      <3> QED BY <3>1, <2>1, <1>2, IdleGood
    <2> QED BY <2>2, <2>3, <2>4
  <1>3. CASE f # "blobs"
    <2>1. f \in Leftovers
      BY <1>1, <1>3, Steps DEF Leftovers
    <2>2. FileOp(p, Remove(disk, f), blobs, next(Remove(disk, f)))
      BY <1>1, <1>3 DEF RollBackStep
    <2>3. /\ IsDisk(Remove(disk, f))
          /\ Openable(Remove(disk, f), c.key) <=> Openable(disk, c.key)
      BY <1>1, <2>1, RemoveTyped DEF Good
    <2>4. Good(Remove(disk, f), blobs, next(Remove(disk, f)))
      BY <1>1, <1>2, <2>3 DEF Good
    <2> HIDE DEF next, f
    <2> QED BY <1>1, <2>2, <2>3, <2>4, FileOpReady DEF Good
  <1>4. CASE f = "blobs"
    <2>1. \/ \E name \in blobs : FileOp(p, disk, blobs \ {name}, c)
          \/ Moves(p, disk, blobs, next(disk))
      BY <1>1, <1>4 DEF RollBackStep
    <2>2. CASE Moves(p, disk, blobs, next(disk))
      <3>1. Good(disk, blobs, next(disk))
        BY <1>1, <1>2 DEF Good
      <3>2. lease = p
        BY <1>1 DEF Ready, LeaseKept, Owns
      <3> HIDE DEF next
      <3> QED BY <2>2, <3>1, <3>2, MovesReady
    <2>3. ASSUME NEW name \in blobs, FileOp(p, disk, blobs \ {name}, c)
          PROVE  Ready'
      <3>1. Good(disk, blobs \ {name}, c)
        BY <1>1 DEF Good
      <3> QED BY <1>1, <2>3, <3>1, FileOpReady DEF Good
    <2> QED BY <2>1, <2>2, <2>3
  <1> QED BY <1>3, <1>4

\* The steps of apply_committed keep the types of the files.
LEMMA ApplyTyped ==
    ASSUME NEW d, IsDisk(d), NEW j \in Journal, NEW k \in 1..10, ApplyOrder[k] # "oldBlobs"
    PROVE  IsDisk(ApplyOp(d, j, ApplyOrder[k]))
  <1> DEFINE op == ApplyOrder[k]
  <1>1. op \in {"oldSides", "dbAside", "dbIn", "envIn", "base", "pre", "oldDb", "journalTmp", "journal"}
    BY Steps
  <1>2. CASE op = "oldSides"
    BY <1>2 DEF ApplyOp, Remove, IsDisk, Maybe
  <1>3. CASE op \in {"dbAside", "dbIn", "envIn"}
    BY <1>3 DEF ApplyOp, Rename, IsDisk, Maybe
  <1>4. CASE op = "base"
    BY <1>4 DEF ApplyOp, SwapImage, Remove, Rename, IsDisk, Maybe, ImageNew
  <1>5. CASE op = "pre"
    BY <1>5 DEF ApplyOp, SwapImage, Remove, Rename, IsDisk, Maybe, ImageNew
  <1>6. CASE op \in {"oldDb", "journalTmp", "journal"}
    BY <1>6 DEF ApplyOp, Remove, IsDisk, Maybe
  <1> QED BY <1>1, <1>2, <1>3, <1>4, <1>5, <1>6

LEMMA ApplyReady ==
    ASSUME Ready, NEW p \in Procs, ApplyStep(p)
    PROVE  Ready'
  <1> DEFINE c == ctl[p]
  <1> DEFINE op == ApplyOrder[c.k]
  <1> DEFINE d == ApplyOp(disk, c.journal, op)
  <1> DEFINE next(e) == IF c.k = Len(ApplyOrder) THEN Applied(c, e) ELSE [c EXCEPT !.k = @ + 1]
  <1>1. /\ c.pc = "apply" /\ Good(disk, blobs, c) /\ IsController(c) /\ IsDisk(disk)
        /\ blobs \subseteq Docs \X Keys
        /\ c.k \in 1..10 /\ c.caller \in {"open", "finish"} /\ c.state # "Unlocked"
        /\ c.journal \in Journal /\ ~Served(c)
    BY DEF ApplyStep, Ready, Good, LocalsSet, Served, PreparePcs
  <1>2. ASSUME NEW e, IsDisk(e)
        PROVE  Good(e, blobs, next(e))
    <2>1. CASE c.k # 10
      <3>1. next(e) = [c EXCEPT !.k = c.k + 1]
        BY <2>1, Steps
      <3>2. /\ IsController(next(e)) /\ next(e).pc = "apply" /\ next(e).k \in 1..10
            /\ next(e).caller = c.caller /\ next(e).journal = c.journal /\ next(e).state = c.state
        BY SMTT(20), <3>1, <2>1, <1>1 DEF IsController
      <3> HIDE DEF next
      <3> QED BY <3>2, <1>1, <1>2 DEF Good, LocalsSet, Served, PreparePcs
    <2>2. CASE c.k = 10 /\ c.caller = "finish"
      <3>1. next(e) = [c EXCEPT !.pc = "reopen"]
        BY <2>2, Steps DEF Applied
      <3>2. IsController(next(e)) /\ next(e).pc = "reopen" /\ next(e).state = c.state
        BY <3>1, <1>1 DEF IsController
      <3> HIDE DEF next
      <3> QED BY <3>2, <1>1, <1>2 DEF Good, LocalsSet, Served, PreparePcs
    <2>3. CASE c.k = 10 /\ c.caller # "finish"
      <3>1. next(e) = Recovered(e)
        BY <2>3, Steps DEF Applied
      <3> QED BY <3>1, <1>1, <1>2, IdleGood
    <2> QED BY <2>1, <2>2, <2>3
  <1>3. CASE op # "oldBlobs"
    <2>1. FileOp(p, d, blobs, next(d))
      BY <1>1, <1>3 DEF ApplyStep
    <2>2. IsDisk(d)
      BY <1>1, <1>3, ApplyTyped
    <2>3. Good(d, blobs, next(d))
      BY <1>2, <2>2
    <2> HIDE DEF next, d, op
    <2> QED BY <1>1, <2>1, <2>2, <2>3, FileOpReady
  <1>4. CASE op = "oldBlobs"
    <2>1. \/ \E name \in blobs : FileOp(p, disk, blobs \ {name}, c)
          \/ Moves(p, disk, blobs, next(disk))
      BY <1>1, <1>4 DEF ApplyStep
    <2>2. CASE Moves(p, disk, blobs, next(disk))
      <3>1. Good(disk, blobs, next(disk))
        BY <1>1, <1>2
      <3>2. lease = p
        BY <1>1 DEF Ready, LeaseKept, Owns
      <3> HIDE DEF next
      <3> QED BY <2>2, <3>1, <3>2, MovesReady
    <2>3. ASSUME NEW name \in blobs, FileOp(p, disk, blobs \ {name}, c)
          PROVE  Ready'
      <3>1. Good(disk, blobs \ {name}, c)
        BY <1>1 DEF Good
      <3> QED BY <1>1, <2>3, <3>1, FileOpReady
    <2> QED BY <2>1, <2>2, <2>3
  <1> QED BY <1>3, <1>4

\* What a process does with the vault it has, and without it.
LEMMA VaultReady ==
    ASSUME Ready, acked \subseteq Docs, NEW p \in Procs,
           \/ Open(p) \/ RecoverAfterFinish(p) \/ ReadEnvelope(p) \/ OpenWorker(p) \/ Lock(p)
           \/ Crash(p) \/ Reopen(p)
           \/ \E doc \in Docs : Import(p, doc) \/ TornImport(p, doc)
    PROVE  Ready'
  <1> DEFINE c == ctl[p]
  <1>0. /\ Good(disk, blobs, c) /\ IsController(c) /\ IsDisk(disk) /\ blobs \subseteq Docs \X Keys
        /\ LocalsSet(c) /\ (Owns(c) <=> lease = p)
        /\ Served(c) => Openable(disk, c.key)
        /\ KernelFree(p) => Served(c) /\ Owns(c)
    BY DEF Ready, Good, LeaseKept, KernelFree, Served, Owns
  <1>a. /\ \A s \in {"NoVault", "Locked", "Corrupt"} : Good(disk, blobs, Idle(s)) /\ ~Owns(Idle(s))
        /\ Good(disk, blobs, Off) /\ ~Owns(Off)
        /\ Classify(disk) \in {"NoVault", "Locked", "Corrupt"}
        /\ ClassifyFiles(disk) \in {"NoVault", "Locked", "Corrupt"}
        /\ Recovered(disk) = Idle(Classify(disk))
    <2>1. \A s \in {"NoVault", "Locked", "Corrupt"} : Good(disk, blobs, Idle(s)) /\ ~Owns(Idle(s))
      BY <1>0, RotationAssumption DEF Good, Idle, IsController, LocalsSet, Served, PreparePcs, Owns, Maybe
    <2>2. Good(disk, blobs, Off) /\ ~Owns(Off)
      BY <1>0, IdleGood
    <2> QED BY <2>1, <2>2 DEF Classify, ClassifyFiles, Recovered
  <1>b. ASSUME NEW key \in Keys, NEW d, IsDisk(d), Openable(d, key),
               NEW e, e = [Idle("Unlocked") EXCEPT !.key = key]
        PROVE  Good(d, blobs, e)
    <2>1. /\ IsController(e) /\ e.pc = "ready" /\ e.state = "Unlocked" /\ e.key = key
      BY <1>b, RotationAssumption DEF IsController, Idle, Maybe, Keys
    <2> QED BY <2>1, <1>0, <1>b DEF Good, LocalsSet, PreparePcs
  <1>1. CASE Open(p)
    <2>1. Good(disk, blobs, Idle("NoVault")) /\ Idle("NoVault").state # "Unlocked"
      BY <1>a DEF Idle
    <2>2. Good(disk, blobs, Decide(Idle("NoVault"), "open"))
      BY <2>1, DecideGood
    <2>3. CASE lease = None /\ Moves(p, disk, blobs, Decide(Idle("NoVault"), "open"))
      BY <2>2, <2>3, MovesReady
    <2>4. CASE Moves(p, disk, blobs, Recovered(disk))
      BY <1>a, <2>4, MovesReady
    <2>5. CASE Moves(p, disk, blobs, Idle(ClassifyFiles(disk)))
      BY <1>a, <2>5, MovesReady
    <2> QED BY <1>1, <2>3, <2>4, <2>5 DEF Open
  <1>2. CASE RecoverAfterFinish(p)
    <2>1. Moves(p, disk, blobs, Decide(c, "open")) /\ c.pc = "recover"
      BY <1>2 DEF RecoverAfterFinish
    <2>2. lease = p /\ c.state # "Unlocked"
      BY <1>0, <2>1 DEF Owns, LocalsSet
    <2>3. Good(disk, blobs, Decide(c, "open"))
      BY <1>0, <2>2, DecideGood
    <2> QED BY <2>1, <2>2, <2>3, MovesReady
  <1>3. CASE ReadEnvelope(p)
    <2>1. CASE Present(disk, "env")
      <3> DEFINE e == [Idle("Unlocking") EXCEPT !.pc = "unlock", !.key = disk.env]
      <3>1. Moves(p, disk, blobs, e)
        BY <1>3, <2>1 DEF ReadEnvelope
      <3>2. disk.env \in Keys
        BY <1>0, <2>1 DEF IsDisk, Maybe, Present
      <3>3. /\ IsController(e) /\ e.pc = "unlock" /\ e.state = "Unlocking" /\ e.key = disk.env
        BY <3>2, RotationAssumption DEF IsController, Idle, Maybe, Keys
      <3> HIDE DEF e
      <3>4. Good(disk, blobs, e) /\ ~Owns(e)
        BY <1>0, <3>2, <3>3 DEF Good, LocalsSet, Served, PreparePcs, Owns
      <3> QED BY <3>1, <3>4, MovesReady
    <2>2. CASE ~Present(disk, "env")
      <3>1. Moves(p, disk, blobs, Idle(Classify(disk)))
        BY <1>3, <2>2 DEF ReadEnvelope
      <3> QED BY <3>1, <1>a, MovesReady
    <2> QED BY <2>1, <2>2
  <1>4. CASE OpenWorker(p)
    <2>1. CASE lease = None /\ Openable(disk, c.key)
      <3> DEFINE e == [Idle("Unlocked") EXCEPT !.key = c.key]
      <3>1. Moves(p, disk, blobs, e) /\ c.key \in Keys
        BY <1>0, <1>4, <2>1 DEF OpenWorker, LocalsSet
      <3>2. Good(disk, blobs, e)
        BY <1>0, <1>b, <2>1, <3>1
      <3> HIDE DEF e
      <3> QED BY <2>1, <3>1, <3>2, MovesReady
    <2>2. CASE ~(lease = None /\ Openable(disk, c.key))
      <3>1. Moves(p, disk, blobs, Idle(Classify(disk)))
        BY <1>4, <2>2 DEF OpenWorker
      <3> QED BY <3>1, <1>a, MovesReady
    <2> QED BY <2>1, <2>2
  <1>5. ASSUME NEW doc \in Docs, Import(p, doc) PROVE Ready'
    <2> DEFINE w == [key |-> c.key, rows |-> Content(disk).rows \cup {doc}]
    <2> DEFINE d == [disk EXCEPT !.wal = w]
    <2> DEFINE b == blobs \cup {<<doc, c.key>>}
    <2>1. /\ disk' = d /\ blobs' = b /\ lease' = lease /\ ctl' = ctl /\ KernelFree(p)
      BY <1>5 DEF Import
    <2>2. disk.db # None /\ disk.db.key = c.key /\ Content(disk).key = c.key
      BY <1>0, <2>1 DEF Openable, Present
    <2>3. Content(disk) \in Database /\ c.key \in Keys
      BY <1>0, <2>2 DEF Content, IsDisk, Maybe, Present, Database
    <2>4. w \in Database /\ w.key = c.key
      BY <2>3 DEF Database
    <2>5. IsDisk(d) /\ d.db = disk.db /\ d.wal = w
      <3> HIDE DEF w
      <3> QED BY <1>0, <2>4 DEF IsDisk, Maybe
    <2>6. Openable(d, c.key)
      BY <2>2, <2>4, <2>5, RotationAssumption DEF Openable, Content, Present
    <2>7. b \subseteq Docs \X Keys
      BY <1>0, <2>3
    <2> HIDE DEF d, b
    <2>8. Good(d, b, c)
      BY <1>0, <2>5, <2>6, <2>7 DEF Good
    <2>9. lease = p /\ Owns(c)
      BY <1>0, <2>1
    <2>12. IsDisk(d)
      BY <2>5
    <2>10. ASSUME NEW q \in Procs PROVE Good(d, b, ctl[q])
      <3>1. CASE q = p
        BY <2>8, <3>1
      <3>2. CASE q # p
        <4>1. Good(disk, blobs, ctl[q]) /\ ~Owns(ctl[q])
          BY <2>9, <3>2 DEF Ready, LeaseKept
        <4>2. ~Served(ctl[q])
          BY <4>1 DEF Served, Owns, PreparePcs
        <4> QED BY <2>5, <2>7, <4>1, <4>2 DEF Good
      <3> QED BY <3>1, <3>2
    <2>11. LeaseKept' /\ DOMAIN ctl' = Procs /\ lease' \in Procs \cup {None}
      BY <2>1 DEF Ready, LeaseKept, Owns
    <2> QED BY <2>1, <2>7, <2>10, <2>11, <2>12 DEF Ready
  <1>6. ASSUME NEW doc \in Docs, TornImport(p, doc) PROVE Ready'
    <2> DEFINE b == blobs \cup {<<doc, c.key>>}
    <2>1. Moves(p, disk, b, Off) /\ KernelFree(p)
      BY <1>6 DEF TornImport
    <2>2. c.key \in Keys
      BY <1>0, <2>1 DEF Openable, IsDisk, Maybe, Present, Database
    <2>3. b \subseteq Docs \X Keys
      BY <1>0, <2>2
    <2>4. Good(disk, b, Off)
      BY <1>0, <2>3, IdleGood
    <2> HIDE DEF b
    <2> QED BY <1>a, <2>1, <2>4, MovesReady
  <1>7. CASE Lock(p)
    <2>1. PICK d \in {[disk EXCEPT !.db = Content(disk), !.wal = None], disk} :
              Moves(p, d, blobs, Idle("Locked"))
      BY <1>7 DEF Lock
    <2>2. lease = p
      BY <1>0, <1>7 DEF Lock
    <2>3. IsDisk(d)
      <3>1. Content(disk) \in Maybe(Database)
        BY <1>0 DEF IsDisk, Content
      <3>2. IsDisk([disk EXCEPT !.db = Content(disk), !.wal = None])
        BY <1>0, <3>1 DEF IsDisk, Maybe
      <3> QED BY <1>0, <2>1, <3>2
    <2>4. Good(d, blobs, Idle("Locked"))
      BY <1>a, <2>3 DEF Good, Idle, Served, PreparePcs
    <2> QED BY <1>a, <2>1, <2>2, <2>4, MovesReady
  <1>8. CASE Crash(p)
    BY <1>8, <1>a, MovesReady DEF Crash
  <1>9. CASE Reopen(p)
    <2>1. lease = p
      BY <1>0, <1>9 DEF Reopen, Owns
    <2>2. CASE Moves(p, disk, blobs, Idle("Locked"))
      BY <1>a, <2>1, <2>2, MovesReady
    <2>3. CASE /\ Present(disk, "env") /\ Openable(disk, disk.env)
               /\ Moves(p, disk, blobs, [Idle("Unlocked") EXCEPT !.key = disk.env])
      <3> DEFINE e == [Idle("Unlocked") EXCEPT !.key = disk.env]
      <3>1. disk.env \in Keys
        BY <1>0, <2>3 DEF IsDisk, Maybe, Present
      <3>2. Good(disk, blobs, e)
        BY <1>0, <1>b, <2>3, <3>1
      <3>3. Moves(p, disk, blobs, e)
        BY <2>3
      <3> HIDE DEF e
      <3> QED BY <2>1, <3>2, <3>3, MovesReady
    <2> QED BY <1>9, <2>2, <2>3 DEF Reopen
  <1> QED BY <1>1, <1>2, <1>3, <1>4, <1>5, <1>6, <1>7, <1>8, <1>9

\* A step of prepare: whatever it does to its own files, the live ones open under its key.
LEMMA PrepareMoves ==
    ASSUME Ready, NEW p \in Procs, ctl[p].pc \in PreparePcs,
           NEW d, IsDisk(d), Openable(d, ctl[p].key), NEW b, b \subseteq Docs \X Keys,
           NEW e, IsController(e), LocalsSet(e), e.key = ctl[p].key,
           \/ FileOp(p, d, b, e) \/ Moves(p, d, b, e) \/ Moves(p, d, b, OnError(p, d))
    PROVE  Ready'
  <1>1. Good(d, b, e) /\ Served(ctl[p])
    BY DEF Good, Served
  <1>2. lease = p
    BY DEF Ready, LeaseKept, Owns, PreparePcs
  <1>3. CASE FileOp(p, d, b, e)
    BY <1>1, <1>3, FileOpReady
  <1>4. CASE Moves(p, d, b, e)
    BY <1>1, <1>2, <1>4, MovesReady
  <1>5. CASE Moves(p, d, b, OnError(p, d))
    BY <1>2, <1>5, OnErrorGood, MovesReady
  <1> QED BY <1>3, <1>4, <1>5

\* The journal's list of images, and its states.
LEMMA JournalTyped ==
    ASSUME NEW j \in Journal
    PROVE  /\ \A i \in {"base", "pre"}, v \in {"keep", "drop"} :
                 [j EXCEPT !.images[i] = v] \in Journal
           /\ \A x \in Database : [j EXCEPT !.state = "prepared", !.db = x] \in Journal
           /\ [j EXCEPT !.state = "committed"] \in Journal
  <1>1. ASSUME NEW i \in {"base", "pre"}, NEW v \in {"keep", "drop"}
        PROVE  [j EXCEPT !.images[i] = v] \in Journal
    <2>1. [j.images EXCEPT ![i] = v] \in [{"base", "pre"} -> {"absent", "keep", "drop"}]
      BY DEF Journal
    <2>2. [j EXCEPT !.images[i] = v] = [j EXCEPT !.images = [j.images EXCEPT ![i] = v]]
      BY DEF Journal
    <2> DEFINE m == [j.images EXCEPT ![i] = v]
    <2> HIDE DEF m
    <2>3. [j EXCEPT !.images = m] \in Journal
      BY <2>1 DEF Journal, m
    <2> QED BY <2>2, <2>3 DEF m
  <1>2. ASSUME NEW x \in Database PROVE [j EXCEPT !.state = "prepared", !.db = x] \in Journal
    <2> DEFINE e == [j EXCEPT !.state = "prepared"]
    <2>1. e \in Journal
      BY DEF Journal
    <2>2. [j EXCEPT !.state = "prepared", !.db = x] = [e EXCEPT !.db = x]
      BY DEF Journal
    <2> HIDE DEF e
    <2>3. [e EXCEPT !.db = x] \in Journal
      BY <2>1 DEF Journal
    <2> QED BY <2>2, <2>3
  <1>3. [j EXCEPT !.state = "committed"] \in Journal
    BY DEF Journal
  <1> QED BY <1>1, <1>2, <1>3

LEMMA NextImageTyped ==
    ASSUME NEW c, IsController(c), LocalsSet(c), c.pc \in {"image", "imaging"}
    PROVE  LET e == NextImage(c) IN
           /\ IsController(e) /\ LocalsSet(e) /\ e.key = c.key /\ e.new = c.new
           /\ e.journal = c.journal /\ e.state = c.state
           /\ IF c.k = 2 THEN e.pc = "tmp" ELSE e.pc = "image" /\ e.k = c.k + 1
  <1>1. c.k \in 1..2 /\ c.state # "Unlocked" /\ c.journal \in Journal /\ c.new \in Keys
    BY DEF LocalsSet, PreparePcs
  <1>2. CASE c.k = 2
    <2>1. NextImage(c) = [c EXCEPT !.pc = "tmp"]
      BY <1>2, Steps DEF NextImage
    <2>2. LET e == [c EXCEPT !.pc = "tmp"] IN
          /\ IsController(e) /\ e.pc = "tmp" /\ e.state = c.state /\ e.key = c.key
          /\ e.new = c.new /\ e.journal = c.journal
      BY DEF IsController, PreparePcs
    <2> QED BY <1>1, <1>2, <2>1, <2>2 DEF LocalsSet
  <1>3. CASE c.k = 1
    <2>1. NextImage(c) = [c EXCEPT !.pc = "image", !.k = 2]
      BY <1>3, Steps DEF NextImage
    <2>2. LET e == [c EXCEPT !.pc = "image", !.k = 2] IN
          /\ IsController(e) /\ e.pc = "image" /\ e.state = c.state /\ e.key = c.key
          /\ e.new = c.new /\ e.journal = c.journal /\ e.k = 2
      BY DEF IsController, PreparePcs
    <2> QED BY <1>1, <1>3, <2>1, <2>2 DEF LocalsSet
  <1> QED BY <1>1, <1>2, <1>3

\* Writing a copy of an image, and its side file, leaves every other file.
LEMMA CopyTyped ==
    ASSUME NEW d, IsDisk(d), NEW i \in {"base", "pre"}, NEW x \in Maybe(Image),
           NEW y \in {None, "file"}
    PROVE  IsDisk([d EXCEPT ![ImageNew[i]] = x, ![ImageSides[i]] = y])
  <1>1. CASE i = "base"
    <2>1. ImageNew[i] = "baseNew" /\ ImageSides[i] = "baseNewSides"
      BY <1>1 DEF ImageNew, ImageSides
    <2>2. IsDisk([d EXCEPT !.baseNew = x, !.baseNewSides = y])
      BY DEF IsDisk, Maybe
    <2> QED BY <2>1, <2>2
  <1>2. CASE i = "pre"
    <2>1. ImageNew[i] = "preNew" /\ ImageSides[i] = "preNewSides"
      BY <1>2 DEF ImageNew, ImageSides
    <2>2. IsDisk([d EXCEPT !.preNew = x, !.preNewSides = y])
      BY DEF IsDisk, Maybe
    <2> QED BY <2>1, <2>2
  <1> QED BY <1>1, <1>2

LEMMA CopyNames ==
    ASSUME NEW i \in {"base", "pre"}
    PROVE  /\ ImageNew[i] = IF i = "base" THEN "baseNew" ELSE "preNew"
           /\ ImageSides[i] = IF i = "base" THEN "baseNewSides" ELSE "preNewSides"
  BY DEF ImageNew, ImageSides

\* rotate_key up to the commit, and the hand-over to the steps behind it.
LEMMA PrepareReady ==
    ASSUME Ready, keys \in Keys, NEW p \in Procs, RotateKey(p) \/ Prepare(p) \/ FinishRotation(p)
    PROVE  Ready'
  <1> DEFINE c == ctl[p]
  <1>0. /\ Good(disk, blobs, c) /\ IsController(c) /\ IsDisk(disk) /\ blobs \subseteq Docs \X Keys
        /\ LocalsSet(c) /\ (Owns(c) <=> lease = p)
        /\ Served(c) => Openable(disk, c.key)
        /\ c.pc \in PreparePcs => /\ Openable(disk, c.key) /\ c.new \in Keys /\ c.key \in Keys
                                  /\ c.state # "Unlocked"
    <2>1. Good(disk, blobs, c) /\ (Owns(c) <=> lease = p)
      BY DEF Ready, LeaseKept
    <2>2. ASSUME c.pc \in PreparePcs
          PROVE  Openable(disk, c.key) /\ c.new \in Keys /\ c.key \in Keys /\ c.state # "Unlocked"
      <3>1. Openable(disk, c.key) /\ c.new \in Keys /\ c.state # "Unlocked"
        BY <2>1, <2>2 DEF Good, Served, LocalsSet, PreparePcs
      <3>2. c.key \in Keys
        BY <2>1, <3>1 DEF Good, Openable, IsDisk, Maybe, Present, Database
      <3> QED BY <3>1, <3>2
    <2> QED BY <2>1, <2>2 DEF Good
  <1>a. ASSUME NEW s \in {"exporting", "install", "verify", "imaging", "finish"}
        PROVE  LET e == [c EXCEPT !.pc = s] IN
               /\ IsController(e) /\ e.key = c.key /\ e.new = c.new /\ e.journal = c.journal
               /\ e.k = c.k /\ e.pc = s /\ e.state = c.state
    BY <1>0 DEF IsController, PreparePcs
  <1>1. CASE RotateKey(p)
    <2> DEFINE d == [disk EXCEPT !.probe = IF blobs = {} THEN None ELSE "file"]
    <2> DEFINE e == [c EXCEPT !.state = "Rekeying", !.pc = "export", !.new = keys + 1]
    <2>1. Moves(p, d, blobs, e) /\ KernelFree(p) /\ keys < MaxKeys
      BY <1>1 DEF RotateKey
    <2>2. /\ IsDisk(d) /\ d.db = disk.db /\ d.wal = disk.wal
      BY <1>0 DEF IsDisk, Maybe
    <2>3. Openable(disk, c.key) /\ lease = p
      BY <1>0, <2>1 DEF KernelFree, Served, Owns
    <2>4. Openable(d, c.key)
      BY <2>2, <2>3 DEF Openable, Content, Present
    <2>5. keys + 1 \in Keys /\ keys + 1 \in 0..MaxKeys
      BY <2>1, RotationAssumption DEF Keys
    <2>6. /\ IsController(e) /\ e.pc = "export" /\ e.state = "Rekeying" /\ e.new = keys + 1
          /\ e.key = c.key
      BY <1>0, <2>5 DEF IsController, PreparePcs
    <2> HIDE DEF d, e
    <2>7. Good(d, blobs, e)
      BY <1>0, <2>2, <2>4, <2>5, <2>6 DEF Good, LocalsSet
    <2> QED BY <2>1, <2>3, <2>7, MovesReady
  <1>2. CASE BeginExport(p)
    <2> DEFINE d == [disk EXCEPT !.probe = None, !.db = Content(disk), !.wal = None,
                                 !.newDb = [key |-> c.new, rows |-> {}], !.newSides = "file"]
    <2> DEFINE e == [c EXCEPT !.pc = "exporting"]
    <2>1. FileOp(p, d, blobs, e) /\ c.pc = "export"
      BY <1>2 DEF BeginExport
    <2>2. Content(disk) \in Database /\ Content(disk).key = c.key /\ c.pc \in PreparePcs
          /\ [key |-> c.new, rows |-> {}] \in Database
      BY <1>0, <2>1 DEF Openable, Content, IsDisk, Maybe, Present, PreparePcs, Database
    <2>3. IsDisk(d) /\ d.db = Content(disk) /\ d.wal = None
      BY <1>0, <2>2 DEF IsDisk, Maybe
    <2>4. Openable(d, c.key)
      BY <2>2, <2>3, RotationAssumption DEF Openable, Content, Present
    <2> HIDE DEF d
    <2>5. IsController(e) /\ LocalsSet(e) /\ e.key = c.key
      BY <1>0, <1>a, <2>2 DEF LocalsSet
    <2> HIDE DEF e
    <2> QED BY <1>0, <2>1, <2>2, <2>3, <2>4, <2>5, PrepareMoves
  <1>3. CASE EndExport(p)
    <2> DEFINE d == [disk EXCEPT !.newDb = [key |-> c.new, rows |-> disk.db.rows], !.newSides = None]
    <2> DEFINE j == [state |-> "preparing", old |-> c.key, new |-> c.new, docs |-> disk.db.rows,
                     db |-> None, images |-> [base |-> "absent", pre |-> "absent"]]
    <2> DEFINE e == [c EXCEPT !.pc = "image", !.k = 1, !.journal = j]
    <2>1. FileOp(p, d, blobs, e) /\ c.pc = "exporting"
      BY <1>3 DEF EndExport
    <2>2. disk.db \in Database /\ c.pc \in PreparePcs
      BY <1>0, <2>1 DEF Openable, IsDisk, Maybe, Present, PreparePcs
    <2>3. [key |-> c.new, rows |-> disk.db.rows] \in Database
      BY <1>0, <2>2 DEF Database
    <2>4. IsDisk(d) /\ d.db = disk.db /\ d.wal = disk.wal
      BY <1>0, <2>3 DEF IsDisk, Maybe
    <2>5. Openable(d, c.key)
      BY <1>0, <2>2, <2>4 DEF Openable, Content, Present
    <2> HIDE DEF d
    <2>6. [base |-> "absent", pre |-> "absent"] \in [{"base", "pre"} -> {"absent", "keep", "drop"}]
      OBVIOUS
    <2>7. j \in Journal
      BY <1>0, <2>2, <2>6 DEF Journal, Database
    <2> HIDE DEF j
    <2>8. IsController(e) /\ e.pc = "image" /\ e.k = 1 /\ e.journal = j /\ e.key = c.key
          /\ e.new = c.new /\ e.state = c.state
      BY <1>0, <2>7 DEF IsController, PreparePcs, Maybe
    <2> HIDE DEF e
    <2>9. LocalsSet(e)
      BY <1>0, <2>2, <2>7, <2>8 DEF LocalsSet
    <2> QED BY <1>0, <2>1, <2>2, <2>4, <2>5, <2>8, <2>9, PrepareMoves
  <1>4. CASE WriteJournalTmp(p)
    <2> DEFINE d == [disk EXCEPT !.journalTmp = "file"]
    <2> DEFINE e == [c EXCEPT !.pc = "install"]
    <2>1. FileOp(p, d, blobs, e) /\ c.pc = "tmp" /\ c.pc \in PreparePcs
      BY <1>4 DEF WriteJournalTmp, PreparePcs
    <2>2. IsDisk(d) /\ d.db = disk.db /\ d.wal = disk.wal
      BY <1>0 DEF IsDisk, Maybe
    <2>3. Openable(d, c.key)
      BY <1>0, <2>1, <2>2 DEF Openable, Content, Present
    <2>4. IsController(e) /\ LocalsSet(e) /\ e.key = c.key
      BY <1>0, <1>a, <2>1 DEF LocalsSet
    <2> HIDE DEF d, e
    <2> QED BY <1>0, <2>1, <2>2, <2>3, <2>4, PrepareMoves
  <1>5. CASE InstallJournal(p)
    <2> DEFINE d == [disk EXCEPT !.journal = c.journal, !.journalTmp = None]
    <2> DEFINE e == Installed(c)
    <2>1. /\ FileOp(p, d, blobs, e) \/ CommitWrite(p, d)
          /\ c.pc = "install" /\ c.pc \in PreparePcs
      BY <1>5 DEF InstallJournal, PreparePcs
    <2>2. c.journal \in Journal
      BY <1>0, <2>1 DEF LocalsSet
    <2>3. IsDisk(d) /\ d.db = disk.db /\ d.wal = disk.wal
      BY <1>0, <2>2 DEF IsDisk, Maybe
    <2>4. Openable(d, c.key)
      BY <1>0, <2>1, <2>3 DEF Openable, Content, Present
    <2> HIDE DEF d
    <2>5. IsController(e) /\ LocalsSet(e) /\ e.key = c.key
      <3>1. CASE c.journal.state = "preparing"
        <4>1. e = [c EXCEPT !.pc = "link"]
          BY <3>1 DEF Installed
        <4>2. IsController(e) /\ e.pc = "link" /\ e.state = c.state /\ e.key = c.key
              /\ e.new = c.new /\ e.journal = c.journal
          BY <1>0, <4>1 DEF IsController, PreparePcs
        <4> QED BY <1>0, <2>1, <2>2, <4>2 DEF LocalsSet
      <3>2. CASE c.journal.state = "prepared"
        <4> DEFINE j == [c.journal EXCEPT !.state = "committed"]
        <4>1. e = [c EXCEPT !.pc = "tmp", !.journal = j]
          BY <1>0, <3>2 DEF Installed, IsController
        <4>2. j \in Journal
          BY <2>2, JournalTyped
        <4> HIDE DEF j
        <4>3. IsController(e) /\ e.pc = "tmp" /\ e.state = c.state /\ e.key = c.key
              /\ e.new = c.new /\ e.journal = j
          BY <1>0, <4>1, <4>2 DEF IsController, PreparePcs, Maybe
        <4> QED BY <1>0, <2>1, <4>2, <4>3 DEF LocalsSet
      <3>3. CASE c.journal.state \notin {"preparing", "prepared"}
        <4>1. e = [c EXCEPT !.pc = "finish", !.caller = "finish"]
          BY <3>3 DEF Installed
        <4>2. IsController(e) /\ e.pc = "finish" /\ e.state = c.state /\ e.key = c.key
          BY <1>0, <4>1 DEF IsController, PreparePcs
        <4> QED BY <1>0, <2>1, <4>2 DEF LocalsSet, PreparePcs
      <3> QED BY <3>1, <3>2, <3>3
    <2>6. \/ FileOp(p, d, blobs, e) \/ Moves(p, d, blobs, e) \/ Moves(p, d, blobs, OnError(p, d))
          \/ Moves(p, disk, blobs, OnError(p, disk))
      BY <2>1 DEF CommitWrite
    <2> HIDE DEF e
    <2>7. CASE Moves(p, disk, blobs, OnError(p, disk))
      BY <1>0, <2>1, <2>5, <2>7, PrepareMoves
    <2> QED BY <1>0, <2>1, <2>3, <2>4, <2>5, <2>6, <2>7, PrepareMoves
  <1>6. CASE LinkBlob(p)
    <2>1. PICK name \in NewNames(c.journal) : FileOp(p, disk, blobs \cup {name}, c)
      BY <1>6 DEF LinkBlob
    <2>2. c.pc \in PreparePcs /\ c.journal \in Journal
      BY <1>0, <1>6 DEF LinkBlob, PreparePcs, LocalsSet
    <2>3. blobs \cup {name} \subseteq Docs \X Keys
      BY <1>0, <2>2, RotationAssumption DEF NewNames, Journal
    <2> QED BY <1>0, <2>1, <2>2, <2>3, PrepareMoves
  <1>7. CASE WriteNewEnvelope(p)
    <2> DEFINE d == [disk EXCEPT !.newEnv = c.new]
    <2> DEFINE e == [c EXCEPT !.pc = "verify"]
    <2>1. FileOp(p, d, blobs, e) /\ c.pc = "link" /\ c.pc \in PreparePcs
      BY <1>7 DEF WriteNewEnvelope, PreparePcs
    <2>2. IsDisk(d) /\ d.db = disk.db /\ d.wal = disk.wal
      BY <1>0, <2>1 DEF IsDisk, Maybe
    <2>3. Openable(d, c.key)
      BY <1>0, <2>1, <2>2 DEF Openable, Content, Present
    <2>4. IsController(e) /\ LocalsSet(e) /\ e.key = c.key
      BY <1>0, <1>a, <2>1 DEF LocalsSet
    <2> HIDE DEF d, e
    <2> QED BY <1>0, <2>1, <2>2, <2>3, <2>4, PrepareMoves
  <1>8. CASE Verify(p)
    <2> DEFINE j == [c.journal EXCEPT !.state = "prepared", !.db = disk.newDb]
    <2> DEFINE e == [c EXCEPT !.pc = "tmp", !.journal = j]
    <2>1. c.pc = "verify" /\ c.pc \in PreparePcs /\ c.journal \in Journal
      BY <1>0, <1>8 DEF Verify, PreparePcs, LocalsSet
    <2>2. \/ Present(disk, "newDb") /\ FileOp(p, disk, blobs, e)
          \/ Moves(p, disk, blobs, OnError(p, disk))
      <3>1. e = [c EXCEPT !.pc = "tmp", !.journal.state = "prepared", !.journal.db = disk.newDb]
        BY <1>0, <2>1 DEF IsController, Journal
      <3> HIDE DEF e
      <3> QED BY <1>8, <3>1 DEF Verify
    <2>3. CASE Moves(p, disk, blobs, OnError(p, disk))
      BY <1>0, <2>1, <2>3, PrepareMoves
    <2>4. CASE Present(disk, "newDb") /\ FileOp(p, disk, blobs, e)
      <3>1. disk.newDb \in Database
        BY <1>0, <2>4 DEF IsDisk, Maybe, Present
      <3>2. j \in Journal
        BY <2>1, <3>1, JournalTyped
      <3> HIDE DEF j
      <3>3. IsController(e) /\ e.pc = "tmp" /\ e.state = c.state /\ e.key = c.key
            /\ e.new = c.new /\ e.journal = j
        BY <1>0, <3>2 DEF IsController, PreparePcs, Maybe
      <3>4. FileOp(p, disk, blobs, e)
        BY <2>4
      <3> HIDE DEF e
      <3>5. LocalsSet(e)
        BY <1>0, <2>1, <3>2, <3>3 DEF LocalsSet
      <3> QED BY <1>0, <2>1, <3>3, <3>4, <3>5, PrepareMoves
    <2> QED BY <2>2, <2>3, <2>4
  <1>b. ASSUME c.pc \in {"image", "imaging"}
        PROVE  /\ Images[c.k] \in {"base", "pre"} /\ c.journal \in Journal /\ c.pc \in PreparePcs
               /\ \A v \in {"keep", "drop"} :
                    LET e == [c EXCEPT !.journal.images[Images[c.k]] = v] IN
                    /\ IsController(e) /\ LocalsSet(e) /\ e.key = c.key /\ e.pc = c.pc
    <2>1. c.k \in 1..2 /\ c.journal \in Journal /\ c.pc \in PreparePcs
      BY <1>0, <1>b DEF LocalsSet, PreparePcs
    <2>2. Images[c.k] \in {"base", "pre"}
      BY <2>1, Steps
    <2> SUFFICES ASSUME NEW v \in {"keep", "drop"}
                 PROVE  LET e == [c EXCEPT !.journal.images[Images[c.k]] = v] IN
                        /\ IsController(e) /\ LocalsSet(e) /\ e.key = c.key /\ e.pc = c.pc
      BY <2>1, <2>2
    <2> DEFINE j == [c.journal EXCEPT !.images[Images[c.k]] = v]
    <2> DEFINE e == [c EXCEPT !.journal = j]
    <2>3. j \in Journal
      BY <2>1, <2>2, JournalTyped
    <2>4. [c EXCEPT !.journal.images[Images[c.k]] = v] = e
      BY <1>0 DEF IsController
    <2> HIDE DEF j
    <2>5. IsController(e) /\ e.pc = c.pc /\ e.state = c.state /\ e.key = c.key
          /\ e.new = c.new /\ e.journal = j /\ e.k = c.k
      BY <1>0, <2>3 DEF IsController, PreparePcs, Maybe
    <2> HIDE DEF e
    <2>6. LocalsSet(e)
      BY <1>0, <1>b, <2>1, <2>3, <2>5 DEF LocalsSet
    <2> QED BY <2>4, <2>5, <2>6
  <1>9. CASE BeginImage(p)
    <2> DEFINE i == Images[c.k]
    <2> DEFINE d == [disk EXCEPT ![ImageNew[i]] = [key |-> c.new, readable |-> FALSE],
                                 ![ImageSides[i]] = "file"]
    <2> DEFINE dropped == [c EXCEPT !.journal.images[i] = "drop"]
    <2> DEFINE e == [c EXCEPT !.pc = "imaging"]
    <2>1. c.pc = "image" /\ c.pc \in PreparePcs
      BY <1>9 DEF BeginImage, PreparePcs
    <2>2. \/ Moves(p, disk, blobs, NextImage(c))
          \/ Moves(p, disk, blobs, NextImage(dropped))
          \/ Moves(p, disk, blobs, OnError(p, disk))
          \/ FileOp(p, d, blobs, e)
      BY <1>9 DEF BeginImage
    <2>3. IsController(NextImage(c)) /\ LocalsSet(NextImage(c)) /\ NextImage(c).key = c.key
      BY <1>0, <2>1, NextImageTyped
    <2>4. IsController(dropped) /\ LocalsSet(dropped) /\ dropped.key = c.key /\ dropped.pc = "image"
      BY <1>b, <2>1
    <2> HIDE DEF dropped
    <2>5. /\ IsController(NextImage(dropped)) /\ LocalsSet(NextImage(dropped))
          /\ NextImage(dropped).key = c.key
      BY <2>4, NextImageTyped
    <2>6. [key |-> c.new, readable |-> FALSE] \in Image
      BY <1>0, <2>1 DEF Image
    <2>7. IsDisk(d) /\ d.db = disk.db /\ d.wal = disk.wal
      <3> DEFINE x == [key |-> c.new, readable |-> FALSE]
      <3>1. i \in {"base", "pre"} /\ x \in Maybe(Image)
        BY <1>b, <2>1, <2>6 DEF Maybe
      <3> HIDE DEF x, i
      <3>2. d = [disk EXCEPT ![ImageNew[i]] = x, ![ImageSides[i]] = "file"]
        BY DEF x, i
      <3> HIDE DEF d
      <3>3. IsDisk(disk)
        BY <1>0
      <3>4. IsDisk(d)
        BY <3>1, <3>2, <3>3, CopyTyped, Zenon
      <3>5. d.db = disk.db /\ d.wal = disk.wal
        BY <3>1, <3>2, <3>3, CopyNames DEF IsDisk
      <3> QED BY <3>4, <3>5
    <2>8. Openable(d, c.key)
      BY <1>0, <2>1, <2>7 DEF Openable, Content, Present
    <2>9. IsController(e) /\ LocalsSet(e) /\ e.key = c.key
      BY <1>0, <1>a, <2>1 DEF LocalsSet, PreparePcs
    <2> HIDE DEF d, e
    <2>10. CASE Moves(p, disk, blobs, NextImage(c)) \/ Moves(p, disk, blobs, OnError(p, disk))
      BY <1>0, <2>1, <2>3, <2>10, PrepareMoves
    <2>11. CASE Moves(p, disk, blobs, NextImage(dropped))
      BY <1>0, <2>1, <2>5, <2>11, PrepareMoves
    <2>12. CASE FileOp(p, d, blobs, e)
      BY <1>0, <2>1, <2>7, <2>8, <2>9, <2>12, PrepareMoves
    <2> QED BY <2>2, <2>10, <2>11, <2>12
  <1>10. CASE EndImage(p)
    <2> DEFINE i == Images[c.k]
    <2> DEFINE d == [disk EXCEPT ![ImageNew[i]] = [key |-> c.new, readable |-> TRUE],
                                 ![ImageSides[i]] = None]
    <2> DEFINE kept == [c EXCEPT !.journal.images[i] = "keep"]
    <2>1. c.pc = "imaging" /\ c.pc \in PreparePcs /\ FileOp(p, d, blobs, NextImage(kept))
      BY <1>10 DEF EndImage, PreparePcs
    <2>2. IsController(kept) /\ LocalsSet(kept) /\ kept.key = c.key /\ kept.pc = "imaging"
      BY <1>b, <2>1
    <2> HIDE DEF kept
    <2>3. IsController(NextImage(kept)) /\ LocalsSet(NextImage(kept)) /\ NextImage(kept).key = c.key
      BY <2>2, NextImageTyped
    <2>4. [key |-> c.new, readable |-> TRUE] \in Image
      BY <1>0, <2>1 DEF Image
    <2>5. IsDisk(d) /\ d.db = disk.db /\ d.wal = disk.wal
      <3> DEFINE x == [key |-> c.new, readable |-> TRUE]
      <3>1. i \in {"base", "pre"} /\ x \in Maybe(Image)
        BY <1>b, <2>1, <2>4 DEF Maybe
      <3> HIDE DEF x, i
      <3>2. d = [disk EXCEPT ![ImageNew[i]] = x, ![ImageSides[i]] = None]
        BY DEF x, i
      <3> HIDE DEF d
      <3>3. IsDisk(disk)
        BY <1>0
      <3>4. IsDisk(d)
        BY <3>1, <3>2, <3>3, CopyTyped, Zenon
      <3>5. d.db = disk.db /\ d.wal = disk.wal
        BY <3>1, <3>2, <3>3, CopyNames DEF IsDisk
      <3> QED BY <3>4, <3>5
    <2>6. Openable(d, c.key)
      BY <1>0, <2>1, <2>5 DEF Openable, Content, Present
    <2> HIDE DEF d
    <2> QED BY <1>0, <2>1, <2>3, <2>5, <2>6, PrepareMoves
  <1>11. CASE AbortPrepare(p)
    <2>1. c.pc = "abort" /\ lease = p /\ c.state # "Unlocked" /\ Openable(disk, c.key)
      BY <1>0, <1>11 DEF AbortPrepare, Owns, LocalsSet, Served
    <2>2. \A j \in Maybe(Journal) : Good(disk, blobs, BeginRollBack(c, j, "abort"))
      BY <1>0, <2>1, BeginsTyped DEF Good, LocalsSet, PreparePcs
    <2>3. disk.journal \in Maybe(Journal) /\ None \in Maybe(Journal)
      BY <1>0 DEF IsDisk, Maybe
    <2> QED BY <1>11, <2>1, <2>2, <2>3, MovesReady DEF AbortPrepare
  <1>12. CASE FinishRotation(p)
    <2>1. c.pc = "finish" /\ lease = p /\ c.state # "Unlocked"
      BY <1>0, <1>12 DEF FinishRotation, Owns, LocalsSet
    <2>2. \A j \in Journal : Good(disk, blobs, BeginApply(c, j, "finish"))
      BY <1>0, <2>1, BeginsTyped DEF Good, LocalsSet, Served, PreparePcs
    <2>3. Committed(disk) => disk.journal \in Journal
      BY <1>0 DEF IsDisk, Maybe, Committed, Present
    <2>4. Good(disk, blobs, [c EXCEPT !.pc = "recover"])
      <3>1. LET e == [c EXCEPT !.pc = "recover"] IN
            IsController(e) /\ e.pc = "recover" /\ e.state = c.state
        BY <1>0 DEF IsController
      <3> QED BY <1>0, <2>1, <3>1 DEF Good, LocalsSet, Served, PreparePcs
    <2> QED BY <1>12, <2>1, <2>2, <2>3, <2>4, MovesReady DEF FinishRotation
  <1> QED BY <1>1, <1>2, <1>3, <1>4, <1>5, <1>6, <1>7, <1>8, <1>9, <1>10, <1>11, <1>12 DEF Prepare

Counted == keys \in Keys /\ acked \subseteq Docs /\ crashes \in 0..MaxCrashes /\ faults \in 0..MaxFaults

LEMMA FaultsCounted ==
    ASSUME faults \in 0..MaxFaults, NEW p, NEW d, NEW b, NEW c,
           FileOp(p, d, b, c) \/ CommitWrite(p, d)
    PROVE  faults' \in 0..MaxFaults /\ faults' >= faults
  BY RotationAssumption DEF FileOp, Fails, CommitWrite

LEMMA CountedStep ==
    ASSUME Counted, [Next]_vars
    PROVE  Counted' /\ faults' >= faults
  <1>1. faults \in 0..MaxFaults /\ MaxFaults \in Nat /\ MaxCrashes \in Nat /\ MaxKeys \in Nat
    BY RotationAssumption DEF Counted
  <1>2. CASE UNCHANGED vars
    BY <1>1, <1>2 DEF vars, Counted
  <1>3. ASSUME NEW p \in Procs, RotateKey(p) \/ Crash(p)
               \/ \E doc \in Docs : Import(p, doc) \/ TornImport(p, doc)
        PROVE  Counted' /\ faults' >= faults
    <2>1. CASE RotateKey(p)
      <3>1. keys' = keys + 1 /\ keys < MaxKeys /\ UNCHANGED <<acked, crashes, faults>>
        BY <2>1 DEF RotateKey
      <3> QED BY <1>1, <3>1 DEF Counted, Keys
    <2>2. CASE Crash(p)
      <3>1. crashes' = crashes + 1 /\ crashes < MaxCrashes /\ UNCHANGED <<keys, acked, faults>>
        BY <2>2 DEF Crash
      <3> QED BY <1>1, <3>1 DEF Counted
    <2>3. ASSUME NEW doc \in Docs, Import(p, doc) PROVE Counted' /\ faults' >= faults
      <3>1. acked' = acked \cup {doc} /\ UNCHANGED <<keys, crashes, faults>>
        BY <2>3 DEF Import
      <3> QED BY <1>1, <3>1 DEF Counted
    <2>4. ASSUME NEW doc \in Docs, TornImport(p, doc) PROVE Counted' /\ faults' >= faults
      <3>1. crashes' = crashes + 1 /\ crashes < MaxCrashes /\ UNCHANGED <<keys, acked, faults>>
        BY <2>4 DEF TornImport
      <3> QED BY <1>1, <3>1 DEF Counted
    <2> QED BY <1>3, <2>1, <2>2, <2>3, <2>4
  <1>4. ASSUME NEW p \in Procs, RollBackStep(p) \/ ApplyStep(p) \/ Prepare(p)
        PROVE  faults' \in 0..MaxFaults /\ faults' >= faults
    <2>1. CASE RollBackStep(p)
      <3>1. \/ UNCHANGED faults
            \/ \E d, b, c : FileOp(p, d, b, c)
        BY <2>1 DEF RollBackStep
      <3> QED BY <1>1, <3>1, FaultsCounted
    <2>2. CASE ApplyStep(p)
      <3>1. \/ UNCHANGED faults
            \/ \E d, b, c : FileOp(p, d, b, c)
        BY <2>2 DEF ApplyStep
      <3> QED BY <1>1, <3>1, FaultsCounted
    <2>3. CASE BeginExport(p) \/ EndExport(p) \/ WriteJournalTmp(p)
      BY <1>1, <2>3, FaultsCounted DEF BeginExport, EndExport, WriteJournalTmp
    <2>4. CASE BeginImage(p) \/ EndImage(p)
      BY <1>1, <2>4, FaultsCounted DEF BeginImage, EndImage
    <2>5. CASE InstallJournal(p) \/ LinkBlob(p) \/ WriteNewEnvelope(p)
      BY <1>1, <2>5, FaultsCounted DEF InstallJournal, LinkBlob, WriteNewEnvelope
    <2>6. CASE Verify(p) \/ AbortPrepare(p)
      BY <1>1, <2>6, FaultsCounted DEF Verify, AbortPrepare
    <2> QED BY <1>4, <2>1, <2>2, <2>3, <2>4, <2>5, <2>6 DEF Prepare
  <1>5. ASSUME NEW p \in Procs, RollBackStep(p) \/ ApplyStep(p) \/ Prepare(p)
        PROVE  UNCHANGED bounds
    BY <1>5 DEF RollBackStep, ApplyStep, Prepare, BeginExport, EndExport, WriteJournalTmp, BeginImage,
                EndImage, InstallJournal, LinkBlob, WriteNewEnvelope, Verify, AbortPrepare
  <1>6. ASSUME NEW p \in Procs, FinishRotation(p) \/ RecoverAfterFinish(p) \/ Reopen(p) \/ OpenWorker(p)
               \/ Open(p) \/ ReadEnvelope(p) \/ Lock(p)
        PROVE  UNCHANGED bounds /\ faults' \in 0..MaxFaults /\ faults' >= faults
    <2>1. UNCHANGED bounds
      BY <1>6 DEF FinishRotation, RecoverAfterFinish, Reopen, OpenWorker, Open, ReadEnvelope, Lock, bounds
    <2>2. UNCHANGED faults \/ (faults < MaxFaults /\ faults' = faults + 1)
      BY <1>6 DEF FinishRotation, RecoverAfterFinish, Reopen, OpenWorker, Open, ReadEnvelope, Lock
    <2> QED BY <1>1, <2>1, <2>2
  <1>7. UNCHANGED bounds /\ faults' \in 0..MaxFaults /\ faults' >= faults => Counted' /\ faults' >= faults
    BY DEF bounds, Counted
  <1> QED BY <1>2, <1>3, <1>4, <1>5, <1>6, <1>7 DEF Next, Proceed

LEMMA ReadyStep ==
    ASSUME Ready, Counted, [Next]_vars
    PROVE  Ready' /\ Counted'
  <1>1. Counted'
    BY CountedStep
  <1>2. CASE UNCHANGED vars
    BY <1>1, <1>2 DEF vars, Ready, LeaseKept
  <1>3. CASE Next
    <2>1. PICK p \in Procs :
              \/ Proceed(p) \/ Open(p) \/ ReadEnvelope(p) \/ Lock(p) \/ RotateKey(p) \/ Crash(p)
              \/ \E doc \in Docs : Import(p, doc) \/ TornImport(p, doc)
      BY <1>3 DEF Next
    <2>2. acked \subseteq Docs /\ keys \in Keys
      BY DEF Counted
    <2>3. CASE RollBackStep(p)
      BY <1>1, <2>3, RollBackReady
    <2>4. CASE ApplyStep(p)
      BY <1>1, <2>4, ApplyReady
    <2>5. CASE RotateKey(p) \/ Prepare(p) \/ FinishRotation(p)
      BY <1>1, <2>2, <2>5, PrepareReady
    <2>6. CASE \/ Open(p) \/ RecoverAfterFinish(p) \/ ReadEnvelope(p) \/ OpenWorker(p) \/ Lock(p)
               \/ Crash(p) \/ Reopen(p)
               \/ \E doc \in Docs : Import(p, doc) \/ TornImport(p, doc)
      BY <1>1, <2>2, <2>6, VaultReady
    <2> QED BY <1>1, <2>1, <2>3, <2>4, <2>5, <2>6 DEF Proceed
  <1> QED BY <1>1, <1>2, <1>3

LEMMA ReadyInit == Init => Ready /\ Counted
  <1> SUFFICES ASSUME Init PROVE Ready /\ Counted
    OBVIOUS
  <1>1. PICK image \in [{"base", "pre"} -> {None} \cup [key : {1}, readable : BOOLEAN]] :
            disk = [db |-> [key |-> 1, rows |-> {}], wal |-> None, newDb |-> None,
                    newSides |-> None, oldDb |-> None, env |-> 1, newEnv |-> None,
                    base |-> image["base"], pre |-> image["pre"], baseNew |-> None,
                    preNew |-> None, baseNewSides |-> None, preNewSides |-> None,
                    probe |-> None, journalTmp |-> None, journal |-> None]
    BY DEF Init
  <1>2. 1 \in Keys
    BY RotationAssumption DEF Keys
  <1>3. image["base"] \in Maybe(Image) /\ image["pre"] \in Maybe(Image)
    BY <1>2 DEF Maybe, Image
  <1>4. [key |-> 1, rows |-> {}] \in Database
    BY <1>2 DEF Database
  <1>5. IsDisk(disk)
    BY <1>1, <1>2, <1>3, <1>4 DEF IsDisk, Maybe
  <1>6. /\ blobs = {} /\ lease = None /\ ctl = [p \in Procs |-> Off] /\ keys = 1 /\ acked = {}
        /\ crashes = 0 /\ faults = 0
    BY DEF Init
  <1>7. Good(disk, blobs, Off) /\ ~Owns(Off)
    BY <1>5, <1>6, IdleGood
  <1>8. Ready
    <2>1. \A p \in Procs : ctl[p] = Off /\ p # None
      BY <1>6, RotationAssumption
    <2> QED BY <1>5, <1>6, <1>7, <2>1 DEF Ready, LeaseKept
  <1>9. Counted
    BY <1>2, <1>6, RotationAssumption DEF Counted
  <1> QED BY <1>8, <1>9

LEMMA ReadyAlways == Spec => [](Ready /\ Counted)
  BY ReadyInit, ReadyStep, PTL DEF Spec

(***************************************************************************)
(* The files, the controllers and the journal keep their types, for any     *)
(* number of processes, crashes and failing operations (rekey.rs,           *)
(* vault.rs).                                                                *)
(***************************************************************************)
THEOREM RotationTypeCorrect == Spec => []TypeOK
  <1>1. Ready /\ Counted => TypeOK
    <2> SUFFICES ASSUME Ready, Counted PROVE TypeOK
      OBVIOUS
    <2> QED BY DEF Ready, Good, Counted, TypeOK
  <1> QED BY <1>1, ReadyAlways, PTL

----------------------------------------------------------------------------
(***************************************************************************)
(* From here on there is one process, and at most one of its operations     *)
(* fails: whatever instant it dies at, what is on disk is the old vault or   *)
(* the new one.                                                              *)
(***************************************************************************)

(* What the files hold: d are the files, b the blobs, a the rows that were   *)
(* acknowledged, k the keys generated so far.                                *)

\* A live image before the commit, and the copy a rotation made of it.
ImageIsOld(live, copy, key) ==
    /\ live # None => live.key = key
    /\ copy # None => live # None /\ live.readable

\* An image after the commit, by its entry in the journal.
ImageIsNew(entry, live, copy, key) ==
    /\ entry = "keep" => [key |-> key, readable |-> TRUE] = IF copy # None THEN copy ELSE live
    /\ entry # "keep" => copy = None
    /\ entry = "absent" => live = None

\* Before the commit: the live files are whole, and a rotation's leftovers are not theirs.
Old(d, b, a, k) ==
    /\ ~Committed(d)
    /\ Openable(d, d.env) /\ Content(d).rows = a /\ d.env <= k
    /\ a \X {d.env} \subseteq b
    /\ Present(d, "journal") => d.journal.new > d.env
    /\ ImageIsOld(d.base, d.baseNew, d.env) /\ ImageIsOld(d.pre, d.preNew, d.env)

\* After it: the files the journal names are whole, waiting or in place.
New(d, b, a, k) ==
    /\ Committed(d)
    /\ d.journal.db = [key |-> d.journal.new, rows |-> a] /\ d.journal.docs = a
    /\ d.journal.new <= k
    /\ InPlace(d, "newDb", "db", d.journal.db)
    /\ ~Present(d, "newDb") => ~Present(d, "wal")
    /\ InPlace(d, "newEnv", "env", d.journal.new)
    /\ Present(d, "env") /\ d.env <= d.journal.new
    /\ a \X {d.journal.new} \subseteq b
    /\ ImageIsNew(d.journal.images["base"], d.base, d.baseNew, d.journal.new)
    /\ ImageIsNew(d.journal.images["pre"], d.pre, d.preNew, d.journal.new)

----------------------------------------------------------------------------
(* Where the process is, and what it has made so far. *)

InOld(c) ==
    \/ c.pc = "ready" /\ c.state \in {"Locked", "Unlocked"}
    \/ c.pc \in PreparePcs \cup {"unlock", "abort", "rollback", "reopen"}
InNew(c) == c.pc \in {"finish", "apply"}

\* A rotation's copy and its journal agree with the database they were made from.
CopyMade(c, d, a) ==
    /\ ~Present(d, "wal") /\ d.newDb = [key |-> c.new, rows |-> a]
    /\ c.journal.new = c.new /\ c.journal.docs = a

\* The journal's entry for an image tells what became of it.
ImageDone(entry, live, copy, key) ==
    /\ entry = "absent" => live = None
    /\ entry = "drop" => live # None /\ ~live.readable
    /\ entry = "keep" => copy = [key |-> key, readable |-> TRUE]

ImagesDone(c, d) ==
    /\ IF c.pc \in {"image", "imaging"}
       THEN c.journal.images["pre"] = "absent"
       ELSE ImageDone(c.journal.images["pre"], d.pre, d.preNew, c.new)
    /\ IF c.pc \in {"image", "imaging"} /\ c.k = 1
       THEN c.journal.images["base"] = "absent"
       ELSE ImageDone(c.journal.images["base"], d.base, d.baseNew, c.new)

Preparing(c, d, b, a, k) ==
    /\ c.pc \in PreparePcs => c.new > d.env /\ c.new <= k
    /\ c.pc = "exporting" => ~Present(d, "wal")
    /\ c.pc \in PreparePcs \ {"export", "exporting"} => CopyMade(c, d, a) /\ ImagesDone(c, d)
    /\ c.pc \in {"image", "imaging"} => c.journal.state = "preparing"
    /\ c.pc = "imaging" => Present(d, Images[c.k]) /\ d[Images[c.k]].readable
    /\ c.pc = "verify" => d.newEnv = c.new /\ a \X {c.new} \subseteq b
    /\ c.pc \in {"tmp", "install"} /\ c.journal.state # "preparing" =>
           d.newEnv = c.new /\ a \X {c.new} \subseteq b /\ c.journal.db = d.newDb

\* What the first n - 1 steps of apply_committed have done.
Done(n, d) ==
    /\ n > 1 => ~Present(d, "wal")
    /\ n > 3 => ~Present(d, "newDb")
    /\ n > 4 => ~Present(d, "newEnv")
    /\ n > 5 => d.baseNew = None /\ (d.journal.images["base"] # "keep" => d.base = None)
    /\ n > 6 => d.preNew = None /\ (d.journal.images["pre"] # "keep" => d.pre = None)

Applying(c, d) == c.pc = "apply" => c.journal = d.journal /\ Done(c.k, d)

\* The process, the files and the blobs fit together; e says whether an operation has failed.
Fits(c, d, b, a, k, e) ==
    /\ Old(d, b, a, k) \/ New(d, b, a, k)
    /\ InOld(c) => Old(d, b, a, k)
    /\ InNew(c) => New(d, b, a, k)
    /\ c.pc = "unlock" => c.key = d.env
    /\ c.pc = "rollback" /\ c.journal # None => c.journal.new > d.env
    /\ Preparing(c, d, b, a, k)
    /\ Applying(c, d)
    /\ c.state = "Corrupt" => e

Whole == faults <= 1 => \A p \in Procs : Fits(ctl[p], disk, blobs, acked, keys, faults > 0)

\* One process has the vault to itself.
Alone == \E p \in Procs : Procs = {p}

----------------------------------------------------------------------------
(* How a process goes on. *)

\* A committed rotation can always be finished.
LEMMA NewAgrees ==
    ASSUME NEW d, IsDisk(d), NEW b, NEW a, NEW k, New(d, b, a, k)
    PROVE  CommittedFilesAgree(d, b, d.journal) /\ d.journal \in Journal
  <1>1. d.journal \in Journal
    <2>1. d.journal # None
      BY DEF New, Committed, Present
    <2> QED BY <2>1 DEF IsDisk, Maybe
  <1>2. d.journal.db # None
    <2>1. d.journal.new \in Keys /\ a \in SUBSET Docs
      BY <1>1 DEF New, Journal
    <2>2. [key |-> d.journal.new, rows |-> a] \in Database
      BY <2>1 DEF Database
    <2> QED BY <2>2, RotationAssumption DEF New
  <1>3. NewNames(d.journal) \subseteq b
    BY <1>1 DEF New, NewNames
  <1>4. ImageNew["base"] = "baseNew" /\ ImageNew["pre"] = "preNew"
    BY DEF ImageNew
  <1>5. \A i \in {"base", "pre"} : d.journal.images[i] = "keep" =>
            InPlace(d, ImageNew[i], i, [key |-> d.journal.new, readable |-> TRUE])
    BY <1>4 DEF New, ImageIsNew, InPlace, Present
  <1> QED BY <1>1, <1>2, <1>3, <1>5 DEF New, CommittedFilesAgree

\* Recovery that is over: the vault is locked, or an operation failed.
LEMMA RecoveredFits ==
    ASSUME NEW d, IsDisk(d), NEW b, NEW a, NEW k, NEW e,
           Old(d, b, a, k) \/ New(d, b, a, k), Present(d, "journal") => e
    PROVE  Fits(Recovered(d), d, b, a, k, e)
  <1>1. CASE Present(d, "journal")
    <2>1. Recovered(d) = Idle("Corrupt")
      BY <1>1 DEF Recovered, Classify
    <2> QED BY <1>1, <2>1 DEF Fits, InOld, InNew, Preparing, Applying, Idle, PreparePcs
  <1>2. CASE ~Present(d, "journal")
    <2>1. Old(d, b, a, k)
      BY <1>2 DEF New, Committed
    <2>2. Present(d, "db") /\ Present(d, "env")
      BY <2>1, RotationAssumption DEF Old, Openable, IsDisk, Maybe, Present, Database
    <2>3. Recovered(d) = Idle("Locked")
      BY <1>2, <2>2 DEF Recovered, Classify, ClassifyFiles
    <2> QED BY <2>1, <2>3 DEF Fits, InOld, InNew, Preparing, Applying, Idle, PreparePcs
  <1> QED BY <1>1, <1>2

\* A process at rest, unlocked or locked; a process that does not run.
LEMMA IdleFits ==
    ASSUME NEW d, NEW b, NEW a, NEW k, NEW e
    PROVE  /\ Old(d, b, a, k) \/ New(d, b, a, k) => Fits(Off, d, b, a, k, e)
           /\ \A c : c.pc = "ready" /\ c.state \in {"Locked", "Unlocked"} /\ Old(d, b, a, k)
                     => Fits(c, d, b, a, k, e)
  BY DEF Fits, InOld, InNew, Preparing, Applying, Idle, Off, PreparePcs

\* The only process moves.
LEMMA MovesFits ==
    ASSUME Alone, Ready, NEW p \in Procs, NEW d, NEW b, NEW c, Moves(p, d, b, c),
           Fits(c, d, b, acked', keys', faults' > 0)
    PROVE  Whole'
  <1>1. disk' = d /\ blobs' = b /\ ctl'[p] = c
    BY DEF Moves, Ready
  <1>2. \A q \in Procs : Fits(ctl'[q], disk', blobs', acked', keys', faults' > 0)
    <2>1. \A q \in Procs : q = p
      BY DEF Alone
    <2> QED BY <1>1, <2>1
  <1> QED BY <1>2 DEF Whole

\* Where a process is after an operation failed.
LEMMA OnErrorFits ==
    ASSUME NEW p, IsController(ctl[p]), NEW d, IsDisk(d), NEW b, NEW a, NEW k, NEW e,
           Old(d, b, a, k) \/ New(d, b, a, k),
           ctl[p].pc \in PreparePcs \/ ctl[p].caller = "abort" => Old(d, b, a, k),
           ~e => ctl[p].pc \in PreparePcs /\ ctl[p].state # "Corrupt"
    PROVE  Fits(OnError(p, d), d, b, a, k, e)
  <1> DEFINE c == ctl[p]
  <1>1. CASE c.pc \in PreparePcs
    <2>1. OnError(p, d) = [c EXCEPT !.pc = "abort"]
      BY <1>1 DEF OnError
    <2>2. OnError(p, d).pc = "abort" /\ OnError(p, d).state = c.state
      BY <2>1 DEF IsController
    <2> QED BY <1>1, <2>2 DEF Fits, InOld, InNew, Preparing, Applying, PreparePcs
  <1>2. CASE c.pc \notin PreparePcs /\ c.caller = "abort"
    <2>1. OnError(p, d) = [Idle("Unlocked") EXCEPT !.key = c.key]
      BY <1>2 DEF OnError
    <2>2. OnError(p, d).pc = "ready" /\ OnError(p, d).state = "Unlocked"
      BY <2>1 DEF Idle
    <2> QED BY <1>2, <2>2, IdleFits
  <1>3. CASE c.pc \notin PreparePcs /\ c.caller = "finish"
    <2>1. OnError(p, d) = [c EXCEPT !.pc = "recover"]
      BY <1>3 DEF OnError
    <2>2. OnError(p, d).pc = "recover"
      BY <2>1 DEF IsController
    <2> QED BY <1>3, <2>2 DEF Fits, InOld, InNew, Preparing, Applying, PreparePcs
  <1>4. CASE c.pc \notin PreparePcs /\ c.caller \notin {"abort", "finish"}
    <2>1. OnError(p, d) = Recovered(d)
      BY <1>4 DEF OnError
    <2> QED BY <1>4, <2>1, RecoveredFits
  <1> QED BY <1>1, <1>2, <1>3, <1>4

\* A file operation of the only process.
LEMMA FileOpFits ==
    ASSUME Alone, Ready, Counted, faults' <= 1, acked' = acked, keys' = keys,
           NEW p \in Procs, Fits(ctl[p], disk, blobs, acked, keys, faults > 0),
           ctl[p].pc \in PreparePcs \cup {"rollback", "apply"},
           NEW d, IsDisk(d), NEW b, NEW c, FileOp(p, d, b, c),
           Old(d, b, acked, keys) \/ New(d, b, acked, keys),
           InOld(ctl[p]) => Old(d, b, acked, keys),
           Fits(c, d, b, acked, keys, faults > 0)
    PROVE  Whole'
  <1>1. IsController(ctl[p]) /\ LocalsSet(ctl[p]) /\ IsDisk(disk) /\ faults \in Nat
    BY DEF Ready, Good, Counted
  <1>2. CASE Moves(p, d, b, c) /\ UNCHANGED faults
    <2>1. Fits(c, d, b, acked', keys', faults' > 0)
      BY <1>2
    <2> QED BY <1>2, <2>1, MovesFits
  <1>3. CASE Fails(p, d, b)
    <2>1. faults' > 0
      BY <1>1, <1>3 DEF Fails
    <2>3. ctl[p].pc \in PreparePcs \/ ctl[p].caller = "abort" => InOld(ctl[p])
      <3>1. ctl[p].pc = "apply" => ctl[p].caller # "abort"
        BY <1>1 DEF LocalsSet
      <3> QED BY <3>1 DEF InOld
    <2>4. Fits(OnError(p, d), d, b, acked, keys, faults' > 0)
      BY <1>1, <2>1, <2>3, OnErrorFits
    <2>5. Fits(OnError(p, disk), disk, blobs, acked, keys, faults' > 0)
      BY <1>1, <2>1, <2>3, OnErrorFits DEF Fits
    <2> QED BY <1>3, <2>4, <2>5, MovesFits DEF Fails
  <1> QED BY <1>2, <1>3 DEF FileOp

----------------------------------------------------------------------------
(* Rolling back leaves the old vault, applying a committed journal leads to  *)
(* the new one.                                                              *)

\* What is removed by a roll-back is not the old vault's.
LEMMA RemoveOld ==
    ASSUME NEW d, IsDisk(d), NEW b, NEW a, NEW k, Old(d, b, a, k), NEW f \in Leftovers
    PROVE  IsDisk(Remove(d, f)) /\ Old(Remove(d, f), b, a, k)
           /\ Remove(d, f).env = d.env
           /\ (f = "journal" => ~Present(Remove(d, f), "journal"))
  <1> DEFINE r == Remove(d, f)
  <1>1. IsDisk(r)
    BY RemoveTyped
  <1>2. /\ r.db = d.db /\ r.wal = d.wal /\ r.env = d.env /\ r.base = d.base /\ r.pre = d.pre
        /\ r.journal \in {d.journal, None} /\ r.baseNew \in {d.baseNew, None}
        /\ r.preNew \in {d.preNew, None} /\ (f = "journal" => r.journal = None)
    BY DEF IsDisk, Remove, Leftovers
  <1> HIDE DEF r
  <1>3. Openable(r, r.env) /\ Content(r).rows = a
    BY <1>2 DEF Old, Openable, Content, Present
  <1>4. ~Committed(r) /\ (Present(r, "journal") => r.journal.new > r.env)
    BY <1>2 DEF Old, Committed, Present
  <1>5. ImageIsOld(r.base, r.baseNew, r.env) /\ ImageIsOld(r.pre, r.preNew, r.env)
    BY <1>2 DEF Old, ImageIsOld
  <1>6. Old(r, b, a, k)
    BY <1>2, <1>3, <1>4, <1>5 DEF Old
  <1> QED BY <1>1, <1>2, <1>6 DEF r, Present

LEMMA RollBackFits ==
    ASSUME Alone, Ready, Counted, faults' <= 1, NEW p \in Procs,
           Fits(ctl[p], disk, blobs, acked, keys, faults > 0), RollBackStep(p)
    PROVE  Whole'
  <1> DEFINE c == ctl[p]
  <1> DEFINE f == RollBackOrder[c.k]
  <1> DEFINE next(d) == IF c.k = Len(RollBackOrder) THEN RolledBack(c, d) ELSE [c EXCEPT !.k = @ + 1]
  <1>1. /\ c.pc = "rollback" /\ IsController(c) /\ IsDisk(disk)
        /\ c.k \in 1..11 /\ c.caller \in {"open", "abort"} /\ acked' = acked /\ keys' = keys
    BY DEF RollBackStep, Ready, Good, LocalsSet, bounds
  <1>2. Old(disk, blobs, acked, keys) /\ (c.state = "Corrupt" => faults > 0)
        /\ (c.journal # None => c.journal.new > disk.env)
    BY <1>1 DEF Fits, InOld
  <1>3. ASSUME NEW d, IsDisk(d), Old(d, blobs, acked, keys), d.env = disk.env,
               c.k = 11 => ~Present(d, "journal")
        PROVE  Fits(next(d), d, blobs, acked, keys, faults > 0)
    <2>1. CASE c.k # 11
      <3>1. next(d) = [c EXCEPT !.k = c.k + 1]
        BY <2>1, Steps
      <3>2. /\ next(d).pc = "rollback" /\ next(d).journal = c.journal /\ next(d).state = c.state
        BY <3>1, <1>1 DEF IsController
      <3> HIDE DEF next
      <3> QED BY <1>2, <1>3, <3>2 DEF Fits, InOld, InNew, Preparing, Applying, PreparePcs
    <2>2. CASE c.k = 11 /\ c.caller = "abort"
      <3>1. next(d) = [Idle("Unlocked") EXCEPT !.key = c.key]
        BY <2>2, Steps DEF RolledBack
      <3>2. next(d).pc = "ready" /\ next(d).state = "Unlocked"
        BY <3>1 DEF Idle
      <3> HIDE DEF next
      <3> QED BY <1>3, <3>2, IdleFits
    <2>3. CASE c.k = 11 /\ c.caller # "abort"
      <3>1. next(d) = Recovered(d)
        BY <2>3, Steps DEF RolledBack
      <3> HIDE DEF next
      <3> QED BY <1>3, <2>3, <3>1, RecoveredFits
    <2> QED BY <2>1, <2>2, <2>3
  <1>4. CASE f # "blobs"
    <2> DEFINE d == Remove(disk, f)
    <2>1. f \in Leftovers /\ (c.k = 11 => f = "journal")
      BY <1>1, <1>4, Steps DEF Leftovers, RollBackOrder
    <2>2. FileOp(p, d, blobs, next(d))
      BY <1>1, <1>4 DEF RollBackStep
    <2>3. /\ IsDisk(d) /\ Old(d, blobs, acked, keys) /\ d.env = disk.env
          /\ c.k = 11 => ~Present(d, "journal")
      BY <1>1, <1>2, <2>1, RemoveOld
    <2> HIDE DEF f, d
    <2>4. Fits(next(d), d, blobs, acked, keys, faults > 0)
      BY <1>3, <2>3
    <2> HIDE DEF next
    <2> QED BY <1>1, <2>2, <2>3, <2>4, FileOpFits
  <1>5. CASE f = "blobs"
    <2>1. \/ \E name \in blobs : FileOp(p, disk, blobs \ {name}, c) /\ name \in NewNames(c.journal)
          \/ Moves(p, disk, blobs, next(disk)) /\ UNCHANGED faults
      BY <1>1, <1>5 DEF RollBackStep
    <2>2. CASE Moves(p, disk, blobs, next(disk)) /\ UNCHANGED faults
      <3>1. c.k # 11
        BY <1>5 DEF RollBackOrder
      <3>2. Fits(next(disk), disk, blobs, acked', keys', faults' > 0)
        BY <1>1, <1>2, <1>3, <2>2, <3>1
      <3> HIDE DEF next
      <3> QED BY <2>2, <3>2, MovesFits
    <2>3. ASSUME NEW name \in blobs, FileOp(p, disk, blobs \ {name}, c), name \in NewNames(c.journal)
          PROVE  Whole'
      <3>1. name \notin acked \X {disk.env}
        <4>1. c.journal # None /\ c.journal \in Journal
          BY <1>1, <2>3 DEF NewNames, IsController, Maybe
        <4>2. disk.env \in Keys /\ c.journal.new \in Keys /\ c.journal.new > disk.env
          BY <1>1, <1>2, <4>1, RotationAssumption DEF Old, Openable, IsDisk, Maybe, Present, Database, Journal
        <4>3. c.journal.new # disk.env
          BY <4>2 DEF Keys
        <4> QED BY <2>3, <4>1, <4>3 DEF NewNames
      <3>2. Old(disk, blobs \ {name}, acked, keys)
        BY <1>2, <3>1 DEF Old
      <3>3. Fits(c, disk, blobs \ {name}, acked, keys, faults > 0)
        BY <1>1, <1>2, <3>2 DEF Fits, InOld, InNew, Preparing, Applying, PreparePcs
      <3> QED BY <1>1, <2>3, <3>2, <3>3, FileOpFits
    <2> QED BY <2>1, <2>2, <2>3
  <1> QED BY <1>4, <1>5

\* Each step of apply_committed keeps the new vault whole.
LEMMA ApplyNew ==
    ASSUME NEW d, IsDisk(d), NEW b, NEW a, NEW k, New(d, b, a, k),
           NEW n \in 1..9, Done(n, d), ApplyOrder[n] # "oldBlobs"
    PROVE  LET e == ApplyOp(d, d.journal, ApplyOrder[n]) IN
           New(e, b, a, k) /\ Done(n + 1, e) /\ e.journal = d.journal
  <1> DEFINE j == d.journal
  <1> DEFINE e == ApplyOp(d, j, ApplyOrder[n])
  <1>0. /\ Committed(d) /\ j \in Journal
        /\ j.images["base"] \in {"absent", "keep", "drop"}
        /\ j.images["pre"] \in {"absent", "keep", "drop"}
        /\ j.db # None /\ j.new # None /\ j.new <= k
        /\ j.new <= j.new
    <2>1. j \in Journal /\ j.db # None
      BY NewAgrees DEF CommittedFilesAgree
    <2>2. Committed(d) /\ j.new <= k
      BY DEF New
    <2>3. /\ j.new \in Keys
          /\ j.images["base"] \in {"absent", "keep", "drop"}
          /\ j.images["pre"] \in {"absent", "keep", "drop"}
      BY <2>1 DEF Journal
    <2> QED BY <2>1, <2>2, <2>3, RotationAssumption DEF Keys
  <1>a. ASSUME e.journal = j,
               /\ InPlace(e, "newDb", "db", j.db) /\ (~Present(e, "newDb") => ~Present(e, "wal"))
               /\ InPlace(e, "newEnv", "env", j.new) /\ Present(e, "env") /\ e.env <= j.new
               /\ ImageIsNew(j.images["base"], e.base, e.baseNew, j.new)
               /\ ImageIsNew(j.images["pre"], e.pre, e.preNew, j.new)
        PROVE  New(e, b, a, k)
    <2>1. Committed(e)
      BY <1>0, <1>a DEF Committed, Present
    <2> HIDE DEF e
    <2> QED BY <1>a, <2>1 DEF New
  <1>1. CASE n = 1
    <2>1. e = Remove(d, "wal")
      BY <1>1 DEF ApplyOrder, ApplyOp
    <2>2. /\ e.wal = None
          /\ e.journal = j /\ e.newDb = d.newDb /\ e.db = d.db /\ e.newEnv = d.newEnv
          /\ e.env = d.env /\ e.base = d.base /\ e.pre = d.pre /\ e.baseNew = d.baseNew
          /\ e.preNew = d.preNew
      BY <1>0, <2>1 DEF Remove, IsDisk
    <2> HIDE DEF e
    <2>3. New(e, b, a, k)
      BY <1>0, <1>a, <2>2 DEF New, ImageIsNew, InPlace, Present, Done
    <2>4. Done(n + 1, e)
      BY <1>0, <1>1, <2>2 DEF Done, Present
    <2> QED BY <2>2, <2>3, <2>4 DEF e
  <1>2. CASE n = 2
    <2>1. e = IF Present(d, "newDb") /\ Present(d, "db") THEN Rename(d, "db", "oldDb") ELSE d
      BY <1>2 DEF ApplyOrder, ApplyOp
    <2>2. /\ e.db = d.db \/ d.newDb # None
          /\ e.journal = j /\ e.wal = d.wal /\ e.newDb = d.newDb /\ e.newEnv = d.newEnv
          /\ e.env = d.env /\ e.base = d.base /\ e.pre = d.pre /\ e.baseNew = d.baseNew
          /\ e.preNew = d.preNew
      BY <1>0, <2>1 DEF Rename, IsDisk, Present
    <2> HIDE DEF e
    <2>3. New(e, b, a, k)
      BY <1>0, <1>a, <2>2, <1>2 DEF New, ImageIsNew, InPlace, Present, Done
    <2>4. Done(n + 1, e)
      BY <1>0, <1>2, <2>2 DEF Done, Present
    <2> QED BY <2>2, <2>3, <2>4 DEF e
  <1>3. CASE n = 3
    <2>1. e = IF Present(d, "newDb") THEN Rename(d, "newDb", "db") ELSE d
      BY <1>3 DEF ApplyOrder, ApplyOp
    <2>2. /\ e.newDb = None /\ e.db = IF d.newDb # None THEN d.newDb ELSE d.db
          /\ e.journal = j /\ e.wal = d.wal /\ e.newEnv = d.newEnv /\ e.env = d.env
          /\ e.base = d.base /\ e.pre = d.pre /\ e.baseNew = d.baseNew /\ e.preNew = d.preNew
      BY <1>0, <2>1 DEF Rename, IsDisk, Present
    <2> HIDE DEF e
    <2>3. New(e, b, a, k)
      BY <1>0, <1>a, <2>2, <1>3 DEF New, ImageIsNew, InPlace, Present, Done
    <2>4. Done(n + 1, e)
      BY <1>0, <1>3, <2>2 DEF Done, Present
    <2> QED BY <2>2, <2>3, <2>4 DEF e
  <1>4. CASE n = 4
    <2>1. e = IF Present(d, "newEnv") THEN Rename(d, "newEnv", "env") ELSE d
      BY <1>4 DEF ApplyOrder, ApplyOp
    <2>2. /\ e.newEnv = None /\ e.env = IF d.newEnv # None THEN d.newEnv ELSE d.env
          /\ e.journal = j /\ e.wal = d.wal /\ e.newDb = d.newDb /\ e.db = d.db
          /\ e.base = d.base /\ e.pre = d.pre /\ e.baseNew = d.baseNew /\ e.preNew = d.preNew
      BY <1>0, <2>1 DEF Rename, IsDisk, Present
    <2> HIDE DEF e
    <2>3. New(e, b, a, k)
      BY <1>0, <1>a, <2>2, <1>4 DEF New, ImageIsNew, InPlace, Present, Done
    <2>4. Done(n + 1, e)
      BY <1>0, <1>4, <2>2 DEF Done, Present
    <2> QED BY <2>2, <2>3, <2>4 DEF e
  <1>5. CASE n = 5
    <2>1. e = SwapImage(d, j, "base")
      BY <1>5 DEF ApplyOrder, ApplyOp
    <2>2. /\ e.baseNew = None
          /\ e.base = IF j.images["base"] = "drop" THEN None
                     ELSE IF j.images["base"] = "keep" /\ d.baseNew # None THEN d.baseNew ELSE d.base
          /\ e.journal = j /\ e.wal = d.wal /\ e.newDb = d.newDb /\ e.db = d.db
          /\ e.newEnv = d.newEnv /\ e.env = d.env /\ e.pre = d.pre /\ e.preNew = d.preNew
      BY <1>0, <2>1 DEF SwapImage, Remove, Rename, IsDisk, Present, New, ImageIsNew, ImageNew
    <2> HIDE DEF e
    <2>3. New(e, b, a, k)
      BY <1>0, <1>a, <2>2, <1>5 DEF New, ImageIsNew, InPlace, Present, Done
    <2>4. Done(n + 1, e)
      BY <1>0, <1>5, <2>2 DEF Done, Present, New, ImageIsNew
    <2> QED BY <2>2, <2>3, <2>4 DEF e
  <1>6. CASE n = 6
    <2>1. e = SwapImage(d, j, "pre")
      BY <1>6 DEF ApplyOrder, ApplyOp
    <2>2. /\ e.preNew = None
          /\ e.pre = IF j.images["pre"] = "drop" THEN None
                     ELSE IF j.images["pre"] = "keep" /\ d.preNew # None THEN d.preNew ELSE d.pre
          /\ e.journal = j /\ e.wal = d.wal /\ e.newDb = d.newDb /\ e.db = d.db
          /\ e.newEnv = d.newEnv /\ e.env = d.env /\ e.base = d.base /\ e.baseNew = d.baseNew
      BY <1>0, <2>1 DEF SwapImage, Remove, Rename, IsDisk, Present, New, ImageIsNew, ImageNew
    <2> HIDE DEF e
    <2>3. New(e, b, a, k)
      BY <1>0, <1>a, <2>2, <1>6 DEF New, ImageIsNew, InPlace, Present, Done
    <2>4. Done(n + 1, e)
      BY <1>0, <1>6, <2>2 DEF Done, Present, New, ImageIsNew
    <2> QED BY <2>2, <2>3, <2>4 DEF e
  <1>7. CASE n = 8 \/ n = 9
    <2>1. e = Remove(d, ApplyOrder[n]) /\ ApplyOrder[n] \in {"oldDb", "journalTmp"}
      BY <1>7 DEF ApplyOrder, ApplyOp
    <2>2. /\ DOMAIN e = DOMAIN d
          /\ e.journal = j /\ e.wal = d.wal /\ e.newDb = d.newDb /\ e.db = d.db
          /\ e.newEnv = d.newEnv /\ e.env = d.env /\ e.base = d.base /\ e.pre = d.pre
          /\ e.baseNew = d.baseNew /\ e.preNew = d.preNew
      BY <2>1 DEF Remove, IsDisk
    <2> HIDE DEF e
    <2>3. New(e, b, a, k)
      BY <1>0, <1>a, <2>2 DEF New, InPlace, Present
    <2>4. Done(n + 1, e)
      BY <1>7, <2>2 DEF Done, Present
    <2> QED BY <2>2, <2>3, <2>4 DEF e
  <1>8. n # 7
    BY DEF ApplyOrder
  <1>9. n \in {1, 2, 3, 4, 5, 6, 8, 9}
    BY <1>8
  <1> QED BY <1>1, <1>2, <1>3, <1>4, <1>5, <1>6, <1>7, <1>9

\* Removing the journal, the last step, leaves the new vault as the one in place.
LEMMA ApplyLast ==
    ASSUME NEW d, IsDisk(d), NEW b, NEW a, NEW k, New(d, b, a, k), Done(10, d)
    PROVE  /\ IsDisk(Remove(d, "journal")) /\ Old(Remove(d, "journal"), b, a, k)
           /\ ~Present(Remove(d, "journal"), "journal")
  <1> DEFINE r == Remove(d, "journal")
  <1>1. IsDisk(r)
    BY RemoveTyped DEF Leftovers
  <1>2. /\ r.journal = None /\ r.db = d.db /\ r.wal = d.wal /\ r.env = d.env
        /\ r.base = d.base /\ r.pre = d.pre /\ r.baseNew = d.baseNew /\ r.preNew = d.preNew
    BY DEF Remove, IsDisk
  <1> HIDE DEF r
  <1>3. /\ d.journal \in Journal /\ d.journal.db # None
        /\ d.journal.images["base"] \in {"absent", "keep", "drop"}
        /\ d.journal.images["pre"] \in {"absent", "keep", "drop"}
    BY NewAgrees DEF Journal, CommittedFilesAgree
  <1>4. /\ r.wal = None /\ r.db = [key |-> r.env, rows |-> a] /\ r.db # None
        /\ r.env = d.journal.new
    BY <1>2, <1>3 DEF New, Done, InPlace, Present
  <1>5. Openable(r, r.env) /\ Content(r).rows = a
    BY <1>4 DEF Openable, Content, Present
  <1>6. ImageIsOld(r.base, r.baseNew, r.env) /\ ImageIsOld(r.pre, r.preNew, r.env)
    BY <1>2, <1>3, <1>4 DEF New, Done, ImageIsOld, ImageIsNew
  <1>7. ~Committed(r) /\ ~Present(r, "journal")
    BY <1>2 DEF Committed, Present
  <1>8. r.env <= k /\ a \X {r.env} \subseteq b
    BY <1>4 DEF New
  <1>9. Old(r, b, a, k)
    BY <1>5, <1>6, <1>7, <1>8 DEF Old
  <1> QED BY <1>1, <1>7, <1>9 DEF r
LEMMA ApplyFits ==
    ASSUME Alone, Ready, Counted, faults' <= 1, NEW p \in Procs,
           Fits(ctl[p], disk, blobs, acked, keys, faults > 0), ApplyStep(p)
    PROVE  Whole'
  <1> DEFINE c == ctl[p]
  <1> DEFINE op == ApplyOrder[c.k]
  <1> DEFINE d == ApplyOp(disk, c.journal, op)
  <1> DEFINE next(e) == IF c.k = Len(ApplyOrder) THEN Applied(c, e) ELSE [c EXCEPT !.k = @ + 1]
  <1>1. /\ c.pc = "apply" /\ IsController(c) /\ IsDisk(disk)
        /\ c.k \in 1..10 /\ c.caller \in {"open", "finish"} /\ acked' = acked /\ keys' = keys
    BY DEF ApplyStep, Ready, Good, LocalsSet, bounds
  <1>2. New(disk, blobs, acked, keys) /\ (c.state = "Corrupt" => faults > 0)
        /\ c.journal = disk.journal /\ Done(c.k, disk)
    BY <1>1 DEF Fits, InNew, Applying
  <1>3. ~InOld(c)
    BY <1>1 DEF InOld, PreparePcs
  <1>4. ASSUME NEW e, New(e, blobs, acked, keys), c.k # 10, Done(c.k + 1, e),
               e.journal = disk.journal
        PROVE  Fits(next(e), e, blobs, acked, keys, faults > 0)
    <2>1. next(e) = [c EXCEPT !.k = c.k + 1]
      BY <1>4, Steps
    <2>2. /\ next(e).pc = "apply" /\ next(e).journal = c.journal /\ next(e).state = c.state
          /\ next(e).k = c.k + 1
      BY <2>1, <1>1 DEF IsController
    <2> HIDE DEF next
    <2> QED BY <1>2, <1>4, <2>2 DEF Fits, InOld, InNew, Preparing, Applying, PreparePcs
  <1>5. CASE op = "oldBlobs"
    <2>0. c.k # 10 /\ c.k = 7
      <3>1. \A k \in 1..10 : ApplyOrder[k] = "oldBlobs" => k = 7
        <4>1. \A k \in 1..10 : k = 1 \/ k = 2 \/ k = 3 \/ k = 4 \/ k = 5 \/ k = 6 \/ k = 7 \/ k = 8
                               \/ k = 9 \/ k = 10
          OBVIOUS
        <4> QED BY <4>1 DEF ApplyOrder
      <3> QED BY <1>1, <1>5, <3>1
    <2>1. \/ \E name \in blobs : /\ FileOp(p, disk, blobs \ {name}, c)
                                 /\ name \in OldNames(c.journal) \ NewNames(c.journal)
          \/ Moves(p, disk, blobs, next(disk)) /\ UNCHANGED faults
      BY <1>1, <1>5 DEF ApplyStep
    <2>2. CASE Moves(p, disk, blobs, next(disk)) /\ UNCHANGED faults
      <3>1. Done(c.k + 1, disk)
        BY <1>2, <2>0 DEF Done
      <3>2. Fits(next(disk), disk, blobs, acked', keys', faults' > 0)
        BY <1>1, <1>2, <1>4, <2>0, <2>2, <3>1
      <3> HIDE DEF next
      <3> QED BY <2>2, <3>2, MovesFits
    <2>3. ASSUME NEW name \in blobs, FileOp(p, disk, blobs \ {name}, c),
                 name \in OldNames(c.journal) \ NewNames(c.journal)
          PROVE  Whole'
      <3>1. name \notin acked \X {disk.journal.new}
        <4>1. disk.journal # None /\ disk.journal.docs = acked
          BY <1>2 DEF New, Committed, Present
        <4> QED BY <1>2, <2>3, <4>1 DEF NewNames
      <3>2. New(disk, blobs \ {name}, acked, keys)
        BY <1>2, <3>1 DEF New
      <3>3. Fits(c, disk, blobs \ {name}, acked, keys, faults > 0)
        BY <1>1, <1>2, <3>2 DEF Fits, InOld, InNew, Preparing, Applying, PreparePcs
      <3> QED BY <1>1, <1>3, <2>3, <3>2, <3>3, FileOpFits
    <2> QED BY <2>1, <2>2, <2>3
  <1>6. CASE op # "oldBlobs" /\ c.k # 10
    <2>1. FileOp(p, d, blobs, next(d))
      BY <1>1, <1>6 DEF ApplyStep
    <2>2. IsDisk(d)
      BY <1>1, <1>2, <1>6, NewAgrees, ApplyTyped
    <2>3. c.k \in 1..9
      BY <1>1, <1>6
    <2>4. New(d, blobs, acked, keys) /\ Done(c.k + 1, d) /\ d.journal = disk.journal
      BY <1>1, <1>2, <1>6, <2>3, ApplyNew
    <2>5. Fits(next(d), d, blobs, acked, keys, faults > 0)
      BY <1>4, <1>6, <2>4
    <2> HIDE DEF next, d, op
    <2> QED BY <1>1, <1>3, <2>1, <2>2, <2>4, <2>5, FileOpFits
  <1>7. CASE op # "oldBlobs" /\ c.k = 10
    <2>1. FileOp(p, d, blobs, next(d))
      BY <1>1, <1>7 DEF ApplyStep
    <2>2. d = Remove(disk, "journal")
      BY <1>7 DEF ApplyOrder, ApplyOp
    <2>3. IsDisk(d) /\ Old(d, blobs, acked, keys) /\ ~Present(d, "journal")
      BY <1>1, <1>2, <1>7, <2>2, ApplyLast
    <2>4. Fits(next(d), d, blobs, acked, keys, faults > 0)
      <3>1. CASE c.caller = "finish"
        <4>1. next(d) = [c EXCEPT !.pc = "reopen"]
          BY <1>7, <3>1, Steps DEF Applied
        <4>2. next(d).pc = "reopen" /\ next(d).state = c.state
          BY <4>1, <1>1 DEF IsController
        <4> HIDE DEF next, d
        <4> QED BY <1>2, <2>3, <4>2 DEF Fits, InOld, InNew, Preparing, Applying, PreparePcs
      <3>2. CASE c.caller # "finish"
        <4>1. next(d) = Recovered(d)
          BY <1>7, <3>2, Steps DEF Applied
        <4> HIDE DEF next, d
        <4> QED BY <2>3, <4>1, RecoveredFits
      <3> QED BY <3>1, <3>2
    <2> HIDE DEF next, d, op
    <2> QED BY <1>1, <1>3, <2>1, <2>3, <2>4, FileOpFits
  <1> QED BY <1>5, <1>6, <1>7

----------------------------------------------------------------------------
(* Opening, unlocking, writing, locking, dying. *)

\* Recovery finds the vault it has to restore.
LEMMA DecideFits ==
    ASSUME NEW c, IsController(c), IsDisk(disk), NEW a, NEW k, NEW e,
           c.state = "Corrupt" => e,
           Old(disk, blobs, a, k) \/ New(disk, blobs, a, k)
    PROVE  Fits(Decide(c, "open"), disk, blobs, a, k, e)
  <1> DEFINE j == disk.journal
  <1>1. CASE New(disk, blobs, a, k)
    <2>1. Committed(disk) /\ j # None /\ j \in Journal /\ CommittedFilesAgree(disk, blobs, j)
      BY <1>1, NewAgrees DEF New, Committed, Present
    <2>2. Decide(c, "open") = BeginApply(c, j, "open")
      BY <2>1 DEF Decide
    <2> DEFINE x == BeginApply(c, j, "open")
    <2>3. x.pc = "apply" /\ x.k = 1 /\ x.journal = j /\ x.state = c.state
      BY <2>1, BeginsTyped
    <2> HIDE DEF x
    <2>4. Done(1, disk)
      BY DEF Done
    <2>5. Fits(x, disk, blobs, a, k, e)
      BY <1>1, <2>3, <2>4 DEF Fits, InOld, InNew, Preparing, Applying, PreparePcs
    <2> QED BY <2>2, <2>5 DEF x
  <1>2. CASE Old(disk, blobs, a, k)
    <2>1. ~Committed(disk) /\ (j # None => j.new > disk.env)
      BY <1>2 DEF Old, Present
    <2>2. ASSUME NEW i \in Maybe(Journal), i \in {None, j}
          PROVE  Fits(BeginRollBack(c, i, "open"), disk, blobs, a, k, e)
      <3> DEFINE x == BeginRollBack(c, i, "open")
      <3>1. x.pc = "rollback" /\ x.k = 1 /\ x.journal = i /\ x.state = c.state
        BY BeginsTyped
      <3> HIDE DEF x
      <3>2. Fits(x, disk, blobs, a, k, e)
        BY <1>2, <2>1, <2>2, <3>1 DEF Fits, InOld, InNew, Preparing, Applying, PreparePcs
      <3> QED BY <3>2 DEF x
    <2>3. j \in Maybe(Journal) /\ None \in Maybe(Journal)
      BY DEF IsDisk, Maybe
    <2>4. j = None => Fits(Recovered(disk), disk, blobs, a, k, e)
      BY <1>2, RecoveredFits DEF Present
    <2> QED BY <2>1, <2>2, <2>3, <2>4 DEF Decide
  <1> QED BY <1>1, <1>2

LEMMA VaultFits ==
    ASSUME Alone, Ready, Counted, faults' <= 1, NEW p \in Procs,
           Fits(ctl[p], disk, blobs, acked, keys, faults > 0),
           \/ Open(p) \/ RecoverAfterFinish(p) \/ ReadEnvelope(p) \/ OpenWorker(p) \/ Lock(p)
           \/ Crash(p) \/ Reopen(p)
           \/ \E doc \in Docs : TornImport(p, doc)
    PROVE  Whole'
  <1> DEFINE c == ctl[p]
  <1>1. /\ IsController(c) /\ LocalsSet(c) /\ IsDisk(disk) /\ faults \in Nat
        /\ Owns(c) <=> lease = p
        /\ lease \in {None, p}
        /\ Served(c) => Openable(disk, c.key)
    BY DEF Ready, Good, Counted, LeaseKept, Alone
  <1>2. /\ acked' = acked /\ keys' = keys
        /\ faults' = faults \/ faults' = faults + 1
    BY DEF Open, RecoverAfterFinish, ReadEnvelope, OpenWorker, Lock, Crash, Reopen, TornImport, bounds
  <1>3. Old(disk, blobs, acked, keys) \/ New(disk, blobs, acked, keys)
    BY DEF Fits
  <1>4. (faults > 0 => faults' > 0) /\ (faults' = faults + 1 => faults' > 0)
    BY <1>1, <1>2
  <1>5. CASE Open(p)
    <2>1. Fits(Decide(Idle("NoVault"), "open"), disk, blobs, acked, keys, faults' > 0)
      <3>1. IsController(Idle("NoVault")) /\ Idle("NoVault").state # "Corrupt"
        BY RotationAssumption DEF Idle, IsController, Maybe
      <3> QED BY <1>1, <1>3, <3>1, DecideFits
    <2>2. CASE Moves(p, disk, blobs, Decide(Idle("NoVault"), "open"))
      BY <1>2, <2>1, <2>2, MovesFits
    <2>3. CASE faults' = faults + 1 /\ Moves(p, disk, blobs, Recovered(disk))
      <3>1. Fits(Recovered(disk), disk, blobs, acked, keys, faults' > 0)
        BY <1>1, <1>3, <1>4, <2>3, RecoveredFits
      <3> QED BY <1>2, <2>3, <3>1, MovesFits
    <2> QED BY <1>1, <1>5, <2>2, <2>3 DEF Open
  <1>6. CASE RecoverAfterFinish(p)
    <2>1. c.state = "Corrupt" => faults' > 0
      BY <1>4 DEF Fits
    <2>2. Fits(Decide(c, "open"), disk, blobs, acked, keys, faults' > 0)
      BY <1>1, <1>3, <2>1, DecideFits
    <2>3. Moves(p, disk, blobs, Decide(c, "open"))
      BY <1>6 DEF RecoverAfterFinish
    <2> QED BY <1>2, <2>2, <2>3, MovesFits
  <1>7. CASE ReadEnvelope(p)
    <2>1. Old(disk, blobs, acked, keys)
      BY <1>7 DEF ReadEnvelope, Fits, InOld
    <2>2. Present(disk, "env")
      BY <1>1, <2>1, RotationAssumption DEF Old, Openable, IsDisk, Maybe, Present, Database
    <2> DEFINE x == [Idle("Unlocking") EXCEPT !.pc = "unlock", !.key = disk.env]
    <2>3. Moves(p, disk, blobs, x)
      BY <1>7, <2>2 DEF ReadEnvelope
    <2>4. x.pc = "unlock" /\ x.key = disk.env /\ x.state = "Unlocking"
      BY DEF Idle
    <2> HIDE DEF x
    <2>5. Fits(x, disk, blobs, acked, keys, faults' > 0)
      BY <2>1, <2>4 DEF Fits, InOld, InNew, Preparing, Applying, PreparePcs
    <2> QED BY <1>2, <2>3, <2>5, MovesFits
  <1>8. CASE OpenWorker(p)
    <2>1. c.pc = "unlock" /\ c.key = disk.env
      BY <1>8 DEF OpenWorker, Fits
    <2>2. Old(disk, blobs, acked, keys)
      BY <2>1 DEF Fits, InOld
    <2>3. lease = None
      BY <1>1, <2>1 DEF Owns, LocalsSet
    <2>4. Moves(p, disk, blobs, [Idle("Unlocked") EXCEPT !.key = c.key])
      BY <1>8, <2>1, <2>2, <2>3 DEF OpenWorker, Old
    <2> DEFINE x == [Idle("Unlocked") EXCEPT !.key = c.key]
    <2>5. x.pc = "ready" /\ x.state = "Unlocked"
      BY DEF Idle
    <2> HIDE DEF x
    <2>6. Fits(x, disk, blobs, acked, keys, faults' > 0)
      BY <2>2, <2>5, IdleFits
    <2> QED BY <1>2, <2>4, <2>6, MovesFits DEF x
  <1>9. CASE Lock(p)
    <2>1. PICK d \in {[disk EXCEPT !.db = Content(disk), !.wal = None], disk} :
              Moves(p, d, blobs, Idle("Locked"))
      BY <1>9 DEF Lock
    <2>2. Old(disk, blobs, acked, keys)
      BY <1>9 DEF Lock, KernelFree, Fits, InOld
    <2>3. Old(d, blobs, acked, keys)
      <3>1. CASE d = disk
        BY <2>2, <3>1
      <3>2. CASE d = [disk EXCEPT !.db = Content(disk), !.wal = None]
        <4>1. /\ d.db = Content(disk) /\ d.wal = None /\ d.env = disk.env
              /\ d.base = disk.base /\ d.pre = disk.pre /\ d.baseNew = disk.baseNew
              /\ d.preNew = disk.preNew /\ d.journal = disk.journal
          BY <1>1, <3>2 DEF IsDisk
        <4>2. Content(disk) # None /\ Content(disk).key = disk.env
          BY <2>2 DEF Old, Openable, Content, Present
        <4>3. Openable(d, d.env) /\ Content(d) = Content(disk)
          BY <4>1, <4>2 DEF Openable, Content, Present
        <4> QED BY <2>2, <4>1, <4>3 DEF Old, Committed, Present
      <3> QED BY <2>1, <3>1, <3>2
    <2>4. Fits(Idle("Locked"), d, blobs, acked, keys, faults' > 0)
      BY <2>3, IdleFits DEF Idle
    <2> QED BY <1>2, <2>1, <2>4, MovesFits
  <1>10. CASE Crash(p)
    BY <1>2, <1>3, <1>10, IdleFits, MovesFits DEF Crash
  <1>11. CASE Reopen(p)
    <2>1. Old(disk, blobs, acked, keys)
      BY <1>11 DEF Reopen, Fits, InOld
    <2>2. PICK x : Moves(p, disk, blobs, x) /\ x.pc = "ready" /\ x.state \in {"Locked", "Unlocked"}
      BY <1>11 DEF Reopen, Idle
    <2>3. Fits(x, disk, blobs, acked, keys, faults' > 0)
      BY <2>1, <2>2, IdleFits
    <2> QED BY <1>2, <2>2, <2>3, MovesFits
  <1>12. ASSUME NEW doc \in Docs, TornImport(p, doc) PROVE Whole'
    <2>1. Moves(p, disk, blobs \cup {<<doc, c.key>>}, Off) /\ KernelFree(p)
      BY <1>12 DEF TornImport
    <2>2. Old(disk, blobs, acked, keys)
      BY <2>1 DEF KernelFree, Fits, InOld
    <2>3. Old(disk, blobs \cup {<<doc, c.key>>}, acked, keys)
      BY <2>2 DEF Old
    <2>4. Fits(Off, disk, blobs \cup {<<doc, c.key>>}, acked, keys, faults' > 0)
      BY <2>3, IdleFits
    <2> QED BY <1>2, <2>1, <2>4, MovesFits
  <1> QED BY <1>5, <1>6, <1>7, <1>8, <1>9, <1>10, <1>11, <1>12

\* A write is in the log and its blob is there before it is acknowledged.
LEMMA ImportFits ==
    ASSUME Alone, Ready, Counted, NEW p \in Procs, NEW doc \in Docs,
           Fits(ctl[p], disk, blobs, acked, keys, faults > 0), Import(p, doc)
    PROVE  Whole'
  <1> DEFINE c == ctl[p]
  <1> DEFINE w == [key |-> c.key, rows |-> Content(disk).rows \cup {doc}]
  <1> DEFINE d == [disk EXCEPT !.wal = w]
  <1> DEFINE b == blobs \cup {<<doc, c.key>>}
  <1>1. /\ IsController(c) /\ IsDisk(disk) /\ c.pc = "ready" /\ c.state = "Unlocked"
        /\ Openable(disk, c.key)
    BY DEF Ready, Good, Import, KernelFree, Served
  <1>2. /\ disk' = d /\ blobs' = b /\ acked' = acked \cup {doc} /\ keys' = keys /\ ctl' = ctl
        /\ faults' = faults
    BY DEF Import
  <1>3. Old(disk, blobs, acked, keys)
    BY <1>1 DEF Fits, InOld
  <1>4. c.key = disk.env
    BY <1>1, <1>3 DEF Old, Openable
  <1>5. w # None
    <2>1. Content(disk) \in Database /\ c.key \in Keys
      BY <1>1, RotationAssumption DEF Openable, Content, IsDisk, Maybe, Present, Database
    <2>2. w \in Database
      BY <2>1 DEF Database
    <2> QED BY <2>2, RotationAssumption
  <1>6. /\ d.wal = w /\ d.db = disk.db /\ d.env = disk.env
        /\ d.base = disk.base /\ d.pre = disk.pre /\ d.baseNew = disk.baseNew
        /\ d.preNew = disk.preNew /\ d.journal = disk.journal
    BY <1>1 DEF IsDisk
  <1>7. w.key = disk.env /\ w.rows = acked \cup {doc}
    BY <1>3, <1>4 DEF Old
  <1> HIDE DEF w, d
  <1>8. Openable(d, d.env) /\ Content(d).rows = acked \cup {doc}
    BY <1>1, <1>4, <1>5, <1>6, <1>7 DEF Openable, Content, Present
  <1>9. Old(d, b, acked \cup {doc}, keys)
    <2>1. (acked \cup {doc}) \X {d.env} \subseteq b
      BY <1>3, <1>4, <1>6 DEF Old
    <2> HIDE DEF b
    <2> QED BY <1>3, <1>6, <1>8, <2>1 DEF Old, Committed, Present
  <1> HIDE DEF b
  <1>10. Fits(c, d, b, acked \cup {doc}, keys, faults > 0)
    BY <1>1, <1>9, IdleFits
  <1>11. \A q \in Procs : q = p
    BY DEF Alone
  <1> QED BY <1>2, <1>10, <1>11 DEF Whole

----------------------------------------------------------------------------
(* A rotation up to its commit, and the commit. *)

\* The old vault is still the old vault.
LEMMA OldKept ==
    ASSUME NEW d, NEW b, NEW a, NEW k, Old(d, b, a, k), NEW r, NEW b2, b \subseteq b2,
           r.env = d.env, Openable(r, r.env), Content(r) = Content(d),
           r.base = d.base, r.pre = d.pre,
           r.journal # None => r.journal.state # "committed" /\ r.journal.new > r.env,
           ImageIsOld(r.base, r.baseNew, r.env), ImageIsOld(r.pre, r.preNew, r.env)
    PROVE  Old(r, b2, a, k)
  BY DEF Old, Committed, Present

\* A step of prepare that goes on, or gives up.
LEMMA PrepareFits ==
    ASSUME Alone, Ready, Counted, faults' <= 1, acked' = acked, keys' = keys,
           NEW p \in Procs, Fits(ctl[p], disk, blobs, acked, keys, faults > 0),
           ctl[p].pc \in PreparePcs,
           NEW d, IsDisk(d), NEW b, Old(d, b, acked, keys),
           NEW e, e.pc \in PreparePcs, e.state = ctl[p].state, Preparing(e, d, b, acked, keys),
           \/ FileOp(p, d, b, e)
           \/ UNCHANGED faults /\ (Moves(p, d, b, e) \/ Moves(p, d, b, OnError(p, d)))
    PROVE  Whole'
  <1>1. e.state = "Corrupt" => faults > 0
    BY DEF Fits
  <1>2. Fits(e, d, b, acked, keys, faults > 0)
    BY <1>1 DEF Fits, InNew, Applying, PreparePcs
  <1>3. CASE FileOp(p, d, b, e)
    BY <1>2, <1>3, FileOpFits
  <1>4. CASE UNCHANGED faults /\ Moves(p, d, b, e)
    <2>1. Fits(e, d, b, acked', keys', faults' > 0)
      BY <1>2, <1>4
    <2> QED BY <1>4, <2>1, MovesFits
  <1>5. CASE UNCHANGED faults /\ Moves(p, d, b, OnError(p, d))
    <2>1. IsController(ctl[p])
      BY DEF Ready, Good
    <2>2. Fits(OnError(p, d), d, b, acked, keys, faults > 0)
      BY <1>1, <2>1, OnErrorFits
    <2>3. Fits(OnError(p, d), d, b, acked', keys', faults' > 0)
      BY <1>5, <2>2
    <2> QED BY <1>5, <2>3, MovesFits
  <1> QED BY <1>3, <1>4, <1>5

\* Entering an image in the journal.
LEMMA MarkImage ==
    ASSUME NEW c, IsController(c), LocalsSet(c), c.pc \in {"image", "imaging"},
           NEW i \in {"base", "pre"}, NEW v \in {"keep", "drop"},
           NEW e, e = [c EXCEPT !.journal.images[i] = v]
    PROVE  /\ IsController(e) /\ LocalsSet(e) /\ e.pc = c.pc /\ e.k = c.k /\ e.new = c.new
           /\ e.state = c.state /\ e.journal \in Journal
           /\ e.journal.new = c.journal.new /\ e.journal.docs = c.journal.docs
           /\ e.journal.state = c.journal.state /\ e.journal.old = c.journal.old
           /\ \A l \in {"base", "pre"} :
                  e.journal.images[l] = IF l = i THEN v ELSE c.journal.images[l]
  <1> DEFINE j == [c.journal EXCEPT !.images[i] = v]
  <1>1. c.journal \in Journal
    BY DEF LocalsSet
  <1>2. j \in Journal
    BY <1>1, JournalTyped
  <1>3. /\ j.new = c.journal.new /\ j.docs = c.journal.docs /\ j.state = c.journal.state
        /\ j.old = c.journal.old
        /\ \A l \in {"base", "pre"} : j.images[l] = IF l = i THEN v ELSE c.journal.images[l]
    BY <1>1 DEF Journal
  <1>4. e = [c EXCEPT !.journal = j]
    BY DEF IsController
  <1> HIDE DEF j
  <1>5. /\ IsController(e) /\ e.pc = c.pc /\ e.k = c.k /\ e.new = c.new /\ e.key = c.key
        /\ e.state = c.state /\ e.journal = j
    BY <1>2, <1>4 DEF IsController, Maybe
  <1>6. LocalsSet(e)
    BY <1>2, <1>5 DEF LocalsSet, PreparePcs
  <1> QED BY <1>2, <1>3, <1>5, <1>6

\* The loop over the images goes on once the entry of this one tells what became of it.
LEMMA NextImageFits ==
    ASSUME NEW x, IsController(x), LocalsSet(x), x.pc \in {"image", "imaging"},
           NEW d, NEW b, NEW a, NEW k,
           x.new > d.env, x.new <= k, CopyMade(x, d, a), x.journal.state = "preparing",
           IF x.k = 1 THEN /\ ImageDone(x.journal.images["base"], d.base, d.baseNew, x.new)
                           /\ x.journal.images["pre"] = "absent"
                      ELSE /\ ImageDone(x.journal.images["base"], d.base, d.baseNew, x.new)
                           /\ ImageDone(x.journal.images["pre"], d.pre, d.preNew, x.new)
    PROVE  /\ Preparing(NextImage(x), d, b, a, k) /\ NextImage(x).pc \in PreparePcs
           /\ NextImage(x).state = x.state
  <1> DEFINE e == NextImage(x)
  <1>1. /\ e.new = x.new /\ e.journal = x.journal /\ e.state = x.state
        /\ IF x.k = 2 THEN e.pc = "tmp" ELSE e.pc = "image" /\ e.k = x.k + 1
    BY NextImageTyped
  <1>2. x.k = 1 \/ x.k = 2
    BY DEF LocalsSet
  <1> HIDE DEF e
  <1>3. CopyMade(e, d, a)
    BY <1>1 DEF CopyMade
  <1>4. ImagesDone(e, d)
    BY <1>1, <1>2 DEF ImagesDone
  <1>5. Preparing(e, d, b, a, k)
    BY <1>1, <1>2, <1>3, <1>4 DEF Preparing, PreparePcs
  <1> QED BY <1>1, <1>2, <1>5 DEF e, PreparePcs

\* What a step of prepare starts from.
LEMMA PreparingNow ==
    ASSUME Ready, Counted, NEW p \in Procs, ctl[p].pc \in PreparePcs,
           Fits(ctl[p], disk, blobs, acked, keys, faults > 0)
    PROVE  /\ IsController(ctl[p]) /\ LocalsSet(ctl[p]) /\ IsDisk(disk)
           /\ Old(disk, blobs, acked, keys) /\ Preparing(ctl[p], disk, blobs, acked, keys)
           /\ Openable(disk, ctl[p].key) /\ ctl[p].key = disk.env
           /\ disk.env \in Keys /\ ctl[p].new \in Keys
           /\ disk.journal # None => disk.journal.state # "committed" /\ disk.journal.new > disk.env
  <1> DEFINE c == ctl[p]
  <1>1. IsController(c) /\ LocalsSet(c) /\ IsDisk(disk) /\ Openable(disk, c.key) /\ c.new \in Keys
    BY DEF Ready, Good, Served, LocalsSet
  <1>2. Old(disk, blobs, acked, keys) /\ Preparing(c, disk, blobs, acked, keys)
    BY DEF Fits, InOld
  <1>3. c.key = disk.env
    BY <1>1, <1>2 DEF Old, Openable
  <1>4. disk.env \in Keys
    BY <1>1, <1>3 DEF Openable, IsDisk, Maybe, Present, Database
  <1>5. disk.journal # None => disk.journal.state # "committed" /\ disk.journal.new > disk.env
    BY <1>2 DEF Old, Committed, Present
  <1> QED BY <1>1, <1>2, <1>3, <1>4, <1>5

LEMMA RotateFits ==
    ASSUME Alone, Ready, Counted, faults' <= 1, NEW p \in Procs,
           Fits(ctl[p], disk, blobs, acked, keys, faults > 0), RotateKey(p)
    PROVE  Whole'
  <1> DEFINE c == ctl[p]
  <1> DEFINE d == [disk EXCEPT !.probe = IF blobs = {} THEN None ELSE "file"]
  <1> DEFINE e == [c EXCEPT !.state = "Rekeying", !.pc = "export", !.new = keys + 1]
  <1>1. /\ Moves(p, d, blobs, e) /\ keys' = keys + 1 /\ acked' = acked /\ faults' = faults
        /\ disk.journal = None /\ c.pc = "ready" /\ c.state = "Unlocked"
    BY DEF RotateKey, KernelFree, Present
  <1>2. /\ IsController(c) /\ IsDisk(disk) /\ keys \in Nat /\ Openable(disk, c.key)
    BY <1>1 DEF Ready, Good, Counted, Keys, Served
  <1>3. Old(disk, blobs, acked, keys)
    BY <1>1 DEF Fits, InOld
  <1>4. disk.env \in Nat
    BY <1>2, <1>3 DEF Old, Openable, IsDisk, Maybe, Present, Database, Keys
  <1>5. /\ d.db = disk.db /\ d.wal = disk.wal /\ d.env = disk.env /\ d.journal = None
        /\ d.base = disk.base /\ d.pre = disk.pre /\ d.baseNew = disk.baseNew
        /\ d.preNew = disk.preNew
    BY <1>1, <1>2 DEF IsDisk
  <1>6. e.pc = "export" /\ e.state = "Rekeying" /\ e.new = keys + 1
    BY <1>2 DEF IsController
  <1> HIDE DEF d, e
  <1>7. Old(d, blobs, acked, keys + 1)
    <2>1. Openable(d, d.env) /\ Content(d).rows = acked /\ ~Committed(d) /\ ~Present(d, "journal")
      BY <1>3, <1>5 DEF Old, Openable, Content, Present, Committed
    <2>2. d.env <= keys + 1
      BY <1>2, <1>3, <1>4, <1>5 DEF Old
    <2> QED BY <1>3, <1>5, <2>1, <2>2 DEF Old
  <1>8. keys + 1 > disk.env /\ keys + 1 <= keys + 1
    BY <1>2, <1>3, <1>4 DEF Old
  <1>9. Fits(e, d, blobs, acked', keys', faults' > 0)
    BY <1>1, <1>5, <1>6, <1>7, <1>8 DEF Fits, InNew, Preparing, Applying, PreparePcs
  <1> QED BY <1>1, <1>9, MovesFits

LEMMA ExportFits ==
    ASSUME Alone, Ready, Counted, faults' <= 1, NEW p \in Procs,
           Fits(ctl[p], disk, blobs, acked, keys, faults > 0), BeginExport(p) \/ EndExport(p)
    PROVE  Whole'
  <1> DEFINE c == ctl[p]
  <1>0. c.pc \in PreparePcs /\ acked' = acked /\ keys' = keys
    BY DEF BeginExport, EndExport, PreparePcs, bounds
  <1>1. /\ IsController(c) /\ LocalsSet(c) /\ IsDisk(disk)
        /\ Old(disk, blobs, acked, keys) /\ Preparing(c, disk, blobs, acked, keys)
        /\ Openable(disk, c.key) /\ c.key = disk.env /\ c.new \in Keys
        /\ disk.journal # None => disk.journal.state # "committed" /\ disk.journal.new > disk.env
    BY <1>0, PreparingNow
  <1>2. /\ Content(disk) \in Database /\ disk.db \in Database /\ Content(disk).rows = acked
        /\ Content(disk).key = disk.env /\ c.new > disk.env /\ c.new <= keys
    BY <1>0, <1>1 DEF Openable, Content, IsDisk, Maybe, Present, Old, Preparing
  <1>3. CASE BeginExport(p)
    <2> DEFINE x == [key |-> c.new, rows |-> {}]
    <2> DEFINE d == [disk EXCEPT !.probe = None, !.db = Content(disk), !.wal = None,
                                 !.newDb = x, !.newSides = "file"]
    <2> DEFINE e == [c EXCEPT !.pc = "exporting"]
    <2>1. FileOp(p, d, blobs, e)
      BY <1>3 DEF BeginExport
    <2>2. x \in Database
      BY <1>1 DEF Database
    <2> HIDE DEF x
    <2>3. /\ IsDisk(d) /\ d.db = Content(disk) /\ d.wal = None /\ d.env = disk.env
          /\ d.base = disk.base /\ d.pre = disk.pre /\ d.baseNew = disk.baseNew
          /\ d.preNew = disk.preNew /\ d.journal = disk.journal
      BY <1>1, <1>2, <2>2 DEF IsDisk, Maybe
    <2>4. e.pc = "exporting" /\ e.new = c.new /\ e.state = c.state
      BY <1>1 DEF IsController
    <2> HIDE DEF d, e
    <2>5. Openable(d, d.env) /\ Content(d) = Content(disk)
      BY <1>2, <2>3, RotationAssumption DEF Openable, Content, Present
    <2>6. Old(d, blobs, acked, keys)
      <3>1. ImageIsOld(d.base, d.baseNew, d.env) /\ ImageIsOld(d.pre, d.preNew, d.env)
        BY <1>1, <2>3 DEF Old
      <3> QED BY <1>1, <2>3, <2>5, <3>1, OldKept
    <2>7. Preparing(e, d, blobs, acked, keys) /\ e.pc \in PreparePcs
      BY <1>2, <2>3, <2>4 DEF Preparing, PreparePcs, Present
    <2> QED BY <1>0, <2>1, <2>3, <2>4, <2>6, <2>7, PrepareFits
  <1>4. CASE EndExport(p)
    <2> DEFINE x == [key |-> c.new, rows |-> disk.db.rows]
    <2> DEFINE d == [disk EXCEPT !.newDb = x, !.newSides = None]
    <2> DEFINE j == [state |-> "preparing", old |-> c.key, new |-> c.new, docs |-> disk.db.rows,
                     db |-> None, images |-> [base |-> "absent", pre |-> "absent"]]
    <2> DEFINE e == [c EXCEPT !.pc = "image", !.k = 1, !.journal = j]
    <2>1. FileOp(p, d, blobs, e) /\ c.pc = "exporting"
      BY <1>4 DEF EndExport
    <2>2. disk.wal = None /\ disk.db.rows = acked
      BY <1>1, <1>2, <2>1 DEF Preparing, Content, Present
    <2>3. x \in Database /\ x = [key |-> c.new, rows |-> acked]
      BY <1>1, <1>2, <2>2 DEF Database
    <2> HIDE DEF x
    <2>4. /\ IsDisk(d) /\ d.newDb = x /\ d.db = disk.db /\ d.wal = disk.wal /\ d.env = disk.env
          /\ d.base = disk.base /\ d.pre = disk.pre /\ d.baseNew = disk.baseNew
          /\ d.preNew = disk.preNew /\ d.journal = disk.journal
      BY <1>1, <2>3 DEF IsDisk, Maybe
    <2>5. /\ j.state = "preparing" /\ j.new = c.new /\ j.docs = acked
          /\ j.images["base"] = "absent" /\ j.images["pre"] = "absent"
      BY <2>2
    <2> HIDE DEF j
    <2>6. e.pc = "image" /\ e.new = c.new /\ e.state = c.state /\ e.k = 1 /\ e.journal = j
      BY <1>1 DEF IsController
    <2> HIDE DEF d, e
    <2>7. Openable(d, d.env) /\ Content(d) = Content(disk)
      BY <1>1, <2>4 DEF Openable, Content, Present
    <2>8. Old(d, blobs, acked, keys)
      <3>1. ImageIsOld(d.base, d.baseNew, d.env) /\ ImageIsOld(d.pre, d.preNew, d.env)
        BY <1>1, <2>4 DEF Old
      <3> QED BY <1>1, <2>4, <2>7, <3>1, OldKept
    <2>9. CopyMade(e, d, acked) /\ ImagesDone(e, d)
      BY <2>2, <2>3, <2>4, <2>5, <2>6 DEF CopyMade, ImagesDone, Present
    <2>10. Preparing(e, d, blobs, acked, keys) /\ e.pc \in PreparePcs
      BY <1>2, <2>4, <2>5, <2>6, <2>9 DEF Preparing, PreparePcs
    <2> QED BY <1>0, <2>1, <2>4, <2>6, <2>8, <2>10, PrepareFits
  <1> QED BY <1>3, <1>4

LEMMA ImageFits ==
    ASSUME Alone, Ready, Counted, faults' <= 1, NEW p \in Procs,
           Fits(ctl[p], disk, blobs, acked, keys, faults > 0), BeginImage(p) \/ EndImage(p)
    PROVE  Whole'
  <1> DEFINE c == ctl[p]
  <1> DEFINE i == Images[c.k]
  <1>0. c.pc \in {"image", "imaging"} /\ c.pc \in PreparePcs /\ acked' = acked /\ keys' = keys
    BY DEF BeginImage, EndImage, PreparePcs, bounds
  <1>1. /\ IsController(c) /\ LocalsSet(c) /\ IsDisk(disk)
        /\ Old(disk, blobs, acked, keys) /\ Preparing(c, disk, blobs, acked, keys)
        /\ Openable(disk, c.key) /\ c.key = disk.env /\ c.new \in Keys
        /\ disk.journal # None => disk.journal.state # "committed" /\ disk.journal.new > disk.env
    BY <1>0, PreparingNow
  <1>2. /\ (c.k = 1 /\ i = "base") \/ (c.k = 2 /\ i = "pre")
        /\ i \in {"base", "pre"}
    BY <1>0, <1>1, Steps DEF LocalsSet
  <1>3. /\ c.new > disk.env /\ c.new <= keys /\ CopyMade(c, disk, acked)
        /\ ImagesDone(c, disk) /\ c.journal.state = "preparing"
    BY <1>0, <1>1 DEF Preparing
  <1>4. /\ c.journal.images["pre"] = "absent"
        /\ c.k = 1 => c.journal.images["base"] = "absent"
        /\ c.k = 2 => ImageDone(c.journal.images["base"], disk.base, disk.baseNew, c.new)
    BY <1>0, <1>2, <1>3 DEF ImagesDone
  <1>5. /\ i = "base" => ImageNew[i] = "baseNew" /\ ImageSides[i] = "baseNewSides"
        /\ i = "pre" => ImageNew[i] = "preNew" /\ ImageSides[i] = "preNewSides"
    BY DEF ImageNew, ImageSides
  <1>6. ASSUME NEW v \in {"keep", "drop"}, NEW d, d.env = disk.env, d.wal = disk.wal,
               d.newDb = disk.newDb, d.base = disk.base, d.pre = disk.pre,
               i # "base" => d.baseNew = disk.baseNew,
               i = "base" => ImageDone(v, d.base, d.baseNew, c.new),
               i = "pre" => ImageDone(v, d.pre, d.preNew, c.new)
        PROVE  LET e == NextImage([c EXCEPT !.journal.images[i] = v]) IN
               Preparing(e, d, blobs, acked, keys) /\ e.pc \in PreparePcs /\ e.state = c.state
    <2> DEFINE x == [c EXCEPT !.journal.images[i] = v]
    <2>1. /\ IsController(x) /\ LocalsSet(x) /\ x.pc = c.pc /\ x.k = c.k /\ x.new = c.new
          /\ x.state = c.state
          /\ x.journal.new = c.journal.new /\ x.journal.docs = c.journal.docs
          /\ x.journal.state = c.journal.state
          /\ \A l \in {"base", "pre"} :
                 x.journal.images[l] = IF l = i THEN v ELSE c.journal.images[l]
      <3>1. x = [c EXCEPT !.journal.images[i] = v]
        OBVIOUS
      <3> HIDE DEF i, x
      <3> QED BY <1>0, <1>1, <1>2, <3>1, MarkImage
    <2> HIDE DEF x, i
    <2>2. CopyMade(x, d, acked)
      BY <1>3, <1>6, <2>1 DEF CopyMade, Present
    <2>3. /\ x.journal.images["base"] = IF i = "base" THEN v ELSE c.journal.images["base"]
          /\ x.journal.images["pre"] = IF i = "pre" THEN v ELSE c.journal.images["pre"]
      BY <2>1
    <2>4. IF x.k = 1 THEN /\ ImageDone(x.journal.images["base"], d.base, d.baseNew, x.new)
                          /\ x.journal.images["pre"] = "absent"
                     ELSE /\ ImageDone(x.journal.images["base"], d.base, d.baseNew, x.new)
                          /\ ImageDone(x.journal.images["pre"], d.pre, d.preNew, x.new)
      BY <1>2, <1>4, <1>6, <2>1, <2>3
    <2>5. x.new > d.env /\ x.new <= keys /\ x.journal.state = "preparing"
      BY <1>3, <1>6, <2>1
    <2>6. /\ Preparing(NextImage(x), d, blobs, acked, keys) /\ NextImage(x).pc \in PreparePcs
          /\ NextImage(x).state = x.state
      BY <1>0, <2>1, <2>2, <2>4, <2>5, NextImageFits
    <2> QED BY <2>1, <2>6 DEF x
  <1>7. CASE BeginImage(p)
    <2> DEFINE y == [key |-> c.new, readable |-> FALSE]
    <2> DEFINE d == [disk EXCEPT ![ImageNew[i]] = y, ![ImageSides[i]] = "file"]
    <2> DEFINE e == [c EXCEPT !.pc = "imaging"]
    <2>1. \/ disk[i] = None /\ Moves(p, disk, blobs, NextImage(c)) /\ UNCHANGED faults
          \/ /\ disk[i] # None /\ ~disk[i].readable /\ UNCHANGED faults
             /\ Moves(p, disk, blobs, NextImage([c EXCEPT !.journal.images[i] = "drop"]))
          \/ Moves(p, disk, blobs, OnError(p, disk)) /\ UNCHANGED faults
          \/ disk[i] # None /\ disk[i].readable /\ FileOp(p, d, blobs, e)
      BY <1>7 DEF BeginImage, Present
    <2>2. CASE disk[i] = None /\ Moves(p, disk, blobs, NextImage(c)) /\ UNCHANGED faults
      <3>1. /\ i = "base" => ImageDone(c.journal.images["base"], disk.base, disk.baseNew, c.new)
            /\ i = "pre" => ImageDone(c.journal.images["pre"], disk.pre, disk.preNew, c.new)
        BY <1>2, <1>4, <2>2 DEF ImageDone
      <3>2. /\ Preparing(NextImage(c), disk, blobs, acked, keys) /\ NextImage(c).pc \in PreparePcs
            /\ NextImage(c).state = c.state
        BY <1>0, <1>1, <1>2, <1>3, <1>4, <3>1, NextImageFits
      <3> QED BY <1>0, <1>1, <2>2, <3>2, PrepareFits
    <2>3. CASE /\ disk[i] # None /\ ~disk[i].readable /\ UNCHANGED faults
               /\ Moves(p, disk, blobs, NextImage([c EXCEPT !.journal.images[i] = "drop"]))
      <3> DEFINE x == NextImage([c EXCEPT !.journal.images[i] = "drop"])
      <3>1. Moves(p, disk, blobs, x)
        BY <2>3
      <3>2. /\ i = "base" => ImageDone("drop", disk.base, disk.baseNew, c.new)
            /\ i = "pre" => ImageDone("drop", disk.pre, disk.preNew, c.new)
        BY <2>3 DEF ImageDone
      <3>3. Preparing(x, disk, blobs, acked, keys) /\ x.pc \in PreparePcs /\ x.state = c.state
        BY <1>6, <3>2
      <3> HIDE DEF x
      <3> QED BY <1>0, <1>1, <2>3, <3>1, <3>3, PrepareFits
    <2>4. CASE Moves(p, disk, blobs, OnError(p, disk)) /\ UNCHANGED faults
      BY <1>0, <1>1, <2>4, PrepareFits
    <2>5. CASE disk[i] # None /\ disk[i].readable /\ FileOp(p, d, blobs, e)
      <3>1. y \in Maybe(Image)
        BY <1>1 DEF Image, Maybe
      <3> HIDE DEF y
      <3>2. IsDisk(d)
        <4> HIDE DEF i
        <4> QED BY <1>1, <1>2, <3>1, CopyTyped, Zenon
      <3>3. /\ d.db = disk.db /\ d.wal = disk.wal /\ d.env = disk.env /\ d.newDb = disk.newDb
            /\ d.base = disk.base /\ d.pre = disk.pre /\ d.journal = disk.journal
            /\ i # "base" => d.baseNew = disk.baseNew
            /\ i # "pre" => d.preNew = disk.preNew
        <4> HIDE DEF i
        <4> QED BY <1>1, <1>2, <1>5 DEF IsDisk
      <3>4. e.pc = "imaging" /\ e.new = c.new /\ e.state = c.state /\ e.k = c.k
            /\ e.journal = c.journal
        BY <1>1 DEF IsController
      <3> HIDE DEF d, e
      <3>5. Openable(d, d.env) /\ Content(d) = Content(disk)
        BY <1>1, <3>3 DEF Openable, Content, Present
      <3>6. ImageIsOld(d.base, d.baseNew, d.env) /\ ImageIsOld(d.pre, d.preNew, d.env)
        BY <1>1, <1>2, <2>5, <3>3 DEF Old, ImageIsOld
      <3>7. Old(d, blobs, acked, keys)
        BY <1>1, <3>3, <3>5, <3>6, OldKept
      <3>8. CopyMade(e, d, acked)
        BY <1>3, <3>3, <3>4 DEF CopyMade, Present
      <3>9. ImagesDone(e, d)
        BY <1>2, <1>4, <3>3, <3>4 DEF ImagesDone
      <3>10. Present(d, Images[e.k]) /\ d[Images[e.k]].readable
        BY <1>2, <2>5, <3>3, <3>4 DEF Present
      <3>11. Preparing(e, d, blobs, acked, keys) /\ e.pc \in PreparePcs
        BY <1>3, <3>3, <3>4, <3>8, <3>9, <3>10 DEF Preparing, PreparePcs
      <3>12. FileOp(p, d, blobs, e)
        BY <2>5
      <3> QED BY <1>0, <3>2, <3>4, <3>7, <3>11, <3>12, PrepareFits
    <2> QED BY <2>1, <2>2, <2>3, <2>4, <2>5
  <1>8. CASE EndImage(p)
    <2> DEFINE y == [key |-> c.new, readable |-> TRUE]
    <2> DEFINE d == [disk EXCEPT ![ImageNew[i]] = y, ![ImageSides[i]] = None]
    <2> DEFINE e == NextImage([c EXCEPT !.journal.images[i] = "keep"])
    <2>1. FileOp(p, d, blobs, e) /\ c.pc = "imaging"
      BY <1>8 DEF EndImage
    <2>2. disk[i] # None /\ disk[i].readable
      BY <1>1, <2>1 DEF Preparing, Present
    <2>3. y \in Maybe(Image)
      BY <1>1 DEF Image, Maybe
    <2>4. y = [key |-> c.new, readable |-> TRUE]
      OBVIOUS
    <2> HIDE DEF y
    <2>5. IsDisk(d)
      <3> HIDE DEF i
      <3> QED BY <1>1, <1>2, <2>3, CopyTyped, Zenon
    <2>6. /\ d.db = disk.db /\ d.wal = disk.wal /\ d.env = disk.env /\ d.newDb = disk.newDb
          /\ d.base = disk.base /\ d.pre = disk.pre /\ d.journal = disk.journal
          /\ d.baseNew = IF i = "base" THEN y ELSE disk.baseNew
          /\ d.preNew = IF i = "pre" THEN y ELSE disk.preNew
      <3> HIDE DEF i
      <3> QED BY <1>1, <1>2, <1>5 DEF IsDisk
    <2> HIDE DEF d
    <2>7. Openable(d, d.env) /\ Content(d) = Content(disk)
      BY <1>1, <2>6 DEF Openable, Content, Present
    <2>8. ImageIsOld(d.base, d.baseNew, d.env) /\ ImageIsOld(d.pre, d.preNew, d.env)
      BY <1>1, <1>2, <2>2, <2>6 DEF Old, ImageIsOld
    <2>9. Old(d, blobs, acked, keys)
      BY <1>1, <2>6, <2>7, <2>8, OldKept
    <2>10. /\ i = "base" => ImageDone("keep", d.base, d.baseNew, c.new)
           /\ i = "pre" => ImageDone("keep", d.pre, d.preNew, c.new)
      BY <2>4, <2>6 DEF ImageDone
    <2>11. Preparing(e, d, blobs, acked, keys) /\ e.pc \in PreparePcs /\ e.state = c.state
      <3> HIDE DEF i
      <3> QED BY <1>6, <2>6, <2>10 DEF i
    <2> HIDE DEF e
    <2> QED BY <1>0, <2>1, <2>5, <2>9, <2>11, PrepareFits
  <1> QED BY <1>7, <1>8 

\* The rename that installs a committed journal turns the old vault into the new one.
LEMMA CommitNew ==
    ASSUME NEW c, NEW d, IsDisk(d), NEW b, NEW a, NEW k, Old(d, b, a, k),
           d.env \in Keys, c.new \in Keys, c.journal \in Journal, c.journal.state = "committed",
           CopyMade(c, d, a), ImagesDone(c, d), c.pc = "install",
           c.new > d.env, c.new <= k, d.newEnv = c.new, a \X {c.new} \subseteq b,
           c.journal.db = d.newDb,
           NEW r, r.journal = c.journal,
           \A f \in {"newDb", "db", "wal", "newEnv", "env", "base", "pre", "baseNew", "preNew"} :
               r[f] = d[f]
    PROVE  New(r, b, a, k)
  <1> DEFINE j == c.journal
  <1>1. /\ r.newDb = d.newDb /\ r.db = d.db /\ r.wal = d.wal /\ r.newEnv = d.newEnv
        /\ r.env = d.env /\ r.base = d.base /\ r.pre = d.pre /\ r.baseNew = d.baseNew
        /\ r.preNew = d.preNew
    OBVIOUS
  <1>2. /\ j.new = c.new /\ j.docs = a /\ d.newDb = [key |-> j.new, rows |-> a]
        /\ d.wal = None
    BY DEF CopyMade, Present
  <1>3. d.newDb # None
    <2>1. a \in SUBSET Docs
      BY <1>2 DEF Journal
    <2>2. [key |-> c.new, rows |-> a] \in Database
      BY <2>1 DEF Database
    <2> QED BY <1>2, <2>2, RotationAssumption
  <1>4. j # None /\ c.new # None /\ d.env # None
    BY RotationAssumption
  <1>5. Committed(r)
    BY <1>4 DEF Committed, Present
  <1>6. /\ InPlace(r, "newDb", "db", j.db) /\ (~Present(r, "newDb") => ~Present(r, "wal"))
        /\ InPlace(r, "newEnv", "env", j.new) /\ Present(r, "env")
    BY <1>1, <1>2, <1>3, <1>4 DEF InPlace, Present
  <1>7. r.env <= j.new
    BY <1>1, <1>2 DEF Keys
  <1>8. /\ ImageDone(j.images["base"], d.base, d.baseNew, j.new)
        /\ ImageDone(j.images["pre"], d.pre, d.preNew, j.new)
    BY <1>2 DEF ImagesDone
  <1>9. j.images["base"] \in {"absent", "keep", "drop"} /\ j.images["pre"] \in {"absent", "keep", "drop"}
    BY DEF Journal
  <1>10. /\ ImageIsOld(d.base, d.baseNew, d.env) /\ ImageIsOld(d.pre, d.preNew, d.env)
    BY DEF Old
  <1>11. ASSUME NEW copy \in Maybe(Image), copy = [key |-> j.new, readable |-> TRUE]
         PROVE  copy # None
    <2>1. copy \in Image
      BY <1>2, <1>11 DEF Image
    <2> QED BY <2>1, RotationAssumption
  <1>12. d.baseNew \in Maybe(Image) /\ d.preNew \in Maybe(Image)
    BY DEF IsDisk
  <1>13. ImageIsNew(j.images["base"], r.base, r.baseNew, j.new)
    BY <1>1, <1>8, <1>9, <1>10, <1>11, <1>12 DEF ImageIsNew, ImageDone, ImageIsOld
  <1>14. ImageIsNew(j.images["pre"], r.pre, r.preNew, j.new)
    BY <1>1, <1>8, <1>9, <1>10, <1>11, <1>12 DEF ImageIsNew, ImageDone, ImageIsOld
  <1> QED BY <1>2, <1>5, <1>6, <1>7, <1>13, <1>14 DEF New

LEMMA JournalFits ==
    ASSUME Alone, Ready, Counted, faults' <= 1, NEW p \in Procs,
           Fits(ctl[p], disk, blobs, acked, keys, faults > 0),
           WriteJournalTmp(p) \/ InstallJournal(p)
    PROVE  Whole'
  <1> DEFINE c == ctl[p]
  <1>0. c.pc \in {"tmp", "install"} /\ c.pc \in PreparePcs /\ acked' = acked /\ keys' = keys
    BY DEF WriteJournalTmp, InstallJournal, PreparePcs, bounds
  <1>1. /\ IsController(c) /\ LocalsSet(c) /\ IsDisk(disk)
        /\ Old(disk, blobs, acked, keys) /\ Preparing(c, disk, blobs, acked, keys)
        /\ Openable(disk, c.key) /\ c.key = disk.env /\ disk.env \in Keys /\ c.new \in Keys
        /\ disk.journal # None => disk.journal.state # "committed" /\ disk.journal.new > disk.env
    BY <1>0, PreparingNow
  <1>2. /\ c.new > disk.env /\ c.new <= keys /\ CopyMade(c, disk, acked)
        /\ ImagesDone(c, disk)
        /\ c.journal.state # "preparing" =>
               disk.newEnv = c.new /\ acked \X {c.new} \subseteq blobs /\ c.journal.db = disk.newDb
    BY <1>0, <1>1 DEF Preparing
  <1>3. c.journal \in Journal /\ c.journal.state \in {"preparing", "prepared", "committed"}
    BY <1>0, <1>1 DEF LocalsSet, Journal
  <1>4. ASSUME NEW d, NEW e, d.wal = disk.wal, d.newDb = disk.newDb, d.newEnv = disk.newEnv,
               d.env = disk.env, d.base = disk.base, d.pre = disk.pre,
               d.baseNew = disk.baseNew, d.preNew = disk.preNew,
               e.pc \in {"tmp", "install", "link"}, e.new = c.new,
               e.journal.new = c.journal.new, e.journal.docs = c.journal.docs,
               e.journal.db = c.journal.db, e.journal.images = c.journal.images,
               e.pc \in {"tmp", "install"} /\ c.journal.state = "preparing" =>
                   e.journal.state = "preparing"
        PROVE  Preparing(e, d, blobs, acked, keys) /\ e.pc \in PreparePcs
    <2>1. CopyMade(e, d, acked)
      BY <1>2, <1>4 DEF CopyMade, Present
    <2>2. ImagesDone(e, d)
      BY <1>0, <1>2, <1>4 DEF ImagesDone
    <2> QED BY <1>2, <1>4, <2>1, <2>2 DEF Preparing, PreparePcs
  <1>5. CASE WriteJournalTmp(p)
    <2> DEFINE d == [disk EXCEPT !.journalTmp = "file"]
    <2> DEFINE e == [c EXCEPT !.pc = "install"]
    <2>1. FileOp(p, d, blobs, e) /\ c.pc = "tmp"
      BY <1>5 DEF WriteJournalTmp
    <2>2. /\ IsDisk(d) /\ d.db = disk.db /\ d.wal = disk.wal /\ d.env = disk.env
          /\ d.newDb = disk.newDb /\ d.newEnv = disk.newEnv
          /\ d.base = disk.base /\ d.pre = disk.pre /\ d.journal = disk.journal
          /\ d.baseNew = disk.baseNew /\ d.preNew = disk.preNew
      BY <1>1 DEF IsDisk
    <2>3. e.pc = "install" /\ e.new = c.new /\ e.state = c.state /\ e.journal = c.journal
      BY <1>1 DEF IsController
    <2> HIDE DEF d, e
    <2>4. Openable(d, d.env) /\ Content(d) = Content(disk)
      BY <1>1, <2>2 DEF Openable, Content, Present
    <2>5. Old(d, blobs, acked, keys)
      <3>1. ImageIsOld(d.base, d.baseNew, d.env) /\ ImageIsOld(d.pre, d.preNew, d.env)
        BY <1>1, <2>2 DEF Old
      <3> QED BY <1>1, <2>2, <2>4, <3>1, OldKept
    <2>6. Preparing(e, d, blobs, acked, keys) /\ e.pc \in PreparePcs
      BY <1>4, <2>2, <2>3
    <2> QED BY <1>0, <2>1, <2>2, <2>3, <2>5, <2>6, PrepareFits
  <1>6. CASE InstallJournal(p)
    <2> DEFINE d == [disk EXCEPT !.journal = c.journal, !.journalTmp = None]
    <2> DEFINE e == Installed(c)
    <2>1. /\ c.pc = "install"
          /\ \/ c.journal.state # "committed" /\ FileOp(p, d, blobs, e)
             \/ c.journal.state = "committed" /\ CommitWrite(p, d)
      BY <1>6 DEF InstallJournal
    <2>2. /\ IsDisk(d) /\ d.db = disk.db /\ d.wal = disk.wal /\ d.env = disk.env
          /\ d.newDb = disk.newDb /\ d.newEnv = disk.newEnv
          /\ d.base = disk.base /\ d.pre = disk.pre /\ d.journal = c.journal
          /\ d.baseNew = disk.baseNew /\ d.preNew = disk.preNew
      BY <1>1, <1>3 DEF IsDisk, Maybe
    <2> HIDE DEF d
    <2>3. c.journal.new = c.new
      BY <1>2 DEF CopyMade
    <2>4. CASE c.journal.state # "committed"
      <3>1. Openable(d, d.env) /\ Content(d) = Content(disk)
        BY <1>1, <2>2 DEF Openable, Content, Present
      <3>2. Old(d, blobs, acked, keys)
        <4>1. ImageIsOld(d.base, d.baseNew, d.env) /\ ImageIsOld(d.pre, d.preNew, d.env)
          BY <1>1, <2>2 DEF Old
        <4> QED BY <1>1, <1>2, <2>2, <2>3, <2>4, <3>1, <4>1, OldKept
      <3>3. /\ e.pc \in {"tmp", "link"} /\ e.new = c.new /\ e.state = c.state
            /\ e.journal.new = c.journal.new /\ e.journal.docs = c.journal.docs
            /\ e.journal.db = c.journal.db /\ e.journal.images = c.journal.images
            /\ e.pc = "tmp" => c.journal.state # "preparing"
        <4>1. CASE c.journal.state = "preparing"
          <5>1. e = [c EXCEPT !.pc = "link"]
            BY <4>1 DEF Installed
          <5> QED BY <1>1, <5>1 DEF IsController
        <4>2. CASE c.journal.state = "prepared"
          <5> DEFINE j == [c.journal EXCEPT !.state = "committed"]
          <5>1. e = [c EXCEPT !.pc = "tmp", !.journal = j]
            BY <1>1, <4>2 DEF Installed, IsController
          <5>2. j.new = c.journal.new /\ j.docs = c.journal.docs /\ j.db = c.journal.db
                /\ j.images = c.journal.images
            BY <1>3 DEF Journal
          <5> HIDE DEF j
          <5> QED BY <1>1, <4>2, <5>1, <5>2 DEF IsController
        <4> QED BY <1>3, <2>4, <4>1, <4>2
      <3> HIDE DEF e
      <3>4. Preparing(e, d, blobs, acked, keys) /\ e.pc \in PreparePcs
        BY <1>4, <2>2, <3>3
      <3> QED BY <1>0, <2>1, <2>2, <2>4, <3>2, <3>3, <3>4, PrepareFits
    <2>5. CASE c.journal.state = "committed"
      <3>1. \/ Moves(p, d, blobs, e) /\ faults' \in {faults, faults + 1}
            \/ Moves(p, disk, blobs, OnError(p, disk)) /\ faults' = faults + 1
        <4>1. faults \in Nat
          BY DEF Counted
        <4>2. ~(faults' = faults + 2)
          BY <4>1
        <4> QED BY <2>1, <2>5, <4>2 DEF CommitWrite
      <3>2. faults \in Nat /\ (faults > 0 => faults' > 0)
        BY <3>1 DEF Counted
      <3>3. CASE Moves(p, d, blobs, e)
        <4>1. New(d, blobs, acked, keys)
          <5>1. \A f \in {"newDb", "db", "wal", "newEnv", "env", "base", "pre", "baseNew", "preNew"} :
                    d[f] = disk[f]
            BY <2>2
          <5> QED BY <1>1, <1>2, <1>3, <2>1, <2>2, <2>5, <5>1, CommitNew
        <4>2. e = [c EXCEPT !.pc = "finish", !.caller = "finish"]
          BY <2>5 DEF Installed
        <4>3. e.pc = "finish" /\ e.state = c.state
          BY <1>1, <4>2 DEF IsController
        <4>4. c.state = "Corrupt" => faults' > 0
          BY <3>2 DEF Fits
        <4> HIDE DEF e
        <4>5. Fits(e, d, blobs, acked', keys', faults' > 0)
          BY <1>0, <4>1, <4>3, <4>4 DEF Fits, InOld, InNew, Preparing, Applying, PreparePcs
        <4> QED BY <3>3, <4>5, MovesFits
      <3>4. CASE Moves(p, disk, blobs, OnError(p, disk)) /\ faults' = faults + 1
        <4>1. faults' > 0
          BY <3>2, <3>4
        <4>2. Fits(OnError(p, disk), disk, blobs, acked', keys', faults' > 0)
          BY <1>0, <1>1, <4>1, OnErrorFits
        <4> QED BY <3>4, <4>2, MovesFits
      <3> QED BY <3>1, <3>3, <3>4
    <2> QED BY <2>4, <2>5
  <1> QED BY <1>5, <1>6

LEMMA LinkFits ==
    ASSUME Alone, Ready, Counted, faults' <= 1, NEW p \in Procs,
           Fits(ctl[p], disk, blobs, acked, keys, faults > 0),
           LinkBlob(p) \/ WriteNewEnvelope(p) \/ Verify(p)
    PROVE  Whole'
  <1> DEFINE c == ctl[p]
  <1>0. c.pc \in {"link", "verify"} /\ c.pc \in PreparePcs /\ acked' = acked /\ keys' = keys
    BY DEF LinkBlob, WriteNewEnvelope, Verify, PreparePcs, bounds
  <1>1. /\ IsController(c) /\ LocalsSet(c) /\ IsDisk(disk)
        /\ Old(disk, blobs, acked, keys) /\ Preparing(c, disk, blobs, acked, keys)
        /\ Openable(disk, c.key) /\ c.key = disk.env /\ disk.env \in Keys /\ c.new \in Keys
        /\ disk.journal # None => disk.journal.state # "committed" /\ disk.journal.new > disk.env
    BY <1>0, PreparingNow
  <1>2. /\ c.new > disk.env /\ c.new <= keys /\ CopyMade(c, disk, acked)
        /\ ImagesDone(c, disk)
        /\ c.pc = "verify" => disk.newEnv = c.new /\ acked \X {c.new} \subseteq blobs
    BY <1>0, <1>1 DEF Preparing
  <1>3. c.journal \in Journal
    BY <1>0, <1>1 DEF LocalsSet
  <1>4. CASE LinkBlob(p)
    <2>1. PICK name \in NewNames(c.journal) : FileOp(p, disk, blobs \cup {name}, c)
      BY <1>4 DEF LinkBlob
    <2>2. Old(disk, blobs \cup {name}, acked, keys)
      BY <1>1 DEF Old
    <2>3. Preparing(c, disk, blobs \cup {name}, acked, keys)
      BY <1>1 DEF Preparing
    <2> QED BY <1>0, <1>1, <2>1, <2>2, <2>3, PrepareFits
  <1>5. CASE WriteNewEnvelope(p)
    <2> DEFINE d == [disk EXCEPT !.newEnv = c.new]
    <2> DEFINE e == [c EXCEPT !.pc = "verify"]
    <2>1. FileOp(p, d, blobs, e) /\ NewNames(c.journal) \subseteq blobs
      BY <1>5 DEF WriteNewEnvelope
    <2>2. /\ IsDisk(d) /\ d.db = disk.db /\ d.wal = disk.wal /\ d.env = disk.env
          /\ d.newDb = disk.newDb /\ d.newEnv = c.new
          /\ d.base = disk.base /\ d.pre = disk.pre /\ d.journal = disk.journal
          /\ d.baseNew = disk.baseNew /\ d.preNew = disk.preNew
      BY <1>1 DEF IsDisk, Maybe
    <2>3. e.pc = "verify" /\ e.new = c.new /\ e.state = c.state /\ e.journal = c.journal
      BY <1>1 DEF IsController
    <2> HIDE DEF d, e
    <2>4. Openable(d, d.env) /\ Content(d) = Content(disk)
      BY <1>1, <2>2 DEF Openable, Content, Present
    <2>5. Old(d, blobs, acked, keys)
      <3>1. ImageIsOld(d.base, d.baseNew, d.env) /\ ImageIsOld(d.pre, d.preNew, d.env)
        BY <1>1, <2>2 DEF Old
      <3> QED BY <1>1, <2>2, <2>4, <3>1, OldKept
    <2>6. acked \X {c.new} \subseteq blobs
      <3>1. c.journal # None /\ c.journal.docs = acked /\ c.journal.new = c.new
        BY <1>2, <1>3, RotationAssumption DEF CopyMade
      <3> QED BY <2>1, <3>1 DEF NewNames
    <2>7. CopyMade(e, d, acked) /\ ImagesDone(e, d)
      BY <1>0, <1>2, <2>2, <2>3 DEF CopyMade, ImagesDone, Present
    <2>8. Preparing(e, d, blobs, acked, keys) /\ e.pc \in PreparePcs
      BY <1>2, <2>2, <2>3, <2>6, <2>7 DEF Preparing, PreparePcs
    <2> QED BY <1>0, <2>1, <2>2, <2>3, <2>5, <2>8, PrepareFits
  <1>6. CASE Verify(p)
    <2> DEFINE j == [c.journal EXCEPT !.state = "prepared", !.db = disk.newDb]
    <2> DEFINE e == [c EXCEPT !.pc = "tmp", !.journal = j]
    <2>1. c.pc = "verify"
      BY <1>6 DEF Verify
    <2>2. \/ FileOp(p, disk, blobs, e)
          \/ Moves(p, disk, blobs, OnError(p, disk)) /\ UNCHANGED faults
      <3>1. e = [c EXCEPT !.pc = "tmp", !.journal.state = "prepared", !.journal.db = disk.newDb]
        BY <1>1, <1>3 DEF IsController, Journal
      <3> HIDE DEF e
      <3> QED BY <1>6, <3>1 DEF Verify
    <2>3. CASE Moves(p, disk, blobs, OnError(p, disk)) /\ UNCHANGED faults
      BY <1>0, <1>1, <2>3, PrepareFits
    <2>4. CASE FileOp(p, disk, blobs, e)
      <3>1. /\ j.state = "prepared" /\ j.new = c.journal.new /\ j.docs = c.journal.docs
            /\ j.db = disk.newDb /\ j.images = c.journal.images
        BY <1>3 DEF Journal
      <3> HIDE DEF j
      <3>2. e.pc = "tmp" /\ e.state = c.state /\ e.new = c.new /\ e.journal = j
        BY <1>1 DEF IsController
      <3>3. FileOp(p, disk, blobs, e)
        BY <2>4
      <3> HIDE DEF e
      <3>4. CopyMade(e, disk, acked) /\ ImagesDone(e, disk)
        BY <1>0, <1>2, <3>1, <3>2 DEF CopyMade, ImagesDone
      <3>5. Preparing(e, disk, blobs, acked, keys) /\ e.pc \in PreparePcs
        BY <1>2, <2>1, <3>1, <3>2, <3>4 DEF Preparing, PreparePcs
      <3> QED BY <1>0, <1>1, <3>2, <3>3, <3>5, PrepareFits
    <2> QED BY <2>2, <2>3, <2>4
  <1> QED BY <1>4, <1>5, <1>6

\* A prepare that gives up, and a commit that is carried out.
LEMMA TurnFits ==
    ASSUME Alone, Ready, Counted, faults' <= 1, NEW p \in Procs,
           Fits(ctl[p], disk, blobs, acked, keys, faults > 0),
           AbortPrepare(p) \/ FinishRotation(p)
    PROVE  Whole'
  <1> DEFINE c == ctl[p]
  <1> DEFINE j == disk.journal
  <1>1. IsController(c) /\ LocalsSet(c) /\ IsDisk(disk) /\ faults \in Nat
    BY DEF Ready, Good, Counted
  <1>2. /\ acked' = acked /\ keys' = keys /\ (faults' = faults \/ faults' = faults + 1)
    BY DEF AbortPrepare, FinishRotation, bounds
  <1>3. c.state = "Corrupt" => faults' > 0
    BY <1>1, <1>2 DEF Fits
  <1>4. CASE AbortPrepare(p)
    <2>1. Old(disk, blobs, acked, keys)
      BY <1>4 DEF AbortPrepare, Fits, InOld
    <2>2. PICK i \in {None, j} : Moves(p, disk, blobs, BeginRollBack(c, i, "abort"))
      BY <1>4 DEF AbortPrepare
    <2> DEFINE x == BeginRollBack(c, i, "abort")
    <2>3. i \in Maybe(Journal)
      BY <1>1 DEF IsDisk, Maybe
    <2>4. x.pc = "rollback" /\ x.k = 1 /\ x.journal = i /\ x.state = c.state
      BY <1>1, <2>3, BeginsTyped
    <2> HIDE DEF x
    <2>5. i # None => i.new > disk.env
      BY <2>1 DEF Old, Present
    <2>6. Fits(x, disk, blobs, acked', keys', faults' > 0)
      BY <1>2, <1>3, <2>1, <2>4, <2>5 DEF Fits, InOld, InNew, Preparing, Applying, PreparePcs
    <2> QED BY <2>2, <2>6, MovesFits DEF x
  <1>5. CASE FinishRotation(p)
    <2>1. New(disk, blobs, acked, keys)
      BY <1>5 DEF FinishRotation, Fits, InNew
    <2>2. CommittedFilesAgree(disk, blobs, j) /\ j \in Journal /\ Committed(disk)
      BY <1>1, <2>1, NewAgrees DEF New
    <2>3. Moves(p, disk, blobs, BeginApply(c, j, "finish"))
      BY <1>5, <2>2 DEF FinishRotation
    <2> DEFINE x == BeginApply(c, j, "finish")
    <2>4. x.pc = "apply" /\ x.k = 1 /\ x.journal = j /\ x.state = c.state
      BY <1>1, <2>2, BeginsTyped
    <2> HIDE DEF x
    <2>5. Done(1, disk)
      BY DEF Done
    <2>6. Fits(x, disk, blobs, acked', keys', faults' > 0)
      BY <1>2, <1>3, <2>1, <2>4, <2>5 DEF Fits, InOld, InNew, Preparing, Applying, PreparePcs
    <2> QED BY <2>3, <2>6, MovesFits DEF x
  <1> QED BY <1>4, <1>5

----------------------------------------------------------------------------
(* The invariant, and what follows from it. *)

LEMMA WholeInit == Init => Whole
  <1> SUFFICES ASSUME Init PROVE Whole
    OBVIOUS
  <1>1. PICK image \in [{"base", "pre"} -> {None} \cup [key : {1}, readable : BOOLEAN]] :
            disk = [db |-> [key |-> 1, rows |-> {}], wal |-> None, newDb |-> None,
                    newSides |-> None, oldDb |-> None, env |-> 1, newEnv |-> None,
                    base |-> image["base"], pre |-> image["pre"], baseNew |-> None,
                    preNew |-> None, baseNewSides |-> None, preNewSides |-> None,
                    probe |-> None, journalTmp |-> None, journal |-> None]
    BY DEF Init
  <1>2. /\ disk.db = [key |-> 1, rows |-> {}] /\ disk.wal = None /\ disk.env = 1
        /\ disk.baseNew = None /\ disk.preNew = None /\ disk.journal = None
        /\ disk.base = image["base"] /\ disk.pre = image["pre"]
    BY <1>1
  <1>3. disk.base # None => disk.base.key = 1
    BY <1>2
  <1>4. disk.pre # None => disk.pre.key = 1
    BY <1>2
  <1>5. disk.db # None
    <2>1. [key |-> 1, rows |-> {}] \in Database
      BY RotationAssumption DEF Database, Keys
    <2> QED BY <1>2, <2>1, RotationAssumption
  <1>6. acked = {} /\ keys = 1 /\ \A p \in Procs : ctl[p] = Off
    BY DEF Init
  <1>7. Old(disk, blobs, acked, keys)
    BY <1>2, <1>3, <1>4, <1>5, <1>6 DEF Old, Committed, Openable, Content, Present, ImageIsOld
  <1> QED BY <1>6, <1>7, IdleFits DEF Whole

LEMMA WholeStep ==
    ASSUME Alone, Ready, Counted, Whole, [Next]_vars
    PROVE  Whole'
  <1>1. faults' >= faults /\ faults \in Nat /\ faults' \in Nat
    <2>1. Counted' /\ faults' >= faults
      BY CountedStep
    <2> QED BY <2>1, RotationAssumption DEF Counted
  <1>2. CASE ~(faults' <= 1)
    BY <1>2 DEF Whole
  <1>3. CASE faults' <= 1 /\ UNCHANGED vars
    BY <1>3 DEF Whole, vars
  <1>4. CASE faults' <= 1 /\ Next
    <2>1. PICK p \in Procs :
              \/ Proceed(p) \/ Open(p) \/ ReadEnvelope(p) \/ Lock(p) \/ RotateKey(p) \/ Crash(p)
              \/ \E doc \in Docs : Import(p, doc) \/ TornImport(p, doc)
      BY <1>4 DEF Next
    <2>2. Fits(ctl[p], disk, blobs, acked, keys, faults > 0)
      BY <1>1, <1>4 DEF Whole
    <2>3. CASE BeginExport(p) \/ EndExport(p)
      BY <1>4, <2>2, <2>3, ExportFits
    <2>4. CASE BeginImage(p) \/ EndImage(p)
      BY <1>4, <2>2, <2>4, ImageFits
    <2>5. CASE WriteJournalTmp(p) \/ InstallJournal(p)
      BY <1>4, <2>2, <2>5, JournalFits
    <2>6. CASE LinkBlob(p) \/ WriteNewEnvelope(p) \/ Verify(p)
      BY <1>4, <2>2, <2>6, LinkFits
    <2>7. CASE AbortPrepare(p) \/ FinishRotation(p)
      BY <1>4, <2>2, <2>7, TurnFits
    <2>8. CASE RollBackStep(p)
      BY <1>4, <2>2, <2>8, RollBackFits
    <2>9. CASE ApplyStep(p)
      BY <1>4, <2>2, <2>9, ApplyFits
    <2>10. CASE RotateKey(p)
      BY <1>4, <2>2, <2>10, RotateFits
    <2>11. ASSUME NEW doc \in Docs, Import(p, doc) PROVE Whole'
      BY <2>2, <2>11, ImportFits
    <2>12. CASE \/ Open(p) \/ RecoverAfterFinish(p) \/ ReadEnvelope(p) \/ OpenWorker(p) \/ Lock(p)
                \/ Crash(p) \/ Reopen(p)
                \/ \E doc \in Docs : TornImport(p, doc)
      BY <1>4, <2>2, <2>12, VaultFits
    <2> QED BY <2>1, <2>3, <2>4, <2>5, <2>6, <2>7, <2>8, <2>9, <2>10, <2>11, <2>12 DEF Proceed, Prepare
  <1> QED BY <1>2, <1>3, <1>4

LEMMA WholeAlways ==
    ASSUME Alone
    PROVE  Spec => [](Ready /\ Counted /\ Whole)
  <1>1. Init => Ready /\ Counted /\ Whole
    BY ReadyInit, WholeInit
  <1>2. Ready /\ Counted /\ Whole /\ [Next]_vars => (Ready /\ Counted /\ Whole)'
    BY ReadyStep, WholeStep
  <1> QED BY <1>1, <1>2, PTL DEF Spec

\* Which files are the vault, by what the journal says.
LEMMA Authority ==
    ASSUME IsDisk(disk)
    PROVE  /\ Old(disk, blobs, acked, keys) =>
                 /\ AuthKey = disk.env /\ AuthDb = Content(disk) /\ AuthDb # None
                 /\ AuthDb.key = AuthKey /\ AuthDb.rows = acked /\ disk.db.key = AuthKey
                 /\ AuthImage("base") = disk.base /\ AuthImage("pre") = disk.pre
           /\ New(disk, blobs, acked, keys) =>
                 /\ AuthKey = disk.journal.new /\ AuthDb = disk.journal.db /\ AuthDb # None
                 /\ AuthDb.key = AuthKey /\ AuthDb.rows = acked
                 /\ AuthKey \in {disk.env, disk.newEnv}
                 /\ \A i \in {"base", "pre"} : AuthImage(i) # None => AuthImage(i).key = AuthKey
  <1>1. ASSUME Old(disk, blobs, acked, keys)
        PROVE  /\ AuthKey = disk.env /\ AuthDb = Content(disk) /\ AuthDb # None
               /\ AuthDb.key = AuthKey /\ AuthDb.rows = acked /\ disk.db.key = AuthKey
               /\ AuthImage("base") = disk.base /\ AuthImage("pre") = disk.pre
    <2>1. ~Committed(disk) /\ Openable(disk, disk.env) /\ Content(disk).rows = acked
      BY <1>1 DEF Old
    <2>2. AuthDb = Content(disk) /\ Content(disk) # None /\ AuthKey = disk.env
      BY <2>1 DEF AuthDb, AuthKey, Openable, Content, Present
    <2> QED BY <2>1, <2>2 DEF AuthImage, Openable
  <1>2. ASSUME New(disk, blobs, acked, keys)
        PROVE  /\ AuthKey = disk.journal.new /\ AuthDb = disk.journal.db /\ AuthDb # None
               /\ AuthDb.key = AuthKey /\ AuthDb.rows = acked
               /\ AuthKey \in {disk.env, disk.newEnv}
               /\ \A i \in {"base", "pre"} : AuthImage(i) # None => AuthImage(i).key = AuthKey
    <2> DEFINE j == disk.journal
    <2>1. Committed(disk) /\ j.db = [key |-> j.new, rows |-> acked] /\ j \in Journal /\ j.db # None
          /\ AuthKey = j.new
      BY <1>2, NewAgrees DEF New, AuthKey, CommittedFilesAgree
    <2>2. AuthDb = j.db
      BY <1>2, <2>1 DEF AuthDb, New, InPlace, Content, Present
    <2>3. AuthKey \in {disk.env, disk.newEnv}
      BY <1>2, <2>1 DEF New, InPlace
    <2>4. /\ j.images["base"] \in {"absent", "keep", "drop"}
          /\ j.images["pre"] \in {"absent", "keep", "drop"}
      BY <2>1 DEF Journal
    <2>5. AuthImage("base") # None => AuthImage("base").key = AuthKey
      BY <1>2, <2>1, <2>4 DEF New, AuthImage, ImageIsNew, ImageNew, Present
    <2>6. AuthImage("pre") # None => AuthImage("pre").key = AuthKey
      BY <1>2, <2>1, <2>4 DEF New, AuthImage, ImageIsNew, ImageNew, Present
    <2> QED BY <2>1, <2>2, <2>3, <2>5, <2>6
  <1> QED BY <1>1, <1>2

(***************************************************************************)
(* Whatever instant a crash or one failing operation leaves a rotation at,  *)
(* the vault on disk is whole under one key, and holds every acknowledged   *)
(* write (rekey.rs: the journal's rename decides which files are the vault). *)
(* For one process: two can overwrite each other's import, and two faults   *)
(* at the commit can leave a database no envelope opens.                     *)
(***************************************************************************)
THEOREM OldOrNew ==
    ASSUME Alone
    PROVE  Spec => [](faults <= 1 => VaultWhole /\ WritesKept)
  <1>1. ASSUME Ready, Whole, faults <= 1
        PROVE  VaultWhole /\ WritesKept
    <2>0. IsDisk(disk)
      BY <1>1 DEF Ready
    <2>1. CASE Old(disk, blobs, acked, keys)
      <3>1. /\ AuthKey = disk.env /\ AuthDb # None
            /\ AuthDb.key = AuthKey /\ AuthDb.rows = acked /\ disk.db.key = AuthKey
            /\ AuthImage("base") = disk.base /\ AuthImage("pre") = disk.pre
        BY <2>0, <2>1, Authority
      <3>2. \A i \in {"base", "pre"} : AuthImage(i) # None => AuthImage(i).key = AuthKey
        BY <2>1, <3>1 DEF Old, ImageIsOld
      <3>3. ~Committed(disk) /\ acked \X {AuthKey} \subseteq blobs
        BY <2>1, <3>1 DEF Old
      <3> QED BY <3>1, <3>2, <3>3 DEF VaultWhole, WritesKept
    <2>2. CASE New(disk, blobs, acked, keys)
      <3>1. /\ AuthKey = disk.journal.new /\ AuthDb # None
            /\ AuthDb.key = AuthKey /\ AuthDb.rows = acked
            /\ AuthKey \in {disk.env, disk.newEnv}
            /\ \A i \in {"base", "pre"} : AuthImage(i) # None => AuthImage(i).key = AuthKey
        BY <2>0, <2>2, Authority
      <3>2. Committed(disk) /\ acked \X {AuthKey} \subseteq blobs
        BY <2>2, <3>1 DEF New
      <3> QED BY <3>1, <3>2 DEF VaultWhole, WritesKept
    <2>3. PICK p \in Procs : Fits(ctl[p], disk, blobs, acked, keys, faults > 0)
      BY <1>1 DEF Whole, Alone
    <2> QED BY <2>1, <2>2, <2>3 DEF Fits
  <1> QED BY <1>1, WholeAlways, PTL

(***************************************************************************)
(* An import that was reported to the user is never missing from the vault  *)
(* a reader would open next: the copy a rotation commits was made with the   *)
(* writers shut out (vault.rs: rotate_key holds the controller's lock).      *)
(***************************************************************************)
THEOREM WritesSurvive ==
    ASSUME Alone
    PROVE  Spec => [](faults <= 1 => WritesKept)
  BY OldOrNew, PTL

(***************************************************************************)
(* An unlocked vault works with the key of the files it has, also after a   *)
(* rotation that failed half way, and an unlock that read the envelope in   *)
(* place opens (vault.rs: the kernel keeps the old key until the reopen).    *)
(***************************************************************************)
THEOREM KernelKeeps ==
    ASSUME Alone
    PROVE  Spec => [](faults <= 1 => KernelKeyFits)
  <1>1. ASSUME Ready, Whole, faults <= 1
        PROVE  KernelKeyFits
    <2> SUFFICES ASSUME NEW p \in Procs
                 PROVE  /\ KernelFree(p) => Openable(disk, ctl[p].key) /\ disk.env = ctl[p].key
                        /\ ctl[p].pc = "unlock" => Openable(disk, ctl[p].key)
      BY DEF KernelKeyFits
    <2>1. Fits(ctl[p], disk, blobs, acked, keys, faults > 0)
      BY <1>1 DEF Whole
    <2>2. ASSUME KernelFree(p) PROVE Openable(disk, ctl[p].key) /\ disk.env = ctl[p].key
      <3>1. Openable(disk, ctl[p].key)
        BY <1>1, <2>2 DEF Ready, Good, KernelFree, Served
      <3>2. Openable(disk, disk.env)
        BY <2>1, <2>2 DEF Fits, InOld, KernelFree, Old
      <3> QED BY <3>1, <3>2 DEF Openable
    <2>3. ASSUME ctl[p].pc = "unlock" PROVE Openable(disk, ctl[p].key)
      BY <2>1, <2>3 DEF Fits, InOld, Old
    <2> QED BY <2>2, <2>3
  <1> QED BY <1>1, WholeAlways, PTL

(***************************************************************************)
(* Only a failed file operation can make a vault look corrupt: the journal  *)
(* agrees with the files at every instant a crash can fall on               *)
(* (recover_interrupted_rekey).                                              *)
(***************************************************************************)
THEOREM CrashesHeal ==
    ASSUME Alone
    PROVE  Spec => []CorruptOnlyAfterFault
  <1>1. ASSUME Whole, Counted
        PROVE  CorruptOnlyAfterFault
    <2>1. faults \in Nat
      BY <1>1 DEF Counted
    <2> QED BY <1>1, <2>1 DEF Whole, Fits, CorruptOnlyAfterFault
  <1> QED BY <1>1, WholeAlways, PTL

----------------------------------------------------------------------------
(* A rotation is one step of the abstract vault. *)

\* What a step does to the files that tell the vault's key.
LEMMA KeyStep ==
    ASSUME Ready, Counted, NEW p \in Procs, Fits(ctl[p], disk, blobs, acked, keys, faults > 0),
           \/ Proceed(p) \/ Open(p) \/ ReadEnvelope(p) \/ Lock(p) \/ RotateKey(p) \/ Crash(p)
           \/ \E doc \in Docs : Import(p, doc) \/ TornImport(p, doc)
    PROVE  AuthKey' = AuthKey \/ (AuthKey' > AuthKey /\ InstallJournal(p))
  <1> DEFINE c == ctl[p]
  <1>0. IsController(c) /\ LocalsSet(c) /\ IsDisk(disk)
    BY DEF Ready, Good
  <1>1. ASSUME disk'.env = disk.env, disk'.journal = disk.journal
        PROVE  AuthKey' = AuthKey
    BY <1>1 DEF AuthKey, Committed, Present
  <1>2. ASSUME NEW d, NEW b, NEW e, FileOp(p, d, b, e)
        PROVE  disk' = d \/ disk' = disk
    BY <1>2 DEF FileOp, Fails, Moves
  <1>3. CASE RollBackStep(p)
    <2> DEFINE f == RollBackOrder[c.k]
    <2>1. c.pc = "rollback" /\ c.k \in 1..11 /\ Old(disk, blobs, acked, keys)
      BY <1>0, <1>3 DEF RollBackStep, LocalsSet, Fits, InOld
    <2>2. disk' = disk \/ (f # "blobs" /\ disk' = Remove(disk, f))
      BY <1>2, <1>3 DEF RollBackStep, Moves
    <2>3. CASE f # "blobs" /\ disk' = Remove(disk, f)
      <3>1. f \in Leftovers
        BY <2>1, <2>3, Steps DEF Leftovers
      <3>2. Old(disk', blobs, acked, keys) /\ disk'.env = disk.env
        BY <1>0, <2>1, <2>3, <3>1, RemoveOld
      <3> QED BY <2>1, <3>2 DEF Old, AuthKey
    <2> QED BY <1>1, <2>2, <2>3
  <1>4. CASE ApplyStep(p)
    <2> DEFINE op == ApplyOrder[c.k]
    <2>1. /\ c.pc = "apply" /\ c.k \in 1..10 /\ New(disk, blobs, acked, keys)
          /\ c.journal = disk.journal /\ Done(c.k, disk)
      BY <1>0, <1>4 DEF ApplyStep, LocalsSet, Fits, InNew, Applying
    <2>2. disk' = disk \/ (op # "oldBlobs" /\ disk' = ApplyOp(disk, disk.journal, op))
      BY <1>2, <1>4, <2>1 DEF ApplyStep, Moves
    <2>3. CASE op # "oldBlobs" /\ disk' = ApplyOp(disk, disk.journal, op) /\ c.k # 10
      <3>1. New(disk', blobs, acked, keys) /\ disk'.journal = disk.journal
        BY <1>0, <2>1, <2>3, ApplyNew
      <3> QED BY <2>1, <3>1 DEF New, AuthKey
    <2>4. CASE disk' = ApplyOp(disk, disk.journal, op) /\ c.k = 10
      <3>1. disk' = Remove(disk, "journal")
        BY <2>4 DEF ApplyOrder, ApplyOp
      <3>2. Old(disk', blobs, acked, keys)
        BY <1>0, <2>1, <2>4, <3>1, ApplyLast
      <3>3. disk.env = disk.journal.new /\ Committed(disk)
        BY <2>1, <2>4 DEF New, Done, InPlace
      <3>4. disk'.env = disk.env
        BY <1>0, <3>1 DEF Remove, IsDisk
      <3> QED BY <3>2, <3>3, <3>4 DEF Old, AuthKey
    <2> QED BY <1>1, <2>2, <2>3, <2>4
  <1>5. CASE BeginExport(p) \/ EndExport(p)
    <2>1. CASE BeginExport(p)
      <3>1. PICK x, y : disk' = disk \/ disk' = [disk EXCEPT !.probe = None, !.db = x, !.wal = None,
                                                             !.newDb = y, !.newSides = "file"]
        BY <1>2, <2>1 DEF BeginExport
      <3>2. disk'.env = disk.env /\ disk'.journal = disk.journal
        BY <1>0, <3>1 DEF IsDisk
      <3> QED BY <1>1, <3>2
    <2>2. CASE EndExport(p)
      <3>1. PICK y : disk' = disk \/ disk' = [disk EXCEPT !.newDb = y, !.newSides = None]
        BY <1>2, <2>2 DEF EndExport
      <3>2. disk'.env = disk.env /\ disk'.journal = disk.journal
        BY <1>0, <3>1 DEF IsDisk
      <3> QED BY <1>1, <3>2
    <2> QED BY <1>5, <2>1, <2>2
  <1>6. CASE BeginImage(p) \/ EndImage(p)
    <2>1. c.pc \in {"image", "imaging"}
      BY <1>6 DEF BeginImage, EndImage
    <2>2. Images[c.k] \in {"base", "pre"}
      BY <1>0, <2>1, Steps DEF LocalsSet
    <2>3. disk' = disk \/ \E x, y :
              disk' = [disk EXCEPT ![ImageNew[Images[c.k]]] = x, ![ImageSides[Images[c.k]]] = y]
      BY <1>2, <1>6 DEF BeginImage, EndImage, Moves
    <2>4. disk'.env = disk.env /\ disk'.journal = disk.journal
      BY <1>0, <2>2, <2>3, CopyNames DEF IsDisk
    <2> QED BY <1>1, <2>4
  <1>7. CASE WriteJournalTmp(p) \/ LinkBlob(p) \/ WriteNewEnvelope(p) \/ Verify(p) \/ AbortPrepare(p)
    <2>1. \/ disk' = disk \/ disk' = [disk EXCEPT !.journalTmp = "file"]
          \/ disk' = [disk EXCEPT !.newEnv = c.new]
      BY <1>2, <1>7 DEF WriteJournalTmp, LinkBlob, WriteNewEnvelope, Verify, AbortPrepare, Moves
    <2>2. disk'.env = disk.env /\ disk'.journal = disk.journal
      BY <1>0, <2>1 DEF IsDisk
    <2> QED BY <1>1, <2>2
  <1>8. CASE InstallJournal(p)
    <2>1. c.pc = "install" /\ c.pc \in PreparePcs
      BY <1>8 DEF InstallJournal, PreparePcs
    <2>2. /\ Old(disk, blobs, acked, keys) /\ Preparing(c, disk, blobs, acked, keys)
          /\ c.journal \in Journal
      BY <1>0, <2>1, PreparingNow DEF LocalsSet
    <2>3. c.journal.new = c.new /\ c.new > disk.env /\ c.journal # None
      BY <2>1, <2>2, RotationAssumption DEF Preparing, CopyMade, PreparePcs
    <2>4. disk' = disk \/ disk' = [disk EXCEPT !.journal = c.journal, !.journalTmp = None]
      BY <1>2, <1>8 DEF InstallJournal, CommitWrite, Moves
    <2>5. CASE disk' = [disk EXCEPT !.journal = c.journal, !.journalTmp = None]
      <3>1. disk'.env = disk.env /\ disk'.journal = c.journal
        BY <1>0, <2>5 DEF IsDisk
      <3>2. AuthKey = disk.env
        BY <2>2 DEF Old, AuthKey
      <3>3. AuthKey' = IF c.journal.state = "committed" THEN c.new ELSE disk.env
        BY <2>3, <3>1 DEF AuthKey, Committed, Present
      <3> QED BY <1>8, <2>3, <3>2, <3>3
    <2> QED BY <1>1, <2>4, <2>5
  <1>9. CASE \/ FinishRotation(p) \/ RecoverAfterFinish(p) \/ Reopen(p) \/ OpenWorker(p)
             \/ Open(p) \/ ReadEnvelope(p) \/ Crash(p)
             \/ \E doc \in Docs : TornImport(p, doc)
    <2>1. disk' = disk
      BY <1>9 DEF FinishRotation, RecoverAfterFinish, Reopen, OpenWorker, Open, ReadEnvelope, Crash,
                  TornImport, Moves
    <2> QED BY <1>1, <2>1
  <1>10. CASE Lock(p) \/ RotateKey(p) \/ \E doc \in Docs : Import(p, doc)
    <2>1. \/ disk' = disk
          \/ \E x : disk' = [disk EXCEPT !.db = x, !.wal = None]
          \/ \E x : disk' = [disk EXCEPT !.probe = x]
          \/ \E x : disk' = [disk EXCEPT !.wal = x]
      BY <1>10 DEF Lock, RotateKey, Import, Moves
    <2>2. disk'.env = disk.env /\ disk'.journal = disk.journal
      BY <1>0, <2>1 DEF IsDisk
    <2> QED BY <1>1, <2>2
  <1> QED BY <1>3, <1>4, <1>5, <1>6, <1>7, <1>8, <1>9, <1>10 DEF Proceed, Prepare

\* A step adds at most one row, and not while it replaces the key.
LEMMA RowsStep ==
    ASSUME NEW p \in Procs,
           \/ Proceed(p) \/ Open(p) \/ ReadEnvelope(p) \/ Lock(p) \/ RotateKey(p) \/ Crash(p)
           \/ \E doc \in Docs : Import(p, doc) \/ TornImport(p, doc)
    PROVE  \/ acked' = acked
           \/ ~InstallJournal(p) /\ \E doc \in Docs : doc \notin acked /\ acked' = acked \cup {doc}
  <1>1. CASE \E doc \in Docs : Import(p, doc)
    BY <1>1 DEF Import, KernelFree, InstallJournal
  <1>2. CASE RollBackStep(p) \/ ApplyStep(p)
    BY <1>2 DEF RollBackStep, ApplyStep, bounds
  <1>3. CASE Prepare(p)
    BY <1>3 DEF Prepare, BeginExport, EndExport, BeginImage, EndImage, WriteJournalTmp,
                InstallJournal, LinkBlob, WriteNewEnvelope, Verify, AbortPrepare, bounds
  <1>4. CASE \/ FinishRotation(p) \/ RecoverAfterFinish(p) \/ Reopen(p) \/ OpenWorker(p)
             \/ Open(p) \/ ReadEnvelope(p) \/ Lock(p) \/ RotateKey(p) \/ Crash(p)
             \/ \E doc \in Docs : TornImport(p, doc)
    BY <1>4 DEF FinishRotation, RecoverAfterFinish, Reopen, OpenWorker, Open, ReadEnvelope, Lock,
                RotateKey, Crash, TornImport, bounds
  <1> QED BY <1>1, <1>2, <1>3, <1>4 DEF Proceed

\* What the abstract vault is made of.
LEMMA VaultState ==
    ASSUME Alone, Ready, Counted, Whole, faults <= 1
    PROVE  AuthDb.rows = acked /\ AuthKey \in Keys
  <1>1. PICK p \in Procs : Fits(ctl[p], disk, blobs, acked, keys, faults > 0)
    BY DEF Whole, Alone
  <1>2. IsDisk(disk)
    BY DEF Ready
  <1>3. CASE Old(disk, blobs, acked, keys)
    <2>1. AuthDb.rows = acked /\ AuthKey = disk.env
      BY <1>2, <1>3, Authority
    <2>2. disk.env \in Keys
      BY <1>2, <1>3 DEF Old, Openable, IsDisk, Maybe, Present, Database
    <2> QED BY <2>1, <2>2
  <1>4. CASE New(disk, blobs, acked, keys)
    <2>1. AuthDb.rows = acked /\ AuthKey = disk.journal.new
      BY <1>2, <1>4, Authority
    <2>2. disk.journal.new \in Keys
      BY <1>2, <1>4, NewAgrees DEF Journal
    <2> QED BY <2>1, <2>2
  <1> QED BY <1>1, <1>3, <1>4 DEF Fits

(***************************************************************************)
(* Seen from outside, a vault is rotated in one step, the rename of the      *)
(* journal, by a key that was never used, and no crash, failed operation or *)
(* recovery ever changes its key or its rows.                                *)
(***************************************************************************)
THEOREM RotationIsAtomic ==
    ASSUME Alone, MaxFaults <= 1
    PROVE  Spec => ImplementsVault
  <1> DEFINE Mapped == AuthDb.rows = acked /\ AuthKey \in Keys
  <1>1. Init => Vault!Init
    <2> SUFFICES ASSUME Init PROVE Vault!Init
      OBVIOUS
    <2>1. disk.env = 1 /\ disk.journal = None /\ acked = {} /\ faults = 0
      BY DEF Init
    <2>2. AuthDb.rows = acked
      BY <2>1, ReadyInit, WholeInit, VaultState
    <2> QED BY <2>1, <2>2 DEF Vault!Init, AuthKey, Committed, Present
  <1>2. ASSUME Ready, Counted, Whole, Mapped, Mapped', [Next]_vars
        PROVE  [Vault!Next]_(Vault!vars)
    <2>2. faults <= 1
      BY <1>2, RotationAssumption DEF Counted
    <2>3. AuthDb.rows = acked /\ AuthKey \in Keys
      BY <1>2
    <2>4. AuthDb.rows' = acked' /\ AuthKey' \in Keys
      BY <1>2
    <2>5. CASE UNCHANGED vars
      <3>1. disk' = disk
        BY <2>5 DEF vars
      <3> QED BY <3>1 DEF Vault!vars, AuthKey, AuthDb, Committed, Present, Content
    <2>6. CASE Next
      <3>1. PICK p \in Procs :
                \/ Proceed(p) \/ Open(p) \/ ReadEnvelope(p) \/ Lock(p) \/ RotateKey(p) \/ Crash(p)
                \/ \E doc \in Docs : Import(p, doc) \/ TornImport(p, doc)
        BY <2>6 DEF Next
      <3>2. Fits(ctl[p], disk, blobs, acked, keys, faults > 0)
        BY <1>2, <2>2 DEF Whole
      <3>3. AuthKey' = AuthKey \/ (AuthKey' > AuthKey /\ InstallJournal(p))
        BY <1>2, <3>1, <3>2, KeyStep
      <3>4. \/ acked' = acked
            \/ ~InstallJournal(p) /\ \E doc \in Docs : doc \notin acked /\ acked' = acked \cup {doc}
        BY <3>1, RowsStep
      <3>5. CASE AuthKey' = AuthKey /\ acked' = acked
        BY <2>3, <2>4, <3>5 DEF Vault!vars
      <3>6. CASE AuthKey' > AuthKey /\ acked' = acked
        <4>1. Vault!Rotate(AuthKey')
          BY <2>3, <2>4, <3>6 DEF Vault!Rotate
        <4> QED BY <2>4, <4>1 DEF Vault!Next, Keys
      <3>7. ASSUME NEW doc \in Docs, doc \notin acked, acked' = acked \cup {doc}, AuthKey' = AuthKey
            PROVE  Vault!Next
        BY <2>3, <2>4, <3>7 DEF Vault!Next, Vault!Write
      <3> QED BY <3>3, <3>4, <3>5, <3>6, <3>7
    <2> QED BY <1>2, <2>5, <2>6
  <1>3. Ready /\ Counted /\ Whole /\ Mapped /\ Mapped' /\ [Next]_vars => [Vault!Next]_(Vault!vars)
    BY <1>2
  <1>4. Ready /\ Counted /\ Whole => Mapped
    BY VaultState, RotationAssumption DEF Counted
  <1> HIDE DEF Mapped
  <1> QED BY <1>1, <1>3, <1>4, WholeAlways, PTL DEF Spec, ImplementsVault, Vault!Spec

----------------------------------------------------------------------------
(* What a rotation leaves behind: of the retired key nothing, and of a       *)
(* rotation that was rolled back nothing either.  The journal names what     *)
(* there is to remove, and it is removed last.                               *)

\* Before the commit the blobs are the vault's own and those the journal announces.
OldTidy(d, b, a) ==
    /\ ~Present(d, "oldDb")
    /\ b \subseteq (a \X {d.env}) \cup NewNames(d.journal)
    /\ Present(d, "journal") => d.journal.old = d.env

\* After it they are those of the retired key and those of the new one.
NewTidy(d, b) == b \subseteq OldNames(d.journal) \cup NewNames(d.journal)

\* The journal of a rotation in its first steps is not on disk yet, later it is.
Unannounced(c) ==
    \/ c.pc \in {"export", "exporting", "image", "imaging"}
    \/ c.pc \in {"tmp", "install"} /\ c.journal.state = "preparing"
Announced(c) ==
    \/ c.pc \in {"link", "verify"}
    \/ c.pc \in {"tmp", "install"} /\ c.journal.state # "preparing"

\* What has been removed so far; e says whether an operation has failed.
Swept(c, d, b, a, e) ==
    /\ Unannounced(c) => ~Present(d, "journal")
    /\ Announced(c) => Present(d, "journal") /\ NewNames(d.journal) = NewNames(c.journal)
    /\ c.pc \in PreparePcs \ {"export", "exporting"} => c.journal.old = d.env
    /\ c.pc = "abort" /\ ~e => ~Present(d, "journal")
    /\ c.pc = "rollback" => c.journal = d.journal /\ (c.k > 9 => b \subseteq a \X {d.env})
    /\ c.pc = "apply" =>
          /\ c.k > 7 => b \subseteq NewNames(d.journal)
          /\ c.k > 8 => ~Present(d, "oldDb")

Clean(d, b, a) == IF Committed(d) THEN NewTidy(d, b) ELSE OldTidy(d, b, a)

Tidy(c, d, b, a, e) == Clean(d, b, a) /\ Swept(c, d, b, a, e)

AllTidy == faults <= 1 => \A p \in Procs : Tidy(ctl[p], disk, blobs, acked, faults > 0)

\* Files that differ in nothing the sweep looks at.
LEMMA SameClean ==
    ASSUME NEW d, NEW r, NEW b, NEW a, Clean(d, b, a),
           r.env = d.env, r.journal = d.journal, r.oldDb = d.oldDb
    PROVE  Clean(r, b, a)
  BY DEF Clean, Committed, Present, NewTidy, OldTidy

\* A process that is not preparing, rolling back or applying has nothing to sweep.
LEMMA StillTidy ==
    ASSUME NEW c, NEW d, NEW b, NEW a, NEW e, Clean(d, b, a),
           c.pc \notin PreparePcs \cup {"abort", "rollback", "apply"}
    PROVE  Tidy(c, d, b, a, e)
  BY DEF Tidy, Swept, Unannounced, Announced, PreparePcs

LEMMA RestTidy ==
    ASSUME NEW d, NEW b, NEW a, NEW e, Clean(d, b, a)
    PROVE  \A c : c.pc \in {"ready", "off", "unlock", "recover", "finish", "reopen"} =>
                     Tidy(c, d, b, a, e)
  BY StillTidy DEF PreparePcs

LEMMA MovesTidy ==
    ASSUME Alone, Ready, NEW p \in Procs, NEW d, NEW b, NEW c, Moves(p, d, b, c),
           Tidy(c, d, b, acked', faults' > 0)
    PROVE  AllTidy'
  <1>1. disk' = d /\ blobs' = b /\ ctl'[p] = c
    BY DEF Moves, Ready
  <1>2. \A q \in Procs : Tidy(ctl'[q], disk', blobs', acked', faults' > 0)
    <2>1. \A q \in Procs : q = p
      BY DEF Alone
    <2> QED BY <1>1, <2>1
  <1> QED BY <1>2 DEF AllTidy

\* After a failed operation nothing is claimed but what the journal still announces.
LEMMA OnErrorTidy ==
    ASSUME NEW p, IsController(ctl[p]), NEW d, NEW b, NEW a, NEW e, Clean(d, b, a),
           e \/ ~Present(d, "journal")
    PROVE  Tidy(OnError(p, d), d, b, a, e)
  <1> DEFINE c == ctl[p]
  <1>1. CASE c.pc \in PreparePcs
    <2>1. OnError(p, d) = [c EXCEPT !.pc = "abort"]
      BY <1>1 DEF OnError
    <2>2. OnError(p, d).pc = "abort"
      BY <2>1 DEF IsController
    <2> QED BY <2>2 DEF Tidy, Swept, Unannounced, Announced, PreparePcs
  <1>2. CASE c.pc \notin PreparePcs /\ c.caller = "abort"
    <2>1. OnError(p, d) = [Idle("Unlocked") EXCEPT !.key = c.key]
      BY <1>2 DEF OnError
    <2>2. OnError(p, d).pc = "ready"
      BY <2>1 DEF Idle
    <2> QED BY <2>2, RestTidy
  <1>3. CASE c.pc \notin PreparePcs /\ c.caller = "finish"
    <2>1. OnError(p, d) = [c EXCEPT !.pc = "recover"]
      BY <1>3 DEF OnError
    <2>2. OnError(p, d).pc = "recover"
      BY <2>1 DEF IsController
    <2> QED BY <2>2, RestTidy
  <1>4. CASE c.pc \notin PreparePcs /\ c.caller \notin {"abort", "finish"}
    <2>1. OnError(p, d) = Recovered(d)
      BY <1>4 DEF OnError
    <2>2. OnError(p, d).pc = "ready"
      BY <2>1 DEF Recovered, Idle
    <2> QED BY <2>2, RestTidy
  <1> QED BY <1>1, <1>2, <1>3, <1>4

LEMMA FileOpTidy ==
    ASSUME Alone, Ready, Counted, acked' = acked, NEW p \in Procs,
           Clean(disk, blobs, acked), NEW d, NEW b, NEW c, FileOp(p, d, b, c),
           Tidy(c, d, b, acked, faults > 0)
    PROVE  AllTidy'
  <1>1. IsController(ctl[p]) /\ faults \in Nat
    BY DEF Ready, Good, Counted
  <1>2. CASE Moves(p, d, b, c) /\ UNCHANGED faults
    <2>1. Tidy(c, d, b, acked', faults' > 0)
      BY <1>2
    <2> QED BY <1>2, <2>1, MovesTidy
  <1>3. CASE Fails(p, d, b)
    <2>1. faults' > 0
      BY <1>1, <1>3 DEF Fails
    <2>2. Clean(d, b, acked)
      BY DEF Tidy
    <2>3. Tidy(OnError(p, d), d, b, acked', faults' > 0)
      BY <1>1, <2>1, <2>2, OnErrorTidy
    <2>4. Tidy(OnError(p, disk), disk, blobs, acked', faults' > 0)
      BY <1>1, <2>1, OnErrorTidy
    <2> QED BY <1>3, <2>3, <2>4, MovesTidy DEF Fails
  <1> QED BY <1>2, <1>3 DEF FileOp

\* A step of prepare that goes on.
LEMMA PrepareTidy ==
    ASSUME Alone, Ready, Counted, acked' = acked, NEW p \in Procs,
           Clean(disk, blobs, acked), NEW d, NEW b, NEW e,
           Clean(d, b, acked), e.pc \in PreparePcs,
           Unannounced(e) => ~Present(d, "journal"),
           Announced(e) => Present(d, "journal") /\ NewNames(d.journal) = NewNames(e.journal),
           e.pc \notin {"export", "exporting"} => e.journal.old = d.env,
           FileOp(p, d, b, e) \/ (UNCHANGED faults /\ Moves(p, d, b, e))
    PROVE  AllTidy'
  <1>1. Tidy(e, d, b, acked, faults > 0)
    BY DEF Tidy, Swept, PreparePcs
  <1>2. CASE FileOp(p, d, b, e)
    BY <1>1, <1>2, FileOpTidy
  <1>3. CASE UNCHANGED faults /\ Moves(p, d, b, e)
    <2>1. Tidy(e, d, b, acked', faults' > 0)
      BY <1>1, <1>3
    <2> QED BY <1>3, <2>1, MovesTidy
  <1> QED BY <1>2, <1>3

LEMMA DecideTidy ==
    ASSUME NEW c, IsController(c), IsDisk(disk), NEW a, NEW e, Clean(disk, blobs, a)
    PROVE  Tidy(Decide(c, "open"), disk, blobs, a, e)
  <1> DEFINE j == disk.journal
  <1>1. j \in Maybe(Journal) /\ None \in Maybe(Journal) /\ (j # None => j \in Journal)
    BY DEF IsDisk, Maybe
  <1>2. Tidy(Recovered(disk), disk, blobs, a, e)
    <2>1. Recovered(disk).pc = "ready"
      BY DEF Recovered, Idle
    <2> QED BY <2>1, RestTidy
  <1>3. Tidy(BeginRollBack(c, j, "open"), disk, blobs, a, e)
    <2> DEFINE x == BeginRollBack(c, j, "open")
    <2>1. x.pc = "rollback" /\ x.k = 1 /\ x.journal = j
      BY DEF IsController, BeginRollBack
    <2> HIDE DEF x
    <2>2. ~Unannounced(x) /\ ~Announced(x) /\ x.pc \notin PreparePcs /\ ~(x.k > 9)
      BY <2>1 DEF Unannounced, Announced, PreparePcs
    <2>3. Swept(x, disk, blobs, a, e)
      BY <2>1, <2>2 DEF Swept
    <2>4. Tidy(x, disk, blobs, a, e)
      BY <2>3 DEF Tidy
    <2> QED BY <2>4 DEF x
  <1>4. ASSUME j # None
        PROVE  Tidy(BeginApply(c, j, "open"), disk, blobs, a, e)
    <2> DEFINE x == BeginApply(c, j, "open")
    <2>1. x.pc = "apply" /\ x.k = 1
      BY DEF IsController, BeginApply
    <2> HIDE DEF x
    <2>2. /\ ~Unannounced(x) /\ ~Announced(x) /\ x.pc \notin PreparePcs
          /\ ~(x.k > 7) /\ ~(x.k > 8)
      BY <2>1 DEF Unannounced, Announced, PreparePcs
    <2>3. Swept(x, disk, blobs, a, e)
      BY <2>1, <2>2 DEF Swept
    <2>4. Tidy(x, disk, blobs, a, e)
      BY <2>3 DEF Tidy
    <2> QED BY <2>4 DEF x
  <1>5. Committed(disk) => j # None
    BY DEF Committed, Present
  <1> QED BY <1>2, <1>3, <1>4, <1>5 DEF Decide

LEMMA VaultTidy ==
    ASSUME Alone, Ready, Counted, NEW p \in Procs, Clean(disk, blobs, acked),
           \/ Open(p) \/ RecoverAfterFinish(p) \/ ReadEnvelope(p) \/ OpenWorker(p) \/ Lock(p)
           \/ Crash(p) \/ Reopen(p)
    PROVE  AllTidy'
  <1> DEFINE c == ctl[p]
  <1>1. IsController(c) /\ IsDisk(disk) /\ lease \in {None, p}
    BY DEF Ready, Good, Alone
  <1>2. acked' = acked
    BY DEF Open, RecoverAfterFinish, ReadEnvelope, OpenWorker, Lock, Crash, Reopen, bounds
  <1>3. ASSUME NEW x, Moves(p, disk, blobs, x), x.pc \in {"ready", "off", "unlock"}
        PROVE  AllTidy'
    <2>1. Tidy(x, disk, blobs, acked', faults' > 0)
      BY <1>2, <1>3, RestTidy
    <2> QED BY <1>3, <2>1, MovesTidy
  <1>4. ASSUME NEW x, IsController(x), Moves(p, disk, blobs, Decide(x, "open"))
        PROVE  AllTidy'
    <2>1. Tidy(Decide(x, "open"), disk, blobs, acked', faults' > 0)
      BY <1>1, <1>2, <1>4, DecideTidy
    <2> QED BY <1>4, <2>1, MovesTidy
  <1>5. CASE Open(p)
    <2>1. IsController(Idle("NoVault"))
      BY RotationAssumption DEF Idle, IsController, Maybe
    <2>2. Recovered(disk).pc = "ready"
      BY DEF Recovered, Idle
    <2>3. \/ Moves(p, disk, blobs, Decide(Idle("NoVault"), "open"))
          \/ Moves(p, disk, blobs, Recovered(disk))
      BY <1>1, <1>5 DEF Open
    <2> QED BY <1>3, <1>4, <2>1, <2>2, <2>3
  <1>6. CASE RecoverAfterFinish(p)
    BY <1>1, <1>4, <1>6 DEF RecoverAfterFinish
  <1>7. CASE ReadEnvelope(p)
    <2> DEFINE x == [Idle("Unlocking") EXCEPT !.pc = "unlock", !.key = disk.env]
    <2> DEFINE y == Idle(Classify(disk))
    <2>1. x.pc = "unlock" /\ y.pc = "ready"
      BY DEF Idle
    <2>2. Moves(p, disk, blobs, x) \/ Moves(p, disk, blobs, y)
      BY <1>7 DEF ReadEnvelope
    <2> HIDE DEF x, y
    <2> QED BY <1>3, <2>1, <2>2
  <1>8. CASE OpenWorker(p)
    <2>1. PICK x : Moves(p, disk, blobs, x) /\ x.pc = "ready"
      BY <1>8 DEF OpenWorker, Idle
    <2> QED BY <1>3, <2>1
  <1>9. CASE Lock(p)
    <2>1. PICK d \in {[disk EXCEPT !.db = Content(disk), !.wal = None], disk} :
              Moves(p, d, blobs, Idle("Locked"))
      BY <1>9 DEF Lock
    <2>2. d.env = disk.env /\ d.journal = disk.journal /\ d.oldDb = disk.oldDb
      BY <1>1, <2>1 DEF IsDisk
    <2>3. Clean(d, blobs, acked)
      BY <2>2, SameClean
    <2>4. Idle("Locked").pc = "ready"
      BY DEF Idle
    <2>5. Tidy(Idle("Locked"), d, blobs, acked', faults' > 0)
      BY <1>2, <2>3, <2>4, RestTidy
    <2> QED BY <2>1, <2>5, MovesTidy
  <1>10. CASE Crash(p)
    <2>1. Off.pc = "off"
      BY DEF Off, Idle
    <2> QED BY <1>3, <1>10, <2>1 DEF Crash
  <1>11. CASE Reopen(p)
    <2>1. PICK x : Moves(p, disk, blobs, x) /\ x.pc = "ready"
      BY <1>11 DEF Reopen, Idle
    <2> QED BY <1>3, <2>1
  <1> QED BY <1>5, <1>6, <1>7, <1>8, <1>9, <1>10, <1>11

\* A write adds a blob of its own row under the key of the vault.
LEMMA ImportTidy ==
    ASSUME Alone, Ready, NEW p \in Procs, NEW doc \in Docs,
           Fits(ctl[p], disk, blobs, acked, keys, faults > 0),
           Clean(disk, blobs, acked), Import(p, doc)
    PROVE  AllTidy'
  <1> DEFINE c == ctl[p]
  <1> DEFINE d == [disk EXCEPT !.wal = [key |-> c.key, rows |-> Content(disk).rows \cup {doc}]]
  <1>1. IsDisk(disk) /\ c.pc = "ready" /\ c.state = "Unlocked" /\ Openable(disk, c.key)
    BY DEF Ready, Good, Import, KernelFree, Served
  <1>2. /\ disk' = d /\ blobs' = blobs \cup {<<doc, c.key>>} /\ acked' = acked \cup {doc}
        /\ ctl' = ctl
    BY DEF Import
  <1>3. Old(disk, blobs, acked, keys)
    BY <1>1 DEF Fits, InOld
  <1>4. c.key = disk.env
    BY <1>1, <1>3 DEF Old, Openable
  <1>5. d.env = disk.env /\ d.journal = disk.journal /\ d.oldDb = disk.oldDb
    BY <1>1 DEF IsDisk
  <1> HIDE DEF d
  <1>6. OldTidy(disk, blobs, acked) /\ ~Committed(d)
    BY <1>3, <1>5 DEF Old, Clean, Committed, Present
  <1>7. OldTidy(d, blobs \cup {<<doc, c.key>>}, acked \cup {doc})
    BY <1>4, <1>5, <1>6 DEF OldTidy, Present
  <1>8. Tidy(c, disk', blobs', acked', faults' > 0)
    <2>1. Clean(disk', blobs', acked')
      BY <1>2, <1>6, <1>7 DEF Clean
    <2> QED BY <1>1, <2>1, RestTidy
  <1>9. \A q \in Procs : q = p
    BY DEF Alone
  <1> QED BY <1>2, <1>8, <1>9 DEF AllTidy

\* The names a journal announces depend on its rows and its new key.
LEMMA SameNames ==
    ASSUME NEW i \in Journal, NEW j \in Journal, i.docs = j.docs, i.new = j.new
    PROVE  NewNames(i) = NewNames(j)
  BY RotationAssumption DEF NewNames

\* What a step of prepare starts from.
LEMMA PreparingTidy ==
    ASSUME Ready, Counted, NEW p \in Procs, ctl[p].pc \in PreparePcs,
           Fits(ctl[p], disk, blobs, acked, keys, faults > 0),
           Tidy(ctl[p], disk, blobs, acked, faults > 0)
    PROVE  /\ OldTidy(disk, blobs, acked) /\ ~Committed(disk) /\ Clean(disk, blobs, acked)
           /\ Unannounced(ctl[p]) => disk.journal = None
           /\ Announced(ctl[p]) => /\ disk.journal # None
                                   /\ NewNames(disk.journal) = NewNames(ctl[p].journal)
           /\ ctl[p].pc \notin {"export", "exporting"} => ctl[p].journal.old = disk.env
  <1>1. Old(disk, blobs, acked, keys)
    BY PreparingNow
  <1>2. ~Committed(disk)
    BY <1>1 DEF Old
  <1> QED BY <1>2 DEF Tidy, Clean, Swept, Present

LEMMA RotateTidy ==
    ASSUME Alone, Ready, Counted, NEW p \in Procs,
           Tidy(ctl[p], disk, blobs, acked, faults > 0), RotateKey(p)
    PROVE  AllTidy'
  <1> DEFINE c == ctl[p]
  <1> DEFINE d == [disk EXCEPT !.probe = IF blobs = {} THEN None ELSE "file"]
  <1> DEFINE e == [c EXCEPT !.state = "Rekeying", !.pc = "export", !.new = keys + 1]
  <1>1. /\ Moves(p, d, blobs, e) /\ acked' = acked /\ UNCHANGED faults
        /\ disk.journal = None /\ IsController(c) /\ IsDisk(disk)
    BY DEF RotateKey, Present, Ready, Good
  <1>2. d.env = disk.env /\ d.journal = disk.journal /\ d.oldDb = disk.oldDb
    BY <1>1 DEF IsDisk
  <1>3. e.pc = "export"
    BY <1>1 DEF IsController
  <1> HIDE DEF d, e
  <1>4. Clean(disk, blobs, acked)
    BY DEF Tidy
  <1>5. Clean(d, blobs, acked)
    BY <1>2, <1>4, SameClean
  <1>6. ~Present(d, "journal") /\ ~Announced(e) /\ e.pc \in PreparePcs
    BY <1>1, <1>2, <1>3 DEF Present, Announced, PreparePcs
  <1> QED BY <1>1, <1>3, <1>4, <1>5, <1>6, PrepareTidy

LEMMA ExportTidy ==
    ASSUME Alone, Ready, Counted, NEW p \in Procs,
           Fits(ctl[p], disk, blobs, acked, keys, faults > 0),
           Tidy(ctl[p], disk, blobs, acked, faults > 0), BeginExport(p) \/ EndExport(p)
    PROVE  AllTidy'
  <1> DEFINE c == ctl[p]
  <1>0. c.pc \in {"export", "exporting"} /\ c.pc \in PreparePcs /\ acked' = acked
    BY DEF BeginExport, EndExport, PreparePcs, bounds
  <1>1. IsController(c) /\ IsDisk(disk) /\ c.key = disk.env
    BY <1>0, PreparingNow
  <1>2. Clean(disk, blobs, acked) /\ disk.journal = None
    BY <1>0, PreparingTidy DEF Unannounced
  <1>3. CASE BeginExport(p)
    <2> DEFINE x == [key |-> c.new, rows |-> {}]
    <2> DEFINE d == [disk EXCEPT !.probe = None, !.db = Content(disk), !.wal = None,
                                 !.newDb = x, !.newSides = "file"]
    <2> DEFINE e == [c EXCEPT !.pc = "exporting"]
    <2>1. FileOp(p, d, blobs, e)
      BY <1>3 DEF BeginExport
    <2> HIDE DEF x
    <2>2. d.env = disk.env /\ d.journal = disk.journal /\ d.oldDb = disk.oldDb
      BY <1>1 DEF IsDisk
    <2>3. e.pc = "exporting"
      BY <1>1 DEF IsController
    <2> HIDE DEF d, e
    <2>4. Clean(d, blobs, acked)
      BY <1>2, <2>2, SameClean
    <2>5. ~Present(d, "journal") /\ ~Announced(e) /\ e.pc \in PreparePcs
      BY <1>2, <2>2, <2>3 DEF Present, Announced, PreparePcs
    <2> QED BY <1>0, <1>2, <2>1, <2>3, <2>4, <2>5, PrepareTidy
  <1>4. CASE EndExport(p)
    <2> DEFINE x == [key |-> c.new, rows |-> disk.db.rows]
    <2> DEFINE d == [disk EXCEPT !.newDb = x, !.newSides = None]
    <2> DEFINE j == [state |-> "preparing", old |-> c.key, new |-> c.new, docs |-> disk.db.rows,
                     db |-> None, images |-> [base |-> "absent", pre |-> "absent"]]
    <2> DEFINE e == [c EXCEPT !.pc = "image", !.k = 1, !.journal = j]
    <2>1. FileOp(p, d, blobs, e)
      BY <1>4 DEF EndExport
    <2> HIDE DEF x
    <2>2. d.env = disk.env /\ d.journal = disk.journal /\ d.oldDb = disk.oldDb
      BY <1>1 DEF IsDisk
    <2>3. j.old = c.key
      OBVIOUS
    <2> HIDE DEF j
    <2>4. e.pc = "image" /\ e.journal = j
      BY <1>1 DEF IsController
    <2> HIDE DEF d, e
    <2>5. Clean(d, blobs, acked)
      BY <1>2, <2>2, SameClean
    <2>6. ~Present(d, "journal") /\ ~Announced(e) /\ e.pc \in PreparePcs
      BY <1>2, <2>2, <2>4 DEF Present, Announced, PreparePcs
    <2>7. e.journal.old = d.env
      BY <1>1, <2>2, <2>3, <2>4
    <2> QED BY <1>0, <1>2, <2>1, <2>5, <2>6, <2>7, PrepareTidy
  <1> QED BY <1>3, <1>4

LEMMA ImageTidy ==
    ASSUME Alone, Ready, Counted, NEW p \in Procs,
           Fits(ctl[p], disk, blobs, acked, keys, faults > 0),
           Tidy(ctl[p], disk, blobs, acked, faults > 0), BeginImage(p) \/ EndImage(p)
    PROVE  AllTidy'
  <1> DEFINE c == ctl[p]
  <1> DEFINE i == Images[c.k]
  <1>0. c.pc \in {"image", "imaging"} /\ c.pc \in PreparePcs /\ acked' = acked
    BY DEF BeginImage, EndImage, PreparePcs, bounds
  <1>1. /\ IsController(c) /\ LocalsSet(c) /\ IsDisk(disk) /\ c.journal.state = "preparing"
    BY <1>0, PreparingNow DEF Preparing
  <1>2. Clean(disk, blobs, acked) /\ disk.journal = None /\ c.journal.old = disk.env
    BY <1>0, PreparingTidy DEF Unannounced
  <1>3. i \in {"base", "pre"}
    BY <1>0, <1>1, Steps DEF LocalsSet
  <1>4. ASSUME NEW d, d.env = disk.env, d.journal = disk.journal, d.oldDb = disk.oldDb,
               NEW e, e.pc \in {"image", "imaging", "tmp"}, e.journal.old = c.journal.old,
               e.journal.state = "preparing",
               FileOp(p, d, blobs, e) \/ (UNCHANGED faults /\ Moves(p, d, blobs, e))
        PROVE  AllTidy'
    <2>1. Clean(d, blobs, acked)
      BY <1>2, <1>4, SameClean
    <2>2. ~Present(d, "journal") /\ ~Announced(e) /\ e.pc \in PreparePcs /\ e.journal.old = d.env
      BY <1>2, <1>4 DEF Present, Announced, PreparePcs
    <2> QED BY <1>0, <1>2, <1>4, <2>1, <2>2, PrepareTidy
  <1>5. ASSUME NEW v \in {"keep", "drop"}
        PROVE  LET e == NextImage([c EXCEPT !.journal.images[i] = v]) IN
               /\ e.pc \in {"image", "tmp"} /\ e.journal.old = c.journal.old
               /\ e.journal.state = "preparing"
    <2> DEFINE x == [c EXCEPT !.journal.images[i] = v]
    <2>1. /\ IsController(x) /\ LocalsSet(x) /\ x.pc = c.pc
          /\ x.journal.state = c.journal.state /\ x.journal.old = c.journal.old
      <3>1. x = [c EXCEPT !.journal.images[i] = v]
        OBVIOUS
      <3> HIDE DEF i, x
      <3> QED BY <1>0, <1>1, <1>3, <3>1, MarkImage
    <2> HIDE DEF x, i
    <2>2. NextImage(x).journal = x.journal /\ NextImage(x).pc \in {"image", "tmp"}
      BY <1>0, <2>1, NextImageTyped
    <2> QED BY <1>1, <2>1, <2>2 DEF x
  <1>6. CASE BeginImage(p)
    <2> DEFINE y == [key |-> c.new, readable |-> FALSE]
    <2> DEFINE d == [disk EXCEPT ![ImageNew[i]] = y, ![ImageSides[i]] = "file"]
    <2> DEFINE e == [c EXCEPT !.pc = "imaging"]
    <2>1. \/ Moves(p, disk, blobs, NextImage(c)) /\ UNCHANGED faults
          \/ /\ Moves(p, disk, blobs, NextImage([c EXCEPT !.journal.images[i] = "drop"]))
             /\ UNCHANGED faults
          \/ Moves(p, disk, blobs, OnError(p, disk)) /\ UNCHANGED faults
          \/ FileOp(p, d, blobs, e)
      BY <1>6 DEF BeginImage, Present
    <2>2. CASE Moves(p, disk, blobs, NextImage(c)) /\ UNCHANGED faults
      <3>1. NextImage(c).journal = c.journal /\ NextImage(c).pc \in {"image", "tmp"}
        BY <1>0, <1>1, NextImageTyped
      <3> QED BY <1>1, <1>4, <2>2, <3>1
    <2>3. CASE /\ Moves(p, disk, blobs, NextImage([c EXCEPT !.journal.images[i] = "drop"]))
               /\ UNCHANGED faults
      <3> DEFINE x == NextImage([c EXCEPT !.journal.images[i] = "drop"])
      <3>1. Moves(p, disk, blobs, x)
        BY <2>3
      <3>2. x.pc \in {"image", "tmp"} /\ x.journal.old = c.journal.old /\ x.journal.state = "preparing"
        BY <1>5
      <3> HIDE DEF x
      <3> QED BY <1>4, <2>3, <3>1, <3>2
    <2>4. CASE Moves(p, disk, blobs, OnError(p, disk)) /\ UNCHANGED faults
      <3>1. ~Present(disk, "journal")
        BY <1>2 DEF Present
      <3>2. Tidy(OnError(p, disk), disk, blobs, acked', faults' > 0)
        BY <1>0, <1>1, <1>2, <3>1, OnErrorTidy
      <3> QED BY <2>4, <3>2, MovesTidy
    <2>5. CASE FileOp(p, d, blobs, e)
      <3>1. d.env = disk.env /\ d.journal = disk.journal /\ d.oldDb = disk.oldDb
        <4> HIDE DEF i, y
        <4> QED BY <1>1, <1>3, CopyNames DEF IsDisk
      <3>2. e.pc = "imaging" /\ e.journal = c.journal
        BY <1>1 DEF IsController
      <3> HIDE DEF d, e
      <3> QED BY <1>1, <1>4, <2>5, <3>1, <3>2
    <2> QED BY <2>1, <2>2, <2>3, <2>4, <2>5
  <1>7. CASE EndImage(p)
    <2> DEFINE y == [key |-> c.new, readable |-> TRUE]
    <2> DEFINE d == [disk EXCEPT ![ImageNew[i]] = y, ![ImageSides[i]] = None]
    <2> DEFINE e == NextImage([c EXCEPT !.journal.images[i] = "keep"])
    <2>1. FileOp(p, d, blobs, e)
      BY <1>7 DEF EndImage
    <2>2. d.env = disk.env /\ d.journal = disk.journal /\ d.oldDb = disk.oldDb
      <3> HIDE DEF i, y
      <3> QED BY <1>1, <1>3, CopyNames DEF IsDisk
    <2>3. e.pc \in {"image", "tmp"} /\ e.journal.old = c.journal.old /\ e.journal.state = "preparing"
      BY <1>5
    <2> HIDE DEF d, e
    <2> QED BY <1>4, <2>1, <2>2, <2>3
  <1> QED BY <1>6, <1>7

LEMMA JournalTidy ==
    ASSUME Alone, Ready, Counted, faults' <= 1, NEW p \in Procs,
           Fits(ctl[p], disk, blobs, acked, keys, faults > 0),
           Tidy(ctl[p], disk, blobs, acked, faults > 0), WriteJournalTmp(p) \/ InstallJournal(p)
    PROVE  AllTidy'
  <1> DEFINE c == ctl[p]
  <1>0. c.pc \in {"tmp", "install"} /\ c.pc \in PreparePcs /\ acked' = acked /\ faults \in Nat
    BY DEF WriteJournalTmp, InstallJournal, PreparePcs, bounds, Counted
  <1>1. /\ IsController(c) /\ LocalsSet(c) /\ IsDisk(disk) /\ CopyMade(c, disk, acked)
        /\ c.journal \in Journal
    BY <1>0, PreparingNow DEF Preparing, LocalsSet
  <1>2. /\ OldTidy(disk, blobs, acked) /\ ~Committed(disk) /\ Clean(disk, blobs, acked)
        /\ Unannounced(c) => disk.journal = None
        /\ Announced(c) => disk.journal # None /\ NewNames(disk.journal) = NewNames(c.journal)
        /\ c.journal.old = disk.env
    BY <1>0, PreparingTidy
  <1>3. NewNames(disk.journal) \subseteq NewNames(c.journal)
    BY <1>0, <1>2 DEF Unannounced, Announced, NewNames
  <1>4. CASE WriteJournalTmp(p)
    <2> DEFINE d == [disk EXCEPT !.journalTmp = "file"]
    <2> DEFINE e == [c EXCEPT !.pc = "install"]
    <2>1. FileOp(p, d, blobs, e) /\ c.pc = "tmp"
      BY <1>4 DEF WriteJournalTmp
    <2>2. d.env = disk.env /\ d.journal = disk.journal /\ d.oldDb = disk.oldDb
      BY <1>1 DEF IsDisk
    <2>3. e.pc = "install" /\ e.journal = c.journal
      BY <1>1 DEF IsController
    <2> HIDE DEF d, e
    <2>4. Clean(d, blobs, acked)
      BY <1>2, <2>2, SameClean
    <2>5. /\ e.pc \in PreparePcs /\ (Unannounced(e) => ~Present(d, "journal"))
          /\ Announced(e) => Present(d, "journal") /\ NewNames(d.journal) = NewNames(e.journal)
          /\ e.journal.old = d.env
      BY <1>2, <2>1, <2>2, <2>3 DEF Present, Unannounced, Announced, PreparePcs
    <2> QED BY <1>0, <1>2, <2>1, <2>4, <2>5, PrepareTidy
  <1>5. CASE InstallJournal(p)
    <2> DEFINE d == [disk EXCEPT !.journal = c.journal, !.journalTmp = None]
    <2> DEFINE e == Installed(c)
    <2>1. /\ c.pc = "install"
          /\ \/ c.journal.state # "committed" /\ FileOp(p, d, blobs, e)
             \/ c.journal.state = "committed" /\ CommitWrite(p, d)
      BY <1>5 DEF InstallJournal
    <2>2. d.env = disk.env /\ d.journal = c.journal /\ d.oldDb = disk.oldDb
      BY <1>1 DEF IsDisk
    <2> HIDE DEF d
    <2>3. c.journal # None /\ c.journal.state \in {"preparing", "prepared", "committed"}
      BY <1>1, RotationAssumption DEF Journal
    <2>4. blobs \subseteq (acked \X {d.env}) \cup NewNames(d.journal)
      BY <1>2, <1>3, <2>2 DEF OldTidy
    <2>5. CASE c.journal.state # "committed"
      <3>1. Clean(d, blobs, acked)
        <4>1. ~Committed(d)
          BY <2>2, <2>5 DEF Committed
        <4>2. OldTidy(d, blobs, acked)
          BY <1>2, <2>2, <2>4 DEF OldTidy, Present
        <4> QED BY <4>1, <4>2 DEF Clean
      <3>2. /\ e.journal.old = c.journal.old
            /\ \/ e.pc = "link" /\ e.journal = c.journal
               \/ /\ e.pc = "tmp" /\ e.journal.state = "committed" /\ e.journal \in Journal
                  /\ e.journal.docs = c.journal.docs /\ e.journal.new = c.journal.new
        <4>1. CASE c.journal.state = "preparing"
          <5>1. e = [c EXCEPT !.pc = "link"]
            BY <4>1 DEF Installed
          <5> QED BY <1>1, <5>1 DEF IsController
        <4>2. CASE c.journal.state = "prepared"
          <5> DEFINE j == [c.journal EXCEPT !.state = "committed"]
          <5>1. e = [c EXCEPT !.pc = "tmp", !.journal = j]
            BY <1>1, <4>2 DEF Installed, IsController
          <5>2. /\ j \in Journal /\ j.state = "committed" /\ j.old = c.journal.old
                /\ j.docs = c.journal.docs /\ j.new = c.journal.new
            BY <1>1 DEF Journal
          <5> HIDE DEF j
          <5> QED BY <1>1, <5>1, <5>2 DEF IsController
        <4> QED BY <2>3, <2>5, <4>1, <4>2
      <3> HIDE DEF e
      <3>3. NewNames(e.journal) = NewNames(c.journal)
        BY <1>1, <3>2, SameNames
      <3>4. ~Unannounced(e) /\ e.pc \in PreparePcs
        BY <3>2 DEF Unannounced, PreparePcs
      <3>5. Present(d, "journal") /\ NewNames(d.journal) = NewNames(e.journal) /\ e.journal.old = d.env
        BY <1>2, <2>2, <2>3, <3>2, <3>3 DEF Present
      <3> QED BY <1>0, <1>2, <2>1, <2>5, <3>1, <3>4, <3>5, PrepareTidy
    <2>6. CASE c.journal.state = "committed"
      <3>1. \/ Moves(p, d, blobs, e)
            \/ Moves(p, disk, blobs, OnError(p, disk)) /\ faults' = faults + 1
        <4>1. ~(faults' = faults + 2)
          BY <1>0
        <4> QED BY <2>1, <2>6, <4>1 DEF CommitWrite
      <3>2. CASE Moves(p, d, blobs, e)
        <4>1. Committed(d)
          BY <2>2, <2>3, <2>6 DEF Committed, Present
        <4>2. d.journal.docs = acked /\ d.journal.old = d.env
          BY <1>1, <1>2, <2>2 DEF CopyMade
        <4>3. NewTidy(d, blobs)
          BY <2>4, <4>2 DEF NewTidy, OldNames
        <4>4. Clean(d, blobs, acked)
          BY <4>1, <4>3 DEF Clean
        <4>5. e = [c EXCEPT !.pc = "finish", !.caller = "finish"]
          BY <2>6 DEF Installed
        <4>6. e.pc = "finish"
          BY <1>1, <4>5 DEF IsController
        <4> HIDE DEF e
        <4>7. Tidy(e, d, blobs, acked', faults' > 0)
          BY <1>0, <4>4, <4>6, RestTidy
        <4> QED BY <3>2, <4>7, MovesTidy
      <3>3. CASE Moves(p, disk, blobs, OnError(p, disk)) /\ faults' = faults + 1
        <4>1. faults' > 0
          BY <1>0, <3>3
        <4>2. Tidy(OnError(p, disk), disk, blobs, acked', faults' > 0)
          BY <1>0, <1>1, <1>2, <4>1, OnErrorTidy
        <4> QED BY <3>3, <4>2, MovesTidy
      <3> QED BY <3>1, <3>2, <3>3
    <2> QED BY <2>5, <2>6
  <1> QED BY <1>4, <1>5

LEMMA LinkTidy ==
    ASSUME Alone, Ready, Counted, NEW p \in Procs,
           Fits(ctl[p], disk, blobs, acked, keys, faults > 0),
           Tidy(ctl[p], disk, blobs, acked, faults > 0),
           LinkBlob(p) \/ WriteNewEnvelope(p) \/ Verify(p)
    PROVE  AllTidy'
  <1> DEFINE c == ctl[p]
  <1>0. c.pc \in {"link", "verify"} /\ c.pc \in PreparePcs /\ acked' = acked /\ Announced(c)
    BY DEF LinkBlob, WriteNewEnvelope, Verify, PreparePcs, bounds, Announced
  <1>1. /\ IsController(c) /\ LocalsSet(c) /\ IsDisk(disk) /\ CopyMade(c, disk, acked)
        /\ c.journal \in Journal /\ c.new \in Keys
        /\ c.pc = "verify" => acked \X {c.new} \subseteq blobs
    BY <1>0, PreparingNow DEF Preparing, LocalsSet
  <1>2. /\ OldTidy(disk, blobs, acked) /\ ~Committed(disk) /\ Clean(disk, blobs, acked)
        /\ disk.journal # None /\ NewNames(disk.journal) = NewNames(c.journal)
        /\ c.journal.old = disk.env
    BY <1>0, PreparingTidy
  <1>3. ~Unannounced(c)
    BY <1>0 DEF Unannounced
  <1>4. CASE LinkBlob(p)
    <2>1. PICK name \in NewNames(c.journal) : FileOp(p, disk, blobs \cup {name}, c)
      BY <1>4 DEF LinkBlob
    <2>2. Clean(disk, blobs \cup {name}, acked)
      BY <1>2 DEF Clean, OldTidy
    <2> QED BY <1>0, <1>2, <1>3, <2>1, <2>2, PrepareTidy DEF Present
  <1>5. CASE WriteNewEnvelope(p)
    <2> DEFINE d == [disk EXCEPT !.newEnv = c.new]
    <2> DEFINE e == [c EXCEPT !.pc = "verify"]
    <2>1. FileOp(p, d, blobs, e)
      BY <1>5 DEF WriteNewEnvelope
    <2>2. d.env = disk.env /\ d.journal = disk.journal /\ d.oldDb = disk.oldDb
      BY <1>1 DEF IsDisk
    <2>3. e.pc = "verify" /\ e.journal = c.journal
      BY <1>1 DEF IsController
    <2> HIDE DEF d, e
    <2>4. Clean(d, blobs, acked)
      BY <1>2, <2>2, SameClean
    <2>5. ~Unannounced(e) /\ e.pc \in PreparePcs
      BY <2>3 DEF Unannounced, PreparePcs
    <2>6. Present(d, "journal") /\ NewNames(d.journal) = NewNames(e.journal) /\ e.journal.old = d.env
      BY <1>2, <2>2, <2>3 DEF Present
    <2> QED BY <1>0, <1>2, <2>1, <2>4, <2>5, <2>6, PrepareTidy
  <1>6. CASE Verify(p)
    <2> DEFINE j == [c.journal EXCEPT !.state = "prepared", !.db = disk.newDb]
    <2> DEFINE e == [c EXCEPT !.pc = "tmp", !.journal = j]
    <2>1. disk.newDb # None /\ disk.newDb.key = c.new /\ disk.newDb.rows = acked
      <3>1. disk.newDb = [key |-> c.new, rows |-> acked] /\ acked \in SUBSET Docs
        BY <1>1 DEF CopyMade, Counted
      <3>2. disk.newDb \in Database
        BY <1>1, <3>1 DEF Database
      <3> QED BY <3>1, <3>2, RotationAssumption
    <2>2. FileOp(p, disk, blobs, e)
      <3>1. e = [c EXCEPT !.pc = "tmp", !.journal.state = "prepared", !.journal.db = disk.newDb]
        BY <1>1 DEF IsController, Journal
      <3>2. c.pc = "verify"
        BY <1>6 DEF Verify
      <3> HIDE DEF e
      <3> QED BY <1>1, <1>6, <2>1, <3>1, <3>2 DEF Verify, Present
    <2>3. /\ j.docs = c.journal.docs /\ j.new = c.journal.new /\ j.old = c.journal.old
          /\ j.state = "prepared" /\ j \in Journal
      BY <1>1 DEF Journal, IsDisk, Maybe
    <2> HIDE DEF j
    <2>4. e.pc = "tmp" /\ e.journal = j
      BY <1>1 DEF IsController
    <2> HIDE DEF e
    <2>5. NewNames(j) = NewNames(c.journal)
      BY <1>1, <2>3, SameNames
    <2>6. ~Unannounced(e) /\ e.pc \in PreparePcs
      BY <2>3, <2>4 DEF Unannounced, PreparePcs
    <2>7. /\ Present(disk, "journal") /\ NewNames(disk.journal) = NewNames(e.journal)
          /\ e.journal.old = disk.env
      BY <1>2, <2>3, <2>4, <2>5 DEF Present
    <2> QED BY <1>0, <1>2, <2>2, <2>6, <2>7, PrepareTidy
  <1> QED BY <1>4, <1>5, <1>6

LEMMA TurnTidy ==
    ASSUME Alone, Ready, Counted, faults' <= 1, NEW p \in Procs,
           Fits(ctl[p], disk, blobs, acked, keys, faults > 0),
           Tidy(ctl[p], disk, blobs, acked, faults > 0), AbortPrepare(p) \/ FinishRotation(p)
    PROVE  AllTidy'
  <1> DEFINE c == ctl[p]
  <1> DEFINE j == disk.journal
  <1>1. IsController(c) /\ faults \in Nat /\ acked' = acked /\ Clean(disk, blobs, acked)
    BY DEF Ready, Good, Counted, AbortPrepare, FinishRotation, bounds, Tidy
  <1>2. CASE AbortPrepare(p)
    <2> DEFINE x == BeginRollBack(c, j, "abort")
    <2>1. Moves(p, disk, blobs, x)
      <3>1. CASE Moves(p, disk, blobs, BeginRollBack(c, None, "abort")) /\ faults' = faults + 1
        <4>1. ~(faults > 0)
          BY <1>1, <3>1
        <4>2. disk.journal = None
          BY <1>2, <4>1 DEF AbortPrepare, Tidy, Swept, Present
        <4> QED BY <3>1, <4>2
      <3> QED BY <1>2, <3>1 DEF AbortPrepare
    <2>2. x.pc = "rollback" /\ x.k = 1 /\ x.journal = disk.journal
      BY <1>1 DEF IsController, BeginRollBack
    <2> HIDE DEF x
    <2>3. ~Unannounced(x) /\ ~Announced(x) /\ x.pc \notin PreparePcs /\ ~(x.k > 9)
      BY <2>2 DEF Unannounced, Announced, PreparePcs
    <2>4. Swept(x, disk, blobs, acked', faults' > 0)
      BY <2>2, <2>3 DEF Swept
    <2>5. Tidy(x, disk, blobs, acked', faults' > 0)
      BY <1>1, <2>4 DEF Tidy
    <2> QED BY <2>1, <2>5, MovesTidy
  <1>3. CASE FinishRotation(p)
    <2> DEFINE x == BeginApply(c, j, "finish")
    <2> DEFINE y == [c EXCEPT !.pc = "recover"]
    <2>1. Moves(p, disk, blobs, x) \/ Moves(p, disk, blobs, y)
      BY <1>3 DEF FinishRotation
    <2>2. x.pc = "apply" /\ x.k = 1 /\ y.pc = "recover"
      BY <1>1 DEF IsController, BeginApply
    <2> HIDE DEF x, y
    <2>3. /\ ~Unannounced(x) /\ ~Announced(x) /\ x.pc \notin PreparePcs
          /\ ~(x.k > 7) /\ ~(x.k > 8)
      BY <2>2 DEF Unannounced, Announced, PreparePcs
    <2>4. Swept(x, disk, blobs, acked', faults' > 0)
      BY <2>2, <2>3 DEF Swept
    <2>5. Tidy(x, disk, blobs, acked', faults' > 0)
      BY <1>1, <2>4 DEF Tidy
    <2>6. Tidy(y, disk, blobs, acked', faults' > 0)
      BY <1>1, <2>2, RestTidy
    <2> QED BY <2>1, <2>5, <2>6, MovesTidy
  <1> QED BY <1>2, <1>3

LEMMA RollBackTidy ==
    ASSUME Alone, Ready, Counted, NEW p \in Procs,
           Fits(ctl[p], disk, blobs, acked, keys, faults > 0),
           Tidy(ctl[p], disk, blobs, acked, faults > 0), RollBackStep(p)
    PROVE  AllTidy'
  <1> DEFINE c == ctl[p]
  <1> DEFINE f == RollBackOrder[c.k]
  <1> DEFINE next(d) == IF c.k = Len(RollBackOrder) THEN RolledBack(c, d) ELSE [c EXCEPT !.k = @ + 1]
  <1>1. /\ c.pc = "rollback" /\ IsController(c) /\ IsDisk(disk)
        /\ c.k \in 1..11 /\ acked' = acked
    BY DEF RollBackStep, Ready, Good, LocalsSet, bounds
  <1>2. Old(disk, blobs, acked, keys)
    BY <1>1 DEF Fits, InOld
  <1>3. /\ ~Committed(disk) /\ OldTidy(disk, blobs, acked) /\ Clean(disk, blobs, acked)
        /\ c.journal = disk.journal /\ (c.k > 9 => blobs \subseteq acked \X {disk.env})
    BY <1>1, <1>2 DEF Old, Tidy, Clean, Swept
  <1>4. ASSUME NEW d, NEW b, Clean(d, b, acked),
               c.k # 11 => d.journal = disk.journal,
               c.k # 11 /\ c.k >= 9 => b \subseteq acked \X {d.env}
        PROVE  Tidy(next(d), d, b, acked, faults > 0)
    <2>1. CASE c.k # 11
      <3>1. next(d) = [c EXCEPT !.k = c.k + 1]
        BY <2>1, Steps
      <3>2. next(d).pc = "rollback" /\ next(d).journal = d.journal /\ next(d).k = c.k + 1
        BY <1>1, <1>3, <1>4, <2>1, <3>1 DEF IsController
      <3> HIDE DEF next
      <3>3. ~Unannounced(next(d)) /\ ~Announced(next(d)) /\ next(d).pc \notin PreparePcs
        BY <3>2 DEF Unannounced, Announced, PreparePcs
      <3>4. next(d).k > 9 => b \subseteq acked \X {d.env}
        BY <1>1, <1>4, <2>1, <3>2
      <3>5. Swept(next(d), d, b, acked, faults > 0)
        BY <3>2, <3>3, <3>4 DEF Swept
      <3> QED BY <1>4, <3>5 DEF Tidy
    <2>2. CASE c.k = 11
      <3>1. next(d) = RolledBack(c, d)
        BY <2>2, Steps
      <3>2. RolledBack(c, d).pc = "ready"
        BY DEF RolledBack, Recovered, Idle
      <3> HIDE DEF next
      <3> QED BY <1>4, <3>1, <3>2, RestTidy
    <2> QED BY <2>1, <2>2
  <1>5. CASE f # "blobs"
    <2> DEFINE d == Remove(disk, f)
    <2>1. /\ f \in Leftovers /\ (c.k = 11 => f = "journal")
          /\ c.k # 11 => f # "journal"
          /\ c.k # 9
      <3>1. \A k \in 1..11 : k = 1 \/ k = 2 \/ k = 3 \/ k = 4 \/ k = 5 \/ k = 6 \/ k = 7 \/ k = 8
                             \/ k = 9 \/ k = 10 \/ k = 11
        OBVIOUS
      <3>2. c.k # 11 => f # "journal"
        BY <1>1, <3>1 DEF RollBackOrder
      <3>3. c.k # 9 /\ (c.k = 11 => f = "journal")
        BY <1>5 DEF RollBackOrder
      <3> QED BY <1>1, <1>5, <3>2, <3>3, Steps DEF Leftovers
    <2>2. FileOp(p, d, blobs, next(d))
      BY <1>1, <1>5 DEF RollBackStep
    <2>3. /\ d.env = disk.env /\ d.oldDb = disk.oldDb
          /\ d.journal = IF f = "journal" THEN None ELSE disk.journal
      <3> HIDE DEF f
      <3> QED BY <1>1, <2>1 DEF Remove, IsDisk, Leftovers
    <2> HIDE DEF f, d
    <2>4. Clean(d, blobs, acked)
      <3>1. CASE c.k # 11
        BY <1>3, <2>1, <2>3, <3>1, SameClean
      <3>2. CASE c.k = 11
        <4>1. d.journal = None /\ blobs \subseteq acked \X {d.env}
          BY <1>3, <2>1, <2>3, <3>2
        <4> QED BY <1>3, <2>3, <4>1 DEF Clean, Committed, Present, OldTidy, NewNames
      <3> QED BY <3>1, <3>2
    <2>5. c.k # 11 /\ c.k >= 9 => blobs \subseteq acked \X {d.env}
      BY <1>1, <1>3, <2>1, <2>3
    <2>6. Tidy(next(d), d, blobs, acked, faults > 0)
      BY <1>4, <2>1, <2>3, <2>4, <2>5
    <2> HIDE DEF next
    <2> QED BY <1>1, <1>3, <2>2, <2>6, FileOpTidy
  <1>6. CASE f = "blobs"
    <2> DEFINE linked == (NewNames(c.journal) \ (IF c.journal = None THEN {} ELSE OldNames(c.journal)))
                             \cap blobs
    <2>0. c.k = 9
      <3>1. \A k \in 1..11 : RollBackOrder[k] = "blobs" => k = 9
        <4>1. \A k \in 1..11 : k = 1 \/ k = 2 \/ k = 3 \/ k = 4 \/ k = 5 \/ k = 6 \/ k = 7 \/ k = 8
                               \/ k = 9 \/ k = 10 \/ k = 11
          OBVIOUS
        <4> QED BY <4>1 DEF RollBackOrder
      <3> QED BY <1>1, <1>6, <3>1
    <2>1. \/ \E name \in blobs : FileOp(p, disk, blobs \ {name}, c)
          \/ linked = {} /\ Moves(p, disk, blobs, next(disk)) /\ UNCHANGED faults
      BY <1>1, <1>6 DEF RollBackStep
    <2>2. CASE linked = {} /\ Moves(p, disk, blobs, next(disk)) /\ UNCHANGED faults
      <3>1. blobs \subseteq acked \X {disk.env}
        <4>1. CASE c.journal = None
          BY <1>3, <4>1 DEF OldTidy, NewNames
        <4>2. CASE c.journal # None
          <5>1. c.journal \in Journal /\ c.journal.old = disk.env /\ c.journal.new > disk.env
            BY <1>1, <1>2, <1>3, <4>2 DEF IsController, Maybe, OldTidy, Present, Old
          <5>2. c.journal.new # c.journal.old
            BY <5>1 DEF Journal, Keys
          <5>3. NewNames(c.journal) \cap OldNames(c.journal) = {}
            BY <5>2 DEF NewNames, OldNames
          <5>4. NewNames(c.journal) \cap blobs = {}
            BY <2>2, <4>2, <5>3
          <5> QED BY <1>3, <5>4 DEF OldTidy
        <4> QED BY <4>1, <4>2
      <3>2. Tidy(next(disk), disk, blobs, acked', faults' > 0)
        BY <1>1, <1>3, <1>4, <2>2, <3>1
      <3> HIDE DEF next
      <3> QED BY <2>2, <3>2, MovesTidy
    <2>3. ASSUME NEW name \in blobs, FileOp(p, disk, blobs \ {name}, c)
          PROVE  AllTidy'
      <3>1. Clean(disk, blobs \ {name}, acked)
        BY <1>3 DEF Clean, OldTidy
      <3>2. ~Unannounced(c) /\ ~Announced(c) /\ c.pc \notin PreparePcs /\ ~(c.k > 9)
        BY <1>1, <2>0 DEF Unannounced, Announced, PreparePcs
      <3>3. Swept(c, disk, blobs \ {name}, acked, faults > 0)
        BY <1>1, <1>3, <3>2 DEF Swept
      <3>4. Tidy(c, disk, blobs \ {name}, acked, faults > 0)
        BY <3>1, <3>3 DEF Tidy
      <3> QED BY <1>1, <1>3, <2>3, <3>4, FileOpTidy
    <2> QED BY <2>1, <2>2, <2>3
  <1> QED BY <1>5, <1>6

LEMMA ApplyTidy ==
    ASSUME Alone, Ready, Counted, NEW p \in Procs,
           Fits(ctl[p], disk, blobs, acked, keys, faults > 0),
           Tidy(ctl[p], disk, blobs, acked, faults > 0), ApplyStep(p)
    PROVE  AllTidy'
  <1> DEFINE c == ctl[p]
  <1> DEFINE op == ApplyOrder[c.k]
  <1> DEFINE d == ApplyOp(disk, c.journal, op)
  <1> DEFINE next(e) == IF c.k = Len(ApplyOrder) THEN Applied(c, e) ELSE [c EXCEPT !.k = @ + 1]
  <1>1. /\ c.pc = "apply" /\ IsController(c) /\ IsDisk(disk)
        /\ c.k \in 1..10 /\ acked' = acked
    BY DEF ApplyStep, Ready, Good, LocalsSet, bounds
  <1>2. New(disk, blobs, acked, keys) /\ c.journal = disk.journal /\ Done(c.k, disk)
    BY <1>1 DEF Fits, InNew, Applying
  <1>3. /\ Committed(disk) /\ NewTidy(disk, blobs) /\ Clean(disk, blobs, acked)
        /\ c.k > 7 => blobs \subseteq NewNames(disk.journal)
        /\ c.k > 8 => ~Present(disk, "oldDb")
    BY <1>1, <1>2 DEF New, Tidy, Clean, Swept
  <1>4. ASSUME NEW e, Clean(e, blobs, acked), c.k # 10, e.journal = disk.journal,
               c.k >= 7 => blobs \subseteq NewNames(e.journal),
               c.k >= 8 => ~Present(e, "oldDb")
        PROVE  Tidy(next(e), e, blobs, acked, faults > 0)
    <2>1. next(e) = [c EXCEPT !.k = c.k + 1]
      BY <1>4, Steps
    <2>2. next(e).pc = "apply" /\ next(e).k = c.k + 1
      BY <2>1, <1>1 DEF IsController
    <2> HIDE DEF next
    <2>3. ~Unannounced(next(e)) /\ ~Announced(next(e)) /\ next(e).pc \notin PreparePcs
      BY <2>2 DEF Unannounced, Announced, PreparePcs
    <2>4. /\ next(e).k > 7 => blobs \subseteq NewNames(e.journal)
          /\ next(e).k > 8 => ~Present(e, "oldDb")
      BY <1>1, <1>4, <2>2
    <2>5. Swept(next(e), e, blobs, acked, faults > 0)
      BY <2>2, <2>3, <2>4 DEF Swept
    <2> QED BY <1>4, <2>5 DEF Tidy
  <1>5. CASE op = "oldBlobs"
    <2> DEFINE retired == (OldNames(c.journal) \ NewNames(c.journal)) \cap blobs
    <2>0. c.k = 7
      <3>1. \A k \in 1..10 : ApplyOrder[k] = "oldBlobs" => k = 7
        <4>1. \A k \in 1..10 : k = 1 \/ k = 2 \/ k = 3 \/ k = 4 \/ k = 5 \/ k = 6 \/ k = 7 \/ k = 8
                               \/ k = 9 \/ k = 10
          OBVIOUS
        <4> QED BY <4>1 DEF ApplyOrder
      <3> QED BY <1>1, <1>5, <3>1
    <2>1. \/ \E name \in blobs : FileOp(p, disk, blobs \ {name}, c)
          \/ retired = {} /\ Moves(p, disk, blobs, next(disk)) /\ UNCHANGED faults
      BY <1>1, <1>5 DEF ApplyStep
    <2>2. CASE retired = {} /\ Moves(p, disk, blobs, next(disk)) /\ UNCHANGED faults
      <3>1. blobs \subseteq NewNames(disk.journal)
        BY <1>2, <1>3, <2>2 DEF NewTidy
      <3>2. Tidy(next(disk), disk, blobs, acked', faults' > 0)
        BY <1>1, <1>3, <1>4, <2>0, <2>2, <3>1
      <3> HIDE DEF next
      <3> QED BY <2>2, <3>2, MovesTidy
    <2>3. ASSUME NEW name \in blobs, FileOp(p, disk, blobs \ {name}, c)
          PROVE  AllTidy'
      <3>1. Clean(disk, blobs \ {name}, acked)
        BY <1>3 DEF Clean, NewTidy
      <3>2. ~Unannounced(c) /\ ~Announced(c) /\ c.pc \notin PreparePcs /\ ~(c.k > 7) /\ ~(c.k > 8)
        BY <1>1, <2>0 DEF Unannounced, Announced, PreparePcs
      <3>3. Swept(c, disk, blobs \ {name}, acked, faults > 0)
        BY <1>1, <3>2 DEF Swept
      <3>4. Tidy(c, disk, blobs \ {name}, acked, faults > 0)
        BY <3>1, <3>3 DEF Tidy
      <3> QED BY <1>1, <1>3, <2>3, <3>4, FileOpTidy
    <2> QED BY <2>1, <2>2, <2>3
  <1>6. CASE op # "oldBlobs" /\ c.k # 10
    <2>1. FileOp(p, d, blobs, next(d))
      BY <1>1, <1>6 DEF ApplyStep
    <2>2. c.k \in 1..9 /\ c.k # 7
      BY <1>1, <1>6 DEF ApplyOrder
    <2>3. d.journal = disk.journal
      BY <1>1, <1>2, <1>6, <2>2, ApplyNew
    <2>4. c.k >= 8 => ~Present(d, "oldDb")
      <3>1. CASE c.k = 8
        <4>1. d = Remove(disk, "oldDb")
          BY <3>1 DEF ApplyOrder, ApplyOp
        <4> QED BY <1>1, <4>1 DEF Remove, IsDisk, Present
      <3>2. CASE c.k = 9
        <4>1. d = Remove(disk, "journalTmp")
          BY <3>2 DEF ApplyOrder, ApplyOp
        <4> QED BY <1>1, <1>3, <3>2, <4>1 DEF Remove, IsDisk, Present
      <3> QED BY <2>2, <3>1, <3>2
    <2> HIDE DEF d, op
    <2>5. Clean(d, blobs, acked)
      BY <1>3, <2>3 DEF Clean, Committed, Present, NewTidy
    <2>6. c.k >= 7 => blobs \subseteq NewNames(d.journal)
      BY <1>3, <2>2, <2>3
    <2>7. Tidy(next(d), d, blobs, acked, faults > 0)
      BY <1>4, <1>6, <2>3, <2>4, <2>5, <2>6
    <2> HIDE DEF next
    <2> QED BY <1>1, <1>3, <2>1, <2>7, FileOpTidy
  <1>7. CASE op # "oldBlobs" /\ c.k = 10
    <2>1. FileOp(p, d, blobs, next(d))
      BY <1>1, <1>7 DEF ApplyStep
    <2>2. d = Remove(disk, "journal")
      BY <1>7 DEF ApplyOrder, ApplyOp
    <2>3. d.journal = None /\ d.env = disk.env /\ d.oldDb = disk.oldDb
      BY <1>1, <2>2 DEF Remove, IsDisk
    <2>4. next(d) = Applied(c, d)
      BY <1>7, Steps
    <2>5. Applied(c, d).pc \in {"reopen", "ready"}
      BY <1>1 DEF Applied, Recovered, Idle, IsController
    <2>6. /\ disk.env = disk.journal.new /\ disk.journal.docs = acked /\ disk.journal # None
          /\ disk.oldDb = None
      BY <1>2, <1>3, <1>7 DEF New, Done, InPlace, Present, Committed
    <2>7. blobs \subseteq acked \X {d.env}
      BY <1>3, <1>7, <2>3, <2>6 DEF NewNames
    <2> HIDE DEF d, op, next
    <2>8. Clean(d, blobs, acked)
      BY <2>3, <2>6, <2>7 DEF Clean, Committed, Present, OldTidy
    <2>9. Tidy(next(d), d, blobs, acked, faults > 0)
      BY <2>4, <2>5, <2>8, RestTidy
    <2> QED BY <1>1, <1>3, <2>1, <2>9, FileOpTidy
  <1> QED BY <1>5, <1>6, <1>7

LEMMA TidyInit == Init => AllTidy
  <1> SUFFICES ASSUME Init PROVE AllTidy
    OBVIOUS
  <1>1. /\ disk.env = 1 /\ disk.journal = None /\ disk.oldDb = None /\ blobs = {}
        /\ \A p \in Procs : ctl[p] = Off
    BY DEF Init
  <1>2. Clean(disk, blobs, acked)
    BY <1>1 DEF Clean, Committed, Present, OldTidy
  <1>3. Off.pc = "off"
    BY DEF Off, Idle
  <1> QED BY <1>1, <1>2, <1>3, RestTidy DEF AllTidy

LEMMA TidyStep ==
    ASSUME Alone, ~Torn, Ready, Counted, Whole, AllTidy, [Next]_vars
    PROVE  AllTidy'
  <1>1. faults' >= faults /\ faults \in Nat /\ faults' \in Nat
    <2>1. Counted' /\ faults' >= faults
      BY CountedStep
    <2> QED BY <2>1, RotationAssumption DEF Counted
  <1>2. CASE ~(faults' <= 1)
    BY <1>2 DEF AllTidy
  <1>3. CASE faults' <= 1 /\ UNCHANGED vars
    BY <1>3 DEF AllTidy, vars
  <1>4. CASE faults' <= 1 /\ Next
    <2>1. PICK p \in Procs :
              \/ Proceed(p) \/ Open(p) \/ ReadEnvelope(p) \/ Lock(p) \/ RotateKey(p) \/ Crash(p)
              \/ \E doc \in Docs : Import(p, doc) \/ TornImport(p, doc)
      BY <1>4 DEF Next
    <2>2. /\ Fits(ctl[p], disk, blobs, acked, keys, faults > 0)
          /\ Tidy(ctl[p], disk, blobs, acked, faults > 0)
      BY <1>1, <1>4 DEF Whole, AllTidy
    <2>a. Clean(disk, blobs, acked)
      BY <2>2 DEF Tidy
    <2>3. CASE BeginExport(p) \/ EndExport(p)
      BY <2>2, <2>3, ExportTidy
    <2>4. CASE BeginImage(p) \/ EndImage(p)
      BY <2>2, <2>4, ImageTidy
    <2>5. CASE WriteJournalTmp(p) \/ InstallJournal(p)
      BY <1>4, <2>2, <2>5, JournalTidy
    <2>6. CASE LinkBlob(p) \/ WriteNewEnvelope(p) \/ Verify(p)
      BY <2>2, <2>6, LinkTidy
    <2>7. CASE AbortPrepare(p) \/ FinishRotation(p)
      BY <1>4, <2>2, <2>7, TurnTidy
    <2>8. CASE RollBackStep(p)
      BY <2>2, <2>8, RollBackTidy
    <2>9. CASE ApplyStep(p)
      BY <2>2, <2>9, ApplyTidy
    <2>10. CASE RotateKey(p)
      BY <2>2, <2>10, RotateTidy
    <2>11. ASSUME NEW doc \in Docs, Import(p, doc) PROVE AllTidy'
      BY <2>2, <2>a, <2>11, ImportTidy
    <2>12. CASE \/ Open(p) \/ RecoverAfterFinish(p) \/ ReadEnvelope(p) \/ OpenWorker(p) \/ Lock(p)
                \/ Crash(p) \/ Reopen(p)
      BY <2>a, <2>12, VaultTidy
    <2>13. ASSUME NEW doc \in Docs, TornImport(p, doc) PROVE AllTidy'
      BY <2>13 DEF TornImport
    <2> QED BY <2>1, <2>3, <2>4, <2>5, <2>6, <2>7, <2>8, <2>9, <2>10, <2>11, <2>12, <2>13
            DEF Proceed, Prepare
  <1> QED BY <1>2, <1>3, <1>4

(***************************************************************************)
(* An unlocked vault that no rotation is working on has no file and no blob  *)
(* name left under a retired key: a finished rotation removed the old ones   *)
(* and a failed one its own, before the journal that names them went        *)
(* (apply_committed, roll_back: the journal is removed last).  For one      *)
(* process, at most one failed operation and no crash between a blob and    *)
(* its row, which leaves a name no journal knows of.                         *)
(***************************************************************************)
THEOREM NothingRetiredStays ==
    ASSUME Alone, ~Torn
    PROVE  Spec => [](faults <= 1 => RetiredKeyGone)
  <1>1. Init => Ready /\ Counted /\ Whole /\ AllTidy
    BY ReadyInit, WholeInit, TidyInit
  <1>2. Ready /\ Counted /\ Whole /\ AllTidy /\ [Next]_vars => (Ready /\ Counted /\ Whole /\ AllTidy)'
    BY ReadyStep, WholeStep, TidyStep
  <1>3. ASSUME Ready, Counted, Whole, AllTidy, faults <= 1
        PROVE  RetiredKeyGone
    <2> SUFFICES ASSUME NEW p \in Procs, KernelFree(p), disk.journal = None
                 PROVE  /\ disk.oldDb = None
                        /\ \A f \in {"db", "wal", "base", "pre"} :
                               Present(disk, f) => disk[f].key >= disk.env
                        /\ \A name \in blobs : name[2] >= disk.env
      BY DEF RetiredKeyGone, Present
    <2>1. IsDisk(disk) /\ Old(disk, blobs, acked, keys)
      BY <1>3 DEF Ready, Whole, Fits, InOld, KernelFree
    <2>2. disk.oldDb = None /\ blobs \subseteq acked \X {disk.env}
      <3>1. Clean(disk, blobs, acked) /\ ~Committed(disk)
        BY <1>3, <2>1 DEF AllTidy, Tidy, Old
      <3> QED BY <3>1 DEF Clean, OldTidy, Present, NewNames
    <2>3. disk.env \in Nat
      BY <2>1 DEF Old, Openable, IsDisk, Maybe, Present, Database, Keys
    <2>4. /\ disk.db.key = disk.env
          /\ Present(disk, "wal") => disk.wal.key = disk.env
          /\ Present(disk, "base") => disk.base.key = disk.env
          /\ Present(disk, "pre") => disk.pre.key = disk.env
      BY <2>1 DEF Old, Openable, Content, Present, ImageIsOld
    <2>5. \A name \in blobs : name[2] = disk.env
      BY <2>2
    <2> QED BY <2>2, <2>3, <2>4, <2>5
  <1> QED BY <1>1, <1>2, <1>3, PTL DEF Spec
=============================================================================
