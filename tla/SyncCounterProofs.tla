------------------------- MODULE SyncCounterProofs -------------------------
(***************************************************************************)
(* Proofs about the counter register, for every set of callers, snapshots   *)
(* and contents and for every last counter: type correctness, that no       *)
(* counter encrypts twice, that nothing is sealed or sent from a rolled-    *)
(* back vault, that no crash costs a key its nonce state, and that a retry  *)
(* sends what was sealed before.                                            *)
(***************************************************************************)
EXTENDS SyncCounter, TLAPS

\* The steps that hold a counter, from the comparison that granted it on.
Reserving == {"birth", "commit", "advance", "encrypt", "write", "record", "remove"}

\* What a call's fields mean at its step.
CallOK ==
    \A c \in Callers :
        /\ call[c].pc \in Reserving => NextCounter(c) <= Last
        /\ call[c].pc \in {"file", "remove"} => call[c].seen # None

Shape == TypeOK /\ CallOK

\* A claimed counter: committed in the register, not used yet.
InHand(c) == call[c].pc \in {"advance", "encrypt"}

\* A used counter is below the witness, and no counter is used twice.
UsedBelowWitness ==
    \A k \in Counters : uses[k] # 0 => uses[k] = 1 /\ k < Value(witness)

\* A claimed counter is unused, below the register, and below the witness once recorded.
HandFresh ==
    \A c \in Callers : InHand(c) =>
        /\ uses[NextCounter(c)] = 0
        /\ NextCounter(c) < Value(register)
        /\ call[c].pc = "encrypt" => NextCounter(c) < Value(witness)

\* No two calls hold one counter.
HandsDiffer ==
    \A c, d \in Callers : c # d /\ InHand(c) /\ InHand(d) => NextCounter(c) # NextCounter(d)

\* The register a check read is not ahead of the register.
ReadBehind ==
    \A c \in Callers : call[c].pc \in {"witness", "raise", "birth", "commit"} =>
        NextCounter(c) <= Value(register)

\* A call whose compare-and-set would still succeed is granted a counter above every
\* counter used or in hand.
GrantFresh ==
    \A c \in Callers :
        call[c].pc \in {"birth", "commit"} /\ Value(register) = NextCounter(c) =>
            /\ \A k \in Counters : uses[k] # 0 => k < NextCounter(c)
            /\ \A d \in Callers : InHand(d) => NextCounter(d) < NextCounter(c)

Inv ==
    /\ Shape
    /\ UsedBelowWitness
    /\ HandFresh
    /\ HandsDiffer
    /\ ReadBehind
    /\ GrantFresh
    /\ NothingSentRolledBack

-----------------------------------------------------------------------------
(* Types. *)

LEMMA ValueType ==
    ASSUME NEW e \in Entries \union {0}
    PROVE  Value(e) \in Nat
  BY CounterAssumption DEF Value, Entries

LEMMA Typing ==
    ASSUME TypeOK, NEW c \in Callers
    PROVE  /\ call[c] \in Calls
           /\ NextCounter(c) \in Nat
           /\ Value(register) \in Nat
           /\ Value(witness) \in Nat
  <1>1. call[c] \in Calls
    BY DEF TypeOK
  <1>2. call[c].held \in Entries
    BY <1>1 DEF Calls
  <1>3. Value(witness) \in Nat
    BY CounterAssumption DEF TypeOK, Value
  <1> QED BY <1>1, <1>2, <1>3, ValueType DEF TypeOK, NextCounter

\* What a step does to one call keeps the calls typed.
LEMMA GotoType ==
    ASSUME TypeOK, NEW c \in Callers, NEW s \in Steps, Goto(c, s)
    PROVE  /\ call' \in [Callers -> Calls]
           /\ call'[c] = [call[c] EXCEPT !.pc = s]
           /\ \A d \in Callers : d # c => call'[d] = call[d]
  BY DEF TypeOK, Goto, Calls

LEMMA IdleType ==
    ASSUME NEW p \in Publishes
    PROVE  Idle(p) \in Calls
  BY DEF Idle, Calls, Steps, Resting, Entries, Saves

LEMMA ContainerType ==
    ASSUME Shape, NEW c \in Callers, call[c].pc \in Reserving
    PROVE  ContainerOf(c) \in Containers
  <1>1. call[c].publish \in Publishes
    BY Typing DEF Shape, Calls
  <1>2. NextCounter(c) \in Counters
    BY Typing, CounterAssumption DEF Shape, CallOK, Counters
  <1> QED BY <1>1, <1>2 DEF ContainerOf, Containers

\* A step that moves one call, to a step it is fit for, keeps the calls in shape.
LEMMA GotoShape ==
    ASSUME Shape, NEW c \in Callers, NEW s \in Steps, Goto(c, s),
           s \in Reserving => NextCounter(c) <= Last,
           s \in {"file", "remove"} => call[c].seen # None
    PROVE  /\ call' \in [Callers -> Calls]
           /\ CallOK'
  <1>1. /\ call' \in [Callers -> Calls]
        /\ call'[c] = [call[c] EXCEPT !.pc = s]
        /\ \A d \in Callers : d # c => call'[d] = call[d]
    BY GotoType DEF Shape
  <1>2. /\ call'[c].pc = s
        /\ call'[c].held = call[c].held
        /\ call'[c].seen = call[c].seen
    BY <1>1, Typing DEF Shape, Calls
  <1>3. ASSUME NEW d \in Callers
        PROVE  /\ call'[d].pc \in Reserving => Value(call'[d].held) <= Last
               /\ call'[d].pc \in {"file", "remove"} => call'[d].seen # None
    <2>1. CASE d = c
      BY <2>1, <1>2 DEF NextCounter
    <2>2. CASE d # c
      BY <2>2, <1>1 DEF Shape, CallOK, NextCounter
    <2> QED BY <2>1, <2>2
  <1> QED BY <1>1, <1>3 DEF CallOK, NextCounter

LEMMA StopShape ==
    ASSUME AllStop
    PROVE  /\ call' \in [Callers -> Calls]
           /\ CallOK'
           /\ \A c \in Callers : call'[c].pc = "idle"
  <1>1. PICK p \in Publishes : call' = [c \in Callers |-> Idle(p)]
    BY DEF AllStop
  <1>2. Idle(p).pc = "idle"
    BY DEF Idle
  <1> QED BY <1>1, <1>2, IdleType DEF CallOK, Reserving

LEMMA BeginShape ==
    ASSUME Shape, NEW c \in Callers, NEW first \in {"register", "forget"},
           NEW check \in {"reuse", "reconcile"}, NEW p \in Publishes,
           Begin(c, first, check, p)
    PROVE  /\ Shape'
           /\ call'[c].pc = first
           /\ \A d \in Callers : d # c =>
                 call'[d].pc = call[d].pc /\ call'[d].held = call[d].held
  <1> DEFINE others == \E d \in Callers \ {c} : Busy(d)
             row == [pc |-> first, check |-> check, publish |-> p, held |-> None,
                     seen |-> None, alone |-> ~others]
             beside(d) == [call[d] EXCEPT !.alone = @ /\ ~Busy(d)]
  <1>1. call' = [d \in Callers |-> IF d = c THEN row ELSE beside(d)]
    BY DEF Begin
  <1>2. row \in Calls
    BY DEF Calls, Steps, Entries, Saves
  <1>3. ASSUME NEW d \in Callers
        PROVE  /\ beside(d) \in Calls
               /\ beside(d).pc = call[d].pc
               /\ beside(d).held = call[d].held
               /\ beside(d).seen = call[d].seen
    BY Typing DEF Shape, Calls
  <1>4. call' \in [Callers -> Calls]
    BY <1>1, <1>2, <1>3
  <1>5. /\ call'[c].pc = first
        /\ \A d \in Callers : d # c => call'[d].pc = call[d].pc
                                /\ call'[d].held = call[d].held
                                /\ call'[d].seen = call[d].seen
    BY <1>1, <1>3
  <1>6. CallOK'
    <2>1. ASSUME NEW d \in Callers
          PROVE  /\ call'[d].pc \in Reserving => Value(call'[d].held) <= Last
                 /\ call'[d].pc \in {"file", "remove"} => call'[d].seen # None
      <3>1. CASE d = c
        BY <3>1, <1>5 DEF Reserving
      <3>2. CASE d # c
        BY <3>2, <1>5 DEF Shape, CallOK, NextCounter
      <3> QED BY <3>1, <3>2
    <2> QED BY <2>1 DEF CallOK, NextCounter
  <1>7. TypeOK'
    BY <1>4 DEF Begin, vault, Shape, TypeOK, Saves
  <1> QED BY <1>5, <1>6, <1>7 DEF Shape

-----------------------------------------------------------------------------
(* The steps that leave the register, the witness and the uses alone, and put no call at *)
(* a step the invariant speaks of: they keep the invariant whatever else they do.         *)

Watched == {"witness", "raise", "birth", "commit", "advance", "encrypt"}

Quiet ==
    /\ UNCHANGED <<register, witness, uses>>
    /\ \A c \in Callers :
          \/ call'[c].pc = call[c].pc /\ call'[c].held = call[c].held
          \/ /\ call'[c].pc \notin Watched
             /\ call'[c].pc \in SealSteps => call[c].pc \in SealSteps

LEMMA QuietKeeps ==
    ASSUME Inv, Shape', Quiet
    PROVE  Inv'
  <1> DEFINE Same(c) == call'[c].pc = call[c].pc /\ NextCounter(c)' = NextCounter(c)
  <1>1. ASSUME NEW c \in Callers, call'[c].pc \in Watched
        PROVE  Same(c)
    BY <1>1 DEF Quiet, NextCounter
  <1>2. /\ Value(register)' = Value(register)
        /\ Value(witness)' = Value(witness)
        /\ uses' = uses
    BY DEF Quiet, Value
  <1>3. ASSUME NEW c \in Callers, InHand(c)'
        PROVE  InHand(c) /\ Same(c)
    BY <1>1, <1>3 DEF InHand, Watched
  <1>4. UsedBelowWitness'
    BY <1>2 DEF Inv, UsedBelowWitness
  <1>5. HandFresh'
    <2>1. ASSUME NEW c \in Callers, InHand(c)'
          PROVE  /\ uses'[NextCounter(c)'] = 0
                 /\ NextCounter(c)' < Value(register)'
                 /\ call'[c].pc = "encrypt" => NextCounter(c)' < Value(witness)'
      <3>1. InHand(c) /\ Same(c)
        BY <1>3, <2>1
      <3> QED BY <3>1, <1>2 DEF Inv, HandFresh
    <2> QED BY <2>1 DEF HandFresh
  <1>6. HandsDiffer'
    BY <1>3 DEF Inv, HandsDiffer
  <1>7. ReadBehind'
    <2>1. ASSUME NEW c \in Callers,
                 call'[c].pc \in {"witness", "raise", "birth", "commit"}
          PROVE  NextCounter(c)' <= Value(register)'
      BY <2>1, <1>1, <1>2 DEF Inv, ReadBehind, Watched
    <2> QED BY <2>1 DEF ReadBehind
  <1>8. GrantFresh'
    <2>1. ASSUME NEW c \in Callers, call'[c].pc \in {"birth", "commit"},
                 Value(register)' = NextCounter(c)'
          PROVE  /\ \A k \in Counters : uses'[k] # 0 => k < NextCounter(c)'
                 /\ \A d \in Callers : InHand(d)' => NextCounter(d)' < NextCounter(c)'
      <3>1. Same(c)
        BY <2>1, <1>1 DEF Watched
      <3> QED BY <3>1, <2>1, <1>2, <1>3 DEF Inv, GrantFresh
    <2> QED BY <2>1 DEF GrantFresh
  <1>9. NothingSentRolledBack'
    <2>1. ASSUME NEW c \in Callers, call'[c].pc \in SealSteps
          PROVE  call[c].pc \in SealSteps
      BY <2>1 DEF Quiet
    <2> QED BY <2>1, <1>2 DEF Inv, NothingSentRolledBack
  <1> QED BY <1>4, <1>5, <1>6, <1>7, <1>8, <1>9 DEF Inv

\* One call moves to a step the invariant says nothing of.
LEMMA QuietGoto ==
    ASSUME Inv, NEW c \in Callers, NEW s \in Steps \ Watched, Goto(c, s),
           s \in SealSteps => call[c].pc \in SealSteps,
           UNCHANGED <<register, witness, uses>>
    PROVE  Quiet
  <1>1. /\ call'[c] = [call[c] EXCEPT !.pc = s]
        /\ \A d \in Callers : d # c => call'[d] = call[d]
    BY GotoType DEF Inv, Shape
  <1>2. call'[c].pc = s
    BY <1>1, Typing DEF Inv, Shape, Calls
  <1> QED BY <1>1, <1>2 DEF Quiet

LEMMA BeginKeeps ==
    ASSUME Inv, NEW c \in Callers, NEW p \in Publishes,
           Seal(c, p) \/ Reconcile(c, p) \/ Discard(c, p)
    PROVE  Inv'
  <1>1. PICK first \in {"register", "forget"}, check \in {"reuse", "reconcile"} :
            Begin(c, first, check, p)
    BY DEF Seal, Reconcile, Discard
  <1>2. /\ Shape'
        /\ call'[c].pc = first
        /\ \A d \in Callers : d # c => call'[d].pc = call[d].pc /\ call'[d].held = call[d].held
    BY <1>1, BeginShape DEF Inv
  <1>3. UNCHANGED <<register, witness, uses>>
    BY <1>1 DEF Begin, vault
  <1>4. Quiet
    BY <1>2, <1>3 DEF Quiet, Watched, SealSteps
  <1> QED BY <1>2, <1>4, QuietKeeps

LEMMA StopKeeps ==
    ASSUME Inv, Crash
    PROVE  Inv'
  <1>1. /\ call' \in [Callers -> Calls]
        /\ CallOK'
        /\ \A c \in Callers : call'[c].pc = "idle"
    BY StopShape DEF Crash
  <1>2. Shape'
    BY <1>1 DEF Inv, Shape, TypeOK, Crash, vault
  <1>3. Quiet
    BY <1>1 DEF Quiet, Watched, SealSteps, Crash, vault
  <1> QED BY <1>2, <1>3, QuietKeeps

LEMMA RestoreKeeps ==
    ASSUME Inv, RestoreBackup
    PROVE  Inv'
  <1>1. /\ call' \in [Callers -> Calls]
        /\ CallOK'
        /\ \A c \in Callers : call'[c].pc = "idle"
    BY StopShape DEF RestoreBackup
  <1>2. backup \in [register : Entries, saved : Saves]
    BY DEF Inv, Shape, TypeOK, RestoreBackup
  <1>3. Shape'
    BY <1>1, <1>2 DEF Inv, Shape, TypeOK, RestoreBackup, Saves
  <1>4. UsedBelowWitness'
    BY DEF Inv, UsedBelowWitness, RestoreBackup, Value
  <1>5. HandFresh' /\ HandsDiffer' /\ ReadBehind' /\ GrantFresh' /\ NothingSentRolledBack'
    BY <1>1 DEF HandFresh, HandsDiffer, ReadBehind, GrantFresh, NothingSentRolledBack,
                InHand, SealSteps
  <1> QED BY <1>3, <1>4, <1>5 DEF Inv

LEMMA EnvironmentKeeps ==
    ASSUME Inv, ExportBackup \/ \E o \in Objects : LoseFile(o)
    PROVE  Inv'
  <1>1. UNCHANGED <<register, witness, uses, call>>
    BY DEF ExportBackup, LoseFile, vault
  <1>2. Quiet
    BY <1>1 DEF Quiet
  <1>3. CallOK'
    BY <1>1 DEF Inv, Shape, CallOK, NextCounter
  <1>4. TypeOK'
    <2>1. CASE ExportBackup
      BY <2>1 DEF Inv, Shape, TypeOK, ExportBackup, vault
    <2>2. CASE \E o \in Objects : LoseFile(o)
      BY <2>2 DEF Inv, Shape, TypeOK, LoseFile, NoLonger, vault, Saves
    <2> QED BY <2>1, <2>2
  <1> QED BY <1>2, <1>3, <1>4, QuietKeeps DEF Shape

LEMMA ReadSavedKeeps ==
    ASSUME Inv, NEW c \in Callers, ReadSaved(c) \/ ReadPrevious(c)
    PROVE  Inv'
  <1>1. PICK s \in {"previous", "file", "lost", "register"}, k \in {"reuse", "reserve", "reconcile"} :
            /\ call' = [call EXCEPT ![c].pc = s, ![c].check = k, ![c].seen = saved]
            /\ s = "file" => saved # None
            /\ s \in SealSteps => call[c].pc \in SealSteps
    <2>1. call[c].check \in {"reuse", "reserve", "reconcile"}
      BY Typing DEF Inv, Shape, Calls
    <2>2. CASE ReadSaved(c)
      <3> DEFINE s == IF saved = None THEN "previous"
                      ELSE IF saved.publish # call[c].publish THEN "previous"
                      ELSE IF saved.counter < NextCounter(c) THEN "file" ELSE "lost"
      <3>1. call' = [call EXCEPT ![c].pc = s, ![c].seen = saved]
        BY <2>2 DEF ReadSaved
      <3>2. call' = [call EXCEPT ![c].pc = s, ![c].check = call[c].check, ![c].seen = saved]
        BY <3>1, Typing DEF Inv, Shape, TypeOK, Calls
      <3>3. s = "file" => saved # None
        OBVIOUS
      <3>4. call[c].pc \in SealSteps
        BY <2>2 DEF ReadSaved, SealSteps
      <3>5. s \in {"previous", "file", "lost", "register"}
        OBVIOUS
      <3> QED BY <2>1, <3>2, <3>3, <3>4, <3>5
    <2>3. CASE ReadPrevious(c)
      BY <2>3, Typing DEF ReadPrevious, Inv, Shape, TypeOK, Calls, SealSteps
    <2> QED BY <2>2, <2>3
  <1>2. UNCHANGED <<register, saved, witness, files, backup, uses, restored, live>>
    BY DEF ReadSaved, ReadPrevious, vault
  <1>3. /\ call'[c] = [call[c] EXCEPT !.pc = s, !.check = k, !.seen = saved]
        /\ \A d \in Callers : d # c => call'[d] = call[d]
        /\ call' \in [Callers -> Calls]
    <2>1. s \in Steps
      BY DEF Steps, SealSteps, Resting
    <2>2. saved \in Saves
      BY DEF Inv, Shape, TypeOK
    <2>3. [call[c] EXCEPT !.pc = s, !.check = k, !.seen = saved] \in Calls
      BY <2>1, <2>2, Typing DEF Inv, Shape, Calls
    <2>4. call \in [Callers -> Calls]
      BY DEF Inv, Shape, TypeOK
    <2>5. call' = [call EXCEPT ![c] = [call[c] EXCEPT !.pc = s, !.check = k, !.seen = saved]]
      BY <1>1, <2>4
    <2> QED BY <2>3, <2>4, <2>5
  <1>4. call'[c].pc = s /\ call'[c].seen = saved
    BY <1>3, Typing DEF Inv, Shape, Calls
  <1>5. CallOK'
    <2>1. ASSUME NEW d \in Callers
          PROVE  /\ call'[d].pc \in Reserving => Value(call'[d].held) <= Last
                 /\ call'[d].pc \in {"file", "remove"} => call'[d].seen # None
      <3>1. CASE d = c
        BY <3>1, <1>1, <1>4 DEF Reserving
      <3>2. CASE d # c
        BY <3>2, <1>3 DEF Inv, Shape, CallOK, NextCounter
      <3> QED BY <3>1, <3>2
    <2> QED BY <2>1 DEF CallOK, NextCounter
  <1>6. Shape'
    BY <1>2, <1>3, <1>5 DEF Inv, Shape, TypeOK
  <1>7. Quiet
    BY <1>1, <1>2, <1>3, <1>4 DEF Quiet, Watched
  <1> QED BY <1>6, <1>7, QuietKeeps

LEMMA FailsKeeps ==
    ASSUME Inv, NEW c \in Callers, Fails(c)
    PROVE  Inv'
  <1>1. "idle" \in Steps \ Watched /\ "idle" \notin SealSteps /\ "idle" \notin Reserving
    BY DEF Steps, Resting, Watched, SealSteps, Reserving
  <1>2. Goto(c, "idle") /\ UNCHANGED <<register, saved, witness, files, backup, uses, restored, live>>
    BY DEF Fails, vault
  <1>3. Shape'
    BY <1>1, <1>2, GotoShape DEF Inv, Shape, TypeOK
  <1>4. Quiet
    BY <1>1, <1>2, QuietGoto
  <1> QED BY <1>3, <1>4, QuietKeeps

LEMMA FileStepsKeep ==
    ASSUME Inv, NEW c \in Callers,
           ReadFile(c) \/ WriteFile(c) \/ RemoveOldFile(c)
    PROVE  Inv'
  <1> DEFINE o == call[c].publish.object
  <1>1. PICK s \in {"idle", "previous", "record"} :
            /\ Goto(c, s)
            /\ s \in {"previous", "record"} => call[c].pc \in SealSteps
            /\ s = "record" => call[c].pc = "write"
    BY DEF ReadFile, WriteFile, RemoveOldFile, Returns, SealSteps
  <1>2. s \in Steps \ Watched
    BY DEF Steps, Resting, SealSteps, Watched
  <1>3. s \in Reserving => NextCounter(c) <= Last
    BY <1>1 DEF Inv, Shape, CallOK, Reserving
  <1>4. UNCHANGED <<register, saved, witness, backup, uses, restored>>
    BY DEF ReadFile, WriteFile, RemoveOldFile, vault
  <1>5. Quiet
    <2>1. s \in SealSteps => call[c].pc \in SealSteps
      BY <1>1 DEF SealSteps
    <2> QED BY <1>1, <1>2, <1>4, <2>1, QuietGoto
  <1>6. call' \in [Callers -> Calls] /\ CallOK'
    BY <1>1, <1>2, <1>3, GotoShape DEF Inv
  <1>7. files' \in [Objects -> Saves] /\ live' \in Saves
    <2>1. /\ call[c].publish.object \in Objects
          /\ call[c].seen \in Saves
          /\ files \in [Objects -> Saves]
          /\ live \in Saves
      BY Typing DEF Inv, Shape, TypeOK, Calls, Publishes
    <2>2. CASE ReadFile(c)
      BY <2>1, <2>2 DEF ReadFile, Returns, Saves
    <2>3. CASE WriteFile(c)
      <3>1. live' \in Saves
        BY <2>1, <2>3 DEF WriteFile, NoLonger, Saves
      <3>2. files' \in [Objects -> Saves]
        BY <2>1, <2>3, ContainerType DEF WriteFile, Saves, Inv, Reserving
      <3> QED BY <3>1, <3>2
    <2>4. CASE RemoveOldFile(c)
      BY <2>1, <2>4, ContainerType DEF RemoveOldFile, Returns, Saves, Inv, Reserving
    <2> QED BY <2>2, <2>3, <2>4
  <1>8. Shape'
    BY <1>4, <1>6, <1>7 DEF Inv, Shape, TypeOK
  <1> QED BY <1>5, <1>8, QuietKeeps

LEMMA RecordKeeps ==
    ASSUME Inv, NEW c \in Callers, RecordSaved(c)
    PROVE  Inv'
  <1>1. PICK s \in {"idle", "remove"} :
            /\ Goto(c, s)
            /\ s = "remove" => call[c].seen # None
    BY DEF RecordSaved, Returns
  <1>2. call[c].pc = "record"
    BY DEF RecordSaved
  <1>3. s \in Steps \ Watched /\ call[c].pc \in SealSteps
    BY <1>2 DEF Steps, Resting, SealSteps, Watched
  <1>4. NextCounter(c) <= Last /\ ContainerOf(c) \in Containers
    BY <1>2, ContainerType DEF Inv, Shape, CallOK, Reserving
  <1>5. /\ UNCHANGED <<register, witness, files, backup, uses, restored>>
        /\ saved' \in Saves
        /\ live' \in Saves
    BY <1>4 DEF RecordSaved, Returns, Saves, Inv, Shape, TypeOK
  <1>6. call' \in [Callers -> Calls] /\ CallOK'
    BY <1>1, <1>3, <1>4, GotoShape DEF Inv
  <1>7. Shape'
    BY <1>5, <1>6 DEF Inv, Shape, TypeOK
  <1>8. Quiet
    BY <1>1, <1>3, <1>5, QuietGoto
  <1> QED BY <1>7, <1>8, QuietKeeps

LEMMA DiscardStepsKeep ==
    ASSUME Inv, NEW c \in Callers, Forget(c) \/ ClearSaved(c) \/ Unlink(c)
    PROVE  Inv'
  <1>1. PICK s \in {"clear", "unlink", "idle"} : Goto(c, s)
    BY DEF Forget, ClearSaved, Unlink
  <1>2. /\ s \in Steps \ Watched
        /\ s \notin SealSteps
        /\ s \notin Reserving
        /\ s \notin {"file", "remove"}
    BY DEF Steps, Resting, SealSteps, Watched, Reserving
  <1>3. UNCHANGED <<register, witness, backup, uses, restored>>
    BY DEF Forget, ClearSaved, Unlink, vault
  <1>4. call' \in [Callers -> Calls] /\ CallOK'
    BY <1>1, <1>2, GotoShape DEF Inv
  <1>5. saved' \in Saves /\ live' \in Saves
    BY DEF Forget, ClearSaved, Unlink, vault, Saves, NoLonger, Inv, Shape, TypeOK
  <1>6. files' \in [Objects -> Saves]
    <2>1. call[c].publish.object \in Objects
      BY Typing DEF Inv, Shape, Calls, Publishes
    <2> QED BY <2>1 DEF Forget, ClearSaved, Unlink, Saves, Inv, Shape, TypeOK
  <1>7. Shape'
    BY <1>3, <1>4, <1>5, <1>6 DEF Inv, Shape, TypeOK
  <1>8. Quiet
    BY <1>1, <1>2, <1>3, QuietGoto
  <1> QED BY <1>7, <1>8, QuietKeeps

-----------------------------------------------------------------------------
(* The steps of a check and of a reservation. *)

LEMMA ReadRegisterKeeps ==
    ASSUME Inv, NEW c \in Callers, ReadRegister(c)
    PROVE  Inv'
  <1>1. UNCHANGED <<register, saved, witness, files, backup, uses, restored, live>>
    BY DEF ReadRegister, vault
  <1>2. /\ call'[c] = [call[c] EXCEPT !.pc = "witness", !.held = register]
        /\ \A d \in Callers : d # c => call'[d] = call[d]
        /\ call' \in [Callers -> Calls]
    <2>1. call \in [Callers -> Calls] /\ register \in Entries
      BY DEF Inv, Shape, TypeOK
    <2>2. [call[c] EXCEPT !.pc = "witness", !.held = register] \in Calls
      BY <2>1, Typing DEF Inv, Shape, Calls, Steps
    <2>3. call' = [call EXCEPT ![c] = [call[c] EXCEPT !.pc = "witness", !.held = register]]
      BY <2>1 DEF ReadRegister
    <2> QED BY <2>1, <2>2, <2>3
  <1>3. call'[c].pc = "witness" /\ NextCounter(c)' = Value(register)
    BY <1>2, Typing DEF Inv, Shape, Calls, NextCounter
  <1>4. ASSUME NEW d \in Callers, d # c
        PROVE  /\ call'[d] = call[d]
               /\ NextCounter(d)' = NextCounter(d)
               /\ InHand(d)' <=> InHand(d)
    BY <1>2, <1>4 DEF NextCounter, InHand
  <1>5. ~InHand(c)'
    BY <1>3 DEF InHand
  <1>6. /\ Value(register)' = Value(register)
        /\ Value(witness)' = Value(witness)
        /\ uses' = uses
    BY <1>1 DEF Value
  <1>7. Shape'
    <2>1. CallOK'
      BY <1>3, <1>4 DEF Inv, Shape, CallOK, Reserving
    <2> QED BY <1>1, <1>2, <2>1 DEF Inv, Shape, TypeOK
  <1>8. UsedBelowWitness'
    BY <1>6 DEF Inv, UsedBelowWitness
  <1>9. HandFresh' /\ HandsDiffer'
    BY <1>4, <1>5, <1>6 DEF Inv, HandFresh, HandsDiffer
  <1>10. ReadBehind'
    <2>1. Value(register) <= Value(register)
      BY Typing DEF Inv, Shape
    <2> QED BY <1>3, <1>4, <1>6, <2>1 DEF Inv, ReadBehind
  <1>11. GrantFresh'
    BY <1>3, <1>4, <1>5, <1>6 DEF Inv, GrantFresh
  <1>12. NothingSentRolledBack'
    BY <1>3, <1>4, <1>6 DEF Inv, NothingSentRolledBack, SealSteps
  <1> QED BY <1>7, <1>8, <1>9, <1>10, <1>11, <1>12 DEF Inv

\* What a consistent comparison tells: the read entry is not behind the witness.
LEMMA ConsistentValue ==
    ASSUME NEW r \in Entries, NEW w \in (0 .. Last + 1) \union {None}, Consistent(r, w)
    PROVE  Value(w) <= Value(r)
  BY CounterAssumption DEF Consistent, Value, Entries

LEMMA ReadWitnessKeeps ==
    ASSUME Inv, NEW c \in Callers, ReadWitness(c)
    PROVE  Inv'
  <1> DEFINE s == IF Consistent(call[c].held, witness)
                  THEN AfterCheck(call[c].check, call[c].held) ELSE "lost"
  <1>1. /\ Goto(c, s)
        /\ UNCHANGED <<register, saved, witness, files, backup, uses, restored, live>>
        /\ call[c].pc = "witness"
    BY DEF ReadWitness, vault
  <1>2. s \in {"lost", "idle", "saved", "raise", "birth", "commit"}
    BY Typing DEF AfterCheck, Inv, Shape, Calls
  <1>3. s \in {"birth", "commit"} => NextCounter(c) <= Last
    <2>1. /\ call[c].check \in {"reuse", "reserve", "reconcile"}
          /\ Value(call[c].held) \in Nat
      BY Typing DEF Inv, Shape, Calls, NextCounter
    <2> QED BY <2>1, CounterAssumption DEF AfterCheck, NextCounter
  <1>4. s \in {"saved", "raise", "birth", "commit"} => Value(witness) <= NextCounter(c)
    <2>1. call[c].held \in Entries
      BY Typing DEF Inv, Shape, Calls
    <2>2. witness \in (0 .. Last + 1) \union {None}
      BY DEF Inv, Shape, TypeOK
    <2> QED BY <2>1, <2>2, ConsistentValue DEF NextCounter
  <1>5. s \in Steps
    BY <1>2 DEF Steps, Resting, SealSteps
  <1> HIDE DEF s
  <1>6. /\ call' \in [Callers -> Calls]
        /\ call'[c] = [call[c] EXCEPT !.pc = s]
        /\ \A d \in Callers : d # c => call'[d] = call[d]
    BY <1>1, <1>5, GotoType DEF Inv, Shape
  <1>7. call'[c].pc = s /\ NextCounter(c)' = NextCounter(c)
    BY <1>6, Typing DEF Inv, Shape, Calls, NextCounter
  <1>8. ASSUME NEW d \in Callers, d # c
        PROVE  /\ call'[d] = call[d]
               /\ NextCounter(d)' = NextCounter(d)
               /\ InHand(d)' <=> InHand(d)
    BY <1>6, <1>8 DEF NextCounter, InHand
  <1>9. ~InHand(c)'
    BY <1>2, <1>7 DEF InHand
  <1>10. /\ Value(register)' = Value(register)
         /\ Value(witness)' = Value(witness)
         /\ uses' = uses
    BY <1>1 DEF Value
  <1>11. Shape'
    <2>1. s \in Reserving => NextCounter(c) <= Last
      BY <1>2, <1>3 DEF Reserving
    <2>2. s \notin {"file", "remove"}
      BY <1>2
    <2>3. CallOK'
      BY <1>1, <1>5, <2>1, <2>2, GotoShape DEF Inv
    <2> QED BY <1>1, <1>6, <2>3 DEF Inv, Shape, TypeOK
  <1>12. UsedBelowWitness'
    BY <1>10 DEF Inv, UsedBelowWitness
  <1>13. HandFresh' /\ HandsDiffer'
    BY <1>8, <1>9, <1>10 DEF Inv, HandFresh, HandsDiffer
  <1>14. NextCounter(c) <= Value(register)
    BY <1>1 DEF Inv, ReadBehind
  <1>15. ReadBehind'
    BY <1>7, <1>8, <1>10, <1>14 DEF Inv, ReadBehind
  <1>16. GrantFresh'
    <2>1. ASSUME s \in {"birth", "commit"}, Value(register) = NextCounter(c)
          PROVE  /\ \A k \in Counters : uses[k] # 0 => k < NextCounter(c)
                 /\ \A d \in Callers : InHand(d) => NextCounter(d) < NextCounter(c)
      <3>1. Value(witness) <= NextCounter(c)
        BY <2>1, <1>4
      <3>2. ASSUME NEW k \in Counters, uses[k] # 0
            PROVE  k < NextCounter(c)
        BY <3>1, <3>2, Typing, CounterAssumption DEF Inv, Shape, UsedBelowWitness, Counters
      <3>3. ASSUME NEW d \in Callers, InHand(d)
            PROVE  NextCounter(d) < NextCounter(c)
        BY <3>3, <2>1 DEF Inv, HandFresh
      <3> QED BY <3>2, <3>3
    <2>2. ASSUME NEW d \in Callers, call'[d].pc \in {"birth", "commit"},
                 Value(register)' = NextCounter(d)'
          PROVE  /\ \A k \in Counters : uses'[k] # 0 => k < NextCounter(d)'
                 /\ \A e \in Callers : InHand(e)' => NextCounter(e)' < NextCounter(d)'
      <3>1. CASE d = c
        BY <2>1, <2>2, <3>1, <1>7, <1>8, <1>9, <1>10
      <3>2. CASE d # c
        BY <2>2, <3>2, <1>8, <1>9, <1>10 DEF Inv, GrantFresh
      <3> QED BY <3>1, <3>2
    <2> QED BY <2>2 DEF GrantFresh
  <1>17. NothingSentRolledBack'
    <2>1. s \in SealSteps => Value(witness) <= Value(register)
      BY <1>2, <1>4, <1>14, Typing DEF Inv, Shape, SealSteps
    <2> QED BY <1>7, <1>8, <1>10, <2>1 DEF Inv, NothingSentRolledBack
  <1> QED BY <1>11, <1>12, <1>13, <1>15, <1>16, <1>17 DEF Inv

\* Raising the witness, never past the register, on the way to a step that the raise allows.
LEMMA WitnessedKeeps ==
    ASSUME Inv, NEW c \in Callers, NEW value \in 0 .. Last + 1,
           NEW next \in {"idle", "commit", "encrypt"}, Witnessed(c, value, next),
           call[c].pc \in {"raise", "birth", "advance"},
           value <= Value(register),
           next = "commit" => call[c].pc = "birth",
           next = "encrypt" => call[c].pc = "advance" /\ value = NextCounter(c) + 1
    PROVE  Inv'
  <1>1. PICK s \in {next, "idle"} :
            /\ Goto(c, s)
            /\ s # "idle" => witness' = value
    BY DEF Witnessed
  <1>2. \/ witness' = witness
        \/ witness' = value /\ Takes(witness, value)
    BY DEF Witnessed
  <1>3. UNCHANGED <<register, saved, files, backup, uses, restored, live>>
    BY DEF Witnessed, vault
  <1>4. s \in {"idle", "commit", "encrypt"}
    BY <1>1
  <1>5. s \in Steps
    BY <1>4 DEF Steps, Resting, SealSteps
  <1>6. s = "commit" => call[c].pc = "birth"
    BY <1>1
  <1>7. s = "encrypt" => /\ call[c].pc = "advance"
                         /\ witness' = NextCounter(c) + 1
    BY <1>1
  <1>8. witness \in (0 .. Last + 1) \union {None} /\ witness' \in (0 .. Last + 1) \union {None}
    BY <1>2 DEF Inv, Shape, TypeOK
  <1>9. Value(witness) <= Value(witness)'
    BY <1>2, <1>8, CounterAssumption DEF Takes, Value
  <1>10. witness' = value => Value(witness)' = value
    BY CounterAssumption DEF Value
  <1>11. /\ call' \in [Callers -> Calls]
         /\ call'[c] = [call[c] EXCEPT !.pc = s]
         /\ \A d \in Callers : d # c => call'[d] = call[d]
    BY <1>1, <1>5, GotoType DEF Inv, Shape
  <1>12. call'[c].pc = s /\ NextCounter(c)' = NextCounter(c)
    BY <1>11, Typing DEF Inv, Shape, Calls, NextCounter
  <1>13. ASSUME NEW d \in Callers
         PROVE  /\ NextCounter(d)' = NextCounter(d)
                /\ NextCounter(d) \in Nat
                /\ InHand(d)' => InHand(d)
                /\ d # c => call'[d] = call[d]
    BY <1>4, <1>7, <1>11, <1>12, Typing DEF NextCounter, InHand, Inv, Shape
  <1>14. /\ Value(register)' = Value(register)
         /\ Value(register) \in Nat
         /\ Value(witness) \in Nat
         /\ Value(witness)' \in Nat
         /\ uses' = uses
    BY <1>3, <1>8, Typing, CounterAssumption DEF Value, Inv, Shape
  <1>15. Shape'
    <2>1. s \in Reserving => call[c].pc \in Reserving
      BY <1>4, <1>6, <1>7 DEF Reserving
    <2>2. CallOK'
      BY <1>1, <1>4, <1>5, <2>1, GotoShape DEF Inv, Shape, CallOK
    <2> QED BY <1>3, <1>8, <1>11, <2>2 DEF Inv, Shape, TypeOK
  <1>16. UsedBelowWitness'
    <2>1. ASSUME NEW k \in Counters, uses[k] # 0
          PROVE  uses[k] = 1 /\ k < Value(witness)'
      BY <2>1, <1>9, <1>14, CounterAssumption DEF Inv, UsedBelowWitness, Counters
    <2> QED BY <2>1, <1>14 DEF UsedBelowWitness
  <1>17. HandFresh'
    <2>1. ASSUME NEW d \in Callers, InHand(d)'
          PROVE  /\ uses'[NextCounter(d)'] = 0
                 /\ NextCounter(d)' < Value(register)'
                 /\ call'[d].pc = "encrypt" => NextCounter(d)' < Value(witness)'
      <3>1. /\ InHand(d)
            /\ uses[NextCounter(d)] = 0
            /\ NextCounter(d) < Value(register)
            /\ call[d].pc = "encrypt" => NextCounter(d) < Value(witness)
        BY <2>1, <1>13 DEF Inv, HandFresh
      <3>2. call'[d].pc = "encrypt" => NextCounter(d) < Value(witness)'
        <4>1. CASE d # c
          BY <4>1, <3>1, <1>9, <1>13, <1>14
        <4>2. CASE d = c
          BY <4>2, <1>1, <1>4, <1>7, <1>10, <1>12, <1>13
        <4> QED BY <4>1, <4>2
      <3> QED BY <3>1, <3>2, <1>13, <1>14
    <2> QED BY <2>1 DEF HandFresh
  <1>18. HandsDiffer'
    BY <1>13 DEF Inv, HandsDiffer
  <1>19. ASSUME NEW d \in Callers
         PROVE  /\ call'[d].pc \in {"witness", "raise", "birth", "commit"}
                      => call[d].pc \in {"witness", "raise", "birth", "commit"}
                /\ call'[d].pc \in {"birth", "commit"} => call[d].pc \in {"birth", "commit"}
    BY <1>4, <1>6, <1>12, <1>13
  <1>20. ReadBehind'
    BY <1>13, <1>14, <1>19 DEF Inv, ReadBehind
  <1>21. GrantFresh'
    BY <1>13, <1>14, <1>19 DEF Inv, GrantFresh
  <1>22. NothingSentRolledBack'
    <2>1. ASSUME NEW d \in Callers, call'[d].pc \in SealSteps
          PROVE  Value(register)' >= Value(witness)'
      <3>1. CASE witness' = value
        BY <3>1, <1>10, <1>14
      <3>2. CASE witness' # value
        <4>1. d # c
          BY <3>2, <2>1, <1>1, <1>12 DEF SealSteps
        <4>2. witness' = witness
          BY <3>2, <1>2
        <4> QED BY <4>1, <4>2, <2>1, <1>13, <1>14 DEF Inv, NothingSentRolledBack, Value
      <3> QED BY <3>1, <3>2
    <2> QED BY <2>1 DEF NothingSentRolledBack
  <1> QED BY <1>15, <1>16, <1>17, <1>18, <1>20, <1>21, <1>22 DEF Inv

LEMMA WitnessStepsKeep ==
    ASSUME Inv, NEW c \in Callers,
           RaiseWitness(c) \/ BearContext(c) \/ AdvanceWitness(c)
    PROVE  Inv'
  <1>1. /\ NextCounter(c) \in Nat
        /\ Value(register) \in Nat
        /\ Value(register) <= Last + 1
    BY Typing, CounterAssumption DEF Inv, Shape, TypeOK, Entries, Value
  <1>2. CASE RaiseWitness(c)
    <2>1. NextCounter(c) <= Value(register)
      BY <1>2 DEF RaiseWitness, Inv, ReadBehind
    <2>2. NextCounter(c) \in 0 .. Last + 1
      BY <2>1, <1>1, CounterAssumption
    <2> QED BY <1>2, <2>1, <2>2, WitnessedKeeps DEF RaiseWitness
  <1>3. CASE BearContext(c)
    <2>1. 0 \in 0 .. Last + 1 /\ 0 <= Value(register)
      BY <1>1, CounterAssumption
    <2> QED BY <1>3, <2>1, WitnessedKeeps DEF BearContext
  <1>4. CASE AdvanceWitness(c)
    <2>1. NextCounter(c) < Value(register)
      BY <1>4 DEF AdvanceWitness, Inv, HandFresh, InHand
    <2>2. NextCounter(c) + 1 \in 0 .. Last + 1 /\ NextCounter(c) + 1 <= Value(register)
      BY <2>1, <1>1, CounterAssumption
    <2> QED BY <1>4, <2>2, WitnessedKeeps DEF AdvanceWitness
  <1> QED BY <1>2, <1>3, <1>4

\* A compare-and-set that fails ends the call; one that succeeds claims the counter that
\* the check granted, which no use and no other call has.
LEMMA CommitKeeps ==
    ASSUME Inv, NEW c \in Callers, CommitAdvance(c)
    PROVE  Inv'
  <1>1. CASE register # call[c].held
    <2>1. Goto(c, "idle") /\ UNCHANGED <<register, saved, witness, files, backup, uses, restored, live>>
      BY <1>1 DEF CommitAdvance, vault
    <2> QED BY <2>1, FailsKeeps DEF Fails, Busy, Resting, CommitAdvance, vault
  <1>2. CASE register = call[c].held
    <2>1. /\ Goto(c, "advance")
          /\ register' = NextCounter(c) + 1
          /\ UNCHANGED <<saved, witness, files, backup, uses, restored, live>>
          /\ call[c].pc = "commit"
          /\ Value(register) = NextCounter(c)
      BY <1>2 DEF CommitAdvance, NextCounter
    <2>2. NextCounter(c) <= Last /\ NextCounter(c) \in Nat
      BY <2>1, Typing DEF Inv, Shape, CallOK, Reserving
    <2>3. register' \in 1 .. Last + 1 /\ Value(register)' = Value(register) + 1
      BY <2>1, <2>2, CounterAssumption DEF Value
    <2>4. "advance" \in Steps
      BY DEF Steps, SealSteps
    <2>5. /\ call' \in [Callers -> Calls]
          /\ call'[c] = [call[c] EXCEPT !.pc = "advance"]
          /\ \A d \in Callers : d # c => call'[d] = call[d]
      BY <2>1, <2>4, GotoType DEF Inv, Shape
    <2>6. call'[c].pc = "advance" /\ NextCounter(c)' = NextCounter(c)
      BY <2>5, Typing DEF Inv, Shape, Calls, NextCounter
    <2>7. ASSUME NEW d \in Callers
          PROVE  /\ NextCounter(d)' = NextCounter(d)
                 /\ NextCounter(d) \in Nat
                 /\ d # c => call'[d] = call[d] /\ (InHand(d)' <=> InHand(d))
      BY <2>5, <2>6, Typing DEF NextCounter, InHand, Inv, Shape
    <2>8. /\ Value(witness)' = Value(witness)
          /\ Value(register) \in Nat
          /\ Value(witness) \in Nat
          /\ uses' = uses
      BY <2>1, Typing DEF Value, Inv, Shape
    <2>9. /\ \A k \in Counters : uses[k] # 0 => k < NextCounter(c)
          /\ \A d \in Callers : InHand(d) => NextCounter(d) < NextCounter(c)
      BY <2>1 DEF Inv, GrantFresh
    <2>10. uses[NextCounter(c)] = 0
      BY <2>2, <2>9, CounterAssumption DEF Counters
    <2>11. Shape'
      <3>1. CallOK'
        BY <2>1, <2>2, <2>4, GotoShape DEF Inv
      <3> QED BY <2>1, <2>3, <2>5, <3>1 DEF Inv, Shape, TypeOK, Entries
    <2>12. UsedBelowWitness'
      BY <2>8 DEF Inv, UsedBelowWitness
    <2>13. HandFresh'
      <3>1. ASSUME NEW d \in Callers, InHand(d)'
            PROVE  /\ uses'[NextCounter(d)'] = 0
                   /\ NextCounter(d)' < Value(register)'
                   /\ call'[d].pc = "encrypt" => NextCounter(d)' < Value(witness)'
        <4>1. CASE d = c
          BY <4>1, <2>1, <2>3, <2>6, <2>7, <2>8, <2>10
        <4>2. CASE d # c
          <5>1. InHand(d) /\ call'[d] = call[d]
            BY <3>1, <4>2, <2>7
          <5>2. /\ uses[NextCounter(d)] = 0
                /\ NextCounter(d) < Value(register)
                /\ call[d].pc = "encrypt" => NextCounter(d) < Value(witness)
            BY <5>1 DEF Inv, HandFresh
          <5> QED BY <5>1, <5>2, <2>3, <2>7, <2>8
        <4> QED BY <4>1, <4>2
      <3> QED BY <3>1 DEF HandFresh
    <2>14. HandsDiffer'
      <3>1. ASSUME NEW d \in Callers, NEW e \in Callers, d # e, InHand(d)', InHand(e)'
            PROVE  NextCounter(d) # NextCounter(e)
        <4>1. CASE d # c /\ e # c
          BY <3>1, <4>1, <2>7 DEF Inv, HandsDiffer
        <4>2. CASE d = c
          BY <3>1, <4>2, <2>7, <2>9
        <4>3. CASE e = c
          BY <3>1, <4>3, <2>7, <2>9
        <4> QED BY <4>1, <4>2, <4>3
      <3> QED BY <3>1, <2>7 DEF HandsDiffer
    <2>15. ReadBehind'
      <3>1. ASSUME NEW d \in Callers,
                   call'[d].pc \in {"witness", "raise", "birth", "commit"}
            PROVE  NextCounter(d)' <= Value(register)'
        <4>1. NextCounter(d) <= Value(register)
          BY <3>1, <2>6, <2>7 DEF Inv, ReadBehind
        <4> QED BY <4>1, <2>3, <2>7, <2>8
      <3> QED BY <3>1 DEF ReadBehind
    <2>16. GrantFresh'
      <3>1. ASSUME NEW d \in Callers, call'[d].pc \in {"birth", "commit"}
            PROVE  Value(register)' # NextCounter(d)'
        <4>1. NextCounter(d) <= Value(register)
          BY <3>1, <2>6, <2>7 DEF Inv, ReadBehind
        <4> QED BY <4>1, <2>3, <2>7, <2>8
      <3> QED BY <3>1 DEF GrantFresh
    <2>17. NothingSentRolledBack'
      <3>1. ASSUME NEW d \in Callers, call'[d].pc \in SealSteps
            PROVE  Value(register)' >= Value(witness)'
        <4>1. call[d].pc \in SealSteps
          BY <3>1, <2>1, <2>7 DEF SealSteps
        <4> QED BY <4>1, <2>3, <2>8 DEF Inv, NothingSentRolledBack
      <3> QED BY <3>1 DEF NothingSentRolledBack
    <2> QED BY <2>11, <2>12, <2>13, <2>14, <2>15, <2>16, <2>17 DEF Inv
  <1> QED BY <1>1, <1>2

LEMMA EncryptKeeps ==
    ASSUME Inv, NEW c \in Callers, Encrypt(c)
    PROVE  Inv'
  <1> DEFINE n == NextCounter(c)
  <1>1. /\ Goto(c, "write")
        /\ uses' = [uses EXCEPT ![n] = @ + 1]
        /\ UNCHANGED <<register, saved, witness, files, backup, restored, live>>
        /\ call[c].pc = "encrypt"
    BY DEF Encrypt, vault
  <1>2. n \in Counters /\ n <= Last
    BY <1>1, Typing, CounterAssumption DEF Inv, Shape, CallOK, Reserving, Counters
  <1>3. /\ uses[n] = 0
        /\ n < Value(witness)
    BY <1>1 DEF Inv, HandFresh, InHand
  <1>4. /\ uses' \in [Counters -> Nat]
        /\ uses'[n] = 1
        /\ \A k \in Counters : k # n => uses'[k] = uses[k]
    BY <1>1, <1>2, <1>3 DEF Inv, Shape, TypeOK
  <1>5. "write" \in Steps
    BY DEF Steps, SealSteps
  <1>6. /\ call' \in [Callers -> Calls]
        /\ call'[c] = [call[c] EXCEPT !.pc = "write"]
        /\ \A d \in Callers : d # c => call'[d] = call[d]
    BY <1>1, <1>5, GotoType DEF Inv, Shape
  <1>7. call'[c].pc = "write" /\ NextCounter(c)' = n
    BY <1>6, Typing DEF Inv, Shape, Calls, NextCounter
  <1>8. ASSUME NEW d \in Callers
        PROVE  /\ NextCounter(d)' = NextCounter(d)
               /\ call'[d].pc \in Watched => d # c /\ call'[d] = call[d]
    BY <1>6, <1>7 DEF NextCounter, Watched
  <1>9. /\ Value(register)' = Value(register)
        /\ Value(witness)' = Value(witness)
    BY <1>1 DEF Value
  <1>10. ASSUME NEW d \in Callers, InHand(d)'
         PROVE  /\ d # c
                /\ InHand(d)
                /\ NextCounter(d) # n
                /\ call'[d] = call[d]
    BY <1>1, <1>8, <1>10 DEF InHand, Watched, Inv, HandsDiffer
  <1>11. Shape'
    <2>1. CallOK'
      BY <1>1, <1>2, <1>5, GotoShape DEF Inv
    <2> QED BY <1>1, <1>4, <1>6, <2>1 DEF Inv, Shape, TypeOK
  <1>12. UsedBelowWitness'
    <2>1. ASSUME NEW k \in Counters, uses'[k] # 0
          PROVE  uses'[k] = 1 /\ k < Value(witness)
      BY <2>1, <1>3, <1>4 DEF Inv, UsedBelowWitness
    <2> QED BY <2>1, <1>9 DEF UsedBelowWitness
  <1>13. HandFresh'
    <2>1. ASSUME NEW d \in Callers, InHand(d)'
          PROVE  /\ uses'[NextCounter(d)'] = 0
                 /\ NextCounter(d)' < Value(register)'
                 /\ call'[d].pc = "encrypt" => NextCounter(d)' < Value(witness)'
      <3>1. /\ uses[NextCounter(d)] = 0
            /\ NextCounter(d) < Value(register)
            /\ call[d].pc = "encrypt" => NextCounter(d) < Value(witness)
        BY <2>1, <1>10 DEF Inv, HandFresh
      <3>2. NextCounter(d) \in Counters
        <4>1. InHand(d) => NextCounter(d) <= Last
          BY DEF Inv, Shape, CallOK, Reserving, InHand
        <4> QED BY <4>1, <2>1, <1>10, Typing, CounterAssumption DEF Inv, Shape, Counters
      <3> QED BY <3>1, <3>2, <2>1, <1>4, <1>8, <1>9, <1>10
    <2> QED BY <2>1 DEF HandFresh
  <1>14. HandsDiffer'
    BY <1>8, <1>10 DEF Inv, HandsDiffer
  <1>15. ReadBehind'
    BY <1>8, <1>9 DEF Inv, ReadBehind, Watched
  <1>16. GrantFresh'
    <2>1. ASSUME NEW d \in Callers, call'[d].pc \in {"birth", "commit"},
                 Value(register)' = NextCounter(d)'
          PROVE  /\ \A k \in Counters : uses'[k] # 0 => k < NextCounter(d)'
                 /\ \A e \in Callers : InHand(e)' => NextCounter(e)' < NextCounter(d)'
      <3>1. call'[d] = call[d] /\ Value(register) = NextCounter(d)
        BY <2>1, <1>8, <1>9 DEF Watched
      <3>2. /\ \A k \in Counters : uses[k] # 0 => k < NextCounter(d)
            /\ \A e \in Callers : InHand(e) => NextCounter(e) < NextCounter(d)
        BY <2>1, <3>1 DEF Inv, GrantFresh
      <3>3. n < NextCounter(d)
        BY <1>1, <3>2 DEF InHand
      <3> QED BY <3>2, <3>3, <1>4, <1>8, <1>10
    <2> QED BY <2>1 DEF GrantFresh
  <1>17. NothingSentRolledBack'
    <2>1. ASSUME NEW d \in Callers, call'[d].pc \in SealSteps
          PROVE  call[d].pc \in SealSteps
      BY <2>1, <1>1, <1>6 DEF SealSteps
    <2> QED BY <2>1, <1>9 DEF Inv, NothingSentRolledBack
  <1> QED BY <1>11, <1>12, <1>13, <1>14, <1>15, <1>16, <1>17 DEF Inv

-----------------------------------------------------------------------------
(* The invariant, and what it implies. *)

LEMMA InitInv ==
    ASSUME Init
    PROVE  Inv
  <1>1. PICK p \in Publishes : call = [c \in Callers |-> Idle(p)]
    BY DEF Init
  <1>2. \A c \in Callers : call[c].pc = "idle"
    BY <1>1 DEF Idle
  <1>3. call \in [Callers -> Calls]
    BY <1>1, IdleType
  <1>4. TypeOK
    BY <1>3 DEF Init, TypeOK, Entries, Saves
  <1>5. CallOK
    BY <1>2 DEF CallOK, Reserving
  <1>6. UsedBelowWitness
    BY DEF Init, UsedBelowWitness
  <1>7. HandFresh /\ HandsDiffer /\ ReadBehind /\ GrantFresh /\ NothingSentRolledBack
    BY <1>2 DEF HandFresh, HandsDiffer, ReadBehind, GrantFresh, NothingSentRolledBack,
                InHand, SealSteps
  <1> QED BY <1>4, <1>5, <1>6, <1>7 DEF Inv, Shape

LEMMA StepInv ==
    ASSUME Inv, [Next]_vars
    PROVE  Inv'
  <1>1. CASE UNCHANGED vars
    <2>1. Quiet
      BY <1>1 DEF vars, Quiet
    <2>2. Shape'
      BY <1>1 DEF vars, Inv, Shape, TypeOK, CallOK, NextCounter
    <2> QED BY <2>1, <2>2, QuietKeeps
  <1>2. ASSUME NEW c \in Callers, Step(c)
        PROVE  Inv'
    <2>1. CASE \E p \in Publishes : Seal(c, p) \/ Reconcile(c, p) \/ Discard(c, p)
      BY <2>1, BeginKeeps
    <2>2. CASE Fails(c)
      BY <2>2, FailsKeeps
    <2>3. CASE ReadRegister(c)
      BY <2>3, ReadRegisterKeeps
    <2>4. CASE ReadWitness(c)
      BY <2>4, ReadWitnessKeeps
    <2>5. CASE RaiseWitness(c) \/ BearContext(c) \/ AdvanceWitness(c)
      BY <2>5, WitnessStepsKeep
    <2>6. CASE CommitAdvance(c)
      BY <2>6, CommitKeeps
    <2>7. CASE ReadSaved(c) \/ ReadPrevious(c)
      BY <2>7, ReadSavedKeeps
    <2>8. CASE ReadFile(c) \/ WriteFile(c) \/ RemoveOldFile(c)
      BY <2>8, FileStepsKeep
    <2>9. CASE Encrypt(c)
      BY <2>9, EncryptKeeps
    <2>10. CASE RecordSaved(c)
      BY <2>10, RecordKeeps
    <2>11. CASE Forget(c) \/ ClearSaved(c) \/ Unlink(c)
      BY <2>11, DiscardStepsKeep
    <2> QED BY <1>2, <2>1, <2>2, <2>3, <2>4, <2>5, <2>6, <2>7, <2>8, <2>9, <2>10, <2>11
            DEF Step
  <1>3. CASE Crash
    BY <1>3, StopKeeps
  <1>4. CASE RestoreBackup
    BY <1>4, RestoreKeeps
  <1>5. CASE ExportBackup \/ \E o \in Objects : LoseFile(o)
    BY <1>5, EnvironmentKeeps
  <1> QED BY <1>1, <1>2, <1>3, <1>4, <1>5 DEF Next

LEMMA InvariantHolds == Spec => []Inv
  BY InitInv, StepInv, PTL DEF Spec

\* The counter register's variables keep their types in every behaviour.
THEOREM CounterTypeCorrect == Spec => []TypeOK
  <1>1. Inv => TypeOK
    BY DEF Inv, Shape
  <1> QED BY <1>1, InvariantHolds, PTL

\* No counter of the key is used by two encryptions, whatever the callers, the crashes, the
\* witness's failures and the restores: the nonce of AES-GCM never repeats.
THEOREM NonceNeverReused == Spec => []NonceUsedOnce
  <1>1. Inv => NonceUsedOnce
    BY DEF Inv, UsedBelowWitness, NonceUsedOnce
  <1> QED BY <1>1, InvariantHolds, PTL

\* A call that is past its check runs in a vault whose register is not behind the witness.
THEOREM RolledBackVaultIsSilent == Spec => []NothingSentRolledBack
  <1>1. Inv => NothingSentRolledBack
    BY DEF Inv
  <1> QED BY <1>1, InvariantHolds, PTL

-----------------------------------------------------------------------------
(* Calls that nothing overlaps.  What such a call has read is still so, because only a    *)
(* call in progress changes the register, the record and the files; that is why it cannot *)
(* find the nonce state lost by accident, and why a retry finds what it sealed before.    *)

\* The steps between a granted counter and the end of the seal.
Granted == {"advance", "encrypt", "write", "record", "remove"}

\* The steps from the decision to seal afresh to the encryption.
Resealing(c) ==
    \/ call[c].pc \in {"previous", "birth", "commit", "advance", "encrypt"}
    \/ call[c].pc \in {"register", "witness"} /\ call[c].check = "reserve"

\* No call in progress is alone beside another one.
Alone == \A c, d \in Callers : c # d /\ Busy(c) /\ Busy(d) => ~call[c].alone

\* A counter granted to a call stays below the register.
GrantedBelow ==
    \A c \in Callers : call[c].pc \in Granted => NextCounter(c) < Value(register)

\* The witness exists before the register's first advance, and a register is raised to a
\* value only if it has one.
Witnessing ==
    \A c \in Callers :
        /\ call[c].pc = "commit" => witness # None
        /\ call[c].pc = "raise" => call[c].held # None

\* In a vault never restored the register, the witness and the record agree.
NeverBehind ==
    ~restored =>
        /\ Consistent(register, witness)
        /\ saved # None => saved.counter < Value(register)

\* What a call that nothing overlaps has read and done is still so.
Undisturbed(c) ==
    /\ call[c].pc \in {"witness", "saved"} => call[c].held = register
    /\ call[c].pc = "file" =>
          /\ call[c].seen = saved
          /\ saved.publish = call[c].publish
          /\ saved.counter < Value(register)
    /\ (Resealing(c) /\ call[c].pc # "previous") \/ call[c].pc \in {"write", "record"} =>
          call[c].seen = saved
    /\ call[c].pc \in {"record", "remove"} =>
          files[call[c].publish.object] = ContainerOf(c)
    /\ call[c].pc = "remove" =>
          saved = ContainerOf(c) /\ call[c].seen.publish.object # call[c].publish.object
    /\ call[c].pc = "clear" => saved # None /\ saved.publish.object = call[c].publish.object
    /\ Resealing(c) /\ live # None => live.publish # call[c].publish

AloneUndisturbed == \A c \in Callers : Busy(c) /\ call[c].alone => Undisturbed(c)

\* The container last handed out is the recorded one, its file is whole, and whoever is
\* at work is alone.
LiveKept ==
    live # None =>
        /\ saved = live
        /\ files[live.publish.object] = live
        /\ live.counter < Value(register)
        /\ \A c \in Callers : Busy(c) => call[c].alone

SoloInv ==
    /\ Alone
    /\ GrantedBelow
    /\ Witnessing
    /\ NeverBehind
    /\ AloneUndisturbed
    /\ LiveKept
    /\ CrashIsNotLoss

\* A step that moves one call changes its step and nothing else of it.
LEMMA Moved ==
    ASSUME Shape, NEW c \in Callers, NEW s \in Steps, Goto(c, s)
    PROVE  /\ call'[c].pc = s
           /\ call'[c].check = call[c].check
           /\ call'[c].publish = call[c].publish
           /\ call'[c].held = call[c].held
           /\ call'[c].seen = call[c].seen
           /\ call'[c].alone = call[c].alone
           /\ \A d \in Callers : d # c => call'[d] = call[d]
  <1>1. /\ call'[c] = [call[c] EXCEPT !.pc = s]
        /\ \A d \in Callers : d # c => call'[d] = call[d]
    BY GotoType DEF Shape
  <1> QED BY <1>1, Typing DEF Shape, Calls

\* What a call in progress must show of its own step: the other calls follow, because
\* beside a call that is alone nobody is at work.
LEMMA StepKeepsSolo ==
    ASSUME SoloInv, NEW c \in Callers, Busy(c),
           \A d \in Callers : d # c => call'[d] = call[d],
           call'[c].alone = call[c].alone,
           Value(register)' \in Nat, Value(register) \in Nat,
           \A d \in Callers : NextCounter(d) \in Nat,
           Value(register) <= Value(register)',
           witness # None => witness' # None,
           call'[c].pc \in Granted => NextCounter(c)' < Value(register)',
           call'[c].pc = "commit" => witness' # None,
           call'[c].pc = "raise" => call'[c].held # None,
           NeverBehind',
           call'[c].pc = "lost" /\ call'[c].alone => restored',
           restored' = restored,
           Busy(c)' /\ call'[c].alone => Undisturbed(c)',
           live' # None => /\ saved' = live'
                           /\ files'[live'.publish.object] = live'
                           /\ live'.counter < Value(register)'
                           /\ call[c].alone
    PROVE  SoloInv'
  <1>1. ASSUME NEW d \in Callers, d # c
        PROVE  /\ call'[d] = call[d]
               /\ NextCounter(d)' = NextCounter(d)
               /\ Busy(d)' <=> Busy(d)
               /\ call[c].alone => ~Busy(d)
               /\ call[d].alone => ~Busy(d)
    BY <1>1 DEF NextCounter, Busy, SoloInv, Alone
  <1>2. Alone'
    <2>1. ASSUME NEW d \in Callers, NEW e \in Callers, d # e, Busy(d)', Busy(e)'
          PROVE  ~call'[d].alone
      <3>1. CASE d = c
        BY <2>1, <3>1, <1>1
      <3>2. CASE d # c
        BY <2>1, <3>2, <1>1
      <3> QED BY <3>1, <3>2
    <2> QED BY <2>1 DEF Alone
  <1>3. GrantedBelow'
    <2>1. ASSUME NEW d \in Callers, d # c, call'[d].pc \in Granted
          PROVE  NextCounter(d)' < Value(register)'
      <3>1. NextCounter(d) < Value(register)
        BY <2>1, <1>1 DEF SoloInv, GrantedBelow
      <3> QED BY <3>1, <2>1, <1>1
    <2> QED BY <2>1 DEF GrantedBelow
  <1>4. Witnessing'
    <2>1. ASSUME NEW d \in Callers
          PROVE  /\ call'[d].pc = "commit" => witness' # None
                 /\ call'[d].pc = "raise" => call'[d].held # None
      BY <1>1 DEF SoloInv, Witnessing
    <2> QED BY <2>1 DEF Witnessing
  <1>5. AloneUndisturbed'
    <2>1. ASSUME NEW d \in Callers, Busy(d)', call'[d].alone
          PROVE  d = c
      BY <2>1, <1>1
    <2> QED BY <2>1 DEF AloneUndisturbed
  <1>6. LiveKept'
    <2>1. ASSUME live' # None, NEW d \in Callers, Busy(d)'
          PROVE  call'[d].alone
      BY <2>1, <1>1
    <2> QED BY <2>1 DEF LiveKept
  <1>7. CrashIsNotLoss'
    <2>1. ASSUME NEW d \in Callers, call'[d].pc = "lost", call'[d].alone
          PROVE  restored'
      BY <2>1, <1>1 DEF SoloInv, CrashIsNotLoss
    <2> QED BY <2>1 DEF CrashIsNotLoss
  <1> QED BY <1>2, <1>3, <1>4, <1>5, <1>6, <1>7 DEF SoloInv

LEMMA FailsSolo ==
    ASSUME Inv, SoloInv, NEW c \in Callers, Busy(c), Goto(c, "idle"),
           UNCHANGED <<register, saved, witness, files, restored, live>>
    PROVE  SoloInv'
  <1>1. "idle" \in Steps
    BY DEF Steps, Resting
  <1>2. /\ call'[c].pc = "idle"
        /\ call'[c].alone = call[c].alone
        /\ \A d \in Callers : d # c => call'[d] = call[d]
    BY <1>1, Moved DEF Inv
  <1>3. /\ Value(register)' = Value(register)
        /\ Value(register) \in Nat
        /\ \A d \in Callers : NextCounter(d) \in Nat
    BY Typing DEF Value, Inv, Shape
  <1>4. NeverBehind'
    BY <1>3 DEF SoloInv, NeverBehind
  <1>5. /\ ~Busy(c)'
        /\ call'[c].pc \notin Granted
        /\ call'[c].pc \notin {"commit", "raise", "lost"}
    BY <1>2 DEF Busy, Resting, Granted
  <1>6. live' # None => /\ saved' = live'
                        /\ files'[live'.publish.object] = live'
                        /\ live'.counter < Value(register)'
                        /\ call[c].alone
    BY <1>3 DEF SoloInv, LiveKept
  <1>7. Value(register) <= Value(register)'
    BY <1>3
  <1> QED BY <1>2, <1>3, <1>4, <1>5, <1>6, <1>7, StepKeepsSolo

\* The same for a step that only moves its call, in an unchanged register.
LEMMA GotoKeepsSolo ==
    ASSUME Inv, SoloInv, NEW c \in Callers, Busy(c), NEW s \in Steps, Goto(c, s),
           UNCHANGED <<register, restored>>,
           witness # None => witness' # None,
           s \in Granted => call[c].pc \in Granted,
           s = "commit" => witness' # None,
           s = "raise" => call[c].held # None,
           NeverBehind',
           s = "lost" /\ call[c].alone => restored,
           s \notin Resting /\ call[c].alone => Undisturbed(c)',
           live' # None => /\ saved' = live'
                           /\ files'[live'.publish.object] = live'
                           /\ live'.counter < Value(register)
                           /\ call[c].alone
    PROVE  SoloInv'
  <1>1. /\ call'[c].pc = s
        /\ call'[c].held = call[c].held
        /\ call'[c].alone = call[c].alone
        /\ \A d \in Callers : d # c => call'[d] = call[d]
    BY Moved DEF Inv
  <1>2. /\ Value(register)' = Value(register)
        /\ Value(register) \in Nat
        /\ \A d \in Callers : NextCounter(d) \in Nat
    BY Typing DEF Value, Inv, Shape
  <1>3. NextCounter(c)' = NextCounter(c)
    BY <1>1 DEF NextCounter
  <1>4. call'[c].pc \in Granted => NextCounter(c)' < Value(register)'
    BY <1>1, <1>2, <1>3 DEF SoloInv, GrantedBelow
  <1>5. Busy(c)' /\ call'[c].alone => Undisturbed(c)'
    BY <1>1 DEF Busy
  <1>6. Value(register) <= Value(register)'
    BY <1>2
  <1> QED BY <1>1, <1>2, <1>3, <1>4, <1>5, <1>6, StepKeepsSolo

\* What a step that touches neither the record nor the files nor the container handed
\* out leaves of it.
LEMMA LiveStays ==
    ASSUME Inv, SoloInv, NEW c \in Callers, Busy(c), UNCHANGED <<saved, files, live>>
    PROVE  live' # None => /\ saved' = live'
                           /\ files'[live'.publish.object] = live'
                           /\ live'.counter < Value(register)
                           /\ call[c].alone
  BY DEF SoloInv, LiveKept

LEMMA ReadRegisterSolo ==
    ASSUME Inv, SoloInv, NEW c \in Callers, ReadRegister(c)
    PROVE  SoloInv'
  <1>1. /\ UNCHANGED <<register, saved, witness, files, restored, live>>
        /\ call[c].pc = "register"
        /\ call' = [call EXCEPT ![c].pc = "witness", ![c].held = register]
    BY DEF ReadRegister, vault
  <1>2. /\ call'[c] = [call[c] EXCEPT !.pc = "witness", !.held = register]
        /\ \A d \in Callers : d # c => call'[d] = call[d]
    <2>1. call \in [Callers -> Calls]
      BY DEF Inv, Shape, TypeOK
    <2> QED BY <2>1, <1>1
  <1>3. /\ call'[c].pc = "witness"
        /\ call'[c].held = register
        /\ call'[c].alone = call[c].alone
        /\ call'[c].check = call[c].check
        /\ call'[c].publish = call[c].publish
        /\ call'[c].seen = call[c].seen
    BY <1>2, Typing DEF Inv, Shape, Calls
  <1>4. /\ Value(register)' = Value(register)
        /\ Value(register) \in Nat
        /\ \A d \in Callers : NextCounter(d) \in Nat
    BY <1>1, Typing DEF Value, Inv, Shape
  <1>5. NeverBehind'
    BY <1>1, <1>4 DEF SoloInv, NeverBehind
  <1>6. ASSUME call[c].alone
        PROVE  Undisturbed(c)'
    <2>1. Undisturbed(c)
      BY <1>1, <1>6 DEF SoloInv, AloneUndisturbed, Busy, Resting
    <2> QED BY <2>1, <1>1, <1>3 DEF Undisturbed, Resealing
  <1>7. Busy(c)
    BY <1>1 DEF Busy, Resting
  <1>8. live' # None => /\ saved' = live'
                        /\ files'[live'.publish.object] = live'
                        /\ live'.counter < Value(register)'
                        /\ call[c].alone
    BY <1>1, <1>4, <1>7, LiveStays
  <1>9. Value(register) <= Value(register)' /\ call'[c].pc \notin Granted
    BY <1>3, <1>4 DEF Granted
  <1> QED BY <1>1, <1>2, <1>3, <1>4, <1>5, <1>6, <1>7, <1>8, <1>9, StepKeepsSolo

LEMMA ReadWitnessSolo ==
    ASSUME Inv, SoloInv, NEW c \in Callers, ReadWitness(c)
    PROVE  SoloInv'
  <1> DEFINE s == IF Consistent(call[c].held, witness)
                  THEN AfterCheck(call[c].check, call[c].held) ELSE "lost"
  <1>1. /\ Goto(c, s)
        /\ UNCHANGED <<register, saved, witness, files, backup, uses, restored, live>>
        /\ call[c].pc = "witness"
    BY DEF ReadWitness, vault
  <1>2. call[c].check \in {"reuse", "reserve", "reconcile"}
    BY Typing DEF Inv, Shape, Calls
  <1>3. /\ s \in {"lost", "idle", "saved", "raise", "birth", "commit"}
        /\ s = "raise" => call[c].held # None
        /\ s \in {"birth", "commit"} => call[c].check = "reserve"
        /\ s = "commit" => call[c].held # None
    BY <1>2 DEF AfterCheck
  <1>4. s = "commit" => witness # None
    BY <1>3 DEF Consistent
  <1>5. s = "lost" => ~Consistent(call[c].held, witness)
    BY <1>2 DEF AfterCheck
  <1> HIDE DEF s
  <1>6. s \in Steps /\ s \notin Granted
    BY <1>3 DEF Steps, Resting, SealSteps, Granted
  <1>7. Busy(c)
    BY <1>1 DEF Busy, Resting
  <1>8. NeverBehind'
    BY <1>1 DEF SoloInv, NeverBehind, Value
  <1>9. ASSUME call[c].alone
        PROVE  /\ s = "lost" => restored
               /\ Undisturbed(c)'
    <2>1. Undisturbed(c)
      BY <1>7, <1>9 DEF SoloInv, AloneUndisturbed
    <2>2. call[c].held = register
      BY <2>1, <1>1 DEF Undisturbed
    <2>3. s = "lost" => restored
      BY <2>2, <1>5 DEF SoloInv, NeverBehind
    <2>4. /\ call'[c].pc = s
          /\ call'[c].check = call[c].check
          /\ call'[c].publish = call[c].publish
          /\ call'[c].held = call[c].held
          /\ call'[c].seen = call[c].seen
      BY <1>1, <1>6, Moved DEF Inv
    <2>5. Undisturbed(c)'
      BY <2>1, <2>2, <2>4, <1>1, <1>3 DEF Undisturbed, Resealing
    <2> QED BY <2>3, <2>5
  <1> QED BY <1>1, <1>3, <1>4, <1>6, <1>7, <1>8, <1>9, LiveStays, GotoKeepsSolo

LEMMA WitnessedSolo ==
    ASSUME Inv, SoloInv, NEW c \in Callers, NEW value \in 0 .. Last + 1,
           NEW next \in {"idle", "commit", "encrypt"}, Witnessed(c, value, next),
           call[c].pc \in {"raise", "birth", "advance"},
           value <= Value(register),
           next = "commit" => call[c].pc = "birth",
           next = "encrypt" => call[c].pc = "advance"
    PROVE  SoloInv'
  <1>1. PICK s \in {next, "idle"} :
            /\ Goto(c, s)
            /\ s # "idle" => witness' = value
    BY DEF Witnessed
  <1>2. witness' = witness \/ witness' = value
    BY DEF Witnessed
  <1>3. UNCHANGED <<register, saved, files, backup, uses, restored, live>>
    BY DEF Witnessed, vault
  <1>4. value # None
    BY CounterAssumption
  <1>5. /\ s \in {"idle", "commit", "encrypt"}
        /\ s = "commit" => call[c].pc = "birth"
        /\ s = "encrypt" => call[c].pc = "advance"
    BY <1>1
  <1>6. /\ s \in Steps
        /\ s \in Granted => call[c].pc \in Granted
        /\ s \notin {"raise", "lost"}
        /\ s = "commit" => witness' # None
    BY <1>1, <1>4, <1>5 DEF Steps, Resting, SealSteps, Granted
  <1>7. Busy(c)
    BY DEF Busy, Resting
  <1>8. NeverBehind'
    <2>1. ~restored /\ witness' = value => Consistent(register, value)
      <3>1. register \in Entries
        BY DEF Inv, Shape, TypeOK
      <3> QED BY <3>1, <1>4 DEF Consistent, Value, Entries
    <2>2. ~restored => Consistent(register, witness')
      BY <2>1, <1>2 DEF SoloInv, NeverBehind
    <2> QED BY <2>2, <1>3 DEF SoloInv, NeverBehind, Value, Consistent
  <1>9. ASSUME call[c].alone
        PROVE  Undisturbed(c)'
    <2>1. Undisturbed(c)
      BY <1>7, <1>9 DEF SoloInv, AloneUndisturbed
    <2>2. /\ call'[c].pc = s
          /\ call'[c].check = call[c].check
          /\ call'[c].publish = call[c].publish
          /\ call'[c].held = call[c].held
          /\ call'[c].seen = call[c].seen
      BY <1>1, <1>6, Moved DEF Inv
    <2> QED BY <2>1, <2>2, <1>3, <1>5 DEF Undisturbed, Resealing
  <1>10. witness # None => witness' # None
    BY <1>2, <1>4
  <1> QED BY <1>1, <1>3, <1>6, <1>7, <1>8, <1>9, <1>10, LiveStays, GotoKeepsSolo

LEMMA WitnessStepsSolo ==
    ASSUME Inv, SoloInv, NEW c \in Callers,
           RaiseWitness(c) \/ BearContext(c) \/ AdvanceWitness(c)
    PROVE  SoloInv'
  <1>1. /\ NextCounter(c) \in Nat
        /\ Value(register) \in Nat
        /\ Value(register) <= Last + 1
    BY Typing, CounterAssumption DEF Inv, Shape, TypeOK, Entries, Value
  <1>2. CASE RaiseWitness(c)
    <2>1. NextCounter(c) <= Value(register)
      BY <1>2 DEF RaiseWitness, Inv, ReadBehind
    <2>2. NextCounter(c) \in 0 .. Last + 1
      BY <2>1, <1>1, CounterAssumption
    <2> QED BY <1>2, <2>1, <2>2, WitnessedSolo DEF RaiseWitness
  <1>3. CASE BearContext(c)
    <2>1. 0 \in 0 .. Last + 1 /\ 0 <= Value(register)
      BY <1>1, CounterAssumption
    <2> QED BY <1>3, <2>1, WitnessedSolo DEF BearContext
  <1>4. CASE AdvanceWitness(c)
    <2>1. NextCounter(c) < Value(register)
      BY <1>4 DEF AdvanceWitness, SoloInv, GrantedBelow, Granted
    <2>2. NextCounter(c) + 1 \in 0 .. Last + 1 /\ NextCounter(c) + 1 <= Value(register)
      BY <2>1, <1>1, CounterAssumption
    <2> QED BY <1>4, <2>2, WitnessedSolo DEF AdvanceWitness
  <1> QED BY <1>2, <1>3, <1>4

LEMMA CommitSolo ==
    ASSUME Inv, SoloInv, NEW c \in Callers, CommitAdvance(c)
    PROVE  SoloInv'
  <1>1. Busy(c)
    BY DEF CommitAdvance, Busy, Resting
  <1>2. CASE register # call[c].held
    <2>1. Goto(c, "idle") /\ UNCHANGED <<register, saved, witness, files, restored, live>>
      BY <1>2 DEF CommitAdvance
    <2> QED BY <1>1, <2>1, FailsSolo
  <1>3. CASE register = call[c].held
    <2>1. /\ Goto(c, "advance")
          /\ register' = NextCounter(c) + 1
          /\ UNCHANGED <<saved, witness, files, restored, live>>
          /\ call[c].pc = "commit"
          /\ Value(register) = NextCounter(c)
      BY <1>3 DEF CommitAdvance, NextCounter
    <2>2. /\ NextCounter(c) \in Nat
          /\ register \in Entries
          /\ saved \in Saves
          /\ witness \in (0 .. Last + 1) \union {None}
          /\ \A d \in Callers : NextCounter(d) \in Nat
      BY Typing DEF Inv, Shape, TypeOK
    <2>3. register' # None /\ Value(register)' = Value(register) + 1
      BY <2>1, <2>2, CounterAssumption DEF Value
    <2>4. "advance" \in Steps
      BY DEF Steps, SealSteps
    <2>5. /\ call'[c].pc = "advance"
          /\ call'[c].check = call[c].check
          /\ call'[c].publish = call[c].publish
          /\ call'[c].held = call[c].held
          /\ call'[c].seen = call[c].seen
          /\ call'[c].alone = call[c].alone
          /\ \A d \in Callers : d # c => call'[d] = call[d]
      BY <2>1, <2>4, Moved DEF Inv
    <2>6. NextCounter(c)' = NextCounter(c)
      BY <2>5 DEF NextCounter
    <2>7. saved # None => saved.counter \in Nat
      BY <2>2, CounterAssumption DEF Saves, Containers, Counters
    <2>8. NeverBehind'
      <3>1. ASSUME ~restored
            PROVE  Consistent(register', witness)
        <4>1. Consistent(register, witness) /\ witness # None
          BY <3>1, <2>1 DEF SoloInv, NeverBehind, Witnessing
        <4>2. witness <= register'
          <5>1. CASE register = None
            BY <5>1, <4>1, <2>1, <2>2, CounterAssumption DEF Consistent
          <5>2. CASE register # None
            BY <5>2, <4>1, <2>1, <2>2, CounterAssumption DEF Consistent, Value, Entries
          <5> QED BY <5>1, <5>2
        <4> QED BY <4>1, <4>2, <2>1, <2>2, <2>3, CounterAssumption DEF Consistent
      <3>2. ASSUME ~restored, saved # None
            PROVE  saved.counter < Value(register)'
        BY <3>2, <2>1, <2>2, <2>3, <2>7 DEF SoloInv, NeverBehind
      <3> QED BY <3>1, <3>2, <2>1 DEF NeverBehind, Consistent
    <2>9. ASSUME call[c].alone
          PROVE  Undisturbed(c)'
      <3>1. Undisturbed(c)
        BY <1>1, <2>9 DEF SoloInv, AloneUndisturbed
      <3> QED BY <3>1, <2>1, <2>5 DEF Undisturbed, Resealing
    <2>10. live' # None => /\ saved' = live'
                           /\ files'[live'.publish.object] = live'
                           /\ live'.counter < Value(register)'
                           /\ call[c].alone
      <3>1. live # None => /\ saved = live
                           /\ files[live.publish.object] = live
                           /\ live.counter < Value(register)
                           /\ call[c].alone
        BY <1>1 DEF SoloInv, LiveKept
      <3> QED BY <3>1, <2>1, <2>2, <2>3, <2>7
    <2>11. /\ Value(register) <= Value(register)'
           /\ Value(register)' \in Nat /\ Value(register) \in Nat
           /\ NextCounter(c)' < Value(register)'
      BY <2>1, <2>2, <2>3, <2>6
    <2> QED BY <1>1, <2>1, <2>2, <2>5, <2>8, <2>9, <2>10, <2>11, StepKeepsSolo
  <1> QED BY <1>2, <1>3

\* The two steps that read the record: what they find is what an alone call would find
\* again, and a record of this very publish is below the register.
LEMMA ReadSavedSolo ==
    ASSUME Inv, SoloInv, NEW c \in Callers, ReadSaved(c)
    PROVE  SoloInv'
  <1> DEFINE s == IF saved = None THEN "previous"
                  ELSE IF saved.publish # call[c].publish THEN "previous"
                  ELSE IF saved.counter < NextCounter(c) THEN "file" ELSE "lost"
  <1>1. /\ UNCHANGED <<register, saved, witness, files, restored, live>>
        /\ call[c].pc = "saved"
        /\ call' = [call EXCEPT ![c].pc = s, ![c].seen = saved]
    BY DEF ReadSaved, vault
  <1>2. /\ s \in {"previous", "file", "lost"}
        /\ s = "previous" => saved = None \/ saved.publish # call[c].publish
        /\ s = "file" => saved.publish = call[c].publish /\ saved.counter < NextCounter(c)
        /\ s = "lost" => saved # None /\ ~(saved.counter < NextCounter(c))
    OBVIOUS
  <1> HIDE DEF s
  <1>3. /\ call'[c] = [call[c] EXCEPT !.pc = s, !.seen = saved]
        /\ \A d \in Callers : d # c => call'[d] = call[d]
    <2>1. call \in [Callers -> Calls]
      BY DEF Inv, Shape, TypeOK
    <2> QED BY <2>1, <1>1
  <1>4. /\ call'[c].pc = s
        /\ call'[c].held = call[c].held
        /\ call'[c].alone = call[c].alone
        /\ call'[c].publish = call[c].publish
        /\ call'[c].seen = saved
    BY <1>3, Typing DEF Inv, Shape, Calls
  <1>5. /\ Value(register)' = Value(register)
        /\ Value(register) \in Nat
        /\ \A d \in Callers : NextCounter(d) \in Nat
    BY <1>1, Typing DEF Value, Inv, Shape
  <1>6. NeverBehind'
    BY <1>1, <1>5 DEF SoloInv, NeverBehind
  <1>7. Busy(c)
    BY <1>1 DEF Busy, Resting
  <1>8. ASSUME call[c].alone
        PROVE  /\ s = "lost" => restored
               /\ Undisturbed(c)'
    <2>1. NextCounter(c) = Value(register)
      BY <1>1, <1>7, <1>8 DEF SoloInv, AloneUndisturbed, Undisturbed, NextCounter
    <2>2. s = "lost" => restored
      BY <2>1, <1>2 DEF SoloInv, NeverBehind
    <2>3. s = "previous" /\ live # None => live.publish # call[c].publish
      BY <1>2 DEF SoloInv, LiveKept
    <2>4. Undisturbed(c)'
      BY <2>1, <2>3, <1>1, <1>2, <1>4, <1>5 DEF Undisturbed, Resealing
    <2> QED BY <2>2, <2>4
  <1>9. live' # None => /\ saved' = live'
                        /\ files'[live'.publish.object] = live'
                        /\ live'.counter < Value(register)'
                        /\ call[c].alone
    BY <1>1, <1>5, <1>7, LiveStays
  <1>10. /\ Value(register) <= Value(register)'
         /\ call'[c].pc \notin Granted
         /\ call'[c].pc \notin {"commit", "raise"}
    BY <1>2, <1>4, <1>5 DEF Granted
  <1> QED BY <1>1, <1>3, <1>4, <1>5, <1>6, <1>7, <1>8, <1>9, <1>10, StepKeepsSolo

LEMMA ReadPreviousSolo ==
    ASSUME Inv, SoloInv, NEW c \in Callers, ReadPrevious(c)
    PROVE  SoloInv'
  <1>1. /\ UNCHANGED <<register, saved, witness, files, restored, live>>
        /\ call[c].pc = "previous"
        /\ call' = [call EXCEPT ![c].pc = "register", ![c].check = "reserve", ![c].seen = saved]
    BY DEF ReadPrevious, vault
  <1>2. /\ call'[c] = [call[c] EXCEPT !.pc = "register", !.check = "reserve", !.seen = saved]
        /\ \A d \in Callers : d # c => call'[d] = call[d]
    <2>1. call \in [Callers -> Calls]
      BY DEF Inv, Shape, TypeOK
    <2> QED BY <2>1, <1>1
  <1>3. /\ call'[c].pc = "register"
        /\ call'[c].held = call[c].held
        /\ call'[c].alone = call[c].alone
        /\ call'[c].publish = call[c].publish
        /\ call'[c].seen = saved
    BY <1>2, Typing DEF Inv, Shape, Calls
  <1>4. /\ Value(register)' = Value(register)
        /\ Value(register) \in Nat
        /\ \A d \in Callers : NextCounter(d) \in Nat
    BY <1>1, Typing DEF Value, Inv, Shape
  <1>5. NeverBehind'
    BY <1>1, <1>4 DEF SoloInv, NeverBehind
  <1>6. Busy(c)
    BY <1>1 DEF Busy, Resting
  <1>7. ASSUME call[c].alone
        PROVE  Undisturbed(c)'
    <2>1. Undisturbed(c)
      BY <1>6, <1>7 DEF SoloInv, AloneUndisturbed
    <2> QED BY <2>1, <1>1, <1>3 DEF Undisturbed, Resealing
  <1>8. live' # None => /\ saved' = live'
                        /\ files'[live'.publish.object] = live'
                        /\ live'.counter < Value(register)'
                        /\ call[c].alone
    BY <1>1, <1>4, <1>6, LiveStays
  <1>9. /\ Value(register) <= Value(register)'
        /\ call'[c].pc \notin Granted
        /\ call'[c].pc \notin {"commit", "raise", "lost"}
    BY <1>3, <1>4 DEF Granted
  <1> QED BY <1>1, <1>2, <1>3, <1>4, <1>5, <1>6, <1>7, <1>8, <1>9, StepKeepsSolo

LEMMA ReadFileSolo ==
    ASSUME Inv, SoloInv, NEW c \in Callers, ReadFile(c)
    PROVE  SoloInv'
  <1> DEFINE o == call[c].publish.object
  <1>1. /\ UNCHANGED <<register, saved, witness, files, restored>>
        /\ call[c].pc = "file"
    BY DEF ReadFile, vault
  <1>2. Busy(c)
    BY <1>1 DEF Busy, Resting
  <1>3. NeverBehind'
    BY <1>1 DEF SoloInv, NeverBehind, Value
  <1>4. call[c].alone => /\ call[c].seen = saved
                         /\ saved.publish = call[c].publish
                         /\ saved.counter < Value(register)
    BY <1>1, <1>2 DEF SoloInv, AloneUndisturbed, Undisturbed
  <1>5. "idle" \in Steps /\ "previous" \in Steps
    BY DEF Steps, Resting, SealSteps
  <1>6. CASE files[o] = call[c].seen
    <2>1. /\ Goto(c, "idle")
          /\ live' = IF call[c].alone THEN call[c].seen ELSE None
      BY <1>6 DEF ReadFile, Returns
    <2>2. live' # None => /\ saved' = live'
                          /\ files'[live'.publish.object] = live'
                          /\ live'.counter < Value(register)
                          /\ call[c].alone
      BY <2>1, <1>1, <1>4, <1>6
    <2>3. "idle" \in Resting /\ "idle" \notin Granted
      BY DEF Resting, Granted
    <2> QED BY <1>1, <1>2, <1>3, <1>5, <2>1, <2>2, <2>3, GotoKeepsSolo
  <1>7. CASE files[o] # call[c].seen
    <2>1. Goto(c, "previous") /\ live' = live
      BY <1>7 DEF ReadFile
    <2>2. /\ call'[c].pc = "previous"
          /\ call'[c].publish = call[c].publish
      BY <1>5, <2>1, Moved DEF Inv
    <2>3. ASSUME call[c].alone
          PROVE  Undisturbed(c)'
      <3>1. live # None => live.publish # call[c].publish
        BY <1>4, <1>7, <2>3 DEF SoloInv, LiveKept
      <3> QED BY <2>1, <2>2, <3>1 DEF Undisturbed, Resealing
    <2>4. "previous" \notin Granted
      BY DEF Granted
    <2> QED BY <1>1, <1>2, <1>3, <1>5, <2>1, <2>3, <2>4, LiveStays, GotoKeepsSolo
  <1> QED BY <1>6, <1>7

LEMMA EncryptSolo ==
    ASSUME Inv, SoloInv, NEW c \in Callers, Encrypt(c)
    PROVE  SoloInv'
  <1>1. /\ UNCHANGED <<register, saved, witness, files, restored, live>>
        /\ call[c].pc = "encrypt"
        /\ Goto(c, "write")
    BY DEF Encrypt, vault
  <1>2. Busy(c) /\ "write" \in Steps /\ call[c].pc \in Granted
    BY <1>1 DEF Busy, Resting, Steps, SealSteps, Granted
  <1>3. NeverBehind'
    BY <1>1 DEF SoloInv, NeverBehind, Value
  <1>4. ASSUME call[c].alone
        PROVE  Undisturbed(c)'
    <2>1. Undisturbed(c)
      BY <1>2, <1>4 DEF SoloInv, AloneUndisturbed
    <2>2. /\ call'[c].pc = "write"
          /\ call'[c].seen = call[c].seen
      BY <1>1, <1>2, Moved DEF Inv
    <2> QED BY <2>1, <2>2, <1>1 DEF Undisturbed, Resealing
  <1> QED BY <1>1, <1>2, <1>3, <1>4, LiveStays, GotoKeepsSolo

\* The container handed out survives what is done to another snapshot's file.
LEMMA OtherFile ==
    ASSUME Inv, SoloInv, NEW c \in Callers, Busy(c), NEW o \in Objects, NEW v,
           files' = [files EXCEPT ![o] = v], live' = NoLonger(o), saved' = saved
    PROVE  live' # None => /\ saved' = live'
                           /\ files'[live'.publish.object] = live'
                           /\ live'.counter < Value(register)
                           /\ call[c].alone
  <1> SUFFICES ASSUME live' # None
               PROVE  /\ saved' = live'
                      /\ files'[live'.publish.object] = live'
                      /\ live'.counter < Value(register)
                      /\ call[c].alone
    OBVIOUS
  <1>1. live' = live /\ live # None /\ live.publish.object # o
    BY DEF NoLonger
  <1>2. live.publish.object \in Objects /\ files \in [Objects -> Saves]
    BY <1>1 DEF Inv, Shape, TypeOK, Saves, Containers, Publishes
  <1>3. files'[live.publish.object] = files[live.publish.object]
    BY <1>1, <1>2
  <1> QED BY <1>1, <1>3 DEF SoloInv, LiveKept

LEMMA ObjectType ==
    ASSUME Inv, NEW c \in Callers
    PROVE  call[c].publish.object \in Objects
  BY Typing DEF Inv, Shape, Calls, Publishes

LEMMA WriteFileSolo ==
    ASSUME Inv, SoloInv, NEW c \in Callers, WriteFile(c)
    PROVE  SoloInv'
  <1> DEFINE o == call[c].publish.object
  <1>1. /\ UNCHANGED <<register, saved, witness, restored>>
        /\ call[c].pc = "write"
        /\ files' = [files EXCEPT ![o] = ContainerOf(c)]
        /\ live' = NoLonger(o)
    BY DEF WriteFile, vault
  <1>2. PICK s \in {"record", "idle"} : Goto(c, s)
    BY DEF WriteFile
  <1>3. /\ Busy(c)
        /\ s \in Steps
        /\ call[c].pc \in Granted
    BY <1>1 DEF Busy, Resting, Steps, SealSteps, Granted
  <1>4. NeverBehind'
    BY <1>1 DEF SoloInv, NeverBehind, Value
  <1>5. ASSUME call[c].alone, s \notin Resting
        PROVE  Undisturbed(c)'
    <2>1. Undisturbed(c)
      BY <1>3, <1>5 DEF SoloInv, AloneUndisturbed
    <2>2. /\ call'[c].pc = "record"
          /\ call'[c].publish = call[c].publish
          /\ call'[c].held = call[c].held
          /\ call'[c].seen = call[c].seen
      BY <1>2, <1>3, <1>5, Moved DEF Inv, Resting
    <2>3. ContainerOf(c)' = ContainerOf(c)
      BY <2>2 DEF ContainerOf, NextCounter
    <2>4. files'[o] = ContainerOf(c)
      BY <1>1, ObjectType DEF Inv, Shape, TypeOK
    <2> QED BY <2>1, <2>2, <2>3, <2>4, <1>1 DEF Undisturbed, Resealing
  <1>6. live' # None => /\ saved' = live'
                        /\ files'[live'.publish.object] = live'
                        /\ live'.counter < Value(register)
                        /\ call[c].alone
    BY <1>1, <1>3, ObjectType, OtherFile
  <1> QED BY <1>1, <1>2, <1>3, <1>4, <1>5, <1>6, GotoKeepsSolo

LEMMA RecordSolo ==
    ASSUME Inv, SoloInv, NEW c \in Callers, RecordSaved(c)
    PROVE  SoloInv'
  <1> DEFINE old == call[c].seen
             p == call[c].publish
             moves == old # None /\ old.publish.object # p.object
  <1>1. /\ UNCHANGED <<register, witness, files, restored>>
        /\ call[c].pc = "record"
        /\ saved' = ContainerOf(c)
    BY DEF RecordSaved
  <1>2. /\ Busy(c)
        /\ call[c].pc \in Granted
        /\ "idle" \in Steps /\ "remove" \in Steps
        /\ "idle" \in Resting
    BY <1>1 DEF Busy, Resting, Steps, SealSteps, Granted
  <1>3. /\ ContainerOf(c).counter = NextCounter(c)
        /\ ContainerOf(c).publish = p
        /\ NextCounter(c) < Value(register)
    BY <1>2 DEF ContainerOf, SoloInv, GrantedBelow
  <1>4. NeverBehind'
    BY <1>1, <1>3 DEF SoloInv, NeverBehind, Value
  <1>5. call[c].alone => files[p.object] = ContainerOf(c)
    BY <1>1, <1>2 DEF SoloInv, AloneUndisturbed, Undisturbed
  <1>6. CASE moves
    <2>1. Goto(c, "remove") /\ live' = None
      BY <1>6 DEF RecordSaved
    <2>2. /\ call'[c].pc = "remove"
          /\ call'[c].publish = call[c].publish
          /\ call'[c].held = call[c].held
          /\ call'[c].seen = call[c].seen
      BY <1>2, <2>1, Moved DEF Inv
    <2>3. ContainerOf(c)' = ContainerOf(c)
      BY <2>2 DEF ContainerOf, NextCounter
    <2>4. call[c].alone => Undisturbed(c)'
      BY <1>1, <1>5, <1>6, <2>2, <2>3 DEF Undisturbed, Resealing
    <2> QED BY <1>1, <1>2, <1>4, <2>1, <2>4, GotoKeepsSolo
  <1>7. CASE ~moves
    <2>1. /\ Goto(c, "idle")
          /\ live' = IF call[c].alone THEN ContainerOf(c) ELSE None
      BY <1>7 DEF RecordSaved, Returns
    <2>2. live' # None => /\ saved' = live'
                          /\ files'[live'.publish.object] = live'
                          /\ live'.counter < Value(register)
                          /\ call[c].alone
      BY <2>1, <1>1, <1>3, <1>5
    <2> QED BY <1>1, <1>2, <1>4, <2>1, <2>2, GotoKeepsSolo
  <1> QED BY <1>6, <1>7

LEMMA RemoveSolo ==
    ASSUME Inv, SoloInv, NEW c \in Callers, RemoveOldFile(c)
    PROVE  SoloInv'
  <1> DEFINE p == call[c].publish
             gone == call[c].seen.publish.object
  <1>1. /\ UNCHANGED <<register, saved, witness, restored>>
        /\ call[c].pc = "remove"
        /\ files' = [files EXCEPT ![gone] = None]
        /\ Goto(c, "idle")
        /\ live' = IF call[c].alone THEN ContainerOf(c) ELSE None
    BY DEF RemoveOldFile, Returns, vault
  <1>2. /\ Busy(c)
        /\ call[c].pc \in Granted
        /\ "idle" \in Steps /\ "idle" \in Resting
    BY <1>1 DEF Busy, Resting, Steps, SealSteps, Granted
  <1>3. /\ ContainerOf(c).counter = NextCounter(c)
        /\ ContainerOf(c).publish = p
        /\ NextCounter(c) < Value(register)
    BY <1>2 DEF ContainerOf, SoloInv, GrantedBelow
  <1>4. NeverBehind'
    BY <1>1 DEF SoloInv, NeverBehind, Value
  <1>5. call[c].alone => /\ files[p.object] = ContainerOf(c)
                         /\ saved = ContainerOf(c)
                         /\ gone # p.object
    BY <1>1, <1>2 DEF SoloInv, AloneUndisturbed, Undisturbed
  <1>6. call[c].alone => files'[p.object] = ContainerOf(c)
    BY <1>1, <1>5, ObjectType DEF Inv, Shape, TypeOK
  <1>7. live' # None => /\ saved' = live'
                        /\ files'[live'.publish.object] = live'
                        /\ live'.counter < Value(register)
                        /\ call[c].alone
    BY <1>1, <1>3, <1>5, <1>6
  <1> QED BY <1>1, <1>2, <1>4, <1>7, GotoKeepsSolo

LEMMA DiscardStepsSolo ==
    ASSUME Inv, SoloInv, NEW c \in Callers, Forget(c) \/ ClearSaved(c) \/ Unlink(c)
    PROVE  SoloInv'
  <1> DEFINE o == call[c].publish.object
  <1>1. /\ Busy(c)
        /\ UNCHANGED <<register, witness, restored>>
    BY DEF Forget, ClearSaved, Unlink, vault, Busy, Resting
  <1>2. \A s \in {"clear", "unlink", "idle"} :
           s \in Steps /\ s \notin Granted /\ s \notin {"commit", "raise", "lost"}
    BY DEF Steps, Resting, Granted
  <1>3. "idle" \in Resting
    BY DEF Resting
  <1>4. CASE Forget(c)
    <2>1. PICK s \in {"clear", "unlink"} :
              /\ Goto(c, s)
              /\ s = "clear" => saved # None /\ saved.publish.object = o
      BY <1>4 DEF Forget
    <2>2. UNCHANGED <<saved, files, live>>
      BY <1>4 DEF Forget, vault
    <2>3. NeverBehind'
      BY <1>1, <2>2 DEF SoloInv, NeverBehind, Value
    <2>4. Undisturbed(c)'
      <3>1. call'[c].pc = s /\ call'[c].publish = call[c].publish
        BY <1>2, <2>1, Moved DEF Inv
      <3> QED BY <3>1, <2>1, <2>2 DEF Undisturbed, Resealing
    <2> QED BY <1>1, <1>2, <2>1, <2>2, <2>3, <2>4, LiveStays, GotoKeepsSolo
  <1>5. CASE ClearSaved(c)
    <2>1. /\ Goto(c, "unlink")
          /\ call[c].pc = "clear"
          /\ saved' = None /\ files' = files
          /\ live' = NoLonger(o)
      BY <1>5 DEF ClearSaved
    <2>2. NeverBehind'
      BY <1>1, <2>1 DEF SoloInv, NeverBehind, Value
    <2>3. Undisturbed(c)'
      <3>1. call'[c].pc = "unlink"
        BY <1>2, <2>1, Moved DEF Inv
      <3> QED BY <3>1 DEF Undisturbed, Resealing
    <2>4. live' = None
      <3>1. ASSUME live # None
            PROVE  live.publish.object = o
        <4>1. call[c].alone /\ saved = live
          BY <1>1, <3>1 DEF SoloInv, LiveKept
        <4>2. saved.publish.object = o
          BY <1>1, <2>1, <4>1 DEF SoloInv, AloneUndisturbed, Undisturbed
        <4> QED BY <4>1, <4>2
      <3> QED BY <3>1, <2>1 DEF NoLonger
    <2> QED BY <1>1, <1>2, <2>1, <2>2, <2>3, <2>4, GotoKeepsSolo
  <1>6. CASE Unlink(c)
    <2>1. /\ Goto(c, "idle")
          /\ saved' = saved
          /\ files' = [files EXCEPT ![o] = None]
          /\ live' = NoLonger(o)
      BY <1>6 DEF Unlink, vault
    <2>2. NeverBehind'
      BY <1>1, <2>1 DEF SoloInv, NeverBehind, Value
    <2>3. live' # None => /\ saved' = live'
                          /\ files'[live'.publish.object] = live'
                          /\ live'.counter < Value(register)
                          /\ call[c].alone
      BY <1>1, <2>1, ObjectType, OtherFile
    <2> QED BY <1>1, <1>2, <1>3, <2>1, <2>2, <2>3, GotoKeepsSolo
  <1> QED BY <1>4, <1>5, <1>6

LEMMA BeginSolo ==
    ASSUME Inv, SoloInv, NEW c \in Callers, NEW p \in Publishes,
           Seal(c, p) \/ Reconcile(c, p) \/ Discard(c, p)
    PROVE  SoloInv'
  <1>1. PICK first \in {"register", "forget"}, check \in {"reuse", "reconcile"} :
            Begin(c, first, check, p)
    BY DEF Seal, Reconcile, Discard
  <1> DEFINE others == \E d \in Callers \ {c} : Busy(d)
             row == [pc |-> first, check |-> check, publish |-> p, held |-> None,
                     seen |-> None, alone |-> ~others]
             beside(d) == [call[d] EXCEPT !.alone = @ /\ ~Busy(d)]
  <1>2. /\ call' = [d \in Callers |-> IF d = c THEN row ELSE beside(d)]
        /\ live' = IF others THEN None ELSE live
        /\ UNCHANGED <<register, saved, witness, files, restored>>
    BY <1>1 DEF Begin, vault
  <1>3. ASSUME NEW d \in Callers
        PROVE  /\ beside(d).pc = call[d].pc
               /\ beside(d).held = call[d].held
               /\ beside(d).alone <=> call[d].alone /\ ~Busy(d)
    BY Typing DEF Inv, Shape, Calls
  <1>4. /\ call'[c].pc = first
        /\ call'[c].check = check
        /\ call'[c].alone <=> ~others
    BY <1>2
  <1>5. ASSUME NEW d \in Callers, d # c
        PROVE  /\ call'[d].pc = call[d].pc
               /\ call'[d].held = call[d].held
               /\ call'[d].alone <=> call[d].alone /\ ~Busy(d)
               /\ NextCounter(d)' = NextCounter(d)
               /\ Busy(d)' <=> Busy(d)
               /\ Busy(d) => others
    BY <1>2, <1>3, <1>5 DEF NextCounter, Busy
  <1> HIDE DEF others, row, beside
  <1>6. /\ Value(register)' = Value(register)
        /\ Value(witness)' = Value(witness)
    BY <1>2 DEF Value
  <1>7. Alone'
    <2>1. ASSUME NEW d \in Callers, NEW e \in Callers, d # e, Busy(d)', Busy(e)'
          PROVE  ~call'[d].alone
      <3>1. CASE d = c
        BY <2>1, <3>1, <1>4, <1>5
      <3>2. CASE d # c
        BY <2>1, <3>2, <1>5
      <3> QED BY <3>1, <3>2
    <2> QED BY <2>1 DEF Alone
  <1>8. GrantedBelow'
    <2>1. ASSUME NEW d \in Callers, call'[d].pc \in Granted
          PROVE  NextCounter(d)' < Value(register)'
      <3>1. d # c
        BY <2>1, <1>4 DEF Granted
      <3> QED BY <2>1, <3>1, <1>5, <1>6 DEF SoloInv, GrantedBelow
    <2> QED BY <2>1 DEF GrantedBelow
  <1>9. Witnessing'
    <2>1. ASSUME NEW d \in Callers
          PROVE  /\ call'[d].pc = "commit" => witness' # None
                 /\ call'[d].pc = "raise" => call'[d].held # None
      <3>1. CASE d = c
        BY <3>1, <1>4
      <3>2. CASE d # c
        BY <3>2, <1>2, <1>5 DEF SoloInv, Witnessing
      <3> QED BY <3>1, <3>2
    <2> QED BY <2>1 DEF Witnessing
  <1>10. NeverBehind'
    BY <1>2, <1>6 DEF SoloInv, NeverBehind
  <1>11. AloneUndisturbed'
    <2>1. ASSUME NEW d \in Callers, Busy(d)', call'[d].alone
          PROVE  Undisturbed(d)'
      <3>1. d = c
        BY <2>1, <1>5
      <3> QED BY <3>1, <1>4 DEF Undisturbed, Resealing
    <2> QED BY <2>1 DEF AloneUndisturbed
  <1>12. LiveKept'
    <2>1. ASSUME live' # None
          PROVE  ~others /\ live' = live
      BY <2>1, <1>2
    <2>2. ASSUME live' # None, NEW d \in Callers, Busy(d)'
          PROVE  call'[d].alone
      BY <2>1, <2>2, <1>4, <1>5
    <2> QED BY <2>1, <2>2, <1>2, <1>6 DEF SoloInv, LiveKept
  <1>13. CrashIsNotLoss'
    <2>1. ASSUME NEW d \in Callers, call'[d].pc = "lost", call'[d].alone
          PROVE  restored'
      <3>1. d # c
        BY <2>1, <1>4
      <3> QED BY <2>1, <3>1, <1>2, <1>5 DEF SoloInv, CrashIsNotLoss
    <2> QED BY <2>1 DEF CrashIsNotLoss
  <1> QED BY <1>7, <1>8, <1>9, <1>10, <1>11, <1>12, <1>13 DEF SoloInv

\* When no call is in progress, only the record and the container handed out matter.
LEMMA RestingSolo ==
    ASSUME \A c \in Callers : call'[c].pc = "idle",
           NeverBehind',
           live' # None => /\ saved' = live'
                           /\ files'[live'.publish.object] = live'
                           /\ live'.counter < Value(register)'
    PROVE  SoloInv'
  <1>1. \A c \in Callers : ~Busy(c)'
    BY DEF Busy, Resting
  <1>2. Alone' /\ GrantedBelow' /\ Witnessing' /\ AloneUndisturbed' /\ CrashIsNotLoss'
    BY <1>1 DEF Alone, GrantedBelow, Witnessing, AloneUndisturbed, CrashIsNotLoss, Granted
  <1>3. LiveKept'
    BY <1>1 DEF LiveKept
  <1> QED BY <1>2, <1>3 DEF SoloInv

LEMMA EnvironmentSolo ==
    ASSUME Inv, SoloInv,
           \/ Crash \/ ExportBackup \/ RestoreBackup
           \/ \E o \in Objects : LoseFile(o)
    PROVE  SoloInv'
  <1>1. CASE Crash
    <2>1. UNCHANGED <<register, saved, witness, files, restored, live>>
      BY <1>1 DEF Crash, vault
    <2>2. \A c \in Callers : call'[c].pc = "idle"
      BY <1>1, StopShape DEF Crash
    <2> QED BY <2>1, <2>2, RestingSolo DEF SoloInv, NeverBehind, LiveKept, Value
  <1>2. CASE ExportBackup
    <2>1. UNCHANGED <<register, saved, witness, files, call, restored, live>>
      BY <1>2 DEF ExportBackup, vault
    <2> QED BY <2>1 DEF SoloInv, Alone, GrantedBelow, Witnessing, NeverBehind, Value,
                        AloneUndisturbed, Undisturbed, Resealing, ContainerOf, NextCounter,
                        LiveKept, CrashIsNotLoss, Busy
  <1>3. CASE RestoreBackup
    <2>1. restored' /\ live' = None
      BY <1>3 DEF RestoreBackup
    <2>2. \A c \in Callers : call'[c].pc = "idle"
      BY <1>3, StopShape DEF RestoreBackup
    <2> QED BY <2>1, <2>2, RestingSolo DEF NeverBehind
  <1>4. ASSUME NEW o \in Objects, LoseFile(o)
        PROVE  SoloInv'
    <2>1. /\ UNCHANGED <<register, saved, witness, call, restored>>
          /\ files' = [files EXCEPT ![o] = None]
          /\ live' = NoLonger(o)
          /\ \A c \in Callers : ~Busy(c)
      BY <1>4 DEF LoseFile, vault
    <2>2. LiveKept'
      <3>1. ASSUME live' # None
            PROVE  /\ saved' = live'
                   /\ files'[live'.publish.object] = live'
                   /\ live'.counter < Value(register)'
        <4>1. live' = live /\ live # None /\ live.publish.object # o
          BY <2>1, <3>1 DEF NoLonger
        <4>2. live.publish.object \in Objects /\ files \in [Objects -> Saves]
          BY <4>1 DEF Inv, Shape, TypeOK, Saves, Containers, Publishes
        <4>3. files'[live.publish.object] = files[live.publish.object]
          BY <2>1, <4>1, <4>2
        <4> QED BY <2>1, <4>1, <4>3 DEF SoloInv, LiveKept, Value
      <3>2. \A c \in Callers : ~Busy(c)'
        BY <2>1 DEF Busy
      <3> QED BY <3>1, <3>2 DEF LiveKept
    <2>3. /\ Alone' /\ GrantedBelow' /\ Witnessing' /\ NeverBehind'
          /\ AloneUndisturbed' /\ CrashIsNotLoss'
      BY <2>1 DEF SoloInv, Alone, GrantedBelow, Witnessing, NeverBehind, Value,
                  AloneUndisturbed, NextCounter, CrashIsNotLoss, Busy
    <2> QED BY <2>2, <2>3 DEF SoloInv
  <1> QED BY <1>1, <1>2, <1>3, <1>4

LEMMA InitSolo ==
    ASSUME Init
    PROVE  SoloInv
  <1>1. PICK p \in Publishes : call = [c \in Callers |-> Idle(p)]
    BY DEF Init
  <1>2. \A c \in Callers : call[c].pc = "idle"
    BY <1>1 DEF Idle
  <1>3. \A c \in Callers : ~Busy(c)
    BY <1>2 DEF Busy, Resting
  <1>4. NeverBehind
    BY DEF Init, NeverBehind, Consistent
  <1>5. Alone /\ GrantedBelow /\ Witnessing /\ AloneUndisturbed /\ CrashIsNotLoss
    BY <1>2, <1>3 DEF Alone, GrantedBelow, Witnessing, AloneUndisturbed, CrashIsNotLoss,
                      Granted
  <1>6. LiveKept
    BY DEF Init, LiveKept
  <1> QED BY <1>4, <1>5, <1>6 DEF SoloInv

LEMMA StepSolo ==
    ASSUME Inv, SoloInv, [Next]_vars
    PROVE  SoloInv'
  <1>1. CASE UNCHANGED vars
    BY <1>1 DEF vars, SoloInv, Alone, GrantedBelow, Witnessing, NeverBehind, Value,
                AloneUndisturbed, Undisturbed, Resealing, ContainerOf, NextCounter,
                LiveKept, CrashIsNotLoss, Busy, vault
  <1>2. ASSUME NEW c \in Callers, Step(c)
        PROVE  SoloInv'
    <2>1. CASE \E p \in Publishes : Seal(c, p) \/ Reconcile(c, p) \/ Discard(c, p)
      BY <2>1, BeginSolo
    <2>2. CASE Fails(c)
      BY <2>2, FailsSolo DEF Fails, vault
    <2>3. CASE ReadRegister(c)
      BY <2>3, ReadRegisterSolo
    <2>4. CASE ReadWitness(c)
      BY <2>4, ReadWitnessSolo
    <2>5. CASE RaiseWitness(c) \/ BearContext(c) \/ AdvanceWitness(c)
      BY <2>5, WitnessStepsSolo
    <2>6. CASE CommitAdvance(c)
      BY <2>6, CommitSolo
    <2>7. CASE ReadSaved(c) \/ ReadPrevious(c)
      BY <2>7, ReadSavedSolo, ReadPreviousSolo
    <2>8. CASE ReadFile(c) \/ WriteFile(c) \/ RemoveOldFile(c)
      BY <2>8, ReadFileSolo, WriteFileSolo, RemoveSolo
    <2>9. CASE Encrypt(c)
      BY <2>9, EncryptSolo
    <2>10. CASE RecordSaved(c)
      BY <2>10, RecordSolo
    <2>11. CASE Forget(c) \/ ClearSaved(c) \/ Unlink(c)
      BY <2>11, DiscardStepsSolo
    <2> QED BY <1>2, <2>1, <2>2, <2>3, <2>4, <2>5, <2>6, <2>7, <2>8, <2>9, <2>10, <2>11
            DEF Step
  <1>3. CASE Crash \/ ExportBackup \/ RestoreBackup \/ \E o \in Objects : LoseFile(o)
    BY <1>3, EnvironmentSolo
  <1> QED BY <1>1, <1>2, <1>3 DEF Next

LEMMA SoloHolds == Spec => []SoloInv
  BY InitSolo, StepSolo, InvariantHolds, PTL DEF Spec

\* A call that nothing overlaps reports the nonce state lost only in a vault that was
\* restored from a backup: no crash and no failing call of the store, the witness or the
\* files condemns a key.
THEOREM LossMeansRestored == Spec => []CrashIsNotLoss
  <1>1. SoloInv => CrashIsNotLoss
    BY DEF SoloInv
  <1> QED BY <1>1, SoloHolds, PTL

\* A publish whose container was handed out and not given up is answered with that
\* container: a call that nothing overlaps never encrypts it a second time, whatever
\* crashed or failed in between.
THEOREM RetriesSendTheSame == Spec => []ResendsSameBytes
  <1>1. SoloInv => ResendsSameBytes
    <2>1. ASSUME SoloInv, NEW c \in Callers, call[c].pc = "encrypt", call[c].alone,
                 live # None
          PROVE  live.publish # call[c].publish
      <3>1. Busy(c)
        BY <2>1 DEF Busy, Resting
      <3> QED BY <2>1, <3>1 DEF SoloInv, AloneUndisturbed, Undisturbed, Resealing
    <2> QED BY <2>1 DEF ResendsSameBytes
  <1> QED BY <1>1, SoloHolds, PTL
=============================================================================
