----------------------------- MODULE SyncRebase -----------------------------
(***************************************************************************)
(* A rebase: the base image is copied to a scratch vault, the service's     *)
(* envelopes are applied to it in order, and the unpushed local commands    *)
(* are replayed on top or queued.  Whether a command still validates is     *)
(* only known by applying it, so the executor replays on a trial copy and   *)
(* starts again, with the refused command's group queued, when the new base *)
(* refuses one.  The live vault takes commands all the while.               *)
(*                                                                          *)
(* The scratch vault is read and written by the rebase alone, so its steps  *)
(* are the model's: a copy, one envelope, one command, the queue.           *)
(*                                                                          *)
(* Sources: crates/db-worker/src/rebase.rs and rebase/execute.rs.           *)
(***************************************************************************)
EXTENDS SyncBase, RebasePlan

VARIABLE rebase

vars == <<liveVars, baseVars, engineVars, hostVars, rebase>>

NoRebase == [pc |-> "idle", base |-> 0, head |-> 0, has |-> {}, touched |-> {}, local |-> {},
             seen |-> {}, invalid |-> {}, plan |-> <<>>, replayed |-> <<>>]

Init == InitBase /\ rebase = NoRebase

Unchanged == UNCHANGED <<liveVars, baseVars, engineVars, hostVars>>

\* rollback_to: only a base the vault vouches for, and only its own base_seq.
BeginRebase ==
    /\ rebase.pc = "idle"
    /\ EngineRests
    /\ outbox # {}
    /\ rebase' = [NoRebase EXCEPT !.pc = "copy", !.base = row.seq]
    /\ Unchanged

CopyBase ==
    /\ rebase.pc = "copy"
    /\ image # None
    /\ rebase' = [rebase EXCEPT !.pc = "pull", !.head = rebase.base, !.has = image.has]
    /\ Unchanged

\* apply_pulled: the next entry of the log, whose memo is absent, and whose apply produced
\* the write set it carries.
ApplyPulled(seq) ==
    /\ rebase.pc = "pull"
    /\ seq = rebase.head + 1
    /\ server[seq].id \notin rebase.has
    /\ rebase' = [rebase EXCEPT !.has = @ \union {server[seq].id},
                                !.touched = @ \union server[seq].rows,
                                !.head = seq]
    /\ Unchanged

\* Mutant: the next trial replays on the vault of the last one.
Trial_SameCopy(r, refused) ==
    LET invalid == r.invalid \union refused
    IN  [r EXCEPT !.pc = "trial",
                  !.invalid = invalid,
                  !.plan = Plan(r.local, cmd, r.touched, invalid),
                  !.replayed = <<>>]

\* A trial: the post-pull copy and the plan for what is known to be invalid.
Trial(r, refused) ==
    LET invalid == r.invalid \union refused
    IN  [r EXCEPT !.pc = "trial",
                  !.has = @ \ {r.replayed[i] : i \in DOMAIN r.replayed},
                  !.invalid = invalid,
                  !.plan = Plan(r.local, cmd, r.touched, invalid),
                  !.replayed = <<>>]

\* read_local_commands, then rebase_local; the engine has pulled all it knows of.
ReadLocal ==
    /\ rebase.pc = "pull"
    /\ WriterFree
    /\ rebase.head >= known
    /\ rebase' = Trial([rebase EXCEPT !.local = outbox, !.seen = done], {})
    /\ Unchanged

\* The planned commands that this trial has not replayed.
Remaining ==
    {c \in rebase.local : ~rebase.plan[c].queued} \ {rebase.replayed[i] : i \in DOMAIN rebase.replayed}

\* replay_planned: in local order, each under the ordinary validated apply.
ReplayNext ==
    /\ rebase.pc = "trial"
    /\ Remaining # {}
    /\ LET c == Min(Remaining)
       IN  /\ c \notin rebase.has
           /\ \/ rebase' = [rebase EXCEPT !.has = @ \union {c}, !.replayed = Append(@, c)]
              \/ rebase' = Trial(rebase, {c})
    /\ Unchanged

\* queue_planned and the rebuild of class 2; the trial is now the scratch vault.
QueueRest ==
    /\ rebase.pc = "trial"
    /\ Remaining = {}
    /\ rebase' = [rebase EXCEPT !.pc = "done"]
    /\ Unchanged

\* Any error drops the scratch vault: an envelope out of order, undecodable, refused or of
\* another write set; a memo that is present; the database or the filesystem.
Abandon ==
    /\ rebase.pc # "idle"
    /\ rebase' = NoRebase
    /\ Unchanged

Rebase ==
    \/ BeginRebase \/ CopyBase \/ ReadLocal \/ ReplayNext \/ QueueRest \/ Abandon
    \/ \E seq \in DOMAIN server : ApplyPulled(seq)

\* The engine does one thing at a time; commands, other devices and the host do not wait.
Next ==
    \/ Rebase
    \/ rebase.pc = "idle" /\ (Capture \/ AcceptPush \/ CleanPull) /\ rebase' = rebase
    \/ (Dispatch \/ OtherPushes \/ Host) /\ rebase' = rebase
    \/ Stop /\ rebase' = NoRebase

Spec == Init /\ [][Next]_vars

-----------------------------------------------------------------------------
\* The types of the variables.
TypeOK ==
    /\ BaseTypes
    /\ rebase.pc \in {"idle", "copy", "pull", "trial", "done"}
    /\ rebase.base \in Heads /\ rebase.head \in rebase.base .. Len(server) \union {0}
    /\ rebase.has \subseteq Ids /\ rebase.touched \subseteq Rows
    /\ rebase.local \subseteq Locals /\ rebase.seen \subseteq Ids
    /\ rebase.invalid \subseteq rebase.local
    /\ DOMAIN rebase.plan = rebase.local
    /\ \A i \in DOMAIN rebase.replayed : rebase.replayed[i] \in rebase.local

Roots ==
    rebase.invalid \union {c \in rebase.local : cmd[c].rows \intersect rebase.touched # {}}

\* "A group is never partially applied, silently merged, or discarded": the plan queues exactly
\* the least set that holds the conflicting commands, their correlation groups and everything
\* they caused, and each is offered the outcome of a conflict that pulls it in.
PlanIsLeastClosure ==
    rebase.pc \in {"trial", "done"} =>
        /\ Queued(rebase.plan) = LeastClosure(rebase.local, cmd, Roots)
        /\ WellRooted(rebase.local, cmd, Roots, rebase.invalid, rebase.plan)

\* A finished rebase lost nothing and doubled nothing: every command the live vault held when
\* the outbox was read is in the rebuilt vault or queued, the service's entries are in it, the
\* local ones follow them in their own order, and no command is both in it and queued but one
\* the service had already accepted (a restored backup's outbox still names it).
RebuiltVaultIsWhole ==
    rebase.pc = "done" =>
        /\ rebase.seen \ slipped \subseteq rebase.has \union Queued(rebase.plan)
        /\ rebase.has \intersect Queued(rebase.plan) \subseteq Accepted(rebase.head)
        /\ Accepted(rebase.head) \subseteq rebase.has
        /\ \A i, j \in DOMAIN rebase.replayed : i < j => rebase.replayed[i] < rebase.replayed[j]
=============================================================================
