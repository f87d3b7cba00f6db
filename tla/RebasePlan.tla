----------------------------- MODULE RebasePlan -----------------------------
(***************************************************************************)
(* The rebase plan: which unpushed commands are re-applied on the new base  *)
(* and which are queued for the person.  A command is its place in the      *)
(* local order; shape gives its correlation group, its cause and the rows   *)
(* it wrote.                                                                *)
(*                                                                          *)
(* Source: crates/db-worker/src/rebase/plan.rs.                             *)
(***************************************************************************)
EXTENDS Integers, FiniteSets, FiniteSetsExt

Replay == [queued |-> FALSE]
Queue(why, root, reason) == [queued |-> TRUE, why |-> why, root |-> root, reason |-> reason]

\* The rule for one command on its own: an invalid one is an edit, touched or not.
AutoIff(c, untouched, valid) ==
    CASE ~valid -> Queue("invalid", c, "queue_edit")
      [] valid /\ ~untouched -> Queue("touched", c, "queue_choose")
      [] OTHER -> Replay

\* Mutant: only the commands it caused.
Pulls_CauseOnly(shape, c, other) == shape[other].cause = c

\* Queueing c pulls in its correlation siblings and the commands it caused.
Pulls(shape, c, other) == shape[other].group = shape[c].group \/ shape[other].cause = c

\* What the frontier that starts at root reaches among the commands not disposed of yet.
Frontier(outbox, shape, root, free) ==
    LET reached[k \in 0 .. Cardinality(outbox)] ==
            IF k = 0 THEN {root}
            ELSE reached[k - 1] \union
                     {o \in free : \E c \in reached[k - 1] : Pulls(shape, c, o)}
    IN  reached[Cardinality(outbox)]

\* plan(): the rule for each command, then the closure root by root in local order.
Plan(outbox, shape, touched, invalid) ==
    LET own == [c \in outbox |->
                  AutoIff(c, shape[c].rows \intersect touched = {}, c \notin invalid)]
        last == Max(outbox \union {0})
        closed[k \in 0 .. last] ==
            IF k = 0 THEN own
            ELSE LET plan == closed[k - 1]
                     free == {o \in outbox : ~plan[o].queued}
                 IN  IF k \notin outbox \/ (k \in outbox /\ ~own[k].queued) THEN plan
                     ELSE LET new == free \intersect Frontier(outbox, shape, k, free)
                          IN  [c \in outbox |-> IF c \in new
                                                THEN Queue("closure", k, own[k].reason)
                                                ELSE plan[c]]
    IN  closed[last]

Queued(plan) == {c \in DOMAIN plan : plan[c].queued}

(***************************************************************************)
(* What the plan promises, without the frontier: the least set that holds   *)
(* the conflicting commands and is closed under Pulls.                      *)
(***************************************************************************)
Closed(outbox, shape, set) ==
    \A c \in set, o \in outbox :
        shape[o].group = shape[c].group \/ shape[o].cause = c => o \in set

LeastClosure(outbox, shape, roots) ==
    {c \in outbox : \A set \in SUBSET outbox :
        roots \subseteq set /\ Closed(outbox, shape, set) => c \in set}

\* Every queued command names a command in conflict that pulls it in, and is offered the
\* outcome of that conflict.
WellRooted(outbox, shape, roots, invalid, plan) ==
    \A c \in Queued(plan) :
        /\ plan[c].root \in roots
        /\ c \in LeastClosure(outbox, shape, {plan[c].root})
        /\ plan[c].reason = IF plan[c].root \in invalid THEN "queue_edit" ELSE "queue_choose"
=============================================================================
