---------------------------- MODULE MCSyncRebase ----------------------------
(***************************************************************************)
(* Model values and initial states for SyncRebase: one contested row; runs  *)
(* start with Sync off, or in the middle of a rebase with every shape an    *)
(* outbox of MaxLocal commands can have.                                    *)
(***************************************************************************)
EXTENDS SyncRebase

CONSTANTS account

Shapes ==
    {s \in [Locals -> Commands] :
        \A c \in Locals : /\ s[c].group \in {c} \union {s[d].group : d \in 1 .. c - 1}
                          /\ s[c].cause \in {None} \union 1 .. c - 1}

\* The first image was captured on the empty vault and the service has one entry since.
FullOutbox ==
    /\ \E s \in Shapes : cmd = s
    /\ done = Locals /\ outbox = Locals /\ slipped = {}
    /\ row = [seq |-> 0, digest |-> 1, state |-> "Ready"]
    /\ image = [digest |-> 1, has |-> {}]
    /\ temp = None /\ capture = Resting
    /\ images = MaxImages
    /\ \E w \in SUBSET Rows : server = <<[id |-> MaxLocal + 1, rows |-> w]>>
    /\ known = 0
    /\ open = TRUE
    /\ backup = None
    /\ rebase = [NoRebase EXCEPT !.pc = "pull", !.base = 0]

MCSpec == (Init \/ FullOutbox) /\ [][Next]_vars
=============================================================================
