----------------------------- MODULE AppendOnce -----------------------------
(***************************************************************************)
(* What the log of a synced vault promises about a command, whatever is     *)
(* retried, delayed, lost or sealed again: it is appended at most once, no  *)
(* second command takes its idempotency key, and the machine that issued it *)
(* is told, once and for good, the position where the very bytes it saved   *)
(* are.                                                                     *)
(***************************************************************************)
EXTENDS Naturals, Sequences

CONSTANTS
    Commands,
    Unknown

VARIABLES
    tag,       \* the idempotency key of each command
    saved,     \* the envelope of each command its machine saved last
    accepted,  \* the log
    told       \* for each command, the position its machine was told

vars == <<tag, saved, accepted, told>>

Init ==
    /\ accepted = <<>>
    /\ saved = [c \in Commands |-> Unknown]
    /\ told = [c \in Commands |-> Unknown]

\* The machine saves an envelope of a command, or gives the saved one up.
Save(c) ==
    /\ told[c] = Unknown
    /\ saved' = [saved EXCEPT ![c] = saved'[c]]
    /\ UNCHANGED <<tag, accepted, told>>

\* One envelope more.  The answer may reach the machine whose bytes these are at once.
Accept(c) ==
    /\ \A i \in DOMAIN accepted : tag[accepted[i].command] # tag[c]
    /\ Len(accepted') = Len(accepted) + 1
    /\ LET envelope == accepted'[Len(accepted')]
       IN  /\ envelope.command = c
           /\ accepted' = Append(accepted, envelope)
           /\ \/ UNCHANGED told
              \/ /\ told[c] = Unknown /\ saved[c] = envelope
                 /\ told' = [told EXCEPT ![c] = Len(accepted')]
    /\ UNCHANGED <<tag, saved>>

Tell(c) ==
    /\ told[c] = Unknown
    /\ \E i \in DOMAIN accepted :
        accepted[i] = saved[c] /\ told' = [told EXCEPT ![c] = i]
    /\ UNCHANGED <<tag, saved, accepted>>

Next == \E c \in Commands : Save(c) \/ Accept(c) \/ Tell(c)

Spec == Init /\ [][Next]_vars
=============================================================================
