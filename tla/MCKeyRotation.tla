--------------------------- MODULE MCKeyRotation ---------------------------
(* Model values for KeyRotation: processes and attachments. *)
EXTENDS KeyRotation

CONSTANTS p1, p2, d1, d2

(***************************************************************************)
(* A second process starts once the crashes and the failing operations are  *)
(* spent.  They can be spent before anything else happens, so every         *)
(* interleaving of two processes without a fault is among them.  A crash    *)
(* beside a second process is another run's.                                *)
(***************************************************************************)
SecondIsLate == p2 \in Procs /\ ctl[p2].pc # "off" => crashes = MaxCrashes /\ faults = MaxFaults
=============================================================================
