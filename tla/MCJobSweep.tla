----------------------------- MODULE MCJobSweep -----------------------------
(* Model values for JobSweep: the backup job and a job without a handler. *)
EXTENDS JobSweep

CONSTANTS backup, other

ASSUME backup # other
=============================================================================
