------------------------------ MODULE MCTouchId ------------------------------
(* Model values for TouchId: two attempts, which are interchangeable. *)
EXTENDS TouchId, TLC

CONSTANTS a1, a2

AttemptSymmetry == Permutations(Attempts)
=============================================================================
