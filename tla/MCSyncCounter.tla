--------------------------- MODULE MCSyncCounter ---------------------------
(* Model values for SyncCounter: callers, snapshot ids and contents are alike. *)
EXTENDS SyncCounter, TLC

Alike == Permutations(Callers) \union Permutations(Objects) \union Permutations(Contents)
=============================================================================
