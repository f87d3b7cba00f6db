---------------------------- MODULE AtomicVault ----------------------------
(***************************************************************************)
(* What a vault promises about its key, whatever happens to the files: it   *)
(* has one key and the rows that were written to it; a write adds a row,    *)
(* and a rotation replaces the key by a fresh one, in one step, and changes *)
(* no row.                                                                  *)
(***************************************************************************)
EXTENDS Naturals

CONSTANTS Docs, MaxKeys

VARIABLES
    key,   \* the key that opens the vault
    rows   \* what it holds

vars == <<key, rows>>

Init == key = 1 /\ rows = {}

Write(doc) == doc \notin rows /\ rows' = rows \cup {doc} /\ UNCHANGED key

\* Keys of rotations that were given up are never used.
Rotate(fresh) == fresh > key /\ key' = fresh /\ UNCHANGED rows

Next == \/ \E doc \in Docs : Write(doc)
        \/ \E fresh \in 1..MaxKeys : Rotate(fresh)

Spec == Init /\ [][Next]_vars
=============================================================================
