----------------------------- MODULE MCSyncPush -----------------------------
EXTENDS SyncPush, TLC
CONSTANTS d1, d2, d3, d4, m1, m2, a, b, t1, t2

MCFirst == m1 :> d1 @@ m2 :> d2
MCHome == a :> m1 @@ b :> m2

\* d1 founds the vault and adds d2 and d3.
Step(v, d) == [version |-> v, action |-> "add", device |-> d, signer |-> d1]
Grant(v, d) == [place |-> v, reason |-> IF v = 1 THEN "genesis" ELSE "grant", epoch |-> 1,
                key |-> 1, head |-> v, sealer |-> d1, recipients |-> {d}]
MCStart == [steps  |-> <<Step(1, d1), Step(2, d2), Step(3, d3)>>,
            epochs |-> <<Grant(1, d1), Grant(2, d2), Grant(3, d3)>>]

TagSymmetry == Permutations(Tags)
=============================================================================
