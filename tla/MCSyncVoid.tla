----------------------------- MODULE MCSyncVoid -----------------------------
(***************************************************************************)
(* Model values and logs for SyncVoid: two envelopes, one of them poisoned, *)
(* and two voids in every order that begins with an envelope.  A void names *)
(* either envelope; it has an id of its own, or is the other void again; of *)
(* two voids one is truthful.                                               *)
(***************************************************************************)
EXTENDS SyncVoid

Builds == {1, 2}

MCEnvelopes ==
    {[kind |-> "envelope", version |-> 1, verdict |-> v] : v \in {"valid", "receiver", "apply"}}
        \union {[kind |-> "envelope", version |-> 2, verdict |-> "valid"]}

Pairs(first, second) ==
    LET at == {first, second}
        others == Positions \ at
        envelopes == {e \in [others -> MCEnvelopes] : \E p \in others : e[p].verdict # "valid"}
        names == {n \in [at -> {"same", "command", "digest"}] : \E p \in at : n[p] = "same"}
        void(id, t, n) == [kind |-> "void", id |-> id, target |-> t, names |-> n]
    IN  {[p \in Positions |-> IF p \in at THEN void(p, t[p], n[p]) ELSE e[p]] :
            e \in envelopes, t \in [at -> others], n \in names}
        \union
        {[p \in Positions |-> IF p \in at THEN void(first, t, n) ELSE e[p]] :
            e \in envelopes, t \in others, n \in {"same", "command", "digest"}}

MCLogs == Pairs(2, 3) \union Pairs(2, 4) \union Pairs(3, 4)
=============================================================================
