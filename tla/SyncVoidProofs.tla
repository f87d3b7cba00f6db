--------------------------- MODULE SyncVoidProofs ---------------------------
(***************************************************************************)
(* Proofs about voids, for every log, every length of the log and every set *)
(* of engine versions: the honored ranges are ascending and disjoint, they  *)
(* and the frontier are the ones the log decides, and a truthful void is    *)
(* heard.                                                                   *)
(*                                                                         *)
(* What the log decides is a recursion over its positions.  It is reasoned  *)
(* about as a least set: by the least number principle the recursion has a  *)
(* solution, and what holds of the first position and of the position a     *)
(* replica goes on at holds of every frontier.                              *)
(***************************************************************************)
EXTENDS SyncVoid, FiniteSetTheorems, WellFoundedInduction, TLAPS

-----------------------------------------------------------------------------
(* What the log decides. *)

\* Every set of numbers has a least member.
LEMMA LeastNumber ==
    ASSUME NEW T \in SUBSET Nat, T # {}
    PROVE  \E n \in T : \A m \in T : n <= m
<1>1. PICK n \in T : \A m \in T : ~(<<m, n>> \in OpToRel(<, Nat))
  BY WFMin, NatLessThanWellFounded
<1>2. \A m \in T : ~(m < n)
  BY <1>1 DEF OpToRel
<1> QED BY <1>2

LEMMA FirstIsLeast ==
    ASSUME NEW S \in SUBSET Positions, S # {}
    PROVE  First(S) \in S /\ \A w \in S : First(S) <= w
<1>1. S \in SUBSET Nat
  BY VoidAssumption DEF Positions
<1> QED BY <1>1, LeastNumber DEF First

\* The records of the log have their fields.
LEMMA LogFields ==
    ASSUME log \in Logs, NEW k \in Positions
    PROVE  /\ k \in Nat /\ k <= MaxSeq /\ k >= 1
           /\ IsVoid(k) => /\ log[k].id \in Positions /\ log[k].target \in Positions
                           /\ log[k].names \in {"same", "command", "digest"}
<1>1. log \in Seq(Envelopes \union Voids) /\ Len(log) = MaxSeq
  BY VoidAssumption
<1>2. log[k] \in Envelopes \union Voids /\ k \in Nat /\ k <= MaxSeq /\ k >= 1
  BY <1>1, VoidAssumption DEF Positions
<1>3. IsVoid(k) => log[k] \notin Envelopes
  BY DEF IsVoid, Envelopes
<1> QED BY <1>2, <1>3 DEF Voids

\* A replica goes on behind the position, over a poisoned one to the first truthful void.
LEMMA BeyondGrows ==
    ASSUME log \in Logs, NEW k \in Positions
    PROVE  /\ Beyond(k) = 0 \/ Beyond(k) \in k + 1 .. MaxSeq + 1
           /\ ~Poisoned(k) => Beyond(k) = k + 1
           /\ Poisoned(k) /\ Beyond(k) # 0 =>
                 Beyond(k) \in Genuine(k) /\ \A w \in Genuine(k) : Beyond(k) <= w
           /\ Genuine(k) \subseteq Positions
<1>1. MaxSeq \in Nat /\ k \in Nat /\ k <= MaxSeq /\ k >= 1
  BY VoidAssumption, LogFields
<1>2. Genuine(k) \subseteq Positions /\ Genuine(k) \subseteq k + 1 .. MaxSeq
  BY <1>1 DEF Genuine, Positions
<1>3. CASE ~Poisoned(k)
  BY <1>1, <1>2, <1>3 DEF Beyond
<1>4. CASE Poisoned(k) /\ Genuine(k) = {}
  BY <1>1, <1>4 DEF Beyond
<1>5. CASE Poisoned(k) /\ Genuine(k) # {}
  <2>1. Beyond(k) = First(Genuine(k))
    BY <1>5 DEF Beyond
  <2>2. First(Genuine(k)) \in Genuine(k) /\ \A w \in Genuine(k) : First(Genuine(k)) <= w
    BY <1>2, <1>5, FirstIsLeast
  <2>3. First(Genuine(k)) \in k + 1 .. MaxSeq + 1
    BY <1>1, <1>2, <2>2
  <2> QED BY <1>2, <1>5, <2>1, <2>2, <2>3
<1> QED BY <1>3, <1>4, <1>5

\* The recursion that defines Frontiers has a solution.
LEMMA FrontiersDefined ==
    \E to : /\ Frontiers = to[MaxSeq] \ {0}
            /\ to = [n \in 0 .. MaxSeq |->
                     IF n = 0 THEN {1}
                     ELSE to[n - 1] \union {Beyond(k) : k \in to[n - 1] \intersect Positions}]
<1> DEFINE Body(f, n) ==
              IF n = 0 THEN {1} ELSE f[n - 1] \union {Beyond(k) : k \in f[n - 1] \intersect Positions}
           Defined(m) == \E f : f = [n \in 0 .. m |-> Body(f, n)]
           to[n \in 0 .. MaxSeq] == 
            IF n = 0 THEN {1}
            ELSE LET before == to[n - 1]
                 IN  before \union {Beyond(k) : k \in before \intersect Positions}
           Missing == {m \in Nat : ~Defined(m)}
<1>1. Missing = {}
  <2> SUFFICES ASSUME Missing # {} PROVE FALSE
    OBVIOUS
  <2>1. PICK m \in Missing : \A k \in Missing : m <= k
    <3> HIDE DEF Missing
    <3> QED BY LeastNumber DEF Missing
  <2>2. CASE m = 0
    <3> DEFINE f == [n \in 0 .. 0 |-> {1}]
    <3>1. f = [n \in 0 .. 0 |-> Body(f, n)]
      OBVIOUS
    <3> QED BY <2>1, <2>2, <3>1
  <2>3. CASE m # 0
    <3>1. m \in Nat /\ m - 1 \in Nat /\ m - 1 \notin Missing
      <4>1. m \in Nat /\ \A k \in Missing : m <= k
        BY <2>1
      <4> HIDE DEF Missing
      <4> QED BY <2>3, <4>1
    <3>2. PICK f : f = [n \in 0 .. m - 1 |-> Body(f, n)]
      BY <3>1
    <3> DEFINE g == [n \in 0 .. m |-> Body(f, n)]
    <3> HIDE DEF Body
    <3>3. \A n \in 0 .. m - 1 : g[n] = f[n]
      <4> SUFFICES ASSUME NEW n \in 0 .. m - 1 PROVE g[n] = f[n]
        OBVIOUS
      <4>1. f[n] = Body(f, n)
        BY <3>2
      <4> QED BY <3>1, <4>1
    <3>4. \A n \in 0 .. m : Body(g, n) = Body(f, n)
      <4> SUFFICES ASSUME NEW n \in 0 .. m PROVE Body(g, n) = Body(f, n)
        OBVIOUS
      <4> HIDE DEF g
      <4>1. n # 0 => n - 1 \in 0 .. m - 1
        BY <3>1
      <4> HIDE DEF Missing
      <4>2. n # 0 => g[n - 1] = f[n - 1]
        BY <3>3, <4>1
      <4> QED BY <4>2 DEF Body
    <3>5. g = [n \in 0 .. m |-> Body(g, n)]
      BY <3>4
    <3> QED BY <2>1, <3>5
  <2> QED BY <2>2, <2>3
<1>2. MaxSeq \in Nat
  BY VoidAssumption
<1>3. Defined(MaxSeq)
  BY <1>1, <1>2
<1>4. Frontiers = to[MaxSeq] \ {0}
  BY DEF Frontiers
<1>5. to = [n \in 0 .. MaxSeq |-> Body(to, n)]
  BY <1>3
<1> QED BY <1>4, <1>5

\* Frontiers is the least set with the first position that goes on where the log says.
LEMMA FrontiersLeast ==
    ASSUME log \in Logs
    PROVE  /\ Frontiers \subseteq 1 .. MaxSeq + 1
           /\ 1 \in Frontiers
           /\ \A k \in Frontiers \intersect Positions : Beyond(k) # 0 => Beyond(k) \in Frontiers
           /\ \A S : (/\ 1 \in S
                      /\ \A k \in S \intersect Positions : Beyond(k) # 0 => Beyond(k) \in S)
                     => Frontiers \subseteq S
<1> DEFINE Grown(s) == s \union {Beyond(k) : k \in s \intersect Positions}
<1>1. PICK to : /\ Frontiers = to[MaxSeq] \ {0}
                /\ to = [n \in 0 .. MaxSeq |-> IF n = 0 THEN {1} ELSE Grown(to[n - 1])]
  BY FrontiersDefined
<1>2. MaxSeq \in Nat /\ Frontiers = to[MaxSeq] \ {0} /\ MaxSeq \in 0 .. MaxSeq
  BY <1>1, VoidAssumption
<1>3. to[0] = {1} /\ \A n \in 1 .. MaxSeq : to[n] = Grown(to[n - 1])
  <2>1. 0 \in 0 .. MaxSeq /\ \A n \in 1 .. MaxSeq : n \in 0 .. MaxSeq /\ n # 0
    BY <1>2
  <2>2. \A n \in 0 .. MaxSeq : to[n] = IF n = 0 THEN {1} ELSE Grown(to[n - 1])
    BY <1>1
  <2> HIDE DEF Grown
  <2> QED BY <2>1, <2>2
<1>4. \A k \in Positions : Beyond(k) = 0 \/ Beyond(k) \in k + 1 .. MaxSeq + 1
  BY BeyondGrows
<1>5. \A k \in Positions : k \in 1 .. MaxSeq
  BY DEF Positions
\* What is taken at step n is taken in every set that is closed.
<1>6. ASSUME NEW S, 1 \in S, \A k \in S \intersect Positions : Beyond(k) # 0 => Beyond(k) \in S
      PROVE  Frontiers \subseteq S
  <2> DEFINE T == {n \in 0 .. MaxSeq : ~(to[n] \ {0} \subseteq S)}
  <2>1. SUFFICES ASSUME T # {} PROVE FALSE
    BY <1>2
  <2>2. T \in SUBSET Nat
    OBVIOUS
  <2>3. PICK n \in T : \A m \in T : n <= m
    <3> HIDE DEF T
    <3> QED BY <2>1, <2>2, LeastNumber
  <2>4. n # 0
    BY <1>3, <1>6, <2>3
  <2>5. n \in 1 .. MaxSeq /\ n - 1 \in 0 .. MaxSeq /\ ~(n <= n - 1)
    BY <1>2, <2>3, <2>4
  <2>6. to[n - 1] \ {0} \subseteq S
    BY <2>3, <2>5
  <2>7. \A j \in to[n] : j # 0 => j \in S
    <3> SUFFICES ASSUME NEW j \in to[n], j # 0 PROVE j \in S
      OBVIOUS
    <3>1. CASE j \in to[n - 1]
      BY <2>6, <3>1
    <3>2. ASSUME NEW k \in to[n - 1] \intersect Positions, j = Beyond(k) PROVE j \in S
      <4>1. k # 0
        BY <1>5
      <4> QED BY <1>6, <2>6, <3>2, <4>1
    <3> QED BY <1>3, <2>5, <3>1, <3>2
  <2> QED BY <2>3, <2>7
\* What enters at step n is beyond n.
<1>7. \A n \in 1 .. MaxSeq : \A j \in to[n] : j = 0 \/ j \in to[n - 1] \/ (j \in Nat /\ j >= n + 1)
  <2> DEFINE Late(n) == \A j \in to[n] : j = 0 \/ j \in to[n - 1] \/ (j \in Nat /\ j >= n + 1)
             T == {n \in 1 .. MaxSeq : ~Late(n)}
  <2>1. SUFFICES ASSUME T # {} PROVE FALSE
    OBVIOUS
  <2>2. T \in SUBSET Nat
    OBVIOUS
  <2>3. PICK n \in T : \A m \in T : n <= m
    <3> HIDE DEF T
    <3> QED BY <2>1, <2>2, LeastNumber
  <2>4. n \in 1 .. MaxSeq /\ ~Late(n)
    BY <2>3
  <2>5. n # 1 => n - 1 \in 1 .. MaxSeq /\ ~(n <= n - 1) /\ to[n - 1] = Grown(to[n - 2])
    <3> HIDE DEF Late, Grown
    <3>1. n \in Int /\ (n # 1 => n - 1 \in 1 .. MaxSeq /\ (n - 1) - 1 = n - 2)
      BY <1>2, <2>4
    <3> QED BY <1>3, <2>4, <3>1
  <2>6. n # 1 => Late(n - 1) /\ (n - 1) - 1 = n - 2 /\ (n - 1) + 1 = n
    <3>1. n # 1 => n - 1 \notin T
      <4> HIDE DEF T
      <4> QED BY <2>3, <2>5
    <3>2. n # 1 => Late(n - 1)
      <4> HIDE DEF Late
      <4> QED BY <2>5, <3>1
    <3> QED BY <1>2, <2>4, <3>2
  <2>7. ASSUME NEW j \in to[n], j # 0, j \notin to[n - 1] PROVE j \in Nat /\ j >= n + 1
    <3>1. PICK k \in to[n - 1] \intersect Positions : j = Beyond(k)
      BY <1>3, <2>4, <2>7
    <3>2. k \in Nat /\ k >= 1 /\ j \in Nat /\ j >= k + 1
      BY <1>2, <1>4, <1>5, <2>7, <3>1
    <3>3. CASE n = 1
      BY <1>3, <3>1, <3>2, <3>3
    <3>4. CASE n # 1
      <4>1. k \notin to[n - 2]
        BY <2>5, <2>7, <3>1, <3>4
      <4>2. k >= n
        BY <2>6, <3>1, <3>2, <3>4, <4>1
      <4> QED BY <2>4, <3>2, <4>2
    <3> QED BY <3>3, <3>4
  <2> QED BY <2>4, <2>7
<1>8. ASSUME NEW k \in Frontiers \intersect Positions, Beyond(k) # 0 PROVE Beyond(k) \in Frontiers
  <2>1. MaxSeq \in 1 .. MaxSeq /\ k \in Nat /\ k <= MaxSeq /\ k # 0
    BY <1>2, <1>5, <1>8
  <2>2. k \in to[MaxSeq - 1]
    BY <1>2, <1>7, <1>8, <2>1
  <2>3. Beyond(k) \in to[MaxSeq]
    BY <1>3, <1>8, <2>1, <2>2
  <2> QED BY <1>2, <1>8, <2>3
<1>9. Frontiers \subseteq 1 .. MaxSeq + 1
  <2>1. 1 \in 1 .. MaxSeq + 1
    BY <1>2
  <2>2. \A k \in (1 .. MaxSeq + 1) \intersect Positions : Beyond(k) # 0 => Beyond(k) \in 1 .. MaxSeq + 1
    BY <1>2, <1>4, <1>5
  <2> QED BY <1>6, <2>1, <2>2
<1>10. 1 \in Frontiers
  <2> DEFINE T == {n \in 0 .. MaxSeq : 1 \notin to[n]}
  <2>1. T = {}
    <3>1. SUFFICES ASSUME T # {} PROVE FALSE
      OBVIOUS
    <3>2. PICK n \in T : \A m \in T : n <= m
      <4>1. T \in SUBSET Nat
        OBVIOUS
      <4> HIDE DEF T
      <4> QED BY <3>1, <4>1, LeastNumber
    <3>3. n # 0 /\ n \in 0 .. MaxSeq /\ 1 \notin to[n]
      BY <1>3, <3>2
    <3>4. n \in 1 .. MaxSeq /\ n - 1 \in 0 .. MaxSeq /\ ~(n <= n - 1)
      BY <1>2, <3>3
    <3>5. 1 \in to[n - 1]
      BY <3>2, <3>4
    <3> QED BY <1>3, <3>3, <3>4, <3>5
  <2> QED BY <1>2, <2>1
<1> QED BY <1>6, <1>8, <1>9, <1>10

-----------------------------------------------------------------------------
(* The frontiers are taken in order, and what is skipped below one grows with it. *)

LEMMA FrontierOrder ==
    ASSUME log \in Logs, NEW f \in Frontiers, NEW g \in Frontiers, g < f
    PROVE  Beyond(g) # 0 /\ Beyond(g) <= f
<1> DEFINE Reached(x) == \A y \in Frontiers : y < x => Beyond(y) # 0 /\ Beyond(y) <= x
           S == {x \in Frontiers : Reached(x)}
<1>1. /\ Frontiers \subseteq 1 .. MaxSeq + 1 /\ MaxSeq \in Nat
      /\ 1 \in Frontiers
      /\ \A k \in Frontiers \intersect Positions : Beyond(k) # 0 => Beyond(k) \in Frontiers
  BY FrontiersLeast, VoidAssumption
<1>2. \A k \in Positions : k \in 1 .. MaxSeq /\ (Beyond(k) = 0 \/ Beyond(k) \in k + 1 .. MaxSeq + 1)
  BY BeyondGrows DEF Positions
<1>3. 1 \in S
  BY <1>1
<1>4. ASSUME NEW k \in S \intersect Positions, Beyond(k) # 0 PROVE Beyond(k) \in S
  <2> DEFINE b == Beyond(k)
             U == {x \in Frontiers : x <= k \/ x >= b}
  <2>1. /\ k \in Nat /\ b \in Nat /\ b > k /\ b \in Frontiers /\ k \in Frontiers /\ Reached(k)
        /\ Frontiers \subseteq Nat
    BY <1>1, <1>2, <1>4
  <2> HIDE DEF b
  <2>2. 1 \in U
    BY <1>1, <1>2, <1>4
  <2>3. ASSUME NEW j \in U \intersect Positions, Beyond(j) # 0 PROVE Beyond(j) \in U
    <3>1. j \in Nat /\ j \in Frontiers /\ Beyond(j) \in Frontiers /\ Beyond(j) \in Nat /\ Beyond(j) > j
      BY <1>1, <1>2, <2>1, <2>3
    <3>2. CASE j < k
      BY <2>1, <3>1, <3>2
    <3>3. CASE j = k
      BY <2>1, <3>1, <3>3 DEF b
    <3>4. CASE j >= b
      BY <2>1, <3>1, <3>4
    <3> QED BY <2>1, <2>3, <3>1, <3>2, <3>3, <3>4
  <2>4. Frontiers \subseteq U
    <3> HIDE DEF U
    <3> QED BY <2>2, <2>3, FrontiersLeast
  <2>5. ASSUME NEW y \in Frontiers, y < b PROVE Beyond(y) # 0 /\ Beyond(y) <= b
    <3>1. y <= k /\ y \in Nat
      BY <2>1, <2>4, <2>5
    <3>2. CASE y = k
      BY <1>4, <2>1, <3>2 DEF b
    <3>3. CASE y < k
      <4>1. Beyond(y) # 0 /\ Beyond(y) <= k
        BY <2>1, <2>5, <3>3
      <4>2. y \in Positions
        BY <1>1, <1>4, <3>1, <3>3 DEF Positions
      <4>3. Beyond(y) \in Nat
        BY <1>2, <4>1, <4>2
      <4> QED BY <2>1, <4>1, <4>3
    <3> QED BY <2>1, <3>1, <3>2, <3>3
  <2> QED BY <2>1, <2>5 DEF b
<1>5. Frontiers \subseteq S
  <2> HIDE DEF S
  <2> QED BY <1>3, <1>4, FrontiersLeast
<1> QED BY <1>5

\* The range a replica skips at position k.
Hole(k) == [id |-> log[Beyond(k)].id, first |-> k, last |-> Beyond(k) - 1]

LEMMA HoleIsRange ==
    ASSUME log \in Logs, NEW k \in Positions, Poisoned(k), Beyond(k) # 0
    PROVE  /\ Hole(k) \in Ranges /\ Hole(k).first = k /\ Hole(k).last = Beyond(k) - 1
           /\ k <= Beyond(k) - 1
<1>1. Beyond(k) \in Genuine(k) /\ Genuine(k) \subseteq Positions /\ Beyond(k) \in k + 1 .. MaxSeq + 1
  BY BeyondGrows
<1>2. IsVoid(Beyond(k)) /\ Beyond(k) \in Positions
  BY <1>1 DEF Genuine
<1>3. log[Beyond(k)].id \in Positions
  BY <1>2, LogFields
<1>4. MaxSeq \in Nat /\ k \in Nat /\ k >= 1 /\ Beyond(k) \in Nat /\ Beyond(k) <= MaxSeq
  BY <1>2, LogFields, VoidAssumption
<1>5. Beyond(k) - 1 \in Positions /\ k <= Beyond(k) - 1
  BY <1>1, <1>4 DEF Positions
<1> QED BY <1>3, <1>5 DEF Hole, Ranges

LEMMA SkippedIs ==
    ASSUME log \in Logs, NEW f \in Frontiers
    PROVE  /\ SkippedBelow(f) =
                {Hole(k) : k \in {j \in Frontiers : j < f /\ Poisoned(j) /\ Beyond(j) # 0}}
           /\ f \in Nat /\ f >= 1
           /\ \A j \in Frontiers : j < f => j \in Positions
           /\ \A r \in SkippedBelow(f) : r \in Ranges /\ r.first <= r.last /\ r.last < f
<1>1. SkippedBelow(f) = {Hole(k) : k \in {j \in Frontiers : j < f /\ Poisoned(j) /\ Beyond(j) # 0}}
  BY DEF SkippedBelow, Hole
<1>2. MaxSeq \in Nat /\ Frontiers \subseteq 1 .. MaxSeq + 1
  BY FrontiersLeast, VoidAssumption
<1>3. f \in Nat /\ f >= 1 /\ \A j \in Frontiers : j < f => j \in Positions
  BY <1>2 DEF Positions
<1>4. ASSUME NEW j \in Frontiers, j < f, Poisoned(j), Beyond(j) # 0
      PROVE  Hole(j) \in Ranges /\ Hole(j).first <= Hole(j).last /\ Hole(j).last < f
  <2>1. j \in Positions
    BY <1>3, <1>4
  <2>2. Beyond(j) <= f
    BY <1>4, FrontierOrder
  <2>3. Beyond(j) \in Nat /\ j \in Nat
    BY <1>4, <2>1, BeyondGrows, LogFields, VoidAssumption
  <2> QED BY <1>3, <1>4, <2>1, <2>2, <2>3, HoleIsRange
<1> QED BY <1>1, <1>3, <1>4

\* One position on, a poisoned position adds its range, any other nothing.
LEMMA SkippedStep ==
    ASSUME log \in Logs, NEW f \in Frontiers \intersect Positions, Beyond(f) # 0
    PROVE  /\ Beyond(f) \in Frontiers
           /\ SkippedBelow(Beyond(f)) = SkippedBelow(f) \union (IF Poisoned(f) THEN {Hole(f)} ELSE {})
<1>1. Beyond(f) \in Frontiers
  BY FrontiersLeast
<1>2. Frontiers \subseteq Nat /\ f \in Nat /\ Beyond(f) \in Nat /\ f < Beyond(f)
  BY BeyondGrows, FrontiersLeast, LogFields, VoidAssumption
<1>3. \A j \in Frontiers : j < Beyond(f) <=> j < f \/ j = f
  <2> SUFFICES ASSUME NEW j \in Frontiers, j > f PROVE ~(j < Beyond(f))
    BY <1>2
  <2>1. Beyond(f) <= j
    BY FrontierOrder
  <2> QED BY <1>2, <2>1
<1>4. /\ SkippedBelow(f) =
            {Hole(k) : k \in {j \in Frontiers : j < f /\ Poisoned(j) /\ Beyond(j) # 0}}
      /\ SkippedBelow(Beyond(f)) =
            {Hole(k) : k \in {j \in Frontiers : j < Beyond(f) /\ Poisoned(j) /\ Beyond(j) # 0}}
  BY <1>1, SkippedIs
<1> QED BY <1>1, <1>3, <1>4

-----------------------------------------------------------------------------
(* The ledger of a snapshot. *)

\* A range that begins behind every range of a ledger extends it.
LEMMA LedgerGrows ==
    ASSUME NEW l \in Seq(Ranges), IsLedger(l), NEW r \in Ranges, r.first <= r.last,
           \A i \in DOMAIN l : l[i].last < r.first
    PROVE  /\ Append(l, r) \in Seq(Ranges) /\ IsLedger(Append(l, r))
           /\ {Append(l, r)[i] : i \in DOMAIN Append(l, r)} = {l[i] : i \in DOMAIN l} \union {r}
<1> DEFINE m == Append(l, r)
<1>1. /\ m \in Seq(Ranges) /\ DOMAIN m = 1 .. Len(l) + 1 /\ DOMAIN l = 1 .. Len(l)
      /\ Len(l) \in Nat
      /\ \A i \in 1 .. Len(l) : m[i] = l[i]
      /\ m[Len(l) + 1] = r
  OBVIOUS
<1> HIDE DEF m
<1>2. \A i \in DOMAIN m : m[i].first <= m[i].last
  BY <1>1 DEF IsLedger
<1>3. \A i, j \in DOMAIN m : i < j => m[i].last < m[j].first
  <2> SUFFICES ASSUME NEW i \in DOMAIN m, NEW j \in DOMAIN m, i < j
               PROVE  m[i].last < m[j].first
    OBVIOUS
  <2>1. i \in DOMAIN l
    BY <1>1
  <2>2. CASE j \in DOMAIN l
    BY <1>1, <2>1, <2>2 DEF IsLedger
  <2>3. CASE j = Len(l) + 1
    BY <1>1, <2>1, <2>3
  <2> QED BY <1>1, <2>2, <2>3
<1>4. {m[i] : i \in DOMAIN m} = {l[i] : i \in DOMAIN l} \union {r}
  <2>1. 1 .. Len(l) + 1 = (1 .. Len(l)) \union {Len(l) + 1}
    BY <1>1
  <2> QED BY <1>1, <2>1
<1> QED BY <1>1, <1>2, <1>3, <1>4 DEF m, IsLedger

Holds(l, f) ==
    l \in Seq(Ranges) /\ IsLedger(l) /\ {l[i] : i \in DOMAIN l} = SkippedBelow(f)

\* Whatever is skipped below a frontier can be written as a ledger.
LEMMA LedgerExists ==
    ASSUME log \in Logs, NEW f \in Frontiers
    PROVE  \E l : Holds(l, f)
<1> DEFINE S == {g \in Frontiers : \E l : Holds(l, g)}
<1>1. 1 \in S
  <2>1. 1 \in Frontiers /\ \A j \in Frontiers : ~(j < 1)
    BY FrontiersLeast, VoidAssumption
  <2>2. SkippedBelow(1) = {}
    BY <2>1, SkippedIs
  <2>3. Holds(<<>>, 1)
    BY <2>2 DEF Holds, IsLedger
  <2> QED BY <2>1, <2>3
<1>2. ASSUME NEW k \in S \intersect Positions, Beyond(k) # 0 PROVE Beyond(k) \in S
  <2>1. PICK l : Holds(l, k)
    BY <1>2
  <2>2. Beyond(k) \in Frontiers
    BY <1>2, SkippedStep
  <2>3. CASE ~Poisoned(k)
    <3>1. SkippedBelow(Beyond(k)) = SkippedBelow(k)
      BY <1>2, <2>3, SkippedStep
    <3> QED BY <2>1, <2>2, <3>1 DEF Holds
  <2>4. CASE Poisoned(k)
    <3>1. SkippedBelow(Beyond(k)) = SkippedBelow(k) \union {Hole(k)}
      BY <1>2, <2>4, SkippedStep
    <3>2. Hole(k) \in Ranges /\ Hole(k).first = k /\ Hole(k).first <= Hole(k).last
      BY <1>2, <2>4, HoleIsRange
    <3>3. \A i \in DOMAIN l : l[i].last < k
      <4>1. \A r \in SkippedBelow(k) : r.last < k
        BY <1>2, SkippedIs
      <4> QED BY <2>1, <4>1 DEF Holds
    <3>4. Holds(Append(l, Hole(k)), Beyond(k))
      <4> DEFINE h == Hole(k)
      <4> HIDE DEF h
      <4>1. l \in Seq(Ranges) /\ IsLedger(l) /\ h \in Ranges /\ h.first <= h.last
        BY <2>1, <3>2 DEF Holds, h
      <4>2. \A i \in DOMAIN l : l[i].last < h.first
        BY <3>2, <3>3 DEF h
      <4>3. /\ Append(l, h) \in Seq(Ranges) /\ IsLedger(Append(l, h))
            /\ {Append(l, h)[i] : i \in DOMAIN Append(l, h)} = {l[i] : i \in DOMAIN l} \union {h}
        BY <4>1, <4>2, LedgerGrows
      <4>4. SkippedBelow(Beyond(k)) = {l[i] : i \in DOMAIN l} \union {h}
        BY <2>1, <3>1 DEF Holds, h
      <4> QED BY <4>3, <4>4 DEF Holds, h
    <3> QED BY <2>2, <3>4
  <2> QED BY <2>3, <2>4
<1>3. Frontiers \subseteq S
  <2> HIDE DEF S
  <2> QED BY <1>1, <1>2, FrontiersLeast
<1> QED BY <1>3

\* VoidLedger::encode loses nothing.
LEMMA EncodedHolds ==
    ASSUME log \in Logs, NEW f \in Frontiers
    PROVE  LET l == Encoded(SkippedBelow(f))
           IN  {l[i] : i \in DOMAIN l} = SkippedBelow(f)
<1> DEFINE R == SkippedBelow(f)
           n == Cardinality(R)
           Ordered(l) == \A i, j \in DOMAIN l : i < j => l[i].first < l[j].first
<1>1. PICK l : Holds(l, f)
  BY LedgerExists
<1>2. l \in Seq(Ranges) /\ IsLedger(l) /\ R = {l[i] : i \in DOMAIN l}
  BY <1>1 DEF Holds
<1> HIDE DEF R
<1>3. Len(l) \in Nat /\ DOMAIN l = 1 .. Len(l) /\ l \in [1 .. Len(l) -> R]
  BY <1>2
<1>4. \A i \in DOMAIN l : l[i].first \in Int /\ l[i].last \in Int /\ l[i].first <= l[i].last
  <2>1. \A i \in DOMAIN l : l[i] \in Ranges
    BY <1>2
  <2>2. \A r \in Ranges : r.first \in Int /\ r.last \in Int
    BY VoidAssumption DEF Ranges, Positions
  <2>3. \A i \in DOMAIN l : l[i].first <= l[i].last
    BY <1>2 DEF IsLedger
  <2> QED BY <2>1, <2>2, <2>3
<1>5. \A i, j \in DOMAIN l : i < j => l[i].first < l[j].first
  <2> SUFFICES ASSUME NEW i \in DOMAIN l, NEW j \in DOMAIN l, i < j
               PROVE  l[i].first < l[j].first
    OBVIOUS
  <2>1. l[i].last < l[j].first
    BY <1>2 DEF IsLedger
  <2> QED BY <1>4, <2>1
<1>6. \A i, j \in 1 .. Len(l) : l[i] = l[j] => i = j
  <2> SUFFICES ASSUME NEW i \in DOMAIN l, NEW j \in DOMAIN l, i < j PROVE l[i] # l[j]
    BY <1>3
  <2>1. l[i].first < l[j].first /\ l[i].first \in Int
    BY <1>4, <1>5
  <2> QED BY <2>1
<1>7. l \in Bijection(1 .. Len(l), R)
  <2>1. \A r \in R : \E i \in 1 .. Len(l) : l[i] = r
    BY <1>2, <1>3
  <2> QED BY <1>3, <1>6, <2>1 DEF Bijection, Injection, Surjection, IsInjective
<1>8. n = Len(l) /\ IsFiniteSet(R)
  BY <1>3, <1>7, FS_CountingElements, FS_NatBijection DEF ExistsBijection
<1> DEFINE e == Encoded(R)
<1>9. e \in [1 .. n -> R] /\ Ordered(e)
  <2>1. l \in [1 .. n -> R]
    BY <1>3, <1>8
  <2> HIDE DEF n
  <2> QED BY <1>5, <2>1 DEF Encoded, n
<1> HIDE DEF e
<1>10. \A r \in R : r.first \in Int
  BY <1>2, <1>4
<1>11. \A i, j \in 1 .. n : e[i] = e[j] => i = j
  <2> SUFFICES ASSUME NEW i \in 1 .. n, NEW j \in 1 .. n, i < j PROVE e[i] # e[j]
    BY <1>3, <1>8
  <2>1. e[i].first < e[j].first /\ e[i].first \in Int
    BY <1>9, <1>10
  <2> QED BY <2>1
<1>12. e \in Injection(1 .. n, R)
  BY <1>9, <1>11 DEF Injection, IsInjective
<1>13. IsFiniteSet(1 .. n) /\ Cardinality(1 .. n) = Cardinality(R)
  <2>1. n \in Nat /\ 1 \in Int
    BY <1>3, <1>8
  <2> HIDE DEF n
  <2>2. Cardinality(1 .. n) = IF 1 > n THEN 0 ELSE n - 1 + 1
    BY <2>1, FS_Interval
  <2> QED BY <2>1, <2>2, FS_Interval DEF n
<1>14. e \in Surjection(1 .. n, R)
  <2> HIDE DEF n
  <2> QED BY <1>8, <1>12, <1>13, FS_Injection
<1>15. {e[i] : i \in DOMAIN e} = R
  BY <1>9, <1>14 DEF Surjection
<1> QED BY <1>15 DEF e, R

-----------------------------------------------------------------------------
(* The inductive invariant. *)

\* A stop for an invalid envelope, found at the log's own envelope, is at a poisoned position.
StopIsTrue ==
    status.kind = "EnvelopeInvalid" =>
        /\ status.digest \in {"log", "shown"}
        /\ status.digest = "log" => Poisoned(status.seq)

\* The replica is where the log says, and so is the snapshot it may install.
Inv ==
    /\ log \in Logs
    /\ pulled \in 0 .. MaxSeq
    /\ next \in Frontiers /\ Holds(ledger, next)
    /\ root \in Nat /\ root < next
    /\ StopIsTrue
    /\ permit # None =>
        /\ permit.root + 1 \in Frontiers /\ permit.root \in Nat
        /\ Holds(permit.ledger, permit.root + 1)

\* What the log decides changes with the log only.
LEMMA LogKept ==
    ASSUME log' = log
    PROVE  /\ Frontiers' = Frontiers
           /\ \A l, f : Holds(l, f)' <=> Holds(l, f)
           /\ \A k : Poisoned(k)' <=> Poisoned(k)
<1>1. Frontiers' = Frontiers
  BY DEF Frontiers, Beyond, Poisoned, Genuine, IsVoid, First, Positions
<1>2. ASSUME NEW f PROVE SkippedBelow(f)' = SkippedBelow(f)
  BY <1>1 DEF SkippedBelow, Beyond, Poisoned, Genuine, IsVoid, First, Positions
<1>3. ASSUME NEW l, NEW f PROVE Holds(l, f)' <=> Holds(l, f)
  BY <1>2 DEF Holds
<1>4. ASSUME NEW k PROVE Poisoned(k)' <=> Poisoned(k)
  BY DEF Poisoned, IsVoid
<1> QED BY <1>1, <1>3, <1>4

\* observe_envelope_in_context and what it calls: a stop is where a check failed.
LEMMA ObservedIsTrue ==
    ASSUME NEW k, NEW digest \in {"log", "shown"}, NEW fails \in BOOLEAN,
           StopIsTrue, digest = "log" /\ fails => Poisoned(k),
           NEW s \in {ObserveStop(status, k, digest, fails),
                      ObserveInContext(status, k, digest, fails)},
           log' = log, status' = s
    PROVE  StopIsTrue'
<1> DEFINE stop == [kind |-> "EnvelopeInvalid", seq |-> k, digest |-> digest, wants |-> None]
<1>1. s = status \/ s.kind # "EnvelopeInvalid" \/ (fails /\ s = stop)
  <2>1. \A why, j : why \in Halts => Halted(why, j).kind # "EnvelopeInvalid"
    BY DEF Halted, Halts, Recoverable
  <2>2. \A why, j : why \in Halts =>
            Halt(status, why, j) = status \/ Halt(status, why, j).kind # "EnvelopeInvalid"
    BY <2>1 DEF Halt
  <2>3. ObserveVersion(status, k, digest) = status
            \/ ObserveVersion(status, k, digest).kind # "EnvelopeInvalid"
    BY DEF ObserveVersion, StopAt
  <2>4. ObserveStop(status, k, digest, fails) = status
            \/ ObserveStop(status, k, digest, fails).kind # "EnvelopeInvalid"
            \/ (fails /\ ObserveStop(status, k, digest, fails) = stop)
    BY <2>1, <2>3 DEF ObserveStop, StopAt, Halts
  <2>5. ObserveInContext(status, k, digest, fails) = status
            \/ ObserveInContext(status, k, digest, fails).kind # "EnvelopeInvalid"
            \/ (fails /\ ObserveInContext(status, k, digest, fails) = stop)
    BY <2>2, <2>4 DEF ObserveInContext, Halts, Recoverable
  <2> QED BY <2>4, <2>5
<1>2. stop.kind = "EnvelopeInvalid" /\ stop.seq = k /\ stop.digest = digest
  OBVIOUS
<1> HIDE DEF stop
<1> QED BY <1>1, <1>2, LogKept DEF StopIsTrue

\* A step that keeps the frontier, the ledgers and the snapshot keeps the invariant when the stop
\* it leaves is true.
LEMMA StatusOnly ==
    ASSUME Inv, UNCHANGED <<log, next, ledger, root, permit>>, pulled' \in 0 .. MaxSeq, StopIsTrue'
    PROVE  Inv'
  BY LogKept DEF Inv

LEMMA QuietStop ==
    ASSUME Inv, log' = log, status' = status \/ status'.kind # "EnvelopeInvalid"
    PROVE  StopIsTrue'
  BY LogKept DEF Inv, StopIsTrue

LEMMA HaltQuiet ==
    ASSUME NEW why \in Halts, NEW k
    PROVE  Halt(status, why, k) = status \/ Halt(status, why, k).kind # "EnvelopeInvalid"
  BY DEF Halt, Halted, Halts, Recoverable

\* The frontier is a position or stands behind the log.
LEMMA FrontierIs ==
    ASSUME Inv
    PROVE  /\ next \in Nat /\ next >= 1 /\ next <= MaxSeq + 1 /\ MaxSeq \in Nat
           /\ next <= MaxSeq => next \in Positions
           /\ \A i \in DOMAIN ledger :
                 ledger[i].first \in Nat /\ ledger[i].last \in Nat /\ ledger[i].last < next
<1>1. next \in 1 .. MaxSeq + 1 /\ MaxSeq \in Nat
  BY FrontiersLeast, VoidAssumption DEF Inv
<1>2. ASSUME NEW i \in DOMAIN ledger
      PROVE  ledger[i].first \in Nat /\ ledger[i].last \in Nat /\ ledger[i].last < next
  <2>1. ledger[i] \in SkippedBelow(next)
    BY DEF Inv, Holds
  <2>2. ledger[i] \in Ranges /\ ledger[i].last < next
    BY <2>1, SkippedIs DEF Inv
  <2> QED BY <1>1, <2>2 DEF Ranges, Positions
<1> QED BY <1>1, <1>2 DEF Positions

\* A record that is valid, or no envelope, moves the frontier by one.
LEMMA ApplyKeeps == ASSUME Inv, Apply PROVE Inv'
<1>1. next \in Positions
  BY FrontierIs DEF Inv, Apply
<1>2. ~Poisoned(next)
  BY DEF Apply, Poisoned
<1>3. Beyond(next) = next + 1 /\ next + 1 # 0
  BY <1>1, <1>2, FrontierIs, BeyondGrows DEF Inv
<1>4. next + 1 \in Frontiers /\ SkippedBelow(next + 1) = SkippedBelow(next)
  BY <1>1, <1>2, <1>3, SkippedStep DEF Inv
<1>5. Holds(ledger, next + 1)
  BY <1>4 DEF Inv, Holds
<1>6. root < next + 1
  BY FrontierIs DEF Inv
<1>7. StopIsTrue'
  BY QuietStop DEF Apply
<1> QED BY <1>4, <1>5, <1>6, <1>7, LogKept DEF Apply, Inv

\* offer_one: of the voids held, those that truthfully name a replica's true stop change it, so the
\* first that is honored is the one the log decides.
LEMMA GenuineChanges ==
    ASSUME Inv, ~OfferRefused, status.kind = "EnvelopeInvalid", status.seq = next,
           NEW v \in Genuine(next) \intersect Held
    PROVE  v \in Changing /\ v \in Positions /\ next \in Positions
<1>1. /\ v \in Held /\ v \in Positions /\ IsVoid(v) /\ log[v].target = next /\ log[v].names = "same"
      /\ v \in next + 1 .. MaxSeq
  BY DEF Genuine, Held
<1>2. /\ next \in Nat /\ v \in Nat /\ next < v /\ next >= 1 /\ next <= MaxSeq /\ MaxSeq \in Nat
      /\ next \in Positions
  BY <1>1, FrontierIs
<1> DEFINE k == log[v].target
           honored == {i \in DOMAIN ledger : ledger[i].id = log[v].id}
           inert == v <= k \/ Covered(v) \/ k <= root \/ k < next
           stopped == next = k /\ status.kind = "EnvelopeInvalid" /\ status.seq = k
<1>3. \A i \in honored : ledger[i].last + 1 # v
  BY <1>2, FrontierIs
<1>4. ~inert /\ stopped
  <2>1. ~Covered(v)
    BY <1>1, <1>2, FrontierIs DEF Covered, Skips
  <2> QED BY <1>1, <1>2, <2>1 DEF Inv
<1> HIDE DEF inert, stopped
<1>5. Outcome(v) \in {"Honored", "DigestAtStop", "VoidAtTwoPositions"}
  <2>1. CASE honored # {}
    BY <1>3, <2>1 DEF Outcome
  <2>2. CASE honored = {}
    <3>1. log[v].names # "command"
      BY <1>1
    <3> QED BY <1>4, <2>2, <3>1 DEF Outcome, inert, stopped
  <2> QED BY <2>1, <2>2
<1> QED BY <1>1, <1>2, <1>5 DEF Changing

LEMMA HonoredIsDecided ==
    ASSUME Inv, ~OfferRefused, NEW v \in Changing, \A w \in Changing : v <= w,
           Outcome(v) = "Honored"
    PROVE  /\ next \in Positions /\ Poisoned(next) /\ v = Beyond(next) /\ Beyond(next) # 0
           /\ HonoredRange(v) = Hole(next)
<1>1. v \in Held /\ v \in Positions /\ IsVoid(v)
  BY DEF Changing, Held
<1>2. /\ log[v].target \in Positions /\ v \in Nat /\ v <= MaxSeq
      /\ log[v].names \in {"same", "command", "digest"}
  BY <1>1, LogFields DEF Inv
<1> DEFINE k == log[v].target
           honored == {i \in DOMAIN ledger : ledger[i].id = log[v].id}
           inert == v <= k \/ Covered(v) \/ k <= root \/ k < next
           stopped == next = k /\ status.kind = "EnvelopeInvalid" /\ status.seq = k
<1>3. honored = {}
  BY DEF Outcome
<1>4. ~inert
  BY <1>3 DEF Outcome
<1>5. stopped
  BY <1>3, <1>4 DEF Outcome
<1>6. NamedDigest(v) = status.digest /\ log[v].names # "command"
  BY <1>3, <1>4, <1>5 DEF Outcome
<1>7. next = k /\ ~(v <= k) /\ next \in Positions
  BY <1>2, <1>4, <1>5
<1>8. status.digest = "log" /\ log[v].names = "same"
  BY <1>2, <1>5, <1>6 DEF Inv, StopIsTrue, NamedDigest
<1>9. Poisoned(next)
  BY <1>5, <1>7, <1>8 DEF Inv, StopIsTrue
<1>10. v \in Genuine(next)
  <2>1. next \in Nat /\ MaxSeq \in Nat
    BY FrontierIs
  <2>2. v \in next + 1 .. MaxSeq
    BY <1>2, <1>7, <2>1
  <2> QED BY <1>1, <1>7, <1>8, <2>2 DEF Genuine
<1>11. ASSUME NEW w \in Genuine(next) PROVE v <= w
  <2>1. w \in Positions /\ v \in Positions /\ v \in Nat /\ w \in Nat
    BY <1>1, <1>7, BeyondGrows, LogFields DEF Inv
  <2>2. CASE w < v
    <3>1. w \in Held
      <4>1. IsVoid(w) /\ v <= pulled /\ pulled \in Int
        BY <1>1 DEF Genuine, Held, Inv
      <4>2. w <= pulled
        BY <2>1, <2>2, <4>1
      <4> QED BY <2>1, <4>1, <4>2 DEF Held
    <3>2. w \in Changing
      BY <1>5, <1>7, <3>1, GenuineChanges
    <3> QED BY <3>2
  <2> QED BY <2>1, <2>2
<1>12. Genuine(next) # {} /\ Genuine(next) \subseteq Positions
  BY <1>7, <1>10, BeyondGrows DEF Inv
<1>13. First(Genuine(next)) \in Genuine(next) /\ \A w \in Genuine(next) : First(Genuine(next)) <= w
  BY <1>12, FirstIsLeast
<1>14. First(Genuine(next)) \in Nat
  BY <1>12, <1>13, LogFields DEF Inv
<1>15. v = First(Genuine(next))
  BY <1>2, <1>10, <1>11, <1>13, <1>14
<1>16. Beyond(next) = v
  BY <1>9, <1>12, <1>15 DEF Beyond
<1>17. v # 0
  BY <1>1, LogFields DEF Inv
<1>18. HonoredRange(v) = Hole(next)
  BY <1>7, <1>16 DEF HonoredRange, Hole
<1> QED BY <1>7, <1>9, <1>16, <1>17, <1>18

\* offer_in_order.
LEMMA OfferKeeps == ASSUME Inv, Offer PROVE Inv'
<1>1. PICK v \in Changing :
          /\ \A w \in Changing : v <= w
          /\ IF Outcome(v) = "Honored"
             THEN /\ ledger' = Append(ledger, HonoredRange(v))
                  /\ status' = IF status.seq = HonoredRange(v).first THEN Healthy ELSE status
                  /\ next' = HonoredRange(v).last + 1
             ELSE /\ status' = Halt(status, IF Outcome(v) = "DigestAtStop" THEN "SeqConflict"
                                            ELSE "VoidAtTwoPositions", log[v].target)
                  /\ UNCHANGED <<next, ledger>>
  BY DEF Offer
<1>2. ~OfferRefused /\ UNCHANGED <<log, pulled, root, permit>>
  BY DEF Offer
<1>3. CASE Outcome(v) = "Honored"
  <2>1. /\ next \in Positions /\ Poisoned(next) /\ v = Beyond(next) /\ Beyond(next) # 0
        /\ HonoredRange(v) = Hole(next)
    BY <1>1, <1>2, <1>3, HonoredIsDecided
  <2>2. /\ v \in Frontiers /\ SkippedBelow(v) = SkippedBelow(next) \union {Hole(next)}
        /\ v \in Nat /\ v > next
    BY <2>1, SkippedStep, BeyondGrows, FrontierIs DEF Inv
  <2> DEFINE h == Hole(next)
  <2>3. h \in Ranges /\ h.first = next /\ h.last = v - 1 /\ h.first <= h.last
    BY <2>1, HoleIsRange DEF Inv
  <2>4. next' = v /\ ledger' = Append(ledger, h)
    BY <1>1, <1>3, <2>1, <2>2, <2>3
  <2> HIDE DEF h
  <2>5. Holds(ledger', v)
    <3>1. \A i \in DOMAIN ledger : ledger[i].last < h.first
      BY <2>3, FrontierIs
    <3>2. /\ Append(ledger, h) \in Seq(Ranges) /\ IsLedger(Append(ledger, h))
          /\ {Append(ledger, h)[i] : i \in DOMAIN Append(ledger, h)}
                = {ledger[i] : i \in DOMAIN ledger} \union {h}
      BY <2>3, <3>1, LedgerGrows DEF Inv, Holds
    <3> QED BY <2>2, <2>4, <3>2 DEF Inv, Holds, h
  <2>6. StopIsTrue'
    <3>1. status' = status \/ status'.kind = "Healthy"
      BY <1>1, <1>3 DEF Healthy
    <3> QED BY <1>2, <3>1, QuietStop
  <2>7. root < v
    BY <2>2, FrontierIs DEF Inv
  <2> QED BY <1>2, <2>2, <2>4, <2>5, <2>6, <2>7, LogKept DEF Inv
<1>4. CASE Outcome(v) # "Honored"
  <2>1. UNCHANGED <<next, ledger>> /\ (status' = status \/ status'.kind # "EnvelopeInvalid")
    <3>1. (IF Outcome(v) = "DigestAtStop" THEN "SeqConflict" ELSE "VoidAtTwoPositions") \in Halts
      BY DEF Halts
    <3> QED BY <1>1, <1>4, <3>1, HaltQuiet
  <2> QED BY <1>2, <2>1, QuietStop, StatusOnly DEF Inv
<1> QED BY <1>3, <1>4

LEMMA TakePermitKeeps == ASSUME Inv, TakePermit PROVE Inv'
<1>1. PICK f \in Frontiers :
          LET recorded == Encoded(SkippedBelow(f))
          IN  /\ recorded \in Seq(Ranges) /\ IsLedger(recorded)
              /\ permit' = [stop |-> status, root |-> f - 1, ledger |-> recorded]
  BY DEF TakePermit
<1> DEFINE l == Encoded(SkippedBelow(f))
<1>2. Holds(permit'.ledger, f) /\ permit'.root = f - 1
  <2>1. l \in Seq(Ranges) /\ IsLedger(l) /\ permit' = [stop |-> status, root |-> f - 1, ledger |-> l]
    BY <1>1
  <2>2. {l[i] : i \in DOMAIN l} = SkippedBelow(f)
    BY EncodedHolds DEF Inv
  <2> HIDE DEF l
  <2>3. Holds(l, f)
    BY <2>1, <2>2 DEF Holds
  <2> QED BY <2>1, <2>3
<1>3. f \in Nat /\ f >= 1
  BY SkippedIs DEF Inv
<1>4. permit'.root + 1 = f /\ permit'.root \in Nat
  BY <1>2, <1>3
<1>5. UNCHANGED <<log, status, next, pulled, ledger, root>>
  BY DEF TakePermit
<1>6. StopIsTrue'
  BY <1>5, QuietStop
<1> QED BY <1>2, <1>4, <1>5, <1>6, LogKept DEF Inv

LEMMA InstallKeeps == ASSUME Inv, Install PROVE Inv'
<1>1. permit # None /\ permit' = None /\ log' = log
  BY DEF Install
<1>2. CASE status = permit.stop
  <2>1. /\ status' = Healthy /\ root' = permit.root /\ next' = permit.root + 1
        /\ ledger' = permit.ledger /\ pulled' \in {pulled, permit.root}
    BY <1>2 DEF Install
  <2>2. /\ permit.root + 1 \in Frontiers /\ permit.root \in Nat
        /\ Holds(permit.ledger, permit.root + 1)
    BY <1>1 DEF Inv
  <2>3. pulled' \in 0 .. MaxSeq
    BY <2>1, <2>2, FrontiersLeast, VoidAssumption DEF Inv
  <2>4. root' < next' /\ root' \in Nat
    BY <2>1, <2>2
  <2>5. StopIsTrue'
    BY <1>1, <2>1, QuietStop DEF Healthy
  <2> QED BY <1>1, <2>1, <2>2, <2>3, <2>4, <2>5, LogKept DEF Inv
<1>3. CASE status # permit.stop
  <2>1. UNCHANGED <<status, root, next, ledger, pulled>>
    BY <1>3 DEF Install
  <2> QED BY <1>1, <2>1, QuietStop, LogKept DEF Inv
<1> QED BY <1>2, <1>3

LEMMA RestartKeeps == ASSUME Inv, NEW v \in Versions, Restart(v) PROVE Inv'
<1>1. UNCHANGED <<log, next, ledger, root>> /\ permit' = None /\ pulled' = next - 1
  BY DEF Restart
<1>2. status' = status \/ status'.kind = "Healthy"
  BY DEF Restart, ObserveOwn, Healthy
<1>3. pulled' \in 0 .. MaxSeq
  BY <1>1, FrontierIs
<1>4. StopIsTrue'
  BY <1>1, <1>2, QuietStop
<1> QED BY <1>1, <1>3, <1>4, LogKept DEF Inv

LEMMA InvHolds == Spec => []Inv
<1>1. Init => Inv
  <2> SUFFICES ASSUME Init PROVE Inv
    OBVIOUS
  <2>1. MaxSeq \in Nat /\ 1 \in Frontiers
    BY FrontiersLeast, VoidAssumption DEF Init
  <2>2. \A j \in Frontiers : ~(j < 1)
    BY FrontiersLeast, VoidAssumption DEF Init
  <2>3. SkippedBelow(1) = {}
    BY <2>1, <2>2, SkippedIs DEF Init
  <2>4. Holds(<<>>, 1)
    BY <2>3 DEF Holds, IsLedger
  <2> QED BY <2>1, <2>4 DEF Init, Inv, StopIsTrue, Healthy
<1>2. Inv /\ [Next]_vars => Inv'
  <2> SUFFICES ASSUME Inv, [Next]_vars
               PROVE  Inv'
    OBVIOUS
  <2>1. CASE Pull
    <3>1. pulled' \in 0 .. MaxSeq
      BY <2>1, VoidAssumption DEF Pull, Inv
    <3> QED BY <2>1, <3>1, QuietStop, StatusOnly DEF Pull
  <2>2. CASE Apply
    BY <2>2, ApplyKeeps
  <2>3. CASE ApplyFails
    <3>1. Poisoned(next)
      BY <2>3 DEF ApplyFails, Poisoned
    <3>2. StopIsTrue'
      BY <2>3, <3>1, ObservedIsTrue DEF ApplyFails, Inv
    <3> QED BY <2>3, <3>2, StatusOnly DEF ApplyFails, Inv
  <2>4. CASE ApplyForks
    <3>1. status' = status \/ status'.kind # "EnvelopeInvalid"
      BY <2>4, HaltQuiet DEF ApplyForks, Halts, Recoverable
    <3> QED BY <2>4, <3>1, QuietStop, StatusOnly DEF ApplyForks, Inv
  <2>5. CASE ChainForks
    <3>1. status' = status \/ status'.kind # "EnvelopeInvalid"
      BY <2>5, HaltQuiet DEF ChainForks, Halts
    <3> QED BY <2>5, <3>1, QuietStop, StatusOnly DEF ChainForks, Inv
  <2>6. CASE Offer
    BY <2>6, OfferKeeps
  <2>7. CASE TakePermit
    BY <2>7, TakePermitKeeps
  <2>8. CASE Install
    BY <2>8, InstallKeeps
  <2>9. ASSUME NEW k \in 1 .. pulled, Check(k) PROVE Inv'
    <3> DEFINE fails == log[k].version = version /\ log[k].verdict = "receiver"
    <3>1. fails \in BOOLEAN /\ (fails => Poisoned(k))
      BY <2>9 DEF Check, Poisoned
    <3>2. status' = ObserveInContext(status, k, "log", fails) /\ log' = log
      BY <2>9 DEF Check
    <3> HIDE DEF fails
    <3>3. StopIsTrue'
      BY <3>1, <3>2, ObservedIsTrue DEF Inv
    <3> QED BY <2>9, <3>3, StatusOnly DEF Check, Inv
  <2>10. ASSUME NEW k \in 1 .. pulled, CheckShown(k) PROVE Inv'
    <3>1. PICK fails \in BOOLEAN : status' = ObserveInContext(status, k, "shown", fails)
      BY <2>10 DEF CheckShown
    <3>2. StopIsTrue'
      BY <2>10, <3>1, ObservedIsTrue DEF Inv, CheckShown
    <3> QED BY <2>10, <3>2, StatusOnly DEF CheckShown, Inv
  <2>11. ASSUME NEW v \in Versions, Restart(v) PROVE Inv'
    BY <2>11, RestartKeeps
  <2>12. CASE UNCHANGED vars
    BY <2>12, QuietStop, StatusOnly DEF vars, Inv
  <2> QED BY <2>1, <2>2, <2>3, <2>4, <2>5, <2>6, <2>7, <2>8, <2>9, <2>10, <2>11, <2>12 DEF Next
<1> QED BY <1>1, <1>2, PTL DEF Spec

-----------------------------------------------------------------------------
\* For every log: what a replica persists with its cursor, or publishes with a snapshot, is a
\* ledger that VoidLedger::decode accepts, whatever was checked, offered or installed before.
THEOREM LedgerAlwaysParses == Spec => []LedgerParses
<1>1. Inv => LedgerParses
  BY DEF Inv, Holds, LedgerParses
<1> QED BY <1>1, InvHolds, PTL

\* For every log: the frontier of a replica is one the log decides and it has skipped exactly what
\* the log decides below it, so no two replicas that honor voids skip different positions
\* (offer_in_order, observe_honored and observe_rebootstrapped).
THEOREM LogAloneDecides == Spec => []LogDecides
<1>1. Inv => LogDecides
  BY DEF Inv, Holds, LogDecides
<1> QED BY <1>1, InvHolds, PTL

\* For every log: whatever voids a member has spammed, a replica stopped in log order that holds a
\* truthful void for its stop is not refused when it offers them, and moves on or halts
\* (offer_one's inert voids over valid positions).
THEOREM TruthfulVoidHeard == Spec => []SpamNeverBlocks
<1>1. ASSUME Inv, status.kind = "EnvelopeInvalid", status.seq = next,
             Genuine(next) \intersect Held # {}
      PROVE  /\ ~OfferRefused
             /\ \E v \in Changing : v <= First(Genuine(next) \intersect Held)
  <2>1. ~OfferRefused
    BY <1>1, FrontierIs DEF OfferRefused, Inv
  <2>2. Genuine(next) \intersect Held \subseteq Positions
    BY DEF Held
  <2>3. First(Genuine(next) \intersect Held) \in Genuine(next) \intersect Held
    BY <1>1, <2>2, FirstIsLeast
  <2>4. First(Genuine(next) \intersect Held) \in Changing
    BY <1>1, <2>1, <2>3, GenuineChanges
  <2>5. First(Genuine(next) \intersect Held) \in Nat
    BY <1>1, <2>2, <2>3, LogFields DEF Inv
  <2> QED BY <2>1, <2>4, <2>5
<1>2. Inv => SpamNeverBlocks
  BY <1>1 DEF SpamNeverBlocks
<1> QED BY <1>2, InvHolds, PTL
=============================================================================
