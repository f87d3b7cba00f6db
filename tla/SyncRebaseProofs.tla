------------------------- MODULE SyncRebaseProofs -------------------------
(***************************************************************************)
(* Proofs about the base image, the outbox and the rebase, for any number   *)
(* of commands, entries of the log and images: the base a vault vouches for *)
(* is the service's state, every command is accounted for, the plan is the  *)
(* least closure of the conflicts, and the rebuilt vault is whole.          *)
(***************************************************************************)
EXTENDS SyncRebase, FiniteSetTheorems, SequenceTheorems, WellFoundedInduction, TLAPS

-----------------------------------------------------------------------------
(* Numbers. *)

\* Every set of numbers has a least member.
LEMMA LeastNumber ==
    ASSUME NEW T \in SUBSET Nat, T # {}
    PROVE  \E n \in T : \A m \in T : n <= m
  <1>1. PICK n \in T : \A m \in T : ~(<<m, n>> \in OpToRel(<, Nat))
    BY WFMin, NatLessThanWellFounded
  <1>2. \A m \in T : ~(m < n)
    BY <1>1 DEF OpToRel
  <1> QED BY <1>2

\* A set that holds zero and with each number the next holds them all.
LEMMA Count ==
    ASSUME NEW S, 0 \in S, \A n \in Nat : n \in S => n + 1 \in S
    PROVE  Nat \subseteq S
  <1> DEFINE T == Nat \ S
  <1> SUFFICES ASSUME T # {} PROVE FALSE
    OBVIOUS
  <1>1. PICK n \in T : \A m \in T : n <= m
    BY LeastNumber
  <1>2. n \in Nat /\ n # 0 /\ n - 1 \in Nat
    OBVIOUS
  <1>3. n - 1 \notin T
    BY <1>1, <1>2
  <1> QED BY <1>2, <1>3

LEMMA MaxIsLast ==
    ASSUME NEW S \in SUBSET Nat, NEW m \in Nat, \A n \in S : n <= m, S # {}
    PROVE  Max(S) \in S /\ \A n \in S : n <= Max(S)
  <1> DEFINE T == {d \in Nat : d <= m /\ m - d \in S}
  <1>1. T # {}
    <2>1. PICK n \in S : TRUE
      OBVIOUS
    <2>2. m - n \in T
      BY <2>1
    <2> QED BY <2>2
  <1>2. T \in SUBSET Nat
    OBVIOUS
  <1>3. PICK d \in T : \A e \in T : d <= e
    <2> HIDE DEF T
    <2> QED BY <1>1, <1>2, LeastNumber
  <1>4. m - d \in S /\ d \in Nat
    BY <1>3
  <1>5. \A n \in S : n <= m - d
    <2> SUFFICES ASSUME NEW n \in S PROVE n <= m - d
      OBVIOUS
    <2>1. m - n \in T
      OBVIOUS
    <2>2. d <= m - n /\ n \in Nat
      BY <1>3, <2>1
    <2> HIDE DEF T
    <2> QED BY <1>4, <2>2
  <1>6. \E x \in S : \A y \in S : x >= y
    BY <1>4, <1>5
  <1> QED BY <1>6 DEF Max

LEMMA MinIsFirst ==
    ASSUME NEW S \in SUBSET Nat, S # {}
    PROVE  Min(S) \in S /\ \A n \in S : Min(S) <= n
  BY LeastNumber DEF Min

-----------------------------------------------------------------------------
(* The frontier of a root. *)

\* What one more round reaches.
Reach(shape, free, set) == set \union {o \in free : \E c \in set : Pulls(shape, c, o)}

\* The recursion of the frontier has a solution.
LEMMA FrontierDefined ==
    ASSUME NEW unsent, NEW shape, NEW root, NEW free, NEW size \in Nat, size = Cardinality(unsent)
    PROVE  \E r : /\ Frontier(unsent, shape, root, free) = r[size]
                  /\ r[0] = {root}
                  /\ \A k \in 1 .. size : r[k] = Reach(shape, free, r[k - 1])
  <1> DEFINE Body(f, k) == IF k = 0 THEN {root} ELSE Reach(shape, free, f[k - 1])
             Defined(m) == \E f : f = [k \in 0 .. m |-> Body(f, k)]
             reached[k \in 0 .. Cardinality(unsent)] ==
               IF k = 0 THEN {root}
               ELSE reached[k - 1] \union
                     {o \in free : \E c \in reached[k - 1] : Pulls(shape, c, o)}
             S == {m \in Nat : Defined(m)}
  <1>1. 0 \in S
    <2> DEFINE f == [k \in 0 .. 0 |-> {root}]
    <2>1. f = [k \in 0 .. 0 |-> Body(f, k)]
      OBVIOUS
    <2> QED BY <2>1
  <1>2. \A m \in Nat : m \in S => m + 1 \in S
    <2> SUFFICES ASSUME NEW m \in Nat, m \in S PROVE m + 1 \in S
      OBVIOUS
    <2>1. PICK f : f = [k \in 0 .. m |-> Body(f, k)]
      OBVIOUS
    <2> DEFINE g == [k \in 0 .. m + 1 |-> Body(f, k)]
    <2> HIDE DEF Body
    <2>2. \A k \in 0 .. m : g[k] = f[k]
      <3> SUFFICES ASSUME NEW k \in 0 .. m PROVE g[k] = f[k]
        OBVIOUS
      <3>1. f[k] = Body(f, k)
        BY <2>1
      <3> QED BY <3>1
    <2>3. \A k \in 0 .. m + 1 : Body(g, k) = Body(f, k)
      <3> SUFFICES ASSUME NEW k \in 0 .. m + 1 PROVE Body(g, k) = Body(f, k)
        OBVIOUS
      <3> HIDE DEF g
      <3>1. k # 0 => k - 1 \in 0 .. m
        OBVIOUS
      <3>2. k # 0 => g[k - 1] = f[k - 1]
        BY <2>2, <3>1
      <3> QED BY <3>2 DEF Body
    <2>4. g = [k \in 0 .. m + 1 |-> Body(g, k)]
      BY <2>3
    <2>5. Defined(m + 1)
      BY <2>4
    <2> QED BY <2>5
  <1>3. Nat \subseteq S
    <2> HIDE DEF S
    <2> QED BY <1>1, <1>2, Count
  <1>4. Defined(size)
    BY <1>3
  <1>5. Frontier(unsent, shape, root, free) = reached[size]
    BY DEF Frontier
  <1>6. reached = [k \in 0 .. size |-> Body(reached, k)]
    <2> DEFINE Text(f, k) ==
                 IF k = 0 THEN {root}
                 ELSE f[k - 1] \union {o \in free : \E c \in f[k - 1] : Pulls(shape, c, o)}
    <2>1. \A f, k : Text(f, k) = Body(f, k)
      BY DEF Reach
    <2>2. PICK f : f = [k \in 0 .. size |-> Body(f, k)]
      BY <1>4
    <2>3. f = [k \in 0 .. size |-> Text(f, k)]
      <3> HIDE DEF Body, Text
      <3> QED BY <2>1, <2>2
    <2>4. f = [k \in 0 .. Cardinality(unsent) |-> Text(f, k)]
      <3> HIDE DEF Body, Text
      <3> QED BY <2>3
    <2>5. reached = [k \in 0 .. Cardinality(unsent) |-> Text(reached, k)]
      BY <2>4, Zenon
    <2> HIDE DEF Body, Text, reached
    <2> QED BY <2>1, <2>5
  <1> HIDE DEF reached, Body
  <1>7. \A k \in 0 .. size : reached[k] = Body(reached, k)
    BY <1>6
  <1>8. reached[0] = {root} /\ \A k \in 1 .. size : reached[k] = Reach(shape, free, reached[k - 1])
    BY <1>7 DEF Body
  <1> QED BY <1>5, <1>8

\* The frontier is the least set with the root that goes on to whatever free command it
\* pulls in: it cannot grow in more rounds than there are commands.
LEMMA FrontierIsLeast ==
    ASSUME NEW unsent, IsFiniteSet(unsent), NEW shape, NEW root \in unsent,
           NEW free \in SUBSET (unsent \ {root})
    PROVE  LET F == Frontier(unsent, shape, root, free)
           IN  /\ root \in F
               /\ \A c \in F, o \in free : Pulls(shape, c, o) => o \in F
               /\ \A set : /\ root \in set
                           /\ \A c \in set, o \in free : Pulls(shape, c, o) => o \in set
                           => F \subseteq set
  <1> DEFINE size == Cardinality(unsent)
             F == Frontier(unsent, shape, root, free)
  <1>1. size \in Nat
    BY FS_CardinalityType
  <1>0. size = Cardinality(unsent) /\ F = Frontier(unsent, shape, root, free)
    OBVIOUS
  <1> HIDE DEF size, F
  <1>2. PICK r : /\ F = r[size] /\ r[0] = {root}
                 /\ \A k \in 1 .. size : r[k] = Reach(shape, free, r[k - 1])
    BY <1>0, <1>1, FrontierDefined
  <1>3. \A n \in Nat : n + 1 <= size => r[n + 1] = Reach(shape, free, r[n])
    <2> SUFFICES ASSUME NEW n \in Nat, n + 1 <= size PROVE r[n + 1] = Reach(shape, free, r[n])
      OBVIOUS
    <2>1. n + 1 \in 1 .. size /\ (n + 1) - 1 = n
      BY <1>1
    <2> QED BY <1>2, <2>1
  <1>4. \A n \in Nat : n <= size => root \in r[n] /\ r[n] \subseteq unsent
    <2> DEFINE S == {n \in Nat : n <= size => root \in r[n] /\ r[n] \subseteq unsent}
    <2>1. 0 \in S
      BY <1>2
    <2>2. \A n \in Nat : n \in S => n + 1 \in S
      BY <1>1, <1>3 DEF Reach
    <2> HIDE DEF S
    <2>3. Nat \subseteq S
      BY <2>1, <2>2, Count
    <2> QED BY <2>3 DEF S
  <1>5. \A n \in Nat : n <= size => Reach(shape, free, r[n]) = r[n] \/ Cardinality(r[n]) >= n + 1
    <2> DEFINE S == {n \in Nat : n <= size => \/ Reach(shape, free, r[n]) = r[n]
                                              \/ Cardinality(r[n]) >= n + 1}
    <2>1. 0 \in S
      <3>1. Cardinality(r[0]) = 1
        BY <1>2, FS_Singleton
      <3> QED BY <3>1
    <2>2. ASSUME NEW n \in Nat, n \in S, n + 1 <= size, Reach(shape, free, r[n + 1]) # r[n + 1]
          PROVE  Cardinality(r[n + 1]) >= (n + 1) + 1
      <3>1. r[n + 1] = Reach(shape, free, r[n]) /\ n <= size
        BY <1>1, <1>3, <2>2
      <3>2. Reach(shape, free, r[n]) # r[n]
        BY <2>2, <3>1
      <3>3. Cardinality(r[n]) >= n + 1
        BY <2>2, <3>1, <3>2
      <3>4. r[n] \subseteq r[n + 1] /\ r[n] # r[n + 1] /\ r[n + 1] \in SUBSET unsent
        BY <1>4, <2>2, <3>1, <3>2 DEF Reach
      <3>5. IsFiniteSet(r[n + 1])
        BY <3>4, FS_Subset
      <3>6. /\ Cardinality(r[n]) <= Cardinality(r[n + 1])
            /\ Cardinality(r[n + 1]) # Cardinality(r[n]) /\ IsFiniteSet(r[n])
        BY <3>4, <3>5, FS_Subset
      <3>7. Cardinality(r[n]) \in Nat /\ Cardinality(r[n + 1]) \in Nat
        BY <3>5, <3>6, FS_CardinalityType
      <3> QED BY <3>3, <3>6, <3>7
    <2>3. \A n \in Nat : n \in S => n + 1 \in S
      BY <2>2
    <2> HIDE DEF S
    <2>4. Nat \subseteq S
      BY <2>1, <2>3, Count
    <2> QED BY <2>4 DEF S
  <1>6. Reach(shape, free, F) = F
    <2>1. F \in SUBSET unsent
      BY <1>1, <1>2, <1>4
    <2>2. Cardinality(F) <= size /\ IsFiniteSet(F)
      BY <2>1, FS_Subset DEF size
    <2>3. Cardinality(F) \in Nat
      BY <2>2, FS_CardinalityType
    <2>4. ~(Cardinality(F) >= size + 1)
      BY <1>1, <2>2, <2>3
    <2> QED BY <1>1, <1>2, <1>5, <2>4
  <1>7. ASSUME NEW set, root \in set, \A c \in set, o \in free : Pulls(shape, c, o) => o \in set
        PROVE  F \subseteq set
    <2> DEFINE S == {n \in Nat : n <= size => r[n] \subseteq set}
    <2>1. 0 \in S
      BY <1>2, <1>7
    <2>2. ASSUME NEW n \in Nat, n \in S, n + 1 <= size PROVE r[n + 1] \subseteq set
      <3>1. r[n] \subseteq set
        BY <1>1, <2>2
      <3>2. r[n + 1] = Reach(shape, free, r[n])
        BY <1>3, <2>2
      <3> QED BY <1>7, <3>1, <3>2 DEF Reach
    <2>3. \A n \in Nat : n \in S => n + 1 \in S
      BY <2>2
    <2> HIDE DEF S
    <2>4. Nat \subseteq S
      BY <2>1, <2>3, Count
    <2> QED BY <1>1, <1>2, <2>4 DEF S
  <1>8. root \in F /\ \A c \in F, o \in free : Pulls(shape, c, o) => o \in F
    BY <1>1, <1>2, <1>4, <1>6 DEF Reach
  <1> QED BY <1>7, <1>8 DEF F
-----------------------------------------------------------------------------
(* The plan. *)

\* What the rule gives each command on its own.
Own(unsent, shape, touched, invalid) ==
    [c \in unsent |-> AutoIff(c, shape[c].rows \intersect touched = {}, c \notin invalid)]

\* The commands in conflict on their own account.
Conflicts(unsent, shape, touched, invalid) ==
    invalid \union {c \in unsent : shape[c].rows \intersect touched # {}}

\* One root of the closure: what it reaches among the free is queued on its account.
Closing(unsent, shape, own, k, plan) ==
    LET free == {o \in unsent : ~plan[o].queued}
        new == free \intersect Frontier(unsent, shape, k, free)
    IN  [c \in unsent |-> IF c \in new THEN Queue("closure", k, own[k].reason) ELSE plan[c]]

ClosedUpTo(unsent, shape, own, k, plan) ==
    IF k \notin unsent \/ (k \in unsent /\ ~own[k].queued) THEN plan
    ELSE Closing(unsent, shape, own, k, plan)

\* The recursion of the plan has a solution.
LEMMA PlanDefined ==
    ASSUME NEW unsent, NEW shape, NEW touched, NEW invalid, Max(unsent \union {0}) \in Nat
    PROVE  LET own == Own(unsent, shape, touched, invalid)
               last == Max(unsent \union {0})
           IN  \E p : /\ Plan(unsent, shape, touched, invalid) = p[last]
                      /\ p[0] = own
                      /\ \A k \in 1 .. last : p[k] = ClosedUpTo(unsent, shape, own, k, p[k - 1])
  <1> DEFINE own == Own(unsent, shape, touched, invalid)
             last == Max(unsent \union {0})
             Body(f, k) == IF k = 0 THEN own ELSE ClosedUpTo(unsent, shape, own, k, f[k - 1])
             Defined(m) == \E f : f = [k \in 0 .. m |-> Body(f, k)]
             Text(f, k) ==
               IF k = 0 THEN own
               ELSE LET plan == f[k - 1]
                        free == {o \in unsent : ~plan[o].queued}
                    IN  IF k \notin unsent \/ (k \in unsent /\ ~own[k].queued) THEN plan
                        ELSE LET new == free \intersect Frontier(unsent, shape, k, free)
                             IN  [c \in unsent |-> IF c \in new
                                                   THEN Queue("closure", k, own[k].reason)
                                                   ELSE plan[c]]
             closed[k \in 0 .. Max(unsent \union {0})] ==
               IF k = 0 THEN own
               ELSE LET plan == closed[k - 1]
                        free == {o \in unsent : ~plan[o].queued}
                    IN  IF k \notin unsent \/ (k \in unsent /\ ~own[k].queued) THEN plan
                        ELSE LET new == free \intersect Frontier(unsent, shape, k, free)
                             IN  [c \in unsent |-> IF c \in new
                                                   THEN Queue("closure", k, own[k].reason)
                                                   ELSE plan[c]]
             S == {m \in Nat : Defined(m)}
  <1>1. 0 \in S
    <2> DEFINE f == [k \in 0 .. 0 |-> own]
    <2>1. f = [k \in 0 .. 0 |-> Body(f, k)]
      OBVIOUS
    <2> QED BY <2>1
  <1>2. \A m \in Nat : m \in S => m + 1 \in S
    <2> SUFFICES ASSUME NEW m \in Nat, m \in S PROVE m + 1 \in S
      OBVIOUS
    <2>1. PICK f : f = [k \in 0 .. m |-> Body(f, k)]
      OBVIOUS
    <2> DEFINE g == [k \in 0 .. m + 1 |-> Body(f, k)]
    <2> HIDE DEF Body
    <2>2. \A k \in 0 .. m : g[k] = f[k]
      <3> SUFFICES ASSUME NEW k \in 0 .. m PROVE g[k] = f[k]
        OBVIOUS
      <3>1. f[k] = Body(f, k)
        BY <2>1
      <3> QED BY <3>1
    <2>3. \A k \in 0 .. m + 1 : Body(g, k) = Body(f, k)
      <3> SUFFICES ASSUME NEW k \in 0 .. m + 1 PROVE Body(g, k) = Body(f, k)
        OBVIOUS
      <3> HIDE DEF g
      <3>1. k # 0 => k - 1 \in 0 .. m
        OBVIOUS
      <3>2. k # 0 => g[k - 1] = f[k - 1]
        BY <2>2, <3>1
      <3> QED BY <3>2 DEF Body
    <2>4. g = [k \in 0 .. m + 1 |-> Body(g, k)]
      BY <2>3
    <2>5. Defined(m + 1)
      BY <2>4
    <2> QED BY <2>5
  <1>3. Nat \subseteq S
    <2> HIDE DEF S
    <2> QED BY <1>1, <1>2, Count
  <1>l. last \in Nat
    OBVIOUS
  <1>4. Defined(last)
    BY <1>3, <1>l
  <1>5. Plan(unsent, shape, touched, invalid) = closed[last]
    BY DEF Plan, Own
  <1>6. closed = [k \in 0 .. last |-> Body(closed, k)]
    <2> HIDE DEF own, last
    <2>1. \A f, k : Text(f, k) = Body(f, k)
      BY DEF ClosedUpTo, Closing
    <2>2. PICK f : f = [k \in 0 .. last |-> Body(f, k)]
      BY <1>4
    <2>3. f = [k \in 0 .. last |-> Text(f, k)]
      <3> HIDE DEF Body, Text
      <3> QED BY <2>1, <2>2
    <2>4. closed = [k \in 0 .. last |-> Text(closed, k)]
      BY <2>3 DEF last
    <2> HIDE DEF Body, Text, closed
    <2> QED BY <2>1, <2>4
  <1> HIDE DEF closed, Body, own, last
  <1>7. \A k \in 0 .. last : closed[k] = Body(closed, k)
    BY <1>6
  <1>8. closed[0] = own
    BY <1>7, <1>l DEF Body
  <1>9. \A k \in 1 .. last : closed[k] = ClosedUpTo(unsent, shape, own, k, closed[k - 1])
    <2> SUFFICES ASSUME NEW k \in 1 .. last
                 PROVE  closed[k] = ClosedUpTo(unsent, shape, own, k, closed[k - 1])
      OBVIOUS
    <2>1. k \in 0 .. last /\ k # 0
      BY <1>l
    <2> QED BY <1>7, <2>1 DEF Body
  <1> QED BY <1>5, <1>8, <1>9 DEF own, last

\* How a queued command is described: a root in conflict that pulls it in, and its outcome.
Rooted(unsent, shape, roots, invalid, entry, c) ==
    /\ entry.root \in roots
    /\ c \in LeastClosure(unsent, shape, {entry.root})
    /\ entry.reason = IF entry.root \in invalid THEN "queue_edit" ELSE "queue_choose"

\* The plan with the roots up to k closed.
PlanTo(unsent, shape, roots, invalid, k, plan) ==
    /\ DOMAIN plan = unsent
    /\ \A c \in unsent : plan[c].queued \in BOOLEAN
    /\ \A c \in roots : plan[c].queued
    /\ \A c \in unsent : plan[c].queued => Rooted(unsent, shape, roots, invalid, plan[c], c)
    /\ \A c \in unsent : plan[c].queued /\ plan[c].root > k => plan[c].root = c
    /\ \A c, o \in unsent : plan[c].queued /\ plan[c].root <= k /\ Pulls(shape, c, o) => plan[o].queued

\* A closure grows with its roots, and holds them.
LEMMA ClosureGrows ==
    ASSUME NEW unsent, NEW shape, NEW small \in SUBSET unsent, NEW large, small \subseteq large
    PROVE  /\ LeastClosure(unsent, shape, small) \subseteq LeastClosure(unsent, shape, large)
           /\ small \subseteq LeastClosure(unsent, shape, small)
  BY DEF LeastClosure

\* Before the first root, the rule alone.
LEMMA OwnRule ==
    ASSUME NEW unsent \in SUBSET (Nat \ {0}), NEW shape, NEW touched, NEW invalid \in SUBSET unsent
    PROVE  LET own == Own(unsent, shape, touched, invalid)
               roots == Conflicts(unsent, shape, touched, invalid)
           IN  /\ PlanTo(unsent, shape, roots, invalid, 0, own)
               /\ \A c \in unsent : own[c].queued <=> c \in roots
  <1> DEFINE own == Own(unsent, shape, touched, invalid)
             roots == Conflicts(unsent, shape, touched, invalid)
  <1>1. DOMAIN own = unsent
    BY DEF Own
  <1>2. \A c \in unsent :
            /\ own[c].queued \in BOOLEAN
            /\ own[c].queued <=> c \in roots
            /\ own[c].queued => /\ own[c].root = c
                                /\ own[c].reason = IF c \in invalid THEN "queue_edit" ELSE "queue_choose"
    <2> SUFFICES ASSUME NEW c \in unsent
                 PROVE  /\ own[c].queued \in BOOLEAN
                        /\ own[c].queued <=> c \in roots
                        /\ own[c].queued =>
                              /\ own[c].root = c
                              /\ own[c].reason = IF c \in invalid THEN "queue_edit" ELSE "queue_choose"
      OBVIOUS
    <2>1. own[c] = AutoIff(c, shape[c].rows \intersect touched = {}, c \notin invalid)
      BY DEF Own
    <2>2. CASE c \in invalid
      <3>1. own[c] = Queue("invalid", c, "queue_edit")
        BY <2>1, <2>2 DEF AutoIff
      <3> QED BY <2>2, <3>1 DEF Queue, Conflicts
    <2>3. CASE c \notin invalid /\ shape[c].rows \intersect touched # {}
      <3>1. own[c] = Queue("touched", c, "queue_choose")
        BY <2>1, <2>3 DEF AutoIff
      <3> QED BY <2>3, <3>1 DEF Queue, Conflicts
    <2>4. CASE c \notin invalid /\ shape[c].rows \intersect touched = {}
      <3>1. own[c] = Replay
        BY <2>1, <2>4 DEF AutoIff
      <3> QED BY <2>4, <3>1 DEF Replay, Conflicts
    <2> QED BY <2>2, <2>3, <2>4
  <1>3. roots \subseteq unsent
    BY DEF Conflicts
  <1>4. \A c \in unsent : c \in LeastClosure(unsent, shape, {c})
    BY ClosureGrows
  <1> HIDE DEF own, roots
  <1>5. PlanTo(unsent, shape, roots, invalid, 0, own)
    BY <1>1, <1>2, <1>3, <1>4 DEF PlanTo, Rooted
  <1> QED BY <1>2, <1>5 DEF own, roots

\* A root that is closed pulls in all it must and nothing else.
LEMMA RootClosed ==
    ASSUME NEW unsent \in SUBSET (Nat \ {0}), IsFiniteSet(unsent), NEW shape,
           NEW invalid \in SUBSET unsent, NEW roots \in SUBSET unsent,
           NEW own, \A c \in unsent : own[c].queued <=> c \in roots,
           \A c \in roots : own[c].reason = IF c \in invalid THEN "queue_edit" ELSE "queue_choose",
           NEW k \in Nat, k # 0, NEW plan, PlanTo(unsent, shape, roots, invalid, k - 1, plan)
    PROVE  PlanTo(unsent, shape, roots, invalid, k, ClosedUpTo(unsent, shape, own, k, plan))
  <1>1. CASE k \notin roots
    <2>1. ClosedUpTo(unsent, shape, own, k, plan) = plan
      BY <1>1 DEF ClosedUpTo
    <2>2. \A c \in unsent : plan[c].queued => plan[c].root \in roots
      BY DEF PlanTo, Rooted
    <2>3. \A c \in unsent : plan[c].queued => plan[c].root # k /\ plan[c].root \in Nat
      BY <1>1, <2>2
    <2>4. \A c \in unsent : plan[c].queued => /\ plan[c].root <= k => plan[c].root <= k - 1
                                              /\ plan[c].root > k => plan[c].root > k - 1
      BY <2>3
    <2> QED BY <2>1, <2>4 DEF PlanTo
  <1>2. CASE k \in roots
    <2> DEFINE free == {o \in unsent : ~plan[o].queued}
               F == Frontier(unsent, shape, k, free)
               next == Closing(unsent, shape, own, k, plan)
    <2>1. ClosedUpTo(unsent, shape, own, k, plan) = next
      BY <1>2 DEF ClosedUpTo
    <2>2. k \in unsent /\ plan[k].queued
      BY <1>2 DEF PlanTo
    <2>3. /\ k \in F
          /\ \A c \in F, o \in free : Pulls(shape, c, o) => o \in F
          /\ \A set : k \in set /\ (\A c \in set, o \in free : Pulls(shape, c, o) => o \in set)
                        => F \subseteq set
      <3>1. free \in SUBSET (unsent \ {k})
        BY <2>2
      <3> HIDE DEF free
      <3> QED BY <2>2, <3>1, FrontierIsLeast
    <2>4. \A c \in unsent : next[c] = IF c \in free \intersect F
                                      THEN Queue("closure", k, own[k].reason) ELSE plan[c]
      BY DEF Closing
    <2>5. DOMAIN next = unsent
      BY DEF Closing
    <2> HIDE DEF next, F
    <2>6. \A c \in free \intersect F :
              /\ next[c].queued = TRUE /\ next[c].root = k
              /\ next[c].reason = IF k \in invalid THEN "queue_edit" ELSE "queue_choose"
      <3> SUFFICES ASSUME NEW c \in free \intersect F
                   PROVE  /\ next[c].queued = TRUE /\ next[c].root = k
                          /\ next[c].reason = IF k \in invalid THEN "queue_edit" ELSE "queue_choose"
        OBVIOUS
      <3>1. next[c] = Queue("closure", k, own[k].reason)
        BY <2>4
      <3>2. own[k].reason = IF k \in invalid THEN "queue_edit" ELSE "queue_choose"
        BY <1>2
      <3> QED BY <3>1, <3>2 DEF Queue
    <2>7. \A c \in unsent : c \notin free \intersect F => next[c] = plan[c]
      BY <2>4
    <2>8. \A c \in unsent : next[c].queued <=> c \in F \/ plan[c].queued
      <3> SUFFICES ASSUME NEW c \in unsent PROVE next[c].queued <=> c \in F \/ plan[c].queued
        OBVIOUS
      <3>1. CASE c \in free \intersect F
        BY <2>6, <3>1
      <3>2. CASE c \notin free \intersect F
        <4>1. next[c] = plan[c]
          BY <2>7, <3>2
        <4>2. c \in F => plan[c].queued
          BY <3>2
        <4> QED BY <4>1, <4>2
      <3> QED BY <3>1, <3>2
    <2>9. \A c \in unsent : next[c].queued \in BOOLEAN
      <3> SUFFICES ASSUME NEW c \in unsent PROVE next[c].queued \in BOOLEAN
        OBVIOUS
      <3>1. CASE c \in free \intersect F
        BY <2>6, <3>1
      <3>2. CASE c \notin free \intersect F
        BY <2>7, <3>2 DEF PlanTo
      <3> QED BY <3>1, <3>2
    <2>10. \A c \in roots : next[c].queued
      BY <2>8 DEF PlanTo
    <2>11. F \intersect unsent \subseteq LeastClosure(unsent, shape, {k})
      <3> SUFFICES ASSUME NEW c \in F \intersect unsent, NEW set \in SUBSET unsent,
                          {k} \subseteq set, Closed(unsent, shape, set)
                   PROVE  c \in set
        BY DEF LeastClosure
      <3>1. \A d \in set, o \in free : Pulls(shape, d, o) => o \in set
        BY DEF Closed, Pulls
      <3> HIDE DEF free
      <3> QED BY <2>3, <3>1
    <2>12. \A c \in unsent : next[c].queued => Rooted(unsent, shape, roots, invalid, next[c], c)
      <3> SUFFICES ASSUME NEW c \in unsent, next[c].queued
                   PROVE  Rooted(unsent, shape, roots, invalid, next[c], c)
        OBVIOUS
      <3>1. CASE c \in free \intersect F
        BY <1>2, <2>6, <2>11, <3>1 DEF Rooted
      <3>2. CASE c \notin free \intersect F
        <4>1. next[c] = plan[c]
          BY <2>7, <3>2
        <4> QED BY <4>1 DEF PlanTo
      <3> QED BY <3>1, <3>2
    <2>13. \A c \in unsent : next[c].queued /\ next[c].root > k => next[c].root = c
      <3> SUFFICES ASSUME NEW c \in unsent, next[c].queued, next[c].root > k
                   PROVE  next[c].root = c
        OBVIOUS
      <3>1. c \notin free \intersect F
        BY <2>6
      <3>2. next[c] = plan[c]
        BY <2>7, <3>1
      <3>3. plan[c].root \in Nat /\ plan[c].root > k
        BY <2>12, <3>2 DEF Rooted
      <3>4. plan[c].root > k - 1
        BY <3>3
      <3> QED BY <3>2, <3>4 DEF PlanTo
    <2>14. \A c, o \in unsent :
               next[c].queued /\ next[c].root <= k /\ Pulls(shape, c, o) => next[o].queued
      <3> SUFFICES ASSUME NEW c \in unsent, NEW o \in unsent,
                          next[c].queued, next[c].root <= k, Pulls(shape, c, o), ~plan[o].queued
                   PROVE  next[o].queued
        BY <2>8
      <3>1. c \in F => o \in F
        BY <2>3
      <3>2. CASE c \in free \intersect F
        BY <2>8, <3>1, <3>2
      <3>3. CASE c \notin free \intersect F
        <4>1. next[c] = plan[c]
          BY <2>7, <3>3
        <4>2. plan[c].root \in Nat
          BY <2>12, <4>1 DEF Rooted
        <4>3. CASE plan[c].root <= k - 1
          BY <4>1, <4>3 DEF PlanTo
        <4>4. CASE plan[c].root = k
          <5>1. plan[c].root > k - 1
            BY <4>4
          <5>2. plan[c].root = c
            BY <4>1, <5>1 DEF PlanTo
          <5>3. c \in F
            BY <2>3, <4>4, <5>2
          <5> QED BY <2>8, <3>1, <5>3
        <4> QED BY <4>1, <4>2, <4>3, <4>4
      <3> QED BY <3>2, <3>3
    <2>15. PlanTo(unsent, shape, roots, invalid, k, next)
      <3> HIDE DEF free
      <3> QED BY <2>5, <2>9, <2>10, <2>12, <2>13, <2>14 DEF PlanTo
    <2> QED BY <2>1, <2>15
  <1> QED BY <1>1, <1>2

(***************************************************************************)
(* plan(): what the root-by-root walk queues is the least set that holds    *)
(* the commands in conflict, their groups and what they caused, and every   *)
(* queued command names a conflict that pulls it in.                        *)
(***************************************************************************)
LEMMA PlanIsClosure ==
    ASSUME NEW unsent \in SUBSET (Nat \ {0}), IsFiniteSet(unsent), NEW bound \in Nat,
           \A c \in unsent : c <= bound,
           NEW shape, NEW touched, NEW invalid \in SUBSET unsent
    PROVE  LET plan == Plan(unsent, shape, touched, invalid)
               roots == Conflicts(unsent, shape, touched, invalid)
           IN  /\ DOMAIN plan = unsent
               /\ \A c \in unsent : plan[c].queued \in BOOLEAN
               /\ Queued(plan) = LeastClosure(unsent, shape, roots)
               /\ WellRooted(unsent, shape, roots, invalid, plan)
  <1> DEFINE plan == Plan(unsent, shape, touched, invalid)
             roots == Conflicts(unsent, shape, touched, invalid)
             own == Own(unsent, shape, touched, invalid)
             last == Max(unsent \union {0})
  <1>1. last \in Nat /\ \A c \in unsent : c <= last
    <2>1. unsent \union {0} \in SUBSET Nat /\ \A c \in unsent \union {0} : c <= bound
      OBVIOUS
    <2>2. last \in unsent \union {0} /\ \A c \in unsent \union {0} : c <= last
      BY <2>1, MaxIsLast
    <2> HIDE DEF last
    <2> QED BY <2>2
  <1>2. roots \in SUBSET unsent
    BY DEF Conflicts
  <1>3. PlanTo(unsent, shape, roots, invalid, 0, own) /\ \A c \in unsent : own[c].queued <=> c \in roots
    BY OwnRule
  <1>5. PICK p : /\ plan = p[last] /\ p[0] = own
                 /\ \A k \in 1 .. last : p[k] = ClosedUpTo(unsent, shape, own, k, p[k - 1])
    BY <1>1, PlanDefined
  <1> HIDE DEF plan, roots, own, last
  <1>4. \A c \in roots : own[c].reason = IF c \in invalid THEN "queue_edit" ELSE "queue_choose"
    <2> SUFFICES ASSUME NEW c \in roots
                 PROVE  own[c].reason = IF c \in invalid THEN "queue_edit" ELSE "queue_choose"
      OBVIOUS
    <2>1. c \in unsent /\ own[c].queued
      BY <1>2, <1>3
    <2>2. Rooted(unsent, shape, roots, invalid, own[c], c)
      BY <1>3, <2>1 DEF PlanTo
    <2>3. own[c].root > 0
      <3>1. own[c].root \in Nat /\ own[c].root # 0
        BY <1>2, <2>2 DEF Rooted
      <3> QED BY <3>1
    <2>4. own[c].root = c
      BY <1>3, <2>1, <2>3 DEF PlanTo
    <2> QED BY <2>2, <2>4 DEF Rooted
  <1>6. PlanTo(unsent, shape, roots, invalid, last, plan)
    <2> DEFINE S == {n \in Nat : n <= last => PlanTo(unsent, shape, roots, invalid, n, p[n])}
    <2>1. 0 \in S
      BY <1>3, <1>5
    <2>2. ASSUME NEW n \in Nat, n \in S, n + 1 <= last
          PROVE  PlanTo(unsent, shape, roots, invalid, n + 1, p[n + 1])
      <3>1. n <= last /\ n + 1 \in 1 .. last /\ (n + 1) - 1 = n /\ n + 1 # 0 /\ n + 1 \in Nat
        BY <1>1, <2>2
      <3>2. PlanTo(unsent, shape, roots, invalid, (n + 1) - 1, p[n])
        BY <2>2, <3>1
      <3>3. p[n + 1] = ClosedUpTo(unsent, shape, own, n + 1, p[n])
        BY <1>5, <3>1
      <3> HIDE DEF S
      <3> QED BY <1>2, <1>3, <1>4, <3>1, <3>2, <3>3, RootClosed
    <2>3. \A n \in Nat : n \in S => n + 1 \in S
      BY <2>2
    <2> HIDE DEF S
    <2>4. Nat \subseteq S
      BY <2>1, <2>3, Count
    <2> QED BY <1>1, <1>5, <2>4 DEF S
  <1>7. \A c \in unsent : plan[c].queued => plan[c].root \in roots /\ plan[c].root <= last
    BY <1>1, <1>2, <1>6 DEF PlanTo, Rooted
  <1>8. LeastClosure(unsent, shape, roots) \subseteq Queued(plan)
    <2> SUFFICES ASSUME NEW c \in LeastClosure(unsent, shape, roots)
                 PROVE  c \in Queued(plan)
      OBVIOUS
    <2>1. Queued(plan) \in SUBSET unsent /\ roots \subseteq Queued(plan)
      BY <1>2, <1>6 DEF PlanTo, Queued
    <2>2. Closed(unsent, shape, Queued(plan))
      BY <1>6, <1>7 DEF PlanTo, Queued, Closed, Pulls
    <2> QED BY <2>1, <2>2 DEF LeastClosure
  <1>9. Queued(plan) \subseteq LeastClosure(unsent, shape, roots)
    <2> SUFFICES ASSUME NEW c \in Queued(plan)
                 PROVE  c \in LeastClosure(unsent, shape, roots)
      OBVIOUS
    <2>1. c \in unsent /\ plan[c].queued
      BY <1>6 DEF PlanTo, Queued
    <2>2. plan[c].root \in roots /\ c \in LeastClosure(unsent, shape, {plan[c].root})
      BY <1>6, <2>1 DEF PlanTo, Rooted
    <2>3. {plan[c].root} \in SUBSET unsent /\ {plan[c].root} \subseteq roots
      BY <1>2, <2>2
    <2>4. LeastClosure(unsent, shape, {plan[c].root}) \subseteq LeastClosure(unsent, shape, roots)
      BY <2>3, ClosureGrows
    <2> QED BY <2>2, <2>4
  <1>10. WellRooted(unsent, shape, roots, invalid, plan)
    BY <1>6 DEF PlanTo, Rooted, Queued, WellRooted
  <1>11. DOMAIN plan = unsent /\ \A c \in unsent : plan[c].queued \in BOOLEAN
    BY <1>6 DEF PlanTo
  <1> QED BY <1>8, <1>9, <1>10, <1>11 DEF plan, roots

\* The closure looks at the shapes of the unpushed commands alone.
LEMMA ClosureKept ==
    ASSUME NEW unsent, NEW shape, NEW other, NEW roots,
           \A c \in unsent : other[c] = shape[c]
    PROVE  LeastClosure(unsent, other, roots) = LeastClosure(unsent, shape, roots)
  <1>1. \A set \in SUBSET unsent : Closed(unsent, other, set) <=> Closed(unsent, shape, set)
    <2> SUFFICES ASSUME NEW set \in SUBSET unsent
                 PROVE  Closed(unsent, other, set) <=> Closed(unsent, shape, set)
      OBVIOUS
    <2>1. \A c \in set : c \in unsent /\ other[c] = shape[c]
      OBVIOUS
    <2> QED BY <2>1 DEF Closed
  <1> QED BY <1>1 DEF LeastClosure

-----------------------------------------------------------------------------
(* The service's log sv, and what a vault holds of it. *)

Entries == [id : Ids, rows : SUBSET Rows]

\* The ids of its first s entries, and those of the others.
Upto(sv, s) == {sv[i].id : i \in 1 .. s}
Past(sv, s) == Upto(sv, Len(sv)) \ Upto(sv, s)
Foreign(sv) == {i \in 1 .. Len(sv) : sv[i].id \in Remotes}

\* Only what was dispatched here, n commands, or accepted from another device is in a vault.
Born(set, n, sv) == set \subseteq (1 .. n) \union (Upto(sv, Len(sv)) \intersect Remotes)

\* No command is in the log twice, and the other devices' are numbered as they come.
LogOrdered(n, sv) ==
    /\ sv \in Seq(Entries)
    /\ \A i, j \in 1 .. Len(sv) : sv[i].id = sv[j].id => i = j
    /\ \A i \in 1 .. Len(sv) : \/ sv[i].id \in 1 .. n
                               \/ sv[i].id \in Remotes /\ sv[i].id <= MaxLocal + Cardinality(Foreign(sv))
    /\ Cardinality(Foreign(sv)) <= MaxRemote

\* A vault, live or in a backup, that holds the commands d, with the outbox o, up to entry k:
\* of the entries after k it holds those alone that its outbox still names.
Follows(d, o, k, n, sv) ==
    /\ Born(d, n, sv)
    /\ o \subseteq d /\ o \subseteq 1 .. n
    /\ k \in 0 .. Len(sv)
    /\ Upto(sv, k) \subseteq d
    /\ o \intersect Upto(sv, k) = {}
    /\ d \intersect Past(sv, k) \subseteq o

\* What the commands h of an image are for that vault: its state at entry s.
Base(h, s, d, o, sv, late) ==
    /\ Upto(sv, s) \subseteq h
    /\ h \intersect Past(sv, s) = {}
    /\ h \intersect o = {}
    /\ d \subseteq h \union Past(sv, s) \union o \union late

\* The log tv goes on from sv, with the ids in new.
GrownBy(sv, tv, new) ==
    /\ Len(sv) <= Len(tv)
    /\ \A i \in 1 .. Len(sv) : tv[i] = sv[i]
    /\ Upto(tv, Len(tv)) \subseteq Upto(sv, Len(sv)) \union new

LEMMA Bounds ==
    /\ MaxLocal \in Nat /\ MaxDispatch \in Nat /\ MaxRemote \in Nat /\ MaxImages \in Nat
    /\ MaxDispatch <= MaxLocal
  BY SyncBaseAssumption

LEMMA UptoGrows ==
    ASSUME NEW sv, NEW s \in Nat, NEW t \in Nat, s <= t
    PROVE  Upto(sv, s) \subseteq Upto(sv, t)
  BY DEF Upto

LEMMA UptoTyped ==
    ASSUME NEW sv \in Seq(Entries), NEW s \in 0 .. Len(sv)
    PROVE  Upto(sv, s) \subseteq Ids
  <1>1. \A i \in 1 .. s : sv[i] \in Entries
    OBVIOUS
  <1>2. \A e \in Entries : e.id \in Ids
    BY DEF Entries
  <1> QED BY <1>1, <1>2 DEF Upto

LEMMA UptoNext ==
    ASSUME NEW sv \in Seq(Entries), NEW s \in Nat
    PROVE  Upto(sv, s + 1) = Upto(sv, s) \union {sv[s + 1].id}
  <1>1. \A i : i \in 1 .. s + 1 <=> i \in 1 .. s \/ i = s + 1
    OBVIOUS
  <1> QED BY <1>1 DEF Upto

\* No two indexes have one id: the next entry is not among the earlier ones.
LEMMA NextIsNew ==
    ASSUME NEW n, NEW sv, LogOrdered(n, sv), NEW s \in Nat, s < Len(sv)
    PROVE  /\ sv[s + 1].id \in Past(sv, s)
           /\ sv[s + 1].id \in Ids
           /\ \A t \in 0 .. s : sv[s + 1].id \in Past(sv, t)
  <1>1. sv \in Seq(Entries) /\ Len(sv) \in Nat /\ s + 1 \in 1 .. Len(sv)
    BY DEF LogOrdered
  <1>2. sv[s + 1].id \in Upto(sv, Len(sv))
    BY <1>1 DEF Upto
  <1>3. ASSUME NEW t \in 0 .. s PROVE sv[s + 1].id \notin Upto(sv, t)
    <2> SUFFICES ASSUME NEW i \in 1 .. t, sv[i].id = sv[s + 1].id PROVE FALSE
      BY DEF Upto
    <2>1. i \in 1 .. Len(sv) /\ i # s + 1
      BY <1>1
    <2> QED BY <1>1, <2>1 DEF LogOrdered
  <1>4. sv[s + 1].id \in Ids
    <2>1. sv[s + 1] \in Entries
      BY <1>1
    <2> QED BY <2>1 DEF Entries
  <1> QED BY <1>2, <1>3, <1>4 DEF Past

\* The log has no room for more entries than there are ids.
LEMMA LogBounded ==
    ASSUME NEW n, NEW sv, LogOrdered(n, sv)
    PROVE  Len(sv) \in Heads
  <1> DEFINE f == [i \in 1 .. Len(sv) |-> sv[i].id]
  <1>1. sv \in Seq(Entries) /\ Len(sv) \in Nat
    BY DEF LogOrdered
  <1>2. f \in [1 .. Len(sv) -> Ids]
    <2>1. \A i \in 1 .. Len(sv) : sv[i] \in Entries
      BY <1>1
    <2>2. \A e \in Entries : e.id \in Ids
      BY DEF Entries
    <2> QED BY <2>1, <2>2
  <1>3. \A i, j \in 1 .. Len(sv) : f[i] = f[j] => i = j
    BY DEF LogOrdered
  <1>4. f \in Injection(1 .. Len(sv), Ids)
    BY <1>2, <1>3 DEF Injection, IsInjective
  <1>5. Ids = 1 .. (MaxLocal + MaxRemote)
    <2>1. \A x : x \in Ids <=> x \in 1 .. (MaxLocal + MaxRemote)
      BY Bounds DEF Ids, Locals, Remotes
    <2> QED BY <2>1
  <1>6. IsFiniteSet(Ids) /\ Cardinality(Ids) = MaxLocal + MaxRemote
    <2> DEFINE m == MaxLocal + MaxRemote
    <2>1. m \in Int /\ 1 \in Int /\ m >= 0
      BY Bounds
    <2>m. Ids = 1 .. m
      BY <1>5
    <2>n. m = MaxLocal + MaxRemote
      OBVIOUS
    <2> HIDE DEF m
    <2>2. IsFiniteSet(1 .. m) /\ Cardinality(1 .. m) = IF 1 > m THEN 0 ELSE m - 1 + 1
      BY <2>1, FS_Interval
    <2>3. Cardinality(1 .. m) = m
      BY <2>1, <2>2
    <2>4. IsFiniteSet(Ids)
      BY <2>m, <2>2, Zenon
    <2>5. Cardinality(Ids) = m
      BY <2>m, <2>3, Zenon
    <2> QED BY <2>n, <2>4, <2>5, Zenon
  <1>7. Cardinality(1 .. Len(sv)) = Len(sv)
    <2>1. Cardinality(1 .. Len(sv)) = IF 1 > Len(sv) THEN 0 ELSE Len(sv) - 1 + 1
      BY <1>1, FS_Interval
    <2> QED BY <1>1, <2>1
  <1> HIDE DEF f
  <1>8. Cardinality(1 .. Len(sv)) <= Cardinality(Ids)
    BY <1>4, <1>6, FS_Injection
  <1> QED BY <1>1, <1>6, <1>7, <1>8, Bounds DEF Heads

LEMMA ForeignFinite ==
    ASSUME NEW sv, Len(sv) \in Nat
    PROVE  IsFiniteSet(Foreign(sv)) /\ Cardinality(Foreign(sv)) \in Nat
  <1>1. Foreign(sv) \in SUBSET (1 .. Len(sv)) /\ IsFiniteSet(1 .. Len(sv))
    BY FS_Interval DEF Foreign
  <1>2. IsFiniteSet(Foreign(sv))
    BY <1>1, FS_Subset
  <1> QED BY <1>2, FS_CardinalityType

\* A command dispatched next is in no vault and not in the log.
LEMMA NextIsUnborn ==
    ASSUME NEW n \in Nat, n + 1 <= MaxLocal, NEW sv, LogOrdered(n, sv)
    PROVE  /\ \A set : Born(set, n, sv) => n + 1 \notin set
           /\ n + 1 \notin Upto(sv, Len(sv))
  <1>1. n + 1 \notin Remotes
    BY Bounds DEF Remotes
  <1>2. \A i \in 1 .. Len(sv) : sv[i].id # n + 1
    BY <1>1 DEF LogOrdered
  <1> QED BY <1>1, <1>2 DEF Born, Upto

\* What was said of a vault stays true when commands are dispatched and entries accepted.
LEMMA GrownUpto ==
    ASSUME NEW sv, NEW tv, NEW new, GrownBy(sv, tv, new), Len(sv) \in Nat, Len(tv) \in Nat
    PROVE  /\ \A s \in 0 .. Len(sv) : Upto(tv, s) = Upto(sv, s)
           /\ Upto(sv, Len(sv)) \subseteq Upto(tv, Len(tv))
           /\ \A s \in 0 .. Len(sv) : Past(sv, s) \subseteq Past(tv, s)
           /\ \A s \in 0 .. Len(sv) : Past(tv, s) \subseteq Past(sv, s) \union new
  <1>1. ASSUME NEW s \in 0 .. Len(sv) PROVE Upto(tv, s) = Upto(sv, s)
    <2>1. \A i \in 1 .. s : tv[i] = sv[i]
      BY DEF GrownBy
    <2> QED BY <2>1 DEF Upto
  <1>2. Upto(sv, Len(sv)) \subseteq Upto(tv, Len(tv))
    <2>1. Upto(tv, Len(sv)) = Upto(sv, Len(sv))
      BY <1>1
    <2>2. Upto(tv, Len(sv)) \subseteq Upto(tv, Len(tv))
      BY UptoGrows DEF GrownBy
    <2> QED BY <2>1, <2>2
  <1>3. Upto(tv, Len(tv)) \subseteq Upto(sv, Len(sv)) \union new
    BY DEF GrownBy
  <1> QED BY <1>1, <1>2, <1>3 DEF Past

LEMMA BornGrows ==
    ASSUME NEW sv, NEW tv, NEW new, GrownBy(sv, tv, new), Len(sv) \in Nat, Len(tv) \in Nat,
           NEW n \in Nat, NEW m \in Nat, n <= m, NEW set, Born(set, n, sv)
    PROVE  Born(set, m, tv)
  <1>1. Upto(sv, Len(sv)) \subseteq Upto(tv, Len(tv))
    BY GrownUpto
  <1>2. 1 .. n \subseteq 1 .. m
    OBVIOUS
  <1> QED BY <1>1, <1>2 DEF Born

LEMMA FollowsGrows ==
    ASSUME NEW sv, NEW tv, NEW new, GrownBy(sv, tv, new), Len(sv) \in Nat, Len(tv) \in Nat,
           NEW n \in Nat, NEW m \in Nat, n <= m,
           NEW d, NEW o, NEW k, Follows(d, o, k, n, sv), new \intersect d \subseteq o
    PROVE  Follows(d, o, k, m, tv)
  <1>1. Born(d, m, tv)
    BY BornGrows DEF Follows
  <1>2. k \in 0 .. Len(sv) /\ k \in 0 .. Len(tv)
    BY DEF Follows, GrownBy
  <1>3. Upto(tv, k) = Upto(sv, k) /\ Past(tv, k) \subseteq Past(sv, k) \union new
    BY <1>2, GrownUpto
  <1>4. 1 .. n \subseteq 1 .. m
    OBVIOUS
  <1> QED BY <1>1, <1>2, <1>3, <1>4 DEF Follows

LEMMA BaseGrows ==
    ASSUME NEW sv, NEW tv, NEW new, GrownBy(sv, tv, new), Len(sv) \in Nat, Len(tv) \in Nat,
           NEW h, NEW s \in 0 .. Len(sv), NEW d, NEW o, NEW late, Base(h, s, d, o, sv, late),
           new \intersect h = {}
    PROVE  Base(h, s, d, o, tv, late)
  <1>1. /\ Upto(tv, s) = Upto(sv, s) /\ Past(sv, s) \subseteq Past(tv, s)
        /\ Past(tv, s) \subseteq Past(sv, s) \union new
    BY GrownUpto
  <1> QED BY <1>1 DEF Base

LEMMA SameGrows == \A sv : Len(sv) \in Nat => GrownBy(sv, sv, {})
  BY DEF GrownBy

-----------------------------------------------------------------------------
(* A push and another device's entry. *)

\* The ascending order of a set of commands is there, and is onto.
LEMMA OrderExists ==
    ASSUME NEW m \in Nat
    PROVE  \A set \in SUBSET (1 .. m) :
               \E q \in [1 .. Cardinality(set) -> set] :
                   /\ \A i, j \in DOMAIN q : i < j => q[i] < q[j]
                   /\ \A c \in set : \E i \in DOMAIN q : q[i] = c
  <1> DEFINE Ordered(set, q) == /\ q \in [1 .. Cardinality(set) -> set]
                                /\ \A i, j \in DOMAIN q : i < j => q[i] < q[j]
                                /\ \A c \in set : \E i \in DOMAIN q : q[i] = c
             S == {n \in Nat : \A set \in SUBSET (1 .. n) : \E q : Ordered(set, q)}
  <1>1. 0 \in S
    <2> SUFFICES ASSUME NEW set \in SUBSET (1 .. 0) PROVE \E q : Ordered(set, q)
      OBVIOUS
    <2>0. set = {}
      OBVIOUS
    <2>1. set = {} /\ Cardinality(set) = 0
      BY <2>0, FS_EmptySet
    <2> DEFINE q == [i \in 1 .. 0 |-> 0]
    <2>2. q \in [1 .. Cardinality(set) -> set] /\ DOMAIN q = {}
      BY <2>1
    <2>3. Ordered(set, q)
      BY <2>1, <2>2
    <2> QED BY <2>3
  <1>2. ASSUME NEW n \in Nat, n \in S PROVE n + 1 \in S
    <2> SUFFICES ASSUME NEW set \in SUBSET (1 .. n + 1) PROVE \E q : Ordered(set, q)
      OBVIOUS
    <2> DEFINE small == set \ {n + 1}
    <2>1. small \in SUBSET (1 .. n)
      OBVIOUS
    <2>2. PICK q : Ordered(small, q)
      BY <1>2, <2>1
    <2>3. CASE n + 1 \notin set
      <3>1. small = set
        BY <2>3
      <3> QED BY <2>2, <3>1
    <2>4. CASE n + 1 \in set
      <3> DEFINE k == Cardinality(small)
                 p == [i \in 1 .. k + 1 |-> IF i = k + 1 THEN n + 1 ELSE q[i]]
      <3>1. IsFiniteSet(small) /\ k \in Nat
        <4>1. IsFiniteSet(1 .. n)
          BY FS_Interval
        <4>2. IsFiniteSet(small)
          BY <2>1, <4>1, FS_Subset
        <4> QED BY <4>2, FS_CardinalityType
      <3>2. Cardinality(set) = k + 1
        <4>1. set = small \union {n + 1} /\ n + 1 \notin small
          BY <2>4
        <4> HIDE DEF small
        <4>2. Cardinality(small \union {n + 1}) = Cardinality(small) + 1
          BY <3>1, <4>1, FS_AddElement
        <4> QED BY <4>1, <4>2
      <3>3. q \in [1 .. k -> small] /\ DOMAIN q = 1 .. k
        BY <2>2
      <3> HIDE DEF k
      <3>4. \A i \in 1 .. k : p[i] = q[i] /\ q[i] \in small /\ q[i] \in Nat /\ q[i] <= n
        <4> SUFFICES ASSUME NEW i \in 1 .. k
                     PROVE  p[i] = q[i] /\ q[i] \in small /\ q[i] \in Nat /\ q[i] <= n
          OBVIOUS
        <4>1. q[i] \in small
          BY <3>3
        <4>2. q[i] \in 1 .. n
          BY <2>1, <4>1
        <4>3. i \in 1 .. k + 1 /\ i # k + 1
          BY <3>1
        <4> HIDE DEF small
        <4> QED BY <4>1, <4>2, <4>3
      <3>5. p[k + 1] = n + 1 /\ DOMAIN p = 1 .. k + 1
        BY <3>1
      <3>6. p \in [1 .. k + 1 -> set]
        <4> SUFFICES ASSUME NEW i \in 1 .. k + 1 PROVE p[i] \in set
          BY <3>5
        <4>1. CASE i = k + 1
          BY <2>4, <3>5, <4>1
        <4>2. CASE i # k + 1
          <5>1. i \in 1 .. k
            BY <3>1, <4>2
          <5>2. p[i] \in small
            BY <3>4, <5>1
          <5> QED BY <5>2
        <4> QED BY <4>1, <4>2
      <3>7. ASSUME NEW i \in 1 .. k + 1, NEW j \in 1 .. k + 1, i < j PROVE p[i] < p[j]
        <4>1. i \in 1 .. k
          BY <3>1, <3>7
        <4>2. CASE j = k + 1
          <5>1. p[i] \in Nat /\ p[i] <= n /\ p[j] = n + 1
            BY <3>4, <3>5, <4>1, <4>2
          <5> HIDE DEF p
          <5> QED BY <5>1
        <4>3. CASE j # k + 1
          <5>1. j \in 1 .. k
            BY <3>1, <4>3
          <5>2. q[i] < q[j]
            <6> HIDE DEF p, small
            <6> QED BY <2>2, <3>3, <3>7, <4>1, <5>1
          <5> QED BY <3>4, <4>1, <5>1, <5>2
        <4> QED BY <4>2, <4>3
      <3>8. ASSUME NEW c \in set PROVE \E i \in 1 .. k + 1 : p[i] = c
        <4>1. CASE c = n + 1
          <5>1. k + 1 \in 1 .. k + 1
            BY <3>1
          <5> QED BY <3>5, <4>1, <5>1
        <4>2. CASE c # n + 1
          <5>1. PICK i \in 1 .. k : q[i] = c
            BY <2>2, <3>3, <4>2
          <5>2. i \in 1 .. k + 1
            BY <3>1
          <5> QED BY <3>4, <5>1, <5>2
        <4> QED BY <4>1, <4>2
      <3> HIDE DEF p, small
      <3>9. Ordered(set, p)
        <4>1. p \in [1 .. Cardinality(set) -> set]
          BY <3>2, <3>6
        <4>2. \A i, j \in DOMAIN p : i < j => p[i] < p[j]
          BY <3>5, <3>7
        <4>3. \A d \in set : \E i \in DOMAIN p : p[i] = d
          BY <3>5, <3>8
        <4> QED BY <4>1, <4>2, <4>3
      <3> QED BY <3>9
    <2> QED BY <2>3, <2>4
  <1> HIDE DEF S
  <1>3. Nat \subseteq S
    BY <1>1, <1>2, Count
  <1>4. \A set \in SUBSET (1 .. m) : \E q : Ordered(set, q)
    <2> HIDE DEF Ordered
    <2> QED BY <1>3 DEF S
  <1> SUFFICES ASSUME NEW set \in SUBSET (1 .. m)
               PROVE  \E q \in [1 .. Cardinality(set) -> set] :
                          /\ \A i, j \in DOMAIN q : i < j => q[i] < q[j]
                          /\ \A c \in set : \E i \in DOMAIN q : q[i] = c
    OBVIOUS
  <1>5. PICK q : Ordered(set, q)
    BY <1>4
  <1> QED BY <1>5, Zenon

LEMMA AscendingIs ==
    ASSUME NEW set \in SUBSET Locals
    PROVE  /\ Cardinality(set) \in Nat
           /\ Ascending(set) \in [1 .. Cardinality(set) -> set]
           /\ \A i, j \in 1 .. Cardinality(set) : Ascending(set)[i] = Ascending(set)[j] => i = j
           /\ \A c \in set : \E i \in 1 .. Cardinality(set) : Ascending(set)[i] = c
  <1> DEFINE k == Cardinality(set)
             Rising(q) == q \in [1 .. k -> set] /\ \A i, j \in DOMAIN q : i < j => q[i] < q[j]
  <1>1. IsFiniteSet(set) /\ k \in Nat
    <2>1. IsFiniteSet(Locals)
      BY Bounds, FS_Interval DEF Locals
    <2>2. IsFiniteSet(set)
      BY <2>1, FS_Subset
    <2> QED BY <2>2, FS_CardinalityType
  <1>2. PICK p : Rising(p)
    BY OrderExists, Bounds DEF Locals
  <1>3. Rising(Ascending(set))
    BY <1>2 DEF Ascending
  <1> DEFINE q == Ascending(set)
  <1>4. q \in [1 .. k -> set] /\ \A i, j \in 1 .. k : i < j => q[i] < q[j]
    BY <1>3
  <1> HIDE DEF q, k
  <1>5. \A i \in 1 .. k : q[i] \in set /\ q[i] \in Nat
    <2>1. \A c \in set : c \in Nat
      BY Bounds DEF Locals
    <2> QED BY <1>4, <2>1
  <1>6. ASSUME NEW i \in 1 .. k, NEW j \in 1 .. k, q[i] = q[j] PROVE i = j
    <2>1. ~(i < j) /\ ~(j < i)
      BY <1>4, <1>5, <1>6
    <2> QED BY <2>1
  <1>7. q \in Injection(1 .. k, set)
    BY <1>4, <1>6 DEF Injection, IsInjective
  <1>8. Cardinality(1 .. k) = k
    BY <1>1, FS_Interval
  <1>9. q \in Surjection(1 .. k, set)
    BY <1>1, <1>7, <1>8, FS_Injection DEF k
  <1>10. \A c \in set : \E i \in 1 .. k : q[i] = c
    BY <1>9 DEF Surjection
  <1> QED BY <1>1, <1>4, <1>6, <1>10 DEF k, q

\* An accepted push appends each unpushed command once.
LEMMA PushAppends ==
    ASSUME NEW n \in Nat, n <= MaxLocal, NEW sv, LogOrdered(n, sv),
           NEW o \in SUBSET (1 .. n), o \intersect Upto(sv, Len(sv)) = {},
           NEW list, NEW tv,
           list \in [1 .. Cardinality(o) -> Entries],
           \A i \in 1 .. Cardinality(o) : list[i].id = Ascending(o)[i],
           tv = sv \o list
    PROVE  LogOrdered(n, tv) /\ GrownBy(sv, tv, o) /\ o \subseteq Upto(tv, Len(tv))
  <1> DEFINE k == Cardinality(o)
             a == Ascending(o)
  <1>1. /\ k \in Nat /\ a \in [1 .. k -> o]
        /\ \A i, j \in 1 .. k : a[i] = a[j] => i = j
        /\ \A c \in o : \E i \in 1 .. k : a[i] = c
    <2>1. o \in SUBSET Locals
      BY Bounds DEF Locals
    <2> QED BY <2>1, AscendingIs
  <1>0. list \in [1 .. k -> Entries] /\ \A i \in 1 .. k : list[i].id = a[i]
    OBVIOUS
  <1> HIDE DEF k, a
  <1>2. sv \in Seq(Entries) /\ Len(sv) \in Nat
    BY DEF LogOrdered
  <1>3. list \in Seq(Entries) /\ Len(list) = k
    <2>1. list \in Seq(Entries)
      BY <1>0, <1>1, SeqDef
    <2>2. DOMAIN list = 1 .. Len(list) /\ Len(list) \in Nat /\ DOMAIN list = 1 .. k
      BY <1>0, <2>1, LenProperties
    <2>3. \A i \in Nat : i \in 1 .. Len(list) <=> i \in 1 .. k
      BY <2>2
    <2>4. Len(list) <= k /\ k <= Len(list)
      BY <1>1, <2>2, <2>3
    <2> QED BY <1>1, <2>1, <2>2, <2>4
  <1>c. /\ tv \in Seq(Entries) /\ Len(tv) = Len(sv) + k
        /\ \A i \in 1 .. Len(sv) + k : tv[i] = IF i <= Len(sv) THEN sv[i] ELSE list[i - Len(sv)]
    BY <1>2, <1>3, ConcatProperties
  <1>4. tv \in Seq(Entries) /\ Len(tv) = Len(sv) + k
    BY <1>c
  <1>5. \A i \in 1 .. Len(sv) : tv[i] = sv[i]
    BY <1>1, <1>2, <1>c
  <1>6. \A i \in 1 .. k : tv[Len(sv) + i].id = a[i]
    <2> SUFFICES ASSUME NEW i \in 1 .. k PROVE tv[Len(sv) + i].id = a[i]
      OBVIOUS
    <2>1. Len(sv) + i \in 1 .. Len(sv) + k /\ ~(Len(sv) + i <= Len(sv)) /\ (Len(sv) + i) - Len(sv) = i
      BY <1>1, <1>2
    <2>2. tv[Len(sv) + i] = list[i]
      BY <1>c, <2>1
    <2> QED BY <1>0, <2>2
  <1>7. \A i \in 1 .. Len(tv) : i \in 1 .. Len(sv) \/ \E j \in 1 .. k : i = Len(sv) + j
    <2> SUFFICES ASSUME NEW i \in 1 .. Len(tv), i \notin 1 .. Len(sv)
                 PROVE  \E j \in 1 .. k : i = Len(sv) + j
      OBVIOUS
    <2>1. i - Len(sv) \in 1 .. k /\ i = Len(sv) + (i - Len(sv))
      BY <1>1, <1>2, <1>4
    <2> QED BY <2>1
  <1>8. \A i \in 1 .. Len(sv) : sv[i].id \in Upto(sv, Len(sv))
    BY DEF Upto
  <1>9. \A i \in 1 .. k : a[i] \in o
    BY <1>1
  <1>10. \A i, j \in 1 .. Len(tv) : tv[i].id = tv[j].id => i = j
    <2> SUFFICES ASSUME NEW i \in 1 .. Len(tv), NEW j \in 1 .. Len(tv), tv[i].id = tv[j].id
                 PROVE  i = j
      OBVIOUS
    <2>1. CASE i \in 1 .. Len(sv) /\ j \in 1 .. Len(sv)
      BY <1>5, <2>1 DEF LogOrdered
    <2>2. CASE i \in 1 .. Len(sv) /\ j \notin 1 .. Len(sv)
      <3>1. tv[i].id \in Upto(sv, Len(sv))
        BY <1>5, <1>8, <2>2
      <3>2. tv[j].id \in o
        BY <1>6, <1>7, <1>9, <2>2
      <3> QED BY <3>1, <3>2
    <2>3. CASE i \notin 1 .. Len(sv) /\ j \in 1 .. Len(sv)
      <3>1. tv[j].id \in Upto(sv, Len(sv))
        BY <1>5, <1>8, <2>3
      <3>2. tv[i].id \in o
        BY <1>6, <1>7, <1>9, <2>3
      <3> QED BY <3>1, <3>2
    <2>4. CASE i \notin 1 .. Len(sv) /\ j \notin 1 .. Len(sv)
      <3>1. PICK x \in 1 .. k : i = Len(sv) + x
        BY <1>7, <2>4
      <3>2. PICK y \in 1 .. k : j = Len(sv) + y
        BY <1>7, <2>4
      <3>3. a[x] = a[y]
        BY <1>6, <3>1, <3>2
      <3>4. x = y
        BY <1>1, <3>3
      <3> QED BY <3>1, <3>2, <3>4
    <2> QED BY <2>1, <2>2, <2>3, <2>4
  <1>11. \A c \in o : c \notin Remotes
    BY Bounds DEF Remotes
  <1>12. Foreign(tv) = Foreign(sv)
    <2>1. \A i \in 1 .. Len(tv) : i \notin 1 .. Len(sv) => tv[i].id \notin Remotes
      BY <1>6, <1>7, <1>9, <1>11
    <2>2. 1 .. Len(sv) \subseteq 1 .. Len(tv)
      BY <1>1, <1>2, <1>4
    <2> QED BY <1>5, <2>1, <2>2 DEF Foreign
  <1>13. \A i \in 1 .. Len(tv) : \/ tv[i].id \in 1 .. n
                                 \/ tv[i].id \in Remotes /\ tv[i].id <= MaxLocal + Cardinality(Foreign(tv))
    <2> SUFFICES ASSUME NEW i \in 1 .. Len(tv)
                 PROVE  \/ tv[i].id \in 1 .. n
                        \/ tv[i].id \in Remotes /\ tv[i].id <= MaxLocal + Cardinality(Foreign(tv))
      OBVIOUS
    <2>1. CASE i \in 1 .. Len(sv)
      BY <1>5, <1>12, <2>1 DEF LogOrdered
    <2>2. CASE i \notin 1 .. Len(sv)
      <3>1. tv[i].id \in o
        BY <1>6, <1>7, <1>9, <2>2
      <3> QED BY <3>1
    <2> QED BY <2>1, <2>2
  <1>14. Upto(tv, Len(tv)) \subseteq Upto(sv, Len(sv)) \union o
    <2> SUFFICES ASSUME NEW i \in 1 .. Len(tv)
                 PROVE  tv[i].id \in Upto(sv, Len(sv)) \union o
      BY DEF Upto
    <2> QED BY <1>5, <1>6, <1>7, <1>8, <1>9
  <1>15. o \subseteq Upto(tv, Len(tv))
    <2> SUFFICES ASSUME NEW c \in o PROVE c \in Upto(tv, Len(tv))
      OBVIOUS
    <2>1. PICK i \in 1 .. k : a[i] = c
      BY <1>1
    <2>2. Len(sv) + i \in 1 .. Len(tv) /\ tv[Len(sv) + i].id = c
      BY <1>1, <1>2, <1>4, <1>6, <2>1
    <2> QED BY <2>2 DEF Upto
  <1>16. LogOrdered(n, tv)
    BY <1>4, <1>10, <1>12, <1>13 DEF LogOrdered
  <1>17. GrownBy(sv, tv, o)
    BY <1>1, <1>2, <1>4, <1>5, <1>14 DEF GrownBy
  <1> QED BY <1>15, <1>16, <1>17

\* Another device's entry has an id of its own.
LEMMA OtherAppends ==
    ASSUME NEW n \in Nat, NEW sv, LogOrdered(n, sv), Cardinality(Foreign(sv)) < MaxRemote,
           NEW id, id = MaxLocal + Cardinality(Foreign(sv)) + 1,
           NEW w \in SUBSET Rows, NEW tv, tv = Append(sv, [id |-> id, rows |-> w]), n <= MaxLocal
    PROVE  /\ LogOrdered(n, tv) /\ GrownBy(sv, tv, {id}) /\ id \notin Upto(sv, Len(sv))
           /\ \A set : Born(set, n, sv) => id \notin set
  <1>1. sv \in Seq(Entries) /\ Len(sv) \in Nat /\ Cardinality(Foreign(sv)) \in Nat
        /\ IsFiniteSet(Foreign(sv))
    BY ForeignFinite DEF LogOrdered
  <1>2. id \in Remotes /\ id \in Ids /\ id > MaxLocal
    BY <1>1, Bounds DEF Remotes, Ids
  <1>3. [id |-> id, rows |-> w] \in Entries
    BY <1>2 DEF Entries
  <1>4. /\ tv \in Seq(Entries) /\ Len(tv) = Len(sv) + 1
        /\ \A i \in 1 .. Len(sv) : tv[i] = sv[i]
        /\ tv[Len(sv) + 1].id = id
    BY <1>1, <1>3
  <1>5. \A i \in 1 .. Len(sv) : sv[i].id # id
    <2> SUFFICES ASSUME NEW i \in 1 .. Len(sv), sv[i].id = id PROVE FALSE
      OBVIOUS
    <2>1. id \in 1 .. n \/ id <= MaxLocal + Cardinality(Foreign(sv))
      BY DEF LogOrdered
    <2> QED BY <1>1, <1>2, <2>1, Bounds
  <1>6. \A i \in 1 .. Len(tv) : i \in 1 .. Len(sv) \/ i = Len(sv) + 1
    BY <1>1, <1>4
  <1>7. \A i, j \in 1 .. Len(tv) : tv[i].id = tv[j].id => i = j
    <2> SUFFICES ASSUME NEW i \in 1 .. Len(tv), NEW j \in 1 .. Len(tv), tv[i].id = tv[j].id
                 PROVE  i = j
      OBVIOUS
    <2>1. CASE i \in 1 .. Len(sv) /\ j \in 1 .. Len(sv)
      BY <1>4, <2>1 DEF LogOrdered
    <2>2. CASE i = Len(sv) + 1 \/ j = Len(sv) + 1
      BY <1>4, <1>5, <1>6, <2>2
    <2> QED BY <1>6, <2>1, <2>2
  <1>8. Foreign(tv) = Foreign(sv) \union {Len(sv) + 1} /\ Len(sv) + 1 \notin Foreign(sv)
    <2>1. Len(sv) + 1 \in 1 .. Len(tv) /\ 1 .. Len(sv) \subseteq 1 .. Len(tv)
      BY <1>1, <1>4
    <2>2. Len(sv) + 1 \notin 1 .. Len(sv)
      BY <1>1
    <2> QED BY <1>2, <1>4, <1>6, <2>1, <2>2 DEF Foreign
  <1>9. Cardinality(Foreign(tv)) = Cardinality(Foreign(sv)) + 1
    BY <1>1, <1>8, FS_AddElement
  <1>10. \A i \in 1 .. Len(tv) : \/ tv[i].id \in 1 .. n
                                 \/ tv[i].id \in Remotes /\ tv[i].id <= MaxLocal + Cardinality(Foreign(tv))
    <2> SUFFICES ASSUME NEW i \in 1 .. Len(tv)
                 PROVE  \/ tv[i].id \in 1 .. n
                        \/ tv[i].id \in Remotes /\ tv[i].id <= MaxLocal + Cardinality(Foreign(tv))
      OBVIOUS
    <2>1. CASE i \in 1 .. Len(sv)
      <3>1. \/ tv[i].id \in 1 .. n
            \/ tv[i].id \in Remotes /\ tv[i].id <= MaxLocal + Cardinality(Foreign(sv))
        BY <1>4, <2>1 DEF LogOrdered
      <3>2. \A x \in Remotes : x <= MaxLocal + Cardinality(Foreign(sv))
                                 => x <= MaxLocal + (Cardinality(Foreign(sv)) + 1)
        BY <1>1, Bounds DEF Remotes
      <3> QED BY <1>9, <3>1, <3>2
    <2>2. CASE i = Len(sv) + 1
      BY <1>1, <1>2, <1>4, <1>9, <2>2, Bounds
    <2> QED BY <1>6, <2>1, <2>2
  <1>11. Cardinality(Foreign(tv)) <= MaxRemote
    BY <1>1, <1>9, Bounds
  <1>12. LogOrdered(n, tv)
    BY <1>4, <1>7, <1>10, <1>11 DEF LogOrdered
  <1>13. Upto(tv, Len(tv)) \subseteq Upto(sv, Len(sv)) \union {id}
    BY <1>4, <1>6 DEF Upto
  <1>14. id \notin Upto(sv, Len(sv))
    BY <1>5 DEF Upto
  <1>15. \A set : Born(set, n, sv) => id \notin set
    BY <1>2, <1>14, Bounds DEF Born
  <1> QED BY <1>1, <1>4, <1>12, <1>13, <1>14, <1>15 DEF GrownBy

-----------------------------------------------------------------------------
(* The invariant. *)

Pcs == {"idle", "copy", "pull", "trial", "done"}

\* A rebase has all its fields.
Scratch(r) ==
    r = [pc |-> r.pc, base |-> r.base, head |-> r.head, has |-> r.has, touched |-> r.touched,
         local |-> r.local, seen |-> r.seen, invalid |-> r.invalid, plan |-> r.plan,
         replayed |-> r.replayed]

RebaseTyped(r) ==
    /\ Scratch(r)
    /\ r.pc \in Pcs /\ r.base \in Heads /\ r.head \in Heads
    /\ r.has \subseteq Ids /\ r.touched \subseteq Rows
    /\ r.local \subseteq Locals /\ r.seen \subseteq Ids /\ r.invalid \subseteq r.local
    /\ DOMAIN r.plan = r.local
    /\ \A c \in r.local : r.plan[c].queued \in BOOLEAN
    /\ r.replayed \in Seq(Locals)
    /\ r.pc \notin {"trial", "done"} =>
          r.local = {} /\ r.invalid = {} /\ r.replayed = <<>> /\ r.plan = <<>>

Typed ==
    /\ cmd \in Seq(Commands) /\ Len(cmd) <= MaxLocal
    /\ done \subseteq Ids /\ outbox \subseteq Locals /\ slipped \subseteq Locals
    /\ row \in BaseRows \union {None}
    /\ image \in Images \union {None}
    /\ temp \in Images \union {None}
    /\ capture \in Captures
    /\ images \in 0 .. MaxImages
    /\ open \in BOOLEAN
    /\ backup \in Backups \union {None}
    /\ RebaseTyped(rebase)

\* The images that may be recorded: not the one that waits for its record.
Settled == IF capture.pc \in {"rename", "commit"} THEN images - 1 ELSE images

\* The image is the one the row names, if the row names the image at all.
Stands(r, d, o, k, img, top, sv, late) ==
    /\ r.seq \in 0 .. k
    /\ r.state = "Ready" => r.digest \in 1 .. top
    /\ r.state = "Ready" /\ img # None /\ img.digest = r.digest =>
          Base(img.has, r.seq, d, o, sv, late)

\* The live vault, its image and a backup are states of one log.
LiveHolds ==
    /\ LogOrdered(Len(cmd), server)
    /\ Follows(done, outbox, known, Len(cmd), server)
    /\ row # None => Stands(row, done, outbox, known, image, Settled, server, slipped)
    /\ image # None => Born(image.has, Len(cmd), server)
    /\ temp # None => Born(temp.has, Len(cmd), server)

BackupHolds ==
    backup # None =>
        /\ row # None
        /\ Follows(backup.done, backup.outbox, backup.known, Len(cmd), server)
        /\ Stands(backup.row, backup.done, backup.outbox, backup.known, image, Settled, server, slipped)
        /\ outbox \intersect backup.done \subseteq backup.outbox

\* A capture copies the vault at the entry it began at.
Capturing ==
    /\ capture.pc # "idle" => open /\ rebase.pc = "idle" /\ capture.seq = known
    /\ capture.pc \in {"verify", "copy"} => images + 1 \in Digests
    /\ capture.pc \in {"strip", "rename"} =>
          temp # None /\ Base(temp.has, known, done, outbox, server, slipped)
    /\ capture.pc = "strip" => temp.digest = images + 1
    /\ capture.pc = "rename" => temp.digest = images
    /\ capture.pc = "commit" => images \in Digests
    /\ capture.pc = "commit" /\ image # None =>
          image.digest = images /\ Base(image.has, known, done, outbox, server, slipped)

Replayed == {rebase.replayed[i] : i \in 1 .. Len(rebase.replayed)}
Planned == {c \in rebase.local : ~rebase.plan[c].queued}
Pulled == rebase.has \ Replayed

\* A rebase, step by step, beside a live vault that takes commands.
Rebasing ==
    /\ rebase.pc # "idle" => open /\ row # None
    /\ Born(rebase.has, Len(cmd), server)
    /\ rebase.pc = "copy" => /\ row.state = "Ready" /\ rebase.base = row.seq
                             /\ image # None => image.digest = row.digest
    /\ rebase.pc \in {"idle", "copy"} => rebase.head = 0
    /\ rebase.pc \in {"pull", "trial", "done"} =>
          rebase.base <= rebase.head /\ rebase.head <= Len(server)
    /\ rebase.pc = "pull" =>
          /\ Upto(server, rebase.head) \subseteq rebase.has
          /\ rebase.has \intersect outbox \subseteq Upto(server, rebase.head)
          /\ done \subseteq rebase.has \union Past(server, rebase.head) \union outbox \union slipped

\* The trials: what they replay is new to the pulled order, and comes in order.
Trying ==
    /\ rebase.pc \in {"trial", "done"} =>
          /\ rebase.local \subseteq 1 .. Len(cmd)
          /\ Upto(server, rebase.head) \subseteq Pulled
          /\ Pulled \intersect rebase.local \subseteq Upto(server, rebase.head)
          /\ rebase.seen \ slipped \subseteq Pulled \union rebase.local
          /\ Queued(rebase.plan) = LeastClosure(rebase.local, cmd, Roots)
          /\ WellRooted(rebase.local, cmd, Roots, rebase.invalid, rebase.plan)
    /\ Replayed \subseteq Planned /\ Replayed \subseteq rebase.has
    /\ \A i, j \in 1 .. Len(rebase.replayed) : i < j => rebase.replayed[i] < rebase.replayed[j]
    /\ \A c \in Replayed, r \in Planned \ Replayed : c < r
    /\ rebase.pc = "done" => Planned \subseteq Replayed

Safe == Typed /\ LiveHolds /\ BackupHolds /\ Capturing /\ Rebasing /\ Trying

-----------------------------------------------------------------------------
(* The operators of the modules, in these words. *)

LEMMA Words ==
    /\ \A s : Accepted(s) = Upto(server, s)
    /\ \A s : After(s) = Past(server, s)
  BY DEF Accepted, After, Upto, Past

LEMMA IdleTyped == RebaseTyped(NoRebase)
  BY Bounds DEF RebaseTyped, Scratch, NoRebase, Pcs, Heads

LEMMA InitSafe == Init => Safe
  <1> SUFFICES ASSUME Init PROVE Safe
    OBVIOUS
  <1> USE DEF Init, InitBase
  <1>1. Typed
    BY IdleTyped, Bounds DEF Typed, Captures, Resting, Phases, Heads
  <1>2. server = <<>> /\ cmd = <<>> /\ Len(server) = 0 /\ Len(cmd) = 0 /\ Upto(server, 0) = {}
    BY DEF Upto
  <1>3. LogOrdered(0, server)
    <2>1. Foreign(server) = {}
      BY <1>2 DEF Foreign
    <2>2. Cardinality(Foreign(server)) = 0
      BY <2>1, FS_EmptySet
    <2> QED BY <1>2, <2>2, Bounds DEF LogOrdered
  <1>4. LiveHolds
    BY <1>2, <1>3 DEF LiveHolds, Follows, Born, Past
  <1>5. BackupHolds /\ Capturing
    BY DEF BackupHolds, Capturing, Resting, NoRebase
  <1>6. Rebasing
    BY DEF Rebasing, NoRebase, Born
  <1>7. Trying
    BY DEF Trying, NoRebase, Replayed, Planned
  <1> QED BY <1>1, <1>4, <1>5, <1>6, <1>7 DEF Safe

-----------------------------------------------------------------------------
(* A capture, phase by phase. *)

\* A record stands when more images are settled, when the image is lost, and when commands slip.
LEMMA StandsOn ==
    ASSUME NEW r, NEW d, NEW o, NEW k, NEW img, NEW top \in Int, NEW more \in Int, top <= more,
           NEW sv, NEW late, NEW later, late \subseteq later,
           Stands(r, d, o, k, img, top, sv, late)
    PROVE  /\ Stands(r, d, o, k, img, more, sv, later)
           /\ Stands(r, d, o, k, None, more, sv, later)
  <1>1. 1 .. top \subseteq 1 .. more
    OBVIOUS
  <1> QED BY <1>1 DEF Stands, Base

\* How far the log and the commands can go.
LEMMA Lengths ==
    ASSUME Safe
    PROVE  /\ Len(server) \in Nat /\ known \in 0 .. Len(server) /\ known \in Heads
           /\ Len(cmd) \in Nat /\ Len(cmd) <= MaxLocal
  <1>1. LogOrdered(Len(cmd), server) /\ known \in 0 .. Len(server)
    BY DEF Safe, LiveHolds, Follows
  <1>2. Len(server) \in Heads
    BY <1>1, LogBounded
  <1>3. Len(cmd) \in Nat /\ Len(cmd) <= MaxLocal
    BY DEF Safe, Typed
  <1> QED BY <1>1, <1>2, <1>3, Bounds DEF Heads

\* What a rebase at rest, or one that has stopped, says of the next state.
LEMMA RestKept ==
    ASSUME Safe, rebase' = rebase, rebase.pc = "idle", cmd' = cmd,
           Born(rebase.has, Len(cmd), server')
    PROVE  RebaseTyped(rebase)' /\ Rebasing' /\ Trying'
  <1>1. RebaseTyped(rebase')
    BY DEF Safe, Typed
  <1>2. Rebasing'
    <2>1. rebase.head = 0
      BY DEF Safe, Rebasing
    <2> QED BY <2>1 DEF Rebasing
  <1>3. Trying'
    <2>1. Replayed' = Replayed /\ Planned' = Planned
      BY DEF Replayed, Planned
    <2> QED BY <2>1 DEF Safe, Trying
  <1> QED BY <1>1, <1>2, <1>3

LEMMA StoppedKept ==
    ASSUME rebase' = NoRebase
    PROVE  RebaseTyped(rebase)' /\ Rebasing' /\ Trying'
  <1>1. RebaseTyped(rebase)'
    BY IdleTyped
  <1>2. Rebasing'
    BY DEF Rebasing, NoRebase, Born
  <1>3. Trying'
    BY DEF Trying, NoRebase, Replayed, Planned
  <1> QED BY <1>1, <1>2, <1>3

\* The steps of a capture that change neither the live vault nor the log.
LEMMA QuietStep ==
    ASSUME Safe, rebase' = rebase, rebase.pc = "idle",
           cmd' = cmd, server' = server
    PROVE  /\ RebaseTyped(rebase)' /\ Rebasing' /\ Trying'
           /\ Len(cmd)' = Len(cmd)
  <1>1. Born(rebase.has, Len(cmd), server')
    BY DEF Safe, Rebasing
  <1> QED BY <1>1, RestKept

LEMMA BeginCaptureSafe ==
    ASSUME Safe, rebase.pc = "idle", rebase' = rebase,
           NEW mode \in {"initialize", "advance"}, BeginCapture(mode)
    PROVE  Safe'
  <1> USE DEF BeginCapture, WriterFree, liveVars, engineVars, hostVars
  <1>q. RebaseTyped(rebase)' /\ Rebasing' /\ Trying'
    BY QuietStep
  <1>k. known \in Heads
    BY Lengths
  <1>c. capture' = [pc |-> "verify", mode |-> mode, seq |-> known, recorded |-> row, really |-> "none"]
    BY DEF Resting
  <1>1. Typed'
    <2>1. capture' \in Captures
      BY <1>c, <1>k DEF Safe, Typed, Captures, Phases
    <2> QED BY <2>1, <1>q DEF Safe, Typed
  <1>2. Settled' = Settled
    BY <1>c DEF Settled
  <1>3. LiveHolds' /\ BackupHolds'
    BY <1>2 DEF Safe, LiveHolds, BackupHolds
  <1>4. Capturing'
    <2>1. images + 1 \in Digests
      BY Bounds DEF Safe, Typed, Digests
    <2> QED BY <1>c, <2>1 DEF Capturing
  <1> QED BY <1>1, <1>3, <1>4, <1>q DEF Safe

LEMMA VerifyRecordedSafe ==
    ASSUME Safe, rebase.pc = "idle", rebase' = rebase, VerifyRecorded
    PROVE  Safe'
  <1> USE DEF VerifyRecorded, liveVars, engineVars, hostVars
  <1>q. RebaseTyped(rebase)' /\ Rebasing' /\ Trying'
    BY QuietStep
  <1>0. capture \in Captures
    BY DEF Safe, Typed
  <1>c. capture'.pc = "copy" /\ capture'.seq = capture.seq
    BY <1>0 DEF Captures
  <1>1. Typed'
    <2>1. capture.recorded # None => Verify(capture.recorded) \in {"Ready", "NoBase"}
      BY <1>0 DEF Captures, BaseRows, Verify
    <2>2. capture' \in Captures
      BY <1>0, <2>1 DEF Captures, Phases
    <2> QED BY <2>2, <1>q DEF Safe, Typed
  <1>2. Settled' = Settled
    BY <1>c DEF Settled
  <1>3. LiveHolds' /\ BackupHolds'
    BY <1>2 DEF Safe, LiveHolds, BackupHolds
  <1>4. Capturing'
    BY <1>c DEF Safe, Capturing
  <1> QED BY <1>1, <1>3, <1>4, <1>q DEF Safe

\* A capture that ends leaves at most more images settled.
LEMMA CaptureEndsSafe ==
    ASSUME Safe, rebase.pc = "idle", rebase' = rebase, CaptureEnds, capture.pc # "commit",
           UNCHANGED <<liveVars, row, image, images, engineVars, hostVars>>
    PROVE  Safe'
  <1> USE DEF CaptureEnds, liveVars, engineVars, hostVars
  <1>q. RebaseTyped(rebase)' /\ Rebasing' /\ Trying'
    BY QuietStep
  <1>c. capture'.pc = "idle" /\ capture' \in Captures
    BY Bounds DEF Resting, Captures, Phases, Heads
  <1>1. Typed'
    BY <1>c, <1>q DEF Safe, Typed
  <1>2. Settled' \in Int /\ Settled \in Int /\ Settled <= Settled'
    BY <1>c DEF Settled, Safe, Typed
  <1>3. LiveHolds'
    <2>1. row # None => Stands(row, done, outbox, known, image, Settled', server, slipped)
      BY <1>2, StandsOn DEF Safe, LiveHolds
    <2> QED BY <2>1 DEF Safe, LiveHolds
  <1>4. BackupHolds'
    <2>1. backup # None => Stands(backup.row, backup.done, backup.outbox, backup.known, image,
                                  Settled', server, slipped)
      BY <1>2, StandsOn DEF Safe, BackupHolds
    <2> QED BY <2>1 DEF Safe, BackupHolds
  <1>5. Capturing'
    BY <1>c DEF Capturing
  <1> QED BY <1>1, <1>3, <1>4, <1>5, <1>q DEF Safe

LEMMA CopyVaultSafe ==
    ASSUME Safe, rebase.pc = "idle", rebase' = rebase, CopyVault
    PROVE  Safe'
  <1> USE DEF CopyVault, engineVars, hostVars
  <1>1. CASE CaptureEnds /\ slipped' = slipped
    BY <1>1, CaptureEndsSafe DEF liveVars
  <1>2. CASE /\ Admitted
             /\ temp' = [digest |-> images + 1, has |-> done]
             /\ slipped' = IF row = None THEN {} ELSE slipped
             /\ capture' = [capture EXCEPT !.pc = "strip"]
    <2>q. RebaseTyped(rebase)' /\ Rebasing' /\ Trying'
      BY QuietStep
    <2>0. capture \in Captures /\ images + 1 \in Digests /\ outbox = {} /\ capture.seq = known /\ open
      BY <1>2 DEF Safe, Typed, Admitted, Capturing
    <2>c. capture'.pc = "strip" /\ capture'.seq = capture.seq /\ capture' \in Captures
      BY <1>2, <2>0 DEF Captures, Phases
    <2>t. temp' \in Images /\ temp' # None /\ temp'.digest = images + 1 /\ temp'.has = done
      BY <1>2, <2>0, SyncBaseAssumption DEF Images, Safe, Typed
    <2>1. Typed'
      BY <1>2, <2>c, <2>t, <2>q DEF Safe, Typed
    <2>2. Settled' = Settled
      BY <2>c DEF Settled
    <2>3. LiveHolds'
      <3>1. Born(done, Len(cmd), server)
        BY DEF Safe, LiveHolds, Follows
      <3>2. row # None => slipped' = slipped
        BY <1>2
      <3> QED BY <2>2, <2>t, <3>1, <3>2 DEF Safe, LiveHolds
    <2>4. BackupHolds'
      <3>1. backup # None => slipped' = slipped
        BY <1>2 DEF Safe, BackupHolds
      <3> QED BY <2>2, <3>1 DEF Safe, BackupHolds
    <2>5. Capturing'
      <3>1. Base(done, known, done, outbox, server, slipped')
        BY <2>0 DEF Safe, LiveHolds, Follows, Base
      <3> QED BY <2>0, <2>c, <2>t, <3>1 DEF Capturing
    <2> QED BY <2>1, <2>3, <2>4, <2>5, <2>q DEF Safe
  <1> QED BY <1>1, <1>2

LEMMA StripCopySafe ==
    ASSUME Safe, rebase.pc = "idle", rebase' = rebase, StripCopy
    PROVE  Safe'
  <1> USE DEF StripCopy, engineVars, hostVars
  <1>1. CASE images' = images /\ CaptureEnds
    BY <1>1, CaptureEndsSafe
  <1>2. CASE images' = temp.digest /\ temp' = temp /\ capture' = [capture EXCEPT !.pc = "rename"]
    <2> USE DEF liveVars
    <2>q. RebaseTyped(rebase)' /\ Rebasing' /\ Trying'
      BY QuietStep
    <2>0. /\ capture \in Captures /\ temp \in Images /\ temp.digest = images + 1 /\ images \in Int
          /\ capture.seq = known /\ open /\ temp # None
          /\ Base(temp.has, known, done, outbox, server, slipped)
      BY <1>2 DEF Safe, Typed, Capturing
    <2>c. capture'.pc = "rename" /\ capture'.seq = capture.seq /\ capture' \in Captures
      BY <1>2, <2>0 DEF Captures, Phases
    <2>i. images' = images + 1 /\ images' \in 0 .. MaxImages
      BY <1>2, <2>0, Bounds DEF Images, Digests
    <2>1. Typed'
      BY <1>2, <2>c, <2>i, <2>q DEF Safe, Typed
    <2>2. Settled' = Settled
      BY <2>0, <2>c, <2>i DEF Settled
    <2>3. LiveHolds' /\ BackupHolds'
      BY <1>2, <2>2 DEF Safe, LiveHolds, BackupHolds
    <2>5. Capturing'
      BY <1>2, <2>0, <2>c, <2>i DEF Safe, Capturing
    <2> QED BY <2>1, <2>3, <2>5, <2>q DEF Safe
  <1> QED BY <1>1, <1>2

LEMMA RenameCopySafe ==
    ASSUME Safe, rebase.pc = "idle", rebase' = rebase, RenameCopy
    PROVE  Safe'
  <1> USE DEF RenameCopy, engineVars, hostVars
  <1>1. CASE image' = image /\ CaptureEnds
    BY <1>1, CaptureEndsSafe
  <1>2. CASE image' = temp /\ temp' = None /\ capture' = [capture EXCEPT !.pc = "commit"]
    <2> USE DEF liveVars
    <2>q. RebaseTyped(rebase)' /\ Rebasing' /\ Trying'
      BY QuietStep
    <2>0. /\ capture \in Captures /\ temp \in Images /\ temp.digest = images /\ images \in Int
          /\ capture.seq = known /\ open /\ temp # None
          /\ Base(temp.has, known, done, outbox, server, slipped)
      BY <1>2 DEF Safe, Typed, Capturing
    <2>c. capture'.pc = "commit" /\ capture'.seq = capture.seq /\ capture' \in Captures
      BY <1>2, <2>0 DEF Captures, Phases
    <2>i. images \in Digests
      BY <2>0 DEF Images
    <2>1. Typed'
      BY <1>2, <2>0, <2>c, <2>q DEF Safe, Typed
    <2>2. Settled' = images - 1 /\ Settled = images - 1
      BY <2>c DEF Settled
    <2>3. LiveHolds'
      <3>1. row # None => Stands(row, done, outbox, known, image', images - 1, server, slipped)
        BY <1>2, <2>0, <2>2 DEF Safe, LiveHolds, Stands
      <3>2. Born(image'.has, Len(cmd), server)
        BY <1>2, <2>0 DEF Safe, LiveHolds
      <3> QED BY <1>2, <2>2, <3>1, <3>2 DEF Safe, LiveHolds
    <2>4. BackupHolds'
      <3>1. backup # None => Stands(backup.row, backup.done, backup.outbox, backup.known, image',
                                    images - 1, server, slipped)
        BY <1>2, <2>0, <2>2 DEF Safe, BackupHolds, Stands
      <3> QED BY <2>2, <3>1 DEF Safe, BackupHolds
    <2>5. Capturing'
      BY <1>2, <2>0, <2>c, <2>i DEF Safe, Capturing
    <2> QED BY <2>1, <2>3, <2>4, <2>5, <2>q DEF Safe
  <1> QED BY <1>1, <1>2

LEMMA CommitRowSafe ==
    ASSUME Safe, rebase.pc = "idle", rebase' = rebase, CommitRow
    PROVE  Safe'
  <1> USE DEF CommitRow, CaptureEnds, liveVars, engineVars, hostVars
  <1> DEFINE new == [seq |-> capture.seq, digest |-> images, state |-> "Ready"]
  <1>q. RebaseTyped(rebase)' /\ Rebasing' /\ Trying'
    BY QuietStep
  <1>0. /\ capture \in Captures /\ images \in Digests /\ images \in Int /\ capture.seq = known
        /\ known \in 0 .. Len(server) /\ Len(server) \in Nat
        /\ image # None =>
              image.digest = images /\ Base(image.has, known, done, outbox, server, slipped)
    BY DEF Safe, Typed, Capturing, LiveHolds, Follows, LogOrdered
  <1>c. capture'.pc = "idle" /\ capture' \in Captures
    BY Bounds DEF Resting, Captures, Phases, Heads
  <1>n. new \in BaseRows /\ new # None
    <2>1. new \in BaseRows
      BY <1>0 DEF BaseRows, Captures
    <2> QED BY <2>1, SyncBaseAssumption
  <1>r. row' = row \/ row' = new
    OBVIOUS
  <1>1. Typed'
    BY <1>c, <1>n, <1>q, <1>r DEF Safe, Typed
  <1>2. Settled' = images /\ Settled = images - 1
    BY <1>c DEF Settled
  <1>3. Stands(new, done, outbox, known, image, images, server, slipped)
    BY <1>0 DEF Stands, Digests
  <1>4. row # None => Stands(row, done, outbox, known, image, images, server, slipped)
    BY <1>0, <1>2, StandsOn DEF Safe, LiveHolds
  <1> HIDE DEF new
  <1>5. LiveHolds'
    BY <1>2, <1>3, <1>4, <1>r DEF Safe, LiveHolds
  <1>6. BackupHolds'
    <2>1. backup # None => Stands(backup.row, backup.done, backup.outbox, backup.known, image,
                                  images, server, slipped)
      BY <1>0, <1>2, StandsOn DEF Safe, BackupHolds
    <2> QED BY <1>2, <1>n, <1>r, <2>1 DEF Safe, BackupHolds
  <1>7. Capturing'
    BY <1>c DEF Capturing
  <1> QED BY <1>1, <1>5, <1>6, <1>7, <1>q DEF Safe

-----------------------------------------------------------------------------
(* The host. *)

LEMMA ClosedRests == Safe /\ ~open => capture.pc = "idle" /\ rebase.pc = "idle"
  BY DEF Safe, Capturing, Rebasing

LEMMA OpenSafe ==
    ASSUME Safe, Open, rebase' = rebase
    PROVE  Safe'
  <1> USE DEF Open, liveVars, engineVars
  <1>i. capture.pc = "idle" /\ rebase.pc = "idle"
    BY ClosedRests
  <1>q. RebaseTyped(rebase)' /\ Rebasing' /\ Trying'
    BY <1>i, QuietStep
  <1> DEFINE off == [row EXCEPT !.state = "NoBase", !.digest = None]
  <1>r. row' = row \/ (row # None /\ row' = off)
    BY DEF Reconciled
  <1>m. image' = image \/ (image' = None /\ row = None)
    BY DEF Reconciled
  <1>t. temp' \in {temp, None}
    BY DEF Reconciled
  <1>o. row # None => /\ off \in BaseRows /\ off # None /\ off.seq = row.seq /\ off.state = "NoBase"
    BY SyncBaseAssumption DEF Safe, Typed, BaseRows
  <1> HIDE DEF off
  <1>1. Typed'
    BY <1>r, <1>m, <1>t, <1>o, <1>q DEF Safe, Typed
  <1>2. Settled' = Settled
    BY DEF Settled
  <1>3. LiveHolds'
    <2>1. row' # None => Stands(row', done, outbox, known, image', Settled, server, slipped)
      BY <1>r, <1>m, <1>o DEF Safe, LiveHolds, Stands
    <2> QED BY <1>2, <1>m, <1>t, <2>1 DEF Safe, LiveHolds
  <1>4. BackupHolds'
    <2>1. backup # None => row # None /\ image' = image
      BY <1>m DEF Safe, BackupHolds
    <2>2. backup # None => row' # None
      BY <1>r, <1>o, <2>1
    <2> QED BY <1>2, <2>1, <2>2 DEF Safe, BackupHolds
  <1>5. Capturing'
    BY <1>i DEF Capturing
  <1> QED BY <1>1, <1>3, <1>4, <1>5, <1>q DEF Safe

LEMMA StopSafe ==
    ASSUME Safe, Stop, rebase' = NoRebase
    PROVE  Safe'
  <1> USE DEF Stop, liveVars, engineVars
  <1>q. RebaseTyped(rebase)' /\ Rebasing' /\ Trying'
    BY StoppedKept
  <1>c. capture'.pc = "idle" /\ capture' \in Captures
    BY Bounds DEF Resting, Captures, Phases, Heads
  <1>1. Typed'
    BY <1>c, <1>q DEF Safe, Typed
  <1>2. Settled' \in Int /\ Settled \in Int /\ Settled <= Settled'
    BY <1>c DEF Settled, Safe, Typed
  <1>3. LiveHolds'
    <2>1. row # None => Stands(row, done, outbox, known, image, Settled', server, slipped)
      BY <1>2, StandsOn DEF Safe, LiveHolds
    <2> QED BY <2>1 DEF Safe, LiveHolds
  <1>4. BackupHolds'
    <2>1. backup # None => Stands(backup.row, backup.done, backup.outbox, backup.known, image,
                                  Settled', server, slipped)
      BY <1>2, StandsOn DEF Safe, BackupHolds
    <2> QED BY <2>1 DEF Safe, BackupHolds
  <1>5. Capturing'
    BY <1>c DEF Capturing
  <1> QED BY <1>1, <1>3, <1>4, <1>5, <1>q DEF Safe

LEMMA LoseImageSafe ==
    ASSUME Safe, LoseImage, rebase' = rebase
    PROVE  Safe'
  <1> USE DEF LoseImage, liveVars, engineVars, hostVars
  <1>q. RebaseTyped(rebase)'
    BY DEF Safe, Typed
  <1>1. Typed'
    BY <1>q DEF Safe, Typed
  <1>2. Settled' = Settled /\ Settled \in Int
    BY DEF Settled, Safe, Typed
  <1>3. LiveHolds'
    <2>1. row # None => Stands(row, done, outbox, known, None, Settled, server, slipped)
      BY <1>2, StandsOn DEF Safe, LiveHolds
    <2> QED BY <1>2, <2>1 DEF Safe, LiveHolds
  <1>4. BackupHolds'
    <2>1. backup # None => Stands(backup.row, backup.done, backup.outbox, backup.known, None,
                                  Settled, server, slipped)
      BY <1>2, StandsOn DEF Safe, BackupHolds
    <2> QED BY <1>2, <2>1 DEF Safe, BackupHolds
  <1>5. Capturing'
    BY DEF Safe, Capturing
  <1>6. Rebasing' /\ Trying'
    BY DEF Safe, Rebasing, Trying, Replayed, Planned, Pulled, Roots
  <1> QED BY <1>1, <1>3, <1>4, <1>5, <1>6 DEF Safe

LEMMA ExportBackupSafe ==
    ASSUME Safe, ExportBackup, rebase' = rebase
    PROVE  Safe'
  <1> USE DEF ExportBackup, liveVars, baseVars, engineVars
  <1> DEFINE new == [done |-> done, outbox |-> outbox, row |-> row, known |-> known]
  <1>q. RebaseTyped(rebase)'
    BY DEF Safe, Typed
  <1>k. known \in Heads
    BY Lengths
  <1>b. new \in Backups /\ backup' = new
    BY <1>k DEF Backups, Safe, Typed
  <1>1. Typed'
    BY <1>b, <1>q DEF Safe, Typed
  <1>2. Settled' = Settled
    BY DEF Settled
  <1>3. LiveHolds'
    BY <1>2 DEF Safe, LiveHolds
  <1>4. BackupHolds'
    <2>1. /\ backup'.done = done /\ backup'.outbox = outbox /\ backup'.row = row
          /\ backup'.known = known
      OBVIOUS
    <2> QED BY <1>2, <2>1 DEF Safe, LiveHolds, BackupHolds
  <1>5. Capturing' /\ Rebasing' /\ Trying'
    BY DEF Safe, Capturing, Rebasing, Trying, Replayed, Planned, Pulled, Roots
  <1> QED BY <1>1, <1>3, <1>4, <1>5 DEF Safe

LEMMA RestoreBackupSafe ==
    ASSUME Safe, RestoreBackup, rebase' = rebase
    PROVE  Safe'
  <1> USE DEF RestoreBackup
  <1>i. capture.pc = "idle" /\ rebase.pc = "idle"
    BY ClosedRests
  <1>q. RebaseTyped(rebase)' /\ Rebasing' /\ Trying'
    BY <1>i, QuietStep
  <1>b. backup \in Backups
    BY DEF Safe, Typed
  <1>1. Typed'
    <2>1. /\ done' \subseteq Ids /\ outbox' \subseteq Locals /\ row' \in BaseRows /\ backup' = None
          /\ image' \in {image, None} /\ temp' \in {temp, None}
      BY <1>b DEF Backups
    <2>2. image' \in Images \union {None} /\ temp' \in Images \union {None}
      BY DEF Safe, Typed
    <2> QED BY <1>q, <2>1, <2>2 DEF Safe, Typed
  <1>2. Settled' = Settled /\ Settled \in Int
    BY DEF Settled, Safe, Typed
  <1>3. LiveHolds'
    <2>1. Stands(backup.row, backup.done, backup.outbox, backup.known, image', Settled, server, slipped)
      BY <1>2, StandsOn DEF Safe, BackupHolds
    <2> QED BY <1>2, <2>1 DEF Safe, LiveHolds, BackupHolds
  <1>4. BackupHolds'
    BY DEF BackupHolds
  <1>5. Capturing'
    BY <1>i DEF Capturing
  <1> QED BY <1>1, <1>3, <1>4, <1>5, <1>q DEF Safe

-----------------------------------------------------------------------------
(* A command is dispatched; an entry is accepted, pulled, or another's. *)

\* What a live vault with a base knows of its image.
LEMMA Vouched ==
    ASSUME Safe, HasBase
    PROVE  /\ row # None /\ image # None /\ row \in BaseRows /\ row.state = "Ready"
           /\ image.digest = row.digest /\ row.seq \in 0 .. known
           /\ Base(image.has, row.seq, done, outbox, server, slipped)
  <1>1. row # None /\ row \in BaseRows /\ Verify(row) = "Ready"
    BY DEF HasBase, Safe, Typed
  <1>2. row.state = "Ready" /\ image # None /\ image.digest = row.digest
    BY <1>1 DEF Verify, BaseRows
  <1>3. Stands(row, done, outbox, known, image, Settled, server, slipped)
    BY <1>1 DEF Safe, LiveHolds
  <1> QED BY <1>1, <1>2, <1>3 DEF Stands

LEMMA DispatchSafe ==
    ASSUME Safe, Dispatch, rebase' = rebase
    PROVE  Safe'
  <1> DEFINE n == Len(cmd)
             c == Len(cmd) + 1
  <1>0. /\ WriterFree /\ n < MaxDispatch
        /\ \E g \in {c} \union {cmd[d].group : d \in done \intersect Locals},
              k \in {None} \union (done \intersect Locals), w \in SUBSET Rows :
                 cmd' = Append(cmd, [group |-> g, cause |-> k, rows |-> w])
        /\ done' = done \union {c}
        /\ outbox' = IF row = None THEN outbox ELSE outbox \union {c}
        /\ slipped' = IF row = None /\ capture.pc \in {"strip", "rename"}
                      THEN slipped \union {c} ELSE slipped
        /\ row' = row /\ image' = image /\ temp' = temp /\ capture' = capture /\ images' = images
        /\ server' = server /\ known' = known /\ open' = open /\ backup' = backup
    BY DEF Dispatch, baseVars, engineVars, hostVars
  <1>1. /\ n \in Nat /\ Len(server) \in Nat /\ known \in 0 .. Len(server)
        /\ c \in Locals /\ c \in Ids /\ c \in 1 .. n + 1 /\ n + 1 <= MaxLocal
    BY <1>0, Lengths, Bounds DEF Locals, Ids
  <1>2. LogOrdered(n, server) /\ Follows(done, outbox, known, n, server)
    BY DEF Safe, LiveHolds
  <1>3. (\A set : Born(set, n, server) => c \notin set) /\ c \notin Upto(server, Len(server))
    BY <1>1, <1>2, NextIsUnborn
  <1>4. c \notin Upto(server, known) /\ \A s : c \notin Past(server, s)
    <2>1. Upto(server, known) \subseteq Upto(server, Len(server))
      BY <1>1, UptoGrows
    <2> QED BY <1>3, <2>1 DEF Past
  <1>5. \A set : Born(set, n, server) => Born(set, n + 1, server)
    <2>1. 1 .. n \subseteq 1 .. n + 1
      BY <1>1
    <2> QED BY <2>1 DEF Born
  <1>6. cmd' \in Seq(Commands) /\ Len(cmd') = n + 1 /\ \A i \in 1 .. n : cmd'[i] = cmd[i]
    <2>1. PICK g \in {c} \union {cmd[d].group : d \in done \intersect Locals},
               k \in {None} \union (done \intersect Locals), w \in SUBSET Rows :
                  cmd' = Append(cmd, [group |-> g, cause |-> k, rows |-> w])
      BY <1>0
    <2>2. \A d \in done \intersect Locals : d \in 1 .. n
      BY <1>2, Bounds DEF Follows, Born, Locals, Remotes
    <2>3. cmd \in Seq(Commands)
      BY DEF Safe, Typed
    <2>4. \A d \in 1 .. n : cmd[d].group \in Locals
      <3>1. \A d \in 1 .. n : cmd[d] \in Commands
        BY <2>3
      <3> QED BY <3>1 DEF Commands
    <2>5. g \in Locals
      BY <1>1, <2>2, <2>4
    <2>6. [group |-> g, cause |-> k, rows |-> w] \in Commands
      BY <2>5 DEF Commands
    <2> QED BY <2>1, <2>3, <2>6
  <1> HIDE DEF n, c
  <1>t. Typed'
    <2>1. RebaseTyped(rebase)'
      BY DEF Safe, Typed
    <2>2. done' \subseteq Ids /\ outbox' \subseteq Locals /\ slipped' \subseteq Locals
      BY <1>0, <1>1 DEF Safe, Typed
    <2> QED BY <1>0, <1>1, <1>6, <2>1, <2>2 DEF Safe, Typed
  <1>s. Settled' = Settled
    BY <1>0 DEF Settled
  <1>7. LogOrdered(n + 1, server)
    <2>1. 1 .. n \subseteq 1 .. n + 1
      BY <1>1
    <2> QED BY <1>2, <2>1 DEF LogOrdered
  <1>8. Follows(done', outbox', known, n + 1, server)
    <2>1. Born(done', n + 1, server)
      BY <1>0, <1>1, <1>2, <1>5 DEF Follows, Born
    <2>2. outbox' \subseteq done' /\ outbox' \subseteq 1 .. n + 1
      <3>1. 1 .. n \subseteq 1 .. n + 1
        BY <1>1
      <3> QED BY <1>0, <1>1, <1>2, <3>1 DEF Follows
    <2>3. /\ Upto(server, known) \subseteq done' /\ outbox' \intersect Upto(server, known) = {}
          /\ done' \intersect Past(server, known) \subseteq outbox'
      BY <1>0, <1>2, <1>4 DEF Follows
    <2> QED BY <1>1, <2>1, <2>2, <2>3 DEF Follows
  <1>9. ASSUME NEW h, NEW s, Base(h, s, done, outbox, server, slipped), c \notin h,
               row # None \/ capture.pc \in {"strip", "rename"}
        PROVE  Base(h, s, done', outbox', server, slipped')
    <2>1. outbox' \subseteq outbox \union {c} /\ outbox \subseteq outbox'
      BY <1>0
    <2>2. done' \subseteq done \union {c} /\ slipped \subseteq slipped' /\ c \in outbox' \union slipped'
      BY <1>0, <1>9
    <2> QED BY <1>9, <2>1, <2>2 DEF Base
  <1>10. LiveHolds'
    <2>1. image # None => Born(image.has, n, server)
      BY DEF Safe, LiveHolds, n
    <2>2. row # None => Stands(row, done', outbox', known, image, Settled, server, slipped')
      <3> SUFFICES ASSUME row # None
                   PROVE  Stands(row, done', outbox', known, image, Settled, server, slipped')
        OBVIOUS
      <3>1. Stands(row, done, outbox, known, image, Settled, server, slipped)
        BY DEF Safe, LiveHolds
      <3> QED BY <1>3, <1>9, <2>1, <3>1 DEF Stands
    <2>3. temp # None => Born(temp.has, n, server)
      BY DEF Safe, LiveHolds, n
    <2> QED BY <1>0, <1>5, <1>6, <1>7, <1>8, <1>s, <2>1, <2>2, <2>3 DEF LiveHolds
  <1>11. BackupHolds'
    <2> SUFFICES ASSUME backup # None
                 PROVE  /\ row # None
                        /\ Follows(backup.done, backup.outbox, backup.known, n + 1, server)
                        /\ Stands(backup.row, backup.done, backup.outbox, backup.known, image,
                                  Settled, server, slipped')
                        /\ outbox' \intersect backup.done \subseteq backup.outbox
      BY <1>0, <1>6, <1>s DEF BackupHolds
    <2>1. /\ row # None
          /\ Follows(backup.done, backup.outbox, backup.known, n, server)
          /\ Stands(backup.row, backup.done, backup.outbox, backup.known, image,
                    Settled, server, slipped)
          /\ outbox \intersect backup.done \subseteq backup.outbox
      BY DEF Safe, BackupHolds, n
    <2>2. Follows(backup.done, backup.outbox, backup.known, n + 1, server)
      <3>1. 1 .. n \subseteq 1 .. n + 1
        BY <1>1
      <3> QED BY <1>5, <2>1, <3>1 DEF Follows
    <2>3. c \notin backup.done
      BY <1>3, <2>1 DEF Follows
    <2>4. slipped' = slipped
      BY <1>0, <2>1
    <2> QED BY <1>0, <2>1, <2>2, <2>3, <2>4
  <1>12. Capturing'
    <2>1. capture.pc # "commit" /\ open
      BY <1>0 DEF WriterFree
    <2>2. capture.pc \in {"strip", "rename"} => Base(temp.has, known, done', outbox', server, slipped')
      <3> SUFFICES ASSUME capture.pc \in {"strip", "rename"}
                   PROVE  Base(temp.has, known, done', outbox', server, slipped')
        OBVIOUS
      <3>1. temp # None /\ Base(temp.has, known, done, outbox, server, slipped)
        BY DEF Safe, Capturing
      <3>2. c \notin temp.has
        BY <1>3, <3>1 DEF Safe, LiveHolds, n
      <3> QED BY <1>9, <3>1, <3>2
    <2> QED BY <1>0, <2>1, <2>2 DEF Safe, Capturing
  <1>13. Born(rebase.has, n, server) /\ c \notin rebase.has
    BY <1>3 DEF Safe, Rebasing, n
  <1>14. rebase.pc # "idle" => /\ outbox' = outbox \union {c} /\ slipped' = slipped
                               /\ done' = done \union {c}
    BY <1>0 DEF Safe, Rebasing
  <1>15. Rebasing'
    <2>1. Born(rebase.has, n + 1, server)
      BY <1>5, <1>13
    <2>2. rebase.pc = "pull" =>
            /\ Upto(server, rebase.head) \subseteq rebase.has
            /\ rebase.has \intersect outbox' \subseteq Upto(server, rebase.head)
            /\ done' \subseteq rebase.has \union Past(server, rebase.head) \union outbox' \union slipped'
      BY <1>13, <1>14 DEF Safe, Rebasing
    <2> QED BY <1>0, <1>6, <2>1, <2>2 DEF Safe, Rebasing
  <1>16. Trying'
    <2>1. Replayed' = Replayed /\ Planned' = Planned
      BY DEF Replayed, Planned
    <2>2. Pulled' = Pulled
      BY <2>1 DEF Pulled
    <2> SUFFICES ASSUME rebase.pc \in {"trial", "done"}
                 PROVE  /\ rebase.local \subseteq 1 .. Len(cmd')
                        /\ rebase.seen \ slipped' \subseteq Pulled \union rebase.local
                        /\ Queued(rebase.plan) = LeastClosure(rebase.local, cmd', Roots')
                        /\ WellRooted(rebase.local, cmd', Roots', rebase.invalid, rebase.plan)
      BY <1>0, <2>1, <2>2 DEF Safe, Trying
    <2>3. /\ rebase.local \subseteq 1 .. n
          /\ rebase.seen \ slipped \subseteq Pulled \union rebase.local
          /\ Queued(rebase.plan) = LeastClosure(rebase.local, cmd, Roots)
          /\ WellRooted(rebase.local, cmd, Roots, rebase.invalid, rebase.plan)
      BY DEF Safe, Trying, n
    <2>4. \A x \in rebase.local : cmd'[x] = cmd[x]
      BY <1>6, <2>3
    <2>5. Roots' = Roots
      BY <2>4 DEF Roots
    <2>6. \A roots : LeastClosure(rebase.local, cmd', roots) = LeastClosure(rebase.local, cmd, roots)
      BY <2>4, ClosureKept
    <2>7. WellRooted(rebase.local, cmd', Roots', rebase.invalid, rebase.plan)
      BY <2>3, <2>5, <2>6 DEF WellRooted
    <2>8. rebase.local \subseteq 1 .. Len(cmd')
      <3>1. 1 .. n \subseteq 1 .. n + 1
        BY <1>1
      <3> QED BY <1>6, <2>3, <3>1
    <2> QED BY <1>14, <2>3, <2>5, <2>6, <2>7, <2>8
  <1> QED BY <1>t, <1>10, <1>11, <1>12, <1>15, <1>16 DEF Safe

LEMMA AcceptPushSafe ==
    ASSUME Safe, rebase.pc = "idle", rebase' = rebase, AcceptPush
    PROVE  Safe'
  <1> DEFINE n == Len(cmd)
             list == [i \in DOMAIN Ascending(outbox) |->
                        [id |-> Ascending(outbox)[i], rows |-> cmd[Ascending(outbox)[i]].rows]]
  <1>0. /\ open /\ capture.pc = "idle" /\ HasBase /\ known = Len(server)
        /\ server' = server \o list /\ known' = Len(server') /\ outbox' = {}
        /\ cmd' = cmd /\ done' = done /\ slipped' = slipped /\ row' = row /\ image' = image
        /\ temp' = temp /\ capture' = capture /\ images' = images /\ open' = open
        /\ backup' = backup
    BY DEF AcceptPush, EngineRests, WriterFree, baseVars, hostVars
  <1>1. /\ LogOrdered(n, server) /\ Follows(done, outbox, known, n, server)
        /\ Len(server) \in Nat /\ n \in Nat /\ n <= MaxLocal
    BY Lengths DEF Safe, LiveHolds
  <1>2. outbox \in SUBSET (1 .. n) /\ outbox \intersect Upto(server, Len(server)) = {}
    BY <1>0, <1>1 DEF Follows
  <1>3. /\ list \in [1 .. Cardinality(outbox) -> Entries]
        /\ \A i \in 1 .. Cardinality(outbox) : list[i].id = Ascending(outbox)[i]
    <2> DEFINE order == Ascending(outbox)
    <2>1. outbox \in SUBSET Locals
      BY DEF Safe, Typed
    <2>2. order \in [1 .. Cardinality(outbox) -> outbox]
      BY <2>1, AscendingIs
    <2> HIDE DEF order
    <2>3. \A d \in outbox : d \in Ids /\ cmd[d].rows \in SUBSET Rows
      <3>1. \A d \in 1 .. n : cmd[d] \in Commands
        BY DEF Safe, Typed
      <3>2. \A d \in outbox : cmd[d] \in Commands
        BY <1>2, <3>1
      <3> QED BY <2>1, <3>2 DEF Commands, Ids
    <2>4. \A i \in 1 .. Cardinality(outbox) :
              /\ [id |-> order[i], rows |-> cmd[order[i]].rows] \in Entries
              /\ order[i] \in outbox
      <3>1. \A i \in 1 .. Cardinality(outbox) : order[i] \in outbox
        BY <2>2
      <3> QED BY <2>3, <3>1 DEF Entries
    <2>5. list = [i \in 1 .. Cardinality(outbox) |-> [id |-> order[i], rows |-> cmd[order[i]].rows]]
      BY <2>2 DEF order
    <2> HIDE DEF list
    <2> QED BY <2>4, <2>5 DEF order
  <1> HIDE DEF list
  <1>4. /\ LogOrdered(n, server') /\ GrownBy(server, server', outbox)
        /\ outbox \subseteq Upto(server', Len(server'))
    BY <1>0, <1>1, <1>2, <1>3, PushAppends
  <1>5. Len(server') \in Nat /\ Len(server) <= Len(server')
    BY <1>4 DEF LogOrdered, GrownBy
  <1>6. /\ \A s \in 0 .. Len(server) : Upto(server', s) = Upto(server, s)
        /\ Upto(server', Len(server')) \subseteq Upto(server, Len(server)) \union outbox
    BY <1>1, <1>4, <1>5, GrownUpto DEF GrownBy
  <1>7. \A set : Born(set, n, server) => Born(set, n, server')
    BY <1>1, <1>4, <1>5, BornGrows
  <1>q. RebaseTyped(rebase)' /\ Rebasing' /\ Trying'
    BY <1>0, <1>7, RestKept DEF Safe, Rebasing, n
  <1>t. Typed'
    BY <1>0, <1>q DEF Safe, Typed
  <1>s. Settled' = Settled
    BY <1>0 DEF Settled
  <1>8. Follows(done, {}, Len(server'), n, server')
    <2>1. Upto(server', Len(server')) \subseteq done
      BY <1>0, <1>1, <1>6 DEF Follows
    <2>2. Born(done, n, server')
      BY <1>1, <1>7 DEF Follows
    <2> QED BY <1>5, <2>1, <2>2 DEF Follows, Past
  <1>9. /\ row # None /\ row.seq \in 0 .. known /\ image # None /\ image.digest = row.digest
        /\ Base(image.has, row.seq, done, outbox, server, slipped)
    BY <1>0, Vouched
  <1>10. Base(image.has, row.seq, done, {}, server', slipped)
    <2>1. Base(image.has, row.seq, done, outbox, server', slipped)
      <3>1. outbox \intersect image.has = {} /\ row.seq \in 0 .. Len(server)
        BY <1>0, <1>9 DEF Base
      <3> QED BY <1>1, <1>4, <1>5, <1>9, <3>1, BaseGrows
    <2>2. outbox \subseteq Past(server', row.seq)
      <3>1. Upto(server', row.seq) = Upto(server, row.seq) /\ row.seq \in 0 .. Len(server)
        BY <1>0, <1>6, <1>9
      <3>2. Upto(server, row.seq) \subseteq Upto(server, Len(server))
        BY <1>1, <3>1, UptoGrows
      <3> QED BY <1>2, <1>4, <3>1, <3>2 DEF Past
    <2> QED BY <2>1, <2>2 DEF Base
  <1>11. LiveHolds'
    <2>1. Stands(row, done, {}, Len(server'), image, Settled, server', slipped)
      <3>1. row.seq \in 0 .. Len(server')
        BY <1>0, <1>1, <1>5, <1>9
      <3> QED BY <1>9, <1>10, <3>1 DEF Stands, Safe, LiveHolds
    <2>2. image # None => Born(image.has, n, server')
      BY <1>7 DEF Safe, LiveHolds, n
    <2>3. temp # None => Born(temp.has, n, server')
      BY <1>7 DEF Safe, LiveHolds, n
    <2> QED BY <1>0, <1>4, <1>8, <1>s, <2>1, <2>2, <2>3 DEF LiveHolds, n
  <1>12. BackupHolds'
    <2> SUFFICES ASSUME backup # None
                 PROVE  /\ Follows(backup.done, backup.outbox, backup.known, n, server')
                        /\ Stands(backup.row, backup.done, backup.outbox, backup.known, image,
                                  Settled, server', slipped)
      BY <1>0, <1>9, <1>s DEF BackupHolds, n
    <2>1. /\ Follows(backup.done, backup.outbox, backup.known, n, server)
          /\ Stands(backup.row, backup.done, backup.outbox, backup.known, image,
                    Settled, server, slipped)
          /\ outbox \intersect backup.done \subseteq backup.outbox
      BY DEF Safe, BackupHolds, n
    <2>2. Follows(backup.done, backup.outbox, backup.known, n, server')
      BY <1>1, <1>4, <1>5, <2>1, FollowsGrows
    <2>3. outbox \intersect image.has = {}
      BY <1>9 DEF Base
    <2>4. backup.row.seq \in 0 .. Len(server)
      BY <1>1, <2>1 DEF Follows, Stands
    <2>5. ASSUME Base(image.has, backup.row.seq, backup.done, backup.outbox, server, slipped)
          PROVE  Base(image.has, backup.row.seq, backup.done, backup.outbox, server', slipped)
      BY <1>1, <1>4, <1>5, <2>3, <2>4, <2>5, BaseGrows
    <2> QED BY <2>1, <2>2, <2>5 DEF Stands
  <1>13. Capturing'
    BY <1>0 DEF Capturing
  <1> QED BY <1>t, <1>11, <1>12, <1>13, <1>q DEF Safe

LEMMA CleanPullSafe ==
    ASSUME Safe, rebase.pc = "idle", rebase' = rebase, CleanPull
    PROVE  Safe'
  <1> DEFINE id == server[known + 1].id
  <1>0. /\ open /\ capture.pc = "idle" /\ HasBase /\ outbox = {} /\ known < Len(server)
        /\ known' = known + 1 /\ done' = done \union {id}
        /\ cmd' = cmd /\ outbox' = outbox /\ slipped' = slipped /\ row' = row /\ image' = image
        /\ temp' = temp /\ capture' = capture /\ images' = images /\ open' = open
        /\ backup' = backup /\ server' = server
    BY DEF CleanPull, EngineRests, WriterFree, baseVars, hostVars
  <1>q. RebaseTyped(rebase)' /\ Rebasing' /\ Trying'
    BY <1>0, QuietStep
  <1>1. /\ LogOrdered(Len(cmd), server) /\ Follows(done, {}, known, Len(cmd), server)
        /\ Len(server) \in Nat /\ known \in Nat /\ server \in Seq(Entries)
    BY <1>0, Lengths DEF Safe, LiveHolds, LogOrdered
  <1>2. /\ id \in Past(server, known) /\ id \in Ids /\ \A t \in 0 .. known : id \in Past(server, t)
        /\ Upto(server, known + 1) = Upto(server, known) \union {id}
    <2>1. \A t \in 0 .. known : id \notin Upto(server, t)
      BY <1>0, <1>1, NextIsNew DEF Past
    <2> QED BY <1>0, <1>1, NextIsNew, UptoNext DEF Past
  <1>3. id \in 1 .. Len(cmd) \/ id \in Upto(server, Len(server)) \intersect Remotes
    <2>1. known + 1 \in 1 .. Len(server)
      BY <1>0, <1>1
    <2> QED BY <1>1, <1>2, <2>1 DEF LogOrdered, Past
  <1> HIDE DEF id
  <1>t. Typed'
    BY <1>0, <1>2, <1>q DEF Safe, Typed
  <1>s. Settled' = Settled
    BY <1>0 DEF Settled
  <1>4. Follows(done', {}, known + 1, Len(cmd), server)
    <2>1. Born(done', Len(cmd), server)
      BY <1>0, <1>1, <1>3 DEF Follows, Born
    <2>2. known + 1 \in 0 .. Len(server)
      BY <1>0, <1>1
    <2>3. Upto(server, known + 1) \subseteq done' /\ done' \intersect Past(server, known + 1) = {}
      BY <1>0, <1>1, <1>2 DEF Follows, Past
    <2> QED BY <2>1, <2>2, <2>3 DEF Follows
  <1>9. /\ row # None /\ row.seq \in 0 .. known
        /\ Base(image.has, row.seq, done, {}, server, slipped)
    BY <1>0, Vouched
  <1>10. Base(image.has, row.seq, done', {}, server, slipped)
    BY <1>0, <1>2, <1>9 DEF Base
  <1>11. LiveHolds'
    <2>1. Stands(row, done', {}, known + 1, image, Settled, server, slipped)
      <3>1. row.seq \in 0 .. known + 1
        BY <1>1, <1>9
      <3> QED BY <1>9, <1>10, <3>1 DEF Stands, Safe, LiveHolds
    <2> QED BY <1>0, <1>4, <1>s, <2>1 DEF Safe, LiveHolds
  <1>12. BackupHolds'
    BY <1>0, <1>s DEF Safe, BackupHolds
  <1>13. Capturing'
    BY <1>0 DEF Capturing
  <1> QED BY <1>t, <1>11, <1>12, <1>13, <1>q DEF Safe

LEMMA OtherPushesSafe ==
    ASSUME Safe, OtherPushes, rebase' = rebase
    PROVE  Safe'
  <1> DEFINE n == Len(cmd)
             id == MaxLocal + Cardinality(Foreign(server)) + 1
  <1>1. /\ LogOrdered(n, server) /\ Len(server) \in Nat /\ n \in Nat /\ n <= MaxLocal
        /\ known \in 0 .. Len(server)
    BY Lengths DEF Safe, LiveHolds
  <1>0. /\ Cardinality(Foreign(server)) < MaxRemote /\ row # None
        /\ \E w \in SUBSET Rows : server' = Append(server, [id |-> id, rows |-> w])
        /\ known' = known /\ cmd' = cmd /\ done' = done /\ outbox' = outbox /\ slipped' = slipped
        /\ row' = row /\ image' = image /\ temp' = temp /\ capture' = capture
        /\ images' = images /\ open' = open /\ backup' = backup
    <2>1. Foreign(server) = {i \in DOMAIN server : server[i].id \in Remotes}
      BY <1>1 DEF LogOrdered, Foreign
    <2> QED BY <2>1 DEF OtherPushes, liveVars, baseVars, hostVars
  <1> HIDE DEF id
  <1>2. /\ LogOrdered(n, server') /\ GrownBy(server, server', {id})
        /\ \A set : Born(set, n, server) => id \notin set
    <2>1. PICK w \in SUBSET Rows : server' = Append(server, [id |-> id, rows |-> w])
      BY <1>0
    <2>2. id = MaxLocal + Cardinality(Foreign(server)) + 1
      BY DEF id
    <2>3. Cardinality(Foreign(server)) < MaxRemote
      BY <1>0
    <2> HIDE DEF n
    <2>4. \A x, tv : /\ x = MaxLocal + Cardinality(Foreign(server)) + 1
                    /\ tv = Append(server, [id |-> x, rows |-> w])
                    => LogOrdered(n, tv) /\ GrownBy(server, tv, {x})
      BY <1>1, <2>3, OtherAppends
    <2>5. \A x, tv : /\ x = MaxLocal + Cardinality(Foreign(server)) + 1
                    /\ tv = Append(server, [id |-> x, rows |-> w])
                    => \A set : Born(set, n, server) => x \notin set
      BY <1>1, <2>3, OtherAppends
    <2> QED BY <2>1, <2>2, <2>4, <2>5
  <1>5. Len(server') \in Nat /\ Len(server) <= Len(server')
    BY <1>2 DEF LogOrdered, GrownBy
  <1>6. \A s \in 0 .. Len(server) : /\ Upto(server', s) = Upto(server, s)
                                    /\ Past(server, s) \subseteq Past(server', s)
    BY <1>1, <1>2, <1>5, GrownUpto
  <1>7. \A set : Born(set, n, server) => Born(set, n, server')
    BY <1>1, <1>2, <1>5, BornGrows
  <1>8. ASSUME NEW d, NEW o, NEW k, Follows(d, o, k, n, server)
        PROVE  Follows(d, o, k, n, server')
    <2>1. {id} \intersect d \subseteq o
      BY <1>2, <1>8 DEF Follows
    <2> QED BY <1>1, <1>2, <1>5, <1>8, <2>1, FollowsGrows
  <1>9. ASSUME NEW h, Born(h, n, server), NEW s \in 0 .. Len(server), NEW d, NEW o,
               Base(h, s, d, o, server, slipped)
        PROVE  Base(h, s, d, o, server', slipped)
    <2>1. {id} \intersect h = {}
      BY <1>2, <1>9
    <2> QED BY <1>1, <1>2, <1>5, <1>9, <2>1, BaseGrows
  <1>10. ASSUME NEW r, NEW d, NEW o, NEW k \in 0 .. Len(server),
                Stands(r, d, o, k, image, Settled, server, slipped)
         PROVE  Stands(r, d, o, k, image, Settled, server', slipped)
    <2>1. r.seq \in 0 .. Len(server)
      BY <1>1, <1>10 DEF Stands
    <2>2. image # None => Born(image.has, n, server)
      BY DEF Safe, LiveHolds, n
    <2> QED BY <1>9, <1>10, <2>1, <2>2 DEF Stands
  <1>s. Settled' = Settled
    BY <1>0 DEF Settled
  <1>t. Typed'
    <2>1. RebaseTyped(rebase')
      BY DEF Safe, Typed
    <2> QED BY <1>0, <2>1 DEF Safe, Typed
  <1>11. LiveHolds'
    <2>1. /\ Follows(done, outbox, known, n, server)
          /\ row # None => Stands(row, done, outbox, known, image, Settled, server, slipped)
          /\ image # None => Born(image.has, n, server)
          /\ temp # None => Born(temp.has, n, server)
      BY DEF Safe, LiveHolds, n
    <2>2. /\ Follows(done, outbox, known, n, server')
          /\ row # None => Stands(row, done, outbox, known, image, Settled, server', slipped)
          /\ image # None => Born(image.has, n, server')
          /\ temp # None => Born(temp.has, n, server')
      BY <1>1, <1>7, <1>8, <1>10, <2>1
    <2> QED BY <1>0, <1>2, <1>s, <2>2 DEF LiveHolds, n
  <1>12. BackupHolds'
    <2> SUFFICES ASSUME backup # None
                 PROVE  /\ Follows(backup.done, backup.outbox, backup.known, n, server')
                        /\ Stands(backup.row, backup.done, backup.outbox, backup.known, image,
                                  Settled, server', slipped)
      BY <1>0, <1>s DEF Safe, BackupHolds, n
    <2>1. /\ Follows(backup.done, backup.outbox, backup.known, n, server)
          /\ Stands(backup.row, backup.done, backup.outbox, backup.known, image,
                    Settled, server, slipped)
      BY DEF Safe, BackupHolds, n
    <2>2. backup.known \in 0 .. Len(server)
      BY <2>1 DEF Follows
    <2> QED BY <1>8, <1>10, <2>1, <2>2
  <1>13. Capturing'
    <2>1. capture.pc \in {"strip", "rename"} => Base(temp.has, known, done, outbox, server', slipped)
      BY <1>1, <1>9 DEF Safe, Capturing, LiveHolds, n
    <2>2. capture.pc = "commit" /\ image # None =>
              Base(image.has, known, done, outbox, server', slipped)
      BY <1>1, <1>9 DEF Safe, Capturing, LiveHolds, n
    <2> QED BY <1>0, <2>1, <2>2 DEF Safe, Capturing
  <1>14. rebase.pc # "idle" => rebase.head \in 0 .. Len(server)
    <2>1. rebase.head \in Nat
      BY Bounds DEF Safe, Typed, RebaseTyped, Heads
    <2>2. rebase.pc \in Pcs
      BY DEF Safe, Typed, RebaseTyped
    <2> QED BY <1>1, <2>1, <2>2 DEF Safe, Rebasing, Pcs
  <1>15. Rebasing'
    <2>1. Born(rebase.has, n, server')
      BY <1>7 DEF Safe, Rebasing, n
    <2>2. rebase.pc = "pull" =>
            /\ Upto(server', rebase.head) \subseteq rebase.has
            /\ rebase.has \intersect outbox \subseteq Upto(server', rebase.head)
            /\ done \subseteq rebase.has \union Past(server', rebase.head) \union outbox \union slipped
      BY <1>6, <1>14 DEF Safe, Rebasing
    <2>3. rebase.pc \in {"pull", "trial", "done"} =>
              rebase.base <= rebase.head /\ rebase.head <= Len(server')
      <3>1. rebase.pc \in {"pull", "trial", "done"} =>
                rebase.base <= rebase.head /\ rebase.head <= Len(server) /\ rebase.head \in Int
        BY <1>14 DEF Safe, Rebasing
      <3> QED BY <1>1, <1>5, <3>1
    <2> QED BY <1>0, <2>1, <2>2, <2>3 DEF Safe, Rebasing, n
  <1>16. Trying'
    <2>1. Replayed' = Replayed /\ Planned' = Planned /\ Roots' = Roots
      BY <1>0 DEF Replayed, Planned, Roots
    <2>2. Pulled' = Pulled
      BY <2>1 DEF Pulled
    <2>3. rebase.pc \in {"trial", "done"} => Upto(server', rebase.head) = Upto(server, rebase.head)
      BY <1>6, <1>14
    <2> QED BY <1>0, <2>1, <2>2, <2>3 DEF Safe, Trying
  <1> QED BY <1>t, <1>11, <1>12, <1>13, <1>15, <1>16 DEF Safe

-----------------------------------------------------------------------------
(* A rebase, step by step. *)

\* A rebase step touches the scratch vault alone.
LEMMA RebaseStep ==
    ASSUME Safe, Unchanged, capture.pc = "idle", RebaseTyped(rebase'), Rebasing', Trying'
    PROVE  Safe'
  <1> USE DEF Unchanged, liveVars, baseVars, engineVars, hostVars
  <1>1. Typed'
    BY DEF Safe, Typed
  <1>2. Settled' = Settled
    BY DEF Settled
  <1>3. LiveHolds' /\ BackupHolds'
    BY <1>2 DEF Safe, LiveHolds, BackupHolds
  <1>4. Capturing'
    BY DEF Capturing
  <1> QED BY <1>1, <1>3, <1>4 DEF Safe

\* A plan for what a trial starts with: the least closure of the conflicts.
LEMMA PlanOfTrial ==
    ASSUME Safe, NEW local \in SUBSET (1 .. Len(cmd)), NEW invalid \in SUBSET local, NEW touched
    PROVE  LET plan == Plan(local, cmd, touched, invalid)
               roots == Conflicts(local, cmd, touched, invalid)
           IN  /\ DOMAIN plan = local
               /\ \A c \in local : plan[c].queued \in BOOLEAN
               /\ Queued(plan) = LeastClosure(local, cmd, roots)
               /\ WellRooted(local, cmd, roots, invalid, plan)
  <1>1. Len(cmd) \in Nat
    BY Lengths
  <1>2. IsFiniteSet(1 .. Len(cmd))
    BY <1>1, FS_Interval
  <1>3. IsFiniteSet(local)
    BY <1>2, FS_Subset
  <1>4. local \in SUBSET (Nat \ {0}) /\ \A c \in local : c <= Len(cmd)
    BY <1>1
  <1> QED BY <1>1, <1>3, <1>4, PlanIsClosure

\* The fields of the scratch vault's next state.
LEMMA FieldsOf ==
    ASSUME NEW r, NEW pc, NEW base, NEW head, NEW has, NEW touched, NEW local, NEW seen,
           NEW invalid, NEW plan, NEW replayed,
           r = [pc |-> pc, base |-> base, head |-> head, has |-> has, touched |-> touched,
                local |-> local, seen |-> seen, invalid |-> invalid, plan |-> plan,
                replayed |-> replayed]
    PROVE  /\ Scratch(r)
           /\ r.pc = pc /\ r.base = base /\ r.head = head /\ r.has = has /\ r.touched = touched
           /\ r.local = local /\ r.seen = seen /\ r.invalid = invalid /\ r.plan = plan
           /\ r.replayed = replayed
  BY DEF Scratch

LEMMA BeginRebaseSafe == Safe /\ BeginRebase => Safe'
  <1> SUFFICES ASSUME Safe, BeginRebase PROVE Safe'
    OBVIOUS
  <1>0. open /\ capture.pc = "idle" /\ HasBase /\ Unchanged /\ row' = row /\ image' = image /\ open' = open
    BY DEF BeginRebase, EngineRests, WriterFree, Unchanged, baseVars, hostVars
  <1>1. row # None /\ row.state = "Ready" /\ image.digest = row.digest /\ row.seq \in Heads
    BY <1>0, Vouched DEF BaseRows
  <1>2. rebase' = [pc |-> "copy", base |-> row.seq, head |-> 0, has |-> {}, touched |-> {}, local |-> {},
                   seen |-> {}, invalid |-> {}, plan |-> <<>>, replayed |-> <<>>]
    BY DEF BeginRebase, NoRebase
  <1>f. /\ Scratch(rebase') /\ rebase'.pc = "copy" /\ rebase'.base = row.seq /\ rebase'.head = 0
        /\ rebase'.has = {} /\ rebase'.touched = {} /\ rebase'.local = {} /\ rebase'.seen = {}
        /\ rebase'.invalid = {} /\ rebase'.plan = <<>> /\ rebase'.replayed = <<>>
    BY <1>2, FieldsOf
  <1>3. RebaseTyped(rebase')
    BY <1>1, <1>f, Bounds DEF RebaseTyped, Pcs, Heads
  <1>4. Rebasing'
    BY <1>0, <1>1, <1>f DEF Rebasing, Born
  <1>5. Trying'
    BY <1>f DEF Trying, Replayed, Planned
  <1> QED BY <1>0, <1>3, <1>4, <1>5, RebaseStep

LEMMA CopyBaseSafe == Safe /\ CopyBase => Safe'
  <1> SUFFICES ASSUME Safe, CopyBase PROVE Safe'
    OBVIOUS
  <1>0. /\ Unchanged /\ rebase.pc = "copy" /\ cmd' = cmd /\ done' = done /\ outbox' = outbox
        /\ slipped' = slipped /\ row' = row /\ image' = image /\ server' = server /\ open' = open
    BY DEF CopyBase, Unchanged, liveVars, baseVars, engineVars, hostVars
  <1>1. /\ capture.pc = "idle" /\ row # None /\ row.state = "Ready" /\ rebase.base = row.seq
        /\ image # None /\ image.digest = row.digest
    BY <1>0 DEF CopyBase, Safe, Capturing, Rebasing
  <1>2. /\ row.seq \in 0 .. known /\ Base(image.has, row.seq, done, outbox, server, slipped)
        /\ Born(image.has, Len(cmd), server)
    BY <1>1 DEF Safe, LiveHolds, Stands
  <1>3. known \in 0 .. Len(server) /\ Len(server) \in Nat
    BY Lengths
  <1>t. RebaseTyped(rebase)
    BY DEF Safe, Typed
  <1>4. rebase' = [pc |-> "pull", base |-> rebase.base, head |-> rebase.base, has |-> image.has,
                   touched |-> rebase.touched, local |-> rebase.local, seen |-> rebase.seen,
                   invalid |-> rebase.invalid, plan |-> rebase.plan, replayed |-> rebase.replayed]
    BY <1>t DEF CopyBase, RebaseTyped, Scratch
  <1>f. /\ Scratch(rebase') /\ rebase'.pc = "pull" /\ rebase'.base = rebase.base
        /\ rebase'.head = rebase.base /\ rebase'.has = image.has
        /\ rebase'.touched = rebase.touched /\ rebase'.local = rebase.local
        /\ rebase'.seen = rebase.seen /\ rebase'.invalid = rebase.invalid
        /\ rebase'.plan = rebase.plan /\ rebase'.replayed = rebase.replayed
    BY <1>4, FieldsOf
  <1>5. RebaseTyped(rebase')
    <2>1. image.has \subseteq Ids
      BY <1>1 DEF Safe, Typed, Images
    <2>2. /\ rebase.local = {} /\ rebase.invalid = {} /\ rebase.replayed = <<>> /\ rebase.plan = <<>>
      BY <1>0, <1>t DEF RebaseTyped
    <2> QED BY <1>f, <1>t, <2>1, <2>2 DEF RebaseTyped, Pcs
  <1>6. Rebasing'
    <2>1. row.seq <= Len(server) /\ row.seq <= row.seq /\ open
      BY <1>0, <1>2, <1>3 DEF Safe, Rebasing
    <2> QED BY <1>0, <1>1, <1>2, <1>f, <2>1 DEF Rebasing, Base
  <1>7. Trying'
    <2>1. rebase.replayed = <<>>
      BY <1>0, <1>t DEF RebaseTyped
    <2> QED BY <1>f, <2>1 DEF Trying, Replayed, Planned
  <1> QED BY <1>0, <1>1, <1>5, <1>6, <1>7, RebaseStep

LEMMA ApplyPulledSafe ==
    ASSUME Safe, NEW seq \in DOMAIN server, ApplyPulled(seq)
    PROVE  Safe'
  <1> DEFINE id == server[seq].id
  <1>0. /\ Unchanged /\ rebase.pc = "pull" /\ cmd' = cmd /\ done' = done /\ outbox' = outbox
        /\ slipped' = slipped /\ row' = row /\ image' = image /\ server' = server /\ open' = open
    BY DEF ApplyPulled, Unchanged, liveVars, baseVars, engineVars, hostVars
  <1>1. capture.pc = "idle"
    BY <1>0 DEF Safe, Capturing
  <1>t. RebaseTyped(rebase)
    BY DEF Safe, Typed
  <1>l. LogOrdered(Len(cmd), server) /\ server \in Seq(Entries) /\ Len(server) \in Nat
    BY Lengths DEF Safe, LiveHolds, LogOrdered
  <1>2. /\ rebase.head \in Nat /\ rebase.base \in Nat /\ rebase.base <= rebase.head
        /\ seq = rebase.head + 1 /\ seq \in 1 .. Len(server) /\ seq \in Heads
    <2>1. Len(server) \in Heads /\ rebase.head \in Nat /\ rebase.base \in Nat
      BY <1>l, <1>t, LogBounded, Bounds DEF RebaseTyped, Heads
    <2>2. seq \in 1 .. Len(server) /\ seq = rebase.head + 1 /\ rebase.base <= rebase.head
      BY <1>0, <1>l DEF ApplyPulled, Safe, Rebasing
    <2> QED BY <2>1, <2>2, Bounds DEF Heads
  <1>3. id \in Ids /\ server[seq].rows \subseteq Rows
    <2>1. server[seq] \in Entries
      BY <1>l, <1>2
    <2> QED BY <2>1 DEF Entries
  <1>4. id \in 1 .. Len(cmd) \/ id \in Upto(server, Len(server)) \intersect Remotes
    <2>1. id \in Upto(server, Len(server))
      BY <1>2 DEF Upto
    <2> QED BY <1>l, <1>2, <2>1 DEF LogOrdered
  <1>5. Upto(server, seq) = Upto(server, rebase.head) \union {id}
    BY <1>l, <1>2, UptoNext
  <1>6. rebase' = [pc |-> "pull", base |-> rebase.base, head |-> seq, has |-> rebase.has \union {id},
                   touched |-> rebase.touched \union server[seq].rows, local |-> rebase.local,
                   seen |-> rebase.seen,
                   invalid |-> rebase.invalid, plan |-> rebase.plan, replayed |-> rebase.replayed]
    BY <1>0, <1>t DEF ApplyPulled, RebaseTyped, Scratch
  <1> HIDE DEF id
  <1>f. /\ Scratch(rebase') /\ rebase'.pc = "pull" /\ rebase'.base = rebase.base
        /\ rebase'.head = seq /\ rebase'.has = rebase.has \union {id}
        /\ rebase'.touched = rebase.touched \union server[seq].rows
        /\ rebase'.local = rebase.local
        /\ rebase'.seen = rebase.seen /\ rebase'.invalid = rebase.invalid
        /\ rebase'.plan = rebase.plan /\ rebase'.replayed = rebase.replayed
    BY <1>6, FieldsOf
  <1>7. RebaseTyped(rebase')
    <2>2. /\ rebase.local = {} /\ rebase.invalid = {} /\ rebase.replayed = <<>> /\ rebase.plan = <<>>
      BY <1>0, <1>t DEF RebaseTyped
    <2> QED BY <1>t, <1>2, <1>3, <1>f, <2>2 DEF RebaseTyped, Pcs
  <1>8. Rebasing'
    <2>1. Born(rebase.has \union {id}, Len(cmd), server)
      BY <1>4 DEF Safe, Rebasing, Born
    <2>2. /\ Upto(server, seq) \subseteq rebase.has \union {id}
          /\ (rebase.has \union {id}) \intersect outbox \subseteq Upto(server, seq)
          /\ done \subseteq rebase.has \union {id} \union Past(server, seq) \union outbox \union slipped
      BY <1>0, <1>5 DEF Safe, Rebasing, Past
    <2>3. rebase.base <= seq /\ seq <= Len(server) /\ open /\ row # None
      BY <1>0, <1>l, <1>2 DEF Safe, Rebasing
    <2> QED BY <1>0, <1>f, <2>1, <2>2, <2>3 DEF Rebasing
  <1>9. Trying'
    <2>1. rebase.replayed = <<>>
      BY <1>0, <1>t DEF RebaseTyped
    <2> QED BY <1>f, <2>1 DEF Trying, Replayed, Planned
  <1> QED BY <1>0, <1>1, <1>7, <1>8, <1>9, RebaseStep

\* The fields a trial writes, and those the read of the outbox writes.
LEMMA TrialFields ==
    ASSUME NEW r, Scratch(r), NEW has, NEW invalid, NEW plan
    PROVE  [r EXCEPT !.pc = "trial", !.has = has, !.invalid = invalid, !.plan = plan,
                     !.replayed = <<>>]
             = [pc |-> "trial", base |-> r.base, head |-> r.head, has |-> has,
                touched |-> r.touched, local |-> r.local, seen |-> r.seen,
                invalid |-> invalid, plan |-> plan, replayed |-> <<>>]
  <1> DEFINE e == [r EXCEPT !.pc = "trial", !.has = has, !.invalid = invalid, !.plan = plan,
                            !.replayed = <<>>]
  <1>1. DOMAIN r = {"pc", "base", "head", "has", "touched", "local", "seen", "invalid", "plan",
                    "replayed"}
    BY DEF Scratch
  <1>2. e = [f \in DOMAIN r |->
               IF f = "replayed" THEN <<>> ELSE IF f = "plan" THEN plan
               ELSE IF f = "invalid" THEN invalid ELSE IF f = "has" THEN has
               ELSE IF f = "pc" THEN "trial" ELSE r[f]]
    BY <1>1
  <1> QED BY <1>1, <1>2

LEMMA LocalFields ==
    ASSUME NEW r, Scratch(r), NEW local, NEW seen
    PROVE  [r EXCEPT !.local = local, !.seen = seen]
             = [pc |-> r.pc, base |-> r.base, head |-> r.head, has |-> r.has,
                touched |-> r.touched, local |-> local, seen |-> seen,
                invalid |-> r.invalid, plan |-> r.plan, replayed |-> r.replayed]
  <1> DEFINE e == [r EXCEPT !.local = local, !.seen = seen]
  <1>1. DOMAIN r = {"pc", "base", "head", "has", "touched", "local", "seen", "invalid", "plan",
                    "replayed"}
    BY DEF Scratch
  <1>2. e = [f \in DOMAIN r |-> IF f = "seen" THEN seen ELSE IF f = "local" THEN local ELSE r[f]]
    BY <1>1
  <1> QED BY <1>1, <1>2

LEMMA ReplayedFields ==
    ASSUME NEW r, Scratch(r), NEW c
    PROVE  [r EXCEPT !.has = @ \union {c}, !.replayed = Append(@, c)]
             = [pc |-> r.pc, base |-> r.base, head |-> r.head, has |-> r.has \union {c},
                touched |-> r.touched, local |-> r.local, seen |-> r.seen,
                invalid |-> r.invalid, plan |-> r.plan, replayed |-> Append(r.replayed, c)]
  <1> DEFINE e == [r EXCEPT !.has = @ \union {c}, !.replayed = Append(@, c)]
  <1>1. DOMAIN r = {"pc", "base", "head", "has", "touched", "local", "seen", "invalid", "plan",
                    "replayed"}
    BY DEF Scratch
  <1> DEFINE has == r.has \union {c}
             replayed == Append(r.replayed, c)
  <1>2. e = [f \in DOMAIN r |-> IF f = "replayed" THEN replayed
                                ELSE IF f = "has" THEN has ELSE r[f]]
    BY <1>1
  <1> HIDE DEF e, has, replayed
  <1>3. e = [pc |-> r.pc, base |-> r.base, head |-> r.head, has |-> has,
             touched |-> r.touched, local |-> r.local, seen |-> r.seen,
             invalid |-> r.invalid, plan |-> r.plan, replayed |-> replayed]
    BY <1>1, <1>2
  <1> QED BY <1>3 DEF e, has, replayed

LEMMA TrialIs ==
    ASSUME NEW r, Scratch(r), NEW refused
    PROVE  Trial(r, refused) =
             [pc |-> "trial", base |-> r.base, head |-> r.head,
              has |-> r.has \ {r.replayed[i] : i \in DOMAIN r.replayed},
              touched |-> r.touched, local |-> r.local, seen |-> r.seen,
              invalid |-> r.invalid \union refused,
              plan |-> Plan(r.local, cmd, r.touched, r.invalid \union refused),
              replayed |-> <<>>]
  BY TrialFields, Zenon DEF Trial

LEMMA ReadLocalSafe == Safe /\ ReadLocal => Safe'
  <1> SUFFICES ASSUME Safe, ReadLocal PROVE Safe'
    OBVIOUS
  <1> DEFINE plan == Plan(outbox, cmd, rebase.touched, {})
  <1>0. /\ Unchanged /\ rebase.pc = "pull" /\ cmd' = cmd /\ done' = done /\ outbox' = outbox
        /\ slipped' = slipped /\ row' = row /\ image' = image /\ server' = server /\ open' = open
        /\ rebase.head >= known
        /\ rebase' = Trial([rebase EXCEPT !.local = outbox, !.seen = done], {})
    BY DEF ReadLocal, Unchanged, liveVars, baseVars, engineVars, hostVars
  <1>1. capture.pc = "idle"
    BY <1>0 DEF Safe, Capturing
  <1>t. RebaseTyped(rebase)
    BY DEF Safe, Typed
  <1>2. /\ rebase.replayed = <<>> /\ rebase.invalid = {} /\ rebase.pc = "pull"
        /\ rebase.head >= known /\ rebase.head \in 0 .. Len(server) /\ known \in Nat
        /\ rebase.base <= rebase.head
    <2>1. rebase.head \in Nat
      BY <1>t, Bounds DEF RebaseTyped, Heads
    <2>2. known \in 0 .. Len(server) /\ Len(server) \in Nat
      BY Lengths
    <2> QED BY <1>0, <1>t, <2>1, <2>2 DEF RebaseTyped, Safe, Rebasing
  <1>3. rebase' = [pc |-> "trial", base |-> rebase.base, head |-> rebase.head, has |-> rebase.has,
                   touched |-> rebase.touched, local |-> outbox, seen |-> done,
                   invalid |-> {}, plan |-> plan, replayed |-> <<>>]
    <2>1. {rebase.replayed[i] : i \in DOMAIN rebase.replayed} = {}
      BY <1>2
    <2>2. rebase.has \ {rebase.replayed[i] : i \in DOMAIN rebase.replayed} = rebase.has
      BY <2>1
    <2>4. rebase.invalid \union {} = {}
      BY <1>2
    <2> DEFINE r == [rebase EXCEPT !.local = outbox, !.seen = done]
    <2>5. r = [pc |-> rebase.pc, base |-> rebase.base, head |-> rebase.head, has |-> rebase.has,
               touched |-> rebase.touched, local |-> outbox, seen |-> done,
               invalid |-> rebase.invalid, plan |-> rebase.plan, replayed |-> rebase.replayed]
      BY <1>t, LocalFields DEF RebaseTyped
    <2> HIDE DEF r
    <2>6. /\ Scratch(r) /\ r.base = rebase.base /\ r.head = rebase.head /\ r.has = rebase.has
          /\ r.touched = rebase.touched /\ r.local = outbox /\ r.seen = done
          /\ r.invalid = rebase.invalid /\ r.replayed = rebase.replayed
      BY <2>5, FieldsOf
    <2>7. Trial(r, {}) = [pc |-> "trial", base |-> rebase.base, head |-> rebase.head, has |-> rebase.has,
                          touched |-> rebase.touched, local |-> outbox, seen |-> done,
                          invalid |-> {}, plan |-> plan, replayed |-> <<>>]
      <3>1. Trial(r, {}) =
              [pc |-> "trial", base |-> r.base, head |-> r.head,
               has |-> r.has \ {r.replayed[i] : i \in DOMAIN r.replayed},
               touched |-> r.touched, local |-> r.local, seen |-> r.seen,
               invalid |-> r.invalid \union {},
               plan |-> Plan(r.local, cmd, r.touched, r.invalid \union {}),
               replayed |-> <<>>]
        BY <2>6, TrialIs
      <3> QED BY <2>2, <2>4, <2>6, <3>1, Zenon
    <2> QED BY <1>0, <2>7 DEF r
  <1>4. /\ DOMAIN plan = outbox /\ \A c \in outbox : plan[c].queued \in BOOLEAN
        /\ Queued(plan) = LeastClosure(outbox, cmd, Conflicts(outbox, cmd, rebase.touched, {}))
        /\ WellRooted(outbox, cmd, Conflicts(outbox, cmd, rebase.touched, {}), {}, plan)
    <2>1. outbox \in SUBSET (1 .. Len(cmd)) /\ {} \in SUBSET outbox
      BY DEF Safe, LiveHolds, Follows
    <2> QED BY <2>1, PlanOfTrial
  <1> HIDE DEF plan
  <1>f. /\ Scratch(rebase') /\ rebase'.pc = "trial" /\ rebase'.base = rebase.base
        /\ rebase'.head = rebase.head /\ rebase'.has = rebase.has
        /\ rebase'.touched = rebase.touched /\ rebase'.local = outbox
        /\ rebase'.seen = done /\ rebase'.invalid = {}
        /\ rebase'.plan = plan /\ rebase'.replayed = <<>>
    BY <1>3, FieldsOf
  <1>5. RebaseTyped(rebase')
    BY <1>t, <1>4, <1>f DEF RebaseTyped, Pcs, Safe, Typed
  <1>6. Rebasing'
    <2>1. Born(rebase.has, Len(cmd), server) /\ open /\ row # None
      BY <1>2 DEF Safe, Rebasing
    <2>2. rebase.base <= rebase.head /\ rebase.head <= Len(server)
      BY <1>2, Lengths
    <2> QED BY <1>0, <1>f, <2>1, <2>2 DEF Rebasing
  <1>7. Trying'
    <2>1. Replayed' = {} /\ Pulled' = rebase.has
      BY <1>f DEF Replayed, Pulled
    <2>2. Roots' = Conflicts(outbox, cmd, rebase.touched, {})
      BY <1>0, <1>f DEF Roots, Conflicts
    <2>3. done \intersect Past(server, rebase.head) \subseteq outbox
      <3>1. Upto(server, known) \subseteq Upto(server, rebase.head)
        BY <1>2, UptoGrows
      <3> QED BY <3>1 DEF Safe, LiveHolds, Follows, Past
    <2>4. /\ outbox \subseteq 1 .. Len(cmd)
          /\ Upto(server, rebase.head) \subseteq rebase.has
          /\ rebase.has \intersect outbox \subseteq Upto(server, rebase.head)
          /\ done \ slipped \subseteq rebase.has \union outbox
      BY <1>2, <2>3 DEF Safe, LiveHolds, Follows, Rebasing
    <2>5. /\ rebase'.pc \in {"trial", "done"} =>
                /\ rebase'.local \subseteq 1 .. Len(cmd')
                /\ Upto(server', rebase'.head) \subseteq Pulled'
                /\ Pulled' \intersect rebase'.local \subseteq Upto(server', rebase'.head)
                /\ rebase'.seen \ slipped' \subseteq Pulled' \union rebase'.local
          /\ Queued(rebase'.plan) = LeastClosure(rebase'.local, cmd', Roots')
          /\ WellRooted(rebase'.local, cmd', Roots', rebase'.invalid, rebase'.plan)
      BY <1>0, <1>4, <1>f, <2>1, <2>2, <2>4
    <2>6. Replayed' = {} /\ rebase'.pc # "done" /\ 1 .. Len(rebase'.replayed) = {}
      BY <1>f, <2>1
    <2> QED BY <2>5, <2>6 DEF Trying
  <1> QED BY <1>0, <1>1, <1>5, <1>6, <1>7, RebaseStep

\* A replayed command is the first of the planned ones left.
LEMMA RemainingIs ==
    ASSUME Safe
    PROVE  /\ Remaining = Planned \ Replayed
           /\ DOMAIN rebase.replayed = 1 .. Len(rebase.replayed) /\ Len(rebase.replayed) \in Nat
           /\ rebase.replayed \in Seq(Locals)
           /\ {rebase.replayed[i] : i \in DOMAIN rebase.replayed} = Replayed
  <1>1. rebase.replayed \in Seq(Locals)
    BY DEF Safe, Typed, RebaseTyped
  <1>2. DOMAIN rebase.replayed = 1 .. Len(rebase.replayed) /\ Len(rebase.replayed) \in Nat
    BY <1>1
  <1> QED BY <1>1, <1>2 DEF Remaining, Planned, Replayed

LEMMA ReplayNextSafe == Safe /\ ReplayNext => Safe'
  <1> SUFFICES ASSUME Safe, ReplayNext PROVE Safe'
    OBVIOUS
  <1> DEFINE c == Min(Remaining)
  <1>0. /\ Unchanged /\ rebase.pc = "trial" /\ cmd' = cmd /\ done' = done /\ outbox' = outbox
        /\ slipped' = slipped /\ row' = row /\ image' = image /\ server' = server /\ open' = open
        /\ Remaining # {} /\ c \notin rebase.has
        /\ \/ rebase' = [rebase EXCEPT !.has = @ \union {c}, !.replayed = Append(@, c)]
           \/ rebase' = Trial(rebase, {c})
    BY DEF ReplayNext, Unchanged, liveVars, baseVars, engineVars, hostVars
  <1>1. capture.pc = "idle"
    BY <1>0 DEF Safe, Capturing
  <1>t. RebaseTyped(rebase) /\ Scratch(rebase)
    BY DEF Safe, Typed, RebaseTyped
  <1>r. /\ Remaining = Planned \ Replayed
        /\ Len(rebase.replayed) \in Nat /\ rebase.replayed \in Seq(Locals)
        /\ {rebase.replayed[i] : i \in DOMAIN rebase.replayed} = Replayed
    BY RemainingIs
  <1>2. c \in Planned \ Replayed /\ \A d \in Planned \ Replayed : c <= d
    <2>1. Remaining \in SUBSET Nat
      BY <1>r, <1>t, Bounds DEF Planned, RebaseTyped, Locals
    <2> QED BY <1>0, <1>r, <2>1, MinIsFirst
  <1> HIDE DEF c
  <1>3. /\ rebase.local \subseteq 1 .. Len(cmd) /\ c \in rebase.local /\ c \in Locals /\ c \in Ids
        /\ c \in 1 .. Len(cmd)
    <2>1. rebase.local \subseteq 1 .. Len(cmd)
      BY <1>0 DEF Safe, Trying
    <2> QED BY <1>2, <1>t, <2>1 DEF Planned, RebaseTyped, Ids
  <1>4. /\ Born(rebase.has, Len(cmd), server) /\ open /\ row # None
        /\ rebase.base <= rebase.head /\ rebase.head <= Len(server)
    BY <1>0 DEF Safe, Rebasing
  <1>5. /\ Upto(server, rebase.head) \subseteq Pulled
        /\ Pulled \intersect rebase.local \subseteq Upto(server, rebase.head)
        /\ rebase.seen \ slipped \subseteq Pulled \union rebase.local
        /\ Queued(rebase.plan) = LeastClosure(rebase.local, cmd, Roots)
        /\ WellRooted(rebase.local, cmd, Roots, rebase.invalid, rebase.plan)
        /\ Replayed \subseteq Planned /\ Replayed \subseteq rebase.has
        /\ \A i, j \in 1 .. Len(rebase.replayed) : i < j => rebase.replayed[i] < rebase.replayed[j]
        /\ \A d \in Replayed, e \in Planned \ Replayed : d < e
    BY <1>0 DEF Safe, Trying
  <1>6. CASE rebase' = [rebase EXCEPT !.has = @ \union {c}, !.replayed = Append(@, c)]
    <2>1. rebase' = [pc |-> rebase.pc, base |-> rebase.base, head |-> rebase.head,
                     has |-> rebase.has \union {c}, touched |-> rebase.touched,
                     local |-> rebase.local, seen |-> rebase.seen, invalid |-> rebase.invalid,
                     plan |-> rebase.plan, replayed |-> Append(rebase.replayed, c)]
      BY <1>6, <1>t, ReplayedFields
    <2>f. /\ Scratch(rebase') /\ rebase'.pc = "trial" /\ rebase'.base = rebase.base
          /\ rebase'.head = rebase.head /\ rebase'.has = rebase.has \union {c}
          /\ rebase'.touched = rebase.touched /\ rebase'.local = rebase.local
          /\ rebase'.seen = rebase.seen /\ rebase'.invalid = rebase.invalid
          /\ rebase'.plan = rebase.plan /\ rebase'.replayed = Append(rebase.replayed, c)
      BY <1>0, <2>1, FieldsOf
    <2> DEFINE n == Len(rebase.replayed)
               new == Append(rebase.replayed, c)
    <2>2. /\ new \in Seq(Locals) /\ Len(new) = n + 1 /\ new[n + 1] = c
          /\ \A i \in 1 .. n : new[i] = rebase.replayed[i] /\ rebase.replayed[i] \in Replayed
          /\ \A i \in 1 .. n + 1 : i \in 1 .. n \/ i = n + 1
      BY <1>3, <1>r DEF Replayed
    <2> HIDE DEF new
    <2>3. RebaseTyped(rebase')
      BY <1>0, <1>3, <1>t, <2>2, <2>f DEF RebaseTyped, Pcs, new
    <2>4. Replayed' = Replayed \union {c}
      <3>1. Replayed' = {new[i] : i \in 1 .. n + 1}
        BY <2>2, <2>f DEF Replayed, new
      <3>2. 1 .. n \subseteq 1 .. n + 1 /\ n + 1 \in 1 .. n + 1
        BY <1>r
      <3> QED BY <2>2, <3>1, <3>2 DEF Replayed
    <2>5. Planned' = Planned /\ Roots' = Roots
      BY <1>0, <2>f DEF Planned, Roots
    <2>6. Pulled' = Pulled
      BY <1>0, <2>4, <2>f DEF Pulled
    <2>7. Rebasing'
      <3>1. Born(rebase.has \union {c}, Len(cmd), server)
        BY <1>3, <1>4 DEF Born
      <3> QED BY <1>0, <1>4, <2>f, <3>1 DEF Rebasing
    <2>8. \A i, j \in 1 .. n + 1 : i < j => new[i] < new[j]
      <3> SUFFICES ASSUME NEW i \in 1 .. n + 1, NEW j \in 1 .. n + 1, i < j
                   PROVE  new[i] < new[j]
        OBVIOUS
      <3>1. i \in 1 .. n
        BY <1>r
      <3>2. CASE j \in 1 .. n
        BY <1>5, <2>2, <3>1, <3>2
      <3>3. CASE j = n + 1
        BY <1>2, <1>5, <2>2, <3>1, <3>3
      <3> QED BY <2>2, <3>2, <3>3
    <2>9. \A d \in Replayed', e \in Planned' \ Replayed' : d < e
      <3> SUFFICES ASSUME NEW d \in Replayed \union {c}, NEW e \in Planned \ (Replayed \union {c})
                   PROVE  d < e
        BY <2>4, <2>5
      <3>1. c <= e /\ c # e /\ c \in Nat /\ e \in Nat
        BY <1>2, <1>3, <1>t, Bounds DEF Planned, RebaseTyped, Locals
      <3> QED BY <1>5, <3>1
    <2>10. Trying'
      <3>1. Replayed' \subseteq Planned' /\ Replayed' \subseteq rebase'.has
        BY <1>2, <1>5, <2>4, <2>5, <2>f
      <3>2. Len(rebase'.replayed) = n + 1 /\ rebase'.replayed = new
        BY <2>2, <2>f DEF new
      <3>3. \A i, j \in 1 .. Len(rebase'.replayed) : i < j => rebase'.replayed[i] < rebase'.replayed[j]
        BY <2>8, <3>2
      <3>4. /\ rebase'.local \subseteq 1 .. Len(cmd')
            /\ Upto(server', rebase'.head) \subseteq Pulled'
            /\ Pulled' \intersect rebase'.local \subseteq Upto(server', rebase'.head)
            /\ rebase'.seen \ slipped' \subseteq Pulled' \union rebase'.local
            /\ Queued(rebase'.plan) = LeastClosure(rebase'.local, cmd', Roots')
            /\ WellRooted(rebase'.local, cmd', Roots', rebase'.invalid, rebase'.plan)
            /\ rebase'.pc # "done"
        BY <1>0, <1>3, <1>5, <2>5, <2>6, <2>f
      <3> QED BY <2>9, <3>1, <3>3, <3>4 DEF Trying
    <2> QED BY <1>0, <1>1, <2>3, <2>7, <2>10, RebaseStep
  <1>7. CASE rebase' = Trial(rebase, {c})
    <2> DEFINE invalid == rebase.invalid \union {c}
               plan == Plan(rebase.local, cmd, rebase.touched, invalid)
    <2>1. rebase' = [pc |-> "trial", base |-> rebase.base, head |-> rebase.head,
                     has |-> rebase.has \ Replayed, touched |-> rebase.touched,
                     local |-> rebase.local, seen |-> rebase.seen, invalid |-> invalid,
                     plan |-> plan, replayed |-> <<>>]
      BY <1>7, <1>r, <1>t, TrialIs
    <2>2. invalid \in SUBSET rebase.local
      BY <1>3, <1>t DEF RebaseTyped
    <2>3. /\ DOMAIN plan = rebase.local /\ \A d \in rebase.local : plan[d].queued \in BOOLEAN
          /\ Queued(plan) = LeastClosure(rebase.local, cmd,
                                         Conflicts(rebase.local, cmd, rebase.touched, invalid))
          /\ WellRooted(rebase.local, cmd, Conflicts(rebase.local, cmd, rebase.touched, invalid),
                        invalid, plan)
      BY <1>3, <2>2, PlanOfTrial
    <2> HIDE DEF invalid, plan
    <2>f. /\ Scratch(rebase') /\ rebase'.pc = "trial" /\ rebase'.base = rebase.base
          /\ rebase'.head = rebase.head /\ rebase'.has = Pulled
          /\ rebase'.touched = rebase.touched /\ rebase'.local = rebase.local
          /\ rebase'.seen = rebase.seen /\ rebase'.invalid = invalid
          /\ rebase'.plan = plan /\ rebase'.replayed = <<>>
      BY <2>1, FieldsOf DEF Pulled
    <2>4. RebaseTyped(rebase')
      BY <1>t, <2>2, <2>3, <2>f DEF RebaseTyped, Pcs, Pulled
    <2>5. Rebasing'
      <3>1. Born(Pulled, Len(cmd), server)
        BY <1>4 DEF Born, Pulled
      <3> QED BY <1>0, <1>4, <2>f, <3>1 DEF Rebasing
    <2>6. Trying'
      <3>1. Replayed' = {} /\ Pulled' = Pulled /\ 1 .. Len(rebase'.replayed) = {}
        BY <2>f DEF Replayed, Pulled
      <3>2. Roots' = Conflicts(rebase.local, cmd, rebase.touched, invalid)
        BY <1>0, <2>f DEF Roots, Conflicts
      <3>3. /\ rebase'.local \subseteq 1 .. Len(cmd')
            /\ Upto(server', rebase'.head) \subseteq Pulled'
            /\ Pulled' \intersect rebase'.local \subseteq Upto(server', rebase'.head)
            /\ rebase'.seen \ slipped' \subseteq Pulled' \union rebase'.local
            /\ Queued(rebase'.plan) = LeastClosure(rebase'.local, cmd', Roots')
            /\ WellRooted(rebase'.local, cmd', Roots', rebase'.invalid, rebase'.plan)
            /\ rebase'.pc # "done"
        BY <1>0, <1>3, <1>5, <2>3, <2>f, <3>1, <3>2
      <3> QED BY <3>1, <3>3 DEF Trying
    <2> QED BY <1>0, <1>1, <2>4, <2>5, <2>6, RebaseStep
  <1> QED BY <1>0, <1>6, <1>7

LEMMA QueueRestSafe == Safe /\ QueueRest => Safe'
  <1> SUFFICES ASSUME Safe, QueueRest PROVE Safe'
    OBVIOUS
  <1>0. /\ Unchanged /\ rebase.pc = "trial" /\ cmd' = cmd /\ done' = done /\ outbox' = outbox
        /\ slipped' = slipped /\ row' = row /\ image' = image /\ server' = server /\ open' = open
        /\ Remaining = {} /\ rebase' = [rebase EXCEPT !.pc = "done"]
    BY DEF QueueRest, Unchanged, liveVars, baseVars, engineVars, hostVars
  <1>1. capture.pc = "idle"
    BY <1>0 DEF Safe, Capturing
  <1>t. RebaseTyped(rebase) /\ Scratch(rebase)
    BY DEF Safe, Typed, RebaseTyped
  <1>2. Planned \subseteq Replayed
    BY <1>0, RemainingIs
  <1>3. rebase' = [pc |-> "done", base |-> rebase.base, head |-> rebase.head,
                   has |-> rebase.has, touched |-> rebase.touched,
                   local |-> rebase.local, seen |-> rebase.seen, invalid |-> rebase.invalid,
                   plan |-> rebase.plan, replayed |-> rebase.replayed]
    BY <1>0, <1>t DEF Scratch
  <1>f. /\ Scratch(rebase') /\ rebase'.pc = "done" /\ rebase'.base = rebase.base
        /\ rebase'.head = rebase.head /\ rebase'.has = rebase.has
        /\ rebase'.touched = rebase.touched /\ rebase'.local = rebase.local
        /\ rebase'.seen = rebase.seen /\ rebase'.invalid = rebase.invalid
        /\ rebase'.plan = rebase.plan /\ rebase'.replayed = rebase.replayed
    BY <1>3, FieldsOf
  <1>4. RebaseTyped(rebase')
    BY <1>0, <1>t, <1>f DEF RebaseTyped, Pcs
  <1>5. Rebasing'
    BY <1>0, <1>f DEF Safe, Rebasing
  <1>6. Trying'
    <2>1. Replayed' = Replayed /\ Planned' = Planned /\ Roots' = Roots
      BY <1>0, <1>f DEF Replayed, Planned, Roots
    <2>2. Pulled' = Pulled
      BY <1>f, <2>1 DEF Pulled
    <2> QED BY <1>0, <1>2, <1>f, <2>1, <2>2 DEF Safe, Trying
  <1> QED BY <1>0, <1>1, <1>4, <1>5, <1>6, RebaseStep

LEMMA AbandonSafe == Safe /\ Abandon => Safe'
  <1> SUFFICES ASSUME Safe, Abandon PROVE Safe'
    OBVIOUS
  <1>1. capture.pc = "idle" /\ Unchanged /\ rebase' = NoRebase
    BY DEF Abandon, Safe, Capturing
  <1>2. RebaseTyped(rebase') /\ Rebasing' /\ Trying'
    BY <1>1, StoppedKept
  <1> QED BY <1>1, <1>2, RebaseStep

LEMMA StutterSafe == Safe /\ UNCHANGED vars => Safe'
  <1> SUFFICES ASSUME Safe, UNCHANGED vars PROVE Safe'
    OBVIOUS
  <1> USE DEF vars, liveVars, baseVars, engineVars, hostVars
  <1>1. Typed'
    BY DEF Safe, Typed
  <1>2. Settled' = Settled /\ Replayed' = Replayed /\ Planned' = Planned /\ Roots' = Roots
    BY DEF Settled, Replayed, Planned, Roots
  <1>3. Pulled' = Pulled
    BY <1>2 DEF Pulled
  <1>4. LiveHolds' /\ BackupHolds'
    BY <1>2 DEF Safe, LiveHolds, BackupHolds
  <1>5. Capturing' /\ Rebasing'
    BY DEF Safe, Capturing, Rebasing
  <1>6. Trying'
    BY <1>2, <1>3 DEF Safe, Trying
  <1> QED BY <1>1, <1>4, <1>5, <1>6 DEF Safe

LEMMA SafeAlways == Spec => []Safe
  <1>1. Safe /\ [Next]_vars => Safe'
    <2> SUFFICES ASSUME Safe, [Next]_vars PROVE Safe'
      OBVIOUS
    <2>1. CASE Rebase
      BY <2>1, BeginRebaseSafe, CopyBaseSafe, ReadLocalSafe, ReplayNextSafe, QueueRestSafe,
         AbandonSafe, ApplyPulledSafe DEF Rebase
    <2>2. CASE rebase.pc = "idle" /\ (Capture \/ AcceptPush \/ CleanPull) /\ rebase' = rebase
      BY <2>2, BeginCaptureSafe, VerifyRecordedSafe, CopyVaultSafe, StripCopySafe, RenameCopySafe,
         CommitRowSafe, AcceptPushSafe, CleanPullSafe DEF Capture
    <2>3. CASE (Dispatch \/ OtherPushes \/ Host) /\ rebase' = rebase
      BY <2>3, DispatchSafe, OtherPushesSafe, OpenSafe, LoseImageSafe, ExportBackupSafe,
         RestoreBackupSafe DEF Host
    <2>4. CASE Stop /\ rebase' = NoRebase
      BY <2>4, StopSafe
    <2>5. CASE UNCHANGED vars
      BY <2>5, StutterSafe
    <2> QED BY <2>1, <2>2, <2>3, <2>4, <2>5 DEF Next
  <1> QED BY InitSafe, <1>1, PTL DEF Spec

-----------------------------------------------------------------------------
(* The theorems. *)

\* The variables keep their types; the outbox names only commands of the operation log, and
\* the pulled head lies between base_seq and the service's (sync_state.rs, rebase/execute.rs).
THEOREM RebaseTypes == Spec => []TypeOK
  <1>1. Safe => TypeOK
    <2> SUFFICES ASSUME Safe PROVE TypeOK
      OBVIOUS
    <2>1. /\ Len(server) \in Nat /\ known \in 0 .. Len(server)
          /\ Len(cmd) \in Nat /\ Len(cmd) <= MaxLocal
      BY Lengths
    <2>2. cmd \in Seq(Commands) /\ server \in Seq(Entries)
      BY DEF Safe, Typed, LiveHolds, LogOrdered
    <2>3. BaseTypes
      <3>1. \A c \in DOMAIN cmd : cmd[c] \in Commands
        BY <2>2
      <3>2. \A i \in DOMAIN server : server[i] \in [id : Ids, rows : SUBSET Rows]
        <4>1. \A i \in DOMAIN server : server[i] \in Entries
          BY <2>2
        <4> QED BY <4>1 DEF Entries
      <3> QED BY <2>1, <3>1, <3>2 DEF Safe, Typed, LiveHolds, Follows, BaseTypes
    <2>4. rebase.head \in rebase.base .. Len(server) \union {0}
      <3>1. rebase.base \in Nat /\ rebase.head \in Nat /\ rebase.pc \in Pcs
        BY Bounds DEF Safe, Typed, RebaseTyped, Heads
      <3> QED BY <2>1, <3>1 DEF Safe, Rebasing, Pcs
    <2>5. \A i \in DOMAIN rebase.replayed : rebase.replayed[i] \in rebase.local
      BY RemainingIs DEF Safe, Trying, Planned, Replayed
    <2> QED BY <2>3, <2>4, <2>5 DEF TypeOK, Safe, Typed, RebaseTyped, Pcs
  <1> QED BY <1>1, SafeAlways, PTL

\* verify_base's promise: whatever landed, crashed, was lost or restored between the phases of
\* a capture (base_image.rs), a base the row vouches for is the service's state at base_seq.
THEOREM BaseIsAlwaysServerState == Spec => []BaseIsServerState
  <1>1. Safe => BaseIsServerState
    BY Vouched, Words DEF BaseIsServerState, Base
  <1> QED BY <1>1, SafeAlways, PTL

\* With such a base no command of the live vault is out of a rebase's reach, but one that
\* landed while the first image was stripped (capture_base_image's second lock, base_image.rs).
THEOREM EveryCommandAccounted == Spec => []NothingUnaccounted
  <1>1. Safe => NothingUnaccounted
    BY Vouched, Words DEF NothingUnaccounted, Base
  <1> QED BY <1>1, SafeAlways, PTL

\* plan and close_over (rebase.rs): trial after trial, whatever is refused, the plan queues the
\* least set closed under correlation groups and causes, each with its root's outcome.
THEOREM PlanAlwaysLeast == Spec => []PlanIsLeastClosure
  <1>1. Safe => PlanIsLeastClosure
    BY DEF Safe, Trying, PlanIsLeastClosure
  <1> QED BY <1>1, SafeAlways, PTL

\* A rebase that ends (execute.rs) lost nothing and doubled nothing.
THEOREM RebuiltAlwaysWhole == Spec => []RebuiltVaultIsWhole
  <1>1. Safe => RebuiltVaultIsWhole
    <2> SUFFICES ASSUME Safe, rebase.pc = "done"
                 PROVE  /\ rebase.seen \ slipped \subseteq rebase.has \union Queued(rebase.plan)
                        /\ rebase.has \intersect Queued(rebase.plan) \subseteq Accepted(rebase.head)
                        /\ Accepted(rebase.head) \subseteq rebase.has
                        /\ \A i, j \in DOMAIN rebase.replayed :
                               i < j => rebase.replayed[i] < rebase.replayed[j]
      BY DEF RebuiltVaultIsWhole
    <2>1. /\ Upto(server, rebase.head) \subseteq Pulled
          /\ Pulled \intersect rebase.local \subseteq Upto(server, rebase.head)
          /\ rebase.seen \ slipped \subseteq Pulled \union rebase.local
          /\ Replayed \subseteq Planned /\ Replayed \subseteq rebase.has /\ Planned \subseteq Replayed
          /\ \A i, j \in 1 .. Len(rebase.replayed) : i < j => rebase.replayed[i] < rebase.replayed[j]
      BY DEF Safe, Trying
    <2>2. Queued(rebase.plan) = rebase.local \ Planned
      <3>1. DOMAIN rebase.plan = rebase.local /\ \A c \in rebase.local : rebase.plan[c].queued \in BOOLEAN
        BY DEF Safe, Typed, RebaseTyped
      <3> QED BY <3>1 DEF Queued, Planned
    <2>3. DOMAIN rebase.replayed = 1 .. Len(rebase.replayed)
      BY RemainingIs
    <2> QED BY <2>1, <2>2, <2>3, Words DEF Pulled
  <1> QED BY <1>1, SafeAlways, PTL
=============================================================================
