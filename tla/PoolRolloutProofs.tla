--------------------------- MODULE PoolRolloutProofs ---------------------------
(***************************************************************************)
(* Proofs about the three stages of a curriculum round on a pool: how its  *)
(* worlds are generated and let in (StagedRealize), which of them a round  *)
(* trains on (WorldPool), and the rollouts that are gathered on them       *)
(* (AgentRollouts).  The three share no state; each has its invariant.     *)
(*                                                                         *)
(* The pool, for any worlds, difficulties, scores, sizes and groups: every *)
(* round has an easy member and is not short, and no growth or eviction    *)
(* loses the easiest world.  Both rest on one fact about the orders the    *)
(* pool sorts by: the first n of a finite set are n.                       *)
(*                                                                         *)
(* The rollouts, for any number of them, of permits and of turns: shells   *)
(* act in their own live world, and every permit is accounted for.         *)
(***************************************************************************)
EXTENDS WorldPool, AgentRollouts, StagedRealize, FiniteSetTheorems,
  WellFoundedInduction, TLAPS

-----------------------------------------------------------------------------
(* Ranks in an order R of a finite set S: how many come before.            *)
OrdersStrictly(R, S) ==
  /\ \A v \in S : <<v, v>> \notin R
  /\ \A v, w \in S : v # w => <<v, w>> \in R \/ <<w, v>> \in R
  /\ \A u, v, w \in S : <<u, v>> \in R /\ <<v, w>> \in R => <<u, w>> \in R

Before(R, S, w) == {v \in S : <<v, w>> \in R}

Rank(R, S) == [w \in S |-> Cardinality(Before(R, S, w))]

(* The ranks in a set of n are 0 to n - 1, each once.                      *)
LEMMA RanksAreDistinct ==
  ASSUME NEW S, IsFiniteSet(S), NEW R, OrdersStrictly(R, S)
  PROVE  Rank(R, S) \in Bijection(S, 0 .. Cardinality(S) - 1)
<1> DEFINE n == Cardinality(S)
           T == 0 .. n - 1
<1>1. n \in Nat
  BY FS_CardinalityType
<1>2. ASSUME NEW w \in S
      PROVE  IsFiniteSet(Before(R, S, w)) /\ Cardinality(Before(R, S, w)) \in T
  <2>1. Before(R, S, w) \subseteq S \ {w}
    BY DEF Before, OrdersStrictly
  <2>2. IsFiniteSet(S \ {w}) /\ Cardinality(S \ {w}) = n - 1
    BY FS_RemoveElement
  <2>3. IsFiniteSet(Before(R, S, w)) /\ Cardinality(Before(R, S, w)) <= n - 1
    BY <2>1, <2>2, FS_Subset
  <2>4. Cardinality(Before(R, S, w)) \in Nat
    BY <2>3, FS_CardinalityType
  <2> QED
    BY <1>1, <2>3, <2>4
<1>3. ASSUME NEW v \in S, NEW w \in S, <<v, w>> \in R
      PROVE  Cardinality(Before(R, S, v)) # Cardinality(Before(R, S, w))
  <2>1. Before(R, S, v) \subseteq Before(R, S, w)
    BY <1>3 DEF Before, OrdersStrictly
  <2>2. v \in Before(R, S, w) /\ v \notin Before(R, S, v)
    BY <1>3 DEF Before, OrdersStrictly
  <2>3. IsFiniteSet(Before(R, S, w))
    BY <1>2
  <2> QED
    BY <2>1, <2>2, <2>3, FS_Subset
<1>4. Rank(R, S) \in [S -> T]
  BY <1>2 DEF Rank
<1>5. Rank(R, S) \in Injection(S, T)
  <2>1. \A v, w \in S : Rank(R, S)[v] = Rank(R, S)[w] => v = w
    BY <1>3 DEF Rank, OrdersStrictly
  <2> QED
    BY <1>4, <2>1 DEF Injection, IsInjective
<1>6. IsFiniteSet(T) /\ Cardinality(T) = n
  BY <1>1, FS_Interval
<1>7. Rank(R, S) \in Surjection(S, T)
  BY <1>5, <1>6, FS_Injection
<1> QED
  BY <1>5, <1>7 DEF Bijection

(* The first k of a set are k, if there are as many.                       *)
LEMMA FirstCounts ==
  ASSUME NEW S, IsFiniteSet(S), NEW R, OrdersStrictly(R, S), NEW k \in Nat
  PROVE  LET T == {w \in S : Cardinality(Before(R, S, w)) < k}
         IN IsFiniteSet(T) /\ Cardinality(T) = Lesser(k, Cardinality(S))
<1> DEFINE T == {w \in S : Cardinality(Before(R, S, w)) < k}
           n == Cardinality(S)
           rank == Rank(R, S)
           D == 0 .. Lesser(k, n) - 1
           f == [w \in T |-> rank[w]]
<1>1. n \in Nat
  BY FS_CardinalityType
<1>2. rank \in Bijection(S, 0 .. n - 1)
  BY RanksAreDistinct
<1>3. /\ \A w \in S : rank[w] \in 0 .. n - 1
      /\ \A v, w \in S : rank[v] = rank[w] => v = w
      /\ \A i \in 0 .. n - 1 : \E w \in S : rank[w] = i
  BY <1>2 DEF Bijection, Injection, Surjection, IsInjective, Rank
<1>4. T = {w \in S : rank[w] < k}
  BY DEF Rank
<1> HIDE DEF T, rank
<1>5. f \in Bijection(T, D)
  <2>1. \A w \in T : rank[w] \in D
    BY <1>1, <1>3, <1>4 DEF Lesser
  <2>2. \A i \in D : \E w \in T : rank[w] = i
    BY <1>1, <1>3, <1>4 DEF Lesser
  <2>3. T \subseteq S
    BY <1>4
  <2> QED
    BY <1>3, <2>1, <2>2, <2>3 DEF Bijection, Injection, Surjection, IsInjective
<1>6. IsFiniteSet(T)
  BY <1>4, FS_Subset
<1>7. Cardinality(D) = Lesser(k, n)
  <2> DEFINE m == Lesser(k, n)
  <2>1. m \in Nat
    BY <1>1 DEF Lesser
  <2> HIDE DEF m
  <2>2. 0 \in Int /\ m - 1 \in Int /\ (0 > m - 1 => m = 0) /\ m - 1 - 0 + 1 = m
    BY <2>1
  <2>3. Cardinality(0 .. m - 1) = m
    BY <2>2, FS_Interval
  <2> QED
    BY <2>3 DEF m
<1>8. Cardinality(T) = Cardinality(D)
  BY <1>5, <1>6, FS_Bijection DEF ExistsBijection
<1> QED
  BY <1>6, <1>7, <1>8 DEF T

-----------------------------------------------------------------------------
(* The orders of the pool.                                                 *)
ByDifficulty == {d \in Worlds \X Worlds : Easier(d[1], d[2])}

ByScore(p) == {d \in Worlds \X Worlds : Better(p, d[1], d[2])}

LEMMA EasierOrders ==
  ASSUME NEW S \in SUBSET Worlds
  PROVE  /\ OrdersStrictly(ByDifficulty, S)
         /\ \A w \in S : Before(ByDifficulty, S, w) = {v \in S : Easier(v, w)}
<1>1. \A v \in S : v \in Worlds /\ v \in Nat /\ Difficulty[v] \in Nat
  BY WorldsAssumption, DifficultyAssumption
<1>2. \A v, w \in S : <<v, w>> \in ByDifficulty <=> Easier(v, w)
  BY <1>1 DEF ByDifficulty
<1>3. OrdersStrictly(ByDifficulty, S)
  BY <1>1, <1>2 DEF OrdersStrictly, Easier
<1> QED
  BY <1>2, <1>3 DEF Before

LEMMA BetterOrders ==
  ASSUME NEW S \in SUBSET Worlds, NEW p \in [Worlds -> Nat]
  PROVE  /\ OrdersStrictly(ByScore(p), S)
         /\ \A w \in S : Before(ByScore(p), S, w) = {v \in S : Better(p, v, w)}
<1>1. \A v \in S : v \in Worlds /\ v \in Nat /\ p[v] \in Nat
  BY WorldsAssumption
<1>2. \A v, w \in S : <<v, w>> \in ByScore(p) <=> Better(p, v, w)
  BY <1>1 DEF ByScore
<1>3. OrdersStrictly(ByScore(p), S)
  BY <1>1, <1>2 DEF OrdersStrictly, Better
<1> QED
  BY <1>2, <1>3 DEF Before

(* The easiest world of a pool is in its easy tier.                        *)
LEMMA EasiestInTier ==
  ASSUME NEW S \in SUBSET Worlds, S # {}
  PROVE  /\ EasyTier(S) \subseteq S
         /\ \E w \in EasyTier(S) : \A v \in S : Difficulty[w] <= Difficulty[v]
<1> DEFINE n == Cardinality(S)
<1>1. IsFiniteSet(S)
  BY WorldsAssumption, FS_Subset
<1>2. n \in Nat /\ n # 0
  BY <1>1, FS_CardinalityType, FS_EmptySet
<1>3. Rank(ByDifficulty, S) \in Bijection(S, 0 .. n - 1)
  BY <1>1, EasierOrders, RanksAreDistinct
<1>4. PICK w \in S : Rank(ByDifficulty, S)[w] = 0
  BY <1>2, <1>3 DEF Bijection, Surjection
<1>5. Cardinality({v \in S : Easier(v, w)}) = 0
  BY <1>4, EasierOrders DEF Rank
<1>6. IsFiniteSet({v \in S : Easier(v, w)})
  BY <1>1, FS_Subset
<1>7. \A v \in S : ~Easier(v, w)
  BY <1>5, <1>6, FS_EmptySet
<1>8. \A v \in S : Difficulty[w] <= Difficulty[v]
  BY <1>7, DifficultyAssumption DEF Easier
<1>9. EasyTier(S) = {u \in S : Cardinality({v \in S : Easier(v, u)}) < Greater(1, n \div 3)}
  BY Zenon DEF EasyTier, First
<1>10. 0 < Greater(1, n \div 3)
  BY <1>2 DEF Greater
<1> QED
  BY <1>4, <1>5, <1>8, <1>9, <1>10

-----------------------------------------------------------------------------
(* What a round selects.                                                   *)
Best(k, S, p) == {w \in S : Cardinality({v \in S : Better(p, v, w)}) < k}

LEMMA BestCounts ==
  ASSUME NEW S \in SUBSET Worlds, NEW p \in [Worlds -> Nat], NEW k \in Nat
  PROVE  /\ Best(k, S, p) \subseteq S
         /\ IsFiniteSet(Best(k, S, p))
         /\ Cardinality(Best(k, S, p)) = Lesser(k, Cardinality(S))
<1>1. IsFiniteSet(S)
  BY WorldsAssumption, FS_Subset
<1>2. Best(k, S, p) = {w \in S : Cardinality(Before(ByScore(p), S, w)) < k}
  BY BetterOrders DEF Best
<1>3. OrdersStrictly(ByScore(p), S)
  BY BetterOrders
<1> DEFINE T == {w \in S : Cardinality(Before(ByScore(p), S, w)) < k}
<1>4. IsFiniteSet(T) /\ Cardinality(T) = Lesser(k, Cardinality(S))
  BY <1>1, <1>3, FirstCounts
<1>5. T \subseteq S
  OBVIOUS
<1> HIDE DEF T
<1> QED
  BY <1>2, <1>4, <1>5 DEF T

Floor(S, p) == Best(FloorOf(S), EasyTier(S), p)

Rest(S, p) == Best(GroupsOf(S) - Cardinality(Floor(S, p)), S \ Floor(S, p), p)

LEMMA SelectionIs ==
  ASSUME NEW S, NEW p
  PROVE  Selection(S, p) = Floor(S, p) \cup Rest(S, p)
  BY Zenon DEF Selection, First, Floor, Rest, Best

(* The floor asks for no more than the groups, and rounding takes no more  *)
(* than a half from it.                                                    *)
LEMMA FloorBounds ==
  ASSUME NEW g \in Nat
  PROVE  /\ MixPercent * g \in Nat
         /\ RoundPercent(MixPercent * g) \in 0 .. g
         /\ 100 * RoundPercent(MixPercent * g) + 50 >= MixPercent * g
<1> DEFINE n == MixPercent * g
<1>1. n \in Nat /\ n <= 100 * g
  BY MixAssumption
<1> HIDE DEF n
<1>3. /\ n = 100 * (n \div 100) + (n % 100)
      /\ n \div 100 \in Nat /\ n % 100 \in 0 .. 99
  BY <1>1
<1>4. RoundPercent(n) \in 0 .. g
  BY <1>1, <1>3 DEF RoundPercent
<1>5. 100 * RoundPercent(n) + 50 >= n
  BY <1>1, <1>3 DEF RoundPercent
<1> QED
  BY <1>1, <1>4, <1>5 DEF n

LEMMA SelectionSound ==
  ASSUME NEW S \in SUBSET Worlds, S # {}, NEW p \in [Worlds -> Nat]
  PROVE  /\ Selection(S, p) \subseteq S
         /\ Cardinality(Selection(S, p)) = GroupsOf(S)
         /\ \/ EasyTier(S) \subseteq Selection(S, p)
            \/ 100 * Cardinality(Selection(S, p) \cap EasyTier(S)) + 50 >= MixPercent * GroupsOf(S)
<1> DEFINE n == Cardinality(S)
           g == GroupsOf(S)
           tier == EasyTier(S)
           floor == Floor(S, p)
           rest == Rest(S, p)
<1>1. IsFiniteSet(S) /\ n \in Nat /\ n # 0
  BY WorldsAssumption, FS_Subset, FS_CardinalityType, FS_EmptySet
<1>2. g \in Nat /\ g <= n /\ g <= Groups /\ (g = Groups \/ g = n)
  BY <1>1, SizeAssumption DEF GroupsOf, Lesser
<1>3. tier \subseteq S /\ tier # {}
  BY EasiestInTier
<1>4. IsFiniteSet(tier) /\ Cardinality(tier) \in Nat /\ Cardinality(tier) # 0
  BY <1>1, <1>3, FS_Subset, FS_CardinalityType, FS_EmptySet
<1> HIDE DEF tier
<1>5. FloorOf(S) = Lesser(RoundPercent(MixPercent * g), Cardinality(tier))
  BY DEF FloorOf, tier
<1> DEFINE share == MixPercent * g
<1>6. share \in Nat /\ RoundPercent(share) \in 0 .. g /\ 100 * RoundPercent(share) + 50 >= share
  BY <1>2, FloorBounds
<1> HIDE DEF g, n
<1>7. /\ FloorOf(S) \in 0 .. g /\ FloorOf(S) <= Cardinality(tier)
      /\ FloorOf(S) = Cardinality(tier) \/ 100 * FloorOf(S) + 50 >= share
  <2> HIDE DEF share
  <2>1. FloorOf(S) = Lesser(RoundPercent(share), Cardinality(tier))
    BY <1>5 DEF share
  <2> QED
    BY <1>2, <1>4, <1>6, <2>1 DEF Lesser
<1>8. floor \subseteq tier /\ IsFiniteSet(floor) /\ Cardinality(floor) = FloorOf(S)
  <2>1. tier \in SUBSET Worlds /\ FloorOf(S) \in Nat
    BY <1>2, <1>3, <1>7
  <2>2. floor = Best(FloorOf(S), tier, p)
    BY DEF Floor, tier
  <2>3. floor \subseteq tier /\ IsFiniteSet(floor)
        /\ Cardinality(floor) = Lesser(FloorOf(S), Cardinality(tier))
    BY <2>1, <2>2, BestCounts
  <2> QED
    BY <1>2, <1>4, <1>7, <2>3 DEF Lesser
<1> HIDE DEF floor
<1>9. IsFiniteSet(S \ floor) /\ Cardinality(S \ floor) = n - FloorOf(S)
  <2>1. S \cap floor = floor
    BY <1>3, <1>8
  <2>2. /\ IsFiniteSet(S \ floor)
        /\ Cardinality(S \ floor) = Cardinality(S) - Cardinality(S \cap floor)
    BY <1>1, FS_Difference
  <2> QED
    BY <1>8, <2>1, <2>2 DEF n
<1>10. rest \subseteq S \ floor /\ IsFiniteSet(rest) /\ Cardinality(rest) = g - FloorOf(S)
  <2>1. S \ floor \in SUBSET Worlds /\ g - FloorOf(S) \in Nat
    BY <1>2, <1>7
  <2>2. rest = Best(g - FloorOf(S), S \ floor, p)
    BY <1>8 DEF Rest, floor, g
  <2>3. rest \subseteq S \ floor /\ IsFiniteSet(rest)
        /\ Cardinality(rest) = Lesser(g - FloorOf(S), Cardinality(S \ floor))
    BY <2>1, <2>2, BestCounts
  <2> QED
    BY <1>1, <1>2, <1>7, <1>9, <2>3 DEF Lesser, n
<1> HIDE DEF rest
<1>11. Selection(S, p) = floor \cup rest
  BY SelectionIs DEF floor, rest
<1>12. Cardinality(floor \cup rest) = g
  <2>1. floor \cap rest = {}
    BY <1>10
  <2>2. Cardinality(floor \cup rest) = FloorOf(S) + (g - FloorOf(S)) - 0
    BY <1>8, <1>10, <2>1, FS_Union, FS_EmptySet
  <2> QED
    BY <1>2, <1>7, <2>2
<1>13. tier \subseteq floor \cup rest \/ 100 * Cardinality((floor \cup rest) \cap tier) + 50 >= share
  <2>1. CASE FloorOf(S) = Cardinality(tier)
    <3>1. floor = tier
      BY <1>4, <1>8, <2>1, FS_Subset
    <3> QED
      BY <3>1
  <2>2. CASE 100 * FloorOf(S) + 50 >= share
    <3> DEFINE easy == (floor \cup rest) \cap tier
    <3>1. easy \subseteq tier /\ floor \subseteq easy
      BY <1>8
    <3>2. IsFiniteSet(easy) /\ Cardinality(floor) <= Cardinality(easy) /\ Cardinality(easy) \in Nat
      BY <1>4, <3>1, FS_Subset, FS_CardinalityType
    <3> HIDE DEF easy, share
    <3>3. 100 * Cardinality(easy) + 50 >= share
      BY <1>2, <1>6, <1>7, <1>8, <2>2, <3>2
    <3> QED
      BY <3>3 DEF easy
  <2> QED
    BY <1>7, <2>1, <2>2
<1> QED
  BY <1>3, <1>8, <1>10, <1>11, <1>12, <1>13 DEF tier, g

-----------------------------------------------------------------------------
(* The invariant: the types, and that a round trains on what was selected. *)
PoolInv ==
  /\ PoolTypeOK
  /\ phase = "run" => chosen = Selection(members, priority)

LEMMA InitPool == PoolInit => PoolInv
<1> SUFFICES ASSUME PoolInit
             PROVE  PoolInv
  OBVIOUS
<1>1. MaxPriority \div 2 \in 0 .. MaxPriority /\ 0 \in 0 .. MaxPriority
  BY PriorityAssumption
<1>2. priority \in [Worlds -> 0 .. MaxPriority]
  BY <1>1 DEF PoolInit
<1> QED
  BY <1>2, WorldsAssumption DEF PoolInit, PoolInv, PoolTypeOK

LEMMA RowsKeep ==
  ASSUME PoolInv, RoundRows
  PROVE  PoolInv'
<1>1. chosen' = Selection(members, priority) /\ phase' = "run" /\ UNCHANGED <<members, priority>>
  BY DEF RoundRows
<1>2. Selection(members, priority) \subseteq members
  <2>1. members \in SUBSET Worlds /\ priority \in [Worlds -> Nat]
    BY PriorityAssumption DEF PoolInv, PoolTypeOK
  <2>2. CASE members # {}
    BY <2>1, <2>2, SelectionSound
  <2>3. CASE members = {}
    <3>1. EasyTier(members) = {}
      BY <2>3, Zenon DEF EasyTier, First
    <3>2. Floor(members, priority) = {} /\ Rest(members, priority) = {}
      BY <2>3, <3>1 DEF Floor, Rest, Best
    <3> QED
      BY <3>2, SelectionIs
  <2> QED
    BY <2>2, <2>3
<1>3. chosen' = Selection(members', priority')
  BY <1>1
<1> QED
  BY <1>1, <1>2, <1>3 DEF PoolInv, PoolTypeOK

(* The parts of a round, once it is said who ran, with which scores, and   *)
(* what the evolution found.                                               *)
Rounded(ran, score, grown) ==
  LET p == [w \in Worlds |-> IF w \in grown THEN MaxPriority ELSE Rescored(ran, score)[w]]
      all == members \cup grown
      evicted == Evicted(all, grown, p)
  IN /\ members' = all \ evicted
     /\ priority' = [w \in Worlds |-> IF w \in evicted THEN 0 ELSE p[w]]
     /\ chosen' = {} /\ phase' = "rows"

LEMMA RoundDoes ==
  ASSUME Round
  PROVE  \E ran \in SUBSET chosen : \E score \in [ran -> Scores] : \E grown \in SUBSET Worlds :
           Rounded(ran, score, grown)
<1>1. PICK ran \in SUBSET chosen : \E score \in [ran -> Scores] :
        \E child \in [Parents(ran, Rescored(ran, score)) -> Worlds] : Update(ran, score, child)
  BY DEF Round
<1>2. PICK score \in [ran -> Scores] :
        \E child \in [Parents(ran, Rescored(ran, score)) -> Worlds] : Update(ran, score, child)
  BY <1>1
<1>3. PICK child \in [Parents(ran, Rescored(ran, score)) -> Worlds] : Update(ran, score, child)
  BY <1>2
<1> DEFINE grown == Grown(Parents(ran, Rescored(ran, score)), child)
<1>4. grown \in SUBSET Worlds
  BY DEF Grown
<1> QED
  BY <1>3, <1>4, Zenon DEF Update, Rounded

(* The worst that go are outside the easy tier.                            *)
LEMMA TierStays ==
  ASSUME NEW S, NEW grown, NEW p
  PROVE  EasyTier(S) \cap Evicted(S, grown, p) = {}
<1>1. Evicted(S, grown, p) \subseteq Evictable(S, grown)
  BY Zenon DEF Evicted, First
<1> QED
  BY <1>1 DEF Evictable

LEMMA RoundKeeps ==
  ASSUME PoolInv, Round
  PROVE  PoolInv'
<1>1. PICK ran \in SUBSET chosen :
        \E score \in [ran -> Scores] : \E grown \in SUBSET Worlds : Rounded(ran, score, grown)
  BY RoundDoes
<1>2. PICK score \in [ran -> Scores] : \E grown \in SUBSET Worlds : Rounded(ran, score, grown)
  BY <1>1
<1>3. PICK grown \in SUBSET Worlds : Rounded(ran, score, grown)
  BY <1>2
<1> DEFINE rescored == Rescored(ran, score)
           p == [w \in Worlds |-> IF w \in grown THEN MaxPriority ELSE rescored[w]]
           all == members \cup grown
           evicted == Evicted(all, grown, p)
<1>4. /\ members \subseteq Worlds /\ chosen \subseteq members
      /\ priority \in [Worlds -> 0 .. MaxPriority]
      /\ \A w \in Worlds \ members : priority[w] = 0
  BY DEF PoolInv, PoolTypeOK
<1>5. /\ MaxPriority \in Nat /\ MaxPriority \in 0 .. MaxPriority
      /\ 0 \in 0 .. MaxPriority /\ Scores \subseteq 0 .. MaxPriority
  BY PriorityAssumption
<1>6. ASSUME NEW w \in Worlds
      PROVE  rescored[w] \in 0 .. MaxPriority /\ (w \notin members => rescored[w] = 0)
  <2>1. CASE w \in ran
    BY <1>4, <1>5, <2>1 DEF Rescored
  <2>2. CASE w \in members \ ran
    <3>1. rescored[w] = Aged(priority[w])
      BY <2>2 DEF Rescored
    <3>2. priority[w] \in 0 .. MaxPriority
      BY <1>4
    <3> QED
      BY <1>5, <2>2, <3>1, <3>2 DEF Aged, Lesser
  <2>3. CASE w \notin members
    BY <1>4, <1>5, <2>3 DEF Rescored
  <2> QED
    BY <2>1, <2>2, <2>3
<1> HIDE DEF rescored
<1>7. \A w \in Worlds : p[w] \in 0 .. MaxPriority /\ (w \notin all => p[w] = 0)
  BY <1>5, <1>6
<1>8. members' = all \ evicted /\ priority' = [w \in Worlds |-> IF w \in evicted THEN 0 ELSE p[w]]
      /\ chosen' = {} /\ phase' = "rows"
  BY <1>3, Zenon DEF rescored, Rounded
<1>9. all \subseteq Worlds
  BY <1>4
<1> HIDE DEF p, all, evicted
<1>10. priority' \in [Worlds -> 0 .. MaxPriority] /\ \A w \in Worlds \ members' : priority'[w] = 0
  BY <1>5, <1>7, <1>8
<1> QED
  BY <1>8, <1>9, <1>10 DEF PoolInv, PoolTypeOK

LEMMA PoolInvKept == PoolInv /\ [PoolNext]_poolVars => PoolInv'
<1> SUFFICES ASSUME PoolInv, [PoolNext]_poolVars
             PROVE  PoolInv'
  OBVIOUS
<1>1. CASE UNCHANGED poolVars
  <2>1. members' = members /\ priority' = priority /\ chosen' = chosen /\ phase' = phase
    BY <1>1 DEF poolVars
  <2> QED
    BY <2>1 DEF PoolInv, PoolTypeOK
<1>2. CASE PoolNext
  BY <1>2, RowsKeep, RoundKeeps DEF PoolNext
<1> QED
  BY <1>1, <1>2

LEMMA PoolInvariance == PoolSpec => []PoolInv
  BY InitPool, PoolInvKept, PTL DEF PoolSpec

-----------------------------------------------------------------------------
(* Members are worlds, only they have a priority, and none above the cap.  *)
THEOREM PoolTypes == PoolSpec => []PoolTypeOK
<1>1. PoolInv => PoolTypeOK
  BY DEF PoolInv
<1> QED
  BY <1>1, PoolInvariance, PTL

(* Every round trains on the whole easy tier or, but for the rounding, on  *)
(* as many easy members as the mix floor says, and none is short of a      *)
(* member.                                                                 *)
THEOREM RoundsStayEasy == PoolSpec => []EasyTail
<1>1. ASSUME PoolInv
      PROVE  EasyTail
  <2>1. members \in SUBSET Worlds /\ priority \in [Worlds -> Nat]
    BY <1>1, PriorityAssumption DEF PoolInv, PoolTypeOK
  <2> QED
    BY <1>1, <2>1, SelectionSound DEF EasyTail, PoolInv
<1> QED
  BY <1>1, PoolInvariance, PTL

(* No round of growth and eviction leaves a pool whose easiest member is   *)
(* harder than before: the easiest of the members and of what has grown is *)
(* in the easy tier, and nothing of that is evicted.                       *)
THEOREM PoolStaysEasy == PoolSpec => EasiestKept
<1> DEFINE Stays ==
             members # {} => \E w \in members' : \A v \in members : Difficulty[w] <= Difficulty[v]
<1>1. ASSUME PoolInv, [PoolNext]_poolVars, members # {}
      PROVE  \E w \in members' : \A v \in members : Difficulty[w] <= Difficulty[v]
  <2>0. members \in SUBSET Worlds
    BY <1>1 DEF PoolInv, PoolTypeOK
  <2>1. CASE UNCHANGED members
    BY <1>1, <2>0, <2>1, EasiestInTier
  <2>2. CASE Round
    <3>1. PICK grown \in SUBSET Worlds : \E p :
            members' = (members \cup grown) \ Evicted(members \cup grown, grown, p)
      BY <2>2, RoundDoes DEF Rounded
    <3> DEFINE all == members \cup grown
    <3>2. all \in SUBSET Worlds /\ all # {}
      BY <1>1, <2>0
    <3>3. PICK w \in EasyTier(all) : w \in all /\ \A v \in all : Difficulty[w] <= Difficulty[v]
      BY <3>2, EasiestInTier
    <3>4. w \in members'
      BY <3>1, <3>3, TierStays
    <3> QED
      BY <3>3, <3>4
  <2> QED
    BY <1>1, <2>1, <2>2 DEF PoolNext, RoundRows, poolVars
<1>2. PoolInv /\ [PoolNext]_poolVars => [Stays]_poolVars
  BY <1>1
<1>3. PoolSpec => [][Stays]_poolVars
  <2> HIDE DEF Stays
  <2> QED
    BY <1>2, PoolInvariance, PTL DEF PoolSpec
<1> QED
  BY <1>3 DEF EasiestKept

-----------------------------------------------------------------------------
(* The inductive invariant.  The service: the worlds of the episodes that  *)
(* were not graded are different, not warm and, of live ones, booted.      *)
Holds(r) == episode[r] \in {"live", "killed"}

ServiceOK ==
  /\ episode \in [Tasks -> {"none", "live", "graded", "killed"}]
  /\ worlds \in Nat /\ world \in [Tasks -> 0 .. worlds]
  /\ booted \subseteq 1 .. worlds /\ warm \in booted \cup {NoWorld}
  /\ \A r \in Tasks : episode[r] = "live" => world[r] \in booted
  /\ \A r \in Tasks : Holds(r) => world[r] # NoWorld /\ world[r] # warm
  /\ \A q, r \in Tasks : Holds(q) /\ Holds(r) /\ q # r => world[q] # world[r]

(* Before asyncio.run cancels what is left, a rollout has the one thread   *)
(* it awaits, and a turn to go while it takes turns.                       *)
Threads(a) == IF a \in {"semaphore", "done"} THEN {} ELSE {a}

UnderWay(r) ==
  /\ jobs[r] = Threads(pc[r])
  /\ pc[r] \in {"semaphore", "bind"} => cap[r] = "none"
  /\ pc[r] \in {"bind", "sample", "shell"} => Holds(r)
  /\ pc[r] \in {"semaphore", "bind", "sample", "shell"} => turns[r] < MaxTurns

(* Afterwards it is closing or done.  One that has come to its end by      *)
(* itself has left neither a thread nor a shell.                           *)
Cancelled(r) ==
  /\ pc[r] \in {"close", "done"}
  /\ pc[r] = "close" => outcome[r] = "cancelled"
  /\ "shell" \in jobs[r] => Holds(r)

RolloutOK(r) ==
  /\ IF cancelled THEN Cancelled(r) ELSE UnderWay(r)
  /\ pc[r] = "done" /\ outcome[r] \in {"report", "error"} => jobs[r] = {} /\ cap[r] # "open"

(* The accounts of the permits and of the worlds.                          *)
Inside  == {r \in Tasks : pc[r] \notin {"semaphore", "done"}}
Entered == {r \in Tasks : pc[r] # "semaphore"}

PermitsOK == permits + Cardinality(Inside) = IF sync THEN 1 ELSE MaxConcurrency
CountOK   == worlds <= Cardinality(Entered)

TaskTypes ==
  /\ sync \in BOOLEAN /\ cancelled \in BOOLEAN /\ closed \in BOOLEAN
  /\ pc \in [Tasks -> Awaits] /\ outcome \in [Tasks -> Outcomes]
  /\ jobs \in [Tasks -> SUBSET (Awaits \ {"semaphore", "done"})]
  /\ cap \in [Tasks -> {"none", "open", "closed", "stuck"}]
  /\ turns \in [Tasks -> 0 .. MaxTurns]
  /\ gather \in {"waiting", "returned", "raised"} /\ permits \in Nat

RolloutInv ==
  TaskTypes /\ ServiceOK /\ (\A r \in Tasks : RolloutOK(r)) /\ PermitsOK /\ CountOK

-----------------------------------------------------------------------------
LEMMA TasksAreFinite ==
  /\ IsFiniteSet(Tasks) /\ Cardinality(Tasks) = Rollouts
  /\ \A S \in SUBSET Tasks : IsFiniteSet(S) /\ Cardinality(S) \in Nat /\ Cardinality(S) <= Rollouts
<1>1. Rollouts \in Nat
  BY RolloutsAssumption
<1>2. IsFiniteSet(Tasks) /\ Cardinality(Tasks) = Rollouts
  <2>1. 1 \in Int /\ Rollouts \in Int /\ (1 > Rollouts => Rollouts = 0) /\ Rollouts - 1 + 1 = Rollouts
    BY <1>1
  <2> QED
    BY <2>1, FS_Interval DEF Tasks
<1> QED
  BY <1>2, FS_Subset, FS_CardinalityType

LEMMA InvImplies ==
  ASSUME RolloutInv
  PROVE  TypeOK /\ ShellsStayHome
<1>1. worlds \in 0 .. Rollouts
  <2>1. Entered \in SUBSET Tasks
    BY DEF Entered
  <2> QED
    BY <2>1, TasksAreFinite, RolloutsAssumption DEF RolloutInv, ServiceOK, CountOK
<1>2. TypeOK
  BY <1>1 DEF RolloutInv, TaskTypes, ServiceOK, PermitsOK, Inside, TypeOK
<1>3. ASSUME NEW r \in Tasks, "shell" \in jobs[r]
      PROVE  Holds(r)
  <2>1. RolloutOK(r)
    BY DEF RolloutInv
  <2>2. CASE cancelled
    BY <1>3, <2>1, <2>2 DEF RolloutOK, Cancelled
  <2>3. CASE ~cancelled
    BY <1>3, <2>1, <2>3 DEF RolloutOK, UnderWay, Threads
  <2> QED
    BY <2>2, <2>3
<1>4. ShellsStayHome
  <2>1. ASSUME NEW r \in Tasks, "shell" \in jobs[r]
        PROVE  /\ episode[r] # "graded" /\ world[r] # warm
               /\ \A q \in Live \ {r} : world[q] # world[r]
    BY <1>3, <2>1 DEF RolloutInv, ServiceOK, Holds, Live
  <2>2. ASSUME NEW r \in Tasks, pc[r] = "done" /\ outcome[r] \in {"report", "error"}
        PROVE  cap[r] # "open"
    BY <2>2 DEF RolloutInv, RolloutOK
  <2> QED
    BY <2>1, <2>2 DEF ShellsStayHome
<1> QED
  BY <1>2, <1>4

LEMMA InitRollouts ==
  ASSUME Init
  PROVE  RolloutInv
<1>1. TaskTypes
  <2>1. permits \in Nat
    BY RolloutsAssumption DEF Init
  <2>2. 0 \in 0 .. MaxTurns
    BY MaxTurnsAssumption
  <2> QED
    BY <2>1, <2>2 DEF Init, TaskTypes, Awaits, Outcomes
<1>2. ServiceOK
  BY DEF Init, ServiceOK, Holds, NoWorld
<1>3. \A r \in Tasks : RolloutOK(r)
  BY MaxTurnsAssumption DEF Init, RolloutOK, UnderWay, Threads
<1>4. Inside = {} /\ Entered = {}
  BY DEF Init, Inside, Entered
<1>5. Cardinality(Inside) = 0 /\ Cardinality(Entered) = 0
  BY <1>4, FS_EmptySet
<1>6. PermitsOK
  BY <1>5, RolloutsAssumption DEF Init, PermitsOK
<1>7. CountOK
  BY <1>5 DEF Init, CountOK
<1> QED
  BY <1>1, <1>2, <1>3, <1>6, <1>7 DEF RolloutInv

-----------------------------------------------------------------------------
(* The semaphore: what entering, going on and ending do to the accounts.   *)
LEMMA AccountsSame ==
  ASSUME TaskTypes, PermitsOK, CountOK, Inside' = Inside, Entered \subseteq Entered',
         sync' = sync, permits' = permits, worlds' = worlds, worlds \in Nat
  PROVE  PermitsOK' /\ CountOK'
<1>1. PermitsOK'
  BY DEF PermitsOK
<1>2. Entered' \in SUBSET Tasks /\ Entered \in SUBSET Tasks
  BY DEF Entered
<1>3. Cardinality(Entered) <= Cardinality(Entered')
  BY <1>2, TasksAreFinite, FS_Subset
<1> QED
  BY <1>1, <1>2, <1>3, TasksAreFinite DEF CountOK

LEMMA AccountsOfEnd ==
  ASSUME TaskTypes, PermitsOK, CountOK, NEW r \in Inside, Inside' = Inside \ {r},
         Entered' = Entered, sync' = sync, permits' = permits + 1, worlds' = worlds
  PROVE  PermitsOK' /\ CountOK'
<1>1. Inside \in SUBSET Tasks
  BY DEF Inside
<1>2. Cardinality(Inside) \in Nat /\ Cardinality(Inside') = Cardinality(Inside) - 1
  BY <1>1, TasksAreFinite, FS_RemoveElement
<1>3. PermitsOK'
  BY <1>2 DEF TaskTypes, PermitsOK
<1> QED
  BY <1>3 DEF CountOK

LEMMA AccountsOfEntry ==
  ASSUME TaskTypes, ServiceOK, PermitsOK, CountOK, NEW r \in Tasks, r \notin Entered,
         Inside' = Inside \cup {r}, Entered' = Entered \cup {r},
         sync' = sync, permits' = permits - 1, worlds' \in {worlds, worlds + 1}
  PROVE  PermitsOK' /\ CountOK'
<1>1. Inside \in SUBSET Tasks /\ Entered \in SUBSET Tasks /\ r \notin Inside
  BY DEF Inside, Entered
<1>2. /\ Cardinality(Inside) \in Nat /\ Cardinality(Inside') = Cardinality(Inside) + 1
      /\ Cardinality(Entered) \in Nat /\ Cardinality(Entered') = Cardinality(Entered) + 1
  BY <1>1, TasksAreFinite, FS_AddElement
<1>3. PermitsOK'
  BY <1>2 DEF TaskTypes, PermitsOK
<1>4. CountOK'
  BY <1>2 DEF ServiceOK, CountOK
<1> QED
  BY <1>3, <1>4

(* The other rollouts, when one takes a step.                              *)
OthersAlone(r) ==
  /\ UNCHANGED <<sync, cancelled>>
  /\ \A q \in Tasks \ {r} :
       /\ pc'[q] = pc[q] /\ jobs'[q] = jobs[q] /\ outcome'[q] = outcome[q]
       /\ cap'[q] = cap[q] /\ turns'[q] = turns[q] /\ episode'[q] = episode[q]

LEMMA OthersStay ==
  ASSUME NEW r \in Tasks, OthersAlone(r), \A q \in Tasks : RolloutOK(q), RolloutOK(r)'
  PROVE  \A q \in Tasks : RolloutOK(q)'
<1>1. ASSUME NEW q \in Tasks, q # r
      PROVE  RolloutOK(q)'
  <2>1. RolloutOK(q)
    OBVIOUS
  <2>2. /\ pc'[q] = pc[q] /\ jobs'[q] = jobs[q] /\ outcome'[q] = outcome[q]
        /\ cap'[q] = cap[q] /\ turns'[q] = turns[q] /\ episode'[q] = episode[q]
        /\ cancelled' = cancelled
    BY <1>1 DEF OthersAlone
  <2> QED
    BY <2>1, <2>2 DEF RolloutOK, Cancelled, UnderWay, Holds
<1> QED
  BY <1>1

-----------------------------------------------------------------------------
(* The service.                                                            *)
LEMMA ServiceSame ==
  ASSUME ServiceOK, UNCHANGED service
  PROVE  ServiceOK'
BY DEF ServiceOK, service, Holds

LEMMA ServiceAcquires ==
  ASSUME ServiceOK, NEW r \in Tasks, Acquire(r), episode' = [episode EXCEPT ![r] = "live"]
  PROVE  ServiceOK' /\ worlds' \in {worlds, worlds + 1}
<1>1. CASE warm # NoWorld /\ warm' = NoWorld /\ world' = [world EXCEPT ![r] = warm]
           /\ UNCHANGED <<worlds, booted>>
  BY <1>1 DEF ServiceOK, Holds, NoWorld
<1>2. CASE warm = NoWorld /\ worlds' = worlds + 1 /\ booted' = booted \cup {worlds'}
           /\ world' = [world EXCEPT ![r] = worlds'] /\ UNCHANGED warm
  <2>1. worlds' \in Nat /\ 0 .. worlds \subseteq 0 .. worlds' /\ 1 .. worlds \subseteq 1 .. worlds'
        /\ worlds' \in 1 .. worlds' /\ worlds' \notin 0 .. worlds /\ worlds' # 0
    BY <1>2 DEF ServiceOK
  <2> QED
    BY <1>2, <2>1 DEF ServiceOK, Holds, NoWorld
<1> QED
  BY <1>1, <1>2 DEF Acquire

LEMMA ServiceStops ==
  ASSUME ServiceOK, NEW r \in Tasks, episode[r] = "live", StopEpisode(r)
  PROVE  ServiceOK' /\ worlds' = worlds
BY DEF ServiceOK, Holds, StopEpisode, NoWorld

LEMMA ServiceCloses ==
  ASSUME ServiceOK, CloseService
  PROVE  ServiceOK' /\ worlds' = worlds /\ \A r \in Tasks : Holds(r)' <=> Holds(r)
<1>1. \A r \in Tasks : Holds(r)' <=> Holds(r)
  BY DEF ServiceOK, CloseService, Holds
<1>2. /\ episode' \in [Tasks -> {"none", "live", "graded", "killed"}]
      /\ \A r \in Tasks : episode'[r] # "live"
      /\ warm' = NoWorld /\ world' = world /\ worlds' = worlds /\ booted' \subseteq booted
  BY DEF ServiceOK, CloseService, ReleaseWorlds
<1> QED
  BY <1>1, <1>2 DEF ServiceOK, NoWorld

-----------------------------------------------------------------------------
(* Awaiting a thread, and the end of a rollout.                            *)
LEMMA Awaited ==
  ASSUME TaskTypes, NEW r \in Tasks, NEW job \in Awaits \ {"semaphore", "done"}, Await(r, job)
  PROVE  /\ pc' \in [Tasks -> Awaits] /\ pc'[r] = job
         /\ jobs' \in [Tasks -> SUBSET (Awaits \ {"semaphore", "done"})]
         /\ jobs'[r] = (jobs[r] \ {pc[r]}) \cup {job}
         /\ \A q \in Tasks \ {r} : pc'[q] = pc[q] /\ jobs'[q] = jobs[q]
BY DEF TaskTypes, Await

LEMMA JobEnded ==
  ASSUME TaskTypes, NEW r \in Tasks, NEW job, JobOver(r, job)
  PROVE  /\ jobs' \in [Tasks -> SUBSET (Awaits \ {"semaphore", "done"})]
         /\ jobs'[r] = jobs[r] \ {job}
         /\ \A q \in Tasks \ {r} : jobs'[q] = jobs[q]
BY DEF TaskTypes, JobOver

LEMMA Ended ==
  ASSUME TaskTypes, NEW r \in Inside, NEW o \in Outcomes, Ends(r, o)
  PROVE  /\ pc' \in [Tasks -> Awaits] /\ pc'[r] = "done"
         /\ outcome' \in [Tasks -> Outcomes] /\ outcome'[r] = o
         /\ gather' \in {"waiting", "returned", "raised"}
         /\ permits' \in Nat /\ permits' = permits + 1
         /\ Inside' = Inside \ {r} /\ Entered' = Entered
         /\ \A q \in Tasks \ {r} : pc'[q] = pc[q] /\ outcome'[q] = outcome[q]
<1>1. r \in Tasks /\ pc[r] \notin {"semaphore", "done"} /\ "done" \in Awaits
  BY DEF Inside, Awaits
<1>2. /\ pc' \in [Tasks -> Awaits] /\ pc'[r] = "done"
      /\ outcome' \in [Tasks -> Outcomes] /\ outcome'[r] = o
      /\ \A q \in Tasks \ {r} : pc'[q] = pc[q] /\ outcome'[q] = outcome[q]
  BY <1>1 DEF TaskTypes, Ends
<1>3. gather' \in {"waiting", "returned", "raised"}
  BY DEF TaskTypes, Ends
<1>4. permits' \in Nat /\ permits' = permits + 1
  BY DEF TaskTypes, Ends, Release
<1>5. Inside' = Inside \ {r} /\ Entered' = Entered
  BY <1>1, <1>2 DEF Inside, Entered
<1> QED
  BY <1>2, <1>3, <1>4, <1>5

(* A step of one rollout that stays inside keeps the accounts.             *)
LEMMA StaysInside ==
  ASSUME TaskTypes, NEW r \in Inside, pc'[r] \notin {"semaphore", "done"},
         \A q \in Tasks \ {r} : pc'[q] = pc[q]
  PROVE  Inside' = Inside /\ Entered' = Entered
BY DEF Inside, Entered

-----------------------------------------------------------------------------
(* The steps.                                                              *)
LEMMA EnterKeeps ==
  ASSUME RolloutInv, NEW r \in Tasks, Enter(r)
  PROVE  RolloutInv'
<1>1. pc[r] = "semaphore" /\ r \notin Entered /\ r \notin Inside /\ ~cancelled
  BY DEF RolloutInv, RolloutOK, Cancelled, Enter, Entered, Inside
<1>2. jobs[r] = {} /\ cap[r] = "none" /\ turns[r] < MaxTurns
  BY <1>1 DEF RolloutInv, RolloutOK, UnderWay, Threads
<1>3. UNCHANGED <<sync, cap, turns, cancelled, closed>>
  BY DEF Enter
<1>4. CASE /\ Acquire(r) /\ episode' = [episode EXCEPT ![r] = "live"]
           /\ Await(r, "bind") /\ permits' = permits - 1
           /\ UNCHANGED <<outcome, gather>>
  <2>1. /\ pc' \in [Tasks -> Awaits] /\ pc'[r] = "bind"
        /\ jobs' \in [Tasks -> SUBSET (Awaits \ {"semaphore", "done"})] /\ jobs'[r] = {"bind"}
        /\ \A q \in Tasks \ {r} : pc'[q] = pc[q] /\ jobs'[q] = jobs[q]
    BY <1>2, <1>4, Awaited DEF RolloutInv, Awaits
  <2>2. permits' \in Nat
    BY <1>4 DEF RolloutInv, TaskTypes, Enter
  <2>3. TaskTypes'
    BY <1>3, <1>4, <2>1, <2>2 DEF RolloutInv, TaskTypes
  <2>4. ServiceOK' /\ worlds' \in {worlds, worlds + 1}
    BY <1>1, <1>4, ServiceAcquires DEF RolloutInv
  <2>5. PermitsOK' /\ CountOK'
    <3>1. Inside' = Inside \cup {r} /\ Entered' = Entered \cup {r}
      BY <2>1 DEF Inside, Entered
    <3> QED
      BY <1>1, <1>3, <1>4, <2>4, <3>1, AccountsOfEntry DEF RolloutInv
  <2>6. RolloutOK(r)'
    BY <1>1, <1>2, <1>3, <1>4, <2>1 DEF RolloutInv, ServiceOK, RolloutOK, UnderWay, Threads, Holds
  <2>7. OthersAlone(r)
    BY <1>3, <1>4, <2>1 DEF RolloutInv, ServiceOK, OthersAlone
  <2> QED
    BY <2>3, <2>4, <2>5, <2>6, <2>7, OthersStay DEF RolloutInv
<1>5. CASE /\ "start" \in Faults
           /\ pc' = [pc EXCEPT ![r] = "done"] /\ outcome' = [outcome EXCEPT ![r] = "error"]
           /\ gather' = IF gather = "waiting" THEN "raised" ELSE gather
           /\ UNCHANGED <<permits, jobs, episode, world, worlds, booted, warm>>
  <2>1. /\ pc' \in [Tasks -> Awaits] /\ pc'[r] = "done"
        /\ outcome' \in [Tasks -> Outcomes]
        /\ \A q \in Tasks \ {r} : pc'[q] = pc[q] /\ outcome'[q] = outcome[q]
    BY <1>5 DEF RolloutInv, TaskTypes, Awaits, Outcomes
  <2>2. TaskTypes'
    BY <1>3, <1>5, <2>1 DEF RolloutInv, TaskTypes
  <2>3. ServiceOK'
    BY <1>3, <1>5, ServiceSame DEF RolloutInv, service
  <2>4. PermitsOK' /\ CountOK'
    <3>1. Inside' = Inside /\ Entered \subseteq Entered'
      BY <1>1, <2>1 DEF Inside, Entered
    <3> QED
      BY <1>3, <1>5, <3>1, AccountsSame DEF RolloutInv, ServiceOK
  <2>5. RolloutOK(r)'
    BY <1>1, <1>2, <1>3, <1>5, <2>1 DEF RolloutOK, UnderWay, Threads
  <2>6. OthersAlone(r)
    BY <1>3, <1>5, <2>1 DEF OthersAlone
  <2> QED
    BY <2>2, <2>3, <2>4, <2>5, <2>6, OthersStay DEF RolloutInv
<1> QED
  BY <1>4, <1>5 DEF Enter

(* A thread of a rollout that no longer awaits it ends: only its job goes. *)
LEMMA Abandoned ==
  ASSUME RolloutInv, NEW r \in Tasks, NEW job \in jobs[r], pc[r] # job, JobOver(r, job),
         UNCHANGED <<sync, pc, outcome, permits, gather, turns, cancelled, service>>,
         \/ cap' = cap
         \/ job \in {"bind", "close"} /\ cap' \in [Tasks -> {"none", "open", "closed", "stuck"}]
              /\ \A q \in Tasks \ {r} : cap'[q] = cap[q]
  PROVE  RolloutInv'
<1>1. /\ jobs' \in [Tasks -> SUBSET (Awaits \ {"semaphore", "done"})]
      /\ jobs'[r] = jobs[r] \ {job} /\ \A q \in Tasks \ {r} : jobs'[q] = jobs[q]
  BY JobEnded DEF RolloutInv
<1>2. cap' \in [Tasks -> {"none", "open", "closed", "stuck"}] /\ \A q \in Tasks \ {r} : cap'[q] = cap[q]
  BY DEF RolloutInv, TaskTypes
<1>3. TaskTypes'
  BY <1>1, <1>2 DEF RolloutInv, TaskTypes, service
<1>4. ServiceOK'
  BY ServiceSame DEF RolloutInv
<1>5. PermitsOK' /\ CountOK'
  <2>1. Inside' = Inside /\ Entered' = Entered
    BY DEF Inside, Entered
  <2> QED
    BY <2>1 DEF RolloutInv, PermitsOK, CountOK, service
<1>6. cancelled /\ ~(pc[r] = "done" /\ outcome[r] \in {"report", "error"})
  <2>1. RolloutOK(r)
    BY DEF RolloutInv
  <2>2. cancelled
    BY <2>1 DEF RolloutOK, UnderWay, Threads
  <2> QED
    BY <2>1, <2>2 DEF RolloutOK
<1>7. RolloutOK(r)'
  BY <1>1, <1>6 DEF RolloutInv, RolloutOK, Cancelled, Holds, service
<1>8. OthersAlone(r)
  BY <1>1, <1>2 DEF OthersAlone, service
<1> QED
  BY <1>3, <1>4, <1>5, <1>7, <1>8, OthersStay DEF RolloutInv

(* A rollout goes on: it awaits something else, inside the semaphore.      *)
LEMMA GoesOn ==
  ASSUME RolloutInv, NEW r \in Tasks, pc[r] \in {"bind", "sample", "shell"},
         NEW job \in {"sample", "shell", "close"}, Await(r, job),
         UNCHANGED <<sync, cancelled, permits, gather>>, closed' \in BOOLEAN,
         outcome' \in [Tasks -> Outcomes], cap' \in [Tasks -> {"none", "open", "closed", "stuck"}],
         turns' \in [Tasks -> 0 .. MaxTurns], ServiceOK', worlds' = worlds,
         \A q \in Tasks \ {r} : /\ outcome'[q] = outcome[q] /\ cap'[q] = cap[q]
                                /\ turns'[q] = turns[q] /\ episode'[q] = episode[q],
         job \in {"sample", "shell"} => Holds(r)' /\ turns'[r] < MaxTurns
  PROVE  RolloutInv'
<1>1. ~cancelled /\ jobs[r] = {pc[r]}
  <2>1. RolloutOK(r)
    BY DEF RolloutInv
  <2>2. ~cancelled
    BY <2>1 DEF RolloutOK, Cancelled
  <2> QED
    BY <2>1, <2>2 DEF RolloutOK, UnderWay, Threads
<1>2. /\ pc' \in [Tasks -> Awaits] /\ pc'[r] = job
      /\ jobs' \in [Tasks -> SUBSET (Awaits \ {"semaphore", "done"})] /\ jobs'[r] = {job}
      /\ \A q \in Tasks \ {r} : pc'[q] = pc[q] /\ jobs'[q] = jobs[q]
  BY <1>1, Awaited DEF RolloutInv, Awaits
<1>3. TaskTypes'
  BY <1>2 DEF RolloutInv, TaskTypes
<1>4. r \in Inside /\ pc'[r] \notin {"semaphore", "done"}
  BY <1>2 DEF Inside
<1>5. Inside' = Inside /\ Entered' = Entered
  BY <1>2, <1>4, StaysInside DEF RolloutInv
<1>6. PermitsOK' /\ CountOK'
  BY <1>5 DEF RolloutInv, PermitsOK, CountOK
<1>7. RolloutOK(r)'
  BY <1>1, <1>2 DEF RolloutOK, UnderWay, Threads
<1>8. OthersAlone(r)
  BY <1>2 DEF OthersAlone
<1> QED
  BY <1>3, <1>6, <1>7, <1>8, OthersStay DEF RolloutInv

LEMMA EndKeeps ==
  ASSUME RolloutInv, NEW r \in Tasks, pc[r] \in {"bind", "close"}, JobOver(r, pc[r]),
         NEW o \in Outcomes, Ends(r, o), cancelled => o = "cancelled",
         cap' \in [Tasks -> {"none", "open", "closed", "stuck"}], cap'[r] # "open",
         \A q \in Tasks \ {r} : cap'[q] = cap[q],
         UNCHANGED <<sync, turns, cancelled, service>>
  PROVE  RolloutInv'
<1>1. r \in Inside
  BY DEF Inside
<1>2. /\ jobs' \in [Tasks -> SUBSET (Awaits \ {"semaphore", "done"})]
      /\ jobs'[r] = jobs[r] \ {pc[r]} /\ \A q \in Tasks \ {r} : jobs'[q] = jobs[q]
  BY JobEnded DEF RolloutInv
<1>3. /\ pc' \in [Tasks -> Awaits] /\ pc'[r] = "done"
      /\ outcome' \in [Tasks -> Outcomes] /\ outcome'[r] = o
      /\ gather' \in {"waiting", "returned", "raised"}
      /\ permits' \in Nat /\ permits' = permits + 1
      /\ Inside' = Inside \ {r} /\ Entered' = Entered
      /\ \A q \in Tasks \ {r} : pc'[q] = pc[q] /\ outcome'[q] = outcome[q]
  BY <1>1, Ended DEF RolloutInv
<1>4. TaskTypes'
  BY <1>2, <1>3 DEF RolloutInv, TaskTypes, service
<1>5. ServiceOK'
  BY ServiceSame DEF RolloutInv
<1>6. PermitsOK' /\ CountOK'
  BY <1>1, <1>3, AccountsOfEnd DEF RolloutInv, service
<1>7. RolloutOK(r)'
  <2>1. RolloutOK(r)
    BY DEF RolloutInv
  <2>2. CASE cancelled
    BY <1>2, <1>3, <2>1, <2>2 DEF RolloutOK, Cancelled, Holds, service
  <2>3. CASE ~cancelled
    BY <1>2, <1>3, <2>1, <2>3 DEF RolloutOK, UnderWay, Threads
  <2> QED
    BY <2>2, <2>3
<1>8. OthersAlone(r)
  BY <1>2, <1>3 DEF OthersAlone, service
<1> QED
  BY <1>4, <1>5, <1>6, <1>7, <1>8, OthersStay DEF RolloutInv

(* Of one that takes turns.                                                *)
LEMMA TakesTurns ==
  ASSUME RolloutInv, NEW r \in Tasks, pc[r] \in {"bind", "sample", "shell"}
  PROVE  ~cancelled /\ Holds(r) /\ turns[r] < MaxTurns /\ turns[r] \in Nat
<1>1. RolloutOK(r)
  BY DEF RolloutInv
<1> QED
  BY <1>1, MaxTurnsAssumption DEF RolloutInv, TaskTypes, RolloutOK, Cancelled, UnderWay

LEMMA BoundKeeps ==
  ASSUME RolloutInv, NEW r \in Tasks, Bound(r)
  PROVE  RolloutInv'
<1>1. "bind" \in jobs[r] /\ UNCHANGED <<sync, turns, cancelled, service>>
  BY DEF Bound
<1>2. ServiceOK' /\ worlds' = worlds /\ closed' \in BOOLEAN /\ episode' = episode
  BY <1>1, ServiceSame DEF RolloutInv, TaskTypes, service
<1>3. CASE /\ cap' = [cap EXCEPT ![r] = "open"] /\ UNCHANGED <<outcome, permits, gather>>
           /\ \/ pc[r] = "bind" /\ Await(r, "sample")
              \/ pc[r] # "bind" /\ JobOver(r, "bind") /\ UNCHANGED pc
  <2>1. cap' \in [Tasks -> {"none", "open", "closed", "stuck"}] /\ \A q \in Tasks \ {r} : cap'[q] = cap[q]
    BY <1>3 DEF RolloutInv, TaskTypes
  <2>2. CASE pc[r] = "bind" /\ Await(r, "sample")
    <3>1. Holds(r)' /\ turns'[r] < MaxTurns
      BY <1>1, <1>2, <2>2, TakesTurns DEF Holds
    <3>2. turns' \in [Tasks -> 0 .. MaxTurns] /\ outcome' \in [Tasks -> Outcomes]
      BY <1>1, <1>3 DEF RolloutInv, TaskTypes
    <3> QED
      BY <1>1, <1>2, <1>3, <2>1, <2>2, <3>1, <3>2, GoesOn
  <2>3. CASE pc[r] # "bind" /\ JobOver(r, "bind") /\ UNCHANGED pc
    BY <1>1, <1>3, <2>1, <2>3, Abandoned
  <2> QED
    BY <1>3, <2>2, <2>3
<1>4. CASE /\ JobOver(r, "bind") /\ UNCHANGED cap
           /\ \/ pc[r] = "bind" /\ Ends(r, "error")
              \/ pc[r] # "bind" /\ UNCHANGED <<pc, outcome, permits, gather>>
  <2>1. CASE pc[r] = "bind" /\ Ends(r, "error")
    <3>1. cap[r] = "none" /\ ~cancelled
      BY <2>1, TakesTurns DEF RolloutInv, RolloutOK, UnderWay
    <3> QED
      BY <1>1, <1>4, <2>1, <3>1, EndKeeps DEF RolloutInv, TaskTypes, Outcomes
  <2>2. CASE pc[r] # "bind" /\ UNCHANGED <<pc, outcome, permits, gather>>
    BY <1>1, <1>4, <2>2, Abandoned
  <2> QED
    BY <1>4, <2>1, <2>2
<1> QED
  BY <1>3, <1>4 DEF Bound

LEMMA FinallyKeeps ==
  ASSUME RolloutInv, NEW r \in Tasks, pc[r] \in {"sample", "shell"},
         NEW o \in Outcomes, Finally(r, o), UNCHANGED <<sync, cap, cancelled>>,
         closed' = closed, turns' \in [Tasks -> 0 .. MaxTurns], ServiceOK', worlds' = worlds,
         \A q \in Tasks \ {r} : turns'[q] = turns[q] /\ episode'[q] = episode[q]
  PROVE  RolloutInv'
<1>1. Await(r, "close") /\ outcome' = [outcome EXCEPT ![r] = o] /\ UNCHANGED <<permits, gather>>
  BY DEF Finally
<1>2. /\ outcome' \in [Tasks -> Outcomes] /\ cap' \in [Tasks -> {"none", "open", "closed", "stuck"}]
      /\ closed' \in BOOLEAN /\ \A q \in Tasks \ {r} : outcome'[q] = outcome[q]
  BY <1>1 DEF RolloutInv, TaskTypes
<1> QED
  BY <1>1, <1>2, GoesOn

LEMMA RecordedKeeps ==
  ASSUME RolloutInv, NEW r \in Tasks, pc[r] \in {"sample", "shell"}, NEW last \in BOOLEAN,
         turns' = [turns EXCEPT ![r] = @ + 1], ~last => turns'[r] # MaxTurns,
         Recorded(r, last), UNCHANGED <<sync, cap, cancelled>>
  PROVE  RolloutInv'
<1>1. turns[r] \in Nat /\ turns[r] < MaxTurns /\ Holds(r)
  BY TakesTurns
<1>2. /\ turns' \in [Tasks -> 0 .. MaxTurns] /\ turns'[r] = turns[r] + 1
      /\ \A q \in Tasks \ {r} : turns'[q] = turns[q]
  BY <1>1, MaxTurnsAssumption DEF RolloutInv, TaskTypes
<1>3. ASSUME UNCHANGED service
      PROVE  ServiceOK' /\ worlds' = worlds /\ closed' = closed /\ episode' = episode
  BY <1>3, ServiceSame DEF RolloutInv, service
<1>4. "report" \in Outcomes /\ "error" \in Outcomes
  BY DEF Outcomes
<1>5. CASE /\ episode[r] = "live" /\ StopEpisode(r)
           /\ Finally(r, "report") \/ Finally(r, "error")
  <2>0. PICK o \in Outcomes : Finally(r, o)
    BY <1>4, <1>5
  <2>1. ServiceOK' /\ worlds' = worlds
    BY <1>5, ServiceStops DEF RolloutInv
  <2>2. closed' = closed /\ \A q \in Tasks \ {r} : episode'[q] = episode[q]
    BY <1>5 DEF RolloutInv, ServiceOK, StopEpisode
  <2> QED
    BY <1>2, <1>5, <2>0, <2>1, <2>2, FinallyKeeps
<1>6. CASE /\ ~last /\ Await(r, "sample")
           /\ UNCHANGED <<outcome, permits, gather, service>>
  <2>1. turns'[r] < MaxTurns /\ Holds(r)'
    BY <1>1, <1>2, <1>3, <1>6, MaxTurnsAssumption DEF Holds
  <2>2. /\ outcome' \in [Tasks -> Outcomes] /\ cap' \in [Tasks -> {"none", "open", "closed", "stuck"}]
        /\ closed' \in BOOLEAN
    BY <1>3, <1>6 DEF RolloutInv, TaskTypes
  <2> QED
    BY <1>2, <1>3, <1>6, <2>1, <2>2, GoesOn
<1>7. CASE Finally(r, "error") /\ UNCHANGED service
  BY <1>2, <1>3, <1>4, <1>7, FinallyKeeps
<1> QED
  BY <1>5, <1>6, <1>7 DEF Recorded

LEMMA SampledKeeps ==
  ASSUME RolloutInv, NEW r \in Tasks, Sampled(r)
  PROVE  RolloutInv'
<1>1. "sample" \in jobs[r] /\ UNCHANGED <<sync, cap, cancelled>>
  BY DEF Sampled
<1>2. ASSUME UNCHANGED <<service, turns>>
      PROVE  /\ ServiceOK' /\ worlds' = worlds /\ closed' = closed /\ episode' = episode
             /\ turns' \in [Tasks -> 0 .. MaxTurns] /\ turns' = turns
  BY <1>2, ServiceSame DEF RolloutInv, TaskTypes, service
<1>3. CASE pc[r] = "sample" /\ turns' = [turns EXCEPT ![r] = @ + 1] /\ Recorded(r, TRUE)
  BY <1>1, <1>3, RecordedKeeps
<1>4. CASE pc[r] = "sample" /\ Act(r)
  <2>1. Await(r, "shell") /\ UNCHANGED <<outcome, permits, gather, service, turns>>
    BY <1>4 DEF Act
  <2>2. Holds(r)' /\ turns'[r] < MaxTurns
    BY <1>2, <1>4, <2>1, TakesTurns DEF Holds
  <2>3. /\ outcome' \in [Tasks -> Outcomes] /\ cap' \in [Tasks -> {"none", "open", "closed", "stuck"}]
        /\ closed' \in BOOLEAN
    BY <1>1, <1>2, <2>1 DEF RolloutInv, TaskTypes
  <2> QED
    BY <1>1, <1>2, <1>4, <2>1, <2>2, <2>3, GoesOn
<1>5. CASE pc[r] = "sample" /\ Finally(r, "error") /\ UNCHANGED <<service, turns>>
  BY <1>1, <1>2, <1>5, FinallyKeeps DEF Outcomes
<1>6. CASE /\ pc[r] # "sample" /\ JobOver(r, "sample")
           /\ UNCHANGED <<pc, outcome, permits, gather, service, turns>>
  BY <1>1, <1>6, Abandoned
<1> QED
  BY <1>3, <1>4, <1>5, <1>6 DEF Sampled

LEMMA ShellOverKeeps ==
  ASSUME RolloutInv, NEW r \in Tasks, ShellOver(r)
  PROVE  RolloutInv'
<1>1. "shell" \in jobs[r] /\ UNCHANGED <<sync, cap, cancelled>>
  BY DEF ShellOver
<1>2. ASSUME UNCHANGED <<service, turns>>
      PROVE  /\ ServiceOK' /\ worlds' = worlds /\ closed' = closed /\ episode' = episode
             /\ turns' \in [Tasks -> 0 .. MaxTurns] /\ turns' = turns
  BY <1>2, ServiceSame DEF RolloutInv, TaskTypes, service
<1>3. CASE /\ pc[r] = "shell" /\ turns' = [turns EXCEPT ![r] = @ + 1]
           /\ Recorded(r, turns'[r] = MaxTurns)
  <2> DEFINE last == turns'[r] = MaxTurns
  <2>1. last \in BOOLEAN /\ (~last => turns'[r] # MaxTurns) /\ Recorded(r, last)
    BY <1>3
  <2> HIDE DEF last
  <2> QED
    BY <1>1, <1>3, <2>1, RecordedKeeps
<1>4. CASE pc[r] = "shell" /\ Finally(r, "error") /\ UNCHANGED <<service, turns>>
  BY <1>1, <1>2, <1>4, FinallyKeeps DEF Outcomes
<1>5. CASE /\ pc[r] # "shell" /\ JobOver(r, "shell")
           /\ UNCHANGED <<pc, outcome, permits, gather, service, turns>>
  BY <1>1, <1>5, Abandoned
<1> QED
  BY <1>3, <1>4, <1>5 DEF ShellOver

LEMMA ClosedKeeps ==
  ASSUME RolloutInv, NEW r \in Tasks, Closed(r)
  PROVE  RolloutInv'
<1>1. "close" \in jobs[r] /\ JobOver(r, "close") /\ UNCHANGED <<sync, turns, cancelled, service>>
  BY DEF Closed
<1>2. PICK stuck \in BOOLEAN :
        /\ cap' = [cap EXCEPT ![r] = IF stuck THEN "stuck" ELSE "closed"]
        /\ \/ pc[r] = "close" /\ Ends(r, IF stuck /\ ~cancelled THEN "error" ELSE outcome[r])
           \/ pc[r] # "close" /\ UNCHANGED <<pc, outcome, permits, gather>>
  BY DEF Closed
<1>3. /\ cap' \in [Tasks -> {"none", "open", "closed", "stuck"}] /\ cap'[r] # "open"
      /\ \A q \in Tasks \ {r} : cap'[q] = cap[q]
  BY <1>2 DEF RolloutInv, TaskTypes
<1>4. CASE pc[r] = "close" /\ Ends(r, IF stuck /\ ~cancelled THEN "error" ELSE outcome[r])
  <2> DEFINE end == IF stuck /\ ~cancelled THEN "error" ELSE outcome[r]
  <2>1. end \in Outcomes /\ (cancelled => end = "cancelled")
    BY <1>4 DEF RolloutInv, TaskTypes, RolloutOK, Cancelled, Outcomes
  <2>2. Ends(r, end)
    BY <1>4
  <2> HIDE DEF end
  <2> QED
    BY <1>1, <1>3, <1>4, <2>1, <2>2, EndKeeps
<1>5. CASE pc[r] # "close" /\ UNCHANGED <<pc, outcome, permits, gather>>
  BY <1>1, <1>3, <1>5, Abandoned
<1> QED
  BY <1>2, <1>4, <1>5

LEMMA CancelKeeps ==
  ASSUME RolloutInv, CancelRest
  PROVE  RolloutInv'
<1> DEFINE left  == {r \in Tasks : pc[r] # "done"}
           inTry == {r \in left : pc[r] \in {"sample", "shell"}}
           out   == {r \in left \ inTry : pc[r] # "semaphore"}
<1>1. /\ ~cancelled /\ cancelled' = TRUE
      /\ pc' = [r \in Tasks |-> IF r \in inTry THEN "close" ELSE "done"]
      /\ jobs' = [r \in Tasks |-> jobs[r] \cup (IF r \in inTry THEN {"close"} ELSE {})]
      /\ outcome' = [r \in Tasks |-> IF r \in left THEN "cancelled" ELSE outcome[r]]
      /\ permits' = permits + Cardinality(out)
      /\ UNCHANGED <<sync, cap, turns, gather, service>>
  BY DEF CancelRest
<1>2. inTry \in SUBSET Tasks /\ out \in SUBSET Tasks /\ Inside \in SUBSET Tasks
  BY DEF Inside
<1>3. /\ Cardinality(inTry) \in Nat /\ Cardinality(out) \in Nat
      /\ IsFiniteSet(inTry) /\ IsFiniteSet(out)
  BY <1>2, TasksAreFinite
<1>4. Cardinality(Inside) = Cardinality(inTry) + Cardinality(out)
  <2>1. Inside = inTry \cup out /\ inTry \cap out = {}
    BY DEF Inside
  <2> HIDE DEF inTry, out
  <2> QED
    BY <1>3, <2>1, FS_Union, FS_EmptySet
<1>5. Inside' = inTry
  BY <1>1 DEF Inside
<1>6. PermitsOK'
  <2>1. permits \in Nat /\ permits + Cardinality(Inside) = IF sync THEN 1 ELSE MaxConcurrency
    BY DEF RolloutInv, TaskTypes, PermitsOK
  <2> HIDE DEF inTry, out
  <2>2. permits' + Cardinality(inTry) = permits + Cardinality(Inside)
    BY <1>1, <1>3, <1>4, <2>1
  <2> QED
    BY <1>1, <1>5, <2>1, <2>2 DEF PermitsOK
<1>7. CountOK'
  <2>1. Entered \subseteq Entered' /\ Entered' \in SUBSET Tasks /\ Entered \in SUBSET Tasks
    BY <1>1 DEF Entered
  <2>2. Cardinality(Entered) <= Cardinality(Entered')
    BY <2>1, TasksAreFinite, FS_Subset
  <2> QED
    BY <1>1, <2>1, <2>2, TasksAreFinite DEF RolloutInv, ServiceOK, CountOK, service
<1>8. TaskTypes'
  <2>1. pc' \in [Tasks -> Awaits]
    BY <1>1 DEF Awaits
  <2>2. jobs' \in [Tasks -> SUBSET (Awaits \ {"semaphore", "done"})]
    BY <1>1 DEF RolloutInv, TaskTypes, Awaits
  <2>3. outcome' \in [Tasks -> Outcomes]
    BY <1>1 DEF RolloutInv, TaskTypes, Outcomes
  <2>4. permits' \in Nat
    BY <1>1, <1>3 DEF RolloutInv, TaskTypes
  <2> QED
    BY <1>1, <2>1, <2>2, <2>3, <2>4 DEF RolloutInv, TaskTypes, service
<1>9. ServiceOK'
  BY <1>1, ServiceSame DEF RolloutInv
<1>10. ASSUME NEW r \in Tasks
       PROVE  RolloutOK(r)'
  <2>1. /\ jobs[r] = Threads(pc[r])
        /\ pc[r] = "done" /\ outcome[r] \in {"report", "error"} => jobs[r] = {} /\ cap[r] # "open"
        /\ pc[r] \in {"bind", "sample", "shell"} => Holds(r)
    BY <1>1 DEF RolloutInv, RolloutOK, UnderWay
  <2>2. CASE r \in inTry
    BY <1>1, <2>1, <2>2 DEF RolloutOK, Cancelled, Threads, Holds, service
  <2>3. CASE r \in left \ inTry
    BY <1>1, <2>1, <2>3 DEF RolloutOK, Cancelled, Threads, Holds, service
  <2>4. CASE r \notin left
    BY <1>1, <2>1, <2>4 DEF RolloutOK, Cancelled, Threads, Holds, service
  <2> QED
    BY <2>2, <2>3, <2>4
<1> QED
  BY <1>6, <1>7, <1>8, <1>9, <1>10 DEF RolloutInv

LEMMA CloseKeeps ==
  ASSUME RolloutInv, CloseService
  PROVE  RolloutInv'
<1>1. closed' = TRUE /\ UNCHANGED tasks
  BY DEF CloseService
<1>2. ServiceOK' /\ worlds' = worlds /\ \A r \in Tasks : Holds(r)' <=> Holds(r)
  BY ServiceCloses DEF RolloutInv
<1>3. TaskTypes'
  BY <1>1 DEF RolloutInv, TaskTypes, tasks
<1>4. PermitsOK' /\ CountOK'
  BY <1>1, <1>2 DEF RolloutInv, PermitsOK, CountOK, Inside, Entered, tasks
<1>5. \A r \in Tasks : RolloutOK(r)'
  BY <1>1, <1>2 DEF RolloutInv, RolloutOK, Cancelled, UnderWay, tasks
<1> QED
  BY <1>2, <1>3, <1>4, <1>5 DEF RolloutInv

LEMMA RolloutInvKept ==
  ASSUME RolloutInv, [Next]_vars
  PROVE  RolloutInv'
<1>1. CASE \E r \in Tasks : Step(r)
  BY <1>1, EnterKeeps, BoundKeeps, SampledKeeps, ShellOverKeeps, ClosedKeeps DEF Step
<1>2. CASE UNCHANGED vars
  <2>1. UNCHANGED <<tasks, service>>
    BY <1>2 DEF vars
  <2>2. ServiceOK'
    BY <2>1, ServiceSame DEF RolloutInv
  <2>3. TaskTypes' /\ PermitsOK' /\ CountOK'
    BY <2>1 DEF RolloutInv, TaskTypes, PermitsOK, CountOK, Inside, Entered, tasks, service
  <2>4. \A r \in Tasks : RolloutOK(r)'
    BY <2>1 DEF RolloutInv, RolloutOK, Cancelled, UnderWay, Holds, tasks, service
  <2> QED
    BY <2>2, <2>3, <2>4 DEF RolloutInv
<1> QED
  BY <1>1, <1>2, CancelKeeps, CloseKeeps DEF Next, Over

-----------------------------------------------------------------------------
LEMMA RolloutsInvariant == Spec => []RolloutInv
BY InitRollouts, RolloutInvKept, PTL DEF Spec

(* The types, and that every permit of the semaphore is free or with one   *)
(* rollout under way, also when asyncio.run cancels them (arun_rollouts).  *)
THEOREM PermitsAccountedFor == Spec => []TypeOK
BY InvImplies, RolloutsInvariant, PTL

(* For any number of rollouts, permits and turns, wherever a rollout is    *)
(* cancelled or fails, no shell acts in a world that is graded, warm or    *)
(* another episode's, and none is left open by a rollout that ends by      *)
(* itself (arun_agent).                                                    *)
THEOREM ShellsAtHome == Spec => []ShellsStayHome
BY InvImplies, RolloutsInvariant, PTL

-----------------------------------------------------------------------------
(* The worlds of a pool are generated, verified and frozen by a language   *)
(* model first (StagedRealize).  For any catalog of kinds, any services    *)
(* and pages and any number of calls: as long as every call has returned,  *)
(* what ships was verified and the snapshot tells what it is; and whatever *)
(* was raised before the gate, a world in the pool stays one to be won     *)
(* while calls that return author it again.                                *)

Sources == {None} \cup HandlerSources \cup PageSources

Graphs == [at : [Parts -> Sources], novel : BOOLEAN]

(* Only what parses is ever authored, and only realize_novel renames.      *)
Typed(g) ==
  /\ g \in Graphs
  /\ \A k \in Kinds : g.at[k] \in {None} \cup (HandlerSources \ {"unparsable"})
  /\ \A p \in Pages : g.at[p] \in {None} \cup (PageSources \ {"unparsable"})
  /\ g.novel => mode = "novel"

WorldCalls == [pc : {"apply", "verify"}, todo : SUBSET Kinds, kept : SUBSET Kinds]
NovelCalls == [pc : {"authored"}, before : Graphs]
SurfaceCalls == [pc : {"probe"}, service : Services, applied : SUBSET Pages]

CallTypes ==
  \/ call = Idle
  \/ /\ call \in WorldCalls /\ mode = "vuln"
     /\ call.kept \cap call.todo = {} /\ (call.pc = "verify" => call.todo # {})
  \/ call \in NovelCalls /\ mode = "novel" /\ Typed(call.before)
  \/ call \in SurfaceCalls /\ call.applied \subseteq benign_endpoints_of(call.service)

StagedTypes ==
  /\ vulns \in (SUBSET Kinds) \ {{}} /\ Typed(graph) /\ CallTypes
  /\ snap \in [frozen : Graphs, realized : SUBSET Kinds, pages : SUBSET Pages, class : BOOLEAN]
  /\ raised \in BOOLEAN /\ gated \in BOOLEAN

(* A source that was verified: with a fresh flag in the novel mode, with   *)
(* the control of its kind where there is one.                             *)
Verified(g, k) ==
  \/ g.at[k] \in {None, "faithful", "open"}
  \/ g.at[k] = "faked" /\ k \notin Controlled /\ mode # "novel"

\* all of the graph was verified but for some parts
VerifiedBut(g, parts) ==
  /\ \A k \in Kinds \ parts : Verified(g, k)
  /\ \A p \in Pages \ parts : g.at[p] \in {None, "plain"}

\* the parts that carry what the call in progress has authored
Pending ==
  CASE call.pc = "verify"   -> {part}
    [] call.pc = "authored" -> {_novel_target}
    [] call.pc = "probe"    -> call.applied
    [] OTHER                -> {}

ShipInv ==
  ~raised => /\ VerifiedBut(graph, Pending)
             /\ call.pc = "authored" => VerifiedBut(call.before, {})

\* the parts whose source is not the procedural one
Realized(g, parts) == \A p \in parts : g.at[p] # None

(* What the lineage says of a call in progress is true of the graph the    *)
(* call would go back to, or of the parts it does not touch.               *)
TellInv ==
  ~raised =>
    /\ call = Idle => /\ snap.frozen = graph /\ snap.class = graph.novel
                      /\ Realized(graph, snap.realized \cup snap.pages)
    /\ call.pc \in {"apply", "verify"} =>
         snap.class = graph.novel /\ Realized(graph, call.kept \cup snap.pages)
    /\ call.pc = "verify" => graph.at[part] # None
    /\ call.pc = "authored" =>
         /\ snap.frozen = call.before /\ snap.class = call.before.novel /\ graph.novel
         /\ Realized(call.before, snap.realized \cup snap.pages)
         /\ Realized(graph, snap.realized \cup snap.pages)
    /\ call.pc = "probe" =>
         /\ snap.class = graph.novel
         /\ Realized(graph, snap.realized \cup call.applied)

\* some exploit wins the graph, and the benign request does not
Winnable(g) == \E k \in vulns : Leaks(g.at[k], FALSE) /\ ~LeaksBenign(g.at[k])

\* but for some parts, the graph compiles and its pages withhold the flag
HarmlessBut(g, parts) ==
  /\ \A p \in Parts \ parts : g.at[p] # "wrecks"
  /\ \A p \in Pages \ parts : ~LeaksBare(g.at[p])

(* While a call is in progress a gated world is harmless but for what the  *)
(* call has authored.  It can be won unless the pending part is the very   *)
(* vulnerability, which the verdict or its taking back then makes sure of. *)
GateInv ==
  /\ call.pc \in {"apply", "verify"} => call.todo \subseteq vulns
  /\ gated =>
       /\ HarmlessBut(graph, Pending)
       /\ call.pc \notin {"verify", "authored"} => Winnable(graph)
       /\ call.pc = "authored" => HarmlessBut(call.before, {}) /\ Winnable(call.before)

StagedInv == StagedTypes /\ ShipInv /\ TellInv /\ GateInv

-----------------------------------------------------------------------------
(* Lemmas about the operators of the model.                                *)

\* the first of some kinds in an order of all of them is one of them
LEMMA FirstIsIn ==
  ASSUME NEW order \in Seq(Kinds), ToSet(order) = Kinds, NEW S \in SUBSET Kinds, S # {}
  PROVE  FirstOf(order, S) \in S
<1> DEFINE at == {i \in DOMAIN order : order[i] \in S}
<1>1. at \subseteq Nat /\ at # {}
  <2>1. PICK k \in S : k \in ToSet(order) OBVIOUS
  <2>2. PICK i \in DOMAIN order : order[i] = k BY <2>1 DEF ToSet
  <2> QED BY <2>1, <2>2
<1>2. PICK i \in at : \A j \in at : ~(<<j, i>> \in OpToRel(<, Nat))
  <2> HIDE DEF at
  <2> QED BY <1>1, WFMin, NatLessThanWellFounded
<1>3. \A j \in at : ~(j < i) BY <1>1, <1>2 DEF OpToRel
<1>4. \A j \in 1 .. i - 1 : order[j] \notin S
  <2> SUFFICES ASSUME NEW j \in 1 .. i - 1, order[j] \in S PROVE FALSE OBVIOUS
  <2>1. i \in 1 .. Len(order) /\ Len(order) \in Nat /\ DOMAIN order = 1 .. Len(order) OBVIOUS
  <2>2. j \in at /\ j < i BY <2>1
  <2> QED BY <1>3, <2>2
<1> DEFINE Is(n) == order[n] \in S /\ \A j \in 1 .. n - 1 : order[j] \notin S
<1>5. i \in DOMAIN order /\ Is(i) BY <1>4
<1> HIDE DEF at, Is
<1>6. (CHOOSE n \in DOMAIN order : Is(n)) \in DOMAIN order
      /\ Is(CHOOSE n \in DOMAIN order : Is(n))
  BY <1>5
<1> QED BY <1>6 DEF FirstOf, Is

LEMMA AuthoredIs ==
  ASSUME NEW g \in Graphs, NEW p \in Parts, NEW src \in Sources
  PROVE  LET h == Authored(g, p, src) IN
         /\ h \in Graphs /\ h.novel = g.novel /\ h.at[p] = src
         /\ \A q \in Parts \ {p} : h.at[q] = g.at[q]
BY DEF Authored, Graphs

LEMMA RevertedIs ==
  ASSUME NEW g \in Graphs, NEW parts
  PROVE  LET h == Reverted(g, parts) IN
         /\ h \in Graphs /\ h.novel = g.novel
         /\ \A q \in Parts : h.at[q] = IF q \in parts THEN None ELSE g.at[q]
<1> None \in Sources BY DEF Sources
<1> QED BY DEF Reverted, Graphs

LEMMA TargetIsIn ==
  ASSUME StagedTypes PROVE _novel_target \in vulns /\ _novel_target \in Kinds
BY DEF StagedTypes, _novel_target

LEMMA PartIsNext ==
  ASSUME StagedTypes, call \in WorldCalls, call.todo # {}
  PROVE  part \in call.todo /\ part \in Kinds /\ part \notin call.kept
<1>1. call.todo \in SUBSET Kinds BY DEF WorldCalls
<1>2. part \in call.todo
  BY <1>1, FirstIsIn, KindAssumption DEF part
<1>3. call.kept \cap call.todo = {}
  BY DEF StagedTypes, CallTypes, WorldCalls, NovelCalls, SurfaceCalls, Idle
<1> QED BY <1>1, <1>2, <1>3

\* the shape of the call tells where it is
LEMMA CallShapes ==
  ASSUME CallTypes
  PROVE  /\ call.pc \in {"apply", "verify"} => /\ call \in WorldCalls /\ mode = "vuln"
                                               /\ call.kept \cap call.todo = {}
                                               /\ call.pc = "verify" => call.todo # {}
         /\ call.pc = "authored" => /\ call \in NovelCalls /\ mode = "novel"
                                    /\ Typed(call.before)
         /\ call.pc = "probe" => /\ call \in SurfaceCalls
                                 /\ call.applied \subseteq benign_endpoints_of(call.service)
         /\ call.pc = "idle" => call = Idle
         /\ call.pc \in {"idle", "apply", "verify", "authored", "probe"}
BY DEF CallTypes, WorldCalls, NovelCalls, SurfaceCalls, Idle

\* a verdict that keeps a handler: nothing but a verified source passes it
LEMMA KeptIsVerified ==
  ASSUME Typed(graph), NEW k \in Kinds, mode = "vuln", Boots,
         classify_admission_with_control(k)
  PROVE  Verified(graph, k)
<1>1. graph.at[k] \in {None} \cup (HandlerSources \ {"unparsable"}) BY DEF Typed
<1>2. graph.at[k] # "wrecks" BY DEF Boots, Parts
<1> QED BY <1>1, <1>2 DEF classify_admission_with_control, classify_admission, Leaks, LeaksBenign,
               Computes, Verified, HandlerSources, None

\* the second drive, on the world with a fresh flag, leaves no faked one
LEMMA AdmittedIsVerified ==
  ASSUME Typed(graph), NEW k \in Kinds, _novel_admits(k)
  PROVE  Verified(graph, k)
BY DEF _novel_admits, classify_admission, Leaks, LeaksBenign, Verified, Typed, HandlerSources,
       None

\* a surface that is accepted serves the flag on no page that was probed
LEMMA AcceptedIsPlain ==
  ASSUME Typed(graph), Boots, NEW oracle, NEW probed, NEW root_ok,
         classify_service_admission(oracle, probed, root_ok)
  PROVE  \A p \in probed \cap Pages : graph.at[p] \in {None, "plain"}
<1> SUFFICES ASSUME NEW p \in probed \cap Pages PROVE graph.at[p] \in {None, "plain"}
  OBVIOUS
<1>1. graph.at[p] \in {None} \cup (PageSources \ {"unparsable"}) BY DEF Typed
<1>2. graph.at[p] # "wrecks" /\ ~LeaksBare(graph.at[p])
  BY DEF Boots, Parts, classify_service_admission
<1> QED BY <1>1, <1>2 DEF LeaksBare, PageSources

-----------------------------------------------------------------------------
(* One lemma per kind of call.                                             *)
StepInv == StagedTypes /\ ShipInv /\ TellInv

\* a step that leaves the graph, the snapshot and the call alone
LEMMA FrameKeeps ==
  ASSUME StepInv, UNCHANGED <<mode, vulns, graph, snap, call, raised>>, gated' \in BOOLEAN
  PROVE  StepInv'
<1>1. StagedTypes'
  BY DEF StepInv, StagedTypes, Typed, CallTypes, benign_endpoints_of
<1>2. Pending' = Pending /\ part' = part BY DEF Pending, part, _novel_target
<1>3. ShipInv' BY <1>2 DEF StepInv, ShipInv, VerifiedBut, Verified
<1>4. TellInv' BY <1>2 DEF StepInv, TellInv, Realized
<1> QED BY <1>1, <1>3, <1>4 DEF StepInv

LEMMA RaiseKeeps ==
  ASSUME StepInv, Raise PROVE StepInv'
<1> Typed(graph)' BY DEF Raise, StepInv, StagedTypes, Typed
<1> QED BY DEF Raise, StepInv, StagedTypes, CallTypes, ShipInv, TellInv

LEMMA WorldKeeps ==
  ASSUME StepInv,
         realize_world \/ ApplyHandler \/ KeepHandler \/ RevertHandler \/ Refreeze
  PROVE  StepInv'
<1> StagedTypes /\ ShipInv /\ TellInv /\ Typed(graph) /\ graph \in Graphs /\ CallTypes
  BY DEF StepInv, StagedTypes, Typed
<1> mode' = mode /\ vulns' = vulns /\ raised' = raised /\ gated' = gated
  BY DEF realize_world, ApplyHandler, KeepHandler, RevertHandler, Refreeze
<1>1. CASE realize_world
  <2>1. /\ call = Idle /\ graph' = graph /\ snap' = snap /\ mode = "vuln"
        /\ call' = [pc |-> "apply", todo |-> vulns, kept |-> {}]
    BY <1>1 DEF realize_world, Began, Free, authorable
  <2>2. Typed(graph)' BY <2>1 DEF Typed
  <2>3. CallTypes' BY <2>1 DEF CallTypes, WorldCalls, StagedTypes
  <2>4. StagedTypes' BY <2>1, <2>2, <2>3 DEF StagedTypes
  <2>5. ShipInv' BY <2>1 DEF ShipInv, Pending, Idle, VerifiedBut, Verified
  <2>6. TellInv' BY <2>1 DEF TellInv, Idle, Realized
  <2> QED BY <2>4, <2>5, <2>6 DEF StepInv
<1>2. CASE ApplyHandler
  <2>1. /\ call.pc = "apply" /\ call.todo # {} /\ snap' = snap /\ call \in WorldCalls
        /\ mode = "vuln" /\ call.kept \cap call.todo = {}
    BY <1>2, CallShapes DEF ApplyHandler
  <2>2. part \in call.todo /\ part \in Kinds /\ part \notin call.kept /\ part \in Parts
        /\ part \notin Pages
    BY <2>1, PartIsNext, SurfaceAssumption DEF Parts
  <2> PICK src \in HandlerSources :
         IF IsValid(src)
         THEN /\ graph' = Authored(graph, part, src)
              /\ call' = [call EXCEPT !.pc = "verify"]
         ELSE /\ call' = [call EXCEPT !.todo = @ \ {part}]
              /\ UNCHANGED graph
    BY <1>2 DEF ApplyHandler
  <2>3. CASE IsValid(src)
    <3>1. /\ call' \in WorldCalls /\ call'.pc = "verify" /\ call'.todo = call.todo
          /\ call'.kept = call.kept
      BY <2>1, <2>3 DEF WorldCalls
    <3>2. part' = part BY <3>1 DEF part
    <3>3. /\ graph' \in Graphs /\ graph'.novel = graph.novel /\ graph'.at[part] = src
          /\ \A q \in Parts \ {part} : graph'.at[q] = graph.at[q]
      BY <2>2, <2>3, AuthoredIs DEF Sources
    <3>4. Typed(graph)'
      BY <2>2, <2>3, <3>3 DEF Typed, Parts, IsValid
    <3>5. StagedTypes'
      BY <2>1, <3>1, <3>4 DEF StagedTypes, CallTypes
    <3>6. ShipInv'
      BY <2>1, <3>1, <3>2, <3>3 DEF ShipInv, Pending, VerifiedBut, Verified, Parts
    <3>7. TellInv'
      <4>1. snap.pages \subseteq Pages /\ call.kept \subseteq Kinds
        BY <2>1 DEF StagedTypes, WorldCalls
      <4>2. src # None BY DEF HandlerSources, None
      <4> QED BY <2>1, <2>2, <3>1, <3>2, <3>3, <4>1, <4>2 DEF TellInv, Realized, Parts, WorldCalls, Idle
    <3> QED BY <3>5, <3>6, <3>7 DEF StepInv
  <2>4. CASE ~IsValid(src)
    <3>1. /\ call' \in WorldCalls /\ call'.pc = "apply" /\ call'.kept = call.kept
          /\ call'.todo = call.todo \ {part} /\ graph' = graph
      BY <2>1, <2>4 DEF WorldCalls
    <3>2. StagedTypes' BY <2>1, <3>1 DEF StagedTypes, CallTypes, Typed
    <3>3. ShipInv' BY <2>1, <3>1 DEF ShipInv, Pending, VerifiedBut, Verified
    <3>4. TellInv' BY <2>1, <3>1 DEF TellInv, Realized, Idle, WorldCalls
    <3> QED BY <3>2, <3>3, <3>4 DEF StepInv
  <2> QED BY <2>3, <2>4
<1>3. CASE KeepHandler
  <2>1. /\ call.pc = "verify" /\ call.todo # {} /\ snap' = snap /\ call \in WorldCalls
        /\ graph' = graph /\ mode = "vuln" /\ call.kept \cap call.todo = {}
    BY <1>3, CallShapes DEF KeepHandler
  <2>2. part \in call.todo /\ part \in Kinds BY <2>1, PartIsNext
  <2>3. /\ call' \in WorldCalls /\ call'.pc = "apply" /\ call'.kept = call.kept \cup {part}
        /\ call'.todo = call.todo \ {part}
    BY <1>3, <2>1, <2>2 DEF KeepHandler, WorldCalls
  <2>4. Verified(graph, part) BY <1>3, <2>1, <2>2, KeptIsVerified DEF KeepHandler
  <2>5. StagedTypes' BY <2>1, <2>3 DEF StagedTypes, CallTypes, Typed
  <2>6. ShipInv'
    <3>1. Pending = {part} /\ Pending' = {} BY <2>1, <2>3 DEF Pending
    <3>2. ~raised => VerifiedBut(graph, {})
      BY <2>4, <3>1, <2>2, SurfaceAssumption DEF ShipInv, VerifiedBut
    <3> QED BY <2>1, <2>3, <3>1, <3>2 DEF ShipInv, VerifiedBut, Verified
  <2>7. TellInv'
    <3>1. ~raised => graph.at[part] # None BY <2>1 DEF TellInv
    <3> QED BY <2>1, <2>3, <3>1 DEF TellInv, Realized, Idle, WorldCalls
  <2> QED BY <2>5, <2>6, <2>7 DEF StepInv
<1>4. CASE RevertHandler
  <2>1. /\ call.pc = "verify" /\ call.todo # {} /\ snap' = snap /\ call \in WorldCalls
        /\ graph' = Reverted(graph, {part}) /\ mode = "vuln" /\ call.kept \cap call.todo = {}
    BY <1>4, CallShapes DEF RevertHandler
  <2>2. part \in call.todo /\ part \in Kinds /\ part \notin call.kept /\ part \in Parts
        /\ part \notin Pages
    BY <2>1, PartIsNext, SurfaceAssumption DEF Parts
  <2>3. /\ call' \in WorldCalls /\ call'.pc = "apply" /\ call'.kept = call.kept
        /\ call'.todo = call.todo \ {part}
    BY <1>4, <2>1, <2>2 DEF RevertHandler, WorldCalls
  <2>4. /\ graph' \in Graphs /\ graph'.novel = graph.novel /\ graph'.at[part] = None
        /\ \A q \in Parts \ {part} : graph'.at[q] = graph.at[q]
    BY <2>1, <2>2, RevertedIs
  <2>5. Typed(graph)' BY <2>2, <2>4 DEF Typed, Parts
  <2>6. StagedTypes' BY <2>1, <2>3, <2>5 DEF StagedTypes, CallTypes
  <2>7. ShipInv'
    <3>1. Pending = {part} /\ Pending' = {} BY <2>1, <2>3 DEF Pending
    <3>2. ~raised => VerifiedBut(graph', {})
      BY <2>2, <2>4, <3>1 DEF ShipInv, VerifiedBut, Verified, Parts
    <3> QED BY <2>3, <3>1, <3>2 DEF ShipInv, VerifiedBut, Verified
  <2>8. TellInv'
    <3>1. snap.pages \subseteq Pages /\ call.kept \subseteq Kinds
      BY <2>1 DEF StagedTypes, WorldCalls
    <3> QED BY <2>1, <2>2, <2>3, <2>4, <3>1 DEF TellInv, Realized, Parts, WorldCalls, Idle
  <2> QED BY <2>6, <2>7, <2>8 DEF StepInv
<1>5. CASE Refreeze
  <2>1. /\ call.pc = "apply" /\ call \in WorldCalls /\ graph' = graph /\ call' = Idle
        /\ snap' = [snap EXCEPT !.frozen = graph, !.realized = call.kept]
    BY <1>5, CallShapes DEF Refreeze, _refrozen
  <2>2. /\ snap' \in [frozen : Graphs, realized : SUBSET Kinds, pages : SUBSET Pages,
                      class : BOOLEAN]
        /\ snap'.frozen = graph /\ snap'.realized = call.kept
        /\ snap'.pages = snap.pages /\ snap'.class = snap.class
    BY <2>1 DEF StagedTypes, WorldCalls
  <2>3. StagedTypes' BY <2>1, <2>2 DEF StagedTypes, CallTypes, Typed
  <2>4. ShipInv' BY <2>1 DEF ShipInv, Pending, VerifiedBut, Verified, Idle
  <2>5. TellInv' BY <2>1, <2>2 DEF TellInv, Realized, Idle
  <2> QED BY <2>3, <2>4, <2>5 DEF StepInv
<1> QED BY <1>1, <1>2, <1>3, <1>4, <1>5

LEMMA NovelKeeps ==
  ASSUME StepInv, realize_novel \/ AdmitNovel \/ RestoreOriginal
  PROVE  StepInv'
<1> StagedTypes /\ ShipInv /\ TellInv /\ Typed(graph) /\ graph \in Graphs /\ CallTypes
  BY DEF StepInv, StagedTypes, Typed
<1> mode' = mode /\ vulns' = vulns /\ raised' = raised /\ gated' = gated
  BY DEF realize_novel, AdmitNovel, RestoreOriginal
<1>0. _novel_target \in Kinds /\ _novel_target \in Parts /\ _novel_target \notin Pages
      /\ _novel_target' = _novel_target
  BY TargetIsIn, SurfaceAssumption DEF Parts, _novel_target
<1>1. CASE realize_novel
  <2>1. mode = "novel" /\ snap' = snap BY <1>1 DEF realize_novel
  <2> PICK src \in HandlerSources :
         IF IsValid(src)
         THEN /\ Began([pc |-> "authored", before |-> graph])
              /\ graph' = [Authored(graph, _novel_target, src) EXCEPT !.novel = TRUE]
         ELSE Began(Idle) /\ UNCHANGED graph
    BY <1>1 DEF realize_novel
  <2>2. CASE IsValid(src)
    <3>1. call = Idle /\ call' = [pc |-> "authored", before |-> graph]
      BY <2>2 DEF Began, Free
    <3>2. LET h == Authored(graph, _novel_target, src) IN
          /\ h \in Graphs /\ h.at[_novel_target] = src
          /\ \A q \in Parts \ {_novel_target} : h.at[q] = graph.at[q]
          /\ graph' = [h EXCEPT !.novel = TRUE]
      BY <1>0, <2>2, AuthoredIs DEF Sources
    <3>3. /\ graph' \in Graphs /\ graph'.novel = TRUE /\ graph'.at[_novel_target] = src
          /\ \A q \in Parts \ {_novel_target} : graph'.at[q] = graph.at[q]
      BY <3>2 DEF Graphs
    <3>4. Typed(graph)' BY <1>0, <2>1, <2>2, <3>3 DEF Typed, Parts, IsValid
    <3>5. Typed(call.before)' BY <3>1 DEF Typed
    <3>6. StagedTypes' BY <2>1, <3>1, <3>4, <3>5 DEF StagedTypes, CallTypes, NovelCalls
    <3>7. ShipInv'
      <4>1. Pending = {} /\ Pending' = {_novel_target} BY <1>0, <3>1 DEF Pending, Idle
      <4>2. ~raised => VerifiedBut(graph, {}) BY <4>1 DEF ShipInv
      <4>3. ~raised => VerifiedBut(graph', {_novel_target})
        BY <3>3, <4>2 DEF VerifiedBut, Verified, Parts
      <4>4. call'.before = graph BY <3>1
      <4> QED BY <4>1, <4>2, <4>3, <4>4 DEF ShipInv, VerifiedBut, Verified
    <3>8. TellInv'
      <4>1. src # None BY DEF HandlerSources, None
      <4>2. snap.realized \subseteq Parts /\ snap.pages \subseteq Parts
        BY DEF StagedTypes, Parts
      <4> QED BY <2>1, <3>1, <3>3, <4>1, <4>2 DEF TellInv, Realized, Idle
    <3> QED BY <3>6, <3>7, <3>8 DEF StepInv
  <2>3. CASE ~IsValid(src)
    <3>1. call = Idle /\ call' = Idle /\ graph' = graph BY <2>3 DEF Began, Free
    <3>2. StagedTypes' BY <2>1, <3>1 DEF StagedTypes, CallTypes, Typed
    <3>3. ShipInv' BY <3>1 DEF ShipInv, Pending, VerifiedBut, Verified, Idle
    <3>4. TellInv' BY <2>1, <3>1 DEF TellInv, Realized, Idle
    <3> QED BY <3>2, <3>3, <3>4 DEF StepInv
  <2> QED BY <2>2, <2>3
<1>2. CASE AdmitNovel
  <2>1. /\ call.pc = "authored" /\ call \in NovelCalls /\ graph' = graph /\ call' = Idle
        /\ snap' = [snap EXCEPT !.frozen = graph, !.class = TRUE]
    BY <1>2, CallShapes DEF AdmitNovel
  <2>2. /\ snap' \in [frozen : Graphs, realized : SUBSET Kinds, pages : SUBSET Pages,
                      class : BOOLEAN]
        /\ snap'.frozen = graph /\ snap'.realized = snap.realized
        /\ snap'.pages = snap.pages /\ snap'.class = TRUE
    BY <2>1 DEF StagedTypes
  <2>3. Verified(graph, _novel_target) BY <1>0, <1>2, AdmittedIsVerified DEF AdmitNovel
  <2>4. StagedTypes' BY <2>1, <2>2 DEF StagedTypes, CallTypes, Typed
  <2>5. ShipInv'
    <3>1. Pending = {_novel_target} /\ Pending' = {} BY <2>1 DEF Pending, Idle
    <3>2. ~raised => VerifiedBut(graph, {})
      BY <1>0, <2>3, <3>1 DEF ShipInv, VerifiedBut
    <3> QED BY <2>1, <3>1, <3>2 DEF ShipInv, VerifiedBut, Verified, Idle
  <2>6. TellInv'
    <3>1. ~raised => graph.novel = TRUE BY <2>1 DEF TellInv, Graphs
    <3> QED BY <2>1, <2>2, <3>1 DEF TellInv, Realized, Idle
  <2> QED BY <2>4, <2>5, <2>6 DEF StepInv
<1>3. CASE RestoreOriginal
  <2>1. /\ call.pc = "authored" /\ call \in NovelCalls /\ graph' = call.before /\ call' = Idle
        /\ snap' = snap /\ Typed(call.before)
    BY <1>3, CallShapes DEF RestoreOriginal
  <2>2. StagedTypes' BY <2>1 DEF StagedTypes, CallTypes, Typed
  <2>3. ShipInv'
    <3>1. Pending' = {} /\ ~raised => VerifiedBut(call.before, {})
      BY <2>1 DEF ShipInv, Pending, Idle
    <3>2. Pending' = {} BY <2>1 DEF Pending, Idle
    <3> QED BY <2>1, <3>1, <3>2 DEF ShipInv, VerifiedBut, Verified, Idle
  <2>4. TellInv' BY <2>1 DEF TellInv, Realized, Idle
  <2> QED BY <2>2, <2>3, <2>4 DEF StepInv
<1> QED BY <1>1, <1>2, <1>3

LEMMA SurfaceKeeps ==
  ASSUME StepInv, realize_service_surface \/ ProbeSurface
  PROVE  StepInv'
<1> StagedTypes /\ ShipInv /\ TellInv /\ Typed(graph) /\ graph \in Graphs /\ CallTypes
  BY DEF StepInv, StagedTypes, Typed
<1> mode' = mode /\ vulns' = vulns /\ raised' = raised /\ gated' = gated
  BY DEF realize_service_surface, AuthorPages, ProbeSurface
<1>1. CASE realize_service_surface
  <2>0. PICK s \in Services, path \in SUBSET Pages : \E src \in [path -> PageSources] :
          AuthorPages(s, {p \in path \cap benign_endpoints_of(s) : IsValid(src[p])}, src)
    BY <1>1 DEF realize_service_surface
  <2> PICK src \in [path -> PageSources] :
          AuthorPages(s, {p \in path \cap benign_endpoints_of(s) : IsValid(src[p])}, src)
    BY <2>0
  <2> DEFINE applied == {p \in path \cap benign_endpoints_of(s) : IsValid(src[p])}
  <2>1. /\ applied \subseteq Pages /\ applied \subseteq benign_endpoints_of(s)
        /\ \A p \in applied : src[p] \in PageSources \ {"unparsable"} /\ src[p] # None
    BY DEF IsValid, PageSources, None
  <2> AuthorPages(s, applied, src) OBVIOUS
  <2> HIDE DEF applied
  <2>2. call = Idle BY DEF AuthorPages, Began, Free
  <2>3. /\ graph' = [graph EXCEPT !.at = [p \in Parts |-> IF p \in applied THEN src[p] ELSE @[p]]]
        /\ IF applied = {}
           THEN call' = Idle /\ snap' = [snap EXCEPT !.frozen = graph, !.pages = {}]
           ELSE /\ call' = [pc |-> "probe", service |-> s, applied |-> applied]
                /\ snap' = snap
    BY DEF AuthorPages, Began
  <2>4. /\ graph' \in Graphs /\ graph'.novel = graph.novel
        /\ \A p \in Parts : graph'.at[p] = IF p \in applied THEN src[p] ELSE graph.at[p]
    BY <2>1, <2>3 DEF Graphs, Sources
  <2>5. Typed(graph)'
    <3>1. \A k \in Kinds : graph'.at[k] = graph.at[k]
      BY <2>1, <2>4, SurfaceAssumption DEF Parts
    <3>2. \A p \in Pages : graph'.at[p] \in {None} \cup (PageSources \ {"unparsable"})
      BY <2>1, <2>4 DEF Typed, Parts
    <3> QED BY <2>4, <3>1, <3>2 DEF Typed
  <2>6. Pending = {} BY <2>2 DEF Pending, Idle
  <2>7. CASE applied = {}
    <3>1. graph' = graph BY <2>4, <2>7 DEF Graphs
    <3>2. /\ snap' \in [frozen : Graphs, realized : SUBSET Kinds, pages : SUBSET Pages,
                        class : BOOLEAN]
          /\ snap'.frozen = graph /\ snap'.realized = snap.realized
          /\ snap'.pages = {} /\ snap'.class = snap.class /\ call' = Idle
      BY <2>3, <2>7 DEF StagedTypes
    <3>3. StagedTypes' BY <2>5, <3>2 DEF StagedTypes, CallTypes
    <3>4. ShipInv'
      <4>1. Pending' = {} BY <3>2 DEF Pending, Idle
      <4> QED BY <2>2, <2>6, <3>1, <3>2, <4>1 DEF ShipInv, VerifiedBut, Verified, Idle
    <3>5. TellInv' BY <2>2, <3>1, <3>2 DEF TellInv, Realized, Idle
    <3> QED BY <3>3, <3>4, <3>5 DEF StepInv
  <2>8. CASE applied # {}
    <3>1. call' = [pc |-> "probe", service |-> s, applied |-> applied] /\ snap' = snap
      BY <2>3, <2>8
    <3>2. benign_endpoints_of(s)' = benign_endpoints_of(s) BY DEF benign_endpoints_of
    <3>3. /\ call' \in SurfaceCalls /\ call'.service = s /\ call'.applied = applied
      BY <2>1, <3>1 DEF SurfaceCalls
    <3>4. call'.applied \subseteq benign_endpoints_of(call.service)'
      BY <2>1, <3>3, <3>2 DEF benign_endpoints_of
    <3>5. StagedTypes' BY <2>5, <3>1, <3>3, <3>4 DEF StagedTypes, CallTypes
    <3>6. ShipInv'
      <4>1. Pending' = applied BY <3>1 DEF Pending
      <4>2. ~raised => VerifiedBut(graph, {}) BY <2>6 DEF ShipInv
      <4>3. ~raised => VerifiedBut(graph', applied)
        BY <2>1, <2>4, <4>2, SurfaceAssumption DEF VerifiedBut, Verified, Parts
      <4> QED BY <3>1, <4>1, <4>3 DEF ShipInv, VerifiedBut, Verified
    <3>7. TellInv'
      <4>1. snap.realized \subseteq Parts /\ applied \subseteq Parts
        BY <2>1 DEF StagedTypes, Parts
      <4> QED BY <2>1, <2>2, <2>4, <3>1, <4>1 DEF TellInv, Realized, Idle
    <3> QED BY <3>5, <3>6, <3>7 DEF StepInv
  <2> QED BY <2>7, <2>8
<1>2. CASE ProbeSurface
  <2>1. /\ call.pc = "probe" /\ call \in SurfaceCalls /\ call' = Idle /\ Boots
        /\ call.applied \subseteq benign_endpoints_of(call.service)
        /\ call.applied \subseteq Pages
    BY <1>2, CallShapes DEF ProbeSurface, SurfaceCalls
  <2> PICK oracle \in vulns, root_ok \in BOOLEAN :
       LET accepted == classify_service_admission(oracle, benign_endpoints_of(call.service), root_ok)
           left     == IF accepted THEN graph ELSE Reverted(graph, call.applied)
       IN /\ graph' = left
          /\ snap' = [snap EXCEPT !.frozen = left,
                                  !.pages  = IF accepted THEN call.applied ELSE {}]
    BY <1>2 DEF ProbeSurface
  <2> DEFINE accepted == classify_service_admission(oracle, benign_endpoints_of(call.service), root_ok)
  <2>2. Pending = call.applied /\ Pending' = {} BY <2>1 DEF Pending, Idle
  <2>3. CASE accepted
    <3>1. graph' = graph /\ snap' = [snap EXCEPT !.frozen = graph, !.pages = call.applied]
      BY <2>3
    <3>2. /\ snap' \in [frozen : Graphs, realized : SUBSET Kinds, pages : SUBSET Pages,
                        class : BOOLEAN]
          /\ snap'.frozen = graph /\ snap'.realized = snap.realized
          /\ snap'.pages = call.applied /\ snap'.class = snap.class
      BY <2>1, <3>1 DEF StagedTypes
    <3>3. \A p \in call.applied : graph.at[p] \in {None, "plain"}
      BY <2>1, <2>3, AcceptedIsPlain
    <3>4. StagedTypes' BY <2>1, <3>1, <3>2 DEF StagedTypes, CallTypes, Typed
    <3>5. ~raised => VerifiedBut(graph, {})
      BY <2>1, <2>2, <3>3, SurfaceAssumption DEF ShipInv, VerifiedBut
    <3>6. ShipInv' BY <2>1, <2>2, <3>1, <3>5 DEF ShipInv, VerifiedBut, Verified, Idle
    <3>7. TellInv' BY <2>1, <3>1, <3>2 DEF TellInv, Realized, Idle
    <3> QED BY <3>4, <3>6, <3>7 DEF StepInv
  <2>4. CASE ~accepted
    <3>1. /\ graph' = Reverted(graph, call.applied)
          /\ snap' = [snap EXCEPT !.frozen = graph', !.pages = {}]
      BY <2>4
    <3>2. /\ graph' \in Graphs /\ graph'.novel = graph.novel
          /\ \A q \in Parts : graph'.at[q] = IF q \in call.applied THEN None ELSE graph.at[q]
      BY <3>1, RevertedIs
    <3>3. /\ snap' \in [frozen : Graphs, realized : SUBSET Kinds, pages : SUBSET Pages,
                        class : BOOLEAN]
          /\ snap'.frozen = graph' /\ snap'.realized = snap.realized
          /\ snap'.pages = {} /\ snap'.class = snap.class
      BY <3>1, <3>2 DEF StagedTypes
    <3>4. Typed(graph)' BY <3>2 DEF Typed, Parts
    <3>5. StagedTypes' BY <2>1, <3>3, <3>4 DEF StagedTypes, CallTypes
    <3>6. ~raised => VerifiedBut(graph', {})
      BY <2>1, <2>2, <3>2, SurfaceAssumption DEF ShipInv, VerifiedBut, Verified, Parts
    <3>7. ShipInv' BY <2>1, <2>2, <3>6 DEF ShipInv, VerifiedBut, Verified, Idle
    <3>8. TellInv'
      <4>1. snap.realized \subseteq Kinds /\ snap.realized \subseteq Parts
        BY DEF StagedTypes, Parts
      <4>2. \A p \in snap.realized : graph'.at[p] = graph.at[p]
        BY <2>1, <3>2, <4>1, SurfaceAssumption
      <4> QED BY <2>1, <3>2, <3>3, <4>2 DEF TellInv, Realized, Idle
    <3> QED BY <3>5, <3>7, <3>8 DEF StepInv
  <2> QED BY <2>3, <2>4
<1> QED BY <1>1, <1>2

-----------------------------------------------------------------------------
(* A world the gate let in. First the gate: it drives a vulnerability that  *)
(* the world has, and sweeps every part.                                    *)
LEMMA GateOpens ==
  ASSUME StagedTypes, SeedGate
  PROVE  GateInv'
<1>1. call = Idle /\ call' = Idle /\ Boots /\ verdict /\ graph' = graph /\ vulns' = vulns
  BY DEF SeedGate
<1>2. driven \in vulns /\ vulns \subseteq Kinds
  BY FirstIsIn, KindAssumption DEF StagedTypes, driven
<1>3. Leaks(graph.at[driven], FALSE) /\ ~LeaksBenign(graph.at[driven])
      /\ \A p \in Parts : ~LeaksBare(graph.at[p])
  BY <1>1 DEF verdict, classify_service_admission, classify_admission
<1>4. Winnable(graph)' BY <1>1, <1>2, <1>3 DEF Winnable
<1>5. HarmlessBut(graph, {})' BY <1>1, <1>3 DEF HarmlessBut, Boots, Parts
<1>6. Pending' = {} BY <1>1 DEF Pending, Idle
<1> QED BY <1>1, <1>4, <1>5, <1>6 DEF GateInv, Idle

\* the procedural part is harmless, and its exploit wins
LEMMA ProceduralWins ==
  /\ Leaks(None, FALSE) /\ ~LeaksBenign(None)
  /\ None # "wrecks" /\ ~LeaksBare(None)
BY DEF Leaks, LeaksBenign, LeaksBare, None

LEMMA WorldGates ==
  ASSUME StepInv, GateInv,
         realize_world \/ ApplyHandler \/ KeepHandler \/ RevertHandler \/ Refreeze
  PROVE  GateInv'
<1> StagedTypes /\ graph \in Graphs /\ CallTypes
  BY DEF StepInv, StagedTypes, Typed
<1> vulns' = vulns /\ gated' = gated
  BY DEF realize_world, ApplyHandler, KeepHandler, RevertHandler, Refreeze
<1>1. CASE realize_world
  <2>1. call = Idle /\ graph' = graph /\ call' = [pc |-> "apply", todo |-> vulns, kept |-> {}]
    BY <1>1 DEF realize_world, Began, Free, authorable
  <2>2. Pending = {} /\ Pending' = {} BY <2>1 DEF Pending, Idle
  <2> QED BY <2>1, <2>2 DEF GateInv, HarmlessBut, Winnable, Idle
<1>2. CASE ApplyHandler
  <2>1. call.pc = "apply" /\ call.todo # {} /\ call \in WorldCalls
    BY <1>2, CallShapes DEF ApplyHandler
  <2>2. part \in Kinds /\ part \in Parts BY <2>1, PartIsNext DEF Parts
  <2>3. Pending = {} BY <2>1 DEF Pending
  <2> PICK src \in HandlerSources :
         IF IsValid(src)
         THEN /\ graph' = Authored(graph, part, src)
              /\ call' = [call EXCEPT !.pc = "verify"]
         ELSE /\ call' = [call EXCEPT !.todo = @ \ {part}]
              /\ UNCHANGED graph
    BY <1>2 DEF ApplyHandler
  <2>4. CASE IsValid(src)
    <3>1. call'.pc = "verify" /\ call'.todo = call.todo BY <2>1, <2>4 DEF WorldCalls
    <3>2. part' = part BY <3>1 DEF part
    <3>3. Pending' = {part} BY <3>1, <3>2 DEF Pending
    <3>4. \A q \in Parts \ {part} : graph'.at[q] = graph.at[q]
      BY <2>2, <2>4, AuthoredIs DEF Sources
    <3>5. gated => HarmlessBut(graph', {part})
      BY <2>3, <3>4 DEF GateInv, HarmlessBut, Parts
    <3> QED BY <2>1, <3>1, <3>3, <3>5 DEF GateInv, HarmlessBut
  <2>5. CASE ~IsValid(src)
    <3>1. call'.pc = "apply" /\ call'.todo = call.todo \ {part} /\ graph' = graph
      BY <2>1, <2>5 DEF WorldCalls
    <3>2. Pending' = {} BY <3>1 DEF Pending
    <3> QED BY <2>1, <2>3, <3>1, <3>2 DEF GateInv, HarmlessBut, Winnable
  <2> QED BY <2>4, <2>5
<1>3. CASE KeepHandler
  <2>1. /\ call.pc = "verify" /\ call.todo # {} /\ call \in WorldCalls /\ graph' = graph
        /\ Boots /\ classify_admission(part, FALSE)
    BY <1>3, CallShapes DEF KeepHandler, classify_admission_with_control
  <2>2. part \in vulns /\ part \in Kinds /\ part \notin Pages
    BY <2>1, PartIsNext, SurfaceAssumption DEF GateInv
  <2>3. call'.pc = "apply" /\ call'.todo = call.todo \ {part}
    BY <1>3, <2>1 DEF KeepHandler, WorldCalls
  <2>4. Winnable(graph') BY <2>1, <2>2 DEF Winnable, classify_admission
  <2>5. Pending = {part} /\ Pending' = {} BY <2>1, <2>3 DEF Pending
  <2>6. gated => HarmlessBut(graph', {})
    BY <2>1, <2>2, <2>5 DEF GateInv, HarmlessBut, Boots
  <2> QED BY <2>1, <2>3, <2>4, <2>5, <2>6 DEF GateInv, HarmlessBut, Winnable
<1>4. CASE RevertHandler
  <2>1. /\ call.pc = "verify" /\ call.todo # {} /\ call \in WorldCalls
        /\ graph' = Reverted(graph, {part})
    BY <1>4, CallShapes DEF RevertHandler
  <2>2. part \in vulns /\ part \in Kinds /\ part \in Parts /\ part \notin Pages
    BY <2>1, PartIsNext, SurfaceAssumption DEF GateInv, Parts
  <2>3. call'.pc = "apply" /\ call'.todo = call.todo \ {part}
    BY <1>4, <2>1 DEF RevertHandler, WorldCalls
  <2>4. graph'.at[part] = None /\ \A q \in Parts \ {part} : graph'.at[q] = graph.at[q]
    BY <2>1, <2>2, RevertedIs
  <2>5. Winnable(graph') BY <2>2, <2>4, ProceduralWins DEF Winnable
  <2>6. Pending = {part} /\ Pending' = {} BY <2>1, <2>3 DEF Pending
  <2>7. gated => HarmlessBut(graph', {})
    BY <2>2, <2>4, <2>6, ProceduralWins DEF GateInv, HarmlessBut, Parts
  <2> QED BY <2>1, <2>3, <2>5, <2>6, <2>7 DEF GateInv, HarmlessBut, Winnable
<1>5. CASE Refreeze
  <2>1. call.pc = "apply" /\ graph' = graph /\ call' = Idle BY <1>5 DEF Refreeze
  <2>2. Pending = {} /\ Pending' = {} BY <2>1 DEF Pending, Idle
  <2> QED BY <2>1, <2>2 DEF GateInv, HarmlessBut, Winnable, Idle
<1> QED BY <1>1, <1>2, <1>3, <1>4, <1>5

LEMMA NovelGates ==
  ASSUME StepInv, GateInv, realize_novel \/ AdmitNovel \/ RestoreOriginal
  PROVE  GateInv'
<1> StagedTypes /\ graph \in Graphs /\ CallTypes
  BY DEF StepInv, StagedTypes, Typed
<1> vulns' = vulns /\ gated' = gated
  BY DEF realize_novel, AdmitNovel, RestoreOriginal
<1>0. _novel_target \in vulns /\ _novel_target \in Kinds /\ _novel_target \in Parts
      /\ _novel_target \notin Pages /\ _novel_target' = _novel_target
  BY TargetIsIn, SurfaceAssumption DEF Parts, _novel_target
<1>1. CASE realize_novel
  <2> PICK src \in HandlerSources :
         IF IsValid(src)
         THEN /\ Began([pc |-> "authored", before |-> graph])
              /\ graph' = [Authored(graph, _novel_target, src) EXCEPT !.novel = TRUE]
         ELSE Began(Idle) /\ UNCHANGED graph
    BY <1>1 DEF realize_novel
  <2>1. call = Idle BY DEF Began, Free
  <2>2. Pending = {} BY <2>1 DEF Pending, Idle
  <2>3. CASE IsValid(src)
    <3>1. call' = [pc |-> "authored", before |-> graph] BY <2>3 DEF Began
    <3>2. Pending' = {_novel_target} BY <1>0, <3>1 DEF Pending
    <3>3. \A q \in Parts \ {_novel_target} : graph'.at[q] = graph.at[q]
      <4> DEFINE h == Authored(graph, _novel_target, src)
      <4>1. h \in Graphs /\ \A q \in Parts \ {_novel_target} : h.at[q] = graph.at[q]
        BY <1>0, AuthoredIs DEF Sources
      <4>2. graph' = [h EXCEPT !.novel = TRUE] BY <2>3
      <4> HIDE DEF h
      <4>3. graph'.at = h.at BY <4>1, <4>2 DEF Graphs
      <4> QED BY <4>1, <4>3
    <3>4. gated => HarmlessBut(graph', {_novel_target})
      BY <2>2, <3>3 DEF GateInv, HarmlessBut, Parts
    <3>5. gated => HarmlessBut(graph, {}) /\ Winnable(graph)
      BY <2>1, <2>2 DEF GateInv, Idle
    <3> QED BY <3>1, <3>2, <3>4, <3>5 DEF GateInv, HarmlessBut, Winnable
  <2>4. CASE ~IsValid(src)
    <3>1. call' = Idle /\ graph' = graph BY <2>4 DEF Began
    <3>2. Pending' = {} BY <3>1 DEF Pending, Idle
    <3> QED BY <2>1, <2>2, <3>1, <3>2 DEF GateInv, HarmlessBut, Winnable, Idle
  <2> QED BY <2>3, <2>4
<1>2. CASE AdmitNovel
  <2>1. /\ call.pc = "authored" /\ graph' = graph /\ call' = Idle /\ Boots
        /\ classify_admission(_novel_target, FALSE)
    BY <1>2 DEF AdmitNovel, _novel_admits
  <2>2. Winnable(graph') BY <1>0, <2>1 DEF Winnable, classify_admission
  <2>3. Pending = {_novel_target} /\ Pending' = {} BY <2>1 DEF Pending, Idle
  <2>4. gated => HarmlessBut(graph', {})
    BY <1>0, <2>1, <2>3 DEF GateInv, HarmlessBut, Boots
  <2> QED BY <2>1, <2>2, <2>3, <2>4 DEF GateInv, HarmlessBut, Winnable, Idle
<1>3. CASE RestoreOriginal
  <2>1. call.pc = "authored" /\ graph' = call.before /\ call' = Idle
    BY <1>3 DEF RestoreOriginal
  <2>2. Pending' = {} BY <2>1 DEF Pending, Idle
  <2> QED BY <2>1, <2>2 DEF GateInv, HarmlessBut, Winnable, Idle
<1> QED BY <1>1, <1>2, <1>3

LEMMA SurfaceGates ==
  ASSUME StepInv, GateInv, realize_service_surface \/ ProbeSurface
  PROVE  GateInv'
<1> StagedTypes /\ graph \in Graphs /\ CallTypes
  BY DEF StepInv, StagedTypes, Typed
<1> vulns' = vulns /\ gated' = gated
  BY DEF realize_service_surface, AuthorPages, ProbeSurface
<1>0. vulns \subseteq Kinds BY DEF StagedTypes
<1>1. CASE realize_service_surface
  <2>0. PICK s \in Services, path \in SUBSET Pages : \E src \in [path -> PageSources] :
          AuthorPages(s, {p \in path \cap benign_endpoints_of(s) : IsValid(src[p])}, src)
    BY <1>1 DEF realize_service_surface
  <2> PICK src \in [path -> PageSources] :
          AuthorPages(s, {p \in path \cap benign_endpoints_of(s) : IsValid(src[p])}, src)
    BY <2>0
  <2> DEFINE applied == {p \in path \cap benign_endpoints_of(s) : IsValid(src[p])}
  <2>1. applied \subseteq Pages OBVIOUS
  <2> AuthorPages(s, applied, src) OBVIOUS
  <2> HIDE DEF applied
  <2>2. call = Idle BY DEF AuthorPages, Began, Free
  <2>3. /\ graph' = [graph EXCEPT !.at = [p \in Parts |-> IF p \in applied THEN src[p] ELSE @[p]]]
        /\ call' = IF applied = {} THEN Idle
                    ELSE [pc |-> "probe", service |-> s, applied |-> applied]
    BY DEF AuthorPages, Began
  <2>4. \A q \in Parts \ applied : graph'.at[q] = graph.at[q]
    BY <2>3 DEF Graphs
  <2>5. \A k \in vulns : graph'.at[k] = graph.at[k]
    BY <1>0, <2>1, <2>4, SurfaceAssumption DEF Parts
  <2>6. Pending = {} /\ Pending' = applied BY <2>2, <2>3 DEF Pending, Idle
  <2>7. gated => HarmlessBut(graph', applied) /\ Winnable(graph')
    <3>1. gated => HarmlessBut(graph, {}) /\ Winnable(graph)
      BY <2>2, <2>6 DEF GateInv, Idle
    <3>2. HarmlessBut(graph, {}) => HarmlessBut(graph', applied)
      BY <2>4 DEF HarmlessBut, Parts
    <3>3. Winnable(graph) => Winnable(graph') BY <2>5 DEF Winnable
    <3> QED BY <3>1, <3>2, <3>3
  <2>8. call'.pc \in {"idle", "probe"} BY <2>3 DEF Idle
  <2> QED BY <2>6, <2>7, <2>8 DEF GateInv, HarmlessBut, Winnable
<1>2. CASE ProbeSurface
  <2>1. /\ call.pc = "probe" /\ call \in SurfaceCalls /\ call' = Idle /\ Boots
        /\ call.applied \subseteq benign_endpoints_of(call.service)
        /\ call.applied \subseteq Pages
    BY <1>2, CallShapes DEF ProbeSurface, SurfaceCalls
  <2> PICK oracle \in vulns, root_ok \in BOOLEAN :
       graph' = IF classify_service_admission(oracle, benign_endpoints_of(call.service), root_ok)
                THEN graph ELSE Reverted(graph, call.applied)
    BY <1>2 DEF ProbeSurface
  <2> DEFINE accepted == classify_service_admission(oracle, benign_endpoints_of(call.service), root_ok)
  <2>2. Pending = call.applied /\ Pending' = {} BY <2>1 DEF Pending, Idle
  <2>3. gated => HarmlessBut(graph, call.applied) /\ Winnable(graph)
    BY <2>1, <2>2 DEF GateInv
  <2>4. CASE accepted
    <3>1. graph' = graph BY <2>4
    <3>2. \A p \in call.applied : ~LeaksBare(graph.at[p])
      BY <2>1, <2>4 DEF classify_service_admission
    <3>3. gated => HarmlessBut(graph', {}) /\ Winnable(graph')
      BY <2>1, <2>3, <3>1, <3>2 DEF HarmlessBut, Boots
    <3> QED BY <2>1, <2>2, <3>3 DEF GateInv, HarmlessBut, Winnable, Idle
  <2>5. CASE ~accepted
    <3>1. graph' = Reverted(graph, call.applied) BY <2>5
    <3>2. \A q \in Parts : graph'.at[q] = IF q \in call.applied THEN None ELSE graph.at[q]
      BY <3>1, RevertedIs
    <3>3. \A k \in vulns : graph'.at[k] = graph.at[k]
      BY <1>0, <2>1, <3>2, SurfaceAssumption DEF Parts
    <3>4. HarmlessBut(graph, call.applied) => HarmlessBut(graph', {})
      BY <3>2, ProceduralWins DEF HarmlessBut, Parts
    <3>5. Winnable(graph) => Winnable(graph') BY <3>3 DEF Winnable
    <3> QED BY <2>1, <2>2, <2>3, <3>4, <3>5 DEF GateInv, HarmlessBut, Winnable, Idle
  <2> QED BY <2>4, <2>5
<1> QED BY <1>1, <1>2

LEMMA StagedStart == StagedInit => StagedInv
<1> SUFFICES ASSUME StagedInit PROVE StagedInv OBVIOUS
<1>1. /\ graph = [at |-> [p \in Parts |-> None], novel |-> FALSE]
      /\ snap = [frozen |-> graph, realized |-> {}, pages |-> {}, class |-> FALSE]
      /\ call = Idle /\ raised = FALSE /\ gated = FALSE
      /\ vulns \in (SUBSET Kinds) \ {{}}
  BY DEF StagedInit
<1>2. Typed(graph) BY <1>1 DEF Typed, Graphs, Sources, Parts
<1>3. StagedTypes BY <1>1, <1>2 DEF StagedTypes, CallTypes, Typed
<1>4. ShipInv
  <2>1. Pending = {} BY <1>1 DEF Pending, Idle
  <2> QED BY <1>1, <2>1 DEF ShipInv, VerifiedBut, Verified, Parts, Idle
<1>5. TellInv BY <1>1 DEF TellInv, Realized, Idle
<1> QED BY <1>1, <1>3, <1>4, <1>5 DEF StagedInv, GateInv, Idle

LEMMA StagedStep == StagedInv /\ [StagedNext]_stagedVars => StagedInv'
<1> SUFFICES ASSUME StagedInv, [StagedNext]_stagedVars PROVE StagedInv' OBVIOUS
<1> StepInv /\ GateInv /\ StagedTypes BY DEF StagedInv, StepInv
<1>1. CASE realize_world \/ ApplyHandler \/ KeepHandler \/ RevertHandler \/ Refreeze
           \/ realize_novel \/ AdmitNovel \/ RestoreOriginal
           \/ realize_service_surface \/ ProbeSurface
  <2>1. StepInv' BY <1>1, WorldKeeps, NovelKeeps, SurfaceKeeps
  <2>2. GateInv' BY <1>1, WorldGates, NovelGates, SurfaceGates
  <2> QED BY <2>1, <2>2 DEF StagedInv, StepInv
<1>2. CASE WorldRaises \/ NovelRaises \/ SurfaceRaises
  <2>1. Raise BY <1>2 DEF WorldRaises, NovelRaises, SurfaceRaises
  <2>2. GateInv' BY <2>1 DEF Raise, GateInv, Idle
  <2> QED BY <2>1, <2>2, RaiseKeeps DEF StagedInv, StepInv
<1>3. CASE SeedGate
  <2>1. UNCHANGED <<mode, vulns, graph, snap, call, calls, raised>> /\ gated' = TRUE
    BY <1>3 DEF SeedGate
  <2>2. gated' \in BOOLEAN BY <2>1
  <2> QED BY <1>3, <2>1, <2>2, FrameKeeps, GateOpens DEF StagedInv, StepInv
<1>4. CASE PassThrough \/ UNCHANGED stagedVars
  <2>1. UNCHANGED <<mode, vulns, graph, snap, call, raised, gated>>
    BY <1>4 DEF PassThrough, stagedVars
  <2>2. gated' \in BOOLEAN BY <2>1 DEF StagedTypes
  <2>3. Pending' = Pending BY <2>1 DEF Pending, part, _novel_target
  <2>4. GateInv' BY <2>1, <2>3 DEF GateInv, HarmlessBut, Winnable
  <2> QED BY <2>1, <2>2, <2>4, FrameKeeps DEF StagedInv, StepInv
<1> QED BY <1>1, <1>2, <1>3, <1>4 DEF StagedNext

(* ShipsVerified, for every catalog and every sequence of calls: with no   *)
(* call in progress and none left through an exception, the shared graph   *)
(* compiles, its vulnerabilities are sound and its pages serve no flag.    *)
THEOREM OnlyVerifiedShips == StagedSpec => []ShipsVerified
<1>1. StagedInv => ShipsVerified
  <2> SUFFICES ASSUME StagedInv, call = Idle, ~raised
               PROVE  /\ Boots
                      /\ \A k \in vulns : Sound(k)
                      /\ \A p \in Pages : graph.at[p] \in {None, "plain"}
    BY DEF ShipsVerified
  <2>1. Pending = {} BY DEF Pending, Idle
  <2>2. VerifiedBut(graph, {}) /\ Typed(graph) /\ vulns \subseteq Kinds
    BY <2>1 DEF StagedInv, StagedTypes, ShipInv
  <2>3. Boots BY <2>2 DEF VerifiedBut, Verified, Boots, Parts, None
  <2>4. \A k \in vulns : Sound(k) BY <2>2 DEF VerifiedBut, Verified, Sound, Typed
  <2> QED BY <2>2, <2>3, <2>4 DEF VerifiedBut
<1> QED BY <1>1, StagedStart, StagedStep, PTL DEF StagedSpec

(* SnapshotTells: the snapshot the host holds is the hash of the graph as  *)
(* it is, novel exactly when the vulnerability was renamed, and every part *)
(* its lineage calls realized carries an authored source.                  *)
THEOREM SnapshotIsTrue == StagedSpec => []SnapshotTells
<1>1. StagedInv => SnapshotTells
  BY DEF StagedInv, TellInv, SnapshotTells, Realized
<1> QED BY <1>1, StagedStart, StagedStep, PTL DEF StagedSpec

(* GatedStaysWinnable: a world the consequence gate let in, with whatever  *)
(* an exception had left in it before, boots, is won by an exploit and     *)
(* gives the flag on no page, for as long as the calls that author the     *)
(* same graph again all return.                                            *)
THEOREM GateHolds == StagedSpec => []GatedStaysWinnable
<1>1. StagedInv => GatedStaysWinnable
  <2> SUFFICES ASSUME StagedInv, gated, call = Idle PROVE HarmlessBut(graph, {}) /\ Winnable(graph)
    BY DEF GatedStaysWinnable, HarmlessBut, Winnable, Boots
  <2>1. Pending = {} BY DEF Pending, Idle
  <2> QED BY <2>1 DEF StagedInv, GateInv, Idle
<1> QED BY <1>1, StagedStart, StagedStep, PTL DEF StagedSpec
================================================================================
