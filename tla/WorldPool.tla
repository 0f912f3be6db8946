----------------------------- MODULE WorldPool -----------------------------
(***************************************************************************)
(* The evolving pool of worlds (openrange/pool.py): each round of          *)
(* run_pool_curriculum selects the members to train on, by priority and    *)
(* with a floor of easy ones, runs them, re-scores every member, evolves   *)
(* the best of those that ran into new members, and evicts down to the     *)
(* maximum size.                                                           *)
(*                                                                         *)
(* A world has one task here, so a member is a world.  Worlds are numbers, *)
(* in the order of their keys (content hashes), which breaks every tie.    *)
(* Priorities are multiples of the staleness step.                         *)
(***************************************************************************)
EXTENDS Integers, FiniteSets

CONSTANTS Worlds,        \* the worlds the pack can admit
          Difficulty,    \* difficulty_fn
          Family,        \* the family of a world's task
          Seeds,         \* the members the pool starts with
          MaxSize, Groups, EvolveTop,
          MixPercent,    \* mix_floor, in percent
          MaxPriority,   \* _MAX_PRIORITY, in steps of _STALENESS_STEP
          Scores         \* what _member_priority may return, in these steps

ASSUME WorldsAssumption == Worlds \subseteq Nat /\ IsFiniteSet(Worlds) /\ Seeds \subseteq Worlds
ASSUME DifficultyAssumption == Difficulty \in [Worlds -> Nat]
ASSUME SizeAssumption == MaxSize \in Nat /\ Groups \in Nat /\ EvolveTop \in Nat
ASSUME MixAssumption == MixPercent \in 0 .. 100
ASSUME PriorityAssumption == MaxPriority \in Nat /\ Scores \subseteq 0 .. MaxPriority

VARIABLES
  members,   \* the keys of _members
  priority,  \* their priorities, 0 for a world that is no member
  chosen,    \* the members of the round in progress
  phase      \* "rows": between rounds; "run": run_round runs

poolVars == <<members, priority, chosen, phase>>

Greater(a, b) == IF a >= b THEN a ELSE b
Lesser(a, b) == IF a <= b THEN a ELSE b

(* The first n of a set, in an order.                                      *)
First(n, S, Before(_, _)) == {w \in S : Cardinality({v \in S : Before(v, w)}) < n}

Easier(v, w) == \/ Difficulty[v] < Difficulty[w]
                \/ Difficulty[v] = Difficulty[w] /\ v < w

(* Orders by the scores p: best first, and worst first for eviction.       *)
Better(p, v, w) == p[v] > p[w] \/ (p[v] = p[w] /\ v < w)
Worse(p, v, w)  == p[v] < p[w] \/ (p[v] = p[w] /\ v < w)

EasyTier(S) == First(Greater(1, Cardinality(S) \div 3), S, Easier)

(* round(mix_floor * groups): Python rounds a half to the even neighbour.  *)
RoundPercent(n) ==
  LET whole == n \div 100
      rest  == n % 100
  IN IF rest > 50 \/ (rest = 50 /\ whole % 2 = 1) THEN whole + 1 ELSE whole

-----------------------------------------------------------------------------
PoolInit ==
  /\ members = Seeds
  /\ priority = [w \in Worlds |-> IF w \in Seeds THEN MaxPriority \div 2 ELSE 0]
  /\ chosen = {} /\ phase = "rows"

(* _select: the floor from the easy tier, and the best of the rest.        *)
GroupsOf(S) == Lesser(Groups, Cardinality(S))

FloorOf(S) == Lesser(RoundPercent(MixPercent * GroupsOf(S)), Cardinality(EasyTier(S)))

\* mutant: the groups are filled by priority alone
SelectionByPriority(S, p) ==
  LET Before(v, w) == Better(p, v, w) IN First(GroupsOf(S), S, Before)

Selection(S, p) ==
  LET Before(v, w) == Better(p, v, w)
      floor == First(FloorOf(S), EasyTier(S), Before)
  IN floor \cup First(GroupsOf(S) - Cardinality(floor), S \ floor, Before)

RoundRows ==
  /\ phase = "rows" /\ phase' = "run"
  /\ chosen' = Selection(members, priority)
  /\ UNCHANGED <<members, priority>>

(* update: a member that ran gets a new score, the others age.             *)
Aged(p) == Lesser(p + 1, MaxPriority)

Rescored(ran, score) ==
  [w \in Worlds |-> CASE w \in ran               -> score[w]
                      [] w \in members \ ran     -> Aged(priority[w])
                      [] OTHER                   -> 0]

(* _grow: the best of those that ran are evolved; auto_evolve may find     *)
(* nothing, or a world that is already a member, or one of another family. *)
Parents(ran, p) ==
  LET Before(v, w) == Better(p, v, w) IN First(EvolveTop, ran, Before)

Grown(parents, child) ==
  {child[w] : w \in {v \in parents : /\ child[v] # v /\ Family[child[v]] = Family[v]
                                     /\ child[v] \notin members}}

(* _bound: the worst that is neither in the easy tier nor just grown goes, *)
(* until the size is met or nothing is left to evict.                      *)
\* mutant: the easy tier is not protected
EvictableHard(S, grown) == S \ grown

Evictable(S, grown) == S \ (EasyTier(S) \cup grown)

Evicted(S, grown, p) ==
  LET Before(v, w) == Worse(p, v, w)
  IN First(Greater(0, Cardinality(S) - MaxSize), Evictable(S, grown), Before)

Update(ran, score, child) ==
  LET rescored == Rescored(ran, score)
      grown    == Grown(Parents(ran, rescored), child)
      p        == [w \in Worlds |-> IF w \in grown THEN MaxPriority ELSE rescored[w]]
      all      == members \cup grown
      evicted  == Evicted(all, grown, p)
  IN /\ members'  = all \ evicted
     /\ priority' = [w \in Worlds |-> IF w \in evicted THEN 0 ELSE p[w]]
     /\ chosen'   = {} /\ phase' = "rows"

(* A round: run_round returns reports for some of its members.             *)
Round ==
  /\ phase = "run"
  /\ \E ran \in SUBSET chosen : \E score \in [ran -> Scores] :
       LET parents == Parents(ran, Rescored(ran, score))
       IN \E child \in [parents -> Worlds] : Update(ran, score, child)

PoolNext == RoundRows \/ Round

PoolSpec == PoolInit /\ [][PoolNext]_poolVars

-----------------------------------------------------------------------------
(* Types, and: only members have a priority, and none above the cap.       *)
PoolTypeOK ==
  /\ members \subseteq Worlds /\ chosen \subseteq members
  /\ priority \in [Worlds -> 0 .. MaxPriority]
  /\ \A w \in Worlds \ members : priority[w] = 0
  /\ phase \in {"rows", "run"}

(* Every round has its easy share, however the priorities have moved and   *)
(* whatever has been grown (pool.py: a mix floor keeps an easy tail in     *)
(* every round): the whole easy tier, or no more than half a member less   *)
(* than the floor, which rounding costs.  And no round is short of a       *)
(* member.                                                                 *)
EasyTail ==
  phase = "run" /\ members # {} =>
    /\ Cardinality(chosen) = GroupsOf(members)
    /\ \/ EasyTier(members) \subseteq chosen
       \/ 100 * Cardinality(chosen \cap EasyTier(members)) + 50 >= MixPercent * GroupsOf(members)

(* The pool never forgets how easy it can be: no round of growth and       *)
(* eviction leaves a pool whose easiest member is harder than before.      *)
EasiestKept ==
  [][members # {} => \E w \in members' : \A v \in members : Difficulty[w] <= Difficulty[v]]_poolVars

=============================================================================
