---------------------------- MODULE TrainingRound ----------------------------
(* One round of the TRL adapter: environments of a GRPO batch, each with an    *)
(* EpisodeService of its own, driven by one trainer thread, and the containers *)
(* and networks docker holds for them. EpisodeEnv gives each episode a sandbox *)
(* of its own and, for an HTTP world, a private network both are joined to.    *)
(* A docker call may fail, time out, or time out with its effect done; all of  *)
(* them are in one record, docker, and a call is the set of what it can leave. *)
(* An episode is the number of its environment's reset; the service keeps the  *)
(* world of a stopped episode warm or stops it, see EpisodeService.            *)
EXTENDS Naturals, Sequences, FiniteSets, SequencesExt

CONSTANTS
    Envs,         \* the environment slots of the batch
    MaxEpisodes,  \* bound: resets of one environment
    MaxFaults     \* bound: docker calls that fail

ASSUME EnvsAssumption == IsFiniteSet(Envs)
ASSUME BoundsAssumption == MaxEpisodes \in Nat \ {0} /\ MaxFaults \in Nat

VARIABLES
    plan,       \* what the caller asked for, and the backing it resolved to
    phase,      \* where the trainer is
    queue,      \* environments the reward function or the clean-up has yet to visit
    env,        \* the EpisodeEnv of each slot
    service,    \* its service: running episodes with their world, the warm world
    docker,     \* what docker holds, what this process tracks, the failed calls
    collected   \* the reports make_reward_func recorded, by environment

vars == <<plan, phase, queue, env, service, docker, collected>>

Episodes == 1 .. MaxEpisodes
NoEpisode == 0
Kinds == {"world", "sandbox", "network"}
Resources == [kind : Kinds, env : Envs, episode : Episodes]

Backings == {"process", "container"}
Rank(b) == IF b = "container" THEN 1 ELSE 0

(* resolve_backing: the most capable of the request, the world's minimum, and a container for a sandbox. *)
resolve_backing(requested, minimum, sandbox) ==
    IF sandbox \/ Rank(minimum) > Rank(requested) THEN "container" ELSE requested

Plans == [http : BOOLEAN, sandbox : BOOLEAN, floor : Backings, minimum : Backings,
          dockerUp : BOOLEAN, direct : BOOLEAN, backing : Backings]

-----------------------------------------------------------------------------
(* Docker. An outcome is the new record and whether the call raised.           *)

Outcome(d, raised) == [docker |-> d, raised |-> raised]

Mishap(d, r) == [d EXCEPT !.faults = @ + 1, !.mishaps = @ \cup {<<r.env, r.episode>>}]

MayFail(d) == d.faults < MaxFaults

Track(d, r) == [d EXCEPT !.tracked = @ \cup {r}]
Untrack(d, r) == [d EXCEPT !.tracked = @ \ {r}]

Made(d, r, nets) == [d EXCEPT !.exists = @ \cup {r}, !.joined = @ \cup (nets \X {r})]

Gone(d, r) == [d EXCEPT !.exists = @ \ {r},
                        !.joined = {j \in @ : r \notin {j[1], j[2]}}]

(* docker run and docker network create, checked and with a time limit. *)
Create(d, r, nets) ==
    {Outcome(Made(d, r, nets), FALSE)} \cup
    (IF MayFail(d) THEN {Outcome(Mishap(d, r), TRUE), Outcome(Mishap(Made(d, r, nets), r), TRUE)} ELSE {})

(* docker network connect, checked and with a time limit. When it did nothing the *)
(* network is still the caller's to remove, and no excuse for leaving it behind.   *)
Connect(d, net, c) ==
    {Outcome([d EXCEPT !.joined = @ \cup {<<net, c>>}], FALSE)} \cup
    (IF MayFail(d)
     THEN {Outcome([d EXCEPT !.faults = @ + 1], TRUE),
           Outcome(Mishap([d EXCEPT !.joined = @ \cup {<<net, c>>}], net), TRUE)}
     ELSE {})

(* docker network disconnect -f, its exit code ignored. *)
Disconnect(d, net, c) ==
    {Outcome([d EXCEPT !.joined = @ \ {<<net, c>>}], FALSE)} \cup
    (IF MayFail(d)
     THEN {Outcome(Mishap(d, net), FALSE), Outcome(Mishap(d, net), TRUE),
           Outcome(Mishap([d EXCEPT !.joined = @ \ {<<net, c>>}], net), TRUE)}
     ELSE {})

Busy(d, r) == \E j \in d.joined : j[1] = r

Removed(d, r) == IF Busy(d, r) THEN d ELSE Gone(d, r)

(* docker rm -f and docker network rm, the exit code ignored: a network that a   *)
(* container is joined to stays. Whatever the code, the caller then untracks it, *)
(* unless the call raised.                                                       *)
Rm(d, r) ==
    {Outcome(Untrack(Removed(d, r), r), FALSE)} \cup
    (IF MayFail(d)
     THEN {Outcome(Untrack(Mishap(d, r), r), FALSE), Outcome(Mishap(d, r), TRUE),
           Outcome(Mishap(Removed(d, r), r), TRUE)}
     ELSE {})

-----------------------------------------------------------------------------
(* EpisodeEnv's sandbox.                                                       *)

Sandbox(e, n) == [kind |-> "sandbox", env |-> e, episode |-> n]
Network(e, n) == [kind |-> "network", env |-> e, episode |-> n]
World(e, n) == [kind |-> "world", env |-> e, episode |-> n]

(* An outcome for an environment: its fields, docker, and whether it raised. *)
Result(v, d, raised) == [env |-> v, docker |-> d, raised |-> raised]

(* mutant: the network is tracked only once the target is connected. *)
JoinedNetworkUntracked(e, v, d, n, w) ==
    UNION {IF made.raised THEN {Result(v, made.docker, TRUE)}
           ELSE {Result([v EXCEPT !.network = IF joined.raised THEN @ ELSE n,
                                  !.target = IF joined.raised THEN @ ELSE w],
                        IF joined.raised THEN joined.docker ELSE Track(joined.docker, Network(e, n)),
                        joined.raised) :
                     joined \in Connect(made.docker, Network(e, n), World(e, w))} :
               made \in Create(d, Network(e, n), {})}

(* The private network of an HTTP world: create, track, connect the target. *)
JoinedNetwork(e, v, d, n, w) ==
    UNION {IF made.raised THEN {Result(v, made.docker, TRUE)}
           ELSE {Result([v EXCEPT !.network = n, !.target = IF joined.raised THEN @ ELSE w],
                        joined.docker, joined.raised) :
                     joined \in Connect(Track(made.docker, Network(e, n)), Network(e, n), World(e, w))} :
               made \in Create(d, Network(e, n), {})}

(* AgentSandbox.start: the container is named and tracked after docker run returned. *)
Started(e, v, d, n, nets) ==
    {IF made.raised THEN Result([v EXCEPT !.sandbox = NoEpisode], made.docker, TRUE)
     ELSE Result([v EXCEPT !.sandbox = n, !.surface = n], Track(made.docker, Sandbox(e, n)), FALSE) :
         made \in Create(d, Sandbox(e, n), nets)}

(* _start_sandbox for episode n in world w. *)
StartSandbox(e, v, d, n, w) ==
    IF ~plan.http THEN Started(e, v, d, n, {})
    ELSE IF plan.backing # "container" THEN {Result(v, d, TRUE)}
    ELSE UNION {IF net.raised THEN {net}
                ELSE Started(e, net.env, net.docker, n, {Network(e, n)}) :
                    net \in JoinedNetwork(e, v, d, n, w)}

(* AgentSandbox.close, when it was started. *)
CloseSandbox(e, v, d) ==
    IF v.sandbox = NoEpisode THEN {Result(v, d, FALSE)}
    ELSE {Result(IF rm.raised THEN v ELSE [v EXCEPT !.sandbox = NoEpisode], rm.docker, rm.raised) :
              rm \in Rm(d, Sandbox(e, v.sandbox))}

(* The network of an episode: disconnect the target, remove, untrack, forget. *)
DropNetwork(e, v, d) ==
    IF v.network = NoEpisode THEN {Result(v, d, FALSE)}
    ELSE UNION {IF cut.raised THEN {Result(v, cut.docker, TRUE)}
                ELSE {Result(IF rm.raised THEN v ELSE [v EXCEPT !.network = NoEpisode, !.target = NoEpisode],
                             rm.docker, rm.raised) : rm \in Rm(cut.docker, Network(e, v.network))} :
                    cut \in IF v.target = NoEpisode THEN {Outcome(d, FALSE)}
                            ELSE Disconnect(d, Network(e, v.network), World(e, v.target))}

(* mutant: nothing is torn down for an environment that counts as finalized. *)
TeardownTrustsFlag(e, v, d) ==
    IF v.finalized THEN {Result(v, d, FALSE)}
    ELSE UNION {IF c.raised THEN {c} ELSE DropNetwork(e, c.env, c.docker) : c \in CloseSandbox(e, v, d)}

(* _teardown_sandbox. *)
Teardown(e, v, d) ==
    UNION {IF c.raised THEN {c} ELSE DropNetwork(e, c.env, c.docker) : c \in CloseSandbox(e, v, d)}

-----------------------------------------------------------------------------
(* The service, as EpisodeEnv uses it.                                         *)

IdleService == [live |-> {}, warm |-> NoEpisode]

WorldsOf(s) == {p[2] : p \in s.live} \cup ({s.warm} \ {NoEpisode})

(* The world containers docker holds for environment e become those of service s. *)
Hosted(d, e, s) ==
    LET kept == {World(e, w) : w \in IF plan.backing = "container" THEN WorldsOf(s) ELSE {}}
        dropped == {r \in d.exists : r.kind = "world" /\ r.env = e} \ kept
    IN [d EXCEPT !.exists = (@ \ dropped) \cup kept, !.joined = {j \in @ : j[2] \notin dropped}]

(* start_episode: the warm world when it can be reset, else a new one. *)
Acquired(s, n) ==
    {[s EXCEPT !.live = @ \cup {<<n, w>>}, !.warm = NoEpisode] : w \in {n} \cup ({s.warm} \ {NoEpisode})}

(* start_episode when it raised: the warm world stopped, or the episode registered. *)
Unstarted(s, n) ==
    {[s EXCEPT !.warm = NoEpisode]} \cup
    (IF plan.http \/ plan.backing = "process" THEN Acquired(s, n) ELSE {})

(* stop_episode: the world is kept warm or stopped. *)
Released(s, n) ==
    LET w == (CHOOSE p \in s.live : p[1] = n)[2]
        gone == [s EXCEPT !.live = @ \ {<<n, w>>}]
    IN {gone, [gone EXCEPT !.warm = w]}

-----------------------------------------------------------------------------
FreshEnv == [handle |-> NoEpisode, surface |-> NoEpisode, finalized |-> FALSE, report |-> NoEpisode,
             turns |-> {}, sandbox |-> NoEpisode, network |-> NoEpisode, target |-> NoEpisode]

Init ==
    /\ plan \in {p \in Plans : /\ p.backing = p.floor
                               /\ p.direct => p.dockerUp /\ p.minimum = p.floor
                               /\ ~p.dockerUp => p.floor = "process"}
    /\ phase = "prepare"
    /\ queue = <<>>
    /\ env = [e \in Envs |-> FreshEnv]
    /\ service = [e \in Envs |-> IdleService]
    /\ docker = [exists |-> {}, joined |-> {}, tracked |-> {}, mishaps |-> {}, faults |-> 0]
    /\ collected = [e \in Envs |-> {}]

(* make_environment_factory: resolve the backing of the round; it refuses to     *)
(* escalate to containers with docker down. A harness that builds EpisodeEnv     *)
(* itself (direct) keeps the backing its service was given.                      *)
Prepare ==
    /\ phase = "prepare"
    /\ LET effective == resolve_backing(plan.floor, plan.minimum, plan.sandbox)
           refused == effective = "container" /\ effective # plan.floor /\ ~plan.dockerUp
       IN IF plan.direct THEN phase' = "rollout" /\ UNCHANGED plan
          ELSE /\ phase' = IF refused THEN "over" ELSE "rollout"
               /\ plan' = IF refused THEN plan ELSE [plan EXCEPT !.backing = effective]
    /\ UNCHANGED <<queue, env, service, docker, collected>>

Order == SetToSeq(Envs)

(* An exception of an environment or of the trainer itself leaves trainer.train() *)
(* and the finally clause starts to close the environments. A direct harness has *)
(* no such clause.                                                               *)
Abandon ==
    /\ phase' = IF plan.direct THEN "over" ELSE "closing"
    /\ queue' = IF plan.direct THEN <<>> ELSE Order

(* mutant: the turns of the previous episode are kept. *)
BegunKeepsTurns(v) == [v EXCEPT !.report = NoEpisode, !.finalized = FALSE]

(* The end of reset(): the fields of the new episode. *)
Begun(v) == [v EXCEPT !.turns = {}, !.report = NoEpisode, !.finalized = FALSE]

(* EpisodeEnv.reset: tear down, start the episode, start its sandbox, clear the *)
(* fields. Worlds of code are realized as processes only. start_episode may     *)
(* raise before it has a world, or with the episode registered in its service,  *)
(* which then runs under a handle the environment never got.                    *)
Reset(e) ==
    /\ phase = "rollout"
    /\ env[e].handle < MaxEpisodes
    /\ LET n == env[e].handle + 1 IN
       \E down \in Teardown(e, env[e], docker) :
          \/ /\ \/ down.raised
                \/ ~down.raised  \* unknown snapshot, or start_episode raises
             /\ env' = [env EXCEPT ![e] = down.env]
             /\ \E s \in {service[e]} \cup
                        (IF down.raised THEN {} ELSE Unstarted(service[e], n)) :
                  /\ service' = [service EXCEPT ![e] = s]
                  /\ docker' = Hosted(down.docker, e, s)
             /\ Abandon
          \/ /\ ~down.raised
             /\ plan.http \/ plan.backing = "process"
             /\ \E s \in Acquired(service[e], n) :
                LET started == [down.env EXCEPT !.handle = n]
                    hosted == Hosted(down.docker, e, s)
                    world == (CHOOSE p \in s.live : p[1] = n)[2]
                    results == IF plan.sandbox THEN StartSandbox(e, started, hosted, n, world)
                               ELSE {Result([started EXCEPT !.surface = n], hosted, FALSE)}
                IN \E up \in results :
                     /\ env' = [env EXCEPT ![e] = IF up.raised THEN up.env ELSE Begun(up.env)]
                     /\ docker' = up.docker
                     /\ service' = [service EXCEPT ![e] = s]
                     /\ IF up.raised THEN Abandon ELSE UNCHANGED <<phase, queue>>
    /\ UNCHANGED <<plan, collected>>

(* _record: the turn is kept and told to the service, which raises once the    *)
(* episode is stopped and out of its table. Before a first reset there is no    *)
(* episode to tell of; turns then are of none, and reset() clears them.         *)
Record(e) ==
    LET h == env[e].handle
        told == h = NoEpisode \/ \E p \in service[e].live : p[1] = h
    IN /\ env' = [env EXCEPT ![e].turns = @ \cup {h}]
       /\ IF told THEN UNCHANGED <<phase, queue>> ELSE Abandon

(* A tool call: what the tool raises becomes its output, its turn is recorded. *)
ToolCall(e) ==
    /\ phase = "rollout"
    /\ Record(e)
    /\ UNCHANGED <<plan, service, docker, collected>>

(* The trainer scores the batch. *)
RewardFunc ==
    /\ phase = "rollout"
    /\ phase' = "reward"
    /\ queue' = Order
    /\ UNCHANGED <<plan, env, service, docker, collected>>

Collect(e, v) == IF v.report = NoEpisode THEN collected ELSE [collected EXCEPT ![e] = @ \cup {v.report}]

(* _finalize, once: stop_episode, which may raise before it graded, the reward     *)
(* function, which may raise with the report kept and the sandbox still up, and    *)
(* the teardown. Its outcomes are the environment, its service, docker, a raise.   *)
Finalized(e) ==
    LET v == [env[e] EXCEPT !.finalized = TRUE]
        Ended(w, s, d, raised) == [env |-> w, service |-> s, docker |-> d, raised |-> raised]
    IN IF env[e].finalized \/ v.handle = NoEpisode THEN {Ended(v, service[e], docker, FALSE)}
       ELSE {Ended(v, service[e], docker, TRUE)} \cup
            UNION {LET graded == [v EXCEPT !.report = v.handle]
                       hosted == Hosted(docker, e, s)
                   IN {Ended(graded, s, hosted, TRUE)} \cup
                      {Ended(down.env, s, down.docker, down.raised) : down \in Teardown(e, graded, hosted)} :
                   s \in Released(service[e], v.handle)}

Takes(e, out) ==
    /\ env' = [env EXCEPT ![e] = out.env]
    /\ service' = [service EXCEPT ![e] = out.service]
    /\ docker' = out.docker

(* reward_func for one environment: finalize, then record its report. *)
Finalize ==
    /\ phase = "reward"
    /\ queue # <<>>
    /\ LET e == Head(queue) IN
       \E out \in Finalized(e) :
          /\ Takes(e, out)
          /\ IF out.raised THEN Abandon /\ UNCHANGED collected
             ELSE /\ collected' = Collect(e, out.env)
                  /\ queue' = Tail(queue)
                  /\ UNCHANGED phase
    /\ UNCHANGED plan

(* env_trajectory, in a harness of its own: finalize, then pair the report with    *)
(* the turns; without a report it raises.                                          *)
EnvTrajectory(e) ==
    /\ phase = "rollout" /\ plan.direct
    /\ \E out \in Finalized(e) :
          /\ Takes(e, out)
          /\ IF out.raised \/ out.env.report = NoEpisode THEN Abandon ELSE UNCHANGED <<phase, queue>>
    /\ UNCHANGED <<plan, collected>>

(* Every environment is scored; training goes on with the next step. *)
Scored ==
    /\ phase = "reward" /\ queue = <<>>
    /\ phase' = "rollout"
    /\ UNCHANGED <<plan, queue, env, service, docker, collected>>

(* trainer.train() returns, or raises on its own account. *)
TrainEnds ==
    /\ phase = "rollout"
    /\ Abandon
    /\ UNCHANGED <<plan, env, service, docker, collected>>

(* _close of one environment: its sandbox, then its service. The loop has no try. *)
CloseEnv ==
    /\ phase = "closing"
    /\ queue # <<>>
    /\ LET e == Head(queue) IN
       \E down \in Teardown(e, env[e], docker) :
         /\ env' = [env EXCEPT ![e] = down.env]
         /\ IF down.raised
            THEN /\ docker' = down.docker
                 /\ phase' = "over"
                 /\ UNCHANGED <<queue, service>>
            ELSE /\ docker' = Hosted(down.docker, e, IdleService)
                 /\ service' = [service EXCEPT ![e] = IdleService]
                 /\ queue' = Tail(queue)
                 /\ phase' = IF Tail(queue) = <<>> THEN "over" ELSE phase
    /\ UNCHANGED <<plan, collected>>

(* mutant: the sweep knows containers only. *)
SweptContainersOnly(d) ==
    LET boxes == {r \in d.tracked : r.kind = "sandbox"}
    IN [d EXCEPT !.exists = @ \ boxes, !.joined = {j \in @ : j[2] \notin boxes}, !.tracked = {}]

(* _sweep_tracked: containers first, then the networks nothing is joined to. *)
Swept(d) ==
    LET boxes == {r \in d.tracked : r.kind = "sandbox"}
        bare == [d EXCEPT !.exists = @ \ boxes, !.joined = {j \in @ : j[2] \notin boxes}]
        nets == {r \in d.tracked : r.kind = "network" /\ ~Busy(bare, r)}
    IN [bare EXCEPT !.exists = @ \ nets, !.tracked = {}]

(* The process ends. Exit handlers run in the reverse of the order they were      *)
(* registered in: the sweep of sandboxes, then the worlds of the services.        *)
Exit ==
    /\ phase = "over"
    /\ phase' = "exited"
    /\ docker' = LET s == Swept(docker) IN
                 [s EXCEPT !.exists = {r \in @ : r.kind # "world"},
                           !.joined = {j \in @ : j[2].kind # "world"}]
    /\ service' = [e \in Envs |-> IdleService]
    /\ UNCHANGED <<plan, queue, env, collected>>

Next ==
    \/ Prepare
    \/ \E e \in Envs : Reset(e) \/ ToolCall(e) \/ EnvTrajectory(e)
    \/ RewardFunc \/ Finalize \/ Scored
    \/ TrainEnds \/ CloseEnv \/ Exit

Spec == Init /\ [][Next]_vars

-----------------------------------------------------------------------------
(* The variables hold what the adapter keeps.                                  *)
TypeOK ==
    /\ plan \in Plans
    /\ phase \in {"prepare", "rollout", "reward", "closing", "over", "exited"}
    /\ queue \in Seq(Envs)
    /\ env \in [Envs -> [handle : 0 .. MaxEpisodes, surface : 0 .. MaxEpisodes, finalized : BOOLEAN,
                         report : 0 .. MaxEpisodes, turns : SUBSET (0 .. MaxEpisodes), sandbox : 0 .. MaxEpisodes,
                         network : 0 .. MaxEpisodes, target : 0 .. MaxEpisodes]]
    /\ service \in [Envs -> [live : SUBSET (Episodes \X Episodes), warm : 0 .. MaxEpisodes]]
    /\ docker.exists \subseteq Resources /\ docker.tracked \subseteq Resources
    /\ docker.joined \subseteq Resources \X Resources
    /\ docker.mishaps \subseteq Envs \X Episodes /\ docker.faults \in 0 .. MaxFaults
    /\ collected \in [Envs -> SUBSET Episodes]

Hapless(r) == <<r.env, r.episode>> \in docker.mishaps

(* A sandbox or network that docker holds is tracked for the sweep at exit, unless *)
(* a docker call about its episode failed: whatever raises between the calls of    *)
(* _start_sandbox and _teardown_sandbox, nothing is forgotten.                     *)
LostOnlyByDocker ==
    phase # "exited" => \A r \in docker.exists : r.kind = "world" \/ r \in docker.tracked \/ Hapless(r)

(* The world of a running episode shares a network with no sandbox but that        *)
(* episode's own, however often the world is reused: what an earlier agent left    *)
(* running cannot act on it. Only a failed docker call leaves one behind.          *)
SandboxesAlone ==
    \A e \in Envs : \A p \in service[e].live : \A j, k \in docker.joined :
        (j[1] = k[1] /\ j[2] = World(e, p[2]) /\ k[2].kind = "sandbox")
            => (k[2] = Sandbox(e, p[1]) \/ Hapless(k[2]))

(* The report an environment holds and the turns it recorded are of one episode,   *)
(* so env_trajectory pairs them rightly, also after a reset or a finalize that     *)
(* raised; and no episode is collected before it is graded.                        *)
TrajectoriesMatch ==
    \A e \in Envs :
        /\ env[e].report # NoEpisode => env[e].turns \subseteq {env[e].report}
        /\ \A p \in service[e].live : p[1] \notin collected[e]

(* After the exit handlers docker holds nothing of this process but what a docker  *)
(* call failed for, and the networks a world was still joined to: no container     *)
(* outlives the process, and no network that could have been removed.              *)
ExitLeavesNetworks ==
    [][phase' = "exited" =>
           \A r \in docker'.exists :
               Hapless(r) \/ \E j \in docker.joined : j[1] = r /\ j[2].kind = "world"]_vars

=============================================================================
