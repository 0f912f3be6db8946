# A formal model of OpenRange

OpenRange builds *worlds* for agents out of declarative graphs, admits and boots them, runs *episodes* on
them, grades the episodes, trains on them and evolves the worlds into harder ones. This directory holds TLA+
models of the parts of it where steps of several actors meet, or where a long sequence of legal steps has to
keep something true; the TLC configurations that check them on small instances; and proofs, checked by TLAPS,
of all their safety and action properties, for every value of the constants.

Read `EpisodeService.tla` first, then the invariant at the head of `EpisodeProofs.tla`. `PROJECT.json` names,
for each definition, the lines of the source it stands for.

    tlc -config EpisodeService.cfg MCEpisodeService      # a run
    tlapm EpisodeProofs.tla                              # a proof

Paths below are relative to the repository: `core/` and `dashboard/` are in `src/openrange/`, `sdk/` is
`packages/openrange-pack-sdk/src/openrange_pack_sdk/`, `trl/` is `packages/openrange-trl/src/openrange_trl/`,
`webapp/` is `packs/cyber_webapp/cyber_webapp/`.

## 1. The system

    graph IR + ontology --> pack.builder --> admit() --> Snapshot --> auto_evolve() --> harder Snapshot
                             (sampling)        |  |      |     ^           (mutation, grow)
                         LLM realization <-----'  |   store    |
                                                  v            |
         WorldPool / TRL round / rLLM / run wrapper --> EpisodeService -- reports
                        |            |                     |   \
                        |     agent sandboxes              v    `-> DashboardView -> log, state file, SSE clients
                        v     and networks        runtime of the pack (process, container, network, directory)
                agent rollouts (shells)                    ^
                                                   tick thread -> NPCs

### Components that are modelled

| component | source | state | operations | module |
|---|---|---|---|---|
| Episode service | `core/episode.py` | `_episodes`, `_warm` (an LRU of booted worlds), `_reports`, each entry's runtime, cached surface, grade, `stopped` | start, stop, check, checkpoint, restore, fork, close, exit hook | EpisodeService |
| Auto-tick, NPCs | `core/episode.py`, `sdk/_protocols.py`, `webapp/npcs/` | a thread, a stop event and NPCs for each episode; an NPC's session and broken state | the loop, tick, observe, advance, NPC steps, the two halves of a drain, stop and join | EpisodeTick |
| Runtimes of the pack SDK, webapp world | `sdk/_runtime.py`, `webapp/realize.py` | the child process, temporary and checkpoint directories, the request log and the offset into it | reset and handshake, poll_events, checkpoint, restore, reset_episode, stop | WebappRuntime, OnDemandRuntime |
| Networked backing | `webapp/realize.py` | a docker network, a container per service, the names tracked for the exit sweep | reset, restore, reset_episode, collect, stop, sweep | NetworkedWorld |
| Agent loop and rollouts | `agent.py` | each rollout's task, worker threads, shell; a semaphore; the gather | arun_agent, arun_rollouts, run_rollouts | AgentRollouts |
| TRL adapter, agent sandbox | `trl/__init__.py`, `core/sandbox.py` | environments with sandbox, network, turns, report; the tracked resources | reset, tool call, finalize, env_trajectory, close, reward function, round, exit sweep | TrainingRound |
| World pool | `pool.py` | members, their priorities, the round's choice | select, re-score, age, grow, evict | WorldPool |
| Admission, curriculum, store | `core/admit.py`, `core/curriculum.py`, `core/store.py` | the frontier snapshot and its lineage, candidates, files | admit with repairs, auto_evolve (patches, grow), save, load | Curriculum |
| Graph IR and ontology | `packages/graphschema` | none: graphs are values, but patched in place | content_hash, apply_patch, validate | GraphIR |
| Webapp builder, sampling, mutation | `webapp/builder.py`, `sampling.py`, `mutation.py`, `reseed.py`, `invariants.py`, `difficulty.py` | a graph of services, endpoints, vulnerabilities, credentials and a flag | sample, networkize, lateralize, mutate, reseed, reload | WebappGraph, WebappMutation, WebappWorld |
| LLM realization | `webapp/llm_realize.py`, `realize_admit.py`, `consequence.py`, `sdk/_generate.py` | the graph that is authored in place, the snapshot the host holds | realize_generated, realize_service_surface, verdicts, re-freezing, the pool's gate | StagedRealize |
| Dashboard event feed | `dashboard/view.py`, `events.py`, `server.py`, `runs.py` | the view's lock and counter, the bridge's buffer and queues, the event log, the state file, the tail's offset | record_event, push, subscribe, stream, close, load and tail | Dashboard |

### What is hard in them, and what makes them right

- **Episode service.** A booted world is a process or a container: expensive to boot, and left running when
  it is lost. It changes hands: episode, pool, next episode. Right means: a world serves one episode; the pool is
  bounded and holds booted worlds of the right snapshot; whatever raises, a booted world can still be
  stopped; a grade counts the work of its own episode, is given once and never revised; an episode that
  leaves the table leaves a report.
- **Auto-tick.** An NPC's step is a model call of any length; `stop_episode` waits five seconds and goes on.
  Right means: stop returns all the same, an event is drained once and for its own episode, grading sees a
  world at rest, an NPC that breaks is reported once.
- **Runtimes.** The child may be silent, talk nonsense or die, at start and later, and it writes the log the
  harness reads by offset. A networked world is half a dozen docker commands, each of which may fail or time
  out with its effect done. Right means: no event is skipped, resets return, a checkpoint is restorable as long as
  its world lives, no container escapes the sweep, a grader reads lines of its own episode.
- **Rollouts.** Cancelling a task does not stop the thread it awaits; one failure cancels siblings at any
  await. Right means: shells act only in their own live episode, and the gather settles.
- **Training round.** An episode owns a sandbox and a network that it joins to a world the service may reuse.
  An exception may leave any of them behind. Right means: only docker's own failures lose a resource, an
  earlier agent cannot reach a later episode's world, the report and the turns of a trajectory belong together.
- **World pool.** Growth, ageing and eviction work against each other over many rounds. Right means:
  every round has its easy share, the pool does not forget its easy end.
- **Admission and curriculum.** Patches are applied in place to copies of a graph snapshots refer to; a
  candidate may be rejected, refused or raise half done. Right means: the frontier is always an admitted world
  with a true lineage, its id is its content, its difficulty regime is not lost, and a crash loses no more than a file.
- **Webapp worlds.** The solution of a world is spread over nodes that five kinds of mutation rewrite. Right means:
  an admitted chain can be walked, changes only at its end, and a reseed leaves no stale copy of a secret.
- **LLM realization.** Generated code is authored in the graph the caller holds, verified by booting it, and
  taken back if it fails. Right means: what is frozen was verified, and the pool takes no unwinnable world.
- **Dashboard feed.** One log, written by threads of the run and read by another process while it grows.
  Right means: ids are unique, streams are unbroken, the tail repeats and skips nothing.

### Not modelled

| component | why |
|---|---|
| Pack and NPC registries | filled once, read afterwards |
| Run wrapper and CLI, rLLM adapter | thin callers of calls that are modelled: start, record, stop, close; `arun_agent` |
| Training records but the reward | records of a finished episode |
| LLM backends | one blocking call each to something outside the repository; callers are modelled with calls that fail or take any time |
| Dashboard page, topology, summaries | projections for display, on which no state depends |

And of components that are modelled in part: the prompts, tools and texts of agents, NPCs and realizers; the
build family, templates and payloads of the webapp pack; the draws' weights, recipes, names and decoy files;
the grading and the builders of the SWE and the trading pack (functions of a graph and a final state; their
runtime is OnDemandRuntime); EvalPool and the prompt rows; play, pause and reset of the dashboard and the
builder's artifact log; several NPCs per episode and a `restore()` beside a tick thread; the authored payloads
and the driven breach of a realized chain world; attributes of edges, roles and scalar types in the graph IR.

## 2. The modules

The proofs about a module are in a module of their own, named after it, but for three cases. EpisodeProofs is
about EpisodeService and EpisodeTick. PoolRolloutProofs is about StagedRealize, WorldPool and AgentRollouts, which is
how a world gets into a pool, stays there and is used in a round. WebappWorld has two: WebappStepProofs, the
invariant, kept by sampling and by every mutation, and WebappWorldProofs, which extends it with the values and the
walks and has the theorems. Section 4 says what they prove.

### EpisodeService (with MCEpisodeService)

The service is called from one thread and none of its methods awaits, so **a call is one step** and callers
interleave between calls. What may raise inside a call is a fault point in the constant `Faults`; an action
then has a disjunct for the state the exception leaves. A snapshot is its id, a runtime an identity, and the
content of a world the set of episodes whose work it still shows: that is all the properties tell apart.

| model | code |
|---|---|
| `episodes`, `running` | `_episodes` and the `_RunningEpisode` of each id |
| `handed` | the ids whose handle reached a caller: `start_episode` and `restore` can raise after they registered |
| `warm`, `order` | `_warm`, an `OrderedDict`, as a mapping and its key order |
| `world` | the pack's runtimes: booted or stopped, for which snapshot, with whose work, on which port |
| `displaced`, `base` | history: runtimes overwritten in their slot; what an episode inherited by a restore |
| `Acquirable`, `Acquired`, `TakeWarm`, `WorldsWith` | `_acquire_runtime`: pop the warm world, reset it or stop it and boot |
| `StartEpisode`, `StartEpisodeFails` | `start_episode`, with the failures after and before registration |
| `GradeAndStop`, `Finish`, `Publish`, `StashWarm`, `Republish` | `stop_episode`: collect, grade, stash or stop, mark, record, publish, evict; its retry |
| `CheckEpisode` | `check_episode` when there is no report yet |
| `Checkpoint`, `RestoreFrom`, `Restore`, `Fork` | the same, restore with both of its failures (inside and outside the `try`) |
| `Close`, `AtExit` | `close` and `_atexit_stop_episodes` |
| `SolverActs` | the agent works on the surface of its episode |

`CheckEpisode` repeats steps of `StopEpisode` because `check_episode` calls it. Ticking is left to
EpisodeTick. Three properties deserve a word. `BootedIsKept` says the leak of section 5 is the *only* one:
no failure of the pack or the dashboard loses a world. `NoCarryOver` ties a report to the worlds an episode
was handed. `LeavesAReport` and `GradeIsFinal` are action properties over a stop, its failures and retries.

### EpisodeTick

The tick thread of each episode (`Wake`, `TickBegins`, `BuildEnds`, `NpcActs`, `TickPolls`, `TickEnds`)
against the main thread (`StartTicking`, `MainTick`, `Observe`, `SetStop`, `Join`, `StopNpcs`, `DrainEvents`,
`CollectAndStash`), on one pooled world that the episodes use in turn, so that a tick that outlives its join
meets the next episode. An episode whose manifest asks for no auto-tick has no thread; main may tick it all the
same. A drain is two steps because `poll_events` slices the log and later moves the offset, with no lock. The NPC
is an AgentNPC: it may be broken when it starts, builds its agent on its first step that is due, may break
there, calls it for any time, and is told of when it broke (`Reports`, which compares a flag read before the
step and one read after). Agents are not the service's: `AgentRequest` writes a line of theirs at any time, also
while their episode is stopped and graded (the TRL adapter stops the episode before it tears the sandbox down,
`trl/__init__.py:280`), and in the next one, for those in `strays`, which holds the earlier episodes whose agent,
or whose request in a thread of the world, was still there when the world was reset. The dashboard may refuse a
report or an event, in the last drain too, and the stop is then called again on the entry it left.
`late` and `clash` are history; they name the two situations of its own that the code does not exclude and the
properties except. So `NoForeignEvents` says that the service and its NPCs carry no line over and nobody but a
stray does, and `NothingLeftBehind` that the last drain takes all there was when the NPCs were stopped
(`settled`); what an agent writes later is graded, and drained by nobody.

### WebappRuntime, OnDemandRuntime, NetworkedWorld, composed in WorldBackings (with MCWebappRuntime)

`WebappRuntime` is `SubprocessRuntime` with the request log of `_WebappRuntime`. The child runs beside the harness
(`Starts`, `Request`, `LogAccess`, `Dies`). A call of the harness is one step except `reset()`, which waits
for the child (`Reset`, then `Handshake` or `HandshakeTimeout`), and `restore()`, which begins with a
`reset()`. What the handshake reads is a line, a part of one at the end of the output, or nothing; a local process
must have printed its address (`Parses`, `ParseRaises`), while docker is asked for the port of a container whatever
its line was. The log is a sequence of lines, a line the number of the episode its request was made in; a request is
in flight until its line is written, which may be in the next episode. `Container` chooses the backing: the
log of a container goes with it, that of a local process stays. `seen` is history: the lines polls returned.

`OnDemandRuntime` is what the SWE and the trading pack use: the same solver directory and checkpoints, no child.
Its `restore()` empties the directory instead of booting again.

`NetworkedWorld` has a step for every docker command of a world of several services, each of which may fail,
or time out with its effect done; the public container under a new name at each boot; the names
`_world_containers` tracks before the command runs; the requests of a solver that pivots (`Pivot`), which
leave lines in several logs; and the sweep at exit, at any point. It takes a request as one step, so that a
request that is still served across `reset_episode` is left to WebappRuntime.

`WorldBackings` chooses one of the three when a world is made, as the packs' `realize()` do.

### AgentRollouts

`arun_agent` with an action for each await: the semaphore, `bind_run`, the sampler, the shell, `close`, each
a thread that goes on when its task is cancelled (`jobs`). `CancelRest` is what `asyncio.run` does when its
main task is over, `CloseService` the caller's `close()`. `sync` chooses `run_rollouts` or `arun_rollouts`. The
service is reduced to one poolable snapshot and its warm slot, with the overwriting of EpisodeService. `close` and the reward function may raise.

### TrainingRound

A GRPO round of the TRL adapter: environments with a service each, driven by one trainer thread, and what
docker holds for them. `plan` is chosen once: an HTTP or a code world, with a sandbox or not, the backing that was
asked for and the one `resolve_backing` makes of it, a trainer or a harness that drives the environments
itself. A docker call is a set of outcomes: done, failed, failed with its effect done (`Create`, `Connect`,
`Disconnect`, `Rm`). The calls compose as the methods do (`StartSandbox`, `Teardown`, `Finalized`), an exception
leaves the state of the calls before it and ends the round (`Abandon`). `CloseEnv` is the loop of the
`finally` clause, `Exit` the exit handlers in their order. `docker.mishaps` is history: the episodes for which a
docker call failed. The grader may raise before the sandbox is torn down (`Finalized`), and `start_episode` before
or after it has registered the episode (`Unstarted`).

### GraphIR, Curriculum, FrontierContract (with MCCurriculum)

`GraphIR` has a graph as two functions, of nodes and of edges, and `content_hash` (injective, and blind to
what the code leaves out of it), `apply_patch` with its order of removals, updates and additions and where it
raises half done, and `validate`. `Curriculum` is admission with its repair budget (`Build`, then `Built`, `Repair`
or `Rejected`), an evolution in a direction one of the two policies picks, which tries its candidates one after
the other, each on a clone, then grows from a stepped prior, a gate that may refuse, and a store whose write a
crash may cut. Graphs live in a `heap`, because snapshots hold them by reference. `FrontierContract` says what the
callers rely on in four lines: a first admitted world, another admitted world from this one, a restart from a
frontier there was. `walked` is history: every world that was the frontier, with its regime, which a
patch, a save or a restart could drop from the lineage (`DifficultyWalk`). `ImplementsContract` is the refinement, with the content of the frontier for its world and
`Playable` for what the pack admits.

### WebappGraph, WebappMutation, WebappWorld (with MCWebappWorld)

`WebappGraph` is what everyone reads from a webapp graph: the catalog, the pack's five invariants, feasibility,
the walk of a credential chain by what the hosts answer, the difficulty. `WebappMutation` has every mutation
(add or remove a vulnerability, swap its kind, append or remove a hop), the gate for deeper worlds, and the two
reseeds. `WebappWorld` samples a world (`SampleServices`, `PlaceOracle`, `PlaceVuln`, `Compose`, which networks
and lateralizes it), admits or redraws it, and evolves, reseeds or reloads it; each random draw is a choice,
and weights are left out. `order` is the order of the edges that decides which vulnerability an endpoint is
rendered with (`Serves`), as a relation between the edges that affect an endpoint: what a mutation keeps stays in
place, what it adds comes last (`Reordered`), and a reload sorts by id. `Solved` is independent of the pack's own
checks: it walks as a solver would.

### StagedRealize

The host's calls that let a model rewrite an admitted world. A source is the way it behaves under the probes
(faithful, leaks too easily, memorised, dead, stops the app from loading, does not parse), so that a verdict is
computed from the graph and not chosen. Each part is authored in the graph (`ApplyHandler`), verified by a boot
that may fail, kept or taken back (`KeepHandler`, `RevertHandler`), and the graph frozen (`Refreeze`). `raised`
remembers that an exception has left the graph unfrozen. `SeedGate` is the gate at the door of a pool, which is
asked once; the world can be authored again afterwards, in the pool too, for the graph is shared. `gated` is
history: the gate has admitted the world and no call has raised since. That a novel class has the name of a kind of
the catalog is left out.

### WorldPool (with MCWorldPool)

`RoundRows` is `_select`, `Round` a whole `update`: re-score, age, grow, evict, in that order. Worlds are
numbers in the order of their content hashes, which breaks ties; priorities are in steps of the staleness
step. Scores, which members report, and what `auto_evolve` returns are any values.

### Dashboard

`record_event` of each recording thread is cut where another thread or process can look: `Mint` (lock and
id), `PushEvent`, a `Put` per subscriber, `LogBegins`, `LogEnds`, `WriteTmp`, `ReplaceTmp`. The reader's view
is `Load`, `WriteTmp`, `ReaderReplace`, `Stat`, then `Poll` and `TailPush`. The log is measured in half
lines, for the reader can meet a half-written one. Clients subscribe to the bridge of the run or of the
reader, send, hang up or are ended. One that subscribes after `close()` (`late`) is told nothing and waits for good,
as in the code, where the view is closed before the server is shut down; `StreamsEnd` is about the others.

## 3. The runs

| run | properties | result | states |
|---|---|---|---|
| episode_service | TypeOK, ExclusiveRuntime, WarmPoolSound, BootedIsKept, NoCarryOver, SurfaceCurrent, GradeIsFinal, LeavesAReport | hold | 248k (by symmetry) |
| episode_service_leak | NoRuntimeLeaks | violated, finding 1 | 5 deep |
| webapp_runtime | NoEventSkipped, CheckpointsLive, EveryContainerTracked, GradesOwnLines, CallsReturn | hold | 176k |
| episode_tick | EventsOnce, NoForeignEvents, GradedAlone, NothingLeftBehind, BrokenSaidOnce, StopReturns | hold | 1.9M |
| agent_rollouts | ShellsStayHome, GatherSettles | hold | 229k |
| training_round | LostOnlyByDocker, SandboxesAlone, TrajectoriesMatch, ExitLeavesNetworks | hold | 2.5M |
| world_pool | EasyTail, EasiestKept | hold | 1.4k |
| curriculum | SnapshotIsItsHash, ImplementsContract, DifficultyWalk | hold | 174k |
| webapp_world | ChainSolvable, HopsFollowWalk, ReseedIsComplete | hold | 6.8k |
| webapp_reload | LoadedSolvable | violated, finding 2 | 7 deep |
| staged_realize | ShipsVerified, SnapshotTells, GatedStaysWinnable | hold | 54k |
| dashboard | UniqueIds, StreamUnbroken, ReaderFollowsLog, StreamsEnd | hold | 160k |

Every module states its types. A run checks them for the episode service; for most of the other modules they
are a theorem of section 4.

Bounds, and why they are enough:

- **episode_service**: three episodes, two poolable snapshots competing for `WarmCapacity` = 1, a third that
  is never pooled, two worlds to boot in all, one checkpoint, every fault. Two episodes can be live on one
  snapshot or on two, and the third takes what they left: the pool is hit, missed, overwritten and evicted,
  and a checkpoint outlives the retries of its origin. The theorems of section 4 say the same for any number
  of each, which is the better answer to "enough".
- **webapp_runtime**: two runtimes, so that one can be restored from the other's checkpoint; two requests and
  two episodes each, so that an offset, a log and a line in flight can all belong to different episodes; one
  checkpoint directory. For a networked world a public service and two internal ones, so that a loop over them
  can stop between two; two boots (a start and a restore) and three episodes.
- **episode_tick**: two episodes, the least at which a late tick, or a stray agent, finds a successor; one
  request in each log, so that a slice can be empty, whole or stale. With two there are over twenty million states; the
  theorems of section 4 hold for a log of any length.
- **agent_rollouts**: three rollouts, two at a time: one fails, one is under way, one still waits. Two turns:
  a turn that ends the rollout and one that does not. All faults.
- **training_round**: two environments, for what one leaves undone in a loop is felt by the next; two resets
  each, the least at which an old sandbox meets a new episode; two docker failures, one to leave something behind
  and one while it is cleaned up.
- **world_pool**: five worlds, keys not in the order of difficulty, ties in difficulty, two families, two
  groups, size three: growth, refused growth and eviction occur in one round. `Scores` are the ends and
  the middle.
- **curriculum**: a pack of three samples (one sound, one ill-typed, one unsolvable) and seven patches: good
  ones, an inadmissible one, an unsolvable one, one without effect, one that collides after it has removed and
  updated. One repair; evolutions as long as no more than four worlds are on record, a world with two regimes counting
  twice, so that a patched world is grown and patched again and one read from a file evolves on; two saves, so
  that a second one can be torn.
- **webapp_world**: a layout of five services, the least with room for a chain of three hops; four kinds of
  vulnerability that between them are oracle, decoy, foothold and body-shaped; two drawn; three mutations, so that
  a hop can be added, the world mutated and the hop removed; one reseed or reload in between. `webapp_reload`
  needs three services and no mutation.
- **staged_realize**: one vulnerability with a faithfulness control and one without, in opposite orders in the
  catalog and in the graph; two services, three pages, every way a source may behave; three calls, so that a
  call meets what another one that raised has left.
- **dashboard**: two recorders, one client on each bridge, a buffer of two over one event of history and two
  new ones, so that the buffer overflows.

Deadlock is not checked where the system may simply rest (nobody has to start an episode, and the bounds
stop the children, the mutations and the recorders), and is checked in AgentRollouts, where every thread must
end, and in WorldPool and Curriculum, where something always follows.

Fairness, and why the code justifies it:

- WebappRuntime: `Handshake` and `HandshakeTimeout`. The harness is in `select()` with a timeout, so it wakes
  when there is output and when the time is up. Nothing is assumed of the child.
- EpisodeTick: the steps of a `stop_episode` that has begun; its thread runs and its join has a timeout.
  Nothing of the tick thread, and an NPC may hang for good.
- AgentRollouts: steps of tasks and of worker threads. The loop runs what is ready; binding, shell and close
  have timeouts of their own, the sampler its client's. The caller closes the service.
- Dashboard: a thread in the middle of `record_event` runs on, the tail polls, `push` puts to every
  subscriber, and an SSE handler sends what is in its queue. Nobody has to record, open a view, subscribe or
  close. A client is assumed to read or to hang up; one that does neither keeps its handler.
- The other modules state none: their properties are about what must never be.

## 4. What is proved

Each theorem holds for every value of the constants: any number of episodes, runtimes, environments, rollouts,
clients, any capacity, budget or buffer, any subset of the faults, and of the bounds that keep TLC's runs small.

| module | theorem | states |
|---|---|---|
| EpisodeProofs | TypeCorrect, OneWorldOneEpisode, PoolSound | `TypeOK`, `ExclusiveRuntime`, `WarmPoolSound` |
| | WorldsAreKept | `BootedIsKept` |
| | NothingCarriedOver, SurfaceIsCurrent | `NoCarryOver`, `SurfaceCurrent` |
| | GradesAreFinal, NoneLeavesUnreported | `GradeIsFinal`, `LeavesAReport` (action properties) |
| | TickTypesHold, GradedAtRest, LogIsOfEpisode | types, `GradedAlone`, `NoForeignEvents` |
| | EventsDrainedOnce, LastDrainIsLast, BrokenIsSaid | `EventsOnce`, `NothingLeftBehind`, `BrokenSaidOnce` |
| WorldBackingsProofs | RuntimeTypes, NetworkedTypes | the types of both kinds of runtime |
| | EventsReturned, CheckpointsLast | `NoEventSkipped`, `CheckpointsLive` |
| | ContainersTracked, SweepLeavesNone | `EveryContainerTracked`; after the exit docker has none |
| | GraderReadsOwnLines | `GradesOwnLines` |
| PoolRolloutProofs | PoolTypes, RoundsStayEasy, PoolStaysEasy | types, `EasyTail`, `EasiestKept` (an action property) |
| | PermitsAccountedFor, ShellsAtHome | types with the account of the semaphore, `ShellsStayHome` |
| | OnlyVerifiedShips, SnapshotIsTrue, GateHolds | `ShipsVerified`, `SnapshotTells`, `GatedStaysWinnable` |
| TrainingRoundProofs | RoundTypes, NothingForgotten, AgentsStayApart | types, `LostOnlyByDocker`, `SandboxesAlone` |
| | ReportsHaveTheirTurns, ExitSweeps | `TrajectoriesMatch`, `ExitLeavesNetworks` (an action property) |
| CurriculumProofs | CurriculumTypes, IdIsHash, RegimeWalks | types, `SnapshotIsItsHash`, `DifficultyWalk` (an action property) |
| | KeepsContract | `ImplementsContract`: Curriculum refines FrontierContract |
| DashboardProofs | FeedTypes, IdsAreUnique | types, `UniqueIds` |
| | StreamsUnbroken, TailFollowsLog | `StreamUnbroken`, `ReaderFollowsLog` |
| WebappWorldProofs | WorldTypes, WorldChainSolvable | types, `ChainSolvable` |
| | WorldReseedIsComplete, WorldHopsFollowWalk | `ReseedIsComplete`, `HopsFollowWalk` (action properties) |

**Assumptions.** The `ASSUME`s of the modules, which TLC evaluates on every run. They say which constants are
numbers and which are at least one (`max(1, warm_capacity)`, a turn, a permit, a buffer), that `None` and its
like are not what they are told apart from, that poolable snapshots are snapshots, that the environments of a
round and the worlds of a pool are finitely many, that worlds are ordered like their keys, that the clients of
two bridges are different connections, and that the two orders of StagedRealize list the kinds of a catalog. Those
of WebappWorld are about what is drawn from: a layout has one public service, in front of two others at least
where a manifest asks for a preset (`ManifestAssumption`, `LayoutAssumption`), every service has an ordinary
endpoint (`PathAssumption`), and the kinds to place are ordinary ones of the catalog, SSRF among them
(`KindAssumption`).
`KeepsContract` has one hypothesis more, `NotesUnread`: the pack judges a graph it built and the same graph read
back from its file alike. The file has no notes (the meta and runtime fields of a node); in the webapp pack no
invariant, task generator or feasibility check reads them, `llm_realize`, `codegen` and the reference solver do.
The pack of MCCurriculum satisfies it, which TLC evaluates on its samples and on what its patches make of them.

**How.** Hardly a property is inductive as it stands: what one step may do to it depends on what others have left.
Each proofs module begins with, or builds up, the invariant it needs; every step of the model keeps it, by a lemma for
each action and lemmas for what the model's operators return; and the properties follow from it.

- *Episode service*, in three layers. `TypeInv` = `TypeOK`, plus: the entries of the table are for real snapshots
  and runtimes, and the LRU order lists the occupied slots once each, within the capacity. `Inv` adds `OwnInv`,
  who owns a runtime: a stop puts a runtime into the pool without looking at it, so one must know that the
  world under a live episode of a poolable snapshot is booted, and for that snapshot (`DrivenOK`), and that
  a warm one is too (`WarmOK`); the key lemma is `AcquirableFree`, that what `_acquire_runtime` hands out is owned by
  no live episode and no other slot. `GradeInv` adds `ServedOK` for each episode: the world of a handed, live
  episode holds its own work and what it inherited, and so do its grade and its report. A report copies a grade,
  a grade reads the world, and the world stays clean because no other episode drives it, which is the layer before.
- *Runtimes.* `EventsInv`: outside a call, the lines up to the offset have been returned; within `reset()` the
  offset may be anything. `CheckpointInv`: a runtime's checkpoints are its own directories, and are there until it
  is stopped, which is for good (`StopsOnce`). `TrackedInv`: the container a handshake waits for is tracked before
  it is there. `LinesInv`: no line is under a name before the world is open, and afterwards only under the names
  `stop()` knows, and of the episode that is played. All for `BackingsSpec`, whichever runtime was made.
- *Ticks.* `DrainFacts`: a poll that has read and not yet moved the offset is alone, and its slice begins at the
  offset. It holds while no tick has outlived its join and no two polls have met, the two exceptions the properties
  name; that nobody else polls while the main thread drains needs `RestInv`, that a joined thread has ended.
  A line an agent writes meanwhile comes after the slice; what was there when the NPCs stopped is in it (`LastSlice`).
  `BuildsAlone` is what keeps an NPC from being broken, and said, by two steps at once.
- *Rollouts.* Two facts carry `ShellsStayHome`. `ServiceOK`: the worlds of episodes that are not graded are all
  different and none is warm, also of episodes `close()` has killed, for the killed keep their number. `RolloutOK`:
  before the cancellation a rollout has the one thread it awaits; after it, a shell that still runs belongs to
  an episode that was never graded, because grading takes a turn and a cancelled rollout takes none.
- *Pool.* The first n of a finite set in a strict order are n (`FirstCounts`, from `RanksAreDistinct`: ranks are a
  bijection). So the floor takes what `RoundPercent` says, the easy tier has the easiest member, and eviction
  passes it by.
- *Training round.* `Kept` relates one environment to docker: whatever docker holds of it is tracked, or spoilt by
  a failed call; whatever is joined is of its last reset. Every outcome of every docker call keeps it, the calls
  of one environment leave the others alone, and a method is a composition of calls.
- *Curriculum.* `HeapOK` says the frontier's graph lies first in the heap and the one being patched behind
  it, so that a patch in place touches no snapshot. With it the lineage and the files (`LineageOK`, `DiskOK`) follow:
  whatever they say of a world was once true of it. An attempt carries the regime it will end with (`Stepped`),
  and each step is one of FrontierContract or stutters (`StepsOfContract`).
- *Realization.* `ShipInv` and `TellInv` say of a call in progress what will be true whether it keeps or reverts:
  all but the pending part was verified, and the graph a revert goes back to is the one the lineage describes.
  Nothing is known once a call has raised, until the gate has looked at the world. From there `GateInv` goes on: but
  for what a call has authored the graph is harmless, and an exploit wins it unless the pending part is the
  vulnerability itself, which the verdict, or the procedural part that a revert brings back, then makes sure of.
- *Webapp worlds.* The properties ask what a walk computes; the invariant says what the graph is. `WorldInv`
  has a part for each stage. Of every graph: edges fit and vulnerabilities have their one endpoint (`Structured`), an
  edge of a vulnerability is named after it (`Named`), the order is one (`Ordered`). Of a draft: ordinary kinds
  only (`Drafted`), the flag in an internal service that is not alone (`Apart`), the SSRF placed first (`Leading`).
  Of a preset's world (`Company`): a pivot at a public endpoint, and behind it the metadata of the flag's host or
  vulnerabilities `c` in a row (`Chain`): one host, one credential, one enabling edge after the other, the store of
  the flag with the last, and nothing else that enters the chain or its vaults; and their handlers are the ones
  served (`Served`). A graph is changed by lemmas on how `apply_patch` reads afterwards (`PatchIs`), and each of the
  five mutations leaves such a world (`AddIs`, `RemoveIs`, `SwapIs`, `AppendIs`, `CollapseIs`), which for a reseed
  follows from its being a map of values alone (`Revalued`). Then a solver's walk is `c` itself (`ChainWalked`). There
  is no induction in that: the walk is the function that satisfies a recursive equation, the sequence of prefixes of
  `c` satisfies it too, and two such functions agree, or they would differ at a least index (`WalkUnique`).
  The same argument gives the pack's own walk (`ChainHops`) and from it the difficulty (`DifficultyIs`);
  `Onward` says what a mutation does to `c`, so that the walks and weights before and after can be compared
  (`MoveIs`). For `ReseedIsComplete`, `ValueInv` adds that a world is admitted and how old the values in it may be,
  by node and parameter (`Borne`), so that fresh values are fresh. Both reseeds map the values of a graph, one to
  one where it matters (`Freshened`), and every check of admission reads the same before and after the map.
- *Dashboard.* `StreamUnbroken` becomes inductive with who is still being served by `push()` (`PutOK`); ids with
  whose id is minted and not yet pushed or logged (`IdsOK`); the tail with a statement of its two ends: what it
  shows is the log up to some line and from some later line on to where its offset is (`Follows`).

**Only model-checked.** Liveness: `CallsReturn`, `StopReturns`, `GatherSettles` and `StreamsEnd` need `ENABLED`,
which the prover does not support. Every other property of a run that passes is stated by a theorem. What a
recursive definition computes is out of reach in general, as the induction theorems cannot be instantiated with
these provers; the walks of WebappGraph are recursive functions over an interval, for which a least counterexample
does. The closure over enabling edges is left as it is: of a reseed one needs only that it leaves the edges alone.
The ancestors of a kind in GraphIR are recursive too; the proofs about Curriculum use of `validate` only that it
reads no notes.

## 5. Findings

Each is a run that TLC ends with a counterexample to something the repository says of itself.

1. **A booted world can be overwritten in its warm slot** (`core/episode.py:309`). Two live episodes on one
   poolable snapshot both stop; the second replaces the first in `_warm`, and nothing can stop that one
   any more. No failure is needed: `arun_rollouts` on one snapshot does it.
2. **A saved chain world may not be solvable as it was when it is loaded** (`webapp/codegen/handlers.py:37`).
   An endpoint with two vulnerabilities is rendered with the one whose edge comes first; the store writes edges
   sorted by id, and the hash ignores their order. A decoy drawn onto the public foothold then hides the SSRF.
   Executing the sampler, admission, dump and load on 577 admitted company and chain worlds showed 99 such.

Seen while modelling, without a run of their own. What a model includes of them is excepted by name in a property:

- *Episode service*: `advance()` says it ticks up to `max_ticks` times but only drains. `observe()` beside an
  auto-tick can return events twice and move the offset past the end of the log (`webapp/realize.py:81`; `clash`
  in EpisodeTick). A failing dashboard kills the tick thread; a tick that outlives its join steps NPCs that were
  stopped and rebuilds their session (`late`).
- *Runtimes*: the handshake is bounded only until the first byte, for `readline()` then waits for a newline
  (`sdk/_runtime.py:422`; excepted in `CallsReturn`). A restored world starts with an empty log and the offset of
  its checkpoint (`webapp/realize.py:139`; `NoEventSkipped` leaves it out). On the PROCESS backing `reset_episode`
  does not find out that the child has died. A request that is still served when the log is emptied is
  appended to the next episode's log (`app.py.j2:242`; `strays` in EpisodeTick). The TRL adapter stops an episode
  while its sandbox is still up, so that an agent may write after the last drain (`trl/__init__.py:280`). A container
  is taken to have started whatever its first line was. `_terminate_process_group` returns early when the leader
  has exited.
- *Networked worlds*: after a `restore()` the previous public container runs on under a name only the sweep
  knows and keeps the network's alias, and `stop()` then fails to remove a network it no longer tracks; a network
  whose creation times out with its effect done is never tracked.
- *Rollouts*: a rollout cancelled in `bind_run` leaves its shell open (`agent.py:201`): the `try` begins after
  it. `gather()` raises while siblings still queue (`agent.py:306`).
- *Training*: `make_environment_factory` with a sandbox escalates every pack to containers, which the SWE
  runtime refuses. The exit sweep runs before the worlds stop, so that a network a world is joined to stays, unlike
  the comment at `core/sandbox.py:69-72` (excepted in `ExitLeavesNetworks`). The exit codes of `docker rm` and
  `network rm` are ignored and the name untracked all the same. The reward function records a report again when it
  is called twice without a reset.
- *Store*: `save()` writes in place, so that a crash loses also the whole copy that was there.
- *World pool*: a member tied at the priority cap with others of smaller keys can wait for good (`pool.py:267`).
- *Dashboard*: a view of a live run can miss an event between its load and its tail (`view.py:145`), and both
  processes write the state file through the same temporary name, so that watching can make `record_event` raise
  (`events.py:268`). Event ids repeat when a log has more history than the 200 events of the buffer (`view.py:135`;
  `UniqueIds` says so). The builder's artifact log writes a state file without a snapshot (`events.py:183`).
- *Webapp worlds*: in a flat world, softening may remove the only vulnerability that reads the flag's store while
  another one keeps feasibility content (`families/pentest.py:64`, 33 of 400 seeds). Adding SQL injection or IDOR is
  never admitted. A hop that is appended moves the store off the old flag service, after which an
  injection there makes the world inadmissible. The request path is compared with what was logged as a public URL
  (`mutation.py:702`).
- *LLM realization*: a boot that fails, or a source that parses and does not compile, leaves `realize_*` by an
  exception with unverified code in the shared graph, and a later call that authors nothing freezes it (against
  `_generate.py:3-5`; `ShipsVerified` excepts calls that raised, `GatedStaysWinnable` only
  those after the gate). A pool holds the graph by reference: a call on a pooled world changes it under its id, and
  nothing asks the gate again. A handler that leaks on a bare GET passes the gate of `realize_*` but not that of the
  pool, which `_generate.py:23-27` calls the same, so that it can get into a pooled world.
  A novel class has no reference exploit, so that the pool's gate refuses it always.

## 6. The plan

Of the proofs, what is left is composition: that the rollouts' reduced service is what EpisodeService does to one
snapshot, and the runtime of the service as a lease (free, held by one episode, kept, gone) that EpisodeService
and AgentRollouts both implement.

Of the system, in this order: several NPCs in one episode and a `restore()` beside a tick thread; the driven
breach of a realized chain world; a request in flight across `reset_episode` in NetworkedWorld; the feasibility of
a flat world, which is read off the edges and can outlive the flag's last reader (section 5).
