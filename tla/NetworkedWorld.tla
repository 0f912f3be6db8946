--------------------------- MODULE NetworkedWorld ---------------------------
(***************************************************************************)
(* A world whose services are containers of their own on a docker network: *)
(* NetworkedContainerWebappRuntime of realize.py, what docker holds for    *)
(* it, and what the process keeps to give that back: the runtime's own     *)
(* _internal_runs and _cname, and the module's _world_containers, which    *)
(* the atexit sweep removes.                                               *)
(*                                                                         *)
(* Every docker command is a step and every one may fail; docker rm and    *)
(* the commands of the sweep are taken to do their work.  A container is   *)
(* <<service, n>>: the public service gets a new name at each boot, an     *)
(* internal one is named after the network.                                *)
(***************************************************************************)
EXTENDS Integers, FiniteSets, Sequences, SequencesExt

CONSTANTS Public,      \* the service the host can reach
          Internals,   \* the other services, in the order they are started
          MaxBoots,    \* bound: reset() and the restore() that follows it
          MaxPlays     \* bound: episodes on the world while it is warm

ASSUME InternalsAssumption ==
  /\ Internals \in Seq(ToSet(Internals)) /\ IsInjective(Internals)
  /\ Public \notin ToSet(Internals)
ASSUME BoundsAssumption == MaxBoots \in Nat \ {0} /\ MaxPlays \in Nat \ {0}

VARIABLES
  stage,       \* where the call of the service stands
  created,     \* _network_created
  cname,       \* _cname: the public container's name, or NoName
  runs,        \* _internal_runs
  tracked,     \* _world_containers
  trackedNet,  \* the network is in _world_networks
  built,       \* the images docker has, by service
  network,     \* docker has the network
  containers,  \* the containers docker has
  up,          \* those that run
  lines,       \* the episodes that have lines in a container's request log
  play         \* which of the episodes on this world is played

harnessVars == <<stage, created, cname, runs, tracked, trackedNet>>
dockerVars  == <<built, network, containers, up>>
netVars     == <<harnessVars, dockerVars, lines, play>>

Stages == {"new", "starting", "handshake", "open", "failed", "stopped", "exited"}
Names  == ({Public} \X (1 .. MaxBoots)) \cup (ToSet(Internals) \X {0})
NoName == <<Public, 0>>

NetInit ==
  /\ stage = "new" /\ created = FALSE /\ cname = NoName /\ runs = <<>>
  /\ tracked = {} /\ trackedNet = FALSE
  /\ built = {} /\ network = FALSE /\ containers = {} /\ up = {}
  /\ lines = [c \in Names |-> {}] /\ play = 1

Owned == {cname} \cup ToSet(runs)   \* what stop() will remove

-----------------------------------------------------------------------------
(* _create_network: tracked once the command has returned.  One that times *)
(* out may have made the network.                                          *)
CreateNetwork ==
  /\ stage = "new"
  /\ \/ /\ network' = TRUE /\ created' = TRUE /\ trackedNet' = TRUE
        /\ stage' = "starting"
     \/ /\ network' \in BOOLEAN /\ stage' = "failed"
        /\ UNCHANGED <<created, trackedNet>>
  /\ UNCHANGED <<cname, runs, tracked, built, containers, up, lines, play>>

(* _ensure_image: an image that is there is not built again.               *)
BuildFails(service) ==
  /\ service \notin built /\ stage' = "failed"
  /\ UNCHANGED <<created, cname, runs, tracked, trackedNet, dockerVars, lines, play>>

(* docker run -d: it may fail outright, fail or time out with the          *)
(* container made, or succeed; the service may then never answer.          *)
RunOutcomes == {"refused", "late", "unready", "ready"}

\* mutant: the name is tracked when docker run has returned
TrackedAfterRun(c, outcome) ==
  IF outcome \in {"refused", "late"} THEN tracked ELSE tracked \cup {c}

TrackedFor(c, outcome) == tracked \cup {c}

StartInternal ==
  /\ stage = "starting" /\ Len(runs) < Len(Internals)
  /\ LET service == Internals[Len(runs) + 1]
         c       == <<service, 0>>
     IN \/ BuildFails(service)
        \/ \E outcome \in RunOutcomes :
             /\ built'   = built \cup {service}
             /\ tracked' = TrackedFor(c, outcome)
             /\ containers' = containers \cup (IF outcome = "refused" THEN {} ELSE {c})
             /\ up'         = up \cup (IF outcome = "refused" THEN {} ELSE {c})
             /\ runs'  = IF outcome \in {"unready", "ready"} THEN Append(runs, c) ELSE runs
             /\ stage' = IF outcome = "ready" THEN stage ELSE "failed"
             /\ UNCHANGED <<created, cname, trackedNet, network, lines, play>>

(* subprocess_command and the spawn of docker run in the foreground.       *)
RunPublic ==
  /\ stage = "starting" /\ Len(runs) = Len(Internals)
  /\ \/ BuildFails(Public)
     \/ /\ built'   = built \cup {Public}
        /\ cname'   = <<Public, cname[2] + 1>>
        /\ tracked' = tracked \cup {cname'}
        /\ stage'   = "handshake"
        /\ UNCHANGED <<created, runs, trackedNet, network, containers, up, lines, play>>

PublicStarts ==
  /\ stage = "handshake"
  /\ containers' = containers \cup {cname} /\ up' = up \cup {cname}
  /\ UNCHANGED <<harnessVars, built, network, lines, play>>

(* The end of reset(): the container has said where it listens, or it has  *)
(* not and reset() gives up (in time, or in docker port); or the client    *)
(* ended, the container (--rm) with it, and reset() returns without a URL. *)
NetHandshake ==
  /\ stage = "handshake"
  /\ \/ stage' = "open" /\ cname \in up /\ UNCHANGED <<containers, up>>
     \/ stage' = "failed" /\ UNCHANGED <<containers, up>>
     \/ stage' = "open" /\ containers' = containers \ {cname} /\ up' = up \ {cname}
  /\ UNCHANGED <<created, cname, runs, tracked, trackedNet, built, network, lines, play>>

(* restore() resets a booted world once more: network and internals stay,  *)
(* the docker client is killed, and the container it ran goes on running.  *)
NetRestore ==
  /\ stage = "open" /\ cname[2] < MaxBoots
  /\ play = 1 /\ \A c \in Owned : lines[c] = {}
  /\ stage' = "starting"
  /\ UNCHANGED <<created, cname, runs, tracked, trackedNet, dockerVars, lines, play>>

-----------------------------------------------------------------------------
(* A request comes in at the public service and may pivot to internal ones *)
(* on the network; each service it reaches logs it.                        *)
Pivot(reached) ==
  /\ stage = "open" /\ cname \in reached
  /\ lines' = [c \in Names |-> IF c \in reached THEN lines[c] \cup {play} ELSE lines[c]]
  /\ UNCHANGED <<harnessVars, dockerVars, play>>

(* A container dies.  That of an internal service is not removed with it.  *)
ContainerDies(c) ==
  /\ stage = "handshake" => c # cname
  /\ up' = up \ {c}
  /\ containers' = IF c[1] = Public THEN containers \ {c} ELSE containers
  /\ UNCHANGED <<harnessVars, built, network, lines, play>>

(* _read_log_bytes: what collect() reads; a failed docker exec is skipped. *)
Collected == UNION {lines[c] : c \in Owned \cap up}

-----------------------------------------------------------------------------
(* reset_episode truncates one log after the other, and raises at the      *)
(* first that it cannot: the service stops the world.                      *)
\* mutant: the logs of the internal services are left
PublicLogOnly == <<cname>>

LogsToClear == <<cname>> \o runs

NetResetEpisode ==
  /\ stage = "open" /\ play < MaxPlays
  /\ \E n \in 0 .. Len(LogsToClear) :
       LET cleared == ToSet(SubSeq(LogsToClear, 1, n)) IN
       /\ cleared \subseteq up
       /\ lines' = [c \in Names |-> IF c \in cleared THEN {} ELSE lines[c]]
       /\ \/ n = Len(LogsToClear) /\ play' = play + 1 /\ UNCHANGED stage
          \/ n < Len(LogsToClear) /\ stage' = "failed" /\ UNCHANGED play
  /\ UNCHANGED <<created, cname, runs, tracked, trackedNet, dockerVars>>

(* stop(): the containers the runtime knows, then the network, which       *)
(* docker keeps while a container on it runs; the runtime forgets both.    *)
NetStop ==
  /\ stage \in {"open", "failed"} /\ stage' = "stopped"
  /\ containers' = containers \ Owned /\ up' = up \ Owned
  /\ tracked' = tracked \ Owned /\ runs' = <<>>
  /\ network' = (network /\ ~(created /\ up' = {}))
  /\ created' = FALSE /\ trackedNet' = (trackedNet /\ ~created)
  /\ UNCHANGED <<cname, built, lines, play>>

(* The process ends, wherever it is: _sweep_world_resources, and the       *)
(* images it built.  A stop() that still follows finds nothing to remove.  *)
Sweep ==
  /\ stage \notin {"new", "exited"} /\ stage' = "exited"
  /\ containers' = containers \ tracked /\ up' = up \ tracked
  /\ network' = (network /\ ~(trackedNet /\ up' = {}))
  /\ built' = {}
  /\ UNCHANGED <<created, cname, runs, tracked, trackedNet, lines, play>>

NetNext ==
  \/ CreateNetwork \/ StartInternal \/ RunPublic \/ PublicStarts \/ NetHandshake
  \/ NetRestore \/ NetResetEpisode \/ NetStop \/ Sweep
  \/ \E reached \in SUBSET (Owned \cap up) : Pivot(reached)
  \/ \E c \in up : ContainerDies(c)

NetSpec == NetInit /\ [][NetNext]_netVars

-----------------------------------------------------------------------------
(* Types, and: only what was started is owned, and runs are in order.      *)
NetTypeOK ==
  /\ stage \in Stages /\ created \in BOOLEAN /\ trackedNet \in BOOLEAN
  /\ cname \in Names \cup {NoName} /\ tracked \subseteq Names
  /\ runs = [i \in 1 .. Len(runs) |-> <<Internals[i], 0>>]
  /\ built \subseteq {Public} \cup ToSet(Internals) /\ network \in BOOLEAN
  /\ containers \subseteq Names /\ up \subseteq containers
  /\ lines \in [Names -> SUBSET (1 .. MaxPlays)] /\ play \in 1 .. MaxPlays

(* Whatever failed half way, and whatever stop() does not know of (an      *)
(* internal container whose docker run timed out, the public one of before *)
(* a restore()), the sweep knows: a container docker has is tracked, from  *)
(* before it can exist until it is removed, so that none outlives the      *)
(* process.                                                                *)
EveryContainerTracked == containers \subseteq tracked

(* The lines a grader collects are of the episode it grades: reset_episode *)
(* clears the logs of every service the solver may have pivoted to, or the *)
(* world is not used again.                                                *)
GradesOwnLines == stage = "open" => Collected \subseteq {play}
=============================================================================
