------------------------- MODULE WorldBackingsProofs -------------------------
(***************************************************************************)
(* What is proved of the runtimes of the packs: of a world of several      *)
(* containers, that what docker has is tracked for the sweep and that a    *)
(* grader collects lines of its own episode; of a world with one child,    *)
(* that no event is skipped; and of both kinds with a solver directory,    *)
(* that a checkpoint lives as long as the runtime that took it.  All for   *)
(* BackingsSpec, whichever runtime realize() chose.                        *)
(***************************************************************************)
EXTENDS WorldBackings, TLAPS

BackingsNext == SingleStep \/ OnDemandStep \/ NetworkedStep

allVars == <<vars, netVars, backing>>

-----------------------------------------------------------------------------
(* The networked world.                                                    *)

USE InternalsAssumption

(* An internal container is named after its service and the network.       *)
RunsOK ==
  /\ Len(runs) \in 0 .. Len(Internals)
  /\ runs = [i \in 1 .. Len(runs) |-> <<Internals[i], 0>>]

(* The public container's name, and: a boot that has not named it yet has  *)
(* a boot left.                                                            *)
CnameOK ==
  /\ cname = <<Public, cname[2]>> /\ cname[2] \in 0 .. MaxBoots
  /\ stage \in {"new", "starting"} => cname[2] < MaxBoots
  /\ stage \in {"handshake", "open"} => cname[2] > 0

FlagsOK ==
  stage \in Stages /\ created \in BOOLEAN /\ trackedNet \in BOOLEAN /\ network \in BOOLEAN

SetsOK ==
  /\ tracked \subseteq Names /\ built \subseteq {Public} \cup ToSet(Internals)
  /\ containers \subseteq Names /\ up \subseteq containers

LogsOK == lines \in [Names -> SUBSET (1 .. MaxPlays)] /\ play \in 1 .. MaxPlays

NetInv == FlagsOK /\ RunsOK /\ CnameOK /\ SetsOK /\ LogsOK

(* A container is tracked before it can exist: also the one that the       *)
(* docker client of the handshake is about to start.                       *)
TrackedInv ==
  /\ EveryContainerTracked
  /\ stage = "handshake" => cname \in tracked

(* Until a world is open nothing has been logged, under no name, for a     *)
(* restore() takes a world that no request has reached; from then on only  *)
(* what stop() knows of has lines, and of the episode that is played.      *)
LinesInv ==
  /\ stage \in {"new", "starting", "handshake"} => \A c \in Names : lines[c] = {}
  /\ stage = "open" =>
       \A c \in Names : lines[c] \subseteq (IF c \in Owned THEN {play} ELSE {})

(* Names are those of the public container and of the internal services.   *)
LEMMA NameOf ==
  /\ \A n \in 1 .. MaxBoots : <<Public, n>> \in Names
  /\ \A i \in 1 .. Len(Internals) : <<Internals[i], 0>> \in Names
BY DEF Names, ToSet

(* What stop() will remove has a name, but for the public container of a   *)
(* world that has not been booted.                                         *)
LEMMA OwnedNamed == NetInv => Owned \ {NoName} \subseteq Names
<1> SUFFICES ASSUME NetInv, NEW c \in Owned, c # NoName PROVE c \in Names
  OBVIOUS
<1>1. CASE c = cname
  BY <1>1, NameOf DEF NetInv, CnameOK, NoName
<1>2. CASE c \in ToSet(runs)
  BY <1>2, NameOf DEF NetInv, RunsOK, ToSet
<1> QED BY <1>1, <1>2 DEF Owned

(* The types of a networked world are an invariant.                        *)
LEMMA NetInitInv == NetInit => NetInv
<1> SUFFICES ASSUME NetInit PROVE NetInv
  OBVIOUS
<1>1. Len(Internals) \in Nat
  OBVIOUS
<1>2. RunsOK
  BY <1>1 DEF NetInit, RunsOK
<1>3. CnameOK
  BY BoundsAssumption DEF NetInit, CnameOK, NoName
<1>4. SetsOK
  BY DEF NetInit, SetsOK
<1>5. LogsOK
  BY BoundsAssumption DEF NetInit, LogsOK
<1>6. FlagsOK
  BY DEF NetInit, FlagsOK, Stages
<1> QED BY <1>2, <1>3, <1>4, <1>5, <1>6 DEF NetInv

LEMMA NetStepInv == NetInv /\ [NetNext]_netVars => NetInv'
<1> SUFFICES ASSUME NetInv, [NetNext]_netVars PROVE NetInv'
  OBVIOUS
<1> USE DEF harnessVars, dockerVars, Stages
<1>0. /\ Len(Internals) \in Nat /\ Len(runs) \in 0 .. Len(Internals)
      /\ MaxBoots \in Nat /\ MaxPlays \in Nat
  BY BoundsAssumption DEF NetInv, RunsOK
<1>1. FlagsOK'
  <2>1. CASE UNCHANGED netVars
    BY <2>1 DEF NetInv, FlagsOK, netVars
  <2> QED BY <2>1 DEF NetInv, FlagsOK, NetNext, CreateNetwork, StartInternal, BuildFails, RunPublic,
       PublicStarts, NetHandshake, NetRestore, NetResetEpisode, NetStop, Sweep, Pivot, ContainerDies, netVars
<1>2. RunsOK'
  <2>1. CASE UNCHANGED runs
    BY <2>1 DEF NetInv, RunsOK
  <2>2. CASE StartInternal
    <3>1. RunsOK /\ Len(runs) < Len(Internals)
      BY <2>2 DEF NetInv, StartInternal
    <3>2. UNCHANGED runs \/ runs' = Append(runs, <<Internals[Len(runs) + 1], 0>>)
      BY <2>2 DEF StartInternal, BuildFails
    <3>3. ASSUME runs' = Append(runs, <<Internals[Len(runs) + 1], 0>>) PROVE RunsOK'
      <4> DEFINE c == <<Internals[Len(runs) + 1], 0>>
      <4>1. /\ Len(runs') = Len(runs) + 1 /\ DOMAIN runs' = 1 .. Len(runs) + 1
            /\ \A i \in 1 .. Len(runs) + 1 :
                 runs'[i] = IF i = Len(runs) + 1 THEN c ELSE runs[i]
            /\ runs' = [i \in 1 .. Len(runs') |-> runs'[i]]
        <5>1. runs \in Seq({<<Internals[i], 0>> : i \in 1 .. Len(Internals)})
          BY <1>0, <3>1 DEF RunsOK
        <5> HIDE DEF c
        <5>2. runs \in Seq({<<Internals[i], 0>> : i \in 1 .. Len(Internals)} \cup {c})
          BY <5>1
        <5> QED BY <3>3, <5>2 DEF c
      <4>2. \A i \in 1 .. Len(runs) : runs[i] = <<Internals[i], 0>>
        BY <3>1 DEF RunsOK
      <4> QED BY <1>0, <3>1, <4>1, <4>2 DEF RunsOK
    <3> QED BY <3>1, <3>2, <3>3 DEF RunsOK
  <2>3. CASE NetStop
    BY <1>0, <2>3 DEF RunsOK, NetStop
  <2> QED BY <2>1, <2>2, <2>3 DEF NetNext, CreateNetwork, RunPublic, BuildFails,
       PublicStarts, NetHandshake, NetRestore, NetResetEpisode, Sweep, Pivot, ContainerDies, netVars
<1>3. CnameOK'
  <2>1. CASE RunPublic
    BY <1>0, <2>1 DEF NetInv, CnameOK, RunPublic, BuildFails
  <2>2. CASE NetHandshake
    BY <2>2 DEF NetInv, CnameOK, NetHandshake
  <2>3. CASE NetRestore
    BY <2>3 DEF NetInv, CnameOK, NetRestore
  <2>4. CASE CreateNetwork
    BY <2>4, BoundsAssumption DEF NetInv, CnameOK, CreateNetwork
  <2>5. CASE UNCHANGED cname /\ (UNCHANGED stage \/ stage' \in {"failed", "stopped", "exited"})
    BY <2>5 DEF NetInv, CnameOK
  <2> QED BY <2>1, <2>2, <2>3, <2>4, <2>5 DEF NetNext, StartInternal, BuildFails,
       PublicStarts, NetResetEpisode, NetStop, Sweep, Pivot, ContainerDies, netVars
<1>4. SetsOK'
  <2> USE DEF NetInv, SetsOK
  <2>1. CASE StartInternal
    <3> DEFINE i == Len(runs) + 1
               c == <<Internals[i], 0>>
    <3>1. i \in 1 .. Len(Internals)
      BY <1>0, <2>1 DEF StartInternal
    <3>2. c \in Names /\ Internals[i] \in ToSet(Internals)
      BY <3>1, NameOf DEF ToSet
    <3>3. /\ built' \subseteq built \cup {Internals[i]} /\ tracked' \subseteq tracked \cup {c}
          /\ (UNCHANGED containers /\ UNCHANGED up)
             \/ (containers' = containers \cup {c} /\ up' = up \cup {c})
      BY <2>1 DEF StartInternal, BuildFails, TrackedFor
    <3> QED BY <3>2, <3>3
  <2>2. CASE RunPublic
    BY <1>0, <2>2, NameOf DEF RunPublic, BuildFails, CnameOK
  <2>3. CASE PublicStarts
    BY <2>3, NameOf DEF PublicStarts, CnameOK
  <2>4. CASE NetHandshake \/ NetStop \/ Sweep
    BY <2>4 DEF NetHandshake, NetStop, Sweep
  <2>5. ASSUME NEW c \in up, ContainerDies(c) PROVE SetsOK'
    BY <2>5 DEF ContainerDies
  <2>6. CASE UNCHANGED <<tracked, built, containers, up>>
    BY <2>6
  <2> QED BY <2>1, <2>2, <2>3, <2>4, <2>5, <2>6
          DEF NetNext, CreateNetwork, NetRestore, NetResetEpisode, Pivot, netVars
<1>5. LogsOK'
  <2>1. ASSUME NEW reached, Pivot(reached) PROVE LogsOK'
    BY <2>1 DEF NetInv, LogsOK, Pivot
  <2>2. CASE NetResetEpisode
    BY <1>0, <2>2 DEF NetInv, LogsOK, NetResetEpisode
  <2>3. CASE UNCHANGED <<lines, play>>
    BY <2>3 DEF NetInv, LogsOK
  <2> QED BY <2>1, <2>2, <2>3 DEF NetNext, CreateNetwork, StartInternal, BuildFails, RunPublic,
       PublicStarts, NetHandshake, NetRestore, NetStop, Sweep, ContainerDies, netVars
<1> QED BY <1>1, <1>2, <1>3, <1>4, <1>5 DEF NetInv

LEMMA NetInvTypes == NetInv => NetTypeOK
<1> SUFFICES ASSUME NetInv PROVE NetTypeOK
  OBVIOUS
<1>1. cname \in Names \cup {NoName}
  BY NameOf DEF NetInv, CnameOK, NoName
<1> QED BY <1>1 DEF NetInv, FlagsOK, RunsOK, SetsOK, LogsOK, NetTypeOK

(* What docker gains is tracked already; what the sweep and stop() give up *)
(* of the tracked names they have removed.                                 *)
LEMMA TrackedStep == NetInv /\ TrackedInv /\ [NetNext]_netVars => TrackedInv'
<1> SUFFICES ASSUME NetInv, TrackedInv, [NetNext]_netVars PROVE TrackedInv'
  OBVIOUS
<1> USE DEF TrackedInv, EveryContainerTracked
<1>1. CASE StartInternal
  BY <1>1 DEF StartInternal, BuildFails, TrackedFor, dockerVars
<1>2. CASE RunPublic
  BY <1>2 DEF RunPublic, BuildFails, dockerVars
<1>3. CASE PublicStarts
  BY <1>3 DEF PublicStarts, harnessVars
<1>4. CASE NetHandshake \/ NetRestore \/ NetResetEpisode
  BY <1>4 DEF NetHandshake, NetRestore, NetResetEpisode, dockerVars
<1>5. CASE NetStop \/ Sweep \/ CreateNetwork
  BY <1>5 DEF NetStop, Sweep, CreateNetwork
<1>6. ASSUME NEW c \in up, ContainerDies(c) PROVE TrackedInv'
  BY <1>6 DEF ContainerDies, harnessVars
<1>7. ASSUME NEW reached, Pivot(reached) PROVE TrackedInv'
  BY <1>7 DEF Pivot, harnessVars, dockerVars
<1>8. CASE UNCHANGED netVars
  BY <1>8 DEF netVars, harnessVars, dockerVars
<1> QED BY <1>1, <1>2, <1>3, <1>4, <1>5, <1>6, <1>7, <1>8 DEF NetNext

(* A reset of all the logs that stop() knows of leaves no line.            *)
LEMMA ResetClears ==
  ASSUME NetInv, LinesInv, stage = "open",
         lines' = [c \in Names |-> IF c \in ToSet(SubSeq(LogsToClear, 1, Len(LogsToClear)))
                                   THEN {} ELSE lines[c]]
  PROVE  \A c \in Names : lines'[c] = {}
<1> DEFINE s == <<cname>> \o runs
<1>1. runs \in Seq({<<Internals[i], 0>> : i \in 1 .. Len(Internals)})
  BY DEF NetInv, RunsOK
<1>2. \A c \in Owned : \E i \in 1 .. Len(s) : s[i] = c
  <2>1. Len(runs) \in Nat /\ DOMAIN runs = 1 .. Len(runs)
    BY <1>1
  <2>2. Len(s) = Len(runs) + 1 /\ s[1] = cname
        /\ \A i \in 1 .. Len(runs) : s[i + 1] = runs[i]
    <3> DEFINE S == {cname} \cup {<<Internals[i], 0>> : i \in 1 .. Len(Internals)}
    <3>1. runs \in Seq(S) /\ <<cname>> \in Seq(S)
      BY <1>1
    <3> HIDE DEF S
    <3> QED BY <2>1, <3>1
  <2> HIDE DEF s
  <2>3. \A i \in 1 .. Len(runs) : i + 1 \in 1 .. Len(s)
    BY <2>1, <2>2
  <2>4. 1 \in 1 .. Len(s)
    BY <2>1, <2>2
  <2> QED BY <2>1, <2>2, <2>3, <2>4 DEF Owned, ToSet
<1>3. ToSet(SubSeq(s, 1, Len(s))) = ToSet(s) /\ DOMAIN s = 1 .. Len(s)
  <2> DEFINE S == {cname} \cup {<<Internals[i], 0>> : i \in 1 .. Len(Internals)}
  <2>1. runs \in Seq(S) /\ <<cname>> \in Seq(S)
    BY <1>1
  <2> HIDE DEF S
  <2>2. s \in Seq(S)
    BY <2>1
  <2> HIDE DEF s
  <2>3. SubSeq(s, 1, Len(s)) = s
    BY <2>2
  <2>4. DOMAIN s = 1 .. Len(s)
    BY <2>2
  <2> QED BY <2>3, <2>4, Zenon
<1>4. Owned \subseteq ToSet(SubSeq(LogsToClear, 1, Len(LogsToClear)))
  BY <1>2, <1>3 DEF LogsToClear, ToSet
<1> QED BY <1>4 DEF LinesInv

LEMMA LinesStep == NetInv /\ LinesInv /\ [NetNext]_netVars => LinesInv'
<1> SUFFICES ASSUME NetInv, LinesInv, [NetNext]_netVars PROVE LinesInv'
  OBVIOUS
<1>0. lines \in [Names -> SUBSET (1 .. MaxPlays)]
  BY DEF NetInv, LogsOK
<1>1. CASE UNCHANGED lines /\ stage' \in {"failed", "stopped", "exited"}
  BY <1>1 DEF LinesInv
<1>2. CASE UNCHANGED lines /\ stage' \in {"new", "starting", "handshake", "open"}
           /\ \A c \in Names : lines[c] = {}
  BY <1>2 DEF LinesInv
<1>3. CASE UNCHANGED <<lines, stage, cname, runs, play>>
  BY <1>3 DEF LinesInv, Owned
<1>4. CASE StartInternal
  BY <1>1, <1>2, <1>4 DEF StartInternal, BuildFails, LinesInv
<1>5. CASE NetRestore
  <2>1. \A c \in Names : lines[c] = {}
    BY <1>5 DEF NetRestore, LinesInv
  <2> QED BY <1>2, <1>5, <2>1 DEF NetRestore
<1>6. ASSUME NEW reached \in SUBSET (Owned \cap up), Pivot(reached) PROVE LinesInv'
  BY <1>0, <1>6 DEF Pivot, LinesInv, Owned, harnessVars
<1>7. CASE NetResetEpisode
  <2>1. PICK n \in 0 .. Len(LogsToClear) :
          LET cleared == ToSet(SubSeq(LogsToClear, 1, n)) IN
          /\ lines' = [c \in Names |-> IF c \in cleared THEN {} ELSE lines[c]]
          /\ \/ n = Len(LogsToClear) /\ UNCHANGED stage
             \/ stage' = "failed"
    BY <1>7 DEF NetResetEpisode
  <2>2. CASE stage' = "failed"
    BY <2>2 DEF LinesInv
  <2>3. CASE n = Len(LogsToClear) /\ UNCHANGED stage
    <3>1. stage = "open"
      BY <1>7 DEF NetResetEpisode
    <3>2. \A c \in Names : lines'[c] = {}
      BY <2>1, <2>3, <3>1, ResetClears
    <3> QED BY <2>3, <3>1, <3>2 DEF LinesInv
  <2> QED BY <2>1, <2>2, <2>3
<1>8. CASE CreateNetwork \/ RunPublic \/ PublicStarts \/ NetHandshake
  BY <1>1, <1>2, <1>8 DEF CreateNetwork, RunPublic, BuildFails, PublicStarts, NetHandshake,
       LinesInv, harnessVars
<1>9. CASE NetStop \/ Sweep
  BY <1>1, <1>9 DEF NetStop, Sweep
<1>10. ASSUME NEW c \in up, ContainerDies(c) PROVE LinesInv'
  BY <1>3, <1>10 DEF ContainerDies, harnessVars
<1>11. CASE UNCHANGED netVars
  BY <1>3, <1>11 DEF netVars, harnessVars
<1> QED BY <1>4, <1>5, <1>6, <1>7, <1>8, <1>9, <1>10, <1>11 DEF NetNext

NetworkedInv == NetInv /\ TrackedInv /\ LinesInv

LEMMA NetworkedInvariant == BackingsSpec => []NetworkedInv
<1>1. NetInit => NetworkedInv
  <2> SUFFICES ASSUME NetInit PROVE TrackedInv /\ LinesInv
    BY NetInitInv DEF NetworkedInv
  <2>1. TrackedInv
    BY DEF NetInit, TrackedInv, EveryContainerTracked
  <2>2. LinesInv
    BY DEF NetInit, LinesInv
  <2> QED BY <2>1, <2>2
<1>2. NetworkedInv /\ [NetNext]_netVars => NetworkedInv'
  BY NetStepInv, TrackedStep, LinesStep DEF NetworkedInv
<1>3. [BackingsNext]_allVars => [NetNext]_netVars
  BY DEF BackingsNext, allVars, SingleStep, OnDemandStep, NetworkedStep
<1> QED BY <1>1, <1>2, <1>3, PTL DEF BackingsSpec, BackingsInit, BackingsNext, allVars

(* The state of a networked world and of its docker stays of its types: a  *)
(* boot never runs out of names, and runs holds the internal services in   *)
(* order, one container each.                                              *)
THEOREM NetworkedTypes == BackingsSpec => []NetTypeOK
BY NetworkedInvariant, NetInvTypes, PTL DEF NetworkedInv

(* Whatever fails half way, and whatever stop() does not know of, is in    *)
(* _world_containers: for every list of internal services and any number   *)
(* of boots, no container outlives the sweep.                              *)
THEOREM ContainersTracked == BackingsSpec => []EveryContainerTracked
BY NetworkedInvariant, PTL DEF NetworkedInv, TrackedInv

(* When the process has ended docker has no container of the world left,   *)
(* from whichever stage the sweep took it.                                 *)
NoneOutlives == stage = "exited" => containers = {}

THEOREM SweepLeavesNone == BackingsSpec => []NoneOutlives
<1>1. NetInit => NoneOutlives
  BY DEF NetInit, NoneOutlives
<1>2. NetworkedInv /\ NoneOutlives /\ [NetNext]_netVars => NoneOutlives'
  <2> SUFFICES ASSUME NetworkedInv, NoneOutlives, [NetNext]_netVars PROVE NoneOutlives'
    OBVIOUS
  <2>1. containers \subseteq tracked /\ up \subseteq containers
    BY DEF NetworkedInv, TrackedInv, EveryContainerTracked, NetInv, SetsOK
  <2>2. CASE Sweep
    BY <2>1, <2>2 DEF Sweep, NoneOutlives
  <2>3. CASE UNCHANGED <<stage, containers>>
    BY <2>3 DEF NoneOutlives
  <2>4. CASE stage' # "exited"
    BY <2>4 DEF NoneOutlives
  <2>5. ASSUME NEW c \in up, ContainerDies(c) PROVE NoneOutlives'
    BY <2>1, <2>5 DEF ContainerDies, NoneOutlives, harnessVars
  <2> QED BY <2>2, <2>3, <2>4, <2>5 DEF NetNext, CreateNetwork, StartInternal, BuildFails, RunPublic,
       PublicStarts, NetHandshake, NetRestore, NetResetEpisode, NetStop, Pivot, netVars,
       harnessVars, dockerVars
<1>3. [BackingsNext]_allVars => [NetNext]_netVars
  BY DEF BackingsNext, allVars, SingleStep, OnDemandStep, NetworkedStep
<1> QED BY <1>1, <1>2, <1>3, NetworkedInvariant, PTL DEF BackingsSpec, BackingsInit, BackingsNext, allVars

(* What the containers collect for a grader is of the episode it grades,   *)
(* whichever services the solver reached in the episodes before.           *)
THEOREM GraderReadsOwnLines == BackingsSpec => []GradesOwnLines
<1>1. NetworkedInv => GradesOwnLines
  <2> SUFFICES ASSUME NetworkedInv, stage = "open", NEW c \in Owned \cap up
               PROVE lines[c] \subseteq {play}
    BY DEF GradesOwnLines, Collected
  <2>1. c \in Names
    BY DEF NetworkedInv, NetInv, SetsOK
  <2> QED BY <2>1 DEF NetworkedInv, LinesInv
<1> QED BY <1>1, NetworkedInvariant, PTL

-----------------------------------------------------------------------------
(* The worlds with a solver directory: a child process, or files alone.    *)

AllCalls == {NoCall, BootCall} \cup {RestoreCall(c) : c \in held}

ShapeOK ==
  /\ life \in [Runtimes -> Lives]         /\ child \in [Runtimes -> Children]
  /\ info \in [Runtimes -> BOOLEAN]       /\ offset \in [Runtimes -> Nat]
  /\ inflight \in [Runtimes -> 0 .. MaxEpisodes]
  /\ episode \in [Runtimes -> 1 .. MaxEpisodes]
  /\ log \in [Runtimes -> Seq(1 .. MaxEpisodes)]
  /\ owned \in [Runtimes -> SUBSET Dirs]  /\ held \subseteq Payloads
  /\ seen \in [Runtimes -> SUBSET Nat]    /\ calls \in [Runtimes -> AllCalls]
  /\ DOMAIN files = Runtimes /\ files = [r \in Runtimes |-> files[r]]

DiskOK ==
  /\ DOMAIN disk \subseteq Dirs
  /\ \A d \in DOMAIN disk : disk[d] \subseteq Files

(* A call is in progress in a world that is new, or is restored.           *)
CallsOK ==
  \A r \in Runtimes :
    /\ calls[r].op = "reset" => life[r] = "new"
    /\ calls[r].op = "restore" => life[r] = "open"

FilesOK ==
  \A r \in Runtimes :
    IF life[r] = "stopped" \/ (life[r] = "new" /\ calls[r] = NoCall)
    THEN files[r] = None ELSE files[r] \subseteq Files

SoloTypes == ShapeOK /\ DiskOK /\ CallsOK /\ FilesOK

(* A step of a world of either kind; one of files alone is never waited    *)
(* for.                                                                    *)
Quiet == \A r \in Runtimes : calls[r] = NoCall

SoloStep(r) ==
  \/ Step(r)
  \/ /\ Quiet
     /\ \/ OnDemandBoot(r) \/ OnDemandStop(r)
        \/ \E c \in held : OnDemandRestore(r, c)
        \/ \E f \in Files : SolverWrites(r, f)
        \/ \E d \in Dirs : Checkpoint(r, d)

LEMMA CallShape ==
  ASSUME ShapeOK, NEW r \in Runtimes
  PROVE  /\ calls[r].op \in {"none", "reset", "restore"}
         /\ calls[r] = NoCall <=> calls[r].op = "none"
         /\ calls[r].op = "restore" => calls[r].from \in held
BY DEF ShapeOK, AllCalls, NoCall, BootCall, RestoreCall

(* A step of a world is about that world, the disk and the payloads aside. *)
Framed(r) ==
  /\ life' = [life EXCEPT ![r] = life'[r]]
  /\ child' = [child EXCEPT ![r] = child'[r]]
  /\ info' = [info EXCEPT ![r] = info'[r]]
  /\ offset' = [offset EXCEPT ![r] = offset'[r]]
  /\ inflight' = [inflight EXCEPT ![r] = inflight'[r]]
  /\ episode' = [episode EXCEPT ![r] = episode'[r]]
  /\ log' = [log EXCEPT ![r] = log'[r]]
  /\ owned' = [owned EXCEPT ![r] = owned'[r]]
  /\ seen' = [seen EXCEPT ![r] = seen'[r]]
  /\ calls' = [calls EXCEPT ![r] = calls'[r]]
  /\ files' = [files EXCEPT ![r] = files'[r]]

LEMMA SoloFrame ==
  ASSUME ShapeOK, NEW r \in Runtimes, SoloStep(r) PROVE Framed(r)
<1> USE DEF ShapeOK, SoloStep, Step, Boot, Handshake, HandshakeTimeout, Starts, Request,
     LogAccess, Dies, SolverWrites, PollEvents, ResetEpisode, Stop, Checkpoint, Restore,
     Reset, Raise, Booted, RestoreFiles, InitEnv, Terminate, TeardownEnv, OnDemandBoot,
     OnDemandStop, OnDemandRestore, childVars
<1>1. life' = [life EXCEPT ![r] = life'[r]]
  OBVIOUS
<1>2. child' = [child EXCEPT ![r] = child'[r]]
  OBVIOUS
<1>3. info' = [info EXCEPT ![r] = info'[r]]
  OBVIOUS
<1>4. offset' = [offset EXCEPT ![r] = offset'[r]]
  BY DEF Rewound
<1>5. inflight' = [inflight EXCEPT ![r] = inflight'[r]]
  OBVIOUS
<1>6. episode' = [episode EXCEPT ![r] = episode'[r]]
  OBVIOUS
<1>7. log' = [log EXCEPT ![r] = log'[r]]
  OBVIOUS
<1>8. owned' = [owned EXCEPT ![r] = owned'[r]]
  OBVIOUS
<1>9. seen' = [seen EXCEPT ![r] = seen'[r]]
  OBVIOUS
<1>10. calls' = [calls EXCEPT ![r] = calls'[r]]
  OBVIOUS
<1>11. files' = [files EXCEPT ![r] = files'[r]]
  OBVIOUS
<1> QED BY <1>1, <1>2, <1>3, <1>4, <1>5, <1>6, <1>7, <1>8, <1>9, <1>10, <1>11 DEF Framed

(* What a step can make of the state of its world.                         *)
Affected(r) ==
  /\ life'[r] \in Lives /\ child'[r] \in Children /\ info'[r] \in BOOLEAN
  /\ \/ offset'[r] \in {offset[r], 0, Consumed(r)}
     \/ \E c \in held : offset'[r] = c.offset
  /\ inflight'[r] \in {inflight[r], 0, episode[r]}
  /\ \/ episode'[r] = episode[r]
     \/ episode[r] < MaxEpisodes /\ episode'[r] = episode[r] + 1
  /\ \/ log'[r] = log[r] \/ log'[r] = <<>>
     \/ inflight[r] # 0 /\ log'[r] = Append(log[r], inflight[r])
  /\ owned'[r] \in {owned[r], {}} \/ \E d \in Dirs : owned'[r] = owned[r] \cup {d}
  /\ \/ held' = held
     \/ \E d \in Dirs : held' = held \cup {[origin |-> r, dir |-> d, offset |-> offset[r]]}
  /\ \/ seen'[r] = seen[r] \/ seen'[r] = {}
     \/ seen'[r] = seen[r] \cup (offset[r] + 1 .. Len(Readable(r)))
  /\ \/ calls'[r] \in {calls[r], NoCall, BootCall}
     \/ \E c \in held : calls'[r] = RestoreCall(c)

LEMMA SoloEffect ==
  ASSUME ShapeOK, NEW r \in Runtimes, SoloStep(r) PROVE Affected(r)
<1> USE DEF SoloStep, Step, Boot, Handshake, HandshakeTimeout, Starts, Request, LogAccess, Dies,
     SolverWrites, PollEvents, ResetEpisode, Stop, Checkpoint, Restore, Reset, Raise, Booted,
     OnDemandBoot, OnDemandStop, OnDemandRestore, childVars, ShapeOK
<1>1. life'[r] \in Lives
  BY DEF Lives, RestoreFiles
<1>2. child'[r] \in Children
  BY OutputsAssumption DEF Children, Terminate
<1>3. info'[r] \in BOOLEAN
  OBVIOUS
<1>4. \/ offset'[r] \in {offset[r], 0, Consumed(r)}
      \/ \E c \in held : offset'[r] = c.offset
  <2>1. calls[r].op = "restore" => calls[r].from \in held
    BY CallShape
  <2> QED BY <2>1 DEF RestoreFiles, Rewound
<1>5. inflight'[r] \in {inflight[r], 0, episode[r]}
  BY DEF Terminate
<1>6. \/ episode'[r] = episode[r]
      \/ episode[r] < MaxEpisodes /\ episode'[r] = episode[r] + 1
  OBVIOUS
<1>7. \/ log'[r] = log[r] \/ log'[r] = <<>>
      \/ inflight[r] # 0 /\ log'[r] = Append(log[r], inflight[r])
  BY DEF InitEnv
<1>8. owned'[r] \in {owned[r], {}} \/ \E d \in Dirs : owned'[r] = owned[r] \cup {d}
  OBVIOUS
<1>9. \/ held' = held
      \/ \E d \in Dirs : held' = held \cup {[origin |-> r, dir |-> d, offset |-> offset[r]]}
  OBVIOUS
<1>10. \/ seen'[r] = seen[r] \/ seen'[r] = {}
       \/ seen'[r] = seen[r] \cup (offset[r] + 1 .. Len(Readable(r)))
  OBVIOUS
<1>11. \/ calls'[r] \in {calls[r], NoCall, BootCall}
       \/ \E c \in held : calls'[r] = RestoreCall(c)
  OBVIOUS
<1> QED BY <1>1, <1>2, <1>3, <1>4, <1>5, <1>6, <1>7, <1>8, <1>9, <1>10, <1>11 DEF Affected

LEMMA ShapeStep ==
  ASSUME ShapeOK, NEW r \in Runtimes, SoloStep(r) PROVE ShapeOK'
<1>0. Framed(r) /\ Affected(r)
  BY SoloFrame, SoloEffect
<1>1. held' \subseteq Payloads /\ held \subseteq held'
  BY <1>0 DEF ShapeOK, Payloads, Affected
<1>2. life'[r] \in Lives /\ child'[r] \in Children /\ info'[r] \in BOOLEAN
  BY <1>0 DEF Affected
<1>3. offset'[r] \in Nat
  <2>1. offset[r] \in Nat /\ Consumed(r) \in Nat /\ \A c \in held : c.offset \in Nat
    BY DEF ShapeOK, Payloads, Consumed, Readable
  <2> QED BY <1>0, <2>1 DEF Affected
<1>4. inflight'[r] \in 0 .. MaxEpisodes /\ episode'[r] \in 1 .. MaxEpisodes
  <2>1. inflight[r] \in 0 .. MaxEpisodes /\ episode[r] \in 1 .. MaxEpisodes
    BY DEF ShapeOK
  <2> QED BY <1>0, <2>1, RequestsAssumption DEF Affected
<1>5. log'[r] \in Seq(1 .. MaxEpisodes)
  <2>1. log[r] \in Seq(1 .. MaxEpisodes) /\ inflight[r] \in 0 .. MaxEpisodes
    BY DEF ShapeOK
  <2>2. inflight[r] # 0 => inflight[r] \in 1 .. MaxEpisodes
    BY <2>1, RequestsAssumption
  <2>3. \/ log'[r] = log[r] \/ log'[r] = <<>>
        \/ inflight[r] # 0 /\ log'[r] = Append(log[r], inflight[r])
    BY <1>0 DEF Affected
  <2>4. CASE inflight[r] # 0 /\ log'[r] = Append(log[r], inflight[r])
    <3> DEFINE l == log[r]
               e == inflight[r]
    <3>1. l \in Seq(1 .. MaxEpisodes) /\ e \in 1 .. MaxEpisodes
      BY <2>1, <2>2, <2>4
    <3> HIDE DEF l, e
    <3>2. Append(l, e) \in Seq(1 .. MaxEpisodes)
      BY <3>1
    <3> QED BY <2>4, <3>2 DEF l, e
  <2>5. CASE log'[r] = <<>>
    <3>1. <<>> \in Seq(1 .. MaxEpisodes)
      OBVIOUS
    <3> QED BY <2>5, <3>1, Zenon
  <2> QED BY <2>1, <2>3, <2>4, <2>5, Zenon
<1>6. owned'[r] \in SUBSET Dirs
  BY <1>0 DEF ShapeOK, Affected
<1>7. seen'[r] \in SUBSET Nat
  <2>1. seen[r] \in SUBSET Nat /\ offset[r] \in Nat
    BY DEF ShapeOK
  <2> QED BY <1>0, <2>1 DEF Affected
<1>8. calls'[r] \in AllCalls' /\ AllCalls \subseteq AllCalls'
  BY <1>0, <1>1 DEF ShapeOK, AllCalls, Affected
<1> DEFINE shape(v, S) == v \in [Runtimes -> S]
<1>9. /\ shape(life, Lives)' /\ shape(child, Children)' /\ shape(offset, Nat)'
      /\ shape(inflight, 0 .. MaxEpisodes)' /\ shape(episode, 1 .. MaxEpisodes)'
  BY <1>0, <1>2, <1>3, <1>4 DEF ShapeOK, Framed
<1>10. shape(log, Seq(1 .. MaxEpisodes))'
  BY <1>0, <1>5 DEF ShapeOK, Framed
<1>11. shape(owned, SUBSET Dirs)' /\ shape(seen, SUBSET Nat)'
  BY <1>0, <1>6, <1>7 DEF ShapeOK, Framed
<1>12. shape(info, BOOLEAN)'
  <2>1. info' = [info EXCEPT ![r] = info'[r]] /\ info \in [Runtimes -> BOOLEAN]
    BY <1>0 DEF ShapeOK, Framed
  <2>2. info'[r] \in BOOLEAN
    BY <1>2
  <2> DEFINE b == info'[r]
  <2> HIDE DEF b
  <2>3. [info EXCEPT ![r] = b] \in [Runtimes -> BOOLEAN]
    BY <2>1, <2>2, Zenon DEF b
  <2> QED BY <2>1, <2>3 DEF b
<1>13. calls' \in [Runtimes -> AllCalls']
  BY <1>0, <1>8 DEF ShapeOK, Framed
<1>14. DOMAIN files' = Runtimes /\ files' = [x \in Runtimes |-> files'[x]]
  <2> DEFINE b == files'[r]
  <2>1. files' = [files EXCEPT ![r] = b] /\ files = [x \in Runtimes |-> files[x]]
    BY <1>0 DEF ShapeOK, Framed
  <2> HIDE DEF b
  <2> QED BY <2>1
<1> QED BY <1>1, <1>9, <1>10, <1>11, <1>12, <1>13, <1>14 DEF ShapeOK

(* The other worlds are as they were.                                      *)
LEMMA SoloOthers ==
  ASSUME ShapeOK, NEW r \in Runtimes, Framed(r), NEW x \in Runtimes, x # r
  PROVE  /\ life'[x] = life[x] /\ calls'[x] = calls[x] /\ files'[x] = files[x]
         /\ child'[x] = child[x] /\ log'[x] = log[x] /\ offset'[x] = offset[x]
         /\ seen'[x] = seen[x] /\ owned'[x] = owned[x] /\ inflight'[x] = inflight[x]
BY DEF ShapeOK, Framed

LEMMA DiskStep ==
  ASSUME SoloTypes, NEW r \in Runtimes, SoloStep(r) PROVE DiskOK'
<1>1. \/ disk' = disk \/ DropCheckpoints(r)
      \/ \E d \in Dirs, copied \in BOOLEAN :
            Idle(r) /\ disk' = [x \in DOMAIN disk \cup {d} |->
                     IF x # d THEN disk[x] ELSE IF copied THEN files[r] ELSE {}]
  BY DEF SoloStep, Step, Boot, Handshake, HandshakeTimeout, Starts, Request, LogAccess, Dies,
     SolverWrites, PollEvents, ResetEpisode, Stop, Checkpoint, Restore, Reset, Raise, Booted,
     OnDemandBoot, OnDemandStop, OnDemandRestore, childVars
<1>2. Idle(r) => files[r] \subseteq Files
  BY DEF SoloTypes, FilesOK, Idle, Open
<1>3. CASE DropCheckpoints(r)
  BY <1>3 DEF DropCheckpoints, SoloTypes, DiskOK
<1> QED BY <1>1, <1>2, <1>3 DEF SoloTypes, DiskOK

LEMMA CallsStep ==
  ASSUME SoloTypes, NEW r \in Runtimes, SoloStep(r) PROVE CallsOK'
<1>0. Framed(r) /\ ShapeOK
  BY SoloFrame DEF SoloTypes
<1>1. /\ calls[r].op = "reset" => life[r] = "new"
      /\ calls[r].op = "restore" => life[r] = "open"
  BY DEF SoloTypes, CallsOK
<1>2. /\ calls'[r].op = "reset" => life'[r] = "new"
      /\ calls'[r].op = "restore" => life'[r] = "open"
  <2>1. \/ UNCHANGED <<life, calls>> \/ calls'[r] = NoCall
        \/ life[r] = "new" /\ calls'[r] = BootCall /\ UNCHANGED life
        \/ life[r] = "open" /\ UNCHANGED life /\ \E c : calls'[r] = RestoreCall(c)
        \/ calls[r] = NoCall /\ UNCHANGED calls
    BY <1>0 DEF ShapeOK, SoloStep, Step, Boot, Handshake, HandshakeTimeout, Starts, Request, LogAccess, Dies,
     SolverWrites, PollEvents, ResetEpisode, Stop, Checkpoint, Restore, Reset, Raise, Booted, Idle, Quiet,
     OnDemandBoot, OnDemandStop, OnDemandRestore, childVars
  <2>2. CASE UNCHANGED <<life, calls>>
    BY <1>1, <2>2
  <2>3. NoCall.op = "none" /\ BootCall.op = "reset" /\ \A c : RestoreCall(c).op = "restore"
    BY DEF NoCall, BootCall, RestoreCall
  <2> QED BY <2>1, <2>2, <2>3
<1> QED BY <1>0, <1>2, SoloOthers DEF SoloTypes, CallsOK

LEMMA FilesStep ==
  ASSUME SoloTypes, NEW r \in Runtimes, SoloStep(r) PROVE FilesOK'
<1>0. Framed(r) /\ ShapeOK
  BY SoloFrame DEF SoloTypes
<1> DEFINE Bare(x) == life[x] = "stopped" \/ (life[x] = "new" /\ calls[x] = NoCall)
<1>1. \A x \in Runtimes : IF Bare(x) THEN files[x] = None ELSE files[x] \subseteq Files
  BY DEF SoloTypes, FilesOK
<1>2. /\ calls[r] # NoCall => life[r] \in {"new", "open"}
      /\ \A d \in DOMAIN disk : disk[d] \subseteq Files
  BY CallShape DEF SoloTypes, CallsOK, DiskOK, ShapeOK
<1>3. IF Bare(r)' THEN files'[r] = None ELSE files'[r] \subseteq Files
  <2>1. \/ life'[r] = "stopped" /\ files'[r] = None
        \/ UNCHANGED <<life, calls, files>>
        \/ ~Bare(r)' /\ (files'[r] = {} \/ \E d \in DOMAIN disk : files'[r] = disk[d])
        \/ ~Bare(r) /\ ~Bare(r)' /\ files'[r] \subseteq files[r] \cup Files
    <3>1. CASE Boot(r) \/ \E c \in held : Restore(r, c)
      BY <1>0, <3>1 DEF ShapeOK, Boot, Restore, Reset, InitEnv, NoCall, BootCall, RestoreCall, Idle
    <3>2. CASE Handshake(r)
      BY <1>0, <1>2, <3>2 DEF ShapeOK, Handshake, Raise, Booted, RestoreFiles
    <3>3. CASE HandshakeTimeout(r) \/ ResetEpisode(r)
      BY <1>0, <1>2, <3>3 DEF ShapeOK, HandshakeTimeout, ResetEpisode, Raise, Idle, Open
    <3>4. CASE Stop(r) \/ OnDemandStop(r)
      BY <1>0, <3>4 DEF ShapeOK, Stop, OnDemandStop, TeardownEnv
    <3>5. CASE OnDemandBoot(r) \/ \E c \in held : OnDemandRestore(r, c)
      BY <1>0, <1>2, <3>5 DEF ShapeOK, OnDemandBoot, OnDemandRestore, Idle, Open
    <3>6. CASE \E f \in Files : SolverWrites(r, f)
      BY <1>0, <1>2, <3>6 DEF ShapeOK, SolverWrites, Idle, Open
    <3>7. CASE UNCHANGED <<life, calls, files>>
      BY <3>7
    <3> QED BY <3>1, <3>2, <3>3, <3>4, <3>5, <3>6, <3>7 DEF SoloStep, Step, Starts, Request,
          LogAccess, Dies, PollEvents, Checkpoint
  <2> QED BY <1>1, <1>2, <2>1
<1>4. \A x \in Runtimes : x # r => (Bare(x)' <=> Bare(x)) /\ files'[x] = files[x]
  BY <1>0, SoloOthers
<1> QED BY <1>1, <1>3, <1>4 DEF FilesOK

(* The offset of a world that reset() or reset_episode() has made stands   *)
(* in its log, and what is before it was returned.  A boot that ends       *)
(* without a base URL leaves the offset alone, which is still that of a    *)
(* new runtime.                                                            *)
EventsInv ==
  \A r \in Runtimes :
    /\ life[r] = "new" => offset[r] = 0
    /\ life[r] = "open" /\ calls[r] = NoCall =>
         /\ offset[r] <= Len(log[r])
         /\ \A i \in DOMAIN log[r] : i <= offset[r] => i \in seen[r]

LEMMA EventsStep ==
  ASSUME SoloTypes, EventsInv, NEW r \in Runtimes, SoloStep(r) PROVE EventsInv'
<1> DEFINE At(x) ==
      /\ life[x] = "new" => offset[x] = 0
      /\ life[x] = "open" /\ calls[x] = NoCall =>
           /\ offset[x] <= Len(log[x])
           /\ \A i \in DOMAIN log[x] : i <= offset[x] => i \in seen[x]
<1>0. Framed(r) /\ ShapeOK
  BY SoloFrame DEF SoloTypes
<1>1. At(r)
  BY DEF EventsInv
<1>2. log[r] \in Seq(1 .. MaxEpisodes) /\ offset[r] \in Nat /\ inflight[r] \in 0 .. MaxEpisodes
  BY <1>0 DEF ShapeOK
<1>3. CASE UNCHANGED <<life, calls, offset, log, seen>>
  BY <1>1, <1>3 DEF EventsInv
<1>4. At(r)'
  <2>1. CASE life'[r] \notin {"new", "open"}
    BY <2>1
  <2>2. CASE UNCHANGED <<life, offset>> /\ calls'[r] # NoCall
    BY <1>1, <2>2
  <2>3. CASE life'[r] = "open" /\ offset'[r] = 0 /\ log'[r] \in Seq(1 .. MaxEpisodes)
    BY <2>3
  <2>4. CASE Boot(r) \/ \E c \in held : Restore(r, c)
    <3>1. BootCall # NoCall /\ \A c : RestoreCall(c) # NoCall
      BY DEF BootCall, NoCall, RestoreCall
    <3>2. (UNCHANGED <<life, offset>> /\ calls'[r] # NoCall) \/ life'[r] = "failed"
      BY <1>0, <2>4, <3>1 DEF ShapeOK, Boot, Restore, Reset
    <3> QED BY <2>1, <2>2, <3>2
  <2>5. CASE Handshake(r)
    <3>1. calls[r].op = "reset" => offset[r] = 0
      BY <1>1 DEF SoloTypes, CallsOK
    <3>2. \/ life'[r] \in {"failed", "forked"}
          \/ life'[r] = "open" /\ offset'[r] = 0 /\ UNCHANGED log
      BY <1>0, <2>5, <3>1 DEF ShapeOK, Handshake, Raise, Booted, RestoreFiles
    <3> QED BY <1>2, <2>1, <2>3, <3>2
  <2>6. CASE HandshakeTimeout(r) \/ Stop(r) \/ OnDemandStop(r) \/ \E c \in held : OnDemandRestore(r, c)
    <3>1. life'[r] \notin {"new", "open"}
      BY <1>0, <2>6 DEF ShapeOK, HandshakeTimeout, Raise, Stop, OnDemandStop, OnDemandRestore
    <3> QED BY <2>1, <3>1
  <2>7. CASE LogAccess(r)
    <3> DEFINE l == log[r]
               e == inflight[r]
    <3>1. e \in 1 .. MaxEpisodes /\ log'[r] = Append(l, e) /\ UNCHANGED <<life, calls, offset, seen>>
      BY <1>0, <1>2, <2>7, RequestsAssumption DEF ShapeOK, LogAccess
    <3>2. l \in Seq(1 .. MaxEpisodes)
      BY <1>2
    <3> HIDE DEF l, e
    <3>3. Len(Append(l, e)) = Len(l) + 1 /\ DOMAIN Append(l, e) = 1 .. Len(l) + 1
          /\ DOMAIN l = 1 .. Len(l) /\ Len(l) \in Nat
      BY <3>1, <3>2
    <3> QED BY <1>1, <1>2, <3>1, <3>3 DEF l
  <2>8. CASE PollEvents(r)
    <3> DEFINE l == log[r]
    <3>1. Readable(r) = l
      BY <1>2, <2>8 DEF PollEvents, Readable, Consumed
    <3>2. /\ offset'[r] = Len(l) /\ seen'[r] = seen[r] \cup (offset[r] + 1 .. Len(l))
          /\ UNCHANGED <<life, calls, log>> /\ life[r] # "new"
      BY <1>0, <2>8, <3>1 DEF ShapeOK, PollEvents, Consumed, Idle, Open
    <3>3. l \in Seq(1 .. MaxEpisodes)
      BY <1>2
    <3> HIDE DEF l
    <3>4. Len(l) \in Nat /\ DOMAIN l = 1 .. Len(l)
      BY <3>3
    <3>5. life[r] = "open" /\ calls[r] = NoCall =>
            \A i \in DOMAIN l : i <= offset[r] => i \in seen[r]
      BY <1>1 DEF l
    <3> QED BY <1>2, <3>2, <3>4, <3>5 DEF l
  <2>9. CASE ResetEpisode(r)
    <3>1. life'[r] = "failed" \/ (life'[r] = "open" /\ offset'[r] = 0 /\ log'[r] = <<>>)
      BY <1>0, <2>9 DEF ShapeOK, ResetEpisode, Raise, Rewound
    <3> QED BY <2>1, <2>3, <3>1
  <2>10. CASE OnDemandBoot(r)
    <3>1. life'[r] = "failed" \/ (life'[r] = "open" /\ offset'[r] = 0 /\ UNCHANGED log)
      BY <1>0, <1>1, <2>10 DEF ShapeOK, OnDemandBoot, childVars
    <3> QED BY <1>2, <2>1, <2>3, <3>1
  <2>11. CASE UNCHANGED <<life, calls, offset, log, seen>>
    BY <1>1, <2>11
  <2> QED BY <2>4, <2>5, <2>6, <2>7, <2>8, <2>9, <2>10, <2>11 DEF SoloStep, Step, Starts, Request,
        Dies, SolverWrites, Checkpoint
<1>5. ASSUME NEW x \in Runtimes, x # r PROVE At(x)'
  BY <1>0, <1>5, SoloOthers DEF EventsInv
<1> QED BY <1>4, <1>5 DEF EventsInv

(* A checkpoint directory is owned by one runtime until that is stopped,   *)
(* and a directory a payload was given for is never made again.            *)
CheckpointInv ==
  /\ \A r \in Runtimes : owned[r] \subseteq DOMAIN disk
  /\ \A r, q \in Runtimes : r # q => owned[r] \cap owned[q] = {}
  /\ \A c \in held : IF life[c.origin] = "stopped" THEN c.dir \notin DOMAIN disk
                                                  ELSE c.dir \in owned[c.origin]

(* A runtime is stopped by stop() alone, and for good.                     *)
LEMMA StopsOnce ==
  ASSUME SoloTypes, NEW r \in Runtimes, SoloStep(r)
  PROVE  \/ /\ life[r] # "stopped" /\ life'[r] = "stopped"
            /\ owned'[r] = {} /\ DropCheckpoints(r) /\ UNCHANGED held
         \/ /\ life'[r] = "stopped" <=> life[r] = "stopped"
            /\ \/ UNCHANGED <<owned, disk, held>>
               \/ /\ life[r] # "stopped" /\ \E d \in Dirs : Checkpoint(r, d)
<1>0. ShapeOK
  BY DEF SoloTypes
<1>1. calls[r] # NoCall => life[r] \in {"new", "open"}
  BY CallShape DEF SoloTypes, CallsOK
<1>2. CASE Stop(r) \/ OnDemandStop(r)
  BY <1>0, <1>2 DEF ShapeOK, Stop, OnDemandStop
<1>3. CASE \E d \in Dirs : Checkpoint(r, d)
  BY <1>0, <1>3 DEF ShapeOK, Checkpoint, Idle, Open
<1>4. CASE UNCHANGED <<life, owned, disk, held>>
  BY <1>4
<1>5. CASE Boot(r) \/ Handshake(r) \/ HandshakeTimeout(r) \/ ResetEpisode(r) \/ \E c \in held : Restore(r, c)
  BY <1>0, <1>1, <1>5 DEF ShapeOK, Boot, Handshake, HandshakeTimeout, ResetEpisode, Restore, Reset,
     Raise, Booted, RestoreFiles, Idle, Open
<1>6. CASE OnDemandBoot(r) \/ \E c \in held : OnDemandRestore(r, c)
  BY <1>0, <1>6 DEF ShapeOK, OnDemandBoot, OnDemandRestore, childVars
<1> QED BY <1>2, <1>3, <1>4, <1>5, <1>6 DEF SoloStep, Step, Starts, Request, LogAccess, Dies, SolverWrites, PollEvents

LEMMA CheckpointStep ==
  ASSUME SoloTypes, CheckpointInv, NEW r \in Runtimes, SoloStep(r) PROVE CheckpointInv'
<1>0. Framed(r) /\ ShapeOK /\ \A c \in held : c.origin \in Runtimes
  BY SoloFrame DEF SoloTypes, ShapeOK, Payloads
<1>1. \A x \in Runtimes : x # r => life'[x] = life[x] /\ owned'[x] = owned[x]
  BY <1>0, SoloOthers
<1>2. CASE /\ life[r] # "stopped" /\ life'[r] = "stopped"
           /\ owned'[r] = {} /\ DropCheckpoints(r) /\ UNCHANGED held
  <2>1. DOMAIN disk' = DOMAIN disk \ owned[r]
    BY <1>2 DEF DropCheckpoints
  <2> QED BY <1>0, <1>1, <1>2, <2>1 DEF CheckpointInv
<1>3. CASE (life'[r] = "stopped" <=> life[r] = "stopped") /\ UNCHANGED <<owned, disk, held>>
  BY <1>0, <1>1, <1>3 DEF CheckpointInv
<1>4. ASSUME life'[r] = "stopped" <=> life[r] = "stopped", life[r] # "stopped",
             NEW d \in Dirs, Checkpoint(r, d)
      PROVE  CheckpointInv'
  <2>1. /\ d \notin DOMAIN disk /\ DOMAIN disk' = DOMAIN disk \cup {d}
        /\ \A c \in held : c.dir # d
    BY <1>4 DEF Checkpoint
  <2>2. \/ UNCHANGED <<owned, held>>
        \/ /\ owned'[r] = owned[r] \cup {d}
           /\ held' = held \cup {[origin |-> r, dir |-> d, offset |-> offset[r]]}
    BY <1>0, <1>4 DEF Checkpoint, ShapeOK
  <2> QED BY <1>0, <1>1, <1>4, <2>1, <2>2 DEF CheckpointInv
<1> QED BY <1>2, <1>3, <1>4, StopsOnce

SoloInv ==
  /\ SoloTypes /\ EventsInv /\ CheckpointInv
  /\ backing = "ondemand" => Quiet

LEMMA SoloInitInv == Init => SoloTypes /\ EventsInv /\ CheckpointInv /\ Quiet
<1> SUFFICES ASSUME Init PROVE SoloTypes /\ EventsInv /\ CheckpointInv /\ Quiet
  OBVIOUS
<1>1. ShapeOK
  <2>1. info \in [Runtimes -> BOOLEAN]
    BY DEF Init
  <2>2. log \in [Runtimes -> Seq(1 .. MaxEpisodes)]
    BY DEF Init
  <2>3. calls \in [Runtimes -> AllCalls]
    BY DEF Init, AllCalls
  <2> QED BY <2>1, <2>2, <2>3, RequestsAssumption DEF Init, ShapeOK, Lives, Children
<1>2. DiskOK /\ FilesOK /\ Quiet
  BY DEF Init, DiskOK, FilesOK, Quiet
<1>3. CallsOK
  BY DEF Init, CallsOK, NoCall
<1>4. EventsInv /\ CheckpointInv
  BY DEF Init, EventsInv, CheckpointInv
<1> QED BY <1>1, <1>2, <1>3, <1>4 DEF SoloTypes

LEMMA SoloStepInv == SoloInv /\ [BackingsNext]_allVars => SoloInv'
<1> SUFFICES ASSUME SoloInv, [BackingsNext]_allVars PROVE SoloInv'
  OBVIOUS
<1>1. CASE UNCHANGED vars /\ UNCHANGED backing
  BY <1>1 DEF vars, SoloInv, SoloTypes, ShapeOK, AllCalls, DiskOK, CallsOK, FilesOK, EventsInv,
     CheckpointInv, Quiet
<1>2. ASSUME NEW r \in Runtimes, SoloStep(r)
      PROVE  SoloTypes' /\ EventsInv' /\ CheckpointInv'
  BY <1>2, ShapeStep, DiskStep, CallsStep, FilesStep, EventsStep, CheckpointStep DEF SoloInv, SoloTypes
<1>3. CASE SingleStep
  <2>1. \E r \in Runtimes : SoloStep(r)
    BY <1>3 DEF SingleStep, Next, SoloStep
  <2> QED BY <1>2, <1>3, <2>1 DEF SingleStep, SoloInv
<1>4. CASE OnDemandStep
  <2>1. \E r \in Runtimes : SoloStep(r)
    BY <1>4 DEF OnDemandStep, OnDemandNext, SoloStep, SoloInv
  <2>2. UNCHANGED calls
    BY <1>4 DEF OnDemandStep, OnDemandNext, OnDemandBoot, OnDemandStop, OnDemandRestore,
       SolverWrites, Checkpoint, childVars
  <2> QED BY <1>2, <1>4, <2>1, <2>2 DEF OnDemandStep, SoloInv, Quiet
<1> QED BY <1>1, <1>3, <1>4 DEF BackingsNext, NetworkedStep, allVars

LEMMA SoloInvariant == BackingsSpec => []SoloInv
<1>1. BackingsInit => SoloInv
  BY SoloInitInv DEF BackingsInit, SoloInv
<1> QED BY <1>1, SoloStepInv, PTL DEF BackingsSpec, BackingsNext, allVars

(* The state of the worlds stays of its types, and the solver's directory  *)
(* is there from the first reset() to stop(), however badly the boot went. *)
THEOREM RuntimeTypes == BackingsSpec => []TypeOK
<1>1. SoloInv => TypeOK
  <2> SUFFICES ASSUME SoloInv PROVE TypeOK
    OBVIOUS
  <2>1. ShapeOK /\ DiskOK /\ FilesOK
    BY DEF SoloInv, SoloTypes
  <2>2. calls \in [Runtimes -> {NoCall, BootCall} \cup {RestoreCall(c) : c \in held}]
    BY <2>1 DEF ShapeOK, AllCalls
  <2> QED BY <2>1, <2>2, Zenon DEF ShapeOK, DiskOK, FilesOK, TypeOK
<1> QED BY <1>1, SoloInvariant, PTL

(* No event is skipped: whatever the child logs, however often it is       *)
(* polled, and whichever of reset(), reset_episode() and the polls moved   *)
(* the offset last, what the offset has passed was returned.               *)
THEOREM EventsReturned == BackingsSpec => []NoEventSkipped
<1>1. SoloInv => NoEventSkipped
  BY DEF SoloInv, EventsInv, NoEventSkipped, Returned, Idle
<1> QED BY <1>1, SoloInvariant, PTL

(* A checkpoint can be restored exactly as long as the runtime that took   *)
(* it is not stopped, for any number of runtimes that restore one another's *)
(* checkpoints.                                                            *)
THEOREM CheckpointsLast == BackingsSpec => []CheckpointsLive
<1>1. SoloInv => CheckpointsLive
  <2>1. SoloInv => \A c \in held : c.origin \in Runtimes
    BY DEF SoloInv, SoloTypes, ShapeOK, Payloads
  <2> QED BY <2>1 DEF SoloInv, CheckpointInv, CheckpointsLive
<1> QED BY <1>1, SoloInvariant, PTL
=============================================================================
