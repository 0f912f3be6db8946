------------------------ MODULE TrainingRoundProofs ------------------------
(***************************************************************************)
(* What TrainingRound keeps for any number of environments, resets and     *)
(* failed docker calls: nothing docker holds is forgotten by itself, a     *)
(* world meets no sandbox but that of its episode, a report is paired with *)
(* the turns of its episode. The argument: every docker operation of an    *)
(* environment, whatever it leaves, keeps one account of what docker holds *)
(* against the fields of that environment, and leaves the others alone.    *)
(***************************************************************************)
EXTENDS TrainingRound, FiniteSetTheorems, FunctionTheorems, TLAPS

EnvRecords ==
  [handle : 0 .. MaxEpisodes, surface : 0 .. MaxEpisodes, finalized : BOOLEAN,
   report : 0 .. MaxEpisodes, turns : SUBSET (0 .. MaxEpisodes), sandbox : 0 .. MaxEpisodes,
   network : 0 .. MaxEpisodes, target : 0 .. MaxEpisodes]

Services == [live : SUBSET (Episodes \X Episodes), warm : 0 .. MaxEpisodes]

Dockers ==
  [exists : SUBSET Resources, joined : SUBSET (Resources \X Resources), tracked : SUBSET Resources,
   mishaps : SUBSET (Envs \X Episodes), faults : 0 .. MaxFaults]

Spoilt(d, r) == <<r.env, r.episode>> \in d.mishaps

\* what docker holds is tracked for the sweep, but for what it failed for
Accounted(d) == \A r \in d.exists : r.kind = "world" \/ r \in d.tracked \/ Spoilt(d, r)

\* networks join worlds of their environment and the sandbox of their episode
Shaped(d) ==
  \A j \in d.joined :
      /\ j[1].kind = "network" /\ j[2].env = j[1].env
      /\ j[2].kind = "world" \/ (j[2].kind = "sandbox" /\ j[2].episode = j[1].episode)

(* What an environment knows of its own sandbox, network and target is all *)
(* that docker has joined for it, but for the episodes docker failed.      *)
Known(e, v, d) ==
  /\ v.sandbox # NoEpisode => Sandbox(e, v.sandbox) \in d.tracked
  /\ \A j \in d.joined : j[1].env = e =>
       \/ Spoilt(d, j[1])
       \/ /\ j[1].episode = v.network
          /\ j[2].kind = "world" => j[2].episode = v.target
          /\ j[2].kind = "sandbox" => v.sandbox = v.network

\* an environment holds the sandbox and the network of its last reset, or none
Handed(v) ==
  /\ v.sandbox \in {NoEpisode, v.handle} /\ v.network \in {NoEpisode, v.handle}
  /\ v.network = NoEpisode => v.target = NoEpisode

Kept(e, v, d) == v \in EnvRecords /\ d \in Dockers /\ Accounted(d) /\ Shaped(d) /\ Known(e, v, d) /\ Handed(v)

\* the running episodes have worlds of their own
Served(v, s) ==
  /\ s \in Services
  /\ s.warm <= v.handle
  /\ \A p \in s.live :
       /\ p[2] # s.warm
       /\ p[2] = v.target => p[1] = v.handle
       /\ \A q \in s.live : p[1] = q[1] \/ p[2] = q[2] => p = q

\* what is recorded of an environment, and graded, is of episodes of its own
Scores(v, s, c) ==
  /\ v.report # NoEpisode => v.turns \subseteq {v.report}
  /\ c \subseteq 1 .. v.handle
  /\ \A p \in s.live : p[1] \notin c

\* the running episodes and their worlds are from the resets so far
Past(v, s) == \A p \in s.live : p[1] <= v.handle /\ p[2] <= v.handle

\* while it can still be stepped or scored, the episode at hand is the last one
AtHand(v, s) ==
  /\ Past(v, s)
  /\ v.turns \subseteq {v.handle}
  /\ v.report \in {NoEpisode, v.handle}
  /\ v.report # NoEpisode => \A p \in s.live : p[1] # v.report
  /\ ~v.finalized /\ v.handle # NoEpisode => \E p \in s.live : p[1] = v.handle

Going == phase \in {"prepare", "rollout", "reward"}

RoundInv ==
  /\ plan \in Plans /\ queue \in Seq(Envs)
  /\ phase \in {"prepare", "rollout", "reward", "closing", "over", "exited"}
  /\ env \in [Envs -> EnvRecords] /\ service \in [Envs -> Services] /\ docker \in Dockers
  /\ collected \in [Envs -> SUBSET Episodes]
  /\ \A e \in Envs : /\ Served(env[e], service[e])
                     /\ Scores(env[e], service[e], collected[e])
                     /\ Going => AtHand(env[e], service[e])
  /\ phase # "exited" =>
       Accounted(docker) /\ Shaped(docker) /\ \A e \in Envs : Known(e, env[e], docker) /\ Handed(env[e])
  /\ phase = "exited" => \A e \in Envs : service[e].live = {}

-----------------------------------------------------------------------------
(* The docker calls: what each of their outcomes keeps.                    *)

LEMMA NamesAreResources ==
  ASSUME NEW e \in Envs, NEW n \in Episodes
  PROVE  Sandbox(e, n) \in Resources /\ Network(e, n) \in Resources /\ World(e, n) \in Resources
BY DEF Sandbox, Network, World, Resources, Kinds

\* each function of the record of docker changes the fields it names
LEMMA MadeIs ==
  ASSUME NEW d \in Dockers, NEW r \in Resources, NEW nets \in SUBSET Resources
  PROVE  LET m == Made(d, r, nets) IN
         /\ m \in Dockers /\ m.exists = d.exists \cup {r} /\ m.joined = d.joined \cup (nets \X {r})
         /\ m.tracked = d.tracked /\ m.mishaps = d.mishaps /\ m.faults = d.faults
BY DEF Made, Dockers

LEMMA GoneIs ==
  ASSUME NEW d \in Dockers, NEW r \in Resources
  PROVE  LET m == Gone(d, r) IN
         /\ m \in Dockers /\ m.exists = d.exists \ {r} /\ m.joined = {j \in d.joined : r \notin {j[1], j[2]}}
         /\ m.tracked = d.tracked /\ m.mishaps = d.mishaps /\ m.faults = d.faults
BY DEF Gone, Dockers

LEMMA TrackIs ==
  ASSUME NEW d \in Dockers, NEW r \in Resources
  PROVE  /\ Track(d, r) \in Dockers /\ Track(d, r).tracked = d.tracked \cup {r}
         /\ Track(d, r).exists = d.exists /\ Track(d, r).joined = d.joined
         /\ Track(d, r).mishaps = d.mishaps
BY DEF Track, Dockers

LEMMA UntrackIs ==
  ASSUME NEW d \in Dockers, NEW r \in Resources
  PROVE  /\ Untrack(d, r) \in Dockers /\ Untrack(d, r).tracked = d.tracked \ {r}
         /\ Untrack(d, r).exists = d.exists /\ Untrack(d, r).joined = d.joined
         /\ Untrack(d, r).mishaps = d.mishaps
BY DEF Untrack, Dockers

LEMMA MishapIs ==
  ASSUME NEW d \in Dockers, NEW r \in Resources, MayFail(d)
  PROVE  LET m == Mishap(d, r) IN
         /\ m \in Dockers /\ d.mishaps \subseteq m.mishaps /\ Spoilt(m, r)
         /\ m.exists = d.exists /\ m.joined = d.joined /\ m.tracked = d.tracked
<1>1. d.faults + 1 \in 0 .. MaxFaults
  BY BoundsAssumption DEF MayFail, Dockers
<1>2. <<r.env, r.episode>> \in Envs \X Episodes
  BY DEF Resources
<1> QED BY <1>1, <1>2 DEF Mishap, Dockers, Spoilt

LEMMA CreateIs ==
  ASSUME NEW d \in Dockers, NEW r \in Resources, NEW nets \in SUBSET Resources, NEW o \in Create(d, r, nets)
  PROVE  /\ o.docker \in Dockers /\ o.raised \in BOOLEAN
         /\ o.docker.tracked = d.tracked /\ d.mishaps \subseteq o.docker.mishaps
         /\ o.docker.exists \subseteq d.exists \cup {r}
         /\ o.docker.joined \subseteq d.joined \cup (nets \X {r})
         /\ o.raised => Spoilt(o.docker, r)
<1> DEFINE m == Made(d, r, nets)
<1>1. m \in Dockers /\ (MayFail(d) => MayFail(m))
  BY MadeIs DEF MayFail
<1>2. CASE o = Outcome(m, FALSE)
  BY <1>2, MadeIs DEF Outcome
<1>3. CASE MayFail(d) /\ o = Outcome(Mishap(d, r), TRUE)
  <2> HIDE DEF m
  <2> QED BY <1>3, MishapIs DEF Outcome
<1>4. CASE MayFail(d) /\ o = Outcome(Mishap(m, r), TRUE)
  <2>1. m.exists = d.exists \cup {r} /\ m.joined = d.joined \cup (nets \X {r})
        /\ m.tracked = d.tracked /\ m.mishaps = d.mishaps
    BY MadeIs
  <2> HIDE DEF m
  <2> QED BY <1>1, <1>4, <2>1, MishapIs DEF Outcome
<1> QED BY <1>2, <1>3, <1>4 DEF Create

LEMMA ConnectIs ==
  ASSUME NEW d \in Dockers, NEW net \in Resources, NEW c \in Resources, NEW o \in Connect(d, net, c)
  PROVE  /\ o.docker \in Dockers /\ o.raised \in BOOLEAN
         /\ o.docker.tracked = d.tracked /\ d.mishaps \subseteq o.docker.mishaps
         /\ o.docker.exists = d.exists
         /\ o.docker.joined \subseteq d.joined \cup {<<net, c>>}
         /\ o.raised => o.docker.joined = d.joined \/ Spoilt(o.docker, net)
<1> DEFINE m == [d EXCEPT !.joined = @ \cup {<<net, c>>}]
<1>1. m \in Dockers /\ m.joined = d.joined \cup {<<net, c>>} /\ m.exists = d.exists
      /\ m.tracked = d.tracked /\ m.mishaps = d.mishaps /\ m.faults = d.faults
  BY DEF Dockers
<1>2. CASE o = Outcome(m, FALSE)
  <2> HIDE DEF m
  <2> QED BY <1>1, <1>2 DEF Outcome
<1>3. CASE MayFail(d) /\ o = Outcome([d EXCEPT !.faults = @ + 1], TRUE)
  <2>1. d.faults + 1 \in 0 .. MaxFaults
    BY <1>3, BoundsAssumption DEF MayFail, Dockers
  <2> HIDE DEF m
  <2> QED BY <1>3, <2>1 DEF Outcome, Dockers
<1>4. CASE MayFail(d) /\ o = Outcome(Mishap(m, net), TRUE)
  <2> HIDE DEF m
  <2>1. MayFail(m) BY <1>1, <1>4 DEF MayFail
  <2> QED BY <1>1, <1>4, <2>1, MishapIs DEF Outcome
<1> QED BY <1>2, <1>3, <1>4 DEF Connect

LEMMA DisconnectIs ==
  ASSUME NEW d \in Dockers, NEW net \in Resources, NEW c, NEW o \in Disconnect(d, net, c)
  PROVE  /\ o.docker \in Dockers /\ o.raised \in BOOLEAN
         /\ o.docker.tracked = d.tracked /\ d.mishaps \subseteq o.docker.mishaps
         /\ o.docker.exists = d.exists /\ o.docker.joined \subseteq d.joined
         /\ <<net, c>> \notin o.docker.joined \/ Spoilt(o.docker, net)
<1>1. CASE o = Outcome([d EXCEPT !.joined = @ \ {<<net, c>>}], FALSE)
  BY <1>1 DEF Outcome, Dockers
<1>2. CASE MayFail(d) /\ o = Outcome(Mishap(d, net), FALSE)
  BY <1>2, MishapIs DEF Outcome
<1>3. CASE MayFail(d) /\ o = Outcome(Mishap(d, net), TRUE)
  BY <1>3, MishapIs DEF Outcome
<1>4. CASE MayFail(d) /\ o = Outcome(Mishap([d EXCEPT !.joined = @ \ {<<net, c>>}], net), TRUE)
  <2> DEFINE m == [d EXCEPT !.joined = @ \ {<<net, c>>}]
  <2>1. m \in Dockers /\ m.joined \subseteq d.joined /\ m.exists = d.exists
        /\ m.tracked = d.tracked /\ m.mishaps = d.mishaps /\ m.faults = d.faults
    BY DEF Dockers
  <2>2. o = Outcome(Mishap(m, net), TRUE) BY <1>4
  <2> HIDE DEF m
  <2>3. MayFail(m) BY <1>4, <2>1 DEF MayFail
  <2> QED BY <2>1, <2>2, <2>3, MishapIs DEF Outcome
<1> QED BY <1>1, <1>2, <1>3, <1>4 DEF Disconnect

LEMMA RmIs ==
  ASSUME NEW d \in Dockers, NEW r \in Resources, NEW o \in Rm(d, r)
  PROVE  /\ o.docker \in Dockers /\ o.raised \in BOOLEAN
         /\ d.mishaps \subseteq o.docker.mishaps
         /\ o.docker.exists \subseteq d.exists /\ o.docker.joined \subseteq d.joined
         /\ d.tracked \ {r} \subseteq o.docker.tracked
         /\ o.raised => o.docker.tracked = d.tracked
         /\ \/ o.raised \/ Spoilt(o.docker, r) \/ Busy(d, r)
            \/ r \notin o.docker.exists /\ \A j \in o.docker.joined : r \notin {j[1], j[2]}
<1>1. CASE Busy(d, r) /\ o = Outcome(Untrack(d, r), FALSE)
  BY <1>1, UntrackIs DEF Outcome
<1>2. CASE o = Outcome(Untrack(Gone(d, r), r), FALSE)
  BY <1>2, UntrackIs, GoneIs DEF Outcome
<1>3. CASE MayFail(d) /\ o = Outcome(Untrack(Mishap(d, r), r), FALSE)
  BY <1>3, UntrackIs, MishapIs DEF Outcome, Spoilt
<1>4. CASE MayFail(d) /\ o = Outcome(Mishap(d, r), TRUE)
  BY <1>4, MishapIs DEF Outcome
<1>5. CASE MayFail(d) /\ o = Outcome(Mishap(Removed(d, r), r), TRUE)
  <2> DEFINE m == Removed(d, r)
  <2>1. m \in Dockers /\ m.exists \subseteq d.exists /\ m.joined \subseteq d.joined
        /\ m.tracked = d.tracked /\ m.mishaps = d.mishaps /\ m.faults = d.faults
    BY GoneIs DEF Removed
  <2>2. o = Outcome(Mishap(m, r), TRUE) BY <1>5
  <2> HIDE DEF m
  <2>3. MayFail(m) BY <1>5, <2>1 DEF MayFail
  <2> QED BY <2>1, <2>2, <2>3, MishapIs DEF Outcome
<1> QED BY <1>1, <1>2, <1>3, <1>4, <1>5 DEF Rm, Removed

-----------------------------------------------------------------------------
(* The operations of EpisodeEnv on its sandbox. Each keeps the account of  *)
(* its environment, the fields that are not about the sandbox, and what    *)
(* concerns other environments.                                            *)

Others(e, d, d2) ==
  /\ d.mishaps \subseteq d2.mishaps
  /\ \A j \in d2.joined : j[1].env # e => j \in d.joined
  /\ \A r \in d.tracked : r.env # e => r \in d2.tracked

SameEpisode(v, w) ==
  w.handle = v.handle /\ w.finalized = v.finalized /\ w.report = v.report /\ w.turns = v.turns

Works(e, v, d, res) ==
  Kept(e, res.env, res.docker) /\ Others(e, d, res.docker) /\ SameEpisode(v, res.env) /\ res.raised \in BOOLEAN

\* the names of resources by their three parts
LEMMA ResourceNames ==
  ASSUME NEW r \in Resources
  PROVE  /\ r.env \in Envs /\ r.episode \in Episodes /\ r.kind \in Kinds
         /\ r.kind = "sandbox" => r = Sandbox(r.env, r.episode)
         /\ r.kind = "network" => r = Network(r.env, r.episode)
         /\ r.kind = "world" => r = World(r.env, r.episode)
BY DEF Resources, Sandbox, Network, World

\* less in docker, and more that went wrong, is accounted for as before
LEMMA LessIsKept ==
  ASSUME NEW e, NEW v, NEW d, Kept(e, v, d), NEW d2 \in Dockers,
         d2.exists \subseteq d.exists, d2.joined \subseteq d.joined,
         d.mishaps \subseteq d2.mishaps, d2.tracked = d.tracked
  PROVE  Kept(e, v, d2) /\ Others(e, d, d2)
<1>1. \A r : Spoilt(d, r) => Spoilt(d2, r) BY DEF Spoilt
<1>2. Accounted(d2) BY <1>1 DEF Kept, Accounted
<1>3. Shaped(d2) BY DEF Kept, Shaped
<1>4. Known(e, v, d2) BY <1>1 DEF Kept, Known
<1> QED BY <1>2, <1>3, <1>4 DEF Kept, Others

LEMMA CloseSandboxWorks ==
  ASSUME NEW e \in Envs, NEW v, NEW d, Kept(e, v, d), NEW res \in CloseSandbox(e, v, d)
  PROVE  /\ Works(e, v, d, res)
         /\ res.env.network = v.network /\ res.env.target = v.target
         /\ res.raised \/ res.env.sandbox = NoEpisode
<1> USE DEF NoEpisode
<1>0. v \in EnvRecords /\ d \in Dockers BY DEF Kept
<1>1. CASE v.sandbox = NoEpisode
  <2>1. res = Result(v, d, FALSE) BY <1>1 DEF CloseSandbox
  <2> QED BY <1>0, <1>1, <2>1, LessIsKept DEF Result, Works, SameEpisode
<1>2. CASE v.sandbox # NoEpisode
  <2> DEFINE r == Sandbox(e, v.sandbox)
  <2>1. v.sandbox \in Episodes BY <1>0, <1>2 DEF EnvRecords, Episodes
  <2>2. r \in Resources BY <2>1, NamesAreResources
  <2>3. r.kind = "sandbox" /\ r.env = e /\ r.episode = v.sandbox BY DEF Sandbox
  <2> HIDE DEF r
  <2>4. PICK rm \in Rm(d, r) :
          res = Result(IF rm.raised THEN v ELSE [v EXCEPT !.sandbox = NoEpisode], rm.docker, rm.raised)
    BY <1>2 DEF CloseSandbox, r
  <2> DEFINE d2 == rm.docker
  <2>5. /\ d2 \in Dockers /\ rm.raised \in BOOLEAN /\ d.mishaps \subseteq d2.mishaps
        /\ d2.exists \subseteq d.exists /\ d2.joined \subseteq d.joined
        /\ d.tracked \ {r} \subseteq d2.tracked
        /\ rm.raised => d2.tracked = d.tracked
        /\ \/ rm.raised \/ Spoilt(d2, r) \/ Busy(d, r)
           \/ r \notin d2.exists /\ \A j \in d2.joined : r \notin {j[1], j[2]}
    BY <1>0, <2>2, RmIs
  <2> HIDE DEF d2
  <2>6. ~Busy(d, r) BY <2>3 DEF Busy, Kept, Shaped
  <2>7. CASE rm.raised
    <3>1. Kept(e, v, d2) /\ Others(e, d, d2) BY <2>5, <2>7, LessIsKept
    <3> QED BY <2>4, <2>7, <3>1 DEF Result, Works, SameEpisode, d2
  <2>8. CASE ~rm.raised
    <3> DEFINE w == [v EXCEPT !.sandbox = NoEpisode]
    <3>1. w \in EnvRecords /\ SameEpisode(v, w) /\ w.sandbox = NoEpisode
          /\ w.network = v.network /\ w.target = v.target
      BY <1>0, BoundsAssumption DEF EnvRecords, SameEpisode
    <3> HIDE DEF w
    <3>2. \A x : Spoilt(d, x) => Spoilt(d2, x) BY <2>5 DEF Spoilt
    <3>3. Accounted(d2)
      BY <2>5, <2>6, <2>8, <3>2 DEF Kept, Accounted
    <3>4. Shaped(d2) BY <2>5 DEF Kept, Shaped
    <3>5. ASSUME NEW j \in d2.joined, j[1].env = e, ~Spoilt(d2, j[1])
          PROVE  /\ j[1].episode = w.network /\ (j[2].kind = "world" => j[2].episode = w.target)
                 /\ j[2].kind # "sandbox"
      <4>1. j \in d.joined /\ ~Spoilt(d, j[1]) BY <2>5, <3>2, <3>5
      <4>2. /\ j[1].episode = v.network /\ (j[2].kind = "world" => j[2].episode = v.target)
            /\ (j[2].kind = "sandbox" => v.sandbox = v.network)
        BY <3>5, <4>1 DEF Kept, Known
      <4>3. ASSUME j[2].kind = "sandbox" PROVE FALSE
        <5>1. j[2].env = e /\ j[2].episode = v.sandbox
          BY <3>5, <4>1, <4>2, <4>3 DEF Kept, Shaped
        <5>2. j[2] \in Resources BY <1>0, <4>1 DEF Dockers
        <5>3. j[2] = r BY <4>3, <5>1, <5>2, ResourceNames DEF r
        <5>4. Spoilt(d2, r) BY <2>5, <2>6, <2>8, <5>3
        <5> QED BY <3>5, <4>2, <4>3, <5>4, <2>3 DEF Spoilt
      <4> QED BY <3>1, <4>2, <4>3
    <3>6. Known(e, w, d2) BY <3>1, <3>5 DEF Known
    <3>7. Handed(w) BY <3>1 DEF Kept, Handed, SameEpisode
    <3>8. Others(e, d, d2) BY <2>3, <2>5 DEF Others
    <3>9. res.env = w /\ res.docker = d2 /\ res.raised = FALSE
      BY <2>4, <2>5, <2>8 DEF Result, w, d2
    <3> QED BY <2>5, <3>1, <3>3, <3>4, <3>6, <3>7, <3>8, <3>9 DEF Works, Kept
  <2> QED BY <2>5, <2>7, <2>8
<1> QED BY <1>1, <1>2

LEMMA DropNetworkWorks ==
  ASSUME NEW e \in Envs, NEW v, NEW d, Kept(e, v, d), v.sandbox = NoEpisode, NEW res \in DropNetwork(e, v, d)
  PROVE  /\ Works(e, v, d, res)
         /\ res.env.sandbox = NoEpisode
         /\ res.env.target \in {NoEpisode, v.target}
         /\ res.raised \/ (res.env.network = NoEpisode /\ res.env.target = NoEpisode)
<1> USE DEF NoEpisode
<1>0. v \in EnvRecords /\ d \in Dockers BY DEF Kept
<1>1. CASE v.network = NoEpisode
  <2>1. res = Result(v, d, FALSE) BY <1>1 DEF DropNetwork
  <2> QED BY <1>0, <1>1, <2>1, LessIsKept DEF Result, Works, SameEpisode, Kept, Handed
<1>2. CASE v.network # NoEpisode
  <2> DEFINE r == Network(e, v.network)
             cuts == IF v.target = NoEpisode THEN {Outcome(d, FALSE)} ELSE Disconnect(d, r, World(e, v.target))
             rest(cut) == {Result(IF rm.raised THEN v ELSE [v EXCEPT !.network = NoEpisode, !.target = NoEpisode],
                                  rm.docker, rm.raised) : rm \in Rm(cut.docker, r)}
  <2>1. v.network \in Episodes BY <1>0, <1>2 DEF EnvRecords, Episodes
  <2>2. r \in Resources BY <2>1, NamesAreResources
  <2>3. r.kind = "network" /\ r.env = e /\ r.episode = v.network BY DEF Network
  <2>4. PICK cut \in cuts :
          res \in (IF cut.raised THEN {Result(v, cut.docker, TRUE)} ELSE rest(cut))
    BY <1>2 DEF DropNetwork
  <2> HIDE DEF r
  <2> DEFINE d1 == cut.docker
  <2>5. /\ d1 \in Dockers /\ cut.raised \in BOOLEAN
        /\ d1.tracked = d.tracked /\ d.mishaps \subseteq d1.mishaps
        /\ d1.exists = d.exists /\ d1.joined \subseteq d.joined
        /\ v.target # NoEpisode => <<r, World(e, v.target)>> \notin d1.joined \/ Spoilt(d1, r)
    <3>1. CASE v.target = NoEpisode
      <4>1. cut = Outcome(d, FALSE) BY <2>4, <3>1
      <4>2. d1 = d /\ cut.raised = FALSE BY <4>1 DEF Outcome
      <4> QED BY <1>0, <3>1, <4>2
    <3>2. CASE v.target # NoEpisode
      <4>1. cut \in Disconnect(d, r, World(e, v.target)) BY <2>4, <3>2
      <4> QED BY <1>0, <2>2, <4>1, DisconnectIs
    <3> QED BY <3>1, <3>2
  <2> HIDE DEF d1
  <2>6. Kept(e, v, d1) /\ Others(e, d, d1) BY <2>5, LessIsKept
  <2>7. CASE cut.raised
    <3>1. res = Result(v, d1, TRUE) BY <2>4, <2>7 DEF d1
    <3> QED BY <2>6, <3>1 DEF Result, Works, SameEpisode
  <2>8. CASE ~cut.raised
    <3>1. PICK rm \in Rm(d1, r) :
            res = Result(IF rm.raised THEN v ELSE [v EXCEPT !.network = NoEpisode, !.target = NoEpisode],
                         rm.docker, rm.raised)
      BY <2>4, <2>8 DEF d1
    <3> DEFINE d2 == rm.docker
    <3>2. /\ d2 \in Dockers /\ rm.raised \in BOOLEAN /\ d1.mishaps \subseteq d2.mishaps
          /\ d2.exists \subseteq d1.exists /\ d2.joined \subseteq d1.joined
          /\ d1.tracked \ {r} \subseteq d2.tracked
          /\ rm.raised => d2.tracked = d1.tracked
          /\ \/ rm.raised \/ Spoilt(d2, r) \/ Busy(d1, r)
             \/ r \notin d2.exists /\ \A j \in d2.joined : r \notin {j[1], j[2]}
      BY <2>2, <2>5, RmIs
    <3> HIDE DEF d2, rest, cuts
    <3>3. \A x : Spoilt(d1, x) => Spoilt(d2, x) BY <3>2 DEF Spoilt
    <3>4. Busy(d1, r) => Spoilt(d1, r)
      <4> SUFFICES ASSUME NEW j \in d1.joined, j[1] = r, ~Spoilt(d1, r) PROVE FALSE
        BY DEF Busy
      <4>1. /\ j[2].kind = "world" => j[2].episode = v.target
            /\ j[2].kind = "sandbox" => v.sandbox = v.network
            /\ j[2].kind = "world" \/ j[2].kind = "sandbox"
            /\ j[2].env = e
        BY <2>3, <2>6 DEF Kept, Known, Shaped
      <4>2. j \in Resources \X Resources BY <2>5 DEF Dockers
      <4>3. j[2] = World(e, v.target) /\ v.target # NoEpisode
        BY <1>2, <4>1, <4>2, ResourceNames DEF Episodes
      <4>4. j = <<r, World(e, v.target)>> BY <4>2, <4>3
      <4> QED BY <2>5, <4>3, <4>4
    <3>5. CASE rm.raised
      <4>1. Kept(e, v, d2) /\ Others(e, d1, d2) BY <2>6, <3>2, <3>5, LessIsKept
      <4>2. Others(e, d, d2) BY <2>6, <4>1 DEF Others
      <4> QED BY <3>1, <3>5, <4>1, <4>2 DEF Result, Works, SameEpisode, d2
    <3>6. CASE ~rm.raised
      <4> DEFINE w == [v EXCEPT !.network = NoEpisode, !.target = NoEpisode]
      <4>1. w \in EnvRecords /\ SameEpisode(v, w) /\ w.sandbox = NoEpisode
            /\ w.network = NoEpisode /\ w.target = NoEpisode
        BY <1>0, BoundsAssumption DEF EnvRecords, SameEpisode
      <4> HIDE DEF w
      <4>2. Spoilt(d2, r) \/ (r \notin d2.exists /\ \A j \in d2.joined : r \notin {j[1], j[2]})
        BY <3>2, <3>3, <3>4, <3>6
      <4>3. Accounted(d2)
        BY <2>6, <3>2, <3>3, <4>2 DEF Kept, Accounted
      <4>4. Shaped(d2) BY <2>6, <3>2 DEF Kept, Shaped
      <4>5. ASSUME NEW j \in d2.joined, j[1].env = e PROVE Spoilt(d2, j[1])
        <5>1. j \in d1.joined BY <3>2
        <5>2. Spoilt(d1, j[1]) \/ j[1].episode = v.network
          BY <2>6, <4>5, <5>1 DEF Kept, Known
        <5>3. j[1].kind = "network" /\ j[1] \in Resources
          BY <2>5, <2>6, <5>1 DEF Kept, Shaped, Dockers
        <5>4. CASE j[1].episode = v.network
          <6>1. j[1] = r BY <4>5, <5>3, <5>4, ResourceNames DEF r
          <6> QED BY <4>2, <6>1
        <5> QED BY <3>3, <5>2, <5>4
      <4>6. Known(e, w, d2) BY <4>1, <4>5 DEF Known
      <4>7. Handed(w) BY <4>1 DEF Handed
      <4>8. Others(e, d, d2) BY <2>3, <2>5, <3>2 DEF Others
      <4>9. res.env = w /\ res.docker = d2 /\ res.raised = FALSE
        BY <3>1, <3>2, <3>6 DEF Result, w, d2
      <4> QED BY <3>2, <4>1, <4>3, <4>4, <4>6, <4>7, <4>8, <4>9 DEF Works, Kept
    <3> QED BY <3>2, <3>5, <3>6
  <2> QED BY <2>5, <2>7, <2>8
<1> QED BY <1>1, <1>2

LEMMA TeardownWorks ==
  ASSUME NEW e \in Envs, NEW v, NEW d, Kept(e, v, d), NEW res \in Teardown(e, v, d)
  PROVE  /\ Works(e, v, d, res)
         /\ res.env.target \in {NoEpisode, v.target}
         /\ res.raised \/ (/\ res.env.sandbox = NoEpisode /\ res.env.network = NoEpisode
                           /\ res.env.target = NoEpisode)
<1>1. PICK c \in CloseSandbox(e, v, d) :
        res \in (IF c.raised THEN {c} ELSE DropNetwork(e, c.env, c.docker))
  BY DEF Teardown
<1>2. /\ Works(e, v, d, c)
      /\ c.env.network = v.network /\ c.env.target = v.target
      /\ c.raised \/ c.env.sandbox = NoEpisode
  BY CloseSandboxWorks
<1>3. CASE c.raised
  BY <1>1, <1>2, <1>3
<1>4. CASE ~c.raised
  <2>1. res \in DropNetwork(e, c.env, c.docker) BY <1>1, <1>4
  <2>2. Kept(e, c.env, c.docker) /\ c.env.sandbox = NoEpisode BY <1>2, <1>4 DEF Works
  <2>3. /\ Works(e, c.env, c.docker, res) /\ res.env.sandbox = NoEpisode
        /\ res.env.target \in {NoEpisode, c.env.target}
        /\ res.raised \/ (res.env.network = NoEpisode /\ res.env.target = NoEpisode)
    BY <2>1, <2>2, DropNetworkWorks
  <2>4. Works(e, v, d, res) BY <1>2, <2>3 DEF Works, Others, SameEpisode
  <2> QED BY <1>2, <2>3, <2>4
<1> QED BY <1>2, <1>3, <1>4 DEF Works

LEMMA JoinedNetworkWorks ==
  ASSUME NEW e \in Envs, NEW v, NEW d, NEW n \in Episodes, NEW w \in Episodes,
         Kept(e, v, d), v.handle = n,
         v.sandbox = NoEpisode, v.network = NoEpisode, v.target = NoEpisode,
         NEW res \in JoinedNetwork(e, v, d, n, w)
  PROVE  /\ Works(e, v, d, res)
         /\ res.env.sandbox = NoEpisode /\ res.env.target \in {NoEpisode, w}
         /\ res.raised \/ res.env.network = n
<1> DEFINE r == Network(e, n)
           c == World(e, w)
           rest(made) == {Result([v EXCEPT !.network = n, !.target = IF joined.raised THEN @ ELSE w],
                                 joined.docker, joined.raised) :
                             joined \in Connect(Track(made.docker, r), r, c)}
<1>0. v \in EnvRecords /\ d \in Dockers BY DEF Kept
<1>1. r \in Resources /\ r.env = e /\ r.episode = n /\ r.kind = "network"
  BY NamesAreResources DEF Network
<1>2. c \in Resources /\ c.env = e /\ c.episode = w /\ c.kind = "world"
  BY NamesAreResources DEF World
<1>3. PICK made \in Create(d, r, {}) :
        res \in (IF made.raised THEN {Result(v, made.docker, TRUE)} ELSE rest(made))
  BY DEF JoinedNetwork
<1> HIDE DEF r, c
<1> DEFINE d1 == made.docker
           d2 == Track(d1, r)
<1>4. /\ d1 \in Dockers /\ made.raised \in BOOLEAN
      /\ d1.tracked = d.tracked /\ d.mishaps \subseteq d1.mishaps
      /\ d1.exists \subseteq d.exists \cup {r} /\ d1.joined \subseteq d.joined
      /\ made.raised => Spoilt(d1, r)
  <2>1. {} \X {r} = {} OBVIOUS
  <2>2. {} \in SUBSET Resources OBVIOUS
  <2> QED BY <1>0, <1>1, <2>1, <2>2, CreateIs
<1> HIDE DEF d1
<1>5. \A x : Spoilt(d, x) => Spoilt(d1, x) BY <1>4 DEF Spoilt
<1>6. CASE made.raised
  <2>1. res = Result(v, d1, TRUE) BY <1>3, <1>6 DEF d1
  <2>2. Accounted(d1) BY <1>4, <1>5, <1>6 DEF Kept, Accounted
  <2>3. Shaped(d1) BY <1>4 DEF Kept, Shaped
  <2>4. Known(e, v, d1) BY <1>4, <1>5 DEF Kept, Known
  <2>5. Others(e, d, d1) BY <1>4 DEF Others
  <2> QED BY <1>4, <2>1, <2>2, <2>3, <2>4, <2>5 DEF Kept, Works, SameEpisode, Result
<1>7. CASE ~made.raised
  <2>1. PICK joined \in Connect(d2, r, c) :
          res = Result([v EXCEPT !.network = n, !.target = IF joined.raised THEN @ ELSE w],
                       joined.docker, joined.raised)
    BY <1>3, <1>7 DEF d1
  <2> HIDE DEF rest
  <2>2. /\ d2 \in Dockers /\ d2.tracked = d1.tracked \cup {r}
        /\ d2.exists = d1.exists /\ d2.joined = d1.joined /\ d2.mishaps = d1.mishaps
    BY <1>1, <1>4, TrackIs
  <2> HIDE DEF d2
  <2> DEFINE d3 == joined.docker
             u == [v EXCEPT !.network = n, !.target = IF joined.raised THEN @ ELSE w]
  <2>3. /\ d3 \in Dockers /\ joined.raised \in BOOLEAN
        /\ d3.tracked = d2.tracked /\ d2.mishaps \subseteq d3.mishaps
        /\ d3.exists = d2.exists /\ d3.joined \subseteq d2.joined \cup {<<r, c>>}
        /\ joined.raised => d3.joined = d2.joined \/ Spoilt(d3, r)
    BY <1>1, <1>2, <2>2, ConnectIs
  <2>4. /\ u \in EnvRecords /\ SameEpisode(v, u) /\ u.sandbox = v.sandbox
        /\ u.network = n /\ u.target = (IF joined.raised THEN NoEpisode ELSE w)
    <3>1. n \in 0 .. MaxEpisodes /\ w \in 0 .. MaxEpisodes BY BoundsAssumption DEF Episodes
    <3> QED BY <1>0, <3>1 DEF EnvRecords, SameEpisode
  <2>5. res.env = u /\ res.docker = d3 /\ res.raised = joined.raised
    BY <2>1 DEF Result
  <2> HIDE DEF d3, u
  <2>6. \A x : Spoilt(d, x) => Spoilt(d3, x) BY <1>5, <2>2, <2>3 DEF Spoilt
  <2>7. Accounted(d3) BY <1>4, <2>2, <2>3, <2>6 DEF Kept, Accounted
  <2>8. Shaped(d3)
    <3> SUFFICES ASSUME NEW j \in d3.joined
                 PROVE  /\ j[1].kind = "network" /\ j[2].env = j[1].env
                        /\ j[2].kind = "world" \/ (j[2].kind = "sandbox" /\ j[2].episode = j[1].episode)
      BY DEF Shaped
    <3>1. CASE j \in d.joined BY <3>1 DEF Kept, Shaped
    <3>2. CASE j = <<r, c>> BY <1>1, <1>2, <3>2
    <3> QED BY <1>4, <2>2, <2>3, <3>1, <3>2
  <2>9. Known(e, u, d3)
    <3>1. u.sandbox = NoEpisode BY <2>4
    <3> SUFFICES ASSUME NEW j \in d3.joined, j[1].env = e, ~Spoilt(d3, j[1])
                 PROVE  /\ j[1].episode = u.network
                        /\ j[2].kind = "world" => j[2].episode = u.target
                        /\ j[2].kind = "sandbox" => u.sandbox = u.network
      BY <3>1 DEF Known
    <3>2. j \notin d.joined
      <4> SUFFICES ASSUME j \in d.joined PROVE FALSE OBVIOUS
      <4>1. j[1].episode = NoEpisode BY <2>6 DEF Kept, Known
      <4>2. j[1] \in Resources BY <1>0 DEF Dockers
      <4> QED BY <4>1, <4>2, ResourceNames DEF Episodes, NoEpisode
    <3>3. j = <<r, c>> /\ j \notin d2.joined BY <1>4, <2>2, <2>3, <3>2
    <3>4. ~joined.raised BY <1>1, <2>3, <3>3
    <3> QED BY <1>1, <1>2, <2>4, <3>3, <3>4
  <2>10. Handed(u) BY <2>4 DEF Handed, SameEpisode, Episodes, NoEpisode
  <2>11. Others(e, d, d3)
    <3>1. \A j \in d3.joined : j[1].env # e => j \in d.joined
      BY <1>1, <1>4, <2>2, <2>3
    <3> QED BY <1>4, <2>2, <2>3, <3>1 DEF Others
  <2> QED BY <2>3, <2>4, <2>5, <2>7, <2>8, <2>9, <2>10, <2>11 DEF Works, Kept
<1> QED BY <1>4, <1>6, <1>7

LEMMA StartedWorks ==
  ASSUME NEW e \in Envs, NEW v, NEW d, NEW n \in Episodes, NEW nets,
         Kept(e, v, d), v.handle = n, v.sandbox = NoEpisode,
         nets = {} \/ (nets = {Network(e, n)} /\ v.network = n),
         NEW res \in Started(e, v, d, n, nets)
  PROVE  Works(e, v, d, res) /\ res.env.target = v.target
<1> DEFINE r == Sandbox(e, n)
<1>0. v \in EnvRecords /\ d \in Dockers BY DEF Kept
<1>1. r \in Resources /\ r.env = e /\ r.episode = n /\ r.kind = "sandbox"
  BY NamesAreResources DEF Sandbox
<1>2. /\ nets \in SUBSET Resources
      /\ \A net \in nets : net.kind = "network" /\ net.env = e /\ net.episode = n /\ v.network = n
  BY NamesAreResources DEF Network
<1>3. PICK made \in Create(d, r, nets) :
        res = (IF made.raised THEN Result([v EXCEPT !.sandbox = NoEpisode], made.docker, TRUE)
               ELSE Result([v EXCEPT !.sandbox = n, !.surface = n], Track(made.docker, r), FALSE))
  BY DEF Started
<1> HIDE DEF r
<1> DEFINE d1 == made.docker
<1>4. /\ d1 \in Dockers /\ made.raised \in BOOLEAN
      /\ d1.tracked = d.tracked /\ d.mishaps \subseteq d1.mishaps
      /\ d1.exists \subseteq d.exists \cup {r} /\ d1.joined \subseteq d.joined \cup (nets \X {r})
      /\ made.raised => Spoilt(d1, r)
  BY <1>0, <1>1, <1>2, CreateIs
<1> HIDE DEF d1
<1>5. \A x : Spoilt(d, x) => Spoilt(d1, x) BY <1>4 DEF Spoilt
<1>6. \A j \in d1.joined : j \in d.joined \/ (j[1] \in nets /\ j[2] = r)
  BY <1>4
<1>7. Shaped(d1)
  <2> SUFFICES ASSUME NEW j \in d1.joined
               PROVE  /\ j[1].kind = "network" /\ j[2].env = j[1].env
                      /\ j[2].kind = "world" \/ (j[2].kind = "sandbox" /\ j[2].episode = j[1].episode)
    BY DEF Shaped
  <2>1. CASE j \in d.joined BY <2>1 DEF Kept, Shaped
  <2>2. CASE j[1] \in nets /\ j[2] = r BY <1>1, <1>2, <2>2
  <2> QED BY <1>6, <2>1, <2>2
<1>8. \A j \in d1.joined : j[1].env # e => j \in d.joined
  BY <1>2, <1>6
<1>9. \A j \in d1.joined : j[1].env = e /\ ~Spoilt(d1, j[1]) =>
        \/ /\ j[1].episode = v.network
           /\ j[2].kind = "world" => j[2].episode = v.target
           /\ j[2].kind # "sandbox"
        \/ j[1].episode = n /\ v.network = n /\ j[2] = r
  <2> SUFFICES ASSUME NEW j \in d1.joined, j[1].env = e, ~Spoilt(d1, j[1])
               PROVE  \/ /\ j[1].episode = v.network
                         /\ j[2].kind = "world" => j[2].episode = v.target
                         /\ j[2].kind # "sandbox"
                      \/ j[1].episode = n /\ v.network = n /\ j[2] = r
    OBVIOUS
  <2>1. CASE j \in d.joined
    <3>1. /\ j[1].episode = v.network /\ (j[2].kind = "world" => j[2].episode = v.target)
          /\ (j[2].kind = "sandbox" => v.sandbox = v.network)
      BY <1>5, <2>1 DEF Kept, Known
    <3>2. j[1] \in Resources BY <1>0, <2>1 DEF Dockers
    <3>3. v.network # NoEpisode BY <3>1, <3>2, ResourceNames DEF Episodes, NoEpisode
    <3> QED BY <3>1, <3>3
  <2>2. CASE j[1] \in nets /\ j[2] = r BY <1>2, <2>2
  <2> QED BY <1>6, <2>1, <2>2
<1>10. CASE made.raised
  <2> DEFINE w == [v EXCEPT !.sandbox = NoEpisode]
  <2>1. res.env = w /\ res.docker = d1 /\ res.raised = TRUE BY <1>3, <1>10 DEF Result, d1
  <2>2. w = v BY <1>0 DEF EnvRecords
  <2>3. Accounted(d1) BY <1>4, <1>5, <1>10 DEF Kept, Accounted
  <2>4. Known(e, v, d1)
    <3>1. \A j \in d1.joined : j[1].episode = n /\ j[1].env = e => Spoilt(d1, j[1])
      BY <1>1, <1>4, <1>10 DEF Spoilt
    <3>2. ASSUME NEW j \in d1.joined, j[1].env = e, ~Spoilt(d1, j[1])
          PROVE  /\ j[1].episode = v.network
                 /\ j[2].kind = "world" => j[2].episode = v.target
                 /\ j[2].kind # "sandbox"
      BY <1>9, <3>1, <3>2
    <3> QED BY <1>4, <3>2 DEF Kept, Known
  <2>5. Others(e, d, d1) BY <1>4, <1>8 DEF Others
  <2> QED BY <1>0, <1>4, <1>7, <2>1, <2>2, <2>3, <2>4, <2>5 DEF Works, Kept, SameEpisode
<1>11. CASE ~made.raised
  <2> DEFINE w == [v EXCEPT !.sandbox = n, !.surface = n]
             d2 == Track(d1, r)
  <2>1. res.env = w /\ res.docker = d2 /\ res.raised = FALSE BY <1>3, <1>11 DEF Result, d1
  <2>2. /\ w \in EnvRecords /\ SameEpisode(v, w) /\ w.sandbox = n
        /\ w.network = v.network /\ w.target = v.target
    <3>1. n \in 0 .. MaxEpisodes BY BoundsAssumption DEF Episodes
    <3> QED BY <1>0, <3>1 DEF EnvRecords, SameEpisode
  <2> HIDE DEF w
  <2>3. /\ d2 \in Dockers /\ d2.tracked = d1.tracked \cup {r}
        /\ d2.exists = d1.exists /\ d2.joined = d1.joined /\ d2.mishaps = d1.mishaps
    BY <1>1, <1>4, TrackIs
  <2> HIDE DEF d2
  <2>4. Accounted(d2) BY <1>4, <1>5, <2>3 DEF Kept, Accounted, Spoilt
  <2>5. Shaped(d2) BY <1>7, <2>3 DEF Shaped
  <2>6. Known(e, w, d2)
    <3>1. Sandbox(e, w.sandbox) \in d2.tracked BY <2>2, <2>3 DEF r
    <3>2. \A x : Spoilt(d2, x) <=> Spoilt(d1, x) BY <2>3 DEF Spoilt
    <3>3. ASSUME NEW j \in d2.joined, j[1].env = e, ~Spoilt(d2, j[1])
          PROVE  /\ j[1].episode = w.network
                 /\ j[2].kind = "world" => j[2].episode = w.target
                 /\ j[2].kind = "sandbox" => w.sandbox = w.network
      BY <1>1, <1>9, <2>2, <2>3, <3>2, <3>3
    <3> QED BY <3>1, <3>3 DEF Known
  <2>7. Handed(w) BY <2>2 DEF Kept, Handed, SameEpisode
  <2>8. Others(e, d, d2) BY <1>4, <1>8, <2>3 DEF Others
  <2> QED BY <2>1, <2>2, <2>3, <2>4, <2>5, <2>6, <2>7, <2>8 DEF Works, Kept
<1> QED BY <1>4, <1>10, <1>11

LEMMA StartSandboxWorks ==
  ASSUME NEW e \in Envs, NEW v, NEW d, NEW n \in Episodes, NEW w \in Episodes,
         Kept(e, v, d), v.handle = n,
         v.sandbox = NoEpisode, v.network = NoEpisode, v.target = NoEpisode,
         NEW res \in StartSandbox(e, v, d, n, w)
  PROVE  Works(e, v, d, res) /\ res.env.target \in {NoEpisode, w}
<1>1. CASE res \in Started(e, v, d, n, {})
  BY <1>1, StartedWorks
<1>2. CASE res = Result(v, d, TRUE)
  BY <1>2, LessIsKept DEF Result, Works, SameEpisode, Kept
<1>3. ASSUME NEW net \in JoinedNetwork(e, v, d, n, w),
             res \in (IF net.raised THEN {net} ELSE Started(e, net.env, net.docker, n, {Network(e, n)}))
      PROVE  Works(e, v, d, res) /\ res.env.target \in {NoEpisode, w}
  <2>1. /\ Works(e, v, d, net)
        /\ net.env.sandbox = NoEpisode /\ net.env.target \in {NoEpisode, w}
        /\ net.raised \/ net.env.network = n
    BY JoinedNetworkWorks
  <2>2. CASE net.raised BY <1>3, <2>1, <2>2
  <2>3. CASE ~net.raised
    <3>1. res \in Started(e, net.env, net.docker, n, {Network(e, n)}) BY <1>3, <2>3
    <3>2. Kept(e, net.env, net.docker) /\ net.env.handle = n BY <2>1 DEF Works, SameEpisode
    <3>3. Works(e, net.env, net.docker, res) /\ res.env.target = net.env.target
      BY <2>1, <2>3, <3>1, <3>2, StartedWorks
    <3>4. Works(e, v, d, res) BY <2>1, <3>3 DEF Works, Others, SameEpisode
    <3> QED BY <2>1, <3>3, <3>4
  <2> QED BY <2>1, <2>2, <2>3 DEF Works
<1> QED BY <1>1, <1>2, <1>3 DEF StartSandbox

\* the worlds docker hosts are not the environment's to track
LEMMA HostedWorks ==
  ASSUME NEW e \in Envs, NEW v, NEW d, Kept(e, v, d), NEW s \in Services
  PROVE  Kept(e, v, Hosted(d, e, s)) /\ Others(e, d, Hosted(d, e, s))
<1> DEFINE kept == {World(e, w) : w \in IF plan.backing = "container" THEN WorldsOf(s) ELSE {}}
           dropped == {r \in d.exists : r.kind = "world" /\ r.env = e} \ kept
           d2 == [d EXCEPT !.exists = (@ \ dropped) \cup kept, !.joined = {j \in @ : j[2] \notin dropped}]
<1>1. d \in Dockers BY DEF Kept
<1>2. kept \subseteq Resources /\ \A r \in kept : r.kind = "world"
  <2>1. WorldsOf(s) \subseteq Episodes
    BY BoundsAssumption DEF WorldsOf, Services, Episodes, NoEpisode
  <2>2. \A w \in Episodes : World(e, w) \in Resources /\ World(e, w).kind = "world"
    BY NamesAreResources DEF World
  <2> QED BY <2>1, <2>2
<1> HIDE DEF kept
<1>3. /\ d2 \in Dockers /\ d2.exists \subseteq d.exists \cup kept /\ d2.joined \subseteq d.joined
      /\ d2.tracked = d.tracked /\ d2.mishaps = d.mishaps
  BY <1>1, <1>2 DEF Dockers
<1>4. Hosted(d, e, s) = d2 BY DEF Hosted, kept
<1> HIDE DEF d2
<1>5. Accounted(d2) BY <1>2, <1>3 DEF Kept, Accounted, Spoilt
<1>6. Shaped(d2) BY <1>3 DEF Kept, Shaped
<1>7. Known(e, v, d2) BY <1>3 DEF Kept, Known, Spoilt
<1>8. Others(e, d, d2) BY <1>3 DEF Others
<1> QED BY <1>3, <1>4, <1>5, <1>6, <1>7, <1>8 DEF Kept

-----------------------------------------------------------------------------
(* The service of an environment: its worlds are never shared.             *)

\* the parts of an environment that docker knows nothing of
LEMMA FieldsKept ==
  ASSUME NEW e, NEW v, NEW d, Kept(e, v, d), NEW w \in EnvRecords,
         w.handle = v.handle, w.sandbox = v.sandbox, w.network = v.network, w.target = v.target
  PROVE  Kept(e, w, d)
BY DEF Kept, Known, Handed

LEMMA BegunIs ==
  ASSUME NEW v \in EnvRecords
  PROVE  LET w == Begun(v) IN
         /\ w \in EnvRecords /\ w.handle = v.handle /\ w.sandbox = v.sandbox /\ w.network = v.network
         /\ w.target = v.target /\ w.turns = {} /\ w.report = NoEpisode /\ w.finalized = FALSE
<1>1. NoEpisode \in 0 .. MaxEpisodes BY BoundsAssumption DEF NoEpisode
<1>2. {} \in SUBSET (0 .. MaxEpisodes) OBVIOUS
<1> QED BY <1>1, <1>2 DEF Begun, EnvRecords

LEMMA ServedFields ==
  ASSUME NEW v, NEW s, Served(v, s), NEW w, w.handle = v.handle, w.target \in {NoEpisode, v.target}
  PROVE  Served(w, s)
<1>1. \A p \in s.live : p[2] # NoEpisode
  BY DEF Served, Services, Episodes, NoEpisode
<1> QED BY <1>1 DEF Served

LEMMA AcquiredServed ==
  ASSUME NEW v \in EnvRecords, NEW s, Served(v, s), Past(v, s), NEW n \in Episodes, n = v.handle + 1,
         NEW a \in Acquired(s, n)
  PROVE  LET w == (CHOOSE p \in a.live : p[1] = n)[2] IN
         /\ w \in Episodes /\ a \in Services
         /\ a.live = s.live \cup {<<n, w>>}
         /\ \A p \in a.live : p[1] <= n /\ p[2] <= n
         /\ \A u : u.handle \in Nat /\ (u.target = NoEpisode \/ (u.target = w /\ u.handle = n))
                   => Served(u, a)
<1>1. s \in Services /\ v.handle \in Nat /\ n \in Nat /\ s.warm \in Nat
  BY BoundsAssumption DEF Served, Services, EnvRecords, Episodes
<1>2. PICK w \in {n} \cup ({s.warm} \ {NoEpisode}) :
        a = [s EXCEPT !.live = @ \cup {<<n, w>>}, !.warm = NoEpisode]
  BY DEF Acquired
<1>3. w \in Episodes /\ w <= n
  BY <1>1, <1>2 DEF Served, Services, Episodes, NoEpisode
<1>4. a \in Services /\ a.live = s.live \cup {<<n, w>>} /\ a.warm = NoEpisode
  <2>1. s.live \cup {<<n, w>>} \in SUBSET (Episodes \X Episodes) BY <1>1, <1>3 DEF Services
  <2>2. NoEpisode \in 0 .. MaxEpisodes BY BoundsAssumption DEF NoEpisode
  <2> QED BY <1>1, <1>2, <2>1, <2>2 DEF Services
<1>5. \A p \in s.live : /\ p \in Episodes \X Episodes /\ p[1] <= v.handle /\ p[2] <= v.handle
                        /\ p[1] # n /\ p[2] # w
  <2> SUFFICES ASSUME NEW p \in s.live
               PROVE  /\ p \in Episodes \X Episodes /\ p[1] <= v.handle /\ p[2] <= v.handle
                      /\ p[1] # n /\ p[2] # w
    OBVIOUS
  <2>1. p \in Episodes \X Episodes BY <1>1 DEF Services
  <2>2. p[1] <= v.handle /\ p[2] <= v.handle /\ p[2] # s.warm BY DEF Served, Past
  <2>3. p[1] \in Nat /\ p[2] \in Nat BY <2>1 DEF Episodes
  <2> QED BY <1>1, <1>2, <2>1, <2>2, <2>3
<1>6. (CHOOSE p \in a.live : p[1] = n) = <<n, w>>
  <2>1. <<n, w>> \in a.live /\ <<n, w>>[1] = n BY <1>4
  <2>2. \A p \in a.live : p[1] = n => p = <<n, w>> BY <1>4, <1>5
  <2> QED BY <2>1, <2>2
<1>7. ASSUME NEW u, u.handle \in Nat, u.target = NoEpisode \/ (u.target = w /\ u.handle = n)
      PROVE  Served(u, a)
  <2>1. ASSUME NEW p \in a.live
        PROVE  /\ p[2] # a.warm
               /\ p[2] = u.target => p[1] = u.handle
               /\ \A q \in a.live : p[1] = q[1] \/ p[2] = q[2] => p = q
    <3>1. CASE p = <<n, w>>
      BY <1>1, <1>3, <1>4, <1>5, <1>7, <3>1 DEF NoEpisode, Episodes
    <3>2. CASE p \in s.live
      <4>1. p[1] \in Nat /\ p[2] \in Nat /\ p[1] # 0 /\ p[2] # 0 BY <1>5, <3>2 DEF Episodes
      <4>2. p[2] # a.warm BY <1>4, <4>1 DEF NoEpisode
      <4>3. p[2] # u.target BY <1>5, <1>7, <3>2, <4>1 DEF NoEpisode
      <4>4. \A q \in s.live : p[1] = q[1] \/ p[2] = q[2] => p = q BY <3>2 DEF Served
      <4> QED BY <1>4, <1>5, <3>2, <4>2, <4>3, <4>4
    <3> QED BY <1>4, <3>1, <3>2
  <2>2. a.warm <= u.handle BY <1>1, <1>4, <1>7 DEF NoEpisode
  <2> QED BY <1>4, <2>1, <2>2 DEF Served
<1>8. (CHOOSE p \in a.live : p[1] = n)[2] = w
  <2>1. <<n, w>>[2] = w OBVIOUS
  <2> QED BY <1>6, <2>1, Zenon
<1>9. \A p \in a.live : p[1] <= n /\ p[2] <= n
  <2> SUFFICES ASSUME NEW p \in a.live PROVE p[1] <= n /\ p[2] <= n
    OBVIOUS
  <2>1. CASE p = <<n, w>> BY <1>1, <1>3, <2>1
  <2>2. CASE p \in s.live
    <3>1. p[1] \in Nat /\ p[2] \in Nat BY <1>5, <2>2 DEF Episodes
    <3> QED BY <1>1, <1>5, <2>2, <3>1
  <2> QED BY <1>4, <2>1, <2>2
<1> QED BY <1>3, <1>4, <1>7, <1>8, <1>9

LEMMA ReleasedServed ==
  ASSUME NEW v \in EnvRecords, NEW s, Served(v, s), Past(v, s), NEW n, n = v.handle,
         \E p \in s.live : p[1] = n, NEW a \in Released(s, n)
  PROVE  Served(v, a) /\ a \in Services /\ a.live \subseteq s.live /\ \A p \in a.live : p[1] # n
<1> DEFINE c == CHOOSE p \in s.live : p[1] = n
           w == c[2]
           gone == [s EXCEPT !.live = @ \ {<<n, w>>}]
<1>1. c \in s.live /\ c[1] = n OBVIOUS
<1>2. s \in Services /\ c \in Episodes \X Episodes BY <1>1 DEF Served, Services
<1>3. a = gone \/ a = [gone EXCEPT !.warm = w] BY DEF Released
<1> HIDE DEF c
<1>4. c = <<n, w>> /\ w \in Episodes BY <1>1, <1>2
<1>5. gone \in Services /\ gone.live = s.live \ {c} /\ gone.warm = s.warm
  BY <1>2, <1>4 DEF Services
<1> HIDE DEF gone
<1>6. a \in Services /\ a.live = s.live \ {c} /\ a.warm \in {s.warm, w}
  <2>1. w \in 0 .. MaxEpisodes BY <1>4, BoundsAssumption DEF Episodes
  <2> QED BY <1>3, <1>5, <2>1 DEF Services
<1>7. \A p \in a.live : p[1] # n /\ p[2] # w
  BY <1>1, <1>6 DEF Served
<1>8. w <= v.handle BY <1>1 DEF Past
<1>9. Served(v, a) BY <1>6, <1>7, <1>8 DEF Served
<1> QED BY <1>6, <1>7, <1>9

-----------------------------------------------------------------------------
(* Steps of one environment, and of the trainer.                           *)

LEMMA OrderIsSeq == Order \in Seq(Envs)
<1>1. PICK n \in Nat : ExistsBijection(1 .. n, Envs)
  BY EnvsAssumption, FS_NatBijection
<1>2. Cardinality(Envs) = n
  BY <1>1, FS_CountingElements
<1>3. PICK f \in [1 .. n -> Envs] : IsInjective(f)
  <2>1. PICK f \in Bijection(1 .. n, Envs) : TRUE BY <1>1 DEF ExistsBijection
  <2> QED BY <2>1 DEF Bijection, Injection, IsInjective
<1>4. Order \in [1 .. n -> Envs]
  BY <1>2, <1>3 DEF Order, SetToSeq
<1> QED BY <1>4

(* What a step of environment e has to show: its fields, its service and   *)
(* docker agree, and what is recorded and collected of it.                 *)
LEMMA EnvStep ==
  ASSUME RoundInv, phase # "exited", NEW e \in Envs, NEW v, NEW s, NEW d, NEW c \in SUBSET Episodes,
         Kept(e, v, d), Others(e, docker, d), Served(v, s), Scores(v, s, c),
         env' = [env EXCEPT ![e] = v], service' = [service EXCEPT ![e] = s], docker' = d,
         collected' = [collected EXCEPT ![e] = c], plan' = plan,
         phase' \in {"prepare", "rollout", "reward", "closing", "over"}, queue' \in Seq(Envs),
         Going' => Going /\ AtHand(v, s)
  PROVE  RoundInv'
<1>1. v \in EnvRecords /\ d \in Dockers /\ s \in Services BY DEF Kept, Served
<1>2. /\ env' \in [Envs -> EnvRecords] /\ service' \in [Envs -> Services]
      /\ docker' \in Dockers /\ collected' \in [Envs -> SUBSET Episodes]
      /\ env'[e] = v /\ service'[e] = s /\ collected'[e] = c
      /\ \A x \in Envs \ {e} : env'[x] = env[x] /\ service'[x] = service[x] /\ collected'[x] = collected[x]
  BY <1>1 DEF RoundInv
<1>3. ASSUME NEW x \in Envs
      PROVE  /\ Served(env'[x], service'[x]) /\ Scores(env'[x], service'[x], collected'[x])
             /\ Going' => AtHand(env'[x], service'[x])
  BY <1>2 DEF RoundInv
<1>4. ASSUME NEW x \in Envs PROVE Known(x, env'[x], docker') /\ Handed(env'[x])
  <2>1. CASE x = e BY <1>2, <2>1 DEF Kept
  <2>2. CASE x # e
    <3>1. Known(x, env[x], docker) /\ Handed(env[x]) /\ env'[x] = env[x] BY <1>2, <2>2 DEF RoundInv
    <3>2. Known(x, env[x], d)
      <4>1. ASSUME env[x].sandbox # NoEpisode PROVE Sandbox(x, env[x].sandbox) \in d.tracked
        <5>1. Sandbox(x, env[x].sandbox) \in docker.tracked BY <3>1, <4>1 DEF Known
        <5>2. Sandbox(x, env[x].sandbox).env # e BY <2>2 DEF Sandbox
        <5> QED BY <5>1, <5>2 DEF Others
      <4>2. ASSUME NEW j \in d.joined, j[1].env = x
            PROVE  \/ Spoilt(d, j[1])
                   \/ /\ j[1].episode = env[x].network
                      /\ j[2].kind = "world" => j[2].episode = env[x].target
                      /\ j[2].kind = "sandbox" => env[x].sandbox = env[x].network
        <5>1. j \in docker.joined BY <2>2, <4>2 DEF Others
        <5>2. Spoilt(docker, j[1]) => Spoilt(d, j[1]) BY DEF Others, Spoilt
        <5> QED BY <3>1, <4>2, <5>1, <5>2 DEF Known
      <4> QED BY <4>1, <4>2 DEF Known
    <3> QED BY <3>1, <3>2
  <2> QED BY <2>1, <2>2
<1>5. Accounted(docker') /\ Shaped(docker') BY DEF Kept
<1>6. plan' \in Plans BY DEF RoundInv
<1> QED BY <1>2, <1>3, <1>4, <1>5, <1>6 DEF RoundInv

\* the trainer moves on, and touches no environment
LEMMA TrainerStep ==
  ASSUME RoundInv, phase # "exited", UNCHANGED <<env, service, docker, collected>>, plan' \in Plans,
         phase' \in {"prepare", "rollout", "reward", "closing", "over"}, queue' \in Seq(Envs),
         Going' => Going
  PROVE  RoundInv'
BY DEF RoundInv

LEMMA AbandonMoves ==
  ASSUME Abandon PROVE phase' \in {"closing", "over"} /\ queue' \in Seq(Envs) /\ ~Going'
<1> <<>> \in Seq(Envs) OBVIOUS
<1> QED BY OrderIsSeq DEF Abandon, Going

\* what _finalize leaves of an environment, whether it raised or not
LEMMA FinalizedKeeps ==
  ASSUME RoundInv, Going, NEW e \in Envs, NEW out \in Finalized(e)
  PROVE  LET v == out.env
             s == out.service
         IN /\ Kept(e, v, out.docker) /\ Others(e, docker, out.docker) /\ Served(v, s)
            /\ AtHand(v, s) /\ Scores(v, s, collected[e]) /\ out.raised \in BOOLEAN
<1> USE DEF NoEpisode
<1> DEFINE u == env[e]
           v == [u EXCEPT !.finalized = TRUE]
           s0 == service[e]
           Ended(w, s, d, raised) == [env |-> w, service |-> s, docker |-> d, raised |-> raised]
           Graded(s, w, d) == \/ out = Ended(w, s, d, TRUE)
                              \/ \E down \in Teardown(e, w, d) :
                                    out = Ended(down.env, s, down.docker, down.raised)
<1>1. /\ u \in EnvRecords /\ Kept(e, u, docker) /\ Served(u, s0) /\ s0 \in Services
      /\ AtHand(u, s0) /\ Scores(u, s0, collected[e])
  BY DEF RoundInv, Going, Kept
<1>2. /\ v \in EnvRecords /\ v.handle = u.handle /\ v.sandbox = u.sandbox /\ v.network = u.network
      /\ v.target = u.target /\ v.turns = u.turns /\ v.report = u.report /\ v.finalized = TRUE
  BY <1>1 DEF EnvRecords
<1>3. /\ out = Ended(v, s0, docker, FALSE) \/ out = Ended(v, s0, docker, TRUE)
      \/ /\ ~u.finalized /\ v.handle # NoEpisode
         /\ \E s \in Released(s0, v.handle) :
               Graded(s, [v EXCEPT !.report = v.handle], Hosted(docker, e, s))
  BY DEF Finalized
<1> HIDE DEF v
<1>4. CASE out = Ended(v, s0, docker, FALSE) \/ out = Ended(v, s0, docker, TRUE)
  <2>1. out.env = v /\ out.service = s0 /\ out.docker = docker /\ out.raised \in BOOLEAN
    <3>1. CASE out = Ended(v, s0, docker, FALSE) BY <3>1
    <3>2. CASE out = Ended(v, s0, docker, TRUE) BY <3>2
    <3> QED BY <1>4, <3>1, <3>2
  <2>2. Kept(e, v, docker) BY <1>1, <1>2, FieldsKept
  <2>3. Served(v, s0) BY <1>1, <1>2, ServedFields
  <2>4. AtHand(v, s0) BY <1>1, <1>2 DEF AtHand, Past
  <2>5. Scores(v, s0, collected[e]) BY <1>1, <1>2 DEF Scores
  <2>6. Others(e, docker, docker) BY DEF Others
  <2> QED BY <2>1, <2>2, <2>3, <2>4, <2>5, <2>6
<1>5. CASE /\ ~u.finalized /\ v.handle # NoEpisode
           /\ \E s \in Released(s0, v.handle) :
                 Graded(s, [v EXCEPT !.report = v.handle], Hosted(docker, e, s))
  <2> DEFINE w == [v EXCEPT !.report = v.handle]
  <2> DEFINE Kept1(x, d, raised) == Kept(e, x, d) /\ Others(e, docker, d) /\ SameEpisode(w, x)
                                      /\ x.target \in {NoEpisode, w.target} /\ raised \in BOOLEAN
  <2>1. PICK s \in Released(s0, v.handle) : Graded(s, w, Hosted(docker, e, s))
    BY <1>5
  <2>3. /\ w \in EnvRecords /\ w.handle = u.handle /\ w.sandbox = u.sandbox /\ w.network = u.network
        /\ w.target = u.target /\ w.turns = u.turns /\ w.report = u.handle /\ w.finalized = TRUE
    BY <1>2 DEF EnvRecords
  <2> HIDE DEF w
  <2>4. (\E p \in s0.live : p[1] = u.handle) /\ Past(u, s0) BY <1>1, <1>2, <1>5 DEF AtHand
  <2>5. Served(u, s) /\ s \in Services /\ s.live \subseteq s0.live /\ \A p \in s.live : p[1] # u.handle
    BY <1>1, <1>2, <2>4, ReleasedServed
  <2>6. Kept(e, w, docker) BY <1>1, <2>3, FieldsKept
  <2>7. Kept(e, w, Hosted(docker, e, s)) /\ Others(e, docker, Hosted(docker, e, s))
    BY <2>5, <2>6, HostedWorks
  <2>8. out.service = s /\ Kept1(out.env, out.docker, out.raised)
    <3>1. CASE out = Ended(w, s, Hosted(docker, e, s), TRUE) BY <2>7, <3>1 DEF SameEpisode
    <3>2. CASE \E down \in Teardown(e, w, Hosted(docker, e, s)) :
                 out = Ended(down.env, s, down.docker, down.raised)
      <4>1. PICK down \in Teardown(e, w, Hosted(docker, e, s)) :
              out = Ended(down.env, s, down.docker, down.raised)
        BY <3>2
      <4>2. Works(e, w, Hosted(docker, e, s), down) /\ down.env.target \in {NoEpisode, w.target}
        BY <2>7, TeardownWorks
      <4>3. out.env = down.env /\ out.service = s /\ out.docker = down.docker /\ out.raised = down.raised
        BY <4>1
      <4>4. Others(e, docker, down.docker) BY <2>7, <4>2 DEF Works, Others
      <4> QED BY <4>2, <4>3, <4>4 DEF Works
    <3> QED BY <2>1, <3>1, <3>2
  <2> DEFINE x == out.env
  <2>9. x.handle = u.handle /\ x.turns = u.turns /\ x.report = u.handle /\ x.finalized = TRUE
    BY <2>3, <2>8 DEF SameEpisode
  <2>10. Served(x, s) BY <2>3, <2>5, <2>8, <2>9, ServedFields
  <2>11. AtHand(x, s) BY <1>1, <2>5, <2>9 DEF AtHand, Past
  <2>12. Scores(x, s, collected[e])
    <3>1. u.turns \subseteq {u.handle} BY <1>1 DEF AtHand
    <3> QED BY <1>1, <2>5, <2>9, <3>1 DEF Scores
  <2> QED BY <2>8, <2>10, <2>11, <2>12
<1> QED BY <1>3, <1>4, <1>5

LEMMA ResetStep ==
  ASSUME RoundInv, NEW e \in Envs, Reset(e) PROVE RoundInv'
<1> USE DEF NoEpisode
<1> DEFINE n == env[e].handle + 1
           u == env[e]
           s0 == service[e]
<1>1. phase = "rollout" /\ Going /\ env[e].handle < MaxEpisodes /\ plan' = plan /\ collected' = collected
  BY DEF Reset, Going
<1>2. /\ u \in EnvRecords /\ Kept(e, u, docker) /\ Served(u, s0) /\ s0 \in Services
      /\ AtHand(u, s0) /\ Past(u, s0) /\ Scores(u, s0, collected[e])
      /\ collected[e] \in SUBSET Episodes /\ collected' = [collected EXCEPT ![e] = collected[e]]
  BY <1>1 DEF RoundInv, Going, Kept, AtHand
<1>3. n \in Episodes BY <1>1, <1>2, BoundsAssumption DEF EnvRecords, Episodes
<1>4. PICK down \in Teardown(e, u, docker) :
        \/ /\ env' = [env EXCEPT ![e] = down.env]
           /\ \E s \in {s0} \cup (IF down.raised THEN {} ELSE Unstarted(s0, n)) :
                /\ service' = [service EXCEPT ![e] = s]
                /\ docker' = Hosted(down.docker, e, s)
           /\ Abandon
        \/ /\ ~down.raised
           /\ \E s \in Acquired(s0, n) :
              LET started == [down.env EXCEPT !.handle = n]
                  hosted == Hosted(down.docker, e, s)
                  world == (CHOOSE p \in s.live : p[1] = n)[2]
                  results == IF plan.sandbox THEN StartSandbox(e, started, hosted, n, world)
                             ELSE {Result([started EXCEPT !.surface = n], hosted, FALSE)}
              IN \E up \in results :
                   /\ env' = [env EXCEPT ![e] = IF up.raised THEN up.env ELSE Begun(up.env)]
                   /\ docker' = up.docker
                   /\ service' = [service EXCEPT ![e] = s]
                   /\ IF up.raised THEN Abandon ELSE UNCHANGED <<phase, queue>>
  BY DEF Reset
<1>5. /\ Works(e, u, docker, down) /\ down.env.target \in {NoEpisode, u.target}
      /\ down.raised \/ (/\ down.env.sandbox = NoEpisode /\ down.env.network = NoEpisode
                         /\ down.env.target = NoEpisode)
  BY <1>2, TeardownWorks
<1>6. /\ Kept(e, down.env, down.docker) /\ Others(e, docker, down.docker) /\ SameEpisode(u, down.env)
      /\ down.env \in EnvRecords
  BY <1>5 DEF Works, Kept
<1>7. CASE /\ env' = [env EXCEPT ![e] = down.env]
           /\ \E s \in {s0} \cup (IF down.raised THEN {} ELSE Unstarted(s0, n)) :
                /\ service' = [service EXCEPT ![e] = s]
                /\ docker' = Hosted(down.docker, e, s)
           /\ Abandon
  <2>1. PICK s : /\ \/ s = s0 \/ s = [s0 EXCEPT !.warm = NoEpisode]
                    \/ ~down.raised /\ s \in Acquired(s0, n)
                 /\ service' = [service EXCEPT ![e] = s] /\ docker' = Hosted(down.docker, e, s)
    BY <1>7 DEF Unstarted
  <2>2. s \in Services /\ Served(down.env, s) /\ Scores(down.env, s, collected[e])
    <3>1. CASE s = s0 \/ s = [s0 EXCEPT !.warm = NoEpisode]
      <4>1. s \in Services /\ s.live = s0.live /\ s.warm \in {NoEpisode, s0.warm}
        BY <1>2, <3>1, BoundsAssumption DEF Services
      <4>2. \A p \in s.live : p[2] # NoEpisode BY <4>1 DEF Services, Episodes
      <4>3. u.handle \in Nat BY <1>2 DEF EnvRecords
      <4>4. Served(u, s) BY <1>2, <4>1, <4>2, <4>3 DEF Served
      <4>5. Served(down.env, s) BY <1>5, <1>6, <4>4, ServedFields DEF SameEpisode
      <4> QED BY <1>2, <1>6, <4>1, <4>5 DEF Scores, SameEpisode
    <3>2. CASE ~down.raised /\ s \in Acquired(s0, n)
      <4>1. down.env.handle = u.handle /\ u.handle \in Nat /\ down.env.target = NoEpisode
        BY <1>2, <1>5, <1>6, <3>2 DEF EnvRecords, SameEpisode
      <4> DEFINE w == (CHOOSE p \in s.live : p[1] = n)[2]
      <4>2. /\ s \in Services /\ s.live = s0.live \cup {<<n, w>>}
            /\ \A x : x.handle \in Nat /\ x.target = NoEpisode => Served(x, s)
        BY <1>2, <1>3, <3>2, AcquiredServed
      <4> HIDE DEF w
      <4>3. \A p \in s.live : p[1] = n \/ p \in s0.live BY <4>2
      <4>4. collected[e] \subseteq 1 .. u.handle BY <1>2 DEF Scores
      <4>5. n \notin collected[e] BY <4>1, <4>4
      <4>6. Served(down.env, s) BY <4>1, <4>2
      <4> QED BY <1>2, <1>6, <4>1, <4>2, <4>3, <4>5, <4>6 DEF Scores, SameEpisode
    <3> QED BY <2>1, <3>1, <3>2
  <2>6. Kept(e, down.env, docker') /\ Others(e, docker, docker')
    <3>1. Kept(e, down.env, docker') /\ Others(e, down.docker, docker')
      BY <1>6, <2>1, <2>2, HostedWorks
    <3> QED BY <1>6, <3>1 DEF Others
  <2>7. phase' \in {"closing", "over"} /\ queue' \in Seq(Envs) /\ ~Going' BY <1>7, AbandonMoves
  <2> QED BY <1>1, <1>2, <1>7, <2>1, <2>2, <2>6, <2>7, EnvStep
<1>8. ASSUME ~down.raised, NEW s \in Acquired(s0, n), NEW up,
             LET started == [down.env EXCEPT !.handle = n]
                 hosted == Hosted(down.docker, e, s)
                 world == (CHOOSE p \in s.live : p[1] = n)[2]
             IN up \in (IF plan.sandbox THEN StartSandbox(e, started, hosted, n, world)
                        ELSE {Result([started EXCEPT !.surface = n], hosted, FALSE)}),
             env' = [env EXCEPT ![e] = IF up.raised THEN up.env ELSE Begun(up.env)],
             docker' = up.docker, service' = [service EXCEPT ![e] = s],
             IF up.raised THEN Abandon ELSE UNCHANGED <<phase, queue>>
      PROVE  RoundInv'
  <2> DEFINE w == (CHOOSE p \in s.live : p[1] = n)[2]
             started == [down.env EXCEPT !.handle = n]
             hosted == Hosted(down.docker, e, s)
             v == IF up.raised THEN up.env ELSE Begun(up.env)
  <2>1. /\ w \in Episodes /\ s \in Services /\ s.live = s0.live \cup {<<n, w>>}
        /\ \A x : x.handle = n /\ x.target \in {NoEpisode, w} => Served(x, s)
        /\ \A p \in s.live : p[1] <= n /\ p[2] <= n
    <3>1. n \in Nat BY <1>3 DEF Episodes
    <3> QED BY <1>2, <1>3, <3>1, AcquiredServed
  <2>2. up \in (IF plan.sandbox THEN StartSandbox(e, started, hosted, n, w)
                ELSE {Result([started EXCEPT !.surface = n], hosted, FALSE)})
    BY <1>8
  <2> HIDE DEF w
  <2>3. /\ started \in EnvRecords /\ started.handle = n
        /\ started.sandbox = NoEpisode /\ started.network = NoEpisode /\ started.target = NoEpisode
        /\ started.turns = u.turns /\ started.report = u.report
    <3>1. n \in 0 .. MaxEpisodes BY <1>3, BoundsAssumption DEF Episodes
    <3> QED BY <1>5, <1>6, <1>8, <3>1 DEF EnvRecords, SameEpisode
  <2> HIDE DEF started
  <2>4. Kept(e, started, down.docker) BY <1>5, <1>6, <1>8, <2>3 DEF Kept, Known, Handed
  <2>5. Kept(e, started, hosted) /\ Others(e, docker, hosted)
    <3>1. Kept(e, started, hosted) /\ Others(e, down.docker, hosted)
      BY <2>1, <2>4, HostedWorks
    <3> QED BY <1>6, <3>1 DEF Others
  <2> HIDE DEF hosted
  <2>6. Works(e, started, hosted, up) /\ up.env.target \in {NoEpisode, w}
    <3>1. CASE plan.sandbox
      BY <1>3, <2>1, <2>2, <2>3, <2>5, <3>1, StartSandboxWorks
    <3>2. CASE ~plan.sandbox
      <4> DEFINE x == [started EXCEPT !.surface = n]
      <4>1. up.env = x /\ up.docker = hosted /\ up.raised = FALSE BY <2>2, <3>2 DEF Result
      <4>2. /\ x \in EnvRecords /\ SameEpisode(started, x) /\ x.sandbox = started.sandbox
            /\ x.network = started.network /\ x.target = started.target
        <5>1. n \in 0 .. MaxEpisodes BY <1>3, BoundsAssumption DEF Episodes
        <5> QED BY <2>3, <5>1 DEF EnvRecords, SameEpisode
      <4> HIDE DEF x
      <4>3. Kept(e, x, hosted) BY <2>5, <4>2, FieldsKept DEF SameEpisode
      <4>4. Others(e, hosted, hosted) BY DEF Others
      <4> QED BY <2>3, <4>1, <4>2, <4>3, <4>4 DEF Works
    <3> QED BY <3>1, <3>2
  <2>7. /\ up.env \in EnvRecords /\ up.env.handle = n /\ up.env.turns = u.turns
        /\ up.env.report = u.report /\ up.raised \in BOOLEAN
    BY <2>3, <2>6 DEF Works, Kept, SameEpisode
  <2>8. /\ v \in EnvRecords /\ v.handle = n /\ v.sandbox = up.env.sandbox
        /\ v.network = up.env.network /\ v.target = up.env.target
        /\ up.raised => v = up.env
        /\ ~up.raised => v.turns = {} /\ v.report = NoEpisode /\ v.finalized = FALSE
    <3>1. CASE up.raised BY <2>7, <3>1
    <3>2. CASE ~up.raised
      <4>1. v = Begun(up.env) BY <3>2
      <4> QED BY <2>7, <3>2, <4>1, BegunIs
    <3> QED BY <2>7, <3>1, <3>2
  <2>9. env' = [env EXCEPT ![e] = v] BY <1>8
  <2> HIDE DEF v
  <2>10. Kept(e, v, docker') /\ Others(e, docker, docker')
    <3>1. Kept(e, v, up.docker) BY <2>6, <2>7, <2>8, FieldsKept DEF Works
    <3> QED BY <1>8, <2>5, <2>6, <3>1 DEF Works, Others
  <2>11. Served(v, s) BY <2>1, <2>6, <2>8
  <2>12. Scores(v, s, collected[e])
    <3>1. v.report # NoEpisode => v.turns \subseteq {v.report}
      BY <1>2, <2>7, <2>8 DEF Scores
    <3>2. collected[e] \subseteq 1 .. u.handle /\ u.handle \in Nat BY <1>2 DEF Scores, EnvRecords
    <3>3. \A p \in s.live : p[1] \notin collected[e]
      BY <1>2, <2>1, <3>2 DEF Scores
    <3>4. collected[e] \subseteq 1 .. v.handle BY <2>8, <3>2
    <3> QED BY <3>1, <3>3, <3>4 DEF Scores
  <2>13. CASE up.raised
    <3>1. phase' \in {"closing", "over"} /\ queue' \in Seq(Envs) /\ ~Going' BY <1>8, <2>13, AbandonMoves
    <3> QED BY <1>1, <1>2, <1>8, <2>9, <2>10, <2>11, <2>12, <3>1, EnvStep
  <2>14. CASE ~up.raised
    <3>1. AtHand(v, s)
      <4>1. <<n, w>> \in s.live /\ <<n, w>>[1] = v.handle BY <2>1, <2>8
      <4>2. v.turns = {} /\ v.report = NoEpisode BY <2>8, <2>14
      <4>3. Past(v, s) BY <2>1, <2>8 DEF Past
      <4> QED BY <4>1, <4>2, <4>3 DEF AtHand
    <3>2. phase' = phase /\ queue' = queue /\ queue \in Seq(Envs) BY <1>8, <2>14 DEF RoundInv
    <3> QED BY <1>1, <1>2, <1>8, <2>9, <2>10, <2>11, <2>12, <3>1, <3>2, EnvStep
  <2> QED BY <2>13, <2>14
<1> QED BY <1>4, <1>7, <1>8

LEMMA ToolCallStep ==
  ASSUME RoundInv, NEW e \in Envs, ToolCall(e) PROVE RoundInv'
<1> DEFINE u == env[e]
           s == service[e]
           v == [u EXCEPT !.turns = @ \cup {u.handle}]
<1>1. phase = "rollout" /\ Going /\ plan' = plan /\ service' = service /\ docker' = docker /\ collected' = collected
  BY DEF ToolCall, Going
<1>2. /\ u \in EnvRecords /\ Kept(e, u, docker) /\ Served(u, s)
      /\ AtHand(u, s) /\ Scores(u, s, collected[e])
      /\ collected[e] \in SUBSET Episodes /\ collected' = [collected EXCEPT ![e] = collected[e]]
      /\ service' = [service EXCEPT ![e] = s] /\ queue \in Seq(Envs)
  BY <1>1 DEF RoundInv, Going, Kept
<1>3. /\ v \in EnvRecords /\ v.handle = u.handle /\ v.sandbox = u.sandbox /\ v.network = u.network
      /\ v.target = u.target /\ v.turns = u.turns \cup {u.handle} /\ v.report = u.report
      /\ v.finalized = u.finalized
  BY <1>2 DEF EnvRecords
<1>4. env' = [env EXCEPT ![e] = v]
  BY DEF ToolCall, Record
<1> HIDE DEF v
<1>5. Kept(e, v, docker) BY <1>2, <1>3, FieldsKept
<1>6. Served(v, s) BY <1>2, <1>3, ServedFields
<1>7. AtHand(v, s) BY <1>2, <1>3 DEF AtHand, Past
<1>8. Scores(v, s, collected[e]) BY <1>2, <1>3 DEF Scores, AtHand
<1>9. Others(e, docker, docker) BY DEF Others
<1>10. phase' \in {"rollout", "closing", "over"} /\ queue' \in Seq(Envs)
  <2>1. Abandon \/ (phase' = phase /\ queue' = queue) BY DEF ToolCall, Record
  <2> QED BY <1>1, <1>2, <2>1, AbandonMoves
<1> QED BY <1>1, <1>2, <1>4, <1>5, <1>6, <1>7, <1>8, <1>9, <1>10, EnvStep

\* env_trajectory, and the visit of the reward function to one environment
LEMMA FinalizedStep ==
  ASSUME RoundInv, Going, NEW e \in Envs, NEW out \in Finalized(e), Takes(e, out),
         plan' = plan, phase' \in {"prepare", "rollout", "reward", "closing", "over"}, queue' \in Seq(Envs),
         \/ collected' = collected
         \/ out.env.report # NoEpisode
             /\ collected' = [collected EXCEPT ![e] = @ \cup {out.env.report}]
  PROVE  RoundInv'
<1> DEFINE v == out.env
           s == out.service
           c == collected'[e]
<1>1. /\ Kept(e, v, out.docker) /\ Others(e, docker, out.docker) /\ Served(v, s)
      /\ AtHand(v, s) /\ Scores(v, s, collected[e])
  BY FinalizedKeeps
<1>2. collected \in [Envs -> SUBSET Episodes] /\ phase # "exited" BY DEF RoundInv, Going
<1>3. v \in EnvRecords BY <1>1 DEF Kept
<1>4. c \in SUBSET Episodes /\ collected' = [collected EXCEPT ![e] = c] /\ Scores(v, s, c)
  <2>1. CASE collected' = collected BY <1>1, <1>2, <2>1
  <2>2. CASE v.report # NoEpisode /\ collected' = [collected EXCEPT ![e] = @ \cup {v.report}]
    <3>1. v.report \in Episodes /\ v.report = v.handle
      BY <1>1, <1>3, <2>2 DEF AtHand, EnvRecords, Episodes, NoEpisode
    <3>2. c = collected[e] \cup {v.report} BY <1>2, <2>2
    <3>3. Scores(v, s, c)
      <4>1. v.report \in 1 .. v.handle BY <3>1, BoundsAssumption DEF Episodes
      <4> QED BY <1>1, <2>2, <3>2, <4>1 DEF Scores, AtHand
    <3> QED BY <1>2, <2>2, <3>1, <3>2, <3>3
  <2> QED BY <2>1, <2>2
<1> HIDE DEF c
<1> QED BY <1>1, <1>2, <1>4, EnvStep DEF Takes

LEMMA EnvTrajectoryStep ==
  ASSUME RoundInv, NEW e \in Envs, EnvTrajectory(e) PROVE RoundInv'
<1>1. PICK out \in Finalized(e) :
        /\ Takes(e, out)
        /\ IF out.raised \/ out.env.report = NoEpisode THEN Abandon ELSE UNCHANGED <<phase, queue>>
  BY DEF EnvTrajectory
<1>2. phase = "rollout" /\ Going /\ plan' = plan /\ collected' = collected BY DEF EnvTrajectory, Going
<1>3. phase' \in {"rollout", "closing", "over"} /\ queue' \in Seq(Envs)
  <2>1. Abandon \/ (phase' = phase /\ queue' = queue) BY <1>1
  <2> QED BY <1>2, <2>1, AbandonMoves DEF RoundInv
<1> QED BY <1>1, <1>2, <1>3, FinalizedStep

LEMMA FinalizeStep ==
  ASSUME RoundInv, Finalize PROVE RoundInv'
<1> DEFINE e == Head(queue)
<1>1. phase = "reward" /\ Going /\ plan' = plan /\ queue # <<>> /\ queue \in Seq(Envs)
  BY DEF Finalize, Going, RoundInv
<1>2. e \in Envs /\ Tail(queue) \in Seq(Envs) BY <1>1
<1>3. PICK out \in Finalized(e) :
        /\ Takes(e, out)
        /\ IF out.raised THEN Abandon /\ UNCHANGED collected
           ELSE /\ collected' = Collect(e, out.env)
                /\ queue' = Tail(queue)
                /\ UNCHANGED phase
  BY DEF Finalize
<1> HIDE DEF e
<1>4. phase' \in {"reward", "closing", "over"} /\ queue' \in Seq(Envs)
  <2>1. Abandon \/ (phase' = phase /\ queue' = Tail(queue)) BY <1>3
  <2> QED BY <1>1, <1>2, <2>1, AbandonMoves
<1>5. \/ collected' = collected
      \/ out.env.report # NoEpisode
          /\ collected' = [collected EXCEPT ![e] = @ \cup {out.env.report}]
  BY <1>3 DEF Collect
<1> QED BY <1>1, <1>2, <1>3, <1>4, <1>5, FinalizedStep

LEMMA CloseEnvStep ==
  ASSUME RoundInv, CloseEnv PROVE RoundInv'
<1> DEFINE e == Head(queue)
           u == env[e]
           s0 == service[e]
<1>1. phase = "closing" /\ ~Going /\ queue # <<>> /\ queue \in Seq(Envs) /\ plan' = plan /\ collected' = collected
  BY DEF CloseEnv, Going, RoundInv
<1>2. e \in Envs /\ Tail(queue) \in Seq(Envs) BY <1>1
<1>3. PICK down \in Teardown(e, u, docker) :
        /\ env' = [env EXCEPT ![e] = down.env]
        /\ IF down.raised
           THEN docker' = down.docker /\ phase' = "over" /\ UNCHANGED <<queue, service>>
           ELSE /\ docker' = Hosted(down.docker, e, IdleService)
                /\ service' = [service EXCEPT ![e] = IdleService]
                /\ queue' = Tail(queue)
                /\ phase' = IF Tail(queue) = <<>> THEN "over" ELSE phase
  BY DEF CloseEnv
<1> HIDE DEF e
<1>4. /\ u \in EnvRecords /\ Kept(e, u, docker) /\ Served(u, s0) /\ Scores(u, s0, collected[e])
      /\ collected[e] \in SUBSET Episodes /\ collected' = [collected EXCEPT ![e] = collected[e]]
      /\ service = [service EXCEPT ![e] = s0]
  BY <1>1, <1>2 DEF RoundInv, Kept
<1>5. /\ Kept(e, down.env, down.docker) /\ Others(e, docker, down.docker) /\ SameEpisode(u, down.env)
      /\ down.env.target \in {NoEpisode, u.target} /\ down.raised \in BOOLEAN /\ down.env \in EnvRecords
  BY <1>2, <1>4, TeardownWorks DEF Works, Kept
<1>6. CASE down.raised
  <2>1. Served(down.env, s0) BY <1>4, <1>5, ServedFields DEF SameEpisode
  <2>2. Scores(down.env, s0, collected[e]) BY <1>4, <1>5 DEF Scores, SameEpisode
  <2>3. ~Going' /\ phase' = "over" /\ queue' \in Seq(Envs) BY <1>1, <1>3, <1>6 DEF Going
  <2>4. env' = [env EXCEPT ![e] = down.env] /\ docker' = down.docker /\ service' = [service EXCEPT ![e] = s0]
    BY <1>3, <1>4, <1>6
  <2> QED BY <1>1, <1>2, <1>4, <1>5, <2>1, <2>2, <2>3, <2>4, EnvStep
<1>7. CASE ~down.raised
  <2>1. IdleService \in Services /\ IdleService.live = {} /\ IdleService.warm = 0
    BY BoundsAssumption DEF IdleService, Services, NoEpisode
  <2>2. Served(down.env, IdleService)
    <3>1. down.env.handle \in Nat BY <1>5 DEF EnvRecords
    <3> QED BY <2>1, <3>1 DEF Served
  <2>3. Scores(down.env, IdleService, collected[e])
    BY <1>4, <1>5, <2>1 DEF Scores, SameEpisode
  <2>4. ~Going' /\ phase' \in {"over", "closing"} /\ queue' \in Seq(Envs)
    BY <1>1, <1>2, <1>3, <1>7 DEF Going
  <2>5. Kept(e, down.env, docker') /\ Others(e, docker, docker')
    <3>1. docker' = Hosted(down.docker, e, IdleService) BY <1>3, <1>7
    <3>2. Kept(e, down.env, docker') /\ Others(e, down.docker, docker')
      BY <1>2, <1>5, <2>1, <3>1, HostedWorks
    <3> QED BY <1>5, <3>2 DEF Others
  <2>6. env' = [env EXCEPT ![e] = down.env] /\ service' = [service EXCEPT ![e] = IdleService]
    BY <1>3, <1>7
  <2> QED BY <1>1, <1>2, <1>4, <2>2, <2>3, <2>4, <2>5, <2>6, EnvStep
<1> QED BY <1>5, <1>6, <1>7

\* the sweep at exit takes what is tracked, but networks still in use
LEMMA SweptIs ==
  ASSUME NEW d \in Dockers, Shaped(d)
  PROVE  LET s == Swept(d) IN
         /\ s \in Dockers /\ s.mishaps = d.mishaps
         /\ s.exists \subseteq d.exists /\ s.joined \subseteq d.joined
         /\ \A r \in s.exists \cap d.tracked :
              \/ r.kind = "world"
              \/ \E j \in d.joined : j[1] = r /\ (j[2].kind = "sandbox" => j[2] \notin d.tracked)
<1> DEFINE boxes == {r \in d.tracked : r.kind = "sandbox"}
           bare == [d EXCEPT !.exists = @ \ boxes, !.joined = {j \in @ : j[2] \notin boxes}]
           nets == {r \in d.tracked : r.kind = "network" /\ ~Busy(bare, r)}
           s == [bare EXCEPT !.exists = @ \ nets, !.tracked = {}]
<1>1. /\ bare \in Dockers /\ bare.exists = d.exists \ boxes /\ bare.joined = {j \in d.joined : j[2] \notin boxes}
      /\ bare.mishaps = d.mishaps
  BY DEF Dockers
<1> HIDE DEF bare
<1>2. s \in Dockers /\ s.exists = bare.exists \ nets /\ s.joined = bare.joined /\ s.mishaps = d.mishaps
  BY <1>1 DEF Dockers
<1>3. Swept(d) = s BY DEF Swept, bare
<1> HIDE DEF s
<1>4. ASSUME NEW r \in s.exists \cap d.tracked
      PROVE  \/ r.kind = "world"
             \/ \E j \in d.joined : j[1] = r /\ (j[2].kind = "sandbox" => j[2] \notin d.tracked)
  <2>1. r \in Resources BY DEF Dockers
  <2>2. r \notin boxes /\ r \notin nets BY <1>1, <1>2
  <2>3. r.kind # "sandbox" BY <2>2
  <2>4. CASE r.kind = "network"
    <3>1. Busy(bare, r) BY <2>2, <2>4
    <3> QED BY <1>1, <3>1 DEF Busy
  <2> QED BY <2>1, <2>3, <2>4, ResourceNames DEF Kinds
<1> QED BY <1>1, <1>2, <1>3, <1>4

\* what the exit leaves in docker
LEMMA ExitDocker ==
  ASSUME RoundInv, Exit
  PROVE  /\ docker' \in Dockers
         /\ \A r \in docker'.exists : r \in Swept(docker).exists /\ r.kind # "world"
<1>1. docker \in Dockers /\ Shaped(docker) BY DEF RoundInv, Exit
<1> DEFINE s == Swept(docker)
<1>2. s \in Dockers BY <1>1, SweptIs
<1>3. docker' = [s EXCEPT !.exists = {r \in @ : r.kind # "world"},
                          !.joined = {j \in @ : j[2].kind # "world"}]
  BY DEF Exit
<1> HIDE DEF s
<1>4. docker' \in Dockers /\ \A r \in docker'.exists : r \in s.exists /\ r.kind # "world"
  BY <1>2, <1>3 DEF Dockers
<1> QED BY <1>4 DEF s

LEMMA ExitStep ==
  ASSUME RoundInv, Exit PROVE RoundInv'
<1>1. docker' \in Dockers BY ExitDocker
<1>2. IdleService \in Services /\ IdleService.live = {} /\ IdleService.warm = 0
  BY BoundsAssumption DEF IdleService, Services, NoEpisode
<1>3. /\ phase' = "exited" /\ service' = [e \in Envs |-> IdleService]
      /\ UNCHANGED <<plan, queue, env, collected>>
  BY DEF Exit
<1>4. ASSUME NEW e \in Envs
      PROVE  Served(env'[e], service'[e]) /\ Scores(env'[e], service'[e], collected'[e])
  <2>1. env[e] \in EnvRecords /\ Scores(env[e], service[e], collected[e]) BY DEF RoundInv
  <2>2. service'[e] = IdleService /\ env'[e] = env[e] /\ collected'[e] = collected[e] BY <1>3
  <2>3. env[e].handle \in Nat BY <2>1 DEF EnvRecords
  <2> QED BY <1>2, <2>1, <2>2, <2>3 DEF Served, Scores
<1>5. ~Going' BY <1>3 DEF Going
<1>6. service' \in [Envs -> Services] /\ \A e \in Envs : service'[e].live = {} BY <1>2, <1>3
<1> QED BY <1>1, <1>3, <1>4, <1>5, <1>6 DEF RoundInv

LEMMA PrepareStep ==
  ASSUME RoundInv, Prepare PROVE RoundInv'
<1>1. plan \in Plans /\ queue \in Seq(Envs) BY DEF RoundInv
<1>2. plan' \in Plans
  <2> DEFINE b == resolve_backing(plan.floor, plan.minimum, plan.sandbox)
  <2>1. b \in Backings BY <1>1 DEF resolve_backing, Plans, Backings
  <2> HIDE DEF b
  <2>2. plan' = plan \/ plan' = [plan EXCEPT !.backing = b] BY DEF Prepare, b
  <2> QED BY <1>1, <2>1, <2>2 DEF Plans
<1>3. phase = "prepare" /\ Going /\ phase' \in {"rollout", "over"}
      /\ UNCHANGED <<queue, env, service, docker, collected>>
  BY DEF Prepare, Going
<1> QED BY <1>1, <1>2, <1>3, TrainerStep

LEMMA TrainerMoves ==
  ASSUME RoundInv, RewardFunc \/ Scored \/ TrainEnds PROVE RoundInv'
<1>1. plan \in Plans /\ queue \in Seq(Envs) BY DEF RoundInv
<1>2. CASE RewardFunc
  <2>1. phase = "rollout" /\ phase' = "reward" /\ queue' \in Seq(Envs) BY <1>2, OrderIsSeq DEF RewardFunc
  <2>2. UNCHANGED <<env, service, docker, collected>> /\ plan' = plan BY <1>2 DEF RewardFunc
  <2> QED BY <1>1, <2>1, <2>2, TrainerStep DEF Going
<1>3. CASE Scored
  <2>1. phase = "reward" /\ phase' = "rollout" /\ queue' = queue BY <1>3 DEF Scored
  <2>2. UNCHANGED <<env, service, docker, collected>> /\ plan' = plan BY <1>3 DEF Scored
  <2> QED BY <1>1, <2>1, <2>2, TrainerStep DEF Going
<1>4. CASE TrainEnds
  <2>1. phase = "rollout" /\ phase' \in {"closing", "over"} /\ queue' \in Seq(Envs)
    BY <1>4, AbandonMoves DEF TrainEnds
  <2>2. UNCHANGED <<env, service, docker, collected>> /\ plan' = plan BY <1>4 DEF TrainEnds
  <2> QED BY <1>1, <2>1, <2>2, TrainerStep DEF Going
<1> QED BY <1>2, <1>3, <1>4

LEMMA RoundInit ==
  ASSUME Init PROVE RoundInv
<1> USE DEF NoEpisode
<1>1. plan \in Plans /\ phase = "prepare" BY DEF Init
<1>2. queue = <<>> /\ <<>> \in Seq(Envs) BY DEF Init
<1>3. NoEpisode \in 0 .. MaxEpisodes /\ {} \in SUBSET (0 .. MaxEpisodes) BY BoundsAssumption
<1>4. FreshEnv \in EnvRecords /\ IdleService \in Services
  BY <1>3 DEF FreshEnv, EnvRecords, IdleService, Services
<1>5. docker \in Dockers /\ docker.exists = {} /\ docker.joined = {}
  BY BoundsAssumption DEF Init, Dockers
<1>6. /\ env = [e \in Envs |-> FreshEnv] /\ service = [e \in Envs |-> IdleService]
      /\ collected = [e \in Envs |-> {}]
  BY DEF Init
<1>7. Served(FreshEnv, IdleService) /\ Scores(FreshEnv, IdleService, {}) /\ AtHand(FreshEnv, IdleService)
  BY <1>4 DEF FreshEnv, IdleService, Served, Scores, AtHand, Past
<1>8. Accounted(docker) /\ Shaped(docker) BY <1>5 DEF Accounted, Shaped
<1>9. \A e : Known(e, FreshEnv, docker) /\ Handed(FreshEnv) BY <1>5 DEF Known, Handed, FreshEnv
<1>10. collected \in [Envs -> SUBSET Episodes] BY <1>6
<1> QED BY <1>1, <1>2, <1>4, <1>5, <1>6, <1>7, <1>8, <1>9, <1>10 DEF RoundInv

LEMMA RoundNext == RoundInv /\ [Next]_vars => RoundInv'
<1> SUFFICES ASSUME RoundInv, [Next]_vars PROVE RoundInv'
  OBVIOUS
<1>1. ASSUME NEW e \in Envs, Reset(e) \/ ToolCall(e) \/ EnvTrajectory(e) PROVE RoundInv'
  BY <1>1, ResetStep, ToolCallStep, EnvTrajectoryStep
<1>2. CASE Prepare \/ RewardFunc \/ Scored \/ TrainEnds
  BY <1>2, PrepareStep, TrainerMoves
<1>3. CASE Finalize \/ CloseEnv \/ Exit
  BY <1>3, FinalizeStep, CloseEnvStep, ExitStep
<1>4. CASE UNCHANGED vars
  BY <1>4 DEF vars, RoundInv, Going
<1> QED BY <1>1, <1>2, <1>3, <1>4 DEF Next

LEMMA RoundInvariant == Spec => []RoundInv
BY RoundInit, RoundNext, PTL DEF Spec

-----------------------------------------------------------------------------
(* The variables keep their types (TypeOK), for any number of environments.*)
THEOREM RoundTypes == Spec => []TypeOK
<1>1. RoundInv => TypeOK
  BY DEF RoundInv, TypeOK, EnvRecords, Services, Dockers
<1> QED BY <1>1, RoundInvariant, PTL

(* LostOnlyByDocker: whichever calls of _start_sandbox and                 *)
(* _teardown_sandbox raise, and wherever the round is abandoned, what      *)
(* docker holds is in the account the sweep goes by.                       *)
THEOREM NothingForgotten == Spec => []LostOnlyByDocker
<1>1. RoundInv => LostOnlyByDocker
  BY DEF RoundInv, LostOnlyByDocker, Accounted, Hapless, Spoilt
<1> QED BY <1>1, RoundInvariant, PTL

(* SandboxesAlone: however often a world is kept warm and handed on, it    *)
(* shares a network with no sandbox but that of its present episode.       *)
THEOREM AgentsStayApart == Spec => []SandboxesAlone
<1>1. RoundInv => SandboxesAlone
  <2> SUFFICES ASSUME RoundInv, NEW e \in Envs, NEW p \in service[e].live,
                      NEW j \in docker.joined, NEW k \in docker.joined,
                      j[1] = k[1], j[2] = World(e, p[2]), k[2].kind = "sandbox", ~Hapless(k[2])
               PROVE  k[2] = Sandbox(e, p[1])
    BY DEF SandboxesAlone
  <2>1. docker \in Dockers /\ Shaped(docker) /\ Known(e, env[e], docker) /\ Handed(env[e])
        /\ Served(env[e], service[e])
    BY DEF RoundInv
  <2>2. j[1] \in Resources /\ k[2] \in Resources BY <2>1 DEF Dockers
  <2>3. j[2].env = e /\ j[2].episode = p[2] /\ j[2].kind = "world" BY DEF World
  <2>4. j[1].env = e /\ k[2].env = e /\ k[2].episode = j[1].episode BY <2>1, <2>3 DEF Shaped
  <2>5. ~Spoilt(docker, j[1]) BY <2>4 DEF Hapless, Spoilt
  <2>6. /\ j[1].episode = env[e].network /\ p[2] = env[e].target
    BY <2>1, <2>3, <2>4, <2>5 DEF Known
  <2>7. p[1] = env[e].handle BY <2>1, <2>6 DEF Served
  <2>8. env[e].network = env[e].handle
    BY <2>1, <2>2, <2>6, ResourceNames DEF Handed, Episodes, NoEpisode
  <2> QED BY <2>2, <2>4, <2>6, <2>7, <2>8, ResourceNames
<1> QED BY <1>1, RoundInvariant, PTL

(* TrajectoriesMatch: a report is paired with the turns of its own         *)
(* episode, and none is collected for an episode that still runs.          *)
THEOREM ReportsHaveTheirTurns == Spec => []TrajectoriesMatch
<1>1. RoundInv => TrajectoriesMatch
  BY DEF RoundInv, TrajectoriesMatch, Scores
<1> QED BY <1>1, RoundInvariant, PTL

(* ExitLeavesNetworks: what docker holds after the exit handlers is what a *)
(* docker call failed for, or a network that a world was joined to.        *)
THEOREM ExitSweeps == Spec => ExitLeavesNetworks
<1>1. ASSUME RoundInv, Exit, NEW r \in docker'.exists, ~Hapless(r)
      PROVE  \E j \in docker.joined : j[1] = r /\ j[2].kind = "world"
  <2>1. docker \in Dockers /\ Shaped(docker) /\ Accounted(docker)
        /\ \A e \in Envs : Known(e, env[e], docker) /\ Handed(env[e])
    BY <1>1 DEF RoundInv, Exit
  <2>2. r \in Swept(docker).exists /\ r.kind # "world" BY <1>1, ExitDocker
  <2>3. r \in docker.exists /\ r \in Resources BY <2>1, <2>2, SweptIs DEF Dockers
  <2>4. r \in docker.tracked BY <1>1, <2>1, <2>2, <2>3 DEF Accounted, Hapless, Spoilt
  <2>5. PICK j \in docker.joined : j[1] = r /\ (j[2].kind = "sandbox" => j[2] \notin docker.tracked)
    BY <2>1, <2>2, <2>4, SweptIs
  <2>6. ASSUME j[2].kind = "sandbox" PROVE FALSE
    <3> DEFINE e == r.env
    <3>1. e \in Envs /\ r.episode \in Episodes BY <2>3, ResourceNames
    <3>2. env[e].sandbox = r.episode
      BY <1>1, <2>1, <2>5, <2>6, <3>1 DEF Known, Hapless, Spoilt
    <3>3. j[2] \in Resources /\ j[2].env = e /\ j[2].episode = r.episode
      BY <2>1, <2>5, <2>6 DEF Shaped, Dockers
    <3>4. j[2] = Sandbox(e, env[e].sandbox) BY <2>6, <3>2, <3>3, ResourceNames
    <3>5. j[2] \in docker.tracked BY <2>1, <3>1, <3>2, <3>4 DEF Known, Episodes, NoEpisode
    <3> QED BY <2>5, <2>6, <3>5
  <2> QED BY <2>1, <2>5, <2>6 DEF Shaped
<1>2. ASSUME Next, phase' = "exited" PROVE Exit
  <2>1. ~Abandon BY <1>2 DEF Abandon
  <2>2. ASSUME NEW e \in Envs PROVE ~Reset(e)
    <3>1. Reset(e) => phase = "rollout" /\ (Abandon \/ phase' = phase)
      BY Zenon DEF Reset
    <3> QED BY <1>2, <2>1, <3>1
  <2>3. ASSUME NEW e \in Envs PROVE ~ToolCall(e) /\ ~EnvTrajectory(e)
    BY <1>2, <2>1 DEF ToolCall, Record, EnvTrajectory
  <2>4. ~Prepare /\ ~RewardFunc /\ ~Scored /\ ~TrainEnds
    BY <1>2, <2>1 DEF Prepare, RewardFunc, Scored, TrainEnds
  <2>5. ~Finalize BY <1>2, <2>1 DEF Finalize
  <2>6. ~CloseEnv BY <1>2 DEF CloseEnv
  <2> QED BY <1>2, <2>2, <2>3, <2>4, <2>5, <2>6 DEF Next
<1> DEFINE Leaves ==
             phase' = "exited" =>
               \A r \in docker'.exists :
                 Hapless(r) \/ \E j \in docker.joined : j[1] = r /\ j[2].kind = "world"
<1>3. RoundInv /\ Next => Leaves
  BY <1>1, <1>2
<1>4. RoundInv /\ [Next]_vars => [Leaves]_vars
  BY <1>3
<1> QED BY <1>4, RoundInvariant, PTL DEF Spec, ExitLeavesNetworks

=============================================================================
