--------------------------- MODULE EpisodeProofs ---------------------------
(***************************************************************************)
(* Proofs about the two modules of core/episode.py, each for any bounds.   *)
(* First what EpisodeTick keeps, for any number of episodes on one pooled  *)
(* world and any length of the request log: its types, a world at rest     *)
(* while an episode is graded, a log without lines of another episode,     *)
(* every event drained once and none left behind, and every broken NPC     *)
(* said once.  Then EpisodeService, for any number of episodes, snapshots  *)
(* and runtimes, any warm capacity and any subset of the faults, in three  *)
(* layers: the types; who owns a runtime; what an episode is served and    *)
(* graded on.                                                              *)
(***************************************************************************)
EXTENDS EpisodeService, EpisodeTick, SequenceTheorems, TLAPS

(* What the sequence the types share cannot say: an episode is there       *)
(* whenever the main thread is at work, and which of the types are whose.  *)
ControlTypes ==
  /\ episode \in 0 .. MaxEpisodes /\ main \in MainStates
  /\ flag \in [Episodes -> {"none", "clear", "set"}]
  /\ thread \in [Episodes -> ThreadStates]
  /\ late \subseteq 1 .. episode /\ clash \in BOOLEAN
  /\ \A e \in Episodes : e > episode => thread[e] = "none" /\ flag[e] = "none"
  /\ episode > 0 /\ flag[episode] = "none" => episode \in late \/ thread[episode] \in Ended
  /\ main # "idle" => episode \in Episodes

CastTypes ==
  /\ npc \in [Episodes -> NpcStates] /\ session \in [Episodes -> BOOLEAN]
  /\ broken \in [Episodes -> BOOLEAN] /\ said \in [Episodes -> Nat]
  /\ unheard \subseteq Episodes

Slices == [from : Nat, to : 0 .. MaxRequests]

WorldTypes ==
  /\ log \in Seq(Episodes) /\ Len(log) <= MaxRequests /\ offset \in Nat
  /\ slice \in [Pollers -> Slices]
  /\ drained \in Seq(Seq(Episodes)) /\ Len(drained) = Len(log)
  /\ settled \in 0 .. MaxRequests

TickTypes == ControlTypes /\ CastTypes /\ WorldTypes /\ strays \subseteq Episodes

(* An episode is over for its tick once it is joined, for its NPC once it  *)
(* is stopped.                                                             *)
JoinedOrLate ==
  main = "npcs" => episode \in late \/ thread[episode] \in Ended

RestInv == GradedAlone /\ JoinedOrLate

(* A poll that is going on has read from the offset on, and it is alone:   *)
(* so long as no tick outlived its join and main and tick did not meet.    *)
AtPoll(p) == At(p) \in {"polling", "draining"}

PollsAlone ==
  \A p, q \in Pollers : AtPoll(p) /\ AtPoll(q) => p = q

SliceIsNew ==
  \A p \in Pollers : AtPoll(p) => /\ slice[p].from = offset
                                  /\ offset <= slice[p].to /\ slice[p].to <= Len(log)

\* the last drain reads what there was when the NPCs were stopped
LastSlice ==
  /\ settled <= Len(log) /\ (main = "idle" => settled = 0)
  /\ main = "draining" => settled <= slice[Main].to
  /\ main = "collect" => settled <= offset

DrainFacts ==
  offset <= Len(log) /\ PollsAlone /\ SliceIsNew /\ LastSlice /\ DrainedOnce

DrainInv == late = {} /\ ~clash => DrainFacts

(* A step that builds the agent of an NPC works for one that is not broken *)
(* and no other step is about to break it.                                 *)
BuildsAlone ==
  ~clash => \A p \in Pollers : At(p) = "build" =>
              /\ ~broken[Stage(p)]
              /\ \A q \in Pollers \ {p} : At(q) = "build" => Stage(q) # Stage(p)

UnheardBroke == \A e \in unheard : e <= episode /\ broken[e]

SaidInv == BrokenSaidOnce /\ BuildsAlone /\ UnheardBroke

TickInv == TickTypes /\ RestInv /\ NoForeignEvents /\ DrainInv /\ SaidInv

-----------------------------------------------------------------------------
(* Types.                                                                  *)

\* what is due to clash is a Boolean
LEMMA MeetsTypes ==
  ASSUME NEW p \in Pollers, NEW pc, Meets(p, pc)
  PROVE  clash' \in BOOLEAN /\ (clash => clash')
<1> DEFINE met == clash \/ \E q \in Pollers : (p = Main) # (q = Main) /\ At(q) = pc
<1>1. clash' = met BY DEF Meets
<1>2. met \in BOOLEAN /\ (clash => met) OBVIOUS
<1> QED BY <1>1, <1>2, Zenon

\* the main thread at a state of its own
LEMMA MainGoes ==
  ASSUME ControlTypes, NEW pc \in MainStates, main # "idle", Goes(Main, pc),
         UNCHANGED <<episode, flag, late>>, clash' \in BOOLEAN
  PROVE  ControlTypes'
BY DEF ControlTypes, Goes, Main

\* a tick thread that is alive at a state of its own
LEMMA ThreadGoes ==
  ASSUME ControlTypes, NEW e \in Episodes, NEW pc \in ThreadStates \ {"none"},
         thread[e] \notin Ended, Goes(e, pc),
         UNCHANGED <<episode, flag, late>>, clash' \in BOOLEAN
  PROVE  ControlTypes'
<1> e # Main BY MaxEpisodesAssumption DEF Episodes, Main
<1> episode' = episode /\ flag' = flag /\ late' = late OBVIOUS
<1> thread' = [thread EXCEPT ![e] = pc] /\ main' = main BY DEF Goes
<1> QED BY DEF ControlTypes, Goes, Ended

LEMMA PollerGoes ==
  ASSUME ControlTypes, NEW p \in Pollers, NEW pc \in TickStates,
         At(p) \in TickStates \cup {"live", "tick"}, Goes(p, pc),
         UNCHANGED <<episode, flag, late>>, clash' \in BOOLEAN
  PROVE  ControlTypes'
<1>1. CASE p = Main
  <2> main \in TickStates \cup {"live"} BY <1>1 DEF ControlTypes, At, MainStates, TickStates
  <2> QED BY <1>1, MainGoes DEF MainStates, TickStates
<1>2. CASE p # Main
  <2>1. p \in Episodes /\ thread[p] \notin Ended BY <1>2 DEF Pollers, At, TickStates, Ended
  <2> QED BY <2>1, ThreadGoes DEF ThreadStates, TickStates
<1> QED BY <1>1, <1>2

LEMMA PollReadTypes ==
  ASSUME WorldTypes, NEW p \in Pollers, PollRead(p)
  PROVE  WorldTypes'
<1>1. [from |-> offset, to |-> Len(log)] \in Slices
  <2> Len(log) \in Nat BY DEF WorldTypes
  <2> QED BY MaxRequestsAssumption DEF WorldTypes, Slices
<1>2. slice' \in [Pollers -> Slices] BY <1>1 DEF PollRead, WorldTypes
<1> QED BY <1>2 DEF PollRead, WorldTypes

LEMMA PollAdvanceTypes ==
  ASSUME WorldTypes, NEW p \in Pollers, NEW e \in Episodes, PollAdvance(p, e)
  PROVE  WorldTypes'
<1>1. slice[p] \in Slices BY DEF WorldTypes
<1>2. offset' \in Nat
  <2>1. CASE Lines(p) = {} BY <2>1 DEF WorldTypes, PollAdvance
  <2>2. CASE Lines(p) # {}
    <3>1. slice[p].from <= slice[p].to
      BY <1>1, <2>2, MaxRequestsAssumption DEF Lines, Slices
    <3> QED BY <1>1, <2>2, <3>1, MaxRequestsAssumption DEF WorldTypes, PollAdvance, Slices
  <2> QED BY <2>1, <2>2
<1>3. NoSlice \in Slices BY MaxRequestsAssumption DEF NoSlice, Slices
<1>4. slice' \in [Pollers -> Slices] BY <1>3 DEF PollAdvance, WorldTypes
<1>5. drained' \in Seq(Seq(Episodes)) /\ Len(drained') = Len(drained)
  <2> DEFINE S == Seq(Episodes)
  <2>1. drained \in Seq(S) BY DEF WorldTypes
  <2>2. \A i \in 1 .. Len(drained) : drained[i] \in S /\ Append(drained[i], e) \in S
    BY <2>1
  <2> HIDE DEF S
  <2>3. drained' = [i \in 1 .. Len(drained) |->
                     IF i \in Lines(p) THEN Append(drained[i], e) ELSE drained[i]]
    BY <2>1 DEF PollAdvance
  <2>4. \A i \in 1 .. Len(drained) :
          (IF i \in Lines(p) THEN Append(drained[i], e) ELSE drained[i]) \in S
    BY <2>2
  <2> DEFINE g(i) == IF i \in Lines(p) THEN Append(drained[i], e) ELSE drained[i]
  <2> HIDE DEF g
  <2>5. drained' = [i \in 1 .. Len(drained) |-> g(i)] BY <2>3 DEF g
  <2>6. \A i \in 1 .. Len(drained) : g(i) \in S BY <2>4 DEF g
  <2>7. Len(drained) \in Nat BY <2>1
  <2>8. drained' \in [1 .. Len(drained) -> S] BY <2>5, <2>6
  <2>9. drained' \in Seq(S) /\ Len(drained') = Len(drained) BY <2>7, <2>8
  <2> QED BY <2>9 DEF S
<1> QED BY <1>2, <1>4, <1>5 DEF PollAdvance, WorldTypes

LEMMA LoggedTypes ==
  ASSUME WorldTypes, NEW e \in Episodes, Logged(e), UNCHANGED <<offset, slice>>,
         settled' \in 0 .. MaxRequests
  PROVE  /\ WorldTypes'
         /\ Len(log') = Len(log) + 1
         /\ \A i \in 1 .. Len(log) : log'[i] = log[i] /\ drained'[i] = drained[i]
         /\ log'[Len(log) + 1] = e /\ drained'[Len(log) + 1] = <<>>
<1> DEFINE S == Seq(Episodes)
           nothing == <<>>
<1>1. nothing \in S OBVIOUS
<1>2. drained \in Seq(S) /\ log \in Seq(Episodes) BY DEF WorldTypes
<1>3. drained' = Append(drained, nothing) /\ log' = Append(log, e) BY DEF Logged
<1> HIDE DEF S, nothing
<1>4. /\ drained' \in Seq(S) /\ Len(drained') = Len(drained) + 1
      /\ \A i \in 1 .. Len(drained) : drained'[i] = drained[i]
      /\ drained'[Len(drained) + 1] = nothing
  BY <1>1, <1>2, <1>3
<1>5. /\ log' \in Seq(Episodes) /\ Len(log') = Len(log) + 1
      /\ \A i \in 1 .. Len(log) : log'[i] = log[i]
      /\ log'[Len(log) + 1] = e
  BY <1>2, <1>3
<1>6. Len(log) \in Nat /\ Len(log) < MaxRequests /\ Len(drained) = Len(log)
  BY <1>2 DEF Logged, WorldTypes
<1>7. Len(log') <= MaxRequests BY <1>5, <1>6, MaxRequestsAssumption
<1>8. WorldTypes'
  BY <1>4, <1>5, <1>6, <1>7 DEF WorldTypes, S
<1> QED BY <1>4, <1>5, <1>6, <1>8 DEF nothing

\* the types of NPCs and what is said of them
LEMMA CastChanges ==
  ASSUME CastTypes, NEW e \in Episodes,
         \/ UNCHANGED cast
         \/ \E b, a : Said(e, b, a) /\ UNCHANGED <<npc, session, broken, unheard>>
         \/ session' = [session EXCEPT ![e] = TRUE] /\ UNCHANGED <<npc, broken, said, unheard>>
         \/ MarkBroken(e) /\ Said(e, FALSE, TRUE) /\ UNCHANGED <<npc, unheard>>
         \/ MarkBroken(e) /\ unheard' = unheard \cup {e} /\ UNCHANGED <<npc, said>>
         \/ HaltNpcs /\ UNCHANGED <<broken, said, unheard>>
         \/ StartNpcs(e)
  PROVE  CastTypes'
<1>0. ASSUME NEW b, NEW a, Said(e, b, a)
      PROVE  said' \in [Episodes -> Nat]
  BY <1>0 DEF Said, CastTypes
<1>1. CASE UNCHANGED cast BY <1>1 DEF cast, CastTypes
<1>2. CASE \E b, a : Said(e, b, a) /\ UNCHANGED <<npc, session, broken, unheard>>
  <2> PICK b, a : Said(e, b, a) /\ UNCHANGED <<npc, session, broken, unheard>> BY <1>2
  <2>1. said' \in [Episodes -> Nat] BY <1>0
  <2> QED BY <2>1 DEF CastTypes
<1>3. CASE session' = [session EXCEPT ![e] = TRUE] /\ UNCHANGED <<npc, broken, said, unheard>>
  <2>1. session' \in [Episodes -> BOOLEAN] BY <1>3, Zenon DEF CastTypes
  <2> QED BY <1>3, <2>1 DEF CastTypes
<1>4. CASE \/ MarkBroken(e) /\ Said(e, FALSE, TRUE) /\ UNCHANGED <<npc, unheard>>
           \/ MarkBroken(e) /\ unheard' = unheard \cup {e} /\ UNCHANGED <<npc, said>>
  <2>1. session' \in [Episodes -> BOOLEAN] /\ broken' \in [Episodes -> BOOLEAN]
    BY <1>4, Zenon DEF CastTypes, MarkBroken
  <2>2. said' \in [Episodes -> Nat] BY <1>0, <1>4 DEF CastTypes
  <2>3. unheard' \subseteq Episodes /\ npc' = npc BY <1>4 DEF CastTypes
  <2> QED BY <2>1, <2>2, <2>3 DEF CastTypes
<1>5. CASE HaltNpcs /\ UNCHANGED <<broken, said, unheard>>
  <2>1. session' \in [Episodes -> BOOLEAN] BY <1>5, Zenon DEF CastTypes, HaltNpcs
  <2>2. npc' \in [Episodes -> NpcStates] BY <1>5 DEF CastTypes, HaltNpcs, NpcStates
  <2> QED BY <1>5, <2>1, <2>2 DEF CastTypes
<1>6. CASE StartNpcs(e)
  <2>1. broken' \in [Episodes -> BOOLEAN]
    <3> PICK b \in BOOLEAN : broken' = [broken EXCEPT ![e] = b]
      BY <1>6 DEF StartNpcs, NpcStarts
    <3> QED BY Zenon DEF CastTypes
  <2>2. npc' \in [Episodes -> NpcStates] /\ session' = session
    BY <1>6 DEF CastTypes, StartNpcs, NpcStarts, NpcStates
  <2>3. said' \in [Episodes -> Nat] BY <1>6 DEF CastTypes, StartNpcs
  <2>4. unheard' = unheard BY <1>6 DEF StartNpcs
  <2> QED BY <2>1, <2>2, <2>3, <2>4 DEF CastTypes
<1> QED BY <1>1, <1>2, <1>3, <1>4, <1>5, <1>6

\* a step of an NPC, by whichever poller
LEMMA StepNpcTypes ==
  ASSUME ControlTypes, CastTypes, NEW p \in Pollers, NEW e \in Episodes,
         At(p) \in {"live", "tick"}, StepNpc(p, e), UNCHANGED <<episode, flag, late>>
  PROVE  ControlTypes' /\ CastTypes'
<1>1. clash' \in BOOLEAN BY MeetsTypes DEF StepNpc
<1>2. PICK pc \in TickStates : Goes(p, pc)
  BY DEF StepNpc, TickStates
<1>3. ControlTypes' BY <1>1, <1>2, PollerGoes
<1>4. \/ UNCHANGED cast
      \/ \E b, a : Said(e, b, a) /\ UNCHANGED <<npc, session, broken, unheard>>
  BY DEF StepNpc, cast
<1>5. CastTypes' BY <1>4, CastChanges
<1> QED BY <1>3, <1>5

LEMMA StartTypes ==
  ASSUME TickTypes, StartTicking
  PROVE  TickTypes'
<1>1. episode' \in Episodes /\ episode' = episode + 1 /\ episode' > episode
  BY MaxEpisodesAssumption DEF TickTypes, ControlTypes, StartTicking, Episodes
<1>2. ControlTypes'
  <2>1. main' = "live" /\ late' = late /\ clash' = clash BY DEF StartTicking
  <2>2. \/ StartAutoTick(episode')
        \/ thread' = thread /\ flag' = flag
    BY DEF StartTicking
  <2>3. flag' \in [Episodes -> {"none", "clear", "set"}] /\ thread' \in [Episodes -> ThreadStates]
    BY <1>1, <2>2 DEF TickTypes, ControlTypes, StartAutoTick, ThreadStates
  <2>4. \A e \in Episodes : e > episode' => thread'[e] = "none" /\ flag'[e] = "none"
    BY <1>1, <2>2, MaxEpisodesAssumption
       DEF TickTypes, ControlTypes, StartAutoTick, Episodes
  <2>5. flag'[episode'] = "none" => thread'[episode'] \in Ended
    BY <1>1, <2>2 DEF TickTypes, ControlTypes, StartAutoTick, Ended
  <2>6. late' \subseteq 1 .. episode'
    BY <1>1, <2>1, MaxEpisodesAssumption DEF TickTypes, ControlTypes, Episodes
  <2> QED BY <1>1, <2>1, <2>3, <2>4, <2>5, <2>6
          DEF TickTypes, ControlTypes, MainStates, Episodes
<1>3. CastTypes' BY <1>1, CastChanges DEF StartTicking, TickTypes
<1>4. WorldTypes'
  <2>1. log' = <<>> /\ drained' = <<>> /\ offset' = 0 /\ UNCHANGED <<slice, settled>>
    BY DEF StartTicking, Emptied
  <2>2. <<>> \in Seq(Episodes) /\ <<>> \in Seq(Seq(Episodes)) /\ Len(<<>>) = 0 OBVIOUS
  <2> QED BY <2>1, <2>2, MaxRequestsAssumption DEF TickTypes, WorldTypes
<1>5. strays' \subseteq Episodes
  <2> PICK remain \in SUBSET (1 .. episode) : strays' = strays \cup remain
    BY DEF StartTicking
  <2>1. 1 .. episode \subseteq Episodes
    BY MaxEpisodesAssumption DEF TickTypes, ControlTypes, Episodes
  <2> QED BY <2>1 DEF TickTypes
<1> QED BY <1>2, <1>3, <1>4, <1>5 DEF TickTypes

\* who is at a state of a tick ticks an episode that has started
LEMMA Stages ==
  ASSUME ControlTypes, NEW p \in Pollers, At(p) \in TickStates \cup {"draining"}
  PROVE  Stage(p) \in Episodes
<1>1. CASE p = Main BY <1>1 DEF ControlTypes, At, Stage, TickStates
<1>2. CASE p # Main BY <1>2 DEF Pollers, Stage
<1> QED BY <1>1, <1>2

LEMMA TickStepTypes ==
  ASSUME TickTypes, NEW p \in Pollers, TickStep(p)
  PROVE  TickTypes'
<1> ControlTypes /\ CastTypes /\ WorldTypes BY DEF TickTypes
<1>0. strays' \subseteq Episodes
  BY DEF TickTypes, TickStep, BuildEnds, NpcActs, TickPolls, TickEnds
<1>1. CASE BuildEnds(p)
  <2>1. Stage(p) \in Episodes /\ At(p) = "build"
    BY <1>1, Stages DEF BuildEnds, TickStates
  <2>2. UNCHANGED <<episode, flag, late>> /\ clash' = clash /\ UNCHANGED feed
    BY <1>1 DEF BuildEnds
  <2>3. clash' \in BOOLEAN BY <2>2 DEF ControlTypes
  <2>4. CastTypes'
    <3>1. \/ session' = [session EXCEPT ![Stage(p)] = TRUE]
             /\ UNCHANGED <<npc, broken, said, unheard>>
          \/ MarkBroken(Stage(p)) /\ Said(Stage(p), FALSE, TRUE) /\ UNCHANGED <<npc, unheard>>
          \/ MarkBroken(Stage(p)) /\ unheard' = unheard \cup {Stage(p)}
             /\ UNCHANGED <<npc, said>>
      BY <1>1 DEF BuildEnds
    <3> QED BY <2>1, <3>1, CastChanges
  <2>5. ControlTypes'
    <3>1. \/ \E pc \in TickStates : Goes(p, pc)
          \/ Goes(p, IF p = Main THEN "live" ELSE "crashed")
      BY <1>1 DEF BuildEnds, TickStates
    <3>2. CASE \E pc \in TickStates : Goes(p, pc)
      BY <2>1, <2>2, <2>3, <3>2, PollerGoes DEF TickStates
    <3>3. CASE p = Main /\ Goes(p, "live")
      BY <2>1, <2>2, <2>3, <3>3, MainGoes DEF MainStates, TickStates, At
    <3>4. CASE p # Main /\ Goes(p, "crashed")
      <4>1. p \in Episodes /\ thread[p] \notin Ended BY <2>1, <3>4 DEF Pollers, At, Ended
      <4> QED BY <2>2, <2>3, <3>4, <4>1, ThreadGoes DEF ThreadStates
    <3> QED BY <3>1, <3>2, <3>3, <3>4
  <2> QED BY <1>0, <2>2, <2>4, <2>5 DEF TickTypes, WorldTypes, feed
<1>2. CASE NpcActs(p)
  <2>1. Stage(p) \in Episodes /\ At(p) = "npc" /\ Goes(p, "read")
    BY <1>2, Stages DEF NpcActs, TickStates
  <2>2. UNCHANGED <<episode, flag, late>> /\ clash' = clash /\ UNCHANGED cast
    BY <1>2 DEF NpcActs
  <2>3. ControlTypes'
    <3> clash' \in BOOLEAN BY <2>2 DEF ControlTypes
    <3> QED BY <2>1, <2>2, PollerGoes DEF TickStates
  <2>4. WorldTypes'
    <3>1. CASE Logged(Stage(p))
      <4>1. settled' = settled /\ settled \in 0 .. MaxRequests BY <1>2 DEF NpcActs, WorldTypes
      <4> QED BY <1>2, <2>1, <3>1, <4>1, LoggedTypes DEF NpcActs
    <3>2. CASE UNCHANGED <<log, drained>> BY <1>2, <3>2 DEF NpcActs, WorldTypes
    <3> QED BY <1>2, <3>1, <3>2 DEF NpcActs
  <2> QED BY <1>0, <2>2, <2>3, <2>4 DEF TickTypes, CastTypes, cast
<1>3. CASE TickPolls(p)
  <2>1. At(p) = "read" /\ Goes(p, "polling") /\ PollRead(p) /\ clash' \in BOOLEAN
    BY <1>3, MeetsTypes DEF TickPolls
  <2>2. UNCHANGED <<episode, flag, late>> /\ UNCHANGED cast BY <1>3 DEF TickPolls
  <2>3. ControlTypes' BY <2>1, <2>2, PollerGoes DEF TickStates
  <2> QED BY <1>0, <2>1, <2>2, <2>3, PollReadTypes DEF TickTypes, CastTypes, cast
<1>4. CASE TickEnds(p)
  <2>1. Stage(p) \in Episodes /\ At(p) = "polling" /\ PollAdvance(p, Stage(p))
    BY <1>4, Stages DEF TickEnds, TickStates
  <2>2. UNCHANGED <<episode, flag, late>> /\ clash' = clash /\ UNCHANGED cast
    BY <1>4 DEF TickEnds
  <2>3. clash' \in BOOLEAN BY <2>2 DEF ControlTypes
  <2>4. ControlTypes'
    <3>1. CASE p = Main
      <4>1. main = "polling" /\ Goes(Main, "live") BY <1>4, <2>1, <3>1 DEF TickEnds, Over, At
      <4> QED BY <2>2, <2>3, <4>1, MainGoes DEF MainStates, TickStates
    <3>2. CASE p # Main
      <4>1. p \in Episodes /\ thread[p] \notin Ended BY <2>1, <3>2 DEF Pollers, At, Ended
      <4>2. Goes(p, "wait") \/ Goes(p, "crashed") BY <1>4, <3>2 DEF TickEnds, Over
      <4> QED BY <2>2, <2>3, <4>1, <4>2, ThreadGoes DEF ThreadStates
    <3> QED BY <3>1, <3>2
  <2>5. WorldTypes' BY <2>1, PollAdvanceTypes
  <2> QED BY <1>0, <2>2, <2>4, <2>5 DEF TickTypes, CastTypes, cast
<1> QED BY <1>1, <1>2, <1>3, <1>4 DEF TickStep

LEMMA TypesStep ==
  ASSUME TickTypes, [TickNext]_tickVars
  PROVE  TickTypes'
<1> ControlTypes /\ CastTypes /\ WorldTypes BY DEF TickTypes
<1> Main \in Pollers BY DEF Pollers
<1>a. UNCHANGED cast => CastTypes' BY DEF cast, CastTypes
<1>b. UNCHANGED feed => WorldTypes' BY DEF feed, WorldTypes
<1>c. ~StartTicking => strays' \subseteq Episodes
  BY DEF TickTypes, TickNext, tickVars, AgentRequest, MainTick, Observe, MainStep, SetStop, Join,
         StopNpcs, DrainEvents, CollectAndStash, Wake, TickBegins, TickStep, BuildEnds,
         NpcActs, TickPolls, TickEnds
<1> SUFFICES ASSUME ~StartTicking PROVE ControlTypes' /\ CastTypes' /\ WorldTypes'
  BY <1>c, StartTypes DEF TickTypes
<1>2. ASSUME NEW e \in Episodes, AgentRequest(e)
      PROVE  ControlTypes' /\ CastTypes' /\ WorldTypes'
  <2>1. settled' \in 0 .. MaxRequests BY <1>2 DEF AgentRequest, WorldTypes
  <2>2. WorldTypes' BY <1>2, <2>1, LoggedTypes DEF AgentRequest
  <2>3. ControlTypes' BY <1>2 DEF AgentRequest, ControlTypes
  <2> QED BY <1>2, <1>a, <2>2, <2>3 DEF AgentRequest
<1>3. CASE MainTick
  <2>1. ControlTypes' /\ CastTypes'
    <3>1. episode \in Episodes /\ At(Main) = "live" BY <1>3 DEF MainTick, ControlTypes, At
    <3> QED BY <1>3, <3>1, StepNpcTypes DEF MainTick
  <2> QED BY <1>3, <1>b, <2>1 DEF MainTick, TickTypes
<1>4. CASE Observe
  <2>1. clash' \in BOOLEAN /\ Goes(Main, "polling") /\ main = "live" /\ PollRead(Main)
    BY <1>4, MeetsTypes DEF Observe, Goes
  <2>2. ControlTypes' BY <1>4, <2>1, MainGoes DEF Observe, MainStates, TickStates
  <2> QED BY <1>4, <1>a, <2>1, <2>2, PollReadTypes DEF Observe, TickTypes
<1>5. CASE MainStep
  <2> episode \in Episodes /\ clash' = clash /\ clash \in BOOLEAN
      /\ UNCHANGED <<episode, thread>>
    BY <1>5 DEF MainStep, SetStop, Join, StopNpcs, DrainEvents, CollectAndStash, ControlTypes
  <2>1. CASE SetStop
    <3>1. ControlTypes' BY <2>1 DEF SetStop, Signal, ControlTypes, MainStates, TickStates
    <3> QED BY <2>1, <1>a, <1>b, <3>1 DEF SetStop, TickTypes
  <2>2. CASE Join
    <3>1. late' \subseteq 1 .. episode'
      <4>1. late \subseteq 1 .. episode /\ episode \in 1 .. episode /\ episode' = episode
        BY MaxEpisodesAssumption DEF ControlTypes, Episodes
      <4>2. late' = late \/ late' = late \cup {episode} BY <2>2 DEF Join
      <4> QED BY <4>1, <4>2
    <3>2. ControlTypes' BY <2>2, <3>1 DEF Join, Joined, ControlTypes, MainStates, TickStates
    <3> QED BY <2>2, <1>a, <1>b, <3>2 DEF Join, TickTypes
  <2>3. CASE StopNpcs
    <3>1. ControlTypes' BY <2>3 DEF StopNpcs, ControlTypes, MainStates, TickStates
    <3>2. CastTypes' BY <2>3, CastChanges DEF StopNpcs
    <3>3. Len(log) \in 0 .. MaxRequests BY MaxRequestsAssumption DEF WorldTypes
    <3>4. WorldTypes' BY <2>3, <3>3 DEF StopNpcs, WorldTypes
    <3> QED BY <3>1, <3>2, <3>4
  <2>4. CASE DrainEvents
    <3>1. ControlTypes' BY <2>4 DEF DrainEvents, ControlTypes, MainStates, TickStates
    <3>2. WorldTypes'
      BY <2>4, PollReadTypes, PollAdvanceTypes DEF DrainEvents, LastDrain
    <3> QED BY <2>4, <1>a, <3>1, <3>2 DEF DrainEvents, TickTypes
  <2>5. CASE CollectAndStash
    <3>1. ControlTypes' BY <2>5 DEF CollectAndStash, ControlTypes, MainStates, TickStates
    <3>2. settled' \in 0 .. MaxRequests
      BY <2>5, MaxRequestsAssumption DEF CollectAndStash
    <3>3. ASSUME Logged(episode) PROVE WorldTypes'
      BY <2>5, <3>2, <3>3, LoggedTypes DEF CollectAndStash
    <3>4. ASSUME UNCHANGED <<log, drained>> PROVE WorldTypes'
      BY <2>5, <3>2, <3>4 DEF CollectAndStash, WorldTypes
    <3> QED BY <2>5, <1>a, <3>1, <3>3, <3>4 DEF CollectAndStash
  <2> QED BY <1>5, <2>1, <2>2, <2>3, <2>4, <2>5 DEF MainStep
<1>6. ASSUME NEW e \in Episodes, Wake(e) PROVE ControlTypes' /\ CastTypes' /\ WorldTypes'
  <2> UNCHANGED <<episode, main, flag, late>> /\ clash' = clash /\ clash \in BOOLEAN
    BY <1>6 DEF Wake, ControlTypes
  <2> DEFINE pc == CASE flag[e] = "none"  -> "crashed"
                     [] flag[e] = "set"   -> "exited"
                     [] flag[e] = "clear" -> "tick"
  <2>1. flag[e] \in {"none", "set", "clear"} BY DEF ControlTypes
  <2>2. pc \in ThreadStates \ {"none"} BY <2>1 DEF ThreadStates
  <2>3. thread[e] \notin Ended /\ thread' = [thread EXCEPT ![e] = pc] BY <1>6 DEF Wake, Ended
  <2>4. e # Main BY MaxEpisodesAssumption DEF Episodes, Main
  <2>5. ControlTypes'
    <3> HIDE DEF pc
    <3>1. Goes(e, pc) BY <2>3, <2>4 DEF Goes
    <3> QED BY <2>2, <2>3, <3>1, ThreadGoes
  <2> QED BY <1>6, <1>a, <1>b, <2>5 DEF Wake, TickTypes
<1>7. ASSUME NEW e \in Episodes, TickBegins(e) PROVE ControlTypes' /\ CastTypes' /\ WorldTypes'
  <2>1. e \in Pollers /\ At(e) = "tick" /\ thread[e] \notin Ended
    BY <1>7, MaxEpisodesAssumption DEF TickBegins, Episodes, Pollers, At, Main, Ended
  <2>2. UNCHANGED <<episode, flag, late>> /\ UNCHANGED feed BY <1>7 DEF TickBegins
  <2>3. CASE StepNpc(e, e)
    BY <1>b, <2>1, <2>2, <2>3, StepNpcTypes DEF TickTypes
  <2>4. CASE Goes(e, "exited") /\ UNCHANGED <<cast, clash>>
    <3>1. clash' \in BOOLEAN BY <2>4 DEF ControlTypes
    <3>2. ControlTypes' BY <2>1, <2>2, <2>4, <3>1, ThreadGoes DEF ThreadStates
    <3> QED BY <1>a, <1>b, <2>2, <2>4, <3>2 DEF TickTypes
  <2> QED BY <1>7, <2>3, <2>4 DEF TickBegins
<1>8. ASSUME NEW p \in Pollers, TickStep(p) PROVE ControlTypes' /\ CastTypes' /\ WorldTypes'
  BY <1>8, TickStepTypes DEF TickTypes
<1>9. CASE UNCHANGED tickVars
  BY <1>9, <1>a, <1>b DEF tickVars, feed, cast, ControlTypes, TickTypes
<1> QED BY <1>2, <1>3, <1>4, <1>5, <1>6, <1>7, <1>8, <1>9 DEF TickNext

LEMMA InitTypes == TickInit => TickTypes
<1> SUFFICES ASSUME TickInit PROVE TickTypes OBVIOUS
<1>1. ControlTypes
  <2>1. episode = 0 /\ main = "idle" /\ late = {} /\ clash = FALSE BY DEF TickInit
  <2>2. /\ flag = [e \in Episodes |-> "none"]
        /\ thread = [e \in Episodes |-> "none"]
    BY DEF TickInit
  <2>3. episode \in 0 .. MaxEpisodes BY <2>1, MaxEpisodesAssumption
  <2>4. main \in MainStates BY <2>1 DEF MainStates
  <2>5. thread \in [Episodes -> ThreadStates] BY <2>2 DEF ThreadStates
  <2>6. clash \in BOOLEAN BY <2>1
  <2> QED BY <2>1, <2>2, <2>3, <2>4, <2>5, <2>6 DEF ControlTypes
<1>2. CastTypes BY DEF TickInit, CastTypes, NpcStates
<1>3. WorldTypes
  <2>1. <<>> \in Seq(Episodes) /\ <<>> \in Seq(Seq(Episodes)) /\ Len(<<>>) = 0 OBVIOUS
  <2>2. NoSlice \in Slices BY MaxRequestsAssumption DEF NoSlice, Slices
  <2> QED BY <2>1, <2>2, MaxRequestsAssumption DEF TickInit, WorldTypes
<1> QED BY <1>1, <1>2, <1>3 DEF TickInit, TickTypes

(* The types hold of every behaviour (TickTypeOK): a tick thread exists    *)
(* only for an episode that started, and while it is alive its stop event  *)
(* is there for stop_episode to set, until its join has timed out.         *)
THEOREM TickTypesHold == TickSpec => []TickTypeOK
<1>1. TickTypes => TickTypeOK
  BY DEF TickTypes, ControlTypes, CastTypes, WorldTypes, Slices, TickTypeOK
<1> QED BY <1>1, InitTypes, TypesStep, PTL DEF TickSpec

-----------------------------------------------------------------------------
(* The world at rest.  A step moves the main thread and one tick thread at *)
(* most, and that thread is alive before and not made anew.                *)
Alive(e) == thread[e] \notin Ended

MovesAlive ==
  /\ \A e \in Episodes : ~Alive(e) => thread'[e] = thread[e]
  /\ UNCHANGED <<episode, late>> /\ npc' = npc
  /\ \A e \in Episodes : session'[e] # session[e] =>
        Alive(e) \/ (e = episode /\ main \in TickStates)
  /\ main' # main => /\ main  \in TickStates \cup {"live"}
                     /\ main' \in TickStates \cup {"live"}

LEMMA GoesAlive ==
  ASSUME ControlTypes, NEW p \in Pollers, NEW pc, Goes(p, pc), p = Main \/ Alive(p)
  PROVE  \A e \in Episodes : ~Alive(e) => thread'[e] = thread[e]
BY DEF ControlTypes, Goes, Pollers, Main

LEMMA StepNpcMoves ==
  ASSUME ControlTypes, NEW p \in Pollers, NEW e \in Episodes,
         At(p) \in {"live", "tick"}, StepNpc(p, e), UNCHANGED <<episode, late>>
  PROVE  MovesAlive
<1>1. PICK pc \in TickStates : Goes(p, pc) BY DEF StepNpc, TickStates
<1>2. p = Main \/ Alive(p) BY DEF Pollers, At, Alive, Ended
<1>3. main' # main => p = Main /\ main' = pc BY <1>1 DEF Goes
<1>4. main' # main => main \in TickStates \cup {"live"}
  BY <1>3 DEF At, ControlTypes, MainStates, TickStates
<1>5. npc' = npc /\ session' = session BY DEF StepNpc
<1> QED BY <1>1, <1>2, <1>3, <1>4, <1>5, GoesAlive DEF MovesAlive

LEMMA TickStepMoves ==
  ASSUME ControlTypes, CastTypes, NEW p \in Pollers, TickStep(p)
  PROVE  MovesAlive
<1>1. At(p) \in TickStates
  BY DEF TickStep, BuildEnds, NpcActs, TickPolls, TickEnds, TickStates
<1>2. p = Main \/ Alive(p) BY <1>1 DEF Pollers, At, Alive, Ended, TickStates
<1>3. \E pc \in TickStates \cup {"live", "wait", "crashed"} :
        Goes(p, pc) /\ (p = Main => pc \in TickStates \cup {"live"})
  BY DEF TickStep, BuildEnds, NpcActs, TickPolls, TickEnds, TickStates, Over
<1>4. PICK pc \in TickStates \cup {"live", "wait", "crashed"} :
        Goes(p, pc) /\ (p = Main => pc \in TickStates \cup {"live"})
  BY <1>3
<1>5. main' # main => p = Main /\ main' = pc /\ main \in TickStates
  BY <1>1, <1>4 DEF Goes, At
<1>6. UNCHANGED <<episode, late>> /\ npc' = npc
  BY DEF TickStep, BuildEnds, NpcActs, TickPolls, TickEnds, cast
<1>7. \A e \in Episodes : session'[e] # session[e] =>
        Alive(e) \/ (e = episode /\ main \in TickStates)
  <2>1. CASE BuildEnds(p)
    <3>1. \A e \in Episodes : session'[e] # session[e] => e = Stage(p)
      BY <2>1 DEF BuildEnds, MarkBroken, CastTypes
    <3>2. p = Main => Stage(p) = episode /\ main \in TickStates
      BY <1>1 DEF Stage, At
    <3>3. p # Main => Stage(p) = p BY DEF Stage
    <3> QED BY <1>2, <3>1, <3>2, <3>3
  <2>2. CASE session' = session BY <2>2
  <2> QED BY <2>1, <2>2 DEF TickStep, NpcActs, TickPolls, TickEnds, cast
<1> QED BY <1>2, <1>4, <1>5, <1>6, <1>7, GoesAlive DEF MovesAlive

LEMMA RestMoves ==
  ASSUME ControlTypes, RestInv, MovesAlive
  PROVE  RestInv'
<1>1. main \in {"drain", "draining", "collect", "idle", "npcs", "join"}
        => main' = main
  BY DEF MovesAlive, TickStates
<1>2. main' \in {"drain", "draining", "collect", "idle", "npcs"} => main' = main
  BY DEF MovesAlive, TickStates
<1>3. JoinedOrLate'
  BY <1>2 DEF MovesAlive, RestInv, JoinedOrLate, Alive, ControlTypes
<1>4. GradedAlone'
  <2> SUFFICES ASSUME NEW e \in 1 .. episode,
                      e < episode \/ main \in {"drain", "draining", "collect", "idle"}
               PROVE  npc'[e] = "down"
                      /\ (e \in late \/ (thread'[e] \in Ended /\ ~session'[e]))
    BY <1>2 DEF GradedAlone, MovesAlive
  <2>1. npc[e] = "down" /\ (e \in late \/ (thread[e] \in Ended /\ ~session[e]))
    BY DEF RestInv, GradedAlone
  <2>2. e \in Episodes BY MaxEpisodesAssumption DEF ControlTypes, Episodes
  <2>3. ~(e = episode /\ main \in TickStates) BY DEF ControlTypes, TickStates
  <2> QED BY <2>1, <2>2, <2>3 DEF MovesAlive, Alive
<1> QED BY <1>3, <1>4 DEF RestInv

LEMMA RestStep ==
  ASSUME TickTypes, RestInv, [TickNext]_tickVars
  PROVE  RestInv'
<1> ControlTypes /\ CastTypes BY DEF TickTypes
<1> Main \in Pollers BY DEF Pollers
<1>1. CASE StartTicking
  <2>1. main = "idle" /\ main' = "live" /\ episode' = episode + 1 /\ late' = late
    BY <1>1 DEF StartTicking
  <2>2. \A e \in Episodes : e <= episode
          => thread'[e] = thread[e] /\ npc'[e] = npc[e] /\ session'[e] = session[e]
    BY <1>1, <2>1, MaxEpisodesAssumption
       DEF StartTicking, StartAutoTick, StartNpcs, NpcStarts, ControlTypes, CastTypes, Episodes
  <2>3. GradedAlone'
    <3> SUFFICES ASSUME NEW e \in 1 .. episode', e < episode'
                 PROVE  npc'[e] = "down"
                        /\ (e \in late \/ (thread'[e] \in Ended /\ ~session'[e]))
      BY <2>1 DEF GradedAlone
    <3>1. e \in 1 .. episode /\ e \in Episodes
      BY <2>1, MaxEpisodesAssumption DEF ControlTypes, Episodes
    <3>2. npc[e] = "down" /\ (e \in late \/ (thread[e] \in Ended /\ ~session[e]))
      BY <2>1, <3>1 DEF RestInv, GradedAlone
    <3> QED BY <2>1, <2>2, <3>1, <3>2 DEF ControlTypes
  <2> QED BY <2>1, <2>3 DEF RestInv, JoinedOrLate
<1>2. ASSUME NEW e \in Episodes, AgentRequest(e) PROVE RestInv'
  <2>1. MovesAlive BY <1>2 DEF AgentRequest, MovesAlive, cast, TickStates
  <2> QED BY <2>1, RestMoves
<1>3. CASE MainTick
  <2>1. episode \in Episodes BY <1>3 DEF MainTick, ControlTypes
  <2>2. MovesAlive BY <1>3, <2>1, StepNpcMoves DEF MainTick, At
  <2> QED BY <2>2, RestMoves
<1>4. CASE SetStop
  BY <1>4 DEF SetStop, RestInv, GradedAlone, JoinedOrLate, cast
<1>5. CASE Join
  <2>1. JoinedOrLate'
    BY <1>5, MaxEpisodesAssumption DEF Join, JoinedOrLate, Joined, ControlTypes, Episodes
  <2>2. late \subseteq late' BY <1>5 DEF Join
  <2>3. GradedAlone' BY <1>5, <2>2 DEF Join, RestInv, GradedAlone, cast
  <2> QED BY <2>1, <2>3 DEF RestInv
<1>6. CASE StopNpcs
  <2>1. episode \in Episodes BY <1>6 DEF StopNpcs, ControlTypes
  <2>2. /\ npc'[episode] = "down" /\ ~session'[episode]
        /\ \A e \in Episodes \ {episode} : npc'[e] = npc[e] /\ session'[e] = session[e]
    BY <1>6, <2>1 DEF StopNpcs, HaltNpcs, CastTypes
  <2>3. episode \in late \/ thread[episode] \in Ended
    BY <1>6 DEF StopNpcs, RestInv, JoinedOrLate
  <2>4. GradedAlone'
    <3> SUFFICES ASSUME NEW e \in 1 .. episode
                 PROVE  npc'[e] = "down"
                        /\ (e \in late \/ (thread[e] \in Ended /\ ~session'[e]))
      BY <1>6 DEF StopNpcs, GradedAlone
    <3>1. CASE e = episode BY <2>2, <2>3, <3>1
    <3>2. CASE e < episode
      <4>1. e \in Episodes BY MaxEpisodesAssumption DEF ControlTypes, Episodes
      <4> QED BY <2>2, <3>2, <4>1 DEF RestInv, GradedAlone
    <3> QED BY <3>1, <3>2, MaxEpisodesAssumption DEF ControlTypes
  <2> QED BY <1>6, <2>4 DEF StopNpcs, RestInv, JoinedOrLate
<1>7. CASE DrainEvents \/ CollectAndStash
  BY <1>7 DEF DrainEvents, CollectAndStash, RestInv, GradedAlone, JoinedOrLate, cast
<1>8. ASSUME NEW e \in Episodes, Wake(e) PROVE RestInv'
  <2>1. MovesAlive BY <1>8 DEF Wake, MovesAlive, Alive, Ended, cast, ControlTypes
  <2> QED BY <2>1, RestMoves
<1>9. ASSUME NEW e \in Episodes, TickBegins(e) PROVE RestInv'
  <2>1. e \in Pollers /\ At(e) = "tick" /\ e # Main /\ thread[e] = "tick"
    BY <1>9, MaxEpisodesAssumption DEF TickBegins, Episodes, Pollers, At, Main
  <2>2. CASE StepNpc(e, e)
    <3>1. MovesAlive BY <1>9, <2>1, <2>2, StepNpcMoves DEF TickBegins
    <3> QED BY <3>1, RestMoves
  <2>3. CASE Goes(e, "exited") /\ UNCHANGED <<cast, clash>>
    <3>1. MovesAlive
      BY <1>9, <2>1, <2>3 DEF TickBegins, Goes, MovesAlive, Alive, Ended, cast, ControlTypes
    <3> QED BY <3>1, RestMoves
  <2> QED BY <1>9, <2>2, <2>3 DEF TickBegins
<1>10. ASSUME NEW p \in Pollers, TickStep(p) PROVE RestInv'
  BY <1>10, TickStepMoves, RestMoves
<1>11. CASE UNCHANGED tickVars
  BY <1>11 DEF tickVars, cast, RestInv, GradedAlone, JoinedOrLate
<1>12. CASE Observe
  <2>1. MovesAlive BY <1>12 DEF Observe, MovesAlive, cast, TickStates
  <2> QED BY <2>1, RestMoves
<1> QED BY <1>1, <1>2, <1>3, <1>4, <1>5, <1>6, <1>7, <1>8, <1>9, <1>10, <1>11, <1>12
        DEF TickNext, MainStep

LEMMA InitRest ==
  ASSUME TickInit PROVE RestInv
BY DEF TickInit, RestInv, GradedAlone, JoinedOrLate

(* GradedAlone, for any number of episodes: the tick thread of an episode  *)
(* that is graded or was has ended, its NPC is down and its session gone,  *)
(* unless the join of that very episode timed out.                         *)
THEOREM GradedAtRest == TickSpec => []GradedAlone
<1>1. RestInv => GradedAlone BY DEF RestInv
<1> QED BY <1>1, InitTypes, InitRest, TypesStep, RestStep, PTL DEF TickSpec

-----------------------------------------------------------------------------
(* The log and its drains.  Without a tick that outlived its join, whoever *)
(* is at a state of a tick ticks the running episode, before its join.     *)
LEMMA StagesCurrent ==
  ASSUME ControlTypes, RestInv, late = {}, NEW p \in Pollers, p = Main \/ Alive(p),
         p = Main => main \in TickStates
  PROVE  Stage(p) = episode /\ main \in {"live", "join"} \cup TickStates
<1>1. CASE p = Main BY <1>1 DEF Stage
<1>2. CASE p # Main
  <2>1. p \in Episodes /\ Alive(p) /\ Stage(p) = p BY <1>2 DEF Pollers, Stage
  <2>2. p <= episode BY <2>1, MaxEpisodesAssumption DEF ControlTypes, Alive, Ended, Episodes
  <2>3. p \in 1 .. episode BY <2>1, <2>2, MaxEpisodesAssumption DEF Episodes, ControlTypes
  <2>4. ~(p < episode \/ main \in {"drain", "draining", "collect", "idle"})
    BY <2>1, <2>3 DEF RestInv, GradedAlone, Alive
  <2>5. p = episode BY <2>2, <2>3, <2>4 DEF ControlTypes
  <2>6. main # "npcs" BY <2>1, <2>5 DEF RestInv, JoinedOrLate, Alive
  <2> QED BY <2>1, <2>4, <2>5, <2>6 DEF ControlTypes, MainStates
<1> QED BY <1>1, <1>2

\* at most one of the tick threads is alive then
LEMMA PollersCurrent ==
  ASSUME ControlTypes, RestInv, late = {}, NEW p \in Pollers, p # Main, AtPoll(p)
  PROVE  p = episode /\ main \in {"live", "join"} \cup TickStates
<1>1. p \in Episodes /\ Alive(p)
  BY DEF Pollers, AtPoll, At, Alive, Ended
<1> QED BY <1>1, StagesCurrent DEF Stage

(* Steps that leave the world alone and begin no poll.                     *)
LEMMA QuietDrain ==
  ASSUME DrainFacts, UNCHANGED feed, episode' = episode,
         \A p \in Pollers : AtPoll(p)' => AtPoll(p),
         main' = main \/ main' \notin {"draining", "collect", "idle"}
  PROVE  DrainFacts'
<1> UNCHANGED <<log, offset, slice, drained, settled>> BY DEF feed
<1>1. PollsAlone' BY DEF DrainFacts, PollsAlone
<1>2. SliceIsNew' BY DEF DrainFacts, SliceIsNew
<1> QED BY <1>1, <1>2 DEF DrainFacts, LastSlice, DrainedOnce

(* A request: its line is above the offset, whoever is polling.            *)
LEMMA LoggedDrain ==
  ASSUME WorldTypes, DrainFacts, NEW e \in Episodes, Logged(e),
         UNCHANGED <<offset, slice, episode>>,
         \A p \in Pollers : AtPoll(p)' => AtPoll(p),
         \/ settled' = settled /\ (main' = main \/ main' \notin {"draining", "collect", "idle"})
         \/ settled' = 0 /\ main' = "idle"
  PROVE  DrainFacts'
<1>6. settled' \in 0 .. MaxRequests /\ settled \in Nat /\ settled' \in Nat
  BY MaxRequestsAssumption DEF WorldTypes
<1>1. /\ Len(log') = Len(log) + 1 /\ Len(log) \in Nat /\ offset \in Nat
      /\ \A i \in 1 .. Len(log) : drained'[i] = drained[i]
      /\ drained'[Len(log) + 1] = <<>>
      /\ DOMAIN log = 1 .. Len(log) /\ DOMAIN log' = 1 .. Len(log')
  BY <1>6, LoggedTypes DEF WorldTypes
<1>0. offset <= Len(log) BY DEF DrainFacts
<1>2. PollsAlone' BY DEF DrainFacts, PollsAlone
<1>3. SliceIsNew'
  <2> SUFFICES ASSUME NEW p \in Pollers, AtPoll(p)'
               PROVE  /\ slice[p].from = offset
                      /\ offset <= slice[p].to /\ slice[p].to <= Len(log')
    BY DEF SliceIsNew
  <2>1. slice[p].from = offset /\ offset <= slice[p].to /\ slice[p].to <= Len(log)
    BY DEF DrainFacts, SliceIsNew
  <2>2. slice[p].to \in Int
    BY MaxRequestsAssumption DEF WorldTypes, Slices
  <2> QED BY <1>1, <2>1, <2>2
<1>4. DrainedOnce'
  <2> SUFFICES ASSUME NEW i \in 1 .. Len(log) + 1
               PROVE  drained'[i] = IF i <= offset THEN <<episode>> ELSE <<>>
    BY <1>1 DEF DrainedOnce
  <2>1. CASE i \in 1 .. Len(log) BY <1>1, <2>1 DEF DrainFacts, DrainedOnce
  <2>2. CASE i = Len(log) + 1
    <3>1. ~(i <= offset) BY <1>1, <1>0, <2>2
    <3> QED BY <1>1, <2>2, <3>1
  <2> QED BY <1>1, <2>1, <2>2
<1>5. offset' <= Len(log')
  <2>1. offset' = offset OBVIOUS
  <2> QED BY <1>0, <1>1, <2>1
<1>7. LastSlice' BY <1>1, <1>6 DEF DrainFacts, LastSlice
<1> QED BY <1>2, <1>3, <1>4, <1>5, <1>7 DEF DrainFacts

(* A poll that begins while there is none.                                 *)
LEMMA PollReadDrain ==
  ASSUME WorldTypes, DrainFacts, NEW p \in Pollers, PollRead(p), episode' = episode,
         \A q \in Pollers : AtPoll(q)' => q = p,
         main' = "draining" => p = Main, main' \notin {"collect", "idle"}
  PROVE  DrainFacts'
<1>1. slice'[p] = [from |-> offset, to |-> Len(log)]
  BY DEF PollRead, WorldTypes
<1>2. UNCHANGED <<log, offset, drained, settled>> BY DEF PollRead
<1>3. Len(log) \in Nat /\ offset \in Nat BY DEF WorldTypes
<1>4. PollsAlone' BY DEF PollsAlone
<1>5. SliceIsNew' BY <1>1, <1>2, <1>3 DEF SliceIsNew, DrainFacts
<1>6. LastSlice' BY <1>1, <1>2 DEF DrainFacts, LastSlice
<1> QED BY <1>2, <1>4, <1>5, <1>6 DEF DrainFacts, DrainedOnce

(* A poll that ends: the lines it read are drained for the episode.        *)
LEMMA PollAdvanceDrain ==
  ASSUME WorldTypes, DrainFacts, NEW p \in Pollers, AtPoll(p), PollAdvance(p, episode),
         episode \in Episodes, episode' = episode,
         \A q \in Pollers : ~AtPoll(q)',
         main' = "collect" => main = "draining" /\ p = Main, main' \notin {"draining", "idle"}
  PROVE  DrainFacts'
<1>1. /\ slice[p].from = offset /\ offset <= slice[p].to /\ slice[p].to <= Len(log)
      /\ slice[p].to \in Nat /\ Len(log) \in Nat /\ offset \in Nat
  BY MaxRequestsAssumption DEF DrainFacts, SliceIsNew, WorldTypes, Slices
<1>2. offset' = slice[p].to BY <1>1 DEF PollAdvance, Lines
<1>3. UNCHANGED <<log, settled>> BY DEF PollAdvance
<1>4. DrainedOnce'
  <2> DEFINE S == Seq(Episodes)
  <2>1. DOMAIN drained = 1 .. Len(log) /\ DOMAIN log = 1 .. Len(log)
    <3> drained \in Seq(S) /\ log \in Seq(Episodes) /\ Len(drained) = Len(log)
      BY DEF WorldTypes
    <3> HIDE DEF S
    <3> QED OBVIOUS
  <2> SUFFICES ASSUME NEW i \in 1 .. Len(log)
               PROVE  drained'[i] = IF i <= offset' THEN <<episode>> ELSE <<>>
    BY <1>3, <2>1 DEF DrainedOnce
  <2>2. drained'[i] = IF i \in Lines(p) THEN Append(drained[i], episode) ELSE drained[i]
    BY <2>1 DEF PollAdvance
  <2>3. i \in Lines(p) <=> offset < i /\ i <= offset' BY <1>1, <1>2 DEF Lines
  <2>4. drained[i] = IF i <= offset THEN <<episode>> ELSE <<>>
    BY <2>1 DEF DrainFacts, DrainedOnce
  <2>5. Append(<<>>, episode) = <<episode>> OBVIOUS
  <2>6. CASE i \in Lines(p)
    <3>1. ~(i <= offset) /\ i <= offset' BY <1>1, <2>3, <2>6
    <3>2. drained'[i] = Append(<<>>, episode) BY <2>2, <2>4, <2>6, <3>1, Zenon
    <3> QED BY <2>5, <3>1, <3>2
  <2>7. CASE i \notin Lines(p)
    <3>1. i <= offset <=> i <= offset' BY <1>1, <1>2, <2>3, <2>7
    <3> QED BY <2>2, <2>4, <2>7, <3>1, Zenon
  <2> QED BY <2>6, <2>7
<1>5. LastSlice' BY <1>2, <1>3 DEF DrainFacts, LastSlice
<1>6. PollsAlone' /\ SliceIsNew' BY DEF PollsAlone, SliceIsNew
<1> QED BY <1>1, <1>2, <1>3, <1>4, <1>5, <1>6 DEF DrainFacts

\* what main and tick had not met before the step they had not met
CalmBefore == late' = {} /\ ~clash' => late = {} /\ ~clash

LEMMA StaysCalm ==
  ASSUME [TickNext]_tickVars
  PROVE  CalmBefore
<1>1. late \subseteq late'
  BY DEF TickNext, tickVars, StartTicking, AgentRequest, MainTick, Observe, MainStep, SetStop, Join,
         StopNpcs, DrainEvents, CollectAndStash, Wake, TickBegins, TickStep, BuildEnds,
         NpcActs, TickPolls, TickEnds
<1>2. clash => clash'
  <2>1. CASE clash' = clash BY <2>1
  <2>2. CASE \E p \in Pollers, pc \in {"build", "polling"} : Meets(p, pc)
    BY <2>2, MeetsTypes
  <2>3. CASE UNCHANGED <<cast, clash>> BY <2>3
  <2>4. Main \in Pollers /\ Episodes \subseteq Pollers BY DEF Pollers
  <2> QED BY <2>1, <2>2, <2>3, <2>4
          DEF TickNext, tickVars, StartTicking, AgentRequest, MainTick, Observe, MainStep, SetStop,
              Join, StopNpcs, DrainEvents, CollectAndStash, Wake, TickBegins, TickStep,
              BuildEnds, NpcActs, TickPolls, TickEnds, StepNpc
<1> QED BY <1>1, <1>2 DEF CalmBefore

\* a poller that goes somewhere leaves the others where they are
LEMMA GoesAt ==
  ASSUME ControlTypes, NEW p \in Pollers, NEW pc, Goes(p, pc)
  PROVE  At(p)' = pc /\ \A q \in Pollers : q # p => At(q)' = At(q)
BY DEF ControlTypes, Goes, At, Pollers

\* the NPC of a tick that did not outlive its join is that of the episode
LEMMA NpcActsCurrent ==
  ASSUME ControlTypes, RestInv, late = {}, NEW p \in Pollers, NpcActs(p)
  PROVE  Stage(p) = episode /\ main \in {"live", "join"} \cup TickStates
<1>1. p = Main => main \in TickStates BY DEF NpcActs, At, TickStates
<1>2. p = Main \/ Alive(p) BY DEF NpcActs, At, Alive, Ended
<1> QED BY <1>1, <1>2, StagesCurrent

LEMMA ForeignStep ==
  ASSUME TickTypes, RestInv, NoForeignEvents, [TickNext]_tickVars
  PROVE  NoForeignEvents'
<1> SUFFICES ASSUME late' = {}
             PROVE  \A i \in DOMAIN log' : log'[i] = episode' \/ log'[i] \in strays'
  BY DEF NoForeignEvents
<1> ControlTypes /\ WorldTypes BY DEF TickTypes
<1> DEFINE same == UNCHANGED <<episode, strays>>
<1>1. late = {}
  BY DEF TickNext, tickVars, StartTicking, AgentRequest, MainTick, Observe, MainStep, SetStop, Join,
         StopNpcs, DrainEvents, CollectAndStash, Wake, TickBegins, TickStep, BuildEnds,
         NpcActs, TickPolls, TickEnds
<1>2. \A i \in DOMAIN log : log[i] = episode \/ log[i] \in strays
  BY <1>1 DEF NoForeignEvents
<1>3. CASE StartTicking BY <1>3 DEF StartTicking, Emptied
<1>4. ASSUME NEW e, e = episode \/ e \in strays, Logged(e), same
      PROVE  \A i \in DOMAIN log' : log'[i] = episode' \/ log'[i] \in strays'
  <2>1. log \in Seq(Episodes) /\ log' = Append(log, e)
    BY <1>4 DEF Logged, WorldTypes
  <2>2. \A i \in 1 .. Len(log) : log[i] = episode \/ log[i] \in strays BY <1>2, <2>1
  <2>3. DOMAIN log' = 1 .. Len(log) + 1 /\ log'[Len(log) + 1] = e
        /\ \A i \in 1 .. Len(log) : log'[i] = log[i]
    BY <2>1
  <2> QED BY <1>4, <2>2, <2>3
<1>5. CASE log' = log /\ same BY <1>2, <1>5
<1>6. ASSUME NEW e \in Episodes, AgentRequest(e)
      PROVE  (e = episode \/ e \in strays) /\ Logged(e) /\ same
  BY <1>6 DEF AgentRequest
<1>7. ASSUME NEW p \in Pollers, NpcActs(p)
      PROVE  (Logged(episode) /\ same) \/ (log' = log /\ same)
  BY <1>1, <1>7, NpcActsCurrent DEF NpcActs
<1>8. CollectAndStash => (Logged(episode) /\ same) \/ (log' = log /\ same)
  BY DEF CollectAndStash
<1>9. ASSUME \/ MainTick \/ Observe \/ SetStop \/ Join \/ StopNpcs \/ DrainEvents
             \/ \E e \in Episodes : Wake(e) \/ TickBegins(e)
             \/ \E p \in Pollers : BuildEnds(p) \/ TickPolls(p) \/ TickEnds(p)
             \/ UNCHANGED tickVars
      PROVE  log' = log /\ same
  BY <1>9 DEF tickVars, feed, MainTick, Observe, SetStop, Join, StopNpcs, DrainEvents,
              LastDrain, Wake, TickBegins, BuildEnds, TickPolls, TickEnds, PollRead, PollAdvance
<1> HIDE DEF same
<1> QED BY <1>3, <1>4, <1>5, <1>6, <1>7, <1>8, <1>9 DEF TickNext, MainStep, TickStep

LEMMA DrainStep ==
  ASSUME TickTypes, RestInv, DrainInv, [TickNext]_tickVars
  PROVE  DrainInv'
<1> ControlTypes /\ WorldTypes BY DEF TickTypes
<1> Main \in Pollers BY DEF Pollers
<1> SUFFICES ASSUME late' = {}, ~clash' PROVE DrainFacts' BY DEF DrainInv
<1>0. late = {} /\ ~clash /\ DrainFacts BY StaysCalm DEF CalmBefore, DrainInv
<1>1. CASE StartTicking
  <2>1. \A p \in Pollers : ~AtPoll(p)'
    <3>1. \A e \in Episodes : ~Alive(e)
      <4> SUFFICES ASSUME NEW e \in Episodes, Alive(e) PROVE FALSE OBVIOUS
      <4>1. e \in 1 .. episode
        BY MaxEpisodesAssumption DEF ControlTypes, Alive, Ended, Episodes
      <4> QED BY <1>0, <1>1, <4>1 DEF StartTicking, RestInv, GradedAlone, Alive
    <3>2. \A e \in Episodes : thread'[e] \in {thread[e], "wait"} /\ main' = "live"
      BY <1>1 DEF StartTicking, StartAutoTick, ControlTypes
    <3> SUFFICES ASSUME NEW p \in Pollers PROVE At(p)' \notin {"polling", "draining"}
      BY DEF AtPoll
    <3>3. CASE p = Main BY <3>2, <3>3, MaxEpisodesAssumption DEF At, Episodes
    <3>4. CASE p # Main
      <4>1. p \in Episodes BY <3>4 DEF Pollers
      <4>2. thread'[p] \in Ended \cup {"wait"} BY <3>1, <3>2, <4>1 DEF Alive
      <4> QED BY <3>4, <4>2 DEF At, Ended
    <3> QED BY <3>3, <3>4
  <2>2. log' = <<>> /\ offset' = 0 /\ main' = "live" /\ settled' = 0
    BY <1>0, <1>1 DEF StartTicking, Emptied, DrainFacts, LastSlice
  <2> QED BY <2>1, <2>2 DEF DrainFacts, PollsAlone, SliceIsNew, LastSlice, DrainedOnce
<1>2. ASSUME NEW e \in Episodes, AgentRequest(e) PROVE DrainFacts'
  <2>1. \A p \in Pollers : AtPoll(p)' => AtPoll(p) BY <1>2 DEF AgentRequest, AtPoll, At
  <2>2. Logged(e) /\ UNCHANGED <<offset, slice, episode, settled, main>> BY <1>2 DEF AgentRequest
  <2> QED BY <1>0, <2>1, <2>2, LoggedDrain
<1>3. ASSUME NEW p \in Pollers, NpcActs(p) PROVE DrainFacts'
  <2>1. Stage(p) = episode /\ main \in {"live", "join"} \cup TickStates
    BY <1>0, <1>3, NpcActsCurrent
  <2>2. At(p)' = "read" /\ \A q \in Pollers : q # p => At(q)' = At(q)
    BY <1>3, GoesAt DEF NpcActs
  <2>3. \A q \in Pollers : AtPoll(q)' => AtPoll(q) BY <2>2 DEF AtPoll
  <2>4. settled' = settled /\ (main' = main \/ main' \notin {"draining", "collect", "idle"})
    BY <1>3, <2>1 DEF NpcActs, Goes, TickStates
  <2>5. episode \in Episodes /\ episode' = episode BY <1>3, <2>1 DEF NpcActs, ControlTypes, TickStates
  <2>6. CASE Logged(episode)
    BY <1>0, <1>3, <2>3, <2>4, <2>5, <2>6, LoggedDrain DEF NpcActs
  <2>7. CASE UNCHANGED <<log, drained>>
    BY <1>0, <1>3, <2>3, <2>4, <2>5, <2>7, QuietDrain DEF NpcActs, feed
  <2> QED BY <1>3, <2>1, <2>6, <2>7 DEF NpcActs
<1>4. ASSUME NEW p \in Pollers, TickPolls(p) \/ (p = Main /\ Observe)
                                 \/ (p = Main /\ main = "drain" /\ DrainEvents)
      PROVE  DrainFacts'
  <2>1. PollRead(p) /\ episode' = episode
    BY <1>4 DEF TickPolls, Observe, DrainEvents, LastDrain
  <2>2. \A q \in Pollers : ~AtPoll(q)
    <3> SUFFICES ASSUME NEW q \in Pollers, AtPoll(q) PROVE FALSE OBVIOUS
    <3>1. CASE p = Main
      <4>1. main \in {"read", "live", "drain"}
        BY <1>4, <3>1 DEF TickPolls, Observe, At
      <4>2. q # Main BY <4>1 DEF AtPoll, At
      <4>3. At(q) = "polling"
        BY <4>2 DEF AtPoll, At, Pollers, ControlTypes, ThreadStates, TickStates
      <4>4. main # "drain"
        BY <1>0, <4>2, PollersCurrent DEF TickStates
      <4>5. ~Meets(p, "polling") BY <3>1, <4>2, <4>3 DEF Meets
      <4> QED BY <1>4, <4>4, <4>5 DEF TickPolls, Observe
    <3>2. CASE p # Main
      <4>1. TickPolls(p) /\ Alive(p) /\ p \in Episodes
        BY <1>4, <3>2 DEF TickPolls, At, Alive, Ended, Pollers
      <4>2. p = episode /\ main \in {"live", "join"} \cup TickStates
        BY <1>0, <3>2, <4>1, StagesCurrent DEF Stage
      <4>3. q # p BY <4>1, <3>2 DEF TickPolls, AtPoll, At
      <4>4. q = Main BY <1>0, <4>2, <4>3, PollersCurrent
      <4>5. At(q) = "polling" BY <4>2, <4>4 DEF AtPoll, At, TickStates
      <4>6. ~Meets(p, "polling") BY <3>2, <4>4, <4>5 DEF Meets
      <4> QED BY <4>1, <4>6 DEF TickPolls
    <3> QED BY <3>1, <3>2
  <2>3. /\ \A q \in Pollers : AtPoll(q)' => q = p
        /\ main' = "draining" => p = Main
        /\ main' \notin {"collect", "idle"}
    <3>1. CASE TickPolls(p)
      <4>1. \A q \in Pollers : q # p => At(q)' = At(q) BY <3>1, GoesAt DEF TickPolls
      <4>2. p # Main => main \in {"live", "join"} \cup TickStates
        <5> SUFFICES ASSUME p # Main PROVE main \in {"live", "join"} \cup TickStates
          OBVIOUS
        <5>1. Alive(p) BY <3>1 DEF TickPolls, At, Alive, Ended
        <5> QED BY <1>0, <5>1, StagesCurrent
      <4>3. main' \in {main, "polling"} /\ (p = Main => main' = "polling")
        BY <3>1 DEF TickPolls, Goes
      <4> QED BY <2>2, <4>1, <4>2, <4>3 DEF AtPoll, TickStates
    <3>2. CASE p = Main /\ (Observe \/ (main = "drain" /\ DrainEvents))
      <4>1. thread' = thread /\ main' \in {"polling", "draining"}
        BY <3>2 DEF Observe, DrainEvents
      <4> QED BY <2>2, <3>2, <4>1 DEF AtPoll, At
    <3> QED BY <1>4, <3>1, <3>2
  <2> QED BY <1>0, <2>1, <2>3, PollReadDrain
<1>5. ASSUME NEW p \in Pollers,
             TickEnds(p) \/ (p = Main /\ main = "draining" /\ DrainEvents)
      PROVE  DrainFacts'
  <2>1. AtPoll(p) /\ episode' = episode
    BY <1>5 DEF TickEnds, DrainEvents, AtPoll, At
  <2>2. PollAdvance(p, episode) /\ episode \in Episodes
    <3>1. CASE TickEnds(p)
      <4>1. p = Main \/ Alive(p) BY <3>1 DEF TickEnds, At, Alive, Ended
      <4>2. p = Main => main \in TickStates BY <3>1 DEF TickEnds, At, TickStates
      <4>3. Stage(p) = episode /\ Stage(p) \in Episodes
        BY <1>0, <3>1, <4>1, <4>2, StagesCurrent, Stages DEF TickEnds, TickStates
      <4> QED BY <3>1, <4>3 DEF TickEnds
    <3>2. CASE p = Main /\ main = "draining" /\ DrainEvents
      BY <3>2 DEF DrainEvents, ControlTypes
    <3> QED BY <1>5, <3>1, <3>2
  <2>3. \A q \in Pollers : q # p => ~AtPoll(q) BY <1>0, <2>1 DEF DrainFacts, PollsAlone
  <2>4. /\ ~AtPoll(p)' /\ \A q \in Pollers : q # p => At(q)' = At(q)
        /\ main' = "collect" => main = "draining" /\ p = Main
        /\ main' \notin {"draining", "idle"}
    <3>1. CASE TickEnds(p)
      <4>1. PICK pc \in {"live", "wait", "crashed"} : Goes(p, pc) /\ (p = Main => pc = "live")
        BY <3>1 DEF TickEnds, Over
      <4>2. At(p)' = pc /\ \A q \in Pollers : q # p => At(q)' = At(q) BY <4>1, GoesAt
      <4>3. p # Main => main' = main /\ main \in {"live", "join"} \cup TickStates
        BY <1>0, <2>1, <4>1, PollersCurrent DEF Goes
      <4>4. p = Main => main' = "live" BY <4>1 DEF Goes
      <4> QED BY <4>2, <4>3, <4>4 DEF AtPoll, TickStates
    <3>2. CASE p = Main /\ main = "draining" /\ DrainEvents
      BY <3>2 DEF DrainEvents, AtPoll, At
    <3> QED BY <1>5, <3>1, <3>2
  <2>5. \A q \in Pollers : ~AtPoll(q)' BY <2>3, <2>4 DEF AtPoll
  <2> QED BY <1>0, <2>1, <2>2, <2>4, <2>5, PollAdvanceDrain
<1>6. ASSUME \/ MainTick \/ SetStop \/ Join
             \/ \E e \in Episodes : Wake(e) \/ TickBegins(e)
             \/ \E p \in Pollers : BuildEnds(p)
             \/ UNCHANGED tickVars
      PROVE  DrainFacts'
  <2>1. UNCHANGED feed /\ episode' = episode
    BY <1>6 DEF tickVars, feed, MainTick, SetStop, Join, Wake, TickBegins, BuildEnds
  <2>2. /\ \A p \in Pollers : AtPoll(p)' => AtPoll(p)
        /\ main' = main \/ main' \notin {"draining", "collect", "idle"}
    <3>1. CASE SetStop \/ Join \/ UNCHANGED tickVars
      BY <3>1 DEF tickVars, SetStop, Join, AtPoll, At
    <3>2. ASSUME NEW p \in Pollers, NEW pc, pc \notin {"polling", "draining", "collect", "idle"},
                 Goes(p, pc)
          PROVE  /\ \A q \in Pollers : AtPoll(q)' => AtPoll(q)
                 /\ main' = main \/ main' \notin {"draining", "collect", "idle"}
      <4>1. At(p)' = pc /\ \A q \in Pollers : q # p => At(q)' = At(q) BY <3>2, GoesAt
      <4>2. main' \in {main, pc} BY <3>2 DEF Goes
      <4> QED BY <3>2, <4>1, <4>2 DEF AtPoll
    <3>3. ASSUME NEW e \in Episodes PROVE e \in Pollers /\ e # Main
      BY <3>3, MaxEpisodesAssumption DEF Pollers, Episodes, Main
    <3>4. ASSUME NEW p \in Pollers, NEW e \in Episodes, StepNpc(p, e)
          PROVE  \E pc : pc \notin {"polling", "draining", "collect", "idle"} /\ Goes(p, pc)
      BY <3>4 DEF StepNpc
    <3>5. CASE MainTick
      <4>1. episode \in Episodes BY <3>5 DEF MainTick, ControlTypes
      <4> QED BY <3>2, <3>4, <3>5, <4>1 DEF MainTick
    <3>6. CASE \E e \in Episodes : Wake(e)
      <4> PICK e \in Episodes : Wake(e) BY <3>6
      <4>1. flag[e] \in {"none", "set", "clear"} BY DEF ControlTypes
      <4>2. \E pc \in {"crashed", "exited", "tick"} :
              thread' = [thread EXCEPT ![e] = pc] /\ main' = main
        BY <4>1 DEF Wake
      <4> QED BY <3>2, <3>3, <4>2 DEF Goes
    <3>7. CASE \E e \in Episodes : TickBegins(e)
      <4> PICK e \in Episodes : TickBegins(e) BY <3>7
      <4>1. StepNpc(e, e) \/ Goes(e, "exited") BY DEF TickBegins
      <4> QED BY <3>2, <3>3, <3>4, <4>1
    <3>8. CASE \E p \in Pollers : BuildEnds(p)
      <4> PICK p \in Pollers : BuildEnds(p) BY <3>8
      <4>1. \E pc \in {"npc", "read", "live", "crashed"} : Goes(p, pc) BY DEF BuildEnds
      <4> QED BY <3>2, <4>1
    <3> QED BY <1>6, <3>1, <3>5, <3>6, <3>7, <3>8
  <2> QED BY <1>0, <2>1, <2>2, QuietDrain
<1>7. CASE StopNpcs
  <2>1. UNCHANGED <<episode, log, offset, slice, drained, thread>> /\ main' = "drain"
        /\ settled' = Len(log)
    BY <1>7 DEF StopNpcs
  <2>2. \A p \in Pollers : AtPoll(p)' => AtPoll(p) BY <2>1 DEF AtPoll, At
  <2>3. PollsAlone' /\ SliceIsNew' /\ DrainedOnce'
    BY <1>0, <2>1, <2>2 DEF DrainFacts, PollsAlone, SliceIsNew, DrainedOnce
  <2>4. Len(log) \in Nat BY DEF WorldTypes
  <2> QED BY <1>0, <2>1, <2>3, <2>4 DEF DrainFacts, LastSlice
<1>8. CASE CollectAndStash
  <2>1. UNCHANGED <<episode, offset, slice, thread>> /\ main' = "idle" /\ settled' = 0
        /\ episode \in Episodes
    BY <1>8 DEF CollectAndStash, ControlTypes
  <2>2. \A p \in Pollers : AtPoll(p)' => AtPoll(p) BY <2>1 DEF AtPoll, At
  <2>3. CASE Logged(episode) BY <1>0, <2>1, <2>2, <2>3, LoggedDrain
  <2>4. CASE UNCHANGED <<log, drained>>
    <3>1. PollsAlone' /\ SliceIsNew' /\ DrainedOnce'
      BY <1>0, <2>1, <2>2, <2>4 DEF DrainFacts, PollsAlone, SliceIsNew, DrainedOnce
    <3>2. Len(log) \in Nat BY DEF WorldTypes
    <3> QED BY <1>0, <2>1, <2>4, <3>1, <3>2 DEF DrainFacts, LastSlice
  <2> QED BY <1>8, <2>3, <2>4 DEF CollectAndStash
<1>9. DrainEvents => main \in {"drain", "draining"} BY DEF DrainEvents
<1> QED BY <1>1, <1>2, <1>3, <1>4, <1>5, <1>6, <1>7, <1>8, <1>9 DEF TickNext, MainStep, TickStep

-----------------------------------------------------------------------------
(* What is said of broken NPCs.                                            *)
LEMMA QuietSaid ==
  ASSUME SaidInv, UNCHANGED <<broken, said, unheard, episode>>, clash => clash',
         \A p \in Pollers : At(p)' = "build" => At(p) = "build" /\ Stage(p)' = Stage(p)
  PROVE  SaidInv'
<1>1. BrokenSaidOnce' BY DEF SaidInv, BrokenSaidOnce
<1>2. BuildsAlone'
  <2> SUFFICES ASSUME ~clash', NEW p \in Pollers, At(p)' = "build"
               PROVE  /\ ~broken'[Stage(p)']
                      /\ \A q \in Pollers \ {p} : At(q)' = "build" => Stage(q)' # Stage(p)'
    BY DEF BuildsAlone
  <2>1. At(p) = "build" /\ Stage(p)' = Stage(p) OBVIOUS
  <2>2. ~broken[Stage(p)] /\ \A q \in Pollers \ {p} : At(q) = "build" => Stage(q) # Stage(p)
    BY <2>1 DEF SaidInv, BuildsAlone
  <2>3. broken'[Stage(p)'] = broken[Stage(p)] BY <2>1
  <2> QED BY <2>1, <2>2, <2>3
<1> QED BY <1>1, <1>2 DEF SaidInv, UnheardBroke

\* where a poller goes that does not go to build
LEMMA GoesSaid ==
  ASSUME ControlTypes, SaidInv, UNCHANGED <<broken, said, unheard, episode>>, clash => clash',
         NEW p \in Pollers, NEW pc, pc # "build", Goes(p, pc)
  PROVE  SaidInv'
<1>1. At(p)' = pc /\ \A q \in Pollers : q # p => At(q)' = At(q) BY GoesAt
<1>2. \A q \in Pollers : Stage(q)' = Stage(q) BY DEF Stage
<1> QED BY <1>1, <1>2, QuietSaid

LEMMA StepNpcSaid ==
  ASSUME ControlTypes, CastTypes, SaidInv, NEW p \in Pollers, NEW e \in Episodes,
         Stage(p) = e, At(p) \in {"live", "tick"}, StepNpc(p, e), episode' = episode
  PROVE  SaidInv'
<1>1. clash => clash' BY MeetsTypes DEF StepNpc
<1>2. UNCHANGED <<broken, said, unheard>>
  <2>1. said \in [Episodes -> Nat] BY DEF CastTypes
  <2>2. CASE Said(e, broken[e], broken[e])
    <3>1. ~Reports(broken[e], broken[e]) BY DEF Reports
    <3>2. said' = [said EXCEPT ![e] = @ + 0] BY <2>2, <3>1 DEF Said
    <3>3. said[e] + 0 = said[e] BY <2>1
    <3>4. said' = said BY <2>1, <3>2, <3>3
    <3> QED BY <3>4 DEF StepNpc
  <2>3. CASE said' = said BY <2>3 DEF StepNpc
  <2> QED BY <2>2, <2>3 DEF StepNpc
<1>3. CASE \E pc \in {"read", "npc"} : Goes(p, pc) BY <1>1, <1>2, <1>3, GoesSaid
<1>4. CASE Goes(p, "build") /\ ~broken[e]
  <2>1. At(p)' = "build" /\ \A q \in Pollers : q # p => At(q)' = At(q) BY <1>4, GoesAt
  <2>2. \A q \in Pollers : Stage(q)' = Stage(q) BY DEF Stage
  <2>3. BrokenSaidOnce' BY <1>1, <1>2 DEF SaidInv, BrokenSaidOnce
  <2>4. ASSUME NEW q \in Pollers, q # p, At(q) = "build", Stage(q) = e
        PROVE  clash'
    <3>1. (p = Main) # (q = Main) BY <2>4 DEF Stage
    <3> DEFINE met == \E r \in Pollers : (p = Main) # (r = Main) /\ At(r) = "build"
    <3>2. met BY <2>4, <3>1
    <3> QED BY <3>2 DEF StepNpc, Meets
  <2>5. BuildsAlone'
    <3> SUFFICES ASSUME ~clash', NEW q \in Pollers, At(q)' = "build"
                 PROVE  /\ ~broken[Stage(q)]
                        /\ \A r \in Pollers \ {q} : At(r)' = "build" => Stage(r) # Stage(q)
      BY <1>2, <2>2 DEF BuildsAlone
    <3>1. ~broken[Stage(q)] BY <1>1, <1>4, <2>1 DEF SaidInv, BuildsAlone
    <3>2. ASSUME NEW r \in Pollers \ {q}, At(r)' = "build", Stage(r) = Stage(q) PROVE FALSE
      <4>1. CASE q = p \/ r = p BY <2>1, <2>4, <3>2, <4>1
      <4>2. CASE q # p /\ r # p BY <1>1, <2>1, <3>2, <4>2 DEF SaidInv, BuildsAlone
      <4> QED BY <4>1, <4>2
    <3> QED BY <3>1, <3>2
  <2> QED BY <1>2, <2>3, <2>5 DEF SaidInv, UnheardBroke
<1> QED BY <1>3, <1>4 DEF StepNpc

\* the end of a build that breaks the NPC: nobody else had, and the dashboard is
\* told, or refuses to be
LEMMA BreaksSaid ==
  ASSUME ControlTypes, CastTypes, SaidInv, NEW p \in Pollers, At(p) = "build",
         NEW pc, pc # "build", Goes(p, pc), MarkBroken(Stage(p)),
         \/ Said(Stage(p), FALSE, TRUE) /\ UNCHANGED unheard
         \/ unheard' = unheard \cup {Stage(p)} /\ UNCHANGED said,
         UNCHANGED <<episode, clash>>
  PROVE  SaidInv'
<1>1. Stage(p) \in Episodes /\ Stage(p) <= episode
  <2>1. Stage(p) \in Episodes BY Stages DEF TickStates
  <2>2. p # Main => thread[p] = "build" /\ p \in Episodes BY DEF At, Pollers
  <2>3. p # Main => p <= episode
    BY <2>2, MaxEpisodesAssumption DEF ControlTypes, Episodes
  <2> QED BY <2>1, <2>3, MaxEpisodesAssumption DEF Stage, ControlTypes
<1>0. UnheardBroke'
  <2>1. broken' = [broken EXCEPT ![Stage(p)] = TRUE] BY DEF MarkBroken
  <2>2. \A e \in Episodes : broken[e] \/ e = Stage(p) => broken'[e]
    BY <1>1, <2>1, Zenon DEF CastTypes
  <2>3. unheard' \subseteq unheard \cup {Stage(p)} OBVIOUS
  <2> QED BY <1>1, <2>2, <2>3 DEF SaidInv, UnheardBroke, CastTypes
<1> SUFFICES ASSUME ~clash' PROVE BrokenSaidOnce' /\ BuildsAlone'
  BY <1>0 DEF SaidInv, BrokenSaidOnce, BuildsAlone
<1>a. ~clash OBVIOUS
<1>2. ~broken[Stage(p)] BY <1>a DEF SaidInv, BuildsAlone
<1>3. broken' = [broken EXCEPT ![Stage(p)] = TRUE] BY DEF MarkBroken
<1>4. broken'[Stage(p)] /\ \A e \in Episodes : e # Stage(p) => broken'[e] = broken[e]
  BY <1>1, <1>3, Zenon DEF CastTypes
<1>5. said[Stage(p)] = 0 BY <1>a, <1>1, <1>2 DEF SaidInv, BrokenSaidOnce
<1>b. \A e \in Episodes : said[e] = IF broken[e] /\ e \notin unheard THEN 1 ELSE 0
  BY <1>a DEF SaidInv, BrokenSaidOnce
<1>c. Stage(p) \notin unheard BY <1>2 DEF SaidInv, UnheardBroke
<1>7. BrokenSaidOnce'
  <2> SUFFICES ASSUME NEW e \in Episodes
               PROVE  said'[e] = IF broken'[e] /\ e \notin unheard' THEN 1 ELSE 0
    BY DEF BrokenSaidOnce
  <2>1. CASE Said(Stage(p), FALSE, TRUE) /\ UNCHANGED unheard
    <3>2. said' = [said EXCEPT ![Stage(p)] = @ + 1] BY <2>1 DEF Said, Reports
    <3>1. said'[Stage(p)] = 1 /\ \A f \in Episodes : f # Stage(p) => said'[f] = said[f]
      BY <1>1, <1>5, <3>2 DEF CastTypes
    <3> QED BY <1>4, <1>b, <1>c, <2>1, <3>1
  <2>2. CASE unheard' = unheard \cup {Stage(p)} /\ UNCHANGED said
    BY <1>4, <1>5, <1>b, <2>2
  <2> QED BY <2>1, <2>2
<1>8. BuildsAlone'
  <2>1. At(p)' = pc /\ \A q \in Pollers : q # p => At(q)' = At(q) BY GoesAt
  <2>2. \A q \in Pollers : Stage(q)' = Stage(q) BY DEF Stage
  <2> SUFFICES ASSUME NEW q \in Pollers, At(q)' = "build"
               PROVE  /\ ~broken'[Stage(q)]
                      /\ \A r \in Pollers \ {q} : At(r)' = "build" => Stage(r) # Stage(q)
    BY <2>2 DEF BuildsAlone
  <2>3. q # p /\ At(q) = "build" BY <2>1
  <2>4. Stage(q) # Stage(p) /\ ~broken[Stage(q)] /\ Stage(q) \in Episodes
    BY <1>a, <2>3, Stages DEF SaidInv, BuildsAlone, TickStates
  <2>5. ~broken'[Stage(q)] BY <1>4, <2>4
  <2>6. \A r \in Pollers \ {q} : At(r)' = "build" => Stage(r) # Stage(q)
    BY <1>a, <2>1, <2>3 DEF SaidInv, BuildsAlone
  <2> QED BY <2>5, <2>6
<1> QED BY <1>7, <1>8

LEMMA SaidStep ==
  ASSUME TickTypes, SaidInv, [TickNext]_tickVars
  PROVE  SaidInv'
<1> ControlTypes /\ CastTypes BY DEF TickTypes
<1> Main \in Pollers /\ Episodes \subseteq Pollers BY DEF Pollers
<1> \A e \in Episodes : e # Main /\ Stage(e) = e
  BY MaxEpisodesAssumption DEF Episodes, Main, Stage
<1>1. CASE StartTicking
  <2>1. episode' \in Episodes /\ episode' > episode /\ main' = "live" /\ clash' = clash
    BY <1>1, MaxEpisodesAssumption DEF StartTicking, ControlTypes, Episodes
  <2>2. PICK b \in BOOLEAN : broken' = [broken EXCEPT ![episode'] = b]
    BY <1>1 DEF StartTicking, StartNpcs, NpcStarts
  <2>3. broken'[episode'] = b /\ \A e \in Episodes \ {episode'} : broken'[e] = broken[e]
    BY <2>1, <2>2, Zenon DEF CastTypes
  <2>4. said' = [said EXCEPT ![episode'] = IF broken'[episode'] THEN 1 ELSE 0]
    BY <1>1 DEF StartTicking, StartNpcs
  <2>5. /\ said'[episode'] = IF broken'[episode'] THEN 1 ELSE 0
        /\ \A e \in Episodes \ {episode'} : said'[e] = said[e]
    BY <2>1, <2>4 DEF CastTypes
  <2>9. unheard' = unheard /\ episode' \notin unheard /\ UnheardBroke'
    <3>1. unheard' = unheard BY <1>1 DEF StartTicking, StartNpcs
    <3>2. \A e \in unheard : e <= episode /\ e \in Episodes /\ broken[e]
      BY DEF SaidInv, UnheardBroke, CastTypes
    <3>3. \A e \in unheard : e < episode' /\ e <= episode'
      BY <2>1, <3>2, MaxEpisodesAssumption DEF ControlTypes, Episodes
    <3>4. episode' \notin unheard BY <2>1, <3>3, MaxEpisodesAssumption DEF Episodes
    <3>5. \A e \in unheard : broken'[e] BY <2>3, <3>2, <3>4
    <3> QED BY <3>1, <3>3, <3>4, <3>5 DEF UnheardBroke
  <2>6. BrokenSaidOnce'
    BY <2>1, <2>3, <2>5, <2>9 DEF SaidInv, BrokenSaidOnce
  <2>7. \A p \in Pollers : At(p)' = "build"
          => At(p) = "build" /\ Stage(p)' = Stage(p) /\ Stage(p) \in Episodes \ {episode'}
    <3> SUFFICES ASSUME NEW p \in Pollers, At(p)' = "build"
                 PROVE  At(p) = "build" /\ Stage(p)' = Stage(p)
                        /\ Stage(p) \in Episodes \ {episode'}
      OBVIOUS
    <3>1. p # Main /\ p \in Episodes /\ thread'[p] = "build" BY <2>1 DEF At, Pollers
    <3>2. p # episode' /\ thread'[p] = thread[p]
      <4>1. CASE StartAutoTick(episode')
        BY <2>1, <3>1, <4>1 DEF StartAutoTick, ControlTypes
      <4>2. CASE UNCHANGED <<flag, thread>>
        BY <2>1, <3>1, <4>2 DEF ControlTypes
      <4> QED BY <1>1, <4>1, <4>2 DEF StartTicking
    <3> QED BY <3>1, <3>2 DEF At, Stage
  <2>8. BuildsAlone'
    <3> SUFFICES ASSUME ~clash', NEW p \in Pollers, At(p)' = "build"
                 PROVE  /\ ~broken'[Stage(p)']
                        /\ \A q \in Pollers \ {p} : At(q)' = "build" => Stage(q)' # Stage(p)'
      BY DEF BuildsAlone
    <3>1. At(p) = "build" /\ Stage(p)' = Stage(p) /\ Stage(p) \in Episodes \ {episode'}
      BY <2>7
    <3>2. ~broken[Stage(p)] /\ \A q \in Pollers \ {p} : At(q) = "build" => Stage(q) # Stage(p)
      BY <2>1, <3>1 DEF SaidInv, BuildsAlone
    <3>3. broken'[Stage(p)'] = broken[Stage(p)] BY <2>3, <3>1
    <3> QED BY <2>7, <3>1, <3>2, <3>3
  <2> QED BY <2>6, <2>8, <2>9 DEF SaidInv
<1>2. CASE MainTick
  <2>1. episode \in Episodes /\ Stage(Main) = episode /\ At(Main) = "live"
    BY <1>2 DEF MainTick, ControlTypes, Stage, At
  <2> QED BY <1>2, <2>1, StepNpcSaid DEF MainTick
<1>3. ASSUME NEW e \in Episodes, TickBegins(e) PROVE SaidInv'
  <2>1. At(e) = "tick" /\ Stage(e) = e /\ episode' = episode BY <1>3 DEF TickBegins, At
  <2>2. CASE StepNpc(e, e) BY <2>1, <2>2, StepNpcSaid
  <2>3. CASE Goes(e, "exited") /\ UNCHANGED <<cast, clash>>
    BY <2>1, <2>3, GoesSaid DEF cast
  <2> QED BY <1>3, <2>2, <2>3 DEF TickBegins
<1>4. ASSUME NEW p \in Pollers, BuildEnds(p) PROVE SaidInv'
  <2>1. At(p) = "build" /\ UNCHANGED <<episode, clash>> BY <1>4 DEF BuildEnds
  <2>2. CASE Goes(p, "npc") /\ UNCHANGED <<broken, said, unheard>> BY <2>1, <2>2, GoesSaid
  <2>3. CASE /\ MarkBroken(Stage(p))
             /\ \/ Said(Stage(p), FALSE, TRUE) /\ UNCHANGED unheard
                \/ unheard' = unheard \cup {Stage(p)} /\ UNCHANGED said
             /\ \E pc \in {"read", "live", "crashed"} : Goes(p, pc)
    BY <2>1, <2>3, BreaksSaid
  <2> QED BY <1>4, <2>2, <2>3 DEF BuildEnds
<1>5. ASSUME NEW p \in Pollers, NpcActs(p) \/ TickPolls(p) \/ TickEnds(p) PROVE SaidInv'
  <2>1. clash => clash' BY <1>5, MeetsTypes DEF NpcActs, TickPolls, TickEnds
  <2>2. UNCHANGED <<broken, said, unheard, episode>> BY <1>5 DEF NpcActs, TickPolls, TickEnds, cast
  <2>3. \E pc \in {"read", "polling", "live", "wait", "crashed"} : Goes(p, pc)
    BY <1>5 DEF NpcActs, TickPolls, TickEnds, Over
  <2> QED BY <2>1, <2>2, <2>3, GoesSaid
<1>6. CASE Observe
  <2>1. clash => clash' BY <1>6, MeetsTypes DEF Observe
  <2>2. Goes(Main, "polling") /\ UNCHANGED <<broken, said, unheard, episode>>
    BY <1>6 DEF Observe, Goes, cast
  <2> QED BY <2>1, <2>2, GoesSaid
<1>7. ASSUME NEW e \in Episodes, Wake(e) PROVE SaidInv'
  <2>1. flag[e] \in {"none", "set", "clear"} BY DEF ControlTypes
  <2>2. \E pc \in {"crashed", "exited", "tick"} : Goes(e, pc)
    BY <1>7, <2>1 DEF Wake, Goes
  <2>3. UNCHANGED <<broken, said, unheard, episode, clash>> BY <1>7 DEF Wake, cast
  <2> QED BY <2>2, <2>3, GoesSaid
<1>8. ASSUME MainStep \/ UNCHANGED tickVars \/ \E e \in Episodes : AgentRequest(e)
      PROVE  SaidInv'
  <2>1. UNCHANGED <<broken, said, unheard, clash, episode, thread>>
    BY <1>8 DEF AgentRequest, MainStep, SetStop, Join, StopNpcs, DrainEvents, CollectAndStash,
                tickVars, cast
  <2>2. main' \in {main, "live", "join", "npcs", "drain", "draining", "collect", "idle"}
    BY <1>8 DEF AgentRequest, MainStep, SetStop, Join, StopNpcs, DrainEvents, CollectAndStash,
                tickVars
  <2>3. \A p \in Pollers : At(p)' = "build" => At(p) = "build" /\ Stage(p)' = Stage(p)
    BY <2>1, <2>2 DEF At, Stage
  <2> QED BY <2>1, <2>3, QuietSaid
<1> QED BY <1>1, <1>2, <1>3, <1>4, <1>5, <1>6, <1>7, <1>8 DEF TickNext, TickStep

-----------------------------------------------------------------------------
LEMMA InitTick == TickInit => TickInv
<1> SUFFICES ASSUME TickInit PROVE TickInv OBVIOUS
<1>1. TickTypes /\ RestInv BY InitTypes, InitRest
<1>2. log = <<>> /\ offset = 0 /\ main = "idle" /\ episode = 0 /\ settled = 0
  BY DEF TickInit
<1>3. NoForeignEvents BY <1>2 DEF NoForeignEvents
<1>4. \A p \in Pollers : At(p) \notin {"polling", "draining", "build"}
  BY DEF TickInit, At, Pollers
<1>5. DrainInv
  BY <1>2, <1>4 DEF DrainInv, DrainFacts, PollsAlone, SliceIsNew, LastSlice, DrainedOnce, AtPoll
<1>6. SaidInv
  BY <1>4 DEF TickInit, SaidInv, BrokenSaidOnce, BuildsAlone, UnheardBroke
<1> QED BY <1>1, <1>3, <1>5, <1>6 DEF TickInv

LEMMA TickInvStep == TickInv /\ [TickNext]_tickVars => TickInv'
BY TypesStep, RestStep, ForeignStep, DrainStep, SaidStep DEF TickInv

(* NoForeignEvents, for any number of episodes on the world: what the      *)
(* grader of an episode reads in the log was requested in that episode, by *)
(* its agent, its NPCs or the probe, or by an earlier one whose agent or   *)
(* request was still there when the world was reset; unless a tick has     *)
(* outlived its join.  No step of the service carries a line over.         *)
THEOREM LogIsOfEpisode == TickSpec => []NoForeignEvents
<1>1. TickInv => NoForeignEvents BY DEF TickInv
<1> QED BY <1>1, InitTick, TickInvStep, PTL DEF TickSpec

(* EventsOnce: the two halves of poll_events drain every line once and for *)
(* its episode, whether it is the tick thread, the main thread or the last *)
(* drain that polls, if no tick outlives its join and no two polls meet.   *)
THEOREM EventsDrainedOnce == TickSpec => []EventsOnce
<1>1. TickInv => EventsOnce BY DEF TickInv, DrainInv, DrainFacts, EventsOnce
<1> QED BY <1>1, InitTick, TickInvStep, PTL DEF TickSpec

(* NothingLeftBehind: when collect reads the log, every line that was      *)
(* there when the NPCs were stopped has been drained once for the episode, *)
(* whatever agents write meanwhile and however often stop_episode raised   *)
(* and was called again, under the same two conditions.                    *)
THEOREM LastDrainIsLast == TickSpec => []NothingLeftBehind
<1>1. TickInv => NothingLeftBehind
  <2> SUFFICES ASSUME TickInv, main = "collect", late = {}, ~clash, NEW i \in 1 .. settled
               PROVE  drained[i] = <<episode>>
    BY DEF NothingLeftBehind
  <2>1. DrainFacts /\ WorldTypes BY DEF TickInv, DrainInv, TickTypes
  <2>2. settled <= offset /\ settled <= Len(log) /\ settled \in Nat /\ offset \in Nat
        /\ Len(log) \in Nat /\ DOMAIN log = 1 .. Len(log)
    BY <2>1, MaxRequestsAssumption DEF DrainFacts, LastSlice, WorldTypes
  <2>3. i \in DOMAIN log /\ i <= offset BY <2>2
  <2> QED BY <2>1, <2>3 DEF DrainFacts, DrainedOnce
<1> QED BY <1>1, InitTick, TickInvStep, PTL DEF TickSpec

(* BrokenSaidOnce: an NPC that broke is reported once, by start, by a tick *)
(* of its thread or by a call of tick(), unless two of them were in its    *)
(* first step together or the dashboard refused the report.                *)
THEOREM BrokenIsSaid == TickSpec => []BrokenSaidOnce
<1>1. TickInv => BrokenSaidOnce BY DEF TickInv, SaidInv
<1> QED BY <1>1, InitTick, TickInvStep, PTL DEF TickSpec

-----------------------------------------------------------------------------
(* The service.                                                            *)

USE PoolableAssumption, CapacityAssumption, NoneAssumption

-----------------------------------------------------------------------------
(* The order of the warm pool: taking a key out, and evicting the oldest.  *)
LEMMA WithoutProperties ==
  ASSUME NEW S, NEW q \in Seq(S), NEW s, IsInjective(q)
  PROVE  /\ Without(q, s) \in Seq(S) /\ IsInjective(Without(q, s))
         /\ ToSet(Without(q, s)) = ToSet(q) \ {s}
         /\ Len(Without(q, s)) = IF s \in ToSet(q) THEN Len(q) - 1 ELSE Len(q)
<1> DEFINE p == CHOOSE i \in DOMAIN q : q[i] = s
           w == Without(q, s)
<1>1. CASE s \notin ToSet(q)
  BY <1>1 DEF Without, ToSet
<1>2. CASE s \in ToSet(q)
  <2>1. p \in 1 .. Len(q) /\ q[p] = s
    BY <1>2 DEF ToSet
  <2>2. w = SubSeq(q, 1, p - 1) \o SubSeq(q, p + 1, Len(q))
    BY <1>2 DEF Without, ToSet, RemoveAt
  <2> HIDE DEF p, w
  <2>3. /\ SubSeq(q, 1, p - 1) \in Seq(S) /\ Len(SubSeq(q, 1, p - 1)) = p - 1
        /\ \A i \in 1 .. p - 1 : SubSeq(q, 1, p - 1)[i] = q[i]
    <3>1. \A i \in 1 .. p - 1 : q[i] \in S
      BY <2>1
    <3> QED BY <2>1, <3>1, SubSeqProperties
  <2>4. /\ SubSeq(q, p + 1, Len(q)) \in Seq(S)
        /\ Len(SubSeq(q, p + 1, Len(q))) = Len(q) - p
        /\ \A i \in 1 .. Len(q) - p : SubSeq(q, p + 1, Len(q))[i] = q[i + p]
    <3>1. \A i \in p + 1 .. Len(q) : q[i] \in S
      BY <2>1
    <3> QED BY <2>1, <3>1, SubSeqProperties
  <2>5. /\ w \in Seq(S) /\ Len(w) = Len(q) - 1
        /\ \A i \in 1 .. Len(q) - 1 : w[i] = IF i < p THEN q[i] ELSE q[i + 1]
    <3> DEFINE a == SubSeq(q, 1, p - 1)
               b == SubSeq(q, p + 1, Len(q))
    <3>1. a \in Seq(S) /\ b \in Seq(S) /\ w = a \o b
      BY <2>2, <2>3, <2>4
    <3> HIDE DEF a, b
    <3>2. /\ w \in Seq(S) /\ Len(w) = Len(a) + Len(b)
          /\ \A i \in 1 .. Len(a) + Len(b) :
               w[i] = IF i <= Len(a) THEN a[i] ELSE b[i - Len(a)]
      BY <3>1, ConcatProperties
    <3>3. Len(a) = p - 1 /\ \A i \in 1 .. p - 1 : a[i] = q[i]
      BY <2>3 DEF a
    <3>4. Len(b) = Len(q) - p /\ \A i \in 1 .. Len(q) - p : b[i] = q[i + p]
      BY <2>4 DEF b
    <3>5. Len(w) = Len(q) - 1
      BY <2>1, <3>2, <3>3, <3>4
    <3>6. ASSUME NEW i \in 1 .. Len(q) - 1
          PROVE  w[i] = IF i < p THEN q[i] ELSE q[i + 1]
      <4>1. Len(q) \in Nat /\ p \in Nat /\ Len(a) + Len(b) = Len(q) - 1
        BY <2>1, <3>3, <3>4
      <4>2. w[i] = IF i <= Len(a) THEN a[i] ELSE b[i - Len(a)]
        BY <3>2, <4>1
      <4>3. CASE i < p
        BY <3>3, <4>1, <4>2, <4>3
      <4>4. CASE i >= p
        <5>1. i - (p - 1) \in 1 .. Len(q) - p
          BY <4>1, <4>4
        <5> QED BY <3>3, <3>4, <4>1, <4>2, <4>4, <5>1
      <4> QED BY <4>1, <4>3, <4>4
    <3> QED BY <3>2, <3>5, <3>6
  <2>6. IsInjective(w)
    <3> DEFINE up(k) == IF k < p THEN k ELSE k + 1
    <3>1. Len(q) \in Nat /\ p \in 1 .. Len(q) /\ DOMAIN w = 1 .. Len(q) - 1
      BY <2>1, <2>5
    <3>2. \A k \in 1 .. Len(q) - 1 : up(k) \in 1 .. Len(q) /\ w[k] = q[up(k)]
      BY <2>5, <3>1
    <3>3. \A k1, k2 \in 1 .. Len(q) : q[k1] = q[k2] => k1 = k2
      BY DEF IsInjective
    <3>4. \A k1, k2 \in 1 .. Len(q) - 1 : up(k1) = up(k2) => k1 = k2
      BY <3>1
    <3> HIDE DEF up
    <3>5. \A k1, k2 \in 1 .. Len(q) - 1 : w[k1] = w[k2] => k1 = k2
      BY <3>2, <3>3, <3>4
    <3> QED BY <3>1, <3>5 DEF IsInjective
  <2>7. ToSet(w) \subseteq ToSet(q) \ {s}
    BY <2>1, <2>5 DEF ToSet, IsInjective
  <2>8. ASSUME NEW k \in ToSet(q) \ {s} PROVE k \in ToSet(w)
    <3>1. PICK i \in 1 .. Len(q) : q[i] = k /\ i # p
      BY <2>1, <2>8 DEF ToSet
    <3>2. CASE i < p
      <4>1. i \in 1 .. Len(w) /\ w[i] = k
        BY <2>1, <2>5, <3>1, <3>2
      <4> QED BY <4>1, <2>5 DEF ToSet
    <3>3. CASE i > p
      <4>1. i - 1 \in 1 .. Len(w) /\ w[i - 1] = k
        BY <2>1, <2>5, <3>1, <3>3
      <4> QED BY <4>1, <2>5 DEF ToSet
    <3> QED BY <2>1, <3>1, <3>2, <3>3
  <2> QED BY <1>2, <2>5, <2>6, <2>7, <2>8 DEF w
<1> QED BY <1>1, <1>2

(* What stashing a world does to the order and the mapping.                *)
LEMMA RequeuedProperties ==
  ASSUME NEW s \in Snapshots, order \in Seq(Snapshots), IsInjective(order)
  PROVE  /\ Requeued(s) \in Seq(Snapshots) /\ IsInjective(Requeued(s))
         /\ ToSet(Requeued(s)) = ToSet(order) \cup {s}
         /\ Len(Requeued(s)) = IF s \in ToSet(order) THEN Len(order) ELSE Len(order) + 1
<1> DEFINE w == Without(order, s)
<1>1. /\ w \in Seq(Snapshots) /\ IsInjective(w) /\ ToSet(w) = ToSet(order) \ {s}
      /\ Len(w) = IF s \in ToSet(order) THEN Len(order) - 1 ELSE Len(order)
  BY WithoutProperties
<1>2. Requeued(s) = Append(w, s)
  BY DEF Requeued
<1> HIDE DEF w
<1>3. /\ Append(w, s) \in Seq(Snapshots) /\ Len(Append(w, s)) = Len(w) + 1
      /\ \A i \in 1 .. Len(w) : Append(w, s)[i] = w[i]
      /\ Append(w, s)[Len(w) + 1] = s
  BY <1>1
<1>4. IsInjective(Append(w, s))
  <2>1. ASSUME NEW i \in 1 .. Len(w) PROVE w[i] # s
    <3>1. w[i] \in {w[j] : j \in DOMAIN w}
      BY <1>1
    <3> QED BY <1>1, <3>1 DEF ToSet
  <2>2. \A i, j \in 1 .. Len(w) : w[i] = w[j] => i = j
    BY <1>1 DEF IsInjective
  <2>3. ASSUME NEW i \in 1 .. Len(w) + 1, NEW j \in 1 .. Len(w) + 1,
               Append(w, s)[i] = Append(w, s)[j]
        PROVE  i = j
    <3>1. Len(w) \in Nat
      BY <1>1
    <3>2. CASE i \in 1 .. Len(w) /\ j \in 1 .. Len(w)
      BY <1>3, <2>2, <2>3, <3>2
    <3>3. CASE i = Len(w) + 1 \/ j = Len(w) + 1
      BY <1>3, <2>1, <2>3, <3>1, <3>3
    <3> QED BY <3>1, <3>2, <3>3
  <2>4. DOMAIN Append(w, s) = 1 .. Len(w) + 1
    BY <1>1, <1>3
  <2> QED BY <2>3, <2>4 DEF IsInjective
<1>5. ToSet(Append(w, s)) = ToSet(w) \cup {s}
  <2>1. ToSet(Append(w, s)) \subseteq ToSet(w) \cup {s}
    BY <1>1, <1>3 DEF ToSet
  <2>2. s \in ToSet(Append(w, s))
    BY <1>1, <1>3 DEF ToSet
  <2>3. ASSUME NEW k \in ToSet(w) PROVE k \in ToSet(Append(w, s))
    <3>1. PICK i \in 1 .. Len(w) : w[i] = k
      BY <1>1, <2>3 DEF ToSet
    <3>2. i \in DOMAIN Append(w, s) /\ Append(w, s)[i] = k
      BY <1>1, <1>3, <3>1
    <3> QED BY <3>2 DEF ToSet
  <2> QED BY <2>1, <2>2, <2>3
<1> QED BY <1>1, <1>2, <1>3, <1>4, <1>5

(* The keys that no longer fit, and the order without them.                *)
LEMMA EvictionProperties ==
  ASSUME NEW q \in Seq(Snapshots), IsInjective(q), NEW n \in Int, n <= Len(q),
         NEW rest, rest = IF n > 0 THEN SubSeq(q, n + 1, Len(q)) ELSE q
  PROVE  /\ rest \in Seq(Snapshots) /\ IsInjective(rest)
         /\ Len(rest) = IF n > 0 THEN Len(q) - n ELSE Len(q)
         /\ ToSet(rest) = ToSet(q) \ {q[i] : i \in 1 .. n}
<1>1. CASE n <= 0
  BY <1>1 DEF ToSet
<1>2. CASE n > 0
  <2>1. /\ rest \in Seq(Snapshots) /\ Len(rest) = Len(q) - n
        /\ \A i \in 1 .. Len(q) - n : rest[i] = q[i + n]
    <3>1. \A i \in n + 1 .. Len(q) : q[i] \in Snapshots
      BY <1>2
    <3>2. /\ SubSeq(q, n + 1, Len(q)) \in Seq(Snapshots)
          /\ Len(SubSeq(q, n + 1, Len(q))) = Len(q) - n
          /\ \A i \in 1 .. Len(q) - n : SubSeq(q, n + 1, Len(q))[i] = q[i + n]
      BY <1>2, <3>1, SubSeqProperties
    <3> QED BY <1>2, <3>2
  <2>2. IsInjective(rest)
    BY <1>2, <2>1 DEF IsInjective
  <2>3. ToSet(rest) \subseteq ToSet(q) \ {q[i] : i \in 1 .. n}
    BY <1>2, <2>1 DEF ToSet, IsInjective
  <2>4. ASSUME NEW k \in ToSet(q) \ {q[i] : i \in 1 .. n} PROVE k \in ToSet(rest)
    <3>1. PICK i \in 1 .. Len(q) : q[i] = k
      BY <2>4 DEF ToSet
    <3>2. i > n
      BY <1>2, <2>4, <3>1
    <3>3. i - n \in DOMAIN rest /\ rest[i - n] = k
      BY <1>2, <2>1, <3>1, <3>2
    <3> QED BY <3>3 DEF ToSet
  <2> QED BY <1>2, <2>1, <2>2, <2>3, <2>4
<1> QED BY <1>1, <1>2

-----------------------------------------------------------------------------
(* Types of the operators the actions are built from.                      *)
LEMMA AcquiredType ==
  ASSUME TypeOK, NEW s \in Snapshots, NEW r \in Runtimes
  PROVE  /\ Acquired(s, r) \in Worlds
         /\ \A w \in Worlds : WorldsWith(s, r, w) \in [Runtimes -> Worlds]
BY DEF TypeOK, Acquired, Clean, Booted, Worlds, WorldsWith, Stopped

LEMMA EntryType ==
  ASSUME NEW s \in Snapshots, NEW r \in Runtimes, NEW w \in Worlds
  PROVE  NewEntry(s, r, w) \in Entries
BY DEF NewEntry, Entries, NoResult, Results, Worlds

LEMMA GoneType == ASSUME TypeOK, NEW e \in EpisodeIds PROVE Gone(e) \in Entries
BY DEF TypeOK, Gone, Unused, Entries, NoResult, Results

LEMMA StoppedType == Stopped \in Worlds /\ Unborn \in Worlds
BY DEF Stopped, Unborn, Worlds

LEMMA TakeWarmType ==
  ASSUME TypeOK, IsInjective(order), NEW s \in Snapshots, TakeWarm(s)
  PROVE  warm' \in [Snapshots -> Runtimes \cup {None}] /\ order' \in Seq(Snapshots)
BY WithoutProperties DEF TypeOK, TakeWarm

(* The entries of the table are for real snapshots and runtimes.           *)
EntriesOK ==
  \A e \in episodes : running[e].snapshot \in Snapshots /\ running[e].runtime \in Runtimes

(* The LRU order, the third of WarmPoolSound that is about it alone.       *)
OrderOK ==
  /\ Len(order) <= WarmCapacity /\ IsInjective(order)
  /\ ToSet(order) = {s \in Snapshots : warm[s] # None}

LEMMA GradedType ==
  ASSUME NEW entry \in Entries, NEW result \in Results, NEW done \in BOOLEAN
  PROVE  /\ Graded(entry, result, done) \in Entries
         /\ Graded(entry, result, done).snapshot = entry.snapshot
         /\ Graded(entry, result, done).runtime = entry.runtime
         /\ Graded(entry, result, done).surface = entry.surface
         /\ Graded(entry, result, done).base = entry.base
         /\ Graded(entry, result, done).result = result
         /\ Graded(entry, result, done).stopped = done
BY DEF Graded, Entries

LEMMA GradingsType ==
  ASSUME TypeOK, EntriesOK, NEW e \in episodes
  PROVE  Gradings(e) \subseteq Results \ {NoResult}
<1>1. world[running[e].runtime].work \subseteq EpisodeIds
  BY DEF TypeOK, EntriesOK, Worlds
<1> QED BY <1>1 DEF Gradings, Results, NoResult

LEMMA StashType ==
  ASSUME TypeOK, OrderOK, NEW s \in Snapshots, NEW r \in Runtimes, StashWarm(s, r)
  PROVE  /\ warm' \in [Snapshots -> Runtimes \cup {None}] /\ order' \in Seq(Snapshots)
         /\ world' \in [Runtimes -> Worlds] /\ displaced' \subseteq Runtimes
         /\ OrderOK'
<1> DEFINE q == Requeued(s)
           evicted == {q[i] : i \in 1 .. Excess(s)}
<1>1. /\ q \in Seq(Snapshots) /\ IsInjective(q)
      /\ ToSet(q) = ToSet(order) \cup {s}
      /\ Len(q) = IF s \in ToSet(order) THEN Len(order) ELSE Len(order) + 1
  BY RequeuedProperties DEF TypeOK, OrderOK
<1>2. Excess(s) \in Int /\ Excess(s) <= Len(q) /\ Excess(s) = Len(q) - WarmCapacity
  BY <1>1 DEF Excess
<1>3. order' = IF Excess(s) > 0 THEN SubSeq(q, Excess(s) + 1, Len(q)) ELSE q
  BY DEF StashWarm
<1>4. /\ order' \in Seq(Snapshots) /\ IsInjective(order')
      /\ Len(order') = IF Excess(s) > 0 THEN Len(q) - Excess(s) ELSE Len(q)
      /\ ToSet(order') = ToSet(q) \ evicted
  <2> HIDE DEF q
  <2> QED BY <1>1, <1>2, <1>3, EvictionProperties
<1>5. warm' = [k \in Snapshots |-> IF k \in evicted THEN None ELSE [warm EXCEPT ![s] = r][k]]
  BY DEF StashWarm
<1>6. warm' \in [Snapshots -> Runtimes \cup {None}]
  BY <1>5 DEF TypeOK
<1>7. Len(order') <= WarmCapacity
  BY <1>1, <1>2, <1>4
<1>8. ToSet(order') = {k \in Snapshots : warm'[k] # None}
  <2>1. ToSet(q) \subseteq Snapshots
    BY <1>1 DEF OrderOK
  <2>2. \A k \in Snapshots : k \in ToSet(q) <=> [warm EXCEPT ![s] = r][k] # None
    BY <1>1 DEF OrderOK, TypeOK
  <2> HIDE DEF evicted
  <2> QED BY <1>4, <1>5, <2>1, <2>2
<1>9. world' \in [Runtimes -> Worlds] /\ displaced' \subseteq Runtimes
  BY StoppedType DEF StashWarm, TypeOK
<1> QED BY <1>4, <1>6, <1>7, <1>8, <1>9 DEF OrderOK

LEMMA TakeWarmOrder ==
  ASSUME TypeOK, OrderOK, NEW s \in Snapshots, TakeWarm(s)
  PROVE  OrderOK'
<1>1. /\ order' = Without(order, s) /\ IsInjective(order')
      /\ ToSet(order') = ToSet(order) \ {s} /\ Len(order') <= Len(order)
      /\ Len(order') \in Nat
  <2>1. Len(order) \in Nat /\ (s \in ToSet(order) => Len(order) >= 1)
    BY DEF TypeOK, ToSet
  <2> QED BY <2>1, WithoutProperties DEF TakeWarm, TypeOK, OrderOK
<1>2. {k \in Snapshots : warm'[k] # None} = {k \in Snapshots : warm[k] # None} \ {s}
  BY DEF TakeWarm, TypeOK
<1> QED BY <1>1, <1>2 DEF OrderOK, TypeOK

TypeInv == TypeOK /\ EntriesOK /\ OrderOK

LEMMA PublishType ==
  ASSUME TypeOK, EntriesOK, NEW e \in EpisodeIds, NEW result \in Results,
         Publish(e, result)
  PROVE  /\ episodes' \subseteq EpisodeIds /\ running' \in [EpisodeIds -> Entries]
         /\ reports' \in [EpisodeIds -> Results] /\ EntriesOK'
BY GoneType DEF Publish, TypeOK, EntriesOK

LEMMA RegradeType ==
  ASSUME TypeOK, EntriesOK, NEW e \in EpisodeIds, NEW result \in Results,
         NEW done \in BOOLEAN, episodes' = episodes,
         running' = [running EXCEPT ![e] = Graded(@, result, done)]
  PROVE  running' \in [EpisodeIds -> Entries] /\ EntriesOK'
<1> DEFINE g == Graded(running[e], result, done)
<1>1. running[e] \in Entries
  BY DEF TypeOK
<1>2. g \in Entries /\ g.snapshot = running[e].snapshot /\ g.runtime = running[e].runtime
  BY <1>1, GradedType
<1>3. running' = [running EXCEPT ![e] = g]
  OBVIOUS
<1> HIDE DEF g
<1> QED BY <1>2, <1>3 DEF TypeOK, EntriesOK

LEMMA FinishType ==
  ASSUME TypeOK, EntriesOK, NEW e \in EpisodeIds, NEW result \in Results,
         Finish(e, result)
  PROVE  /\ episodes' \subseteq EpisodeIds /\ running' \in [EpisodeIds -> Entries]
         /\ reports' \in [EpisodeIds -> Results] /\ EntriesOK'
<1>1. CASE Publish(e, result)
  BY <1>1, PublishType
<1>2. CASE /\ running' = [running EXCEPT ![e] = Graded(@, result, TRUE)]
           /\ UNCHANGED <<reports, episodes>>
  BY <1>2, RegradeType DEF TypeOK
<1> QED BY <1>1, <1>2 DEF Finish

LEMMA StopEpisodeType ==
  ASSUME TypeInv, NEW e \in EpisodeIds, StopEpisode(e)
  PROVE  TypeInv'
<1> USE DEF TypeInv
<1>0. e \in episodes
  BY DEF StopEpisode
<1>1. CASE Republish(e)
  <2>1. running[e].result \in Results
    BY DEF TypeOK, Entries
  <2>2. OrderOK'
    BY <1>1 DEF Republish, OrderOK
  <2> QED BY <1>1, <2>1, <2>2, PublishType DEF Republish, StopEpisode, TypeOK
<1>2. CASE GradeAndStop(e)
  <2> DEFINE s == running[e].snapshot
             r == running[e].runtime
  <2>1. s \in Snapshots /\ r \in Runtimes
    BY <1>0 DEF EntriesOK
  <2>2. PICK result \in Gradings(e) :
          \/ s \in Poolable /\ StashWarm(s, r) /\ Finish(e, result)
          \/ s \notin Poolable /\ StopRuntime(r) /\ Finish(e, result)
          \/ /\ s \notin Poolable /\ StopRuntime(r)
             /\ running' = [running EXCEPT ![e] = Graded(@, result, FALSE)]
             /\ UNCHANGED <<episodes, reports>>
    BY <1>2 DEF GradeAndStop
  <2>3. result \in Results
    BY <1>0, GradingsType
  <2> HIDE DEF s, r
  <2>4. CASE StashWarm(s, r) /\ Finish(e, result)
    BY <2>1, <2>3, <2>4, StashType, FinishType DEF StopEpisode, TypeOK
  <2>5. StopRuntime(r) => /\ world' \in [Runtimes -> Worlds] /\ OrderOK'
                         /\ UNCHANGED <<warm, order, displaced>>
    BY <2>1, StoppedType DEF StopRuntime, TypeOK, OrderOK
  <2>6. CASE StopRuntime(r) /\ Finish(e, result)
    BY <2>3, <2>5, <2>6, FinishType DEF StopEpisode, TypeOK
  <2>7. CASE /\ StopRuntime(r)
             /\ running' = [running EXCEPT ![e] = Graded(@, result, FALSE)]
             /\ UNCHANGED <<episodes, reports>>
    <3>1. running' \in [EpisodeIds -> Entries] /\ EntriesOK'
      BY <2>3, <2>7, RegradeType
    <3> QED BY <2>5, <2>7, <3>1 DEF StopEpisode, TypeOK
  <2> QED BY <2>2, <2>4, <2>6, <2>7
<1> QED BY <1>1, <1>2 DEF StopEpisode

LEMMA WorkedWorldType ==
  ASSUME NEW w \in Worlds, NEW e \in EpisodeIds
  PROVE  [w EXCEPT !.work = @ \cup {e}] \in Worlds
BY DEF Worlds

LEMMA RestoredWorldType ==
  ASSUME NEW w \in Worlds, NEW k \in SUBSET EpisodeIds
  PROVE  [w EXCEPT !.work = k, !.port = @ + 1] \in Worlds
<1>1. [w EXCEPT !.work = k] \in Worlds
  BY DEF Worlds
<1>2. \A v \in Worlds : [v EXCEPT !.port = @ + 1] \in Worlds
  BY DEF Worlds
<1> QED BY <1>1, <1>2

LEMMA RestoreFromType ==
  ASSUME TypeInv, NEW c \in Checkpoints, NEW e \in EpisodeIds, NEW r \in Runtimes,
         RestoreFrom(c, e, r)
  PROVE  TypeInv'
<1> USE DEF TypeInv
<1> DEFINE s        == running[c.episode].snapshot
           started  == Acquired(s, r)
           restored == [started EXCEPT !.work = c.work, !.port = @ + 1]
<1>1. s \in Snapshots /\ c.work \subseteq EpisodeIds
  BY DEF RestoreFrom, EntriesOK, Checkpoints
<1>2. started \in Worlds
  BY <1>1, AcquiredType
<1>3. restored \in Worlds
  <2> HIDE DEF started
  <2> QED BY <1>1, <1>2, RestoredWorldType
<1>4. /\ NewEntry(s, r, started) \in Entries
      /\ RestoredEntry(s, r, restored, c) \in Entries
      /\ NewEntry(s, r, started).snapshot = s /\ NewEntry(s, r, started).runtime = r
      /\ RestoredEntry(s, r, restored, c).snapshot = s
      /\ RestoredEntry(s, r, restored, c).runtime = r
  <2> HIDE DEF s, started, restored
  <2>1. NewEntry(s, r, started) \in Entries /\ NewEntry(s, r, restored) \in Entries
    BY <1>1, <1>2, <1>3, EntryType
  <2> QED BY <1>1, <2>1 DEF RestoredEntry, Entries, NewEntry
<1>5. /\ WorldsWith(s, r, started) \in [Runtimes -> Worlds]
      /\ WorldsWith(s, r, restored) \in [Runtimes -> Worlds]
      /\ WorldsWith(s, r, Stopped) \in [Runtimes -> Worlds]
  <2> HIDE DEF s, started, restored
  <2> QED BY <1>1, <1>2, <1>3, AcquiredType, StoppedType
<1>6. TakeWarm(s) /\ UNCHANGED <<reports, checkpoints, displaced, exited>>
  BY DEF RestoreFrom, Start
<1>7. /\ warm' \in [Snapshots -> Runtimes \cup {None}] /\ order' \in Seq(Snapshots)
      /\ OrderOK'
  <2> HIDE DEF s
  <2> QED BY <1>1, <1>6, TakeWarmType, TakeWarmOrder DEF OrderOK
<1>8. /\ episodes' \subseteq EpisodeIds /\ handed' \subseteq EpisodeIds
      /\ running' \in [EpisodeIds -> Entries] /\ world' \in [Runtimes -> Worlds]
      /\ EntriesOK'
  <2> DEFINE n == NewEntry(s, r, started)
             m == RestoredEntry(s, r, restored, c)
             g == Gone(e)
  <2>1. \/ /\ episodes' = episodes \cup {e} /\ handed' = handed \cup {e}
           /\ running' = [running EXCEPT ![e] = m]
           /\ world' = WorldsWith(s, r, restored)
        \/ /\ episodes' = episodes \cup {e} /\ handed' = handed
           /\ running' = [running EXCEPT ![e] = n]
           /\ world' \in {WorldsWith(s, r, started), WorldsWith(s, r, restored)}
        \/ /\ episodes' = episodes /\ handed' = handed
           /\ running' = [running EXCEPT ![e] = g]
           /\ world' = WorldsWith(s, r, Stopped)
    BY DEF RestoreFrom
  <2>2. n \in Entries /\ m \in Entries /\ g \in Entries
    BY <1>4, GoneType
  <2>3. e \notin episodes
    BY NoneAssumption DEF RestoreFrom, Start, Fresh, Unused, EntriesOK
  <2> HIDE DEF n, m, g, s, started, restored
  <2>4. /\ episodes' \subseteq EpisodeIds /\ handed' \subseteq EpisodeIds
        /\ running' \in [EpisodeIds -> Entries] /\ world' \in [Runtimes -> Worlds]
    BY <1>5, <2>1, <2>2 DEF TypeOK
  <2>5. EntriesOK'
    BY <1>1, <1>4, <2>1, <2>3 DEF EntriesOK, TypeOK, n, m
  <2> QED BY <2>4, <2>5
<1> QED BY <1>6, <1>7, <1>8 DEF TypeOK

LEMMA StartType ==
  ASSUME TypeInv, NEW s \in Snapshots, NEW r \in Runtimes
  PROVE  /\ \A e \in EpisodeIds : StartEpisode(s, e, r) => TypeInv'
         /\ StartEpisodeFails(s, r) => TypeInv'
<1> USE DEF TypeInv
<1>1. ASSUME NEW e \in EpisodeIds, StartEpisode(s, e, r) PROVE TypeInv'
  <2> DEFINE n == NewEntry(s, r, Acquired(s, r))
  <2>1. n \in Entries /\ n.snapshot = s /\ n.runtime = r
    BY AcquiredType, EntryType DEF NewEntry
  <2>2. /\ episodes' = episodes \cup {e} /\ running' = [running EXCEPT ![e] = n]
        /\ world' = WorldsWith(s, r, Acquired(s, r)) /\ TakeWarm(s)
        /\ handed' \in {handed, handed \cup {e}}
        /\ UNCHANGED <<reports, checkpoints, displaced, exited>>
    BY <1>1 DEF StartEpisode, Start
  <2> HIDE DEF n
  <2>3. world' \in [Runtimes -> Worlds]
    BY <2>2, AcquiredType
  <2>4. warm' \in [Snapshots -> Runtimes \cup {None}] /\ order' \in Seq(Snapshots)
        /\ OrderOK'
    BY <2>2, TakeWarmType, TakeWarmOrder DEF OrderOK
  <2>5. EntriesOK'
    BY <2>1, <2>2 DEF EntriesOK, TypeOK
  <2> QED BY <2>1, <2>2, <2>3, <2>4, <2>5 DEF TypeOK
<1>2. ASSUME StartEpisodeFails(s, r) PROVE TypeInv'
  <2>1. world' \in [Runtimes -> Worlds]
    BY <1>2, AcquiredType, StoppedType DEF StartEpisodeFails
  <2>2. warm' \in [Snapshots -> Runtimes \cup {None}] /\ order' \in Seq(Snapshots)
        /\ OrderOK'
    BY <1>2, TakeWarmType, TakeWarmOrder DEF OrderOK, StartEpisodeFails
  <2> QED BY <1>2, <2>1, <2>2 DEF StartEpisodeFails, TypeOK, EntriesOK
<1> QED BY <1>1, <1>2

LEMMA CheckpointOfType ==
  ASSUME TypeInv, NEW e \in episodes
  PROVE  CheckpointOf(e) \in Checkpoints
BY DEF TypeInv, TypeOK, EntriesOK, CheckpointOf, Checkpoints, Worlds

LEMMA EmptyOrder == <<>> \in Seq(Snapshots) /\ Len(<<>>) = 0 /\ ToSet(<<>>) = {}
                    /\ IsInjective(<<>>)
BY DEF ToSet, IsInjective

LEMMA NoServiceType ==
  /\ NoRunning \in [EpisodeIds -> Entries] /\ NoReports \in [EpisodeIds -> Results]
  /\ NoWarm \in [Snapshots -> Runtimes \cup {None}]
BY DEF NoRunning, NoReports, NoWarm, Unused, NoResult, Entries, Results

LEMMA NoWarmOrder == ASSUME warm' = NoWarm, order' = <<>> PROVE OrderOK'
<1>1. {s \in Snapshots : NoWarm[s] # None} = {}
  BY DEF NoWarm
<1> QED BY <1>1, EmptyOrder DEF OrderOK

LEMMA ReleaseType ==
  ASSUME TypeInv, Close \/ AtExit
  PROVE  TypeInv'
<1> USE DEF TypeInv
<1>1. warm' = NoWarm /\ order' = <<>> /\ world' = WorldsReleased
  BY DEF Close, AtExit
<1>2. world' \in [Runtimes -> Worlds]
  BY <1>1, StoppedType DEF WorldsReleased, TypeOK
<1>3. CASE Close
  <2>1. running' \in [EpisodeIds -> Entries]
    BY <1>3, GoneType DEF Close, TypeOK
  <2> QED BY <1>1, <1>2, <1>3, <2>1, NoServiceType, NoWarmOrder, EmptyOrder
          DEF Close, TypeOK, EntriesOK
<1>4. CASE AtExit
  BY <1>1, <1>2, <1>4, NoServiceType, NoWarmOrder, EmptyOrder DEF AtExit, TypeOK, EntriesOK
<1> QED BY <1>3, <1>4

(* Every variable keeps its type, entries are for real snapshots and       *)
(* runtimes, and the LRU order lists the occupied slots within capacity.   *)
LEMMA TypeInvariance == Spec => []TypeInv
<1>1. Init => TypeInv
  <2> SUFFICES ASSUME Init PROVE TypeInv
    OBVIOUS
  <2>1. {s \in Snapshots : warm[s] # None} = {}
    BY DEF Init, NoWarm
  <2>2. OrderOK
    BY <2>1, EmptyOrder DEF Init, OrderOK
  <2> QED BY <2>2, NoServiceType, EmptyOrder, StoppedType
          DEF Init, TypeInv, TypeOK, EntriesOK
<1>2. TypeInv /\ [Next]_vars => TypeInv'
  <2> SUFFICES ASSUME TypeInv, [Next]_vars PROVE TypeInv'
    OBVIOUS
  <2>1. ASSUME NEW s \in Snapshots, NEW e \in EpisodeIds, NEW r \in Runtimes,
               StartEpisode(s, e, r)
        PROVE  TypeInv'
    BY <2>1, StartType
  <2>2. ASSUME NEW s \in Snapshots, NEW r \in Runtimes, StartEpisodeFails(s, r)
        PROVE  TypeInv'
    BY <2>2, StartType
  <2>3. ASSUME NEW e \in EpisodeIds, StopEpisode(e) \/ CheckEpisode(e)
        PROVE  TypeInv'
    BY <2>3, StopEpisodeType DEF CheckEpisode
  <2>4. ASSUME NEW e \in EpisodeIds, SolverActs(e) PROVE TypeInv'
    <3>1. e \in episodes /\ running[e].runtime \in Runtimes
      BY <2>4 DEF SolverActs, Drives, TypeInv, EntriesOK
    <3>2. world' \in [Runtimes -> Worlds]
      <4> DEFINE r == running[e].runtime
                 w == Worked(r, e)
      <4>1. w \in Worlds
        BY <3>1, WorkedWorldType DEF TypeInv, TypeOK, Worked
      <4>2. world' = [world EXCEPT ![r] = w]
        BY <2>4 DEF SolverActs
      <4> HIDE DEF w
      <4> QED BY <3>1, <4>1, <4>2 DEF TypeInv, TypeOK
    <3> QED BY <2>4, <3>2 DEF SolverActs, service, TypeInv, TypeOK, EntriesOK, OrderOK
  <2>5. ASSUME NEW e \in EpisodeIds, Checkpoint(e) PROVE TypeInv'
    BY <2>5, CheckpointOfType DEF Checkpoint, TypeInv, TypeOK, EntriesOK, OrderOK
  <2>6. ASSUME NEW c \in checkpoints, NEW e \in EpisodeIds, NEW r \in Runtimes,
               Restore(c, e, r)
        PROVE  TypeInv'
    BY <2>6, RestoreFromType DEF Restore, TypeInv, TypeOK
  <2>7. ASSUME NEW e0 \in EpisodeIds, NEW e \in EpisodeIds, NEW r \in Runtimes,
               Fork(e0, e, r)
        PROVE  TypeInv'
    BY <2>7, RestoreFromType, CheckpointOfType DEF Fork
  <2>8. CASE Close \/ AtExit
    BY <2>8, ReleaseType
  <2>9. CASE UNCHANGED vars
    BY <2>9 DEF vars, service, TypeInv, TypeOK, EntriesOK, OrderOK
  <2> QED BY <2>1, <2>2, <2>3, <2>4, <2>5, <2>6, <2>7, <2>8, <2>9 DEF Next
<1> QED BY <1>1, <1>2, PTL DEF Spec

(* Type correctness of the service.                                        *)
THEOREM TypeCorrect == Spec => []TypeOK
<1>1. TypeInv => TypeOK
  BY DEF TypeInv
<1> QED BY <1>1, TypeInvariance, PTL


-----------------------------------------------------------------------------
(***************************************************************************)
(* Who owns a runtime: one live episode, or the warm slot it is kept in,   *)
(* and nothing else.                                                       *)
(***************************************************************************)
(* The world under a live episode was booted, and under one whose snapshot *)
(* is poolable it still is, for that snapshot: what stop_episode relies on *)
(* when it puts the runtime into the pool without looking at it.           *)
DrivenOK ==
  \A e \in EpisodeIds : Drives(e) =>
    /\ world[running[e].runtime].state # "unborn"
    /\ running[e].snapshot \in Poolable =>
         /\ IsBooted(running[e].runtime)
         /\ world[running[e].runtime].home = running[e].snapshot

(* The third of WarmPoolSound that is about the worlds.                    *)
WarmOK ==
  \A s \in Snapshots : warm[s] # None =>
    s \in Poolable /\ IsBooted(warm[s]) /\ world[warm[s]].home = s

OwnInv == ExclusiveRuntime /\ DrivenOK /\ WarmOK /\ BootedIsKept

Inv == TypeInv /\ OwnInv

(* Every other episode drives what it drove.                               *)
OthersSame(e) ==
  \A x \in EpisodeIds \ {e} :
    /\ Drives(x)' <=> Drives(x)
    /\ Drives(x) => /\ running'[x].runtime = running[x].runtime
                    /\ running'[x].snapshot = running[x].snapshot

-----------------------------------------------------------------------------
(* A runtime that may be acquired is owned by no live episode, and by no   *)
(* slot but the one of the snapshot.                                       *)
LEMMA AcquirableFree ==
  ASSUME Inv, NEW s \in Snapshots, NEW r \in Runtimes, Acquirable(s, r)
  PROVE  /\ \A e \in EpisodeIds : Drives(e) =>
              running[e].runtime # r /\ running[e].runtime # warm[s]
         /\ \A k \in Snapshots : k # s => warm[k] # r /\ (warm[k] = warm[s] => warm[k] = None)
<1>1. Unborn.state = "unborn" /\ r # None
  BY DEF Unborn
<1>2. \A e \in EpisodeIds : Drives(e) => running[e].runtime # None
  BY DEF Inv, TypeInv, EntriesOK, Drives
<1> QED BY <1>1, <1>2 DEF Inv, OwnInv, Acquirable, ExclusiveRuntime, DrivenOK, WarmOK, IsBooted

(* Episode e starts to drive r, which it acquired.                         *)
LEMMA AcquireOwn ==
  ASSUME Inv, NEW s \in Snapshots, NEW r \in Runtimes, NEW e \in EpisodeIds,
         NEW w \in Worlds, w.state = "booted", w.home = s,
         ~Drives(e), Acquirable(s, r), TakeWarm(s), OthersSame(e),
         Drives(e)', running'[e].runtime = r, running'[e].snapshot = s,
         world' = WorldsWith(s, r, w), displaced' = displaced
  PROVE  OwnInv'
<1> DEFINE rt(x) == running[x].runtime
<1>1. /\ \A x \in EpisodeIds : Drives(x) => rt(x) # r /\ rt(x) # warm[s]
      /\ \A k \in Snapshots : k # s => warm[k] # r /\ (warm[k] = warm[s] => warm[k] = None)
  BY AcquirableFree
<1>2. \A x \in EpisodeIds : Drives(x) => rt(x) \in Runtimes
  BY DEF Inv, TypeInv, EntriesOK, Drives
<1>3. /\ world'[r] = w
      /\ \A x \in Runtimes : x # r /\ x # warm[s] => world'[x] = world[x]
      /\ \A x \in Runtimes : x # r /\ x = warm[s] => world'[x] = Stopped
  BY DEF WorldsWith
<1>4. warm'[s] = None /\ \A k \in Snapshots : k # s => warm'[k] = warm[k]
  BY DEF TakeWarm, Inv, TypeInv, TypeOK
<1>5. \A k \in Snapshots : warm[k] \in Runtimes \cup {None}
  BY DEF Inv, TypeInv, TypeOK
<1>6. ExclusiveRuntime'
  BY <1>1, <1>2, <1>4 DEF ExclusiveRuntime, OthersSame, Inv, OwnInv
<1>7. DrivenOK'
  BY <1>1, <1>2, <1>3 DEF DrivenOK, OthersSame, IsBooted, Inv, OwnInv
<1>8. WarmOK'
  BY <1>1, <1>3, <1>4, <1>5 DEF WarmOK, IsBooted, Inv, OwnInv
<1>9. BootedIsKept'
  <2> SUFFICES ASSUME NEW x \in Runtimes, IsBooted(x)' PROVE Kept(x)'
    BY DEF BootedIsKept
  <2>1. CASE x = r
    BY <2>1 DEF Kept, Reachable
  <2>2. CASE x # r
    <3>1. x # warm[s] /\ IsBooted(x)
      BY <1>3, <2>2 DEF IsBooted, Stopped
    <3>2. Kept(x)
      BY <3>1 DEF BootedIsKept, Inv, OwnInv
    <3> QED BY <1>4, <3>1, <3>2 DEF Kept, Reachable, OthersSame
  <2> QED BY <2>1, <2>2
<1> QED BY <1>6, <1>7, <1>8, <1>9 DEF OwnInv

(* r was acquired and stopped again; nobody drives it.                     *)
LEMMA AcquireFailsOwn ==
  ASSUME Inv, NEW s \in Snapshots, NEW r \in Runtimes,
         Acquirable(s, r), TakeWarm(s),
         \A x \in EpisodeIds :
           /\ Drives(x)' <=> Drives(x)
           /\ Drives(x) => /\ running'[x].runtime = running[x].runtime
                           /\ running'[x].snapshot = running[x].snapshot,
         world' = WorldsWith(s, r, Stopped), displaced' = displaced
  PROVE  OwnInv'
<1> DEFINE rt(x) == running[x].runtime
<1>1. /\ \A x \in EpisodeIds : Drives(x) => rt(x) # r /\ rt(x) # warm[s]
      /\ \A k \in Snapshots : k # s => warm[k] # r /\ (warm[k] = warm[s] => warm[k] = None)
  BY AcquirableFree
<1>2. \A x \in EpisodeIds : Drives(x) => rt(x) \in Runtimes
  BY DEF Inv, TypeInv, EntriesOK, Drives
<1>3. /\ world'[r] = Stopped
      /\ \A x \in Runtimes : x # r /\ x # warm[s] => world'[x] = world[x]
      /\ \A x \in Runtimes : x # r /\ x = warm[s] => world'[x] = Stopped
  BY DEF WorldsWith
<1>4. warm'[s] = None /\ \A k \in Snapshots : k # s => warm'[k] = warm[k]
  BY DEF TakeWarm, Inv, TypeInv, TypeOK
<1>5. \A k \in Snapshots : warm[k] \in Runtimes \cup {None}
  BY DEF Inv, TypeInv, TypeOK
<1>6. ExclusiveRuntime'
  BY <1>1, <1>2, <1>4 DEF ExclusiveRuntime, Inv, OwnInv
<1>7. DrivenOK'
  BY <1>1, <1>2, <1>3 DEF DrivenOK, IsBooted, Inv, OwnInv
<1>8. WarmOK'
  BY <1>1, <1>3, <1>4, <1>5 DEF WarmOK, IsBooted, Inv, OwnInv
<1>9. BootedIsKept'
  <2> SUFFICES ASSUME NEW x \in Runtimes, IsBooted(x)' PROVE Kept(x)'
    BY DEF BootedIsKept
  <2>0. Stopped.state # "booted"
    BY DEF Stopped
  <2>1. x # r /\ x # warm[s] /\ IsBooted(x)
    BY <1>3, <2>0 DEF IsBooted
  <2>2. Kept(x)
    BY <2>1 DEF BootedIsKept, Inv, OwnInv
  <2> QED BY <1>4, <2>1, <2>2 DEF Kept, Reachable
<1> QED BY <1>6, <1>7, <1>8, <1>9 DEF OwnInv

-----------------------------------------------------------------------------
(* e stopped driving and its runtime went to the pool.                     *)
LEMMA StashOwn ==
  ASSUME Inv, NEW e \in EpisodeIds, NEW s, NEW r,
         s = running[e].snapshot, r = running[e].runtime, s \in Poolable,
         Drives(e), ~Drives(e)', OthersSame(e), StashWarm(s, r)
  PROVE  OwnInv'
<1> DEFINE evicted == {Requeued(s)[i] : i \in 1 .. Excess(s)}
           stashed == [warm EXCEPT ![s] = r]
<1>1. /\ warm' = [k \in Snapshots |-> IF k \in evicted THEN None ELSE stashed[k]]
      /\ world' = [x \in Runtimes |->
                     IF \E k \in evicted : stashed[k] = x THEN Stopped ELSE world[x]]
      /\ displaced' = displaced \cup ({warm[s]} \ {None, r})
  BY DEF StashWarm
<1>2. s \in Snapshots /\ r \in Runtimes /\ IsBooted(r) /\ world[r].home = s
  BY DEF Inv, TypeInv, EntriesOK, OwnInv, DrivenOK, Drives
<1>3. evicted \subseteq Snapshots
  <2> DEFINE q == Requeued(s)
  <2>1. q \in Seq(Snapshots) /\ Len(q) \in Nat
    BY <1>2, RequeuedProperties DEF Inv, TypeInv, TypeOK, OrderOK
  <2>2. Excess(s) \in Int /\ Excess(s) <= Len(q)
    BY <2>1, CapacityAssumption DEF Excess
  <2> HIDE DEF q
  <2>3. \A i \in 1 .. Excess(s) : q[i] \in Snapshots
    BY <2>1, <2>2
  <2> QED BY <2>3 DEF q
<1>4. /\ stashed[s] = r
      /\ \A k \in Snapshots : k # s => stashed[k] = warm[k] /\ warm[k] # r
      /\ \A k \in Snapshots : stashed[k] \in Runtimes \cup {None}
  BY <1>2 DEF Inv, TypeInv, TypeOK, OwnInv, ExclusiveRuntime
<1> HIDE DEF evicted, stashed
<1>5. /\ \A k \in Snapshots : warm'[k] # None => warm'[k] = stashed[k] /\ k \notin evicted
      /\ \A k \in Snapshots : k \notin evicted => warm'[k] = stashed[k]
  BY <1>1
<1>6. \A k1, k2 \in Snapshots : stashed[k1] # None /\ stashed[k1] = stashed[k2] => k1 = k2
  BY <1>2, <1>4 DEF Inv, OwnInv, ExclusiveRuntime
<1>7. \A x \in EpisodeIds, k \in Snapshots :
        Drives(x)' => Drives(x) /\ x # e /\ stashed[k] # running[x].runtime
                      /\ running'[x].runtime = running[x].runtime
                      /\ running'[x].snapshot = running[x].snapshot
  BY <1>2, <1>4 DEF Inv, OwnInv, ExclusiveRuntime, OthersSame
<1>8. \A x \in EpisodeIds : Drives(x) => running[x].runtime \in Runtimes
  BY DEF Inv, TypeInv, EntriesOK, Drives
<1>9. ExclusiveRuntime'
  <2>1. \A x, y \in EpisodeIds :
          Drives(x)' /\ Drives(y)' /\ running'[x].runtime = running'[y].runtime => x = y
    BY <1>2, <1>7 DEF Inv, OwnInv, ExclusiveRuntime
  <2>2. \A x \in EpisodeIds, k \in Snapshots : Drives(x)' => warm'[k] # running'[x].runtime
    BY <1>5, <1>7, <1>8
  <2>3. \A k1, k2 \in Snapshots : warm'[k1] # None /\ warm'[k1] = warm'[k2] => k1 = k2
    BY <1>5, <1>6
  <2> QED BY <2>1, <2>2, <2>3 DEF ExclusiveRuntime
<1>10. DrivenOK'
  <2>1. \A x \in EpisodeIds : Drives(x)' => world'[running'[x].runtime] = world[running[x].runtime]
    BY <1>1, <1>2, <1>3, <1>7, <1>8
  <2> QED BY <1>2, <1>7, <2>1 DEF DrivenOK, IsBooted, Inv, OwnInv
<1>11. WarmOK'
  <2> SUFFICES ASSUME NEW k \in Snapshots, warm'[k] # None
               PROVE  /\ k \in Poolable /\ world'[warm'[k]].state = "booted"
                      /\ world'[warm'[k]].home = k
    BY DEF WarmOK, IsBooted
  <2>1. warm'[k] = stashed[k] /\ k \notin evicted /\ stashed[k] \in Runtimes
    BY <1>4, <1>5
  <2>2. ~ \E j \in evicted : stashed[j] = stashed[k]
    BY <1>3, <1>6, <2>1
  <2>3. world'[stashed[k]] = world[stashed[k]]
    BY <1>1, <2>1, <2>2
  <2>4. k \in Poolable /\ IsBooted(stashed[k]) /\ world[stashed[k]].home = k
    BY <1>2, <1>4, <2>1 DEF WarmOK, Inv, OwnInv
  <2> QED BY <2>1, <2>3, <2>4 DEF IsBooted
<1>12. BootedIsKept'
  <2> SUFFICES ASSUME NEW x \in Runtimes, IsBooted(x)' PROVE Kept(x)'
    BY DEF BootedIsKept
  <2>0. Stopped.state # "booted"
    BY DEF Stopped
  <2>1. IsBooted(x) /\ ~ \E k \in evicted : stashed[k] = x
    BY <1>1, <2>0 DEF IsBooted
  <2>2. Kept(x)
    BY <2>1 DEF BootedIsKept, Inv, OwnInv
  <2>3. ASSUME NEW k \in Snapshots, stashed[k] = x PROVE Kept(x)'
    BY <1>5, <2>1, <2>3 DEF Kept, Reachable
  <2>4. ASSUME NEW y \in EpisodeIds, y # e, Drives(y), running[y].runtime = x PROVE Kept(x)'
    BY <2>4 DEF Kept, Reachable, OthersSame
  <2>5. x = warm[s] /\ x # r => Kept(x)'
    BY <1>1 DEF Kept
  <2>6. x \in displaced => Kept(x)'
    BY <1>1 DEF Kept
  <2>7. \A k \in Snapshots : warm[k] = x => Kept(x)'
    BY <1>2, <1>4, <2>3, <2>5
  <2>8. x = r => Kept(x)'
    BY <1>2, <1>4, <2>3
  <2> QED BY <2>2, <2>4, <2>6, <2>7, <2>8 DEF Kept, Reachable
<1> QED BY <1>9, <1>10, <1>11, <1>12 DEF OwnInv

(* e's runtime was stopped, and e may still drive it.                      *)
LEMMA StopOwn ==
  ASSUME Inv, NEW e \in EpisodeIds, Drives(e), running[e].snapshot \notin Poolable,
         OthersSame(e), StopRuntime(running[e].runtime),
         Drives(e)' => /\ running'[e].runtime = running[e].runtime
                       /\ running'[e].snapshot = running[e].snapshot
  PROVE  OwnInv'
<1> DEFINE r == running[e].runtime
<1>1. /\ r \in Runtimes /\ world' = [world EXCEPT ![r] = Stopped]
      /\ warm' = warm /\ displaced' = displaced
  BY DEF StopRuntime, Inv, TypeInv, EntriesOK, Drives
<1>2. \A x \in EpisodeIds :
        Drives(x)' => Drives(x) /\ running'[x].runtime = running[x].runtime
                      /\ running'[x].snapshot = running[x].snapshot
  BY DEF OthersSame
<1>3. /\ world'[r] = Stopped
      /\ \A x \in Runtimes : x # r => world'[x] = world[x]
  BY <1>1 DEF Inv, TypeInv, TypeOK
<1>4. \A x \in EpisodeIds : Drives(x) => running[x].runtime \in Runtimes
  BY DEF Inv, TypeInv, EntriesOK, Drives
<1>5. Stopped.state = "stopped"
  BY DEF Stopped
<1>6. ExclusiveRuntime'
  BY <1>1, <1>2 DEF ExclusiveRuntime, Inv, OwnInv
<1>7. DrivenOK'
  <2>1. \A x \in EpisodeIds : Drives(x) /\ running[x].runtime = r => x = e
    BY DEF Inv, OwnInv, ExclusiveRuntime
  <2> QED BY <1>2, <1>3, <1>4, <1>5, <2>1 DEF DrivenOK, IsBooted, Inv, OwnInv
<1>8. WarmOK'
  <2>1. \A k \in Snapshots : warm[k] # r /\ warm[k] \in Runtimes \cup {None}
    BY DEF Inv, OwnInv, ExclusiveRuntime, TypeInv, TypeOK
  <2> QED BY <1>1, <1>3, <2>1 DEF WarmOK, IsBooted, Inv, OwnInv
<1>9. BootedIsKept'
  <2> SUFFICES ASSUME NEW x \in Runtimes, IsBooted(x)' PROVE Kept(x)'
    BY DEF BootedIsKept
  <2>1. x # r /\ IsBooted(x)
    BY <1>3, <1>5 DEF IsBooted
  <2>2. Kept(x)
    BY <2>1 DEF BootedIsKept, Inv, OwnInv
  <2> QED BY <1>1, <2>1, <2>2 DEF Kept, Reachable, OthersSame
<1> QED BY <1>6, <1>7, <1>8, <1>9 DEF OwnInv

(* Everything reachable was stopped, the table and the pool are empty.     *)
LEMMA ReleaseOwn ==
  ASSUME Inv, Close \/ AtExit
  PROVE  OwnInv'
<1>1. /\ warm' = NoWarm /\ world' = WorldsReleased /\ episodes' = {}
      /\ displaced' = displaced
  BY DEF Close, AtExit
<1>2. \A x \in EpisodeIds : ~Drives(x)'
  BY <1>1 DEF Drives
<1>3. \A k \in Snapshots : warm'[k] = None
  BY <1>1 DEF NoWarm
<1>4. ExclusiveRuntime' /\ DrivenOK' /\ WarmOK'
  BY <1>2, <1>3 DEF ExclusiveRuntime, DrivenOK, WarmOK
<1>5. BootedIsKept'
  <2> SUFFICES ASSUME NEW x \in Runtimes, IsBooted(x)' PROVE Kept(x)'
    BY DEF BootedIsKept
  <2>0. Stopped.state # "booted"
    BY DEF Stopped
  <2>1. ~Reachable(x) /\ IsBooted(x)
    BY <1>1, <2>0 DEF WorldsReleased, IsBooted
  <2>2. x \in displaced
    BY <2>1 DEF BootedIsKept, Kept, Inv, OwnInv
  <2> QED BY <1>1, <2>2 DEF Kept
<1> QED BY <1>4, <1>5 DEF OwnInv
-----------------------------------------------------------------------------
LEMMA FreshIdle == ASSUME Inv, NEW e \in EpisodeIds, Fresh(e) PROVE e \notin episodes
BY DEF Fresh, Unused, Inv, TypeInv, EntriesOK

LEMMA GoneStopped == ASSUME NEW e \in EpisodeIds PROVE Gone(e).stopped = TRUE
BY DEF Gone, Unused

LEMMA AcquiredWorld ==
  ASSUME Inv, NEW s \in Snapshots, NEW r \in Runtimes, Acquirable(s, r)
  PROVE  /\ Acquired(s, r) \in Worlds /\ Acquired(s, r).state = "booted"
         /\ Acquired(s, r).home = s
<1>1. Acquired(s, r) \in Worlds
  BY AcquiredType DEF Inv, TypeInv
<1>2. CASE warm[s] = r
  <2>1. world[r] \in Worlds /\ world[r].state = "booted" /\ world[r].home = s
    BY <1>2 DEF Inv, TypeInv, TypeOK, OwnInv, WarmOK, IsBooted
  <2>2. \A w \in Worlds : [w EXCEPT !.work = {}].state = w.state
                          /\ [w EXCEPT !.work = {}].home = w.home
    BY DEF Worlds
  <2> QED BY <1>1, <1>2, <2>1, <2>2 DEF Acquired, Clean
<1>3. CASE warm[s] # r
  BY <1>1, <1>3 DEF Acquired, Booted
<1> QED BY <1>2, <1>3

LEMMA StartEpisodeOwn ==
  ASSUME Inv, NEW s \in Snapshots, NEW e \in EpisodeIds, NEW r \in Runtimes,
         StartEpisode(s, e, r)
  PROVE  OwnInv'
<1> DEFINE n == NewEntry(s, r, Acquired(s, r))
<1>1. Fresh(e) /\ Acquirable(s, r) /\ TakeWarm(s) /\ displaced' = displaced
  BY DEF StartEpisode, Start
<1>2. /\ episodes' = episodes \cup {e} /\ running' = [running EXCEPT ![e] = n]
      /\ world' = WorldsWith(s, r, Acquired(s, r))
  BY DEF StartEpisode
<1>3. n.runtime = r /\ n.snapshot = s /\ n.stopped = FALSE
  BY DEF NewEntry
<1> HIDE DEF n
<1>4. ~Drives(e) /\ Drives(e)' /\ OthersSame(e)
  BY <1>1, <1>2, <1>3, FreshIdle DEF Drives, OthersSame, Inv, TypeInv, TypeOK
<1>5. running'[e].runtime = r /\ running'[e].snapshot = s
  BY <1>2, <1>3 DEF Inv, TypeInv, TypeOK
<1> QED BY <1>1, <1>2, <1>4, <1>5, AcquiredWorld, AcquireOwn

LEMMA StartEpisodeFailsOwn ==
  ASSUME Inv, NEW s \in Snapshots, NEW r \in Runtimes, StartEpisodeFails(s, r)
  PROVE  OwnInv'
<1>1. /\ Acquirable(s, r) /\ TakeWarm(s) /\ world' = WorldsWith(s, r, Stopped)
      /\ UNCHANGED <<episodes, running, displaced>>
  BY DEF StartEpisodeFails
<1>2. \A x \in EpisodeIds :
        /\ Drives(x)' <=> Drives(x)
        /\ Drives(x) => /\ running'[x].runtime = running[x].runtime
                        /\ running'[x].snapshot = running[x].snapshot
  BY <1>1 DEF Drives
<1> QED BY <1>1, <1>2, AcquireFailsOwn

LEMMA RestoreFromOwn ==
  ASSUME Inv, NEW c \in Checkpoints, NEW e \in EpisodeIds, NEW r \in Runtimes,
         RestoreFrom(c, e, r)
  PROVE  OwnInv'
<1> DEFINE s        == running[c.episode].snapshot
           started  == Acquired(s, r)
           restored == [started EXCEPT !.work = c.work, !.port = @ + 1]
           n == NewEntry(s, r, started)
           m == RestoredEntry(s, r, restored, c)
           g == Gone(e)
<1>1. /\ s \in Snapshots /\ c.work \subseteq EpisodeIds
      /\ Fresh(e) /\ Acquirable(s, r) /\ TakeWarm(s) /\ displaced' = displaced
  BY DEF RestoreFrom, Start, Inv, TypeInv, EntriesOK, Checkpoints
<1>2. \/ /\ episodes' = episodes \cup {e}
         /\ \/ running' = [running EXCEPT ![e] = m]
            \/ running' = [running EXCEPT ![e] = n]
         /\ world' \in {WorldsWith(s, r, started), WorldsWith(s, r, restored)}
      \/ /\ episodes' = episodes /\ running' = [running EXCEPT ![e] = g]
         /\ world' = WorldsWith(s, r, Stopped)
  BY DEF RestoreFrom
<1> HIDE DEF s
<1>3. started \in Worlds /\ started.state = "booted" /\ started.home = s
  BY <1>1, AcquiredWorld
<1> HIDE DEF started
<1>4. restored \in Worlds /\ restored.state = "booted" /\ restored.home = s
  <2>1. restored \in Worlds
    BY <1>1, <1>3, RestoredWorldType
  <2>2. \A w \in Worlds, k \in SUBSET EpisodeIds :
          /\ [w EXCEPT !.work = k, !.port = @ + 1].state = w.state
          /\ [w EXCEPT !.work = k, !.port = @ + 1].home = w.home
    BY DEF Worlds
  <2> QED BY <1>1, <1>3, <2>1, <2>2
<1> HIDE DEF restored
<1>5. /\ n.runtime = r /\ n.snapshot = s /\ n.stopped = FALSE
      /\ m.runtime = r /\ m.snapshot = s /\ m.stopped = FALSE
      /\ g.stopped = TRUE
  BY GoneStopped DEF NewEntry, RestoredEntry
<1> HIDE DEF n, m, g
<1>6. e \notin episodes /\ ~Drives(e)
  BY <1>1, FreshIdle DEF Drives
<1>7. CASE /\ episodes' = episodes \cup {e}
           /\ \/ running' = [running EXCEPT ![e] = m]
              \/ running' = [running EXCEPT ![e] = n]
           /\ world' \in {WorldsWith(s, r, started), WorldsWith(s, r, restored)}
  <2>1. Drives(e)' /\ OthersSame(e)
    BY <1>5, <1>6, <1>7 DEF Drives, OthersSame, Inv, TypeInv, TypeOK
  <2>2. running'[e].runtime = r /\ running'[e].snapshot = s
    BY <1>5, <1>7 DEF Inv, TypeInv, TypeOK
  <2> QED BY <1>1, <1>3, <1>4, <1>6, <1>7, <2>1, <2>2, AcquireOwn
<1>8. CASE /\ episodes' = episodes /\ running' = [running EXCEPT ![e] = g]
           /\ world' = WorldsWith(s, r, Stopped)
  <2>1. \A x \in EpisodeIds :
          /\ Drives(x)' <=> Drives(x)
          /\ Drives(x) => /\ running'[x].runtime = running[x].runtime
                          /\ running'[x].snapshot = running[x].snapshot
    BY <1>5, <1>6, <1>8 DEF Drives, Inv, TypeInv, TypeOK
  <2> QED BY <1>1, <1>8, <2>1, AcquireFailsOwn
<1> QED BY <1>2, <1>7, <1>8

(* Whatever way it ends, the end of a stop leaves the entry not driving,   *)
(* and touches no other.                                                   *)
LEMMA FinishEnds ==
  ASSUME Inv, NEW e \in episodes, NEW result \in Results, Finish(e, result)
  PROVE  ~Drives(e)' /\ OthersSame(e)
<1>1. CASE Publish(e, result)
  BY <1>1 DEF Publish, Drives, OthersSame, Inv, TypeInv, TypeOK
<1>2. CASE /\ running' = [running EXCEPT ![e] = Graded(@, result, TRUE)]
           /\ UNCHANGED <<reports, episodes>>
  <2> DEFINE g == Graded(running[e], result, TRUE)
  <2>1. g.stopped = TRUE
    BY GradedType DEF Inv, TypeInv, TypeOK
  <2>2. running' = [running EXCEPT ![e] = g] /\ episodes' = episodes
    BY <1>2
  <2> HIDE DEF g
  <2> QED BY <2>1, <2>2 DEF Drives, OthersSame, Inv, TypeInv, TypeOK
<1> QED BY <1>1, <1>2 DEF Finish

LEMMA StopEpisodeOwn ==
  ASSUME Inv, NEW e \in EpisodeIds, StopEpisode(e)
  PROVE  OwnInv'
<1>1. CASE Republish(e)
  <2>1. ~Drives(e) /\ Publish(e, running[e].result) /\ UNCHANGED <<warm, world, displaced>>
    BY <1>1 DEF Republish, Drives
  <2>2. ~Drives(e)' /\ OthersSame(e)
    BY <2>1 DEF Publish, Drives, OthersSame, Inv, TypeInv, TypeOK
  <2>3. \A x \in EpisodeIds :
          /\ Drives(x)' <=> Drives(x)
          /\ Drives(x) => /\ running'[x].runtime = running[x].runtime
                          /\ running'[x].snapshot = running[x].snapshot
    BY <2>1, <2>2 DEF OthersSame
  <2> QED BY <2>1, <2>3 DEF Inv, OwnInv, ExclusiveRuntime, DrivenOK, WarmOK, BootedIsKept,
             Kept, Reachable, IsBooted
<1>2. CASE Drives(e) /\ GradeAndStop(e)
  <2> DEFINE s == running[e].snapshot
             r == running[e].runtime
  <2>1. e \in episodes
    BY <1>2 DEF Drives
  <2>2. PICK result \in Gradings(e) :
          \/ s \in Poolable /\ StashWarm(s, r) /\ Finish(e, result)
          \/ s \notin Poolable /\ StopRuntime(r) /\ Finish(e, result)
          \/ /\ s \notin Poolable /\ StopRuntime(r)
             /\ running' = [running EXCEPT ![e] = Graded(@, result, FALSE)]
             /\ UNCHANGED <<episodes, reports>>
    BY <1>2 DEF GradeAndStop
  <2>3. result \in Results
    BY <2>1, GradingsType DEF Inv, TypeInv
  <2>4. CASE s \in Poolable /\ StashWarm(s, r) /\ Finish(e, result)
    BY <1>2, <2>1, <2>3, <2>4, FinishEnds, StashOwn
  <2>5. CASE s \notin Poolable /\ StopRuntime(r) /\ Finish(e, result)
    BY <1>2, <2>1, <2>3, <2>5, FinishEnds, StopOwn
  <2>6. CASE /\ s \notin Poolable /\ StopRuntime(r)
             /\ running' = [running EXCEPT ![e] = Graded(@, result, FALSE)]
             /\ UNCHANGED <<episodes, reports>>
    <3> DEFINE g == Graded(running[e], result, FALSE)
    <3>1. g.runtime = r /\ g.snapshot = s
      BY <2>3, GradedType DEF Inv, TypeInv, TypeOK
    <3>2. running' = [running EXCEPT ![e] = g] /\ episodes' = episodes
      BY <2>6
    <3> HIDE DEF g
    <3>3. OthersSame(e) /\ running'[e].runtime = r /\ running'[e].snapshot = s
      BY <3>1, <3>2 DEF Drives, OthersSame, Inv, TypeInv, TypeOK
    <3> QED BY <1>2, <2>6, <3>3, StopOwn
  <2> QED BY <2>2, <2>4, <2>5, <2>6
<1> QED BY <1>1, <1>2 DEF StopEpisode

LEMMA SolverActsOwn ==
  ASSUME Inv, NEW e \in EpisodeIds, SolverActs(e)
  PROVE  OwnInv'
<1> DEFINE r == running[e].runtime
<1>1. UNCHANGED <<episodes, running, warm, displaced>>
  BY DEF SolverActs, service
<1>2. \A x \in Runtimes : world'[x].state = world[x].state /\ world'[x].home = world[x].home
  <2> DEFINE w == Worked(r, e)
  <2>1. r \in Runtimes /\ world[r] \in Worlds
    BY DEF SolverActs, Drives, Inv, TypeInv, TypeOK, EntriesOK
  <2>2. w.state = world[r].state /\ w.home = world[r].home
    BY <2>1 DEF Worked, Worlds
  <2>3. world' = [world EXCEPT ![r] = w]
    BY DEF SolverActs
  <2> HIDE DEF w, r
  <2> QED BY <2>1, <2>2, <2>3 DEF Inv, TypeInv, TypeOK
<1>3. \A x \in EpisodeIds : Drives(x)' <=> Drives(x)
  BY <1>1 DEF Drives
<1>4. \A x \in EpisodeIds : Drives(x) => running[x].runtime \in Runtimes
  BY DEF Inv, TypeInv, EntriesOK, Drives
<1>5. \A s \in Snapshots : warm[s] \in Runtimes \cup {None}
  BY DEF Inv, TypeInv, TypeOK
<1>6. ExclusiveRuntime'
  BY <1>1, <1>3 DEF Inv, OwnInv, ExclusiveRuntime
<1>7. DrivenOK'
  BY <1>1, <1>2, <1>3, <1>4 DEF Inv, OwnInv, DrivenOK, IsBooted
<1>8. WarmOK'
  BY <1>1, <1>2, <1>5 DEF Inv, OwnInv, WarmOK, IsBooted
<1>9. BootedIsKept'
  BY <1>1, <1>2, <1>3 DEF Inv, OwnInv, BootedIsKept, Kept, Reachable, IsBooted
<1> QED BY <1>6, <1>7, <1>8, <1>9 DEF OwnInv

LEMMA SameOwn ==
  ASSUME Inv, UNCHANGED <<episodes, running, warm, world, displaced>>
  PROVE  OwnInv'
<1>1. \A x \in EpisodeIds : Drives(x)' <=> Drives(x)
  BY DEF Drives
<1> QED BY <1>1 DEF Inv, OwnInv, ExclusiveRuntime, DrivenOK, WarmOK, BootedIsKept, Kept,
           Reachable, IsBooted

(* The inductive invariant.                                                *)
LEMMA Invariance == Spec => []Inv
<1>1. Init => OwnInv
  <2> SUFFICES ASSUME Init PROVE OwnInv
    OBVIOUS
  <2>1. \A e \in EpisodeIds : ~Drives(e)
    BY DEF Init, Drives
  <2>2. \A s \in Snapshots : warm[s] = None
    BY DEF Init, NoWarm
  <2>3. \A r \in Runtimes : ~IsBooted(r)
    BY DEF Init, Unborn, IsBooted
  <2> QED BY <2>1, <2>2, <2>3
          DEF OwnInv, ExclusiveRuntime, DrivenOK, WarmOK, BootedIsKept
<1>2. TypeInv /\ OwnInv /\ [Next]_vars => OwnInv'
  <2> SUFFICES ASSUME Inv, [Next]_vars PROVE OwnInv'
    BY DEF Inv
  <2>1. ASSUME NEW s \in Snapshots, NEW e \in EpisodeIds, NEW r \in Runtimes,
               StartEpisode(s, e, r)
        PROVE  OwnInv'
    BY <2>1, StartEpisodeOwn
  <2>2. ASSUME NEW s \in Snapshots, NEW r \in Runtimes, StartEpisodeFails(s, r)
        PROVE  OwnInv'
    BY <2>2, StartEpisodeFailsOwn
  <2>3. ASSUME NEW e \in EpisodeIds, StopEpisode(e) \/ CheckEpisode(e)
        PROVE  OwnInv'
    BY <2>3, StopEpisodeOwn DEF CheckEpisode
  <2>4. ASSUME NEW e \in EpisodeIds, SolverActs(e) PROVE OwnInv'
    BY <2>4, SolverActsOwn
  <2>5. ASSUME NEW e \in EpisodeIds, Checkpoint(e) PROVE OwnInv'
    BY <2>5, SameOwn DEF Checkpoint
  <2>6. ASSUME NEW c \in checkpoints, NEW e \in EpisodeIds, NEW r \in Runtimes,
               Restore(c, e, r)
        PROVE  OwnInv'
    BY <2>6, RestoreFromOwn DEF Restore, Inv, TypeInv, TypeOK
  <2>7. ASSUME NEW e0 \in EpisodeIds, NEW e \in EpisodeIds, NEW r \in Runtimes,
               Fork(e0, e, r)
        PROVE  OwnInv'
    BY <2>7, RestoreFromOwn, CheckpointOfType DEF Fork, Inv
  <2>8. CASE Close \/ AtExit
    BY <2>8, ReleaseOwn
  <2>9. CASE UNCHANGED vars
    BY <2>9, SameOwn DEF vars, service
  <2> QED BY <2>1, <2>2, <2>3, <2>4, <2>5, <2>6, <2>7, <2>8, <2>9 DEF Next
<1>3. TypeInv /\ OwnInv <=> Inv
  BY DEF Inv
<1> QED BY <1>1, <1>2, <1>3, TypeInvariance, PTL DEF Spec

(* One world serves one episode, however starts, stops, restores, forks    *)
(* and failures interleave.                                                *)
THEOREM OneWorldOneEpisode == Spec => []ExclusiveRuntime
<1>1. Inv => ExclusiveRuntime
  BY DEF Inv, OwnInv
<1> QED BY <1>1, Invariance, PTL

(* The pool holds at most its capacity of booted worlds, each under its    *)
(* own snapshot, in an order that lists the occupied slots.                *)
THEOREM PoolSound == Spec => []WarmPoolSound
<1>1. Inv => WarmPoolSound
  BY DEF Inv, OwnInv, TypeInv, OrderOK, WarmOK, WarmPoolSound
<1> QED BY <1>1, Invariance, PTL

(* A booted world stays in reach of close() and the exit hook unless it    *)
(* was overwritten in its warm slot: no failure path loses one.            *)
THEOREM WorldsAreKept == Spec => []BootedIsKept
<1>1. Inv => BootedIsKept
  BY DEF Inv, OwnInv
<1> QED BY <1>1, Invariance, PTL


-----------------------------------------------------------------------------
(***************************************************************************)
(* What an episode is served and graded on: its own work, on the surface   *)
(* its runtime answers on, once.                                           *)
(***************************************************************************)
(* What an episode answers for, and what it was restored with.             *)
Due(e) == running[e].base \cup {e}

(* The work in the world of an episode, in its grade and in its report is  *)
(* its own or inherited.  NoCarryOver is the part about the report.  An    *)
(* entry nobody has a handle for can hold the work of a checkpoint it is   *)
(* no heir of (surface() raised in a restore), and is never graded.        *)
OwnWork(e) ==
  /\ e \in handed /\ Drives(e) => world[running[e].runtime].work \subseteq Due(e)
  /\ running[e].result.work \subseteq Due(e)
  /\ reports[e].work \subseteq Due(e)

OwnSurface(e) ==
  e \in handed /\ Drives(e) /\ IsBooted(running[e].runtime)
    => running[e].surface = world[running[e].runtime].port

(* An episode that has its report has left the table, for good.            *)
NotYetReported(e) == Fresh(e) \/ e \in episodes => reports[e] = NoResult

NotYetHanded(e) == Fresh(e) => e \notin handed

ServedOK(e) == OwnWork(e) /\ OwnSurface(e) /\ NotYetReported(e) /\ NotYetHanded(e)

GradeInv == Inv /\ \A e \in EpisodeIds : ServedOK(e)

-----------------------------------------------------------------------------
(* A step that leaves an episode's entry and report alone and does nothing *)
(* to its world but stop it does not disturb the episode.                  *)
Undisturbed(e) ==
  /\ running'[e] = running[e] /\ reports'[e] = reports[e]
  /\ e \in handed' => e \in handed
  /\ e \in episodes' => e \in episodes
  /\ Drives(e) => world'[running[e].runtime] \in {world[running[e].runtime], Stopped}

LEMMA UndisturbedServed ==
  ASSUME NEW e \in EpisodeIds, ServedOK(e), Undisturbed(e)
  PROVE  ServedOK(e)'
<1>1. Stopped.work = {} /\ Stopped.state # "booted"
  BY DEF Stopped
<1>2. Drives(e)' => Drives(e)
  BY DEF Drives, Undisturbed
<1>3. Due(e)' = Due(e) /\ Fresh(e)' = Fresh(e)
  BY DEF Due, Fresh, Undisturbed
<1>4. OwnWork(e)'
  BY <1>1, <1>2, <1>3 DEF OwnWork, ServedOK, Undisturbed
<1>5. OwnSurface(e)'
  BY <1>1, <1>2 DEF OwnSurface, IsBooted, ServedOK, Undisturbed
<1>6. NotYetReported(e)' /\ NotYetHanded(e)'
  BY <1>3 DEF NotYetReported, NotYetHanded, ServedOK, Undisturbed
<1> QED BY <1>4, <1>5, <1>6 DEF ServedOK

(* Acquiring a runtime leaves the world of every other episode as it is.   *)
LEMMA AcquireLeaves ==
  ASSUME Inv, NEW s \in Snapshots, NEW r \in Runtimes, NEW w, Acquirable(s, r),
         world' = WorldsWith(s, r, w), NEW x \in EpisodeIds, Drives(x)
  PROVE  world'[running[x].runtime] = world[running[x].runtime]
<1>1. running[x].runtime \in Runtimes
  BY DEF Inv, TypeInv, EntriesOK, Drives
<1> QED BY <1>1, AcquirableFree DEF WorldsWith

(* So does putting one into the pool, but for the worlds it evicts.        *)
LEMMA StashLeaves ==
  ASSUME Inv, NEW s, NEW r, StashWarm(s, r), NEW x \in Runtimes
  PROVE  world'[x] \in {world[x], Stopped}
BY DEF StashWarm

LEMMA StopLeaves ==
  ASSUME Inv, NEW r, StopRuntime(r), NEW x \in Runtimes
  PROVE  world'[x] \in {world[x], Stopped}
BY DEF StopRuntime, Inv, TypeInv, TypeOK

LEMMA FreshNotReported ==
  ASSUME GradeInv, NEW e \in EpisodeIds, Fresh(e)
  PROVE  reports[e] = NoResult /\ e \notin handed /\ e \notin episodes
BY FreshIdle DEF GradeInv, ServedOK, NotYetReported, NotYetHanded

-----------------------------------------------------------------------------
(* An episode that starts on a clean world, or on a restored one, and is   *)
(* handed to its caller.                                                   *)
LEMMA StartedServed ==
  ASSUME NEW e \in EpisodeIds, reports'[e] = NoResult,
         running'[e].result = NoResult, running'[e].runtime # None,
         e \in handed' => /\ world'[running'[e].runtime].work \subseteq running'[e].base
                          /\ running'[e].surface = world'[running'[e].runtime].port
  PROVE  ServedOK(e)'
<1>1. OwnWork(e)'
  BY DEF OwnWork, Due, NoResult
<1>2. OwnSurface(e)'
  BY DEF OwnSurface
<1>3. ~Fresh(e)'
  BY DEF Fresh, Unused
<1> QED BY <1>1, <1>2, <1>3 DEF ServedOK, NotYetReported, NotYetHanded

LEMMA NewWorldClean ==
  ASSUME Inv, NEW s \in Snapshots, NEW r \in Runtimes, NEW w
  PROVE  Acquired(s, r).work = {} /\ WorldsWith(s, r, w)[r] = w
<1>1. \A v \in Worlds : [v EXCEPT !.work = {}].work = {}
  BY DEF Worlds
<1> QED BY <1>1 DEF Acquired, Clean, Booted, WorldsWith, Inv, TypeInv, TypeOK

LEMMA StartEpisodeServed ==
  ASSUME GradeInv, NEW s \in Snapshots, NEW e \in EpisodeIds, NEW r \in Runtimes,
         StartEpisode(s, e, r)
  PROVE  \A x \in EpisodeIds : ServedOK(x)'
<1> DEFINE w == Acquired(s, r)
           n == NewEntry(s, r, w)
<1>1. /\ Inv /\ Fresh(e) /\ Acquirable(s, r) /\ reports' = reports
      /\ episodes' = episodes \cup {e} /\ handed' \subseteq handed \cup {e}
      /\ running' = [running EXCEPT ![e] = n] /\ world' = WorldsWith(s, r, w)
  BY DEF StartEpisode, Start, GradeInv
<1>2. w.work = {} /\ world'[r] = w
  BY <1>1, NewWorldClean
<1> HIDE DEF w
<1>3. /\ n.result = NoResult /\ n.runtime = r /\ n.surface = w.port
      /\ n.base = {} /\ r # None
  BY DEF NewEntry
<1> HIDE DEF n
<1>4. running'[e] = n /\ \A x \in EpisodeIds \ {e} : running'[x] = running[x]
  BY <1>1 DEF Inv, TypeInv, TypeOK
<1>5. ServedOK(e)'
  BY <1>1, <1>2, <1>3, <1>4, FreshNotReported, StartedServed
<1>6. ASSUME NEW x \in EpisodeIds \ {e} PROVE ServedOK(x)'
  BY <1>1, <1>4, AcquireLeaves, UndisturbedServed DEF Undisturbed, GradeInv
<1> QED BY <1>5, <1>6

LEMMA StartEpisodeFailsServed ==
  ASSUME GradeInv, NEW s \in Snapshots, NEW r \in Runtimes, StartEpisodeFails(s, r)
  PROVE  \A x \in EpisodeIds : ServedOK(x)'
<1>1. /\ Inv /\ Acquirable(s, r) /\ world' = WorldsWith(s, r, Stopped)
      /\ UNCHANGED <<episodes, running, handed, reports>>
  BY DEF StartEpisodeFails, GradeInv
<1> QED BY <1>1, AcquireLeaves, UndisturbedServed DEF Undisturbed, GradeInv

LEMMA RestoreFromServed ==
  ASSUME GradeInv, NEW c \in Checkpoints, NEW e \in EpisodeIds, NEW r \in Runtimes,
         RestoreFrom(c, e, r)
  PROVE  \A x \in EpisodeIds : ServedOK(x)'
<1> DEFINE s        == running[c.episode].snapshot
           started  == Acquired(s, r)
           restored == [started EXCEPT !.work = c.work, !.port = @ + 1]
           n == NewEntry(s, r, started)
           m == RestoredEntry(s, r, restored, c)
           g == Gone(e)
<1>1. /\ Inv /\ s \in Snapshots /\ c.work \subseteq EpisodeIds
      /\ Fresh(e) /\ Acquirable(s, r) /\ reports' = reports
      /\ reports[e] = NoResult /\ e \notin handed /\ e \notin episodes
  BY FreshNotReported DEF RestoreFrom, Start, GradeInv, Inv, TypeInv, EntriesOK, Checkpoints
<1>2. \/ /\ handed' = handed \cup {e} /\ episodes' = episodes \cup {e}
         /\ running' = [running EXCEPT ![e] = m] /\ world' = WorldsWith(s, r, restored)
      \/ /\ handed' = handed /\ episodes' = episodes \cup {e}
         /\ running' = [running EXCEPT ![e] = n]
         /\ world' \in {WorldsWith(s, r, started), WorldsWith(s, r, restored)}
      \/ /\ handed' = handed /\ episodes' = episodes
         /\ running' = [running EXCEPT ![e] = g] /\ world' = WorldsWith(s, r, Stopped)
  BY DEF RestoreFrom
<1> HIDE DEF s
<1>3. started \in Worlds
  BY <1>1, AcquiredWorld
<1> HIDE DEF started
<1>4. restored.work = c.work
  <2>1. \A v \in Worlds : [v EXCEPT !.work = c.work, !.port = @ + 1].work = c.work
    BY DEF Worlds
  <2> QED BY <1>3, <2>1
<1> HIDE DEF restored
<1>5. /\ m.result = NoResult /\ m.runtime = r /\ m.surface = restored.port
      /\ m.base = c.work /\ n.result = NoResult /\ n.runtime = r
      /\ r # None /\ g.result = NoResult /\ g.stopped = TRUE /\ g # Unused
  BY DEF NewEntry, RestoredEntry, Gone, Unused
<1> HIDE DEF n, m, g
<1>6. /\ running'[e] \in {m, n, g} /\ \A x \in EpisodeIds \ {e} : running'[x] = running[x]
      /\ \E w \in {started, restored, Stopped} : world' = WorldsWith(s, r, w)
  BY <1>1, <1>2 DEF Inv, TypeInv, TypeOK
<1>7. ServedOK(e)'
  <2>1. CASE /\ handed' = handed \cup {e} /\ running' = [running EXCEPT ![e] = m]
             /\ world' = WorldsWith(s, r, restored)
    <3>1. running'[e] = m /\ world'[r] = restored
      BY <1>1, <2>1, NewWorldClean DEF Inv, TypeInv, TypeOK
    <3> QED BY <1>1, <1>4, <1>5, <3>1, StartedServed
  <2>2. CASE handed' = handed /\ running' = [running EXCEPT ![e] = n]
    <3>1. running'[e] = n
      BY <1>1, <2>2 DEF Inv, TypeInv, TypeOK
    <3> QED BY <1>1, <1>5, <2>2, <3>1, StartedServed
  <2>3. CASE /\ handed' = handed /\ episodes' = episodes
             /\ running' = [running EXCEPT ![e] = g]
    <3>1. running'[e] = g
      BY <1>1, <2>3 DEF Inv, TypeInv, TypeOK
    <3>2. e \notin handed' /\ ~Fresh(e)' /\ OwnWork(e)' /\ NotYetReported(e)'
      BY <1>1, <1>5, <2>3, <3>1 DEF Fresh, OwnWork, Due, NotYetReported, NoResult
    <3> QED BY <3>2 DEF ServedOK, OwnSurface, NotYetHanded
  <2> QED BY <1>2, <2>1, <2>2, <2>3
<1>8. ASSUME NEW x \in EpisodeIds \ {e} PROVE ServedOK(x)'
  <2>1. /\ x \in handed' => x \in handed
        /\ x \in episodes' => x \in episodes
    BY <1>2
  <2> QED BY <1>1, <1>6, <2>1, AcquireLeaves, UndisturbedServed DEF Undisturbed, GradeInv
<1> QED BY <1>7, <1>8

-----------------------------------------------------------------------------
(* The grade of an episode counts what is in its world, or nothing.        *)
LEMMA GradingsOwn ==
  ASSUME GradeInv, NEW e \in handed, Drives(e), NEW result \in Gradings(e)
  PROVE  /\ result \in Results /\ result # NoResult
         /\ result.work \subseteq Due(e)
<1>1. e \in episodes /\ e \in EpisodeIds
  BY DEF Drives, GradeInv, Inv, TypeInv, TypeOK
<1>2. world[running[e].runtime].work \subseteq Due(e)
  BY <1>1 DEF GradeInv, ServedOK, OwnWork
<1> QED BY <1>1, <1>2, GradingsType DEF Gradings, GradeInv, Inv, TypeInv

(* The entry of an episode that has been graded, and its report.           *)
LEMMA PublishServed ==
  ASSUME GradeInv, NEW e \in handed, NEW result \in Results,
         Publish(e, result), result.work \subseteq Due(e), handed' = handed
  PROVE  ServedOK(e)'
<1> DEFINE g == Gone(e)
<1>1. e \in EpisodeIds /\ ~Fresh(e)
  BY DEF GradeInv, ServedOK, NotYetHanded, Inv, TypeInv, TypeOK
<1>2. g.base = running[e].base /\ g.result = NoResult /\ g.stopped = TRUE /\ g # Unused
  BY DEF Gone, Unused
<1>3. running'[e] = g /\ reports'[e] = result /\ e \notin episodes'
  BY <1>1 DEF Publish, GradeInv, Inv, TypeInv, TypeOK
<1> HIDE DEF g
<1>4. OwnWork(e)'
  BY <1>2, <1>3 DEF OwnWork, Due, Drives, NoResult
<1> QED BY <1>2, <1>3, <1>4
        DEF ServedOK, OwnSurface, NotYetReported, NotYetHanded, Drives, Fresh

LEMMA GradedServed ==
  ASSUME GradeInv, NEW e \in handed, e \in episodes, NEW result \in Results,
         NEW done \in BOOLEAN, result.work \subseteq Due(e),
         running' = [running EXCEPT ![e] = Graded(@, result, done)],
         done \/ world'[running[e].runtime] = Stopped,
         UNCHANGED <<handed, episodes, reports>>
  PROVE  ServedOK(e)'
<1> DEFINE g == Graded(running[e], result, done)
<1>1. e \in EpisodeIds /\ ServedOK(e) /\ ~Fresh(e) /\ reports[e] = NoResult
  BY DEF GradeInv, ServedOK, NotYetHanded, NotYetReported, Inv, TypeInv, TypeOK
<1>2. /\ g.runtime = running[e].runtime /\ g.surface = running[e].surface
      /\ g.base = running[e].base /\ g.result = result /\ g.stopped = done
  BY GradedType DEF GradeInv, Inv, TypeInv, TypeOK
<1>3. running' = [running EXCEPT ![e] = g]
  OBVIOUS
<1> HIDE DEF g
<1>4. running'[e] = g
  BY <1>1, <1>3 DEF GradeInv, Inv, TypeInv, TypeOK
<1>5. Due(e)' = Due(e)
  BY <1>2, <1>4 DEF Due
<1>6. Stopped.work = {} /\ Stopped.state # "booted"
  BY DEF Stopped
<1>7. OwnWork(e)' /\ OwnSurface(e)'
  BY <1>1, <1>2, <1>4, <1>5, <1>6 DEF OwnWork, OwnSurface, IsBooted, ServedOK, Drives
<1>8. g # Unused
  <2>1. running[e].runtime # None
    BY DEF GradeInv, Inv, TypeInv, EntriesOK
  <2> QED BY <1>2, <2>1 DEF Unused
<1> QED BY <1>1, <1>4, <1>7, <1>8 DEF ServedOK, NotYetReported, NotYetHanded, Fresh

LEMMA StopEpisodeServed ==
  ASSUME GradeInv, NEW e \in EpisodeIds, StopEpisode(e)
  PROVE  \A x \in EpisodeIds : ServedOK(x)'
<1>1. e \in handed /\ e \in episodes /\ handed' = handed /\ Inv
  BY DEF StopEpisode, GradeInv
<1>2. CASE Republish(e)
  <2>1. /\ Publish(e, running[e].result) /\ world' = world
        /\ running[e].result \in Results /\ running[e].result.work \subseteq Due(e)
    BY <1>2 DEF Republish, GradeInv, ServedOK, OwnWork, Inv, TypeInv, TypeOK, Entries
  <2>2. ServedOK(e)'
    BY <1>1, <2>1, PublishServed
  <2>3. ASSUME NEW x \in EpisodeIds \ {e} PROVE ServedOK(x)'
    <3>1. Undisturbed(x)
      BY <1>1, <2>1 DEF Publish, Undisturbed, Inv, TypeInv, TypeOK
    <3> QED BY <3>1, UndisturbedServed DEF GradeInv
  <2> QED BY <2>2, <2>3
<1>3. CASE Drives(e) /\ GradeAndStop(e)
  <2> DEFINE s == running[e].snapshot
             r == running[e].runtime
  <2>1. PICK result \in Gradings(e) :
          \/ (StashWarm(s, r) \/ StopRuntime(r)) /\ Finish(e, result)
          \/ /\ StopRuntime(r)
             /\ running' = [running EXCEPT ![e] = Graded(@, result, FALSE)]
             /\ UNCHANGED <<episodes, reports>>
    BY <1>3 DEF GradeAndStop
  <2>2. result \in Results /\ result.work \subseteq Due(e)
    BY <1>1, <1>3, GradingsOwn
  <2>3. \A x \in Runtimes : world'[x] \in {world[x], Stopped}
    BY <1>1, <2>1, StashLeaves, StopLeaves
  <2>4. \/ Publish(e, result)
        \/ /\ \E done \in BOOLEAN :
                /\ running' = [running EXCEPT ![e] = Graded(@, result, done)]
                /\ done \/ world'[r] = Stopped
           /\ UNCHANGED <<episodes, reports>>
    <3>1. CASE Finish(e, result)
      BY <3>1 DEF Finish
    <3>2. CASE /\ StopRuntime(r)
               /\ running' = [running EXCEPT ![e] = Graded(@, result, FALSE)]
               /\ UNCHANGED <<episodes, reports>>
      <4>1. r \in Runtimes
        BY <1>1 DEF Inv, TypeInv, EntriesOK
      <4>2. world'[r] = Stopped
        BY <1>1, <3>2, <4>1 DEF StopRuntime, Inv, TypeInv, TypeOK
      <4> QED BY <3>2, <4>2
    <3> QED BY <2>1, <3>1, <3>2
  <2>5. ServedOK(e)'
    <3>1. CASE Publish(e, result)
      BY <1>1, <2>2, <3>1, PublishServed
    <3>2. ASSUME NEW done \in BOOLEAN,
                 running' = [running EXCEPT ![e] = Graded(@, result, done)],
                 done \/ world'[r] = Stopped, UNCHANGED <<episodes, reports>>
          PROVE  ServedOK(e)'
      BY <1>1, <2>2, <3>2, GradedServed
    <3> QED BY <2>4, <3>1, <3>2
  <2>6. ASSUME NEW x \in EpisodeIds \ {e} PROVE ServedOK(x)'
    <3>1. /\ running'[x] = running[x] /\ reports'[x] = reports[x]
          /\ x \in episodes' => x \in episodes
      BY <1>1, <2>4 DEF Publish, Inv, TypeInv, TypeOK
    <3>2. Drives(x) => running[x].runtime \in Runtimes
      BY <1>1 DEF Inv, TypeInv, EntriesOK, Drives
    <3> QED BY <1>1, <2>3, <3>1, <3>2, UndisturbedServed DEF Undisturbed, GradeInv
  <2> QED BY <2>5, <2>6
<1> QED BY <1>2, <1>3 DEF StopEpisode

LEMMA SolverActsServed ==
  ASSUME GradeInv, NEW e \in EpisodeIds, SolverActs(e)
  PROVE  \A x \in EpisodeIds : ServedOK(x)'
<1> DEFINE r == running[e].runtime
           w == Worked(r, e)
<1>1. /\ Inv /\ e \in handed /\ Drives(e) /\ r \in Runtimes /\ world[r] \in Worlds
      /\ UNCHANGED <<episodes, running, handed, reports>>
  BY DEF SolverActs, service, GradeInv, Inv, TypeInv, TypeOK, EntriesOK, Drives
<1>2. /\ w.work = world[r].work \cup {e} /\ w.port = world[r].port
      /\ w.state = world[r].state
  BY <1>1 DEF Worked, Worlds
<1>3. world'[r] = w /\ \A y \in Runtimes \ {r} : world'[y] = world[y]
  BY <1>1 DEF SolverActs, Inv, TypeInv, TypeOK
<1> HIDE DEF w
<1>4. ServedOK(e)'
  BY <1>1, <1>2, <1>3
  DEF GradeInv, ServedOK, OwnWork, OwnSurface, NotYetReported, NotYetHanded, Due,
      Drives, Fresh, IsBooted
<1>5. ASSUME NEW x \in EpisodeIds \ {e} PROVE ServedOK(x)'
  <2>1. Drives(x) => running[x].runtime \in Runtimes \ {r}
    BY <1>1 DEF Inv, TypeInv, EntriesOK, Drives, OwnInv, ExclusiveRuntime
  <2> QED BY <1>1, <1>3, <2>1, UndisturbedServed DEF Undisturbed, GradeInv
<1> QED BY <1>4, <1>5

LEMMA CloseServed ==
  ASSUME GradeInv, Close
  PROVE  \A x \in EpisodeIds : ServedOK(x)'
<1> SUFFICES ASSUME NEW x \in EpisodeIds PROVE ServedOK(x)'
  OBVIOUS
<1>1. /\ episodes' = {} /\ handed' = handed /\ reports' = reports
      /\ running'[x] = IF x \in episodes THEN Gone(x) ELSE running[x]
  BY DEF Close
<1>2. Gone(x).base = running[x].base /\ Gone(x).result = NoResult /\ Gone(x) # Unused
  BY DEF Gone, Unused
<1>3. Due(x)' = Due(x) /\ (Fresh(x)' => Fresh(x))
  BY <1>1, <1>2 DEF Due, Fresh
<1>4. OwnWork(x)'
  BY <1>1, <1>2, <1>3 DEF OwnWork, Drives, GradeInv, ServedOK, NoResult
<1> QED BY <1>1, <1>3, <1>4
        DEF ServedOK, OwnSurface, NotYetReported, NotYetHanded, Drives, GradeInv

LEMMA AtExitServed ==
  ASSUME GradeInv, AtExit
  PROVE  \A x \in EpisodeIds : ServedOK(x)'
BY DEF AtExit, NoRunning, NoReports, NoResult, Unused, Drives, ServedOK, OwnWork,
       OwnSurface, NotYetReported, NotYetHanded

(* The inductive invariant.                                                *)
LEMMA GradeInvariance == Spec => []GradeInv
<1> DEFINE Served == \A x \in EpisodeIds : ServedOK(x)
<1>1. Init => Served
  BY DEF Init, NoRunning, NoReports, NoResult, Unused, Drives, ServedOK, OwnWork,
         OwnSurface, NotYetReported, NotYetHanded
<1>2. Inv /\ Served /\ [Next]_vars => Served'
  <2> SUFFICES ASSUME GradeInv, [Next]_vars PROVE \A x \in EpisodeIds : ServedOK(x)'
    BY DEF GradeInv
  <2>1. ASSUME NEW s \in Snapshots, NEW e \in EpisodeIds, NEW r \in Runtimes,
               StartEpisode(s, e, r)
        PROVE  \A x \in EpisodeIds : ServedOK(x)'
    BY <2>1, StartEpisodeServed
  <2>2. ASSUME NEW s \in Snapshots, NEW r \in Runtimes, StartEpisodeFails(s, r)
        PROVE  \A x \in EpisodeIds : ServedOK(x)'
    BY <2>2, StartEpisodeFailsServed
  <2>3. ASSUME NEW e \in EpisodeIds, StopEpisode(e) \/ CheckEpisode(e)
        PROVE  \A x \in EpisodeIds : ServedOK(x)'
    BY <2>3, StopEpisodeServed DEF CheckEpisode
  <2>4. ASSUME NEW e \in EpisodeIds, SolverActs(e)
        PROVE  \A x \in EpisodeIds : ServedOK(x)'
    BY <2>4, SolverActsServed
  <2>5. ASSUME UNCHANGED <<episodes, running, handed, reports, world>>
        PROVE  \A x \in EpisodeIds : ServedOK(x)'
    BY <2>5, UndisturbedServed DEF Undisturbed, GradeInv
  <2>6. ASSUME NEW c \in checkpoints, NEW e \in EpisodeIds, NEW r \in Runtimes,
               Restore(c, e, r)
        PROVE  \A x \in EpisodeIds : ServedOK(x)'
    BY <2>6, RestoreFromServed DEF Restore, GradeInv, Inv, TypeInv, TypeOK
  <2>7. ASSUME NEW e0 \in EpisodeIds, NEW e \in EpisodeIds, NEW r \in Runtimes,
               Fork(e0, e, r)
        PROVE  \A x \in EpisodeIds : ServedOK(x)'
    BY <2>7, RestoreFromServed, CheckpointOfType DEF Fork, GradeInv, Inv
  <2>8. CASE \E e \in EpisodeIds : Checkpoint(e)
    BY <2>5, <2>8 DEF Checkpoint
  <2>9. CASE UNCHANGED vars
    BY <2>5, <2>9 DEF vars, service
  <2> QED BY <2>1, <2>2, <2>3, <2>4, <2>6, <2>7, <2>8, <2>9, CloseServed, AtExitServed DEF Next
<1>3. Inv /\ Served <=> GradeInv
  BY DEF GradeInv
<1> QED BY <1>1, <1>2, <1>3, Invariance, PTL DEF Spec

(* A report counts the work of its own episode and what that was restored  *)
(* with: the worlds of the pool carry nothing from one episode to the next.*)
THEOREM NothingCarriedOver == Spec => []NoCarryOver
<1>1. GradeInv => NoCarryOver
  BY DEF GradeInv, ServedOK, OwnWork, Due, NoCarryOver
<1> QED BY <1>1, GradeInvariance, PTL

(* The surface a live episode has cached is the one its runtime serves on. *)
THEOREM SurfaceIsCurrent == Spec => []SurfaceCurrent
<1>1. GradeInv => SurfaceCurrent
  BY DEF GradeInv, ServedOK, OwnSurface, SurfaceCurrent, Inv, TypeInv, TypeOK
<1> QED BY <1>1, GradeInvariance, PTL

-----------------------------------------------------------------------------
(* A step that leaves the reports alone, and the grade of every entry that *)
(* stays, is within GradesKept.                                            *)
LEMMA ReportsSame ==
  ASSUME GradeInv, reports' = reports,
         \A x \in episodes : x \in episodes' => running'[x].result = running[x].result
  PROVE  GradesKept
BY DEF GradesKept, GradeInv, ServedOK, NotYetReported, Inv, TypeInv, TypeOK

LEMMA StopEpisodeFinal ==
  ASSUME GradeInv, NEW e \in EpisodeIds, StopEpisode(e)
  PROVE  GradesKept /\ LeftReported
<1>1. e \in handed /\ e \in episodes /\ Inv /\ reports[e] = NoResult
  BY DEF StopEpisode, GradeInv, ServedOK, NotYetReported
<1>2. ASSUME NEW result, result # NoResult, Publish(e, result),
             running[e].stopped => result = running[e].result
      PROVE  GradesKept /\ LeftReported
  <2>1. /\ reports'[e] = result /\ episodes' = episodes \ {e}
        /\ \A x \in EpisodeIds \ {e} : running'[x] = running[x] /\ reports'[x] = reports[x]
    BY <1>1, <1>2 DEF Publish, Inv, TypeInv, TypeOK
  <2>2. \A x \in EpisodeIds : x \in episodes => reports[x] = NoResult
    BY DEF GradeInv, ServedOK, NotYetReported
  <2> QED BY <1>1, <1>2, <2>1, <2>2 DEF GradesKept, LeftReported
<1>3. CASE Republish(e)
  BY <1>2, <1>3 DEF Republish
<1>4. CASE Drives(e) /\ GradeAndStop(e)
  <2>1. PICK result \in Gradings(e) :
          \/ Finish(e, result)
          \/ /\ running' = [running EXCEPT ![e] = Graded(@, result, FALSE)]
             /\ UNCHANGED <<episodes, reports>>
    BY <1>4 DEF GradeAndStop
  <2>2. result # NoResult /\ ~running[e].stopped
    BY <1>1, <1>4, GradingsOwn DEF Drives
  <2>3. CASE Publish(e, result)
    BY <1>2, <2>2, <2>3
  <2>4. ASSUME NEW done \in BOOLEAN,
               running' = [running EXCEPT ![e] = Graded(@, result, done)],
               UNCHANGED <<episodes, reports>>
        PROVE  GradesKept /\ LeftReported
    <3>1. \A x \in EpisodeIds \ {e} : running'[x] = running[x]
      BY <1>1, <2>4 DEF Inv, TypeInv, TypeOK
    <3>2. \A x \in EpisodeIds : x \in episodes => reports[x] = NoResult
      BY DEF GradeInv, ServedOK, NotYetReported
    <3> QED BY <2>2, <2>4, <3>1, <3>2 DEF GradesKept, LeftReported
  <2> QED BY <2>1, <2>3, <2>4 DEF Finish
<1> QED BY <1>3, <1>4 DEF StopEpisode

(* Steps that only add entries, or change nothing of the table.            *)
LEMMA AddsOnly ==
  ASSUME GradeInv, reports' = reports, episodes \subseteq episodes',
         \A x \in episodes : running'[x] = running[x]
  PROVE  GradesKept /\ LeftReported
BY ReportsSame DEF LeftReported

LEMMA RestoreFromAddsOnly ==
  ASSUME GradeInv, NEW c, NEW e \in EpisodeIds, NEW r, RestoreFrom(c, e, r)
  PROVE  GradesKept /\ LeftReported
<1>1. /\ Fresh(e) /\ reports' = reports /\ episodes \subseteq episodes'
      /\ \E n : running' = [running EXCEPT ![e] = n]
  BY DEF RestoreFrom, Start
<1>2. e \notin episodes /\ episodes \subseteq EpisodeIds
  BY <1>1, FreshNotReported DEF GradeInv, Inv, TypeInv, TypeOK
<1> QED BY <1>1, <1>2, AddsOnly DEF GradeInv, Inv, TypeInv, TypeOK

(* What every step does to the grades, and to the entries that leave.      *)
LEMMA StepFinal ==
  ASSUME GradeInv, [Next]_vars
  PROVE  [GradesKept]_vars /\ [LeftReported]_vars
<1>1. ASSUME NEW s \in Snapshots, NEW e \in EpisodeIds, NEW r \in Runtimes,
             StartEpisode(s, e, r)
      PROVE  GradesKept /\ LeftReported
  <2>1. /\ Fresh(e) /\ reports' = reports /\ episodes \subseteq episodes'
        /\ \E n : running' = [running EXCEPT ![e] = n]
    BY <1>1 DEF StartEpisode, Start
  <2>2. e \notin episodes /\ episodes \subseteq EpisodeIds
    BY <2>1, FreshNotReported DEF GradeInv, Inv, TypeInv, TypeOK
  <2> QED BY <2>1, <2>2, AddsOnly DEF GradeInv, Inv, TypeInv, TypeOK
<1>2. ASSUME UNCHANGED <<episodes, running, reports>> PROVE GradesKept /\ LeftReported
  BY <1>2, AddsOnly
<1>3. ASSUME NEW e \in EpisodeIds, StopEpisode(e) \/ CheckEpisode(e)
      PROVE  GradesKept /\ LeftReported
  BY <1>3, StopEpisodeFinal DEF CheckEpisode
<1>4. CASE (\E s \in Snapshots, r \in Runtimes : StartEpisodeFails(s, r))
           \/ (\E e \in EpisodeIds : SolverActs(e) \/ Checkpoint(e))
  BY <1>2, <1>4 DEF StartEpisodeFails, SolverActs, Checkpoint, service
<1>5. ASSUME NEW c, NEW e \in EpisodeIds, NEW r \in Runtimes, RestoreFrom(c, e, r)
      PROVE  GradesKept /\ LeftReported
  BY <1>5, RestoreFromAddsOnly
<1>6. CASE Close
  BY <1>6, ReportsSame DEF Close, LeftReported
<1>7. CASE AtExit
  BY <1>7 DEF AtExit, GradesKept, LeftReported
<1>8. CASE UNCHANGED vars
  BY <1>8
<1> QED BY <1>1, <1>3, <1>4, <1>5, <1>6, <1>7, <1>8 DEF Next, Restore, Fork

(* A grade is final: no retry, failure or close() revises the report of an *)
(* episode, or the grade of one that counts as stopped.                    *)
THEOREM GradesAreFinal == Spec => GradeIsFinal
<1>1. GradeInv /\ [Next]_vars => [GradesKept]_vars
  BY StepFinal
<1> QED BY <1>1, GradeInvariance, PTL DEF Spec, GradeIsFinal

(* No episode whose handle was returned leaves the table unreported.       *)
THEOREM NoneLeavesUnreported == Spec => LeavesAReport
<1>1. GradeInv /\ [Next]_vars => [LeftReported]_vars
  BY StepFinal
<1> QED BY <1>1, GradeInvariance, PTL DEF Spec, LeavesAReport

=============================================================================
