---------------------------- MODULE EpisodeTick ----------------------------
(***************************************************************************)
(* The auto-tick of the episode service (episode.py).  An episode whose    *)
(* manifest says runtime.tick.mode = "auto" has a thread that ticks it:    *)
(* drive the NPCs, drain the world's events.  The main thread starts the   *)
(* episode, may observe(), advance() or tick() it as well, and stops it:   *)
(* stop flag, join with a timeout, NPCs, last drain, grading, and the      *)
(* world goes to the warm pool for the next episode.                       *)
(*                                                                         *)
(* The NPC is an AgentNPC: its first step that is due builds an agent      *)
(* session, its steps call it, stop() drops it, and what cannot be built   *)
(* breaks it for good, which the service tells the dashboard.  Its cadence *)
(* is a choice: a step is due or it is not.  An NPC without a model is one *)
(* whose session is always built.                                          *)
(*                                                                         *)
(* The episodes follow one another on one pooled world, so a tick that     *)
(* outlives the join of its episode meets the next one.  A drain is two    *)
(* steps because poll_events is: it slices the log at _log_offset and      *)
(* later adds to _log_offset what it consumed, with no lock (realize.py).  *)
(*                                                                         *)
(* The world serves each request in a thread of its own, which writes its  *)
(* line before it answers.  Agents are not the service's: one may go on    *)
(* while its episode is stopped (the TRL adapter tears the sandbox down    *)
(* after stop_episode), and a request may be served for any time.          *)
(***************************************************************************)
EXTENDS Integers, Sequences

CONSTANTS MaxEpisodes,  \* bound: episodes that use the world
          MaxRequests   \* bound: lines in the request log

ASSUME MaxEpisodesAssumption == MaxEpisodes \in Nat \ {0}
ASSUME MaxRequestsAssumption == MaxRequests \in Nat

Episodes == 1 .. MaxEpisodes
Main == 0                       \* the poller that is no tick thread
Pollers == {Main} \cup Episodes

VARIABLES
  episode,  \* the last episode that was started, 0 before the first
  main,     \* where the main thread is with it
  flag,     \* tick_stop: "none" is None, else the event
  thread,   \* where the tick thread of an episode is
  npc,      \* the NPC of an episode: "none", "up" or "down" after stop()
  session,  \* NPC._agent: the agent it has built
  broken,   \* NPC.broken_reason is set
  said,     \* history: how often the dashboard was told that it broke
  unheard,  \* history: episodes whose report of that the dashboard refused
  late,     \* history: episodes whose tick outlived the join
  clash,    \* history: main and a tick polled, or built an agent, at the same time
  log,      \* the world's request log: whose request each line is
  offset,   \* _log_offset
  slice,    \* what a poll in progress has read: lines from + 1 .. to
  drained,  \* history: for each line, the episodes it was drained for
  settled,  \* history: the lines there were when the NPC was stopped
  strays    \* earlier episodes whose agent, or a request that was made in
            \* them, was still there when the world was reset

feed    == <<log, offset, slice, drained, settled>>
cast    == <<npc, session, broken, said, unheard>>
tickVars == <<episode, main, flag, thread, late, clash, cast, feed, strays>>

TickStates == {"build", "npc", "read", "polling"}
MainStates == TickStates \cup {"idle", "live", "join", "npcs", "drain",
                               "draining", "collect"}
ThreadStates == TickStates \cup {"none", "wait", "tick", "exited", "crashed"}
NpcStates == {"none", "up", "down"}    \* not made, started, stopped
Ended == {"none", "exited", "crashed"}
NoSlice == [from |-> 0, to |-> 0]

TickInit ==
  /\ episode = 0 /\ main = "idle" /\ late = {} /\ clash = FALSE
  /\ flag = [e \in Episodes |-> "none"]  /\ thread = [e \in Episodes |-> "none"]
  /\ npc = [e \in Episodes |-> "none"]    /\ session = [e \in Episodes |-> FALSE]
  /\ broken = [e \in Episodes |-> FALSE]  /\ said = [e \in Episodes |-> 0]
  /\ unheard = {}
  /\ log = <<>> /\ offset = 0 /\ drained = <<>> /\ settled = 0
  /\ strays = {}
  /\ slice = [p \in Pollers |-> NoSlice]

Running(e) == e = episode /\ main # "idle"    \* in _episodes

-----------------------------------------------------------------------------
(* poll_events, its two halves; the second is where _drain_events has the  *)
(* events and records them for the episode it drains for.                  *)
PollRead(p) ==
  /\ slice' = [slice EXCEPT ![p] = [from |-> offset, to |-> Len(log)]]
  /\ UNCHANGED <<log, offset, drained, settled>>

Lines(p) == slice[p].from + 1 .. slice[p].to

PollAdvance(p, e) ==
  /\ offset'  = IF Lines(p) = {} THEN offset
                ELSE offset + slice[p].to - slice[p].from
  /\ drained' = [i \in DOMAIN drained |-> IF i \in Lines(p) THEN Append(drained[i], e)
                                          ELSE drained[i]]
  /\ slice'   = [slice EXCEPT ![p] = NoSlice]
  /\ UNCHANGED <<log, settled>>

\* log_access: a request of e has its line
Logged(e) == /\ Len(log) < MaxRequests
             /\ log' = Append(log, e) /\ drained' = Append(drained, <<>>)

-----------------------------------------------------------------------------
(* start_episode on the warm world: reset_episode empties the log, and the *)
(* NPC and the tick thread start.                                          *)
\* mutant: the log of the last episode stays
EmptiedNot == UNCHANGED <<log, drained>>

Emptied == log' = <<>> /\ drained' = <<>>

\* AgentNPC.start: without a backend, or with one that fails its preflight (its
\* own already when it was built), the NPC is broken before it ever steps.
NpcStarts(e) ==
  /\ npc' = [npc EXCEPT ![e] = "up"]
  /\ \E fails \in BOOLEAN : broken' = [broken EXCEPT ![e] = fails]
  /\ UNCHANGED session

\* _start_npcs: one that is broken after start() is reported at once; where the
\* dashboard refuses that, start_episode raises and there is no such episode
StartNpcs(e) ==
  /\ NpcStarts(e)
  /\ said' = [said EXCEPT ![e] = IF broken'[e] THEN 1 ELSE 0]
  /\ UNCHANGED unheard

(* _start_auto_tick, when the manifest's tick mode is "auto" with a rate.  *)
StartAutoTick(e) ==
  /\ flag'   = [flag EXCEPT ![e] = "clear"]
  /\ thread' = [thread EXCEPT ![e] = "wait"]

StartTicking ==
  /\ main = "idle" /\ episode < MaxEpisodes
  /\ episode' = episode + 1 /\ main' = "live"
  /\ \/ StartAutoTick(episode')
     \/ UNCHANGED <<flag, thread>>   \* the manifest asks for no auto-tick
  /\ StartNpcs(episode')
  /\ Emptied /\ offset' = 0
  /\ \E remain \in SUBSET (1 .. episode) : strays' = strays \cup remain
  /\ UNCHANGED <<late, clash, slice, settled>>

(* The agent acts through the surface, in a thread or a process of its own *)
(* that others start and end: it may act while its episode is stopped, and *)
(* be still there in the next.  What matters is when the world writes the  *)
(* line of a request, which may be long after it was sent.                 *)
AgentRequest(e) ==
  /\ e = episode \/ e \in strays
  /\ Logged(e)
  /\ UNCHANGED <<episode, main, flag, thread, late, clash, cast, offset, slice, settled, strays>>

-----------------------------------------------------------------------------
(* A tick, by its thread or by a call of tick() on the main thread.        *)
At(p) == IF p = Main THEN main ELSE thread[p]

Goes(p, pc) ==
  IF p = Main THEN main' = pc /\ UNCHANGED thread
              ELSE thread' = [thread EXCEPT ![p] = pc] /\ UNCHANGED main

\* the other of the two is at `pc` while this one begins what is done there
Meets(p, pc) ==
  clash' = (clash \/ \E q \in Pollers : (p = Main) # (q = Main) /\ At(q) = pc)

Over(p) == IF p = Main THEN "live" ELSE "wait"

\* mutant: whatever is broken after its step is reported
BrokenAfter(before, after) == after

\* _step_npcs: already_broken is read before the step, broken_reason after it
Reports(before, after) == ~before /\ after

Said(e, before, after) ==
  said' = [said EXCEPT ![e] = @ + (IF Reports(before, after) THEN 1 ELSE 0)]

\* The step of the NPC e: nothing when it is broken or not due; else its agent
\* is built if there is none, and called.
StepNpc(p, e) ==
  /\ \/ Goes(p, "read")
        /\ IF npc[e] = "up" THEN Said(e, broken[e], broken[e]) ELSE UNCHANGED said
     \/ npc[e] = "up" /\ ~broken[e] /\ Goes(p, IF session[e] THEN "npc" ELSE "build")
        /\ UNCHANGED said
  /\ Meets(p, "build")
  /\ UNCHANGED <<npc, session, broken, unheard>>

(* tick: an unknown episode raises EpisodeError; else the NPCs are next.   *)
TickBegins(e) ==
  /\ thread[e] = "tick"
  /\ IF Running(e) THEN StepNpc(e, e)
                   ELSE Goes(e, "exited") /\ UNCHANGED <<cast, clash>>
  /\ UNCHANGED <<episode, flag, late, feed, strays>>

MainTick ==
  /\ main = "live" /\ StepNpc(Main, episode)
  /\ UNCHANGED <<episode, flag, late, feed, strays>>

Stage(p) == IF p = Main THEN episode ELSE p   \* the episode p ticks

\* _mark_broken, and the agent that failed to build is dropped
MarkBroken(e) ==
  /\ broken' = [broken EXCEPT ![e] = TRUE]
  /\ session' = [session EXCEPT ![e] = FALSE]

(* _build_tools and build_agent succeed, or the NPC is broken: the first   *)
(* to break it says so, and so does a step that began before.  When the    *)
(* dashboard refuses that, the tick raises.                                *)
BuildEnds(p) ==
  /\ At(p) = "build"
  /\ \/ session' = [session EXCEPT ![Stage(p)] = TRUE] /\ Goes(p, "npc")
        /\ UNCHANGED <<broken, said, unheard>>
     \/ MarkBroken(Stage(p)) /\ Said(Stage(p), FALSE, TRUE) /\ Goes(p, "read")
        /\ UNCHANGED unheard
     \/ MarkBroken(Stage(p)) /\ Goes(p, IF p = Main THEN "live" ELSE "crashed")
        /\ unheard' = unheard \cup {Stage(p)} /\ UNCHANGED said
  /\ UNCHANGED <<episode, flag, npc, late, clash, feed, strays>>

(* The call of the agent may take any time, may fail, and may make a       *)
(* request, whose line is there when it is answered.  One it gave up is an *)
(* AgentRequest later.                                                     *)
NpcActs(p) ==
  /\ At(p) = "npc" /\ Goes(p, "read")
  /\ Logged(Stage(p)) \/ UNCHANGED <<log, drained>>
  /\ UNCHANGED <<episode, flag, cast, late, clash, offset, slice, settled, strays>>

TickPolls(p) ==
  /\ At(p) = "read" /\ Goes(p, "polling")
  /\ PollRead(p) /\ Meets(p, "polling")
  /\ UNCHANGED <<episode, flag, cast, late, strays>>

\* observe(), and a round of advance(): a drain without a step of the NPCs
Observe ==
  /\ main = "live" /\ main' = "polling" /\ PollRead(Main)
  /\ Meets(Main, "polling")
  /\ UNCHANGED <<episode, flag, thread, cast, late, strays>>

(* Recording an event on the dashboard may raise.  That is no EpisodeError *)
(* and the thread is over; a caller of tick() or observe() is told.        *)
TickEnds(p) ==
  /\ At(p) = "polling" /\ PollAdvance(p, Stage(p))
  /\ \/ Goes(p, Over(p))
     \/ p # Main /\ Lines(p) # {} /\ Goes(p, "crashed")
  /\ UNCHANGED <<episode, flag, cast, late, clash, strays>>

(* _auto_tick_loop: wait() on the event.  The event is gone, or set, or    *)
(* the interval is over and a tick is due.                                 *)
Wake(e) ==
  /\ thread[e] = "wait"
  /\ thread' = [thread EXCEPT ![e] = CASE flag[e] = "none"  -> "crashed"
                                       [] flag[e] = "set"   -> "exited"
                                       [] flag[e] = "clear" -> "tick"]
  /\ UNCHANGED <<episode, main, flag, cast, late, clash, feed, strays>>

-----------------------------------------------------------------------------
(* stop_episode, up to the join of _stop_auto_tick.  There is nothing to   *)
(* signal or to join without a tick_stop, nor when a last drain that       *)
(* raised has left the entry and the caller stops the episode again.       *)
Signal == flag' = [flag EXCEPT ![episode] = IF @ = "none" THEN @ ELSE "set"]

SetStop ==
  /\ main = "live" /\ main' = "join" /\ Signal
  /\ UNCHANGED <<episode, thread, cast, late, clash, feed, strays>>

(* join(timeout=5) returns when the thread has ended or the time is up.    *)
\* mutant: the thread is not joined
NotJoined(e) == TRUE

Joined(e) == flag[e] = "none" \/ thread[e] \in Ended

\* mutant: join() without a timeout
JoinWaits(e) == FALSE

JoinTimesOut(e) == flag[e] # "none" /\ thread[e] \notin Ended

Join ==
  /\ main = "join" /\ main' = "npcs"
  /\ \/ Joined(episode) /\ UNCHANGED late
     \/ JoinTimesOut(episode) /\ late' = late \cup {episode}
  /\ flag' = [flag EXCEPT ![episode] = "none"]
  /\ UNCHANGED <<episode, thread, cast, clash, feed, strays>>

\* mutant: the NPC is left running
KeepNpcs == UNCHANGED <<npc, session>>

HaltNpcs == /\ npc' = [npc EXCEPT ![episode] = "down"]
            /\ session' = [session EXCEPT ![episode] = FALSE]

StopNpcs ==
  /\ main = "npcs" /\ main' = "drain"
  /\ HaltNpcs /\ settled' = Len(log)
  /\ UNCHANGED <<episode, flag, thread, broken, said, unheard, late, clash, log, offset,
                 slice, drained, strays>>

(* The last drain.  When the dashboard refuses one of its events,          *)
(* stop_episode raises: the events are drained and the entry is live.      *)
\* mutant: the last drain returns what was already drained
LastDrainNone == slice' = [slice EXCEPT ![Main] = NoSlice]
                 /\ UNCHANGED <<log, offset, drained, settled>>

LastDrain == PollRead(Main)

DrainEvents ==
  /\ \/ main = "drain" /\ main' = "draining" /\ LastDrain
     \/ /\ main = "draining" /\ PollAdvance(Main, episode)
        /\ main' = "collect" \/ (Lines(Main) # {} /\ main' = "live")
  /\ UNCHANGED <<episode, flag, thread, cast, late, clash, strays>>

(* collect, which reads the log and then probes the world, grade,          *)
(* _stash_warm, report: the entry leaves _episodes.                        *)
CollectAndStash ==
  /\ main = "collect" /\ main' = "idle" /\ settled' = 0
  /\ Logged(episode) \/ UNCHANGED <<log, drained>>
  /\ UNCHANGED <<episode, flag, thread, cast, late, clash, offset, slice, strays>>

-----------------------------------------------------------------------------
MainStep == SetStop \/ Join \/ StopNpcs \/ DrainEvents \/ CollectAndStash
TickStep(p) == BuildEnds(p) \/ NpcActs(p) \/ TickPolls(p) \/ TickEnds(p)

TickNext ==
  \/ StartTicking \/ MainTick \/ Observe \/ MainStep
  \/ \E e \in Episodes : Wake(e) \/ TickBegins(e)
  \/ \E e \in Episodes : AgentRequest(e)
  \/ \E p \in Pollers : TickStep(p)

TickSpec == TickInit /\ [][TickNext]_tickVars

(* Calls the main thread has made go on, and nothing more: an NPC may be   *)
(* stuck in its step for good and its tick thread with it.                 *)
FairSpec == TickSpec /\ WF_tickVars(Join) /\ WF_tickVars(StopNpcs) /\ WF_tickVars(DrainEvents)
                 /\ WF_tickVars(CollectAndStash)

-----------------------------------------------------------------------------
(* Types, and: no thread is alive before its episode has started, and one  *)
(* that is alive has its stop event until its join timed out.              *)
TickTypeOK ==
  /\ episode \in 0 .. MaxEpisodes         /\ main \in MainStates
  /\ flag \in [Episodes -> {"none", "clear", "set"}]
  /\ thread \in [Episodes -> ThreadStates] /\ npc \in [Episodes -> NpcStates]
  /\ session \in [Episodes -> BOOLEAN]  /\ broken \in [Episodes -> BOOLEAN]
  /\ said \in [Episodes -> Nat]         /\ unheard \subseteq Episodes
  /\ late \subseteq 1 .. episode /\ clash \in BOOLEAN /\ log \in Seq(Episodes)
  /\ Len(log) <= MaxRequests              /\ offset \in Nat
  /\ slice \in [Pollers -> [from : Nat, to : 0 .. MaxRequests]]
  /\ drained \in Seq(Seq(Episodes))       /\ Len(drained) = Len(log)
  /\ settled \in 0 .. MaxRequests          /\ strays \subseteq Episodes
  /\ \A e \in Episodes : e > episode => thread[e] = "none" /\ flag[e] = "none"
  /\ episode > 0 /\ flag[episode] = "none" => episode \in late \/ thread[episode] \in Ended

(* Every event is drained once, and for the episode that is under way, by  *)
(* whichever of the two threads: what is below the offset was returned by  *)
(* one poll, what is above it by none but a poll that is still going on.   *)
(* A tick that outlived its join is the exception (late), and a call on    *)
(* the main thread that polled at the same time as a tick (clash).         *)
DrainedOnce ==
  \A i \in DOMAIN log : drained[i] = IF i <= offset THEN <<episode>> ELSE <<>>

EventsOnce == late = {} /\ ~clash => DrainedOnce

(* The log the grader of an episode reads has requests of that episode and *)
(* its NPCs alone, and of those earlier ones whose agent was still there,  *)
(* or whose request was still served, when the world was reset (strays),   *)
(* unless a tick outlived its join (late).  Nothing else carries over.     *)
NoForeignEvents ==
  late = {} => \A i \in DOMAIN log : log[i] = episode \/ log[i] \in strays

(* While an episode is graded, and later, neither its tick nor its NPC     *)
(* touches the world, and no agent session is left.                        *)
GradedAlone ==
  \A e \in 1 .. episode :
    (e < episode \/ main \in {"drain", "draining", "collect", "idle"})
      => npc[e] = "down" /\ (e \in late \/ (thread[e] \in Ended /\ ~session[e]))

(* Whatever had its line when the NPCs were stopped has been drained, once *)
(* and for this episode, when collect() reads the log: so has every        *)
(* request answered before stop_episode was called, and every one of the   *)
(* ticks and the NPCs.  An agent that goes on, or a request still served,  *)
(* may write more, which the grader reads and nobody drains.               *)
NothingLeftBehind ==
  main = "collect" /\ late = {} /\ ~clash
    => \A i \in 1 .. settled : drained[i] = <<episode>>

(* An NPC that can no longer act is reported, and once (NPC's docstring:   *)
(* "a silent NPC never goes unnoticed"), whichever thread stepped it and   *)
(* whenever it broke.  The exceptions are two threads in its first step at *)
(* once (clash) and a dashboard that refused the report (unheard).         *)
BrokenSaidOnce ==
  ~clash => \A e \in Episodes : said[e] = IF broken[e] /\ e \notin unheard THEN 1 ELSE 0

(* stop_episode returns, or raises what the dashboard raised, even though  *)
(* an NPC never returns.                                                   *)
StopReturns == main = "join" ~> main \in {"idle", "live"}
=============================================================================
