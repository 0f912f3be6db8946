--------------------------- MODULE AgentRollouts ---------------------------
(***************************************************************************)
(* The rollouts of openrange.agent: arun_rollouts gathers one arun_agent   *)
(* per task on the event loop, at most max_concurrency at a time behind a  *)
(* semaphore, all on one shared EpisodeService; run_rollouts is the same   *)
(* with asyncio.run and no overlap.  The loop runs one step at a time.     *)
(* Binding the shell, the sampler, the shell and its close run in worker   *)
(* threads: cancelling the task that awaits one does not stop the thread.  *)
(*                                                                         *)
(* gather() raises with the first rollout that fails and leaves the others *)
(* running; asyncio.run cancels them when its main task is over, which for *)
(* run_rollouts is before the caller closes the service, and for a caller  *)
(* of arun_rollouts that closes the service itself, after.                 *)
(*                                                                         *)
(* The service is reduced to its worlds: one poolable snapshot, so an      *)
(* episode takes the warm world or boots one, and its world goes to the    *)
(* warm slot when it is stopped (EpisodeService has the rest).             *)
(***************************************************************************)
EXTENDS Integers, FiniteSets

CONSTANTS Rollouts,        \* how many tasks
          MaxConcurrency,  \* of arun_rollouts
          MaxTurns,
          Faults           \* the calls that may raise

ASSUME RolloutsAssumption == Rollouts \in Nat /\ MaxConcurrency \in Nat \ {0}
ASSUME MaxTurnsAssumption == MaxTurns \in Nat \ {0}
ASSUME FaultsAssumption == Faults \subseteq {"start", "bind", "sample", "shell", "reward", "close"}

Tasks == 1 .. Rollouts
NoWorld == 0

VARIABLES
  sync,      \* run_rollouts, not arun_rollouts
  pc,        \* what each rollout awaits
  outcome,   \* how it ends: its report, an exception, CancelledError
  jobs,      \* the worker threads each has running
  cap,       \* the shell bind_run made, stuck when its close raised
  turns,     \* turns recorded
  episode,   \* its episode: live in the service, graded, or killed by close()
  world,     \* its episode's world
  worlds,    \* how many worlds were ever booted
  booted,    \* the worlds that run
  warm,      \* the warm slot of the snapshot
  permits,   \* of the semaphore
  gather,    \* what the caller of arun_rollouts sees
  cancelled, \* asyncio.run has cancelled what was left
  closed     \* the caller has closed the service

tasks == <<sync, pc, outcome, jobs, cap, turns, permits, gather, cancelled>>
service == <<episode, world, worlds, booted, warm, closed>>
vars == <<tasks, service>>

Awaits == {"semaphore", "bind", "sample", "shell", "close", "done"}
Outcomes == {"none", "report", "error", "cancelled"}

Init ==
  /\ sync \in BOOLEAN
  /\ pc = [r \in Tasks |-> "semaphore"]  /\ outcome = [r \in Tasks |-> "none"]
  /\ jobs = [r \in Tasks |-> {}]         /\ cap = [r \in Tasks |-> "none"]
  /\ turns = [r \in Tasks |-> 0]         /\ episode = [r \in Tasks |-> "none"]
  /\ world = [r \in Tasks |-> NoWorld]   /\ worlds = 0
  /\ booted = {}                         /\ warm = NoWorld
  /\ permits = IF sync THEN 1 ELSE MaxConcurrency
  /\ gather = "waiting"                  /\ cancelled = FALSE
  /\ closed = FALSE

-----------------------------------------------------------------------------
(* The end of a rollout: async with releases the semaphore, and gather     *)
(* raises at the first failure or returns when all have reported.          *)
\* mutant: a rollout keeps its permit
ReleaseNever(o) == permits

Release(o) == permits + 1

Ends(r, o) ==
  /\ pc' = [pc EXCEPT ![r] = "done"]
  /\ outcome' = [outcome EXCEPT ![r] = o]
  /\ permits' = Release(o)
  /\ gather' = IF gather = "waiting" /\ o # "report" THEN "raised"
               ELSE IF gather = "waiting" /\ \A q \in Tasks \ {r} : outcome[q] = "report"
                                             /\ pc[q] = "done" THEN "returned"
               ELSE gather

Await(r, job) ==
  /\ pc' = [pc EXCEPT ![r] = job]
  /\ jobs' = [jobs EXCEPT ![r] = (@ \ {pc[r]}) \cup {job}]

JobOver(r, job) == jobs' = [jobs EXCEPT ![r] = @ \ {job}]

(* The finally of arun_agent closes the shell, with the outcome in hand.   *)
Finally(r, o) ==
  /\ Await(r, "close") /\ outcome' = [outcome EXCEPT ![r] = o]
  /\ UNCHANGED <<permits, gather>>

-----------------------------------------------------------------------------
(* start_episode: the warm world, or a new one.  The service does not know *)
(* that it was closed.                                                     *)
Acquire(r) ==
  \/ /\ warm # NoWorld /\ warm' = NoWorld
     /\ world' = [world EXCEPT ![r] = warm] /\ UNCHANGED <<worlds, booted>>
  \/ /\ warm = NoWorld
     /\ worlds' = worlds + 1 /\ booted' = booted \cup {worlds'}
     /\ world' = [world EXCEPT ![r] = worlds'] /\ UNCHANGED warm

(* The semaphore wakes its waiters in order; start_episode runs on the     *)
(* loop, and bind_run goes to a thread.                                    *)
Enter(r) ==
  /\ pc[r] = "semaphore" /\ permits > 0
  /\ \A q \in Tasks : q < r => pc[q] # "semaphore"
  /\ \/ /\ Acquire(r) /\ episode' = [episode EXCEPT ![r] = "live"]
        /\ Await(r, "bind") /\ permits' = permits - 1
        /\ UNCHANGED <<outcome, gather>>
     \/ /\ "start" \in Faults
        /\ pc' = [pc EXCEPT ![r] = "done"] /\ outcome' = [outcome EXCEPT ![r] = "error"]
        /\ gather' = IF gather = "waiting" THEN "raised" ELSE gather
        /\ UNCHANGED <<permits, jobs, episode, world, worlds, booted, warm>>
  /\ UNCHANGED <<sync, cap, turns, cancelled, closed>>

(* bind_run has made a shell; nobody takes it from a cancelled rollout.    *)
Bound(r) ==
  /\ "bind" \in jobs[r]
  /\ \/ /\ cap' = [cap EXCEPT ![r] = "open"]
        /\ \/ pc[r] = "bind" /\ Await(r, "sample")
           \/ pc[r] # "bind" /\ JobOver(r, "bind") /\ UNCHANGED pc
        /\ UNCHANGED <<outcome, permits, gather>>
     \/ /\ "bind" \in Faults /\ JobOver(r, "bind") /\ UNCHANGED cap
        /\ \/ pc[r] = "bind" /\ Ends(r, "error")
           \/ pc[r] # "bind" /\ UNCHANGED <<pc, outcome, permits, gather>>
  /\ UNCHANGED <<sync, turns, cancelled, service>>

(* stop_episode: the episode is graded and its world goes to the warm      *)
(* slot, whatever that held.                                               *)
StopEpisode(r) ==
  /\ episode' = [episode EXCEPT ![r] = "graded"]
  /\ warm' = world[r]
  /\ UNCHANGED <<world, worlds, booted, closed>>

(* record_turn and what follows it: after the last turn the episode is     *)
(* stopped and rewarded.  A killed episode is unknown to the service and   *)
(* raises.                                                                 *)
Recorded(r, last) ==
  \/ /\ episode[r] = "live" /\ last
     /\ StopEpisode(r) /\ (Finally(r, "report") \/ ("reward" \in Faults /\ Finally(r, "error")))
  \/ /\ episode[r] = "live" /\ ~last
     /\ Await(r, "sample") /\ UNCHANGED <<outcome, permits, gather, service>>
  \/ /\ episode[r] # "live"
     /\ Finally(r, "error") /\ UNCHANGED service

\* mutant: the shell's output is not awaited
ActUnawaited(r) ==
  /\ pc' = pc /\ jobs' = [jobs EXCEPT ![r] = @ \cup {"shell"}]
  /\ UNCHANGED <<outcome, permits, gather, service, turns>>

Act(r) == Await(r, "shell") /\ UNCHANGED <<outcome, permits, gather, service, turns>>

(* The sampler answered: finish, or a shell command.                       *)
Sampled(r) ==
  /\ "sample" \in jobs[r]
  /\ \/ /\ pc[r] = "sample"
        /\ \/ turns' = [turns EXCEPT ![r] = @ + 1] /\ Recorded(r, TRUE)
           \/ Act(r)
           \/ /\ "sample" \in Faults
              /\ Finally(r, "error") /\ UNCHANGED <<service, turns>>
     \/ /\ pc[r] # "sample" /\ JobOver(r, "sample")
        /\ UNCHANGED <<pc, outcome, permits, gather, service, turns>>
  /\ UNCHANGED <<sync, cap, cancelled>>

ShellOver(r) ==
  /\ "shell" \in jobs[r]
  /\ \/ /\ pc[r] = "shell"
        /\ \/ turns' = [turns EXCEPT ![r] = @ + 1] /\ Recorded(r, turns'[r] = MaxTurns)
           \/ /\ "shell" \in Faults
              /\ Finally(r, "error") /\ UNCHANGED <<service, turns>>
     \/ /\ pc[r] # "shell" /\ JobOver(r, "shell")
        /\ UNCHANGED <<pc, outcome, permits, gather, service, turns>>
  /\ UNCHANGED <<sync, cap, cancelled>>

(* The shell is closed.  What close() raises takes the place of the report *)
(* and leaves the shell to the sweep at exit; of a cancelled rollout       *)
(* nobody asks how it ended.                                               *)
Closed(r) ==
  /\ "close" \in jobs[r]
  /\ JobOver(r, "close")
  /\ \E raised \in {FALSE, "close" \in Faults} :
       /\ cap' = [cap EXCEPT ![r] = IF raised THEN "stuck" ELSE "closed"]
       /\ \/ pc[r] = "close" /\ Ends(r, IF raised /\ ~cancelled THEN "error" ELSE outcome[r])
          \/ pc[r] # "close" /\ UNCHANGED <<pc, outcome, permits, gather>>
  /\ UNCHANGED <<sync, turns, cancelled, service>>

-----------------------------------------------------------------------------
(* asyncio.run cancels the rollouts that are left.  One that has a shell   *)
(* closes it in its finally; one in bind_run is not in the try yet; one    *)
(* that is closing leaves its thread behind.                               *)
CancelRest ==
  /\ gather # "waiting" /\ ~cancelled /\ (sync \/ closed)
  /\ cancelled' = TRUE
  /\ LET left   == {r \in Tasks : pc[r] # "done"}
         inTry  == {r \in left : pc[r] \in {"sample", "shell"}}
     IN /\ pc' = [r \in Tasks |-> IF r \in inTry THEN "close" ELSE "done"]
        /\ jobs' = [r \in Tasks |-> jobs[r] \cup (IF r \in inTry THEN {"close"} ELSE {})]
        /\ outcome' = [r \in Tasks |-> IF r \in left THEN "cancelled" ELSE outcome[r]]
        /\ permits' = permits + Cardinality({r \in left \ inTry : pc[r] # "semaphore"})
  /\ UNCHANGED <<sync, cap, turns, gather, service>>

(* The caller closes the service: run_rollouts has returned to it when all *)
(* rollouts and the threads of the loop's executor are over.               *)
ReleaseWorlds ==
  booted' = booted \ ({world[r] : r \in {q \in Tasks : episode[q] = "live"}} \cup {warm})

CloseService ==
  /\ gather # "waiting" /\ ~closed /\ closed' = TRUE
  /\ sync => cancelled /\ \A r \in Tasks : pc[r] = "done" /\ jobs[r] = {}
  /\ ReleaseWorlds
  /\ episode' = [r \in Tasks |-> IF episode[r] = "live" THEN "killed" ELSE episode[r]]
  /\ warm' = NoWorld
  /\ UNCHANGED <<tasks, world, worlds>>

Over == /\ closed /\ cancelled /\ \A r \in Tasks : pc[r] = "done" /\ jobs[r] = {}
        /\ UNCHANGED vars

Step(r) == Enter(r) \/ Bound(r) \/ Sampled(r) \/ ShellOver(r) \/ Closed(r)

Next == (\E r \in Tasks : Step(r)) \/ CancelRest \/ CloseService \/ Over

(* The loop runs what is ready, and what a thread does ends: bind, shell   *)
(* and close have timeouts, the sampler its client's.                      *)
Spec == Init /\ [][Next]_vars
FairSpec == Spec /\ WF_vars(CancelRest) /\ WF_vars(CloseService)
                 /\ \A r \in Tasks : WF_vars(Step(r))

-----------------------------------------------------------------------------
Live == {r \in Tasks : episode[r] = "live"}

(* Types, and the account of the semaphore: every permit is free or with a *)
(* rollout that is under way.                                              *)
TypeOK ==
  /\ sync \in BOOLEAN /\ cancelled \in BOOLEAN /\ closed \in BOOLEAN
  /\ pc \in [Tasks -> Awaits]           /\ outcome \in [Tasks -> Outcomes]
  /\ jobs \in [Tasks -> SUBSET (Awaits \ {"semaphore", "done"})]
  /\ cap \in [Tasks -> {"none", "open", "closed", "stuck"}]
  /\ turns \in [Tasks -> 0 .. MaxTurns]
  /\ episode \in [Tasks -> {"none", "live", "graded", "killed"}]
  /\ worlds \in 0 .. Rollouts           /\ world \in [Tasks -> 0 .. worlds]
  /\ booted \subseteq 1 .. worlds       /\ warm \in booted \cup {NoWorld}
  /\ gather \in {"waiting", "returned", "raised"}
  /\ permits \in Nat
  /\ permits + Cardinality({r \in Tasks : pc[r] \notin {"semaphore", "done"}})
       = IF sync THEN 1 ELSE MaxConcurrency

(* A shell acts in the world of its own episode and before that is graded: *)
(* although a cancelled rollout leaves its command running in a thread, no *)
(* world is graded, or given to another episode, under a running command;  *)
(* and a rollout that comes to its end by itself leaves no shell that it   *)
(* did not try to close.                                                   *)
ShellsStayHome ==
  \A r \in Tasks :
    /\ "shell" \in jobs[r] =>
         /\ episode[r] # "graded"
         /\ \A q \in Live \ {r} : world[q] # world[r]
         /\ world[r] # warm
    /\ pc[r] = "done" /\ outcome[r] \in {"report", "error"} => cap[r] # "open"

(* The caller gets its reports or an exception: no rollout waits for a     *)
(* permit, or for a thread, for good.                                      *)
GatherSettles == gather = "waiting" ~> gather # "waiting"
=============================================================================
