--------------------------- MODULE EpisodeService ---------------------------
(***************************************************************************)
(* The episode service (core/episode.py): it owns the running worlds of    *)
(* one pack.  Every episode drives one booted runtime; a runtime whose     *)
(* world is safe to reuse is kept booted in a bounded LRU ("warm") when    *)
(* its episode ends and handed to the next episode on the same snapshot.   *)
(*                                                                         *)
(* The service is called from one event-loop thread and none of its        *)
(* methods awaits, so a whole call is one step; the calls of concurrent    *)
(* callers interleave in any order.  What may go wrong inside a call is in *)
(* Faults: the points at which the pack or the dashboard may raise.        *)
(*                                                                         *)
(* A snapshot is its id, a runtime is an identity, and a world's content   *)
(* is the set of episodes whose actions it still shows: what the           *)
(* properties have to tell apart.                                          *)
(***************************************************************************)
EXTENDS Integers, FiniteSets, Sequences, SequencesExt

CONSTANTS EpisodeIds,     \* the handles start_episode may draw (uuid4: never twice)
          Snapshots,
          Poolable,       \* snapshots whose runtimes answer poolable() with True
          Runtimes,       \* identities for the worlds pack.realize boots
          WarmCapacity,
          MaxCheckpoints, \* bound: checkpoints the callers hold at a time
          Faults,         \* the calls that may raise, a subset of FaultPoints
          None            \* no runtime, no snapshot

FaultPoints == {"boot",           \* realize(), reset() or the first surface()
                "reset_episode",  \* a warm world is no longer usable
                "start",          \* recording, or an NPC manifest error, once registered
                "collect",        \* collect() or the grader
                "stop",           \* runtime.stop()
                "record",         \* dashboard.record_turn() while stopping
                "restore",        \* runtime.restore()
                "surface"}        \* surface() after a restore

ASSUME PoolableAssumption == Poolable \subseteq Snapshots
ASSUME CapacityAssumption == WarmCapacity \in Nat \ {0}   \* max(1, warm_capacity)
ASSUME BoundAssumption    == MaxCheckpoints \in Nat
ASSUME FaultsAssumption   == Faults \subseteq FaultPoints
ASSUME NoneAssumption     == None \notin Snapshots /\ None \notin Runtimes

VARIABLES
  episodes,     \* _episodes: the ids that have an entry
  running,      \* the _RunningEpisode object each id stands for
  handed,       \* ids whose handle reached the caller
  reports,      \* _reports
  warm,         \* _warm as a mapping: the booted runtime kept for a snapshot
  order,        \* _warm's key order, least recently used first
  checkpoints,  \* EpisodeCheckpoints the callers hold
  world,        \* the pack's runtimes and what is in their worlds
  displaced,    \* history: runtimes overwritten in their warm slot
  exited        \* the interpreter ran its exit hooks

service == <<episodes, running, handed, reports, warm, order, checkpoints>>
vars    == <<service, world, displaced, exited>>

-----------------------------------------------------------------------------
NoResult == [state |-> "none", work |-> {}]
Results  == [state: {"none", "graded", "failed"}, work: SUBSET EpisodeIds]

(* `base` is history: the work the episode inherited from a checkpoint.    *)
Entries == [snapshot: Snapshots \cup {None}, runtime: Runtimes \cup {None},
            surface: Nat, result: Results, stopped: BOOLEAN,
            base: SUBSET EpisodeIds]

Unused == [snapshot |-> None, runtime |-> None, surface |-> 0,
           result |-> NoResult, stopped |-> FALSE, base |-> {}]

(* The id of an entry that left the table: its object is garbage.          *)
Gone(e) == [Unused EXCEPT !.stopped = TRUE, !.base = running[e].base]

Checkpoints == [episode: EpisodeIds, work: SUBSET EpisodeIds]

(* A runtime as the service sees it: booted for its home snapshot, with    *)
(* the work of some episodes in it and a transport that restore() rebinds; *)
(* after stop() was called nothing of it is left.                          *)
Worlds == [state: {"unborn", "booted", "stopped"}, home: Snapshots \cup {None},
           work: SUBSET EpisodeIds, port: Nat]

Unborn    == [state |-> "unborn",  home |-> None, work |-> {}, port |-> 0]
Stopped   == [state |-> "stopped", home |-> None, work |-> {}, port |-> 0]
Booted(s) == [state |-> "booted",  home |-> s,    work |-> {}, port |-> 0]
IsBooted(r) == world[r].state = "booted"

NoRunning == [e \in EpisodeIds |-> Unused]
NoReports == [e \in EpisodeIds |-> NoResult]
NoWarm    == [s \in Snapshots |-> None]

Init ==
  /\ episodes = {} /\ handed = {} /\ checkpoints = {}
  /\ running = NoRunning /\ reports = NoReports
  /\ warm = NoWarm /\ order = <<>>
  /\ world = [r \in Runtimes |-> Unborn]
  /\ displaced = {} /\ exited = FALSE

Fails(point) == point \in Faults

(* An episode that still drives its runtime.                               *)
Drives(e) == e \in episodes /\ ~running[e].stopped

-----------------------------------------------------------------------------
(* _acquire_runtime: the warm world of the snapshot if there is one and it *)
(* can be reset, a freshly booted one otherwise; a warm world that cannot  *)
(* be reset is stopped.  Either way the slot of the snapshot is emptied.   *)
Acquirable(s, r) ==
  \/ warm[s] = r
  \/ world[r] = Unborn /\ (warm[s] = None \/ Fails("reset_episode"))

\* mutant: a warm world is handed out as its last episode left it
CleanNot(r) == world[r]

(* reset_episode() brings a warm world back to a clean state: it empties   *)
(* the request log, moves the offset and removes result.json.  The work of *)
(* an episode is here what those hold: a world that requests can write to  *)
(* is not poolable, and other files of the solver are left out.            *)
Clean(r) == [world[r] EXCEPT !.work = {}]
Acquired(s, r) == IF warm[s] = r THEN Clean(r) ELSE Booted(s)

(* The worlds once s has runtime r, in state w.                            *)
WorldsWith(s, r, w) ==
  [x \in Runtimes |-> IF x = r THEN w
                      ELSE IF x = warm[s] THEN Stopped ELSE world[x]]

(* The key order once s left the mapping (each key occurs once in it).     *)
Without(keys, s) ==
  IF \E i \in DOMAIN keys : keys[i] = s
  THEN RemoveAt(keys, CHOOSE i \in DOMAIN keys : keys[i] = s) ELSE keys

\* mutant: the warm world is looked up, not popped
TakeWarmPeek(s) == UNCHANGED <<warm, order>>

TakeWarm(s) ==
  /\ warm'  = [warm EXCEPT ![s] = None]
  /\ order' = Without(order, s)

(* The new entry of _episodes, on runtime r with its world in state w.     *)
NewEntry(s, r, w) ==
  [snapshot |-> s, runtime |-> r, surface |-> w.port,
   result |-> NoResult, stopped |-> FALSE, base |-> {}]

Fresh(e) == running[e] = Unused

(* start_episode up to the registration of the entry.                      *)
Start(s, e, r) ==
  /\ Fresh(e) /\ Acquirable(s, r)
  /\ TakeWarm(s)
  /\ UNCHANGED <<reports, checkpoints, displaced, exited>>

(* What follows the registration may raise: the entry stays, and the       *)
(* caller never learns its handle.                                         *)
StartEpisode(s, e, r) ==
  /\ ~exited /\ Start(s, e, r)
  /\ episodes' = episodes \cup {e}
  /\ running'  = [running EXCEPT ![e] = NewEntry(s, r, Acquired(s, r))]
  /\ world'    = WorldsWith(s, r, Acquired(s, r))
  /\ \/ handed' = handed \cup {e}
     \/ Fails("start") /\ handed' = handed

(* Booting or reading the surface raises: the runtime is stopped and       *)
(* nothing is registered.                                                  *)
StartEpisodeFails(s, r) ==
  /\ ~exited /\ Fails("boot") /\ Acquirable(s, r)
  /\ TakeWarm(s)
  /\ world' = WorldsWith(s, r, Stopped)
  /\ UNCHANGED <<episodes, running, handed, reports, checkpoints, displaced, exited>>

-----------------------------------------------------------------------------
(* stop_episode.  collect() then the family's check_success; a crash of    *)
(* either is a failed grade, and so is a runtime that was stopped before.  *)
\* mutant: the crash of a grader leaves a state no reader of reports expects
GradingsCrash(e) ==
  {[state |-> "graded", work |-> world[running[e].runtime].work],
   [state |-> "crashed", work |-> {}]}

Gradings(e) ==
  LET r == running[e].runtime IN
  {[state |-> "graded", work |-> world[r].work]}
    \cup IF Fails("collect") \/ ~IsBooted(r)
         THEN {[state |-> "failed", work |-> {}]} ELSE {}

\* mutant: only a grade that succeeded is kept as a report
PublishGraded(e, result) ==
  /\ reports'  = IF result.state = "graded" THEN [reports EXCEPT ![e] = result]
                                           ELSE reports
  /\ episodes' = episodes \ {e}
  /\ running'  = [running EXCEPT ![e] = Gone(e)]

(* The end of stop_episode: the entry is marked stopped, the finish is     *)
(* recorded, the report is published and the entry evicted.  A dashboard   *)
(* that raises leaves the stopped entry in the table, without a report.    *)
Graded(entry, result, done) == [entry EXCEPT !.result = result, !.stopped = done]

Publish(e, result) ==
  /\ reports'  = [reports EXCEPT ![e] = result]
  /\ episodes' = episodes \ {e}
  /\ running'  = [running EXCEPT ![e] = Gone(e)]

Finish(e, result) ==
  \/ Publish(e, result)
  \/ /\ Fails("record")
     /\ running' = [running EXCEPT ![e] = Graded(@, result, TRUE)]
     /\ UNCHANGED <<reports, episodes>>

(* _stash_warm: the runtime takes the slot of its snapshot as the most     *)
(* recently used; what no longer fits is evicted and stopped, oldest first.*)
Requeued(s) == Append(Without(order, s), s)

\* mutant: the bound is checked before the new world is counted
ExcessLate(s) == Len(Requeued(s)) - WarmCapacity - 1

Excess(s) == Len(Requeued(s)) - WarmCapacity

StashWarm(s, r) ==
  LET evicted == {Requeued(s)[i] : i \in 1 .. Excess(s)}
      stashed == [warm EXCEPT ![s] = r]
  IN /\ warm'  = [k \in Snapshots |-> IF k \in evicted THEN None ELSE stashed[k]]
     /\ order' = IF Excess(s) > 0 THEN SubSeq(Requeued(s), Excess(s) + 1, Len(Requeued(s)))
                                ELSE Requeued(s)
     /\ world' = [x \in Runtimes |->
                    IF \E k \in evicted : stashed[k] = x THEN Stopped ELSE world[x]]
     /\ displaced' = displaced \cup ({warm[s]} \ {None, r})

(* The service records what stop() raises and does not call it again.  The *)
(* world is taken to be gone even so: what a failing stop() leaves behind  *)
(* is the matter of the backings (NetworkedWorld, its exit sweep).         *)
StopRuntime(r) ==
  /\ world' = [world EXCEPT ![r] = Stopped]
  /\ UNCHANGED <<warm, order, displaced>>

(* A retry of a stop that had marked the entry stopped: only publish.      *)
Republish(e) ==
  /\ running[e].stopped /\ running[e].result # NoResult
  /\ Publish(e, running[e].result)
  /\ UNCHANGED <<warm, order, world, displaced>>

GradeAndStop(e) ==
  LET s == running[e].snapshot
      r == running[e].runtime
  IN \E result \in Gradings(e) :
       \/ s \in Poolable /\ StashWarm(s, r) /\ Finish(e, result)
       \/ s \notin Poolable /\ StopRuntime(r) /\ Finish(e, result)
       \/ /\ s \notin Poolable /\ Fails("stop") /\ Fails("record")
          /\ StopRuntime(r)
          /\ running' = [running EXCEPT ![e] = Graded(@, result, FALSE)]
          /\ UNCHANGED <<episodes, reports>>

\* mutant: no shortcut for an entry that is stopped already, it is graded again
StopEpisodeAgain(e) ==
  /\ ~exited /\ e \in handed \cap episodes
  /\ GradeAndStop(e)
  /\ UNCHANGED <<handed, checkpoints, exited>>

StopEpisode(e) ==
  /\ ~exited /\ e \in handed \cap episodes
  /\ \/ Republish(e)
     \/ Drives(e) /\ GradeAndStop(e)
  /\ UNCHANGED <<handed, checkpoints, exited>>

(* check_episode: the cached report, or stop_episode unless the entry      *)
(* already has its grade.                                                  *)
CheckEpisode(e) ==
  /\ reports[e] = NoResult /\ Drives(e)
  /\ StopEpisode(e)

-----------------------------------------------------------------------------
(* The solver works on the world it was given while its episode runs.      *)
Worked(r, e) == [world[r] EXCEPT !.work = @ \cup {e}]

SolverActs(e) ==
  /\ ~exited /\ e \in handed /\ Drives(e)
  /\ IsBooted(running[e].runtime)
  /\ world' = [world EXCEPT ![running[e].runtime] = Worked(running[e].runtime, e)]
  /\ UNCHANGED <<service, displaced, exited>>

CheckpointOf(e) == [episode |-> e, work |-> world[running[e].runtime].work]

Checkpoint(e) ==
  /\ ~exited /\ e \in handed \cap episodes
  /\ IsBooted(running[e].runtime)
  /\ Cardinality(checkpoints) < MaxCheckpoints
  /\ checkpoints' = checkpoints \cup {CheckpointOf(e)}
  /\ UNCHANGED <<episodes, running, handed, reports, warm, order, world,
                 displaced, exited>>

\* mutant: the surface read at the start of the episode is kept
RestoredEntryStale(s, r, w, c) ==
  [NewEntry(s, r, Acquired(s, r)) EXCEPT !.base = c.work]

RestoredEntry(s, r, w, c) == [NewEntry(s, r, w) EXCEPT !.base = c.work]
(* restore: a fresh episode on the snapshot of the checkpoint's origin,    *)
(* which must still be in the table, put into the checkpoint's state.  (A  *)
(* start_episode that raises inside is StartEpisode's own failure.)  If    *)
(* runtime.restore raises the new episode is stopped and removed, unless   *)
(* recording that raises too; if surface() raises, which is outside the    *)
(* try, the entry stays with its old surface and without a handle.         *)
RestoreFrom(c, e, r) ==
  LET s        == running[c.episode].snapshot
      started  == Acquired(s, r)
      restored == [started EXCEPT !.work = c.work, !.port = @ + 1]
  IN /\ c.episode \in episodes /\ Start(s, e, r)
     /\ \/ /\ episodes' = episodes \cup {e}
           /\ handed'   = handed \cup {e}
           /\ running'  = [running EXCEPT ![e] = RestoredEntry(s, r, restored, c)]
           /\ world'    = WorldsWith(s, r, restored)
        \/ /\ \/ Fails("surface") /\ world' = WorldsWith(s, r, restored)
              \/ Fails("restore") /\ Fails("record") /\ world' = WorldsWith(s, r, started)
           /\ episodes' = episodes \cup {e}
           /\ running'  = [running EXCEPT ![e] = NewEntry(s, r, started)]
           /\ UNCHANGED handed
        \/ /\ Fails("restore")
           /\ running'  = [running EXCEPT ![e] = Gone(e)]
           /\ world'    = WorldsWith(s, r, Stopped)
           /\ UNCHANGED <<episodes, handed>>

Restore(c, e, r) ==
  /\ ~exited /\ c \in checkpoints
  /\ RestoreFrom(c, e, r)

(* fork: checkpoint and restore in one call.                               *)
Fork(e0, e, r) ==
  /\ ~exited /\ e0 \in handed \cap episodes
  /\ IsBooted(running[e0].runtime)
  /\ RestoreFrom(CheckpointOf(e0), e, r)

-----------------------------------------------------------------------------
(* close() and the exit hook stop the runtime of every live episode and    *)
(* every warm one.  The service stays usable after close().                *)
Reachable(r) == \/ \E e \in EpisodeIds : Drives(e) /\ running[e].runtime = r
                \/ \E s \in Snapshots : warm[s] = r
\* mutant: the worlds kept warm are forgotten
WorldsReleasedLive ==
  [r \in Runtimes |-> IF \E e \in EpisodeIds : Drives(e) /\ running[e].runtime = r
                     THEN Stopped ELSE world[r]]

WorldsReleased ==
  [r \in Runtimes |-> IF Reachable(r) THEN Stopped ELSE world[r]]

Close ==
  /\ ~exited
  /\ world'    = WorldsReleased
  /\ running'  = [e \in EpisodeIds |->
                    IF e \in episodes THEN Gone(e) ELSE running[e]]
  /\ episodes' = {}
  /\ warm' = NoWarm /\ order' = <<>>
  /\ UNCHANGED <<handed, reports, checkpoints, displaced, exited>>

(* The exit hook runs and the process ends, and with it all its memory:    *)
(* only the worlds, which are processes of their own, could outlive it.    *)
AtExit ==
  /\ ~exited /\ exited' = TRUE
  /\ world' = WorldsReleased
  /\ episodes' = {} /\ handed' = {} /\ checkpoints' = {}
  /\ running' = NoRunning /\ reports' = NoReports
  /\ warm' = NoWarm /\ order' = <<>>
  /\ UNCHANGED displaced

Next ==
  \/ \E s \in Snapshots, e \in EpisodeIds, r \in Runtimes : StartEpisode(s, e, r)
  \/ \E s \in Snapshots, r \in Runtimes : StartEpisodeFails(s, r)
  \/ \E e \in EpisodeIds : \/ StopEpisode(e)
                            \/ CheckEpisode(e)
                            \/ SolverActs(e)
                            \/ Checkpoint(e)
  \/ \E c \in checkpoints, e \in EpisodeIds, r \in Runtimes : Restore(c, e, r)
  \/ \E e0, e \in EpisodeIds, r \in Runtimes : Fork(e0, e, r)
  \/ Close
  \/ AtExit

Spec == Init /\ [][Next]_vars

-----------------------------------------------------------------------------
(* Every variable has its type.                                            *)
TypeOK ==
  /\ episodes \subseteq EpisodeIds /\ handed \subseteq EpisodeIds
  /\ running \in [EpisodeIds -> Entries]
  /\ reports \in [EpisodeIds -> Results]
  /\ warm \in [Snapshots -> Runtimes \cup {None}]
  /\ order \in Seq(Snapshots)
  /\ checkpoints \subseteq Checkpoints
  /\ world \in [Runtimes -> Worlds]
  /\ displaced \subseteq Runtimes /\ exited \in BOOLEAN

(* One world serves one episode: two live episodes never drive the same    *)
(* runtime, and a runtime in the warm pool is driven by no live episode.   *)
(* (start_episode hands out what stop_episode put into the pool.)          *)
ExclusiveRuntime ==
  /\ \A e1, e2 \in EpisodeIds :
       Drives(e1) /\ Drives(e2) /\ running[e1].runtime = running[e2].runtime => e1 = e2
  /\ \A e \in EpisodeIds, s \in Snapshots : Drives(e) => warm[s] # running[e].runtime
  /\ \A s1, s2 \in Snapshots : warm[s1] # None /\ warm[s1] = warm[s2] => s1 = s2

(* The pool holds at most its capacity of worlds, each still booted, safe  *)
(* to reuse, and booted for the very snapshot it is kept under; the LRU    *)
(* order lists exactly the occupied slots.                                 *)
WarmPoolSound ==
  /\ Len(order) <= WarmCapacity
  /\ ToSet(order) = {s \in Snapshots : warm[s] # None} /\ IsInjective(order)
  /\ \A s \in Snapshots : warm[s] # None =>
       s \in Poolable /\ IsBooted(warm[s]) /\ world[warm[s]].home = s

(* Every booted world can still be stopped by close() or the exit hook, be *)
(* it after any failure of the pack or the dashboard: the only way one     *)
(* falls out of reach is to be overwritten in its warm slot.               *)
Kept(r) == Reachable(r) \/ r \in displaced
BootedIsKept == \A r \in Runtimes : IsBooted(r) => Kept(r)

(* The same with no exception, as close() and the comment on the exit hook *)
(* promise it.                                                             *)
NoRuntimeLeaks == \A r \in Runtimes : IsBooted(r) => Reachable(r)

(* A report grades the episode's own work, and what it inherited through   *)
(* the checkpoint it was restored from: nothing an earlier episode left in *)
(* a warm world is counted.                                                *)
NoCarryOver ==
  \A e \in EpisodeIds : reports[e].work \subseteq running[e].base \cup {e}

(* A live episode's cached surface is the one its runtime serves on, also  *)
(* after a restore rebound it.                                             *)
SurfaceCurrent ==
  \A e \in handed : Drives(e) /\ IsBooted(running[e].runtime) =>
    running[e].surface = world[running[e].runtime].port

(* A grade, once the episode counts as stopped, is the one its report      *)
(* publishes, and a published report is never revised, whatever is retried,*)
(* closed or fails in between.                                             *)
GradesKept ==
  exited' \/ \A e \in EpisodeIds :
    /\ e \in episodes /\ running[e].stopped =>
         /\ e \in episodes' => running'[e].result = running[e].result
         /\ reports'[e] \in {NoResult, running[e].result}
    /\ reports[e] # NoResult => reports'[e] = reports[e]

GradeIsFinal == [][GradesKept]_vars

(* An episode whose handle was returned leaves the table only with its     *)
(* report published; close() is the one exception.                         *)
LeftReported ==
  \A e \in handed :
    e \in episodes /\ e \notin episodes' => reports'[e] # NoResult \/ Close \/ AtExit

LeavesAReport == [][LeftReported]_vars
=============================================================================
