--------------------------- MODULE OnDemandRuntime ---------------------------
(* The worlds of the trading and the SWE pack: OnDemandRuntime of the pack *)
(* SDK.  Solver directory, checkpoints and stop() are those of             *)
(* _FilesystemRuntime, as in WebappRuntime; there is no child to wait for, *)
(* no request log and no reset_episode, so that the service never reuses   *)
(* such a world.  The files of the pack (bars.json, the base tree) are     *)
(* written by each reset() and left out: Files is what the solver adds.    *)
EXTENDS WebappRuntime

childVars == <<calls, child, info, log, offset, inflight, episode, seen>>

(* reset: new directories, and the pack's files in them.  What is there    *)
(* when mkdir or a write raises is stop()'s to remove.                     *)
OnDemandBoot(r) ==
  /\ life[r] = "new"
  /\ files' = [files EXCEPT ![r] = {}]
  /\ \E booted \in {"open", "failed"} : life' = [life EXCEPT ![r] = booted]
  /\ UNCHANGED <<childVars, owned, disk, held>>

(* restore: the solver's directory is emptied, without a reset(), and the  *)
(* checkpoint copied into it.                                              *)
OnDemandRestore(r, c) ==
  /\ Idle(r) /\ life[r] = "open" /\ files[r] = {} /\ owned[r] = {}
  /\ c \in held
  /\ \/ c.dir \in DOMAIN disk /\ life' = [life EXCEPT ![r] = "forked"]
        /\ files' = [files EXCEPT ![r] = disk[c.dir]]
     \/ c.dir \notin DOMAIN disk /\ life' = [life EXCEPT ![r] = "failed"]
        /\ UNCHANGED files
  /\ UNCHANGED <<childVars, owned, disk, held>>

OnDemandStop(r) ==
  /\ life[r] \in {"open", "forked", "failed"}
  /\ life' = [life EXCEPT ![r] = "stopped"]
  /\ TeardownEnv(r)
  /\ owned' = [owned EXCEPT ![r] = {}]
  /\ DropCheckpoints(r)
  /\ UNCHANGED <<childVars, held>>

OnDemandNext ==
  \E r \in Runtimes :
    \/ OnDemandBoot(r) \/ OnDemandStop(r)
    \/ \E c \in held : OnDemandRestore(r, c)
    \/ \E f \in Files : SolverWrites(r, f)
    \/ \E d \in Dirs : Checkpoint(r, d)
=============================================================================
