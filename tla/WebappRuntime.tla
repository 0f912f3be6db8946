--------------------------- MODULE WebappRuntime ---------------------------
(***************************************************************************)
(* The worlds of the webapp pack: SubprocessRuntime of the pack SDK        *)
(* (_runtime.py: tempdirs, the child process and its startup handshake,    *)
(* checkpoints of the solver's directory) with the request log of          *)
(* _WebappRuntime (realize.py: events by offset, reset for reuse), driven  *)
(* the way the episode service drives a runtime.                           *)
(*                                                                         *)
(* The child runs beside the harness.  A call of the harness is one step   *)
(* but reset(), which waits for the child's first line of output, and      *)
(* restore(), which begins with a reset().  The request log is a sequence  *)
(* of lines and a line is the number of the episode its request was made   *)
(* in.                                                                     *)
(***************************************************************************)
EXTENDS Integers, FiniteSets, Sequences

CONSTANTS Runtimes,
          Dirs,          \* the names mkdtemp may give a checkpoint
          Files,         \* what a solver may leave in its directory
          Outputs,       \* what the child may do before its first full line
          Container,     \* TRUE: docker container, FALSE: local process
          MaxRequests,   \* bound: requests served per boot
          MaxEpisodes,   \* bound: episodes on one runtime
          None

(* line: the startup line; junk: a line that is none; eof: it exits; part: *)
(* some output and no newline yet, and the rest of the line, or the exit,  *)
(* may follow.  (A silent child does none of these.)                       *)
ASSUME OutputsAssumption == Outputs \subseteq {"line", "junk", "eof", "part"}
ASSUME ContainerAssumption == Container \in BOOLEAN
ASSUME RequestsAssumption == MaxRequests \in Nat /\ MaxEpisodes \in Nat \ {0}

VARIABLES
  life,        \* what the episode service did with the runtime last
  calls,       \* the call in progress, and the checkpoint it restores
  child,       \* self._process: the child it started and how that fares
  info,        \* _startup_info has the base URL
  files,       \* the solver's directory, None while there is no env_root
  log, offset, \* the request log, and _log_offset
  inflight,    \* the episode of a request whose line is not written yet, or 0
  episode,     \* which of the episodes on this runtime runs
  owned,       \* _checkpoint_dirs
  disk,        \* the checkpoint directories that exist, and their content
  held,        \* checkpoint payloads the callers hold
  seen         \* history: the lines of the log that were returned as events

vars == <<life, calls, child, info, files, log, offset, inflight, episode,
          owned, disk, held, seen>>

Lives == {"new", "open", "forked", "failed", "stopped"}   \* forked: open, and restored
\* cut: it exited within its first line
Children == {"none", "silent", "line", "junk", "part", "cut", "serving", "dead"}
Payloads == [origin: Runtimes, dir: Dirs, offset: Nat]
NoCall == [op |-> "none"]
BootCall == [op |-> "reset"]
RestoreCall(c) == [op |-> "restore", from |-> c]

Init ==
  /\ life = [r \in Runtimes |-> "new"]    /\ calls = [r \in Runtimes |-> NoCall]
  /\ child = [r \in Runtimes |-> "none"]  /\ info = [r \in Runtimes |-> FALSE]
  /\ files = [r \in Runtimes |-> None]    /\ log = [r \in Runtimes |-> <<>>]
  /\ offset = [r \in Runtimes |-> 0]      /\ inflight = [r \in Runtimes |-> 0]
  /\ episode = [r \in Runtimes |-> 1]     /\ owned = [r \in Runtimes |-> {}]
  /\ disk = [d \in {} |-> {}]             /\ held = {}
  /\ seen = [r \in Runtimes |-> {}]

Open(r) == life[r] \in {"open", "forked"}
Idle(r) == Open(r) /\ calls[r] = NoCall

-----------------------------------------------------------------------------
\* _init_env: new directories, and with them an empty log
InitEnv(r) ==
  /\ files' = [files EXCEPT ![r] = {}]
  /\ log'   = [log EXCEPT ![r] = <<>>]

(* reset: the old child and directories go, new ones come, and the call    *)
(* waits for the child.  The child may fail to start: its environment      *)
(* stays for stop() to remove.                                             *)
Reset(r, call) ==
  /\ info'  = [info EXCEPT ![r] = FALSE]
  /\ InitEnv(r)
  /\ seen'  = [seen EXCEPT ![r] = {}]
  /\ inflight' = [inflight EXCEPT ![r] = 0]
  /\ \/ /\ child' = [child EXCEPT ![r] = "silent"]
        /\ calls' = [calls EXCEPT ![r] = call]
        /\ UNCHANGED life
     \/ /\ child' = [child EXCEPT ![r] = "none"]
        /\ life'  = [life EXCEPT ![r] = "failed"]
        /\ calls' = [calls EXCEPT ![r] = NoCall]
  /\ UNCHANGED <<offset, episode, owned, disk, held>>

Boot(r) == life[r] = "new" /\ calls[r] = NoCall /\ Reset(r, BootCall)

(* What the child does before its first line is out.                       *)
Starts(r, output) ==
  /\ \/ child[r] = "silent" /\ child' = [child EXCEPT ![r] = IF output = "eof" THEN "dead" ELSE output]
     \/ /\ child[r] = "part" /\ output # "part"
        /\ child' = [child EXCEPT ![r] = IF output = "eof" THEN "cut" ELSE output]
  /\ output \in Outputs
  /\ UNCHANGED <<life, calls, info, files, log, offset, inflight, episode,
                 owned, disk, held, seen>>

(* The call raises: the service stops the runtime next.                    *)
Raise(r) ==
  /\ life'  = [life EXCEPT ![r] = "failed"]
  /\ calls' = [calls EXCEPT ![r] = NoCall]
  /\ UNCHANGED <<info, files, log, offset, inflight, episode, owned, disk, held, seen>>

(* The tail of restore, after its reset: the solver's directory becomes a  *)
(* copy of the checkpoint's and the offset the one it was taken at, or the *)
(* checkpoint has gone with the runtime it was taken of.                   *)
RestoreFiles(r, c, told) ==
  \/ /\ c.dir \in DOMAIN disk
     /\ files'  = [files EXCEPT ![r] = disk[c.dir]]
     /\ offset' = [offset EXCEPT ![r] = c.offset]
     /\ life'   = [life EXCEPT ![r] = "forked"]
  \/ /\ c.dir \notin DOMAIN disk
     /\ offset' = [offset EXCEPT ![r] = IF told THEN 0 ELSE @]
     /\ life'   = [life EXCEPT ![r] = "failed"]
     /\ UNCHANGED files

(* parse_startup and the return of reset().                                *)
Booted(r, told) ==
  /\ info'  = [info EXCEPT ![r] = told]
  /\ calls' = [calls EXCEPT ![r] = NoCall]
  /\ \/ /\ calls[r].op = "reset"
        /\ offset' = [offset EXCEPT ![r] = IF told THEN 0 ELSE @]
        /\ UNCHANGED files
        /\ life' = [life EXCEPT ![r] = "open"]
     \/ calls[r].op = "restore" /\ RestoreFiles(r, calls[r].from, told)
  /\ UNCHANGED <<log, inflight, episode, owned, disk, held, seen>>

(* parse_startup: a local process must have printed its address, and a     *)
(* last line it did not end may be that.  Of a container's line nothing is *)
(* read: docker is asked for the port, and may know none.                  *)
Parses(r) == Container \/ child[r] # "junk"
ParseRaises(r) == Container \/ child[r] # "line"

(* _readline_with_timeout: a line was read, what there is of one at the    *)
(* end of the output, or nothing.                                          *)
Handshake(r) ==
  /\ calls[r] # NoCall
  /\ \/ /\ child[r] \in {"line", "junk", "cut"} /\ Parses(r)
        /\ child' = [child EXCEPT ![r] = IF @ = "cut" THEN "dead" ELSE "serving"]
        /\ Booted(r, TRUE)
     \/ /\ child[r] \in {"line", "junk", "cut"} /\ ParseRaises(r)
        /\ Raise(r) /\ UNCHANGED child
     \/ child[r] = "dead" /\ Booted(r, FALSE) /\ UNCHANGED child

(* STARTUP_TIMEOUT_SECONDS passed and select() saw nothing to read.  Once  *)
(* there is some output the code is in readline(), which has no timeout.   *)
\* mutant: the deadline is not passed to select()
NeverTimesOut(r) == FALSE

TimesOut(r) == child[r] = "silent"

HandshakeTimeout(r) ==
  /\ calls[r] # NoCall /\ TimesOut(r)
  /\ Raise(r) /\ UNCHANGED child

-----------------------------------------------------------------------------
(* The child serves a request, and the line is appended before it answers; *)
(* the solver may have given up on it and its episode be over by then.     *)
Request(r) ==
  /\ child[r] = "serving" /\ Open(r) /\ inflight[r] = 0
  /\ Len(log[r]) < MaxRequests
  /\ inflight' = [inflight EXCEPT ![r] = episode[r]]
  /\ UNCHANGED <<life, calls, child, info, files, log, offset, episode,
                 owned, disk, held, seen>>

LogAccess(r) ==
  /\ child[r] = "serving" /\ inflight[r] # 0
  /\ log' = [log EXCEPT ![r] = Append(@, inflight[r])]
  /\ inflight' = [inflight EXCEPT ![r] = 0]
  /\ UNCHANGED <<life, calls, child, info, files, offset, episode,
                 owned, disk, held, seen>>

Dies(r) ==
  /\ child[r] = "serving"
  /\ child' = [child EXCEPT ![r] = "dead"]
  /\ inflight' = [inflight EXCEPT ![r] = 0]
  /\ UNCHANGED <<life, calls, info, files, log, offset, episode, owned, disk,
                 held, seen>>

SolverWrites(r, f) ==
  /\ Idle(r) /\ f \notin files[r]
  /\ files' = [files EXCEPT ![r] = @ \cup {f}]
  /\ UNCHANGED <<life, calls, child, info, log, offset, inflight, episode,
                 owned, disk, held, seen>>

-----------------------------------------------------------------------------
(* The bytes poll_events reads: a container's log goes with the container. *)
Readable(r) == IF Container /\ child[r] # "serving" THEN <<>> ELSE log[r]

\* mutant: a line that is still being written is consumed with the others
ConsumedPartial(r) == Len(Readable(r)) + (IF inflight[r] # 0 THEN 1 ELSE 0)

Consumed(r) == Len(Readable(r))   \* up to the last newline

PollEvents(r) ==
  /\ Idle(r) /\ Consumed(r) > offset[r]
  /\ offset' = [offset EXCEPT ![r] = Consumed(r)]
  /\ seen'   = [seen EXCEPT ![r] = @ \cup (offset[r] + 1 .. Len(Readable(r)))]
  /\ UNCHANGED <<life, calls, child, info, files, log, inflight, episode,
                 owned, disk, held>>

(* checkpoint: a copy of the solver's directory in a tempdir of its own.   *)
(* The copy may fail, and the tempdir is then there and not recorded.      *)
Checkpoint(r, d) ==
  /\ Idle(r) /\ d \notin DOMAIN disk /\ \A c \in held : c.dir # d
  /\ \E copied \in BOOLEAN :
       /\ disk'  = [x \in DOMAIN disk \cup {d} |->
                     IF x # d THEN disk[x] ELSE IF copied THEN files[r] ELSE {}]
       /\ owned' = [owned EXCEPT ![r] = IF copied THEN @ \cup {d} ELSE @]
       /\ held'  = held \cup (IF copied THEN {[origin |-> r, dir |-> d, offset |-> offset[r]]}
                              ELSE {})
  /\ UNCHANGED <<life, calls, child, info, files, log, offset, inflight, episode, seen>>

(* restore: of any payload a caller holds, on a runtime booted for it, as  *)
(* the episode service does, its one caller.                               *)
Restore(r, c) ==
  /\ Idle(r) /\ life[r] = "open" /\ files[r] = {} /\ owned[r] = {} /\ episode[r] = 1
  /\ c \in held
  /\ Reset(r, RestoreCall(c))

(* reset_episode of a warm world: the log is emptied and the result        *)
(* removed.  A container that is gone raises, and the service stops it.    *)
Rewound(r) == [offset EXCEPT ![r] = 0]

Reusable(r) == ~(Container /\ child[r] # "serving")

ResetEpisode(r) ==
  /\ Idle(r) /\ episode[r] < MaxEpisodes
  /\ \/ /\ Reusable(r)
        /\ life'  = [life EXCEPT ![r] = "open"]
        /\ log'   = [log EXCEPT ![r] = <<>>]
        /\ files' = [files EXCEPT ![r] = @ \ {"result"}]
        /\ offset' = Rewound(r)
        /\ seen'  = [seen EXCEPT ![r] = {}]
        /\ episode' = [episode EXCEPT ![r] = @ + 1]
        /\ UNCHANGED <<calls, info, inflight, owned, disk, held>>
     \/ ~Reusable(r) /\ Raise(r)
  /\ UNCHANGED child

(* stop: the child, the environment and every checkpoint it took go.       *)
\* mutant: the checkpoints stay on disk
DropNone(r) == UNCHANGED disk

DropCheckpoints(r) == disk' = [d \in DOMAIN disk \ owned[r] |-> disk[d]]

TeardownEnv(r) == files' = [files EXCEPT ![r] = None]

\* _terminate_process_group: SIGTERM, the grace period, SIGKILL; the child is
\* gone, and its request with it
Terminate(r) ==
  /\ child' = [child EXCEPT ![r] = "none"]
  /\ inflight' = [inflight EXCEPT ![r] = 0]

Stop(r) ==
  /\ life[r] \in {"open", "forked", "failed"} /\ calls[r] = NoCall
  /\ life'  = [life EXCEPT ![r] = "stopped"]
  /\ Terminate(r)
  /\ info'  = [info EXCEPT ![r] = FALSE]
  /\ TeardownEnv(r)
  /\ log'   = [log EXCEPT ![r] = <<>>]
  /\ seen'  = [seen EXCEPT ![r] = {}]
  /\ owned' = [owned EXCEPT ![r] = {}]
  /\ DropCheckpoints(r)
  /\ UNCHANGED <<calls, offset, episode, held>>

Step(r) ==
  \/ Boot(r) \/ Handshake(r) \/ HandshakeTimeout(r)
  \/ \E output \in Outputs : Starts(r, output)
  \/ Request(r) \/ LogAccess(r) \/ Dies(r)
  \/ \E f \in Files : SolverWrites(r, f)
  \/ PollEvents(r) \/ ResetEpisode(r) \/ Stop(r)
  \/ \E d \in Dirs : Checkpoint(r, d)
  \/ \E c \in held : Restore(r, c)

Next == \E r \in Runtimes : Step(r)

(* The harness gets on with a call it made, and its clock runs; nothing is *)
(* assumed of the child.                                                   *)
Fairness == \A r \in Runtimes : WF_vars(Handshake(r)) /\ WF_vars(HandshakeTimeout(r))

Spec == Init /\ [][Next]_vars
FairSpec == Spec /\ Fairness

-----------------------------------------------------------------------------
(* Types, and: the solver's directory exists from the first reset() to     *)
(* stop(), however badly the boot went.                                    *)
TypeOK ==
  /\ life \in [Runtimes -> Lives]         /\ child \in [Runtimes -> Children]
  /\ info \in [Runtimes -> BOOLEAN]       /\ offset \in [Runtimes -> Nat]
  /\ inflight \in [Runtimes -> 0 .. MaxEpisodes]
  /\ episode \in [Runtimes -> 1 .. MaxEpisodes]
  /\ log \in [Runtimes -> Seq(1 .. MaxEpisodes)]
  /\ owned \in [Runtimes -> SUBSET Dirs]  /\ held \subseteq Payloads
  /\ DOMAIN disk \subseteq Dirs
  /\ seen \in [Runtimes -> SUBSET Nat]
  /\ calls \in [Runtimes -> {NoCall, BootCall} \cup {RestoreCall(c) : c \in held}]
  /\ \A r \in Runtimes :
       IF life[r] = "stopped" \/ (life[r] = "new" /\ calls[r] = NoCall)
       THEN files[r] = None ELSE files[r] \subseteq Files

(* No event is skipped, one poll after another: what poll_events has       *)
(* passed by in the log of a booted world it has also returned.  The byte  *)
(* offset is moved by polls, reset(), restore() and reset_episode(), and   *)
(* the child empties or extends the log by itself.  A world that restore() *)
(* has made is left out: it takes the offset of a log it does not have.    *)
Returned(r) == Idle(r) => \A i \in DOMAIN log[r] : i <= offset[r] => i \in seen[r]

NoEventSkipped == \A r \in Runtimes : life[r] = "open" => Returned(r)

(* A checkpoint can be restored as long as the runtime that took it is not *)
(* stopped, whatever is reset, and its directory goes with that runtime.   *)
CheckpointsLive ==
  \A c \in held : c.dir \in DOMAIN disk <=> life[c.origin] # "stopped"

(* The startup handshake is bounded: every reset(), and the reset() inside *)
(* a restore(), returns or raises.  The exception is a child that has      *)
(* written a part of a line: readline() waits for the rest without limit,  *)
(* and the call hangs with it.                                             *)
CallsReturn ==
  \A r \in Runtimes : calls[r] # NoCall ~> (calls[r] = NoCall \/ child[r] = "part")
=============================================================================
