----------------------------- MODULE Dashboard -----------------------------
(***************************************************************************)
(* The event feed of the dashboard (openrange/dashboard).  The threads of  *)
(* a run record events on its DashboardView: under the view's lock an      *)
(* event goes to the bridge, to the event log and into the state file.     *)
(* The dashboard server is another process: its view loads the log, writes *)
(* the state file too, and then tails the log.  Every SSE client reads one *)
(* of the two bridges.                                                     *)
(*                                                                         *)
(* An event is the number in its id.  The log is measured in half lines,   *)
(* for a reader can meet a line that is half written.                      *)
(***************************************************************************)
EXTENDS Integers, Sequences, FiniteSets

CONSTANTS Recorders,      \* the threads that call record_event
          RunClients,     \* SSE clients of the run's own server
          ReaderClients,  \* SSE clients of the dashboard process
          BufferSize,     \* max_buffer of a bridge
          History,        \* the events in the log when the view is made
          MaxEvents       \* bound of the model: events recorded

ASSUME BoundsAssumption == BufferSize \in Nat \ {0} /\ History \in Nat /\ MaxEvents \in Nat
ASSUME ClientsAssumption == RunClients \cap ReaderClients = {}

Reader  == "reader"
Run     == "run"
Free    == "free"
End     == 0                        \* the sentinel close() sends
Bridges == {Run, Reader}
Clients == RunClients \cup ReaderClients
Writers == Recorders \cup {Reader}

ASSUME NamesAssumption == {Free, Reader, Run} \cap Recorders = {}

VARIABLES
  lock,     \* the recorder that holds the lock of the run's view
  count,    \* its _event_count
  at,       \* where each recorder, and the reader's view, is
  pushed,   \* all that each bridge was given, in order; its buffer is the end of it
  toput,    \* the subscribers push() has still to serve
  log,      \* the whole lines of dashboard.events.jsonl
  half,     \* half a line follows them
  tmp,      \* dashboard.json.tmp exists
  offset,   \* of the reader's tail
  batch,    \* the events the tail has read and not yet pushed
  closed,   \* bridges that were closed
  mode,     \* "off", "on" (subscribed), "late" (after close) or "ended", for each client
  queue,    \* what a subscriber has not yet consumed, its backlog first
  got       \* what it has sent to its client

bridge == <<pushed, toput>>
files  == <<log, half, tmp>>
tail   == <<offset, batch>>
feed   == <<mode, queue, got>>
vars   == <<lock, count, at, bridge, files, tail, closed, feed>>

BridgeOf(c) == IF c \in RunClients THEN Run ELSE Reader
Lesser(a, b) == IF a <= b THEN a ELSE b
LastOf(s) == s[Len(s)]

Size == 2 * Len(log) + IF half THEN 1 ELSE 0

-----------------------------------------------------------------------------
(* The run's view loads the events the artifact log has recorded, and      *)
(* counts on from what its buffer holds.                                   *)
Init ==
  /\ log = [i \in 1 .. History |-> i] /\ half = FALSE /\ tmp = FALSE
  /\ pushed = [b \in Bridges |-> IF b = Run THEN log ELSE <<>>]
  /\ toput = [b \in Bridges |-> {}]
  /\ count = Lesser(History, BufferSize)
  /\ lock = Free /\ at = [w \in Writers |-> "idle"]
  /\ offset = 0 /\ batch = <<>>
  /\ closed = {}
  /\ mode = [c \in Clients |-> "off"]
  /\ queue = [c \in Clients |-> <<>>] /\ got = [c \in Clients |-> <<>>]

(* EventBridge.push, in two halves: the append and the copy of the list of *)
(* subscribers under the bridge's lock, then a put for each of them.       *)
Listening(c) == mode[c] \in {"on", "late"}

Listeners(b) == {c \in Clients : BridgeOf(c) = b /\ Listening(c)}

Announce(b, e) ==
  /\ pushed' = [pushed EXCEPT ![b] = Append(@, e)]
  /\ toput'  = [toput EXCEPT ![b] = Listeners(b)]

Put(b, c) ==
  /\ c \in toput[b]
  /\ toput' = [toput EXCEPT ![b] = @ \ {c}]
  /\ queue' = [queue EXCEPT ![c] = Append(@, LastOf(pushed[b]))]
  /\ UNCHANGED <<lock, count, at, pushed, files, tail, closed, mode, got>>

-----------------------------------------------------------------------------
(* DashboardView.record_event.                                             *)
\* mutant: without the lock
MintUnlocked(r) ==
  /\ at[r] = "idle" /\ count < History + MaxEvents
  /\ lock' = r /\ count' = count + 1
  /\ at' = [at EXCEPT ![r] = "push"]
  /\ UNCHANGED <<bridge, files, tail, closed, feed>>

Mint(r) ==
  /\ at[r] = "idle" /\ lock = Free /\ count < History + MaxEvents
  /\ lock' = r /\ count' = count + 1
  /\ at' = [at EXCEPT ![r] = "push"]
  /\ UNCHANGED <<bridge, files, tail, closed, feed>>

PushEvent(r) ==
  /\ at[r] = "push"
  /\ Announce(Run, count)
  /\ at' = [at EXCEPT ![r] = "put"]
  /\ UNCHANGED <<lock, count, files, tail, closed, feed>>

(* The append to the log: open() fails and record_event raises, or the     *)
(* line is written, which a reader of the file may see half done.          *)
Leave(r) == lock' = Free /\ at' = [at EXCEPT ![r] = "idle"]

LogFails(r) ==
  /\ at[r] = "put" /\ toput[Run] = {}
  /\ Leave(r)
  /\ UNCHANGED <<count, bridge, files, tail, closed, feed>>

LogBegins(r) ==
  /\ at[r] = "put" /\ toput[Run] = {}
  /\ half' = TRUE /\ at' = [at EXCEPT ![r] = "line"]
  /\ UNCHANGED <<lock, count, bridge, log, tmp, tail, closed, feed>>

LogEnds(r) ==
  /\ at[r] = "line"
  /\ half' = FALSE /\ log' = Append(log, count)
  /\ at' = [at EXCEPT ![r] = "state"]
  /\ UNCHANGED <<lock, count, bridge, tmp, tail, closed, feed>>

(* write_dashboard_state: the temporary file is written and then takes the *)
(* place of the state file.  Every writer of a run uses the same name.     *)
WriteTmp(w) ==
  /\ at[w] = "state"
  /\ tmp' = TRUE /\ at' = [at EXCEPT ![w] = "replace"]
  /\ UNCHANGED <<lock, count, bridge, log, half, tail, closed, feed>>

(* replace() raises when another writer has taken the temporary file away; *)
(* record_event ends either way.                                           *)
ReplaceTmp(r) ==
  /\ at[r] = "replace"
  /\ tmp' = FALSE /\ Leave(r)
  /\ UNCHANGED <<count, bridge, log, half, tail, closed, feed>>

-----------------------------------------------------------------------------
(* The reader: DashboardView.__init__ with reset_artifacts=False and       *)
(* tail=True.  Nobody can subscribe before it returns.                     *)
\* mutant: the history is pushed twice, by the view and by its tail
StatAtZero ==
  /\ at[Reader] = "stat"
  /\ offset' = 0 /\ at' = [at EXCEPT ![Reader] = "tail"]
  /\ UNCHANGED <<lock, count, bridge, files, batch, closed, feed>>

Load ==
  /\ at[Reader] = "idle" /\ Reader \notin closed
  /\ pushed' = [pushed EXCEPT ![Reader] = log]
  /\ at' = [at EXCEPT ![Reader] = "state"]
  /\ UNCHANGED <<lock, count, toput, files, tail, closed, feed>>

(* Its own replace(): the view is given up when it raises, and the next    *)
(* request makes another.                                                  *)
ReaderReplace ==
  /\ at[Reader] = "replace"
  /\ tmp' = FALSE
  /\ IF tmp THEN /\ at' = [at EXCEPT ![Reader] = "stat"] /\ UNCHANGED pushed
            ELSE /\ at' = [at EXCEPT ![Reader] = "idle"]
                 /\ pushed' = [pushed EXCEPT ![Reader] = <<>>]
  /\ UNCHANGED <<lock, count, toput, log, half, tail, closed, feed>>

Stat ==
  /\ at[Reader] = "stat"
  /\ offset' = Size /\ at' = [at EXCEPT ![Reader] = "tail"]
  /\ UNCHANGED <<lock, count, bridge, files, batch, closed, feed>>

(* _poll_once: the whole lines that begin at or after the offset; what is  *)
(* left of a line the offset is in the middle of is no JSON and skipped.   *)
(* The log of one run only grows: the offset's return to zero when another *)
(* run has emptied it is left out.                                         *)
Poll ==
  /\ at[Reader] = "tail" /\ Reader \notin closed
  /\ batch = <<>> /\ toput[Reader] = {} /\ 2 * Len(log) > offset
  /\ batch'  = SubSeq(log, (offset + 1) \div 2 + 1, Len(log))
  /\ offset' = 2 * Len(log)
  /\ UNCHANGED <<lock, count, at, bridge, files, closed, feed>>

TailPush ==
  /\ batch # <<>> /\ toput[Reader] = {}
  /\ Announce(Reader, Head(batch))
  /\ batch' = Tail(batch)
  /\ UNCHANGED <<lock, count, at, files, offset, closed, feed>>

-----------------------------------------------------------------------------
(* subscribe_sync: the backlog is copied and the queue registered under    *)
(* the bridge's lock.  A client finds the reader's bridge once its view is *)
(* there; a request that found it before close() may subscribe after it.   *)
\* mutant: the newest event is not in the backlog
BacklogBefore(b) ==
  SubSeq(pushed[b], Len(pushed[b]) - Lesser(Len(pushed[b]), BufferSize) + 1, Len(pushed[b]) - 1)

Backlog(b) ==
  SubSeq(pushed[b], Len(pushed[b]) - Lesser(Len(pushed[b]), BufferSize) + 1, Len(pushed[b]))

Subscribe(c) ==
  /\ mode[c] = "off"
  /\ c \in ReaderClients => at[Reader] = "tail"
  /\ mode'  = [mode EXCEPT ![c] = IF BridgeOf(c) \in closed THEN "late" ELSE "on"]
  /\ queue' = [queue EXCEPT ![c] = Backlog(BridgeOf(c))]
  /\ UNCHANGED <<lock, count, at, bridge, files, tail, closed, got>>

(* _stream_events: an event is sent, or the client has gone; the sentinel  *)
(* ends the stream.                                                        *)
Send(c) ==
  /\ Listening(c) /\ queue[c] # <<>> /\ Head(queue[c]) # End
  /\ queue' = [queue EXCEPT ![c] = Tail(@)]
  /\ got'   = [got EXCEPT ![c] = Append(@, Head(queue[c]))]
  /\ UNCHANGED <<lock, count, at, bridge, files, tail, closed, mode>>

HangUp(c) ==
  /\ Listening(c) /\ queue[c] # <<>>
  /\ mode' = [mode EXCEPT ![c] = "ended"]
  /\ UNCHANGED <<lock, count, at, bridge, files, tail, closed, queue, got>>

EndStream(c) ==
  /\ Listening(c) /\ queue[c] # <<>> /\ Head(queue[c]) = End
  /\ mode' = [mode EXCEPT ![c] = "ended"]
  /\ UNCHANGED <<lock, count, at, bridge, files, tail, closed, queue, got>>

(* DashboardView.close: the tail is stopped and joined, and every          *)
(* subscriber gets the sentinel.  The run may go on recording.             *)
\* mutant: the subscribers that wait for an event are not told
CloseBusy(b) ==
  /\ b \notin closed /\ closed' = closed \cup {b}
  /\ b = Reader => at[Reader] \in {"idle", "tail"} /\ batch = <<>> /\ toput[Reader] = {}
  /\ queue' = [c \in Clients |-> IF c \in Listeners(b) /\ queue[c] # <<>>
                                 THEN Append(queue[c], End) ELSE queue[c]]
  /\ UNCHANGED <<lock, count, at, bridge, files, tail, mode, got>>

Close(b) ==
  /\ b \notin closed /\ closed' = closed \cup {b}
  /\ b = Reader => at[Reader] \in {"idle", "tail"} /\ batch = <<>> /\ toput[Reader] = {}
  /\ queue' = [c \in Clients |-> IF c \in Listeners(b) THEN Append(queue[c], End) ELSE queue[c]]
  /\ UNCHANGED <<lock, count, at, bridge, files, tail, mode, got>>

-----------------------------------------------------------------------------
RecordStep(r) ==
  \/ PushEvent(r) \/ LogFails(r) \/ LogBegins(r) \/ LogEnds(r)
  \/ WriteTmp(r) \/ ReplaceTmp(r)

Tailing == Load \/ WriteTmp(Reader) \/ ReaderReplace \/ Stat \/ Poll \/ TailPush

Streaming(c) == Send(c) \/ EndStream(c)

Next ==
  \/ \E r \in Recorders : Mint(r) \/ RecordStep(r)
  \/ Tailing
  \/ \E b \in Bridges : Close(b) \/ \E c \in Clients : Put(b, c)
  \/ \E c \in Clients : Subscribe(c) \/ Streaming(c) \/ HangUp(c)

(* The threads that are in the middle of a call run on, the tail polls,    *)
(* and an SSE handler sends what it finds.  Nobody has to record, to open  *)
(* a view, to subscribe or to close.                                       *)
Fairness ==
  /\ \A r \in Recorders : WF_vars(RecordStep(r))
  /\ WF_vars(WriteTmp(Reader) \/ ReaderReplace \/ Stat \/ Poll \/ TailPush)
  /\ \A b \in Bridges, c \in Clients : WF_vars(Put(b, c))
  /\ \A c \in Clients : WF_vars(Streaming(c))

Spec == Init /\ [][Next]_vars /\ Fairness

-----------------------------------------------------------------------------
(* The types, and: the view's lock is held by the one recorder at work.    *)
TypeOK ==
  /\ lock \in Recorders \cup {Free} /\ count \in Nat
  /\ at \in [Writers -> {"idle", "push", "put", "line", "state", "replace", "stat", "tail"}]
  /\ \A r \in Recorders : at[r] # "idle" <=> lock = r
  /\ pushed \in [Bridges -> Seq(Nat)] /\ log \in Seq(Nat)
  /\ toput \in [Bridges -> SUBSET Clients]
  /\ half \in BOOLEAN /\ tmp \in BOOLEAN
  /\ offset \in Nat /\ batch \in Seq(Nat) /\ closed \subseteq Bridges
  /\ mode \in [Clients -> {"off", "on", "late", "ended"}]
  /\ queue \in [Clients -> Seq(Nat)] /\ got \in [Clients -> Seq(Nat)]

Increasing(s) == \A i, j \in DOMAIN s : i < j => s[i] < s[j]

(* Ids are unique, and in order in the log and on the bridge alike, when   *)
(* several threads record: the page drops an event whose id it has seen.   *)
(* With more history than the buffer holds the count starts too low.       *)
UniqueIds == History <= BufferSize => Increasing(log) /\ Increasing(pushed[Run])

(* A client hears an unbroken stretch of its bridge's events, each once,   *)
(* from its backlog on to the last one put, whenever it subscribed; and no *)
(* sentinel before close().                                                *)
Heard(c) == got[c] \o queue[c]

PutTo(c) ==
  LET b == BridgeOf(c) IN IF c \in toput[b] THEN Len(pushed[b]) - 1 ELSE Len(pushed[b])

Unbroken(s, h, end) ==
  /\ Len(h) <= end
  /\ h = SubSeq(s, end - Len(h) + 1, end)
  /\ Len(h) >= Lesser(end, BufferSize)

StreamUnbroken ==
  \A c \in Clients :
    mode[c] = "on" /\ BridgeOf(c) \notin closed =>
      Unbroken(pushed[BridgeOf(c)], Heard(c), PutTo(c))

(* The reader shows the log: its history up to some line, and from some    *)
(* later line on everything up to the offset, in order and nothing twice.  *)
ReaderFollowsLog ==
  at[Reader] = "tail" =>
    \E i, j \in 0 .. Len(log) :
      /\ i <= j /\ j <= (offset + 1) \div 2
      /\ pushed[Reader] \o batch
           = SubSeq(log, 1, i) \o SubSeq(log, j + 1, offset \div 2)

(* close() ends every stream it finds: a subscriber that was waiting is    *)
(* woken, and one that was behind has sent its queue first.  One that      *)
(* subscribes after close() gets no sentinel, and waits for good.          *)
StreamsEnd == \A c \in Clients : (mode[c] = "on" /\ BridgeOf(c) \in closed) ~> mode[c] = "ended"
=============================================================================
