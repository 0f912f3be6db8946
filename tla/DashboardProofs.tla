--------------------------- MODULE DashboardProofs ---------------------------
(***************************************************************************)
(* Proofs about the event feed, for any recorders, clients, buffer size,   *)
(* history and number of events: ids are unique and in order, a client     *)
(* hears an unbroken stretch of its bridge, and the reader's view follows  *)
(* the log.                                                                *)
(***************************************************************************)
EXTENDS Dashboard, SequenceTheorems, TLAPS

-----------------------------------------------------------------------------
(* The inductive invariant.  The lock: one recorder at a time is in        *)
(* record_event, and puts and half lines are its own.                      *)
LockOK ==
  /\ \A r \in Recorders : at[r] \notin {"stat", "tail"}
  /\ toput[Run] # {} => \E r \in Recorders : at[r] = "put"
  /\ half => \E r \in Recorders : at[r] = "line"

(* Whom push() still serves, and who can be subscribed at all.             *)
PutOK ==
  /\ \A b \in Bridges, c \in Clients :
       c \in toput[b] => BridgeOf(c) = b /\ mode[c] # "off" /\ pushed[b] # <<>>
  /\ \A c \in Clients : mode[c] = "off" => got[c] = <<>>
  /\ \A c \in Clients : BridgeOf(c) = Reader /\ mode[c] # "off" => at[Reader] = "tail"

(* The ids so far; the one being recorded is newer than those before it.   *)
Upto(s, n) == Increasing(s) /\ \A i \in DOMAIN s : s[i] <= n

IdsOK ==
  History <= BufferSize =>
    /\ Upto(log, count) /\ Upto(pushed[Run], count)
    /\ \A r \in Recorders :
         /\ at[r] = "push" => Upto(pushed[Run], count - 1)
         /\ at[r] \in {"push", "put", "line"} => Upto(log, count - 1)

(* How far the reader is.  Its history ends at line i; until the first     *)
(* poll it has nothing else, and only then is the offset within a line.    *)
Follows(i, j) ==
  /\ j <= (offset + 1) \div 2
  /\ offset % 2 = 1 => j >= offset \div 2
  /\ pushed[Reader] \o batch
       = SubSeq(log, 1, i) \o SubSeq(log, j + 1, offset \div 2)

ReadOK ==
  /\ offset <= Size
  /\ at[Reader] # "tail" => batch = <<>>
  /\ at[Reader] \in {"state", "replace", "stat"} =>
       \E i \in 0 .. Len(log) : pushed[Reader] = SubSeq(log, 1, i)
  /\ at[Reader] = "tail" =>
       \E i, j \in 0 .. Len(log) : i <= j /\ Follows(i, j)

FeedInv == TypeOK /\ LockOK /\ PutOK /\ IdsOK /\ StreamUnbroken /\ ReadOK

-----------------------------------------------------------------------------
(* About sequences: what is sent moves from one to the other, and what is  *)
(* appended behind a stretch does not change it.                           *)
LEMMA SentOn ==
  ASSUME NEW g \in Seq(Nat), NEW q \in Seq(Nat), q # <<>>
  PROVE  Append(g, Head(q)) \o Tail(q) = g \o q
<1>1. Len(q) \in Nat \ {0} /\ Head(q) = q[1]
  BY EmptySeq
<1>2. Head(q) \in Nat /\ Tail(q) \in Seq(Nat) /\ <<Head(q)>> \in Seq(Nat)
  BY HeadTailProperties
<1>3. <<Head(q)>> \o Tail(q) = q
  <2>1. 1 \in 1 .. Len(q) /\ Len(q) \in 1 .. Len(q) /\ 1 + 1 = 2
    BY <1>1
  <2>2. SubSeq(q, 1, Len(q)) = <<q[1]>> \o SubSeq(q, 2, Len(q))
    BY <2>1, SubSeqRecursiveFirst
  <2> QED
    BY <1>1, <2>2, SubSeqFull, TailIsSubSeq
<1>4. Append(g, Head(q)) = g \o <<Head(q)>>
  BY <1>2, AppendIsConcat
<1>5. (g \o <<Head(q)>>) \o Tail(q) = g \o (<<Head(q)>> \o Tail(q))
  BY <1>2, ConcatAssociative
<1> QED
  BY <1>3, <1>4, <1>5, Zenon

LEMMA Stretch ==
  ASSUME NEW s \in Seq(Nat), NEW i \in Nat \ {0}, NEW j \in 0 .. Len(s)
  PROVE  /\ SubSeq(s, i, j) \in Seq(Nat)
         /\ Len(SubSeq(s, i, j)) = IF i <= j THEN j - i + 1 ELSE 0
         /\ \A k \in 1 .. j - i + 1 : SubSeq(s, i, j)[k] = s[k + i - 1]
<1>1. Len(s) \in Nat
  BY LenProperties
<1>2. \A k \in i .. j : s[k] \in Nat
  BY <1>1, ElementOfSeq
<1>3. i \in Int /\ j \in Int
  BY <1>1
<1>4. \A k \in 1 .. j - i + 1 : i + k - 1 = k + i - 1
  BY <1>3
<1> QED
  BY <1>2, <1>3, <1>4, SubSeqProperties

LEMMA StretchStays ==
  ASSUME NEW s \in Seq(Nat), NEW e \in Nat, NEW i \in Nat \ {0}, NEW j \in 0 .. Len(s)
  PROVE  SubSeq(Append(s, e), i, j) = SubSeq(s, i, j)
<1> DEFINE a == Append(s, e)
<1>1. Len(s) \in Nat
  BY LenProperties
<1>2. a \in Seq(Nat) /\ Len(a) = Len(s) + 1 /\ \A k \in 1 .. Len(s) : a[k] = s[k]
  BY AppendProperties
<1> HIDE DEF a
<1>3. j \in 0 .. Len(a)
  BY <1>1, <1>2
<1>4. /\ SubSeq(a, i, j) \in Seq(Nat)
      /\ Len(SubSeq(a, i, j)) = IF i <= j THEN j - i + 1 ELSE 0
      /\ \A k \in 1 .. j - i + 1 : SubSeq(a, i, j)[k] = a[k + i - 1]
  BY <1>2, <1>3, Stretch
<1>5. /\ SubSeq(s, i, j) \in Seq(Nat)
      /\ Len(SubSeq(s, i, j)) = IF i <= j THEN j - i + 1 ELSE 0
      /\ \A k \in 1 .. j - i + 1 : SubSeq(s, i, j)[k] = s[k + i - 1]
  BY Stretch
<1>6. \A k \in 1 .. Len(SubSeq(a, i, j)) : k \in 1 .. j - i + 1 /\ k + i - 1 \in 1 .. Len(s)
  BY <1>1, <1>4
<1>7. \A k \in 1 .. Len(SubSeq(a, i, j)) : SubSeq(a, i, j)[k] = SubSeq(s, i, j)[k]
  BY <1>2, <1>4, <1>5, <1>6
<1>8. Len(SubSeq(a, i, j)) = Len(SubSeq(s, i, j))
  BY <1>4, <1>5
<1>9. SubSeq(a, i, j) = SubSeq(s, i, j)
  BY <1>4, <1>5, <1>7, <1>8, SeqEqual
<1> QED
  BY <1>9 DEF a

LEMMA StretchGrows ==
  ASSUME NEW s \in Seq(Nat), NEW j \in Nat, j + 1 <= Len(s), NEW i \in 1 .. j + 1
  PROVE  SubSeq(s, i, j + 1) = Append(SubSeq(s, i, j), s[j + 1])
<1>1. Len(s) \in Nat
  BY LenProperties
<1>2. i \in 1 .. Len(s) /\ j + 1 \in i .. Len(s) /\ j + 1 - 1 = j /\ j + 1 \in 1 .. Len(s)
      /\ j \in 0 .. Len(s) /\ i \in Nat \ {0}
  BY <1>1
<1>3. SubSeq(s, i, j + 1) = SubSeq(s, i, j) \o <<s[j + 1]>>
  BY <1>2, SubSeqRecursiveSecond
<1>4. s[j + 1] \in Nat
  BY <1>2, ElementOfSeq
<1>5. SubSeq(s, i, j) \in Seq(Nat)
  BY <1>2, Stretch
<1> QED
  BY <1>3, <1>4, <1>5, AppendIsConcat

LEMMA ConcatAssociates ==
  ASSUME NEW a \in Seq(Nat), NEW b \in Seq(Nat), NEW c \in Seq(Nat)
  PROVE  (a \o b) \o c = a \o (b \o c)
BY ConcatAssociative

LEMMA PutBehind ==
  ASSUME NEW g \in Seq(Nat), NEW q \in Seq(Nat), NEW e \in Nat
  PROVE  g \o Append(q, e) = Append(g \o q, e)
<1>1. <<e>> \in Seq(Nat) /\ g \o q \in Seq(Nat)
  BY ConcatProperties
<1>2. (g \o q) \o <<e>> = g \o (q \o <<e>>)
  BY <1>1, ConcatAssociative
<1> QED
  BY <1>1, <1>2, AppendIsConcat

LEMMA NewestLast ==
  ASSUME NEW s \in Seq(Nat), NEW e \in Nat, NEW n \in Int, Upto(s, n), n < e
  PROVE  Upto(Append(s, e), e)
<1>1. Len(s) \in Nat /\ DOMAIN s = 1 .. Len(s) /\ \A i \in 1 .. Len(s) : s[i] \in Nat
  BY LenProperties, ElementOfSeq
<1> DEFINE a == Append(s, e)
<1>2. /\ a \in Seq(Nat) /\ Len(a) = Len(s) + 1
      /\ \A i \in 1 .. Len(s) : a[i] = s[i]
      /\ a[Len(s) + 1] = e
  BY AppendProperties
<1> HIDE DEF a
<1>3. DOMAIN a = 1 .. Len(s) + 1
  BY <1>2, LenProperties
<1>4. \A i \in 1 .. Len(s) : s[i] <= n /\ s[i] < e
  BY <1>1 DEF Upto
<1>5. ASSUME NEW i \in DOMAIN a
      PROVE  a[i] <= e
  <2>1. CASE i \in 1 .. Len(s)
    BY <1>1, <1>2, <1>4, <2>1
  <2>2. CASE i = Len(s) + 1
    BY <1>2, <2>2
  <2> QED
    BY <1>1, <1>3, <2>1, <2>2
<1>6. ASSUME NEW i \in DOMAIN a, NEW j \in DOMAIN a, i < j
      PROVE  a[i] < a[j]
  <2>1. i \in 1 .. Len(s)
    BY <1>1, <1>3, <1>6
  <2>2. CASE j \in 1 .. Len(s)
    BY <1>1, <1>2, <1>6, <2>1, <2>2 DEF Upto, Increasing
  <2>3. CASE j = Len(s) + 1
    BY <1>2, <1>4, <2>1, <2>3
  <2> QED
    BY <1>1, <1>3, <2>2, <2>3
<1>7. Upto(a, e)
  BY <1>5, <1>6 DEF Upto, Increasing
<1> QED
  BY <1>7 DEF a

-----------------------------------------------------------------------------
(* Init.                                                                   *)
LEMMA NamesDiffer ==
  /\ Reader # Run /\ Reader \notin Recorders /\ Free \notin Recorders
  /\ Reader \in Writers /\ Recorders \subseteq Writers
  /\ Run \in Bridges /\ Reader \in Bridges
  /\ \A c \in Clients : BridgeOf(c) \in Bridges
BY NamesAssumption DEF Reader, Run, Free, Writers, Bridges, BridgeOf

LEMMA InitFeed ==
  ASSUME Init
  PROVE  FeedInv
<1>1. /\ log \in Seq(Nat) /\ Len(log) = History /\ \A i \in 1 .. History : log[i] = i
  <2>1. History \in Nat
    BY BoundsAssumption
  <2>2. log = [i \in 1 .. History |-> i]
    BY DEF Init
  <2> QED
    BY <2>1, <2>2
<1>2. TypeOK
  <2>1. <<>> \in Seq(Nat) /\ Lesser(History, BufferSize) \in Nat
    BY BoundsAssumption DEF Lesser
  <2>2. pushed \in [Bridges -> Seq(Nat)]
    BY <1>1, <2>1 DEF Init
  <2>3. \A r \in Recorders : at[r] = "idle" /\ lock # r
    BY NamesDiffer DEF Init
  <2> QED
    BY <1>1, <2>1, <2>2, <2>3 DEF Init, TypeOK
<1>3. LockOK
  BY NamesDiffer DEF Init, LockOK
<1>4. PutOK
  BY DEF Init, PutOK
<1>5. IdsOK
  <2>1. History <= BufferSize => count = History
    BY BoundsAssumption DEF Init, Lesser
  <2>2. DOMAIN log = 1 .. History
    BY <1>1, LenProperties
  <2>3. History <= BufferSize => Upto(log, count)
    BY <1>1, <2>1, <2>2, BoundsAssumption DEF Upto, Increasing
  <2>4. pushed[Run] = log
    BY NamesDiffer DEF Init
  <2>5. \A r \in Recorders : at[r] = "idle"
    BY NamesDiffer DEF Init
  <2> QED
    BY <2>3, <2>4, <2>5 DEF IdsOK
<1>6. StreamUnbroken
  BY DEF Init, StreamUnbroken
<1>7. ReadOK
  <2>1. at[Reader] = "idle" /\ batch = <<>> /\ offset = 0 /\ half = FALSE
    BY NamesDiffer DEF Init
  <2> QED
    BY <1>1, <2>1, BoundsAssumption DEF ReadOK, Size
<1> QED
  BY <1>2, <1>3, <1>4, <1>5, <1>6, <1>7 DEF FeedInv

-----------------------------------------------------------------------------
(* What every step is a step of: a recorder's, which leaves the reader     *)
(* alone, the reader's, a put, or a client's.                              *)
LEMMA Steps ==
  ASSUME Next
  PROVE  \/ \E r \in Recorders : Mint(r) \/ PushEvent(r) \/ LogFails(r) \/ LogBegins(r)
                                   \/ LogEnds(r) \/ WriteTmp(r) \/ ReplaceTmp(r)
         \/ Load \/ WriteTmp(Reader) \/ ReaderReplace \/ Stat \/ Poll \/ TailPush
         \/ \E b \in Bridges, c \in Clients : Put(b, c)
         \/ \E b \in Bridges : Close(b)
         \/ \E c \in Clients : Subscribe(c) \/ Send(c) \/ EndStream(c) \/ HangUp(c)
BY DEF Next, RecordStep, Tailing, Streaming

(* The newest event a bridge was given, and the length of its backlog.     *)
LEMMA Newest ==
  ASSUME TypeOK, NEW b \in Bridges, pushed[b] # <<>>
  PROVE  /\ Len(pushed[b]) \in Nat \ {0} /\ LastOf(pushed[b]) \in Nat
         /\ LastOf(pushed[b]) = pushed[b][Len(pushed[b])]
<1>1. pushed[b] \in Seq(Nat)
  BY DEF TypeOK
<1>2. Len(pushed[b]) \in Nat \ {0}
  BY <1>1, EmptySeq
<1>3. Len(pushed[b]) \in 1 .. Len(pushed[b])
  BY <1>2
<1> QED
  BY <1>1, <1>2, <1>3, ElementOfSeq DEF LastOf

LEMMA BacklogSound ==
  ASSUME TypeOK, NEW b \in Bridges
  PROVE  LET n == Len(pushed[b])
         IN /\ n \in Nat /\ Backlog(b) \in Seq(Nat) /\ Len(Backlog(b)) = Lesser(n, BufferSize)
            /\ Backlog(b) = SubSeq(pushed[b], n - Len(Backlog(b)) + 1, n)
<1> DEFINE n == Len(pushed[b])
           m == Lesser(n, BufferSize)
<1>1. pushed[b] \in Seq(Nat) /\ n \in Nat
  BY LenProperties DEF TypeOK
<1>2. m \in Nat /\ m <= n
  BY <1>1, BoundsAssumption DEF Lesser
<1>3. n - m + 1 \in Nat \ {0} /\ n \in 0 .. n /\ (n - m + 1 <= n => n - (n - m + 1) + 1 = m)
      /\ (~(n - m + 1 <= n) => m = 0)
  BY <1>1, <1>2
<1>4. SubSeq(pushed[b], n - m + 1, n) \in Seq(Nat) /\ Len(SubSeq(pushed[b], n - m + 1, n)) = m
  BY <1>1, <1>3, Stretch
<1> QED
  BY <1>1, <1>4 DEF Backlog

LEMMA Announced ==
  ASSUME TypeOK, NEW b \in Bridges, NEW e \in Nat, Announce(b, e)
  PROVE  /\ pushed' \in [Bridges -> Seq(Nat)]
         /\ pushed'[b] = Append(pushed[b], e) /\ pushed'[b] # <<>>
         /\ \A d \in Bridges : d # b => pushed'[d] = pushed[d] /\ toput'[d] = toput[d]
         /\ toput' \in [Bridges -> SUBSET Clients] /\ toput'[b] = Listeners(b)
<1>1. pushed[b] \in Seq(Nat)
  BY DEF TypeOK
<1>2. Append(pushed[b], e) \in Seq(Nat) /\ Append(pushed[b], e) # <<>>
  BY <1>1, AppendProperties
<1>3. Listeners(b) \subseteq Clients
  BY DEF Listeners
<1> QED
  BY <1>2, <1>3 DEF TypeOK, Announce

-----------------------------------------------------------------------------
LEMMA TypesKept ==
  ASSUME TypeOK, LockOK, PutOK, [Next]_vars
  PROVE  TypeOK'
<1> USE NamesDiffer
<1>1. ASSUME NEW r \in Recorders,
             Mint(r) \/ LogFails(r) \/ LogBegins(r) \/ WriteTmp(r) \/ ReplaceTmp(r)
      PROVE  TypeOK'
  <2>1. CASE Mint(r)
    BY <2>1 DEF TypeOK, Mint, bridge, files, tail, feed
  <2>2. CASE LogFails(r)
    BY <2>2 DEF TypeOK, LogFails, Leave, bridge, files, tail, feed
  <2>3. CASE LogBegins(r)
    BY <2>3 DEF TypeOK, LogBegins, bridge, tail, feed
  <2>4. CASE WriteTmp(r)
    BY <2>4 DEF TypeOK, WriteTmp, bridge, tail, feed
  <2>5. CASE ReplaceTmp(r)
    BY <2>5 DEF TypeOK, ReplaceTmp, Leave, bridge, tail, feed
  <2> QED
    BY <1>1, <2>1, <2>2, <2>3, <2>4, <2>5
<1>2. ASSUME NEW r \in Recorders, PushEvent(r)
      PROVE  TypeOK'
  <2>1. pushed' \in [Bridges -> Seq(Nat)] /\ toput' \in [Bridges -> SUBSET Clients]
    BY <1>2, Announced DEF TypeOK, PushEvent
  <2> QED
    BY <1>2, <2>1 DEF TypeOK, PushEvent, files, tail, feed
<1>3. ASSUME NEW r \in Recorders, LogEnds(r)
      PROVE  TypeOK'
  <2>1. log' \in Seq(Nat)
    BY <1>3, AppendProperties DEF TypeOK, LogEnds
  <2> QED
    BY <1>3, <2>1 DEF TypeOK, LogEnds, bridge, tail, feed
<1>4. CASE Load \/ WriteTmp(Reader) \/ ReaderReplace
  <2>1. CASE Load
    BY <2>1 DEF TypeOK, Load, files, tail, feed
  <2>2. CASE WriteTmp(Reader)
    BY <2>2 DEF TypeOK, WriteTmp, bridge, tail, feed
  <2>3. CASE ReaderReplace
    <3>1. <<>> \in Seq(Nat)
      OBVIOUS
    <3>2. /\ pushed' \in [Bridges -> Seq(Nat)]
          /\ at' \in [Writers -> {"idle", "push", "put", "line", "state", "replace", "stat", "tail"}]
          /\ \A r \in Recorders : at'[r] = at[r]
      BY <2>3, <3>1 DEF TypeOK, ReaderReplace
    <3> QED
      BY <2>3, <3>2 DEF TypeOK, ReaderReplace, tail, feed
  <2> QED
    BY <1>4, <2>1, <2>2, <2>3
<1>5. CASE Stat
  <2>1. offset' \in Nat
    BY <1>5, LenProperties DEF TypeOK, Stat, Size
  <2> QED
    BY <1>5, <2>1 DEF TypeOK, Stat, bridge, files, feed
<1>6. CASE Poll
  <2>1. Len(log) \in Nat /\ offset \in Nat
    BY LenProperties DEF TypeOK
  <2>2. (offset + 1) \div 2 + 1 \in Nat \ {0} /\ Len(log) \in 0 .. Len(log) /\ 2 * Len(log) \in Nat
    BY <2>1
  <2>3. batch' \in Seq(Nat) /\ offset' \in Nat
    BY <1>6, <2>2, Stretch DEF TypeOK, Poll
  <2> QED
    BY <1>6, <2>3 DEF TypeOK, Poll, bridge, files, feed
<1>7. CASE TailPush
  <2>1. Head(batch) \in Nat /\ Tail(batch) \in Seq(Nat)
    BY <1>7, HeadTailProperties DEF TypeOK, TailPush
  <2>2. pushed' \in [Bridges -> Seq(Nat)] /\ toput' \in [Bridges -> SUBSET Clients]
    BY <1>7, <2>1, Announced DEF TailPush
  <2> QED
    BY <1>7, <2>1, <2>2 DEF TypeOK, TailPush, files, feed
<1>8. ASSUME NEW b \in Bridges, NEW c \in Clients, Put(b, c)
      PROVE  TypeOK'
  <2>1. LastOf(pushed[b]) \in Nat
    BY <1>8, Newest DEF PutOK, Put
  <2>2. queue' \in [Clients -> Seq(Nat)]
    BY <1>8, <2>1, AppendProperties DEF TypeOK, Put
  <2> QED
    BY <1>8, <2>2 DEF TypeOK, Put, files, tail
<1>9. ASSUME NEW b \in Bridges, Close(b)
      PROVE  TypeOK'
  <2>1. queue' \in [Clients -> Seq(Nat)]
    BY <1>9, AppendProperties DEF TypeOK, Close, End
  <2> QED
    BY <1>9, <2>1 DEF TypeOK, Close, bridge, files, tail
<1>10. ASSUME NEW c \in Clients, Subscribe(c)
       PROVE  TypeOK'
  <2>1. queue' \in [Clients -> Seq(Nat)]
    BY <1>10, BacklogSound DEF TypeOK, Subscribe
  <2> QED
    BY <1>10, <2>1 DEF TypeOK, Subscribe, bridge, files, tail
<1>11. ASSUME NEW c \in Clients, Send(c)
       PROVE  TypeOK'
  <2>1. Head(queue[c]) \in Nat /\ Tail(queue[c]) \in Seq(Nat) /\ got[c] \in Seq(Nat)
    BY <1>11, HeadTailProperties DEF TypeOK, Send
  <2>2. Append(got[c], Head(queue[c])) \in Seq(Nat)
    BY <2>1, AppendProperties
  <2>3. queue' \in [Clients -> Seq(Nat)] /\ got' \in [Clients -> Seq(Nat)]
    BY <1>11, <2>1, <2>2 DEF TypeOK, Send
  <2> QED
    BY <1>11, <2>3 DEF TypeOK, Send, bridge, files, tail
<1>12. ASSUME NEW c \in Clients, EndStream(c) \/ HangUp(c)
       PROVE  TypeOK'
  BY <1>12 DEF TypeOK, EndStream, HangUp, bridge, files, tail
<1>13. CASE UNCHANGED vars
  BY <1>13 DEF TypeOK, vars, bridge, files, tail, feed
<1> QED
  BY <1>1, <1>2, <1>3, <1>4, <1>5, <1>6, <1>7, <1>8, <1>9, <1>10, <1>11, <1>12, <1>13, Steps

-----------------------------------------------------------------------------
LEMMA LockKept ==
  ASSUME TypeOK, LockOK, PutOK, [Next]_vars
  PROVE  LockOK'
<1> USE NamesDiffer
<1>1. ASSUME NEW r \in Recorders,
             \/ Mint(r) \/ PushEvent(r) \/ LogFails(r) \/ LogBegins(r)
             \/ LogEnds(r) \/ WriteTmp(r) \/ ReplaceTmp(r)
      PROVE  LockOK'
  <2>1. \A q \in Recorders : at[q] # "idle" /\ at[r] # "idle" => q = r
    BY DEF TypeOK
  <2>2. \A q \in Recorders : q # r => at'[q] = at[q]
    BY <1>1 DEF TypeOK, Mint, PushEvent, LogFails, LogBegins, LogEnds, WriteTmp, ReplaceTmp, Leave
  <2>3. CASE Mint(r)
    BY <2>3 DEF TypeOK, LockOK, Mint, bridge, files
  <2>4. CASE PushEvent(r)
    BY <2>1, <2>4 DEF TypeOK, LockOK, PushEvent, files
  <2>5. CASE LogFails(r) \/ LogBegins(r)
    BY <2>1, <2>2, <2>5 DEF TypeOK, LockOK, LogFails, LogBegins, Leave, bridge, files
  <2>6. CASE LogEnds(r)
    BY <2>1, <2>6 DEF TypeOK, LockOK, LogEnds, bridge
  <2>7. CASE WriteTmp(r) \/ ReplaceTmp(r)
    BY <2>1, <2>2, <2>7 DEF TypeOK, LockOK, WriteTmp, ReplaceTmp, Leave, bridge, files
  <2> QED
    BY <1>1, <2>3, <2>4, <2>5, <2>6, <2>7
<1>2. CASE Load \/ WriteTmp(Reader) \/ ReaderReplace \/ Stat
  BY <1>2 DEF TypeOK, LockOK, Load, WriteTmp, ReaderReplace, Stat, bridge, files
<1>3. CASE TailPush
  BY <1>3 DEF TypeOK, LockOK, TailPush, Announce, files
<1>4. ASSUME NEW b \in Bridges, NEW c \in Clients, Put(b, c)
      PROVE  LockOK'
  <2>1. toput'[Run] # {} => toput[Run] # {}
    BY <1>4 DEF TypeOK, Put
  <2> QED
    BY <1>4, <2>1 DEF LockOK, Put, files
<1>5. CASE UNCHANGED <<at, toput, half>>
  BY <1>5 DEF LockOK
<1>6. ASSUME NEW b \in Bridges, Close(b)
      PROVE  LockOK'
  BY <1>5, <1>6 DEF Close, bridge, files
<1>7. ASSUME NEW c \in Clients, Subscribe(c) \/ Send(c) \/ EndStream(c) \/ HangUp(c)
      PROVE  LockOK'
  BY <1>5, <1>7 DEF Subscribe, Send, EndStream, HangUp, bridge, files
<1>8. CASE Poll \/ UNCHANGED vars
  BY <1>5, <1>8 DEF Poll, vars, bridge, files
<1> QED
  BY <1>1, <1>2, <1>3, <1>4, <1>6, <1>7, <1>8, Steps

-----------------------------------------------------------------------------
LEMMA PutKept ==
  ASSUME TypeOK, PutOK, [Next]_vars
  PROVE  PutOK'
<1> USE NamesDiffer
<1>1. CASE UNCHANGED <<toput, mode, pushed, got, at[Reader]>>
  BY <1>1 DEF PutOK
<1>2. ASSUME NEW r \in Recorders,
             Mint(r) \/ LogFails(r) \/ LogBegins(r) \/ LogEnds(r) \/ WriteTmp(r) \/ ReplaceTmp(r)
      PROVE  PutOK'
  <2>1. at'[Reader] = at[Reader]
    BY <1>2 DEF TypeOK, Mint, LogFails, LogBegins, LogEnds, WriteTmp, ReplaceTmp, Leave
  <2> QED
    BY <1>1, <1>2, <2>1
    DEF Mint, LogFails, LogBegins, LogEnds, WriteTmp, ReplaceTmp, Leave, bridge, feed
<1>3. ASSUME NEW r \in Recorders, PushEvent(r)
      PROVE  PutOK'
  <2>1. at'[Reader] = at[Reader] /\ mode' = mode /\ got' = got
    BY <1>3 DEF TypeOK, PushEvent, feed
  <2>2. /\ pushed'[Run] # <<>> /\ toput'[Run] = Listeners(Run)
        /\ \A d \in Bridges : d # Run => pushed'[d] = pushed[d] /\ toput'[d] = toput[d]
    BY <1>3, Announced DEF TypeOK, PushEvent
  <2> QED
    BY <2>1, <2>2 DEF PutOK, Listeners, Listening
<1>4. CASE TailPush
  <2>1. Head(batch) \in Nat
    BY <1>4, HeadTailProperties DEF TypeOK, TailPush
  <2>2. /\ pushed'[Reader] # <<>> /\ toput'[Reader] = Listeners(Reader)
        /\ \A d \in Bridges : d # Reader => pushed'[d] = pushed[d] /\ toput'[d] = toput[d]
    BY <1>4, <2>1, Announced DEF TailPush
  <2>3. at' = at /\ mode' = mode /\ got' = got
    BY <1>4 DEF TailPush, feed
  <2> QED
    BY <2>2, <2>3 DEF PutOK, Listeners, Listening
<1>5. CASE Load \/ WriteTmp(Reader) \/ ReaderReplace \/ Stat
  <2>1. at[Reader] # "tail"
    BY <1>5 DEF Load, WriteTmp, ReaderReplace, Stat
  <2>2. toput' = toput /\ mode' = mode /\ got' = got
    BY <1>5 DEF Load, WriteTmp, ReaderReplace, Stat, bridge, feed
  <2>3. \A b \in Bridges : b # Reader => pushed'[b] = pushed[b]
    BY <1>5 DEF TypeOK, Load, WriteTmp, ReaderReplace, Stat, bridge
  <2>4. \A c \in Clients : c \notin toput[Reader]
    BY <2>1 DEF PutOK
  <2> QED
    BY <2>1, <2>2, <2>3, <2>4 DEF PutOK
<1>6. ASSUME NEW b \in Bridges, NEW c \in Clients, Put(b, c)
      PROVE  PutOK'
  <2>1. \A d \in Bridges : toput'[d] \subseteq toput[d]
    BY <1>6 DEF TypeOK, Put
  <2> QED
    BY <1>6, <2>1 DEF PutOK, Put
<1>7. ASSUME NEW b \in Bridges, Close(b)
      PROVE  PutOK'
  BY <1>1, <1>7 DEF Close, bridge
<1>8. ASSUME NEW c \in Clients, Subscribe(c) \/ Send(c) \/ EndStream(c) \/ HangUp(c)
      PROVE  PutOK'
  <2>1. /\ UNCHANGED <<toput, pushed, at>>
        /\ \A d \in Clients : d # c => mode'[d] = mode[d] /\ got'[d] = got[d]
        /\ mode'[c] # "off"
    BY <1>8 DEF TypeOK, Subscribe, Send, EndStream, HangUp, Listening, bridge
  <2>2. BridgeOf(c) = Reader => at[Reader] = "tail"
    BY <1>8 DEF PutOK, Subscribe, Send, EndStream, HangUp, Listening, BridgeOf, Clients
  <2> QED
    BY <2>1, <2>2 DEF PutOK
<1>9. CASE Poll \/ UNCHANGED vars
  BY <1>1, <1>9 DEF Poll, vars, bridge, feed
<1> QED
  BY <1>2, <1>3, <1>4, <1>5, <1>6, <1>7, <1>8, <1>9, Steps

-----------------------------------------------------------------------------
LEMMA UptoMore ==
  ASSUME NEW s \in Seq(Nat), NEW n \in Int, NEW m \in Int, Upto(s, n), n <= m
  PROVE  Upto(s, m)
<1>1. \A i \in DOMAIN s : s[i] \in Nat
  BY LenProperties, ElementOfSeq
<1> QED
  BY <1>1 DEF Upto

LEMMA IdsKept ==
  ASSUME TypeOK, LockOK, IdsOK, [Next]_vars
  PROVE  IdsOK'
<1> SUFFICES ASSUME History <= BufferSize
             PROVE  /\ Upto(log', count') /\ Upto(pushed'[Run], count')
                    /\ \A r \in Recorders :
                         /\ at'[r] = "push" => Upto(pushed'[Run], count' - 1)
                         /\ at'[r] \in {"push", "put", "line"} => Upto(log', count' - 1)
  BY DEF IdsOK
<1> USE NamesDiffer
<1> DEFINE Goal == /\ Upto(log', count') /\ Upto(pushed'[Run], count')
                   /\ \A r \in Recorders :
                        /\ at'[r] = "push" => Upto(pushed'[Run], count' - 1)
                        /\ at'[r] \in {"push", "put", "line"} => Upto(log', count' - 1)
<1>1. /\ Upto(log, count) /\ Upto(pushed[Run], count)
      /\ \A r \in Recorders :
           /\ at[r] = "push" => Upto(pushed[Run], count - 1)
           /\ at[r] \in {"push", "put", "line"} => Upto(log, count - 1)
  BY DEF IdsOK
<1>2. count \in Nat /\ count - 1 \in Int /\ log \in Seq(Nat) /\ pushed[Run] \in Seq(Nat)
  BY DEF TypeOK
<1>3. \A q, r \in Recorders : at[q] # "idle" /\ at[r] # "idle" => q = r
  BY DEF TypeOK
<1>4. CASE log' = log /\ pushed'[Run] = pushed[Run] /\ count' = count
           /\ \A r \in Recorders : \/ at'[r] \notin {"push", "put", "line"}
                                   \/ at'[r] = at[r]
  BY <1>1, <1>4
<1>5. ASSUME NEW r \in Recorders, Mint(r)
      PROVE  Goal
  <2>1. log' = log /\ pushed'[Run] = pushed[Run] /\ count' = count + 1 /\ count' - 1 = count
    BY <1>2, <1>5 DEF Mint, bridge, files
  <2>2. Upto(log, count + 1) /\ Upto(pushed[Run], count + 1)
    BY <1>1, <1>2, UptoMore
  <2> QED
    BY <1>1, <2>1, <2>2
<1>6. ASSUME NEW r \in Recorders, PushEvent(r)
      PROVE  Goal
  <2>1. pushed'[Run] = Append(pushed[Run], count)
    BY <1>2, <1>6, Announced DEF PushEvent
  <2>2. Upto(pushed[Run], count - 1) /\ Upto(log, count - 1)
    BY <1>1, <1>6 DEF PushEvent
  <2>3. Upto(pushed'[Run], count)
    BY <1>2, <2>1, <2>2, NewestLast
  <2>4. log' = log /\ count' = count /\ \A q \in Recorders : at'[q] # "push"
    BY <1>3, <1>6 DEF TypeOK, PushEvent, files
  <2> QED
    BY <1>1, <2>2, <2>3, <2>4
<1>7. ASSUME NEW r \in Recorders, LogBegins(r)
      PROVE  Goal
  <2>1. log' = log /\ count' = count /\ pushed'[Run] = pushed[Run] /\ at[r] = "put"
    BY <1>7 DEF LogBegins, bridge
  <2>2. \A q \in Recorders : at'[q] # "push"
    <3>1. at' = [at EXCEPT ![r] = "line"] /\ at[r] # "idle"
      BY <1>7 DEF LogBegins
    <3>2. \A q \in Recorders : q # r => at[q] = "idle"
      BY <1>3, <3>1
    <3> QED
      BY <3>1, <3>2 DEF TypeOK
  <2> QED
    BY <1>1, <2>1, <2>2
<1>8. ASSUME NEW r \in Recorders, LogEnds(r)
      PROVE  Goal
  <2>1. log' = Append(log, count) /\ count' = count /\ pushed'[Run] = pushed[Run] /\ at[r] = "line"
    BY <1>8 DEF LogEnds, bridge
  <2>2. Upto(log', count)
    BY <1>1, <1>2, <2>1, NewestLast
  <2>3. \A q \in Recorders : at'[q] \notin {"push", "put", "line"}
    BY <1>3, <1>8 DEF TypeOK, LogEnds
  <2> QED
    BY <1>1, <2>1, <2>2, <2>3
<1>9. ASSUME NEW r \in Recorders, LogFails(r) \/ WriteTmp(r) \/ ReplaceTmp(r)
      PROVE  Goal
  <2>1. log' = log /\ pushed'[Run] = pushed[Run] /\ count' = count
    BY <1>9 DEF LogFails, WriteTmp, ReplaceTmp, bridge, files
  <2>2. \A q \in Recorders : at'[q] \notin {"push", "put", "line"} \/ at'[q] = at[q]
    BY <1>9 DEF TypeOK, LogFails, WriteTmp, ReplaceTmp, Leave
  <2> QED
    BY <1>4, <2>1, <2>2
<1>10. CASE Load \/ WriteTmp(Reader) \/ ReaderReplace \/ Stat
  <2>1. log' = log /\ pushed'[Run] = pushed[Run] /\ count' = count
    BY <1>10 DEF TypeOK, Load, WriteTmp, ReaderReplace, Stat, bridge, files
  <2>2. \A q \in Recorders : at'[q] = at[q]
    BY <1>10 DEF TypeOK, Load, WriteTmp, ReaderReplace, Stat
  <2> QED
    BY <1>4, <2>1, <2>2
<1>11. CASE TailPush
  BY <1>4, <1>11 DEF TailPush, Announce, files
<1>12. CASE Poll \/ UNCHANGED vars
  BY <1>4, <1>12 DEF Poll, vars, bridge, files
<1>13. ASSUME NEW b \in Bridges, NEW c \in Clients, Put(b, c)
       PROVE  Goal
  BY <1>4, <1>13 DEF Put, files
<1>14. ASSUME NEW b \in Bridges, Close(b)
       PROVE  Goal
  BY <1>4, <1>14 DEF Close, bridge, files
<1>15. ASSUME NEW c \in Clients, Subscribe(c) \/ Send(c) \/ EndStream(c) \/ HangUp(c)
       PROVE  Goal
  BY <1>4, <1>15 DEF Subscribe, Send, EndStream, HangUp, bridge, files
<1> QED
  BY <1>5, <1>6, <1>7, <1>8, <1>9, <1>10, <1>11, <1>12, <1>13, <1>14, <1>15, Steps

-----------------------------------------------------------------------------
(* The clients StreamUnbroken is about.                                    *)
Listens(c) == mode[c] = "on" /\ BridgeOf(c) \notin closed

LEMMA StreamsAre ==
  /\ StreamUnbroken
       <=> \A c \in Clients : Listens(c) => Unbroken(pushed[BridgeOf(c)], Heard(c), PutTo(c))
  /\ StreamUnbroken'
       <=> \A c \in Clients :
             Listens(c)' => Unbroken(pushed'[BridgeOf(c)], Heard(c)', PutTo(c)')
BY DEF StreamUnbroken, Listens, BridgeOf

LEMMA PutToIs ==
  ASSUME NEW c \in Clients
  PROVE  LET b == BridgeOf(c)
         IN /\ c \in toput[b] => PutTo(c) = Len(pushed[b]) - 1
            /\ c \notin toput[b] => PutTo(c) = Len(pushed[b])
            /\ c \in toput'[b] => PutTo(c)' = Len(pushed'[b]) - 1
            /\ c \notin toput'[b] => PutTo(c)' = Len(pushed'[b])
BY Zenon DEF PutTo, BridgeOf

LEMMA HeardIs ==
  ASSUME TypeOK, PutOK, NEW c \in Clients
  PROVE  /\ BridgeOf(c) \in Bridges /\ pushed[BridgeOf(c)] \in Seq(Nat)
         /\ Len(pushed[BridgeOf(c)]) \in Nat /\ PutTo(c) \in 0 .. Len(pushed[BridgeOf(c)])
         /\ got[c] \in Seq(Nat) /\ queue[c] \in Seq(Nat)
         /\ Heard(c) \in Seq(Nat) /\ Len(Heard(c)) \in Nat
<1>1. /\ BridgeOf(c) \in Bridges /\ pushed[BridgeOf(c)] \in Seq(Nat)
      /\ got[c] \in Seq(Nat) /\ queue[c] \in Seq(Nat)
  BY NamesDiffer DEF TypeOK
<1>2. Heard(c) \in Seq(Nat)
  BY <1>1, ConcatProperties DEF Heard
<1>3. Len(pushed[BridgeOf(c)]) \in Nat /\ Len(Heard(c)) \in Nat
  BY <1>1, <1>2, LenProperties
<1>4. c \in toput[BridgeOf(c)] => Len(pushed[BridgeOf(c)]) \in Nat \ {0}
  BY <1>1, EmptySeq DEF PutOK
<1>5. PutTo(c) \in 0 .. Len(pushed[BridgeOf(c)])
  BY <1>3, <1>4, PutToIs
<1> QED
  BY <1>1, <1>2, <1>3, <1>5

(* push() of a bridge nobody is still being served by.                     *)
LEMMA AnnounceKeeps ==
  ASSUME TypeOK, PutOK, StreamUnbroken, NEW b \in Bridges, NEW e \in Nat,
         Announce(b, e), toput[b] = {}, UNCHANGED <<closed, feed>>
  PROVE  StreamUnbroken'
<1> SUFFICES ASSUME NEW c \in Clients, Listens(c)'
             PROVE  Unbroken(pushed'[BridgeOf(c)], Heard(c)', PutTo(c)')
  BY StreamsAre
<1> DEFINE d == BridgeOf(c)
           p == pushed[d]
           h == Heard(c)
           n == PutTo(c)
<1>1. d \in Bridges /\ p \in Seq(Nat) /\ Len(p) \in Nat /\ n \in 0 .. Len(p) /\ Len(h) \in Nat
  BY HeardIs
<1>2. h' = h /\ Listens(c)
  BY DEF feed, Heard, Listens, BridgeOf
<1>3. Unbroken(p, h, n)
  BY <1>2, StreamsAre
<1>4. /\ pushed'[b] = Append(pushed[b], e)
      /\ \A x \in Bridges : x # b => pushed'[x] = pushed[x] /\ toput'[x] = toput[x]
      /\ toput'[b] = Listeners(b)
  BY Announced
<1>5. CASE d = b
  <2>1. c \in toput'[b] /\ c \notin toput[b]
    BY <1>2, <1>4, <1>5 DEF Listeners, Listening, Listens
  <2>2. n = Len(p)
    BY <1>5, <2>1, PutToIs
  <2>3. pushed'[d] = Append(p, e) /\ Len(pushed'[d]) = Len(p) + 1
    BY <1>1, <1>4, <1>5, AppendProperties
  <2>4. PutTo(c)' = n
    BY <1>1, <1>5, <2>1, <2>2, <2>3, PutToIs
  <2>5. n - Len(h) + 1 \in Nat \ {0} /\ n \in 0 .. Len(p)
    BY <1>1, <1>3 DEF Unbroken
  <2>6. SubSeq(Append(p, e), n - Len(h) + 1, n) = SubSeq(p, n - Len(h) + 1, n)
    BY <1>1, <2>5, StretchStays
  <2> QED
    BY <1>2, <1>3, <2>3, <2>4, <2>6 DEF Unbroken
<1>6. CASE d # b
  <2>1. pushed'[d] = p /\ PutTo(c)' = n
    BY <1>1, <1>4, <1>6, PutToIs
  <2> QED
    BY <1>2, <1>3, <2>1
<1> QED
  BY <1>5, <1>6

(* What does not change the streams of those that still listen.            *)
LEMMA StreamsStay ==
  ASSUME StreamUnbroken,
         \A c \in Clients : Listens(c)' =>
           /\ Listens(c) /\ Heard(c)' = Heard(c)
           /\ pushed'[BridgeOf(c)] = pushed[BridgeOf(c)]
           /\ c \in toput'[BridgeOf(c)] <=> c \in toput[BridgeOf(c)]
  PROVE  StreamUnbroken'
<1>1. \A c \in Clients : Listens(c)' => PutTo(c)' = PutTo(c)
  BY PutToIs
<1> QED
  BY <1>1, StreamsAre

LEMMA PutKeeps ==
  ASSUME TypeOK, PutOK, StreamUnbroken, NEW b \in Bridges, NEW c \in Clients, Put(b, c)
  PROVE  StreamUnbroken'
<1> DEFINE p == pushed[b]
           h == Heard(c)
           n == PutTo(c)
<1>1. b = BridgeOf(c) /\ p # <<>> /\ c \in toput[b]
  BY DEF Put, PutOK
<1>2. p \in Seq(Nat) /\ Len(p) \in Nat \ {0} /\ n = Len(p) - 1 /\ h \in Seq(Nat) /\ Len(h) \in Nat
      /\ got[c] \in Seq(Nat) /\ queue[c] \in Seq(Nat)
  BY <1>1, HeardIs, Newest, PutToIs
<1>3. LastOf(p) \in Nat /\ LastOf(p) = p[Len(p)]
  BY <1>1, Newest
<1>4. Heard(c)' = Append(h, LastOf(p))
  <2>1. Heard(c)' = got[c] \o Append(queue[c], LastOf(p))
    BY DEF TypeOK, Put, Heard
  <2> QED
    BY <1>2, <1>3, <2>1, PutBehind DEF Heard
<1>5. PutTo(c)' = n + 1
  <2>1. pushed' = pushed /\ c \notin toput'[b]
    BY DEF TypeOK, Put
  <2> QED
    BY <1>1, <1>2, <2>1, PutToIs
<1>6. ASSUME Listens(c)
      PROVE  Unbroken(p, Heard(c)', n + 1)
  <2>1. Unbroken(p, h, n)
    BY <1>1, <1>6, StreamsAre
  <2>2. n \in Nat /\ n + 1 <= Len(p) /\ n - Len(h) + 1 \in 1 .. n + 1 /\ n + 1 = Len(p)
    BY <1>2, <2>1 DEF Unbroken
  <2>3. SubSeq(p, n - Len(h) + 1, n + 1) = Append(SubSeq(p, n - Len(h) + 1, n), p[n + 1])
    BY <1>2, <2>2, StretchGrows
  <2>4. Heard(c)' = SubSeq(p, n - Len(h) + 1, n + 1)
    BY <1>3, <1>4, <2>1, <2>2, <2>3 DEF Unbroken
  <2>5. Len(Heard(c)') = Len(h) + 1
    BY <1>2, <1>3, <1>4, AppendProperties
  <2>6. (n + 1) - Len(Heard(c)') + 1 = n - Len(h) + 1
    <3>1. n \in Int /\ Len(h) \in Int
      BY <1>2, <2>2
    <3>2. (n + 1) - (Len(h) + 1) + 1 = n - Len(h) + 1
      BY <3>1
    <3> QED
      BY <2>5, <3>2
  <2>7. Len(h) + 1 <= n + 1 /\ Len(h) + 1 >= Lesser(n + 1, BufferSize)
    BY <1>2, <2>1, <2>2, BoundsAssumption DEF Unbroken, Lesser
  <2> QED
    BY <2>4, <2>5, <2>6, <2>7 DEF Unbroken
<1>7. UNCHANGED <<pushed, mode, closed>>
  BY DEF Put
<1>8. ASSUME NEW x \in Clients, Listens(x)'
      PROVE  Unbroken(pushed'[BridgeOf(x)], Heard(x)', PutTo(x)')
  <2>1. Listens(x)
    BY <1>7, <1>8 DEF Listens, BridgeOf
  <2>2. CASE x = c
    BY <1>1, <1>5, <1>6, <1>7, <2>1, <2>2
  <2>3. CASE x # c
    <3>1. Heard(x)' = Heard(x) /\ (x \in toput'[BridgeOf(x)] <=> x \in toput[BridgeOf(x)])
      BY <2>3, NamesDiffer DEF TypeOK, Put, Heard
    <3>2. PutTo(x)' = PutTo(x)
      BY <1>7, <3>1, PutToIs
    <3> QED
      BY <1>7, <2>1, <3>1, <3>2, StreamsAre
  <2> QED
    BY <2>2, <2>3
<1> QED
  BY <1>8, StreamsAre

LEMMA StreamKept ==
  ASSUME TypeOK, LockOK, PutOK, StreamUnbroken, [Next]_vars
  PROVE  StreamUnbroken'
<1> USE NamesDiffer
<1>1. CASE UNCHANGED <<bridge, closed, feed>>
  BY <1>1, StreamsStay DEF bridge, feed, Listens, Heard, BridgeOf
<1>2. ASSUME NEW r \in Recorders,
             Mint(r) \/ LogFails(r) \/ LogBegins(r) \/ LogEnds(r) \/ WriteTmp(r) \/ ReplaceTmp(r)
      PROVE  StreamUnbroken'
  BY <1>1, <1>2 DEF Mint, LogFails, LogBegins, LogEnds, WriteTmp, ReplaceTmp
<1>3. ASSUME NEW r \in Recorders, PushEvent(r)
      PROVE  StreamUnbroken'
  <2>1. toput[Run] = {}
    BY <1>3 DEF TypeOK, LockOK, PushEvent
  <2> QED
    BY <1>3, <2>1, AnnounceKeeps DEF TypeOK, PushEvent
<1>4. CASE TailPush
  <2>1. Head(batch) \in Nat
    BY <1>4, HeadTailProperties DEF TypeOK, TailPush
  <2> QED
    BY <1>4, <2>1, AnnounceKeeps DEF TailPush
<1>5. CASE Load \/ ReaderReplace
  <2>1. at[Reader] # "tail"
    BY <1>5 DEF Load, ReaderReplace
  <2>2. UNCHANGED <<toput, closed, feed>> /\ pushed'[Run] = pushed[Run]
    BY <1>5 DEF TypeOK, Load, ReaderReplace
  <2>3. \A c \in Clients : mode[c] = "on" => BridgeOf(c) = Run
    BY <2>1 DEF PutOK, Bridges
  <2> QED
    BY <2>2, <2>3, StreamsStay DEF Listens, Heard, BridgeOf, feed
<1>6. CASE WriteTmp(Reader) \/ Stat \/ Poll \/ UNCHANGED vars
  BY <1>1, <1>6 DEF WriteTmp, Stat, Poll, vars
<1>7. ASSUME NEW b \in Bridges, NEW c \in Clients, Put(b, c)
      PROVE  StreamUnbroken'
  BY <1>7, PutKeeps
<1>8. ASSUME NEW b \in Bridges, Close(b)
      PROVE  StreamUnbroken'
  <2>1. UNCHANGED <<bridge, mode, got>> /\ closed' = closed \cup {b}
    BY <1>8 DEF Close
  <2>2. \A c \in Clients : BridgeOf(c) # b => queue'[c] = queue[c]
    BY <1>8 DEF Close, Listeners
  <2> QED
    BY <2>1, <2>2, StreamsStay DEF Listens, Heard, BridgeOf, bridge
<1>9. ASSUME NEW c \in Clients, Subscribe(c)
      PROVE  StreamUnbroken'
  <2> DEFINE b == BridgeOf(c)
  <2>1. /\ UNCHANGED <<pushed, toput, closed, got>> /\ mode[c] = "off"
        /\ queue'[c] = Backlog(b)
        /\ \A x \in Clients : x # c => mode'[x] = mode[x] /\ queue'[x] = queue[x]
    BY <1>9 DEF TypeOK, Subscribe, bridge
  <2>2. got[c] = <<>> /\ c \notin toput[b]
    BY <2>1 DEF PutOK
  <2>3. /\ Len(pushed[b]) \in Nat /\ Backlog(b) \in Seq(Nat)
        /\ Len(Backlog(b)) = Lesser(Len(pushed[b]), BufferSize)
        /\ Backlog(b) = SubSeq(pushed[b], Len(pushed[b]) - Len(Backlog(b)) + 1, Len(pushed[b]))
    BY BacklogSound
  <2>4. Heard(c)' = Backlog(b)
    BY <2>1, <2>2, <2>3, ConcatEmptySeq DEF Heard
  <2>5. PutTo(c)' = Len(pushed[b])
    BY <2>1, <2>2, PutToIs
  <2>6. Unbroken(pushed[b], Backlog(b), Len(pushed[b]))
    <3>1. Lesser(Len(pushed[b]), BufferSize) <= Len(pushed[b])
          /\ Lesser(Len(pushed[b]), BufferSize) \in Nat
      BY <2>3, BoundsAssumption DEF Lesser
    <3> QED
      BY <2>3, <3>1 DEF Unbroken
  <2>7. ASSUME NEW x \in Clients, Listens(x)'
        PROVE  Unbroken(pushed'[BridgeOf(x)], Heard(x)', PutTo(x)')
    <3>1. CASE x = c
      BY <2>1, <2>4, <2>5, <2>6, <3>1
    <3>2. CASE x # c
      <4>1. Listens(x) /\ Heard(x)' = Heard(x) /\ PutTo(x)' = PutTo(x) /\ pushed' = pushed
        BY <2>1, <2>7, <3>2, PutToIs DEF Listens, Heard, BridgeOf
      <4> QED
        BY <4>1, StreamsAre
    <3> QED
      BY <3>1, <3>2
  <2> QED
    BY <2>7, StreamsAre
<1>10. ASSUME NEW c \in Clients, Send(c)
       PROVE  StreamUnbroken'
  <2>1. UNCHANGED <<bridge, mode, closed>>
    BY <1>10 DEF Send
  <2>2. got[c] \in Seq(Nat) /\ queue[c] \in Seq(Nat) /\ queue[c] # <<>>
    BY <1>10 DEF TypeOK, Send
  <2>3. got'[c] = Append(got[c], Head(queue[c])) /\ queue'[c] = Tail(queue[c])
    BY <1>10 DEF TypeOK, Send
  <2>4. \A x \in Clients : x # c => got'[x] = got[x] /\ queue'[x] = queue[x]
    BY <1>10 DEF TypeOK, Send
  <2>5. got'[c] \o queue'[c] = got[c] \o queue[c]
    BY <2>2, <2>3, SentOn
  <2>6. \A x \in Clients : Heard(x)' = Heard(x)
    BY <2>4, <2>5 DEF Heard
  <2> QED
    BY <2>1, <2>6, StreamsStay DEF Listens, BridgeOf, bridge
<1>11. ASSUME NEW c \in Clients, EndStream(c) \/ HangUp(c)
       PROVE  StreamUnbroken'
  <2>1. UNCHANGED <<bridge, closed, queue, got>> /\ \A x \in Clients : mode'[x] = "on" => mode[x] = "on"
    BY <1>11 DEF TypeOK, EndStream, HangUp
  <2> QED
    BY <2>1, StreamsStay DEF Listens, Heard, BridgeOf, bridge
<1> QED
  BY <1>2, <1>3, <1>4, <1>5, <1>6, <1>7, <1>8, <1>9, <1>10, <1>11, Steps

-----------------------------------------------------------------------------
LEMMA Halves ==
  ASSUME NEW n \in Nat
  PROVE  /\ (2 * n) \div 2 = n /\ (2 * n + 1) \div 2 = n /\ (2 * n + 2) \div 2 = n + 1
         /\ (2 * n) % 2 = 0 /\ (2 * n + 1) % 2 = 1
OBVIOUS

LEMMA SizeIs ==
  ASSUME TypeOK
  PROVE  /\ Len(log) \in Nat /\ Size \in Nat
         /\ Size = 2 * Len(log) \/ Size = 2 * Len(log) + 1
         /\ half => Size = 2 * Len(log) + 1
<1>1. Len(log) \in Nat /\ half \in BOOLEAN
  BY LenProperties DEF TypeOK
<1>2. CASE half
  BY <1>1, <1>2 DEF Size
<1>3. CASE ~half
  BY <1>1, <1>3 DEF Size
<1> QED
  BY <1>2, <1>3

(* An offset within the log is a line and possibly a half.                 *)
LEMMA OffsetIs ==
  ASSUME TypeOK, offset <= Size
  PROVE  \E n \in 0 .. Len(log) :
           \/ offset = 2 * n /\ offset \div 2 = n /\ (offset + 1) \div 2 = n /\ offset % 2 = 0
           \/ offset = 2 * n + 1 /\ offset \div 2 = n /\ (offset + 1) \div 2 = n + 1 /\ offset % 2 = 1
<1> DEFINE n == offset \div 2
<1>1. Len(log) \in Nat /\ offset \in Nat /\ offset <= 2 * Len(log) + 1
  BY SizeIs DEF TypeOK
<1>2. n \in Nat /\ (offset = 2 * n \/ offset = 2 * n + 1)
  BY <1>1
<1>3. n \in 0 .. Len(log)
  BY <1>1, <1>2
<1> HIDE DEF n
<1>4. CASE offset = 2 * n
  BY <1>2, <1>3, <1>4, Halves
<1>5. CASE offset = 2 * n + 1
  <2>1. offset + 1 = 2 * n + 2
    BY <1>2, <1>5
  <2> QED
    BY <1>2, <1>3, <1>5, <2>1, Halves
<1> QED
  BY <1>2, <1>4, <1>5

(* A log that grows keeps what a reader at an offset within it has seen.   *)
LEMMA FollowsStays ==
  ASSUME TypeOK, offset <= Size, NEW e \in Nat, log' = Append(log, e),
         offset' = offset, batch' = batch, pushed'[Reader] = pushed[Reader],
         NEW i \in 0 .. Len(log), NEW j \in 0 .. Len(log), Follows(i, j)
  PROVE  Follows(i, j)'
<1>1. log \in Seq(Nat) /\ Len(log) \in Nat
  BY LenProperties DEF TypeOK
<1>2. offset \div 2 \in 0 .. Len(log)
  BY OffsetIs
<1>3. 1 \in Nat \ {0} /\ j + 1 \in Nat \ {0}
  BY <1>1
<1>4. SubSeq(log', 1, i) = SubSeq(log, 1, i)
  BY <1>1, <1>3, StretchStays
<1>5. SubSeq(log', j + 1, offset \div 2) = SubSeq(log, j + 1, offset \div 2)
  BY <1>1, <1>2, <1>3, StretchStays
<1> QED
  BY <1>4, <1>5 DEF Follows

LEMMA ReadKept ==
  ASSUME TypeOK, ReadOK, [Next]_vars
  PROVE  ReadOK'
<1> USE NamesDiffer
<1> DEFINE L == Len(log)
<1>1. /\ log \in Seq(Nat) /\ L \in Nat /\ offset \in Nat /\ batch \in Seq(Nat)
      /\ pushed[Reader] \in Seq(Nat) /\ 1 \in Nat \ {0}
  BY LenProperties DEF TypeOK
<1>2. offset <= Size
  BY DEF ReadOK
<1>3. CASE UNCHANGED <<log, half, tail, at[Reader], pushed[Reader]>>
  BY <1>3 DEF ReadOK, Follows, Size, tail
<1>4. ASSUME NEW r \in Recorders, Mint(r) \/ LogFails(r) \/ WriteTmp(r) \/ ReplaceTmp(r)
      PROVE  ReadOK'
  <2>1. at'[Reader] = at[Reader]
    BY <1>4 DEF TypeOK, Mint, LogFails, WriteTmp, ReplaceTmp, Leave
  <2> QED
    BY <1>3, <1>4, <2>1 DEF Mint, LogFails, WriteTmp, ReplaceTmp, Leave, bridge, files
<1>5. ASSUME NEW r \in Recorders, PushEvent(r)
      PROVE  ReadOK'
  <2>1. at'[Reader] = at[Reader] /\ pushed'[Reader] = pushed[Reader]
    BY <1>5, Announced DEF TypeOK, PushEvent
  <2> QED
    BY <1>3, <1>5, <2>1 DEF PushEvent, files
<1>6. ASSUME NEW r \in Recorders, LogBegins(r)
      PROVE  ReadOK'
  <2>1. at'[Reader] = at[Reader] /\ UNCHANGED <<log, pushed, tail>> /\ half'
    BY <1>6 DEF TypeOK, LogBegins, bridge
  <2>2. offset' <= Size'
    BY <1>1, <1>2, <2>1, SizeIs DEF Size, tail
  <2> QED
    BY <2>1, <2>2 DEF ReadOK, Follows, tail
<1>7. ASSUME NEW r \in Recorders, LogEnds(r)
      PROVE  ReadOK'
  <2>1. /\ at'[Reader] = at[Reader] /\ UNCHANGED <<pushed, offset, batch>>
        /\ log' = Append(log, count) /\ half' = FALSE /\ count \in Nat
    BY <1>7 DEF TypeOK, LogEnds, bridge, tail
  <2>2. Len(log') = L + 1
    BY <1>1, <2>1, AppendProperties
  <2>3. offset' <= Size'
    BY <1>1, <1>2, <2>1, <2>2, SizeIs DEF Size
  <2>4. \A i \in 0 .. L : i \in 0 .. Len(log') /\ SubSeq(log', 1, i) = SubSeq(log, 1, i)
    BY <1>1, <2>1, <2>2, StretchStays
  <2>5. \A i, j \in 0 .. L : Follows(i, j) => Follows(i, j)'
    BY <1>2, <2>1, FollowsStays
  <2>6. at[Reader] = "tail" => \E i, j \in 0 .. Len(log') : i <= j /\ Follows(i, j)'
    BY <2>4, <2>5 DEF ReadOK
  <2>7. at[Reader] \in {"state", "replace", "stat"} =>
          \E i \in 0 .. Len(log') : pushed'[Reader] = SubSeq(log', 1, i)
    BY <2>1, <2>4 DEF ReadOK
  <2> QED
    BY <2>1, <2>3, <2>6, <2>7 DEF ReadOK
<1>8. CASE Load
  <2>1. /\ pushed'[Reader] = log /\ at'[Reader] = "state" /\ batch = <<>>
        /\ UNCHANGED <<log, half, offset, batch>>
    BY <1>8 DEF TypeOK, ReadOK, Load, files, tail
  <2>2. log = SubSeq(log, 1, L) /\ L \in 0 .. L
    BY <1>1, SubSeqFull
  <2> QED
    BY <1>2, <2>1, <2>2 DEF ReadOK, Size
<1>9. CASE WriteTmp(Reader)
  <2>1. at[Reader] = "state" /\ at'[Reader] = "replace" /\ UNCHANGED <<pushed, log, half, tail>>
    BY <1>9 DEF TypeOK, WriteTmp, bridge
  <2> QED
    BY <2>1 DEF ReadOK, Size, tail
<1>10. CASE ReaderReplace
  <2>1. /\ at[Reader] = "replace" /\ UNCHANGED <<log, half, offset, batch>>
        /\ \/ at'[Reader] = "stat" /\ pushed'[Reader] = pushed[Reader]
           \/ at'[Reader] = "idle"
    BY <1>10 DEF TypeOK, ReaderReplace, tail
  <2> QED
    BY <2>1 DEF ReadOK, Size
<1>11. CASE Stat
  <2>1. /\ at[Reader] = "stat" /\ at'[Reader] = "tail" /\ offset' = Size
        /\ UNCHANGED <<log, half, batch, pushed>>
    BY <1>11 DEF TypeOK, Stat, bridge, files
  <2>2. PICK i \in 0 .. L : pushed[Reader] = SubSeq(log, 1, i)
    BY <2>1 DEF ReadOK
  <2>3. batch = <<>>
    BY <2>1 DEF ReadOK
  <2>4. Size \div 2 = L /\ L <= (Size + 1) \div 2
    <3>1. CASE Size = 2 * L
      <4>1. Size + 1 = 2 * L + 1
        BY <1>1, <3>1
      <4> QED
        BY <1>1, <3>1, <4>1, Halves
    <3>2. CASE Size = 2 * L + 1
      <4>1. Size + 1 = 2 * L + 2
        BY <1>1, <3>2
      <4> QED
        BY <1>1, <3>2, <4>1, Halves
    <3> QED
      BY <3>1, <3>2, SizeIs
  <2>5. SubSeq(log, L + 1, L) = <<>>
    BY <1>1, SubSeqEmpty
  <2>6. pushed[Reader] \o batch = SubSeq(log, 1, i) \o SubSeq(log, L + 1, L)
    BY <2>2, <2>3, <2>5, Zenon
  <2>7. i <= L /\ L \in 0 .. L /\ L >= L
    BY <1>1
  <2>8. Follows(i, L)'
    BY <2>1, <2>4, <2>6, <2>7 DEF Follows
  <2>9. offset' <= Size'
    BY <2>1, SizeIs DEF Size
  <2> QED
    BY <2>1, <2>7, <2>8, <2>9 DEF ReadOK
<1>12. CASE Poll
  <2>1. /\ at[Reader] = "tail" /\ batch = <<>> /\ 2 * L > offset
        /\ batch' = SubSeq(log, (offset + 1) \div 2 + 1, L) /\ offset' = 2 * L
        /\ UNCHANGED <<log, half, at, pushed>>
    BY <1>12 DEF Poll, bridge, files
  <2>2. PICK i \in 0 .. L : \E j \in 0 .. L : i <= j /\ Follows(i, j)
    BY <2>1 DEF ReadOK
  <2>3. PICK j \in 0 .. L : i <= j /\ Follows(i, j)
    BY <2>2
  <2>4. j <= (offset + 1) \div 2 /\ (offset % 2 = 1 => j >= offset \div 2)
    BY <2>3 DEF Follows
  <2>5. pushed[Reader] = SubSeq(log, 1, i) \o SubSeq(log, j + 1, offset \div 2)
    BY <1>1, <2>1, <2>3, ConcatEmptySeq DEF Follows
  <2>6. offset' \div 2 = L /\ offset' % 2 = 0 /\ (offset' + 1) \div 2 = L
    BY <1>1, <2>1, Halves
  <2>7. PICK n \in 0 .. L :
          \/ offset = 2 * n /\ offset \div 2 = n /\ (offset + 1) \div 2 = n /\ offset % 2 = 0
          \/ offset = 2 * n + 1 /\ offset \div 2 = n /\ (offset + 1) \div 2 = n + 1 /\ offset % 2 = 1
    BY <1>2, OffsetIs
  <2>8. /\ SubSeq(log, 1, i) \in Seq(Nat)
        /\ \A k \in 0 .. L, m \in 0 .. L : SubSeq(log, k + 1, m) \in Seq(Nat)
    BY <1>1, Stretch
  <2>9. CASE offset = 2 * n /\ offset \div 2 = n /\ (offset + 1) \div 2 = n /\ offset % 2 = 0
    <3>1. j <= n /\ offset \div 2 = n /\ (offset + 1) \div 2 = n
      BY <1>1, <2>3, <2>7, <2>9 DEF Follows
    <3>2. SubSeq(log, j + 1, n) \o SubSeq(log, n + 1, L) = SubSeq(log, j + 1, L)
      <4>1. j + 1 \in 1 .. L + 1 /\ n \in (j + 1) - 1 .. L /\ L \in n .. L
        BY <1>1, <3>1
      <4> QED
        BY <1>1, <4>1, ConcatAdjacentSubSeq
    <3>3. (SubSeq(log, 1, i) \o SubSeq(log, j + 1, n)) \o SubSeq(log, n + 1, L)
            = SubSeq(log, 1, i) \o (SubSeq(log, j + 1, n) \o SubSeq(log, n + 1, L))
      <4>1. L \in 0 .. L
        BY <1>1
      <4>2. /\ SubSeq(log, j + 1, n) \in Seq(Nat) /\ SubSeq(log, n + 1, L) \in Seq(Nat)
            /\ SubSeq(log, 1, i) \in Seq(Nat)
        BY <2>8, <4>1
      <4> QED
        BY <4>2, ConcatAssociates
    <3>4. pushed'[Reader] \o batch' = SubSeq(log', 1, i) \o SubSeq(log', j + 1, L)
      BY <2>1, <2>5, <3>1, <3>2, <3>3, Zenon
    <3>5. /\ j <= (offset' + 1) \div 2
          /\ offset' % 2 = 1 => j >= offset' \div 2
      BY <1>1, <2>6
    <3>6. Follows(i, j)'
      BY <2>6, <3>4, <3>5, Zenon DEF Follows
    <3>7. i \in 0 .. Len(log') /\ j \in 0 .. Len(log')
      BY <2>1
    <3> QED
      BY <1>1, <2>1, <2>3, <3>6, <3>7, SizeIs DEF ReadOK, Size
  <2>10. CASE offset = 2 * n + 1 /\ offset \div 2 = n /\ (offset + 1) \div 2 = n + 1 /\ offset % 2 = 1
    <3>1. offset \div 2 = n /\ (offset + 1) \div 2 = n + 1 /\ n + 1 <= L /\ n < j + 1
      <4>1. n + 1 <= L
        <5>1. 2 * L > 2 * n + 1
          BY <2>1, <2>10
        <5> QED
          BY <1>1, <5>1
      <4>2. j >= n
        BY <2>4, <2>10
      <4> QED
        BY <1>1, <2>10, <4>1, <4>2
    <3>2. SubSeq(log, j + 1, n) = <<>>
      BY <1>1, <3>1, SubSeqEmpty
    <3>3. pushed[Reader] = SubSeq(log, 1, i)
      BY <2>5, <2>8, <3>1, <3>2, ConcatEmptySeq
    <3>4. pushed'[Reader] \o batch' = SubSeq(log', 1, i) \o SubSeq(log', (n + 1) + 1, L)
      BY <2>1, <3>1, <3>3, Zenon
    <3>5. n + 1 \in 0 .. L /\ i <= n + 1
      BY <1>1, <2>3, <2>7, <2>10, <3>1 DEF Follows
    <3>6. Follows(i, n + 1)'
      <4>1. /\ n + 1 <= (offset' + 1) \div 2
            /\ offset' % 2 = 1 => n + 1 >= offset' \div 2
        BY <1>1, <2>6, <3>1
      <4> QED
        BY <2>6, <3>4, <4>1, Zenon DEF Follows
    <3>7. i \in 0 .. Len(log') /\ n + 1 \in 0 .. Len(log')
      BY <2>1, <3>5
    <3> QED
      BY <1>1, <2>1, <3>5, <3>6, <3>7, SizeIs DEF ReadOK, Size
  <2> QED
    BY <2>7, <2>9, <2>10
<1>13. CASE TailPush
  <2>1. Head(batch) \in Nat /\ batch # <<>> /\ at[Reader] = "tail"
    BY <1>13, HeadTailProperties DEF TypeOK, ReadOK, TailPush
  <2>2. /\ pushed'[Reader] = Append(pushed[Reader], Head(batch)) /\ batch' = Tail(batch)
        /\ UNCHANGED <<log, half, at, offset>>
    BY <1>13, <2>1, Announced DEF TailPush, files
  <2>3. pushed'[Reader] \o batch' = pushed[Reader] \o batch
    BY <1>1, <2>1, <2>2, SentOn
  <2>4. \A i, j \in 0 .. L : Follows(i, j) => Follows(i, j)'
    BY <2>2, <2>3 DEF Follows
  <2> QED
    BY <2>1, <2>2, <2>4 DEF ReadOK, Size
<1>14. ASSUME NEW b \in Bridges, NEW c \in Clients, Put(b, c)
       PROVE  ReadOK'
  BY <1>3, <1>14 DEF Put, files
<1>15. ASSUME NEW b \in Bridges, Close(b)
       PROVE  ReadOK'
  BY <1>3, <1>15 DEF Close, bridge, files
<1>16. ASSUME NEW c \in Clients, Subscribe(c) \/ Send(c) \/ EndStream(c) \/ HangUp(c)
       PROVE  ReadOK'
  BY <1>3, <1>16 DEF Subscribe, Send, EndStream, HangUp, bridge, files
<1>17. CASE UNCHANGED vars
  BY <1>3, <1>17 DEF vars, bridge, files
<1> QED
  BY <1>4, <1>5, <1>6, <1>7, <1>8, <1>9, <1>10, <1>11, <1>12, <1>13, <1>14, <1>15, <1>16,
     <1>17, Steps

-----------------------------------------------------------------------------
THEOREM FeedInvariant == Spec => []FeedInv
<1>1. FeedInv /\ [Next]_vars => FeedInv'
  BY TypesKept, LockKept, PutKept, IdsKept, StreamKept, ReadKept DEF FeedInv
<1> QED
  BY <1>1, InitFeed, PTL DEF Spec

(* The types, and that the view's lock is held by the one recorder at      *)
(* work (DashboardView._lock).                                             *)
THEOREM FeedTypes == Spec => []TypeOK
<1>1. FeedInv => TypeOK
  BY DEF FeedInv
<1> QED
  BY <1>1, FeedInvariant, PTL

(* Whatever the number of recording threads, and whichever writes fail,    *)
(* ids are unique and in order in the log and on the bridge, if the view   *)
(* found no more history than a buffer holds (record_event).               *)
THEOREM IdsAreUnique == Spec => []UniqueIds
<1>1. FeedInv => UniqueIds
  BY DEF FeedInv, IdsOK, UniqueIds, Upto
<1> QED
  BY <1>1, FeedInvariant, PTL

(* Every client of either bridge hears an unbroken stretch that ends with  *)
(* the last event put to it and is no shorter than the buffer, whenever it *)
(* subscribes (EventBridge.push and subscribe_sync).                       *)
THEOREM StreamsUnbroken == Spec => []StreamUnbroken
<1>1. FeedInv => StreamUnbroken
  BY DEF FeedInv
<1> QED
  BY <1>1, FeedInvariant, PTL

(* The view of another process shows the log with at most one gap, between *)
(* what it loaded and where its tail begins (_EventLogTail).               *)
THEOREM TailFollowsLog == Spec => []ReaderFollowsLog
<1>1. FeedInv => ReaderFollowsLog
  BY DEF FeedInv, ReadOK, Follows, ReaderFollowsLog
<1> QED
  BY <1>1, FeedInvariant, PTL
=============================================================================
