-------------------------- MODULE CurriculumProofs --------------------------
(* Proofs about admission, curriculum and store: the id of a snapshot is the     *)
(* hash of its graph, the regime of a curriculum is never forgotten, and what    *)
(* the curriculum hands to training keeps FrontierContract. One invariant serves *)
(* all three: it says how the heap is laid out around the frontier and the       *)
(* attempt, what an attempt may be, and what a file remembers of a frontier.     *)
EXTENDS Curriculum, SequenceTheorems, TLAPS

(* The frontier's graph comes first, and the one of the attempt right after it. *)
HeapOK ==
    /\ attempt = Idle /\ frontier # NoSnapshot => heap = <<heap[1]>>
    /\ attempt # Idle /\ frontier = NoSnapshot => heap = <<heap[1]>> /\ attempt.obj = 1
    /\ attempt # Idle /\ frontier # NoSnapshot => heap = <<heap[1], heap[2]>> /\ attempt.obj = 2

(* What is being admitted, why, and with which difficulty. *)
AttemptOK ==
    attempt # Idle =>
        /\ attempt = [purpose |-> attempt.purpose, obj |-> attempt.obj, tasks |-> attempt.tasks,
                      difficulty |-> attempt.difficulty, tries |-> attempt.tries]
        /\ attempt.purpose \in {"build", "patch", "grow"}
        /\ attempt.purpose = "build" <=> frontier = NoSnapshot
        /\ attempt.tasks = Tasks(heap[attempt.obj])
        /\ attempt.tries \in 1 .. max_repairs + 1
        /\ attempt.purpose = "patch" => attempt.difficulty = frontier.lineage.difficulty
        /\ attempt.purpose = "grow" => Stepped(frontier.lineage.difficulty, attempt.difficulty, direction)

(* The lineage of a snapshot known under an id. *)
LineageOK(id, lineage) ==
    /\ lineage.kind \in {"build", "patch", "grow"}
    /\ lineage.difficulty \in 0 .. 10 \cup {NoPrior}
    /\ <<id, lineage.parent>> \in kept
    /\ <<id, lineage.difficulty>> \in walked

FrontierOK ==
    frontier # NoSnapshot =>
        /\ frontier.obj = 1
        /\ frontier.id = content_hash(heap[1])
        /\ LineageOK(frontier.id, frontier.lineage)

(* A file that is whole holds the snapshot of its name, a frontier there was. *)
DiskOK ==
    \A id \in DOMAIN disk : disk[id] # Torn =>
        /\ disk[id].id = id
        /\ content_hash(Noted(disk[id].graph)) = id
        /\ LineageOK(id, disk[id].lineage)

(* Evolving and saving are about a frontier, and exclude each other. *)
PhaseOK ==
    /\ direction \in Directions \cup {"none"}
    /\ direction = "none" => candidates = <<>>
    /\ direction # "none" => frontier # NoSnapshot
    /\ writing # NoSnapshot => writing = frontier /\ attempt = Idle /\ direction = "none"
    /\ saves \in 0 .. MaxSaves

CurriculumInv == HeapOK /\ AttemptOK /\ FrontierOK /\ DiskOK /\ PhaseOK

-----------------------------------------------------------------------------
(* The heap, as a sequence.                                                      *)

LEMMA PairAppended ==
    ASSUME NEW a, NEW b
    PROVE  Append(<<a>>, b) = <<a, b>>
<1>1. ASSUME NEW S, NEW s \in Seq(S), NEW t \in Seq(S), NEW e \in S,
             Len(t) = Len(s) + 1, \A i \in 1 .. Len(s) : t[i] = s[i], t[Len(s) + 1] = e
      PROVE  Append(s, e) = t
  <2>1. /\ Append(s, e) \in Seq(S)
        /\ Len(Append(s, e)) = Len(s) + 1
        /\ \A i \in 1 .. Len(s) : Append(s, e)[i] = s[i]
        /\ Append(s, e)[Len(s) + 1] = e
    BY AppendProperties
  <2>2. \A i \in 1 .. Len(t) : Append(s, e)[i] = t[i]
    BY <1>1, <2>1
  <2> QED
    BY <1>1, <2>1, <2>2, SeqEqual
<1>2. <<a>> \in Seq({a, b}) /\ <<a, b>> \in Seq({a, b}) /\ b \in {a, b}
  OBVIOUS
<1>3. Len(<<a>>) = 1 /\ Len(<<a, b>>) = 2 /\ <<a>>[1] = a /\ <<a, b>>[1] = a /\ <<a, b>>[2] = b
  OBVIOUS
<1>4. Len(<<a, b>>) = Len(<<a>>) + 1 /\ (\A i \in 1 .. Len(<<a>>) : <<a, b>>[i] = <<a>>[i])
      /\ <<a, b>>[Len(<<a>>) + 1] = b
  BY <1>3
<1> QED
  BY <1>1, <1>2, <1>4

LEMMA FirstOfPair ==
    ASSUME NEW a, NEW b
    PROVE  SubSeq(<<a, b>>, 1, 1) = <<a>>
<1> DEFINE S == {a, b}
           s == <<a>>
           t == <<a, b>>
           u == SubSeq(t, 1, 1)
<1>1. s \in Seq(S) /\ Len(s) = 1 /\ s[1] = a
  OBVIOUS
<1>2. t \in Seq(S) /\ Len(t) = 2 /\ t[1] = a
  OBVIOUS
<1> HIDE DEF S, t
<1>3. u \in Seq(S) /\ Len(u) = 1 /\ u[1] = a
  BY <1>2
<1> HIDE DEF s, u
<1>4. \A i \in 1 .. Len(u) : u[i] = s[i]
  BY <1>1, <1>3
<1>5. u = s
  BY <1>1, <1>3, <1>4, SeqEqual
<1> QED
  BY <1>5 DEF u, t, s

(* The clone of a lone graph is appended to it. *)
LEMMA Cloned ==
    ASSUME NEW a
    PROVE  Clone(<<a>>, 1) = [heap |-> <<a, a>>, obj |-> 2]
  BY PairAppended DEF Clone

-----------------------------------------------------------------------------
(* What a file drops are the notes: hashing what was read gives the same hash.  *)
LEMMA HashOfFile ==
    ASSUME NEW g
    PROVE  /\ content_hash(Noted(content_hash(g))) = content_hash(g)
           /\ content_hash(g) # NoWorld
<1> DEFINE c == content_hash(g)
           h == Noted(c)
<1>1. h.edges = g.edges /\ DOMAIN h.nodes = DOMAIN g.nodes
  BY DEF Noted, content_hash
<1>2. ASSUME NEW id \in DOMAIN g.nodes
      PROVE  node_data(h.nodes[id]) = node_data(g.nodes[id])
  BY DEF Noted, content_hash, node_data
<1>3. c # NoWorld
  BY DEF content_hash, NoWorld
<1>4. content_hash(h) = c
  <2> HIDE DEF h
  <2> QED
    BY <1>1, <1>2 DEF content_hash
<1> QED
  BY <1>3, <1>4

(* A graph with other notes: the same nodes, up to what nothing here reads.     *)
AlikeButNotes(g, h) ==
    /\ h.edges = g.edges
    /\ DOMAIN h.nodes = DOMAIN g.nodes
    /\ \A id \in DOMAIN g.nodes : node_data(h.nodes[id]) = node_data(g.nodes[id])

LEMMA FileIsAlike ==
    ASSUME NEW g
    PROVE  AlikeButNotes(g, Noted(content_hash(g)))
  BY DEF AlikeButNotes, Noted, content_hash, node_data

LEMMA AlikeNodes ==
    ASSUME NEW g, NEW h, AlikeButNotes(g, h), NEW id \in DOMAIN g.nodes
    PROVE  /\ h.nodes[id].kind = g.nodes[id].kind
           /\ h.nodes[id].hidden = g.nodes[id].hidden
           /\ h.nodes[id].attrs = g.nodes[id].attrs
  BY DEF AlikeButNotes, node_data

(* No check of the ontology reads a note.                                        *)
LEMMA SameIssues ==
    ASSUME NEW g, NEW h, NEW ont, AlikeButNotes(g, h)
    PROVE  validate(h, ont) = validate(g, ont)
<1>1. h.edges = g.edges /\ DOMAIN h.nodes = DOMAIN g.nodes
  BY DEF AlikeButNotes
<1>2. \A id \in DOMAIN g.nodes : h.nodes[id].kind = g.nodes[id].kind /\ h.nodes[id].attrs = g.nodes[id].attrs
  BY AlikeNodes
<1>3. Dangling(h) = Dangling(g)
  BY <1>1, Zenon DEF Dangling
<1>4. \A value, slot : Conforms(h, value, slot) = Conforms(g, value, slot)
  <2> SUFFICES ASSUME NEW value, NEW slot
               PROVE  Conforms(h, value, slot) = Conforms(g, value, slot)
    OBVIOUS
  <2>1. (value \in DOMAIN h.nodes /\ h.nodes[value].kind \in slot.values)
          = (value \in DOMAIN g.nodes /\ g.nodes[value].kind \in slot.values)
    BY <1>1, <1>2
  <2>2. CASE slot.type = "enum"
    BY <2>2 DEF Conforms
  <2>3. CASE slot.type = "ref"
    BY <2>1, <2>3 DEF Conforms
  <2>4. CASE slot.type \notin {"enum", "ref"}
    BY <2>4 DEF Conforms
  <2> QED
    BY <2>2, <2>3, <2>4
<1>5. \A id \in DOMAIN g.nodes : AttrIssues(h, ont, id) = AttrIssues(g, ont, id)
  <2> SUFFICES ASSUME NEW id \in DOMAIN g.nodes
               PROVE  AttrIssues(h, ont, id) = AttrIssues(g, ont, id)
    OBVIOUS
  <2> DEFINE Bad(w, slots, attrs) ==
               {a \in DOMAIN slots \cap DOMAIN attrs : ~Conforms(w, attrs[a], slots[a])}
             Found(bad, slots, attrs) ==
               {<<"missing_required_attr", id>> : a \in {a \in DOMAIN slots \ DOMAIN attrs : slots[a].required}}
               \cup {<<"attr_invalid", id>> : a \in bad}
             Of(w, kind, attrs) == Found(Bad(w, Slots(ont, kind), attrs), Slots(ont, kind), attrs)
  <2>1. AttrIssues(g, ont, id) = Of(g, g.nodes[id].kind, g.nodes[id].attrs)
    BY Zenon DEF AttrIssues
  <2>2. AttrIssues(h, ont, id) = Of(h, h.nodes[id].kind, h.nodes[id].attrs)
    BY Zenon DEF AttrIssues
  <2>3. \A slots, attrs : Bad(h, slots, attrs) = Bad(g, slots, attrs)
    BY <1>4
  <2> HIDE DEF Bad, Found
  <2> QED
    BY <1>2, <2>1, <2>2, <2>3
<1>6. NodeIssues(h, ont) = NodeIssues(g, ont)
  BY <1>1, <1>2, <1>5 DEF NodeIssues
<1>7. Declared(h, ont) = Declared(g, ont) /\ Joined(h, ont) = Joined(g, ont)
  BY <1>1 DEF Declared, Joined
<1>8. EndpointIssues(h, ont) = EndpointIssues(g, ont)
  <2> DEFINE Matches(w, e) ==
               <<w.nodes[w.edges[e].src].kind, w.nodes[w.edges[e].dst].kind>>
                 \in ont.edge_kinds[w.edges[e].kind].endpoints
  <2>1. \A e \in Joined(g, ont) : Matches(h, e) = Matches(g, e)
    BY <1>1, <1>2 DEF Joined
  <2>2. {e \in Joined(h, ont) : ont.edge_kinds[h.edges[e].kind].endpoints # {} /\ ~Matches(h, e)}
          = {e \in Joined(g, ont) : ont.edge_kinds[g.edges[e].kind].endpoints # {} /\ ~Matches(g, e)}
    <3> HIDE DEF Matches
    <3> QED
      BY <1>1, <1>7, <2>1
  <2> QED
    BY <1>1, <1>7, <2>2, Zenon DEF EndpointIssues
<1>9. DegreeIssues(h, ont) = DegreeIssues(g, ont)
  <2> DEFINE Over(nodes, edges, joined) ==
               LET outs(n, k) == {e \in joined : edges[e].src = n /\ edges[e].kind = k}
                   ins(n, k) == {e \in joined : edges[e].dst = n /\ edges[e].kind = k}
               IN UNION {{<<"edge_src_degree_exceeded", n>> :
                             k \in {k \in DOMAIN ont.edge_kinds : Cardinality(outs(n, k)) > ont.edge_kinds[k].src_max}}
                         \cup {<<"edge_dst_degree_exceeded", n>> :
                             k \in {k \in DOMAIN ont.edge_kinds : Cardinality(ins(n, k)) > ont.edge_kinds[k].dst_max}}
                         : n \in nodes}
  <2>1. \A w : DegreeIssues(w, ont) = Over(DOMAIN w.nodes, w.edges, Joined(w, ont))
    BY Zenon DEF DegreeIssues
  <2> HIDE DEF Over
  <2> QED
    BY <1>1, <1>7, <2>1
<1> QED
  BY <1>3, <1>6, <1>8, <1>9 DEF validate

-----------------------------------------------------------------------------
(* The invariant is kept. First what the actions have in common.                *)

(* A file goes on holding a frontier there was. *)
LEMMA FilesKept ==
    ASSUME DiskOK, UNCHANGED disk, kept \subseteq kept', walked \subseteq walked'
    PROVE  DiskOK'
  BY DEF DiskOK, LineageOK

(* An attempt is given up: only the frontier's graph stays. *)
LEMMA GivenUp ==
    ASSUME CurriculumInv, attempt # Idle, attempt' = Idle, heap' = SubSeq(heap, 1, attempt.obj - 1),
           UNCHANGED frontier
    PROVE  HeapOK' /\ AttemptOK' /\ (frontier # NoSnapshot => heap'[1] = heap[1])
<1>1. CASE frontier = NoSnapshot
  BY <1>1 DEF HeapOK, AttemptOK
<1>2. CASE frontier # NoSnapshot
  <2>1. attempt.obj - 1 = 1 /\ \E a, b : heap = <<a, b>>
    BY <1>2 DEF CurriculumInv, HeapOK
  <2>2. PICK a, b : heap = <<a, b>>
    BY <2>1
  <2>3. heap' = <<a>> /\ heap[1] = a /\ heap'[1] = a
    <3>1. heap' = <<a>>
      BY <2>1, <2>2, FirstOfPair
    <3>2. <<a, b>>[1] = a /\ <<a>>[1] = a
      OBVIOUS
    <3> QED
      BY <2>2, <3>1, <3>2, Zenon
  <2>4. heap' = <<heap'[1]>>
    BY <2>3, Zenon
  <2>5. HeapOK'
    BY <1>2, <2>4 DEF HeapOK
  <2>6. AttemptOK'
    BY DEF AttemptOK
  <2> QED
    BY <2>3, <2>5, <2>6
<1> QED
  BY <1>1, <1>2

(* The frontier stays what it was. *)
LEMMA FrontierStays ==
    ASSUME FrontierOK, UNCHANGED <<frontier, kept, walked>>, frontier # NoSnapshot => heap'[1] = heap[1]
    PROVE  FrontierOK'
  BY DEF FrontierOK, LineageOK, content_hash

(* A world becomes the frontier: the one left in the heap, under its hash.      *)
LEMMA Adopted ==
    ASSUME NEW g, NEW tasks, NEW lineage,
           Adopt([id |-> content_hash(g), obj |-> 1, tasks |-> tasks, lineage |-> lineage]),
           heap' = <<g>>, attempt' = Idle,
           lineage.kind \in {"build", "patch", "grow"},
           lineage.difficulty \in 0 .. 10 \cup {NoPrior}
    PROVE  /\ HeapOK' /\ AttemptOK' /\ FrontierOK' /\ frontier' # NoSnapshot
           /\ kept \subseteq kept' /\ walked \subseteq walked'
<1>1. heap'[1] = g
  OBVIOUS
<1>2. frontier' = [id |-> content_hash(g), obj |-> 1, tasks |-> tasks, lineage |-> lineage]
      /\ kept' = kept \cup {<<content_hash(g), lineage.parent>>}
      /\ walked' = walked \cup {<<content_hash(g), lineage.difficulty>>}
  BY DEF Adopt
<1>3. frontier' # NoSnapshot
  BY <1>2 DEF NoSnapshot
<1>4. HeapOK' /\ AttemptOK'
  BY <1>1, <1>3 DEF HeapOK, AttemptOK
<1>5. FrontierOK'
  BY <1>1, <1>2 DEF FrontierOK, LineageOK, content_hash
<1> QED
  BY <1>2, <1>3, <1>4, <1>5

(* An admission is under way: an attempt is not idle. *)
LEMMA Attempted ==
    ASSUME NEW purpose \in {"build", "patch", "grow"}, NEW obj, NEW tasks, NEW difficulty, NEW a,
           a = Admission(purpose, obj, tasks, difficulty)
    PROVE  /\ a # Idle
           /\ a = [purpose |-> a.purpose, obj |-> a.obj, tasks |-> a.tasks,
                   difficulty |-> a.difficulty, tries |-> a.tries]
           /\ a.purpose = purpose /\ a.obj = obj /\ a.tasks = tasks /\ a.difficulty = difficulty
           /\ a.tries \in 1 .. max_repairs + 1
<1>1. a.purpose = purpose /\ a.obj = obj /\ a.tasks = tasks /\ a.difficulty = difficulty /\ a.tries = 1
  BY DEF Admission
<1>2. 1 \in 1 .. max_repairs + 1
  BY BudgetAssumption
<1>3. a # Idle
  BY <1>1 DEF Idle
<1>4. a = [purpose |-> a.purpose, obj |-> a.obj, tasks |-> a.tasks, difficulty |-> a.difficulty, tries |-> a.tries]
  BY DEF Admission
<1> QED
  BY <1>1, <1>2, <1>3, <1>4

-----------------------------------------------------------------------------
(* One lemma per action.                                                         *)

LEMMA InitOK == Init => CurriculumInv
  BY BudgetAssumption DEF Init, CurriculumInv, HeapOK, AttemptOK, FrontierOK, DiskOK, PhaseOK

LEMMA BuildKeeps ==
    ASSUME CurriculumInv, Build
    PROVE  CurriculumInv'
<1>1. PICK g \in Samples : heap' = <<g>> /\ attempt' = Admission("build", 1, Tasks(g), NoPrior)
  BY DEF Build
<1>2. frontier = NoSnapshot /\ Quiet /\ UNCHANGED <<frontier, candidates, direction, disk, writing, saves, kept, walked>>
  BY DEF Build
<1>3. heap'[1] = g
  BY <1>1
<1>4. HeapOK' /\ AttemptOK'
  BY <1>1, <1>2, <1>3, Attempted DEF HeapOK, AttemptOK
<1>5. FrontierOK' /\ PhaseOK'
  BY <1>2 DEF FrontierOK, PhaseOK, CurriculumInv, Quiet
<1>6. DiskOK'
  BY <1>2, FilesKept DEF CurriculumInv
<1> QED
  BY <1>4, <1>5, <1>6 DEF CurriculumInv

LEMMA RepairKeeps ==
    ASSUME CurriculumInv, Repair
    PROVE  CurriculumInv'
<1>1. PICK g \in Samples : /\ heap' = [heap EXCEPT ![attempt.obj] = g]
                           /\ attempt' = [attempt EXCEPT !.tries = @ + 1, !.tasks = Tasks(g)]
  BY DEF Repair
<1>2. /\ attempt # Idle /\ attempt.tries <= max_repairs /\ attempt.purpose # "patch"
      /\ UNCHANGED <<frontier, candidates, direction, disk, writing, saves, kept, walked>>
  BY DEF Repair
<1>3. attempt = [purpose |-> attempt.purpose, obj |-> attempt.obj, tasks |-> attempt.tasks,
                 difficulty |-> attempt.difficulty, tries |-> attempt.tries]
  BY <1>2 DEF CurriculumInv, AttemptOK
<1>4. attempt' = [purpose |-> attempt.purpose, obj |-> attempt.obj, tasks |-> Tasks(g),
                  difficulty |-> attempt.difficulty, tries |-> attempt.tries + 1]
  BY <1>1, <1>3
<1>5. attempt' # Idle
  BY <1>2, <1>4 DEF Idle, CurriculumInv, AttemptOK
<1>6. HeapOK' /\ heap'[attempt.obj] = g /\ (frontier # NoSnapshot => heap'[1] = heap[1])
  <2>1. CASE frontier = NoSnapshot
    <3>1. heap = <<heap[1]>> /\ attempt.obj = 1
      BY <1>2, <2>1 DEF CurriculumInv, HeapOK
    <3>2. heap' = <<g>>
      BY <1>1, <3>1
    <3> QED
      BY <1>2, <1>4, <1>5, <2>1, <3>1, <3>2 DEF HeapOK
  <2>2. CASE frontier # NoSnapshot
    <3>1. heap = <<heap[1], heap[2]>> /\ attempt.obj = 2
      BY <1>2, <2>2 DEF CurriculumInv, HeapOK
    <3>2. heap' = <<heap[1], g>>
      BY <1>1, <3>1
    <3> QED
      BY <1>2, <1>4, <1>5, <2>2, <3>1, <3>2 DEF HeapOK
  <2> QED
    BY <2>1, <2>2
<1>7. attempt.tries + 1 \in 1 .. max_repairs + 1
  BY <1>2, BudgetAssumption DEF CurriculumInv, AttemptOK
<1>8. AttemptOK'
  BY <1>2, <1>4, <1>6, <1>7 DEF CurriculumInv, AttemptOK
<1>9. FrontierOK'
  BY <1>2, <1>6, FrontierStays DEF CurriculumInv
<1>10. DiskOK' /\ PhaseOK'
  BY <1>2, FilesKept DEF CurriculumInv, PhaseOK
<1> QED
  BY <1>6, <1>8, <1>9, <1>10 DEF CurriculumInv

LEMMA RejectedKeeps ==
    ASSUME CurriculumInv, Rejected
    PROVE  CurriculumInv'
<1>1. /\ attempt # Idle /\ attempt' = Idle /\ heap' = SubSeq(heap, 1, attempt.obj - 1)
      /\ UNCHANGED <<frontier, disk, writing, saves, kept, walked>>
      /\ IF attempt.purpose = "grow" THEN NoChild ELSE UNCHANGED <<candidates, direction>>
  BY DEF Rejected
<1>2. HeapOK' /\ AttemptOK' /\ FrontierOK'
  BY <1>1, GivenUp, FrontierStays DEF CurriculumInv
<1>3. DiskOK'
  BY <1>1, FilesKept DEF CurriculumInv
<1>4. PhaseOK'
  BY <1>1 DEF CurriculumInv, PhaseOK, NoChild
<1> QED
  BY <1>2, <1>3, <1>4 DEF CurriculumInv

LEMMA BuiltKeeps ==
    ASSUME CurriculumInv, Built
    PROVE  CurriculumInv'
<1>1. /\ attempt # Idle /\ attempt.purpose = "build"
      /\ Adopt(Snapshot(1, attempt.tasks, Lineage(NoWorld, "build", NoPrior)))
      /\ attempt' = Idle
      /\ UNCHANGED <<heap, candidates, direction, disk, writing, saves>>
  BY DEF Built
<1>2. frontier = NoSnapshot /\ heap = <<heap[1]>>
  BY <1>1 DEF CurriculumInv, AttemptOK, HeapOK
<1>3. HeapOK' /\ AttemptOK' /\ FrontierOK' /\ frontier' # NoSnapshot
      /\ kept \subseteq kept' /\ walked \subseteq walked'
  <2> DEFINE lineage == Lineage(NoWorld, "build", NoPrior)
  <2>1. lineage.kind \in {"build", "patch", "grow"} /\ lineage.difficulty \in 0 .. 10 \cup {NoPrior}
    BY DEF Lineage
  <2>2. Adopt([id |-> content_hash(heap[1]), obj |-> 1, tasks |-> attempt.tasks, lineage |-> lineage])
    BY <1>1 DEF Snapshot
  <2> HIDE DEF lineage
  <2> QED
    BY <1>1, <1>2, <2>1, <2>2, Adopted
<1>4. DiskOK'
  BY <1>1, <1>3, FilesKept DEF CurriculumInv
<1>5. PhaseOK'
  BY <1>1, <1>2, <1>3 DEF CurriculumInv, PhaseOK
<1> QED
  BY <1>3, <1>4, <1>5 DEF CurriculumInv

LEMMA EvolveBeginsKeeps ==
    ASSUME CurriculumInv, EvolveBegins
    PROVE  CurriculumInv'
<1>1. /\ Quiet /\ frontier # NoSnapshot
      /\ UNCHANGED <<heap, frontier, attempt, disk, writing, saves, kept, walked>>
  BY DEF EvolveBegins
<1>2. direction' \in Directions
  <2>1. direction' \in Chosen \ {"none"}
    BY DEF EvolveBegins
  <2>2. Chosen \subseteq Directions \cup {"none"}
    BY DEF Chosen, Directions, direction_from_reports, reward_variance_policy
  <2> QED
    BY <2>1, <2>2
<1>3. direction' # "none"
  BY <1>2 DEF Directions
<1>4. HeapOK' /\ AttemptOK' /\ FrontierOK'
  BY <1>1, FrontierStays DEF CurriculumInv, HeapOK, AttemptOK, Quiet
<1>5. DiskOK'
  BY <1>1, FilesKept DEF CurriculumInv
<1>6. PhaseOK'
  BY <1>1, <1>2, <1>3 DEF CurriculumInv, PhaseOK, Quiet
<1> QED
  BY <1>4, <1>5, <1>6 DEF CurriculumInv

(* The clone of the frontier's graph is its neighbour in the heap, and patching  *)
(* it leaves the frontier's graph alone.                                         *)
LEMMA TryPatchKeeps ==
    ASSUME CurriculumInv, TryPatch
    PROVE  CurriculumInv'
<1> DEFINE patch == Head(candidates).patch
           g == heap[1]
<1>1. attempt = Idle /\ candidates # <<>> /\ candidates' = Tail(candidates)
      /\ UNCHANGED <<frontier, direction, disk, writing, saves, kept, walked>>
  BY DEF TryPatch
<1>2. direction # "none" /\ frontier # NoSnapshot /\ writing = NoSnapshot
  BY <1>1 DEF CurriculumInv, PhaseOK
<1>3. heap = <<g>> /\ frontier.obj = 1
  BY <1>1, <1>2 DEF CurriculumInv, HeapOK, FrontierOK
<1>4. Clone(heap, frontier.obj) = [heap |-> <<g, g>>, obj |-> 2]
  BY <1>3, Cloned
<1> DEFINE Tried(ch, co) ==
             IF Collides(ch[co], patch)
             THEN heap' = SubSeq([ch EXCEPT ![co] = Updated(ch[co], patch)], 1, Len(heap)) /\ UNCHANGED attempt
             ELSE /\ heap' = [ch EXCEPT ![co] = apply_patch(ch[co], patch)]
                  /\ attempt' = Admission("patch", co, Tasks(apply_patch(ch[co], patch)), frontier.lineage.difficulty)
<1>5. Tried(<<g, g>>, 2) /\ <<g, g>>[2] = g
  <2>1. Tried(Clone(heap, frontier.obj).heap, Clone(heap, frontier.obj).obj)
    BY Zenon DEF TryPatch
  <2> HIDE DEF Tried
  <2> QED
    BY <1>4, <2>1
<1>6. PhaseOK' /\ DiskOK'
  BY <1>1, <1>2, FilesKept DEF CurriculumInv, PhaseOK
<1>7. CASE Collides(g, patch)
  <2>1. heap' = SubSeq([<<g, g>> EXCEPT ![2] = Updated(g, patch)], 1, Len(heap)) /\ UNCHANGED attempt
    BY <1>5, <1>7
  <2>2. [<<g, g>> EXCEPT ![2] = Updated(g, patch)] = <<g, Updated(g, patch)>>
    OBVIOUS
  <2>3. Len(heap) = 1
    BY <1>3
  <2>4. heap' = <<g>>
    BY <2>1, <2>2, <2>3, FirstOfPair
  <2>5. heap'[1] = heap[1]
    BY <2>4
  <2>6. HeapOK' /\ AttemptOK'
    BY <1>1, <2>1, <2>4, <2>5 DEF HeapOK, AttemptOK
  <2>7. FrontierOK'
    BY <1>1, <2>5, FrontierStays DEF CurriculumInv
  <2> QED
    BY <1>6, <2>6, <2>7 DEF CurriculumInv
<1>8. CASE ~Collides(g, patch)
  <2> DEFINE new == apply_patch(g, patch)
  <2>1. /\ heap' = [<<g, g>> EXCEPT ![2] = new]
        /\ attempt' = Admission("patch", 2, Tasks(new), frontier.lineage.difficulty)
    BY <1>5, <1>8
  <2> HIDE DEF new
  <2>2. heap' = <<g, new>>
    BY <2>1
  <2>3. heap'[1] = heap[1] /\ heap'[2] = new
    BY <2>2
  <2>4. HeapOK' /\ AttemptOK'
    BY <1>1, <1>2, <2>1, <2>2, <2>3, Attempted DEF HeapOK, AttemptOK
  <2>5. FrontierOK'
    BY <1>1, <2>3, FrontierStays DEF CurriculumInv
  <2> QED
    BY <1>6, <2>4, <2>5 DEF CurriculumInv
<1> QED
  BY <1>7, <1>8

LEMMA PatchLandsKeeps ==
    ASSUME CurriculumInv, PatchLands
    PROVE  CurriculumInv'
<1> DEFINE g == heap[attempt.obj]
           tasks == attempt.tasks
<1>1. /\ attempt # Idle /\ attempt.purpose = "patch" /\ attempt' = Idle /\ NoChild
      /\ UNCHANGED <<disk, writing, saves>>
      /\ heap' = <<g>>
      /\ Adopt([Snapshot(attempt.obj, tasks, PatchLineage) EXCEPT !.obj = 1])
  BY DEF PatchLands
<1>2. frontier # NoSnapshot /\ attempt.difficulty = frontier.lineage.difficulty
  BY <1>1 DEF CurriculumInv, AttemptOK
<1>3. HeapOK' /\ AttemptOK' /\ FrontierOK' /\ frontier' # NoSnapshot
      /\ kept \subseteq kept' /\ walked \subseteq walked'
  <2> DEFINE lineage == PatchLineage
  <2>1. lineage.kind \in {"build", "patch", "grow"} /\ lineage.difficulty \in 0 .. 10 \cup {NoPrior}
    BY <1>2 DEF PatchLineage, Lineage, CurriculumInv, FrontierOK, LineageOK
  <2>2. Adopt([id |-> content_hash(g), obj |-> 1, tasks |-> tasks, lineage |-> lineage])
    <3> HIDE DEF lineage
    <3>1. [Snapshot(attempt.obj, tasks, lineage) EXCEPT !.obj = 1]
            = [id |-> content_hash(g), obj |-> 1, tasks |-> tasks, lineage |-> lineage]
      BY DEF Snapshot
    <3> QED
      BY <1>1, <3>1 DEF lineage
  <2> HIDE DEF lineage, g, tasks
  <2> QED
    BY <1>1, <2>1, <2>2, Adopted
<1>4. DiskOK'
  BY <1>1, <1>3, FilesKept DEF CurriculumInv
<1>5. PhaseOK'
  BY <1>1, <1>2, <1>3 DEF CurriculumInv, PhaseOK, NoChild
<1> QED
  BY <1>3, <1>4, <1>5 DEF CurriculumInv

LEMMA PatchPassedOverKeeps ==
    ASSUME CurriculumInv, PatchPassedOver
    PROVE  CurriculumInv'
<1>1. /\ attempt # Idle /\ attempt' = Idle /\ heap' = SubSeq(heap, 1, attempt.obj - 1)
      /\ UNCHANGED <<frontier, candidates, direction, disk, writing, saves, kept, walked>>
  BY DEF PatchPassedOver
<1>2. HeapOK' /\ AttemptOK' /\ FrontierOK'
  BY <1>1, GivenUp, FrontierStays DEF CurriculumInv
<1>3. DiskOK' /\ PhaseOK'
  BY <1>1, FilesKept DEF CurriculumInv, PhaseOK
<1> QED
  BY <1>2, <1>3 DEF CurriculumInv

(* One step of the difficulty, within its range and the way it was meant to go. *)
LEMMA SteppedWithin ==
    ASSUME CurriculumInv, frontier # NoSnapshot, Baseline # NoPrior, NEW dir,
           DifficultyStep(dir) # 0, Clamped(Carried + DifficultyStep(dir)) # Carried
    PROVE  Stepped(frontier.lineage.difficulty, Clamped(Carried + DifficultyStep(dir)), dir)
<1>1. Carried \in 0 .. 10
  BY PriorAssumption DEF Carried, CurriculumInv, FrontierOK, LineageOK
<1>2. Carried = IF frontier.lineage.difficulty = NoPrior THEN Baseline ELSE frontier.lineage.difficulty
  BY DEF Carried
<1>3. (dir = "harden" /\ DifficultyStep(dir) = 2) \/ (dir = "soften" /\ DifficultyStep(dir) = -2)
  BY DEF DifficultyStep
<1>4. CASE dir = "harden" /\ DifficultyStep(dir) = 2
  <2>1. /\ Clamped(Carried + 2) \in 0 .. 10
        /\ Carried < Clamped(Carried + 2) /\ Clamped(Carried + 2) <= Carried + 2
    BY <1>1, <1>4 DEF Clamped
  <2> QED
    BY <1>2, <1>4, <2>1 DEF Stepped
<1>5. CASE dir = "soften" /\ DifficultyStep(dir) = -2
  <2>1. /\ Clamped(Carried + (-2)) \in 0 .. 10
        /\ Clamped(Carried + (-2)) < Carried /\ Carried <= Clamped(Carried + (-2)) + 2
    BY <1>1, <1>5 DEF Clamped
  <2> QED
    BY <1>2, <1>5, <2>1 DEF Stepped
<1> QED
  BY <1>3, <1>4, <1>5

LEMMA GrowKeeps ==
    ASSUME CurriculumInv, Grow
    PROVE  CurriculumInv'
<1> DEFINE stepped == Clamped(Carried + DifficultyStep(direction))
<1>1. attempt = Idle /\ direction # "none" /\ candidates = <<>>
      /\ UNCHANGED <<frontier, disk, writing, saves, kept, walked>>
  BY DEF Grow
<1>2. frontier # NoSnapshot /\ writing = NoSnapshot
  BY <1>1 DEF CurriculumInv, PhaseOK
<1>3. DiskOK'
  BY <1>1, FilesKept DEF CurriculumInv
<1>4. CASE NoChild /\ UNCHANGED <<heap, attempt>>
  <2>1. HeapOK' /\ AttemptOK' /\ FrontierOK'
    BY <1>1, <1>4, FrontierStays DEF CurriculumInv, HeapOK, AttemptOK
  <2>2. PhaseOK'
    BY <1>1, <1>4 DEF CurriculumInv, PhaseOK, NoChild
  <2> QED
    BY <1>3, <2>1, <2>2 DEF CurriculumInv
<1>5. ASSUME NEW g \in Samples,
             Baseline # NoPrior, DifficultyStep(direction) # 0, stepped # Carried,
             heap' = Append(heap, g),
             attempt' = Admission("grow", Len(heap) + 1, Tasks(g), stepped),
             UNCHANGED <<direction, candidates>>
      PROVE  CurriculumInv'
  <2>1. heap = <<heap[1]>>
    BY <1>1, <1>2 DEF CurriculumInv, HeapOK
  <2>2. heap' = <<heap[1], g>> /\ Len(heap) = 1
    <3>1. Append(<<heap[1]>>, g) = <<heap[1], g>>
      BY PairAppended
    <3>2. Len(<<heap[1]>>) = 1
      OBVIOUS
    <3> QED
      BY <1>5, <2>1, <3>1, <3>2, Zenon
  <2>3. heap'[1] = heap[1] /\ heap'[2] = g
    BY <2>2
  <2>4. Stepped(frontier.lineage.difficulty, stepped, direction)
    BY <1>2, <1>5, SteppedWithin
  <2> HIDE DEF stepped
  <2>5. HeapOK' /\ AttemptOK'
    BY <1>1, <1>2, <1>5, <2>2, <2>3, <2>4, Attempted DEF HeapOK, AttemptOK
  <2>6. FrontierOK'
    BY <1>1, <2>3, FrontierStays DEF CurriculumInv
  <2>7. PhaseOK'
    BY <1>1, <1>2, <1>5 DEF CurriculumInv, PhaseOK
  <2> QED
    BY <1>3, <2>5, <2>6, <2>7 DEF CurriculumInv
<1> QED
  BY <1>4, <1>5 DEF Grow

LEMMA GrownKeeps ==
    ASSUME CurriculumInv, Grown
    PROVE  CurriculumInv'
<1> DEFINE g == heap[attempt.obj]
           tasks == attempt.tasks
           lineage == Lineage(frontier.id, "grow", attempt.difficulty)
<1>1. /\ attempt # Idle /\ attempt.purpose = "grow" /\ attempt' = Idle /\ NoChild
      /\ UNCHANGED <<disk, writing, saves>>
  BY DEF Grown
<1>2. frontier # NoSnapshot /\ writing = NoSnapshot
  BY <1>1 DEF CurriculumInv, AttemptOK, PhaseOK
<1>3. CASE content_hash(g) = frontier.id
  <2>1. heap' = SubSeq(heap, 1, attempt.obj - 1) /\ UNCHANGED <<frontier, kept, walked>>
    BY <1>3 DEF Grown
  <2>2. HeapOK' /\ AttemptOK' /\ FrontierOK'
    BY <1>1, <2>1, GivenUp, FrontierStays DEF CurriculumInv
  <2>3. DiskOK' /\ PhaseOK'
    BY <1>1, <2>1, FilesKept DEF CurriculumInv, PhaseOK, NoChild
  <2> QED
    BY <2>2, <2>3 DEF CurriculumInv
<1>4. CASE content_hash(g) # frontier.id
  <2>1. heap' = <<g>> /\ Adopt([Snapshot(attempt.obj, tasks, lineage) EXCEPT !.obj = 1])
    BY <1>4 DEF Grown
  <2>2. lineage.kind \in {"build", "patch", "grow"} /\ lineage.difficulty \in 0 .. 10 \cup {NoPrior}
    BY <1>1 DEF Lineage, CurriculumInv, AttemptOK, Stepped
  <2>3. Adopt([id |-> content_hash(g), obj |-> 1, tasks |-> tasks, lineage |-> lineage])
    <3> HIDE DEF lineage
    <3>1. [Snapshot(attempt.obj, tasks, lineage) EXCEPT !.obj = 1]
            = [id |-> content_hash(g), obj |-> 1, tasks |-> tasks, lineage |-> lineage]
      BY DEF Snapshot
    <3> QED
      BY <2>1, <3>1
  <2>4. HeapOK' /\ AttemptOK' /\ FrontierOK' /\ frontier' # NoSnapshot
      /\ kept \subseteq kept' /\ walked \subseteq walked'
    <3> HIDE DEF lineage, g, tasks
    <3> QED
      BY <1>1, <2>1, <2>2, <2>3, Adopted
  <2>5. DiskOK' /\ PhaseOK'
    BY <1>1, <1>2, <2>4, FilesKept DEF CurriculumInv, PhaseOK, NoChild
  <2> QED
    BY <2>4, <2>5 DEF CurriculumInv
<1> QED
  BY <1>3, <1>4

LEMMA SaveBeginsKeeps ==
    ASSUME CurriculumInv, SaveBegins
    PROVE  CurriculumInv'
<1>1. /\ Quiet /\ frontier # NoSnapshot /\ saves < MaxSaves
      /\ writing' = frontier /\ saves' = saves + 1
      /\ disk' = Overridden(disk, File(frontier.id, Torn))
      /\ UNCHANGED <<heap, frontier, attempt, candidates, direction, kept, walked>>
  BY DEF SaveBegins
<1>2. HeapOK' /\ AttemptOK' /\ FrontierOK'
  BY <1>1, FrontierStays DEF CurriculumInv, HeapOK, AttemptOK, Quiet
<1>3. saves + 1 \in 0 .. MaxSaves
  BY <1>1, BudgetAssumption DEF CurriculumInv, PhaseOK
<1>4. PhaseOK'
  BY <1>1, <1>3 DEF CurriculumInv, PhaseOK, Quiet
<1>5. \A id \in DOMAIN disk' : disk'[id] # Torn => id \in DOMAIN disk /\ disk'[id] = disk[id]
  BY <1>1 DEF Overridden, File
<1>6. DiskOK'
  BY <1>1, <1>5 DEF CurriculumInv, DiskOK, LineageOK
<1> QED
  BY <1>2, <1>4, <1>6 DEF CurriculumInv

(* What is written is the frontier, whose graph no admission has touched.        *)
LEMMA SaveEndsKeeps ==
    ASSUME CurriculumInv, SaveEnds
    PROVE  CurriculumInv'
<1>1. /\ writing # NoSnapshot /\ writing' = NoSnapshot
      /\ disk' = Overridden(disk, File(writing.id, snapshot_to_dict(writing)))
      /\ UNCHANGED <<heap, frontier, attempt, candidates, direction, saves, kept, walked>>
  BY DEF SaveEnds
<1>2. writing = frontier /\ attempt = Idle /\ frontier # NoSnapshot
  BY <1>1 DEF CurriculumInv, PhaseOK
<1>3. frontier.id = content_hash(heap[1]) /\ frontier.obj = 1 /\ LineageOK(frontier.id, frontier.lineage)
  BY <1>2 DEF CurriculumInv, FrontierOK
<1>4. HeapOK' /\ AttemptOK' /\ FrontierOK' /\ PhaseOK'
  BY <1>1, <1>2, FrontierStays DEF CurriculumInv, HeapOK, AttemptOK, PhaseOK
<1> DEFINE held == snapshot_to_dict(writing)
<1>5. held.id = frontier.id /\ content_hash(Noted(held.graph)) = frontier.id /\ held.lineage = frontier.lineage
  BY <1>2, <1>3, HashOfFile DEF snapshot_to_dict
<1> HIDE DEF held
<1>6. \A id \in DOMAIN disk' :
        \/ id = frontier.id /\ disk'[id] = held
        \/ id \in DOMAIN disk /\ disk'[id] = disk[id]
  BY <1>1, <1>2 DEF Overridden, File, held
<1>7. DiskOK'
  <2> SUFFICES ASSUME NEW id \in DOMAIN disk', disk'[id] # Torn
               PROVE  /\ disk'[id].id = id
                      /\ content_hash(Noted(disk'[id].graph)) = id
                      /\ LineageOK(id, disk'[id].lineage)
    BY <1>1 DEF DiskOK, LineageOK
  <2>1. CASE id = frontier.id /\ disk'[id] = held
    BY <1>3, <1>5, <2>1
  <2>2. CASE id \in DOMAIN disk /\ disk'[id] = disk[id]
    BY <2>2 DEF CurriculumInv, DiskOK
  <2> QED
    BY <1>6, <2>1, <2>2
<1> QED
  BY <1>4, <1>7 DEF CurriculumInv

LEMMA CrashKeeps ==
    ASSUME CurriculumInv, Crash
    PROVE  CurriculumInv'
<1>1. /\ heap' = <<>> /\ frontier' = NoSnapshot /\ attempt' = Idle /\ NoChild /\ writing' = NoSnapshot
      /\ kept \subseteq kept' /\ walked \subseteq walked'
      /\ UNCHANGED <<disk, saves>>
  BY DEF Crash
<1>2. HeapOK' /\ AttemptOK' /\ FrontierOK'
  BY <1>1 DEF HeapOK, AttemptOK, FrontierOK
<1>3. DiskOK' /\ PhaseOK'
  BY <1>1, FilesKept DEF CurriculumInv, PhaseOK, NoChild
<1> QED
  BY <1>2, <1>3 DEF CurriculumInv

(* load() takes the word of the file for the id, and the invariant stands in for *)
(* the hash it does not compute.                                                 *)
LEMMA LoadKeeps ==
    ASSUME CurriculumInv, Load
    PROVE  CurriculumInv'
<1>1. PICK id \in DOMAIN disk :
        /\ disk[id] # Torn
        /\ heap' = <<Noted(disk[id].graph)>>
        /\ Adopt([id |-> disk[id].id, obj |-> 1, tasks |-> disk[id].tasks, lineage |-> disk[id].lineage])
  BY DEF Load
<1>2. Quiet /\ frontier = NoSnapshot /\ UNCHANGED <<attempt, candidates, direction, disk, writing, saves>>
  BY DEF Load
<1> DEFINE g == Noted(disk[id].graph)
           tasks == disk[id].tasks
           lineage == disk[id].lineage
<1>3. disk[id].id = content_hash(g) /\ LineageOK(id, lineage)
  BY <1>1 DEF CurriculumInv, DiskOK
<1>4. HeapOK' /\ AttemptOK' /\ FrontierOK' /\ frontier' # NoSnapshot
      /\ kept \subseteq kept' /\ walked \subseteq walked'
  <2>1. Adopt([id |-> content_hash(g), obj |-> 1, tasks |-> tasks, lineage |-> lineage]) /\ heap' = <<g>>
    BY <1>1, <1>3
  <2> HIDE DEF g, tasks, lineage
  <2> QED
    BY <1>2, <1>3, <2>1, Adopted DEF LineageOK, Quiet
<1>5. DiskOK' /\ PhaseOK'
  BY <1>2, <1>4, FilesKept DEF CurriculumInv, PhaseOK, Quiet
<1> QED
  BY <1>4, <1>5 DEF CurriculumInv

LEMMA InvariantKept ==
    CurriculumInv /\ [Next]_vars => CurriculumInv'
<1> SUFFICES ASSUME CurriculumInv, [Next]_vars
             PROVE  CurriculumInv'
  OBVIOUS
<1>1. CASE UNCHANGED vars
  BY <1>1 DEF vars, CurriculumInv, HeapOK, AttemptOK, FrontierOK, DiskOK, PhaseOK, LineageOK, content_hash
<1>2. CASE Next
  BY <1>2, BuildKeeps, RepairKeeps, RejectedKeeps, BuiltKeeps, EvolveBeginsKeeps, TryPatchKeeps, PatchLandsKeeps,
     PatchPassedOverKeeps, GrowKeeps, GrownKeeps, SaveBeginsKeeps, SaveEndsKeeps, CrashKeeps, LoadKeeps DEF Next
<1> QED
  BY <1>1, <1>2

THEOREM CurriculumInvariant == Spec => []CurriculumInv
  BY InitOK, InvariantKept, PTL DEF Spec

-----------------------------------------------------------------------------
(* What follows from it.                                                         *)

(* A frontier refers to a graph there is, its regime is in range, and an         *)
(* admission stays within its repair budget.                                     *)
THEOREM CurriculumTypes == Spec => []TypeOK
<1>1. ASSUME CurriculumInv
      PROVE  TypeOK
  <2>1. ASSUME frontier # NoSnapshot
        PROVE  frontier.obj \in DOMAIN heap
    <3>1. (\E a : heap = <<a>>) \/ (\E a, b : heap = <<a, b>>)
      BY <1>1, <2>1 DEF CurriculumInv, HeapOK
    <3>2. 1 \in DOMAIN heap
      BY <3>1
    <3> QED
      BY <1>1, <2>1, <3>2 DEF CurriculumInv, FrontierOK
  <2>2. ASSUME attempt # Idle
        PROVE  attempt.obj = Len(heap)
    <3>1. (attempt.obj = 1 /\ \E a : heap = <<a>>) \/ (attempt.obj = 2 /\ \E a, b : heap = <<a, b>>)
      BY <1>1, <2>2 DEF CurriculumInv, HeapOK
    <3>2. (\A a : Len(<<a>>) = 1) /\ (\A a, b : Len(<<a, b>>) = 2)
      OBVIOUS
    <3> QED
      BY <3>1, <3>2, Zenon
  <2> QED
    BY <1>1, <2>1, <2>2 DEF TypeOK, CurriculumInv, AttemptOK, FrontierOK, LineageOK, PhaseOK
<1> QED
  BY <1>1, CurriculumInvariant, PTL

(* The id of a snapshot is the hash of the graph it refers to, whatever patches  *)
(* are tried next to it, and of the graph in its file, which load() trusts.      *)
THEOREM IdIsHash == Spec => []SnapshotIsItsHash
<1>1. CurriculumInv => SnapshotIsItsHash
  BY DEF CurriculumInv, FrontierOK, DiskOK, SnapshotIsItsHash
<1> QED
  BY <1>1, CurriculumInvariant, PTL

(* Which actions change the frontier.                                            *)
LEMMA FrontierChanges ==
    ASSUME CurriculumInv, [Next]_vars
    PROVE  \/ UNCHANGED <<frontier, kept>>
           \/ Built /\ frontier = NoSnapshot
           \/ Load /\ frontier = NoSnapshot
           \/ Crash
           \/ PatchLands
           \/ Grown /\ content_hash(heap[attempt.obj]) # frontier.id
<1>1. CASE Built
  BY <1>1 DEF Built, CurriculumInv, AttemptOK
<1>2. CASE Load
  BY <1>2 DEF Load
<1>3. CASE Grown
  BY <1>3 DEF Grown
<1>4. CASE UNCHANGED vars
  BY <1>4 DEF vars
<1>5. CASE Build \/ Repair \/ Rejected \/ EvolveBegins
  BY <1>5 DEF Build, Repair, Rejected, EvolveBegins
<1>6. CASE TryPatch \/ PatchPassedOver \/ Grow
  BY <1>6 DEF TryPatch, PatchPassedOver, Grow
<1>7. CASE SaveBegins \/ SaveEnds
  BY <1>7 DEF SaveBegins, SaveEnds
<1> QED
  BY <1>1, <1>2, <1>3, <1>4, <1>5, <1>6, <1>7 DEF Next

(* The frontier an evolution ends with: its lineage says what became of it.      *)
LEMMA Landed ==
    ASSUME PatchLands
    PROVE  /\ frontier' = [id |-> content_hash(heap[attempt.obj]), obj |-> 1, tasks |-> attempt.tasks,
                           lineage |-> Lineage(frontier.id, "patch", attempt.difficulty)]
           /\ kept' = kept \cup {<<frontier'.id, frontier'.lineage.parent>>}
  BY DEF PatchLands, Adopt, Snapshot, PatchLineage

LEMMA GrownTo ==
    ASSUME Grown, content_hash(heap[attempt.obj]) # frontier.id
    PROVE  /\ frontier' = [id |-> content_hash(heap[attempt.obj]), obj |-> 1, tasks |-> attempt.tasks,
                           lineage |-> Lineage(frontier.id, "grow", attempt.difficulty)]
           /\ kept' = kept \cup {<<frontier'.id, frontier'.lineage.parent>>}
  BY DEF Grown, Adopt, Snapshot

(* The regime a curriculum reached is never forgotten: a patch keeps it, a grow  *)
(* moves it one step the way the evolution went, and a world read from its file   *)
(* comes back with a regime it had.                                              *)
THEOREM RegimeWalks == Spec => DifficultyWalk
<1> DEFINE was == frontier.lineage.difficulty
           is == frontier'.lineage.difficulty
           Walks == frontier' \notin {frontier, NoSnapshot} =>
                      IF frontier = NoSnapshot
                      THEN IF attempt # Idle THEN is = NoPrior ELSE <<frontier'.id, is>> \in walked
                      ELSE IF frontier'.lineage.kind = "patch" THEN is = was
                      ELSE Stepped(was, is, direction)
<1>1. ASSUME CurriculumInv, [Next]_vars
      PROVE  [Walks]_vars
  <2>1. CASE UNCHANGED frontier \/ Crash
    BY <2>1 DEF Crash
  <2>2. CASE Built /\ frontier = NoSnapshot
    BY <2>2 DEF Built, Adopt, Snapshot, Lineage
  <2>3. CASE Load /\ frontier = NoSnapshot
    <3>1. PICK id \in DOMAIN disk :
            /\ disk[id] # Torn
            /\ Adopt([id |-> disk[id].id, obj |-> 1, tasks |-> disk[id].tasks, lineage |-> disk[id].lineage])
      BY <2>3 DEF Load
    <3>2. frontier'.id = id /\ is = disk[id].lineage.difficulty /\ <<id, disk[id].lineage.difficulty>> \in walked
      BY <1>1, <3>1 DEF Adopt, CurriculumInv, DiskOK, LineageOK
    <3>3. attempt = Idle
      BY <2>3 DEF Load, Quiet
    <3> QED
      BY <2>3, <3>2, <3>3
  <2>4. CASE PatchLands
    <3>1. attempt # Idle /\ attempt.purpose = "patch"
      BY <2>4 DEF PatchLands
    <3>2. frontier'.lineage.kind = "patch" /\ is = attempt.difficulty
      BY <2>4, Landed DEF Lineage
    <3> QED
      BY <1>1, <3>1, <3>2 DEF CurriculumInv, AttemptOK
  <2>5. CASE Grown /\ content_hash(heap[attempt.obj]) # frontier.id
    <3>1. attempt # Idle /\ attempt.purpose = "grow"
      BY <2>5 DEF Grown
    <3>2. frontier'.lineage.kind = "grow" /\ is = attempt.difficulty
      BY <2>5, GrownTo DEF Lineage
    <3>3. Stepped(was, is, direction) /\ frontier # NoSnapshot
      BY <1>1, <3>1, <3>2 DEF CurriculumInv, AttemptOK
    <3> QED
      BY <3>2, <3>3
  <2> QED
    BY <1>1, <2>1, <2>2, <2>3, <2>4, <2>5, FrontierChanges
<1>2. Spec => [][Walks]_vars
  <2> HIDE DEF Walks
  <2> QED
    BY <1>1, CurriculumInvariant, PTL DEF Spec
<1> QED
  BY <1>2 DEF DifficultyWalk

-----------------------------------------------------------------------------
(* The contract of the frontier. The pack is asked about a graph as it came out  *)
(* of its file, the code asks it about the graph it built: the two agree when    *)
(* the pack, like the ontology, reads no notes. That is the hypothesis of the    *)
(* refinement; no invariant, task generator or feasibility check of the packs    *)
(* reads the meta or runtime field of a node.                                    *)
NotesUnread == \A g : ReadsNoNotes(g)

(* The gate lets only playable worlds through. *)
LEMMA AdmittedIsPlayable ==
    ASSUME NotesUnread, NEW g, Admits(g, Tasks(g))
    PROVE  Admissible(content_hash(g))
<1> DEFINE h == Noted(content_hash(g))
<1>1. AlikeButNotes(g, h)
  BY FileIsAlike
<1>2. Invariants(h) = Invariants(g) /\ Tasks(h) = Tasks(g) /\ \A t \in Tasks(g) : Feasible(h, t) <=> Feasible(g, t)
  BY DEF NotesUnread, ReadsNoNotes
<1> HIDE DEF h
<1>3. validate(h, Ontology) = validate(g, Ontology)
  BY <1>1, SameIssues
<1>4. /\ validate(g, Ontology) \cup Invariants(g) = {}
      /\ validate_task_bindings(g, Tasks(g)) = {} /\ _run_feasibility(g, Tasks(g)) = {}
  BY DEF Admits
<1>5. ASSUME NEW t \in Tasks(g)
      PROVE  /\ t.entrypoints # {}
             /\ t.entrypoints \cup t.goals \subseteq DOMAIN g.nodes
             /\ \A n \in t.entrypoints : ~g.nodes[n].hidden
             /\ Feasible(g, t)
  <2>1. t.entrypoints # {} /\ Feasible(g, t)
    BY <1>4, <1>5 DEF _run_feasibility
  <2>2. t.entrypoints \cup t.goals \subseteq DOMAIN g.nodes
    BY <1>4, <1>5 DEF validate_task_bindings
  <2>3. ~\E n \in t.entrypoints \cap DOMAIN g.nodes : g.nodes[n].hidden
    BY <1>4, <1>5 DEF validate_task_bindings
  <2> QED
    BY <2>1, <2>2, <2>3
<1>6. DOMAIN h.nodes = DOMAIN g.nodes /\ \A n \in DOMAIN g.nodes : h.nodes[n].hidden = g.nodes[n].hidden
  BY <1>1, AlikeNodes DEF AlikeButNotes
<1>7. Playable(h)
  BY <1>2, <1>3, <1>4, <1>5, <1>6 DEF Playable
<1> QED
  BY <1>7 DEF Admissible, h

(* The world of the contract is the id of the frontier. *)
LEMMA WorldIsId ==
    ASSUME CurriculumInv
    PROVE  Content(frontier) = IF frontier = NoSnapshot THEN NoWorld ELSE frontier.id
  BY DEF CurriculumInv, FrontierOK, Content

LEMMA WorldIsIdAfter ==
    ASSUME CurriculumInv'
    PROVE  Content(frontier)' = IF frontier' = NoSnapshot THEN NoWorld ELSE frontier'.id
  BY DEF CurriculumInv, FrontierOK, Content

World == Content(frontier)
Parent == IF frontier = NoSnapshot THEN NoWorld ELSE frontier.lineage.parent

(* A new frontier is another world, from no world at all or from the one before. *)
LEMMA StepsOfContract ==
    ASSUME NotesUnread, CurriculumInv, CurriculumInv', [Next]_vars
    PROVE  \/ UNCHANGED <<World, Parent, kept>>
           \/ /\ kept' = kept \cup {<<World', Parent'>>}
              /\ \/ World' # NoWorld /\ Admissible(World') /\ Parent' = NoWorld
                 \/ /\ World # NoWorld /\ World' \notin {World, NoWorld}
                    /\ Admissible(World') /\ Parent' = World
                 \/ <<World', Parent'>> \in kept \cup {<<NoWorld, NoWorld>>}
<1> DEFINE Known(new) == kept' = kept \cup {<<new.id, new.lineage.parent>>}
<1>1. World = IF frontier = NoSnapshot THEN NoWorld ELSE frontier.id
  BY WorldIsId DEF World
<1>2. World' = IF frontier' = NoSnapshot THEN NoWorld ELSE frontier'.id
  BY WorldIsIdAfter DEF World
<1>3. CASE UNCHANGED <<frontier, kept>>
  BY <1>1, <1>2, <1>3 DEF Parent
<1>4. CASE Built /\ frontier = NoSnapshot
  <2>1. attempt # Idle /\ attempt.purpose = "build" /\ Admits(heap[attempt.obj], attempt.tasks)
    BY <1>4 DEF Built
  <2>2. attempt.obj = 1 /\ attempt.tasks = Tasks(heap[1])
    BY <1>4, <2>1 DEF CurriculumInv, HeapOK, AttemptOK
  <2>3. frontier'.id = content_hash(heap[1]) /\ frontier'.lineage.parent = NoWorld /\ Known(frontier')
    BY <1>4 DEF Built, Adopt, Snapshot, Lineage
  <2>4. frontier' # NoSnapshot
    BY <1>4 DEF Built, Adopt, Snapshot, NoSnapshot
  <2>5. Admissible(frontier'.id) /\ frontier'.id # NoWorld
    BY <2>1, <2>2, <2>3, AdmittedIsPlayable, HashOfFile
  <2> QED
    BY <1>2, <2>3, <2>4, <2>5 DEF Parent
<1>5. CASE Load /\ frontier = NoSnapshot
  <2>1. PICK id \in DOMAIN disk :
          /\ disk[id] # Torn
          /\ Adopt([id |-> disk[id].id, obj |-> 1, tasks |-> disk[id].tasks, lineage |-> disk[id].lineage])
    BY <1>5 DEF Load
  <2>2. frontier'.id = id /\ <<id, frontier'.lineage.parent>> \in kept /\ Known(frontier')
    BY <2>1 DEF Adopt, CurriculumInv, DiskOK, LineageOK
  <2>3. frontier' # NoSnapshot
    BY <2>1 DEF Adopt, NoSnapshot
  <2> QED
    BY <1>2, <2>2, <2>3 DEF Parent
<1>6. CASE Crash
  <2>1. frontier' = NoSnapshot /\ kept' = kept \cup {<<NoWorld, NoWorld>>}
    BY <1>6 DEF Crash
  <2> QED
    BY <1>2, <2>1 DEF Parent
<1>7. ASSUME PatchLands \/ (Grown /\ content_hash(heap[attempt.obj]) # frontier.id)
      PROVE  /\ kept' = kept \cup {<<World', Parent'>>}
             /\ World # NoWorld /\ World' \notin {World, NoWorld}
             /\ Admissible(World') /\ Parent' = World
  <2>1. /\ attempt # Idle /\ attempt.purpose \in {"patch", "grow"}
        /\ Admits(heap[attempt.obj], attempt.tasks)
        /\ content_hash(heap[attempt.obj]) # frontier.id
    BY <1>7 DEF PatchLands, Grown
  <2>2. frontier # NoSnapshot /\ attempt.tasks = Tasks(heap[attempt.obj])
    BY <2>1 DEF CurriculumInv, AttemptOK
  <2>3. \E kind \in {"patch", "grow"} :
          frontier' = [id |-> content_hash(heap[attempt.obj]), obj |-> 1, tasks |-> attempt.tasks,
                       lineage |-> Lineage(frontier.id, kind, attempt.difficulty)]
    BY <1>7, Landed, GrownTo
  <2>4. frontier'.id = content_hash(heap[attempt.obj]) /\ frontier'.lineage.parent = frontier.id
        /\ frontier' # NoSnapshot
    BY <2>3 DEF Lineage, NoSnapshot
  <2>5. Known(frontier')
    BY <1>7, Landed, GrownTo
  <2>6. Admissible(frontier'.id) /\ frontier'.id # NoWorld
    BY <2>1, <2>2, <2>4, AdmittedIsPlayable, HashOfFile
  <2>7. frontier.id # NoWorld
    BY <2>2, HashOfFile DEF CurriculumInv, FrontierOK
  <2> QED
    BY <1>1, <1>2, <2>1, <2>2, <2>4, <2>5, <2>6, <2>7 DEF Parent
<1> QED
  BY <1>3, <1>4, <1>5, <1>6, <1>7, FrontierChanges

(* Evolution keeps the contract the pool and the trainers rely on: whatever was  *)
(* rejected, refused or raised half done leaves no trace in the frontier, every  *)
(* frontier is playable and says where it came from, a restart goes on from one  *)
(* there was. Of every pack that reads no notes.                                 *)
THEOREM KeepsContract ==
    ASSUME NotesUnread
    PROVE  Spec => ImplementsContract
<1>1. Init => Contract!Init
  BY DEF Init, Contract!Init, Content
<1>2. ASSUME CurriculumInv, CurriculumInv', [Next]_vars
      PROVE  [Contract!Next]_(Contract!contract)
  BY <1>2, StepsOfContract
     DEF Contract!Next, Contract!Seed, Contract!Evolve, Contract!Restart, Contract!contract, World, Parent
<1> QED
  BY <1>1, <1>2, CurriculumInvariant, PTL DEF Spec, ImplementsContract, Contract!Spec

=============================================================================
