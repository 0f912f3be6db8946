----------------------------- MODULE Curriculum -----------------------------
(* Admission, curriculum and snapshot store as one machine: admit() builds a    *)
(* world, checks it and lets the builder repair it within a budget; auto_evolve *)
(* tries the families' patches in the order of their relevance, each applied to *)
(* a copy of the parent's graph and admitted anew, and falls back to growing a  *)
(* world from a stepped prior; a store keeps snapshots in files a crash can cut *)
(* short. Graphs live in a heap, because a snapshot holds its graph by reference*)
(* and a patch is applied in place.                                             *)
EXTENDS GraphIR, Sequences, SequencesExt

CONSTANTS
    Ontology,             \* pack.ontology()
    Invariants(_),        \* the issues the pack's invariants find in a graph
    Samples,              \* graphs the pack's builder may sample
    Tasks(_),             \* the tasks the families generate for a graph
    Feasible(_, _),       \* check_feasibility of a task's family
    Mutations(_),         \* available_mutations of a graph, over all families
    Baseline,             \* difficulty of default_prior(), in tenths, or NoPrior
    NoPrior,
    Torn,                 \* what a cut write leaves in a file
    max_repairs,
    Reports,              \* bound: episode reports an evolution is given
    MaxEvolved,           \* bound: worlds, told apart by their regimes too, an evolution may follow
    MaxSaves              \* bound: saves

ASSUME BudgetAssumption == max_repairs \in Nat /\ Reports \in Nat \ {0} /\ MaxEvolved \in Nat /\ MaxSaves \in Nat
ASSUME PriorAssumption == NoPrior \notin 0 .. 10 /\ (Baseline = NoPrior \/ Baseline \in 0 .. 10)

VARIABLES
    heap,       \* the graphs snapshots refer to, by position
    frontier,   \* the caller's snapshot, or NoSnapshot
    attempt,    \* the admission under way, or Idle
    candidates, \* the patches auto_evolve has yet to try
    direction,  \* the direction of the evolution under way, or "none"
    disk,       \* the store: for each id a snapshot, or Torn
    writing,    \* the snapshot a save is writing, or NoSnapshot
    saves,
    kept,       \* history: every frontier as <<content, content of its parent>>
    walked      \* history: every frontier as <<content, difficulty of its lineage>>

vars == <<heap, frontier, attempt, candidates, direction, disk, writing, saves, kept, walked>>

NoSnapshot == [id |-> "none"]
NoWorld == [none |-> TRUE]  \* no parent, no frontier
Idle == [purpose |-> "none"]
Directions == {"harden", "soften", "diversify"}

(* direction_from_reports, of a pass rate over at least one report. *)
direction_from_reports(passed, total) ==
    IF 100 * passed >= 66 * total THEN "harden"
    ELSE IF 100 * passed <= 33 * total THEN "soften" ELSE "diversify"

(* episode_reward, in percent: a solved episode, or the share of its subgoals. *)
episode_reward(solved, won, subgoals) ==
    IF solved THEN 100 ELSE IF subgoals = 0 THEN 0 ELSE (100 * won) \div subgoals

(* reward_variance_policy of the TRL adapter, of the rewards of a group: a spread *)
(* holds the world, rewards that are all the same move it.                        *)
reward_variance_policy(rewards) ==
    IF Cardinality(rewards) # 1 THEN "none"
    ELSE IF \A r \in rewards : r >= 50 THEN "harden" ELSE "soften"

(* What the policies make of any reports; episodes have two subgoals here. *)
Chosen ==
    LET rewards == {episode_reward(solved, won, 2) : solved \in BOOLEAN, won \in 0 .. 2}
    IN {direction_from_reports(passed, Reports) : passed \in 0 .. Reports}
       \cup {reward_variance_policy(group) : group \in SUBSET rewards}

DifficultyStep(dir) == CASE dir = "harden" -> 2 [] dir = "soften" -> -2 [] OTHER -> 0

Clamped(d) == IF d > 10 THEN 10 ELSE IF d < 0 THEN 0 ELSE d

-----------------------------------------------------------------------------
(* The admission gate.                                                          *)

validate_task_bindings(g, tasks) ==
    {<<"task_no_entrypoint", t>> : t \in {t \in tasks : t.entrypoints = {}}}
    \cup {<<"task_dangling", t>> : t \in {t \in tasks : ~(t.entrypoints \cup t.goals) \subseteq DOMAIN g.nodes}}
    \cup {<<"task_hidden_entrypoint", t>> :
             t \in {t \in tasks : \E n \in t.entrypoints \cap DOMAIN g.nodes : g.nodes[n].hidden}}

(* mutant: feasibility is taken for granted. *)
InfeasibleNever(g, tasks) == {t \in tasks : t.entrypoints = {}}

_run_feasibility(g, tasks) == {t \in tasks : t.entrypoints = {} \/ ~Feasible(g, t)}

Admits(g, tasks) ==
    /\ validate(g, Ontology) \cup Invariants(g) \cup validate_task_bindings(g, tasks) = {}
    /\ _run_feasibility(g, tasks) = {}

Snapshot(obj, tasks, lineage) == [id |-> content_hash(heap[obj]), obj |-> obj, tasks |-> tasks, lineage |-> lineage]

Lineage(parent, kind, difficulty) == [parent |-> parent, kind |-> kind, difficulty |-> difficulty]

(* An admission of the graph at position obj, for a purpose; its builder can     *)
(* repair when it samples, and raises when it holds one prepared graph.          *)
Admission(purpose, obj, tasks, difficulty) ==
    [purpose |-> purpose, obj |-> obj, tasks |-> tasks, difficulty |-> difficulty, tries |-> 1]

-----------------------------------------------------------------------------
Init ==
    /\ heap = <<>>
    /\ frontier = NoSnapshot
    /\ attempt = Idle
    /\ candidates = <<>>
    /\ direction = "none"
    /\ disk = <<>>
    /\ writing = NoSnapshot
    /\ saves = 0
    /\ kept = {}
    /\ walked = {}

Quiet == attempt = Idle /\ direction = "none" /\ writing = NoSnapshot

(* The caller takes the snapshot for its frontier. *)
Adopt(s) ==
    /\ frontier' = s
    /\ kept' = kept \cup {<<s.id, s.lineage.parent>>}
    /\ walked' = walked \cup {<<s.id, s.lineage.difficulty>>}

(* admit(pack, manifest): the builder samples a world. *)
Build ==
    /\ Quiet
    /\ frontier = NoSnapshot
    /\ \E g \in Samples :
         /\ heap' = <<g>>
         /\ attempt' = Admission("build", 1, Tasks(g), NoPrior)
    /\ UNCHANGED <<frontier, candidates, direction, disk, writing, saves, kept, walked>>

(* The checks fail with budget left: builder.repair samples again; the builder    *)
(* of a patched graph raises instead, and the candidate is given up.              *)
Repair ==
    /\ attempt # Idle
    /\ ~Admits(heap[attempt.obj], attempt.tasks)
    /\ attempt.tries <= max_repairs
    /\ attempt.purpose # "patch"
    /\ \E g \in Samples :
         /\ heap' = [heap EXCEPT ![attempt.obj] = g]
         /\ attempt' = [attempt EXCEPT !.tries = @ + 1, !.tasks = Tasks(g)]
    /\ UNCHANGED <<frontier, candidates, direction, disk, writing, saves, kept, walked>>

(* The evolution ends with no new world. *)
NoChild == direction' = "none" /\ candidates' = <<>>

(* AdmissionFailure, or an exception of the pack: build() raises to its caller,   *)
(* a patch gives way to the next candidate, a grow to no child at all.            *)
Rejected ==
    /\ attempt # Idle
    /\ ~Admits(heap[attempt.obj], attempt.tasks)
    /\ attempt.tries > max_repairs \/ attempt.purpose = "patch"
    /\ attempt' = Idle
    /\ heap' = SubSeq(heap, 1, attempt.obj - 1)
    /\ IF attempt.purpose = "grow" THEN NoChild ELSE UNCHANGED <<candidates, direction>>
    /\ UNCHANGED <<frontier, disk, writing, saves, kept, walked>>

(* build() returns the snapshot. *)
Built ==
    /\ attempt # Idle /\ attempt.purpose = "build"
    /\ Admits(heap[attempt.obj], attempt.tasks)
    /\ Adopt(Snapshot(1, attempt.tasks, Lineage(NoWorld, "build", NoPrior)))
    /\ attempt' = Idle
    /\ UNCHANGED <<heap, candidates, direction, disk, writing, saves>>

-----------------------------------------------------------------------------
(* auto_evolve.                                                                  *)

_patch_candidates(g, dir) == {m \in Mutations(g) : m.direction = dir /\ m.relevance > 0}

(* The most relevant first, in any order where the relevance is the same. *)
Orders(options) ==
    {s \in SetToSeqs(options) : \A i, j \in DOMAIN s : i < j => s[i].relevance >= s[j].relevance}

EvolveBegins ==
    /\ Quiet
    /\ frontier # NoSnapshot
    /\ Cardinality(walked) <= MaxEvolved
    /\ \E chosen \in Chosen \ {"none"} : direction' = chosen
    /\ \E order \in Orders(_patch_candidates(heap[frontier.obj], direction')) : candidates' = order
    /\ UNCHANGED <<heap, frontier, attempt, disk, writing, saves, kept, walked>>

(* mutant: the patch is applied to the parent's graph itself. *)
CloneNot(h, obj) == [heap |-> h, obj |-> obj]

(* _clone_graph. The code copies one level of every attribute map, and apply_patch *)
(* replaces what it updates whole, so that nothing deeper is written through.       *)
Clone(h, obj) == [heap |-> Append(h, h[obj]), obj |-> Len(h) + 1]

(* _evolve_snapshot: clone, patch, regenerate the tasks, admit the result. A      *)
(* patch that collides raises half done, and the next candidate's turn comes.     *)
TryPatch ==
    /\ attempt = Idle
    /\ candidates # <<>>
    /\ LET patch == Head(candidates).patch
           c == Clone(heap, frontier.obj)
           g == c.heap[c.obj]
       IN IF Collides(g, patch)
          THEN /\ heap' = SubSeq([c.heap EXCEPT ![c.obj] = Updated(g, patch)], 1, Len(heap))
               /\ candidates' = Tail(candidates)
               /\ UNCHANGED attempt
          ELSE /\ heap' = [c.heap EXCEPT ![c.obj] = apply_patch(g, patch)]
               /\ attempt' = Admission("patch", c.obj, Tasks(apply_patch(g, patch)), frontier.lineage.difficulty)
               /\ candidates' = Tail(candidates)
    /\ UNCHANGED <<frontier, direction, disk, writing, saves, kept, walked>>

(* The lineage of a patched world. *)
PatchLineage == Lineage(frontier.id, "patch", attempt.difficulty)

(* The candidate is admitted, distinct and accepted by the gate. *)
PatchLands ==
    /\ attempt # Idle /\ attempt.purpose = "patch"
    /\ Admits(heap[attempt.obj], attempt.tasks)
    /\ content_hash(heap[attempt.obj]) # frontier.id
    /\ heap' = <<heap[attempt.obj]>>
    /\ Adopt([Snapshot(attempt.obj, attempt.tasks, PatchLineage) EXCEPT !.obj = 1])
    /\ attempt' = Idle
    /\ NoChild
    /\ UNCHANGED <<disk, writing, saves>>

(* The candidate is no other world, or the gate refuses it or raises. *)
PatchPassedOver ==
    /\ attempt # Idle /\ attempt.purpose = "patch"
    /\ Admits(heap[attempt.obj], attempt.tasks)
    /\ attempt' = Idle
    /\ heap' = SubSeq(heap, 1, attempt.obj - 1)
    /\ UNCHANGED <<frontier, candidates, direction, disk, writing, saves, kept, walked>>

(* The difficulty a grow starts from: what earlier grows reached, or the baseline. *)
Carried == IF frontier.lineage.difficulty = NoPrior THEN Baseline ELSE frontier.lineage.difficulty

(* _grow_snapshot, once the candidates are spent: step the difficulty of the prior *)
(* and admit a new world; nothing when the pack has no prior or the step is void.  *)
Grow ==
    /\ attempt = Idle
    /\ direction # "none" /\ candidates = <<>>
    /\ LET stepped == Clamped(Carried + DifficultyStep(direction))
       IN IF Baseline = NoPrior \/ DifficultyStep(direction) = 0
          THEN NoChild /\ UNCHANGED <<heap, attempt>>
          ELSE IF stepped = Carried THEN NoChild /\ UNCHANGED <<heap, attempt>>
          ELSE \E g \in Samples :
                 /\ heap' = Append(heap, g)
                 /\ attempt' = Admission("grow", Len(heap) + 1, Tasks(g), stepped)
                 /\ UNCHANGED <<direction, candidates>>
    /\ UNCHANGED <<frontier, disk, writing, saves, kept, walked>>

(* The grown world is the child, unless it is the parent again. The gate is not asked. *)
Grown ==
    /\ attempt # Idle /\ attempt.purpose = "grow"
    /\ Admits(heap[attempt.obj], attempt.tasks)
    /\ attempt' = Idle
    /\ NoChild
    /\ IF content_hash(heap[attempt.obj]) = frontier.id
       THEN /\ heap' = SubSeq(heap, 1, attempt.obj - 1)
            /\ UNCHANGED <<frontier, kept, walked>>
       ELSE /\ heap' = <<heap[attempt.obj]>>
            /\ Adopt([Snapshot(attempt.obj, attempt.tasks, Lineage(frontier.id, "grow", attempt.difficulty))
                         EXCEPT !.obj = 1])
    /\ UNCHANGED <<disk, writing, saves>>

-----------------------------------------------------------------------------
(* The store.                                                                    *)

(* mutant: the file forgets the difficulty a grow reached. *)
snapshot_to_dictBare(s) ==
    [id |-> s.id, graph |-> content_hash(heap[s.obj]), tasks |-> s.tasks,
     lineage |-> [s.lineage EXCEPT !.difficulty = NoPrior]]

(* What a file holds: snapshot_to_dict drops the notes of the nodes. *)
snapshot_to_dict(s) == [id |-> s.id, graph |-> content_hash(heap[s.obj]), tasks |-> s.tasks, lineage |-> s.lineage]

Noted(g) == [nodes |-> [n \in DOMAIN g.nodes |-> [kind |-> g.nodes[n].kind, hidden |-> g.nodes[n].hidden,
                                                  attrs |-> g.nodes[n].attrs, note |-> "none"]],
             edges |-> g.edges]

(* The file of one snapshot. *)
File(id, held) == [name \in {id} |-> held]

(* save() opens the file: what was there is gone until the write is done. *)
SaveBegins ==
    /\ Quiet
    /\ frontier # NoSnapshot
    /\ saves < MaxSaves
    /\ writing' = frontier
    /\ disk' = Overridden(disk, File(frontier.id, Torn))
    /\ saves' = saves + 1
    /\ UNCHANGED <<heap, frontier, attempt, candidates, direction, kept, walked>>

SaveEnds ==
    /\ writing # NoSnapshot
    /\ disk' = Overridden(disk, File(writing.id, snapshot_to_dict(writing)))
    /\ writing' = NoSnapshot
    /\ UNCHANGED <<heap, frontier, attempt, candidates, direction, saves, kept, walked>>

(* The process dies, between any two steps; only the store survives. *)
Crash ==
    /\ frontier # NoSnapshot
    /\ heap' = <<>>
    /\ frontier' = NoSnapshot
    /\ attempt' = Idle
    /\ NoChild
    /\ writing' = NoSnapshot
    /\ kept' = kept \cup {<<NoWorld, NoWorld>>}
    /\ UNCHANGED <<disk, saves, walked>>

(* load(): a file that is torn is no JSON, and raises. *)
Load ==
    /\ Quiet
    /\ frontier = NoSnapshot
    /\ \E id \in DOMAIN disk :
         /\ disk[id] # Torn
         /\ heap' = <<Noted(disk[id].graph)>>
         /\ Adopt([id |-> disk[id].id, obj |-> 1, tasks |-> disk[id].tasks, lineage |-> disk[id].lineage])
    /\ UNCHANGED <<attempt, candidates, direction, disk, writing, saves>>

Next ==
    \/ Build \/ Repair \/ Rejected \/ Built
    \/ EvolveBegins \/ TryPatch \/ PatchLands \/ PatchPassedOver
    \/ Grow \/ Grown
    \/ SaveBegins \/ SaveEnds \/ Crash \/ Load

Spec == Init /\ [][Next]_vars

-----------------------------------------------------------------------------
(* Properties.                                                                   *)

(* A frontier refers to a graph there is, the difficulty of its regime stays in   *)
(* its range, and an admission stays within its budget.                          *)
TypeOK ==
    /\ frontier # NoSnapshot =>
         /\ frontier.obj \in DOMAIN heap
         /\ frontier.lineage.kind \in {"build", "patch", "grow"}
         /\ frontier.lineage.difficulty \in 0 .. 10 \cup {NoPrior}
    /\ attempt # Idle =>
         /\ attempt.obj = Len(heap)
         /\ attempt.purpose \in {"build", "patch", "grow"}
         /\ attempt.tries \in 1 .. max_repairs + 1
    /\ direction \in Directions \cup {"none"}
    /\ saves \in 0 .. MaxSaves

(* What a world is: its content, and NoWorld where there is none. *)
Content(s) == IF s = NoSnapshot THEN NoWorld ELSE content_hash(heap[s.obj])

(* A world worth training on: it conforms to its ontology and invariants, and each*)
(* of its tasks starts somewhere visible, aims at what is there and can be solved. *)
Playable(g) ==
    /\ validate(g, Ontology) \cup Invariants(g) = {}
    /\ \A t \in Tasks(g) :
         /\ t.entrypoints # {}
         /\ t.entrypoints \cup t.goals \subseteq DOMAIN g.nodes
         /\ \A n \in t.entrypoints : ~g.nodes[n].hidden
         /\ Feasible(g, t)

(* Evolution keeps the contract the pool and the trainers rely on: a candidate    *)
(* that was rejected, refused or raised half done leaves no trace in the frontier, *)
(* every frontier is playable, and a restart goes on from one there was.         *)
Admissible(content) == Playable(Noted(content))

(* What the contract asks of a pack: that its invariants, its task generators and *)
(* its feasibility checks read no notes, so that a graph read back from its file  *)
(* is judged like the one that was admitted.                                      *)
ReadsNoNotes(g) ==
    LET h == Noted(content_hash(g))
    IN /\ Invariants(h) = Invariants(g)
       /\ Tasks(h) = Tasks(g)
       /\ \A t \in Tasks(g) : Feasible(h, t) <=> Feasible(g, t)

Contract == INSTANCE FrontierContract WITH
    world <- Content(frontier),
    parent <- IF frontier = NoSnapshot THEN NoWorld ELSE frontier.lineage.parent,
    past <- kept

ImplementsContract == Contract!Spec

(* The id of a snapshot is the hash of the graph it refers to, while candidates   *)
(* are patched next to it, and of the graph in its file, which load() trusts      *)
(* without hashing.                                                               *)
SnapshotIsItsHash ==
    /\ frontier # NoSnapshot => frontier.id = content_hash(heap[frontier.obj])
    /\ \A id \in DOMAIN disk : disk[id] # Torn => disk[id].id = id /\ content_hash(Noted(disk[id].graph)) = id

(* One step of a regime: towards the harder or the easier, by two tenths at most, *)
(* from the difficulty reached or, where no grow came before, from the baseline.  *)
Stepped(was, is, dir) ==
    LET start == IF was = NoPrior THEN Baseline ELSE was
    IN /\ is \in 0 .. 10
       /\ dir = "harden" => start < is /\ is <= start + 2
       /\ dir # "harden" => dir = "soften" /\ is < start /\ start <= is + 2

(* The regime a curriculum reached is never forgotten. A child keeps its parent's *)
(* difficulty if it was patched, and moves it one step the way the evolution went *)
(* if it was grown. A world that follows on none has no regime if it was built,   *)
(* and if it comes from a file, as after a restart, one that this very world had. *)
DifficultyWalk ==
    [][LET was == frontier.lineage.difficulty
           is == frontier'.lineage.difficulty
       IN frontier' \notin {frontier, NoSnapshot} =>
            IF frontier = NoSnapshot
            THEN IF attempt # Idle THEN is = NoPrior ELSE <<frontier'.id, is>> \in walked
            ELSE IF frontier'.lineage.kind = "patch" THEN is = was
            ELSE Stepped(was, is, direction)]_vars

=============================================================================
