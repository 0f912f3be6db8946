---------------------------- MODULE StagedRealize ----------------------------
(***************************************************************************)
(* Generate, verify, freeze: the host takes an admitted procedural world   *)
(* and lets a language model rewrite parts of it.  The parts are the       *)
(* handlers of the vulnerabilities (realize_world, realize_novel) and the  *)
(* bodies of the benign endpoints of a service (realize_service_surface).  *)
(* A part is authored in the graph the snapshot shares with its caller,    *)
(* the world is booted and probed, and the part is kept or taken out       *)
(* again; then the graph is frozen under a new content hash.               *)
(*                                                                         *)
(* A boot can fail, and a source that parses can still stop the app from   *)
(* loading.  Both leave realize_* through an exception, with the graph as  *)
(* it then is: `raised` remembers it, and the host may call again with the *)
(* snapshot it still holds.                                                *)
(*                                                                         *)
(* A source is one of the ways it can behave under the probes, never text. *)
(***************************************************************************)
EXTENDS Naturals, Sequences, FiniteSets, SequencesExt

CONSTANTS
  Kinds,      \* the catalog's kinds; a world has at most one vulnerability of each
  Controlled, \* the kinds control_request has a faithfulness control for
  Realizable, \* the kinds in the order of REALIZABLE_KINDS
  NodeOrder,  \* the kinds in the order of the graph's vulnerability nodes
  Services, Pages,
  Exposes,    \* the endpoints of each service, "/" and "/openapi.json" aside
  Affects,    \* what the vulnerability of a kind affects: a service or an endpoint
  Modes,      \* the values of the manifest's generate knob
  MaxCalls    \* bound: calls of realize_* by the host

ASSUME KindAssumption ==
  /\ Controlled \subseteq Kinds
  /\ Realizable \in Seq(Kinds) /\ ToSet(Realizable) = Kinds
  /\ NodeOrder \in Seq(Kinds) /\ ToSet(NodeOrder) = Kinds
ASSUME SurfaceAssumption ==
  /\ Kinds \cap Pages = {}
  /\ Exposes \in [Services -> SUBSET Pages]
  /\ Affects \in [Kinds -> SUBSET (Services \cup Pages)]

Parts == Kinds \cup Pages

\* what the model may answer for a vulnerability and for a page
HandlerSources ==
  {"faithful", "open", "trivial", "faked", "dead", "wrecks", "unparsable"}
PageSources == {"plain", "leaky", "wrecks", "unparsable"}
\* the procedural body, rendered when a node carries no realized_handler
None == "procedural"

VARIABLES
  mode,    \* lineage["generate"]
  vulns,   \* the kinds of the vulnerabilities the world was admitted with
  graph,   \* [at: Parts -> source, novel: the vulnerability was renamed]
  snap,    \* the snapshot the host holds: the graph as hashed, and lineage
  call,    \* the call in progress
  calls,
  raised,  \* an exception has escaped some call
  gated    \* history: the consequence gate let the world into a pool, and
           \* no call has raised since

stagedVars == <<mode, vulns, graph, snap, call, calls, raised, gated>>

Idle == [pc |-> "idle"]

(* ---- how a source behaves -------------------------------------------- *)
\* _extract_handle_body: it parses and defines handle(...)
IsValid(src) == src # "unparsable"
\* the reference exploit reads the flag; a hard-coded value is the flag only
\* in the world it was memorised from
Leaks(src, replanted) ==
  src \in {None, "faithful", "open", "trivial"} \cup (IF replanted THEN {} ELSE {"faked"})
\* the benign request of the kind reads it too
LeaksBenign(src) == src = "trivial"
\* a GET without any parameter reads it
LeaksBare(src) == src \in {"open", "trivial", "leaky"}
\* the control's known value is computed or fetched, not echoed
Computes(src) == src \in {None, "faithful", "open", "trivial"}

\* the rendered app compiles: every handler is inlined in one module
Boots == \A p \in Parts : graph.at[p] # "wrecks"

(* ---- verdicts ----------------------------------------------------------- *)
classify_admission(k, replanted) ==
  Leaks(graph.at[k], replanted) /\ ~LeaksBenign(graph.at[k])

classify_admission_with_control(k) ==
  classify_admission(k, FALSE) /\ (k \in Controlled => Computes(graph.at[k]))

classify_service_admission(oracle, probed, root_ok) ==
  /\ classify_admission(oracle, FALSE)
  /\ \A p \in probed : ~LeaksBare(graph.at[p])
  /\ root_ok

(* ---- shared steps --------------------------------------------------------- *)
Authored(g, p, src) == [g EXCEPT !.at[p] = src]
Reverted(g, parts) ==
  [g EXCEPT !.at = [p \in Parts |-> IF p \in parts THEN None ELSE @[p]]]

\* the first in the given order that is one of S
FirstOf(order, S) ==
  order[CHOOSE i \in DOMAIN order :
          order[i] \in S /\ \A j \in 1 .. i - 1 : order[j] \notin S]

Free == call = Idle /\ calls < MaxCalls

Began(record) ==
  /\ Free
  /\ call' = record
  /\ calls' = calls + 1

\* the exception leaves the graph as it is and the host with its old snapshot
Raise ==
  /\ call' = Idle
  /\ raised' = TRUE
  /\ gated' = FALSE
  /\ UNCHANGED <<mode, vulns, graph, snap, calls>>

(* ---- realize_generated ------------------------------------------------------ *)
authorable == vulns
\* the part of the call that is next, in the order of REALIZABLE_KINDS
part == FirstOf(Realizable, call.todo)

\* the knob is off: the snapshot is returned; a mode that is not wired raises
\* before anything is touched, and so does "novel" on a world with several
\* vulnerabilities
PassThrough ==
  /\ Free
  /\ mode \notin {"vuln", "novel"} \/ (mode = "novel" /\ Cardinality(vulns) # 1)
  /\ calls' = calls + 1
  /\ UNCHANGED <<mode, vulns, graph, snap, call, raised, gated>>

realize_world ==
  /\ mode = "vuln"
  /\ Began([pc |-> "apply", todo |-> authorable, kept |-> {}])
  /\ UNCHANGED <<mode, vulns, graph, snap, raised, gated>>

ApplyHandler ==
  /\ call.pc = "apply" /\ call.todo # {}
  /\ \E src \in HandlerSources :
       IF IsValid(src)
       THEN /\ graph' = Authored(graph, part, src)
            /\ call' = [call EXCEPT !.pc = "verify"]
       ELSE /\ call' = [call EXCEPT !.todo = @ \ {part}]
            /\ UNCHANGED graph
  /\ UNCHANGED <<mode, vulns, snap, calls, raised, gated>>

KeepHandler ==
  /\ call.pc = "verify" /\ Boots
  /\ classify_admission_with_control(part)
  /\ call' = [call EXCEPT !.pc = "apply", !.todo = @ \ {part}, !.kept = @ \cup {part}]
  /\ UNCHANGED <<mode, vulns, graph, snap, calls, raised, gated>>

RevertHandler ==
  /\ call.pc = "verify" /\ Boots
  /\ ~classify_admission_with_control(part)
  /\ graph' = Reverted(graph, {part})
  /\ call' = [call EXCEPT !.pc = "apply", !.todo = @ \ {part}]
  /\ UNCHANGED <<mode, vulns, snap, calls, raised, gated>>

(* mutant: what an earlier call kept stays in the lineage. *)
RealizedEver(kept) == [snap EXCEPT !.frozen = graph, !.realized = @ \cup kept]
_refrozen(kept) == [snap EXCEPT !.frozen = graph, !.realized = kept]

Refreeze ==
  /\ call.pc = "apply" /\ call.todo = {}
  /\ snap' = _refrozen(call.kept)
  /\ call' = Idle
  /\ UNCHANGED <<mode, vulns, graph, calls, raised, gated>>

\* the backend fails between two parts, or a boot fails
WorldRaises ==
  /\ call.pc = "verify" \/ (call.pc = "apply" /\ call.todo # {})
  /\ Raise

(* ---- realize_novel --------------------------------------------------------- *)
_novel_target == CHOOSE k \in vulns : TRUE

\* an incomplete or unparsable proposal returns the snapshot as it is; that a
\* proposal names a kind of the catalog is left out
realize_novel ==
  /\ mode = "novel" /\ Cardinality(vulns) = 1
  /\ \E src \in HandlerSources :
       IF IsValid(src)
       THEN /\ Began([pc |-> "authored", before |-> graph])
            /\ graph' = [Authored(graph, _novel_target, src) EXCEPT !.novel = TRUE]
       ELSE Began(Idle) /\ UNCHANGED graph
  /\ UNCHANGED <<mode, vulns, snap, raised, gated>>

(* mutant: the verdict on the world as it is settles it. *)
AdmitsAsIs(k) == classify_admission(k, FALSE)
\* verdict_authored, then the exploit again on the world with a fresh flag
_novel_admits(k) == classify_admission(k, FALSE) /\ Leaks(graph.at[k], TRUE)

AdmitNovel ==
  /\ call.pc = "authored" /\ Boots
  /\ _novel_admits(_novel_target)
  /\ snap' = [snap EXCEPT !.frozen = graph, !.class = TRUE]
  /\ call' = Idle
  /\ UNCHANGED <<mode, vulns, graph, calls, raised, gated>>

RestoreOriginal ==
  /\ call.pc = "authored" /\ Boots
  /\ ~_novel_admits(_novel_target)
  /\ graph' = call.before
  /\ call' = Idle
  /\ UNCHANGED <<mode, vulns, snap, calls, raised, gated>>

NovelRaises == call.pc = "authored" /\ Raise

(* ---- realize_service_surface ---------------------------------------------- *)
\* endpoints no vulnerability affects; none if one affects the whole service
benign_endpoints_of(s) ==
  LET hit == UNION {Affects[k] : k \in vulns}
  IN IF s \in hit THEN {} ELSE Exposes[s] \ hit

AuthorPages(s, applied, src) ==
  /\ graph' = [graph EXCEPT !.at = [p \in Parts |-> IF p \in applied THEN src[p] ELSE @[p]]]
  /\ IF applied = {}
     THEN Began(Idle) /\ snap' = [snap EXCEPT !.frozen = graph, !.pages = {}]
     ELSE /\ Began([pc |-> "probe", service |-> s, applied |-> applied])
          /\ UNCHANGED snap
  /\ UNCHANGED <<mode, vulns, raised, gated>>

\* paths the service does not have and sources that do not parse are skipped;
\* with nothing left to apply the world is frozen again without a probe
realize_service_surface ==
  \E s \in Services : \E path \in SUBSET Pages : \E src \in [path -> PageSources] :
    AuthorPages(s, {p \in path \cap benign_endpoints_of(s) : IsValid(src[p])}, src)

\* the host names the oracle kind and reports whether / still answers 200
ProbeSurface ==
  /\ call.pc = "probe" /\ Boots /\ ~graph.novel
  /\ \E oracle \in vulns, root_ok \in BOOLEAN :
       LET accepted == classify_service_admission(oracle, benign_endpoints_of(call.service), root_ok)
           left     == IF accepted THEN graph ELSE Reverted(graph, call.applied)
       IN /\ graph' = left
          /\ snap' = [snap EXCEPT !.frozen = left,
                                  !.pages  = IF accepted THEN call.applied ELSE {}]
  /\ call' = Idle
  /\ UNCHANGED <<mode, vulns, calls, raised, gated>>

\* the boot fails, or the oracle is a class without a reference exploit
SurfaceRaises == call.pc = "probe" /\ Raise

(* ---- the consequence gate ----------------------------------------------- *)
driven == FirstOf(NodeOrder, vulns)
(* mutant: the siblings of the breach are not swept. *)
BreachOnly == ~graph.novel /\ classify_admission(driven, FALSE)
\* verify.verdict of a flat world: the first vulnerability with a reference
\* exploit is driven, and every endpoint is fetched without a parameter; a
\* novel class has no reference exploit.  A networked world, whose chain is
\* driven instead and whose internal services are not swept, is left out.
verdict ==
  /\ ~graph.novel
  /\ classify_service_admission(driven, Parts, TRUE)

\* consequence_seed_gate; a world that does not boot raises and is not pooled.
\* The pool holds the graph by reference: the host may go on authoring it.
SeedGate ==
  /\ call = Idle /\ ~gated
  /\ Boots /\ verdict
  /\ gated' = TRUE
  /\ UNCHANGED <<mode, vulns, graph, snap, call, calls, raised>>

(* ------------------------------------------------------------------------ *)
StagedInit ==
  /\ mode \in Modes
  /\ vulns \in (SUBSET Kinds) \ {{}}
  /\ graph = [at |-> [p \in Parts |-> None], novel |-> FALSE]
  /\ snap = [frozen |-> graph, realized |-> {}, pages |-> {}, class |-> FALSE]
  /\ call = Idle
  /\ calls = 0
  /\ raised = FALSE
  /\ gated = FALSE

StagedNext ==
  \/ PassThrough
  \/ realize_world \/ ApplyHandler \/ KeepHandler \/ RevertHandler
  \/ Refreeze \/ WorldRaises
  \/ realize_novel \/ AdmitNovel \/ RestoreOriginal \/ NovelRaises
  \/ realize_service_surface \/ ProbeSurface \/ SurfaceRaises
  \/ SeedGate

StagedSpec == StagedInit /\ [][StagedNext]_stagedVars

(* ---- properties -------------------------------------------------------- *)
(* What a world may carry: a vulnerability that its exploit wins, its       *)
(* benign request does not, whose source is faithful wherever a control or  *)
(* a fresh flag can tell, and pages without the flag.                       *)
Sound(k) ==
  \/ graph.at[k] \in {None, "faithful", "open"}
  \/ graph.at[k] = "faked" /\ k \notin Controlled /\ ~graph.novel

(* The part ships only if the verifier accepts it (_generate.py:3-5): as    *)
(* long as every call has returned, whatever was proposed and in whatever   *)
(* order the calls came, the graph between two calls boots, every           *)
(* vulnerability is sound and no page serves the flag.                      *)
ShipsVerified ==
  call = Idle /\ ~raised =>
    /\ Boots
    /\ \A k \in vulns : Sound(k)
    /\ \A p \in Pages : graph.at[p] \in {None, "plain"}

(* The snapshot the host holds is the graph it would run: its id is the     *)
(* hash of the graph as it stands, and every part its lineage calls         *)
(* realized carries an authored source, through repeated calls, refusals    *)
(* and calls on other services.                                             *)
SnapshotTells ==
  call = Idle /\ ~raised =>
    /\ snap.frozen = graph
    /\ snap.class = graph.novel
    /\ \A p \in snap.realized \cup snap.pages : graph.at[p] # None

(* A world in a pool stays worth training on while its graph is authored    *)
(* again under it.  Whatever a raised call had left in it, unverified, when *)
(* the gate let it in, and whatever later calls propose, keep and take back *)
(* as long as none of them raises: between two calls it boots, some exploit *)
(* wins it where the benign request does not, and no page gives the flag to *)
(* a bare GET.  A vulnerability may, for the gate of realize_* sends its    *)
(* handler no bare GET: the pool's gate does, and is not asked again.       *)
GatedStaysWinnable ==
  gated /\ call = Idle =>
    /\ Boots
    /\ \E k \in vulns : Leaks(graph.at[k], FALSE) /\ ~LeaksBenign(graph.at[k])
    /\ \A p \in Pages : ~LeaksBare(graph.at[p])
=============================================================================
