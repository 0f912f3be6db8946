----------------------------- MODULE WebappWorld -----------------------------
(* A webapp world from its first draw to its last mutation: the builder samples    *)
(* services, endpoints, the flag and vulnerabilities, networks them around a        *)
(* public foothold or a chain of credentials, admission keeps the world or has it    *)
(* drawn again, and the curriculum takes one admitted mutation after another; an     *)
(* integrity check may give it fresh values in between. Every draw is a choice.      *)
EXTENDS WebappMutation

CONSTANTS
    Layouts,        \* the services there may be, each a sequence of tiers
    Endpoints(_),   \* the paths the endpoints of a tier may have
    Manifests,      \* what a manifest may ask for: topology, recon, chain depth
    MaxVulns,       \* bound: vulnerabilities drawn
    MaxEvolved,     \* bound: mutations taken
    MaxBetween      \* bound: reseeds and reloads

ASSUME ManifestAssumption ==
    Manifests \subseteq [topology : {"flat", "company", "chain"}, recon : {"unset", "full", "none"},
                         depth : {"unset", "one", "any"}]
(* One service is public. The presets count six services and up unless the scale is   *)
(* set: three leave an internal one beside the host of the flag, for a chain to enter. *)
ASSUME LayoutAssumption ==
    \A layout \in Layouts :
        /\ layout \in Seq({"web", "api", "auth", "db"})
        /\ \E i \in DOMAIN layout : \A j \in DOMAIN layout : layout[j] = "web" <=> j = i
        /\ (\E m \in Manifests : m.topology # "flat") => Len(layout) >= 3
(* The paths services are drawn with; the internal ones come with the handlers.       *)
ASSUME PathAssumption ==
    \A tier \in {"web", "api", "auth", "db"} : Endpoints(tier) # {} /\ Endpoints(tier) \subseteq {"a", "b"}
ASSUME KindAssumption ==
    /\ SortedKinds \in Seq(DOMAIN CATALOG \ _INTERNAL_ONLY_KINDS)
    /\ "ssrf" \in Range(SortedKinds)
ASSUME BoundAssumption == MaxVulns \in Nat \ {0} /\ MaxEvolved \in Nat /\ MaxBetween \in Nat

VARIABLES
    graph,     \* the world, or the draft of one
    prior,     \* the regime it is sampled under
    stage,     \* what comes next: "services", "vulns", "admission" or "world"
    draws,     \* vulnerabilities drawn so far
    evolved,   \* mutations taken
    between,   \* reseeds and reloads
    order,     \* which edge from a vulnerability comes before which in the graph
    loaded     \* whether the world came from the store

vars == <<graph, prior, stage, draws, evolved, between, order, loaded>>

NoGraph == [nodes |-> <<>>, edges |-> <<>>]

(* _add_edge: the id of a sampled edge is made of its kind and its ends. *)
SampledEdge(kind, src, dst) == <<"sampled", kind, src, dst>>

WithNodes(g, nodes) == [g EXCEPT !.nodes = Overridden(@, nodes)]
WithEdges(g, ids) == [g EXCEPT !.edges = Overridden(@, EdgesOf(ids))]

-----------------------------------------------------------------------------
(* The regime. The knobs that only weigh draws (scale, vuln, loot) are left out.   *)

(* Knobs of a topology other than the one asked for raise.                         *)
Refused(m) ==
    \/ m.recon # "unset" /\ m.topology = "flat"
    \/ m.depth # "unset" /\ m.topology # "chain"

(* A company draws with a preset, a chain is a company that is lateral too; a depth *)
(* that is not asked for is any.                                                   *)
_effective_prior(m) ==
    [company |-> m.topology \in {"company", "chain"}, lateral |-> m.topology = "chain",
     recon |-> m.recon # "none", depth |-> IF m.depth = "unset" THEN "any" ELSE m.depth]

Priors == {_effective_prior(m) : m \in {m \in Manifests : ~Refused(m)}}

-----------------------------------------------------------------------------
(* Sampling.                                                                     *)

Svc(i) == <<"svc", i>>
Priority(tier) == CASE tier = "db" -> 4 [] tier = "auth" -> 3 [] tier = "api" -> 2 [] OTHER -> 1

(* _pick_deepest_service: a service of the deepest tier there is.                 *)
_pick_deepest_service(layout) ==
    {i \in DOMAIN layout : \A j \in DOMAIN layout : Priority(layout[j]) <= Priority(layout[i])}

(* The services with their endpoints, and the flag in a record of the deepest one. *)
Skeleton(layout, deepest, engine) ==
    LET eps == UNION {{<<"ep", i, p>> : p \in Endpoints(layout[i])} : i \in DOMAIN layout}
        store == <<"ds", deepest>>
        flag == <<"flag", 0, 0>>
        hosts == Overridden([s \in {Svc(i) : i \in DOMAIN layout} |-> Service(layout[s[2]])],
                            [e \in eps |-> Endpoint(e[3])])
        loot == Overridden(Single(record_id, Holder("record", flag)), Single(flag_id, Holder("secret", flag)))
    IN [nodes |-> Overridden(Overridden(hosts, Single(store, Store(engine))), loot),
        edges |-> EdgesOf({SampledEdge("exposes", Svc(e[2]), e) : e \in eps}
                          \cup {SampledEdge("backed_by", Svc(deepest), store),
                                SampledEdge("contains", store, record_id),
                                SampledEdge("holds", record_id, flag_id)})]

(* A presets forces a database; a flat world may hide the flag in a file. *)
LootShapes(p) == IF p.company THEN {"kv"} ELSE {"kv", "fs"}

(* The kinds vulnerabilities are drawn from: a preset's own weights or all of them. *)
Pool(p) == IF p.company THEN {"ssrf", "path_traversal", "xxe"} \cap Range(SortedKinds) ELSE Range(SortedKinds)

(* _eligible_endpoints_for: a query needs a service with a database.              *)
_eligible_endpoints_for(g, kind, endpoints) ==
    IF kind \notin _VULN_KINDS_REQUIRING_DB THEN endpoints
    ELSE {e \in endpoints : \E s \in Srcs(g, "exposes", e) : \E d \in Dsts(g, "backed_by", s) : g.nodes[d].engine = "kv"}

(* _forced_oracle: a kind that can read the flag where it is, of the pool if one     *)
(* is there, on an endpoint of the flag's service.                                *)
_forced_oracle(g, pool) ==
    LET fits == {k \in Range(SortedKinds) : CATALOG[k].shape \in _ORACLE_SHAPES_FOR_LOOT(g.nodes[_flag_store(g)].engine)}
        on(kinds) == UNION {{<<k, e>> : e \in _eligible_endpoints_for(g, k, _oracle_path_targets(g))} : k \in kinds}
    IN IF on(pool \cap fits) # {} THEN on(pool \cap fits) ELSE on(fits)

(* A vulnerability on an endpoint; the first on it sets its method.                *)
Placed(g, kind, index, target) ==
    LET v == <<"vuln", kind, index>>
        body == kind \in BODY_SHAPED_KINDS /\ Srcs(g, "affects", target) = {}
    IN WithEdges(WithNodes(WithNodes(g, Single(v, Vuln(kind, Params))),
                           Single(target, [g.nodes[target] EXCEPT !.method = IF body THEN "POST" ELSE @])),
                 {SampledEdge("affects", v, target)})

(* What enables what, between the first of each kind.                              *)
Enabling(g) ==
    WithEdges(g, UNION {{SampledEdge("enables", v, First(OfKind(g, k))) :
                           k \in {k \in Enables(g.nodes[v].flaw) : OfKind(g, k) # {} /\ First(OfKind(g, k)) # v}}
                        : v \in Vulns(g)})

-----------------------------------------------------------------------------
(* The foothold: the first SSRF moves to the first endpoint of the public service. *)
(* Its edge keeps the id it had.                                                  *)

PublicService(g) == CHOOSE s \in Public(g) : TRUE
FirstEndpoint(g, s) ==
    CHOOSE e \in Dsts(g, "exposes", s) : \A d \in Dsts(g, "exposes", s) \ {e} : Precedes(e, d)

Pivotable(g) == OfKind(g, "ssrf") # {} /\ FlagServices(g) \cap Public(g) = {}

Foothold(g, params) ==
    LET ssrf == First(OfKind(g, "ssrf"))
        ep == FirstEndpoint(g, PublicService(g))
    IN [g EXCEPT !.nodes = [@ EXCEPT ![ssrf].params = params, ![ep].method = "GET"],
                 !.edges = [e \in DOMAIN @ |-> IF @[e].kind = "affects" /\ @[e].src = ssrf
                                               THEN [@[e] EXCEPT !.dst = ep] ELSE @[e]]]

(* _networkize_ssrf: the SSRF pivots to a metadata endpoint of the flag's service. *)
_networkize_ssrf(g) ==
    IF g.nodes[_flag_store(g)].engine = "fs" \/ ~Pivotable(g) THEN g
    ELSE LET host == CHOOSE s \in FlagServices(g) : TRUE
             ep == <<"ep", host[2], "metadata">>
             leak == <<"vuln", "metadata_credential_leak", 0>>
         IN WithEdges(WithNodes(Foothold(g, [Params EXCEPT !.host = host]),
                                Overridden(Single(ep, Endpoint("metadata")),
                                           Single(leak, Vuln("metadata_credential_leak", Params)))),
                      {SampledEdge("exposes", host, ep), SampledEdge("affects", leak, ep),
                       SampledEdge("enables", First(OfKind(g, "ssrf")), leak)})

(* _add_recon_disclosure: a public endpoint that names the internal hosts.         *)
_add_recon_disclosure(g) ==
    IF OfKind(g, "ssrf") = {} \/ Internals(g) = {} THEN g
    ELSE LET ep == <<"ep", PublicService(g)[2], "recon">>
             tells == <<"vuln", "config_disclosure", 0>>
         IN WithEdges(WithNodes(g, Overridden(Single(ep, Endpoint("recon")),
                                              Single(tells, Vuln("config_disclosure", Params)))),
                      {SampledEdge("exposes", PublicService(g), ep), SampledEdge("affects", tells, ep)})

(* The internal hosts other than the flag's, in the order of their tiers.          *)
Inward(g, s, t) ==
    LET tier(x) == CASE g.nodes[x].tier = "db" -> 4 [] g.nodes[x].tier = "auth" -> 3 [] OTHER -> 2
    IN tier(s) < tier(t) \/ (tier(s) = tier(t) /\ s[2] < t[2])

Others(g) ==
    LET hosts == Internals(g) \ FlagServices(g)
    IN CHOOSE seq \in [1 .. Cardinality(hosts) -> hosts] :
         \A i, j \in DOMAIN seq : i < j => Inward(g, seq[i], seq[j])

Depths(g, p) ==
    LET ceiling == Min({3, Len(Others(g))})
    IN {d \in 1 .. ceiling : p.depth = "any" \/ (p.depth = "one" /\ d = 1)}

(* The gate number j of a chain over the given hosts: the last serves the flag.    *)
GateVuln(hosts, j) ==
    IF j = Len(hosts) THEN <<"vuln", "credential_gated_flag", 0>> ELSE <<"vuln", "credential_gated_relay", j - 1>>

GateParams(hosts, j) ==
    IF j = Len(hosts) THEN [Params EXCEPT !.credential = <<"token", j, 0>>]
    ELSE [Params EXCEPT !.credential = <<"token", j, 0>>, !.next_credential = <<"token", j + 1, 0>>,
                        !.host = hosts[j + 1]]

(* The gates, each with its endpoint, the credential it asks for and its edges.    *)
Chained(g, leak, hosts) ==
    LET n == Len(hosts)
        ep(j) == <<"ep", hosts[j][2], "vault">>
        cred(j) == <<"cred", j - 1>>
        before(j) == IF j = 1 THEN leak ELSE GateVuln(hosts, j - 1)
        index(v) == CHOOSE j \in 1 .. n : GateVuln(hosts, j) = v
        creds == [c \in {cred(j) : j \in 1 .. n} |-> Holder("credential", <<"token", c[2] + 1, 0>>)]
        vaults == [e \in {ep(j) : j \in 1 .. n} |-> Endpoint("vault")]
        gates == [v \in {GateVuln(hosts, j) : j \in 1 .. n} |-> Vuln(v[2], GateParams(hosts, index(v)))]
    IN WithEdges(WithNodes(g, Overridden(Overridden(creds, vaults), gates)),
                 UNION {{SampledEdge("exposes", hosts[j], ep(j)), SampledEdge("affects", GateVuln(hosts, j), ep(j)),
                         SampledEdge("enables", before(j), GateVuln(hosts, j)),
                         SampledEdge("requires_credential", ep(j), cred(j)),
                         SampledEdge("produces", before(j), cred(j))} : j \in 1 .. n})

(* _lateralize: the SSRF proxies to every internal host, the entry host leaks the   *)
(* first credential, each next host asks for one and gives the next away, and the    *)
(* flag's own host serves the flag; its record holds a decoy from now on.           *)
_lateralize(g, depth) ==
    LET others == Others(g)
        flag_host == CHOOSE s \in FlagServices(g) : TRUE
        entry == others[1]
        hosts == Append(SubSeq(others, 2, depth), flag_host)
        ep == <<"ep", entry[2], "credleak">>
        leak == <<"vuln", "credential_leak", 0>>
        footed == Foothold(g, [Params EXCEPT !.hosts = Internals(g)])
        names == [Params EXCEPT !.credential = <<"token", 1, 0>>, !.host = hosts[1]]
        leaking == WithNodes(WithNodes(footed, Overridden(Single(ep, Endpoint("credleak")),
                                                          Single(leak, Vuln("credential_leak", names)))),
                             Single(record_id, Holder("record", <<"decoy", 0, 0>>)))
    IN Chained(WithEdges(leaking, {SampledEdge("exposes", entry, ep), SampledEdge("affects", leak, ep),
                                   SampledEdge("enables", First(OfKind(g, "ssrf")), leak)}),
               leak, hosts)

-----------------------------------------------------------------------------
Init ==
    /\ graph = NoGraph
    /\ prior \in Priors
    /\ stage = "services"
    /\ draws = 0
    /\ evolved = 0
    /\ between = 0
    /\ order = {}
    /\ loaded = FALSE

(* The edges from vulnerabilities keep their order; those that are new come last. Two  *)
(* that come in one step are not ordered: they never affect the same endpoint.         *)
Reordered(before, g, after) ==
    (before \cap (Affects(after) \X Affects(after)))
    \cup (Affects(g) \cap Affects(after)) \X (Affects(after) \ Affects(g))

SampleServices ==
    /\ stage = "services"
    /\ \E layout \in Layouts, engine \in LootShapes(prior) :
         \E deepest \in _pick_deepest_service(layout) : graph' = Skeleton(layout, deepest, engine)
    /\ stage' = "vulns"
    /\ draws' = 0
    /\ order' = Reordered(order, graph, graph')
    /\ UNCHANGED <<prior, evolved, between, loaded>>

(* The first vulnerability is one that reads the flag. *)
PlaceOracle ==
    /\ stage = "vulns" /\ draws = 0
    /\ \E oracle \in _forced_oracle(graph, Pool(prior)) : graph' = Placed(graph, oracle[1], 0, oracle[2])
    /\ draws' = 1
    /\ order' = Reordered(order, graph, graph')
    /\ UNCHANGED <<prior, stage, evolved, between, loaded>>

(* Another goes anywhere it can; a pair that is placed already is skipped. The      *)
(* endpoint is any eligible one, for the endpoints are shuffled.                    *)
PlaceVuln ==
    /\ stage = "vulns" /\ draws \in 1 .. MaxVulns - 1
    /\ \E kind \in Pool(prior) :
         \E e \in _eligible_endpoints_for(graph, kind, by_kind(graph, "endpoint")) :
           graph' = IF \E v \in OfKind(graph, kind) : Target(graph, v) = e THEN graph
                    ELSE Placed(graph, kind, draws, e)
    /\ draws' = draws + 1
    /\ order' = Reordered(order, graph, graph')
    /\ UNCHANGED <<prior, stage, evolved, between, loaded>>

(* The rest of sample_graph: what enables what, the chain or the pivot, the recon.  *)
Compose ==
    /\ stage = "vulns" /\ draws >= 1
    /\ LET g == Enabling(graph)
           told(h) == IF prior.company /\ prior.recon THEN _add_recon_disclosure(h) ELSE h
       IN IF ~prior.lateral THEN graph' = told(_networkize_ssrf(g))
          ELSE IF ~Pivotable(g) \/ Others(g) = <<>> THEN graph' = told(g)
          ELSE \E depth \in Depths(g, prior) : graph' = told(_lateralize(g, depth))
    /\ stage' = "admission"
    /\ order' = Reordered(order, graph, graph')
    /\ UNCHANGED <<prior, draws, evolved, between, loaded>>

(* admit() keeps the world, or the builder samples again. *)
Admission ==
    /\ stage = "admission"
    /\ stage' = IF Admits(graph) THEN "world" ELSE "services"
    /\ graph' = IF Admits(graph) THEN graph ELSE NoGraph
    /\ order' = Reordered(order, graph, graph')
    /\ UNCHANGED <<prior, draws, evolved, between, loaded>>

(* The mutations a world offers whose world is admitted, for an episode that went to *)
(* no public endpoint and for one that went to all.                                *)
Admissible(g) ==
    {m \in UNION {available_mutations(g, requests) : requests \in {{}, PublicEndpoints(g)}} :
        ~Collides(g, m.patch) /\ Admits(apply_patch(g, m.patch))}

(* auto_evolve takes one of them; which comes first is left open, for the gate of the *)
(* caller may refuse any.                                                          *)
Evolve ==
    /\ stage = "world"
    /\ evolved < MaxEvolved
    /\ \E m \in Admissible(graph) : graph' = apply_patch(graph, m.patch)
    /\ evolved' = evolved + 1
    /\ order' = Reordered(order, graph, graph')
    /\ UNCHANGED <<prior, stage, draws, between, loaded>>

(* The integrity check runs the world on with fresh values. *)
Reseed ==
    /\ stage = "world"
    /\ between < MaxBetween
    /\ graph' = reseed_chain(graph, between + 1)
    /\ between' = between + 1
    /\ UNCHANGED <<prior, stage, draws, evolved, order, loaded>>

(* The flag alone is planted anew. *)
Replant ==
    /\ stage = "world"
    /\ between < MaxBetween
    /\ graph' = replant_flag(graph, between + 1)
    /\ between' = between + 1
    /\ UNCHANGED <<prior, stage, draws, evolved, order, loaded>>

(* The ids of edges as strings: the sampled ones begin with their kind, those of a    *)
(* patch with their source.                                                        *)
ById(d, e) ==
    LET rank(x) == (IF x[1] = "sampled" THEN 0 ELSE 10000) + 100 * KindRank[x[3][2]] + x[3][3]
    IN rank(d) < rank(e)

(* save() and load(): the file has nodes and edges sorted by id, and the graph that   *)
(* is read from it holds them in that order. Its id is the same.                     *)
Reload ==
    /\ stage = "world"
    /\ between < MaxBetween
    /\ order' = {p \in Affects(graph) \X Affects(graph) : ById(p[1], p[2])}
    /\ loaded' = TRUE
    /\ between' = between + 1
    /\ UNCHANGED <<graph, prior, stage, draws, evolved>>

Next ==
    \/ SampleServices \/ PlaceOracle \/ PlaceVuln \/ Compose
    \/ Admission \/ Evolve \/ Reseed \/ Replant \/ Reload

Spec == Init /\ [][Next]_vars

-----------------------------------------------------------------------------
(* Properties.                                                                   *)

(* What a draft or a world is made of: edges between nodes that exist and fit, and a  *)
(* place for every vulnerability, as the readers of a graph take for granted.        *)
TypeOK ==
    /\ prior \in Priors
    /\ stage \in {"services", "vulns", "admission", "world"}
    /\ draws \in 0 .. MaxVulns /\ evolved \in 0 .. MaxEvolved /\ between \in 0 .. MaxBetween
    /\ loaded \in BOOLEAN
    /\ order \subseteq Affects(graph) \X Affects(graph)
    /\ \A p \in order : <<p[2], p[1]>> \notin order
    /\ WellTyped(graph)
    /\ \A v \in Vulns(graph) : Cardinality(Dsts(graph, "affects", v)) = 1
    /\ \A e \in by_kind(graph, "endpoint") : Cardinality(Srcs(graph, "exposes", e)) = 1

(* The public foothold is driven by GET, and runs the SSRF. *)
Footing(g, before) ==
    LET ssrf == First(OfKind(g, "ssrf"))
    IN ssrf \in _entry_ssrf(g) /\ g.nodes[Target(g, ssrf)].method = "GET" /\ Serves(g, before, ssrf)

(* The foothold reaches the metadata of the host that has the flag. *)
Pivots(g, before) ==
    \A v \in OfKind(g, "metadata_credential_leak") :
        Serves(g, before, v) /\ FlagServices(g) = {HostOf(g, v)} /\ g.nodes[First(OfKind(g, "ssrf"))].params.host = HostOf(g, v)

(* A solver that only follows what the hosts answer gets to the gate that serves the   *)
(* flag, each gate the handler its endpoint runs, over as many distinct hosts as there  *)
(* are credentials, and the last one owns the store of the flag, so that it has the     *)
(* flag also when every service runs with its own secrets.                           *)
Walks(g, before) ==
    LET passed == _walk_credential_chain(g)
        hosts == {HostOf(g, passed[i]) : i \in DOMAIN passed}
        last == passed[Len(passed)]
    IN /\ passed # <<>>
       /\ \A v \in Range(passed) : Serves(g, before, v)
       /\ g.nodes[last].flaw = "credential_gated_flag"
       /\ Cardinality(hosts) = Len(passed)
       /\ Len(passed) = Cardinality(by_kind(g, "credential")) + 1
       /\ FlagServices(g) = {HostOf(g, last)}

Solved(g, before) == Footing(g, before) /\ (IF IsChain(g) THEN Walks(g, before) ELSE Pivots(g, before))

(* The flag of a preset's world can be had over its chain or its pivot, whatever       *)
(* mutations the world went through, as long as it is the one that was built.         *)
ChainSolvable == (stage = "world" /\ prior.company /\ ~loaded) => Solved(graph, order)

(* A world that is read back from the store is the world that was saved, and solved   *)
(* as it was (CONTRACTS.md: "Feeding the output of one into the other reproduces the   *)
(* original Snapshot").                                                            *)
LoadedSolvable == (stage = "world" /\ prior.company /\ loaded) => Solved(graph, order)

(* A chain changes at its end only: a mutation leaves the walk alone, takes its last *)
(* hop or adds one, the gate for deeper worlds accepts just the last, and the          *)
(* difficulty goes with the hops: no number of decoys weighs as much as one of them.  *)
HopsFollowWalk ==
    [][(stage = "world" /\ evolved' # evolved /\ IsChain(graph)) =>
         LET was == _credential_walk(graph)
             is == _credential_walk(graph')
             deeper == Cardinality(by_kind(graph', "credential")) > Cardinality(by_kind(graph, "credential"))
             harder == world_difficulty(graph') - world_difficulty(graph)
         IN /\ is = was \/ is = Front(was) \/ (is # <<>> /\ Front(is) = was)
            /\ deeper <=> monotone_chain_gate(graph, graph')
            /\ deeper => harder >= 100
            /\ Len(is) < Len(was) => harder <= -100
            /\ is = was => harder \in -30 .. 30]_vars

(* Fresh values leave nothing of the old ones behind, and the world is admitted and   *)
(* solved as before: no handler keeps a copy of the flag or of a token.              *)
ReseedIsComplete ==
    [][(stage = "world" /\ graph' # graph /\ evolved' = evolved) =>
         /\ Admits(graph')
         /\ graph.nodes[flag_id].value \notin AllCarried(graph')
         /\ Tokens(graph') # Tokens(graph) => Tokens(graph) \cap AllCarried(graph') = {}
         /\ (prior.company /\ ~loaded) => Solved(graph', order')]_vars

=============================================================================
