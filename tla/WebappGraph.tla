----------------------------- MODULE WebappGraph -----------------------------
(* The worlds of the webapp pack as graphs: what the catalog says of a           *)
(* vulnerability, how a world is read, the invariants and the feasibility check   *)
(* it is admitted by, the walk of the reference solver and the difficulty that     *)
(* is read off it. Pure operators over the graphs of GraphIR. A node is a record   *)
(* of its kind and the attributes below; services are numbered in the order of     *)
(* their ids, and an id is a tuple, its parts in the order of the name it stands   *)
(* for. Hosts, networks, decoy files, URLs and token parameters are left out.      *)
EXTENDS GraphIR, Sequences, SequencesExt

NoValue == <<"none", 0, 0>>
NoHost == <<"svc", 0>>

Service(tier) == [kind |-> "service", tier |-> tier, exposure |-> IF tier = "web" THEN "public" ELSE "internal"]
Endpoint(path) == [kind |-> "endpoint", path |-> path, method |-> "GET"]
Store(engine) == [kind |-> "data_store", engine |-> engine]
Holder(kind, value) == [kind |-> kind, value |-> value]
Vuln(flaw, params) == [kind |-> "vulnerability", flaw |-> flaw, params |-> params]

(* What the handlers are rendered with: the credential a gate asks for or a leak   *)
(* gives away, what a relay gives away, the host either names, and the hosts a     *)
(* proxying SSRF reaches.                                                         *)
Params == [credential |-> NoValue, next_credential |-> NoValue, host |-> NoHost, hosts |-> {}]

flag_id == <<"secret", "flag">>
record_id == <<"rec", "flag">>

-----------------------------------------------------------------------------
(* The catalog: shape, whether the exploit is a body, whether it queries a store,  *)
(* what it enables, and the complexity of the exploit in tenths.                   *)

Entry(shape, complexity) == [shape |-> shape, complexity |-> complexity]

CATALOG ==
    [sql_injection |-> Entry("response_leak", 7), ssrf |-> Entry("response_leak", 5),
     broken_authz |-> Entry("response_leak", 3), path_traversal |-> Entry("file_read", 5),
     command_injection |-> Entry("code_exec", 8), xxe |-> Entry("file_read", 7),
     ssti |-> Entry("code_exec", 7), idor |-> Entry("response_leak", 2),
     weak_credentials |-> Entry("response_leak", 3),
     metadata_credential_leak |-> Entry("response_leak", 1), config_disclosure |-> Entry("response_leak", 0),
     credential_leak |-> Entry("response_leak", 1), credential_gated_flag |-> Entry("response_leak", 1),
     credential_gated_relay |-> Entry("response_leak", 1)]

Enables(flaw) == IF flaw = "ssrf" THEN {"broken_authz", "metadata_credential_leak"} ELSE {}

BODY_SHAPED_KINDS == {"command_injection", "sql_injection", "ssti", "weak_credentials", "xxe"}

_VULN_KINDS_REQUIRING_DB == {"sql_injection", "idor"}

_INTERNAL_ONLY_KINDS ==
    {"metadata_credential_leak", "config_disclosure", "credential_leak", "credential_gated_flag",
     "credential_gated_relay"}

_ORACLE_SHAPES_FOR_LOOT(engine) ==
    IF engine = "kv" THEN {"response_leak"} ELSE {"file_read", "code_exec"}

-----------------------------------------------------------------------------
(* Reading a graph.                                                             *)

by_kind(g, kind) == {n \in DOMAIN g.nodes : g.nodes[n].kind = kind}
Links(g, kind) == {g.edges[e] : e \in {e \in DOMAIN g.edges : g.edges[e].kind = kind}}
Dsts(g, kind, src) ==
    {g.edges[e].dst : e \in {e \in DOMAIN g.edges : g.edges[e].kind = kind /\ g.edges[e].src = src}}
Srcs(g, kind, dst) ==
    {g.edges[e].src : e \in {e \in DOMAIN g.edges : g.edges[e].kind = kind /\ g.edges[e].dst = dst}}

Vulns(g) == by_kind(g, "vulnerability")
OfKind(g, flaw) == {v \in Vulns(g) : g.nodes[v].flaw = flaw}

(* The kinds by name: an id is ordered by the kind it was placed as, then by index. *)
KindRank ==
    [broken_authz |-> 1, command_injection |-> 2, config_disclosure |-> 3, credential_gated_flag |-> 4,
     credential_gated_relay |-> 5, credential_leak |-> 6, idor |-> 7, metadata_credential_leak |-> 8,
     path_traversal |-> 9, sql_injection |-> 10, ssrf |-> 11, ssti |-> 12, weak_credentials |-> 13, xxe |-> 14]

FirstById(vulns) == CHOOSE v \in vulns : \A w \in vulns : 100 * KindRank[v[2]] + v[3] <= 100 * KindRank[w[2]] + w[3]

(* _placement_index, and what stands here for the order of insertion.            *)
First(vulns) == CHOOSE v \in vulns : \A w \in vulns : 100 * v[3] + KindRank[v[2]] <= 100 * w[3] + KindRank[w[2]]

Public(g) == {s \in by_kind(g, "service") : g.nodes[s].exposure = "public"}
Internals(g) == by_kind(g, "service") \ Public(g)
PublicEndpoints(g) == UNION {Dsts(g, "exposes", s) : s \in Public(g)}

(* Every vulnerability affects one endpoint, and a service exposes each.         *)
Target(g, v) == CHOOSE t \in Dsts(g, "affects", v) : TRUE
HostOf(g, v) == CHOOSE s \in Srcs(g, "exposes", Target(g, v)) : TRUE

Affects(g) == {e \in DOMAIN g.edges : g.edges[e].kind = "affects"}

(* build_handlers_and_routes: an endpoint runs the handler of one vulnerability, the  *)
(* one whose edge comes before all others that affect it; those are not served.       *)
Serves(g, order, v) ==
    \E e \in Affects(g) :
        /\ g.edges[e].src = v
        /\ \A d \in Affects(g) \ {e} : g.edges[d].dst = g.edges[e].dst => <<e, d>> \in order

(* The store of the flag, the services that are backed by it, and its endpoints. *)
_flag_store(g) == CHOOSE d \in Srcs(g, "contains", record_id) : TRUE
FlagServices(g) == Srcs(g, "backed_by", _flag_store(g))
_oracle_path_targets(g) == UNION {Dsts(g, "exposes", s) : s \in FlagServices(g)}

_is_networked(g) == \E v \in OfKind(g, "ssrf") : Target(g, v) \in PublicEndpoints(g)

-----------------------------------------------------------------------------
(* Admission: the ontology's edges, the invariants of the pack and the tasks of    *)
(* the pentest family.                                                          *)

EdgeEndpoints ==
    [exposes |-> {<<"service", "endpoint">>}, backed_by |-> {<<"service", "data_store">>},
     contains |-> {<<"data_store", "record">>}, holds |-> {<<"record", "secret">>},
     affects |-> {<<"vulnerability", "endpoint">>, <<"vulnerability", "service">>},
     enables |-> {<<"vulnerability", "vulnerability">>}, produces |-> {<<"vulnerability", "credential">>},
     requires_credential |-> {<<"endpoint", "credential">>}]

WellTyped(g) ==
    \A e \in Range(g.edges) :
        /\ {e.src, e.dst} \subseteq DOMAIN g.nodes
        /\ <<g.nodes[e.src].kind, g.nodes[e.dst].kind>> \in EdgeEndpoints[e.kind]

no_orphan_nodes(g) == \A n \in DOMAIN g.nodes : \E e \in Range(g.edges) : n \in {e.src, e.dst}

secret_must_be_held(g) == \A n \in by_kind(g, "secret") : Srcs(g, "holds", n) # {}

oracle_path_exists(g) ==
    /\ flag_id \in DOMAIN g.nodes
    /\ Srcs(g, "contains", record_id) # {}
    /\ \E e \in Links(g, "affects") : e.dst \in FlagServices(g) \cup _oracle_path_targets(g)

unique_vuln_per_endpoint(g) ==
    \A v, w \in Vulns(g) : (v # w /\ g.nodes[v].flaw = g.nodes[w].flaw) => Target(g, v) # Target(g, w)

(* The vulnerabilities reached from some over the enables edges. *)
_enable_closure(g, seeds) ==
    LET step[n \in 0 .. Cardinality(Vulns(g))] ==
            IF n = 0 THEN seeds
            ELSE LET before == step[n - 1] IN before \cup UNION {Dsts(g, "enables", v) : v \in before}
    IN step[Cardinality(Vulns(g))]

Gates(g, endpoint) ==
    {v \in Srcs(g, "affects", endpoint) : g.nodes[v].flaw \in {"credential_gated_relay", "credential_gated_flag"}}

credential_reuse_binding(g) ==
    /\ \A e \in Links(g, "produces") : g.nodes[e.src].flaw \in {"credential_leak", "credential_gated_relay"}
    /\ \A e \in Links(g, "requires_credential") :
         LET producers == Srcs(g, "produces", e.dst)
         IN /\ Cardinality(producers) = 1
            /\ Gates(g, e.src) # {}
            /\ \A p \in producers, v \in Gates(g, e.src) :
                 p # v /\ v \in _enable_closure(g, Dsts(g, "enables", p))

(* What a hop gives away. *)
Emitted(g, v) ==
    IF g.nodes[v].flaw = "credential_gated_relay" THEN g.nodes[v].params.next_credential
    ELSE g.nodes[v].params.credential

credential_value_binding(g) ==
    /\ \A e \in Links(g, "produces") : Emitted(g, e.src) = g.nodes[e.dst].value
    /\ \A e \in Links(g, "requires_credential") :
         \A v \in Gates(g, e.src) : g.nodes[v].params.credential = g.nodes[e.dst].value

(* The values a node carries. *)
Carried(n) ==
    CASE n.kind \in {"record", "secret", "credential"} -> {n.value}
      [] n.kind = "vulnerability" -> {n.params.credential, n.params.next_credential}
      [] OTHER -> {}

flag_confined_to_gate(g) ==
    OfKind(g, "credential_gated_flag") # {} =>
        \A n \in DOMAIN g.nodes \ {flag_id} : g.nodes[flag_id].value \notin Carried(g.nodes[n])

sqli_targets_db_backed_service(g) ==
    \A v \in Vulns(g) :
        g.nodes[v].flaw \in _VULN_KINDS_REQUIRING_DB => Dsts(g, "backed_by", HostOf(g, v)) # {}

(* generate: the endpoint of a vulnerability whose exploits reach a service that   *)
(* holds the flag, a public one before an internal one.                          *)
EntryCandidates(g) ==
    {Target(g, v) : v \in {v \in Vulns(g) :
        \E w \in _enable_closure(g, {v}) : HostOf(g, w) \in FlagServices(g)}}

Entrypoints(g) ==
    IF EntryCandidates(g) \cap PublicEndpoints(g) # {} THEN EntryCandidates(g) \cap PublicEndpoints(g)
    ELSE EntryCandidates(g)

(* check_feasibility: follow what the vulnerabilities of the entry's service enable *)
(* to a service that is backed by the store of the flag.                          *)
check_feasibility(g, endpoint) ==
    LET exposing == Srcs(g, "exposes", endpoint)
        entry_vulns == {v \in Vulns(g) : Target(g, v) \in {endpoint} \cup exposing}
        reached == exposing \cup {HostOf(g, v) : v \in _enable_closure(g, entry_vulns)}
    IN /\ entry_vulns # {}
       /\ \E s \in reached : \E d \in Dsts(g, "backed_by", s) :
            \E r \in Dsts(g, "contains", d) : flag_id \in Dsts(g, "holds", r)

Admits(g) ==
    /\ WellTyped(g) /\ no_orphan_nodes(g) /\ secret_must_be_held(g) /\ oracle_path_exists(g)
    /\ unique_vuln_per_endpoint(g) /\ sqli_targets_db_backed_service(g)
    /\ credential_reuse_binding(g) /\ credential_value_binding(g) /\ flag_confined_to_gate(g)
    /\ Entrypoints(g) # {}
    /\ \A e \in Entrypoints(g) : check_feasibility(g, e)

-----------------------------------------------------------------------------
(* The chain of credentials, as the graph links it and as a solver finds it.     *)

IsChain(g) == OfKind(g, "credential_leak") # {}

GatedBy(g, v) ==
    {w \in Dsts(g, "enables", v) : g.nodes[w].flaw \in {"credential_gated_relay", "credential_gated_flag"}}

NoVuln == <<"vuln", "none", 0>>

(* _credential_walk: from the leak over the enables edges to the terminal gate,    *)
(* the host and the credential of each gate on the way.                           *)
_credential_walk(g) ==
    LET gate[n \in 0 .. Cardinality(Vulns(g))] ==
            IF n = 0 THEN First(OfKind(g, "credential_leak"))
            ELSE LET before == gate[n - 1]
                     after == IF before = NoVuln THEN {} ELSE GatedBy(g, before)
                 IN IF after = {} THEN NoVuln ELSE CHOOSE w \in after : TRUE
        hops == {n \in 1 .. Cardinality(Vulns(g)) : gate[n] # NoVuln}
    IN IF IsChain(g)
       THEN [n \in 1 .. Cardinality(hops) |-> <<HostOf(g, gate[n]), g.nodes[gate[n]].params.credential>>]
       ELSE <<>>

(* What a gated host answers to a credential: the gate it passes, or none. Only     *)
(* the hosts the SSRF proxies can be asked.                                       *)
Answer(g, proxied, host, credential) ==
    {v \in Vulns(g) :
        /\ host \in proxied
        /\ g.nodes[v].flaw \in {"credential_gated_relay", "credential_gated_flag"}
        /\ HostOf(g, v) = host
        /\ g.nodes[Target(g, v)].path = "vault"
        /\ g.nodes[v].params.credential = credential}

(* _walk_credential_chain: ask each host the last answer named, with the credential *)
(* it gave away. The gates passed, in order; it stops where nothing answers.        *)
_walk_credential_chain(g) ==
    LET leak == First(OfKind(g, "credential_leak"))
        proxied == g.nodes[First(OfKind(g, "ssrf"))].params.hosts
        passed[n \in 0 .. Cardinality(Vulns(g))] ==
            IF n = 0 THEN IF HostOf(g, leak) \in proxied THEN <<leak>> ELSE <<>>
            ELSE LET before == passed[n - 1]
                     last == before[n]
                     next == Answer(g, proxied, g.nodes[last].params.host, Emitted(g, last))
                 IN IF Len(before) < n \/ g.nodes[last].flaw = "credential_gated_flag" \/ next = {} THEN before
                    ELSE Append(before, CHOOSE v \in next : TRUE)
    IN passed[Cardinality(Vulns(g))]

-----------------------------------------------------------------------------
(* world_difficulty, in tenths.                                                  *)

_entry_ssrf(g) == {v \in OfKind(g, "ssrf") : Target(g, v) \in PublicEndpoints(g)}

(* The exploit on the flag's path: the gate or the metadata leak, else the first     *)
(* that was placed.                                                               *)
_oracle_vuln(g) ==
    LET on == {v \in Vulns(g) : Target(g, v) \in _oracle_path_targets(g) /\ g.nodes[v].flaw # "config_disclosure"}
        served == {v \in on : g.nodes[v].flaw \in {"credential_gated_flag", "metadata_credential_leak"}}
    IN IF served # {} THEN {First(served)} ELSE IF on # {} THEN {First(on)} ELSE {}

_class_weight(g, vulns) == IF vulns = {} THEN 0 ELSE 4 * CATALOG[g.nodes[First(vulns)].flaw].complexity

ChainWeight(g) ==
    LET walk == _credential_walk(g)
        pivots == Cardinality({walk[i][1] : i \in DOMAIN walk})
        spare == Cardinality(Internals(g)) - (Len(walk) + 1)
    IN 100 * Len(walk)
       + 40 * (IF walk = <<>> THEN 1 ELSE pivots)
       + 30
       + (IF OfKind(g, "config_disclosure") # {} THEN 0 ELSE 50)
       + Min({60, 10 * Max({0, spare})})

world_difficulty(g) ==
    LET off_path == {v \in Vulns(g) \ _oracle_vuln(g) : g.nodes[v].flaw \notin {"ssrf"} \cup _INTERNAL_ONLY_KINDS}
    IN (IF _entry_ssrf(g) = {} THEN 0 ELSE ChainWeight(g))
       + _class_weight(g, _entry_ssrf(g)) + _class_weight(g, _oracle_vuln(g))
       + Min({30, 3 * Cardinality(off_path)})

=============================================================================
