--------------------------- MODULE WebappMutation ---------------------------
(* What may change in an admitted webapp world: the mutations its families offer   *)
(* to the curriculum, each a patch of GraphIR, the gate that lets only a deeper    *)
(* chain pass, and the transforms that give a world a fresh flag. Pure operators.  *)
EXTENDS WebappGraph

CONSTANT SortedKinds   \* the catalogued kinds of general sampling, by name

Mutation(direction, kind, patch) == [direction |-> direction, kind |-> kind, patch |-> patch]

(* _edge_id and _chain_edge: an edge of a patch is named after its ends, in another *)
(* form than a sampled one.                                                      *)
ChainEdge(kind, src, dst) == <<"patch", kind, src, dst>>

EdgesOf(ids) == [id \in ids |-> [kind |-> id[2], src |-> id[3], dst |-> id[4]]]

EdgesAt(g, nodes) == {e \in DOMAIN g.edges : Touches(g.edges[e], nodes)}

_fresh_vuln_id(kind, g) ==
    <<"vuln", kind, Min({i \in 0 .. Cardinality(DOMAIN g.nodes) : <<"vuln", kind, i>> \notin DOMAIN g.nodes})>>

_protected_kinds(g) == IF _is_networked(g) THEN _INTERNAL_ONLY_KINDS \cup {"ssrf"} ELSE _INTERNAL_ONLY_KINDS

Present(g) == {g.nodes[v].flaw : v \in Vulns(g)}

(* The endpoint order of ids: by service, then by path.                          *)
PathRank == [a |-> 1, b |-> 2, credleak |-> 3, metadata |-> 4, recon |-> 5, vault |-> 6]
Precedes(d, e) == d[2] < e[2] \/ (d[2] = e[2] /\ PathRank[d[3]] < PathRank[e[3]])

(* Decoy endpoints first, then those on the path to the flag.                     *)
DecoyFirst(g) ==
    LET oracle == _oracle_path_targets(g)
        rank(e) == IF e \in oracle THEN 1 ELSE 0
    IN CHOOSE e \in by_kind(g, "endpoint") :
         \A d \in by_kind(g, "endpoint") \ {e} : rank(e) < rank(d) \/ (rank(e) = rank(d) /\ Precedes(e, d))

(* _harden_add_absent_mutations: a kind the world lacks, on the first decoy.        *)
_harden_add_absent_mutations(g) ==
    {Mutation("harden", "add",
        [EmptyPatch EXCEPT !.nodes_added = Single(_fresh_vuln_id(kind, g), Vuln(kind, Params)),
                           !.edges_added = EdgesOf({ChainEdge("affects", _fresh_vuln_id(kind, g), DecoyFirst(g))})])
        : kind \in Range(SortedKinds) \ Present(g)}

(* _soften_remove_kind_mutation, for every kind that is not protected.              *)
_soften_remove_kind_mutations(g) ==
    {Mutation("soften", "remove",
        [EmptyPatch EXCEPT !.nodes_removed = OfKind(g, kind), !.edges_removed = EdgesAt(g, OfKind(g, kind))])
        : kind \in Present(g) \ _protected_kinds(g)}

(* _pick_alt_kind: the first kind by name the target does not have yet, of the       *)
(* shapes the flag's store can be read by when the target is on its path.            *)
_pick_alt_kind(g, kind, target) ==
    LET fits(alt) ==
            /\ alt # kind
            /\ \A v \in OfKind(g, alt) : Target(g, v) # target
            /\ target \in _oracle_path_targets(g) =>
                 CATALOG[alt].shape \in _ORACLE_SHAPES_FOR_LOOT(g.nodes[_flag_store(g)].engine)
    IN SelectInSeq(SortedKinds, fits)

(* The endpoint has one vulnerability.                                            *)
SoleVuln(g, target) == Cardinality({g.nodes[v].flaw : v \in Srcs(g, "affects", target)}) = 1

(* The method a swapped endpoint is left with.                                    *)
MethodAfter(g, target, alt) ==
    IF ~SoleVuln(g, target) THEN g.nodes[target].method
    ELSE IF alt \in BODY_SHAPED_KINDS THEN "POST" ELSE "GET"

(* _diversify_swap_kind_mutations: the first vulnerability of a kind becomes another *)
(* in place; a networked world takes no second foothold.                          *)
_diversify_swap_kind_mutations(g) ==
    {Mutation("diversify", "swap",
        LET v == FirstById(OfKind(g, kind))
            alt == SortedKinds[_pick_alt_kind(g, kind, Target(g, v))]
            method == MethodAfter(g, Target(g, v), alt)
        IN [EmptyPatch EXCEPT !.nodes_updated =
               Overridden(Single(v, Vuln(alt, Params)),
                          Single(Target(g, v), [g.nodes[Target(g, v)] EXCEPT !.method = method]))])
        : kind \in {kind \in Present(g) \ _protected_kinds(g) :
            LET i == _pick_alt_kind(g, kind, Target(g, FirstById(OfKind(g, kind))))
            IN i # 0 /\ ~(_is_networked(g) /\ SortedKinds[i] = "ssrf")}}

-----------------------------------------------------------------------------
(* The hops of a chain.                                                          *)

Terminal(g) == CHOOSE v \in OfKind(g, "credential_gated_flag") : TRUE

_chain_service_ids(g) ==
    {HostOf(g, v) : v \in {v \in Vulns(g) :
        g.nodes[v].flaw \in {"credential_leak", "credential_gated_relay", "credential_gated_flag"}}}

(* The internal services that are not on the chain yet.                            *)
Spares(g) == Internals(g) \ _chain_service_ids(g)

_spare_internal_service(g) == CHOOSE s \in Spares(g) : \A t \in Spares(g) : s[2] <= t[2]

StoreEdge(g) == {e \in DOMAIN g.edges : g.edges[e].kind = "backed_by" /\ g.edges[e].dst = _flag_store(g)}

(* mutant: the store stays with the host the chain used to end at. *)
RehomedNot(g, host) == [removed |-> {}, added |-> {}]

(* The store of the flag moves to the host of the last gate.                        *)
Rehomed(g, host) == [removed |-> StoreEdge(g), added |-> {ChainEdge("backed_by", host, _flag_store(g))}]

(* _harden_append_hop_mutation: the terminal gate becomes a relay to a gate on a    *)
(* spare host, and the store of the flag moves there. The token is a hash of the     *)
(* terminal's id and the number of credentials.                                   *)
_harden_append_hop_mutation(g) ==
    IF OfKind(g, "credential_gated_flag") = {} \/ Spares(g) = {} THEN {}
    ELSE LET old == Terminal(g)
             host == _spare_internal_service(g)
             index == Cardinality(by_kind(g, "credential"))
             cred == <<"cred", index>>
             token == <<"appended", old[3], index>>
             ep == <<"ep", host[2], "vault">>
             new == _fresh_vuln_id("credential_gated_flag", g)
             relay == Vuln("credential_gated_relay",
                          [Params EXCEPT !.credential = g.nodes[old].params.credential,
                                         !.next_credential = token, !.host = host])
             gate == Vuln("credential_gated_flag", [Params EXCEPT !.credential = token])
         IN {Mutation("harden", "append",
                [EmptyPatch EXCEPT
                    !.nodes_added = Overridden(Overridden(Single(cred, Holder("credential", token)),
                                                          Single(ep, Endpoint("vault"))), Single(new, gate)),
                    !.nodes_updated = Single(old, relay),
                    !.edges_removed = Rehomed(g, host).removed,
                    !.edges_added = EdgesOf(Rehomed(g, host).added \cup
                        {ChainEdge("exposes", host, ep), ChainEdge("affects", new, ep),
                         ChainEdge("enables", old, new), ChainEdge("requires_credential", ep, cred),
                         ChainEdge("produces", old, cred)})])}

(* The relay before the terminal gate, if there is one.                            *)
LastRelay(g) == {v \in OfKind(g, "credential_gated_relay") : Terminal(g) \in Dsts(g, "enables", v)}

Promoted(g, relay) ==
    Vuln("credential_gated_flag", [Params EXCEPT !.credential = g.nodes[relay].params.credential])

(* _soften_remove_hop_mutation: the terminal gate, its endpoint and its credential  *)
(* go, the relay before it serves the flag and its host takes the store.             *)
_soften_remove_hop_mutation(g) ==
    IF OfKind(g, "credential_gated_flag") = {} \/ LastRelay(g) = {} THEN {}
    ELSE LET old == Terminal(g)
             relay == CHOOSE v \in LastRelay(g) : TRUE
             gone == {old, Target(g, old)} \cup Dsts(g, "requires_credential", Target(g, old))
             home == Rehomed(g, HostOf(g, relay))
         IN {Mutation("soften", "collapse",
                [EmptyPatch EXCEPT
                    !.nodes_updated = Single(relay, Promoted(g, relay)),
                    !.nodes_removed = gone,
                    !.edges_removed = EdgesAt(g, gone) \cup home.removed,
                    !.edges_added = EdgesOf(home.added)])}

(* _chain_engagement_score is positive: an episode's requests, here the endpoints     *)
(* they went to, include the public foothold. Only then is a hop worth collapsing.    *)
Engaged(g, requests) == \E v \in _entry_ssrf(g) : Target(g, v) \in requests

available_mutations(g, requests) ==
    _harden_append_hop_mutation(g) \cup _harden_add_absent_mutations(g)
    \cup _soften_remove_kind_mutations(g) \cup _diversify_swap_kind_mutations(g)
    \cup (IF Engaged(g, requests) THEN _soften_remove_hop_mutation(g) ELSE {})

(* mutant: a walk that is not shorter passes. *)
NotShorter(parent, evolved) ==
    LET was == _credential_walk(parent)
        is == _credential_walk(evolved)
    IN was # <<>> /\ Len(is) >= Len(was) /\ SubSeq(is, 1, Len(was)) = was

(* monotone_chain_gate: the parent's walk and one hop more.                        *)
monotone_chain_gate(parent, evolved) ==
    LET was == _credential_walk(parent)
        is == _credential_walk(evolved)
    IN was # <<>> /\ Len(is) = Len(was) + 1 /\ SubSeq(is, 1, Len(was)) = was

-----------------------------------------------------------------------------
(* Fresh values for a world that was admitted.                                    *)

Tokens(g) == {g.nodes[n].value : n \in by_kind(g, "credential")}

(* mutant: the handlers keep the values they were rendered with. *)
SubstitutedNodes(n, fresh) ==
    IF n.kind \in {"record", "secret", "credential"} THEN [n EXCEPT !.value = fresh[@]] ELSE n

(* Every copy of a value in a node is replaced: values, and the parameters of the    *)
(* handlers.                                                                     *)
Substituted(n, fresh) ==
    CASE n.kind \in {"record", "secret", "credential"} -> [n EXCEPT !.value = fresh[@]]
      [] n.kind = "vulnerability" ->
           [n EXCEPT !.params.credential = fresh[@], !.params.next_credential = fresh[@]]
      [] OTHER -> n

AllCarried(g) == UNION {Carried(g.nodes[n]) : n \in DOMAIN g.nodes}

(* reseed_chain: a new flag and a new token for every credential, in every copy.     *)
reseed_chain(g, generation) ==
    LET cred(t) == CHOOSE n \in by_kind(g, "credential") : g.nodes[n].value = t
        fresh == [x \in AllCarried(g) |->
                    IF x = g.nodes[flag_id].value THEN <<"flag", generation, 0>>
                    ELSE IF x \in Tokens(g) THEN <<"fresh", cred(x)[2], generation>> ELSE x]
    IN [g EXCEPT !.nodes = [n \in DOMAIN g.nodes |-> Substituted(g.nodes[n], fresh)]]

(* replant_flag: a new flag alone, in the secret and in the record that holds it.    *)
replant_flag(g, generation) ==
    LET old == g.nodes[flag_id].value
    IN [g EXCEPT !.nodes = [n \in DOMAIN g.nodes |->
           IF g.nodes[n].kind \in {"secret", "record"} /\ g.nodes[n].value = old
           THEN [g.nodes[n] EXCEPT !.value = <<"flag", generation, 0>>] ELSE g.nodes[n]]]

=============================================================================
