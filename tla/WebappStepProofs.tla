-------------------------- MODULE WebappStepProofs ---------------------------
(* The worlds of the webapp pack, whatever the layouts, the catalogue and the bounds: the *)
(* invariant, and that sampling and mutations keep it.                                   *)
(* WorldInv says of every graph between two steps what its readers take for granted:      *)
(* of a draft (Drafted, Apart, Leading), of the world of a preset (Company: a pivot, and   *)
(* behind it the metadata or a chain of gates) and of the edges between them (Structured,  *)
(* Named, Ordered). A lemma for each mutation says how it changes a chain (Onward).        *)
EXTENDS WebappWorld, FiniteSetTheorems, WellFoundedInduction, TLAPS

Tiers == {"web", "api", "auth", "db"}
Paths == {"a", "b", "credleak", "metadata", "recon", "vault"}
Flaws == DOMAIN CATALOG
GateFlaws == {"credential_gated_relay", "credential_gated_flag"}
ChainFlaws == GateFlaws \cup {"credential_leak"}
PathFlaws == ChainFlaws \cup {"metadata_credential_leak"}

ServiceIds == {"svc"} \X Nat
EndpointIds == {"ep"} \X Nat \X Paths
VulnIds == {"vuln"} \X Flaws \X Nat
StoreIds == {"ds"} \X Nat
CredIds == {"cred"} \X Nat
Values == {"none", "flag", "token", "decoy", "fresh", "appended"} \X Nat \X Nat
ParamSet == [credential : Values, next_credential : Values, host : ServiceIds, hosts : SUBSET ServiceIds]

ServiceNodes == [kind : {"service"}, tier : Tiers, exposure : {"public", "internal"}]
EndpointNodes == [kind : {"endpoint"}, path : Paths, method : {"GET", "POST"}]
StoreNodes == [kind : {"data_store"}, engine : {"kv", "fs"}]
HolderNodes(kind) == [kind : {kind}, value : Values]
VulnNodes == [kind : {"vulnerability"}, flaw : Flaws, params : ParamSet]

NodeOK(n, x) ==
    \/ n \in ServiceIds /\ x \in ServiceNodes
    \/ n \in EndpointIds /\ x \in EndpointNodes
    \/ n \in StoreIds /\ x \in StoreNodes
    \/ n = record_id /\ x \in HolderNodes("record")
    \/ n = flag_id /\ x \in HolderNodes("secret")
    \/ n \in CredIds /\ x \in HolderNodes("credential")
    \/ n \in VulnIds /\ x \in VulnNodes

Edge(kind, src, dst) == [kind |-> kind, src |-> src, dst |-> dst]

(* The kinds of the ends of an edge; a vulnerability of a world affects an endpoint. *)
SrcKind == [exposes |-> "service", backed_by |-> "service", contains |-> "data_store", holds |-> "record",
            affects |-> "vulnerability", enables |-> "vulnerability", produces |-> "vulnerability",
            requires_credential |-> "endpoint"]
DstKind == [exposes |-> "endpoint", backed_by |-> "data_store", contains |-> "record", holds |-> "secret",
            affects |-> "endpoint", enables |-> "vulnerability", produces |-> "credential",
            requires_credential |-> "credential"]

EdgeOK(g, x) ==
    /\ x \in [kind : DOMAIN SrcKind, src : DOMAIN g.nodes, dst : DOMAIN g.nodes]
    /\ g.nodes[x.src].kind = SrcKind[x.kind] /\ g.nodes[x.dst].kind = DstKind[x.kind]
    /\ x.kind = "exposes" => x.src = Svc(x.dst[2])

Affecting(g, v) == {e \in Affects(g) : g.edges[e].src = v}

(* One edge for a vulnerability, and one at least for an endpoint.                  *)
Housed(g) ==
    /\ \A v \in Vulns(g) : \E e \in Affects(g) : Affecting(g, v) = {e}
    /\ \A t \in by_kind(g, "endpoint") : Srcs(g, "exposes", t) # {}

(* One service is backed by the one store, which has the record of the flag.         *)
Homed(g) ==
    /\ record_id \in DOMAIN g.nodes /\ flag_id \in DOMAIN g.nodes
    /\ \E s, d \in DOMAIN g.nodes :
         /\ Links(g, "contains") = {Edge("contains", d, record_id)}
         /\ Links(g, "backed_by") = {Edge("backed_by", s, d)}

Framed(g) ==
    /\ DOMAIN g = {"nodes", "edges"}
    /\ IsFiniteSet(DOMAIN g.nodes)
    /\ \A n \in DOMAIN g.nodes : NodeOK(n, g.nodes[n])
    /\ \A e \in DOMAIN g.edges : EdgeOK(g, g.edges[e])
    /\ Housed(g)

Structured(g) == Framed(g) /\ Homed(g)

(* The edge of a vulnerability has its id after it, also where the edge was moved.        *)
Named(g) == \A e \in Affects(g) : e[3] = g.edges[e].src

Ordered(g, before) ==
    /\ before \subseteq Affects(g) \X Affects(g)
    /\ \A p \in before : <<p[2], p[1]>> \notin before

-----------------------------------------------------------------------------
(* A draft: ordinary paths and kinds, and only edges that are drawn.                *)

Drafted(g, n) ==
    /\ \A t \in by_kind(g, "endpoint") : g.nodes[t].path \in {"a", "b"} /\ t[3] \in {"a", "b"}
    /\ by_kind(g, "credential") = {}
    /\ \A v \in Vulns(g) : g.nodes[v].flaw \notin _INTERNAL_ONLY_KINDS /\ v[2] = g.nodes[v].flaw /\ v[3] < n
    /\ \A e \in DOMAIN g.edges :
         /\ e = SampledEdge(g.edges[e].kind, g.edges[e].src, g.edges[e].dst)
         /\ g.edges[e].kind \notin {"enables", "produces", "requires_credential"}
    /\ \A s \in by_kind(g, "service") : Dsts(g, "exposes", s) # {}
    /\ Public(g) # {}

(* A preset hides the flag in a database of an internal service that is not alone.   *)
Apart(g) ==
    /\ FlagServices(g) \cap Public(g) = {}
    /\ Internals(g) \ FlagServices(g) # {}
    /\ g.nodes[_flag_store(g)].engine = "kv"

(* The SSRF a preset begins with, and its edge, that no other comes before.          *)
Pivot == <<"vuln", "ssrf", 0>>

Leading(g, before) == \A e \in Affecting(g, Pivot) : \A d \in Affects(g) \ {e} : <<e, d>> \in before

-----------------------------------------------------------------------------
(* A preset's world: the pivot at a public endpoint, and what is behind it.          *)

Footed(g) ==
    /\ Pivot \in OfKind(g, "ssrf") /\ \A v \in OfKind(g, "ssrf") : v[2] = "ssrf"
    /\ Target(g, Pivot) \in PublicEndpoints(g) /\ g.nodes[Target(g, Pivot)].method = "GET"

ChainNodes(g, c) ==
    /\ c \in Seq(Vulns(g)) /\ Len(c) >= 2
    /\ g.nodes[c[1]].flaw = "credential_leak"
    /\ \A i \in 2 .. Len(c) - 1 : g.nodes[c[i]].flaw = "credential_gated_relay"
    /\ g.nodes[c[Len(c)]].flaw = "credential_gated_flag"
    /\ \A v \in Vulns(g) : g.nodes[v].flaw \in ChainFlaws => \E i \in 1 .. Len(c) : v = c[i]

ChainHosts(g, c) ==
    /\ \A i, j \in 1 .. Len(c) : HostOf(g, c[i]) = HostOf(g, c[j]) => i = j
    /\ \A i \in 1 .. Len(c) : HostOf(g, c[i]) \in Internals(g)
    /\ g.nodes[Pivot].params.hosts = Internals(g)
    /\ FlagServices(g) = {HostOf(g, c[Len(c)])}

ChainNames(g, c) ==
    \A i \in 1 .. Len(c) - 1 :
        /\ g.nodes[c[i]].params.host = HostOf(g, c[i + 1])
        /\ Emitted(g, c[i]) = g.nodes[c[i + 1]].params.credential

ChainCreds(g, c) ==
    /\ \A i \in 2 .. Len(c) : g.nodes[Target(g, c[i])].path = "vault"
    /\ Cardinality(by_kind(g, "credential")) = Len(c) - 1
    /\ \A i \in 2 .. Len(c) : \E x \in by_kind(g, "credential") :
         Dsts(g, "requires_credential", Target(g, c[i])) = {x}
    /\ \A e, f \in Links(g, "requires_credential") : e.dst = f.dst => e.src = f.src

ChainLinks(g, c) ==
    /\ \A e \in Links(g, "enables") :
         g.nodes[e.dst].flaw \in GateFlaws => \E i \in 1 .. Len(c) - 1 : e.src = c[i] /\ e.dst = c[i + 1]
    /\ \A i \in 1 .. Len(c) - 1 : Edge("enables", c[i], c[i + 1]) \in Links(g, "enables")

(* What shares a vault with its gate was added there by a mutation, and enables nothing. *)
VaultsAside(g) ==
    \A e \in Links(g, "enables"), v \in Vulns(g) :
        v \in {e.src, e.dst} /\ g.nodes[Target(g, v)].path = "vault" => g.nodes[v].flaw \in GateFlaws

Chain(g, c) ==
    /\ ChainNodes(g, c) /\ ChainHosts(g, c) /\ ChainNames(g, c)
    /\ ChainCreds(g, c) /\ ChainLinks(g, c) /\ VaultsAside(g)

Pivoted(g) ==
    /\ \A v \in Vulns(g) : g.nodes[v].flaw \notin ChainFlaws
    /\ \A v \in OfKind(g, "metadata_credential_leak") :
         FlagServices(g) = {HostOf(g, v)} /\ g.nodes[Pivot].params.host = HostOf(g, v)

Company(g) == Footed(g) /\ (Pivoted(g) \/ \E c \in Seq(Vulns(g)) : Chain(g, c))

(* No edge to the same endpoint comes before one of the pivot or of what is behind it. *)
Leads(g, before, e) ==
    \A d \in Affects(g) \ {e} : g.edges[d].dst = g.edges[e].dst => <<e, d>> \in before

Served(g, before) ==
    /\ Leading(g, before)
    /\ \A v \in Vulns(g) : g.nodes[v].flaw \in PathFlaws =>
         \A e \in Affecting(g, v) : Leads(g, before, e)

FlatGates(g) == \A v \in Vulns(g) : g.nodes[v].flaw \notin ChainFlaws

(* The inductive invariant.                                                        *)
WorldInv ==
    /\ prior \in Priors
    /\ stage \in {"services", "vulns", "admission", "world"}
    /\ draws \in 0 .. MaxVulns /\ evolved \in 0 .. MaxEvolved /\ between \in 0 .. MaxBetween
    /\ loaded \in BOOLEAN
    /\ stage = "services" => graph = NoGraph /\ order = {}
    /\ stage # "services" => Structured(graph) /\ Named(graph) /\ Ordered(graph, order)
    /\ stage = "vulns" => Drafted(graph, draws)
    /\ stage = "world" => Vulns(graph) # {}
    /\ (stage = "vulns" /\ prior.company) => Apart(graph)
    /\ (stage = "vulns" /\ prior.company /\ draws > 0) => Pivot \in OfKind(graph, "ssrf") /\ Leading(graph, order)
    /\ (stage \in {"admission", "world"} /\ prior.company) => Company(graph) /\ (loaded \/ Served(graph, order))
    /\ (stage \in {"admission", "world"} /\ ~prior.company) => FlatGates(graph)

-----------------------------------------------------------------------------
(* Orders on finite sets.                                                        *)

LEMMA SomeLeastRank ==
    ASSUME NEW S, S # {}, NEW rank \in [S -> Nat]
    PROVE  \E x \in S : \A y \in S : rank[x] <= rank[y]
<1> DEFINE ranks == {rank[x] : x \in S}
<1>1. ranks \subseteq Nat /\ ranks # {} OBVIOUS
<1>2. PICK m \in ranks : \A n \in ranks : ~(<<n, m>> \in OpToRel(<, Nat))
  <2> HIDE DEF ranks
  <2> QED BY <1>1, WFMin, NatLessThanWellFounded, Zenon
<1>3. PICK x \in S : m = rank[x] BY <1>2, Zenon
<1>4. \A y \in S : ~(rank[y] < rank[x]) BY <1>2, <1>3 DEF OpToRel
<1>5. \A y \in S : rank[y] \in Nat OBVIOUS
<1> QED BY <1>4, <1>5

LEMMA FirstIsIn ==
    ASSUME NEW S, S \subseteq VulnIds, S # {}
    PROVE  First(S) \in S /\ \A w \in S : 100 * First(S)[3] + KindRank[First(S)[2]] <= 100 * w[3] + KindRank[w[2]]
<1> DEFINE rank == [v \in S |-> 100 * v[3] + KindRank[v[2]]]
<1>1. rank \in [S -> Nat] BY DEF VulnIds, KindRank, Flaws, CATALOG
<1>2. PICK x \in S : \A y \in S : rank[x] <= rank[y]
  <2> HIDE DEF rank
  <2> QED BY <1>1, SomeLeastRank
<1>3. \A w \in S : 100 * x[3] + KindRank[x[2]] <= 100 * w[3] + KindRank[w[2]] BY <1>2
<1> QED BY <1>3, Zenon DEF First

LEMMA FirstByIdIsIn ==
    ASSUME NEW S, S \subseteq VulnIds, S # {}
    PROVE  FirstById(S) \in S
<1> DEFINE rank == [v \in S |-> 100 * KindRank[v[2]] + v[3]]
<1>1. rank \in [S -> Nat] BY DEF VulnIds, KindRank, Flaws, CATALOG
<1>2. PICK x \in S : \A y \in S : rank[x] <= rank[y]
  <2> HIDE DEF rank
  <2> QED BY <1>1, SomeLeastRank
<1>3. \A w \in S : 100 * KindRank[x[2]] + x[3] <= 100 * KindRank[w[2]] + w[3] BY <1>2
<1> QED BY <1>3, Zenon DEF FirstById

StrictOrder(R, S) ==
    /\ \A x \in S : <<x, x>> \notin R
    /\ \A x, y, z \in S : <<x, y>> \in R /\ <<y, z>> \in R => <<x, z>> \in R
    /\ \A x, y \in S : x # y => <<x, y>> \in R \/ <<y, x>> \in R

Below(R, S, x) == {y \in S : <<y, x>> \in R}

LEMMA BelowGrows ==
    ASSUME NEW S, IsFiniteSet(S), NEW R, StrictOrder(R, S)
    PROVE  /\ \A x \in S : Cardinality(Below(R, S, x)) \in 0 .. Cardinality(S) - 1
           /\ \A x, y \in S : <<x, y>> \in R => Cardinality(Below(R, S, x)) < Cardinality(Below(R, S, y))
<1>1. ASSUME NEW x \in S PROVE Cardinality(Below(R, S, x)) \in 0 .. Cardinality(S) - 1
  <2>1. Below(R, S, x) \in SUBSET (S \ {x}) BY DEF Below, StrictOrder
  <2>2. IsFiniteSet(S \ {x}) /\ Cardinality(S \ {x}) = Cardinality(S) - 1 BY FS_RemoveElement
  <2>3. Cardinality(Below(R, S, x)) <= Cardinality(S \ {x}) /\ IsFiniteSet(Below(R, S, x)) BY <2>1, <2>2, FS_Subset
  <2> QED BY <2>2, <2>3, FS_CardinalityType
<1>2. ASSUME NEW x \in S, NEW y \in S, <<x, y>> \in R
      PROVE  Cardinality(Below(R, S, x)) < Cardinality(Below(R, S, y))
  <2>1. Below(R, S, x) \in SUBSET Below(R, S, y) BY <1>2 DEF Below, StrictOrder
  <2>2. x \in Below(R, S, y) /\ x \notin Below(R, S, x) BY <1>2 DEF Below, StrictOrder
  <2>3. Below(R, S, y) \in SUBSET S BY DEF Below
  <2>4. IsFiniteSet(Below(R, S, y)) BY <2>3, FS_Subset
  <2>5. IsFiniteSet(Below(R, S, x)) /\ Cardinality(Below(R, S, x)) <= Cardinality(Below(R, S, y))
        /\ Cardinality(Below(R, S, x)) # Cardinality(Below(R, S, y))
    BY <2>1, <2>2, <2>4, FS_Subset
  <2> QED BY <2>4, <2>5, FS_CardinalityType
<1> QED BY <1>1, <1>2

LEMMA LeastExists ==
    ASSUME NEW S, IsFiniteSet(S), S # {}, NEW R, StrictOrder(R, S)
    PROVE  \E x \in S : \A y \in S \ {x} : <<x, y>> \in R
<1> DEFINE rank == [x \in S |-> Cardinality(Below(R, S, x))]
<1>1. rank \in [S -> Nat] BY BelowGrows
<1>2. PICK x \in S : \A y \in S : rank[x] <= rank[y]
  <2> HIDE DEF rank
  <2> QED BY <1>1, SomeLeastRank
<1>3. ASSUME NEW y \in S \ {x}, <<x, y>> \notin R PROVE FALSE
  <2>1. <<y, x>> \in R BY <1>3 DEF StrictOrder
  <2>2. rank[y] < rank[x] BY <2>1, BelowGrows
  <2> QED BY <1>1, <1>2, <2>2
<1> QED BY <1>3

LEMMA SortedExists ==
    ASSUME NEW S, IsFiniteSet(S), NEW R, StrictOrder(R, S)
    PROVE  \E seq \in [1 .. Cardinality(S) -> S] : \A i, j \in DOMAIN seq : i < j => <<seq[i], seq[j]>> \in R
<1> DEFINE n == Cardinality(S)
           rank == [x \in S |-> Cardinality(Below(R, S, x)) + 1]
<1>1. n \in Nat BY FS_CardinalityType
<1>2. \A x \in S : rank[x] \in 1 .. n BY <1>1, BelowGrows
<1>3. \A x, y \in S : <<x, y>> \in R => rank[x] < rank[y] BY <1>1, BelowGrows
<1>5. rank \in [S -> 1 .. n] BY <1>2
<1> HIDE DEF rank
<1>4. ASSUME NEW x \in S, NEW y \in S, rank[x] = rank[y], x # y PROVE FALSE
  <2>1. <<x, y>> \in R \/ <<y, x>> \in R BY <1>4 DEF StrictOrder
  <2>2. rank[x] \in Nat /\ rank[y] \in Nat BY <1>1, <1>2
  <2> QED BY <1>3, <1>4, <2>1, <2>2
<1>10. rank \in Injection(S, 1 .. n) BY <1>4, <1>5 DEF Injection, IsInjective
<1>6. IsFiniteSet(1 .. n) /\ Cardinality(1 .. n) = n
  <2>1. 1 \in Int /\ n \in Int /\ ~(1 > n) => n - 1 + 1 = n BY <1>1
  <2> QED BY <1>1, <2>1, FS_Interval
<1>7. rank \in Surjection(S, 1 .. n) BY <1>10, <1>6, FS_Injection
<1>8. \A i \in 1 .. n : \E x \in S : rank[x] = i BY <1>7 DEF Surjection
<1> DEFINE seq == [i \in 1 .. n |-> CHOOSE x \in S : rank[x] = i]
<1>9. \A i \in 1 .. n : seq[i] \in S /\ rank[seq[i]] = i BY <1>8
<1>12. seq \in [1 .. n -> S] BY <1>9
<1>11. ASSUME NEW i \in 1 .. n, NEW j \in 1 .. n, i < j PROVE <<seq[i], seq[j]>> \in R
  <2>1. seq[i] # seq[j] BY <1>9, <1>11
  <2>2. ~(<<seq[j], seq[i]>> \in R) BY <1>1, <1>3, <1>9, <1>11
  <2> QED BY <1>9, <2>1, <2>2 DEF StrictOrder
<1> QED BY <1>12, <1>11

-----------------------------------------------------------------------------
(* Maps and graphs that are extended.                                            *)

LEMMA OverriddenIs ==
    ASSUME NEW f, NEW h, NEW o, o = Overridden(f, h)
    PROVE  /\ DOMAIN o = DOMAIN f \cup DOMAIN h
           /\ \A x \in DOMAIN h : o[x] = h[x]
           /\ \A x \in DOMAIN f \ DOMAIN h : o[x] = f[x]
BY DEF Overridden

LEMMA SingleIs ==
    ASSUME NEW id, NEW x, NEW o, o = Single(id, x)
    PROVE  DOMAIN o = {id} /\ o[id] = x
BY DEF Single

LEMMA EdgesOfIs ==
    ASSUME NEW ids, NEW o, o = EdgesOf(ids)
    PROVE  DOMAIN o = ids /\ \A id \in ids : o[id] = Edge(id[2], id[3], id[4])
BY DEF EdgesOf, Edge

LEMMA WithNodesIs ==
    ASSUME NEW g, DOMAIN g = {"nodes", "edges"}, NEW nodes, NEW h, h = WithNodes(g, nodes)
    PROVE  /\ DOMAIN h = {"nodes", "edges"} /\ h.edges = g.edges
           /\ DOMAIN h.nodes = DOMAIN g.nodes \cup DOMAIN nodes
           /\ \A n \in DOMAIN nodes : h.nodes[n] = nodes[n]
           /\ \A n \in DOMAIN g.nodes \ DOMAIN nodes : h.nodes[n] = g.nodes[n]
<1>1. h = [g EXCEPT !.nodes = Overridden(g.nodes, nodes)] BY DEF WithNodes
<1>2. DOMAIN h = {"nodes", "edges"} /\ h.edges = g.edges
      /\ h.nodes = Overridden(g.nodes, nodes)
  BY <1>1
<1> DEFINE o == h.nodes
<1>3. o = Overridden(g.nodes, nodes) BY <1>2
<1> HIDE DEF o
<1>4. /\ DOMAIN o = DOMAIN g.nodes \cup DOMAIN nodes
      /\ \A n \in DOMAIN nodes : o[n] = nodes[n]
      /\ \A n \in DOMAIN g.nodes \ DOMAIN nodes : o[n] = g.nodes[n]
  BY <1>3 DEF Overridden
<1> QED BY <1>2, <1>4 DEF o

LEMMA WithEdgesIs ==
    ASSUME NEW g, DOMAIN g = {"nodes", "edges"}, NEW ids, NEW h, h = WithEdges(g, ids)
    PROVE  /\ DOMAIN h = {"nodes", "edges"} /\ h.nodes = g.nodes
           /\ DOMAIN h.edges = DOMAIN g.edges \cup ids
           /\ \A e \in ids : h.edges[e] = Edge(e[2], e[3], e[4])
           /\ \A e \in DOMAIN g.edges \ ids : h.edges[e] = g.edges[e]
<1>1. h = [g EXCEPT !.edges = Overridden(g.edges, EdgesOf(ids))] BY DEF WithEdges
<1>2. DOMAIN h = {"nodes", "edges"} /\ h.nodes = g.nodes
      /\ h.edges = Overridden(g.edges, EdgesOf(ids))
  BY <1>1
<1> DEFINE o == h.edges
<1>3. o = Overridden(g.edges, EdgesOf(ids)) BY <1>2
<1> HIDE DEF o
<1>5. DOMAIN EdgesOf(ids) = ids /\ \A id \in ids : EdgesOf(ids)[id] = Edge(id[2], id[3], id[4]) BY EdgesOfIs
<1>4. /\ DOMAIN o = DOMAIN g.edges \cup DOMAIN EdgesOf(ids)
      /\ \A n \in DOMAIN EdgesOf(ids) : o[n] = EdgesOf(ids)[n]
      /\ \A n \in DOMAIN g.edges \ DOMAIN EdgesOf(ids) : o[n] = g.edges[n]
  BY <1>3 DEF Overridden
<1>6. DOMAIN o = DOMAIN g.edges \cup ids BY <1>4, <1>5
<1>7. \A n \in ids : o[n] = Edge(n[2], n[3], n[4]) BY <1>4, <1>5
<1>8. \A n \in DOMAIN g.edges \ ids : o[n] = g.edges[n] BY <1>4, <1>5
<1> QED BY <1>2, <1>6, <1>7, <1>8 DEF o

LEMMA SampledEdgeIs ==
    ASSUME NEW kind, NEW src, NEW dst, NEW e, e = SampledEdge(kind, src, dst)
    PROVE  e[2] = kind /\ e[3] = src /\ e[4] = dst
BY DEF SampledEdge

LEMMA ChainEdgeIs ==
    ASSUME NEW kind, NEW src, NEW dst, NEW e, e = ChainEdge(kind, src, dst)
    PROVE  e[2] = kind /\ e[3] = src /\ e[4] = dst
BY DEF ChainEdge

-----------------------------------------------------------------------------
(* Reading a structured graph.                                                   *)

LEMMA NodeKinds ==
    ASSUME NEW n, NEW x, NodeOK(n, x)
    PROVE  /\ x.kind = "service" <=> n \in ServiceIds
           /\ x.kind = "endpoint" <=> n \in EndpointIds
           /\ x.kind = "data_store" <=> n \in StoreIds
           /\ x.kind = "credential" <=> n \in CredIds
           /\ x.kind = "vulnerability" <=> n \in VulnIds
           /\ x.kind = "service" => x \in ServiceNodes
           /\ x.kind = "endpoint" => x \in EndpointNodes
           /\ x.kind = "data_store" => x \in StoreNodes
           /\ x.kind = "credential" => x \in HolderNodes("credential")
           /\ x.kind = "vulnerability" => x \in VulnNodes
<1> USE DEF ServiceIds, EndpointIds, StoreIds, CredIds, VulnIds, record_id, flag_id
<1> USE DEF ServiceNodes, EndpointNodes, StoreNodes, HolderNodes, VulnNodes
<1>1. CASE n \in ServiceIds /\ x \in ServiceNodes BY <1>1
<1>2. CASE n \in EndpointIds /\ x \in EndpointNodes BY <1>2
<1>3. CASE n \in StoreIds /\ x \in StoreNodes BY <1>3
<1>4. CASE n = record_id /\ x \in HolderNodes("record") BY <1>4
<1>5. CASE n = flag_id /\ x \in HolderNodes("secret") BY <1>5
<1>6. CASE n \in CredIds /\ x \in HolderNodes("credential") BY <1>6
<1>7. CASE n \in VulnIds /\ x \in VulnNodes BY <1>7
<1> HIDE DEF ServiceIds, EndpointIds, StoreIds, CredIds, VulnIds, record_id, flag_id
<1> HIDE DEF ServiceNodes, EndpointNodes, StoreNodes, HolderNodes, VulnNodes
<1> QED BY <1>1, <1>2, <1>3, <1>4, <1>5, <1>6, <1>7 DEF NodeOK

LEMMA TargetIs ==
    ASSUME NEW g, Framed(g), NEW v \in Vulns(g)
    PROVE  /\ Target(g, v) \in by_kind(g, "endpoint")
           /\ Dsts(g, "affects", v) = {Target(g, v)}
           /\ \E e \in Affects(g) : /\ Affecting(g, v) = {e}
                                    /\ g.edges[e].src = v /\ g.edges[e].dst = Target(g, v)
<1>1. PICK e \in Affects(g) : Affecting(g, v) = {e} BY DEF Framed, Housed
<1>2. g.edges[e].src = v BY <1>1 DEF Affecting
<1>3. Dsts(g, "affects", v) = {g.edges[e].dst} BY <1>1, <1>2 DEF Dsts, Affecting, Affects
<1>4. Target(g, v) = g.edges[e].dst BY <1>3 DEF Target
<1>5. g.edges[e].dst \in by_kind(g, "endpoint")
  BY DEF Framed, EdgeOK, Affects, DstKind, by_kind
<1> QED BY <1>1, <1>2, <1>3, <1>4, <1>5

LEMMA ExposedBy ==
    ASSUME NEW g, Framed(g), NEW t \in by_kind(g, "endpoint")
    PROVE  Srcs(g, "exposes", t) = {Svc(t[2])} /\ Svc(t[2]) \in by_kind(g, "service")
<1>1. Srcs(g, "exposes", t) \subseteq {Svc(t[2])} BY DEF Framed, EdgeOK, Srcs
<1>2. PICK e \in DOMAIN g.edges : g.edges[e].kind = "exposes" /\ g.edges[e].dst = t
  BY DEF Framed, Housed, Srcs
<1>3. g.edges[e].src \in by_kind(g, "service") /\ g.edges[e].src = Svc(t[2])
  BY <1>2 DEF Framed, EdgeOK, SrcKind, by_kind
<1> QED BY <1>1, <1>2, <1>3 DEF Srcs

LEMMA HostIs ==
    ASSUME NEW g, Framed(g), NEW v \in Vulns(g)
    PROVE  HostOf(g, v) = Svc(Target(g, v)[2]) /\ HostOf(g, v) \in by_kind(g, "service")
<1>1. Srcs(g, "exposes", Target(g, v)) = {Svc(Target(g, v)[2])} BY TargetIs, ExposedBy
<1> QED BY <1>1, TargetIs, ExposedBy DEF HostOf

LEMMA HomeIs ==
    ASSUME NEW g, Structured(g)
    PROVE  \E s, d \in DOMAIN g.nodes :
             /\ Links(g, "contains") = {Edge("contains", d, record_id)} /\ Links(g, "backed_by") = {Edge("backed_by", s, d)}
             /\ _flag_store(g) = d /\ FlagServices(g) = {s}
             /\ g.nodes[d].kind = "data_store" /\ g.nodes[s].kind = "service"
<1>1. PICK s, d \in DOMAIN g.nodes :
         Links(g, "contains") = {Edge("contains", d, record_id)} /\ Links(g, "backed_by") = {Edge("backed_by", s, d)}
  BY DEF Structured, Homed
<1>2. ASSUME NEW k PROVE \A src, dst : Edge(k, src, dst) \in Links(g, k) =>
          \E e \in DOMAIN g.edges : g.edges[e] = Edge(k, src, dst)
  BY DEF Links
<1>3. PICK e \in DOMAIN g.edges : g.edges[e] = Edge("contains", d, record_id) BY <1>1, <1>2
<1>4. PICK f \in DOMAIN g.edges : g.edges[f] = Edge("backed_by", s, d) BY <1>1, <1>2
<1>5. g.nodes[d].kind = "data_store" BY <1>3 DEF Structured, Framed, EdgeOK, Edge, SrcKind
<1>6. g.nodes[s].kind = "service" BY <1>4 DEF Structured, Framed, EdgeOK, Edge, SrcKind
<1>7. \A x \in DOMAIN g.edges : g.edges[x].kind = "contains" => g.edges[x] = Edge("contains", d, record_id)
  BY <1>1 DEF Links
<1>8. \A x \in DOMAIN g.edges : g.edges[x].kind = "backed_by" => g.edges[x] = Edge("backed_by", s, d)
  BY <1>1 DEF Links
<1>9. Srcs(g, "contains", record_id) = {d} BY <1>3, <1>7 DEF Srcs, Edge
<1>10. _flag_store(g) = d BY <1>9 DEF _flag_store
<1>11. FlagServices(g) = {s} BY <1>4, <1>8, <1>10 DEF FlagServices, Srcs, Edge
<1> QED BY <1>1, <1>5, <1>6, <1>10, <1>11

LEMMA KindSets ==
    ASSUME NEW g, \A n \in DOMAIN g.nodes : NodeOK(n, g.nodes[n])
    PROVE  /\ by_kind(g, "service") = DOMAIN g.nodes \cap ServiceIds
           /\ by_kind(g, "endpoint") = DOMAIN g.nodes \cap EndpointIds
           /\ by_kind(g, "data_store") = DOMAIN g.nodes \cap StoreIds
           /\ by_kind(g, "credential") = DOMAIN g.nodes \cap CredIds
           /\ by_kind(g, "vulnerability") = DOMAIN g.nodes \cap VulnIds
           /\ Vulns(g) = DOMAIN g.nodes \cap VulnIds
BY NodeKinds DEF by_kind, Vulns

LEMMA SameKind ==
    ASSUME NEW n, NEW x, NEW y, NodeOK(n, x), NodeOK(n, y)
    PROVE  x.kind = y.kind
<1>1. CASE n \in ServiceIds \cup EndpointIds \cup StoreIds \cup CredIds \cup VulnIds BY <1>1, NodeKinds
<1>2. CASE n \notin ServiceIds \cup EndpointIds \cup StoreIds \cup CredIds \cup VulnIds
  BY <1>2 DEF NodeOK, HolderNodes, record_id, flag_id
<1> QED BY <1>1, <1>2

LEMMA SameTarget ==
    ASSUME NEW g, Framed(g), NEW h, Framed(h), NEW v \in Vulns(g), v \in Vulns(h),
           Affecting(h, v) = Affecting(g, v), \A e \in Affecting(g, v) : h.edges[e] = g.edges[e]
    PROVE  Target(h, v) = Target(g, v) /\ HostOf(h, v) = HostOf(g, v)
<1>1. PICK e \in Affects(g) : Affecting(g, v) = {e} /\ g.edges[e].dst = Target(g, v) BY TargetIs
<1>2. PICK f \in Affects(h) : Affecting(h, v) = {f} /\ h.edges[f].dst = Target(h, v) BY TargetIs
<1>3. e = f BY <1>1, <1>2
<1>4. Target(h, v) = Target(g, v) BY <1>1, <1>2, <1>3
<1> QED BY <1>4, HostIs

(* A graph that has more nodes, and more edges that affect or expose.               *)
Grows(g, h) ==
    /\ DOMAIN h = {"nodes", "edges"}
    /\ DOMAIN g.nodes \subseteq DOMAIN h.nodes /\ IsFiniteSet(DOMAIN h.nodes)
    /\ \A n \in DOMAIN h.nodes : NodeOK(n, h.nodes[n])
    /\ \A e \in DOMAIN g.edges : g.edges[e].kind \in {"affects", "exposes"} =>
         e \in DOMAIN h.edges /\ h.edges[e] = g.edges[e]
    /\ \A e \in DOMAIN h.edges :
         \/ e \in DOMAIN g.edges /\ h.edges[e] = g.edges[e]
         \/ EdgeOK(h, h.edges[e]) /\ (h.edges[e].kind = "affects" => h.edges[e].src \notin DOMAIN g.nodes)
    /\ \A v \in Vulns(h) \ DOMAIN g.nodes : \E e \in Affects(h) : Affecting(h, v) = {e}
    /\ \A t \in by_kind(h, "endpoint") \ DOMAIN g.nodes : Srcs(h, "exposes", t) # {}

LEMMA OldEdges ==
    ASSUME NEW g, \A n \in DOMAIN g.nodes : NodeOK(n, g.nodes[n]),
           NEW h, \A n \in DOMAIN h.nodes : NodeOK(n, h.nodes[n]),
           NEW x, EdgeOK(g, x), x.src \in DOMAIN h.nodes, x.dst \in DOMAIN h.nodes
    PROVE  EdgeOK(h, x)
<1>1. h.nodes[x.src].kind = g.nodes[x.src].kind BY SameKind DEF EdgeOK
<1>2. h.nodes[x.dst].kind = g.nodes[x.dst].kind BY SameKind DEF EdgeOK
<1>3. x \in [kind : DOMAIN SrcKind, src : DOMAIN h.nodes, dst : DOMAIN h.nodes] BY DEF EdgeOK
<1> QED BY <1>1, <1>2, <1>3 DEF EdgeOK

LEMMA GrownIs ==
    ASSUME NEW g, Framed(g), NEW h, Grows(g, h)
    PROVE  /\ Framed(h) /\ Affects(g) \subseteq Affects(h)
           /\ \A v \in Vulns(g) : /\ v \in Vulns(h) /\ Affecting(h, v) = Affecting(g, v)
                                  /\ Target(h, v) = Target(g, v) /\ HostOf(h, v) = HostOf(g, v)
<1>1. DOMAIN h = {"nodes", "edges"} /\ IsFiniteSet(DOMAIN h.nodes) /\ DOMAIN g.nodes \subseteq DOMAIN h.nodes
  BY DEF Grows
<1>2. \A n \in DOMAIN h.nodes : NodeOK(n, h.nodes[n]) BY DEF Grows
<1>3. ASSUME NEW e \in DOMAIN h.edges PROVE EdgeOK(h, h.edges[e])
  <2>1. CASE e \in DOMAIN g.edges /\ h.edges[e] = g.edges[e]
    <3>1. EdgeOK(g, g.edges[e]) BY <2>1 DEF Framed
    <3>2. g.edges[e].src \in DOMAIN h.nodes /\ g.edges[e].dst \in DOMAIN h.nodes BY <1>1, <3>1 DEF EdgeOK
    <3> QED BY <1>2, <2>1, <3>1, <3>2, OldEdges DEF Framed
  <2> QED BY <1>3, <2>1 DEF Grows
<1>4. \A e \in DOMAIN g.edges : g.edges[e].kind \in {"affects", "exposes"} => e \in DOMAIN h.edges /\ h.edges[e] = g.edges[e]
  BY DEF Grows
<1>5. Affects(g) \subseteq Affects(h) BY <1>4 DEF Affects
<1>6. ASSUME NEW v \in Vulns(g) PROVE v \in Vulns(h) /\ Affecting(h, v) = Affecting(g, v)
  <2>1. v \in Vulns(h) BY <1>1, <1>2, KindSets DEF Framed
  <2>2. v \in DOMAIN g.nodes BY DEF Vulns, by_kind
  <2>3. Affecting(g, v) \subseteq Affecting(h, v) BY <1>4, <1>5 DEF Affecting, Affects
  <2>4. ASSUME NEW e \in Affecting(h, v) PROVE e \in Affecting(g, v)
    <3>1. e \in DOMAIN h.edges /\ h.edges[e].kind = "affects" /\ h.edges[e].src = v BY DEF Affecting, Affects
    <3>2. e \in DOMAIN g.edges /\ h.edges[e] = g.edges[e] BY <2>2, <3>1 DEF Grows
    <3> QED BY <3>1, <3>2 DEF Affecting, Affects
  <2> QED BY <2>1, <2>3, <2>4
<1>7. \A v \in Vulns(h) : \E e \in Affects(h) : Affecting(h, v) = {e}
  <2>1. TAKE v \in Vulns(h)
  <2>2. CASE v \in DOMAIN g.nodes
    <3>1. v \in Vulns(g) BY <1>2, <2>2, KindSets DEF Framed
    <3>2. PICK e \in Affects(g) : Affecting(g, v) = {e} BY <3>1 DEF Framed, Housed
    <3> QED BY <1>5, <1>6, <3>1, <3>2
  <2> QED BY <2>2 DEF Grows
<1>8. \A t \in by_kind(h, "endpoint") : Srcs(h, "exposes", t) # {}
  <2>1. TAKE t \in by_kind(h, "endpoint")
  <2>2. CASE t \in DOMAIN g.nodes
    <3>1. t \in by_kind(g, "endpoint") BY <1>2, <2>2, KindSets DEF Framed
    <3>2. PICK e \in DOMAIN g.edges : g.edges[e].kind = "exposes" /\ g.edges[e].dst = t
      BY <3>1 DEF Framed, Housed, Srcs
    <3> QED BY <1>4, <3>2 DEF Srcs
  <2> QED BY <2>2 DEF Grows
<1>9. Framed(h) BY <1>1, <1>2, <1>3, <1>7, <1>8 DEF Framed, Housed
<1>10. \A v \in Vulns(g) : \A e \in Affecting(g, v) : h.edges[e] = g.edges[e] BY <1>4 DEF Affecting, Affects
<1> QED BY <1>5, <1>6, <1>9, <1>10, SameTarget

(* What does not change a service or the home of the flag.                        *)

LEMMA SameServices ==
    ASSUME NEW g, \A n \in DOMAIN g.nodes : NodeOK(n, g.nodes[n]),
           NEW h, \A n \in DOMAIN h.nodes : NodeOK(n, h.nodes[n]),
           DOMAIN h.nodes \cap ServiceIds = DOMAIN g.nodes \cap ServiceIds,
           \A s \in DOMAIN g.nodes \cap ServiceIds : h.nodes[s] = g.nodes[s]
    PROVE  /\ by_kind(h, "service") = by_kind(g, "service")
           /\ Public(h) = Public(g) /\ Internals(h) = Internals(g)
<1>1. by_kind(h, "service") = DOMAIN h.nodes \cap ServiceIds /\ by_kind(g, "service") = DOMAIN g.nodes \cap ServiceIds
  BY KindSets
<1>2. Public(h) = Public(g) BY <1>1 DEF Public
<1> QED BY <1>1, <1>2 DEF Internals

LEMMA SameHome ==
    ASSUME NEW g, Structured(g), NEW h, Framed(h), record_id \in DOMAIN h.nodes, flag_id \in DOMAIN h.nodes,
           Links(h, "contains") = Links(g, "contains"), Links(h, "backed_by") = Links(g, "backed_by")
    PROVE  Structured(h) /\ _flag_store(h) = _flag_store(g) /\ FlagServices(h) = FlagServices(g)
<1>1. PICK s, d \in DOMAIN g.nodes :
        /\ Links(g, "contains") = {Edge("contains", d, record_id)} /\ Links(g, "backed_by") = {Edge("backed_by", s, d)}
        /\ _flag_store(g) = d /\ FlagServices(g) = {s}
  BY HomeIs
<1>2. s \in DOMAIN h.nodes /\ d \in DOMAIN h.nodes
  <2>1. Edge("backed_by", s, d) \in Links(h, "backed_by") BY <1>1
  <2>2. PICK e \in DOMAIN h.edges : h.edges[e] = Edge("backed_by", s, d) BY <2>1 DEF Links
  <2>3. EdgeOK(h, Edge("backed_by", s, d)) BY <2>2 DEF Framed
  <2> QED BY <2>3 DEF EdgeOK, Edge
<1>3. Structured(h) BY <1>1, <1>2 DEF Structured, Homed
<1>4. PICK s2, d2 \in DOMAIN h.nodes :
        /\ Links(h, "contains") = {Edge("contains", d2, record_id)} /\ Links(h, "backed_by") = {Edge("backed_by", s2, d2)}
        /\ _flag_store(h) = d2 /\ FlagServices(h) = {s2}
  BY <1>3, HomeIs
<1>5. Edge("backed_by", s, d) = Edge("backed_by", s2, d2) BY <1>1, <1>4
<1>6. s2 = s /\ d2 = d BY <1>5 DEF Edge
<1> QED BY <1>1, <1>3, <1>4, <1>6

LEMMA SameLinks ==
    ASSUME NEW g, NEW h, NEW k,
           \A e \in DOMAIN g.edges : g.edges[e].kind = k => e \in DOMAIN h.edges /\ h.edges[e] = g.edges[e],
           \A e \in DOMAIN h.edges : h.edges[e].kind = k => e \in DOMAIN g.edges /\ h.edges[e] = g.edges[e]
    PROVE  Links(h, k) = Links(g, k)
BY DEF Links

(* The ends of the edges of a kind are those of its links.                          *)
LEMMA EndsOfLinks ==
    ASSUME NEW g, NEW k, NEW x
    PROVE  /\ Dsts(g, k, x) = {l.dst : l \in {l \in Links(g, k) : l.src = x}}
           /\ Srcs(g, k, x) = {l.src : l \in {l \in Links(g, k) : l.dst = x}}
BY DEF Dsts, Srcs, Links

-----------------------------------------------------------------------------
(* The order of the edges from vulnerabilities.                                   *)

LEMMA ReorderedOrdered ==
    ASSUME NEW g, NEW before, Ordered(g, before), NEW h
    PROVE  Ordered(h, Reordered(before, g, h))
<1>1. Reordered(before, g, h) \subseteq Affects(h) \X Affects(h) BY DEF Reordered
<1>2. ASSUME NEW p \in Reordered(before, g, h) PROVE <<p[2], p[1]>> \notin Reordered(before, g, h)
  <2>1. CASE p \in before BY <2>1 DEF Ordered, Reordered
  <2>2. CASE p \in (Affects(g) \cap Affects(h)) \X (Affects(h) \ Affects(g)) BY <2>2 DEF Ordered, Reordered
  <2> QED BY <2>1, <2>2 DEF Reordered
<1> QED BY <1>1, <1>2 DEF Ordered

LEMMA LeadingKept ==
    ASSUME NEW g, NEW before, Leading(g, before), NEW h, Affecting(h, Pivot) = Affecting(g, Pivot)
    PROVE  Leading(h, Reordered(before, g, h))
<1>1. SUFFICES ASSUME NEW e \in Affecting(h, Pivot), NEW d \in Affects(h) \ {e} PROVE <<e, d>> \in Reordered(before, g, h)
  BY Zenon DEF Leading
<1>2. e \in Affects(g) /\ e \in Affects(h) /\ e \in Affecting(g, Pivot) BY DEF Affecting
<1>3. CASE d \in Affects(g) BY <1>2, <1>3 DEF Leading, Reordered
<1>4. CASE d \notin Affects(g) BY <1>2, <1>4 DEF Reordered
<1> QED BY <1>3, <1>4

(* A vulnerability on the path keeps its edge, or is the only one at its endpoint.     *)
LEMMA ServedKept ==
    ASSUME NEW g, NEW before, Served(g, before), NEW h, Affecting(h, Pivot) = Affecting(g, Pivot),
           \A v \in Vulns(h) : h.nodes[v].flaw \in PathFlaws =>
             \/ /\ v \in Vulns(g) /\ g.nodes[v].flaw \in PathFlaws /\ Affecting(h, v) = Affecting(g, v)
                /\ \A e \in Affects(g) \cap Affects(h) : h.edges[e] = g.edges[e]
             \/ \A e \in Affecting(h, v), d \in Affects(h) : h.edges[d].dst = h.edges[e].dst => d = e
    PROVE  Served(h, Reordered(before, g, h))
<1>1. Leading(h, Reordered(before, g, h)) BY LeadingKept DEF Served
<1>2. ASSUME NEW v \in Vulns(h), h.nodes[v].flaw \in PathFlaws, NEW e \in Affecting(h, v)
      PROVE  Leads(h, Reordered(before, g, h), e)
  <2>1. SUFFICES ASSUME NEW d \in Affects(h) \ {e}, h.edges[d].dst = h.edges[e].dst
                 PROVE  <<e, d>> \in Reordered(before, g, h)
    BY DEF Leads
  <2>2. /\ v \in Vulns(g) /\ g.nodes[v].flaw \in PathFlaws /\ Affecting(h, v) = Affecting(g, v)
        /\ \A x \in Affects(g) \cap Affects(h) : h.edges[x] = g.edges[x]
    BY <1>2, <2>1
  <2>3. e \in Affects(h) /\ e \in Affecting(g, v) /\ e \in Affects(g) BY <2>2 DEF Affecting
  <2>4. CASE d \in Affects(g)
    <3>1. g.edges[d].dst = g.edges[e].dst BY <2>1, <2>2, <2>3, <2>4
    <3>2. Leads(g, before, e) BY <2>2, <2>3 DEF Served
    <3>3. <<e, d>> \in before BY <2>4, <3>1, <3>2 DEF Leads
    <3> QED BY <2>3, <3>3 DEF Reordered
  <2>5. CASE d \notin Affects(g) BY <2>3, <2>5 DEF Reordered
  <2> QED BY <2>4, <2>5
<1> QED BY <1>1, <1>2 DEF Served

-----------------------------------------------------------------------------
(* The first draw.                                                              *)

LEMMA LayoutIs ==
    ASSUME NEW layout \in Layouts
    PROVE  /\ Len(layout) \in Nat /\ DOMAIN layout = 1 .. Len(layout)
           /\ \A i \in DOMAIN layout : layout[i] \in Tiers /\ Endpoints(layout[i]) # {} /\ Endpoints(layout[i]) \subseteq {"a", "b"}
           /\ \E i \in DOMAIN layout : \A j \in DOMAIN layout : layout[j] = "web" <=> j = i
BY LayoutAssumption, PathAssumption DEF Tiers

LEMMA FiniteIds ==
    ASSUME NEW n \in Nat
    PROVE  /\ IsFiniteSet({Svc(i) : i \in 1 .. n})
           /\ IsFiniteSet({"ep"} \X (1 .. n) \X {"a", "b"})
<1>1. IsFiniteSet(1 .. n)
  <2>1. 1 \in Int /\ n \in Int OBVIOUS
  <2> QED BY <2>1, FS_Interval
<1>2. IsFiniteSet({Svc(i) : i \in 1 .. n})
  <2> DEFINE T == {Svc(i) : i \in 1 .. n}
             f == [i \in 1 .. n |-> Svc(i)]
  <2>1. f \in Surjection(1 .. n, T) BY DEF Surjection
  <2> HIDE DEF f, T
  <2>2. IsFiniteSet(T) BY <1>1, <2>1, FS_Surjection
  <2> QED BY <2>2 DEF T
<1>3. IsFiniteSet({"a", "b"})
  <2>1. {"a", "b"} = {"a"} \cup {"b"} OBVIOUS
  <2>2. IsFiniteSet({"a"}) BY FS_Singleton
  <2>3. IsFiniteSet({"a"} \cup {"b"}) BY <2>2, FS_AddElement
  <2> QED BY <2>1, <2>3, Zenon
<1>4. IsFiniteSet({"ep"} \X (1 .. n) \X {"a", "b"})
  <2> DEFINE S == (1 .. n) \X {"a", "b"}
             T == {"ep"} \X (1 .. n) \X {"a", "b"}
             f == [x \in S |-> <<"ep", x[1], x[2]>>]
  <2>1. IsFiniteSet(S) BY <1>1, <1>3, FS_Product
  <2>2. ASSUME NEW t \in T PROVE \E x \in S : f[x] = t
    <3>1. <<t[2], t[3]>> \in S OBVIOUS
    <3>2. t = <<"ep", t[2], t[3]>> OBVIOUS
    <3>3. f[<<t[2], t[3]>>] = <<"ep", t[2], t[3]>> BY <3>1
    <3> QED BY <3>1, <3>2, <3>3, Zenon
  <2>3. f \in [S -> T] OBVIOUS
  <2> HIDE DEF f, T, S
  <2>4. f \in Surjection(S, T) BY <2>2, <2>3 DEF Surjection
  <2>5. IsFiniteSet(T) BY <2>1, <2>4, FS_Surjection
  <2> QED BY <2>5 DEF T
<1> QED BY <1>2, <1>4

(* The fields of what is made.                                                    *)
LEMMA NodeFields ==
    /\ \A tier : Service(tier).kind = "service" /\ Service(tier).tier = tier
    /\ \A tier : Service(tier).exposure = IF tier = "web" THEN "public" ELSE "internal"
    /\ \A path : Endpoint(path).kind = "endpoint" /\ Endpoint(path).path = path /\ Endpoint(path).method = "GET"
    /\ \A engine : Store(engine).kind = "data_store" /\ Store(engine).engine = engine
    /\ \A kind, value : Holder(kind, value).kind = kind /\ Holder(kind, value).value = value
    /\ \A flaw, params : /\ Vuln(flaw, params).kind = "vulnerability"
                         /\ Vuln(flaw, params).flaw = flaw /\ Vuln(flaw, params).params = params
BY DEF Service, Endpoint, Store, Holder, Vuln

LEMMA EdgeFields ==
    \A kind, src, dst :
        /\ Edge(kind, src, dst).kind = kind
        /\ Edge(kind, src, dst).src = src /\ Edge(kind, src, dst).dst = dst
BY DEF Edge

SvcsOf(layout) == {Svc(i) : i \in DOMAIN layout}
EpsOf(layout) == UNION {{<<"ep", i, p>> : p \in Endpoints(layout[i])} : i \in DOMAIN layout}

(* The nodes and the edges of the first draw.                                     *)
LEMMA SkeletonParts ==
    ASSUME NEW layout \in Layouts, NEW deepest \in DOMAIN layout, NEW engine \in {"kv", "fs"},
           NEW svcs, svcs = SvcsOf(layout), NEW eps, eps = EpsOf(layout),
           NEW d, d = <<"ds", deepest>>,
           NEW h, h = Skeleton(layout, deepest, engine)
    PROVE  /\ DOMAIN h = {"nodes", "edges"}
           /\ DOMAIN h.nodes = svcs \cup eps \cup {d, record_id, flag_id}
           /\ \A s \in svcs : h.nodes[s] = Service(layout[s[2]])
           /\ \A e \in eps : h.nodes[e] = Endpoint(e[3])
           /\ h.nodes[d] = Store(engine)
           /\ h.nodes[record_id] = Holder("record", <<"flag", 0, 0>>)
           /\ h.nodes[flag_id] = Holder("secret", <<"flag", 0, 0>>)
           /\ DOMAIN h.edges = {SampledEdge("exposes", Svc(e[2]), e) : e \in eps}
                \cup {SampledEdge("backed_by", Svc(deepest), d), SampledEdge("contains", d, record_id),
                      SampledEdge("holds", record_id, flag_id)}
           /\ \A e \in DOMAIN h.edges : h.edges[e] = Edge(e[2], e[3], e[4])
<1> DEFINE A == [s \in svcs |-> Service(layout[s[2]])]
           B == [e \in eps |-> Endpoint(e[3])]
           hosts == Overridden(A, B)
           R == Single(record_id, Holder("record", <<"flag", 0, 0>>))
           F == Single(flag_id, Holder("secret", <<"flag", 0, 0>>))
           loot == Overridden(R, F)
           S == Single(d, Store(engine))
           stored == Overridden(hosts, S)
           ids == {SampledEdge("exposes", Svc(e[2]), e) : e \in eps}
                \cup {SampledEdge("backed_by", Svc(deepest), d), SampledEdge("contains", d, record_id),
                      SampledEdge("holds", record_id, flag_id)}
<1>1. DOMAIN h = {"nodes", "edges"} /\ h.nodes = Overridden(stored, loot) /\ h.edges = EdgesOf(ids)
  BY DEF Skeleton, SvcsOf, EpsOf
<1>2. DOMAIN A = svcs /\ \A s \in svcs : A[s] = Service(layout[s[2]]) OBVIOUS
<1>3. DOMAIN B = eps /\ \A e \in eps : B[e] = Endpoint(e[3]) OBVIOUS
<1>4. DOMAIN R = {record_id} /\ R[record_id] = Holder("record", <<"flag", 0, 0>>) BY DEF Single
<1>5. DOMAIN F = {flag_id} /\ F[flag_id] = Holder("secret", <<"flag", 0, 0>>) BY DEF Single
<1>6. DOMAIN S = {d} /\ S[d] = Store(engine) BY DEF Single
<1>7. DOMAIN h.edges = ids /\ \A e \in ids : h.edges[e] = Edge(e[2], e[3], e[4]) BY <1>1, EdgesOfIs
<1>8. svcs \cap eps = {} /\ d \notin svcs \cup eps /\ record_id \notin svcs \cup eps \cup {d}
      /\ flag_id \notin svcs \cup eps \cup {d} /\ record_id # flag_id
  BY DEF SvcsOf, EpsOf, Svc, record_id, flag_id
<1> HIDE DEF A, B, R, F, S, ids
<1>9. /\ DOMAIN hosts = svcs \cup eps /\ \A s \in svcs : hosts[s] = Service(layout[s[2]])
      /\ \A e \in eps : hosts[e] = Endpoint(e[3])
  BY <1>2, <1>3, <1>8 DEF Overridden
<1>10. /\ DOMAIN loot = {record_id, flag_id} /\ loot[record_id] = Holder("record", <<"flag", 0, 0>>)
       /\ loot[flag_id] = Holder("secret", <<"flag", 0, 0>>)
  BY <1>4, <1>5, <1>8 DEF Overridden
<1> HIDE DEF hosts, loot
<1>11. /\ DOMAIN stored = svcs \cup eps \cup {d} /\ stored[d] = Store(engine)
       /\ \A s \in svcs \cup eps : stored[s] = hosts[s]
  BY <1>6, <1>8, <1>9 DEF Overridden
<1> HIDE DEF stored
<1> DEFINE o == h.nodes
<1>12. o = Overridden(stored, loot) BY <1>1
<1> HIDE DEF o
<1>13. /\ DOMAIN o = svcs \cup eps \cup {d, record_id, flag_id}
       /\ o[record_id] = loot[record_id] /\ o[flag_id] = loot[flag_id]
       /\ \A s \in svcs \cup eps \cup {d} : o[s] = stored[s]
  BY <1>8, <1>10, <1>11, <1>12 DEF Overridden
<1> USE DEF o
<1>14. \A s \in svcs : h.nodes[s] = Service(layout[s[2]]) BY <1>9, <1>11, <1>13
<1>15. \A e \in eps : h.nodes[e] = Endpoint(e[3]) BY <1>9, <1>11, <1>13
<1>16. h.nodes[d] = Store(engine) BY <1>11, <1>13
<1>17. h.nodes[record_id] = Holder("record", <<"flag", 0, 0>>) /\ h.nodes[flag_id] = Holder("secret", <<"flag", 0, 0>>)
  BY <1>10, <1>13
<1>18. DOMAIN h.nodes = svcs \cup eps \cup {d, record_id, flag_id} BY <1>13
<1> QED BY <1>1, <1>7, <1>14, <1>15, <1>16, <1>17, <1>18 DEF ids

LEMMA SkeletonIs ==
    ASSUME NEW layout \in Layouts, NEW deepest \in _pick_deepest_service(layout), NEW engine \in {"kv", "fs"},
           NEW h, h = Skeleton(layout, deepest, engine)
    PROVE  /\ Structured(h) /\ Drafted(h, 0) /\ Affects(h) = {}
           /\ engine = "kv" /\ (\E m \in Manifests : m.topology # "flat") => Apart(h)
<1>1. PICK n \in Nat : n = Len(layout) /\ DOMAIN layout = 1 .. n BY LayoutIs
<1>2. PICK svcs : svcs = SvcsOf(layout) OBVIOUS
<1>3. PICK eps : eps = EpsOf(layout) OBVIOUS
<1>4. PICK d : d = <<"ds", deepest>> OBVIOUS
<1>5. deepest \in 1 .. n BY <1>1 DEF _pick_deepest_service
<1>6. \A i \in 1 .. n : layout[i] \in Tiers /\ Endpoints(layout[i]) # {} /\ Endpoints(layout[i]) \subseteq {"a", "b"}
  BY <1>1, LayoutIs
<1>7. \A e \in eps : e[2] \in 1 .. n /\ e[3] \in {"a", "b"} /\ e = <<"ep", e[2], e[3]>>
  BY <1>1, <1>3, <1>6 DEF EpsOf
<1>8. ASSUME NEW i \in 1 .. n PROVE \E e \in eps : e[2] = i
  <2>1. PICK p : p \in Endpoints(layout[i]) BY <1>6
  <2>2. <<"ep", i, p>> \in eps BY <1>1, <1>3, <2>1 DEF EpsOf
  <2> QED BY <2>2
<1>9. \A i \in 1 .. n : Svc(i) \in svcs BY <1>1, <1>2 DEF SvcsOf
<1>10. \A s \in svcs : \E i \in 1 .. n : s = Svc(i) /\ s[2] = i BY <1>1, <1>2 DEF SvcsOf, Svc
<1>11. svcs \subseteq ServiceIds BY <1>10 DEF ServiceIds, Svc
<1>12. eps \subseteq EndpointIds BY <1>7 DEF EndpointIds, Paths
<1>13. d \in StoreIds BY <1>4, <1>5 DEF StoreIds
<1>14. IsFiniteSet(svcs \cup eps \cup {d, record_id, flag_id})
  <2>1. eps \in SUBSET ({"ep"} \X (1 .. n) \X {"a", "b"}) BY <1>7
  <2>2. IsFiniteSet(eps) BY <2>1, FiniteIds, FS_Subset
  <2>3. IsFiniteSet(svcs) BY <1>1, <1>2, FiniteIds DEF SvcsOf
  <2>4. IsFiniteSet(svcs \cup eps) BY <2>2, <2>3, FS_Union
  <2>5. IsFiniteSet((svcs \cup eps) \cup {d}) BY <2>4, FS_AddElement
  <2>6. IsFiniteSet(((svcs \cup eps) \cup {d}) \cup {record_id}) BY <2>5, FS_AddElement
  <2>7. IsFiniteSet((((svcs \cup eps) \cup {d}) \cup {record_id}) \cup {flag_id}) BY <2>6, FS_AddElement
  <2>8. svcs \cup eps \cup {d, record_id, flag_id} = (((svcs \cup eps) \cup {d}) \cup {record_id}) \cup {flag_id}
    OBVIOUS
  <2> QED BY <2>7, <2>8, Zenon
<1>15. /\ DOMAIN h = {"nodes", "edges"}
       /\ DOMAIN h.nodes = svcs \cup eps \cup {d, record_id, flag_id}
       /\ \A s \in svcs : h.nodes[s] = Service(layout[s[2]])
       /\ \A e \in eps : h.nodes[e] = Endpoint(e[3])
       /\ h.nodes[d] = Store(engine)
       /\ h.nodes[record_id] = Holder("record", <<"flag", 0, 0>>)
       /\ h.nodes[flag_id] = Holder("secret", <<"flag", 0, 0>>)
       /\ DOMAIN h.edges = {SampledEdge("exposes", Svc(e[2]), e) : e \in eps}
            \cup {SampledEdge("backed_by", Svc(deepest), d), SampledEdge("contains", d, record_id),
                  SampledEdge("holds", record_id, flag_id)}
       /\ \A e \in DOMAIN h.edges : h.edges[e] = Edge(e[2], e[3], e[4])
  <2>1. deepest \in DOMAIN layout BY <1>1, <1>5
  <2> QED BY <1>2, <1>3, <1>4, <2>1, SkeletonParts
<1>29. /\ \A s \in svcs : h.nodes[s].kind = "service"
       /\ \A e \in eps : h.nodes[e].kind = "endpoint" /\ h.nodes[e].path = e[3]
       /\ h.nodes[d].kind = "data_store" /\ h.nodes[d].engine = engine
       /\ h.nodes[record_id].kind = "record" /\ h.nodes[flag_id].kind = "secret"
  BY <1>15, NodeFields
<1>16. ASSUME NEW m \in DOMAIN h.nodes PROVE NodeOK(m, h.nodes[m])
  <2>1. CASE m \in svcs
    <3>1. PICK i \in 1 .. n : m = Svc(i) /\ m[2] = i BY <1>10, <2>1
    <3>2. h.nodes[m] = Service(layout[i]) /\ layout[i] \in Tiers BY <1>6, <1>15, <2>1, <3>1
    <3>3. h.nodes[m] \in ServiceNodes BY <3>2 DEF Service, ServiceNodes
    <3> QED BY <1>11, <2>1, <3>3 DEF NodeOK
  <2>2. CASE m \in eps
    <3>1. h.nodes[m] = Endpoint(m[3]) /\ m[3] \in {"a", "b"} BY <1>7, <1>15, <2>2
    <3>2. h.nodes[m] \in EndpointNodes BY <3>1 DEF Endpoint, EndpointNodes, Paths
    <3> QED BY <1>12, <2>2, <3>2 DEF NodeOK
  <2>3. CASE m = d BY <1>13, <1>15, <2>3 DEF NodeOK, Store, StoreNodes
  <2>4. <<"flag", 0, 0>> \in Values BY DEF Values
  <2>5. CASE m = record_id BY <1>15, <2>4, <2>5 DEF NodeOK, Holder, HolderNodes
  <2>6. CASE m = flag_id BY <1>15, <2>4, <2>6 DEF NodeOK, Holder, HolderNodes
  <2> QED BY <1>15, <2>1, <2>2, <2>3, <2>5, <2>6
<1>17. ASSUME NEW x \in DOMAIN h.edges
       PROVE  /\ EdgeOK(h, h.edges[x])
              /\ x = SampledEdge(h.edges[x].kind, h.edges[x].src, h.edges[x].dst)
              /\ h.edges[x].kind \in {"exposes", "backed_by", "contains", "holds"}
              /\ h.edges[x].kind = "backed_by" => h.edges[x] = Edge("backed_by", Svc(deepest), d)
              /\ h.edges[x].kind = "contains" => h.edges[x] = Edge("contains", d, record_id)
  <2>1. h.edges[x] = Edge(x[2], x[3], x[4]) BY <1>15
  <2>2. CASE \E e \in eps : x = SampledEdge("exposes", Svc(e[2]), e)
    <3>1. PICK e \in eps : x = SampledEdge("exposes", Svc(e[2]), e) BY <2>2
    <3>2. h.edges[x] = Edge("exposes", Svc(e[2]), e) BY <2>1, <3>1, SampledEdgeIs
    <3>3. Svc(e[2]) \in svcs BY <1>7, <1>9
    <3>4. h.nodes[Svc(e[2])].kind = "service" /\ h.nodes[e].kind = "endpoint"
      BY <1>29, <3>3
    <3>5. EdgeOK(h, Edge("exposes", Svc(e[2]), e)) BY <1>15, <3>3, <3>4 DEF EdgeOK, Edge, SrcKind, DstKind
    <3> QED BY <3>1, <3>2, <3>5 DEF Edge
  <2>3. CASE x = SampledEdge("backed_by", Svc(deepest), d)
    <3>1. h.edges[x] = Edge("backed_by", Svc(deepest), d) BY <2>1, <2>3, SampledEdgeIs
    <3>2. Svc(deepest) \in svcs BY <1>5, <1>9
    <3>3. h.nodes[Svc(deepest)].kind = "service" /\ h.nodes[d].kind = "data_store"
      BY <1>29, <3>2
    <3>4. EdgeOK(h, Edge("backed_by", Svc(deepest), d)) BY <1>15, <3>2, <3>3 DEF EdgeOK, Edge, SrcKind, DstKind
    <3> QED BY <2>3, <3>1, <3>4 DEF Edge
  <2>4. CASE x = SampledEdge("contains", d, record_id)
    <3>1. h.edges[x] = Edge("contains", d, record_id) BY <2>1, <2>4, SampledEdgeIs
    <3>2. h.nodes[record_id].kind = "record" /\ h.nodes[d].kind = "data_store" BY <1>29
    <3>3. EdgeOK(h, Edge("contains", d, record_id)) BY <1>15, <3>2 DEF EdgeOK, Edge, SrcKind, DstKind
    <3> QED BY <2>4, <3>1, <3>3 DEF Edge
  <2>5. CASE x = SampledEdge("holds", record_id, flag_id)
    <3>1. h.edges[x] = Edge("holds", record_id, flag_id) BY <2>1, <2>5, SampledEdgeIs
    <3>2. h.nodes[record_id].kind = "record" /\ h.nodes[flag_id].kind = "secret" BY <1>29
    <3>3. EdgeOK(h, Edge("holds", record_id, flag_id)) BY <1>15, <3>2 DEF EdgeOK, Edge, SrcKind, DstKind
    <3> QED BY <2>5, <3>1, <3>3 DEF Edge
  <2> QED BY <1>15, <2>2, <2>3, <2>4, <2>5
<1>18. \A e \in eps : \E x \in DOMAIN h.edges : h.edges[x] = Edge("exposes", Svc(e[2]), e)
  <2>1. TAKE e \in eps
  <2>2. SampledEdge("exposes", Svc(e[2]), e) \in DOMAIN h.edges BY <1>15
  <2> QED BY <1>15, <2>2, SampledEdgeIs
<1>19. (\E x \in DOMAIN h.edges : h.edges[x] = Edge("contains", d, record_id))
       /\ \E x \in DOMAIN h.edges : h.edges[x] = Edge("backed_by", Svc(deepest), d)
  <2>1. SampledEdge("contains", d, record_id) \in DOMAIN h.edges BY <1>15
  <2>2. SampledEdge("backed_by", Svc(deepest), d) \in DOMAIN h.edges BY <1>15
  <2> QED BY <1>15, <2>1, <2>2, SampledEdgeIs
<1>20. by_kind(h, "endpoint") = eps /\ by_kind(h, "service") = svcs /\ Vulns(h) = {} /\ by_kind(h, "credential") = {}
  <2>1. DOMAIN h.nodes = svcs \cup eps \cup {d, record_id, flag_id} BY <1>15
  <2> QED BY <1>29, <2>1 DEF by_kind, Vulns
<1>21. Framed(h)
  <2>1. \A t \in by_kind(h, "endpoint") : Srcs(h, "exposes", t) # {} BY <1>18, <1>20, EdgeFields DEF Srcs
  <2> QED BY <1>14, <1>15, <1>16, <1>17, <1>20, <2>1 DEF Framed, Housed
<1>22. Links(h, "contains") = {Edge("contains", d, record_id)} /\ Links(h, "backed_by") = {Edge("backed_by", Svc(deepest), d)}
  BY <1>17, <1>19 DEF Links, Edge
<1>23. Structured(h)
  <2>1. Svc(deepest) \in DOMAIN h.nodes /\ d \in DOMAIN h.nodes BY <1>5, <1>9, <1>15
  <2> QED BY <1>15, <1>21, <1>22, <2>1 DEF Structured, Homed
<1>24. _flag_store(h) = d /\ FlagServices(h) = {Svc(deepest)}
  <2>1. PICK s2, d2 : /\ Links(h, "contains") = {Edge("contains", d2, record_id)}
                      /\ Links(h, "backed_by") = {Edge("backed_by", s2, d2)}
                      /\ _flag_store(h) = d2 /\ FlagServices(h) = {s2}
    BY <1>23, HomeIs
  <2>2. Edge("backed_by", Svc(deepest), d) = Edge("backed_by", s2, d2) BY <1>22, <2>1
  <2>3. s2 = Svc(deepest) /\ d2 = d BY <2>2 DEF Edge
  <2> QED BY <2>1, <2>3
<1>25. Affects(h) = {} BY <1>17 DEF Affects
<1>26. \A i \in 1 .. n : Svc(i) \in Public(h) <=> layout[i] = "web"
  <2>1. \A i \in 1 .. n : Svc(i)[2] = i BY DEF Svc
  <2>2. \A i \in 1 .. n : h.nodes[Svc(i)] = Service(layout[i]) BY <1>9, <1>15, <2>1
  <2>3. \A i \in 1 .. n : h.nodes[Svc(i)].exposure = IF layout[i] = "web" THEN "public" ELSE "internal"
    BY <2>2, NodeFields
  <2> QED BY <1>9, <1>20, <2>3 DEF Public
<1>27. Drafted(h, 0)
  <2>1. \A t \in by_kind(h, "endpoint") : h.nodes[t].path \in {"a", "b"} /\ t[3] \in {"a", "b"}
    BY <1>7, <1>20, <1>29
  <2>2. \A s \in by_kind(h, "service") : Dsts(h, "exposes", s) # {}
    <3>1. TAKE s \in by_kind(h, "service")
    <3>2. PICK i \in 1 .. n : s = Svc(i) BY <1>10, <1>20
    <3>3. PICK e \in eps : e[2] = i BY <1>8
    <3>4. PICK x \in DOMAIN h.edges : h.edges[x] = Edge("exposes", Svc(e[2]), e) BY <1>18
    <3> QED BY <3>2, <3>3, <3>4 DEF Dsts, Edge
  <2>3. Public(h) # {}
    <3>1. PICK i \in 1 .. n : layout[i] = "web" BY <1>1, LayoutIs
    <3> QED BY <1>26, <3>1
  <2> QED BY <1>17, <1>20, <2>1, <2>2, <2>3 DEF Drafted
<1>28. ASSUME engine = "kv", \E m \in Manifests : m.topology # "flat" PROVE Apart(h)
  <2>1. n >= 3 BY <1>1, <1>28, LayoutAssumption
  <2>2. PICK w \in 1 .. n : \A j \in 1 .. n : layout[j] = "web" <=> j = w BY <1>1, LayoutIs
  <2>3. PICK i \in 1 .. n : i # w BY <2>1
  <2>4. layout[deepest] # "web"
    <3>1. Priority(layout[i]) <= Priority(layout[deepest]) BY <1>1 DEF _pick_deepest_service
    <3>2. layout[i] # "web" /\ layout[i] \in Tiers BY <1>6, <2>2, <2>3
    <3>3. Priority(layout[i]) \in {2, 3, 4} BY <3>2 DEF Priority, Tiers
    <3> QED BY <3>1, <3>3 DEF Priority
  <2>5. PICK j \in 1 .. n : j # w /\ j # deepest BY <2>1
  <2>6. Svc(j) \in Internals(h) /\ Svc(j) # Svc(deepest) BY <1>9, <1>20, <1>26, <2>2, <2>5 DEF Internals, Svc
  <2>7. Svc(deepest) \notin Public(h) BY <1>5, <1>26, <2>4
  <2>8. h.nodes[_flag_store(h)].engine = "kv" BY <1>24, <1>28, <1>29
  <2> QED BY <1>24, <2>6, <2>7, <2>8 DEF Apart
<1> QED BY <1>23, <1>25, <1>27, <1>28

-----------------------------------------------------------------------------
(* A vulnerability is placed.                                                     *)

LEMMA KindIs ==
    ASSUME NEW kind \in Range(SortedKinds)
    PROVE  kind \in Flaws /\ kind \notin _INTERNAL_ONLY_KINDS
<1>1. PICK i \in DOMAIN SortedKinds : kind = SortedKinds[i] BY DEF Range
<1>2. SortedKinds[i] \in DOMAIN CATALOG \ _INTERNAL_ONLY_KINDS BY KindAssumption
<1> QED BY <1>1, <1>2 DEF Flaws

LEMMA ParamsIs == Params \in ParamSet
BY DEF Params, ParamSet, NoValue, NoHost, Values, ServiceIds

LEMMA VulnIs ==
    ASSUME NEW flaw \in Flaws, NEW params \in ParamSet
    PROVE  Vuln(flaw, params) \in VulnNodes
BY DEF Vuln, VulnNodes

LEMMA PlacedIs ==
    ASSUME NEW g, Structured(g), NEW n \in Nat, Drafted(g, n), NEW kind \in Range(SortedKinds),
           NEW target \in by_kind(g, "endpoint"), NEW v, v = <<"vuln", kind, n>>,
           NEW h, h = Placed(g, kind, n, target)
    PROVE  /\ Structured(h) /\ Drafted(h, n + 1)
           /\ v \notin DOMAIN g.nodes /\ Vulns(h) = Vulns(g) \cup {v} /\ h.nodes[v].flaw = kind
           /\ \A m \in DOMAIN g.nodes : m \in DOMAIN h.nodes /\ (m # target => h.nodes[m] = g.nodes[m])
           /\ \A w \in Vulns(g) : Affecting(h, w) = Affecting(g, w)
           /\ Public(h) = Public(g) /\ Internals(h) = Internals(g) /\ FlagServices(h) = FlagServices(g)
           /\ _flag_store(h) = _flag_store(g) /\ h.nodes[_flag_store(g)] = g.nodes[_flag_store(g)]
<1>1. PICK x : x = [g.nodes[target] EXCEPT !.method =
                      IF kind \in BODY_SHAPED_KINDS /\ Srcs(g, "affects", target) = {} THEN "POST" ELSE @]
  OBVIOUS
<1>2. PICK g1 : g1 = WithNodes(g, Single(v, Vuln(kind, Params))) OBVIOUS
<1>3. PICK g2 : g2 = WithNodes(g1, Single(target, x)) OBVIOUS
<1>4. PICK a : a = SampledEdge("affects", v, target) OBVIOUS
<1>5. h = WithEdges(g2, {a}) BY <1>1, <1>2, <1>3, <1>4 DEF Placed
<1>6. DOMAIN g = {"nodes", "edges"} BY DEF Structured, Framed
<1>7. /\ DOMAIN g1 = {"nodes", "edges"} /\ g1.edges = g.edges
      /\ DOMAIN g1.nodes = DOMAIN g.nodes \cup {v} /\ g1.nodes[v] = Vuln(kind, Params)
      /\ \A m \in DOMAIN g.nodes \ {v} : g1.nodes[m] = g.nodes[m]
  <2>1. DOMAIN Single(v, Vuln(kind, Params)) = {v} /\ Single(v, Vuln(kind, Params))[v] = Vuln(kind, Params)
    BY SingleIs
  <2> QED BY <1>2, <1>6, <2>1, WithNodesIs
<1>8. /\ DOMAIN g2 = {"nodes", "edges"} /\ g2.edges = g.edges
      /\ DOMAIN g2.nodes = DOMAIN g.nodes \cup {v} \cup {target} /\ g2.nodes[target] = x
      /\ \A m \in (DOMAIN g.nodes \cup {v}) \ {target} : g2.nodes[m] = g1.nodes[m]
  <2>1. DOMAIN Single(target, x) = {target} /\ Single(target, x)[target] = x BY SingleIs
  <2> QED BY <1>3, <1>7, <2>1, WithNodesIs
<1>9. /\ DOMAIN h = {"nodes", "edges"} /\ h.nodes = g2.nodes
      /\ DOMAIN h.edges = DOMAIN g.edges \cup {a} /\ h.edges[a] = Edge("affects", v, target)
      /\ \A e \in DOMAIN g.edges \ {a} : h.edges[e] = g.edges[e]
  <2>1. a[2] = "affects" /\ a[3] = v /\ a[4] = target BY <1>4, SampledEdgeIs
  <2> QED BY <1>5, <1>8, <2>1, WithEdgesIs
<1>10. kind \in Flaws /\ kind \notin _INTERNAL_ONLY_KINDS BY KindIs
<1>11. v \in VulnIds /\ Vuln(kind, Params) \in VulnNodes BY <1>10, ParamsIs, VulnIs DEF VulnIds
<1>12. target \in DOMAIN g.nodes /\ target \in EndpointIds /\ g.nodes[target] \in EndpointNodes
  BY NodeKinds DEF by_kind, Structured, Framed
<1>13. x \in EndpointNodes /\ x.path = g.nodes[target].path BY <1>1, <1>12 DEF EndpointNodes
<1>14. v \notin DOMAIN g.nodes
  <2>1. SUFFICES ASSUME v \in DOMAIN g.nodes PROVE FALSE OBVIOUS
  <2>2. v \in Vulns(g) BY <1>11, <2>1, KindSets DEF Structured, Framed
  <2>3. v[3] < n BY <2>2 DEF Drafted
  <2> QED BY <2>3
<1>15. v # target BY <1>12, <1>14
<1>16. /\ DOMAIN h.nodes = DOMAIN g.nodes \cup {v} /\ h.nodes[v] = Vuln(kind, Params) /\ h.nodes[target] = x
       /\ \A m \in DOMAIN g.nodes : m # target => h.nodes[m] = g.nodes[m]
  BY <1>7, <1>8, <1>9, <1>12, <1>14, <1>15
<1>17. \A m \in DOMAIN h.nodes : NodeOK(m, h.nodes[m])
  BY <1>11, <1>12, <1>13, <1>16 DEF NodeOK, Structured, Framed
<1>18. a \notin DOMAIN g.edges
  <2>1. SUFFICES ASSUME a \in DOMAIN g.edges PROVE FALSE OBVIOUS
  <2>2. g.edges[a].src \in DOMAIN g.nodes BY <2>1 DEF Structured, Framed, EdgeOK
  <2>3. a = SampledEdge(g.edges[a].kind, g.edges[a].src, g.edges[a].dst) BY <2>1 DEF Drafted
  <2>4. g.edges[a].src = v BY <1>4, <2>3, SampledEdgeIs
  <2> QED BY <1>14, <2>2, <2>4
<1>19. \A e \in DOMAIN g.edges : e \in DOMAIN h.edges /\ h.edges[e] = g.edges[e] BY <1>9, <1>18
<1>20. EdgeOK(h, h.edges[a])
  <2>1. h.nodes[v].kind = "vulnerability" /\ h.nodes[target].kind = "endpoint"
    BY <1>13, <1>16, NodeFields DEF EndpointNodes
  <2> QED BY <1>9, <1>12, <1>16, <2>1, EdgeFields DEF EdgeOK, Edge, SrcKind, DstKind
<1>21. Vulns(h) = Vulns(g) \cup {v}
  BY <1>11, <1>16, <1>17, KindSets DEF Structured, Framed
<1>22. by_kind(h, "endpoint") = by_kind(g, "endpoint") /\ by_kind(h, "credential") = by_kind(g, "credential")
  <2>1. v \notin EndpointIds /\ v \notin CredIds BY DEF EndpointIds, CredIds
  <2>2. /\ by_kind(g, "endpoint") = DOMAIN g.nodes \cap EndpointIds
        /\ by_kind(g, "credential") = DOMAIN g.nodes \cap CredIds
    BY KindSets DEF Structured, Framed
  <2>3. /\ by_kind(h, "endpoint") = DOMAIN h.nodes \cap EndpointIds
        /\ by_kind(h, "credential") = DOMAIN h.nodes \cap CredIds
    BY <1>17, KindSets
  <2> QED BY <1>16, <2>1, <2>2, <2>3
<1>23. Affecting(h, v) = {a}
  <2>1. \A e \in DOMAIN g.edges : g.edges[e].src # v BY <1>14 DEF Structured, Framed, EdgeOK
  <2> QED BY <1>9, <1>19, <2>1, EdgeFields DEF Affecting, Affects
<1>24. Grows(g, h)
  <2>1. IsFiniteSet(DOMAIN h.nodes) BY <1>16, FS_AddElement DEF Structured, Framed
  <2>2. \A e \in DOMAIN h.edges :
         \/ e \in DOMAIN g.edges /\ h.edges[e] = g.edges[e]
         \/ EdgeOK(h, h.edges[e]) /\ (h.edges[e].kind = "affects" => h.edges[e].src \notin DOMAIN g.nodes)
    BY <1>9, <1>14, <1>19, <1>20, EdgeFields
  <2>3. \A w \in Vulns(h) \ DOMAIN g.nodes : \E e \in Affects(h) : Affecting(h, w) = {e}
    <3>1. a \in Affects(h) BY <1>23 DEF Affecting
    <3> QED BY <1>21, <1>23, <3>1 DEF Vulns, by_kind
  <2>4. \A t \in by_kind(h, "endpoint") \ DOMAIN g.nodes : Srcs(h, "exposes", t) # {} BY <1>22 DEF by_kind
  <2> QED BY <1>9, <1>16, <1>17, <1>19, <2>1, <2>2, <2>3, <2>4 DEF Grows
<1>25. Framed(h) /\ \A w \in Vulns(g) : Affecting(h, w) = Affecting(g, w) BY <1>24, GrownIs DEF Structured
<1>26. \A k : k # "affects" => Links(h, k) = Links(g, k)
  BY <1>9, <1>19, EdgeFields DEF Links
<1>27. Structured(h) /\ _flag_store(h) = _flag_store(g) /\ FlagServices(h) = FlagServices(g)
  <2>1. record_id \in DOMAIN h.nodes /\ flag_id \in DOMAIN h.nodes BY <1>16 DEF Structured, Homed
  <2>2. Links(h, "contains") = Links(g, "contains") /\ Links(h, "backed_by") = Links(g, "backed_by") BY <1>26
  <2> QED BY <1>25, <2>1, <2>2, SameHome
<1>28. by_kind(h, "service") = by_kind(g, "service") /\ Public(h) = Public(g) /\ Internals(h) = Internals(g)
  <2>1. v \notin ServiceIds /\ target \notin ServiceIds BY <1>12 DEF ServiceIds, EndpointIds
  <2> QED BY <1>16, <1>17, <2>1, SameServices DEF Structured, Framed
<1>29. h.nodes[_flag_store(g)] = g.nodes[_flag_store(g)]
  <2>1. _flag_store(g) \in DOMAIN g.nodes /\ g.nodes[_flag_store(g)].kind = "data_store" BY HomeIs
  <2> QED BY <1>12, <1>16, <2>1 DEF EndpointNodes
<1>30. Drafted(h, n + 1)
  <2>1. \A t \in by_kind(h, "endpoint") : h.nodes[t].path \in {"a", "b"} /\ t[3] \in {"a", "b"}
    BY <1>13, <1>16, <1>22 DEF Drafted, by_kind
  <2>2. \A w \in Vulns(h) : h.nodes[w].flaw \notin _INTERNAL_ONLY_KINDS /\ w[2] = h.nodes[w].flaw /\ w[3] < n + 1
    <3>1. ASSUME NEW w \in Vulns(g) PROVE h.nodes[w].flaw \notin _INTERNAL_ONLY_KINDS /\ w[2] = h.nodes[w].flaw /\ w[3] < n + 1
      <4>1. w \in DOMAIN g.nodes /\ w \in VulnIds BY KindSets DEF Structured, Framed
      <4>2. w # target /\ w[3] \in Nat BY <1>12, <4>1 DEF VulnIds, EndpointIds
      <4>3. h.nodes[w] = g.nodes[w] BY <1>16, <4>1, <4>2
      <4>4. g.nodes[w].flaw \notin _INTERNAL_ONLY_KINDS /\ w[2] = g.nodes[w].flaw /\ w[3] < n BY DEF Drafted
      <4> QED BY <4>2, <4>3, <4>4
    <3>2. h.nodes[v].flaw \notin _INTERNAL_ONLY_KINDS /\ v[2] = h.nodes[v].flaw /\ v[3] < n + 1
      BY <1>10, <1>16, NodeFields
    <3> QED BY <1>21, <3>1, <3>2
  <2>3. ASSUME NEW e \in DOMAIN h.edges
        PROVE  /\ e = SampledEdge(h.edges[e].kind, h.edges[e].src, h.edges[e].dst)
               /\ h.edges[e].kind \notin {"enables", "produces", "requires_credential"}
    <3>1. CASE e \in DOMAIN g.edges BY <1>19, <3>1 DEF Drafted
    <3>2. CASE e = a BY <1>4, <1>9, <3>2, EdgeFields
    <3> QED BY <1>9, <3>1, <3>2
  <2>4. \A s \in by_kind(h, "service") : Dsts(h, "exposes", s) # {}
    <3>1. Links(h, "exposes") = Links(g, "exposes") BY <1>26
    <3> QED BY <1>28, <3>1, EndsOfLinks DEF Drafted
  <2> QED BY <1>22, <1>28, <2>1, <2>2, <2>3, <2>4 DEF Drafted
<1> QED BY <1>14, <1>16, <1>21, <1>25, <1>27, <1>28, <1>29, <1>30, NodeFields

LEMMA OracleTargets ==
    ASSUME NEW g, Structured(g)
    PROVE  _oracle_path_targets(g) \subseteq by_kind(g, "endpoint")
BY DEF _oracle_path_targets, Structured, Framed, EdgeOK, Dsts, DstKind, by_kind

(* The first vulnerability fits the store; a preset's first is an SSRF.              *)
LEMMA OracleIs ==
    ASSUME NEW g, Structured(g), NEW n, Drafted(g, n), NEW p \in Priors, NEW oracle \in _forced_oracle(g, Pool(p))
    PROVE  /\ oracle[1] \in Range(SortedKinds) /\ oracle[2] \in by_kind(g, "endpoint")
           /\ p.company /\ Apart(g) => oracle[1] = "ssrf"
<1> DEFINE fits == {k \in Range(SortedKinds) : CATALOG[k].shape \in _ORACLE_SHAPES_FOR_LOOT(g.nodes[_flag_store(g)].engine)}
           on(kinds) == UNION {{<<k, e>> : e \in _eligible_endpoints_for(g, k, _oracle_path_targets(g))} : k \in kinds}
<1>1. _forced_oracle(g, Pool(p)) = IF on(Pool(p) \cap fits) # {} THEN on(Pool(p) \cap fits) ELSE on(fits)
  BY DEF _forced_oracle
<1>2. \A k : _eligible_endpoints_for(g, k, _oracle_path_targets(g)) \subseteq by_kind(g, "endpoint")
  BY OracleTargets DEF _eligible_endpoints_for
<1>3. \A kinds : \A o \in on(kinds) : o[1] \in kinds /\ o[2] \in by_kind(g, "endpoint")
  BY <1>2
<1>4. fits \subseteq Range(SortedKinds) OBVIOUS
<1>5. oracle[1] \in Range(SortedKinds) /\ oracle[2] \in by_kind(g, "endpoint")
  <2> HIDE DEF fits, on
  <2>1. CASE oracle \in on(Pool(p) \cap fits) BY <1>3, <1>4, <2>1
  <2>2. CASE oracle \in on(fits) BY <1>3, <1>4, <2>2
  <2> QED BY <1>1, <2>1, <2>2
<1>6. ASSUME p.company, Apart(g) PROVE oracle[1] = "ssrf"
  <2>1. Pool(p) \cap fits = {"ssrf"}
    <3>1. Pool(p) = {"ssrf", "path_traversal", "xxe"} \cap Range(SortedKinds) BY <1>6 DEF Pool
    <3>2. _ORACLE_SHAPES_FOR_LOOT(g.nodes[_flag_store(g)].engine) = {"response_leak"}
      BY <1>6 DEF Apart, _ORACLE_SHAPES_FOR_LOOT
    <3>3. /\ CATALOG["ssrf"].shape = "response_leak" /\ CATALOG["path_traversal"].shape = "file_read"
          /\ CATALOG["xxe"].shape = "file_read"
      BY DEF CATALOG, Entry
    <3>4. "ssrf" \in Range(SortedKinds) BY KindAssumption
    <3> QED BY <3>1, <3>2, <3>3, <3>4
  <2>2. _eligible_endpoints_for(g, "ssrf", _oracle_path_targets(g)) = _oracle_path_targets(g)
    BY DEF _eligible_endpoints_for, _VULN_KINDS_REQUIRING_DB
  <2>3. _oracle_path_targets(g) # {}
    <3>1. PICK s \in DOMAIN g.nodes : FlagServices(g) = {s} /\ g.nodes[s].kind = "service" BY HomeIs
    <3>2. Dsts(g, "exposes", s) # {} BY <3>1 DEF Drafted, by_kind
    <3> QED BY <3>1, <3>2 DEF _oracle_path_targets
  <2>4. on({"ssrf"}) # {}
    <3>1. PICK e : e \in _eligible_endpoints_for(g, "ssrf", _oracle_path_targets(g)) BY <2>2, <2>3
    <3>2. <<"ssrf", e>> \in {<<"ssrf", x>> : x \in _eligible_endpoints_for(g, "ssrf", _oracle_path_targets(g))} BY <3>1
    <3>3. <<"ssrf", e>> \in on({"ssrf"}) BY <3>2
    <3> QED BY <3>3
  <2> HIDE DEF on, fits
  <2>5. oracle \in on({"ssrf"}) BY <1>1, <2>1, <2>4
  <2> QED BY <1>3, <2>5
<1> QED BY <1>5, <1>6

LEMMA PoolIs ==
    ASSUME NEW p
    PROVE  Pool(p) \subseteq Range(SortedKinds)
BY DEF Pool

-----------------------------------------------------------------------------
(* The invariant begins.                                                          *)

LEMMA InitOK == Init => WorldInv
<1>1. ASSUME Init PROVE WorldInv
  <2>1. 0 \in 0 .. MaxVulns /\ 0 \in 0 .. MaxEvolved /\ 0 \in 0 .. MaxBetween BY BoundAssumption
  <2> QED BY <1>1, <2>1 DEF Init, WorldInv
<1> QED BY <1>1

LEMMA PriorIs ==
    ASSUME NEW p \in Priors
    PROVE  /\ p.company \in BOOLEAN /\ p.lateral \in BOOLEAN
           /\ p.lateral => p.company
           /\ p.company => \E m \in Manifests : m.topology # "flat"
<1>1. PICK m \in Manifests : p = _effective_prior(m) BY DEF Priors
<1>2. p.company = (m.topology \in {"company", "chain"}) /\ p.lateral = (m.topology = "chain")
  BY <1>1 DEF _effective_prior
<1>3. p.company \in BOOLEAN
  <2>1. CASE m.topology \in {"company", "chain"} BY <1>2, <2>1
  <2>2. CASE ~(m.topology \in {"company", "chain"}) BY <1>2, <2>2
  <2> QED BY <2>1, <2>2
<1>4. p.lateral \in BOOLEAN
  <2>1. CASE m.topology = "chain" BY <1>2, <2>1
  <2>2. CASE ~(m.topology = "chain") BY <1>2, <2>2
  <2> QED BY <2>1, <2>2
<1>5. p.lateral => p.company BY <1>2
<1>6. p.company => m.topology # "flat" BY <1>2
<1> QED BY <1>3, <1>4, <1>5, <1>6

LEMMA DraftNamed ==
    ASSUME NEW g, NEW n, Drafted(g, n)
    PROVE  Named(g)
<1>1. \A e \in DOMAIN g.edges : e = SampledEdge(g.edges[e].kind, g.edges[e].src, g.edges[e].dst) BY DEF Drafted
<1>2. \A e \in DOMAIN g.edges : e[3] = g.edges[e].src BY <1>1, SampledEdgeIs
<1> QED BY <1>2 DEF Named, Affects

LEMMA SampleKeeps == WorldInv /\ SampleServices => WorldInv'
<1> SUFFICES ASSUME WorldInv, SampleServices PROVE WorldInv' OBVIOUS
<1>1. PICK layout \in Layouts, engine \in LootShapes(prior) :
        \E deepest \in _pick_deepest_service(layout) : graph' = Skeleton(layout, deepest, engine)
  BY DEF SampleServices
<1>2. PICK deepest \in _pick_deepest_service(layout) : graph' = Skeleton(layout, deepest, engine) BY <1>1
<1>3. engine \in {"kv", "fs"} /\ (prior.company => engine = "kv") BY DEF LootShapes
<1>4. /\ Structured(graph') /\ Drafted(graph', 0) /\ Affects(graph') = {}
      /\ engine = "kv" /\ (\E m \in Manifests : m.topology # "flat") => Apart(graph')
  BY <1>2, <1>3, SkeletonIs
<1>5. prior.company => Apart(graph') BY <1>3, <1>4, PriorIs DEF WorldInv
<1>6. Ordered(graph', order')
  <2>1. order' \subseteq Affects(graph') \X Affects(graph') BY DEF SampleServices, Reordered
  <2> QED BY <1>4, <2>1 DEF Ordered
<1>7. 0 \in 0 .. MaxVulns BY BoundAssumption
<1>8. Named(graph') BY <1>4 DEF Named
<1> QED BY <1>4, <1>5, <1>6, <1>7, <1>8 DEF WorldInv, SampleServices

LEMMA OracleKeeps == WorldInv /\ PlaceOracle => WorldInv'
<1> SUFFICES ASSUME WorldInv, PlaceOracle PROVE WorldInv' OBVIOUS
<1>1. Structured(graph) /\ Ordered(graph, order) /\ Drafted(graph, 0) /\ prior \in Priors
      /\ (prior.company => Apart(graph))
  BY DEF WorldInv, PlaceOracle
<1>2. PICK oracle \in _forced_oracle(graph, Pool(prior)) : graph' = Placed(graph, oracle[1], 0, oracle[2])
  BY DEF PlaceOracle
<1>3. oracle[1] \in Range(SortedKinds) /\ oracle[2] \in by_kind(graph, "endpoint") BY <1>1, OracleIs
<1>4. PICK v : v = <<"vuln", oracle[1], 0>> OBVIOUS
<1>5. /\ Structured(graph') /\ Drafted(graph', 0 + 1)
      /\ Vulns(graph') = Vulns(graph) \cup {v} /\ graph'.nodes[v].flaw = oracle[1]
      /\ Public(graph') = Public(graph) /\ Internals(graph') = Internals(graph)
      /\ FlagServices(graph') = FlagServices(graph) /\ _flag_store(graph') = _flag_store(graph)
      /\ graph'.nodes[_flag_store(graph)] = graph.nodes[_flag_store(graph)]
  BY <1>1, <1>2, <1>3, <1>4, PlacedIs
<1>6. prior.company => Apart(graph') BY <1>1, <1>5 DEF Apart
<1>7. ASSUME prior.company PROVE Pivot \in OfKind(graph', "ssrf") /\ Leading(graph', order')
  <2>1. oracle[1] = "ssrf" BY <1>1, <1>7, OracleIs
  <2>2. v = Pivot BY <1>4, <2>1 DEF Pivot
  <2>3. Vulns(graph) = {}
    <3>1. \A w \in Vulns(graph) : w[3] < 0 /\ w \in VulnIds BY <1>1, KindSets DEF Drafted, Structured, Framed
    <3> QED BY <3>1 DEF VulnIds
  <2>4. Vulns(graph') = {Pivot} BY <1>5, <2>2, <2>3
  <2>5. \A e \in Affects(graph') : graph'.edges[e].src \in Vulns(graph')
    BY <1>5 DEF Structured, Framed, EdgeOK, SrcKind, Affects, Vulns, by_kind
  <2>6. Affects(graph') = Affecting(graph', Pivot) BY <2>4, <2>5 DEF Affecting
  <2>7. PICK e : Affecting(graph', Pivot) = {e} BY <1>5, <2>4 DEF Structured, Framed, Housed
  <2> QED BY <1>5, <2>1, <2>2, <2>4, <2>6, <2>7 DEF Leading, OfKind
<1>8. Ordered(graph', order') BY <1>1, ReorderedOrdered DEF PlaceOracle
<1>9. 1 \in 0 .. MaxVulns BY BoundAssumption
<1>10. Drafted(graph', 1) BY <1>5
<1>11. Named(graph') BY <1>10, DraftNamed
<1> QED BY <1>5, <1>6, <1>7, <1>8, <1>9, <1>10, <1>11 DEF WorldInv, PlaceOracle

LEMMA PlaceKeeps == WorldInv /\ PlaceVuln => WorldInv'
<1> SUFFICES ASSUME WorldInv, PlaceVuln PROVE WorldInv' OBVIOUS
<1>1. /\ Structured(graph) /\ Ordered(graph, order) /\ Drafted(graph, draws) /\ prior \in Priors
      /\ draws \in Nat /\ draws > 0 /\ draws + 1 \in 0 .. MaxVulns
      /\ (prior.company => Apart(graph) /\ Pivot \in OfKind(graph, "ssrf") /\ Leading(graph, order))
  BY BoundAssumption DEF WorldInv, PlaceVuln
<1>2. PICK kind \in Pool(prior) :
        \E e \in _eligible_endpoints_for(graph, kind, by_kind(graph, "endpoint")) :
          graph' = IF \E v \in OfKind(graph, kind) : Target(graph, v) = e THEN graph
                   ELSE Placed(graph, kind, draws, e)
  BY DEF PlaceVuln
<1>3. PICK e \in _eligible_endpoints_for(graph, kind, by_kind(graph, "endpoint")) :
        graph' = graph \/ graph' = Placed(graph, kind, draws, e)
  BY <1>2
<1>4. kind \in Range(SortedKinds) /\ e \in by_kind(graph, "endpoint")
  BY PoolIs DEF _eligible_endpoints_for
<1>5. Ordered(graph', order') BY <1>1, ReorderedOrdered DEF PlaceVuln
<1>6. CASE graph' = graph
  <2>1. Drafted(graph', draws + 1) BY <1>1, <1>6, KindSets DEF Drafted, Structured, Framed, VulnIds
  <2>2. prior.company => Leading(graph', order') BY <1>1, <1>6, LeadingKept DEF PlaceVuln
  <2>3. Named(graph') BY <2>1, DraftNamed
  <2> QED BY <1>1, <1>5, <1>6, <2>1, <2>2, <2>3 DEF WorldInv, PlaceVuln
<1>7. CASE graph' = Placed(graph, kind, draws, e)
  <2>1. PICK v : v = <<"vuln", kind, draws>> OBVIOUS
  <2>2. /\ Structured(graph') /\ Drafted(graph', draws + 1)
        /\ Vulns(graph') = Vulns(graph) \cup {v} /\ v \notin DOMAIN graph.nodes
        /\ \A m \in DOMAIN graph.nodes : m \in DOMAIN graph'.nodes /\ (m # e => graph'.nodes[m] = graph.nodes[m])
        /\ \A w \in Vulns(graph) : Affecting(graph', w) = Affecting(graph, w)
        /\ Public(graph') = Public(graph) /\ Internals(graph') = Internals(graph)
        /\ FlagServices(graph') = FlagServices(graph) /\ _flag_store(graph') = _flag_store(graph)
        /\ graph'.nodes[_flag_store(graph)] = graph.nodes[_flag_store(graph)]
    BY <1>1, <1>4, <1>7, <2>1, PlacedIs
  <2>3. prior.company => Apart(graph') BY <1>1, <2>2 DEF Apart
  <2>4. ASSUME prior.company PROVE Pivot \in OfKind(graph', "ssrf") /\ Leading(graph', order')
    <3>1. Pivot \in Vulns(graph) /\ Pivot # e /\ Pivot \in DOMAIN graph.nodes
      BY <1>1, <1>4, <2>4 DEF OfKind, Vulns, by_kind
    <3>2. Pivot \in OfKind(graph', "ssrf") BY <1>1, <2>2, <2>4, <3>1 DEF OfKind
    <3> QED BY <1>1, <2>2, <2>4, <3>1, <3>2, LeadingKept DEF PlaceVuln
  <2>5. Named(graph') BY <2>2, DraftNamed
  <2> QED BY <1>1, <1>5, <2>2, <2>3, <2>4, <2>5 DEF WorldInv, PlaceVuln
<1> QED BY <1>3, <1>6, <1>7

-----------------------------------------------------------------------------
(* What composing a world takes: an edge is named after nodes there are, and what is   *)
(* on the path has an endpoint of its own.                                        *)

Sampled(g) ==
    \A e \in DOMAIN g.edges :
        e[2] = g.edges[e].kind /\ e[3] = g.edges[e].src /\ e[3] \in DOMAIN g.nodes /\ e[4] \in DOMAIN g.nodes

Secluded(g) ==
    \A v \in Vulns(g) : g.nodes[v].flaw \in PathFlaws =>
        \A e \in Affecting(g, v), d \in Affects(g) : g.edges[d].dst = g.edges[e].dst => d = e

LEMMA DraftIs ==
    ASSUME NEW g, Structured(g), NEW n, Drafted(g, n)
    PROVE  Sampled(g) /\ Secluded(g) /\ Links(g, "enables") = {}
<1>1. \A v \in Vulns(g) : g.nodes[v].flaw \notin PathFlaws
  BY DEF Drafted, PathFlaws, ChainFlaws, GateFlaws, _INTERNAL_ONLY_KINDS
<1>2. \A e \in DOMAIN g.edges : e = SampledEdge(g.edges[e].kind, g.edges[e].src, g.edges[e].dst) BY DEF Drafted
<1>3. \A e \in DOMAIN g.edges : e[2] = g.edges[e].kind /\ e[3] = g.edges[e].src /\ e[4] = g.edges[e].dst
  BY <1>2, SampledEdgeIs
<1>4. Sampled(g) BY <1>3 DEF Sampled, Structured, Framed, EdgeOK
<1> QED BY <1>1, <1>4 DEF Secluded, Drafted, Links

(* What enables what is told by edges between vulnerabilities there are.             *)
LEMMA EnablingIs ==
    ASSUME NEW g, Structured(g), NEW n, Drafted(g, n), NEW h, h = Enabling(g)
    PROVE  /\ Structured(h) /\ Sampled(h) /\ Secluded(h)
           /\ h.nodes = g.nodes /\ Vulns(h) = Vulns(g) /\ Public(h) = Public(g) /\ Internals(h) = Internals(g)
           /\ _flag_store(h) = _flag_store(g) /\ FlagServices(h) = FlagServices(g)
           /\ \A k : k # "enables" => Links(h, k) = Links(g, k)
           /\ \A l \in Links(h, "enables") : l.src \in Vulns(g) /\ l.dst \in Vulns(g)
           /\ \A v \in Vulns(g) : Affecting(h, v) = Affecting(g, v) /\ Target(h, v) = Target(g, v)
<1>1. PICK ids : ids = UNION {{SampledEdge("enables", v, First(OfKind(g, k))) :
                           k \in {k \in Enables(g.nodes[v].flaw) : OfKind(g, k) # {} /\ First(OfKind(g, k)) # v}}
                        : v \in Vulns(g)}
  OBVIOUS
<1>2. h = WithEdges(g, ids) BY <1>1 DEF Enabling
<1>3. ASSUME NEW e \in ids PROVE e[2] = "enables" /\ e[3] \in Vulns(g) /\ e[4] \in Vulns(g)
  <2>0. PICK v \in Vulns(g) :
          \E k \in {k \in Enables(g.nodes[v].flaw) : OfKind(g, k) # {} /\ First(OfKind(g, k)) # v} :
            e = SampledEdge("enables", v, First(OfKind(g, k)))
    BY <1>1
  <2>1. PICK k : OfKind(g, k) # {} /\ e = SampledEdge("enables", v, First(OfKind(g, k))) BY <2>0
  <2>2. OfKind(g, k) \subseteq VulnIds BY KindSets DEF OfKind, Structured, Framed
  <2>3. First(OfKind(g, k)) \in OfKind(g, k) BY <2>1, <2>2, FirstIsIn
  <2> QED BY <2>1, <2>3, SampledEdgeIs DEF OfKind
<1>4. DOMAIN g = {"nodes", "edges"} BY DEF Structured, Framed
<1>5. /\ DOMAIN h = {"nodes", "edges"} /\ h.nodes = g.nodes
      /\ DOMAIN h.edges = DOMAIN g.edges \cup ids
      /\ \A e \in ids : h.edges[e] = Edge("enables", e[3], e[4])
      /\ \A e \in DOMAIN g.edges \ ids : h.edges[e] = g.edges[e]
  BY <1>2, <1>3, <1>4, WithEdgesIs
<1>6. Sampled(g) /\ Secluded(g) /\ Links(g, "enables") = {} BY DraftIs
<1>7. ids \cap DOMAIN g.edges = {}
  <2>1. \A e \in DOMAIN g.edges : e[2] = g.edges[e].kind /\ g.edges[e].kind # "enables" BY <1>6 DEF Sampled, Links
  <2> QED BY <1>3, <2>1
<1>8. \A e \in DOMAIN g.edges : e \in DOMAIN h.edges /\ h.edges[e] = g.edges[e] BY <1>5, <1>7
<1>9. \A e \in ids : /\ h.edges[e].kind = "enables" /\ h.edges[e].src \in Vulns(g) /\ h.edges[e].dst \in Vulns(g)
                     /\ EdgeOK(h, h.edges[e])
  <2>1. TAKE e \in ids
  <2>2. h.edges[e] = Edge("enables", e[3], e[4]) /\ e[3] \in Vulns(g) /\ e[4] \in Vulns(g) BY <1>3, <1>5
  <2>3. EdgeOK(h, Edge("enables", e[3], e[4])) BY <1>5, <2>2 DEF EdgeOK, Edge, SrcKind, DstKind, Vulns, by_kind
  <2> QED BY <2>2, <2>3, EdgeFields
<1>10. Vulns(h) = Vulns(g) BY <1>5 DEF Vulns, by_kind
<1>11. Grows(g, h)
  <2>1. \A v \in Vulns(h) \ DOMAIN g.nodes : \E e \in Affects(h) : Affecting(h, v) = {e} BY <1>10 DEF Vulns, by_kind
  <2>2. \A t \in by_kind(h, "endpoint") \ DOMAIN g.nodes : Srcs(h, "exposes", t) # {} BY <1>5 DEF by_kind
  <2>3. \A e \in DOMAIN h.edges :
         \/ e \in DOMAIN g.edges /\ h.edges[e] = g.edges[e]
         \/ EdgeOK(h, h.edges[e]) /\ (h.edges[e].kind = "affects" => h.edges[e].src \notin DOMAIN g.nodes)
    BY <1>5, <1>8, <1>9
  <2>4. IsFiniteSet(DOMAIN h.nodes) /\ \A m \in DOMAIN h.nodes : NodeOK(m, h.nodes[m])
    BY <1>5 DEF Structured, Framed
  <2> QED BY <1>5, <1>8, <2>1, <2>2, <2>3, <2>4 DEF Grows
<1>12. /\ Framed(h) /\ Affects(g) \subseteq Affects(h)
       /\ \A v \in Vulns(g) : Affecting(h, v) = Affecting(g, v) /\ Target(h, v) = Target(g, v)
  BY <1>11, GrownIs DEF Structured
<1>13. \A k : k # "enables" => Links(h, k) = Links(g, k)
  <2>1. \A k : k # "enables" => \A e \in DOMAIN g.edges : g.edges[e].kind = k => e \in DOMAIN h.edges /\ h.edges[e] = g.edges[e]
    BY <1>8
  <2>2. \A k : k # "enables" => \A e \in DOMAIN h.edges : h.edges[e].kind = k => e \in DOMAIN g.edges /\ h.edges[e] = g.edges[e]
    BY <1>5, <1>8, <1>9
  <2> QED BY <2>1, <2>2, SameLinks
<1>14. Structured(h) /\ _flag_store(h) = _flag_store(g) /\ FlagServices(h) = FlagServices(g)
  <2>1. record_id \in DOMAIN h.nodes /\ flag_id \in DOMAIN h.nodes BY <1>5 DEF Structured, Homed
  <2> QED BY <1>12, <1>13, <2>1, SameHome
<1>18. Public(h) = Public(g) /\ Internals(h) = Internals(g) BY <1>5 DEF Public, Internals, by_kind
<1>15. \A l \in Links(h, "enables") : l.src \in Vulns(g) /\ l.dst \in Vulns(g)
  <2>1. \A e \in DOMAIN g.edges : g.edges[e].kind # "enables" BY <1>6 DEF Links
  <2> QED BY <1>5, <1>8, <1>9, <2>1 DEF Links
<1>16. Sampled(h)
  <2>1. \A e \in ids : e[3] \in DOMAIN g.nodes /\ e[4] \in DOMAIN g.nodes BY <1>3 DEF Vulns, by_kind
  <2>2. \A e \in ids : h.edges[e].src = e[3] BY <1>5, EdgeFields
  <2> QED BY <1>3, <1>5, <1>6, <1>8, <1>9, <2>1, <2>2 DEF Sampled
<1>17. Secluded(h)
  <2>1. \A v \in Vulns(h) : h.nodes[v].flaw \notin PathFlaws
    BY <1>5, <1>10 DEF Drafted, PathFlaws, ChainFlaws, GateFlaws, _INTERNAL_ONLY_KINDS
  <2> QED BY <2>1 DEF Secluded
<1> QED BY <1>5, <1>10, <1>12, <1>13, <1>14, <1>15, <1>16, <1>17, <1>18

LEMMA PrecedesOrders ==
    ASSUME NEW S, S \subseteq EndpointIds
    PROVE  StrictOrder({p \in S \X S : Precedes(p[1], p[2])}, S)
<1>1. \A x \in Paths : PathRank[x] \in Nat BY DEF Paths, PathRank
<1>2. \A x, y \in Paths : PathRank[x] = PathRank[y] => x = y BY DEF Paths, PathRank
<1>3. \A x \in S : x[2] \in Nat /\ x[3] \in Paths /\ x = <<"ep", x[2], x[3]>> BY DEF EndpointIds
<1>4. ASSUME NEW x \in S PROVE ~Precedes(x, x) BY <1>1, <1>3 DEF Precedes
<1>5. ASSUME NEW x \in S, NEW y \in S, NEW z \in S, Precedes(x, y), Precedes(y, z) PROVE Precedes(x, z)
  <2>1. x[2] \in Nat /\ y[2] \in Nat /\ z[2] \in Nat BY <1>3
  <2>2. PathRank[x[3]] \in Nat /\ PathRank[y[3]] \in Nat /\ PathRank[z[3]] \in Nat BY <1>1, <1>3
  <2> QED BY <1>5, <2>1, <2>2 DEF Precedes
<1>6. ASSUME NEW x \in S, NEW y \in S, x # y PROVE Precedes(x, y) \/ Precedes(y, x)
  <2>1. x[2] \in Nat /\ y[2] \in Nat BY <1>3
  <2>2. PathRank[x[3]] \in Nat /\ PathRank[y[3]] \in Nat BY <1>1, <1>3
  <2>3. x[2] # y[2] \/ PathRank[x[3]] # PathRank[y[3]] BY <1>2, <1>3, <1>6
  <2> QED BY <2>1, <2>2, <2>3 DEF Precedes
<1> QED BY <1>4, <1>5, <1>6 DEF StrictOrder

LEMMA FirstEndpointIs ==
    ASSUME NEW g, Framed(g), NEW s, Dsts(g, "exposes", s) # {}
    PROVE  FirstEndpoint(g, s) \in Dsts(g, "exposes", s) /\ Dsts(g, "exposes", s) \subseteq by_kind(g, "endpoint")
<1> DEFINE S == Dsts(g, "exposes", s)
           R == {p \in S \X S : Precedes(p[1], p[2])}
<1>1. S \subseteq by_kind(g, "endpoint") BY DEF Dsts, Framed, EdgeOK, DstKind, by_kind
<1>2. S \subseteq EndpointIds BY <1>1, KindSets DEF Framed
<1>3. IsFiniteSet(S)
  <2>1. S \in SUBSET DOMAIN g.nodes BY <1>1 DEF by_kind
  <2> HIDE DEF S
  <2> QED BY <2>1, FS_Subset DEF Framed
<1>4. S # {} OBVIOUS
<1>5. FirstEndpoint(g, s) = CHOOSE e \in S : \A d \in S \ {e} : Precedes(e, d) BY DEF FirstEndpoint
<1> HIDE DEF S
<1>6. PICK e \in S : \A d \in S \ {e} : <<e, d>> \in R
  <2>1. StrictOrder(R, S) BY <1>2, PrecedesOrders
  <2> HIDE DEF R
  <2> QED BY <1>3, <1>4, <2>1, LeastExists
<1>7. \E x \in S : \A d \in S \ {x} : Precedes(x, d) BY <1>6
<1>8. FirstEndpoint(g, s) \in S BY <1>5, <1>7
<1> QED BY <1>1, <1>8 DEF S

(* The first SSRF moves to an endpoint of a public service, which is driven by GET.   *)
LEMMA FootholdIs ==
    ASSUME NEW g, Structured(g), Sampled(g), Public(g) # {}, OfKind(g, "ssrf") # {},
           \A s \in by_kind(g, "service") : Dsts(g, "exposes", s) # {},
           \A v \in Vulns(g) : g.nodes[v].flaw \notin PathFlaws,
           NEW params \in ParamSet, NEW ssrf, ssrf = First(OfKind(g, "ssrf")), NEW h, h = Foothold(g, params)
    PROVE  /\ Structured(h) /\ Sampled(h) /\ Secluded(h)
           /\ ssrf \in OfKind(g, "ssrf") /\ DOMAIN h.nodes = DOMAIN g.nodes /\ Vulns(h) = Vulns(g)
           /\ \A v \in Vulns(g) : h.nodes[v].flaw = g.nodes[v].flaw /\ Affecting(h, v) = Affecting(g, v)
           /\ h.nodes[ssrf].params = params
           /\ \A t \in by_kind(g, "endpoint") : h.nodes[t].path = g.nodes[t].path
           /\ by_kind(h, "service") = by_kind(g, "service") /\ Public(h) = Public(g) /\ Internals(h) = Internals(g)
           /\ _flag_store(h) = _flag_store(g) /\ FlagServices(h) = FlagServices(g)
           /\ \A k : k # "affects" => Links(h, k) = Links(g, k)
           /\ Target(h, ssrf) \in PublicEndpoints(h) /\ h.nodes[Target(h, ssrf)].method = "GET"
<1>1. PICK s : s = PublicService(g) /\ s \in Public(g) BY DEF PublicService
<1>2. PICK ep : ep = FirstEndpoint(g, s) /\ ep \in Dsts(g, "exposes", s) /\ ep \in by_kind(g, "endpoint")
  BY <1>1, FirstEndpointIs DEF Public, Structured
<1>3. \A n \in DOMAIN g.nodes : NodeOK(n, g.nodes[n]) BY DEF Structured, Framed
<1>4. ssrf \in OfKind(g, "ssrf")
  <2>1. OfKind(g, "ssrf") \subseteq VulnIds BY <1>3, KindSets DEF OfKind
  <2> QED BY <2>1, FirstIsIn
<1>5. /\ ssrf \in DOMAIN g.nodes /\ ssrf \in VulnIds /\ g.nodes[ssrf] \in VulnNodes /\ ssrf \in Vulns(g)
      /\ ep \in DOMAIN g.nodes /\ ep \in EndpointIds /\ g.nodes[ep] \in EndpointNodes /\ ssrf # ep
  BY <1>2, <1>3, <1>4, NodeKinds DEF OfKind, Vulns, by_kind, VulnIds, EndpointIds
<1>6. /\ DOMAIN h = {"nodes", "edges"}
      /\ h.nodes = [g.nodes EXCEPT ![ssrf].params = params, ![ep].method = "GET"]
      /\ h.edges = [e \in DOMAIN g.edges |-> IF g.edges[e].kind = "affects" /\ g.edges[e].src = ssrf
                                             THEN [g.edges[e] EXCEPT !.dst = ep] ELSE g.edges[e]]
  <2>1. h = [g EXCEPT !.nodes = [g.nodes EXCEPT ![ssrf].params = params, ![ep].method = "GET"],
                      !.edges = [e \in DOMAIN g.edges |-> IF g.edges[e].kind = "affects" /\ g.edges[e].src = ssrf
                                             THEN [g.edges[e] EXCEPT !.dst = ep] ELSE g.edges[e]]]
    BY <1>1, <1>2 DEF Foothold
  <2>2. DOMAIN g = {"nodes", "edges"} BY DEF Structured, Framed
  <2> QED BY <2>1, <2>2
<1>7. /\ DOMAIN h.nodes = DOMAIN g.nodes
      /\ h.nodes[ssrf] = [g.nodes[ssrf] EXCEPT !.params = params]
      /\ h.nodes[ep] = [g.nodes[ep] EXCEPT !.method = "GET"]
      /\ \A n \in DOMAIN g.nodes \ {ssrf, ep} : h.nodes[n] = g.nodes[n]
  BY <1>5, <1>6
<1>8. /\ h.nodes[ssrf] \in VulnNodes /\ h.nodes[ssrf].flaw = g.nodes[ssrf].flaw /\ h.nodes[ssrf].params = params
      /\ h.nodes[ep] \in EndpointNodes /\ h.nodes[ep].path = g.nodes[ep].path /\ h.nodes[ep].method = "GET"
  BY <1>5, <1>7 DEF VulnNodes, EndpointNodes
<1>9. \A n \in DOMAIN h.nodes : NodeOK(n, h.nodes[n]) BY <1>3, <1>5, <1>7, <1>8 DEF NodeOK
<1>10. Vulns(h) = Vulns(g) /\ by_kind(h, "endpoint") = by_kind(g, "endpoint")
  <2>1. Vulns(g) = DOMAIN g.nodes \cap VulnIds /\ by_kind(g, "endpoint") = DOMAIN g.nodes \cap EndpointIds
    BY <1>3, KindSets
  <2>2. Vulns(h) = DOMAIN h.nodes \cap VulnIds /\ by_kind(h, "endpoint") = DOMAIN h.nodes \cap EndpointIds
    BY <1>9, KindSets
  <2> QED BY <1>7, <2>1, <2>2
<1>11. PICK a : /\ a \in Affects(g) /\ Affecting(g, ssrf) = {a}
  BY <1>5 DEF Structured, Framed, Housed
<1>12. /\ DOMAIN h.edges = DOMAIN g.edges
       /\ \A e \in DOMAIN g.edges : e # a => h.edges[e] = g.edges[e]
       /\ h.edges[a] = [g.edges[a] EXCEPT !.dst = ep]
  <2>1. a \in DOMAIN g.edges /\ g.edges[a].kind = "affects" /\ g.edges[a].src = ssrf BY <1>11 DEF Affecting, Affects
  <2>2. \A e \in DOMAIN g.edges : g.edges[e].kind = "affects" /\ g.edges[e].src = ssrf => e = a
    BY <1>11 DEF Affecting, Affects
  <2> QED BY <1>6, <2>1, <2>2
<1>13. h.edges[a] = Edge("affects", ssrf, ep) /\ a \in DOMAIN g.edges
  <2>1. EdgeOK(g, g.edges[a]) /\ a \in DOMAIN g.edges BY <1>11 DEF Affects, Structured, Framed
  <2>2. g.edges[a] \in [kind : DOMAIN SrcKind, src : DOMAIN g.nodes, dst : DOMAIN g.nodes] BY <2>1 DEF EdgeOK
  <2>3. g.edges[a].kind = "affects" /\ g.edges[a].src = ssrf BY <1>11 DEF Affecting, Affects
  <2>4. h.edges[a] = [kind |-> "affects", src |-> ssrf, dst |-> ep] BY <1>12, <2>2, <2>3
  <2> QED BY <2>1, <2>4 DEF Edge
<1>14. \A e \in DOMAIN h.edges : h.edges[e].kind = g.edges[e].kind /\ h.edges[e].src = g.edges[e].src
  <2>1. g.edges[a].kind = "affects" /\ g.edges[a].src = ssrf BY <1>11 DEF Affecting, Affects
  <2> QED BY <1>12, <1>13, <2>1, EdgeFields
<1>15. Affects(h) = Affects(g) /\ \A v : Affecting(h, v) = Affecting(g, v) BY <1>12, <1>14 DEF Affects, Affecting
<1>16. \A e \in DOMAIN h.edges : EdgeOK(h, h.edges[e])
  <2>1. TAKE e \in DOMAIN h.edges
  <2>2. CASE e = a
    <3>1. h.nodes[ssrf].kind = "vulnerability" /\ h.nodes[ep].kind = "endpoint" BY <1>8 DEF VulnNodes, EndpointNodes
    <3>2. EdgeOK(h, Edge("affects", ssrf, ep)) BY <1>5, <1>7, <3>1 DEF EdgeOK, Edge, SrcKind, DstKind
    <3> QED BY <1>13, <2>2, <3>2
  <2>3. CASE e # a
    <3>1. h.edges[e] = g.edges[e] /\ EdgeOK(g, g.edges[e]) BY <1>12, <2>3 DEF Structured, Framed
    <3>2. g.edges[e].src \in DOMAIN h.nodes /\ g.edges[e].dst \in DOMAIN h.nodes BY <1>7, <3>1 DEF EdgeOK
    <3> QED BY <1>3, <1>9, <3>1, <3>2, OldEdges
  <2> QED BY <2>2, <2>3
<1>17. \A k : k # "affects" => Links(h, k) = Links(g, k)
  <2>1. g.edges[a].kind = "affects" /\ h.edges[a].kind = "affects" BY <1>11, <1>13, EdgeFields DEF Affects
  <2>2. \A k : k # "affects" => \A e \in DOMAIN g.edges : g.edges[e].kind = k => e \in DOMAIN h.edges /\ h.edges[e] = g.edges[e]
    BY <1>12, <2>1
  <2>3. \A k : k # "affects" => \A e \in DOMAIN h.edges : h.edges[e].kind = k => e \in DOMAIN g.edges /\ h.edges[e] = g.edges[e]
    BY <1>12, <2>1
  <2> QED BY <2>2, <2>3, SameLinks
<1>18. Framed(h)
  <2>1. \A v \in Vulns(h) : \E e \in Affects(h) : Affecting(h, v) = {e}
    BY <1>10, <1>15 DEF Structured, Framed, Housed
  <2>2. \A t \in by_kind(h, "endpoint") : Srcs(h, "exposes", t) # {}
    <3>1. Links(h, "exposes") = Links(g, "exposes") BY <1>17
    <3> QED BY <1>10, <3>1, EndsOfLinks DEF Structured, Framed, Housed
  <2>3. IsFiniteSet(DOMAIN h.nodes) BY <1>7 DEF Structured, Framed
  <2> QED BY <1>6, <1>9, <1>16, <2>1, <2>2, <2>3 DEF Framed, Housed
<1>19. Structured(h) /\ _flag_store(h) = _flag_store(g) /\ FlagServices(h) = FlagServices(g)
  <2>1. record_id \in DOMAIN h.nodes /\ flag_id \in DOMAIN h.nodes BY <1>7 DEF Structured, Homed
  <2> QED BY <1>17, <1>18, <2>1, SameHome
<1>20. by_kind(h, "service") = by_kind(g, "service") /\ Public(h) = Public(g) /\ Internals(h) = Internals(g)
  <2>1. \A x \in ServiceIds : x # ssrf /\ x # ep BY <1>5 DEF ServiceIds, VulnIds, EndpointIds
  <2> QED BY <1>3, <1>7, <1>9, <2>1, SameServices
<1>21. Target(h, ssrf) = ep
  <2>1. PICK e : Affecting(h, ssrf) = {e} /\ h.edges[e].dst = Target(h, ssrf) BY <1>5, <1>10, <1>18, TargetIs
  <2>2. e = a BY <1>11, <1>15, <2>1
  <2> QED BY <1>13, <2>1, <2>2, EdgeFields
<1>22. ep \in PublicEndpoints(h)
  <2>1. Links(h, "exposes") = Links(g, "exposes") BY <1>17
  <2>2. ep \in Dsts(h, "exposes", s) BY <1>2, <2>1, EndsOfLinks
  <2> QED BY <1>1, <1>20, <2>2 DEF PublicEndpoints
<1>23. \A v \in Vulns(g) : h.nodes[v].flaw = g.nodes[v].flaw
  <2>1. \A v \in Vulns(g) : v \in DOMAIN g.nodes /\ v # ep BY <1>3, <1>5, KindSets DEF VulnIds, EndpointIds
  <2> QED BY <1>7, <1>8, <2>1
<1>24. Secluded(h) BY <1>10, <1>23 DEF Secluded
<1>25. Sampled(h) BY <1>7, <1>12, <1>14 DEF Sampled
<1>26. \A t \in by_kind(g, "endpoint") : h.nodes[t].path = g.nodes[t].path
  <2>1. \A t \in by_kind(g, "endpoint") : t \in DOMAIN g.nodes /\ t # ssrf BY <1>3, <1>5, KindSets DEF VulnIds, EndpointIds
  <2> QED BY <1>7, <1>8, <2>1
<1> QED BY <1>4, <1>7, <1>8, <1>10, <1>15, <1>17, <1>19, <1>20, <1>21, <1>22, <1>23, <1>24, <1>25, <1>26

(* An endpoint of a service that comes with the vulnerability it runs, and with edges   *)
(* to it from what enables it.                                                    *)
Annexed(g, s, path, flaw, params, more) ==
    WithEdges(WithNodes(g, Overridden(Single(<<"ep", s[2], path>>, Endpoint(path)),
                                      Single(<<"vuln", flaw, 0>>, Vuln(flaw, params)))),
              {SampledEdge("exposes", s, <<"ep", s[2], path>>),
               SampledEdge("affects", <<"vuln", flaw, 0>>, <<"ep", s[2], path>>)} \cup more)

Fresh(g, ep, v, more) ==
    /\ ep \notin DOMAIN g.nodes /\ v \notin DOMAIN g.nodes
    /\ \A e \in more : e[2] = "enables" /\ e[3] \in Vulns(g) /\ e[4] = v

(* What the endpoint and its vulnerability leave alone.                             *)
Annexes(g, h, s, ep, v, more) ==
    /\ Structured(h) /\ Sampled(h) /\ Secluded(h)
    /\ DOMAIN h.nodes = DOMAIN g.nodes \cup {ep, v}
    /\ \A n \in DOMAIN g.nodes : h.nodes[n] = g.nodes[n]
    /\ Vulns(h) = Vulns(g) \cup {v} /\ Target(h, v) = ep /\ HostOf(h, v) = s
    /\ \A w \in Vulns(g) : /\ Affecting(h, w) = Affecting(g, w)
                           /\ Target(h, w) = Target(g, w) /\ HostOf(h, w) = HostOf(g, w)
    /\ by_kind(h, "endpoint") = by_kind(g, "endpoint") \cup {ep}
    /\ by_kind(h, "credential") = by_kind(g, "credential")
    /\ by_kind(h, "service") = by_kind(g, "service") /\ Public(h) = Public(g) /\ Internals(h) = Internals(g)
    /\ _flag_store(h) = _flag_store(g) /\ FlagServices(h) = FlagServices(g)
    /\ \A k : k \notin {"exposes", "affects", "enables"} => Links(h, k) = Links(g, k)
    /\ Links(g, "exposes") \subseteq Links(h, "exposes")
    /\ Links(h, "enables") = Links(g, "enables") \cup {Edge("enables", e[3], e[4]) : e \in more}

LEMMA AnnexedIs ==
    ASSUME NEW g, Structured(g), Sampled(g), Secluded(g), NEW s \in by_kind(g, "service"), NEW path \in Paths,
           NEW flaw \in Flaws, NEW params \in ParamSet, NEW more,
           NEW ep, ep = <<"ep", s[2], path>>, NEW v, v = <<"vuln", flaw, 0>>,
           Fresh(g, ep, v, more), NEW h, h = Annexed(g, s, path, flaw, params, more)
    PROVE  /\ Annexes(g, h, s, ep, v, more)
           /\ h.nodes[ep] = Endpoint(path) /\ h.nodes[v] = Vuln(flaw, params)
<1>35. ~(ep \in DOMAIN g.nodes) /\ ~(v \in DOMAIN g.nodes) BY DEF Fresh
<1>36. \A e \in more : e[2] = "enables" /\ e[3] \in Vulns(g) /\ e[4] = v BY DEF Fresh
<1>1. PICK x : x = SampledEdge("exposes", s, ep) OBVIOUS
<1>2. PICK a : a = SampledEdge("affects", v, ep) OBVIOUS
<1>3. PICK nodes : nodes = Overridden(Single(ep, Endpoint(path)), Single(v, Vuln(flaw, params))) OBVIOUS
<1>4. PICK g1 : g1 = WithNodes(g, nodes) OBVIOUS
<1>5. h = WithEdges(g1, {x, a} \cup more) BY <1>1, <1>2, <1>3, <1>4 DEF Annexed
<1>6. DOMAIN g = {"nodes", "edges"} /\ \A n \in DOMAIN g.nodes : NodeOK(n, g.nodes[n]) BY DEF Structured, Framed
<1>7. s \in ServiceIds /\ s \in DOMAIN g.nodes /\ s[2] \in Nat /\ s = Svc(s[2])
  <2>1. s \in ServiceIds /\ s \in DOMAIN g.nodes BY <1>6, KindSets
  <2> QED BY <2>1 DEF ServiceIds, Svc
<1>8. ep \in EndpointIds /\ v \in VulnIds /\ ep # v /\ ep[2] = s[2]
  BY <1>7 DEF EndpointIds, VulnIds
<1>9. DOMAIN nodes = {ep, v} /\ nodes[ep] = Endpoint(path) /\ nodes[v] = Vuln(flaw, params)
  BY <1>3, <1>8 DEF Overridden, Single
<1>10. /\ DOMAIN g1 = {"nodes", "edges"} /\ g1.edges = g.edges
       /\ DOMAIN g1.nodes = DOMAIN g.nodes \cup {ep, v}
       /\ \A n \in {ep, v} : g1.nodes[n] = nodes[n]
       /\ \A n \in DOMAIN g.nodes \ {ep, v} : g1.nodes[n] = g.nodes[n]
  BY <1>4, <1>6, <1>9, WithNodesIs
<1>11. /\ x[2] = "exposes" /\ x[3] = s /\ x[4] = ep
       /\ a[2] = "affects" /\ a[3] = v /\ a[4] = ep
  BY <1>1, <1>2, SampledEdgeIs
<1>12. /\ DOMAIN h = {"nodes", "edges"} /\ h.nodes = g1.nodes
       /\ DOMAIN h.edges = DOMAIN g.edges \cup ({x, a} \cup more)
       /\ \A e \in {x, a} \cup more : h.edges[e] = Edge(e[2], e[3], e[4])
       /\ \A e \in DOMAIN g.edges \ ({x, a} \cup more) : h.edges[e] = g.edges[e]
  BY <1>5, <1>10, WithEdgesIs
<1>13. /\ DOMAIN h.nodes = DOMAIN g.nodes \cup {ep, v}
       /\ h.nodes[ep] = Endpoint(path) /\ h.nodes[v] = Vuln(flaw, params)
       /\ \A n \in DOMAIN g.nodes : h.nodes[n] = g.nodes[n]
  BY <1>9, <1>10, <1>12, <1>35
<1>14. ({x, a} \cup more) \cap DOMAIN g.edges = {}
  <2>1. \A e \in DOMAIN g.edges : e[4] \in DOMAIN g.nodes BY DEF Sampled
  <2> QED BY <1>11, <1>35, <1>36, <2>1
<1>15. \A e \in DOMAIN g.edges : e \in DOMAIN h.edges /\ h.edges[e] = g.edges[e] BY <1>12, <1>14
<1>16. Endpoint(path) \in EndpointNodes /\ Vuln(flaw, params) \in VulnNodes
  BY VulnIs DEF Endpoint, EndpointNodes
<1>17. \A n \in DOMAIN h.nodes : NodeOK(n, h.nodes[n]) BY <1>6, <1>8, <1>13, <1>16 DEF NodeOK
<1>18. /\ h.nodes[ep].kind = "endpoint" /\ h.nodes[v].kind = "vulnerability" /\ h.nodes[s].kind = "service"
       /\ \A w \in Vulns(g) : h.nodes[w].kind = "vulnerability"
  BY <1>13, NodeFields DEF Vulns, by_kind
<1>19. EdgeOK(h, h.edges[x]) /\ h.edges[x] = Edge("exposes", s, ep)
  <2>1. h.edges[x] = Edge("exposes", s, ep) BY <1>11, <1>12
  <2>2. EdgeOK(h, Edge("exposes", s, ep)) BY <1>7, <1>8, <1>13, <1>18 DEF EdgeOK, Edge, SrcKind, DstKind
  <2> QED BY <2>1, <2>2
<1>20. EdgeOK(h, h.edges[a]) /\ h.edges[a] = Edge("affects", v, ep)
  <2>1. h.edges[a] = Edge("affects", v, ep) BY <1>11, <1>12
  <2>2. EdgeOK(h, Edge("affects", v, ep)) BY <1>13, <1>18 DEF EdgeOK, Edge, SrcKind, DstKind
  <2> QED BY <2>1, <2>2
<1>21. ASSUME NEW e \in more PROVE EdgeOK(h, h.edges[e]) /\ h.edges[e] = Edge("enables", e[3], e[4])
  <2>1. h.edges[e] = Edge("enables", e[3], v) /\ e[3] \in Vulns(g) /\ e[4] = v BY <1>12, <1>36
  <2>2. e[3] \in DOMAIN g.nodes BY <2>1 DEF Vulns, by_kind
  <2>3. EdgeOK(h, Edge("enables", e[3], v)) BY <1>13, <1>18, <2>1, <2>2 DEF EdgeOK, Edge, SrcKind, DstKind
  <2> QED BY <2>1, <2>3
<1>22. /\ Vulns(h) = Vulns(g) \cup {v} /\ by_kind(h, "endpoint") = by_kind(g, "endpoint") \cup {ep}
       /\ by_kind(h, "credential") = by_kind(g, "credential")
  <2>1. /\ Vulns(g) = DOMAIN g.nodes \cap VulnIds /\ by_kind(g, "endpoint") = DOMAIN g.nodes \cap EndpointIds
        /\ by_kind(g, "credential") = DOMAIN g.nodes \cap CredIds
    BY <1>6, KindSets
  <2>2. /\ Vulns(h) = DOMAIN h.nodes \cap VulnIds /\ by_kind(h, "endpoint") = DOMAIN h.nodes \cap EndpointIds
        /\ by_kind(h, "credential") = DOMAIN h.nodes \cap CredIds
    BY <1>17, KindSets
  <2>3. ep \notin VulnIds /\ v \notin EndpointIds /\ ep \notin CredIds /\ v \notin CredIds
    BY <1>8 DEF VulnIds, EndpointIds, CredIds
  <2> QED BY <1>8, <1>13, <2>1, <2>2, <2>3
<1>23. Affecting(h, v) = {a} /\ a \in Affects(h)
  <2>1. \A e \in DOMAIN g.edges : g.edges[e].src # v BY <1>35 DEF Structured, Framed, EdgeOK
  <2>2. \A e \in DOMAIN h.edges : h.edges[e].kind = "affects" /\ h.edges[e].src = v => e = a
    BY <1>12, <1>15, <1>19, <1>21, <2>1, EdgeFields
  <2> QED BY <1>12, <1>20, <2>2, EdgeFields DEF Affecting, Affects
<1>24. Grows(g, h)
  <2>1. IsFiniteSet(DOMAIN h.nodes)
    <3>1. IsFiniteSet(DOMAIN g.nodes \cup {ep}) BY FS_AddElement DEF Structured, Framed
    <3>2. IsFiniteSet((DOMAIN g.nodes \cup {ep}) \cup {v}) BY <3>1, FS_AddElement
    <3>3. DOMAIN h.nodes = (DOMAIN g.nodes \cup {ep}) \cup {v} BY <1>13
    <3> QED BY <3>2, <3>3
  <2>2. \A e \in DOMAIN h.edges :
         \/ e \in DOMAIN g.edges /\ h.edges[e] = g.edges[e]
         \/ EdgeOK(h, h.edges[e]) /\ (h.edges[e].kind = "affects" => h.edges[e].src \notin DOMAIN g.nodes)
    BY <1>12, <1>15, <1>19, <1>20, <1>21, <1>35, EdgeFields
  <2>3. \A w \in Vulns(h) \ DOMAIN g.nodes : \E e \in Affects(h) : Affecting(h, w) = {e}
    BY <1>22, <1>23 DEF Vulns, by_kind
  <2>4. \A t \in by_kind(h, "endpoint") \ DOMAIN g.nodes : Srcs(h, "exposes", t) # {}
    <3>1. Srcs(h, "exposes", ep) # {} BY <1>12, <1>19, EdgeFields DEF Srcs
    <3> QED BY <1>22, <3>1 DEF by_kind
  <2> QED BY <1>12, <1>13, <1>15, <1>17, <2>1, <2>2, <2>3, <2>4 DEF Grows
<1>25. /\ Framed(h)
       /\ \A w \in Vulns(g) : /\ Affecting(h, w) = Affecting(g, w)
                              /\ Target(h, w) = Target(g, w) /\ HostOf(h, w) = HostOf(g, w)
  BY <1>24, GrownIs DEF Structured
<1>26. \A k : k \notin {"exposes", "affects", "enables"} => Links(h, k) = Links(g, k)
  <2>1. \A e \in {x, a} \cup more : h.edges[e].kind \in {"exposes", "affects", "enables"}
    BY <1>19, <1>20, <1>21, EdgeFields
  <2>2. \A k : k \notin {"exposes", "affects", "enables"} =>
          \A e \in DOMAIN g.edges : g.edges[e].kind = k => e \in DOMAIN h.edges /\ h.edges[e] = g.edges[e]
    BY <1>15
  <2>3. \A k : k \notin {"exposes", "affects", "enables"} =>
          \A e \in DOMAIN h.edges : h.edges[e].kind = k => e \in DOMAIN g.edges /\ h.edges[e] = g.edges[e]
    BY <1>12, <1>15, <2>1
  <2> QED BY <2>2, <2>3, SameLinks
<1>27. Links(g, "exposes") \subseteq Links(h, "exposes") BY <1>15 DEF Links
<1>28. Links(h, "enables") = Links(g, "enables") \cup {Edge("enables", e[3], e[4]) : e \in more}
  <2>1. \A l \in Links(g, "enables") : l \in Links(h, "enables") BY <1>15 DEF Links
  <2>2. ASSUME NEW e \in more PROVE Edge("enables", e[3], e[4]) \in Links(h, "enables")
    BY <1>12, <1>21, <2>2, EdgeFields DEF Links
  <2>3. ASSUME NEW l \in Links(h, "enables")
        PROVE  l \in Links(g, "enables") \/ \E e \in more : l = Edge("enables", e[3], e[4])
    <3>1. PICK e \in DOMAIN h.edges : h.edges[e] = l /\ h.edges[e].kind = "enables" BY DEF Links
    <3>2. e # x /\ e # a BY <1>19, <1>20, <3>1, EdgeFields
    <3>3. e \in DOMAIN g.edges \/ e \in more BY <1>12, <3>1, <3>2
    <3>4. CASE e \in DOMAIN g.edges BY <1>15, <3>1, <3>4 DEF Links
    <3>5. CASE e \in more BY <1>21, <3>1, <3>5
    <3> QED BY <3>3, <3>4, <3>5
  <2> QED BY <2>1, <2>2, <2>3
<1>29. Structured(h) /\ _flag_store(h) = _flag_store(g) /\ FlagServices(h) = FlagServices(g)
  <2>1. record_id \in DOMAIN h.nodes /\ flag_id \in DOMAIN h.nodes BY <1>13 DEF Structured, Homed
  <2> QED BY <1>25, <1>26, <2>1, SameHome
<1>30. by_kind(h, "service") = by_kind(g, "service") /\ Public(h) = Public(g) /\ Internals(h) = Internals(g)
  <2>1. ep \notin ServiceIds /\ v \notin ServiceIds BY DEF ServiceIds
  <2> QED BY <1>6, <1>13, <1>17, <2>1, SameServices
<1>31. Target(h, v) = ep /\ HostOf(h, v) = s
  <2>1. PICK e : Affecting(h, v) = {e} /\ h.edges[e].dst = Target(h, v) BY <1>22, <1>25, TargetIs
  <2>2. e = a BY <1>23, <2>1
  <2>3. Target(h, v) = ep BY <1>20, <2>1, <2>2, EdgeFields
  <2>4. HostOf(h, v) = Svc(ep[2]) BY <1>22, <1>25, <2>3, HostIs
  <2> QED BY <1>7, <1>8, <2>3, <2>4
<1>32. Sampled(h)
  <2>1. \A e \in {x, a} \cup more : e[2] = h.edges[e].kind /\ e[3] \in DOMAIN h.nodes /\ e[4] \in DOMAIN h.nodes
    BY <1>7, <1>11, <1>13, <1>19, <1>20, <1>21, <1>36, EdgeFields DEF Vulns, by_kind
  <2>2. \A e \in {x, a} \cup more : e[3] = h.edges[e].src BY <1>11, <1>19, <1>20, <1>21, <1>36, EdgeFields
  <2> QED BY <1>12, <1>13, <1>15, <2>1, <2>2 DEF Sampled
<1>33. Secluded(h)
  <2>1. \A e \in Affects(h) : (e \in Affects(g) /\ h.edges[e] = g.edges[e] /\ h.edges[e].dst # ep) \/ e = a
    <3>1. \A e \in DOMAIN g.edges : g.edges[e].dst # ep BY <1>35 DEF Structured, Framed, EdgeOK
    <3> QED BY <1>12, <1>15, <1>19, <1>21, <3>1, EdgeFields DEF Affects
  <2>2. h.edges[a].dst = ep BY <1>20, EdgeFields
  <2>3. ASSUME NEW w \in Vulns(g), h.nodes[w].flaw \in PathFlaws, NEW e \in Affecting(h, w), NEW d \in Affects(h),
               h.edges[d].dst = h.edges[e].dst
        PROVE  d = e
    <3>1. g.nodes[w].flaw \in PathFlaws BY <1>13, <2>3 DEF Vulns, by_kind
    <3>2. e \in Affecting(g, w) /\ e \in Affects(g) BY <1>25 DEF Affecting
    <3>3. e # a BY <1>14, <3>2 DEF Affects
    <3>4. e \in Affects(h) BY DEF Affecting
    <3>5. h.edges[e] = g.edges[e] /\ h.edges[e].dst # ep BY <2>1, <3>3, <3>4
    <3>6. d \in Affects(g) /\ h.edges[d] = g.edges[d] BY <2>1, <2>2, <2>3, <3>5
    <3> QED BY <2>3, <3>1, <3>2, <3>5, <3>6 DEF Secluded
  <2>4. ASSUME NEW e \in Affecting(h, v), NEW d \in Affects(h), h.edges[d].dst = h.edges[e].dst PROVE d = e
    BY <1>23, <2>1, <2>2, <2>4
  <2> QED BY <1>22, <2>3, <2>4 DEF Secluded
<1>34. Annexes(g, h, s, ep, v, more)
  BY <1>13, <1>22, <1>25, <1>26, <1>27, <1>28, <1>29, <1>30, <1>31, <1>32, <1>33 DEF Annexes
<1> QED BY <1>13, <1>34

(* The SSRF that was placed first is the one every world with a pivot begins with.     *)
LEMMA PivotIs ==
    ASSUME NEW g, \A n \in DOMAIN g.nodes : NodeOK(n, g.nodes[n]),
           Pivot \in OfKind(g, "ssrf"), \A v \in OfKind(g, "ssrf") : v[2] = "ssrf"
    PROVE  First(OfKind(g, "ssrf")) = Pivot
<1> DEFINE S == OfKind(g, "ssrf")
           f == First(S)
<1>1. S \subseteq VulnIds BY KindSets DEF OfKind
<1>2. f \in S /\ \A w \in S : 100 * f[3] + KindRank[f[2]] <= 100 * w[3] + KindRank[w[2]] BY <1>1, FirstIsIn
<1> HIDE DEF S, f
<1>3. f \in VulnIds /\ f[2] = "ssrf" /\ f[3] \in Nat
  <2>1. f \in VulnIds /\ f[2] = "ssrf" BY <1>1, <1>2 DEF S
  <2> QED BY <2>1 DEF VulnIds
<1>4. 100 * f[3] + 11 <= 100 * 0 + 11
  <2>1. 100 * f[3] + KindRank[f[2]] <= 100 * Pivot[3] + KindRank[Pivot[2]] BY <1>2 DEF S
  <2>2. Pivot[3] = 0 /\ Pivot[2] = "ssrf" BY DEF Pivot
  <2>3. KindRank["ssrf"] = 11 BY DEF KindRank
  <2> QED BY <1>3, <2>1, <2>2, <2>3
<1>5. f[3] = 0 BY <1>3, <1>4
<1>6. f = Pivot BY <1>3, <1>5 DEF VulnIds, Pivot
<1> QED BY <1>6 DEF f, S

(* What a draft has no endpoints and no vulnerabilities for.                        *)
LEMMA DraftIds ==
    ASSUME NEW g, Structured(g), NEW n, Drafted(g, n)
    PROVE  /\ \A t \in DOMAIN g.nodes : t \in EndpointIds => t[3] \in {"a", "b"}
           /\ \A v \in DOMAIN g.nodes : v \in VulnIds => v[2] \notin _INTERNAL_ONLY_KINDS
           /\ \A c \in DOMAIN g.nodes : c \notin CredIds
           /\ \A v \in Vulns(g) : g.nodes[v].flaw \notin PathFlaws
           /\ \A v \in OfKind(g, "ssrf") : v[2] = "ssrf"
<1>1. /\ Vulns(g) = DOMAIN g.nodes \cap VulnIds /\ by_kind(g, "endpoint") = DOMAIN g.nodes \cap EndpointIds
      /\ by_kind(g, "credential") = DOMAIN g.nodes \cap CredIds
  BY KindSets DEF Structured, Framed
<1> QED BY <1>1 DEF Drafted, OfKind, PathFlaws, ChainFlaws, GateFlaws, _INTERNAL_ONLY_KINDS

LEMMA NetworkizeIs ==
    ASSUME NEW d, Structured(d), NEW n, Drafted(d, n), NEW g, g = Enabling(d), NEW h, h = _networkize_ssrf(g)
    PROVE  /\ Structured(h) /\ Sampled(h) /\ Secluded(h)
           /\ \A v \in Vulns(d) : v \in Vulns(h) /\ Affecting(h, v) = Affecting(d, v)
           /\ FlatGates(h) /\ Public(h) # {}
           /\ \A t \in DOMAIN h.nodes : t \in EndpointIds => t[3] # "recon"
           /\ \A v \in DOMAIN h.nodes : v \in VulnIds => v[2] # "config_disclosure"
           /\ Apart(d) /\ Pivot \in OfKind(d, "ssrf") => Company(h)
<1>1. /\ Structured(g) /\ Sampled(g) /\ Secluded(g)
      /\ g.nodes = d.nodes /\ Vulns(g) = Vulns(d) /\ Public(g) = Public(d) /\ Internals(g) = Internals(d)
      /\ _flag_store(g) = _flag_store(d) /\ FlagServices(g) = FlagServices(d)
      /\ \A k : k # "enables" => Links(g, k) = Links(d, k)
      /\ \A v \in Vulns(d) : Affecting(g, v) = Affecting(d, v) /\ Target(g, v) = Target(d, v)
  BY EnablingIs
<1>2. /\ \A t \in DOMAIN g.nodes : t \in EndpointIds => t[3] \in {"a", "b"}
      /\ \A v \in DOMAIN g.nodes : v \in VulnIds => v[2] \notin _INTERNAL_ONLY_KINDS
      /\ \A v \in Vulns(g) : g.nodes[v].flaw \notin PathFlaws
      /\ \A v \in OfKind(g, "ssrf") : v[2] = "ssrf"
  BY <1>1, DraftIds DEF OfKind
<1>3. Public(g) # {} /\ \A s \in by_kind(g, "service") : Dsts(g, "exposes", s) # {}
  <2>1. Links(g, "exposes") = Links(d, "exposes") /\ by_kind(g, "service") = by_kind(d, "service")
    BY <1>1 DEF by_kind
  <2> QED BY <1>1, <2>1, EndsOfLinks DEF Drafted
<1>4. CASE g.nodes[_flag_store(g)].engine = "fs" \/ ~Pivotable(g)
  <2>1. h = g BY <1>4 DEF _networkize_ssrf
  <2>2. ~(Apart(d) /\ Pivot \in OfKind(d, "ssrf"))
    BY <1>1, <1>4 DEF Apart, Pivotable, OfKind
  <2>3. FlatGates(g) BY <1>2 DEF FlatGates, PathFlaws
  <2> QED BY <1>1, <1>2, <1>3, <2>1, <2>2, <2>3 DEF _INTERNAL_ONLY_KINDS
<1>5. CASE ~(g.nodes[_flag_store(g)].engine = "fs" \/ ~Pivotable(g))
  <2>1. PICK host : host = CHOOSE s \in FlagServices(g) : TRUE OBVIOUS
  <2>2. FlagServices(g) = {host} /\ host \in by_kind(g, "service")
    <3>1. PICK s \in DOMAIN g.nodes : FlagServices(g) = {s} /\ g.nodes[s].kind = "service" BY <1>1, HomeIs
    <3> QED BY <2>1, <3>1 DEF by_kind
  <2>3. PICK ssrf : ssrf = First(OfKind(g, "ssrf")) OBVIOUS
  <2>4. PICK params : params = [Params EXCEPT !.host = host] OBVIOUS
  <2>5. params \in ParamSet /\ params.host = host
    <3>1. host \in ServiceIds BY <1>1, <2>2, KindSets DEF Structured, Framed
    <3> QED BY <2>4, <3>1, ParamsIs DEF ParamSet
  <2>6. PICK f : f = Foothold(g, params) OBVIOUS
  <2>7. /\ Structured(f) /\ Sampled(f) /\ Secluded(f)
        /\ ssrf \in OfKind(g, "ssrf") /\ DOMAIN f.nodes = DOMAIN g.nodes /\ Vulns(f) = Vulns(g)
        /\ \A v \in Vulns(g) : f.nodes[v].flaw = g.nodes[v].flaw /\ Affecting(f, v) = Affecting(g, v)
        /\ f.nodes[ssrf].params = params
        /\ by_kind(f, "service") = by_kind(g, "service") /\ Public(f) = Public(g) /\ Internals(f) = Internals(g)
        /\ FlagServices(f) = FlagServices(g)
        /\ Target(f, ssrf) \in PublicEndpoints(f) /\ f.nodes[Target(f, ssrf)].method = "GET"
    BY <1>1, <1>2, <1>3, <1>5, <2>3, <2>5, <2>6, FootholdIs DEF Pivotable
  <2>8. PICK ep : ep = <<"ep", host[2], "metadata">> OBVIOUS
  <2>9. PICK leak : leak = <<"vuln", "metadata_credential_leak", 0>> OBVIOUS
  <2>10. PICK more : more = {SampledEdge("enables", ssrf, leak)} OBVIOUS
  <2>11. h = Annexed(f, host, "metadata", "metadata_credential_leak", Params, more)
    <3>1. h = WithEdges(WithNodes(f, Overridden(Single(ep, Endpoint("metadata")),
                                             Single(leak, Vuln("metadata_credential_leak", Params)))),
                        {SampledEdge("exposes", host, ep), SampledEdge("affects", leak, ep),
                         SampledEdge("enables", ssrf, leak)})
      BY <1>5, <2>1, <2>3, <2>4, <2>6, <2>8, <2>9 DEF _networkize_ssrf
    <3>2. {SampledEdge("exposes", host, ep), SampledEdge("affects", leak, ep), SampledEdge("enables", ssrf, leak)}
          = {SampledEdge("exposes", host, ep), SampledEdge("affects", leak, ep)} \cup more
      BY <2>10
    <3> QED BY <2>8, <2>9, <3>1, <3>2, Zenon DEF Annexed
  <2>12. ~(ep \in DOMAIN f.nodes) /\ ~(leak \in DOMAIN f.nodes)
    <3>1. host[2] \in Nat BY <1>1, <2>2, KindSets DEF Structured, Framed, ServiceIds
    <3>2. ep \in EndpointIds /\ ep[3] = "metadata" BY <2>8, <3>1 DEF EndpointIds, Paths
    <3>3. leak \in VulnIds /\ leak[2] = "metadata_credential_leak" BY <2>9 DEF VulnIds, Flaws, CATALOG
    <3> QED BY <1>2, <2>7, <3>2, <3>3 DEF _INTERNAL_ONLY_KINDS
  <2>13. \A e \in more : e[2] = "enables" /\ e[3] \in Vulns(f) /\ e[4] = leak
    BY <2>7, <2>10, SampledEdgeIs DEF OfKind
  <2>14. "metadata" \in Paths /\ "metadata_credential_leak" \in Flaws BY DEF Paths, Flaws, CATALOG
  <2>15. /\ Structured(h) /\ Sampled(h) /\ Secluded(h)
         /\ DOMAIN h.nodes = DOMAIN f.nodes \cup {ep, leak}
         /\ h.nodes[leak] = Vuln("metadata_credential_leak", Params)
         /\ \A m \in DOMAIN f.nodes : h.nodes[m] = f.nodes[m]
         /\ Vulns(h) = Vulns(f) \cup {leak} /\ Target(h, leak) = ep /\ HostOf(h, leak) = host
         /\ \A w \in Vulns(f) : Affecting(h, w) = Affecting(f, w) /\ Target(h, w) = Target(f, w)
         /\ Public(h) = Public(f) /\ FlagServices(h) = FlagServices(f)
         /\ Links(f, "exposes") \subseteq Links(h, "exposes")
    <3>1. host \in by_kind(f, "service") BY <2>2, <2>7
    <3>2. Params \in ParamSet BY ParamsIs
    <3>3. Structured(f) /\ Sampled(f) /\ Secluded(f) BY <2>7
    <3>5. Fresh(f, ep, leak, more) BY <2>12, <2>13 DEF Fresh
    <3>4. Annexes(f, h, host, ep, leak, more) /\ h.nodes[leak] = Vuln("metadata_credential_leak", Params)
      <4>1. PICK path, flaw, given :
              path = "metadata" /\ flaw = "metadata_credential_leak" /\ given = Params
        OBVIOUS
      <4>2. path \in Paths /\ flaw \in Flaws /\ given \in ParamSet BY <2>14, <3>2, <4>1
      <4>3. ep = <<"ep", host[2], path>> /\ leak = <<"vuln", flaw, 0>> BY <2>8, <2>9, <4>1
      <4>4. h = Annexed(f, host, path, flaw, given, more) BY <2>11, <4>1
      <4>5. Annexes(f, h, host, ep, leak, more) /\ h.nodes[leak] = Vuln(flaw, given)
        BY <3>1, <3>3, <3>5, <4>2, <4>3, <4>4, AnnexedIs
      <4> QED BY <4>1, <4>5
    <3> QED BY <3>4 DEF Annexes
  <2>16. \A v \in Vulns(f) : v \in DOMAIN f.nodes /\ h.nodes[v].flaw = g.nodes[v].flaw
    BY <2>7, <2>15 DEF Vulns, by_kind
  <2>17. FlatGates(h)
    <3>1. h.nodes[leak].flaw = "metadata_credential_leak" BY <2>15, NodeFields
    <3> QED BY <1>2, <2>7, <2>15, <2>16, <3>1 DEF FlatGates, PathFlaws, ChainFlaws, GateFlaws
  <2>18. /\ \A t \in DOMAIN h.nodes : t \in EndpointIds => t[3] # "recon"
         /\ \A v \in DOMAIN h.nodes : v \in VulnIds => v[2] # "config_disclosure"
    <3>1. ep[3] = "metadata" /\ leak[2] = "metadata_credential_leak" /\ leak \notin EndpointIds /\ ep \notin VulnIds
      BY <2>8, <2>9 DEF EndpointIds, VulnIds
    <3> QED BY <1>2, <2>7, <2>15, <3>1 DEF _INTERNAL_ONLY_KINDS
  <2>19. \A v \in Vulns(d) : v \in Vulns(h) /\ Affecting(h, v) = Affecting(d, v) BY <1>1, <2>7, <2>15
  <2>20. ASSUME Apart(d), Pivot \in OfKind(d, "ssrf") PROVE Company(h)
    <3>1. ssrf = Pivot
      <4>1. Pivot \in OfKind(g, "ssrf") BY <1>1, <2>20 DEF OfKind
      <4> QED BY <1>1, <1>2, <2>3, <4>1, PivotIs DEF Structured, Framed
    <3>2. OfKind(h, "ssrf") = OfKind(g, "ssrf")
      <4>1. h.nodes[leak].flaw # "ssrf" BY <2>15, NodeFields
      <4> QED BY <2>7, <2>15, <2>16, <4>1 DEF OfKind
    <3>3. Target(h, Pivot) = Target(f, Pivot) BY <2>7, <2>15, <3>1 DEF OfKind
    <3>4. Target(h, Pivot) \in PublicEndpoints(h)
      <4>1. PICK s \in Public(f) : Target(f, Pivot) \in Dsts(f, "exposes", s) BY <2>7, <3>1 DEF PublicEndpoints
      <4>2. Target(f, Pivot) \in Dsts(h, "exposes", s) BY <2>15, <4>1, EndsOfLinks
      <4> QED BY <2>15, <3>3, <4>1, <4>2 DEF PublicEndpoints
    <3>5. h.nodes[Target(h, Pivot)].method = "GET"
      <4>1. Target(f, Pivot) \in DOMAIN f.nodes BY <2>7, <3>1, TargetIs DEF OfKind, Structured, by_kind
      <4> QED BY <2>7, <2>15, <3>1, <3>3, <4>1
    <3>6. Footed(h) BY <1>2, <2>7, <3>1, <3>2, <3>4, <3>5 DEF Footed
    <3>7. h.nodes[Pivot].params.host = host BY <2>5, <2>7, <2>15, <3>1 DEF OfKind, Vulns, by_kind
    <3>8. \A v \in OfKind(h, "metadata_credential_leak") : v = leak
      BY <1>2, <2>7, <2>15, <2>16 DEF OfKind, PathFlaws
    <3>9. Pivoted(h) BY <2>2, <2>7, <2>15, <2>17, <3>7, <3>8 DEF Pivoted, FlatGates
    <3> QED BY <3>6, <3>9 DEF Company
  <2>21. Public(h) # {} BY <1>3, <2>7, <2>15
  <2> QED BY <2>15, <2>17, <2>18, <2>19, <2>20, <2>21
<1> QED BY <1>4, <1>5


-----------------------------------------------------------------------------
(* What leaves a world's pivot and chain alone.                                    *)

KeptVulns(g) == {v \in Vulns(g) : g.nodes[v].flaw \in PathFlaws \cup {"ssrf"}}

Mild(g, h) ==
    /\ KeptVulns(h) = KeptVulns(g) /\ \A v \in KeptVulns(g) : h.nodes[v] = g.nodes[v]
    /\ \A v \in Vulns(g) \cap Vulns(h) : Target(h, v) = Target(g, v)
    /\ by_kind(h, "credential") = by_kind(g, "credential")
    /\ Internals(h) = Internals(g) /\ FlagServices(h) = FlagServices(g)
    /\ \A t \in by_kind(g, "endpoint") : h.nodes[t].path = g.nodes[t].path
    /\ Pivot \in Vulns(g) => h.nodes[Target(g, Pivot)].method = g.nodes[Target(g, Pivot)].method
    /\ PublicEndpoints(g) \subseteq PublicEndpoints(h)
    /\ Links(h, "requires_credential") = Links(g, "requires_credential")
    /\ Links(h, "enables") \subseteq Links(g, "enables")
    /\ \A l \in Links(g, "enables") : l.src \in KeptVulns(g) /\ l.dst \in KeptVulns(g) => l \in Links(h, "enables")

LEMMA EnablesEnds ==
    ASSUME NEW g, Framed(g), NEW l \in Links(g, "enables")
    PROVE  l.src \in Vulns(g) /\ l.dst \in Vulns(g)
<1>1. PICK e \in DOMAIN g.edges : g.edges[e] = l /\ g.edges[e].kind = "enables" BY DEF Links
<1>2. EdgeOK(g, l) /\ l.kind = "enables" BY <1>1 DEF Framed
<1> QED BY <1>2 DEF EdgeOK, SrcKind, DstKind, Vulns, by_kind

LEMMA SameEnds ==
    ASSUME NEW g, NEW h, NEW k, Links(h, k) = Links(g, k), NEW x
    PROVE  Dsts(h, k, x) = Dsts(g, k, x) /\ Srcs(h, k, x) = Srcs(g, k, x)
<1>1. PICK L : L = Links(g, k) OBVIOUS
<1>2. Dsts(g, k, x) = {l.dst : l \in {l \in L : l.src = x}} /\ Srcs(g, k, x) = {l.src : l \in {l \in L : l.dst = x}}
  BY <1>1, EndsOfLinks
<1>3. L = Links(h, k) BY <1>1
<1>4. Dsts(h, k, x) = {l.dst : l \in {l \in L : l.src = x}} /\ Srcs(h, k, x) = {l.src : l \in {l \in L : l.dst = x}}
  BY <1>3, EndsOfLinks
<1> QED BY <1>2, <1>4

LEMMA MildChain ==
    ASSUME NEW g, Framed(g), NEW h, Framed(h), Mild(g, h), Footed(g), NEW c \in Seq(Vulns(g)), Chain(g, c)
    PROVE  c \in Seq(Vulns(h)) /\ Chain(h, c)
<1>1. /\ KeptVulns(h) = KeptVulns(g) /\ \A v \in KeptVulns(g) : h.nodes[v] = g.nodes[v]
      /\ \A v \in Vulns(g) \cap Vulns(h) : Target(h, v) = Target(g, v)
      /\ Internals(h) = Internals(g) /\ FlagServices(h) = FlagServices(g)
      /\ \A t \in by_kind(g, "endpoint") : h.nodes[t].path = g.nodes[t].path
  BY DEF Mild
<1>2. ChainNodes(g, c) BY DEF Chain
<1>3. Len(c) \in Nat /\ Len(c) >= 2 /\ DOMAIN c = 1 .. Len(c) /\ \A i \in 1 .. Len(c) : c[i] \in Vulns(g)
  BY <1>2 DEF ChainNodes
<1>4. \A i \in 1 .. Len(c) : g.nodes[c[i]].flaw \in ChainFlaws
  <2>1. TAKE i \in 1 .. Len(c)
  <2>2. i = 1 \/ i = Len(c) \/ i \in 2 .. Len(c) - 1
    <3>1. PICK n \in Nat : n = Len(c) BY <1>3, Zenon
    <3> QED BY <3>1
  <2> QED BY <1>2, <1>3, <2>2, Zenon DEF ChainNodes, ChainFlaws, GateFlaws
<1>5. \A i \in 1 .. Len(c) : c[i] \in KeptVulns(g) BY <1>3, <1>4 DEF KeptVulns, PathFlaws
<1>6. KeptVulns(g) \subseteq Vulns(g) /\ KeptVulns(h) \subseteq Vulns(h) BY DEF KeptVulns
<1>7. \A i \in 1 .. Len(c) : /\ c[i] \in Vulns(h) /\ h.nodes[c[i]] = g.nodes[c[i]] /\ Target(h, c[i]) = Target(g, c[i])
  BY <1>1, <1>5, <1>6
<1>8. \A i \in 1 .. Len(c) : HostOf(h, c[i]) = HostOf(g, c[i]) BY <1>3, <1>7, HostIs
<1>9. c \in Seq(Vulns(h)) BY <1>3, <1>7
<1>10. Pivot \in KeptVulns(g) BY DEF Footed, OfKind, KeptVulns
<1>11. ChainNodes(h, c)
  <2>1. \A v \in Vulns(h) : h.nodes[v].flaw \in ChainFlaws => \E i \in 1 .. Len(c) : v = c[i]
    <3>1. TAKE v \in Vulns(h)
    <3>2. HAVE h.nodes[v].flaw \in ChainFlaws
    <3>3. v \in KeptVulns(h) BY <3>2 DEF KeptVulns, PathFlaws
    <3>4. v \in Vulns(g) /\ g.nodes[v].flaw \in ChainFlaws BY <1>1, <1>6, <3>2, <3>3
    <3> QED BY <1>2, <3>4 DEF ChainNodes
  <2>2. 1 \in 1 .. Len(c) /\ Len(c) \in 1 .. Len(c) /\ \A i \in 2 .. Len(c) - 1 : i \in 1 .. Len(c) BY <1>3
  <2> QED BY <1>2, <1>3, <1>7, <1>9, <2>1, <2>2 DEF ChainNodes
<1>12. ChainHosts(h, c)
  <2>1. ChainHosts(g, c) BY DEF Chain
  <2>2. Len(c) \in 1 .. Len(c) BY <1>3
  <2> QED BY <1>1, <1>8, <1>10, <2>1, <2>2 DEF ChainHosts
<1>13. ChainNames(h, c)
  <2>1. ChainNames(g, c) BY DEF Chain
  <2>2. ASSUME NEW i \in 1 .. Len(c) - 1
        PROVE  h.nodes[c[i]].params.host = HostOf(h, c[i + 1]) /\ Emitted(h, c[i]) = h.nodes[c[i + 1]].params.credential
    <3>1. i \in 1 .. Len(c) /\ i + 1 \in 1 .. Len(c) BY <1>3
    <3>2. Emitted(h, c[i]) = Emitted(g, c[i]) BY <1>7, <3>1 DEF Emitted
    <3> QED BY <1>7, <1>8, <2>1, <3>1, <3>2 DEF ChainNames
  <2> QED BY <2>2 DEF ChainNames
<1>14. ChainCreds(h, c)
  <2>1. ChainCreds(g, c) BY DEF Chain
  <2>2. by_kind(h, "credential") = by_kind(g, "credential") /\ Links(h, "requires_credential") = Links(g, "requires_credential")
    BY DEF Mild
  <2>3. \A x : Dsts(h, "requires_credential", x) = Dsts(g, "requires_credential", x) BY <2>2, SameEnds
  <2>4. \A i \in 2 .. Len(c) : i \in 1 .. Len(c) BY <1>3
  <2>5. \A i \in 2 .. Len(c) : h.nodes[Target(h, c[i])].path = g.nodes[Target(g, c[i])].path
    <3>1. TAKE i \in 2 .. Len(c)
    <3>2. Target(g, c[i]) \in by_kind(g, "endpoint") BY <1>3, <2>4, TargetIs
    <3> QED BY <1>1, <1>7, <2>4, <3>2
  <2>6. \A i \in 2 .. Len(c) : Target(h, c[i]) = Target(g, c[i]) BY <1>7, <2>4
  <2> QED BY <2>1, <2>2, <2>3, <2>5, <2>6 DEF ChainCreds
<1>15. ChainLinks(h, c)
  <2>1. ChainLinks(g, c) BY DEF Chain
  <2>2. Links(h, "enables") \subseteq Links(g, "enables") BY DEF Mild
  <2>3. ASSUME NEW e \in Links(h, "enables"), h.nodes[e.dst].flaw \in GateFlaws
        PROVE  \E i \in 1 .. Len(c) - 1 : e.src = c[i] /\ e.dst = c[i + 1]
    <3>1. e \in Links(g, "enables") /\ e.dst \in Vulns(h) BY <2>2, EnablesEnds
    <3>2. e.dst \in KeptVulns(h) BY <2>3, <3>1 DEF KeptVulns, PathFlaws, ChainFlaws
    <3>3. g.nodes[e.dst].flaw \in GateFlaws BY <1>1, <2>3, <3>2
    <3> QED BY <2>1, <3>1, <3>3 DEF ChainLinks
  <2>4. ASSUME NEW i \in 1 .. Len(c) - 1 PROVE Edge("enables", c[i], c[i + 1]) \in Links(h, "enables")
    <3>1. i \in 1 .. Len(c) /\ i + 1 \in 1 .. Len(c) BY <1>3
    <3>2. Edge("enables", c[i], c[i + 1]) \in Links(g, "enables") BY <2>1 DEF ChainLinks
    <3>3. c[i] \in KeptVulns(g) /\ c[i + 1] \in KeptVulns(g) BY <1>5, <3>1
    <3> QED BY <3>2, <3>3, EdgeFields DEF Mild
  <2> QED BY <2>3, <2>4 DEF ChainLinks
<1>16. VaultsAside(h)
  <2>1. VaultsAside(g) BY DEF Chain
  <2>2. SUFFICES ASSUME NEW e \in Links(h, "enables"), NEW v \in Vulns(h), v \in {e.src, e.dst},
                        h.nodes[Target(h, v)].path = "vault"
                 PROVE  h.nodes[v].flaw \in GateFlaws
    BY DEF VaultsAside
  <2>3. e \in Links(g, "enables") BY DEF Mild
  <2>4. v \in Vulns(g) BY <2>2, <2>3, EnablesEnds
  <2>5. Target(h, v) = Target(g, v) /\ Target(g, v) \in by_kind(g, "endpoint") BY <1>1, <2>4, TargetIs
  <2>6. g.nodes[Target(g, v)].path = "vault" BY <1>1, <2>2, <2>5
  <2>7. g.nodes[v].flaw \in GateFlaws BY <2>1, <2>2, <2>3, <2>4, <2>6 DEF VaultsAside
  <2>8. v \in KeptVulns(g) BY <2>4, <2>7 DEF KeptVulns, PathFlaws, ChainFlaws
  <2> QED BY <1>1, <2>7, <2>8
<1> QED BY <1>9, <1>11, <1>12, <1>13, <1>14, <1>15, <1>16 DEF Chain

LEMMA MildKeeps ==
    ASSUME NEW g, Framed(g), NEW h, Framed(h), Mild(g, h), Company(g)
    PROVE  Company(h)
<1>1. /\ KeptVulns(h) = KeptVulns(g) /\ \A v \in KeptVulns(g) : h.nodes[v] = g.nodes[v]
      /\ \A v \in Vulns(g) \cap Vulns(h) : Target(h, v) = Target(g, v)
      /\ Internals(h) = Internals(g) /\ FlagServices(h) = FlagServices(g)
  BY DEF Mild
<1>2. KeptVulns(g) \subseteq Vulns(g) /\ KeptVulns(h) \subseteq Vulns(h) BY DEF KeptVulns
<1>3. Footed(g) BY DEF Company
<1>4. Pivot \in KeptVulns(g) /\ Pivot \in Vulns(g) /\ Pivot \in Vulns(h) BY <1>1, <1>2, <1>3 DEF Footed, OfKind, KeptVulns
<1>5. ASSUME NEW flaw \in PathFlaws \cup {"ssrf"} PROVE OfKind(h, flaw) = OfKind(g, flaw)
  <2>1. OfKind(h, flaw) = {v \in KeptVulns(h) : h.nodes[v].flaw = flaw} BY <1>5 DEF OfKind, KeptVulns
  <2>2. OfKind(g, flaw) = {v \in KeptVulns(g) : g.nodes[v].flaw = flaw} BY <1>5 DEF OfKind, KeptVulns
  <2> QED BY <1>1, <2>1, <2>2
<1>6. Footed(h)
  <2>1. OfKind(h, "ssrf") = OfKind(g, "ssrf") BY <1>5
  <2>2. Target(h, Pivot) = Target(g, Pivot) BY <1>1, <1>4
  <2>3. Target(h, Pivot) \in PublicEndpoints(h) /\ h.nodes[Target(h, Pivot)].method = "GET"
    BY <1>3, <1>4, <2>2 DEF Footed, Mild
  <2> QED BY <1>3, <2>1, <2>3 DEF Footed
<1>7. CASE Pivoted(g)
  <2>1. \A v \in Vulns(h) : h.nodes[v].flaw \notin ChainFlaws
    <3>1. ASSUME NEW v \in Vulns(h), h.nodes[v].flaw \in ChainFlaws PROVE FALSE
      <4>1. v \in KeptVulns(h) BY <3>1 DEF KeptVulns, PathFlaws
      <4>2. v \in Vulns(g) /\ g.nodes[v].flaw \in ChainFlaws BY <1>1, <1>2, <3>1, <4>1
      <4> QED BY <1>7, <4>2 DEF Pivoted
    <3> QED BY <3>1
  <2>2. ASSUME NEW v \in OfKind(h, "metadata_credential_leak")
        PROVE  FlagServices(h) = {HostOf(h, v)} /\ h.nodes[Pivot].params.host = HostOf(h, v)
    <3>1. v \in OfKind(g, "metadata_credential_leak") BY <1>5 DEF PathFlaws
    <3>2. v \in Vulns(g) /\ v \in Vulns(h) BY <3>1 DEF OfKind
    <3>3. HostOf(h, v) = HostOf(g, v) BY <1>1, <3>2, HostIs
    <3> QED BY <1>1, <1>4, <1>7, <3>1, <3>3 DEF Pivoted
  <2>3. Pivoted(h) BY <2>1, <2>2 DEF Pivoted
  <2> QED BY <1>6, <2>3 DEF Company
<1>8. CASE \E c \in Seq(Vulns(g)) : Chain(g, c)
  <2>1. PICK c \in Seq(Vulns(g)) : Chain(g, c) BY <1>8
  <2>2. c \in Seq(Vulns(h)) /\ Chain(h, c) BY <1>3, <2>1, MildChain
  <2> QED BY <1>6, <2>2 DEF Company
<1> QED BY <1>7, <1>8 DEF Company


-----------------------------------------------------------------------------
(* A public endpoint that names the internal hosts is aside of what a world is     *)
(* solved by.                                                                     *)

LEMMA AnnexIsMild ==
    ASSUME NEW g, Structured(g), NEW h, NEW s, NEW ep, NEW v, Annexes(g, h, s, ep, v, {}),
           h.nodes[v].flaw \notin PathFlaws \cup {"ssrf"}
    PROVE  Mild(g, h)
<1>1. /\ Structured(h) /\ Vulns(h) = Vulns(g) \cup {v} /\ DOMAIN h.nodes = DOMAIN g.nodes \cup {ep, v}
      /\ \A n \in DOMAIN g.nodes : h.nodes[n] = g.nodes[n]
      /\ \A w \in Vulns(g) : Target(h, w) = Target(g, w)
      /\ by_kind(h, "credential") = by_kind(g, "credential")
      /\ Public(h) = Public(g) /\ Internals(h) = Internals(g) /\ FlagServices(h) = FlagServices(g)
      /\ Links(g, "exposes") \subseteq Links(h, "exposes")
  BY DEF Annexes
<1>8. Links(h, "requires_credential") = Links(g, "requires_credential") BY DEF Annexes
<1>9. Links(h, "enables") = Links(g, "enables")
  <2>1. Links(h, "enables") = Links(g, "enables") \cup {Edge("enables", e[3], e[4]) : e \in {}} BY DEF Annexes
  <2>2. {Edge("enables", e[3], e[4]) : e \in {}} = {} OBVIOUS
  <2> QED BY <2>1, <2>2
<1>2. \A w \in Vulns(g) : h.nodes[w] = g.nodes[w] BY <1>1 DEF Vulns, by_kind
<1>3. KeptVulns(h) = KeptVulns(g) BY <1>1, <1>2 DEF KeptVulns
<1>4. \A w \in KeptVulns(g) : h.nodes[w] = g.nodes[w] BY <1>2 DEF KeptVulns
<1>5. PublicEndpoints(g) \subseteq PublicEndpoints(h)
  <2>1. ASSUME NEW t \in PublicEndpoints(g) PROVE t \in PublicEndpoints(h)
    <3>1. PICK p \in Public(g) : t \in Dsts(g, "exposes", p) BY DEF PublicEndpoints
    <3>2. t \in Dsts(h, "exposes", p) BY <1>1, <3>1, EndsOfLinks
    <3> QED BY <1>1, <3>1, <3>2 DEF PublicEndpoints
  <2> QED BY <2>1
<1>6. \A t \in by_kind(g, "endpoint") : h.nodes[t] = g.nodes[t] BY <1>1 DEF by_kind
<1>7. Pivot \in Vulns(g) => h.nodes[Target(g, Pivot)] = g.nodes[Target(g, Pivot)]
  BY <1>6, TargetIs DEF Structured
<1> QED BY <1>1, <1>3, <1>4, <1>5, <1>6, <1>7, <1>8, <1>9 DEF Mild

LEMMA ReconIs ==
    ASSUME NEW g, Structured(g), Sampled(g), Secluded(g), Public(g) # {},
           \A t \in DOMAIN g.nodes : t \in EndpointIds => t[3] # "recon",
           \A v \in DOMAIN g.nodes : v \in VulnIds => v[2] # "config_disclosure",
           NEW h, h = _add_recon_disclosure(g)
    PROVE  /\ Structured(h) /\ Secluded(h) /\ Sampled(h)
           /\ FlatGates(g) => FlatGates(h)
           /\ Company(g) => Company(h)
           /\ \A v \in Vulns(g) : v \in Vulns(h) /\ Affecting(h, v) = Affecting(g, v)
<1>1. CASE OfKind(g, "ssrf") = {} \/ Internals(g) = {}
  <2>1. h = g BY <1>1 DEF _add_recon_disclosure
  <2> QED BY <2>1
<1>2. CASE ~(OfKind(g, "ssrf") = {} \/ Internals(g) = {})
  <2>1. PICK s : s = PublicService(g) OBVIOUS
  <2>2. s \in Public(g) BY <2>1 DEF PublicService
  <2>3. PICK ep : ep = <<"ep", s[2], "recon">> OBVIOUS
  <2>4. PICK tells : tells = <<"vuln", "config_disclosure", 0>> OBVIOUS
  <2>5. h = Annexed(g, s, "recon", "config_disclosure", Params, {})
    <3>1. h = WithEdges(WithNodes(g, Overridden(Single(ep, Endpoint("recon")),
                                                Single(tells, Vuln("config_disclosure", Params)))),
                        {SampledEdge("exposes", s, ep), SampledEdge("affects", tells, ep)})
      BY <1>2, <2>1, <2>3, <2>4 DEF _add_recon_disclosure
    <3>2. {SampledEdge("exposes", s, ep), SampledEdge("affects", tells, ep)}
          = {SampledEdge("exposes", s, ep), SampledEdge("affects", tells, ep)} \cup {}
      OBVIOUS
    <3> QED BY <2>3, <2>4, <3>1, <3>2, Zenon DEF Annexed
  <2>6. s \in by_kind(g, "service") BY <2>2 DEF Public
  <2>7. Fresh(g, ep, tells, {})
    <3>1. s[2] \in Nat BY <2>6, KindSets DEF Structured, Framed, ServiceIds
    <3>2. ep \in EndpointIds /\ ep[3] = "recon" BY <2>3, <3>1 DEF EndpointIds, Paths
    <3>3. tells \in VulnIds /\ tells[2] = "config_disclosure" BY <2>4 DEF VulnIds, Flaws, CATALOG
    <3> QED BY <3>2, <3>3 DEF Fresh
  <2>8. "recon" \in Paths /\ "config_disclosure" \in Flaws BY DEF Paths, Flaws, CATALOG
  <2>9. Params \in ParamSet BY ParamsIs
  <2>10. Annexes(g, h, s, ep, tells, {}) /\ h.nodes[tells] = Vuln("config_disclosure", Params)
    <3>1. PICK path, flaw, given, more : path = "recon" /\ flaw = "config_disclosure" /\ given = Params /\ more = {} OBVIOUS
    <3>2. path \in Paths /\ flaw \in Flaws /\ given \in ParamSet BY <2>8, <2>9, <3>1
    <3>3. ep = <<"ep", s[2], path>> /\ tells = <<"vuln", flaw, 0>> BY <2>3, <2>4, <3>1
    <3>4. h = Annexed(g, s, path, flaw, given, more) /\ Fresh(g, ep, tells, more) BY <2>5, <2>7, <3>1
    <3>5. Annexes(g, h, s, ep, tells, more) /\ h.nodes[tells] = Vuln(flaw, given)
      BY <2>6, <3>2, <3>3, <3>4, AnnexedIs
    <3> QED BY <3>1, <3>5
  <2>11. h.nodes[tells].flaw = "config_disclosure" BY <2>10, NodeFields
  <2>12. /\ Structured(h) /\ Secluded(h) /\ Sampled(h) /\ Vulns(h) = Vulns(g) \cup {tells}
         /\ \A v \in Vulns(g) : Affecting(h, v) = Affecting(g, v)
         /\ \A n \in DOMAIN g.nodes : h.nodes[n] = g.nodes[n]
    BY <2>10 DEF Annexes
  <2>13. Mild(g, h)
    <3>1. h.nodes[tells].flaw \notin PathFlaws \cup {"ssrf"} BY <2>11 DEF PathFlaws, ChainFlaws, GateFlaws
    <3> QED BY <2>10, <3>1, AnnexIsMild
  <2>14. Company(g) => Company(h) BY <2>12, <2>13, MildKeeps DEF Structured
  <2>15. FlatGates(g) => FlatGates(h)
    <3>1. \A v \in Vulns(g) : h.nodes[v] = g.nodes[v] BY <2>12 DEF Vulns, by_kind
    <3> QED BY <2>11, <2>12, <3>1 DEF FlatGates, ChainFlaws, GateFlaws
  <2> QED BY <2>12, <2>14, <2>15
<1> QED BY <1>1, <1>2

-----------------------------------------------------------------------------
(* What changes the values of nodes alone.                                         *)

Revalued(g, h) ==
    /\ DOMAIN h = {"nodes", "edges"} /\ h.edges = g.edges /\ DOMAIN h.nodes = DOMAIN g.nodes
    /\ \A n \in DOMAIN h.nodes : NodeOK(n, h.nodes[n])
    /\ \A n \in DOMAIN g.nodes : n \in ServiceIds \cup EndpointIds \cup StoreIds => h.nodes[n] = g.nodes[n]
    /\ \A v \in Vulns(g) : /\ h.nodes[v].flaw = g.nodes[v].flaw
                           /\ h.nodes[v].params.host = g.nodes[v].params.host
                           /\ h.nodes[v].params.hosts = g.nodes[v].params.hosts

(* Everything that is read of a world but its values.                               *)
SameRead(g, h) ==
    /\ \A kind : by_kind(h, kind) = by_kind(g, kind)
    /\ \A flaw : OfKind(h, flaw) = OfKind(g, flaw)
    /\ \A kind : Links(h, kind) = Links(g, kind)
    /\ Vulns(h) = Vulns(g) /\ Affects(h) = Affects(g)
    /\ \A v : Affecting(h, v) = Affecting(g, v)
    /\ \A v : Target(h, v) = Target(g, v) /\ HostOf(h, v) = HostOf(g, v)
    /\ Public(h) = Public(g) /\ Internals(h) = Internals(g) /\ PublicEndpoints(h) = PublicEndpoints(g)
    /\ _flag_store(h) = _flag_store(g) /\ FlagServices(h) = FlagServices(g)

LEMMA RevaluedIs ==
    ASSUME NEW g, Structured(g), NEW h, Revalued(g, h)
    PROVE  /\ Structured(h) /\ SameRead(g, h)
           /\ Sampled(g) => Sampled(h)
           /\ Secluded(g) => Secluded(h)
<1>1. /\ DOMAIN h = {"nodes", "edges"} /\ h.edges = g.edges /\ DOMAIN h.nodes = DOMAIN g.nodes
      /\ \A n \in DOMAIN h.nodes : NodeOK(n, h.nodes[n])
      /\ \A n \in DOMAIN g.nodes : n \in ServiceIds \cup EndpointIds \cup StoreIds => h.nodes[n] = g.nodes[n]
      /\ \A v \in Vulns(g) : h.nodes[v].flaw = g.nodes[v].flaw
  BY DEF Revalued
<1>2. \A n \in DOMAIN g.nodes : NodeOK(n, g.nodes[n]) BY DEF Structured, Framed
<1>3. \A n \in DOMAIN g.nodes : h.nodes[n].kind = g.nodes[n].kind BY <1>1, <1>2, SameKind
<1>4. \A kind : by_kind(h, kind) = by_kind(g, kind) BY <1>1, <1>3 DEF by_kind
<1>5. Vulns(h) = Vulns(g) BY <1>4 DEF Vulns
<1>6. \A flaw : OfKind(h, flaw) = OfKind(g, flaw) BY <1>1, <1>5 DEF OfKind
<1>7. Affects(h) = Affects(g) BY <1>1 DEF Affects
<1>8. \A v : Affecting(h, v) = Affecting(g, v) BY <1>1, <1>7 DEF Affecting
<1>9. \A kind : Links(h, kind) = Links(g, kind) BY <1>1 DEF Links
<1>10. \A kind, x : Dsts(h, kind, x) = Dsts(g, kind, x) /\ Srcs(h, kind, x) = Srcs(g, kind, x)
  BY <1>1 DEF Dsts, Srcs
<1>11. \A v : Target(h, v) = Target(g, v) BY <1>10 DEF Target
<1>12. \A v : HostOf(h, v) = HostOf(g, v) BY <1>10, <1>11 DEF HostOf
<1>13. \A s \in by_kind(g, "service") : h.nodes[s] = g.nodes[s] BY <1>1, <1>2, KindSets
<1>14. Public(h) = Public(g) BY <1>4, <1>13 DEF Public
<1>15. Internals(h) = Internals(g) BY <1>4, <1>14 DEF Internals
<1>16. PublicEndpoints(h) = PublicEndpoints(g) BY <1>10, <1>14 DEF PublicEndpoints
<1>17. _flag_store(h) = _flag_store(g) BY <1>10 DEF _flag_store
<1>18. FlagServices(h) = FlagServices(g) BY <1>10, <1>17 DEF FlagServices
<1>19. \A e \in DOMAIN h.edges : EdgeOK(h, h.edges[e]) BY <1>1, <1>3 DEF Structured, Framed, EdgeOK
<1>20. Framed(h) BY <1>1, <1>4, <1>5, <1>7, <1>8, <1>10, <1>19 DEF Structured, Framed, Housed
<1>21. Structured(h)
  <2>1. record_id \in DOMAIN h.nodes /\ flag_id \in DOMAIN h.nodes BY <1>1 DEF Structured, Homed
  <2> QED BY <1>9, <1>20, <2>1, SameHome
<1>22. Sampled(g) => Sampled(h) BY <1>1 DEF Sampled
<1>23. Secluded(g) => Secluded(h) BY <1>1, <1>5, <1>7, <1>8 DEF Secluded
<1> QED BY <1>4, <1>5, <1>6, <1>7, <1>8, <1>9, <1>11, <1>12, <1>14, <1>15, <1>16, <1>17, <1>18, <1>21, <1>22, <1>23
     DEF SameRead

LEMMA Commute ==
    ASSUME NEW g, DOMAIN g = {"nodes", "edges"}, NEW nodes, NEW ids
    PROVE  WithEdges(WithNodes(g, nodes), ids) = WithNodes(WithEdges(g, ids), nodes)
<1>1. PICK x : x = Overridden(g.nodes, nodes) OBVIOUS
<1>2. PICK y : y = Overridden(g.edges, EdgesOf(ids)) OBVIOUS
<1>3. WithNodes(g, nodes) = [g EXCEPT !.nodes = x] BY <1>1, Zenon DEF WithNodes
<1>4. WithEdges(g, ids) = [g EXCEPT !.edges = y] BY <1>2, Zenon DEF WithEdges
<1>5. [g EXCEPT !.nodes = x].edges = g.edges /\ [g EXCEPT !.edges = y].nodes = g.nodes OBVIOUS
<1>6. WithEdges(WithNodes(g, nodes), ids) = [[g EXCEPT !.nodes = x] EXCEPT !.edges = y]
  BY <1>2, <1>3, <1>5, Zenon DEF WithEdges
<1>7. WithNodes(WithEdges(g, ids), nodes) = [[g EXCEPT !.edges = y] EXCEPT !.nodes = x]
  BY <1>1, <1>4, <1>5, Zenon DEF WithNodes
<1>8. [[g EXCEPT !.nodes = x] EXCEPT !.edges = y] = [[g EXCEPT !.edges = y] EXCEPT !.nodes = x] OBVIOUS
<1> QED BY <1>6, <1>7, <1>8

(* The record of the flag holds something else.                                    *)
LEMMA DecoyIs ==
    ASSUME NEW g, Structured(g), NEW value \in Values,
           NEW h, h = WithNodes(g, Single(record_id, Holder("record", value)))
    PROVE  /\ Revalued(g, h) /\ \A n \in DOMAIN g.nodes : n # record_id => h.nodes[n] = g.nodes[n]
<1>1. PICK r : r = Holder("record", value) OBVIOUS
<1>2. PICK m : m = Single(record_id, r) OBVIOUS
<1>3. DOMAIN m = {record_id} /\ m[record_id] = r BY <1>2, SingleIs
<1>4. DOMAIN g = {"nodes", "edges"} /\ record_id \in DOMAIN g.nodes /\ \A n \in DOMAIN g.nodes : NodeOK(n, g.nodes[n])
  BY DEF Structured, Framed, Homed
<1>5. /\ DOMAIN h = {"nodes", "edges"} /\ h.edges = g.edges /\ DOMAIN h.nodes = DOMAIN g.nodes \cup {record_id}
      /\ h.nodes[record_id] = r /\ \A n \in DOMAIN g.nodes \ {record_id} : h.nodes[n] = g.nodes[n]
  <2>1. h = WithNodes(g, m) BY <1>1, <1>2
  <2> QED BY <1>3, <1>4, <2>1, WithNodesIs
<1>6. NodeOK(record_id, r) BY <1>1 DEF NodeOK, Holder, HolderNodes
<1>7. \A n \in DOMAIN h.nodes : NodeOK(n, h.nodes[n]) BY <1>4, <1>5, <1>6
<1>8. record_id \notin ServiceIds \cup EndpointIds \cup StoreIds \cup VulnIds
  BY DEF record_id, ServiceIds, EndpointIds, StoreIds, VulnIds
<1>9. \A v \in Vulns(g) : v \in DOMAIN g.nodes /\ v # record_id BY <1>4, <1>8, KindSets
<1> QED BY <1>4, <1>5, <1>7, <1>8, <1>9 DEF Revalued


-----------------------------------------------------------------------------
(* The internal hosts other than the flag's, in the order of their tiers.           *)

LEMMA OthersIs ==
    ASSUME NEW g, Structured(g), NEW hosts, hosts = Internals(g) \ FlagServices(g), NEW seq, seq = Others(g)
    PROVE  /\ seq \in Seq(hosts) /\ Len(seq) = Cardinality(hosts) /\ Len(seq) \in Nat
           /\ hosts # {} => Len(seq) >= 1
           /\ \A i, j \in 1 .. Len(seq) : seq[i] = seq[j] => i = j
<1> DEFINE R == {p \in hosts \X hosts : Inward(g, p[1], p[2])}
           n == Cardinality(hosts)
           rank(x) == CASE g.nodes[x].tier = "db" -> 4 [] g.nodes[x].tier = "auth" -> 3 [] OTHER -> 2
<1>1. hosts \subseteq ServiceIds BY KindSets DEF Internals, Structured, Framed
<1>2. IsFiniteSet(hosts)
  <2>1. hosts \in SUBSET DOMAIN g.nodes BY DEF Internals, by_kind
  <2> QED BY <2>1, FS_Subset DEF Structured, Framed
<1>3. \A x : rank(x) \in Nat OBVIOUS
<1>4. \A x, y : Inward(g, x, y) <=> (rank(x) < rank(y) \/ (rank(x) = rank(y) /\ x[2] < y[2])) BY DEF Inward
<1>5. \A x \in hosts : x[2] \in Nat /\ x = <<"svc", x[2]>> BY <1>1 DEF ServiceIds
<1> HIDE DEF rank
<1>6. ASSUME NEW x \in hosts PROVE ~Inward(g, x, x) BY <1>3, <1>4, <1>5
<1>7. ASSUME NEW x \in hosts, NEW y \in hosts, NEW z \in hosts, Inward(g, x, y), Inward(g, y, z) PROVE Inward(g, x, z)
  <2>1. rank(x) \in Nat /\ rank(y) \in Nat /\ rank(z) \in Nat /\ x[2] \in Nat /\ y[2] \in Nat /\ z[2] \in Nat
    BY <1>3, <1>5
  <2> QED BY <1>4, <1>7, <2>1
<1>8. ASSUME NEW x \in hosts, NEW y \in hosts, x # y PROVE Inward(g, x, y) \/ Inward(g, y, x)
  <2>1. rank(x) \in Nat /\ rank(y) \in Nat /\ x[2] \in Nat /\ y[2] \in Nat /\ x[2] # y[2] BY <1>3, <1>5, <1>8
  <2> QED BY <1>4, <2>1
<1>9. StrictOrder(R, hosts) BY <1>6, <1>7, <1>8 DEF StrictOrder
<1>10. \E s \in [1 .. n -> hosts] : \A i, j \in DOMAIN s : i < j => <<s[i], s[j]>> \in R
  <2> HIDE DEF R
  <2> QED BY <1>2, <1>9, SortedExists
<1>11. \E s \in [1 .. n -> hosts] : \A i, j \in DOMAIN s : i < j => Inward(g, s[i], s[j]) BY <1>10
<1>12. seq \in [1 .. n -> hosts] /\ \A i, j \in DOMAIN seq : i < j => Inward(g, seq[i], seq[j])
  <2>1. seq = CHOOSE s \in [1 .. n -> hosts] : \A i, j \in DOMAIN s : i < j => Inward(g, s[i], s[j]) BY DEF Others
  <2> QED BY <1>11, <2>1
<1>13. n \in Nat BY <1>2, FS_CardinalityType
<1>14. hosts # {} => n >= 1
  <2>1. hosts # {} => n # 0 BY <1>2, FS_EmptySet
  <2> QED BY <1>13, <2>1
<1> HIDE DEF n
<1>15. seq \in Seq(hosts) /\ Len(seq) = n /\ DOMAIN seq = 1 .. n BY <1>12, <1>13
<1>16. \A i, j \in 1 .. n : seq[i] = seq[j] => i = j
  <2>1. SUFFICES ASSUME NEW i \in 1 .. n, NEW j \in 1 .. n, seq[i] = seq[j], i # j PROVE FALSE OBVIOUS
  <2>2. i < j \/ j < i BY <1>13, <2>1
  <2>3. seq[i] \in hosts /\ seq[j] \in hosts BY <1>12, <1>15
  <2> QED BY <1>6, <1>12, <1>15, <2>1, <2>2, <2>3
<1> QED BY <1>13, <1>14, <1>15, <1>16 DEF n

LEMMA DepthIs ==
    ASSUME NEW g, Structured(g), NEW p, NEW depth \in Depths(g, p)
    PROVE  depth \in 1 .. Len(Others(g)) /\ depth \in Nat
<1>1. PICK n : n = Len(Others(g)) /\ n \in Nat BY OthersIs
<1>2. Min({3, n}) \in {3, n} /\ Min({3, n}) <= n
  <2>1. \E x \in {3, n} : \A y \in {3, n} : x <= y BY <1>1
  <2> QED BY <1>1, <2>1 DEF Min
<1>3. depth \in 1 .. Min({3, n}) BY <1>1, <1>2 DEF Depths
<1> QED BY <1>1, <1>2, <1>3

-----------------------------------------------------------------------------
(* The gates of a chain.                                                           *)

VaultAt(hosts, j) == <<"ep", hosts[j][2], "vault">>
CredAt(j) == <<"cred", j - 1>>
GateBefore(hosts, leak, j) == IF j = 1 THEN leak ELSE GateVuln(hosts, j - 1)

LEMMA GateIs ==
    ASSUME NEW hosts, NEW n \in Nat, n = Len(hosts)
    PROVE  /\ \A j \in 1 .. n : /\ GateVuln(hosts, j) \in VulnIds
                                /\ GateVuln(hosts, j)[2] = IF j = n THEN "credential_gated_flag" ELSE "credential_gated_relay"
           /\ \A i, j \in 1 .. n : GateVuln(hosts, i) = GateVuln(hosts, j) => i = j
<1>1. \A j \in 1 .. n : GateVuln(hosts, j) = IF j = n THEN <<"vuln", "credential_gated_flag", 0>>
                                             ELSE <<"vuln", "credential_gated_relay", j - 1>>
  BY DEF GateVuln
<1>2. "credential_gated_flag" \in Flaws /\ "credential_gated_relay" \in Flaws BY DEF Flaws, CATALOG
<1>3. \A j \in 1 .. n : GateVuln(hosts, j) \in VulnIds
  <2>1. TAKE j \in 1 .. n
  <2>2. CASE j = n BY <1>1, <1>2, <2>2 DEF VulnIds
  <2>3. CASE j # n
    <3>1. j - 1 \in Nat OBVIOUS
    <3> QED BY <1>1, <1>2, <2>3, <3>1 DEF VulnIds
  <2> QED BY <2>2, <2>3
<1>4. \A j \in 1 .. n : GateVuln(hosts, j)[2] = IF j = n THEN "credential_gated_flag" ELSE "credential_gated_relay"
  BY <1>1
<1>5. \A j \in 1 .. n : j # n => GateVuln(hosts, j)[3] = j - 1 BY <1>1
<1>6. ASSUME NEW i \in 1 .. n, NEW j \in 1 .. n, GateVuln(hosts, i) = GateVuln(hosts, j) PROVE i = j
  <2>1. i = n <=> j = n BY <1>4, <1>6
  <2>2. i # n => i - 1 = j - 1 BY <1>5, <1>6, <2>1
  <2> QED BY <2>1, <2>2
<1> QED BY <1>3, <1>4, <1>6

LEMMA GateParamsIs ==
    ASSUME NEW hosts, NEW n \in Nat, n = Len(hosts), \A j \in 1 .. n : hosts[j] \in ServiceIds, NEW j \in 1 .. n
    PROVE  /\ GateParams(hosts, j) \in ParamSet
           /\ GateParams(hosts, j).credential = <<"token", j, 0>>
           /\ j # n => /\ GateParams(hosts, j).next_credential = <<"token", j + 1, 0>>
                       /\ GateParams(hosts, j).host = hosts[j + 1]
<1>1. <<"token", j, 0>> \in Values /\ <<"token", j + 1, 0>> \in Values BY DEF Values
<1>2. Params \in ParamSet BY ParamsIs
<1>3. CASE j = n
  <2>1. GateParams(hosts, j) = [Params EXCEPT !.credential = <<"token", j, 0>>] BY <1>3 DEF GateParams
  <2> QED BY <1>1, <1>2, <1>3, <2>1 DEF ParamSet
<1>4. CASE j # n
  <2>1. GateParams(hosts, j) = [Params EXCEPT !.credential = <<"token", j, 0>>, !.next_credential = <<"token", j + 1, 0>>,
                                              !.host = hosts[j + 1]]
    BY <1>4 DEF GateParams
  <2>2. hosts[j + 1] \in ServiceIds BY <1>4
  <2> QED BY <1>1, <1>2, <1>4, <2>1, <2>2 DEF ParamSet
<1> QED BY <1>3, <1>4


CredsOf(hosts) == {CredAt(j) : j \in 1 .. Len(hosts)}
VaultsOf(hosts) == {VaultAt(hosts, j) : j \in 1 .. Len(hosts)}
GatesOf(hosts) == {GateVuln(hosts, j) : j \in 1 .. Len(hosts)}

LinksAt(hosts, leak, j) ==
    {SampledEdge("exposes", hosts[j], VaultAt(hosts, j)), SampledEdge("affects", GateVuln(hosts, j), VaultAt(hosts, j)),
     SampledEdge("enables", GateBefore(hosts, leak, j), GateVuln(hosts, j)),
     SampledEdge("requires_credential", VaultAt(hosts, j), CredAt(j)),
     SampledEdge("produces", GateBefore(hosts, leak, j), CredAt(j))}
LinksOf(hosts, leak) == UNION {LinksAt(hosts, leak, j) : j \in 1 .. Len(hosts)}

(* The nodes of the gates.                                                         *)
GatesMade(h, hosts) ==
    \A j \in 1 .. Len(hosts) :
        /\ h.nodes[CredAt(j)] = Holder("credential", <<"token", j, 0>>)
        /\ h.nodes[VaultAt(hosts, j)] = Endpoint("vault")
        /\ h.nodes[GateVuln(hosts, j)] = Vuln(GateVuln(hosts, j)[2], GateParams(hosts, j))

LEMMA ChainedParts ==
    ASSUME NEW g, DOMAIN g = {"nodes", "edges"}, NEW leak, NEW hosts, NEW n \in Nat, n = Len(hosts),
           \A j \in 1 .. n : hosts[j] \in ServiceIds,
           NEW h, h = Chained(g, leak, hosts)
    PROVE  /\ DOMAIN h = {"nodes", "edges"}
           /\ DOMAIN h.nodes = DOMAIN g.nodes \cup CredsOf(hosts) \cup VaultsOf(hosts) \cup GatesOf(hosts)
           /\ GatesMade(h, hosts)
           /\ \A m \in DOMAIN g.nodes : m \notin CredsOf(hosts) \cup VaultsOf(hosts) \cup GatesOf(hosts) => h.nodes[m] = g.nodes[m]
           /\ DOMAIN h.edges = DOMAIN g.edges \cup LinksOf(hosts, leak)
           /\ \A e \in LinksOf(hosts, leak) : h.edges[e] = Edge(e[2], e[3], e[4])
           /\ \A e \in DOMAIN g.edges \ LinksOf(hosts, leak) : h.edges[e] = g.edges[e]
<1> DEFINE index(v) == CHOOSE j \in 1 .. n : GateVuln(hosts, j) = v
           creds == [c \in CredsOf(hosts) |-> Holder("credential", <<"token", c[2] + 1, 0>>)]
           vaults == [e \in VaultsOf(hosts) |-> Endpoint("vault")]
           gates == [v \in GatesOf(hosts) |-> Vuln(v[2], GateParams(hosts, index(v)))]
           nodes == Overridden(Overridden(creds, vaults), gates)
<1>1. h = WithEdges(WithNodes(g, nodes), LinksOf(hosts, leak))
  BY DEF Chained, CredsOf, VaultsOf, GatesOf, LinksOf, LinksAt, CredAt, VaultAt, GateBefore
<1>2. \A j \in 1 .. n : index(GateVuln(hosts, j)) = j BY GateIs
<1>3. /\ DOMAIN creds = CredsOf(hosts) /\ DOMAIN vaults = VaultsOf(hosts) /\ DOMAIN gates = GatesOf(hosts)
      /\ \A v \in GatesOf(hosts) : gates[v] = Vuln(v[2], GateParams(hosts, index(v)))
      /\ \A c \in CredsOf(hosts) : creds[c] = Holder("credential", <<"token", c[2] + 1, 0>>)
      /\ \A e \in VaultsOf(hosts) : vaults[e] = Endpoint("vault")
  OBVIOUS
<1>4. \A j \in 1 .. n : CredAt(j) \in CredsOf(hosts) /\ VaultAt(hosts, j) \in VaultsOf(hosts) /\ GateVuln(hosts, j) \in GatesOf(hosts)
  BY DEF CredsOf, VaultsOf, GatesOf
<1>5. \A j \in 1 .. n : CredAt(j)[2] + 1 = j BY DEF CredAt
<1>6. \A j \in 1 .. n : gates[GateVuln(hosts, j)] = Vuln(GateVuln(hosts, j)[2], GateParams(hosts, j))
  <2> HIDE DEF index, gates
  <2> QED BY <1>2, <1>3, <1>4
<1>7. \A j \in 1 .. n : creds[CredAt(j)] = Holder("credential", <<"token", j, 0>>)
  <2> HIDE DEF creds
  <2> QED BY <1>3, <1>4, <1>5
<1>8. \A j \in 1 .. n : vaults[VaultAt(hosts, j)] = Endpoint("vault") BY <1>4
<1>9. /\ CredsOf(hosts) \cap VaultsOf(hosts) = {} /\ CredsOf(hosts) \cap GatesOf(hosts) = {}
      /\ VaultsOf(hosts) \cap GatesOf(hosts) = {}
  <2>1. \A c \in CredsOf(hosts) : c[1] = "cred" BY DEF CredsOf, CredAt
  <2>2. \A e \in VaultsOf(hosts) : e[1] = "ep" BY DEF VaultsOf, VaultAt
  <2>3. \A v \in GatesOf(hosts) : v[1] = "vuln" BY DEF GatesOf, GateVuln
  <2> QED BY <2>1, <2>2, <2>3
<1> HIDE DEF creds, vaults, gates, index
<1>10. PICK cv : cv = Overridden(creds, vaults) OBVIOUS
<1>11. /\ DOMAIN cv = CredsOf(hosts) \cup VaultsOf(hosts)
       /\ \A e \in VaultsOf(hosts) : cv[e] = vaults[e]
       /\ \A c \in CredsOf(hosts) : cv[c] = creds[c]
  BY <1>3, <1>9, <1>10 DEF Overridden
<1>12. PICK all : all = Overridden(cv, gates) OBVIOUS
<1>13. /\ DOMAIN all = CredsOf(hosts) \cup VaultsOf(hosts) \cup GatesOf(hosts)
       /\ \A e \in VaultsOf(hosts) : all[e] = vaults[e]
       /\ \A c \in CredsOf(hosts) : all[c] = creds[c]
       /\ \A v \in GatesOf(hosts) : all[v] = gates[v]
  BY <1>3, <1>9, <1>11, <1>12 DEF Overridden
<1>14. PICK g1 : g1 = WithNodes(g, all) OBVIOUS
<1>15. /\ DOMAIN g1 = {"nodes", "edges"} /\ g1.edges = g.edges
       /\ DOMAIN g1.nodes = DOMAIN g.nodes \cup DOMAIN all
       /\ \A m \in DOMAIN all : g1.nodes[m] = all[m]
       /\ \A m \in DOMAIN g.nodes \ DOMAIN all : g1.nodes[m] = g.nodes[m]
  BY <1>14, WithNodesIs
<1>16. h = WithEdges(g1, LinksOf(hosts, leak)) BY <1>1, <1>10, <1>12, <1>14
<1>17. /\ DOMAIN h = {"nodes", "edges"} /\ h.nodes = g1.nodes
       /\ DOMAIN h.edges = DOMAIN g.edges \cup LinksOf(hosts, leak)
       /\ \A e \in LinksOf(hosts, leak) : h.edges[e] = Edge(e[2], e[3], e[4])
       /\ \A e \in DOMAIN g.edges \ LinksOf(hosts, leak) : h.edges[e] = g.edges[e]
  BY <1>15, <1>16, WithEdgesIs
<1>18. DOMAIN h.nodes = DOMAIN g.nodes \cup CredsOf(hosts) \cup VaultsOf(hosts) \cup GatesOf(hosts)
  BY <1>13, <1>15, <1>17
<1>19. \A m \in DOMAIN g.nodes : m \notin CredsOf(hosts) \cup VaultsOf(hosts) \cup GatesOf(hosts) => h.nodes[m] = g.nodes[m]
  BY <1>13, <1>15, <1>17
<1>20. \A j \in 1 .. n : /\ h.nodes[CredAt(j)] = creds[CredAt(j)] /\ h.nodes[VaultAt(hosts, j)] = vaults[VaultAt(hosts, j)]
                         /\ h.nodes[GateVuln(hosts, j)] = gates[GateVuln(hosts, j)]
  BY <1>4, <1>13, <1>15, <1>17
<1>21. GatesMade(h, hosts)
  <2> SUFFICES ASSUME NEW j \in 1 .. n
               PROVE  /\ h.nodes[CredAt(j)] = Holder("credential", <<"token", j, 0>>)
                      /\ h.nodes[VaultAt(hosts, j)] = Endpoint("vault")
                      /\ h.nodes[GateVuln(hosts, j)] = Vuln(GateVuln(hosts, j)[2], GateParams(hosts, j))
    BY Zenon DEF GatesMade
  <2> QED BY <1>6, <1>7, <1>8, <1>20
<1> QED BY <1>17, <1>18, <1>19, <1>21


LEMMA Enumerated ==
    ASSUME NEW n \in Nat, NEW f, DOMAIN f = 1 .. n, NEW T, T = {f[j] : j \in 1 .. n}
    PROVE  /\ IsFiniteSet(T) /\ Cardinality(T) <= n
           /\ (\A i, j \in 1 .. n : f[i] = f[j] => i = j) => Cardinality(T) = n
<1>1. IsFiniteSet(1 .. n) /\ Cardinality(1 .. n) = n
  <2>1. 1 \in Int /\ n \in Int /\ ~(1 > n) => n - 1 + 1 = n OBVIOUS
  <2> QED BY <2>1, FS_Interval
<1>2. PICK k : k = [j \in 1 .. n |-> f[j]] OBVIOUS
<1>3. k \in Surjection(1 .. n, T) BY <1>2 DEF Surjection
<1>4. (\A i, j \in 1 .. n : f[i] = f[j] => i = j) => k \in Injection(1 .. n, T) BY <1>2 DEF Injection, IsInjective
<1> QED BY <1>1, <1>3, <1>4, FS_Surjection

(* No vault, no gate and no credential yet.                                        *)
Unchained(g) ==
    /\ \A t \in DOMAIN g.nodes : t \in EndpointIds => t[3] # "vault"
    /\ \A v \in DOMAIN g.nodes : v \in VulnIds => v[2] \notin GateFlaws
    /\ \A c \in DOMAIN g.nodes : c \notin CredIds

(* What the gates bring and what they leave alone.                                  *)
Chains(g, h, leak, hosts) ==
    /\ Structured(h) /\ Sampled(h) /\ Secluded(h)
    /\ DOMAIN h.nodes = DOMAIN g.nodes \cup CredsOf(hosts) \cup VaultsOf(hosts) \cup GatesOf(hosts)
    /\ \A m \in DOMAIN g.nodes : h.nodes[m] = g.nodes[m]
    /\ Vulns(h) = Vulns(g) \cup GatesOf(hosts)
    /\ \A j \in 1 .. Len(hosts) :
         /\ h.nodes[VaultAt(hosts, j)] = Endpoint("vault")
         /\ h.nodes[GateVuln(hosts, j)] = Vuln(GateVuln(hosts, j)[2], GateParams(hosts, j))
         /\ Target(h, GateVuln(hosts, j)) = VaultAt(hosts, j) /\ HostOf(h, GateVuln(hosts, j)) = hosts[j]
    /\ \A w \in Vulns(g) : /\ Affecting(h, w) = Affecting(g, w)
                           /\ Target(h, w) = Target(g, w) /\ HostOf(h, w) = HostOf(g, w)
    /\ by_kind(h, "credential") = CredsOf(hosts) /\ Cardinality(by_kind(h, "credential")) = Len(hosts)
    /\ Public(h) = Public(g) /\ Internals(h) = Internals(g) /\ FlagServices(h) = FlagServices(g)
    /\ Links(g, "exposes") \subseteq Links(h, "exposes")
    /\ Links(h, "requires_credential") = {Edge("requires_credential", VaultAt(hosts, j), CredAt(j)) : j \in 1 .. Len(hosts)}
    /\ Links(h, "enables") = Links(g, "enables")
         \cup {Edge("enables", GateBefore(hosts, leak, j), GateVuln(hosts, j)) : j \in 1 .. Len(hosts)}

LEMMA ChainedIs ==
    ASSUME NEW g, Structured(g), Sampled(g), Secluded(g), Unchained(g), Links(g, "requires_credential") = {},
           NEW leak \in Vulns(g), NEW hosts, NEW n \in Nat, n = Len(hosts),
           \A j \in 1 .. n : hosts[j] \in by_kind(g, "service"),
           \A i, j \in 1 .. n : hosts[i] = hosts[j] => i = j,
           NEW h, h = Chained(g, leak, hosts)
    PROVE  Chains(g, h, leak, hosts)
<1>1. DOMAIN g = {"nodes", "edges"} /\ \A m \in DOMAIN g.nodes : NodeOK(m, g.nodes[m]) BY DEF Structured, Framed
<1>2. \A j \in 1 .. n : hosts[j] \in ServiceIds /\ hosts[j] \in DOMAIN g.nodes BY <1>1, KindSets
<1>3. \A j \in 1 .. n : hosts[j][2] \in Nat /\ hosts[j] = <<"svc", hosts[j][2]>> /\ Svc(hosts[j][2]) = hosts[j]
  BY <1>2 DEF ServiceIds, Svc
<1>4. PICK E : E = [j \in 1 .. n |-> VaultAt(hosts, j)] OBVIOUS
<1>5. PICK C : C = [j \in 1 .. n |-> CredAt(j)] OBVIOUS
<1>6. PICK G : G = [j \in 1 .. n |-> GateVuln(hosts, j)] OBVIOUS
<1>7. PICK B : B = [j \in 1 .. n |-> GateBefore(hosts, leak, j)] OBVIOUS
<1>8. /\ DOMAIN E = 1 .. n /\ DOMAIN C = 1 .. n /\ DOMAIN G = 1 .. n
      /\ VaultsOf(hosts) = {E[j] : j \in 1 .. n} /\ CredsOf(hosts) = {C[j] : j \in 1 .. n} /\ GatesOf(hosts) = {G[j] : j \in 1 .. n}
  BY <1>4, <1>5, <1>6 DEF VaultsOf, CredsOf, GatesOf
<1>9. \A j \in 1 .. n : E[j] \in EndpointIds /\ E[j][2] = hosts[j][2] /\ E[j][3] = "vault"
  <2> TAKE j \in 1 .. n
  <2>1. E[j] = <<"ep", hosts[j][2], "vault">> BY <1>4 DEF VaultAt
  <2>2. hosts[j][2] \in Nat BY <1>3
  <2>3. <<"ep", hosts[j][2], "vault">> \in EndpointIds BY <2>2 DEF EndpointIds, Paths
  <2> QED BY <2>1, <2>3
<1>10. \A i, j \in 1 .. n : E[i] = E[j] => i = j BY <1>3, <1>9
<1>11. \A j \in 1 .. n : C[j] \in CredIds /\ C[j][2] = j - 1
  <2> TAKE j \in 1 .. n
  <2>1. C[j] = <<"cred", j - 1>> BY <1>5 DEF CredAt
  <2>2. j - 1 \in Nat OBVIOUS
  <2>3. <<"cred", j - 1>> \in CredIds BY <2>2 DEF CredIds
  <2> QED BY <2>1, <2>3
<1>12. \A i, j \in 1 .. n : C[i] = C[j] => i = j
  <2>1. SUFFICES ASSUME NEW i \in 1 .. n, NEW j \in 1 .. n, C[i] = C[j] PROVE i = j OBVIOUS
  <2>2. i - 1 = j - 1 BY <1>11, <2>1
  <2> QED BY <2>2
<1>13. \A j \in 1 .. n : G[j] \in VulnIds /\ G[j][2] \in GateFlaws
  <2> TAKE j \in 1 .. n
  <2>1. G[j] = GateVuln(hosts, j) BY <1>6
  <2>2. /\ GateVuln(hosts, j) \in VulnIds
        /\ GateVuln(hosts, j)[2] = IF j = n THEN "credential_gated_flag" ELSE "credential_gated_relay"
    BY GateIs
  <2>3. GateVuln(hosts, j)[2] \in GateFlaws BY <2>2 DEF GateFlaws
  <2> QED BY <2>1, <2>2, <2>3
<1>14. \A i, j \in 1 .. n : G[i] = G[j] => i = j BY <1>6, GateIs
<1>15. \A j \in 1 .. n : E[j] \notin DOMAIN g.nodes /\ C[j] \notin DOMAIN g.nodes /\ G[j] \notin DOMAIN g.nodes
  BY <1>9, <1>11, <1>13 DEF Unchained
<1>16. \A j \in 1 .. n : B[j] = leak \/ \E i \in 1 .. n : B[j] = G[i]
  <2>1. TAKE j \in 1 .. n
  <2>2. CASE j = 1 BY <1>7, <2>2 DEF GateBefore
  <2>3. CASE j # 1
    <3>1. B[j] = GateVuln(hosts, j - 1) /\ j - 1 \in 1 .. n BY <1>7, <2>3 DEF GateBefore
    <3> QED BY <1>6, <3>1
  <2> QED BY <2>2, <2>3
<1>17. PICK L : L = LinksOf(hosts, leak) OBVIOUS
<1>18. /\ DOMAIN h = {"nodes", "edges"}
       /\ DOMAIN h.nodes = DOMAIN g.nodes \cup CredsOf(hosts) \cup VaultsOf(hosts) \cup GatesOf(hosts)
       /\ \A m \in DOMAIN g.nodes : m \notin CredsOf(hosts) \cup VaultsOf(hosts) \cup GatesOf(hosts) => h.nodes[m] = g.nodes[m]
       /\ DOMAIN h.edges = DOMAIN g.edges \cup L
       /\ \A e \in L : h.edges[e] = Edge(e[2], e[3], e[4])
       /\ \A e \in DOMAIN g.edges \ L : h.edges[e] = g.edges[e]
  <2>1. DOMAIN g = {"nodes", "edges"} /\ \A j \in 1 .. n : hosts[j] \in ServiceIds BY <1>1, <1>2
  <2> QED BY <1>17, <2>1, ChainedParts
<1>19. \A j \in 1 .. n : /\ h.nodes[C[j]] = Holder("credential", <<"token", j, 0>>)
                         /\ h.nodes[E[j]] = Endpoint("vault")
                         /\ h.nodes[G[j]] = Vuln(G[j][2], GateParams(hosts, j))
  <2>1. \A j \in 1 .. n : /\ h.nodes[CredAt(j)] = Holder("credential", <<"token", j, 0>>)
                          /\ h.nodes[VaultAt(hosts, j)] = Endpoint("vault")
                          /\ h.nodes[GateVuln(hosts, j)] = Vuln(GateVuln(hosts, j)[2], GateParams(hosts, j))
    <3>1. DOMAIN g = {"nodes", "edges"} /\ \A j \in 1 .. n : hosts[j] \in ServiceIds BY <1>1, <1>2
    <3> TAKE j \in 1 .. n
    <3>2. /\ h.nodes[CredAt(j)] = Holder("credential", <<"token", j, 0>>)
          /\ h.nodes[VaultAt(hosts, j)] = Endpoint("vault")
          /\ h.nodes[GateVuln(hosts, j)] = Vuln(GateVuln(hosts, j)[2], GateParams(hosts, j))
      <4>1. GatesMade(h, hosts) BY <3>1, ChainedParts
      <4> QED BY <4>1 DEF GatesMade
    <3> QED BY <3>2
  <2>2. \A j \in 1 .. n : C[j] = CredAt(j) /\ E[j] = VaultAt(hosts, j) /\ G[j] = GateVuln(hosts, j)
    BY <1>4, <1>5, <1>6
  <2> QED BY <2>1, <2>2, Zenon
<1>20. \A m \in DOMAIN g.nodes : h.nodes[m] = g.nodes[m] BY <1>8, <1>15, <1>18
<1>21. \A e \in L : \E j \in 1 .. n :
          \/ e[2] = "exposes" /\ e[3] = hosts[j] /\ e[4] = E[j]
          \/ e[2] = "affects" /\ e[3] = G[j] /\ e[4] = E[j]
          \/ e[2] = "enables" /\ e[3] = B[j] /\ e[4] = G[j]
          \/ e[2] = "requires_credential" /\ e[3] = E[j] /\ e[4] = C[j]
          \/ e[2] = "produces" /\ e[3] = B[j] /\ e[4] = C[j]
  <2>1. TAKE e \in L
  <2>2. PICK j \in 1 .. n : e \in LinksAt(hosts, leak, j) BY <1>17 DEF LinksOf
  <2>3. E[j] = VaultAt(hosts, j) /\ C[j] = CredAt(j) /\ G[j] = GateVuln(hosts, j) /\ B[j] = GateBefore(hosts, leak, j)
    BY <1>4, <1>5, <1>6, <1>7
  <2>4. \/ e = SampledEdge("exposes", hosts[j], E[j]) \/ e = SampledEdge("affects", G[j], E[j])
        \/ e = SampledEdge("enables", B[j], G[j]) \/ e = SampledEdge("requires_credential", E[j], C[j])
        \/ e = SampledEdge("produces", B[j], C[j])
    BY <2>2, <2>3 DEF LinksAt
  <2> QED BY <2>4, SampledEdgeIs
<1>22. \A j \in 1 .. n : /\ SampledEdge("exposes", hosts[j], E[j]) \in L /\ SampledEdge("affects", G[j], E[j]) \in L
                         /\ SampledEdge("enables", B[j], G[j]) \in L /\ SampledEdge("requires_credential", E[j], C[j]) \in L
  <2>1. TAKE j \in 1 .. n
  <2>2. E[j] = VaultAt(hosts, j) /\ C[j] = CredAt(j) /\ G[j] = GateVuln(hosts, j) /\ B[j] = GateBefore(hosts, leak, j)
    BY <1>4, <1>5, <1>6, <1>7
  <2>3. LinksAt(hosts, leak, j) \subseteq L BY <1>17 DEF LinksOf
  <2>4. /\ SampledEdge("exposes", hosts[j], E[j]) \in LinksAt(hosts, leak, j)
        /\ SampledEdge("affects", G[j], E[j]) \in LinksAt(hosts, leak, j)
        /\ SampledEdge("enables", B[j], G[j]) \in LinksAt(hosts, leak, j)
        /\ SampledEdge("requires_credential", E[j], C[j]) \in LinksAt(hosts, leak, j)
    BY <2>2 DEF LinksAt
  <2> QED BY <2>3, <2>4
<1>23. L \cap DOMAIN g.edges = {}
  <2>1. \A e \in L : e[4] \notin DOMAIN g.nodes BY <1>15, <1>21
  <2>2. \A e \in DOMAIN g.edges : e[4] \in DOMAIN g.nodes BY DEF Sampled
  <2> QED BY <2>1, <2>2
<1>24. \A e \in DOMAIN g.edges : e \in DOMAIN h.edges /\ h.edges[e] = g.edges[e] BY <1>18, <1>23
<1>25. \A m \in DOMAIN h.nodes : NodeOK(m, h.nodes[m])
  <2>1. TAKE m \in DOMAIN h.nodes
  <2>2. CASE m \in DOMAIN g.nodes BY <1>1, <1>20, <2>2
  <2>3. CASE \E j \in 1 .. n : m = C[j]
    <3>1. PICK j \in 1 .. n : m = C[j] BY <2>3
    <3>2. <<"token", j, 0>> \in Values BY DEF Values
    <3>4. h.nodes[m] = Holder("credential", <<"token", j, 0>>) BY <1>19, <3>1
    <3>3. h.nodes[m] \in HolderNodes("credential") BY <3>2, <3>4 DEF Holder, HolderNodes
    <3> QED BY <1>11, <3>1, <3>3 DEF NodeOK
  <2>4. CASE \E j \in 1 .. n : m = E[j]
    <3>1. PICK j \in 1 .. n : m = E[j] BY <2>4
    <3>3. h.nodes[m] = Endpoint("vault") BY <1>19, <3>1
    <3>2. h.nodes[m] \in EndpointNodes BY <3>3 DEF Endpoint, EndpointNodes, Paths
    <3> QED BY <1>9, <3>1, <3>2 DEF NodeOK
  <2>5. CASE \E j \in 1 .. n : m = G[j]
    <3>1. PICK j \in 1 .. n : m = G[j] BY <2>5
    <3>2. G[j][2] \in Flaws BY <1>13, <3>1 DEF VulnIds
    <3>3. GateParams(hosts, j) \in ParamSet BY <1>2, GateParamsIs
    <3>4. h.nodes[m] \in VulnNodes BY <1>19, <3>1, <3>2, <3>3, VulnIs
    <3> QED BY <1>13, <3>1, <3>4 DEF NodeOK
  <2> QED BY <1>8, <1>18, <2>2, <2>3, <2>4, <2>5
<1>26. /\ \A j \in 1 .. n : /\ h.nodes[hosts[j]].kind = "service" /\ h.nodes[E[j]].kind = "endpoint"
                            /\ h.nodes[C[j]].kind = "credential" /\ h.nodes[G[j]].kind = "vulnerability"
       /\ h.nodes[leak].kind = "vulnerability" /\ leak \in DOMAIN h.nodes
  <2>1. \A j \in 1 .. n : h.nodes[hosts[j]].kind = "service" BY <1>2, <1>20 DEF by_kind
  <2>2. leak \in DOMAIN g.nodes /\ g.nodes[leak].kind = "vulnerability" BY DEF Vulns, by_kind
  <2>3. h.nodes[leak].kind = "vulnerability" /\ leak \in DOMAIN h.nodes BY <1>18, <1>20, <2>2
  <2>7. \A j \in 1 .. n : h.nodes[E[j]] = Endpoint("vault") BY <1>19
  <2>8. \A j \in 1 .. n : h.nodes[C[j]] = Holder("credential", <<"token", j, 0>>) BY <1>19, Zenon
  <2>9. \A j \in 1 .. n : h.nodes[G[j]] = Vuln(G[j][2], GateParams(hosts, j)) BY <1>19
  <2>4. \A j \in 1 .. n : h.nodes[E[j]].kind = "endpoint" BY <2>7 DEF Endpoint
  <2>5. ASSUME NEW j \in 1 .. n PROVE h.nodes[C[j]].kind = "credential"
    <3>1. h.nodes[C[j]] = Holder("credential", <<"token", j, 0>>) BY <2>8
    <3> QED BY <3>1 DEF Holder
  <2>6. ASSUME NEW j \in 1 .. n PROVE h.nodes[G[j]].kind = "vulnerability"
    <3>1. h.nodes[G[j]] = Vuln(G[j][2], GateParams(hosts, j)) BY <2>9
    <3> QED BY <3>1 DEF Vuln
  <2> QED BY <2>1, <2>3, <2>4, <2>5, <2>6
<1>27. \A j \in 1 .. n : /\ h.nodes[B[j]].kind = "vulnerability" /\ B[j] \in DOMAIN h.nodes
                         /\ hosts[j] \in DOMAIN h.nodes /\ E[j] \in DOMAIN h.nodes /\ C[j] \in DOMAIN h.nodes
                         /\ G[j] \in DOMAIN h.nodes
  BY <1>2, <1>8, <1>16, <1>18, <1>26
<1>28. ASSUME NEW e \in L PROVE EdgeOK(h, h.edges[e]) /\ (h.edges[e].kind = "affects" => h.edges[e].src \notin DOMAIN g.nodes)
  <2>1. PICK j \in 1 .. n :
          \/ e[2] = "exposes" /\ e[3] = hosts[j] /\ e[4] = E[j]
          \/ e[2] = "affects" /\ e[3] = G[j] /\ e[4] = E[j]
          \/ e[2] = "enables" /\ e[3] = B[j] /\ e[4] = G[j]
          \/ e[2] = "requires_credential" /\ e[3] = E[j] /\ e[4] = C[j]
          \/ e[2] = "produces" /\ e[3] = B[j] /\ e[4] = C[j]
    BY <1>21
  <2>2. h.edges[e] = Edge(e[2], e[3], e[4]) BY <1>18
  <2>3. CASE e[2] = "exposes" /\ e[3] = hosts[j] /\ e[4] = E[j]
    <3>1. EdgeOK(h, Edge("exposes", hosts[j], E[j])) BY <1>3, <1>9, <1>26, <1>27 DEF EdgeOK, Edge, SrcKind, DstKind
    <3> QED BY <2>2, <2>3, <3>1, EdgeFields
  <2>4. CASE e[2] = "affects" /\ e[3] = G[j] /\ e[4] = E[j]
    <3>1. EdgeOK(h, Edge("affects", G[j], E[j])) BY <1>26, <1>27 DEF EdgeOK, Edge, SrcKind, DstKind
    <3> QED BY <1>15, <2>2, <2>4, <3>1, EdgeFields
  <2>5. CASE e[2] = "enables" /\ e[3] = B[j] /\ e[4] = G[j]
    <3>1. EdgeOK(h, Edge("enables", B[j], G[j])) BY <1>26, <1>27 DEF EdgeOK, Edge, SrcKind, DstKind
    <3> QED BY <2>2, <2>5, <3>1, EdgeFields
  <2>6. CASE e[2] = "requires_credential" /\ e[3] = E[j] /\ e[4] = C[j]
    <3>1. EdgeOK(h, Edge("requires_credential", E[j], C[j])) BY <1>26, <1>27 DEF EdgeOK, Edge, SrcKind, DstKind
    <3> QED BY <2>2, <2>6, <3>1, EdgeFields
  <2>7. CASE e[2] = "produces" /\ e[3] = B[j] /\ e[4] = C[j]
    <3>1. EdgeOK(h, Edge("produces", B[j], C[j])) BY <1>26, <1>27 DEF EdgeOK, Edge, SrcKind, DstKind
    <3> QED BY <2>2, <2>7, <3>1, EdgeFields
  <2> QED BY <2>1, <2>3, <2>4, <2>5, <2>6, <2>7
<1>29. Vulns(h) = Vulns(g) \cup GatesOf(hosts) /\ by_kind(h, "credential") = CredsOf(hosts)
       /\ by_kind(h, "endpoint") = by_kind(g, "endpoint") \cup VaultsOf(hosts)
  <2>1. /\ Vulns(g) = DOMAIN g.nodes \cap VulnIds /\ by_kind(g, "endpoint") = DOMAIN g.nodes \cap EndpointIds
    BY <1>1, KindSets
  <2>2. /\ Vulns(h) = DOMAIN h.nodes \cap VulnIds /\ by_kind(h, "endpoint") = DOMAIN h.nodes \cap EndpointIds
        /\ by_kind(h, "credential") = DOMAIN h.nodes \cap CredIds
    BY <1>25, KindSets
  <2>3. /\ CredsOf(hosts) \subseteq CredIds /\ VaultsOf(hosts) \subseteq EndpointIds /\ GatesOf(hosts) \subseteq VulnIds
    BY <1>8, <1>9, <1>11, <1>13
  <2>4. CredIds \cap EndpointIds = {} /\ CredIds \cap VulnIds = {} /\ EndpointIds \cap VulnIds = {}
    BY DEF CredIds, EndpointIds, VulnIds
  <2>5. DOMAIN g.nodes \cap CredIds = {} BY DEF Unchained
  <2> QED BY <1>18, <2>1, <2>2, <2>3, <2>4, <2>5, Zenon
<1>30. ASSUME NEW j \in 1 .. n, NEW a, a = SampledEdge("affects", G[j], E[j])
       PROVE  Affecting(h, G[j]) = {a} /\ a \in Affects(h) /\ h.edges[a].dst = E[j]
  <2>1. a[2] = "affects" /\ a[3] = G[j] /\ a[4] = E[j] BY <1>30, SampledEdgeIs
  <2>2. a \in L BY <1>22, <1>30
  <2>3. h.edges[a] = Edge("affects", G[j], E[j]) BY <1>18, <2>1, <2>2
  <2>4. \A e \in DOMAIN g.edges : g.edges[e].src # G[j] BY <1>15 DEF Structured, Framed, EdgeOK
  <2>5. ASSUME NEW e \in DOMAIN h.edges, h.edges[e].kind = "affects", h.edges[e].src = G[j] PROVE e = a
    <3>1. e \in L BY <1>18, <1>24, <2>4, <2>5
    <3>2. e[2] = "affects" /\ e[3] = G[j]
      <4>1. h.edges[e] = Edge(e[2], e[3], e[4]) BY <1>18, <3>1
      <4> QED BY <2>5, <4>1, EdgeFields
    <3>3. PICK i \in 1 .. n : e \in LinksAt(hosts, leak, i) BY <1>17, <3>1 DEF LinksOf
    <3>4. E[i] = VaultAt(hosts, i) /\ C[i] = CredAt(i) /\ G[i] = GateVuln(hosts, i) /\ B[i] = GateBefore(hosts, leak, i)
      BY <1>4, <1>5, <1>6, <1>7
    <3>5. \/ e = SampledEdge("exposes", hosts[i], E[i]) \/ e = SampledEdge("affects", G[i], E[i])
          \/ e = SampledEdge("enables", B[i], G[i]) \/ e = SampledEdge("requires_credential", E[i], C[i])
          \/ e = SampledEdge("produces", B[i], C[i])
      BY <3>3, <3>4 DEF LinksAt
    <3>6. e = SampledEdge("affects", G[i], E[i]) BY <3>2, <3>5, SampledEdgeIs
    <3>7. G[i] = G[j] BY <3>2, <3>6, SampledEdgeIs
    <3>8. i = j BY <1>14, <3>7
    <3> QED BY <1>30, <3>6, <3>8
  <2> QED BY <1>18, <2>2, <2>3, <2>5, EdgeFields DEF Affecting, Affects
<1>31. IsFiniteSet(DOMAIN h.nodes)
  <2>1. IsFiniteSet(CredsOf(hosts)) /\ IsFiniteSet(VaultsOf(hosts)) /\ IsFiniteSet(GatesOf(hosts)) BY <1>8, Enumerated
  <2>2. IsFiniteSet(DOMAIN g.nodes) BY DEF Structured, Framed
  <2>3. IsFiniteSet(DOMAIN g.nodes \cup CredsOf(hosts)) BY <2>1, <2>2, FS_Union
  <2>4. IsFiniteSet((DOMAIN g.nodes \cup CredsOf(hosts)) \cup VaultsOf(hosts)) BY <2>1, <2>3, FS_Union
  <2>5. IsFiniteSet(((DOMAIN g.nodes \cup CredsOf(hosts)) \cup VaultsOf(hosts)) \cup GatesOf(hosts)) BY <2>1, <2>4, FS_Union
  <2> QED BY <1>18, <2>5
<1>32. Grows(g, h)
  <2>1. \A v \in Vulns(h) \ DOMAIN g.nodes : \E e \in Affects(h) : Affecting(h, v) = {e}
    <3>1. TAKE v \in Vulns(h) \ DOMAIN g.nodes
    <3>2. PICK j \in 1 .. n : v = G[j] BY <1>8, <1>29, <3>1 DEF Vulns, by_kind
    <3> QED BY <1>30, <3>2
  <2>2. \A t \in by_kind(h, "endpoint") \ DOMAIN g.nodes : Srcs(h, "exposes", t) # {}
    <3>1. TAKE t \in by_kind(h, "endpoint") \ DOMAIN g.nodes
    <3>2. PICK j \in 1 .. n : t = E[j] BY <1>8, <1>29, <3>1 DEF by_kind
    <3>3. PICK x : x = SampledEdge("exposes", hosts[j], E[j]) OBVIOUS
    <3>4. x \in L /\ x[2] = "exposes" /\ x[3] = hosts[j] /\ x[4] = E[j] BY <1>22, <3>3, SampledEdgeIs
    <3>5. x \in DOMAIN h.edges /\ h.edges[x] = Edge("exposes", hosts[j], E[j]) BY <1>18, <3>4
    <3> QED BY <3>2, <3>5, EdgeFields DEF Srcs
  <2>3. \A e \in DOMAIN h.edges :
         \/ e \in DOMAIN g.edges /\ h.edges[e] = g.edges[e]
         \/ EdgeOK(h, h.edges[e]) /\ (h.edges[e].kind = "affects" => h.edges[e].src \notin DOMAIN g.nodes)
    BY <1>18, <1>24, <1>28
  <2> QED BY <1>18, <1>24, <1>25, <1>31, <2>1, <2>2, <2>3 DEF Grows
<1>33. /\ Framed(h)
       /\ \A w \in Vulns(g) : /\ Affecting(h, w) = Affecting(g, w)
                              /\ Target(h, w) = Target(g, w) /\ HostOf(h, w) = HostOf(g, w)
  BY <1>32, GrownIs DEF Structured
<1>34. \A e \in L : h.edges[e].kind = e[2] /\ e[2] \in {"exposes", "affects", "enables", "requires_credential", "produces"}
  <2>1. \A e \in L : h.edges[e] = Edge(e[2], e[3], e[4]) BY <1>18
  <2> QED BY <1>21, <2>1, EdgeFields
<1>35. Structured(h) /\ FlagServices(h) = FlagServices(g)
  <2>1. Links(h, "contains") = Links(g, "contains") BY <1>18, <1>24, <1>34 DEF Links
  <2>2. Links(h, "backed_by") = Links(g, "backed_by") BY <1>18, <1>24, <1>34 DEF Links
  <2>3. record_id \in DOMAIN h.nodes /\ flag_id \in DOMAIN h.nodes BY <1>18 DEF Structured, Homed
  <2> QED BY <1>33, <2>1, <2>2, <2>3, SameHome
<1>36. Public(h) = Public(g) /\ Internals(h) = Internals(g)
  <2>1. CredIds \cap ServiceIds = {} /\ EndpointIds \cap ServiceIds = {} /\ VulnIds \cap ServiceIds = {}
    BY DEF CredIds, EndpointIds, VulnIds, ServiceIds
  <2>2. CredsOf(hosts) \subseteq CredIds /\ VaultsOf(hosts) \subseteq EndpointIds /\ GatesOf(hosts) \subseteq VulnIds
    BY <1>8, <1>9, <1>11, <1>13
  <2>3. DOMAIN h.nodes \cap ServiceIds = DOMAIN g.nodes \cap ServiceIds BY <1>18, <2>1, <2>2
  <2> QED BY <1>1, <1>20, <1>25, <2>3, SameServices
<1>37. Links(g, "exposes") \subseteq Links(h, "exposes") BY <1>24 DEF Links
<1>38. Links(h, "requires_credential") = {Edge("requires_credential", E[j], C[j]) : j \in 1 .. n}
  <2>1. ASSUME NEW l \in Links(h, "requires_credential") PROVE \E j \in 1 .. n : l = Edge("requires_credential", E[j], C[j])
    <3>1. PICK e \in DOMAIN h.edges : h.edges[e] = l /\ h.edges[e].kind = "requires_credential" BY DEF Links
    <3>7. Links(g, "requires_credential") = {} OBVIOUS
    <3>2. ASSUME NEW x \in DOMAIN g.edges, g.edges[x].kind = "requires_credential" PROVE FALSE
      <4>1. g.edges[x] \in Links(g, "requires_credential") BY <3>2 DEF Links
      <4> QED BY <3>7, <4>1
    <3>3. e \in L BY <1>18, <1>24, <3>1, <3>2
    <3>4. e[2] = "requires_credential" BY <1>34, <3>1, <3>3
    <3>5. PICK j \in 1 .. n : e[3] = E[j] /\ e[4] = C[j] BY <1>21, <3>3, <3>4
    <3>6. h.edges[e] = Edge(e[2], e[3], e[4]) BY <1>18, <3>3
    <3> QED BY <3>1, <3>4, <3>5, <3>6
  <2>2. ASSUME NEW j \in 1 .. n PROVE Edge("requires_credential", E[j], C[j]) \in Links(h, "requires_credential")
    <3>1. PICK x : x = SampledEdge("requires_credential", E[j], C[j]) OBVIOUS
    <3>2. x \in L /\ x[2] = "requires_credential" /\ x[3] = E[j] /\ x[4] = C[j] BY <1>22, <3>1, SampledEdgeIs
    <3>3. x \in DOMAIN h.edges /\ h.edges[x] = Edge("requires_credential", E[j], C[j]) BY <1>18, <3>2
    <3> QED BY <3>3, EdgeFields DEF Links
  <2> QED BY <2>1, <2>2
<1>39. Links(h, "enables") = Links(g, "enables") \cup {Edge("enables", B[j], G[j]) : j \in 1 .. n}
  <2>1. ASSUME NEW l \in Links(h, "enables")
        PROVE  l \in Links(g, "enables") \/ \E j \in 1 .. n : l = Edge("enables", B[j], G[j])
    <3>1. PICK e \in DOMAIN h.edges : h.edges[e] = l /\ h.edges[e].kind = "enables" BY DEF Links
    <3>2. CASE e \in DOMAIN g.edges BY <1>24, <3>1, <3>2 DEF Links
    <3>3. CASE e \in L
      <4>1. e[2] = "enables" BY <1>34, <3>1, <3>3
      <4>2. PICK j \in 1 .. n : e[3] = B[j] /\ e[4] = G[j] BY <1>21, <3>3, <4>1
      <4>3. h.edges[e] = Edge(e[2], e[3], e[4]) BY <1>18, <3>3
      <4> QED BY <3>1, <4>1, <4>2, <4>3
    <3> QED BY <1>18, <3>2, <3>3
  <2>2. ASSUME NEW j \in 1 .. n PROVE Edge("enables", B[j], G[j]) \in Links(h, "enables")
    <3>1. PICK x : x = SampledEdge("enables", B[j], G[j]) OBVIOUS
    <3>2. x \in L /\ x[2] = "enables" /\ x[3] = B[j] /\ x[4] = G[j] BY <1>22, <3>1, SampledEdgeIs
    <3>3. x \in DOMAIN h.edges /\ h.edges[x] = Edge("enables", B[j], G[j]) BY <1>18, <3>2
    <3> QED BY <3>3, EdgeFields DEF Links
  <2>3. Links(g, "enables") \subseteq Links(h, "enables") BY <1>24 DEF Links
  <2> QED BY <2>1, <2>2, <2>3
<1>40. \A j \in 1 .. n : Target(h, G[j]) = E[j] /\ HostOf(h, G[j]) = hosts[j]
  <2>1. TAKE j \in 1 .. n
  <2>2. G[j] \in Vulns(h) BY <1>8, <1>29
  <2>3. PICK a : a = SampledEdge("affects", G[j], E[j]) OBVIOUS
  <2>4. Affecting(h, G[j]) = {a} /\ h.edges[a].dst = E[j] BY <1>30, <2>3
  <2>5. PICK e : Affecting(h, G[j]) = {e} /\ h.edges[e].dst = Target(h, G[j]) BY <1>33, <2>2, TargetIs
  <2>6. Target(h, G[j]) = E[j] BY <2>4, <2>5
  <2>7. HostOf(h, G[j]) = Svc(E[j][2]) BY <1>33, <2>2, <2>6, HostIs
  <2> QED BY <1>3, <1>9, <2>6, <2>7
<1>41. Sampled(h)
  <2>1. \A e \in L : e[3] \in DOMAIN h.nodes /\ e[4] \in DOMAIN h.nodes BY <1>21, <1>27
  <2>2. \A e \in DOMAIN g.edges : /\ e[2] = g.edges[e].kind /\ e[3] = g.edges[e].src
                                  /\ e[3] \in DOMAIN h.nodes /\ e[4] \in DOMAIN h.nodes
    BY <1>18 DEF Sampled
  <2>3. \A e \in L : e[3] = h.edges[e].src BY <1>18, EdgeFields
  <2> QED BY <1>18, <1>24, <1>34, <2>1, <2>2, <2>3 DEF Sampled
<1>42. Secluded(h)
  <2>1. \A e \in Affects(h) : \/ e \in Affects(g) /\ h.edges[e] = g.edges[e] /\ h.edges[e].dst \in DOMAIN g.nodes
                              \/ \E j \in 1 .. n : h.edges[e].src = G[j] /\ h.edges[e].dst = E[j]
    <3>1. TAKE e \in Affects(h)
    <3>2. e \in DOMAIN h.edges /\ h.edges[e].kind = "affects" BY DEF Affects
    <3>3. CASE e \in DOMAIN g.edges BY <1>24, <3>2, <3>3 DEF Affects, Structured, Framed, EdgeOK
    <3>4. CASE e \in L
      <4>1. e[2] = "affects" BY <1>34, <3>2, <3>4
      <4>2. PICK j \in 1 .. n : e[3] = G[j] /\ e[4] = E[j] BY <1>21, <3>4, <4>1
      <4>3. h.edges[e] = Edge(e[2], e[3], e[4]) BY <1>18, <3>4
      <4> QED BY <4>2, <4>3, EdgeFields
    <3> QED BY <1>18, <3>2, <3>3, <3>4
  <2>2. ASSUME NEW v \in Vulns(h), h.nodes[v].flaw \in PathFlaws, NEW e \in Affecting(h, v), NEW d \in Affects(h),
               h.edges[d].dst = h.edges[e].dst
        PROVE  d = e
    <3>1. CASE v \in Vulns(g)
      <4>1. g.nodes[v].flaw \in PathFlaws BY <1>20, <2>2, <3>1 DEF Vulns, by_kind
      <4>2. e \in Affecting(g, v) /\ e \in Affects(g) /\ e \in Affects(h) BY <1>33, <3>1 DEF Affecting
      <4>3. h.edges[e] = g.edges[e] /\ h.edges[e].dst \in DOMAIN g.nodes
        BY <1>24, <4>2 DEF Affects, Structured, Framed, EdgeOK
      <4>4. d \in Affects(g) /\ h.edges[d] = g.edges[d] BY <1>15, <2>1, <2>2, <4>3
      <4> QED BY <2>2, <3>1, <4>1, <4>2, <4>3, <4>4 DEF Secluded
    <3>2. CASE v \in GatesOf(hosts)
      <4>1. PICK j \in 1 .. n : v = G[j] BY <1>8, <3>2
      <4>2. PICK a : a = SampledEdge("affects", G[j], E[j]) OBVIOUS
      <4>3. e = a /\ h.edges[e].dst = E[j] BY <1>30, <4>1, <4>2
      <4>4. PICK i \in 1 .. n : h.edges[d].src = G[i] /\ h.edges[d].dst = E[i] BY <1>15, <2>1, <2>2, <4>3
      <4>5. i = j BY <1>10, <2>2, <4>3, <4>4
      <4>6. d \in Affecting(h, G[j]) BY <4>4, <4>5 DEF Affecting
      <4>7. Affecting(h, G[j]) = {a} BY <1>30, <4>2
      <4> QED BY <4>3, <4>6, <4>7
    <3> QED BY <1>29, <3>1, <3>2
  <2> QED BY <2>2 DEF Secluded
<1>43. Cardinality(by_kind(h, "credential")) = n
  <2>1. PICK T : T = {C[j] : j \in 1 .. n} OBVIOUS
  <2>2. Cardinality(T) = n
    <3>1. DOMAIN C = 1 .. n BY <1>8
    <3> QED BY <1>12, <2>1, <3>1, Enumerated
  <2> QED BY <1>8, <1>29, <2>1, <2>2
<1>44. \A j \in 1 .. n : E[j] = VaultAt(hosts, j) /\ C[j] = CredAt(j) /\ G[j] = GateVuln(hosts, j) /\ B[j] = GateBefore(hosts, leak, j)
  BY <1>4, <1>5, <1>6, <1>7
<1>45. \A j \in 1 .. n :
         /\ h.nodes[VaultAt(hosts, j)] = Endpoint("vault")
         /\ h.nodes[GateVuln(hosts, j)] = Vuln(GateVuln(hosts, j)[2], GateParams(hosts, j))
         /\ Target(h, GateVuln(hosts, j)) = VaultAt(hosts, j) /\ HostOf(h, GateVuln(hosts, j)) = hosts[j]
  <2> TAKE j \in 1 .. n
  <2>1. E[j] = VaultAt(hosts, j) /\ G[j] = GateVuln(hosts, j) BY <1>44
  <2>2. h.nodes[E[j]] = Endpoint("vault") /\ h.nodes[G[j]] = Vuln(G[j][2], GateParams(hosts, j)) BY <1>19
  <2>3. Target(h, G[j]) = E[j] /\ HostOf(h, G[j]) = hosts[j] BY <1>40
  <2> QED BY <2>1, <2>2, <2>3
<1>46. /\ Links(h, "requires_credential") = {Edge("requires_credential", VaultAt(hosts, j), CredAt(j)) : j \in 1 .. n}
       /\ Links(h, "enables") = Links(g, "enables")
            \cup {Edge("enables", GateBefore(hosts, leak, j), GateVuln(hosts, j)) : j \in 1 .. n}
  <2>1. {Edge("requires_credential", E[j], C[j]) : j \in 1 .. n}
        = {Edge("requires_credential", VaultAt(hosts, j), CredAt(j)) : j \in 1 .. n}
    BY <1>44
  <2>2. {Edge("enables", B[j], G[j]) : j \in 1 .. n}
        = {Edge("enables", GateBefore(hosts, leak, j), GateVuln(hosts, j)) : j \in 1 .. n}
    BY <1>44
  <2> QED BY <1>38, <1>39, <2>1, <2>2
<1> QED BY <1>18, <1>20, <1>29, <1>33, <1>35, <1>36, <1>37, <1>41, <1>42, <1>43, <1>45, <1>46 DEF Chains


(* The hosts of the gates: those after the entry, and the flag's own at the end.        *)
LEMMA HopsAre ==
    ASSUME NEW S, NEW seq \in Seq(S), \A i, j \in 1 .. Len(seq) : seq[i] = seq[j] => i = j,
           NEW depth \in 1 .. Len(seq), NEW last, ~(last \in S), NEW hosts, hosts = Append(SubSeq(seq, 2, depth), last)
    PROVE  /\ depth \in Nat /\ Len(hosts) = depth
           /\ hosts[depth] = last /\ \A j \in 1 .. depth : hosts[j] \in S \cup {last}
           /\ \A j \in 1 .. depth : hosts[j] # seq[1]
           /\ \A i, j \in 1 .. depth : hosts[i] = hosts[j] => i = j
<1>1. Len(seq) \in Nat /\ depth \in Nat /\ \A i \in 1 .. Len(seq) : seq[i] \in S OBVIOUS
<1>2. PICK sub : sub = SubSeq(seq, 2, depth) OBVIOUS
<1>3. sub \in Seq(S) /\ Len(sub) = depth - 1 /\ \A j \in 1 .. depth - 1 : sub[j] = seq[j + 1]
  BY <1>1, <1>2
<1>4. /\ Len(hosts) = depth /\ hosts[depth] = last /\ \A j \in 1 .. depth - 1 : hosts[j] = sub[j]
  BY <1>1, <1>2, <1>3
<1>5. \A j \in 1 .. depth : j # depth => j \in 1 .. depth - 1 /\ j + 1 \in 1 .. Len(seq) /\ hosts[j] = seq[j + 1]
  BY <1>1, <1>3, <1>4
<1>6. \A i, j \in 1 .. depth : hosts[i] = hosts[j] => i = j
  <2> SUFFICES ASSUME NEW i \in 1 .. depth, NEW j \in 1 .. depth, hosts[i] = hosts[j] PROVE i = j OBVIOUS
  <2>1. CASE i # depth /\ j # depth
    <3>1. seq[i + 1] = seq[j + 1] /\ i + 1 \in 1 .. Len(seq) /\ j + 1 \in 1 .. Len(seq) BY <1>5, <2>1
    <3>2. i + 1 = j + 1 BY <3>1
    <3> QED BY <1>1, <3>2
  <2>2. CASE i = depth \/ j = depth BY <1>1, <1>4, <1>5, <2>2
  <2> QED BY <2>1, <2>2
<1>7. \A j \in 1 .. depth : hosts[j] # seq[1] /\ hosts[j] \in S \cup {last}
  <2> TAKE j \in 1 .. depth
  <2>1. CASE j = depth BY <1>1, <1>4, <2>1
  <2>2. CASE j # depth
    <3>1. hosts[j] = seq[j + 1] /\ j + 1 \in 1 .. Len(seq) /\ 1 \in 1 .. Len(seq) /\ j + 1 # 1 BY <1>1, <1>5, <2>2
    <3> QED BY <1>1, <3>1
  <2> QED BY <2>1, <2>2
<1> QED BY <1>1, <1>4, <1>6, <1>7

(* What a world has before its gates come: the pivot, and the leak they begin at.       *)
Begun(g, leak, hosts) ==
    /\ Structured(g) /\ Footed(g)
    /\ leak \in Vulns(g) /\ g.nodes[leak].flaw = "credential_leak"
    /\ g.nodes[leak].params.credential = <<"token", 1, 0>> /\ g.nodes[leak].params.host = hosts[1]
    /\ \A v \in Vulns(g) : v # leak => g.nodes[v].flaw \notin ChainFlaws
    /\ \A t \in by_kind(g, "endpoint") : g.nodes[t].path # "vault"
    /\ HostOf(g, leak) \in Internals(g) /\ g.nodes[Pivot].params.hosts = Internals(g)
    /\ FlagServices(g) = {hosts[Len(hosts)]}
    /\ \A j \in 1 .. Len(hosts) : hosts[j] \in Internals(g) /\ hosts[j] # HostOf(g, leak)
    /\ \A i, j \in 1 .. Len(hosts) : hosts[i] = hosts[j] => i = j

LEMMA ChainBegins ==
    ASSUME NEW g, NEW h, NEW leak, NEW hosts, NEW n \in Nat \ {0}, n = Len(hosts),
           Begun(g, leak, hosts), Chains(g, h, leak, hosts)
    PROVE  Company(h)
<1> DEFINE G(j) == GateVuln(hosts, j)
<1> HIDE DEF G
<1>1. PICK c : c = [i \in 1 .. n + 1 |-> IF i = 1 THEN leak ELSE G(i - 1)] OBVIOUS
<1>2. /\ Vulns(h) = Vulns(g) \cup GatesOf(hosts)
      /\ \A m \in DOMAIN g.nodes : h.nodes[m] = g.nodes[m]
  BY DEF Chains
<1>3. \A j \in 1 .. n : /\ G(j) \in GatesOf(hosts)
                        /\ h.nodes[G(j)] = Vuln(G(j)[2], GateParams(hosts, j))
                        /\ Target(h, G(j)) = VaultAt(hosts, j) /\ HostOf(h, G(j)) = hosts[j]
                        /\ h.nodes[VaultAt(hosts, j)] = Endpoint("vault")
  <2>1. \A j \in 1 .. n : G(j) \in GatesOf(hosts) BY DEF GatesOf, G
  <2>2. TAKE j \in 1 .. n
  <2>3. /\ h.nodes[VaultAt(hosts, j)] = Endpoint("vault")
        /\ h.nodes[GateVuln(hosts, j)] = Vuln(GateVuln(hosts, j)[2], GateParams(hosts, j))
        /\ Target(h, GateVuln(hosts, j)) = VaultAt(hosts, j) /\ HostOf(h, GateVuln(hosts, j)) = hosts[j]
    BY DEF Chains
  <2> QED BY <2>1, <2>3 DEF G
<1>4. \A j \in 1 .. n : G(j)[2] = IF j = n THEN "credential_gated_flag" ELSE "credential_gated_relay"
  BY GateIs DEF G
<1>5. \A j \in 1 .. n : h.nodes[G(j)].flaw = G(j)[2] /\ h.nodes[G(j)].params = GateParams(hosts, j)
  <2> TAKE j \in 1 .. n
  <2>1. h.nodes[G(j)] = Vuln(G(j)[2], GateParams(hosts, j)) BY <1>3
  <2> QED BY <2>1 DEF Vuln
<1>6. \A v \in Vulns(g) : /\ v \in DOMAIN g.nodes /\ h.nodes[v] = g.nodes[v] /\ v \in Vulns(h)
                          /\ Target(h, v) = Target(g, v) /\ HostOf(h, v) = HostOf(g, v)
  BY <1>2 DEF Vulns, by_kind, Chains
<1>7. /\ Len(c) = n + 1 /\ n \in Nat /\ n >= 1 /\ DOMAIN c = 1 .. n + 1
      /\ c[1] = leak /\ \A j \in 1 .. n : c[j + 1] = G(j)
  BY <1>1
<1>8. \A i \in 1 .. n + 1 : i # 1 => i - 1 \in 1 .. n /\ c[i] = G(i - 1) BY <1>1
<1>9. \A i \in 1 .. n + 1 : c[i] \in Vulns(h)
  <2>1. \A i \in 1 .. n + 1 : c[i] = leak \/ c[i] \in GatesOf(hosts) BY <1>3, <1>7, <1>8
  <2> QED BY <1>2, <2>1 DEF Begun
<1>10. c \in Seq(Vulns(h)) BY <1>1, <1>7, <1>9
<1>11. /\ HostOf(h, c[1]) = HostOf(g, leak)
       /\ \A i \in 1 .. n + 1 : i # 1 => HostOf(h, c[i]) = hosts[i - 1]
  BY <1>3, <1>6, <1>7, <1>8 DEF Begun
<1>12. /\ h.nodes[c[1]].flaw = "credential_leak" /\ h.nodes[c[1]].params = g.nodes[leak].params
       /\ \A i \in 1 .. n + 1 : i # 1 =>
            /\ h.nodes[c[i]].flaw = IF i = n + 1 THEN "credential_gated_flag" ELSE "credential_gated_relay"
            /\ h.nodes[c[i]].params = GateParams(hosts, i - 1)
  <2>1. h.nodes[c[1]] = g.nodes[leak] BY <1>6, <1>7 DEF Begun
  <2>2. ASSUME NEW i \in 1 .. n + 1, i # 1
        PROVE  /\ h.nodes[c[i]].flaw = IF i = n + 1 THEN "credential_gated_flag" ELSE "credential_gated_relay"
               /\ h.nodes[c[i]].params = GateParams(hosts, i - 1)
    <3>1. PICK j \in 1 .. n : j = i - 1 /\ c[i] = G(j) BY <1>8, <2>2
    <3>2. i = n + 1 <=> j = n BY <3>1
    <3> QED BY <1>4, <1>5, <3>1, <3>2
  <2> QED BY <2>1, <2>2 DEF Begun
<1>13. Internals(h) = Internals(g) /\ FlagServices(h) = FlagServices(g) /\ Public(h) = Public(g) BY DEF Chains
<1>14. Footed(h)
  <2>1. Pivot \in Vulns(g) /\ g.nodes[Pivot].flaw = "ssrf" BY DEF Begun, Footed, OfKind
  <2>2. Pivot \in OfKind(h, "ssrf") BY <1>6, <2>1 DEF OfKind
  <2>3. ASSUME NEW v \in OfKind(h, "ssrf") PROVE v[2] = "ssrf"
    <3>1. v \in Vulns(h) /\ h.nodes[v].flaw = "ssrf" BY DEF OfKind
    <3>2. CASE v \in Vulns(g) BY <1>6, <3>1, <3>2 DEF Begun, Footed, OfKind
    <3>3. CASE v \in GatesOf(hosts)
      <4>1. PICK j \in 1 .. n : v = G(j) BY <3>3 DEF GatesOf, G
      <4> QED BY <1>4, <1>5, <3>1, <4>1
    <3> QED BY <1>2, <3>1, <3>2, <3>3
  <2>4. Target(h, Pivot) = Target(g, Pivot) BY <1>6, <2>1
  <2>5. PublicEndpoints(g) \subseteq PublicEndpoints(h)
    <3>1. Links(g, "exposes") \subseteq Links(h, "exposes") BY DEF Chains
    <3>2. \A s : Dsts(g, "exposes", s) \subseteq Dsts(h, "exposes", s) BY <3>1, EndsOfLinks
    <3> QED BY <1>13, <3>2 DEF PublicEndpoints
  <2>6. Target(g, Pivot) \in DOMAIN g.nodes BY <2>1, TargetIs DEF Begun, Structured, by_kind
  <2>7. h.nodes[Target(g, Pivot)] = g.nodes[Target(g, Pivot)] BY <1>2, <2>6
  <2> QED BY <2>2, <2>3, <2>4, <2>5, <2>7 DEF Begun, Footed
<1>15. ChainNodes(h, c)
  <2>1. ASSUME NEW v \in Vulns(h), h.nodes[v].flaw \in ChainFlaws PROVE \E i \in 1 .. Len(c) : v = c[i]
    <3>1. CASE v \in Vulns(g)
      <4>1. v = leak BY <1>6, <2>1, <3>1 DEF Begun
      <4>2. 1 \in 1 .. Len(c) BY <1>7
      <4> QED BY <1>7, <4>1, <4>2
    <3>2. CASE v \in GatesOf(hosts)
      <4>1. PICK j \in 1 .. n : v = G(j) BY <3>2 DEF GatesOf, G
      <4>2. j + 1 \in 1 .. Len(c) /\ c[j + 1] = v BY <1>7, <4>1
      <4> QED BY <4>2
    <3> QED BY <1>2, <3>1, <3>2
  <2>2. \A i \in 2 .. Len(c) - 1 : h.nodes[c[i]].flaw = "credential_gated_relay"
    <3> TAKE i \in 2 .. Len(c) - 1
    <3>1. i \in 1 .. n + 1 /\ i # 1 /\ i # n + 1 BY <1>7
    <3> QED BY <1>12, <3>1
  <2>3. h.nodes[c[Len(c)]].flaw = "credential_gated_flag"
    <3>1. Len(c) = n + 1 /\ n + 1 \in 1 .. n + 1 /\ n + 1 # 1 BY <1>7
    <3> QED BY <1>12, <3>1
  <2>4. Len(c) >= 2 BY <1>7
  <2> QED BY <1>10, <1>12, <2>1, <2>2, <2>3, <2>4 DEF ChainNodes
<1>16. ChainHosts(h, c)
  <2>1. ASSUME NEW i \in 1 .. n + 1, NEW j \in 1 .. n + 1, HostOf(h, c[i]) = HostOf(h, c[j]) PROVE i = j
    <3>1. CASE i = 1 /\ j = 1 BY <3>1
    <3>2. CASE i # 1 /\ j = 1
      <4>1. i - 1 \in 1 .. n /\ hosts[i - 1] = HostOf(g, leak) BY <1>8, <1>11, <2>1, <3>2
      <4> QED BY <4>1 DEF Begun
    <3>3. CASE i = 1 /\ j # 1
      <4>1. j - 1 \in 1 .. n /\ hosts[j - 1] = HostOf(g, leak) BY <1>8, <1>11, <2>1, <3>3
      <4> QED BY <4>1 DEF Begun
    <3>4. CASE i # 1 /\ j # 1
      <4>1. i - 1 \in 1 .. n /\ j - 1 \in 1 .. n /\ hosts[i - 1] = hosts[j - 1] BY <1>8, <1>11, <2>1, <3>4
      <4>2. i - 1 = j - 1 BY <4>1 DEF Begun
      <4> QED BY <4>2
    <3> QED BY <3>1, <3>2, <3>3, <3>4
  <2>2. \A i \in 1 .. n + 1 : HostOf(h, c[i]) \in Internals(g) BY <1>8, <1>11 DEF Begun
  <2>3. h.nodes[Pivot].params.hosts = Internals(g)
    <3>1. h.nodes[Pivot] = g.nodes[Pivot] BY <1>6 DEF Begun, Footed, OfKind
    <3> QED BY <3>1 DEF Begun
  <2>4. HostOf(h, c[n + 1]) = hosts[n]
    <3>1. n + 1 \in 1 .. n + 1 /\ n + 1 # 1 /\ n + 1 - 1 = n BY <1>7
    <3> QED BY <1>11, <3>1
  <2>5. FlagServices(g) = {hosts[n]} BY DEF Begun
  <2> QED BY <1>7, <1>13, <2>1, <2>2, <2>3, <2>4, <2>5 DEF ChainHosts
<1>17. ChainNames(h, c)
  <2>1. \A j \in 1 .. n : hosts[j] \in ServiceIds
    <3>1. Internals(g) \subseteq ServiceIds BY KindSets DEF Begun, Structured, Framed, Internals
    <3> QED BY <3>1 DEF Begun
  <2>2. SUFFICES ASSUME NEW i \in 1 .. n
                 PROVE  /\ h.nodes[c[i]].params.host = HostOf(h, c[i + 1])
                        /\ Emitted(h, c[i]) = h.nodes[c[i + 1]].params.credential
    BY <1>7 DEF ChainNames
  <2>3. i + 1 \in 1 .. n + 1 /\ i + 1 # 1 /\ i + 1 - 1 = i /\ i \in 1 .. n + 1 BY <1>7
  <2>4. HostOf(h, c[i + 1]) = hosts[i] /\ h.nodes[c[i + 1]].params = GateParams(hosts, i) BY <1>11, <1>12, <2>3
  <2>5. GateParams(hosts, i).credential = <<"token", i, 0>> BY <2>1, GateParamsIs
  <2>6. CASE i = 1
    <3>1. h.nodes[c[1]].params.host = hosts[1] /\ h.nodes[c[1]].params.credential = <<"token", 1, 0>>
      BY <1>12 DEF Begun
    <3>2. Emitted(h, c[1]) = h.nodes[c[1]].params.credential BY <1>12 DEF Emitted
    <3> QED BY <2>4, <2>5, <2>6, <3>1, <3>2
  <2>7. CASE i # 1
    <3>1. PICK j \in 1 .. n : j = i - 1 BY <2>7
    <3>2. j # n /\ j + 1 = i BY <3>1
    <3>3. h.nodes[c[i]].flaw = "credential_gated_relay" /\ h.nodes[c[i]].params = GateParams(hosts, j)
      <4>1. i # n + 1 OBVIOUS
      <4> QED BY <1>12, <2>3, <2>7, <3>1, <4>1
    <3>4. GateParams(hosts, j).next_credential = <<"token", j + 1, 0>> /\ GateParams(hosts, j).host = hosts[j + 1]
      BY <2>1, <3>2, GateParamsIs
    <3>5. Emitted(h, c[i]) = h.nodes[c[i]].params.next_credential BY <3>3 DEF Emitted
    <3> QED BY <2>4, <2>5, <3>2, <3>3, <3>4, <3>5
  <2> QED BY <2>6, <2>7
<1>18. ChainCreds(h, c)
  <2>1. Links(h, "requires_credential") = {Edge("requires_credential", VaultAt(hosts, j), CredAt(j)) : j \in 1 .. n}
    BY DEF Chains
  <2>2. \A i, j \in 1 .. n : CredAt(i) = CredAt(j) => i = j
    <3> SUFFICES ASSUME NEW i \in 1 .. n, NEW j \in 1 .. n, CredAt(i) = CredAt(j) PROVE i = j OBVIOUS
    <3>1. i - 1 = j - 1 BY DEF CredAt
    <3> QED BY <3>1
  <2>3. \A i, j \in 1 .. n : VaultAt(hosts, i) = VaultAt(hosts, j) => i = j
    <3> SUFFICES ASSUME NEW i \in 1 .. n, NEW j \in 1 .. n, VaultAt(hosts, i) = VaultAt(hosts, j) PROVE i = j OBVIOUS
    <3>1. hosts[i][2] = hosts[j][2] BY DEF VaultAt
    <3>2. Internals(g) \subseteq ServiceIds BY KindSets DEF Begun, Structured, Framed, Internals
    <3>3. hosts[i] \in ServiceIds /\ hosts[j] \in ServiceIds BY <3>2 DEF Begun
    <3>4. hosts[i] = hosts[j] BY <3>1, <3>3 DEF ServiceIds
    <3> QED BY <3>4 DEF Begun
  <2>4. \A l \in Links(h, "requires_credential") : \E j \in 1 .. n : l.src = VaultAt(hosts, j) /\ l.dst = CredAt(j)
    BY <2>1, EdgeFields
  <2>5. ASSUME NEW e \in Links(h, "requires_credential"), NEW f \in Links(h, "requires_credential"), e.dst = f.dst
        PROVE  e.src = f.src
    BY <2>2, <2>4, <2>5
  <2>6. ASSUME NEW i \in 2 .. n + 1
        PROVE  /\ h.nodes[Target(h, c[i])].path = "vault"
               /\ \E x \in by_kind(h, "credential") : Dsts(h, "requires_credential", Target(h, c[i])) = {x}
    <3>1. PICK j \in 1 .. n : c[i] = G(j)
      <4>1. i \in 1 .. n + 1 /\ i # 1 BY <1>7
      <4> QED BY <1>8, <4>1
    <3>2. Target(h, c[i]) = VaultAt(hosts, j) /\ h.nodes[VaultAt(hosts, j)] = Endpoint("vault") BY <1>3, <3>1
    <3>3. CredAt(j) \in by_kind(h, "credential") BY DEF Chains, CredsOf
    <3>4. Dsts(h, "requires_credential", VaultAt(hosts, j)) = {CredAt(j)}
      <4>1. PICK l : l = Edge("requires_credential", VaultAt(hosts, j), CredAt(j)) OBVIOUS
      <4>2. l \in Links(h, "requires_credential") /\ l.src = VaultAt(hosts, j) /\ l.dst = CredAt(j)
        BY <2>1, <4>1, EdgeFields
      <4>3. \A x \in Links(h, "requires_credential") : x.src = VaultAt(hosts, j) => x.dst = CredAt(j) BY <2>3, <2>4
      <4>4. Dsts(h, "requires_credential", VaultAt(hosts, j))
              = {x.dst : x \in {x \in Links(h, "requires_credential") : x.src = VaultAt(hosts, j)}}
        BY EndsOfLinks
      <4> QED BY <4>2, <4>3, <4>4
    <3> QED BY <3>2, <3>3, <3>4, NodeFields
  <2>7. Cardinality(by_kind(h, "credential")) = Len(c) - 1 BY <1>7 DEF Chains
  <2> QED BY <1>7, <2>5, <2>6, <2>7 DEF ChainCreds
<1>19. Framed(g) BY DEF Begun, Structured
<1>20. \A l \in Links(h, "enables") :
          \/ l \in Links(g, "enables") /\ l.src \in Vulns(g) /\ l.dst \in Vulns(g)
          \/ \E j \in 1 .. n : l.src = c[j] /\ l.dst = c[j + 1] /\ l = Edge("enables", c[j], c[j + 1])
  <2>1. TAKE l \in Links(h, "enables")
  <2>2. CASE l \in Links(g, "enables") BY <1>19, <2>2, EnablesEnds
  <2>3. CASE l \notin Links(g, "enables")
    <3>1. PICK j \in 1 .. n : l = Edge("enables", GateBefore(hosts, leak, j), GateVuln(hosts, j))
      BY <2>3 DEF Chains
    <3>2. GateVuln(hosts, j) = c[j + 1] BY <1>7 DEF G
    <3>3. GateBefore(hosts, leak, j) = c[j] BY <1>7, <1>8 DEF GateBefore, G
    <3> QED BY <3>1, <3>2, <3>3, EdgeFields
  <2> QED BY <2>2, <2>3
<1>21. ChainLinks(h, c)
  <2>1. ASSUME NEW e \in Links(h, "enables"), h.nodes[e.dst].flaw \in GateFlaws
        PROVE  \E i \in 1 .. Len(c) - 1 : e.src = c[i] /\ e.dst = c[i + 1]
    <3>1. CASE e.dst \in Vulns(g)
      <4>1. h.nodes[e.dst].flaw = g.nodes[e.dst].flaw BY <1>6, <3>1
      <4>2. e.dst = leak BY <2>1, <3>1, <4>1 DEF Begun, ChainFlaws
      <4> QED BY <2>1, <4>1, <4>2 DEF Begun, GateFlaws
    <3>2. CASE ~(e.dst \in Vulns(g)) BY <1>7, <1>20, <3>2
    <3> QED BY <3>1, <3>2
  <2>2. \A i \in 1 .. Len(c) - 1 : Edge("enables", c[i], c[i + 1]) \in Links(h, "enables")
    <3>1. TAKE i \in 1 .. Len(c) - 1
    <3>2. i \in 1 .. n BY <1>7
    <3>3. GateVuln(hosts, i) = c[i + 1] BY <1>7, <3>2 DEF G
    <3>4. GateBefore(hosts, leak, i) = c[i] BY <1>7, <1>8, <3>2 DEF GateBefore, G
    <3>5. Edge("enables", GateBefore(hosts, leak, i), GateVuln(hosts, i)) \in Links(h, "enables") BY <3>2 DEF Chains
    <3> QED BY <3>3, <3>4, <3>5
  <2> QED BY <2>1, <2>2 DEF ChainLinks
<1>22. VaultsAside(h)
  <2>1. SUFFICES ASSUME NEW v \in Vulns(h), h.nodes[Target(h, v)].path = "vault" PROVE h.nodes[v].flaw \in GateFlaws
    BY DEF VaultsAside
  <2>2. CASE v \in Vulns(g)
    <3>1. Target(g, v) \in by_kind(g, "endpoint") BY <1>19, <2>2, TargetIs
    <3>2. h.nodes[Target(g, v)] = g.nodes[Target(g, v)] BY <1>2, <3>1 DEF by_kind
    <3> QED BY <1>6, <2>1, <2>2, <3>1, <3>2 DEF Begun
  <2>3. CASE v \in GatesOf(hosts)
    <3>1. PICK j \in 1 .. n : v = G(j) BY <2>3 DEF GatesOf, G
    <3> QED BY <1>4, <1>5, <3>1 DEF GateFlaws
  <2> QED BY <1>2, <2>2, <2>3
<1>23. Chain(h, c) BY <1>15, <1>16, <1>17, <1>18, <1>21, <1>22 DEF Chain
<1> QED BY <1>10, <1>14, <1>23 DEF Company


(* A chain is put behind the pivot of a draft.                                     *)
LEMMA LateralizeIs ==
    ASSUME NEW d, Structured(d), NEW n, Drafted(d, n), Apart(d), Pivot \in OfKind(d, "ssrf"),
           NEW g, g = Enabling(d), NEW depth \in 1 .. Len(Others(g)), NEW h, h = _lateralize(g, depth)
    PROVE  /\ Structured(h) /\ Sampled(h) /\ Secluded(h)
           /\ \A v \in Vulns(d) : v \in Vulns(h) /\ Affecting(h, v) = Affecting(d, v)
           /\ Public(h) # {}
           /\ \A t \in DOMAIN h.nodes : t \in EndpointIds => t[3] # "recon"
           /\ \A v \in DOMAIN h.nodes : v \in VulnIds => v[2] # "config_disclosure"
           /\ Company(h)
<1>1. /\ Structured(g) /\ Sampled(g) /\ Secluded(g)
      /\ g.nodes = d.nodes /\ Vulns(g) = Vulns(d) /\ Public(g) = Public(d) /\ Internals(g) = Internals(d)
      /\ _flag_store(g) = _flag_store(d) /\ FlagServices(g) = FlagServices(d)
      /\ \A k : k # "enables" => Links(g, k) = Links(d, k)
      /\ \A l \in Links(g, "enables") : l.src \in Vulns(d) /\ l.dst \in Vulns(d)
      /\ \A v \in Vulns(d) : Affecting(g, v) = Affecting(d, v) /\ Target(g, v) = Target(d, v)
  BY EnablingIs
<1>2. /\ \A t \in DOMAIN g.nodes : t \in EndpointIds => t[3] \in {"a", "b"}
      /\ \A v \in DOMAIN g.nodes : v \in VulnIds => v[2] \notin _INTERNAL_ONLY_KINDS
      /\ \A c \in DOMAIN g.nodes : c \notin CredIds
      /\ \A v \in Vulns(g) : g.nodes[v].flaw \notin PathFlaws
      /\ \A v \in OfKind(g, "ssrf") : v[2] = "ssrf"
      /\ Pivot \in OfKind(g, "ssrf")
  <2>1. \A k : OfKind(g, k) = OfKind(d, k) BY <1>1 DEF OfKind
  <2> QED BY <1>1, <2>1, DraftIds
<1>3. Framed(g) /\ DOMAIN g = {"nodes", "edges"} /\ \A m \in DOMAIN g.nodes : NodeOK(m, g.nodes[m])
  BY <1>1 DEF Structured, Framed
<1>4. First(OfKind(g, "ssrf")) = Pivot BY <1>2, <1>3, PivotIs
<1>5. Public(g) # {} /\ OfKind(g, "ssrf") # {} /\ \A s \in by_kind(g, "service") : Dsts(g, "exposes", s) # {}
  <2>1. by_kind(g, "service") = by_kind(d, "service") BY <1>1 DEF by_kind
  <2>3. Links(g, "exposes") = Links(d, "exposes") BY <1>1
  <2>2. \A s : Dsts(g, "exposes", s) = Dsts(d, "exposes", s) BY <2>3, SameEnds
  <2> QED BY <1>1, <1>2, <2>1, <2>2 DEF Drafted
<1>6. by_kind(g, "service") \subseteq ServiceIds /\ Internals(g) \subseteq by_kind(g, "service")
  BY <1>3, KindSets DEF Internals
<1>7. PICK fh \in Internals(g) : FlagServices(g) = {fh} /\ fh = CHOOSE s \in FlagServices(g) : TRUE
  <2>1. PICK fh : FlagServices(g) = {fh} /\ g.nodes[fh].kind = "service" /\ fh \in DOMAIN g.nodes BY <1>1, HomeIs
  <2>2. fh \in Internals(g) BY <1>1, <2>1 DEF Internals, by_kind, Apart
  <2> QED BY <2>1, <2>2
<1>8. PICK S : S = Internals(g) \ FlagServices(g) OBVIOUS
<1>9. PICK others : others = Others(g) OBVIOUS
<1>10. /\ others \in Seq(S) /\ Len(others) \in Nat /\ depth \in 1 .. Len(others) /\ Len(others) >= 1
       /\ \A i, j \in 1 .. Len(others) : others[i] = others[j] => i = j
  <2>1. S # {} BY <1>1, <1>8 DEF Apart
  <2>2. Structured(g) BY <1>1
  <2>3. /\ others \in Seq(S) /\ Len(others) \in Nat /\ (S # {} => Len(others) >= 1)
        /\ \A i, j \in 1 .. Len(others) : others[i] = others[j] => i = j
    BY <1>8, <1>9, <2>2, OthersIs
  <2>4. depth \in 1 .. Len(others) BY <1>9
  <2> QED BY <2>1, <2>3, <2>4
<1>11. PICK entry : entry = others[1] OBVIOUS
<1>12. entry \in S
  <2>1. 1 \in 1 .. Len(others) BY <1>10
  <2> QED BY <1>10, <1>11, <2>1
<1>13. PICK hosts : hosts = Append(SubSeq(others, 2, depth), fh) OBVIOUS
<1>14. /\ depth \in Nat /\ depth # 0 /\ Len(hosts) = depth
       /\ hosts[depth] = fh /\ \A j \in 1 .. depth : hosts[j] \in S \cup {fh}
       /\ \A j \in 1 .. depth : hosts[j] # entry
       /\ \A i, j \in 1 .. depth : hosts[i] = hosts[j] => i = j
  <2>1. ~(fh \in S) BY <1>7, <1>8
  <2> QED BY <1>10, <1>11, <1>13, <2>1, HopsAre
<1>15. PICK reach : reach = [Params EXCEPT !.hosts = Internals(g)] OBVIOUS
<1>16. reach \in ParamSet /\ reach.hosts = Internals(g)
  <2>1. Internals(g) \in SUBSET ServiceIds BY <1>6
  <2> QED BY <1>15, <2>1, ParamsIs DEF ParamSet, Params
<1>17. PICK f : f = Foothold(g, reach) OBVIOUS
<1>18. /\ Structured(f) /\ Sampled(f) /\ Secluded(f)
       /\ DOMAIN f.nodes = DOMAIN g.nodes /\ Vulns(f) = Vulns(g)
       /\ \A v \in Vulns(g) : f.nodes[v].flaw = g.nodes[v].flaw /\ Affecting(f, v) = Affecting(g, v)
       /\ f.nodes[Pivot].params = reach
       /\ \A t \in by_kind(g, "endpoint") : f.nodes[t].path = g.nodes[t].path
       /\ by_kind(f, "service") = by_kind(g, "service") /\ Public(f) = Public(g) /\ Internals(f) = Internals(g)
       /\ FlagServices(f) = FlagServices(g)
       /\ \A k : k # "affects" => Links(f, k) = Links(g, k)
       /\ Target(f, Pivot) \in PublicEndpoints(f) /\ f.nodes[Target(f, Pivot)].method = "GET"
  <2>1. Pivot = First(OfKind(g, "ssrf")) BY <1>4
  <2> QED BY <1>1, <1>2, <1>5, <1>16, <1>17, <2>1, FootholdIs
<1>19. PICK path, flaw : path = "credleak" /\ flaw = "credential_leak" OBVIOUS
<1>20. PICK names : names = [Params EXCEPT !.credential = <<"token", 1, 0>>, !.host = hosts[1]] OBVIOUS
<1>21. PICK ep, leak : ep = <<"ep", entry[2], path>> /\ leak = <<"vuln", flaw, 0>> OBVIOUS
<1>22. PICK more : more = {SampledEdge("enables", Pivot, leak)} OBVIOUS
<1>23. path \in Paths /\ flaw \in Flaws BY <1>19 DEF Paths, Flaws, CATALOG
<1>24. /\ names \in ParamSet /\ names.credential = <<"token", 1, 0>> /\ names.host = hosts[1]
  <2>1. 1 \in 1 .. depth BY <1>14
  <2>2. hosts[1] \in ServiceIds BY <1>6, <1>7, <1>8, <1>14, <2>1
  <2>3. <<"token", 1, 0>> \in Values BY DEF Values
  <2> QED BY <1>20, <2>2, <2>3, ParamsIs DEF ParamSet, Params
<1>25. entry \in by_kind(f, "service") /\ entry \in ServiceIds BY <1>6, <1>8, <1>12, <1>18
<1>26. ep \in EndpointIds /\ ep[3] = path /\ leak \in VulnIds /\ leak[2] = flaw
  <2>1. entry[2] \in Nat BY <1>25 DEF ServiceIds
  <2> QED BY <1>21, <1>23, <2>1 DEF EndpointIds, VulnIds
<1>27. ep \notin DOMAIN f.nodes /\ leak \notin DOMAIN f.nodes
  BY <1>2, <1>18, <1>19, <1>26 DEF _INTERNAL_ONLY_KINDS
<1>28. Fresh(f, ep, leak, more)
  <2>1. Pivot \in Vulns(f) BY <1>2, <1>18 DEF OfKind
  <2>2. \A e \in more : e[2] = "enables" /\ e[3] = Pivot /\ e[4] = leak BY <1>22, SampledEdgeIs
  <2> QED BY <1>27, <2>1, <2>2 DEF Fresh
<1>29. PICK a : a = Annexed(f, entry, path, flaw, names, more) OBVIOUS
<1>30. Annexes(f, a, entry, ep, leak, more) /\ a.nodes[ep] = Endpoint(path) /\ a.nodes[leak] = Vuln(flaw, names)
  BY <1>18, <1>21, <1>23, <1>24, <1>25, <1>28, <1>29, AnnexedIs
<1>31. Structured(a) /\ Sampled(a) /\ Secluded(a) BY <1>30 DEF Annexes
<1>32. PICK decoy : decoy = <<"decoy", 0, 0>> OBVIOUS
<1>33. decoy \in Values BY <1>32 DEF Values
<1>34. PICK b : b = WithNodes(a, Single(record_id, Holder("record", decoy))) OBVIOUS
<1>35. Revalued(a, b) /\ \A m \in DOMAIN a.nodes : m # record_id => b.nodes[m] = a.nodes[m]
  BY <1>31, <1>33, <1>34, DecoyIs
<1>36. Structured(b) /\ SameRead(a, b) /\ Sampled(b) /\ Secluded(b) BY <1>31, <1>35, RevaluedIs
<1>37. h = Chained(b, leak, hosts)
  <2>1. PICK plain : plain = WithNodes(f, Overridden(Single(ep, Endpoint(path)), Single(leak, Vuln(flaw, names)))) OBVIOUS
  <2>2. PICK ids : ids = {SampledEdge("exposes", entry, ep), SampledEdge("affects", leak, ep)} \cup more OBVIOUS
  <2>3. a = WithEdges(plain, ids) BY <1>21, <1>29, <2>1, <2>2 DEF Annexed
  <2>4. DOMAIN plain = {"nodes", "edges"}
    <3>1. DOMAIN f = {"nodes", "edges"} BY <1>18 DEF Structured, Framed
    <3> QED BY <2>1, <3>1, WithNodesIs
  <2>5. b = WithEdges(WithNodes(plain, Single(record_id, Holder("record", decoy))), ids)
    BY <1>34, <2>3, <2>4, Commute
  <2>6. ids = {SampledEdge("exposes", entry, ep), SampledEdge("affects", leak, ep), SampledEdge("enables", Pivot, leak)}
    BY <1>22, <2>2
  <2>7. h = Chained(WithEdges(WithNodes(WithNodes(f, Overridden(Single(ep, Endpoint(path)), Single(leak, Vuln(flaw, names)))),
                                        Single(record_id, Holder("record", decoy))),
                              {SampledEdge("exposes", entry, ep), SampledEdge("affects", leak, ep),
                               SampledEdge("enables", Pivot, leak)}), leak, hosts)
    <3>1. h = _lateralize(g, depth) OBVIOUS
    <3> QED BY <3>1, <1>4, <1>7, <1>9, <1>11, <1>13, <1>15, <1>17, <1>19, <1>20, <1>21, <1>32, Zenon DEF _lateralize
  <2> QED BY <2>1, <2>5, <2>6, <2>7, Zenon
<1>38. /\ DOMAIN b.nodes = DOMAIN f.nodes \cup {ep, leak}
       /\ Vulns(b) = Vulns(f) \cup {leak} /\ HostOf(b, leak) = entry
       /\ \A w \in Vulns(f) : Affecting(b, w) = Affecting(f, w) /\ Target(b, w) = Target(f, w)
       /\ by_kind(b, "endpoint") = by_kind(f, "endpoint") \cup {ep}
       /\ by_kind(b, "service") = by_kind(f, "service")
       /\ Public(b) = Public(f) /\ Internals(b) = Internals(f) /\ FlagServices(b) = FlagServices(f)
       /\ Links(b, "requires_credential") = Links(f, "requires_credential")
       /\ Links(f, "exposes") \subseteq Links(b, "exposes")
  BY <1>30, <1>35, <1>36 DEF Annexes, SameRead, Revalued
<1>39. \A m \in DOMAIN f.nodes : m # record_id => b.nodes[m] = f.nodes[m]
  BY <1>30, <1>35 DEF Annexes
<1>40. b.nodes[ep] = Endpoint(path) /\ b.nodes[leak] = Vuln(flaw, names)
  <2>1. ep # record_id /\ leak # record_id BY <1>26 DEF record_id, EndpointIds, VulnIds
  <2>2. ep \in DOMAIN a.nodes /\ leak \in DOMAIN a.nodes BY <1>30 DEF Annexes
  <2> QED BY <1>30, <1>35, <2>1, <2>2
<1>41. \A m \in DOMAIN f.nodes : m \in VulnIds \cup EndpointIds => b.nodes[m] = f.nodes[m]
  BY <1>39 DEF record_id, EndpointIds, VulnIds
<1>42. /\ \A m \in DOMAIN f.nodes : NodeOK(m, f.nodes[m])
       /\ \A m \in DOMAIN b.nodes : NodeOK(m, b.nodes[m])
  BY <1>18, <1>36 DEF Structured, Framed
<1>43. Vulns(f) \subseteq VulnIds /\ by_kind(f, "endpoint") \subseteq EndpointIds
       /\ Vulns(f) \subseteq DOMAIN f.nodes /\ by_kind(f, "endpoint") \subseteq DOMAIN f.nodes
  BY <1>42, KindSets
<1>44. by_kind(f, "endpoint") = by_kind(g, "endpoint") BY <1>3, <1>18, <1>42, KindSets
<1>54. /\ \A t \in DOMAIN b.nodes : t \in EndpointIds => t[3] \in {"a", "b", "credleak"}
       /\ \A v \in DOMAIN b.nodes : v \in VulnIds => v[2] \notin _INTERNAL_ONLY_KINDS \/ v[2] = "credential_leak"
  <2>1. EndpointIds \cap VulnIds = {} BY DEF EndpointIds, VulnIds
  <2>2. \A m \in DOMAIN b.nodes : m \in DOMAIN g.nodes \/ m = ep \/ m = leak BY <1>18, <1>38
  <2> QED BY <1>2, <1>19, <1>26, <2>1, <2>2
<1>45. Unchained(b)
  <2>1. \A t \in DOMAIN b.nodes : t \in EndpointIds => t[3] # "vault" BY <1>54
  <2>2. \A v \in DOMAIN b.nodes : v \in VulnIds => v[2] \notin GateFlaws
    BY <1>54 DEF GateFlaws, _INTERNAL_ONLY_KINDS
  <2>3. \A c \in DOMAIN b.nodes : c \notin CredIds
    <3>1. ep \notin CredIds /\ leak \notin CredIds BY <1>26 DEF EndpointIds, VulnIds, CredIds
    <3> QED BY <1>2, <1>18, <1>38, <3>1
  <2> QED BY <2>1, <2>2, <2>3 DEF Unchained
<1>46. Links(b, "requires_credential") = {}
  <2>1. Links(d, "requires_credential") = {} BY DEF Drafted, Links
  <2> QED BY <1>1, <1>18, <1>38, <2>1
<1>47. Chains(b, h, leak, hosts)
  <2>1. leak \in Vulns(b) BY <1>38
  <2>2. \A j \in 1 .. depth : hosts[j] \in by_kind(b, "service")
    <3>1. S \cup {fh} \subseteq by_kind(b, "service") BY <1>6, <1>7, <1>8, <1>18, <1>38
    <3> QED BY <1>14, <3>1
  <2>3. depth \in Nat /\ depth = Len(hosts) /\ \A i, j \in 1 .. depth : hosts[i] = hosts[j] => i = j BY <1>14
  <2> QED BY <1>36, <1>37, <1>45, <1>46, <2>1, <2>2, <2>3, ChainedIs
<1>48. Footed(b)
  <2>1. Pivot \in Vulns(f) /\ f.nodes[Pivot].flaw = "ssrf" BY <1>2, <1>18 DEF OfKind
  <2>2. Pivot \in OfKind(b, "ssrf") BY <1>38, <1>41, <1>43, <2>1 DEF OfKind
  <2>3. ASSUME NEW v \in OfKind(b, "ssrf") PROVE v[2] = "ssrf"
    <3>1. v \in Vulns(b) /\ b.nodes[v].flaw = "ssrf" BY DEF OfKind
    <3>2. v # leak BY <1>19, <1>40, <3>1, NodeFields
    <3>3. v \in Vulns(f) /\ b.nodes[v] = f.nodes[v] BY <1>38, <1>41, <1>43, <3>1, <3>2
    <3>4. v \in OfKind(g, "ssrf") BY <1>18, <3>1, <3>3 DEF OfKind
    <3> QED BY <1>2, <3>4
  <2>4. Target(b, Pivot) = Target(f, Pivot) BY <1>38, <2>1
  <2>5. PublicEndpoints(f) \subseteq PublicEndpoints(b)
    <3>1. \A s : Dsts(f, "exposes", s) \subseteq Dsts(b, "exposes", s) BY <1>38, EndsOfLinks
    <3> QED BY <1>38, <3>1 DEF PublicEndpoints
  <2>6. Target(f, Pivot) \in by_kind(f, "endpoint") BY <1>18, <2>1, TargetIs DEF Structured
  <2>7. b.nodes[Target(f, Pivot)] = f.nodes[Target(f, Pivot)] BY <1>41, <1>43, <2>6
  <2> QED BY <1>18, <2>2, <2>3, <2>4, <2>5, <2>7 DEF Footed
<1>49. Begun(b, leak, hosts)
  <2>1. leak \in Vulns(b) /\ b.nodes[leak].flaw = "credential_leak" /\ b.nodes[leak].params = names
    BY <1>19, <1>38, <1>40, NodeFields
  <2>2. ASSUME NEW v \in Vulns(b), v # leak PROVE b.nodes[v].flaw \notin ChainFlaws
    <3>1. v \in Vulns(f) /\ b.nodes[v] = f.nodes[v] BY <1>38, <1>41, <1>43, <2>2
    <3> QED BY <1>2, <1>18, <3>1 DEF PathFlaws
  <2>3. ASSUME NEW t \in by_kind(b, "endpoint") PROVE b.nodes[t].path # "vault"
    <3>1. CASE t = ep BY <1>19, <1>40, <3>1, NodeFields
    <3>2. CASE t # ep
      <4>1. t \in by_kind(f, "endpoint") /\ b.nodes[t] = f.nodes[t] BY <1>38, <1>41, <1>43, <3>2
      <4>2. b.nodes[t].path = d.nodes[t].path BY <1>1, <1>18, <1>44, <4>1
      <4>3. t \in by_kind(d, "endpoint") BY <1>1, <1>44, <4>1 DEF by_kind
      <4> QED BY <4>2, <4>3 DEF Drafted
    <3> QED BY <3>1, <3>2
  <2>4. HostOf(b, leak) = entry /\ entry \in Internals(b) BY <1>8, <1>12, <1>18, <1>38
  <2>5. b.nodes[Pivot].params.hosts = Internals(b)
    <3>1. Pivot \in Vulns(f) BY <1>2, <1>18 DEF OfKind
    <3>2. b.nodes[Pivot] = f.nodes[Pivot] BY <1>41, <1>43, <3>1
    <3> QED BY <1>16, <1>18, <1>38, <3>2
  <2>6. FlagServices(b) = {hosts[Len(hosts)]} BY <1>7, <1>14, <1>18, <1>38
  <2>7. \A j \in 1 .. Len(hosts) : hosts[j] \in Internals(b) /\ hosts[j] # HostOf(b, leak)
    <3>1. S \cup {fh} \subseteq Internals(b) BY <1>7, <1>8, <1>18, <1>38
    <3> QED BY <1>14, <2>4, <3>1
  <2>8. \A i, j \in 1 .. Len(hosts) : hosts[i] = hosts[j] => i = j BY <1>14
  <2> QED BY <1>24, <1>36, <1>48, <2>1, <2>2, <2>3, <2>4, <2>5, <2>6, <2>7, <2>8 DEF Begun
<1>50. Company(h)
  <2>1. depth \in Nat \ {0} /\ depth = Len(hosts) BY <1>14
  <2> QED BY <1>47, <1>49, <2>1, ChainBegins
<1>51. Structured(h) /\ Sampled(h) /\ Secluded(h) /\ Public(h) = Public(b) BY <1>47 DEF Chains
<1>52. \A v \in Vulns(d) : v \in Vulns(h) /\ Affecting(h, v) = Affecting(d, v)
  <2>1. \A v \in Vulns(b) : v \in Vulns(h) /\ Affecting(h, v) = Affecting(b, v) BY <1>47 DEF Chains
  <2> QED BY <1>1, <1>18, <1>38, <2>1
<1>53. /\ \A t \in DOMAIN h.nodes : t \in EndpointIds => t[3] # "recon"
       /\ \A v \in DOMAIN h.nodes : v \in VulnIds => v[2] # "config_disclosure"
  <2>1. DOMAIN h.nodes = DOMAIN b.nodes \cup CredsOf(hosts) \cup VaultsOf(hosts) \cup GatesOf(hosts) BY <1>47 DEF Chains
  <2>2. \A c \in CredsOf(hosts) : c[1] = "cred" BY DEF CredsOf, CredAt
  <2>3. \A t \in VaultsOf(hosts) : t[1] = "ep" /\ t[3] = "vault" BY DEF VaultsOf, VaultAt
  <2>4. \A v \in GatesOf(hosts) : v[1] = "vuln" /\ v[2] \in GateFlaws BY DEF GatesOf, GateVuln, GateFlaws
  <2>5. \A t \in DOMAIN b.nodes : t \in EndpointIds => t[3] # "recon" BY <1>54
  <2>6. \A v \in DOMAIN b.nodes : v \in VulnIds => v[2] # "config_disclosure"
    BY <1>54 DEF _INTERNAL_ONLY_KINDS
  <2>7. \A t \in EndpointIds : t[1] = "ep" BY DEF EndpointIds
  <2>8. \A v \in VulnIds : v[1] = "vuln" BY DEF VulnIds
  <2> QED BY <2>1, <2>2, <2>3, <2>4, <2>5, <2>6, <2>7, <2>8 DEF GateFlaws
<1> QED BY <1>18, <1>38, <1>50, <1>51, <1>52, <1>53, <1>5


(* What is composed of a draft, before and after the internal hosts are told.           *)
Composed(d, h, company) ==
    /\ Structured(h) /\ Secluded(h) /\ Named(h)
    /\ \A v \in Vulns(d) : v \in Vulns(h) /\ Affecting(h, v) = Affecting(d, v)
    /\ IF company THEN Company(h) ELSE FlatGates(h)

Untold(h) ==
    /\ Sampled(h) /\ Public(h) # {}
    /\ \A t \in DOMAIN h.nodes : t \in EndpointIds => t[3] # "recon"
    /\ \A v \in DOMAIN h.nodes : v \in VulnIds => v[2] # "config_disclosure"

LEMMA ToldIs ==
    ASSUME NEW d, NEW h, NEW company \in BOOLEAN, Composed(d, h, company), Untold(h),
           NEW told, told = h \/ told = _add_recon_disclosure(h)
    PROVE  Composed(d, told, company)
<1>1. CASE told = h BY <1>1
<1>2. CASE told = _add_recon_disclosure(h)
  <2>1. /\ Structured(h) /\ Sampled(h) /\ Secluded(h) /\ Public(h) # {}
        /\ \A t \in DOMAIN h.nodes : t \in EndpointIds => t[3] # "recon"
        /\ \A v \in DOMAIN h.nodes : v \in VulnIds => v[2] # "config_disclosure"
    BY DEF Composed, Untold
  <2>2. /\ Structured(told) /\ Secluded(told) /\ Sampled(told)
        /\ FlatGates(h) => FlatGates(told)
        /\ Company(h) => Company(told)
        /\ \A v \in Vulns(h) : v \in Vulns(told) /\ Affecting(told, v) = Affecting(h, v)
    BY <1>2, <2>1, ReconIs
  <2>3. Named(told) BY <2>2 DEF Sampled, Named, Affects
  <2> QED BY <2>2, <2>3 DEF Composed
<1> QED BY <1>1, <1>2

LEMMA ComposedIs ==
    ASSUME WorldInv, Compose
    PROVE  Composed(graph, graph', prior.company)
<1>1. /\ Structured(graph) /\ Drafted(graph, draws) /\ prior \in Priors
      /\ prior.company => Apart(graph) /\ Pivot \in OfKind(graph, "ssrf")
  BY DEF WorldInv, Compose
<1>2. prior.company \in BOOLEAN /\ prior.lateral \in BOOLEAN /\ (prior.lateral => prior.company)
  <2>1. prior \in Priors BY <1>1
  <2> QED BY <2>1, PriorIs
<1>3. PICK g : g = Enabling(graph) OBVIOUS
<1>4. /\ Structured(g) /\ Vulns(g) = Vulns(graph) /\ g.nodes = graph.nodes
      /\ FlagServices(g) = FlagServices(graph) /\ Public(g) = Public(graph) /\ Internals(g) = Internals(graph)
  BY <1>1, <1>3, EnablingIs
<1> DEFINE told(h) == IF prior.company /\ prior.recon THEN _add_recon_disclosure(h) ELSE h
<1>5. IF ~prior.lateral THEN graph' = told(_networkize_ssrf(g))
      ELSE IF ~Pivotable(g) \/ Others(g) = <<>> THEN graph' = told(g)
      ELSE \E depth \in Depths(g, prior) : graph' = told(_lateralize(g, depth))
  BY <1>3 DEF Compose
<1>6. \A h : told(h) = h \/ told(h) = _add_recon_disclosure(h) OBVIOUS
<1> HIDE DEF told
<1>7. SUFFICES \E h : Composed(graph, h, prior.company) /\ Untold(h) /\ graph' = told(h)
  <2>1. PICK h : Composed(graph, h, prior.company) /\ Untold(h) /\ graph' = told(h) BY <1>7
  <2>2. graph' = h \/ graph' = _add_recon_disclosure(h) BY <1>6, <2>1
  <2> QED BY <1>2, <2>1, <2>2, ToldIs
<1>8. CASE ~prior.lateral
  <2>1. PICK h : h = _networkize_ssrf(g) OBVIOUS
  <2>2. /\ Structured(h) /\ Sampled(h) /\ Secluded(h)
        /\ \A v \in Vulns(graph) : v \in Vulns(h) /\ Affecting(h, v) = Affecting(graph, v)
        /\ FlatGates(h) /\ Public(h) # {}
        /\ \A t \in DOMAIN h.nodes : t \in EndpointIds => t[3] # "recon"
        /\ \A v \in DOMAIN h.nodes : v \in VulnIds => v[2] # "config_disclosure"
        /\ Apart(graph) /\ Pivot \in OfKind(graph, "ssrf") => Company(h)
    BY <1>1, <1>3, <2>1, NetworkizeIs
  <2>5. Named(h) BY <2>2 DEF Sampled, Named, Affects
  <2>3. Composed(graph, h, prior.company) BY <1>1, <1>2, <2>2, <2>5 DEF Composed
  <2>4. Untold(h) BY <2>2 DEF Untold
  <2> QED BY <1>5, <1>8, <2>1, <2>3, <2>4
<1>9. CASE prior.lateral
  <2>1. Apart(graph) /\ Pivot \in OfKind(graph, "ssrf") BY <1>1, <1>2, <1>9
  <2>2. Pivotable(g)
    <3>1. OfKind(g, "ssrf") = OfKind(graph, "ssrf") BY <1>4 DEF OfKind
    <3> QED BY <1>4, <2>1, <3>1 DEF Pivotable, Apart
  <2>3. PICK others : others = Others(g) OBVIOUS
  <2>4. Others(g) # <<>>
    <3>1. PICK S : S = Internals(g) \ FlagServices(g) BY Zenon
    <3>2. S # {} BY <1>4, <2>1, <3>1 DEF Apart
    <3>3. Len(others) >= 1 BY <1>4, <2>3, <3>1, <3>2, OthersIs
    <3>4. Len(<<>>) = 0 OBVIOUS
    <3> QED BY <2>3, <3>3, <3>4
  <2>5. PICK depth \in Depths(g, prior) : graph' = told(_lateralize(g, depth)) BY <1>5, <1>9, <2>2, <2>4
  <2>6. depth \in 1 .. Len(Others(g)) BY <1>4, DepthIs
  <2>7. PICK h : h = _lateralize(g, depth) OBVIOUS
  <2>8. /\ Structured(h) /\ Sampled(h) /\ Secluded(h)
        /\ \A v \in Vulns(graph) : v \in Vulns(h) /\ Affecting(h, v) = Affecting(graph, v)
        /\ Public(h) # {}
        /\ \A t \in DOMAIN h.nodes : t \in EndpointIds => t[3] # "recon"
        /\ \A v \in DOMAIN h.nodes : v \in VulnIds => v[2] # "config_disclosure"
        /\ Company(h)
    BY <1>1, <1>3, <2>1, <2>6, <2>7, LateralizeIs
  <2>11. Named(h) BY <2>8 DEF Sampled, Named, Affects
  <2>9. Composed(graph, h, prior.company) BY <1>2, <1>9, <2>8, <2>11 DEF Composed
  <2>10. Untold(h) BY <2>8 DEF Untold
  <2> QED BY <2>5, <2>7, <2>9, <2>10
<1> QED BY <1>2, <1>8, <1>9

LEMMA ComposeKeeps == WorldInv /\ Compose => WorldInv'
<1> SUFFICES ASSUME WorldInv, Compose PROVE WorldInv' OBVIOUS
<1>1. Composed(graph, graph', prior.company) BY ComposedIs
<1>2. /\ Structured(graph) /\ Drafted(graph, draws) /\ prior \in Priors /\ Ordered(graph, order)
      /\ prior.company => Pivot \in OfKind(graph, "ssrf") /\ Leading(graph, order)
  BY DEF WorldInv, Compose
<1>3. order' = Reordered(order, graph, graph') /\ stage' = "admission"
      /\ UNCHANGED <<prior, draws, evolved, between, loaded>>
  BY DEF Compose
<1>4. Ordered(graph', order') BY <1>2, <1>3, ReorderedOrdered
<1>5. ASSUME prior.company PROVE Served(graph', order')
  <2>1. \A v \in Vulns(graph) : graph.nodes[v].flaw \notin PathFlaws BY <1>2, DraftIds
  <2>2. Served(graph, order) BY <1>2, <1>5, <2>1 DEF Served
  <2>3. Affecting(graph', Pivot) = Affecting(graph, Pivot) BY <1>1, <1>2, <1>5 DEF Composed, OfKind
  <2>4. \A v \in Vulns(graph') : graph'.nodes[v].flaw \in PathFlaws =>
          \A e \in Affecting(graph', v), x \in Affects(graph') : graph'.edges[x].dst = graph'.edges[e].dst => x = e
    BY <1>1 DEF Composed, Secluded
  <2> QED BY <1>3, <2>2, <2>3, <2>4, ServedKept
<1>6. prior.company \in BOOLEAN
  <2>1. prior \in Priors BY <1>2
  <2> QED BY <2>1, PriorIs
<1> QED BY <1>1, <1>3, <1>4, <1>5, <1>6 DEF WorldInv, Composed, Compose

(* The gate keeps the world as it is, or throws it away.                              *)
LEMMA AdmissionKeeps == WorldInv /\ Admission => WorldInv'
<1> SUFFICES ASSUME WorldInv, Admission PROVE WorldInv' OBVIOUS
<1>1. CASE Admits(graph)
  <2>1. graph' = graph /\ stage' = "world" /\ UNCHANGED <<prior, draws, evolved, between, loaded>>
        /\ order' = Reordered(order, graph, graph') /\ stage = "admission"
    BY <1>1 DEF Admission
  <2>2. Structured(graph) /\ Ordered(graph, order) BY <2>1 DEF WorldInv
  <2>3. order' = order BY <2>1, <2>2 DEF Reordered, Ordered
  <2>4. Vulns(graph) # {} BY <1>1 DEF Admits, Entrypoints, EntryCandidates
  <2> QED BY <2>1, <2>2, <2>3, <2>4 DEF WorldInv
<1>2. CASE ~Admits(graph)
  <2>1. graph' = NoGraph /\ stage' = "services" /\ UNCHANGED <<prior, draws, evolved, between, loaded>>
        /\ order' = Reordered(order, graph, graph')
    BY <1>2 DEF Admission
  <2>2. Affects(NoGraph) = {} BY DEF Affects, NoGraph
  <2>3. order' = {} BY <2>1, <2>2 DEF Reordered
  <2> QED BY <2>1, <2>3 DEF WorldInv
<1> QED BY <1>1, <1>2


-----------------------------------------------------------------------------
(* A patch, and what a world that shrinks keeps.                                    *)

(* The edges a patch does not remove, and that do not touch a node it removes.          *)
Staying(g, p) == {e \in DOMAIN g.edges : e \notin p.edges_removed /\ ~Touches(g.edges[e], p.nodes_removed)}

LEMMA PatchIs ==
    ASSUME NEW g, NEW p, p.edges_updated = <<>>, ~Collides(g, p), NEW h, h = apply_patch(g, p)
    PROVE  /\ DOMAIN h = {"nodes", "edges"}
           /\ DOMAIN h.nodes = (DOMAIN g.nodes \ p.nodes_removed) \cup DOMAIN p.nodes_updated \cup DOMAIN p.nodes_added
           /\ \A n \in DOMAIN p.nodes_added : /\ h.nodes[n] = p.nodes_added[n] /\ n \notin DOMAIN p.nodes_updated
                                              /\ n \notin DOMAIN g.nodes \ p.nodes_removed
           /\ \A n \in DOMAIN p.nodes_updated : h.nodes[n] = p.nodes_updated[n]
           /\ \A n \in DOMAIN g.nodes \ p.nodes_removed : n \notin DOMAIN p.nodes_updated => h.nodes[n] = g.nodes[n]
           /\ DOMAIN h.edges = Staying(g, p) \cup DOMAIN p.edges_added
           /\ Staying(g, p) \cap DOMAIN p.edges_added = {}
           /\ \A e \in DOMAIN p.edges_added : h.edges[e] = p.edges_added[e]
           /\ \A e \in Staying(g, p) : h.edges[e] = g.edges[e]
<1>1. PICK r : r = Removed(g, p) OBVIOUS
<1>2. PICK rn, re : rn = r.nodes /\ re = r.edges OBVIOUS
<1>3. /\ DOMAIN rn = DOMAIN g.nodes \ p.nodes_removed /\ \A n \in DOMAIN rn : rn[n] = g.nodes[n]
  <2>1. rn = Without(g.nodes, p.nodes_removed) BY <1>1, <1>2 DEF Removed
  <2> QED BY <2>1 DEF Without, Restrict
<1>4. /\ DOMAIN re = Staying(g, p) /\ \A e \in DOMAIN re : re[e] = g.edges[e]
  <2>1. PICK gone : gone = p.edges_removed \cup {e \in DOMAIN g.edges : Touches(g.edges[e], p.nodes_removed)} OBVIOUS
  <2>2. re = Without(g.edges, gone) BY <1>1, <1>2, <2>1 DEF Removed
  <2>3. DOMAIN g.edges \ gone = Staying(g, p) BY <2>1 DEF Staying
  <2> QED BY <2>2, <2>3 DEF Without, Restrict
<1>5. PICK u : u = Updated(g, p) OBVIOUS
<1>6. PICK un, ue : un = u.nodes /\ ue = u.edges OBVIOUS
<1>7. un = Overridden(rn, p.nodes_updated) /\ ue = Overridden(re, p.edges_updated)
  BY <1>1, <1>2, <1>5, <1>6 DEF Updated
<1>20. PICK pu, pa, ea : pu = p.nodes_updated /\ pa = p.nodes_added /\ ea = p.edges_added OBVIOUS
<1>8. /\ DOMAIN un = DOMAIN rn \cup DOMAIN p.nodes_updated
      /\ \A n \in DOMAIN p.nodes_updated : un[n] = p.nodes_updated[n]
      /\ \A n \in DOMAIN rn \ DOMAIN p.nodes_updated : un[n] = rn[n]
  <2>1. un = Overridden(rn, pu) BY <1>7, <1>20
  <2> QED BY <1>20, <2>1 DEF Overridden
<1>9. /\ DOMAIN ue = DOMAIN re /\ \A e \in DOMAIN re : ue[e] = re[e]
  <2>1. PICK none : none = <<>> OBVIOUS
  <2>2. ue = Overridden(re, none) /\ DOMAIN none = {} BY <1>7, <2>1
  <2> QED BY <2>2 DEF Overridden
<1>10. /\ DOMAIN p.nodes_added \cap DOMAIN un = {} /\ DOMAIN p.edges_added \cap DOMAIN ue = {}
  BY <1>5, <1>6 DEF Collides
<1>11. PICK hn, he : hn = h.nodes /\ he = h.edges OBVIOUS
<1>12. DOMAIN h = {"nodes", "edges"} /\ hn = Overridden(un, p.nodes_added) /\ he = Overridden(ue, p.edges_added)
  BY <1>5, <1>6, <1>11 DEF apply_patch
<1>13. /\ DOMAIN hn = DOMAIN un \cup DOMAIN p.nodes_added
       /\ \A n \in DOMAIN p.nodes_added : hn[n] = p.nodes_added[n]
       /\ \A n \in DOMAIN un \ DOMAIN p.nodes_added : hn[n] = un[n]
  <2>1. hn = Overridden(un, pa) BY <1>12, <1>20
  <2> QED BY <1>20, <2>1 DEF Overridden
<1>14. /\ DOMAIN he = DOMAIN ue \cup DOMAIN p.edges_added
       /\ \A e \in DOMAIN p.edges_added : he[e] = p.edges_added[e]
       /\ \A e \in DOMAIN ue \ DOMAIN p.edges_added : he[e] = ue[e]
  <2>1. he = Overridden(ue, ea) BY <1>12, <1>20
  <2> QED BY <1>20, <2>1 DEF Overridden
<1>15. /\ DOMAIN h.nodes = (DOMAIN g.nodes \ p.nodes_removed) \cup DOMAIN p.nodes_updated \cup DOMAIN p.nodes_added
       /\ \A n \in DOMAIN p.nodes_added : /\ h.nodes[n] = p.nodes_added[n] /\ n \notin DOMAIN p.nodes_updated
                                          /\ n \notin DOMAIN g.nodes \ p.nodes_removed
       /\ \A n \in DOMAIN p.nodes_updated : h.nodes[n] = p.nodes_updated[n]
       /\ \A n \in DOMAIN g.nodes \ p.nodes_removed : n \notin DOMAIN p.nodes_updated => h.nodes[n] = g.nodes[n]
  BY <1>3, <1>8, <1>10, <1>11, <1>13
<1>16. /\ DOMAIN h.edges = Staying(g, p) \cup DOMAIN p.edges_added
       /\ Staying(g, p) \cap DOMAIN p.edges_added = {}
       /\ \A e \in DOMAIN p.edges_added : h.edges[e] = p.edges_added[e]
       /\ \A e \in Staying(g, p) : h.edges[e] = g.edges[e]
  BY <1>4, <1>9, <1>10, <1>11, <1>14
<1> QED BY <1>12, <1>15, <1>16

(* A graph that has fewer nodes, and no vulnerability without its endpoint.            *)
Shrinks(g, h) ==
    /\ DOMAIN h = {"nodes", "edges"} /\ DOMAIN h.nodes \subseteq DOMAIN g.nodes
    /\ \A n \in DOMAIN h.nodes : NodeOK(n, h.nodes[n])
    /\ DOMAIN g.nodes \cap ServiceIds \subseteq DOMAIN h.nodes
    /\ \A e \in DOMAIN g.edges :
         g.edges[e].kind \in {"affects", "exposes"} /\ g.edges[e].src \in DOMAIN h.nodes /\ g.edges[e].dst \in DOMAIN h.nodes
         => e \in DOMAIN h.edges /\ h.edges[e] = g.edges[e]
    /\ \A e \in DOMAIN h.edges :
         \/ /\ e \in DOMAIN g.edges /\ h.edges[e] = g.edges[e]
            /\ g.edges[e].src \in DOMAIN h.nodes /\ g.edges[e].dst \in DOMAIN h.nodes
         \/ EdgeOK(h, h.edges[e]) /\ h.edges[e].kind # "affects"
    /\ \A v \in Vulns(h) : Target(g, v) \in DOMAIN h.nodes

LEMMA ShrunkIs ==
    ASSUME NEW g, Framed(g), NEW h, Shrinks(g, h)
    PROVE  /\ Framed(h) /\ Affects(h) \subseteq Affects(g) /\ \A e \in Affects(h) : h.edges[e] = g.edges[e]
           /\ \A v \in Vulns(h) : /\ v \in Vulns(g) /\ Affecting(h, v) = Affecting(g, v)
                                  /\ Target(h, v) = Target(g, v) /\ HostOf(h, v) = HostOf(g, v)
<1>1. \A n \in DOMAIN g.nodes : NodeOK(n, g.nodes[n]) BY DEF Framed
<1>2. /\ DOMAIN h = {"nodes", "edges"} /\ DOMAIN h.nodes \subseteq DOMAIN g.nodes
      /\ \A n \in DOMAIN h.nodes : NodeOK(n, h.nodes[n])
  BY DEF Shrinks
<1>3. Vulns(g) = DOMAIN g.nodes \cap VulnIds /\ by_kind(g, "endpoint") = DOMAIN g.nodes \cap EndpointIds
      /\ by_kind(g, "service") = DOMAIN g.nodes \cap ServiceIds
  BY <1>1, KindSets
<1>4. Vulns(h) = DOMAIN h.nodes \cap VulnIds /\ by_kind(h, "endpoint") = DOMAIN h.nodes \cap EndpointIds
  BY <1>2, KindSets
<1>5. Vulns(h) \subseteq Vulns(g) /\ by_kind(h, "endpoint") \subseteq by_kind(g, "endpoint") BY <1>2, <1>3, <1>4
<1>6. \A e \in Affects(h) : e \in Affects(g) /\ h.edges[e] = g.edges[e] BY DEF Shrinks, Affects
<1>7. ASSUME NEW v \in Vulns(h)
      PROVE  Affecting(h, v) = Affecting(g, v) /\ \E e \in Affects(h) : Affecting(h, v) = {e}
  <2>1. PICK e \in Affects(g) : /\ Affecting(g, v) = {e} /\ g.edges[e].src = v /\ g.edges[e].dst = Target(g, v)
    BY <1>5, TargetIs
  <2>2. e \in Affects(h) /\ h.edges[e] = g.edges[e]
    <3>1. v \in DOMAIN h.nodes /\ Target(g, v) \in DOMAIN h.nodes BY <1>4 DEF Shrinks
    <3> QED BY <2>1, <3>1 DEF Shrinks, Affects
  <2>3. Affecting(h, v) \subseteq Affecting(g, v) BY <1>6 DEF Affecting
  <2>4. e \in Affecting(h, v) BY <2>1, <2>2 DEF Affecting
  <2> QED BY <2>1, <2>2, <2>3, <2>4
<1>8. ASSUME NEW t \in by_kind(h, "endpoint") PROVE Srcs(h, "exposes", t) # {}
  <2>1. PICK e \in DOMAIN g.edges : g.edges[e].kind = "exposes" /\ g.edges[e].dst = t
    <3>1. Srcs(g, "exposes", t) # {} BY <1>5 DEF Framed, Housed
    <3> QED BY <3>1 DEF Srcs
  <2>2. g.edges[e].src \in by_kind(g, "service") BY <2>1 DEF Framed, EdgeOK, SrcKind, by_kind
  <2>3. g.edges[e].src \in DOMAIN h.nodes /\ t \in DOMAIN h.nodes BY <1>3, <1>4, <2>2 DEF Shrinks
  <2>4. e \in DOMAIN h.edges /\ h.edges[e] = g.edges[e] BY <2>1, <2>3 DEF Shrinks
  <2> QED BY <2>1, <2>4 DEF Srcs
<1>9. ASSUME NEW e \in DOMAIN h.edges PROVE EdgeOK(h, h.edges[e])
  <2>1. CASE /\ e \in DOMAIN g.edges /\ h.edges[e] = g.edges[e]
             /\ g.edges[e].src \in DOMAIN h.nodes /\ g.edges[e].dst \in DOMAIN h.nodes
    <3>1. EdgeOK(g, g.edges[e]) BY <2>1 DEF Framed
    <3> QED BY <1>1, <1>2, <2>1, <3>1, OldEdges
  <2>2. CASE EdgeOK(h, h.edges[e]) BY <2>2
  <2> QED BY <2>1, <2>2 DEF Shrinks
<1>10. IsFiniteSet(DOMAIN h.nodes)
  <2>1. IsFiniteSet(DOMAIN g.nodes) BY DEF Framed
  <2> QED BY <1>2, <2>1, FS_Subset
<1>11. Framed(h) BY <1>2, <1>7, <1>8, <1>9, <1>10 DEF Framed, Housed
<1>12. ASSUME NEW v \in Vulns(h) PROVE Target(h, v) = Target(g, v) /\ HostOf(h, v) = HostOf(g, v)
  <2>1. v \in Vulns(g) BY <1>5
  <2>2. Affecting(h, v) = Affecting(g, v) BY <1>7
  <2>3. \A e \in Affecting(g, v) : h.edges[e] = g.edges[e] BY <1>6, <2>2 DEF Affecting
  <2> QED BY <1>11, <2>1, <2>2, <2>3, SameTarget
<1> QED BY <1>5, <1>6, <1>7, <1>11, <1>12

(* Something that is not in a finite set is among more candidates than it has.          *)
LEMMA MinIs ==
    ASSUME NEW S, S # {}, S \subseteq Nat
    PROVE  Min(S) \in S
<1>1. PICK m \in S : \A n \in S : ~(<<n, m>> \in OpToRel(<, Nat)) BY WFMin, NatLessThanWellFounded, Zenon
<1>2. \A n \in S : m =< n
  <2>1. \A n \in S : ~(n < m) BY <1>1 DEF OpToRel
  <2> QED BY <2>1
<1> QED BY <1>2, Zenon DEF Min

LEMMA FreshIs ==
    ASSUME NEW g, IsFiniteSet(DOMAIN g.nodes), NEW kind \in Flaws, NEW v, v = _fresh_vuln_id(kind, g)
    PROVE  v \in VulnIds /\ v[2] = kind /\ v[3] \in Nat /\ v \notin DOMAIN g.nodes
<1>1. PICK N \in Nat : N = Cardinality(DOMAIN g.nodes) BY FS_CardinalityType
<1>2. PICK S : S = {i \in 0 .. N : <<"vuln", kind, i>> \notin DOMAIN g.nodes} OBVIOUS
<1>3. ASSUME S = {} PROVE FALSE
  <2>1. PICK f : f = [j \in 1 .. N + 1 |-> <<"vuln", kind, j - 1>>] OBVIOUS
  <2>2. PICK T : T = {f[j] : j \in 1 .. N + 1} OBVIOUS
  <2>3. ASSUME NEW i \in 1 .. N + 1, NEW j \in 1 .. N + 1, f[i] = f[j] PROVE i = j
    <3>1. i - 1 = j - 1 BY <2>1, <2>3
    <3> QED BY <3>1
  <2>4. N + 1 \in Nat /\ DOMAIN f = 1 .. N + 1 BY <2>1
  <2>5. IsFiniteSet(T) /\ Cardinality(T) = N + 1 BY <2>2, <2>3, <2>4, Enumerated
  <2>6. \A j \in 1 .. N + 1 : f[j] \in DOMAIN g.nodes
    <3> TAKE j \in 1 .. N + 1
    <3>1. j - 1 \in 0 .. N /\ f[j] = <<"vuln", kind, j - 1>> BY <2>1
    <3>2. j - 1 \notin S BY <1>3
    <3> QED BY <1>2, <3>1, <3>2
  <2>7. T \in SUBSET DOMAIN g.nodes BY <2>2, <2>6
  <2>8. Cardinality(T) <= N BY <1>1, <2>7, FS_Subset
  <2> QED BY <2>5, <2>8
<1>4. Min(S) \in S
  <2>1. S \subseteq Nat BY <1>2
  <2> QED BY <1>3, <2>1, MinIs
<1>5. v = <<"vuln", kind, Min(S)>> BY <1>1, <1>2 DEF _fresh_vuln_id
<1> QED BY <1>2, <1>4, <1>5 DEF VulnIds


-----------------------------------------------------------------------------
(* The mutations.                                                                 *)

(* The hops of a chain, one for each gate: its host and the credential it asks for.     *)
HopAt(g, v) == <<HostOf(g, v), g.nodes[v].params.credential>>
Hops(g, c) == [i \in 1 .. Len(c) - 1 |-> HopAt(g, c[i + 1])]

(* The chain after a mutation: as it was, or with a hop more or less at its end.         *)
Rechained(g, h, c, k) ==
    /\ k \in Seq(Vulns(h)) /\ Chain(h, k)
    /\ Len(k) \in {Len(c) - 1, Len(c), Len(c) + 1}
    /\ \A i \in 2 .. Len(c) : i <= Len(k) => HopAt(h, k[i]) = HopAt(g, c[i])

Onward(g, h) ==
    /\ Internals(h) = Internals(g)
    /\ OfKind(h, "config_disclosure") = OfKind(g, "config_disclosure")
    /\ \A c \in Seq(Vulns(g)) : Chain(g, c) => \E k : Rechained(g, h, c, k)

(* What a mutation keeps of a world: its frame, and what it is solved by.               *)
Steps(g, h, company) ==
    /\ Structured(h)
    /\ IF company
       THEN Company(h) /\ Onward(g, h) /\ \A before : Served(g, before) => Served(h, Reordered(before, g, h))
       ELSE FlatGates(h)

(* The worlds a mutation starts from.                                               *)
World(g, company) ==
    /\ Structured(g) /\ company \in BOOLEAN
    /\ IF company THEN Company(g) ELSE FlatGates(g)

LEMMA MildSteps ==
    ASSUME NEW g, NEW company, World(g, company), NEW h, Structured(h),
           company => Mild(g, h) /\ OfKind(h, "config_disclosure") = OfKind(g, "config_disclosure"),
           ~company => FlatGates(h),
           \A v \in Vulns(g) \cap Vulns(h) : Affecting(h, v) = Affecting(g, v),
           \A e \in Affects(g) \cap Affects(h) : h.edges[e] = g.edges[e]
    PROVE  Steps(g, h, company)
<1>1. CASE ~company BY <1>1 DEF Steps
<1>2. CASE company
  <2>1. Structured(g) /\ Company(g) /\ Mild(g, h) BY <1>2 DEF World
  <2>2. Company(h) BY <2>1, MildKeeps DEF Structured
  <2>3. KeptVulns(h) = KeptVulns(g) /\ \A v \in KeptVulns(g) : h.nodes[v] = g.nodes[v] BY <2>1 DEF Mild
  <2>4. Pivot \in KeptVulns(g) BY <2>1 DEF Company, Footed, OfKind, KeptVulns
  <2>5. \A v \in KeptVulns(g) : v \in Vulns(g) \cap Vulns(h) BY <2>3 DEF KeptVulns
  <2>6. Affecting(h, Pivot) = Affecting(g, Pivot) BY <2>4, <2>5
  <2>7. ASSUME NEW v \in Vulns(h), h.nodes[v].flaw \in PathFlaws
        PROVE  /\ v \in Vulns(g) /\ g.nodes[v].flaw \in PathFlaws /\ Affecting(h, v) = Affecting(g, v)
               /\ \A e \in Affects(g) \cap Affects(h) : h.edges[e] = g.edges[e]
    <3>1. v \in KeptVulns(g) BY <2>3, <2>7 DEF KeptVulns
    <3> QED BY <2>3, <2>5, <2>7, <3>1
  <2>8. ASSUME NEW before, Served(g, before) PROVE Served(h, Reordered(before, g, h))
    BY <2>6, <2>7, <2>8, ServedKept
  <2>9. ASSUME NEW c \in Seq(Vulns(g)), Chain(g, c) PROVE Rechained(g, h, c, c)
    <3>1. Framed(g) /\ Framed(h) /\ Footed(g) BY <2>1 DEF Structured, Company
    <3>2. c \in Seq(Vulns(h)) /\ Chain(h, c) BY <2>1, <2>9, <3>1, MildChain
    <3>3. ChainNodes(g, c) BY <2>9 DEF Chain
    <3>4. \A i \in 2 .. Len(c) : /\ i \in 1 .. Len(c) /\ c[i] \in Vulns(g) /\ c[i] \in Vulns(h)
                                 /\ g.nodes[c[i]].flaw \in ChainFlaws
      BY <3>2, <3>3 DEF ChainNodes, ChainFlaws, GateFlaws
    <3>5. \A i \in 2 .. Len(c) : h.nodes[c[i]] = g.nodes[c[i]] BY <2>3, <3>4 DEF KeptVulns, PathFlaws
    <3>6. \A i \in 2 .. Len(c) : HostOf(h, c[i]) = HostOf(g, c[i])
      <4>1. TAKE i \in 2 .. Len(c)
      <4>2. Target(h, c[i]) = Target(g, c[i]) BY <2>1, <3>4 DEF Mild
      <4> QED BY <2>1, <3>1, <3>4, <4>2, HostIs
    <3>7. \A i \in 2 .. Len(c) : HopAt(h, c[i]) = HopAt(g, c[i]) BY <3>5, <3>6 DEF HopAt
    <3> QED BY <3>2, <3>7 DEF Rechained
  <2>10. Onward(g, h) BY <1>2, <2>1, <2>9 DEF Mild, Onward
  <2> QED BY <1>2, <2>2, <2>8, <2>10 DEF Steps
<1> QED BY <1>1, <1>2 DEF World

LEMMA DecoyFirstIs ==
    ASSUME NEW g, Framed(g), Vulns(g) # {}
    PROVE  DecoyFirst(g) \in by_kind(g, "endpoint")
<1> DEFINE S == by_kind(g, "endpoint")
           rank(e) == IF e \in _oracle_path_targets(g) THEN 1 ELSE 0
           P == {p \in S \X S : Precedes(p[1], p[2])}
           R == {p \in S \X S : rank(p[1]) < rank(p[2]) \/ (rank(p[1]) = rank(p[2]) /\ Precedes(p[1], p[2]))}
<1>1. DecoyFirst(g) = CHOOSE e \in S : \A d \in S \ {e} : rank(e) < rank(d) \/ (rank(e) = rank(d) /\ Precedes(e, d))
  BY DEF DecoyFirst
<1>2. S \subseteq EndpointIds BY KindSets DEF Framed
<1>3. IsFiniteSet(S)
  <2>1. S \in SUBSET DOMAIN g.nodes BY DEF by_kind
  <2> HIDE DEF S
  <2> QED BY <2>1, FS_Subset DEF Framed
<1>4. S # {} BY TargetIs
<1>5. \A e : rank(e) \in Nat OBVIOUS
<1>6. StrictOrder(P, S) BY <1>2, PrecedesOrders
<1> HIDE DEF S, rank
<1>7. StrictOrder(R, S)
  <2>1. ASSUME NEW x \in S PROVE <<x, x>> \notin R
    <3>1. ~Precedes(x, x) BY <1>6 DEF StrictOrder
    <3>2. ~(rank(x) < rank(x)) BY <1>5
    <3> QED BY <3>1, <3>2
  <2>2. ASSUME NEW x \in S, NEW y \in S, NEW z \in S, <<x, y>> \in R, <<y, z>> \in R PROVE <<x, z>> \in R
    <3>1. rank(x) < rank(z) \/ (rank(x) = rank(z) /\ rank(x) = rank(y) /\ Precedes(x, y) /\ Precedes(y, z))
      BY <1>5, <2>2
    <3>2. Precedes(x, y) /\ Precedes(y, z) => Precedes(x, z) BY <1>6 DEF StrictOrder
    <3> QED BY <3>1, <3>2
  <2>3. ASSUME NEW x \in S, NEW y \in S, x # y PROVE <<x, y>> \in R \/ <<y, x>> \in R
    <3>1. Precedes(x, y) \/ Precedes(y, x) BY <1>6, <2>3 DEF StrictOrder
    <3>2. rank(x) < rank(y) \/ rank(y) < rank(x) \/ rank(x) = rank(y) BY <1>5
    <3> QED BY <3>1, <3>2
  <2> QED BY <2>1, <2>2, <2>3 DEF StrictOrder
<1>8. PICK e \in S : \A d \in S \ {e} : <<e, d>> \in R
  <2> HIDE DEF R
  <2> QED BY <1>3, <1>4, <1>7, LeastExists
<1>9. \E x \in S : \A d \in S \ {x} : rank(x) < rank(d) \/ (rank(x) = rank(d) /\ Precedes(x, d)) BY <1>8
<1>10. DecoyFirst(g) \in S BY <1>1, <1>9
<1> QED BY <1>10 DEF S

(* The ordinary kinds are not on the path to a preset's flag.                          *)
LEMMA OrdinaryKind ==
    ASSUME NEW kind \in Range(SortedKinds)
    PROVE  kind \in Flaws /\ kind \notin PathFlaws /\ kind \notin ChainFlaws /\ kind # "config_disclosure"
BY KindIs DEF PathFlaws, ChainFlaws, GateFlaws, _INTERNAL_ONLY_KINDS

LEMMA AddIs ==
    ASSUME NEW g, NEW company, World(g, company), Vulns(g) # {},
           NEW m \in _harden_add_absent_mutations(g), ~Collides(g, m.patch), NEW h, h = apply_patch(g, m.patch)
    PROVE  Steps(g, h, company)
<1>1. PICK kind \in Range(SortedKinds) \ Present(g) :
        m = Mutation("harden", "add",
              [EmptyPatch EXCEPT !.nodes_added = Single(_fresh_vuln_id(kind, g), Vuln(kind, Params)),
                                 !.edges_added = EdgesOf({ChainEdge("affects", _fresh_vuln_id(kind, g), DecoyFirst(g))})])
  BY Zenon DEF _harden_add_absent_mutations
<1>2. PICK v : v = _fresh_vuln_id(kind, g) OBVIOUS
<1>3. PICK t : t = DecoyFirst(g) OBVIOUS
<1>4. PICK a : a = ChainEdge("affects", v, t) OBVIOUS
<1>5. Structured(g) /\ Framed(g) BY DEF World, Structured
<1>6. \A n \in DOMAIN g.nodes : NodeOK(n, g.nodes[n]) BY <1>5 DEF Framed
<1>7. kind \in Flaws /\ kind \notin PathFlaws /\ kind \notin ChainFlaws /\ kind # "config_disclosure" BY OrdinaryKind
<1>8. v \in VulnIds /\ v \notin DOMAIN g.nodes
  <2>1. IsFiniteSet(DOMAIN g.nodes) BY <1>5 DEF Framed
  <2> QED BY <1>2, <1>7, <2>1, FreshIs
<1>9. t \in by_kind(g, "endpoint") BY <1>3, <1>5, DecoyFirstIs
<1>10. a[2] = "affects" /\ a[3] = v /\ a[4] = t BY <1>4, ChainEdgeIs
<1>11. PICK p : p = m.patch OBVIOUS
<1>12. PICK added, joined : added = Single(v, Vuln(kind, Params)) /\ joined = EdgesOf({a}) OBVIOUS
<1>13. p = [EmptyPatch EXCEPT !.nodes_added = added, !.edges_added = joined]
  BY <1>1, <1>2, <1>3, <1>4, <1>11, <1>12 DEF Mutation
<1>14. /\ p.nodes_removed = {} /\ p.edges_removed = {} /\ p.edges_updated = <<>> /\ DOMAIN p.nodes_updated = {}
       /\ p.nodes_added = added /\ p.edges_added = joined
  BY <1>13 DEF EmptyPatch
<1>15. DOMAIN added = {v} /\ added[v] = Vuln(kind, Params) BY <1>12, SingleIs
<1>16. DOMAIN joined = {a} /\ joined[a] = Edge("affects", v, t) BY <1>10, <1>12, EdgesOfIs
<1>17. Staying(g, p) = DOMAIN g.edges BY <1>14 DEF Staying, Touches
<1>18. /\ DOMAIN h = {"nodes", "edges"}
       /\ DOMAIN h.nodes = (DOMAIN g.nodes \ p.nodes_removed) \cup DOMAIN p.nodes_updated \cup DOMAIN p.nodes_added
       /\ \A n \in DOMAIN p.nodes_added : h.nodes[n] = p.nodes_added[n]
       /\ \A n \in DOMAIN g.nodes \ p.nodes_removed : n \notin DOMAIN p.nodes_updated => h.nodes[n] = g.nodes[n]
       /\ DOMAIN h.edges = Staying(g, p) \cup DOMAIN p.edges_added
       /\ Staying(g, p) \cap DOMAIN p.edges_added = {}
       /\ \A e \in DOMAIN p.edges_added : h.edges[e] = p.edges_added[e]
       /\ \A e \in Staying(g, p) : h.edges[e] = g.edges[e]
  BY <1>11, <1>14, PatchIs
<1>19. /\ DOMAIN h.nodes = DOMAIN g.nodes \cup {v} /\ h.nodes[v] = Vuln(kind, Params)
       /\ \A n \in DOMAIN g.nodes : h.nodes[n] = g.nodes[n]
       /\ DOMAIN h.edges = DOMAIN g.edges \cup {a} /\ h.edges[a] = Edge("affects", v, t)
       /\ a \notin DOMAIN g.edges /\ \A e \in DOMAIN g.edges : h.edges[e] = g.edges[e]
  BY <1>14, <1>15, <1>16, <1>17, <1>18
<1>20. h.edges[a].kind = "affects" /\ h.edges[a].src = v /\ h.edges[a].dst = t BY <1>19, EdgeFields
<1>21. h.nodes[v].kind = "vulnerability" /\ h.nodes[v].flaw = kind BY <1>19, NodeFields
<1>22. \A n \in DOMAIN h.nodes : NodeOK(n, h.nodes[n])
  <2>1. h.nodes[v] \in VulnNodes BY <1>7, <1>19, ParamsIs, VulnIs
  <2> QED BY <1>6, <1>8, <1>19, <2>1 DEF NodeOK
<1>23. EdgeOK(h, h.edges[a])
  <2>1. t \in DOMAIN h.nodes /\ h.nodes[t].kind = "endpoint" BY <1>9, <1>19 DEF by_kind
  <2>2. v \in DOMAIN h.nodes BY <1>19
  <2> QED BY <1>19, <1>21, <2>1, <2>2 DEF EdgeOK, Edge, SrcKind, DstKind
<1>24. Affecting(h, v) = {a} /\ a \in Affects(h)
  <2>1. \A e \in DOMAIN g.edges : g.edges[e].src # v BY <1>5, <1>8 DEF Framed, EdgeOK
  <2> QED BY <1>19, <1>20, <2>1 DEF Affecting, Affects
<1>25. Vulns(h) = Vulns(g) \cup {v} /\ by_kind(h, "endpoint") = by_kind(g, "endpoint")
       /\ by_kind(h, "credential") = by_kind(g, "credential")
  <2>1. Vulns(g) = DOMAIN g.nodes \cap VulnIds /\ by_kind(g, "endpoint") = DOMAIN g.nodes \cap EndpointIds
        /\ by_kind(g, "credential") = DOMAIN g.nodes \cap CredIds
    BY <1>6, KindSets
  <2>2. Vulns(h) = DOMAIN h.nodes \cap VulnIds /\ by_kind(h, "endpoint") = DOMAIN h.nodes \cap EndpointIds
        /\ by_kind(h, "credential") = DOMAIN h.nodes \cap CredIds
    BY <1>22, KindSets
  <2>3. v \notin EndpointIds /\ v \notin CredIds BY <1>8 DEF VulnIds, EndpointIds, CredIds
  <2> QED BY <1>8, <1>19, <2>1, <2>2, <2>3
<1>26. Grows(g, h)
  <2>1. IsFiniteSet(DOMAIN h.nodes) BY <1>5, <1>19, FS_AddElement DEF Framed
  <2>2. \A e \in DOMAIN h.edges :
          \/ e \in DOMAIN g.edges /\ h.edges[e] = g.edges[e]
          \/ EdgeOK(h, h.edges[e]) /\ (h.edges[e].kind = "affects" => h.edges[e].src \notin DOMAIN g.nodes)
    BY <1>8, <1>19, <1>20, <1>23
  <2>3. \A w \in Vulns(h) \ DOMAIN g.nodes : \E e \in Affects(h) : Affecting(h, w) = {e}
    BY <1>24, <1>25 DEF Vulns, by_kind
  <2>4. by_kind(h, "endpoint") \ DOMAIN g.nodes = {} BY <1>25 DEF by_kind
  <2> QED BY <1>18, <1>19, <1>22, <2>1, <2>2, <2>3, <2>4 DEF Grows
<1>27. /\ Framed(h)
       /\ \A w \in Vulns(g) : w \in Vulns(h) /\ Affecting(h, w) = Affecting(g, w) /\ Target(h, w) = Target(g, w)
  BY <1>5, <1>26, GrownIs
<1>28. \A k : k # "affects" => Links(h, k) = Links(g, k) BY <1>19, <1>20 DEF Links
<1>29. Structured(h) /\ FlagServices(h) = FlagServices(g)
  <2>1. Links(h, "contains") = Links(g, "contains") /\ Links(h, "backed_by") = Links(g, "backed_by") BY <1>28
  <2>2. record_id \in DOMAIN h.nodes /\ flag_id \in DOMAIN h.nodes BY <1>5, <1>19 DEF Structured, Homed
  <2> QED BY <1>5, <1>27, <2>1, <2>2, SameHome
<1>30. Public(h) = Public(g) /\ Internals(h) = Internals(g)
  <2>1. v \notin ServiceIds BY <1>8 DEF VulnIds, ServiceIds
  <2>2. DOMAIN h.nodes \cap ServiceIds = DOMAIN g.nodes \cap ServiceIds BY <1>19, <2>1
  <2> QED BY <1>6, <1>19, <1>22, <2>2, SameServices
<1>31. ASSUME company PROVE Mild(g, h)
  <2>1. kind # "ssrf"
    <3>1. Pivot \in OfKind(g, "ssrf") BY <1>31 DEF World, Company, Footed
    <3> QED BY <3>1 DEF OfKind, Present
  <2>2. \A w \in Vulns(g) : h.nodes[w] = g.nodes[w] BY <1>19 DEF Vulns, by_kind
  <2>3. KeptVulns(h) = KeptVulns(g) BY <1>7, <1>21, <1>25, <2>1, <2>2 DEF KeptVulns
  <2>4. \A w \in KeptVulns(g) : h.nodes[w] = g.nodes[w] BY <2>2 DEF KeptVulns
  <2>5. PublicEndpoints(h) = PublicEndpoints(g)
    <3>1. Links(h, "exposes") = Links(g, "exposes") BY <1>28
    <3>2. \A s : Dsts(h, "exposes", s) = Dsts(g, "exposes", s) BY <3>1, SameEnds
    <3> QED BY <1>30, <3>2 DEF PublicEndpoints
  <2>6. \A x \in by_kind(g, "endpoint") : h.nodes[x] = g.nodes[x] BY <1>19 DEF by_kind
  <2>7. Pivot \in Vulns(g) => h.nodes[Target(g, Pivot)] = g.nodes[Target(g, Pivot)] BY <1>5, <2>6, TargetIs
  <2>8. Links(h, "requires_credential") = Links(g, "requires_credential") /\ Links(h, "enables") = Links(g, "enables")
    BY <1>28
  <2> QED BY <1>25, <1>27, <1>29, <1>30, <2>3, <2>4, <2>5, <2>6, <2>7, <2>8 DEF Mild
<1>32. ASSUME ~company PROVE FlatGates(h)
  <2>1. FlatGates(g) BY <1>32 DEF World
  <2>2. \A w \in Vulns(g) : h.nodes[w] = g.nodes[w] BY <1>19 DEF Vulns, by_kind
  <2> QED BY <1>7, <1>21, <1>25, <2>1, <2>2 DEF FlatGates
<1>33. \A e \in Affects(g) \cap Affects(h) : h.edges[e] = g.edges[e] BY <1>19 DEF Affects
<1>34. OfKind(h, "config_disclosure") = OfKind(g, "config_disclosure")
  <2>1. \A w \in Vulns(g) : h.nodes[w] = g.nodes[w] BY <1>19 DEF Vulns, by_kind
  <2> QED BY <1>7, <1>21, <1>25, <2>1 DEF OfKind
<1> QED BY <1>27, <1>29, <1>31, <1>32, <1>33, <1>34, MildSteps


LEMMA RemoveIs ==
    ASSUME NEW g, NEW company, World(g, company),
           NEW m \in _soften_remove_kind_mutations(g), ~Collides(g, m.patch), NEW h, h = apply_patch(g, m.patch)
    PROVE  Steps(g, h, company)
<1>1. PICK kind \in Present(g) \ _protected_kinds(g) :
        m = Mutation("soften", "remove",
              [EmptyPatch EXCEPT !.nodes_removed = OfKind(g, kind), !.edges_removed = EdgesAt(g, OfKind(g, kind))])
  BY Zenon DEF _soften_remove_kind_mutations
<1>2. PICK gone : gone = OfKind(g, kind) OBVIOUS
<1>3. PICK p : p = m.patch OBVIOUS
<1>4. p = [EmptyPatch EXCEPT !.nodes_removed = gone, !.edges_removed = EdgesAt(g, gone)]
  BY <1>1, <1>2, <1>3 DEF Mutation
<1>5. /\ p.nodes_removed = gone /\ p.edges_removed = EdgesAt(g, gone) /\ p.edges_updated = <<>>
      /\ p.nodes_updated = <<>> /\ p.nodes_added = <<>> /\ p.edges_added = <<>>
  BY <1>4 DEF EmptyPatch
<1>6. DOMAIN p.nodes_updated = {} /\ DOMAIN p.nodes_added = {} /\ DOMAIN p.edges_added = {} BY <1>5
<1>7. Structured(g) /\ Framed(g) BY DEF World, Structured
<1>8. \A n \in DOMAIN g.nodes : NodeOK(n, g.nodes[n]) BY <1>7 DEF Framed
<1>9. gone \subseteq Vulns(g) /\ Vulns(g) = DOMAIN g.nodes \cap VulnIds BY <1>2, <1>8, KindSets DEF OfKind
<1>10. kind \notin PathFlaws /\ kind \notin ChainFlaws /\ kind # "config_disclosure"
  BY <1>1 DEF _protected_kinds, _INTERNAL_ONLY_KINDS, PathFlaws, ChainFlaws, GateFlaws
<1>11. Staying(g, p) = {e \in DOMAIN g.edges : ~Touches(g.edges[e], gone)} BY <1>5 DEF Staying, EdgesAt
<1>12. /\ DOMAIN h = {"nodes", "edges"}
       /\ DOMAIN h.nodes = (DOMAIN g.nodes \ p.nodes_removed) \cup DOMAIN p.nodes_updated \cup DOMAIN p.nodes_added
       /\ \A n \in DOMAIN g.nodes \ p.nodes_removed : n \notin DOMAIN p.nodes_updated => h.nodes[n] = g.nodes[n]
       /\ DOMAIN h.edges = Staying(g, p) \cup DOMAIN p.edges_added
       /\ \A e \in Staying(g, p) : h.edges[e] = g.edges[e]
  BY <1>3, <1>5, PatchIs
<1>13. /\ DOMAIN h.nodes = DOMAIN g.nodes \ gone /\ \A n \in DOMAIN h.nodes : h.nodes[n] = g.nodes[n]
       /\ DOMAIN h.edges = {e \in DOMAIN g.edges : g.edges[e].src \notin gone /\ g.edges[e].dst \notin gone}
       /\ \A e \in DOMAIN h.edges : h.edges[e] = g.edges[e]
  BY <1>5, <1>6, <1>11, <1>12 DEF Touches
<1>14. \A n \in DOMAIN h.nodes : NodeOK(n, h.nodes[n]) BY <1>8, <1>13
<1>15. Shrinks(g, h)
  <2>1. DOMAIN g.nodes \cap ServiceIds \subseteq DOMAIN h.nodes BY <1>9, <1>13 DEF ServiceIds, VulnIds
  <2>2. \A v \in Vulns(h) : v \in Vulns(g) BY <1>13 DEF Vulns, by_kind
  <2>3. ASSUME NEW v \in Vulns(h) PROVE Target(g, v) \in DOMAIN h.nodes
    <3>1. Target(g, v) \in DOMAIN g.nodes /\ Target(g, v) \in EndpointIds BY <1>7, <1>8, <2>2, TargetIs, KindSets
    <3> QED BY <1>9, <1>13, <3>1 DEF EndpointIds, VulnIds
  <2>4. \A e \in DOMAIN g.edges : g.edges[e].src \in DOMAIN h.nodes /\ g.edges[e].dst \in DOMAIN h.nodes
          => e \in DOMAIN h.edges /\ h.edges[e] = g.edges[e]
    BY <1>13
  <2>5. \A e \in DOMAIN h.edges : /\ e \in DOMAIN g.edges /\ h.edges[e] = g.edges[e]
                                  /\ g.edges[e].src \in DOMAIN h.nodes /\ g.edges[e].dst \in DOMAIN h.nodes
    BY <1>7, <1>13 DEF Framed, EdgeOK
  <2> QED BY <1>12, <1>13, <1>14, <2>1, <2>3, <2>4, <2>5 DEF Shrinks
<1>16. /\ Framed(h) /\ Affects(h) \subseteq Affects(g) /\ \A e \in Affects(h) : h.edges[e] = g.edges[e]
       /\ \A v \in Vulns(h) : v \in Vulns(g) /\ Affecting(h, v) = Affecting(g, v) /\ Target(h, v) = Target(g, v)
  BY <1>7, <1>15, ShrunkIs
<1>17. ASSUME NEW k \in {"contains", "backed_by", "requires_credential", "exposes"} PROVE Links(h, k) = Links(g, k)
  <2>1. \A e \in DOMAIN g.edges : g.edges[e].kind = k => g.edges[e].src \notin gone /\ g.edges[e].dst \notin gone
    <3>1. \A v \in gone : g.nodes[v].kind = "vulnerability" BY <1>9 DEF Vulns, by_kind
    <3>2. \A e \in DOMAIN g.edges : EdgeOK(g, g.edges[e]) BY <1>7 DEF Framed
    <3> QED BY <1>17, <3>1, <3>2 DEF EdgeOK, SrcKind, DstKind
  <2> QED BY <1>13, <2>1, SameLinks
<1>18. Structured(h) /\ FlagServices(h) = FlagServices(g)
  <2>1. Links(h, "contains") = Links(g, "contains") /\ Links(h, "backed_by") = Links(g, "backed_by") BY <1>17
  <2>2. record_id \in DOMAIN g.nodes /\ flag_id \in DOMAIN g.nodes BY <1>7 DEF Structured, Homed
  <2>3. record_id \in DOMAIN h.nodes /\ flag_id \in DOMAIN h.nodes
    BY <1>9, <1>13, <2>2 DEF VulnIds, record_id, flag_id
  <2> QED BY <1>7, <1>16, <2>1, <2>3, SameHome
<1>19. Public(h) = Public(g) /\ Internals(h) = Internals(g)
  <2>1. DOMAIN h.nodes \cap ServiceIds = DOMAIN g.nodes \cap ServiceIds
    BY <1>9, <1>13 DEF ServiceIds, VulnIds
  <2> QED BY <1>8, <1>13, <1>14, <2>1, SameServices
<1>20. by_kind(h, "endpoint") = by_kind(g, "endpoint") /\ by_kind(h, "credential") = by_kind(g, "credential")
  <2>1. \A v \in gone : g.nodes[v].kind = "vulnerability" BY <1>9 DEF Vulns, by_kind
  <2> QED BY <1>13, <2>1 DEF by_kind
<1>21. ASSUME company PROVE Mild(g, h)
  <2>1. Footed(g) BY <1>21 DEF World, Company
  <2>2. kind # "ssrf" BY <1>1, <2>1 DEF Footed, _protected_kinds, _is_networked
  <2>3. \A v \in Vulns(g) : v \in Vulns(h) <=> v \notin gone BY <1>13 DEF Vulns, by_kind
  <2>4. \A v \in gone : v \notin KeptVulns(g) BY <1>2, <1>10, <2>2 DEF OfKind, KeptVulns
  <2>5. \A v \in Vulns(h) : v \in Vulns(g) /\ h.nodes[v] = g.nodes[v] BY <1>13 DEF Vulns, by_kind
  <2>6. KeptVulns(h) = KeptVulns(g) BY <2>3, <2>4, <2>5 DEF KeptVulns
  <2>7. \A v \in KeptVulns(g) : h.nodes[v] = g.nodes[v] BY <2>5, <2>6 DEF KeptVulns
  <2>8. \A t \in by_kind(g, "endpoint") : h.nodes[t] = g.nodes[t] BY <1>13, <1>20 DEF by_kind
  <2>9. Pivot \in Vulns(g) => h.nodes[Target(g, Pivot)] = g.nodes[Target(g, Pivot)] BY <1>7, <2>8, TargetIs
  <2>10. PublicEndpoints(h) = PublicEndpoints(g)
    <3>1. Links(h, "exposes") = Links(g, "exposes") BY <1>17
    <3>2. \A s : Dsts(h, "exposes", s) = Dsts(g, "exposes", s) BY <3>1, SameEnds
    <3> QED BY <1>19, <3>2 DEF PublicEndpoints
  <2>11. Links(h, "requires_credential") = Links(g, "requires_credential") BY <1>17
  <2>12. Links(h, "enables") \subseteq Links(g, "enables") BY <1>13 DEF Links
  <2>13. ASSUME NEW l \in Links(g, "enables"), l.src \in KeptVulns(g), l.dst \in KeptVulns(g)
         PROVE  l \in Links(h, "enables")
    <3>1. PICK e \in DOMAIN g.edges : g.edges[e].kind = "enables" /\ l = g.edges[e] BY <2>13 DEF Links
    <3>2. e \in DOMAIN h.edges /\ h.edges[e] = g.edges[e] BY <1>13, <2>4, <2>13, <3>1
    <3> QED BY <3>1, <3>2 DEF Links
  <2> QED BY <1>16, <1>18, <1>19, <1>20, <2>6, <2>7, <2>8, <2>9, <2>10, <2>11, <2>12, <2>13 DEF Mild
<1>22. ASSUME ~company PROVE FlatGates(h)
  <2>1. FlatGates(g) BY <1>22 DEF World
  <2>2. \A v \in Vulns(h) : v \in Vulns(g) /\ h.nodes[v] = g.nodes[v] BY <1>13 DEF Vulns, by_kind
  <2> QED BY <2>1, <2>2 DEF FlatGates
<1>23. OfKind(h, "config_disclosure") = OfKind(g, "config_disclosure")
  <2>1. Vulns(h) = Vulns(g) \ gone /\ \A v \in Vulns(h) : h.nodes[v] = g.nodes[v] BY <1>13 DEF Vulns, by_kind
  <2>2. \A v \in gone : g.nodes[v].flaw # "config_disclosure" BY <1>2, <1>10 DEF OfKind
  <2> QED BY <2>1, <2>2 DEF OfKind
<1> QED BY <1>16, <1>18, <1>21, <1>22, <1>23, MildSteps


LEMMA AltIs ==
    ASSUME NEW g, NEW kind, NEW target, NEW i, i = _pick_alt_kind(g, kind, target), i # 0
    PROVE  i \in 1 .. Len(SortedKinds) /\ SortedKinds[i] \in Range(SortedKinds)
<1> DEFINE fits(alt) ==
             /\ alt # kind
             /\ \A v \in OfKind(g, alt) : Target(g, v) # target
             /\ target \in _oracle_path_targets(g) =>
                  CATALOG[alt].shape \in _ORACLE_SHAPES_FOR_LOOT(g.nodes[_flag_store(g)].engine)
           I == {j \in 1 .. Len(SortedKinds) : fits(SortedKinds[j])}
<1>1. i = IF I # {} THEN Min(I) ELSE 0 BY DEF _pick_alt_kind, SelectInSeq, SelectInSubSeq
<1>2. I \subseteq 1 .. Len(SortedKinds) OBVIOUS
<1> HIDE DEF I
<1>3. SortedKinds \in Seq(DOMAIN CATALOG \ _INTERNAL_ONLY_KINDS) BY KindAssumption
<1>4. I \subseteq Nat BY <1>2, <1>3
<1>5. i = Min(I) /\ I # {} BY <1>1
<1>6. i \in I BY <1>4, <1>5, MinIs
<1> QED BY <1>6, <1>2, <1>3, <1>4 DEF Range

LEMMA FewFinite ==
    ASSUME NEW a, NEW b, NEW c, NEW d, NEW e
    PROVE  IsFiniteSet({a, b, c, d, e})
<1>1. IsFiniteSet({a}) BY FS_Singleton
<1>2. IsFiniteSet({a} \cup {b}) BY <1>1, FS_AddElement
<1>3. IsFiniteSet({a} \cup {b} \cup {c}) BY <1>2, FS_AddElement
<1>4. IsFiniteSet({a} \cup {b} \cup {c} \cup {d}) BY <1>3, FS_AddElement
<1>5. IsFiniteSet({a} \cup {b} \cup {c} \cup {d} \cup {e}) BY <1>4, FS_AddElement
<1>6. {a, b, c, d, e} = {a} \cup {b} \cup {c} \cup {d} \cup {e} OBVIOUS
<1> QED BY <1>5, <1>6

LEMMA SwapIs ==
    ASSUME NEW g, NEW company, World(g, company),
           NEW m \in _diversify_swap_kind_mutations(g), ~Collides(g, m.patch), NEW h, h = apply_patch(g, m.patch)
    PROVE  Steps(g, h, company)
<1>1. PICK kind \in Present(g) \ _protected_kinds(g) :
        /\ _pick_alt_kind(g, kind, Target(g, FirstById(OfKind(g, kind)))) # 0
        /\ ~(_is_networked(g) /\ SortedKinds[_pick_alt_kind(g, kind, Target(g, FirstById(OfKind(g, kind))))] = "ssrf")
        /\ m = Mutation("diversify", "swap",
             LET v == FirstById(OfKind(g, kind))
                 alt == SortedKinds[_pick_alt_kind(g, kind, Target(g, v))]
                 method == MethodAfter(g, Target(g, v), alt)
             IN [EmptyPatch EXCEPT !.nodes_updated =
                    Overridden(Single(v, Vuln(alt, Params)),
                               Single(Target(g, v), [g.nodes[Target(g, v)] EXCEPT !.method = method]))])
  BY DEF _diversify_swap_kind_mutations
<1>2. PICK v : v = FirstById(OfKind(g, kind)) OBVIOUS
<1>3. PICK t : t = Target(g, v) OBVIOUS
<1>4. PICK i : i = _pick_alt_kind(g, kind, t) OBVIOUS
<1>5. PICK alt : alt = SortedKinds[i] OBVIOUS
<1>6. PICK method : method = MethodAfter(g, t, alt) OBVIOUS
<1>7. PICK p : p = m.patch OBVIOUS
<1>8. PICK left : left = [g.nodes[t] EXCEPT !.method = method] OBVIOUS
<1>9. PICK updated : updated = Overridden(Single(v, Vuln(alt, Params)), Single(t, left)) OBVIOUS
<1>10. p = [EmptyPatch EXCEPT !.nodes_updated = updated]
  BY <1>1, <1>2, <1>3, <1>4, <1>5, <1>6, <1>7, <1>8, <1>9 DEF Mutation
<1>11. i # 0 /\ ~(_is_networked(g) /\ alt = "ssrf") BY <1>1, <1>2, <1>3, <1>4, <1>5
<1>12. Structured(g) /\ Framed(g) BY DEF World, Structured
<1>13. \A n \in DOMAIN g.nodes : NodeOK(n, g.nodes[n]) BY <1>12 DEF Framed
<1>14. Vulns(g) = DOMAIN g.nodes \cap VulnIds /\ by_kind(g, "endpoint") = DOMAIN g.nodes \cap EndpointIds
       /\ by_kind(g, "credential") = DOMAIN g.nodes \cap CredIds
  BY <1>13, KindSets
<1>15. v \in OfKind(g, kind) /\ v \in Vulns(g)
  <2>1. OfKind(g, kind) # {} /\ OfKind(g, kind) \subseteq VulnIds BY <1>1, <1>14, Zenon DEF Present, OfKind
  <2>2. v \in OfKind(g, kind) BY <1>2, <2>1, FirstByIdIsIn
  <2> QED BY <2>2 DEF OfKind
<1>16. t \in by_kind(g, "endpoint") /\ t \in EndpointIds /\ t \in DOMAIN g.nodes BY <1>3, <1>12, <1>14, <1>15, TargetIs
<1>17. v \in VulnIds /\ v \in DOMAIN g.nodes /\ v # t BY <1>14, <1>15, <1>16 DEF VulnIds, EndpointIds
<1>18. alt \in Flaws /\ alt \notin PathFlaws /\ alt \notin ChainFlaws /\ alt # "config_disclosure"
  <2>1. alt \in Range(SortedKinds) BY <1>4, <1>5, <1>11, AltIs
  <2> QED BY <2>1, OrdinaryKind
<1>19. kind \notin PathFlaws /\ kind \notin ChainFlaws /\ kind # "config_disclosure"
  BY <1>1 DEF _protected_kinds, _INTERNAL_ONLY_KINDS, PathFlaws, ChainFlaws, GateFlaws
<1>20. g.nodes[t] \in EndpointNodes
  <2>1. NodeOK(t, g.nodes[t]) BY <1>13, <1>16
  <2> QED BY <1>16, <2>1
    DEF NodeOK, EndpointIds, ServiceIds, StoreIds, CredIds, VulnIds, record_id, flag_id
<1>21. method \in {"GET", "POST"} BY <1>6, <1>20 DEF MethodAfter, EndpointNodes
<1>22. left \in EndpointNodes /\ left.path = g.nodes[t].path /\ left.kind = "endpoint" /\ left.method = method
  BY <1>8, <1>20, <1>21 DEF EndpointNodes
<1>23. DOMAIN updated = {v, t} /\ updated[v] = Vuln(alt, Params) /\ updated[t] = left
  <2>1. PICK a, b : a = Single(v, Vuln(alt, Params)) /\ b = Single(t, left) OBVIOUS
  <2>2. DOMAIN a = {v} /\ a[v] = Vuln(alt, Params) /\ DOMAIN b = {t} /\ b[t] = left BY <2>1, SingleIs
  <2>3. updated = Overridden(a, b) BY <1>9, <2>1
  <2> QED BY <1>17, <2>2, <2>3 DEF Overridden
<1>24. /\ p.nodes_removed = {} /\ p.edges_removed = {} /\ p.edges_updated = <<>>
       /\ p.nodes_updated = updated /\ DOMAIN p.nodes_added = {} /\ DOMAIN p.edges_added = {}
  BY <1>10 DEF EmptyPatch
<1>40. p.edges_updated = <<>> /\ ~Collides(g, p) /\ h = apply_patch(g, p) BY <1>7, <1>24
<1>25. Staying(g, p) = DOMAIN g.edges BY <1>24 DEF Staying, Touches
<1>26. /\ DOMAIN h = {"nodes", "edges"}
       /\ DOMAIN h.nodes = (DOMAIN g.nodes \ p.nodes_removed) \cup DOMAIN p.nodes_updated \cup DOMAIN p.nodes_added
       /\ \A n \in DOMAIN p.nodes_updated : h.nodes[n] = p.nodes_updated[n]
       /\ \A n \in DOMAIN g.nodes \ p.nodes_removed : n \notin DOMAIN p.nodes_updated => h.nodes[n] = g.nodes[n]
       /\ DOMAIN h.edges = Staying(g, p) \cup DOMAIN p.edges_added
       /\ \A e \in Staying(g, p) : h.edges[e] = g.edges[e]
  BY <1>40, PatchIs
<1>27. /\ DOMAIN h.nodes = DOMAIN g.nodes /\ h.nodes[v] = Vuln(alt, Params) /\ h.nodes[t] = left
       /\ \A n \in DOMAIN g.nodes \ {v, t} : h.nodes[n] = g.nodes[n]
       /\ DOMAIN h.edges = DOMAIN g.edges /\ \A e \in DOMAIN g.edges : h.edges[e] = g.edges[e]
  BY <1>16, <1>17, <1>23, <1>24, <1>25, <1>26
<1>28. h.nodes[v].flaw = alt /\ g.nodes[v].flaw = kind BY <1>15, <1>27, NodeFields DEF OfKind
<1>29. \A n \in DOMAIN h.nodes : NodeOK(n, h.nodes[n])
  <2>1. h.nodes[v] \in VulnNodes BY <1>18, <1>27, ParamsIs, VulnIs
  <2>2. NodeOK(v, h.nodes[v]) BY <1>17, <2>1 DEF NodeOK
  <2>3. NodeOK(t, h.nodes[t]) BY <1>16, <1>22, <1>27 DEF NodeOK
  <2> QED BY <1>13, <1>27, <2>2, <2>3
<1>30. Vulns(h) = Vulns(g) /\ by_kind(h, "endpoint") = by_kind(g, "endpoint")
       /\ by_kind(h, "credential") = by_kind(g, "credential")
  <2>1. Vulns(h) = DOMAIN h.nodes \cap VulnIds /\ by_kind(h, "endpoint") = DOMAIN h.nodes \cap EndpointIds
        /\ by_kind(h, "credential") = DOMAIN h.nodes \cap CredIds
    BY <1>29, KindSets
  <2> QED BY <1>14, <1>27, <2>1
<1>31. Grows(g, h)
  <2>1. IsFiniteSet(DOMAIN h.nodes) BY <1>12, <1>27 DEF Framed
  <2>2. Vulns(h) \ DOMAIN g.nodes = {} /\ by_kind(h, "endpoint") \ DOMAIN g.nodes = {}
    BY <1>14, <1>30
  <2> QED BY <1>26, <1>27, <1>29, <2>1, <2>2 DEF Grows
<1>32. /\ Framed(h)
       /\ \A w \in Vulns(g) : w \in Vulns(h) /\ Affecting(h, w) = Affecting(g, w) /\ Target(h, w) = Target(g, w)
  BY <1>12, <1>31, GrownIs
<1>33. \A k : Links(h, k) = Links(g, k) BY <1>27 DEF Links
<1>34. Structured(h) /\ FlagServices(h) = FlagServices(g)
  <2>1. Links(h, "contains") = Links(g, "contains") /\ Links(h, "backed_by") = Links(g, "backed_by") BY <1>33
  <2>2. record_id \in DOMAIN h.nodes /\ flag_id \in DOMAIN h.nodes BY <1>12, <1>27 DEF Structured, Homed
  <2> QED BY <1>12, <1>32, <2>1, <2>2, SameHome
<1>35. Public(h) = Public(g) /\ Internals(h) = Internals(g)
  <2>1. v \notin ServiceIds /\ t \notin ServiceIds BY <1>16, <1>17 DEF VulnIds, EndpointIds, ServiceIds
  <2>2. \A s \in DOMAIN g.nodes \cap ServiceIds : h.nodes[s] = g.nodes[s] BY <1>27, <2>1
  <2> QED BY <1>13, <1>27, <1>29, <2>2, SameServices
<1>36. ASSUME company PROVE Mild(g, h)
  <2>1. Footed(g) BY <1>36 DEF World, Company
  <2>2. _is_networked(g) BY <2>1 DEF Footed, _is_networked
  <2>3. kind # "ssrf" /\ alt # "ssrf" BY <1>1, <1>11, <2>2 DEF _protected_kinds
  <2>4. \A w \in Vulns(g) \ {v} : h.nodes[w] = g.nodes[w]
    <3>1. t \notin Vulns(g) BY <1>14, <1>16 DEF VulnIds, EndpointIds
    <3> QED BY <1>14, <1>27, <3>1
  <2>5. v \notin KeptVulns(g) /\ v \notin KeptVulns(h) BY <1>18, <1>19, <1>28, <2>3 DEF KeptVulns
  <2>6. KeptVulns(h) = KeptVulns(g) BY <1>30, <2>4, <2>5 DEF KeptVulns
  <2>7. \A w \in KeptVulns(g) : h.nodes[w] = g.nodes[w] BY <2>4, <2>5 DEF KeptVulns
  <2>8. \A x \in by_kind(g, "endpoint") : h.nodes[x].path = g.nodes[x].path
    <3>1. v \notin by_kind(g, "endpoint") BY <1>14, <1>17 DEF VulnIds, EndpointIds
    <3> QED BY <1>14, <1>22, <1>27, <3>1
  <2>9. Pivot \in Vulns(g) /\ g.nodes[Pivot].flaw = "ssrf" BY <2>1 DEF Footed, OfKind
  <2>10. h.nodes[Target(g, Pivot)].method = g.nodes[Target(g, Pivot)].method
    <3>1. Target(g, Pivot) \in by_kind(g, "endpoint") BY <1>12, <2>9, TargetIs
    <3>2. CASE Target(g, Pivot) # t
      <4>1. Target(g, Pivot) \in DOMAIN g.nodes \ {v, t} BY <1>14, <1>17, <3>1, <3>2 DEF VulnIds, EndpointIds
      <4> QED BY <1>27, <4>1
    <3>3. CASE Target(g, Pivot) = t
      <4>1. PICK S : S = {g.nodes[w].flaw : w \in Srcs(g, "affects", t)} OBVIOUS
      <4>2. Pivot \in Srcs(g, "affects", t) /\ v \in Srcs(g, "affects", t)
        BY <1>3, <1>12, <1>15, <2>9, <3>3, TargetIs DEF Srcs, Affects
      <4>3. "ssrf" \in S /\ kind \in S BY <1>28, <2>9, <4>1, <4>2
      <4>4. Cardinality(S) # 1
        <5>1. IsFiniteSet(S)
          <6>1. S \subseteq Flaws
            <7>1. \A w \in Srcs(g, "affects", t) : w \in Vulns(g)
              BY <1>12 DEF Framed, EdgeOK, SrcKind, Srcs, Vulns, by_kind
            <7>2. \A w \in Vulns(g) : g.nodes[w].flaw \in Flaws
              <8>1. \A w \in Vulns(g) : NodeOK(w, g.nodes[w]) /\ w \in VulnIds BY <1>13, <1>14
              <8> QED BY <8>1
                DEF NodeOK, VulnNodes, EndpointIds, ServiceIds, StoreIds, CredIds, VulnIds, record_id, flag_id
            <7> QED BY <4>1, <7>1, <7>2
          <6>2. IsFiniteSet(Flaws)
            <7>1. Flaws = {"sql_injection", "ssrf", "broken_authz", "path_traversal", "command_injection", "xxe",
                           "ssti", "idor", "weak_credentials", "metadata_credential_leak", "config_disclosure",
                           "credential_leak", "credential_gated_flag", "credential_gated_relay"}
              BY DEF Flaws, CATALOG
            <7>2. PICK A, B, C :
                    /\ A = {"sql_injection", "ssrf", "broken_authz", "path_traversal", "command_injection"}
                    /\ B = {"xxe", "ssti", "idor", "weak_credentials", "metadata_credential_leak"}
                    /\ C = {"config_disclosure", "credential_leak", "credential_gated_flag", "credential_gated_relay",
                            "credential_gated_relay"}
              OBVIOUS
            <7>3. IsFiniteSet(A) /\ IsFiniteSet(B) /\ IsFiniteSet(C) BY <7>2, FewFinite
            <7>4. Flaws = A \cup B \cup C BY <7>1, <7>2
            <7> QED BY <7>3, <7>4, FS_Union
          <6> QED BY <6>1, <6>2, FS_Subset
        <5>2. \A x : S # {x} BY <2>3, <4>3
        <5> QED BY <5>1, <5>2, FS_Singleton
      <4>5. ~SoleVuln(g, t) BY <4>1, <4>4 DEF SoleVuln
      <4>6. method = g.nodes[t].method BY <1>6, <4>5 DEF MethodAfter
      <4> QED BY <1>22, <1>27, <3>3, <4>6
    <3> QED BY <3>2, <3>3
  <2>11. PublicEndpoints(h) = PublicEndpoints(g)
    <3>1. \A s : Dsts(h, "exposes", s) = Dsts(g, "exposes", s) BY <1>33, SameEnds
    <3> QED BY <1>35, <3>1 DEF PublicEndpoints
  <2>12. \A w \in Vulns(g) \cap Vulns(h) : Target(h, w) = Target(g, w) BY <1>32
  <2>13. Links(h, "requires_credential") = Links(g, "requires_credential") /\ Links(h, "enables") = Links(g, "enables")
    BY <1>33
  <2> QED BY <1>30, <1>34, <1>35, <2>6, <2>7, <2>8, <2>10, <2>11, <2>12, <2>13 DEF Mild
<1>37. ASSUME ~company PROVE FlatGates(h)
  <2>1. FlatGates(g) BY <1>37 DEF World
  <2>2. \A w \in Vulns(g) \ {v} : h.nodes[w] = g.nodes[w]
    <3>1. t \notin Vulns(g) BY <1>14, <1>16 DEF VulnIds, EndpointIds
    <3> QED BY <1>14, <1>27, <3>1
  <2> QED BY <1>18, <1>28, <1>30, <2>1, <2>2 DEF FlatGates
<1>38. \A e \in Affects(g) \cap Affects(h) : h.edges[e] = g.edges[e] BY <1>27 DEF Affects
<1>39. \A w \in Vulns(g) \cap Vulns(h) : Affecting(h, w) = Affecting(g, w) BY <1>32
<1>41. OfKind(h, "config_disclosure") = OfKind(g, "config_disclosure")
  <2>1. \A w \in Vulns(g) \ {v} : h.nodes[w] = g.nodes[w]
    <3>1. t \notin Vulns(g) BY <1>14, <1>16 DEF VulnIds, EndpointIds
    <3> QED BY <1>14, <1>27, <3>1
  <2> QED BY <1>18, <1>19, <1>28, <1>30, <2>1 DEF OfKind
<1> QED BY <1>32, <1>34, <1>36, <1>37, <1>38, <1>39, <1>41, MildSteps


(* What a hop is appended with: the edges of a gate on another host.                    *)
HopEdges(g, old, host, cred, ep, new) ==
    {Edge("backed_by", host, _flag_store(g)), Edge("exposes", host, ep), Edge("affects", new, ep),
     Edge("enables", old, new), Edge("requires_credential", ep, cred), Edge("produces", old, cred)}

(* A world with one hop more: the terminal gate gives a token away for a gate at a new     *)
(* endpoint of a host that was not on the chain, and the store moves there.               *)
Appended(g, h, c, old, host, cred, ep, new, token) ==
    /\ DOMAIN h = {"nodes", "edges"} /\ old = c[Len(c)]
    /\ host \in Internals(g) /\ \A i \in 1 .. Len(c) : HostOf(g, c[i]) # host
    /\ cred \in CredIds /\ ep \in EndpointIds /\ new \in VulnIds /\ Svc(ep[2]) = host
    /\ cred \notin DOMAIN g.nodes /\ ep \notin DOMAIN g.nodes /\ new \notin DOMAIN g.nodes
    /\ DOMAIN h.nodes = DOMAIN g.nodes \cup {cred, ep, new}
    /\ \A n \in DOMAIN g.nodes \ {old} : h.nodes[n] = g.nodes[n]
    /\ h.nodes[cred] \in HolderNodes("credential") /\ h.nodes[ep] = Endpoint("vault")
    /\ h.nodes[new] \in VulnNodes /\ h.nodes[old] \in VulnNodes
    /\ h.nodes[new].flaw = "credential_gated_flag" /\ h.nodes[new].params.credential = token
    /\ h.nodes[old].flaw = "credential_gated_relay" /\ h.nodes[old].params.next_credential = token
    /\ h.nodes[old].params.credential = g.nodes[old].params.credential /\ h.nodes[old].params.host = host
    /\ \A e \in DOMAIN h.edges :
         \/ e \in DOMAIN g.edges /\ h.edges[e] = g.edges[e] /\ g.edges[e].kind # "backed_by"
         \/ h.edges[e] \in HopEdges(g, old, host, cred, ep, new)
    /\ \A e \in DOMAIN g.edges : g.edges[e].kind # "backed_by" => e \in DOMAIN h.edges /\ h.edges[e] = g.edges[e]
    /\ \A l \in HopEdges(g, old, host, cred, ep, new) : \E e \in DOMAIN h.edges : h.edges[e] = l
    /\ \E a \in DOMAIN h.edges : h.edges[a] = Edge("affects", new, ep)
         /\ \A e \in DOMAIN h.edges : h.edges[e] = Edge("affects", new, ep) => e = a

(* The last gate of a chain is the only one that serves the flag.                       *)
LEMMA TerminalIs ==
    ASSUME NEW g, NEW c \in Seq(Vulns(g)), ChainNodes(g, c)
    PROVE  /\ OfKind(g, "credential_gated_flag") = {c[Len(c)]} /\ Terminal(g) = c[Len(c)]
           /\ c[Len(c)] \in Vulns(g) /\ Len(c) \in Nat
<1>1. PICK n : n = Len(c) OBVIOUS
<1>2. n \in Nat /\ n >= 2 /\ \A i \in 1 .. n : c[i] \in Vulns(g) BY <1>1 DEF ChainNodes
<1>3. c[n] \in OfKind(g, "credential_gated_flag") BY <1>1, <1>2 DEF ChainNodes, OfKind
<1>4. ASSUME NEW v \in OfKind(g, "credential_gated_flag") PROVE v = c[n]
  <2>1. v \in Vulns(g) /\ g.nodes[v].flaw = "credential_gated_flag" BY <1>4 DEF OfKind
  <2>2. PICK i \in 1 .. n : v = c[i] BY <1>1, <2>1 DEF ChainNodes, ChainFlaws, GateFlaws
  <2>3. i # 1 BY <2>1, <2>2 DEF ChainNodes
  <2>4. i \notin 2 .. n - 1 BY <1>1, <2>1, <2>2 DEF ChainNodes
  <2> QED BY <1>2, <2>2, <2>3, <2>4
<1>5. OfKind(g, "credential_gated_flag") = {c[n]} BY <1>3, <1>4
<1> QED BY <1>1, <1>2, <1>5 DEF Terminal

LEMMA SpareIs ==
    ASSUME NEW g, Framed(g), Spares(g) # {}, NEW host, host = _spare_internal_service(g)
    PROVE  /\ host \in Internals(g) /\ host \in ServiceIds /\ host = Svc(host[2]) /\ host[2] \in Nat
           /\ \A v \in Vulns(g) : g.nodes[v].flaw \in ChainFlaws => HostOf(g, v) # host
<1>1. PICK S : S = Spares(g) OBVIOUS
<1>2. S \subseteq ServiceIds
  <2>1. \A n \in DOMAIN g.nodes : NodeOK(n, g.nodes[n]) BY DEF Framed
  <2>2. by_kind(g, "service") \subseteq ServiceIds BY <2>1, KindSets
  <2> QED BY <1>1, <2>2 DEF Spares, Internals
<1> DEFINE rank == [s \in S |-> s[2]]
<1>3. rank \in [S -> Nat] BY <1>2 DEF ServiceIds
<1>4. PICK s \in S : \A t \in S : rank[s] <= rank[t]
  <2> HIDE DEF rank
  <2> QED BY <1>1, <1>3, SomeLeastRank
<1>5. host = CHOOSE x \in S : \A t \in S : x[2] <= t[2] BY <1>1 DEF _spare_internal_service
<1>6. host \in S
  <2>1. \A t \in S : s[2] <= t[2] BY <1>4
  <2> QED BY <1>5, <2>1
<1>7. host \in ServiceIds /\ host \in Internals(g) BY <1>1, <1>2, <1>6 DEF Spares
<1>8. host = Svc(host[2]) /\ host[2] \in Nat BY <1>7 DEF ServiceIds, Svc
<1>9. host \notin _chain_service_ids(g) BY <1>1, <1>6 DEF Spares
<1>10. ASSUME NEW v \in Vulns(g), g.nodes[v].flaw \in ChainFlaws PROVE HostOf(g, v) # host
  BY <1>9, <1>10 DEF _chain_service_ids, ChainFlaws, GateFlaws
<1> QED BY <1>7, <1>8, <1>10

LEMMA AppendedIs ==
    ASSUME NEW g, Structured(g), NEW c \in Seq(Vulns(g)), Chain(g, c),
           NEW m \in _harden_append_hop_mutation(g), ~Collides(g, m.patch), NEW h, h = apply_patch(g, m.patch)
    PROVE  \E old, host, cred, ep, new, token : Appended(g, h, c, old, host, cred, ep, new, token)
<1>1. Spares(g) # {} /\ m \in
        LET old == Terminal(g)
            host == _spare_internal_service(g)
            index == Cardinality(by_kind(g, "credential"))
            cred == <<"cred", index>>
            token == <<"appended", old[3], index>>
            ep == <<"ep", host[2], "vault">>
            new == _fresh_vuln_id("credential_gated_flag", g)
            relay == Vuln("credential_gated_relay",
                         [Params EXCEPT !.credential = g.nodes[old].params.credential,
                                        !.next_credential = token, !.host = host])
            gate == Vuln("credential_gated_flag", [Params EXCEPT !.credential = token])
        IN {Mutation("harden", "append",
               [EmptyPatch EXCEPT
                   !.nodes_added = Overridden(Overridden(Single(cred, Holder("credential", token)),
                                                         Single(ep, Endpoint("vault"))), Single(new, gate)),
                   !.nodes_updated = Single(old, relay),
                   !.edges_removed = Rehomed(g, host).removed,
                   !.edges_added = EdgesOf(Rehomed(g, host).added \cup
                       {ChainEdge("exposes", host, ep), ChainEdge("affects", new, ep),
                        ChainEdge("enables", old, new), ChainEdge("requires_credential", ep, cred),
                        ChainEdge("produces", old, cred)})])}
  BY DEF _harden_append_hop_mutation
<1>2. PICK old : old = Terminal(g) OBVIOUS
<1>3. PICK host : host = _spare_internal_service(g) OBVIOUS
<1>4. PICK index : index = Cardinality(by_kind(g, "credential")) OBVIOUS
<1>5. PICK cred, token, ep : cred = <<"cred", index>> /\ token = <<"appended", old[3], index>>
        /\ ep = <<"ep", host[2], "vault">>
  OBVIOUS
<1>6. PICK new : new = _fresh_vuln_id("credential_gated_flag", g) OBVIOUS
<1>7. PICK given : given = [Params EXCEPT !.credential = g.nodes[old].params.credential,
                                          !.next_credential = token, !.host = host]
  OBVIOUS
<1>8. PICK asked : asked = [Params EXCEPT !.credential = token] OBVIOUS
<1>9. PICK relay, gate : relay = Vuln("credential_gated_relay", given) /\ gate = Vuln("credential_gated_flag", asked)
  OBVIOUS
<1>10. PICK added : added = Overridden(Overridden(Single(cred, Holder("credential", token)),
                                                  Single(ep, Endpoint("vault"))), Single(new, gate))
  OBVIOUS
<1>11. PICK updated : updated = Single(old, relay) OBVIOUS
<1>12. PICK ids : ids = Rehomed(g, host).added \cup
                       {ChainEdge("exposes", host, ep), ChainEdge("affects", new, ep),
                        ChainEdge("enables", old, new), ChainEdge("requires_credential", ep, cred),
                        ChainEdge("produces", old, cred)}
  OBVIOUS
<1>13. PICK joined, left : joined = EdgesOf(ids) /\ left = Rehomed(g, host).removed OBVIOUS
<1>14. PICK p : p = m.patch OBVIOUS
<1>15. p = [EmptyPatch EXCEPT !.nodes_added = added, !.nodes_updated = updated,
                              !.edges_removed = left, !.edges_added = joined]
  BY <1>1, <1>2, <1>3, <1>4, <1>5, <1>6, <1>7, <1>8, <1>9, <1>10, <1>11, <1>12, <1>13, <1>14 DEF Mutation
<1>16. /\ p.nodes_removed = {} /\ p.edges_removed = left /\ p.edges_updated = <<>>
       /\ p.nodes_updated = updated /\ p.nodes_added = added /\ p.edges_added = joined
  BY <1>15 DEF EmptyPatch
<1>17. ChainNodes(g, c) /\ ChainCreds(g, c) BY DEF Chain
<1>18. old = c[Len(c)] /\ old \in Vulns(g) /\ g.nodes[old].flaw = "credential_gated_flag" /\ Len(c) \in Nat
  <2>1. old = c[Len(c)] /\ old \in Vulns(g) /\ Len(c) \in Nat BY <1>2, <1>17, TerminalIs
  <2> QED BY <1>17, <2>1 DEF ChainNodes
<1>19. Framed(g) BY DEF Structured
<1>20. \A n \in DOMAIN g.nodes : NodeOK(n, g.nodes[n]) BY <1>19 DEF Framed
<1>21. /\ host \in Internals(g) /\ host \in ServiceIds /\ host = Svc(host[2]) /\ host[2] \in Nat
       /\ \A v \in Vulns(g) : g.nodes[v].flaw \in ChainFlaws => HostOf(g, v) # host
  BY <1>1, <1>3, <1>19, SpareIs
<1>22. index = Len(c) - 1 /\ index \in Nat BY <1>4, <1>17, <1>18 DEF ChainCreds, ChainNodes
<1>23. cred \in CredIds /\ ep \in EndpointIds /\ Svc(ep[2]) = host
  <2>1. cred \in CredIds BY <1>5, <1>22 DEF CredIds
  <2>2. ep \in EndpointIds /\ ep[2] = host[2] BY <1>5, <1>21 DEF EndpointIds, Paths
  <2> QED BY <1>21, <2>1, <2>2
<1>24. new \in VulnIds
  <2>1. IsFiniteSet(DOMAIN g.nodes) BY <1>19 DEF Framed
  <2>2. "credential_gated_flag" \in Flaws BY DEF Flaws, CATALOG
  <2> QED BY <1>6, <2>1, <2>2, FreshIs
<1>25. old \in VulnIds /\ g.nodes[old] \in VulnNodes
  <2>1. old \in VulnIds /\ old \in DOMAIN g.nodes BY <1>18, <1>20, KindSets
  <2>2. NodeOK(old, g.nodes[old]) BY <1>20, <2>1
  <2> QED BY <2>1, <2>2 DEF NodeOK, EndpointIds, ServiceIds, StoreIds, CredIds, VulnIds, record_id, flag_id
<1>26. token \in Values BY <1>5, <1>22, <1>25 DEF Values, VulnIds
<1>27. /\ given \in ParamSet /\ given.credential = g.nodes[old].params.credential
       /\ given.next_credential = token /\ given.host = host
  <2>1. g.nodes[old].params.credential \in Values BY <1>25 DEF VulnNodes, ParamSet
  <2> QED BY <1>7, <1>21, <1>26, <2>1, ParamsIs DEF ParamSet
<1>28. asked \in ParamSet /\ asked.credential = token BY <1>8, <1>26, ParamsIs DEF ParamSet
<1>29. relay \in VulnNodes /\ gate \in VulnNodes
  <2>1. "credential_gated_flag" \in Flaws /\ "credential_gated_relay" \in Flaws BY DEF Flaws, CATALOG
  <2> QED BY <1>9, <1>27, <1>28, <2>1, VulnIs
<1>30. /\ relay.flaw = "credential_gated_relay" /\ relay.params = given
       /\ gate.flaw = "credential_gated_flag" /\ gate.params = asked
  BY <1>9, NodeFields
<1>31. cred # ep /\ cred # new /\ ep # new BY <1>23, <1>24 DEF CredIds, EndpointIds, VulnIds
<1>32. DOMAIN added = {cred, ep, new} /\ added[cred] = Holder("credential", token)
       /\ added[ep] = Endpoint("vault") /\ added[new] = gate
  <2>1. PICK x, y, z : x = Single(cred, Holder("credential", token)) /\ y = Single(ep, Endpoint("vault"))
          /\ z = Single(new, gate)
    OBVIOUS
  <2>2. /\ DOMAIN x = {cred} /\ x[cred] = Holder("credential", token)
        /\ DOMAIN y = {ep} /\ y[ep] = Endpoint("vault") /\ DOMAIN z = {new} /\ z[new] = gate
    BY <2>1, SingleIs
  <2>3. PICK xy : xy = Overridden(x, y) OBVIOUS
  <2>4. DOMAIN xy = {cred, ep} /\ xy[cred] = x[cred] /\ xy[ep] = y[ep] BY <1>31, <2>2, <2>3 DEF Overridden
  <2>5. added = Overridden(xy, z) BY <1>10, <2>1, <2>3
  <2> QED BY <1>31, <2>2, <2>4, <2>5 DEF Overridden
<1>33. DOMAIN updated = {old} /\ updated[old] = relay BY <1>11, SingleIs
<1>34. left = StoreEdge(g) /\ ids = {ChainEdge("backed_by", host, _flag_store(g)), ChainEdge("exposes", host, ep),
                                     ChainEdge("affects", new, ep), ChainEdge("enables", old, new),
                                     ChainEdge("requires_credential", ep, cred), ChainEdge("produces", old, cred)}
  BY <1>12, <1>13 DEF Rehomed
<1>35. DOMAIN joined = ids /\ \A e \in ids : joined[e] = Edge(e[2], e[3], e[4]) BY <1>13, EdgesOfIs
<1>36. p.edges_updated = <<>> /\ ~Collides(g, p) /\ h = apply_patch(g, p) BY <1>14, <1>16
<1>37. /\ DOMAIN h = {"nodes", "edges"}
       /\ DOMAIN h.nodes = (DOMAIN g.nodes \ p.nodes_removed) \cup DOMAIN p.nodes_updated \cup DOMAIN p.nodes_added
       /\ \A n \in DOMAIN p.nodes_added : /\ h.nodes[n] = p.nodes_added[n] /\ n \notin DOMAIN p.nodes_updated
                                          /\ n \notin DOMAIN g.nodes \ p.nodes_removed
       /\ \A n \in DOMAIN p.nodes_updated : h.nodes[n] = p.nodes_updated[n]
       /\ \A n \in DOMAIN g.nodes \ p.nodes_removed : n \notin DOMAIN p.nodes_updated => h.nodes[n] = g.nodes[n]
       /\ DOMAIN h.edges = Staying(g, p) \cup DOMAIN p.edges_added
       /\ Staying(g, p) \cap DOMAIN p.edges_added = {}
       /\ \A e \in DOMAIN p.edges_added : h.edges[e] = p.edges_added[e]
       /\ \A e \in Staying(g, p) : h.edges[e] = g.edges[e]
  BY <1>36, PatchIs
<1>38. old \in DOMAIN g.nodes BY <1>18 DEF Vulns, by_kind
<1>39. /\ DOMAIN h.nodes = DOMAIN g.nodes \cup {cred, ep, new}
       /\ cred \notin DOMAIN g.nodes /\ ep \notin DOMAIN g.nodes /\ new \notin DOMAIN g.nodes
       /\ h.nodes[cred] = Holder("credential", token) /\ h.nodes[ep] = Endpoint("vault") /\ h.nodes[new] = gate
       /\ h.nodes[old] = relay /\ \A n \in DOMAIN g.nodes \ {old} : h.nodes[n] = g.nodes[n]
  BY <1>16, <1>32, <1>33, <1>37, <1>38
<1>40. h.nodes[cred] \in HolderNodes("credential") BY <1>26, <1>39 DEF Holder, HolderNodes
<1>41. Staying(g, p) = {e \in DOMAIN g.edges : g.edges[e].kind # "backed_by"}
  <2>1. PICK s, d \in DOMAIN g.nodes :
          Links(g, "backed_by") = {Edge("backed_by", s, d)} /\ _flag_store(g) = d
    BY HomeIs
  <2>2. \A e \in DOMAIN g.edges : g.edges[e].kind = "backed_by" => g.edges[e] = Edge("backed_by", s, d)
    BY <2>1 DEF Links
  <2>3. \A e \in DOMAIN g.edges : g.edges[e].kind = "backed_by" => g.edges[e].dst = _flag_store(g)
    BY <2>1, <2>2, EdgeFields
  <2>4. StoreEdge(g) = {e \in DOMAIN g.edges : g.edges[e].kind = "backed_by"} BY <2>3 DEF StoreEdge
  <2> QED BY <1>16, <1>34, <2>4 DEF Staying, Touches
<1>42. /\ DOMAIN h.edges = {e \in DOMAIN g.edges : g.edges[e].kind # "backed_by"} \cup ids
       /\ \A e \in ids : h.edges[e] = Edge(e[2], e[3], e[4])
       /\ \A e \in DOMAIN g.edges : g.edges[e].kind # "backed_by" => h.edges[e] = g.edges[e] /\ e \notin ids
  BY <1>16, <1>35, <1>37, <1>41
<1>43. PICK L : L = HopEdges(g, old, host, cred, ep, new) OBVIOUS
<1>44. \A e \in ids : h.edges[e] \in L BY <1>34, <1>42, <1>43, ChainEdgeIs DEF HopEdges
<1>45. \A l \in L : \E e \in ids : h.edges[e] = l
  <2>1. ASSUME NEW k, NEW x, NEW y, ChainEdge(k, x, y) \in ids PROVE \E e \in ids : h.edges[e] = Edge(k, x, y)
    BY <1>42, <2>1, ChainEdgeIs
  <2> QED BY <1>34, <1>43, <2>1 DEF HopEdges
<1>46. PICK a : a = ChainEdge("affects", new, ep) OBVIOUS
<1>47. a \in DOMAIN h.edges /\ h.edges[a] = Edge("affects", new, ep) BY <1>34, <1>42, <1>46, ChainEdgeIs
<1>48. ASSUME NEW e \in DOMAIN h.edges, h.edges[e] = Edge("affects", new, ep) PROVE e = a
  <2>1. h.edges[e].src = new /\ h.edges[e].kind = "affects" BY <1>48, EdgeFields
  <2>2. e \in ids
    <3>1. \A f \in DOMAIN g.edges : g.edges[f].src \in DOMAIN g.nodes BY <1>19 DEF Framed, EdgeOK
    <3> QED BY <1>39, <1>42, <2>1, <3>1
  <2>3. h.edges[e].kind = e[2] BY <1>42, <2>2, EdgeFields
  <2> QED BY <1>34, <1>46, <2>1, <2>2, <2>3, ChainEdgeIs
<1>49. \A i \in 1 .. Len(c) : HostOf(g, c[i]) # host
  <2>1. \A i \in 1 .. Len(c) : c[i] \in Vulns(g) /\ g.nodes[c[i]].flaw \in ChainFlaws
    <3>1. \A i \in 1 .. Len(c) : i = 1 \/ i = Len(c) \/ i \in 2 .. Len(c) - 1 BY <1>18
    <3> QED BY <1>17, <3>1 DEF ChainNodes, ChainFlaws, GateFlaws
  <2> QED BY <1>21, <2>1
<1>50. \A e \in DOMAIN h.edges :
         \/ e \in DOMAIN g.edges /\ h.edges[e] = g.edges[e] /\ g.edges[e].kind # "backed_by"
         \/ h.edges[e] \in L
  BY <1>42, <1>44
<1>51. \A e \in DOMAIN g.edges : g.edges[e].kind # "backed_by" => e \in DOMAIN h.edges /\ h.edges[e] = g.edges[e]
  BY <1>42
<1>52. \A l \in L : \E e \in DOMAIN h.edges : h.edges[e] = l BY <1>42, <1>45
<1>53. Appended(g, h, c, old, host, cred, ep, new, token)
  BY <1>18, <1>21, <1>23, <1>24, <1>27, <1>28, <1>29, <1>30, <1>37, <1>39, <1>40, <1>43, <1>47, <1>48, <1>49, <1>50,
     <1>51, <1>52 DEF Appended
<1> QED BY <1>53


(* How a world with one hop more is read.                                           *)
HopRead(g, h, old, host, cred, ep, new) ==
    /\ Structured(h) /\ FlagServices(h) = {host}
    /\ Vulns(h) = Vulns(g) \cup {new} /\ new \notin Vulns(g) /\ old \in Vulns(g)
    /\ by_kind(h, "credential") = by_kind(g, "credential") \cup {cred} /\ cred \notin by_kind(g, "credential")
    /\ by_kind(g, "endpoint") \subseteq by_kind(h, "endpoint") /\ ep \notin by_kind(g, "endpoint")
    /\ \A v \in Vulns(g) \ {old} : h.nodes[v] = g.nodes[v]
    /\ \A t \in by_kind(g, "endpoint") : h.nodes[t] = g.nodes[t]
    /\ \A v \in Vulns(g) : /\ Affecting(h, v) = Affecting(g, v)
                           /\ Target(h, v) = Target(g, v) /\ HostOf(h, v) = HostOf(g, v)
    /\ Target(h, new) = ep /\ HostOf(h, new) = host
    /\ Public(h) = Public(g) /\ Internals(h) = Internals(g) /\ PublicEndpoints(g) \subseteq PublicEndpoints(h)
    /\ Links(h, "enables") = Links(g, "enables") \cup {Edge("enables", old, new)}
    /\ Links(h, "requires_credential") = Links(g, "requires_credential") \cup {Edge("requires_credential", ep, cred)}
    /\ \A e \in Affecting(h, new), d \in Affects(h) : h.edges[d].dst = h.edges[e].dst => d = e
    /\ \A e \in Affects(g) \cap Affects(h) : h.edges[e] = g.edges[e]

LEMMA HopReadIs ==
    ASSUME NEW g, Structured(g), NEW c \in Seq(Vulns(g)), Chain(g, c), NEW h,
           NEW old, NEW host, NEW cred, NEW ep, NEW new, NEW token,
           Appended(g, h, c, old, host, cred, ep, new, token)
    PROVE  HopRead(g, h, old, host, cred, ep, new)
<1>1. Framed(g) BY DEF Structured
<1>2. \A n \in DOMAIN g.nodes : NodeOK(n, g.nodes[n]) BY <1>1 DEF Framed
<1>3. old = c[Len(c)] /\ old \in Vulns(g)
  <2>1. ChainNodes(g, c) BY DEF Chain
  <2> QED BY <2>1, TerminalIs DEF Appended
<1>4. /\ Vulns(g) = DOMAIN g.nodes \cap VulnIds /\ by_kind(g, "endpoint") = DOMAIN g.nodes \cap EndpointIds
      /\ by_kind(g, "credential") = DOMAIN g.nodes \cap CredIds
  BY <1>2, KindSets
<1>5. /\ cred \in CredIds /\ ep \in EndpointIds /\ new \in VulnIds /\ Svc(ep[2]) = host
      /\ cred \notin DOMAIN g.nodes /\ ep \notin DOMAIN g.nodes /\ new \notin DOMAIN g.nodes
      /\ DOMAIN h.nodes = DOMAIN g.nodes \cup {cred, ep, new} /\ DOMAIN h = {"nodes", "edges"}
      /\ \A n \in DOMAIN g.nodes \ {old} : h.nodes[n] = g.nodes[n]
      /\ h.nodes[cred] \in HolderNodes("credential") /\ h.nodes[ep] = Endpoint("vault")
      /\ h.nodes[new] \in VulnNodes /\ h.nodes[old] \in VulnNodes /\ host \in Internals(g)
  BY DEF Appended
<1>6. \A n \in DOMAIN h.nodes : NodeOK(n, h.nodes[n])
  <2>1. NodeOK(cred, h.nodes[cred]) /\ NodeOK(new, h.nodes[new]) /\ NodeOK(old, h.nodes[old])
    BY <1>3, <1>4, <1>5 DEF NodeOK
  <2>2. h.nodes[ep] \in EndpointNodes BY <1>5 DEF Endpoint, EndpointNodes, Paths
  <2>3. NodeOK(ep, h.nodes[ep]) BY <1>5, <2>2 DEF NodeOK
  <2> QED BY <1>2, <1>5, <2>1, <2>3
<1>7. /\ by_kind(h, "service") = DOMAIN h.nodes \cap ServiceIds
      /\ Vulns(h) = DOMAIN h.nodes \cap VulnIds /\ by_kind(h, "endpoint") = DOMAIN h.nodes \cap EndpointIds
      /\ by_kind(h, "credential") = DOMAIN h.nodes \cap CredIds
  BY <1>6, KindSets
<1>8. /\ Vulns(h) = Vulns(g) \cup {new} /\ by_kind(h, "endpoint") = by_kind(g, "endpoint") \cup {ep}
      /\ by_kind(h, "credential") = by_kind(g, "credential") \cup {cred}
  <2>1. cred \notin VulnIds /\ cred \notin EndpointIds /\ ep \notin VulnIds /\ ep \notin CredIds
        /\ new \notin EndpointIds /\ new \notin CredIds
    BY <1>5 DEF VulnIds, CredIds, EndpointIds
  <2> QED BY <1>4, <1>5, <1>7, <2>1
<1>9. PICK s, d \in DOMAIN g.nodes :
        /\ Links(g, "contains") = {Edge("contains", d, record_id)} /\ Links(g, "backed_by") = {Edge("backed_by", s, d)}
        /\ _flag_store(g) = d /\ g.nodes[d].kind = "data_store"
  BY HomeIs
<1>10. PICK L : L = HopEdges(g, old, host, cred, ep, new) OBVIOUS
<1>11. L = {Edge("backed_by", host, d), Edge("exposes", host, ep), Edge("affects", new, ep),
            Edge("enables", old, new), Edge("requires_credential", ep, cred), Edge("produces", old, cred)}
  BY <1>9, <1>10 DEF HopEdges
<1>12. /\ \A e \in DOMAIN h.edges :
            \/ e \in DOMAIN g.edges /\ h.edges[e] = g.edges[e] /\ g.edges[e].kind # "backed_by"
            \/ h.edges[e] \in L
       /\ \A e \in DOMAIN g.edges : g.edges[e].kind # "backed_by" => e \in DOMAIN h.edges /\ h.edges[e] = g.edges[e]
       /\ \A l \in L : \E e \in DOMAIN h.edges : h.edges[e] = l
  BY <1>10 DEF Appended
<1>13. /\ host \in DOMAIN g.nodes /\ g.nodes[host].kind = "service" /\ host # old /\ d # old
       /\ g.nodes[old].kind = "vulnerability" /\ old \in DOMAIN g.nodes
  BY <1>3, <1>5, <1>9 DEF Internals, Vulns, by_kind
<1>14. /\ h.nodes[host].kind = "service" /\ h.nodes[d].kind = "data_store" /\ h.nodes[ep].kind = "endpoint"
       /\ h.nodes[new].kind = "vulnerability" /\ h.nodes[old].kind = "vulnerability"
       /\ h.nodes[cred].kind = "credential"
  <2>1. h.nodes[host] = g.nodes[host] /\ h.nodes[d] = g.nodes[d] BY <1>5, <1>13
  <2>2. h.nodes[ep].kind = "endpoint" BY <1>5, NodeFields
  <2> QED BY <1>5, <1>9, <1>13, <2>1, <2>2 DEF VulnNodes, HolderNodes
<1>15. \A l \in L : EdgeOK(h, l) /\ (l.kind = "affects" => l.src = new)
  <2>1. host \in DOMAIN h.nodes /\ d \in DOMAIN h.nodes /\ ep \in DOMAIN h.nodes /\ new \in DOMAIN h.nodes
        /\ old \in DOMAIN h.nodes /\ cred \in DOMAIN h.nodes
    BY <1>5, <1>13
  <2> QED BY <1>5, <1>11, <1>14, <2>1 DEF EdgeOK, Edge, SrcKind, DstKind
<1>16. PICK a \in DOMAIN h.edges : /\ h.edges[a] = Edge("affects", new, ep)
                                   /\ \A e \in DOMAIN h.edges : h.edges[e] = Edge("affects", new, ep) => e = a
  BY DEF Appended
<1>17. \A e \in DOMAIN g.edges : /\ g.edges[e].src \in DOMAIN g.nodes /\ g.edges[e].dst \in DOMAIN g.nodes
                                 /\ g.edges[e].kind \in DOMAIN SrcKind
  BY <1>1 DEF Framed, EdgeOK
<1>18. Affecting(h, new) = {a} /\ a \in Affects(h)
  <2>1. h.edges[a].kind = "affects" /\ h.edges[a].src = new BY <1>16, EdgeFields
  <2>2. \A l \in L : l.kind = "affects" => l = Edge("affects", new, ep) BY <1>11, EdgeFields
  <2>3. ASSUME NEW e \in DOMAIN h.edges, h.edges[e].kind = "affects", h.edges[e].src = new PROVE e = a
    <3>1. h.edges[e] \in L BY <1>5, <1>12, <1>17, <2>3
    <3> QED BY <1>16, <2>2, <2>3, <3>1
  <2> QED BY <1>16, <2>1, <2>3 DEF Affecting, Affects
<1>19. Grows(g, h)
  <2>1. IsFiniteSet(DOMAIN h.nodes)
    <3>1. IsFiniteSet(DOMAIN g.nodes) BY <1>1 DEF Framed
    <3>2. IsFiniteSet(DOMAIN g.nodes \cup {cred}) BY <3>1, FS_AddElement
    <3>3. IsFiniteSet(DOMAIN g.nodes \cup {cred} \cup {ep}) BY <3>2, FS_AddElement
    <3>4. IsFiniteSet(DOMAIN g.nodes \cup {cred} \cup {ep} \cup {new}) BY <3>3, FS_AddElement
    <3>5. DOMAIN h.nodes = DOMAIN g.nodes \cup {cred} \cup {ep} \cup {new} BY <1>5
    <3> QED BY <3>4, <3>5
  <2>2. \A e \in DOMAIN h.edges :
          \/ e \in DOMAIN g.edges /\ h.edges[e] = g.edges[e]
          \/ EdgeOK(h, h.edges[e]) /\ (h.edges[e].kind = "affects" => h.edges[e].src \notin DOMAIN g.nodes)
    BY <1>5, <1>12, <1>15
  <2>3. \A v \in Vulns(h) \ DOMAIN g.nodes : \E e \in Affects(h) : Affecting(h, v) = {e}
    BY <1>4, <1>8, <1>18
  <2>4. Srcs(h, "exposes", ep) # {}
    <3>1. PICK e \in DOMAIN h.edges : h.edges[e] = Edge("exposes", host, ep) BY <1>11, <1>12
    <3> QED BY <3>1, EdgeFields DEF Srcs
  <2>5. \A t \in by_kind(h, "endpoint") \ DOMAIN g.nodes : Srcs(h, "exposes", t) # {} BY <1>4, <1>8, <2>4
  <2>6. \A e \in DOMAIN g.edges : g.edges[e].kind \in {"affects", "exposes"} =>
          e \in DOMAIN h.edges /\ h.edges[e] = g.edges[e]
    BY <1>12
  <2> QED BY <1>5, <1>6, <2>1, <2>2, <2>3, <2>5, <2>6 DEF Grows
<1>20. /\ Framed(h) /\ Affects(g) \subseteq Affects(h)
       /\ \A v \in Vulns(g) : /\ v \in Vulns(h) /\ Affecting(h, v) = Affecting(g, v)
                              /\ Target(h, v) = Target(g, v) /\ HostOf(h, v) = HostOf(g, v)
  BY <1>1, <1>19, GrownIs
<1>21. ASSUME NEW k, k # "backed_by" PROVE Links(h, k) = Links(g, k) \cup {l \in L : l.kind = k}
  <2>1. \A l \in Links(h, k) : l \in Links(g, k) \/ (l \in L /\ l.kind = k) BY <1>12 DEF Links
  <2>2. \A l \in Links(g, k) : l \in Links(h, k) BY <1>12, <1>21 DEF Links
  <2>3. \A l \in L : l.kind = k => l \in Links(h, k) BY <1>12 DEF Links
  <2> QED BY <2>1, <2>2, <2>3
<1>22. /\ Links(h, "contains") = Links(g, "contains")
       /\ Links(h, "enables") = Links(g, "enables") \cup {Edge("enables", old, new)}
       /\ Links(h, "requires_credential") = Links(g, "requires_credential") \cup {Edge("requires_credential", ep, cred)}
       /\ Links(h, "exposes") = Links(g, "exposes") \cup {Edge("exposes", host, ep)}
  <2>1. \A l \in L : l.kind # "contains" BY <1>11, EdgeFields
  <2>2. \A l \in L : l.kind = "enables" => l = Edge("enables", old, new) BY <1>11, EdgeFields
  <2>3. \A l \in L : l.kind = "requires_credential" => l = Edge("requires_credential", ep, cred) BY <1>11, EdgeFields
  <2>4. \A l \in L : l.kind = "exposes" => l = Edge("exposes", host, ep) BY <1>11, EdgeFields
  <2>5. PICK x, y, z : /\ x = Edge("enables", old, new) /\ y = Edge("requires_credential", ep, cred)
                       /\ z = Edge("exposes", host, ep)
    OBVIOUS
  <2>6. /\ x \in L /\ x.kind = "enables" /\ y \in L /\ y.kind = "requires_credential"
        /\ z \in L /\ z.kind = "exposes"
    BY <1>11, <2>5, EdgeFields
  <2>7. Links(h, "contains") = Links(g, "contains") BY <1>21, <2>1
  <2>8. Links(h, "enables") = Links(g, "enables") \cup {x} BY <1>21, <2>2, <2>5, <2>6
  <2>9. Links(h, "requires_credential") = Links(g, "requires_credential") \cup {y} BY <1>21, <2>3, <2>5, <2>6
  <2>10. Links(h, "exposes") = Links(g, "exposes") \cup {z} BY <1>21, <2>4, <2>5, <2>6
  <2> QED BY <2>5, <2>7, <2>8, <2>9, <2>10
<1>23. Links(h, "backed_by") = {Edge("backed_by", host, d)}
  <2>1. \A l \in Links(h, "backed_by") : l \in L /\ l.kind = "backed_by" BY <1>12 DEF Links
  <2>2. \A l \in L : l.kind = "backed_by" => l = Edge("backed_by", host, d) BY <1>11, EdgeFields
  <2>3. Edge("backed_by", host, d) \in L /\ Edge("backed_by", host, d).kind = "backed_by" BY <1>11, EdgeFields
  <2>4. Edge("backed_by", host, d) \in Links(h, "backed_by") BY <1>12, <2>3 DEF Links
  <2> QED BY <2>1, <2>2, <2>4
<1>24. Structured(h)
  <2>1. record_id \in DOMAIN h.nodes /\ flag_id \in DOMAIN h.nodes BY <1>5 DEF Structured, Homed
  <2>2. host \in DOMAIN h.nodes /\ d \in DOMAIN h.nodes BY <1>5, <1>13
  <2> QED BY <1>9, <1>20, <1>22, <1>23, <2>1, <2>2 DEF Structured, Homed
<1>25. FlagServices(h) = {host}
  <2>1. PICK s1, d1 \in DOMAIN h.nodes : Links(h, "backed_by") = {Edge("backed_by", s1, d1)} /\ FlagServices(h) = {s1}
    BY <1>24, HomeIs
  <2>2. Edge("backed_by", s1, d1) = Edge("backed_by", host, d) BY <1>23, <2>1
  <2>3. s1 = host BY <2>2, EdgeFields
  <2> QED BY <2>1, <2>3
<1>26. Target(h, new) = ep /\ HostOf(h, new) = host
  <2>1. new \in Vulns(h) BY <1>8
  <2>2. PICK e \in Affects(h) : Affecting(h, new) = {e} /\ h.edges[e].dst = Target(h, new) BY <1>20, <2>1, TargetIs
  <2>4. e = a BY <1>18, <2>2
  <2>5. h.edges[a].dst = ep BY <1>16, EdgeFields
  <2>3. Target(h, new) = ep BY <2>2, <2>4, <2>5
  <2> QED BY <1>5, <1>20, <2>1, <2>3, HostIs
<1>27. Public(h) = Public(g) /\ Internals(h) = Internals(g)
  <2>1. cred \notin ServiceIds /\ ep \notin ServiceIds /\ new \notin ServiceIds /\ old \notin ServiceIds
    BY <1>3, <1>4, <1>5 DEF VulnIds, CredIds, EndpointIds, ServiceIds
  <2>2. DOMAIN h.nodes \cap ServiceIds = DOMAIN g.nodes \cap ServiceIds BY <1>5, <2>1
  <2>3. \A s1 \in DOMAIN g.nodes \cap ServiceIds : h.nodes[s1] = g.nodes[s1] BY <1>5, <2>1
  <2> QED BY <1>2, <1>6, <2>2, <2>3, SameServices
<1>28. PublicEndpoints(g) \subseteq PublicEndpoints(h)
  <2>1. \A s1 : Dsts(g, "exposes", s1) \subseteq Dsts(h, "exposes", s1) BY <1>12 DEF Dsts
  <2> QED BY <1>27, <2>1 DEF PublicEndpoints
<1>29. ASSUME NEW e \in Affecting(h, new), NEW x \in Affects(h), h.edges[x].dst = h.edges[e].dst PROVE x = e
  <2>1. e = a /\ h.edges[x].dst = ep BY <1>16, <1>18, <1>29, EdgeFields
  <2>2. h.edges[x] \in L
    <3>1. x \in DOMAIN h.edges BY DEF Affects
    <3> QED BY <1>5, <1>12, <1>17, <2>1, <3>1
  <2>3. h.edges[x] = Edge("affects", new, ep) BY <1>11, <2>2, EdgeFields DEF Affects
  <2> QED BY <1>16, <2>1, <2>3 DEF Affects
<1>30. \A e \in Affects(g) \cap Affects(h) : h.edges[e] = g.edges[e] BY <1>12 DEF Affects
<1>31. \A v \in Vulns(g) \ {old} : h.nodes[v] = g.nodes[v] BY <1>4, <1>5
<1>32. \A t \in by_kind(g, "endpoint") : h.nodes[t] = g.nodes[t]
  <2>1. old \notin EndpointIds BY <1>3, <1>4 DEF VulnIds, EndpointIds
  <2> QED BY <1>4, <1>5, <2>1
<1>33. new \notin Vulns(g) /\ cred \notin by_kind(g, "credential") /\ ep \notin by_kind(g, "endpoint")
  BY <1>4, <1>5
<1>34. \A v \in Vulns(g) : /\ Affecting(h, v) = Affecting(g, v)
                           /\ Target(h, v) = Target(g, v) /\ HostOf(h, v) = HostOf(g, v)
  BY <1>20
<1>35. by_kind(g, "endpoint") \subseteq by_kind(h, "endpoint") BY <1>8
<1> QED BY <1>3, <1>8, <1>22, <1>24, <1>25, <1>26, <1>27, <1>28, <1>29, <1>30, <1>31, <1>32, <1>33, <1>34, <1>35
        DEF HopRead


LEMMA AppendedFooted ==
    ASSUME NEW g, Structured(g), Footed(g), NEW h, NEW old, NEW host, NEW cred, NEW ep, NEW new,
           HopRead(g, h, old, host, cred, ep, new),
           g.nodes[old].flaw \in GateFlaws, h.nodes[old].flaw \in GateFlaws, h.nodes[new].flaw \in GateFlaws
    PROVE  Footed(h) /\ h.nodes[Pivot] = g.nodes[Pivot] /\ Pivot # old /\ Pivot # new /\ Pivot \in Vulns(g)
<1>1. Pivot \in Vulns(g) /\ g.nodes[Pivot].flaw = "ssrf" BY DEF Footed, OfKind
<1>2. Pivot # old /\ Pivot # new BY <1>1 DEF GateFlaws, HopRead
<1>3. \A v \in Vulns(g) \ {old} : h.nodes[v] = g.nodes[v] BY DEF HopRead
<1>4. h.nodes[Pivot] = g.nodes[Pivot] BY <1>1, <1>2, <1>3
<1>5. Vulns(h) = Vulns(g) \cup {new} BY DEF HopRead
<1>6. OfKind(h, "ssrf") = OfKind(g, "ssrf") BY <1>3, <1>5 DEF OfKind, GateFlaws
<1>7. Target(h, Pivot) = Target(g, Pivot) /\ Target(g, Pivot) \in by_kind(g, "endpoint")
  <2>1. Target(g, Pivot) \in by_kind(g, "endpoint") BY <1>1, TargetIs DEF Structured
  <2> QED BY <1>1, <2>1 DEF HopRead
<1>8. h.nodes[Target(g, Pivot)] = g.nodes[Target(g, Pivot)] BY <1>7 DEF HopRead
<1>9. Footed(h) BY <1>6, <1>7, <1>8 DEF Footed, HopRead
<1> QED BY <1>1, <1>2, <1>4, <1>9

LEMMA AppendedChain ==
    ASSUME NEW g, Structured(g), Footed(g), NEW c \in Seq(Vulns(g)), Chain(g, c), NEW h,
           NEW old, NEW host, NEW cred, NEW ep, NEW new, NEW token,
           Appended(g, h, c, old, host, cred, ep, new, token), HopRead(g, h, old, host, cred, ep, new)
    PROVE  Append(c, new) \in Seq(Vulns(h)) /\ Chain(h, Append(c, new))
<1>1. ChainNodes(g, c) /\ ChainHosts(g, c) /\ ChainNames(g, c) /\ ChainCreds(g, c) /\ ChainLinks(g, c) /\ VaultsAside(g)
  BY DEF Chain
<1>2. PICK n : n = Len(c) OBVIOUS
<1>3. PICK k : k = Append(c, new) OBVIOUS
<1>4. n \in Nat /\ n >= 2 /\ \A i \in 1 .. n : c[i] \in Vulns(g) BY <1>1, <1>2 DEF ChainNodes
<1>5. Vulns(h) = Vulns(g) \cup {new} /\ new \notin Vulns(g) /\ \A v \in Vulns(g) \ {old} : h.nodes[v] = g.nodes[v]
  BY DEF HopRead
<1>6. k \in Seq(Vulns(h)) /\ Len(k) = n + 1 /\ k[n + 1] = new /\ \A i \in 1 .. n : k[i] = c[i]
  BY <1>2, <1>3, <1>4, <1>5
<1>7. old = c[n] /\ old \in Vulns(g) /\ g.nodes[old].flaw = "credential_gated_flag" BY <1>1, <1>2, <1>4 DEF Appended, ChainNodes
<1>8. \A i, j \in 1 .. n : c[i] = c[j] => i = j BY <1>1, <1>2 DEF ChainHosts
<1>9. \A i \in 1 .. n - 1 : c[i] # old /\ h.nodes[c[i]] = g.nodes[c[i]]
  <2>1. ASSUME NEW i \in 1 .. n - 1 PROVE c[i] # old
    <3>1. i \in 1 .. n /\ n \in 1 .. n /\ i # n BY <1>4
    <3> QED BY <1>7, <1>8, <3>1
  <2>2. \A i \in 1 .. n - 1 : c[i] \in Vulns(g) BY <1>4
  <2> QED BY <1>5, <2>1, <2>2
<1>10. /\ h.nodes[new].flaw = "credential_gated_flag" /\ h.nodes[new].params.credential = token
       /\ h.nodes[old].flaw = "credential_gated_relay" /\ h.nodes[old].params.next_credential = token
       /\ h.nodes[old].params.credential = g.nodes[old].params.credential /\ h.nodes[old].params.host = host
       /\ h.nodes[ep] = Endpoint("vault") /\ host \in Internals(g)
  BY DEF Appended
<1>11. \A i \in 1 .. n : HostOf(g, c[i]) # host BY <1>2 DEF Appended
<1>12. \A v \in Vulns(g) : Target(h, v) = Target(g, v) /\ HostOf(h, v) = HostOf(g, v) BY DEF HopRead
<1>13. Target(h, new) = ep /\ HostOf(h, new) = host BY DEF HopRead
<1>14. \A i \in 1 .. n : Target(h, k[i]) = Target(g, c[i]) /\ HostOf(h, k[i]) = HostOf(g, c[i]) BY <1>4, <1>6, <1>12
<1>15. \A v \in Vulns(g) : h.nodes[v].flaw \in ChainFlaws <=> g.nodes[v].flaw \in ChainFlaws
  BY <1>5, <1>7, <1>10 DEF ChainFlaws, GateFlaws
<1>16. \A v \in Vulns(g) : h.nodes[v].flaw \in GateFlaws <=> g.nodes[v].flaw \in GateFlaws
  BY <1>5, <1>7, <1>10 DEF GateFlaws
<1>17. ChainNodes(h, k)
  <2>1. h.nodes[k[1]].flaw = "credential_leak"
    <3>1. k[1] = c[1] /\ h.nodes[c[1]] = g.nodes[c[1]] BY <1>4, <1>6, <1>9
    <3> QED BY <1>1, <3>1 DEF ChainNodes
  <2>2. ASSUME NEW i \in 2 .. n PROVE h.nodes[k[i]].flaw = "credential_gated_relay"
    <3>1. CASE i = n BY <1>4, <1>6, <1>7, <1>10, <3>1
    <3>2. CASE i # n
      <4>1. i \in 2 .. n - 1 /\ i \in 1 .. n - 1 /\ i \in 1 .. n BY <1>4, <3>2
      <4>2. k[i] = c[i] /\ h.nodes[c[i]] = g.nodes[c[i]] BY <1>6, <1>9, <4>1
      <4> QED BY <1>1, <1>2, <4>1, <4>2 DEF ChainNodes
    <3> QED BY <3>1, <3>2
  <2>3. ASSUME NEW v \in Vulns(h), h.nodes[v].flaw \in ChainFlaws PROVE \E i \in 1 .. n + 1 : v = k[i]
    <3>1. CASE v = new BY <1>4, <1>6, <3>1
    <3>2. CASE v \in Vulns(g)
      <4>1. PICK i \in 1 .. n : v = c[i] BY <1>1, <1>2, <1>15, <2>3, <3>2 DEF ChainNodes
      <4>2. i \in 1 .. n + 1 /\ v = k[i] BY <1>4, <1>6, <4>1
      <4> QED BY <4>2
    <3> QED BY <1>5, <3>1, <3>2
  <2>4. h.nodes[k[Len(k)]].flaw = "credential_gated_flag" BY <1>6, <1>10
  <2>5. \A i \in 2 .. Len(k) - 1 : h.nodes[k[i]].flaw = "credential_gated_relay"
    <3>1. Len(k) - 1 = n BY <1>4, <1>6
    <3> QED BY <2>2, <3>1
  <2>6. Len(k) >= 2 BY <1>4, <1>6
  <2> QED BY <1>6, <2>1, <2>3, <2>4, <2>5, <2>6 DEF ChainNodes
<1>18. ChainHosts(h, k)
  <2>1. ASSUME NEW i \in 1 .. n + 1, NEW j \in 1 .. n + 1, HostOf(h, k[i]) = HostOf(h, k[j]) PROVE i = j
    <3>1. \A x \in 1 .. n + 1 : x \in 1 .. n \/ x = n + 1 BY <1>4
    <3>2. HostOf(h, k[n + 1]) = host BY <1>6, <1>13
    <3>3. CASE i \in 1 .. n /\ j \in 1 .. n BY <1>1, <1>2, <1>14, <2>1, <3>3 DEF ChainHosts
    <3>4. CASE i = n + 1 /\ j \in 1 .. n BY <1>11, <1>14, <2>1, <3>2, <3>4
    <3>5. CASE i \in 1 .. n /\ j = n + 1 BY <1>11, <1>14, <2>1, <3>2, <3>5
    <3> QED BY <3>1, <3>3, <3>4, <3>5
  <2>2. ASSUME NEW i \in 1 .. n + 1 PROVE HostOf(h, k[i]) \in Internals(h)
    <3>1. Internals(h) = Internals(g) BY DEF HopRead
    <3>2. CASE i \in 1 .. n BY <1>1, <1>2, <1>14, <3>1, <3>2 DEF ChainHosts
    <3>3. CASE i = n + 1 BY <1>6, <1>10, <1>13, <3>1, <3>3
    <3> QED BY <1>4, <3>2, <3>3
  <2>3. h.nodes[Pivot].params.hosts = Internals(h)
    <3>1. h.nodes[Pivot] = g.nodes[Pivot] BY <1>7, <1>10, AppendedFooted DEF GateFlaws
    <3> QED BY <1>1, <3>1 DEF ChainHosts, HopRead
  <2>4. FlagServices(h) = {HostOf(h, k[Len(k)])} BY <1>6, <1>13 DEF HopRead
  <2> QED BY <1>6, <2>1, <2>2, <2>3, <2>4 DEF ChainHosts
<1>19. ChainNames(h, k)
  <2>1. ASSUME NEW i \in 1 .. n
        PROVE  h.nodes[k[i]].params.host = HostOf(h, k[i + 1]) /\ Emitted(h, k[i]) = h.nodes[k[i + 1]].params.credential
    <3>1. CASE i = n
      <4>1. k[i] = old /\ k[i + 1] = new BY <1>4, <1>6, <1>7, <3>1
      <4>2. Emitted(h, old) = token BY <1>10 DEF Emitted
      <4> QED BY <1>10, <1>13, <4>1, <4>2
    <3>2. CASE i # n
      <4>1. i \in 1 .. n - 1 /\ i + 1 \in 1 .. n BY <1>4, <3>2
      <4>2. k[i] = c[i] /\ k[i + 1] = c[i + 1] BY <1>6, <4>1
      <4>3. h.nodes[c[i]] = g.nodes[c[i]] BY <1>9, <4>1
      <4>4. h.nodes[c[i + 1]].params.credential = g.nodes[c[i + 1]].params.credential
        <5>1. c[i + 1] \in Vulns(g) BY <1>4, <4>1
        <5> QED BY <1>5, <1>10, <5>1
      <4>5. Emitted(h, c[i]) = Emitted(g, c[i]) BY <4>3 DEF Emitted
      <4>6. HostOf(h, k[i + 1]) = HostOf(g, c[i + 1]) BY <1>14, <4>1
      <4>7. g.nodes[c[i]].params.host = HostOf(g, c[i + 1]) /\ Emitted(g, c[i]) = g.nodes[c[i + 1]].params.credential
        BY <1>1, <1>2, <4>1 DEF ChainNames
      <4> QED BY <4>2, <4>3, <4>4, <4>5, <4>6, <4>7
    <3> QED BY <3>1, <3>2
  <2>2. Len(k) - 1 = n BY <1>4, <1>6
  <2> QED BY <2>1, <2>2 DEF ChainNames
<1>20. PICK x : x = Edge("requires_credential", ep, cred) OBVIOUS
<1>21. x.src = ep /\ x.dst = cred BY <1>20, EdgeFields
<1>22. Links(h, "requires_credential") = Links(g, "requires_credential") \cup {x} BY <1>20 DEF HopRead
<1>23. \A l \in Links(g, "requires_credential") : l.src \in by_kind(g, "endpoint") /\ l.dst \in by_kind(g, "credential")
  BY DEF Structured, Framed, EdgeOK, SrcKind, DstKind, Links, by_kind
<1>24. ep \notin by_kind(g, "endpoint") /\ cred \notin by_kind(g, "credential")
       /\ by_kind(h, "credential") = by_kind(g, "credential") \cup {cred}
  BY DEF HopRead
<1>25. \A i \in 1 .. n : Target(g, c[i]) \in by_kind(g, "endpoint") BY <1>4, TargetIs DEF Structured
<1>26. \A t \in by_kind(g, "endpoint") : h.nodes[t] = g.nodes[t] BY DEF HopRead
<1>27. ChainCreds(h, k)
  <2>1. ASSUME NEW i \in 2 .. n + 1
        PROVE  /\ h.nodes[Target(h, k[i])].path = "vault"
               /\ \E y \in by_kind(h, "credential") : Dsts(h, "requires_credential", Target(h, k[i])) = {y}
    <3>1. CASE i = n + 1
      <4>1. Target(h, k[i]) = ep BY <1>6, <1>13, <3>1
      <4>2. Dsts(h, "requires_credential", ep) = {cred}
        <5>1. Dsts(h, "requires_credential", ep) = {l.dst : l \in {l \in Links(h, "requires_credential") : l.src = ep}}
          BY EndsOfLinks
        <5>2. {l \in Links(h, "requires_credential") : l.src = ep} = {x} BY <1>21, <1>22, <1>23, <1>24
        <5> QED BY <1>21, <5>1, <5>2
      <4> QED BY <1>10, <1>24, <4>1, <4>2, NodeFields
    <3>2. CASE i # n + 1
      <4>1. i \in 2 .. n /\ i \in 1 .. n BY <1>4, <3>2
      <4>2. PICK t : t = Target(g, c[i]) OBVIOUS
      <4>3. Target(h, k[i]) = t /\ t \in by_kind(g, "endpoint") /\ h.nodes[t] = g.nodes[t] BY <1>14, <1>25, <1>26, <4>1, <4>2
      <4>4. Dsts(h, "requires_credential", t) = Dsts(g, "requires_credential", t)
        <5>1. /\ Dsts(h, "requires_credential", t) = {l.dst : l \in {l \in Links(h, "requires_credential") : l.src = t}}
              /\ Dsts(g, "requires_credential", t) = {l.dst : l \in {l \in Links(g, "requires_credential") : l.src = t}}
          BY EndsOfLinks
        <5>2. {l \in Links(h, "requires_credential") : l.src = t} = {l \in Links(g, "requires_credential") : l.src = t}
          BY <1>21, <1>22, <1>24, <4>3
        <5> QED BY <5>1, <5>2
      <4>5. g.nodes[t].path = "vault" /\ \E y \in by_kind(g, "credential") : Dsts(g, "requires_credential", t) = {y}
        BY <1>1, <1>2, <4>1, <4>2 DEF ChainCreds
      <4> QED BY <1>24, <4>3, <4>4, <4>5
    <3> QED BY <3>1, <3>2
  <2>2. Cardinality(by_kind(h, "credential")) = n
    <3>1. IsFiniteSet(by_kind(g, "credential"))
      <4>1. by_kind(g, "credential") \in SUBSET DOMAIN g.nodes BY DEF by_kind
      <4>2. IsFiniteSet(DOMAIN g.nodes) BY DEF Structured, Framed
      <4> QED BY <4>1, <4>2, FS_Subset
    <3>2. Cardinality(by_kind(g, "credential")) = n - 1 BY <1>1, <1>2 DEF ChainCreds
    <3>3. Cardinality(by_kind(g, "credential") \cup {cred}) = Cardinality(by_kind(g, "credential")) + 1
      BY <1>24, <3>1, FS_AddElement
    <3>4. by_kind(h, "credential") = by_kind(g, "credential") \cup {cred} BY <1>24
    <3>5. PICK S : S = by_kind(g, "credential") \cup {cred} OBVIOUS
    <3>6. Cardinality(S) = (n - 1) + 1 BY <3>2, <3>3, <3>5
    <3>7. (n - 1) + 1 = n BY <1>4
    <3>8. by_kind(h, "credential") = S BY <3>4, <3>5
    <3> QED BY <3>6, <3>7, <3>8
  <2>3. ASSUME NEW e \in Links(h, "requires_credential"), NEW f \in Links(h, "requires_credential"), e.dst = f.dst
        PROVE  e.src = f.src
    <3>1. CASE e = x /\ f = x BY <3>1
    <3>2. CASE e = x /\ f \in Links(g, "requires_credential") BY <1>21, <1>23, <1>24, <2>3, <3>2
    <3>3. CASE f = x /\ e \in Links(g, "requires_credential") BY <1>21, <1>23, <1>24, <2>3, <3>3
    <3>4. CASE e \in Links(g, "requires_credential") /\ f \in Links(g, "requires_credential")
      BY <1>1, <2>3, <3>4 DEF ChainCreds
    <3> QED BY <1>22, <3>1, <3>2, <3>3, <3>4
  <2>4. Len(k) - 1 = n BY <1>4, <1>6
  <2> QED BY <1>6, <2>1, <2>2, <2>3, <2>4 DEF ChainCreds
<1>28. PICK y : y = Edge("enables", old, new) OBVIOUS
<1>29. y.src = old /\ y.dst = new BY <1>28, EdgeFields
<1>30. Links(h, "enables") = Links(g, "enables") \cup {y} BY <1>28 DEF HopRead
<1>31. \A l \in Links(g, "enables") : l.src \in Vulns(g) /\ l.dst \in Vulns(g) BY EnablesEnds DEF Structured
<1>32. ChainLinks(h, k)
  <2>1. ASSUME NEW e \in Links(h, "enables"), h.nodes[e.dst].flaw \in GateFlaws
        PROVE  \E i \in 1 .. n : e.src = k[i] /\ e.dst = k[i + 1]
    <3>1. CASE e = y
      <4>1. n \in 1 .. n /\ e.src = k[n] /\ e.dst = k[n + 1] BY <1>4, <1>6, <1>7, <1>29, <3>1
      <4> QED BY <4>1
    <3>2. CASE e \in Links(g, "enables")
      <4>1. g.nodes[e.dst].flaw \in GateFlaws BY <1>16, <1>31, <2>1, <3>2
      <4>2. PICK i \in 1 .. n - 1 : e.src = c[i] /\ e.dst = c[i + 1] BY <1>1, <1>2, <3>2, <4>1 DEF ChainLinks
      <4>3. i \in 1 .. n /\ i + 1 \in 1 .. n BY <1>4
      <4>4. e.src = k[i] /\ e.dst = k[i + 1] BY <1>6, <4>2, <4>3
      <4> QED BY <4>3, <4>4
    <3> QED BY <1>30, <3>1, <3>2
  <2>2. ASSUME NEW i \in 1 .. n PROVE Edge("enables", k[i], k[i + 1]) \in Links(h, "enables")
    <3>1. CASE i = n BY <1>4, <1>6, <1>7, <1>28, <1>30, <3>1
    <3>2. CASE i # n
      <4>1. i \in 1 .. n - 1 /\ i + 1 \in 1 .. n BY <1>4, <3>2
      <4>2. k[i] = c[i] /\ k[i + 1] = c[i + 1] BY <1>6, <4>1
      <4>3. Edge("enables", c[i], c[i + 1]) \in Links(g, "enables") BY <1>1, <1>2, <4>1 DEF ChainLinks
      <4> QED BY <1>30, <4>2, <4>3
    <3> QED BY <3>1, <3>2
  <2>3. Len(k) - 1 = n BY <1>4, <1>6
  <2> QED BY <2>1, <2>2, <2>3 DEF ChainLinks
<1>33. VaultsAside(h)
  <2>1. ASSUME NEW e \in Links(h, "enables"), NEW v \in Vulns(h), v \in {e.src, e.dst},
               h.nodes[Target(h, v)].path = "vault"
        PROVE  h.nodes[v].flaw \in GateFlaws
    <3>1. CASE e = y BY <1>10, <1>29, <2>1, <3>1 DEF GateFlaws
    <3>2. CASE e \in Links(g, "enables")
      <4>1. v \in Vulns(g) BY <1>31, <2>1, <3>2
      <4>2. Target(h, v) = Target(g, v) /\ Target(g, v) \in by_kind(g, "endpoint") BY <1>12, <4>1, TargetIs DEF Structured
      <4>3. g.nodes[Target(g, v)].path = "vault" BY <1>26, <2>1, <4>2
      <4>4. g.nodes[v].flaw \in GateFlaws BY <1>1, <2>1, <3>2, <4>1, <4>3 DEF VaultsAside
      <4> QED BY <1>16, <4>1, <4>4
    <3> QED BY <1>30, <3>1, <3>2
  <2> QED BY <2>1 DEF VaultsAside
<1>34. Chain(h, k) BY <1>17, <1>18, <1>19, <1>27, <1>32, <1>33 DEF Chain
<1> QED BY <1>3, <1>6, <1>34

LEMMA AppendedHops ==
    ASSUME NEW g, Structured(g), Footed(g), NEW c \in Seq(Vulns(g)), Chain(g, c), NEW h,
           NEW old, NEW host, NEW cred, NEW ep, NEW new, NEW token,
           Appended(g, h, c, old, host, cred, ep, new, token), HopRead(g, h, old, host, cred, ep, new)
    PROVE  \E k : Rechained(g, h, c, k)
<1>1. PICK k : k = Append(c, new) OBVIOUS
<1>2. PICK n : n = Len(c) OBVIOUS
<1>3. k \in Seq(Vulns(h)) /\ Chain(h, k) BY <1>1, AppendedChain
<1>4. n \in Nat /\ Len(k) = n + 1 /\ \A i \in 1 .. n : k[i] = c[i] /\ c[i] \in Vulns(g) BY <1>1, <1>2
<1>5. \A v \in Vulns(g) : HopAt(h, v) = HopAt(g, v)
  <2>1. \A v \in Vulns(g) : HostOf(h, v) = HostOf(g, v) BY DEF HopRead
  <2>2. \A v \in Vulns(g) \ {old} : h.nodes[v] = g.nodes[v] BY DEF HopRead
  <2>3. h.nodes[old].params.credential = g.nodes[old].params.credential BY DEF Appended
  <2> QED BY <2>1, <2>2, <2>3 DEF HopAt
<1>6. \A i \in 2 .. n : HopAt(h, k[i]) = HopAt(g, c[i])
  <2>1. TAKE i \in 2 .. n
  <2>2. i \in 1 .. n BY <1>4
  <2> QED BY <1>4, <1>5, <2>2
<1> QED BY <1>2, <1>3, <1>4, <1>6 DEF Rechained

LEMMA AppendIs ==
    ASSUME NEW g, NEW company, World(g, company),
           NEW m \in _harden_append_hop_mutation(g), ~Collides(g, m.patch), NEW h, h = apply_patch(g, m.patch)
    PROVE  Steps(g, h, company)
<1>1. OfKind(g, "credential_gated_flag") # {} BY DEF _harden_append_hop_mutation
<1>2. ~FlatGates(g) /\ ~Pivoted(g) BY <1>1 DEF OfKind, FlatGates, Pivoted, ChainFlaws, GateFlaws
<1>3. company /\ Footed(g) /\ Structured(g) BY <1>2 DEF World, Company
<1>4. PICK c \in Seq(Vulns(g)) : Chain(g, c) BY <1>2, <1>3 DEF World, Company
<1>5. PICK old, host, cred, ep, new, token : Appended(g, h, c, old, host, cred, ep, new, token)
  BY <1>3, <1>4, AppendedIs
<1>6. HopRead(g, h, old, host, cred, ep, new) BY <1>3, <1>4, <1>5, HopReadIs
<1>7. old \in Vulns(g) /\ g.nodes[old].flaw = "credential_gated_flag"
  <2>1. ChainNodes(g, c) BY <1>4 DEF Chain
  <2>2. old = c[Len(c)] BY <1>5 DEF Appended
  <2> QED BY <2>1, <2>2, TerminalIs DEF ChainNodes
<1>8. h.nodes[new].flaw = "credential_gated_flag" /\ h.nodes[old].flaw = "credential_gated_relay" BY <1>5 DEF Appended
<1>9. Footed(h) /\ Pivot # new /\ Pivot \in Vulns(g) BY <1>3, <1>6, <1>7, <1>8, AppendedFooted DEF GateFlaws
<1>10. Company(h)
  <2>1. Append(c, new) \in Seq(Vulns(h)) /\ Chain(h, Append(c, new)) BY <1>3, <1>4, <1>5, <1>6, AppendedChain
  <2> QED BY <1>9, <2>1 DEF Company
<1>11. Affecting(h, Pivot) = Affecting(g, Pivot) BY <1>6, <1>9 DEF HopRead
<1>12. ASSUME NEW v \in Vulns(h), h.nodes[v].flaw \in PathFlaws
       PROVE  \/ /\ v \in Vulns(g) /\ g.nodes[v].flaw \in PathFlaws /\ Affecting(h, v) = Affecting(g, v)
                 /\ \A e \in Affects(g) \cap Affects(h) : h.edges[e] = g.edges[e]
              \/ \A e \in Affecting(h, v), d \in Affects(h) : h.edges[d].dst = h.edges[e].dst => d = e
  <2>1. CASE v = new BY <1>6, <2>1 DEF HopRead
  <2>2. CASE v \in Vulns(g)
    <3>1. g.nodes[v].flaw \in PathFlaws
      <4>1. CASE v = old BY <1>7, <4>1 DEF PathFlaws, ChainFlaws, GateFlaws
      <4>2. CASE v # old BY <1>6, <1>12, <2>2, <4>2 DEF HopRead
      <4> QED BY <4>1, <4>2
    <3> QED BY <1>6, <2>2, <3>1 DEF HopRead
  <2> QED BY <1>6, <2>1, <2>2 DEF HopRead
<1>13. ASSUME NEW before, Served(g, before) PROVE Served(h, Reordered(before, g, h))
  BY <1>11, <1>12, <1>13, ServedKept
<1>14. Structured(h) BY <1>6 DEF HopRead
<1>15. ASSUME NEW d \in Seq(Vulns(g)), Chain(g, d) PROVE \E k : Rechained(g, h, d, k)
  <2>1. PICK v, s, x, t, w, y : Appended(g, h, d, v, s, x, t, w, y) BY <1>3, <1>15, AppendedIs
  <2>2. HopRead(g, h, v, s, x, t, w) BY <1>3, <1>15, <2>1, HopReadIs
  <2> QED BY <1>3, <1>15, <2>1, <2>2, AppendedHops
<1>16. Onward(g, h)
  <2>1. OfKind(h, "config_disclosure") = OfKind(g, "config_disclosure") BY <1>6, <1>7, <1>8 DEF HopRead, OfKind
  <2> QED BY <1>6, <1>15, <2>1 DEF HopRead, Onward
<1> QED BY <1>3, <1>10, <1>13, <1>14, <1>16 DEF Steps


(* A world with one hop less: the last gate, its endpoint and the credential it asks for  *)
(* are gone, and the relay before it serves the flag, on the host the store moved to.      *)
Collapsed(g, h, c, old, relay, t, x) ==
    /\ DOMAIN h = {"nodes", "edges"} /\ Len(c) >= 3 /\ old = c[Len(c)] /\ relay = c[Len(c) - 1]
    /\ t = Target(g, old) /\ Dsts(g, "requires_credential", t) = {x} /\ x \in by_kind(g, "credential")
    /\ DOMAIN h.nodes = DOMAIN g.nodes \ {old, t, x}
    /\ \A n \in DOMAIN h.nodes \ {relay} : h.nodes[n] = g.nodes[n]
    /\ h.nodes[relay] \in VulnNodes /\ h.nodes[relay].flaw = "credential_gated_flag"
    /\ h.nodes[relay].params.credential = g.nodes[relay].params.credential
    /\ \A e \in DOMAIN h.edges :
         \/ /\ e \in DOMAIN g.edges /\ h.edges[e] = g.edges[e] /\ g.edges[e].kind # "backed_by"
            /\ g.edges[e].src \in DOMAIN h.nodes /\ g.edges[e].dst \in DOMAIN h.nodes
         \/ h.edges[e] = Edge("backed_by", HostOf(g, relay), _flag_store(g))
    /\ \A e \in DOMAIN g.edges :
         g.edges[e].kind # "backed_by" /\ g.edges[e].src \in DOMAIN h.nodes /\ g.edges[e].dst \in DOMAIN h.nodes
         => e \in DOMAIN h.edges /\ h.edges[e] = g.edges[e]
    /\ \E e \in DOMAIN h.edges : h.edges[e] = Edge("backed_by", HostOf(g, relay), _flag_store(g))

LEMMA LastRelayIs ==
    ASSUME NEW g, NEW c \in Seq(Vulns(g)), Chain(g, c), NEW v \in LastRelay(g)
    PROVE  Len(c) >= 3 /\ v = c[Len(c) - 1] /\ v \in Vulns(g) /\ g.nodes[v].flaw = "credential_gated_relay"
<1>1. ChainNodes(g, c) /\ ChainHosts(g, c) /\ ChainLinks(g, c) BY DEF Chain
<1>2. PICK n : n = Len(c) OBVIOUS
<1>3. n \in Nat /\ n >= 2 BY <1>1, <1>2 DEF ChainNodes
<1>4. Terminal(g) = c[n] /\ g.nodes[c[n]].flaw \in GateFlaws BY <1>1, <1>2, TerminalIs DEF ChainNodes, GateFlaws
<1>5. v \in Vulns(g) /\ g.nodes[v].flaw = "credential_gated_relay" /\ c[n] \in Dsts(g, "enables", v)
  BY <1>4 DEF LastRelay, OfKind
<1>6. PICK e \in Links(g, "enables") : e.src = v /\ e.dst = c[n] BY <1>5 DEF Dsts, Links
<1>7. PICK i \in 1 .. n - 1 : v = c[i] /\ c[n] = c[i + 1] BY <1>1, <1>2, <1>4, <1>6 DEF ChainLinks
<1>8. i + 1 \in 1 .. n /\ n \in 1 .. n BY <1>3
<1>9. i + 1 = n BY <1>1, <1>2, <1>7, <1>8 DEF ChainHosts
<1>10. i # 1 BY <1>1, <1>5, <1>7 DEF ChainNodes
<1>11. i = n - 1 /\ n >= 3 BY <1>3, <1>9, <1>10
<1> QED BY <1>2, <1>5, <1>7, <1>11

LEMMA CollapsedIs ==
    ASSUME NEW g, Structured(g), NEW c \in Seq(Vulns(g)), Chain(g, c),
           NEW m \in _soften_remove_hop_mutation(g), ~Collides(g, m.patch), NEW h, h = apply_patch(g, m.patch)
    PROVE  \E old, relay, t, x : Collapsed(g, h, c, old, relay, t, x)
<1>1. LastRelay(g) # {} /\ m \in
        LET old == Terminal(g)
            relay == CHOOSE v \in LastRelay(g) : TRUE
            gone == {old, Target(g, old)} \cup Dsts(g, "requires_credential", Target(g, old))
            home == Rehomed(g, HostOf(g, relay))
        IN {Mutation("soften", "collapse",
               [EmptyPatch EXCEPT
                   !.nodes_updated = Single(relay, Promoted(g, relay)),
                   !.nodes_removed = gone,
                   !.edges_removed = EdgesAt(g, gone) \cup home.removed,
                   !.edges_added = EdgesOf(home.added)])}
  BY DEF _soften_remove_hop_mutation
<1>2. PICK old : old = Terminal(g) OBVIOUS
<1>3. PICK relay : relay = CHOOSE v \in LastRelay(g) : TRUE OBVIOUS
<1>4. PICK t : t = Target(g, old) OBVIOUS
<1>5. PICK gone : gone = {old, t} \cup Dsts(g, "requires_credential", t) OBVIOUS
<1>6. PICK home : home = Rehomed(g, HostOf(g, relay)) OBVIOUS
<1>7. PICK updated, joined : updated = Single(relay, Promoted(g, relay)) /\ joined = EdgesOf(home.added) OBVIOUS
<1>8. PICK p : p = m.patch OBVIOUS
<1>9. p = [EmptyPatch EXCEPT !.nodes_updated = updated, !.nodes_removed = gone,
                             !.edges_removed = EdgesAt(g, gone) \cup home.removed, !.edges_added = joined]
  BY <1>1, <1>2, <1>3, <1>4, <1>5, <1>6, <1>7, <1>8 DEF Mutation
<1>10. /\ p.nodes_removed = gone /\ p.edges_removed = EdgesAt(g, gone) \cup home.removed /\ p.edges_updated = <<>>
       /\ p.nodes_updated = updated /\ DOMAIN p.nodes_added = {} /\ p.edges_added = joined
  BY <1>9 DEF EmptyPatch
<1>11. Framed(g) /\ \A n \in DOMAIN g.nodes : NodeOK(n, g.nodes[n]) BY DEF Structured, Framed
<1>12. PICK n : n = Len(c) OBVIOUS
<1>13. /\ relay = c[n - 1] /\ n >= 3 /\ relay \in Vulns(g) /\ g.nodes[relay].flaw = "credential_gated_relay"
  <2>1. relay \in LastRelay(g) BY <1>1, <1>3
  <2> QED BY <1>12, <2>1, LastRelayIs
<1>14. ChainNodes(g, c) /\ ChainCreds(g, c) BY DEF Chain
<1>15. old = c[n] /\ old \in Vulns(g) /\ n \in Nat /\ g.nodes[old].flaw = "credential_gated_flag"
  <2>1. old = c[n] /\ old \in Vulns(g) /\ n \in Nat BY <1>2, <1>12, <1>14, TerminalIs
  <2> QED BY <1>12, <1>14, <2>1 DEF ChainNodes
<1>16. PICK x \in by_kind(g, "credential") : Dsts(g, "requires_credential", t) = {x}
  <2>1. n \in 2 .. n BY <1>13, <1>15
  <2> QED BY <1>4, <1>12, <1>14, <1>15, <2>1 DEF ChainCreds
<1>17. gone = {old, t, x} BY <1>5, <1>16
<1>18. /\ Vulns(g) = DOMAIN g.nodes \cap VulnIds /\ by_kind(g, "endpoint") = DOMAIN g.nodes \cap EndpointIds
       /\ by_kind(g, "credential") = DOMAIN g.nodes \cap CredIds
  BY <1>11, KindSets
<1>19. t \in EndpointIds /\ x \in CredIds /\ relay \in VulnIds /\ old \in VulnIds /\ relay \in DOMAIN g.nodes
  <2>1. t \in by_kind(g, "endpoint") BY <1>4, <1>11, <1>15, TargetIs
  <2> QED BY <1>13, <1>15, <1>16, <1>18, <2>1
<1>20. relay \notin gone BY <1>13, <1>15, <1>17, <1>19 DEF EndpointIds, CredIds, VulnIds
<1>21. g.nodes[relay] \in VulnNodes
  <2>1. NodeOK(relay, g.nodes[relay]) BY <1>11, <1>19
  <2> QED BY <1>19, <2>1 DEF NodeOK, EndpointIds, ServiceIds, StoreIds, CredIds, VulnIds, record_id, flag_id
<1>22. /\ Promoted(g, relay) \in VulnNodes /\ Promoted(g, relay).flaw = "credential_gated_flag"
       /\ Promoted(g, relay).params.credential = g.nodes[relay].params.credential
  <2>1. PICK given : given = [Params EXCEPT !.credential = g.nodes[relay].params.credential] OBVIOUS
  <2>2. given \in ParamSet /\ given.credential = g.nodes[relay].params.credential
    BY <1>21, <2>1, ParamsIs DEF VulnNodes, ParamSet
  <2>3. Promoted(g, relay) = Vuln("credential_gated_flag", given) BY <2>1 DEF Promoted
  <2>4. "credential_gated_flag" \in Flaws BY DEF Flaws, CATALOG
  <2> QED BY <2>2, <2>3, <2>4, VulnIs, NodeFields
<1>23. DOMAIN updated = {relay} /\ updated[relay] = Promoted(g, relay) BY <1>7, SingleIs
<1>24. PICK b : b = ChainEdge("backed_by", HostOf(g, relay), _flag_store(g)) OBVIOUS
<1>25. home.removed = StoreEdge(g) /\ home.added = {b} BY <1>6, <1>24 DEF Rehomed
<1>26. DOMAIN joined = {b} /\ joined[b] = Edge("backed_by", HostOf(g, relay), _flag_store(g))
  <2>1. DOMAIN joined = {b} /\ joined[b] = Edge(b[2], b[3], b[4]) BY <1>7, <1>25, EdgesOfIs
  <2> QED BY <1>24, <2>1, ChainEdgeIs
<1>27. p.edges_updated = <<>> /\ ~Collides(g, p) /\ h = apply_patch(g, p) BY <1>8, <1>10
<1>28. /\ DOMAIN h = {"nodes", "edges"}
       /\ DOMAIN h.nodes = (DOMAIN g.nodes \ p.nodes_removed) \cup DOMAIN p.nodes_updated \cup DOMAIN p.nodes_added
       /\ \A y \in DOMAIN p.nodes_updated : h.nodes[y] = p.nodes_updated[y]
       /\ \A y \in DOMAIN g.nodes \ p.nodes_removed : y \notin DOMAIN p.nodes_updated => h.nodes[y] = g.nodes[y]
       /\ DOMAIN h.edges = Staying(g, p) \cup DOMAIN p.edges_added
       /\ Staying(g, p) \cap DOMAIN p.edges_added = {}
       /\ \A e \in DOMAIN p.edges_added : h.edges[e] = p.edges_added[e]
       /\ \A e \in Staying(g, p) : h.edges[e] = g.edges[e]
  BY <1>27, PatchIs
<1>29. /\ DOMAIN h.nodes = DOMAIN g.nodes \ {old, t, x} /\ h.nodes[relay] = Promoted(g, relay)
       /\ \A y \in DOMAIN h.nodes \ {relay} : h.nodes[y] = g.nodes[y]
  BY <1>10, <1>17, <1>19, <1>20, <1>23, <1>28
<1>30. Staying(g, p) = {e \in DOMAIN g.edges : /\ g.edges[e].kind # "backed_by"
                                               /\ g.edges[e].src \notin gone /\ g.edges[e].dst \notin gone}
  <2>1. PICK s, d \in DOMAIN g.nodes :
          Links(g, "backed_by") = {Edge("backed_by", s, d)} /\ _flag_store(g) = d
    BY HomeIs
  <2>2. \A e \in DOMAIN g.edges : g.edges[e].kind = "backed_by" => g.edges[e] = Edge("backed_by", s, d)
    BY <2>1 DEF Links
  <2>3. \A e \in DOMAIN g.edges : g.edges[e].kind = "backed_by" => g.edges[e].dst = _flag_store(g)
    BY <2>1, <2>2, EdgeFields
  <2>4. StoreEdge(g) = {e \in DOMAIN g.edges : g.edges[e].kind = "backed_by"} BY <2>3 DEF StoreEdge
  <2> QED BY <1>10, <1>25, <2>4 DEF Staying, Touches, EdgesAt
<1>31. \A e \in DOMAIN g.edges : g.edges[e].src \in DOMAIN g.nodes /\ g.edges[e].dst \in DOMAIN g.nodes
  BY <1>11 DEF Framed, EdgeOK
<1>32. \A e \in Staying(g, p) : /\ e \in DOMAIN g.edges /\ h.edges[e] = g.edges[e] /\ g.edges[e].kind # "backed_by"
                                /\ g.edges[e].src \in DOMAIN h.nodes /\ g.edges[e].dst \in DOMAIN h.nodes
  BY <1>17, <1>28, <1>29, <1>30, <1>31
<1>33. DOMAIN h.edges = Staying(g, p) \cup {b} /\ h.edges[b] = Edge("backed_by", HostOf(g, relay), _flag_store(g))
  BY <1>10, <1>26, <1>28
<1>34. ASSUME NEW e \in DOMAIN g.edges, g.edges[e].kind # "backed_by",
              g.edges[e].src \in DOMAIN h.nodes, g.edges[e].dst \in DOMAIN h.nodes
       PROVE  e \in DOMAIN h.edges /\ h.edges[e] = g.edges[e]
  <2>1. e \in Staying(g, p) BY <1>17, <1>29, <1>30, <1>34
  <2> QED BY <1>28, <2>1
<1>35. Collapsed(g, h, c, old, relay, t, x)
  BY <1>4, <1>12, <1>13, <1>15, <1>16, <1>22, <1>28, <1>29, <1>32, <1>33, <1>34 DEF Collapsed
<1> QED BY <1>35

(* The vault of the last gate is its own: what a mutation added there would be left alone  *)
(* in a world without it, which is not admitted.                                      *)
LEMMA VaultAlone ==
    ASSUME NEW g, Structured(g), Framed(g), NEW c \in Seq(Vulns(g)), Chain(g, c), NEW h,
           NEW old, NEW relay, NEW t, NEW x, Collapsed(g, h, c, old, relay, t, x),
           no_orphan_nodes(h), credential_reuse_binding(h), NEW v \in Vulns(g), v # old
    PROVE  Target(g, v) # t
<1> SUFFICES ASSUME Target(g, v) = t PROVE FALSE OBVIOUS
<1>1. /\ ChainNodes(g, c) /\ ChainHosts(g, c) /\ ChainCreds(g, c) /\ VaultsAside(g) BY DEF Chain
<1>2. PICK n : n = Len(c) OBVIOUS
<1>3. old = c[n] /\ old \in Vulns(g) /\ n \in Nat /\ n >= 3 /\ relay = c[n - 1]
  BY <1>1, <1>2, TerminalIs DEF Collapsed
<1>4. g.nodes[v].flaw \notin ChainFlaws
  <2>1. SUFFICES ASSUME g.nodes[v].flaw \in ChainFlaws PROVE FALSE OBVIOUS
  <2>2. PICK i \in 1 .. n : v = c[i] BY <1>1, <1>2, <2>1 DEF ChainNodes
  <2>3. HostOf(g, v) = HostOf(g, old)
    <3>1. HostOf(g, v) = Svc(Target(g, v)[2]) /\ HostOf(g, old) = Svc(Target(g, old)[2]) BY <1>3, HostIs
    <3> QED BY <3>1 DEF Collapsed
  <2>4. n \in 1 .. n BY <1>3
  <2>5. i = n BY <1>1, <1>2, <1>3, <2>2, <2>3, <2>4 DEF ChainHosts
  <2> QED BY <1>3, <2>2, <2>5
<1>5. \A n1 \in DOMAIN g.nodes : NodeOK(n1, g.nodes[n1]) BY DEF Framed
<1>6. /\ Vulns(g) = DOMAIN g.nodes \cap VulnIds /\ by_kind(g, "endpoint") = DOMAIN g.nodes \cap EndpointIds
      /\ by_kind(g, "credential") = DOMAIN g.nodes \cap CredIds
      /\ by_kind(g, "service") = DOMAIN g.nodes \cap ServiceIds /\ by_kind(g, "data_store") = DOMAIN g.nodes \cap StoreIds
  BY <1>5, KindSets
<1>7. v \in VulnIds /\ v \in DOMAIN g.nodes /\ g.nodes[v].kind = "vulnerability" BY <1>6 DEF Vulns, by_kind
<1>8. t \in EndpointIds /\ x \in CredIds
  <2>1. t \in by_kind(g, "endpoint") BY <1>3, TargetIs DEF Collapsed
  <2> QED BY <1>6, <2>1 DEF Collapsed
<1>9. v \in DOMAIN h.nodes /\ v # relay /\ h.nodes[v] = g.nodes[v]
  <2>1. v # t /\ v # x BY <1>7, <1>8 DEF EndpointIds, CredIds, VulnIds
  <2>2. v # relay
    <3>1. n - 1 \in 2 .. n - 1 BY <1>3
    <3> QED BY <1>1, <1>2, <1>3, <1>4, <3>1 DEF ChainNodes, ChainFlaws, GateFlaws
  <2> QED BY <1>7, <2>1, <2>2 DEF Collapsed
<1>10. PICK e \in DOMAIN h.edges : v \in {h.edges[e].src, h.edges[e].dst}
  BY <1>9 DEF no_orphan_nodes, Range
<1>11. h.edges[e] # Edge("backed_by", HostOf(g, relay), _flag_store(g))
  <2>1. SUFFICES ASSUME h.edges[e] = Edge("backed_by", HostOf(g, relay), _flag_store(g)) PROVE FALSE OBVIOUS
  <2>2. v = HostOf(g, relay) \/ v = _flag_store(g) BY <1>10, <2>1, EdgeFields
  <2>3. relay \in Vulns(g)
    <3>1. n - 1 \in 1 .. n BY <1>3
    <3> QED BY <1>2, <1>3, <3>1
  <2>4. HostOf(g, relay) \in by_kind(g, "service") BY <2>3, HostIs
  <2>5. v # HostOf(g, relay) BY <1>7, <2>4 DEF by_kind
  <2>6. v = _flag_store(g) BY <2>2, <2>5
  <2> QED BY <1>7, <2>6, HomeIs
<1>12. /\ e \in DOMAIN g.edges /\ h.edges[e] = g.edges[e]
       /\ g.edges[e].src \in DOMAIN h.nodes /\ g.edges[e].dst \in DOMAIN h.nodes
  BY <1>11 DEF Collapsed
<1>13. EdgeOK(g, g.edges[e]) BY <1>12 DEF Framed
<1>14. CASE g.edges[e].kind = "affects"
  <2>1. g.edges[e].src = v BY <1>7, <1>10, <1>12, <1>13, <1>14 DEF EdgeOK, DstKind
  <2>2. g.edges[e].dst \in Dsts(g, "affects", v) BY <1>12, <1>14, <2>1 DEF Dsts
  <2>3. g.edges[e].dst = t BY <2>2, TargetIs
  <2> QED BY <1>12, <2>3 DEF Collapsed
<1>15. CASE g.edges[e].kind = "enables"
  <2>1. g.edges[e] \in Links(g, "enables") BY <1>12, <1>15 DEF Links
  <2>2. g.nodes[t].path = "vault"
    <3>1. n \in 2 .. n BY <1>3
    <3> QED BY <1>1, <1>2, <1>3, <3>1 DEF ChainCreds, Collapsed
  <2>3. g.nodes[v].flaw \in GateFlaws BY <1>1, <1>10, <1>12, <2>1, <2>2 DEF VaultsAside
  <2> QED BY <1>4, <2>3 DEF ChainFlaws
<1>16. CASE g.edges[e].kind = "produces"
  <2>1. g.edges[e].src = v BY <1>7, <1>10, <1>12, <1>13, <1>16 DEF EdgeOK, DstKind
  <2>2. h.edges[e] \in Links(h, "produces") BY <1>12, <1>16 DEF Links
  <2>3. h.nodes[v].flaw \in {"credential_leak", "credential_gated_relay"}
    BY <1>12, <2>1, <2>2 DEF credential_reuse_binding
  <2> QED BY <1>4, <1>9, <2>3 DEF ChainFlaws, GateFlaws
<1> QED BY <1>7, <1>10, <1>12, <1>13, <1>14, <1>15, <1>16 DEF EdgeOK, SrcKind, DstKind


(* How a world with one hop less is read.                                           *)
LessRead(g, h, old, relay, t, x) ==
    /\ Structured(h) /\ FlagServices(h) = {HostOf(g, relay)}
    /\ Vulns(h) = Vulns(g) \ {old} /\ old \in Vulns(g) /\ relay \in Vulns(h)
    /\ by_kind(h, "credential") = by_kind(g, "credential") \ {x} /\ x \in by_kind(g, "credential")
    /\ by_kind(h, "endpoint") = by_kind(g, "endpoint") \ {t}
    /\ \A v \in Vulns(h) \ {relay} : h.nodes[v] = g.nodes[v]
    /\ \A y \in by_kind(h, "endpoint") : h.nodes[y] = g.nodes[y]
    /\ \A v \in Vulns(h) : /\ v \in Vulns(g) /\ Affecting(h, v) = Affecting(g, v)
                           /\ Target(h, v) = Target(g, v) /\ HostOf(h, v) = HostOf(g, v)
    /\ Public(h) = Public(g) /\ Internals(h) = Internals(g)
    /\ \A y \in PublicEndpoints(g) \ {t} : y \in PublicEndpoints(h)
    /\ \A k \in {"enables", "requires_credential"} :
         Links(h, k) = {l \in Links(g, k) : l.src \in DOMAIN h.nodes /\ l.dst \in DOMAIN h.nodes}
    /\ Affects(h) \subseteq Affects(g) /\ \A e \in Affects(h) : h.edges[e] = g.edges[e]

LEMMA LessReadIs ==
    ASSUME NEW g, Structured(g), NEW c \in Seq(Vulns(g)), Chain(g, c), NEW h,
           NEW old, NEW relay, NEW t, NEW x, Collapsed(g, h, c, old, relay, t, x),
           no_orphan_nodes(h), credential_reuse_binding(h)
    PROVE  LessRead(g, h, old, relay, t, x)
<1>1. Framed(g) BY DEF Structured
<1>2. \A n \in DOMAIN g.nodes : NodeOK(n, g.nodes[n]) BY <1>1 DEF Framed
<1>3. /\ Vulns(g) = DOMAIN g.nodes \cap VulnIds /\ by_kind(g, "endpoint") = DOMAIN g.nodes \cap EndpointIds
      /\ by_kind(g, "credential") = DOMAIN g.nodes \cap CredIds
      /\ by_kind(g, "service") = DOMAIN g.nodes \cap ServiceIds /\ by_kind(g, "data_store") = DOMAIN g.nodes \cap StoreIds
  BY <1>2, KindSets
<1>4. PICK n : n = Len(c) OBVIOUS
<1>5. ChainNodes(g, c) BY DEF Chain
<1>6. old = c[n] /\ old \in Vulns(g) /\ n \in Nat /\ n >= 3 /\ relay = c[n - 1] /\ relay \in Vulns(g) /\ relay # old
  <2>1. old = c[n] /\ old \in Vulns(g) /\ n \in Nat /\ n >= 3 /\ relay = c[n - 1]
    BY <1>4, <1>5, TerminalIs DEF Collapsed
  <2>2. n - 1 \in 1 .. n /\ n - 1 \in 2 .. n - 1 BY <2>1
  <2>3. relay \in Vulns(g) BY <1>4, <2>1, <2>2
  <2>4. g.nodes[relay].flaw = "credential_gated_relay" /\ g.nodes[old].flaw = "credential_gated_flag"
    BY <1>4, <1>5, <2>1, <2>2 DEF ChainNodes
  <2> QED BY <2>1, <2>3, <2>4
<1>7. t \in by_kind(g, "endpoint") /\ t \in EndpointIds /\ x \in by_kind(g, "credential") /\ x \in CredIds
      /\ old \in VulnIds /\ relay \in VulnIds
  <2>1. t \in by_kind(g, "endpoint") BY <1>1, <1>6, TargetIs DEF Collapsed
  <2>2. x \in by_kind(g, "credential") BY DEF Collapsed
  <2> QED BY <1>3, <1>6, <2>1, <2>2
<1>8. /\ DOMAIN h = {"nodes", "edges"} /\ DOMAIN h.nodes = DOMAIN g.nodes \ {old, t, x}
      /\ \A y \in DOMAIN h.nodes \ {relay} : h.nodes[y] = g.nodes[y]
  BY DEF Collapsed
<1>9. h.nodes[relay] \in VulnNodes BY DEF Collapsed
<1>10. \A y \in DOMAIN h.nodes : NodeOK(y, h.nodes[y])
  <2>1. NodeOK(relay, h.nodes[relay]) BY <1>7, <1>9 DEF NodeOK
  <2> QED BY <1>2, <1>8, <2>1
<1>11. /\ Vulns(h) = DOMAIN h.nodes \cap VulnIds /\ by_kind(h, "endpoint") = DOMAIN h.nodes \cap EndpointIds
       /\ by_kind(h, "credential") = DOMAIN h.nodes \cap CredIds
  BY <1>10, KindSets
<1>12. /\ Vulns(h) = Vulns(g) \ {old} /\ by_kind(h, "endpoint") = by_kind(g, "endpoint") \ {t}
       /\ by_kind(h, "credential") = by_kind(g, "credential") \ {x}
  <2>1. t \notin VulnIds /\ x \notin VulnIds /\ old \notin EndpointIds /\ x \notin EndpointIds
        /\ old \notin CredIds /\ t \notin CredIds
    BY <1>7 DEF VulnIds, CredIds, EndpointIds
  <2> QED BY <1>3, <1>8, <1>11, <2>1
<1>13. PICK s, d \in DOMAIN g.nodes :
         /\ Links(g, "contains") = {Edge("contains", d, record_id)} /\ Links(g, "backed_by") = {Edge("backed_by", s, d)}
         /\ _flag_store(g) = d /\ g.nodes[d].kind = "data_store"
  BY HomeIs
<1>14. PICK host : host = HostOf(g, relay) OBVIOUS
<1>15. host \in by_kind(g, "service") /\ d \in by_kind(g, "data_store")
  BY <1>1, <1>6, <1>13, <1>14, HostIs DEF by_kind
<1>16. host \in DOMAIN h.nodes /\ d \in DOMAIN h.nodes /\ h.nodes[host] = g.nodes[host] /\ h.nodes[d] = g.nodes[d]
  <2>1. host \in ServiceIds /\ d \in StoreIds BY <1>3, <1>15
  <2>2. host \notin {old, t, x, relay} /\ d \notin {old, t, x, relay}
    BY <1>7, <2>1 DEF ServiceIds, StoreIds, VulnIds, CredIds, EndpointIds
  <2> QED BY <1>3, <1>8, <1>15, <2>2
<1>17. PICK b : b = Edge("backed_by", host, d) OBVIOUS
<1>18. b.kind = "backed_by" /\ b.src = host /\ b.dst = d BY <1>17, EdgeFields
<1>19. EdgeOK(h, b)
  <2>1. h.nodes[host].kind = "service" /\ h.nodes[d].kind = "data_store" BY <1>13, <1>15, <1>16 DEF by_kind
  <2> QED BY <1>16, <1>17, <2>1 DEF EdgeOK, Edge, SrcKind, DstKind
<1>20. /\ \A e \in DOMAIN h.edges :
            \/ /\ e \in DOMAIN g.edges /\ h.edges[e] = g.edges[e] /\ g.edges[e].kind # "backed_by"
               /\ g.edges[e].src \in DOMAIN h.nodes /\ g.edges[e].dst \in DOMAIN h.nodes
            \/ h.edges[e] = b
       /\ \A e \in DOMAIN g.edges :
            g.edges[e].kind # "backed_by" /\ g.edges[e].src \in DOMAIN h.nodes /\ g.edges[e].dst \in DOMAIN h.nodes
            => e \in DOMAIN h.edges /\ h.edges[e] = g.edges[e]
       /\ \E e \in DOMAIN h.edges : h.edges[e] = b
  BY <1>13, <1>14, <1>17 DEF Collapsed
<1>21. Shrinks(g, h)
  <2>1. DOMAIN g.nodes \cap ServiceIds \subseteq DOMAIN h.nodes
    <3>1. old \notin ServiceIds /\ t \notin ServiceIds /\ x \notin ServiceIds
      BY <1>7 DEF ServiceIds, VulnIds, CredIds, EndpointIds
    <3> QED BY <1>8, <3>1
  <2>2. ASSUME NEW v \in Vulns(h) PROVE Target(g, v) \in DOMAIN h.nodes
    <3>1. v \in Vulns(g) /\ v # old BY <1>12
    <3>2. Target(g, v) # t BY <1>1, <3>1, VaultAlone
    <3>3. Target(g, v) \in by_kind(g, "endpoint") BY <1>1, <3>1, TargetIs
    <3>4. Target(g, v) \in by_kind(h, "endpoint") BY <1>12, <3>2, <3>3
    <3> QED BY <3>4 DEF by_kind
  <2>3. \A e \in DOMAIN g.edges :
          g.edges[e].kind \in {"affects", "exposes"} /\ g.edges[e].src \in DOMAIN h.nodes /\ g.edges[e].dst \in DOMAIN h.nodes
          => e \in DOMAIN h.edges /\ h.edges[e] = g.edges[e]
    BY <1>20
  <2>4. \A e \in DOMAIN h.edges :
          \/ /\ e \in DOMAIN g.edges /\ h.edges[e] = g.edges[e]
             /\ g.edges[e].src \in DOMAIN h.nodes /\ g.edges[e].dst \in DOMAIN h.nodes
          \/ EdgeOK(h, h.edges[e]) /\ h.edges[e].kind # "affects"
    BY <1>18, <1>19, <1>20
  <2> QED BY <1>8, <1>10, <2>1, <2>2, <2>3, <2>4 DEF Shrinks
<1>22. /\ Framed(h) /\ Affects(h) \subseteq Affects(g) /\ \A e \in Affects(h) : h.edges[e] = g.edges[e]
       /\ \A v \in Vulns(h) : /\ v \in Vulns(g) /\ Affecting(h, v) = Affecting(g, v)
                              /\ Target(h, v) = Target(g, v) /\ HostOf(h, v) = HostOf(g, v)
  BY <1>1, <1>21, ShrunkIs
<1>23. ASSUME NEW k, k # "backed_by"
       PROVE  Links(h, k) = {l \in Links(g, k) : l.src \in DOMAIN h.nodes /\ l.dst \in DOMAIN h.nodes}
  <2>1. ASSUME NEW l \in Links(h, k) PROVE l \in Links(g, k) /\ l.src \in DOMAIN h.nodes /\ l.dst \in DOMAIN h.nodes
    <3>1. PICK e \in DOMAIN h.edges : h.edges[e].kind = k /\ l = h.edges[e] BY DEF Links
    <3>2. h.edges[e] # b BY <1>18, <1>23, <3>1
    <3> QED BY <1>20, <3>1, <3>2 DEF Links
  <2>2. ASSUME NEW l \in Links(g, k), l.src \in DOMAIN h.nodes, l.dst \in DOMAIN h.nodes PROVE l \in Links(h, k)
    <3>1. PICK e \in DOMAIN g.edges : g.edges[e].kind = k /\ l = g.edges[e] BY DEF Links
    <3>2. e \in DOMAIN h.edges /\ h.edges[e] = g.edges[e] BY <1>20, <1>23, <2>2, <3>1
    <3> QED BY <3>1, <3>2 DEF Links
  <2> QED BY <2>1, <2>2
<1>24. record_id \in DOMAIN h.nodes /\ flag_id \in DOMAIN h.nodes
  <2>1. record_id \in DOMAIN g.nodes /\ flag_id \in DOMAIN g.nodes BY DEF Structured, Homed
  <2>2. record_id \notin {old, t, x} /\ flag_id \notin {old, t, x}
    BY <1>7 DEF record_id, flag_id, VulnIds, CredIds, EndpointIds
  <2> QED BY <1>8, <2>1, <2>2
<1>25. Links(h, "contains") = {Edge("contains", d, record_id)}
  <2>1. Edge("contains", d, record_id).src \in DOMAIN h.nodes /\ Edge("contains", d, record_id).dst \in DOMAIN h.nodes
    BY <1>16, <1>24, EdgeFields
  <2> QED BY <1>13, <1>23, <2>1
<1>26. Links(h, "backed_by") = {b}
  <2>1. \A l \in Links(h, "backed_by") : l = b
    <3>1. ASSUME NEW e \in DOMAIN h.edges, h.edges[e].kind = "backed_by" PROVE h.edges[e] = b BY <1>20, <3>1
    <3> QED BY <3>1 DEF Links
  <2>2. b \in Links(h, "backed_by") BY <1>18, <1>20 DEF Links
  <2> QED BY <2>1, <2>2
<1>27. Structured(h) BY <1>16, <1>17, <1>22, <1>24, <1>25, <1>26 DEF Structured, Homed
<1>28. FlagServices(h) = {host}
  <2>1. PICK s1, d1 \in DOMAIN h.nodes : Links(h, "backed_by") = {Edge("backed_by", s1, d1)} /\ FlagServices(h) = {s1}
    BY <1>27, HomeIs
  <2>2. Edge("backed_by", s1, d1) = b BY <1>26, <2>1
  <2>3. s1 = host BY <1>18, <2>2, EdgeFields
  <2> QED BY <2>1, <2>3
<1>29. Public(h) = Public(g) /\ Internals(h) = Internals(g)
  <2>1. old \notin ServiceIds /\ t \notin ServiceIds /\ x \notin ServiceIds /\ relay \notin ServiceIds
    BY <1>7 DEF ServiceIds, VulnIds, CredIds, EndpointIds
  <2>2. DOMAIN h.nodes \cap ServiceIds = DOMAIN g.nodes \cap ServiceIds BY <1>8, <2>1
  <2>3. \A s1 \in DOMAIN g.nodes \cap ServiceIds : h.nodes[s1] = g.nodes[s1] BY <1>8, <2>1, <2>2
  <2> QED BY <1>2, <1>10, <2>2, <2>3, SameServices
<1>30. ASSUME NEW y \in PublicEndpoints(g), y # t PROVE y \in PublicEndpoints(h)
  <2>1. PICK s1 \in Public(g) : y \in Dsts(g, "exposes", s1) BY <1>30 DEF PublicEndpoints
  <2>2. PICK e \in DOMAIN g.edges : g.edges[e].kind = "exposes" /\ g.edges[e].src = s1 /\ g.edges[e].dst = y
    BY <2>1 DEF Dsts
  <2>3. EdgeOK(g, g.edges[e]) BY <1>1 DEF Framed
  <2>4. y \in by_kind(g, "endpoint") BY <2>2, <2>3 DEF EdgeOK, DstKind, by_kind
  <2>5. y \in DOMAIN h.nodes BY <1>12, <1>30, <2>4 DEF by_kind
  <2>6. s1 \in DOMAIN h.nodes BY <1>29 DEF Public, by_kind
  <2>7. e \in DOMAIN h.edges /\ h.edges[e] = g.edges[e] BY <1>20, <2>2, <2>5, <2>6
  <2>8. y \in Dsts(h, "exposes", s1) BY <2>2, <2>7 DEF Dsts
  <2> QED BY <1>29, <2>8 DEF PublicEndpoints
<1>31. relay \in Vulns(h) BY <1>6, <1>12
<1>32. \A v \in Vulns(h) \ {relay} : h.nodes[v] = g.nodes[v] BY <1>8 DEF Vulns, by_kind
<1>33. \A y \in by_kind(h, "endpoint") : h.nodes[y] = g.nodes[y]
  <2>1. relay \notin EndpointIds BY <1>7 DEF VulnIds, EndpointIds
  <2> QED BY <1>8, <1>11, <2>1
<1>34. \A k \in {"enables", "requires_credential"} :
         Links(h, k) = {l \in Links(g, k) : l.src \in DOMAIN h.nodes /\ l.dst \in DOMAIN h.nodes}
  BY <1>23
<1> QED BY <1>6, <1>7, <1>12, <1>14, <1>22, <1>27, <1>28, <1>29, <1>30, <1>31, <1>32, <1>33, <1>34 DEF LessRead


LEMMA CollapsedChain ==
    ASSUME NEW g, Structured(g), Footed(g), NEW c \in Seq(Vulns(g)), Chain(g, c), NEW h,
           NEW old, NEW relay, NEW t, NEW x,
           Collapsed(g, h, c, old, relay, t, x), LessRead(g, h, old, relay, t, x)
    PROVE  Footed(h) /\ \E k : Rechained(g, h, c, k)
<1>1. ChainNodes(g, c) /\ ChainHosts(g, c) /\ ChainNames(g, c) /\ ChainCreds(g, c) /\ ChainLinks(g, c) /\ VaultsAside(g)
  BY DEF Chain
<1>2. PICK n : n = Len(c) OBVIOUS
<1>3. n \in Nat /\ n >= 3 /\ \A i \in 1 .. n : c[i] \in Vulns(g) BY <1>2 DEF Collapsed
<1>4. old = c[n] /\ relay = c[n - 1] /\ t = Target(g, old) /\ Dsts(g, "requires_credential", t) = {x}
  BY <1>2 DEF Collapsed
<1>5. /\ h.nodes[relay].flaw = "credential_gated_flag"
      /\ h.nodes[relay].params.credential = g.nodes[relay].params.credential
      /\ DOMAIN h.nodes = DOMAIN g.nodes \ {old, t, x}
  BY DEF Collapsed
<1>6. /\ g.nodes[relay].flaw = "credential_gated_relay" /\ g.nodes[old].flaw = "credential_gated_flag"
  <2>1. n - 1 \in 2 .. n - 1 BY <1>3
  <2> QED BY <1>1, <1>2, <1>4, <2>1 DEF ChainNodes
<1>7. /\ Vulns(h) = Vulns(g) \ {old} /\ relay \in Vulns(h)
      /\ \A v \in Vulns(h) \ {relay} : h.nodes[v] = g.nodes[v]
      /\ \A v \in Vulns(h) : /\ v \in Vulns(g) /\ Affecting(h, v) = Affecting(g, v)
                             /\ Target(h, v) = Target(g, v) /\ HostOf(h, v) = HostOf(g, v)
  BY DEF LessRead
<1>8. \A v \in Vulns(h) : /\ h.nodes[v].flaw \in ChainFlaws <=> g.nodes[v].flaw \in ChainFlaws
                          /\ h.nodes[v].flaw \in GateFlaws <=> g.nodes[v].flaw \in GateFlaws
                          /\ h.nodes[v].flaw = "ssrf" <=> g.nodes[v].flaw = "ssrf"
  BY <1>5, <1>6, <1>7 DEF ChainFlaws, GateFlaws
<1>9. \A i, j \in 1 .. n : HostOf(g, c[i]) = HostOf(g, c[j]) => i = j BY <1>1, <1>2 DEF ChainHosts
<1>10. \A i \in 1 .. n - 1 : i \in 1 .. n /\ i # n /\ c[i] \in Vulns(h)
  <2>1. ASSUME NEW i \in 1 .. n - 1 PROVE i \in 1 .. n /\ i # n /\ c[i] \in Vulns(h)
    <3>1. i \in 1 .. n /\ i # n /\ n \in 1 .. n BY <1>3
    <3>2. c[i] # old BY <1>4, <1>9, <3>1
    <3> QED BY <1>3, <1>7, <3>1, <3>2
  <2> QED BY <2>1
<1>11. \A i \in 1 .. n - 2 : i \in 1 .. n - 1 /\ i + 1 \in 1 .. n - 1 /\ c[i] # relay /\ h.nodes[c[i]] = g.nodes[c[i]]
  <2>1. ASSUME NEW i \in 1 .. n - 2
        PROVE  i \in 1 .. n - 1 /\ i + 1 \in 1 .. n - 1 /\ c[i] # relay /\ h.nodes[c[i]] = g.nodes[c[i]]
    <3>1. i \in 1 .. n - 1 /\ i + 1 \in 1 .. n - 1 /\ i \in 1 .. n /\ n - 1 \in 1 .. n /\ i # n - 1 BY <1>3
    <3>2. c[i] # relay BY <1>4, <1>9, <3>1
    <3> QED BY <1>7, <1>10, <3>1, <3>2
  <2> QED BY <2>1
<1> DEFINE k == [i \in 1 .. n - 1 |-> c[i]]
<1>12. k \in Seq(Vulns(h)) /\ Len(k) = n - 1 /\ \A i \in 1 .. n - 1 : k[i] = c[i] BY <1>3, <1>10
<1> HIDE DEF k
<1>13. Pivot \in Vulns(g) /\ g.nodes[Pivot].flaw = "ssrf" BY DEF Footed, OfKind
<1>14. Pivot \in Vulns(h) /\ Pivot # relay /\ h.nodes[Pivot] = g.nodes[Pivot] BY <1>6, <1>7, <1>13
<1>15. \A v \in Vulns(h) : Target(g, v) \in by_kind(h, "endpoint")
  <2>1. Framed(h) BY DEF LessRead, Structured
  <2> QED BY <1>7, <2>1, TargetIs
<1>16. \A y \in by_kind(h, "endpoint") : y # t /\ y \in by_kind(g, "endpoint") /\ h.nodes[y] = g.nodes[y] BY DEF LessRead
<1>17. Footed(h)
  <2>1. OfKind(h, "ssrf") = OfKind(g, "ssrf") BY <1>6, <1>7, <1>8 DEF OfKind
  <2>2. Target(h, Pivot) = Target(g, Pivot) /\ Target(g, Pivot) # t BY <1>7, <1>14, <1>15, <1>16
  <2>3. h.nodes[Target(g, Pivot)] = g.nodes[Target(g, Pivot)] BY <1>14, <1>15, <1>16
  <2>4. Target(g, Pivot) \in PublicEndpoints(h) BY <2>2 DEF Footed, LessRead
  <2> QED BY <2>1, <2>2, <2>3, <2>4 DEF Footed
<1>18. ChainNodes(h, k)
  <2>1. h.nodes[k[1]].flaw = "credential_leak"
    <3>1. 1 \in 1 .. n - 2 /\ 1 \in 1 .. n - 1 BY <1>3
    <3> QED BY <1>1, <1>11, <1>12, <3>1 DEF ChainNodes
  <2>2. ASSUME NEW i \in 2 .. n - 2 PROVE h.nodes[k[i]].flaw = "credential_gated_relay"
    <3>1. i \in 1 .. n - 2 /\ i \in 1 .. n - 1 /\ i \in 2 .. n - 1 BY <1>3
    <3>2. k[i] = c[i] /\ h.nodes[c[i]] = g.nodes[c[i]] BY <1>11, <1>12, <3>1
    <3>3. g.nodes[c[i]].flaw = "credential_gated_relay" BY <1>1, <1>2, <3>1 DEF ChainNodes
    <3> QED BY <3>2, <3>3
  <2>3. h.nodes[k[n - 1]].flaw = "credential_gated_flag"
    <3>1. n - 1 \in 1 .. n - 1 BY <1>3
    <3> QED BY <1>4, <1>5, <1>12, <3>1
  <2>4. ASSUME NEW v \in Vulns(h), h.nodes[v].flaw \in ChainFlaws PROVE \E i \in 1 .. n - 1 : v = k[i]
    <3>1. PICK i \in 1 .. n : v = c[i] BY <1>1, <1>2, <1>7, <1>8, <2>4 DEF ChainNodes
    <3>2. i # n BY <1>4, <1>7, <3>1
    <3>3. i \in 1 .. n - 1 BY <1>3, <3>2
    <3> QED BY <1>12, <3>1, <3>3
  <2>5. Len(k) - 1 = n - 2 /\ Len(k) >= 2 BY <1>3, <1>12
  <2> QED BY <1>12, <2>1, <2>2, <2>3, <2>4, <2>5 DEF ChainNodes
<1>19. \A i \in 1 .. n - 1 : /\ Target(h, k[i]) = Target(g, c[i]) /\ HostOf(h, k[i]) = HostOf(g, c[i])
                             /\ Target(g, c[i]) \in by_kind(h, "endpoint")
  BY <1>7, <1>10, <1>12, <1>15
<1>20. n - 1 \in 1 .. n - 1 BY <1>3
<1>21. ChainHosts(h, k)
  <2>1. Internals(h) = Internals(g) /\ FlagServices(h) = {HostOf(g, relay)} BY DEF LessRead
  <2>2. \A i, j \in 1 .. n - 1 : HostOf(h, k[i]) = HostOf(h, k[j]) => i = j BY <1>9, <1>10, <1>19
  <2>3. \A i \in 1 .. n - 1 : HostOf(h, k[i]) \in Internals(h) BY <1>1, <1>2, <1>10, <1>19, <2>1 DEF ChainHosts
  <2>4. h.nodes[Pivot].params.hosts = Internals(h) BY <1>1, <1>14, <2>1 DEF ChainHosts
  <2>5. FlagServices(h) = {HostOf(h, k[n - 1])} BY <1>4, <1>19, <1>20, <2>1
  <2> QED BY <1>12, <2>2, <2>3, <2>4, <2>5 DEF ChainHosts
<1>22. ChainNames(h, k)
  <2>1. ASSUME NEW i \in 1 .. n - 2
        PROVE  h.nodes[k[i]].params.host = HostOf(h, k[i + 1]) /\ Emitted(h, k[i]) = h.nodes[k[i + 1]].params.credential
    <3>1. i \in 1 .. n - 1 /\ i + 1 \in 1 .. n - 1 BY <1>11
    <3>2. k[i] = c[i] /\ k[i + 1] = c[i + 1] /\ h.nodes[c[i]] = g.nodes[c[i]] BY <1>11, <1>12, <3>1
    <3>3. Emitted(h, c[i]) = Emitted(g, c[i]) BY <3>2 DEF Emitted
    <3>4. h.nodes[c[i + 1]].params.credential = g.nodes[c[i + 1]].params.credential
      <4>1. c[i + 1] \in Vulns(h) BY <1>10, <3>1
      <4> QED BY <1>5, <1>7, <4>1
    <3>5. HostOf(h, k[i + 1]) = HostOf(g, c[i + 1]) BY <1>19, <3>1
    <3>6. g.nodes[c[i]].params.host = HostOf(g, c[i + 1]) /\ Emitted(g, c[i]) = g.nodes[c[i + 1]].params.credential
      BY <1>1, <1>2, <3>1 DEF ChainNames
    <3> QED BY <3>2, <3>3, <3>4, <3>5, <3>6
  <2>2. Len(k) - 1 = n - 2 BY <1>3, <1>12
  <2> QED BY <2>1, <2>2 DEF ChainNames
<1>23. /\ \A l \in Links(h, "requires_credential") :
            l \in Links(g, "requires_credential") /\ l.src \in DOMAIN h.nodes /\ l.dst \in DOMAIN h.nodes
       /\ \A l \in Links(g, "requires_credential") :
            l.src \in DOMAIN h.nodes /\ l.dst \in DOMAIN h.nodes => l \in Links(h, "requires_credential")
       /\ \A l \in Links(h, "enables") :
            l \in Links(g, "enables") /\ l.src \in DOMAIN h.nodes /\ l.dst \in DOMAIN h.nodes
       /\ \A l \in Links(g, "enables") :
            l.src \in DOMAIN h.nodes /\ l.dst \in DOMAIN h.nodes => l \in Links(h, "enables")
  BY DEF LessRead
<1>24. by_kind(h, "credential") = by_kind(g, "credential") \ {x} /\ x \in by_kind(g, "credential") BY DEF LessRead
<1>25. \A e, f \in Links(g, "requires_credential") : e.dst = f.dst => e.src = f.src BY <1>1 DEF ChainCreds
<1>26. PICK asked \in Links(g, "requires_credential") : asked.src = t /\ asked.dst = x
  <2>1. x \in Dsts(g, "requires_credential", t) BY <1>4
  <2> QED BY <2>1 DEF Dsts, Links
<1>27. ChainCreds(h, k)
  <2>1. ASSUME NEW i \in 2 .. n - 1
        PROVE  /\ h.nodes[Target(h, k[i])].path = "vault"
               /\ \E y \in by_kind(h, "credential") : Dsts(h, "requires_credential", Target(h, k[i])) = {y}
    <3>1. i \in 1 .. n - 1 /\ i \in 2 .. n BY <1>3
    <3>2. PICK u : u = Target(g, c[i]) OBVIOUS
    <3>3. Target(h, k[i]) = u /\ u \in by_kind(h, "endpoint") BY <1>19, <3>1, <3>2
    <3>4. u # t /\ h.nodes[u] = g.nodes[u] /\ u \in DOMAIN h.nodes BY <1>16, <3>3 DEF by_kind
    <3>5. g.nodes[u].path = "vault" BY <1>1, <1>2, <3>1, <3>2 DEF ChainCreds
    <3>6. PICK y \in by_kind(g, "credential") : Dsts(g, "requires_credential", u) = {y}
      BY <1>1, <1>2, <3>1, <3>2 DEF ChainCreds
    <3>7. PICK l \in Links(g, "requires_credential") : l.src = u /\ l.dst = y
      <4>1. y \in Dsts(g, "requires_credential", u) BY <3>6
      <4> QED BY <4>1 DEF Dsts, Links
    <3>8. y # x BY <1>25, <1>26, <3>4, <3>7
    <3>9. y \in by_kind(h, "credential") /\ y \in DOMAIN h.nodes BY <1>24, <3>8 DEF by_kind
    <3>10. l \in Links(h, "requires_credential") BY <1>23, <3>4, <3>7, <3>9
    <3>11. y \in Dsts(h, "requires_credential", u) BY <3>7, <3>10 DEF Links, Dsts
    <3>12. ASSUME NEW z \in Dsts(h, "requires_credential", u) PROVE z = y
      <4>1. PICK l1 \in Links(h, "requires_credential") : l1.src = u /\ l1.dst = z BY DEF Links, Dsts
      <4>2. l1 \in Links(g, "requires_credential") BY <1>23, <4>1
      <4>3. z \in Dsts(g, "requires_credential", u) BY <4>1, <4>2 DEF Links, Dsts
      <4> QED BY <3>6, <4>3
    <3>13. Dsts(h, "requires_credential", u) = {y} BY <3>11, <3>12
    <3> QED BY <3>3, <3>4, <3>5, <3>9, <3>13
  <2>2. Cardinality(by_kind(h, "credential")) = n - 2
    <3>1. IsFiniteSet(by_kind(g, "credential"))
      <4>1. by_kind(g, "credential") \in SUBSET DOMAIN g.nodes BY DEF by_kind
      <4>2. IsFiniteSet(DOMAIN g.nodes) BY DEF Structured, Framed
      <4> QED BY <4>1, <4>2, FS_Subset
    <3>2. Cardinality(by_kind(g, "credential")) = n - 1 BY <1>1, <1>2 DEF ChainCreds
    <3>3. Cardinality(by_kind(g, "credential") \ {x}) = Cardinality(by_kind(g, "credential")) - 1
      BY <1>24, <3>1, FS_RemoveElement
    <3>4. n - 1 - 1 = n - 2 BY <1>3
    <3> QED BY <1>24, <3>2, <3>3, <3>4
  <2>3. \A e, f \in Links(h, "requires_credential") : e.dst = f.dst => e.src = f.src BY <1>23, <1>25
  <2>4. Len(k) - 1 = n - 2 BY <1>3, <1>12
  <2> QED BY <1>12, <2>1, <2>2, <2>3, <2>4 DEF ChainCreds
<1>28. \A l \in Links(g, "enables") : l.src \in Vulns(g) /\ l.dst \in Vulns(g) BY EnablesEnds DEF Structured
<1>29. \A l \in Links(h, "enables") : l.src \in Vulns(h) /\ l.dst \in Vulns(h)
  <2>1. Framed(h) BY DEF LessRead, Structured
  <2> QED BY <2>1, EnablesEnds
<1>30. ChainLinks(h, k)
  <2>1. ASSUME NEW e \in Links(h, "enables"), h.nodes[e.dst].flaw \in GateFlaws
        PROVE  \E i \in 1 .. n - 2 : e.src = k[i] /\ e.dst = k[i + 1]
    <3>1. e \in Links(g, "enables") /\ e.dst \in Vulns(h) BY <1>23, <1>29
    <3>2. g.nodes[e.dst].flaw \in GateFlaws BY <1>8, <2>1, <3>1
    <3>3. PICK i \in 1 .. n - 1 : e.src = c[i] /\ e.dst = c[i + 1] BY <1>1, <1>2, <3>1, <3>2 DEF ChainLinks
    <3>4. i # n - 1
      <4>1. SUFFICES ASSUME i = n - 1 PROVE FALSE OBVIOUS
      <4>2. i + 1 = n BY <1>3, <4>1
      <4> QED BY <1>4, <1>7, <3>1, <3>3, <4>2
    <3>5. i \in 1 .. n - 2 BY <1>3, <3>4
    <3>6. k[i] = c[i] /\ k[i + 1] = c[i + 1] BY <1>11, <1>12, <3>5
    <3> QED BY <3>3, <3>5, <3>6
  <2>2. ASSUME NEW i \in 1 .. n - 2 PROVE Edge("enables", k[i], k[i + 1]) \in Links(h, "enables")
    <3>1. i \in 1 .. n - 1 /\ i + 1 \in 1 .. n - 1 BY <1>11
    <3>2. k[i] = c[i] /\ k[i + 1] = c[i + 1] /\ c[i] \in Vulns(h) /\ c[i + 1] \in Vulns(h) BY <1>10, <1>12, <3>1
    <3>3. PICK l : l = Edge("enables", c[i], c[i + 1]) OBVIOUS
    <3>4. l \in Links(g, "enables") BY <1>1, <1>2, <3>1, <3>3 DEF ChainLinks
    <3>5. l.src \in DOMAIN h.nodes /\ l.dst \in DOMAIN h.nodes BY <3>2, <3>3, EdgeFields DEF Vulns, by_kind
    <3> QED BY <1>23, <3>2, <3>3, <3>4, <3>5
  <2>3. Len(k) - 1 = n - 2 BY <1>3, <1>12
  <2> QED BY <2>1, <2>2, <2>3 DEF ChainLinks
<1>31. VaultsAside(h)
  <2>1. ASSUME NEW e \in Links(h, "enables"), NEW v \in Vulns(h), v \in {e.src, e.dst},
               h.nodes[Target(h, v)].path = "vault"
        PROVE  h.nodes[v].flaw \in GateFlaws
    <3>1. e \in Links(g, "enables") /\ v \in Vulns(g) /\ Target(h, v) = Target(g, v) BY <1>7, <1>23
    <3>2. g.nodes[Target(g, v)].path = "vault" BY <1>15, <1>16, <2>1, <3>1
    <3>3. g.nodes[v].flaw \in GateFlaws BY <1>1, <2>1, <3>1, <3>2 DEF VaultsAside
    <3> QED BY <1>8, <3>3
  <2> QED BY <2>1 DEF VaultsAside
<1>32. Chain(h, k) BY <1>18, <1>21, <1>22, <1>27, <1>30, <1>31 DEF Chain
<1>33. \A i \in 1 .. n - 1 : HopAt(h, k[i]) = HopAt(g, c[i])
  <2>1. TAKE i \in 1 .. n - 1
  <2>2. c[i] \in Vulns(h) /\ k[i] = c[i] /\ HostOf(h, k[i]) = HostOf(g, c[i]) BY <1>10, <1>12, <1>19
  <2>3. h.nodes[c[i]].params.credential = g.nodes[c[i]].params.credential BY <1>5, <1>7, <2>2
  <2> QED BY <2>2, <2>3 DEF HopAt
<1>34. \A i \in 2 .. n : i <= n - 1 => HopAt(h, k[i]) = HopAt(g, c[i]) BY <1>3, <1>33
<1>35. Rechained(g, h, c, k) BY <1>2, <1>12, <1>32, <1>34 DEF Rechained
<1> QED BY <1>17, <1>35

LEMMA CollapseIs ==
    ASSUME NEW g, NEW company, World(g, company), NEW m \in _soften_remove_hop_mutation(g), ~Collides(g, m.patch),
           NEW h, h = apply_patch(g, m.patch), Admits(h)
    PROVE  Steps(g, h, company)
<1>1. OfKind(g, "credential_gated_flag") # {} BY DEF _soften_remove_hop_mutation
<1>2. ~FlatGates(g) /\ ~Pivoted(g) BY <1>1 DEF OfKind, FlatGates, Pivoted, ChainFlaws, GateFlaws
<1>3. company /\ Footed(g) /\ Structured(g) BY <1>2 DEF World, Company
<1>4. PICK c \in Seq(Vulns(g)) : Chain(g, c) BY <1>2, <1>3 DEF World, Company
<1>5. PICK old, relay, t, x : Collapsed(g, h, c, old, relay, t, x) BY <1>3, <1>4, CollapsedIs
<1>6. no_orphan_nodes(h) /\ credential_reuse_binding(h) BY DEF Admits
<1>7. LessRead(g, h, old, relay, t, x) BY <1>3, <1>4, <1>5, <1>6, LessReadIs
<1>8. Company(h) BY <1>3, <1>4, <1>5, <1>7, CollapsedChain DEF Company, Rechained
<1>9. g.nodes[relay].flaw = "credential_gated_relay"
  <2>1. ChainNodes(g, c) BY <1>4 DEF Chain
  <2>2. relay = c[Len(c) - 1] /\ Len(c) >= 3 BY <1>5 DEF Collapsed
  <2>3. Len(c) - 1 \in 2 .. Len(c) - 1
    <3>1. PICK n : n = Len(c) OBVIOUS
    <3>2. n \in Nat BY <3>1
    <3> QED BY <2>2, <3>1, <3>2
  <2> QED BY <2>1, <2>2, <2>3 DEF ChainNodes
<1>10. \A v \in Vulns(h) : v \in Vulns(g) /\ Affecting(h, v) = Affecting(g, v) BY <1>7 DEF LessRead
<1>11. Affecting(h, Pivot) = Affecting(g, Pivot) BY <1>8, <1>10 DEF Company, Footed, OfKind
<1>12. ASSUME NEW v \in Vulns(h), h.nodes[v].flaw \in PathFlaws
       PROVE  /\ v \in Vulns(g) /\ g.nodes[v].flaw \in PathFlaws /\ Affecting(h, v) = Affecting(g, v)
              /\ \A e \in Affects(g) \cap Affects(h) : h.edges[e] = g.edges[e]
  <2>1. g.nodes[v].flaw \in PathFlaws
    <3>1. CASE v = relay BY <1>9, <3>1 DEF PathFlaws, ChainFlaws, GateFlaws
    <3>2. CASE v # relay BY <1>7, <1>12, <3>2 DEF LessRead
    <3> QED BY <3>1, <3>2
  <2> QED BY <1>7, <1>10, <2>1 DEF LessRead
<1>13. ASSUME NEW before, Served(g, before) PROVE Served(h, Reordered(before, g, h))
  BY <1>11, <1>12, <1>13, ServedKept
<1>14. Structured(h) BY <1>7 DEF LessRead
<1>15. ASSUME NEW d \in Seq(Vulns(g)), Chain(g, d) PROVE \E k : Rechained(g, h, d, k)
  <2>1. PICK v, w, y, z : Collapsed(g, h, d, v, w, y, z) BY <1>3, <1>15, CollapsedIs
  <2>2. LessRead(g, h, v, w, y, z) BY <1>3, <1>6, <1>15, <2>1, LessReadIs
  <2> QED BY <1>3, <1>15, <2>1, <2>2, CollapsedChain
<1>16. Onward(g, h)
  <2>1. Vulns(h) = Vulns(g) \ {old} /\ \A v \in Vulns(h) \ {relay} : h.nodes[v] = g.nodes[v] BY <1>7 DEF LessRead
  <2>2. g.nodes[old].flaw # "config_disclosure" /\ h.nodes[relay].flaw # "config_disclosure"
    <3>1. ChainNodes(g, c) BY <1>4 DEF Chain
    <3> QED BY <1>5, <3>1 DEF Collapsed, ChainNodes
  <2>3. OfKind(h, "config_disclosure") = OfKind(g, "config_disclosure")
    BY <1>9, <2>1, <2>2 DEF OfKind
  <2> QED BY <1>7, <1>15, <2>3 DEF LessRead, Onward
<1> QED BY <1>3, <1>8, <1>13, <1>14, <1>16 DEF Steps


-----------------------------------------------------------------------------
(* An evolved world.                                                             *)

(* No mutation updates an edge, and the edges one adds are named after their ends.     *)
Names(p) == p.edges_updated = <<>> /\ \A e \in DOMAIN p.edges_added : p.edges_added[e].src = e[3]

LEMMA EdgesNamed ==
    ASSUME NEW ids, NEW p, p.edges_updated = <<>>, p.edges_added = EdgesOf(ids)
    PROVE  Names(p)
<1>1. PICK o : o = EdgesOf(ids) OBVIOUS
<1>2. DOMAIN o = ids /\ \A id \in ids : o[id] = Edge(id[2], id[3], id[4]) BY <1>1, EdgesOfIs
<1>3. \A id \in ids : o[id].src = id[3] BY <1>2, EdgeFields
<1> QED BY <1>1, <1>2, <1>3 DEF Names

LEMMA NoneNamed ==
    ASSUME NEW p, p.edges_updated = <<>>, p.edges_added = <<>>
    PROVE  Names(p)
BY DEF Names

LEMMA MutationNames ==
    ASSUME NEW g, NEW requests, NEW m \in available_mutations(g, requests)
    PROVE  Names(m.patch)
<1>1. CASE m \in _harden_append_hop_mutation(g)
  <2>1. \E host, nodes, updated, removed, ids :
          m = Mutation("harden", "append", [EmptyPatch EXCEPT !.nodes_added = nodes, !.nodes_updated = updated,
                                              !.edges_removed = removed, !.edges_added = EdgesOf(ids)])
    BY <1>1, Zenon DEF _harden_append_hop_mutation
  <2>2. PICK nodes, updated, removed, ids :
          m = Mutation("harden", "append", [EmptyPatch EXCEPT !.nodes_added = nodes, !.nodes_updated = updated,
                                              !.edges_removed = removed, !.edges_added = EdgesOf(ids)])
    BY <2>1, Zenon
  <2>3. m.patch.edges_updated = <<>> /\ m.patch.edges_added = EdgesOf(ids) BY <2>2 DEF Mutation, EmptyPatch
  <2> QED BY <2>3, EdgesNamed
<1>2. CASE m \in _harden_add_absent_mutations(g)
  <2>1. PICK kind \in Range(SortedKinds) \ Present(g) : m = Mutation("harden", "add",
          [EmptyPatch EXCEPT !.nodes_added = Single(_fresh_vuln_id(kind, g), Vuln(kind, Params)),
                             !.edges_added = EdgesOf({ChainEdge("affects", _fresh_vuln_id(kind, g), DecoyFirst(g))})])
    BY <1>2, Zenon DEF _harden_add_absent_mutations
  <2>2. m.patch.edges_updated = <<>>
        /\ m.patch.edges_added = EdgesOf({ChainEdge("affects", _fresh_vuln_id(kind, g), DecoyFirst(g))})
    BY <2>1 DEF Mutation, EmptyPatch
  <2> QED BY <2>2, EdgesNamed
<1>3. CASE m \in _soften_remove_kind_mutations(g)
  <2>1. PICK kind : m = Mutation("soften", "remove",
          [EmptyPatch EXCEPT !.nodes_removed = OfKind(g, kind), !.edges_removed = EdgesAt(g, OfKind(g, kind))])
    BY <1>3, Zenon DEF _soften_remove_kind_mutations
  <2>2. m.patch.edges_updated = <<>> /\ m.patch.edges_added = <<>> BY <2>1 DEF Mutation, EmptyPatch
  <2> QED BY <2>2, NoneNamed
<1>4. CASE m \in _diversify_swap_kind_mutations(g)
  <2>1. PICK nodes : m = Mutation("diversify", "swap", [EmptyPatch EXCEPT !.nodes_updated = nodes])
    BY <1>4, Zenon DEF _diversify_swap_kind_mutations
  <2>2. m.patch.edges_updated = <<>> /\ m.patch.edges_added = <<>> BY <2>1 DEF Mutation, EmptyPatch
  <2> QED BY <2>2, NoneNamed
<1>5. CASE m \in _soften_remove_hop_mutation(g)
  <2>0. PICK old, relay, gone, home :
          m = Mutation("soften", "collapse",
                [EmptyPatch EXCEPT !.nodes_updated = Single(relay, Promoted(g, relay)), !.nodes_removed = gone,
                                   !.edges_removed = EdgesAt(g, gone) \cup home.removed,
                                   !.edges_added = EdgesOf(home.added)])
    BY <1>5, Zenon DEF _soften_remove_hop_mutation
  <2>1. PICK updated, removed, ids :
          m = Mutation("soften", "collapse", [EmptyPatch EXCEPT !.nodes_updated = updated, !.nodes_removed = gone,
                                                !.edges_removed = removed, !.edges_added = EdgesOf(ids)])
    BY <2>0, Zenon
  <2>2. m.patch.edges_updated = <<>> /\ m.patch.edges_added = EdgesOf(ids) BY <2>1 DEF Mutation, EmptyPatch
  <2> QED BY <2>2, EdgesNamed
<1> QED BY <1>1, <1>2, <1>3, <1>4, <1>5 DEF available_mutations

LEMMA PatchNamed ==
    ASSUME NEW g, Named(g), NEW p, Names(p), ~Collides(g, p), NEW h, h = apply_patch(g, p)
    PROVE  Named(h)
<1>1. /\ DOMAIN h.edges = Staying(g, p) \cup DOMAIN p.edges_added
      /\ \A e \in DOMAIN p.edges_added : h.edges[e] = p.edges_added[e]
      /\ \A e \in Staying(g, p) : h.edges[e] = g.edges[e]
  BY PatchIs DEF Names
<1>2. ASSUME NEW e \in Affects(h) PROVE e[3] = h.edges[e].src
  <2>1. CASE e \in DOMAIN p.edges_added BY <1>1, <2>1 DEF Names
  <2>2. CASE e \in Staying(g, p)
    <3>1. h.edges[e] = g.edges[e] /\ e \in DOMAIN g.edges BY <1>1, <2>2 DEF Staying
    <3>2. e \in Affects(g) BY <3>1 DEF Affects
    <3> QED BY <3>1, <3>2 DEF Named
  <2> QED BY <1>1, <2>1, <2>2 DEF Affects
<1> QED BY <1>2 DEF Named

(* An admitted mutation of a world is one of the five.                                 *)
LEMMA EvolvedSteps ==
    ASSUME WorldInv, Evolve
    PROVE  Steps(graph, graph', prior.company) /\ Named(graph')
<1>1. stage = "world" BY DEF Evolve
<1>2. PICK m \in Admissible(graph) : graph' = apply_patch(graph, m.patch) BY DEF Evolve
<1>3. /\ Structured(graph) /\ Named(graph) /\ Vulns(graph) # {} /\ prior \in Priors
      /\ prior.company => Company(graph)
      /\ ~prior.company => FlatGates(graph)
  BY <1>1 DEF WorldInv
<1>4. prior.company \in BOOLEAN
  <2>1. prior \in Priors BY <1>3
  <2> QED BY <2>1, PriorIs
<1>5. World(graph, prior.company) BY <1>3, <1>4 DEF World
<1>6. ~Collides(graph, m.patch) /\ Admits(graph') /\ \E requests : m \in available_mutations(graph, requests)
  BY <1>2 DEF Admissible
<1>7. PICK requests : m \in available_mutations(graph, requests) BY <1>6
<1>8. PICK h : h = graph' OBVIOUS
<1>9. Steps(graph, h, prior.company)
  <2>1. h = apply_patch(graph, m.patch) /\ Admits(h) BY <1>2, <1>6, <1>8
  <2>2. CASE m \in _harden_append_hop_mutation(graph) BY <1>5, <1>6, <2>1, <2>2, AppendIs
  <2>3. CASE m \in _harden_add_absent_mutations(graph) BY <1>3, <1>5, <1>6, <2>1, <2>3, AddIs
  <2>4. CASE m \in _soften_remove_kind_mutations(graph) BY <1>5, <1>6, <2>1, <2>4, RemoveIs
  <2>5. CASE m \in _diversify_swap_kind_mutations(graph) BY <1>5, <1>6, <2>1, <2>5, SwapIs
  <2>6. CASE m \in _soften_remove_hop_mutation(graph) BY <1>5, <1>6, <2>1, <2>6, CollapseIs
  <2> QED BY <1>7, <2>2, <2>3, <2>4, <2>5, <2>6 DEF available_mutations
<1>10. Named(graph') BY <1>2, <1>3, <1>6, <1>7, MutationNames, PatchNamed
<1> QED BY <1>8, <1>9, <1>10

(* An admitted mutation of a world leaves a world.                                    *)
LEMMA EvolveKeeps == WorldInv /\ Evolve => WorldInv'
<1> SUFFICES ASSUME WorldInv, Evolve PROVE WorldInv' OBVIOUS
<1>1. /\ stage = "world" /\ evolved < MaxEvolved /\ evolved' = evolved + 1
      /\ order' = Reordered(order, graph, graph') /\ UNCHANGED <<prior, stage, draws, between, loaded>>
  BY DEF Evolve
<1>2. /\ Ordered(graph, order)
      /\ prior.company => Company(graph) /\ (loaded \/ Served(graph, order))
  BY <1>1 DEF WorldInv
<1>3. Steps(graph, graph', prior.company) /\ Named(graph') BY EvolvedSteps
<1>4. Vulns(graph') # {} BY DEF Evolve, Admissible, Admits, Entrypoints, EntryCandidates
<1>5. /\ Structured(graph')
      /\ IF prior.company
         THEN Company(graph') /\ \A before : Served(graph, before) => Served(graph', Reordered(before, graph, graph'))
         ELSE FlatGates(graph')
  BY <1>3 DEF Steps
<1>6. Ordered(graph', order') BY <1>1, <1>2, ReorderedOrdered
<1>7. evolved' \in 0 .. MaxEvolved BY <1>1, BoundAssumption DEF WorldInv
<1>8. prior.company => Company(graph') /\ (loaded \/ Served(graph', order')) BY <1>1, <1>2, <1>5
<1>9. ~prior.company => FlatGates(graph') BY <1>5
<1> QED BY <1>1, <1>3, <1>4, <1>5, <1>6, <1>7, <1>8, <1>9 DEF WorldInv

=============================================================================
