-------------------------- MODULE WebappWorldProofs --------------------------
(* What is true of the worlds of the webapp pack, however they are mutated and given       *)
(* fresh values (Revalued says what those leave alone). ChainSolvable follows from WorldInv *)
(* alone, HopsFollowWalk from the chains before and after a step, and ReseedIsComplete      *)
(* with ValueInv, how old the values of a graph may be. The walks are recursive functions:  *)
(* each is compared with the function it should be, which is the only one that satisfies    *)
(* its definition, by the least index where two would differ.                              *)
EXTENDS WebappStepProofs

-----------------------------------------------------------------------------
(* A world with fresh values, and one that is read back from the store.                *)

Renamed(g, h, f) ==
    \A v \in Vulns(g) : /\ h.nodes[v].params.credential = f[g.nodes[v].params.credential]
                        /\ h.nodes[v].params.next_credential = f[g.nodes[v].params.next_credential]

(* Fresh values leave a chain a chain, for every copy of a token is replaced alike.      *)
LEMMA RevaluedChain ==
    ASSUME NEW g, Structured(g), NEW h, Revalued(g, h), NEW f, Renamed(g, h, f),
           Pivot \in Vulns(g), NEW c \in Seq(Vulns(g)), Chain(g, c)
    PROVE  Chain(h, c)
<1>1. SameRead(g, h) BY RevaluedIs
<1>2. \A kind, x : Dsts(h, kind, x) = Dsts(g, kind, x) BY DEF Revalued, Dsts
<1>3. \A v \in Vulns(g) : h.nodes[v].flaw = g.nodes[v].flaw BY DEF Revalued
<1>4. \A n \in DOMAIN g.nodes : NodeOK(n, g.nodes[n]) BY DEF Structured, Framed
<1>5. \A t \in by_kind(g, "endpoint") : h.nodes[t] = g.nodes[t] BY <1>4, KindSets DEF Revalued
<1>6. \A v \in Vulns(g) : h.nodes[Target(g, v)] = g.nodes[Target(g, v)] BY <1>5, TargetIs DEF Structured
<1>7. Vulns(h) = Vulns(g) BY <1>1 DEF SameRead
<1>8. \A i \in 1 .. Len(c) : c[i] \in Vulns(g) OBVIOUS
<1>9. ChainNodes(g, c) BY DEF Chain
<1>10. Len(c) \in Nat /\ Len(c) >= 2 BY <1>9 DEF ChainNodes
<1>11. ChainNodes(h, c)
  <2>1. c \in Seq(Vulns(h)) BY <1>7
  <2>2. h.nodes[c[1]].flaw = "credential_leak" BY <1>3, <1>8, <1>9, <1>10 DEF ChainNodes
  <2>3. \A i \in 2 .. Len(c) - 1 : h.nodes[c[i]].flaw = "credential_gated_relay"
    BY <1>3, <1>8, <1>9, <1>10 DEF ChainNodes
  <2>4. h.nodes[c[Len(c)]].flaw = "credential_gated_flag" BY <1>3, <1>8, <1>9, <1>10 DEF ChainNodes
  <2>5. \A v \in Vulns(h) : h.nodes[v].flaw \in ChainFlaws => \E i \in 1 .. Len(c) : v = c[i]
    BY <1>3, <1>7, <1>9 DEF ChainNodes
  <2> QED BY <1>10, <2>1, <2>2, <2>3, <2>4, <2>5 DEF ChainNodes
<1>12. /\ \A v : Target(h, v) = Target(g, v) /\ HostOf(h, v) = HostOf(g, v)
       /\ Internals(h) = Internals(g) /\ FlagServices(h) = FlagServices(g)
       /\ \A kind : by_kind(h, kind) = by_kind(g, kind) /\ Links(h, kind) = Links(g, kind)
  BY <1>1 DEF SameRead
<1>13. ChainHosts(h, c)
  <2>1. ChainHosts(g, c) BY DEF Chain
  <2>2. h.nodes[Pivot].params.hosts = g.nodes[Pivot].params.hosts BY DEF Revalued
  <2> QED BY <1>12, <2>1, <2>2 DEF ChainHosts
<1>14. ChainNames(h, c)
  <2>1. ChainNames(g, c) BY DEF Chain
  <2>2. SUFFICES ASSUME NEW i \in 1 .. Len(c) - 1
                 PROVE  /\ h.nodes[c[i]].params.host = HostOf(h, c[i + 1])
                        /\ Emitted(h, c[i]) = h.nodes[c[i + 1]].params.credential
    BY DEF ChainNames
  <2>3. c[i] \in Vulns(g) /\ c[i + 1] \in Vulns(g)
    <3>1. i \in 1 .. Len(c) /\ i + 1 \in 1 .. Len(c) BY <1>10
    <3> QED BY <1>8, <3>1
  <2>4. g.nodes[c[i]].params.host = HostOf(g, c[i + 1]) /\ Emitted(g, c[i]) = g.nodes[c[i + 1]].params.credential
    BY <2>1 DEF ChainNames
  <2>5. h.nodes[c[i]].params.host = g.nodes[c[i]].params.host BY <2>3 DEF Revalued
  <2>6. Emitted(h, c[i]) = f[Emitted(g, c[i])] BY <1>3, <2>3 DEF Emitted, Renamed
  <2>7. h.nodes[c[i + 1]].params.credential = f[g.nodes[c[i + 1]].params.credential] BY <2>3 DEF Renamed
  <2> QED BY <1>12, <2>4, <2>5, <2>6, <2>7
<1>15. ChainCreds(h, c)
  <2>1. ChainCreds(g, c) BY DEF Chain
  <2>2. \A i \in 2 .. Len(c) : h.nodes[Target(h, c[i])].path = "vault"
    <3>1. TAKE i \in 2 .. Len(c)
    <3>2. c[i] \in Vulns(g) BY <1>8, <1>10
    <3> QED BY <1>6, <1>12, <2>1, <3>2 DEF ChainCreds
  <2>3. Cardinality(by_kind(h, "credential")) = Len(c) - 1 BY <1>12, <2>1 DEF ChainCreds
  <2>4. \A i \in 2 .. Len(c) : \E x \in by_kind(h, "credential") :
          Dsts(h, "requires_credential", Target(h, c[i])) = {x}
    BY <1>2, <1>12, <2>1, Zenon DEF ChainCreds
  <2>5. \A e, d \in Links(h, "requires_credential") : e.dst = d.dst => e.src = d.src BY <1>12, <2>1 DEF ChainCreds
  <2> QED BY <2>2, <2>3, <2>4, <2>5 DEF ChainCreds
<1>18. \A e \in Links(g, "enables") : e.src \in Vulns(g) /\ e.dst \in Vulns(g) BY EnablesEnds DEF Structured
<1>16. ChainLinks(h, c)
  <2>1. ChainLinks(g, c) BY DEF Chain
  <2> QED BY <1>3, <1>12, <1>18, <2>1 DEF ChainLinks
<1>17. VaultsAside(h)
  <2>1. VaultsAside(g) BY DEF Chain
  <2>2. ASSUME NEW e \in Links(h, "enables"), NEW v \in Vulns(h), v \in {e.src, e.dst},
               h.nodes[Target(h, v)].path = "vault"
        PROVE  h.nodes[v].flaw \in GateFlaws
    <3>1. e \in Links(g, "enables") /\ v \in Vulns(g) BY <1>7, <1>12
    <3>2. g.nodes[Target(g, v)].path = "vault" BY <1>6, <1>12, <2>2, <3>1
    <3>3. g.nodes[v].flaw \in GateFlaws BY <2>1, <2>2, <3>1, <3>2 DEF VaultsAside
    <3> QED BY <1>3, <3>1, <3>3
  <2> QED BY <2>2 DEF VaultsAside
<1> QED BY <1>11, <1>13, <1>14, <1>15, <1>16, <1>17 DEF Chain

LEMMA RevaluedCompany ==
    ASSUME NEW g, Structured(g), NEW h, Revalued(g, h), NEW f, Renamed(g, h, f), Company(g)
    PROVE  Company(h)
<1>1. SameRead(g, h) BY RevaluedIs
<1>2. /\ Vulns(h) = Vulns(g) /\ PublicEndpoints(h) = PublicEndpoints(g) /\ FlagServices(h) = FlagServices(g)
      /\ \A flaw : OfKind(h, flaw) = OfKind(g, flaw)
      /\ \A v : Target(h, v) = Target(g, v) /\ HostOf(h, v) = HostOf(g, v)
  BY <1>1 DEF SameRead
<1>3. Pivot \in Vulns(g) /\ Footed(g) BY DEF Company, Footed, OfKind
<1>4. Target(g, Pivot) \in by_kind(g, "endpoint") BY <1>3, TargetIs DEF Structured
<1>5. \A n \in DOMAIN g.nodes : NodeOK(n, g.nodes[n]) BY DEF Structured, Framed
<1>6. h.nodes[Target(g, Pivot)] = g.nodes[Target(g, Pivot)] BY <1>4, <1>5, KindSets DEF Revalued
<1>7. Footed(h) BY <1>2, <1>3, <1>6 DEF Footed
<1>8. CASE Pivoted(g)
  <2>1. \A v \in Vulns(h) : h.nodes[v].flaw \notin ChainFlaws BY <1>2, <1>8 DEF Pivoted, Revalued
  <2>2. h.nodes[Pivot].params.host = g.nodes[Pivot].params.host BY <1>3 DEF Revalued
  <2>3. Pivoted(h) BY <1>2, <1>8, <2>1, <2>2 DEF Pivoted
  <2> QED BY <1>7, <2>3 DEF Company
<1>9. CASE \E c \in Seq(Vulns(g)) : Chain(g, c)
  <2>1. PICK c \in Seq(Vulns(g)) : Chain(g, c) BY <1>9
  <2>2. Chain(h, c) BY <1>3, <2>1, RevaluedChain
  <2> QED BY <1>2, <1>7, <2>2 DEF Company
<1> QED BY <1>8, <1>9 DEF Company

LEMMA RevaluedServed ==
    ASSUME NEW g, Structured(g), NEW h, Revalued(g, h), NEW before
    PROVE  /\ Served(g, before) => Served(h, before)
           /\ FlatGates(g) => FlatGates(h)
           /\ Ordered(g, before) => Ordered(h, before)
           /\ Named(g) => Named(h)
<1>1. SameRead(g, h) BY RevaluedIs
<1>2. h.edges = g.edges /\ \A v \in Vulns(g) : h.nodes[v].flaw = g.nodes[v].flaw BY DEF Revalued
<1>3. Vulns(h) = Vulns(g) /\ Affects(h) = Affects(g) /\ \A v : Affecting(h, v) = Affecting(g, v)
  BY <1>1 DEF SameRead
<1>4. \A e : Leads(h, before, e) <=> Leads(g, before, e) BY <1>2, <1>3 DEF Leads
<1>5. Served(g, before) => Served(h, before) BY <1>2, <1>3, <1>4 DEF Served, Leading
<1> QED BY <1>2, <1>3, <1>5 DEF FlatGates, Ordered, Named

LEMMA SubstitutedVuln ==
    ASSUME NEW x \in VulnNodes, NEW f, f[x.params.credential] \in Values, f[x.params.next_credential] \in Values,
           NEW y, y = Substituted(x, f)
    PROVE  /\ y \in VulnNodes /\ y.flaw = x.flaw
           /\ y.params.host = x.params.host /\ y.params.hosts = x.params.hosts
           /\ y.params.credential = f[x.params.credential]
           /\ y.params.next_credential = f[x.params.next_credential]
<1>1. x \in [kind : {"vulnerability"}, flaw : Flaws, params : ParamSet] BY DEF VulnNodes
<1>2. x.kind = "vulnerability" /\ x.flaw \in Flaws /\ x.params \in ParamSet BY <1>1
<1>3. y = [x EXCEPT !.params.credential = f[@], !.params.next_credential = f[@]] BY <1>2 DEF Substituted
<1>4. PICK p : p = [x.params EXCEPT !.credential = f[x.params.credential],
                                    !.next_credential = f[x.params.next_credential]]
  OBVIOUS
<1>5. x.params \in [credential : Values, next_credential : Values, host : ServiceIds, hosts : SUBSET ServiceIds]
  BY <1>2 DEF ParamSet
<1>6. p \in [credential : Values, next_credential : Values, host : ServiceIds, hosts : SUBSET ServiceIds]
  BY <1>4, <1>5
<1>7. /\ p.credential = f[x.params.credential] /\ p.next_credential = f[x.params.next_credential]
      /\ p.host = x.params.host /\ p.hosts = x.params.hosts
  BY <1>4, <1>5
<1>8. y = [x EXCEPT !.params = p] BY <1>1, <1>3, <1>4, <1>5
<1>9. y.kind = x.kind /\ y.flaw = x.flaw /\ y.params = p /\ y \in [kind : {"vulnerability"}, flaw : Flaws, params : ParamSet]
  BY <1>1, <1>6, <1>8 DEF ParamSet
<1> QED BY <1>7, <1>9 DEF VulnNodes

LEMMA CarriedIs ==
    ASSUME NEW g, Structured(g)
    PROVE  /\ AllCarried(g) \subseteq Values
           /\ \A n \in DOMAIN g.nodes : g.nodes[n].kind \in {"record", "secret", "credential"} =>
                g.nodes[n].value \in AllCarried(g)
           /\ \A v \in Vulns(g) : /\ g.nodes[v].params.credential \in AllCarried(g)
                                  /\ g.nodes[v].params.next_credential \in AllCarried(g)
<1>1. \A n \in DOMAIN g.nodes : NodeOK(n, g.nodes[n]) BY DEF Structured, Framed
<1>2. ASSUME NEW n \in DOMAIN g.nodes PROVE Carried(g.nodes[n]) \subseteq Values
  <2>1. PICK x : x = g.nodes[n] OBVIOUS
  <2>2. NodeOK(n, x) BY <1>1, <2>1
  <2>3. CASE x \in HolderNodes("record") \/ x \in HolderNodes("secret") \/ x \in HolderNodes("credential")
    BY <2>1, <2>3 DEF HolderNodes, Carried
  <2>4. CASE x \in VulnNodes BY <2>1, <2>4 DEF VulnNodes, ParamSet, Carried
  <2>5. CASE x \in ServiceNodes \/ x \in EndpointNodes \/ x \in StoreNodes
    BY <2>1, <2>5 DEF ServiceNodes, EndpointNodes, StoreNodes, Carried
  <2> QED BY <2>2, <2>3, <2>4, <2>5 DEF NodeOK
<1>3. \A n \in DOMAIN g.nodes : Carried(g.nodes[n]) \subseteq AllCarried(g) BY DEF AllCarried
<1>4. AllCarried(g) \subseteq Values BY <1>2 DEF AllCarried
<1>5. ASSUME NEW n \in DOMAIN g.nodes, g.nodes[n].kind \in {"record", "secret", "credential"}
      PROVE  g.nodes[n].value \in AllCarried(g)
  <2>1. g.nodes[n].value \in Carried(g.nodes[n]) BY <1>5 DEF Carried
  <2> QED BY <1>3, <2>1
<1>6. ASSUME NEW v \in Vulns(g)
      PROVE  g.nodes[v].params.credential \in AllCarried(g) /\ g.nodes[v].params.next_credential \in AllCarried(g)
  <2>1. v \in DOMAIN g.nodes /\ g.nodes[v].kind = "vulnerability" BY DEF Vulns, by_kind
  <2>2. Carried(g.nodes[v]) = {g.nodes[v].params.credential, g.nodes[v].params.next_credential} BY <2>1 DEF Carried
  <2> QED BY <1>3, <2>1, <2>2
<1> QED BY <1>4, <1>5, <1>6

(* Every value is replaced alike, wherever it is.                                    *)
LEMMA SubstitutedIs ==
    ASSUME NEW g, Structured(g), NEW f, \A x \in AllCarried(g) : f[x] \in Values,
           NEW h, h = [g EXCEPT !.nodes = [n \in DOMAIN g.nodes |-> Substituted(g.nodes[n], f)]]
    PROVE  Revalued(g, h) /\ Renamed(g, h, f)
<1>1. DOMAIN g = {"nodes", "edges"} /\ \A n \in DOMAIN g.nodes : NodeOK(n, g.nodes[n]) BY DEF Structured, Framed
<1>2. PICK nodes : nodes = [n \in DOMAIN g.nodes |-> Substituted(g.nodes[n], f)] OBVIOUS
<1>3. h = [g EXCEPT !.nodes = nodes] BY <1>2
<1>4. DOMAIN h = {"nodes", "edges"} /\ h.edges = g.edges /\ h.nodes = nodes BY <1>1, <1>3
<1>5. DOMAIN h.nodes = DOMAIN g.nodes /\ \A n \in DOMAIN g.nodes : h.nodes[n] = Substituted(g.nodes[n], f)
  BY <1>2, <1>4
<1>6. \A n \in DOMAIN g.nodes : n \in VulnIds => n \in Vulns(g) /\ g.nodes[n] \in VulnNodes
  BY <1>1, KindSets, NodeKinds DEF Vulns, by_kind
<1>7. ASSUME NEW v \in Vulns(g)
      PROVE  /\ h.nodes[v] \in VulnNodes /\ h.nodes[v].flaw = g.nodes[v].flaw
             /\ h.nodes[v].params.host = g.nodes[v].params.host /\ h.nodes[v].params.hosts = g.nodes[v].params.hosts
             /\ h.nodes[v].params.credential = f[g.nodes[v].params.credential]
             /\ h.nodes[v].params.next_credential = f[g.nodes[v].params.next_credential]
  <2>1. v \in DOMAIN g.nodes /\ v \in VulnIds BY <1>1, KindSets
  <2>2. g.nodes[v] \in VulnNodes BY <1>6, <2>1
  <2>3. f[g.nodes[v].params.credential] \in Values /\ f[g.nodes[v].params.next_credential] \in Values BY CarriedIs
  <2>4. PICK x, y : x = g.nodes[v] /\ y = Substituted(x, f) OBVIOUS
  <2>5. h.nodes[v] = y BY <1>5, <2>1, <2>4
  <2> QED BY <2>2, <2>3, <2>4, <2>5, SubstitutedVuln
<1>8. ASSUME NEW n \in DOMAIN g.nodes, n \in ServiceIds \cup EndpointIds \cup StoreIds
      PROVE  h.nodes[n] = g.nodes[n]
  <2>1. g.nodes[n].kind \in {"service", "endpoint", "data_store"} BY <1>1, <1>8, NodeKinds
  <2> QED BY <1>5, <2>1, Zenon DEF Substituted
<1>9. ASSUME NEW n \in DOMAIN g.nodes, NEW kind \in {"record", "secret", "credential"},
             g.nodes[n] \in HolderNodes(kind)
      PROVE  h.nodes[n] \in HolderNodes(kind)
  <2>1. g.nodes[n].kind \in {"record", "secret", "credential"} BY <1>9 DEF HolderNodes
  <2>2. f[g.nodes[n].value] \in Values BY <2>1, CarriedIs
  <2>3. h.nodes[n] = [g.nodes[n] EXCEPT !.value = f[g.nodes[n].value]] BY <1>5, <2>1, Zenon DEF Substituted
  <2> QED BY <1>9, <2>2, <2>3 DEF HolderNodes
<1>10. ASSUME NEW n \in DOMAIN h.nodes PROVE NodeOK(n, h.nodes[n])
  <2>1. NodeOK(n, g.nodes[n]) /\ n \in DOMAIN g.nodes BY <1>1, <1>5
  <2>2. CASE n \in VulnIds BY <1>6, <1>7, <2>1, <2>2 DEF NodeOK
  <2>3. CASE n \in ServiceIds \cup EndpointIds \cup StoreIds
    <3>1. h.nodes[n] = g.nodes[n] BY <1>8, <2>1, <2>3
    <3> QED BY <2>1, <3>1
  <2>4. CASE n = record_id /\ g.nodes[n] \in HolderNodes("record")
    <3>1. h.nodes[n] \in HolderNodes("record") BY <1>9, <2>1, <2>4
    <3> QED BY <2>4, <3>1 DEF NodeOK
  <2>5. CASE n = flag_id /\ g.nodes[n] \in HolderNodes("secret")
    <3>1. h.nodes[n] \in HolderNodes("secret") BY <1>9, <2>1, <2>5
    <3> QED BY <2>5, <3>1 DEF NodeOK
  <2>6. CASE n \in CredIds /\ g.nodes[n] \in HolderNodes("credential")
    <3>1. h.nodes[n] \in HolderNodes("credential") BY <1>9, <2>1, <2>6
    <3> QED BY <2>6, <3>1 DEF NodeOK
  <2> QED BY <2>1, <2>2, <2>3, <2>4, <2>5, <2>6 DEF NodeOK
<1>11. Revalued(g, h) BY <1>4, <1>5, <1>7, <1>8, <1>10 DEF Revalued
<1> QED BY <1>7, <1>11 DEF Renamed


LEMMA ReseedIs ==
    ASSUME NEW g, Structured(g), NEW generation \in Nat, NEW h, h = reseed_chain(g, generation)
    PROVE  Revalued(g, h) /\ \E f : Renamed(g, h, f)
<1> DEFINE cred(t) == CHOOSE n \in by_kind(g, "credential") : g.nodes[n].value = t
<1>1. PICK f : f = [x \in AllCarried(g) |->
                      IF x = g.nodes[flag_id].value THEN <<"flag", generation, 0>>
                      ELSE IF x \in Tokens(g) THEN <<"fresh", cred(x)[2], generation>> ELSE x]
  OBVIOUS
<1>2. h = [g EXCEPT !.nodes = [n \in DOMAIN g.nodes |-> Substituted(g.nodes[n], f)]]
  BY <1>1 DEF reseed_chain
<1>3. ASSUME NEW x \in Tokens(g) PROVE cred(x)[2] \in Nat
  <2>1. \E n \in by_kind(g, "credential") : g.nodes[n].value = x BY DEF Tokens
  <2>2. cred(x) \in by_kind(g, "credential") BY <2>1
  <2>3. cred(x) \in CredIds BY <2>2, KindSets DEF Structured, Framed
  <2> QED BY <2>3 DEF CredIds
<1>4. AllCarried(g) \subseteq Values BY CarriedIs
<1>5. ASSUME NEW x \in AllCarried(g) PROVE f[x] \in Values
  <2>1. f[x] = IF x = g.nodes[flag_id].value THEN <<"flag", generation, 0>>
               ELSE IF x \in Tokens(g) THEN <<"fresh", cred(x)[2], generation>> ELSE x
    BY <1>1
  <2> HIDE DEF cred
  <2>2. CASE f[x] = <<"flag", generation, 0>> BY <2>2 DEF Values
  <2>3. CASE f[x] = <<"fresh", cred(x)[2], generation>> /\ x \in Tokens(g)
    <3>1. cred(x)[2] \in Nat BY <1>3, <2>3
    <3> QED BY <2>3, <3>1 DEF Values
  <2>4. CASE f[x] = x BY <1>4, <2>4
  <2> QED BY <2>1, <2>2, <2>3, <2>4
<1> QED BY <1>2, <1>5, SubstitutedIs

LEMMA ReplantIs ==
    ASSUME NEW g, Structured(g), NEW generation \in Nat, NEW h, h = replant_flag(g, generation)
    PROVE  Revalued(g, h) /\ \E f : Renamed(g, h, f)
<1> DEFINE planted(n) == g.nodes[n].kind \in {"secret", "record"} /\ g.nodes[n].value = g.nodes[flag_id].value
<1>1. DOMAIN g = {"nodes", "edges"} /\ \A n \in DOMAIN g.nodes : NodeOK(n, g.nodes[n]) BY DEF Structured, Framed
<1>2. PICK value : value = <<"flag", generation, 0>> OBVIOUS
<1>3. value \in Values BY <1>2 DEF Values
<1>4. PICK nodes : nodes = [n \in DOMAIN g.nodes |->
                              IF planted(n) THEN [g.nodes[n] EXCEPT !.value = value] ELSE g.nodes[n]]
  OBVIOUS
<1>5. h = [g EXCEPT !.nodes = nodes] BY <1>2, <1>4 DEF replant_flag
<1>6. DOMAIN h = {"nodes", "edges"} /\ h.edges = g.edges /\ h.nodes = nodes BY <1>1, <1>5
<1>7. /\ DOMAIN h.nodes = DOMAIN g.nodes
      /\ \A n \in DOMAIN g.nodes : g.nodes[n].kind \notin {"secret", "record"} => h.nodes[n] = g.nodes[n]
      /\ \A n \in DOMAIN g.nodes : h.nodes[n] = g.nodes[n] \/ h.nodes[n] = [g.nodes[n] EXCEPT !.value = value]
  BY <1>4, <1>6
<1>8. \A n \in DOMAIN g.nodes : n \in ServiceIds \cup EndpointIds \cup StoreIds \cup VulnIds \cup CredIds =>
        g.nodes[n].kind \notin {"secret", "record"}
  BY <1>1, NodeKinds
<1>9. \A n \in DOMAIN g.nodes : n \in ServiceIds \cup EndpointIds \cup StoreIds \cup VulnIds \cup CredIds =>
        h.nodes[n] = g.nodes[n]
  BY <1>7, <1>8
<1>10. ASSUME NEW n \in DOMAIN h.nodes PROVE NodeOK(n, h.nodes[n])
  <2>1. NodeOK(n, g.nodes[n]) /\ n \in DOMAIN g.nodes BY <1>1, <1>7
  <2>2. CASE h.nodes[n] = g.nodes[n] BY <2>1, <2>2
  <2>3. CASE n = record_id /\ g.nodes[n] \in HolderNodes("record")
    <3>1. [g.nodes[n] EXCEPT !.value = value] \in HolderNodes("record") BY <1>3, <2>3 DEF HolderNodes
    <3> QED BY <1>7, <2>1, <2>3, <3>1 DEF NodeOK
  <2>4. CASE n = flag_id /\ g.nodes[n] \in HolderNodes("secret")
    <3>1. [g.nodes[n] EXCEPT !.value = value] \in HolderNodes("secret") BY <1>3, <2>4 DEF HolderNodes
    <3> QED BY <1>7, <2>1, <2>4, <3>1 DEF NodeOK
  <2> QED BY <1>9, <2>1, <2>2, <2>3, <2>4 DEF NodeOK
<1>11. \A v \in Vulns(g) : h.nodes[v] = g.nodes[v]
  <2>1. Vulns(g) = DOMAIN g.nodes \cap VulnIds BY <1>1, KindSets
  <2> QED BY <1>9, <2>1
<1>12. Revalued(g, h) BY <1>6, <1>7, <1>9, <1>10, <1>11 DEF Revalued
<1>13. Renamed(g, h, [x \in AllCarried(g) |-> x]) BY <1>11, CarriedIs DEF Renamed
<1> QED BY <1>12, <1>13

LEMMA RevaluedKeeps ==
    ASSUME WorldInv, stage = "world", Revalued(graph, graph'), \E f : Renamed(graph, graph', f),
           between < MaxBetween, between' = between + 1, UNCHANGED <<prior, stage, draws, evolved, order, loaded>>
    PROVE  WorldInv'
<1>1. /\ Structured(graph) /\ Named(graph) /\ Ordered(graph, order) /\ Vulns(graph) # {} /\ prior \in Priors
      /\ prior.company => Company(graph) /\ (loaded \/ Served(graph, order))
      /\ ~prior.company => FlatGates(graph)
  BY DEF WorldInv
<1>2. Structured(graph') /\ SameRead(graph, graph') BY <1>1, RevaluedIs
<1>3. Vulns(graph') # {} BY <1>1, <1>2 DEF SameRead
<1>4. prior.company => Company(graph') BY <1>1, RevaluedCompany
<1>5. /\ Served(graph, order) => Served(graph', order)
      /\ FlatGates(graph) => FlatGates(graph')
      /\ Ordered(graph', order) /\ Named(graph')
  BY <1>1, RevaluedServed
<1>6. between' \in 0 .. MaxBetween BY BoundAssumption DEF WorldInv
<1> QED BY <1>1, <1>2, <1>3, <1>4, <1>5, <1>6 DEF WorldInv

LEMMA ReseedKeeps == WorldInv /\ Reseed => WorldInv'
<1> SUFFICES ASSUME WorldInv, Reseed PROVE WorldInv' OBVIOUS
<1>1. Structured(graph) /\ between + 1 \in Nat BY BoundAssumption DEF WorldInv, Reseed
<1>2. Revalued(graph, graph') /\ \E f : Renamed(graph, graph', f) BY <1>1, ReseedIs DEF Reseed
<1> QED BY <1>2, RevaluedKeeps DEF Reseed

LEMMA ReplantKeeps == WorldInv /\ Replant => WorldInv'
<1> SUFFICES ASSUME WorldInv, Replant PROVE WorldInv' OBVIOUS
<1>1. Structured(graph) /\ between + 1 \in Nat BY BoundAssumption DEF WorldInv, Replant
<1>2. Revalued(graph, graph') /\ \E f : Renamed(graph, graph', f) BY <1>1, ReplantIs DEF Replant
<1> QED BY <1>2, RevaluedKeeps DEF Replant

(* The order of the ids is strict on the edges of vulnerabilities.                   *)
LEMMA ReloadKeeps == WorldInv /\ Reload => WorldInv'
<1> SUFFICES ASSUME WorldInv, Reload PROVE WorldInv' OBVIOUS
<1>1. /\ stage = "world" /\ loaded' = TRUE /\ between' = between + 1 /\ between < MaxBetween
      /\ order' = {p \in Affects(graph) \X Affects(graph) : ById(p[1], p[2])}
      /\ UNCHANGED <<graph, prior, stage, draws, evolved>>
  BY DEF Reload
<1>2. Structured(graph) /\ Named(graph) BY <1>1 DEF WorldInv
<1>3. ASSUME NEW e \in Affects(graph) PROVE KindRank[e[3][2]] \in Nat /\ e[3][3] \in Nat
  <2>1. e[3] = graph.edges[e].src BY <1>2 DEF Named
  <2>2. graph.edges[e].src \in Vulns(graph)
    BY <1>2 DEF Structured, Framed, EdgeOK, SrcKind, Affects, Vulns, by_kind
  <2>3. e[3] \in VulnIds BY <1>2, <2>1, <2>2, KindSets DEF Structured, Framed
  <2> QED BY <2>3 DEF VulnIds, KindRank, Flaws, CATALOG
<1>4. ASSUME NEW d \in Affects(graph), NEW e \in Affects(graph), ById(d, e), ById(e, d) PROVE FALSE
  <2> DEFINE rank(x) == (IF x[1] = "sampled" THEN 0 ELSE 10000) + 100 * KindRank[x[3][2]] + x[3][3]
  <2>1. rank(d) \in Int /\ rank(e) \in Int BY <1>3
  <2>2. rank(d) < rank(e) /\ rank(e) < rank(d) BY <1>4 DEF ById
  <2> HIDE DEF rank
  <2> QED BY <2>1, <2>2
<1>5. Ordered(graph', order') BY <1>1, <1>4 DEF Ordered
<1>6. between' \in 0 .. MaxBetween BY <1>1, BoundAssumption DEF WorldInv
<1> QED BY <1>1, <1>5, <1>6 DEF WorldInv

LEMMA InvariantKept == WorldInv /\ [Next]_vars => WorldInv'
<1> SUFFICES ASSUME WorldInv, [Next]_vars PROVE WorldInv' OBVIOUS
<1>1. CASE SampleServices BY <1>1, SampleKeeps
<1>2. CASE PlaceOracle BY <1>2, OracleKeeps
<1>3. CASE PlaceVuln BY <1>3, PlaceKeeps
<1>4. CASE Compose BY <1>4, ComposeKeeps
<1>5. CASE Admission BY <1>5, AdmissionKeeps
<1>6. CASE Evolve BY <1>6, EvolveKeeps
<1>7. CASE Reseed BY <1>7, ReseedKeeps
<1>8. CASE Replant BY <1>8, ReplantKeeps
<1>9. CASE Reload BY <1>9, ReloadKeeps
<1>10. CASE UNCHANGED vars BY <1>10 DEF vars, WorldInv
<1> QED BY <1>1, <1>2, <1>3, <1>4, <1>5, <1>6, <1>7, <1>8, <1>9, <1>10 DEF Next


-----------------------------------------------------------------------------
(* What a reader of the graph takes for granted.                                       *)

LEMMA EdgesFit ==
    ASSUME NEW kind \in DOMAIN SrcKind
    PROVE  <<SrcKind[kind], DstKind[kind]>> \in EdgeEndpoints[kind]
BY DEF SrcKind, DstKind, EdgeEndpoints

LEMMA TypesHold ==
    ASSUME NEW g, Structured(g)
    PROVE  /\ WellTyped(g)
           /\ \A v \in Vulns(g) : Cardinality(Dsts(g, "affects", v)) = 1
           /\ \A e \in by_kind(g, "endpoint") : Cardinality(Srcs(g, "exposes", e)) = 1
<1>1. Framed(g) BY DEF Structured
<1>2. WellTyped(g)
  <2>1. SUFFICES ASSUME NEW x \in DOMAIN g.edges
                 PROVE  /\ {g.edges[x].src, g.edges[x].dst} \subseteq DOMAIN g.nodes
                        /\ <<g.nodes[g.edges[x].src].kind, g.nodes[g.edges[x].dst].kind>> \in EdgeEndpoints[g.edges[x].kind]
    BY DEF WellTyped, Range
  <2>2. PICK e : e = g.edges[x] OBVIOUS
  <2>3. EdgeOK(g, e) BY <1>1, <2>2 DEF Framed
  <2>4. /\ e.kind \in DOMAIN SrcKind /\ e.src \in DOMAIN g.nodes /\ e.dst \in DOMAIN g.nodes
        /\ g.nodes[e.src].kind = SrcKind[e.kind] /\ g.nodes[e.dst].kind = DstKind[e.kind]
    BY <2>3 DEF EdgeOK
  <2>5. <<SrcKind[e.kind], DstKind[e.kind]>> \in EdgeEndpoints[e.kind] BY <2>4, EdgesFit
  <2> QED BY <2>2, <2>4, <2>5
<1>3. \A x : Cardinality({x}) = 1 BY FS_Singleton
<1>4. \A v \in Vulns(g) : Dsts(g, "affects", v) = {Target(g, v)} BY <1>1, TargetIs
<1>5. \A e \in by_kind(g, "endpoint") : Srcs(g, "exposes", e) = {Svc(e[2])} BY <1>1, ExposedBy
<1> QED BY <1>2, <1>3, <1>4, <1>5

LEMMA InvariantTypes == WorldInv => TypeOK
<1> SUFFICES ASSUME WorldInv PROVE TypeOK OBVIOUS
<1>1. /\ WellTyped(graph)
      /\ \A v \in Vulns(graph) : Cardinality(Dsts(graph, "affects", v)) = 1
      /\ \A e \in by_kind(graph, "endpoint") : Cardinality(Srcs(graph, "exposes", e)) = 1
      /\ order \subseteq Affects(graph) \X Affects(graph)
      /\ \A p \in order : <<p[2], p[1]>> \notin order
  <2>1. CASE stage = "services"
    <3>1. graph = NoGraph /\ order = {} BY <2>1 DEF WorldInv
    <3>2. DOMAIN graph.nodes = {} /\ DOMAIN graph.edges = {} BY <3>1 DEF NoGraph
    <3>3. Vulns(graph) = {} /\ by_kind(graph, "endpoint") = {} BY <3>2 DEF Vulns, by_kind
    <3> QED BY <3>1, <3>2, <3>3 DEF WellTyped, Range
  <2>2. CASE stage # "services"
    <3>1. Structured(graph) /\ Ordered(graph, order) BY <2>2 DEF WorldInv
    <3> QED BY <3>1, TypesHold DEF Ordered
  <2> QED BY <2>1, <2>2
<1> QED BY <1>1 DEF WorldInv, TypeOK

(* TypeOK: whatever is drawn, mutated, reseeded or read back, no edge of the graph dangles *)
(* or joins kinds that do not fit, every vulnerability affects one endpoint and every       *)
(* endpoint is exposed by one service, as the readers of a graph take for granted.          *)
THEOREM WorldTypes == Spec => []TypeOK
<1>1. WorldInv /\ [Next]_vars => WorldInv' BY InvariantKept
<1> QED BY <1>1, InitOK, InvariantTypes, PTL DEF Spec

-----------------------------------------------------------------------------
(* The walk of a solver along a chain.                                             *)

LEMMA LeastNat ==
    ASSUME NEW S, S \subseteq Nat, S # {}
    PROVE  \E m \in S : \A n \in S : m <= n
<1> DEFINE rank == [n \in S |-> n]
<1>1. rank \in [S -> Nat] OBVIOUS
<1>2. PICK x \in S : \A y \in S : rank[x] <= rank[y]
  <2> HIDE DEF rank
  <2> QED BY <1>1, SomeLeastRank
<1> QED BY <1>2

(* The pivot's hosts are asked one by one, after the one the leak names.               *)
WalkOn(g, proxied, before, n) ==
    LET last == before[n]
        next == Answer(g, proxied, g.nodes[last].params.host, Emitted(g, last))
    IN IF Len(before) < n \/ g.nodes[last].flaw = "credential_gated_flag" \/ next = {} THEN before
       ELSE Append(before, CHOOSE v \in next : TRUE)

WalkStep(g, leak, proxied, f, n) ==
    IF n = 0 THEN IF HostOf(g, leak) \in proxied THEN <<leak>> ELSE <<>>
    ELSE WalkOn(g, proxied, f[n - 1], n)

Walked(g, leak, proxied, K, f) == f = [n \in 0 .. K |-> WalkStep(g, leak, proxied, f, n)]
TheWalk(g, leak, proxied, K) == CHOOSE f : Walked(g, leak, proxied, K, f)

LEMMA WalkUnique ==
    ASSUME NEW g, NEW leak, NEW proxied, NEW K \in Nat,
           NEW f, Walked(g, leak, proxied, K, f), NEW h, Walked(g, leak, proxied, K, h)
    PROVE  f = h
<1>1. \A n \in 0 .. K : /\ f[n] = WalkStep(g, leak, proxied, f, n)
                        /\ h[n] = WalkStep(g, leak, proxied, h, n)
  BY DEF Walked
<1>2. SUFFICES ASSUME \E n \in 0 .. K : f[n] # h[n] PROVE FALSE
  <2>1. \A n \in 0 .. K : f[n] = h[n] BY <1>2
  <2>2. PICK F, H : F = [n \in 0 .. K |-> WalkStep(g, leak, proxied, f, n)]
                    /\ H = [n \in 0 .. K |-> WalkStep(g, leak, proxied, h, n)]
    OBVIOUS
  <2>3. DOMAIN F = 0 .. K /\ DOMAIN H = 0 .. K /\ F = f /\ H = h BY <2>2 DEF Walked
  <2>4. F = [n \in 0 .. K |-> F[n]] /\ H = [n \in 0 .. K |-> H[n]] BY <2>2
  <2> QED BY <2>1, <2>3, <2>4
<1> DEFINE S == {n \in 0 .. K : f[n] # h[n]}
<1>3. S \subseteq Nat /\ S # {} BY <1>2
<1>4. PICK m \in S : \A n \in S : m <= n
  <2> HIDE DEF S
  <2> QED BY <1>3, LeastNat
<1>5. CASE m = 0 BY <1>1, <1>4, <1>5 DEF WalkStep
<1>6. CASE m # 0
  <2>1. m \in 0 .. K /\ m - 1 \in 0 .. K /\ ~(m <= m - 1) BY <1>4, <1>6
  <2>2. f[m - 1] = h[m - 1] BY <1>4, <2>1
  <2>3. WalkStep(g, leak, proxied, f, m) = WalkStep(g, leak, proxied, h, m) BY <1>6, <2>2 DEF WalkStep
  <2> QED BY <1>1, <1>4, <2>1, <2>3
<1> QED BY <1>5, <1>6

LEMMA WalkIs ==
    ASSUME NEW g, NEW K \in Nat, K = Cardinality(Vulns(g)),
           NEW leak, leak = First(OfKind(g, "credential_leak")),
           NEW proxied, proxied = g.nodes[First(OfKind(g, "ssrf"))].params.hosts,
           NEW f, Walked(g, leak, proxied, K, f)
    PROVE  _walk_credential_chain(g) = f[K]
<1>1. PICK h : h = TheWalk(g, leak, proxied, K) OBVIOUS
<1>2. Walked(g, leak, proxied, K, h) BY <1>1 DEF TheWalk
<1>3. h = f BY <1>2, WalkUnique
<1>4. _walk_credential_chain(g)
      = TheWalk(g, First(OfKind(g, "credential_leak")), g.nodes[First(OfKind(g, "ssrf"))].params.hosts,
                Cardinality(Vulns(g)))[Cardinality(Vulns(g))]
  BY Zenon DEF _walk_credential_chain, TheWalk, Walked, WalkStep, WalkOn
<1> QED BY <1>1, <1>3, <1>4


LEMMA LeakIs ==
    ASSUME NEW g, Structured(g), NEW c \in Seq(Vulns(g)), ChainNodes(g, c)
    PROVE  OfKind(g, "credential_leak") = {c[1]} /\ First(OfKind(g, "credential_leak")) = c[1]
<1>1. Len(c) \in Nat /\ Len(c) >= 2 BY DEF ChainNodes
<1>2. \A i \in 1 .. Len(c) : c[i] \in Vulns(g) OBVIOUS
<1>3. c[1] \in OfKind(g, "credential_leak") BY <1>1, <1>2 DEF ChainNodes, OfKind
<1>4. ASSUME NEW v \in OfKind(g, "credential_leak") PROVE v = c[1]
  <2>1. v \in Vulns(g) /\ g.nodes[v].flaw = "credential_leak" BY DEF OfKind
  <2>2. PICK i \in 1 .. Len(c) : v = c[i] BY <2>1 DEF ChainNodes, ChainFlaws
  <2>3. i \notin 2 .. Len(c) - 1 BY <2>1, <2>2 DEF ChainNodes
  <2>4. i # Len(c) BY <2>1, <2>2 DEF ChainNodes
  <2>5. i = 1 BY <1>1, <2>3, <2>4
  <2> QED BY <2>2, <2>5
<1>5. OfKind(g, "credential_leak") \subseteq VulnIds BY KindSets DEF OfKind, Structured, Framed
<1>6. First(OfKind(g, "credential_leak")) \in OfKind(g, "credential_leak") BY <1>3, <1>5, FirstIsIn
<1> QED BY <1>3, <1>4, <1>6

LEMMA AnswerIs ==
    ASSUME NEW g, Structured(g), NEW c \in Seq(Vulns(g)), Chain(g, c), NEW n \in 1 .. Len(c) - 1
    PROVE  Answer(g, Internals(g), g.nodes[c[n]].params.host, Emitted(g, c[n])) = {c[n + 1]}
<1>1. ChainNodes(g, c) /\ ChainHosts(g, c) /\ ChainNames(g, c) /\ ChainCreds(g, c) BY DEF Chain
<1>2. Len(c) \in Nat /\ Len(c) >= 2 BY <1>1 DEF ChainNodes
<1>3. n \in 1 .. Len(c) /\ n + 1 \in 1 .. Len(c) /\ n + 1 \in 2 .. Len(c) /\ n + 1 # 1 BY <1>2
<1>4. c[n + 1] \in Vulns(g) BY <1>3
<1>5. g.nodes[c[n]].params.host = HostOf(g, c[n + 1]) /\ Emitted(g, c[n]) = g.nodes[c[n + 1]].params.credential
  BY <1>1 DEF ChainNames
<1>6. HostOf(g, c[n + 1]) \in Internals(g) BY <1>1, <1>3 DEF ChainHosts
<1>7. g.nodes[c[n + 1]].flaw \in {"credential_gated_relay", "credential_gated_flag"}
  <2>1. CASE n + 1 = Len(c) BY <1>1, <2>1 DEF ChainNodes
  <2>2. CASE n + 1 # Len(c)
    <3>1. n + 1 \in 2 .. Len(c) - 1 BY <1>2, <2>2
    <3> QED BY <1>1, <3>1 DEF ChainNodes
  <2> QED BY <2>1, <2>2
<1>8. g.nodes[Target(g, c[n + 1])].path = "vault" BY <1>1, <1>3 DEF ChainCreds
<1>9. ASSUME NEW v \in Vulns(g), g.nodes[v].flaw \in {"credential_gated_relay", "credential_gated_flag"},
             HostOf(g, v) = HostOf(g, c[n + 1])
      PROVE  v = c[n + 1]
  <2>1. PICK i \in 1 .. Len(c) : v = c[i] BY <1>1, <1>9 DEF ChainNodes, ChainFlaws, GateFlaws
  <2>2. i = n + 1 BY <1>1, <1>3, <1>9, <2>1 DEF ChainHosts
  <2> QED BY <2>1, <2>2
<1> QED BY <1>4, <1>5, <1>6, <1>7, <1>8, <1>9 DEF Answer

LEMMA ChainCount ==
    ASSUME NEW g, Structured(g), NEW c \in Seq(Vulns(g)), ChainHosts(g, c)
    PROVE  /\ Cardinality(Vulns(g)) \in Nat /\ Len(c) <= Cardinality(Vulns(g))
           /\ Cardinality({HostOf(g, c[i]) : i \in 1 .. Len(c)}) = Len(c)
<1>1. PICK n : n = Len(c) OBVIOUS
<1>2. n \in Nat /\ DOMAIN c = 1 .. n BY <1>1
<1>3. \A i, j \in 1 .. n : HostOf(g, c[i]) = HostOf(g, c[j]) => i = j BY <1>1 DEF ChainHosts
<1>4. PICK T : T = {c[j] : j \in 1 .. n} OBVIOUS
<1>5. \A i, j \in 1 .. n : c[i] = c[j] => i = j BY <1>3
<1>6. Cardinality(T) = n BY <1>2, <1>4, <1>5, Enumerated
<1>7. Vulns(g) \in SUBSET DOMAIN g.nodes BY DEF Vulns, by_kind
<1>8. IsFiniteSet(Vulns(g)) BY <1>7, FS_Subset DEF Structured, Framed
<1>9. T \in SUBSET Vulns(g) BY <1>1, <1>2, <1>4
<1>10. Cardinality(T) <= Cardinality(Vulns(g)) BY <1>8, <1>9, FS_Subset
<1>11. PICK k : k = [j \in 1 .. n |-> HostOf(g, c[j])] OBVIOUS
<1>12. DOMAIN k = 1 .. n /\ \A j \in 1 .. n : k[j] = HostOf(g, c[j]) BY <1>11
<1>13. PICK H : H = {k[j] : j \in 1 .. n} OBVIOUS
<1>14. Cardinality(H) = n
  <2>1. \A i, j \in 1 .. n : k[i] = k[j] => i = j BY <1>3, <1>12
  <2> QED BY <1>2, <1>12, <1>13, <2>1, Enumerated
<1>15. H = {HostOf(g, c[i]) : i \in 1 .. Len(c)} BY <1>1, <1>12, <1>13
<1> QED BY <1>1, <1>2, <1>6, <1>8, <1>10, <1>14, <1>15, FS_CardinalityType

(* The solver passes the gates of the chain one by one, and stops at the flag.          *)
LEMMA ChainWalked ==
    ASSUME NEW g, Structured(g), Footed(g), NEW c \in Seq(Vulns(g)), Chain(g, c)
    PROVE  _walk_credential_chain(g) = c
<1>1. ChainNodes(g, c) /\ ChainHosts(g, c) BY DEF Chain
<1>2. PICK K : K = Cardinality(Vulns(g)) OBVIOUS
<1>3. PICK n : n = Len(c) OBVIOUS
<1>4. K \in Nat /\ n \in Nat /\ n >= 2 /\ n <= K
  <2>1. n \in Nat /\ n >= 2 BY <1>1, <1>3 DEF ChainNodes
  <2>2. K \in Nat /\ n <= K BY <1>1, <1>2, <1>3, ChainCount
  <2> QED BY <2>1, <2>2
<1>5. \A i \in 1 .. n : c[i] \in Vulns(g) BY <1>3
<1>6. First(OfKind(g, "credential_leak")) = c[1] BY <1>1, LeakIs
<1>7. First(OfKind(g, "ssrf")) = Pivot BY PivotIs DEF Structured, Framed, Footed
<1>8. g.nodes[First(OfKind(g, "ssrf"))].params.hosts = Internals(g) BY <1>1, <1>7 DEF ChainHosts
<1>9. HostOf(g, c[1]) \in Internals(g) BY <1>1, <1>3, <1>4 DEF ChainHosts
<1> DEFINE so(i) == IF i < n THEN SubSeq(c, 1, i + 1) ELSE c
<1>10. PICK f : f = [i \in 0 .. K |-> so(i)] OBVIOUS
<1>11. ASSUME NEW i \in 1 .. K PROVE WalkOn(g, Internals(g), so(i - 1), i) = so(i)
  <2>1. CASE i > n
    <3>1. so(i - 1) = c /\ so(i) = c /\ Len(c) < i BY <1>3, <1>4, <2>1
    <3> HIDE DEF so
    <3> QED BY <3>1 DEF WalkOn
  <2>2. CASE i = n
    <3>1. i - 1 < n /\ (i - 1) + 1 = n BY <1>4, <2>2
    <3>2. so(i - 1) = SubSeq(c, 1, n) /\ so(i) = c BY <2>2, <3>1
    <3>3. SubSeq(c, 1, n) = c BY <1>3, <1>4
    <3>4. g.nodes[c[n]].flaw = "credential_gated_flag" BY <1>1, <1>3 DEF ChainNodes
    <3>5. so(i - 1) = c /\ so(i) = c BY <3>2, <3>3
    <3> HIDE DEF so
    <3> QED BY <2>2, <3>4, <3>5 DEF WalkOn
  <2>3. CASE i < n
    <3>1. i - 1 < n /\ (i - 1) + 1 = i /\ i \in 1 .. n BY <1>4, <2>3
    <3>2. PICK b : b = SubSeq(c, 1, i) OBVIOUS
    <3>3. so(i - 1) = b BY <3>1, <3>2
    <3>4. so(i) = SubSeq(c, 1, i + 1) BY <2>3
    <3>5. Len(b) = i /\ b[i] = c[i]
      <4>1. b \in Seq(Vulns(g)) /\ Len(b) = i /\ \A j \in 1 .. i : b[j] = c[j] BY <1>3, <1>4, <3>1, <3>2
      <4> QED BY <3>1, <4>1
    <3>6. g.nodes[c[i]].flaw # "credential_gated_flag"
      <4>1. CASE i = 1 BY <1>1, <4>1 DEF ChainNodes
      <4>2. CASE i # 1
        <5>1. i \in 2 .. Len(c) - 1 BY <1>3, <1>4, <2>3, <4>2
        <5> QED BY <1>1, <5>1 DEF ChainNodes
      <4> QED BY <4>1, <4>2
    <3>7. i \in 1 .. Len(c) - 1 BY <1>3, <1>4, <2>3
    <3>8. Answer(g, Internals(g), g.nodes[c[i]].params.host, Emitted(g, c[i])) = {c[i + 1]} BY <3>7, AnswerIs
    <3>9. (CHOOSE v \in {c[i + 1]} : TRUE) = c[i + 1] OBVIOUS
    <3>10. WalkOn(g, Internals(g), b, i) = Append(b, c[i + 1])
      <4>1. ~(Len(b) < i) BY <1>4, <3>5
      <4> QED BY <3>5, <3>6, <3>8, <3>9, <4>1 DEF WalkOn
    <3>11. Append(SubSeq(c, 1, i), c[i + 1]) = SubSeq(c, 1, i + 1)
      <4>1. i + 1 \in 1 .. Len(c) BY <1>3, <1>4, <2>3
      <4> QED BY <3>7, <4>1
    <3> HIDE DEF so
    <3> QED BY <3>2, <3>3, <3>4, <3>10, <3>11
  <2> QED BY <1>4, <2>1, <2>2, <2>3
<1>12. WalkStep(g, c[1], Internals(g), f, 0) = so(0)
  <2>1. so(0) = SubSeq(c, 1, 1) BY <1>4
  <2>2. SubSeq(c, 1, 1) = <<c[1]>>
    <3>1. PICK s : s = SubSeq(c, 1, 1) OBVIOUS
    <3>2. s \in Seq(Vulns(g)) /\ Len(s) = 1 /\ s[1] = c[1] BY <1>3, <1>4, <3>1
    <3>3. s = <<s[1]>> BY <3>2
    <3> QED BY <3>1, <3>2, <3>3
  <2> HIDE DEF so
  <2> QED BY <1>9, <2>1, <2>2 DEF WalkStep
<1> HIDE DEF so
<1>13. ASSUME NEW i \in 0 .. K PROVE WalkStep(g, c[1], Internals(g), f, i) = so(i)
  <2>1. CASE i = 0 BY <1>12, <2>1
  <2>2. CASE i # 0
    <3>1. i \in 1 .. K /\ i - 1 \in 0 .. K BY <1>4, <2>2
    <3>2. f[i - 1] = so(i - 1) BY <1>10, <3>1
    <3> QED BY <1>11, <2>2, <3>1, <3>2 DEF WalkStep
  <2> QED BY <2>1, <2>2
<1>14. Walked(g, c[1], Internals(g), K, f) BY <1>10, <1>13 DEF Walked
<1>15. _walk_credential_chain(g) = f[K] BY <1>2, <1>4, <1>6, <1>8, <1>14, WalkIs
<1>16. so(K) = c BY <1>4 DEF so
<1> QED BY <1>4, <1>10, <1>15, <1>16


LEMMA ServesIs ==
    ASSUME NEW g, Structured(g), NEW before, Served(g, before), NEW v \in Vulns(g),
           v = Pivot \/ g.nodes[v].flaw \in PathFlaws
    PROVE  Serves(g, before, v)
<1>1. PICK e \in Affects(g) : Affecting(g, v) = {e} /\ g.edges[e].src = v BY TargetIs DEF Structured
<1>2. CASE v = Pivot BY <1>1, <1>2 DEF Served, Leading, Serves
<1>3. CASE g.nodes[v].flaw \in PathFlaws
  <2>1. Leads(g, before, e) BY <1>1, <1>3 DEF Served
  <2> QED BY <1>1, <2>1 DEF Leads, Serves
<1> QED BY <1>2, <1>3

(* A preset's world whose edges come in the order they were drawn is solved.           *)
LEMMA CompanySolved ==
    ASSUME NEW g, Structured(g), Company(g), NEW before, Served(g, before)
    PROVE  Solved(g, before)
<1>1. Footed(g) /\ Pivot \in OfKind(g, "ssrf") /\ Pivot \in Vulns(g) BY DEF Company, Footed, OfKind
<1>2. First(OfKind(g, "ssrf")) = Pivot BY <1>1, PivotIs DEF Structured, Framed, Footed
<1>3. Footing(g, before)
  <2>1. Serves(g, before, Pivot) BY <1>1, ServesIs
  <2> QED BY <1>1, <1>2, <2>1 DEF Footing, Footed, _entry_ssrf
<1>4. CASE Pivoted(g)
  <2>1. ~IsChain(g) BY <1>4 DEF Pivoted, IsChain, OfKind, ChainFlaws
  <2>2. \A v \in OfKind(g, "metadata_credential_leak") : Serves(g, before, v)
    BY ServesIs DEF OfKind, PathFlaws
  <2>3. Pivots(g, before) BY <1>2, <1>4, <2>2 DEF Pivoted, Pivots
  <2> QED BY <1>3, <2>1, <2>3 DEF Solved
<1>5. CASE \E c \in Seq(Vulns(g)) : Chain(g, c)
  <2>1. PICK c \in Seq(Vulns(g)) : Chain(g, c) BY <1>5
  <2>2. ChainNodes(g, c) /\ ChainHosts(g, c) /\ ChainCreds(g, c) BY <2>1 DEF Chain
  <2>3. IsChain(g) BY <2>2, LeakIs DEF IsChain
  <2>4. _walk_credential_chain(g) = c BY <1>1, <2>1, ChainWalked
  <2>5. PICK n : n = Len(c) OBVIOUS
  <2>6. n \in Nat /\ n >= 2 /\ DOMAIN c = 1 .. n BY <2>2, <2>5 DEF ChainNodes
  <2>7. \A v \in Range(c) : Serves(g, before, v)
    <3>1. SUFFICES ASSUME NEW i \in 1 .. n PROVE Serves(g, before, c[i]) BY <2>6 DEF Range
    <3>2. c[i] \in Vulns(g) BY <2>5
    <3>3. g.nodes[c[i]].flaw \in ChainFlaws
      <4>1. CASE i = 1 BY <2>2, <4>1 DEF ChainNodes, ChainFlaws
      <4>2. CASE i = n BY <2>2, <2>5, <4>2 DEF ChainNodes, ChainFlaws, GateFlaws
      <4>3. CASE i # 1 /\ i # n
        <5>1. i \in 2 .. Len(c) - 1 BY <2>5, <2>6, <4>3
        <5> QED BY <2>2, <5>1 DEF ChainNodes, ChainFlaws, GateFlaws
      <4> QED BY <4>1, <4>2, <4>3
    <3> QED BY <3>2, <3>3, ServesIs DEF PathFlaws
  <2>8. g.nodes[c[Len(c)]].flaw = "credential_gated_flag" BY <2>2 DEF ChainNodes
  <2>9. Cardinality({HostOf(g, c[i]) : i \in DOMAIN c}) = Len(c)
    <3>1. Cardinality({HostOf(g, c[i]) : i \in 1 .. Len(c)}) = Len(c) BY <2>2, ChainCount
    <3> QED BY <2>5, <2>6, <3>1
  <2>10. Len(c) = Cardinality(by_kind(g, "credential")) + 1
    <3>1. PICK k : k = Cardinality(by_kind(g, "credential")) OBVIOUS
    <3>2. k = n - 1 BY <2>2, <2>5, <3>1 DEF ChainCreds
    <3> QED BY <2>5, <2>6, <3>1, <3>2
  <2>11. FlagServices(g) = {HostOf(g, c[Len(c)])} BY <2>2 DEF ChainHosts
  <2>12. c # <<>> BY <2>5, <2>6
  <2>13. Walks(g, before) BY <2>4, <2>7, <2>8, <2>9, <2>10, <2>11, <2>12 DEF Walks
  <2> QED BY <1>3, <2>3, <2>13 DEF Solved
<1> QED BY <1>4, <1>5 DEF Company

LEMMA InvariantSolves == WorldInv => ChainSolvable
<1> SUFFICES ASSUME WorldInv, stage = "world", prior.company, ~loaded PROVE Solved(graph, order) BY DEF ChainSolvable
<1>1. Structured(graph) /\ Company(graph) /\ Served(graph, order) BY DEF WorldInv
<1> QED BY <1>1, CompanySolved

(* ChainSolvable: the flag of every company or chain that is admitted can be had, over  *)
(* the pivot or gate by gate along the credentials, after any sequence of mutations,     *)
(* reseeds and replants, whatever the layouts, the catalogue and the bounds.            *)
THEOREM WorldChainSolvable == Spec => []ChainSolvable
<1>1. WorldInv /\ [Next]_vars => WorldInv' BY InvariantKept
<1> QED BY <1>1, InitOK, InvariantSolves, PTL DEF Spec

-----------------------------------------------------------------------------
(* Values. A flag is as old as the last time it was planted, and no handler but the    *)
(* ones that read records has one; a token is a chain's, a hop's or a fresh one.       *)

FlagValues(n) == {<<"flag", i, 0>> : i \in 0 .. n}
TokenLike(x, n) == x[1] \in {"token", "appended"} \/ (x[1] = "fresh" /\ x[3] \in 0 .. n)

ParamsBear(p, n) == \A x \in {p.credential, p.next_credential} : x = NoValue \/ TokenLike(x, n)

Bears(x, n) ==
    /\ x.kind = "secret" => x.value \in FlagValues(n)
    /\ x.kind = "record" => x.value \in FlagValues(n) \cup {<<"decoy", 0, 0>>}
    /\ x.kind = "credential" => TokenLike(x.value, n)
    /\ x.kind = "vulnerability" => ParamsBear(x.params, n)

AllBear(nodes, n) == \A i \in DOMAIN nodes : Bears(nodes[i], n)
Borne(g, n) == DOMAIN g = {"nodes", "edges"} /\ AllBear(g.nodes, n)

LEMMA OverriddenBear ==
    ASSUME NEW f, NEW h, NEW n, AllBear(f, n), AllBear(h, n)
    PROVE  AllBear(Overridden(f, h), n)
<1>1. PICK o : o = Overridden(f, h) OBVIOUS
<1>2. /\ DOMAIN o = DOMAIN f \cup DOMAIN h
      /\ \A x \in DOMAIN h : o[x] = h[x]
      /\ \A x \in DOMAIN f \ DOMAIN h : o[x] = f[x]
  BY <1>1 DEF Overridden
<1> QED BY <1>1, <1>2 DEF AllBear

LEMMA SingleBear ==
    ASSUME NEW id, NEW x, NEW n, Bears(x, n)
    PROVE  AllBear(Single(id, x), n)
<1>1. PICK o : o = Single(id, x) OBVIOUS
<1>2. DOMAIN o = {id} /\ o[id] = x BY <1>1, SingleIs
<1> QED BY <1>1, <1>2 DEF AllBear

LEMMA WithBear ==
    ASSUME NEW g, NEW n, Borne(g, n)
    PROVE  /\ \A nodes : AllBear(nodes, n) => Borne(WithNodes(g, nodes), n)
           /\ \A ids : Borne(WithEdges(g, ids), n)
<1>1. DOMAIN g = {"nodes", "edges"} BY DEF Borne
<1>2. ASSUME NEW nodes, AllBear(nodes, n) PROVE Borne(WithNodes(g, nodes), n)
  <2>1. PICK h : h = WithNodes(g, nodes) OBVIOUS
  <2>2. /\ DOMAIN h = {"nodes", "edges"}
        /\ DOMAIN h.nodes = DOMAIN g.nodes \cup DOMAIN nodes
        /\ \A i \in DOMAIN nodes : h.nodes[i] = nodes[i]
        /\ \A i \in DOMAIN g.nodes \ DOMAIN nodes : h.nodes[i] = g.nodes[i]
    BY <1>1, <2>1, WithNodesIs
  <2> QED BY <1>2, <2>1, <2>2 DEF Borne, AllBear
<1>3. ASSUME NEW ids PROVE Borne(WithEdges(g, ids), n)
  <2>1. PICK h : h = WithEdges(g, ids) OBVIOUS
  <2>2. DOMAIN h = {"nodes", "edges"} /\ h.nodes = g.nodes BY <1>1, <2>1, WithEdgesIs
  <2> QED BY <2>1, <2>2 DEF Borne
<1> QED BY <1>2, <1>3

LEMMA PlainBears ==
    ASSUME NEW n \in Nat
    PROVE  /\ \A path : Bears(Endpoint(path), n)
           /\ \A tier : Bears(Service(tier), n)
           /\ \A engine : Bears(Store(engine), n)
           /\ \A flaw, params : ParamsBear(params, n) => Bears(Vuln(flaw, params), n)
           /\ \A value : TokenLike(value, n) => Bears(Holder("credential", value), n)
           /\ \A value \in FlagValues(n) : Bears(Holder("record", value), n) /\ Bears(Holder("secret", value), n)
           /\ Bears(Holder("record", <<"decoy", 0, 0>>), n)
           /\ <<"flag", 0, 0>> \in FlagValues(n)
<1>1. \A path : Bears(Endpoint(path), n) BY NodeFields DEF Bears
<1>2. \A tier : Bears(Service(tier), n) BY NodeFields DEF Bears
<1>3. \A engine : Bears(Store(engine), n) BY NodeFields DEF Bears
<1>4. \A flaw, params : ParamsBear(params, n) => Bears(Vuln(flaw, params), n) BY NodeFields DEF Bears
<1>5. \A value : TokenLike(value, n) => Bears(Holder("credential", value), n) BY NodeFields DEF Bears
<1>6. \A value \in FlagValues(n) : Bears(Holder("record", value), n) /\ Bears(Holder("secret", value), n)
  BY NodeFields DEF Bears
<1>7. Bears(Holder("record", <<"decoy", 0, 0>>), n) BY NodeFields DEF Bears
<1>8. <<"flag", 0, 0>> \in FlagValues(n) BY DEF FlagValues
<1> QED BY <1>1, <1>2, <1>3, <1>4, <1>5, <1>6, <1>7, <1>8

(* The parameters of the handlers that are drawn.                                    *)
LEMMA ParamsBearIs ==
    ASSUME NEW n
    PROVE  /\ ParamsBear(Params, n)
           /\ \A host : ParamsBear([Params EXCEPT !.host = host], n)
           /\ \A hosts : ParamsBear([Params EXCEPT !.hosts = hosts], n)
           /\ \A value, host : TokenLike(value, n) => ParamsBear([Params EXCEPT !.credential = value, !.host = host], n)
           /\ \A value : TokenLike(value, n) \/ value = NoValue => ParamsBear([Params EXCEPT !.credential = value], n)
           /\ \A value, next, host : (TokenLike(value, n) \/ value = NoValue) /\ TokenLike(next, n) =>
                ParamsBear([Params EXCEPT !.credential = value, !.next_credential = next, !.host = host], n)
BY DEF ParamsBear, Params

LEMMA EditedBears ==
    ASSUME NEW i, NEW x, NodeOK(i, x), NEW n, Bears(x, n), NEW y, NEW m, NEW p,
           \/ y = [x EXCEPT !.method = m]
           \/ y = [x EXCEPT !.params = p] /\ ParamsBear(p, n)
    PROVE  Bears(y, n)
<1>1. CASE x \in ServiceNodes \/ x \in EndpointNodes \/ x \in StoreNodes
  <2>1. y.kind = x.kind /\ x.kind \in {"service", "endpoint", "data_store"}
    BY <1>1 DEF ServiceNodes, EndpointNodes, StoreNodes
  <2> QED BY <2>1 DEF Bears
<1>2. CASE x \in HolderNodes("record") \/ x \in HolderNodes("secret") \/ x \in HolderNodes("credential")
  <2>1. y.kind = x.kind /\ y.value = x.value /\ x.kind \in {"record", "secret", "credential"}
    BY <1>2 DEF HolderNodes
  <2> QED BY <2>1 DEF Bears
<1>3. CASE x \in VulnNodes
  <2>1. DOMAIN x = {"kind", "flaw", "params"} /\ x.kind = "vulnerability" BY <1>3 DEF VulnNodes
  <2>2. CASE y = [x EXCEPT !.method = m]
    <3>1. y.kind = x.kind /\ y.params = x.params BY <2>1, <2>2
    <3> QED BY <3>1, <2>1 DEF Bears
  <2>3. CASE y = [x EXCEPT !.params = p] /\ ParamsBear(p, n)
    <3>1. y.kind = x.kind /\ y.params = p BY <2>1, <2>3
    <3> QED BY <3>1, <2>1, <2>3 DEF Bears
  <2> QED BY <2>2, <2>3
<1> QED BY <1>1, <1>2, <1>3 DEF NodeOK

LEMMA SkeletonBorne ==
    ASSUME NEW layout, NEW deepest, NEW engine, NEW n \in Nat
    PROVE  Borne(Skeleton(layout, deepest, engine), n)
<1>1. PICK flag : flag = <<"flag", 0, 0>> OBVIOUS
<1>2. PICK store : store = <<"ds", deepest>> OBVIOUS
<1>3. PICK eps : eps = UNION {{<<"ep", i, p>> : p \in Endpoints(layout[i])} : i \in DOMAIN layout} OBVIOUS
<1>4. PICK svcs : svcs = {Svc(i) : i \in DOMAIN layout} OBVIOUS
<1>5. PICK hosts : hosts = Overridden([s \in svcs |-> Service(layout[s[2]])], [e \in eps |-> Endpoint(e[3])]) OBVIOUS
<1>6. PICK loot : loot = Overridden(Single(record_id, Holder("record", flag)), Single(flag_id, Holder("secret", flag)))
  OBVIOUS
<1>7. PICK nodes : nodes = Overridden(Overridden(hosts, Single(store, Store(engine))), loot) OBVIOUS
<1>8. \E edges : Skeleton(layout, deepest, engine) = [nodes |-> nodes, edges |-> edges]
  BY <1>1, <1>2, <1>3, <1>4, <1>5, <1>6, <1>7, Zenon DEF Skeleton
<1>9. AllBear(hosts, n)
  <2>1. PICK f : f = [s \in svcs |-> Service(layout[s[2]])] OBVIOUS
  <2>2. PICK h : h = [e \in eps |-> Endpoint(e[3])] OBVIOUS
  <2>3. AllBear(f, n) BY <2>1, PlainBears DEF AllBear
  <2>4. AllBear(h, n) BY <2>2, PlainBears DEF AllBear
  <2>5. hosts = Overridden(f, h) BY <1>5, <2>1, <2>2
  <2> QED BY <2>3, <2>4, <2>5, OverriddenBear
<1>10. AllBear(loot, n)
  <2>1. Bears(Holder("record", flag), n) /\ Bears(Holder("secret", flag), n) BY <1>1, PlainBears
  <2> QED BY <1>6, <2>1, SingleBear, OverriddenBear
<1>11. AllBear(Single(store, Store(engine)), n) BY PlainBears, SingleBear
<1>12. AllBear(nodes, n) BY <1>7, <1>9, <1>10, <1>11, OverriddenBear
<1> QED BY <1>8, <1>12 DEF Borne

LEMMA PlacedBorne ==
    ASSUME NEW g, Framed(g), NEW n \in Nat, Borne(g, n), NEW kind, NEW index, NEW target \in by_kind(g, "endpoint")
    PROVE  Borne(Placed(g, kind, index, target), n)
<1>1. PICK v : v = <<"vuln", kind, index>> OBVIOUS
<1>2. \E method : Placed(g, kind, index, target)
        = WithEdges(WithNodes(WithNodes(g, Single(v, Vuln(kind, Params))),
                              Single(target, [g.nodes[target] EXCEPT !.method = method])),
                    {SampledEdge("affects", v, target)})
  BY <1>1, Zenon DEF Placed
<1>3. PICK method : Placed(g, kind, index, target)
        = WithEdges(WithNodes(WithNodes(g, Single(v, Vuln(kind, Params))),
                              Single(target, [g.nodes[target] EXCEPT !.method = method])),
                    {SampledEdge("affects", v, target)})
  BY <1>2
<1>4. Bears(Vuln(kind, Params), n) BY PlainBears, ParamsBearIs, Zenon
<1>5. Bears([g.nodes[target] EXCEPT !.method = method], n)
  <2>1. target \in DOMAIN g.nodes BY DEF by_kind
  <2>2. NodeOK(target, g.nodes[target]) /\ Bears(g.nodes[target], n) BY <2>1 DEF Framed, Borne, AllBear
  <2> QED BY <2>2, EditedBears
<1>6. Borne(WithNodes(g, Single(v, Vuln(kind, Params))), n) BY <1>4, SingleBear, WithBear
<1> QED BY <1>3, <1>5, <1>6, SingleBear, WithBear

LEMMA FootholdBorne ==
    ASSUME NEW g, Framed(g), NEW n \in Nat, Borne(g, n), NEW params, ParamsBear(params, n)
    PROVE  Borne(Foothold(g, params), n)
<1>1. PICK ssrf, ep : ssrf = First(OfKind(g, "ssrf")) /\ ep = FirstEndpoint(g, PublicService(g)) BY Zenon
<1>2. PICK nodes : nodes = [g.nodes EXCEPT ![ssrf].params = params, ![ep].method = "GET"] OBVIOUS
<1>3. DOMAIN g = {"nodes", "edges"} BY DEF Framed
<1>4. PICK h : h = Foothold(g, params) OBVIOUS
<1>5. DOMAIN h = {"nodes", "edges"} /\ h.nodes = nodes
  <2>1. PICK edges : edges = [e \in DOMAIN g.edges |-> IF g.edges[e].kind = "affects" /\ g.edges[e].src = ssrf
                                                      THEN [g.edges[e] EXCEPT !.dst = ep] ELSE g.edges[e]]
    OBVIOUS
  <2>2. h = [g EXCEPT !.nodes = nodes, !.edges = edges] BY <1>1, <1>2, <1>4, <2>1 DEF Foothold
  <2> QED BY <1>3, <2>2
<1>6. PICK first : first = [g.nodes EXCEPT ![ssrf].params = params] OBVIOUS
<1>7. nodes = [first EXCEPT ![ep].method = "GET"] BY <1>2, <1>6
<1>8. ASSUME NEW i \in DOMAIN g.nodes PROVE Bears(nodes[i], n)
  <2>1. NodeOK(i, g.nodes[i]) /\ Bears(g.nodes[i], n) BY DEF Framed, Borne, AllBear
  <2>2. PICK x : x = g.nodes[i] OBVIOUS
  <2>3. PICK y : y = first[i] OBVIOUS
  <2>4. y = x \/ y = [x EXCEPT !.params = params] BY <1>6, <2>2, <2>3
  <2>5. DOMAIN first = DOMAIN g.nodes BY <1>6
  <2>6. nodes[i] = y \/ nodes[i] = [y EXCEPT !.method = "GET"] BY <1>7, <2>3, <2>5
  <2>7. Bears(y, n) BY <2>1, <2>2, <2>4, EditedBears
  <2>8. DOMAIN y = DOMAIN x BY <2>4
  <2>9. PICK z : z = nodes[i] OBVIOUS
  <2>10. \A field \in DOMAIN x : field # "method" => z[field] = y[field] BY <2>6, <2>8, <2>9
  <2>11. "kind" \in DOMAIN x /\ (y.kind \in {"secret", "record", "credential"} => "value" \in DOMAIN x)
         /\ (y.kind = "vulnerability" => "params" \in DOMAIN x)
    <3>1. NodeOK(i, x) BY <2>1, <2>2
    <3>2. CASE x \in ServiceNodes \/ x \in EndpointNodes \/ x \in StoreNodes
      BY <2>4, <3>2 DEF ServiceNodes, EndpointNodes, StoreNodes
    <3>3. CASE x \in HolderNodes("record") \/ x \in HolderNodes("secret") \/ x \in HolderNodes("credential")
      BY <2>4, <3>3 DEF HolderNodes
    <3>4. CASE x \in VulnNodes BY <2>4, <3>4 DEF VulnNodes
    <3> QED BY <3>1, <3>2, <3>3, <3>4 DEF NodeOK
  <2>12. z.kind = y.kind BY <2>10, <2>11
  <2>13. y.kind \in {"secret", "record", "credential"} => z.value = y.value BY <2>10, <2>11
  <2>14. y.kind = "vulnerability" => z.params = y.params BY <2>10, <2>11
  <2> QED BY <2>7, <2>9, <2>12, <2>13, <2>14 DEF Bears
<1>9. DOMAIN nodes = DOMAIN g.nodes BY <1>2
<1> QED BY <1>4, <1>5, <1>8, <1>9 DEF Borne, AllBear

LEMMA NetworkizeBorne ==
    ASSUME NEW g, Framed(g), NEW n \in Nat, Borne(g, n)
    PROVE  Borne(_networkize_ssrf(g), n)
<1>1. PICK host : host = CHOOSE s \in FlagServices(g) : TRUE OBVIOUS
<1>2. PICK ep, leak : ep = <<"ep", host[2], "metadata">> /\ leak = <<"vuln", "metadata_credential_leak", 0>> BY Zenon
<1>3. PICK ids : ids = {SampledEdge("exposes", host, ep), SampledEdge("affects", leak, ep),
                        SampledEdge("enables", First(OfKind(g, "ssrf")), leak)}
  OBVIOUS
<1>4. PICK params : params = [Params EXCEPT !.host = host] OBVIOUS
<1>5. PICK f : f = Foothold(g, params) OBVIOUS
<1>6. PICK nodes : nodes = Overridden(Single(ep, Endpoint("metadata")),
                                      Single(leak, Vuln("metadata_credential_leak", Params)))
  OBVIOUS
<1>7. _networkize_ssrf(g) = g \/ _networkize_ssrf(g) = WithEdges(WithNodes(f, nodes), ids)
  BY <1>1, <1>2, <1>3, <1>4, <1>5, <1>6, Zenon DEF _networkize_ssrf
<1>8. ParamsBear(params, n) BY <1>4, ParamsBearIs, Zenon
<1>9. Borne(f, n) BY <1>5, <1>8, FootholdBorne
<1>10. AllBear(nodes, n)
  <2>1. Bears(Endpoint("metadata"), n) BY PlainBears
  <2>2. Bears(Vuln("metadata_credential_leak", Params), n) BY PlainBears, ParamsBearIs, Zenon
  <2> QED BY <1>6, <2>1, <2>2, SingleBear, OverriddenBear
<1>11. Borne(WithEdges(WithNodes(f, nodes), ids), n)
  <2>1. Borne(WithNodes(f, nodes), n) BY <1>9, <1>10, WithBear
  <2> QED BY <2>1, WithBear
<1> QED BY <1>7, <1>11

LEMMA ReconBorne ==
    ASSUME NEW g, NEW n \in Nat, Borne(g, n)
    PROVE  Borne(_add_recon_disclosure(g), n)
<1>1. PICK s : s = PublicService(g) OBVIOUS
<1>2. PICK ep, tells : ep = <<"ep", s[2], "recon">> /\ tells = <<"vuln", "config_disclosure", 0>> BY Zenon
<1>3. PICK ids : ids = {SampledEdge("exposes", s, ep), SampledEdge("affects", tells, ep)} OBVIOUS
<1>4. PICK nodes : nodes = Overridden(Single(ep, Endpoint("recon")), Single(tells, Vuln("config_disclosure", Params)))
  OBVIOUS
<1>5. _add_recon_disclosure(g) = g \/ _add_recon_disclosure(g) = WithEdges(WithNodes(g, nodes), ids)
  BY <1>1, <1>2, <1>3, <1>4, Zenon DEF _add_recon_disclosure
<1>6. AllBear(nodes, n)
  <2>1. Bears(Endpoint("recon"), n) BY PlainBears
  <2>2. Bears(Vuln("config_disclosure", Params), n) BY PlainBears, ParamsBearIs, Zenon
  <2> QED BY <1>4, <2>1, <2>2, SingleBear, OverriddenBear
<1>7. Borne(WithEdges(WithNodes(g, nodes), ids), n)
  <2>1. Borne(WithNodes(g, nodes), n) BY <1>6, WithBear
  <2> QED BY <2>1, WithBear
<1> QED BY <1>5, <1>7

LEMMA GateParamsBear ==
    ASSUME NEW hosts, NEW j, NEW n
    PROVE  ParamsBear(GateParams(hosts, j), n)
<1>1. \A k : TokenLike(<<"token", k, 0>>, n) BY DEF TokenLike
<1>2. PICK here, after : here = <<"token", j, 0>> /\ after = <<"token", j + 1, 0>> BY Zenon
<1>3. \/ GateParams(hosts, j) = [Params EXCEPT !.credential = here]
      \/ GateParams(hosts, j) = [Params EXCEPT !.credential = here, !.next_credential = after, !.host = hosts[j + 1]]
  BY <1>2, Zenon DEF GateParams
<1>4. TokenLike(here, n) /\ TokenLike(after, n) BY <1>1, <1>2
<1>5. ParamsBear([Params EXCEPT !.credential = here], n) BY <1>4, ParamsBearIs, Zenon
<1>6. PICK host : host = hosts[j + 1] OBVIOUS
<1>7. ParamsBear([Params EXCEPT !.credential = here, !.next_credential = after, !.host = host], n)
  BY <1>4, ParamsBearIs, Zenon
<1> QED BY <1>3, <1>5, <1>6, <1>7

LEMMA ChainedBorne ==
    ASSUME NEW g, NEW n \in Nat, Borne(g, n), NEW leak, NEW hosts
    PROVE  Borne(Chained(g, leak, hosts), n)
<1> DEFINE len == Len(hosts)
           ep(j) == <<"ep", hosts[j][2], "vault">>
           cred(j) == <<"cred", j - 1>>
           before(j) == IF j = 1 THEN leak ELSE GateVuln(hosts, j - 1)
           index(v) == CHOOSE j \in 1 .. len : GateVuln(hosts, j) = v
<1>1. PICK creds : creds = [c \in {cred(j) : j \in 1 .. len} |-> Holder("credential", <<"token", c[2] + 1, 0>>)] OBVIOUS
<1>2. PICK vaults : vaults = [e \in {ep(j) : j \in 1 .. len} |-> Endpoint("vault")] OBVIOUS
<1>3. PICK gates : gates = [v \in {GateVuln(hosts, j) : j \in 1 .. len} |-> Vuln(v[2], GateParams(hosts, index(v)))]
  OBVIOUS
<1>4. PICK ids : ids = UNION {{SampledEdge("exposes", hosts[j], ep(j)), SampledEdge("affects", GateVuln(hosts, j), ep(j)),
                         SampledEdge("enables", before(j), GateVuln(hosts, j)),
                         SampledEdge("requires_credential", ep(j), cred(j)),
                         SampledEdge("produces", before(j), cred(j))} : j \in 1 .. len}
  OBVIOUS
<1>5. PICK nodes : nodes = Overridden(Overridden(creds, vaults), gates) OBVIOUS
<1>6. Chained(g, leak, hosts) = WithEdges(WithNodes(g, nodes), ids)
  BY <1>1, <1>2, <1>3, <1>4, <1>5, Zenon DEF Chained
<1>7. AllBear(creds, n)
  <2>1. \A k : TokenLike(<<"token", k, 0>>, n) BY DEF TokenLike
  <2>2. \A c \in DOMAIN creds : creds[c] = Holder("credential", <<"token", c[2] + 1, 0>>) BY <1>1, Zenon
  <2>3. \A c \in DOMAIN creds : Bears(creds[c], n) BY <2>1, <2>2, PlainBears
  <2> QED BY <2>3 DEF AllBear
<1>8. AllBear(vaults, n)
  <2>1. \A e \in DOMAIN vaults : vaults[e] = Endpoint("vault") BY <1>2
  <2> QED BY <2>1, PlainBears DEF AllBear
<1>9. AllBear(gates, n)
  <2>1. \A v \in DOMAIN gates : gates[v] = Vuln(v[2], GateParams(hosts, index(v))) BY <1>3
  <2> HIDE DEF index
  <2>2. \A v \in DOMAIN gates : Bears(gates[v], n) BY <2>1, GateParamsBear, PlainBears
  <2> QED BY <2>2 DEF AllBear
<1>10. AllBear(nodes, n) BY <1>5, <1>7, <1>8, <1>9, OverriddenBear
<1>11. Borne(WithNodes(g, nodes), n) BY <1>10, WithBear
<1> QED BY <1>6, <1>11, WithBear

LEMMA LateralizeBorne ==
    ASSUME NEW g, Framed(g), NEW n \in Nat, Borne(g, n), NEW depth
    PROVE  Borne(_lateralize(g, depth), n)
<1>1. PICK others : others = Others(g) OBVIOUS
<1>2. PICK hosts : hosts = Append(SubSeq(others, 2, depth), CHOOSE s \in FlagServices(g) : TRUE) OBVIOUS
<1>3. PICK entry : entry = others[1] OBVIOUS
<1>4. PICK ep, leak : ep = <<"ep", entry[2], "credleak">> /\ leak = <<"vuln", "credential_leak", 0>> BY Zenon
<1>5. PICK params : params = [Params EXCEPT !.hosts = Internals(g)] OBVIOUS
<1>6. PICK footed : footed = Foothold(g, params) OBVIOUS
<1>7. PICK names : names = [Params EXCEPT !.credential = <<"token", 1, 0>>, !.host = hosts[1]] OBVIOUS
<1>8. PICK first : first = Overridden(Single(ep, Endpoint("credleak")), Single(leak, Vuln("credential_leak", names)))
  OBVIOUS
<1>9. PICK decoy : decoy = Single(record_id, Holder("record", <<"decoy", 0, 0>>)) OBVIOUS
<1>10. PICK ids : ids = {SampledEdge("exposes", entry, ep), SampledEdge("affects", leak, ep),
                         SampledEdge("enables", First(OfKind(g, "ssrf")), leak)}
  OBVIOUS
<1>11. _lateralize(g, depth) = Chained(WithEdges(WithNodes(WithNodes(footed, first), decoy), ids), leak, hosts)
  BY <1>1, <1>2, <1>3, <1>4, <1>5, <1>6, <1>7, <1>8, <1>9, <1>10, Zenon DEF _lateralize
<1>12. ParamsBear(params, n) BY <1>5, ParamsBearIs, Zenon
<1>13. Borne(footed, n) BY <1>6, <1>12, FootholdBorne
<1>14. ParamsBear(names, n)
  <2>1. TokenLike(<<"token", 1, 0>>, n) BY DEF TokenLike
  <2> QED BY <1>7, <2>1, ParamsBearIs, Zenon
<1>15. AllBear(first, n)
  <2>1. Bears(Endpoint("credleak"), n) BY PlainBears
  <2>2. Bears(Vuln("credential_leak", names), n) BY <1>14, PlainBears
  <2> QED BY <1>8, <2>1, <2>2, SingleBear, OverriddenBear
<1>16. AllBear(decoy, n) BY <1>9, PlainBears, SingleBear
<1>17. PICK g1 : g1 = WithNodes(footed, first) OBVIOUS
<1>18. PICK g2 : g2 = WithNodes(g1, decoy) OBVIOUS
<1>19. PICK g3 : g3 = WithEdges(g2, ids) OBVIOUS
<1>20. Borne(g3, n)
  <2>1. Borne(g1, n) BY <1>13, <1>15, <1>17, WithBear
  <2>2. Borne(g2, n) BY <1>16, <1>18, <2>1, WithBear
  <2> QED BY <1>19, <2>2, WithBear
<1> QED BY <1>11, <1>17, <1>18, <1>19, <1>20, ChainedBorne

(* What is composed of a draft has the values of the draft, and tokens.                 *)
LEMMA ComposeBorne ==
    ASSUME WorldInv, Compose, Borne(graph, between)
    PROVE  Borne(graph', between)
<1>1. between \in Nat BY BoundAssumption DEF WorldInv
<1>2. PICK g : g = Enabling(graph) OBVIOUS
<1>3. Structured(graph) /\ Drafted(graph, draws) BY DEF WorldInv, Compose
<1>4. Framed(g) BY <1>2, <1>3, EnablingIs DEF Structured
<1>5. Borne(g, between)
  <2>1. DOMAIN graph = {"nodes", "edges"} BY <1>3 DEF Structured, Framed
  <2>2. PICK ids : g = WithEdges(graph, ids) BY <1>2 DEF Enabling
  <2> QED BY <2>2, WithBear
<1> DEFINE told(h) == IF prior.company /\ prior.recon THEN _add_recon_disclosure(h) ELSE h
<1>6. IF ~prior.lateral THEN graph' = told(_networkize_ssrf(g))
      ELSE IF ~Pivotable(g) \/ Others(g) = <<>> THEN graph' = told(g)
      ELSE \E depth \in Depths(g, prior) : graph' = told(_lateralize(g, depth))
  BY <1>2 DEF Compose
<1>7. \A h : told(h) = h \/ told(h) = _add_recon_disclosure(h) OBVIOUS
<1> HIDE DEF told
<1>8. \A h : Borne(h, between) => Borne(told(h), between)
  <2>1. TAKE h
  <2>2. SUFFICES ASSUME Borne(h, between) PROVE Borne(told(h), between) OBVIOUS
  <2>3. Borne(_add_recon_disclosure(h), between) BY <1>1, <2>2, ReconBorne
  <2>4. told(h) = h \/ told(h) = _add_recon_disclosure(h) BY <1>7
  <2> QED BY <2>2, <2>3, <2>4
<1>9. Borne(_networkize_ssrf(g), between) BY <1>1, <1>4, <1>5, NetworkizeBorne
<1>10. \A depth : Borne(_lateralize(g, depth), between) BY <1>1, <1>4, <1>5, LateralizeBorne
<1> QED BY <1>5, <1>6, <1>8, <1>9, <1>10

PatchBears(p, n) == p.edges_updated = <<>> /\ AllBear(p.nodes_added, n) /\ AllBear(p.nodes_updated, n)

LEMMA PatchBorne ==
    ASSUME NEW g, NEW n, Borne(g, n), NEW p, PatchBears(p, n), ~Collides(g, p), NEW h, h = apply_patch(g, p)
    PROVE  Borne(h, n)
<1>1. /\ DOMAIN h = {"nodes", "edges"}
      /\ DOMAIN h.nodes = (DOMAIN g.nodes \ p.nodes_removed) \cup DOMAIN p.nodes_updated \cup DOMAIN p.nodes_added
      /\ \A i \in DOMAIN p.nodes_added : h.nodes[i] = p.nodes_added[i]
      /\ \A i \in DOMAIN p.nodes_updated : h.nodes[i] = p.nodes_updated[i]
      /\ \A i \in DOMAIN g.nodes \ p.nodes_removed : i \notin DOMAIN p.nodes_updated => h.nodes[i] = g.nodes[i]
  BY PatchIs DEF PatchBears
<1>2. ASSUME NEW i \in DOMAIN h.nodes PROVE Bears(h.nodes[i], n)
  <2>1. CASE i \in DOMAIN p.nodes_added BY <1>1, <2>1 DEF PatchBears, AllBear
  <2>2. CASE i \in DOMAIN p.nodes_updated BY <1>1, <2>2 DEF PatchBears, AllBear
  <2>3. CASE i \in DOMAIN g.nodes \ p.nodes_removed /\ i \notin DOMAIN p.nodes_updated
    BY <1>1, <2>3 DEF Borne, AllBear
  <2> QED BY <1>1, <2>1, <2>2, <2>3
<1> QED BY <1>1, <1>2 DEF Borne, AllBear

LEMMA NoneBear ==
    ASSUME NEW n
    PROVE  AllBear(<<>>, n)
<1>1. PICK none : none = <<>> OBVIOUS
<1>2. DOMAIN none = {} BY <1>1
<1> QED BY <1>1, <1>2 DEF AllBear

(* The values of the handler of a vulnerability in a graph.                            *)
LEMMA VulnBears ==
    ASSUME NEW g, NEW n, Borne(g, n), NEW v \in Vulns(g), NEW x, x = g.nodes[v].params.credential
    PROVE  TokenLike(x, n) \/ x = NoValue
<1>1. v \in DOMAIN g.nodes /\ g.nodes[v].kind = "vulnerability" BY DEF Vulns, by_kind
<1>2. Bears(g.nodes[v], n) BY <1>1 DEF Borne, AllBear
<1> QED BY <1>1, <1>2 DEF Bears, ParamsBear

LEMMA AppendBears ==
    ASSUME NEW g, NEW n \in Nat, Borne(g, n), NEW m \in _harden_append_hop_mutation(g)
    PROVE  PatchBears(m.patch, n)
<1>1. OfKind(g, "credential_gated_flag") # {} BY DEF _harden_append_hop_mutation
<1>2. PICK old : old = Terminal(g) OBVIOUS
<1>3. old \in Vulns(g) BY <1>1, <1>2 DEF Terminal, OfKind
<1>4. PICK index : index = Cardinality(by_kind(g, "credential")) OBVIOUS
<1>5. PICK token : token = <<"appended", old[3], index>> OBVIOUS
<1>6. PICK held : held = g.nodes[old].params.credential OBVIOUS
<1>7. PICK host : host = _spare_internal_service(g) OBVIOUS
<1>8. PICK relay : relay = Vuln("credential_gated_relay",
                                [Params EXCEPT !.credential = held, !.next_credential = token, !.host = host])
  OBVIOUS
<1>9. PICK gate : gate = Vuln("credential_gated_flag", [Params EXCEPT !.credential = token]) OBVIOUS
<1>10. PICK cred, ep, new : cred = <<"cred", index>> /\ ep = <<"ep", host[2], "vault">>
                            /\ new = _fresh_vuln_id("credential_gated_flag", g)
  BY Zenon
<1>11. PICK nodes : nodes = Overridden(Overridden(Single(cred, Holder("credential", token)), Single(ep, Endpoint("vault"))),
                                       Single(new, gate))
  OBVIOUS
<1>12. \E removed, ids :
         m = Mutation("harden", "append", [EmptyPatch EXCEPT !.nodes_added = nodes, !.nodes_updated = Single(old, relay),
                                             !.edges_removed = removed, !.edges_added = EdgesOf(ids)])
  BY <1>2, <1>4, <1>5, <1>6, <1>7, <1>8, <1>9, <1>10, <1>11, Zenon DEF _harden_append_hop_mutation
<1>13. PICK removed, ids :
         m = Mutation("harden", "append", [EmptyPatch EXCEPT !.nodes_added = nodes, !.nodes_updated = Single(old, relay),
                                             !.edges_removed = removed, !.edges_added = EdgesOf(ids)])
  BY <1>12, Zenon
<1>14. m.patch.edges_updated = <<>> /\ m.patch.nodes_added = nodes /\ m.patch.nodes_updated = Single(old, relay)
  BY <1>13 DEF Mutation, EmptyPatch
<1>15. TokenLike(token, n) BY <1>5 DEF TokenLike
<1>16. TokenLike(held, n) \/ held = NoValue BY <1>3, <1>6, VulnBears
<1>17. Bears(relay, n)
  <2>1. ParamsBear([Params EXCEPT !.credential = held, !.next_credential = token, !.host = host], n)
    BY <1>15, <1>16, ParamsBearIs, Zenon
  <2> QED BY <1>8, <2>1, PlainBears
<1>18. Bears(gate, n)
  <2>1. ParamsBear([Params EXCEPT !.credential = token], n) BY <1>15, ParamsBearIs, Zenon
  <2> QED BY <1>9, <2>1, PlainBears
<1>19. Bears(Holder("credential", token), n) /\ Bears(Endpoint("vault"), n) BY <1>15, PlainBears
<1>20. AllBear(nodes, n) BY <1>11, <1>18, <1>19, SingleBear, OverriddenBear
<1>21. AllBear(Single(old, relay), n) BY <1>17, SingleBear
<1> QED BY <1>14, <1>20, <1>21 DEF PatchBears

LEMMA SwapBears ==
    ASSUME NEW g, Framed(g), NEW n \in Nat, Borne(g, n), NEW m \in _diversify_swap_kind_mutations(g)
    PROVE  PatchBears(m.patch, n)
<1>1. PICK kind \in Present(g) :
        m = Mutation("diversify", "swap",
             LET v == FirstById(OfKind(g, kind))
                 alt == SortedKinds[_pick_alt_kind(g, kind, Target(g, v))]
                 method == MethodAfter(g, Target(g, v), alt)
             IN [EmptyPatch EXCEPT !.nodes_updated =
                    Overridden(Single(v, Vuln(alt, Params)),
                               Single(Target(g, v), [g.nodes[Target(g, v)] EXCEPT !.method = method]))])
  BY DEF _diversify_swap_kind_mutations
<1>2. PICK v : v = FirstById(OfKind(g, kind)) OBVIOUS
<1>3. PICK t : t = Target(g, v) OBVIOUS
<1>4. PICK alt : alt = SortedKinds[_pick_alt_kind(g, kind, t)] OBVIOUS
<1>5. PICK method : method = MethodAfter(g, t, alt) OBVIOUS
<1>6. PICK left : left = [g.nodes[t] EXCEPT !.method = method] OBVIOUS
<1>7. PICK updated : updated = Overridden(Single(v, Vuln(alt, Params)), Single(t, left)) OBVIOUS
<1>8. m.patch = [EmptyPatch EXCEPT !.nodes_updated = updated]
  BY <1>1, <1>2, <1>3, <1>4, <1>5, <1>6, <1>7 DEF Mutation
<1>9. m.patch.edges_updated = <<>> /\ m.patch.nodes_added = <<>> /\ m.patch.nodes_updated = updated
  BY <1>8 DEF EmptyPatch
<1>10. v \in Vulns(g)
  <2>1. OfKind(g, kind) # {} BY DEF Present, OfKind
  <2>2. OfKind(g, kind) \subseteq VulnIds BY KindSets DEF OfKind, Framed
  <2>3. FirstById(OfKind(g, kind)) \in OfKind(g, kind) BY <2>1, <2>2, FirstByIdIsIn
  <2> QED BY <1>2, <2>3 DEF OfKind
<1>11. t \in DOMAIN g.nodes BY <1>3, <1>10, TargetIs DEF by_kind
<1>12. NodeOK(t, g.nodes[t]) /\ Bears(g.nodes[t], n) BY <1>11 DEF Framed, Borne, AllBear
<1>13. Bears(left, n) BY <1>6, <1>12, EditedBears
<1>14. Bears(Vuln(alt, Params), n) BY PlainBears, ParamsBearIs, Zenon
<1>15. AllBear(updated, n) BY <1>7, <1>13, <1>14, SingleBear, OverriddenBear
<1> QED BY <1>9, <1>15, NoneBear DEF PatchBears

LEMMA CollapseBears ==
    ASSUME NEW g, NEW n \in Nat, Borne(g, n), NEW m \in _soften_remove_hop_mutation(g)
    PROVE  PatchBears(m.patch, n)
<1>1. LastRelay(g) # {} BY DEF _soften_remove_hop_mutation
<1>2. PICK relay : relay = CHOOSE v \in LastRelay(g) : TRUE OBVIOUS
<1>3. relay \in Vulns(g) BY <1>1, <1>2 DEF LastRelay, OfKind
<1>4. PICK held : held = g.nodes[relay].params.credential OBVIOUS
<1>5. PICK gate : gate = Vuln("credential_gated_flag", [Params EXCEPT !.credential = held]) OBVIOUS
<1>6. Promoted(g, relay) = gate BY <1>4, <1>5 DEF Promoted
<1>7. \E gone, removed, ids :
         m = Mutation("soften", "collapse", [EmptyPatch EXCEPT !.nodes_updated = Single(relay, gate), !.nodes_removed = gone,
                                               !.edges_removed = removed, !.edges_added = EdgesOf(ids)])
  <2>1. PICK old, gone, home :
          m = Mutation("soften", "collapse",
                [EmptyPatch EXCEPT !.nodes_updated = Single(relay, Promoted(g, relay)), !.nodes_removed = gone,
                                   !.edges_removed = EdgesAt(g, gone) \cup home.removed,
                                   !.edges_added = EdgesOf(home.added)])
    BY <1>2, Zenon DEF _soften_remove_hop_mutation
  <2> QED BY <1>6, <2>1, Zenon
<1>8. PICK gone, removed, ids :
         m = Mutation("soften", "collapse", [EmptyPatch EXCEPT !.nodes_updated = Single(relay, gate), !.nodes_removed = gone,
                                               !.edges_removed = removed, !.edges_added = EdgesOf(ids)])
  BY <1>7, Zenon
<1>9. m.patch.edges_updated = <<>> /\ m.patch.nodes_added = <<>> /\ m.patch.nodes_updated = Single(relay, gate)
  BY <1>8 DEF Mutation, EmptyPatch
<1>10. TokenLike(held, n) \/ held = NoValue BY <1>3, <1>4, VulnBears
<1>11. Bears(gate, n)
  <2>1. ParamsBear([Params EXCEPT !.credential = held], n) BY <1>10, ParamsBearIs, Zenon
  <2> QED BY <1>5, <2>1, PlainBears
<1> QED BY <1>9, <1>11, SingleBear, NoneBear DEF PatchBears

(* No mutation brings a value that is not a token.                                      *)
LEMMA MutationBears ==
    ASSUME NEW g, Framed(g), NEW n \in Nat, Borne(g, n), NEW requests, NEW m \in available_mutations(g, requests)
    PROVE  PatchBears(m.patch, n)
<1>1. CASE m \in _harden_append_hop_mutation(g) BY <1>1, AppendBears
<1>2. CASE m \in _harden_add_absent_mutations(g)
  <2>1. PICK kind : m = Mutation("harden", "add",
          [EmptyPatch EXCEPT !.nodes_added = Single(_fresh_vuln_id(kind, g), Vuln(kind, Params)),
                             !.edges_added = EdgesOf({ChainEdge("affects", _fresh_vuln_id(kind, g), DecoyFirst(g))})])
    BY <1>2, Zenon DEF _harden_add_absent_mutations
  <2>2. m.patch.edges_updated = <<>> /\ m.patch.nodes_updated = <<>>
        /\ m.patch.nodes_added = Single(_fresh_vuln_id(kind, g), Vuln(kind, Params))
    BY <2>1 DEF Mutation, EmptyPatch
  <2>3. Bears(Vuln(kind, Params), n) BY PlainBears, ParamsBearIs, Zenon
  <2> QED BY <2>2, <2>3, SingleBear, NoneBear DEF PatchBears
<1>3. CASE m \in _soften_remove_kind_mutations(g)
  <2>1. PICK kind : m = Mutation("soften", "remove",
          [EmptyPatch EXCEPT !.nodes_removed = OfKind(g, kind), !.edges_removed = EdgesAt(g, OfKind(g, kind))])
    BY <1>3, Zenon DEF _soften_remove_kind_mutations
  <2>2. m.patch.edges_updated = <<>> /\ m.patch.nodes_added = <<>> /\ m.patch.nodes_updated = <<>>
    BY <2>1 DEF Mutation, EmptyPatch
  <2> QED BY <2>2, NoneBear DEF PatchBears
<1>4. CASE m \in _diversify_swap_kind_mutations(g) BY <1>4, SwapBears
<1>5. CASE m \in _soften_remove_hop_mutation(g) BY <1>5, CollapseBears
<1> QED BY <1>1, <1>2, <1>3, <1>4, <1>5 DEF available_mutations

(* The nodes that hold a value.                                                        *)
LEMMA HoldersAre ==
    ASSUME NEW i, NEW x, NodeOK(i, x), x.kind \in {"record", "secret", "credential"}
    PROVE  x \in HolderNodes("record") \/ x \in HolderNodes("secret") \/ x \in HolderNodes("credential")
<1>1. CASE x \in ServiceNodes \/ x \in EndpointNodes \/ x \in StoreNodes \/ x \in VulnNodes
  BY <1>1 DEF ServiceNodes, EndpointNodes, StoreNodes, VulnNodes
<1> QED BY <1>1 DEF NodeOK

LEMMA SecretIs ==
    ASSUME NEW x, NodeOK(flag_id, x)
    PROVE  x.kind = "secret" /\ x \in HolderNodes("secret")
<1>1. flag_id \notin ServiceIds /\ flag_id \notin EndpointIds /\ flag_id \notin StoreIds
      /\ flag_id # record_id /\ flag_id \notin CredIds /\ flag_id \notin VulnIds
  BY DEF flag_id, record_id, ServiceIds, EndpointIds, StoreIds, CredIds, VulnIds
<1>2. x \in HolderNodes("secret") BY <1>1 DEF NodeOK
<1> QED BY <1>2 DEF HolderNodes

-----------------------------------------------------------------------------
(* Fresh values: every copy of a value that is replaced is replaced alike, the flag by a  *)
(* flag that was never planted, and either no other value or every token by a new one.   *)

OldFlag(g) == g.nodes[flag_id].value

Freshened(g, h, f, n) ==
    /\ Revalued(g, h) /\ Renamed(g, h, f)
    /\ \A i \in DOMAIN g.nodes : g.nodes[i].kind \in {"record", "secret", "credential"} =>
         h.nodes[i].value = f[g.nodes[i].value]
    /\ f[OldFlag(g)] = <<"flag", n, 0>>
    /\ \/ \A x \in AllCarried(g) \ {OldFlag(g)} : f[x] = x
       \/ \A x \in AllCarried(g) \ {OldFlag(g)} :
            IF x \in Tokens(g) THEN \E i \in Nat : f[x] = <<"fresh", i, n>> ELSE f[x] = x

LEMMA ReseedFreshens ==
    ASSUME NEW g, Structured(g), NEW n \in Nat, NEW h, h = reseed_chain(g, n)
    PROVE  \E f : Freshened(g, h, f, n)
<1> DEFINE cred(t) == CHOOSE i \in by_kind(g, "credential") : g.nodes[i].value = t
<1>1. PICK f : f = [x \in AllCarried(g) |->
                      IF x = g.nodes[flag_id].value THEN <<"flag", n, 0>>
                      ELSE IF x \in Tokens(g) THEN <<"fresh", cred(x)[2], n>> ELSE x]
  OBVIOUS
<1>2. h = [g EXCEPT !.nodes = [i \in DOMAIN g.nodes |-> Substituted(g.nodes[i], f)]]
  BY <1>1 DEF reseed_chain
<1>3. ASSUME NEW x \in Tokens(g) PROVE cred(x)[2] \in Nat
  <2>1. \E i \in by_kind(g, "credential") : g.nodes[i].value = x BY DEF Tokens
  <2>2. cred(x) \in by_kind(g, "credential") BY <2>1
  <2>3. cred(x) \in CredIds BY <2>2, KindSets DEF Structured, Framed
  <2> QED BY <2>3 DEF CredIds
<1> HIDE DEF cred
<1>4. AllCarried(g) \subseteq Values BY CarriedIs
<1>5. \A x \in AllCarried(g) : f[x] = IF x = OldFlag(g) THEN <<"flag", n, 0>>
                                      ELSE IF x \in Tokens(g) THEN <<"fresh", cred(x)[2], n>> ELSE x
  BY <1>1 DEF OldFlag
<1>6. ASSUME NEW x \in AllCarried(g) PROVE f[x] \in Values
  <2>1. CASE f[x] = <<"flag", n, 0>> BY <2>1 DEF Values
  <2>2. CASE f[x] = <<"fresh", cred(x)[2], n>> /\ x \in Tokens(g)
    <3>1. cred(x)[2] \in Nat BY <1>3, <2>2
    <3> QED BY <2>2, <3>1 DEF Values
  <2>3. CASE f[x] = x BY <1>4, <2>3
  <2> QED BY <1>5, <2>1, <2>2, <2>3
<1>7. Revalued(g, h) /\ Renamed(g, h, f) BY <1>2, <1>6, SubstitutedIs
<1>8. DOMAIN g = {"nodes", "edges"} /\ flag_id \in DOMAIN g.nodes BY DEF Structured, Framed, Homed
<1>9. \A i \in DOMAIN g.nodes : NodeOK(i, g.nodes[i]) BY DEF Structured, Framed
<1>10. \A i \in DOMAIN g.nodes : h.nodes[i] = Substituted(g.nodes[i], f)
  <2>1. PICK nodes : nodes = [i \in DOMAIN g.nodes |-> Substituted(g.nodes[i], f)] OBVIOUS
  <2>2. h.nodes = nodes BY <1>2, <1>8, <2>1
  <2> QED BY <2>1, <2>2
<1>11. ASSUME NEW i \in DOMAIN g.nodes, g.nodes[i].kind \in {"record", "secret", "credential"}
       PROVE  h.nodes[i].value = f[g.nodes[i].value]
  <2>1. PICK x : x = g.nodes[i] OBVIOUS
  <2>2. h.nodes[i] = [x EXCEPT !.value = f[x.value]] BY <1>10, <1>11, <2>1, Zenon DEF Substituted
  <2>3. x \in HolderNodes("record") \/ x \in HolderNodes("secret") \/ x \in HolderNodes("credential")
    BY <1>9, <1>11, <2>1, HoldersAre
  <2>4. "value" \in DOMAIN x BY <2>3 DEF HolderNodes
  <2> QED BY <2>1, <2>2, <2>4
<1>12. f[OldFlag(g)] = <<"flag", n, 0>>
  <2>1. g.nodes[flag_id].kind = "secret" BY <1>8, <1>9, SecretIs
  <2>2. OldFlag(g) \in AllCarried(g) BY <1>8, <2>1, CarriedIs DEF OldFlag
  <2> QED BY <1>5, <2>2
<1>13. \A x \in AllCarried(g) \ {OldFlag(g)} :
         IF x \in Tokens(g) THEN \E i \in Nat : f[x] = <<"fresh", i, n>> ELSE f[x] = x
  BY <1>3, <1>5
<1> QED BY <1>7, <1>11, <1>12, <1>13 DEF Freshened

(* A flag is like no token, nor like one that is planted later.                         *)
LEMMA FlagsAge ==
    ASSUME NEW n \in Nat, NEW x \in FlagValues(n), NEW i
    PROVE  /\ x # NoValue /\ x # <<"decoy", 0, 0>> /\ x # <<"flag", n + 1, 0>> /\ x # <<"fresh", i, n + 1>>
           /\ x \in FlagValues(n + 1)
           /\ \A y : TokenLike(y, n) \/ TokenLike(y, n + 1) => x # y
<1>1. PICK k \in 0 .. n : x = <<"flag", k, 0>> BY DEF FlagValues
<1>2. x[1] = "flag" /\ x[2] = k BY <1>1
<1>3. x # NoValue /\ x # <<"decoy", 0, 0>> /\ x # <<"fresh", i, n + 1>> BY <1>2 DEF NoValue
<1>4. x # <<"flag", n + 1, 0>> BY <1>2
<1>5. x \in FlagValues(n + 1) BY <1>1 DEF FlagValues
<1>6. \A y : TokenLike(y, n) \/ TokenLike(y, n + 1) => x # y BY <1>2 DEF TokenLike
<1> QED BY <1>3, <1>4, <1>5, <1>6

LEMMA TokensAge ==
    ASSUME NEW n \in Nat, NEW x, TokenLike(x, n), NEW i
    PROVE  /\ x # NoValue /\ x # <<"decoy", 0, 0>> /\ x # <<"flag", n + 1, 0>> /\ x # <<"fresh", i, n + 1>>
           /\ TokenLike(x, n + 1)
<1>1. x # NoValue /\ x # <<"decoy", 0, 0>> /\ x # <<"flag", n + 1, 0>> BY DEF TokenLike, NoValue
<1>2. x # <<"fresh", i, n + 1>>
  <2>1. ~(n + 1 \in 0 .. n) OBVIOUS
  <2> QED BY <2>1 DEF TokenLike
<1>3. TokenLike(x, n + 1) BY DEF TokenLike
<1> QED BY <1>1, <1>2, <1>3

(* What the nodes of a graph hold.                                                     *)
LEMMA HeldIs ==
    ASSUME NEW g, Structured(g), NEW n, Borne(g, n)
    PROVE  /\ flag_id \in DOMAIN g.nodes /\ g.nodes[flag_id].kind = "secret"
           /\ OldFlag(g) \in FlagValues(n) /\ OldFlag(g) \in AllCarried(g)
           /\ \A i \in DOMAIN g.nodes : g.nodes[i].kind = "credential" =>
                TokenLike(g.nodes[i].value, n) /\ g.nodes[i].value \in Tokens(g)
           /\ \A v \in Vulns(g) : ParamsBear(g.nodes[v].params, n)
           /\ \A x \in Tokens(g) : TokenLike(x, n)
<1>1. flag_id \in DOMAIN g.nodes BY DEF Structured, Homed
<1>2. \A i \in DOMAIN g.nodes : NodeOK(i, g.nodes[i]) /\ Bears(g.nodes[i], n)
  BY DEF Structured, Framed, Borne, AllBear
<1>3. g.nodes[flag_id].kind = "secret" BY <1>1, <1>2, SecretIs
<1>4. OldFlag(g) \in FlagValues(n) BY <1>1, <1>2, <1>3 DEF Bears, OldFlag
<1>5. OldFlag(g) \in AllCarried(g) BY <1>1, <1>3, CarriedIs DEF OldFlag
<1>6. \A i \in DOMAIN g.nodes : g.nodes[i].kind = "credential" =>
        TokenLike(g.nodes[i].value, n) /\ g.nodes[i].value \in Tokens(g)
  BY <1>2 DEF Bears, Tokens, by_kind
<1>7. \A v \in Vulns(g) : ParamsBear(g.nodes[v].params, n) BY <1>2 DEF Bears, Vulns, by_kind
<1>8. \A x \in Tokens(g) : TokenLike(x, n) BY <1>2 DEF Bears, Tokens, by_kind
<1> QED BY <1>1, <1>3, <1>4, <1>5, <1>6, <1>7, <1>8

LEMMA ReplantFreshens ==
    ASSUME NEW g, Structured(g), NEW n \in Nat, Borne(g, n), NEW h, h = replant_flag(g, n + 1)
    PROVE  \E f : Freshened(g, h, f, n + 1)
<1> DEFINE planted(i) == g.nodes[i].kind \in {"secret", "record"} /\ g.nodes[i].value = g.nodes[flag_id].value
<1>1. DOMAIN g = {"nodes", "edges"} /\ \A i \in DOMAIN g.nodes : NodeOK(i, g.nodes[i]) BY DEF Structured, Framed
<1>2. PICK value : value = <<"flag", n + 1, 0>> OBVIOUS
<1>3. PICK nodes : nodes = [i \in DOMAIN g.nodes |->
                              IF planted(i) THEN [g.nodes[i] EXCEPT !.value = value] ELSE g.nodes[i]]
  OBVIOUS
<1>4. h = [g EXCEPT !.nodes = nodes] BY <1>2, <1>3 DEF replant_flag
<1>5. h.nodes = nodes BY <1>1, <1>4
<1>6. /\ \A i \in DOMAIN g.nodes : planted(i) => h.nodes[i] = [g.nodes[i] EXCEPT !.value = value]
      /\ \A i \in DOMAIN g.nodes : ~planted(i) => h.nodes[i] = g.nodes[i]
  BY <1>3, <1>5
<1>7. n + 1 \in Nat OBVIOUS
<1>8. Revalued(g, h) BY <1>7, ReplantIs
<1>9. PICK f : f = [x \in AllCarried(g) |-> IF x = OldFlag(g) THEN value ELSE x] OBVIOUS
<1>10. /\ OldFlag(g) \in FlagValues(n) /\ OldFlag(g) \in AllCarried(g)
       /\ \A i \in DOMAIN g.nodes : g.nodes[i].kind = "credential" => TokenLike(g.nodes[i].value, n)
       /\ \A v \in Vulns(g) : ParamsBear(g.nodes[v].params, n)
  BY HeldIs
<1>11. OldFlag(g) # NoValue /\ \A y : TokenLike(y, n) => OldFlag(g) # y BY <1>10, FlagsAge
<1>12. ASSUME NEW v \in Vulns(g)
       PROVE  /\ h.nodes[v].params.credential = f[g.nodes[v].params.credential]
              /\ h.nodes[v].params.next_credential = f[g.nodes[v].params.next_credential]
  <2>1. v \in DOMAIN g.nodes /\ g.nodes[v].kind = "vulnerability" BY DEF Vulns, by_kind
  <2>2. h.nodes[v] = g.nodes[v] BY <1>6, <2>1
  <2>3. g.nodes[v].params.credential # OldFlag(g) /\ g.nodes[v].params.next_credential # OldFlag(g)
    BY <1>10, <1>11 DEF ParamsBear
  <2>4. g.nodes[v].params.credential \in AllCarried(g) /\ g.nodes[v].params.next_credential \in AllCarried(g)
    BY CarriedIs
  <2> QED BY <1>9, <2>2, <2>3, <2>4
<1>13. ASSUME NEW i \in DOMAIN g.nodes, g.nodes[i].kind \in {"record", "secret", "credential"}
       PROVE  h.nodes[i].value = f[g.nodes[i].value]
  <2>1. g.nodes[i].value \in AllCarried(g) BY <1>13, CarriedIs
  <2>2. CASE planted(i)
    <3>1. g.nodes[i].value = OldFlag(g) BY <2>2 DEF OldFlag
    <3>2. PICK x : x = g.nodes[i] OBVIOUS
    <3>3. x \in HolderNodes("record") \/ x \in HolderNodes("secret") \/ x \in HolderNodes("credential")
      BY <1>1, <1>13, <3>2, HoldersAre
    <3>4. "value" \in DOMAIN x BY <3>3 DEF HolderNodes
    <3>5. h.nodes[i] = [x EXCEPT !.value = value] BY <1>6, <2>2, <3>2
    <3>6. h.nodes[i].value = value BY <3>4, <3>5
    <3> QED BY <1>9, <2>1, <3>1, <3>6
  <2>3. CASE ~planted(i)
    <3>1. h.nodes[i] = g.nodes[i] BY <1>6, <2>3
    <3>2. g.nodes[i].value # OldFlag(g)
      <4>1. CASE g.nodes[i].kind = "credential" BY <1>10, <1>11, <4>1
      <4>2. CASE g.nodes[i].kind \in {"record", "secret"} BY <2>3, <4>2 DEF OldFlag
      <4> QED BY <1>13, <4>1, <4>2
    <3> QED BY <1>9, <2>1, <3>1, <3>2
  <2> QED BY <2>2, <2>3
<1>14. f[OldFlag(g)] = <<"flag", n + 1, 0>> BY <1>2, <1>9, <1>10
<1>15. \A x \in AllCarried(g) \ {OldFlag(g)} : f[x] = x BY <1>9
<1>16. Renamed(g, h, f) BY <1>12 DEF Renamed
<1> QED BY <1>8, <1>13, <1>14, <1>15, <1>16 DEF Freshened

(* A node carries the fresh values of what it carried.                                  *)
LEMMA FreshenedCarries ==
    ASSUME NEW g, Structured(g), NEW h, NEW f, NEW n, Freshened(g, h, f, n), NEW i \in DOMAIN g.nodes
    PROVE  /\ h.nodes[i].kind = g.nodes[i].kind
           /\ Carried(h.nodes[i]) = {f[x] : x \in Carried(g.nodes[i])}
<1>1. NodeOK(i, g.nodes[i]) /\ NodeOK(i, h.nodes[i]) BY DEF Structured, Framed, Freshened, Revalued
<1>2. h.nodes[i].kind = g.nodes[i].kind BY <1>1, SameKind
<1>3. CASE g.nodes[i].kind \in {"record", "secret", "credential"}
  <2>1. Carried(g.nodes[i]) = {g.nodes[i].value} /\ Carried(h.nodes[i]) = {h.nodes[i].value}
    BY <1>2, <1>3 DEF Carried
  <2>2. h.nodes[i].value = f[g.nodes[i].value] BY <1>3 DEF Freshened
  <2> QED BY <1>2, <2>1, <2>2
<1>4. CASE g.nodes[i].kind = "vulnerability"
  <2>1. Carried(g.nodes[i]) = {g.nodes[i].params.credential, g.nodes[i].params.next_credential}
        /\ Carried(h.nodes[i]) = {h.nodes[i].params.credential, h.nodes[i].params.next_credential}
    BY <1>2, <1>4 DEF Carried
  <2>2. i \in Vulns(g) BY <1>4 DEF Vulns, by_kind
  <2>3. /\ h.nodes[i].params.credential = f[g.nodes[i].params.credential]
        /\ h.nodes[i].params.next_credential = f[g.nodes[i].params.next_credential]
    BY <2>2 DEF Freshened, Renamed
  <2> QED BY <1>2, <2>1, <2>3
<1>5. CASE g.nodes[i].kind \notin {"record", "secret", "credential", "vulnerability"}
  <2>1. Carried(g.nodes[i]) = {} /\ Carried(h.nodes[i]) = {} BY <1>2, <1>5 DEF Carried
  <2> QED BY <1>2, <2>1
<1> QED BY <1>3, <1>4, <1>5

LEMMA CarriedKinds ==
    ASSUME NEW g, Structured(g), NEW n, Borne(g, n), NEW x \in AllCarried(g)
    PROVE  TokenLike(x, n) \/ x \in FlagValues(n) \/ x \in {NoValue, <<"decoy", 0, 0>>}
<1>1. PICK i \in DOMAIN g.nodes : x \in Carried(g.nodes[i]) BY DEF AllCarried
<1>2. Bears(g.nodes[i], n) BY DEF Borne, AllBear
<1>3. CASE g.nodes[i].kind \in {"record", "secret", "credential"}
  <2>1. x = g.nodes[i].value BY <1>1, <1>3 DEF Carried
  <2> QED BY <1>2, <1>3, <2>1 DEF Bears
<1>4. CASE g.nodes[i].kind = "vulnerability"
  <2>1. x \in {g.nodes[i].params.credential, g.nodes[i].params.next_credential} BY <1>1, <1>4 DEF Carried
  <2> QED BY <1>2, <1>4, <2>1 DEF Bears, ParamsBear
<1>5. CASE g.nodes[i].kind \notin {"record", "secret", "credential", "vulnerability"}
  BY <1>1, <1>5 DEF Carried
<1> QED BY <1>3, <1>4, <1>5

(* What a value becomes.                                                               *)
LEMMA FreshValue ==
    ASSUME NEW g, Structured(g), NEW n \in Nat, Borne(g, n), NEW h, NEW f, Freshened(g, h, f, n + 1),
           NEW x \in AllCarried(g)
    PROVE  /\ TokenLike(x, n) => TokenLike(f[x], n + 1)
           /\ x \in FlagValues(n) => f[x] \in FlagValues(n + 1)
           /\ x \in {NoValue, <<"decoy", 0, 0>>} => f[x] = x
           /\ f[x] # OldFlag(g)
           /\ x # OldFlag(g) => f[x] # f[OldFlag(g)]
           /\ \/ \A y \in AllCarried(g) \ {OldFlag(g)} : f[y] = y
              \/ f[x] \notin Tokens(g)
<1>1. OldFlag(g) \in FlagValues(n) /\ \A y \in Tokens(g) : TokenLike(y, n) BY HeldIs
<1>2. PICK new : new = <<"flag", n + 1, 0>> OBVIOUS
<1>3. f[OldFlag(g)] = new BY <1>2 DEF Freshened
<1>4. new \in FlagValues(n + 1) BY <1>2 DEF FlagValues
<1>5. /\ OldFlag(g) # new /\ \A i : OldFlag(g) # <<"fresh", i, n + 1>>
      /\ \A y \in Tokens(g) : OldFlag(g) # y /\ new # y /\ \A i : <<"fresh", i, n + 1>> # y
  BY <1>1, <1>2, FlagsAge, TokensAge
<1>6. CASE x = OldFlag(g)
  <2>1. f[x] = new BY <1>3, <1>6
  <2>2. ~TokenLike(x, n) /\ x \notin {NoValue, <<"decoy", 0, 0>>} BY <1>1, <1>6, FlagsAge
  <2> QED BY <1>4, <1>5, <1>6, <2>1, <2>2
<1>7. CASE x # OldFlag(g) /\ f[x] = x
  <2>1. TokenLike(x, n) => TokenLike(f[x], n + 1) BY <1>7, TokensAge
  <2>2. x \in FlagValues(n) => f[x] \in FlagValues(n + 1) BY <1>7, FlagsAge
  <2>3. x # new
    <3>1. TokenLike(x, n) => x # new BY <1>2, TokensAge
    <3>2. x \in FlagValues(n) => x # new BY <1>2, FlagsAge
    <3>3. x \in {NoValue, <<"decoy", 0, 0>>} => x # new BY <1>2 DEF NoValue
    <3> QED BY <3>1, <3>2, <3>3, CarriedKinds
  <2>4. \/ \A y \in AllCarried(g) \ {OldFlag(g)} : f[y] = y
        \/ x \notin Tokens(g)
    <3>1. SUFFICES ASSUME \A y \in AllCarried(g) \ {OldFlag(g)} :
                            IF y \in Tokens(g) THEN \E i \in Nat : f[y] = <<"fresh", i, n + 1>> ELSE f[y] = y,
                          x \in Tokens(g)
                   PROVE  FALSE
      BY DEF Freshened
    <3>2. PICK i \in Nat : f[x] = <<"fresh", i, n + 1>> BY <1>7, <3>1
    <3>3. <<"fresh", i, n + 1>> # x BY <1>5, <3>1
    <3> QED BY <1>7, <3>2, <3>3
  <2> QED BY <1>3, <1>7, <2>1, <2>2, <2>3, <2>4
<1>8. CASE x # OldFlag(g) /\ f[x] # x
  <2>1. \A y \in AllCarried(g) \ {OldFlag(g)} :
          IF y \in Tokens(g) THEN \E i \in Nat : f[y] = <<"fresh", i, n + 1>> ELSE f[y] = y
    BY <1>8 DEF Freshened
  <2>2. x \in Tokens(g) BY <1>8, <2>1
  <2>3. PICK i \in Nat : f[x] = <<"fresh", i, n + 1>> BY <1>8, <2>1, <2>2
  <2>4. TokenLike(f[x], n + 1)
    <3>1. n + 1 \in 0 .. n + 1 OBVIOUS
    <3> QED BY <2>3, <3>1 DEF TokenLike
  <2>5. f[x] # new BY <1>2, <2>3
  <2>6. f[x] \notin Tokens(g) BY <1>5, <2>3
  <2>7. TokenLike(x, n) BY <1>1, <2>2
  <2>8. x \notin FlagValues(n) BY <2>7, FlagsAge
  <2>9. x \notin {NoValue, <<"decoy", 0, 0>>} BY <2>7, TokensAge
  <2> QED BY <1>3, <1>5, <2>3, <2>4, <2>5, <2>6, <2>8, <2>9
<1> QED BY <1>6, <1>7, <1>8

LEMMA FreshenedBorne ==
    ASSUME NEW g, Structured(g), NEW n \in Nat, Borne(g, n), NEW h, NEW f, Freshened(g, h, f, n + 1)
    PROVE  Borne(h, n + 1)
<1>1. DOMAIN h = {"nodes", "edges"} /\ DOMAIN h.nodes = DOMAIN g.nodes BY DEF Freshened, Revalued
<1>2. ASSUME NEW i \in DOMAIN g.nodes PROVE Bears(h.nodes[i], n + 1)
  <2>1. h.nodes[i].kind = g.nodes[i].kind BY FreshenedCarries
  <2>2. Bears(g.nodes[i], n) BY DEF Borne, AllBear
  <2>3. CASE g.nodes[i].kind \in {"record", "secret", "credential"}
    <3>1. PICK x : x = g.nodes[i].value OBVIOUS
    <3>2. x \in AllCarried(g) BY <2>3, <3>1, CarriedIs
    <3>3. h.nodes[i].value = f[x] BY <2>3, <3>1 DEF Freshened
    <3>4. /\ TokenLike(x, n) => TokenLike(f[x], n + 1)
          /\ x \in FlagValues(n) => f[x] \in FlagValues(n + 1)
          /\ x \in {NoValue, <<"decoy", 0, 0>>} => f[x] = x
      BY <3>2, FreshValue
    <3> QED BY <2>1, <2>2, <2>3, <3>1, <3>3, <3>4 DEF Bears
  <2>4. CASE g.nodes[i].kind = "vulnerability"
    <3>1. i \in Vulns(g) BY <2>4 DEF Vulns, by_kind
    <3>2. PICK x, y : x = g.nodes[i].params.credential /\ y = g.nodes[i].params.next_credential BY Zenon
    <3>3. x \in AllCarried(g) /\ y \in AllCarried(g) BY <3>1, <3>2, CarriedIs
    <3>4. h.nodes[i].params.credential = f[x] /\ h.nodes[i].params.next_credential = f[y]
      BY <3>1, <3>2 DEF Freshened, Renamed
    <3>5. (x = NoValue \/ TokenLike(x, n)) /\ (y = NoValue \/ TokenLike(y, n))
      BY <2>2, <2>4, <3>2 DEF Bears, ParamsBear
    <3>6. f[x] = NoValue \/ TokenLike(f[x], n + 1) BY <3>3, <3>5, FreshValue
    <3>7. f[y] = NoValue \/ TokenLike(f[y], n + 1) BY <3>3, <3>5, FreshValue
    <3> QED BY <2>1, <2>4, <3>4, <3>6, <3>7 DEF Bears, ParamsBear
  <2>5. CASE g.nodes[i].kind \notin {"record", "secret", "credential", "vulnerability"}
    BY <2>1, <2>5 DEF Bears
  <2> QED BY <2>3, <2>4, <2>5
<1> QED BY <1>1, <1>2 DEF Borne, AllBear

(* Nothing of the old values is left.                                                   *)
LEMMA FreshenedAll ==
    ASSUME NEW g, Structured(g), NEW n \in Nat, Borne(g, n), NEW h, NEW f, Freshened(g, h, f, n + 1)
    PROVE  /\ OldFlag(g) \notin AllCarried(h)
           /\ Tokens(h) # Tokens(g) => Tokens(g) \cap AllCarried(h) = {}
<1>1. DOMAIN h.nodes = DOMAIN g.nodes BY DEF Freshened, Revalued
<1>2. AllCarried(h) = {f[x] : x \in AllCarried(g)}
  <2>1. \A i \in DOMAIN g.nodes : Carried(h.nodes[i]) = {f[x] : x \in Carried(g.nodes[i])} BY FreshenedCarries
  <2> QED BY <1>1, <2>1 DEF AllCarried
<1>3. OldFlag(g) \notin AllCarried(h)
  <2>1. \A x \in AllCarried(g) : f[x] # OldFlag(g) BY FreshValue
  <2> QED BY <1>2, <2>1
<1>4. CASE \A y \in AllCarried(g) \ {OldFlag(g)} : f[y] = y
  <2>1. by_kind(h, "credential") = by_kind(g, "credential") BY FreshenedCarries, <1>1 DEF by_kind
  <2>2. ASSUME NEW i \in by_kind(g, "credential") PROVE h.nodes[i].value = g.nodes[i].value
    <3>1. i \in DOMAIN g.nodes /\ g.nodes[i].kind = "credential" BY DEF by_kind
    <3>2. TokenLike(g.nodes[i].value, n) /\ OldFlag(g) \in FlagValues(n) BY <3>1, HeldIs
    <3>3. g.nodes[i].value # OldFlag(g) BY <3>2, FlagsAge
    <3>4. g.nodes[i].value \in AllCarried(g) BY <3>1, CarriedIs
    <3>5. h.nodes[i].value = f[g.nodes[i].value] BY <3>1 DEF Freshened
    <3> QED BY <1>4, <3>3, <3>4, <3>5
  <2>3. Tokens(h) = Tokens(g) BY <2>1, <2>2 DEF Tokens
  <2> QED BY <1>3, <2>3
<1>5. CASE ~(\A y \in AllCarried(g) \ {OldFlag(g)} : f[y] = y)
  <2>1. \A x \in AllCarried(g) : f[x] \notin Tokens(g) BY <1>5, FreshValue
  <2> QED BY <1>2, <1>3, <2>1
<1> QED BY <1>4, <1>5

(* The closure depends on the edges and on the number of vulnerabilities alone.         *)
ClosureOver(edges, K, seeds) ==
    LET on(v) == {edges[e].dst : e \in {e \in DOMAIN edges : edges[e].kind = "enables" /\ edges[e].src = v}}
        step[n \in 0 .. K] ==
            IF n = 0 THEN seeds
            ELSE LET before == step[n - 1] IN before \cup UNION {on(v) : v \in before}
    IN step[K]

LEMMA ClosureIs ==
    ASSUME NEW g, NEW S
    PROVE  _enable_closure(g, S) = ClosureOver(g.edges, Cardinality(Vulns(g)), S)
BY Zenon DEF _enable_closure, Dsts, ClosureOver

(* Everything that admission reads of a world but its values.                           *)
SameWiring(g, h) ==
    /\ h.edges = g.edges /\ DOMAIN h.nodes = DOMAIN g.nodes
    /\ \A i \in DOMAIN g.nodes : h.nodes[i].kind = g.nodes[i].kind
    /\ \A kind, x : Dsts(h, kind, x) = Dsts(g, kind, x) /\ Srcs(h, kind, x) = Srcs(g, kind, x)
    /\ \A S : _enable_closure(h, S) = _enable_closure(g, S)
    /\ \A v \in Vulns(g) : h.nodes[v].flaw = g.nodes[v].flaw
    /\ \A t : Gates(g, t) \subseteq Vulns(g) /\ Gates(h, t) = Gates(g, t)
    /\ _oracle_path_targets(h) = _oracle_path_targets(g)

LEMMA RevaluedLinks ==
    ASSUME NEW g, Structured(g), NEW h, Revalued(g, h)
    PROVE  SameWiring(g, h)
<1>1. /\ h.edges = g.edges /\ DOMAIN h.nodes = DOMAIN g.nodes
      /\ \A v \in Vulns(g) : h.nodes[v].flaw = g.nodes[v].flaw
  BY DEF Revalued
<1>2. SameRead(g, h) BY RevaluedIs
<1>3. \A i \in DOMAIN g.nodes : h.nodes[i].kind = g.nodes[i].kind
  BY SameKind DEF Revalued, Structured, Framed
<1>4. \A kind, x : Dsts(h, kind, x) = Dsts(g, kind, x) /\ Srcs(h, kind, x) = Srcs(g, kind, x)
  BY <1>1 DEF Dsts, Srcs
<1>5. ASSUME NEW S PROVE _enable_closure(h, S) = _enable_closure(g, S)
  <2>1. Vulns(h) = Vulns(g) BY <1>2 DEF SameRead
  <2> QED BY <1>1, <2>1, ClosureIs
<1>6. ASSUME NEW t PROVE Srcs(g, "affects", t) \subseteq Vulns(g)
  BY DEF Structured, Framed, EdgeOK, SrcKind, Srcs, Vulns, by_kind
<1>7. \A t : Gates(g, t) \subseteq Vulns(g) /\ Gates(h, t) = Gates(g, t)
  BY <1>1, <1>4, <1>6 DEF Gates
<1>8. _oracle_path_targets(h) = _oracle_path_targets(g) BY <1>2, <1>4 DEF SameRead, _oracle_path_targets
<1> QED BY <1>1, <1>3, <1>4, <1>5, <1>7, <1>8 DEF SameWiring

(* The invariants that read no values.                                                  *)
LEMMA RevaluedInvariants ==
    ASSUME NEW g, Structured(g), NEW h, Revalued(g, h)
    PROVE  /\ WellTyped(g) => WellTyped(h)
           /\ no_orphan_nodes(g) => no_orphan_nodes(h)
           /\ secret_must_be_held(g) => secret_must_be_held(h)
           /\ oracle_path_exists(g) => oracle_path_exists(h)
           /\ unique_vuln_per_endpoint(g) => unique_vuln_per_endpoint(h)
           /\ sqli_targets_db_backed_service(g) => sqli_targets_db_backed_service(h)
           /\ credential_reuse_binding(g) => credential_reuse_binding(h)
<1>1. SameWiring(g, h) BY RevaluedLinks
<1>2. SameRead(g, h) /\ Structured(h) BY RevaluedIs
<1>3. /\ h.edges = g.edges /\ DOMAIN h.nodes = DOMAIN g.nodes /\ Vulns(h) = Vulns(g)
      /\ \A v \in Vulns(g) : h.nodes[v].flaw = g.nodes[v].flaw
      /\ \A kind, x : Dsts(h, kind, x) = Dsts(g, kind, x) /\ Srcs(h, kind, x) = Srcs(g, kind, x)
      /\ \A kind : Links(h, kind) = Links(g, kind)
  BY <1>1, <1>2 DEF SameWiring, SameRead
<1>4. WellTyped(g) => WellTyped(h) BY <1>1 DEF WellTyped, SameWiring, Range
<1>5. no_orphan_nodes(g) => no_orphan_nodes(h) BY <1>3 DEF no_orphan_nodes
<1>6. secret_must_be_held(g) => secret_must_be_held(h) BY <1>2, <1>3 DEF secret_must_be_held, SameRead
<1>7. oracle_path_exists(g) => oracle_path_exists(h)
  BY <1>1, <1>2, <1>3 DEF oracle_path_exists, SameWiring, SameRead
<1>8. unique_vuln_per_endpoint(g) => unique_vuln_per_endpoint(h)
  BY <1>2, <1>3 DEF unique_vuln_per_endpoint, SameRead
<1>9. sqli_targets_db_backed_service(g) => sqli_targets_db_backed_service(h)
  BY <1>2, <1>3 DEF sqli_targets_db_backed_service, SameRead
<1>10. ASSUME credential_reuse_binding(g) PROVE credential_reuse_binding(h)
  <2>1. ASSUME NEW e \in Links(h, "produces")
        PROVE  h.nodes[e.src].flaw \in {"credential_leak", "credential_gated_relay"}
    <3>1. e \in Links(g, "produces") BY <1>3
    <3>2. e.src \in Vulns(g)
      BY <3>1 DEF Structured, Framed, EdgeOK, SrcKind, Links, Vulns, by_kind
    <3>3. g.nodes[e.src].flaw \in {"credential_leak", "credential_gated_relay"}
      BY <1>10, <3>1 DEF credential_reuse_binding
    <3> QED BY <1>3, <3>2, <3>3
  <2>2. ASSUME NEW e \in Links(h, "requires_credential")
        PROVE  /\ Cardinality(Srcs(h, "produces", e.dst)) = 1 /\ Gates(h, e.src) # {}
               /\ \A p \in Srcs(h, "produces", e.dst), v \in Gates(h, e.src) :
                    p # v /\ v \in _enable_closure(h, Dsts(h, "enables", p))
    <3>1. e \in Links(g, "requires_credential") BY <1>3
    <3>2. Srcs(h, "produces", e.dst) = Srcs(g, "produces", e.dst) /\ Gates(h, e.src) = Gates(g, e.src)
      BY <1>1 DEF SameWiring
    <3>3. \A p : _enable_closure(h, Dsts(h, "enables", p)) = _enable_closure(g, Dsts(g, "enables", p))
      BY <1>1 DEF SameWiring
    <3>4. /\ Cardinality(Srcs(g, "produces", e.dst)) = 1 /\ Gates(g, e.src) # {}
          /\ \A p \in Srcs(g, "produces", e.dst), v \in Gates(g, e.src) :
               p # v /\ v \in _enable_closure(g, Dsts(g, "enables", p))
      BY <1>10, <3>1 DEF credential_reuse_binding
    <3> QED BY <3>2, <3>3, <3>4
  <2> QED BY <2>1, <2>2 DEF credential_reuse_binding
<1> QED BY <1>4, <1>5, <1>6, <1>7, <1>8, <1>9, <1>10

(* The tasks, and what makes them feasible.                                             *)
LEMMA RevaluedTasks ==
    ASSUME NEW g, Structured(g), NEW h, Revalued(g, h)
    PROVE  /\ Entrypoints(h) = Entrypoints(g)
           /\ \A t : check_feasibility(g, t) => check_feasibility(h, t)
<1>1. SameWiring(g, h) BY RevaluedLinks
<1>2. SameRead(g, h) BY RevaluedIs
<1>3. /\ Vulns(h) = Vulns(g) /\ FlagServices(h) = FlagServices(g) /\ PublicEndpoints(h) = PublicEndpoints(g)
      /\ \A v : Target(h, v) = Target(g, v) /\ HostOf(h, v) = HostOf(g, v)
      /\ \A kind, x : Dsts(h, kind, x) = Dsts(g, kind, x) /\ Srcs(h, kind, x) = Srcs(g, kind, x)
      /\ \A S : _enable_closure(h, S) = _enable_closure(g, S)
  BY <1>1, <1>2 DEF SameWiring, SameRead
<1>4. EntryCandidates(h) = EntryCandidates(g)
  <2>1. \A v : (\E w \in _enable_closure(h, {v}) : HostOf(h, w) \in FlagServices(h))
               <=> (\E w \in _enable_closure(g, {v}) : HostOf(g, w) \in FlagServices(g))
    BY <1>3
  <2> QED BY <1>3, <2>1 DEF EntryCandidates
<1>5. Entrypoints(h) = Entrypoints(g) BY <1>3, <1>4 DEF Entrypoints
<1>6. ASSUME NEW t, check_feasibility(g, t) PROVE check_feasibility(h, t)
  <2>1. PICK X : X = Srcs(g, "exposes", t) OBVIOUS
  <2>2. PICK E : E = {v \in Vulns(g) : Target(g, v) \in {t} \cup X} OBVIOUS
  <2>3. PICK C : C = _enable_closure(g, E) OBVIOUS
  <2>4. PICK R : R = X \cup {HostOf(g, v) : v \in C} OBVIOUS
  <2>5. /\ E # {}
        /\ \E s \in R : \E d \in Dsts(g, "backed_by", s) :
             \E r \in Dsts(g, "contains", d) : flag_id \in Dsts(g, "holds", r)
    BY <1>6, <2>1, <2>2, <2>3, <2>4 DEF check_feasibility
  <2>6. X = Srcs(h, "exposes", t) BY <1>3, <2>1
  <2>7. E = {v \in Vulns(h) : Target(h, v) \in {t} \cup X} BY <1>3, <2>2
  <2>8. C = _enable_closure(h, E) BY <1>3, <2>3
  <2>9. R = X \cup {HostOf(h, v) : v \in C} BY <1>3, <2>4
  <2>10. \E s \in R : \E d \in Dsts(h, "backed_by", s) :
           \E r \in Dsts(h, "contains", d) : flag_id \in Dsts(h, "holds", r)
    BY <1>3, <2>5
  <2> QED BY <2>5, <2>6, <2>7, <2>8, <2>9, <2>10 DEF check_feasibility
<1> QED BY <1>5, <1>6

(* The invariants that read values: a gate asks for what was given away, and the flag   *)
(* is a handler's nowhere.                                                             *)
LEMMA FreshenedBound ==
    ASSUME NEW g, Structured(g), NEW n, NEW h, NEW f, Freshened(g, h, f, n), credential_value_binding(g)
    PROVE  credential_value_binding(h)
<1>1. Revalued(g, h) /\ Renamed(g, h, f) BY DEF Freshened
<1>2. SameWiring(g, h) /\ SameRead(g, h) BY <1>1, RevaluedLinks, RevaluedIs
<1>3. ASSUME NEW v \in Vulns(g) PROVE Emitted(h, v) = f[Emitted(g, v)]
  <2>1. h.nodes[v].flaw = g.nodes[v].flaw BY <1>2 DEF SameWiring
  <2> QED BY <1>1, <2>1 DEF Renamed, Emitted
<1>4. ASSUME NEW kind \in {"produces", "requires_credential"}, NEW e \in Links(g, kind)
      PROVE  h.nodes[e.dst].value = f[g.nodes[e.dst].value]
  <2>1. e.dst \in DOMAIN g.nodes /\ g.nodes[e.dst].kind = "credential"
    BY DEF Structured, Framed, EdgeOK, DstKind, Links
  <2> QED BY <2>1 DEF Freshened
<1>5. ASSUME NEW e \in Links(h, "produces") PROVE Emitted(h, e.src) = h.nodes[e.dst].value
  <2>1. e \in Links(g, "produces") BY <1>2 DEF SameRead
  <2>2. e.src \in Vulns(g) BY <2>1 DEF Structured, Framed, EdgeOK, SrcKind, Links, Vulns, by_kind
  <2>3. Emitted(g, e.src) = g.nodes[e.dst].value BY <2>1 DEF credential_value_binding
  <2>4. h.nodes[e.dst].value = f[g.nodes[e.dst].value] BY <1>4, <2>1
  <2> QED BY <1>3, <2>2, <2>3, <2>4
<1>6. ASSUME NEW e \in Links(h, "requires_credential"), NEW v \in Gates(h, e.src)
      PROVE  h.nodes[v].params.credential = h.nodes[e.dst].value
  <2>1. e \in Links(g, "requires_credential") BY <1>2 DEF SameRead
  <2>2. v \in Gates(g, e.src) /\ v \in Vulns(g) BY <1>2 DEF SameWiring
  <2>3. g.nodes[v].params.credential = g.nodes[e.dst].value BY <2>1, <2>2 DEF credential_value_binding
  <2>4. h.nodes[e.dst].value = f[g.nodes[e.dst].value] BY <1>4, <2>1
  <2>5. h.nodes[v].params.credential = f[g.nodes[v].params.credential] BY <1>1, <2>2 DEF Renamed
  <2> QED BY <2>3, <2>4, <2>5
<1> QED BY <1>5, <1>6 DEF credential_value_binding

LEMMA FreshenedConfined ==
    ASSUME NEW g, Structured(g), NEW n \in Nat, Borne(g, n), NEW h, NEW f, Freshened(g, h, f, n + 1),
           flag_confined_to_gate(g)
    PROVE  flag_confined_to_gate(h)
<1>1. SUFFICES ASSUME OfKind(h, "credential_gated_flag") # {}, NEW i \in DOMAIN h.nodes \ {flag_id}
               PROVE  h.nodes[flag_id].value \notin Carried(h.nodes[i])
  BY DEF flag_confined_to_gate
<1>2. SameRead(g, h) /\ DOMAIN h.nodes = DOMAIN g.nodes BY RevaluedIs DEF Freshened, Revalued
<1>3. i \in DOMAIN g.nodes /\ i # flag_id /\ OfKind(g, "credential_gated_flag") # {}
  BY <1>1, <1>2 DEF SameRead
<1>4. OldFlag(g) \notin Carried(g.nodes[i]) BY <1>3 DEF flag_confined_to_gate, OldFlag
<1>5. flag_id \in DOMAIN g.nodes /\ g.nodes[flag_id].kind = "secret" BY HeldIs
<1>6. h.nodes[flag_id].value = f[OldFlag(g)] BY <1>5 DEF Freshened, OldFlag
<1>7. Carried(h.nodes[i]) = {f[x] : x \in Carried(g.nodes[i])}
  <2>1. PICK m : m = n + 1 OBVIOUS
  <2>2. Freshened(g, h, f, m) BY <2>1
  <2>3. \A j \in DOMAIN g.nodes : Carried(h.nodes[j]) = {f[x] : x \in Carried(g.nodes[j])}
    BY <2>2, FreshenedCarries
  <2> QED BY <1>3, <2>3, Zenon
<1>8. ASSUME NEW x \in Carried(g.nodes[i]) PROVE f[x] # f[OldFlag(g)]
  <2>1. x \in AllCarried(g) BY <1>3 DEF AllCarried
  <2>2. x # OldFlag(g) BY <1>4
  <2> QED BY <2>1, <2>2, FreshValue
<1> QED BY <1>6, <1>7, <1>8

LEMMA FreshenedAdmits ==
    ASSUME NEW g, Structured(g), NEW n \in Nat, Borne(g, n), NEW h, NEW f, Freshened(g, h, f, n + 1), Admits(g)
    PROVE  Admits(h)
<1>1. Revalued(g, h) BY DEF Freshened
<1>2. /\ WellTyped(g) /\ no_orphan_nodes(g) /\ secret_must_be_held(g) /\ oracle_path_exists(g)
      /\ unique_vuln_per_endpoint(g) /\ sqli_targets_db_backed_service(g) /\ credential_reuse_binding(g)
  BY DEF Admits
<1>3. /\ WellTyped(h) /\ no_orphan_nodes(h) /\ secret_must_be_held(h) /\ oracle_path_exists(h)
      /\ unique_vuln_per_endpoint(h) /\ sqli_targets_db_backed_service(h) /\ credential_reuse_binding(h)
  BY <1>1, <1>2, RevaluedInvariants
<1>4. credential_value_binding(h) BY FreshenedBound DEF Admits
<1>5. flag_confined_to_gate(h) BY FreshenedConfined DEF Admits
<1>6. Entrypoints(h) # {} /\ \A e \in Entrypoints(h) : check_feasibility(h, e)
  BY <1>1, RevaluedTasks DEF Admits
<1> QED BY <1>3, <1>4, <1>5, <1>6 DEF Admits

-----------------------------------------------------------------------------
(* What every reachable draft and world bears, and that worlds are admitted.           *)

ValueInv ==
    /\ stage # "services" => Borne(graph, between)
    /\ stage = "world" => Admits(graph)

LEMMA BorneLater ==
    ASSUME NEW g, NEW n \in Nat, Borne(g, n)
    PROVE  Borne(g, n + 1)
<1>1. SUFFICES ASSUME NEW i \in DOMAIN g.nodes, Bears(g.nodes[i], n) PROVE Bears(g.nodes[i], n + 1)
  BY DEF Borne, AllBear
<1>2. PICK x : x = g.nodes[i] OBVIOUS
<1>3. \A y : TokenLike(y, n) => TokenLike(y, n + 1) BY TokensAge
<1>4. \A y \in FlagValues(n) : y \in FlagValues(n + 1) BY FlagsAge
<1>5. Bears(x, n) BY <1>1, <1>2
<1>6. Bears(x, n + 1) BY <1>3, <1>4, <1>5 DEF Bears, ParamsBear
<1> QED BY <1>2, <1>6

LEMMA SampleBears == WorldInv /\ ValueInv /\ SampleServices => ValueInv'
<1> SUFFICES ASSUME WorldInv, SampleServices PROVE ValueInv' OBVIOUS
<1>1. between \in Nat BY BoundAssumption DEF WorldInv
<1>2. stage' = "vulns" /\ between' = between
      /\ \E layout, engine, deepest : graph' = Skeleton(layout, deepest, engine)
  BY DEF SampleServices
<1>3. Borne(graph', between) BY <1>1, <1>2, SkeletonBorne
<1> QED BY <1>2, <1>3 DEF ValueInv

LEMMA PlaceBears == WorldInv /\ ValueInv /\ (PlaceOracle \/ PlaceVuln) => ValueInv'
<1> SUFFICES ASSUME WorldInv, ValueInv, PlaceOracle \/ PlaceVuln PROVE ValueInv' OBVIOUS
<1>1. stage = "vulns" /\ stage' = stage /\ between' = between BY DEF PlaceOracle, PlaceVuln
<1>2. /\ Structured(graph) /\ Drafted(graph, draws) /\ prior \in Priors
      /\ between \in Nat /\ Borne(graph, between)
  BY <1>1, BoundAssumption DEF WorldInv, ValueInv
<1>3. CASE PlaceOracle
  <2>1. PICK oracle \in _forced_oracle(graph, Pool(prior)) : graph' = Placed(graph, oracle[1], 0, oracle[2])
    BY <1>3 DEF PlaceOracle
  <2>2. oracle[2] \in by_kind(graph, "endpoint") BY <1>2, OracleIs
  <2>3. Framed(graph) BY <1>2 DEF Structured
  <2>4. PICK e : e = oracle[2] OBVIOUS
  <2>5. Borne(Placed(graph, oracle[1], 0, e), between) BY <1>2, <2>2, <2>3, <2>4, PlacedBorne
  <2> QED BY <1>1, <2>1, <2>4, <2>5 DEF ValueInv
<1>4. CASE PlaceVuln
  <2>1. PICK kind \in Pool(prior) :
          \E e \in _eligible_endpoints_for(graph, kind, by_kind(graph, "endpoint")) :
            graph' = IF \E v \in OfKind(graph, kind) : Target(graph, v) = e THEN graph
                     ELSE Placed(graph, kind, draws, e)
    BY <1>4 DEF PlaceVuln
  <2>2. PICK e \in _eligible_endpoints_for(graph, kind, by_kind(graph, "endpoint")) :
          graph' = graph \/ graph' = Placed(graph, kind, draws, e)
    BY <2>1
  <2>3. e \in by_kind(graph, "endpoint") BY DEF _eligible_endpoints_for
  <2>4. Framed(graph) BY <1>2 DEF Structured
  <2>5. Borne(Placed(graph, kind, draws, e), between) BY <1>2, <2>3, <2>4, PlacedBorne
  <2> QED BY <1>1, <1>2, <2>2, <2>5 DEF ValueInv
<1> QED BY <1>3, <1>4

LEMMA ComposeBears == WorldInv /\ ValueInv /\ Compose => ValueInv'
<1> SUFFICES ASSUME WorldInv, ValueInv, Compose PROVE ValueInv' OBVIOUS
<1>1. stage = "vulns" /\ stage' = "admission" /\ between' = between BY DEF Compose
<1>2. Borne(graph', between) BY <1>1, ComposeBorne DEF ValueInv
<1> QED BY <1>1, <1>2 DEF ValueInv

LEMMA AdmissionBears == ValueInv /\ Admission => ValueInv'
<1> SUFFICES ASSUME ValueInv, Admission PROVE ValueInv' OBVIOUS
<1>1. stage = "admission" /\ between' = between
      /\ (Admits(graph) => stage' = "world" /\ graph' = graph)
      /\ (~Admits(graph) => stage' = "services")
  BY DEF Admission
<1> QED BY <1>1 DEF ValueInv

LEMMA EvolveBears == WorldInv /\ ValueInv /\ Evolve => ValueInv'
<1> SUFFICES ASSUME WorldInv, ValueInv, Evolve PROVE ValueInv' OBVIOUS
<1>1. stage = "world" /\ stage' = stage /\ between' = between BY DEF Evolve
<1>2. PICK m \in Admissible(graph) : graph' = apply_patch(graph, m.patch) BY DEF Evolve
<1>3. ~Collides(graph, m.patch) /\ Admits(graph') /\ \E requests : m \in available_mutations(graph, requests)
  BY <1>2 DEF Admissible
<1>4. PICK requests : m \in available_mutations(graph, requests) BY <1>3
<1>5. Framed(graph) /\ between \in Nat /\ Borne(graph, between)
  BY <1>1, BoundAssumption DEF WorldInv, ValueInv, Structured
<1>6. PatchBears(m.patch, between) BY <1>4, <1>5, MutationBears
<1>7. Borne(graph', between) BY <1>2, <1>3, <1>5, <1>6, PatchBorne
<1> QED BY <1>1, <1>3, <1>7 DEF ValueInv

(* Both steps that bring fresh values.                                                  *)
LEMMA FreshStep ==
    ASSUME WorldInv, ValueInv, Reseed \/ Replant
    PROVE  \E f : Freshened(graph, graph', f, between + 1)
<1>1. Structured(graph) /\ between \in Nat /\ between + 1 \in Nat /\ Borne(graph, between)
  BY BoundAssumption DEF WorldInv, ValueInv, Reseed, Replant
<1>2. CASE Reseed BY <1>1, <1>2, ReseedFreshens DEF Reseed
<1>3. CASE Replant BY <1>1, <1>3, ReplantFreshens DEF Replant
<1> QED BY <1>2, <1>3

LEMMA FreshBears == WorldInv /\ ValueInv /\ (Reseed \/ Replant) => ValueInv'
<1> SUFFICES ASSUME WorldInv, ValueInv, Reseed \/ Replant PROVE ValueInv' OBVIOUS
<1>1. stage = "world" /\ stage' = stage /\ between' = between + 1 BY DEF Reseed, Replant
<1>2. Structured(graph) /\ between \in Nat /\ Borne(graph, between) /\ Admits(graph)
  BY <1>1, BoundAssumption DEF WorldInv, ValueInv
<1>3. PICK f : Freshened(graph, graph', f, between + 1) BY FreshStep
<1>4. Borne(graph', between + 1) BY <1>2, <1>3, FreshenedBorne
<1>5. Admits(graph') BY <1>2, <1>3, FreshenedAdmits
<1> QED BY <1>1, <1>4, <1>5 DEF ValueInv

LEMMA ReloadBears == WorldInv /\ ValueInv /\ Reload => ValueInv'
<1> SUFFICES ASSUME WorldInv, ValueInv, Reload PROVE ValueInv' OBVIOUS
<1>1. stage = "world" /\ stage' = stage /\ graph' = graph /\ between' = between + 1 BY DEF Reload
<1>2. between \in Nat /\ Borne(graph, between) /\ Admits(graph)
  BY <1>1, BoundAssumption DEF WorldInv, ValueInv
<1>3. Borne(graph', between + 1) BY <1>1, <1>2, BorneLater
<1> QED BY <1>1, <1>2, <1>3 DEF ValueInv

LEMMA ValuesKept == WorldInv /\ ValueInv /\ [Next]_vars => ValueInv'
<1> SUFFICES ASSUME WorldInv, ValueInv, [Next]_vars PROVE ValueInv' OBVIOUS
<1>1. CASE SampleServices BY <1>1, SampleBears
<1>2. CASE PlaceOracle \/ PlaceVuln BY <1>2, PlaceBears
<1>3. CASE Compose BY <1>3, ComposeBears
<1>4. CASE Admission BY <1>4, AdmissionBears
<1>5. CASE Evolve BY <1>5, EvolveBears
<1>6. CASE Reseed \/ Replant BY <1>6, FreshBears
<1>7. CASE Reload BY <1>7, ReloadBears
<1>8. CASE UNCHANGED vars BY <1>8 DEF vars, ValueInv
<1> QED BY <1>1, <1>2, <1>3, <1>4, <1>5, <1>6, <1>7, <1>8 DEF Next

(* A world is admitted, and stays so.                                                  *)
FreshStepIsComplete ==
    (stage = "world" /\ graph' # graph /\ evolved' = evolved) =>
      /\ Admits(graph')
      /\ graph.nodes[flag_id].value \notin AllCarried(graph')
      /\ Tokens(graph') # Tokens(graph) => Tokens(graph) \cap AllCarried(graph') = {}
      /\ (prior.company /\ ~loaded) => Solved(graph', order')

LEMMA StepIsComplete == WorldInv /\ ValueInv /\ [Next]_vars => FreshStepIsComplete
<1> SUFFICES ASSUME WorldInv, ValueInv, [Next]_vars, stage = "world", graph' # graph, evolved' = evolved
             PROVE  /\ Admits(graph')
                    /\ graph.nodes[flag_id].value \notin AllCarried(graph')
                    /\ Tokens(graph') # Tokens(graph) => Tokens(graph) \cap AllCarried(graph') = {}
                    /\ (prior.company /\ ~loaded) => Solved(graph', order')
  BY DEF FreshStepIsComplete
<1>1. Reseed \/ Replant
  <2>1. stage \notin {"services", "vulns", "admission"} OBVIOUS
  <2>2. ~Evolve
    <3>1. evolved \in Nat BY BoundAssumption DEF WorldInv
    <3> QED BY <3>1 DEF Evolve
  <2>3. ~Reload BY DEF Reload
  <2>4. ~UNCHANGED vars BY DEF vars
  <2>5. ~SampleServices /\ ~PlaceOracle /\ ~PlaceVuln /\ ~Compose /\ ~Admission
    BY <2>1 DEF SampleServices, PlaceOracle, PlaceVuln, Compose, Admission
  <2> QED BY <2>2, <2>3, <2>4, <2>5 DEF Next
<1>2. Structured(graph) /\ between \in Nat /\ Borne(graph, between) BY BoundAssumption DEF WorldInv, ValueInv
<1>3. PICK f : Freshened(graph, graph', f, between + 1) BY <1>1, FreshStep
<1>4. /\ OldFlag(graph) \notin AllCarried(graph')
      /\ Tokens(graph') # Tokens(graph) => Tokens(graph) \cap AllCarried(graph') = {}
  BY <1>2, <1>3, FreshenedAll
<1>5. graph.nodes[flag_id].value \notin AllCarried(graph') BY <1>4 DEF OldFlag
<1>6. WorldInv' /\ ValueInv' BY InvariantKept, ValuesKept
<1>7. UNCHANGED <<prior, stage, order, loaded>> BY <1>1 DEF Reseed, Replant
<1>8. Admits(graph') BY <1>6, <1>7 DEF ValueInv
<1>9. ASSUME prior.company, ~loaded PROVE Solved(graph', order')
  <2>1. Structured(graph') /\ Company(graph') /\ Served(graph', order')
    BY <1>6, <1>7, <1>9 DEF WorldInv
  <2> QED BY <2>1, CompanySolved
<1> QED BY <1>4, <1>5, <1>8, <1>9

(* ReseedIsComplete: of the flag that is planted anew, and of the tokens that change     *)
(* with it, no handler, record or credential keeps a copy; and the world with the fresh   *)
(* values passes admission, and is solved as the one it comes from was, whatever the      *)
(* mutations before.                                                                   *)
THEOREM WorldReseedIsComplete == Spec => ReseedIsComplete
<1>1. Init => ValueInv BY DEF Init, ValueInv
<1>2. WorldInv /\ ValueInv /\ [Next]_vars => WorldInv' /\ ValueInv' BY InvariantKept, ValuesKept
<1>3. WorldInv /\ ValueInv /\ [Next]_vars => [FreshStepIsComplete]_vars BY StepIsComplete
<1> QED BY <1>1, <1>2, <1>3, InitOK, PTL DEF Spec, ReseedIsComplete, FreshStepIsComplete


-----------------------------------------------------------------------------
(* The walk along the enables edges, and the difficulty that goes with its hops.       *)

GateAfter(g, before) ==
    LET after == IF before = NoVuln THEN {} ELSE GatedBy(g, before)
    IN IF after = {} THEN NoVuln ELSE CHOOSE w \in after : TRUE

GateStep(g, leak, f, n) == IF n = 0 THEN leak ELSE GateAfter(g, f[n - 1])

Passing(g, leak, K, f) == f = [n \in 0 .. K |-> GateStep(g, leak, f, n)]
TheGates(g, leak, K) == CHOOSE f : Passing(g, leak, K, f)

HopsOf(g, f, K) == [n \in 1 .. Cardinality({i \in 1 .. K : f[i] # NoVuln}) |-> HopAt(g, f[n])]

LEMMA PassingUnique ==
    ASSUME NEW g, NEW leak, NEW K \in Nat, NEW f, Passing(g, leak, K, f), NEW h, Passing(g, leak, K, h)
    PROVE  f = h
<1>1. \A n \in 0 .. K : f[n] = GateStep(g, leak, f, n) /\ h[n] = GateStep(g, leak, h, n) BY DEF Passing
<1>2. SUFFICES ASSUME \E n \in 0 .. K : f[n] # h[n] PROVE FALSE
  <2>1. \A n \in 0 .. K : f[n] = h[n] BY <1>2
  <2>2. PICK F, H : F = [n \in 0 .. K |-> GateStep(g, leak, f, n)] /\ H = [n \in 0 .. K |-> GateStep(g, leak, h, n)]
    OBVIOUS
  <2>3. DOMAIN F = 0 .. K /\ DOMAIN H = 0 .. K /\ F = f /\ H = h BY <2>2 DEF Passing
  <2>4. F = [n \in 0 .. K |-> F[n]] /\ H = [n \in 0 .. K |-> H[n]] BY <2>2
  <2> QED BY <2>1, <2>3, <2>4
<1> DEFINE S == {n \in 0 .. K : f[n] # h[n]}
<1>3. S \subseteq Nat /\ S # {} BY <1>2
<1>4. PICK m \in S : \A n \in S : m <= n
  <2> HIDE DEF S
  <2> QED BY <1>3, LeastNat
<1>5. CASE m = 0 BY <1>1, <1>4, <1>5 DEF GateStep
<1>6. CASE m # 0
  <2>1. m \in 0 .. K /\ m - 1 \in 0 .. K /\ ~(m <= m - 1) BY <1>4, <1>6
  <2>2. f[m - 1] = h[m - 1] BY <1>4, <2>1
  <2>3. GateStep(g, leak, f, m) = GateStep(g, leak, h, m) BY <1>6, <2>2 DEF GateStep
  <2> QED BY <1>1, <1>4, <2>1, <2>3
<1> QED BY <1>5, <1>6

LEMMA HopWalkIs ==
    ASSUME NEW g, IsChain(g), NEW K \in Nat, K = Cardinality(Vulns(g)),
           NEW leak, leak = First(OfKind(g, "credential_leak")), NEW f, Passing(g, leak, K, f)
    PROVE  _credential_walk(g) = HopsOf(g, f, K)
<1>1. PICK h : h = TheGates(g, leak, K) OBVIOUS
<1>2. Passing(g, leak, K, h) BY <1>1 DEF TheGates
<1>3. h = f BY <1>2, PassingUnique
<1>4. _credential_walk(g)
      = HopsOf(g, TheGates(g, First(OfKind(g, "credential_leak")), Cardinality(Vulns(g))), Cardinality(Vulns(g)))
  BY Zenon DEF _credential_walk, TheGates, Passing, GateStep, GateAfter, HopsOf, HopAt
<1> QED BY <1>1, <1>3, <1>4

(* A hop enables the next, and the gate of the flag none.                              *)
LEMMA GatedIs ==
    ASSUME NEW g, Structured(g), NEW c \in Seq(Vulns(g)), Chain(g, c), NEW n \in 1 .. Len(c)
    PROVE  GatedBy(g, c[n]) = IF n < Len(c) THEN {c[n + 1]} ELSE {}
<1>1. ChainNodes(g, c) /\ ChainHosts(g, c) /\ ChainLinks(g, c) BY DEF Chain
<1>2. Len(c) \in Nat /\ Len(c) >= 2 BY <1>1 DEF ChainNodes
<1>3. \A i \in 1 .. Len(c) : c[i] \in Vulns(g) OBVIOUS
<1>4. ASSUME NEW w \in GatedBy(g, c[n]) PROVE n < Len(c) /\ w = c[n + 1]
  <2>1. w \in Dsts(g, "enables", c[n]) /\ g.nodes[w].flaw \in GateFlaws BY DEF GatedBy, GateFlaws
  <2>2. PICK e \in Links(g, "enables") : e.src = c[n] /\ e.dst = w BY <2>1 DEF Dsts, Links
  <2>3. PICK i \in 1 .. Len(c) - 1 : e.src = c[i] /\ e.dst = c[i + 1] BY <1>1, <2>1, <2>2 DEF ChainLinks
  <2>4. i \in 1 .. Len(c) /\ i < Len(c) BY <1>2, <2>3
  <2>5. i = n BY <1>1, <2>2, <2>3, <2>4 DEF ChainHosts
  <2> QED BY <2>2, <2>3, <2>4, <2>5
<1>5. CASE n < Len(c)
  <2>1. n \in 1 .. Len(c) - 1 /\ n + 1 \in 1 .. Len(c) /\ n + 1 # 1 BY <1>2, <1>5
  <2>2. PICK e \in DOMAIN g.edges : g.edges[e].kind = "enables" /\ g.edges[e] = Edge("enables", c[n], c[n + 1])
    BY <1>1, <2>1 DEF ChainLinks, Links
  <2>3. c[n + 1] \in Dsts(g, "enables", c[n])
    <3>1. g.edges[e].src = c[n] /\ g.edges[e].dst = c[n + 1] BY <2>2, EdgeFields
    <3> QED BY <2>2, <3>1 DEF Dsts
  <2>4. g.nodes[c[n + 1]].flaw \in {"credential_gated_relay", "credential_gated_flag"}
    <3>1. CASE n + 1 = Len(c) BY <1>1, <3>1 DEF ChainNodes
    <3>2. CASE n + 1 # Len(c)
      <4>1. n + 1 \in 2 .. Len(c) - 1 BY <1>2, <2>1, <3>2
      <4> QED BY <1>1, <4>1 DEF ChainNodes
    <3> QED BY <3>1, <3>2
  <2>5. c[n + 1] \in GatedBy(g, c[n]) BY <2>3, <2>4 DEF GatedBy
  <2> QED BY <1>4, <1>5, <2>5
<1>6. CASE ~(n < Len(c)) BY <1>4, <1>6
<1> QED BY <1>5, <1>6

LEMMA NoneIsNoVuln ==
    ASSUME NEW g, Structured(g)
    PROVE  NoVuln \notin Vulns(g)
<1>1. Vulns(g) \subseteq VulnIds BY KindSets DEF Structured, Framed
<1>2. NoVuln \notin VulnIds BY DEF NoVuln, VulnIds, Flaws, CATALOG
<1> QED BY <1>1, <1>2

(* The walk of a chain: what its gates are and ask for, after the leak.                *)
LEMMA ChainHops ==
    ASSUME NEW g, Structured(g), NEW c \in Seq(Vulns(g)), Chain(g, c)
    PROVE  IsChain(g) /\ _credential_walk(g) = Hops(g, c)
<1>1. ChainNodes(g, c) /\ ChainHosts(g, c) BY DEF Chain
<1>2. PICK K : K = Cardinality(Vulns(g)) OBVIOUS
<1>3. PICK n : n = Len(c) OBVIOUS
<1>4. K \in Nat /\ n \in Nat /\ n >= 2 /\ n <= K
  <2>1. n \in Nat /\ n >= 2 BY <1>1, <1>3 DEF ChainNodes
  <2>2. K \in Nat /\ n <= K BY <1>1, <1>2, <1>3, ChainCount
  <2> QED BY <2>1, <2>2
<1>5. \A i \in 1 .. n : c[i] \in Vulns(g) /\ c[i] # NoVuln BY <1>3, NoneIsNoVuln
<1>6. First(OfKind(g, "credential_leak")) = c[1] /\ IsChain(g) BY <1>1, LeakIs DEF IsChain
<1> DEFINE at(i) == IF i < n THEN c[i + 1] ELSE NoVuln
<1>7. PICK f : f = [i \in 0 .. K |-> at(i)] OBVIOUS
<1>8. ASSUME NEW i \in 1 .. K PROVE GateAfter(g, at(i - 1)) = at(i)
  <2>1. CASE i > n
    <3>1. at(i - 1) = NoVuln /\ at(i) = NoVuln BY <1>4, <2>1
    <3> HIDE DEF at
    <3> QED BY <3>1 DEF GateAfter
  <2>2. CASE i <= n
    <3>1. i \in 1 .. n /\ i - 1 < n /\ (i - 1) + 1 = i BY <1>4, <2>2
    <3>2. at(i - 1) = c[i] BY <3>1
    <3>3. GatedBy(g, c[i]) = IF i < n THEN {c[i + 1]} ELSE {} BY <1>3, <3>1, GatedIs
    <3>4. (CHOOSE v \in {c[i + 1]} : TRUE) = c[i + 1] OBVIOUS
    <3>5. CASE i < n
      <4>1. at(i) = c[i + 1] BY <3>5
      <4> HIDE DEF at
      <4> QED BY <1>5, <3>1, <3>2, <3>3, <3>4, <3>5, <4>1 DEF GateAfter
    <3>6. CASE ~(i < n)
      <4>1. at(i) = NoVuln BY <3>6
      <4> HIDE DEF at
      <4> QED BY <1>5, <3>1, <3>2, <3>3, <3>6, <4>1 DEF GateAfter
    <3> QED BY <3>5, <3>6
  <2> QED BY <1>4, <2>1, <2>2
<1>9. at(0) = c[1] BY <1>4
<1>10. \A i \in 1 .. n - 1 : at(i) = c[i + 1] /\ c[i + 1] # NoVuln /\ i \in 0 .. K BY <1>4, <1>5
<1>11. \A i \in 1 .. K : i >= n => at(i) = NoVuln BY <1>4
<1> HIDE DEF at
<1>12. ASSUME NEW i \in 0 .. K PROVE GateStep(g, c[1], f, i) = at(i)
  <2>1. CASE i = 0 BY <1>9, <2>1 DEF GateStep
  <2>2. CASE i # 0
    <3>1. i \in 1 .. K /\ i - 1 \in 0 .. K BY <1>4, <2>2
    <3>2. f[i - 1] = at(i - 1) BY <1>7, <3>1
    <3> QED BY <1>8, <2>2, <3>1, <3>2 DEF GateStep
  <2> QED BY <2>1, <2>2
<1>13. Passing(g, c[1], K, f) BY <1>7, <1>12 DEF Passing
<1>14. _credential_walk(g) = HopsOf(g, f, K) BY <1>2, <1>4, <1>6, <1>13, HopWalkIs
<1>15. \A i \in 0 .. K : f[i] = at(i) BY <1>7
<1>16. {i \in 1 .. K : f[i] # NoVuln} = 1 .. n - 1
  <2>1. \A i \in 1 .. K : f[i] # NoVuln <=> i \in 1 .. n - 1 BY <1>4, <1>10, <1>11, <1>15
  <2>2. 1 .. n - 1 \subseteq 1 .. K BY <1>4
  <2> QED BY <2>1, <2>2
<1>17. Cardinality(1 .. n - 1) = n - 1
  <2>1. 1 \in Int /\ n - 1 \in Int /\ ~(1 > n - 1) /\ (n - 1) - 1 + 1 = n - 1 BY <1>4
  <2> QED BY <2>1, FS_Interval
<1>18. HopsOf(g, f, K) = [i \in 1 .. n - 1 |-> HopAt(g, f[i])] BY <1>16, <1>17 DEF HopsOf
<1>19. \A i \in 1 .. n - 1 : f[i] = c[i + 1] BY <1>10, <1>15
<1> QED BY <1>3, <1>6, <1>14, <1>18, <1>19 DEF Hops


LEMMA LongerBy ==
    ASSUME NEW S, NEW s \in Seq(S), NEW t \in Seq(S), Len(t) = Len(s) + 1, \A i \in 1 .. Len(s) : t[i] = s[i]
    PROVE  Front(t) = s /\ SubSeq(t, 1, Len(s)) = s
<1>1. PICK u : u = SubSeq(t, 1, Len(s)) OBVIOUS
<1>2. Len(s) \in Nat /\ Len(t) - 1 = Len(s) OBVIOUS
<1>3. u \in Seq(S) /\ Len(u) = Len(s) /\ \A i \in 1 .. Len(s) : u[i] = t[i] BY <1>1, <1>2
<1>4. u = s BY <1>3
<1> QED BY <1>1, <1>2, <1>4 DEF Front

LEMMA HopsAreSeq ==
    ASSUME NEW g, NEW c, NEW n \in Nat, n = Len(c), n >= 1
    PROVE  /\ \A S : (\A i \in 2 .. n : HopAt(g, c[i]) \in S) => Hops(g, c) \in Seq(S)
           /\ Len(Hops(g, c)) = n - 1 /\ DOMAIN Hops(g, c) = 1 .. n - 1
           /\ \A i \in 1 .. n - 1 : Hops(g, c)[i] = HopAt(g, c[i + 1])
<1>1. Hops(g, c) = [i \in 1 .. n - 1 |-> HopAt(g, c[i + 1])] BY DEF Hops
<1>2. PICK s : s = Hops(g, c) OBVIOUS
<1>3. n - 1 \in Nat /\ \A i \in 1 .. n - 1 : i + 1 \in 2 .. n OBVIOUS
<1>4. ASSUME NEW S, \A i \in 2 .. n : HopAt(g, c[i]) \in S PROVE s \in Seq(S) /\ Len(s) = n - 1
  <2>1. s \in [1 .. n - 1 -> S] BY <1>1, <1>2, <1>3, <1>4
  <2> QED BY <1>3, <2>1
<1>5. Len(s) = n - 1
  <2>1. PICK S : S = {HopAt(g, c[i]) : i \in 2 .. n} OBVIOUS
  <2>2. \A i \in 2 .. n : HopAt(g, c[i]) \in S BY <2>1
  <2> QED BY <1>4, <2>2
<1> QED BY <1>1, <1>2, <1>4, <1>5

(* How the walk changes with a chain of m vulnerabilities that becomes one of n.       *)
Moved(was, is, m, n) ==
    /\ Len(was) = m - 1 /\ Len(is) = n - 1 /\ was # <<>>
    /\ n = m => is = was
    /\ n = m + 1 => is # <<>> /\ Front(is) = was /\ SubSeq(is, 1, Len(was)) = was
    /\ n = m - 1 => is = Front(was)

LEMMA HopsMove ==
    ASSUME NEW g, NEW h, NEW c \in Seq(Vulns(g)), Chain(g, c), NEW k, Rechained(g, h, c, k),
           NEW was, was = Hops(g, c), NEW is, is = Hops(h, k), NEW m, m = Len(c), NEW n, n = Len(k)
    PROVE  Moved(was, is, m, n)
<1>1. m = Len(c) /\ n = Len(k) OBVIOUS
<1>2. m \in Nat /\ n \in Nat /\ m >= 2 /\ n >= 2 BY <1>1 DEF Chain, ChainNodes, Rechained
<1>3. /\ Len(was) = m - 1 /\ DOMAIN was = 1 .. m - 1
      /\ \A i \in 1 .. m - 1 : was[i] = HopAt(g, c[i + 1])
      /\ \A S : (\A i \in 2 .. m : HopAt(g, c[i]) \in S) => was \in Seq(S)
  <2>1. m >= 1 BY <1>2
  <2> QED BY <1>1, <1>2, <2>1, HopsAreSeq, Zenon
<1>4. /\ Len(is) = n - 1 /\ DOMAIN is = 1 .. n - 1
      /\ \A i \in 1 .. n - 1 : is[i] = HopAt(h, k[i + 1])
      /\ \A S : (\A i \in 2 .. n : HopAt(h, k[i]) \in S) => is \in Seq(S)
  <2>1. n >= 1 BY <1>2
  <2> QED BY <1>1, <1>2, <2>1, HopsAreSeq, Zenon
<1>5. PICK S : (\A i \in 2 .. m : HopAt(g, c[i]) \in S) /\ (\A i \in 2 .. n : HopAt(h, k[i]) \in S)
  <2>1. PICK A, B : A = {HopAt(g, c[i]) : i \in 2 .. m} /\ B = {HopAt(h, k[i]) : i \in 2 .. n} OBVIOUS
  <2>2. (\A i \in 2 .. m : HopAt(g, c[i]) \in A \cup B) /\ (\A i \in 2 .. n : HopAt(h, k[i]) \in A \cup B) BY <2>1
  <2> QED BY <2>2
<1>6. was \in Seq(S) /\ is \in Seq(S) BY <1>3, <1>4, <1>5
<1>7. \A i \in 2 .. m : i <= n => HopAt(h, k[i]) = HopAt(g, c[i]) BY <1>1 DEF Rechained
<1>8. ASSUME NEW i \in 1 .. m - 1, i \in 1 .. n - 1 PROVE is[i] = was[i]
  <2>1. i + 1 \in 2 .. m /\ i + 1 <= n BY <1>2, <1>8
  <2> QED BY <1>3, <1>4, <1>7, <1>8, <2>1
<1>9. was # <<>> BY <1>2, <1>3, <1>6
<1>10. ASSUME n = m PROVE is = was
  <2>1. Len(is) = Len(was) /\ \A i \in 1 .. Len(is) : is[i] = was[i] BY <1>2, <1>3, <1>4, <1>8, <1>10
  <2> QED BY <1>6, <2>1
<1>11. ASSUME n = m + 1 PROVE is # <<>> /\ Front(is) = was /\ SubSeq(is, 1, Len(was)) = was
  <2>1. Len(is) = Len(was) + 1 BY <1>2, <1>3, <1>4, <1>11
  <2>2. \A i \in 1 .. Len(was) : is[i] = was[i] BY <1>2, <1>3, <1>8, <1>11
  <2>3. is # <<>> BY <1>2, <1>4, <1>6
  <2> QED BY <1>6, <2>1, <2>2, <2>3, LongerBy
<1>12. ASSUME n = m - 1 PROVE is = Front(was)
  <2>1. Len(was) = Len(is) + 1 BY <1>2, <1>3, <1>4, <1>12
  <2>2. \A i \in 1 .. Len(is) : was[i] = is[i] BY <1>2, <1>4, <1>8, <1>12
  <2> QED BY <1>6, <2>1, <2>2, LongerBy
<1> QED BY <1>3, <1>4, <1>9, <1>10, <1>11, <1>12, Zenon DEF Moved

-----------------------------------------------------------------------------
(* The difficulty.                                                              *)

LEMMA TwoMin ==
    ASSUME NEW a \in Int, NEW b \in Int
    PROVE  Min({a, b}) \in Int /\ Min({a, b}) = IF a <= b THEN a ELSE b
<1>1. \E x \in {a, b} : \A y \in {a, b} : x =< y
  <2>1. CASE a <= b BY <2>1
  <2>2. CASE ~(a <= b) BY <2>2
  <2> QED BY <2>1, <2>2
<1>2. Min({a, b}) \in {a, b} /\ \A y \in {a, b} : Min({a, b}) =< y BY <1>1, Zenon DEF Min
<1> QED BY <1>2

LEMMA TwoMax ==
    ASSUME NEW a \in Int, NEW b \in Int
    PROVE  Max({a, b}) \in Int /\ Max({a, b}) = IF a >= b THEN a ELSE b
<1>1. \E x \in {a, b} : \A y \in {a, b} : x >= y
  <2>1. CASE a >= b BY <2>1
  <2>2. CASE ~(a >= b) BY <2>2
  <2> QED BY <2>1, <2>2
<1>2. Max({a, b}) \in {a, b} /\ \A y \in {a, b} : Max({a, b}) >= y BY <1>1, Zenon DEF Max
<1> QED BY <1>2


(* What spare internal services weigh beside a chain of some hops.                      *)
SpareWeight(services, hops) == Min({60, 10 * Max({0, services - (hops + 1)})})

LEMMA SpareWeighs ==
    ASSUME NEW i \in Nat, NEW m \in Nat
    PROVE  /\ SpareWeight(i, m) \in 0 .. 60
           /\ SpareWeight(i, m + 1) \in SpareWeight(i, m) - 10 .. SpareWeight(i, m)
<1>1. ASSUME NEW n \in Nat
      PROVE  SpareWeight(i, n) = IF i <= n + 1 THEN 0 ELSE IF i >= n + 7 THEN 60 ELSE 10 * (i - (n + 1))
  <2>1. PICK d : d = i - (n + 1) OBVIOUS
  <2>2. PICK e : e = Max({0, d}) OBVIOUS
  <2>3. d \in Int /\ e = IF 0 >= d THEN 0 ELSE d BY <2>1, <2>2, TwoMax
  <2>4. 10 * e \in Int /\ 60 \in Int BY <2>3
  <2>5. Min({60, 10 * e}) = IF 60 <= 10 * e THEN 60 ELSE 10 * e BY <2>4, TwoMin
  <2>6. SpareWeight(i, n) = Min({60, 10 * e}) BY <2>1, <2>2 DEF SpareWeight
  <2> QED BY <2>1, <2>3, <2>5, <2>6
<1>2. m + 1 \in Nat OBVIOUS
<1> QED BY <1>1, <1>2

TellWeight(g) == IF OfKind(g, "config_disclosure") # {} THEN 0 ELSE 50

LEMMA InternalsCount ==
    ASSUME NEW g, Structured(g)
    PROVE  Cardinality(Internals(g)) \in Nat
<1>1. Internals(g) \in SUBSET DOMAIN g.nodes BY DEF Internals, by_kind
<1> QED BY <1>1, FS_Subset, FS_CardinalityType DEF Structured, Framed

(* Every hop of a chain is a pivot to another host.                                     *)
LEMMA ChainWeighs ==
    ASSUME NEW g, Structured(g), NEW c \in Seq(Vulns(g)), Chain(g, c),
           NEW m, m = Len(c) - 1, NEW i, i = Cardinality(Internals(g))
    PROVE  /\ m \in Nat /\ m >= 1 /\ i \in Nat
           /\ ChainWeight(g) = 140 * m + 30 + TellWeight(g) + SpareWeight(i, m)
<1>1. ChainNodes(g, c) /\ ChainHosts(g, c) BY DEF Chain
<1>2. m \in Nat /\ m >= 1 /\ Len(c) = m + 1 /\ Len(c) \in Nat /\ Len(c) >= 1 BY <1>1 DEF ChainNodes
<1>3. PICK walk : walk = _credential_walk(g) OBVIOUS
<1>4. walk = Hops(g, c) BY <1>3, ChainHops
<1>5. PICK n : n = Len(c) OBVIOUS
<1>6. n \in Nat /\ n >= 1 /\ n - 1 = m BY <1>2, <1>5
<1>7. /\ Len(walk) = m /\ DOMAIN walk = 1 .. m
      /\ \A j \in 1 .. m : walk[j] = HopAt(g, c[j + 1])
  BY <1>4, <1>5, <1>6, HopsAreSeq
<1>8. PICK pivots : pivots = {walk[j][1] : j \in DOMAIN walk} OBVIOUS
<1>9. Cardinality(pivots) = m
  <2>1. PICK k : k = [j \in 1 .. m |-> HostOf(g, c[j + 1])] OBVIOUS
  <2>2. DOMAIN k = 1 .. m BY <2>1
  <2>3. \A a, b \in 1 .. m : k[a] = k[b] => a = b
    <3>1. SUFFICES ASSUME NEW a \in 1 .. m, NEW b \in 1 .. m, k[a] = k[b] PROVE a = b OBVIOUS
    <3>2. a + 1 \in 1 .. Len(c) /\ b + 1 \in 1 .. Len(c) BY <1>2
    <3>3. HostOf(g, c[a + 1]) = HostOf(g, c[b + 1]) BY <2>1, <3>1
    <3>4. a + 1 = b + 1 BY <1>1, <3>2, <3>3 DEF ChainHosts
    <3> QED BY <3>4
  <2>4. \A j \in 1 .. m : walk[j][1] = k[j] BY <1>7, <2>1 DEF HopAt
  <2>5. pivots = {walk[j][1] : j \in 1 .. m} BY <1>7, <1>8
  <2>6. PICK T : T = {k[j] : j \in 1 .. m} OBVIOUS
  <2>7. T = pivots
    <3>1. \A x : x \in T <=> \E j \in 1 .. m : x = k[j] BY <2>6
    <3>2. \A x : x \in pivots <=> \E j \in 1 .. m : x = walk[j][1] BY <2>5
    <3>3. \A x : x \in T <=> x \in pivots BY <2>4, <3>1, <3>2
    <3> QED BY <3>3
  <2>8. Cardinality(T) = m BY <1>2, <2>2, <2>3, <2>6, Enumerated
  <2> QED BY <2>7, <2>8
<1>10. i \in Nat BY InternalsCount
<1>11. walk # <<>> BY <1>2, <1>7
<1>12. ChainWeight(g) = 100 * Len(walk) + 40 * (IF walk = <<>> THEN 1 ELSE Cardinality(pivots)) + 30
                        + TellWeight(g) + SpareWeight(i, Len(walk))
  BY <1>3, <1>8, Zenon DEF ChainWeight, TellWeight, SpareWeight
<1>13. ChainWeight(g) = 100 * m + 40 * m + 30 + TellWeight(g) + SpareWeight(i, m) BY <1>7, <1>9, <1>11, <1>12
<1>14. TellWeight(g) \in Nat BY DEF TellWeight
<1>15. SpareWeight(i, m) \in 0 .. 60 BY <1>2, <1>10, SpareWeighs
<1> QED BY <1>2, <1>10, <1>13, <1>14, <1>15

LEMMA ClassWeighs ==
    ASSUME NEW g, NEW S, S # {}, S \subseteq VulnIds, NEW n \in Nat,
           \A v \in S : g.nodes[v].flaw \in Flaws /\ CATALOG[g.nodes[v].flaw].complexity = n
    PROVE  _class_weight(g, S) = 4 * n
<1>1. First(S) \in S BY FirstIsIn
<1> QED BY <1>1 DEF _class_weight

LEMMA ComplexityIs ==
    /\ CATALOG["ssrf"].complexity = 5
    /\ CATALOG["credential_gated_flag"].complexity = 1 /\ CATALOG["metadata_credential_leak"].complexity = 1
    /\ {"ssrf", "credential_gated_flag", "metadata_credential_leak"} \subseteq Flaws
<1>1. CATALOG["ssrf"] = Entry("response_leak", 5) BY DEF CATALOG
<1>2. CATALOG["credential_gated_flag"] = Entry("response_leak", 1) BY DEF CATALOG
<1>3. CATALOG["metadata_credential_leak"] = Entry("response_leak", 1) BY DEF CATALOG
<1>4. \A shape, n : Entry(shape, n).complexity = n BY DEF Entry
<1>5. {"ssrf", "credential_gated_flag", "metadata_credential_leak"} \subseteq Flaws BY DEF Flaws, CATALOG
<1> QED BY <1>1, <1>2, <1>3, <1>4, <1>5

(* The entry is the pivot, the exploit on the flag's path its gate.                     *)
LEMMA PathWeighs ==
    ASSUME NEW g, Structured(g), Footed(g), NEW c \in Seq(Vulns(g)), Chain(g, c)
    PROVE  /\ _entry_ssrf(g) # {} /\ _class_weight(g, _entry_ssrf(g)) = 20
           /\ _class_weight(g, _oracle_vuln(g)) = 4
<1>1. ChainNodes(g, c) /\ ChainHosts(g, c) BY DEF Chain
<1>2. Vulns(g) \subseteq VulnIds BY KindSets DEF Structured, Framed
<1>3. Pivot \in _entry_ssrf(g) BY DEF Footed, _entry_ssrf
<1>4. \A v \in _entry_ssrf(g) : v \in VulnIds /\ g.nodes[v].flaw = "ssrf" BY <1>2 DEF _entry_ssrf, OfKind
<1>5. _class_weight(g, _entry_ssrf(g)) = 20
  <2>1. PICK S : S = _entry_ssrf(g) OBVIOUS
  <2>2. S # {} /\ S \subseteq VulnIds BY <1>3, <1>4, <2>1
  <2>3. \A v \in S : g.nodes[v].flaw \in Flaws /\ CATALOG[g.nodes[v].flaw].complexity = 5
    BY <1>4, <2>1, ComplexityIs
  <2>4. 5 \in Nat /\ 4 * 5 = 20 OBVIOUS
  <2>5. _class_weight(g, S) = 4 * 5 BY <2>2, <2>3, <2>4, Zenon, ClassWeighs
  <2> QED BY <2>1, <2>4, <2>5
<1>6. PICK on : on = {v \in Vulns(g) : Target(g, v) \in _oracle_path_targets(g) /\ g.nodes[v].flaw # "config_disclosure"}
  OBVIOUS
<1>7. PICK served : served = {v \in on : g.nodes[v].flaw \in {"credential_gated_flag", "metadata_credential_leak"}}
  OBVIOUS
<1>8. PICK last : last = c[Len(c)] OBVIOUS
<1>9. last \in Vulns(g) /\ g.nodes[last].flaw = "credential_gated_flag" /\ FlagServices(g) = {HostOf(g, last)}
  BY <1>1, <1>8, TerminalIs DEF ChainNodes, ChainHosts
<1>10. Target(g, last) \in _oracle_path_targets(g)
  <2>1. Target(g, last) \in by_kind(g, "endpoint") BY <1>9, TargetIs DEF Structured
  <2>2. HostOf(g, last) \in Srcs(g, "exposes", Target(g, last)) BY <1>9, <2>1, ExposedBy, HostIs DEF Structured
  <2>3. Target(g, last) \in Dsts(g, "exposes", HostOf(g, last)) BY <2>2 DEF Srcs, Dsts
  <2> QED BY <1>9, <2>3 DEF _oracle_path_targets
<1>11. last \in served BY <1>6, <1>7, <1>9, <1>10
<1>12. served \subseteq VulnIds BY <1>2, <1>6, <1>7
<1>13. _oracle_vuln(g) = {First(served)} BY <1>6, <1>7, <1>11, Zenon DEF _oracle_vuln
<1>14. First(served) \in served BY <1>11, <1>12, FirstIsIn
<1>15. _class_weight(g, _oracle_vuln(g)) = 4
  <2>1. PICK v : v = First(served) OBVIOUS
  <2>2. g.nodes[v].flaw \in {"credential_gated_flag", "metadata_credential_leak"} /\ v \in VulnIds
    BY <1>7, <1>12, <1>14, <2>1
  <2>3. CATALOG[g.nodes[v].flaw].complexity = 1 /\ g.nodes[v].flaw \in Flaws BY <2>2, ComplexityIs
  <2>4. \A w \in {v} : g.nodes[w].flaw \in Flaws /\ CATALOG[g.nodes[w].flaw].complexity = 1 BY <2>3
  <2>5. {v} # {} /\ {v} \subseteq VulnIds BY <2>2
  <2>6. 1 \in Nat /\ 4 * 1 = 4 OBVIOUS
  <2>7. _class_weight(g, {v}) = 4 * 1 BY <2>4, <2>5, <2>6, Zenon, ClassWeighs
  <2> QED BY <1>13, <2>1, <2>6, <2>7
<1> QED BY <1>3, <1>5, <1>15

(* What else is off the path weighs three points at most.                               *)
Weighs(g, m, i) ==
    \E off \in 0 .. 30 : world_difficulty(g) = 140 * m + 54 + TellWeight(g) + SpareWeight(i, m) + off

LEMMA DifficultyIs ==
    ASSUME NEW g, Structured(g), Footed(g), NEW c \in Seq(Vulns(g)), Chain(g, c),
           NEW m, m = Len(c) - 1, NEW i, i = Cardinality(Internals(g))
    PROVE  Weighs(g, m, i)
<1>1. /\ m \in Nat /\ i \in Nat
      /\ ChainWeight(g) = 140 * m + 30 + TellWeight(g) + SpareWeight(i, m)
  BY ChainWeighs
<1>2. /\ _entry_ssrf(g) # {} /\ _class_weight(g, _entry_ssrf(g)) = 20
      /\ _class_weight(g, _oracle_vuln(g)) = 4
  BY PathWeighs
<1>3. PICK off_path :
        off_path = {v \in Vulns(g) \ _oracle_vuln(g) : g.nodes[v].flaw \notin {"ssrf"} \cup _INTERNAL_ONLY_KINDS}
  OBVIOUS
<1>4. PICK off : off = Min({30, 3 * Cardinality(off_path)}) OBVIOUS
<1>5. world_difficulty(g) = (IF _entry_ssrf(g) = {} THEN 0 ELSE ChainWeight(g))
        + _class_weight(g, _entry_ssrf(g)) + _class_weight(g, _oracle_vuln(g)) + off
  BY <1>3, <1>4, Zenon DEF world_difficulty
<1>6. Cardinality(off_path) \in Nat
  <2>1. off_path \in SUBSET DOMAIN g.nodes BY <1>3 DEF Vulns, by_kind
  <2> QED BY <2>1, FS_Subset, FS_CardinalityType DEF Structured, Framed
<1>7. off \in 0 .. 30
  <2>1. PICK n : n = Cardinality(off_path) OBVIOUS
  <2>2. n \in Nat /\ 3 * n \in Int /\ 30 \in Int BY <1>6, <2>1
  <2>3. off = IF 30 <= 3 * n THEN 30 ELSE 3 * n BY <1>4, <2>1, <2>2, TwoMin
  <2> QED BY <2>2, <2>3
<1>8. TellWeight(g) \in Nat BY DEF TellWeight
<1>9. SpareWeight(i, m) \in 0 .. 60 BY <1>1, SpareWeighs
<1>10. world_difficulty(g) = (140 * m + 30 + TellWeight(g) + SpareWeight(i, m)) + 20 + 4 + off BY <1>1, <1>2, <1>5
<1>11. world_difficulty(g) = 140 * m + 54 + TellWeight(g) + SpareWeight(i, m) + off
  <2>1. PICK t, s : t = TellWeight(g) /\ s = SpareWeight(i, m) OBVIOUS
  <2>2. t \in Int /\ s \in Int /\ off \in Int /\ m \in Int BY <1>1, <1>7, <1>8, <1>9, <2>1
  <2>3. (140 * m + 30 + t + s) + 20 + 4 + off = 140 * m + 54 + t + s + off BY <2>2
  <2> QED BY <1>10, <2>1, <2>3
<1> QED BY <1>7, <1>11 DEF Weighs


-----------------------------------------------------------------------------
(* A mutation of a chain.                                                       *)

MoveFollowsWalk(g, h) ==
    LET was == _credential_walk(g)
        is == _credential_walk(h)
        deeper == Cardinality(by_kind(h, "credential")) > Cardinality(by_kind(g, "credential"))
        harder == world_difficulty(h) - world_difficulty(g)
    IN /\ is = was \/ is = Front(was) \/ (is # <<>> /\ Front(is) = was)
       /\ deeper <=> monotone_chain_gate(g, h)
       /\ deeper => harder >= 100
       /\ Len(is) < Len(was) => harder <= -100
       /\ is = was => harder \in -30 .. 30

LEMMA MoveIs ==
    ASSUME NEW g, Structured(g), Footed(g), NEW c \in Seq(Vulns(g)), Chain(g, c),
           NEW h, Structured(h), Footed(h), Onward(g, h)
    PROVE  MoveFollowsWalk(g, h)
<1>0. c \in Seq(Vulns(g)) /\ Chain(g, c) /\ Structured(g) /\ Footed(g) OBVIOUS
<1>1. PICK k : Rechained(g, h, c, k) BY DEF Onward
<1>2. k \in Seq(Vulns(h)) /\ Chain(h, k) /\ Len(k) \in {Len(c) - 1, Len(c), Len(c) + 1} BY <1>1 DEF Rechained
<1>3. PICK was, is : was = _credential_walk(g) /\ is = _credential_walk(h) OBVIOUS
<1>4. was = Hops(g, c) /\ is = Hops(h, k) BY <1>2, <1>3, ChainHops
<1>5. PICK m, n : m = Len(c) - 1 /\ n = Len(k) - 1 OBVIOUS
<1>6. PICK i : i = Cardinality(Internals(g)) /\ i = Cardinality(Internals(h)) BY DEF Onward
<1>7. /\ m \in Nat /\ m >= 1 /\ i \in Nat
      /\ n \in Nat /\ n >= 1
  <2>1. Len(c) \in Nat /\ Len(c) >= 2 /\ Len(k) \in Nat /\ Len(k) >= 2 BY <1>0, <1>2 DEF Chain, ChainNodes
  <2>2. i \in Nat BY <1>0, <1>6, InternalsCount
  <2> QED BY <1>5, <2>1, <2>2
<1>8. /\ Len(c) = m + 1 /\ Len(k) = n + 1 /\ n \in {m - 1, m, m + 1}
  <2>1. Len(c) \in Nat /\ Len(k) \in Nat BY <1>2
  <2> QED BY <1>2, <1>5, <2>1
<1>9. /\ Len(was) = m /\ Len(is) = n /\ was # <<>>
      /\ n = m => is = was
      /\ n = m + 1 => is # <<>> /\ Front(is) = was /\ SubSeq(is, 1, Len(was)) = was
      /\ n = m - 1 => is = Front(was)
  <2>1. Moved(was, is, m + 1, n + 1) BY <1>0, <1>1, <1>4, <1>8, Zenon, HopsMove
  <2>2. /\ (m + 1) - 1 = m /\ (n + 1) - 1 = n
        /\ n = m => n + 1 = m + 1
        /\ n = m + 1 => n + 1 = (m + 1) + 1
        /\ n = m - 1 => n + 1 = (m + 1) - 1
    BY <1>7
  <2> QED BY <2>1, <2>2, Zenon DEF Moved
<1>10. PICK t, s, r : t = TellWeight(g) /\ s = SpareWeight(i, m) /\ r = SpareWeight(i, n) OBVIOUS
<1>11. TellWeight(h) = t BY <1>10 DEF TellWeight, Onward
<1>12. PICK off \in 0 .. 30 : world_difficulty(g) = 140 * m + 54 + t + s + off
  <2>1. Weighs(g, m, i) BY <1>0, <1>5, <1>6, Zenon, DifficultyIs
  <2> QED BY <1>10, <2>1 DEF Weighs
<1>13. PICK offs \in 0 .. 30 : world_difficulty(h) = 140 * n + 54 + t + r + offs
  <2>1. Weighs(h, n, i) BY <1>2, <1>5, <1>6, Zenon, DifficultyIs
  <2> QED BY <1>10, <1>11, <2>1 DEF Weighs
<1>14. t \in Int /\ s \in Int /\ r \in Int
  <2>1. s \in 0 .. 60 /\ r \in 0 .. 60 BY <1>7, <1>10, SpareWeighs
  <2> QED BY <1>10, <2>1 DEF TellWeight
<1>15. /\ n = m + 1 => r \in s - 10 .. s
       /\ m = n + 1 => s \in r - 10 .. r
       /\ n = m => r = s
  BY <1>7, <1>10, SpareWeighs
<1>16. PICK harder : harder = world_difficulty(h) - world_difficulty(g) OBVIOUS
<1>17. harder = 140 * (n - m) + (r - s) + (offs - off)
  <2>1. off \in Int /\ offs \in Int BY <1>12, <1>13
  <2> QED BY <1>7, <1>12, <1>13, <1>14, <1>16, <2>1
<1>18. /\ n = m + 1 => harder >= 100
       /\ n = m - 1 => harder <= -100
       /\ n = m => harder \in -30 .. 30
  BY <1>7, <1>12, <1>13, <1>14, <1>15, <1>17
<1>19. Cardinality(by_kind(g, "credential")) = m /\ Cardinality(by_kind(h, "credential")) = n
  BY <1>2, <1>5 DEF Chain, ChainCreds
<1>20. (n > m) <=> n = m + 1 BY <1>7, <1>8
<1>21. Cardinality(by_kind(h, "credential")) > Cardinality(by_kind(g, "credential")) <=> n = m + 1 BY <1>19, <1>20
<1>22. monotone_chain_gate(g, h) <=> (was # <<>> /\ Len(is) = Len(was) + 1 /\ SubSeq(is, 1, Len(was)) = was)
  BY <1>3, Zenon DEF monotone_chain_gate
<1>23. monotone_chain_gate(g, h) <=> n = m + 1 BY <1>9, <1>22
<1>24. is = was => n = m BY <1>9
<1>25. Len(is) < Len(was) => n = m - 1 BY <1>7, <1>8, <1>9
<1>26. is = was \/ is = Front(was) \/ (is # <<>> /\ Front(is) = was) BY <1>8, <1>9
<1>27. /\ Cardinality(by_kind(h, "credential")) > Cardinality(by_kind(g, "credential")) <=> monotone_chain_gate(g, h)
       /\ Cardinality(by_kind(h, "credential")) > Cardinality(by_kind(g, "credential")) => harder >= 100
       /\ Len(is) < Len(was) => harder <= -100
       /\ is = was => harder \in -30 .. 30
  BY <1>18, <1>21, <1>23, <1>24, <1>25
<1> QED BY <1>3, <1>16, <1>26, <1>27, Zenon DEF MoveFollowsWalk

StepFollowsWalk == (stage = "world" /\ evolved' # evolved /\ IsChain(graph)) => MoveFollowsWalk(graph, graph')

LEMMA StepMoves == WorldInv /\ [Next]_vars => StepFollowsWalk
<1> SUFFICES ASSUME WorldInv, [Next]_vars, stage = "world", evolved' # evolved, IsChain(graph)
             PROVE  MoveFollowsWalk(graph, graph')
  BY DEF StepFollowsWalk
<1>1. Evolve
  <2>1. stage \notin {"services", "vulns", "admission"} OBVIOUS
  <2>2. ~Reseed /\ ~Replant /\ ~Reload BY DEF Reseed, Replant, Reload
  <2>3. ~UNCHANGED vars BY DEF vars
  <2>4. ~SampleServices /\ ~PlaceOracle /\ ~PlaceVuln /\ ~Compose /\ ~Admission
    BY <2>1 DEF SampleServices, PlaceOracle, PlaceVuln, Compose, Admission
  <2> QED BY <2>2, <2>3, <2>4 DEF Next
<1>2. prior.company /\ Structured(graph) /\ Company(graph)
  <2>1. FlatGates(graph) \/ prior.company BY DEF WorldInv
  <2>2. ~FlatGates(graph) BY DEF FlatGates, IsChain, OfKind, ChainFlaws
  <2> QED BY <2>1, <2>2 DEF WorldInv
<1>3. ~Pivoted(graph) BY DEF Pivoted, IsChain, OfKind, ChainFlaws
<1>4. PICK c \in Seq(Vulns(graph)) : Chain(graph, c) BY <1>2, <1>3 DEF Company
<1>5. Steps(graph, graph', prior.company) BY <1>1, EvolvedSteps
<1>6. Structured(graph') /\ Company(graph') /\ Onward(graph, graph') BY <1>2, <1>5 DEF Steps
<1>7. Footed(graph) /\ Footed(graph') BY <1>2, <1>6 DEF Company
<1>8. PICK h : h = graph' OBVIOUS
<1>9. MoveFollowsWalk(graph, h) BY <1>2, <1>4, <1>6, <1>7, <1>8, MoveIs
<1> QED BY <1>8, <1>9

(* HopsFollowWalk: whatever mutation a chain goes through, the walk of its credentials   *)
(* stays, loses its last hop or gains one; the gate for deeper worlds accepts those with  *)
(* one more credential and no others; and a hop weighs at least ten points of difficulty  *)
(* while all else a mutation changes weighs three at most, for every number of services.  *)
THEOREM WorldHopsFollowWalk == Spec => HopsFollowWalk
<1>1. WorldInv /\ [Next]_vars => WorldInv' BY InvariantKept
<1>2. WorldInv /\ [Next]_vars => [StepFollowsWalk]_vars BY StepMoves
<1> QED BY <1>1, <1>2, InitOK, PTL DEF Spec, HopsFollowWalk, StepFollowsWalk, MoveFollowsWalk

=============================================================================
