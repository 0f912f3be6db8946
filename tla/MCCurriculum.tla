---------------------------- MODULE MCCurriculum ----------------------------
(* A small pack for Curriculum: a web tier over a database and the flaws that    *)
(* affect them, with one family whose task reaches the flaw from the web tier.   *)
EXTENDS Curriculum, TLC

MCOntology ==
    [node_kinds |-> [node    |-> [parent |-> NoKind, attrs |-> <<>>],
                     service |-> [parent |-> "node",
                                  attrs |-> [level |-> [type |-> "enum", required |-> TRUE, values |-> {"low", "high"}]]],
                     flaw    |-> [parent |-> "node",
                                  attrs |-> [on |-> [type |-> "ref", required |-> TRUE, values |-> {"service"}]]]],
     edge_kinds |-> [affects |-> [endpoints |-> {<<"flaw", "service">>}, src_max |-> 1, dst_max |-> 1],
                     calls   |-> [endpoints |-> {}, src_max |-> 9, dst_max |-> 9]]]

Service(level) == [kind |-> "service", hidden |-> FALSE, attrs |-> [level |-> level], note |-> "seen"]
Flaw(svc) == [kind |-> "flaw", hidden |-> TRUE, attrs |-> [on |-> svc], note |-> "seen"]

World(level, svc) ==
    [nodes |-> ("web" :> Service(level)) @@ ("db" :> Service("low")) @@ ("flaw1" :> Flaw(svc)),
     edges |-> ("a1" :> [kind |-> "affects", src |-> "flaw1", dst |-> svc])
               @@ ("c1" :> [kind |-> "calls", src |-> "web", dst |-> "db"])]

(* A flaw in a service that is already raised has to be closed. *)
MCInvariants(g) ==
    {<<"raised_and_flawed", n>> : n \in {n \in DOMAIN g.nodes :
        /\ g.nodes[n].kind = "flaw"
        /\ g.nodes[n].attrs.on \in DOMAIN g.nodes
        /\ g.nodes[g.nodes[n].attrs.on].attrs = [level |-> "high"]}}

(* Worlds the builder may draw: a good one, one whose flaw refers to itself, and  *)
(* one whose database cannot be reached from the web tier.                        *)
MCSamples ==
    {World("low", "db"), World("low", "flaw1"),
     [World("low", "db") EXCEPT !.edges = Without(@, {"c1"})]}

MCTasks(g) ==
    {[id |-> "breach", entrypoints |-> {"web"} \cap DOMAIN g.nodes,
      goals |-> {n \in DOMAIN g.nodes : g.nodes[n].kind = "flaw"}]}

(* The flawed service is the entry or is called from it. *)
MCFeasible(g, t) ==
    /\ t.goals # {}
    /\ \A n \in t.goals : \E e \in DOMAIN g.edges :
         /\ g.edges[e].kind = "affects" /\ g.edges[e].src = n
         /\ g.edges[e].dst \in t.entrypoints
              \cup {g.edges[c].dst : c \in {c \in DOMAIN g.edges : g.edges[c].kind = "calls"}}

Mut(dir, relevance, patch) == [direction |-> dir, relevance |-> relevance, patch |-> patch]

MCMutations(g) ==
    LET raise == [EmptyPatch EXCEPT !.nodes_updated = "web" :> Service("high")]
        cut == [EmptyPatch EXCEPT !.edges_removed = {"c1"}]
        hide == [EmptyPatch EXCEPT !.nodes_updated = "web" :> [Service("low") EXCEPT !.hidden = TRUE]]
        move == [EmptyPatch EXCEPT !.nodes_removed = {"flaw1"}, !.nodes_added = "flaw2" :> Flaw("web"),
                                   !.edges_added = "a2" :> [kind |-> "affects", src |-> "flaw2", dst |-> "web"]]
        twice == [EmptyPatch EXCEPT !.edges_added = "a1" :> [kind |-> "affects", src |-> "db", dst |-> "web"]]
    IN {Mut("harden", 2, cut), Mut("harden", 1, raise), Mut("harden", 0, move),
        Mut("soften", 1, move), Mut("soften", 1, hide), Mut("diversify", 2, twice),
        Mut("diversify", 1, [EmptyPatch EXCEPT !.nodes_updated = "db" :> Service("low")])}

ASSUME PackReadsNoNotes ==
    \A g \in MCSamples \cup {apply_patch(w, m.patch) : w \in MCSamples, m \in UNION {MCMutations(w) : w \in MCSamples}} :
        ReadsNoNotes(g)

=============================================================================
