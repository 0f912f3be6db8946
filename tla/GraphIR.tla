------------------------------- MODULE GraphIR -------------------------------
(* The typed property graph every world is: nodes and edges by id, the ontology *)
(* they are checked against, the patch that changes a graph and the identity of *)
(* its content. Pure operators. A node is a record of its kind, its visibility, *)
(* its attributes (a function of the attributes it has) and a note, standing    *)
(* for the runtime and meta fields the core never reads. An issue is a code and *)
(* the id it is about; every issue of these tiers is an error.                  *)
EXTENDS Naturals, FiniteSets, Functions, FiniteSetsExt

(* Restrict and pointwise update of Functions, at a set of keys; a map of one key. *)
Without(f, keys) == Restrict(f, DOMAIN f \ keys)

Single(id, x) == [i \in {id} |-> x]

Overridden(f, g) == [x \in DOMAIN f \cup DOMAIN g |-> IF x \in DOMAIN g THEN g[x] ELSE f[x]]

(* content_hash: a graph up to the notes of its nodes and its own. The hash is   *)
(* taken to be injective.                                                        *)
node_data(n) == [kind |-> n.kind, hidden |-> n.hidden, attrs |-> n.attrs]

content_hash(g) == [nodes |-> [id \in DOMAIN g.nodes |-> node_data(g.nodes[id])], edges |-> g.edges]

-----------------------------------------------------------------------------
(* apply_patch: removals, then updates, then additions.                         *)

EmptyPatch == [nodes_removed |-> {}, edges_removed |-> {}, nodes_updated |-> <<>>,
               edges_updated |-> <<>>, nodes_added |-> <<>>, edges_added |-> <<>>]

Touches(e, ids) == e.src \in ids \/ e.dst \in ids

(* Removing a node drops the edges that would dangle on it. *)
Removed(g, p) ==
    [nodes |-> Without(g.nodes, p.nodes_removed),
     edges |-> Without(g.edges, p.edges_removed
                         \cup {e \in DOMAIN g.edges : Touches(g.edges[e], p.nodes_removed)})]

(* An update replaces the whole node or edge, and inserts one that is not there. *)
Updated(g, p) ==
    LET r == Removed(g, p)
    IN [nodes |-> Overridden(r.nodes, p.nodes_updated), edges |-> Overridden(r.edges, p.edges_updated)]

(* An addition that collides raises, with the removals and updates done, and the   *)
(* additions before it, which are left out: the one caller drops its clone then.   *)
Collides(g, p) ==
    \/ DOMAIN p.nodes_added \cap DOMAIN Updated(g, p).nodes # {}
    \/ DOMAIN p.edges_added \cap DOMAIN Updated(g, p).edges # {}

apply_patch(g, p) ==
    LET u == Updated(g, p)
    IN [nodes |-> Overridden(u.nodes, p.nodes_added), edges |-> Overridden(u.edges, p.edges_added)]

-----------------------------------------------------------------------------
(* validate. An ontology has node kinds with a parent and attribute slots, and   *)
(* edge kinds with their endpoints (none: any) and degree caps (a number no    *)
(* graph reaches for none). A slot is a record of its type ("enum", "ref" or      *)
(* another), whether it is required, and the values or the node kinds it admits. *)

NoKind == "none"

Dangling(g) ==
    {<<"edge_dangling_src", e>> : e \in {e \in DOMAIN g.edges : g.edges[e].src \notin DOMAIN g.nodes}}
    \cup {<<"edge_dangling_dst", e>> : e \in {e \in DOMAIN g.edges : g.edges[e].dst \notin DOMAIN g.nodes}}

(* The kind n steps up the chain of parents; a cycle repeats what was seen. *)
Ancestor(ont, k) ==
    LET up[n \in 0 .. Cardinality(DOMAIN ont.node_kinds)] ==
            IF n = 0 THEN k
            ELSE IF up[n - 1] \in DOMAIN ont.node_kinds THEN ont.node_kinds[up[n - 1]].parent ELSE NoKind
    IN up

(* The slots of a kind with those it inherits; the nearest declaration of a name wins. *)
Slots(ont, k) ==
    LET up == Ancestor(ont, k)
        known == {n \in DOMAIN up : up[n] \in DOMAIN ont.node_kinds}
        slots(n) == ont.node_kinds[up[n]].attrs
        nearest(name) == Min({n \in known : name \in DOMAIN slots(n)})
    IN [name \in UNION {DOMAIN slots(n) : n \in known} |-> slots(nearest(name))[name]]

(* The scalar types are one: every value has the type of its slot. *)
Conforms(g, value, slot) ==
    CASE slot.type = "enum" -> value \in slot.values
      [] slot.type = "ref" -> value \in DOMAIN g.nodes /\ g.nodes[value].kind \in slot.values
      [] OTHER -> TRUE

AttrIssues(g, ont, id) ==
    LET n == g.nodes[id]
        slots == Slots(ont, n.kind)
    IN {<<"missing_required_attr", id>> : a \in {a \in DOMAIN slots \ DOMAIN n.attrs : slots[a].required}}
       \cup {<<"attr_invalid", id>> :
                a \in {a \in DOMAIN slots \cap DOMAIN n.attrs : ~Conforms(g, n.attrs[a], slots[a])}}

NodeIssues(g, ont) ==
    UNION {IF g.nodes[id].kind \in DOMAIN ont.node_kinds THEN AttrIssues(g, ont, id)
           ELSE {<<"unknown_node_kind", id>>} : id \in DOMAIN g.nodes}

Declared(g, ont) == {e \in DOMAIN g.edges : g.edges[e].kind \in DOMAIN ont.edge_kinds}

Joined(g, ont) ==
    {e \in Declared(g, ont) : g.edges[e].src \in DOMAIN g.nodes /\ g.edges[e].dst \in DOMAIN g.nodes}

EndpointIssues(g, ont) ==
    {<<"unknown_edge_kind", e>> : e \in DOMAIN g.edges \ Declared(g, ont)}
    \cup {<<"edge_endpoint_mismatch", e>> :
            e \in {e \in Joined(g, ont) :
                     /\ ont.edge_kinds[g.edges[e].kind].endpoints # {}
                     /\ <<g.nodes[g.edges[e].src].kind, g.nodes[g.edges[e].dst].kind>>
                         \notin ont.edge_kinds[g.edges[e].kind].endpoints}}

DegreeIssues(g, ont) ==
    LET outs(n, k) == {e \in Joined(g, ont) : g.edges[e].src = n /\ g.edges[e].kind = k}
        ins(n, k) == {e \in Joined(g, ont) : g.edges[e].dst = n /\ g.edges[e].kind = k}
    IN UNION {{<<"edge_src_degree_exceeded", n>> :
                  k \in {k \in DOMAIN ont.edge_kinds : Cardinality(outs(n, k)) > ont.edge_kinds[k].src_max}}
              \cup {<<"edge_dst_degree_exceeded", n>> :
                  k \in {k \in DOMAIN ont.edge_kinds : Cardinality(ins(n, k)) > ont.edge_kinds[k].dst_max}}
              : n \in DOMAIN g.nodes}

validate(g, ont) ==
    Dangling(g) \cup NodeIssues(g, ont) \cup EndpointIssues(g, ont) \cup DegreeIssues(g, ont)

=============================================================================
