---------------------------- MODULE MCWebappWorld ----------------------------
(* Small webapp worlds: the layouts and manifests of the runs.                  *)
EXTENDS WebappWorld

Manifest(topology, recon, depth) == [topology |-> topology, recon |-> recon, depth |-> depth]

(* A chain with room to deepen, a company that is only networked, and one that is  *)
(* refused.                                                                        *)
ChainManifests == {Manifest("chain", "unset", "unset"), Manifest("company", "none", "unset"),
                   Manifest("company", "full", "one")}
ShortManifests == {Manifest("chain", "none", "one")}

ChainLayouts == {<<"auth", "db", "web", "api", "api">>}
ShortLayouts == {<<"api", "db", "web">>}

OneEach(tier) == {"a"}

ChainKinds == <<"command_injection", "path_traversal", "sql_injection", "ssrf">>

=============================================================================
