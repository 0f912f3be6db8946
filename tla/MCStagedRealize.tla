-------------------------- MODULE MCStagedRealize --------------------------
(***************************************************************************)
(* A world with one vulnerability that has a faithfulness control and one  *)
(* that has none, in opposite orders in REALIZABLE_KINDS and in the graph, *)
(* and two services: one with two endpoints, one of them affected by the   *)
(* first vulnerability, and one whose only endpoint the second affects.    *)
(***************************************************************************)
EXTENDS StagedRealize

CONSTANTS sql_injection, broken_authz, web, api, home, search, items

MCKinds      == {sql_injection, broken_authz}
MCControlled == {sql_injection}
MCRealizable == <<sql_injection, broken_authz>>
MCNodeOrder  == <<broken_authz, sql_injection>>
MCServices   == {web, api}
MCPages      == {home, search, items}
MCExposes    == [s \in MCServices |-> IF s = web THEN {home, search} ELSE {items}]
MCAffects    == [k \in MCKinds |-> IF k = sql_injection THEN {search} ELSE {items}]
============================================================================
