---------------------------- MODULE WorldBackings ----------------------------
(* The runtimes a pack's realize() makes, as alternatives.  WebappPack: a  *)
(* graph whose public service has an SSRF becomes a networked world on the *)
(* CONTAINER backing, any other one a single container.  The trading and   *)
(* the SWE pack: a runtime without a process.  The runtimes that were not  *)
(* chosen do not come to exist.                                            *)
EXTENDS OnDemandRuntime, NetworkedWorld

VARIABLE backing   \* the class of the runtime

BackingsInit == Init /\ NetInit /\ backing \in {"single", "networked", "ondemand"}

SingleStep    == backing = "single" /\ Next /\ UNCHANGED <<netVars, backing>>
OnDemandStep  == backing = "ondemand" /\ OnDemandNext /\ UNCHANGED <<netVars, backing>>
NetworkedStep == backing = "networked" /\ NetNext /\ UNCHANGED <<vars, backing>>

BackingsSpec ==
  BackingsInit /\ [][SingleStep \/ OnDemandStep \/ NetworkedStep]_<<vars, netVars, backing>>
               /\ Fairness
=============================================================================
