------------------------------ MODULE MCDeploy ------------------------------
(* Deploy with three deployments that differ in services, environment and  *)
(* file-sourced secrets; the third has no secret at all.                   *)
EXTENDS Deploy, TLC

CONSTANTS d1, d2, d3, web, db, k1, k2

MCSvcs     == d1 :> {web, db} @@ d2 :> {web} @@ d3 :> {web, db}
MCEnv      == d1 :> {k1, k2} @@ d2 :> {k2} @@ d3 :> {}
MCFileKeys == d1 :> {k1} @@ d2 :> {k1, k2} @@ d3 :> {k1}
=============================================================================
