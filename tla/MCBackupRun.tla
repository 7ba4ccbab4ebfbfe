---------------------------- MODULE MCBackupRun -----------------------------
(* BackupRun with two volumes: one container uses both, one the second.    *)
EXTENDS BackupRun, TLC

CONSTANTS v1, v2, c1, c2

MCMounts   == c1 :> {v1, v2} @@ c2 :> {v2}
MCRequest  == <<v1, v2>>
MCPolicies == {NoRetention, 0, 1}
=============================================================================
