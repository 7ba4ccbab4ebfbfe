---------------------------- MODULE MCHostState -----------------------------
(* HostState with a container that uses a volume.                         *)
EXTENDS HostState, TLC

CONSTANTS c1, v1

MCMounts == c1 :> {v1}
=============================================================================
