----------------------------- MODULE MCRestore ------------------------------
(* Restore with two volumes in use, a free name, a snapshot of each volume *)
(* and one that another host made of a volume of the same name.            *)
EXTENDS Restore, MCOperators, TLC

CONSTANTS a, b, c, sa, sb, sx

MCVolumeOf == sa :> a @@ sb :> b @@ sx :> a
=============================================================================
