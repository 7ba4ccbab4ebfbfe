----------------------------- MODULE MCRotation -----------------------------
(* Rotation on a small instance.                                           *)
EXTENDS Rotation
=============================================================================
