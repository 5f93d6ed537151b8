-------------------------- MODULE MCGrpcLifecycle ---------------------------
(***************************************************************************)
(* GrpcLifecycle for TLC; the cfg files give the constants.                *)
(***************************************************************************)
EXTENDS GrpcLifecycle
=============================================================================
