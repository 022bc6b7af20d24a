---------------------------- MODULE MCLightRPC ----------------------------
(***************************************************************************)
(* The facade over the chain of MCLightClient.                            *)
(***************************************************************************)
EXTENDS LightRPC, MCLightClient
=============================================================================
