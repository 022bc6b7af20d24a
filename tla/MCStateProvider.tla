------------------------- MODULE MCStateProvider -------------------------
(***************************************************************************)
(* The state provider over the chain of MCLightClient.                    *)
(***************************************************************************)
EXTENDS StateProvider, MCLightClient
=============================================================================
