--------------------------- MODULE MCLightClient ---------------------------
(***************************************************************************)
(* A chain of five heights for the light client engine.  The validator    *)
(* set rotates so that skipping from height 2 to 5 lacks +1/3 overlap and *)
(* bisects through height 3.  Node a is faulty from the start; b and c    *)
(* become faulty at time 6, when the trusted root at height 2 expires, so *)
(* the fault assumption holds for every header within its trusting        *)
(* period and a forged header signed by a, b and c can only be accepted  *)
(* from an expired anchor.                                                 *)
(***************************************************************************)
EXTENDS LightClient

MCVS_AT == [h \in 1..6 |->
              CASE h \in {1, 2} -> {"a", "b", "c"}
                [] h = 3        -> {"b", "c", "d"}
                [] h = 5        -> {"a", "d", "e"}
                [] OTHER        -> {"c", "d", "e"}]
MCAPP_AT     == [h \in 1..5 |-> IF h % 2 = 0 THEN "v1" ELSE "v2"]
MCPARAMS_AT  == [h \in 1..5 |-> IF h <= 3 THEN "v1" ELSE "v2"]
MCRESULTS_AT == [h \in 1..5 |-> IF h % 2 = 1 THEN "v1" ELSE "v2"]
MCDATA_AT    == [h \in 1..5 |-> IF h = 4 THEN "v1" ELSE "v2"]
MCForgeVS    == {{"a"}, {"a", "b", "c"}}
MCFAULTY_FROM == [n \in {"a", "b", "c", "d", "e"} |->
                    CASE n = "a"          -> 0
                      [] n \in {"b", "c"} -> 6
                      [] OTHER            -> 100]

\* The providers a client is created with: the primary, then the witnesses.
MCProviders2 == <<"p1", "p2">>
MCProviders3 == <<"p1", "p2", "p3">>

\* ABCI query paths: "/store/acc/key" and "/store/acc".
MCQueryPaths == {[slash |-> TRUE, parts |-> <<"store", "acc", "key">>],
                 [slash |-> TRUE, parts |-> <<"store", "acc">>]}
\* and "store/acc/key", "/acc/x/key", "/store/acc/key/x".
MCAllQueryPaths == MCQueryPaths \cup
                   {[slash |-> FALSE, parts |-> <<"store", "acc", "key">>],
                    [slash |-> TRUE, parts |-> <<"acc", "x", "key">>],
                    [slash |-> TRUE, parts |-> <<"store", "acc", "key", "x">>]}

ASSUME FaultAssumption
=============================================================================
