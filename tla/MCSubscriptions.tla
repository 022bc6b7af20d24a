-------------------------- MODULE MCSubscriptions --------------------------
(***************************************************************************)
(* Connections and queries are interchangeable model values.             *)
(***************************************************************************)
EXTENDS Subscriptions, TLC

Symmetry == Permutations(Conns) \cup Permutations(Queries)
=============================================================================
