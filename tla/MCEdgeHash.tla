------------------------------ MODULE MCEdgeHash ------------------------------
(***************************************************************************)
(* An instance of EdgeHash for TLC: four edges, every hash function onto   *)
(* two chains, a table that starts with two unused cells.  No operation    *)
(* tells one edge from another but by its chain, and every hash function   *)
(* is tried: the edges are symmetric.                                      *)
(***************************************************************************)
EXTENDS EdgeHash, TLC

EdgeSymmetry == Permutations(Keys)
===============================================================================
