----------------------------- MODULE MCEdgePoints -----------------------------
(* An instance of EdgePoints for TLC: four edges, a memory limit that      *)
(* stops the table from growing twice.                                     *)
EXTENDS EdgePoints, TLC

EdgeSymmetry == Permutations(Keys)
===============================================================================
