------------------------------ MODULE MCAdapt2D -------------------------------
(***************************************************************************)
(* A square cut along a diagonal.  One half, of reference 1, is made of    *)
(* three triangles around an inner vertex; the other one, of reference 2,  *)
(* is a single triangle.  The diagonal is an interface, its ends are       *)
(* non-manifold vertices, the two other corners are corners; the lower     *)
(* side is required.                                                       *)
(***************************************************************************)
EXTENDS Adapt2D

SquareCoords == <<<<0, 0>>, <<320, 0>>, <<0, 320>>, <<80, 80>>, <<320, 320>>>>
SquareFaces  == <<[v |-> <<1, 2, 4>>, ref |-> 1], [v |-> <<2, 3, 4>>, ref |-> 1],
                  [v |-> <<3, 1, 4>>, ref |-> 1], [v |-> <<2, 5, 3>>, ref |-> 2]>>
SquareRequired == {{1, 2}}
===============================================================================
