------------------------------ MODULE MCAnatri2D ------------------------------
(***************************************************************************)
(* A square cut along a diagonal: one half, of reference 1, is made of two *)
(* triangles around the middle of a side, the other one, of reference 2,   *)
(* is a single triangle.  The diagonal is an interface, its ends are       *)
(* non-manifold; the side of the single triangle that is required keeps    *)
(* step 1 from examining it, but not its neighbour.                        *)
(***************************************************************************)
EXTENDS Anatri2D

SquareCoords == <<<<0, 0>>, <<320, 0>>, <<0, 320>>, <<0, 160>>, <<320, 320>>>>
SquareFaces  == <<[v |-> <<1, 2, 4>>, ref |-> 1], [v |-> <<2, 3, 4>>, ref |-> 1],
                  [v |-> <<2, 5, 3>>, ref |-> 2]>>
SquareRequired == {{2, 5}}

OneOption(t, ni, ns) == [typchk |-> t, noinsert |-> ni, noswap |-> ns]
SomeOptions == {OneOption(2, FALSE, FALSE), OneOption(1, FALSE, TRUE), OneOption(2, TRUE, FALSE)}
===============================================================================
