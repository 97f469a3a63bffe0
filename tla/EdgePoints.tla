------------------------------ MODULE EdgePoints ------------------------------
(***************************************************************************)
(* Step 1 of MMG2D_anaelt (mmg2d1.c): for each triangle and each of its    *)
(* edges that is to be split, unless the table already holds a vertex for  *)
(* the edge, one is created and stored there.  The value returned by       *)
(* MMG5_hashEdge is not looked at, so the loop goes on when it fails.      *)
(***************************************************************************)
EXTENDS EdgeHash

VARIABLES points,    \* the vertices created in the middle of each edge
          new        \* number of vertices created

pointVars == <<vars, points, new>>

PointInit == /\ Init
             /\ kind = "edge"
             /\ points = [e \in Keys |-> {}]
             /\ new = 0

(* One edge, met in one of its triangles.                                  *)
VisitEdge(e) ==
    /\ ~Endless(e, max)
    /\ HashGet(e) = 0
    /\ new + 1 \in Values
    /\ HashEdge(e, new + 1)
    /\ new' = new + 1
    /\ points' = [points EXCEPT ![e] = @ \union {new + 1}]
    /\ UNCHANGED <<kind, key>>

PointNext == \E e \in Keys : VisitEdge(e)

PointSpec == PointInit /\ [][PointNext]_pointVars

-------------------------------------------------------------------------------
(* The vertices that step 1 creates are in the table, where steps 2 to 4   *)
(* look for them to split the triangles on both sides of the edge.         *)
PointsInHash == \A e \in Keys : points[e] \subseteq {HashGet(e)}
===============================================================================
