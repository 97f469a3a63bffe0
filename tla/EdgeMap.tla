-------------------------------- MODULE EdgeMap --------------------------------
(***************************************************************************)
(* What the callers of the edge and face hash tables rely on: a finite map *)
(* from edges (or faces) to integers.  What is listed stays listed, the    *)
(* value returned tells new from known and from failed, and no call        *)
(* touches another edge.                                                   *)
(***************************************************************************)
EXTENDS Integers

CONSTANTS Keys,        \* edges or faces, their vertices in increasing order
          Values,      \* positive integers: vertices, triangles
          Tags         \* non-zero masks of two bits
VARIABLES kind, map, ret

Listed == DOMAIN map

Store(e, v) == map' = [f \in Listed \union {e} |-> IF f = e THEN v ELSE map[f]]

Or(s, t) == CHOOSE u \in Tags : \A bit \in {1, 2} :
                (u \div bit) % 2 = 1 <=> 1 \in {(s \div bit) % 2, (t \div bit) % 2}

Init == /\ kind \in {"edge", "face", "tag"}
        /\ map = [e \in {} |-> 0]
        /\ ret = 1

(* 2 for a new edge, 1 for one already listed, 0 for a failure, after      *)
(* which the edge is not listed.                                           *)
ListEdge(e, v) ==
    \/ ret' = 2 /\ e \notin Listed /\ Store(e, v)
    \/ ret' = 0 /\ e \notin Listed /\ UNCHANGED map
    \/ ret' = 1 /\ e \in Listed /\ UNCHANGED map

(* -1 for a new face, what is stored for one already listed, 0 for a       *)
(* failure, which comes after the face has been listed.                    *)
ListFace(e, v) ==
    \/ ret' \in {-1, 0} /\ e \notin Listed /\ Store(e, v)
    \/ ret' \in Values /\ e \in Listed /\ ret' = map[e] /\ UNCHANGED map

(* The mask stored from now on, 0 for a failure.                           *)
ListTag(e, t) ==
    \/ ret' \in {t, 0} /\ e \notin Listed /\ Store(e, t)
    \/ ret' \in Tags /\ e \in Listed /\ ret' = Or(map[e], t) /\ Store(e, ret')

(* The value 0 stands for a point that has been given up.                  *)
UpdateEdge(e, v) ==
    \/ ret' = 1 /\ e \in Listed /\ Store(e, v)
    \/ ret' = 0 /\ e \notin Listed /\ UNCHANGED map

Next == /\ \E e \in Keys :
             \/ kind = "edge" /\ \/ \E v \in Values : ListEdge(e, v)
                                 \/ \E v \in Values \union {0} : UpdateEdge(e, v)
             \/ kind = "face" /\ \E v \in Values : ListFace(e, v)
             \/ kind = "tag"  /\ \E t \in Tags : ListTag(e, t)
        /\ UNCHANGED kind

Spec == Init /\ [][Next]_<<kind, map, ret>>
===============================================================================
