------------------------------ MODULE MCLevelSet3D ------------------------------
(***************************************************************************)
(* Level sets on small meshes:                                             *)
(*   - eight tetrahedra around a vertex whose value is snapped, with all   *)
(*     signs on the octahedron around them;                                *)
(*   - eleven around two vertices inside, where the correction of one      *)
(*     changes the ball of the other, and where components are removed;    *)
(*   - a cube cut in six, with materials, one of them not to be split,     *)
(*     required and flat tetrahedra, and references of an earlier          *)
(*     discretisation;                                                     *)
(*   - two tetrahedra, with little room or a reference that no material    *)
(*     has.                                                                *)
(***************************************************************************)
EXTENDS LevelSet3D

Mesh(tets, f) ==
    [tets |-> tets, refs |-> [k \in DOMAIN tets |-> 1], flat |-> {}, required |-> {},
     sol |-> f, mats |-> << >>, rmc |-> FALSE, npmax |-> 99, nemax |-> 199]

Octahedron == <<<<7, 1, 2, 3>>, <<7, 2, 4, 3>>, <<7, 4, 5, 3>>, <<7, 5, 1, 3>>,
                <<7, 2, 1, 6>>, <<7, 4, 2, 6>>, <<7, 5, 4, 6>>, <<7, 1, 5, 6>>>>
TwoInside  == <<<<8, 1, 2, 3>>, <<7, 1, 8, 3>>, <<7, 8, 2, 3>>, <<7, 1, 2, 8>>>>
              \o Tail(Octahedron)
Cube       == <<<<1, 2, 4, 8>>, <<1, 4, 3, 8>>, <<1, 3, 7, 8>>, <<1, 7, 5, 8>>,
                <<1, 5, 6, 8>>, <<1, 6, 2, 8>>>>
Pair       == <<<<1, 2, 3, 4>>, <<5, 3, 2, 4>>>>

Clear == {-2, 2}
Octahedra == {Mesh(Octahedron, <<2>> \o Append(f, c)) : f \in [1..5 -> {-2, -1, 2}], c \in {-1}}
Pairs     == {Mesh(TwoInside, <<2>> \o f \o c) : f \in [1..5 -> Clear], c \in {<<-1, -1>>, <<1, -1>>}}
Removals  == {[Mesh(TwoInside, f \o <<2, -1, c, d>>) EXCEPT !.rmc = TRUE] :
                 f \in [1..4 -> Clear], c \in {2, -1}, d \in {-2, 2}}

(* Reference 1 is split into 3 and 2, 5 into 5 and 6; 7 is not split.      *)
Materials == <<[ref |-> 1, dospl |-> MMAT_Split, rin |-> 3, rex |-> 2],
               [ref |-> 5, dospl |-> MMAT_Split, rin |-> 5, rex |-> 6],
               [ref |-> 7, dospl |-> MMAT_NoSplit, rin |-> 0, rex |-> 0]>>
Cubes == {[Mesh(Cube, <<2>> \o f) EXCEPT !.mats = Materials, !.refs = r, !.required = {2, 4}] :
             f \in [1..7 -> Clear], r \in {<<1, 3, 2, 5, 6, 5>>, <<7, 1, 7, 5, 7, 1>>}}
Flats == {[Mesh(Cube, <<1>> \o f \o g) EXCEPT !.flat = {1, 5}] :
             f \in [1..5 -> Clear], g \in [1..2 -> {1, 2}]}
Limits == {[Mesh(Pair, f) EXCEPT !.mats = Materials, !.refs = r, !.npmax = n[1], !.nemax = n[2],
                                 !.required = {1}] :
              f \in [1..5 -> {-2, -1, 2}], r \in {<<1, 5>>, <<5, 8>>, <<1, 7>>, <<7, 7>>},
              n \in {<<6, 99>>, <<99, 4>>}}

AllInputs == Octahedra \union Pairs \union Removals \union Cubes \union Flats \union Limits
===============================================================================
