------------------------------ MODULE MCAnatet3D ------------------------------
(***************************************************************************)
(* Meshes of one to four tetrahedra:                                       *)
(*   - one, in its 24 numberings, so that each flag meets each order of    *)
(*     the global numbers;                                                 *)
(*   - two that share a face, of the same reference or not, one of them    *)
(*     possibly required, with simulations that refuse, or little room;    *)
(*   - three around an edge inside the domain, which anatetv has to cut;   *)
(*   - four around a vertex inside the domain.                             *)
(***************************************************************************)
EXTENDS Anatet3D

(* The mesh of tetrahedra ts, where q gives the numbers of the vertices    *)
(* that lie at the points cs.                                              *)
Mesh(q, ts, cs, refs, waves) ==
    [tets  |-> [k \in DOMAIN ts |-> <<q[ts[k][1]], q[ts[k][2]], q[ts[k][3]], q[ts[k][4]]>>],
     refs  |-> refs,
     coord |-> [p \in DOMAIN cs |-> cs[CHOOSE i \in DOMAIN cs : q[i] = p]],
     required |-> {}, waves |-> waves, typchk |-> 1, npmax |-> 40, nemax |-> 99,
     maxMarks |-> 9, maxRefused |-> 0]

Axes == <<<<0, 0, 0>>, <<8, 0, 0>>, <<0, 8, 0>>, <<0, 0, 8>>>>
One(q, waves) == Mesh(q, <<<<1, 2, 3, 4>>>>, Axes, <<1>>, waves)

Two(q, refs) ==
    Mesh(q, <<<<1, 2, 3, 4>>, <<5, 3, 2, 4>>>>, Append(Axes, <<8, 8, 8>>), refs, <<"surf">>)

(* Around the edge 1 2.                                                    *)
Ring(q, refs, waves) ==
    Mesh(q, <<<<1, 2, 3, 4>>, <<1, 2, 4, 5>>, <<1, 2, 5, 3>>>>,
         <<<<0, 0, -8>>, <<0, 0, 8>>, <<8, 0, 0>>, <<-8, 8, 0>>, <<-8, -8, 0>>>>, refs, waves)

(* Around the vertex 5.                                                    *)
Star(q, refs) ==
    Mesh(q, <<<<5, 2, 3, 4>>, <<1, 5, 3, 4>>, <<1, 2, 5, 4>>, <<1, 2, 3, 5>>>>,
         <<<<0, 0, 0>>, <<32, 0, 0>>, <<0, 32, 0>>, <<0, 0, 32>>, <<8, 8, 8>>>>, refs, <<"vol">>)

SomeOrders == {<<1, 2, 3, 4, 5>>, <<5, 4, 3, 2, 1>>, <<3, 1, 4, 5, 2>>, <<2, 5, 1, 4, 3>>,
               <<4, 3, 5, 1, 2>>, <<1, 5, 2, 3, 4>>}
FewOrders  == {<<1, 2, 3, 4, 5>>, <<3, 1, 4, 5, 2>>}

Patterns   == {One(q, <<"surf">>) : q \in Permutations(1..4)}
Interfaces == {[Two(q, <<1, 2>>) EXCEPT !.maxMarks = 4] : q \in SomeOrders}
Refusals   == {[Two(q, <<1, 1>>) EXCEPT !.maxMarks = 2, !.maxRefused = 9] : q \in FewOrders}
Limits     == {[Two(q, <<2, 1>>) EXCEPT !.npmax = 7, !.nemax = n, !.typchk = 2, !.maxMarks = 3] :
                   q \in FewOrders, n \in {4, 6}}
Required   == {[Two(q, <<1, 1>>) EXCEPT !.required = {2}] : q \in FewOrders}
Inside     == {Ring(q, r, <<"vol">>) : q \in SomeOrders, r \in {<<1, 1, 1>>, <<1, 2, 1>>}}
              \union {[Star(q, <<1, 1, 1, 1>>) EXCEPT !.required = s] : q \in FewOrders, s \in {{}, {3}}}
              \union {[Star(q, <<1, 1, 2, 1>>) EXCEPT !.npmax = 7] : q \in FewOrders}
Both       == {[Ring(q, <<1, 1, 1>>, <<"surf", "vol">>) EXCEPT !.maxMarks = 2] : q \in FewOrders}
              \union {[One(q, <<"surf", "vol">>) EXCEPT !.maxMarks = 3] :
                          q \in {<<1, 2, 3, 4>>, <<4, 2, 1, 3>>}}

OneTet     == {One(<<1, 2, 3, 4>>, <<"surf">>)}
AllMeshes == Patterns \union Interfaces \union Refusals \union Limits \union Required
             \union Inside \union Both
===============================================================================
