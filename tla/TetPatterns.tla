------------------------------ MODULE TetPatterns ------------------------------
(***************************************************************************)
(* The patterns of split_3d.c: how a tetrahedron is cut when some of its   *)
(* six edges carry a new point.  A flag says which edges do; its           *)
(* configuration is a numbering of the tetrahedron that brings it back to  *)
(* the reference flag of its family, for which the pieces are written.     *)
(*                                                                         *)
(* A vertex of a piece is a vertex 0..3 of the tetrahedron or the point    *)
(* 4 + e of its edge e.  The tag of an edge of a piece is the one that the *)
(* tetrahedron has at the same place (K), none (N), or the one of a face   *)
(* of the tetrahedron in which the edge now lies (F0 to F3).  A face of a  *)
(* piece that no longer lies on the tetrahedron's face of the same number  *)
(* loses its tag and its reference and has its orientation bit set.        *)
(***************************************************************************)
EXTENDS Integers, Sequences

Local == 0..3
Edge  == 0..5

Array(s) == [i \in 0..Len(s) - 1 |-> s[i + 1]]

(* Ends of an edge, edges of a face.                                       *)
iare == Array(<<{0, 1}, {0, 2}, {0, 3}, {1, 2}, {1, 3}, {2, 3}>>)
iarf == Array(<<<<5, 4, 3>>, <<5, 1, 2>>, <<4, 2, 0>>, <<3, 0, 1>>>>)

m0 == 4
m1 == 5
m2 == 6
m3 == 7
m4 == 8
m5 == 9
K == -1
N == -2
F0 == 0
F1 == 1
F2 == 2
F3 == 3

P(v, tag, reset) == [v |-> v, tag |-> tag, reset |-> reset, ori |-> reset]

(* The twelve direct numberings: the vertices (tau) and the edges (taued)  *)
(* of the tetrahedron that play the parts of 0, 1, 2, 3 and 0, ..., 5.     *)
Numberings == Array(<<
    <<0, 1, 2, 3>>, <<0, 2, 3, 1>>, <<0, 3, 1, 2>>, <<1, 0, 3, 2>>,
    <<1, 2, 0, 3>>, <<1, 3, 2, 0>>, <<2, 0, 1, 3>>, <<2, 1, 3, 0>>,
    <<2, 3, 0, 1>>, <<3, 0, 2, 1>>, <<3, 1, 0, 2>>, <<3, 2, 1, 0>>>>)

permedge == Array(<<
    <<0, 1, 2, 3, 4, 5>>, <<1, 2, 0, 5, 3, 4>>, <<2, 0, 1, 4, 5, 3>>,
    <<0, 4, 3, 2, 1, 5>>, <<3, 0, 4, 1, 5, 2>>, <<4, 3, 0, 5, 2, 1>>,
    <<1, 3, 5, 0, 2, 4>>, <<3, 5, 1, 4, 0, 2>>, <<5, 1, 3, 2, 4, 0>>,
    <<2, 5, 4, 1, 0, 3>>, <<4, 2, 5, 0, 3, 1>>, <<5, 4, 2, 3, 1, 0>>>>)

Cfg(n)    == [tau |-> Array(Numberings[n]), taued |-> Array(permedge[n])]
(* Mutant of CfgSym: the edges are not renumbered.                         *)
CfgHalf(n) == [tau   |-> [i \in Local |-> Cfg(n).tau[Array(<<0, 2, 1, 3>>)[i]]],
               taued |-> Cfg(n).taued]

(* The same after the symmetry of split3op, which exchanges vertices 1, 2. *)
CfgSym(n) == [tau   |-> [i \in Local |-> Cfg(n).tau[Array(<<0, 2, 1, 3>>)[i]]],
              taued |-> [i \in Edge  |-> Cfg(n).taued[Array(<<1, 0, 2, 3, 5, 4>>)[i]]]]

-------------------------------------------------------------------------------
(* For each family, the flags and their configurations, then the pieces;   *)
(* c is the configuration and v gives the global numbers of the vertices:  *)
(* the diagonal of a face with two new points starts at its vertex of      *)
(* smallest number, so that both sides of the face choose the same one.    *)

(* Mutant of First: the local numbers are compared.                        *)
FirstLocal(c, v, i, j) == c.tau[i] < c.tau[j]

First(c, v, i, j) == v[c.tau[i]] < v[c.tau[j]]

(* One edge.                                                               *)
split1_cfg == [f \in {1, 2, 4, 8, 16, 32} |->
    Cfg(CASE f = 1 -> 0 [] f = 2 -> 6 [] f = 4 -> 2 [] f = 8 -> 4 [] f = 16 -> 10
            [] f = 32 -> 11)]

split1 == << P(<<0, m0, 2, 3>>, <<K, K, K, F3, F2, K>>, {0}),
             P(<<m0, 1, 2, 3>>, <<K, F3, F2, K, K, K>>, {1}) >>

(* Two edges of one face.                                                  *)
split2sf_cfg == [f \in {48, 24, 40, 6, 34, 36, 20, 5, 17, 9, 3, 10} |->
    Cfg(CASE f = 48 -> 0 [] f = 24 -> 1 [] f = 40 -> 2 [] f = 6 -> 5 [] f = 34 -> 3
            [] f = 36 -> 4 [] f = 20 -> 6 [] f = 5 -> 7 [] f = 17 -> 8 [] f = 9 -> 9
            [] f = 3 -> 11 [] f = 10 -> 10)]

split2sf(c, v) ==
    << P(<<0, m4, m5, 3>>, <<F2, F1, K, F0, K, K>>, {3}) >> \o
    IF First(c, v, 1, 2)
    THEN << P(<<0, 1, m5, m4>>, <<K, F1, F2, F0, K, F0>>, {1, 3}),
            P(<<0, 1, 2, m5>>,  <<K, K, F1, K, F0, K>>, {2}) >>
    ELSE << P(<<0, 1, 2, m4>>,  <<K, K, F2, K, K, F0>>, {1}),
            P(<<0, m4, 2, m5>>, <<F2, K, F1, F0, F0, K>>, {2, 3}) >>

(* Two opposite edges.                                                     *)
split2_cfg == [f \in {33, 18, 12} |->
    Cfg(CASE f = 33 -> 0 [] f = 18 -> 10 [] f = 12 -> 2)]

split2 == << P(<<0, m0, m5, 3>>, <<K, F1, K, N, F2, K>>, {0, 3}),
             P(<<0, m0, 2, m5>>, <<K, K, F1, F3, N, K>>, {0, 2}),
             P(<<m0, 1, m5, 3>>, <<K, N, F2, F0, K, K>>, {1, 3}),
             P(<<m0, 1, 2, m5>>, <<K, F3, N, K, F0, K>>, {1, 2}) >>

(* The three edges of a face.                                              *)
split3_cfg == [f \in {11, 21, 38, 56} |->
    Cfg(CASE f = 11 -> 0 [] f = 21 -> 2 [] f = 38 -> 9 [] f = 56 -> 5)]

split3 == << P(<<0, m0, m1, 3>>,  <<K, K, K, F3, F2, F1>>, {0}),
             P(<<m0, 1, m3, 3>>,  <<K, F3, F2, K, K, F0>>, {1}),
             P(<<m1, m3, 2, 3>>,  <<F3, K, F1, K, F0, K>>, {2}),
             P(<<m0, m3, m1, 3>>, <<F3, F3, F2, F3, F0, F1>>, {0, 1, 2}) >>

(* The three edges of a vertex: ia is the smallest of the three other      *)
(* vertices and ib the next one.                                           *)
split3cone_cfg == [f \in {7, 25, 42, 52} |->
    Cfg(CASE f = 7 -> 0 [] f = 25 -> 4 [] f = 42 -> 6 [] f = 52 -> 10)]

ConeFrom3(c, v) ==
    << P(<<m2, m0, m1, 3>>, <<F2, F1, K, F3, F2, F1>>, {0, 3}) >> \o
    IF First(c, v, 1, 2)
    THEN << P(<<m0, 1, m1, 3>>, <<K, F3, F2, F3, K, F1>>, {0, 1}),
            P(<<m1, 1, 2, 3>>,  <<F3, K, F1, K, K, K>>, {2}) >>
    ELSE << P(<<m1, m0, 2, 3>>, <<F3, K, F1, F3, F2, K>>, {0, 2}),
            P(<<m0, 1, 2, 3>>,  <<K, F3, F2, K, K, K>>, {1}) >>

ConeFrom2(c, v) ==
    << P(<<m1, m0, 2, m2>>, <<F3, K, F1, F3, F2, F1>>, {0, 2}) >> \o
    IF First(c, v, 3, 1)
    THEN << P(<<m2, m0, 2, 3>>, <<F2, F1, K, F3, F2, K>>, {0, 3}),
            P(<<m0, 1, 2, 3>>,  <<K, F3, F2, K, K, K>>, {1}) >>
    ELSE << P(<<m0, 1, 2, m2>>, <<K, F3, F2, K, F2, F1>>, {0, 1}),
            P(<<m2, 1, 2, 3>>,  <<F2, F1, K, K, K, K>>, {3}) >>

ConeFrom1(c, v) ==
    << P(<<m0, 1, m1, m2>>, <<K, F3, F2, F3, F2, F1>>, {0, 1}) >> \o
    IF First(c, v, 2, 3)
    THEN << P(<<m1, 1, 2, m2>>, <<F3, K, F1, K, F2, F1>>, {0, 2}),
            P(<<m2, 1, 2, 3>>,  <<F2, F1, K, K, K, K>>, {3}) >>
    ELSE << P(<<m2, 1, m1, 3>>, <<F2, F1, K, F3, K, F1>>, {0, 3}),
            P(<<m1, 1, 2, 3>>,  <<F3, K, F1, K, K, K>>, {2}) >>

split3cone(c, v) ==
    << P(<<0, m0, m1, m2>>, <<K, K, K, F3, F2, F1>>, {0}) >> \o
    CASE First(c, v, 3, 1) /\ First(c, v, 3, 2) -> ConeFrom3(c, v)
      [] First(c, v, 2, 1) /\ First(c, v, 2, 3) -> ConeFrom2(c, v)
      [] OTHER -> ConeFrom1(c, v)

(* Three edges on a path: two on a face and the one opposite to one of     *)
(* them.  The last piece of the third case has the orientation bits of     *)
(* faces 1, 2, 3 set while faces 0, 2, 3 lose their tags.                  *)
split3op_cfg == [f \in {35, 19, 13, 37, 22, 28, 26, 14, 49, 50, 44, 41} |->
    CASE f = 35 -> Cfg(0) [] f = 19 -> CfgSym(0) [] f = 13 -> Cfg(2)
         [] f = 37 -> CfgSym(2) [] f = 22 -> Cfg(10) [] f = 28 -> CfgSym(10)
         [] f = 26 -> Cfg(6) [] f = 14 -> CfgSym(1) [] f = 49 -> Cfg(11)
         [] f = 50 -> CfgSym(11) [] f = 44 -> Cfg(9) [] f = 41 -> CfgSym(4)]

Op20 ==
    << P(<<m1, m0, 2, m5>>, <<F3, K, F1, F3, N, K>>, {0, 2}),
       P(<<m0, 1, 2, m5>>,  <<K, F3, N, K, F0, K>>, {1, 2}),
       P(<<m0, 1, m5, 3>>,  <<K, N, F2, F0, K, K>>, {1, 3}),
       P(<<0, m0, m1, m5>>, <<K, K, F1, F3, N, F1>>, {0, 2}),
       P(<<0, m0, m5, 3>>,  <<K, F1, K, N, F2, K>>, {0, 3}) >>

Op10 ==
    << P(<<m1, 1, 2, m5>>,  <<F3, K, F1, K, F0, K>>, {2}),
       P(<<m0, 1, m1, m5>>, <<K, F3, N, F3, F0, F1>>, {0, 1, 2}),
       P(<<m0, 1, m5, 3>>,  <<K, N, F2, F0, K, K>>, {1, 3}),
       P(<<0, m0, m5, 3>>,  <<K, F1, K, N, F2, K>>, {0, 3}),
       P(<<0, m0, m1, m5>>, <<K, K, F1, F3, N, F1>>, {0, 2}) >>

Op23 ==
    << P(<<0, m0, m1, 3>>,  <<K, K, K, F3, F2, F1>>, {0}),
       [P(<<m1, m0, m5, 3>>, <<F3, F1, F1, N, F2, K>>, {0, 2, 3})
          EXCEPT !.ori = {1, 2, 3}],
       P(<<m0, 1, m5, 3>>,  <<K, N, F2, F0, K, K>>, {1, 3}),
       P(<<m1, m0, 2, m5>>, <<F3, K, F1, F3, N, K>>, {0, 2}),
       P(<<m0, 1, 2, m5>>,  <<K, F3, N, K, F0, K>>, {1, 2}) >>

Op13 ==
    << P(<<0, m0, m1, 3>>,  <<K, K, K, F3, F2, F1>>, {0}),
       P(<<m1, 1, 2, m5>>,  <<F3, K, F1, K, F0, K>>, {2}),
       P(<<m0, 1, m1, 3>>,  <<K, F3, F2, F3, K, F1>>, {0, 1}),
       P(<<m1, 1, m5, 3>>,  <<F3, F1, F1, F0, K, K>>, {2, 3}) >>

split3op(c, v) ==
    CASE First(c, v, 2, 1) /\ First(c, v, 0, 3) -> Op20
      [] First(c, v, 1, 2) /\ First(c, v, 0, 3) -> Op10
      [] First(c, v, 2, 1) /\ First(c, v, 3, 0) -> Op23
      [] OTHER -> Op13

(* The three edges of a face and one of those of the opposite vertex.      *)
split4sf_cfg == [f \in {23, 29, 53, 60, 57, 58, 27, 15, 43, 39, 54, 46} |->
    Cfg(CASE f = 23 -> 0 [] f = 29 -> 5 [] f = 53 -> 9 [] f = 60 -> 10 [] f = 57 -> 4
            [] f = 58 -> 8 [] f = 27 -> 3 [] f = 15 -> 1 [] f = 43 -> 7 [] f = 39 -> 2
            [] f = 54 -> 11 [] f = 46 -> 6)]

split4sf12(c, v) ==
    IF First(c, v, 1, 2)
    THEN << P(<<m0, 1, m1, m4>>, <<K, F3, F2, F3, K, N>>, {0, 1}),
            P(<<m1, 1, 2, m4>>,  <<F3, K, N, K, K, F0>>, {1, 2}) >>
    ELSE << P(<<m1, m0, 2, m4>>, <<F3, K, N, F3, F2, F0>>, {0, 1, 2}),
            P(<<m0, 1, 2, m4>>,  <<K, F3, F2, K, K, F0>>, {1}) >>

split4sf23(c, v) ==
    IF First(c, v, 2, 3)
    THEN << P(<<m1, m4, 2, m2>>, <<N, K, F1, F0, F2, F1>>, {0, 2, 3}),
            P(<<m2, m4, 2, 3>>,  <<F2, F1, K, F0, K, K>>, {3}) >>
    ELSE << P(<<m2, m4, m1, 3>>, <<F2, F1, K, N, K, F1>>, {0, 3}),
            P(<<m1, m4, 2, 3>>,  <<N, K, F1, F0, K, K>>, {2, 3}) >>

split4sf(c, v) ==
    << P(<<0, m0, m1, m2>>,  <<K, K, K, F3, F2, F1>>, {0}),
       P(<<m2, m0, m1, m4>>, <<F2, F1, F2, F3, F2, N>>, {0, 1, 3}) >>
    \o split4sf12(c, v) \o split4sf23(c, v)

(* Four edges, all but two opposite ones.                                  *)
split4op_cfg == [f \in {30, 45, 51} |->
    Cfg(CASE f = 30 -> 0 [] f = 45 -> 5 [] f = 51 -> 4)]

split4op01(c, v) ==
    IF First(c, v, 0, 1)
    THEN << P(<<0, 1, m3, m4>>,  <<K, F3, F2, K, K, F0>>, {1}),
            P(<<0, m4, m3, m2>>, <<F2, F3, K, F0, F2, N>>, {0, 1, 3}),
            P(<<0, m3, m1, m2>>, <<F3, K, K, F3, N, F1>>, {0, 2}) >>
    ELSE << P(<<0, 1, m1, m2>>,  <<K, K, K, F3, F2, F1>>, {0}),
            P(<<m1, 1, m3, m2>>, <<F3, F3, F1, K, F2, N>>, {0, 1, 2}),
            P(<<m2, 1, m3, m4>>, <<F2, N, F2, K, K, F0>>, {1, 3}) >>

split4op23(c, v) ==
    IF First(c, v, 2, 3)
    THEN << P(<<m2, m4, 2, 3>>,  <<F2, F1, K, F0, K, K>>, {3}),
            P(<<m2, m3, 2, m4>>, <<N, F1, F2, K, F0, F0>>, {1, 2, 3}),
            P(<<m1, m3, 2, m2>>, <<F3, K, F1, K, N, F1>>, {0, 2}) >>
    ELSE << P(<<m1, m3, 2, 3>>,  <<F3, K, F1, K, F0, K>>, {2}),
            P(<<m2, m3, m1, 3>>, <<N, F1, K, F3, F0, F1>>, {0, 2, 3}),
            P(<<m2, m4, m3, 3>>, <<F2, N, K, F0, K, F0>>, {1, 3}) >>

split4op(c, v) == split4op01(c, v) \o split4op23(c, v)

(* All the edges but one.                                                  *)
split5_cfg == [f \in {62, 61, 59, 55, 47, 31} |->
    Cfg(CASE f = 62 -> 0 [] f = 61 -> 6 [] f = 59 -> 2 [] f = 55 -> 4 [] f = 47 -> 10
            [] f = 31 -> 11)]

split5_01(c, v) ==
    IF First(c, v, 0, 1)
    THEN << P(<<0, 1, m3, m4>>,  <<K, F3, F2, K, K, F0>>, {1}),
            P(<<0, m4, m3, m2>>, <<F2, F3, K, F0, F2, N>>, {0, 1, 3}),
            P(<<0, m3, m1, m2>>, <<F3, K, K, F3, N, F1>>, {0, 2}) >>
    ELSE << P(<<0, 1, m1, m2>>,  <<K, K, K, F3, F2, F1>>, {0}),
            P(<<m2, 1, m3, m4>>, <<F2, N, F2, K, K, F0>>, {1, 3}),
            P(<<m1, 1, m3, m2>>, <<F3, F3, F1, K, F2, N>>, {0, 1, 2}) >>

split5(c, v) ==
    << P(<<m2, m4, m5, 3>>,  <<F2, F1, K, F0, K, K>>, {3}),
       P(<<m1, m3, 2, m5>>,  <<F3, K, F1, K, F0, K>>, {2}),
       P(<<m2, m4, m3, m5>>, <<F2, N, F1, F0, F0, F0>>, {1, 2, 3}),
       P(<<m2, m3, m1, m5>>, <<N, F1, F1, F3, F0, F1>>, {0, 2, 3}) >>
    \o split5_01(c, v)

(* All the edges.                                                          *)
split6_cfg == [f \in {63} |-> Cfg(0)]

split6 == << P(<<0, m0, m1, m2>>,  <<K, K, K, F3, F2, F1>>, {0}),
             P(<<m0, 1, m3, m4>>,  <<K, F3, F2, K, K, F0>>, {1}),
             P(<<m1, m3, 2, m5>>,  <<F3, K, F1, K, F0, K>>, {2}),
             P(<<m2, m4, m5, 3>>,  <<F2, F1, K, F0, K, K>>, {3}),
             P(<<m0, m3, m1, m2>>, <<F3, F3, F2, F3, N, F1>>, {0, 1, 2}),
             P(<<m2, m0, m3, m4>>, <<F2, N, F2, F3, F2, F0>>, {0, 1, 3}),
             P(<<m2, m3, m1, m5>>, <<N, F1, F1, F3, F0, F3>>, {0, 2, 3}),
             P(<<m2, m3, m5, m4>>, <<N, F1, F2, F0, F0, F0>>, {1, 2, 3}) >>

-------------------------------------------------------------------------------
(* A set of edges as the code writes it, with the bit 2^e for edge e.      *)
Bits(edges) ==
    LET bit(e, n) == IF e \in edges THEN n ELSE 0
    IN bit(0, 1) + bit(1, 2) + bit(2, 4) + bit(3, 8) + bit(4, 16) + bit(5, 32)

(* The configuration of a flag, its pieces in the order of the code (the   *)
(* first one replaces the tetrahedron), and a piece placed back: vertices, *)
(* edges and faces are those of the tetrahedron itself.                    *)
Configuration == [flag \in 1..63 |->
    CASE flag \in DOMAIN split1_cfg      -> split1_cfg[flag]
      [] flag \in DOMAIN split2sf_cfg    -> split2sf_cfg[flag]
      [] flag \in DOMAIN split2_cfg      -> split2_cfg[flag]
      [] flag \in DOMAIN split3_cfg      -> split3_cfg[flag]
      [] flag \in DOMAIN split3cone_cfg  -> split3cone_cfg[flag]
      [] flag \in DOMAIN split3op_cfg    -> split3op_cfg[flag]
      [] flag \in DOMAIN split4sf_cfg    -> split4sf_cfg[flag]
      [] flag \in DOMAIN split4op_cfg    -> split4op_cfg[flag]
      [] flag \in DOMAIN split5_cfg      -> split5_cfg[flag]
      [] flag \in DOMAIN split6_cfg      -> split6_cfg[flag]]

Pieces(flag, v) ==
    LET c == Configuration[flag]
    IN CASE flag \in DOMAIN split1_cfg     -> split1
         [] flag \in DOMAIN split2sf_cfg   -> split2sf(c, v)
         [] flag \in DOMAIN split2_cfg     -> split2
         [] flag \in DOMAIN split3_cfg     -> split3
         [] flag \in DOMAIN split3cone_cfg -> split3cone(c, v)
         [] flag \in DOMAIN split3op_cfg   -> split3op(c, v)
         [] flag \in DOMAIN split4sf_cfg   -> split4sf(c, v)
         [] flag \in DOMAIN split4op_cfg   -> split4op(c, v)
         [] flag \in DOMAIN split5_cfg     -> split5(c, v)
         [] flag \in DOMAIN split6_cfg     -> split6

At(perm, i) == CHOOSE a \in DOMAIN perm : perm[a] = i

PlacedVertices(u, c) ==
    [i \in Local |-> LET w == u[At(c.tau, i) + 1]
                     IN IF w < m0 THEN c.tau[w] ELSE m0 + c.taued[w - m0]]

Placed(p, c) ==
    [v     |-> PlacedVertices(p.v, c),
     tag   |-> [e \in Edge |-> LET t == p.tag[At(c.taued, e) + 1]
                               IN IF t < F0 THEN t ELSE c.tau[t]],
     reset |-> {c.tau[f] : f \in p.reset},
     ori   |-> {c.tau[f] : f \in p.ori}]

Split(flag, v) ==
    LET ps == Pieces(flag, v)
    IN [i \in DOMAIN ps |-> Placed(ps[i], Configuration[flag])]

-------------------------------------------------------------------------------
(* The simulations: the tetrahedra whose volumes are tested before a split *)
(* of each family is accepted, their vertices only.                        *)
split1_sim == {<<0, m0, 2, 3>>, <<m0, 1, 2, 3>>}

split2sf_sim(c, v) ==
    {<<0, m4, m5, 3>>} \union
    IF First(c, v, 1, 2) THEN {<<0, 1, m5, m4>>, <<0, 1, 2, m5>>}
                         ELSE {<<0, 1, 2, m4>>, <<0, m4, 2, m5>>}

split2_sim == {<<0, m0, m5, 3>>, <<0, m0, 2, m5>>, <<m0, 1, m5, 3>>, <<m0, 1, 2, m5>>}

split3_sim == {<<0, m0, m1, 3>>, <<m0, 1, m3, 3>>, <<m1, m3, 2, 3>>, <<m0, m3, m1, 3>>}

split3cone_sim(c, v) ==
    {<<0, m0, m1, m2>>} \union
    CASE First(c, v, 3, 1) /\ First(c, v, 3, 2) ->
           {<<m2, m0, m1, 3>>} \union
           (IF First(c, v, 1, 2) THEN {<<m0, 1, m1, 3>>, <<m1, 1, 2, 3>>}
                                 ELSE {<<m1, m0, 2, 3>>, <<m0, 1, 2, 3>>})
      [] First(c, v, 2, 1) /\ First(c, v, 2, 3) ->
           {<<m1, m0, 2, m2>>} \union
           (IF First(c, v, 3, 1) THEN {<<m2, m0, 2, 3>>, <<m0, 1, 2, 3>>}
                                 ELSE {<<m0, 1, 2, m2>>, <<m2, 1, 2, 3>>})
      [] OTHER ->
           {<<m0, 1, m1, m2>>} \union
           (IF First(c, v, 2, 3) THEN {<<m1, 1, 2, m2>>, <<m2, 1, 2, 3>>}
                                 ELSE {<<m2, 1, m1, 3>>, <<m1, 1, 2, 3>>})

split3op_sim(c, v) ==
    CASE First(c, v, 2, 1) /\ First(c, v, 0, 3) ->
           {<<m1, m0, 2, m5>>, <<m0, 1, 2, m5>>, <<m0, 1, m5, 3>>, <<0, m0, m1, m5>>,
            <<0, m0, m5, 3>>}
      [] First(c, v, 1, 2) /\ First(c, v, 0, 3) ->
           {<<m1, 1, 2, m5>>, <<m0, 1, m1, m5>>, <<m0, 1, m5, 3>>, <<0, m0, m1, m5>>,
            <<0, m0, m5, 3>>}
      [] First(c, v, 2, 1) /\ First(c, v, 3, 0) ->
           {<<0, m0, m1, 3>>, <<m1, m0, m5, 3>>, <<m0, 1, m5, 3>>, <<m1, m0, 2, m5>>,
            <<m0, 1, 2, m5>>}
      [] OTHER ->
           {<<0, m0, m1, 3>>, <<m1, 1, 2, m5>>, <<m0, 1, m1, 3>>, <<m1, 1, m5, 3>>}

(* Mutant of split4sf_sim: one choice for both faces.                      *)
split4sf_sim1(c, v) ==
    {<<0, m0, m1, m2>>, <<m2, m0, m1, m4>>} \union
    IF First(c, v, 1, 2)
    THEN {<<m0, 1, m1, m4>>, <<m1, 1, 2, m4>>, <<m1, m4, 2, m2>>, <<m2, m4, 2, 3>>}
    ELSE {<<m1, m0, 2, m4>>, <<m0, 1, 2, m4>>, <<m2, m4, m1, 3>>, <<m1, m4, 2, 3>>}

split4sf_sim(c, v) ==
    {<<0, m0, m1, m2>>, <<m2, m0, m1, m4>>} \union
    (IF First(c, v, 1, 2) THEN {<<m0, 1, m1, m4>>, <<m1, 1, 2, m4>>}
                          ELSE {<<m1, m0, 2, m4>>, <<m0, 1, 2, m4>>}) \union
    (IF First(c, v, 2, 3) THEN {<<m1, m4, 2, m2>>, <<m2, m4, 2, 3>>}
                          ELSE {<<m2, m4, m1, 3>>, <<m1, m4, 2, 3>>})

split4op_sim(c, v) ==
    (IF First(c, v, 0, 1) THEN {<<0, 1, m3, m4>>, <<0, m4, m3, m2>>, <<0, m3, m1, m2>>}
                          ELSE {<<0, 1, m1, m2>>, <<m1, 1, m3, m2>>, <<m2, 1, m3, m4>>}) \union
    (IF First(c, v, 2, 3) THEN {<<m2, m4, 2, 3>>, <<m2, m3, 2, m4>>, <<m1, m3, 2, m2>>}
                          ELSE {<<m1, m3, 2, 3>>, <<m2, m3, m1, 3>>, <<m2, m4, m3, 3>>})

split5_sim(c, v) ==
    {<<m2, m4, m5, 3>>, <<m1, m3, 2, m5>>, <<m2, m4, m3, m5>>, <<m2, m3, m1, m5>>} \union
    IF First(c, v, 0, 1) THEN {<<0, 1, m3, m4>>, <<0, m4, m3, m2>>, <<0, m3, m1, m2>>}
                         ELSE {<<0, 1, m1, m2>>, <<m2, 1, m3, m4>>, <<m1, 1, m3, m2>>}

split6_sim ==
    {<<0, m0, m1, m2>>, <<m0, 1, m3, m4>>, <<m1, m3, 2, m5>>, <<m2, m4, m5, 3>>,
     <<m0, m3, m1, m2>>, <<m2, m0, m3, m4>>, <<m2, m3, m1, m5>>, <<m2, m3, m5, m4>>}

(* Those of a flag, and the same placed back.                              *)
Tests(flag, v) ==
    LET c == Configuration[flag]
    IN CASE flag \in DOMAIN split1_cfg     -> split1_sim
         [] flag \in DOMAIN split2sf_cfg   -> split2sf_sim(c, v)
         [] flag \in DOMAIN split2_cfg     -> split2_sim
         [] flag \in DOMAIN split3_cfg     -> split3_sim
         [] flag \in DOMAIN split3cone_cfg -> split3cone_sim(c, v)
         [] flag \in DOMAIN split3op_cfg   -> split3op_sim(c, v)
         [] flag \in DOMAIN split4sf_cfg   -> split4sf_sim(c, v)
         [] flag \in DOMAIN split4op_cfg   -> split4op_sim(c, v)
         [] flag \in DOMAIN split5_cfg     -> split5_sim(c, v)
         [] flag \in DOMAIN split6_cfg     -> split6_sim

Simulated(flag, v) == {PlacedVertices(u, Configuration[flag]) : u \in Tests(flag, v)}
===============================================================================
