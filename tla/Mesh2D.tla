-------------------------------- MODULE Mesh2D --------------------------------
(***************************************************************************)
(* The triangulation of the 2D remesher and the operators that change it:  *)
(* split of an edge or of several at once (split_2d.c), collapse of an     *)
(* edge (colver_2d.c), swap of an edge (swapar_2d.c).  A mesh is a record  *)
(*   pts, trs   the slots of mesh->point and mesh->tria (SlotPool)         *)
(*   point      [c, tag] of each vertex: coordinates, set of tags          *)
(*   tria       [v, tag, ref, adja] of each triangle: for each local index *)
(*              i, vertex i, the tags of the edge opposite to it, and the  *)
(*              pair <<k, j>> of the triangle across this edge and of the  *)
(*              edge in it (3*k+j in mesh->adja), NoAdja on the boundary.  *)
(* The geometry is straight: the curve that supports an edge is the edge.  *)
(***************************************************************************)
EXTENDS SlotPool

Local  == 0..2
Nxt(i) == (i + 1) % 3                                \* MMG5_inxt2
Prv(i) == (i + 2) % 3                                \* MMG5_iprv2
NoAdja == <<0, 0>>

TagSet == {"ref", "geo", "bdy", "nom", "crn", "req"}
EDG(tag) == tag \intersect {"geo", "ref"} # {}       \* MG_EDG
SIN(tag) == tag \intersect {"crn", "req"} # {}       \* MG_SIN

NoPoint == [c |-> <<0, 0>>, tag |-> {}]
NoTria  == [v |-> [i \in Local |-> 0], tag |-> [i \in Local |-> {}], ref |-> 0,
            adja |-> [i \in Local |-> NoAdja]]

(* Twice the signed area of a triangle on the points p, q, r: the quality  *)
(* functions return 0 when it is not positive.                             *)
Area(p, q, r) == (q[1] - p[1]) * (r[2] - p[2]) - (q[2] - p[2]) * (r[1] - p[1])

AreaOf(m, v) == Area(m.point[v[0]].c, m.point[v[1]].c, m.point[v[2]].c)

(* Triangle k if vertex ip took the place of its vertex i.                 *)
With(m, k, i, ip) == [m.tria[k].v EXCEPT ![i] = ip]

-------------------------------------------------------------------------------
(* MMG2D_newPt, MMG2D_delPt, MMG2D_delElt on the mesh.                     *)
NewPt(m, c, tag) ==
    [m EXCEPT !.pts = NewSlot(@), !.point[m.pts.nil] = [c |-> c, tag |-> tag]]

DelPt(m, ip) == [m EXCEPT !.pts = DelSlot(@, ip), !.point[ip] = NoPoint]

DelElt(m, k) == [m EXCEPT !.trs = DelSlot(@, k), !.tria[k] = NoTria]

(* Edge a = <<k,i>> and edge b become adjacent.                            *)
SetAdja(m, a, b) == IF a = NoAdja THEN m ELSE [m EXCEPT !.tria[a[1]].adja[a[2]] = b]
Glue(m, a, b) == SetAdja(SetAdja(m, a, b), b, a)

AddTag(m, a, tag) ==
    IF a = NoAdja THEN m ELSE [m EXCEPT !.tria[a[1]].tag[a[2]] = @ \union tag]
SetTag(m, a, tag) ==
    IF a = NoAdja THEN m ELSE [m EXCEPT !.tria[a[1]].tag[a[2]] = tag]

-------------------------------------------------------------------------------
(* MMG5_boulet.  The ball of a vertex is a sequence of pairs <<k, i>>, the *)
(* vertex being vertex i of triangle k: turn one way around it until the   *)
(* first triangle or the boundary is met, then, from the boundary, turn    *)
(* the other way.                                                          *)
Turn(m, s, way) ==
    LET to[i \in Local] == IF way = "onward" THEN Nxt(i) ELSE Prv(i)
        a == m.tria[s[1]].adja[to[s[2]]]
    IN  <<a[1], to[a[2]]>>

Fan(m, s, way) ==
    LET fan[n \in 1..m.trs.max] ==
            IF n = 1 THEN <<s>>
            ELSE LET met  == fan[n - 1]
                     next == Turn(m, met[Len(met)], way)
                 IN  IF Len(met) < n - 1 \/ next[1] \in {0, s[1]} THEN met
                     ELSE Append(met, next)
    IN  fan[m.trs.max]

Boulet(m, k, i) ==
    LET onward == Fan(m, <<k, i>>, "onward")
    IN  IF Turn(m, onward[Len(onward)], "onward")[1] # 0 THEN onward
        ELSE onward \o Tail(Fan(m, <<k, i>>, "back"))

-------------------------------------------------------------------------------
(* Mutant of Half: the triangle beyond still names the one that was cut.   *)
HalfOneWay(m, k, n, a, b, ip) ==
    LET pt   == m.tria[k]
        kept == [pt EXCEPT !.v[b] = ip, !.tag[a] = {}, !.adja[a] = <<n, b>>]
        new  == [pt EXCEPT !.v[a] = ip, !.tag[b] = {}, !.adja[b] = <<k, a>>]
    IN  [m EXCEPT !.trs = NewSlot(@), !.tria[k] = kept, !.tria[n] = new]

(* Half of MMG2D_split1b: triangle k is cut from its vertex a+b opposite   *)
(* to the edge <<vertex a, vertex b>> to the new vertex ip.  It keeps      *)
(* vertex a, the new triangle, n, keeps vertex b and what lay across the   *)
(* edge opposite to vertex a.                                              *)
Half(m, k, n, a, b, ip) ==
    LET pt   == m.tria[k]
        kept == [pt EXCEPT !.v[b] = ip, !.tag[a] = {}, !.adja[a] = <<n, b>>]
        new  == [pt EXCEPT !.v[a] = ip, !.tag[b] = {}, !.adja[b] = <<k, a>>]
        cut  == [m EXCEPT !.trs = NewSlot(@), !.tria[k] = kept, !.tria[n] = new]
    IN  SetAdja(cut, pt.adja[a], <<n, a>>)

(* MMG2D_split1b when both new triangles can be created; only the first    *)
(* half of it is done when the second one can't.                           *)
FirstHalf(m, k, i, ip) == Half(m, k, m.trs.nil, Nxt(i), Prv(i), ip)

Split1b(m, k, i, ip) ==
    LET a   == m.tria[k].adja[i]
        iel == m.trs.nil
        m1  == FirstHalf(m, k, i, ip)
        kel == m1.trs.nil
        m2  == Half(m1, a[1], kel, Prv(a[2]), Nxt(a[2]), ip)
    IN  IF a = NoAdja THEN m1 ELSE Glue(m2, <<iel, i>>, <<kel, a[2]>>)

(* The four triangles, or two, whose quality MMG2D_chkspl checks.          *)
SplitSound(m, k, i, ip) ==
    LET a == m.tria[k].adja[i]
    IN  /\ \A j \in Local \ {i} : AreaOf(m, With(m, k, j, ip)) > 0
        /\ a # NoAdja => \A j \in Local \ {a[2]} : AreaOf(m, With(m, a[1], j, ip)) > 0

Midpoint(p, q) == <<(p[1] + q[1]) \div 2, (p[2] + q[2]) \div 2>>

-------------------------------------------------------------------------------
(* MMG2D_chkcol.  Edge i of triangle k may be collapsed, its vertex i1     *)
(* going to its vertex i2.  In the order of the code: the tests on tags,   *)
(* the void triangle of an open ball, the edges between two boundaries.    *)
TagsAllow(m, k, i) ==
    LET pt  == m.tria[k]
        i1  == Nxt(i)
        i2  == Prv(i)
        ip1 == m.point[pt.v[i1]]
        a   == pt.adja[i]
    IN  /\ EDG(ip1.tag) => /\ EDG(m.point[pt.v[i2]].tag)
                           /\ pt.tag[i1] \union pt.tag[i2] = {}
        /\ ~(EDG(pt.tag[i1]) /\ EDG(pt.tag[i2]))
        /\ a # NoAdja => ~(/\ EDG(m.tria[a[1]].tag[Nxt(a[2])])
                           /\ EDG(m.tria[a[1]].tag[Prv(a[2])]))

(* The end of the boundary edge met when turning around vertex i2.         *)
VoidEnd(m, k, i) ==
    LET walk[n \in 1..m.trs.max] ==
            IF n = 1 THEN <<k, Nxt(i)>>
            ELSE LET s == walk[n - 1]
                     a == m.tria[s[1]].adja[s[2]]
                 IN  IF EDG(m.tria[s[1]].tag[s[2]]) \/ a = NoAdja THEN s
                     ELSE <<a[1], Nxt(a[2])>>
        last == walk[m.trs.max]
    IN  m.tria[last[1]].v[Prv(last[2])]

FarEnd(m, s) == m.tria[s[1]].v[Prv(s[2])]

(* Mutant of NoBdyBridge: the tag of the wrong edge is looked at.          *)
NoBdyBridgeWrongEdge(m, list, ip2) ==
    "bdy" \in m.point[ip2].tag =>
        \A l \in 1..(Len(list) - 1) :
            "bdy" \in m.point[FarEnd(m, list[l])].tag =>
                "bdy" \in m.tria[list[l][1]].tag[list[l][2]]

NoBdyBridge(m, list, ip2) ==
    "bdy" \in m.point[ip2].tag =>
        \A l \in 1..(Len(list) - 1) :
            "bdy" \in m.point[FarEnd(m, list[l])].tag =>
                "bdy" \in m.tria[list[l][1]].tag[Nxt(list[l][2])]

(* Mutant of BallSound: the loop on the ball starts one triangle late.     *)
BallSoundLate(m, list, open, ip2) ==
    \A l \in 3..(Len(list) - (IF open THEN 0 ELSE 1)) :
        AreaOf(m, With(m, list[l][1], list[l][2], ip2)) > 0

(* The triangles of the ball that stay keep a positive area.               *)
BallSound(m, list, open, ip2) ==
    \A l \in 2..(Len(list) - (IF open THEN 0 ELSE 1)) :
        AreaOf(m, With(m, list[l][1], list[l][2], ip2)) > 0

Wide(list, open) == Len(list) > 3 \/ (Len(list) = 3 /\ open)

Chkcol(m, k, i, fem) ==
    LET pt   == m.tria[k]
        i1   == Nxt(i)
        i2   == Prv(i)
        ip2  == pt.v[i2]
        list == Boulet(m, k, i1)
        open == pt.adja[i] = NoAdja
        s    == list[2]
        a    == m.tria[s[1]].adja[s[2]]
    IN  /\ TagsAllow(m, k, i)
        /\ open => FarEnd(m, list[Len(list)]) # VoidEnd(m, k, i)
        /\ fem => NoBdyBridge(m, list, ip2)
        /\ \/ /\ Wide(list, open)
              /\ BallSound(m, list, open, ip2)
           \/ /\ Len(list) = 3 /\ ~open
              /\ ~SIN(m.point[pt.v[i1]].tag)
              /\ EDG(pt.tag[i2]) <=> EDG(pt.tag[i])
              /\ ~\A j \in Local : EDG(pt.tag[j])
           \/ /\ Len(list) = 2 /\ open
              /\ a # NoAdja => m.tria[a[1]].v[a[2]] # ip2
              /\ pt.ref = m.tria[s[1]].ref
              /\ "geo" \in m.tria[s[1]].tag[Nxt(s[2])]
              /\ AreaOf(m, With(m, s[1], s[2], ip2)) > 0

(* Mutant of TakeOver: the tags of the edge are lost.                      *)
TakeOverUntagged(m, e, f) == Glue(m, f, m.tria[e[1]].adja[e[2]])

(* Triangle s[1] of the ball takes over edge e, of a triangle that         *)
(* disappears, on its edge f.                                              *)
TakeOver(m, e, f) ==
    LET a  == m.tria[e[1]].adja[e[2]]
        m1 == AddTag(m, f, m.tria[e[1]].tag[e[2]])
        m2 == AddTag(m1, a, m1.tria[f[1]].tag[f[2]])
    IN  Glue(m2, f, a)

(* MMG2D_colver, from the ball of the vertex that disappears.              *)
Colver(m, list) ==
    LET s    == list[1]
        n    == Len(list)
        ip1  == m.tria[s[1]].v[s[2]]
        ip2  == m.tria[s[1]].v[Nxt(s[2])]
        open == m.tria[s[1]].adja[Prv(s[2])] = NoAdja
        stay == {list[l] : l \in 2..(IF open THEN n ELSE n - 1)}
        m1   == [m EXCEPT !.point[ip2].tag = @ \union m.point[ip1].tag,
                          !.tria = [k \in DOMAIN @ |->
                              IF \E t \in stay : t[1] = k
                              THEN [@[k] EXCEPT !.v[(CHOOSE t \in stay : t[1] = k)[2]] = ip2]
                              ELSE @[k]]]
        m2   == TakeOver(m1, s, <<list[2][1], Prv(list[2][2])>>)
        m3   == TakeOver(m2, list[n], <<list[n - 1][1], Nxt(list[n - 1][2])>>)
    IN  IF open THEN DelElt(DelPt(m2, ip1), s[1])
        ELSE DelElt(DelElt(DelPt(m3, ip1), s[1]), list[n][1])

(* MMG2D_colver3: three triangles around the vertex, the second one stays. *)
Colver3(m, list) ==
    LET iel == list[1][1]   i == list[1][2]
        jel == list[2][1]   j == list[2][2]
        kel == list[3][1]   k == list[3][2]
        a1  == m.tria[kel].adja[k]
        a2  == m.tria[iel].adja[i]
        m0  == AddTag([m EXCEPT !.tria[jel].v[j] = m.tria[iel].v[Nxt(i)]],
                      <<jel, Nxt(j)>>, m.tria[kel].tag[k])
        m1  == AddTag(m0, <<jel, Prv(j)>>, m.tria[iel].tag[i])
        m2  == Glue(SetTag(m1, a2, m1.tria[jel].tag[Prv(j)]), <<jel, Prv(j)>>, a2)
        m3  == Glue(SetTag(m2, a1, m1.tria[jel].tag[Nxt(j)]), <<jel, Nxt(j)>>, a1)
    IN  DelElt(DelElt(DelPt(m3, m.tria[iel].v[i]), iel), kel)

(* MMG2D_colver2: two triangles around a boundary vertex, the second one   *)
(* stays; the tags of the triangle across are left as they are.            *)
Colver2(m, list) ==
    LET iel == list[1][1]   i1 == list[1][2]
        jel == list[2][1]   j2 == list[2][2]
        m1  == [m EXCEPT !.tria[jel].v[j2] = m.tria[iel].v[Nxt(i1)],
                         !.tria[jel].tag[Prv(j2)] = @ \union m.tria[iel].tag[i1]]
        m2  == Glue(m1, <<jel, Prv(j2)>>, m.tria[iel].adja[i1])
    IN  DelElt(DelPt(m2, m.tria[iel].v[i1]), iel)

(* The choice that MMG2D_adpcol and MMG2D_colelt make from the ball.       *)
Collapsed(m, k, i) ==
    LET list == Boulet(m, k, Nxt(i))
        open == m.tria[k].adja[i] = NoAdja
    IN  IF Wide(list, open) THEN Colver(m, list)
        ELSE IF Len(list) = 3 THEN Colver3(m, list)
        ELSE Colver2(m, list)

-------------------------------------------------------------------------------
(* Mutant of Chkswp: an edge of an interface may be swapped.               *)
ChkswpAnyEdge(m, k, i, fem) ==
    LET pt == m.tria[k]
        a  == pt.adja[i]
        iq == m.tria[a[1]].v[a[2]]
    IN  /\ ~SIN(pt.tag[i])
        /\ a # NoAdja
        /\ AreaOf(m, With(m, k, Prv(i), iq)) > 0
        /\ AreaOf(m, With(m, k, Nxt(i), iq)) > 0

(* MMG2D_chkswp: the quality after the swap is better than before, so the  *)
(* two new triangles have a positive area.                                 *)
Chkswp(m, k, i, fem) ==
    LET pt == m.tria[k]
        a  == pt.adja[i]
        iq == m.tria[a[1]].v[a[2]]
    IN  /\ ~EDG(pt.tag[i]) /\ ~SIN(pt.tag[i])
        /\ a # NoAdja
        /\ fem => ~("bdy" \in m.point[pt.v[i]].tag /\ "bdy" \in m.point[iq].tag)
        /\ AreaOf(m, With(m, k, Prv(i), iq)) > 0
        /\ AreaOf(m, With(m, k, Nxt(i), iq)) > 0

(* MMG2D_swapar.                                                           *)
Swapar(m, k, i) ==
    LET pt  == m.tria[k]
        adj == pt.adja[i][1]
        j   == pt.adja[i][2]
        pt1 == m.tria[adj]
        i1  == Nxt(i)
        jj  == Nxt(j)
        m1  == [m EXCEPT
                  !.tria[k]   = [pt EXCEPT !.v[Prv(i)] = pt1.v[j],
                                           !.tag[i] = pt1.tag[jj], !.tag[i1] = {}],
                  !.tria[adj] = [pt1 EXCEPT !.v[Prv(j)] = pt.v[i],
                                            !.tag[j] = pt.tag[i1], !.tag[jj] = {}]]
    IN  Glue(Glue(Glue(m1, <<k, i>>, pt1.adja[jj]), <<k, i1>>, <<adj, jj>>),
             <<adj, j>>, pt.adja[i1])

-------------------------------------------------------------------------------
(* Mutant of Split1: the second piece keeps the vertex of the first one.   *)
Split1Overlap(pt, x, i) ==
    << [pt EXCEPT !.v[Prv(i)] = x[i], !.tag[Nxt(i)] = {}],
       [pt EXCEPT !.tag[Prv(i)] = {}] >>

(* MMG2D_split1: the pieces of a triangle whose edge i is cut at x[i], the *)
(* first one in its place.                                                 *)
Split1(pt, x, i) ==
    << [pt EXCEPT !.v[Prv(i)] = x[i], !.tag[Nxt(i)] = {}],
       [pt EXCEPT !.v[Nxt(i)] = x[i], !.tag[Prv(i)] = {}] >>

(* Mutant of Split2: the third piece keeps the tags of the first edge.     *)
Split2OneTag(pt, x, i) ==
    LET j == Nxt(i)
        l == Prv(i)
    IN  << [pt EXCEPT !.v[j] = x[l], !.v[l] = x[j], !.tag[i] = {}],
           [pt EXCEPT !.v[i] = x[l], !.tag[j] = {}],
           [pt EXCEPT !.v[i] = x[j], !.v[j] = x[l], !.tag[i] = {}] >>

(* MMG2D_split2: edge i is the one that is not cut.                        *)
Split2(pt, x, i) ==
    LET j == Nxt(i)
        l == Prv(i)
    IN  << [pt EXCEPT !.v[j] = x[l], !.v[l] = x[j], !.tag[i] = {}],
           [pt EXCEPT !.v[i] = x[l], !.tag[j] = {}],
           [pt EXCEPT !.v[i] = x[j], !.v[j] = x[l], !.tag[i] = {}, !.tag[l] = {}] >>

(* Mutant of Split3: two vertices of the inner piece are exchanged.        *)
Split3Swapped(pt, x) ==
    << [pt EXCEPT !.v[1] = x[2], !.v[2] = x[1], !.tag[0] = {}],
       [pt EXCEPT !.v[0] = x[2], !.v[2] = x[0], !.tag[1] = {}],
       [pt EXCEPT !.v[0] = x[1], !.v[1] = x[0], !.tag[2] = {}],
       [pt EXCEPT !.v[0] = x[2], !.v[1] = x[1], !.v[2] = x[0], !.tag = [i \in Local |-> {}]] >>

(* MMG2D_split3.                                                           *)
Split3(pt, x) ==
    << [pt EXCEPT !.v[1] = x[2], !.v[2] = x[1], !.tag[0] = {}],
       [pt EXCEPT !.v[0] = x[2], !.v[2] = x[0], !.tag[1] = {}],
       [pt EXCEPT !.v[0] = x[1], !.v[1] = x[0], !.tag[2] = {}],
       [pt EXCEPT !.v[0] = x[1], !.v[1] = x[2], !.v[2] = x[0], !.tag = [i \in Local |-> {}]] >>

(* MMG2D_anaelt, step 4: the pattern of the edges that are cut.            *)
Pieces(pt, x, cut) ==
    CASE Cardinality(cut) = 1 -> Split1(pt, x, CHOOSE i \in cut : TRUE)
      [] Cardinality(cut) = 2 -> Split2(pt, x, CHOOSE i \in Local : i \notin cut)
      [] OTHER                -> Split3(pt, x)
===============================================================================
