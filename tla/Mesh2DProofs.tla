----------------------------- MODULE Mesh2DProofs -----------------------------
(***************************************************************************)
(* What a collapse, a split, a swap and a move of the 2D remesher do to a  *)
(* mesh, seen on its darts and apart from the code that does them: if the  *)
(* mesh is sound before, it is sound after.  Sound says that its triangles *)
(* are joined by their edges, not inverted, on vertices that are all used, *)
(* that the tags of edges and vertices agree with what is across, and that *)
(* the triangles around a vertex that may move form one fan, so that       *)
(* turning around the vertex meets all of them.  Adapt2DProofs shows that   *)
(* the functions of the remesher do nothing else.  The last parts are      *)
(* about the pattern split and MMG2D_hashTria: the pieces of all triangles *)
(* join (CutsConform), those that are put into the slots of the mesh one   *)
(* triangle after the other are these (CutsDone), and the adjacencies that *)
(* are built from their vertices are right (RehashJoins).                  *)
(***************************************************************************)
EXTENDS Adapt2D, SlotPoolProofs

-------------------------------------------------------------------------------
(* Sound meshes.                                                           *)

(* A dart is an edge seen from one of its triangles, and the corner of the *)
(* triangle opposite to it.  The next and the previous dart of a triangle. *)
DartSet == (1..NTMax) \X Local
Nx(e)   == <<e[1], Nxt(e[2])>>
Pv(e)   == <<e[1], Prv(e[2])>>

(* What the arrays hold: the vertex of a corner, what is across an edge,   *)
(* its tags, the reference of its triangle; the position and the tags of a *)
(* vertex.                                                                 *)
Vt(m, e) == m.tria[e[1]].v[e[2]]
Ad(m, e) == m.tria[e[1]].adja[e[2]]
Tg(m, e) == m.tria[e[1]].tag[e[2]]
Rf(m, e) == m.tria[e[1]].ref
At(m, p) == m.point[p].c
Pt(m, p) == m.point[p].tag

Darts(m) == Live(m.trs) \X Local

(* The types of the arrays.                                                *)
PoolSet(max) == [n : 0..max, max : {max}, nil : 0..max,
                 link : [1..max -> 0..max], st : [1..max -> Status]]
TriaSet  == [v : [Local -> 0..NPMax], tag : [Local -> SUBSET TagSet], ref : Nat,
             adja : [Local -> DartSet \union {NoAdja}]]
PointSet == [c : Int \X Int, tag : SUBSET TagSet]
MeshSet  == [pts : PoolSet(NPMax), trs : PoolSet(NTMax),
             point : [1..NPMax -> PointSet], tria : [1..NTMax -> TriaSet]]

(* The parts of a sound mesh.  Twice the area of the triangle of a dart.   *)
Twice(m, e) == Area(At(m, Vt(m, e)), At(m, Vt(m, Nx(e))), At(m, Vt(m, Pv(e))))

OnLive(m)   == \A e \in Darts(m) : Vt(m, e) \in Live(m.pts)
Joined(m)   == \A e \in Darts(m) :
                  Ad(m, e) # NoAdja => /\ Ad(m, e) \in Darts(m)
                                       /\ Ad(m, Ad(m, e)) = e
                                       /\ Vt(m, Nx(Ad(m, e))) = Vt(m, Pv(e))
                                       /\ Vt(m, Pv(Ad(m, e))) = Vt(m, Nx(e))
Positive(m) == \A e \in Darts(m) : Twice(m, e) > 0
Used(m)     == \A p \in Live(m.pts) : \E e \in Darts(m) : Vt(m, e) = p

Kinds == {{}, {"geo", "bdy"}, {"ref", "bdy"}}

KindOf(m, e) == IF Ad(m, e) = NoAdja THEN {"geo", "bdy"}
                ELSE IF Rf(m, Ad(m, e)) # Rf(m, e) THEN {"ref", "bdy"} ELSE {}
Tagged(m) == \A e \in Darts(m) :
                /\ Ad(m, e) # NoAdja => Tg(m, Ad(m, e)) = Tg(m, e)
                /\ Tg(m, e) \ {"req"} = KindOf(m, e)
                /\ Tg(m, e) \subseteq Pt(m, Vt(m, Nx(e)))
                /\ Tg(m, e) \subseteq Pt(m, Vt(m, Pv(e)))

Plain(m) == \A p \in Live(m.pts) :
               SIN(Pt(m, p)) \/ "nom" \in Pt(m, p) \/ Pt(m, p) \in Kinds

(* A set of corners is closed if, across an edge, it holds both corners of *)
(* each end of the edge or none: around a vertex that the waves may take   *)
(* away or move such a set holds all the corners or none.                  *)
Movable(tag) == ~SIN(tag) /\ "nom" \notin tag

Closed(m, S) == \A e \in Darts(m) :
                   Ad(m, e) # NoAdja => (Pv(e) \in S <=> Nx(Ad(m, e)) \in S)
OneFan(m) == \A S \in SUBSET Darts(m) : Closed(m, S) =>
                \A e \in S, f \in Darts(m) :
                   Vt(m, e) = Vt(m, f) /\ Movable(Pt(m, Vt(m, e))) => f \in S

Lists(m) == /\ \E f : FreeListOK(m.pts, f)
            /\ \E f : FreeListOK(m.trs, f)

Sound(m) == /\ m \in MeshSet /\ Lists(m)
            /\ OnLive(m) /\ Joined(m) /\ Positive(m)
            /\ Used(m) /\ Tagged(m) /\ Plain(m) /\ OneFan(m)

(* The three darts of a triangle.                                          *)
LEMMA Around3 ==
  ASSUME NEW T, NEW e \in T \X Local
  PROVE  /\ Nx(e) \in T \X Local /\ Pv(e) \in T \X Local
         /\ Nx(Nx(e)) = Pv(e) /\ Pv(Pv(e)) = Nx(e)
         /\ Nx(Pv(e)) = e /\ Pv(Nx(e)) = e
         /\ Nx(e) # e /\ Pv(e) # e /\ Nx(e) # Pv(e)
         /\ e[1] \in T /\ Nx(e)[1] = e[1] /\ Pv(e)[1] = e[1]
         /\ \A f \in T \X Local : f[1] = e[1] => f \in {e, Nx(e), Pv(e)}
<1>1. PICK k \in T, i \in Local : e = <<k, i>>
  OBVIOUS
<1>2. \A j \in Local : j \in {0, 1, 2}
  BY DEF Local
<1>3. ASSUME NEW f \in T \X Local, f[1] = e[1] PROVE f \in {e, Nx(e), Pv(e)}
  <2>1. PICK j \in Local : f = <<k, j>>
    BY <1>1, <1>3
  <2> QED
    BY <1>1, <1>2, <2>1 DEF Nx, Pv, Nxt, Prv
<1> QED
  BY <1>1, <1>2, <1>3 DEF Nx, Pv, Nxt, Prv, Local

(* Turning the points of a triangle keeps its area, exchanging two of them *)
(* changes its sign; an area is the sum of three around a point.           *)
LEMMA AreaTurns ==
  ASSUME NEW p \in Int \X Int, NEW q \in Int \X Int, NEW r \in Int \X Int
  PROVE  /\ Area(p, q, r) \in Int
         /\ Area(q, r, p) = Area(p, q, r)
         /\ Area(q, p, r) = - Area(p, q, r)
         /\ Area(p, p, q) = 0
BY DEF Area

LEMMA AreaAdds ==
  ASSUME NEW p \in Int \X Int, NEW q \in Int \X Int, NEW r \in Int \X Int, NEW s \in Int \X Int
  PROVE  Area(q, r, s) = Area(p, q, r) + Area(p, r, s) + Area(p, s, q)
BY DEF Area

(* The parts of a typed mesh.                                              *)
LEMMA MeshParts ==
  ASSUME NEW m \in MeshSet
  PROVE  /\ IsPool(m.pts) /\ m.pts.max = NPMax
         /\ IsPool(m.trs) /\ m.trs.max = NTMax
         /\ Live(m.pts) \subseteq 1..NPMax /\ Live(m.trs) \subseteq 1..NTMax
         /\ Darts(m) \subseteq DartSet
         /\ \A e \in DartSet : /\ Vt(m, e) \in 0..NPMax /\ Tg(m, e) \subseteq TagSet
                               /\ Rf(m, e) \in Nat /\ Ad(m, e) \in DartSet \union {NoAdja}
         /\ \A p \in 1..NPMax : At(m, p) \in Int \X Int /\ Pt(m, p) \subseteq TagSet
<1>1. m.pts \in PoolSet(NPMax) /\ m.trs \in PoolSet(NTMax)
  BY DEF MeshSet
<1>2. NPMax \in Nat /\ NTMax \in Nat
  BY MeshAssumption
<1>3. IsPool(m.pts) /\ m.pts.max = NPMax /\ IsPool(m.trs) /\ m.trs.max = NTMax
  BY <1>1, <1>2 DEF PoolSet, IsPool
<1>4. Live(m.pts) \subseteq 1..NPMax /\ Live(m.trs) \subseteq 1..NTMax
  BY <1>3 DEF Live
<1>5. Darts(m) \subseteq DartSet
  BY <1>4 DEF Darts, DartSet
<1>6. ASSUME NEW e \in DartSet
      PROVE  /\ Vt(m, e) \in 0..NPMax /\ Tg(m, e) \subseteq TagSet
             /\ Rf(m, e) \in Nat /\ Ad(m, e) \in DartSet \union {NoAdja}
  <2>1. m.tria[e[1]] \in TriaSet /\ e[2] \in Local
    BY DEF MeshSet, DartSet
  <2> QED
    BY <2>1 DEF TriaSet, Vt, Tg, Rf, Ad
<1>7. ASSUME NEW p \in 1..NPMax PROVE At(m, p) \in Int \X Int /\ Pt(m, p) \subseteq TagSet
  <2>1. m.point[p] \in PointSet
    BY DEF MeshSet
  <2> QED
    BY <2>1 DEF PointSet, At, Pt
<1> QED
  BY <1>3, <1>4, <1>5, <1>6, <1>7

(* A mesh whose triangles are joined by their edges and not inverted.      *)
Solid(m) == m \in MeshSet /\ OnLive(m) /\ Joined(m) /\ Positive(m)

LEMMA DartsTurn ==
  ASSUME NEW m, NEW e \in Darts(m)
  PROVE  /\ Nx(e) \in Darts(m) /\ Pv(e) \in Darts(m)
         /\ Nx(Nx(e)) = Pv(e) /\ Pv(Pv(e)) = Nx(e)
         /\ Nx(Pv(e)) = e /\ Pv(Nx(e)) = e
         /\ Nx(e) # e /\ Pv(e) # e /\ Nx(e) # Pv(e)
         /\ e[1] \in Live(m.trs) /\ Nx(e)[1] = e[1] /\ Pv(e)[1] = e[1]
         /\ \A f \in Darts(m) : f[1] = e[1] => f \in {e, Nx(e), Pv(e)}
BY Around3 DEF Darts

(* The vertices of a triangle that is left: in use, distinct.              *)
LEMMA Corners ==
  ASSUME NEW m, Solid(m), NEW e \in Darts(m)
  PROVE  /\ Vt(m, e) \in Live(m.pts) /\ Vt(m, e) \in 1..NPMax
         /\ At(m, Vt(m, e)) \in Int \X Int
         /\ Vt(m, e) # Vt(m, Nx(e)) /\ Vt(m, e) # Vt(m, Pv(e)) /\ Vt(m, Nx(e)) # Vt(m, Pv(e))
         /\ Twice(m, Nx(e)) = Twice(m, e) /\ Twice(m, Pv(e)) = Twice(m, e)
         /\ e \in DartSet /\ Ad(m, e) \in DartSet \union {NoAdja}
<1>0. m \in MeshSet /\ OnLive(m) /\ Positive(m)
  BY DEF Solid
<1> DEFINE f == Nx(e)
           g == Pv(e)
<1>1. /\ f \in Darts(m) /\ g \in Darts(m)
      /\ Nx(f) = g /\ Pv(f) = e /\ Nx(g) = e /\ Pv(g) = f
  BY DartsTurn
<1>2. \A h \in {e, f, g} : Vt(m, h) \in Live(m.pts) /\ Vt(m, h) \in 1..NPMax
  BY <1>0, <1>1, MeshParts DEF OnLive
<1> DEFINE P == At(m, Vt(m, e))
           Q == At(m, Vt(m, f))
           R == At(m, Vt(m, g))
<1>3. P \in Int \X Int /\ Q \in Int \X Int /\ R \in Int \X Int
  BY <1>0, <1>2, MeshParts
<1>4. Twice(m, e) = Area(P, Q, R) /\ Twice(m, f) = Area(Q, R, P) /\ Twice(m, g) = Area(R, P, Q)
  BY <1>1 DEF Twice
<1>5. Area(P, Q, R) > 0
  BY <1>0, <1>4 DEF Positive
<1> HIDE DEF P, Q, R, f, g
<1>6. Area(Q, R, P) = Area(P, Q, R) /\ Area(R, P, Q) = Area(Q, R, P)
  BY <1>3, AreaTurns
<1>7. P # Q /\ Q # R /\ R # P
  BY <1>3, <1>5, <1>6, AreaTurns
<1>8. e \in DartSet /\ Ad(m, e) \in DartSet \union {NoAdja}
  BY <1>0, MeshParts
<1> QED
  BY <1>2, <1>3, <1>4, <1>6, <1>7, <1>8 DEF P, Q, R, f, g

(* Two corners of a triangle at the same vertex are the same.              *)
LEMMA OneCorner ==
  ASSUME NEW m, Solid(m), NEW e \in Darts(m), NEW f \in Darts(m),
         e[1] = f[1], Vt(m, e) = Vt(m, f)
  PROVE  e = f
BY DartsTurn, Corners

(* The facts that Joined states of a dart.                                 *)
LEMMA Twin ==
  ASSUME NEW m, Solid(m), NEW e \in Darts(m), NEW f, f = Ad(m, e), f # NoAdja
  PROVE  /\ f \in Darts(m) /\ Ad(m, f) = e
         /\ Vt(m, Nx(f)) = Vt(m, Pv(e)) /\ Vt(m, Pv(f)) = Vt(m, Nx(e))
         /\ f[1] # e[1] /\ e # NoAdja
<1>1. /\ f \in Darts(m) /\ Ad(m, f) = e
      /\ Vt(m, Nx(f)) = Vt(m, Pv(e)) /\ Vt(m, Pv(f)) = Vt(m, Nx(e))
  BY DEF Solid, Joined
<1>2. e # NoAdja
  BY Corners, MeshAssumption DEF DartSet, NoAdja
<1>3. ASSUME f[1] = e[1] PROVE FALSE
  <2>1. f \in {e, Nx(e), Pv(e)}
    BY <1>1, <1>3, DartsTurn
  <2> QED
    BY <1>1, <2>1, DartsTurn, Corners
<1> QED
  BY <1>1, <1>2, <1>3

(* Two triangles that are not inverted do not share two edges.             *)
LEMMA NoMirror ==
  ASSUME NEW m, Solid(m), NEW e \in Darts(m), NEW g \in Darts(m), e # g, e[1] = g[1],
         NEW f, f = Ad(m, e), f # NoAdja, NEW h, h = Ad(m, g), h # NoAdja
  PROVE  f[1] # h[1]
<1> SUFFICES ASSUME f[1] = h[1] PROVE FALSE
  OBVIOUS
<1>1. f \in Darts(m) /\ h \in Darts(m) /\ f # h
  BY Twin
<1>2. ASSUME NEW a \in Darts(m), NEW b, b = Ad(m, a), b # NoAdja,
             Ad(m, Nx(a)) # NoAdja, Ad(m, Nx(a))[1] = b[1]
      PROVE  FALSE
  <2> DEFINE c == Ad(m, Nx(a))
  <2>1. Nx(a) \in Darts(m)
    BY DartsTurn
  <2>2. /\ b \in Darts(m) /\ c \in Darts(m) /\ b # c
        /\ Vt(m, Nx(b)) = Vt(m, Pv(a)) /\ Vt(m, Pv(b)) = Vt(m, Nx(a))
        /\ Vt(m, Nx(c)) = Vt(m, Pv(Nx(a))) /\ Vt(m, Pv(c)) = Vt(m, Nx(Nx(a)))
    <3>1. b \in Darts(m) /\ Ad(m, b) = a /\ Vt(m, Nx(b)) = Vt(m, Pv(a)) /\ Vt(m, Pv(b)) = Vt(m, Nx(a))
      BY <1>2, Twin
    <3>2. c \in Darts(m) /\ Ad(m, c) = Nx(a) /\ Vt(m, Nx(c)) = Vt(m, Pv(Nx(a))) /\ Vt(m, Pv(c)) = Vt(m, Nx(Nx(a)))
      BY <1>2, <2>1, Twin
    <3>3. Nx(a) # a
      BY DartsTurn
    <3> QED
      BY <3>1, <3>2, <3>3
  <2>3. c \in {Nx(b), Pv(b)}
    BY <1>2, <2>2, DartsTurn
  <2>4. CASE c = Nx(b)
    <3>1. Vt(m, Pv(c)) = Vt(m, b) /\ Vt(m, Nx(Nx(a))) = Vt(m, Pv(a))
      BY <2>2, <2>4, DartsTurn
    <3>2. Vt(m, Nx(b)) = Vt(m, b)
      BY <2>2, <3>1
    <3> QED
      BY <2>2, <3>2, Corners
  <2>5. CASE c = Pv(b)
    <3>1. Vt(m, Nx(c)) = Vt(m, b) /\ Vt(m, Pv(Nx(a))) = Vt(m, a)
      BY <2>2, <2>5, DartsTurn
    <3>2. Vt(m, b) = Vt(m, a)
      BY <2>2, <3>1
    <3> DEFINE P == At(m, Vt(m, a))
               Q == At(m, Vt(m, Nx(a)))
               R == At(m, Vt(m, Pv(a)))
    <3>3. P \in Int \X Int /\ Q \in Int \X Int /\ R \in Int \X Int
      BY <2>1, DartsTurn, Corners
    <3>4. Twice(m, a) = Area(P, Q, R) /\ Twice(m, b) = Area(P, R, Q)
      BY <2>2, <3>2 DEF Twice
    <3>5. Area(P, Q, R) > 0 /\ Area(P, R, Q) > 0
      BY <2>2, <3>4 DEF Solid, Positive
    <3> HIDE DEF P, Q, R
    <3>6. Area(P, R, Q) = Area(R, Q, P) /\ Area(R, Q, P) = - Area(Q, R, P) /\ Area(Q, R, P) = Area(P, Q, R)
      BY <3>3, AreaTurns
    <3>7. Area(P, Q, R) \in Int
      BY <3>3, AreaTurns
    <3> QED
      BY <3>5, <3>6, <3>7
  <2> QED
    BY <2>3, <2>4, <2>5
<1>3. g = Nx(e) \/ e = Nx(g)
  <2>1. g \in {e, Nx(e), Pv(e)} /\ Nx(Pv(e)) = e
    BY DartsTurn
  <2> QED
    BY <2>1
<1> QED
  BY <1>2, <1>3

-------------------------------------------------------------------------------
(* Turning around a vertex: MMG2D_boulet meets its whole ball.             *)

(* One way and the other around a vertex.                                  *)
Ways == {"onward", "back"}
To(way, e)  == IF way = "onward" THEN Nx(e) ELSE Pv(e)
Fro(way, e) == IF way = "onward" THEN Pv(e) ELSE Nx(e)

LEMMA ToAndFro ==
  ASSUME NEW m, NEW e \in Darts(m), NEW way \in Ways
  PROVE  /\ To(way, e) \in Darts(m) /\ Fro(way, e) \in Darts(m)
         /\ Fro(way, To(way, e)) = e /\ To(way, Fro(way, e)) = e
         /\ To(way, e)[1] = e[1] /\ To(way, e) # e
         /\ To(way, To(way, e)) = Fro(way, e)
BY DartsTurn DEF Ways, To, Fro

LEMMA TurnIs ==
  ASSUME NEW m \in MeshSet, NEW e \in DartSet, NEW way \in Ways,
         NEW a, a = Ad(m, To(way, e))
  PROVE  /\ Turn(m, e, way)[1] = a[1]
         /\ a = NoAdja => Turn(m, e, way)[1] = 0
         /\ a # NoAdja => Turn(m, e, way) = To(way, a) /\ Turn(m, e, way) \in DartSet
                          /\ Turn(m, e, way)[1] # 0
<1> DEFINE to == [i \in Local |-> IF way = "onward" THEN Nxt(i) ELSE Prv(i)]
           b == m.tria[e[1]].adja[to[e[2]]]
<1>1. Turn(m, e, way) = <<b[1], to[b[2]]>>
  BY DEF Turn
<1>2. e[2] \in Local /\ to[e[2]] = IF way = "onward" THEN Nxt(e[2]) ELSE Prv(e[2])
  BY DEF DartSet
<1>3. a = b
  BY <1>2 DEF Ad, To, Nx, Pv
<1>4. a \in DartSet \union {NoAdja}
  <2>1. To(way, e) \in DartSet
    BY Around3 DEF To, DartSet
  <2> QED
    BY <2>1, MeshParts
<1>5. CASE a = NoAdja
  BY <1>1, <1>3, <1>5 DEF NoAdja
<1>6. CASE a # NoAdja
  <2>1. a \in DartSet /\ a[2] \in Local /\ a[1] \in 1..NTMax
    BY <1>4, <1>6 DEF DartSet
  <2>2. to[a[2]] = IF way = "onward" THEN Nxt(a[2]) ELSE Prv(a[2])
    BY <2>1
  <2>3. To(way, a) = <<b[1], to[b[2]]>>
    <3>1. CASE way = "onward"
      <4>1. to[b[2]] = Nxt(a[2])
        BY <1>3, <2>2, <3>1
      <4> HIDE DEF to, b
      <4> QED
        BY <1>3, <3>1, <4>1 DEF To, Nx
    <3>2. CASE way # "onward"
      <4>1. to[b[2]] = Prv(a[2])
        BY <1>3, <2>2, <3>2
      <4> HIDE DEF to, b
      <4> QED
        BY <1>3, <3>2, <4>1 DEF To, Pv
    <3> QED
      BY <3>1, <3>2
  <2>4. To(way, a) \in DartSet /\ To(way, a)[1] = a[1]
    BY <2>1, Around3 DEF To, DartSet
  <2>5. a[1] # 0
    BY <2>1
  <2>6. Turn(m, e, way) = To(way, a)
    BY <1>1, <2>3
  <2> HIDE DEF to, b
  <2> QED
    BY <1>6, <2>4, <2>5, <2>6
<1> QED
  BY <1>5, <1>6

(* A turn goes from a corner of a vertex to another one of it, and back.   *)
LEMMA TurnCorner ==
  ASSUME NEW m, Solid(m), NEW e \in Darts(m), NEW way \in Ways,
         NEW f, f = Turn(m, e, way), f[1] # 0
  PROVE  /\ f \in Darts(m) /\ Vt(m, f) = Vt(m, e) /\ f[1] # e[1]
         /\ Ad(m, To(way, e)) = Fro(way, f) /\ Ad(m, Fro(way, f)) = To(way, e)
         /\ Fro(way, f) # NoAdja
<1> DEFINE g == To(way, e)
           a == Ad(m, g)
<1>1. m \in MeshSet /\ e \in DartSet
  BY Corners DEF Solid
<1>2. a # NoAdja /\ f = To(way, a)
  BY <1>1, TurnIs
<1>3. g \in Darts(m) /\ g[1] = e[1]
  BY ToAndFro
<1>4. /\ a \in Darts(m) /\ Ad(m, a) = g
      /\ Vt(m, Nx(a)) = Vt(m, Pv(g)) /\ Vt(m, Pv(a)) = Vt(m, Nx(g)) /\ a[1] # g[1]
  BY <1>2, <1>3, Twin
<1>5. f \in Darts(m) /\ Fro(way, f) = a /\ f[1] = a[1]
  BY <1>2, <1>4, ToAndFro
<1>6. Vt(m, f) = Vt(m, e)
  BY <1>2, <1>4, DartsTurn DEF To
<1> QED
  BY <1>2, <1>3, <1>4, <1>5, <1>6

LEMMA TurnOnce ==
  ASSUME NEW m, Solid(m), NEW e \in Darts(m), NEW f \in Darts(m), NEW way \in Ways,
         Turn(m, e, way) = Turn(m, f, way), Turn(m, e, way)[1] # 0
  PROVE  e = f
<1>1. To(way, e) = To(way, f)
  BY TurnCorner
<1> QED
  BY <1>1, ToAndFro

-------------------------------------------------------------------------------
(* The loop of MMG5_boulet: a step of it, and what it has met so far.      *)
Longer(m, s, way, met, n) ==
    IF Len(met) < n - 1 \/ Turn(m, met[Len(met)], way)[1] \in {0, s[1]} THEN met
    ELSE Append(met, Turn(m, met[Len(met)], way))

LEMMA FanSteps ==
  ASSUME NEW m \in MeshSet, NEW s \in DartSet, NEW way \in Ways
  PROVE  \E fan : /\ fan[1] = <<s>>
                  /\ \A n \in 2..NTMax : fan[n] = Longer(m, s, way, fan[n - 1], n)
                  /\ Fan(m, s, way) = fan[NTMax]
<1> DEFINE T == Seq(DartSet) \ {<<>>}
           k0 == NTMax - 1
           x == <<s>>
           step == [q \in T \X (1..k0) |-> Longer(m, s, way, q[1], q[2] + 1)]
           Def(f) == f = [n \in 1..NTMax |-> IF n = 1 THEN <<s>> ELSE Longer(m, s, way, f[n - 1], n)]
<1>1. NTMax \in Nat \ {0} /\ k0 \in Nat /\ m.trs.max = NTMax
  <2>1. s[1] \in 1..NTMax
    BY DEF DartSet
  <2> QED
    BY <2>1, MeshAssumption, MeshParts
<1>2. x \in T
  BY DEF T
<1>3. ASSUME NEW f \in T, NEW n \in 1..k0 PROVE Longer(m, s, way, f, n + 1) \in T
  <2>1. Len(f) \in Nat /\ Len(f) # 0 /\ f \in Seq(DartSet)
    BY DEF T
  <2>2. f[Len(f)] \in DartSet
    BY <2>1
  <2> DEFINE t == Turn(m, f[Len(f)], way)
  <2>3. t[1] # 0 => t \in DartSet
    BY <2>2, TurnIs
  <2>4. t \in DartSet => Append(f, t) \in T
    BY <2>1 DEF T
  <2> QED
    BY <2>3, <2>4 DEF Longer
<1> HIDE DEF T, k0, x
<1>4. step \in Steps(T, k0)
  <2>1. \A q \in T \X (1..k0) : q[1] \in T /\ q[2] \in 1..k0
    OBVIOUS
  <2>2. \A q \in T \X (1..k0) : Longer(m, s, way, q[1], q[2] + 1) \in T
    BY <1>3, <2>1
  <2> QED
    BY <2>2 DEF Steps
<1>5. \A f \in T, n \in 1..k0 : step[<<f, n>>] = Longer(m, s, way, f, n + 1)
  <2> TAKE f \in T, n \in 1..k0
  <2> DEFINE q == <<f, n>>
  <2>1. q \in T \X (1..k0) /\ q[1] = f /\ q[2] = n
    OBVIOUS
  <2> HIDE DEF q
  <2>2. step[q] = Longer(m, s, way, q[1], q[2] + 1)
    BY <2>1
  <2> QED
    BY <2>1, <2>2 DEF q
<1> HIDE DEF step
<1>6. PICK f : Recursive(f, k0, T, x, step)
  BY <1>1, <1>2, <1>4, Recursion
<1>7. f \in [0..k0 -> T] /\ f[0] = x /\ \A n \in 1..k0 : f[n] = step[<<f[n - 1], n>>]
  BY <1>6 DEF Recursive
<1> DEFINE g == [n \in 1..NTMax |-> f[n - 1]]
<1>8. \A n \in 1..NTMax : g[n] = IF n = 1 THEN <<s>> ELSE Longer(m, s, way, g[n - 1], n)
  <2> TAKE n \in 1..NTMax
  <2>1. n \in Nat /\ n - 1 \in 0..k0 /\ g[n] = f[n - 1]
    BY <1>1 DEF k0
  <2>2. CASE n = 1
    BY <1>7, <2>1, <2>2 DEF x
  <2>3. CASE n # 1
    <3>1. n - 1 \in 1..k0 /\ n - 2 \in 0..k0 /\ (n - 1) - 1 = n - 2 /\ n - 1 \in 1..NTMax /\ (n - 1) + 1 = n
      BY <1>1, <2>1, <2>3 DEF k0
    <3>2. f[n - 1] = step[<<f[n - 2], n - 1>>] /\ f[n - 2] \in T
      BY <1>7, <3>1
    <3>3. g[n - 1] = f[n - 2]
      BY <3>1
    <3>4. step[<<f[n - 2], n - 1>>] = Longer(m, s, way, f[n - 2], (n - 1) + 1)
      BY <1>5, <3>1, <3>2
    <3>5. g[n] = Longer(m, s, way, g[n - 1], n)
      BY <2>1, <3>1, <3>2, <3>3, <3>4
    <3> HIDE DEF g
    <3> QED
      BY <2>3, <3>5
  <2> QED
    BY <2>2, <2>3
<1>9. Def(g)
  <2> DEFINE h == [n \in 1..NTMax |-> IF n = 1 THEN <<s>> ELSE Longer(m, s, way, g[n - 1], n)]
  <2>1. g = [n \in 1..NTMax |-> g[n]] /\ h = [n \in 1..NTMax |-> h[n]]
    OBVIOUS
  <2> HIDE DEF g
  <2>2. \A n \in 1..NTMax : g[n] = h[n]
    BY <1>8
  <2> HIDE DEF h
  <2>3. g = h
    BY <2>1, <2>2
  <2> QED
    BY <2>3 DEF h
<1> DEFINE fan == CHOOSE y : Def(y)
<1>10. Def(fan)
  <2> HIDE DEF g
  <2> QED
    BY <1>9
<1>11. Fan(m, s, way) = fan[NTMax]
  BY <1>1 DEF Fan, Longer
<1> HIDE DEF fan
<1>12. fan[1] = <<s>>
  BY <1>1, <1>10
<1>13. \A n \in 2..NTMax : fan[n] = Longer(m, s, way, fan[n - 1], n)
  <2> TAKE n \in 2..NTMax
  <2>1. n \in 1..NTMax /\ n # 1
    BY <1>1
  <2> QED
    BY <1>10, <2>1
<1> QED
  BY <1>11, <1>12, <1>13

(* What the loop has met: corners of the vertex, each one a turn after the *)
(* one before it, of triangles that differ.                                *)
Run(m, s, way, met) ==
    /\ met \in Seq(Darts(m)) /\ met # <<>> /\ met[1] = s
    /\ \A j \in 2..Len(met) : met[j] = Turn(m, met[j - 1], way)
    /\ \A j \in 1..Len(met) : Vt(m, met[j]) = Vt(m, s)
    /\ \A a, b \in 1..Len(met) : met[a][1] = met[b][1] => a = b

Stopped(m, s, way, met) == Turn(m, met[Len(met)], way)[1] \in {0, s[1]}

LEMMA RunParts ==
  ASSUME NEW m, NEW s, NEW way, NEW met, Run(m, s, way, met)
  PROVE  /\ Len(met) \in Nat \ {0} /\ met \in Seq(Darts(m))
         /\ \A j \in 1..Len(met) : met[j] \in Darts(m)
BY DEF Run

(* If the loop meets a triangle again it is the first one.                 *)
LEMMA NewOrFirst ==
  ASSUME NEW m, Solid(m), NEW s \in Darts(m), NEW way \in Ways, NEW met, Run(m, s, way, met),
         NEW j \in 1..Len(met), NEW t, t = Turn(m, met[Len(met)], way), t[1] = met[j][1]
  PROVE  t = s
<1>1. /\ Len(met) \in Nat \ {0} /\ met[Len(met)] \in Darts(m) /\ met[j] \in Darts(m)
  BY RunParts
<1>2. met[j][1] # 0
  <2>1. met[j] \in DartSet
    BY <1>1, Corners
  <2> QED
    BY <2>1 DEF DartSet
<1>3. t \in Darts(m) /\ Vt(m, t) = Vt(m, met[Len(met)])
  BY <1>1, <1>2, TurnCorner
<1>4. Vt(m, met[Len(met)]) = Vt(m, s) /\ Vt(m, met[j]) = Vt(m, s)
  BY <1>1 DEF Run
<1>5. t = met[j]
  BY <1>1, <1>3, <1>4, OneCorner
<1>6. CASE j = 1
  BY <1>5, <1>6 DEF Run
<1>7. CASE j # 1
  <2>1. j \in 2..Len(met) /\ j - 1 \in 1..Len(met)
    BY <1>1, <1>7
  <2>2. met[j] = Turn(m, met[j - 1], way) /\ met[j - 1] \in Darts(m)
    BY <2>1, RunParts DEF Run
  <2>3. met[j - 1] = met[Len(met)]
    <3> DEFINE x == met[j - 1]
               y == met[Len(met)]
    <3>1. x \in Darts(m) /\ y \in Darts(m) /\ Turn(m, x, way) = Turn(m, y, way) /\ Turn(m, x, way)[1] # 0
      BY <1>1, <1>2, <1>5, <2>2
    <3> HIDE DEF x, y
    <3>2. x = y
      BY <3>1, TurnOnce
    <3> QED
      BY <3>2 DEF x, y
  <2>4. j - 1 = Len(met)
    <3>1. Len(met) \in 1..Len(met)
      BY <1>1
    <3>2. \A a, b \in 1..Len(met) : met[a][1] = met[b][1] => a = b
      BY DEF Run
    <3> DEFINE h == j - 1
    <3>3. h \in 1..Len(met) /\ met[h] = met[Len(met)]
      BY <2>1, <2>3
    <3> HIDE DEF h
    <3>4. h = Len(met)
      BY <3>1, <3>2, <3>3
    <3> QED
      BY <3>4 DEF h
  <2> QED
    BY <1>1, <2>4
<1> QED
  BY <1>6, <1>7

LEMMA RunLonger ==
  ASSUME NEW m, Solid(m), NEW s \in Darts(m), NEW way \in Ways, NEW met, Run(m, s, way, met),
         NEW t, t = Turn(m, met[Len(met)], way), t[1] \notin {0, s[1]}
  PROVE  Run(m, s, way, Append(met, t)) /\ Len(Append(met, t)) = Len(met) + 1
<1>1. /\ Len(met) \in Nat \ {0} /\ met \in Seq(Darts(m)) /\ met[Len(met)] \in Darts(m)
  BY RunParts
<1>2. t \in Darts(m) /\ Vt(m, t) = Vt(m, met[Len(met)])
  BY <1>1, TurnCorner
<1> DEFINE new == Append(met, t)
<1>3. /\ new \in Seq(Darts(m)) /\ new # <<>> /\ Len(new) = Len(met) + 1
      /\ \A j \in 1..Len(met) : new[j] = met[j]
      /\ new[Len(met) + 1] = t
  BY <1>1, <1>2
<1> HIDE DEF new
<1>4. new[1] = s
  BY <1>1, <1>3 DEF Run
<1>5. ASSUME NEW j \in 2..Len(new) PROVE new[j] = Turn(m, new[j - 1], way)
  <2>1. j - 1 \in 1..Len(met) /\ new[j - 1] = met[j - 1]
    BY <1>1, <1>3
  <2>2. CASE j \in 2..Len(met)
    BY <1>3, <2>1, <2>2 DEF Run
  <2>3. CASE j = Len(met) + 1
    <3>1. j - 1 = Len(met)
      BY <1>1, <2>3
    <3> QED
      BY <1>3, <2>1, <2>3, <3>1
  <2> QED
    BY <1>1, <1>3, <2>2, <2>3
<1>6. ASSUME NEW j \in 1..Len(new) PROVE Vt(m, new[j]) = Vt(m, s)
  <2>1. j \in 1..Len(met) \/ j = Len(met) + 1
    BY <1>1, <1>3
  <2> QED
    BY <1>1, <1>2, <1>3, <2>1 DEF Run
<1>7. \A j \in 1..Len(met) : t[1] # met[j][1]
  BY NewOrFirst
<1>8. ASSUME NEW a \in 1..Len(new), NEW b \in 1..Len(new), new[a][1] = new[b][1]
      PROVE  a = b
  <2>1. a \in 1..Len(met) \/ a = Len(met) + 1
    BY <1>1, <1>3
  <2>2. b \in 1..Len(met) \/ b = Len(met) + 1
    BY <1>1, <1>3
  <2>3. CASE a \in 1..Len(met) /\ b \in 1..Len(met)
    BY <1>3, <1>8, <2>3 DEF Run
  <2> QED
    BY <1>3, <1>7, <1>8, <2>1, <2>2, <2>3
<1>9. Run(m, s, way, new)
  BY <1>3, <1>4, <1>5, <1>6, <1>8 DEF Run
<1> QED
  BY <1>3, <1>9 DEF new

(* The numbers up to n are n.                                              *)
LEMMA UpTo ==
  ASSUME NEW n \in Nat
  PROVE  IsFiniteSet(1..n) /\ Cardinality(1..n) = n
<1>1. 1 \in Int /\ n \in Int /\ n - 1 + 1 = n
  OBVIOUS
<1>2. IsFiniteSet(1..n) /\ Cardinality(1..n) = IF 1 > n THEN 0 ELSE n - 1 + 1
  BY <1>1, FS_Interval
<1> QED
  BY <1>2

(* There is no room for a fan that never stops.                            *)
LEMMA RunStops ==
  ASSUME NEW m, Solid(m), NEW s \in Darts(m), NEW way \in Ways, NEW met, Run(m, s, way, met),
         Len(met) >= NTMax
  PROVE  Stopped(m, s, way, met)
<1> DEFINE n == Len(met)
           t == Turn(m, met[n], way)
<1>1. n \in Nat \ {0} /\ met[n] \in Darts(m)
  BY RunParts
<1>2. \A j \in 1..n : met[j] \in Darts(m) /\ met[j][1] \in 1..NTMax
  <2> TAKE j \in 1..n
  <2>1. met[j] \in Darts(m)
    BY RunParts
  <2>2. met[j] \in DartSet
    BY <2>1, Corners
  <2> QED
    BY <2>1, <2>2 DEF DartSet
<1>3. NTMax \in Nat
  BY MeshAssumption
<1> SUFFICES ASSUME t[1] # 0, t[1] # s[1] PROVE FALSE
  BY DEF Stopped
<1>4. t \in Darts(m) /\ t[1] \in 1..NTMax
  <2>1. t \in Darts(m)
    BY <1>1, TurnCorner
  <2>2. t \in DartSet
    BY <2>1, Corners
  <2> QED
    BY <2>1, <2>2 DEF DartSet
<1>5. \A j \in 1..n : t[1] # met[j][1]
  BY NewOrFirst
<1> HIDE DEF t
<1> DEFINE f == [j \in 1..n |-> met[j][1]]
           S == (1..NTMax) \ {t[1]}
<1>6. f \in [1..n -> S]
  BY <1>2, <1>5
<1>7. \A a, b \in 1..n : f[a] = f[b] => a = b
  BY DEF Run
<1>8. IsFiniteSet(1..NTMax) /\ Cardinality(1..NTMax) = NTMax
  BY <1>3, UpTo
<1>9. IsFiniteSet(S) /\ Cardinality(S) = NTMax - 1
  BY <1>4, <1>8, FS_RemoveElement
<1>10. IsFiniteSet(1..n) /\ Cardinality(1..n) = n
  <2>1. n \in Nat
    BY <1>1
  <2> HIDE DEF n
  <2> QED
    BY <2>1, UpTo
<1>11. n <= NTMax - 1
  <2> HIDE DEF f, S, n
  <2>1. IsInjective(f)
    BY <1>6, <1>7 DEF IsInjective
  <2>2. f \in Injection(1..n, S)
    BY <1>6, <2>1 DEF Injection
  <2> QED
    BY <1>9, <1>10, <2>2, FS_Injection DEF ExistsInjection
<1> QED
  BY <1>1, <1>3, <1>11

(* MMG5_boulet, one way.                                                   *)
LEMMA FanRuns ==
  ASSUME NEW m, Solid(m), NEW s \in Darts(m), NEW way \in Ways
  PROVE  Run(m, s, way, Fan(m, s, way)) /\ Stopped(m, s, way, Fan(m, s, way))
<1>1. m \in MeshSet /\ s \in DartSet /\ NTMax \in Nat
  BY Corners, MeshAssumption DEF Solid
<1>2. PICK fan : /\ fan[1] = <<s>>
                 /\ \A n \in 2..NTMax : fan[n] = Longer(m, s, way, fan[n - 1], n)
                 /\ Fan(m, s, way) = fan[NTMax]
  BY <1>1, FanSteps
<1> DEFINE Good(n) == /\ Run(m, s, way, fan[n]) /\ Len(fan[n]) <= n
                      /\ Len(fan[n]) < n => Stopped(m, s, way, fan[n])
           S == {0} \union {n \in 1..NTMax : Good(n)}
<1>3. Good(1)
  <2>1. /\ <<s>> \in Seq(Darts(m)) /\ <<s>> # <<>> /\ <<s>>[1] = s /\ Len(<<s>>) = 1
    OBVIOUS
  <2>2. Run(m, s, way, <<s>>)
    BY <2>1 DEF Run
  <2> QED
    BY <1>2, <2>1, <2>2
<1>4. ASSUME NEW n \in 2..NTMax, Good(n - 1) PROVE Good(n)
  <2> DEFINE met == fan[n - 1]
             t == Turn(m, met[Len(met)], way)
  <2>1. fan[n] = Longer(m, s, way, met, n)
    BY <1>2
  <2>2. Len(met) \in Nat \ {0} /\ Run(m, s, way, met) /\ Len(met) <= n - 1
    BY <1>4, RunParts
  <2>3. CASE Len(met) < n - 1 \/ t[1] \in {0, s[1]}
    <3>1. fan[n] = met
      BY <2>1, <2>3 DEF Longer
    <3>2. Stopped(m, s, way, met)
      BY <1>4, <2>3 DEF Stopped
    <3>3. Len(met) <= n
      BY <1>1, <2>2
    <3> QED
      BY <2>2, <3>1, <3>2, <3>3
  <2>4. CASE ~(Len(met) < n - 1 \/ t[1] \in {0, s[1]})
    <3>1. fan[n] = Append(met, t)
      BY <2>1, <2>4 DEF Longer
    <3>2. Run(m, s, way, Append(met, t)) /\ Len(Append(met, t)) = Len(met) + 1
      BY <2>2, <2>4, RunLonger
    <3>3. Len(met) = n - 1
      BY <1>1, <2>2, <2>4
    <3>4. Len(fan[n]) = n
      BY <1>1, <3>1, <3>2, <3>3
    <3> QED
      BY <3>1, <3>2, <3>4
  <2> QED
    BY <2>3, <2>4
<1>5. 0..NTMax \subseteq S
  <2>1. 0 \in S
    OBVIOUS
  <2>2. ASSUME NEW n \in 1..NTMax, n - 1 \in S PROVE n \in S
    <3> HIDE DEF Good
    <3>1. CASE n = 1
      BY <1>3, <3>1
    <3>2. CASE n # 1
      <4>1. n \in 2..NTMax /\ n - 1 # 0
        BY <1>1, <3>2
      <4> QED
        BY <1>4, <2>2, <4>1
    <3> QED
      BY <3>1, <3>2
  <2> HIDE DEF S
  <2> QED
    BY <1>1, <2>1, <2>2, Upward
<1>6. NTMax \in 1..NTMax
  BY <1>1 DEF DartSet
<1>7. Good(NTMax)
  BY <1>1, <1>5, <1>6
<1>8. CASE Len(fan[NTMax]) < NTMax
  BY <1>2, <1>7, <1>8
<1>9. CASE ~(Len(fan[NTMax]) < NTMax)
  <2>1. Len(fan[NTMax]) \in Nat
    BY <1>7, RunParts
  <2>2. Len(fan[NTMax]) >= NTMax
    BY <1>1, <1>9, <2>1
  <2> QED
    BY <1>2, <1>7, <2>2, RunStops
<1> QED
  BY <1>8, <1>9

Other(way) == IF way = "onward" THEN "back" ELSE "onward"

LEMMA TurnBack ==
  ASSUME NEW m, Solid(m), NEW e \in Darts(m), NEW way \in Ways,
         NEW f, f = Turn(m, e, way), f[1] # 0
  PROVE  Turn(m, f, Other(way)) = e
<1>1. f \in Darts(m) /\ Ad(m, Fro(way, f)) = To(way, e)
  BY TurnCorner
<1>2. f \in DartSet /\ m \in MeshSet
  BY <1>1, Corners DEF Solid
<1>3. Other(way) \in Ways /\ To(Other(way), f) = Fro(way, f)
  BY DEF Other, Ways, To, Fro
<1>4. To(way, e) \in Darts(m) /\ To(way, e) # NoAdja
  <2>1. To(way, e) \in Darts(m)
    BY ToAndFro
  <2> QED
    BY <2>1, Corners, MeshAssumption DEF DartSet, NoAdja
<1>5. Turn(m, f, Other(way)) = To(Other(way), To(way, e))
  BY <1>1, <1>2, <1>3, <1>4, TurnIs
<1>6. To(Other(way), To(way, e)) = Fro(way, To(way, e))
  BY DEF Other, To, Fro, Ways
<1> QED
  BY <1>5, <1>6, ToAndFro

(* A set of corners that holds what the turns both ways lead to.           *)
LEMMA ClosedByTurns ==
  ASSUME NEW m, Solid(m), NEW S \in SUBSET Darts(m),
         \A e \in S, way \in Ways : Turn(m, e, way)[1] # 0 => Turn(m, e, way) \in S
  PROVE  Closed(m, S)
<1> SUFFICES ASSUME NEW g \in Darts(m), NEW a, a = Ad(m, g), a # NoAdja
             PROVE  Pv(g) \in S <=> Nx(a) \in S
  BY DEF Closed
<1> DEFINE e == Pv(g)
           f == Nx(a)
<1>1. e \in Darts(m) /\ To("onward", e) = g
  BY DartsTurn DEF To
<1>2. e \in DartSet /\ m \in MeshSet /\ "onward" \in Ways /\ "back" \in Ways
  BY <1>1, Corners DEF Solid, Ways
<1>3. f = Turn(m, e, "onward") /\ f[1] # 0
  <2>1. Turn(m, e, "onward") = To("onward", a) /\ Turn(m, e, "onward")[1] # 0
    BY <1>1, <1>2, TurnIs
  <2> QED
    BY <2>1 DEF To
<1> HIDE DEF e, f
<1>4. Turn(m, f, "back") = e
  <2>1. Other("onward") = "back"
    BY DEF Other
  <2> QED
    BY <1>1, <1>2, <1>3, <2>1, TurnBack
<1>5. e[1] # 0
  BY <1>2 DEF DartSet
<1>6. e \in S <=> f \in S
  BY <1>2, <1>3, <1>4, <1>5
<1> QED
  BY <1>6 DEF e, f

(* The corners that a run has met are all those the turns one way lead to. *)
Met(met) == {met[j] : j \in 1..Len(met)}

LEMMA MetOneWay ==
  ASSUME NEW m, Solid(m), NEW s \in Darts(m), NEW way \in Ways, NEW met,
         Run(m, s, way, met), Stopped(m, s, way, met),
         NEW e \in Met(met), NEW t, t = Turn(m, e, way), t[1] # 0
  PROVE  t \in Met(met)
<1>1. Len(met) \in Nat \ {0} /\ met[1] = s
  BY RunParts DEF Run
<1>2. PICK j \in 1..Len(met) : e = met[j]
  BY DEF Met
<1>3. CASE j = Len(met)
  <2>1. t[1] = met[1][1] /\ 1 \in 1..Len(met)
    BY <1>1, <1>2, <1>3 DEF Stopped
  <2>2. t = s
    BY <1>2, <1>3, <2>1, NewOrFirst
  <2> QED
    BY <1>1, <2>1, <2>2 DEF Met
<1>4. CASE j # Len(met)
  <2> DEFINE h == j + 1
  <2>1. h \in 2..Len(met) /\ h - 1 = j
    BY <1>1, <1>4
  <2>2. met[h] = t
    BY <1>2, <2>1 DEF Run
  <2> QED
    BY <2>1, <2>2 DEF Met
<1> QED
  BY <1>3, <1>4

LEMMA MetOtherWay ==
  ASSUME NEW m, Solid(m), NEW s \in Darts(m), NEW way \in Ways, NEW met,
         Run(m, s, way, met), NEW e \in Met(met), e # s
  PROVE  Turn(m, e, Other(way)) \in Met(met)
<1>1. Len(met) \in Nat \ {0} /\ met[1] = s
  BY RunParts DEF Run
<1>2. PICK j \in 1..Len(met) : e = met[j]
  BY DEF Met
<1> DEFINE h == j - 1
<1>3. j \in 2..Len(met) /\ h \in 1..Len(met)
  BY <1>1, <1>2
<1>4. met[j] = Turn(m, met[h], way)
  BY <1>3 DEF Run
<1> HIDE DEF h
<1>5. met[h] \in Darts(m) /\ e \in Darts(m)
  BY <1>2, <1>3, RunParts
<1>6. e[1] # 0
  <2>1. e \in DartSet
    BY <1>5, Corners
  <2> QED
    BY <2>1 DEF DartSet
<1>7. Turn(m, e, Other(way)) = met[h]
  BY <1>2, <1>4, <1>5, <1>6, TurnBack
<1> QED
  BY <1>3, <1>7 DEF Met

(* The ball that MMG5_boulet returns holds the corners of its vertex, all  *)
(* of them when the vertex is manifold.                                    *)
LEMMA BouletHolds ==
  ASSUME NEW m, Solid(m), OneFan(m), NEW s \in Darts(m), Movable(Pt(m, Vt(m, s))),
         NEW list, list = Boulet(m, s[1], s[2])
  PROVE  /\ list \in Seq(Darts(m))
         /\ \A e \in Darts(m) : Vt(m, e) = Vt(m, s) => \E j \in 1..Len(list) : list[j] = e
<1> DEFINE on == Fan(m, s, "onward")
           bk == Fan(m, s, "back")
<1>1. "onward" \in Ways /\ "back" \in Ways /\ Other("onward") = "back" /\ Other("back") = "onward"
  BY DEF Ways, Other
<1>2. Run(m, s, "onward", on) /\ Stopped(m, s, "onward", on)
  BY <1>1, FanRuns
<1>3. Run(m, s, "back", bk) /\ Stopped(m, s, "back", bk)
  BY <1>1, FanRuns
<1> DEFINE last == on[Len(on)]
<1>4. s = <<s[1], s[2]>>
  BY DEF Darts
<1>5. list = IF Turn(m, last, "onward")[1] # 0 THEN on ELSE on \o Tail(bk)
  BY <1>4 DEF Boulet
<1> HIDE DEF on, bk
<1>6. /\ Len(on) \in Nat \ {0} /\ on \in Seq(Darts(m)) /\ on[1] = s
      /\ \A j \in 1..Len(on) : on[j] \in Darts(m)
  BY <1>2, RunParts DEF Run
<1>7. /\ Len(bk) \in Nat \ {0} /\ bk \in Seq(Darts(m)) /\ bk[1] = s /\ bk # <<>>
      /\ \A j \in 1..Len(bk) : bk[j] \in Darts(m)
  BY <1>3, RunParts DEF Run
<1>8. ASSUME NEW S \in SUBSET Darts(m), s \in S, Closed(m, S), NEW e \in Darts(m), Vt(m, e) = Vt(m, s)
      PROVE  e \in S
  BY <1>8 DEF OneFan
<1>9. CASE Turn(m, last, "onward")[1] # 0
  <2>1. list = on
    BY <1>5, <1>9
  <2>2. Met(on) \in SUBSET Darts(m) /\ s \in Met(on) /\ last \in Met(on)
    BY <1>6 DEF Met
  <2>3. Turn(m, last, "onward") = s
    <3>1. Turn(m, last, "onward")[1] = on[1][1] /\ 1 \in 1..Len(on)
      BY <1>2, <1>6, <1>9 DEF Stopped
    <3> QED
      BY <1>1, <1>2, <3>1, NewOrFirst
  <2>4. Turn(m, s, "back") = last
    BY <1>1, <1>9, <2>2, <2>3, TurnBack
  <2>5. ASSUME NEW e \in Met(on), NEW way \in Ways, Turn(m, e, way)[1] # 0
        PROVE  Turn(m, e, way) \in Met(on)
    <3>1. CASE way = "onward"
      BY <1>1, <1>2, <2>5, <3>1, MetOneWay
    <3>2. CASE way = "back" /\ e # s
      BY <1>1, <1>2, <3>2, MetOtherWay
    <3>3. CASE way = "back" /\ e = s
      BY <2>2, <2>4, <3>3
    <3> QED
      BY <3>1, <3>2, <3>3 DEF Ways
  <2>6. Closed(m, Met(on))
    BY <2>2, <2>5, ClosedByTurns
  <2>7. \A e \in Darts(m) : Vt(m, e) = Vt(m, s) => e \in Met(on)
    BY <1>8, <2>2, <2>6
  <2> QED
    BY <1>6, <2>1, <2>7 DEF Met
<1>10. CASE ~(Turn(m, last, "onward")[1] # 0)
  <2>1. list = on \o Tail(bk)
    BY <1>5, <1>10
  <2> DEFINE S == Met(on) \union Met(bk)
  <2>2. S \in SUBSET Darts(m) /\ s \in Met(on) /\ s \in Met(bk)
    BY <1>6, <1>7 DEF Met
  <2>5. ASSUME NEW e \in S, NEW way \in Ways, Turn(m, e, way)[1] # 0
        PROVE  Turn(m, e, way) \in S
    <3>1. CASE way = "onward" /\ e \in Met(on)
      BY <1>1, <1>2, <2>5, <3>1, MetOneWay
    <3>2. CASE way = "back" /\ e \in Met(bk)
      BY <1>1, <1>3, <2>5, <3>2, MetOneWay
    <3>3. CASE way = "back" /\ e \in Met(on) /\ e # s
      BY <1>1, <1>2, <3>3, MetOtherWay
    <3>4. CASE way = "onward" /\ e \in Met(bk) /\ e # s
      BY <1>1, <1>3, <3>4, MetOtherWay
    <3> QED
      BY <2>2, <3>1, <3>2, <3>3, <3>4 DEF Ways
  <2>6. Closed(m, S)
    <3> HIDE DEF S
    <3> QED
      BY <2>2, <2>5, ClosedByTurns
  <2>7. \A e \in Darts(m) : Vt(m, e) = Vt(m, s) => e \in S
    BY <1>8, <2>2, <2>6
  <2>8. /\ Tail(bk) \in Seq(Darts(m)) /\ Len(Tail(bk)) = Len(bk) - 1
        /\ \A j \in 1..(Len(bk) - 1) : Tail(bk)[j] = bk[j + 1]
    BY <1>7
  <2>9. /\ list \in Seq(Darts(m)) /\ Len(list) = Len(on) + Len(bk) - 1
        /\ \A j \in 1..Len(on) : list[j] = on[j]
        /\ \A j \in 1..(Len(bk) - 1) : list[Len(on) + j] = Tail(bk)[j]
    BY <1>6, <1>7, <2>1, <2>8
  <2>10. ASSUME NEW e \in S PROVE \E j \in 1..Len(list) : list[j] = e
    <3>1. CASE e \in Met(on)
      <4>1. PICK j \in 1..Len(on) : e = on[j]
        BY <3>1 DEF Met
      <4>2. j \in 1..Len(list) /\ list[j] = e
        BY <1>6, <1>7, <2>9, <4>1
      <4> QED
        BY <4>2
    <3>2. CASE e \notin Met(on)
      <4>1. PICK j \in 1..Len(bk) : e = bk[j]
        BY <3>2 DEF Met
      <4>2. j # 1
        BY <1>7, <2>2, <3>2, <4>1
      <4> DEFINE h == j - 1
                 i == Len(on) + h
      <4>3. h \in 1..(Len(bk) - 1) /\ h + 1 = j
        BY <1>7, <4>1, <4>2
      <4>4. i \in 1..Len(list)
        BY <1>6, <1>7, <2>9, <4>3
      <4>5. list[i] = Tail(bk)[h] /\ Tail(bk)[h] = bk[h + 1]
        BY <2>8, <2>9, <4>3
      <4>6. list[i] = e
        BY <4>1, <4>3, <4>5
      <4> HIDE DEF i
      <4> QED
        BY <4>4, <4>6
    <3> QED
      BY <3>1, <3>2
  <2> HIDE DEF S
  <2> QED
    BY <2>7, <2>9, <2>10
<1> QED
  BY <1>9, <1>10

-------------------------------------------------------------------------------
(* A collapse.                                                             *)

(* A collapse seen on the darts.  s is the corner of the vertex that       *)
(* disappears in the first triangle of its ball; C holds this corner and,  *)
(* when the edge that is collapsed, edge Pv(s), has a triangle on its      *)
(* other side, the corner of the vertex there.  A triangle that goes has   *)
(* three edges: the one that is collapsed, the one on the side of the      *)
(* vertex that disappears, and the one opposite to this vertex.            *)
In(s, c)  == IF c = s THEN Nx(c) ELSE Pv(c)
Col(s, c) == IF c = s THEN Pv(c) ELSE Nx(c)

Hollow(m, s, C) ==
    /\ s \in Darts(m)
    /\ \/ C = {s} /\ Ad(m, Pv(s)) = NoAdja
       \/ \E t \in Darts(m) : C = {s, t} /\ t # s /\ Ad(m, Pv(s)) = Nx(t)
    /\ \A c \in C : Ad(m, In(s, c)) # NoAdja

(* What becomes of the edges, the corners and the vertices that are left.  *)
Joins(m, m2, s, C, e) ==
    /\ Ad(m, e) = NoAdja \/ Ad(m, e) \in Darts(m2) => Ad(m2, e) = Ad(m, e) /\ Tg(m2, e) = Tg(m, e)
    /\ \A c \in C : Ad(m, e) = c => /\ Ad(m2, e) = Ad(m, In(s, c))
                                    /\ Tg(m2, e) = Tg(m, e) \union Tg(m, In(s, c))
    /\ \A c \in C : Ad(m, e) = In(s, c) => /\ Ad(m2, e) = Ad(m, c)
                                           /\ Tg(m2, e) = Tg(m, e) \union Tg(m, c)
After(m, m2, s, C) ==
    /\ m2 \in MeshSet /\ Lists(m2)
    /\ Live(m2.trs) = Live(m.trs) \ {c[1] : c \in C}
    /\ Live(m2.pts) = Live(m.pts) \ {Vt(m, s)}
    /\ \A e \in Darts(m2) :
          /\ Vt(m, e) = Vt(m, s) => Vt(m2, e) = Vt(m, Nx(s))
          /\ Vt(m, e) # Vt(m, s) => Vt(m2, e) = Vt(m, e)
          /\ Rf(m2, e) = Rf(m, e)
          /\ Joins(m, m2, s, C, e)
    /\ \A p \in Live(m2.pts) : At(m2, p) = At(m, p) /\ Pt(m2, p) = Pt(m, p)

LEMMA HollowParts ==
  ASSUME NEW m, Solid(m), NEW s, NEW C, Hollow(m, s, C), NEW c \in C
  PROVE  /\ s \in Darts(m) /\ s \in C
         /\ c \in Darts(m) /\ In(s, c) \in Darts(m) /\ Col(s, c) \in Darts(m)
         /\ In(s, c)[1] = c[1] /\ Col(s, c)[1] = c[1]
         /\ c # In(s, c) /\ c # Col(s, c) /\ In(s, c) # Col(s, c)
         /\ Vt(m, c) = Vt(m, s) /\ Vt(m, In(s, c)) = Vt(m, Nx(s))
         /\ Ad(m, In(s, c)) # NoAdja
         /\ \A d \in Darts(m) : d[1] = c[1] => d \in {c, In(s, c), Col(s, c)}
         /\ Ad(m, Col(s, c)) # NoAdja => \E d \in C : Ad(m, Col(s, c)) = Col(s, d)
         /\ \A d \in C : d # c => Ad(m, Col(s, c)) = Col(s, d)
<1>1. s \in Darts(m) /\ s \in C
  BY DEF Hollow
<1>2. CASE C = {s} /\ Ad(m, Pv(s)) = NoAdja
  BY <1>1, <1>2, DartsTurn DEF In, Col, Hollow
<1>3. CASE \E t \in Darts(m) : C = {s, t} /\ t # s /\ Ad(m, Pv(s)) = Nx(t)
  <2>1. PICK t \in Darts(m) : C = {s, t} /\ t # s /\ Ad(m, Pv(s)) = Nx(t)
    BY <1>3
  <2> DEFINE a == Pv(s)
             b == Nx(t)
  <2>2. a \in Darts(m) /\ b \in Darts(m) /\ b # NoAdja
    <3>1. a \in Darts(m) /\ b \in Darts(m)
      BY <1>1, <2>1, DartsTurn
    <3> QED
      BY <3>1, Corners, MeshAssumption DEF DartSet, NoAdja
  <2>3. /\ Ad(m, b) = a /\ Vt(m, Nx(b)) = Vt(m, Pv(a)) /\ Vt(m, Pv(b)) = Vt(m, Nx(a))
        /\ b[1] # a[1]
    BY <2>1, <2>2, Twin
  <2>4. /\ Nx(b) = Pv(t) /\ Pv(b) = t /\ Pv(a) = Nx(s) /\ Nx(a) = s
    BY <1>1, <2>1, DartsTurn
  <2>5. In(s, s) = Nx(s) /\ Col(s, s) = Pv(s) /\ In(s, t) = Pv(t) /\ Col(s, t) = Nx(t)
    BY <2>1 DEF In, Col
  <2>6. Vt(m, t) = Vt(m, s) /\ Vt(m, Pv(t)) = Vt(m, Nx(s))
    BY <2>3, <2>4
  <2>7. \A x \in C : Ad(m, In(s, x)) # NoAdja
    BY DEF Hollow
  <2>8. CASE c = s
    <3>1. /\ Nx(s) \in Darts(m) /\ Pv(s) \in Darts(m) /\ Nx(s)[1] = s[1] /\ Pv(s)[1] = s[1]
          /\ s # Nx(s) /\ s # Pv(s) /\ Nx(s) # Pv(s)
          /\ \A d \in Darts(m) : d[1] = s[1] => d \in {s, Nx(s), Pv(s)}
      BY <1>1, DartsTurn
    <3> QED
      BY <1>1, <2>1, <2>5, <2>7, <2>8, <3>1
  <2>9. CASE c = t
    <3>1. /\ Nx(t) \in Darts(m) /\ Pv(t) \in Darts(m) /\ Nx(t)[1] = t[1] /\ Pv(t)[1] = t[1]
          /\ t # Nx(t) /\ t # Pv(t) /\ Nx(t) # Pv(t)
          /\ \A d \in Darts(m) : d[1] = t[1] => d \in {t, Nx(t), Pv(t)}
      BY <2>1, DartsTurn
    <3>2. Ad(m, Nx(t)) = Pv(s)
      BY <2>3
    <3> QED
      BY <1>1, <2>1, <2>5, <2>6, <2>7, <2>9, <3>1, <3>2
  <2> QED
    BY <2>1, <2>8, <2>9
<1> QED
  BY <1>2, <1>3 DEF Hollow

(* The triangles across a triangle that goes, past its two other edges,    *)
(* stay and differ.                                                        *)
LEMMA OutsideOf ==
  ASSUME NEW m, Solid(m), NEW s, NEW C, Hollow(m, s, C), NEW c \in C,
         NEW u, u = Ad(m, In(s, c)), NEW w, w = Ad(m, c)
  PROVE  /\ u \in Darts(m) /\ u # NoAdja /\ Ad(m, u) = In(s, c) /\ u[1] \notin {d[1] : d \in C}
         /\ w # NoAdja => /\ w \in Darts(m) /\ w[1] # u[1] /\ Ad(m, w) = c
                          /\ w[1] \notin {d[1] : d \in C}
<1> DEFINE i == In(s, c)
           x == Col(s, c)
<1>1. /\ c \in Darts(m) /\ i \in Darts(m) /\ x \in Darts(m)
      /\ i[1] = c[1] /\ x[1] = c[1] /\ c # i /\ c # x /\ i # x
      /\ u # NoAdja
      /\ \A d \in C : d # c => Ad(m, x) = Col(s, d)
  BY HollowParts
<1> HIDE DEF i, x
<1>4. u \in Darts(m) /\ Ad(m, u) = i /\ u[1] # c[1]
  BY <1>1, Twin DEF i
<1>5. w # NoAdja => w \in Darts(m) /\ Ad(m, w) = c /\ w[1] # c[1]
  BY <1>1, Twin
<1>6. ASSUME NEW d \in C, d # c PROVE u[1] # d[1] /\ (w # NoAdja => w[1] # d[1])
  <2> DEFINE y == Ad(m, x)
  <2>1. y = Col(s, d) /\ y[1] = d[1] /\ y \in Darts(m)
    BY <1>1, <1>6, HollowParts
  <2>2. y # NoAdja
    BY <2>1, Corners, MeshAssumption DEF DartSet, NoAdja
  <2>3. u[1] # y[1]
    BY <1>1, <2>2, NoMirror DEF i
  <2>4. w # NoAdja => w[1] # y[1]
    BY <1>1, <2>2, NoMirror
  <2> QED
    BY <2>1, <2>3, <2>4
<1>7. u[1] \notin {d[1] : d \in C} /\ (w # NoAdja => w[1] \notin {d[1] : d \in C})
  BY <1>4, <1>5, <1>6
<1>8. w # NoAdja => w[1] # u[1]
  BY <1>1, NoMirror DEF i
<1> QED
  BY <1>1, <1>4, <1>5, <1>7, <1>8 DEF i

LEMMA Outside ==
  ASSUME NEW m, Solid(m), NEW s, NEW C, Hollow(m, s, C), NEW m2, After(m, m2, s, C), NEW c \in C,
         NEW u, u = Ad(m, In(s, c)), NEW w, w = Ad(m, c)
  PROVE  /\ u \in Darts(m2) /\ u # NoAdja /\ Ad(m, u) = In(s, c)
         /\ w # NoAdja => w \in Darts(m2) /\ w[1] # u[1] /\ Ad(m, w) = c
         /\ c \notin Darts(m2) /\ In(s, c) \notin Darts(m2) /\ Col(s, c) \notin Darts(m2)
<1>1. \A e \in Darts(m) : e[1] \notin {d[1] : d \in C} => e \in Darts(m2)
  BY DEF After, Darts
<1>2. \A e \in Darts(m2) : e[1] \notin {d[1] : d \in C}
  BY DEF After, Darts
<1>3. /\ u \in Darts(m2) /\ u # NoAdja /\ Ad(m, u) = In(s, c)
      /\ w # NoAdja => w \in Darts(m2) /\ w[1] # u[1] /\ Ad(m, w) = c
  BY <1>1, OutsideOf
<1>4. In(s, c)[1] = c[1] /\ Col(s, c)[1] = c[1]
  BY HollowParts
<1> QED
  BY <1>2, <1>3, <1>4

(* Each edge that is left is glued as it was, or over a triangle that      *)
(* goes.                                                                   *)
LEMMA EdgesLeft ==
  ASSUME NEW m, Solid(m), NEW s, NEW C, Hollow(m, s, C), NEW m2, After(m, m2, s, C),
         NEW e \in Darts(m2)
  PROVE  /\ e \in Darts(m) /\ e[1] \notin {c[1] : c \in C}
         /\ \/ Ad(m, e) = NoAdja
            \/ Ad(m, e) \in Darts(m2)
            \/ \E c \in C : Ad(m, e) = c \/ Ad(m, e) = In(s, c)
<1>1. e \in Darts(m) /\ e[1] \notin {c[1] : c \in C}
  BY DEF After, Darts
<1> SUFFICES ASSUME NEW a, a = Ad(m, e), a # NoAdja, a \notin Darts(m2)
             PROVE  \E c \in C : a = c \/ a = In(s, c)
  BY <1>1
<1>2. a \in Darts(m) /\ Ad(m, a) = e
  BY <1>1, Twin
<1>3. PICK c \in C : a[1] = c[1]
  BY <1>2 DEF After, Darts
<1>4. a \in {c, In(s, c), Col(s, c)}
  BY <1>2, <1>3, HollowParts
<1>5. ASSUME a = Col(s, c) PROVE FALSE
  <2>1. e # NoAdja
    BY <1>1, Corners, MeshAssumption DEF DartSet, NoAdja
  <2>2. PICK d \in C : e = Col(s, d)
    BY <1>2, <1>5, <2>1, HollowParts
  <2>3. e[1] = d[1]
    BY <2>2, HollowParts
  <2> QED
    BY <1>1, <2>3
<1> QED
  BY <1>4, <1>5

(* The vertex of a corner that is left follows from the one before.        *)
LEMMA NewVertex ==
  ASSUME NEW m, NEW s, NEW C, NEW m2, After(m, m2, s, C), NEW e \in Darts(m2)
  PROVE  /\ Vt(m, e) = Vt(m, s) => Vt(m2, e) = Vt(m, Nx(s))
         /\ Vt(m, e) # Vt(m, s) => Vt(m2, e) = Vt(m, e)
BY DEF After

LEMMA SameVertex ==
  ASSUME NEW m, NEW s, NEW C, NEW m2, After(m, m2, s, C), NEW e \in Darts(m2), NEW f \in Darts(m2),
         Vt(m, e) = Vt(m, f)
  PROVE  Vt(m2, e) = Vt(m2, f)
BY NewVertex

(* The two edges glued over a triangle that goes have the same ends.       *)
LEMMA GluedEnds ==
  ASSUME NEW m, Solid(m), NEW s, NEW C, Hollow(m, s, C), NEW m2, After(m, m2, s, C), NEW c \in C,
         NEW u, u = Ad(m, In(s, c)), NEW w, w = Ad(m, c), w # NoAdja
  PROVE  Vt(m2, Nx(u)) = Vt(m2, Pv(w)) /\ Vt(m2, Pv(u)) = Vt(m2, Nx(w))
<1>1. /\ c \in Darts(m) /\ In(s, c) \in Darts(m) /\ u # NoAdja /\ s \in Darts(m)
      /\ Vt(m, c) = Vt(m, s) /\ Vt(m, In(s, c)) = Vt(m, Nx(s))
  BY HollowParts
<1>2. u \in Darts(m2) /\ w \in Darts(m2)
  BY Outside
<1>3. Nx(u) \in Darts(m2) /\ Pv(u) \in Darts(m2) /\ Nx(w) \in Darts(m2) /\ Pv(w) \in Darts(m2)
  BY <1>2, DartsTurn
<1>4. Vt(m, Nx(u)) = Vt(m, Pv(In(s, c))) /\ Vt(m, Pv(u)) = Vt(m, Nx(In(s, c)))
  BY <1>1, Twin
<1>5. Vt(m, Nx(w)) = Vt(m, Pv(c)) /\ Vt(m, Pv(w)) = Vt(m, Nx(c))
  BY <1>1, Twin
<1>6. Vt(m, Nx(s)) # Vt(m, s)
  BY <1>1, Corners
<1>7. CASE c = s
  <2>1. In(s, c) = Nx(s) /\ Pv(Nx(s)) = s /\ Nx(Nx(s)) = Pv(s)
    BY <1>1, <1>7, DartsTurn DEF In
  <2>2. Vt(m, Nx(u)) = Vt(m, s) /\ Vt(m, Pv(w)) = Vt(m, Nx(s)) /\ Vt(m, Pv(u)) = Vt(m, Nx(w))
    BY <1>4, <1>5, <1>7, <2>1
  <2>3. Vt(m2, Nx(u)) = Vt(m, Nx(s)) /\ Vt(m2, Pv(w)) = Vt(m, Nx(s))
    BY <1>3, <1>6, <2>2, NewVertex
  <2> QED
    BY <1>3, <2>2, <2>3, SameVertex
<1>8. CASE c # s
  <2>1. In(s, c) = Pv(c) /\ Pv(Pv(c)) = Nx(c) /\ Nx(Pv(c)) = c
    BY <1>1, <1>8, DartsTurn DEF In
  <2>2. Vt(m, Pv(u)) = Vt(m, s) /\ Vt(m, Nx(w)) = Vt(m, Nx(s)) /\ Vt(m, Nx(u)) = Vt(m, Pv(w))
    BY <1>1, <1>4, <1>5, <2>1
  <2>3. Vt(m2, Pv(u)) = Vt(m, Nx(s)) /\ Vt(m2, Nx(w)) = Vt(m, Nx(s))
    BY <1>3, <1>6, <2>2, NewVertex
  <2> QED
    BY <1>3, <2>2, <2>3, SameVertex
<1> QED
  BY <1>7, <1>8

(* The two edges glued over a triangle that goes name each other.          *)
LEMMA GluedOver ==
  ASSUME NEW m, Solid(m), NEW s, NEW C, Hollow(m, s, C), NEW m2, After(m, m2, s, C), NEW c \in C,
         NEW u, u = Ad(m, In(s, c)), NEW w, w = Ad(m, c)
  PROVE  /\ Ad(m2, u) = w /\ Tg(m2, u) = Tg(m, u) \union Tg(m, c)
         /\ w # NoAdja => Ad(m2, w) = u /\ Tg(m2, w) = Tg(m, w) \union Tg(m, In(s, c))
<1>1. /\ u \in Darts(m2) /\ Ad(m, u) = In(s, c)
      /\ w # NoAdja => w \in Darts(m2) /\ Ad(m, w) = c
  BY Outside
<1>2. Ad(m2, u) = w /\ Tg(m2, u) = Tg(m, u) \union Tg(m, c)
  BY <1>1 DEF After, Joins
<1>3. ASSUME w # NoAdja PROVE Ad(m2, w) = u /\ Tg(m2, w) = Tg(m, w) \union Tg(m, In(s, c))
  BY <1>1, <1>3 DEF After, Joins
<1> QED
  BY <1>2, <1>3

LEMMA CollapseJoined ==
  ASSUME NEW m, Solid(m), NEW s, NEW C, Hollow(m, s, C), NEW m2, After(m, m2, s, C)
  PROVE  Joined(m2)
<1> SUFFICES ASSUME NEW e \in Darts(m2), NEW a, a = Ad(m2, e), a # NoAdja
             PROVE  /\ a \in Darts(m2) /\ Ad(m2, a) = e
                    /\ Vt(m2, Nx(a)) = Vt(m2, Pv(e)) /\ Vt(m2, Pv(a)) = Vt(m2, Nx(e))
  BY DEF Joined
<1>1. e \in Darts(m) /\ Nx(e) \in Darts(m2) /\ Pv(e) \in Darts(m2)
  BY EdgesLeft, DartsTurn
<1>2. Joins(m, m2, s, C, e)
  BY DEF After
<1>3. CASE Ad(m, e) = NoAdja
  BY <1>2, <1>3 DEF Joins
<1>4. CASE Ad(m, e) \in Darts(m2)
  <2>1. a = Ad(m, e)
    BY <1>2, <1>4 DEF Joins
  <2>2. a \in Darts(m2) /\ Nx(a) \in Darts(m2) /\ Pv(a) \in Darts(m2)
    BY <1>4, <2>1, DartsTurn
  <2>3. Ad(m, a) = e /\ Vt(m, Nx(a)) = Vt(m, Pv(e)) /\ Vt(m, Pv(a)) = Vt(m, Nx(e))
    BY <1>1, <2>1, Twin
  <2>4. Ad(m2, a) = e
    BY <2>2, <2>3 DEF After, Joins
  <2> QED
    BY <1>1, <2>2, <2>3, <2>4, SameVertex
<1>5. ASSUME NEW c \in C, Ad(m, e) = c PROVE /\ a \in Darts(m2) /\ Ad(m2, a) = e
                    /\ Vt(m2, Nx(a)) = Vt(m2, Pv(e)) /\ Vt(m2, Pv(a)) = Vt(m2, Nx(e))
  <2>1. a = Ad(m, In(s, c))
    BY <1>2, <1>5 DEF Joins
  <2>2. c \in Darts(m)
    BY HollowParts
  <2>3. c # NoAdja
    BY <2>2, Corners, MeshAssumption DEF DartSet, NoAdja
  <2>4. Ad(m, c) = e /\ e # NoAdja
    BY <1>1, <1>5, <2>3, Twin
  <2>5. a \in Darts(m2) /\ Ad(m2, a) = e
    BY <2>1, <2>4, Outside, GluedOver
  <2>6. Vt(m2, Nx(a)) = Vt(m2, Pv(e)) /\ Vt(m2, Pv(a)) = Vt(m2, Nx(e))
    BY <2>1, <2>4, GluedEnds
  <2> QED
    BY <2>5, <2>6
<1>6. ASSUME NEW c \in C, Ad(m, e) = In(s, c) PROVE /\ a \in Darts(m2) /\ Ad(m2, a) = e
                    /\ Vt(m2, Nx(a)) = Vt(m2, Pv(e)) /\ Vt(m2, Pv(a)) = Vt(m2, Nx(e))
  <2>1. a = Ad(m, c)
    BY <1>2, <1>6 DEF Joins
  <2>2. In(s, c) \in Darts(m)
    BY HollowParts
  <2>3. In(s, c) # NoAdja
    BY <2>2, Corners, MeshAssumption DEF DartSet, NoAdja
  <2>4. Ad(m, In(s, c)) = e /\ e # NoAdja
    BY <1>1, <1>6, <2>3, Twin
  <2>5. a \in Darts(m2) /\ Ad(m2, a) = e
    BY <2>1, <2>4, Outside, GluedOver
  <2>6. Vt(m2, Nx(e)) = Vt(m2, Pv(a)) /\ Vt(m2, Pv(e)) = Vt(m2, Nx(a))
    BY <2>1, <2>4, GluedEnds
  <2> QED
    BY <2>5, <2>6
<1> QED
  BY <1>3, <1>4, <1>5, <1>6, EdgesLeft

LEMMA CollapseOnLive ==
  ASSUME NEW m, Solid(m), NEW s, NEW C, Hollow(m, s, C), NEW m2, After(m, m2, s, C)
  PROVE  OnLive(m2)
<1> SUFFICES ASSUME NEW e \in Darts(m2) PROVE Vt(m2, e) \in Live(m2.pts)
  BY DEF OnLive
<1>1. e \in Darts(m) /\ s \in Darts(m)
  BY EdgesLeft DEF Hollow
<1>2. Vt(m, e) \in Live(m.pts) /\ Vt(m, Nx(s)) \in Live(m.pts) /\ Vt(m, Nx(s)) # Vt(m, s)
  BY <1>1, DartsTurn, Corners
<1>3. Live(m2.pts) = Live(m.pts) \ {Vt(m, s)}
  BY DEF After
<1> QED
  BY <1>2, <1>3, NewVertex

LEMMA CollapseUsed ==
  ASSUME NEW m, Solid(m), Used(m), NEW s, NEW C, Hollow(m, s, C), NEW m2, After(m, m2, s, C)
  PROVE  Used(m2)
<1> SUFFICES ASSUME NEW p \in Live(m2.pts) PROVE \E e \in Darts(m2) : Vt(m2, e) = p
  BY DEF Used
<1>1. p \in Live(m.pts) /\ p # Vt(m, s)
  BY DEF After
<1>2. PICK e \in Darts(m) : Vt(m, e) = p
  BY <1>1 DEF Used
<1>3. CASE e \in Darts(m2)
  BY <1>1, <1>2, <1>3, NewVertex
<1>4. CASE e \notin Darts(m2)
  <2>1. PICK c \in C : e[1] = c[1]
    BY <1>2, <1>4 DEF After, Darts
  <2>2. e \in {c, In(s, c), Col(s, c)} /\ Vt(m, c) = Vt(m, s)
    BY <1>2, <2>1, HollowParts
  <2> DEFINE u == Ad(m, In(s, c))
  <2>3. u \in Darts(m2) /\ u # NoAdja /\ c \in Darts(m) /\ In(s, c) \in Darts(m)
    BY Outside, HollowParts
  <2>4. Nx(u) \in Darts(m2) /\ Pv(u) \in Darts(m2)
    BY <2>3, DartsTurn
  <2>5. Vt(m, Nx(u)) = Vt(m, Pv(In(s, c))) /\ Vt(m, Pv(u)) = Vt(m, Nx(In(s, c)))
    BY <2>3, Twin
  <2>6. {Pv(In(s, c)), Nx(In(s, c))} = {c, Col(s, c)}
    BY <2>3, DartsTurn DEF In, Col
  <2> HIDE DEF u
  <2>7. CASE e = In(s, c)
    <3>1. Vt(m, e) = Vt(m, Nx(s))
      BY <2>7, HollowParts
    <3>2. Vt(m, Nx(u)) = Vt(m, s) \/ Vt(m, Pv(u)) = Vt(m, s)
      BY <2>2, <2>5, <2>6
    <3> QED
      BY <1>2, <2>4, <3>1, <3>2, NewVertex
  <2>8. CASE e = Col(s, c)
    <3>1. Vt(m, Nx(u)) = p \/ Vt(m, Pv(u)) = p
      BY <1>2, <2>5, <2>6, <2>8
    <3> QED
      BY <1>1, <2>4, <3>1, NewVertex
  <2> QED
    BY <1>1, <1>2, <2>2, <2>7, <2>8
<1> QED
  BY <1>3, <1>4

LEMMA CollapsePositive ==
  ASSUME NEW m, Solid(m), NEW s, NEW C, Hollow(m, s, C), NEW m2, After(m, m2, s, C),
         \A e \in Darts(m2) : Vt(m, e) = Vt(m, s) =>
            Area(At(m, Vt(m, Nx(s))), At(m, Vt(m, Nx(e))), At(m, Vt(m, Pv(e)))) > 0
  PROVE  Positive(m2)
<1>0. m2 \in MeshSet /\ OnLive(m2) /\ Positive(m) /\ s \in Darts(m)
  BY CollapseOnLive DEF After, Solid, Hollow
<1>1. \A p \in Live(m2.pts) : At(m2, p) = At(m, p)
  BY DEF After
<1>2. ASSUME NEW e \in Darts(m2)
      PROVE  /\ Twice(m2, e) = Area(At(m, Vt(m2, e)), At(m, Vt(m2, Nx(e))), At(m, Vt(m2, Pv(e))))
             /\ Twice(m2, Nx(e)) = Twice(m2, e) /\ Twice(m2, Pv(e)) = Twice(m2, e)
  <2>1. /\ Nx(e) \in Darts(m2) /\ Pv(e) \in Darts(m2)
        /\ Nx(Nx(e)) = Pv(e) /\ Pv(Nx(e)) = e /\ Nx(Pv(e)) = e /\ Pv(Pv(e)) = Nx(e)
    BY DartsTurn
  <2>2. Vt(m2, e) \in Live(m2.pts) /\ Vt(m2, Nx(e)) \in Live(m2.pts) /\ Vt(m2, Pv(e)) \in Live(m2.pts)
    BY <1>0, <2>1 DEF OnLive
  <2>3. Twice(m2, e) = Area(At(m, Vt(m2, e)), At(m, Vt(m2, Nx(e))), At(m, Vt(m2, Pv(e))))
    BY <1>1, <2>2 DEF Twice
  <2> DEFINE P == At(m2, Vt(m2, e))
             Q == At(m2, Vt(m2, Nx(e)))
             R == At(m2, Vt(m2, Pv(e)))
  <2>4. P \in Int \X Int /\ Q \in Int \X Int /\ R \in Int \X Int
    BY <1>0, <2>2, MeshParts
  <2>5. Twice(m2, e) = Area(P, Q, R) /\ Twice(m2, Nx(e)) = Area(Q, R, P) /\ Twice(m2, Pv(e)) = Area(R, P, Q)
    BY <2>1 DEF Twice
  <2> HIDE DEF P, Q, R
  <2>6. Area(Q, R, P) = Area(P, Q, R) /\ Area(R, P, Q) = Area(Q, R, P)
    BY <2>4, AreaTurns
  <2> QED
    BY <2>3, <2>5, <2>6
<1>3. ASSUME NEW e \in Darts(m2), Vt(m, e) = Vt(m, s) PROVE Twice(m2, e) > 0
  <2>1. e \in Darts(m) /\ Nx(e) \in Darts(m2) /\ Pv(e) \in Darts(m2)
    BY EdgesLeft, DartsTurn
  <2>2. Vt(m, Nx(e)) # Vt(m, s) /\ Vt(m, Pv(e)) # Vt(m, s)
    BY <1>3, <2>1, Corners
  <2>3. Vt(m2, e) = Vt(m, Nx(s)) /\ Vt(m2, Nx(e)) = Vt(m, Nx(e)) /\ Vt(m2, Pv(e)) = Vt(m, Pv(e))
    BY <1>3, <2>1, <2>2, NewVertex
  <2> QED
    BY <1>2, <1>3, <2>3
<1> SUFFICES ASSUME NEW e \in Darts(m2) PROVE Twice(m2, e) > 0
  BY DEF Positive
<1>4. e \in Darts(m) /\ Nx(e) \in Darts(m2) /\ Pv(e) \in Darts(m2)
  BY EdgesLeft, DartsTurn
<1>5. CASE Vt(m, e) = Vt(m, s)
  BY <1>3, <1>5
<1>6. CASE Vt(m, Nx(e)) = Vt(m, s)
  BY <1>2, <1>3, <1>4, <1>6
<1>7. CASE Vt(m, Pv(e)) = Vt(m, s)
  BY <1>2, <1>3, <1>4, <1>7
<1>8. CASE Vt(m, e) # Vt(m, s) /\ Vt(m, Nx(e)) # Vt(m, s) /\ Vt(m, Pv(e)) # Vt(m, s)
  <2>1. Vt(m2, e) = Vt(m, e) /\ Vt(m2, Nx(e)) = Vt(m, Nx(e)) /\ Vt(m2, Pv(e)) = Vt(m, Pv(e))
    BY <1>4, <1>8, NewVertex
  <2>2. Twice(m2, e) = Twice(m, e)
    BY <1>2, <2>1 DEF Twice
  <2> QED
    BY <1>0, <1>4, <2>2 DEF Positive
<1> QED
  BY <1>5, <1>6, <1>7, <1>8

LEMMA CollapsePlain ==
  ASSUME NEW m, Plain(m), NEW s, NEW C, NEW m2, After(m, m2, s, C)
  PROVE  Plain(m2)
BY DEF Plain, After

(* The tags of an edge are those that its kind asks for, and the user's.   *)
LEMMA EdgeKinds ==
  ASSUME NEW m, Tagged(m), NEW e \in Darts(m)
  PROVE  /\ Tg(m, e) \ {"req"} = KindOf(m, e)
         /\ KindOf(m, e) \in Kinds
         /\ EDG(Tg(m, e)) <=> KindOf(m, e) # {}
         /\ ~EDG(Tg(m, e)) => /\ Ad(m, e) # NoAdja /\ Rf(m, Ad(m, e)) = Rf(m, e)
                              /\ Tg(m, e) \subseteq {"req"}
         /\ EDG(Tg(m, e)) => "bdy" \in Tg(m, e)
         /\ "geo" \in Tg(m, e) <=> Ad(m, e) = NoAdja
         /\ Ad(m, e) # NoAdja => Tg(m, Ad(m, e)) = Tg(m, e)
         /\ Tg(m, e) \subseteq Pt(m, Vt(m, Nx(e))) /\ Tg(m, e) \subseteq Pt(m, Vt(m, Pv(e)))
<1>1. Tg(m, e) \ {"req"} = KindOf(m, e)
  BY DEF Tagged
<1>2. CASE Ad(m, e) = NoAdja
  BY <1>1, <1>2 DEF KindOf, Kinds, EDG, Tagged
<1>3. CASE Ad(m, e) # NoAdja /\ Rf(m, Ad(m, e)) = Rf(m, e)
  BY <1>1, <1>3 DEF KindOf, Kinds, EDG, Tagged
<1>4. CASE Ad(m, e) # NoAdja /\ Rf(m, Ad(m, e)) # Rf(m, e)
  BY <1>1, <1>4 DEF KindOf, Kinds, EDG, Tagged
<1> QED
  BY <1>2, <1>3, <1>4

(* The ends of the edge past the triangle become those of the opposite     *)
(* one.                                                                    *)
LEMMA EndsPast ==
  ASSUME NEW m, Solid(m), NEW s, NEW C, Hollow(m, s, C), NEW m2, After(m, m2, s, C), NEW c \in C,
         NEW u, u = Ad(m, In(s, c))
  PROVE  /\ Vt(m2, Nx(u)) = Vt(m, Nx(c)) /\ Vt(m2, Pv(u)) = Vt(m, Pv(c))
         /\ Vt(m, Nx(c)) \in Live(m2.pts) /\ Vt(m, Pv(c)) \in Live(m2.pts)
<1>1. /\ c \in Darts(m) /\ In(s, c) \in Darts(m) /\ u # NoAdja /\ s \in Darts(m)
      /\ Vt(m, c) = Vt(m, s) /\ Vt(m, In(s, c)) = Vt(m, Nx(s))
  BY HollowParts
<1>2. u \in Darts(m2)
  BY Outside
<1>3. Nx(u) \in Darts(m2) /\ Pv(u) \in Darts(m2)
  BY <1>2, DartsTurn
<1>4. Vt(m, Nx(u)) = Vt(m, Pv(In(s, c))) /\ Vt(m, Pv(u)) = Vt(m, Nx(In(s, c)))
  BY <1>1, Twin
<1>5. /\ Vt(m, Nx(c)) # Vt(m, s) /\ Vt(m, Pv(c)) # Vt(m, s)
      /\ Vt(m, Nx(c)) \in Live(m.pts) /\ Vt(m, Pv(c)) \in Live(m.pts)
  BY <1>1, DartsTurn, Corners
<1>6. Vt(m, Nx(c)) \in Live(m2.pts) /\ Vt(m, Pv(c)) \in Live(m2.pts)
  BY <1>5 DEF After
<1>7. CASE c = s
  <2>1. In(s, c) = Nx(s) /\ Pv(Nx(s)) = s /\ Nx(Nx(s)) = Pv(s)
    BY <1>1, <1>7, DartsTurn DEF In
  <2>2. Vt(m, Nx(u)) = Vt(m, s) /\ Vt(m, Pv(u)) = Vt(m, Pv(c))
    BY <1>4, <1>7, <2>1
  <2> QED
    BY <1>3, <1>5, <1>6, <1>7, <2>2, NewVertex
<1>8. CASE c # s
  <2>1. In(s, c) = Pv(c) /\ Pv(Pv(c)) = Nx(c) /\ Nx(Pv(c)) = c
    BY <1>1, <1>8, DartsTurn DEF In
  <2>2. Vt(m, Pv(u)) = Vt(m, s) /\ Vt(m, Nx(u)) = Vt(m, Nx(c)) /\ Vt(m, Pv(c)) = Vt(m, Nx(s))
    BY <1>1, <1>4, <2>1
  <2> QED
    BY <1>3, <1>5, <1>6, <2>2, NewVertex
<1> QED
  BY <1>7, <1>8

(* The tags of a vertex that is left hold those of the vertex that was     *)
(* there before.                                                           *)
LEMMA TagsOver ==
  ASSUME NEW m, Solid(m), NEW s, NEW C, Hollow(m, s, C), NEW m2, After(m, m2, s, C),
         Pt(m, Vt(m, s)) \subseteq Pt(m, Vt(m, Nx(s))), NEW e \in Darts(m2)
  PROVE  Pt(m, Vt(m, e)) \subseteq Pt(m2, Vt(m2, e))
<1>1. Vt(m2, e) \in Live(m2.pts)
  BY CollapseOnLive DEF OnLive
<1>2. Pt(m2, Vt(m2, e)) = Pt(m, Vt(m2, e))
  BY <1>1 DEF After
<1> QED
  BY <1>2, NewVertex

(* Both edges glued over a triangle that goes are of the right kind.       *)
LEMMA GluedKind ==
  ASSUME NEW m, Solid(m), Tagged(m), NEW s, NEW C, Hollow(m, s, C), NEW m2, After(m, m2, s, C), NEW c \in C,
         ~(EDG(Tg(m, c)) /\ EDG(Tg(m, In(s, c)))),
         NEW u, u = Ad(m, In(s, c)), NEW w, w = Ad(m, c)
  PROVE  /\ Tg(m2, u) = Tg(m, c) \union Tg(m, In(s, c))
         /\ Tg(m2, u) \ {"req"} = KindOf(m2, u)
         /\ w # NoAdja => Tg(m2, w) = Tg(m2, u) /\ Tg(m2, w) \ {"req"} = KindOf(m2, w)
<1>1. c \in Darts(m) /\ In(s, c) \in Darts(m) /\ In(s, c)[1] = c[1]
  BY HollowParts
<1>2. /\ u \in Darts(m2) /\ u # NoAdja
      /\ w # NoAdja => w \in Darts(m2)
  BY Outside
<1>3. /\ Ad(m2, u) = w /\ Tg(m2, u) = Tg(m, u) \union Tg(m, c)
      /\ w # NoAdja => Ad(m2, w) = u /\ Tg(m2, w) = Tg(m, w) \union Tg(m, In(s, c))
  BY GluedOver
<1>4. Tg(m, u) = Tg(m, In(s, c)) /\ (w # NoAdja => Tg(m, w) = Tg(m, c))
  BY <1>1, <1>2, EdgeKinds
<1>5. Rf(m2, u) = Rf(m, u) /\ (w # NoAdja => Rf(m2, w) = Rf(m, w)) /\ Rf(m, In(s, c)) = Rf(m, c)
  BY <1>1, <1>2 DEF After, Rf
<1>6. /\ Tg(m, c) \ {"req"} = KindOf(m, c) /\ Tg(m, In(s, c)) \ {"req"} = KindOf(m, In(s, c))
  BY <1>1, EdgeKinds
<1>7. Tg(m2, u) = Tg(m, c) \union Tg(m, In(s, c)) /\ (w # NoAdja => Tg(m2, w) = Tg(m2, u))
  BY <1>3, <1>4
<1>8. Tg(m2, u) \ {"req"} = KindOf(m, c) \union KindOf(m, In(s, c))
  BY <1>6, <1>7
<1>9. CASE ~EDG(Tg(m, In(s, c)))
  <2>1. Rf(m, u) = Rf(m, c) /\ KindOf(m, In(s, c)) = {}
    BY <1>1, <1>5, <1>9, EdgeKinds
  <2>2. KindOf(m2, u) = KindOf(m, c)
    BY <1>3, <1>5, <2>1 DEF KindOf
  <2>3. w # NoAdja => KindOf(m2, w) = KindOf(m, c)
    BY <1>2, <1>3, <1>5, <2>1 DEF KindOf
  <2> QED
    BY <1>7, <1>8, <2>1, <2>2, <2>3
<1>10. CASE ~EDG(Tg(m, c))
  <2>1. w # NoAdja /\ Rf(m, w) = Rf(m, c) /\ KindOf(m, c) = {}
    BY <1>1, <1>10, EdgeKinds
  <2>2. KindOf(m2, u) = KindOf(m, In(s, c))
    BY <1>2, <1>3, <1>5, <2>1 DEF KindOf
  <2>3. KindOf(m2, w) = KindOf(m, In(s, c))
    BY <1>2, <1>3, <1>5, <2>1 DEF KindOf
  <2> QED
    BY <1>7, <1>8, <2>1, <2>2, <2>3
<1> QED
  BY <1>9, <1>10

LEMMA CollapseTagged ==
  ASSUME NEW m, Solid(m), Tagged(m), NEW s, NEW C, Hollow(m, s, C), NEW m2, After(m, m2, s, C),
         Pt(m, Vt(m, s)) \subseteq Pt(m, Vt(m, Nx(s))),
         \A c \in C : ~(EDG(Tg(m, c)) /\ EDG(Tg(m, In(s, c))))
  PROVE  Tagged(m2)
<1>1. ASSUME NEW c \in C, NEW u, u = Ad(m, In(s, c))
      PROVE  Tg(m2, u) \subseteq Pt(m2, Vt(m2, Nx(u))) /\ Tg(m2, u) \subseteq Pt(m2, Vt(m2, Pv(u)))
  <2>1. c \in Darts(m) /\ In(s, c) \in Darts(m) /\ u # NoAdja
    BY <1>1, HollowParts
  <2>2. u \in Darts(m2)
    BY <1>1, Outside
  <2>3. u \in Darts(m) /\ Nx(u) \in Darts(m2) /\ Pv(u) \in Darts(m2)
    BY <2>2, EdgesLeft, DartsTurn
  <2>4. Tg(m2, u) = Tg(m, c) \union Tg(m, In(s, c)) /\ Tg(m, u) = Tg(m, In(s, c))
    BY <1>1, <2>1, GluedKind, EdgeKinds
  <2>5. Tg(m, u) \subseteq Pt(m2, Vt(m2, Nx(u))) /\ Tg(m, u) \subseteq Pt(m2, Vt(m2, Pv(u)))
    <3>1. Tg(m, u) \subseteq Pt(m, Vt(m, Nx(u))) /\ Tg(m, u) \subseteq Pt(m, Vt(m, Pv(u)))
      BY <2>3, EdgeKinds
    <3>2. Pt(m, Vt(m, Nx(u))) \subseteq Pt(m2, Vt(m2, Nx(u)))
      BY <2>3, TagsOver
    <3>3. Pt(m, Vt(m, Pv(u))) \subseteq Pt(m2, Vt(m2, Pv(u)))
      BY <2>3, TagsOver
    <3> QED
      BY <3>1, <3>2, <3>3
  <2>6. /\ Vt(m2, Nx(u)) = Vt(m, Nx(c)) /\ Vt(m2, Pv(u)) = Vt(m, Pv(c))
        /\ Vt(m, Nx(c)) \in Live(m2.pts) /\ Vt(m, Pv(c)) \in Live(m2.pts)
    BY <1>1, EndsPast
  <2>7. Pt(m2, Vt(m2, Nx(u))) = Pt(m, Vt(m, Nx(c))) /\ Pt(m2, Vt(m2, Pv(u))) = Pt(m, Vt(m, Pv(c)))
    BY <2>6 DEF After
  <2>8. Tg(m, c) \subseteq Pt(m, Vt(m, Nx(c))) /\ Tg(m, c) \subseteq Pt(m, Vt(m, Pv(c)))
    BY <2>1, EdgeKinds
  <2> QED
    BY <2>4, <2>5, <2>7, <2>8
<1> SUFFICES ASSUME NEW e \in Darts(m2)
             PROVE  /\ Ad(m2, e) # NoAdja => Tg(m2, Ad(m2, e)) = Tg(m2, e)
                    /\ Tg(m2, e) \ {"req"} = KindOf(m2, e)
                    /\ Tg(m2, e) \subseteq Pt(m2, Vt(m2, Nx(e)))
                    /\ Tg(m2, e) \subseteq Pt(m2, Vt(m2, Pv(e)))
  BY DEF Tagged
<1>2. e \in Darts(m) /\ Nx(e) \in Darts(m2) /\ Pv(e) \in Darts(m2) /\ e # NoAdja
  <2>1. e \in Darts(m) /\ Nx(e) \in Darts(m2) /\ Pv(e) \in Darts(m2)
    BY EdgesLeft, DartsTurn
  <2> QED
    BY <2>1, Corners, MeshAssumption DEF DartSet, NoAdja
<1>3. CASE Ad(m, e) = NoAdja \/ Ad(m, e) \in Darts(m2)
  <2>1. Ad(m2, e) = Ad(m, e) /\ Tg(m2, e) = Tg(m, e) /\ Rf(m2, e) = Rf(m, e)
    BY <1>3 DEF After, Joins
  <2>2. ASSUME Ad(m, e) # NoAdja
        PROVE  Tg(m2, Ad(m, e)) = Tg(m, e) /\ Rf(m2, Ad(m, e)) = Rf(m, Ad(m, e))
    <3> DEFINE a == Ad(m, e)
    <3>1. a \in Darts(m2) /\ Ad(m, a) = e
      BY <1>2, <1>3, <2>2, Twin
    <3>2. Tg(m2, a) = Tg(m, a) /\ Rf(m2, a) = Rf(m, a)
      BY <3>1 DEF After, Joins
    <3>3. Tg(m, a) = Tg(m, e)
      BY <1>2, <2>2, EdgeKinds
    <3> QED
      BY <3>2, <3>3
  <2>3. Tg(m, e) \ {"req"} = KindOf(m, e) /\ KindOf(m2, e) = KindOf(m, e)
    BY <1>2, <2>1, <2>2, EdgeKinds DEF KindOf
  <2>4. Tg(m, e) \subseteq Pt(m, Vt(m, Nx(e))) /\ Tg(m, e) \subseteq Pt(m, Vt(m, Pv(e)))
    BY <1>2, EdgeKinds
  <2>5. Pt(m, Vt(m, Nx(e))) \subseteq Pt(m2, Vt(m2, Nx(e)))
    BY <1>2, TagsOver
  <2>6. Pt(m, Vt(m, Pv(e))) \subseteq Pt(m2, Vt(m2, Pv(e)))
    BY <1>2, TagsOver
  <2> QED
    BY <2>1, <2>2, <2>3, <2>4, <2>5, <2>6
<1>4. ASSUME NEW c \in C, Ad(m, e) = c
             PROVE  /\ Ad(m2, e) # NoAdja => Tg(m2, Ad(m2, e)) = Tg(m2, e)
                    /\ Tg(m2, e) \ {"req"} = KindOf(m2, e)
                    /\ Tg(m2, e) \subseteq Pt(m2, Vt(m2, Nx(e)))
                    /\ Tg(m2, e) \subseteq Pt(m2, Vt(m2, Pv(e)))
  <2> DEFINE u == Ad(m, In(s, c))
  <2>1. c \in Darts(m)
    BY HollowParts
  <2>2. c # NoAdja
    BY <2>1, Corners, MeshAssumption DEF DartSet, NoAdja
  <2>3. Ad(m, c) = e
    BY <1>2, <1>4, <2>2, Twin
  <2>4. Tg(m2, e) = Tg(m2, u) /\ Tg(m2, e) \ {"req"} = KindOf(m2, e)
    BY <1>2, <2>3, GluedKind
  <2>5. Ad(m2, e) = u
    BY <1>2, <2>3, GluedOver
  <2>6. Vt(m2, Nx(u)) = Vt(m2, Pv(e)) /\ Vt(m2, Pv(u)) = Vt(m2, Nx(e))
    BY <1>2, <2>3, GluedEnds
  <2> QED
    BY <1>1, <2>4, <2>5, <2>6
<1>5. ASSUME NEW c \in C, Ad(m, e) = In(s, c)
             PROVE  /\ Ad(m2, e) # NoAdja => Tg(m2, Ad(m2, e)) = Tg(m2, e)
                    /\ Tg(m2, e) \ {"req"} = KindOf(m2, e)
                    /\ Tg(m2, e) \subseteq Pt(m2, Vt(m2, Nx(e)))
                    /\ Tg(m2, e) \subseteq Pt(m2, Vt(m2, Pv(e)))
  <2> DEFINE w == Ad(m, c)
  <2>1. In(s, c) \in Darts(m)
    BY HollowParts
  <2>2. In(s, c) # NoAdja
    BY <2>1, Corners, MeshAssumption DEF DartSet, NoAdja
  <2>3. e = Ad(m, In(s, c))
    BY <1>2, <1>5, <2>2, Twin
  <2>4. Tg(m2, e) \ {"req"} = KindOf(m2, e) /\ (w # NoAdja => Tg(m2, w) = Tg(m2, e))
    BY <2>3, GluedKind
  <2>5. Ad(m2, e) = w
    BY <2>3, GluedOver
  <2> QED
    BY <1>1, <2>3, <2>4, <2>5
<1> QED
  BY <1>3, <1>4, <1>5, EdgesLeft

LEMMA ClosedBoth ==
  ASSUME NEW m, Solid(m), NEW S, Closed(m, S), NEW e \in Darts(m), NEW a, a = Ad(m, e), a # NoAdja
  PROVE  (Pv(e) \in S <=> Nx(a) \in S) /\ (Nx(e) \in S <=> Pv(a) \in S)
<1>1. a \in Darts(m) /\ Ad(m, a) = e /\ e # NoAdja
  BY Twin
<1> QED
  BY <1>1 DEF Closed

(* The corners, past a triangle that goes, of the vertex that disappears   *)
(* and of the other end of the edge that is crossed.                       *)
Past(m, s, c)   == IF c = s THEN Nx(Ad(m, In(s, c))) ELSE Pv(Ad(m, In(s, c)))
Beyond(m, s, c) == IF c = s THEN Pv(Ad(m, In(s, c))) ELSE Nx(Ad(m, In(s, c)))

(* Around the vertex that disappears, what is left of its fan is in one    *)
(* piece.                                                                  *)
Chained(m, m2, s, C) ==
    \A S \in SUBSET Darts(m2) : Closed(m2, S) =>
        \A c \in C : Past(m, s, c) \in S <=> Past(m, s, s) \in S

(* A closed set of the mesh after the collapse, with the corners of the    *)
(* triangles that went.                                                    *)
Filling(m, s, C, S) ==
    S \union {c \in C : Past(m, s, s) \in S}
      \union {In(s, c) : c \in {d \in C : Past(m, s, s) \in S}}
      \union {Col(s, c) : c \in {d \in C : Beyond(m, s, d) \in S}}

LEMMA FillingHolds ==
  ASSUME NEW m, Solid(m), NEW s, NEW C, Hollow(m, s, C), NEW m2, After(m, m2, s, C),
         NEW S \in SUBSET Darts(m2), NEW c \in C
  PROVE  /\ c \in Filling(m, s, C, S) <=> Past(m, s, s) \in S
         /\ In(s, c) \in Filling(m, s, C, S) <=> Past(m, s, s) \in S
         /\ Col(s, c) \in Filling(m, s, C, S) <=> Beyond(m, s, c) \in S
         /\ \A e \in Darts(m2) : e \in Filling(m, s, C, S) <=> e \in S
<1>1. ASSUME NEW d \in C, NEW e, e \in {d, In(s, d), Col(s, d)}
      PROVE  e \notin Darts(m2) /\ e \notin S /\ e[1] = d[1] /\ e \in Darts(m)
  <2>1. d \notin Darts(m2) /\ In(s, d) \notin Darts(m2) /\ Col(s, d) \notin Darts(m2)
    BY Outside
  <2>2. d \in Darts(m) /\ In(s, d) \in Darts(m) /\ Col(s, d) \in Darts(m) /\ In(s, d)[1] = d[1] /\ Col(s, d)[1] = d[1]
    BY HollowParts
  <2> QED
    BY <1>1, <2>1, <2>2
<1>2. ASSUME NEW d \in C, d[1] = c[1] PROVE d = c
  <2>1. Vt(m, d) = Vt(m, c) /\ d \in Darts(m) /\ c \in Darts(m)
    BY HollowParts
  <2> QED
    BY <1>2, <2>1, OneCorner
<1>3. c # In(s, c) /\ c # Col(s, c) /\ In(s, c) # Col(s, c)
  BY HollowParts
<1>4. c \in Filling(m, s, C, S) <=> Past(m, s, s) \in S
  BY <1>1, <1>2, <1>3 DEF Filling
<1>5. In(s, c) \in Filling(m, s, C, S) <=> Past(m, s, s) \in S
  BY <1>1, <1>2, <1>3 DEF Filling
<1>6. Col(s, c) \in Filling(m, s, C, S) <=> Beyond(m, s, c) \in S
  BY <1>1, <1>2, <1>3 DEF Filling
<1>7. \A e \in Darts(m2) : e \in Filling(m, s, C, S) <=> e \in S
  BY <1>1 DEF Filling
<1> QED
  BY <1>4, <1>5, <1>6, <1>7

LEMMA FillingClosed ==
  ASSUME NEW m, Solid(m), NEW s, NEW C, Hollow(m, s, C), NEW m2, After(m, m2, s, C),
         Chained(m, m2, s, C), Solid(m2), NEW S \in SUBSET Darts(m2), Closed(m2, S)
  PROVE  Closed(m, Filling(m, s, C, S)) /\ Filling(m, s, C, S) \in SUBSET Darts(m)
<1> DEFINE F == Filling(m, s, C, S)
           B == Past(m, s, s) \in S
<1>1. \A c \in C : /\ c \in F <=> B
                   /\ In(s, c) \in F <=> B
                   /\ Col(s, c) \in F <=> Beyond(m, s, c) \in S
  BY FillingHolds
<1>2. \A e \in Darts(m2) : e \in F <=> e \in S
  <2>1. s \in C
    BY DEF Hollow
  <2> QED
    BY <2>1, FillingHolds
<1>3. \A c \in C : Past(m, s, c) \in S <=> B
  BY DEF Chained
<1>4. F \in SUBSET Darts(m)
  <2>1. \A e \in Darts(m2) : e \in Darts(m)
    BY EdgesLeft
  <2>2. \A c \in C : c \in Darts(m) /\ In(s, c) \in Darts(m) /\ Col(s, c) \in Darts(m)
    BY HollowParts
  <2> QED
    BY <2>1, <2>2 DEF Filling
<1> HIDE DEF F, B
(* The two edges of a triangle that goes.                                  *)
<1>5. ASSUME NEW c \in C, NEW u, u = Ad(m, In(s, c))
      PROVE  (Pv(In(s, c)) \in F <=> Nx(u) \in F) /\ (Nx(In(s, c)) \in F <=> Pv(u) \in F)
  <2>1. u \in Darts(m2) /\ c \in Darts(m)
    BY <1>5, Outside, HollowParts
  <2>2. Nx(u) \in Darts(m2) /\ Pv(u) \in Darts(m2)
    BY <2>1, DartsTurn
  <2>3. (Nx(u) \in F <=> Nx(u) \in S) /\ (Pv(u) \in F <=> Pv(u) \in S)
    BY <1>2, <2>2
  <2>4. CASE c = s
    <3>1. In(s, c) = Nx(c) /\ Pv(Nx(c)) = c /\ Nx(Nx(c)) = Col(s, c)
      BY <2>1, <2>4, DartsTurn DEF In, Col
    <3>2. Nx(u) = Past(m, s, c) /\ Pv(u) = Beyond(m, s, c)
      BY <1>5, <2>4 DEF Past, Beyond
    <3> QED
      BY <1>1, <1>3, <2>3, <3>1, <3>2
  <2>5. CASE c # s
    <3>1. In(s, c) = Pv(c) /\ Nx(Pv(c)) = c /\ Pv(Pv(c)) = Col(s, c)
      BY <2>1, <2>5, DartsTurn DEF In, Col
    <3>2. Pv(u) = Past(m, s, c) /\ Nx(u) = Beyond(m, s, c)
      BY <1>5, <2>5 DEF Past, Beyond
    <3> QED
      BY <1>1, <1>3, <2>3, <3>1, <3>2
  <2> QED
    BY <2>4, <2>5
<1>6. ASSUME NEW c \in C, NEW w, w = Ad(m, c), w # NoAdja
      PROVE  (Pv(c) \in F <=> Nx(w) \in F) /\ (Nx(c) \in F <=> Pv(w) \in F)
  <2> DEFINE u == Ad(m, In(s, c))
  <2>1. u \in Darts(m2) /\ w \in Darts(m2) /\ c \in Darts(m)
    BY <1>6, Outside, HollowParts
  <2>2. Nx(u) \in Darts(m2) /\ Pv(u) \in Darts(m2) /\ Nx(w) \in Darts(m2) /\ Pv(w) \in Darts(m2)
    BY <2>1, DartsTurn
  <2>3. Ad(m2, u) = w
    BY <1>6, GluedOver
  <2>4. (Pv(u) \in S <=> Nx(w) \in S) /\ (Nx(u) \in S <=> Pv(w) \in S)
    BY <1>6, <2>1, <2>3, ClosedBoth
  <2>5. (Nx(w) \in F <=> Nx(w) \in S) /\ (Pv(w) \in F <=> Pv(w) \in S)
    BY <1>2, <2>2
  <2>6. CASE c = s
    <3>1. In(s, c) = Nx(c) /\ Pv(c) = Col(s, c)
      BY <2>1, <2>6, DartsTurn DEF In, Col
    <3>2. Nx(u) = Past(m, s, c) /\ Pv(u) = Beyond(m, s, c)
      BY <1>6, <2>6 DEF Past, Beyond
    <3> HIDE DEF u
    <3> QED
      BY <1>1, <1>3, <2>4, <2>5, <3>1, <3>2
  <2>7. CASE c # s
    <3>1. In(s, c) = Pv(c) /\ Nx(c) = Col(s, c)
      BY <2>1, <2>7, DartsTurn DEF In, Col
    <3>2. Pv(u) = Past(m, s, c) /\ Nx(u) = Beyond(m, s, c)
      BY <1>6, <2>7 DEF Past, Beyond
    <3> HIDE DEF u
    <3> QED
      BY <1>1, <1>3, <2>4, <2>5, <3>1, <3>2
  <2> QED
    BY <2>6, <2>7
<1>7. ASSUME NEW g \in Darts(m), NEW a, a = Ad(m, g), a # NoAdja
      PROVE  Pv(g) \in F <=> Nx(a) \in F
  <2>1. a \in Darts(m) /\ Ad(m, a) = g /\ g # NoAdja
    BY <1>7, Twin
  <2>2. CASE g \in Darts(m2) /\ a \in Darts(m2)
    <3>1. Ad(m2, g) = a /\ Pv(g) \in Darts(m2) /\ Nx(a) \in Darts(m2)
      BY <1>7, <2>2, DartsTurn DEF After, Joins
    <3>2. Pv(g) \in S <=> Nx(a) \in S
      BY <1>7, <2>2, <3>1 DEF Closed
    <3> QED
      BY <1>2, <3>1, <3>2
  <2>3. CASE g \in Darts(m2) /\ a \notin Darts(m2)
    <3>1. PICK c \in C : a = c \/ a = In(s, c)
      BY <1>7, <2>3, EdgesLeft
    <3>2. CASE a = c
      BY <1>6, <2>1, <3>2
    <3>3. CASE a = In(s, c)
      BY <1>5, <2>1, <3>3
    <3> QED
      BY <3>1, <3>2, <3>3
  <2>4. CASE g \notin Darts(m2)
    <3>1. PICK c \in C : g[1] = c[1]
      BY <2>4 DEF After, Darts
    <3>2. g \in {c, In(s, c), Col(s, c)}
      BY <3>1, HollowParts
    <3>3. CASE g = c
      BY <1>6, <1>7, <3>3
    <3>4. CASE g = In(s, c)
      BY <1>5, <1>7, <3>4
    <3>5. CASE g = Col(s, c)
      <4>1. PICK d \in C : a = Col(s, d)
        BY <1>7, <3>5, HollowParts
      <4>2. /\ c \in Darts(m) /\ d \in Darts(m) /\ s \in Darts(m)
        BY HollowParts
      <4>3. Pv(Col(s, c)) \in {c, In(s, c)} /\ Nx(Col(s, d)) \in {d, In(s, d)}
        BY <4>2, DartsTurn DEF In, Col
      <4> QED
        BY <1>1, <3>5, <4>1, <4>3
    <3> QED
      BY <3>2, <3>3, <3>4, <3>5
  <2> QED
    BY <2>2, <2>3, <2>4
<1> QED
  BY <1>4, <1>7 DEF F, Closed

LEMMA CollapseFan ==
  ASSUME NEW m, Solid(m), OneFan(m), NEW s, NEW C, Hollow(m, s, C), NEW m2, After(m, m2, s, C),
         Chained(m, m2, s, C), Solid(m2), Movable(Pt(m, Vt(m, s)))
  PROVE  OneFan(m2)
<1> SUFFICES ASSUME NEW S \in SUBSET Darts(m2), Closed(m2, S), NEW e \in S, NEW f \in Darts(m2),
                    Vt(m2, e) = Vt(m2, f), Movable(Pt(m2, Vt(m2, e)))
             PROVE  f \in S
  BY DEF OneFan
<1> DEFINE F == Filling(m, s, C, S)
<1>1. Closed(m, F) /\ F \in SUBSET Darts(m)
  BY FillingClosed
<1>2. s \in C /\ s \in Darts(m) /\ In(s, s) = Nx(s) /\ Nx(s) \in Darts(m)
  <2>1. s \in C /\ s \in Darts(m)
    BY DEF Hollow
  <2> QED
    BY <2>1, DartsTurn DEF In
<1>3. \A x \in Darts(m2) : x \in F <=> x \in S
  BY <1>2, FillingHolds
<1>4. s \in F <=> Nx(s) \in F
  BY <1>2, FillingHolds
<1> HIDE DEF F
<1>5. e \in F /\ e \in Darts(m2) /\ e \in Darts(m) /\ f \in Darts(m)
  BY <1>3, EdgesLeft
<1>6. \A x \in F, y \in Darts(m) : Vt(m, x) = Vt(m, y) /\ Movable(Pt(m, Vt(m, x))) => y \in F
  BY <1>1 DEF OneFan
<1>7. Vt(m2, e) \in Live(m2.pts)
  BY <1>5 DEF Solid, OnLive
<1>8. Pt(m2, Vt(m2, e)) = Pt(m, Vt(m2, e))
  BY <1>7 DEF After
<1>9. CASE Vt(m, e) = Vt(m, f)
  <2>1. Movable(Pt(m, Vt(m, e)))
    BY <1>5, <1>8, NewVertex
  <2> QED
    BY <1>3, <1>5, <1>6, <1>9, <2>1
<1>10. CASE Vt(m, e) # Vt(m, f)
  <2>1. \/ Vt(m, e) = Vt(m, s) /\ Vt(m, f) = Vt(m, Nx(s)) /\ Vt(m2, e) = Vt(m, Nx(s))
        \/ Vt(m, f) = Vt(m, s) /\ Vt(m, e) = Vt(m, Nx(s)) /\ Vt(m2, f) = Vt(m, Nx(s))
    BY <1>5, <1>10, NewVertex
  <2>2. CASE Vt(m, e) = Vt(m, s) /\ Vt(m, f) = Vt(m, Nx(s)) /\ Vt(m2, e) = Vt(m, Nx(s))
    <3>1. s \in F
      BY <1>2, <1>5, <1>6, <2>2
    <3>2. Nx(s) \in F /\ Movable(Pt(m, Vt(m, Nx(s))))
      BY <1>4, <1>8, <2>2, <3>1
    <3>3. f \in F
      BY <1>5, <1>6, <2>2, <3>2
    <3> QED
      BY <1>3, <3>3
  <2>3. CASE Vt(m, f) = Vt(m, s) /\ Vt(m, e) = Vt(m, Nx(s)) /\ Vt(m2, f) = Vt(m, Nx(s))
    <3>1. Movable(Pt(m, Vt(m, e)))
      BY <1>8, <2>3
    <3>2. Nx(s) \in F
      BY <1>2, <1>5, <1>6, <2>3, <3>1
    <3>3. s \in F
      BY <1>4, <3>2
    <3>4. f \in F
      BY <1>5, <1>6, <2>3, <3>3
    <3> QED
      BY <1>3, <3>4
  <2> QED
    BY <2>1, <2>2, <2>3
<1> QED
  BY <1>9, <1>10

(* A collapse keeps a mesh sound.                                          *)
Collapsible(m, m2, s, C) ==
    /\ Hollow(m, s, C) /\ After(m, m2, s, C) /\ Chained(m, m2, s, C)
    /\ Movable(Pt(m, Vt(m, s))) /\ Pt(m, Vt(m, s)) \subseteq Pt(m, Vt(m, Nx(s)))
    /\ \A c \in C : ~(EDG(Tg(m, c)) /\ EDG(Tg(m, In(s, c))))
    /\ \A e \in Darts(m2) : Vt(m, e) = Vt(m, s) =>
          Area(At(m, Vt(m, Nx(s))), At(m, Vt(m, Nx(e))), At(m, Vt(m, Pv(e)))) > 0

LEMMA CollapseSound ==
  ASSUME NEW m, Sound(m), NEW m2, NEW s, NEW C, Collapsible(m, m2, s, C)
  PROVE  Sound(m2)
<1>1. Solid(m) /\ Used(m) /\ Tagged(m) /\ Plain(m) /\ OneFan(m)
  BY DEF Sound, Solid
<1>2. m2 \in MeshSet /\ Lists(m2)
  BY DEF Collapsible, After
<1>3. OnLive(m2) /\ Joined(m2) /\ Used(m2) /\ Plain(m2)
  BY <1>1, CollapseOnLive, CollapseJoined, CollapseUsed, CollapsePlain DEF Collapsible
<1>4. Positive(m2)
  BY <1>1, CollapsePositive DEF Collapsible
<1>5. Tagged(m2)
  BY <1>1, CollapseTagged DEF Collapsible
<1>6. Solid(m2)
  BY <1>2, <1>3, <1>4 DEF Solid
<1>7. OneFan(m2)
  BY <1>1, <1>6, CollapseFan DEF Collapsible
<1> QED
  BY <1>2, <1>3, <1>4, <1>5, <1>7 DEF Sound

-------------------------------------------------------------------------------
(* A split.                                                                *)

(* A split seen on the darts.  H holds the edge that is cut, s, and the    *)
(* same edge of the triangle on its other side; triangle c[1], for c in H, *)
(* keeps one half and nn[c] is the triangle made of the other half, which  *)
(* takes over side In(s, c).  N is the dart of the new triangle with the   *)
(* same local index.                                                       *)
N(nn, c, d) == <<nn[c], d[2]>>

Cuttable(m, s, H, nn, ip) ==
    /\ s \in Darts(m)
    /\ \/ H = {s} /\ Ad(m, s) = NoAdja
       \/ H = {s, Ad(m, s)} /\ Ad(m, s) # NoAdja
    /\ ip \in 1..NPMax /\ ip \notin Live(m.pts)
    /\ \A c \in H : nn[c] \in 1..NTMax /\ nn[c] \notin Live(m.trs)
    /\ \A c, d \in H : nn[c] = nn[d] => c = d

KeptHalf(m, m2, s, H, nn, ip, e) ==
    /\ Rf(m2, e) = Rf(m, e)
    /\ \A c \in H : e = Col(s, c) => Vt(m2, e) = ip
    /\ (\A c \in H : e # Col(s, c)) => Vt(m2, e) = Vt(m, e)
    /\ \A c \in H : e = In(s, c) => Tg(m2, e) = {} /\ Ad(m2, e) = N(nn, c, Col(s, c))
    /\ (\A c \in H : e # In(s, c)) => Tg(m2, e) = Tg(m, e)
    /\ \A c \in H : Ad(m, e) = In(s, c) => Ad(m2, e) = N(nn, c, In(s, c))
    /\ (\A c \in H : e # In(s, c) /\ Ad(m, e) # In(s, c)) => Ad(m2, e) = Ad(m, e)

NewHalf(m, m2, s, H, nn, ip, c) ==
    /\ Vt(m2, N(nn, c, c)) = Vt(m, c)
    /\ Vt(m2, N(nn, c, In(s, c))) = ip
    /\ Vt(m2, N(nn, c, Col(s, c))) = Vt(m, Col(s, c))
    /\ \A d \in {c, In(s, c), Col(s, c)} : Rf(m2, N(nn, c, d)) = Rf(m, c)
    /\ Tg(m2, N(nn, c, c)) = Tg(m, c)
    /\ Tg(m2, N(nn, c, In(s, c))) = Tg(m, In(s, c))
    /\ Tg(m2, N(nn, c, Col(s, c))) = {}
    /\ Ad(m2, N(nn, c, In(s, c))) = Ad(m, In(s, c))
    /\ Ad(m2, N(nn, c, Col(s, c))) = In(s, c)
    /\ Ad(m, c) = NoAdja => Ad(m2, N(nn, c, c)) = NoAdja
    /\ Ad(m, c) # NoAdja => Ad(m2, N(nn, c, c)) = N(nn, Ad(m, c), Ad(m, c))

Splits(m, m2, s, H, nn, ip) ==
    /\ Cuttable(m, s, H, nn, ip)
    /\ m2 \in MeshSet /\ Lists(m2)
    /\ Live(m2.trs) = Live(m.trs) \union {nn[c] : c \in H}
    /\ Live(m2.pts) = Live(m.pts) \union {ip}
    /\ \A e \in Darts(m) : KeptHalf(m, m2, s, H, nn, ip, e)
    /\ \A c \in H : NewHalf(m, m2, s, H, nn, ip, c)
    /\ \A p \in Live(m.pts) : At(m2, p) = At(m, p) /\ Pt(m2, p) = Pt(m, p)
    /\ Pt(m2, ip) = Tg(m, s)

LEMMA CutParts ==
  ASSUME NEW m, Solid(m), NEW s, NEW H, NEW nn, NEW ip, Cuttable(m, s, H, nn, ip), NEW c \in H
  PROVE  /\ s \in Darts(m) /\ s \in H
         /\ c \in Darts(m) /\ In(s, c) \in Darts(m) /\ Col(s, c) \in Darts(m)
         /\ In(s, c)[1] = c[1] /\ Col(s, c)[1] = c[1]
         /\ c # In(s, c) /\ c # Col(s, c) /\ In(s, c) # Col(s, c)
         /\ \A d \in Darts(m) : d[1] = c[1] => d \in {c, In(s, c), Col(s, c)}
         /\ Ad(m, c) # NoAdja => Ad(m, c) \in H /\ Ad(m, c) # c
         /\ \A d \in H : d # c => Ad(m, c) = d /\ Ad(m, c) # NoAdja /\ d[1] # c[1]
         /\ Vt(m, c) \in Live(m.pts) /\ Vt(m, In(s, c)) \in Live(m.pts) /\ Vt(m, Col(s, c)) \in Live(m.pts)
<1>1. s \in Darts(m) /\ s \in H
  BY DEF Cuttable
<1>2. CASE H = {s} /\ Ad(m, s) = NoAdja
  <2>1. c = s
    BY <1>2
  <2>2. c \in Darts(m) /\ In(s, c) = Nx(c) /\ Col(s, c) = Pv(c)
    BY <1>1, <2>1 DEF In, Col
  <2>3. Vt(m, c) \in Live(m.pts) /\ Vt(m, Nx(c)) \in Live(m.pts) /\ Vt(m, Pv(c)) \in Live(m.pts)
    BY <2>2, DartsTurn, Corners
  <2> QED
    BY <1>1, <1>2, <2>1, <2>2, <2>3, DartsTurn
<1>3. CASE H = {s, Ad(m, s)} /\ Ad(m, s) # NoAdja
  <2> DEFINE a == Ad(m, s)
  <2>1. a \in Darts(m) /\ Ad(m, a) = s /\ a[1] # s[1] /\ s # NoAdja
    BY <1>1, <1>3, Twin
  <2>2. c \in Darts(m) /\ Ad(m, c) \in H /\ Ad(m, c) # c /\ \A d \in H : d # c => Ad(m, c) = d /\ d[1] # c[1] /\ d # NoAdja
    BY <1>1, <1>3, <2>1
  <2>3. \/ In(s, c) = Nx(c) /\ Col(s, c) = Pv(c)
        \/ In(s, c) = Pv(c) /\ Col(s, c) = Nx(c)
    BY DEF In, Col
  <2>4. Vt(m, c) \in Live(m.pts) /\ Vt(m, Nx(c)) \in Live(m.pts) /\ Vt(m, Pv(c)) \in Live(m.pts)
    BY <2>2, DartsTurn, Corners
  <2>5. /\ Nx(c) \in Darts(m) /\ Pv(c) \in Darts(m) /\ Nx(c)[1] = c[1] /\ Pv(c)[1] = c[1]
        /\ c # Nx(c) /\ c # Pv(c) /\ Nx(c) # Pv(c)
        /\ \A d \in Darts(m) : d[1] = c[1] => d \in {c, Nx(c), Pv(c)}
    BY <2>2, DartsTurn
  <2> HIDE DEF a
  <2> QED
    BY <1>1, <2>2, <2>3, <2>4, <2>5
<1> QED
  BY <1>2, <1>3 DEF Cuttable

(* A dart of a cut triangle belongs to one of them.                        *)
LEMMA CutOnce ==
  ASSUME NEW m, Solid(m), NEW s, NEW H, NEW nn, NEW ip, Cuttable(m, s, H, nn, ip),
         NEW c \in H, NEW d \in H
  PROVE  /\ c[1] = d[1] => c = d
         /\ Col(s, c) = Col(s, d) => c = d
         /\ In(s, c) = In(s, d) => c = d
         /\ Col(s, c) # In(s, d) /\ Col(s, c) # d /\ In(s, c) # d
         /\ Ad(m, Col(s, c)) # In(s, d) /\ Ad(m, In(s, c)) # In(s, d)
<1>1. /\ c \in Darts(m) /\ In(s, c) \in Darts(m) /\ Col(s, c) \in Darts(m)
      /\ In(s, c)[1] = c[1] /\ Col(s, c)[1] = c[1]
      /\ c # In(s, c) /\ c # Col(s, c) /\ In(s, c) # Col(s, c)
  BY CutParts
<1>2. /\ d \in Darts(m) /\ In(s, d) \in Darts(m) /\ Col(s, d) \in Darts(m)
      /\ In(s, d)[1] = d[1] /\ Col(s, d)[1] = d[1]
      /\ d # In(s, d) /\ d # Col(s, d) /\ In(s, d) # Col(s, d)
  BY CutParts
<1>3. c[1] = d[1] => c = d
  BY CutParts
<1>4. \A x \in Darts(m) : x # NoAdja
  BY Corners, MeshAssumption DEF DartSet, NoAdja
<1>5. ASSUME NEW x \in Darts(m), x[1] = c[1], x # c, Ad(m, x) = In(s, d) PROVE FALSE
  <2>1. Ad(m, x)[1] = d[1] /\ Ad(m, x) # NoAdja
    BY <1>2, <1>4, <1>5
  <2>2. Ad(m, x)[1] # x[1]
    BY <1>5, <2>1, Twin
  <2>3. d # c
    BY <1>5, <2>1, <2>2
  <2>4. Ad(m, c) = d /\ Ad(m, c) # NoAdja
    BY <2>3, CutParts
  <2>5. Ad(m, x)[1] # Ad(m, c)[1]
    BY <1>1, <1>5, <2>1, <2>4, NoMirror
  <2> QED
    BY <2>1, <2>4, <2>5
<1> QED
  BY <1>1, <1>2, <1>3, <1>5

(* The darts after the split: those of before and those of the new         *)
(* triangles.                                                              *)
LEMMA NewDarts ==
  ASSUME NEW m, Solid(m), NEW s, NEW H, NEW nn, NEW ip, NEW m2, Splits(m, m2, s, H, nn, ip),
         NEW c \in H
  PROVE  /\ \A d \in {c, In(s, c), Col(s, c)} :
               N(nn, c, d) \in Darts(m2) /\ N(nn, c, d) \notin Darts(m) /\ N(nn, c, d)[1] = nn[c]
         /\ N(nn, c, c) # N(nn, c, In(s, c)) /\ N(nn, c, c) # N(nn, c, Col(s, c))
         /\ N(nn, c, In(s, c)) # N(nn, c, Col(s, c))
         /\ \A d \in Darts(m) : Nx(N(nn, c, d)) = N(nn, c, Nx(d)) /\ Pv(N(nn, c, d)) = N(nn, c, Pv(d))
<1>1. /\ c \in Darts(m) /\ In(s, c) \in Darts(m) /\ Col(s, c) \in Darts(m)
      /\ In(s, c)[1] = c[1] /\ Col(s, c)[1] = c[1]
      /\ c # In(s, c) /\ c # Col(s, c) /\ In(s, c) # Col(s, c)
  BY CutParts DEF Splits
<1>2. \A d \in Darts(m) : d = <<d[1], d[2]>> /\ d[2] \in Local /\ d[1] \in Live(m.trs)
  BY DEF Darts
<1>3. nn[c] \in Live(m2.trs) /\ nn[c] \notin Live(m.trs)
  BY DEF Splits, Cuttable
<1>4. \A d \in Darts(m) : N(nn, c, d) \in Darts(m2) /\ N(nn, c, d) \notin Darts(m) /\ N(nn, c, d)[1] = nn[c]
                          /\ N(nn, c, d)[2] = d[2]
  BY <1>2, <1>3 DEF N, Darts
<1>5. c[2] # In(s, c)[2] /\ c[2] # Col(s, c)[2] /\ In(s, c)[2] # Col(s, c)[2]
  BY <1>1, <1>2
<1>6. \A d \in Darts(m) : Nx(N(nn, c, d)) = N(nn, c, Nx(d)) /\ Pv(N(nn, c, d)) = N(nn, c, Pv(d))
  BY DEF N, Nx, Pv
<1> QED
  BY <1>1, <1>4, <1>5, <1>6

LEMMA DartsAfter ==
  ASSUME NEW m, Solid(m), NEW s, NEW H, NEW nn, NEW ip, NEW m2, Splits(m, m2, s, H, nn, ip),
         NEW e \in Darts(m2), e \notin Darts(m)
  PROVE  \E c \in H : \E d \in {c, In(s, c), Col(s, c)} : e = N(nn, c, d)
<1>1. e[1] \notin Live(m.trs) /\ e[1] \in Live(m2.trs) /\ e[2] \in Local /\ e = <<e[1], e[2]>>
  BY DEF Darts
<1>2. PICK c \in H : e[1] = nn[c]
  BY <1>1 DEF Splits
<1> DEFINE d == <<c[1], e[2]>>
<1>3. c \in Darts(m) /\ \A x \in Darts(m) : x[1] = c[1] => x \in {c, In(s, c), Col(s, c)}
  BY CutParts DEF Splits
<1>4. d \in Darts(m) /\ d[1] = c[1] /\ d[2] = e[2]
  BY <1>1, <1>3 DEF Darts
<1>5. e = N(nn, c, d)
  BY <1>1, <1>2, <1>4 DEF N
<1> HIDE DEF d
<1>6. d \in {c, In(s, c), Col(s, c)}
  BY <1>3, <1>4
<1> QED
  BY <1>5, <1>6

LEMMA DartsStay ==
  ASSUME NEW m, NEW s, NEW H, NEW nn, NEW ip, NEW m2, Splits(m, m2, s, H, nn, ip)
  PROVE  Darts(m) \subseteq Darts(m2)
BY DEF Splits, Darts

(* The three points of a triangle may be taken in turn.                    *)
LEMMA TwiceTurns ==
  ASSUME NEW m \in MeshSet, OnLive(m), NEW e \in Darts(m)
  PROVE  Twice(m, Nx(e)) = Twice(m, e) /\ Twice(m, Pv(e)) = Twice(m, e)
<1>1. /\ Nx(e) \in Darts(m) /\ Pv(e) \in Darts(m)
      /\ Nx(Nx(e)) = Pv(e) /\ Pv(Nx(e)) = e /\ Nx(Pv(e)) = e /\ Pv(Pv(e)) = Nx(e)
  BY DartsTurn
<1>2. Vt(m, e) \in Live(m.pts) /\ Vt(m, Nx(e)) \in Live(m.pts) /\ Vt(m, Pv(e)) \in Live(m.pts)
  BY <1>1 DEF OnLive
<1> DEFINE P == At(m, Vt(m, e))
           Q == At(m, Vt(m, Nx(e)))
           R == At(m, Vt(m, Pv(e)))
<1>3. P \in Int \X Int /\ Q \in Int \X Int /\ R \in Int \X Int
  BY <1>2, MeshParts
<1>4. Twice(m, e) = Area(P, Q, R) /\ Twice(m, Nx(e)) = Area(Q, R, P) /\ Twice(m, Pv(e)) = Area(R, P, Q)
  BY <1>1 DEF Twice
<1> HIDE DEF P, Q, R
<1> QED
  BY <1>3, <1>4, AreaTurns

(* The darts of a triangle that is cut: which is next to which.            *)
LEMMA CutSides ==
  ASSUME NEW m, Solid(m), NEW s, NEW H, NEW nn, NEW ip, Cuttable(m, s, H, nn, ip), NEW c \in H
  PROVE  \/ /\ c = s /\ In(s, c) = Nx(c) /\ Col(s, c) = Pv(c)
            /\ Nx(In(s, c)) = Col(s, c) /\ Pv(In(s, c)) = c
            /\ Nx(Col(s, c)) = c /\ Pv(Col(s, c)) = In(s, c)
         \/ /\ c # s /\ In(s, c) = Pv(c) /\ Col(s, c) = Nx(c)
            /\ Nx(In(s, c)) = c /\ Pv(In(s, c)) = Col(s, c)
            /\ Nx(Col(s, c)) = In(s, c) /\ Pv(Col(s, c)) = c
<1>1. c \in Darts(m)
  BY CutParts
<1> QED
  BY <1>1, DartsTurn DEF In, Col

(* The vertices of the corners after the split.                            *)
LEMMA SplitVertex ==
  ASSUME NEW m, Solid(m), NEW s, NEW H, NEW nn, NEW ip, NEW m2, Splits(m, m2, s, H, nn, ip)
  PROVE  /\ \A c \in H : /\ Vt(m2, c) = Vt(m, c) /\ Vt(m2, In(s, c)) = Vt(m, In(s, c))
                         /\ Vt(m2, Col(s, c)) = ip
                         /\ Vt(m2, N(nn, c, c)) = Vt(m, c)
                         /\ Vt(m2, N(nn, c, In(s, c))) = ip
                         /\ Vt(m2, N(nn, c, Col(s, c))) = Vt(m, Col(s, c))
         /\ \A e \in Darts(m) : (\A c \in H : e # Col(s, c)) => Vt(m2, e) = Vt(m, e)
         /\ \A e \in Darts(m) : (\A c \in H : e # c /\ e # In(s, c)) =>
               Vt(m2, Nx(e)) = Vt(m, Nx(e)) /\ Vt(m2, Pv(e)) = Vt(m, Pv(e))
<1>0. Cuttable(m, s, H, nn, ip) /\ \A e \in Darts(m) : KeptHalf(m, m2, s, H, nn, ip, e)
  BY DEF Splits
<1>1. \A e \in Darts(m) : (\A c \in H : e # Col(s, c)) => Vt(m2, e) = Vt(m, e)
  BY <1>0 DEF KeptHalf
<1>2. ASSUME NEW c \in H
      PROVE  /\ Vt(m2, c) = Vt(m, c) /\ Vt(m2, In(s, c)) = Vt(m, In(s, c))
             /\ Vt(m2, Col(s, c)) = ip
  <2>1. c \in Darts(m) /\ In(s, c) \in Darts(m) /\ Col(s, c) \in Darts(m)
    BY <1>0, CutParts
  <2>2. \A d \in H : c # Col(s, d) /\ In(s, c) # Col(s, d)
    BY <1>0, CutOnce
  <2> QED
    BY <1>0, <1>1, <2>1, <2>2 DEF KeptHalf
<1>3. ASSUME NEW c \in H
      PROVE  /\ Vt(m2, N(nn, c, c)) = Vt(m, c)
             /\ Vt(m2, N(nn, c, In(s, c))) = ip
             /\ Vt(m2, N(nn, c, Col(s, c))) = Vt(m, Col(s, c))
  BY DEF Splits, NewHalf
<1>4. ASSUME NEW e \in Darts(m), \A c \in H : e # c /\ e # In(s, c), NEW c \in H
      PROVE  Nx(e) # Col(s, c) /\ Pv(e) # Col(s, c)
  <2>1. Pv(Nx(e)) = e /\ Nx(Pv(e)) = e
    BY DartsTurn
  <2> QED
    BY <1>0, <1>4, <2>1, CutSides
<1>5. \A e \in Darts(m) : Nx(e) \in Darts(m) /\ Pv(e) \in Darts(m)
  BY DartsTurn
<1> QED
  BY <1>1, <1>2, <1>3, <1>4, <1>5

LEMMA SplitOnLive ==
  ASSUME NEW m, Solid(m), NEW s, NEW H, NEW nn, NEW ip, NEW m2, Splits(m, m2, s, H, nn, ip)
  PROVE  OnLive(m2)
<1> SUFFICES ASSUME NEW e \in Darts(m2) PROVE Vt(m2, e) \in Live(m2.pts)
  BY DEF OnLive
<1>0. Cuttable(m, s, H, nn, ip) /\ Live(m2.pts) = Live(m.pts) \union {ip}
  BY DEF Splits
<1>1. CASE e \in Darts(m)
  <2>1. Vt(m, e) \in Live(m.pts)
    BY <1>1, Corners
  <2> QED
    BY <1>0, <1>1, <2>1, SplitVertex
<1>2. CASE e \notin Darts(m)
  <2>1. PICK c \in H : \E d \in {c, In(s, c), Col(s, c)} : e = N(nn, c, d)
    BY <1>2, DartsAfter
  <2>2. Vt(m, c) \in Live(m.pts) /\ Vt(m, Col(s, c)) \in Live(m.pts)
    BY <1>0, CutParts
  <2> QED
    BY <1>0, <2>1, <2>2, SplitVertex
<1> QED
  BY <1>1, <1>2

LEMMA SplitUsed ==
  ASSUME NEW m, Solid(m), Used(m), NEW s, NEW H, NEW nn, NEW ip, NEW m2, Splits(m, m2, s, H, nn, ip)
  PROVE  Used(m2)
<1> SUFFICES ASSUME NEW p \in Live(m2.pts) PROVE \E e \in Darts(m2) : Vt(m2, e) = p
  BY DEF Used
<1>0. Cuttable(m, s, H, nn, ip) /\ Live(m2.pts) = Live(m.pts) \union {ip}
  BY DEF Splits
<1>1. CASE p = ip
  <2>1. s \in H
    BY <1>0 DEF Cuttable
  <2>2. Col(s, s) \in Darts(m2)
    BY <1>0, <2>1, CutParts, DartsStay
  <2> QED
    BY <1>1, <2>1, <2>2, SplitVertex
<1>2. CASE p \in Live(m.pts)
  <2>1. PICK e \in Darts(m) : Vt(m, e) = p
    BY <1>2 DEF Used
  <2>2. CASE \E c \in H : e = Col(s, c)
    <3>1. PICK c \in H : e = Col(s, c)
      BY <2>2
    <3>2. N(nn, c, Col(s, c)) \in Darts(m2)
      BY NewDarts
    <3> QED
      BY <2>1, <3>1, <3>2, SplitVertex
  <2>3. CASE \A c \in H : e # Col(s, c)
    BY <2>1, <2>3, SplitVertex, DartsStay
  <2> QED
    BY <2>2, <2>3
<1> QED
  BY <1>0, <1>1, <1>2

(* The new triangles are not inverted.                                     *)
Halved(m, m2, s, H, ip) ==
    \A c \in H : \A d \in {In(s, c), Col(s, c)} :
        Area(At(m2, ip), At(m, Vt(m, Nx(d))), At(m, Vt(m, Pv(d)))) > 0

LEMMA SplitPositive ==
  ASSUME NEW m, Solid(m), NEW s, NEW H, NEW nn, NEW ip, NEW m2, Splits(m, m2, s, H, nn, ip),
         Halved(m, m2, s, H, ip)
  PROVE  Positive(m2)
<1>0. /\ Cuttable(m, s, H, nn, ip) /\ m2 \in MeshSet /\ OnLive(m2) /\ Positive(m)
      /\ \A p \in Live(m.pts) : At(m2, p) = At(m, p)
  BY SplitOnLive DEF Splits, Solid
<1>1. ASSUME NEW c \in H PROVE Twice(m2, Col(s, c)) > 0 /\ Twice(m2, N(nn, c, In(s, c))) > 0
  <2>1. /\ c \in Darts(m) /\ In(s, c) \in Darts(m) /\ Col(s, c) \in Darts(m)
        /\ Vt(m, c) \in Live(m.pts) /\ Vt(m, In(s, c)) \in Live(m.pts) /\ Vt(m, Col(s, c)) \in Live(m.pts)
    BY <1>0, CutParts
  <2> DEFINE a == In(s, c)
             b == Col(s, c)
  <2>2. \/ Nx(a) = b /\ Pv(a) = c /\ Nx(b) = c /\ Pv(b) = a
        \/ Nx(a) = c /\ Pv(a) = b /\ Nx(b) = a /\ Pv(b) = c
    BY <1>0, CutSides
  <2>3. /\ Vt(m2, c) = Vt(m, c) /\ Vt(m2, a) = Vt(m, a) /\ Vt(m2, b) = ip
        /\ Vt(m2, N(nn, c, c)) = Vt(m, c) /\ Vt(m2, N(nn, c, a)) = ip /\ Vt(m2, N(nn, c, b)) = Vt(m, b)
    BY SplitVertex
  <2>4. Nx(N(nn, c, a)) = N(nn, c, Nx(a)) /\ Pv(N(nn, c, a)) = N(nn, c, Pv(a))
    BY <2>1, NewDarts
  <2>5. /\ Area(At(m2, ip), At(m, Vt(m, Nx(a))), At(m, Vt(m, Pv(a)))) > 0
        /\ Area(At(m2, ip), At(m, Vt(m, Nx(b))), At(m, Vt(m, Pv(b)))) > 0
    BY DEF Halved
  <2>6. At(m2, Vt(m, c)) = At(m, Vt(m, c)) /\ At(m2, Vt(m, a)) = At(m, Vt(m, a)) /\ At(m2, Vt(m, b)) = At(m, Vt(m, b))
    BY <1>0, <2>1
  <2> HIDE DEF a, b
  <2>7. Twice(m2, b) > 0 /\ Twice(m2, N(nn, c, a)) > 0
    BY <2>2, <2>3, <2>4, <2>5, <2>6 DEF Twice
  <2> QED
    BY <2>7 DEF a, b
<1> SUFFICES ASSUME NEW e \in Darts(m2) PROVE Twice(m2, e) > 0
  BY DEF Positive
<1>2. \A f \in Darts(m2) : f[1] = e[1] => Twice(m2, f) = Twice(m2, e)
  <2>1. SUFFICES ASSUME NEW f \in Darts(m2), f[1] = e[1] PROVE Twice(m2, f) = Twice(m2, e)
    OBVIOUS
  <2>2. f \in {e, Nx(e), Pv(e)}
    BY <2>1, DartsTurn
  <2> QED
    BY <1>0, <2>2, TwiceTurns
<1>3. CASE \E c \in H : e[1] = c[1]
  <2>1. PICK c \in H : e[1] = c[1]
    BY <1>3
  <2>2. Col(s, c) \in Darts(m2) /\ Col(s, c)[1] = c[1]
    BY <1>0, CutParts, DartsStay
  <2> QED
    BY <1>1, <1>2, <2>1, <2>2
<1>4. CASE e \notin Darts(m)
  <2>1. PICK c \in H : \E d \in {c, In(s, c), Col(s, c)} : e = N(nn, c, d)
    BY <1>4, DartsAfter
  <2>2. N(nn, c, In(s, c)) \in Darts(m2) /\ N(nn, c, In(s, c))[1] = e[1]
    BY <2>1, NewDarts
  <2> QED
    BY <1>1, <1>2, <2>2
<1>5. CASE e \in Darts(m) /\ \A c \in H : e[1] # c[1]
  <2>1. /\ Nx(e) \in Darts(m) /\ Pv(e) \in Darts(m) /\ Nx(e)[1] = e[1] /\ Pv(e)[1] = e[1]
    BY <1>5, DartsTurn
  <2>2. \A c \in H : Col(s, c)[1] = c[1]
    BY <1>0, CutParts
  <2>3. Vt(m2, e) = Vt(m, e) /\ Vt(m2, Nx(e)) = Vt(m, Nx(e)) /\ Vt(m2, Pv(e)) = Vt(m, Pv(e))
    BY <1>5, <2>1, <2>2, SplitVertex
  <2>4. Vt(m, e) \in Live(m.pts) /\ Vt(m, Nx(e)) \in Live(m.pts) /\ Vt(m, Pv(e)) \in Live(m.pts)
    BY <1>5, <2>1, Corners
  <2>5. Twice(m2, e) = Twice(m, e)
    BY <1>0, <2>3, <2>4 DEF Twice
  <2> QED
    BY <1>0, <1>5, <2>5 DEF Positive
<1> QED
  BY <1>3, <1>4, <1>5

(* Two darts of an edge.                                                   *)
Mated(m, e, u) ==
    /\ e \in Darts(m) /\ u \in Darts(m) /\ Ad(m, e) = u /\ Ad(m, u) = e
    /\ Vt(m, Nx(u)) = Vt(m, Pv(e)) /\ Vt(m, Pv(u)) = Vt(m, Nx(e))

(* The new edges inside the triangles that are cut.                        *)
LEMMA SplitInside ==
  ASSUME NEW m, Solid(m), NEW s, NEW H, NEW nn, NEW ip, NEW m2, Splits(m, m2, s, H, nn, ip),
         NEW c \in H
  PROVE  /\ Mated(m2, In(s, c), N(nn, c, Col(s, c)))
         /\ Tg(m2, In(s, c)) = {} /\ Tg(m2, N(nn, c, Col(s, c))) = {}
         /\ Rf(m2, In(s, c)) = Rf(m2, N(nn, c, Col(s, c)))
<1>0. Cuttable(m, s, H, nn, ip) /\ KeptHalf(m, m2, s, H, nn, ip, In(s, c)) /\ NewHalf(m, m2, s, H, nn, ip, c)
  BY CutParts DEF Splits
<1>1. /\ c \in Darts(m) /\ In(s, c) \in Darts(m) /\ Col(s, c) \in Darts(m) /\ In(s, c)[1] = c[1]
  BY <1>0, CutParts
<1>2. /\ Tg(m2, In(s, c)) = {} /\ Ad(m2, In(s, c)) = N(nn, c, Col(s, c)) /\ Rf(m2, In(s, c)) = Rf(m, In(s, c))
  BY <1>0 DEF KeptHalf
<1>3. /\ Tg(m2, N(nn, c, Col(s, c))) = {} /\ Ad(m2, N(nn, c, Col(s, c))) = In(s, c)
      /\ Rf(m2, N(nn, c, Col(s, c))) = Rf(m, c)
  BY <1>0 DEF NewHalf
<1>4. Rf(m, In(s, c)) = Rf(m, c)
  BY <1>1 DEF Rf
<1>5. /\ In(s, c) \in Darts(m2) /\ N(nn, c, Col(s, c)) \in Darts(m2)
      /\ Nx(N(nn, c, Col(s, c))) = N(nn, c, Nx(Col(s, c)))
      /\ Pv(N(nn, c, Col(s, c))) = N(nn, c, Pv(Col(s, c)))
  BY <1>1, NewDarts, DartsStay
<1>6. /\ Vt(m2, Nx(N(nn, c, Col(s, c)))) = Vt(m2, Pv(In(s, c)))
      /\ Vt(m2, Pv(N(nn, c, Col(s, c)))) = Vt(m2, Nx(In(s, c)))
  BY <1>0, <1>5, CutSides, SplitVertex
<1> QED
  BY <1>2, <1>3, <1>4, <1>5, <1>6 DEF Mated

(* The edge that goes from the triangle that is cut to the new one.        *)
LEMMA SplitBeyond ==
  ASSUME NEW m, Solid(m), NEW s, NEW H, NEW nn, NEW ip, NEW m2, Splits(m, m2, s, H, nn, ip),
         NEW c \in H, NEW u, u = Ad(m, In(s, c)), u # NoAdja
  PROVE  /\ Mated(m2, u, N(nn, c, In(s, c)))
         /\ u \in Darts(m) /\ \A d \in H : u # d /\ u # In(s, d) /\ u # Col(s, d)
         /\ \A d \in H : Nx(u) # Col(s, d) /\ Pv(u) # Col(s, d)
<1>0. Cuttable(m, s, H, nn, ip) /\ NewHalf(m, m2, s, H, nn, ip, c) /\ s \in H
  BY DEF Splits, Cuttable
<1>1. /\ c \in Darts(m) /\ In(s, c) \in Darts(m) /\ Col(s, c) \in Darts(m)
  BY <1>0, CutParts
<1>2. /\ u \in Darts(m) /\ Ad(m, u) = In(s, c)
      /\ Vt(m, Nx(u)) = Vt(m, Pv(In(s, c))) /\ Vt(m, Pv(u)) = Vt(m, Nx(In(s, c)))
  BY <1>1, Twin
<1>3. ASSUME NEW d \in H PROVE u # d /\ u # In(s, d) /\ u # Col(s, d)
  <2>1. Ad(m, d) # In(s, c)
    <3>1. In(s, c) # NoAdja
      BY <1>1, Corners, MeshAssumption DEF DartSet, NoAdja
    <3> QED
      BY <1>0, <3>1, CutParts, CutOnce
  <2>2. u # In(s, d) /\ Ad(m, Col(s, d)) # In(s, c)
    BY <1>0, CutOnce
  <2> QED
    BY <1>2, <2>1, <2>2
<1>4. KeptHalf(m, m2, s, H, nn, ip, u)
  BY <1>2 DEF Splits
<1>5. Ad(m2, u) = N(nn, c, In(s, c)) /\ Ad(m2, N(nn, c, In(s, c))) = u
  BY <1>0, <1>2, <1>4 DEF KeptHalf, NewHalf
<1>6. /\ u \in Darts(m2) /\ N(nn, c, In(s, c)) \in Darts(m2)
      /\ Nx(N(nn, c, In(s, c))) = N(nn, c, Nx(In(s, c)))
      /\ Pv(N(nn, c, In(s, c))) = N(nn, c, Pv(In(s, c)))
  BY <1>1, <1>2, NewDarts, DartsStay
<1>7. Vt(m2, Nx(u)) = Vt(m, Nx(u)) /\ Vt(m2, Pv(u)) = Vt(m, Pv(u))
  BY <1>2, <1>3, SplitVertex
<1>8. /\ Vt(m2, Nx(u)) = Vt(m2, Pv(N(nn, c, In(s, c))))
      /\ Vt(m2, Pv(u)) = Vt(m2, Nx(N(nn, c, In(s, c))))
  BY <1>0, <1>2, <1>6, <1>7, CutSides, SplitVertex
<1>9. ASSUME NEW d \in H PROVE Nx(u) # Col(s, d) /\ Pv(u) # Col(s, d)
  <2>1. Pv(Nx(u)) = u /\ Nx(Pv(u)) = u
    BY <1>2, DartsTurn
  <2> QED
    BY <1>0, <1>3, <2>1, CutSides
<1> QED
  BY <1>2, <1>3, <1>5, <1>6, <1>8, <1>9 DEF Mated

(* The two halves of the edge that is cut.                                 *)
LEMMA SplitAlong ==
  ASSUME NEW m, Solid(m), NEW s, NEW H, NEW nn, NEW ip, NEW m2, Splits(m, m2, s, H, nn, ip),
         NEW c \in H, NEW d, d = Ad(m, c)
  PROVE  /\ Ad(m2, c) = d
         /\ d = NoAdja => Ad(m2, N(nn, c, c)) = NoAdja
         /\ d # NoAdja => /\ d \in H /\ d # c
                          /\ Mated(m2, c, d) /\ Mated(m2, N(nn, c, c), N(nn, d, d))
<1>0. Cuttable(m, s, H, nn, ip) /\ NewHalf(m, m2, s, H, nn, ip, c)
  BY DEF Splits
<1>1. /\ c \in Darts(m) /\ In(s, c) \in Darts(m) /\ Col(s, c) \in Darts(m) /\ c # NoAdja
  BY <1>0, CutParts, Corners, MeshAssumption DEF DartSet, NoAdja
<1>2. d # NoAdja => d \in H /\ d # c /\ Ad(m, d) = c /\ d \in Darts(m)
  BY <1>0, <1>1, CutParts, Twin
<1>3. \A x \in H : c # In(s, x) /\ d # In(s, x)
  <2>1. \A x \in H : c # In(s, x) /\ In(s, x) \in Darts(m)
    BY <1>0, CutOnce, CutParts
  <2>2. \A x \in H : NoAdja # In(s, x)
    BY <2>1, Corners, MeshAssumption DEF DartSet, NoAdja
  <2>3. \A x \in H : d \in H => d # In(s, x)
    BY <1>0, CutOnce
  <2> QED
    BY <1>2, <2>1, <2>2, <2>3
<1>4. Ad(m2, c) = d
  <2>1. KeptHalf(m, m2, s, H, nn, ip, c)
    BY <1>1 DEF Splits
  <2> QED
    BY <1>3, <2>1 DEF KeptHalf
<1>5. d = NoAdja => Ad(m2, N(nn, c, c)) = NoAdja
  BY <1>0 DEF NewHalf
<1>6. ASSUME d # NoAdja PROVE Mated(m2, c, d) /\ Mated(m2, N(nn, c, c), N(nn, d, d))
  <2>1. d \in H /\ d # c /\ Ad(m, d) = c /\ d \in Darts(m)
    BY <1>2, <1>6
  <2>2. Ad(m2, d) = c
    <3>1. KeptHalf(m, m2, s, H, nn, ip, d)
      BY <2>1 DEF Splits
    <3>2. \A x \in H : d # In(s, x) /\ Ad(m, d) # In(s, x)
      BY <1>3, <2>1
    <3> QED
      BY <2>1, <3>1, <3>2 DEF KeptHalf
  <2>3. Ad(m2, N(nn, c, c)) = N(nn, d, d)
    BY <1>0, <1>6 DEF NewHalf
  <2>4. Ad(m2, N(nn, d, d)) = N(nn, c, c)
    <3>1. NewHalf(m, m2, s, H, nn, ip, d)
      BY <2>1 DEF Splits
    <3> QED
      BY <1>1, <2>1, <3>1 DEF NewHalf
  <2>5. Vt(m, Nx(d)) = Vt(m, Pv(c)) /\ Vt(m, Pv(d)) = Vt(m, Nx(c))
    BY <1>1, <1>6, Twin
  <2>6. c \in Darts(m2) /\ d \in Darts(m2) /\ N(nn, c, c) \in Darts(m2) /\ N(nn, d, d) \in Darts(m2)
    BY <1>1, <2>1, NewDarts, DartsStay
  <2>7. /\ Nx(N(nn, c, c)) = N(nn, c, Nx(c)) /\ Pv(N(nn, c, c)) = N(nn, c, Pv(c))
        /\ Nx(N(nn, d, d)) = N(nn, d, Nx(d)) /\ Pv(N(nn, d, d)) = N(nn, d, Pv(d))
    BY <1>1, <2>1, NewDarts
  <2>8. \/ c = s /\ In(s, c) = Nx(c) /\ Col(s, c) = Pv(c) /\ d # s /\ In(s, d) = Pv(d) /\ Col(s, d) = Nx(d)
        \/ d = s /\ In(s, d) = Nx(d) /\ Col(s, d) = Pv(d) /\ c # s /\ In(s, c) = Pv(c) /\ Col(s, c) = Nx(c)
    <3>1. s \in {c, d}
      BY <1>0, <1>2, <1>6 DEF Cuttable
    <3> QED
      BY <2>1, <3>1 DEF In, Col
  <2>9. \A x \in {c, d} : /\ Vt(m2, In(s, x)) = Vt(m, In(s, x)) /\ Vt(m2, Col(s, x)) = ip
                          /\ Vt(m2, N(nn, x, In(s, x))) = ip
                          /\ Vt(m2, N(nn, x, Col(s, x))) = Vt(m, Col(s, x))
    BY <2>1, SplitVertex
  <2>10. /\ Vt(m2, Nx(d)) = Vt(m2, Pv(c)) /\ Vt(m2, Pv(d)) = Vt(m2, Nx(c))
    BY <2>5, <2>8, <2>9
  <2>11. /\ Vt(m2, Nx(N(nn, d, d))) = Vt(m2, Pv(N(nn, c, c)))
         /\ Vt(m2, Pv(N(nn, d, d))) = Vt(m2, Nx(N(nn, c, c)))
    BY <2>5, <2>7, <2>8, <2>9
  <2> QED
    BY <1>4, <2>2, <2>3, <2>4, <2>6, <2>10, <2>11 DEF Mated
<1> QED
  BY <1>2, <1>4, <1>5, <1>6

(* The other edges stay as they are.                                       *)
LEMMA SplitAside ==
  ASSUME NEW m, Solid(m), NEW s, NEW H, NEW nn, NEW ip, NEW m2, Splits(m, m2, s, H, nn, ip),
         NEW e \in Darts(m), \A c \in H : e # c /\ e # In(s, c) /\ Ad(m, e) # In(s, c)
  PROVE  /\ Ad(m2, e) = Ad(m, e)
         /\ Ad(m, e) # NoAdja => /\ Mated(m2, e, Ad(m, e))
                                 /\ \A c \in H : Ad(m, e) # c /\ Ad(m, e) # In(s, c)
<1>0. Cuttable(m, s, H, nn, ip) /\ KeptHalf(m, m2, s, H, nn, ip, e)
  BY DEF Splits
<1>1. Ad(m2, e) = Ad(m, e)
  BY <1>0 DEF KeptHalf
<1>2. ASSUME NEW u, u = Ad(m, e), u # NoAdja
      PROVE  Mated(m2, e, u) /\ \A c \in H : u # c /\ u # In(s, c)
  <2>1. u \in Darts(m) /\ Ad(m, u) = e /\ e # NoAdja /\ Vt(m, Nx(u)) = Vt(m, Pv(e)) /\ Vt(m, Pv(u)) = Vt(m, Nx(e))
    BY <1>2, Twin
  <2>2. \A c \in H : u # c /\ u # In(s, c)
    BY <1>0, <1>2, <2>1, CutParts
  <2>3. Ad(m2, u) = e
    <3>1. KeptHalf(m, m2, s, H, nn, ip, u)
      BY <2>1 DEF Splits
    <3> QED
      BY <2>1, <2>2, <3>1 DEF KeptHalf
  <2>4. Vt(m2, Nx(u)) = Vt(m2, Pv(e)) /\ Vt(m2, Pv(u)) = Vt(m2, Nx(e))
    BY <2>1, <2>2, SplitVertex
  <2> QED
    BY <1>1, <1>2, <2>1, <2>2, <2>3, <2>4, DartsStay DEF Mated
<1> QED
  BY <1>1, <1>2

LEMMA MatedTurns ==
  ASSUME NEW m, NEW e, NEW u, Mated(m, e, u)
  PROVE  Mated(m, u, e)
BY DEF Mated

LEMMA SplitJoined ==
  ASSUME NEW m, Solid(m), NEW s, NEW H, NEW nn, NEW ip, NEW m2, Splits(m, m2, s, H, nn, ip)
  PROVE  Joined(m2)
<1> SUFFICES ASSUME NEW e \in Darts(m2), Ad(m2, e) # NoAdja PROVE \E u : Mated(m2, e, u)
  BY DEF Joined, Mated
<1>0. Cuttable(m, s, H, nn, ip)
  BY DEF Splits
<1>1. CASE \E c \in H : e = In(s, c) \/ e = N(nn, c, Col(s, c))
  BY <1>1, SplitInside, MatedTurns
<1>2. ASSUME NEW c \in H, e = N(nn, c, In(s, c)) PROVE \E u : Mated(m2, e, u)
  <2>1. Ad(m, In(s, c)) = Ad(m2, e)
    BY <1>2 DEF Splits, NewHalf
  <2> QED
    BY <1>2, <2>1, SplitBeyond, MatedTurns
<1>3. ASSUME NEW c \in H, e = N(nn, c, c) \/ e = c PROVE \E u : Mated(m2, e, u)
  <2>1. Ad(m, c) # NoAdja
    BY <1>3, SplitAlong
  <2> QED
    BY <1>3, <2>1, SplitAlong
<1>4. CASE e \in Darts(m) /\ \E c \in H : Ad(m, e) = In(s, c)
  <2>1. PICK c \in H : Ad(m, e) = In(s, c)
    BY <1>4
  <2>2. In(s, c) \in Darts(m)
    BY <1>0, CutParts
  <2>3. In(s, c) # NoAdja
    BY <2>2, Corners, MeshAssumption DEF DartSet, NoAdja
  <2>4. Ad(m, In(s, c)) = e /\ e # NoAdja
    BY <1>4, <2>1, <2>3, Twin
  <2> QED
    BY <2>4, SplitBeyond
<1>5. CASE e \in Darts(m) /\ \A c \in H : e # c /\ e # In(s, c) /\ Ad(m, e) # In(s, c)
  BY <1>5, SplitAside
<1>6. CASE e \notin Darts(m)
  BY <1>1, <1>2, <1>3, <1>6, DartsAfter
<1> QED
  BY <1>1, <1>3, <1>4, <1>5, <1>6

(* The tags and the references of the edges after the split.               *)
LEMMA SplitTags ==
  ASSUME NEW m, Solid(m), NEW s, NEW H, NEW nn, NEW ip, NEW m2, Splits(m, m2, s, H, nn, ip)
  PROVE  /\ \A e \in Darts(m) : Rf(m2, e) = Rf(m, e) /\ ((\A c \in H : e # In(s, c)) => Tg(m2, e) = Tg(m, e))
         /\ \A c \in H : /\ Tg(m2, c) = Tg(m, c)
                         /\ Tg(m2, N(nn, c, c)) = Tg(m, c) /\ Rf(m2, N(nn, c, c)) = Rf(m, c)
                         /\ Tg(m2, N(nn, c, In(s, c))) = Tg(m, In(s, c))
                         /\ Rf(m2, N(nn, c, In(s, c))) = Rf(m, In(s, c))
<1>0. Cuttable(m, s, H, nn, ip)
  BY DEF Splits
<1>1. ASSUME NEW e \in Darts(m)
      PROVE  Rf(m2, e) = Rf(m, e) /\ ((\A c \in H : e # In(s, c)) => Tg(m2, e) = Tg(m, e))
  <2>1. KeptHalf(m, m2, s, H, nn, ip, e)
    BY DEF Splits
  <2> QED
    BY <2>1 DEF KeptHalf
<1>2. ASSUME NEW c \in H
      PROVE  /\ Tg(m2, c) = Tg(m, c)
             /\ Tg(m2, N(nn, c, c)) = Tg(m, c) /\ Rf(m2, N(nn, c, c)) = Rf(m, c)
             /\ Tg(m2, N(nn, c, In(s, c))) = Tg(m, In(s, c))
             /\ Rf(m2, N(nn, c, In(s, c))) = Rf(m, In(s, c))
  <2>1. c \in Darts(m) /\ In(s, c)[1] = c[1] /\ \A d \in H : c # In(s, d)
    BY <1>0, CutParts, CutOnce
  <2>2. NewHalf(m, m2, s, H, nn, ip, c)
    BY DEF Splits
  <2>3. Rf(m, In(s, c)) = Rf(m, c)
    BY <2>1 DEF Rf
  <2> QED
    BY <1>1, <2>1, <2>2, <2>3 DEF NewHalf
<1> QED
  BY <1>1, <1>2

(* An edge after the split carries what an edge of before carries, the     *)
(* half of an edge what the whole of it did.                               *)
Carries(m, m2, e, g, H, ip) ==
    /\ g \in Darts(m)
    /\ Tg(m2, e) = Tg(m, g)
    /\ KindOf(m2, e) = KindOf(m, g)
    /\ Ad(m2, e) # NoAdja => Ad(m, g) # NoAdja /\ Tg(m2, Ad(m2, e)) = Tg(m, Ad(m, g))
    /\ \A x \in {Vt(m2, Nx(e)), Vt(m2, Pv(e))} :
          \/ x = ip /\ g \in H
          \/ x \in {Vt(m, Nx(g)), Vt(m, Pv(g))}

LEMMA CarriesHalf ==
  ASSUME NEW m, Solid(m), NEW s, NEW H, NEW nn, NEW ip, NEW m2, Splits(m, m2, s, H, nn, ip),
         NEW c \in H, NEW e, e = c \/ e = N(nn, c, c)
  PROVE  Carries(m, m2, e, c, H, ip)
<1>0. Cuttable(m, s, H, nn, ip)
  BY DEF Splits
<1>1. c \in Darts(m)
  BY <1>0, CutParts
<1>2. Tg(m2, e) = Tg(m, c) /\ Rf(m2, e) = Rf(m, c)
  BY <1>1, SplitTags
<1>3. Ad(m, c) = NoAdja => Ad(m2, e) = NoAdja
  BY SplitAlong
<1>4. Ad(m, c) # NoAdja => /\ Ad(m2, e) # NoAdja
                           /\ Tg(m2, Ad(m2, e)) = Tg(m, Ad(m, c)) /\ Rf(m2, Ad(m2, e)) = Rf(m, Ad(m, c))
  <2> SUFFICES ASSUME NEW d, d = Ad(m, c), d # NoAdja
               PROVE  /\ Ad(m2, e) # NoAdja
                      /\ Tg(m2, Ad(m2, e)) = Tg(m, d) /\ Rf(m2, Ad(m2, e)) = Rf(m, d)
    OBVIOUS
  <2>1. d \in H /\ d \in Darts(m) /\ Mated(m2, c, d) /\ Mated(m2, N(nn, c, c), N(nn, d, d))
    BY <1>1, SplitAlong, Twin
  <2>2. Ad(m2, e) = d \/ Ad(m2, e) = N(nn, d, d)
    BY <2>1 DEF Mated
  <2>3. N(nn, d, d) # NoAdja /\ d # NoAdja
    <3>1. N(nn, d, d)[1] \in 1..NTMax
      BY <1>0, <2>1 DEF Cuttable, N
    <3> QED
      BY <2>1, <3>1, MeshAssumption DEF NoAdja
  <2> QED
    BY <2>1, <2>2, <2>3, SplitTags
<1>5. KindOf(m2, e) = KindOf(m, c)
  BY <1>2, <1>3, <1>4 DEF KindOf
<1>6. /\ Nx(N(nn, c, c)) = N(nn, c, Nx(c)) /\ Pv(N(nn, c, c)) = N(nn, c, Pv(c))
  BY <1>1, NewDarts
<1>7. /\ {Nx(c), Pv(c)} = {In(s, c), Col(s, c)}
  BY <1>0, CutSides
<1>8. \A x \in {Vt(m2, Nx(e)), Vt(m2, Pv(e))} : x = ip \/ x \in {Vt(m, In(s, c)), Vt(m, Col(s, c))}
  <2>1. /\ Vt(m2, In(s, c)) = Vt(m, In(s, c)) /\ Vt(m2, Col(s, c)) = ip
        /\ Vt(m2, N(nn, c, In(s, c))) = ip /\ Vt(m2, N(nn, c, Col(s, c))) = Vt(m, Col(s, c))
    BY SplitVertex
  <2> QED
    BY <1>6, <1>7, <2>1
<1>9. \A x \in {Vt(m2, Nx(e)), Vt(m2, Pv(e))} : x = ip \/ x \in {Vt(m, Nx(c)), Vt(m, Pv(c))}
  BY <1>7, <1>8
<1> QED
  BY <1>1, <1>2, <1>3, <1>4, <1>5, <1>9 DEF Carries

LEMMA CarriesIn ==
  ASSUME NEW m, Solid(m), NEW s, NEW H, NEW nn, NEW ip, NEW m2, Splits(m, m2, s, H, nn, ip),
         NEW c \in H, NEW e, e = N(nn, c, In(s, c))
  PROVE  Carries(m, m2, e, In(s, c), H, ip)
<1>0. Cuttable(m, s, H, nn, ip)
  BY DEF Splits
<1>1. c \in Darts(m) /\ In(s, c) \in Darts(m)
  BY <1>0, CutParts
<1>2. Tg(m2, e) = Tg(m, In(s, c)) /\ Rf(m2, e) = Rf(m, In(s, c))
  BY SplitTags
<1>3. Ad(m2, e) = Ad(m, In(s, c))
  BY DEF Splits, NewHalf
<1>4. ASSUME NEW u, u = Ad(m, In(s, c)), u # NoAdja PROVE Tg(m2, u) = Tg(m, u) /\ Rf(m2, u) = Rf(m, u)
  BY <1>4, SplitBeyond, SplitTags
<1>5. KindOf(m2, e) = KindOf(m, In(s, c))
  BY <1>2, <1>3, <1>4 DEF KindOf
<1>6. /\ Nx(e) = N(nn, c, Nx(In(s, c))) /\ Pv(e) = N(nn, c, Pv(In(s, c)))
  BY <1>1, NewDarts
<1>7. Vt(m2, Nx(e)) = Vt(m, Nx(In(s, c))) /\ Vt(m2, Pv(e)) = Vt(m, Pv(In(s, c)))
  BY <1>0, <1>6, CutSides, SplitVertex
<1> QED
  BY <1>1, <1>2, <1>3, <1>4, <1>5, <1>7 DEF Carries

LEMMA CarriesAside ==
  ASSUME NEW m, Solid(m), NEW s, NEW H, NEW nn, NEW ip, NEW m2, Splits(m, m2, s, H, nn, ip),
         NEW e \in Darts(m), \A c \in H : e # c /\ e # In(s, c)
  PROVE  Carries(m, m2, e, e, H, ip)
<1>0. Cuttable(m, s, H, nn, ip)
  BY DEF Splits
<1>1. Tg(m2, e) = Tg(m, e) /\ Rf(m2, e) = Rf(m, e)
  BY SplitTags
<1>2. Vt(m2, Nx(e)) = Vt(m, Nx(e)) /\ Vt(m2, Pv(e)) = Vt(m, Pv(e))
  BY SplitVertex
<1>3. CASE \E c \in H : Ad(m, e) = In(s, c)
  <2>1. PICK c \in H : Ad(m, e) = In(s, c)
    BY <1>3
  <2>2. In(s, c) \in Darts(m) /\ In(s, c) # NoAdja
    BY <1>0, CutParts, Corners, MeshAssumption DEF DartSet, NoAdja
  <2>3. Ad(m, In(s, c)) = e /\ e # NoAdja
    BY <2>1, <2>2, Twin
  <2>4. Ad(m2, e) = N(nn, c, In(s, c))
    BY <2>3, SplitBeyond DEF Mated
  <2>5. Tg(m2, Ad(m2, e)) = Tg(m, Ad(m, e)) /\ Rf(m2, Ad(m2, e)) = Rf(m, Ad(m, e))
    BY <2>1, <2>4, SplitTags
  <2>6. Ad(m2, e) # NoAdja
    <3>1. N(nn, c, In(s, c)) \in Darts(m2) /\ N(nn, c, In(s, c))[1] = nn[c] /\ nn[c] \in 1..NTMax
      BY <1>0, NewDarts DEF Cuttable
    <3> QED
      BY <2>4, <3>1, MeshAssumption DEF NoAdja
  <2>7. KindOf(m2, e) = KindOf(m, e)
    BY <1>1, <2>1, <2>2, <2>5, <2>6 DEF KindOf
  <2> QED
    BY <1>1, <1>2, <2>1, <2>2, <2>5, <2>7 DEF Carries
<1>4. CASE \A c \in H : Ad(m, e) # In(s, c)
  <2>1. Ad(m2, e) = Ad(m, e)
    BY <1>4, SplitAside
  <2>2. ASSUME NEW u, u = Ad(m, e), u # NoAdja PROVE Tg(m2, u) = Tg(m, u) /\ Rf(m2, u) = Rf(m, u)
    <3>1. u \in Darts(m)
      BY <2>2, Twin
    <3> QED
      BY <1>4, <2>2, <3>1, SplitTags
  <2>3. KindOf(m2, e) = KindOf(m, e)
    BY <1>1, <2>1, <2>2 DEF KindOf
  <2> QED
    BY <1>1, <1>2, <2>1, <2>2, <2>3 DEF Carries
<1> QED
  BY <1>3, <1>4

LEMMA SplitTagged ==
  ASSUME NEW m, Solid(m), Tagged(m), NEW s, NEW H, NEW nn, NEW ip, NEW m2, Splits(m, m2, s, H, nn, ip)
  PROVE  Tagged(m2)
<1>0. Cuttable(m, s, H, nn, ip)
  BY DEF Splits
<1>1. ASSUME NEW e \in Darts(m2), NEW g, Carries(m, m2, e, g, H, ip)
      PROVE  /\ Ad(m2, e) # NoAdja => Tg(m2, Ad(m2, e)) = Tg(m2, e)
             /\ Tg(m2, e) \ {"req"} = KindOf(m2, e)
             /\ Tg(m2, e) \subseteq Pt(m2, Vt(m2, Nx(e)))
             /\ Tg(m2, e) \subseteq Pt(m2, Vt(m2, Pv(e)))
  <2>1. /\ g \in Darts(m) /\ Tg(m2, e) = Tg(m, g) /\ KindOf(m2, e) = KindOf(m, g)
        /\ Ad(m2, e) # NoAdja => Ad(m, g) # NoAdja /\ Tg(m2, Ad(m2, e)) = Tg(m, Ad(m, g))
    BY <1>1 DEF Carries
  <2>2. /\ Ad(m, g) # NoAdja => Tg(m, Ad(m, g)) = Tg(m, g)
        /\ Tg(m, g) \ {"req"} = KindOf(m, g)
        /\ Tg(m, g) \subseteq Pt(m, Vt(m, Nx(g)))
        /\ Tg(m, g) \subseteq Pt(m, Vt(m, Pv(g)))
    BY <2>1 DEF Tagged
  <2>3. ASSUME g \in H PROVE Tg(m, g) = Tg(m, s)
    <3>1. g = s \/ (g = Ad(m, s) /\ Ad(m, s) # NoAdja)
      BY <1>0, <2>3 DEF Cuttable
    <3> QED
      BY <1>0, <3>1 DEF Tagged, Cuttable
  <2>4. ASSUME NEW x \in {Vt(m2, Nx(e)), Vt(m2, Pv(e))} PROVE Tg(m, g) \subseteq Pt(m2, x)
    <3>1. CASE x = ip /\ g \in H
      BY <2>3, <3>1 DEF Splits
    <3>2. CASE x \in {Vt(m, Nx(g)), Vt(m, Pv(g))}
      <4>1. Nx(g) \in Darts(m) /\ Pv(g) \in Darts(m)
        BY <2>1, DartsTurn
      <4>2. x \in Live(m.pts)
        BY <3>2, <4>1, Corners
      <4>3. Pt(m2, x) = Pt(m, x)
        BY <4>2 DEF Splits
      <4> QED
        BY <2>2, <3>2, <4>3
    <3> QED
      BY <1>1, <2>4, <3>1, <3>2 DEF Carries
  <2> QED
    BY <2>1, <2>2, <2>4
<1> SUFFICES ASSUME NEW e \in Darts(m2)
             PROVE  /\ Ad(m2, e) # NoAdja => Tg(m2, Ad(m2, e)) = Tg(m2, e)
                    /\ Tg(m2, e) \ {"req"} = KindOf(m2, e)
                    /\ Tg(m2, e) \subseteq Pt(m2, Vt(m2, Nx(e)))
                    /\ Tg(m2, e) \subseteq Pt(m2, Vt(m2, Pv(e)))
  BY DEF Tagged
<1>2. ASSUME NEW c \in H, e = In(s, c) \/ e = N(nn, c, Col(s, c))
      PROVE  /\ Ad(m2, e) # NoAdja => Tg(m2, Ad(m2, e)) = Tg(m2, e)
             /\ Tg(m2, e) \ {"req"} = KindOf(m2, e)
             /\ Tg(m2, e) = {}
  <2> DEFINE a == In(s, c)
             b == N(nn, c, Col(s, c))
  <2>1. /\ Tg(m2, a) = {} /\ Tg(m2, b) = {} /\ Rf(m2, a) = Rf(m2, b)
        /\ Ad(m2, a) = b /\ Ad(m2, b) = a /\ a \in Darts(m2) /\ b \in Darts(m2)
    BY SplitInside DEF Mated
  <2>2. a # NoAdja /\ b # NoAdja
    <3>1. a[1] \in 1..NTMax /\ b[1] \in 1..NTMax
      <4>1. m2 \in MeshSet
        BY DEF Splits
      <4> QED
        BY <2>1, <4>1, MeshParts DEF DartSet
    <3> QED
      BY <3>1, MeshAssumption DEF NoAdja
  <2>3. e = a \/ e = b
    BY <1>2
  <2> HIDE DEF a, b
  <2>4. KindOf(m2, a) = {} /\ KindOf(m2, b) = {}
    BY <2>1, <2>2 DEF KindOf
  <2> QED
    BY <2>1, <2>3, <2>4
<1>3. CASE e \in Darts(m)
  <2>1. CASE \E c \in H : e = In(s, c)
    BY <1>2, <2>1
  <2>2. CASE \E c \in H : e = c
    <3>1. Carries(m, m2, e, e, H, ip)
      BY <2>2, CarriesHalf
    <3> QED
      BY <1>1, <3>1
  <2>3. CASE \A c \in H : e # c /\ e # In(s, c)
    <3>1. Carries(m, m2, e, e, H, ip)
      BY <1>3, <2>3, CarriesAside
    <3> QED
      BY <1>1, <3>1
  <2> QED
    BY <2>1, <2>2, <2>3
<1>4. CASE e \notin Darts(m)
  <2>1. PICK c \in H : \E d \in {c, In(s, c), Col(s, c)} : e = N(nn, c, d)
    BY <1>4, DartsAfter
  <2>2. CASE e = N(nn, c, Col(s, c))
    BY <1>2, <2>2
  <2>3. CASE e = N(nn, c, c)
    <3>1. Carries(m, m2, e, c, H, ip)
      BY <2>3, CarriesHalf
    <3> QED
      BY <1>1, <3>1
  <2>4. CASE e = N(nn, c, In(s, c))
    <3>1. Carries(m, m2, e, In(s, c), H, ip)
      BY <2>4, CarriesIn
    <3> QED
      BY <1>1, <3>1
  <2> QED
    BY <2>1, <2>2, <2>3, <2>4
<1> QED
  BY <1>3, <1>4

LEMMA SplitPlain ==
  ASSUME NEW m, Tagged(m), Plain(m), NEW s, NEW H, NEW nn, NEW ip, NEW m2, Splits(m, m2, s, H, nn, ip),
         ~SIN(Tg(m, s))
  PROVE  Plain(m2)
<1>1. s \in Darts(m)
  BY DEF Splits, Cuttable
<1>2. Tg(m, s) \ {"req"} = KindOf(m, s) /\ KindOf(m, s) \in Kinds
  BY <1>1, EdgeKinds
<1>3. "req" \notin Tg(m, s)
  BY DEF SIN
<1>4. Tg(m, s) \in Kinds
  BY <1>2, <1>3
<1> QED
  BY <1>4 DEF Splits, Plain

(* A closed set of the mesh after the split, seen before it: the corner    *)
(* that a cut triangle loses is the one of the new triangle.               *)
Rejoined(m, s, H, nn, S) ==
    {g \in Darts(m) : \/ (\A c \in H : g # Col(s, c)) /\ g \in S
                      \/ \E c \in H : g = Col(s, c) /\ N(nn, c, g) \in S}

LEMMA WholeHolds ==
  ASSUME NEW m, Solid(m), NEW s, NEW H, NEW nn, NEW ip, Cuttable(m, s, H, nn, ip), NEW S
  PROVE  /\ \A g \in Darts(m) : (\A c \in H : g # Col(s, c)) =>
               (g \in Rejoined(m, s, H, nn, S) <=> g \in S)
         /\ \A c \in H : Col(s, c) \in Rejoined(m, s, H, nn, S) <=> N(nn, c, Col(s, c)) \in S
         /\ Rejoined(m, s, H, nn, S) \in SUBSET Darts(m)
<1>1. ASSUME NEW c \in H PROVE Col(s, c) \in Rejoined(m, s, H, nn, S) <=> N(nn, c, Col(s, c)) \in S
  <2>1. Col(s, c) \in Darts(m)
    BY CutParts
  <2>2. \A d \in H : Col(s, c) = Col(s, d) => d = c
    BY CutOnce
  <2> QED
    BY <2>1, <2>2 DEF Rejoined
<1> QED
  BY <1>1 DEF Rejoined

LEMMA MatedClosed ==
  ASSUME NEW m, m \in MeshSet, NEW S, Closed(m, S), NEW e, NEW u, Mated(m, e, u)
  PROVE  (Pv(e) \in S <=> Nx(u) \in S) /\ (Nx(e) \in S <=> Pv(u) \in S)
<1>1. e \in Darts(m) /\ u \in Darts(m) /\ Ad(m, e) = u /\ Ad(m, u) = e
  BY DEF Mated
<1>2. e # NoAdja /\ u # NoAdja
  BY <1>1, MeshParts, MeshAssumption DEF DartSet, NoAdja
<1> QED
  BY <1>1, <1>2 DEF Closed

(* Around the new vertex and along the cuts.                               *)
LEMMA CutLinks ==
  ASSUME NEW m, Solid(m), NEW s, NEW H, NEW nn, NEW ip, NEW m2, Splits(m, m2, s, H, nn, ip),
         NEW S, Closed(m2, S), NEW c \in H
  PROVE  /\ c \in S <=> N(nn, c, c) \in S
         /\ Col(s, c) \in S <=> N(nn, c, In(s, c)) \in S
         /\ \A d \in H : /\ Col(s, c) \in S <=> Col(s, d) \in S
                         /\ In(s, c) \in S <=> In(s, d) \in S
                         /\ N(nn, c, Col(s, c)) \in S <=> N(nn, d, Col(s, d)) \in S
<1>0. Cuttable(m, s, H, nn, ip) /\ m2 \in MeshSet
  BY DEF Splits
<1>1. \A d \in H : d \in Darts(m) /\ In(s, d) \in Darts(m) /\ Col(s, d) \in Darts(m)
  BY <1>0, CutParts
<1>2. \A d \in H : \A g \in Darts(m) : Nx(N(nn, d, g)) = N(nn, d, Nx(g)) /\ Pv(N(nn, d, g)) = N(nn, d, Pv(g))
  BY NewDarts
<1>3. (c \in S <=> N(nn, c, c) \in S) /\ (Col(s, c) \in S <=> N(nn, c, In(s, c)) \in S)
  <2>1. Mated(m2, In(s, c), N(nn, c, Col(s, c)))
    BY SplitInside
  <2>2. /\ Pv(In(s, c)) \in S <=> Nx(N(nn, c, Col(s, c))) \in S
        /\ Nx(In(s, c)) \in S <=> Pv(N(nn, c, Col(s, c))) \in S
    BY <1>0, <2>1, MatedClosed
  <2> QED
    BY <1>0, <1>1, <1>2, <2>2, CutSides
<1>4. ASSUME NEW d \in H, d # c
      PROVE  /\ Col(s, c) \in S <=> Col(s, d) \in S
             /\ In(s, c) \in S <=> In(s, d) \in S
             /\ N(nn, c, Col(s, c)) \in S <=> N(nn, d, Col(s, d)) \in S
  <2>1. Ad(m, c) = d /\ d # NoAdja
    BY <1>0, <1>4, CutParts
  <2>2. Mated(m2, c, d) /\ Mated(m2, N(nn, c, c), N(nn, d, d))
    BY <2>1, SplitAlong
  <2>3. (Pv(c) \in S <=> Nx(d) \in S) /\ (Nx(c) \in S <=> Pv(d) \in S)
    BY <1>0, <2>2, MatedClosed
  <2>4. (N(nn, c, Pv(c)) \in S <=> N(nn, d, Nx(d)) \in S) /\ (N(nn, c, Nx(c)) \in S <=> N(nn, d, Pv(d)) \in S)
    <3>1. /\ Pv(N(nn, c, c)) \in S <=> Nx(N(nn, d, d)) \in S
          /\ Nx(N(nn, c, c)) \in S <=> Pv(N(nn, d, d)) \in S
      BY <1>0, <2>2, MatedClosed
    <3> QED
      BY <1>1, <1>2, <3>1
  <2>5. \/ c = s /\ In(s, c) = Nx(c) /\ Col(s, c) = Pv(c) /\ d # s /\ In(s, d) = Pv(d) /\ Col(s, d) = Nx(d)
        \/ d = s /\ In(s, d) = Nx(d) /\ Col(s, d) = Pv(d) /\ c # s /\ In(s, c) = Pv(c) /\ Col(s, c) = Nx(c)
    <3>1. s \in {c, d}
      BY <1>0, <1>4 DEF Cuttable
    <3> QED
      BY <1>4, <3>1 DEF In, Col
  <2> QED
    BY <2>3, <2>4, <2>5
<1> QED
  BY <1>3, <1>4

LEMMA WholeClosed ==
  ASSUME NEW m, Solid(m), NEW s, NEW H, NEW nn, NEW ip, NEW m2, Splits(m, m2, s, H, nn, ip),
         NEW S, Closed(m2, S)
  PROVE  Closed(m, Rejoined(m, s, H, nn, S))
<1>0. Cuttable(m, s, H, nn, ip) /\ m2 \in MeshSet
  BY DEF Splits
<1> DEFINE F == Rejoined(m, s, H, nn, S)
<1>1. /\ \A g \in Darts(m) : (\A c \in H : g # Col(s, c)) => (g \in F <=> g \in S)
      /\ \A c \in H : Col(s, c) \in F <=> N(nn, c, Col(s, c)) \in S
  BY <1>0, WholeHolds
<1> HIDE DEF F
<1>2. \A d \in H : /\ d \in Darts(m) /\ In(s, d) \in Darts(m) /\ Col(s, d) \in Darts(m)
                   /\ d \in F <=> d \in S
                   /\ In(s, d) \in F <=> In(s, d) \in S
  <2>1. SUFFICES ASSUME NEW d \in H
                 PROVE  /\ d \in Darts(m) /\ In(s, d) \in Darts(m) /\ Col(s, d) \in Darts(m)
                        /\ d \in F <=> d \in S
                        /\ In(s, d) \in F <=> In(s, d) \in S
    OBVIOUS
  <2>2. d \in Darts(m) /\ In(s, d) \in Darts(m) /\ Col(s, d) \in Darts(m)
    BY <1>0, CutParts
  <2>3. \A c \in H : d # Col(s, c) /\ In(s, d) # Col(s, c)
    BY <1>0, CutOnce
  <2> QED
    BY <1>1, <2>2, <2>3
(* The edge that is cut.                                                   *)
<1>3. ASSUME NEW c \in H, NEW a, a = Ad(m, c), a # NoAdja
      PROVE  Pv(c) \in F <=> Nx(a) \in F
  <2>1. a \in H /\ a # c
    BY <1>0, <1>3, CutParts
  <2>2. \/ c = s /\ In(s, c) = Nx(c) /\ Col(s, c) = Pv(c) /\ a # s /\ In(s, a) = Pv(a) /\ Col(s, a) = Nx(a)
        \/ a = s /\ In(s, a) = Nx(a) /\ Col(s, a) = Pv(a) /\ c # s /\ In(s, c) = Pv(c) /\ Col(s, c) = Nx(c)
    <3>1. s \in {c, a}
      BY <1>0, <2>1 DEF Cuttable
    <3> QED
      BY <2>1, <3>1 DEF In, Col
  <2>3. /\ In(s, c) \in S <=> In(s, a) \in S
        /\ N(nn, c, Col(s, c)) \in S <=> N(nn, a, Col(s, a)) \in S
    BY <2>1, CutLinks
  <2> QED
    BY <1>1, <1>2, <2>1, <2>2, <2>3
(* The edge of the new triangle.                                           *)
<1>4. ASSUME NEW c \in H, NEW u, u = Ad(m, In(s, c)), u # NoAdja
      PROVE  (Pv(In(s, c)) \in F <=> Nx(u) \in F) /\ (Nx(In(s, c)) \in F <=> Pv(u) \in F)
  <2>1. /\ Mated(m2, u, N(nn, c, In(s, c))) /\ u \in Darts(m)
        /\ \A d \in H : Nx(u) # Col(s, d) /\ Pv(u) # Col(s, d)
    BY <1>4, SplitBeyond
  <2>2. (Nx(u) \in F <=> Nx(u) \in S) /\ (Pv(u) \in F <=> Pv(u) \in S)
    BY <1>1, <2>1, DartsTurn
  <2>3. /\ Pv(u) \in S <=> Nx(N(nn, c, In(s, c))) \in S
        /\ Nx(u) \in S <=> Pv(N(nn, c, In(s, c))) \in S
    BY <1>0, <2>1, MatedClosed
  <2>4. Nx(N(nn, c, In(s, c))) = N(nn, c, Nx(In(s, c))) /\ Pv(N(nn, c, In(s, c))) = N(nn, c, Pv(In(s, c)))
    BY <1>2, NewDarts
  <2>5. (c \in F <=> N(nn, c, c) \in S) /\ (Col(s, c) \in F <=> N(nn, c, Col(s, c)) \in S)
    BY <1>1, <1>2, CutLinks
  <2>6. {Nx(In(s, c)), Pv(In(s, c))} = {c, Col(s, c)}
    BY <1>0, CutSides
  <2>7. \A x \in {c, Col(s, c)} : x \in F <=> N(nn, c, x) \in S
    BY <2>5
  <2> QED
    BY <2>2, <2>3, <2>4, <2>6, <2>7
<1>5. ASSUME NEW g \in Darts(m), \A c \in H : g # c /\ g # In(s, c)
      PROVE  (Pv(g) \in F <=> Pv(g) \in S) /\ (Nx(g) \in F <=> Nx(g) \in S)
  <2>1. Pv(Nx(g)) = g /\ Nx(Pv(g)) = g /\ Nx(g) \in Darts(m) /\ Pv(g) \in Darts(m)
    BY DartsTurn
  <2>2. \A c \in H : Nx(g) # Col(s, c) /\ Pv(g) # Col(s, c)
    BY <1>0, <1>5, <2>1, CutSides
  <2> QED
    BY <1>1, <2>1, <2>2
<1> SUFFICES ASSUME NEW g \in Darts(m), NEW a, a = Ad(m, g), a # NoAdja
             PROVE  Pv(g) \in F <=> Nx(a) \in F
  BY DEF Closed, F
<1>6. a \in Darts(m) /\ Ad(m, a) = g /\ g # NoAdja
  BY Twin
<1>7. CASE \E c \in H : g = c
  BY <1>3, <1>7
<1>8. CASE \E c \in H : g = In(s, c)
  BY <1>4, <1>8
<1>9. CASE \E c \in H : a = In(s, c)
  BY <1>4, <1>6, <1>9
<1>10. CASE \A c \in H : g # c /\ g # In(s, c) /\ a # In(s, c)
  <2>1. Mated(m2, g, a) /\ \A c \in H : a # c /\ a # In(s, c)
    BY <1>10, SplitAside
  <2>2. Pv(g) \in S <=> Nx(a) \in S
    BY <1>0, <2>1, MatedClosed
  <2> QED
    BY <1>5, <1>6, <1>10, <2>1, <2>2
<1> QED
  BY <1>7, <1>8, <1>9, <1>10

LEMMA SplitFan ==
  ASSUME NEW m, Solid(m), OneFan(m), NEW s, NEW H, NEW nn, NEW ip, NEW m2, Splits(m, m2, s, H, nn, ip)
  PROVE  OneFan(m2)
<1> SUFFICES ASSUME NEW S \in SUBSET Darts(m2), Closed(m2, S), NEW e \in S, NEW f \in Darts(m2),
                    Vt(m2, e) = Vt(m2, f), Movable(Pt(m2, Vt(m2, e)))
             PROVE  f \in S
  BY DEF OneFan
<1>0. Cuttable(m, s, H, nn, ip) /\ s \in H
  BY DEF Splits, Cuttable
<1> DEFINE F == Rejoined(m, s, H, nn, S)
<1>1. Closed(m, F)
  BY WholeClosed
<1>2. /\ \A g \in Darts(m) : (\A c \in H : g # Col(s, c)) => (g \in F <=> g \in S)
      /\ \A c \in H : Col(s, c) \in F <=> N(nn, c, Col(s, c)) \in S
      /\ F \in SUBSET Darts(m)
  BY <1>0, WholeHolds
<1> HIDE DEF F
<1>3. CASE Vt(m2, e) = ip
  <2>1. ASSUME NEW g \in Darts(m2), Vt(m2, g) = ip PROVE g \in S <=> Col(s, s) \in S
    <3>1. PICK c \in H : g = Col(s, c) \/ g = N(nn, c, In(s, c))
      <4>1. CASE g \in Darts(m)
        <5>1. Vt(m, g) # ip
          BY <1>0, <4>1, Corners DEF Cuttable
        <5> QED
          BY <2>1, <4>1, <5>1, SplitVertex
      <4>2. CASE g \notin Darts(m)
        <5>1. PICK c \in H : \E d \in {c, In(s, c), Col(s, c)} : g = N(nn, c, d)
          BY <4>2, DartsAfter
        <5>2. Vt(m, c) # ip /\ Vt(m, Col(s, c)) # ip
          BY <1>0, CutParts DEF Cuttable
        <5> QED
          BY <2>1, <5>1, <5>2, SplitVertex
      <4> QED
        BY <4>1, <4>2
    <3> QED
      BY <1>0, <3>1, CutLinks
  <2> QED
    BY <1>3, <2>1
<1>4. CASE Vt(m2, e) # ip
  <2>1. ASSUME NEW g \in Darts(m2), Vt(m2, g) # ip
        PROVE  \E h \in Darts(m) : Vt(m, h) = Vt(m2, g) /\ (h \in F <=> g \in S)
    <3>1. CASE g \in Darts(m)
      <4>1. \A c \in H : g # Col(s, c)
        BY <2>1, SplitVertex
      <4> QED
        BY <1>2, <3>1, <4>1, SplitVertex
    <3>2. CASE g \notin Darts(m)
      <4>1. PICK c \in H : \E d \in {c, In(s, c), Col(s, c)} : g = N(nn, c, d)
        BY <3>2, DartsAfter
      <4>2. g = N(nn, c, c) \/ g = N(nn, c, Col(s, c))
        BY <2>1, <4>1, SplitVertex
      <4>3. c \in Darts(m) /\ Col(s, c) \in Darts(m) /\ \A d \in H : c # Col(s, d)
        BY <1>0, CutParts, CutOnce
      <4>4. CASE g = N(nn, c, c)
        <5>1. Vt(m, c) = Vt(m2, g) /\ (c \in S <=> g \in S)
          BY <4>4, SplitVertex, CutLinks
        <5> QED
          BY <1>2, <4>3, <5>1
      <4>5. CASE g = N(nn, c, Col(s, c))
        BY <1>2, <4>3, <4>5, SplitVertex
      <4> QED
        BY <4>2, <4>4, <4>5
    <3> QED
      BY <3>1, <3>2
  <2>2. PICK g \in Darts(m) : Vt(m, g) = Vt(m2, e) /\ (g \in F <=> e \in S)
    BY <1>4, <2>1
  <2>3. PICK h \in Darts(m) : Vt(m, h) = Vt(m2, f) /\ (h \in F <=> f \in S)
    BY <1>4, <2>1
  <2>4. Vt(m, g) \in Live(m.pts)
    BY Corners
  <2>5. Pt(m2, Vt(m, g)) = Pt(m, Vt(m, g))
    BY <2>4 DEF Splits
  <2>6. Vt(m, g) = Vt(m, h) /\ Movable(Pt(m, Vt(m, g))) /\ g \in F
    BY <2>2, <2>3, <2>5
  <2>7. h \in F
    BY <1>1, <1>2, <2>6 DEF OneFan
  <2> QED
    BY <2>3, <2>7
<1> QED
  BY <1>3, <1>4

LEMMA SplitSoundly ==
  ASSUME NEW m, Sound(m), NEW s, NEW H, NEW nn, NEW ip, NEW m2, Splits(m, m2, s, H, nn, ip),
         Halved(m, m2, s, H, ip), ~SIN(Tg(m, s))
  PROVE  Sound(m2)
<1>1. Solid(m) /\ Used(m) /\ Tagged(m) /\ Plain(m) /\ OneFan(m)
  BY DEF Sound, Solid
<1>2. OnLive(m2) /\ Joined(m2) /\ Positive(m2)
  BY <1>1, SplitOnLive, SplitJoined, SplitPositive
<1>3. Used(m2) /\ Tagged(m2) /\ Plain(m2) /\ OneFan(m2)
  BY <1>1, SplitUsed, SplitTagged, SplitPlain, SplitFan
<1> QED
  BY <1>2, <1>3 DEF Sound, Splits

-------------------------------------------------------------------------------
(* A swap and a move.                                                      *)

(* A swap seen on the darts: x and y are the two darts of the edge that    *)
(* goes, Nx(x) and Nx(y) those of the edge that comes.                     *)
SwapVt(m, m2, x, y) == /\ Vt(m2, Pv(x)) = Vt(m, y) /\ Vt(m2, Pv(y)) = Vt(m, x)
                       /\ \A e \in Darts(m) : e # Pv(x) /\ e # Pv(y) => Vt(m2, e) = Vt(m, e)

SwapTg(m, m2, x, y) == /\ Tg(m2, x) = Tg(m, Nx(y)) /\ Tg(m2, Nx(x)) = {}
                       /\ Tg(m2, y) = Tg(m, Nx(x)) /\ Tg(m2, Nx(y)) = {}
                       /\ \A e \in Darts(m) : e \notin {x, y, Nx(x), Nx(y)} => Tg(m2, e) = Tg(m, e)

SwapAd(m, m2, x, y) == /\ Ad(m2, x) = Ad(m, Nx(y)) /\ Ad(m2, Nx(x)) = Nx(y)
                       /\ Ad(m2, y) = Ad(m, Nx(x)) /\ Ad(m2, Nx(y)) = Nx(x)
                       /\ \A e \in Darts(m) :
                            /\ Ad(m, e) = Nx(y) => Ad(m2, e) = x
                            /\ Ad(m, e) = Nx(x) => Ad(m2, e) = y
                            /\ e \notin {x, y, Nx(x), Nx(y)} /\ Ad(m, e) \notin {Nx(x), Nx(y)}
                                  => Ad(m2, e) = Ad(m, e)

Swaps(m, m2, x, y) ==
    /\ x \in Darts(m) /\ y \in Darts(m) /\ Ad(m, x) = y /\ Ad(m, y) = x
    /\ m2 \in MeshSet /\ Lists(m2)
    /\ Live(m2.trs) = Live(m.trs) /\ Live(m2.pts) = Live(m.pts)
    /\ \A p \in Live(m.pts) : At(m2, p) = At(m, p) /\ Pt(m2, p) = Pt(m, p)
    /\ \A e \in Darts(m) : Rf(m2, e) = Rf(m, e)
    /\ SwapVt(m, m2, x, y) /\ SwapTg(m, m2, x, y) /\ SwapAd(m, m2, x, y)

LEMMA SwapsTurn ==
  ASSUME NEW m, NEW m2, NEW x, NEW y, Swaps(m, m2, x, y)
  PROVE  Swaps(m, m2, y, x)
BY DEF Swaps, SwapVt, SwapTg, SwapAd

LEMMA SwapParts ==
  ASSUME NEW m, Solid(m), NEW m2, NEW x, NEW y, Swaps(m, m2, x, y)
  PROVE  /\ x # NoAdja /\ y # NoAdja /\ x[1] # y[1] /\ Darts(m2) = Darts(m)
         /\ \A e \in {x, y} : /\ e \in Darts(m) /\ Nx(e) \in Darts(m) /\ Pv(e) \in Darts(m)
                              /\ Nx(e)[1] = e[1] /\ Pv(e)[1] = e[1]
                              /\ Nx(Nx(e)) = Pv(e) /\ Pv(Pv(e)) = Nx(e) /\ Nx(Pv(e)) = e /\ Pv(Nx(e)) = e
                              /\ Nx(e) # e /\ Pv(e) # e /\ Nx(e) # Pv(e)
                              /\ Vt(m, e) \in Live(m.pts) /\ Vt(m, Nx(e)) \in Live(m.pts)
         /\ Vt(m, Nx(x)) = Vt(m, Pv(y)) /\ Vt(m, Nx(y)) = Vt(m, Pv(x))
         /\ Vt(m2, x) = Vt(m, x) /\ Vt(m2, Nx(x)) = Vt(m, Nx(x)) /\ Vt(m2, Pv(x)) = Vt(m, y)
         /\ Vt(m2, y) = Vt(m, y) /\ Vt(m2, Nx(y)) = Vt(m, Nx(y)) /\ Vt(m2, Pv(y)) = Vt(m, x)
<1>1. x \in Darts(m) /\ y \in Darts(m) /\ Ad(m, x) = y /\ Ad(m, y) = x /\ Darts(m2) = Darts(m)
  BY DEF Swaps, Darts
<1>2. x # NoAdja /\ y # NoAdja
  BY <1>1, Corners, MeshAssumption DEF DartSet, NoAdja
<1>3. x[1] # y[1] /\ Vt(m, Nx(x)) = Vt(m, Pv(y)) /\ Vt(m, Nx(y)) = Vt(m, Pv(x))
  BY <1>1, <1>2, Twin
<1>4. \A e \in {x, y} : /\ e \in Darts(m) /\ Nx(e) \in Darts(m) /\ Pv(e) \in Darts(m)
                        /\ Nx(e)[1] = e[1] /\ Pv(e)[1] = e[1]
                        /\ Nx(Nx(e)) = Pv(e) /\ Pv(Pv(e)) = Nx(e) /\ Nx(Pv(e)) = e /\ Pv(Nx(e)) = e
                        /\ Nx(e) # e /\ Pv(e) # e /\ Nx(e) # Pv(e)
  BY <1>1, DartsTurn
<1>5. \A e \in {x, y} : Vt(m, e) \in Live(m.pts) /\ Vt(m, Nx(e)) \in Live(m.pts)
  BY <1>4, Corners
<1>6. SwapVt(m, m2, x, y)
  BY DEF Swaps
<1>7. /\ Vt(m2, x) = Vt(m, x) /\ Vt(m2, Nx(x)) = Vt(m, Nx(x)) /\ Vt(m2, Pv(x)) = Vt(m, y)
      /\ Vt(m2, y) = Vt(m, y) /\ Vt(m2, Nx(y)) = Vt(m, Nx(y)) /\ Vt(m2, Pv(y)) = Vt(m, x)
  BY <1>3, <1>4, <1>6 DEF SwapVt
<1> QED
  BY <1>1, <1>2, <1>3, <1>4, <1>5, <1>7

(* The edge of triangle x[1] that comes from the other triangle.           *)
LEMMA SwapTaken ==
  ASSUME NEW m, Solid(m), NEW m2, NEW x, NEW y, Swaps(m, m2, x, y),
         NEW u, u = Ad(m, Nx(y)), u # NoAdja
  PROVE  /\ u \in Darts(m) /\ Ad(m, u) = Nx(y) /\ u[1] # x[1] /\ u[1] # y[1] /\ Mated(m2, x, u)
         /\ Tg(m2, u) = Tg(m, u)
         /\ Nx(u) \in Darts(m) /\ Pv(u) \in Darts(m)
         /\ Nx(u)[1] = u[1] /\ Pv(u)[1] = u[1]
<1>1. /\ Nx(y) \in Darts(m) /\ y \in Darts(m) /\ x \in Darts(m) /\ Ad(m, y) = x
      /\ x # NoAdja /\ y # NoAdja /\ Nx(y) # y /\ Nx(y)[1] = y[1]
      /\ Pv(Nx(y)) = y /\ Nx(Nx(y)) = Pv(y) /\ Nx(y) # Pv(y)
  BY SwapParts DEF Swaps
<1>2. /\ u \in Darts(m) /\ Ad(m, u) = Nx(y) /\ u[1] # y[1]
      /\ Vt(m, Nx(u)) = Vt(m, Pv(Nx(y))) /\ Vt(m, Pv(u)) = Vt(m, Nx(Nx(y)))
  BY <1>1, Twin
<1>3. u[1] # x[1]
  <2>1. Ad(m, y) # NoAdja
    BY <1>1
  <2> QED
    BY <1>1, <2>1, NoMirror
<1>4. /\ Nx(u) \in Darts(m) /\ Pv(u) \in Darts(m) /\ Nx(u)[1] = u[1] /\ Pv(u)[1] = u[1]
  BY <1>2, DartsTurn
<1>5. /\ \A e \in {x, y} : Nx(e)[1] = e[1] /\ Pv(e)[1] = e[1]
      /\ Vt(m2, Nx(x)) = Vt(m, Nx(x)) /\ Vt(m2, Pv(x)) = Vt(m, y) /\ Vt(m, Nx(x)) = Vt(m, Pv(y))
      /\ Darts(m2) = Darts(m)
  BY SwapParts
<1>6. Vt(m2, Nx(u)) = Vt(m, Nx(u)) /\ Vt(m2, Pv(u)) = Vt(m, Pv(u))
  BY <1>2, <1>3, <1>4, <1>5 DEF Swaps, SwapVt
<1>7. Ad(m2, x) = u /\ Ad(m2, u) = x
  BY <1>2 DEF Swaps, SwapAd
<1>8. Tg(m2, u) = Tg(m, u)
  BY <1>2, <1>3, <1>5 DEF Swaps, SwapTg
<1> QED
  BY <1>1, <1>2, <1>3, <1>4, <1>5, <1>6, <1>7, <1>8 DEF Mated

(* The edge that comes.                                                    *)
LEMMA SwapMid ==
  ASSUME NEW m, Solid(m), NEW m2, NEW x, NEW y, Swaps(m, m2, x, y)
  PROVE  Mated(m2, Nx(x), Nx(y))
<1>1. Ad(m2, Nx(x)) = Nx(y) /\ Ad(m2, Nx(y)) = Nx(x)
  BY DEF Swaps, SwapAd
<1> QED
  BY <1>1, SwapParts DEF Mated

(* The edges that stay as they are.                                        *)
LEMMA SwapAside ==
  ASSUME NEW m, Solid(m), NEW m2, NEW x, NEW y, Swaps(m, m2, x, y),
         NEW e \in Darts(m), e \notin {x, y, Nx(x), Nx(y)}
  PROVE  /\ Vt(m2, Nx(e)) = Vt(m, Nx(e)) /\ Vt(m2, Pv(e)) = Vt(m, Pv(e)) /\ Tg(m2, e) = Tg(m, e)
         /\ Nx(e) \in Darts(m) /\ Pv(e) \in Darts(m)
         /\ Nx(e) \notin {Pv(x), Pv(y)} /\ Pv(e) \notin {Pv(x), Pv(y)}
         /\ Ad(m, e) \notin {Nx(x), Nx(y)} =>
              /\ Ad(m2, e) = Ad(m, e)
              /\ Ad(m, e) # NoAdja => /\ Mated(m2, e, Ad(m, e)) /\ Ad(m, e) \in Darts(m)
                                      /\ Ad(m, e) \notin {x, y, Nx(x), Nx(y)}
<1>0. /\ \A f \in {x, y} : Nx(Pv(f)) = f /\ Pv(Pv(f)) = Nx(f) /\ f \in Darts(m)
      /\ SwapVt(m, m2, x, y) /\ SwapTg(m, m2, x, y) /\ SwapAd(m, m2, x, y)
      /\ Ad(m, x) = y /\ Ad(m, y) = x /\ Darts(m2) = Darts(m)
  BY SwapParts DEF Swaps
<1>1. ASSUME NEW f \in Darts(m), f \notin {x, y, Nx(x), Nx(y)}
      PROVE  /\ Nx(f) \in Darts(m) /\ Pv(f) \in Darts(m)
             /\ Nx(f) \notin {Pv(x), Pv(y)} /\ Pv(f) \notin {Pv(x), Pv(y)}
             /\ Vt(m2, Nx(f)) = Vt(m, Nx(f)) /\ Vt(m2, Pv(f)) = Vt(m, Pv(f))
  <2>1. Nx(f) \in Darts(m) /\ Pv(f) \in Darts(m) /\ Pv(Nx(f)) = f /\ Nx(Pv(f)) = f
    BY DartsTurn
  <2>2. Nx(f) \notin {Pv(x), Pv(y)} /\ Pv(f) \notin {Pv(x), Pv(y)}
    BY <1>0, <1>1, <2>1
  <2> QED
    BY <1>0, <2>1, <2>2 DEF SwapVt
<1>2. Tg(m2, e) = Tg(m, e)
  BY <1>0 DEF SwapTg
<1>3. ASSUME NEW u, u = Ad(m, e), u \notin {Nx(x), Nx(y)}, u # NoAdja
      PROVE  Mated(m2, e, u) /\ u \in Darts(m) /\ u \notin {x, y, Nx(x), Nx(y)}
  <2>1. /\ u \in Darts(m) /\ Ad(m, u) = e /\ e # NoAdja
        /\ Vt(m, Nx(u)) = Vt(m, Pv(e)) /\ Vt(m, Pv(u)) = Vt(m, Nx(e))
    BY <1>3, Twin
  <2>2. u \notin {x, y, Nx(x), Nx(y)}
    BY <1>0, <1>3, <2>1
  <2>3. Ad(m2, e) = u /\ Ad(m2, u) = e
    BY <1>0, <1>3, <2>1, <2>2 DEF SwapAd
  <2>4. Vt(m2, Nx(u)) = Vt(m2, Pv(e)) /\ Vt(m2, Pv(u)) = Vt(m2, Nx(e))
    BY <1>1, <2>1, <2>2
  <2> QED
    BY <1>0, <2>1, <2>2, <2>3, <2>4 DEF Mated
<1>4. Ad(m, e) \notin {Nx(x), Nx(y)} => Ad(m2, e) = Ad(m, e)
  BY <1>0 DEF SwapAd
<1> QED
  BY <1>1, <1>2, <1>3, <1>4

LEMMA SwapJoined ==
  ASSUME NEW m, Solid(m), NEW m2, NEW x, NEW y, Swaps(m, m2, x, y)
  PROVE  Joined(m2)
<1>0. Swaps(m, m2, y, x) /\ Darts(m2) = Darts(m)
  BY SwapsTurn, SwapParts
<1> SUFFICES ASSUME NEW e \in Darts(m), Ad(m2, e) # NoAdja PROVE \E u : Mated(m2, e, u)
  BY <1>0 DEF Joined, Mated
<1>1. ASSUME NEW z, NEW w, Swaps(m, m2, z, w), e \in {z, Nx(z)} \/ Ad(m, e) = Nx(w)
      PROVE  \E u : Mated(m2, e, u)
  <2>1. CASE e = z
    <3>1. Ad(m, Nx(w)) = Ad(m2, z)
      BY <1>1 DEF Swaps, SwapAd
    <3> QED
      BY <1>1, <2>1, <3>1, SwapTaken
  <2>2. CASE e = Nx(z)
    BY <1>1, <2>2, SwapMid
  <2>3. CASE Ad(m, e) = Nx(w)
    <3>1. Nx(w) \in Darts(m)
      BY <1>1, SwapParts
    <3>2. Nx(w) # NoAdja
      BY <3>1, Corners, MeshAssumption DEF DartSet, NoAdja
    <3>3. Ad(m, Nx(w)) = e /\ e # NoAdja
      BY <2>3, <3>2, Twin
    <3> QED
      BY <1>1, <3>3, SwapTaken, MatedTurns
  <2> QED
    BY <1>1, <2>1, <2>2, <2>3
<1>2. CASE e \in {x, y, Nx(x), Nx(y)} \/ Ad(m, e) \in {Nx(x), Nx(y)}
  BY <1>0, <1>1, <1>2
<1>3. CASE e \notin {x, y, Nx(x), Nx(y)} /\ Ad(m, e) \notin {Nx(x), Nx(y)}
  BY <1>3, SwapAside
<1> QED
  BY <1>2, <1>3

LEMMA SwapOnLive ==
  ASSUME NEW m, Solid(m), NEW m2, NEW x, NEW y, Swaps(m, m2, x, y)
  PROVE  OnLive(m2)
<1> SUFFICES ASSUME NEW e \in Darts(m) PROVE Vt(m2, e) \in Live(m.pts)
  BY SwapParts DEF OnLive, Swaps
<1>1. Vt(m, e) \in Live(m.pts)
  BY Corners
<1>2. Vt(m, x) \in Live(m.pts) /\ Vt(m, y) \in Live(m.pts)
  BY SwapParts
<1> QED
  BY <1>1, <1>2 DEF Swaps, SwapVt

LEMMA SwapUsed ==
  ASSUME NEW m, Solid(m), Used(m), NEW m2, NEW x, NEW y, Swaps(m, m2, x, y)
  PROVE  Used(m2)
<1>0. Darts(m2) = Darts(m) /\ Live(m2.pts) = Live(m.pts)
  BY SwapParts DEF Swaps
<1> SUFFICES ASSUME NEW p \in Live(m.pts) PROVE \E e \in Darts(m) : Vt(m2, e) = p
  BY <1>0 DEF Used
<1>1. PICK e \in Darts(m) : Vt(m, e) = p
  BY DEF Used
<1>2. CASE e = Pv(x) \/ e = Pv(y)
  BY <1>1, <1>2, SwapParts
<1>3. CASE e # Pv(x) /\ e # Pv(y)
  BY <1>1, <1>3 DEF Swaps, SwapVt
<1> QED
  BY <1>2, <1>3

LEMMA SwapPositive ==
  ASSUME NEW m, Solid(m), NEW m2, NEW x, NEW y, Swaps(m, m2, x, y),
         Twice(m2, x) > 0, Twice(m2, y) > 0
  PROVE  Positive(m2)
<1>0. m2 \in MeshSet /\ OnLive(m2) /\ Darts(m2) = Darts(m) /\ Positive(m)
  BY SwapOnLive, SwapParts DEF Swaps, Solid
<1> SUFFICES ASSUME NEW e \in Darts(m) PROVE Twice(m2, e) > 0
  BY <1>0 DEF Positive
<1>1. ASSUME NEW z \in Darts(m), Twice(m2, z) > 0, e[1] = z[1] PROVE Twice(m2, e) > 0
  <2>1. e \in {z, Nx(z), Pv(z)}
    BY <1>1, DartsTurn
  <2> QED
    BY <1>0, <1>1, <2>1, TwiceTurns
<1>2. x \in Darts(m) /\ y \in Darts(m) /\ \A f \in {x, y} : Pv(f)[1] = f[1]
  BY SwapParts
<1>3. CASE e[1] # x[1] /\ e[1] # y[1]
  <2>1. Nx(e) \in Darts(m) /\ Pv(e) \in Darts(m) /\ Nx(e)[1] = e[1] /\ Pv(e)[1] = e[1]
    BY DartsTurn
  <2>2. Vt(m2, e) = Vt(m, e) /\ Vt(m2, Nx(e)) = Vt(m, Nx(e)) /\ Vt(m2, Pv(e)) = Vt(m, Pv(e))
    BY <1>2, <1>3, <2>1 DEF Swaps, SwapVt
  <2>3. Vt(m, e) \in Live(m.pts) /\ Vt(m, Nx(e)) \in Live(m.pts) /\ Vt(m, Pv(e)) \in Live(m.pts)
    BY <2>1, Corners
  <2>4. Twice(m2, e) = Twice(m, e)
    BY <2>2, <2>3 DEF Twice, Swaps
  <2> QED
    BY <1>0, <2>4 DEF Positive
<1> QED
  BY <1>1, <1>2, <1>3

LEMMA SwapPlain ==
  ASSUME NEW m, Plain(m), NEW m2, NEW x, NEW y, Swaps(m, m2, x, y)
  PROVE  Plain(m2)
BY DEF Plain, Swaps

(* Neither reference changes across the edge that is swapped.              *)
LEMMA SwapTagged ==
  ASSUME NEW m, Solid(m), Tagged(m), NEW m2, NEW x, NEW y, Swaps(m, m2, x, y), ~EDG(Tg(m, x))
  PROVE  Tagged(m2)
<1>0. Swaps(m, m2, y, x) /\ Darts(m2) = Darts(m)
  BY SwapsTurn, SwapParts
<1>1. Rf(m, x) = Rf(m, y)
  BY EdgeKinds DEF Swaps
<1>2. \A e \in Darts(m) : Rf(m2, e) = Rf(m, e)
  BY DEF Swaps
<1>3. ASSUME NEW p \in Live(m.pts) PROVE Pt(m2, p) = Pt(m, p)
  BY DEF Swaps
<1> SUFFICES ASSUME NEW e \in Darts(m)
             PROVE  /\ Ad(m2, e) # NoAdja => Tg(m2, Ad(m2, e)) = Tg(m2, e)
                    /\ Tg(m2, e) \ {"req"} = KindOf(m2, e)
                    /\ Tg(m2, e) \subseteq Pt(m2, Vt(m2, Nx(e)))
                    /\ Tg(m2, e) \subseteq Pt(m2, Vt(m2, Pv(e)))
  BY <1>0 DEF Tagged
<1>4. ASSUME NEW z, NEW w, Swaps(m, m2, z, w), e = z, Rf(m, z) = Rf(m, w)
      PROVE  /\ Ad(m2, e) # NoAdja => Tg(m2, Ad(m2, e)) = Tg(m2, e)
             /\ Tg(m2, e) \ {"req"} = KindOf(m2, e)
             /\ Tg(m2, e) \subseteq Pt(m2, Vt(m2, Nx(e)))
             /\ Tg(m2, e) \subseteq Pt(m2, Vt(m2, Pv(e)))
  <2>1. Nx(w) \in Darts(m) /\ Nx(w)[1] = w[1] /\ Nx(Nx(w)) = Pv(w) /\ Pv(Nx(w)) = w
    BY <1>4, SwapParts
  <2>2. Tg(m2, z) = Tg(m, Nx(w)) /\ Ad(m2, z) = Ad(m, Nx(w))
    BY <1>4 DEF Swaps, SwapTg, SwapAd
  <2>3. Rf(m2, z) = Rf(m, Nx(w))
    <3>1. Rf(m, Nx(w)) = Rf(m, w)
      BY <2>1 DEF Rf
    <3> QED
      BY <1>2, <1>4, <3>1
  <2>4. ASSUME NEW u, u = Ad(m, Nx(w)), u # NoAdja PROVE Tg(m2, u) = Tg(m, u) /\ Rf(m2, u) = Rf(m, u)
    BY <1>2, <1>4, <2>4, SwapTaken
  <2>5. KindOf(m2, z) = KindOf(m, Nx(w))
    BY <2>2, <2>3, <2>4 DEF KindOf
  <2>6. /\ Ad(m, Nx(w)) # NoAdja => Tg(m, Ad(m, Nx(w))) = Tg(m, Nx(w))
        /\ Tg(m, Nx(w)) \ {"req"} = KindOf(m, Nx(w))
        /\ Tg(m, Nx(w)) \subseteq Pt(m, Vt(m, Pv(w)))
        /\ Tg(m, Nx(w)) \subseteq Pt(m, Vt(m, w))
    BY <2>1 DEF Tagged
  <2>7. /\ Vt(m2, Nx(z)) = Vt(m, Pv(w)) /\ Vt(m2, Pv(z)) = Vt(m, w)
        /\ Vt(m, w) \in Live(m.pts) /\ Vt(m, Nx(z)) \in Live(m.pts) /\ Vt(m, Nx(z)) = Vt(m, Pv(w))
    BY <1>4, SwapParts
  <2>8. Pt(m2, Vt(m, w)) = Pt(m, Vt(m, w)) /\ Pt(m2, Vt(m, Pv(w))) = Pt(m, Vt(m, Pv(w)))
    BY <1>3, <2>7
  <2> QED
    BY <1>4, <2>2, <2>4, <2>5, <2>6, <2>7, <2>8
<1>5. ASSUME NEW z, NEW w, Swaps(m, m2, z, w), e = Nx(z), Rf(m, z) = Rf(m, w)
      PROVE  /\ Ad(m2, e) # NoAdja => Tg(m2, Ad(m2, e)) = Tg(m2, e)
             /\ Tg(m2, e) = {} /\ KindOf(m2, e) = {}
  <2>1. /\ Nx(w) \in Darts(m) /\ Nx(w)[1] = w[1] /\ Nx(z)[1] = z[1]
    BY <1>5, SwapParts
  <2>2. Tg(m2, Nx(z)) = {} /\ Tg(m2, Nx(w)) = {} /\ Ad(m2, Nx(z)) = Nx(w)
    BY <1>5 DEF Swaps, SwapTg, SwapAd
  <2>3. Nx(w) # NoAdja
    BY <2>1, Corners, MeshAssumption DEF DartSet, NoAdja
  <2>4. Rf(m2, Nx(w)) = Rf(m2, Nx(z))
    <3>1. Rf(m, Nx(w)) = Rf(m, Nx(z))
      BY <1>5, <2>1 DEF Rf
    <3> QED
      BY <1>2, <1>5, <2>1, <3>1
  <2> QED
    BY <1>5, <2>2, <2>3, <2>4 DEF KindOf
<1>6. CASE e \in {x, y}
  BY <1>0, <1>1, <1>4, <1>6
<1>7. CASE e \in {Nx(x), Nx(y)}
  <2>1. /\ Ad(m2, e) # NoAdja => Tg(m2, Ad(m2, e)) = Tg(m2, e)
        /\ Tg(m2, e) = {} /\ KindOf(m2, e) = {}
    BY <1>0, <1>1, <1>5, <1>7
  <2> QED
    BY <2>1
<1>8. CASE e \notin {x, y, Nx(x), Nx(y)}
  <2>1. /\ Vt(m2, Nx(e)) = Vt(m, Nx(e)) /\ Vt(m2, Pv(e)) = Vt(m, Pv(e)) /\ Tg(m2, e) = Tg(m, e)
        /\ Nx(e) \in Darts(m) /\ Pv(e) \in Darts(m)
    BY <1>8, SwapAside
  <2>2. Vt(m, Nx(e)) \in Live(m.pts) /\ Vt(m, Pv(e)) \in Live(m.pts)
    BY <2>1, Corners
  <2>3. /\ Ad(m, e) # NoAdja => Tg(m, Ad(m, e)) = Tg(m, e)
        /\ Tg(m, e) \ {"req"} = KindOf(m, e)
        /\ Tg(m, e) \subseteq Pt(m, Vt(m, Nx(e)))
        /\ Tg(m, e) \subseteq Pt(m, Vt(m, Pv(e)))
    BY DEF Tagged
  <2>4. CASE Ad(m, e) \notin {Nx(x), Nx(y)}
    <3>1. Ad(m2, e) = Ad(m, e)
      BY <1>8, <2>4, SwapAside
    <3>2. Ad(m, e) # NoAdja => Ad(m, e) \in Darts(m) /\ Tg(m2, Ad(m, e)) = Tg(m, Ad(m, e))
                               /\ Rf(m2, Ad(m, e)) = Rf(m, Ad(m, e))
      BY <1>2, <1>8, <2>4, SwapAside
    <3>3. KindOf(m2, e) = KindOf(m, e)
      BY <1>2, <3>1, <3>2 DEF KindOf
    <3> QED
      BY <1>3, <2>1, <2>2, <2>3, <3>1, <3>2, <3>3
  <2>5. ASSUME NEW z, NEW w, Swaps(m, m2, z, w), Ad(m, e) = Nx(w), Rf(m, z) = Rf(m, w)
        PROVE  /\ Ad(m2, e) # NoAdja => Tg(m2, Ad(m2, e)) = Tg(m, e)
               /\ KindOf(m2, e) = KindOf(m, e)
    <3>1. /\ Nx(w) \in Darts(m) /\ Nx(w)[1] = w[1] /\ z \in Darts(m) /\ z # NoAdja
      BY <2>5, SwapParts
    <3>2. Nx(w) # NoAdja
      BY <3>1, Corners, MeshAssumption DEF DartSet, NoAdja
    <3>3. Ad(m2, e) = z /\ Tg(m2, z) = Tg(m, Nx(w))
      BY <2>5 DEF Swaps, SwapAd, SwapTg
    <3>4. Rf(m2, z) = Rf(m, Nx(w))
      <4>1. Rf(m, Nx(w)) = Rf(m, w)
        BY <3>1 DEF Rf
      <4> QED
        BY <1>2, <2>5, <3>1, <4>1
    <3> QED
      BY <1>2, <2>3, <2>5, <3>1, <3>2, <3>3, <3>4 DEF KindOf
  <2>6. CASE Ad(m, e) \in {Nx(x), Nx(y)}
    <3>1. /\ Ad(m2, e) # NoAdja => Tg(m2, Ad(m2, e)) = Tg(m, e)
          /\ KindOf(m2, e) = KindOf(m, e)
      BY <1>0, <1>1, <2>5, <2>6
    <3> QED
      BY <1>3, <2>1, <2>2, <2>3, <3>1
  <2> QED
    BY <2>4, <2>6
<1> QED
  BY <1>6, <1>7, <1>8

(* A closed set of the mesh after the swap, seen before it.                *)
Swung(m, x, y, S) ==
    {g \in Darts(m) : \/ g # Pv(x) /\ g # Pv(y) /\ g \in S
                      \/ g = Pv(x) /\ Nx(y) \in S
                      \/ g = Pv(y) /\ Nx(x) \in S}

LEMMA SwungHolds ==
  ASSUME NEW m, Solid(m), NEW m2, NEW x, NEW y, Swaps(m, m2, x, y), NEW S
  PROVE  /\ \A g \in Darts(m) : g # Pv(x) /\ g # Pv(y) => (g \in Swung(m, x, y, S) <=> g \in S)
         /\ Pv(x) \in Swung(m, x, y, S) <=> Nx(y) \in S
         /\ Pv(y) \in Swung(m, x, y, S) <=> Nx(x) \in S
         /\ Swung(m, x, y, S) \in SUBSET Darts(m)
<1>1. Pv(x) # Pv(y) /\ Pv(x) \in Darts(m) /\ Pv(y) \in Darts(m)
  BY SwapParts
<1> QED
  BY <1>1 DEF Swung

LEMMA SwungClosed ==
  ASSUME NEW m, Solid(m), NEW m2, NEW x, NEW y, Swaps(m, m2, x, y), NEW S, Closed(m2, S)
  PROVE  Closed(m, Swung(m, x, y, S))
<1> DEFINE F == Swung(m, x, y, S)
<1>0. Swaps(m, m2, y, x) /\ m2 \in MeshSet
  BY SwapsTurn DEF Swaps
<1>1. /\ \A g \in Darts(m) : g # Pv(x) /\ g # Pv(y) => (g \in F <=> g \in S)
      /\ Pv(x) \in F <=> Nx(y) \in S
      /\ Pv(y) \in F <=> Nx(x) \in S
  BY SwungHolds
<1> HIDE DEF F
<1>2. /\ \A e \in {x, y} : /\ e \in Darts(m) /\ Nx(e) \in Darts(m) /\ Pv(e) \in Darts(m)
                           /\ Nx(e)[1] = e[1] /\ Pv(e)[1] = e[1]
                           /\ Nx(Nx(e)) = Pv(e) /\ Pv(Nx(e)) = e
                           /\ Nx(e) # e /\ Pv(e) # e /\ Nx(e) # Pv(e)
      /\ x[1] # y[1] /\ Ad(m, x) = y /\ Ad(m, y) = x
  BY SwapParts DEF Swaps
<1>3. (x \in F <=> x \in S) /\ (y \in F <=> y \in S) /\ (Nx(x) \in F <=> Nx(x) \in S) /\ (Nx(y) \in F <=> Nx(y) \in S)
  BY <1>1, <1>2
<1>4. (x \in S <=> Pv(y) \in S) /\ (Pv(x) \in S <=> y \in S)
  <2>1. Mated(m2, Nx(x), Nx(y))
    BY SwapMid
  <2>2. (Pv(Nx(x)) \in S <=> Nx(Nx(y)) \in S) /\ (Nx(Nx(x)) \in S <=> Pv(Nx(y)) \in S)
    BY <1>0, <2>1, MatedClosed
  <2> QED
    BY <1>2, <2>2
<1>5. ASSUME NEW u, u = Ad(m, Nx(y)), u # NoAdja
      PROVE  (Pv(Nx(y)) \in F <=> Nx(u) \in F) /\ (Nx(Nx(y)) \in F <=> Pv(u) \in F)
  <2>1. /\ Mated(m2, x, u) /\ u[1] # x[1] /\ u[1] # y[1]
        /\ Nx(u) \in Darts(m) /\ Pv(u) \in Darts(m) /\ Nx(u)[1] = u[1] /\ Pv(u)[1] = u[1]
    BY <1>5, SwapTaken
  <2>2. (Pv(x) \in S <=> Nx(u) \in S) /\ (Nx(x) \in S <=> Pv(u) \in S)
    BY <1>0, <2>1, MatedClosed
  <2>3. (Nx(u) \in F <=> Nx(u) \in S) /\ (Pv(u) \in F <=> Pv(u) \in S)
    BY <1>1, <1>2, <2>1
  <2> QED
    BY <1>1, <1>2, <1>3, <1>4, <2>2, <2>3
<1>6. ASSUME NEW u, u = Ad(m, Nx(x)), u # NoAdja
      PROVE  (Pv(Nx(x)) \in F <=> Nx(u) \in F) /\ (Nx(Nx(x)) \in F <=> Pv(u) \in F)
  <2>1. /\ Mated(m2, y, u) /\ u[1] # x[1] /\ u[1] # y[1]
        /\ Nx(u) \in Darts(m) /\ Pv(u) \in Darts(m) /\ Nx(u)[1] = u[1] /\ Pv(u)[1] = u[1]
    BY <1>0, <1>6, SwapTaken
  <2>2. (Pv(y) \in S <=> Nx(u) \in S) /\ (Nx(y) \in S <=> Pv(u) \in S)
    BY <1>0, <2>1, MatedClosed
  <2>3. (Nx(u) \in F <=> Nx(u) \in S) /\ (Pv(u) \in F <=> Pv(u) \in S)
    BY <1>1, <1>2, <2>1
  <2> QED
    BY <1>1, <1>2, <1>3, <1>4, <2>2, <2>3
<1> SUFFICES ASSUME NEW g \in Darts(m), NEW a, a = Ad(m, g), a # NoAdja
             PROVE  Pv(g) \in F <=> Nx(a) \in F
  BY DEF Closed, F
<1>7. a \in Darts(m) /\ Ad(m, a) = g /\ g # NoAdja
  BY Twin
<1>8. CASE g \in {x, y}
  BY <1>1, <1>2, <1>3, <1>8
<1>9. CASE g \in {Nx(x), Nx(y)} \/ a \in {Nx(x), Nx(y)}
  BY <1>5, <1>6, <1>7, <1>9
<1>10. CASE g \notin {x, y, Nx(x), Nx(y)} /\ a \notin {Nx(x), Nx(y)}
  <2>1. Mated(m2, g, a) /\ Pv(g) \in Darts(m) /\ Pv(g) \notin {Pv(x), Pv(y)} /\ a \notin {x, y, Nx(x), Nx(y)}
    BY <1>10, SwapAside
  <2>2. Nx(a) \in Darts(m) /\ Nx(a) \notin {Pv(x), Pv(y)}
    BY <1>7, <2>1, SwapAside
  <2>3. Pv(g) \in S <=> Nx(a) \in S
    BY <1>0, <2>1, MatedClosed
  <2> QED
    BY <1>1, <2>1, <2>2, <2>3
<1> QED
  BY <1>8, <1>9, <1>10

LEMMA SwapFan ==
  ASSUME NEW m, Solid(m), OneFan(m), NEW m2, NEW x, NEW y, Swaps(m, m2, x, y)
  PROVE  OneFan(m2)
<1>0. Darts(m2) = Darts(m) /\ m2 \in MeshSet /\ OnLive(m2)
  BY SwapParts, SwapOnLive DEF Swaps
<1> SUFFICES ASSUME NEW S \in SUBSET Darts(m), Closed(m2, S), NEW e \in S, NEW f \in Darts(m),
                    Vt(m2, e) = Vt(m2, f), Movable(Pt(m2, Vt(m2, e)))
             PROVE  f \in S
  BY <1>0 DEF OneFan
<1> DEFINE F == Swung(m, x, y, S)
<1>1. /\ \A g \in Darts(m) : g # Pv(x) /\ g # Pv(y) => (g \in F <=> g \in S)
      /\ F \in SUBSET Darts(m) /\ Closed(m, F)
  BY SwungHolds, SwungClosed
<1> HIDE DEF F
<1>2. (x \in S <=> Pv(y) \in S) /\ (Pv(x) \in S <=> y \in S)
  <2>1. Mated(m2, Nx(x), Nx(y))
    BY SwapMid
  <2>2. (Pv(Nx(x)) \in S <=> Nx(Nx(y)) \in S) /\ (Nx(Nx(x)) \in S <=> Pv(Nx(y)) \in S)
    BY <1>0, <2>1, MatedClosed
  <2> QED
    BY <2>2, SwapParts
<1>3. ASSUME NEW g \in Darts(m)
      PROVE  \E h \in Darts(m) : Vt(m, h) = Vt(m2, g) /\ (h \in F <=> g \in S)
  <2>1. CASE g = Pv(x)
    <3>1. y \in Darts(m) /\ y # Pv(x) /\ y # Pv(y) /\ Vt(m2, Pv(x)) = Vt(m, y)
      BY SwapParts
    <3> QED
      BY <1>1, <1>2, <2>1, <3>1
  <2>2. CASE g = Pv(y)
    <3>1. x \in Darts(m) /\ x # Pv(x) /\ x # Pv(y) /\ Vt(m2, Pv(y)) = Vt(m, x)
      BY SwapParts
    <3> QED
      BY <1>1, <1>2, <2>2, <3>1
  <2>3. CASE g # Pv(x) /\ g # Pv(y)
    <3>1. Vt(m2, g) = Vt(m, g)
      BY <2>3 DEF Swaps, SwapVt
    <3> QED
      BY <1>1, <2>3, <3>1
  <2> QED
    BY <2>1, <2>2, <2>3
<1>4. PICK g \in Darts(m) : Vt(m, g) = Vt(m2, e) /\ (g \in F <=> e \in S)
  BY <1>3
<1>5. PICK h \in Darts(m) : Vt(m, h) = Vt(m2, f) /\ (h \in F <=> f \in S)
  BY <1>3
<1>6. Vt(m, g) \in Live(m.pts)
  BY Corners
<1>7. Pt(m2, Vt(m, g)) = Pt(m, Vt(m, g))
  BY <1>6 DEF Swaps
<1>8. Vt(m, g) = Vt(m, h) /\ Movable(Pt(m, Vt(m, g))) /\ g \in F
  BY <1>4, <1>5, <1>7
<1>9. h \in F
  BY <1>1, <1>8 DEF OneFan
<1> QED
  BY <1>5, <1>9

LEMMA SwapSoundly ==
  ASSUME NEW m, Sound(m), NEW m2, NEW x, NEW y, Swaps(m, m2, x, y), ~EDG(Tg(m, x)),
         Twice(m2, x) > 0, Twice(m2, y) > 0
  PROVE  Sound(m2)
<1>1. Solid(m) /\ Used(m) /\ Tagged(m) /\ Plain(m) /\ OneFan(m)
  BY DEF Sound, Solid
<1>2. OnLive(m2) /\ Joined(m2) /\ Positive(m2)
  BY <1>1, SwapOnLive, SwapJoined, SwapPositive
<1>3. Used(m2) /\ Tagged(m2) /\ Plain(m2) /\ OneFan(m2)
  BY <1>1, SwapUsed, SwapTagged, SwapPlain, SwapFan
<1> QED
  BY <1>2, <1>3 DEF Sound, Swaps

(* A move: only the place of a vertex changes.                             *)
Moves(m, m2, p) ==
    /\ m2 \in MeshSet /\ m2.pts = m.pts /\ m2.trs = m.trs /\ m2.tria = m.tria
    /\ \A q \in 1..NPMax : Pt(m2, q) = Pt(m, q)
    /\ \A q \in 1..NPMax : q # p => At(m2, q) = At(m, q)

LEMMA MoveSoundly ==
  ASSUME NEW m, Sound(m), NEW m2, NEW p, Moves(m, m2, p),
         \A e \in Darts(m) : Vt(m, e) = p => Twice(m2, e) > 0
  PROVE  Sound(m2)
<1>1. Solid(m) /\ Used(m) /\ Tagged(m) /\ Plain(m) /\ OneFan(m) /\ Lists(m)
      /\ OnLive(m) /\ Joined(m) /\ Positive(m) /\ m \in MeshSet
  BY DEF Sound, Solid
<1>2. /\ Darts(m2) = Darts(m) /\ Live(m2.pts) = Live(m.pts)
      /\ \A e : Vt(m2, e) = Vt(m, e) /\ Ad(m2, e) = Ad(m, e) /\ Tg(m2, e) = Tg(m, e) /\ Rf(m2, e) = Rf(m, e)
      /\ \A e : KindOf(m2, e) = KindOf(m, e)
      /\ Live(m.pts) \subseteq 1..NPMax /\ Live(m2.pts) \subseteq 1..NPMax
      /\ m2 \in MeshSet /\ Lists(m2)
  BY <1>1, MeshParts DEF Moves, Darts, Vt, Ad, Tg, Rf, KindOf, Lists
<1>3. OnLive(m2) /\ Joined(m2) /\ Used(m2)
  BY <1>1, <1>2 DEF OnLive, Joined, Used
<1>4. \A q \in 1..NPMax : Pt(m2, q) = Pt(m, q)
  BY DEF Moves
<1>5. Plain(m2)
  BY <1>1, <1>2, <1>4 DEF Plain
<1>6. Tagged(m2)
  <2>1. \A e \in Darts(m) : Vt(m, Nx(e)) \in 1..NPMax /\ Vt(m, Pv(e)) \in 1..NPMax
    BY <1>1, DartsTurn, Corners
  <2> QED
    BY <1>1, <1>2, <1>4, <2>1 DEF Tagged
<1>7. OneFan(m2)
  <2>1. \A S : Closed(m2, S) <=> Closed(m, S)
    BY <1>2 DEF Closed
  <2>2. \A e \in Darts(m) : Vt(m, e) \in 1..NPMax
    BY <1>1, Corners
  <2> QED
    BY <1>1, <1>2, <1>4, <2>1, <2>2 DEF OneFan
<1>8. Positive(m2)
  <2> SUFFICES ASSUME NEW e \in Darts(m) PROVE Twice(m2, e) > 0
    BY <1>2 DEF Positive
  <2>1. /\ Nx(e) \in Darts(m) /\ Pv(e) \in Darts(m)
        /\ Twice(m2, Nx(e)) = Twice(m2, e) /\ Twice(m2, Pv(e)) = Twice(m2, e)
    BY <1>2, <1>3, DartsTurn, TwiceTurns
  <2>2. CASE Vt(m, e) = p \/ Vt(m, Nx(e)) = p \/ Vt(m, Pv(e)) = p
    BY <2>1, <2>2
  <2>3. CASE Vt(m, e) # p /\ Vt(m, Nx(e)) # p /\ Vt(m, Pv(e)) # p
    <3>1. Vt(m, e) \in 1..NPMax /\ Vt(m, Nx(e)) \in 1..NPMax /\ Vt(m, Pv(e)) \in 1..NPMax
      BY <1>1, <2>1, Corners
    <3>2. Twice(m2, e) = Twice(m, e)
      BY <1>2, <2>3, <3>1 DEF Twice, Moves
    <3> QED
      BY <1>1, <3>2 DEF Positive
  <2> QED
    BY <2>2, <2>3
<1> QED
  BY <1>2, <1>3, <1>5, <1>6, <1>7, <1>8 DEF Sound

-------------------------------------------------------------------------------

(* The cut of triangles by patterns: triangle by triangle, without a look  *)
(* at the neighbours, and yet the pieces join.                             *)

(* The edge of a triangle opposite to a corner, from one end to the other, *)
(* from the other to the one, and without a direction.                     *)
Side(t, i)  == <<t.v[Nxt(i)], t.v[Prv(i)]>>
Back(t, i)  == <<t.v[Prv(i)], t.v[Nxt(i)]>>
Rim(t, i)   == {t.v[Nxt(i)], t.v[Prv(i)]}
Verts(t)    == {t.v[i] : i \in Local}
Cornered(t) == \A i, j \in Local : t.v[i] = t.v[j] => i = j

(* A triangle of the mesh, whatever its numbers. *)
Plane == [v : [Local -> Nat], tag : [Local -> SUBSET TagSet], ref : Nat, adja : [Local -> Nat \X Nat]]

(* The vertices of the input that a vertex comes from: an end of the edge  *)
(* that it cuts, or itself.                                                *)
Origin(marks, p) == IF \E e \in DOMAIN marks : marks[e] = p
                    THEN CHOOSE e \in DOMAIN marks : marks[e] = p ELSE {p}

(* The edges of a triangle that are cut, where, and what is left of it.    *)
CutOf(t, marks)   == {i \in Local : Rim(t, i) \in DOMAIN marks}
CutAt(t, marks)   == [i \in CutOf(t, marks) |-> marks[Rim(t, i)]]
CutUp(t, marks)   == IF CutOf(t, marks) = {} THEN <<t>> ELSE Pieces(t, CutAt(t, marks), CutOf(t, marks))

(* Each edge has a point of its own, that is no vertex of the triangle.    *)
Marks(marks) == /\ \A e \in DOMAIN marks : marks[e] \in Nat
                /\ \A e, f \in DOMAIN marks : marks[e] = marks[f] => e = f
Fresh(t, marks) == Marks(marks) /\ \A e \in DOMAIN marks : marks[e] \notin Verts(t)

(* Side i of piece q lies in side s of the triangle: it is that side, or   *)
(* the one or the other half of it.                                        *)
Lies(t, marks, s, d) ==
    \/ Rim(t, s) \notin DOMAIN marks /\ d = Side(t, s)
    \/ Rim(t, s) \in DOMAIN marks /\ d = <<t.v[Nxt(s)], marks[Rim(t, s)]>>
    \/ Rim(t, s) \in DOMAIN marks /\ d = <<marks[Rim(t, s)], t.v[Prv(s)]>>

(* The pieces P of a triangle t fit in it: they are triangles of its       *)
(* reference; their vertices come from its three; no two have the same     *)
(* vertices, nor a side of the one a side of the other; a side is either   *)
(* inside t, without tags and along another piece, or part of a side of t, *)
(* with its tags; the sides of t are covered; the points of the cut edges  *)
(* are used.                                                               *)
Typed3(t, P)      == \A n \in DOMAIN P : P[n] \in Plane /\ P[n].ref = t.ref /\ Cornered(P[n])
Rooted(t, marks, P) == \A n \in DOMAIN P : UNION {Origin(marks, P[n].v[i]) : i \in Local} = Verts(t)
Apart3(P) == \A n, m \in DOMAIN P : Verts(P[n]) = Verts(P[m]) => n = m
OneSide(P) == \A n, m \in DOMAIN P, i, j \in Local : Side(P[n], i) = Side(P[m], j) => n = m /\ i = j
InnerSide(t, marks, P, n, i) ==
    /\ P[n].tag[i] = {}
    /\ \E m \in DOMAIN P, j \in Local : Side(P[m], j) = Back(P[n], i)
    /\ Origin(marks, P[n].v[Nxt(i)]) \union Origin(marks, P[n].v[Prv(i)]) = Verts(t)
OuterSide(t, marks, P, n, i) == \E s \in Local : P[n].tag[i] = t.tag[s] /\ Lies(t, marks, s, Side(P[n], i))
Sided(t, marks, P) == \A n \in DOMAIN P, i \in Local : InnerSide(t, marks, P, n, i) \/ OuterSide(t, marks, P, n, i)
Covered(t, marks, P) ==
    \A s \in Local : \A d : Lies(t, marks, s, d) => \E n \in DOMAIN P, i \in Local : Side(P[n], i) = d
Used3(t, marks, P) == UNION {Verts(P[n]) : n \in DOMAIN P} = Verts(t) \union {marks[Rim(t, i)] : i \in CutOf(t, marks)}

FitIn(t, marks, P) == /\ Typed3(t, P) /\ Rooted(t, marks, P) /\ Apart3(P) /\ OneSide(P)
                      /\ Sided(t, marks, P) /\ Covered(t, marks, P) /\ Used3(t, marks, P)

(* The corners of a triangle in turn. *)
LEMMA Turns ==
  ASSUME NEW i \in Local
  PROVE  /\ Nxt(i) \in Local /\ Prv(i) \in Local /\ Nxt(i) # i /\ Prv(i) # i /\ Nxt(i) # Prv(i)
         /\ Nxt(Nxt(i)) = Prv(i) /\ Prv(Prv(i)) = Nxt(i) /\ Nxt(Prv(i)) = i /\ Prv(Nxt(i)) = i
         /\ Local = {i, Nxt(i), Prv(i)}
BY DEF Local, Nxt, Prv

(* Where the points of the cut edges, and the others, come from. *)
LEMMA OriginOf ==
  ASSUME NEW marks, Marks(marks)
  PROVE  /\ \A e \in DOMAIN marks : Origin(marks, marks[e]) = e
         /\ \A p : (\A e \in DOMAIN marks : marks[e] # p) => Origin(marks, p) = {p}
BY DEF Marks, Origin

(* A triangle given by its vertices and tags from corner i on. *)
Is3(q, i, a, b, c, g, h, k) ==
    /\ q.v[i] = a /\ q.v[Nxt(i)] = b /\ q.v[Prv(i)] = c
    /\ q.tag[i] = g /\ q.tag[Nxt(i)] = h /\ q.tag[Prv(i)] = k

(* Its sides and vertices, from those of its corners. *)
LEMMA Is3Says ==
  ASSUME NEW i \in Local, NEW q, NEW a, NEW b, NEW c, NEW g, NEW h, NEW k, Is3(q, i, a, b, c, g, h, k)
  PROVE  /\ Side(q, i) = <<b, c>> /\ Side(q, Nxt(i)) = <<c, a>> /\ Side(q, Prv(i)) = <<a, b>>
         /\ Back(q, i) = <<c, b>> /\ Back(q, Nxt(i)) = <<a, c>> /\ Back(q, Prv(i)) = <<b, a>>
         /\ Rim(q, i) = {b, c} /\ Rim(q, Nxt(i)) = {c, a} /\ Rim(q, Prv(i)) = {a, b}
         /\ Verts(q) = {a, b, c}
         /\ (a # b /\ b # c /\ c # a => Cornered(q))
<1>1. /\ Nxt(i) \in Local /\ Prv(i) \in Local /\ Nxt(i) # i /\ Prv(i) # i /\ Nxt(i) # Prv(i)
      /\ Nxt(Nxt(i)) = Prv(i) /\ Prv(Prv(i)) = Nxt(i) /\ Nxt(Prv(i)) = i /\ Prv(Nxt(i)) = i
      /\ Local = {i, Nxt(i), Prv(i)}
  BY Turns
<1>2. Verts(q) = {a, b, c}
  BY <1>1 DEF Verts, Is3
<1>3. (a # b /\ b # c /\ c # a) => Cornered(q)
  BY <1>1 DEF Cornered, Is3
<1> QED
  BY <1>1, <1>2, <1>3 DEF Side, Back, Rim, Is3

(* A triangle with other vertices and tags. *)
LEMMA Redrawn ==
  ASSUME NEW t \in Plane, NEW i \in Local, NEW a \in Nat, NEW b \in Nat, NEW c \in Nat,
         NEW g \in SUBSET TagSet, NEW h \in SUBSET TagSet, NEW k \in SUBSET TagSet, NEW q,
         q = [v |-> q.v, tag |-> q.tag, ref |-> t.ref, adja |-> t.adja],
         q.v = [j \in Local |-> q.v[j]], q.tag = [j \in Local |-> q.tag[j]], Is3(q, i, a, b, c, g, h, k)
  PROVE  q \in Plane /\ q.ref = t.ref
<1>1. Local = {i, Nxt(i), Prv(i)}
  BY Turns
<1>2. q.v \in [Local -> Nat]
  <2>1. \A j \in Local : q.v[j] \in Nat
    BY <1>1 DEF Is3
  <2> QED
    BY <2>1
<1>3. q.tag \in [Local -> SUBSET TagSet]
  <2>1. \A j \in Local : q.tag[j] \in SUBSET TagSet
    BY <1>1 DEF Is3
  <2> QED
    BY <2>1
<1>4. t.ref \in Nat /\ t.adja \in [Local -> Nat \X Nat]
  BY DEF Plane
<1>5. [v |-> q.v, tag |-> q.tag, ref |-> t.ref, adja |-> t.adja] \in Plane
  BY <1>2, <1>3, <1>4 DEF Plane
<1>6. q.ref = t.ref
  OBVIOUS
<1> QED
  BY <1>5, <1>6

(* The parts of a triangle. *)
LEMMA PlaneParts ==
  ASSUME NEW t \in Plane
  PROVE  /\ t.v \in [Local -> Nat] /\ t.tag \in [Local -> SUBSET TagSet]
         /\ t = [v |-> t.v, tag |-> t.tag, ref |-> t.ref, adja |-> t.adja]
BY DEF Plane

(* What the three patterns make, corner by corner: one cut edge, ... *)
LEMMA Split1Is ==
  ASSUME NEW t \in Plane, NEW i \in Local, NEW x, x[i] \in Nat, NEW P, P = Split1(t, x, i),
         NEW a, NEW b, NEW c, NEW g, NEW h, NEW k, Is3(t, i, a, b, c, g, h, k)
  PROVE  /\ DOMAIN P = {1, 2}
         /\ Is3(P[1], i, a, b, x[i], g, {}, k) /\ Is3(P[2], i, a, x[i], c, g, h, {})
         /\ \A n \in DOMAIN P : P[n] \in Plane /\ P[n].ref = t.ref
<1>1. /\ Nxt(i) \in Local /\ Prv(i) \in Local /\ Nxt(i) # i /\ Prv(i) # i /\ Nxt(i) # Prv(i)
  BY Turns
<1>2. PICK v, tag, ref, adja : /\ v = t.v /\ tag = t.tag /\ ref = t.ref /\ adja = t.adja
                               /\ v \in [Local -> Nat] /\ tag \in [Local -> SUBSET TagSet]
                               /\ t = [v |-> v, tag |-> tag, ref |-> ref, adja |-> adja]
  BY PlaneParts
<1>3. /\ a \in Nat /\ b \in Nat /\ c \in Nat
      /\ g \in SUBSET TagSet /\ h \in SUBSET TagSet /\ k \in SUBSET TagSet /\ {} \in SUBSET TagSet
  BY <1>1, <1>2 DEF Is3
<1>4. PICK q : q = P[1]
  OBVIOUS
<1>5. PICK r : r = P[2]
  OBVIOUS
<1>6. /\ DOMAIN P = {1, 2}
      /\ q = [t EXCEPT !.v[Prv(i)] = x[i], !.tag[Nxt(i)] = {}]
      /\ r = [t EXCEPT !.v[Nxt(i)] = x[i], !.tag[Prv(i)] = {}]
  BY <1>4, <1>5 DEF Split1
<1>7. /\ q = [v |-> [v EXCEPT ![Prv(i)] = x[i]], tag |-> [tag EXCEPT ![Nxt(i)] = {}], ref |-> ref, adja |-> adja]
      /\ r = [v |-> [v EXCEPT ![Nxt(i)] = x[i]], tag |-> [tag EXCEPT ![Prv(i)] = {}], ref |-> ref, adja |-> adja]
  BY <1>2, <1>6
<1>8. Is3(q, i, a, b, x[i], g, {}, k) /\ q \in Plane /\ q.ref = t.ref
  <2>1. Is3(q, i, a, b, x[i], g, {}, k)
    BY <1>1, <1>2, <1>7 DEF Is3
  <2>2. /\ q = [v |-> q.v, tag |-> q.tag, ref |-> t.ref, adja |-> t.adja]
        /\ q.v = [j \in Local |-> q.v[j]] /\ q.tag = [j \in Local |-> q.tag[j]]
    BY <1>1, <1>2, <1>7
  <2> QED
    BY <1>3, <2>1, <2>2, Redrawn
<1>9. Is3(r, i, a, x[i], c, g, h, {}) /\ r \in Plane /\ r.ref = t.ref
  <2>1. Is3(r, i, a, x[i], c, g, h, {})
    BY <1>1, <1>2, <1>7 DEF Is3
  <2>2. /\ r = [v |-> r.v, tag |-> r.tag, ref |-> t.ref, adja |-> t.adja]
        /\ r.v = [j \in Local |-> r.v[j]] /\ r.tag = [j \in Local |-> r.tag[j]]
    BY <1>1, <1>2, <1>7
  <2> QED
    BY <1>3, <2>1, <2>2, Redrawn
<1> QED
  BY <1>4, <1>5, <1>6, <1>8, <1>9

(* ... two cut edges, ... *)
LEMMA Split2Is ==
  ASSUME NEW t \in Plane, NEW i \in Local, NEW x, x[Nxt(i)] \in Nat, x[Prv(i)] \in Nat, NEW P, P = Split2(t, x, i),
         NEW a, NEW b, NEW c, NEW g, NEW h, NEW k, Is3(t, i, a, b, c, g, h, k)
  PROVE  /\ DOMAIN P = {1, 2, 3}
         /\ Is3(P[1], i, a, x[Prv(i)], x[Nxt(i)], {}, h, k)
         /\ Is3(P[2], i, x[Prv(i)], b, c, g, {}, k)
         /\ Is3(P[3], i, x[Nxt(i)], x[Prv(i)], c, {}, h, {})
         /\ \A n \in DOMAIN P : P[n] \in Plane /\ P[n].ref = t.ref
<1>1. /\ Nxt(i) \in Local /\ Prv(i) \in Local /\ Nxt(i) # i /\ Prv(i) # i /\ Nxt(i) # Prv(i)
  BY Turns
<1>2. PICK v, tag, ref, adja : /\ v = t.v /\ tag = t.tag /\ ref = t.ref /\ adja = t.adja
                               /\ v \in [Local -> Nat] /\ tag \in [Local -> SUBSET TagSet]
                               /\ t = [v |-> v, tag |-> tag, ref |-> ref, adja |-> adja]
  BY PlaneParts
<1>3. /\ a \in Nat /\ b \in Nat /\ c \in Nat
      /\ g \in SUBSET TagSet /\ h \in SUBSET TagSet /\ k \in SUBSET TagSet /\ {} \in SUBSET TagSet
  BY <1>1, <1>2 DEF Is3
<1>4. PICK q, r, s : q = P[1] /\ r = P[2] /\ s = P[3]
  OBVIOUS
<1>5. DOMAIN P = {1, 2, 3}
  BY DEF Split2
<1>6. /\ q = [t EXCEPT !.v[Nxt(i)] = x[Prv(i)], !.v[Prv(i)] = x[Nxt(i)], !.tag[i] = {}]
      /\ r = [t EXCEPT !.v[i] = x[Prv(i)], !.tag[Nxt(i)] = {}]
      /\ s = [t EXCEPT !.v[i] = x[Nxt(i)], !.v[Nxt(i)] = x[Prv(i)], !.tag[i] = {}, !.tag[Prv(i)] = {}]
  BY <1>4 DEF Split2
<1>7. Is3(q, i, a, x[Prv(i)], x[Nxt(i)], {}, h, k) /\ q \in Plane /\ q.ref = t.ref
  <2>1. q = [v |-> [[v EXCEPT ![Nxt(i)] = x[Prv(i)]] EXCEPT ![Prv(i)] = x[Nxt(i)]], tag |-> [tag EXCEPT ![i] = {}], ref |-> ref, adja |-> adja]
    BY <1>2, <1>6
  <2>2. Is3(q, i, a, x[Prv(i)], x[Nxt(i)], {}, h, k)
    BY <1>1, <1>2, <2>1 DEF Is3
  <2>3. /\ q = [v |-> q.v, tag |-> q.tag, ref |-> t.ref, adja |-> t.adja]
        /\ q.v = [j \in Local |-> q.v[j]] /\ q.tag = [j \in Local |-> q.tag[j]]
    BY <1>1, <1>2, <2>1
  <2> QED
    BY <1>1, <1>3, <2>2, <2>3, Redrawn
<1>8. Is3(r, i, x[Prv(i)], b, c, g, {}, k) /\ r \in Plane /\ r.ref = t.ref
  <2>1. r = [v |-> [v EXCEPT ![i] = x[Prv(i)]], tag |-> [tag EXCEPT ![Nxt(i)] = {}], ref |-> ref, adja |-> adja]
    BY <1>2, <1>6
  <2>2. Is3(r, i, x[Prv(i)], b, c, g, {}, k)
    BY <1>1, <1>2, <2>1 DEF Is3
  <2>3. /\ r = [v |-> r.v, tag |-> r.tag, ref |-> t.ref, adja |-> t.adja]
        /\ r.v = [j \in Local |-> r.v[j]] /\ r.tag = [j \in Local |-> r.tag[j]]
    BY <1>1, <1>2, <2>1
  <2> QED
    BY <1>1, <1>3, <2>2, <2>3, Redrawn
<1>9. Is3(s, i, x[Nxt(i)], x[Prv(i)], c, {}, h, {}) /\ s \in Plane /\ s.ref = t.ref
  <2>1. s = [v |-> [[v EXCEPT ![i] = x[Nxt(i)]] EXCEPT ![Nxt(i)] = x[Prv(i)]], tag |-> [[tag EXCEPT ![i] = {}] EXCEPT ![Prv(i)] = {}], ref |-> ref, adja |-> adja]
    BY <1>2, <1>6
  <2>2. Is3(s, i, x[Nxt(i)], x[Prv(i)], c, {}, h, {})
    BY <1>1, <1>2, <2>1 DEF Is3
  <2>3. /\ s = [v |-> s.v, tag |-> s.tag, ref |-> t.ref, adja |-> t.adja]
        /\ s.v = [j \in Local |-> s.v[j]] /\ s.tag = [j \in Local |-> s.tag[j]]
    BY <1>1, <1>2, <2>1
  <2> QED
    BY <1>1, <1>3, <2>2, <2>3, Redrawn
<1> QED
  BY <1>4, <1>5, <1>7, <1>8, <1>9

(* ... or three. *)
LEMMA Split3Is ==
  ASSUME NEW t \in Plane, NEW i, i = 0, NEW x, x[0] \in Nat, x[1] \in Nat, x[2] \in Nat, NEW P, P = Split3(t, x),
         NEW a, NEW b, NEW c, NEW g, NEW h, NEW k, Is3(t, i, a, b, c, g, h, k)
  PROVE  /\ DOMAIN P = {1, 2, 3, 4}
         /\ Is3(P[1], i, a, x[2], x[1], {}, h, k)
         /\ Is3(P[2], i, x[2], b, x[0], g, {}, k)
         /\ Is3(P[3], i, x[1], x[0], c, g, h, {})
         /\ Is3(P[4], i, x[1], x[2], x[0], {}, {}, {})
         /\ \A n \in DOMAIN P : P[n] \in Plane /\ P[n].ref = t.ref
<1>0. i \in Local
  BY DEF Local
<1>1. /\ Nxt(i) \in Local /\ Prv(i) \in Local /\ Nxt(i) # i /\ Prv(i) # i /\ Nxt(i) # Prv(i) /\ i \in Local /\ Nxt(i) = 1 /\ Prv(i) = 2
  BY Turns, <1>0 DEF Local, Nxt, Prv
<1>2. PICK v, tag, ref, adja : /\ v = t.v /\ tag = t.tag /\ ref = t.ref /\ adja = t.adja
                               /\ v \in [Local -> Nat] /\ tag \in [Local -> SUBSET TagSet]
                               /\ t = [v |-> v, tag |-> tag, ref |-> ref, adja |-> adja]
  BY PlaneParts
<1>3. /\ a \in Nat /\ b \in Nat /\ c \in Nat
      /\ g \in SUBSET TagSet /\ h \in SUBSET TagSet /\ k \in SUBSET TagSet /\ {} \in SUBSET TagSet
  BY <1>1, <1>2 DEF Is3
<1>4. PICK q, r, s, u : q = P[1] /\ r = P[2] /\ s = P[3] /\ u = P[4]
  OBVIOUS
<1>5. DOMAIN P = {1, 2, 3, 4}
  BY DEF Split3
<1>6. /\ q = [t EXCEPT !.v[1] = x[2], !.v[2] = x[1], !.tag[0] = {}]
      /\ r = [t EXCEPT !.v[0] = x[2], !.v[2] = x[0], !.tag[1] = {}]
      /\ s = [t EXCEPT !.v[0] = x[1], !.v[1] = x[0], !.tag[2] = {}]
      /\ u = [t EXCEPT !.v[0] = x[1], !.v[1] = x[2], !.v[2] = x[0], !.tag = [j \in Local |-> {}]]
  BY <1>4, <1>1 DEF Split3
<1>7. Is3(q, i, a, x[2], x[1], {}, h, k) /\ q \in Plane /\ q.ref = t.ref
  <2>1. q = [v |-> [[v EXCEPT ![1] = x[2]] EXCEPT ![2] = x[1]], tag |-> [tag EXCEPT ![0] = {}], ref |-> ref, adja |-> adja]
    BY <1>2, <1>6
  <2>2. Is3(q, i, a, x[2], x[1], {}, h, k)
    BY <1>1, <1>2, <2>1 DEF Is3
  <2>3. /\ q = [v |-> q.v, tag |-> q.tag, ref |-> t.ref, adja |-> t.adja]
        /\ q.v = [j \in Local |-> q.v[j]] /\ q.tag = [j \in Local |-> q.tag[j]]
    BY <1>1, <1>2, <2>1
  <2> QED
    BY <1>1, <1>3, <2>2, <2>3, Redrawn
<1>8. Is3(r, i, x[2], b, x[0], g, {}, k) /\ r \in Plane /\ r.ref = t.ref
  <2>1. r = [v |-> [[v EXCEPT ![0] = x[2]] EXCEPT ![2] = x[0]], tag |-> [tag EXCEPT ![1] = {}], ref |-> ref, adja |-> adja]
    BY <1>2, <1>6
  <2>2. Is3(r, i, x[2], b, x[0], g, {}, k)
    BY <1>1, <1>2, <2>1 DEF Is3
  <2>3. /\ r = [v |-> r.v, tag |-> r.tag, ref |-> t.ref, adja |-> t.adja]
        /\ r.v = [j \in Local |-> r.v[j]] /\ r.tag = [j \in Local |-> r.tag[j]]
    BY <1>1, <1>2, <2>1
  <2> QED
    BY <1>1, <1>3, <2>2, <2>3, Redrawn
<1>9. Is3(s, i, x[1], x[0], c, g, h, {}) /\ s \in Plane /\ s.ref = t.ref
  <2>1. s = [v |-> [[v EXCEPT ![0] = x[1]] EXCEPT ![1] = x[0]], tag |-> [tag EXCEPT ![2] = {}], ref |-> ref, adja |-> adja]
    BY <1>2, <1>6
  <2>2. Is3(s, i, x[1], x[0], c, g, h, {})
    BY <1>1, <1>2, <2>1 DEF Is3
  <2>3. /\ s = [v |-> s.v, tag |-> s.tag, ref |-> t.ref, adja |-> t.adja]
        /\ s.v = [j \in Local |-> s.v[j]] /\ s.tag = [j \in Local |-> s.tag[j]]
    BY <1>1, <1>2, <2>1
  <2> QED
    BY <1>1, <1>3, <2>2, <2>3, Redrawn
<1>10. Is3(u, i, x[1], x[2], x[0], {}, {}, {}) /\ u \in Plane /\ u.ref = t.ref
  <2>1. u = [v |-> [[[v EXCEPT ![0] = x[1]] EXCEPT ![1] = x[2]] EXCEPT ![2] = x[0]], tag |-> [j \in Local |-> {}], ref |-> ref, adja |-> adja]
    BY <1>2, <1>6
  <2>2. Is3(u, i, x[1], x[2], x[0], {}, {}, {})
    BY <1>1, <1>2, <2>1 DEF Is3
  <2>3. /\ u = [v |-> u.v, tag |-> u.tag, ref |-> t.ref, adja |-> t.adja]
        /\ u.v = [j \in Local |-> u.v[j]] /\ u.tag = [j \in Local |-> u.tag[j]]
    BY <1>1, <1>2, <2>1
  <2> QED
    BY <1>1, <1>3, <2>2, <2>3, Redrawn
<1> QED
  BY <1>4, <1>5, <1>7, <1>8, <1>9, <1>10

(* Local indices from i on. *)
Ring(i, j, l) == j = Nxt(i) /\ l = Prv(i)

LEMMA RingSays ==
  ASSUME NEW i \in Local, NEW j, NEW l, Ring(i, j, l)
  PROVE  /\ j \in Local /\ l \in Local /\ i # j /\ j # l /\ l # i /\ Local = {i, j, l}
         /\ Nxt(i) = j /\ Prv(i) = l /\ Nxt(j) = l /\ Prv(j) = i /\ Nxt(l) = i /\ Prv(l) = j
BY Turns DEF Ring

(* What the sides and the vertices of a triangle are. *)
Seen(q, i, j, l, a, b, c) ==
    /\ q.v[i] = a /\ q.v[j] = b /\ q.v[l] = c
    /\ Side(q, i) = <<b, c>> /\ Side(q, j) = <<c, a>> /\ Side(q, l) = <<a, b>>
    /\ Back(q, i) = <<c, b>> /\ Back(q, j) = <<a, c>> /\ Back(q, l) = <<b, a>>
    /\ Rim(q, i) = {b, c} /\ Rim(q, j) = {c, a} /\ Rim(q, l) = {a, b}
    /\ Verts(q) = {a, b, c}

(* A triangle that is given by its corners, seen so. *)
LEMMA SeenBy ==
  ASSUME NEW i \in Local, NEW j, NEW l, Ring(i, j, l), NEW q, NEW a, NEW b, NEW c, NEW g, NEW h, NEW k,
         Is3(q, i, a, b, c, g, h, k)
  PROVE  /\ Seen(q, i, j, l, a, b, c) /\ q.tag[i] = g /\ q.tag[j] = h /\ q.tag[l] = k
         /\ (a # b /\ b # c /\ c # a => Cornered(q))
BY Is3Says DEF Seen, Ring, Is3

(* The pieces fit when one edge is cut, ... *)
LEMMA Fit1 ==
  ASSUME NEW t \in Plane, Cornered(t), NEW marks, Fresh(t, marks), NEW i \in Local,
         CutOf(t, marks) = {i}, NEW P, P = Split1(t, CutAt(t, marks), i)
  PROVE  FitIn(t, marks, P)
<1>1. PICK j, l : Ring(i, j, l)
  BY DEF Ring
<1>2. /\ j \in Local /\ l \in Local /\ i # j /\ j # l /\ l # i /\ Local = {i, j, l}
      /\ Nxt(i) = j /\ Prv(i) = l /\ Nxt(j) = l /\ Prv(j) = i /\ Nxt(l) = i /\ Prv(l) = j
  BY <1>1, RingSays
<1>3. PICK a, b, c, g, h, k : Is3(t, i, a, b, c, g, h, k)
  BY DEF Is3
<1>4. Seen(t, i, j, l, a, b, c) /\ t.tag[i] = g /\ t.tag[j] = h /\ t.tag[l] = k
  BY <1>1, <1>3, SeenBy
<1>5. a # b /\ b # c /\ c # a
  BY <1>2, <1>4 DEF Cornered, Seen
<1>6. {b, c} \in DOMAIN marks /\ {c, a} \notin DOMAIN marks /\ {a, b} \notin DOMAIN marks
  BY <1>2, <1>4 DEF CutOf, Seen
<1>7. PICK m : m = marks[{b, c}]
  OBVIOUS
<1>8. m \in Nat /\ CutAt(t, marks)[i] = m /\ m # a /\ m # b /\ m # c
  <2>1. CutAt(t, marks)[i] = marks[Rim(t, i)]
    BY DEF CutAt
  <2> QED
    BY <1>4, <1>6, <1>7, <2>1 DEF Fresh, Marks, Seen
<1>9. Origin(marks, a) = {a} /\ Origin(marks, b) = {b} /\ Origin(marks, c) = {c} /\ Origin(marks, m) = {b, c}
  BY <1>4, <1>6, <1>7, OriginOf DEF Fresh, Seen
<1>10. /\ DOMAIN P = {1, 2}
       /\ Is3(P[1], i, a, b, m, g, {}, k) /\ Is3(P[2], i, a, m, c, g, h, {})
       /\ \A n \in DOMAIN P : P[n] \in Plane /\ P[n].ref = t.ref
  BY <1>3, <1>8, Split1Is
<1>11. /\ Seen(P[1], i, j, l, a, b, m) /\ P[1].tag[i] = g /\ P[1].tag[j] = {} /\ P[1].tag[l] = k /\ Cornered(P[1])
       /\ Seen(P[2], i, j, l, a, m, c) /\ P[2].tag[i] = g /\ P[2].tag[j] = h /\ P[2].tag[l] = {} /\ Cornered(P[2])
  BY <1>1, <1>5, <1>8, <1>10, SeenBy
<1>12. Typed3(t, P)
  BY <1>10, <1>11 DEF Typed3
<1>13. Rooted(t, marks, P)
  BY <1>2, <1>4, <1>9, <1>10, <1>11 DEF Rooted, Seen
<1>14. Apart3(P)
  BY <1>5, <1>8, <1>10, <1>11 DEF Apart3, Seen
<1>15. OneSide(P)
  BY <1>2, <1>5, <1>8, <1>10, <1>11 DEF OneSide, Seen
<1>16. Sided(t, marks, P)
  <2>1. InnerSide(t, marks, P, 1, j)
    BY <1>2, <1>4, <1>9, <1>10, <1>11 DEF InnerSide, Seen
  <2>2. InnerSide(t, marks, P, 2, l)
    BY <1>2, <1>4, <1>9, <1>10, <1>11 DEF InnerSide, Seen
  <2>3. OuterSide(t, marks, P, 1, i) /\ OuterSide(t, marks, P, 1, l)
    BY <1>2, <1>4, <1>6, <1>7, <1>11 DEF OuterSide, Lies, Seen
  <2>4. OuterSide(t, marks, P, 2, i) /\ OuterSide(t, marks, P, 2, j)
    BY <1>2, <1>4, <1>6, <1>7, <1>11 DEF OuterSide, Lies, Seen
  <2> QED
    BY <1>2, <1>10, <2>1, <2>2, <2>3, <2>4 DEF Sided
<1>17. Covered(t, marks, P)
  <2>1. ASSUME NEW s \in Local, NEW d, Lies(t, marks, s, d)
        PROVE  d \in {<<b, m>>, <<m, c>>, <<c, a>>, <<a, b>>}
    <3>1. CASE s = i
      BY <1>2, <1>4, <1>6, <1>7, <2>1, <3>1 DEF Lies, Seen
    <3>2. CASE s = j
      BY <1>2, <1>4, <1>6, <2>1, <3>2 DEF Lies, Seen
    <3>3. CASE s = l
      BY <1>2, <1>4, <1>6, <2>1, <3>3 DEF Lies, Seen
    <3> QED
      BY <1>2, <3>1, <3>2, <3>3
  <2>2. /\ Side(P[1], i) = <<b, m>> /\ Side(P[2], i) = <<m, c>>
        /\ Side(P[2], j) = <<c, a>> /\ Side(P[1], l) = <<a, b>>
    BY <1>11 DEF Seen
  <2> QED
    BY <1>2, <1>10, <2>1, <2>2 DEF Covered
<1>18. Used3(t, marks, P)
  <2>1. UNION {Verts(P[n]) : n \in DOMAIN P} = Verts(P[1]) \union Verts(P[2])
    BY <1>10
  <2>2. {marks[Rim(t, s)] : s \in CutOf(t, marks)} = {m}
    BY <1>4, <1>7 DEF Seen
  <2> QED
    BY <1>4, <1>11, <2>1, <2>2 DEF Used3, Seen
<1> QED
  BY <1>12, <1>13, <1>14, <1>15, <1>16, <1>17, <1>18 DEF FitIn

(* ... two edges, ... *)
LEMMA Fit2 ==
  ASSUME NEW t \in Plane, Cornered(t), NEW marks, Fresh(t, marks), NEW i \in Local,
         CutOf(t, marks) = Local \ {i}, NEW P, P = Split2(t, CutAt(t, marks), i)
  PROVE  FitIn(t, marks, P)
<1>1. PICK j, l : Ring(i, j, l)
  BY DEF Ring
<1>2. /\ i \in Local /\ j \in Local /\ l \in Local /\ i # j /\ j # l /\ l # i /\ Local = {i, j, l}
      /\ Nxt(i) = j /\ Prv(i) = l /\ Nxt(j) = l /\ Prv(j) = i /\ Nxt(l) = i /\ Prv(l) = j
  BY <1>1, RingSays
<1>3. PICK a, b, c, g, h, k : Is3(t, i, a, b, c, g, h, k)
  BY DEF Is3
<1>4. Seen(t, i, j, l, a, b, c) /\ t.tag[i] = g /\ t.tag[j] = h /\ t.tag[l] = k
  BY <1>1, <1>2, <1>3, SeenBy
<1>5. a # b /\ b # c /\ c # a
  BY <1>2, <1>4 DEF Cornered, Seen
<1>6. {b, c} \notin DOMAIN marks /\ {c, a} \in DOMAIN marks /\ {a, b} \in DOMAIN marks
  BY <1>2, <1>4 DEF CutOf, Seen
<1>7. PICK q, r : q = marks[{c, a}] /\ r = marks[{a, b}]
  OBVIOUS
<1>8. /\ q \in Nat /\ CutAt(t, marks)[j] = q /\ q # a /\ q # b /\ q # c
      /\ r \in Nat /\ CutAt(t, marks)[l] = r /\ r # a /\ r # b /\ r # c
      /\ q # r
  <2>1. CutAt(t, marks)[j] = marks[Rim(t, j)] /\ CutAt(t, marks)[l] = marks[Rim(t, l)]
    BY <1>2 DEF CutAt
  <2>2. {c, a} # {a, b}
    BY <1>5
  <2> QED
    BY <1>4, <1>6, <1>7, <2>1, <2>2 DEF Fresh, Marks, Seen
<1>9. /\ Origin(marks, a) = {a} /\ Origin(marks, b) = {b} /\ Origin(marks, c) = {c}
      /\ Origin(marks, q) = {c, a} /\ Origin(marks, r) = {a, b}
  BY <1>4, <1>6, <1>7, OriginOf DEF Fresh, Seen
<1>10. /\ DOMAIN P = {1, 2, 3}
       /\ Is3(P[1], i, a, r, q, {}, h, k)
       /\ Is3(P[2], i, r, b, c, g, {}, k)
       /\ Is3(P[3], i, q, r, c, {}, h, {})
       /\ \A n \in DOMAIN P : P[n] \in Plane /\ P[n].ref = t.ref
  BY <1>2, <1>3, <1>8, Split2Is
<1>11. /\ Seen(P[1], i, j, l, a, r, q) /\ P[1].tag[i] = {} /\ P[1].tag[j] = h /\ P[1].tag[l] = k /\ Cornered(P[1])
       /\ Seen(P[2], i, j, l, r, b, c) /\ P[2].tag[i] = g /\ P[2].tag[j] = {} /\ P[2].tag[l] = k /\ Cornered(P[2])
       /\ Seen(P[3], i, j, l, q, r, c) /\ P[3].tag[i] = {} /\ P[3].tag[j] = h /\ P[3].tag[l] = {} /\ Cornered(P[3])
  BY <1>1, <1>2, <1>5, <1>8, <1>10, SeenBy
<1>12. Typed3(t, P)
  BY <1>10, <1>11 DEF Typed3
<1>13. Rooted(t, marks, P)
  BY <1>2, <1>4, <1>9, <1>10, <1>11 DEF Rooted, Seen
<1>14. Apart3(P)
  BY <1>5, <1>8, <1>10, <1>11 DEF Apart3, Seen
<1>15. OneSide(P)
  <2>1. /\ Side(P[1], i) = <<r, q>> /\ Side(P[1], j) = <<q, a>> /\ Side(P[1], l) = <<a, r>>
        /\ Side(P[2], i) = <<b, c>> /\ Side(P[2], j) = <<c, r>> /\ Side(P[2], l) = <<r, b>>
        /\ Side(P[3], i) = <<r, c>> /\ Side(P[3], j) = <<c, q>> /\ Side(P[3], l) = <<q, r>>
    BY <1>11 DEF Seen
  <2> QED
    BY <1>2, <1>5, <1>8, <1>10, <2>1 DEF OneSide
<1>16. Sided(t, marks, P)
  <2>1. InnerSide(t, marks, P, 1, i)
    <3>1. Side(P[3], l) = Back(P[1], i) /\ P[1].tag[i] = {}
      BY <1>11 DEF Seen
    <3>2. P[1].v[Nxt(i)] = r /\ P[1].v[Prv(i)] = q
      BY <1>2, <1>11 DEF Seen
    <3>3. Origin(marks, r) \union Origin(marks, q) = Verts(t)
      BY <1>4, <1>9 DEF Seen
    <3> QED
      BY <1>2, <1>10, <3>1, <3>2, <3>3 DEF InnerSide
  <2>2. InnerSide(t, marks, P, 2, j)
    <3>1. Side(P[3], i) = Back(P[2], j) /\ P[2].tag[j] = {}
      BY <1>11 DEF Seen
    <3>2. P[2].v[Nxt(j)] = c /\ P[2].v[Prv(j)] = r
      BY <1>2, <1>11 DEF Seen
    <3>3. Origin(marks, c) \union Origin(marks, r) = Verts(t)
      BY <1>4, <1>9 DEF Seen
    <3> QED
      BY <1>2, <1>10, <3>1, <3>2, <3>3 DEF InnerSide
  <2>3. InnerSide(t, marks, P, 3, i)
    <3>1. Side(P[2], j) = Back(P[3], i) /\ P[3].tag[i] = {}
      BY <1>11 DEF Seen
    <3>2. P[3].v[Nxt(i)] = r /\ P[3].v[Prv(i)] = c
      BY <1>2, <1>11 DEF Seen
    <3>3. Origin(marks, r) \union Origin(marks, c) = Verts(t)
      BY <1>4, <1>9 DEF Seen
    <3> QED
      BY <1>2, <1>10, <3>1, <3>2, <3>3 DEF InnerSide
  <2>4. InnerSide(t, marks, P, 3, l)
    <3>1. Side(P[1], i) = Back(P[3], l) /\ P[3].tag[l] = {}
      BY <1>11 DEF Seen
    <3>2. P[3].v[Nxt(l)] = q /\ P[3].v[Prv(l)] = r
      BY <1>2, <1>11 DEF Seen
    <3>3. Origin(marks, q) \union Origin(marks, r) = Verts(t)
      BY <1>4, <1>9 DEF Seen
    <3> QED
      BY <1>2, <1>10, <3>1, <3>2, <3>3 DEF InnerSide
  <2>5. OuterSide(t, marks, P, 1, j)
    <3>1. Side(P[1], j) = <<q, a>> /\ P[1].tag[j] = t.tag[j]
      BY <1>4, <1>11 DEF Seen
    <3>2. Lies(t, marks, j, <<q, a>>)
      BY <1>2, <1>4, <1>6, <1>7 DEF Lies, Seen
    <3> QED
      BY <1>2, <3>1, <3>2 DEF OuterSide
  <2>6. OuterSide(t, marks, P, 1, l)
    <3>1. Side(P[1], l) = <<a, r>> /\ P[1].tag[l] = t.tag[l]
      BY <1>4, <1>11 DEF Seen
    <3>2. Lies(t, marks, l, <<a, r>>)
      BY <1>2, <1>4, <1>6, <1>7 DEF Lies, Seen
    <3> QED
      BY <1>2, <3>1, <3>2 DEF OuterSide
  <2>7. OuterSide(t, marks, P, 2, i)
    <3>1. Side(P[2], i) = <<b, c>> /\ P[2].tag[i] = t.tag[i]
      BY <1>4, <1>11 DEF Seen
    <3>2. Lies(t, marks, i, <<b, c>>)
      BY <1>2, <1>4, <1>6, <1>7 DEF Lies, Seen
    <3> QED
      BY <1>2, <3>1, <3>2 DEF OuterSide
  <2>8. OuterSide(t, marks, P, 2, l)
    <3>1. Side(P[2], l) = <<r, b>> /\ P[2].tag[l] = t.tag[l]
      BY <1>4, <1>11 DEF Seen
    <3>2. Lies(t, marks, l, <<r, b>>)
      BY <1>2, <1>4, <1>6, <1>7 DEF Lies, Seen
    <3> QED
      BY <1>2, <3>1, <3>2 DEF OuterSide
  <2>9. OuterSide(t, marks, P, 3, j)
    <3>1. Side(P[3], j) = <<c, q>> /\ P[3].tag[j] = t.tag[j]
      BY <1>4, <1>11 DEF Seen
    <3>2. Lies(t, marks, j, <<c, q>>)
      BY <1>2, <1>4, <1>6, <1>7 DEF Lies, Seen
    <3> QED
      BY <1>2, <3>1, <3>2 DEF OuterSide
  <2> QED
    BY <1>2, <1>10, <2>1, <2>2, <2>3, <2>4, <2>5, <2>6, <2>7, <2>8, <2>9 DEF Sided
<1>17. Covered(t, marks, P)
  <2>1. ASSUME NEW s \in Local, NEW d, Lies(t, marks, s, d)
        PROVE  d \in {<<q, a>>, <<a, r>>, <<b, c>>, <<r, b>>, <<c, q>>}
    <3>1. CASE s = i
      BY <1>2, <1>4, <1>6, <1>7, <2>1, <3>1 DEF Lies, Seen
    <3>2. CASE s = j
      BY <1>2, <1>4, <1>6, <1>7, <2>1, <3>2 DEF Lies, Seen
    <3>3. CASE s = l
      BY <1>2, <1>4, <1>6, <1>7, <2>1, <3>3 DEF Lies, Seen
    <3> QED
      BY <1>2, <3>1, <3>2, <3>3
  <2>2. /\ Side(P[1], j) = <<q, a>>
        /\ Side(P[1], l) = <<a, r>>
        /\ Side(P[2], i) = <<b, c>>
        /\ Side(P[2], l) = <<r, b>>
        /\ Side(P[3], j) = <<c, q>>
    BY <1>11 DEF Seen
  <2> QED
    BY <1>2, <1>10, <2>1, <2>2 DEF Covered
<1>18. Used3(t, marks, P)
  <2>1. UNION {Verts(P[n]) : n \in DOMAIN P} = Verts(P[1]) \union Verts(P[2]) \union Verts(P[3])
    BY <1>10
  <2>2. {marks[Rim(t, s)] : s \in CutOf(t, marks)} = {q, r}
    BY <1>2, <1>4, <1>7 DEF Seen
  <2> QED
    BY <1>4, <1>11, <2>1, <2>2 DEF Used3, Seen
<1> QED
  BY <1>12, <1>13, <1>14, <1>15, <1>16, <1>17, <1>18 DEF FitIn

(* ... three edges, ... *)
LEMMA Fit3 ==
  ASSUME NEW t \in Plane, Cornered(t), NEW marks, Fresh(t, marks), NEW i, i = 0,
         CutOf(t, marks) = Local, NEW P, P = Split3(t, CutAt(t, marks))
  PROVE  FitIn(t, marks, P)
<1>1. PICK j, l : Ring(i, j, l)
  BY DEF Ring
<1>2. /\ i \in Local /\ j \in Local /\ l \in Local /\ i # j /\ j # l /\ l # i /\ Local = {i, j, l}
      /\ Nxt(i) = j /\ Prv(i) = l /\ Nxt(j) = l /\ Prv(j) = i /\ Nxt(l) = i /\ Prv(l) = j
  BY <1>1, RingSays DEF Local
<1>3. PICK a, b, c, g, h, k : Is3(t, i, a, b, c, g, h, k)
  BY DEF Is3
<1>4. Seen(t, i, j, l, a, b, c) /\ t.tag[i] = g /\ t.tag[j] = h /\ t.tag[l] = k
  BY <1>1, <1>2, <1>3, SeenBy
<1>5. a # b /\ b # c /\ c # a
  BY <1>2, <1>4 DEF Cornered, Seen
<1>6. {b, c} \in DOMAIN marks /\ {c, a} \in DOMAIN marks /\ {a, b} \in DOMAIN marks
  BY <1>2, <1>4 DEF CutOf, Seen
<1>7. PICK p, q, r : p = marks[{b, c}] /\ q = marks[{c, a}] /\ r = marks[{a, b}]
  OBVIOUS
<1>8. /\ p \in Nat /\ CutAt(t, marks)[i] = p /\ p # a /\ p # b /\ p # c
      /\ q \in Nat /\ CutAt(t, marks)[j] = q /\ q # a /\ q # b /\ q # c
      /\ r \in Nat /\ CutAt(t, marks)[l] = r /\ r # a /\ r # b /\ r # c
      /\ p # q /\ p # r /\ q # r
  <2>1. CutAt(t, marks)[i] = marks[Rim(t, i)] /\ CutAt(t, marks)[j] = marks[Rim(t, j)] /\ CutAt(t, marks)[l] = marks[Rim(t, l)]
    BY <1>2 DEF CutAt
  <2>2. {b, c} # {c, a} /\ {b, c} # {a, b} /\ {c, a} # {a, b}
    BY <1>5
  <2> QED
    BY <1>4, <1>6, <1>7, <2>1, <2>2 DEF Fresh, Marks, Seen
<1>9. /\ Origin(marks, a) = {a} /\ Origin(marks, b) = {b} /\ Origin(marks, c) = {c}
      /\ Origin(marks, p) = {b, c} /\ Origin(marks, q) = {c, a} /\ Origin(marks, r) = {a, b}
  BY <1>4, <1>6, <1>7, OriginOf DEF Fresh, Seen
<1>10. /\ DOMAIN P = {1, 2, 3, 4}
       /\ Is3(P[1], i, a, r, q, {}, h, k)
       /\ Is3(P[2], i, r, b, p, g, {}, k)
       /\ Is3(P[3], i, q, p, c, g, h, {})
       /\ Is3(P[4], i, q, r, p, {}, {}, {})
       /\ \A n \in DOMAIN P : P[n] \in Plane /\ P[n].ref = t.ref
  BY <1>2, <1>3, <1>8, Split3Is DEF Nxt, Prv
<1>11. /\ Seen(P[1], i, j, l, a, r, q) /\ P[1].tag[i] = {} /\ P[1].tag[j] = h /\ P[1].tag[l] = k /\ Cornered(P[1])
       /\ Seen(P[2], i, j, l, r, b, p) /\ P[2].tag[i] = g /\ P[2].tag[j] = {} /\ P[2].tag[l] = k /\ Cornered(P[2])
       /\ Seen(P[3], i, j, l, q, p, c) /\ P[3].tag[i] = g /\ P[3].tag[j] = h /\ P[3].tag[l] = {} /\ Cornered(P[3])
       /\ Seen(P[4], i, j, l, q, r, p) /\ P[4].tag[i] = {} /\ P[4].tag[j] = {} /\ P[4].tag[l] = {} /\ Cornered(P[4])
  BY <1>1, <1>2, <1>5, <1>8, <1>10, SeenBy
<1>12. Typed3(t, P)
  BY <1>10, <1>11 DEF Typed3
<1>13. Rooted(t, marks, P)
  BY <1>2, <1>4, <1>9, <1>10, <1>11 DEF Rooted, Seen
<1>14. Apart3(P)
  <2>1. Verts(P[1]) = {a, r, q} /\ Verts(P[2]) = {r, b, p} /\ Verts(P[3]) = {q, p, c} /\ Verts(P[4]) = {q, r, p}
    BY <1>11 DEF Seen
  <2>2. /\ a \in Verts(P[1]) /\ a \notin Verts(P[2]) /\ a \notin Verts(P[3]) /\ a \notin Verts(P[4])
        /\ b \in Verts(P[2]) /\ b \notin Verts(P[3]) /\ b \notin Verts(P[4])
        /\ c \in Verts(P[3]) /\ c \notin Verts(P[4])
    BY <1>5, <1>8, <2>1
  <2> QED
    BY <1>10, <2>2 DEF Apart3
<1>15. OneSide(P)
  <2>1. /\ Side(P[1], i) = <<r, q>> /\ Side(P[1], j) = <<q, a>> /\ Side(P[1], l) = <<a, r>>
        /\ Side(P[2], i) = <<b, p>> /\ Side(P[2], j) = <<p, r>> /\ Side(P[2], l) = <<r, b>>
        /\ Side(P[3], i) = <<p, c>> /\ Side(P[3], j) = <<c, q>> /\ Side(P[3], l) = <<q, p>>
        /\ Side(P[4], i) = <<r, p>> /\ Side(P[4], j) = <<p, q>> /\ Side(P[4], l) = <<q, r>>
    BY <1>11 DEF Seen
  <2> QED
    BY <1>2, <1>5, <1>8, <1>10, <2>1 DEF OneSide
<1>16. Sided(t, marks, P)
  <2>1. InnerSide(t, marks, P, 1, i)
    <3>1. Side(P[4], l) = Back(P[1], i) /\ P[1].tag[i] = {}
      BY <1>11 DEF Seen
    <3>2. P[1].v[Nxt(i)] = r /\ P[1].v[Prv(i)] = q
      BY <1>2, <1>11 DEF Seen
    <3>3. Origin(marks, r) \union Origin(marks, q) = Verts(t)
      BY <1>4, <1>9 DEF Seen
    <3> QED
      BY <1>2, <1>10, <3>1, <3>2, <3>3 DEF InnerSide
  <2>2. InnerSide(t, marks, P, 2, j)
    <3>1. Side(P[4], i) = Back(P[2], j) /\ P[2].tag[j] = {}
      BY <1>11 DEF Seen
    <3>2. P[2].v[Nxt(j)] = p /\ P[2].v[Prv(j)] = r
      BY <1>2, <1>11 DEF Seen
    <3>3. Origin(marks, p) \union Origin(marks, r) = Verts(t)
      BY <1>4, <1>9 DEF Seen
    <3> QED
      BY <1>2, <1>10, <3>1, <3>2, <3>3 DEF InnerSide
  <2>3. InnerSide(t, marks, P, 3, l)
    <3>1. Side(P[4], j) = Back(P[3], l) /\ P[3].tag[l] = {}
      BY <1>11 DEF Seen
    <3>2. P[3].v[Nxt(l)] = q /\ P[3].v[Prv(l)] = p
      BY <1>2, <1>11 DEF Seen
    <3>3. Origin(marks, q) \union Origin(marks, p) = Verts(t)
      BY <1>4, <1>9 DEF Seen
    <3> QED
      BY <1>2, <1>10, <3>1, <3>2, <3>3 DEF InnerSide
  <2>4. InnerSide(t, marks, P, 4, i)
    <3>1. Side(P[2], j) = Back(P[4], i) /\ P[4].tag[i] = {}
      BY <1>11 DEF Seen
    <3>2. P[4].v[Nxt(i)] = r /\ P[4].v[Prv(i)] = p
      BY <1>2, <1>11 DEF Seen
    <3>3. Origin(marks, r) \union Origin(marks, p) = Verts(t)
      BY <1>4, <1>9 DEF Seen
    <3> QED
      BY <1>2, <1>10, <3>1, <3>2, <3>3 DEF InnerSide
  <2>5. InnerSide(t, marks, P, 4, j)
    <3>1. Side(P[3], l) = Back(P[4], j) /\ P[4].tag[j] = {}
      BY <1>11 DEF Seen
    <3>2. P[4].v[Nxt(j)] = p /\ P[4].v[Prv(j)] = q
      BY <1>2, <1>11 DEF Seen
    <3>3. Origin(marks, p) \union Origin(marks, q) = Verts(t)
      BY <1>4, <1>9 DEF Seen
    <3> QED
      BY <1>2, <1>10, <3>1, <3>2, <3>3 DEF InnerSide
  <2>6. InnerSide(t, marks, P, 4, l)
    <3>1. Side(P[1], i) = Back(P[4], l) /\ P[4].tag[l] = {}
      BY <1>11 DEF Seen
    <3>2. P[4].v[Nxt(l)] = q /\ P[4].v[Prv(l)] = r
      BY <1>2, <1>11 DEF Seen
    <3>3. Origin(marks, q) \union Origin(marks, r) = Verts(t)
      BY <1>4, <1>9 DEF Seen
    <3> QED
      BY <1>2, <1>10, <3>1, <3>2, <3>3 DEF InnerSide
  <2>7. OuterSide(t, marks, P, 1, j)
    <3>1. Side(P[1], j) = <<q, a>> /\ P[1].tag[j] = t.tag[j]
      BY <1>4, <1>11 DEF Seen
    <3>2. Lies(t, marks, j, <<q, a>>)
      BY <1>2, <1>4, <1>6, <1>7 DEF Lies, Seen
    <3> QED
      BY <1>2, <3>1, <3>2 DEF OuterSide
  <2>8. OuterSide(t, marks, P, 1, l)
    <3>1. Side(P[1], l) = <<a, r>> /\ P[1].tag[l] = t.tag[l]
      BY <1>4, <1>11 DEF Seen
    <3>2. Lies(t, marks, l, <<a, r>>)
      BY <1>2, <1>4, <1>6, <1>7 DEF Lies, Seen
    <3> QED
      BY <1>2, <3>1, <3>2 DEF OuterSide
  <2>9. OuterSide(t, marks, P, 2, i)
    <3>1. Side(P[2], i) = <<b, p>> /\ P[2].tag[i] = t.tag[i]
      BY <1>4, <1>11 DEF Seen
    <3>2. Lies(t, marks, i, <<b, p>>)
      BY <1>2, <1>4, <1>6, <1>7 DEF Lies, Seen
    <3> QED
      BY <1>2, <3>1, <3>2 DEF OuterSide
  <2>10. OuterSide(t, marks, P, 2, l)
    <3>1. Side(P[2], l) = <<r, b>> /\ P[2].tag[l] = t.tag[l]
      BY <1>4, <1>11 DEF Seen
    <3>2. Lies(t, marks, l, <<r, b>>)
      BY <1>2, <1>4, <1>6, <1>7 DEF Lies, Seen
    <3> QED
      BY <1>2, <3>1, <3>2 DEF OuterSide
  <2>11. OuterSide(t, marks, P, 3, i)
    <3>1. Side(P[3], i) = <<p, c>> /\ P[3].tag[i] = t.tag[i]
      BY <1>4, <1>11 DEF Seen
    <3>2. Lies(t, marks, i, <<p, c>>)
      BY <1>2, <1>4, <1>6, <1>7 DEF Lies, Seen
    <3> QED
      BY <1>2, <3>1, <3>2 DEF OuterSide
  <2>12. OuterSide(t, marks, P, 3, j)
    <3>1. Side(P[3], j) = <<c, q>> /\ P[3].tag[j] = t.tag[j]
      BY <1>4, <1>11 DEF Seen
    <3>2. Lies(t, marks, j, <<c, q>>)
      BY <1>2, <1>4, <1>6, <1>7 DEF Lies, Seen
    <3> QED
      BY <1>2, <3>1, <3>2 DEF OuterSide
  <2> QED
    BY <1>2, <1>10, <2>1, <2>2, <2>3, <2>4, <2>5, <2>6, <2>7, <2>8, <2>9, <2>10, <2>11, <2>12 DEF Sided
<1>17. Covered(t, marks, P)
  <2>1. ASSUME NEW s \in Local, NEW d, Lies(t, marks, s, d)
        PROVE  d \in {<<q, a>>, <<a, r>>, <<b, p>>, <<r, b>>, <<p, c>>, <<c, q>>}
    <3>1. CASE s = i
      BY <1>2, <1>4, <1>6, <1>7, <2>1, <3>1 DEF Lies, Seen
    <3>2. CASE s = j
      BY <1>2, <1>4, <1>6, <1>7, <2>1, <3>2 DEF Lies, Seen
    <3>3. CASE s = l
      BY <1>2, <1>4, <1>6, <1>7, <2>1, <3>3 DEF Lies, Seen
    <3> QED
      BY <1>2, <3>1, <3>2, <3>3
  <2>2. /\ Side(P[1], j) = <<q, a>>
        /\ Side(P[1], l) = <<a, r>>
        /\ Side(P[2], i) = <<b, p>>
        /\ Side(P[2], l) = <<r, b>>
        /\ Side(P[3], i) = <<p, c>>
        /\ Side(P[3], j) = <<c, q>>
    BY <1>11 DEF Seen
  <2> QED
    BY <1>2, <1>10, <2>1, <2>2 DEF Covered
<1>18. Used3(t, marks, P)
  <2>1. UNION {Verts(P[n]) : n \in DOMAIN P} = Verts(P[1]) \union Verts(P[2]) \union Verts(P[3]) \union Verts(P[4])
    BY <1>10
  <2>2. {marks[Rim(t, s)] : s \in CutOf(t, marks)} = {p, q, r}
    BY <1>2, <1>4, <1>7 DEF Seen
  <2> QED
    BY <1>4, <1>11, <2>1, <2>2 DEF Used3, Seen
<1> QED
  BY <1>12, <1>13, <1>14, <1>15, <1>16, <1>17, <1>18 DEF FitIn

(* ... or none. *)
LEMMA Fit0 ==
  ASSUME NEW t \in Plane, Cornered(t), NEW marks, Fresh(t, marks), CutOf(t, marks) = {}, NEW P, P = <<t>>
  PROVE  FitIn(t, marks, P)
<1>1. DOMAIN P = {1} /\ P[1] = t
  OBVIOUS
<1>2. \A i \in Local : Rim(t, i) \notin DOMAIN marks
  BY DEF CutOf
<1>3. \A i \in Local : Origin(marks, t.v[i]) = {t.v[i]}
  <2> TAKE i \in Local
  <2>1. \A e \in DOMAIN marks : marks[e] # t.v[i]
    BY DEF Fresh, Verts
  <2> QED
    BY <2>1, OriginOf DEF Fresh
<1>4. Typed3(t, P)
  BY <1>1 DEF Typed3
<1>5. Rooted(t, marks, P)
  BY <1>1, <1>3 DEF Rooted, Verts
<1>6. Apart3(P)
  BY <1>1 DEF Apart3
<1>7. OneSide(P)
  <2>1. ASSUME NEW i \in Local, NEW j \in Local, Side(t, i) = Side(t, j)
        PROVE  i = j
    <3>1. t.v[Nxt(i)] = t.v[Nxt(j)] /\ t.v[Prv(i)] = t.v[Prv(j)]
      BY <2>1 DEF Side
    <3>2. Nxt(i) = Nxt(j)
      BY <3>1, Turns DEF Cornered
    <3> QED
      BY <3>2, Turns
  <2> QED
    BY <1>1, <2>1 DEF OneSide
<1>8. Sided(t, marks, P)
  BY <1>1, <1>2 DEF Sided, OuterSide, Lies
<1>9. Covered(t, marks, P)
  BY <1>1, <1>2 DEF Covered, Lies
<1>10. Used3(t, marks, P)
  BY <1>1 DEF Used3
<1> QED
  BY <1>4, <1>5, <1>6, <1>7, <1>8, <1>9, <1>10 DEF FitIn

(* How many of three edges are cut. *)
LEMMA Cuts ==
  ASSUME NEW cut, cut \subseteq Local
  PROVE  \/ cut = {}
         \/ \E i \in Local : cut = {i} /\ Cardinality(cut) = 1
         \/ \E i \in Local : cut = Local \ {i} /\ Cardinality(cut) = 2
         \/ cut = Local /\ Cardinality(cut) = 3
<1>1. Local = {0, 1, 2}
  BY DEF Local
<1>2. \A x : IsFiniteSet({x}) /\ Cardinality({x}) = 1
  BY FS_Singleton
<1>3. \A x, y : x # y => IsFiniteSet({x, y}) /\ Cardinality({x, y}) = 2
  <2> TAKE x, y
  <2> SUFFICES ASSUME x # y PROVE IsFiniteSet({x, y}) /\ Cardinality({x, y}) = 2
    OBVIOUS
  <2>1. {x, y} = {x} \union {y} /\ y \notin {x} /\ IsFiniteSet({x}) /\ Cardinality({x}) = 1
    BY <1>2
  <2>2. IsFiniteSet({x} \union {y}) /\ Cardinality({x} \union {y}) = 2
    BY <2>1, FS_AddElement
  <2> QED
    BY <2>1, <2>2
<1>4. Cardinality({0, 1, 2}) = 3
  <2>1. {0, 1, 2} = {0, 1} \union {2} /\ 2 \notin {0, 1} /\ IsFiniteSet({0, 1}) /\ Cardinality({0, 1}) = 2
    BY <1>3
  <2>2. Cardinality({0, 1} \union {2}) = 3
    BY <2>1, FS_AddElement
  <2> QED
    BY <2>1, <2>2
<1>5. \/ cut = {} \/ cut = {0} \/ cut = {1} \/ cut = {2}
      \/ cut = {0, 1} \/ cut = {0, 2} \/ cut = {1, 2} \/ cut = {0, 1, 2}
  <2>1. CASE 0 \in cut /\ 1 \in cut /\ 2 \in cut
    <3>1. cut = {0, 1, 2}
      BY <1>1, <2>1
    <3> QED
      BY <3>1
  <2>2. CASE 0 \in cut /\ 1 \in cut /\ 2 \notin cut
    <3>1. cut = {0, 1}
      BY <1>1, <2>2
    <3> QED
      BY <3>1
  <2>3. CASE 0 \in cut /\ 1 \notin cut /\ 2 \in cut
    <3>1. cut = {0, 2}
      BY <1>1, <2>3
    <3> QED
      BY <3>1
  <2>4. CASE 0 \in cut /\ 1 \notin cut /\ 2 \notin cut
    <3>1. cut = {0}
      BY <1>1, <2>4
    <3> QED
      BY <3>1
  <2>5. CASE 0 \notin cut /\ 1 \in cut /\ 2 \in cut
    <3>1. cut = {1, 2}
      BY <1>1, <2>5
    <3> QED
      BY <3>1
  <2>6. CASE 0 \notin cut /\ 1 \in cut /\ 2 \notin cut
    <3>1. cut = {1}
      BY <1>1, <2>6
    <3> QED
      BY <3>1
  <2>7. CASE 0 \notin cut /\ 1 \notin cut /\ 2 \in cut
    <3>1. cut = {2}
      BY <1>1, <2>7
    <3> QED
      BY <3>1
  <2>8. CASE 0 \notin cut /\ 1 \notin cut /\ 2 \notin cut
    <3>1. cut = {}
      BY <1>1, <2>8
    <3> QED
      BY <3>1
  <2> QED
    BY <2>1, <2>2, <2>3, <2>4, <2>5, <2>6, <2>7, <2>8
<1>6. {0, 1} = Local \ {2} /\ {0, 2} = Local \ {1} /\ {1, 2} = Local \ {0}
  <2>1. {0, 1} = {0, 1, 2} \ {2}
    OBVIOUS
  <2>2. {0, 2} = {0, 1, 2} \ {1}
    OBVIOUS
  <2>3. {1, 2} = {0, 1, 2} \ {0}
    OBVIOUS
  <2> QED
    BY <1>1, <2>1, <2>2, <2>3
<1>7. Cardinality({0, 1}) = 2 /\ Cardinality({0, 2}) = 2 /\ Cardinality({1, 2}) = 2
  <2>1. 0 # 1 /\ 0 # 2 /\ 1 # 2
    OBVIOUS
  <2> QED
    BY <1>3, <2>1
<1>8. 0 \in Local /\ 1 \in Local /\ 2 \in Local
  BY <1>1
<1>9. ASSUME cut = {0} \/ cut = {1} \/ cut = {2}
      PROVE  \E i \in Local : cut = {i} /\ Cardinality(cut) = 1
  BY <1>2, <1>8, <1>9
<1>10. ASSUME cut = {0, 1} \/ cut = {0, 2} \/ cut = {1, 2}
       PROVE  \E i \in Local : cut = Local \ {i} /\ Cardinality(cut) = 2
  BY <1>6, <1>7, <1>8, <1>10
<1> QED
  BY <1>1, <1>4, <1>5, <1>9, <1>10

(* The pieces of a triangle fit in it, whichever of its edges are cut. *)
LEMMA CutFits ==
  ASSUME NEW t \in Plane, Cornered(t), NEW marks, Fresh(t, marks)
  PROVE  FitIn(t, marks, CutUp(t, marks))
<1>1. PICK cut : cut = CutOf(t, marks) /\ cut \subseteq Local
  BY DEF CutOf
<1>2. PICK x : x = CutAt(t, marks)
  OBVIOUS
<1>3. CASE cut = {}
  BY <1>1, <1>3, Fit0 DEF CutUp
<1>4. ASSUME NEW i \in Local, cut = {i}, Cardinality(cut) = 1
      PROVE  FitIn(t, marks, CutUp(t, marks))
  <2>1. CutUp(t, marks) = Pieces(t, x, cut)
    BY <1>1, <1>2, <1>4 DEF CutUp
  <2>2. Pieces(t, x, cut) = Split1(t, x, CHOOSE s \in cut : TRUE)
    BY <1>4 DEF Pieces
  <2>3. (CHOOSE s \in cut : TRUE) = i
    BY <1>4
  <2> QED
    BY <1>1, <1>2, <1>4, <2>1, <2>2, <2>3, Fit1
<1>5. ASSUME NEW i \in Local, cut = Local \ {i}, Cardinality(cut) = 2
      PROVE  FitIn(t, marks, CutUp(t, marks))
  <2>1. cut # {}
    BY <1>5, Turns
  <2>2. CutUp(t, marks) = Pieces(t, x, cut)
    BY <1>1, <1>2, <2>1 DEF CutUp
  <2>3. Pieces(t, x, cut) = Split2(t, x, CHOOSE s \in Local : s \notin cut)
    BY <1>5 DEF Pieces
  <2>4. (CHOOSE s \in Local : s \notin cut) = i
    BY <1>5
  <2> QED
    BY <1>1, <1>2, <1>5, <2>2, <2>3, <2>4, Fit2
<1>6. CASE cut = Local /\ Cardinality(cut) = 3
  <2>1. cut # {}
    BY <1>6 DEF Local
  <2>2. CutUp(t, marks) = Pieces(t, x, cut)
    BY <1>1, <1>2, <2>1 DEF CutUp
  <2>3. Pieces(t, x, cut) = Split3(t, x)
    BY <1>6 DEF Pieces
  <2>4. 0 = 0
    OBVIOUS
  <2> QED
    BY <1>1, <1>2, <1>6, <2>2, <2>3, <2>4, Fit3
<1> QED
  BY <1>1, <1>3, <1>4, <1>5, <1>6, Cuts

(* The vertices of the input that the ends of an edge come from. *)
Roots(marks, x, y) == Origin(marks, x) \union Origin(marks, y)

(* The ends of a part of a side come from the ends of the side. *)
LEMMA RootsOfLies ==
  ASSUME NEW t, NEW marks, Fresh(t, marks), NEW s \in Local, NEW x, NEW y, Lies(t, marks, s, <<x, y>>)
  PROVE  Roots(marks, x, y) = Rim(t, s)
<1>1. PICK a, b : a = t.v[Nxt(s)] /\ b = t.v[Prv(s)] /\ a \in Verts(t) /\ b \in Verts(t)
  BY Turns DEF Verts
<1>2. Side(t, s) = <<a, b>> /\ Rim(t, s) = {a, b}
  BY <1>1 DEF Side, Rim
<1>3. Origin(marks, a) = {a} /\ Origin(marks, b) = {b}
  BY <1>1, OriginOf DEF Fresh
<1>4. Rim(t, s) \in DOMAIN marks => Origin(marks, marks[Rim(t, s)]) = Rim(t, s)
  BY OriginOf DEF Fresh
<1>5. CASE Rim(t, s) \notin DOMAIN marks /\ <<x, y>> = Side(t, s)
  BY <1>2, <1>3, <1>5 DEF Roots
<1>6. CASE Rim(t, s) \in DOMAIN marks /\ <<x, y>> = <<t.v[Nxt(s)], marks[Rim(t, s)]>>
  <2>1. x = a /\ Origin(marks, y) = {a, b}
    BY <1>1, <1>2, <1>4, <1>6
  <2> QED
    BY <1>2, <1>3, <2>1 DEF Roots
<1>7. CASE Rim(t, s) \in DOMAIN marks /\ <<x, y>> = <<marks[Rim(t, s)], t.v[Prv(s)]>>
  <2>1. y = b /\ Origin(marks, x) = {a, b}
    BY <1>1, <1>2, <1>4, <1>7
  <2> QED
    BY <1>2, <1>3, <2>1 DEF Roots
<1> QED
  BY <1>5, <1>6, <1>7 DEF Lies

(* The vertices of a triangle are not the ends of an edge. *)
LEMMA ThreeNotTwo ==
  ASSUME NEW t, Cornered(t), NEW u, NEW s
  PROVE  Verts(t) # Rim(u, s)
<1>1. /\ t.v[0] \in Verts(t) /\ t.v[1] \in Verts(t) /\ t.v[2] \in Verts(t)
      /\ t.v[0] # t.v[1] /\ t.v[0] # t.v[2] /\ t.v[1] # t.v[2]
  BY DEF Local, Verts, Cornered
<1>2. PICK a, b : Rim(u, s) = {a, b}
  BY DEF Rim
<1> QED
  BY <1>1, <1>2

(* A triangle's own ends of a side, and which part of it a pair is. *)
Part(t, marks, s, a, b, c, x, y) ==
    /\ a = t.v[Nxt(s)] /\ b = t.v[Prv(s)] /\ a # b
    /\ Side(t, s) = <<a, b>> /\ Back(t, s) = <<b, a>> /\ Rim(t, s) = {a, b}
    /\ \/ {a, b} \notin DOMAIN marks /\ x = a /\ y = b
       \/ {a, b} \in DOMAIN marks /\ c = marks[{a, b}] /\ c # a /\ c # b /\ x = a /\ y = c
       \/ {a, b} \in DOMAIN marks /\ c = marks[{a, b}] /\ c # a /\ c # b /\ x = c /\ y = b

(* What is part of a side, from the ends of the side and the point on it. *)
LEMMA PartOf ==
  ASSUME NEW t, Cornered(t), NEW marks, Fresh(t, marks), NEW s \in Local, NEW x, NEW y, Lies(t, marks, s, <<x, y>>)
  PROVE  \E a, b, c : Part(t, marks, s, a, b, c, x, y)
<1>1. PICK a, b : a = t.v[Nxt(s)] /\ b = t.v[Prv(s)] /\ a \in Verts(t) /\ b \in Verts(t) /\ a # b
  BY Turns DEF Verts, Cornered
<1>2. Side(t, s) = <<a, b>> /\ Back(t, s) = <<b, a>> /\ Rim(t, s) = {a, b}
  BY <1>1 DEF Side, Back, Rim
<1>3. PICK c : c = marks[{a, b}]
  OBVIOUS
<1>4. {a, b} \in DOMAIN marks => c # a /\ c # b
  BY <1>1, <1>3 DEF Fresh
<1>5. Part(t, marks, s, a, b, c, x, y)
  BY <1>1, <1>2, <1>3, <1>4 DEF Lies, Part
<1> QED
  BY <1>5

(* A pair that is a part of two sides is so of the same side, ... *)
LEMMA OneParent ==
  ASSUME NEW t, Cornered(t), NEW u, Cornered(u), NEW marks, Fresh(t, marks), Fresh(u, marks),
         NEW s \in Local, NEW r \in Local, NEW x, NEW y, Lies(t, marks, s, <<x, y>>), Lies(u, marks, r, <<x, y>>)
  PROVE  Side(t, s) = Side(u, r)
<1>1. Rim(t, s) = Rim(u, r)
  BY RootsOfLies
<1>2. PICK a, b, c : Part(t, marks, s, a, b, c, x, y)
  BY PartOf
<1>3. PICK d, e, f : Part(u, marks, r, d, e, f, x, y)
  BY PartOf
<1>4. {a, b} = {d, e} /\ a # b /\ d # e
  BY <1>1, <1>2, <1>3 DEF Part
<1>5. a = d /\ b = e
  BY <1>2, <1>3, <1>4 DEF Part
<1> QED
  BY <1>2, <1>3, <1>5 DEF Part

(* ... and of opposite sides when it is taken in the other direction. *)
LEMMA Facing ==
  ASSUME NEW t, Cornered(t), NEW u, Cornered(u), NEW marks, Fresh(t, marks), Fresh(u, marks),
         NEW s \in Local, NEW r \in Local, NEW x, NEW y, Lies(t, marks, s, <<x, y>>), Lies(u, marks, r, <<y, x>>)
  PROVE  Side(t, s) = Back(u, r)
<1>1. Rim(t, s) = Rim(u, r)
  <2>1. Roots(marks, x, y) = Roots(marks, y, x)
    BY DEF Roots
  <2> QED
    BY <2>1, RootsOfLies
<1>2. PICK a, b, c : Part(t, marks, s, a, b, c, x, y)
  BY PartOf
<1>3. PICK d, e, f : Part(u, marks, r, d, e, f, y, x)
  BY PartOf
<1>4. {a, b} = {d, e} /\ a # b /\ d # e
  BY <1>1, <1>2, <1>3 DEF Part
<1>5. a = e /\ b = d
  BY <1>2, <1>3, <1>4 DEF Part
<1> QED
  BY <1>2, <1>3, <1>5 DEF Part

(* A part of a side is a part of the opposite side, in the other direction. *)
LEMMA FacesBack ==
  ASSUME NEW t, Cornered(t), NEW u, NEW marks, Fresh(t, marks),
         NEW s \in Local, NEW r \in Local, NEW x, NEW y, Lies(t, marks, s, <<x, y>>), Side(u, r) = Back(t, s)
  PROVE  Lies(u, marks, r, <<y, x>>)
<1>1. PICK a, b, c : Part(t, marks, s, a, b, c, x, y)
  BY PartOf
<1>2. u.v[Nxt(r)] = b /\ u.v[Prv(r)] = a /\ Side(u, r) = <<b, a>>
  BY <1>1 DEF Part, Side
<1>3. Rim(u, r) = {a, b}
  BY <1>2 DEF Rim
<1> QED
  BY <1>1, <1>2, <1>3 DEF Part, Lies

(* A set of triangles with at most one of them on each side of an edge,    *)
(* the tags of an edge being those that go with the references on both     *)
(* sides of it, or with the hull.                                          *)
Agreed(t, i, u, j) == /\ t.tag[i] = u.tag[j]
                      /\ t.tag[i] \ {"req"} = IF t.ref # u.ref THEN {"ref", "bdy"} ELSE {}
Distinct3(tr) == \A k, m \in DOMAIN tr : Verts(tr[k]) = Verts(tr[m]) => k = m
OneWay(tr) == \A k, m \in DOMAIN tr, i, j \in Local : Side(tr[k], i) = Side(tr[m], j) => k = m /\ i = j
TwoSided(tr) == \A k, m \in DOMAIN tr, i, j \in Local :
                    Side(tr[k], i) = Back(tr[m], j) => Agreed(tr[k], i, tr[m], j)
HullTagged(tr) == \A k \in DOMAIN tr, i \in Local :
                      \/ \E m \in DOMAIN tr, j \in Local : Side(tr[m], j) = Back(tr[k], i)
                      \/ tr[k].tag[i] \ {"req"} = {"geo", "bdy"}
Conforming(tr) == /\ \A k \in DOMAIN tr : tr[k] \in Plane /\ Cornered(tr[k])
                  /\ Distinct3(tr) /\ OneWay(tr) /\ TwoSided(tr) /\ HullTagged(tr)

(* The pieces of all the triangles. *)
PieceIds(tr, marks) == UNION {{<<k, n>> : n \in DOMAIN CutUp(tr[k], marks)} : k \in DOMAIN tr}
CutAll(tr, marks)   == [e \in PieceIds(tr, marks) |-> CutUp(tr[e[1]], marks)[e[2]]]
Vertices(tr) == UNION {Verts(tr[k]) : k \in DOMAIN tr}
EdgesOf(tr)  == {Rim(tr[k], i) : k \in DOMAIN tr, i \in Local}

(* What a piece of a set of triangles is. *)
PieceOf(tr, marks, q, k, n) == k \in DOMAIN tr /\ n \in DOMAIN CutUp(tr[k], marks) /\ q = CutUp(tr[k], marks)[n]
Inner(tr, marks, q, k, n, i) == InnerSide(tr[k], marks, CutUp(tr[k], marks), n, i)
Outer(tr, marks, q, k, i, s) == /\ s \in Local /\ q.tag[i] = tr[k].tag[s]
                                /\ Lies(tr[k], marks, s, <<q.v[Nxt(i)], q.v[Prv(i)]>>)
CutReady(tr, marks) == Conforming(tr) /\ Marks(marks) /\ \A k \in DOMAIN tr : Fresh(tr[k], marks)

(* A piece of a set of triangles fits in its triangle. *)
LEMMA PieceSays ==
  ASSUME NEW tr, NEW marks, CutReady(tr, marks), NEW q, NEW k, NEW n, PieceOf(tr, marks, q, k, n)
  PROVE  /\ FitIn(tr[k], marks, CutUp(tr[k], marks))
         /\ tr[k] \in Plane /\ Cornered(tr[k]) /\ Fresh(tr[k], marks)
         /\ q \in Plane /\ Cornered(q) /\ q.ref = tr[k].ref
<1>1. tr[k] \in Plane /\ Cornered(tr[k]) /\ Fresh(tr[k], marks)
  BY DEF CutReady, Conforming, PieceOf
<1>2. FitIn(tr[k], marks, CutUp(tr[k], marks))
  BY <1>1, CutFits
<1> QED
  BY <1>1, <1>2 DEF FitIn, Typed3, PieceOf

(* A side of a piece is inside a triangle or in a side of it. *)
LEMMA Places ==
  ASSUME NEW tr, NEW marks, CutReady(tr, marks), NEW q, NEW k, NEW n, PieceOf(tr, marks, q, k, n), NEW i \in Local
  PROVE  \/ /\ Inner(tr, marks, q, k, n, i) /\ q.tag[i] = {}
            /\ Roots(marks, q.v[Nxt(i)], q.v[Prv(i)]) = Verts(tr[k])
         \/ \E s : /\ Outer(tr, marks, q, k, i, s)
                   /\ Roots(marks, q.v[Nxt(i)], q.v[Prv(i)]) = Rim(tr[k], s)
<1>1. Sided(tr[k], marks, CutUp(tr[k], marks))
  BY PieceSays DEF FitIn
<1>2. CASE InnerSide(tr[k], marks, CutUp(tr[k], marks), n, i)
  BY <1>2 DEF InnerSide, Inner, Roots, PieceOf
<1>3. CASE OuterSide(tr[k], marks, CutUp(tr[k], marks), n, i)
  <2>1. PICK s \in Local : q.tag[i] = tr[k].tag[s] /\ Lies(tr[k], marks, s, Side(q, i))
    BY <1>3 DEF OuterSide, PieceOf
  <2>2. Outer(tr, marks, q, k, i, s)
    BY <2>1 DEF Outer, Side
  <2>3. Fresh(tr[k], marks)
    BY PieceSays
  <2>4. Roots(marks, q.v[Nxt(i)], q.v[Prv(i)]) = Rim(tr[k], s)
    BY <2>2, <2>3, RootsOfLies DEF Outer
  <2> QED
    BY <2>2, <2>4
<1> QED
  BY <1>1, <1>2, <1>3 DEF Sided, PieceOf

(* Pieces with the same vertices are the same. *)
LEMMA PiecesApart ==
  ASSUME NEW tr, NEW marks, CutReady(tr, marks), NEW q, NEW k, NEW n, PieceOf(tr, marks, q, k, n),
         NEW r, NEW m, NEW o, PieceOf(tr, marks, r, m, o), Verts(q) = Verts(r)
  PROVE  k = m /\ n = o
<1>1. UNION {Origin(marks, q.v[i]) : i \in Local} = Verts(tr[k]) /\ UNION {Origin(marks, r.v[i]) : i \in Local} = Verts(tr[m])
  BY PieceSays DEF FitIn, Rooted, PieceOf
<1>2. /\ {Origin(marks, q.v[i]) : i \in Local} = {Origin(marks, p) : p \in Verts(q)}
      /\ {Origin(marks, r.v[i]) : i \in Local} = {Origin(marks, p) : p \in Verts(r)}
  BY DEF Verts
<1>3. Verts(tr[k]) = Verts(tr[m])
  BY <1>1, <1>2
<1>4. k = m
  BY <1>3 DEF CutReady, Conforming, Distinct3, PieceOf
<1>5. Apart3(CutUp(tr[k], marks))
  BY PieceSays DEF FitIn
<1> QED
  BY <1>4, <1>5 DEF Apart3, PieceOf

(* Two sides with the same ends, in the same order or in the other one, *)
(* are both inside a triangle, and the same, or both in its sides.      *)
LEMMA BothPlaces ==
  ASSUME NEW tr, NEW marks, CutReady(tr, marks), NEW q, NEW k, NEW n, PieceOf(tr, marks, q, k, n),
         NEW r, NEW m, NEW o, PieceOf(tr, marks, r, m, o), NEW i \in Local, NEW j \in Local, Rim(q, i) = Rim(r, j)
  PROVE  \/ k = m /\ q.tag[i] = {} /\ r.tag[j] = {}
         \/ \E s, u : Outer(tr, marks, q, k, i, s) /\ Outer(tr, marks, r, m, j, u)
<1>1. Roots(marks, q.v[Nxt(i)], q.v[Prv(i)]) = Roots(marks, r.v[Nxt(j)], r.v[Prv(j)])
  <2>1. \A x, y, z, w : {x, y} = {z, w} => Roots(marks, x, y) = Roots(marks, z, w)
    BY DEF Roots
  <2> QED
    BY <2>1 DEF Rim
<1>2. Cornered(tr[k]) /\ Cornered(tr[m])
  BY PieceSays
<1>3. \A s : Verts(tr[k]) # Rim(tr[m], s) /\ Verts(tr[m]) # Rim(tr[k], s)
  BY <1>2, ThreeNotTwo
<1>4. Verts(tr[k]) = Verts(tr[m]) => k = m
  BY DEF CutReady, Conforming, Distinct3, PieceOf
<1> QED
  BY <1>1, <1>3, <1>4, Places

(* A side of a piece in one direction is a side of no other piece. *)
LEMMA PiecesOneWay ==
  ASSUME NEW tr, NEW marks, CutReady(tr, marks), NEW q, NEW k, NEW n, PieceOf(tr, marks, q, k, n),
         NEW r, NEW m, NEW o, PieceOf(tr, marks, r, m, o), NEW i \in Local, NEW j \in Local, Side(q, i) = Side(r, j)
  PROVE  k = m /\ n = o /\ i = j
<1>1. Rim(q, i) = Rim(r, j) /\ q.v[Nxt(i)] = r.v[Nxt(j)] /\ q.v[Prv(i)] = r.v[Prv(j)]
  BY DEF Side, Rim
<1>2. k = m
  <2>1. CASE \E s, u : Outer(tr, marks, q, k, i, s) /\ Outer(tr, marks, r, m, j, u)
    <3>1. PICK s, u : Outer(tr, marks, q, k, i, s) /\ Outer(tr, marks, r, m, j, u)
      BY <2>1
    <3>2. PICK x, y : /\ Lies(tr[k], marks, s, <<x, y>>) /\ s \in Local
                      /\ Lies(tr[m], marks, u, <<x, y>>) /\ u \in Local
      BY <1>1, <3>1 DEF Outer
    <3>3. Cornered(tr[k]) /\ Fresh(tr[k], marks) /\ Cornered(tr[m]) /\ Fresh(tr[m], marks)
      BY PieceSays
    <3>4. Side(tr[k], s) = Side(tr[m], u)
      BY <3>2, <3>3, OneParent
    <3> QED
      BY <3>2, <3>4 DEF CutReady, Conforming, OneWay, PieceOf
  <2> QED
    BY <1>1, <2>1, BothPlaces
<1>3. OneSide(CutUp(tr[k], marks))
  BY PieceSays DEF FitIn
<1> QED
  BY <1>2, <1>3 DEF OneSide, PieceOf

(* The tags on both sides of an edge of a piece are right. *)
LEMMA PiecesAgree ==
  ASSUME NEW tr, NEW marks, CutReady(tr, marks), NEW q, NEW k, NEW n, PieceOf(tr, marks, q, k, n),
         NEW r, NEW m, NEW o, PieceOf(tr, marks, r, m, o), NEW i \in Local, NEW j \in Local, Side(q, i) = Back(r, j)
  PROVE  Agreed(q, i, r, j)
<1>1. Rim(q, i) = Rim(r, j) /\ q.v[Nxt(i)] = r.v[Prv(j)] /\ q.v[Prv(i)] = r.v[Nxt(j)]
  BY DEF Side, Back, Rim
<1>2. q.ref = tr[k].ref /\ r.ref = tr[m].ref
  BY PieceSays
<1>3. CASE k = m /\ q.tag[i] = {} /\ r.tag[j] = {}
  BY <1>2, <1>3 DEF Agreed
<1>4. CASE \E s, u : Outer(tr, marks, q, k, i, s) /\ Outer(tr, marks, r, m, j, u)
  <2>1. PICK s, u : Outer(tr, marks, q, k, i, s) /\ Outer(tr, marks, r, m, j, u)
    BY <1>4
  <2>2. PICK x, y : /\ Lies(tr[k], marks, s, <<x, y>>) /\ s \in Local
                    /\ Lies(tr[m], marks, u, <<y, x>>) /\ u \in Local
    BY <1>1, <2>1 DEF Outer
  <2>3. Cornered(tr[k]) /\ Fresh(tr[k], marks) /\ Cornered(tr[m]) /\ Fresh(tr[m], marks)
    BY PieceSays
  <2>4. Side(tr[k], s) = Back(tr[m], u)
    BY <2>2, <2>3, Facing
  <2>5. Agreed(tr[k], s, tr[m], u)
    BY <2>2, <2>4 DEF CutReady, Conforming, TwoSided, PieceOf
  <2> QED
    BY <1>2, <2>1, <2>5 DEF Outer, Agreed
<1> QED
  BY <1>1, <1>3, <1>4, BothPlaces

(* A side of a piece with nothing across is on the hull, and tagged so. *)
LEMMA PiecesHull ==
  ASSUME NEW tr, NEW marks, CutReady(tr, marks), NEW q, NEW k, NEW n, PieceOf(tr, marks, q, k, n), NEW i \in Local,
         ~\E r, m, o, j : PieceOf(tr, marks, r, m, o) /\ j \in Local /\ Side(r, j) = Back(q, i)
  PROVE  q.tag[i] \ {"req"} = {"geo", "bdy"}
<1>1. ~Inner(tr, marks, q, k, n, i)
  BY DEF Inner, InnerSide, PieceOf
<1>2. PICK s : Outer(tr, marks, q, k, i, s)
  BY <1>1, Places
<1>3. PICK x, y : /\ x = q.v[Nxt(i)] /\ y = q.v[Prv(i)] /\ s \in Local
                  /\ Lies(tr[k], marks, s, <<x, y>>) /\ Back(q, i) = <<y, x>>
  BY <1>2 DEF Outer, Back
<1>4. ASSUME NEW m \in DOMAIN tr, NEW u \in Local, Side(tr[m], u) = Back(tr[k], s)
      PROVE  FALSE
  <2>1. Cornered(tr[k]) /\ Fresh(tr[k], marks)
    BY PieceSays
  <2>2. Lies(tr[m], marks, u, <<y, x>>)
    BY <1>3, <1>4, <2>1, FacesBack
  <2>3. tr[m] \in Plane /\ Cornered(tr[m]) /\ Fresh(tr[m], marks)
    BY DEF CutReady, Conforming
  <2>4. Covered(tr[m], marks, CutUp(tr[m], marks))
    BY <2>3, CutFits DEF FitIn
  <2>5. PICK o \in DOMAIN CutUp(tr[m], marks), j \in Local : Side(CutUp(tr[m], marks)[o], j) = <<y, x>>
    BY <2>2, <2>4 DEF Covered
  <2>6. PieceOf(tr, marks, CutUp(tr[m], marks)[o], m, o)
    BY DEF PieceOf
  <2> QED
    BY <1>3, <2>5, <2>6
<1>5. tr[k].tag[s] \ {"req"} = {"geo", "bdy"}
  BY <1>3, <1>4 DEF CutReady, Conforming, HullTagged, PieceOf
<1> QED
  BY <1>2, <1>5 DEF Outer

(* The pieces and their numbers. *)
LEMMA PieceAt ==
  ASSUME NEW tr, NEW marks
  PROVE  /\ \A e \in DOMAIN CutAll(tr, marks) : /\ e = <<e[1], e[2]>>
                                                /\ PieceOf(tr, marks, CutAll(tr, marks)[e], e[1], e[2])
         /\ \A k, n, q : PieceOf(tr, marks, q, k, n) =>
                /\ <<k, n>> \in DOMAIN CutAll(tr, marks)
                /\ CutAll(tr, marks)[<<k, n>>] = q
<1>1. DOMAIN CutAll(tr, marks) = PieceIds(tr, marks)
  BY DEF CutAll
<1>2. ASSUME NEW e \in PieceIds(tr, marks)
      PROVE  e = <<e[1], e[2]>> /\ PieceOf(tr, marks, CutAll(tr, marks)[e], e[1], e[2])
  <2>1. PICK k, n : k \in DOMAIN tr /\ n \in DOMAIN CutUp(tr[k], marks) /\ e = <<k, n>>
    BY DEF PieceIds
  <2>2. e[1] = k /\ e[2] = n
    BY <2>1
  <2>3. CutAll(tr, marks)[e] = CutUp(tr[k], marks)[n]
    BY <2>2 DEF CutAll
  <2> QED
    BY <2>1, <2>2, <2>3 DEF PieceOf
<1>3. ASSUME NEW k, NEW n, NEW q, PieceOf(tr, marks, q, k, n)
      PROVE  <<k, n>> \in PieceIds(tr, marks) /\ CutAll(tr, marks)[<<k, n>>] = q
  <2>1. <<k, n>> \in PieceIds(tr, marks)
    BY <1>3 DEF PieceOf, PieceIds
  <2> QED
    BY <1>3, <2>1 DEF CutAll, PieceOf
<1> QED
  BY <1>1, <1>2, <1>3

(* Which vertices the pieces have. *)
LEMMA CutVertices ==
  ASSUME NEW tr, NEW marks, CutReady(tr, marks), DOMAIN marks \subseteq EdgesOf(tr)
  PROVE  Vertices(CutAll(tr, marks)) = Vertices(tr) \union {marks[e] : e \in DOMAIN marks}
<1>1. ASSUME NEW k \in DOMAIN tr
      PROVE  UNION {Verts(CutUp(tr[k], marks)[n]) : n \in DOMAIN CutUp(tr[k], marks)}
                = Verts(tr[k]) \union {marks[Rim(tr[k], i)] : i \in CutOf(tr[k], marks)}
  <2>1. tr[k] \in Plane /\ Cornered(tr[k]) /\ Fresh(tr[k], marks)
    BY DEF CutReady, Conforming
  <2> QED
    BY <2>1, CutFits DEF FitIn, Used3
<1>2. ASSUME NEW p \in Vertices(CutAll(tr, marks))
      PROVE  p \in Vertices(tr) \/ \E e \in DOMAIN marks : p = marks[e]
  <2>1. PICK c \in DOMAIN CutAll(tr, marks) : p \in Verts(CutAll(tr, marks)[c])
    BY DEF Vertices
  <2>2. PICK k, n : PieceOf(tr, marks, CutAll(tr, marks)[c], k, n)
    BY PieceAt
  <2>3. k \in DOMAIN tr /\ p \in UNION {Verts(CutUp(tr[k], marks)[o]) : o \in DOMAIN CutUp(tr[k], marks)}
    BY <2>1, <2>2 DEF PieceOf
  <2>4. CASE p \in Verts(tr[k])
    BY <2>3, <2>4 DEF Vertices
  <2>5. CASE \E i \in CutOf(tr[k], marks) : p = marks[Rim(tr[k], i)]
    BY <2>5 DEF CutOf
  <2> QED
    BY <1>1, <2>3, <2>4, <2>5
<1>3. ASSUME NEW k \in DOMAIN tr, NEW p, p \in Verts(tr[k]) \union {marks[Rim(tr[k], i)] : i \in CutOf(tr[k], marks)}
      PROVE  p \in Vertices(CutAll(tr, marks))
  <2>1. PICK n \in DOMAIN CutUp(tr[k], marks) : p \in Verts(CutUp(tr[k], marks)[n])
    BY <1>1, <1>3
  <2>2. PieceOf(tr, marks, CutUp(tr[k], marks)[n], k, n)
    BY DEF PieceOf
  <2>3. <<k, n>> \in DOMAIN CutAll(tr, marks) /\ CutAll(tr, marks)[<<k, n>>] = CutUp(tr[k], marks)[n]
    BY <2>2, PieceAt
  <2> QED
    BY <2>1, <2>3 DEF Vertices
<1>4. ASSUME NEW p \in Vertices(tr)
      PROVE  p \in Vertices(CutAll(tr, marks))
  <2>1. PICK k \in DOMAIN tr : p \in Verts(tr[k])
    BY DEF Vertices
  <2> QED
    BY <1>3, <2>1
<1>5. ASSUME NEW e \in DOMAIN marks
      PROVE  marks[e] \in Vertices(CutAll(tr, marks))
  <2>1. PICK k \in DOMAIN tr, i \in Local : e = Rim(tr[k], i)
    BY DEF EdgesOf
  <2>2. i \in CutOf(tr[k], marks) /\ marks[e] = marks[Rim(tr[k], i)]
    BY <2>1 DEF CutOf
  <2> QED
    BY <1>3, <2>2
<1> QED
  BY <1>2, <1>4, <1>5

(* The cut of a mesh of the plane by patterns (MMG2D_anaelt). When the     *)
(* triangles cover their domain once, with the tags that go with the       *)
(* references on both sides, and each edge that is cut has a new vertex of *)
(* its own, the triangles that MMG2D_split1, split2 and split3 make do so  *)
(* too and their vertices are the old ones and all the new ones, although  *)
(* each triangle is cut without looking at its neighbours.                 *)
THEOREM CutsConform ==
  ASSUME NEW tr, Conforming(tr), NEW marks, Marks(marks), DOMAIN marks \subseteq EdgesOf(tr),
         \A k \in DOMAIN tr : Fresh(tr[k], marks)
  PROVE  /\ Conforming(CutAll(tr, marks))
         /\ Vertices(CutAll(tr, marks)) = Vertices(tr) \union {marks[e] : e \in DOMAIN marks}
<1>1. CutReady(tr, marks)
  BY DEF CutReady
<1>2. PICK cut : cut = CutAll(tr, marks)
  OBVIOUS
<1>3. /\ \A e \in DOMAIN cut : e = <<e[1], e[2]>> /\ PieceOf(tr, marks, cut[e], e[1], e[2])
      /\ \A k, n, q : PieceOf(tr, marks, q, k, n) => <<k, n>> \in DOMAIN cut /\ cut[<<k, n>>] = q
  BY <1>2, PieceAt
<1>4. ASSUME NEW e \in DOMAIN cut
      PROVE  cut[e] \in Plane /\ Cornered(cut[e])
  BY <1>1, <1>3, PieceSays
<1>5. Distinct3(cut)
  <2> SUFFICES ASSUME NEW e \in DOMAIN cut, NEW f \in DOMAIN cut, Verts(cut[e]) = Verts(cut[f])
               PROVE  e = f
    BY DEF Distinct3
  <2>1. e[1] = f[1] /\ e[2] = f[2]
    BY <1>1, <1>3, PiecesApart
  <2> QED
    BY <1>3, <2>1
<1>6. OneWay(cut)
  <2> SUFFICES ASSUME NEW e \in DOMAIN cut, NEW f \in DOMAIN cut, NEW i \in Local, NEW j \in Local,
                      Side(cut[e], i) = Side(cut[f], j)
               PROVE  e = f /\ i = j
    BY DEF OneWay
  <2>1. e[1] = f[1] /\ e[2] = f[2] /\ i = j
    BY <1>1, <1>3, PiecesOneWay
  <2> QED
    BY <1>3, <2>1
<1>7. TwoSided(cut)
  BY <1>1, <1>3, PiecesAgree DEF TwoSided
<1>8. HullTagged(cut)
  <2> SUFFICES ASSUME NEW e \in DOMAIN cut, NEW i \in Local,
                      ~\E f \in DOMAIN cut, j \in Local : Side(cut[f], j) = Back(cut[e], i)
               PROVE  cut[e].tag[i] \ {"req"} = {"geo", "bdy"}
    BY DEF HullTagged
  <2>1. ~\E r, m, o, j : PieceOf(tr, marks, r, m, o) /\ j \in Local /\ Side(r, j) = Back(cut[e], i)
    BY <1>3
  <2> QED
    BY <1>1, <1>3, <2>1, PiecesHull
<1>9. Conforming(cut)
  BY <1>4, <1>5, <1>6, <1>7, <1>8 DEF Conforming
<1> QED
  BY <1>1, <1>2, <1>9, CutVertices

-------------------------------------------------------------------------------
(* From the pieces to the mesh.                                           *)

(* The triangles of a mesh that are left, and those that share an edge     *)
(* being adjacent by it.                                                   *)
Trs(m)    == [k \in Live(m.trs) |-> m.tria[k]]
Simple(m) == \A e, f \in Darts(m) :
                e[1] # f[1] /\ {Vt(m, Nx(e)), Vt(m, Pv(e))} = {Vt(m, Nx(f)), Vt(m, Pv(f))} => Ad(m, e) = f

(* A corner of a triangle of the mesh is a dart.                           *)
LEMMA AsDarts ==
  ASSUME NEW m, NEW k \in Live(m.trs), NEW i \in Local
  PROVE  /\ <<k, i>> \in Darts(m)
         /\ Trs(m)[k] = m.tria[k] /\ DOMAIN Trs(m) = Live(m.trs)
         /\ Vt(m, <<k, i>>) = m.tria[k].v[i] /\ Tg(m, <<k, i>>) = m.tria[k].tag[i] /\ Rf(m, <<k, i>>) = m.tria[k].ref
         /\ Side(m.tria[k], i) = <<Vt(m, Nx(<<k, i>>)), Vt(m, Pv(<<k, i>>))>>
         /\ Back(m.tria[k], i) = <<Vt(m, Pv(<<k, i>>)), Vt(m, Nx(<<k, i>>))>>
BY DEF Darts, Trs, Vt, Tg, Rf, Nx, Pv, Side, Back

(* The darts are these.                                                    *)
LEMMA AllDarts ==
  ASSUME NEW m, NEW e \in Darts(m)
  PROVE  /\ e[1] \in Live(m.trs) /\ e[2] \in Local /\ e = <<e[1], e[2]>>
         /\ Nx(e)[1] = e[1] /\ Nx(e)[2] = Nxt(e[2]) /\ Pv(e)[1] = e[1] /\ Pv(e)[2] = Prv(e[2])
BY DEF Darts, Nx, Pv

(* A triangle that is not inverted is not another one turned over.         *)
LEMMA SameVerts ==
  ASSUME NEW m, Solid(m), NEW e \in Darts(m), NEW f \in Darts(m),
         Vt(m, Nx(f)) = Vt(m, Pv(e)), Vt(m, Pv(f)) = Vt(m, Nx(e)), Vt(m, f) = Vt(m, e)
  PROVE  FALSE
<1>1. PICK P, Q, R : P = At(m, Vt(m, e)) /\ Q = At(m, Vt(m, Nx(e))) /\ R = At(m, Vt(m, Pv(e)))
  OBVIOUS
<1>2. P \in Int \X Int /\ Q \in Int \X Int /\ R \in Int \X Int
  BY <1>1, DartsTurn, Corners
<1>3. Twice(m, e) = Area(P, Q, R) /\ Twice(m, f) = Area(P, R, Q)
  BY <1>1 DEF Twice
<1>4. Area(P, Q, R) > 0 /\ Area(P, R, Q) > 0
  BY <1>3 DEF Solid, Positive
<1>5. Area(P, R, Q) = Area(R, Q, P) /\ Area(R, Q, P) = - Area(Q, R, P) /\ Area(Q, R, P) = Area(P, Q, R)
  BY <1>2, AreaTurns
<1>6. Area(P, Q, R) \in Int
  BY <1>2, AreaTurns
<1> QED
  BY <1>4, <1>5, <1>6

(* The triangles of a solid mesh have three corners.                       *)
LEMMA TriasCornered ==
  ASSUME NEW m, Solid(m), NEW k \in Live(m.trs)
  PROVE  m.tria[k] \in Plane /\ Cornered(m.tria[k])
<1>1. m.tria[k] \in Plane
  <2>1. m.tria[k] \in TriaSet
    BY MeshParts DEF Solid, MeshSet
  <2>2. NPMax \in Nat /\ NTMax \in Nat /\ 0..NPMax \subseteq Nat
    BY MeshAssumption
  <2>3. DartSet \union {NoAdja} \subseteq Nat \X Nat
    BY <2>2 DEF DartSet, NoAdja, Local
  <2> QED
    BY <2>1, <2>2, <2>3 DEF TriaSet, Plane
<1>2. Cornered(m.tria[k])
  <2> SUFFICES ASSUME NEW i \in Local, NEW j \in Local, m.tria[k].v[i] = m.tria[k].v[j]
               PROVE  i = j
    BY DEF Cornered
  <2>1. <<k, i>> \in Darts(m) /\ <<k, j>> \in Darts(m) /\ Vt(m, <<k, i>>) = Vt(m, <<k, j>>)
    BY AsDarts
  <2>2. <<k, i>> = <<k, j>>
    BY <2>1, OneCorner
  <2> QED
    BY <2>2
<1> QED
  BY <1>1, <1>2

(* What Simple says of two edges with the same ends.                       *)
LEMMA EndsTell ==
  ASSUME NEW m, Solid(m), Simple(m), NEW e \in Darts(m), NEW f \in Darts(m), e # f,
         {Vt(m, Nx(e)), Vt(m, Pv(e))} = {Vt(m, Nx(f)), Vt(m, Pv(f))}
  PROVE  Ad(m, e) = f /\ Vt(m, Nx(f)) = Vt(m, Pv(e)) /\ Vt(m, Pv(f)) = Vt(m, Nx(e))
<1>1. CASE e[1] = f[1]
  <2>1. f = Nx(e) \/ f = Pv(e)
    BY <1>1, DartsTurn
  <2>2. /\ Vt(m, e) # Vt(m, Nx(e)) /\ Vt(m, e) # Vt(m, Pv(e)) /\ Vt(m, Nx(e)) # Vt(m, Pv(e))
        /\ Nx(Nx(e)) = Pv(e) /\ Pv(Nx(e)) = e /\ Nx(Pv(e)) = e /\ Pv(Pv(e)) = Nx(e)
    BY Corners, DartsTurn
  <2> QED
    BY <2>1, <2>2
<1>2. CASE e[1] # f[1]
  <2>1. Ad(m, e) = f
    BY <1>2 DEF Simple
  <2>2. f # NoAdja
    BY Corners, MeshAssumption DEF DartSet, NoAdja
  <2> QED
    BY <2>1, <2>2, Twin
<1> QED
  BY <1>1, <1>2

(* The triangles of a sound mesh, those that share an edge being adjacent  *)
(* by it, conform: the start of MMG2D_anaelt.                              *)
LEMMA WholeConforms ==
  ASSUME NEW m, Solid(m), Tagged(m), Simple(m)
  PROVE  Conforming(Trs(m))
<1>0. PICK tr : tr = Trs(m)
  OBVIOUS
<1>1. tr = Trs(m) /\ DOMAIN tr = Live(m.trs) /\ \A k \in Live(m.trs) : tr[k] = m.tria[k]
  BY <1>0 DEF Trs
<1>2. \A k \in DOMAIN tr : tr[k] \in Plane /\ Cornered(tr[k])
  BY <1>1, TriasCornered
<1>3. OneWay(tr)
  <2> SUFFICES ASSUME NEW k \in DOMAIN tr, NEW l \in DOMAIN tr, NEW i \in Local, NEW j \in Local,
                      Side(tr[k], i) = Side(tr[l], j), <<k, i>> # <<l, j>>
               PROVE  FALSE
    BY DEF OneWay
  <2>1. PICK e, f : e = <<k, i>> /\ f = <<l, j>> /\ e \in Darts(m) /\ f \in Darts(m)
    BY <1>1, AsDarts
  <2>2. Vt(m, Nx(e)) = Vt(m, Nx(f)) /\ Vt(m, Pv(e)) = Vt(m, Pv(f))
    BY <1>1, <2>1, AsDarts
  <2>3. Vt(m, Nx(f)) = Vt(m, Pv(e))
    BY <2>1, <2>2, EndsTell
  <2> QED
    BY <2>1, <2>2, <2>3, Corners
<1>4. ASSUME NEW k \in DOMAIN tr, NEW l \in DOMAIN tr, NEW i \in Local, NEW j \in Local, Side(tr[k], i) = Back(tr[l], j)
      PROVE  Ad(m, <<l, j>>) = <<k, i>> /\ <<l, j>> \in Darts(m) /\ <<k, i>> \in Darts(m)
  <2>1. PICK e, f : e = <<l, j>> /\ f = <<k, i>> /\ e \in Darts(m) /\ f \in Darts(m)
    BY <1>1, AsDarts
  <2>2. Vt(m, Nx(f)) = Vt(m, Pv(e)) /\ Vt(m, Pv(f)) = Vt(m, Nx(e))
    BY <1>1, <1>4, <2>1, AsDarts
  <2>3. e # f
    BY <2>1, <2>2, Corners
  <2>4. {Vt(m, Nx(e)), Vt(m, Pv(e))} = {Vt(m, Nx(f)), Vt(m, Pv(f))}
    BY <2>2
  <2> QED
    BY <2>1, <2>3, <2>4, EndsTell
<1>5. Distinct3(tr)
  <2> SUFFICES ASSUME NEW k \in DOMAIN tr, NEW l \in DOMAIN tr, Verts(tr[k]) = Verts(tr[l]), k # l
               PROVE  FALSE
    BY DEF Distinct3
  <2>0. PICK e : e = <<k, 0>>
    OBVIOUS
  <2>1. e = <<k, 0>> /\ e \in Darts(m) /\ Nx(e) \in Darts(m) /\ Pv(e) \in Darts(m)
    <3>1. 0 \in Local /\ k \in Live(m.trs)
      BY <1>1 DEF Local
    <3>2. e \in Darts(m)
      BY <2>0, <3>1, AsDarts
    <3> QED
      BY <2>0, <3>2, DartsTurn
  <2>2. Verts(tr[k]) = {Vt(m, e), Vt(m, Nx(e)), Vt(m, Pv(e))}
    BY <1>1, <2>1 DEF Verts, Vt, Nx, Pv, Nxt, Prv, Local
  <2>3. PICK j \in Local : tr[l].v[j] = Vt(m, e)
    BY <2>2 DEF Verts
  <2>10. PICK f : f = <<l, j>>
    OBVIOUS
  <2>4. f = <<l, j>> /\ f \in Darts(m) /\ Vt(m, f) = Vt(m, e)
    BY <1>1, <2>3, <2>10, AsDarts
  <2>5. Verts(tr[l]) = {Vt(m, f), Vt(m, Nx(f)), Vt(m, Pv(f))}
    <3>1. Verts(tr[l]) = {tr[l].v[j], tr[l].v[Nxt(j)], tr[l].v[Prv(j)]}
      BY Turns DEF Verts
    <3> QED
      BY <1>1, <2>4, <3>1 DEF Vt, Nx, Pv
  <2>6. /\ Vt(m, e) # Vt(m, Nx(e)) /\ Vt(m, e) # Vt(m, Pv(e)) /\ Vt(m, Nx(e)) # Vt(m, Pv(e))
        /\ Vt(m, f) # Vt(m, Nx(f)) /\ Vt(m, f) # Vt(m, Pv(f)) /\ Vt(m, Nx(f)) # Vt(m, Pv(f))
    BY <2>1, <2>4, Corners
  <2>7. {Vt(m, Nx(e)), Vt(m, Pv(e))} = {Vt(m, Nx(f)), Vt(m, Pv(f))}
    BY <2>2, <2>4, <2>5, <2>6
  <2>8. e # f
    BY <2>1, <2>4
  <2>9. Vt(m, Nx(f)) = Vt(m, Pv(e)) /\ Vt(m, Pv(f)) = Vt(m, Nx(e))
    BY <2>1, <2>4, <2>7, <2>8, EndsTell
  <2> QED
    BY <2>1, <2>4, <2>9, SameVerts
<1>6. TwoSided(tr)
  <2> SUFFICES ASSUME NEW k \in DOMAIN tr, NEW l \in DOMAIN tr, NEW i \in Local, NEW j \in Local,
                      Side(tr[k], i) = Back(tr[l], j)
               PROVE  Agreed(tr[k], i, tr[l], j)
    BY DEF TwoSided
  <2>0. PICK e, f : e = <<l, j>> /\ f = <<k, i>>
    OBVIOUS
  <2>1. e = <<l, j>> /\ f = <<k, i>> /\ e \in Darts(m) /\ f \in Darts(m) /\ Ad(m, e) = f
    BY <1>4, <2>0
  <2>2. f # NoAdja
    BY <2>1, Corners, MeshAssumption DEF DartSet, NoAdja
  <2>3. Tg(m, f) = Tg(m, e) /\ Tg(m, e) \ {"req"} = IF Rf(m, f) # Rf(m, e) THEN {"ref", "bdy"} ELSE {}
    BY <2>1, <2>2 DEF Tagged, KindOf
  <2> QED
    <3>1. /\ Tg(m, e) = tr[l].tag[j] /\ Rf(m, e) = tr[l].ref
          /\ Tg(m, f) = tr[k].tag[i] /\ Rf(m, f) = tr[k].ref
      BY <1>1, <2>1, AsDarts
    <3> QED
      BY <2>3, <3>1 DEF Agreed
<1>7. HullTagged(tr)
  <2> SUFFICES ASSUME NEW k \in DOMAIN tr, NEW i \in Local,
                      ~\E l \in DOMAIN tr, j \in Local : Side(tr[l], j) = Back(tr[k], i)
               PROVE  tr[k].tag[i] \ {"req"} = {"geo", "bdy"}
    BY DEF HullTagged
  <2>1. PICK e : e = <<k, i>> /\ e \in Darts(m)
    BY <1>1, AsDarts
  <2>2. ASSUME Ad(m, e) # NoAdja PROVE FALSE
    <3>1. PICK f : f = Ad(m, e) /\ f \in Darts(m) /\ Vt(m, Nx(f)) = Vt(m, Pv(e)) /\ Vt(m, Pv(f)) = Vt(m, Nx(e))
      BY <2>1, <2>2, Twin
    <3>2. PICK l, j : f = <<l, j>> /\ l \in DOMAIN tr /\ j \in Local
      BY <1>1, <3>1, AllDarts
    <3>3. Side(tr[l], j) = Back(tr[k], i)
      BY <1>1, <2>1, <3>1, <3>2, AsDarts
    <3> QED
      BY <3>2, <3>3
  <2>3. Tg(m, e) \ {"req"} = {"geo", "bdy"}
    BY <2>1, <2>2 DEF Tagged, KindOf
  <2> QED
    BY <1>1, <2>1, <2>3, AsDarts
<1> QED
  BY <1>1, <1>2, <1>3, <1>5, <1>6, <1>7 DEF Conforming

(* The adjacencies are built again from the vertices of the triangles.     *)
SameEnds(m, e, f) == {Vt(m, Nx(e)), Vt(m, Pv(e))} = {Vt(m, Nx(f)), Vt(m, Pv(f))}
Rehashed(m, m2) ==
    /\ m2.pts = m.pts /\ m2.trs = m.trs /\ m2.point = m.point
    /\ \A e \in Darts(m) :
          /\ Vt(m2, e) = Vt(m, e) /\ Tg(m2, e) = Tg(m, e) /\ Rf(m2, e) = Rf(m, e)
          /\ \/ /\ Ad(m2, e) = NoAdja
                /\ \A f \in Darts(m) \ {e} : ~SameEnds(m, e, f)
             \/ Ad(m2, e) \in Darts(m) \ {e} /\ SameEnds(m, e, Ad(m2, e))
EndsTagged(m) == \A e \in Darts(m) : Tg(m, e) \subseteq Pt(m, Vt(m, Nx(e))) /\ Tg(m, e) \subseteq Pt(m, Vt(m, Pv(e)))

(* Two sides with the same ends are the two sides of an edge, ...          *)
LEMMA OppositeSides ==
  ASSUME NEW m, Conforming(Trs(m)), NEW e \in Darts(m), NEW f \in Darts(m), e # f, SameEnds(m, e, f)
  PROVE  /\ Vt(m, Nx(f)) = Vt(m, Pv(e)) /\ Vt(m, Pv(f)) = Vt(m, Nx(e))
         /\ Vt(m, Nx(e)) # Vt(m, Pv(e))
         /\ Tg(m, f) = Tg(m, e)
         /\ Tg(m, e) \ {"req"} = IF Rf(m, f) # Rf(m, e) THEN {"ref", "bdy"} ELSE {}
<1>1. PICK k, i : e = <<k, i>> /\ k \in Live(m.trs) /\ i \in Local
  BY AllDarts
<1>2. PICK l, j : f = <<l, j>> /\ l \in Live(m.trs) /\ j \in Local
  BY AllDarts
<1>0. PICK tr : tr = Trs(m)
  OBVIOUS
<1>3. tr = Trs(m) /\ DOMAIN tr = Live(m.trs) /\ tr[k] = m.tria[k] /\ tr[l] = m.tria[l]
  BY <1>0, <1>1, <1>2 DEF Trs
<1>4. /\ Side(tr[k], i) = <<Vt(m, Nx(e)), Vt(m, Pv(e))>> /\ Back(tr[k], i) = <<Vt(m, Pv(e)), Vt(m, Nx(e))>>
      /\ Tg(m, e) = tr[k].tag[i] /\ Rf(m, e) = tr[k].ref
  BY <1>1, <1>3, AsDarts
<1>5. /\ Side(tr[l], j) = <<Vt(m, Nx(f)), Vt(m, Pv(f))>> /\ Back(tr[l], j) = <<Vt(m, Pv(f)), Vt(m, Nx(f))>>
      /\ Tg(m, f) = tr[l].tag[j] /\ Rf(m, f) = tr[l].ref
  BY <1>2, <1>3, AsDarts
<1>6. Side(tr[k], i) # Side(tr[l], j)
  BY <1>1, <1>2, <1>3 DEF Conforming, OneWay
<1>7. Vt(m, Nx(f)) = Vt(m, Pv(e)) /\ Vt(m, Pv(f)) = Vt(m, Nx(e)) /\ Vt(m, Nx(e)) # Vt(m, Pv(e))
  BY <1>4, <1>5, <1>6 DEF SameEnds
<1>8. Side(tr[l], j) = Back(tr[k], i)
  BY <1>4, <1>5, <1>7
<1>9. Agreed(tr[l], j, tr[k], i)
  BY <1>1, <1>2, <1>3, <1>8 DEF Conforming, TwoSided
<1>10. Tg(m, f) = Tg(m, e) /\ Tg(m, e) \ {"req"} = IF Rf(m, f) # Rf(m, e) THEN {"ref", "bdy"} ELSE {}
  BY <1>4, <1>5, <1>9 DEF Agreed
<1> QED
  BY <1>7, <1>10

(* ... and an edge with one side only is on the hull.                      *)
LEMMA HullSide ==
  ASSUME NEW m, Conforming(Trs(m)), NEW e \in Darts(m), \A f \in Darts(m) \ {e} : ~SameEnds(m, e, f)
  PROVE  Tg(m, e) \ {"req"} = {"geo", "bdy"}
<1>1. PICK k, i : e = <<k, i>> /\ k \in Live(m.trs) /\ i \in Local
  BY AllDarts
<1>0. PICK tr : tr = Trs(m)
  OBVIOUS
<1>3. tr = Trs(m) /\ DOMAIN tr = Live(m.trs) /\ \A l \in Live(m.trs) : tr[l] = m.tria[l]
  BY <1>0 DEF Trs
<1>4. /\ Side(tr[k], i) = <<Vt(m, Nx(e)), Vt(m, Pv(e))>> /\ Back(tr[k], i) = <<Vt(m, Pv(e)), Vt(m, Nx(e))>>
      /\ Tg(m, e) = tr[k].tag[i]
  BY <1>1, <1>3, AsDarts
<1>5. ASSUME NEW l \in DOMAIN tr, NEW j \in Local, Side(tr[l], j) = Back(tr[k], i)
      PROVE  FALSE
  <2>1. PICK f : f = <<l, j>>
    OBVIOUS
  <2>2. f \in Darts(m) /\ Side(tr[l], j) = <<Vt(m, Nx(f)), Vt(m, Pv(f))>>
    BY <1>3, <2>1, AsDarts
  <2>3. Vt(m, Nx(f)) = Vt(m, Pv(e)) /\ Vt(m, Pv(f)) = Vt(m, Nx(e))
    BY <1>4, <1>5, <2>2
  <2>4. SameEnds(m, e, f)
    BY <2>3 DEF SameEnds
  <2>5. f = e
    BY <2>2, <2>4
  <2>6. Side(tr[k], i) = Back(tr[k], i)
    BY <1>4, <2>3, <2>5
  <2>7. Cornered(tr[k])
    BY <1>1, <1>3 DEF Conforming
  <2> QED
    BY <1>1, <2>6, <2>7, Turns DEF Side, Back, Cornered
<1> QED
  BY <1>1, <1>3, <1>4, <1>5 DEF Conforming, HullTagged

(* MMG2D_hashTria: on triangles that conform the adjacencies it finds are  *)
(* symmetric, by opposite sides of the same edge, what is tagged is what   *)
(* the references across it ask for, and triangles that share an edge are  *)
(* adjacent.                                                               *)
LEMMA RehashJoins ==
  ASSUME NEW m, m \in MeshSet, Conforming(Trs(m)), EndsTagged(m), NEW m2, Rehashed(m, m2)
  PROVE  Joined(m2) /\ Tagged(m2) /\ Simple(m2)
<1>1. Darts(m2) = Darts(m) /\ \A p : Pt(m2, p) = Pt(m, p)
  BY DEF Rehashed, Darts, Pt
<1>2. \A e \in Darts(m) : /\ Vt(m2, e) = Vt(m, e) /\ Tg(m2, e) = Tg(m, e) /\ Rf(m2, e) = Rf(m, e)
                          /\ Vt(m2, Nx(e)) = Vt(m, Nx(e)) /\ Vt(m2, Pv(e)) = Vt(m, Pv(e))
  BY DartsTurn DEF Rehashed
<1>3. ASSUME NEW e \in Darts(m)
      PROVE  \/ /\ Ad(m2, e) = NoAdja
                /\ \A f \in Darts(m) \ {e} : ~SameEnds(m, e, f)
             \/ Ad(m2, e) \in Darts(m) \ {e} /\ SameEnds(m, e, Ad(m2, e))
  BY DEF Rehashed
<1>4. NoAdja \notin Darts(m)
  BY MeshParts, MeshAssumption DEF DartSet, NoAdja
<1>5. ASSUME NEW e \in Darts(m), NEW f \in Darts(m), e # f, SameEnds(m, e, f)
      PROVE  Ad(m2, e) = f
  <2>1. PICK g : g = Ad(m2, e)
    OBVIOUS
  <2>2. g \in Darts(m) /\ g # e /\ SameEnds(m, e, g)
    BY <1>3, <1>5, <2>1
  <2>3. /\ Vt(m, Nx(f)) = Vt(m, Pv(e)) /\ Vt(m, Pv(f)) = Vt(m, Nx(e)) /\ Vt(m, Nx(e)) # Vt(m, Pv(e))
        /\ Vt(m, Nx(g)) = Vt(m, Pv(e)) /\ Vt(m, Pv(g)) = Vt(m, Nx(e))
    BY <1>5, <2>2, OppositeSides
  <2>4. ASSUME f # g PROVE FALSE
    <3>1. SameEnds(m, f, g)
      BY <2>3 DEF SameEnds
    <3>2. Vt(m, Nx(g)) = Vt(m, Pv(f))
      BY <2>2, <2>4, <3>1, OppositeSides
    <3> QED
      BY <2>3, <3>2
  <2> QED
    BY <2>1, <2>4
<1>6. ASSUME NEW e \in Darts(m), Ad(m2, e) # NoAdja
      PROVE  /\ Ad(m2, e) \in Darts(m) /\ Ad(m2, Ad(m2, e)) = e
             /\ Vt(m, Nx(Ad(m2, e))) = Vt(m, Pv(e)) /\ Vt(m, Pv(Ad(m2, e))) = Vt(m, Nx(e))
             /\ Tg(m, Ad(m2, e)) = Tg(m, e)
             /\ Tg(m, e) \ {"req"} = IF Rf(m, Ad(m2, e)) # Rf(m, e) THEN {"ref", "bdy"} ELSE {}
  <2>1. PICK f : f = Ad(m2, e)
    OBVIOUS
  <2>2. f \in Darts(m) /\ f # e /\ SameEnds(m, e, f)
    BY <1>3, <1>6, <2>1
  <2>3. SameEnds(m, f, e)
    BY <2>2 DEF SameEnds
  <2>4. Ad(m2, f) = e
    BY <1>5, <2>2, <2>3
  <2> QED
    BY <2>1, <2>2, <2>4, OppositeSides
<1>7. Joined(m2)
  <2> SUFFICES ASSUME NEW e \in Darts(m), Ad(m2, e) # NoAdja
               PROVE  /\ Ad(m2, e) \in Darts(m2)
                      /\ Ad(m2, Ad(m2, e)) = e
                      /\ Vt(m2, Nx(Ad(m2, e))) = Vt(m2, Pv(e))
                      /\ Vt(m2, Pv(Ad(m2, e))) = Vt(m2, Nx(e))
    BY <1>1 DEF Joined
  <2> QED
    BY <1>1, <1>2, <1>6
<1>8. Tagged(m2)
  <2> SUFFICES ASSUME NEW e \in Darts(m)
               PROVE  /\ Ad(m2, e) # NoAdja => Tg(m2, Ad(m2, e)) = Tg(m2, e)
                      /\ Tg(m2, e) \ {"req"} = KindOf(m2, e)
                      /\ Tg(m2, e) \subseteq Pt(m2, Vt(m2, Nx(e)))
                      /\ Tg(m2, e) \subseteq Pt(m2, Vt(m2, Pv(e)))
    BY <1>1 DEF Tagged
  <2>1. Tg(m2, e) \subseteq Pt(m2, Vt(m2, Nx(e))) /\ Tg(m2, e) \subseteq Pt(m2, Vt(m2, Pv(e)))
    BY <1>1, <1>2 DEF EndsTagged
  <2>2. CASE Ad(m2, e) = NoAdja
    <3>1. Tg(m, e) \ {"req"} = {"geo", "bdy"}
      BY <1>3, <1>4, <2>2, HullSide
    <3> QED
      BY <1>2, <2>1, <2>2, <3>1 DEF KindOf
  <2>3. CASE Ad(m2, e) # NoAdja
    <3>1. PICK f : f = Ad(m2, e)
      OBVIOUS
    <3>2. /\ f \in Darts(m) /\ Tg(m, f) = Tg(m, e)
          /\ Tg(m, e) \ {"req"} = IF Rf(m, f) # Rf(m, e) THEN {"ref", "bdy"} ELSE {}
      BY <1>6, <2>3, <3>1
    <3>3. Tg(m2, f) = Tg(m2, e) /\ Rf(m2, f) = Rf(m, f) /\ Rf(m2, e) = Rf(m, e) /\ Tg(m2, e) = Tg(m, e)
      BY <1>2, <3>2
    <3> QED
      BY <2>1, <2>3, <3>1, <3>2, <3>3 DEF KindOf
  <2> QED
    BY <2>2, <2>3
<1>9. Simple(m2)
  <2> SUFFICES ASSUME NEW e \in Darts(m), NEW f \in Darts(m), e[1] # f[1], SameEnds(m2, e, f)
               PROVE  Ad(m2, e) = f
    BY <1>1 DEF Simple, SameEnds
  <2>1. SameEnds(m, e, f)
    BY <1>2 DEF SameEnds
  <2> QED
    BY <1>5, <2>1
<1> QED
  BY <1>7, <1>8, <1>9

(* No edge of a piece is left to cut.                                      *)
LEMMA NoMoreCuts ==
  ASSUME NEW tr, NEW mk, CutReady(tr, mk), DOMAIN mk \subseteq EdgesOf(tr),
         NEW q, NEW k, NEW n, PieceOf(tr, mk, q, k, n)
  PROVE  CutOf(q, mk) = {}
<1> SUFFICES ASSUME NEW i \in Local, Rim(q, i) \in DOMAIN mk PROVE FALSE
  BY DEF CutOf
<1>1. PICK l \in DOMAIN tr, s \in Local : Rim(q, i) = Rim(tr[l], s)
  BY DEF EdgesOf
<1>2. PICK a, b : a = q.v[Nxt(i)] /\ b = q.v[Prv(i)]
  OBVIOUS
<1>3. Rim(q, i) = {a, b}
  BY <1>2 DEF Rim
<1>4. a \in Verts(tr[l]) /\ b \in Verts(tr[l])
  BY <1>1, <1>3, Turns DEF Rim, Verts
<1>5. /\ \A e \in DOMAIN mk : mk[e] # a /\ mk[e] # b
      /\ Marks(mk)
  BY <1>4 DEF CutReady, Fresh
<1>6. Roots(mk, a, b) = {a, b}
  BY <1>5, OriginOf DEF Roots
<1>7. Cornered(tr[k])
  BY PieceSays
<1>8. Verts(tr[k]) # {a, b}
  BY <1>1, <1>3, <1>7, ThreeNotTwo
<1>9. PICK s2 : Outer(tr, mk, q, k, i, s2)
  BY <1>2, <1>6, <1>8, Places
<1>10. s2 \in Local /\ Lies(tr[k], mk, s2, <<a, b>>)
  BY <1>2, <1>9 DEF Outer
<1>11. <<a, b>> = Side(tr[k], s2) /\ Rim(tr[k], s2) \notin DOMAIN mk
  BY <1>5, <1>10 DEF Lies
<1> QED
  BY <1>3, <1>11 DEF Side, Rim

(* Two sets of the same triangles, each of them once. *)
Alike(tr, us) == /\ \A k \in DOMAIN us : \E l \in DOMAIN tr : us[k] = tr[l]
                 /\ \A l \in DOMAIN tr : \E k \in DOMAIN us : us[k] = tr[l]
                 /\ \A k, l \in DOMAIN us : us[k] = us[l] => k = l

(* They conform together.                                                  *)
LEMMA AlikeConforms ==
  ASSUME NEW tr, Conforming(tr), NEW us, Alike(tr, us)
  PROVE  Conforming(us) /\ Vertices(us) = Vertices(tr)
<1>1. ASSUME NEW k \in DOMAIN us PROVE us[k] \in Plane /\ Cornered(us[k])
  BY DEF Alike, Conforming
<1>2. Distinct3(us)
  <2> SUFFICES ASSUME NEW k \in DOMAIN us, NEW l \in DOMAIN us, Verts(us[k]) = Verts(us[l]) PROVE us[k] = us[l]
    BY DEF Distinct3, Alike
  <2>1. PICK p \in DOMAIN tr : us[k] = tr[p]
    BY DEF Alike
  <2>2. PICK q \in DOMAIN tr : us[l] = tr[q]
    BY DEF Alike
  <2> QED
    BY <2>1, <2>2 DEF Conforming, Distinct3
<1>3. OneWay(us)
  <2> SUFFICES ASSUME NEW k \in DOMAIN us, NEW l \in DOMAIN us, NEW i \in Local, NEW j \in Local, Side(us[k], i) = Side(us[l], j)
               PROVE  us[k] = us[l] /\ i = j
    BY DEF OneWay, Alike
  <2>1. PICK p \in DOMAIN tr : us[k] = tr[p]
    BY DEF Alike
  <2>2. PICK q \in DOMAIN tr : us[l] = tr[q]
    BY DEF Alike
  <2> QED
    BY <2>1, <2>2 DEF Conforming, OneWay
<1>4. TwoSided(us)
  <2> SUFFICES ASSUME NEW k \in DOMAIN us, NEW l \in DOMAIN us, NEW i \in Local, NEW j \in Local, Side(us[k], i) = Back(us[l], j)
               PROVE  Agreed(us[k], i, us[l], j)
    BY DEF TwoSided
  <2>1. PICK p \in DOMAIN tr : us[k] = tr[p]
    BY DEF Alike
  <2>2. PICK q \in DOMAIN tr : us[l] = tr[q]
    BY DEF Alike
  <2> QED
    BY <2>1, <2>2 DEF Conforming, TwoSided
<1>5. HullTagged(us)
  <2> SUFFICES ASSUME NEW k \in DOMAIN us, NEW i \in Local, ~\E l \in DOMAIN us, j \in Local : Side(us[l], j) = Back(us[k], i)
               PROVE  us[k].tag[i] \ {"req"} = {"geo", "bdy"}
    BY DEF HullTagged
  <2>1. PICK p \in DOMAIN tr : us[k] = tr[p]
    BY DEF Alike
  <2>2. ~\E q \in DOMAIN tr, j \in Local : Side(tr[q], j) = Back(tr[p], i)
    BY <2>1 DEF Alike
  <2> QED
    BY <2>1, <2>2 DEF Conforming, HullTagged
<1>6. Vertices(us) = Vertices(tr)
  <2>1. ASSUME NEW k \in DOMAIN us PROVE \E l \in DOMAIN tr : Verts(us[k]) = Verts(tr[l])
    BY DEF Alike
  <2>2. ASSUME NEW l \in DOMAIN tr PROVE \E k \in DOMAIN us : Verts(us[k]) = Verts(tr[l])
    BY DEF Alike
  <2> QED
    BY <2>1, <2>2 DEF Vertices
<1> QED
  BY <1>1, <1>2, <1>3, <1>4, <1>5, <1>6 DEF Conforming

(* A piece keeps what the triangle has in adja. *)
LEMMA PiecesAdja ==
  ASSUME NEW t \in Plane, NEW mk, CutOf(t, mk) # {}
  PROVE  /\ \A n \in DOMAIN CutUp(t, mk) : CutUp(t, mk)[n].adja = t.adja
         /\ Cardinality(CutOf(t, mk)) \in {1, 2, 3}
         /\ DOMAIN CutUp(t, mk) = 1..(Cardinality(CutOf(t, mk)) + 1)
<1>1. PICK cut : cut = CutOf(t, mk) /\ cut \subseteq Local
  BY DEF CutOf
<1>2. PICK x : x = CutAt(t, mk)
  OBVIOUS
<1>3. CutUp(t, mk) = Pieces(t, x, cut)
  BY <1>1, <1>2 DEF CutUp
<1>4. ASSUME NEW i
      PROVE  /\ DOMAIN Split1(t, x, i) = 1..2
             /\ \A n \in 1..2 : Split1(t, x, i)[n].adja = t.adja
  <2>1. \A n \in 1..2 : n = 1 \/ n = 2
    OBVIOUS
  <2>2. DOMAIN Split1(t, x, i) = 1..2
    BY DEF Split1
  <2>3. Split1(t, x, i)[1].adja = t.adja
    BY DEF Split1, Plane
  <2>4. Split1(t, x, i)[2].adja = t.adja
    BY DEF Split1, Plane
  <2> QED
    BY <2>1, <2>2, <2>3, <2>4
<1>5. ASSUME NEW i
      PROVE  /\ DOMAIN Split2(t, x, i) = 1..3
             /\ \A n \in 1..3 : Split2(t, x, i)[n].adja = t.adja
  <2>1. \A n \in 1..3 : n = 1 \/ n = 2 \/ n = 3
    OBVIOUS
  <2>2. DOMAIN Split2(t, x, i) = 1..3
    BY DEF Split2
  <2>3. Split2(t, x, i)[1].adja = t.adja
    BY DEF Split2, Plane
  <2>4. Split2(t, x, i)[2].adja = t.adja
    BY DEF Split2, Plane
  <2>5. Split2(t, x, i)[3].adja = t.adja
    BY DEF Split2, Plane
  <2> QED
    BY <2>1, <2>2, <2>3, <2>4, <2>5
<1>6. /\ DOMAIN Split3(t, x) = 1..4
      /\ \A n \in 1..4 : Split3(t, x)[n].adja = t.adja
  <2>1. \A n \in 1..4 : n = 1 \/ n = 2 \/ n = 3 \/ n = 4
    OBVIOUS
  <2>2. DOMAIN Split3(t, x) = 1..4
    BY DEF Split3
  <2>3. Split3(t, x)[1].adja = t.adja
    BY DEF Split3, Plane
  <2>4. Split3(t, x)[2].adja = t.adja
    BY DEF Split3, Plane
  <2>5. Split3(t, x)[3].adja = t.adja
    BY DEF Split3, Plane
  <2>6. Split3(t, x)[4].adja = t.adja
    BY DEF Split3, Plane
  <2> QED
    BY <2>1, <2>2, <2>3, <2>4, <2>5, <2>6
<1>7. CASE Cardinality(cut) = 1
  <2>1. Pieces(t, x, cut) = Split1(t, x, CHOOSE i \in cut : TRUE)
    BY <1>7 DEF Pieces
  <2> QED
    BY <1>1, <1>3, <1>4, <1>7, <2>1
<1>8. CASE Cardinality(cut) = 2
  <2>1. Pieces(t, x, cut) = Split2(t, x, CHOOSE i \in Local : i \notin cut)
    BY <1>8 DEF Pieces
  <2> QED
    BY <1>1, <1>3, <1>5, <1>8, <2>1
<1>9. CASE Cardinality(cut) = 3
  <2>1. Pieces(t, x, cut) = Split3(t, x)
    BY <1>9 DEF Pieces
  <2> QED
    BY <1>1, <1>3, <1>6, <1>9, <2>1
<1> QED
  BY <1>1, <1>7, <1>8, <1>9, Cuts

(* The table tab of MMG2D_anaelt for the triangles tr: each edge in it has *)
(* one point of its own, the points of the mesh are those of the triangles *)
(* and these, all of them with the tags of the edges that they are on.     *)
Table(tab) == [e \in {c[1] : c \in tab} |-> (CHOOSE c \in tab : c[1] = e)[2]]

Tabled(m, tr, tab) ==
    /\ \A c \in tab : /\ c[1] \in EdgesOf(tr)
                      /\ c[2] \in Live(m.pts) /\ c[2] \notin Vertices(tr)
    /\ \A c, d \in tab : c[1] = d[1] \/ c[2] = d[2] => c = d
    /\ Vertices(tr) \subseteq Live(m.pts)
    /\ \A p \in Live(m.pts) : p \in Vertices(tr) \/ \E c \in tab : c[2] = p
    /\ \A k \in DOMAIN tr, i \in Local :
          /\ \A p \in Rim(tr[k], i) : tr[k].tag[i] \subseteq Pt(m, p)
          /\ \A c \in tab : c[1] = Rim(tr[k], i) => tr[k].tag[i] \subseteq Pt(m, c[2])

(* The table is one that the pattern split can be done with.               *)
LEMMA TableIs ==
  ASSUME NEW m \in MeshSet, NEW tr, Conforming(tr), NEW tab, Tabled(m, tr, tab), NEW mk, mk = Table(tab)
  PROVE  /\ CutReady(tr, mk) /\ DOMAIN mk \subseteq EdgesOf(tr)
         /\ \A c \in tab : c[1] \in DOMAIN mk /\ mk[c[1]] = c[2]
         /\ \A e \in DOMAIN mk : \E c \in tab : c[1] = e /\ c[2] = mk[e]
<1>1. DOMAIN mk = {c[1] : c \in tab}
  BY DEF Table
<1>2. ASSUME NEW c \in tab
      PROVE  c[1] \in DOMAIN mk /\ mk[c[1]] = c[2]
  <2>1. c[1] \in DOMAIN mk
    BY <1>1
  <2>2. (CHOOSE d \in tab : d[1] = c[1]) = c
    BY DEF Tabled
  <2>3. mk[c[1]] = (CHOOSE d \in tab : d[1] = c[1])[2]
    BY <2>1 DEF Table
  <2> QED
    BY <2>1, <2>2, <2>3
<1>3. ASSUME NEW e \in DOMAIN mk
      PROVE  \E c \in tab : c[1] = e /\ c[2] = mk[e]
  BY <1>1, <1>2
<1>4. \A e \in DOMAIN mk : mk[e] \in Live(m.pts) /\ mk[e] \notin Vertices(tr) /\ e \in EdgesOf(tr)
  BY <1>3 DEF Tabled
<1>5. \A p \in Live(m.pts) : p \in Nat
  BY MeshParts
<1>6. \A e, f \in DOMAIN mk : mk[e] = mk[f] => e = f
  <2> SUFFICES ASSUME NEW e \in DOMAIN mk, NEW f \in DOMAIN mk, mk[e] = mk[f] PROVE e = f
    OBVIOUS
  <2>1. PICK c \in tab : c[1] = e /\ c[2] = mk[e]
    BY <1>3
  <2>2. PICK d \in tab : d[1] = f /\ d[2] = mk[f]
    BY <1>3
  <2> QED
    BY <2>1, <2>2 DEF Tabled
<1>7. Marks(mk)
  BY <1>4, <1>5, <1>6 DEF Marks
<1>8. \A k \in DOMAIN tr : Fresh(tr[k], mk)
  BY <1>4, <1>7 DEF Fresh, Vertices
<1> QED
  BY <1>2, <1>3, <1>4, <1>7, <1>8 DEF CutReady

(* While the triangles are cut: those of D have been, the others are there *)
(* as they were, and what is left to cut is from triangle a on.            *)
Cutting(m, tab, a, tr, D) ==
    /\ m \in MeshSet /\ Lists(m)
    /\ Conforming(tr) /\ Tabled(m, tr, tab)
    /\ D \subseteq DOMAIN tr
    /\ \A k \in DOMAIN tr \ D : /\ k \in Live(m.trs) /\ m.tria[k] = tr[k]
                                /\ k < a => CutOf(tr[k], Table(tab)) = {}
    /\ \A s \in Live(m.trs) : \/ s \in DOMAIN tr \ D
                              \/ \E k, j : k \in D /\ PieceOf(tr, Table(tab), m.tria[s], k, j)
    /\ \A k, j, q : k \in D /\ PieceOf(tr, Table(tab), q, k, j) => \E s \in Live(m.trs) : m.tria[s] = q
    /\ \A s, z \in Live(m.trs) : m.tria[s] = m.tria[z] => s = z

(* The pieces P are put into the slots s, the first of which is in use.    *)
Placed(m, m2, s, P) ==
    /\ m2 \in MeshSet /\ Lists(m2) /\ m2.pts = m.pts /\ m2.point = m.point
    /\ DOMAIN s = DOMAIN P /\ 1 \in DOMAIN P
    /\ \A j \in DOMAIN P : s[j] \in 1..NTMax /\ m2.tria[s[j]] = P[j] /\ (s[j] \in Live(m.trs) <=> j = 1)
    /\ \A i, j \in DOMAIN P : s[i] = s[j] => i = j
    /\ \A n \in 1..NTMax : (\A j \in DOMAIN P : s[j] # n) => m2.tria[n] = m.tria[n]
    /\ Live(m2.trs) = Live(m.trs) \union {s[j] : j \in DOMAIN P}

(* A triangle that has not been cut yet is no piece of another one. *)
LEMMA NoPieceYet ==
  ASSUME NEW tr, NEW mk, CutReady(tr, mk), DOMAIN mk \subseteq EdgesOf(tr), NEW l \in DOMAIN tr,
         NEW k, NEW j, PieceOf(tr, mk, tr[l], k, j)
  PROVE  l = k
<1>1. CutOf(tr[l], mk) = {}
  BY NoMoreCuts
<1>2. CutUp(tr[l], mk) = <<tr[l]>>
  BY <1>1 DEF CutUp
<1>3. PieceOf(tr, mk, tr[l], l, 1)
  BY <1>2 DEF PieceOf
<1> QED
  BY <1>3, PiecesApart

(* The next triangle is cut, and its pieces are put into its own slot and  *)
(* into slots that were not in use.                                        *)
LEMMA PlacedCuts ==
  ASSUME NEW m, NEW tab, NEW a \in Int, NEW tr, NEW D, Cutting(m, tab, a, tr, D),
         NEW k \in DOMAIN tr \ D, k \in Int, CutOf(tr[k], Table(tab)) # {},
         \A l \in DOMAIN tr \ D : l \in Int /\ (l >= a /\ CutOf(tr[l], Table(tab)) # {} => k <= l),
         NEW m2, NEW s, s[1] = k, Placed(m, m2, s, CutUp(tr[k], Table(tab)))
  PROVE  Cutting(m2, tab, k + 1, tr, D \union {k})
<1>0. PICK mk, P, E : mk = Table(tab) /\ P = CutUp(tr[k], mk) /\ E = D \union {k}
  OBVIOUS
<1>1. CutReady(tr, mk) /\ DOMAIN mk \subseteq EdgesOf(tr)
  BY <1>0, TableIs DEF Cutting
<1>2. \A j \in DOMAIN P : PieceOf(tr, mk, P[j], k, j)
  BY <1>0 DEF PieceOf
<1>3. \A n \in Live(m.trs) : n \in 1..NTMax
  BY MeshParts DEF Cutting
<1>4. Placed(m, m2, s, P)
  BY <1>0
<1>5. Tabled(m2, tr, tab)
  BY <1>4 DEF Cutting, Tabled, Placed, Pt
<1>6. ASSUME NEW n \in Live(m.trs), n # k
      PROVE  n \in Live(m2.trs) /\ m2.tria[n] = m.tria[n] /\ \A j \in DOMAIN P : s[j] # n
  <2>1. \A j \in DOMAIN P : s[j] # n
    BY <1>4, <1>6 DEF Placed
  <2> QED
    BY <1>3, <1>4, <2>1 DEF Placed
<1>7. ASSUME NEW n \in Live(m2.trs)
      PROVE  \/ n \in Live(m.trs) /\ n # k /\ m2.tria[n] = m.tria[n]
             \/ \E j \in DOMAIN P : n = s[j] /\ m2.tria[n] = P[j]
  <2>1. CASE \E j \in DOMAIN P : n = s[j]
    BY <1>4, <2>1 DEF Placed
  <2>2. CASE \A j \in DOMAIN P : n # s[j]
    <3>1. n \in Live(m.trs)
      BY <1>4, <2>2 DEF Placed
    <3>2. n # k
      BY <1>4, <2>2 DEF Placed
    <3> QED
      BY <1>6, <3>1, <3>2
  <2> QED
    BY <2>1, <2>2
<1>8. ASSUME NEW l \in DOMAIN tr \ E
      PROVE  /\ l \in Live(m2.trs) /\ m2.tria[l] = tr[l]
             /\ l < k + 1 => CutOf(tr[l], mk) = {}
  <2>1. l \in DOMAIN tr \ D /\ l # k
    BY <1>0
  <2>2. l \in Live(m.trs) /\ m.tria[l] = tr[l] /\ (l < a => CutOf(tr[l], mk) = {})
    BY <1>0, <2>1 DEF Cutting
  <2>3. l \in Int /\ (l >= a /\ CutOf(tr[l], mk) # {} => k <= l)
    BY <1>0, <2>1
  <2> QED
    BY <1>6, <2>1, <2>2, <2>3
<1>9. ASSUME NEW n \in Live(m2.trs)
      PROVE  \/ n \in DOMAIN tr \ E
             \/ \E l, j : l \in E /\ PieceOf(tr, mk, m2.tria[n], l, j)
  <2>1. CASE n \in Live(m.trs) /\ n # k /\ m2.tria[n] = m.tria[n]
    <3>1. n \in DOMAIN tr \ D \/ \E l, j : l \in D /\ PieceOf(tr, mk, m.tria[n], l, j)
      BY <1>0, <2>1 DEF Cutting
    <3> QED
      BY <1>0, <2>1, <3>1
  <2>2. CASE \E j \in DOMAIN P : n = s[j] /\ m2.tria[n] = P[j]
    BY <1>0, <1>2, <2>2
  <2> QED
    BY <1>7, <2>1, <2>2
<1>10. ASSUME NEW l, NEW j, NEW q, l \in E, PieceOf(tr, mk, q, l, j)
       PROVE  \E n \in Live(m2.trs) : m2.tria[n] = q
  <2>1. CASE l \in D
    <3>1. PICK n \in Live(m.trs) : m.tria[n] = q
      BY <1>0, <1>10, <2>1 DEF Cutting
    <3>2. ASSUME n = k PROVE FALSE
      <4>1. q = tr[k]
        BY <3>1, <3>2 DEF Cutting
      <4>2. l = k
        BY <1>1, <1>10, <4>1, NoPieceYet
      <4> QED
        BY <2>1, <4>2
    <3> QED
      BY <1>6, <3>1, <3>2
  <2>2. CASE l = k
    <3>1. j \in DOMAIN P /\ q = P[j]
      BY <1>0, <1>10, <2>2 DEF PieceOf
    <3> QED
      BY <1>4, <3>1 DEF Placed
  <2> QED
    BY <1>0, <1>10, <2>1, <2>2
<1>11. ASSUME NEW n \in Live(m.trs), n # k, NEW j \in DOMAIN P, m.tria[n] = P[j]
       PROVE  FALSE
  <2>1. CASE n \in DOMAIN tr \ D
    <3>1. m.tria[n] = tr[n]
      BY <2>1 DEF Cutting
    <3>2. PieceOf(tr, mk, tr[n], k, j)
      BY <1>2, <1>11, <3>1
    <3>3. n = k
      BY <1>1, <2>1, <3>2, NoPieceYet
    <3> QED
      BY <1>11, <3>3
  <2>2. CASE \E l, i : l \in D /\ PieceOf(tr, mk, m.tria[n], l, i)
    <3>1. PICK l, i : l \in D /\ PieceOf(tr, mk, m.tria[n], l, i)
      BY <2>2
    <3>2. PieceOf(tr, mk, m.tria[n], k, j)
      BY <1>2, <1>11
    <3>3. l = k
      BY <1>1, <3>1, <3>2, PiecesApart
    <3> QED
      BY <3>1, <3>3
  <2> QED
    BY <1>0, <2>1, <2>2 DEF Cutting
<1>12. ASSUME NEW i \in DOMAIN P, NEW j \in DOMAIN P, P[i] = P[j]
       PROVE  i = j
  <2>1. PieceOf(tr, mk, P[i], k, i) /\ PieceOf(tr, mk, P[i], k, j)
    BY <1>2, <1>12
  <2> QED
    BY <1>1, <2>1, PiecesApart
<1>13. ASSUME NEW n \in Live(m2.trs), NEW z \in Live(m2.trs), m2.tria[n] = m2.tria[z]
       PROVE  n = z
  <2>1. CASE n \in Live(m.trs) /\ n # k /\ m2.tria[n] = m.tria[n] /\ z \in Live(m.trs) /\ z # k /\ m2.tria[z] = m.tria[z]
    BY <1>13, <2>1 DEF Cutting
  <2>2. CASE (\E i \in DOMAIN P : n = s[i] /\ m2.tria[n] = P[i]) /\ (\E i \in DOMAIN P : z = s[i] /\ m2.tria[z] = P[i])
    BY <1>12, <1>13, <2>2
  <2> QED
    BY <1>7, <1>11, <1>13, <2>1, <2>2
<1>14. /\ m2 \in MeshSet /\ Lists(m2) /\ Conforming(tr) /\ E \subseteq DOMAIN tr
  BY <1>0, <1>4 DEF Placed, Cutting
<1>15. Cutting(m2, tab, k + 1, tr, E)
  <2>1. /\ \A l \in DOMAIN tr \ E : /\ l \in Live(m2.trs) /\ m2.tria[l] = tr[l]
                                    /\ l < k + 1 => CutOf(tr[l], Table(tab)) = {}
        /\ \A n \in Live(m2.trs) : \/ n \in DOMAIN tr \ E
                                   \/ \E l, j : l \in E /\ PieceOf(tr, Table(tab), m2.tria[n], l, j)
    BY <1>0, <1>8, <1>9
  <2>2. /\ \A l, j, q : l \in E /\ PieceOf(tr, Table(tab), q, l, j) => \E n \in Live(m2.trs) : m2.tria[n] = q
        /\ \A n, z \in Live(m2.trs) : m2.tria[n] = m2.tria[z] => n = z
    BY <1>0, <1>10, <1>13
  <2> QED
    BY <1>5, <1>14, <2>1, <2>2 DEF Cutting
<1> QED
  BY <1>0, <1>15

(* Steps 2 to 4 of MMG2D_anaelt are over: nothing is left to cut, the      *)
(* triangles of the mesh are the pieces of CutsConform, each of them once, *)
(* they conform, and the vertices in use are theirs.                       *)
LEMMA CutsDone ==
  ASSUME NEW m, NEW tab, NEW a, NEW tr, NEW D, Cutting(m, tab, a, tr, D),
         \A k \in DOMAIN tr \ D : CutOf(tr[k], Table(tab)) = {}
  PROVE  Conforming(Trs(m)) /\ Tabled(m, Trs(m), {})
<1>0. PICK mk, us, all : mk = Table(tab) /\ us = Trs(m) /\ all = CutAll(tr, mk)
  OBVIOUS
<1>1. CutReady(tr, mk) /\ DOMAIN mk \subseteq EdgesOf(tr) /\ Conforming(tr) /\ Marks(mk) /\ \A k \in DOMAIN tr : Fresh(tr[k], mk)
  BY <1>0, TableIs DEF Cutting, CutReady
<1>2. DOMAIN us = Live(m.trs) /\ \A n \in Live(m.trs) : us[n] = m.tria[n]
  BY <1>0 DEF Trs
<1>3. ASSUME NEW k \in DOMAIN tr \ D
      PROVE  /\ k \in Live(m.trs) /\ us[k] = tr[k] /\ PieceOf(tr, mk, us[k], k, 1)
             /\ \A j, q : PieceOf(tr, mk, q, k, j) => q = us[k]
  <2>1. CutUp(tr[k], mk) = <<tr[k]>>
    BY <1>0 DEF CutUp
  <2>2. k \in Live(m.trs) /\ us[k] = tr[k]
    BY <1>2 DEF Cutting
  <2> QED
    BY <2>1, <2>2 DEF PieceOf
<1>4. ASSUME NEW n \in Live(m.trs)
      PROVE  \E k, j : PieceOf(tr, mk, us[n], k, j)
  <2>1. n \in DOMAIN tr \ D \/ \E k, j : k \in D /\ PieceOf(tr, mk, m.tria[n], k, j)
    BY <1>0 DEF Cutting
  <2>2. CASE n \in DOMAIN tr \ D
    BY <1>3, <2>2
  <2> QED
    BY <1>2, <2>1, <2>2
<1>5. ASSUME NEW k, NEW j, NEW q, PieceOf(tr, mk, q, k, j)
      PROVE  \E n \in Live(m.trs) : us[n] = q
  <2>1. CASE k \in D
    BY <1>0, <1>2, <1>5, <2>1 DEF Cutting
  <2>2. CASE k \notin D
    BY <1>3, <1>5, <2>2 DEF PieceOf
  <2> QED
    BY <2>1, <2>2
<1>6. Alike(all, us)
  <2>1. ASSUME NEW n \in DOMAIN us PROVE \E e \in DOMAIN all : us[n] = all[e]
    <3>1. PICK k, j : PieceOf(tr, mk, us[n], k, j)
      BY <1>2, <1>4
    <3>2. <<k, j>> \in DOMAIN CutAll(tr, mk) /\ CutAll(tr, mk)[<<k, j>>] = us[n]
      BY <3>1, PieceAt
    <3> QED
      BY <1>0, <3>2
  <2>2. ASSUME NEW e \in DOMAIN all PROVE \E n \in DOMAIN us : us[n] = all[e]
    <3>1. PieceOf(tr, mk, all[e], e[1], e[2])
      BY <1>0, PieceAt
    <3> QED
      BY <1>2, <1>5, <3>1
  <2>3. \A n, z \in DOMAIN us : us[n] = us[z] => n = z
    BY <1>2 DEF Cutting
  <2> QED
    BY <2>1, <2>2, <2>3 DEF Alike
<1>7. Conforming(all) /\ Vertices(all) = Vertices(tr) \union {mk[e] : e \in DOMAIN mk}
  BY <1>0, <1>1, CutsConform
<1>8. Conforming(us) /\ Vertices(us) = Vertices(tr) \union {mk[e] : e \in DOMAIN mk}
  BY <1>6, <1>7, AlikeConforms
<1>9. /\ \A c \in tab : c[1] \in DOMAIN mk /\ mk[c[1]] = c[2]
      /\ \A e \in DOMAIN mk : \E c \in tab : c[1] = e /\ c[2] = mk[e]
  BY <1>0, TableIs DEF Cutting
<1>10. Vertices(us) \subseteq Live(m.pts) /\ \A p \in Live(m.pts) : p \in Vertices(us)
  <2>1. ASSUME NEW p \in Vertices(us) PROVE p \in Live(m.pts)
    <3>1. p \in Vertices(tr) \/ \E e \in DOMAIN mk : p = mk[e]
      BY <1>8
    <3> QED
      BY <1>9, <3>1 DEF Cutting, Tabled
  <2>2. ASSUME NEW p \in Live(m.pts) PROVE p \in Vertices(us)
    <3>1. p \in Vertices(tr) \/ \E c \in tab : c[2] = p
      BY DEF Cutting, Tabled
    <3> QED
      BY <1>8, <1>9, <3>1
  <2> QED
    BY <2>1, <2>2
<1>11. ASSUME NEW n \in DOMAIN us, NEW i \in Local, NEW p \in Rim(us[n], i)
       PROVE  us[n].tag[i] \subseteq Pt(m, p)
  <2>1. PICK q, k, j : q = us[n] /\ PieceOf(tr, mk, q, k, j)
    BY <1>2, <1>4
  <2>2. p = q.v[Nxt(i)] \/ p = q.v[Prv(i)]
    BY <1>11, <2>1 DEF Rim
  <2>3. CASE q.tag[i] = {}
    BY <2>1, <2>3
  <2>4. CASE \E s : Outer(tr, mk, q, k, i, s)
    <3>1. PICK s : Outer(tr, mk, q, k, i, s)
      BY <2>4
    <3>2. /\ s \in Local /\ q.tag[i] = tr[k].tag[s] /\ k \in DOMAIN tr
          /\ Lies(tr[k], mk, s, <<q.v[Nxt(i)], q.v[Prv(i)]>>)
      BY <2>1, <3>1 DEF Outer, PieceOf
    <3>3. p \in Rim(tr[k], s) \/ (Rim(tr[k], s) \in DOMAIN mk /\ p = mk[Rim(tr[k], s)])
      BY <2>2, <3>2 DEF Lies, Side, Rim
    <3>4. CASE p \in Rim(tr[k], s)
      BY <2>1, <3>2, <3>4 DEF Cutting, Tabled
    <3>5. CASE Rim(tr[k], s) \in DOMAIN mk /\ p = mk[Rim(tr[k], s)]
      <4>1. PICK c \in tab : c[1] = Rim(tr[k], s) /\ c[2] = p
        BY <1>9, <3>5
      <4>2. tr[k].tag[s] \subseteq Pt(m, c[2])
        BY <3>2, <4>1 DEF Cutting, Tabled
      <4> QED
        BY <2>1, <3>2, <4>1, <4>2
    <3> QED
      BY <3>3, <3>4, <3>5
  <2> QED
    BY <1>1, <2>1, <2>3, <2>4, Places
<1>12. Tabled(m, us, {})
  BY <1>10, <1>11 DEF Tabled
<1> QED
  BY <1>0, <1>8, <1>12

(* What that says in terms of darts. *)
LEMMA TabledDarts ==
  ASSUME NEW m, Tabled(m, Trs(m), {})
  PROVE  OnLive(m) /\ Used(m) /\ EndsTagged(m)
<1>0. PICK us : us = Trs(m)
  OBVIOUS
<1>1. DOMAIN us = Live(m.trs) /\ \A n \in Live(m.trs) : us[n] = m.tria[n]
  BY <1>0 DEF Trs
<1>2. ASSUME NEW e \in Darts(m)
      PROVE  /\ e[1] \in Live(m.trs) /\ e[2] \in Local
             /\ Vt(m, e) = us[e[1]].v[e[2]] /\ Tg(m, e) = us[e[1]].tag[e[2]]
             /\ Vt(m, Nx(e)) = us[e[1]].v[Nxt(e[2])] /\ Vt(m, Pv(e)) = us[e[1]].v[Prv(e[2])]
  BY <1>1, AllDarts DEF Vt, Tg
<1>3. OnLive(m)
  <2> SUFFICES ASSUME NEW e \in Darts(m) PROVE Vt(m, e) \in Live(m.pts)
    BY DEF OnLive
  <2>1. Vt(m, e) \in Verts(us[e[1]])
    BY <1>2 DEF Verts
  <2>2. Vt(m, e) \in Vertices(us)
    BY <1>1, <1>2, <2>1 DEF Vertices
  <2> QED
    BY <1>0, <2>2 DEF Tabled
<1>4. Used(m)
  <2> SUFFICES ASSUME NEW p \in Live(m.pts) PROVE \E e \in Darts(m) : Vt(m, e) = p
    BY DEF Used
  <2>1. p \in Vertices(us)
    BY <1>0 DEF Tabled
  <2>2. PICK k \in Live(m.trs) : p \in Verts(us[k])
    BY <1>1, <2>1 DEF Vertices
  <2>3. PICK i \in Local : p = us[k].v[i]
    BY <2>2 DEF Verts
  <2>4. <<k, i>> \in Darts(m) /\ Vt(m, <<k, i>>) = p
    BY <1>1, <2>3, AsDarts
  <2> QED
    BY <2>4
<1>5. EndsTagged(m)
  <2> SUFFICES ASSUME NEW e \in Darts(m)
               PROVE  Tg(m, e) \subseteq Pt(m, Vt(m, Nx(e))) /\ Tg(m, e) \subseteq Pt(m, Vt(m, Pv(e)))
    BY DEF EndsTagged
  <2>1. Vt(m, Nx(e)) \in Rim(us[e[1]], e[2]) /\ Vt(m, Pv(e)) \in Rim(us[e[1]], e[2])
    BY <1>2 DEF Rim
  <2> QED
    BY <1>0, <1>1, <1>2, <2>1 DEF Tabled
<1> QED
  BY <1>3, <1>4, <1>5

(* The mesh before anything is cut. *)
LEMMA DartsTabled ==
  ASSUME NEW m, OnLive(m), Used(m), EndsTagged(m)
  PROVE  Tabled(m, Trs(m), {})
<1>0. PICK us : us = Trs(m)
  OBVIOUS
<1>1. DOMAIN us = Live(m.trs) /\ \A n \in Live(m.trs) : us[n] = m.tria[n]
  BY <1>0 DEF Trs
<1>2. ASSUME NEW p \in Vertices(us) PROVE p \in Live(m.pts)
  <2>1. PICK k \in Live(m.trs), i \in Local : p = us[k].v[i]
    BY <1>1 DEF Vertices, Verts
  <2>2. <<k, i>> \in Darts(m) /\ Vt(m, <<k, i>>) = p
    BY <1>1, <2>1, AsDarts
  <2> QED
    BY <2>2 DEF OnLive
<1>3. ASSUME NEW p \in Live(m.pts) PROVE p \in Vertices(us)
  <2>1. PICK e \in Darts(m) : Vt(m, e) = p
    BY DEF Used
  <2>2. e[1] \in DOMAIN us /\ p \in Verts(us[e[1]])
    BY <1>1, <2>1, AllDarts DEF Verts, Vt
  <2> QED
    BY <2>2 DEF Vertices
<1>4. ASSUME NEW k \in DOMAIN us, NEW i \in Local, NEW p \in Rim(us[k], i)
      PROVE  us[k].tag[i] \subseteq Pt(m, p)
  <2>1. PICK e : e = <<k, i>>
    OBVIOUS
  <2>2. e \in Darts(m) /\ Tg(m, e) = us[k].tag[i]
    BY <1>1, <2>1, AsDarts
  <2>3. p = Vt(m, Nx(e)) \/ p = Vt(m, Pv(e))
    BY <1>1, <1>4, <2>1 DEF Rim, Vt, Nx, Pv
  <2> QED
    BY <2>2, <2>3 DEF EndsTagged
<1> QED
  BY <1>0, <1>2, <1>3, <1>4 DEF Tabled
===============================================================================
