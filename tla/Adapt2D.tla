------------------------------- MODULE Adapt2D --------------------------------
(***************************************************************************)
(* The waves of MMG2D_adptri (mmg2d1.c): edges are split, collapsed and    *)
(* swapped, vertices are moved, one triangle at a time.  Lengths and       *)
(* qualities decide what the waves do: here an operator may be applied or  *)
(* refused wherever the tests on tags, topology and orientation allow it,  *)
(* and in any order.                                                       *)
(*                                                                         *)
(* The arrays of the mesh are full-sized: memory is short, so that a       *)
(* vertex or a triangle that finds no slot fails (POINT_REALLOC and        *)
(* TRIA_REALLOC execute their law).  short says that such a failure has    *)
(* broken off an operator; what the waves do afterwards is not modelled.   *)
(***************************************************************************)
EXTENDS Mesh2D, FiniteSetsExt

CONSTANTS Coords,    \* the vertices that are loaded: their coordinates
          Faces,     \* the triangles: [v |-> <<vertex, vertex, vertex>>, ref |-> ref]
          Required,  \* the edges, sets of two vertices, that the user requires
          NPMax, NTMax, \* npmax and ntmax
          MaxOps, MaxMoves \* bounds of the model: operators applied, vertices moved

ASSUME MeshAssumption ==
    /\ NPMax \in Nat /\ NTMax \in Nat /\ Len(Coords) < NPMax /\ Len(Faces) < NTMax
    /\ \A k \in 1..Len(Faces) :
         LET v == Faces[k].v
         IN  Area(Coords[v[1]], Coords[v[2]], Coords[v[3]]) > 0
    /\ Required \subseteq SUBSET (1..Len(Coords))
    /\ MaxOps \in Nat /\ MaxMoves \in Nat

VARIABLES mesh,
          fem,         \* info.fem
          short,       \* an operator has been broken off
          ops, moves   \* operators applied, vertices moved

vars == <<mesh, fem, short, ops, moves>>

-------------------------------------------------------------------------------
(* MMG2D_hashTria, MMG2D_setadj and MMG2D_singul on the mesh that is       *)
(* loaded.  Vertex i of triangle k, the ends of edge i.                    *)
Vertex(k, i) == Faces[k].v[i + 1]
Ends(k, i)   == {Vertex(k, Nxt(i)), Vertex(k, Prv(i))}

Edges == (1..Len(Faces)) \X Local

Across(k, i) ==
    IF \E e \in Edges : e[1] # k /\ Ends(e[1], e[2]) = Ends(k, i)
    THEN CHOOSE e \in Edges : e[1] # k /\ Ends(e[1], e[2]) = Ends(k, i)
    ELSE NoAdja

(* MMG2D_setadj: the boundary of the domain, the interfaces between two    *)
(* references, what the user requires.                                     *)
EdgeTag(k, i) ==
    (IF Across(k, i) = NoAdja THEN {"geo", "bdy"}
     ELSE IF Faces[k].ref # Faces[Across(k, i)[1]].ref THEN {"ref", "bdy"} ELSE {})
    \union (IF Ends(k, i) \in Required THEN {"req"} ELSE {})

PointTag(ip) == UNION {EdgeTag(e[1], e[2]) : e \in {f \in Edges : ip \in Ends(f[1], f[2])}}

(* The corners of triangles at ip, those next to each other across an edge, *)
(* and the fan that MMG5_bouler walks, both ways, from the first triangle  *)
(* in which MMG2D_singul meets ip: where two fans touch at a vertex it     *)
(* sees one of them only.                                                  *)
Around(ip) == {e \in Edges : Vertex(e[1], e[2]) = ip}

Beside(e, f) == e[1] # f[1] /\ Ends(e[1], Nxt(e[2])) = Ends(f[1], Prv(f[2]))

Fans(ip) == {S \in SUBSET Around(ip) :
               \A e, f \in Around(ip) : Beside(e, f) => (e \in S <=> f \in S)}

FirstMet(ip) == {e \in Around(ip) : \A f \in Around(ip) : e[1] <= f[1]}

FirstFan(ip) ==
    {e \in Around(ip) : \E f \in FirstMet(ip) : \A S \in Fans(ip) : f \in S => e \in S}

(* MMG2D_singul: the vertices linked to ip by an edge of that fan with one *)
(* of the tags S; a corner is where two of them are not seen in opposite   *)
(* directions, more or less 45 degrees.                                    *)
Linked(ip, S) ==
    {q \in (1..Len(Coords)) \ {ip} :
        \E e \in FirstFan(ip) : \E i \in {Nxt(e[2]), Prv(e[2])} :
            Ends(e[1], i) = {ip, q} /\ EdgeTag(e[1], i) \intersect S # {}}

Dot(u, w) == u[1] * w[1] + u[2] * w[2]
Vec(p, q) == <<q[1] - p[1], q[2] - p[2]>>

Corner(ip) ==
    \E p, q \in Linked(ip, {"geo", "ref"}) :
        LET u == Vec(Coords[ip], Coords[p])
            w == Vec(Coords[ip], Coords[q])
        IN  p # q /\ ~(Dot(u, w) < 0 /\ 2 * Dot(u, w) * Dot(u, w) >= Dot(u, u) * Dot(w, w))

Singular(ip) ==
    LET ng == Cardinality(Linked(ip, {"geo"}))
        nr == Cardinality(Linked(ip, {"ref"}))
    IN  IF ng + nr = 0 THEN {}
        ELSE IF ng + nr > 2 THEN {"nom"}
        ELSE IF ng = 1 /\ nr = 1 THEN {"req"}
        ELSE IF ng + nr = 1 THEN {"crn", "req"}
        ELSE IF Corner(ip) THEN {"crn"} ELSE {}

Loaded ==
    [pts   |-> InitialPool(Len(Coords), NPMax, "zero"),
     trs   |-> InitialPool(Len(Faces), NTMax, "nul"),
     point |-> [ip \in 1..NPMax |->
                  IF ip <= Len(Coords)
                  THEN [c |-> Coords[ip], tag |-> PointTag(ip) \union Singular(ip)]
                  ELSE NoPoint],
     tria  |-> [k \in 1..NTMax |->
                  IF k <= Len(Faces)
                  THEN [v    |-> [i \in Local |-> Vertex(k, i)],
                        tag  |-> [i \in Local |-> EdgeTag(k, i)],
                        ref  |-> Faces[k].ref,
                        adja |-> [i \in Local |-> Across(k, i)]]
                  ELSE NoTria]]

(* The mesh that is loaded is one of the plane: its triangles are on the   *)
(* vertices that are loaded, each of them is a vertex of a triangle, two   *)
(* triangles see the edge they share in opposite directions.  Where two    *)
(* fans touch at a vertex, MMG2D_singul has found in the first one that    *)
(* the vertex may not move: the waves go wrong where it has not.           *)
ASSUME LoadedAssumption ==
    /\ Coords \in Seq(Int \X Int)
    /\ Faces \in Seq([v : [1..3 -> 1..Len(Coords)], ref : Nat])
    /\ \A ip \in 1..Len(Coords) : Around(ip) # {}
    /\ \A e, f \in Edges :
         e[1] # f[1] /\ Ends(e[1], e[2]) = Ends(f[1], f[2])
            => Vertex(e[1], Nxt(e[2])) = Vertex(f[1], Prv(f[2]))
    /\ \A ip \in 1..Len(Coords) :
         \/ FirstFan(ip) = Around(ip)
         \/ (PointTag(ip) \union Singular(ip)) \intersect {"nom", "crn", "req"} # {}

Init == /\ mesh = Loaded
        /\ fem \in BOOLEAN
        /\ short = FALSE
        /\ ops = 0 /\ moves = 0

-------------------------------------------------------------------------------
(* One triangle of the loop of MMG2D_adpspl: its longest edge, if it is    *)
(* not required, is split at the point that MMG2D_chkspl creates ...       *)
EdgeMid(k, i) == Midpoint(mesh.point[mesh.tria[k].v[Nxt(i)]].c,
                          mesh.point[mesh.tria[k].v[Prv(i)]].c)

WithMid(k, i) == NewPt(mesh, EdgeMid(k, i), mesh.tria[k].tag[i])

CanSplit(k, i) == ~short /\ k \in Live(mesh.trs) /\ ~SIN(mesh.tria[k].tag[i])

SplitEdge(k, i) ==
    LET m  == WithMid(k, i)
        ip == mesh.pts.nil
    IN  /\ CanSplit(k, i)
        /\ ip # 0
        /\ SplitSound(m, k, i, ip)
        /\ m.trs.nil # 0
        /\ m.tria[k].adja[i] # NoAdja => FirstHalf(m, k, i, ip).trs.nil # 0
        /\ mesh' = Split1b(m, k, i, ip)
        /\ UNCHANGED <<short, moves>>

(* ... unless the quality of a new triangle is bad, or there is no memory  *)
(* for the first one: the point is given up.                               *)
(* Mutant of GiveUpSplit: the point stays.                                 *)
GiveUpSplitOnly(k, i) ==
    /\ CanSplit(k, i)
    /\ mesh.pts.nil # 0
    /\ mesh' = WithMid(k, i)
    /\ UNCHANGED <<short, moves>>

GiveUpSplit(k, i) ==
    /\ CanSplit(k, i)
    /\ mesh.pts.nil # 0
    /\ mesh' = DelPt(WithMid(k, i), mesh.pts.nil)
    /\ UNCHANGED <<short, moves>>

(* There is no memory for the point: the law deletes the vertex np.        *)
NoVertexLeft(k, i) ==
    /\ CanSplit(k, i)
    /\ mesh.pts.nil = 0
    /\ mesh' = DelPt(mesh, mesh.pts.n)
    /\ short' = TRUE
    /\ UNCHANGED moves

(* There is memory for the first triangle but not for the second one.      *)
NoSecondTria(k, i) ==
    LET m    == WithMid(k, i)
        ip   == mesh.pts.nil
        half == FirstHalf(m, k, i, ip)
    IN  /\ CanSplit(k, i)
        /\ ip # 0
        /\ SplitSound(m, k, i, ip)
        /\ m.trs.nil # 0
        /\ m.tria[k].adja[i] # NoAdja
        /\ half.trs.nil = 0
        /\ mesh' = DelPt(half, ip)
        /\ short' = TRUE
        /\ UNCHANGED moves

-------------------------------------------------------------------------------
(* Mutant of AlongCurve: a non-manifold vertex may go.                     *)
AlongCurveNonManifold(k, i) ==
    LET pt == mesh.tria[k]
        t1 == mesh.point[pt.v[Nxt(i)]].tag
        t2 == mesh.point[pt.v[Prv(i)]].tag
    IN  /\ ~SIN(t1)
        /\ IF "geo" \in t1 THEN "geo" \in t2 /\ "geo" \in pt.tag[i]
           ELSE "ref" \in t1 => EDG(t2) /\ "ref" \in pt.tag[i]

(* One triangle of the loop of MMG2D_adpcol: edge i, from its vertex p1    *)
(* to its vertex p2.                                                       *)
AlongCurve(k, i) ==
    LET pt == mesh.tria[k]
        t1 == mesh.point[pt.v[Nxt(i)]].tag
        t2 == mesh.point[pt.v[Prv(i)]].tag
    IN  /\ ~SIN(t1) /\ "nom" \notin t1
        /\ IF "geo" \in t1 THEN "geo" \in t2 /\ "geo" \in pt.tag[i]
           ELSE "ref" \in t1 => EDG(t2) /\ "ref" \in pt.tag[i]

CollapseEdge(k, i) ==
    /\ ~short
    /\ k \in Live(mesh.trs)
    /\ ~SIN(mesh.tria[k].tag[i])
    /\ AlongCurve(k, i)
    /\ Chkcol(mesh, k, i, fem)
    /\ mesh' = Collapsed(mesh, k, i)
    /\ UNCHANGED <<short, moves>>

(* One triangle of the loop of MMG2D_swpmsh.                               *)
SwapEdge(k, i) ==
    /\ ~short
    /\ k \in Live(mesh.trs)
    /\ Chkswp(mesh, k, i, fem)
    /\ mesh' = Swapar(mesh, k, i)
    /\ UNCHANGED <<short, moves>>

-------------------------------------------------------------------------------
(* One vertex of the loop of MMG2D_movtri.  MMG2D_movintpt: the vertex     *)
(* goes to the centre of mass of its ball; a loop on the ball adds up.     *)
AddedUp(w) ==
    LET b[n \in 0..Len(w)] == IF n = 0 THEN 0 ELSE b[n - 1] + w[n]
    IN  b[Len(w)]

Mass(list) ==
    LET corner(s, j) == mesh.point[mesh.tria[s[1]].v[j]].c
        area(s)      == AreaOf(mesh, mesh.tria[s[1]].v)
        sum(s, x)    == corner(s, 0)[x] + corner(s, 1)[x] + corner(s, 2)[x]
        volbal       == AddedUp([l \in DOMAIN list |-> area(list[l])])
        b(x)         == AddedUp([l \in DOMAIN list |-> area(list[l]) * sum(list[l], x)])
    IN  <<b(1) \div (3 * volbal), b(2) \div (3 * volbal)>>

(* MMG2D_movedgpt: the vertex goes by a tenth of the way to the farther of *)
(* the two vertices it is linked to along the curve.                       *)
CurveNext(list) ==
    LET along(Side(_)) == {s \in Range(list) : EDG(mesh.tria[s[1]].tag[Side(s[2])])}
    IN  {mesh.tria[s[1]].v[Prv(s[2])] : s \in along(Nxt)}
        \union {mesh.tria[s[1]].v[Nxt(s[2])] : s \in along(Prv)}

Slide(ip, list) ==
    LET c(q)    == mesh.point[q].c
        far(q)  == Dot(Vec(c(ip), c(q)), Vec(c(ip), c(q)))
        next    == CurveNext(list)
    IN  {<<c(ip)[1] + Vec(c(ip), c(q))[1] \div 10, c(ip)[2] + Vec(c(ip), c(q))[2] \div 10>> :
            q \in {r \in next : Cardinality(next) = 2 /\ \A o \in next : far(o) <= far(r)}}

MoveVertex(k, i) ==
    /\ ~short
    /\ moves < MaxMoves
    /\ k \in Live(mesh.trs)
    /\ LET ip   == mesh.tria[k].v[i]
           tag  == mesh.point[ip].tag
           list == Boulet(mesh, k, i)
       IN  /\ ~SIN(tag) /\ "nom" \notin tag
           /\ \E c \in IF EDG(tag) THEN Slide(ip, list) ELSE {Mass(list)} :
                LET m == [mesh EXCEPT !.point[ip].c = c]
                IN  /\ \A l \in DOMAIN list : AreaOf(m, m.tria[list[l][1]].v) > 0
                    /\ mesh' = m
    /\ moves' = moves + 1
    /\ UNCHANGED short

Next ==
    /\ ops < MaxOps
    /\ ops' = ops + 1
    /\ UNCHANGED fem
    /\ \E k \in 1..NTMax, i \in Local :
            \/ SplitEdge(k, i) \/ GiveUpSplit(k, i)
            \/ NoVertexLeft(k, i) \/ NoSecondTria(k, i)
            \/ CollapseEdge(k, i) \/ SwapEdge(k, i) \/ MoveVertex(k, i)

Spec == Init /\ [][Next]_vars

-------------------------------------------------------------------------------
(* Type invariant of the mesh.                                             *)
TypeOK ==
    /\ IsPool(mesh.pts) /\ mesh.pts.max = NPMax
    /\ IsPool(mesh.trs) /\ mesh.trs.max = NTMax
    /\ mesh.point \in [1..NPMax -> [c : Int \X Int, tag : SUBSET TagSet]]
    /\ mesh.tria \in [1..NTMax ->
          [v : [Local -> 0..NPMax], tag : [Local -> SUBSET TagSet], ref : Nat,
           adja : [Local -> ((1..NTMax) \X Local) \union {NoAdja}]]]
    /\ fem \in BOOLEAN /\ short \in BOOLEAN /\ ops \in Nat /\ moves \in Nat

Trias == Live(mesh.trs)
EndsOf(k, i) == {mesh.tria[k].v[Nxt(i)], mesh.tria[k].v[Prv(i)]}

(* The triangles that are left are on vertices that are left, and what is  *)
(* across an edge is across it both ways, on the same vertices.            *)
Adjacent ==
    \A k \in Trias, i \in Local :
        LET a == mesh.tria[k].adja[i]
        IN  /\ mesh.tria[k].v[i] \in Live(mesh.pts)
            /\ a # NoAdja => /\ a[1] \in Trias
                             /\ mesh.tria[a[1]].adja[a[2]] = <<k, i>>
                             /\ mesh.tria[a[1]].v[Nxt(a[2])] = mesh.tria[k].v[Prv(i)]
                             /\ mesh.tria[a[1]].v[Prv(a[2])] = mesh.tria[k].v[Nxt(i)]

(* Two triangles are adjacent, each by the edge that the other one names,  *)
(* exactly when they share this edge.                                      *)
ConformMesh ==
    /\ Adjacent
    /\ \A k \in Trias, i \in Local, l \in Trias, j \in Local :
         l # k /\ EndsOf(l, j) = EndsOf(k, i) => mesh.tria[k].adja[i] = <<l, j>>

Conform == ~short => ConformMesh

(* Both triangles of an edge give it the same tags; the interfaces between *)
(* references and the boundary of the domain are tagged, nothing else is   *)
(* unless the user requires it; the ends of an edge carry its tags.        *)
TagsAgree ==
    ~short => \A k \in Trias, i \in Local :
        LET a   == mesh.tria[k].adja[i]
            tag == mesh.tria[k].tag[i]
        IN  /\ a # NoAdja => mesh.tria[a[1]].tag[a[2]] = tag
            /\ tag \ {"req"} = IF a = NoAdja THEN {"geo", "bdy"}
                               ELSE IF mesh.tria[a[1]].ref # mesh.tria[k].ref
                               THEN {"ref", "bdy"} ELSE {}
            /\ \A ip \in EndsOf(k, i) : tag \subseteq mesh.point[ip].tag

(* No triangle is flat or inverted.                                        *)
Oriented == ~short => \A k \in Trias : AreaOf(mesh, mesh.tria[k].v) > 0

(* Every vertex that is left is a vertex of a triangle: a split that is    *)
(* given up takes its point back, a collapse deletes its vertex.           *)
NoOrphan == ~short => Live(mesh.pts) = UNION {{mesh.tria[k].v[i] : i \in Local} : k \in Trias}

(* The part of the domain with a given reference keeps its area: a swap, a *)
(* collapse or a move never crosses an interface.                          *)
Region(r) == MapThenSumSet(LAMBDA k : AreaOf(mesh, mesh.tria[k].v),
                           {k \in Trias : mesh.tria[k].ref = r})

Refs == {Faces[k].ref : k \in 1..Len(Faces)}
RegionsKept == [][~short' => \A r \in Refs : Region(r)' = Region(r)]_mesh

(* A corner, a required or non-manifold vertex stays where it is, and a    *)
(* required edge stays.                                                    *)
Fixed == {ip \in Live(mesh.pts) : mesh.point[ip].tag \intersect {"crn", "req", "nom"} # {}}
RequiredEdges == {EndsOf(e[1], e[2]) : e \in {f \in Trias \X Local : "req" \in mesh.tria[f[1]].tag[f[2]]}}
SingularKept ==
    [][~short' => /\ \A ip \in Fixed : mesh.point[ip]' = mesh.point[ip]
                  /\ Fixed \subseteq Live(mesh.pts)'
                  /\ RequiredEdges' = RequiredEdges]_mesh

(* With info.fem, no operator but a split creates an edge inside the       *)
(* domain between two vertices of its boundaries.                          *)
Bridges == {EndsOf(e[1], e[2]) : e \in {f \in Trias \X Local :
               /\ "bdy" \notin mesh.tria[f[1]].tag[f[2]]
               /\ \A ip \in EndsOf(f[1], f[2]) : "bdy" \in mesh.point[ip].tag}}
NoNewBridge ==
    [][fem /\ ~short' /\ Trias' \subseteq Trias => Bridges' \subseteq Bridges]_mesh
===============================================================================
