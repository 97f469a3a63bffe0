------------------------------- MODULE Anatet3D -------------------------------
(***************************************************************************)
(* The insertion of points by patterns in a volume mesh (mmg3d1.c):        *)
(* MMG3D_anatets_iso puts points on boundary edges, MMG5_anatetv on edges  *)
(* inside the domain, and both cut every tetrahedron around them.          *)
(*                                                                         *)
(* A step inserts a point, simulates or cuts one tetrahedron, or ends a    *)
(* loop.  The choice of the edges to cut, from the surface and the metric, *)
(* and the answer of a simulation, from the positions on the surface, are  *)
(* left open; the model keeps each point at the middle of its edge.  The   *)
(* table of xtetras is supposed to find room.                              *)
(*                                                                         *)
(* A tag stands for the vertices of the initial mesh that span the tagged  *)
(* edge or face ({}: no tag), so that an inherited tag tells its origin.   *)
(***************************************************************************)
EXTENDS TetPatterns, FiniteSetsExt, SequencesExt, TLC

CONSTANT Meshes   \* the initial meshes and the limits of a call, see MeshRecord

Waves == {"surf", "vol"}

(* tets, refs: vertices and reference of each tetrahedron; coord: of each  *)
(* vertex; required: tetrahedra; waves: the functions that are called;     *)
(* npmax, nemax: where the allocation of points and tetrahedra fails;      *)
(* maxMarks, maxRefused: bounds of the model on the edges that a wave cuts *)
(* by choice and on the simulations that it refuses.                       *)
MeshRecord(m) ==
    /\ DOMAIN m = {"tets", "refs", "coord", "required", "waves", "typchk",
                   "npmax", "nemax", "maxMarks", "maxRefused"}
    /\ m.coord \in Seq([1..3 -> Int]) /\ m.tets \in Seq(Seq(DOMAIN m.coord))
    /\ \A i \in DOMAIN m.tets : Len(m.tets[i]) = 4 /\ IsInjective(m.tets[i])
    /\ UNION {Range(m.tets[i]) : i \in DOMAIN m.tets} = DOMAIN m.coord
    /\ DOMAIN m.refs = DOMAIN m.tets /\ m.required \subseteq DOMAIN m.tets
    /\ m.waves \in Seq(Waves) /\ m.waves # << >> /\ m.typchk \in {1, 2}
    /\ m.npmax \in Nat /\ m.nemax \in Nat
    /\ m.npmax >= Len(m.coord) /\ m.nemax >= Len(m.tets)
    /\ m.maxMarks \in Nat /\ m.maxRefused \in Nat

ASSUME MeshesAssumption == \A m \in Meshes : MeshRecord(m)

MaxSweeps == 40   \* the loop of simulations stops after this number of sweeps

VARIABLES
    mesh,      \* the initial mesh, with the result of its analysis
    tetra,     \* the tetrahedra; six, op3: history, whether split6 or the third case
               \* of split3op has made it
    xtetra,    \* tags of the faces and of the edges, and ori, of those at the boundary
    point,     \* the points in use: coordinates, MG_BDY, vertices of its origin
    free,      \* the list of free points, from npnil
    hash,      \* the edges that have a point, or -1
    call,      \* number of the wave that runs or has run last
    stage,     \* "mark", "sim", "check", "cut", "done"
    at,        \* cursor of the loop of this stage
    memlack,   \* anatetv: no room for a point
    chosen,    \* number of edges cut because they are too long
    last,      \* number of tetrahedra when the cuts begin
    moved,     \* field flag of each point of hash
    ni, it,    \* refused in this sweep; number of the sweep
    ret,       \* "ok"; for -1 "failed", "leaked" where points of the wave are left
    nap, refused,    \* history: points inserted, refused simulations of this wave
    accepted,  \* history: what the last simulation of each tetrahedron accepted
    broken     \* history: whether a split has failed half way

vars == <<mesh, tetra, xtetra, point, free, hash, call, stage, at, memlack, chosen, last,
          moved, ni, it, ret, nap, refused, accepted, broken>>

-------------------------------------------------------------------------------
(* The elements of a finite set of numbers, the smallest one first.        *)
Ascending(S) ==
    [i \in 1..Cardinality(S) |-> CHOOSE x \in S : Cardinality({y \in S : y < x}) = i - 1]

(* A function with the value y at x.                                       *)
With(f, x, y) == [z \in DOMAIN f \union {x} |-> IF z = x THEN y ELSE f[z]]

(* The initial meshes: the faces at the boundary are those of one          *)
(* tetrahedron and those between two references.  The edges of these faces *)
(* and of required tetrahedra are tagged.                                  *)
Corners(m, k) == Range(m.tets[k])
Around(m, s)  == {k \in DOMAIN m.tets : s \subseteq Corners(m, k)}
FacesIn(m)    == UNION {kSubset(3, Corners(m, k)) : k \in DOMAIN m.tets}

(* A face belongs to one tetrahedron or to two (MMG3D_hashTetra keeps one   *)
(* neighbour across each face), and no tetrahedron is there twice.          *)
ASSUME ConformingAssumption ==
    \A m \in Meshes : /\ \A j, k \in DOMAIN m.tets : Corners(m, j) = Corners(m, k) => j = k
                      /\ \A f \in FacesIn(m) : Cardinality(Around(m, f)) <= 2

HullFaces(m)   == {f \in FacesIn(m) : Cardinality(Around(m, f)) = 1}
BdyFaces(m)    == {f \in FacesIn(m) : \/ Cardinality(Around(m, f)) = 1
                                      \/ \E j, k \in Around(m, f) : m.refs[j] # m.refs[k]}
ReqEdges(m)    == UNION {kSubset(2, Corners(m, k)) : k \in m.required}
TaggedEdges(m) == ReqEdges(m) \union UNION {kSubset(2, f) : f \in BdyFaces(m)}

Analysed(m) ==
    [tets |-> m.tets, refs |-> m.refs, coord |-> m.coord, required |-> m.required,
     waves |-> m.waves, typchk |-> m.typchk, npmax |-> m.npmax, nemax |-> m.nemax,
     maxMarks |-> m.maxMarks, maxRefused |-> m.maxRefused,
     hull |-> HullFaces(m), bdy |-> BdyFaces(m), req |-> ReqEdges(m), tagged |-> TaggedEdges(m)]

wave == mesh.waves[call]
ne   == Len(tetra)

(* In what follows mesh is one of them, analysed.  A face between two      *)
(* references is oriented from the greater one.                            *)
Oriented(f, ref) == \A k \in Around(mesh, f) : mesh.refs[k] <= ref

TagOf(s) == IF s \in mesh.tagged \union mesh.bdy THEN s ELSE {}

(* The state that the analysis leaves (hash_3d.c): tags on the faces and   *)
(* the edges of the boundary, and on those of the required tetrahedra.     *)
BdyTets ==
    Ascending({k \in DOMAIN mesh.tets : kSubset(3, Corners(mesh, k)) \intersect mesh.bdy # {}})

XTetra0(k) ==
    LET v == Array(mesh.tets[k])
        face(i) == Corners(mesh, k) \ {v[i]}
    IN [ftag |-> [i \in Local |-> IF face(i) \in mesh.bdy THEN face(i) ELSE {}],
        tag  |-> [e \in Edge |-> TagOf({v[i] : i \in iare[e]})],
        ori  |-> {i \in Local : face(i) \in mesh.bdy /\ Oriented(face(i), mesh.refs[k])}]

Tetra0(k) ==
    [v |-> Array(mesh.tets[k]), ref |-> mesh.refs[k], req |-> k \in mesh.required,
     xt |-> IF k \in Range(BdyTets) THEN CHOOSE x \in DOMAIN BdyTets : BdyTets[x] = k ELSE 0,
     flag |-> {}, six |-> FALSE, op3 |-> FALSE]

HashBoundary(ts, xs) ==
    LET ends(k, i) == {ts[k].v[j] : j \in iare[i]}
        req == UNION {{ends(k, i) : i \in Edge} : k \in {l \in DOMAIN ts : ts[l].req}}
        faces(k) == {f \in Local : xs[ts[k].xt].ftag[f] # {}}
        bdy == UNION {{ends(k, iarf[f][j]) : f \in faces(k), j \in 1..3} :
                      k \in {l \in DOMAIN ts : ~ts[l].req /\ ts[l].xt # 0}}
    IN [e \in req \union bdy |-> -1]

EmptyHash == [e \in {} |-> -1]

(* A wave begins: anatetv forbids the edges of required tetrahedra and of  *)
(* boundary faces.                                                         *)
HashAtStart(w, ts, xs) == IF w = "vol" THEN HashBoundary(ts, xs) ELSE EmptyHash

Init ==
    /\ mesh \in {Analysed(m) : m \in Meshes}
    /\ tetra = [k \in DOMAIN mesh.tets |-> Tetra0(k)]
    /\ xtetra = [x \in DOMAIN BdyTets |-> XTetra0(BdyTets[x])]
    /\ point = [p \in DOMAIN mesh.coord |->
                   [c |-> mesh.coord[p], bdy |-> p \in UNION mesh.bdy, of |-> {p}]]
    /\ free = [i \in 1..(mesh.npmax - Len(mesh.coord)) |-> Len(mesh.coord) + i]
    /\ call = 1
    /\ hash = HashAtStart(wave, tetra, xtetra)
    /\ stage = "mark" /\ at = 0
    /\ memlack = FALSE /\ chosen = 0 /\ last = 0
    /\ moved = << >> /\ ni = 0 /\ it = 1
    /\ ret = "ok"
    /\ nap = 0 /\ refused = 0 /\ broken = FALSE
    /\ accepted = [k \in DOMAIN tetra |-> {}]

-------------------------------------------------------------------------------
Ends(k, e) == {tetra[k].v[i] : i \in iare[e]}
HasReqTag(k, e) == tetra[k].xt # 0 /\ xtetra[tetra[k].xt].tag[e] \in mesh.req

(* hashGet for the six edges (0 when there is no entry), with the edges of *)
(* a required tag left out, and the flag that follows.                     *)
HashGet(e) == IF e \in DOMAIN hash THEN hash[e] ELSE 0
Vx(k)      == [e \in Edge |-> IF HasReqTag(k, e) THEN 0 ELSE HashGet(Ends(k, e))]
FlagOf(k)  == {e \in Edge : Vx(k)[e] > 0}

(* The loops of the analysis.  anatets visits the edges of the faces of    *)
(* the boundary, anatetv all those of each tetrahedron: what the position  *)
(* p of the loop denotes.                                                  *)
SurfAt(p) == LET f == (p % 12) \div 3
             IN [k |-> (p \div 12) + 1, f |-> f, e |-> iarf[f][(p % 3) + 1]]
VolAt(p)  == [k |-> (p \div 6) + 1, e |-> p % 6]

EdgeAt(p) == LET a == IF wave = "surf" THEN SurfAt(p) ELSE VolAt(p) IN Ends(a.k, a.e)

(* With typchk 1 anatets skips the faces that are not well oriented.       *)
Examined(p) ==
    LET a == SurfAt(p)
        t == tetra[a.k]
    IN IF wave = "vol" THEN ~HasReqTag(VolAt(p).k, VolAt(p).e)
       ELSE /\ ~t.req /\ t.xt # 0
            /\ xtetra[t.xt].ftag[a.f] # {}
            /\ mesh.typchk = 1 => a.f \in xtetra[t.xt].ori
            /\ ~HasReqTag(a.k, a.e)

Positions == at .. (IF wave = "surf" THEN 12 ELSE 6) * ne - 1
Markable(p) == p \in Positions /\ Examined(p) /\ EdgeAt(p) \notin DOMAIN hash

(* anatetv cuts the edges that join two points of the boundary in any case, *)
(* the other ones when they are too long.                                  *)
Forced(p) == wave = "vol" /\ \A q \in EdgeAt(p) : point[q].bdy

NewPoint(e, bdy) ==
    [c   |-> [i \in 1..3 |-> MapThenSumSet(LAMBDA q : point[q].c[i], e) \div 2],
     bdy |-> bdy,
     of  |-> UNION {point[q].of : q \in e}]

(* The loop comes to an edge to cut and makes its point, at the head of    *)
(* the list of free ones.                                                  *)
Create(p) ==
    /\ stage = "mark" /\ Markable(p) /\ free # << >>
    /\ ~Forced(p) => chosen < mesh.maxMarks
    /\ \A q \in at..(p - 1) : ~(Forced(q) /\ Markable(q))
    /\ point' = With(point, Head(free), NewPoint(EdgeAt(p), wave = "surf"))
    /\ free' = Tail(free)
    /\ nap' = nap + 1

(* The edge receives it.                                                   *)
Insert(p) ==
    /\ Create(p)
    /\ hash' = With(hash, EdgeAt(p), Head(free))
    /\ chosen' = IF Forced(p) THEN chosen ELSE chosen + 1
    /\ at' = p + 1
    /\ UNCHANGED <<mesh, tetra, xtetra, call, stage, memlack, last, moved, ni, it, ret, refused,
                   accepted, broken>>

(* Or the metric of the point or the entry of the edge fails, and the wave *)
(* returns at once: its points stay in the mesh.                           *)
InsertFails(p) ==
    /\ Create(p)
    /\ stage' = "done" /\ ret' = "leaked"
    /\ UNCHANGED <<mesh, tetra, xtetra, hash, call, at, memlack, chosen, last, moved, ni, it,
                   refused, accepted, broken>>

(* Mutant of PatternPts: the points of the wave are not given back.        *)
NoPatternPts == {}

(* MMG3D_delPatternPts gives back the points of the wave.  (Nothing tells  *)
(* the order of the list of free points afterwards.)                       *)
PatternPts ==
    {q \in UNION {Range(Vx(k)) : k \in {l \in DOMAIN tetra : ~tetra[l].req}} : q > 0}

(* Mutant of DelPatternPts: the points stay valid.                         *)
OnlyListed ==
    /\ point' = point
    /\ free' = Ascending(PatternPts) \o free

DelPatternPts ==
    /\ point' = [q \in DOMAIN point \ PatternPts |-> point[q]]
    /\ free' = Ascending(PatternPts) \o free

(* The wave returns, and the next one of the call begins, or it fails.     *)
Return ==
    /\ IF call < Len(mesh.waves)
       THEN /\ call' = call + 1 /\ stage' = "mark"
            /\ hash' = HashAtStart(mesh.waves[call + 1], tetra, xtetra)
       ELSE /\ call' = call /\ stage' = "done"
            /\ hash' = EmptyHash
    /\ at' = 0 /\ chosen' = 0 /\ moved' = << >> /\ ni' = 0 /\ it' = 1
    /\ nap' = 0 /\ refused' = 0 /\ accepted' = [k \in DOMAIN tetra |-> {}]
    /\ memlack' = FALSE
    /\ UNCHANGED <<mesh, xtetra, last, ret, broken>>

Fail == stage' = "done" /\ ret' = "failed"

(* No memory for the table of edges, or for those that anatetv forbids.    *)
NoTable ==
    /\ stage = "mark" /\ at = 0
    /\ Fail
    /\ UNCHANGED <<mesh, tetra, xtetra, point, free, hash, call, at, memlack, chosen, last, moved,
                   ni, it, nap, refused, accepted, broken>>

(* No room for a point: anatets gives up, anatetv cuts what it has marked. *)
NoRoom ==
    /\ stage = "mark" /\ free = << >>
    /\ \E p \in Positions : Markable(p) /\ (~Forced(p) => chosen < mesh.maxMarks)
    /\ IF wave = "surf"
       THEN DelPatternPts /\ Fail /\ UNCHANGED memlack
       ELSE memlack' = TRUE /\ stage' = "check" /\ UNCHANGED <<point, free, ret>>
    /\ UNCHANGED <<mesh, tetra, xtetra, hash, call, at, chosen, last, moved, ni, it, nap,
                   refused, accepted, broken>>

(* The end of the analysis.  anatets flags the edges that have a point in  *)
(* every tetrahedron that is not required.                                 *)
Flagged ==
    [k \in DOMAIN tetra |-> [tetra[k] EXCEPT !.flag = IF tetra[k].req THEN @ ELSE FlagOf(k)]]

MarkEnd ==
    /\ stage = "mark"
    /\ \A p \in Positions : ~(Markable(p) /\ Forced(p))
    /\ IF nap = 0 THEN Return /\ UNCHANGED <<tetra, point, free>>
       ELSE /\ IF wave = "surf"
               THEN /\ stage' = "sim" /\ at' = 1 /\ tetra' = Flagged
                    /\ moved' = [q \in {hash[e] : e \in DOMAIN hash} |-> 0]
               ELSE /\ stage' = "check"
                    /\ UNCHANGED <<tetra, at, moved>>
            /\ UNCHANGED <<mesh, xtetra, point, free, hash, call, memlack, chosen, last, ni, it,
                           ret, nap, refused, accepted, broken>>

(* anatetv gives up when a tetrahedron with an edge that is too long has a *)
(* bad quality; it reports no failure, not even that there was no room.    *)
Skip ==
    /\ stage = "check"
    /\ \E p \in 0..(6 * ne - 1) : Examined(p) /\ ~Forced(p)
    /\ DelPatternPts
    /\ Return
    /\ UNCHANGED tetra

GoOn ==
    /\ stage = "check"
    /\ stage' = "cut" /\ at' = 1 /\ last' = ne
    /\ UNCHANGED <<mesh, tetra, xtetra, point, free, hash, call, memlack, chosen, moved, ni, it,
                   ret, nap, refused, accepted, broken>>

-------------------------------------------------------------------------------
(* The simulations of anatets.  Global vertices of a piece of k.           *)
Global(k, u) == [i \in Local |-> IF u[i] < m0 THEN tetra[k].v[u[i]] ELSE Vx(k)[u[i] - m0]]

WillBeCut(k) == {Global(k, u) : u \in Simulated(Bits(FlagOf(k)), tetra[k].v)}

ToSimulate == {k \in at..ne : ~tetra[k].req /\ tetra[k].flag # {}}

(* Mutant of TooOften: the points may be moved again and again.            *)
NeverTooOften(pts) == FALSE

TooOften(pts) == \E q \in pts : moved[q] > 2

(* The points of the edges of a tetrahedron, in the order of the edges.    *)
PointsOf(k) ==
    LET es == Ascending(FlagOf(k)) IN [i \in DOMAIN es |-> Vx(k)[es[i]]]

(* What was accepted holds as long as no point of the tetrahedron moves.   *)
Forget(pts) ==
    [j \in DOMAIN accepted |->
        IF \E u \in accepted[j] : Range(u) \intersect pts # {} THEN {} ELSE accepted[j]]

Simulate ==
    /\ stage = "sim" /\ ToSimulate # {}
    /\ LET k   == Min(ToSimulate)
           pts == {Vx(k)[e] : e \in FlagOf(k)}
       IN /\ tetra' = [tetra EXCEPT ![k].flag = FlagOf(k)]
          /\ at' = k + 1
          /\ \/ \* nothing left to cut, or the volumes are right
                /\ accepted' = [accepted EXCEPT ![k] = IF pts = {} THEN {} ELSE WillBeCut(k)]
                /\ UNCHANGED <<point, free, hash, moved, ni, refused>>
             \/ \* MMG3D_dichoto finds other positions for the points
                /\ pts # {} /\ refused < mesh.maxRefused
                /\ ~TooOften(pts)
                /\ moved' = [q \in DOMAIN moved |-> moved[q] + IF q \in pts THEN 1 ELSE 0]
                /\ accepted' = [Forget(pts) EXCEPT ![k] = WillBeCut(k)]
                /\ ni' = ni + 1 /\ refused' = refused + 1
                /\ UNCHANGED <<point, free, hash>>
             \/ \* or the points are deleted
                /\ pts # {} /\ refused < mesh.maxRefused
                /\ point' = [q \in DOMAIN point \ pts |-> point[q]]
                /\ free' = Reverse(PointsOf(k)) \o free
                /\ hash' = [e \in {x \in DOMAIN hash : hash[x] \notin pts} |-> hash[e]]
                /\ moved' = [q \in DOMAIN moved \ pts |-> moved[q]]
                /\ accepted' = Forget(pts)
                /\ ni' = ni + 1 /\ refused' = refused + 1
    /\ UNCHANGED <<mesh, xtetra, call, stage, memlack, chosen, last, it, ret, nap, broken>>

SweepEnd ==
    /\ stage = "sim" /\ ToSimulate = {}
    /\ IF ni > 0 /\ it + 1 < MaxSweeps
       THEN at' = 1 /\ it' = it + 1 /\ ni' = 0 /\ UNCHANGED <<stage, last>>
       ELSE stage' = "cut" /\ at' = 1 /\ last' = ne /\ UNCHANGED <<it, ni>>
    /\ UNCHANGED <<mesh, tetra, xtetra, point, free, hash, call, memlack, chosen, moved, ret,
                   nap, refused, accepted, broken>>

-------------------------------------------------------------------------------
(* The cuts.  anatetv computes the flags of a tetrahedron when it comes.   *)
CutFlag(k) == IF wave = "surf" THEN tetra[k].flag ELSE FlagOf(k)
ToCut == {k \in at..last : ~tetra[k].req /\ CutFlag(k) # {}}

(* Mutants of XTetraOf: the edges keep their tags; a piece does not take   *)
(* over the orientation bits of the faces of its parent.                   *)
EdgesKept(x, p, ftag) ==
    [ftag |-> [f \in Local |-> IF f \in p.reset THEN {} ELSE x.ftag[f]],
     tag  |-> x.tag, ori  |-> x.ori \union p.ori]
OriReset(x, p, ftag) ==
    [ftag |-> [f \in Local |-> IF f \in p.reset THEN {} ELSE x.ftag[f]],
     tag  |-> [e \in Edge |-> CASE p.tag[e] = K -> x.tag[e]
                                [] p.tag[e] = N -> {}
                                [] OTHER -> ftag[p.tag[e]]],
     ori  |-> p.ori]

(* The xtetra of a piece: an edge that now lies in a face takes the tag of *)
(* the face, ftag.                                                         *)
XTetraOf(x, p, ftag) ==
    [ftag |-> [f \in Local |-> IF f \in p.reset THEN {} ELSE x.ftag[f]],
     tag  |-> [e \in Edge |-> CASE p.tag[e] = K -> x.tag[e]
                                [] p.tag[e] = N -> {}
                                [] OTHER -> ftag[p.tag[e]]],
     ori  |-> x.ori \union p.ori]

(* Mutant of Keep: only the first piece keeps an xtetra.                   *)
KeepFirst(xs) == Ascending({i \in DOMAIN xs : i = 1})

(* The pieces that still have a face at the boundary.                      *)
Keep(xs) == Ascending({i \in DOMAIN xs : \E f \in Local : xs[i].ftag[f] # {}})

(* Tetrahedron k becomes the first piece, the other ones are appended; the *)
(* first piece at the boundary takes the xtetra of k, the other ones new   *)
(* ones.  (split6 reads the tags of the faces in a variable that it has    *)
(* not set: it finds the right ones or anything else, here {0}.)           *)
Pasted(k, flag, ps, ftag) ==
    LET t    == tetra[k]
        xs   == IF t.xt = 0 THEN << >>
                ELSE [i \in DOMAIN ps |-> XTetraOf(xtetra[t.xt], ps[i], ftag)]
        keep == Keep(xs)
        xtOf(i) == IF ~Contains(keep, i) THEN 0
                   ELSE LET j == CHOOSE j \in DOMAIN keep : keep[j] = i
                        IN IF j = 1 THEN t.xt ELSE Len(xtetra) + j - 1
        piece(i) == [t EXCEPT !.v = Global(k, ps[i].v), !.flag = {}, !.xt = xtOf(i),
                              !.six = @ \/ flag = Edge,
                              !.op3 = @ \/ ps[i].ori # ps[i].reset]
        n == Len(ps)
    IN /\ tetra' = [j \in 1..(ne + n - 1) |->
                       IF j = k THEN piece(1) ELSE IF j <= ne THEN tetra[j] ELSE piece(j - ne + 1)]
       /\ xtetra' = IF keep = << >> THEN xtetra
                    ELSE [xtetra EXCEPT ![t.xt] = xs[keep[1]]] \o
                         [j \in 1..(Len(keep) - 1) |-> xs[keep[j + 1]]]
       /\ accepted' = [j \in 1..(ne + n - 1) |->
                          IF j \in DOMAIN accepted /\ j # k THEN accepted[j] ELSE {}]

Parts(k) == Split(Bits(CutFlag(k)), tetra[k].v)

Cut ==
    /\ stage = "cut" /\ ToCut # {}
    /\ LET k  == Min(ToCut)
           ps == Parts(k)
           x  == tetra[k].xt
           ftag == IF x = 0 THEN {} ELSE xtetra[x].ftag
       IN /\ ne + Len(ps) - 1 <= mesh.nemax
          /\ \/ Pasted(k, CutFlag(k), ps, ftag)
             \/ CutFlag(k) = Edge /\ Pasted(k, CutFlag(k), ps, [f \in Local |-> {0}])
          /\ at' = k + 1
    /\ UNCHANGED <<mesh, point, free, hash, call, stage, memlack, chosen, last, moved, ni, it,
                   ret, nap, refused, broken>>

(* No room for all the pieces: those that have been taken are copies of k. *)
CutFails ==
    /\ stage = "cut" /\ ToCut # {}
    /\ LET k == Min(ToCut)
       IN /\ ne + Len(Parts(k)) - 1 > mesh.nemax
          /\ tetra' = tetra \o [j \in 1..(mesh.nemax - ne) |-> [tetra[k] EXCEPT !.flag = {}]]
    /\ broken' = TRUE
    /\ Fail
    /\ UNCHANGED <<mesh, xtetra, point, free, hash, call, at, memlack, chosen, last, moved, ni,
                   it, nap, refused, accepted>>

CutEnd ==
    /\ stage = "cut" /\ ToCut = {}
    /\ UNCHANGED <<tetra, point, free>>
    /\ IF memlack
       THEN /\ Fail
            /\ UNCHANGED <<mesh, xtetra, hash, call, at, memlack, chosen, last, moved, ni, it,
                           nap, refused, accepted, broken>>
       ELSE Return

Next ==
    \/ \E p \in 0..(12 * ne - 1) : Insert(p) \/ InsertFails(p)
    \/ NoTable \/ NoRoom \/ MarkEnd \/ Skip \/ GoOn
    \/ Simulate \/ SweepEnd
    \/ Cut \/ CutFails \/ CutEnd

Spec == Init /\ [][Next]_vars

-------------------------------------------------------------------------------
TypeOK ==
    /\ call \in DOMAIN mesh.waves
    /\ \A k \in DOMAIN tetra :
          /\ tetra[k].v \in [Local -> DOMAIN mesh.coord \union 1..mesh.npmax]
          /\ tetra[k].xt \in 0..Len(xtetra)
          /\ tetra[k].flag \subseteq Edge
    /\ DOMAIN point \subseteq 1..mesh.npmax
    /\ Range(free) \union DOMAIN point = 1..mesh.npmax
    /\ Len(free) + Cardinality(DOMAIN point) = mesh.npmax
    /\ stage \in {"mark", "sim", "check", "cut", "done"}
    /\ ret \in {"ok", "failed", "leaked"} /\ it \in 1..MaxSweeps

-------------------------------------------------------------------------------
(* The mesh of the domain, except in the middle of the cuts or when they   *)
(* have failed.                                                            *)
Whole == stage # "cut" /\ ~broken

Origin(s) == UNION {point[p].of : p \in s}

Minus(a, b) == [i \in 1..3 |-> a[i] - b[i]]
Det(a, b, c) == a[1] * (b[2] * c[3] - b[3] * c[2])
              - a[2] * (b[1] * c[3] - b[3] * c[1])
              + a[3] * (b[1] * c[2] - b[2] * c[1])
Volume(p, q, r, s) == Det(Minus(q, p), Minus(r, p), Minus(s, p))
VolumeOf(k) == LET v == tetra[k].v
               IN Volume(point[v[0]].c, point[v[1]].c, point[v[2]].c, point[v[3]].c)
Volume0(k)  == LET v == mesh.tets[k]  c == mesh.coord
               IN Volume(c[v[1]], c[v[2]], c[v[3]], c[v[4]])

(* All pieces have a positive volume and together they fill the domain,    *)
(* for all flags, numberings and choices of diagonals.                     *)
Filled ==
    Whole => /\ \A k \in DOMAIN tetra : VolumeOf(k) > 0
             /\ MapThenSumSet(VolumeOf, DOMAIN tetra) = MapThenSumSet(Volume0, DOMAIN mesh.tets)

Face(k, i) == Range(tetra[k].v) \ {tetra[k].v[i]}

(* Two tetrahedra meet at each face inside the domain, one at each face of *)
(* its hull: the patterns chosen on both sides of a face agree, although   *)
(* each tetrahedron is cut without a look at its neighbours.               *)
FacesMatch ==
    Whole => \A k \in DOMAIN tetra, i \in Local :
                 LET onHull == \E h \in mesh.hull : Origin(Face(k, i)) \subseteq h
                 IN Cardinality({j \in DOMAIN tetra : Face(k, i) \subseteq Range(tetra[j].v)})
                        = IF onHull THEN 1 ELSE 2

(* When a wave has returned, by its cuts, after it has given its points    *)
(* back, or with a failure other than one in the midst of an insertion or  *)
(* of a cut, the points in use are the vertices of the mesh.               *)
PointsInUse ==
    (Whole /\ nap = 0) \/ (stage = "done" /\ ~broken /\ ret # "leaked") =>
        UNION {Range(tetra[k].v) : k \in DOMAIN tetra} = DOMAIN point

(* A tetrahedron with a face at the boundary has an xtetra of its own,     *)
(* where the faces at the boundary, and no others, have their tags.        *)
BoundaryKept ==
    ~broken =>
    /\ \A k \in DOMAIN tetra, i \in Local :
          LET o == Origin(Face(k, i))
          IN /\ o \in mesh.bdy => tetra[k].xt # 0
             /\ tetra[k].xt # 0 =>
                    xtetra[tetra[k].xt].ftag[i] = IF o \in mesh.bdy THEN o ELSE {}
    /\ \A j, k \in DOMAIN tetra : tetra[j].xt = tetra[k].xt /\ tetra[j].xt # 0 => j = k

(* In an xtetra an edge has the tag of the edge or of the face of the      *)
(* initial boundary in which it lies, and none elsewhere.                  *)
TagsOf(k) ==
    tetra[k].xt # 0 =>
        \A e \in Edge : xtetra[tetra[k].xt].tag[e] = TagOf(Origin(Ends(k, e)))

TagsInherited == ~broken => \A k \in DOMAIN tetra : ~tetra[k].six => TagsOf(k)

(* "Store face tags and refs from split tetra" (split_3d.c:4518).          *)
TagsStored == ~broken => \A k \in DOMAIN tetra : TagsOf(k)

(* The orientation bit of a face at the boundary is set unless the face    *)
(* lies between two references and has been oriented from the other side.  *)
(* (Those of the other faces of an xtetra say nothing: the analysis clears *)
(* them, the patterns set them.)                                           *)
OriOf(k) ==
    tetra[k].xt # 0 =>
        \A i \in Local :
            LET o == Origin(Face(k, i))
            IN o \in mesh.bdy =>
                   (i \in xtetra[tetra[k].xt].ori <=> Oriented(o, tetra[k].ref))

OrientationKept == ~broken => \A k \in DOMAIN tetra : ~tetra[k].op3 => OriOf(k)

(* anatets makes no tetrahedron other than those that the last simulation  *)
(* of their parent has accepted, and no point has moved or gone since.     *)
CutAsSimulated ==
    [][\A k \in DOMAIN tetra :
          wave = "surf" /\ stage = "cut" /\ tetra'[k].v # tetra[k].v =>
              \A j \in {k} \union (DOMAIN tetra' \ DOMAIN tetra) :
                  tetra'[j].v \in accepted[k]]_vars

(* The simulations end: each refusal moves a point that has not been moved *)
(* three times or deletes one.                                             *)
RefusalsEnd == refused <= 4 * nap
===============================================================================
