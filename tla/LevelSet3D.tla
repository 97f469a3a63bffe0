------------------------------ MODULE LevelSet3D ------------------------------
(***************************************************************************)
(* The discretisation of a level set in a volume mesh (mmg3d2.c, mmg2.c):  *)
(* MMG3D_mmg3d2 snaps the values of the function to zero where that keeps  *)
(* its zero set a surface, gives the tetrahedra back the references they   *)
(* had before an earlier discretisation, removes small components, cuts    *)
(* the edges on which the function changes sign, with the patterns of      *)
(* split_3d.c, and sets the references of both sides.                      *)
(*                                                                         *)
(* Only the sign of a value matters once it has been snapped.  At first -1 *)
(* and 1 stand for values that are snapped (exact zeros are among the -1,  *)
(* which is how the code remembers them), -2 and 2 for the other ones.     *)
(* Positions, and with them the volumes of the components, are left out.   *)
(***************************************************************************)
EXTENDS TetPatterns, FiniteSetsExt, SequencesExt, TLC

CONSTANT Inputs   \* the meshes and their level sets, see InputRecord

MG_PLUS == 2
MG_MINUS == 3
MMAT_Split == 1
MMAT_NoSplit == 0

(* tets, refs: vertices and reference of each tetrahedron; flat: those of  *)
(* quality zero; required: tetrahedra; sol: values at the vertices; mats:  *)
(* the table of materials; rmc: whether small components are removed;      *)
(* npmax, nemax: where the allocation of points and tetrahedra fails.      *)
InputRecord(m) ==
    /\ DOMAIN m = {"tets", "refs", "flat", "required", "sol", "mats", "rmc", "npmax", "nemax"}
    /\ m.tets \in Seq(Seq(DOMAIN m.sol)) /\ \A k \in DOMAIN m.tets : Len(m.tets[k]) = 4
    /\ DOMAIN m.refs = DOMAIN m.tets
    /\ m.flat \subseteq DOMAIN m.tets /\ m.required \subseteq DOMAIN m.tets
    /\ m.sol \in Seq({-2, -1, 1, 2})
    /\ \A i \in DOMAIN m.mats : /\ DOMAIN m.mats[i] = {"ref", "dospl", "rin", "rex"}
                                /\ m.mats[i].dospl \in {MMAT_Split, MMAT_NoSplit}
    /\ m.npmax \in Nat /\ m.npmax >= Len(m.sol) /\ m.nemax \in Nat /\ m.nemax >= Len(m.tets)

ASSUME InputsAssumption == \A m \in Inputs : InputRecord(m)

(* The vertices of a tetrahedron differ, no tetrahedron has those of       *)
(* another, and at most one is across each face (MMG3D_hashTetra keeps one *)
(* neighbour).                                                             *)
ASSUME ConformingAssumption ==
    \A m \in Inputs :
        /\ \A k \in DOMAIN m.tets : IsInjective(m.tets[k])
        /\ \A j, k \in DOMAIN m.tets : Range(m.tets[j]) \subseteq Range(m.tets[k]) => j = k
        /\ \A k \in DOMAIN m.tets, q \in DOMAIN m.sol :
               \A j, l \in DOMAIN m.tets \ {k} :
                   /\ q \in Range(m.tets[k])
                   /\ Range(m.tets[k]) \ {q} \subseteq Range(m.tets[j]) \intersect Range(m.tets[l])
                   => j = l

VARIABLES
    mesh,     \* the input, with the adjacencies of its tetrahedra and the lookup table
    tetra,    \* vertices, reference, the tetrahedron of the input it comes from
    sol,      \* signs
    snapped,  \* the points with flag 1 in MMG3D_snpval_ls: value 0, sign to restore
    hash,     \* the edges that have a point, or -1
    of,       \* vertices of the input that span the edge where a point lies
    stage,    \* what is running: snap, pos or neg (rmc), count, points, cut, done
    at,       \* where its loop is
    nc,       \* snapped values restored in this sweep
    base,     \* tetrahedra flagged by MMG3D_rmc
    left,     \* history: tetrahedra with a point that no pattern has cut
    ret       \* "ok", or "failed" for 0

vars == <<mesh, tetra, sol, snapped, hash, of, stage, at, nc, base, left, ret>>

-------------------------------------------------------------------------------
(* The materials: what MMG5_MultiMat_init stores for each reference, the   *)
(* row of the table and an attribute; a later entry replaces an earlier    *)
(* one.                                                                    *)
Entries(mats) ==
    FlattenSeq([k \in DOMAIN mats |->
        <<[ref |-> mats[k].ref, row |-> k, attr |-> mats[k].dospl]>> \o
        IF mats[k].dospl = MMAT_NoSplit THEN << >>
        ELSE <<[ref |-> mats[k].rin, row |-> k, attr |-> MG_MINUS],
               [ref |-> mats[k].rex, row |-> k, attr |-> MG_PLUS]>>])

Lookup(mats) ==
    FoldLeft(LAMBDA f, x : (x.ref :> [row |-> x.row, attr |-> x.attr]) @@ f, << >>, Entries(mats))

MultiMat     == mesh.mats # << >>
Known(ref)   == ref \in DOMAIN mesh.lookup
Material(ref) == mesh.mats[mesh.lookup[ref].row]

getStartRef(ref) == IF MultiMat THEN Material(ref).ref ELSE 0
isSplit(ref)     == MultiMat => Material(ref).dospl = MMAT_Split
refint(ref)      == IF MultiMat THEN Material(ref).rin ELSE MG_MINUS
refext(ref)      == IF MultiMat THEN Material(ref).rex ELSE MG_PLUS

(* (The code says not to split a reference whose attribute is not 0.)      *)
isNotSplit(ref) == MultiMat /\ mesh.lookup[ref].attr # MMAT_NoSplit

isLevelSet(r0, r1) ==
    IF MultiMat THEN mesh.lookup[r0].attr + mesh.lookup[r1].attr = MG_MINUS + MG_PLUS
    ELSE {r0, r1} = {MG_MINUS, MG_PLUS}

-------------------------------------------------------------------------------
(* Vertices of the face opposite to each vertex; adjacencies (0: none).    *)
idir == Array(<< Array(<<1, 2, 3>>), Array(<<0, 3, 2>>), Array(<<0, 1, 3>>), Array(<<0, 2, 1>>) >>)

Adjacent(vs, k, i) ==
    LET face == Range(vs[k]) \ {vs[k][i]}
        js   == {j \in DOMAIN vs \ {k} : face \subseteq Range(vs[j])}
    IN IF js = {} THEN 0 ELSE CHOOSE j \in js : TRUE

Adja(vs) == [k \in DOMAIN vs |-> [i \in Local |-> Adjacent(vs, k, i)]]

Vertices(m) == [k \in DOMAIN m.tets |-> Array(m.tets[k])]

Analysed(m) ==
    [tets |-> m.tets, refs |-> m.refs, flat |-> m.flat, required |-> m.required, sol |-> m.sol,
     mats |-> m.mats, rmc |-> m.rmc, npmax |-> m.npmax, nemax |-> m.nemax,
     adja |-> Adja(Vertices(m)), lookup |-> Lookup(m.mats)]

(* The values as MMG3D_snpval_ls sets them before it corrects any: those   *)
(* of a tetrahedron of quality zero, one of whose vertices is not clearly  *)
(* positive, become negative; then the small ones become 0.                *)
Lowered(m, f, k) ==
    LET vs == Range(m.tets[k])
    IN IF k \in m.flat /\ \E p \in vs : f[p] < 2
       THEN [p \in DOMAIN f |-> IF p \in vs THEN -2 ELSE f[p]] ELSE f
Shifting(m) ==
    LET f[k \in 0..Len(m.tets)] == IF k = 0 THEN m.sol ELSE Lowered(m, f[k - 1], k) IN f
Shifted(m)  == Shifting(m)[Len(m.tets)]
SignOf(x) == IF x > 0 THEN 1 ELSE IF x < 0 THEN -1 ELSE 0

Init ==
    /\ mesh \in {Analysed(m) : m \in Inputs}
    /\ tetra = [k \in DOMAIN mesh.tets |->
                   [v |-> Array(mesh.tets[k]), ref |-> mesh.refs[k], from |-> k]]
    /\ LET f == Shifted(mesh)
       IN /\ sol = [p \in DOMAIN f |-> IF f[p] \in {-1, 1} THEN 0 ELSE SignOf(f[p])]
          /\ snapped = {p \in DOMAIN f : f[p] \in {-1, 1}}
    /\ hash = << >> /\ of = [p \in DOMAIN mesh.sol |-> {p}]
    /\ stage = "snap" /\ at = 0 /\ nc = 0
    /\ base = {} /\ left = {} /\ ret = "ok"

-------------------------------------------------------------------------------
(* MMG3D_ismaniball: whether the surface stays a manifold around vertex i  *)
(* of tetrahedron k, where the value is 0.  v is the sign of a vertex of k,*)
(* Same and Opp compare with it.                                           *)
ne == Len(tetra)
V(k, i)  == tetra[k].v[i]
Position(k, p) == CHOOSE i \in Local : V(k, i) = p
Same(v, p) == sol[p] * v > 0
Opp(v, p)  == sol[p] * v < 0

Count(S(_), ps) == Cardinality({j \in 0..2 : S(ps[j])})
OnSurface(v, ps) ==
    LET zeros == Count(LAMBDA p : sol[p] = 0, ps)
        same  == Count(LAMBDA p : Same(v, p), ps)
        opp   == Count(LAMBDA p : Opp(v, p), ps)
    IN (zeros = 2 /\ same = 1) \/ (same >= 1 /\ opp >= 1)

Others(k, i) == [j \in 0..2 |-> V(k, idir[i][j])]
Through(k, i, j) == mesh.adja[k][idir[i][j]]

(* The tetrahedra of the ball that are reached through a vertex of the     *)
(* same sign, in the order of the list, which holds none of them twice.    *)
Reached(v, np, list, k) ==
    LET i == Position(k, np)
        open(j) == \E l \in {0, 1, 2} \ {j} : Same(v, V(k, idir[i][l]))
        next == SelectSeq(<<0, 1, 2>>, LAMBDA j : /\ open(j) /\ Through(k, i, j) # 0
                                                  /\ ~Contains(list, Through(k, i, j)))
    IN [n \in DOMAIN next |-> Through(k, i, next[n])]

SameSide(v, np, k) ==
    FoldLeft(LAMBDA list, cur : IF cur > Len(list) THEN list
                                ELSE list \o Reached(v, np, list, list[cur]),
             <<k>>, [cur \in 1..ne |-> cur])

(* Where the walk of the other side starts, or 0.                          *)
StartOpp(v, np, list) ==
    LET others(k) == Range(Others(k, Position(k, np)))
        direct == SelectSeq(list, LAMBDA k : \E p \in others(k) : Opp(v, p))
        beyond(k) == LET i == CHOOSE i \in Local : Same(v, V(k, i)) IN mesh.adja[k][i]
        flat(k) == /\ \E p \in others(k) : Same(v, p)
                   /\ Cardinality({p \in others(k) : sol[p] = 0}) = 2
                   /\ beyond(k) # 0
                   /\ \E p \in Range(tetra[beyond(k)].v) \ Range(tetra[k].v) : Opp(v, p)
        across == SelectSeq(list, flat)
    IN IF direct # << >> THEN Head(direct)
       ELSE IF across # << >> THEN beyond(Head(across)) ELSE 0

(* One face of the walk of the other side: w.marked are the tetrahedra     *)
(* flagged in this walk, same those of the first one.  (The vertices of    *)
(* the next tetrahedron are read with the local indices of this one.)      *)
OppFace(v, np, same, w, k, j) ==
    LET i    == Position(k, np)
        ends == {V(k, idir[i][l]) : l \in {0, 1, 2} \ {j}}
        jel  == Through(k, i, j)
    IN IF w.failed \/ jel = 0 THEN w
       ELSE IF \A p \in ends : sol[p] = 0 THEN [w EXCEPT !.marked = @ \union {jel}]
       ELSE IF ~\E p \in ends : Opp(v, p) THEN w
       ELSE IF OnSurface(v, Others(jel, i)) /\ jel \notin same \union w.marked
            THEN [w EXCEPT !.failed = TRUE]
       ELSE IF jel \in w.marked THEN w
       ELSE [w EXCEPT !.marked = @ \union {jel}, !.list = Append(@, jel)]

OppSide(v, np, same, start) ==
    FoldLeft(LAMBDA w, cur :
                 IF w.failed \/ cur > Len(w.list) THEN w
                 ELSE FoldLeft(LAMBDA x, j : OppFace(v, np, same, x, w.list[cur], j), w,
                               <<0, 1, 2>>),
             [list |-> <<start>>, marked |-> {start}, failed |-> FALSE], [cur \in 1..ne |-> cur])

(* The vertices of the opposite face where the value is not 0, the sign at *)
(* the first of them.                                                      *)
Signs(k, i)  == {j \in 0..2 : sol[V(k, idir[i][j])] # 0}
SignAt(k, i) == sol[V(k, idir[i][Min(Signs(k, i))])]

(* Whether the surface goes on around np on the other side of v.           *)
Closes(k, np, v) ==
    LET list  == SameSide(v, np, k)
        bdy   == {t \in Range(list) : OnSurface(v, Others(t, Position(t, np)))}
        res   == StartOpp(v, np, list)
        walk  == OppSide(v, np, Range(list), res)
    IN res # 0 /\ ~walk.failed /\ bdy \subseteq walk.marked

(* Mutant of ismaniball: the surface need not close around the vertex.     *)
OtherSignOnly(k, i) ==
    LET np == V(k, i)
    IN \/ sol[np] # 0
       \/ /\ Signs(k, i) # {}
          /\ StartOpp(SignAt(k, i), np, SameSide(SignAt(k, i), np, k)) # 0

ismaniball(k, i) ==
    sol[V(k, i)] # 0 \/ (Signs(k, i) # {} /\ Closes(k, V(k, i), SignAt(k, i)))

-------------------------------------------------------------------------------
(* MMG3D_snpval_ls: the vertices whose value was snapped are examined, as  *)
(* often as needed.  Position n is vertex n % 4 of tetrahedron n \div 4 + 1.*)
Tet(n) == (n \div 4) + 1
Vtx(n) == V(Tet(n), n % 4)

Tangled(n) == Vtx(n) \in snapped /\ ~ismaniball(Tet(n), n % 4)
ToCorrect  == {n \in at..(4 * ne - 1) : Tangled(n)}

Correct ==
    /\ stage = "snap" /\ ToCorrect # {}
    /\ LET n == Min(ToCorrect)
           p == Vtx(n)
       IN /\ sol' = [sol EXCEPT ![p] = SignOf(Shifted(mesh)[p])]
          /\ snapped' = snapped \ {p}
          /\ at' = n + 1
    /\ nc' = nc + 1
    /\ UNCHANGED <<mesh, tetra, hash, of, stage, base, left, ret>>

(* The sweeps are over: MMG3D_resetRef_ls gives the references of before   *)
(* an earlier discretisation back and fails at one it does not know.       *)
Unknown == {k \in 1..ne : MultiMat /\ ~Known(tetra[k].ref)}

Reset(last) ==
    tetra' = [k \in 1..ne |-> IF k <= last THEN [tetra[k] EXCEPT !.ref = getStartRef(@)]
                                           ELSE tetra[k]]

SweepEnd ==
    /\ stage = "snap" /\ ToCorrect = {}
    /\ nc' = 0 /\ at' = 0
    /\ IF nc > 0 THEN UNCHANGED <<tetra, stage, ret>>
       ELSE IF Unknown = {}
       THEN Reset(ne) /\ stage' = (IF mesh.rmc THEN "pos" ELSE "count") /\ ret' = ret
       ELSE Reset(Min(Unknown) - 1) /\ stage' = "done" /\ ret' = "failed"
    /\ UNCHANGED <<mesh, sol, snapped, hash, of, base, left>>

-------------------------------------------------------------------------------
(* MMG3D_rmc: the components of the positive part, then of the negative    *)
(* one.  A component goes on through the faces that contain one of its     *)
(* vertices of that sign.                                                  *)
Side == IF stage = "pos" THEN 1 ELSE -1
OnSide(k) == {i \in Local : sol[V(k, i)] = Side}
Starts == {k \in 1..ne : k > at /\ k \notin base /\ OnSide(k) # {}}

NextTo(S) ==
    (UNION {{mesh.adja[k][j] : j \in UNION {Local \ {i} : i \in OnSide(k)}} : k \in S}) \ {0}
Grown(k) ==
    LET S[n \in 0..ne] == IF n = 0 THEN {k}
                          ELSE LET T == S[n - 1] IN T \union (NextTo(T) \ base)
    IN S
Component(k) == Grown(k)[ne]

(* Whether the component is smaller than the given part of the mesh is not *)
(* modelled, except that the whole mesh is not.                            *)
Removable(C) == C # 1..ne \/ \E p \in DOMAIN sol : sol[p] = -Side

Rmc ==
    /\ stage \in {"pos", "neg"} /\ Starts # {}
    /\ LET k == Min(Starts)
           C == Component(k)
       IN /\ base' = base \union C
          /\ at' = k
          /\ \/ sol' = sol
             \/ /\ Removable(C)
                /\ sol' = [p \in DOMAIN sol |->
                              IF sol[p] = Side /\ \E t \in C : p \in Range(tetra[t].v)
                              THEN -Side ELSE sol[p]]
    /\ UNCHANGED <<mesh, tetra, snapped, hash, of, stage, nc, left, ret>>

RmcEnd ==
    /\ stage \in {"pos", "neg"} /\ Starts = {}
    /\ stage' = IF stage = "pos" THEN "neg" ELSE "count"
    /\ at' = 0 /\ base' = {}
    /\ UNCHANGED <<mesh, tetra, sol, snapped, hash, of, nc, left, ret>>

-------------------------------------------------------------------------------
(* MMG3D_setref_ls.                                                        *)
SetRef(ts) ==
    [k \in DOMAIN ts |->
        IF ~isSplit(ts[k].ref) THEN ts[k]
        ELSE IF \E i \in Local : sol[ts[k].v[i]] > 0
        THEN [ts[k] EXCEPT !.ref = refext(@)] ELSE [ts[k] EXCEPT !.ref = refint(@)]]

(* MMG3D_cuttet_ls returns at once when no edge has values of opposite     *)
(* signs, and the references are set.  Otherwise it stores the edges of    *)
(* the required tetrahedra with -1.                                        *)
Ends(k, e) == {V(k, i) : i \in iare[e]}
Changes(ends) == \E p, q \in ends : sol[p] * sol[q] < 0

StartCut ==
    /\ stage = "count"
    /\ IF \A k \in 1..ne, e \in Edge : ~Changes(Ends(k, e))
       THEN stage' = "done" /\ tetra' = SetRef(tetra) /\ hash' = hash
       ELSE /\ stage' = "points" /\ tetra' = tetra
            /\ hash' = [ends \in {Ends(k, e) : k \in mesh.required, e \in Edge} |-> -1]
    /\ UNCHANGED <<mesh, sol, snapped, of, at, nc, base, left, ret>>

(* A point on each edge of a material to be split on which the sign        *)
(* changes, those of required tetrahedra included.  The table is supposed  *)
(* to find room for it: the result of MMG5_hashEdge is ignored there, and  *)
(* without room the edge would get another point from the next tetrahedron *)
(* (EdgePoints has this failure, in the same use of the table).            *)
HashGet(ends) == IF ends \in DOMAIN hash THEN hash[ends] ELSE 0

(* Mutant of Crossed: the required edges are left as they are.             *)
NotRequired(k, e) == HashGet(Ends(k, e)) = 0 /\ isSplit(tetra[k].ref) /\ Changes(Ends(k, e))

Crossed(k, e) == HashGet(Ends(k, e)) <= 0 /\ isSplit(tetra[k].ref) /\ Changes(Ends(k, e))
ToPoint == {n \in at..(6 * ne - 1) : Crossed((n \div 6) + 1, n % 6)}

NewPoint ==
    /\ stage = "points" /\ ToPoint # {}
    /\ LET n    == Min(ToPoint)
           ends == Ends((n \div 6) + 1, n % 6)
           np   == Len(sol) + 1
       IN /\ at' = n + 1
          /\ IF np <= mesh.npmax
             THEN /\ sol' = Append(sol, 0)
                  /\ of' = Append(of, UNION {of[p] : p \in ends})
                  /\ hash' = [e \in DOMAIN hash \union {ends} |-> IF e = ends THEN np ELSE hash[e]]
                  /\ UNCHANGED <<stage, ret>>
             ELSE stage' = "done" /\ ret' = "failed" /\ UNCHANGED <<sol, of, hash>>
    /\ UNCHANGED <<mesh, tetra, snapped, nc, base, left>>

PointsEnd ==
    /\ stage = "points" /\ ToPoint = {}
    /\ stage' = "cut" /\ at' = 0
    /\ UNCHANGED <<mesh, tetra, sol, snapped, hash, of, nc, base, left, ret>>

-------------------------------------------------------------------------------
(* The cuts, with four of the families of patterns.                        *)
Vx(k)      == [e \in Edge |-> HashGet(Ends(k, e))]

(* Mutant of FlagOf: an edge of the table without a point counts.          *)
FlagStored(k) == {e \in Edge : Vx(k)[e] # 0}

FlagOf(k)  == {e \in Edge : Vx(k)[e] > 0}
Global(k, u) == [i \in Local |-> IF u[i] < m0 THEN tetra[k].v[u[i]] ELSE Vx(k)[u[i] - m0]]

(* Mutant of Families: the last one is forgotten.                          *)
FamiliesOfOneVertex == DOMAIN split1_cfg \union DOMAIN split2sf_cfg \union DOMAIN split3cone_cfg

Families == DOMAIN split1_cfg \union DOMAIN split2sf_cfg \union DOMAIN split3cone_cfg
            \union DOMAIN split4op_cfg

ToCut == {k \in (at + 1)..Len(mesh.tets) : FlagOf(k) # {}}

Cut ==
    /\ stage = "cut" /\ ToCut # {}
    /\ LET k == Min(ToCut)
           f == Bits(FlagOf(k))
       IN /\ at' = k
          /\ \/ \* a flag that no tetrahedron should have
                /\ f \notin Families
                /\ left' = left \union {k}
                /\ UNCHANGED <<tetra, stage, ret>>
             \/ /\ f \in Families
                /\ left' = left
                /\ LET ps == Split(f, tetra[k].v)
                       n  == Len(ps) - 1
                       piece(i) == [tetra[k] EXCEPT !.v = Global(k, ps[i].v)]
                   IN IF ne + n <= mesh.nemax
                      THEN /\ tetra' = [tetra EXCEPT ![k] = piece(1)]
                                       \o [i \in 1..n |-> piece(i + 1)]
                           /\ UNCHANGED <<stage, ret>>
                      ELSE /\ tetra' = tetra \o [i \in 1..(mesh.nemax - ne) |-> tetra[k]]
                           /\ stage' = "done" /\ ret' = "failed"
    /\ UNCHANGED <<mesh, sol, snapped, hash, of, nc, base>>

(* MMG3D_cuttet_ls returns the number of tetrahedra it has cut, and        *)
(* MMG3D_mmg3d2 takes 0 for a failure.                                     *)
CutEnd ==
    /\ stage = "cut" /\ ToCut = {}
    /\ stage' = "done"
    /\ IF ne = Len(mesh.tets) THEN ret' = "failed" /\ UNCHANGED tetra
                              ELSE tetra' = SetRef(tetra) /\ ret' = ret
    /\ UNCHANGED <<mesh, sol, snapped, hash, of, at, nc, base, left>>

Next == \/ Correct \/ SweepEnd \/ Rmc \/ RmcEnd
        \/ StartCut \/ NewPoint \/ PointsEnd \/ Cut \/ CutEnd

Spec == Init /\ [][Next]_vars

-------------------------------------------------------------------------------
(* MMG3D_chkmani, by which the remesher examines its mesh afterwards: in   *)
(* the ball of a vertex of the surface, the tetrahedra of one reference    *)
(* are connected through faces.                                            *)
Face(k, i) == Range(tetra[k].v) \ {V(k, i)}
Across(k, i) == {j \in DOMAIN tetra \ {k} : Face(k, i) \subseteq Range(tetra[j].v)}

Reach(p, start, T) ==
    LET next(S) == {j \in T \ S : \E k \in S, i \in Local : p \in Face(k, i) /\ j \in Across(k, i)}
        R[S \in SUBSET DOMAIN tetra] == LET new == next(S)
                                       IN IF new = {} THEN S ELSE R[S \union new]
    IN R[start]

chkmaniball(start, p) ==
    LET ball == {k \in DOMAIN tetra : p \in Range(tetra[k].v) /\ ~isNotSplit(tetra[k].ref)}
        same == Reach(p, {start}, {k \in ball : tetra[k].ref = tetra[start].ref})
        all  == Reach(p, same, ball)
    IN \A k \in all \ same : tetra[k].ref # tetra[start].ref

chkmani ==
    \A k \in DOMAIN tetra, i \in Local :
        tetra[k].from \notin mesh.required =>
            \A j \in Across(k, i) :
                isLevelSet(tetra[j].ref, tetra[k].ref) => \A p \in Face(k, i) : chkmaniball(k, p)

-------------------------------------------------------------------------------
(* Types of the variables: the vertices of the tetrahedra exist, the table *)
(* of edges holds points or -1 (the arrays of MMG3D_mmg3d2).               *)
TypeOK ==
    /\ \A k \in DOMAIN tetra : /\ tetra[k].v \in [Local -> DOMAIN sol]
                             /\ tetra[k].from \in DOMAIN mesh.tets
    /\ sol \in Seq({-1, 0, 1}) /\ DOMAIN of = DOMAIN sol
    /\ snapped \subseteq DOMAIN mesh.sol /\ base \subseteq DOMAIN mesh.tets
    /\ left \subseteq DOMAIN mesh.tets
    /\ Range(hash) \subseteq DOMAIN sol \union {-1}
    /\ stage \in {"snap", "pos", "neg", "count", "points", "cut", "done"} /\ ret \in {"ok", "failed"}

Discretised == stage = "done" /\ ret = "ok"

(* In the result no tetrahedron of a material to be split lies on both     *)
(* sides, none lies within the surface, and each has the reference of its  *)
(* side for the material it belonged to before any discretisation; the     *)
(* other materials keep theirs (the assertions of MMG3D_setref_ls).        *)
SidesApart ==
    Discretised =>
        \A k \in DOMAIN tetra :
            LET signs  == {sol[p] : p \in Range(tetra[k].v)}
                parent == getStartRef(mesh.refs[tetra[k].from])
            IN IF ~isSplit(parent) THEN tetra[k].ref = parent
               ELSE \/ signs \subseteq {0, 1} /\ 1 \in signs /\ tetra[k].ref = refext(parent)
                    \/ signs \subseteq {0, -1} /\ -1 \in signs /\ tetra[k].ref = refint(parent)

OfFace(k, i) == UNION {of[p] : p \in Face(k, i)}
OnHull(k, i) == \E t \in DOMAIN mesh.tets, j \in Local :
                    /\ mesh.adja[t][j] = 0
                    /\ OfFace(k, i) \subseteq Range(mesh.tets[t]) \ {mesh.tets[t][j + 1]}

(* The result is a mesh of the same domain: two tetrahedra meet at each    *)
(* face inside, one at each face of the hull.  A tetrahedron of a material *)
(* that is not to be split can come between tetrahedra that are, with a    *)
(* set of cut edges that is of none of the four families: the release      *)
(* build leaves it whole next to pieces (the debug build stops at the      *)
(* assertion of MMG3D_cuttet_ls).  This is the only exception.             *)
Conform ==
    Discretised =>
        IF left = {}
        THEN \A k \in DOMAIN tetra, i \in Local :
                 Cardinality(Across(k, i)) = IF OnHull(k, i) THEN 0 ELSE 1
        ELSE \A k \in left : ~isSplit(tetra[k].ref)

(* The snapped values that MMG3D_snpval_ls has left at zero, after any     *)
(* number of corrections and after the removal of components, make no      *)
(* surface that MMG3D_chkmani refuses.  (With materials MMG3D_chkmani      *)
(* looks at nothing: MMG5_isNotSplit skips all tetrahedra that were split.)*)
Manifold == Discretised /\ ~MultiMat => chkmani
===============================================================================
