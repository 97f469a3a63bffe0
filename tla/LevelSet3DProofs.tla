---------------------------- MODULE LevelSet3DProofs ----------------------------
(***************************************************************************)
(* For every mesh, every level set and every table of materials: the       *)
(* discretisation leaves tetrahedra that lie on one side of the surface    *)
(* and have the reference of that side, and that are a conforming mesh.    *)
(***************************************************************************)
EXTENDS LevelSet3D, TetPatternsProofs

-------------------------------------------------------------------------------
(* The analysed mesh.                                                      *)
Level == {-2, -1, 1, 2}

MeshFacts(m) ==
    /\ m.sol \in Seq(Level) /\ IsTuple(m.tets) /\ DOMAIN m.refs = DOMAIN m.tets
    /\ \A k \in DOMAIN m.tets : Array(m.tets[k]) \in [Local -> DOMAIN m.sol]
    /\ m.required \subseteq DOMAIN m.tets
    /\ m.npmax \in Nat /\ m.nemax \in Nat /\ m.nemax >= Len(m.tets)
    /\ \A k \in DOMAIN m.tets, i \in Local : m.adja[k][i] \in {0} \union DOMAIN m.tets
    /\ Shifted(m) \in [DOMAIN m.sol -> Level]

(* The lowering of flat tetrahedra ends after the last one, with values of *)
(* the same kind.                                                          *)
LEMMA ShiftedType ==
  ASSUME NEW m, m.sol \in Seq(Level), IsTuple(m.tets)
  PROVE  Shifted(m) \in [DOMAIN m.sol -> Level]
<1> DEFINE T == [DOMAIN m.sol -> Level]
           n == Len(m.tets)
           step == [q \in T \X (1..n) |-> Lowered(m, q[1], q[2])]
           Def(f) == f = [k \in 0..n |-> IF k = 0 THEN m.sol ELSE Lowered(m, f[k - 1], k)]
<1>1. n \in Nat
  BY TupleLen
<1>2. m.sol \in T
  OBVIOUS
<1>3. ASSUME NEW f \in T, NEW k \in 1..n PROVE Lowered(m, f, k) \in T
  <2> DEFINE vs == Range(m.tets[k])
             low == [p \in DOMAIN f |-> IF p \in vs THEN -2 ELSE f[p]]
  <2>1. low \in T
    BY DEF Level
  <2>2. Lowered(m, f, k) = low \/ Lowered(m, f, k) = f
    BY DEF Lowered
  <2> QED
    BY <2>1, <2>2
<1> HIDE DEF T, n
<1>4. step \in [T \X (1..n) -> T]
  <2>1. \A q \in T \X (1..n) : q[1] \in T /\ q[2] \in 1..n
    OBVIOUS
  <2>2. \A q \in T \X (1..n) : Lowered(m, q[1], q[2]) \in T
    BY <1>3, <2>1
  <2> QED
    BY <2>2
<1>5. \A f \in T, k \in 1..n : step[<<f, k>>] = Lowered(m, f, k)
  <2> TAKE f \in T, k \in 1..n
  <2> DEFINE q == <<f, k>>
  <2>1. q \in T \X (1..n) /\ q[1] = f /\ q[2] = k
    OBVIOUS
  <2> HIDE DEF q
  <2>2. step[q] = Lowered(m, q[1], q[2])
    BY <2>1
  <2> QED
    BY <2>1, <2>2 DEF q
<1> HIDE DEF step
<1>6. PICK f \in [0..n -> T] : f[0] = m.sol /\ \A k \in 1..n : f[k] = step[<<f[k - 1], k>>]
  <2> DEFINE x == m.sol
  <2>1. x \in T
    BY <1>2
  <2> HIDE DEF x
  <2>2. step \in Steps(T, n)
    BY <1>4 DEF Steps
  <2>3. \E f : Recursive(f, n, T, x, step)
    BY <1>1, <2>1, <2>2, Recursion
  <2> QED
    BY <2>3 DEF x, Recursive
<1>7. \A k \in 1..n : k - 1 \in 0..n /\ f[k - 1] \in T
  BY <1>1
<1>8. \A k \in 0..n : f[k] = IF k = 0 THEN m.sol ELSE Lowered(m, f[k - 1], k)
  <2> TAKE k \in 0..n
  <2>1. CASE k = 0
    BY <1>6, <2>1
  <2>2. CASE k # 0
    <3>1. k \in 1..n
      BY <1>1, <2>2
    <3>2. f[k] = step[<<f[k - 1], k>>] /\ f[k - 1] \in T
      BY <1>6, <1>7, <3>1
    <3> QED
      BY <1>5, <2>2, <3>1, <3>2
  <2> QED
    BY <2>1, <2>2
<1>9. Def(f)
  <2> DEFINE g == [k \in 0..n |-> IF k = 0 THEN m.sol ELSE Lowered(m, f[k - 1], k)]
  <2>1. f = [k \in 0..n |-> f[k]] /\ g = [k \in 0..n |-> g[k]]
    OBVIOUS
  <2>2. \A k \in 0..n : f[k] = g[k]
    BY <1>8
  <2> HIDE DEF g
  <2>3. f = g
    BY <2>1, <2>2
  <2> QED
    BY <2>3 DEF g
<1>10. Shifting(m) = CHOOSE g : Def(g)
  BY DEF Shifting, n
<1>11. Def(Shifting(m))
  BY <1>9, <1>10
<1> DEFINE g == Shifting(m)
           S == {k \in 0..n : g[k] \in T}
<1>12. g = [k \in 0..n |-> IF k = 0 THEN m.sol ELSE Lowered(m, g[k - 1], k)]
  BY <1>11
<1> HIDE DEF g
<1>13. 0 \in S
  BY <1>1, <1>2, <1>12
<1>14. \A k \in 1..n : k - 1 \in S => k \in S
  BY <1>1, <1>3, <1>12
<1> HIDE DEF S
<1>15. 0..n \subseteq S
  BY <1>1, <1>13, <1>14, Upward
<1>16. n \in S
  BY <1>1, <1>15
<1> QED
  BY <1>16 DEF S, g, T, n, Shifted

(* The adjacencies are numbers of tetrahedra, or 0.                        *)
LEMMA AdjaType ==
  ASSUME NEW vs, NEW k \in DOMAIN vs, NEW i \in Local
  PROVE  Adja(vs)[k][i] \in {0} \union DOMAIN vs
<1>1. Adja(vs)[k][i] = Adjacent(vs, k, i)
  BY DEF Adja
<1> DEFINE face == Range(vs[k]) \ {vs[k][i]}
           js == {j \in DOMAIN vs \ {k} : face \subseteq Range(vs[j])}
<1>2. Adjacent(vs, k, i) = IF js = {} THEN 0 ELSE CHOOSE j \in js : TRUE
  BY DEF Adjacent
<1>3. js \subseteq DOMAIN vs
  OBVIOUS
<1> HIDE DEF js
<1> QED
  BY <1>1, <1>2, <1>3

(* What the inputs are, analysed.                                          *)
LEMMA MeshFactsHold ==
  ASSUME NEW m \in Inputs
  PROVE  MeshFacts(Analysed(m))
<1> DEFINE x == Analysed(m)
<1>1. InputRecord(m)
  BY InputsAssumption
<1>2. /\ x.tets = m.tets /\ x.refs = m.refs /\ x.required = m.required /\ x.sol = m.sol
      /\ x.npmax = m.npmax /\ x.nemax = m.nemax /\ x.adja = Adja(Vertices(m))
  BY DEF Analysed
<1> HIDE DEF x
<1>3. m.tets \in Seq(Seq(DOMAIN m.sol)) /\ m.sol \in Seq(Level)
  BY <1>1 DEF InputRecord, Level
<1>4. IsTuple(m.tets)
  BY <1>3, SeqIsTuple
<1>5. ASSUME NEW k \in DOMAIN m.tets PROVE Array(m.tets[k]) \in [Local -> DOMAIN m.sol]
  <2> DEFINE s == m.tets[k]
  <2>1. s \in Seq(DOMAIN m.sol) /\ Len(s) = 4
    <3>1. \A S : \A t \in Seq(S) : \A j \in DOMAIN t : t[j] \in S
      OBVIOUS
    <3> DEFINE S == Seq(DOMAIN m.sol)
    <3>2. m.tets \in Seq(S)
      BY <1>3
    <3> HIDE DEF S
    <3>3. s \in S
      BY <3>1, <3>2
    <3>4. Len(s) = 4
      BY <1>1 DEF InputRecord
    <3> QED
      BY <3>3, <3>4 DEF S
  <2> HIDE DEF s
  <2> DEFINE D == DOMAIN m.sol
  <2> HIDE DEF D
  <2>2. \A i \in 0..3 : s[i + 1] \in D
    <3>1. s \in Seq(D)
      BY <2>1 DEF D
    <3>2. DOMAIN s = 1..4 /\ \A i \in 0..3 : i + 1 \in 1..4
      BY <2>1, <3>1
    <3> QED
      BY <3>1, <3>2
  <2>3. Array(s) = [i \in 0..3 |-> s[i + 1]]
    BY <2>1 DEF Array
  <2> QED
    BY <2>2, <2>3 DEF s, D, Local
<1>6. \A k \in DOMAIN m.tets, i \in Local : x.adja[k][i] \in {0} \union DOMAIN m.tets
  <2>1. DOMAIN Vertices(m) = DOMAIN m.tets
    BY DEF Vertices
  <2> QED
    BY <1>2, <2>1, AdjaType
<1>7. Shifted(x) \in [DOMAIN x.sol -> Level]
  BY <1>2, <1>3, <1>4, ShiftedType
<1>8. /\ DOMAIN m.refs = DOMAIN m.tets /\ m.required \subseteq DOMAIN m.tets
      /\ m.npmax \in Nat /\ m.nemax \in Nat /\ m.nemax >= Len(m.tets)
  BY <1>1 DEF InputRecord
<1> QED
  BY <1>2, <1>3, <1>4, <1>5, <1>6, <1>7, <1>8 DEF MeshFacts, x

-------------------------------------------------------------------------------
(* What the materials say of a reference and of a tetrahedron of the input,*)
(* the sides of a tetrahedron of vertices v for the signs f, and the edges *)
(* that the surface cuts.                                                  *)
MaterialIn(m, ref) == m.mats[m.lookup[ref].row]
SplitIn(m, ref) == m.mats # << >> => MaterialIn(m, ref).dospl = MMAT_Split
WasIn(m, k) == IF m.mats # << >> THEN MaterialIn(m, m.refs[k]).ref ELSE 0
IntIn(m, ref) == IF m.mats # << >> THEN MaterialIn(m, ref).rin ELSE MG_MINUS
ExtIn(m, ref) == IF m.mats # << >> THEN MaterialIn(m, ref).rex ELSE MG_PLUS

Corners(m, k) == Array(m.tets[k])
ChangesIn(f, ends) == \E p, q \in ends : f[p] * f[q] < 0
FlatIn(f, v) == \A i \in Local : f[v[i]] = 0
On(f, v, s) == (\A i \in Local : f[v[i]] \in {0, s}) /\ \E i \in Local : f[v[i]] = s
OneSided(f, v) == On(f, v, 1) \/ On(f, v, -1)

IsTetra(t, D, E) ==
    t = [v |-> t.v, ref |-> t.ref, from |-> t.from] /\ t.v \in [Local -> D] /\ t.from \in E
Whole(t, m, k) == t.v = Corners(m, k) /\ t.from = k
AllWhole(ts, m) == DOMAIN ts = DOMAIN m.tets /\ \A k \in DOMAIN ts : Whole(ts[k], m, k)
OldRefs(ts, m) == \A k \in DOMAIN ts : ts[k].ref = WasIn(m, ts[k].from)
NoFlat(f, m) == \A k \in DOMAIN m.tets : ~FlatIn(f, Corners(m, k))

(* The table h of edges: only edges of the input, a point only where the   *)
(* sign changes, with the sign 0.  An edge where a point is needed has one.*)
Points(h, f, m) ==
    \A e \in DOMAIN h : /\ e \subseteq DOMAIN m.sol
                        /\ h[e] > 0 => ChangesIn(f, e) /\ f[h[e]] = 0
HasPoint(h, ends) == ends \in DOMAIN h /\ h[ends] > 0
Pointed(h, f, m, k, e) ==
    LET ends == EndsIn(Corners(m, k), e)
    IN SplitIn(m, WasIn(m, k)) /\ ChangesIn(f, ends) => HasPoint(h, ends)

(* The inductive invariant: types, then what each stage relies on.         *)
Types ==
    /\ IsTuple(tetra)
    /\ \A k \in DOMAIN tetra : IsTetra(tetra[k], DOMAIN sol, DOMAIN mesh.tets)
    /\ sol \in Seq(Sign) /\ IsTuple(of) /\ DOMAIN of = DOMAIN sol
    /\ DOMAIN mesh.sol \subseteq DOMAIN sol
    /\ snapped \subseteq DOMAIN mesh.sol /\ base \subseteq DOMAIN mesh.tets
    /\ left \subseteq DOMAIN mesh.tets
    /\ \A e \in DOMAIN hash : hash[e] \in DOMAIN sol \union {-1}
    /\ stage \in {"snap", "pos", "neg", "count", "points", "cut", "done"}
    /\ ret \in {"ok", "failed"} /\ at \in Nat /\ nc \in Nat

Snapping ==
    /\ AllWhole(tetra, mesh) /\ \A k \in DOMAIN tetra : tetra[k].ref = mesh.refs[k]
    /\ DOMAIN sol = DOMAIN mesh.sol /\ snapped = {p \in DOMAIN sol : sol[p] = 0}
    /\ nc = 0 => at = 0

Removing ==
    AllWhole(tetra, mesh) /\ OldRefs(tetra, mesh) /\ NoFlat(sol, mesh) /\ DOMAIN sol = DOMAIN mesh.sol

Pointing ==
    /\ AllWhole(tetra, mesh) /\ OldRefs(tetra, mesh) /\ NoFlat(sol, mesh)
    /\ Points(hash, sol, mesh)
    /\ \A k \in DOMAIN mesh.tets, e \in Edge : 6 * (k - 1) + e < at => Pointed(hash, sol, mesh, k, e)

Cutting ==
    /\ Len(mesh.tets) <= Len(tetra)
    /\ \A k \in 1..Len(mesh.tets) : k > at => Whole(tetra[k], mesh, k)
    /\ OldRefs(tetra, mesh) /\ NoFlat(sol, mesh) /\ Points(hash, sol, mesh)
    /\ \A k \in DOMAIN mesh.tets, e \in Edge : Pointed(hash, sol, mesh, k, e)
    /\ \A k \in DOMAIN tetra :
           (k <= at \/ k > Len(mesh.tets)) /\ SplitIn(mesh, tetra[k].ref) => OneSided(sol, tetra[k].v)
    /\ \A k \in left : k <= at /\ tetra[k].from = k

Sides(ts, f, m) ==
    \A k \in DOMAIN ts :
        LET was == WasIn(m, ts[k].from)
        IN IF ~SplitIn(m, was) THEN ts[k].ref = was
           ELSE \/ On(f, ts[k].v, 1) /\ ts[k].ref = ExtIn(m, was)
                \/ On(f, ts[k].v, -1) /\ ts[k].ref = IntIn(m, was)

Done == ret = "ok" => /\ Sides(tetra, sol, mesh)
                      /\ \A k \in left : k \in DOMAIN tetra /\ ~SplitIn(mesh, tetra[k].ref)

IInv ==
    /\ mesh \in {Analysed(m) : m \in Inputs}
    /\ Types
    /\ stage = "snap" => Snapping
    /\ stage \in {"pos", "neg", "count"} => Removing
    /\ stage = "count" => at = 0
    /\ stage = "points" => Pointing
    /\ stage = "cut" => Cutting
    /\ stage \in {"snap", "pos", "neg", "count", "points"} => left = {}
    /\ \A k \in left : ~SplitIn(mesh, WasIn(mesh, k))
    /\ stage = "done" => Done

-------------------------------------------------------------------------------
(* The materials depend on the mesh only.                                  *)
LEMMA MeshOnly ==
    /\ \A r : /\ isSplit(r) <=> SplitIn(mesh, r)
              /\ refint(r) = IntIn(mesh, r) /\ refext(r) = ExtIn(mesh, r)
    /\ \A k : getStartRef(mesh.refs[k]) = WasIn(mesh, k)
BY DEF isSplit, SplitIn, refint, IntIn, refext, ExtIn, getStartRef, WasIn, MultiMat, Material,
       MaterialIn

(* The least of some numbers.                                              *)
LEMMA MinOf ==
  ASSUME NEW S \in SUBSET Nat, S # {}
  PROVE  Min(S) \in S /\ \A y \in S : Min(S) <= y
<1>1. PICK x \in S : \A y \in S : x <= y
  BY LeastNat
<1> QED
  BY <1>1 DEF Min

(* The facts of the mesh, in every state.                                  *)
LEMMA MeshHolds ==
  ASSUME IInv
  PROVE  MeshFacts(mesh)
BY MeshFactsHold DEF IInv

(* The tetrahedra of the input.                                            *)
LEMMA InputTets ==
  ASSUME NEW m, MeshFacts(m)
  PROVE  /\ Len(m.tets) \in Nat /\ DOMAIN m.tets = 1..Len(m.tets)
         /\ DOMAIN m.sol = 1..Len(m.sol) /\ Len(m.sol) \in Nat
         /\ \A k \in DOMAIN m.tets : Corners(m, k) \in [Local -> DOMAIN m.sol]
<1>1. IsTuple(m.tets) /\ m.sol \in Seq(Level)
  BY DEF MeshFacts
<1>2. Len(m.tets) \in Nat /\ DOMAIN m.tets = 1..Len(m.tets)
  BY <1>1, TupleLen
<1>3. DOMAIN m.sol = 1..Len(m.sol) /\ Len(m.sol) \in Nat
  BY <1>1
<1>4. \A k \in DOMAIN m.tets : Corners(m, k) \in [Local -> DOMAIN m.sol]
  BY DEF MeshFacts, Corners
<1> QED
  BY <1>2, <1>3, <1>4

(* The ends of an edge are vertices.                                       *)
LEMMA EdgeOf ==
    \A e \in Edge : iare[e] \subseteq Local
BY EdgeEnds DEF Edge, Local

(* The sign of a value that was snapped.                                   *)
LEMMA SignOfType == \A x \in Level : SignOf(x) \in {-1, 1} /\ SignOf(x) \in Sign
BY DEF SignOf, Level, Sign

(* The initial states.                                                     *)
LEMMA InitIInv ==
  ASSUME Init
  PROVE  IInv
<1>1. mesh \in {Analysed(m) : m \in Inputs}
  BY DEF Init
<1>2. MeshFacts(mesh)
  BY <1>1, MeshFactsHold
<1> DEFINE f == Shifted(mesh)
           n == Len(mesh.tets)
<1>3. f \in [DOMAIN mesh.sol -> Level]
  BY <1>2 DEF MeshFacts
<1>4. /\ n \in Nat /\ DOMAIN mesh.tets = 1..n
      /\ DOMAIN mesh.sol = 1..Len(mesh.sol) /\ Len(mesh.sol) \in Nat
      /\ \A k \in 1..n : Corners(mesh, k) \in [Local -> DOMAIN mesh.sol]
  BY <1>2, InputTets
<1>5. tetra = [k \in 1..n |-> [v |-> Corners(mesh, k), ref |-> mesh.refs[k], from |-> k]]
  BY <1>4 DEF Init, Corners
<1>6. /\ sol = [p \in DOMAIN f |-> IF f[p] \in {-1, 1} THEN 0 ELSE SignOf(f[p])]
      /\ snapped = {p \in DOMAIN f : f[p] \in {-1, 1}}
  BY DEF Init
<1>7. DOMAIN sol = DOMAIN mesh.sol
  BY <1>3, <1>6
<1>8. \A p \in DOMAIN sol : sol[p] \in Sign /\ (sol[p] = 0 <=> f[p] \in {-1, 1})
  BY <1>3, <1>6, <1>7, SignOfType DEF Sign
<1>9. snapped = {p \in DOMAIN sol : sol[p] = 0}
  BY <1>3, <1>6, <1>7, <1>8
<1> HIDE DEF f, n
<1>10. sol \in Seq(Sign)
  <2>1. sol \in [1..Len(mesh.sol) -> Sign]
    BY <1>4, <1>6, <1>7, <1>8
  <2> QED
    BY <1>4, <2>1
<1>11. IsTuple(tetra)
  <2>1. DOMAIN tetra = 1..n /\ tetra = [k \in 1..n |-> tetra[k]]
    BY <1>5
  <2> QED
    BY <1>4, <2>1 DEF IsTuple
<1>12. IsTuple(of) /\ DOMAIN of = DOMAIN sol
  <2>1. of = [p \in 1..Len(mesh.sol) |-> {p}]
    BY <1>4 DEF Init
  <2>2. DOMAIN of = 1..Len(mesh.sol) /\ of = [p \in 1..Len(mesh.sol) |-> of[p]]
    BY <2>1
  <2> QED
    BY <1>4, <1>7, <2>2 DEF IsTuple
<1>13. \A k \in DOMAIN tetra : /\ IsTetra(tetra[k], DOMAIN sol, DOMAIN mesh.tets)
                             /\ Whole(tetra[k], mesh, k) /\ tetra[k].ref = mesh.refs[k]
  BY <1>4, <1>5, <1>7 DEF IsTetra, Whole
<1>14. Types
  <2>1. DOMAIN hash = {} /\ base = {} /\ left = {} /\ stage = "snap" /\ ret = "ok" /\ at = 0 /\ nc = 0
    <3>1. hash = << >>
      BY DEF Init
    <3> QED
      BY <3>1 DEF Init
  <2>2. snapped \subseteq DOMAIN mesh.sol
    BY <1>7, <1>9
  <2> QED
    BY <1>7, <1>10, <1>11, <1>12, <1>13, <2>1, <2>2 DEF Types
<1>15. Snapping
  BY <1>4, <1>5, <1>7, <1>9, <1>13 DEF Snapping, AllWhole, Init
<1> QED
  BY <1>1, <1>14, <1>15 DEF IInv, Init

-------------------------------------------------------------------------------
(* A value that was snapped is restored.                                   *)
LEMMA CorrectIInv ==
  ASSUME IInv, Correct
  PROVE  IInv'
<1> DEFINE n == Min(ToCorrect)
           p == Vtx(n)
           x == SignOf(Shifted(mesh)[p])
<1>1. MeshFacts(mesh)
  BY MeshHolds
<1>2. /\ stage = "snap" /\ Snapping /\ Types /\ left = {}
      /\ mesh \in {Analysed(m) : m \in Inputs}
  BY DEF IInv, Correct
<1>3. /\ at' = n + 1 /\ sol' = [sol EXCEPT ![p] = x] /\ snapped' = snapped \ {p} /\ nc' = nc + 1
      /\ mesh' = mesh /\ tetra' = tetra /\ hash' = hash /\ of' = of /\ stage' = stage
      /\ base' = base /\ left' = left /\ ret' = ret
  BY DEF Correct
<1>4. n \in ToCorrect /\ n \in Nat
  <2>1. ToCorrect # {} /\ at \in Nat /\ Len(tetra) \in Nat
    BY <1>2, TupleLen DEF Correct, Types
  <2>2. ToCorrect \in SUBSET Nat
    BY <2>1 DEF ToCorrect, ne
  <2> QED
    BY <2>1, <2>2, MinOf
<1>5. p \in snapped
  BY <1>4 DEF ToCorrect, Tangled
<1> HIDE DEF p
<1>6. DOMAIN sol = DOMAIN mesh.sol /\ snapped = {q \in DOMAIN sol : sol[q] = 0}
  BY <1>2 DEF Snapping
<1>7. x \in {-1, 1}
  <2>1. Shifted(mesh)[p] \in Level
    BY <1>1, <1>5, <1>6 DEF MeshFacts
  <2> QED
    BY <2>1, SignOfType
<1> HIDE DEF x, n
<1>8. sol \in Seq(Sign) /\ x \in Sign
  BY <1>2, <1>7 DEF Types, Sign
<1>9. sol' \in Seq(Sign) /\ DOMAIN sol' = DOMAIN sol
  <2>1. Len(sol) \in Nat /\ sol \in [1..Len(sol) -> Sign]
    BY <1>8
  <2>2. sol' \in [1..Len(sol) -> Sign] /\ DOMAIN sol' = DOMAIN sol
    BY <1>3, <1>8, <2>1
  <2> QED
    BY <2>1, <2>2
<1>10. snapped' = {q \in DOMAIN sol' : sol'[q] = 0}
  BY <1>3, <1>5, <1>6, <1>7, <1>9
<1>11. Types'
  <2>1. at' \in Nat /\ nc' \in Nat /\ snapped' \subseteq DOMAIN mesh.sol
    BY <1>2, <1>3, <1>4 DEF Types
  <2> QED
    BY <1>2, <1>3, <1>9, <2>1 DEF Types
<1>12. Snapping'
  <2>1. nc' # 0
    BY <1>2, <1>3 DEF Types
  <2> QED
    BY <1>2, <1>3, <1>6, <1>9, <1>10, <2>1 DEF Snapping
<1> QED
  BY <1>2, <1>3, <1>11, <1>12 DEF IInv

(* A tetrahedron with another reference.                                   *)
LEMMA OtherRef ==
  ASSUME NEW t, NEW D, NEW E, IsTetra(t, D, E), NEW r
  PROVE  LET u == [t EXCEPT !.ref = r]
         IN IsTetra(u, D, E) /\ u.v = t.v /\ u.from = t.from /\ u.ref = r
<1> DEFINE v == t.v
           from == t.from
           ref == t.ref
<1>1. t = [v |-> v, ref |-> ref, from |-> from] /\ v \in [Local -> D] /\ from \in E
  BY DEF IsTetra
<1>2. [t EXCEPT !.ref = r] = [v |-> v, ref |-> r, from |-> from]
  <2> HIDE DEF v, from, ref
  <2> QED
    BY <1>1
<1> HIDE DEF v, from, ref
<1> QED
  BY <1>1, <1>2 DEF IsTetra, v, from

(* The references of the first tetrahedra are reset.                       *)
LEMMA ResetTetra ==
  ASSUME Types, NEW last, Reset(last)
  PROVE  /\ IsTuple(tetra') /\ DOMAIN tetra' = DOMAIN tetra
         /\ \A k \in DOMAIN tetra : /\ IsTetra(tetra'[k], DOMAIN sol, DOMAIN mesh.tets)
                                    /\ tetra'[k].v = tetra[k].v
                                    /\ tetra'[k].from = tetra[k].from
                                    /\ k <= last => tetra'[k].ref = getStartRef(tetra[k].ref)
<1>1. ne \in Nat /\ DOMAIN tetra = 1..ne
  BY TupleLen DEF Types, ne
<1> HIDE DEF ne
<1> DEFINE new(k) == IF k <= last THEN [tetra[k] EXCEPT !.ref = getStartRef(tetra[k].ref)]
                                  ELSE tetra[k]
<1>2. tetra' = [k \in 1..ne |-> new(k)]
  BY DEF Reset
<1>3. \A k \in 1..ne : IsTetra(tetra[k], DOMAIN sol, DOMAIN mesh.tets)
  BY <1>1 DEF Types
<1>4. ASSUME NEW k \in 1..ne
      PROVE  /\ IsTetra(new(k), DOMAIN sol, DOMAIN mesh.tets)
             /\ new(k).v = tetra[k].v /\ new(k).from = tetra[k].from
             /\ k <= last => new(k).ref = getStartRef(tetra[k].ref)
  <2>1. CASE k <= last
    <3> DEFINE u == [tetra[k] EXCEPT !.ref = getStartRef(tetra[k].ref)]
    <3>1. /\ IsTetra(u, DOMAIN sol, DOMAIN mesh.tets) /\ u.v = tetra[k].v
          /\ u.from = tetra[k].from /\ u.ref = getStartRef(tetra[k].ref)
      BY <1>3, OtherRef
    <3>2. new(k) = u
      BY <2>1
    <3> HIDE DEF u, new
    <3> QED
      BY <3>1, <3>2
  <2>2. CASE ~(k <= last)
    <3>1. new(k) = tetra[k]
      BY <2>2
    <3> HIDE DEF new
    <3> QED
      BY <1>3, <2>2, <3>1
  <2> QED
    BY <2>1, <2>2
<1> HIDE DEF new
<1>5. DOMAIN tetra' = 1..ne /\ \A k \in 1..ne : tetra'[k] = new(k)
  BY <1>2
<1>6. IsTuple(tetra')
  BY <1>1, <1>2, <1>5 DEF IsTuple
<1> QED
  BY <1>1, <1>4, <1>5, <1>6

(* When a sweep has found nothing, no tetrahedron lies within the surface. *)
LEMMA SweptNoFlat ==
  ASSUME Types, Snapping, MeshFacts(mesh), ToCorrect = {}, at = 0
  PROVE  NoFlat(sol, mesh)
<1> SUFFICES ASSUME NEW k \in DOMAIN mesh.tets, FlatIn(sol, Corners(mesh, k)) PROVE FALSE
  BY DEF NoFlat
<1>1. ne \in Nat /\ DOMAIN tetra = 1..ne
  BY TupleLen DEF Types, ne
<1>2. k \in 1..ne /\ tetra[k].v = Corners(mesh, k)
  BY <1>1 DEF Snapping, AllWhole, Whole
<1>3. \A i \in Local : sol[V(k, i)] = 0
  BY <1>2 DEF V, FlatIn
<1> DEFINE n == 4 * (k - 1)
<1>4. n \in at..(4 * ne - 1) /\ Tet(n) = k /\ n % 4 = 0
  BY <1>1, <1>2 DEF Tet
<1> HIDE DEF n
<1>5. Vtx(n) = V(k, 0)
  BY <1>4 DEF Vtx
<1>6. 0 \in Local
  BY DEF Local
<1>7. V(k, 0) \in snapped
  <2>1. V(k, 0) \in DOMAIN mesh.sol
    BY <1>2, <1>6, InputTets DEF V
  <2> QED
    BY <1>3, <1>6, <2>1 DEF Snapping
<1>8. ismaniball(k, 0)
  BY <1>4, <1>5, <1>7 DEF ToCorrect, Tangled
<1>9. Signs(k, 0) # {}
  BY <1>3, <1>6, <1>8 DEF ismaniball
<1>10. \A j \in 0..2 : idir[0][j] \in Local
  BY DEF idir, Array, Local
<1> QED
  BY <1>3, <1>9, <1>10 DEF Signs

(* A sweep ends.                                                           *)
LEMMA SweepEndIInv ==
  ASSUME IInv, SweepEnd
  PROVE  IInv'
<1>1. MeshFacts(mesh)
  BY MeshHolds
<1>2. /\ stage = "snap" /\ Snapping /\ Types /\ left = {}
      /\ mesh \in {Analysed(m) : m \in Inputs}
  BY DEF IInv, SweepEnd
<1>3. /\ at' = 0 /\ nc' = 0
      /\ mesh' = mesh /\ sol' = sol /\ hash' = hash /\ of' = of
      /\ base' = base /\ left' = left /\ snapped' = snapped
  BY DEF SweepEnd
<1>4. CASE nc > 0
  <2>1. tetra' = tetra /\ stage' = stage /\ ret' = ret
    BY <1>4 DEF SweepEnd
  <2>2. Types'
    BY <1>2, <1>3, <2>1 DEF Types
  <2>3. Snapping'
    BY <1>2, <1>3, <2>1 DEF Snapping
  <2> QED
    BY <1>2, <1>3, <2>1, <2>2, <2>3 DEF IInv
<1>5. CASE nc = 0 /\ Unknown = {}
  <2>1. Reset(ne) /\ stage' \in {"pos", "count"} /\ ret' = ret
    BY <1>5 DEF SweepEnd
  <2>2. /\ IsTuple(tetra') /\ DOMAIN tetra' = DOMAIN tetra
        /\ \A k \in DOMAIN tetra : /\ IsTetra(tetra'[k], DOMAIN sol, DOMAIN mesh.tets)
                                   /\ tetra'[k].v = tetra[k].v
                                   /\ tetra'[k].from = tetra[k].from
                                   /\ k <= ne => tetra'[k].ref = getStartRef(tetra[k].ref)
    BY <1>2, <2>1, ResetTetra
  <2>3. \A k \in DOMAIN tetra : k <= ne
    BY <1>2, TupleLen DEF Types, ne
  <2>4. Types'
    BY <1>2, <1>3, <2>1, <2>2 DEF Types
  <2>5. NoFlat(sol, mesh)
    <3>1. ToCorrect = {} /\ at = 0
      BY <1>2, <1>5 DEF SweepEnd, Snapping
    <3> QED
      BY <1>1, <1>2, <3>1, SweptNoFlat
  <2>6. Removing'
    <3>1. \A k \in DOMAIN tetra : /\ Whole(tetra'[k], mesh, k)
                                  /\ tetra'[k].ref = WasIn(mesh, tetra'[k].from)
      BY <1>2, <2>2, <2>3, MeshOnly DEF Snapping, AllWhole, Whole
    <3> QED
      BY <1>2, <1>3, <2>2, <2>5, <3>1 DEF Removing, Snapping, AllWhole, OldRefs
  <2> QED
    BY <1>2, <1>3, <2>1, <2>4, <2>6 DEF IInv
<1>6. CASE nc = 0 /\ Unknown # {}
  <2>1. Reset(Min(Unknown) - 1) /\ stage' = "done" /\ ret' = "failed"
    BY <1>6 DEF SweepEnd
  <2>2. /\ IsTuple(tetra') /\ DOMAIN tetra' = DOMAIN tetra
        /\ \A k \in DOMAIN tetra : IsTetra(tetra'[k], DOMAIN sol, DOMAIN mesh.tets)
    BY <1>2, <2>1, ResetTetra
  <2>3. Types'
    BY <1>2, <1>3, <2>1, <2>2 DEF Types
  <2> QED
    BY <1>2, <1>3, <2>1, <2>3 DEF IInv, Done
<1>7. nc \in Nat
  BY <1>2 DEF Types
<1> QED
  BY <1>4, <1>5, <1>6, <1>7

-------------------------------------------------------------------------------
(* A component is made of tetrahedra.                                      *)
LEMMA ComponentType ==
  ASSUME Types, MeshFacts(mesh), NEW k \in DOMAIN mesh.tets
  PROVE  Component(k) \subseteq DOMAIN mesh.tets
<1> DEFINE D == SUBSET DOMAIN mesh.tets
           grow(S) == S \union (NextTo(S) \ base)
           step == [q \in D \X (1..ne) |-> grow(q[1])]
           Def(f) == f = [n \in 0..ne |-> IF n = 0 THEN {k} ELSE grow(f[n - 1])]
<1>1. ne \in Nat
  BY TupleLen DEF Types, ne
<1>2. {k} \in D
  OBVIOUS
<1>3. ASSUME NEW S \in D PROVE grow(S) \in D
  <2>1. \A t \in S, j \in Local : mesh.adja[t][j] \in {0} \union DOMAIN mesh.tets
    BY DEF MeshFacts
  <2>2. NextTo(S) \subseteq DOMAIN mesh.tets
    <3> SUFFICES ASSUME NEW y \in NextTo(S) PROVE y \in DOMAIN mesh.tets
      OBVIOUS
    <3> DEFINE through(t) == UNION {Local \ {i} : i \in OnSide(t)}
    <3>1. \A t : through(t) \subseteq Local
      OBVIOUS
    <3> DEFINE all == UNION {{mesh.adja[t][j] : j \in through(t)} : t \in S}
    <3>2. NextTo(S) = all \ {0}
      BY DEF NextTo
    <3> HIDE DEF through
    <3>3. PICK t \in S : y \in {mesh.adja[t][j] : j \in through(t)}
      BY <3>2
    <3> HIDE DEF all
    <3>4. PICK j \in Local : y = mesh.adja[t][j]
      BY <3>1, <3>3
    <3>5. y # 0
      BY <3>2
    <3>6. mesh.adja[t][j] \in {0} \union DOMAIN mesh.tets
      BY <2>1, <3>4
    <3> QED
      BY <3>4, <3>5, <3>6
  <2> QED
    BY <2>2
<1> HIDE DEF D, grow
<1>4. step \in [D \X (1..ne) -> D]
  <2>1. \A q \in D \X (1..ne) : q[1] \in D
    OBVIOUS
  <2>2. \A q \in D \X (1..ne) : grow(q[1]) \in D
    BY <1>3, <2>1
  <2> QED
    BY <2>2
<1>5. \A S \in D, n \in 1..ne : step[<<S, n>>] = grow(S)
  <2> TAKE S \in D, n \in 1..ne
  <2> DEFINE q == <<S, n>>
  <2>1. q \in D \X (1..ne) /\ q[1] = S
    OBVIOUS
  <2> HIDE DEF q
  <2>2. step[q] = grow(q[1])
    BY <2>1
  <2> QED
    BY <2>1, <2>2 DEF q
<1> HIDE DEF step
<1>6. PICK f \in [0..ne -> D] : f[0] = {k} /\ \A n \in 1..ne : f[n] = step[<<f[n - 1], n>>]
  <2> DEFINE x == {k}
  <2>1. x \in D
    BY <1>2
  <2> HIDE DEF x
  <2>2. step \in Steps(D, ne)
    BY <1>4 DEF Steps
  <2>3. \E f : Recursive(f, ne, D, x, step)
    BY <1>1, <2>1, <2>2, Recursion
  <2> QED
    BY <2>3 DEF x, Recursive
<1>7. \A n \in 1..ne : n - 1 \in 0..ne /\ f[n - 1] \in D
  BY <1>1
<1>8. \A n \in 0..ne : f[n] = IF n = 0 THEN {k} ELSE grow(f[n - 1])
  <2> TAKE n \in 0..ne
  <2>1. CASE n = 0
    BY <1>6, <2>1
  <2>2. CASE n # 0
    <3>1. n \in 1..ne
      BY <1>1, <2>2
    <3>2. f[n] = step[<<f[n - 1], n>>] /\ f[n - 1] \in D
      BY <1>6, <1>7, <3>1
    <3> QED
      BY <1>5, <2>2, <3>1, <3>2
  <2> QED
    BY <2>1, <2>2
<1>9. Def(f)
  <2> DEFINE g == [n \in 0..ne |-> IF n = 0 THEN {k} ELSE grow(f[n - 1])]
  <2>1. f = [n \in 0..ne |-> f[n]] /\ g = [n \in 0..ne |-> g[n]]
    OBVIOUS
  <2>2. \A n \in 0..ne : f[n] = g[n]
    BY <1>8
  <2> HIDE DEF g
  <2>3. f = g
    BY <2>1, <2>2
  <2> QED
    BY <2>3 DEF g
<1>10. Grown(k) = CHOOSE g : Def(g)
  BY DEF Grown, grow
<1>11. Def(Grown(k))
  BY <1>9, <1>10
<1> DEFINE g == Grown(k)
           Good == {n \in 0..ne : g[n] \in D}
<1>12. g = [n \in 0..ne |-> IF n = 0 THEN {k} ELSE grow(g[n - 1])]
  BY <1>11
<1> HIDE DEF g
<1>13. 0 \in Good
  BY <1>1, <1>2, <1>12
<1>14. ASSUME NEW n \in 1..ne, n - 1 \in Good PROVE n \in Good
  <2>1. n \in 0..ne /\ n # 0
    BY <1>1
  <2>2. g[n] = grow(g[n - 1])
    BY <1>12, <2>1
  <2>3. g[n - 1] \in D
    BY <1>14
  <2> QED
    BY <1>3, <2>1, <2>2, <2>3
<1> HIDE DEF Good
<1>15. 0..ne \subseteq Good
  BY <1>1, <1>13, <1>14, Upward
<1>16. ne \in Good
  BY <1>1, <1>15
<1> QED
  BY <1>16 DEF Good, g, D, Component

(* A component is examined, and perhaps removed.                           *)
LEMMA RmcIInv ==
  ASSUME IInv, Rmc
  PROVE  IInv'
<1> DEFINE k == Min(Starts)
           C == Component(k)
<1>1. MeshFacts(mesh)
  BY MeshHolds
<1>2. /\ stage \in {"pos", "neg"} /\ Removing /\ Types /\ left = {}
      /\ mesh \in {Analysed(m) : m \in Inputs}
  BY DEF IInv, Rmc
<1>3. /\ mesh' = mesh /\ tetra' = tetra /\ hash' = hash /\ of' = of /\ stage' = stage
      /\ snapped' = snapped /\ left' = left /\ ret' = ret /\ nc' = nc
      /\ base' = base \union C /\ at' = k
  BY DEF Rmc
<1>4. k \in 1..ne /\ k \in Nat /\ DOMAIN tetra = 1..ne
  <2>1. Starts # {} /\ ne \in Nat /\ DOMAIN tetra = 1..ne
    BY <1>2, TupleLen DEF Rmc, Types, ne
  <2>2. Starts \in SUBSET Nat /\ Starts \subseteq 1..ne
    BY <2>1 DEF Starts
  <2>3. k \in Starts
    BY <2>1, <2>2, MinOf
  <2> QED
    BY <2>1, <2>2, <2>3
<1>5. C \subseteq DOMAIN mesh.tets
  <2>1. k \in DOMAIN mesh.tets
    BY <1>2, <1>4 DEF Removing, AllWhole
  <2> HIDE DEF k
  <2> QED
    BY <1>1, <1>2, <2>1, ComponentType
<1> HIDE DEF k, C
<1>6. /\ sol' \in Seq(Sign) /\ DOMAIN sol' = DOMAIN sol
      /\ \A p \in DOMAIN sol : sol'[p] = 0 <=> sol[p] = 0
  <2>1. CASE sol' = sol
    BY <1>2, <2>1 DEF Types
  <2>2. CASE sol' # sol
    <3> DEFINE turned(p) == sol[p] = Side /\ \E t \in C : p \in Range(tetra[t].v)
    <3>1. sol' = [p \in DOMAIN sol |-> IF turned(p) THEN -Side ELSE sol[p]]
      BY <2>2 DEF Rmc, C, k
    <3>2. \A p : turned(p) => sol[p] = Side
      OBVIOUS
    <3> HIDE DEF turned
    <3>3. Side \in {-1, 1}
      BY DEF Side
    <3>4. Len(sol) \in Nat /\ DOMAIN sol = 1..Len(sol) /\ \A p \in DOMAIN sol : sol[p] \in Sign
      BY <1>2 DEF Types
    <3>5. sol' \in [1..Len(sol) -> Sign]
      BY <3>1, <3>3, <3>4 DEF Sign
    <3>6. sol' \in Seq(Sign) /\ DOMAIN sol' = DOMAIN sol
      BY <3>4, <3>5
    <3> QED
      BY <3>1, <3>2, <3>3, <3>6
  <2> QED
    BY <2>1, <2>2
<1>7. Types'
  <2>1. at' \in Nat /\ base' \subseteq DOMAIN mesh.tets
    BY <1>2, <1>3, <1>4, <1>5 DEF Types
  <2>2. \A t \in DOMAIN tetra : IsTetra(tetra[t], DOMAIN sol', DOMAIN mesh.tets)
    BY <1>2, <1>6 DEF Types
  <2> QED
    BY <1>2, <1>3, <1>6, <2>1 DEF Types
<1>8. NoFlat(sol', mesh)
  <2> SUFFICES ASSUME NEW t \in DOMAIN mesh.tets PROVE ~FlatIn(sol', Corners(mesh, t))
    BY DEF NoFlat
  <2>1. PICK i \in Local : sol[Corners(mesh, t)[i]] # 0
    BY <1>2 DEF Removing, NoFlat, FlatIn
  <2>2. Corners(mesh, t)[i] \in DOMAIN sol
    BY <1>1, <1>2, InputTets DEF Removing
  <2> QED
    BY <1>6, <2>1, <2>2 DEF FlatIn
<1>9. Removing'
  BY <1>2, <1>3, <1>6, <1>8 DEF Removing
<1> QED
  BY <1>2, <1>3, <1>7, <1>9 DEF IInv

(* All components of a side have been seen.                                *)
LEMMA RmcEndIInv ==
  ASSUME IInv, RmcEnd
  PROVE  IInv'
<1>1. /\ stage \in {"pos", "neg"} /\ Removing /\ Types /\ left = {}
      /\ mesh \in {Analysed(m) : m \in Inputs}
  BY DEF IInv, RmcEnd
<1>2. /\ mesh' = mesh /\ tetra' = tetra /\ sol' = sol /\ hash' = hash /\ of' = of
      /\ snapped' = snapped /\ left' = left /\ ret' = ret /\ nc' = nc
      /\ base' = {} /\ at' = 0 /\ stage' \in {"neg", "count"}
  BY DEF RmcEnd
<1>3. Types'
  BY <1>1, <1>2 DEF Types
<1>4. Removing'
  BY <1>1, <1>2 DEF Removing
<1> QED
  BY <1>1, <1>2, <1>3, <1>4 DEF IInv

-------------------------------------------------------------------------------
(* A tetrahedron with a vertex off the surface and no edge across it lies  *)
(* on one side.                                                            *)
LEMMA UncutOneSided ==
  ASSUME NEW D, NEW f, \A p \in D : f[p] \in Sign, NEW v \in [Local -> D], ~FlatIn(f, v),
         \A e \in Edge : ~ChangesIn(f, EndsIn(v, e))
  PROVE  OneSided(f, v)
<1> DEFINE s(i) == f[v[i]]
<1>1. \A i \in Local : s(i) \in Sign
  OBVIOUS
<1>2. ASSUME NEW e \in Edge, NEW a \in Local, NEW b \in Local, iare[e] = {a, b}
      PROVE  ~(s(a) * s(b) < 0)
  BY <1>2 DEF ChangesIn, EndsIn
<1>3. /\ ~(s(0) * s(1) < 0) /\ ~(s(0) * s(2) < 0) /\ ~(s(0) * s(3) < 0)
      /\ ~(s(1) * s(2) < 0) /\ ~(s(1) * s(3) < 0) /\ ~(s(2) * s(3) < 0)
  BY <1>2, EdgeEnds DEF Edge, Local
<1>4. s(0) \in Sign /\ s(1) \in Sign /\ s(2) \in Sign /\ s(3) \in Sign
  BY <1>1 DEF Local
<1>5. s(0) # 0 \/ s(1) # 0 \/ s(2) # 0 \/ s(3) # 0
  BY DEF FlatIn, Local
<1>6. (\A i \in Local : s(i) \in {0, 1}) \/ (\A i \in Local : s(i) \in {0, -1})
  <2> HIDE DEF s
  <2>1. \/ s(0) \in {0, 1} /\ s(1) \in {0, 1} /\ s(2) \in {0, 1} /\ s(3) \in {0, 1}
        \/ s(0) \in {0, -1} /\ s(1) \in {0, -1} /\ s(2) \in {0, -1} /\ s(3) \in {0, -1}
    BY <1>3, <1>4 DEF Sign
  <2> QED
    BY <2>1 DEF Local
<1>7. PICK i \in Local : s(i) # 0
  BY <1>5 DEF Local
<1>8. \/ (\A j \in Local : s(j) \in {0, 1}) /\ s(i) = 1
      \/ (\A j \in Local : s(j) \in {0, -1}) /\ s(i) = -1
  <2> HIDE DEF s
  <2> QED
    BY <1>6, <1>7
<1> QED
  BY <1>8 DEF OneSided, On

(* The references of both sides are set.                                   *)
LEMMA SetRefSides ==
  ASSUME Types, MeshFacts(mesh), OldRefs(tetra, mesh),
         \A k \in DOMAIN tetra : SplitIn(mesh, tetra[k].ref) => OneSided(sol, tetra[k].v)
  PROVE  LET ts == SetRef(tetra)
         IN /\ IsTuple(ts) /\ DOMAIN ts = DOMAIN tetra
            /\ \A k \in DOMAIN ts : /\ IsTetra(ts[k], DOMAIN sol, DOMAIN mesh.tets)
                                    /\ ts[k].from = tetra[k].from
                                    /\ ~SplitIn(mesh, tetra[k].ref) => ts[k] = tetra[k]
            /\ Sides(ts, sol, mesh)
<1> DEFINE ts == SetRef(tetra)
           positive(k) == \E i \in Local : sol[tetra[k].v[i]] > 0
           new(k) == IF ~SplitIn(mesh, tetra[k].ref) THEN tetra[k]
                     ELSE IF positive(k)
                     THEN [tetra[k] EXCEPT !.ref = ExtIn(mesh, tetra[k].ref)]
                     ELSE [tetra[k] EXCEPT !.ref = IntIn(mesh, tetra[k].ref)]
<1>1. Len(tetra) \in Nat /\ DOMAIN tetra = 1..Len(tetra)
  BY TupleLen DEF Types
<1>2. DOMAIN ts = DOMAIN tetra /\ ts = [k \in DOMAIN tetra |-> ts[k]]
  BY DEF SetRef
<1>3. \A k \in DOMAIN tetra : ts[k] = new(k)
  BY MeshOnly DEF SetRef
<1>4. IsTuple(ts)
  BY <1>1, <1>2 DEF IsTuple
<1> HIDE DEF ts
<1>5. ASSUME NEW k \in DOMAIN tetra
      PROVE  /\ IsTetra(ts[k], DOMAIN sol, DOMAIN mesh.tets) /\ ts[k].v = tetra[k].v
             /\ ts[k].from = tetra[k].from
             /\ ~SplitIn(mesh, tetra[k].ref) => ts[k] = tetra[k]
             /\ SplitIn(mesh, tetra[k].ref) =>
                    ts[k].ref = IF positive(k) THEN ExtIn(mesh, tetra[k].ref)
                                               ELSE IntIn(mesh, tetra[k].ref)
  <2>1. IsTetra(tetra[k], DOMAIN sol, DOMAIN mesh.tets)
    BY DEF Types
  <2>2. CASE ~SplitIn(mesh, tetra[k].ref)
    BY <1>3, <2>1, <2>2
  <2>3. ASSUME SplitIn(mesh, tetra[k].ref), NEW r, ts[k] = [tetra[k] EXCEPT !.ref = r]
        PROVE  /\ IsTetra(ts[k], DOMAIN sol, DOMAIN mesh.tets) /\ ts[k].v = tetra[k].v
               /\ ts[k].from = tetra[k].from /\ ts[k].ref = r
    BY <2>1, <2>3, OtherRef
  <2>4. CASE SplitIn(mesh, tetra[k].ref) /\ positive(k)
    <3>1. ts[k] = [tetra[k] EXCEPT !.ref = ExtIn(mesh, tetra[k].ref)]
      BY <1>3, <2>4
    <3> HIDE DEF new, positive
    <3> QED
      BY <2>3, <2>4, <3>1
  <2>5. CASE SplitIn(mesh, tetra[k].ref) /\ ~positive(k)
    <3>1. ts[k] = [tetra[k] EXCEPT !.ref = IntIn(mesh, tetra[k].ref)]
      BY <1>3, <2>5
    <3> HIDE DEF new, positive
    <3> QED
      BY <2>3, <2>5, <3>1
  <2> HIDE DEF new, positive
  <2> QED
    BY <2>2, <2>4, <2>5
<1>6. Sides(ts, sol, mesh)
  <2> SUFFICES ASSUME NEW k \in DOMAIN tetra
               PROVE  LET was == WasIn(mesh, ts[k].from)
                      IN IF ~SplitIn(mesh, was) THEN ts[k].ref = was
                         ELSE \/ On(sol, ts[k].v, 1) /\ ts[k].ref = ExtIn(mesh, was)
                              \/ On(sol, ts[k].v, -1) /\ ts[k].ref = IntIn(mesh, was)
    BY <1>2 DEF Sides
  <2> DEFINE was == WasIn(mesh, ts[k].from)
  <2>1. tetra[k].ref = was
    BY <1>5 DEF OldRefs
  <2> HIDE DEF was
  <2>2. CASE ~SplitIn(mesh, was)
    BY <1>5, <2>1, <2>2 DEF was
  <2>3. CASE SplitIn(mesh, was)
    <3>1. OneSided(sol, tetra[k].v)
      BY <2>1, <2>3
    <3>2. ts[k].v = tetra[k].v
      BY <1>5
    <3>3. CASE On(sol, tetra[k].v, 1)
      <4>1. positive(k)
        BY <3>3 DEF On
      <4> HIDE DEF positive
      <4>2. ts[k].ref = ExtIn(mesh, was)
        BY <1>5, <2>1, <2>3, <4>1
      <4> QED
        BY <2>3, <3>2, <3>3, <4>2 DEF was
    <3>4. CASE On(sol, tetra[k].v, -1)
      <4>1. ~positive(k)
        BY <3>4 DEF On
      <4> HIDE DEF positive
      <4>2. ts[k].ref = IntIn(mesh, was)
        BY <1>5, <2>1, <2>3, <4>1
      <4> QED
        BY <2>3, <3>2, <3>4, <4>2 DEF was
    <3> QED
      BY <3>1, <3>3, <3>4 DEF OneSided
  <2> QED
    BY <2>2, <2>3
<1> QED
  BY <1>2, <1>4, <1>5, <1>6 DEF ts

(* The edges of a tetrahedron of the mesh that is not cut.                 *)
LEMMA WholeEnds ==
  ASSUME NEW k, Whole(tetra[k], mesh, k), NEW e \in Edge
  PROVE  Ends(k, e) = EndsIn(Corners(mesh, k), e) /\ Ends(k, e) = EndsIn(tetra[k].v, e)
BY DEF Whole, Ends, EndsIn, V

(* They are pairs of vertices of the input.                                *)
LEMMA EndsType ==
  ASSUME MeshFacts(mesh), NEW k \in DOMAIN mesh.tets, NEW e \in Edge
  PROVE  EndsIn(Corners(mesh, k), e) \subseteq DOMAIN mesh.sol
<1>1. iare[e] \subseteq Local
  BY EdgeOf
<1>2. Corners(mesh, k) \in [Local -> DOMAIN mesh.sol]
  BY InputTets
<1> QED
  BY <1>1, <1>2 DEF EndsIn

(* The cut begins, or there is nothing to cut.                             *)
LEMMA StartCutIInv ==
  ASSUME IInv, StartCut
  PROVE  IInv'
<1>1. MeshFacts(mesh)
  BY MeshHolds
<1>2. /\ stage = "count" /\ Removing /\ Types /\ left = {} /\ at = 0
      /\ mesh \in {Analysed(m) : m \in Inputs}
  BY DEF IInv, StartCut
<1>3. /\ mesh' = mesh /\ sol' = sol /\ of' = of /\ at' = at /\ base' = base /\ left' = left
      /\ snapped' = snapped /\ ret' = ret /\ nc' = nc
  BY DEF StartCut
<1>4. DOMAIN tetra = 1..ne /\ DOMAIN mesh.tets = DOMAIN tetra
  BY <1>2, TupleLen DEF Types, ne, Removing, AllWhole
<1>5. \A k \in 1..ne : Whole(tetra[k], mesh, k)
  BY <1>2, <1>4 DEF Removing, AllWhole
<1>6. CASE \A k \in 1..ne, e \in Edge : ~Changes(Ends(k, e))
  <2>1. stage' = "done" /\ tetra' = SetRef(tetra) /\ hash' = hash
    BY <1>6 DEF StartCut
  <2>2. ASSUME NEW k \in 1..ne PROVE OneSided(sol, tetra[k].v)
    <3>1. \A e \in Edge : ~ChangesIn(sol, EndsIn(tetra[k].v, e))
      BY <1>5, <1>6, WholeEnds DEF Changes, ChangesIn
    <3>2. ~FlatIn(sol, tetra[k].v)
      BY <1>2, <1>4, <1>5 DEF Whole, Removing, NoFlat
    <3>3. tetra[k].v \in [Local -> DOMAIN sol] /\ \A p \in DOMAIN sol : sol[p] \in Sign
      BY <1>2, <1>4 DEF Types, IsTetra
    <3> QED
      BY <3>1, <3>2, <3>3, UncutOneSided
  <2>3. /\ IsTuple(tetra') /\ DOMAIN tetra' = DOMAIN tetra
        /\ \A k \in DOMAIN tetra' : IsTetra(tetra'[k], DOMAIN sol, DOMAIN mesh.tets)
        /\ Sides(tetra', sol, mesh)
    BY <1>1, <1>2, <1>4, <2>1, <2>2, SetRefSides DEF Removing
  <2>4. Types'
    BY <1>2, <1>3, <2>1, <2>3 DEF Types
  <2>5. Done'
    BY <1>2, <1>3, <2>3 DEF Done
  <2> QED
    BY <1>2, <1>3, <2>1, <2>4, <2>5 DEF IInv
<1>7. CASE ~\A k \in 1..ne, e \in Edge : ~Changes(Ends(k, e))
  <2>1. /\ stage' = "points" /\ tetra' = tetra
        /\ hash' = [ends \in {Ends(k, e) : k \in mesh.required, e \in Edge} |-> -1]
    BY <1>7 DEF StartCut
  <2>2. \A e \in DOMAIN hash' : hash'[e] = -1
    BY <2>1
  <2>3. Types'
    BY <1>2, <1>3, <2>1, <2>2 DEF Types
  <2>4. Points(hash', sol, mesh)
    <3>1. \A k \in mesh.required, e \in Edge : Ends(k, e) \subseteq DOMAIN mesh.sol
      <4> TAKE k \in mesh.required, e \in Edge
      <4>1. k \in DOMAIN mesh.tets
        BY <1>1 DEF MeshFacts
      <4>2. Whole(tetra[k], mesh, k)
        BY <1>4, <1>5, <4>1
      <4> QED
        BY <1>1, <4>1, <4>2, WholeEnds, EndsType
    <3>2. \A x \in DOMAIN hash' : x \subseteq DOMAIN mesh.sol
      BY <2>1, <3>1
    <3> QED
      BY <2>2, <3>2 DEF Points
  <2>5. \A k \in DOMAIN mesh.tets, e \in Edge : ~(6 * (k - 1) + e < at)
    BY <1>1, <1>2, InputTets DEF Edge
  <2>6. Pointing'
    BY <1>2, <1>3, <2>1, <2>4, <2>5 DEF Pointing, Removing
  <2> QED
    BY <1>2, <1>3, <2>1, <2>3, <2>6 DEF IInv
<1> QED
  BY <1>6, <1>7

-------------------------------------------------------------------------------
(* The edges in the order of the loop.                                     *)
LEMMA EdgeNumber ==
  ASSUME NEW nt \in Nat
  PROVE  /\ \A n \in 0..(6 * nt - 1) : /\ (n \div 6) + 1 \in 1..nt /\ n % 6 \in Edge
                                      /\ n = 6 * (((n \div 6) + 1) - 1) + (n % 6)
         /\ \A k \in 1..nt, e \in Edge : /\ 6 * (k - 1) + e \in 0..(6 * nt - 1)
                                        /\ ((6 * (k - 1) + e) \div 6) + 1 = k
                                        /\ (6 * (k - 1) + e) % 6 = e
<1>1. ASSUME NEW n \in 0..(6 * nt - 1)
      PROVE  /\ (n \div 6) + 1 \in 1..nt /\ n % 6 \in Edge
             /\ n = 6 * (((n \div 6) + 1) - 1) + (n % 6)
  BY DEF Edge
<1>2. ASSUME NEW k \in 1..nt, NEW e \in Edge
      PROVE  /\ 6 * (k - 1) + e \in 0..(6 * nt - 1)
             /\ ((6 * (k - 1) + e) \div 6) + 1 = k
             /\ (6 * (k - 1) + e) % 6 = e
  BY DEF Edge
<1> QED
  BY <1>1, <1>2

(* An edge that is not to have another point has the one it needs.         *)
LEMMA NotCrossed ==
  ASSUME AllWhole(tetra, mesh), OldRefs(tetra, mesh), NEW k \in DOMAIN mesh.tets,
         NEW e \in Edge, ~Crossed(k, e), \A x \in DOMAIN hash : hash[x] \in Int
  PROVE  Pointed(hash, sol, mesh, k, e)
<1> DEFINE ends == EndsIn(Corners(mesh, k), e)
<1>1. Whole(tetra[k], mesh, k)
  BY DEF AllWhole
<1>2. Ends(k, e) = ends /\ tetra[k].ref = WasIn(mesh, k)
  BY <1>1, WholeEnds DEF Whole, OldRefs, AllWhole
<1> HIDE DEF ends
<1>3. isSplit(tetra[k].ref) <=> SplitIn(mesh, WasIn(mesh, k))
  BY <1>2, MeshOnly
<1>4. Changes(ends) <=> ChangesIn(sol, ends)
  BY DEF Changes, ChangesIn
<1>5. SplitIn(mesh, WasIn(mesh, k)) /\ ChangesIn(sol, ends) => ~(HashGet(ends) <= 0)
  BY <1>2, <1>3, <1>4 DEF Crossed
<1>6. ~(HashGet(ends) <= 0) => HasPoint(hash, ends)
  BY DEF HashGet, HasPoint
<1> QED
  BY <1>5, <1>6 DEF Pointed, ends

(* A point is put on an edge.                                              *)
LEMMA NewPointIInv ==
  ASSUME IInv, NewPoint
  PROVE  IInv'
<1> DEFINE n == Min(ToPoint)
           k == (n \div 6) + 1
           e == n % 6
           ends == Ends(k, e)
           np == Len(sol) + 1
<1>1. MeshFacts(mesh)
  BY MeshHolds
<1>2. /\ stage = "points" /\ Pointing /\ Types /\ left = {}
      /\ mesh \in {Analysed(m) : m \in Inputs}
  BY DEF IInv, NewPoint
<1>3. /\ mesh' = mesh /\ tetra' = tetra /\ snapped' = snapped /\ nc' = nc /\ base' = base
      /\ left' = left /\ at' = n + 1
  BY DEF NewPoint
<1>4. ne \in Nat /\ DOMAIN tetra = 1..ne /\ DOMAIN mesh.tets = 1..ne
  BY <1>2, TupleLen DEF Types, ne, Pointing, AllWhole
<1>5. /\ n \in ToPoint /\ n \in 0..(6 * ne - 1) /\ \A y \in ToPoint : n <= y
  <2>1. ToPoint # {} /\ at \in Nat
    BY <1>2 DEF NewPoint, Types
  <2>2. ToPoint \subseteq 0..(6 * ne - 1) /\ ToPoint \in SUBSET Nat
    BY <1>4, <2>1 DEF ToPoint
  <2> QED
    BY <2>1, <2>2, MinOf
<1>6. k \in 1..ne /\ e \in Edge /\ n = 6 * (k - 1) + e
  BY <1>4, <1>5, EdgeNumber
<1>7. Crossed(k, e)
  BY <1>5 DEF ToPoint
<1> HIDE DEF k, e
<1> HIDE DEF n
<1>8. ends = EndsIn(Corners(mesh, k), e) /\ ends \subseteq DOMAIN mesh.sol /\ ChangesIn(sol, ends)
  <2>1. Whole(tetra[k], mesh, k)
    BY <1>2, <1>4, <1>6 DEF Pointing, AllWhole
  <2>2. ends = EndsIn(Corners(mesh, k), e)
    BY <1>6, <2>1, WholeEnds
  <2>3. Changes(ends)
    BY <1>7 DEF Crossed
  <2> QED
    BY <1>1, <1>4, <1>6, <2>2, <2>3, EndsType DEF Changes, ChangesIn
<1> HIDE DEF ends
<1>9. CASE np > mesh.npmax
  <2>1. /\ stage' = "done" /\ ret' = "failed" /\ sol' = sol /\ of' = of /\ hash' = hash
    <3>1. mesh.npmax \in Nat /\ Len(sol) \in Nat
      BY <1>1, <1>2 DEF MeshFacts, Types
    <3>2. ~(np <= mesh.npmax)
      BY <1>9, <3>1
    <3> QED
      BY <3>2 DEF NewPoint
  <2>2. at' \in Nat
    BY <1>3, <1>5
  <2>3. Types'
    BY <1>2, <1>3, <2>1, <2>2 DEF Types
  <2> QED
    BY <1>2, <1>3, <2>1, <2>3 DEF IInv, Done
<1>10. CASE np <= mesh.npmax
  <2>1. /\ sol' = Append(sol, 0) /\ stage' = stage /\ ret' = ret
        /\ hash' = [x \in DOMAIN hash \union {ends} |-> IF x = ends THEN np ELSE hash[x]]
        /\ \E o : of' = Append(of, o)
    BY <1>10 DEF NewPoint, n, k, e, ends
  <2>2. sol \in Seq(Sign) /\ Len(sol) \in Nat /\ DOMAIN sol = 1..Len(sol) /\ np \in Nat /\ np > 0
    BY <1>2 DEF Types
  <2> HIDE DEF np
  <2>3. /\ sol' \in Seq(Sign) /\ DOMAIN sol' = 1..np /\ sol'[np] = 0
        /\ \A p \in DOMAIN sol : p \in DOMAIN sol' /\ sol'[p] = sol[p]
    BY <2>1, <2>2 DEF Sign, np
  <2>4. IsTuple(of') /\ DOMAIN of' = DOMAIN sol'
    <3>1. PICK o : of' = Append(of, o)
      BY <2>1
    <3>2. IsTuple(of) /\ Len(of) = Len(sol)
      <4>1. IsTuple(of) /\ DOMAIN of = DOMAIN sol /\ DOMAIN of = 1..Len(of) /\ Len(of) \in Nat
        BY <1>2, TupleLen DEF Types
      <4> QED
        BY <2>2, <4>1
    <3>3. IsTuple(of') /\ Len(of') = np
      BY <3>1, <3>2, OneMore DEF np
    <3> QED
      BY <2>3, <3>3, TupleLen
  <2>5. /\ DOMAIN hash' = DOMAIN hash \union {ends} /\ hash'[ends] = np
        /\ \A x \in DOMAIN hash : x # ends => hash'[x] = hash[x]
    BY <2>1
  <2>6. Types'
    <3>1. \A t \in DOMAIN tetra : IsTetra(tetra[t], DOMAIN sol', DOMAIN mesh.tets)
      BY <1>2, <2>3 DEF Types, IsTetra
    <3>2. \A x \in DOMAIN hash' : hash'[x] \in DOMAIN sol' \union {-1}
      BY <1>2, <2>2, <2>3, <2>5 DEF Types
    <3>3. at' \in Nat /\ DOMAIN mesh.sol \subseteq DOMAIN sol'
      BY <1>2, <1>3, <1>5, <2>3 DEF Types
    <3> QED
      BY <1>2, <1>3, <2>1, <2>3, <2>4, <3>1, <3>2, <3>3 DEF Types
  <2>7. \A x : x \subseteq DOMAIN mesh.sol => (ChangesIn(sol', x) <=> ChangesIn(sol, x))
    BY <1>2, <2>3 DEF ChangesIn, Types
  <2>8. NoFlat(sol', mesh)
    <3> SUFFICES ASSUME NEW t \in DOMAIN mesh.tets PROVE ~FlatIn(sol', Corners(mesh, t))
      BY DEF NoFlat
    <3>1. PICK i \in Local : sol[Corners(mesh, t)[i]] # 0
      BY <1>2 DEF Pointing, NoFlat, FlatIn
    <3>2. Corners(mesh, t)[i] \in DOMAIN sol
      BY <1>1, <1>2, InputTets DEF Types
    <3> QED
      BY <2>3, <3>1, <3>2 DEF FlatIn
  <2>9. Points(hash', sol', mesh)
    <3>1. ASSUME NEW x \in DOMAIN hash, x # ends
          PROVE  /\ x \subseteq DOMAIN mesh.sol
                 /\ hash'[x] > 0 => ChangesIn(sol', x) /\ sol'[hash'[x]] = 0
      <4>1. x \subseteq DOMAIN mesh.sol /\ (hash[x] > 0 => ChangesIn(sol, x) /\ sol[hash[x]] = 0)
        BY <1>2 DEF Pointing, Points
      <4>2. hash[x] \in DOMAIN sol \union {-1}
        BY <1>2 DEF Types
      <4>3. hash'[x] = hash[x]
        BY <2>5, <3>1
      <4> QED
        BY <2>3, <2>7, <4>1, <4>2, <4>3
    <3>2. /\ ends \subseteq DOMAIN mesh.sol
          /\ hash'[ends] > 0 => ChangesIn(sol', ends) /\ sol'[hash'[ends]] = 0
      BY <1>8, <2>3, <2>5, <2>7
    <3> QED
      BY <2>5, <3>1, <3>2 DEF Points
  <2>10. ASSUME NEW t \in DOMAIN mesh.tets, NEW d \in Edge, 6 * (t - 1) + d < at'
         PROVE  Pointed(hash', sol', mesh, t, d)
    <3> DEFINE x == EndsIn(Corners(mesh, t), d)
               m == 6 * (t - 1) + d
    <3>1. x \subseteq DOMAIN mesh.sol
      BY <1>1, EndsType
    <3>2. x \in DOMAIN hash /\ hash[x] > 0 => x \in DOMAIN hash' /\ hash'[x] > 0
      BY <2>2, <2>5
    <3>3. ends \in DOMAIN hash' /\ hash'[ends] > 0
      BY <2>2, <2>5
    <3>4. m \in 0..(6 * ne - 1) /\ (m \div 6) + 1 = t /\ m % 6 = d
      BY <1>4, EdgeNumber
    <3>5. at \in Nat /\ n \in Nat
      BY <1>2, <1>5 DEF Types
    <3>6. m < at \/ (at <= m /\ m < n) \/ m = n
      BY <1>3, <2>10, <3>4, <3>5
    <3>7. CASE m < at
      <4>1. Pointed(hash, sol, mesh, t, d)
        BY <1>2, <3>7 DEF Pointing
      <4> QED
        BY <2>7, <3>1, <3>2, <4>1 DEF Pointed, HasPoint
    <3>8. CASE at <= m /\ m < n
      <4>1. m \notin ToPoint
        BY <1>5, <3>4, <3>5, <3>8
      <4>2. m \in at..(6 * ne - 1)
        BY <1>4, <3>4, <3>5, <3>8
      <4>3. ~Crossed(t, d)
        BY <3>4, <4>1, <4>2 DEF ToPoint
      <4>4. \A y \in DOMAIN hash : hash[y] \in Int
        BY <1>2, <2>2 DEF Types
      <4>5. Pointed(hash, sol, mesh, t, d)
        BY <1>2, <4>3, <4>4, NotCrossed DEF Pointing
      <4> QED
        BY <2>7, <3>1, <3>2, <4>5 DEF Pointed, HasPoint
    <3>9. CASE m = n
      <4>1. t = k /\ d = e
        BY <3>4, <3>9 DEF k, e
      <4>2. x = ends
        BY <1>8, <4>1
      <4> QED
        BY <3>3, <4>2 DEF Pointed, HasPoint
    <3> QED
      BY <3>6, <3>7, <3>8, <3>9
  <2>11. Pointing'
    BY <1>2, <1>3, <2>8, <2>9, <2>10 DEF Pointing
  <2> QED
    BY <1>2, <1>3, <2>1, <2>6, <2>11 DEF IInv
<1>11. mesh.npmax \in Nat /\ np \in Nat
  BY <1>1, <1>2 DEF MeshFacts, Types
<1> QED
  BY <1>9, <1>10, <1>11

(* All edges that change sign have a point.                                *)
LEMMA PointsEndIInv ==
  ASSUME IInv, PointsEnd
  PROVE  IInv'
<1>1. MeshFacts(mesh)
  BY MeshHolds
<1>2. /\ stage = "points" /\ Pointing /\ Types /\ left = {}
      /\ mesh \in {Analysed(m) : m \in Inputs}
  BY DEF IInv, PointsEnd
<1>3. /\ mesh' = mesh /\ tetra' = tetra /\ sol' = sol /\ snapped' = snapped /\ hash' = hash
      /\ of' = of /\ nc' = nc /\ base' = base /\ left' = left /\ ret' = ret
      /\ at' = 0 /\ stage' = "cut"
  BY DEF PointsEnd
<1>4. ne \in Nat /\ DOMAIN tetra = 1..ne /\ DOMAIN mesh.tets = 1..ne /\ Len(mesh.tets) = ne
  <2>1. ne \in Nat /\ DOMAIN tetra = 1..ne /\ DOMAIN mesh.tets = 1..ne
    BY <1>2, TupleLen DEF Types, ne, Pointing, AllWhole
  <2>2. Len(mesh.tets) \in Nat /\ DOMAIN mesh.tets = 1..Len(mesh.tets)
    BY <1>1, InputTets
  <2> QED
    BY <2>1, <2>2
<1>5. ASSUME NEW t \in DOMAIN mesh.tets, NEW d \in Edge PROVE Pointed(hash, sol, mesh, t, d)
  <2> DEFINE m == 6 * (t - 1) + d
  <2>1. m \in 0..(6 * ne - 1) /\ (m \div 6) + 1 = t /\ m % 6 = d
    BY <1>4, EdgeNumber
  <2>2. at \in Nat
    BY <1>2 DEF Types
  <2>3. CASE m < at
    BY <1>2, <2>3 DEF Pointing
  <2>4. CASE at <= m
    <3>1. m \in at..(6 * ne - 1)
      BY <1>4, <2>1, <2>2, <2>4
    <3>2. ~Crossed(t, d)
      BY <2>1, <3>1 DEF ToPoint, PointsEnd
    <3>3. \A y \in DOMAIN hash : hash[y] \in Int
      BY <1>2 DEF Types
    <3> QED
      BY <1>2, <3>2, <3>3, NotCrossed DEF Pointing
  <2> QED
    BY <2>1, <2>2, <2>3, <2>4
<1>6. Types'
  BY <1>2, <1>3 DEF Types
<1>7. Cutting'
  <2>1. \A k \in 1..Len(mesh.tets) : Whole(tetra[k], mesh, k)
    BY <1>2, <1>4 DEF Pointing, AllWhole
  <2>2. \A k \in DOMAIN tetra : ~(k <= 0 \/ k > Len(mesh.tets))
    BY <1>4
  <2>3. Len(mesh.tets) <= Len(tetra)
    BY <1>4 DEF ne
  <2> QED
    BY <1>2, <1>3, <1>5, <2>1, <2>2, <2>3 DEF Cutting, Pointing
<1> QED
  BY <1>2, <1>3, <1>6, <1>7 DEF IInv

-------------------------------------------------------------------------------
(* The signs at the vertices of a tetrahedron of the input.                *)
SignsOf(k) == [i \in Local |-> sol[Corners(mesh, k)[i]]]

(* Opposite signs.                                                         *)
LEMMA OpposedSigns == \A a, b \in Sign : a * b < 0 <=> Opposed(a, b)
BY DEF Sign, Opposed

(* What the flag of a tetrahedron that is not cut yet says: its points lie *)
(* on the surface, and if it is to be split they are on all the edges that *)
(* the surface cuts, and on no other.                                      *)
LEMMA FlagFacts ==
  ASSUME Types, Cutting, MeshFacts(mesh), NEW k \in DOMAIN mesh.tets, k > at
  PROVE  /\ Whole(tetra[k], mesh, k) /\ k \in DOMAIN tetra
         /\ tetra[k].ref = WasIn(mesh, k)
         /\ SignsOf(k) \in [Local -> Sign] /\ FlagOf(k) \in SUBSET Edge
         /\ \A e \in FlagOf(k) : Vx(k)[e] \in DOMAIN sol /\ sol[Vx(k)[e]] = 0
         /\ SplitIn(mesh, WasIn(mesh, k)) => CutBy(SignsOf(k), FlagOf(k))
<1> DEFINE s == SignsOf(k)
           c == Corners(mesh, k)
<1>1. /\ DOMAIN mesh.tets = 1..Len(mesh.tets) /\ Len(mesh.tets) \in Nat
      /\ DOMAIN tetra = 1..Len(tetra) /\ Len(tetra) \in Nat
  BY InputTets, TupleLen DEF Types
<1>2. Whole(tetra[k], mesh, k) /\ k \in DOMAIN tetra
  BY <1>1 DEF Cutting
<1>3. tetra[k].ref = WasIn(mesh, k)
  BY <1>2 DEF Cutting, OldRefs, Whole
<1>4. c \in [Local -> DOMAIN mesh.sol] /\ c \in [Local -> DOMAIN sol]
  BY InputTets DEF Types
<1>5. \A p \in DOMAIN sol : sol[p] \in Sign
  BY DEF Types
<1>6. s \in [Local -> Sign] /\ \A i \in Local : s[i] = sol[c[i]]
  BY <1>4, <1>5 DEF SignsOf
<1>7. FlagOf(k) \in SUBSET Edge
  BY DEF FlagOf
<1>8. \A e \in Edge : Vx(k)[e] = HashGet(EndsIn(c, e))
  BY <1>2, WholeEnds DEF Vx
<1>9. \A e \in Edge : e \in FlagOf(k) <=> HasPoint(hash, EndsIn(c, e))
  BY <1>8 DEF FlagOf, HashGet, HasPoint
<1>10. ASSUME NEW e \in FlagOf(k)
       PROVE  Vx(k)[e] \in DOMAIN sol /\ sol[Vx(k)[e]] = 0 /\ ChangesIn(sol, EndsIn(c, e))
  <2> DEFINE ends == EndsIn(c, e)
  <2>1. e \in Edge /\ ends \in DOMAIN hash /\ hash[ends] > 0
    BY <1>7, <1>9 DEF HasPoint
  <2>2. Vx(k)[e] = hash[ends]
    BY <1>8, <2>1 DEF HashGet
  <2> HIDE DEF ends
  <2>3. hash[ends] \in DOMAIN sol
    BY <2>1 DEF Types
  <2>4. ChangesIn(sol, ends) /\ sol[hash[ends]] = 0
    BY <2>1 DEF Cutting, Points
  <2> QED
    BY <2>2, <2>3, <2>4 DEF ends
<1>11. ASSUME NEW e \in Edge
       PROVE  ChangesIn(sol, EndsIn(c, e)) <=> \E i, j \in iare[e] : Opposed(s[i], s[j])
  <2>1. iare[e] \subseteq Local
    BY EdgeOf
  <2>2. ChangesIn(sol, EndsIn(c, e)) <=> \E i, j \in iare[e] : sol[c[i]] * sol[c[j]] < 0
    BY DEF ChangesIn, EndsIn
  <2>3. \A i, j \in iare[e] : sol[c[i]] * sol[c[j]] < 0 <=> Opposed(s[i], s[j])
    <3> TAKE i, j \in iare[e]
    <3>1. s[i] = sol[c[i]] /\ s[j] = sol[c[j]] /\ s[i] \in Sign /\ s[j] \in Sign
      BY <1>6, <2>1
    <3> HIDE DEF s, c
    <3> QED
      BY <3>1, OpposedSigns
  <2> HIDE DEF s, c
  <2> QED
    BY <2>2, <2>3
<1>12. ASSUME SplitIn(mesh, WasIn(mesh, k)) PROVE CutBy(s, FlagOf(k))
  <2>1. \A e \in Edge : e \in FlagOf(k) <=> ChangesIn(sol, EndsIn(c, e))
    <3> TAKE e \in Edge
    <3>1. ChangesIn(sol, EndsIn(c, e)) => HasPoint(hash, EndsIn(c, e))
      BY <1>12 DEF Cutting, Pointed
    <3> QED
      BY <1>9, <1>10, <3>1
  <2> HIDE DEF s, c
  <2> QED
    BY <1>11, <2>1 DEF CutBy
<1> QED
  BY <1>2, <1>3, <1>6, <1>7, <1>10, <1>12

(* Without a point such a tetrahedron lies on one side.                    *)
LEMMA SkippedOneSided ==
  ASSUME Types, Cutting, MeshFacts(mesh), NEW k \in DOMAIN mesh.tets, k > at,
         FlagOf(k) = {}, SplitIn(mesh, tetra[k].ref)
  PROVE  OneSided(sol, tetra[k].v)
<1> DEFINE s == SignsOf(k)
           c == Corners(mesh, k)
<1>1. /\ tetra[k].v = c /\ s \in [Local -> Sign] /\ CutBy(s, {})
  BY FlagFacts DEF Whole
<1>2. c \in [Local -> DOMAIN sol] /\ \A p \in DOMAIN sol : sol[p] \in Sign
  BY InputTets DEF Types
<1>3. ~FlatIn(sol, c)
  BY DEF Cutting, NoFlat
<1>4. \A i \in Local : s[i] = sol[c[i]]
  BY DEF SignsOf
<1>5. \A e \in Edge : ~ChangesIn(sol, EndsIn(c, e))
  <2> TAKE e \in Edge
  <2>1. iare[e] \subseteq Local
    BY EdgeOf
  <2>2. \A i, j \in iare[e] : ~Opposed(s[i], s[j])
    BY <1>1 DEF CutBy
  <2>3. \A i, j \in iare[e] : ~(sol[c[i]] * sol[c[j]] < 0)
    <3> TAKE i, j \in iare[e]
    <3>1. s[i] = sol[c[i]] /\ s[j] = sol[c[j]] /\ s[i] \in Sign /\ s[j] \in Sign
      BY <1>1, <1>4, <2>1
    <3> HIDE DEF s, c
    <3> QED
      BY <2>2, <3>1, OpposedSigns
  <2> HIDE DEF c
  <2> QED
    BY <2>3 DEF ChangesIn, EndsIn
<1> HIDE DEF c
<1>6. OneSided(sol, c)
  BY <1>2, <1>3, <1>5, UncutOneSided
<1> QED
  BY <1>1, <1>6

(* The pieces of a tetrahedron: their vertices exist, and if it is to be   *)
(* split each of them lies on one side.                                    *)
LEMMA PieceFacts ==
  ASSUME Types, Cutting, MeshFacts(mesh), NEW k \in DOMAIN mesh.tets, k > at, FlagOf(k) # {}
  PROVE  LET ps == Split(Bits(FlagOf(k)), tetra[k].v)
         IN /\ IsTuple(ps) /\ Len(ps) >= 2
            /\ \A i \in DOMAIN ps : Global(k, ps[i].v) \in [Local -> DOMAIN sol]
            /\ SplitIn(mesh, tetra[k].ref) =>
                   \A i \in DOMAIN ps : OneSided(sol, Global(k, ps[i].v))
<1> DEFINE F == FlagOf(k)
           v == tetra[k].v
           ps == Split(Bits(F), v)
           s == SignsOf(k)
<1>1. /\ Whole(tetra[k], mesh, k) /\ tetra[k].ref = WasIn(mesh, k)
      /\ s \in [Local -> Sign] /\ F \in SUBSET Edge
      /\ \A e \in F : Vx(k)[e] \in DOMAIN sol /\ sol[Vx(k)[e]] = 0
      /\ SplitIn(mesh, WasIn(mesh, k)) => CutBy(s, F)
  BY FlagFacts
<1>2. F # {}
  OBVIOUS
<1>3. v \in [Local -> DOMAIN sol] /\ \A i \in Local : s[i] = sol[v[i]]
  BY <1>1, InputTets DEF Whole, SignsOf, Types
<1>4. SplitIn(mesh, tetra[k].ref) => CutBy(s, F)
  BY <1>1
<1> HIDE DEF F, v, s
<1>5. /\ \E n \in Nat : n >= 2 /\ DOMAIN ps = 1..n
      /\ \A i \in DOMAIN ps : ps[i].v \in [Local -> Local \union {m0 + e : e \in F}]
  BY <1>1, <1>2, SplitUses
<1>6. IsTuple(ps) /\ Len(ps) >= 2
  <2>1. PICK n \in Nat : n >= 2 /\ DOMAIN ps = 1..n
    BY <1>5
  <2>2. ps = [i \in DOMAIN ps |-> ps[i]]
    BY DEF Split
  <2> HIDE DEF ps
  <2> QED
    BY <2>1, <2>2, FunctionIsTuple
<1>7. ASSUME NEW i \in DOMAIN ps
      PROVE  /\ Global(k, ps[i].v) \in [Local -> DOMAIN sol]
             /\ \A a \in Local : sol[Global(k, ps[i].v)[a]] = Value(s, ps[i].v[a])
  <2> DEFINE u == ps[i].v
             g == Global(k, u)
  <2>1. u \in [Local -> Local \union {m0 + e : e \in F}]
    BY <1>5
  <2> HIDE DEF u
  <2>2. g = [a \in Local |-> IF u[a] < m0 THEN v[u[a]] ELSE Vx(k)[u[a] - m0]]
    BY DEF Global, v
  <2> HIDE DEF g
  <2>3. ASSUME NEW a \in Local PROVE g[a] \in DOMAIN sol /\ sol[g[a]] = Value(s, u[a])
    <3>1. CASE u[a] \in Local
      <4>1. u[a] < m0
        BY <3>1 DEF Local, m0
      <4>2. g[a] = v[u[a]] /\ Value(s, u[a]) = s[u[a]]
        BY <2>2, <4>1 DEF Value
      <4> QED
        BY <1>3, <3>1, <4>2
    <3>2. ASSUME NEW e \in F, u[a] = m0 + e PROVE g[a] \in DOMAIN sol /\ sol[g[a]] = Value(s, u[a])
      <4>1. ~(u[a] < m0) /\ u[a] - m0 = e
        BY <1>1, <3>2 DEF Edge, m0
      <4>2. g[a] = Vx(k)[e] /\ Value(s, u[a]) = 0
        BY <2>2, <4>1 DEF Value
      <4> QED
        BY <1>1, <4>2
    <3> QED
      BY <2>1, <3>1, <3>2
  <2>4. g \in [Local -> DOMAIN sol]
    BY <2>2, <2>3
  <2> QED
    BY <2>3, <2>4 DEF g, u
<1>8. ASSUME SplitIn(mesh, tetra[k].ref), NEW i \in DOMAIN ps
      PROVE  OneSided(sol, Global(k, ps[i].v))
  <2> DEFINE u == ps[i].v
             g == Global(k, u)
  <2>1. Within(s, u, Local)
    BY <1>1, <1>2, <1>4, <1>8, SplitOneSide
  <2>2. \A a \in Local : sol[g[a]] = Value(s, u[a])
    BY <1>7
  <2> HIDE DEF u, g
  <2>3. OneSided(sol, g)
    BY <2>1, <2>2 DEF Within, OneSided, On
  <2> QED
    BY <2>3 DEF u, g
<1> QED
  BY <1>6, <1>7, <1>8 DEF ps, F, v

-------------------------------------------------------------------------------
(* A tetrahedron with other vertices.                                      *)
LEMMA OtherVertices ==
  ASSUME NEW t, NEW D, NEW E, IsTetra(t, D, E), NEW w \in [Local -> D]
  PROVE  LET u == [t EXCEPT !.v = w]
         IN IsTetra(u, D, E) /\ u.v = w /\ u.from = t.from /\ u.ref = t.ref
<1> DEFINE v == t.v
           from == t.from
           ref == t.ref
<1>1. t = [v |-> v, ref |-> ref, from |-> from] /\ from \in E
  BY DEF IsTetra
<1>2. [t EXCEPT !.v = w] = [v |-> w, ref |-> ref, from |-> from]
  <2> HIDE DEF v, from, ref
  <2> QED
    BY <1>1
<1> HIDE DEF v, from, ref
<1> QED
  BY <1>1, <1>2 DEF IsTetra, from, ref

(* A tetrahedron is cut.                                                   *)
LEMMA CutIInv ==
  ASSUME IInv, Cut
  PROVE  IInv'
<1> DEFINE k == Min(ToCut)
           f == Bits(FlagOf(k))
           nt == Len(mesh.tets)
           D == DOMAIN sol
           E == DOMAIN mesh.tets
<1>1. MeshFacts(mesh)
  BY MeshHolds
<1>2. /\ stage = "cut" /\ Cutting /\ Types /\ at \in Nat
      /\ \A t \in left : ~SplitIn(mesh, WasIn(mesh, t))
      /\ mesh \in {Analysed(m) : m \in Inputs}
  BY DEF IInv, Cut, Types
<1>3. /\ mesh' = mesh /\ sol' = sol /\ snapped' = snapped /\ hash' = hash
      /\ of' = of /\ nc' = nc /\ base' = base /\ at' = k
  BY DEF Cut
<1>4. /\ ne \in Nat /\ DOMAIN tetra = 1..ne /\ IsTuple(tetra)
      /\ nt \in Nat /\ DOMAIN mesh.tets = 1..nt /\ nt <= ne
      /\ \A t \in DOMAIN tetra : IsTetra(tetra[t], D, E)
  BY <1>1, <1>2, TupleLen, InputTets DEF Types, ne, Cutting
<1>5. /\ ToCut # {} /\ ToCut \in SUBSET Nat
      /\ \A y : y \in ToCut <=> y \in 1..nt /\ y > at /\ FlagOf(y) # {}
  <2>1. ToCut = {t \in (at + 1)..nt : FlagOf(t) # {}} /\ ToCut # {}
    BY DEF Cut, ToCut
  <2>2. nt \in Nat /\ at \in Nat
    BY <1>2, <1>4
  <2> HIDE DEF nt, k, f, D, E
  <2>3. \A y : y \in (at + 1)..nt <=> y \in 1..nt /\ y > at
    BY <2>2
  <2>4. \A y : y \in ToCut <=> y \in 1..nt /\ y > at /\ FlagOf(y) # {}
    BY <2>1, <2>3
  <2> QED
    BY <2>1, <2>4
<1>6. k \in 1..nt /\ k > at /\ FlagOf(k) # {} /\ \A y \in ToCut : k <= y
  <2>1. k \in ToCut /\ \A y \in ToCut : k <= y
    BY <1>5, MinOf
  <2> HIDE DEF k, nt
  <2> QED
    BY <1>5, <2>1
<1>7. ASSUME NEW t \in 1..nt, t > at, t < k, SplitIn(mesh, tetra[t].ref)
      PROVE  OneSided(sol, tetra[t].v)
  <2>1. FlagOf(t) = {}
    <3>1. ~(k <= t)
      BY <1>4, <1>6, <1>7
    <3> HIDE DEF k, nt, D, E
    <3>2. t \notin ToCut
      BY <1>6, <3>1
    <3> QED
      BY <1>5, <1>7, <3>2
  <2> QED
    BY <1>1, <1>2, <1>4, <1>7, <2>1, SkippedOneSided
<1> HIDE DEF k
<1>8. /\ Whole(tetra[k], mesh, k) /\ tetra[k].ref = WasIn(mesh, k)
      /\ SignsOf(k) \in [Local -> Sign] /\ FlagOf(k) \in SUBSET Edge
      /\ SplitIn(mesh, WasIn(mesh, k)) => CutBy(SignsOf(k), FlagOf(k))
  BY <1>1, <1>2, <1>4, <1>6, FlagFacts
<1>9. CASE f \notin Families /\ left' = left \union {k} /\ tetra' = tetra /\ stage' = stage /\ ret' = ret
  <2>1. ~SplitIn(mesh, WasIn(mesh, k))
    <3>1. SUFFICES ASSUME CutBy(SignsOf(k), FlagOf(k)) PROVE FALSE
      BY <1>8
    <3>2. CutAt(SignsOf(k), FlagOf(k))
      BY <1>8, <3>1, CutEdges
    <3> QED
      BY <1>6, <1>8, <1>9, <3>2, FourFamilies DEF Families
  <2>2. Types'
    <3>1. at' \in Nat /\ left' \subseteq DOMAIN mesh.tets
      BY <1>2, <1>3, <1>4, <1>6, <1>9 DEF Types
    <3> QED
      BY <1>2, <1>3, <1>9, <3>1 DEF Types
  <2>3. \A t \in 1..nt : t > k => Whole(tetra[t], mesh, t)
    BY <1>2, <1>4, <1>6 DEF Cutting
  <2>4. ASSUME NEW t \in DOMAIN tetra, t <= k \/ t > nt, SplitIn(mesh, tetra[t].ref)
        PROVE  OneSided(sol, tetra[t].v)
    <3>1. t # k
      BY <1>8, <2>1, <2>4
    <3>2. CASE t <= at \/ t > nt
      BY <1>2, <2>4, <3>2 DEF Cutting
    <3>3. CASE t > at /\ t < k
      BY <1>4, <1>6, <1>7, <2>4, <3>3
    <3> QED
      BY <1>2, <1>4, <1>6, <2>4, <3>1, <3>2, <3>3
  <2>5. \A t \in left' : t <= k /\ tetra[t].from = t
    <3>1. \A t \in left : t \in Nat /\ t <= at /\ tetra[t].from = t
      BY <1>2, <1>4 DEF Cutting, Types
    <3> QED
      BY <1>2, <1>6, <1>8, <1>9, <3>1 DEF Whole
  <2>6. Cutting'
    BY <1>2, <1>3, <1>9, <2>3, <2>4, <2>5 DEF Cutting
  <2>7. \A t \in left' : ~SplitIn(mesh, WasIn(mesh, t))
    BY <1>2, <1>9, <2>1
  <2> QED
    BY <1>2, <1>3, <1>9, <2>2, <2>6, <2>7 DEF IInv
<1> DEFINE ps == Split(f, tetra[k].v)
           n == Len(ps) - 1
           piece(i) == [tetra[k] EXCEPT !.v = Global(k, ps[i].v)]
           more == [i \in 1..n |-> piece(i + 1)]
<1>10. /\ IsTuple(ps) /\ Len(ps) >= 2
       /\ \A i \in DOMAIN ps : Global(k, ps[i].v) \in [Local -> D]
       /\ SplitIn(mesh, tetra[k].ref) => \A i \in DOMAIN ps : OneSided(sol, Global(k, ps[i].v))
  BY <1>1, <1>2, <1>4, <1>6, PieceFacts
<1>11. n \in Nat /\ n >= 1 /\ DOMAIN ps = 1..(n + 1)
  BY <1>10, TupleLen
<1>12. \A i \in 1..(n + 1) :
          /\ IsTetra(piece(i), D, E) /\ piece(i).from = k /\ piece(i).ref = tetra[k].ref
          /\ SplitIn(mesh, tetra[k].ref) => OneSided(sol, piece(i).v)
  <2> TAKE i \in 1..(n + 1)
  <2> DEFINE g == Global(k, ps[i].v)
  <2>1. i \in DOMAIN ps
    BY <1>11
  <2>2. g \in [Local -> D] /\ (SplitIn(mesh, tetra[k].ref) => OneSided(sol, g))
    BY <1>10, <2>1
  <2>3. piece(i) = [tetra[k] EXCEPT !.v = g]
    OBVIOUS
  <2>4. IsTetra(tetra[k], D, E) /\ tetra[k].from = k
    BY <1>4, <1>6, <1>8 DEF Whole
  <2> HIDE DEF g, piece, D, E
  <2>5. IsTetra(piece(i), D, E) /\ piece(i).v = g /\ piece(i).from = k /\ piece(i).ref = tetra[k].ref
    BY <2>2, <2>3, <2>4, OtherVertices
  <2> QED
    BY <2>2, <2>5
<1>13. CASE /\ left' = left /\ ne + n <= mesh.nemax /\ stage' = stage /\ ret' = ret
            /\ tetra' = [tetra EXCEPT ![k] = piece(1)] \o more
  <2> DEFINE first == [tetra EXCEPT ![k] = piece(1)]
  <2> HIDE DEF piece, D, E
  <2>1. IsTuple(first) /\ Len(first) = ne /\ first[k] = piece(1)
        /\ \A t \in 1..ne : t # k => first[t] = tetra[t]
    <3>1. DOMAIN first = 1..ne /\ first = [t \in 1..ne |-> first[t]]
      BY <1>4
    <3>2. first[k] = piece(1) /\ \A t \in 1..ne : t # k => first[t] = tetra[t]
      BY <1>4, <1>6
    <3> HIDE DEF first
    <3> QED
      BY <1>4, <3>1, <3>2, FunctionIsTuple
  <2> HIDE DEF n
  <2>2. IsTuple(more) /\ Len(more) = n /\ \A i \in 1..n : more[i] = piece(i + 1)
    <3>1. more = [i \in 1..n |-> more[i]] /\ \A i \in 1..n : more[i] = piece(i + 1)
      OBVIOUS
    <3> HIDE DEF more
    <3> QED
      BY <1>11, <3>1, FunctionIsTuple
  <2>3. tetra' = first \o more
    BY <1>13
  <2> HIDE DEF first, more
  <2>4. /\ IsTuple(tetra') /\ Len(tetra') = ne + n
        /\ \A t \in 1..ne : tetra'[t] = first[t]
        /\ \A i \in 1..n : tetra'[ne + i] = more[i]
        /\ \A t \in DOMAIN tetra' : t \in 1..ne \/ t - ne \in 1..n
    <3>1. /\ IsTuple(tetra') /\ Len(tetra') = Len(first) + Len(more)
          /\ \A t \in 1..Len(first) : tetra'[t] = first[t]
          /\ \A i \in 1..Len(more) : tetra'[Len(first) + i] = more[i]
          /\ \A t \in DOMAIN tetra' : t \in 1..Len(first) \/ t - Len(first) \in 1..Len(more)
      <4>1. IsTuple(first) /\ IsTuple(more)
        BY <2>1, <2>2
      <4> DEFINE both == first \o more
      <4>2. /\ IsTuple(both) /\ Len(both) = Len(first) + Len(more)
            /\ \A t \in 1..Len(first) : both[t] = first[t]
            /\ \A i \in 1..Len(more) : both[Len(first) + i] = more[i]
            /\ \A t \in DOMAIN both : t \in 1..Len(first) \/ t - Len(first) \in 1..Len(more)
        BY <4>1, TwoTuples
      <4>3. tetra' = both
        BY <2>3
      <4> HIDE DEF both
      <4> QED
        BY <4>2, <4>3
    <3>2. Len(first) = ne /\ Len(more) = n
      BY <2>1, <2>2
    <3> HIDE DEF nt, D, E
    <3> QED
      BY <3>1, <3>2
  <2>5. DOMAIN tetra' = 1..(ne + n)
    BY <2>4, TupleLen
  <2>6. \A t \in DOMAIN tetra' : \/ t \in 1..ne /\ t # k /\ tetra'[t] = tetra[t]
                                 \/ \E i \in 1..(n + 1) : tetra'[t] = piece(i)
    <3> TAKE t \in DOMAIN tetra'
    <3>1. CASE t \in 1..ne /\ t # k
      BY <2>1, <2>4, <3>1
    <3>2. CASE t \in 1..ne /\ t = k
      BY <1>11, <2>1, <2>4, <3>2
    <3>3. CASE t - ne \in 1..n
      <4>1. t \in Int
        BY <2>5
      <4>2. t = ne + (t - ne) /\ (t - ne) + 1 \in 1..(n + 1)
        BY <1>4, <1>11, <3>3, <4>1
      <4>3. tetra'[t] = piece((t - ne) + 1)
        BY <2>2, <2>4, <3>3, <4>2
      <4> QED
        BY <4>2, <4>3
    <3> QED
      BY <2>4, <3>1, <3>2, <3>3
  <2>7. \A t \in DOMAIN tetra' : IsTetra(tetra'[t], D, E)
    BY <1>4, <1>12, <2>6
  <2>8. Types'
    <3>1. at' \in Nat
      BY <1>3, <1>6
    <3> QED
      BY <1>2, <1>3, <1>13, <2>4, <2>7, <3>1 DEF Types, D, E
  <2>9. \A t \in 1..nt : t > k => Whole(tetra'[t], mesh, t)
    <3> TAKE t \in 1..nt
    <3>1. t > k => t > at /\ t \in 1..ne /\ t # k
      BY <1>2, <1>4, <1>6
    <3>2. t > k => Whole(tetra[t], mesh, t)
      BY <1>2, <3>1 DEF Cutting
    <3> QED
      BY <2>1, <2>4, <3>1, <3>2
  <2>10. OldRefs(tetra', mesh)
    <3>1. \A t \in DOMAIN tetra' : tetra'[t].ref = WasIn(mesh, tetra'[t].from)
      <4>1. \A t \in 1..ne : tetra[t].ref = WasIn(mesh, tetra[t].from)
        BY <1>2, <1>4 DEF Cutting, OldRefs
      <4> QED
        BY <1>8, <1>12, <2>6, <4>1
    <3> QED
      BY <3>1 DEF OldRefs
  <2>11. ASSUME NEW t \in DOMAIN tetra', t <= k \/ t > nt, SplitIn(mesh, tetra'[t].ref)
         PROVE  OneSided(sol, tetra'[t].v)
    <3>1. CASE \E i \in 1..(n + 1) : tetra'[t] = piece(i)
      BY <1>12, <2>11, <3>1
    <3>2. CASE t \in 1..ne /\ t # k /\ tetra'[t] = tetra[t]
      <4>1. CASE t <= at \/ t > nt
        <5>1. SplitIn(mesh, tetra[t].ref) /\ t \in DOMAIN tetra
          BY <1>4, <2>11, <3>2
        <5>2. OneSided(sol, tetra[t].v)
          BY <1>2, <4>1, <5>1 DEF Cutting
        <5> QED
          BY <3>2, <5>2
      <4>2. CASE t > at /\ t < k
        BY <1>4, <1>6, <1>7, <2>11, <3>2, <4>2
      <4> QED
        BY <1>2, <1>6, <2>11, <3>2, <4>1, <4>2
    <3> QED
      BY <2>6, <3>1, <3>2
  <2>12. \A t \in left' : t <= k /\ tetra'[t].from = t
    <3> TAKE t \in left'
    <3>1. t \in 1..nt /\ t <= at /\ tetra[t].from = t
      BY <1>2, <1>4, <1>13 DEF Cutting, Types
    <3>2. t \in 1..ne /\ t # k /\ t <= k
      BY <1>2, <1>4, <1>6, <3>1
    <3> QED
      BY <2>1, <2>4, <3>1, <3>2
  <2>13. Cutting'
    <3>1. nt <= Len(tetra')
      BY <1>4, <1>11, <2>4
    <3> QED
      BY <1>2, <1>3, <1>13, <2>9, <2>10, <2>11, <2>12, <3>1 DEF Cutting
  <2> QED
    BY <1>2, <1>3, <1>13, <2>8, <2>13 DEF IInv
<1>14. CASE /\ left' = left /\ stage' = "done" /\ ret' = "failed"
            /\ tetra' = tetra \o [i \in 1..(mesh.nemax - ne) |-> tetra[k]]
  <2> DEFINE m == IF mesh.nemax >= ne THEN mesh.nemax - ne ELSE 0
             copies == [i \in 1..m |-> tetra[k]]
  <2> HIDE DEF piece, D, E
  <2>1. m \in Nat /\ 1..m = 1..(mesh.nemax - ne)
    BY <1>1, <1>4 DEF MeshFacts
  <2>2. tetra' = tetra \o copies
    BY <1>14, <2>1
  <2> HIDE DEF m
  <2>3. IsTuple(copies) /\ Len(copies) = m /\ \A i \in 1..m : copies[i] = tetra[k]
    <3>1. copies = [i \in 1..m |-> copies[i]] /\ \A i \in 1..m : copies[i] = tetra[k]
      OBVIOUS
    <3> HIDE DEF copies
    <3> QED
      BY <2>1, <3>1, FunctionIsTuple
  <2> HIDE DEF copies
  <2>4. /\ IsTuple(tetra')
        /\ \A t \in 1..Len(tetra) : tetra'[t] = tetra[t]
        /\ \A i \in 1..Len(copies) : tetra'[Len(tetra) + i] = copies[i]
        /\ \A t \in DOMAIN tetra' : t \in 1..Len(tetra) \/ t - Len(tetra) \in 1..Len(copies)
    BY <1>4, <2>2, <2>3, TwoTuples
  <2>5. DOMAIN tetra' = 1..Len(tetra')
    BY <2>4, TupleLen
  <2>6. \A t \in DOMAIN tetra' : IsTetra(tetra'[t], D, E)
    <3> TAKE t \in DOMAIN tetra'
    <3>1. CASE t \in 1..ne
      BY <1>4, <2>4, <3>1 DEF ne
    <3>2. CASE t - ne \in 1..m
      <4>1. t = ne + (t - ne)
        BY <1>4, <2>5
      <4>2. tetra'[t] = tetra[k]
        BY <2>3, <2>4, <3>2, <4>1 DEF ne
      <4> QED
        BY <1>4, <1>6, <4>2
    <3> QED
      BY <2>3, <2>4, <3>1, <3>2 DEF ne
  <2>7. Types'
    <3>1. at' \in Nat
      BY <1>3, <1>6
    <3> QED
      BY <1>2, <1>3, <1>14, <2>4, <2>6, <3>1 DEF Types, D, E
  <2> QED
    BY <1>2, <1>3, <1>14, <2>7 DEF IInv, Done
<1> QED
  <2>1. \/ f \notin Families /\ left' = left \union {k} /\ tetra' = tetra /\ stage' = stage /\ ret' = ret
        \/ /\ left' = left /\ ne + n <= mesh.nemax /\ stage' = stage /\ ret' = ret
           /\ tetra' = [tetra EXCEPT ![k] = piece(1)] \o more
        \/ /\ left' = left /\ stage' = "done" /\ ret' = "failed"
           /\ tetra' = tetra \o [i \in 1..(mesh.nemax - ne) |-> tetra[k]]
    BY DEF Cut, k
  <2> QED
    BY <1>9, <1>13, <1>14, <2>1

(* All tetrahedra with a point have been cut.                              *)
LEMMA CutEndIInv ==
  ASSUME IInv, CutEnd
  PROVE  IInv'
<1> DEFINE nt == Len(mesh.tets)
<1>1. MeshFacts(mesh)
  BY MeshHolds
<1>2. /\ stage = "cut" /\ Cutting /\ Types /\ at \in Nat
      /\ \A t \in left : ~SplitIn(mesh, WasIn(mesh, t))
      /\ mesh \in {Analysed(m) : m \in Inputs}
  BY DEF IInv, CutEnd, Types
<1>3. /\ mesh' = mesh /\ sol' = sol /\ snapped' = snapped /\ hash' = hash /\ left' = left
      /\ of' = of /\ nc' = nc /\ base' = base /\ at' = at /\ stage' = "done"
  BY DEF CutEnd
<1>4. /\ DOMAIN tetra = 1..ne /\ ne \in Nat
      /\ nt \in Nat /\ DOMAIN mesh.tets = 1..nt /\ nt <= ne
  BY <1>1, <1>2, TupleLen, InputTets DEF Types, ne, Cutting
<1>5. CASE ne = nt
  <2>1. ret' = "failed" /\ tetra' = tetra
    BY <1>5 DEF CutEnd
  <2>2. Types'
    BY <1>2, <1>3, <2>1 DEF Types
  <2> QED
    BY <1>2, <1>3, <2>1, <2>2 DEF IInv, Done
<1>6. CASE ne # nt
  <2>1. tetra' = SetRef(tetra) /\ ret' = ret
    BY <1>6 DEF CutEnd
  <2>2. ASSUME NEW k \in DOMAIN tetra, SplitIn(mesh, tetra[k].ref) PROVE OneSided(sol, tetra[k].v)
    <3>1. CASE k <= at \/ k > nt
      BY <1>2, <2>2, <3>1 DEF Cutting
    <3>2. CASE k > at /\ k <= nt
      <4>1. k \in DOMAIN mesh.tets /\ k > at
        BY <1>4, <3>2
      <4>2. FlagOf(k) = {}
        BY <1>2, <1>4, <4>1 DEF CutEnd, ToCut
      <4> QED
        BY <1>1, <1>2, <2>2, <4>1, <4>2, SkippedOneSided
    <3> QED
      BY <1>2, <1>4, <3>1, <3>2
  <2>3. /\ IsTuple(tetra') /\ DOMAIN tetra' = DOMAIN tetra
        /\ \A k \in DOMAIN tetra' : /\ IsTetra(tetra'[k], DOMAIN sol, DOMAIN mesh.tets)
                                    /\ ~SplitIn(mesh, tetra[k].ref) => tetra'[k] = tetra[k]
        /\ Sides(tetra', sol, mesh)
    BY <1>1, <1>2, <2>1, <2>2, SetRefSides DEF Cutting
  <2>4. Types'
    BY <1>2, <1>3, <2>1, <2>3 DEF Types
  <2>5. \A k \in left : k \in DOMAIN tetra /\ ~SplitIn(mesh, tetra'[k].ref)
    <3> TAKE k \in left
    <3>1. k \in DOMAIN tetra /\ tetra[k].from = k
      BY <1>2, <1>4 DEF Cutting, Types
    <3>2. tetra[k].ref = WasIn(mesh, k)
      BY <1>2, <3>1 DEF Cutting, OldRefs
    <3> QED
      BY <1>2, <2>3, <3>1, <3>2
  <2>6. Done'
    BY <1>2, <1>3, <2>3, <2>5 DEF Done
  <2> QED
    BY <1>2, <1>3, <2>1, <2>4, <2>6 DEF IInv
<1> QED
  BY <1>5, <1>6

-------------------------------------------------------------------------------
(* Nothing changes.                                                        *)
LEMMA StutterIInv ==
  ASSUME IInv, UNCHANGED vars
  PROVE  IInv'
<1>1. /\ mesh' = mesh /\ tetra' = tetra /\ sol' = sol /\ snapped' = snapped /\ hash' = hash
      /\ of' = of /\ stage' = stage /\ at' = at /\ nc' = nc /\ base' = base /\ left' = left
      /\ ret' = ret
  BY DEF vars
<1>2. Types' <=> Types
  BY <1>1 DEF Types
<1>3. Snapping' <=> Snapping
  BY <1>1 DEF Snapping
<1>4. Removing' <=> Removing
  BY <1>1 DEF Removing
<1>5. Pointing' <=> Pointing
  BY <1>1 DEF Pointing
<1>6. Cutting' <=> Cutting
  BY <1>1 DEF Cutting
<1>7. Done' <=> Done
  BY <1>1 DEF Done
<1> QED
  BY <1>1, <1>2, <1>3, <1>4, <1>5, <1>6, <1>7 DEF IInv

(* The invariant holds in every state of every discretisation.             *)
THEOREM LevelSetInvariant == Spec => []IInv
<1>1. Init => IInv
  BY InitIInv
<1>2. ASSUME IInv, [Next]_vars PROVE IInv'
  <2>1. CASE UNCHANGED vars
    BY <1>2, <2>1, StutterIInv
  <2>2. CASE Correct
    BY <1>2, <2>2, CorrectIInv
  <2>3. CASE SweepEnd
    BY <1>2, <2>3, SweepEndIInv
  <2>4. CASE Rmc
    BY <1>2, <2>4, RmcIInv
  <2>5. CASE RmcEnd
    BY <1>2, <2>5, RmcEndIInv
  <2>6. CASE StartCut
    BY <1>2, <2>6, StartCutIInv
  <2>7. CASE NewPoint
    BY <1>2, <2>7, NewPointIInv
  <2>8. CASE PointsEnd
    BY <1>2, <2>8, PointsEndIInv
  <2>9. CASE Cut
    BY <1>2, <2>9, CutIInv
  <2>10. CASE CutEnd
    BY <1>2, <2>10, CutEndIInv
  <2> QED
    BY <1>2, <2>1, <2>2, <2>3, <2>4, <2>5, <2>6, <2>7, <2>8, <2>9, <2>10 DEF Next
<1> QED
  BY <1>1, <1>2, PTL DEF Spec

(* Types: every vertex of every tetrahedron exists, the table of edges     *)
(* holds points or -1 (the arrays that MMG3D_mmg3d2 reads and fills).      *)
THEOREM LevelSetTypes == Spec => []TypeOK
<1>1. IInv => TypeOK
  <2> SUFFICES ASSUME IInv PROVE TypeOK
    OBVIOUS
  <2>1. Types
    BY DEF IInv
  <2>2. \A k \in DOMAIN tetra : /\ tetra[k].v \in [Local -> DOMAIN sol]
                                /\ tetra[k].from \in DOMAIN mesh.tets
    BY <2>1 DEF Types, IsTetra
  <2>3. Range(hash) \subseteq DOMAIN sol \union {-1}
    BY <2>1 DEF Types, Range
  <2> QED
    BY <2>1, <2>2, <2>3 DEF TypeOK, Types, Sign
<1> QED
  BY <1>1, LevelSetInvariant, PTL

(* SidesApart: whatever the mesh, the level set, the materials and the     *)
(* references of an earlier discretisation, no tetrahedron that was to be  *)
(* split lies on both sides or within the surface, and each has the        *)
(* reference of its side; the others keep theirs.                          *)
THEOREM LevelSetSidesApart == Spec => []SidesApart
<1>1. IInv => SidesApart
  <2> SUFFICES ASSUME IInv, Discretised, NEW k \in DOMAIN tetra
               PROVE  LET signs  == {sol[p] : p \in Range(tetra[k].v)}
                          parent == getStartRef(mesh.refs[tetra[k].from])
                      IN IF ~isSplit(parent) THEN tetra[k].ref = parent
                         ELSE \/ signs \subseteq {0, 1} /\ 1 \in signs /\ tetra[k].ref = refext(parent)
                              \/ signs \subseteq {0, -1} /\ -1 \in signs /\ tetra[k].ref = refint(parent)
    BY DEF SidesApart
  <2> DEFINE signs == {sol[p] : p \in Range(tetra[k].v)}
             was == WasIn(mesh, tetra[k].from)
  <2>1. Types /\ Done /\ ret = "ok"
    BY DEF IInv, Discretised
  <2>2. IF ~SplitIn(mesh, was) THEN tetra[k].ref = was
        ELSE \/ On(sol, tetra[k].v, 1) /\ tetra[k].ref = ExtIn(mesh, was)
             \/ On(sol, tetra[k].v, -1) /\ tetra[k].ref = IntIn(mesh, was)
    BY <2>1 DEF Done, Sides
  <2>3. tetra[k].v \in [Local -> DOMAIN sol]
    BY <2>1 DEF Types, IsTetra
  <2>4. signs = {sol[tetra[k].v[i]] : i \in Local}
    BY <2>3 DEF Range
  <2>5. \A s : On(sol, tetra[k].v, s) => signs \subseteq {0, s} /\ s \in signs
    <3> HIDE DEF signs
    <3> QED
      BY <2>4 DEF On
  <2>6. /\ isSplit(was) <=> SplitIn(mesh, was)
        /\ refint(was) = IntIn(mesh, was) /\ refext(was) = ExtIn(mesh, was)
        /\ getStartRef(mesh.refs[tetra[k].from]) = was
    BY MeshOnly
  <2> HIDE DEF signs, was
  <2>7. IF ~isSplit(was) THEN tetra[k].ref = was
        ELSE \/ signs \subseteq {0, 1} /\ 1 \in signs /\ tetra[k].ref = refext(was)
             \/ signs \subseteq {0, -1} /\ -1 \in signs /\ tetra[k].ref = refint(was)
    BY <2>2, <2>5, <2>6
  <2> QED
    BY <2>6, <2>7 DEF signs
<1> QED
  BY <1>1, LevelSetInvariant, PTL

(* Only tetrahedra of a material that is not to be split keep a point that *)
(* no pattern cuts (the exception of Conform): with no such material the   *)
(* assertion of MMG3D_cuttet_ls on the flag never fails.                   *)
THEOREM LeftAreNotSplit ==
  Spec => [](Discretised => \A k \in left : ~isSplit(tetra[k].ref))
<1>1. IInv => (Discretised => \A k \in left : ~isSplit(tetra[k].ref))
  BY MeshOnly DEF IInv, Discretised, Done
<1> QED
  BY <1>1, LevelSetInvariant, PTL


-------------------------------------------------------------------------------
(* The input is a conforming mesh, and what lies in a face of its hull.    *)
AtHull(g, m) == \E t \in DOMAIN m.tets, j \in Local :
                    m.adja[t][j] = 0 /\ g \subseteq VertexSet(Corners(m, t)) \ {Corners(m, t)[j]}
HullIn(m)    == {g \in SUBSET DOMAIN m.sol : AtHull(g, m)}
Apart(v)     == \A i, j \in Local : v[i] = v[j] => i = j

MeshFits(m) ==
    /\ \A k \in DOMAIN m.tets : Apart(Corners(m, k))
    /\ Conforming(DOMAIN m.tets, [k \in DOMAIN m.tets |-> VertexSet(Corners(m, k))], HullIn(m))

(* The set of vertices of a face, in a tetrahedron that contains it.       *)
LEMMA SharedFace ==
  ASSUME NEW v \in [Local -> Nat], NEW w \in [Local -> Nat], Apart(v), Apart(w),
         NEW i \in Local, NEW j \in Local, VertexSet(v) \ {v[i]} \subseteq VertexSet(w) \ {w[j]}
  PROVE  VertexSet(v) \ {v[i]} = VertexSet(w) \ {w[j]}
<1>1. PICK H : H = [e \in {} |-> 0]
  OBVIOUS
<1>2. Sound(v, H) /\ Sound(w, H)
  BY <1>1 DEF Sound, Apart
<1>3. HasFace(v, i, w)
  BY DEF HasFace
<1>4. PICK h \in Local : VertexSet(w) \ {w[h]} = VertexSet(v) \ {v[i]}
  BY <1>2, <1>3, FaceShared
<1>5. w[j] \in VertexSet(w) /\ w[j] \notin VertexSet(v) \ {v[i]}
  BY DEF VertexSet
<1>6. w[j] = w[h]
  BY <1>4, <1>5
<1> QED
  BY <1>4, <1>6

(* The neighbours of an input.                                             *)
LEMMA InputNeighbours ==
  ASSUME NEW m \in Inputs, NEW x \in DOMAIN m.tets, NEW i \in Local
  PROVE  Analysed(m).adja[x][i] = 0
            <=> \A j \in DOMAIN m.tets \ {x} :
                   ~(VertexSet(Corners(m, x)) \ {Corners(m, x)[i]} \subseteq VertexSet(Corners(m, j)))
<1>1. PICK vs : vs = Vertices(m)
  OBVIOUS
<1>2. DOMAIN vs = DOMAIN m.tets /\ \A k \in DOMAIN m.tets : vs[k] = Corners(m, k)
  BY <1>1 DEF Vertices, Corners
<1>3. MeshFacts(Analysed(m))
  BY MeshFactsHold
<1>4. DOMAIN m.tets = 1..Len(m.tets) /\ \A k \in DOMAIN m.tets : DOMAIN Corners(m, k) = Local
  <2>1. Analysed(m).tets = m.tets /\ Analysed(m).sol = m.sol
    BY DEF Analysed
  <2>2. \A k : Corners(Analysed(m), k) = Corners(m, k)
    BY <2>1 DEF Corners
  <2> QED
    BY <1>3, <2>1, <2>2, InputTets
<1>5. \A k \in DOMAIN m.tets : Range(vs[k]) = VertexSet(Corners(m, k))
  BY <1>2, <1>4 DEF Range, VertexSet
<1>6. PICK js : js = {j \in DOMAIN vs \ {x} : Range(vs[x]) \ {vs[x][i]} \subseteq Range(vs[j])}
  OBVIOUS
<1>7. Adjacent(vs, x, i) = IF js = {} THEN 0 ELSE CHOOSE j \in js : TRUE
  BY <1>6 DEF Adjacent
<1>8. js # {} => Adjacent(vs, x, i) \in js
  BY <1>7
<1>9. 0 \notin js
  BY <1>2, <1>4, <1>6
<1>10. Analysed(m).adja[x][i] = Adjacent(vs, x, i)
  BY <1>1, <1>2 DEF Analysed, Adja
<1>11. \A j \in DOMAIN m.tets \ {x} :
          j \in js <=> VertexSet(Corners(m, x)) \ {Corners(m, x)[i]} \subseteq VertexSet(Corners(m, j))
  BY <1>2, <1>5, <1>6
<1>12. js \subseteq DOMAIN m.tets \ {x}
  BY <1>2, <1>6
<1> QED
  BY <1>7, <1>8, <1>9, <1>10, <1>11, <1>12

LEMMA InputFits ==
  ASSUME NEW m \in Inputs
  PROVE  MeshFits(Analysed(m))
<1>1. PICK x : x = Analysed(m)
  OBVIOUS
<1>2. x.tets = m.tets /\ x.sol = m.sol /\ \A k : Corners(x, k) = Corners(m, k)
  BY <1>1 DEF Analysed, Corners
<1>3. /\ \A k \in DOMAIN m.tets : Corners(m, k) \in [Local -> DOMAIN m.sol]
      /\ DOMAIN m.sol \subseteq Nat
  <2>1. MeshFacts(x)
    BY <1>1, MeshFactsHold
  <2> QED
    BY <1>2, <2>1, InputTets
<1>4. \A k \in DOMAIN m.tets : m.tets[k] \in Seq(DOMAIN m.sol) /\ Len(m.tets[k]) = 4
  <2>1. m.tets \in Seq(Seq(DOMAIN m.sol)) /\ \A k \in DOMAIN m.tets : Len(m.tets[k]) = 4
    BY InputsAssumption DEF InputRecord
  <2>2. \A S : \A t \in Seq(S) : \A j \in DOMAIN t : t[j] \in S
    OBVIOUS
  <2>3. PICK S : S = Seq(DOMAIN m.sol)
    OBVIOUS
  <2>4. \A k \in DOMAIN m.tets : m.tets[k] \in S
    BY <2>1, <2>2, <2>3
  <2> QED
    BY <2>1, <2>3, <2>4
<1>5. ASSUME NEW k \in DOMAIN m.tets
      PROVE  /\ Apart(Corners(m, k)) /\ Range(m.tets[k]) = VertexSet(Corners(m, k))
  <2>1. PICK s : s = m.tets[k]
    OBVIOUS
  <2>2. DOMAIN s = 1..4 /\ Len(s) = 4
    BY <1>4, <2>1
  <2>3. Corners(m, k) = [i \in 0..3 |-> s[i + 1]]
    BY <2>1, <2>2 DEF Corners, Array
  <2>4. IsInjective(s)
    BY <2>1, ConformingAssumption
  <2>5. \A i, j \in 0..3 : i + 1 \in 1..4 /\ (i + 1 = j + 1 => i = j)
    OBVIOUS
  <2>6. \A i, j \in 0..3 : s[i + 1] = s[j + 1] => i = j
    BY <2>2, <2>4, <2>5 DEF IsInjective
  <2>7. Apart(Corners(m, k))
    BY <2>3, <2>6 DEF Apart, Local
  <2>8. \A n \in 1..4 : n - 1 \in 0..3 /\ (n - 1) + 1 = n
    OBVIOUS
  <2>9. {s[n] : n \in 1..4} = {s[i + 1] : i \in 0..3}
    BY <2>5, <2>8
  <2>10. Range(s) = VertexSet(Corners(m, k))
    BY <2>2, <2>3, <2>9 DEF Range, VertexSet, Local
  <2> QED
    BY <2>1, <2>7, <2>10
<1>6. PICK M, C, B : /\ M = DOMAIN m.tets /\ C = [k \in M |-> VertexSet(Corners(m, k))]
                     /\ B = HullIn(x)
  OBVIOUS
<1>7. \A k \in M : C[k] = Range(m.tets[k]) /\ C[k] \subseteq DOMAIN m.sol
  <2> TAKE k \in M
  <2>1. k \in DOMAIN m.tets /\ C[k] = VertexSet(Corners(m, k))
    BY <1>6
  <2>2. C[k] = Range(m.tets[k])
    BY <1>5, <2>1
  <2>3. PICK c : c = Corners(m, k) /\ c \in [Local -> DOMAIN m.sol]
    BY <1>3, <2>1
  <2>4. C[k] \subseteq DOMAIN m.sol
    BY <2>1, <2>3 DEF VertexSet
  <2> QED
    BY <2>2, <2>4
<1>8. \A j, k \in M : C[j] \subseteq C[k] => j = k
  BY <1>6, <1>7, ConformingAssumption
<1>9. ASSUME NEW k \in M, NEW q \in C[k] PROVE MeetsAt(M, C, B, k, C[k] \ {q})
  <2>1. PICK i \in Local : q = Corners(m, k)[i]
    BY <1>6 DEF VertexSet
  <2>2. PICK f : f = C[k] \ {q}
    OBVIOUS
  <2>3. f = VertexSet(Corners(m, k)) \ {Corners(m, k)[i]} /\ f \subseteq C[k] /\ f \in SUBSET DOMAIN m.sol
    BY <1>6, <1>7, <2>1, <2>2
  <2>4. \A j, l \in M \ {k} : f \subseteq C[j] /\ f \subseteq C[l] => j = l
    <3>1. ASSUME NEW j \in M \ {k}, NEW l \in M \ {k}, f \subseteq C[j], f \subseteq C[l] PROVE j = l
      <4>1. q \in Range(m.tets[k]) /\ q \in DOMAIN m.sol /\ f = Range(m.tets[k]) \ {q}
        BY <1>7, <1>9, <2>2
      <4>2. f \subseteq Range(m.tets[j]) \intersect Range(m.tets[l])
        BY <1>7, <3>1
      <4> QED
        BY <1>6, <4>1, <4>2, ConformingAssumption
    <3> QED
      BY <3>1
  <2>5. CASE \A j \in M \ {k} : ~(f \subseteq C[j])
    <3>1. x.adja[k][i] = 0
      BY <1>1, <1>6, <2>3, <2>5, InputNeighbours
    <3>2. f \in B
      BY <1>2, <1>6, <2>3, <3>1 DEF HullIn, AtHull
    <3>3. FaceHas(M, C, f, k, k)
      BY <2>3, <2>5 DEF FaceHas
    <3> QED
      BY <2>2, <3>2, <3>3 DEF MeetsAt
  <2>6. ASSUME NEW z \in M \ {k}, f \subseteq C[z] PROVE MeetsAt(M, C, B, k, f)
    <3>1. \A j \in M : f \subseteq C[j] <=> j = k \/ j = z
      BY <2>3, <2>4, <2>6
    <3>2. FaceHas(M, C, f, k, z)
      BY <3>1 DEF FaceHas
    <3>3. f \notin B
      <4>1. SUFFICES ASSUME f \in B PROVE FALSE
        OBVIOUS
      <4>2. PICK t \in M, j \in Local :
               x.adja[t][j] = 0 /\ f \subseteq VertexSet(Corners(m, t)) \ {Corners(m, t)[j]}
        BY <1>2, <1>6, <4>1 DEF HullIn, AtHull
      <4>3. f = VertexSet(Corners(m, t)) \ {Corners(m, t)[j]}
        <5>1. PICK v, w : v = Corners(m, k) /\ w = Corners(m, t)
          OBVIOUS
        <5>2. v \in [Local -> Nat] /\ w \in [Local -> Nat] /\ Apart(v) /\ Apart(w)
          BY <1>3, <1>5, <1>6, <5>1
        <5>3. VertexSet(v) \ {v[i]} = VertexSet(w) \ {w[j]}
          BY <2>3, <4>2, <5>1, <5>2, SharedFace
        <5> QED
          BY <2>3, <5>1, <5>3
      <4>4. \A l \in M \ {t} : ~(f \subseteq C[l])
        BY <1>1, <1>6, <4>2, <4>3, InputNeighbours
      <4>5. f \subseteq C[t]
        BY <1>6, <4>3
      <4> QED
        BY <2>3, <2>6, <4>4, <4>5
    <3> QED
      BY <2>6, <3>2, <3>3 DEF MeetsAt
  <2> QED
    BY <2>2, <2>5, <2>6
<1>10. Conforming(M, C, B)
  BY <1>8, <1>9 DEF Conforming
<1>11. [k \in DOMAIN x.tets |-> VertexSet(Corners(x, k))] = C
  BY <1>2, <1>6
<1> QED
  BY <1>1, <1>2, <1>5, <1>6, <1>10, <1>11 DEF MeshFits

LEMMA FitsHold ==
  ASSUME IInv
  PROVE  MeshFits(mesh)
BY InputFits DEF IInv

-------------------------------------------------------------------------------
(* A point lies between the ends of its edge, a vertex of the input where  *)
(* it was.                                                                 *)
Places ==
    /\ \A p \in DOMAIN mesh.sol : of[p] = {p}
    /\ \A e \in DOMAIN hash : hash[e] > 0 => hash[e] \notin DOMAIN mesh.sol /\ of[hash[e]] = e

LEMMA InitPlaces ==
  ASSUME Init
  PROVE  Places
<1>1. of = [p \in DOMAIN mesh.sol |-> {p}] /\ hash = << >>
  BY DEF Init
<1>2. DOMAIN hash = {}
  BY <1>1
<1>3. \A p \in DOMAIN mesh.sol : of[p] = {p}
  BY <1>1
<1> QED
  BY <1>2, <1>3 DEF Places

LEMMA NewPointPlaces ==
  ASSUME IInv, Places, NewPoint
  PROVE  Places'
<1> DEFINE n == Min(ToPoint)
           k == (n \div 6) + 1
           e == n % 6
           ends == Ends(k, e)
           np == Len(sol) + 1
<1>1. MeshFacts(mesh) /\ stage = "points" /\ Pointing /\ Types
  BY MeshHolds DEF IInv, NewPoint
<1>2. ne \in Nat /\ DOMAIN tetra = 1..ne /\ DOMAIN mesh.tets = 1..ne
  BY <1>1, TupleLen DEF Types, ne, Pointing, AllWhole
<1>3. n \in 0..(6 * ne - 1)
  <2>1. ToPoint # {} /\ at \in Nat
    BY <1>1 DEF NewPoint, Types
  <2>2. ToPoint \subseteq 0..(6 * ne - 1) /\ ToPoint \in SUBSET Nat
    BY <1>2, <2>1 DEF ToPoint
  <2> QED
    BY <2>1, <2>2, MinOf
<1>4. k \in 1..ne /\ e \in Edge
  BY <1>2, <1>3, EdgeNumber
<1>5. /\ mesh' = mesh
      /\ \/ of' = of /\ hash' = hash
         \/ /\ of' = Append(of, UNION {of[p] : p \in ends})
            /\ hash' = [x \in DOMAIN hash \union {ends} |-> IF x = ends THEN np ELSE hash[x]]
  BY DEF NewPoint, n, k, e, ends, np
<1> HIDE DEF k, e, n
<1>6. ends \subseteq DOMAIN mesh.sol
  <2>1. Whole(tetra[k], mesh, k)
    BY <1>1, <1>2, <1>4 DEF Pointing, AllWhole
  <2>2. ends = EndsIn(Corners(mesh, k), e)
    BY <1>4, <2>1, WholeEnds
  <2> QED
    BY <1>1, <1>2, <1>4, <2>2, EndsType
<1> HIDE DEF ends
<1>7. CASE of' = of /\ hash' = hash
  BY <1>5, <1>7 DEF Places
<1>8. CASE /\ of' = Append(of, UNION {of[p] : p \in ends})
           /\ hash' = [x \in DOMAIN hash \union {ends} |-> IF x = ends THEN np ELSE hash[x]]
  <2>1. sol \in Seq(Sign) /\ Len(sol) \in Nat /\ DOMAIN sol = 1..Len(sol) /\ DOMAIN mesh.sol \subseteq DOMAIN sol
    BY <1>1 DEF Types
  <2>2. IsTuple(of) /\ Len(of) = Len(sol)
    <3>1. IsTuple(of) /\ DOMAIN of = DOMAIN sol /\ DOMAIN of = 1..Len(of) /\ Len(of) \in Nat
      BY <1>1, TupleLen DEF Types
    <3> QED
      BY <2>1, <3>1
  <2>3. UNION {of[p] : p \in ends} = ends
    <3>1. \A p \in ends : of[p] = {p}
      BY <1>6 DEF Places
    <3> QED
      BY <3>1
  <2>4. (\A q \in 1..Len(sol) : of'[q] = of[q]) /\ of'[np] = ends
    BY <1>8, <2>2, <2>3, OneMore
  <2>5. np \notin DOMAIN sol /\ np \notin DOMAIN mesh.sol
    BY <2>1
  <2> HIDE DEF np
  <2>6. \A p \in DOMAIN mesh.sol : of'[p] = {p}
    BY <2>1, <2>4 DEF Places
  <2>7. ASSUME NEW x \in DOMAIN hash', hash'[x] > 0
        PROVE  hash'[x] \notin DOMAIN mesh.sol /\ of'[hash'[x]] = x
    <3>1. CASE x = ends
      BY <1>8, <2>4, <2>5, <3>1
    <3>2. CASE x # ends
      <4>1. x \in DOMAIN hash /\ hash'[x] = hash[x] /\ hash[x] > 0
        BY <1>8, <2>7, <3>2
      <4>2. hash[x] \in 1..Len(sol)
        BY <1>1, <2>1, <4>1 DEF Types
      <4> QED
        BY <2>4, <4>1, <4>2 DEF Places
    <3> QED
      BY <3>1, <3>2
  <2> QED
    BY <1>5, <2>6, <2>7 DEF Places
<1> QED
  BY <1>5, <1>7, <1>8

LEMMA NextPlaces ==
  Places /\ IInv /\ [Next]_vars => Places'
<1> SUFFICES ASSUME Places, IInv, [Next]_vars PROVE Places'
  OBVIOUS
<1>1. CASE UNCHANGED <<mesh, of, hash>>
  BY <1>1 DEF Places
<1>2. CASE StartCut
  <2>1. /\ mesh' = mesh /\ of' = of
        /\ \/ hash' = hash
           \/ hash' = [ends \in {Ends(k, e) : k \in mesh.required, e \in Edge} |-> -1]
    BY <1>2 DEF StartCut
  <2>2. CASE hash' = [ends \in {Ends(k, e) : k \in mesh.required, e \in Edge} |-> -1]
    <3>1. \A e \in DOMAIN hash' : hash'[e] = -1
      BY <2>2
    <3> QED
      BY <2>1, <3>1 DEF Places
  <2> QED
    BY <2>1, <2>2, <1>1
<1>3. CASE NewPoint
  BY <1>3, NewPointPlaces
<1>4. UNCHANGED <<mesh, of, hash>> \/ StartCut \/ NewPoint
  BY DEF Next, vars, Correct, SweepEnd, Rmc, RmcEnd, PointsEnd, Cut, CutEnd
<1> QED
  BY <1>1, <1>2, <1>3, <1>4

LEMMA LevelSetPlaces == Spec => []Places
<1>1. Init => Places
  BY InitPlaces
<1> QED
  BY <1>1, NextPlaces, LevelSetInvariant, PTL DEF Spec

-------------------------------------------------------------------------------
(* The mesh with the pieces of the tetrahedra T that are still to be cut,  *)
(* the points by their edges, and the sets of vertices that lie in a face  *)
(* of the hull.                                                            *)
Parts(k)      == Split(Bits(FlagOf(k)), tetra[k].v)
PieceCells(k) == [i \in DOMAIN Parts(k) |-> VertexSet(Global(k, Parts(k)[i].v))]
CellsWith(T)  ==
    [k \in DOMAIN tetra |-> IF k \in T THEN PieceCells(k) ELSE <<VertexSet(tetra[k].v)>>]

PointOn   == [e \in {e \in DOMAIN hash : hash[e] > 0} |-> hash[e]]
Origin(g) == UNION {of[p] : p \in g}
HullFaces == {g \in SUBSET DOMAIN sol : AtHull(Origin(g), mesh)}

CellsIInv ==
    left = {} => /\ stage = "cut" => MeshOf(CellsWith(ToCut), HullFaces)
                 /\ Discretised => MeshOf(CellsWith({}), HullFaces)

(* The flag of a tetrahedron and the points of its edges.                  *)
LEMMA FlagsAgree ==
  ASSUME NEW k
  PROVE  /\ FlagIn(tetra[k].v, PointOn) = FlagOf(k)
         /\ \A e \in FlagOf(k) : /\ Vx(k)[e] = PointOn[EndsIn(tetra[k].v, e)]
                                 /\ EndsIn(tetra[k].v, e) \in DOMAIN hash
                                 /\ hash[EndsIn(tetra[k].v, e)] > 0
                                 /\ Vx(k)[e] = hash[EndsIn(tetra[k].v, e)]
<1>1. \A e : EndsIn(tetra[k].v, e) = Ends(k, e)
  BY DEF EndsIn, Ends, V
<1>2. /\ \A s : s \in DOMAIN PointOn <=> s \in DOMAIN hash /\ hash[s] > 0
      /\ \A s \in DOMAIN PointOn : PointOn[s] = hash[s]
  BY DEF PointOn
<1>3. \A e \in Edge : Vx(k)[e] = HashGet(Ends(k, e))
  BY DEF Vx
<1>4. \A s : /\ HashGet(s) > 0 <=> s \in DOMAIN hash /\ hash[s] > 0
             /\ s \in DOMAIN hash => HashGet(s) = hash[s]
  BY DEF HashGet
<1>5. \A e : e \in FlagOf(k) <=> e \in Edge /\ HashGet(Ends(k, e)) > 0
  BY <1>3 DEF FlagOf
<1>6. FlagIn(tetra[k].v, PointOn) = FlagOf(k)
  BY <1>1, <1>2, <1>4, <1>5 DEF FlagIn
<1> QED
  BY <1>1, <1>2, <1>3, <1>4, <1>5, <1>6

(* Before the cuts.                                                        *)
LEMMA SoundAt ==
  ASSUME IInv, Places, Points(hash, sol, mesh), NEW k \in DOMAIN mesh.tets, NEW v, v = Corners(mesh, k)
  PROVE  Sound(v, PointOn)
<1>1. Types /\ MeshFacts(mesh) /\ MeshFits(mesh)
  BY MeshHolds, FitsHold DEF IInv
<1>2. v \in [Local -> DOMAIN mesh.sol] /\ DOMAIN mesh.sol \subseteq Nat
  BY <1>1, InputTets
<1>3. Apart(v)
  BY <1>1 DEF MeshFits
<1>4. DOMAIN PointOn = {e \in DOMAIN hash : hash[e] > 0} /\ \A e \in DOMAIN PointOn : PointOn[e] = hash[e]
  BY DEF PointOn
<1>5. ASSUME NEW i \in Local PROVE {v[i]} \notin DOMAIN PointOn
  <2>1. SUFFICES ASSUME {v[i]} \in DOMAIN PointOn PROVE FALSE
    OBVIOUS
  <2>2. ChangesIn(sol, {v[i]})
    BY <1>4, <2>1 DEF Points
  <2>3. sol[v[i]] * sol[v[i]] < 0
    BY <2>2 DEF ChangesIn
  <2>4. sol[v[i]] \in Sign
    BY <1>1, <1>2 DEF Types
  <2>5. sol[v[i]] = -1 \/ sol[v[i]] = 0 \/ sol[v[i]] = 1
    BY <2>4 DEF Sign
  <2> QED
    BY <2>3, <2>5
<1>6. \A d, e \in DOMAIN PointOn : PointOn[d] = PointOn[e] => d = e
  BY <1>4 DEF Places
<1>7. \A i \in Local, e \in DOMAIN PointOn : PointOn[e] # v[i]
  BY <1>2, <1>4 DEF Places
<1> QED
  BY <1>2, <1>3, <1>5, <1>6, <1>7 DEF Sound, Apart

(* A vertex of a piece: where it is, and between what.                     *)
LEMMA PieceVertex ==
  ASSUME IInv, Places, NEW k \in DOMAIN mesh.tets, tetra[k].v = Corners(mesh, k),
         NEW v, v = tetra[k].v, NEW w \in Local \union {m0 + e : e \in FlagOf(k)},
         NEW p, p = IF w < m0 THEN v[w] ELSE Vx(k)[w - m0]
  PROVE  /\ Placing(v, PointOn)[w] = p /\ p \in DOMAIN sol
         /\ of[p] = {v[r] : r \in Roots(w)}
<1>1. Types /\ MeshFacts(mesh)
  BY MeshHolds DEF IInv
<1>2. v \in [Local -> DOMAIN mesh.sol] /\ DOMAIN mesh.sol \subseteq DOMAIN sol
  BY <1>1, InputTets DEF Types
<1>3. CASE w \in Local
  <2>1. w < m0 /\ w \in 0..9
    BY <1>3 DEF Local, m0
  <2>2. Placing(v, PointOn)[w] = v[w] /\ p = v[w] /\ Roots(w) = {w}
    BY <2>1 DEF Placing, Roots
  <2>3. of[p] = {v[w]} /\ p \in DOMAIN sol
    BY <1>2, <1>3, <2>2 DEF Places
  <2> QED
    BY <2>2, <2>3
<1>4. CASE w \notin Local
  <2>1. PICK e \in FlagOf(k) : w = m0 + e
    BY <1>4
  <2>2. e \in Edge
    BY DEF FlagOf
  <2>3. ~(w < m0) /\ w \in 0..9 /\ w - m0 = e
    BY <2>1, <2>2 DEF Edge, m0
  <2>4. Placing(v, PointOn)[w] = PointOn[EndsIn(v, e)] /\ p = Vx(k)[e] /\ Roots(w) = iare[e]
    BY <2>3 DEF Placing, Roots
  <2>5. /\ Vx(k)[e] = PointOn[EndsIn(v, e)] /\ EndsIn(v, e) \in DOMAIN hash
        /\ hash[EndsIn(v, e)] > 0 /\ p = hash[EndsIn(v, e)]
    BY <2>4, FlagsAgree
  <2>6. of[p] = EndsIn(v, e)
    BY <2>5 DEF Places
  <2>7. p \in DOMAIN sol
    BY <1>1, <2>5 DEF Types
  <2> QED
    BY <2>4, <2>5, <2>6, <2>7 DEF EndsIn
<1> QED
  BY <1>3, <1>4

(* The vertices of a piece and those of its faces.                         *)
Spans(k, u, G) ==
    \A J \in SUBSET Local : Origin({G[x] : x \in J}) = {tetra[k].v[r] : r \in RootsOf(u, J)}

LEMMA PieceImage ==
  ASSUME IInv, Places, NEW k \in DOMAIN mesh.tets, tetra[k].v = Corners(mesh, k), FlagOf(k) # {},
         NEW ps, ps = Parts(k), NEW i \in DOMAIN ps,
         NEW u, u = ps[i].v, NEW G, G = Global(k, u), NEW y, y = Placing(tetra[k].v, PointOn)
  PROVE  PieceIs(y, ps[i], G) /\ G \in [Local -> DOMAIN sol] /\ Spans(k, u, G)
<1>1. PICK F : F = FlagOf(k)
  OBVIOUS
<1>2. F \in SUBSET Edge
  BY <1>1 DEF FlagOf
<1>3. u \in [Local -> Local \union {m0 + e : e \in F}]
  BY <1>1, <1>2, SplitUses DEF Parts
<1>4. ASSUME NEW x \in Local
      PROVE  y[u[x]] = G[x] /\ G[x] \in DOMAIN sol /\ of[G[x]] = {tetra[k].v[r] : r \in Roots(u[x])}
  <2>1. G[x] = IF u[x] < m0 THEN tetra[k].v[u[x]] ELSE Vx(k)[u[x] - m0]
    BY DEF Global
  <2>2. PICK v, w, p : v = tetra[k].v /\ w = u[x] /\ p = G[x]
    OBVIOUS
  <2>3. w \in Local \union {m0 + e : e \in FlagOf(k)}
    BY <1>1, <1>3, <2>2
  <2>4. p = IF w < m0 THEN v[w] ELSE Vx(k)[w - m0]
    BY <2>1, <2>2
  <2>5. /\ Placing(v, PointOn)[w] = p /\ p \in DOMAIN sol
        /\ of[p] = {v[r] : r \in Roots(w)}
    BY <2>2, <2>3, <2>4, PieceVertex
  <2> QED
    BY <2>2, <2>5
<1>5. \A J \in SUBSET Local : Image(y, {u[x] : x \in J}) = {G[x] : x \in J}
  BY <1>4 DEF Image
<1>6. CornersOf(ps[i]) = {u[x] : x \in Local} /\ VertexSet(G) = {G[x] : x \in Local}
  BY DEF CornersOf, VertexSet
<1>7. \A f \in Local : FaceOf(ps[i], f) = {u[x] : x \in Local \ {f}}
  BY DEF FaceOf
<1>8. PieceIs(y, ps[i], G)
  BY <1>5, <1>6, <1>7 DEF PieceIs
<1>9. G \in [Local -> DOMAIN sol]
  <2>1. G = [x \in Local |-> G[x]]
    BY DEF Global
  <2> QED
    BY <1>4, <2>1
<1>10. ASSUME NEW J \in SUBSET Local
       PROVE  Origin({G[x] : x \in J}) = {tetra[k].v[r] : r \in RootsOf(u, J)}
  <2>1. Origin({G[x] : x \in J}) = UNION {of[G[x]] : x \in J}
    BY DEF Origin
  <2>2. UNION {of[G[x]] : x \in J} = UNION {{tetra[k].v[r] : r \in Roots(u[x])} : x \in J}
    BY <1>4
  <2>3. RootsOf(u, J) = UNION {Roots(u[x]) : x \in J}
    BY DEF RootsOf
  <2> QED
    BY <2>1, <2>2, <2>3
<1> QED
  BY <1>8, <1>9, <1>10 DEF Spans

(* No face of the hull has all vertices of a tetrahedron.                  *)
LEMMA HullIsFlat ==
  ASSUME IInv, NEW k \in DOMAIN mesh.tets
  PROVE  ~AtHull(VertexSet(Corners(mesh, k)), mesh)
<1>1. MeshFits(mesh)
  BY FitsHold
<1>2. SUFFICES ASSUME NEW t \in DOMAIN mesh.tets, NEW j \in Local,
                      VertexSet(Corners(mesh, k)) \subseteq VertexSet(Corners(mesh, t)) \ {Corners(mesh, t)[j]}
               PROVE  FALSE
  BY DEF AtHull
<1>3. PICK M, C : M = DOMAIN mesh.tets /\ C = [x \in M |-> VertexSet(Corners(mesh, x))]
  OBVIOUS
<1>4. \A x, y \in M : C[x] \subseteq C[y] => x = y
  BY <1>1, <1>3 DEF MeshFits, Conforming
<1>5. C[k] \subseteq C[t]
  BY <1>2, <1>3
<1>6. k = t
  BY <1>3, <1>4, <1>5
<1>7. Corners(mesh, t)[j] \in VertexSet(Corners(mesh, t))
  BY DEF VertexSet
<1> QED
  BY <1>2, <1>6, <1>7

LEMMA PieceHull ==
  ASSUME IInv, Places, NEW k \in DOMAIN mesh.tets, tetra[k].v = Corners(mesh, k), FlagOf(k) # {},
         NEW ps, ps = Parts(k), NEW i \in DOMAIN ps, NEW f \in Local,
         NEW v, v = tetra[k].v
  PROVE  Image(Placing(v, PointOn), FaceOf(ps[i], f)) \in HullFaces
            <=> f \notin ps[i].reset /\ VertexSet(v) \ {v[f]} \in HullIn(mesh)
<1>1. PICK p, u, G, y : /\ p = ps[i] /\ u = p.v /\ G = Global(k, u)
                        /\ y = Placing(tetra[k].v, PointOn)
  OBVIOUS
<1>2. /\ PieceIs(y, p, G) /\ G \in [Local -> DOMAIN sol]
      /\ \A J \in SUBSET Local : Origin({G[x] : x \in J}) = {v[r] : r \in RootsOf(u, J)}
  <2>1. u = ps[i].v
    BY <1>1
  <2>2. PieceIs(y, ps[i], G) /\ G \in [Local -> DOMAIN sol] /\ Spans(k, u, G)
    BY <1>1, <2>1, PieceImage
  <2> QED
    BY <1>1, <2>2 DEF Spans
<1>3. RootedAt(p, f)
  <2>1. FlagOf(k) \in SUBSET Edge
    BY DEF FlagOf
  <2> QED
    BY <1>1, <2>1, SplitFaces DEF Parts
<1>4. PICK J : J = Local \ {f}
  OBVIOUS
<1>5. Image(Placing(v, PointOn), FaceOf(p, f)) = {G[x] : x \in J}
  BY <1>1, <1>2, <1>4 DEF PieceIs
<1>6. {G[x] : x \in J} \in SUBSET DOMAIN sol
  BY <1>2, <1>4
<1>7. v \in [Local -> DOMAIN mesh.sol] /\ Apart(v)
  BY MeshHolds, FitsHold, InputTets DEF MeshFits
<1>8. VertexSet(v) \ {v[f]} = {v[x] : x \in J} /\ VertexSet(v) = {v[x] : x \in Local}
  BY <1>4, <1>7 DEF VertexSet, Apart
<1>9. {G[x] : x \in J} \in HullFaces <=> AtHull({v[r] : r \in RootsOf(u, J)}, mesh)
  BY <1>2, <1>4, <1>6 DEF HullFaces
<1>10. CASE f \notin p.reset
  <2>1. RootsOf(u, J) = J
    BY <1>1, <1>3, <1>4, <1>10 DEF RootedAt
  <2>2. {v[x] : x \in J} \in SUBSET DOMAIN mesh.sol
    BY <1>4, <1>7
  <2>3. VertexSet(v) \ {v[f]} \in HullIn(mesh) <=> AtHull({v[x] : x \in J}, mesh)
    BY <1>8, <2>2 DEF HullIn
  <2> QED
    BY <1>1, <1>5, <1>9, <1>10, <2>1, <2>3
<1>11. CASE f \in p.reset
  <2>1. RootsOf(u, J) = Local
    BY <1>1, <1>3, <1>4, <1>11 DEF RootedAt
  <2>2. ~AtHull(VertexSet(v), mesh)
    BY HullIsFlat
  <2> QED
    BY <1>1, <1>5, <1>8, <1>9, <1>11, <2>1, <2>2
<1> QED
  BY <1>10, <1>11

(* The cuts begin with the pieces that they will make.                     *)
LEMMA StartCells ==
  ASSUME IInv, Places, AllWhole(tetra, mesh), Points(hash, sol, mesh),
         NEW T, T = {k \in DOMAIN tetra : FlagOf(k) # {}}
  PROVE  MeshOf(CellsWith(T), HullFaces)
<1>1. MeshFits(mesh) /\ MeshFacts(mesh) /\ Types
  BY FitsHold, MeshHolds DEF IInv
<1>2. PICK M, U, H, PS : /\ M = DOMAIN tetra /\ U = [k \in M |-> tetra[k].v] /\ H = PointOn
                         /\ PS = [k \in M |-> IF k \in T THEN Parts(k) ELSE WholePiece]
  OBVIOUS
<1>3. PICK W, Y, D, B, A : /\ W = CellsWith(T) /\ Y = Cells(W) /\ D = [c \in Y |-> W[c[1]][c[2]]]
                           /\ B = HullIn(mesh) /\ A = HullFaces
  OBVIOUS
<1>4. M = DOMAIN mesh.tets /\ \A k \in M : U[k] = tetra[k].v /\ U[k] = Corners(mesh, k)
  BY <1>2 DEF AllWhole, Whole
<1>5. Conforming(M, [k \in M |-> VertexSet(U[k])], B)
  <2>1. [k \in M |-> VertexSet(U[k])] = [k \in DOMAIN mesh.tets |-> VertexSet(Corners(mesh, k))]
    BY <1>4
  <2> QED
    BY <1>1, <1>3, <1>4, <2>1 DEF MeshFits
<1>6. ASSUME NEW k \in M
      PROVE  /\ Sound(U[k], H) /\ WellCut(PS[k], FlagIn(U[k], H), U[k])
             /\ DOMAIN W[k] = DOMAIN PS[k]
             /\ \A i \in DOMAIN PS[k] : W[k][i] = CellOf(U, H, PS, k, i)
             /\ \A i \in DOMAIN PS[k], f \in Local :
                   FaceOfCell(U, H, PS, k, i, f) \in A
                      <=> f \notin PS[k][i].reset /\ VertexSet(U[k]) \ {U[k][f]} \in B
  <2>1. k \in DOMAIN tetra /\ k \in DOMAIN mesh.tets /\ U[k] = tetra[k].v
    BY <1>2, <1>4
  <2>2. PICK v : v = U[k] /\ v = tetra[k].v /\ v = Corners(mesh, k)
    BY <1>4, <2>1
  <2>3. Sound(v, H)
    BY <1>2, <2>1, <2>2, SoundAt
  <2>4. v \in [Local -> Nat] /\ \A i, j \in Local : v[i] = v[j] => i = j
    BY <2>3 DEF Sound
  <2>5. CASE k \in T
    <3>1. PICK F : F = FlagOf(k) /\ F # {}
      BY <2>1, <2>5
    <3>2. PICK ps : ps = Split(Bits(F), v) /\ ps = Parts(k)
      BY <2>2, <3>1 DEF Parts
    <3>3. PS[k] = ps
      BY <1>2, <2>5, <3>2
    <3>4. F \in SUBSET Edge
      BY <3>1 DEF FlagOf
    <3>5. FlagIn(v, H) = F
      BY <1>2, <2>2, <3>1, FlagsAgree
    <3>6. WellCut(ps, F, v)
      BY <2>4, <3>1, <3>2, <3>4, SplitIsWellCut
    <3>7. W[k] = PieceCells(k)
      BY <1>3, <2>1, <2>5 DEF CellsWith
    <3>8. DOMAIN W[k] = DOMAIN ps /\ \A i \in DOMAIN ps : W[k][i] = VertexSet(Global(k, ps[i].v))
      BY <3>2, <3>7 DEF PieceCells
    <3>9. ASSUME NEW i \in DOMAIN ps PROVE W[k][i] = CellOf(U, H, PS, k, i)
      <4>1. PICK u, G, y : u = ps[i].v /\ G = Global(k, u) /\ y = Placing(tetra[k].v, PointOn)
        OBVIOUS
      <4>2. PieceIs(y, ps[i], G)
        BY <2>1, <2>2, <3>1, <3>2, <4>1, PieceImage
      <4>3. Image(y, CornersOf(ps[i])) = VertexSet(G)
        BY <4>2 DEF PieceIs
      <4> QED
        BY <1>2, <2>1, <3>3, <3>8, <4>1, <4>3 DEF CellOf
    <3>10. ASSUME NEW i \in DOMAIN ps, NEW f \in Local
           PROVE  FaceOfCell(U, H, PS, k, i, f) \in A
                     <=> f \notin ps[i].reset /\ VertexSet(v) \ {v[f]} \in B
      <4>1. Image(Placing(v, PointOn), FaceOf(ps[i], f)) \in HullFaces
               <=> f \notin ps[i].reset /\ VertexSet(v) \ {v[f]} \in HullIn(mesh)
        BY <2>1, <2>2, <3>1, <3>2, PieceHull
      <4> QED
        BY <1>2, <1>3, <2>2, <3>3, <4>1 DEF FaceOfCell
    <3> QED
      BY <2>2, <2>3, <3>3, <3>5, <3>6, <3>8, <3>9, <3>10
  <2>6. CASE k \notin T
    <3>1. PS[k] = WholePiece /\ W[k] = <<VertexSet(v)>>
      BY <1>2, <1>3, <2>1, <2>2, <2>6 DEF CellsWith
    <3>2. FlagIn(v, H) = {}
      BY <1>2, <2>1, <2>2, <2>6, FlagsAgree
    <3>3. WellCut(WholePiece, {}, v)
      BY WholeIsWellCut
    <3>4. PICK y : y = Placing(v, H)
      OBVIOUS
    <3>5. DOMAIN WholePiece = {1} /\ WholePiece[1].reset = {} /\ PieceIs(y, WholePiece[1], v)
      BY <3>4, WholeImage
    <3>6. Image(y, CornersOf(WholePiece[1])) = VertexSet(v)
      BY <3>5 DEF PieceIs
    <3>7. DOMAIN W[k] = {1} /\ W[k][1] = CellOf(U, H, PS, k, 1)
      BY <2>2, <3>1, <3>4, <3>6 DEF CellOf
    <3>8. ASSUME NEW f \in Local
          PROVE  FaceOfCell(U, H, PS, k, 1, f) \in A <=> VertexSet(v) \ {v[f]} \in B
      <4>1. Image(y, FaceOf(WholePiece[1], f)) = {v[x] : x \in Local \ {f}}
        BY <3>5 DEF PieceIs
      <4>2. VertexSet(v) \ {v[f]} = {v[x] : x \in Local \ {f}}
        BY <2>4 DEF VertexSet
      <4>3. PICK g : g = VertexSet(v) \ {v[f]} /\ g = FaceOfCell(U, H, PS, k, 1, f)
        BY <2>2, <3>1, <3>4, <4>1, <4>2 DEF FaceOfCell
      <4>4. g \in SUBSET DOMAIN mesh.sol /\ g \in SUBSET DOMAIN sol
        <5>1. v \in [Local -> DOMAIN mesh.sol] /\ DOMAIN mesh.sol \subseteq DOMAIN sol
          BY <1>1, <2>1, <2>2, InputTets DEF Types
        <5> QED
          BY <4>3, <5>1 DEF VertexSet
      <4>5. Origin(g) = g
        <5>1. \A p \in g : of[p] = {p}
          BY <4>4 DEF Places
        <5> QED
          BY <5>1 DEF Origin
      <4> QED
        BY <1>3, <4>3, <4>4, <4>5 DEF HullFaces, HullIn
    <3> QED
      BY <2>2, <2>3, <3>1, <3>2, <3>3, <3>5, <3>7, <3>8
  <2> QED
    BY <2>5, <2>6
<1>7. AllCut(M, U, H, PS)
  BY <1>6 DEF AllCut
<1>8. HullCut(M, U, H, PS, B, A)
  BY <1>6 DEF HullCut
<1>9. PICK own, part : own = [c \in Y |-> c[1]] /\ part = [c \in Y |-> c[2]]
  OBVIOUS
<1>10. DOMAIN W = M
  BY <1>2, <1>3 DEF CellsWith
<1>11. /\ \A c \in Y : c = <<c[1], c[2]>> /\ c[1] \in DOMAIN W /\ c[2] \in DOMAIN W[c[1]]
       /\ \A k \in DOMAIN W : \A i \in DOMAIN W[k] : <<k, i>> \in Y
  BY <1>3, CellsAre
<1>12. ASSUME NEW c \in Y
       PROVE  c = <<own[c], part[c]>> /\ own[c] \in M /\ part[c] \in DOMAIN PS[own[c]]
  <2>1. PICK k, i : k = c[1] /\ i = c[2]
    OBVIOUS
  <2>2. c = <<k, i>> /\ k \in M /\ i \in DOMAIN W[k]
    BY <1>10, <1>11, <2>1
  <2>3. own[c] = k /\ part[c] = i
    BY <1>9, <2>1
  <2>4. DOMAIN W[k] = DOMAIN PS[k]
    BY <1>6, <2>2
  <2> QED
    BY <2>2, <2>3, <2>4
<1>13. ASSUME NEW k \in M, NEW i \in DOMAIN PS[k]
       PROVE  <<k, i>> \in Y /\ own[<<k, i>>] = k /\ part[<<k, i>>] = i
  <2>1. DOMAIN W[k] = DOMAIN PS[k]
    BY <1>6
  <2>2. <<k, i>> \in Y
    BY <1>10, <1>11, <2>1
  <2> QED
    BY <1>9, <2>2
<1>14. Subdivided(M, PS, Y, own, part)
  BY <1>12, <1>13 DEF Subdivided
<1>15. \A c \in Y : D[c] = CellOf(U, H, PS, own[c], part[c])
  BY <1>3, <1>6, <1>9, <1>12
<1>16. Conforming(Y, D, A)
  BY <1>5, <1>7, <1>8, <1>14, <1>15, CutsFit
<1> QED
  BY <1>3, <1>16 DEF MeshOf

-------------------------------------------------------------------------------
(* What the cells of a tetrahedron depend on.                              *)
LEMMA SameCellsAt ==
  ASSUME NEW k, tetra'[k].v = tetra[k].v, hash' = hash
  PROVE  FlagOf(k)' = FlagOf(k) /\ PieceCells(k)' = PieceCells(k)
<1>1. \A e : Ends(k, e)' = Ends(k, e)
  BY DEF Ends, V
<1>2. Vx(k)' = Vx(k)
  BY <1>1 DEF Vx, HashGet
<1>3. FlagOf(k)' = FlagOf(k)
  BY <1>2 DEF FlagOf
<1>4. Parts(k)' = Parts(k)
  BY <1>3 DEF Parts
<1>5. \A u : Global(k, u)' = Global(k, u)
  BY <1>2 DEF Global
<1> QED
  BY <1>3, <1>4, <1>5 DEF PieceCells

(* A cut: the pieces of the tetrahedron become tetrahedra.                 *)
LEMMA CutCells ==
  ASSUME IInv, Cut, CellsIInv
  PROVE  CellsIInv'
<1>1. /\ MeshFacts(mesh) /\ stage = "cut" /\ Cutting /\ Types /\ ToCut # {}
  BY MeshHolds DEF IInv, Cut
<1>2. PICK nt : nt = Len(mesh.tets)
  OBVIOUS
<1>3. /\ ne \in Nat /\ DOMAIN tetra = 1..ne /\ nt \in Nat /\ nt <= ne /\ at \in Nat
      /\ DOMAIN mesh.tets = 1..nt
  BY <1>1, <1>2, TupleLen, InputTets DEF Types, ne, Cutting
<1>4. \A y : y \in ToCut <=> y \in (at + 1)..nt /\ FlagOf(y) # {}
  BY <1>2 DEF ToCut
<1>5. PICK k \in ToCut : k = Min(ToCut) /\ \A y \in ToCut : k <= y
  <2>1. ToCut \in SUBSET Nat
    BY <1>3, <1>4
  <2> QED
    BY <1>1, <2>1, MinOf
<1>6. k \in 1..nt /\ k \in DOMAIN tetra /\ k > at /\ FlagOf(k) # {} /\ k \in DOMAIN mesh.tets
  BY <1>3, <1>4
<1>7. PICK ps, f : f = Bits(FlagOf(k)) /\ ps = Parts(k) /\ ps = Split(f, tetra[k].v)
  BY DEF Parts
<1>8. IsTuple(ps) /\ Len(ps) >= 2 /\ Len(ps) \in Nat /\ DOMAIN ps = 1..Len(ps)
  BY <1>1, <1>6, <1>7, PieceFacts, TupleLen
<1>9. /\ mesh' = mesh /\ sol' = sol /\ of' = of /\ hash' = hash /\ at' = k
      /\ \/ left' = left \union {k}
         \/ stage' = "done" /\ ret' = "failed"
         \/ /\ left' = left /\ stage' = stage
            /\ tetra' = [tetra EXCEPT ![k] = [tetra[k] EXCEPT !.v = Global(k, ps[1].v)]]
                        \o [i \in 1..(Len(ps) - 1) |->
                               [tetra[k] EXCEPT !.v = Global(k, ps[i + 1].v)]]
  BY <1>5, <1>7 DEF Cut
<1>10. HullFaces' = HullFaces
  BY <1>9 DEF HullFaces, Origin
<1>11. CASE left' = left \union {k}
  BY <1>11 DEF CellsIInv
<1>12. CASE stage' = "done" /\ ret' = "failed"
  BY <1>12 DEF CellsIInv, Discretised
<1>13. CASE /\ left' = left /\ stage' = stage
            /\ tetra' = [tetra EXCEPT ![k] = [tetra[k] EXCEPT !.v = Global(k, ps[1].v)]]
                        \o [i \in 1..(Len(ps) - 1) |->
                               [tetra[k] EXCEPT !.v = Global(k, ps[i + 1].v)]]
  <2>1. PICK n \in Nat : n = Len(ps) - 1 /\ n >= 1 /\ Len(ps) = n + 1
    <3>1. PICK l \in Nat : l = Len(ps) /\ l >= 2
      BY <1>8
    <3>2. l - 1 \in Nat /\ l - 1 >= 1 /\ l = (l - 1) + 1
      BY <3>1
    <3> QED
      BY <3>1, <3>2
  <2>2. PICK piece : piece = [i \in 1..(n + 1) |-> [tetra[k] EXCEPT !.v = Global(k, ps[i].v)]]
    OBVIOUS
  <2>3. \A i \in 1..(n + 1) : piece[i].v = Global(k, ps[i].v)
    <3> TAKE i \in 1..(n + 1)
    <3>1. PICK t, g : t = tetra[k] /\ g = Global(k, ps[i].v)
      OBVIOUS
    <3>2. "v" \in DOMAIN t
      <4>1. IsTetra(t, DOMAIN sol, DOMAIN mesh.tets)
        BY <1>1, <1>6, <3>1 DEF Types
      <4>2. PICK v, r, m : t = [v |-> v, ref |-> r, from |-> m]
        BY <4>1 DEF IsTetra
      <4> QED
        BY <4>2
    <3>3. piece[i] = [t EXCEPT !.v = g]
      BY <2>2, <3>1
    <3> QED
      BY <3>1, <3>2, <3>3
  <2>4. PICK first, more : /\ first = [tetra EXCEPT ![k] = piece[1]]
                           /\ more = [i \in 1..n |-> piece[i + 1]]
    OBVIOUS
  <2>5. tetra' = first \o more
    <3>1. 1 \in 1..(n + 1) /\ \A i \in 1..n : i + 1 \in 1..(n + 1)
      BY <2>1
    <3>2. piece[1] = [tetra[k] EXCEPT !.v = Global(k, ps[1].v)]
      BY <2>2, <3>1
    <3>3. \A i \in 1..n : piece[i + 1] = [tetra[k] EXCEPT !.v = Global(k, ps[i + 1].v)]
      BY <2>2, <3>1
    <3>4. more = [i \in 1..n |-> [tetra[k] EXCEPT !.v = Global(k, ps[i + 1].v)]]
      BY <2>4, <3>3
    <3> QED
      BY <1>13, <2>1, <2>4, <3>2, <3>4
  <2>6. /\ IsTuple(first) /\ Len(first) = ne /\ first[k] = piece[1]
        /\ \A t \in 1..ne : t # k => first[t] = tetra[t]
    <3>1. DOMAIN first = 1..ne /\ first = [t \in 1..ne |-> first[t]]
      BY <1>3, <2>4
    <3>2. first[k] = piece[1] /\ \A t \in 1..ne : t # k => first[t] = tetra[t]
      BY <1>3, <1>6, <2>4
    <3> QED
      BY <1>3, <3>1, <3>2, FunctionIsTuple
  <2>7. IsTuple(more) /\ Len(more) = n /\ \A i \in 1..n : more[i] = piece[i + 1]
    <3>1. more = [i \in 1..n |-> more[i]] /\ \A i \in 1..n : more[i] = piece[i + 1]
      BY <2>4
    <3> QED
      BY <3>1, FunctionIsTuple
  <2>8. /\ IsTuple(first \o more) /\ Len(first \o more) = ne + n
        /\ \A t \in 1..ne : (first \o more)[t] = first[t]
        /\ \A i \in 1..n : (first \o more)[ne + i] = more[i]
    <3>1. PICK s, t, q : s = first /\ t = more /\ q = ne
      OBVIOUS
    <3>2. IsTuple(s) /\ IsTuple(t) /\ Len(s) = q /\ Len(t) = n
      BY <2>6, <2>7, <3>1
    <3>3. /\ IsTuple(s \o t) /\ Len(s \o t) = q + n
          /\ \A j \in 1..q : (s \o t)[j] = s[j]
          /\ \A i \in 1..n : (s \o t)[q + i] = t[i]
      <4>1. IsTuple(s) /\ IsTuple(t)
        BY <3>2
      <4>2. /\ IsTuple(s \o t) /\ Len(s \o t) = Len(s) + Len(t)
            /\ \A j \in 1..Len(s) : (s \o t)[j] = s[j]
            /\ \A i \in 1..Len(t) : (s \o t)[Len(s) + i] = t[i]
            /\ \A i \in DOMAIN (s \o t) : i \in 1..Len(s) \/ i - Len(s) \in 1..Len(t)
        BY <4>1, TwoTuples
      <4> QED
        BY <3>2, <4>2
    <3> QED
      BY <3>1, <3>3
  <2>9. /\ IsTuple(tetra') /\ Len(tetra') = ne + n
        /\ \A t \in 1..ne : tetra'[t] = first[t]
        /\ \A i \in 1..n : tetra'[ne + i] = more[i]
    BY <2>5, <2>8
  <2>10. DOMAIN tetra' = 1..(ne + n)
    BY <2>9, TupleLen
  <2>11. \A j \in DOMAIN tetra : j # k => tetra'[j] = tetra[j] /\ j \in DOMAIN tetra'
    BY <1>3, <2>6, <2>9, <2>10
  <2>12. ASSUME NEW j \in DOMAIN tetra, j # k
         PROVE  FlagOf(j)' = FlagOf(j) /\ PieceCells(j)' = PieceCells(j)
    BY <1>9, <2>11, <2>12, SameCellsAt
  <2>13. ToCut' = ToCut \ {k}
    <3>1. \A y : y \in ToCut' <=> y \in (k + 1)..nt /\ FlagOf(y)' # {}
      BY <1>2, <1>9 DEF ToCut
    <3>2. ASSUME NEW y PROVE y \in ToCut' <=> y \in ToCut /\ y # k
      <4>1. CASE y \in (k + 1)..nt
        <5>1. y \in DOMAIN tetra /\ y # k /\ y \in (at + 1)..nt
          BY <1>3, <1>6, <4>1
        <5> QED
          BY <1>4, <2>12, <3>1, <4>1, <5>1
      <4>2. CASE y \notin (k + 1)..nt
        <5>1. y \notin ToCut'
          BY <3>1, <4>2
        <5>2. ASSUME y \in ToCut, y # k PROVE FALSE
          <6>1. y \in (at + 1)..nt /\ k <= y
            BY <1>4, <1>5, <5>2
          <6> QED
            BY <1>3, <1>6, <4>2, <5>2, <6>1
        <5> QED
          BY <5>1, <5>2
      <4> QED
        BY <4>1, <4>2
    <3> QED
      BY <3>2
  <2>14. PICK T : T = ToCut
    OBVIOUS
  <2>15. PICK W, X : W = CellsWith(T) /\ X = CellsWith(T \ {k})'
    OBVIOUS
  <2>16. T \subseteq DOMAIN tetra
    BY <1>3, <1>4, <2>14
  <2>17. DOMAIN W = 1..ne /\ DOMAIN X = 1..(ne + n)
    BY <1>3, <2>10, <2>15 DEF CellsWith
  <2>18. \A j \in 1..ne : j # k => X[j] = W[j]
    <3> TAKE j \in 1..ne
    <3> SUFFICES ASSUME j # k PROVE X[j] = W[j]
      OBVIOUS
    <3>1. /\ j \in DOMAIN tetra /\ j \in DOMAIN tetra' /\ tetra'[j] = tetra[j]
          /\ PieceCells(j)' = PieceCells(j)
      BY <1>3, <2>11, <2>12
    <3>2. X[j] = IF j \in T THEN PieceCells(j)' ELSE <<VertexSet(tetra'[j].v)>>
      BY <2>15, <3>1 DEF CellsWith
    <3>3. W[j] = IF j \in T THEN PieceCells(j) ELSE <<VertexSet(tetra[j].v)>>
      BY <2>15, <3>1 DEF CellsWith
    <3> QED
      BY <3>1, <3>2, <3>3
  <2>19. DOMAIN W[k] = 1..(n + 1) /\ \A i \in 1..(n + 1) : W[k][i] = VertexSet(Global(k, ps[i].v))
    <3>1. W[k] = PieceCells(k)
      BY <1>6, <2>14, <2>15 DEF CellsWith
    <3> QED
      BY <1>7, <1>8, <2>1, <3>1 DEF PieceCells
  <2>20. /\ tetra'[k].v = Global(k, ps[1].v)
         /\ \A j \in (ne + 1)..(ne + n) : tetra'[j].v = Global(k, ps[j - ne + 1].v)
    <3>1. k \in 1..ne /\ 1 \in 1..(n + 1)
      BY <1>3, <1>6
    <3>2. tetra'[k] = piece[1]
      BY <2>6, <2>9, <3>1
    <3>3. ASSUME NEW j \in (ne + 1)..(ne + n) PROVE tetra'[j] = piece[j - ne + 1]
      <4>1. PICK i \in 1..n : i = j - ne /\ j = ne + i
        BY <1>3, <3>3
      <4>2. tetra'[ne + i] = piece[i + 1]
        BY <2>7, <2>9
      <4> QED
        BY <4>1, <4>2
    <3>4. \A j \in (ne + 1)..(ne + n) : j - ne + 1 \in 1..(n + 1)
      BY <1>3
    <3> QED
      BY <2>3, <3>1, <3>2, <3>3, <3>4
  <2>21. ASSUME NEW j \in 1..(ne + n), j = k \/ j \notin 1..ne
         PROVE  DOMAIN X[j] = {1} /\ X[j][1] = VertexSet(tetra'[j].v)
    <3>1. j \notin T \ {k}
      BY <1>3, <2>16, <2>21
    <3>2. X[j] = <<VertexSet(tetra'[j].v)>>
      BY <2>10, <2>15, <3>1 DEF CellsWith
    <3> QED
      BY <3>2
  <2>22. DOMAIN X[k] = {1} /\ X[k][1] = W[k][1]
    <3>1. k \in 1..(ne + n) /\ 1 \in 1..(n + 1)
      BY <1>3, <1>6
    <3> QED
      BY <2>19, <2>20, <2>21, <3>1
  <2>23. \A j \in (ne + 1)..(ne + n) : DOMAIN X[j] = {1} /\ X[j][1] = W[k][j - ne + 1]
    <3> TAKE j \in (ne + 1)..(ne + n)
    <3>1. j \in 1..(ne + n) /\ j \notin 1..ne /\ j - ne + 1 \in 1..(n + 1)
      BY <1>3
    <3> QED
      BY <2>19, <2>20, <2>21, <3>1
  <2> SUFFICES ASSUME left = {} PROVE MeshOf(X, HullFaces)
    <3>1. CellsWith(ToCut)' = X
      BY <2>13, <2>14, <2>15
    <3>2. ~Discretised'
      BY <1>1, <1>13 DEF Discretised
    <3> QED
      BY <1>10, <1>13, <3>1, <3>2 DEF CellsIInv
  <2>24. PICK B, q, m : B = HullFaces /\ q = ne /\ m = n + 1
    OBVIOUS
  <2>25. q + m - 1 = q + n
    BY <1>3, <2>24
  <2>26. UnrolledAt(W, q, k, m, X)
    <3>1. /\ q \in Nat /\ DOMAIN W = 1..q /\ k \in 1..q
          /\ m \in Nat /\ m >= 2 /\ DOMAIN W[k] = 1..m
      BY <1>3, <1>6, <2>1, <2>17, <2>19, <2>24
    <3> QED
      BY <2>17, <2>18, <2>22, <2>23, <2>24, <2>25, <3>1 DEF UnrolledAt
  <2>27. MeshOf(W, B)
    BY <1>1, <2>14, <2>15, <2>24 DEF CellsIInv
  <2>28. MeshOf(X, B)
    BY <2>26, <2>27, Unrolled
  <2> QED
    BY <2>24, <2>28
<1> QED
  BY <1>9, <1>11, <1>12, <1>13

(* The references change, the vertices stay.                               *)
LEMMA RefsOnly ==
  ASSUME IInv, tetra' = SetRef(tetra)
  PROVE  DOMAIN tetra' = DOMAIN tetra /\ \A k \in DOMAIN tetra : tetra'[k].v = tetra[k].v
<1>1. DOMAIN tetra' = DOMAIN tetra
  BY DEF SetRef
<1>2. ASSUME NEW k \in DOMAIN tetra PROVE tetra'[k].v = tetra[k].v
  <2>1. PICK t : t = tetra[k]
    OBVIOUS
  <2>2. PICK v, r, m : t = [v |-> v, ref |-> r, from |-> m]
    BY <2>1 DEF IInv, Types, IsTetra
  <2>3. \A r1 : [t EXCEPT !.ref = r1].v = t.v
    BY <2>2
  <2>4. tetra'[k] = t \/ \E r1 : tetra'[k] = [t EXCEPT !.ref = r1]
    BY <2>1 DEF SetRef
  <2> QED
    BY <2>1, <2>3, <2>4
<1> QED
  BY <1>1, <1>2

(* The cells of whole tetrahedra when the references are set.              *)
LEMMA LastCells ==
  ASSUME IInv, tetra' = SetRef(tetra), UNCHANGED <<mesh, sol, of>>, MeshOf(CellsWith({}), HullFaces)
  PROVE  MeshOf(CellsWith({})', HullFaces')
<1>1. HullFaces' = HullFaces
  BY DEF HullFaces, Origin
<1>2. CellsWith({})' = [k \in DOMAIN tetra' |-> <<VertexSet(tetra'[k].v)>>]
  BY DEF CellsWith
<1>3. CellsWith({}) = [k \in DOMAIN tetra |-> <<VertexSet(tetra[k].v)>>]
  BY DEF CellsWith
<1>4. CellsWith({})' = CellsWith({})
  BY <1>2, <1>3, RefsOnly
<1> QED
  BY <1>1, <1>4

LEMMA CutEndCells ==
  ASSUME IInv, CutEnd, CellsIInv
  PROVE  CellsIInv'
<1>1. /\ stage = "cut" /\ ToCut = {} /\ stage' = "done" /\ left' = left
      /\ UNCHANGED <<mesh, sol, of>>
      /\ ret' = "failed" \/ tetra' = SetRef(tetra)
  BY DEF CutEnd
<1>2. CASE ret' = "failed"
  BY <1>1, <1>2 DEF CellsIInv, Discretised
<1>3. CASE tetra' = SetRef(tetra)
  <2>1. SUFFICES ASSUME left = {} PROVE MeshOf(CellsWith({})', HullFaces')
    BY <1>1 DEF CellsIInv
  <2>2. MeshOf(CellsWith({}), HullFaces)
    BY <1>1, <2>1 DEF CellsIInv
  <2> QED
    BY <1>1, <1>3, <2>2, LastCells
<1> QED
  BY <1>1, <1>2, <1>3

(* Nothing is cut: the input has no point yet.                             *)
LEMMA StartCutCells ==
  ASSUME IInv, Places, StartCut
  PROVE  CellsIInv'
<1>1. /\ stage = "count" /\ UNCHANGED <<mesh, sol, of>>
      /\ (stage' = "points" \/ (stage' = "done" /\ tetra' = SetRef(tetra)))
  BY DEF StartCut
<1>2. CASE stage' = "points"
  BY <1>2 DEF CellsIInv, Discretised
<1>3. CASE stage' = "done" /\ tetra' = SetRef(tetra)
  <2>1. AllWhole(tetra, mesh) /\ MeshFits(mesh) /\ MeshFacts(mesh) /\ Types
    BY <1>1, FitsHold, MeshHolds DEF IInv, Removing
  <2>2. PICK M, C : M = DOMAIN tetra /\ C = [k \in M |-> VertexSet(tetra[k].v)]
    OBVIOUS
  <2>3. M = DOMAIN mesh.tets /\ \A k \in M : tetra[k].v = Corners(mesh, k)
    BY <2>1, <2>2 DEF AllWhole, Whole
  <2>4. C = [k \in DOMAIN mesh.tets |-> VertexSet(Corners(mesh, k))]
    BY <2>2, <2>3
  <2>5. PICK W, A, B : W = CellsWith({}) /\ A = HullFaces /\ B = HullIn(mesh)
    OBVIOUS
  <2>6. DOMAIN W = M /\ \A k \in M : W[k] = <<C[k]>>
    BY <2>2, <2>5 DEF CellsWith
  <2>7. \A k \in DOMAIN W : DOMAIN W[k] = {1} /\ W[k][1] = C[k]
    <3> TAKE k \in DOMAIN W
    <3>1. PICK s : s = C[k] /\ W[k] = <<s>>
      BY <2>6
    <3> QED
      BY <3>1
  <2>8. MeshOf(W, B)
    <3>1. MeshOf(W, B) <=> Conforming(DOMAIN W, [k \in DOMAIN W |-> C[k]], B)
      BY <2>7, Singles
    <3>2. [k \in M |-> C[k]] = C
      BY <2>2
    <3> QED
      BY <2>1, <2>3, <2>4, <2>5, <2>6, <3>1, <3>2 DEF MeshFits
  <2>9. ASSUME NEW k \in M, NEW g \in SUBSET C[k] PROVE g \in A <=> g \in B
    <3>1. g \in SUBSET DOMAIN mesh.sol /\ g \in SUBSET DOMAIN sol
      <4>1. Corners(mesh, k) \in [Local -> DOMAIN mesh.sol] /\ DOMAIN mesh.sol \subseteq DOMAIN sol
        BY <2>1, <2>3, InputTets DEF Types
      <4>2. PICK c : c = Corners(mesh, k) /\ c \in [Local -> DOMAIN mesh.sol]
        BY <4>1
      <4>3. C[k] = {c[i] : i \in Local}
        BY <2>3, <2>4, <4>2 DEF VertexSet
      <4>4. C[k] \subseteq DOMAIN mesh.sol
        BY <4>2, <4>3
      <4> QED
        BY <4>1, <4>4
    <3>2. Origin(g) = g
      <4>1. \A p \in g : of[p] = {p}
        BY <3>1 DEF Places
      <4> QED
        BY <4>1 DEF Origin
    <3> QED
      BY <2>5, <3>1, <3>2 DEF HullFaces, HullIn
  <2>10. \A k \in DOMAIN W : \A i \in DOMAIN W[k] : \A g \in SUBSET W[k][i] : g \in A <=> g \in B
    <3> TAKE k \in DOMAIN W
    <3> TAKE i \in DOMAIN W[k]
    <3>1. k \in M /\ W[k][i] = C[k]
      BY <2>6, <2>7
    <3> QED
      BY <2>9, <3>1
  <2>11. MeshOf(W, A)
    BY <2>8, <2>10, SameCells
  <2>12. MeshOf(CellsWith({})', HullFaces')
    BY <1>1, <1>3, <2>5, <2>11, LastCells
  <2> QED
    BY <1>3, <2>12 DEF CellsIInv
<1> QED
  BY <1>1, <1>2, <1>3

LEMMA PointsEndCells ==
  ASSUME IInv, IInv', Places, PointsEnd
  PROVE  CellsIInv'
<1>1. /\ stage = "points" /\ stage' = "cut" /\ at' = 0 /\ tetra' = tetra /\ hash' = hash
      /\ UNCHANGED <<mesh, sol, of>>
  BY DEF PointsEnd
<1>2. /\ AllWhole(tetra, mesh) /\ Points(hash, sol, mesh)
      /\ DOMAIN mesh.tets = 1..Len(mesh.tets)
  BY <1>1, MeshHolds, InputTets DEF IInv, Pointing
<1>3. PICK T : T = {k \in DOMAIN tetra : FlagOf(k) # {}}
  OBVIOUS
<1>4. \A k : FlagOf(k)' = FlagOf(k) /\ PieceCells(k)' = PieceCells(k)
  BY <1>1, SameCellsAt
<1>5. ToCut' = T
  <2>1. ToCut' = {k \in (0 + 1)..Len(mesh.tets) : FlagOf(k) # {}}
    BY <1>1, <1>4 DEF ToCut
  <2>2. DOMAIN tetra = (0 + 1)..Len(mesh.tets)
    BY <1>2 DEF AllWhole
  <2> QED
    BY <1>3, <2>1, <2>2
<1>6. CellsWith(T)' = CellsWith(T)
  BY <1>1, <1>4 DEF CellsWith
<1>7. HullFaces' = HullFaces
  BY <1>1 DEF HullFaces, Origin
<1>8. MeshOf(CellsWith(T), HullFaces)
  BY <1>2, <1>3, StartCells
<1>9. CellsWith(ToCut)' = CellsWith(T)
  BY <1>5, <1>6
<1> QED
  BY <1>1, <1>7, <1>8, <1>9 DEF CellsIInv, Discretised

LEMMA NextCells ==
  CellsIInv /\ Places /\ IInv /\ IInv' /\ [Next]_vars => CellsIInv'
<1> SUFFICES ASSUME CellsIInv, Places, IInv, IInv', [Next]_vars PROVE CellsIInv'
  OBVIOUS
<1>1. CASE UNCHANGED vars
  <2>1. /\ tetra' = tetra /\ hash' = hash /\ UNCHANGED <<mesh, sol, of, at, stage, left, ret>>
    BY <1>1 DEF vars
  <2>2. \A k : FlagOf(k)' = FlagOf(k) /\ PieceCells(k)' = PieceCells(k)
    BY <2>1, SameCellsAt
  <2>3. ToCut' = ToCut
    BY <2>1, <2>2 DEF ToCut
  <2>4. \A T : CellsWith(T)' = CellsWith(T)
    <3> TAKE T
    <3>1. CellsWith(T)' =
             [k \in DOMAIN tetra |-> IF k \in T THEN PieceCells(k) ELSE <<VertexSet(tetra[k].v)>>]
      BY <2>1, <2>2 DEF CellsWith
    <3> QED
      BY <3>1 DEF CellsWith
  <2>5. CellsWith({})' = CellsWith({})
    <3>1. CellsWith({})' = [k \in DOMAIN tetra' |-> <<VertexSet(tetra'[k].v)>>]
      BY DEF CellsWith
    <3>2. CellsWith({}) = [k \in DOMAIN tetra |-> <<VertexSet(tetra[k].v)>>]
      BY DEF CellsWith
    <3> QED
      BY <2>1, <3>1, <3>2
  <2>6. CellsWith(ToCut)' = CellsWith(ToCut)
    <3>1. PICK T : T = ToCut
      OBVIOUS
    <3> QED
      BY <2>3, <2>4, <3>1
  <2>7. HullFaces' = HullFaces
    BY <2>1 DEF HullFaces, Origin
  <2>8. Discretised' = Discretised
    BY <2>1 DEF Discretised
  <2> QED
    BY <2>1, <2>5, <2>6, <2>7, <2>8 DEF CellsIInv
<1>2. CASE Correct \/ SweepEnd \/ Rmc \/ RmcEnd \/ NewPoint
  <2>1. stage' # "cut" /\ ~Discretised'
    BY <1>2 DEF Correct, SweepEnd, Rmc, RmcEnd, NewPoint, Discretised
  <2> QED
    BY <2>1 DEF CellsIInv
<1>3. CASE StartCut
  BY <1>3, StartCutCells
<1>4. CASE PointsEnd
  BY <1>4, PointsEndCells
<1>5. CASE Cut
  BY <1>5, CutCells
<1>6. CASE CutEnd
  BY <1>6, CutEndCells
<1> QED
  BY <1>1, <1>2, <1>3, <1>4, <1>5, <1>6 DEF Next

LEMMA LevelSetCells == Spec => []CellsIInv
<1>1. Init => CellsIInv
  BY DEF Init, CellsIInv, Discretised
<1> QED
  BY <1>1, NextCells, LevelSetInvariant, LevelSetPlaces, PTL DEF Spec

-------------------------------------------------------------------------------
(* What the counts say.                                                    *)
LEMMA CellsCounted ==
  ASSUME IInv, CellsIInv, Discretised, left = {}, NEW k \in DOMAIN tetra, NEW i \in Local
  PROVE  Cardinality(Across(k, i)) = IF OnHull(k, i) THEN 0 ELSE 1
<1>1. Types /\ MeshOf(CellsWith({}), HullFaces) /\ MeshFacts(mesh)
  BY MeshHolds DEF IInv, CellsIInv
<1>2. PICK M, C, W, A : /\ M = DOMAIN tetra /\ C = [j \in M |-> VertexSet(tetra[j].v)]
                        /\ W = CellsWith({}) /\ A = HullFaces
  OBVIOUS
<1>3. Conforming(M, C, A)
  <2>1. DOMAIN W = M /\ \A j \in M : W[j] = <<C[j]>>
    BY <1>2 DEF CellsWith
  <2>2. \A j \in DOMAIN W : DOMAIN W[j] = {1} /\ W[j][1] = C[j]
    <3> TAKE j \in DOMAIN W
    <3>1. PICK s : s = C[j] /\ W[j] = <<s>>
      BY <2>1
    <3> QED
      BY <3>1
  <2>3. MeshOf(W, A) <=> Conforming(DOMAIN W, [j \in DOMAIN W |-> C[j]], A)
    BY <2>2, Singles
  <2>4. [j \in M |-> C[j]] = C
    BY <1>2
  <2> QED
    BY <1>1, <1>2, <2>1, <2>3, <2>4
<1>4. \A j \in M : C[j] = Range(tetra[j].v) /\ C[j] \subseteq DOMAIN sol
  <2>1. \A j \in M : tetra[j].v \in [Local -> DOMAIN sol]
    BY <1>1, <1>2 DEF Types, IsTetra
  <2> QED
    BY <1>2, <2>1 DEF Range, VertexSet
<1>5. PICK q, g : q = tetra[k].v[i] /\ g = Face(k, i)
  OBVIOUS
<1>6. q \in C[k] /\ g = C[k] \ {q} /\ g \in SUBSET DOMAIN sol
  BY <1>2, <1>4, <1>5 DEF VertexSet, Face, V
<1>7. MeetsAt(M, C, A, k, g)
  BY <1>2, <1>3, <1>6 DEF Conforming
<1>8. g \in A <=> OnHull(k, i)
  <2>1. g \in A <=> AtHull(Origin(g), mesh)
    BY <1>2, <1>6 DEF HullFaces
  <2>2. Origin(g) = OfFace(k, i)
    BY <1>5 DEF Origin, OfFace
  <2>3. ASSUME NEW t \in DOMAIN mesh.tets, NEW j \in Local
        PROVE  Range(mesh.tets[t]) \ {mesh.tets[t][j + 1]} = VertexSet(Corners(mesh, t)) \ {Corners(mesh, t)[j]}
    <3>1. PICK m \in Inputs : mesh = Analysed(m)
      BY DEF IInv
    <3>2. mesh.tets = m.tets
      BY <3>1 DEF Analysed
    <3>3. PICK s : s = mesh.tets[t]
      OBVIOUS
    <3>4. DOMAIN s = 1..4 /\ Len(s) = 4
      <4>1. m.tets \in Seq(Seq(DOMAIN m.sol)) /\ Len(s) = 4
        BY <3>2, <3>3, InputsAssumption DEF InputRecord
      <4>2. \A S : \A x \in Seq(S) : \A y \in DOMAIN x : x[y] \in S
        OBVIOUS
      <4>3. PICK S : S = Seq(DOMAIN m.sol)
        OBVIOUS
      <4>4. s \in S
        BY <3>2, <3>3, <4>1, <4>2, <4>3
      <4>5. s \in Seq(DOMAIN m.sol)
        BY <4>3, <4>4
      <4> QED
        BY <4>1, <4>5
    <3>5. Corners(mesh, t) = [x \in 0..3 |-> s[x + 1]]
      BY <3>3, <3>4 DEF Corners, Array
    <3>6. \A x \in 0..3 : x + 1 \in 1..4
      OBVIOUS
    <3>7. \A n \in 1..4 : n - 1 \in 0..3 /\ (n - 1) + 1 = n
      OBVIOUS
    <3>8. {s[n] : n \in 1..4} = {s[x + 1] : x \in 0..3}
      BY <3>6, <3>7
    <3>9. Range(s) = VertexSet(Corners(mesh, t))
      BY <3>4, <3>5, <3>8 DEF Range, VertexSet, Local
    <3> QED
      BY <3>3, <3>5, <3>9 DEF Local
  <2>4. OnHull(k, i) <=> AtHull(OfFace(k, i), mesh)
    BY <2>3 DEF OnHull, AtHull
  <2> QED
    BY <2>1, <2>2, <2>4
<1>9. \A j : j \in Across(k, i) <=> j \in M /\ j # k /\ g \subseteq C[j]
  BY <1>2, <1>4, <1>5 DEF Across
<1>10. CASE g \in A
  <2>1. FaceHas(M, C, g, k, k)
    BY <1>7, <1>10 DEF MeetsAt
  <2>2. Across(k, i) = {}
    BY <1>9, <2>1 DEF FaceHas
  <2> QED
    BY <1>8, <1>10, <2>2, FS_EmptySet
<1>11. CASE g \notin A
  <2>1. PICK z \in M : z # k /\ FaceHas(M, C, g, k, z)
    BY <1>7, <1>11 DEF MeetsAt
  <2>2. Across(k, i) = {z}
    BY <1>9, <2>1 DEF FaceHas
  <2> QED
    BY <1>8, <1>11, <2>2, FS_Singleton
<1> QED
  BY <1>10, <1>11

(* Conform: when the discretisation of any level set of a conforming mesh  *)
(* succeeds, the result is a conforming mesh of the same domain, or some   *)
(* tetrahedra are left whole with points on their edges, and they are of a *)
(* material that is not to be split.                                       *)
THEOREM LevelSetConform == Spec => []Conform
<1>1. ASSUME IInv, CellsIInv PROVE Conform
  <2>1. ASSUME Discretised, left = {}, NEW k \in DOMAIN tetra, NEW i \in Local
        PROVE  Cardinality(Across(k, i)) = IF OnHull(k, i) THEN 0 ELSE 1
    BY <1>1, <2>1, CellsCounted
  <2>2. ASSUME Discretised PROVE \A k \in left : ~isSplit(tetra[k].ref)
    BY <1>1, <2>2, MeshOnly DEF IInv, Discretised, Done
  <2> QED
    BY <2>1, <2>2 DEF Conform
<1> QED
  BY <1>1, LevelSetInvariant, LevelSetCells, PTL

===============================================================================
