---------------------------- MODULE Anatet3DProofs -----------------------------
(***************************************************************************)
(* For every mesh: the insertion of points by patterns neither loses nor   *)
(* leaks a point unless it returns in the midst of an insertion or of a    *)
(* cut, cuts the tetrahedra as the simulations have accepted it, and the   *)
(* simulations end; the pieces inherit the tags of the faces and edges in  *)
(* which theirs lie, and meet face to face.                                *)
(***************************************************************************)
EXTENDS Anatet3D, TetPatternsProofs

-------------------------------------------------------------------------------
(* The numbers up to n.                                                    *)
LEMMA FiniteUpTo ==
  ASSUME NEW n \in Nat
  PROVE  IsFiniteSet(1..n) /\ Cardinality(1..n) = n
BY FS_Interval

(* What it means that a sequence lists each element of a set once.         *)
Lists(s, S) ==
    /\ IsTuple(s) /\ Len(s) = Cardinality(S)
    /\ \A i \in DOMAIN s : s[i] \in S
    /\ \A i, j \in DOMAIN s : s[i] = s[j] => i = j
    /\ \A x \in S : \E i \in DOMAIN s : s[i] = x

(* Ascending lists each element of a set once.                             *)
LEMMA AscendingLists ==
  ASSUME NEW S \in SUBSET Int, IsFiniteSet(S)
  PROVE  Lists(Ascending(S), S)
<1> DEFINE n == Cardinality(S)
           below(x) == {y \in S : y < x}
           r == [x \in S |-> Cardinality(below(x)) + 1]
           s == Ascending(S)
<1>1. n \in Nat
  BY FS_CardinalityType
<1>2. ASSUME NEW x \in S
      PROVE  Cardinality(below(x)) \in Nat /\ Cardinality(below(x)) < n
  <2>1. below(x) \in SUBSET S /\ below(x) # S
    OBVIOUS
  <2> HIDE DEF below
  <2>2. IsFiniteSet(below(x)) /\ Cardinality(below(x)) <= n /\ Cardinality(below(x)) # n
    BY <2>1, FS_Subset
  <2>3. Cardinality(below(x)) \in Nat
    BY <2>2, FS_CardinalityType
  <2> QED
    BY <1>1, <2>2, <2>3
<1>3. ASSUME NEW x \in S, NEW y \in S, x < y
      PROVE  Cardinality(below(x)) # Cardinality(below(y))
  <2>1. x \in Int /\ y \in Int /\ \A z \in S : z \in Int
    OBVIOUS
  <2>2. below(x) \subseteq below(y) /\ below(y) \subseteq S
    <3>1. \A z \in S : z < x => z < y
      BY <1>3, <2>1
    <3> QED
      BY <3>1
  <2>3. x \in below(y) /\ x \notin below(x)
    BY <1>3, <2>1
  <2> HIDE DEF below
  <2>4. IsFiniteSet(below(y))
    BY <2>2, FS_Subset
  <2> QED
    BY <2>2, <2>3, <2>4, FS_Subset
<1>4. \A x, y \in S : r[x] = r[y] => x = y
  <2> SUFFICES ASSUME NEW x \in S, NEW y \in S, r[x] = r[y], x # y PROVE FALSE
    OBVIOUS
  <2>1. Cardinality(below(x)) = Cardinality(below(y))
    <3> HIDE DEF below
    <3> QED
      BY <1>2
  <2>2. x < y \/ y < x
    OBVIOUS
  <2> QED
    BY <1>3, <2>1, <2>2
<1>5. r \in [S -> 1..n]
  <2> HIDE DEF below, n
  <2> QED
    BY <1>1, <1>2 DEF n
<1>6. \A i \in 1..n : \E x \in S : r[x] = i
  <2>1. IsFiniteSet(1..n) /\ Cardinality(1..n) = n
    BY <1>1, FS_Interval
  <2>2. r \in Injection(S, 1..n)
    <3> HIDE DEF r
    <3> QED
      BY <1>4, <1>5 DEF Injection, IsInjective
  <2>3. r \in Surjection(S, 1..n)
    <3> HIDE DEF r
    <3> QED
      BY <2>1, <2>2, FS_Injection
  <2> HIDE DEF r
  <2> QED
    BY <2>3 DEF Surjection
<1>7. \A x \in S : r[x] = Cardinality(below(x)) + 1
  OBVIOUS
<1>8. s = [i \in 1..n |-> CHOOSE x \in S : Cardinality(below(x)) = i - 1]
  BY DEF Ascending
<1> HIDE DEF n, below, r, s
<1>9. \A i \in 1..n : s[i] \in S /\ r[s[i]] = i
  <2> TAKE i \in 1..n
  <2>1. PICK x \in S : r[x] = i
    BY <1>6
  <2>2. Cardinality(below(x)) = i - 1
    BY <1>2, <1>7, <2>1
  <2>3. s[i] \in S /\ Cardinality(below(s[i])) = i - 1
    BY <1>8, <2>2
  <2>4. r[s[i]] = Cardinality(below(s[i])) + 1
    BY <1>7, <2>3
  <2>5. i \in Int
    BY <1>1
  <2> QED
    BY <2>3, <2>4, <2>5
<1>10. DOMAIN s = 1..n /\ IsTuple(s) /\ Len(s) = n
  <2>1. DOMAIN s = 1..n /\ s = [i \in 1..n |-> s[i]]
    BY <1>8
  <2> QED
    BY <1>1, <2>1, FunctionIsTuple
<1>11. \A i, j \in DOMAIN s : s[i] = s[j] => i = j
  BY <1>9, <1>10
<1>12. \A x \in S : \E i \in DOMAIN s : s[i] = x
  BY <1>4, <1>5, <1>9, <1>10
<1> QED
  BY <1>9, <1>10, <1>11, <1>12 DEF Lists, n, s

(* The first element of a part of an interval is its least one.            *)
LEMMA LeastOf ==
  ASSUME NEW a \in Nat, NEW b \in Int, NEW S \in SUBSET (a..b), S # {}
  PROVE  Min(S) \in S /\ \A y \in S : Min(S) <= y
<1>1. \E x \in S : \A y \in S : x <= y
  <2>1. S \in SUBSET Nat
    OBVIOUS
  <2> QED
    BY <2>1, LeastNat
<1> QED
  BY <1>1 DEF Min

-------------------------------------------------------------------------------
(* The simulations end.  A point may be moved three times and deleted      *)
(* once: it has as many tokens as it is still to lose.                     *)
Tokens == {t \in (DOMAIN moved) \X (0..3) : t[2] >= moved[t[1]]}

Counted ==
    /\ DOMAIN moved = {hash[e] : e \in DOMAIN hash}
    /\ \A q \in DOMAIN moved : moved[q] \in 0..3
    /\ IsFiniteSet(Tokens) /\ refused + Cardinality(Tokens) <= 4 * nap

FewEdges == IsFiniteSet(DOMAIN hash) /\ Cardinality(DOMAIN hash) <= nap

RefusalsIInv ==
    /\ nap \in Nat /\ refused \in Nat /\ refused <= 4 * nap
    /\ stage = "mark" => refused = 0 /\ (wave = "surf" => FewEdges)
    /\ stage = "sim" => Counted

(* The points of a tetrahedron are points of its edges, in hash.           *)
LEMMA VxPoints ==
  ASSUME NEW k, NEW e \in FlagOf(k)
  PROVE  /\ e \in Edge /\ Ends(k, e) \in DOMAIN hash
         /\ Vx(k)[e] = hash[Ends(k, e)] /\ Vx(k)[e] > 0
<1>1. e \in Edge /\ Vx(k)[e] > 0
  BY DEF FlagOf
<1>2. Vx(k)[e] = IF HasReqTag(k, e) THEN 0 ELSE HashGet(Ends(k, e))
  BY <1>1 DEF Vx
<1> QED
  BY <1>1, <1>2 DEF HashGet

(* A wave of anatets begins without a point.                               *)
LEMMA ReturnRefusals ==
  ASSUME Return
  PROVE  RefusalsIInv'
<1>1. nap' = 0 /\ refused' = 0 /\ mesh' = mesh
  BY DEF Return
<1>2. ASSUME stage' = "mark", wave' = "surf" PROVE FewEdges'
  <2>1. call' = call + 1 /\ hash' = HashAtStart(mesh.waves[call + 1], tetra, xtetra)
    BY <1>2 DEF Return
  <2>2. hash' = EmptyHash
    BY <1>1, <1>2, <2>1 DEF HashAtStart, wave
  <2>3. DOMAIN hash' = {}
    BY <2>2 DEF EmptyHash
  <2> QED
    BY <1>1, <2>3, FS_EmptySet DEF FewEdges
<1>3. stage' # "sim"
  BY DEF Return
<1> QED
  BY <1>1, <1>2, <1>3 DEF RefusalsIInv

(* The initial states.                                                     *)
LEMMA InitRefusals == Init => RefusalsIInv
<1> SUFFICES ASSUME Init PROVE RefusalsIInv
  OBVIOUS
<1>1. nap = 0 /\ refused = 0 /\ stage = "mark" /\ hash = HashAtStart(wave, tetra, xtetra)
  BY DEF Init
<1>2. ASSUME wave = "surf" PROVE FewEdges
  <2>1. DOMAIN hash = {}
    BY <1>1, <1>2 DEF HashAtStart, EmptyHash
  <2> QED
    BY <1>1, <2>1, FS_EmptySet DEF FewEdges
<1> QED
  BY <1>1, <1>2 DEF RefusalsIInv

(* An insertion: one point, one edge.                                      *)
LEMMA InsertRefusals ==
  ASSUME RefusalsIInv, NEW p, Insert(p)
  PROVE  RefusalsIInv'
<1>1. /\ stage = "mark" /\ nap' = nap + 1 /\ refused' = refused /\ mesh' = mesh /\ call' = call
      /\ stage' = stage /\ hash' = With(hash, EdgeAt(p), Head(free))
  BY DEF Insert, Create
<1>2. nap \in Nat /\ refused = 0 /\ (wave = "surf" => FewEdges)
  BY <1>1 DEF RefusalsIInv
<1>3. wave' = wave
  BY <1>1 DEF wave
<1>4. ASSUME FewEdges PROVE FewEdges'
  <2>1. DOMAIN hash' = DOMAIN hash \union {EdgeAt(p)}
    BY <1>1 DEF With
  <2>2. /\ IsFiniteSet(DOMAIN hash')
        /\ Cardinality(DOMAIN hash') = Cardinality(DOMAIN hash) \/ Cardinality(DOMAIN hash') = Cardinality(DOMAIN hash) + 1
    BY <1>4, <2>1, FS_AddElement DEF FewEdges
  <2>3. Cardinality(DOMAIN hash) \in Nat
    BY <1>4, FS_CardinalityType DEF FewEdges
  <2> QED
    BY <1>1, <1>2, <1>4, <2>2, <2>3 DEF FewEdges
<1> QED
  BY <1>1, <1>2, <1>3, <1>4 DEF RefusalsIInv

(* Or the point is left without an edge.                                   *)
LEMMA InsertFailsRefusals ==
  ASSUME RefusalsIInv, NEW p, InsertFails(p)
  PROVE  RefusalsIInv'
<1>1. stage = "mark" /\ stage' = "done" /\ nap' = nap + 1 /\ refused' = refused
  BY DEF InsertFails, Create
<1>2. nap \in Nat /\ refused = 0
  BY <1>1 DEF RefusalsIInv
<1> QED
  BY <1>1, <1>2 DEF RefusalsIInv

(* The simulations begin with four tokens for each point.                  *)
LEMMA MarkEndRefusals ==
  ASSUME RefusalsIInv, MarkEnd
  PROVE  RefusalsIInv'
<1>1. CASE nap = 0
  BY <1>1, ReturnRefusals DEF MarkEnd
<1>2. CASE nap # 0 /\ wave # "surf"
  <2>1. stage' = "check" /\ nap' = nap /\ refused' = refused
    BY <1>2 DEF MarkEnd
  <2> QED
    BY <2>1 DEF RefusalsIInv
<1>3. CASE nap # 0 /\ wave = "surf"
  <2> DEFINE H == {hash[e] : e \in DOMAIN hash}
  <2>1. /\ stage = "mark" /\ stage' = "sim" /\ moved' = [q \in H |-> 0]
        /\ hash' = hash /\ nap' = nap /\ refused' = refused
    BY <1>3 DEF MarkEnd
  <2>2. FewEdges /\ nap \in Nat /\ refused = 0
    BY <1>3, <2>1 DEF RefusalsIInv
  <2>3. IsFiniteSet(H) /\ Cardinality(H) \in Nat /\ Cardinality(H) <= nap
    <3> DEFINE f == [e \in DOMAIN hash |-> hash[e]]
    <3>1. f \in Surjection(DOMAIN hash, H)
      BY DEF Surjection
    <3> HIDE DEF f, H
    <3>2. IsFiniteSet(H) /\ Cardinality(H) <= Cardinality(DOMAIN hash)
      BY <2>2, <3>1, FS_Surjection DEF FewEdges
    <3>3. Cardinality(H) \in Nat /\ Cardinality(DOMAIN hash) \in Nat
      BY <2>2, <3>2, FS_CardinalityType DEF FewEdges
    <3> QED
      BY <2>2, <3>2, <3>3 DEF FewEdges
  <2>4. DOMAIN moved' = H /\ (\A q \in H : moved'[q] = 0)
    BY <2>1
  <2> HIDE DEF H
  <2>5. Tokens' = H \X (0..3)
    <3>1. Tokens' = {t \in H \X (0..3) : t[2] >= moved'[t[1]]}
      BY <2>4 DEF Tokens
    <3>2. ASSUME NEW t \in H \X (0..3) PROVE t[2] >= moved'[t[1]]
      BY <2>4
    <3> QED
      BY <3>1, <3>2
  <2>6. IsFiniteSet(0..3) /\ Cardinality(0..3) = 4
    <3>1. \A a, b \in Int : IsFiniteSet(a..b) /\ Cardinality(a..b) = IF a > b THEN 0 ELSE b - a + 1
      BY FS_Interval
    <3>2. 0 \in Int /\ 3 \in Int
      OBVIOUS
    <3>3. IsFiniteSet(0..3) /\ Cardinality(0..3) = IF 0 > 3 THEN 0 ELSE 3 - 0 + 1
      BY <3>1, <3>2, Zenon
    <3> QED
      BY <3>3
  <2>7. IsFiniteSet(Tokens') /\ Cardinality(Tokens') = Cardinality(H) * 4
    BY <2>3, <2>5, <2>6, FS_Product
  <2>8. DOMAIN moved' = {hash'[e] : e \in DOMAIN hash'}
    BY <2>1, <2>4 DEF H
  <2>9. refused' + Cardinality(Tokens') <= 4 * nap'
    BY <2>1, <2>2, <2>3, <2>7
  <2>10. Counted'
    BY <2>4, <2>7, <2>8, <2>9 DEF Counted
  <2> QED
    BY <2>1, <2>2, <2>10 DEF RefusalsIInv
<1> QED
  BY <1>1, <1>2, <1>3

(* A refusal costs at least one token.                                     *)
LEMMA TokenLost ==
  ASSUME Counted, nap \in Nat, refused \in Nat, refused' = refused + 1, nap' = nap,
         Tokens' \subseteq Tokens, NEW t \in Tokens, t \notin Tokens'
  PROVE  IsFiniteSet(Tokens') /\ refused' + Cardinality(Tokens') <= 4 * nap' /\ refused' <= 4 * nap'
<1>1. IsFiniteSet(Tokens) /\ refused + Cardinality(Tokens) <= 4 * nap
  BY DEF Counted
<1>2. IsFiniteSet(Tokens') /\ Cardinality(Tokens') <= Cardinality(Tokens) /\ Cardinality(Tokens') # Cardinality(Tokens)
  BY <1>1, FS_Subset
<1>3. Cardinality(Tokens') \in Nat /\ Cardinality(Tokens) \in Nat
  BY <1>1, <1>2, FS_CardinalityType
<1> QED
  BY <1>1, <1>2, <1>3

(* A simulation: what it accepts or moves or deletes.                      *)
LEMMA SimulateRefusals ==
  ASSUME RefusalsIInv, Simulate
  PROVE  RefusalsIInv'
<1> DEFINE k == Min(ToSimulate)
           pts == {Vx(k)[e] : e \in FlagOf(k)}
<1>1. stage = "sim" /\ stage' = "sim" /\ nap' = nap
  BY DEF Simulate
<1>2. Counted /\ nap \in Nat /\ refused \in Nat /\ refused <= 4 * nap
  BY <1>1 DEF RefusalsIInv
<1>3. pts \subseteq DOMAIN moved
  BY <1>2, VxPoints DEF Counted
<1>4. \/ UNCHANGED <<hash, moved, refused>>
      \/ /\ pts # {} /\ ~TooOften(pts) /\ hash' = hash /\ refused' = refused + 1
         /\ moved' = [q \in DOMAIN moved |-> moved[q] + IF q \in pts THEN 1 ELSE 0]
      \/ /\ pts # {} /\ refused' = refused + 1
         /\ hash' = [e \in {x \in DOMAIN hash : hash[x] \notin pts} |-> hash[e]]
         /\ moved' = [q \in DOMAIN moved \ pts |-> moved[q]]
  BY DEF Simulate
<1>5. \A q \in DOMAIN moved : moved[q] \in 0..3
  BY <1>2 DEF Counted
<1>6. DOMAIN moved = {hash[e] : e \in DOMAIN hash}
  BY <1>2 DEF Counted
<1> HIDE DEF pts, k
<1>7. CASE UNCHANGED <<hash, moved, refused>>
  <2>1. Counted'
    BY <1>1, <1>2, <1>7 DEF Counted, Tokens
  <2> QED
    BY <1>1, <1>2, <1>7, <2>1 DEF RefusalsIInv
<1>8. CASE /\ pts # {} /\ ~TooOften(pts) /\ hash' = hash /\ refused' = refused + 1
           /\ moved' = [q \in DOMAIN moved |-> moved[q] + IF q \in pts THEN 1 ELSE 0]
  <2>1. PICK q \in pts : TRUE
    BY <1>8
  <2>2. \A x \in pts : moved[x] \in 0..2
    BY <1>3, <1>5, <1>8 DEF TooOften
  <2>3. DOMAIN moved' = DOMAIN moved /\ \A x \in DOMAIN moved : moved'[x] = moved[x] + IF x \in pts THEN 1 ELSE 0
    BY <1>8
  <2>4. \A x \in DOMAIN moved : moved'[x] \in 0..3 /\ moved'[x] >= moved[x]
    BY <1>5, <2>2, <2>3
  <2>5. Tokens' \subseteq Tokens
    BY <1>5, <2>3, <2>4 DEF Tokens
  <2> DEFINE t == <<q, moved[q]>>
  <2>6. t \in Tokens /\ t \notin Tokens'
    BY <1>3, <1>5, <2>1, <2>2, <2>3 DEF Tokens
  <2>7. IsFiniteSet(Tokens') /\ refused' + Cardinality(Tokens') <= 4 * nap' /\ refused' <= 4 * nap'
    BY <1>1, <1>2, <1>8, <2>5, <2>6, TokenLost
  <2>8. Counted'
    BY <1>6, <1>8, <2>3, <2>4, <2>7 DEF Counted
  <2> QED
    BY <1>1, <1>2, <1>8, <2>7, <2>8 DEF RefusalsIInv
<1>9. CASE /\ pts # {} /\ refused' = refused + 1
           /\ hash' = [e \in {x \in DOMAIN hash : hash[x] \notin pts} |-> hash[e]]
           /\ moved' = [q \in DOMAIN moved \ pts |-> moved[q]]
  <2>1. PICK q \in pts : TRUE
    BY <1>9
  <2>2. DOMAIN moved' = DOMAIN moved \ pts /\ \A x \in DOMAIN moved \ pts : moved'[x] = moved[x]
    BY <1>9
  <2>3. Tokens' \subseteq Tokens
    BY <2>2 DEF Tokens
  <2> DEFINE t == <<q, moved[q]>>
  <2>4. t \in Tokens /\ t \notin Tokens'
    BY <1>3, <1>5, <2>1, <2>2 DEF Tokens
  <2>5. IsFiniteSet(Tokens') /\ refused' + Cardinality(Tokens') <= 4 * nap' /\ refused' <= 4 * nap'
    BY <1>1, <1>2, <1>9, <2>3, <2>4, TokenLost
  <2>6. DOMAIN moved' = {hash'[e] : e \in DOMAIN hash'}
    BY <1>6, <1>9, <2>2
  <2>7. \A x \in DOMAIN moved' : moved'[x] \in 0..3
    BY <1>5, <2>2
  <2>8. Counted'
    BY <2>5, <2>6, <2>7 DEF Counted
  <2> QED
    BY <1>1, <1>2, <1>9, <2>5, <2>8 DEF RefusalsIInv
<1> QED
  BY <1>4, <1>7, <1>8, <1>9

(* Every step keeps the account.                                           *)
LEMMA NextRefusals == RefusalsIInv /\ [Next]_vars => RefusalsIInv'
<1> SUFFICES ASSUME RefusalsIInv, [Next]_vars PROVE RefusalsIInv'
  OBVIOUS
<1>1. CASE \E p \in 0..(12 * ne - 1) : Insert(p)
  BY <1>1, InsertRefusals
<1>2. CASE \E p \in 0..(12 * ne - 1) : InsertFails(p)
  BY <1>2, InsertFailsRefusals
<1>3. CASE NoRoom \/ NoTable
  BY <1>3 DEF NoRoom, NoTable, Fail, RefusalsIInv
<1>4. CASE MarkEnd
  BY <1>4, MarkEndRefusals
<1>5. CASE Skip
  BY <1>5, ReturnRefusals DEF Skip
<1>6. CASE GoOn
  BY <1>6 DEF GoOn, RefusalsIInv
<1>7. CASE Simulate
  BY <1>7, SimulateRefusals
<1>8. CASE SweepEnd
  BY <1>8 DEF SweepEnd, RefusalsIInv, Counted, Tokens
<1>9. CASE Cut
  <2>1. stage = "cut" /\ stage' = "cut" /\ UNCHANGED <<nap, refused>>
    BY <1>9 DEF Cut
  <2> QED
    BY <2>1 DEF RefusalsIInv
<1>10. CASE CutFails
  <2>1. stage' = "done" /\ UNCHANGED <<nap, refused>>
    BY <1>10 DEF CutFails, Fail
  <2> QED
    BY <2>1 DEF RefusalsIInv
<1>11. CASE CutEnd
  <2>1. CASE memlack
    <3>1. stage' = "done" /\ UNCHANGED <<nap, refused>>
      BY <1>11, <2>1 DEF CutEnd, Fail
    <3> QED
      BY <3>1 DEF RefusalsIInv
  <2>2. CASE ~memlack
    BY <1>11, <2>2, ReturnRefusals DEF CutEnd
  <2> QED
    BY <2>1, <2>2
<1>12. CASE UNCHANGED vars
  BY <1>12 DEF vars, RefusalsIInv, FewEdges, Counted, Tokens, wave
<1> QED
  BY <1>1, <1>2, <1>3, <1>4, <1>5, <1>6, <1>7, <1>8, <1>9, <1>10, <1>11, <1>12 DEF Next

(* MMG3D_anatets_iso refuses at most four simulations for each point that  *)
(* it has inserted, whatever the surface is: the loop of the simulations   *)
(* ends by itself.                                                         *)
THEOREM AnatetRefusalsEnd == Spec => []RefusalsEnd
<1>1. RefusalsIInv => RefusalsEnd
  BY DEF RefusalsIInv, RefusalsEnd
<1> QED
  BY <1>1, InitRefusals, NextRefusals, PTL DEF Spec


-------------------------------------------------------------------------------
(* Lists of points.                                                        *)

(* The rest of a list, and a list the other way round.                     *)
LEMMA TailTuple ==
  ASSUME NEW s, IsTuple(s), s # << >>
  PROVE  /\ 1 \in DOMAIN s /\ Head(s) = s[1]
         /\ IsTuple(Tail(s)) /\ DOMAIN Tail(s) = 1..(Len(s) - 1)
         /\ \A i \in DOMAIN Tail(s) : Tail(s)[i] = s[i + 1] /\ i + 1 \in DOMAIN s
<1> DEFINE S == {s[k] : k \in DOMAIN s}
<1>1. Len(s) \in Nat /\ DOMAIN s = 1..Len(s) /\ s \in Seq(S)
  BY TupleLen
<1> HIDE DEF S
<1>2. Len(s) > 0
  BY <1>1
<1>3. Tail(s) \in Seq(S) /\ Len(Tail(s)) = Len(s) - 1 /\ Head(s) = s[1]
  BY <1>1
<1>4. IsTuple(Tail(s))
  BY <1>3, SeqIsTuple
<1>5. DOMAIN Tail(s) = 1..(Len(s) - 1)
  BY <1>3, <1>4, TupleLen
<1>6. \A i \in 1..(Len(s) - 1) : Tail(s)[i] = s[i + 1]
  BY <1>1, <1>3
<1> QED
  BY <1>1, <1>2, <1>3, <1>4, <1>5, <1>6

(* A sequence backwards is one.                                            *)
LEMMA ReversedTuple ==
  ASSUME NEW s, IsTuple(s), IsInjective(s)
  PROVE  IsTuple(Reverse(s)) /\ IsInjective(Reverse(s)) /\ Range(Reverse(s)) = Range(s)
<1> DEFINE n == Len(s)
           r == Reverse(s)
<1>1. n \in Nat /\ DOMAIN s = 1..n
  BY TupleLen
<1>2. r = [i \in 1..n |-> s[(n - i) + 1]]
  BY DEF Reverse
<1> HIDE DEF n, r
<1>3. DOMAIN r = 1..n /\ \A i \in 1..n : r[i] = s[(n - i) + 1] /\ (n - i) + 1 \in 1..n
  BY <1>1, <1>2
<1>4. IsTuple(r)
  <2>1. r = [i \in 1..n |-> r[i]]
    BY <1>2
  <2> QED
    BY <1>1, <2>1, FunctionIsTuple
<1>5. IsInjective(r)
  <2> SUFFICES ASSUME NEW i \in 1..n, NEW j \in 1..n, r[i] = r[j] PROVE i = j
    BY <1>3 DEF IsInjective
  <2>1. (n - i) + 1 = (n - j) + 1
    BY <1>1, <1>3 DEF IsInjective
  <2> QED
    BY <1>1, <2>1
<1>6. Range(r) = Range(s)
  <2>1. \A i \in DOMAIN r : r[i] \in Range(s)
    BY <1>1, <1>3 DEF Range
  <2>2. \A j \in DOMAIN s : s[j] \in Range(r)
    <3> TAKE j \in DOMAIN s
    <3>1. (n - j) + 1 \in 1..n /\ (n - ((n - j) + 1)) + 1 = j
      BY <1>1
    <3>2. r[(n - j) + 1] = s[j]
      BY <1>3, <3>1
    <3> QED
      BY <1>3, <3>1, <3>2 DEF Range
  <2> QED
    BY <2>1, <2>2 DEF Range
<1> QED
  BY <1>4, <1>5, <1>6 DEF r

(* Two lists without a common element.                                     *)
LEMMA ListedTwice ==
  ASSUME NEW s, IsTuple(s), IsInjective(s), NEW t, IsTuple(t), IsInjective(t),
         Range(s) \intersect Range(t) = {}
  PROVE  IsTuple(s \o t) /\ IsInjective(s \o t) /\ Range(s \o t) = Range(s) \union Range(t)
<1> DEFINE st == s \o t
           n == Len(s)
           m == Len(t)
<1>1. n \in Nat /\ DOMAIN s = 1..n /\ m \in Nat /\ DOMAIN t = 1..m
  BY TupleLen
<1>2. /\ IsTuple(st) /\ Len(st) = n + m
      /\ \A k \in 1..n : st[k] = s[k]
      /\ \A k \in 1..m : st[n + k] = t[k]
      /\ \A k \in DOMAIN st : k \in 1..n \/ k - n \in 1..m
  BY TwoTuples
<1> HIDE DEF st, n, m
<1>3. DOMAIN st = 1..(n + m)
  BY <1>2, TupleLen
<1>4. \A k \in 1..(n + m) : \/ k \in 1..n /\ st[k] = s[k]
                            \/ k - n \in 1..m /\ st[k] = t[k - n]
  <2> TAKE k \in 1..(n + m)
  <2>1. CASE k \in 1..n
    BY <1>2, <2>1
  <2>2. CASE k - n \in 1..m
    <3>1. n + (k - n) = k
      BY <1>1
    <3> QED
      BY <1>2, <2>2, <3>1
  <2> QED
    BY <1>2, <1>3, <2>1, <2>2
<1>5. IsInjective(st)
  <2> SUFFICES ASSUME NEW i \in 1..(n + m), NEW j \in 1..(n + m), st[i] = st[j] PROVE i = j
    BY <1>3 DEF IsInjective
  <2>1. CASE i \in 1..n /\ st[i] = s[i] /\ j \in 1..n /\ st[j] = s[j]
    BY <1>1, <2>1 DEF IsInjective
  <2>2. CASE i - n \in 1..m /\ st[i] = t[i - n] /\ j - n \in 1..m /\ st[j] = t[j - n]
    <3>1. i - n = j - n
      BY <1>1, <2>2 DEF IsInjective
    <3> QED
      BY <1>1, <3>1
  <2>3. CASE i \in 1..n /\ st[i] = s[i] /\ j - n \in 1..m /\ st[j] = t[j - n]
    BY <1>1, <2>3 DEF Range
  <2>4. CASE i - n \in 1..m /\ st[i] = t[i - n] /\ j \in 1..n /\ st[j] = s[j]
    BY <1>1, <2>4 DEF Range
  <2> QED
    BY <1>4, <2>1, <2>2, <2>3, <2>4
<1>6. ASSUME NEW x PROVE x \in Range(st) <=> x \in Range(s) \union Range(t)
  <2>1. ASSUME x \in Range(st) PROVE x \in Range(s) \union Range(t)
    <3>1. PICK k \in 1..(n + m) : st[k] = x
      BY <1>3, <2>1 DEF Range
    <3> QED
      BY <1>1, <1>4, <3>1 DEF Range
  <2>2. ASSUME x \in Range(s) PROVE x \in Range(st)
    <3>1. PICK k \in 1..n : s[k] = x
      BY <1>1, <2>2 DEF Range
    <3>2. k \in 1..(n + m) /\ st[k] = x
      BY <1>1, <1>2, <3>1
    <3> QED
      BY <1>3, <3>2 DEF Range
  <2>3. ASSUME x \in Range(t) PROVE x \in Range(st)
    <3>1. PICK k \in 1..m : t[k] = x
      BY <1>1, <2>3 DEF Range
    <3>2. n + k \in 1..(n + m) /\ st[n + k] = x
      BY <1>1, <1>2, <3>1
    <3> QED
      BY <1>3, <3>2 DEF Range
  <2> QED
    BY <2>1, <2>2, <2>3
<1> QED
  BY <1>2, <1>5, <1>6 DEF st

-------------------------------------------------------------------------------
(* The loop of simulations has ended because its last sweep has refused    *)
(* nothing, and not because of the number of its sweeps.  Otherwise the    *)
(* flags that anatets cuts with may be stale.                              *)
SweepsSuffice == stage = "cut" => ni = 0

(* A sweep that is not the last one has refused something.                 *)
SweepsIInv ==
    /\ stage \in {"mark", "check"} => ni = 0 /\ it = 1 /\ refused = 0
    /\ ni \in Nat /\ it \in Nat /\ refused \in Nat
    /\ stage \in {"sim", "cut"} => refused >= it - 1 + ni
    /\ stage = "cut" /\ ni > 0 => it + 1 >= MaxSweeps

(* Every step keeps it.                                                    *)
LEMMA NextSweeps == SweepsIInv /\ [Next]_vars => SweepsIInv'
<1> SUFFICES ASSUME SweepsIInv, [Next]_vars PROVE SweepsIInv'
  OBVIOUS
<1>1. ASSUME Return PROVE SweepsIInv'
  BY <1>1 DEF Return, SweepsIInv
<1>2. ASSUME Fail, UNCHANGED <<ni, it, refused>> PROVE SweepsIInv'
  BY <1>2 DEF Fail, SweepsIInv
<1>3. CASE \E p \in 0..(12 * ne - 1) : Insert(p)
  BY <1>3 DEF Insert, Create, SweepsIInv
<1>4. CASE NoTable \/ \E p \in 0..(12 * ne - 1) : InsertFails(p)
  BY <1>2, <1>4 DEF NoTable, InsertFails, Create, SweepsIInv
<1>5. CASE NoRoom
  BY <1>2, <1>5 DEF NoRoom, SweepsIInv
<1>6. CASE MarkEnd
  BY <1>1, <1>6 DEF MarkEnd, SweepsIInv
<1>7. CASE Skip
  BY <1>1, <1>7 DEF Skip
<1>8. CASE GoOn
  BY <1>8 DEF GoOn, SweepsIInv
<1>9. CASE Simulate
  BY <1>9 DEF Simulate, SweepsIInv
<1>10. CASE SweepEnd
  BY <1>10 DEF SweepEnd, SweepsIInv, MaxSweeps
<1>11. CASE Cut
  BY <1>11 DEF Cut, SweepsIInv
<1>12. CASE CutFails
  BY <1>2, <1>12 DEF CutFails
<1>13. CASE CutEnd
  BY <1>1, <1>2, <1>13 DEF CutEnd
<1>14. CASE UNCHANGED vars
  BY <1>14 DEF vars, SweepsIInv
<1> QED
  BY <1>3, <1>4, <1>5, <1>6, <1>7, <1>8, <1>9, <1>10, <1>11, <1>12, <1>13, <1>14 DEF Next

(* Whatever the mesh is, forty sweeps suffice as long as the simulations   *)
(* have refused less often than that; a wave of at most nine points never  *)
(* reaches the limit.                                                      *)
THEOREM AnatetSweepsSuffice ==
  Spec => []((refused + 1 < MaxSweeps \/ nap <= 9) => SweepsSuffice)
<1>1. Init => SweepsIInv
  BY DEF Init, SweepsIInv
<1>2. SweepsIInv /\ RefusalsEnd /\ nap \in Nat =>
         ((refused + 1 < MaxSweeps \/ nap <= 9) => SweepsSuffice)
  BY DEF SweepsIInv, RefusalsEnd, SweepsSuffice, MaxSweeps
<1>3. RefusalsIInv => RefusalsEnd /\ nap \in Nat
  BY DEF RefusalsIInv, RefusalsEnd
<1> QED
  BY <1>1, <1>2, <1>3, NextSweeps, InitRefusals, NextRefusals, PTL DEF Spec

(* The invariant.  The points of the wave are those of hash; a pending     *)
(* tetrahedron is one that the wave may still cut.                         *)
Corner(k) == {tetra[k].v[i] : i \in Local}
NewPts    == {hash[e] : e \in DOMAIN hash} \ {-1}
Pending   == CASE stage \in {"mark", "sim", "check"} -> DOMAIN tetra
               [] stage = "cut"                      -> at..last
               [] OTHER                              -> {}

Limits ==
    /\ IsTuple(mesh.waves) /\ \A w \in DOMAIN mesh.waves : mesh.waves[w] \in Waves
    /\ mesh.npmax \in Nat /\ mesh.nemax \in Nat
    /\ mesh.maxRefused \in Nat

Control ==
    /\ call \in DOMAIN mesh.waves
    /\ stage \in {"mark", "sim", "check", "cut", "done"} /\ ret \in {"ok", "failed", "leaked"}
    /\ stage = "sim" => wave = "surf"
    /\ stage = "check" => wave = "vol"
    /\ broken => stage = "done"
    /\ ret = "leaked" => stage = "done" /\ nap # 0

Counters ==
    /\ at \in Nat /\ last \in Nat /\ it \in 1..MaxSweeps /\ ni \in Nat
    /\ nap \in Nat /\ refused \in Nat
    /\ stage \in {"sim", "cut"} => at >= 1
    /\ stage = "mark" /\ at = 0 => nap = 0
    /\ stage = "cut" => last <= ne

Lengths == IsTuple(tetra) /\ IsTuple(xtetra) /\ IsTuple(free)

IsTetra(t) == t = [v |-> t.v, ref |-> t.ref, req |-> t.req, xt |-> t.xt, flag |-> t.flag,
                   six |-> t.six, op3 |-> t.op3]

Tetrahedron(t) ==
    /\ IsTetra(t) /\ t.v \in [Local -> DOMAIN point] /\ IsInjective(t.v)
    /\ t.xt \in 0..Len(xtetra) /\ t.flag \in SUBSET Edge /\ t.req \in BOOLEAN

Tets == \A k \in DOMAIN tetra : Tetrahedron(tetra[k])

XTets ==
    stage # "done" =>
        \A j, k \in DOMAIN tetra : tetra[j].xt = tetra[k].xt /\ tetra[j].xt # 0 => j = k

(* The points in use and the free ones.                                    *)
Points ==
    /\ IsInjective(free) /\ Range(free) \intersect DOMAIN point = {}
    /\ Range(free) \union DOMAIN point = 1..mesh.npmax

(* No edge shares its point; no pending tetrahedron has one as a vertex.   *)
OwnPoints ==
    /\ \A e \in DOMAIN hash : hash[e] \in {-1} \union DOMAIN point
    /\ \A e, f \in DOMAIN hash : hash[e] = hash[f] /\ hash[e] # -1 => e = f
    /\ nap = 0 => NewPts = {}

Apart == \A k \in Pending : Corner(k) \intersect NewPts = {}

Forbidden ==
    stage = "mark" /\ wave = "vol" =>
        \A k \in DOMAIN tetra, x \in Edge : tetra[k].req => Ends(k, x) \in DOMAIN hash

Hashed == stage # "done" => OwnPoints /\ Apart /\ Forbidden

(* A point in use is a vertex, or it will be one, unless the wave has been *)
(* left in the midst of an insertion.                                      *)
Vertex(q)   == \E k \in DOMAIN tetra : q \in Corner(k)
Expected(q) == \E k \in Pending : ~tetra[k].req /\ \E e \in FlagOf(k) : Vx(k)[e] = q
Used        == ~broken /\ ret # "leaked" => \A q \in DOMAIN point : Vertex(q) \/ Expected(q)

(* The flags follow hash, and the last simulation has seen them.           *)
UpToDate(k) == tetra[k].flag = FlagOf(k) /\ (FlagOf(k) # {} => accepted[k] = WillBeCut(k))

Before == stage \in {"mark", "check"} => ni = 0 /\ it = 1 /\ refused = 0

Sweeping ==
    stage = "sim" =>
        /\ refused >= it - 1 + ni /\ refused <= mesh.maxRefused
        /\ \A k \in DOMAIN tetra : ~tetra[k].req => FlagOf(k) \subseteq tetra[k].flag
        /\ \A k \in DOMAIN tetra : ~tetra[k].req /\ ni = 0 /\ k < at => UpToDate(k)

Cutting == stage = "cut" /\ wave = "surf" => \A k \in at..last : ~tetra[k].req => UpToDate(k)

Flags ==
    /\ stage # "done" => DOMAIN accepted = DOMAIN tetra
    /\ Before /\ Sweeping /\ Cutting

IInv ==
    /\ Limits /\ Control /\ Counters /\ Lengths
    /\ Tets /\ XTets /\ Points /\ Hashed /\ Used /\ Flags

-------------------------------------------------------------------------------
(* What follows from it at once.                                           *)
LEMMA Numbers ==
  ASSUME Lengths
  PROVE  ne \in Nat /\ DOMAIN tetra = 1..ne /\ Len(xtetra) \in Nat
BY TupleLen DEF Lengths, ne

(* There are two waves.                                                    *)
LEMMA TheWave ==
  ASSUME Limits, Control
  PROVE  wave \in {"surf", "vol"}
BY DEF Limits, Control, wave, Waves

(* A new point is in use.                                                  *)
LEMMA NewPtsInUse ==
  ASSUME OwnPoints
  PROVE  NewPts \subseteq DOMAIN point
BY DEF OwnPoints, NewPts

(* Two edges of a tetrahedron have different local ends.                   *)
LEMMA EdgesApart ==
  ASSUME NEW e \in Edge, NEW f \in Edge, iare[e] = iare[f]
  PROVE  e = f
<1>1. /\ iare[0] = {0, 1} /\ iare[1] = {0, 2} /\ iare[2] = {0, 3}
      /\ iare[3] = {1, 2} /\ iare[4] = {1, 3} /\ iare[5] = {2, 3}
  BY DEF iare, Array
<1>2. e \in {0, 1, 2, 3, 4, 5} /\ f \in {0, 1, 2, 3, 4, 5}
  BY DEF Edge
<1> HIDE DEF iare
<1>3. ASSUME NEW a \in Local, NEW b \in Local PROVE a \in iare[e] /\ b \in iare[e] => a \in iare[f] /\ b \in iare[f]
  OBVIOUS
<1> QED
  BY <1>1, <1>2, <1>3 DEF Local

(* The ends of an edge are two of the four vertices.                       *)
LEMMA EdgesIn ==
  ASSUME NEW e \in Edge
  PROVE  iare[e] \subseteq Local
<1>1. /\ iare[0] = {0, 1} /\ iare[1] = {0, 2} /\ iare[2] = {0, 3}
      /\ iare[3] = {1, 2} /\ iare[4] = {1, 3} /\ iare[5] = {2, 3}
  BY DEF iare, Array
<1> QED
  BY <1>1 DEF Edge, Local

(* Two edges of a tetrahedron have different ends in the mesh.             *)
LEMMA EndsApart ==
  ASSUME Tets, NEW k \in DOMAIN tetra, NEW e \in Edge, NEW f \in Edge, Ends(k, e) = Ends(k, f)
  PROVE  e = f
<1>1. tetra[k].v \in [Local -> DOMAIN point] /\ IsInjective(tetra[k].v)
  BY DEF Tets, Tetrahedron
<1>2. iare[e] \subseteq Local /\ iare[f] \subseteq Local
  BY EdgesIn
<1>3. \A i \in iare[e] : i \in iare[f]
  <2> TAKE i \in iare[e]
  <2>1. tetra[k].v[i] \in Ends(k, f)
    BY DEF Ends
  <2>2. PICK j \in iare[f] : tetra[k].v[j] = tetra[k].v[i]
    BY <2>1 DEF Ends
  <2> QED
    BY <1>1, <1>2, <2>2 DEF IsInjective
<1>4. \A i \in iare[f] : i \in iare[e]
  <2> TAKE i \in iare[f]
  <2>1. tetra[k].v[i] \in Ends(k, e)
    BY DEF Ends
  <2>2. PICK j \in iare[e] : tetra[k].v[j] = tetra[k].v[i]
    BY <2>1 DEF Ends
  <2> QED
    BY <1>1, <1>2, <2>2 DEF IsInjective
<1>5. iare[e] = iare[f]
  BY <1>3, <1>4
<1> QED
  BY <1>5, EdgesApart

(* Two edges of a tetrahedron have different points.                       *)
LEMMA OwnVx ==
  ASSUME Tets, OwnPoints, NEW k \in DOMAIN tetra, NEW e \in FlagOf(k), NEW f \in FlagOf(k),
         Vx(k)[e] = Vx(k)[f]
  PROVE  e = f
<1>1. /\ e \in Edge /\ Ends(k, e) \in DOMAIN hash /\ Vx(k)[e] = hash[Ends(k, e)] /\ Vx(k)[e] > 0
      /\ f \in Edge /\ Ends(k, f) \in DOMAIN hash /\ Vx(k)[f] = hash[Ends(k, f)]
  BY VxPoints
<1>2. hash[Ends(k, e)] # -1
  BY <1>1
<1>3. Ends(k, e) = Ends(k, f)
  BY <1>1, <1>2 DEF OwnPoints
<1> QED
  BY <1>1, <1>3, EndsApart

(* The point of an edge is one of the new ones.                            *)
LEMMA VxNew ==
  ASSUME NEW k, NEW e \in FlagOf(k)
  PROVE  Vx(k)[e] \in NewPts
<1>1. Ends(k, e) \in DOMAIN hash /\ Vx(k)[e] = hash[Ends(k, e)] /\ Vx(k)[e] > 0
  BY VxPoints
<1>2. Vx(k)[e] # -1
  BY <1>1
<1> QED
  BY <1>1, <1>2 DEF NewPts

-------------------------------------------------------------------------------
(* What a step leaves alone.                                               *)
SameTetra(k) == tetra'[k].v = tetra[k].v /\ tetra'[k].xt = tetra[k].xt

(* A tetrahedron with the same vertices and the same tags has the same     *)
(* points on its edges.                                                    *)
LEMMA SameVx ==
  ASSUME NEW k, SameTetra(k), tetra[k].xt # 0 => xtetra'[tetra[k].xt] = xtetra[tetra[k].xt],
         mesh' = mesh, hash' = hash
  PROVE  /\ Vx(k)' = Vx(k) /\ FlagOf(k)' = FlagOf(k) /\ WillBeCut(k)' = WillBeCut(k)
         /\ Corner(k)' = Corner(k)
<1>1. \A e : Ends(k, e)' = Ends(k, e)
  BY DEF SameTetra, Ends
<1>2. \A e : HasReqTag(k, e)' <=> HasReqTag(k, e)
  BY DEF SameTetra, HasReqTag
<1>3. \A e : HashGet(e)' = HashGet(e)
  BY DEF HashGet
<1>4. Vx(k)' = Vx(k)
  BY <1>1, <1>2, <1>3 DEF Vx
<1>5. FlagOf(k)' = FlagOf(k)
  BY <1>4 DEF FlagOf
<1>6. \A u : Global(k, u)' = Global(k, u)
  BY <1>4 DEF Global, SameTetra
<1>7. WillBeCut(k)' = WillBeCut(k)
  BY <1>5, <1>6 DEF WillBeCut, SameTetra
<1> QED
  BY <1>4, <1>5, <1>7 DEF Corner, SameTetra

(* Nothing that the flags depend on has changed.                           *)
SameMesh == mesh' = mesh /\ tetra' = tetra /\ xtetra' = xtetra

(* So it is for all of them when the mesh has not changed.                 *)
LEMMA SameMeshVx ==
  ASSUME SameMesh, hash' = hash
  PROVE  \A k : /\ Vx(k)' = Vx(k) /\ FlagOf(k)' = FlagOf(k) /\ WillBeCut(k)' = WillBeCut(k)
                /\ Corner(k)' = Corner(k)
<1> TAKE k
<1>1. SameTetra(k) /\ xtetra'[tetra[k].xt] = xtetra[tetra[k].xt]
  BY DEF SameTetra, SameMesh
<1> QED
  BY <1>1, SameVx DEF SameMesh

(* A list of points goes back to the free ones.                            *)
LEMMA GivenBack ==
  ASSUME Lengths, Points, mesh' = mesh, NEW s, IsTuple(s), IsInjective(s),
         Range(s) \subseteq DOMAIN point,
         free' = s \o free, DOMAIN point' = DOMAIN point \ Range(s)
  PROVE  IsTuple(free') /\ Points'
<1>1. IsTuple(free) /\ IsInjective(free) /\ Range(s) \intersect Range(free) = {}
  BY DEF Lengths, Points
<1>2. IsTuple(free') /\ IsInjective(free') /\ Range(free') = Range(s) \union Range(free)
  BY <1>1, ListedTwice
<1>3. Range(free') \intersect DOMAIN point' = {}
  BY <1>2 DEF Points
<1>4. Range(free') \union DOMAIN point' = 1..mesh'.npmax
  BY <1>2 DEF Points
<1> QED
  BY <1>2, <1>3, <1>4 DEF Points

-------------------------------------------------------------------------------
(* A wave begins.                                                          *)

(* Every point in use is a vertex.                                         *)
AllVertices == \A q \in DOMAIN point : Vertex(q)

(* No edge has a point at the beginning, and anatetv has put those of the  *)
(* required tetrahedra in its table.                                       *)
LEMMA StartHash ==
  ASSUME NEW w, NEW ts, NEW xs
  PROVE  /\ \A e \in DOMAIN HashAtStart(w, ts, xs) : HashAtStart(w, ts, xs)[e] = -1
         /\ w = "vol" =>
                \A k \in DOMAIN ts, i \in Edge :
                    ts[k].req => {ts[k].v[j] : j \in iare[i]} \in DOMAIN HashAtStart(w, ts, xs)
<1> DEFINE ends(k, i) == {ts[k].v[j] : j \in iare[i]}
           req == UNION {{ends(k, i) : i \in Edge} : k \in {l \in DOMAIN ts : ts[l].req}}
           faces(k) == {f \in Local : xs[ts[k].xt].ftag[f] # {}}
           bdy == UNION {{ends(k, iarf[f][j]) : f \in faces(k), j \in 1..3} :
                         k \in {l \in DOMAIN ts : ~ts[l].req /\ ts[l].xt # 0}}
<1>1. HashBoundary(ts, xs) = [e \in req \union bdy |-> -1]
  BY DEF HashBoundary
<1>2. \A k \in DOMAIN ts, i \in Edge : ts[k].req => ends(k, i) \in req
  OBVIOUS
<1> HIDE DEF req, bdy
<1>3. \A e \in DOMAIN HashAtStart(w, ts, xs) : HashAtStart(w, ts, xs)[e] = -1
  BY <1>1 DEF HashAtStart, EmptyHash
<1>4. ASSUME w = "vol" PROVE req \subseteq DOMAIN HashAtStart(w, ts, xs)
  BY <1>1, <1>4 DEF HashAtStart
<1> QED
  BY <1>2, <1>3, <1>4

(* The analysis of the initial mesh: the facts about it that are needed.   *)
LEMMA InitialMesh ==
  ASSUME Init
  PROVE  /\ Limits
         /\ \E n \in Nat : DOMAIN mesh.tets = 1..n
         /\ IsTuple(mesh.coord) /\ mesh.waves # << >> /\ mesh.npmax >= Len(mesh.coord)
         /\ \A k \in DOMAIN mesh.tets :
               /\ IsTuple(mesh.tets[k]) /\ Len(mesh.tets[k]) = 4 /\ IsInjective(mesh.tets[k])
               /\ \A i \in 1..4 : mesh.tets[k][i] \in DOMAIN mesh.coord
         /\ \A p \in DOMAIN mesh.coord : \E k \in DOMAIN mesh.tets : p \in Range(mesh.tets[k])
<1>1. PICK m \in Meshes : mesh = Analysed(m)
  BY DEF Init
<1>2. /\ mesh.tets = m.tets /\ mesh.coord = m.coord /\ mesh.waves = m.waves
      /\ mesh.npmax = m.npmax /\ mesh.nemax = m.nemax /\ mesh.maxRefused = m.maxRefused
  BY <1>1 DEF Analysed
<1>3. MeshRecord(m)
  BY MeshesAssumption
<1>4. /\ m.coord \in Seq([1..3 -> Int]) /\ m.tets \in Seq(Seq(DOMAIN m.coord))
      /\ \A i \in DOMAIN m.tets : Len(m.tets[i]) = 4 /\ IsInjective(m.tets[i])
      /\ UNION {Range(m.tets[i]) : i \in DOMAIN m.tets} = DOMAIN m.coord
      /\ m.waves \in Seq(Waves) /\ m.waves # << >>
      /\ m.npmax \in Nat /\ m.nemax \in Nat /\ m.maxRefused \in Nat
      /\ m.npmax >= Len(m.coord)
  BY <1>3 DEF MeshRecord
<1>5. Limits
  <2>1. IsTuple(m.waves) /\ \A w \in DOMAIN m.waves : m.waves[w] \in Waves
    BY <1>4, SeqIsTuple
  <2> QED
    BY <1>2, <1>3, <1>4, <2>1 DEF Limits
<1>6. IsTuple(m.coord) /\ IsTuple(m.tets)
  BY <1>4, SeqIsTuple
<1>7. Len(m.tets) \in Nat /\ DOMAIN m.tets = 1..Len(m.tets)
  BY <1>6, TupleLen
<1>8. ASSUME NEW k \in DOMAIN m.tets
      PROVE  IsTuple(m.tets[k]) /\ \A i \in 1..4 : m.tets[k][i] \in DOMAIN m.coord
  <2>1. m.tets[k] \in Seq(DOMAIN m.coord)
    BY <1>4
  <2>2. IsTuple(m.tets[k])
    BY <2>1, SeqIsTuple
  <2>3. DOMAIN m.tets[k] = 1..4
    BY <1>4, <2>2, TupleLen
  <2> QED
    BY <2>1, <2>2, <2>3
<1>9. \A p \in DOMAIN m.coord : \E k \in DOMAIN m.tets : p \in Range(m.tets[k])
  BY <1>4
<1> QED
  BY <1>2, <1>4, <1>5, <1>6, <1>7, <1>8, <1>9

(* A tetrahedron of the initial mesh, from its row in the mesh.            *)
LEMMA InitialTetra ==
  ASSUME Init, NEW k \in DOMAIN mesh.tets
  PROVE  Tetrahedron(tetra[k]) /\ Corner(k) = Range(mesh.tets[k])
<1> DEFINE t == mesh.tets[k]
<1>1. IsTuple(t) /\ Len(t) = 4 /\ IsInjective(t) /\ \A i \in 1..4 : t[i] \in DOMAIN mesh.coord
  BY InitialMesh
<1>2. DOMAIN t = 1..4
  BY <1>1, TupleLen
<1>3. tetra[k] = Tetra0(k) /\ DOMAIN point = DOMAIN mesh.coord
  BY DEF Init
<1> HIDE DEF t
<1>4. Array(t) = [i \in Local |-> t[i + 1]]
  <2>1. 0..(Len(t) - 1) = Local
    BY <1>1 DEF Local
  <2> QED
    BY <2>1 DEF Array
<1>5. tetra[k].v = Array(t) /\ tetra[k].flag = {} /\ IsTetra(tetra[k])
  BY <1>3 DEF Tetra0, IsTetra, t
<1>6. tetra[k].req \in BOOLEAN
  BY <1>3 DEF Tetra0
<1>7. Array(t) \in [Local -> DOMAIN point]
  <2>1. \A i \in Local : t[i + 1] \in DOMAIN point
    BY <1>1, <1>3 DEF Local
  <2> QED
    BY <1>4, <2>1
<1>8. IsInjective(Array(t))
  <2> SUFFICES ASSUME NEW i \in Local, NEW j \in Local, t[i + 1] = t[j + 1] PROVE i = j
    BY <1>4 DEF IsInjective
  <2>1. i + 1 \in 1..4 /\ j + 1 \in 1..4
    BY DEF Local
  <2>2. i + 1 = j + 1
    BY <1>1, <1>2, <2>1 DEF IsInjective
  <2> QED
    BY <2>2 DEF Local
<1>9. tetra[k].xt \in 0..Len(xtetra)
  <2> DEFINE b == BdyTets
  <2>1. xtetra = [x \in DOMAIN b |-> XTetra0(b[x])]
    BY DEF Init
  <2>2. IsTuple(b)
    <3> DEFINE S == {l \in DOMAIN mesh.tets : kSubset(3, Corners(mesh, l)) \intersect mesh.bdy # {}}
    <3>1. PICK n \in Nat : DOMAIN mesh.tets = 1..n
      BY InitialMesh
    <3>2. IsFiniteSet(1..n) /\ S \subseteq 1..n
      BY <3>1, FS_Interval
    <3>3. b = Ascending(S)
      BY DEF BdyTets
    <3> HIDE DEF S, b
    <3>4. IsFiniteSet(S)
      BY <3>2, FS_Subset
    <3>5. \A x \in S : x \in Int
      BY <3>2
    <3> QED
      BY <3>3, <3>4, <3>5, AscendingLists DEF Lists
  <2>3. tetra[k].xt = IF k \in Range(b) THEN CHOOSE x \in DOMAIN b : b[x] = k ELSE 0
    BY <1>3 DEF Tetra0
  <2> HIDE DEF b
  <2>4. Len(b) \in Nat /\ DOMAIN b = 1..Len(b)
    BY <2>2, TupleLen
  <2>5. IsTuple(xtetra) /\ Len(xtetra) = Len(b)
    <3>1. xtetra = [x \in 1..Len(b) |-> xtetra[x]]
      BY <2>1, <2>4
    <3> QED
      BY <2>4, <3>1, FunctionIsTuple
  <2>6. ASSUME k \in Range(b) PROVE tetra[k].xt \in DOMAIN b
    BY <2>3, <2>6 DEF Range
  <2> QED
    BY <2>3, <2>4, <2>5, <2>6
<1>10. Corner(k) = Range(t)
  <2>1. ASSUME NEW i \in Local PROVE tetra[k].v[i] \in Range(t)
    <3>1. i + 1 \in 1..4
      BY DEF Local
    <3> QED
      BY <1>2, <1>4, <1>5, <3>1 DEF Range
  <2>2. ASSUME NEW i \in 1..4 PROVE t[i] \in Corner(k)
    <3>1. i - 1 \in Local /\ (i - 1) + 1 = i
      BY DEF Local
    <3>2. tetra[k].v[i - 1] = t[i]
      BY <1>4, <1>5, <3>1
    <3> QED
      BY <3>1, <3>2 DEF Corner
  <2> QED
    BY <1>2, <2>1, <2>2 DEF Corner, Range
<1> QED
  BY <1>5, <1>6, <1>7, <1>8, <1>9, <1>10 DEF Tetrahedron, t

(* The initial states.                                                     *)
LEMMA InitIInv == ASSUME Init PROVE IInv
<1>1. PICK n \in Nat : DOMAIN mesh.tets = 1..n
  BY InitialMesh
<1>2. tetra = [k \in 1..n |-> Tetra0(k)]
  BY <1>1 DEF Init
<1>3. IsTuple(tetra) /\ DOMAIN tetra = DOMAIN mesh.tets
  <2>1. tetra = [k \in 1..n |-> tetra[k]]
    BY <1>2
  <2> QED
    BY <1>1, <1>2, <2>1, FunctionIsTuple
<1>4. IsFiniteSet(1..n)
  BY FS_Interval
<1>5. Lists(BdyTets, {l \in DOMAIN mesh.tets : kSubset(3, Corners(mesh, l)) \intersect mesh.bdy # {}})
  <2> DEFINE S == {l \in DOMAIN mesh.tets : kSubset(3, Corners(mesh, l)) \intersect mesh.bdy # {}}
  <2>1. S \subseteq 1..n
    BY <1>1
  <2>2. BdyTets = Ascending(S)
    BY DEF BdyTets
  <2> HIDE DEF S
  <2>3. IsFiniteSet(S)
    BY <1>4, <2>1, FS_Subset
  <2>4. \A x \in S : x \in Int
    BY <2>1
  <2>5. Lists(Ascending(S), S)
    BY <2>3, <2>4, AscendingLists
  <2> QED
    BY <2>2, <2>5 DEF S
<1>6. Limits
  BY InitialMesh
<1>7. Control
  <2>1. Len(mesh.waves) \in Nat /\ DOMAIN mesh.waves = 1..Len(mesh.waves) /\ mesh.waves # << >>
    <3>1. IsTuple(mesh.waves) /\ mesh.waves # << >>
      BY <1>6, InitialMesh DEF Limits
    <3> QED
      BY <3>1, TupleLen
  <2>2. 1 \in DOMAIN mesh.waves
    <3>1. mesh.waves \in Seq({mesh.waves[k] : k \in DOMAIN mesh.waves})
      BY <1>6, TupleLen DEF Limits
    <3> QED
      BY <2>1, <3>1
  <2> QED
    BY <2>2 DEF Init, Control
<1>8. Counters
  BY DEF Init, Counters, MaxSweeps
<1>9. IsTuple(xtetra)
  <2>1. xtetra = [x \in DOMAIN BdyTets |-> XTetra0(BdyTets[x])]
    BY DEF Init
  <2>2. IsTuple(BdyTets)
    BY <1>5 DEF Lists
  <2>3. Len(BdyTets) \in Nat /\ DOMAIN BdyTets = 1..Len(BdyTets)
    BY <2>2, TupleLen
  <2>4. xtetra = [x \in 1..Len(BdyTets) |-> xtetra[x]]
    BY <2>1, <2>3
  <2> QED
    BY <2>3, <2>4, FunctionIsTuple
<1>10. Tets
  BY <1>3, InitialTetra DEF Tets
<1>11. XTets
  <2> DEFINE b == BdyTets
  <2>1. \A k \in DOMAIN tetra : tetra[k].xt = IF k \in Range(b) THEN CHOOSE x \in DOMAIN b : b[x] = k ELSE 0
    BY <1>1, <1>2 DEF Tetra0
  <2> HIDE DEF b
  <2>2. ASSUME NEW k \in DOMAIN tetra, tetra[k].xt # 0 PROVE b[tetra[k].xt] = k
    BY <2>1, <2>2 DEF Range
  <2> QED
    BY <2>2 DEF XTets
<1>12. Len(mesh.coord) \in Nat /\ DOMAIN mesh.coord = 1..Len(mesh.coord)
  BY InitialMesh, TupleLen
<1>13. IsTuple(free) /\ Points
  <2> DEFINE c == Len(mesh.coord)
             m == mesh.npmax
  <2>1. free = [i \in 1..(m - c) |-> c + i] /\ DOMAIN point = DOMAIN mesh.coord
    BY DEF Init
  <2>2. m \in Nat /\ m >= c
    BY <1>6, InitialMesh DEF Limits
  <2>3. c \in Nat /\ DOMAIN point = 1..c
    BY <1>12, <2>1
  <2> HIDE DEF c, m
  <2>4. DOMAIN free = 1..(m - c) /\ \A i \in 1..(m - c) : free[i] = c + i
    BY <2>1
  <2>5. IsTuple(free)
    <3>1. m - c \in Nat
      BY <2>2, <2>3
    <3>2. free = [i \in 1..(m - c) |-> free[i]]
      BY <2>1
    <3> QED
      BY <3>1, <3>2, FunctionIsTuple
  <2>6. IsInjective(free)
    BY <2>2, <2>3, <2>4 DEF IsInjective
  <2>7. Range(free) \intersect DOMAIN point = {}
    BY <2>2, <2>3, <2>4 DEF Range
  <2>8. Range(free) \union DOMAIN point = 1..m
    <3>1. ASSUME NEW q \in 1..m PROVE q \in Range(free) \union DOMAIN point
      <4>1. CASE q <= c
        BY <2>3, <4>1
      <4>2. CASE q > c
        <5>1. q - c \in DOMAIN free /\ free[q - c] = q
          BY <2>2, <2>3, <2>4, <4>2
        <5> QED
          BY <5>1 DEF Range
      <4> QED
        BY <2>3, <4>1, <4>2
    <3>2. ASSUME NEW q \in Range(free) PROVE q \in 1..m
      BY <2>2, <2>3, <2>4 DEF Range
    <3>3. ASSUME NEW q \in DOMAIN point PROVE q \in 1..m
      BY <2>2, <2>3
    <3> QED
      BY <3>1, <3>2, <3>3
  <2> QED
    BY <2>5, <2>6, <2>7, <2>8 DEF Points, m
<1>14. \A e \in DOMAIN hash : hash[e] = -1
  <2>1. hash = HashAtStart(wave, tetra, xtetra)
    BY DEF Init
  <2> QED
    BY <2>1, StartHash
<1>15. NewPts = {}
  BY <1>14 DEF NewPts
<1>16. Forbidden
  <2>1. hash = HashAtStart(wave, tetra, xtetra)
    BY DEF Init
  <2> QED
    BY <2>1, StartHash DEF Forbidden, Ends
<1>17. Hashed
  BY <1>14, <1>15, <1>16 DEF Hashed, OwnPoints, Apart
<1>18. Used
  <2> SUFFICES ASSUME NEW q \in DOMAIN point PROVE Vertex(q)
    BY DEF Used
  <2>1. q \in DOMAIN mesh.coord
    BY DEF Init
  <2>2. PICK k \in DOMAIN mesh.tets : q \in Range(mesh.tets[k])
    BY <2>1, InitialMesh
  <2>3. Corner(k) = Range(mesh.tets[k])
    BY InitialTetra
  <2> QED
    BY <1>3, <2>2, <2>3 DEF Vertex
<1>19. Flags
  <2>1. stage = "mark" /\ ni = 0 /\ it = 1 /\ refused = 0 /\ DOMAIN accepted = DOMAIN tetra
    BY DEF Init
  <2> QED
    BY <2>1 DEF Flags, Before, Sweeping, Cutting
<1> QED
  BY <1>3, <1>6, <1>7, <1>8, <1>9, <1>10, <1>11, <1>13, <1>17, <1>18, <1>19 DEF IInv, Lengths

(* The wave returns, with every point in use at a vertex.                  *)
LEMMA ReturnKeeps ==
  ASSUME IInv, stage # "done", Return, tetra' = tetra,
         IsTuple(free'), Tets', Points', AllVertices'
  PROVE  IInv'
<1>1. /\ mesh' = mesh /\ xtetra' = xtetra /\ last' = last /\ ret' = ret /\ broken' = broken
      /\ at' = 0 /\ ni' = 0 /\ it' = 1 /\ nap' = 0 /\ refused' = 0
      /\ accepted' = [k \in DOMAIN tetra |-> {}]
  BY DEF Return
<1>2. \/ /\ call < Len(mesh.waves) /\ call' = call + 1 /\ stage' = "mark"
         /\ hash' = HashAtStart(mesh.waves[call + 1], tetra, xtetra)
      \/ call' = call /\ stage' = "done"
  BY DEF Return
<1>3. Limits /\ Control /\ Counters /\ Lengths /\ XTets
  BY DEF IInv
<1>4. Limits' /\ Lengths'
  BY <1>1, <1>3 DEF Limits, Lengths
<1>5. Control'
  <2>1. Len(mesh.waves) \in Nat /\ DOMAIN mesh.waves = 1..Len(mesh.waves)
    BY <1>3, TupleLen DEF Limits
  <2>2. call' \in DOMAIN mesh.waves
    BY <1>2, <1>3, <2>1 DEF Control
  <2>3. ~broken
    BY <1>3 DEF Control
  <2> QED
    BY <1>1, <1>2, <1>3, <2>2, <2>3 DEF Control
<1>6. Counters'
  BY <1>1, <1>2, <1>3 DEF Counters, MaxSweeps
<1>7. XTets'
  BY <1>3 DEF XTets
<1>8. Hashed'
  <2> SUFFICES ASSUME stage' # "done" PROVE Hashed'
    BY DEF Hashed
  <2> DEFINE w == mesh.waves[call + 1]
  <2>1. hash' = HashAtStart(w, tetra, xtetra) /\ wave' = w
    BY <1>1, <1>2 DEF wave
  <2> HIDE DEF w
  <2>2. \A e \in DOMAIN hash' : hash'[e] = -1
    BY <2>1, StartHash
  <2>3. NewPts' = {}
    BY <2>2 DEF NewPts
  <2>4. OwnPoints'
    BY <2>2, <2>3 DEF OwnPoints
  <2>5. Apart'
    BY <2>3 DEF Apart
  <2>6. Forbidden'
    <3> SUFFICES ASSUME w = "vol", NEW k \in DOMAIN tetra, NEW x \in Edge, tetra[k].req
                 PROVE  Ends(k, x)' \in DOMAIN hash'
      BY <2>1 DEF Forbidden
    <3>1. {tetra[k].v[j] : j \in iare[x]} \in DOMAIN HashAtStart(w, tetra, xtetra)
      BY StartHash
    <3> QED
      BY <2>1, <3>1 DEF Ends
  <2> QED
    BY <2>4, <2>5, <2>6 DEF Hashed
<1>9. Used'
  BY DEF Used, AllVertices
<1>10. Flags'
  <2>1. DOMAIN accepted' = DOMAIN tetra'
    BY <1>1
  <2> QED
    BY <1>1, <1>2, <2>1 DEF Flags, Before, Sweeping, Cutting
<1> QED
  BY <1>4, <1>5, <1>6, <1>7, <1>8, <1>9, <1>10 DEF IInv

(* Nothing is left to cut: every point in use is a vertex.                 *)
LEMMA NoneExpected ==
  ASSUME IInv, stage # "done", \A q \in DOMAIN point : ~Expected(q)
  PROVE  AllVertices
<1>1. ~broken /\ ret # "leaked"
  BY DEF IInv, Control
<1> QED
  BY <1>1 DEF IInv, Used, AllVertices

(* The points of the wave are given back: the vertices stay.               *)
LEMMA DeletionKeeps ==
  ASSUME IInv, stage \in {"mark", "check"}, DelPatternPts,
         mesh' = mesh, tetra' = tetra, xtetra' = xtetra
  PROVE  IsTuple(free') /\ Points' /\ Tets' /\ AllVertices'
<1> DEFINE R == PatternPts
<1>1. Limits /\ Lengths /\ Points /\ Tets /\ OwnPoints /\ Apart /\ Pending = DOMAIN tetra
  BY DEF IInv, Hashed, Pending
<1>2. R \subseteq NewPts
  <2> SUFFICES ASSUME NEW q \in R PROVE q \in NewPts
    OBVIOUS
  <2>1. PICK l \in DOMAIN tetra : ~tetra[l].req /\ q \in Range(Vx(l)) /\ q > 0
    BY DEF PatternPts
  <2>2. PICK e \in Edge : q = Vx(l)[e]
    BY <2>1 DEF Range, Vx
  <2>3. e \in FlagOf(l)
    BY <2>1, <2>2 DEF FlagOf
  <2> QED
    BY <2>2, <2>3, VxNew
<1>3. ASSUME NEW q, Expected(q) PROVE q \in R
  <2>1. PICK k \in DOMAIN tetra : ~tetra[k].req /\ \E e \in FlagOf(k) : Vx(k)[e] = q
    BY <1>1, <1>3 DEF Expected
  <2>2. PICK e \in FlagOf(k) : Vx(k)[e] = q
    BY <2>1
  <2>3. e \in Edge /\ q > 0
    BY <2>2, VxPoints
  <2>4. q \in Range(Vx(k))
    BY <2>2, <2>3 DEF Range, Vx
  <2> QED
    BY <2>1, <2>3, <2>4 DEF PatternPts
<1>4. free' = Ascending(R) \o free /\ point' = [q \in DOMAIN point \ R |-> point[q]]
  BY DEF DelPatternPts
<1> HIDE DEF R
<1>5. R \subseteq DOMAIN point
  BY <1>1, <1>2, NewPtsInUse
<1>6. R \subseteq 1..mesh.npmax
  BY <1>1, <1>5 DEF Points
<1>7. IsFiniteSet(R)
  <2>1. IsFiniteSet(1..mesh.npmax)
    BY <1>1, FiniteUpTo DEF Limits
  <2> QED
    BY <1>6, <2>1, FS_Subset
<1>8. \A x \in R : x \in Int
  BY <1>1, <1>6 DEF Limits
<1>9. Lists(Ascending(R), R)
  BY <1>7, <1>8, AscendingLists
<1>10. IsTuple(Ascending(R)) /\ IsInjective(Ascending(R)) /\ Range(Ascending(R)) = R
  BY <1>9 DEF Lists, IsInjective, Range
<1>11. DOMAIN point' = DOMAIN point \ R
  BY <1>4
<1>12. IsTuple(free') /\ Points'
  BY <1>1, <1>4, <1>5, <1>10, <1>11, GivenBack
<1>13. Tets'
  <2> SUFFICES ASSUME NEW k \in DOMAIN tetra PROVE Tetrahedron(tetra[k])'
    BY DEF Tets
  <2>1. Tetrahedron(tetra[k])
    BY <1>1 DEF Tets
  <2>2. tetra[k].v \in [Local -> DOMAIN point] /\ Corner(k) \intersect R = {}
    BY <1>1, <1>2, <2>1 DEF Tetrahedron, Apart
  <2>3. \A i \in Local : tetra[k].v[i] \in DOMAIN point'
    BY <1>11, <2>2 DEF Corner
  <2>4. tetra[k].v \in [Local -> DOMAIN point']
    BY <2>2, <2>3
  <2> QED
    BY <2>1, <2>4 DEF Tetrahedron, IsTetra
<1>14. AllVertices'
  <2> SUFFICES ASSUME NEW q \in DOMAIN point, q \notin R PROVE Vertex(q)'
    BY <1>11 DEF AllVertices
  <2>1. ~broken /\ ret # "leaked"
    BY DEF IInv, Control
  <2>2. Vertex(q)
    BY <1>3, <2>1 DEF IInv, Used
  <2> QED
    BY <2>2 DEF Vertex, Corner
<1> QED
  BY <1>12, <1>13, <1>14

-------------------------------------------------------------------------------
(* The analysis of a wave.                                                 *)

(* The position of a loop denotes an edge of a tetrahedron.                *)
LEMMA EdgeOfPosition ==
  ASSUME Limits, Control, Lengths, at \in Nat, NEW p, p \in Positions, Examined(p),
         OwnPoints, EdgeAt(p) \notin DOMAIN hash, Forbidden, stage = "mark"
  PROVE  /\ p \in Nat
         /\ \E k \in DOMAIN tetra, e \in Edge :
               /\ ~tetra[k].req /\ ~HasReqTag(k, e) /\ EdgeAt(p) = Ends(k, e)
               /\ wave = "surf" => tetra[k].xt # 0
<1>1. ne \in Nat /\ DOMAIN tetra = 1..ne
  BY Numbers
<1>2. CASE wave = "surf"
  <2>1. p \in Nat /\ p \in 0..(12 * ne - 1)
    BY <1>1, <1>2 DEF Positions
  <2> DEFINE k == (p \div 12) + 1
             f == (p % 12) \div 3
             j == (p % 3) + 1
  <2>2. k \in 1..ne /\ f \in 0..3 /\ j \in 1..3
    BY <1>1, <2>1
  <2> HIDE DEF k, f, j
  <2>3. SurfAt(p) = [k |-> k, f |-> f, e |-> iarf[f][j]]
    BY DEF SurfAt, k, f, j
  <2>4. iarf[f][j] \in Edge
    <3>1. /\ iarf[0] = <<5, 4, 3>> /\ iarf[1] = <<5, 1, 2>>
          /\ iarf[2] = <<4, 2, 0>> /\ iarf[3] = <<3, 0, 1>>
      BY DEF iarf, Array
    <3>2. f \in {0, 1, 2, 3} /\ j \in {1, 2, 3}
      BY <2>2
    <3> QED
      BY <3>1, <3>2 DEF Edge
  <2>5. ~tetra[k].req /\ ~HasReqTag(k, iarf[f][j]) /\ tetra[k].xt # 0
    BY <1>2, <2>3 DEF Examined
  <2>6. EdgeAt(p) = Ends(k, iarf[f][j])
    BY <1>2, <2>3 DEF EdgeAt
  <2> QED
    BY <1>1, <2>1, <2>2, <2>4, <2>5, <2>6
<1>3. CASE wave = "vol"
  <2>1. p \in Nat /\ p \in 0..(6 * ne - 1)
    BY <1>1, <1>3 DEF Positions
  <2> DEFINE k == (p \div 6) + 1
             e == p % 6
  <2>2. k \in DOMAIN tetra /\ e \in Edge
    BY <1>1, <2>1 DEF Edge
  <2> HIDE DEF k, e
  <2>3. VolAt(p) = [k |-> k, e |-> e]
    BY DEF VolAt, k, e
  <2>4. ~HasReqTag(k, e)
    BY <1>3, <2>3 DEF Examined
  <2>5. EdgeAt(p) = Ends(k, e)
    BY <1>3, <2>3 DEF EdgeAt
  <2>6. ~tetra[k].req
    BY <1>3, <2>2, <2>5 DEF Forbidden
  <2>7. ~(wave = "surf")
    BY <1>3
  <2> QED
    BY <2>1, <2>2, <2>4, <2>5, <2>6, <2>7
<1> QED
  BY <1>2, <1>3, TheWave

(* A point is made: it was free.                                           *)
LEMMA CreateKeeps ==
  ASSUME IInv, NEW p, Create(p), SameMesh
  PROVE  /\ Head(free) \in Nat /\ Head(free) > 0 /\ Head(free) \notin DOMAIN point
         /\ DOMAIN point' = DOMAIN point \union {Head(free)}
         /\ IsTuple(free') /\ Points' /\ Tets'
<1> DEFINE q0 == Head(free)
<1>1. free # << >> /\ free' = Tail(free) /\ DOMAIN point' = DOMAIN point \union {q0}
  BY DEF Create, With
<1>2. UNCHANGED <<mesh, tetra, xtetra>>
  BY DEF SameMesh
<1>3. Limits /\ Lengths /\ Tets /\ Points
  BY DEF IInv
<1>4. /\ q0 = free[1] /\ 1 \in DOMAIN free /\ IsTuple(free')
      /\ DOMAIN free' \subseteq Nat /\ \A i \in DOMAIN free' : free'[i] = free[i + 1] /\ i + 1 \in DOMAIN free
  <2>1. IsTuple(free)
    BY <1>3 DEF Lengths
  <2>2. /\ 1 \in DOMAIN free /\ Head(free) = free[1]
        /\ IsTuple(Tail(free)) /\ DOMAIN Tail(free) = 1..(Len(free) - 1)
        /\ \A i \in DOMAIN Tail(free) : Tail(free)[i] = free[i + 1] /\ i + 1 \in DOMAIN free
    BY <1>1, <2>1, TailTuple
  <2> QED
    BY <1>1, <2>2
<1>5. IsInjective(free) /\ Len(free) \in Nat /\ DOMAIN free = 1..Len(free)
      /\ Range(free) \intersect DOMAIN point = {} /\ Range(free) \union DOMAIN point = 1..mesh.npmax
      /\ DOMAIN free' = 1..(Len(free) - 1)
  <2>1. IsTuple(free)
    BY <1>3 DEF Lengths
  <2>2. DOMAIN Tail(free) = 1..(Len(free) - 1)
    BY <1>1, <2>1, TailTuple
  <2> QED
    BY <1>1, <1>3, <2>1, <2>2, TupleLen DEF Points
<1> HIDE DEF q0
<1>6. q0 \in Nat /\ q0 > 0 /\ q0 \notin DOMAIN point
  <2>1. q0 \in Range(free)
    BY <1>4 DEF Range
  <2>2. q0 \in 1..mesh.npmax /\ q0 \notin DOMAIN point
    BY <1>5, <2>1
  <2> QED
    BY <1>3, <2>2 DEF Limits
<1>7. Tets'
  <2> SUFFICES ASSUME NEW k \in DOMAIN tetra PROVE Tetrahedron(tetra[k])'
    BY <1>2, <1>3 DEF Tets
  <2>1. Tetrahedron(tetra[k])
    BY <1>3 DEF Tets
  <2>2. tetra[k].v \in [Local -> DOMAIN point']
    BY <1>1, <2>1 DEF Tetrahedron
  <2> QED
    BY <1>2, <2>1, <2>2 DEF Tetrahedron, IsTetra
<1>8. Points'
  <2>1. IsInjective(free')
    <3> SUFFICES ASSUME NEW i \in DOMAIN free', NEW j \in DOMAIN free', free'[i] = free'[j] PROVE i = j
      BY DEF IsInjective
    <3>1. i + 1 = j + 1
      BY <1>4, <1>5 DEF IsInjective
    <3>2. i \in Nat /\ j \in Nat
      BY <1>4
    <3> QED
      BY <3>1, <3>2
  <2>2. ASSUME NEW q \in Range(free') PROVE q \in Range(free) /\ q # q0
    <3>1. PICK i \in DOMAIN free' : q = free[i + 1] /\ i + 1 \in DOMAIN free
      BY <1>4, <2>2 DEF Range
    <3>2. i \in 1..(Len(free) - 1)
      BY <1>5
    <3>3. i + 1 # 1
      BY <3>2
    <3> QED
      BY <1>4, <1>5, <3>1, <3>3 DEF Range, IsInjective
  <2>3. ASSUME NEW q \in Range(free), q # q0 PROVE q \in Range(free')
    <3>1. PICK i \in 1..Len(free) : q = free[i]
      BY <1>5 DEF Range
    <3>2. i # 1
      BY <1>4, <2>3, <3>1
    <3>3. i - 1 \in 1..(Len(free) - 1) /\ (i - 1) + 1 = i
      BY <1>5, <3>2
    <3>4. free'[i - 1] = q
      BY <1>4, <1>5, <3>1, <3>3
    <3> QED
      BY <1>5, <3>3, <3>4 DEF Range
  <2>4. q0 \in Range(free)
    BY <1>4 DEF Range
  <2>5. Range(free') \intersect DOMAIN point' = {}
    BY <1>1, <1>5, <2>2 DEF q0
  <2>6. Range(free') \union DOMAIN point' = 1..mesh.npmax
    BY <1>1, <1>5, <2>2, <2>3, <2>4 DEF q0
  <2> QED
    BY <1>2, <2>1, <2>5, <2>6 DEF Points
<1> QED
  BY <1>1, <1>4, <1>6, <1>7, <1>8 DEF q0

(* An insertion.                                                           *)
LEMMA InsertKeeps ==
  ASSUME IInv, NEW p, Insert(p)
  PROVE  IInv'
<1> DEFINE q0 == Head(free)
           E  == EdgeAt(p)
<1>1. /\ stage = "mark" /\ stage' = "mark" /\ p \in Positions /\ Examined(p)
      /\ E \notin DOMAIN hash /\ free # << >>
      /\ hash' = With(hash, E, q0) /\ free' = Tail(free) /\ at' = p + 1 /\ nap' = nap + 1
      /\ DOMAIN point' = DOMAIN point \union {q0}
  BY DEF Insert, Create, Markable, With
<1>2. UNCHANGED <<mesh, tetra, xtetra, call, last, ni, it, ret, refused, accepted, broken>>
  BY DEF Insert
<1>3. /\ Limits /\ Control /\ Counters /\ Lengths /\ Tets /\ XTets /\ Points
      /\ OwnPoints /\ Apart /\ Forbidden /\ Used /\ Flags
  BY <1>1 DEF IInv, Hashed
<1>4. at \in Nat /\ nap \in Nat /\ ne \in Nat /\ DOMAIN tetra = 1..ne
  BY <1>3, Numbers DEF Counters
<1>5. PICK k0 \in DOMAIN tetra, e0 \in Edge : ~tetra[k0].req /\ ~HasReqTag(k0, e0) /\ E = Ends(k0, e0)
  BY <1>1, <1>3, <1>4, EdgeOfPosition
<1>6. p \in Nat
  BY <1>1, <1>3, <1>4, EdgeOfPosition
<1> HIDE DEF E
<1>7. /\ q0 \in Nat /\ q0 > 0 /\ q0 \notin DOMAIN point
      /\ DOMAIN point' = DOMAIN point \union {q0} /\ IsTuple(free') /\ Points' /\ Tets'
  BY <1>2, CreateKeeps DEF Insert, SameMesh
<1> HIDE DEF q0
<1>8. Limits' /\ Control' /\ Lengths'
  BY <1>1, <1>2, <1>3, <1>7 DEF Limits, Control, Lengths, wave
<1>9. Counters'
  BY <1>1, <1>2, <1>3, <1>6 DEF Counters
<1>10. XTets'
  BY <1>1, <1>2, <1>3 DEF XTets
<1>11. /\ DOMAIN hash' = DOMAIN hash \union {E} /\ hash'[E] = q0
       /\ \A e \in DOMAIN hash : hash'[e] = hash[e]
  BY <1>1 DEF With, q0, E
<1>12. OwnPoints'
  <2>1. \A e \in DOMAIN hash : hash[e] # q0
    BY <1>3, <1>7 DEF OwnPoints
  <2>2. \A e \in DOMAIN hash' : hash'[e] \in {-1} \union DOMAIN point'
    BY <1>3, <1>7, <1>11 DEF OwnPoints
  <2>3. \A e, f \in DOMAIN hash' : hash'[e] = hash'[f] /\ hash'[e] # -1 => e = f
    BY <1>3, <1>11, <2>1 DEF OwnPoints
  <2>4. nap' # 0
    BY <1>1, <1>4
  <2> QED
    BY <2>2, <2>3, <2>4 DEF OwnPoints
<1>13. Apart'
  <2>1. Pending' = Pending /\ Pending = DOMAIN tetra
    BY <1>1, <1>2 DEF Pending
  <2>2. NewPts' \subseteq NewPts \union {q0}
    BY <1>11 DEF NewPts
  <2> SUFFICES ASSUME NEW k \in DOMAIN tetra PROVE Corner(k) \intersect NewPts' = {}
    BY <1>2, <2>1 DEF Apart, Corner
  <2>3. Corner(k) \subseteq DOMAIN point
    BY <1>3 DEF Tets, Tetrahedron, Corner
  <2> QED
    BY <1>3, <1>7, <2>1, <2>2, <2>3 DEF Apart
<1>14. Forbidden'
  BY <1>1, <1>2, <1>3, <1>11 DEF Forbidden, Ends, wave
<1>15. Hashed'
  BY <1>12, <1>13, <1>14 DEF Hashed
<1>16. \A k, e : HasReqTag(k, e)' <=> HasReqTag(k, e)
  BY <1>2 DEF HasReqTag
<1>17. \A k, e : Ends(k, e)' = Ends(k, e)
  BY <1>2 DEF Ends
<1>18. ASSUME NEW k, NEW e \in FlagOf(k)
       PROVE  e \in FlagOf(k)' /\ Vx(k)'[e] = Vx(k)[e]
  <2>1. e \in Edge /\ Ends(k, e) \in DOMAIN hash /\ Vx(k)[e] = hash[Ends(k, e)] /\ Vx(k)[e] > 0
    BY VxPoints
  <2>2. ~HasReqTag(k, e)
    BY <2>1 DEF Vx
  <2>3. HashGet(Ends(k, e))' = hash[Ends(k, e)]
    BY <1>11, <1>17, <2>1 DEF HashGet
  <2>4. Vx(k)'[e] = Vx(k)[e]
    BY <1>16, <2>1, <2>2, <2>3 DEF Vx
  <2> QED
    BY <2>1, <2>4 DEF FlagOf
<1>19. e0 \in FlagOf(k0)' /\ Vx(k0)'[e0] = q0
  <2>1. HashGet(Ends(k0, e0))' = q0
    BY <1>5, <1>11, <1>17 DEF HashGet
  <2>2. Vx(k0)'[e0] = q0
    BY <1>5, <1>16, <2>1 DEF Vx
  <2> QED
    BY <1>7, <2>2 DEF FlagOf
<1>20. Used'
  <2>1. Pending' = DOMAIN tetra /\ Pending = DOMAIN tetra
    BY <1>1, <1>2 DEF Pending
  <2> SUFFICES ASSUME NEW q \in DOMAIN point', ~broken PROVE Vertex(q)' \/ Expected(q)'
    BY <1>2 DEF Used
  <2>2. CASE q = q0
    BY <1>2, <1>5, <1>19, <2>1, <2>2 DEF Expected
  <2>3. CASE q \in DOMAIN point /\ Vertex(q)
    BY <1>2, <2>3 DEF Vertex, Corner
  <2>4. CASE q \in DOMAIN point /\ Expected(q)
    <3>1. PICK k \in DOMAIN tetra : ~tetra[k].req /\ \E e \in FlagOf(k) : Vx(k)[e] = q
      BY <2>1, <2>4 DEF Expected
    <3>2. PICK e \in FlagOf(k) : Vx(k)[e] = q
      BY <3>1
    <3>3. e \in FlagOf(k)' /\ Vx(k)'[e] = q
      BY <1>18, <3>2
    <3> QED
      BY <1>2, <2>1, <3>1, <3>3 DEF Expected
  <2>5. ret # "leaked"
    BY <1>1, <1>3 DEF Control
  <2> QED
    BY <1>3, <1>7, <2>2, <2>3, <2>4, <2>5 DEF Used
<1>21. Flags'
  BY <1>1, <1>2, <1>3 DEF Flags, Before, Sweeping, Cutting
<1> QED
  BY <1>8, <1>9, <1>10, <1>7, <1>15, <1>20, <1>21 DEF IInv

(* The wave is left with a point that no edge has.                         *)
LEMMA InsertFailsKeeps ==
  ASSUME IInv, NEW p, InsertFails(p)
  PROVE  IInv'
<1>1. /\ Create(p) /\ SameMesh /\ stage = "mark" /\ stage' = "done" /\ ret' = "leaked"
      /\ nap' = nap + 1
      /\ UNCHANGED <<call, at, last, ni, it, refused, accepted, broken>>
  BY DEF InsertFails, Create, SameMesh
<1>2. Limits /\ Control /\ Counters /\ Lengths
  BY DEF IInv
<1>3. IsTuple(free') /\ Points' /\ Tets'
  BY <1>1, CreateKeeps
<1>4. Limits' /\ Control' /\ Lengths'
  <2>1. nap' # 0
    BY <1>1, <1>2 DEF Counters
  <2> QED
    BY <1>1, <1>2, <1>3, <2>1 DEF Limits, Control, Lengths, SameMesh, wave
<1>5. Counters'
  BY <1>1, <1>2 DEF Counters, SameMesh
<1>6. XTets' /\ Hashed' /\ Used' /\ Flags'
  BY <1>1 DEF XTets, Hashed, Used, Flags, Before, Sweeping, Cutting
<1> QED
  BY <1>3, <1>4, <1>5, <1>6 DEF IInv

(* Nor is there a table.                                                   *)
LEMMA NoTableKeeps ==
  ASSUME IInv, NoTable
  PROVE  IInv'
<1>1. /\ SameMesh /\ stage = "mark" /\ stage' = "done" /\ ret' = "failed"
      /\ UNCHANGED <<point, free, hash, call, at, last, ni, it, nap, refused, accepted, broken>>
  BY DEF NoTable, Fail, SameMesh
<1>2. Limits /\ Control /\ Counters /\ Lengths /\ Tets /\ Points /\ OwnPoints
  BY <1>1 DEF IInv, Hashed
<1>3. \A q \in DOMAIN point : ~Expected(q)
  <2>1. NewPts = {}
    BY <1>2 DEF NoTable, Counters, OwnPoints
  <2> QED
    BY <2>1, VxNew DEF Expected
<1>4. AllVertices
  BY <1>1, <1>3, NoneExpected
<1>5. AllVertices' /\ Points' /\ Tets'
  BY <1>1, <1>2, <1>4 DEF AllVertices, Vertex, Corner, Points, Tets, Tetrahedron, IsTetra, SameMesh
<1>6. Limits' /\ Control' /\ Counters' /\ Lengths'
  BY <1>1, <1>2 DEF Limits, Control, Counters, Lengths, SameMesh
<1>7. XTets' /\ Hashed' /\ Used' /\ Flags'
  BY <1>1, <1>5 DEF XTets, Hashed, Used, AllVertices, Flags, Before, Sweeping, Cutting
<1> QED
  BY <1>5, <1>6, <1>7 DEF IInv

(* No room for a point: anatets returns with a failure, anatetv goes on.   *)
LEMMA NoRoomKeeps ==
  ASSUME IInv, NoRoom
  PROVE  IInv'
<1>1. /\ stage = "mark"
      /\ UNCHANGED <<mesh, tetra, xtetra, hash, call, at, last, ni, it, nap, refused, accepted, broken>>
  BY DEF NoRoom
<1>2. /\ Limits /\ Control /\ Counters /\ Lengths /\ Tets /\ XTets /\ Points
      /\ OwnPoints /\ Apart /\ Forbidden /\ Used /\ Flags
  BY <1>1 DEF IInv, Hashed
<1>3. CASE wave = "surf"
  <2>1. DelPatternPts /\ stage' = "done" /\ ret' = "failed"
    BY <1>3 DEF NoRoom, Fail
  <2>2. IsTuple(free') /\ Points' /\ Tets' /\ AllVertices'
    BY <1>1, <2>1, DeletionKeeps
  <2>3. Limits' /\ Control' /\ Counters' /\ Lengths' /\ XTets'
    BY <1>1, <1>2, <2>1, <2>2 DEF Limits, Control, Counters, Lengths, XTets, wave
  <2>4. Hashed' /\ Used' /\ Flags'
    BY <2>1, <2>2 DEF Hashed, Used, AllVertices, Flags, Before, Sweeping, Cutting
  <2> QED
    BY <2>2, <2>3, <2>4 DEF IInv
<1>4. CASE wave # "surf"
  <2>1. stage' = "check" /\ UNCHANGED <<point, free, ret>> /\ wave = "vol"
    BY <1>2, <1>4, TheWave DEF NoRoom
  <2>2. Limits' /\ Control' /\ Counters' /\ Lengths' /\ XTets' /\ Points'
    BY <1>1, <1>2, <2>1 DEF Limits, Control, Counters, Lengths, XTets, Points, wave
  <2>3. Tets'
    BY <1>1, <1>2, <2>1 DEF Tets, Tetrahedron, IsTetra
  <2>4. \A k : Vx(k)' = Vx(k) /\ FlagOf(k)' = FlagOf(k) /\ Corner(k)' = Corner(k)
    BY <1>1, SameMeshVx DEF SameMesh
  <2>5. Pending' = Pending /\ NewPts' = NewPts
    BY <1>1, <2>1 DEF Pending, NewPts
  <2>6. OwnPoints' /\ Apart' /\ Forbidden'
    BY <1>1, <1>2, <2>1, <2>4, <2>5 DEF OwnPoints, Apart, Forbidden
  <2>7. Used'
    BY <1>1, <1>2, <2>1, <2>4, <2>5 DEF Used, Vertex, Expected
  <2>8. Flags'
    BY <1>1, <1>2, <2>1 DEF Flags, Before, Sweeping, Cutting
  <2> QED
    BY <2>2, <2>3, <2>6, <2>7, <2>8 DEF IInv, Hashed
<1> QED
  BY <1>3, <1>4

(* The analysis ends: nothing to cut, or the simulations begin with the    *)
(* flags of the edges that have a point.                                   *)
LEMMA MarkEndKeeps ==
  ASSUME IInv, MarkEnd
  PROVE  IInv'
<1>1. stage = "mark"
  BY DEF MarkEnd
<1>2. /\ Limits /\ Control /\ Counters /\ Lengths /\ Tets /\ XTets /\ Points
      /\ OwnPoints /\ Apart /\ Forbidden /\ Used /\ Flags
  BY <1>1 DEF IInv, Hashed
<1>3. CASE nap = 0
  <2>1. Return /\ UNCHANGED <<tetra, point, free>>
    BY <1>3 DEF MarkEnd
  <2>2. NewPts = {}
    BY <1>2, <1>3 DEF OwnPoints
  <2>3. \A q \in DOMAIN point : ~Expected(q)
    BY <2>2, VxNew DEF Expected
  <2>4. AllVertices
    BY <1>1, <2>3, NoneExpected
  <2>5. AllVertices' /\ IsTuple(free')
    BY <1>2, <2>1, <2>4 DEF AllVertices, Vertex, Corner, Lengths
  <2>6. Tets' /\ Points'
    <3>1. xtetra' = xtetra /\ mesh' = mesh
      BY <2>1 DEF Return
    <3> QED
      BY <1>2, <2>1, <3>1 DEF Tets, Tetrahedron, IsTetra, Points
  <2> QED
    BY <1>1, <2>1, <2>5, <2>6, ReturnKeeps
<1>4. CASE nap # 0
  <2>1. UNCHANGED <<mesh, xtetra, point, free, hash, call, last, ni, it, ret, nap, refused,
                    accepted, broken>>
    BY <1>4 DEF MarkEnd
  <2>2. \/ wave = "surf" /\ stage' = "sim" /\ at' = 1 /\ tetra' = Flagged
        \/ wave = "vol" /\ stage' = "check" /\ tetra' = tetra /\ at' = at
    BY <1>2, <1>4, TheWave DEF MarkEnd
  <2>3. /\ DOMAIN tetra' = DOMAIN tetra
        /\ \A k \in DOMAIN tetra :
              SameTetra(k) /\ Tetrahedron(tetra[k])' /\ tetra'[k].req = tetra[k].req
    <3>1. CASE tetra' = tetra
      BY <1>2, <2>1, <3>1 DEF SameTetra, Tets, Tetrahedron, IsTetra
    <3>2. CASE tetra' = Flagged
      <4>1. /\ DOMAIN tetra' = DOMAIN tetra
            /\ \A k \in DOMAIN tetra :
                  tetra'[k] = [tetra[k] EXCEPT !.flag = IF tetra[k].req THEN @ ELSE FlagOf(k)]
        BY <3>2 DEF Flagged
      <4> SUFFICES ASSUME NEW k \in DOMAIN tetra
                   PROVE  SameTetra(k) /\ Tetrahedron(tetra[k])' /\ tetra'[k].req = tetra[k].req
        BY <4>1
      <4>2. Tetrahedron(tetra[k]) /\ FlagOf(k) \in SUBSET Edge
        BY <1>2 DEF Tets, FlagOf
      <4>3. tetra'[k] = [v |-> tetra[k].v, ref |-> tetra[k].ref, req |-> tetra[k].req,
                         xt |-> tetra[k].xt, flag |-> IF tetra[k].req THEN tetra[k].flag ELSE FlagOf(k),
                         six |-> tetra[k].six, op3 |-> tetra[k].op3]
        BY <4>1, <4>2 DEF Tetrahedron, IsTetra
      <4> HIDE DEF Flagged
      <4> QED
        BY <2>1, <4>2, <4>3 DEF Tetrahedron, IsTetra, SameTetra
    <3> QED
      BY <2>2, <3>1, <3>2
  <2>4. Len(tetra') = ne /\ IsTuple(tetra')
    <3>1. ne \in Nat /\ DOMAIN tetra = 1..ne
      BY <1>2, Numbers
    <3>2. tetra' = [k \in 1..ne |-> tetra'[k]]
      <4>1. CASE tetra' = tetra
        BY <1>2, <3>1, <4>1 DEF Lengths, IsTuple, ne
      <4>2. CASE tetra' = Flagged
        BY <3>1, <4>2 DEF Flagged
      <4> QED
        BY <2>2, <4>1, <4>2
    <3> QED
      BY <3>1, <3>2, FunctionIsTuple
  <2>5. Limits' /\ Control' /\ Lengths' /\ Points'
    BY <1>1, <1>2, <2>1, <2>2, <2>4 DEF Limits, Control, Lengths, Points, wave
  <2>6. Counters'
    BY <1>2, <2>1, <2>2 DEF Counters
  <2>7. Tets' /\ XTets'
    BY <1>1, <1>2, <2>3 DEF Tets, XTets, SameTetra
  <2>8. \A k \in DOMAIN tetra : Vx(k)' = Vx(k) /\ FlagOf(k)' = FlagOf(k) /\ Corner(k)' = Corner(k)
    BY <2>1, <2>3, SameVx
  <2>9. Pending' = DOMAIN tetra /\ Pending = DOMAIN tetra /\ NewPts' = NewPts
    BY <1>1, <2>1, <2>2, <2>3 DEF Pending, NewPts
  <2>10. Hashed'
    <3>1. OwnPoints' /\ Apart'
      BY <1>2, <2>1, <2>8, <2>9 DEF OwnPoints, Apart
    <3>2. Forbidden'
      BY <2>2 DEF Forbidden
    <3> QED
      BY <3>1, <3>2 DEF Hashed
  <2>11. Used'
    BY <1>2, <2>1, <2>3, <2>8, <2>9 DEF Used, Vertex, Expected
  <2>12. Flags'
    <3>1. DOMAIN accepted' = DOMAIN tetra' /\ ni' = 0 /\ it' = 1 /\ refused' = 0
      BY <1>1, <1>2, <2>1, <2>3 DEF Flags, Before
    <3>2. Sweeping'
      <4> SUFFICES ASSUME stage' = "sim" PROVE Sweeping'
        BY DEF Sweeping
      <4>1. at' = 1 /\ tetra' = Flagged
        BY <2>2
      <4>2. \A k \in DOMAIN tetra' : k \in Nat /\ ~(k < at')
        BY <1>2, <2>3, <4>1, Numbers
      <4>3. ASSUME NEW k \in DOMAIN tetra', ~tetra'[k].req PROVE FlagOf(k)' \subseteq tetra'[k].flag
        <5>1. tetra'[k].flag = FlagOf(k)
          <6>1. tetra'[k] = [tetra[k] EXCEPT !.flag = IF tetra[k].req THEN @ ELSE FlagOf(k)] /\ ~tetra[k].req
            BY <2>3, <4>1, <4>3 DEF Flagged
          <6>2. IsTetra(tetra[k])
            BY <1>2, <2>3 DEF Tets, Tetrahedron
          <6> QED
            BY <6>1, <6>2 DEF IsTetra
        <5> QED
          BY <2>3, <2>8, <5>1
      <4>4. mesh'.maxRefused \in Nat
        BY <2>5 DEF Limits
      <4> QED
        BY <3>1, <4>2, <4>3, <4>4 DEF Sweeping
    <3> QED
      BY <2>2, <3>1, <3>2 DEF Flags, Before, Cutting
  <2> QED
    BY <2>5, <2>6, <2>7, <2>10, <2>11, <2>12 DEF IInv
<1> QED
  BY <1>3, <1>4

(* anatetv gives up: its points are given back.                            *)
LEMMA SkipKeeps ==
  ASSUME IInv, Skip
  PROVE  IInv'
<1>1. stage = "check" /\ DelPatternPts /\ Return /\ tetra' = tetra
  BY DEF Skip
<1>2. mesh' = mesh /\ xtetra' = xtetra
  BY <1>1 DEF Return
<1>3. IsTuple(free') /\ Points' /\ Tets' /\ AllVertices'
  BY <1>1, <1>2, DeletionKeeps
<1> QED
  BY <1>1, <1>3, ReturnKeeps

(* The cuts begin: every tetrahedron is pending.                           *)
LEMMA CutsBegin ==
  ASSUME IInv, stage \in {"check", "sim"}, stage' = "cut", at' = 1, last' = ne, SameMesh,
         UNCHANGED <<point, free, hash, call, ni, it, ret, nap, refused, accepted, broken>>,
         wave = "surf" => \A k \in DOMAIN tetra : ~tetra[k].req => UpToDate(k)
  PROVE  IInv'
<1>1. /\ Limits /\ Control /\ Counters /\ Lengths /\ Tets /\ XTets /\ Points
      /\ OwnPoints /\ Apart /\ Used /\ Flags
  BY DEF IInv, Hashed
<1>2. ne \in Nat /\ DOMAIN tetra = 1..ne
  BY <1>1, Numbers
<1>3. Limits' /\ Control' /\ Lengths' /\ XTets' /\ Points'
  BY <1>1 DEF SameMesh, Limits, Control, Lengths, XTets, Points, wave
<1>4. Counters'
  BY <1>1, <1>2 DEF SameMesh, Counters, ne
<1>5. Tets'
  BY <1>1 DEF SameMesh, Tets, Tetrahedron, IsTetra
<1>6. \A k : /\ Vx(k)' = Vx(k) /\ FlagOf(k)' = FlagOf(k) /\ WillBeCut(k)' = WillBeCut(k)
             /\ Corner(k)' = Corner(k)
  BY SameMeshVx
<1>7. Pending = DOMAIN tetra /\ Pending' = DOMAIN tetra /\ NewPts' = NewPts
  BY <1>2 DEF Pending, NewPts
<1>8. OwnPoints' /\ Apart' /\ Forbidden'
  BY <1>1, <1>6, <1>7 DEF OwnPoints, Apart, Forbidden
<1>9. Used'
  BY <1>1, <1>6, <1>7 DEF SameMesh, Used, Vertex, Expected
<1>10. Cutting'
  BY <1>2, <1>6 DEF SameMesh, Cutting, UpToDate, wave
<1>11. Flags'
  BY <1>1, <1>10 DEF SameMesh, Flags, Before, Sweeping
<1> QED
  BY <1>3, <1>4, <1>5, <1>8, <1>9, <1>11 DEF IInv, Hashed

(* anatetv begins to cut.                                                  *)
LEMMA GoOnKeeps ==
  ASSUME IInv, GoOn
  PROVE  IInv'
<1>1. /\ stage = "check" /\ stage' = "cut" /\ at' = 1 /\ last' = ne /\ SameMesh
      /\ UNCHANGED <<point, free, hash, call, ni, it, ret, nap, refused, accepted, broken>>
  BY DEF GoOn, SameMesh
<1>2. wave = "vol"
  BY <1>1 DEF IInv, Control
<1> QED
  BY <1>1, <1>2, CutsBegin

-------------------------------------------------------------------------------
(* The simulations.                                                        *)

(* A tetrahedron that is not to be simulated has no edge to cut.           *)
LEMMA NotSimulated ==
  ASSUME Counters, Lengths, Sweeping, stage = "sim", NEW k \in DOMAIN tetra, ~tetra[k].req,
         k >= at, k \notin ToSimulate
  PROVE  UpToDate(k)
<1>1. k \in at..ne
  BY Numbers DEF Counters
<1>2. tetra[k].flag = {}
  BY <1>1 DEF ToSimulate
<1>3. FlagOf(k) = {}
  BY <1>2 DEF Sweeping
<1> QED
  BY <1>2, <1>3 DEF UpToDate

(* The end of a sweep.  When it is the last one, nothing is refused in it. *)
LEMMA SweepEndKeeps ==
  ASSUME IInv, SweepEnd, SweepsSuffice'
  PROVE  IInv'
<1>1. /\ stage = "sim" /\ ToSimulate = {} /\ SameMesh
      /\ UNCHANGED <<point, free, hash, call, ret, nap, refused, accepted, broken>>
  BY DEF SweepEnd, SameMesh
<1>2. /\ Limits /\ Control /\ Counters /\ Lengths /\ Tets /\ XTets /\ Points
      /\ OwnPoints /\ Apart /\ Used /\ Flags /\ Sweeping
  BY <1>1 DEF IInv, Hashed, Flags
<1>3. ne \in Nat /\ DOMAIN tetra = 1..ne
  BY <1>2, Numbers
<1>4. CASE ni > 0 /\ it + 1 < MaxSweeps
  <2>1. at' = 1 /\ it' = it + 1 /\ ni' = 0 /\ stage' = stage /\ last' = last
    BY <1>4 DEF SweepEnd
  <2>2. Limits' /\ Control' /\ Lengths' /\ XTets' /\ Points'
    BY <1>1, <1>2, <2>1 DEF SameMesh, Limits, Control, Lengths, XTets, Points, wave
  <2>3. Counters'
    BY <1>1, <1>2, <1>4, <2>1 DEF SameMesh, Counters, MaxSweeps
  <2>4. Tets'
    BY <1>1, <1>2 DEF SameMesh, Tets, Tetrahedron, IsTetra
  <2>5. \A k : Vx(k)' = Vx(k) /\ FlagOf(k)' = FlagOf(k) /\ Corner(k)' = Corner(k)
    BY <1>1, SameMeshVx
  <2>6. Pending' = Pending /\ NewPts' = NewPts
    BY <1>1, <2>1 DEF Pending, NewPts, SameMesh
  <2>7. OwnPoints' /\ Apart' /\ Forbidden'
    BY <1>1, <1>2, <2>1, <2>5, <2>6 DEF OwnPoints, Apart, Forbidden
  <2>8. Used'
    BY <1>1, <1>2, <2>5, <2>6 DEF SameMesh, Used, Vertex, Expected
  <2>9. Sweeping'
    <3>1. refused' >= it' - 1 + ni' /\ refused' <= mesh'.maxRefused
      BY <1>1, <1>2, <1>4, <2>1 DEF Sweeping, Counters, SameMesh
    <3>2. \A k \in DOMAIN tetra' : ~tetra'[k].req => FlagOf(k)' \subseteq tetra'[k].flag
      BY <1>1, <1>2, <2>5 DEF Sweeping, SameMesh
    <3>3. \A k \in DOMAIN tetra' : ~(k < at')
      BY <1>1, <1>3, <2>1 DEF SameMesh
    <3> QED
      BY <3>1, <3>2, <3>3 DEF Sweeping
  <2>10. Flags'
    BY <1>1, <1>2, <2>1, <2>9 DEF SameMesh, Flags, Before, Cutting
  <2> QED
    BY <2>2, <2>3, <2>4, <2>7, <2>8, <2>10 DEF IInv, Hashed
<1>5. CASE ~(ni > 0 /\ it + 1 < MaxSweeps)
  <2>1. stage' = "cut" /\ at' = 1 /\ last' = ne /\ UNCHANGED <<it, ni>>
    BY <1>5 DEF SweepEnd
  <2>2. ni = 0
    BY <2>1 DEF SweepsSuffice
  <2>3. ASSUME NEW k \in DOMAIN tetra, ~tetra[k].req PROVE UpToDate(k)
    <3>1. k \in Nat /\ at \in Nat
      BY <1>2, <1>3 DEF Counters
    <3>2. CASE k < at
      BY <1>1, <1>2, <2>2, <2>3, <3>2 DEF Sweeping
    <3>3. CASE k >= at
      BY <1>1, <1>2, <2>3, <3>3, NotSimulated
    <3> QED
      BY <3>1, <3>2, <3>3
  <2> QED
    BY <1>1, <2>1, <2>3, CutsBegin
<1> QED
  BY <1>4, <1>5

(* A simulation recomputes the flag of its tetrahedron.                    *)
LEMMA Reflagged ==
  ASSUME Lengths, Tets, NEW k \in DOMAIN tetra,
         tetra' = [tetra EXCEPT ![k].flag = FlagOf(k)]
  PROVE  /\ IsTuple(tetra') /\ DOMAIN tetra' = DOMAIN tetra /\ Len(tetra') = ne
         /\ \A j \in DOMAIN tetra :
               /\ SameTetra(j) /\ IsTetra(tetra'[j]) /\ tetra'[j].req = tetra[j].req
               /\ tetra'[j].flag = IF j = k THEN FlagOf(k) ELSE tetra[j].flag
<1>1. ne \in Nat /\ DOMAIN tetra = 1..ne
  BY Numbers
<1>2. IsTetra(tetra[k])
  BY DEF Tets, Tetrahedron
<1>3. /\ DOMAIN tetra' = DOMAIN tetra /\ \A j \in DOMAIN tetra : j # k => tetra'[j] = tetra[j]
      /\ tetra'[k] = [tetra[k] EXCEPT !.flag = FlagOf(k)]
  OBVIOUS
<1>4. tetra' = [j \in 1..ne |-> tetra'[j]]
  BY <1>1
<1>5. IsTuple(tetra') /\ Len(tetra') = ne
  BY <1>1, <1>4, FunctionIsTuple
<1>6. \A j \in DOMAIN tetra : j # k => tetra'[j] = tetra[j]
  BY <1>3
<1>7. tetra'[k] = [v |-> tetra[k].v, ref |-> tetra[k].ref, req |-> tetra[k].req,
                   xt |-> tetra[k].xt, flag |-> FlagOf(k),
                   six |-> tetra[k].six, op3 |-> tetra[k].op3]
  BY <1>2, <1>3 DEF IsTetra
<1>8. ASSUME NEW j \in DOMAIN tetra
      PROVE  /\ SameTetra(j) /\ IsTetra(tetra'[j]) /\ tetra'[j].req = tetra[j].req
             /\ tetra'[j].flag = IF j = k THEN FlagOf(k) ELSE tetra[j].flag
  <2>1. CASE j = k
    BY <1>7, <2>1 DEF SameTetra, IsTetra
  <2>2. CASE j # k
    <3>1. tetra'[j] = tetra[j] /\ IsTetra(tetra[j])
      BY <1>6, <2>2 DEF Tets, Tetrahedron
    <3> QED
      BY <2>2, <3>1 DEF SameTetra
  <2> QED
    BY <2>1, <2>2
<1> QED
  BY <1>1, <1>3, <1>4, <1>5, <1>8

(* The least tetrahedron to simulate.                                      *)
LEMMA NextSimulated ==
  ASSUME Counters, Lengths, at >= 1, ToSimulate # {}
  PROVE  /\ Min(ToSimulate) \in ToSimulate /\ Min(ToSimulate) \in DOMAIN tetra
         /\ Min(ToSimulate) \in Nat /\ Min(ToSimulate) >= at
         /\ \A j \in at..(Min(ToSimulate) - 1) : j \notin ToSimulate
<1>1. at \in Nat /\ ne \in Nat /\ DOMAIN tetra = 1..ne
  BY Numbers DEF Counters
<1>2. ToSimulate \in SUBSET (at..ne) /\ at >= 0
  BY <1>1 DEF ToSimulate
<1>3. Min(ToSimulate) \in ToSimulate /\ \A y \in ToSimulate : Min(ToSimulate) <= y
  <2>1. \A a \in Nat, b \in Int : \A S \in SUBSET (a..b) :
           S # {} => Min(S) \in S /\ \A y \in S : Min(S) <= y
    BY LeastOf
  <2>2. ne \in Int
    BY <1>1
  <2> QED
    BY <1>1, <1>2, <2>1, <2>2, Zenon
<1>4. Min(ToSimulate) \in at..ne
  BY <1>2, <1>3
<1> QED
  BY <1>1, <1>3, <1>4

(* What a simulation does: it accepts, or it moves or deletes the points.  *)
PointsIn(k) == {Vx(k)[e] : e \in FlagOf(k)}

Accepts(k) ==
    /\ accepted' = [accepted EXCEPT ![k] = IF PointsIn(k) = {} THEN {} ELSE WillBeCut(k)]
    /\ UNCHANGED <<point, free, hash, ni, refused>>

Moves(k) ==
    /\ refused < mesh.maxRefused
    /\ accepted' = [Forget(PointsIn(k)) EXCEPT ![k] = WillBeCut(k)]
    /\ ni' = ni + 1 /\ refused' = refused + 1
    /\ UNCHANGED <<point, free, hash>>

Deletes(k) ==
    /\ refused < mesh.maxRefused
    /\ point' = [q \in DOMAIN point \ PointsIn(k) |-> point[q]]
    /\ free' = Reverse(PointsOf(k)) \o free
    /\ hash' = [e \in {x \in DOMAIN hash : hash[x] \notin PointsIn(k)} |-> hash[e]]
    /\ accepted' = Forget(PointsIn(k))
    /\ ni' = ni + 1 /\ refused' = refused + 1

(* A simulation accepts, moves the points or deletes them.                 *)
LEMMA SimulateCases ==
  ASSUME Simulate, NEW k, k = Min(ToSimulate)
  PROVE  /\ Accepts(k) \/ Moves(k) \/ Deletes(k)
         /\ tetra' = [tetra EXCEPT ![k].flag = FlagOf(k)] /\ at' = k + 1
         /\ UNCHANGED <<mesh, xtetra, call, stage, last, it, ret, nap, broken>>
<1> DEFINE m == Min(ToSimulate)
<1>1. Accepts(m) \/ Moves(m) \/ Deletes(m)
  BY DEF Simulate, Accepts, Moves, Deletes, PointsIn
<1>2. /\ tetra' = [tetra EXCEPT ![m].flag = FlagOf(m)] /\ at' = m + 1
      /\ UNCHANGED <<mesh, xtetra, call, stage, last, it, ret, nap, broken>>
  BY DEF Simulate
<1> QED
  BY <1>1, <1>2

(* A simulation: the points stay, in all but the last case.                *)
LEMMA SimulateKeeps ==
  ASSUME IInv, Simulate
  PROVE  IInv'
<1>1. stage = "sim" /\ ToSimulate # {}
  BY DEF Simulate
<1>2. /\ Limits /\ Control /\ Counters /\ Lengths /\ Tets /\ XTets /\ Points
      /\ OwnPoints /\ Apart /\ Used /\ Flags /\ Sweeping
  BY <1>1 DEF IInv, Hashed, Flags
<1>3. ne \in Nat /\ DOMAIN tetra = 1..ne /\ at \in Nat /\ at >= 1
  BY <1>1, <1>2, Numbers DEF Counters
<1>4. PICK k \in DOMAIN tetra :
        k = Min(ToSimulate) /\ k \in Nat /\ k >= at /\ \A j \in at..(k - 1) : j \notin ToSimulate
  BY <1>1, <1>2, <1>3, NextSimulated
<1> DEFINE pts == PointsIn(k)
<1>5. Accepts(k) \/ Moves(k) \/ Deletes(k)
  BY <1>4, SimulateCases
<1>6. /\ tetra' = [tetra EXCEPT ![k].flag = FlagOf(k)] /\ at' = k + 1
      /\ UNCHANGED <<mesh, xtetra, call, stage, last, it, ret, nap, broken>>
  BY <1>4, SimulateCases
<1>7. /\ IsTuple(tetra') /\ DOMAIN tetra' = DOMAIN tetra /\ Len(tetra') = ne
      /\ \A j \in DOMAIN tetra :
            /\ SameTetra(j) /\ IsTetra(tetra'[j]) /\ tetra'[j].req = tetra[j].req
            /\ tetra'[j].flag = IF j = k THEN FlagOf(k) ELSE tetra[j].flag
  BY <1>2, <1>6, Reflagged
<1>8. DOMAIN accepted' = DOMAIN tetra'
  <2>1. DOMAIN accepted = DOMAIN tetra
    BY <1>1, <1>2 DEF Flags
  <2> QED
    BY <1>5, <1>7, <2>1 DEF Accepts, Moves, Deletes, Forget
<1>9. ni' \in Nat /\ refused' \in Nat /\ refused' <= mesh.maxRefused /\ refused' >= it - 1 + ni'
  <2>1. /\ ni \in Nat /\ refused \in Nat /\ mesh.maxRefused \in Nat /\ it \in Int
        /\ refused <= mesh.maxRefused /\ refused >= it - 1 + ni
    BY <1>1, <1>2 DEF Counters, Limits, Sweeping
  <2> QED
    BY <1>5, <2>1 DEF Accepts, Moves, Deletes
<1>10. Limits' /\ Control'
  BY <1>2, <1>6 DEF Limits, Control, wave
<1>11. Counters'
  BY <1>1, <1>2, <1>3, <1>4, <1>6, <1>9 DEF Counters
<1>12. XTets'
  BY <1>1, <1>2, <1>6, <1>7 DEF XTets, SameTetra
<1>13. pts \subseteq NewPts /\ pts \subseteq DOMAIN point
  BY <1>2, VxNew, NewPtsInUse DEF PointsIn
<1>14. Pending = DOMAIN tetra /\ Pending' = DOMAIN tetra
  BY <1>1, <1>6, <1>7 DEF Pending
<1>15. \A j \in DOMAIN tetra : \A e : Ends(j, e)' = Ends(j, e) /\ (HasReqTag(j, e)' <=> HasReqTag(j, e))
  BY <1>6, <1>7 DEF SameTetra, Ends, HasReqTag
<1>16. \A j \in DOMAIN tetra : Corner(j)' = Corner(j)
  BY <1>7 DEF SameTetra, Corner
<1>17. FlagOf(k) \in SUBSET Edge
  BY DEF FlagOf
<1> HIDE DEF pts
<1>18. CASE UNCHANGED <<point, free, hash>>
  <2>1. \A j \in DOMAIN tetra : Vx(j)' = Vx(j) /\ FlagOf(j)' = FlagOf(j) /\ WillBeCut(j)' = WillBeCut(j)
    BY <1>6, <1>7, <1>18, SameVx
  <2>2. Lengths' /\ Points'
    BY <1>2, <1>6, <1>7, <1>18 DEF Lengths, Points
  <2>3. Tets'
    <3> SUFFICES ASSUME NEW j \in DOMAIN tetra PROVE Tetrahedron(tetra[j])'
      BY <1>7 DEF Tets
    <3>1. Tetrahedron(tetra[j])
      BY <1>2 DEF Tets
    <3> QED
      BY <1>6, <1>7, <1>17, <1>18, <3>1 DEF Tetrahedron, SameTetra
  <2>4. NewPts' = NewPts
    BY <1>18 DEF NewPts
  <2>5. OwnPoints' /\ Apart' /\ Forbidden'
    BY <1>1, <1>2, <1>6, <1>14, <1>16, <1>18, <2>4 DEF OwnPoints, Apart, Forbidden
  <2>6. Used'
    BY <1>2, <1>6, <1>7, <1>14, <1>16, <1>18, <2>1 DEF Used, Vertex, Expected
  <2>7. \A j \in DOMAIN tetra' : ~tetra'[j].req => FlagOf(j)' \subseteq tetra'[j].flag
    BY <1>1, <1>2, <1>7, <2>1 DEF Sweeping
  <2>8. ASSUME NEW j \in DOMAIN tetra, ~tetra[j].req, ni' = 0, j < k + 1
        PROVE  UpToDate(j)'
    <3>1. Accepts(k) /\ ni = 0
      <4>1. ni \in Nat
        BY <1>2 DEF Counters
      <4> QED
        BY <1>5, <2>8, <4>1 DEF Accepts, Moves, Deletes
    <3>2. j \in Nat
      BY <1>3
    <3>3. CASE j = k
      <4>1. tetra'[k].flag = FlagOf(k)
        BY <1>7
      <4>2. k \in DOMAIN accepted
        BY <1>1, <1>2 DEF Flags
      <4>3. FlagOf(k) # {} => accepted'[k] = WillBeCut(k)
        BY <3>1, <4>2 DEF Accepts, PointsIn
      <4> QED
        BY <2>1, <3>3, <4>1, <4>3 DEF UpToDate
    <3>4. CASE j # k
      <4>1. UpToDate(j)
        <5>1. CASE j < at
          BY <1>1, <1>2, <2>8, <3>1, <5>1 DEF Sweeping
        <5>2. CASE j >= at
          <6>1. j \in at..(k - 1)
            BY <1>3, <1>4, <2>8, <3>2, <3>4, <5>2
          <6> QED
            BY <1>1, <1>2, <1>4, <2>8, <5>2, <6>1, NotSimulated
        <5> QED
          BY <1>3, <3>2, <5>1, <5>2
      <4>2. j \in DOMAIN accepted
        BY <1>1, <1>2 DEF Flags
      <4>3. accepted'[j] = accepted[j]
        BY <3>1, <3>4, <4>2 DEF Accepts
      <4> QED
        BY <1>7, <2>1, <3>4, <4>1, <4>3 DEF UpToDate
    <3> QED
      BY <3>3, <3>4
  <2>9. Sweeping'
    BY <1>6, <1>7, <1>9, <2>7, <2>8 DEF Sweeping
  <2>10. Flags'
    BY <1>1, <1>6, <1>8, <2>9 DEF Flags, Before, Cutting
  <2> QED
    BY <1>10, <1>11, <1>12, <2>2, <2>3, <2>5, <2>6, <2>10 DEF IInv, Hashed
<1>19. CASE Deletes(k)
  <2>1. /\ DOMAIN point' = DOMAIN point \ pts
        /\ DOMAIN hash' = {x \in DOMAIN hash : hash[x] \notin pts}
        /\ \A e \in DOMAIN hash' : hash'[e] = hash[e]
        /\ free' = Reverse(PointsOf(k)) \o free
    BY <1>19 DEF Deletes, PointsIn, pts
  <2>2. IsTuple(PointsOf(k)) /\ IsInjective(PointsOf(k)) /\ Range(PointsOf(k)) = pts
    <3> DEFINE F  == FlagOf(k)
               es == Ascending(F)
    <3>1. F \subseteq 0..5 /\ \A x \in F : x \in Int
      BY <1>17 DEF Edge
    <3>2. IsFiniteSet(F)
      <4>1. \A a, b \in Int : IsFiniteSet(a..b)
        BY FS_Interval
      <4>2. 0 \in Int /\ 5 \in Int
        OBVIOUS
      <4>3. IsFiniteSet(0..5)
        BY <4>1, <4>2, Zenon
      <4> HIDE DEF F
      <4> QED
        BY <3>1, <4>3, FS_Subset
    <3>3. PointsOf(k) = [i \in DOMAIN es |-> Vx(k)[es[i]]]
      BY DEF PointsOf
    <3>4. \A e, f \in F : Vx(k)[e] = Vx(k)[f] => e = f
      BY <1>2, OwnVx
    <3>5. pts = {Vx(k)[e] : e \in F}
      BY DEF pts, PointsIn
    <3> HIDE DEF F, es
    <3>6. Lists(es, F)
      BY <3>1, <3>2, AscendingLists DEF es
    <3>7. Len(es) \in Nat /\ DOMAIN es = 1..Len(es)
      BY <3>6, TupleLen DEF Lists
    <3>8. IsTuple(PointsOf(k))
      <4>1. PointsOf(k) = [i \in 1..Len(es) |-> PointsOf(k)[i]]
        BY <3>3, <3>7
      <4> QED
        BY <3>7, <4>1, FunctionIsTuple
    <3>9. IsInjective(PointsOf(k))
      BY <3>3, <3>4, <3>6 DEF Lists, IsInjective
    <3>10. Range(PointsOf(k)) = pts
      <4>1. \A i \in DOMAIN es : PointsOf(k)[i] \in pts
        BY <3>3, <3>5, <3>6 DEF Lists
      <4>2. \A e \in F : \E i \in DOMAIN es : PointsOf(k)[i] = Vx(k)[e]
        BY <3>3, <3>6 DEF Lists
      <4>3. DOMAIN PointsOf(k) = DOMAIN es
        BY <3>3
      <4> QED
        BY <3>5, <4>1, <4>2, <4>3 DEF Range
    <3> QED
      BY <3>8, <3>9, <3>10
  <2>3. IsTuple(free') /\ Points'
    <3>1. /\ IsTuple(Reverse(PointsOf(k))) /\ IsInjective(Reverse(PointsOf(k)))
          /\ Range(Reverse(PointsOf(k))) = pts
      BY <2>2, ReversedTuple
    <3> QED
      BY <1>2, <1>6, <1>13, <2>1, <3>1, GivenBack
  <2>4. Lengths'
    BY <1>2, <1>6, <1>7, <2>3 DEF Lengths
  <2>5. Tets'
    <3> SUFFICES ASSUME NEW j \in DOMAIN tetra PROVE Tetrahedron(tetra[j])'
      BY <1>7 DEF Tets
    <3>1. Tetrahedron(tetra[j])
      BY <1>2 DEF Tets
    <3>2. tetra[j].v \in [Local -> DOMAIN point] /\ Corner(j) \intersect pts = {}
      BY <1>2, <1>13, <1>14, <3>1 DEF Tetrahedron, Apart
    <3>3. \A i \in Local : tetra[j].v[i] \in DOMAIN point'
      BY <2>1, <3>2 DEF Corner
    <3>4. tetra'[j].v \in [Local -> DOMAIN point']
      BY <1>7, <3>2, <3>3 DEF SameTetra
    <3> QED
      BY <1>6, <1>7, <1>17, <3>1, <3>4 DEF Tetrahedron, SameTetra
  <2>6. NewPts' \subseteq NewPts
    BY <2>1 DEF NewPts
  <2>7. OwnPoints'
    <3>1. \A e \in DOMAIN hash' : hash'[e] \in {-1} \union DOMAIN point'
      BY <1>2, <2>1 DEF OwnPoints
    <3>2. \A e, f \in DOMAIN hash' : hash'[e] = hash'[f] /\ hash'[e] # -1 => e = f
      BY <1>2, <2>1 DEF OwnPoints
    <3>3. nap' = 0 => NewPts' = {}
      BY <1>2, <1>6, <2>6 DEF OwnPoints
    <3> QED
      BY <3>1, <3>2, <3>3 DEF OwnPoints
  <2>8. Apart' /\ Forbidden'
    BY <1>1, <1>2, <1>6, <1>14, <1>16, <2>6 DEF Apart, Forbidden
  <2>9. ASSUME NEW j \in DOMAIN tetra, NEW e \in FlagOf(j)'
        PROVE  e \in FlagOf(j)
    <3>1. e \in Edge /\ Vx(j)'[e] > 0
      BY DEF FlagOf
    <3>2. Vx(j)'[e] = IF HasReqTag(j, e) THEN 0 ELSE HashGet(Ends(j, e))'
      BY <1>15, <3>1 DEF Vx
    <3>3. ~HasReqTag(j, e) /\ HashGet(Ends(j, e))' > 0
      BY <3>1, <3>2
    <3>4. Ends(j, e) \in DOMAIN hash' /\ hash'[Ends(j, e)] > 0
      BY <1>15, <3>3 DEF HashGet
    <3>5. HashGet(Ends(j, e)) > 0
      BY <2>1, <3>4 DEF HashGet
    <3> QED
      BY <3>1, <3>3, <3>5 DEF FlagOf, Vx
  <2>10. ASSUME NEW j \in DOMAIN tetra, NEW e \in FlagOf(j), Vx(j)[e] \notin pts
         PROVE  e \in FlagOf(j)' /\ Vx(j)'[e] = Vx(j)[e]
    <3>1. e \in Edge /\ Ends(j, e) \in DOMAIN hash /\ Vx(j)[e] = hash[Ends(j, e)] /\ Vx(j)[e] > 0
      BY VxPoints
    <3>2. ~HasReqTag(j, e)
      BY <3>1 DEF Vx
    <3>3. HashGet(Ends(j, e))' = hash[Ends(j, e)]
      BY <1>15, <2>1, <2>10, <3>1 DEF HashGet
    <3>4. Vx(j)'[e] = Vx(j)[e]
      BY <1>15, <3>1, <3>2, <3>3 DEF Vx
    <3> QED
      BY <3>1, <3>4 DEF FlagOf
  <2>11. Used'
    <3> SUFFICES ASSUME NEW q \in DOMAIN point, q \notin pts, ~broken
                 PROVE  Vertex(q)' \/ Expected(q)'
      BY <1>6, <2>1 DEF Used
    <3>1. CASE Vertex(q)
      BY <1>7, <1>16, <3>1 DEF Vertex
    <3>2. CASE Expected(q)
      <4>1. PICK j \in DOMAIN tetra : ~tetra[j].req /\ \E e \in FlagOf(j) : Vx(j)[e] = q
        BY <1>14, <3>2 DEF Expected
      <4>2. PICK e \in FlagOf(j) : Vx(j)[e] = q
        BY <4>1
      <4>3. e \in FlagOf(j)' /\ Vx(j)'[e] = q
        BY <2>10, <4>2
      <4> QED
        BY <1>7, <1>14, <4>1, <4>3 DEF Expected
    <3>3. ret # "leaked"
      BY <1>1, <1>2 DEF Control
    <3> QED
      BY <1>2, <3>1, <3>2, <3>3 DEF Used
  <2>12. Sweeping'
    <3>1. ni' # 0
      BY <1>2, <1>19 DEF Counters, Deletes
    <3>2. ASSUME NEW j \in DOMAIN tetra, ~tetra[j].req PROVE FlagOf(j)' \subseteq tetra'[j].flag
      <4>1. FlagOf(j)' \subseteq FlagOf(j)
        BY <2>9
      <4>2. FlagOf(j) \subseteq tetra[j].flag
        BY <1>1, <1>2, <3>2 DEF Sweeping
      <4> QED
        BY <1>7, <4>1, <4>2
    <3> QED
      BY <1>6, <1>7, <1>9, <3>1, <3>2 DEF Sweeping
  <2>13. Flags'
    BY <1>1, <1>6, <1>8, <2>12 DEF Flags, Before, Cutting
  <2> QED
    BY <1>10, <1>11, <1>12, <2>3, <2>4, <2>5, <2>7, <2>8, <2>11, <2>13 DEF IInv, Hashed
<1> QED
  BY <1>5, <1>18, <1>19 DEF Accepts, Moves

-------------------------------------------------------------------------------
(* The cut of one tetrahedron.                                             *)

(* The pieces ps of k have the vertices of k, and the points of its edges. *)
AllShown(k, ps) ==
    \A q : (q \in Corner(k) \/ \E e \in FlagOf(k) : Vx(k)[e] = q) =>
        \E i \in DOMAIN ps, a \in Local : Global(k, ps[i].v)[a] = q

(* The vertices of its pieces: four different points each, that a          *)
(* simulation has tested; no vertex and no point of an edge is lost.       *)
LEMMA PieceVertices ==
  ASSUME Limits, Points, Tets, OwnPoints, Apart, NEW k \in DOMAIN tetra, k \in Pending,
         FlagOf(k) # {}, NEW ps, ps = Split(Bits(FlagOf(k)), tetra[k].v)
  PROVE  /\ IsTuple(ps) /\ Len(ps) >= 2
         /\ \A i \in DOMAIN ps :
               /\ Global(k, ps[i].v) \in [Local -> DOMAIN point] /\ IsInjective(Global(k, ps[i].v))
               /\ Global(k, ps[i].v) \in WillBeCut(k)
         /\ AllShown(k, ps)
<1>1. PICK F : F = FlagOf(k) /\ F # {} /\ ps = Split(Bits(F), tetra[k].v)
  OBVIOUS
<1> DEFINE v == tetra[k].v
           W == Local \union {m0 + e : e \in F}
           at0(w) == IF w < m0 THEN v[w] ELSE Vx(k)[w - m0]
<1>2. F \in SUBSET Edge /\ v \in [Local -> DOMAIN point] /\ IsInjective(v)
  BY <1>1 DEF FlagOf, Tets, Tetrahedron
<1>3. v \in [Local -> Int]
  <2>1. \A q \in DOMAIN point : q \in 1..mesh.npmax
    BY DEF Points
  <2>2. \A q \in DOMAIN point : q \in Int
    BY <2>1 DEF Limits
  <2> QED
    BY <1>2, <2>2
<1>4. PICK n \in Nat : n >= 2 /\ DOMAIN ps = 1..n
  <2>1. \E n \in Nat : n >= 2 /\ DOMAIN Split(Bits(F), v) = 1..n
    BY <1>1, <1>2, SplitUses
  <2> QED
    BY <1>1, <2>1
<1>5. \A i \in DOMAIN ps : ps[i].v \in [Local -> W]
  <2>1. \A i \in DOMAIN Split(Bits(F), v) : Split(Bits(F), v)[i].v \in [Local -> W]
    BY <1>1, <1>2, SplitUses
  <2> QED
    BY <1>1, <2>1
<1>6. \A i \in DOMAIN ps : \A a, b \in Local : ps[i].v[a] = ps[i].v[b] => a = b
  <2>1. \A i \in DOMAIN Split(Bits(F), v) :
           \A a, b \in Local : Split(Bits(F), v)[i].v[a] = Split(Bits(F), v)[i].v[b] => a = b
    BY <1>1, <1>2, <1>3, SplitShows
  <2> QED
    BY <1>1, <2>1
<1>7. \A w \in W : \E i \in DOMAIN ps : \E a \in Local : ps[i].v[a] = w
  <2>1. \A w \in Local \union {m0 + e : e \in F} :
           \E i \in DOMAIN Split(Bits(F), v) : \E a \in Local : Split(Bits(F), v)[i].v[a] = w
    BY <1>1, <1>2, <1>3, SplitShows
  <2>2. ps = Split(Bits(F), v)
    BY <1>1
  <2> HIDE DEF v
  <2> QED
    BY <2>1, <2>2
<1>8. \A i \in DOMAIN ps : ps[i].v \in Simulated(Bits(F), v)
  <2>1. \A i \in DOMAIN Split(Bits(F), v) : Split(Bits(F), v)[i].v \in Simulated(Bits(F), v)
    BY <1>1, <1>2, <1>3, SplitSimulated
  <2> QED
    BY <1>1, <2>1
<1>9. \A i : Global(k, ps[i].v) = [a \in Local |-> at0(ps[i].v[a])]
  BY DEF Global
<1>10. IsTuple(ps) /\ Len(ps) = n
  <2>1. ps = [i \in 1..n |-> ps[i]]
    <3>1. Split(Bits(F), v) = [i \in DOMAIN Split(Bits(F), v) |-> Split(Bits(F), v)[i]]
      BY DEF Split
    <3> QED
      BY <1>1, <1>4, <3>1
  <2> QED
    BY <2>1, FunctionIsTuple
<1>11. \A w \in W : w \in Local \/ \E e \in F : w = m0 + e
  OBVIOUS
<1>12. \A i \in Local : at0(i) = v[i] /\ i \in W
  BY DEF Local, m0
<1>13. \A e \in F : at0(m0 + e) = Vx(k)[e] /\ m0 + e \in W
  <2> TAKE e \in F
  <2>1. e \in 0..5
    BY <1>2 DEF Edge
  <2>2. ~(m0 + e < m0) /\ (m0 + e) - m0 = e
    BY <2>1 DEF m0
  <2> QED
    BY <2>2
<1>14. \A i \in Local : v[i] \in Corner(k) /\ v[i] \in DOMAIN point /\ v[i] \notin NewPts
  BY <1>2 DEF Corner, Apart
<1>15. \A e \in F : Vx(k)[e] \in NewPts /\ Vx(k)[e] \in DOMAIN point
  BY <1>1, VxNew, NewPtsInUse
<1>16. \A e, f \in F : Vx(k)[e] = Vx(k)[f] => e = f
  BY <1>1, OwnVx
<1>17. \A q : (q \in Corner(k) \/ \E e \in F : Vx(k)[e] = q) => \E w \in W : at0(w) = q
  BY <1>12, <1>13 DEF Corner
<1> HIDE DEF at0, W, v
<1>18. \A w \in W : at0(w) \in DOMAIN point
  BY <1>11, <1>12, <1>13, <1>14, <1>15
<1>19. ASSUME NEW w \in W, NEW x \in W, at0(w) = at0(x) PROVE w = x
  <2>1. CASE w \in Local /\ x \in Local
    BY <1>2, <1>12, <1>19, <2>1 DEF IsInjective
  <2>2. CASE w \in Local /\ \E e \in F : x = m0 + e
    BY <1>12, <1>13, <1>14, <1>15, <1>19, <2>2
  <2>3. CASE x \in Local /\ \E e \in F : w = m0 + e
    BY <1>12, <1>13, <1>14, <1>15, <1>19, <2>3
  <2>4. CASE (\E e \in F : w = m0 + e) /\ \E e \in F : x = m0 + e
    <3>1. PICK e \in F : w = m0 + e
      BY <2>4
    <3>2. PICK f \in F : x = m0 + f
      BY <2>4
    <3>3. Vx(k)[e] = Vx(k)[f]
      BY <1>13, <1>19, <3>1, <3>2
    <3>4. e = f
      BY <1>16, <3>3
    <3> QED
      BY <3>1, <3>2, <3>4
  <2> QED
    BY <1>11, <2>1, <2>2, <2>3, <2>4
<1>20. ASSUME NEW i \in DOMAIN ps
       PROVE  /\ Global(k, ps[i].v) \in [Local -> DOMAIN point] /\ IsInjective(Global(k, ps[i].v))
              /\ Global(k, ps[i].v) \in WillBeCut(k)
  <2>1. Global(k, ps[i].v) = [a \in Local |-> at0(ps[i].v[a])] /\ \A a \in Local : ps[i].v[a] \in W
    BY <1>5, <1>9
  <2>2. Global(k, ps[i].v) \in [Local -> DOMAIN point]
    BY <1>18, <2>1
  <2>3. IsInjective(Global(k, ps[i].v))
    BY <1>6, <1>19, <2>1 DEF IsInjective
  <2>4. Global(k, ps[i].v) \in WillBeCut(k)
    BY <1>1, <1>8 DEF WillBeCut, v
  <2> QED
    BY <2>2, <2>3, <2>4
<1>21. ASSUME NEW q, q \in Corner(k) \/ \E e \in F : Vx(k)[e] = q
       PROVE  \E i \in DOMAIN ps, a \in Local : Global(k, ps[i].v)[a] = q
  <2>1. PICK w \in W : at0(w) = q
    BY <1>17, <1>21
  <2>2. PICK i \in DOMAIN ps : \E a \in Local : ps[i].v[a] = w
    BY <1>7
  <2>3. PICK a \in Local : ps[i].v[a] = w
    BY <2>2
  <2>4. Global(k, ps[i].v)[a] = q
    BY <1>9, <2>1, <2>3
  <2> QED
    BY <2>4
<1> QED
  BY <1>1, <1>4, <1>10, <1>20, <1>21 DEF AllShown

(* The xtetras of the pieces, and what a piece is.                         *)
XPieces(k, ps, ftag) ==
    IF tetra[k].xt = 0 THEN << >>
    ELSE [i \in DOMAIN ps |-> XTetraOf(xtetra[tetra[k].xt], ps[i], ftag)]

XtOf(k, keep, i) ==
    IF ~Contains(keep, i) THEN 0
    ELSE LET j == CHOOSE j \in DOMAIN keep : keep[j] = i
         IN IF j = 1 THEN tetra[k].xt ELSE Len(xtetra) + j - 1

Piece(k, flag, p, x) ==
    [tetra[k] EXCEPT !.v = Global(k, p.v), !.flag = {}, !.xt = x,
                     !.six = @ \/ flag = Edge, !.op3 = @ \/ p.ori # p.reset]

XTetras(k, xs, keep) ==
    IF keep = << >> THEN xtetra
    ELSE [xtetra EXCEPT ![tetra[k].xt] = xs[keep[1]]] \o
         [j \in 1..(Len(keep) - 1) |-> xs[keep[j + 1]]]

(* Pasted, written with these operators.                                   *)
LEMMA PastedMeans ==
  ASSUME NEW k, NEW flag, NEW ps, NEW ftag, Pasted(k, flag, ps, ftag),
         NEW xs, xs = XPieces(k, ps, ftag), NEW keep, keep = Keep(xs)
  PROVE  /\ tetra' = [j \in 1..(ne + Len(ps) - 1) |->
                        IF j = k THEN Piece(k, flag, ps[1], XtOf(k, keep, 1))
                        ELSE IF j <= ne THEN tetra[j]
                        ELSE Piece(k, flag, ps[j - ne + 1], XtOf(k, keep, j - ne + 1))]
         /\ xtetra' = XTetras(k, xs, keep)
         /\ accepted' = [j \in 1..(ne + Len(ps) - 1) |->
                           IF j \in DOMAIN accepted /\ j # k THEN accepted[j] ELSE {}]
<1> DEFINE Xs == XPieces(k, ps, ftag)
           Kept == Keep(Xs)
<1>1. tetra' = [j \in 1..(ne + Len(ps) - 1) |->
                  IF j = k THEN Piece(k, flag, ps[1], XtOf(k, Kept, 1))
                  ELSE IF j <= ne THEN tetra[j]
                  ELSE Piece(k, flag, ps[j - ne + 1], XtOf(k, Kept, j - ne + 1))]
  BY DEF Pasted, XPieces, XtOf, Piece
<1>2. xtetra' = XTetras(k, Xs, Kept)
  BY DEF Pasted, XPieces, XTetras
<1>3. accepted' = [j \in 1..(ne + Len(ps) - 1) |->
                     IF j \in DOMAIN accepted /\ j # k THEN accepted[j] ELSE {}]
  BY DEF Pasted
<1>4. xs = Xs /\ keep = Kept
  OBVIOUS
<1> HIDE DEF Xs, Kept
<1> QED
  BY <1>1, <1>2, <1>3, <1>4, Zenon

(* The pieces that keep an xtetra are listed once; there are none when the *)
(* tetrahedron has no xtetra.                                              *)
LEMMA KeptPieces ==
  ASSUME NEW k, NEW ps, IsTuple(ps), NEW ftag, NEW keep, keep = Keep(XPieces(k, ps, ftag))
  PROVE  /\ IsTuple(keep) /\ IsInjective(keep) /\ \A j \in DOMAIN keep : keep[j] \in DOMAIN ps
         /\ keep # << >> => Len(keep) >= 1 /\ tetra[k].xt # 0
         /\ keep = << >> => Len(keep) = 0
<1> DEFINE xs == XPieces(k, ps, ftag)
           S  == {i \in DOMAIN xs : \E f \in Local : xs[i].ftag[f] # {}}
<1>1. Len(ps) \in Nat /\ DOMAIN ps = 1..Len(ps)
  BY TupleLen
<1>2. S \subseteq DOMAIN ps /\ (tetra[k].xt = 0 => S = {})
  BY DEF XPieces
<1>3. keep = Ascending(S)
  BY DEF Keep
<1> HIDE DEF S, xs
<1>4. IsFiniteSet(S)
  <2>1. IsFiniteSet(1..Len(ps))
    BY <1>1, FiniteUpTo
  <2> QED
    BY <1>1, <1>2, <2>1, FS_Subset
<1>5. \A x \in S : x \in Int
  BY <1>1, <1>2
<1>6. Lists(keep, S)
  BY <1>3, <1>4, <1>5, AscendingLists
<1>7. IsTuple(keep) /\ IsInjective(keep) /\ \A j \in DOMAIN keep : keep[j] \in S
  BY <1>6 DEF Lists, IsInjective
<1>8. Len(keep) \in Nat /\ DOMAIN keep = 1..Len(keep) /\ keep \in Seq({keep[j] : j \in DOMAIN keep})
  BY <1>7, TupleLen
<1>9. keep = << >> <=> Len(keep) = 0
  BY <1>8
<1>10. ASSUME Len(keep) >= 1 PROVE S # {}
  BY <1>7, <1>8, <1>10
<1> QED
  BY <1>2, <1>7, <1>8, <1>9, <1>10

(* The numbers of the xtetras of the pieces: that of the tetrahedron or a  *)
(* new one, and no number twice.                                           *)
LEMMA XtApart ==
  ASSUME NEW k \in DOMAIN tetra, Len(xtetra) \in Nat, tetra[k].xt \in 0..Len(xtetra),
         NEW keep, IsTuple(keep), IsInjective(keep), keep # << >> => tetra[k].xt # 0,
         keep = << >> => Len(keep) = 0
  PROVE  /\ \A i : \/ XtOf(k, keep, i) = 0
                   \/ /\ Len(keep) >= 1 /\ tetra[k].xt # 0
                      /\ \/ XtOf(k, keep, i) = tetra[k].xt
                         \/ XtOf(k, keep, i) \in (Len(xtetra) + 1)..(Len(xtetra) + Len(keep) - 1)
         /\ \A i, j : XtOf(k, keep, i) = XtOf(k, keep, j) /\ XtOf(k, keep, i) # 0 => i = j
<1> DEFINE x == Len(xtetra)
           L == Len(keep)
           t == tetra[k].xt
           rank(i) == CHOOSE j \in DOMAIN keep : keep[j] = i
<1>1. x \in Nat /\ t \in 0..x /\ L \in Nat /\ DOMAIN keep = 1..L
  BY TupleLen
<1>2. \A i : XtOf(k, keep, i) = IF ~Contains(keep, i) THEN 0
                                ELSE IF rank(i) = 1 THEN t ELSE x + rank(i) - 1
  BY DEF XtOf
<1>3. ASSUME NEW i, Contains(keep, i)
      PROVE  rank(i) \in 1..L /\ keep[rank(i)] = i
  <2>1. \E j \in DOMAIN keep : keep[j] = i
    BY <1>1, <1>3 DEF Contains
  <2> QED
    BY <1>1, <2>1
<1>4. L # 0 => t # 0
  OBVIOUS
<1> HIDE DEF x, L, t, rank
<1>5. ASSUME NEW i, Contains(keep, i)
      PROVE  /\ L >= 1 /\ t # 0
             /\ XtOf(k, keep, i) = t \/ XtOf(k, keep, i) \in (x + 1)..(x + L - 1)
  <2>1. rank(i) \in 1..L
    BY <1>3, <1>5
  <2> QED
    BY <1>1, <1>2, <1>4, <1>5, <2>1
<1>6. ASSUME NEW i, ~Contains(keep, i) PROVE XtOf(k, keep, i) = 0
  BY <1>2, <1>6
<1>7. ASSUME NEW i, NEW j, XtOf(k, keep, i) = XtOf(k, keep, j), XtOf(k, keep, i) # 0 PROVE i = j
  <2>1. Contains(keep, i) /\ Contains(keep, j)
    BY <1>6, <1>7
  <2>2. /\ rank(i) \in 1..L /\ keep[rank(i)] = i
        /\ rank(j) \in 1..L /\ keep[rank(j)] = j
    BY <1>3, <2>1
  <2>3. rank(i) = rank(j)
    BY <1>1, <1>2, <1>7, <2>1, <2>2
  <2> QED
    BY <2>2, <2>3
<1> QED
  BY <1>5, <1>6, <1>7 DEF x, L, t

(* A tetrahedron of the next state that is a piece of k, and a state where *)
(* none is missing.                                                        *)
IsPiece(t, k, ps) ==
    /\ \E i \in DOMAIN ps : t.v = Global(k, ps[i].v)
    /\ IsTetra(t) /\ t.flag = {} /\ t.req = tetra[k].req

AllPlaced(k, ps) == \A i \in DOMAIN ps : \E j \in DOMAIN tetra' : tetra'[j].v = Global(k, ps[i].v)

(* The mesh after a cut: the pieces stand at k and after the others.       *)
LEMMA PastedTetra ==
  ASSUME Lengths, Tets, XTets, stage # "done", NEW k \in DOMAIN tetra,
         NEW F, NEW ps, IsTuple(ps), Len(ps) >= 2, NEW ftag, Pasted(k, F, ps, ftag)
  PROVE  /\ IsTuple(tetra') /\ IsTuple(xtetra') /\ Len(xtetra') >= Len(xtetra)
         /\ DOMAIN tetra' = 1..(ne + Len(ps) - 1)
         /\ \A j \in DOMAIN tetra : j # k => tetra'[j] = tetra[j]
         /\ \A j \in DOMAIN tetra' : j = k \/ j \notin DOMAIN tetra => IsPiece(tetra'[j], k, ps)
         /\ AllPlaced(k, ps)
         /\ \A j \in DOMAIN tetra' : tetra'[j].xt \in 0..Len(xtetra')
         /\ \A j, l \in DOMAIN tetra' : tetra'[j].xt = tetra'[l].xt /\ tetra'[j].xt # 0 => j = l
         /\ \A x \in 1..Len(xtetra) : x # tetra[k].xt => xtetra'[x] = xtetra[x]
         /\ DOMAIN accepted' = DOMAIN tetra'
         /\ \A j \in DOMAIN tetra : j \in DOMAIN accepted /\ j # k => accepted'[j] = accepted[j]
<1>1. PICK xs : xs = XPieces(k, ps, ftag)
  OBVIOUS
<1>2. PICK keep : keep = Keep(xs)
  OBVIOUS
<1> DEFINE n == Len(ps)
           x == Len(xtetra)
           N1 == ne + n - 1
           t == tetra[k].xt
<1>3. /\ IsTuple(keep) /\ IsInjective(keep)
      /\ keep # << >> => Len(keep) >= 1 /\ t # 0
      /\ keep = << >> => Len(keep) = 0
  BY <1>1, <1>2, KeptPieces
<1>4. ne \in Nat /\ DOMAIN tetra = 1..ne /\ x \in Nat /\ DOMAIN xtetra = 1..x /\ k \in 1..ne
  BY TupleLen DEF Lengths, ne
<1>5. n \in Nat /\ n >= 2 /\ DOMAIN ps = 1..n
  BY TupleLen
<1>6. \A j \in DOMAIN tetra : tetra[j].xt \in 0..x
  BY DEF Tets, Tetrahedron
<1> DEFINE xt(i) == XtOf(k, keep, i)
<1>7. \A i : \/ xt(i) = 0
             \/ Len(keep) >= 1 /\ t # 0 /\ (xt(i) = t \/ xt(i) \in (x + 1)..(x + Len(keep) - 1))
  BY <1>3, <1>4, <1>6, XtApart
<1>8. \A i, j : xt(i) = xt(j) /\ xt(i) # 0 => i = j
  BY <1>3, <1>4, <1>6, XtApart
<1>9. tetra' = [j \in 1..N1 |->
                  IF j = k THEN Piece(k, F, ps[1], xt(1))
                  ELSE IF j <= ne THEN tetra[j]
                  ELSE Piece(k, F, ps[j - ne + 1], xt(j - ne + 1))]
  BY <1>1, <1>2, PastedMeans
<1>10. xtetra' = XTetras(k, xs, keep)
  BY <1>1, <1>2, PastedMeans
<1>11. accepted' = [j \in 1..N1 |-> IF j \in DOMAIN accepted /\ j # k THEN accepted[j] ELSE {}]
  BY <1>1, <1>2, PastedMeans
<1> HIDE DEF n, x, xt
<1>12. ASSUME NEW p, NEW y
       PROVE  /\ IsTetra(Piece(k, F, p, y)) /\ Piece(k, F, p, y).flag = {}
              /\ Piece(k, F, p, y).v = Global(k, p.v) /\ Piece(k, F, p, y).xt = y
              /\ Piece(k, F, p, y).req = tetra[k].req
  <2>1. IsTetra(tetra[k])
    BY DEF Tets, Tetrahedron
  <2> DEFINE b == tetra[k].six \/ F = Edge
             c == tetra[k].op3 \/ p.ori # p.reset
             g == Global(k, p.v)
  <2>2. Piece(k, F, p, y) = [tetra[k] EXCEPT !.v = g, !.flag = {}, !.xt = y, !.six = b, !.op3 = c]
    BY DEF Piece
  <2>3. g = Global(k, p.v)
    OBVIOUS
  <2> HIDE DEF b, c, g
  <2>4. Piece(k, F, p, y) = [v |-> g, ref |-> tetra[k].ref, req |-> tetra[k].req, xt |-> y,
                             flag |-> {}, six |-> b, op3 |-> c]
    BY <2>1, <2>2 DEF IsTetra
  <2> QED
    BY <2>3, <2>4 DEF IsTetra
<1>13. N1 \in Nat /\ N1 > ne
  BY <1>4, <1>5
<1> HIDE DEF N1
<1>14. DOMAIN tetra' = 1..N1 /\ IsTuple(tetra')
  <2>1. tetra' = [j \in 1..N1 |-> tetra'[j]]
    BY <1>9
  <2> QED
    BY <1>9, <1>13, <2>1, FunctionIsTuple
<1>15. \A j \in 1..ne : j # k => tetra'[j] = tetra[j]
  BY <1>4, <1>9, <1>13
(* Where the piece of a new tetrahedron stands.                            *)
<1> DEFINE rank(j) == IF j = k THEN 1 ELSE j - ne + 1
<1>16. ASSUME NEW j \in 1..N1, j = k \/ j \notin 1..ne
       PROVE  rank(j) \in 1..n /\ tetra'[j] = Piece(k, F, ps[rank(j)], xt(rank(j)))
  <2>1. CASE j = k
    BY <1>5, <1>9, <2>1
  <2>2. CASE j # k
    <3>1. j > ne /\ ~(j <= ne) /\ j <= ne + n - 1
      BY <1>4, <1>13, <1>16, <2>2 DEF N1
    <3>2. j - ne + 1 \in 1..n
      BY <1>4, <1>5, <3>1
    <3> QED
      BY <1>9, <2>2, <3>1, <3>2
  <2> QED
    BY <2>1, <2>2
<1>17. ASSUME NEW i \in 1..n
       PROVE  \E j \in 1..N1 : (j = k \/ j \notin 1..ne) /\ rank(j) = i
  <2>1. CASE i = 1
    BY <1>4, <1>13, <2>1
  <2>2. CASE i # 1
    <3>1. ne + i - 1 \in 1..N1 /\ ne + i - 1 > ne /\ (ne + i - 1) - ne + 1 = i
      BY <1>4, <1>5, <2>2 DEF N1
    <3>2. ne + i - 1 \notin 1..ne /\ ne + i - 1 # k
      BY <1>4, <3>1
    <3> QED
      BY <3>1, <3>2
  <2> QED
    BY <2>1, <2>2
<1>18. ASSUME NEW j \in 1..N1, j = k \/ j \notin 1..ne, NEW l \in 1..N1, l = k \/ l \notin 1..ne,
              rank(j) = rank(l)
       PROVE  j = l
  <2>1. j \in Nat /\ l \in Nat /\ (j # k => j > ne) /\ (l # k => l > ne)
    BY <1>4, <1>13, <1>18
  <2> QED
    BY <1>4, <1>18, <2>1
<1> HIDE DEF rank
<1>19. /\ IsTuple(xtetra')
       /\ Len(xtetra') = x + (IF keep = << >> THEN 0 ELSE Len(keep) - 1)
       /\ \A y \in 1..x : y # t => xtetra'[y] = xtetra[y]
  <2>1. CASE keep = << >>
    BY <1>4, <1>10, <2>1 DEF Lengths, x, XTetras
  <2>2. CASE keep # << >>
    <3> DEFINE r == [xtetra EXCEPT ![t] = xs[keep[1]]]
               s == [j \in 1..(Len(keep) - 1) |-> xs[keep[j + 1]]]
    <3>1. Len(keep) - 1 \in Nat
      <4>1. Len(keep) \in Nat
        BY <1>3, TupleLen
      <4> QED
        BY <1>3, <2>2, <4>1
    <3>2. IsTuple(s) /\ Len(s) = Len(keep) - 1
      <4>1. s = [j \in 1..(Len(keep) - 1) |-> s[j]]
        OBVIOUS
      <4> HIDE DEF s
      <4> QED
        BY <3>1, <4>1, FunctionIsTuple
    <3>3. IsTuple(r) /\ Len(r) = x /\ \A y \in 1..x : y # t => r[y] = xtetra[y]
      <4>1. r = [y \in 1..x |-> r[y]] /\ \A y \in 1..x : y # t => r[y] = xtetra[y]
        BY <1>4
      <4> HIDE DEF r
      <4> QED
        BY <1>4, <4>1, FunctionIsTuple
    <3>4. xtetra' = r \o s
      BY <1>10, <2>2 DEF XTetras
    <3> HIDE DEF r, s
    <3> QED
      BY <2>2, <3>2, <3>3, <3>4, TwoTuples
  <2> QED
    BY <2>1, <2>2
<1>20. Len(xtetra') \in Nat /\ Len(xtetra') >= x
  <2>1. Len(keep) \in Nat
    BY <1>3, TupleLen
  <2> QED
    BY <1>3, <1>4, <1>19, <2>1
<1>21. ASSUME NEW j \in 1..N1, j = k \/ j \notin 1..ne
       PROVE  /\ tetra'[j].xt = xt(rank(j)) /\ tetra'[j].v = Global(k, ps[rank(j)].v)
              /\ IsTetra(tetra'[j]) /\ tetra'[j].flag = {} /\ tetra'[j].req = tetra[k].req
  <2>1. tetra'[j] = Piece(k, F, ps[rank(j)], xt(rank(j)))
    BY <1>16, <1>21
  <2> QED
    BY <1>12, <2>1
<1>22. ASSUME NEW i PROVE xt(i) \in 0..Len(xtetra')
  <2>1. t \in 0..x
    BY <1>4, <1>6
  <2>2. Len(keep) \in Nat
    BY <1>3, TupleLen
  <2> QED
    BY <1>3, <1>4, <1>7, <1>19, <2>1, <2>2
<1>23. \A j \in 1..N1 : tetra'[j].xt \in 0..Len(xtetra')
  <2> TAKE j \in 1..N1
  <2>1. CASE j = k \/ j \notin 1..ne
    BY <1>21, <1>22, <2>1
  <2>2. CASE j \in 1..ne /\ j # k
    <3>1. tetra'[j].xt \in 0..x
      BY <1>4, <1>6, <1>15, <2>2
    <3> QED
      BY <1>4, <1>20, <3>1
  <2> QED
    BY <2>1, <2>2
<1>24. ASSUME NEW i, NEW l \in 1..ne, l # k, xt(i) = tetra[l].xt, xt(i) # 0 PROVE FALSE
  <2>1. tetra[l].xt \in 0..x /\ tetra[l].xt # t
    <3>1. tetra[l].xt # 0
      BY <1>24
    <3> QED
      BY <1>4, <1>6, <1>24, <3>1 DEF XTets
  <2>2. Len(keep) \in Nat
    BY <1>3, TupleLen
  <2> QED
    BY <1>4, <1>7, <1>24, <2>1, <2>2
<1>25. ASSUME NEW j \in 1..N1, NEW l \in 1..N1, tetra'[j].xt = tetra'[l].xt, tetra'[j].xt # 0
       PROVE  j = l
  <2>1. CASE (j = k \/ j \notin 1..ne) /\ (l = k \/ l \notin 1..ne)
    <3>1. xt(rank(j)) = xt(rank(l)) /\ xt(rank(j)) # 0
      BY <1>21, <1>25, <2>1
    <3>2. rank(j) = rank(l)
      BY <1>8, <3>1
    <3> QED
      BY <1>18, <2>1, <3>2
  <2>2. CASE (j = k \/ j \notin 1..ne) /\ l \in 1..ne /\ l # k
    BY <1>15, <1>21, <1>24, <1>25, <2>2
  <2>3. CASE j \in 1..ne /\ j # k /\ (l = k \/ l \notin 1..ne)
    BY <1>15, <1>21, <1>24, <1>25, <2>3
  <2>4. CASE j \in 1..ne /\ j # k /\ l \in 1..ne /\ l # k
    BY <1>4, <1>15, <1>25, <2>4 DEF XTets
  <2> QED
    BY <2>1, <2>2, <2>3, <2>4
<1>26. \A j \in 1..N1 : j = k \/ j \notin 1..ne => IsPiece(tetra'[j], k, ps)
  <2> SUFFICES ASSUME NEW j \in 1..N1, j = k \/ j \notin 1..ne PROVE IsPiece(tetra'[j], k, ps)
    OBVIOUS
  <2>1. rank(j) \in DOMAIN ps /\ tetra'[j].v = Global(k, ps[rank(j)].v)
    BY <1>5, <1>16, <1>21
  <2>2. IsTetra(tetra'[j]) /\ tetra'[j].flag = {} /\ tetra'[j].req = tetra[k].req
    BY <1>21
  <2> QED
    BY <2>1, <2>2 DEF IsPiece
<1>27. AllPlaced(k, ps)
  <2> SUFFICES ASSUME NEW i \in DOMAIN ps PROVE \E j \in 1..N1 : tetra'[j].v = Global(k, ps[i].v)
    BY <1>14 DEF AllPlaced
  <2>1. PICK j \in 1..N1 : (j = k \/ j \notin 1..ne) /\ rank(j) = i
    BY <1>5, <1>17
  <2>2. tetra'[j].v = Global(k, ps[i].v)
    BY <1>21, <2>1
  <2> QED
    BY <2>2
<1>28. DOMAIN accepted' = 1..N1
  BY <1>11
<1>29. \A j \in 1..ne : j \in DOMAIN accepted /\ j # k => accepted'[j] = accepted[j]
  <2> TAKE j \in 1..ne
  <2>1. j \in 1..N1
    BY <1>4, <1>13
  <2> QED
    BY <1>11, <2>1
<1> QED
  BY <1>4, <1>14, <1>15, <1>19, <1>20, <1>23, <1>25, <1>26, <1>27, <1>28, <1>29 DEF N1, n, x

(* What is cut next, and with which flag.                                  *)
LEMMA CutFlagIs ==
  ASSUME Flags, stage = "cut", NEW k \in at..last, ~tetra[k].req
  PROVE  CutFlag(k) = FlagOf(k)
BY DEF Flags, Cutting, UpToDate, CutFlag

(* The tetrahedron that is cut is the first one of those to cut.           *)
LEMMA NextCut ==
  ASSUME Counters, Lengths, stage = "cut", ToCut # {}
  PROVE  /\ Min(ToCut) \in ToCut /\ Min(ToCut) \in DOMAIN tetra
         /\ Min(ToCut) \in at..last /\ Min(ToCut) \in Nat
         /\ \A j \in at..(Min(ToCut) - 1) : j \notin ToCut
<1>1. /\ at \in Nat /\ at >= 1 /\ last \in Int /\ last <= ne /\ ne \in Nat
      /\ DOMAIN tetra = 1..ne
  BY Numbers DEF Counters
<1>2. ToCut \in SUBSET (at..last)
  BY DEF ToCut
<1>3. Min(ToCut) \in ToCut /\ \A y \in ToCut : Min(ToCut) <= y
  <2>1. \A a \in Nat, b \in Int : \A S \in SUBSET (a..b) :
           S # {} => Min(S) \in S /\ \A y \in S : Min(S) <= y
    BY LeastOf
  <2> QED
    BY <1>1, <1>2, <2>1, Zenon
<1>4. Min(ToCut) \in at..last
  BY <1>2, <1>3
<1> QED
  BY <1>1, <1>3, <1>4

(* The parts of the action Cut.                                            *)
LEMMA CutMeans ==
  ASSUME Cut, NEW k, k = Min(ToCut)
  PROVE  /\ \E ftag : Pasted(k, CutFlag(k), Split(Bits(CutFlag(k)), tetra[k].v), ftag)
         /\ at' = k + 1
         /\ UNCHANGED <<mesh, point, free, hash, call, stage, memlack, last, ni, it, ret, nap,
                        refused, broken>>
<1> DEFINE m == Min(ToCut)
           ps == Parts(m)
<1>1. /\ \E ftag : Pasted(m, CutFlag(m), ps, ftag)
      /\ at' = m + 1
      /\ UNCHANGED <<mesh, point, free, hash, call, stage, memlack, last, ni, it, ret, nap,
                     refused, broken>>
  BY DEF Cut
<1>2. ps = Split(Bits(CutFlag(m)), tetra[m].v)
  BY DEF Parts
<1> HIDE DEF ps
<1> QED
  BY <1>1, <1>2

(* A cut replaces a tetrahedron by pieces that the simulation has tested.  *)
LEMMA CutPieces ==
  ASSUME IInv, Cut
  PROVE  \E k, ps, ftag :
            /\ k \in DOMAIN tetra
            /\ k = Min(ToCut) /\ k \in at..last /\ ~tetra[k].req /\ FlagOf(k) # {}
            /\ ps = Split(Bits(FlagOf(k)), tetra[k].v) /\ Pasted(k, FlagOf(k), ps, ftag)
<1>1. Counters /\ Lengths /\ Flags /\ stage = "cut" /\ ToCut # {}
  BY DEF IInv, Cut
<1>2. PICK k \in DOMAIN tetra : k = Min(ToCut) /\ k \in ToCut /\ k \in at..last
  BY <1>1, NextCut
<1>3. ~tetra[k].req /\ CutFlag(k) # {}
  BY <1>2 DEF ToCut
<1>4. CutFlag(k) = FlagOf(k)
  BY <1>1, <1>2, <1>3, CutFlagIs
<1>5. PICK ftag : Pasted(k, CutFlag(k), Split(Bits(CutFlag(k)), tetra[k].v), ftag)
  BY <1>2, CutMeans
<1> QED
  BY <1>2, <1>3, <1>4, <1>5

(* A cut keeps the invariant.                                              *)
LEMMA CutKeeps ==
  ASSUME IInv, Cut
  PROVE  IInv'
<1>1. stage = "cut" /\ ToCut # {}
  BY DEF Cut
<1>2. /\ Limits /\ Control /\ Counters /\ Lengths /\ Tets /\ XTets /\ Points
      /\ OwnPoints /\ Apart /\ Used /\ Flags
  BY <1>1 DEF IInv, Hashed
<1>3. PICK k, ps, ftag :
         /\ k \in DOMAIN tetra
         /\ k = Min(ToCut) /\ k \in at..last /\ ~tetra[k].req /\ FlagOf(k) # {}
         /\ ps = Split(Bits(FlagOf(k)), tetra[k].v) /\ Pasted(k, FlagOf(k), ps, ftag)
  BY CutPieces
<1>4. /\ at' = k + 1
      /\ UNCHANGED <<mesh, point, free, hash, call, stage, last, ni, it, ret, nap, refused, broken>>
  BY <1>3, CutMeans
<1>5. \A j \in at..(k - 1) : j \notin ToCut
  BY <1>1, <1>2, <1>3, NextCut
<1>6. /\ ne \in Nat /\ DOMAIN tetra = 1..ne /\ at \in Nat /\ at >= 1 /\ last \in Nat /\ last <= ne
      /\ k \in Nat
  BY <1>1, <1>2, <1>3, Numbers DEF Counters
<1>7. Pending = at..last /\ Pending' = (k + 1)..last /\ NewPts' = NewPts
  BY <1>1, <1>4 DEF Pending, NewPts
<1>8. /\ IsTuple(ps) /\ Len(ps) >= 2
      /\ \A i \in DOMAIN ps :
            Global(k, ps[i].v) \in [Local -> DOMAIN point] /\ IsInjective(Global(k, ps[i].v))
      /\ AllShown(k, ps)
  <2>1. k \in Pending
    BY <1>3, <1>7
  <2> QED
    BY <1>2, <1>3, <2>1, PieceVertices
<1>9. stage # "done"
  BY <1>1
<1>10. /\ IsTuple(tetra') /\ IsTuple(xtetra') /\ Len(xtetra') >= Len(xtetra)
       /\ DOMAIN tetra' = 1..(ne + Len(ps) - 1)
       /\ \A j \in DOMAIN tetra : j # k => tetra'[j] = tetra[j]
       /\ \A j \in DOMAIN tetra' : j = k \/ j \notin DOMAIN tetra => IsPiece(tetra'[j], k, ps)
       /\ AllPlaced(k, ps)
  <2>1. Lengths /\ Tets /\ XTets /\ stage # "done" /\ IsTuple(ps) /\ Len(ps) >= 2
    BY <1>2, <1>8, <1>9
  <2>2. PICK F : Pasted(k, F, ps, ftag)
    BY <1>3
  <2> QED
    BY <1>3, <2>1, <2>2, PastedTetra
<1>11. /\ \A j \in DOMAIN tetra' : tetra'[j].xt \in 0..Len(xtetra')
       /\ \A j, l \in DOMAIN tetra' : tetra'[j].xt = tetra'[l].xt /\ tetra'[j].xt # 0 => j = l
       /\ \A x \in 1..Len(xtetra) : x # tetra[k].xt => xtetra'[x] = xtetra[x]
       /\ DOMAIN accepted' = DOMAIN tetra'
       /\ \A j \in DOMAIN tetra : j \in DOMAIN accepted /\ j # k => accepted'[j] = accepted[j]
  BY <1>2, <1>3, <1>8, <1>9, PastedTetra
<1>12. Len(ps) \in Nat /\ Len(tetra') = ne + Len(ps) - 1 /\ DOMAIN tetra \subseteq DOMAIN tetra'
  <2>1. Len(ps) \in Nat /\ Len(tetra') \in Nat /\ DOMAIN tetra' = 1..Len(tetra')
    BY <1>8, <1>10, TupleLen
  <2>2. ne + Len(ps) - 1 \in Nat /\ 1 <= ne + Len(ps) - 1
    BY <1>6, <1>8, <2>1
  <2>3. Len(tetra') = ne + Len(ps) - 1
    BY <1>10, <2>1, <2>2
  <2> QED
    BY <1>6, <1>8, <1>10, <2>1, <2>3
<1>13. Limits' /\ Control' /\ Lengths' /\ Points'
  BY <1>1, <1>2, <1>4, <1>10 DEF Limits, Control, Lengths, Points, wave
<1>14. Counters'
  BY <1>1, <1>2, <1>4, <1>6, <1>8, <1>12 DEF Counters, ne
<1>15. Tets'
  <2> SUFFICES ASSUME NEW j \in DOMAIN tetra' PROVE Tetrahedron(tetra[j])'
    BY DEF Tets
  <2>1. CASE j = k \/ j \notin DOMAIN tetra
    <3>1. PICK i \in DOMAIN ps : tetra'[j].v = Global(k, ps[i].v)
      BY <1>10, <2>1 DEF IsPiece
    <3>2. tetra'[j].v \in [Local -> DOMAIN point'] /\ IsInjective(tetra'[j].v)
      BY <1>4, <1>8, <3>1
    <3>3. tetra[k].req \in BOOLEAN
      BY <1>2, <1>3 DEF Tets, Tetrahedron
    <3>4. IsTetra(tetra'[j]) /\ tetra'[j].flag = {} /\ tetra'[j].req = tetra[k].req
      BY <1>10, <2>1 DEF IsPiece
    <3> QED
      BY <1>11, <3>2, <3>3, <3>4 DEF Tetrahedron
  <2>2. CASE j \in DOMAIN tetra /\ j # k
    <3>1. tetra'[j] = tetra[j] /\ Tetrahedron(tetra[j])
      BY <1>2, <1>10, <2>2 DEF Tets
    <3>2. tetra'[j].xt \in 0..Len(xtetra')
      BY <1>11
    <3> QED
      BY <1>4, <3>1, <3>2 DEF Tetrahedron
  <2> QED
    BY <2>1, <2>2
<1>16. XTets'
  BY <1>11 DEF XTets
<1>17. ASSUME NEW j \in DOMAIN tetra, j # k
       PROVE  /\ Vx(j)' = Vx(j) /\ FlagOf(j)' = FlagOf(j) /\ WillBeCut(j)' = WillBeCut(j)
              /\ Corner(j)' = Corner(j)
  <2>1. tetra'[j] = tetra[j]
    BY <1>10, <1>17
  <2>2. ASSUME tetra[j].xt # 0 PROVE xtetra'[tetra[j].xt] = xtetra[tetra[j].xt]
    <3>1. tetra[j].xt # tetra[k].xt
      BY <1>2, <1>3, <1>9, <1>17, <2>2 DEF XTets
    <3>2. tetra[j].xt \in 0..Len(xtetra) /\ Len(xtetra) \in Nat
      BY <1>2, Numbers DEF Tets, Tetrahedron
    <3>3. tetra[j].xt \in 1..Len(xtetra)
      BY <2>2, <3>2
    <3> QED
      BY <1>11, <3>1, <3>3
  <2>3. SameTetra(j)
    BY <2>1 DEF SameTetra
  <2> QED
    BY <1>4, <2>2, <2>3, SameVx
<1>18. \A j \in (k + 1)..last : j \in DOMAIN tetra /\ j # k /\ j \in at..last /\ j \in DOMAIN tetra'
  BY <1>3, <1>6, <1>12
<1>19. OwnPoints'
  BY <1>2, <1>4, <1>7 DEF OwnPoints
<1>20. Apart' /\ Forbidden'
  <2>1. Forbidden'
    BY <1>1, <1>4 DEF Forbidden
  <2>2. ASSUME NEW j \in Pending' PROVE Corner(j)' \intersect NewPts' = {}
    <3>1. j \in DOMAIN tetra /\ j # k /\ j \in Pending
      BY <1>7, <1>18
    <3>2. Corner(j)' = Corner(j)
      BY <1>17, <3>1
    <3> QED
      BY <1>2, <1>7, <3>1, <3>2 DEF Apart
  <2> QED
    BY <2>1, <2>2 DEF Apart
<1>21. Used'
  <2> SUFFICES ASSUME NEW q \in DOMAIN point PROVE Vertex(q)' \/ Expected(q)'
    BY <1>4 DEF Used
  <2>1. ASSUME q \in Corner(k) \/ \E e \in FlagOf(k) : Vx(k)[e] = q PROVE Vertex(q)'
    <3>1. PICK i \in DOMAIN ps, a \in Local : Global(k, ps[i].v)[a] = q
      BY <1>8, <2>1 DEF AllShown
    <3>2. PICK j \in DOMAIN tetra' : tetra'[j].v = Global(k, ps[i].v)
      BY <1>10 DEF AllPlaced
    <3> QED
      BY <3>1, <3>2 DEF Vertex, Corner
  <2>2. CASE Vertex(q)
    <3>1. PICK j \in DOMAIN tetra : q \in Corner(j)
      BY <2>2 DEF Vertex
    <3>2. CASE j = k
      BY <2>1, <3>1, <3>2
    <3>3. CASE j # k
      BY <1>12, <1>17, <3>1, <3>3 DEF Vertex
    <3> QED
      BY <3>2, <3>3
  <2>3. CASE Expected(q)
    <3>1. PICK j \in at..last : ~tetra[j].req /\ \E e \in FlagOf(j) : Vx(j)[e] = q
      BY <1>7, <2>3 DEF Expected
    <3>2. CutFlag(j) = FlagOf(j)
      BY <1>1, <1>2, <3>1, CutFlagIs
    <3>3. j \in ToCut
      BY <3>1, <3>2 DEF ToCut
    <3>4. j \in Nat /\ ~(j < k)
      BY <1>5, <1>6, <3>3
    <3>5. CASE j = k
      BY <2>1, <3>1, <3>5
    <3>6. CASE j # k
      <4>1. j \in Pending' /\ j \in DOMAIN tetra
        BY <1>6, <1>7, <3>1, <3>4, <3>6
      <4>2. tetra'[j] = tetra[j] /\ Vx(j)' = Vx(j) /\ FlagOf(j)' = FlagOf(j)
        BY <1>10, <1>17, <3>6, <4>1
      <4> QED
        BY <3>1, <4>1, <4>2 DEF Expected
    <3> QED
      BY <3>5, <3>6
  <2>4. ~broken /\ ret # "leaked"
    BY <1>1, <1>2 DEF Control
  <2> QED
    BY <1>2, <2>2, <2>3, <2>4 DEF Used
<1>22. Cutting'
  <2> SUFFICES ASSUME wave = "surf", NEW j \in (k + 1)..last, ~tetra'[j].req PROVE UpToDate(j)'
    BY <1>4 DEF Cutting, wave
  <2>1. j \in DOMAIN tetra /\ j # k /\ j \in at..last
    BY <1>18
  <2>2. tetra'[j] = tetra[j] /\ FlagOf(j)' = FlagOf(j) /\ WillBeCut(j)' = WillBeCut(j)
    BY <1>10, <1>17, <2>1
  <2>3. UpToDate(j)
    BY <1>1, <1>2, <2>1, <2>2 DEF Flags, Cutting
  <2>4. accepted'[j] = accepted[j]
    BY <1>1, <1>2, <1>11, <2>1 DEF Flags
  <2> QED
    BY <2>2, <2>3, <2>4 DEF UpToDate
<1>23. Flags'
  BY <1>1, <1>4, <1>11, <1>22 DEF Flags, Before, Sweeping
<1> QED
  BY <1>13, <1>14, <1>15, <1>16, <1>19, <1>20, <1>21, <1>23 DEF IInv, Hashed

(* A sequence of copies.                                                   *)
LEMMA Copies ==
  ASSUME NEW m \in Nat, NEW n \in Nat, NEW t
  PROVE  IsTuple([j \in 1..(m - n) |-> t])
<1> DEFINE more == [j \in 1..(m - n) |-> t]
<1>1. CASE n <= m
  <2>1. m - n \in Nat /\ more = [j \in 1..(m - n) |-> more[j]]
    BY <1>1
  <2> HIDE DEF more
  <2> QED
    BY <2>1, FunctionIsTuple
<1>2. CASE m < n
  <2>1. 1..(m - n) = 1..0
    BY <1>2
  <2>2. more = [j \in 1..0 |-> more[j]]
    BY <2>1
  <2> HIDE DEF more
  <2> QED
    BY <2>2, FunctionIsTuple
<1> QED
  BY <1>1, <1>2

(* No room for the pieces: the mesh is broken, but each tetrahedron still  *)
(* has four vertices in use.                                               *)
LEMMA CutFailsKeeps ==
  ASSUME IInv, CutFails
  PROVE  IInv'
<1>1. /\ stage = "cut" /\ ToCut # {} /\ stage' = "done" /\ ret' = "failed" /\ broken' = TRUE
      /\ UNCHANGED <<mesh, xtetra, point, free, hash, call, at, last, ni, it, nap, refused>>
  BY DEF CutFails, Fail
<1>2. Limits /\ Control /\ Counters /\ Lengths /\ Tets /\ Points
  BY DEF IInv
<1>3. ne \in Nat /\ DOMAIN tetra = 1..ne /\ mesh.nemax \in Nat
  BY <1>2, Numbers DEF Limits
<1>4. PICK k \in DOMAIN tetra : k = Min(ToCut)
  BY <1>1, <1>2, NextCut
<1>5. PICK copy : copy = [tetra[k] EXCEPT !.flag = {}]
  OBVIOUS
<1> DEFINE more == [j \in 1..(mesh.nemax - ne) |-> copy]
<1>6. tetra' = tetra \o more
  BY <1>4, <1>5 DEF CutFails
<1>7. Tetrahedron(copy)'
  <2>1. Tetrahedron(tetra[k])
    BY <1>2 DEF Tets
  <2>2. copy = [v |-> tetra[k].v, ref |-> tetra[k].ref, req |-> tetra[k].req,
                xt |-> tetra[k].xt, flag |-> {}, six |-> tetra[k].six, op3 |-> tetra[k].op3]
    BY <1>5, <2>1 DEF Tetrahedron, IsTetra
  <2> QED
    BY <1>1, <2>1, <2>2 DEF Tetrahedron, IsTetra
<1>8. IsTuple(more) /\ \A j \in DOMAIN more : more[j] = copy
  BY <1>3, Copies
<1> HIDE DEF more
<1>9. /\ IsTuple(tetra') /\ DOMAIN more = 1..Len(more)
      /\ \A j \in 1..ne : tetra'[j] = tetra[j]
      /\ \A j \in 1..Len(more) : tetra'[ne + j] = more[j]
      /\ \A j \in DOMAIN tetra' : j \in 1..ne \/ j - ne \in 1..Len(more)
  BY <1>2, <1>6, <1>8, TwoTuples, TupleLen DEF Lengths, ne
<1>10. Tets'
  <2> SUFFICES ASSUME NEW j \in DOMAIN tetra' PROVE Tetrahedron(tetra[j])'
    BY DEF Tets
  <2>1. CASE j \in 1..ne
    <3>1. tetra'[j] = tetra[j] /\ Tetrahedron(tetra[j])
      BY <1>2, <1>3, <1>9, <2>1 DEF Tets
    <3> QED
      BY <1>1, <3>1 DEF Tetrahedron
  <2>2. CASE j - ne \in 1..Len(more)
    <3>1. j \in Int
      <4>1. DOMAIN tetra' = 1..Len(tetra')
        BY <1>9, TupleLen
      <4> QED
        BY <4>1
    <3>2. ne + (j - ne) = j
      BY <1>3, <3>1
    <3>3. tetra'[j] = copy
      BY <1>8, <1>9, <2>2, <3>2
    <3> QED
      BY <1>7, <3>3
  <2> QED
    BY <1>9, <2>1, <2>2
<1>11. Limits' /\ Control' /\ Counters' /\ Lengths' /\ Points'
  BY <1>1, <1>2, <1>9 DEF Limits, Control, Counters, Lengths, Points, wave
<1>12. XTets' /\ Hashed' /\ Used' /\ Flags'
  BY <1>1 DEF XTets, Hashed, Used, Flags, Before, Sweeping, Cutting
<1> QED
  BY <1>10, <1>11, <1>12 DEF IInv

(* The end of the cuts: no point waits for a tetrahedron any more.         *)
LEMMA CutEndKeeps ==
  ASSUME IInv, CutEnd
  PROVE  IInv'
<1>1. stage = "cut" /\ ToCut = {} /\ UNCHANGED <<tetra, point, free>>
  BY DEF CutEnd
<1>2. Limits /\ Control /\ Counters /\ Lengths /\ Tets /\ XTets /\ Points /\ Flags /\ Used
  BY DEF IInv
<1>3. \A q \in DOMAIN point : ~Expected(q)
  <2> SUFFICES ASSUME NEW q, Expected(q) PROVE FALSE
    OBVIOUS
  <2>1. PICK k \in at..last : ~tetra[k].req /\ FlagOf(k) # {}
    BY <1>1 DEF Expected, Pending
  <2>2. CutFlag(k) # {}
    BY <1>1, <1>2, <2>1, CutFlagIs
  <2> QED
    BY <1>1, <2>1, <2>2 DEF ToCut
<1>4. AllVertices
  BY <1>1, <1>3, NoneExpected
<1>5. AllVertices' /\ IsTuple(free')
  BY <1>1, <1>2, <1>4 DEF AllVertices, Vertex, Corner, Lengths
<1>6. CASE memlack
  <2>1. /\ stage' = "done" /\ ret' = "failed"
        /\ UNCHANGED <<mesh, xtetra, hash, call, at, last, ni, it, nap, refused, broken>>
    BY <1>6 DEF CutEnd, Fail
  <2>2. Limits' /\ Control' /\ Counters' /\ Lengths' /\ Points'
    BY <1>1, <1>2, <2>1 DEF Limits, Control, Counters, Lengths, Points, wave
  <2>3. Tets'
    BY <1>1, <1>2, <2>1 DEF Tets, Tetrahedron, IsTetra
  <2>4. XTets' /\ Hashed' /\ Used' /\ Flags'
    BY <1>5, <2>1 DEF XTets, Hashed, Used, AllVertices, Flags, Before, Sweeping, Cutting
  <2> QED
    BY <2>2, <2>3, <2>4 DEF IInv
<1>7. CASE ~memlack
  <2>1. Return
    BY <1>7 DEF CutEnd
  <2>2. mesh' = mesh /\ xtetra' = xtetra
    BY <2>1 DEF Return
  <2>3. Tets' /\ Points'
    BY <1>1, <1>2, <2>2 DEF Tets, Tetrahedron, IsTetra, Points
  <2>4. stage # "done"
    BY <1>1
  <2> QED
    BY <1>1, <1>5, <2>1, <2>3, <2>4, ReturnKeeps
<1> QED
  BY <1>6, <1>7

-------------------------------------------------------------------------------
(* A step that changes nothing keeps the invariant.                        *)
LEMMA StutterKeeps ==
  ASSUME IInv, UNCHANGED vars
  PROVE  IInv'
<1>1. /\ SameMesh
      /\ UNCHANGED <<mesh, tetra, xtetra, point, free, hash, call, stage, at, last, ni, it, ret, nap,
                     refused, accepted, broken>>
  BY DEF vars, SameMesh
<1>2. \A k : /\ Vx(k)' = Vx(k) /\ FlagOf(k)' = FlagOf(k) /\ WillBeCut(k)' = WillBeCut(k)
             /\ Corner(k)' = Corner(k)
  BY <1>1, SameMeshVx
<1>3. \A k, e : Ends(k, e)' = Ends(k, e)
  BY <1>1 DEF Ends
<1>4. Limits' /\ Control' /\ Counters' /\ Lengths' /\ Points'
  BY <1>1 DEF IInv, Limits, Control, Counters, Lengths, Points, wave, ne
<1>5. Tets' /\ XTets'
  BY <1>1 DEF IInv, Tets, Tetrahedron, IsTetra, XTets
<1>6. Pending' = Pending /\ NewPts' = NewPts
  BY <1>1 DEF Pending, NewPts
<1>7. Hashed'
  BY <1>1, <1>2, <1>3, <1>6 DEF IInv, Hashed, OwnPoints, Apart, Forbidden, wave
<1>8. \A q : (Vertex(q)' <=> Vertex(q)) /\ (Expected(q)' <=> Expected(q))
  BY <1>1, <1>2, <1>6 DEF Vertex, Expected
<1>9. Used'
  BY <1>1, <1>8 DEF IInv, Used
<1>10. \A k : UpToDate(k)' <=> UpToDate(k)
  BY <1>1, <1>2 DEF UpToDate
<1>11. Flags'
  BY <1>1, <1>2, <1>10 DEF IInv, Flags, Before, Sweeping, Cutting, wave
<1> QED
  BY <1>4, <1>5, <1>7, <1>9, <1>11 DEF IInv

(* Every action keeps the invariant.                                       *)
LEMMA NextIInv == IInv /\ SweepsSuffice' /\ [Next]_vars => IInv'
<1> SUFFICES ASSUME IInv, SweepsSuffice', [Next]_vars PROVE IInv'
  OBVIOUS
<1>1. ASSUME NEW p \in 0..(12 * ne - 1), Insert(p) PROVE IInv'
  BY <1>1, InsertKeeps
<1>2. ASSUME NEW p \in 0..(12 * ne - 1), InsertFails(p) PROVE IInv'
  BY <1>2, InsertFailsKeeps
<1>3. CASE NoTable
  BY <1>3, NoTableKeeps
<1>4. CASE NoRoom
  BY <1>4, NoRoomKeeps
<1>5. CASE MarkEnd
  BY <1>5, MarkEndKeeps
<1>6. CASE Skip
  BY <1>6, SkipKeeps
<1>7. CASE GoOn
  BY <1>7, GoOnKeeps
<1>8. CASE Simulate
  BY <1>8, SimulateKeeps
<1>9. CASE SweepEnd
  BY <1>9, SweepEndKeeps
<1>10. CASE Cut
  BY <1>10, CutKeeps
<1>11. CASE CutFails
  BY <1>11, CutFailsKeeps
<1>12. CASE CutEnd
  BY <1>12, CutEndKeeps
<1>13. CASE UNCHANGED vars
  BY <1>13, StutterKeeps
<1> QED
  BY <1>1, <1>2, <1>3, <1>4, <1>5, <1>6, <1>7, <1>8, <1>9, <1>10, <1>11, <1>12, <1>13 DEF Next

-------------------------------------------------------------------------------
(* What is proved, for all meshes and all executions in which no loop of   *)
(* simulations runs into the limit on its sweeps.                          *)

(* The invariant holds.                                                    *)
THEOREM AnatetInvariant ==
  Spec /\ []SweepsSuffice => []IInv
<1> QED
  BY InitIInv, NextIInv, PTL DEF Spec

(* As many numbers are in a list without repetition as it is long.         *)
LEMMA ListSize ==
  ASSUME NEW s, IsTuple(s), IsInjective(s)
  PROVE  IsFiniteSet(Range(s)) /\ Cardinality(Range(s)) = Len(s)
<1>1. Len(s) \in Nat /\ DOMAIN s = 1..Len(s)
  BY TupleLen
<1>2. IsFiniteSet(1..Len(s)) /\ Cardinality(1..Len(s)) = Len(s)
  BY <1>1, FiniteUpTo
<1>3. [i \in 1..Len(s) |-> s[i]] \in Bijection(1..Len(s), Range(s))
  BY <1>1 DEF Bijection, Injection, Surjection, IsInjective, Range
<1>4. ExistsBijection(1..Len(s), Range(s))
  BY <1>3 DEF ExistsBijection
<1> QED
  BY <1>2, <1>4, FS_Bijection

(* TypeOK: among others, every point is either in use or free, once.       *)
THEOREM AnatetTypes ==
  Spec /\ []SweepsSuffice => []TypeOK
<1>1. IInv => TypeOK
  <2> SUFFICES ASSUME IInv PROVE TypeOK
    OBVIOUS
  <2>1. Limits /\ Control /\ Counters /\ Lengths /\ Tets /\ Points
    BY DEF IInv
  <2>2. DOMAIN point \subseteq 1..mesh.npmax /\ mesh.npmax \in Nat
    BY <2>1 DEF Points, Limits
  <2>3. ASSUME NEW k \in DOMAIN tetra
        PROVE  /\ tetra[k].v \in [Local -> DOMAIN mesh.coord \union 1..mesh.npmax]
               /\ tetra[k].xt \in 0..Len(xtetra) /\ tetra[k].flag \subseteq Edge
    BY <2>1, <2>2 DEF Tets, Tetrahedron
  <2>4. Len(free) + Cardinality(DOMAIN point) = mesh.npmax
    <3>1. IsTuple(free) /\ IsInjective(free)
      BY <2>1 DEF Lengths, Points
    <3>2. /\ IsFiniteSet(Range(free)) /\ Cardinality(Range(free)) = Len(free)
          /\ Len(free) \in Nat
      BY <3>1, ListSize, TupleLen
    <3>3. IsFiniteSet(1..mesh.npmax) /\ Cardinality(1..mesh.npmax) = mesh.npmax
      BY <2>2, FiniteUpTo
    <3>4. IsFiniteSet(DOMAIN point) /\ Cardinality(DOMAIN point) \in Nat
      BY <2>2, <3>3, FS_Subset, FS_CardinalityType
    <3>5. Cardinality(Range(free) \intersect DOMAIN point) = 0
      BY <2>1, FS_EmptySet DEF Points
    <3>6. Cardinality(Range(free) \union DOMAIN point)
             = Cardinality(Range(free)) + Cardinality(DOMAIN point)
                 - Cardinality(Range(free) \intersect DOMAIN point)
      BY <3>2, <3>4, FS_Union
    <3>7. Range(free) \union DOMAIN point = 1..mesh.npmax
      BY <2>1 DEF Points
    <3>8. PICK d : d = DOMAIN point
      OBVIOUS
    <3>9. mesh.npmax = Len(free) + Cardinality(d) - 0
      BY <3>2, <3>3, <3>5, <3>6, <3>7, <3>8, Zenon
    <3> QED
      BY <3>2, <3>4, <3>8, <3>9
  <2> QED
    BY <2>1, <2>2, <2>3, <2>4 DEF TypeOK, Control, Counters, Points
<1> QED
  BY <1>1, AnatetInvariant, PTL

(* PointsInUse: no wave that ends loses a vertex or leaks a point, unless  *)
(* it is left in the midst of an insertion or of a cut.                    *)
THEOREM AnatetPointsInUse ==
  Spec /\ []SweepsSuffice => []PointsInUse
<1>1. IInv => PointsInUse
  <2> SUFFICES ASSUME IInv, ~broken, (stage = "done" /\ ret # "leaked") \/ (stage # "cut" /\ nap = 0)
               PROVE  UNION {Range(tetra[k].v) : k \in DOMAIN tetra} = DOMAIN point
    BY DEF PointsInUse, Whole
  <2>1. Hashed /\ Tets /\ Used /\ ret # "leaked"
    BY DEF IInv, Control
  <2>2. ASSUME NEW k \in DOMAIN tetra
        PROVE  Range(tetra[k].v) = Corner(k) /\ Corner(k) \subseteq DOMAIN point
    BY <2>1 DEF Tets, Tetrahedron, Range, Corner
  <2>3. ASSUME NEW q PROVE ~Expected(q)
    <3>1. CASE stage = "done"
      BY <3>1 DEF Expected, Pending
    <3>2. CASE stage # "done"
      <4>1. NewPts = {}
        BY <2>1, <3>2 DEF Hashed, OwnPoints
      <4> QED
        BY <4>1, VxNew DEF Expected
    <3> QED
      BY <3>1, <3>2
  <2>4. \A q \in DOMAIN point : \E k \in DOMAIN tetra : q \in Corner(k)
    BY <2>1, <2>3 DEF Used, Vertex
  <2> QED
    BY <2>2, <2>4
<1> QED
  BY <1>1, AnatetInvariant, PTL

(* CutAsSimulated: every tetrahedron that anatets makes has been accepted  *)
(* by the last simulation of its parent, and since then none of its points *)
(* has been moved or deleted.                                              *)
THEOREM AnatetCutAsSimulated ==
  Spec /\ []SweepsSuffice => CutAsSimulated
<1> DEFINE Step ==
      \A k \in DOMAIN tetra :
          wave = "surf" /\ stage = "cut" /\ tetra'[k].v # tetra[k].v =>
              \A j \in {k} \union (DOMAIN tetra' \ DOMAIN tetra) :
                  tetra'[j].v \in accepted[k]
<1>1. IInv /\ [Next]_vars => [Step]_vars
  <2> SUFFICES ASSUME IInv, Next, NEW l \in DOMAIN tetra,
                      wave = "surf", stage = "cut", tetra'[l].v # tetra[l].v,
                      NEW j \in {l} \union (DOMAIN tetra' \ DOMAIN tetra)
               PROVE  tetra'[j].v \in accepted[l]
    BY DEF Step
  <2>1. Cut \/ CutFails \/ CutEnd
    BY DEF Next, Insert, InsertFails, Create, NoTable, NoRoom, MarkEnd, Skip, GoOn, Simulate, SweepEnd
  <2>2. CASE Cut
    <3>1. PICK k, ps, ftag :
             /\ k \in DOMAIN tetra
             /\ k \in at..last /\ ~tetra[k].req /\ FlagOf(k) # {}
             /\ ps = Split(Bits(FlagOf(k)), tetra[k].v) /\ Pasted(k, FlagOf(k), ps, ftag)
      BY <2>2, CutPieces
    <3>2. /\ Limits /\ Lengths /\ Tets /\ XTets /\ Points /\ OwnPoints /\ Apart /\ Flags
          /\ stage # "done"
      BY DEF IInv, Hashed
    <3>3. k \in Pending
      BY <3>1 DEF Pending
    <3>4. /\ IsTuple(ps) /\ Len(ps) >= 2
          /\ \A i \in DOMAIN ps : Global(k, ps[i].v) \in WillBeCut(k)
      BY <3>1, <3>2, <3>3, PieceVertices
    <3>5. PICK F : Pasted(k, F, ps, ftag)
      BY <3>1
    <3>6. /\ \A i \in DOMAIN tetra : i # k => tetra'[i] = tetra[i]
          /\ \A i \in DOMAIN tetra' : i = k \/ i \notin DOMAIN tetra => IsPiece(tetra'[i], k, ps)
          /\ DOMAIN tetra' = 1..(ne + Len(ps) - 1)
      BY <3>1, <3>2, <3>4, <3>5, PastedTetra
    <3>7. l = k
      BY <3>6
    <3>8. k \in DOMAIN tetra'
      <4>1. ne \in Nat /\ DOMAIN tetra = 1..ne /\ Len(ps) \in Nat
        BY <3>2, <3>4, Numbers, TupleLen
      <4> QED
        BY <3>1, <3>4, <3>6, <4>1
    <3>9. PICK i \in DOMAIN ps : tetra'[j].v = Global(k, ps[i].v)
      BY <3>6, <3>7, <3>8 DEF IsPiece
    <3>10. accepted[k] = WillBeCut(k)
      BY <3>1, <3>2 DEF Flags, Cutting, UpToDate
    <3> QED
      BY <3>4, <3>7, <3>9, <3>10
  <2>3. CASE CutFails
    <3>1. Lengths /\ ne \in Nat /\ mesh.nemax \in Nat
      BY Numbers DEF IInv, Limits
    <3>2. PICK copy : copy = [tetra[Min(ToCut)] EXCEPT !.flag = {}]
      OBVIOUS
    <3> DEFINE more == [i \in 1..(mesh.nemax - ne) |-> copy]
    <3>3. tetra' = tetra \o more
      BY <2>3, <3>2 DEF CutFails
    <3>4. IsTuple(more)
      BY <3>1, Copies
    <3> HIDE DEF more
    <3>5. tetra'[l] = tetra[l]
      BY <3>1, <3>3, <3>4, TwoTuples, TupleLen DEF Lengths
    <3> QED
      BY <3>5
  <2>4. CASE CutEnd
    BY <2>4 DEF CutEnd
  <2> QED
    BY <2>1, <2>2, <2>3, <2>4
<1>2. Spec /\ []SweepsSuffice => [][Step]_vars
  BY <1>1, AnatetInvariant, PTL DEF Spec
<1> QED
  BY <1>2 DEF CutAsSimulated, Step

-------------------------------------------------------------------------------
(* The tags.  A face is at the boundary when its vertices come from those  *)
(* of a face of the initial boundary: the sets that the tags stand for are *)
(* smaller than what the vertices of anything else come from.              *)
SmallSets ==
    /\ \A s \in mesh.bdy : \A r \in [Local -> s] : ~IsInjective(r)
    /\ \A s \in mesh.tagged : \A a, b, c \in s : a = b \/ b = c \/ a = c

(* The vertices of a tetrahedron come from four different ones.            *)
Spread(k) ==
    \E r \in [Local -> Origin(Corner(k))] :
        IsInjective(r) /\ \A i \in Local : r[i] \in point[tetra[k].v[i]].of

FacesTagged(k) ==
    \A i \in Local :
        LET o == Origin(Face(k, i))
        IN /\ o \in mesh.bdy => tetra[k].xt # 0
           /\ tetra[k].xt # 0 =>
                  xtetra[tetra[k].xt].ftag[i] = IF o \in mesh.bdy THEN o ELSE {}

XtOnce == \A j, k \in DOMAIN tetra : tetra[j].xt = tetra[k].xt /\ tetra[j].xt # 0 => j = k

(* A new point comes from the ends of its edge.                            *)
EdgeOrigins ==
    \A k \in Pending, i \in Edge :
        Ends(k, i) \in DOMAIN hash /\ hash[Ends(k, i)] # -1 =>
            point[hash[Ends(k, i)]].of = Origin(Ends(k, i))

WellTagged(k) ==
    /\ Spread(k) /\ FacesTagged(k)
    /\ ~tetra[k].six => TagsOf(k)
    /\ ~tetra[k].op3 => OriOf(k)

TagsIInv ==
    /\ SmallSets /\ EdgeOrigins
    /\ ~broken => XtOnce /\ \A k \in DOMAIN tetra : WellTagged(k)

(* A set of three or two vertices has no more.                             *)
LEMMA SmallCard ==
  ASSUME NEW S, IsFiniteSet(S), NEW n \in Nat, NEW s \in kSubset(n, S)
  PROVE  /\ n = 2 => \A a, b, c \in s : a = b \/ b = c \/ a = c
         /\ n = 3 => \A r \in [Local -> s] : ~IsInjective(r)
         /\ n # 0 => s # {}
         /\ s \subseteq S
<1>1. s \subseteq S /\ IsFiniteSet(s) /\ Cardinality(s) = n
  BY FS_Subset DEF kSubset
<1>2. \A T \in SUBSET s : IsFiniteSet(T) /\ Cardinality(T) <= n
  BY <1>1, FS_Subset
<1>3. \A a : IsFiniteSet({a}) /\ Cardinality({a}) = 1
  BY FS_Singleton
<1>4. \A T, a : IsFiniteSet(T) /\ a \notin T =>
         IsFiniteSet(T \union {a}) /\ Cardinality(T \union {a}) = Cardinality(T) + 1
  BY FS_AddElement
<1>5. ASSUME NEW a \in s, NEW b \in s, NEW c \in s, a # b, b # c, a # c
      PROVE  IsFiniteSet({a, b, c}) /\ Cardinality({a, b, c}) = 3
  <2>1. IsFiniteSet({a, b}) /\ Cardinality({a, b}) = 2
    <3>1. {a, b} = {a} \union {b} /\ b \notin {a}
      BY <1>5
    <3>2. /\ IsFiniteSet({a} \union {b})
          /\ Cardinality({a} \union {b}) = Cardinality({a}) + 1
      BY <1>3, <1>4, <3>1
    <3>3. IsFiniteSet({a, b}) /\ Cardinality({a, b}) = Cardinality({a}) + 1
      BY <3>1, <3>2, Zenon
    <3> QED
      BY <1>3, <3>3
  <2>2. {a, b, c} = {a, b} \union {c} /\ c \notin {a, b}
    BY <1>5
  <2> QED
    BY <1>4, <2>1, <2>2
<1>6. ASSUME n = 2, NEW a \in s, NEW b \in s, NEW c \in s, a # b, b # c, a # c PROVE FALSE
  <2>1. Cardinality({a, b, c}) = 3
    BY <1>5, <1>6
  <2>2. Cardinality({a, b, c}) <= n
    BY <1>2, {a, b, c} \in SUBSET s
  <2> QED
    BY <1>6, <2>1, <2>2
<1>7. ASSUME n = 3, NEW r \in [Local -> s], IsInjective(r) PROVE FALSE
  <2>1. PICK a, b, c, d : a = r[0] /\ b = r[1] /\ c = r[2] /\ d = r[3]
    OBVIOUS
  <2>2. /\ a \in s /\ b \in s /\ c \in s /\ d \in s
        /\ a # b /\ a # c /\ a # d /\ b # c /\ b # d /\ c # d
    BY <1>7, <2>1 DEF Local, IsInjective
  <2>3. IsFiniteSet({a, b, c}) /\ Cardinality({a, b, c}) = 3
    BY <1>5, <2>2
  <2>4. {a, b, c, d} = {a, b, c} \union {d} /\ d \notin {a, b, c}
    BY <2>2
  <2>5. Cardinality({a, b, c, d}) = Cardinality({a, b, c}) + 1
    BY <1>4, <2>3, <2>4, Zenon
  <2>6. {a, b, c, d} \in SUBSET s
    BY <2>2
  <2>7. Cardinality({a, b, c, d}) <= 3
    BY <1>2, <1>7, <2>6
  <2> QED
    BY <2>3, <2>5, <2>7
<1>8. n # 0 => s # {}
  BY <1>1, FS_EmptySet
<1> QED
  BY <1>1, <1>6, <1>7, <1>8

-------------------------------------------------------------------------------
(* The steps that cut nothing.                                             *)

(* A tetrahedron and its tags are the same; no point in use has changed.   *)
SameAt(k) ==
    /\ k \in DOMAIN tetra'
    /\ tetra'[k].v = tetra[k].v /\ tetra'[k].ref = tetra[k].ref /\ tetra'[k].xt = tetra[k].xt
    /\ tetra'[k].six = tetra[k].six /\ tetra'[k].op3 = tetra[k].op3
    /\ tetra[k].xt # 0 => xtetra'[tetra[k].xt] = xtetra[tetra[k].xt]

SamePoints ==
    /\ mesh' = mesh
    /\ \A q \in DOMAIN point \intersect DOMAIN point' : point'[q] = point[q]

SameTags ==
    /\ SamePoints /\ DOMAIN tetra' = DOMAIN tetra /\ \A k \in DOMAIN tetra : SameAt(k)
    /\ broken => broken'

(* Vertices in use come from the same ones as before.                      *)
LEMMA SameOrigin ==
  ASSUME Tets, Tets', SamePoints, NEW k \in DOMAIN tetra, SameAt(k)
  PROVE  /\ \A j \in Local : point'[tetra'[k].v[j]].of = point[tetra[k].v[j]].of
         /\ Origin(Corner(k))' = Origin(Corner(k))
         /\ \A i \in Local : Face(k, i)' = Face(k, i) /\ Origin(Face(k, i))' = Origin(Face(k, i))
         /\ \A e \in Edge : Ends(k, e)' = Ends(k, e) /\ Origin(Ends(k, e))' = Origin(Ends(k, e))
<1>1. tetra'[k].v = tetra[k].v /\ k \in DOMAIN tetra'
  BY DEF SameAt
<1>2. tetra[k].v \in [Local -> DOMAIN point] /\ tetra[k].v \in [Local -> DOMAIN point']
  BY <1>1 DEF Tets, Tetrahedron
<1>3. \A j \in Local : point'[tetra[k].v[j]] = point[tetra[k].v[j]]
  BY <1>2 DEF SamePoints
<1>4. Corner(k)' = Corner(k)
  BY <1>1 DEF Corner
<1>5. \A q \in Corner(k) : point'[q] = point[q]
  BY <1>3 DEF Corner
<1>6. \A s, t \in SUBSET Corner(k) : s = t =>
         UNION {point'[p].of : p \in s} = UNION {point[p].of : p \in t}
  BY <1>5
<1>7. Origin(Corner(k))' = Origin(Corner(k))
  BY <1>4, <1>6 DEF Origin
<1>8. \A i \in Local : Face(k, i)' = Face(k, i) /\ Face(k, i) \in SUBSET Corner(k)
  <2>1. Range(tetra[k].v) = Corner(k)
    BY <1>2 DEF Range, Corner
  <2> QED
    BY <1>1, <2>1 DEF Face
<1>9. \A i \in Local : Origin(Face(k, i))' = Origin(Face(k, i))
  BY <1>6, <1>8 DEF Origin
<1>10. \A e \in Edge : Ends(k, e)' = Ends(k, e) /\ Ends(k, e) \in SUBSET Corner(k)
  BY <1>1, EdgesIn DEF Ends, Corner
<1>11. \A e \in Edge : Origin(Ends(k, e))' = Origin(Ends(k, e))
  BY <1>6, <1>10 DEF Origin
<1> QED
  BY <1>1, <1>3, <1>7, <1>8, <1>9, <1>10, <1>11

(* The tags are right after such a step.                                   *)
LEMMA SameTagsKeep ==
  ASSUME Tets, Tets', SamePoints, NEW k \in DOMAIN tetra, SameAt(k), WellTagged(k)
  PROVE  WellTagged(k)'
<1>1. /\ mesh' = mesh /\ (tetra[k].xt # 0 => xtetra'[tetra[k].xt] = xtetra[tetra[k].xt])
      /\ tetra'[k].v = tetra[k].v /\ tetra'[k].ref = tetra[k].ref /\ tetra'[k].xt = tetra[k].xt
      /\ tetra'[k].six = tetra[k].six /\ tetra'[k].op3 = tetra[k].op3
  BY DEF SamePoints, SameAt
<1>2. Spread(k)'
  <2>1. PICK r \in [Local -> Origin(Corner(k))] :
           IsInjective(r) /\ \A i \in Local : r[i] \in point[tetra[k].v[i]].of
    BY DEF WellTagged, Spread
  <2>2. r \in [Local -> Origin(Corner(k))'] /\ \A i \in Local : r[i] \in point'[tetra'[k].v[i]].of
    BY <2>1, SameOrigin
  <2> QED
    BY <2>1, <2>2 DEF Spread
<1>3. FacesTagged(k)'
  BY <1>1, SameOrigin DEF WellTagged, FacesTagged
<1>4. \A s : TagOf(s)' = TagOf(s)
  BY <1>1 DEF TagOf
<1>5. TagsOf(k) => TagsOf(k)'
  <2> SUFFICES ASSUME TagsOf(k), tetra'[k].xt # 0, NEW e \in Edge
               PROVE  xtetra'[tetra'[k].xt].tag[e] = TagOf(Origin(Ends(k, e)))'
    BY DEF TagsOf
  <2>1. xtetra[tetra[k].xt].tag[e] = TagOf(Origin(Ends(k, e)))
    BY <1>1 DEF TagsOf
  <2>2. Origin(Ends(k, e))' = Origin(Ends(k, e))
    BY SameOrigin
  <2>3. TagOf(Origin(Ends(k, e)))' = TagOf(Origin(Ends(k, e)))
    BY <1>1, <2>2 DEF TagOf
  <2> QED
    BY <1>1, <2>1, <2>3
<1>6. OriOf(k) => OriOf(k)'
  <2>1. \A f, ref : Oriented(f, ref)' <=> Oriented(f, ref)
    BY <1>1 DEF Oriented
  <2> SUFFICES ASSUME OriOf(k), tetra'[k].xt # 0, NEW i \in Local
               PROVE  Origin(Face(k, i))' \in mesh'.bdy =>
                          (i \in xtetra'[tetra'[k].xt].ori
                               <=> Oriented(Origin(Face(k, i)), tetra[k].ref)')
    BY DEF OriOf
  <2>2. Origin(Face(k, i)) \in mesh.bdy =>
            (i \in xtetra[tetra[k].xt].ori <=> Oriented(Origin(Face(k, i)), tetra[k].ref))
    BY <1>1 DEF OriOf
  <2>3. Origin(Face(k, i))' = Origin(Face(k, i))
    BY SameOrigin
  <2>4. Oriented(Origin(Face(k, i)), tetra[k].ref)' <=> Oriented(Origin(Face(k, i)), tetra[k].ref)
    BY <1>1, <2>3 DEF Oriented
  <2> QED
    BY <1>1, <2>2, <2>3, <2>4
<1> QED
  BY <1>1, <1>2, <1>3, <1>5, <1>6 DEF WellTagged

(* The edges that have a point keep it, or all points are forgotten.       *)
FewerPoints ==
    \/ \A e \in DOMAIN hash' : hash'[e] = -1
    \/ /\ Pending' \subseteq Pending
       /\ \A e \in DOMAIN hash' : e \in DOMAIN hash /\ hash'[e] = hash[e]

(* The whole of it.                                                        *)
LEMMA QuietKeeps ==
  ASSUME TagsIInv, IInv, IInv', SameTags, FewerPoints \/ EdgeOrigins'
  PROVE  TagsIInv'
<1>1. Tets /\ Tets'
  BY DEF IInv
<1>2. /\ mesh' = mesh /\ DOMAIN tetra' = DOMAIN tetra /\ (broken => broken')
      /\ SamePoints /\ \A k \in DOMAIN tetra : SameAt(k)
  BY DEF SameTags, SamePoints
<1>3. SmallSets'
  BY <1>2 DEF TagsIInv, SmallSets
<1>4. EdgeOrigins'
  <2> SUFFICES ASSUME FewerPoints, NEW k \in Pending', NEW i \in Edge,
                      Ends(k, i)' \in DOMAIN hash', hash'[Ends(k, i)'] # -1
               PROVE  point'[hash'[Ends(k, i)']].of = Origin(Ends(k, i))'
    BY DEF EdgeOrigins
  <2>1. Pending' \subseteq Pending /\ hash'[Ends(k, i)'] = hash[Ends(k, i)'] /\ Ends(k, i)' \in DOMAIN hash
    BY DEF FewerPoints
  <2>2. stage # "done" /\ k \in Pending
    BY <2>1 DEF Pending
  <2>3. k \in DOMAIN tetra
    <3>1. stage = "cut" => last <= ne /\ at >= 1 /\ at \in Nat /\ last \in Nat
      BY DEF IInv, Counters
    <3>2. DOMAIN tetra = 1..ne /\ ne \in Nat
      BY Numbers DEF IInv
    <3> QED
      BY <2>2, <3>1, <3>2 DEF Pending
  <2>4. Ends(k, i)' = Ends(k, i) /\ Origin(Ends(k, i))' = Origin(Ends(k, i))
    BY <1>1, <1>2, <2>3, SameOrigin
  <2>5. point[hash[Ends(k, i)]].of = Origin(Ends(k, i))
    BY <2>1, <2>2, <2>4 DEF TagsIInv, EdgeOrigins
  <2>6. hash[Ends(k, i)] \in DOMAIN point
    BY <2>1, <2>2, <2>4 DEF IInv, Hashed, OwnPoints
  <2>7. hash'[Ends(k, i)'] \in DOMAIN point'
    <3>1. stage' # "done"
      BY DEF Pending
    <3> QED
      BY <3>1 DEF IInv, Hashed, OwnPoints
  <2> QED
    BY <1>2, <2>1, <2>4, <2>5, <2>6, <2>7 DEF SamePoints
<1>5. ASSUME ~broken' PROVE XtOnce' /\ \A k \in DOMAIN tetra' : WellTagged(k)'
  <2>1. XtOnce /\ \A k \in DOMAIN tetra : WellTagged(k)
    BY <1>2, <1>5 DEF TagsIInv
  <2>2. XtOnce'
    BY <1>2, <2>1 DEF XtOnce, SameAt
  <2> QED
    BY <1>1, <1>2, <2>1, <2>2, SameTagsKeep
<1> QED
  BY <1>3, <1>4, <1>5 DEF TagsIInv

(* No edge has a point when a wave begins.                                 *)
LEMMA ReturnQuiet ==
  ASSUME Return
  PROVE  FewerPoints /\ mesh' = mesh /\ xtetra' = xtetra /\ broken' = broken
<1>1. \/ hash' = HashAtStart(mesh.waves[call + 1], tetra, xtetra)
      \/ hash' = EmptyHash
  BY DEF Return
<1>2. \A e \in DOMAIN hash' : hash'[e] = -1
  BY <1>1, StartHash DEF EmptyHash
<1> QED
  BY <1>2 DEF FewerPoints, Return

(* A step that leaves the mesh alone, and the points in use that stay.     *)
LEMMA SameMeshTags ==
  ASSUME SameMesh, broken' = broken, point' = point \/ DelPatternPts
  PROVE  SameTags
BY DEF SameMesh, SameTags, SamePoints, SameAt, DelPatternPts

(* An edge receives a point that comes from its ends.                      *)
LEMMA InsertTags ==
  ASSUME TagsIInv, IInv, IInv', NEW p, Insert(p)
  PROVE  TagsIInv'
<1> DEFINE q0 == Head(free)
           E  == EdgeAt(p)
<1>1. /\ stage = "mark" /\ stage' = "mark" /\ free # << >> /\ SameMesh /\ broken' = broken
      /\ hash' = With(hash, E, q0)
      /\ point' = With(point, q0, NewPoint(E, wave = "surf"))
  BY DEF Insert, Create, SameMesh
<1>2. q0 \notin DOMAIN point
  BY <1>1, CreateKeeps DEF Insert
<1>3. NewPoint(E, wave = "surf").of = Origin(E)
  BY DEF NewPoint, Origin
<1>4. PICK new : new = NewPoint(E, wave = "surf")
  OBVIOUS
<1> HIDE DEF q0, E
<1>5. /\ \A q \in DOMAIN point : point'[q] = point[q]
      /\ point'[q0].of = Origin(E)
      /\ DOMAIN hash' = DOMAIN hash \union {E} /\ hash'[E] = q0
      /\ \A e \in DOMAIN hash : e # E => hash'[e] = hash[e]
  BY <1>1, <1>2, <1>3, <1>4 DEF With
<1>6. SameTags
  BY <1>1, <1>5 DEF SameTags, SamePoints, SameAt, SameMesh
<1>7. EdgeOrigins'
  <2> SUFFICES ASSUME NEW k \in Pending', NEW i \in Edge,
                      Ends(k, i)' \in DOMAIN hash', hash'[Ends(k, i)'] # -1
               PROVE  point'[hash'[Ends(k, i)']].of = Origin(Ends(k, i))'
    BY DEF EdgeOrigins
  <2>1. k \in DOMAIN tetra /\ k \in Pending
    BY <1>1 DEF Pending, SameMesh
  <2>2. Tets /\ Tets' /\ OwnPoints /\ SamePoints /\ SameAt(k)
    BY <1>1, <1>6, <2>1 DEF IInv, Hashed, SameTags
  <2>3. Ends(k, i)' = Ends(k, i) /\ Origin(Ends(k, i))' = Origin(Ends(k, i))
    BY <2>1, <2>2, SameOrigin
  <2>4. CASE Ends(k, i) = E
    BY <1>5, <2>3, <2>4
  <2>5. CASE Ends(k, i) # E
    <3>1. Ends(k, i) \in DOMAIN hash /\ hash'[Ends(k, i)] = hash[Ends(k, i)]
      BY <1>5, <2>3, <2>5
    <3>2. point[hash[Ends(k, i)]].of = Origin(Ends(k, i)) /\ hash[Ends(k, i)] \in DOMAIN point
      BY <2>1, <2>2, <2>3, <3>1 DEF TagsIInv, EdgeOrigins, OwnPoints
    <3> QED
      BY <1>5, <2>3, <3>1, <3>2
  <2> QED
    BY <2>4, <2>5
<1> QED
  BY <1>6, <1>7, QuietKeeps

(* Or no edge receives it.                                                 *)
LEMMA InsertFailsTags ==
  ASSUME TagsIInv, IInv, IInv', NEW p, InsertFails(p)
  PROVE  TagsIInv'
<1>1. /\ Create(p) /\ SameMesh /\ hash' = hash /\ broken' = broken /\ stage' = "done"
  BY DEF InsertFails, SameMesh
<1>2. Head(free) \notin DOMAIN point
  BY <1>1, CreateKeeps
<1>3. PICK q0, new : q0 = Head(free) /\ point' = With(point, q0, new)
  BY <1>1 DEF Create
<1>4. \A q \in DOMAIN point : q \in DOMAIN point' /\ point'[q] = point[q]
  BY <1>2, <1>3 DEF With
<1>5. SameTags
  BY <1>1, <1>4 DEF SameTags, SamePoints, SameAt, SameMesh
<1>6. FewerPoints
  BY <1>1 DEF FewerPoints, Pending
<1> QED
  BY <1>5, <1>6, QuietKeeps

(* The flags of the tetrahedra are no tags.                                *)
LEMMA FlaggedTags ==
  ASSUME mesh' = mesh, xtetra' = xtetra, point' = point, broken' = broken, tetra' = Flagged
  PROVE  SameTags
<1>1. /\ DOMAIN tetra' = DOMAIN tetra
      /\ \A k \in DOMAIN tetra :
            tetra'[k] = [tetra[k] EXCEPT !.flag = IF tetra[k].req THEN @ ELSE FlagOf(k)]
  BY DEF Flagged
<1>2. ASSUME NEW k \in DOMAIN tetra
      PROVE  /\ tetra'[k].v = tetra[k].v /\ tetra'[k].ref = tetra[k].ref
             /\ tetra'[k].xt = tetra[k].xt
             /\ tetra'[k].six = tetra[k].six /\ tetra'[k].op3 = tetra[k].op3
  <2>1. PICK fl : tetra'[k] = [tetra[k] EXCEPT !.flag = fl]
    BY <1>1
  <2> QED
    BY <2>1
<1> QED
  BY <1>1, <1>2 DEF SameTags, SamePoints, SameAt

(* The end of the analysis.                                                *)
LEMMA MarkEndTags ==
  ASSUME TagsIInv, IInv, IInv', MarkEnd
  PROVE  TagsIInv'
<1>1. CASE nap = 0
  <2>1. Return /\ tetra' = tetra /\ point' = point
    BY <1>1 DEF MarkEnd
  <2> QED
    BY <2>1, ReturnQuiet, SameMeshTags, QuietKeeps DEF SameMesh
<1>2. CASE nap # 0
  <2>1. /\ UNCHANGED <<mesh, xtetra, point, hash, broken>>
        /\ tetra' = Flagged \/ tetra' = tetra
        /\ stage = "mark" /\ stage' \in {"sim", "check"}
    BY <1>2 DEF MarkEnd
  <2>2. SameTags
    BY <2>1, FlaggedTags, SameMeshTags DEF SameMesh
  <2>3. Pending' = Pending
    BY <2>1, <2>2 DEF Pending, SameTags
  <2>4. FewerPoints
    BY <2>1, <2>3 DEF FewerPoints
  <2> QED
    BY <2>2, <2>4, QuietKeeps
<1> QED
  BY <1>1, <1>2

(* A simulation: the points that it deletes are vertices of no tetrahedron *)
(* (IInv' says so).                                                        *)
LEMMA SimulateTags ==
  ASSUME TagsIInv, IInv, IInv', Simulate
  PROVE  TagsIInv'
<1>1. stage = "sim" /\ stage' = "sim" /\ ToSimulate # {}
  BY DEF Simulate
<1>2. Counters /\ Lengths /\ Tets /\ at >= 1
  BY <1>1 DEF IInv, Counters
<1>3. PICK k \in DOMAIN tetra : k = Min(ToSimulate)
  BY <1>1, <1>2, NextSimulated
<1>4. Accepts(k) \/ Moves(k) \/ Deletes(k)
  BY <1>3, SimulateCases
<1>5. /\ tetra' = [tetra EXCEPT ![k].flag = FlagOf(k)]
      /\ UNCHANGED <<mesh, xtetra, broken>>
  BY <1>3, SimulateCases
<1>6. DOMAIN tetra' = DOMAIN tetra
  BY <1>5
<1>7. ASSUME NEW j \in DOMAIN tetra
      PROVE  /\ tetra'[j].v = tetra[j].v /\ tetra'[j].ref = tetra[j].ref
             /\ tetra'[j].xt = tetra[j].xt
             /\ tetra'[j].six = tetra[j].six /\ tetra'[j].op3 = tetra[j].op3
  <2>1. IsTetra(tetra[k])
    BY <1>2 DEF Tets, Tetrahedron
  <2>2. CASE j = k
    <3>1. tetra'[k] = [tetra[k] EXCEPT !.flag = FlagOf(k)]
      BY <1>5
    <3> QED
      BY <2>2, <3>1
  <2>3. CASE j # k
    BY <1>5, <2>3
  <2> QED
    BY <2>2, <2>3
<1>8. /\ \A q \in DOMAIN point \intersect DOMAIN point' : point'[q] = point[q]
      /\ \A e \in DOMAIN hash' : e \in DOMAIN hash /\ hash'[e] = hash[e]
  BY <1>4 DEF Accepts, Moves, Deletes
<1>9. SameTags
  BY <1>5, <1>6, <1>7, <1>8 DEF SameTags, SamePoints, SameAt
<1>10. Pending' = Pending
  BY <1>1, <1>6 DEF Pending
<1>11. FewerPoints
  BY <1>8, <1>10 DEF FewerPoints
<1> QED
  BY <1>9, <1>11, QuietKeeps

(* The other steps that cut nothing.                                       *)
LEMMA QuietTags ==
  ASSUME TagsIInv, IInv, IInv',
         NoTable \/ NoRoom \/ Skip \/ GoOn \/ SweepEnd \/ CutEnd \/ UNCHANGED vars
  PROVE  TagsIInv'
<1>1. DOMAIN tetra = 1..ne /\ ne \in Nat /\ (stage = "cut" => at \in Nat)
  BY Numbers DEF IInv, Counters
<1>2. CASE NoTable \/ NoRoom
  <2>1. /\ SameMesh /\ broken' = broken /\ (point' = point \/ DelPatternPts) /\ hash' = hash
        /\ stage = "mark" /\ stage' \in {"done", "check"}
    BY <1>2 DEF NoTable, NoRoom, SameMesh, Fail
  <2>2. Pending' \subseteq Pending
    BY <2>1 DEF Pending, SameMesh
  <2> QED
    BY <2>1, <2>2, SameMeshTags, QuietKeeps DEF FewerPoints
<1>3. CASE Skip
  <2>1. Return /\ tetra' = tetra /\ DelPatternPts
    BY <1>3 DEF Skip
  <2> QED
    BY <2>1, ReturnQuiet, SameMeshTags, QuietKeeps DEF SameMesh
<1>4. CASE GoOn
  <2>1. /\ SameMesh /\ UNCHANGED <<point, hash, broken>>
        /\ stage = "check" /\ stage' = "cut" /\ at' = 1 /\ last' = ne
    BY <1>4 DEF GoOn, SameMesh
  <2>2. Pending' = Pending
    BY <1>1, <2>1 DEF Pending
  <2> QED
    BY <2>1, <2>2, SameMeshTags, QuietKeeps DEF FewerPoints
<1>5. CASE SweepEnd
  <2>1. /\ SameMesh /\ UNCHANGED <<point, hash, broken>> /\ stage = "sim"
        /\ \/ stage' = "sim"
           \/ stage' = "cut" /\ at' = 1 /\ last' = ne
    BY <1>5 DEF SweepEnd, SameMesh
  <2>2. Pending' = Pending
    BY <1>1, <2>1 DEF Pending, SameMesh
  <2> QED
    BY <2>1, <2>2, SameMeshTags, QuietKeeps DEF FewerPoints
<1>6. CASE CutEnd
  <2>1. stage = "cut" /\ UNCHANGED <<tetra, point>>
    BY <1>6 DEF CutEnd
  <2>2. CASE memlack
    <3>1. SameMesh /\ UNCHANGED <<hash, broken>> /\ stage' = "done"
      BY <1>6, <2>1, <2>2 DEF CutEnd, SameMesh, Fail
    <3>2. Pending' = {}
      BY <3>1 DEF Pending
    <3> QED
      BY <2>1, <3>1, <3>2, SameMeshTags, QuietKeeps DEF FewerPoints
  <2>3. CASE ~memlack
    <3>1. Return
      BY <1>6, <2>3 DEF CutEnd
    <3> QED
      BY <2>1, <3>1, ReturnQuiet, SameMeshTags, QuietKeeps DEF SameMesh
  <2> QED
    BY <2>2, <2>3
<1>7. CASE UNCHANGED vars
  <2>1. /\ SameMesh /\ UNCHANGED <<point, hash, broken, stage, at, last>>
    BY <1>7 DEF vars, SameMesh
  <2>2. Pending' = Pending
    BY <2>1 DEF Pending, SameMesh
  <2> QED
    BY <2>1, <2>2, SameMeshTags, QuietKeeps DEF FewerPoints
<1> QED
  BY <1>2, <1>3, <1>4, <1>5, <1>6, <1>7

(* A cut that fails: the tags are given up, the wave is over.              *)
LEMMA CutFailsTags ==
  ASSUME TagsIInv, CutFails
  PROVE  TagsIInv'
<1>1. mesh' = mesh /\ broken' = TRUE /\ stage' = "done"
  BY DEF CutFails, Fail
<1>2. EdgeOrigins'
  BY <1>1 DEF EdgeOrigins, Pending
<1>3. SmallSets'
  BY <1>1 DEF TagsIInv, SmallSets
<1> QED
  BY <1>1, <1>2, <1>3 DEF TagsIInv

-------------------------------------------------------------------------------
(* The tags of the pieces.                                                 *)

(* A piece without an xtetra has no face at the boundary, the others have  *)
(* theirs in the table.                                                    *)
LEMMA XtHolds ==
  ASSUME Lengths, Tets, NEW k \in DOMAIN tetra, NEW ps, IsTuple(ps), NEW ftag,
         NEW xs, xs = XPieces(k, ps, ftag), NEW keep, keep = Keep(xs), NEW i \in DOMAIN ps
  PROVE  /\ XtOf(k, keep, i) = 0 =>
                tetra[k].xt = 0 \/ \A f \in Local : xs[i].ftag[f] = {}
         /\ XtOf(k, keep, i) # 0 =>
                tetra[k].xt # 0 /\ XTetras(k, xs, keep)[XtOf(k, keep, i)] = xs[i]
<1> DEFINE x == Len(xtetra)
           t == tetra[k].xt
           S == {l \in DOMAIN xs : \E f \in Local : xs[l].ftag[f] # {}}
           rank == CHOOSE j \in DOMAIN keep : keep[j] = i
<1>1. x \in Nat /\ DOMAIN xtetra = 1..x /\ t \in 0..x
  BY TupleLen DEF Lengths, Tets, Tetrahedron
<1>2. Len(ps) \in Nat /\ DOMAIN ps = 1..Len(ps)
  BY TupleLen
<1>3. t # 0 => DOMAIN xs = DOMAIN ps
  BY DEF XPieces
<1>4. S \subseteq DOMAIN ps /\ (t = 0 => S = {})
  BY DEF XPieces
<1>5. keep = Ascending(S)
  BY DEF Keep
<1>6. t # 0 /\ i \notin S => \A f \in Local : xs[i].ftag[f] = {}
  BY <1>3
<1> HIDE DEF S
<1>7. Lists(keep, S)
  <2>1. IsFiniteSet(S)
    <3>1. IsFiniteSet(1..Len(ps))
      BY <1>2, FiniteUpTo
    <3> QED
      BY <1>2, <1>4, <3>1, FS_Subset
  <2>2. \A y \in S : y \in Int
    BY <1>2, <1>4
  <2> QED
    BY <1>5, <2>1, <2>2, AscendingLists
<1>8. IsTuple(keep) /\ (\A j \in DOMAIN keep : keep[j] \in S) /\ (\A y \in S : \E j \in DOMAIN keep : keep[j] = y)
  BY <1>7 DEF Lists
<1>9. Len(keep) \in Nat /\ DOMAIN keep = 1..Len(keep)
  BY <1>8, TupleLen
<1>10. Contains(keep, i) <=> i \in S
  BY <1>8, <1>9 DEF Contains
<1>11. XtOf(k, keep, i) = IF ~Contains(keep, i) THEN 0
                          ELSE IF rank = 1 THEN t ELSE x + rank - 1
  BY DEF XtOf
<1>12. ASSUME i \in S PROVE rank \in 1..Len(keep) /\ keep[rank] = i
  BY <1>8, <1>9, <1>12
<1> HIDE DEF rank, t, x
<1>13. CASE i \notin S
  BY <1>6, <1>10, <1>11, <1>13 DEF t
<1>14. CASE i \in S
  <2>1. t # 0 /\ rank \in 1..Len(keep) /\ keep[rank] = i
    BY <1>4, <1>12, <1>14
  <2>2. keep # << >>
    BY <1>9, <2>1
  <2> DEFINE r == [xtetra EXCEPT ![t] = xs[keep[1]]]
             s == [j \in 1..(Len(keep) - 1) |-> xs[keep[j + 1]]]
  <2>3. XTetras(k, xs, keep) = r \o s
    BY <2>2 DEF XTetras, t
  <2>4. IsTuple(r) /\ Len(r) = x /\ r[t] = xs[keep[1]]
    <3>1. t \in DOMAIN xtetra
      BY <1>1, <2>1
    <3>2. r[t] = xs[keep[1]]
      BY <3>1
    <3>3. r = [y \in 1..x |-> r[y]]
      BY <1>1
    <3> HIDE DEF r
    <3> QED
      BY <1>1, <3>2, <3>3, FunctionIsTuple
  <2>5. Len(keep) - 1 \in Nat
    BY <1>9, <2>1
  <2>6. IsTuple(s) /\ Len(s) = Len(keep) - 1 /\ \A j \in 1..(Len(keep) - 1) : s[j] = xs[keep[j + 1]]
    <3>1. s = [j \in 1..(Len(keep) - 1) |-> s[j]] /\ \A j \in 1..(Len(keep) - 1) : s[j] = xs[keep[j + 1]]
      OBVIOUS
    <3> HIDE DEF s
    <3> QED
      BY <2>5, <3>1, FunctionIsTuple
  <2> HIDE DEF r, s
  <2>7. /\ \A j \in 1..x : (r \o s)[j] = r[j]
        /\ \A j \in 1..(Len(keep) - 1) : (r \o s)[x + j] = s[j]
    BY <2>4, <2>6, TwoTuples
  <2>8. CASE rank = 1
    <3>1. XtOf(k, keep, i) = t /\ t \in 1..x
      BY <1>1, <1>10, <1>11, <1>14, <2>1, <2>8
    <3> QED
      BY <2>1, <2>3, <2>4, <2>7, <2>8, <3>1 DEF t
  <2>9. CASE rank # 1
    <3>1. rank - 1 \in 1..(Len(keep) - 1) /\ (rank - 1) + 1 = rank
      BY <1>9, <2>1, <2>9
    <3>2. XtOf(k, keep, i) = x + (rank - 1) /\ x + (rank - 1) # 0
      BY <1>1, <1>9, <1>10, <1>11, <1>14, <2>1, <2>9
    <3>3. (r \o s)[x + (rank - 1)] = xs[i]
      BY <2>1, <2>6, <2>7, <3>1
    <3> QED
      BY <2>1, <2>3, <3>2, <3>3 DEF t
  <2> QED
    BY <2>8, <2>9
<1> QED
  BY <1>13, <1>14

(* Tetrahedron j of the next state has been made from piece p of k.        *)
MadeFrom(j, k, F, p, ftag) ==
    /\ tetra'[j].v = Global(k, p.v) /\ tetra'[j].ref = tetra[k].ref /\ tetra'[j].req = tetra[k].req
    /\ ~tetra'[j].six => ~tetra[k].six /\ F # Edge
    /\ ~tetra'[j].op3 => ~tetra[k].op3 /\ p.ori = p.reset
    /\ tetra'[j].xt = 0 =>
           tetra[k].xt = 0 \/ \A f \in Local : XTetraOf(xtetra[tetra[k].xt], p, ftag).ftag[f] = {}
    /\ tetra'[j].xt # 0 =>
           tetra[k].xt # 0 /\ xtetra'[tetra'[j].xt] = XTetraOf(xtetra[tetra[k].xt], p, ftag)

(* Every new tetrahedron has been made from a piece.                       *)
LEMMA PastedPieces ==
  ASSUME Lengths, Tets, NEW k \in DOMAIN tetra, NEW F, NEW ps, IsTuple(ps), Len(ps) >= 2,
         NEW ftag, Pasted(k, F, ps, ftag)
  PROVE  \A j \in DOMAIN tetra' : j = k \/ j \notin DOMAIN tetra =>
            \E i \in DOMAIN ps : MadeFrom(j, k, F, ps[i], ftag)
<1>1. PICK xs : xs = XPieces(k, ps, ftag)
  OBVIOUS
<1>2. PICK keep : keep = Keep(xs)
  OBVIOUS
<1>3. ne \in Nat /\ DOMAIN tetra = 1..ne /\ k \in 1..ne
  BY Numbers
<1>4. Len(ps) \in Nat /\ DOMAIN ps = 1..Len(ps)
  BY TupleLen
<1>5. tetra' = [j \in 1..(ne + Len(ps) - 1) |->
                  IF j = k THEN Piece(k, F, ps[1], XtOf(k, keep, 1))
                  ELSE IF j <= ne THEN tetra[j]
                  ELSE Piece(k, F, ps[j - ne + 1], XtOf(k, keep, j - ne + 1))]
  BY <1>1, <1>2, PastedMeans
<1>6. xtetra' = XTetras(k, xs, keep)
  BY <1>1, <1>2, PastedMeans
<1> SUFFICES ASSUME NEW j \in DOMAIN tetra', j = k \/ j \notin DOMAIN tetra
             PROVE  \E i \in DOMAIN ps : MadeFrom(j, k, F, ps[i], ftag)
  OBVIOUS
<1>7. PICK i \in DOMAIN ps : tetra'[j] = Piece(k, F, ps[i], XtOf(k, keep, i))
  <2>1. CASE j = k
    BY <1>4, <1>5, <2>1
  <2>2. CASE j # k
    <3>1. j \in 1..(ne + Len(ps) - 1) /\ ~(j <= ne)
      BY <1>3, <1>4, <1>5, <2>2
    <3>2. j - ne + 1 \in DOMAIN ps
      BY <1>3, <1>4, <3>1
    <3> QED
      BY <1>5, <2>2, <3>1, <3>2
  <2> QED
    BY <2>1, <2>2
<1>8. PICK p, y : p = ps[i] /\ y = XtOf(k, keep, i)
  OBVIOUS
<1>9. PICK b, c, g : /\ b = (tetra[k].six \/ F = Edge) /\ c = (tetra[k].op3 \/ p.ori # p.reset)
                     /\ g = Global(k, p.v)
  OBVIOUS
<1>10. tetra'[j] = [tetra[k] EXCEPT !.v = g, !.flag = {}, !.xt = y, !.six = b, !.op3 = c]
  BY <1>7, <1>8, <1>9 DEF Piece
<1>11. IsTetra(tetra[k])
  BY DEF Tets, Tetrahedron
<1>12. tetra'[j] = [v |-> g, ref |-> tetra[k].ref, req |-> tetra[k].req, xt |-> y,
                    flag |-> {}, six |-> b, op3 |-> c]
  BY <1>10, <1>11 DEF IsTetra
<1>13. /\ tetra'[j].v = g /\ tetra'[j].ref = tetra[k].ref /\ tetra'[j].req = tetra[k].req
       /\ tetra'[j].xt = y
       /\ tetra'[j].six = b /\ tetra'[j].op3 = c
  BY <1>12
<1>14. ~tetra'[j].six => ~tetra[k].six /\ F # Edge
  BY <1>9, <1>13, Zenon
<1>15. ~tetra'[j].op3 => ~tetra[k].op3 /\ p.ori = p.reset
  BY <1>9, <1>13, Zenon
<1>16. tetra[k].xt # 0 => xs[i] = XTetraOf(xtetra[tetra[k].xt], p, ftag)
  BY <1>1, <1>8 DEF XPieces
<1>17. /\ y = 0 => tetra[k].xt = 0 \/ \A f \in Local : xs[i].ftag[f] = {}
       /\ y # 0 => tetra[k].xt # 0 /\ XTetras(k, xs, keep)[y] = xs[i]
  BY <1>1, <1>2, <1>8, XtHolds
<1>18. MadeFrom(j, k, F, p, ftag)
  BY <1>6, <1>9, <1>13, <1>14, <1>15, <1>16, <1>17 DEF MadeFrom
<1> QED
  BY <1>8, <1>18

(* What the vertices of a piece come from.                                 *)
Gather(pt, G, J) == UNION {pt[G[j]].of : j \in J}

(* Faces, edges and all vertices of a tetrahedron, by their local numbers. *)
LEMMA Gathered ==
  ASSUME NEW pt, NEW D, NEW G \in [Local -> D], IsInjective(G)
  PROVE  /\ \A f \in Local :
               UNION {pt[q].of : q \in Range(G) \ {G[f]}} = Gather(pt, G, Local \ {f})
         /\ \A e \in Edge : UNION {pt[q].of : q \in {G[i] : i \in iare[e]}} = Gather(pt, G, iare[e])
         /\ UNION {pt[q].of : q \in {G[i] : i \in Local}} = Gather(pt, G, Local)
<1>1. \A J : UNION {pt[q].of : q \in {G[i] : i \in J}} = Gather(pt, G, J)
  BY DEF Gather
<1>2. ASSUME NEW f \in Local PROVE Range(G) \ {G[f]} = {G[i] : i \in Local \ {f}}
  <2>1. \A i \in Local : i # f => G[i] # G[f]
    BY DEF IsInjective
  <2> QED
    BY <2>1 DEF Range
<1> QED
  BY <1>1, <1>2

(* Tetrahedron j of the next state has the origins that the tags and the   *)
(* reset faces of piece p of k tell.                                       *)
ComesFrom(j, k, F, p) ==
    /\ Origin(Corner(j))' = Origin(Corner(k))
    /\ \A f \in Local : Origin(Face(j, f))' = IF f \in p.reset THEN Origin(Corner(k))
                                              ELSE Origin(Face(k, f))
    /\ F # Edge =>
          \A e \in Edge : /\ p.tag[e] \in {K, N} \union Local
                          /\ Origin(Ends(j, e))' =
                                CASE p.tag[e] = K -> Origin(Ends(k, e))
                                  [] p.tag[e] = N -> Origin(Corner(k))
                                  [] OTHER -> Origin(Face(k, p.tag[e]))
    /\ \A i \in Local : point[tetra[k].v[i]].of \subseteq point'[tetra'[j].v[i]].of

(* What the faces and the edges of a tetrahedron come from.                *)
LEMMA TetraGathers ==
  ASSUME Tets, NEW k \in DOMAIN tetra
  PROVE  /\ \A f \in Local : Origin(Face(k, f)) = Gather(point, tetra[k].v, Local \ {f})
         /\ \A e \in Edge : Origin(Ends(k, e)) = Gather(point, tetra[k].v, iare[e])
         /\ Origin(Corner(k)) = Gather(point, tetra[k].v, Local)
<1>1. PICK v : v = tetra[k].v
  OBVIOUS
<1>2. v \in [Local -> DOMAIN point] /\ IsInjective(v)
  BY <1>1 DEF Tets, Tetrahedron
<1>3. /\ \A f \in Local : Origin(Face(k, f)) = UNION {point[q].of : q \in Range(v) \ {v[f]}}
      /\ \A e : Origin(Ends(k, e)) = UNION {point[q].of : q \in {v[y] : y \in iare[e]}}
      /\ Origin(Corner(k)) = UNION {point[q].of : q \in {v[y] : y \in Local}}
  BY <1>1 DEF Origin, Face, Ends, Corner
<1>4. /\ \A f \in Local :
            UNION {point[q].of : q \in Range(v) \ {v[f]}} = Gather(point, v, Local \ {f})
      /\ \A e \in Edge :
            UNION {point[q].of : q \in {v[y] : y \in iare[e]}} = Gather(point, v, iare[e])
      /\ UNION {point[q].of : q \in {v[y] : y \in Local}} = Gather(point, v, Local)
  BY <1>2, Gathered
<1> QED
  BY <1>1, <1>3, <1>4, Zenon

(* What the vertices of a piece come from: those of the tetrahedron to     *)
(* which they go back.                                                     *)
Gathers(k, u, G) ==
    /\ G \in [Local -> DOMAIN point] /\ IsInjective(G)
    /\ \A x \in Local : point[G[x]].of = Gather(point, tetra[k].v, Roots(u[x]))
    /\ \A J \in SUBSET Local : Gather(point, G, J) = Gather(point, tetra[k].v, RootsOf(u, J))

LEMMA PieceGathers ==
  ASSUME Limits, Points, Tets, OwnPoints, Apart, EdgeOrigins,
         NEW k \in DOMAIN tetra, k \in Pending, NEW F, F = FlagOf(k), F # {},
         NEW ps, ps = Split(Bits(F), tetra[k].v), NEW i \in DOMAIN ps,
         NEW p, p = ps[i], NEW G, G = Global(k, p.v)
  PROVE  Gathers(k, p.v, G)
<1>1. PICK v : v = tetra[k].v
  OBVIOUS
<1>2. F \in SUBSET Edge /\ v \in [Local -> DOMAIN point] /\ IsInjective(v)
  BY <1>1 DEF FlagOf, Tets, Tetrahedron
<1>4. G \in [Local -> DOMAIN point] /\ IsInjective(G)
  BY PieceVertices
<1>5. p.v \in [Local -> Local \union {m0 + e : e \in F}]
  BY <1>1, <1>2, SplitUses
<1>8. ASSUME NEW x \in Local PROVE point[G[x]].of = Gather(point, v, Roots(p.v[x]))
  <2>1. G[x] = IF p.v[x] < m0 THEN v[p.v[x]] ELSE Vx(k)[p.v[x] - m0]
    BY <1>1 DEF Global
  <2>2. CASE p.v[x] \in Local
    <3>1. p.v[x] < m0
      BY <2>2 DEF Local, m0
    <3>2. G[x] = v[p.v[x]] /\ Roots(p.v[x]) = {p.v[x]}
      BY <2>1, <3>1 DEF Roots
    <3> QED
      BY <3>2 DEF Gather
  <2>3. CASE p.v[x] \notin Local
    <3>1. PICK e \in F : p.v[x] = m0 + e
      BY <1>5, <2>3
    <3>2. ~(p.v[x] < m0) /\ p.v[x] - m0 = e
      <4>1. e \in 0..5
        BY <1>2 DEF Edge
      <4> QED
        BY <3>1, <4>1 DEF m0
    <3>3. G[x] = Vx(k)[e] /\ Roots(p.v[x]) = iare[e]
      BY <2>1, <3>2 DEF Roots
    <3>4. e \in Edge /\ Ends(k, e) \in DOMAIN hash /\ Vx(k)[e] = hash[Ends(k, e)] /\ Vx(k)[e] > 0
      BY VxPoints
    <3>5. hash[Ends(k, e)] # -1
      BY <3>4
    <3>6. point[G[x]].of = Origin(Ends(k, e))
      BY <3>3, <3>4, <3>5 DEF EdgeOrigins
    <3>7. Origin(Ends(k, e)) = UNION {point[q].of : q \in {v[y] : y \in iare[e]}}
      BY <1>1 DEF Origin, Ends
    <3>8. Origin(Ends(k, e)) = Gather(point, v, iare[e])
      BY <1>2, <3>4, <3>7, Gathered
    <3> QED
      BY <3>3, <3>6, <3>8
  <2> QED
    BY <2>2, <2>3
<1>9. ASSUME NEW J \in SUBSET Local
      PROVE  Gather(point, G, J) = Gather(point, v, RootsOf(p.v, J))
  <2>1. \A o : o \in Gather(point, G, J) <=> \E x \in J : o \in Gather(point, v, Roots(p.v[x]))
    BY <1>8 DEF Gather
  <2>2. \A o : o \in Gather(point, v, RootsOf(p.v, J))
                  <=> \E x \in J : o \in Gather(point, v, Roots(p.v[x]))
    BY DEF Gather, RootsOf
  <2> QED
    BY <2>1, <2>2
<1> QED
  BY <1>1, <1>4, <1>8, <1>9 DEF Gathers

(* So it is for all pieces.                                                *)
LEMMA PieceOrigins ==
  ASSUME Limits, Points, Tets, OwnPoints, Apart, EdgeOrigins,
         NEW k \in DOMAIN tetra, k \in Pending, NEW F, F = FlagOf(k), F # {},
         NEW ps, ps = Split(Bits(F), tetra[k].v), NEW i \in DOMAIN ps,
         NEW j, tetra'[j].v = Global(k, ps[i].v), point' = point
  PROVE  ComesFrom(j, k, F, ps[i])
<1>1. PICK p, v : p = ps[i] /\ v = tetra[k].v
  OBVIOUS
<1>2. F \in SUBSET Edge /\ v \in [Local -> DOMAIN point] /\ IsInjective(v)
  BY <1>1 DEF FlagOf, Tets, Tetrahedron
<1>3. PICK G : G = Global(k, p.v)
  OBVIOUS
<1>4. G \in [Local -> DOMAIN point] /\ IsInjective(G)
  BY <1>1, <1>3, PieceVertices
<1>6. /\ \A x \in Local : x \in Roots(p.v[x]) /\ Roots(p.v[x]) \subseteq Local
      /\ \A f \in Local : RootsOf(p.v, Local \ {f}) = IF f \in p.reset THEN Local ELSE Local \ {f}
  <2>1. /\ \A x \in Local : x \in Roots(p.v[x]) /\ Roots(p.v[x]) \subseteq Local
        /\ \A f \in Local : RootedAt(p, f)
    BY <1>1, <1>2, SplitFaces
  <2> QED
    BY <2>1 DEF RootedAt
<1>7. ASSUME F # Edge, NEW e \in Edge
      PROVE  /\ p.tag[e] \in {K, N} \union Local
             /\ p.tag[e] = K => RootsOf(p.v, iare[e]) = iare[e]
             /\ p.tag[e] = N => RootsOf(p.v, iare[e]) = Local
             /\ p.tag[e] # K /\ p.tag[e] # N => RootsOf(p.v, iare[e]) = Local \ {p.tag[e]}
  <2>1. EdgeLies(p, e)
    BY <1>1, <1>2, <1>7, SplitEdges
  <2> QED
    BY <2>1 DEF EdgeLies
<1>8. /\ \A x \in Local : point[G[x]].of = Gather(point, v, Roots(p.v[x]))
      /\ \A J \in SUBSET Local : Gather(point, G, J) = Gather(point, v, RootsOf(p.v, J))
  <2>1. Gathers(k, p.v, G)
    BY <1>1, <1>3, PieceGathers
  <2> QED
    BY <1>1, <2>1 DEF Gathers
<1>9. \A J \in SUBSET Local : Gather(point, G, J) = Gather(point, v, RootsOf(p.v, J))
  BY <1>8
<1>10. /\ \A f \in Local : Origin(Face(k, f)) = Gather(point, v, Local \ {f})
       /\ \A e \in Edge : Origin(Ends(k, e)) = Gather(point, v, iare[e])
       /\ Origin(Corner(k)) = Gather(point, v, Local)
  BY <1>1, TetraGathers
<1>11. tetra'[j].v = G
  BY <1>1, <1>3
<1>12. /\ \A f \in Local : Origin(Face(j, f))' = Gather(point, G, Local \ {f})
       /\ \A e \in Edge : Origin(Ends(j, e))' = Gather(point, G, iare[e])
       /\ Origin(Corner(j))' = Gather(point, G, Local)
  <2>1. /\ \A f \in Local : Origin(Face(j, f))' = UNION {point[q].of : q \in Range(G) \ {G[f]}}
        /\ \A e : Origin(Ends(j, e))' = UNION {point[q].of : q \in {G[y] : y \in iare[e]}}
        /\ Origin(Corner(j))' = UNION {point[q].of : q \in {G[y] : y \in Local}}
    BY <1>11 DEF Origin, Face, Ends, Corner
  <2>2. /\ \A f \in Local :
              UNION {point[q].of : q \in Range(G) \ {G[f]}} = Gather(point, G, Local \ {f})
        /\ \A e \in Edge :
              UNION {point[q].of : q \in {G[y] : y \in iare[e]}} = Gather(point, G, iare[e])
        /\ UNION {point[q].of : q \in {G[y] : y \in Local}} = Gather(point, G, Local)
    BY <1>4, Gathered
  <2> QED
    BY <2>1, <2>2, Zenon
<1>13. RootsOf(p.v, Local) = Local
  BY <1>6 DEF RootsOf
<1>14. Origin(Corner(j))' = Origin(Corner(k))
  BY <1>9, <1>10, <1>12, <1>13
<1>15. ASSUME NEW f \in Local
       PROVE  Origin(Face(j, f))' = IF f \in p.reset THEN Origin(Corner(k)) ELSE Origin(Face(k, f))
  <2>1. Origin(Face(j, f))' = Gather(point, v, RootsOf(p.v, Local \ {f}))
    BY <1>9, <1>12
  <2> QED
    BY <1>6, <1>10, <2>1
<1>16. ASSUME F # Edge, NEW e \in Edge
       PROVE  /\ p.tag[e] \in {K, N} \union Local
              /\ Origin(Ends(j, e))' = CASE p.tag[e] = K -> Origin(Ends(k, e))
                                         [] p.tag[e] = N -> Origin(Corner(k))
                                         [] OTHER -> Origin(Face(k, p.tag[e]))
  <2>1. iare[e] \subseteq Local
    BY EdgesIn
  <2>2. Origin(Ends(j, e))' = Gather(point, v, RootsOf(p.v, iare[e]))
    BY <1>9, <1>12, <2>1
  <2>3. /\ p.tag[e] \in {K, N} \union Local
        /\ p.tag[e] = K => RootsOf(p.v, iare[e]) = iare[e]
        /\ p.tag[e] = N => RootsOf(p.v, iare[e]) = Local
        /\ p.tag[e] # K /\ p.tag[e] # N => RootsOf(p.v, iare[e]) = Local \ {p.tag[e]}
    BY <1>7, <1>16
  <2>4. CASE p.tag[e] = K
    BY <1>10, <2>2, <2>3, <2>4 DEF K, N
  <2>5. CASE p.tag[e] = N
    BY <1>10, <2>2, <2>3, <2>5 DEF K, N
  <2>6. CASE p.tag[e] # K /\ p.tag[e] # N
    BY <1>10, <2>2, <2>3, <2>6
  <2> QED
    BY <2>3, <2>4, <2>5, <2>6
<1>17. ASSUME NEW x \in Local PROVE point[v[x]].of \subseteq point'[tetra'[j].v[x]].of
  <2>1. point[G[x]].of = Gather(point, v, Roots(p.v[x])) /\ x \in Roots(p.v[x])
    BY <1>6, <1>8
  <2> QED
    BY <1>11, <2>1 DEF Gather
<1> QED
  BY <1>1, <1>14, <1>15, <1>16, <1>17 DEF ComesFrom

(* More vertices than a tag can stand for.                                 *)
LEMMA LargeSets ==
  ASSUME SmallSets, Tets, NEW k \in DOMAIN tetra, Spread(k)
  PROVE  /\ Origin(Corner(k)) \notin mesh.bdy /\ Origin(Corner(k)) \notin mesh.tagged
         /\ \A f \in Local : Origin(Face(k, f)) \notin mesh.tagged /\ Origin(Face(k, f)) # {}
<1>1. PICK r \in [Local -> Origin(Corner(k))] :
         IsInjective(r) /\ \A i \in Local : r[i] \in point[tetra[k].v[i]].of
  BY DEF Spread
<1>2. tetra[k].v \in [Local -> DOMAIN point] /\ IsInjective(tetra[k].v)
  BY DEF Tets, Tetrahedron
<1>3. Origin(Corner(k)) \notin mesh.bdy
  BY <1>1 DEF SmallSets
<1>4. \A a, b \in Local : a # b => r[a] # r[b]
  BY <1>1 DEF IsInjective
<1>5. ASSUME NEW s \in mesh.tagged, NEW a \in Local, NEW b \in Local, NEW c \in Local,
             a # b, b # c, a # c, r[a] \in s, r[b] \in s, r[c] \in s
      PROVE  FALSE
  BY <1>4, <1>5 DEF SmallSets
<1>6. Origin(Corner(k)) \notin mesh.tagged
  <2>1. \A a \in Local : r[a] \in Origin(Corner(k))
    BY <1>1
  <2>2. 0 \in Local /\ 1 \in Local /\ 2 \in Local
    BY DEF Local
  <2> QED
    BY <1>5, <2>1, <2>2
<1>7. ASSUME NEW f \in Local, NEW a \in Local, a # f PROVE r[a] \in Origin(Face(k, f))
  <2>1. tetra[k].v[a] \in Face(k, f)
    BY <1>2, <1>7 DEF Face, Range, IsInjective
  <2> QED
    BY <1>1, <2>1 DEF Origin
<1>8. ASSUME NEW f \in Local
      PROVE  Origin(Face(k, f)) \notin mesh.tagged /\ Origin(Face(k, f)) # {}
  <2>1. PICK a, b, c \in Local : a # b /\ b # c /\ a # c /\ a # f /\ b # f /\ c # f
    <3>1. f \in {0, 1, 2, 3}
      BY DEF Local
    <3>2. 0 \in Local /\ 1 \in Local /\ 2 \in Local /\ 3 \in Local
      BY DEF Local
    <3> QED
      BY <3>1, <3>2
  <2> QED
    BY <1>5, <1>7, <2>1
<1> QED
  BY <1>3, <1>6, <1>8

(* The tags of a tetrahedron made from a piece.                            *)
LEMMA MadeTags ==
  ASSUME SmallSets, Tets, mesh' = mesh, NEW k \in DOMAIN tetra, WellTagged(k),
         NEW j, NEW F, NEW p, NEW ftag, MadeFrom(j, k, F, p, ftag), ComesFrom(j, k, F, p),
         F # Edge /\ tetra[k].xt # 0 => ftag = xtetra[tetra[k].xt].ftag
  PROVE  WellTagged(j)'
<1> DEFINE x == xtetra[tetra[k].xt]
           y == xtetra'[tetra'[j].xt]
           face(f) == Origin(Face(k, f))
           all == Origin(Corner(k))
<1>1. /\ all \notin mesh.bdy /\ all \notin mesh.tagged
      /\ \A f \in Local : face(f) \notin mesh.tagged /\ face(f) # {}
  BY LargeSets DEF WellTagged
<1>2. Origin(Corner(j))' = all
  BY DEF ComesFrom
<1>3. \A f \in Local : Origin(Face(j, f))' = IF f \in p.reset THEN all ELSE face(f)
  BY DEF ComesFrom
<1>4. Spread(j)'
  <2>1. PICK r \in [Local -> Origin(Corner(k))] :
           IsInjective(r) /\ \A i \in Local : r[i] \in point[tetra[k].v[i]].of
    BY DEF WellTagged, Spread
  <2>2. \A i \in Local : r[i] \in point'[tetra'[j].v[i]].of
    BY <2>1 DEF ComesFrom
  <2>3. r \in [Local -> Origin(Corner(j))']
    BY <1>2, <2>1
  <2> QED
    BY <2>1, <2>2, <2>3 DEF Spread
<1>5. \A f \in Local : /\ face(f) \in mesh.bdy => tetra[k].xt # 0
                       /\ tetra[k].xt # 0 =>
                             x.ftag[f] = IF face(f) \in mesh.bdy THEN face(f) ELSE {}
  BY DEF WellTagged, FacesTagged
<1>6. /\ tetra'[j].xt # 0 => tetra[k].xt # 0 /\ y = XTetraOf(x, p, ftag)
      /\ tetra'[j].xt = 0 => tetra[k].xt = 0 \/ \A f \in Local : XTetraOf(x, p, ftag).ftag[f] = {}
  BY DEF MadeFrom
<1>7. \A f \in Local : XTetraOf(x, p, ftag).ftag[f] = IF f \in p.reset THEN {} ELSE x.ftag[f]
  BY DEF XTetraOf
<1> HIDE DEF x, y, face, all
<1>8. FacesTagged(j)'
  <2> SUFFICES ASSUME NEW f \in Local
               PROVE  /\ Origin(Face(j, f))' \in mesh.bdy => tetra'[j].xt # 0
                      /\ tetra'[j].xt # 0 =>
                            y.ftag[f] = IF Origin(Face(j, f))' \in mesh.bdy
                                        THEN Origin(Face(j, f))' ELSE {}
    BY DEF FacesTagged, y
  <2>1. CASE f \in p.reset
    BY <1>1, <1>3, <1>6, <1>7, <2>1
  <2>2. CASE f \notin p.reset
    BY <1>1, <1>3, <1>5, <1>6, <1>7, <2>2
  <2> QED
    BY <2>1, <2>2
<1>9. \A s : TagOf(s)' = TagOf(s)
  BY DEF TagOf
<1>10. ASSUME ~tetra'[j].six PROVE TagsOf(j)'
  <2> SUFFICES ASSUME tetra'[j].xt # 0, NEW e \in Edge
               PROVE  y.tag[e] = TagOf(Origin(Ends(j, e)))'
    BY DEF TagsOf, y
  <2>1. ~tetra[k].six /\ F # Edge
    BY <1>10 DEF MadeFrom
  <2>2. tetra[k].xt # 0 /\ y = XTetraOf(x, p, ftag) /\ ftag = x.ftag
    BY <1>6, <2>1 DEF x
  <2>3. y.tag[e] = CASE p.tag[e] = K -> x.tag[e]
                     [] p.tag[e] = N -> {}
                     [] OTHER -> x.ftag[p.tag[e]]
    BY <2>2 DEF XTetraOf
  <2>4. /\ p.tag[e] \in {K, N} \union Local
        /\ Origin(Ends(j, e))' = CASE p.tag[e] = K -> Origin(Ends(k, e))
                                   [] p.tag[e] = N -> all
                                   [] OTHER -> face(p.tag[e])
    BY <2>1 DEF ComesFrom, all, face
  <2>5. PICK o : o = Origin(Ends(j, e))'
    OBVIOUS
  <2>6. TagOf(Origin(Ends(j, e)))' = TagOf(o)
    BY <2>5 DEF TagOf
  <2>7. CASE p.tag[e] = K
    <3>1. x.tag[e] = TagOf(Origin(Ends(k, e)))
      BY <2>1, <2>2 DEF WellTagged, TagsOf, x
    <3>2. y.tag[e] = x.tag[e] /\ o = Origin(Ends(k, e))
      BY <2>3, <2>4, <2>5, <2>7 DEF K, N
    <3> QED
      BY <2>6, <3>1, <3>2
  <2>8. CASE p.tag[e] = N
    <3>1. y.tag[e] = {} /\ o = all
      BY <2>3, <2>4, <2>5, <2>8 DEF K, N
    <3> QED
      BY <1>1, <2>6, <3>1 DEF TagOf
  <2>9. CASE p.tag[e] # K /\ p.tag[e] # N
    <3>1. y.tag[e] = x.ftag[p.tag[e]] /\ o = face(p.tag[e]) /\ p.tag[e] \in Local
      BY <2>3, <2>4, <2>5, <2>9
    <3> QED
      BY <1>1, <1>5, <2>2, <2>6, <3>1 DEF TagOf
  <2> QED
    BY <2>7, <2>8, <2>9
<1>11. ASSUME ~tetra'[j].op3 PROVE OriOf(j)'
  <2> SUFFICES ASSUME tetra'[j].xt # 0, NEW f \in Local
               PROVE  Origin(Face(j, f))' \in mesh.bdy =>
                          (f \in y.ori <=> Oriented(Origin(Face(j, f)), tetra[j].ref)')
    BY <1>1 DEF OriOf, y
  <2>1. ~tetra[k].op3 /\ p.ori = p.reset /\ tetra'[j].ref = tetra[k].ref
    BY <1>11 DEF MadeFrom
  <2>2. tetra[k].xt # 0 /\ y.ori = x.ori \union p.reset
    BY <1>6, <2>1 DEF XTetraOf
  <2>3. face(f) \in mesh.bdy => (f \in x.ori <=> Oriented(face(f), tetra[k].ref))
    BY <2>1, <2>2 DEF WellTagged, OriOf, x, face
  <2>4. PICK o : o = Origin(Face(j, f))'
    OBVIOUS
  <2>5. Oriented(Origin(Face(j, f)), tetra[j].ref)' <=> Oriented(o, tetra[k].ref)
    BY <2>1, <2>4 DEF Oriented
  <2>6. o = IF f \in p.reset THEN all ELSE face(f)
    BY <1>3, <2>4
  <2> QED
    BY <1>1, <2>2, <2>3, <2>4, <2>5, <2>6
<1> QED
  BY <1>4, <1>8, <1>10, <1>11 DEF WellTagged

(* The tags that a cut reads.                                              *)
NotSet == [f \in Local |-> {0}]

LEMMA CutReads ==
  ASSUME Cut, NEW k, k = Min(ToCut)
  PROVE  \E ftag :
            /\ Pasted(k, CutFlag(k), Split(Bits(CutFlag(k)), tetra[k].v), ftag)
            /\ \/ tetra[k].xt # 0 => ftag = xtetra[tetra[k].xt].ftag
               \/ CutFlag(k) = Edge /\ ftag = NotSet
<1> DEFINE m == Min(ToCut)
           ps == Parts(m)
           old == IF tetra[m].xt = 0 THEN {} ELSE xtetra[tetra[m].xt].ftag
<1>1. \/ Pasted(m, CutFlag(m), ps, old)
      \/ CutFlag(m) = Edge /\ Pasted(m, CutFlag(m), ps, NotSet)
  BY DEF Cut, NotSet
<1>2. ps = Split(Bits(CutFlag(m)), tetra[m].v)
  BY DEF Parts
<1>3. tetra[m].xt # 0 => old = xtetra[tetra[m].xt].ftag
  OBVIOUS
<1> HIDE DEF ps, old
<1> QED
  BY <1>1, <1>2, <1>3

(* A cut.                                                                  *)
LEMMA CutTags ==
  ASSUME TagsIInv, IInv, IInv', Cut
  PROVE  TagsIInv'
<1>1. /\ Limits /\ Counters /\ Lengths /\ Tets /\ Tets' /\ XTets /\ Points
      /\ OwnPoints /\ Apart /\ Flags /\ stage = "cut" /\ ToCut # {}
  BY DEF Cut, IInv, Hashed
<1>2. PICK k \in DOMAIN tetra :
         k = Min(ToCut) /\ k \in ToCut /\ k \in at..last /\ k \in Nat
  BY <1>1, NextCut
<1>3. ~tetra[k].req /\ CutFlag(k) # {}
  BY <1>2 DEF ToCut
<1>4. CutFlag(k) = FlagOf(k)
  BY <1>1, <1>2, <1>3, CutFlagIs
<1>5. PICK F : F = FlagOf(k) /\ F # {}
  BY <1>3, <1>4
<1>6. PICK ps : ps = Split(Bits(F), tetra[k].v)
  OBVIOUS
<1>7. PICK ftag : /\ Pasted(k, F, ps, ftag)
                  /\ \/ tetra[k].xt # 0 => ftag = xtetra[tetra[k].xt].ftag
                     \/ F = Edge /\ ftag = NotSet
  BY <1>2, <1>4, <1>5, <1>6, CutReads
<1>8. /\ at' = k + 1 /\ UNCHANGED <<mesh, point, hash, stage, last, broken>>
  BY <1>2, CutMeans
<1>9. k \in Pending
  BY <1>1, <1>2 DEF Pending
<1>10. IsTuple(ps) /\ Len(ps) >= 2
  BY <1>1, <1>5, <1>6, <1>9, PieceVertices
<1>11. /\ DOMAIN tetra' = 1..(ne + Len(ps) - 1)
       /\ \A j \in DOMAIN tetra : j # k => tetra'[j] = tetra[j]
       /\ \A j, l \in DOMAIN tetra' : tetra'[j].xt = tetra'[l].xt /\ tetra'[j].xt # 0 => j = l
       /\ \A x \in 1..Len(xtetra) : x # tetra[k].xt => xtetra'[x] = xtetra[x]
  BY <1>1, <1>7, <1>10, PastedTetra
<1>12. /\ DOMAIN tetra = 1..ne /\ ne \in Nat /\ Len(ps) \in Nat
       /\ at \in Nat /\ last \in Nat /\ at >= 1 /\ last <= ne
  BY <1>1, <1>10, Numbers, TupleLen DEF Counters
<1>13. DOMAIN tetra \subseteq DOMAIN tetra'
  BY <1>10, <1>11, <1>12
<1>14. SamePoints
  BY <1>8 DEF SamePoints
<1>15. ASSUME NEW j \in DOMAIN tetra, j # k PROVE SameAt(j)
  <2>1. tetra[j].xt \in 0..Len(xtetra) /\ Len(xtetra) \in Nat
    BY <1>1, Numbers DEF Tets, Tetrahedron
  <2>2. tetra[j].xt # 0 => tetra[j].xt # tetra[k].xt
    BY <1>1, <1>15 DEF XTets
  <2>3. tetra[j].xt # 0 => tetra[j].xt \in 1..Len(xtetra)
    BY <2>1
  <2> QED
    BY <1>11, <1>13, <1>15, <2>2, <2>3 DEF SameAt
<1>16. EdgeOrigins'
  <2> SUFFICES ASSUME NEW j \in Pending', NEW i \in Edge,
                      Ends(j, i)' \in DOMAIN hash', hash'[Ends(j, i)'] # -1
               PROVE  point'[hash'[Ends(j, i)']].of = Origin(Ends(j, i))'
    BY DEF EdgeOrigins
  <2>1. j \in (k + 1)..last
    BY <1>1, <1>8 DEF Pending
  <2>2. j \in DOMAIN tetra /\ j # k /\ j \in at..last
    BY <1>2, <1>12, <2>1
  <2>3. j \in Pending
    BY <1>1, <2>2 DEF Pending
  <2>4. SameAt(j)
    BY <1>15, <2>2
  <2>5. Ends(j, i)' = Ends(j, i) /\ Origin(Ends(j, i))' = Origin(Ends(j, i))
    BY <1>1, <1>14, <2>2, <2>4, SameOrigin
  <2> QED
    BY <1>8, <2>3, <2>5 DEF TagsIInv, EdgeOrigins
<1>17. ASSUME ~broken PROVE XtOnce' /\ \A j \in DOMAIN tetra' : WellTagged(j)'
  <2>1. XtOnce'
    BY <1>11 DEF XtOnce
  <2>2. SmallSets /\ EdgeOrigins /\ \A j \in DOMAIN tetra : WellTagged(j)
    BY <1>17 DEF TagsIInv
  <2>3. ASSUME NEW j \in DOMAIN tetra' PROVE WellTagged(j)'
    <3>1. CASE j = k \/ j \notin DOMAIN tetra
      <4>1. PICK i \in DOMAIN ps : MadeFrom(j, k, F, ps[i], ftag)
        BY <1>1, <1>7, <1>10, <3>1, PastedPieces
      <4>2. ComesFrom(j, k, F, ps[i])
        <5>1. tetra'[j].v = Global(k, ps[i].v)
          BY <4>1 DEF MadeFrom
        <5> QED
          BY <1>1, <1>5, <1>6, <1>8, <1>9, <2>2, <5>1, PieceOrigins
      <4> QED
        BY <1>1, <1>7, <1>8, <2>2, <4>1, <4>2, MadeTags
    <3>2. CASE j \in DOMAIN tetra /\ j # k
      BY <1>1, <1>14, <1>15, <2>2, <3>2, SameTagsKeep
    <3> QED
      BY <3>1, <3>2
  <2> QED
    BY <2>1, <2>3
<1>18. SmallSets'
  BY <1>8 DEF TagsIInv, SmallSets
<1> QED
  BY <1>8, <1>16, <1>17, <1>18 DEF TagsIInv

-------------------------------------------------------------------------------
(* The tags of the initial mesh.                                           *)

(* Its tagged edges have two vertices, the faces of its boundary three.    *)
LEMMA InitialTags ==
  ASSUME Init
  PROVE  /\ SmallSets
         /\ \A s \in mesh.bdy, k \in DOMAIN mesh.tets :
               s \subseteq Corners(mesh, k) => s \in kSubset(3, Corners(mesh, k))
<1>1. PICK m \in Meshes : mesh = Analysed(m)
  BY DEF Init
<1>2. /\ mesh.tets = m.tets /\ mesh.bdy = BdyFaces(m) /\ mesh.tagged = TaggedEdges(m)
      /\ mesh.required = m.required
  BY <1>1 DEF Analysed
<1>3. m.required \subseteq DOMAIN m.tets
  BY MeshesAssumption DEF MeshRecord
<1>4. ASSUME NEW k \in DOMAIN m.tets PROVE IsFiniteSet(Corners(m, k))
  <2>1. IsTuple(m.tets[k]) /\ IsInjective(m.tets[k])
    BY <1>2, InitialMesh
  <2> QED
    BY <2>1, ListSize DEF Corners
<1>5. ASSUME NEW s \in mesh.bdy
      PROVE  \E k \in DOMAIN m.tets : s \in kSubset(3, Corners(m, k))
  BY <1>2 DEF BdyFaces, FacesIn
<1>6. ASSUME NEW s \in mesh.bdy PROVE IsFiniteSet(s) /\ Cardinality(s) = 3
  <2>1. PICK k \in DOMAIN m.tets : s \in kSubset(3, Corners(m, k))
    BY <1>5
  <2> QED
    BY <1>4, <2>1, FS_Subset DEF kSubset
<1>7. \A s \in mesh.bdy : \A r \in [Local -> s] : ~IsInjective(r)
  <2> SUFFICES ASSUME NEW s \in mesh.bdy PROVE \A r \in [Local -> s] : ~IsInjective(r)
    OBVIOUS
  <2>1. PICK k \in DOMAIN m.tets : s \in kSubset(3, Corners(m, k))
    BY <1>5
  <2> QED
    BY <1>4, <2>1, SmallCard
<1>8. \A s \in mesh.tagged : \A a, b, c \in s : a = b \/ b = c \/ a = c
  <2> SUFFICES ASSUME NEW s \in mesh.tagged PROVE \A a, b, c \in s : a = b \/ b = c \/ a = c
    OBVIOUS
  <2>1. PICK S : IsFiniteSet(S) /\ s \in kSubset(2, S)
    <3>1. CASE s \in ReqEdges(m)
      BY <1>3, <1>4, <3>1 DEF ReqEdges
    <3>2. CASE s \in UNION {kSubset(2, f) : f \in BdyFaces(m)}
      BY <1>2, <1>6, <3>2
    <3> QED
      BY <1>2, <3>1, <3>2 DEF TaggedEdges
  <2> QED
    BY <2>1, SmallCard
<1>9. \A s \in mesh.bdy, k \in DOMAIN mesh.tets :
         s \subseteq Corners(mesh, k) => s \in kSubset(3, Corners(mesh, k))
  BY <1>6 DEF kSubset
<1> QED
  BY <1>7, <1>8, <1>9 DEF SmallSets

(* Every tetrahedron with a face at the boundary has its own xtetra.       *)
LEMMA InitialXTetra ==
  ASSUME Init, NEW k \in DOMAIN mesh.tets
  PROVE  /\ tetra[k].xt # 0 => xtetra[tetra[k].xt] = XTetra0(k)
         /\ \A s \in mesh.bdy : s \subseteq Corners(mesh, k) => tetra[k].xt # 0
<1> DEFINE S == {l \in DOMAIN mesh.tets : kSubset(3, Corners(mesh, l)) \intersect mesh.bdy # {}}
           b == BdyTets
<1>1. tetra[k] = Tetra0(k) /\ xtetra = [x \in DOMAIN b |-> XTetra0(b[x])]
  BY DEF Init
<1>2. tetra[k].xt = IF k \in Range(b) THEN CHOOSE x \in DOMAIN b : b[x] = k ELSE 0
  BY <1>1 DEF Tetra0
<1>3. b = Ascending(S)
  BY DEF BdyTets
<1>4. \A s \in mesh.bdy : s \subseteq Corners(mesh, k) => k \in S
  <2> SUFFICES ASSUME NEW s \in mesh.bdy, s \subseteq Corners(mesh, k) PROVE k \in S
    OBVIOUS
  <2>1. s \in kSubset(3, Corners(mesh, k))
    BY InitialTags
  <2> QED
    BY <2>1
<1>5. S \subseteq DOMAIN mesh.tets
  OBVIOUS
<1> HIDE DEF S, b
<1>6. Lists(b, S)
  <2>1. PICK n \in Nat : DOMAIN mesh.tets = 1..n
    BY InitialMesh
  <2>2. IsFiniteSet(1..n)
    BY FS_Interval
  <2>3. IsFiniteSet(S) /\ \A y \in S : y \in Int
    BY <1>5, <2>1, <2>2, FS_Subset
  <2> QED
    BY <1>3, <2>3, AscendingLists
<1>7. IsTuple(b)
  BY <1>6 DEF Lists
<1>8. Len(b) \in Nat /\ DOMAIN b = 1..Len(b)
  BY <1>7, TupleLen
<1>9. ASSUME k \in Range(b) PROVE tetra[k].xt \in DOMAIN b /\ b[tetra[k].xt] = k
  BY <1>2, <1>9 DEF Range
<1>10. k \in S => k \in Range(b)
  BY <1>6 DEF Lists, Range
<1>11. tetra[k].xt # 0 => xtetra[tetra[k].xt] = XTetra0(k)
  BY <1>1, <1>2, <1>9
<1>12. \A s \in mesh.bdy : s \subseteq Corners(mesh, k) => tetra[k].xt # 0
  BY <1>4, <1>8, <1>9, <1>10
<1> QED
  BY <1>11, <1>12

(* The initial states.                                                     *)
LEMMA InitTags ==
  ASSUME Init
  PROVE  TagsIInv
<1>1. IInv
  BY InitIInv
<1>2. SmallSets
  BY InitialTags
<1>3. EdgeOrigins
  <2>1. hash = HashAtStart(wave, tetra, xtetra)
    BY DEF Init
  <2>2. \A e \in DOMAIN hash : hash[e] = -1
    BY <2>1, StartHash
  <2> QED
    BY <2>2 DEF EdgeOrigins
<1>4. XtOnce
  <2>1. stage # "done"
    BY DEF Init
  <2> QED
    BY <1>1, <2>1 DEF IInv, XTets, XtOnce
<1>5. DOMAIN tetra = DOMAIN mesh.tets
  BY DEF Init
<1>6. ASSUME NEW k \in DOMAIN mesh.tets PROVE WellTagged(k)
  <2> DEFINE v == tetra[k].v
  <2>1. Tetrahedron(tetra[k]) /\ Corner(k) = Corners(mesh, k)
    BY InitialTetra DEF Corners
  <2>2. v \in [Local -> DOMAIN point] /\ IsInjective(v) /\ v = Array(mesh.tets[k])
    <3>1. tetra[k] = Tetra0(k)
      BY DEF Init
    <3>2. tetra[k].v = Array(mesh.tets[k])
      BY <3>1 DEF Tetra0
    <3> QED
      BY <2>1, <3>2 DEF Tetrahedron
  <2>3. tetra[k].ref = mesh.refs[k]
    <3>1. tetra[k] = Tetra0(k)
      BY DEF Init
    <3> QED
      BY <3>1 DEF Tetra0
  <2> HIDE DEF v
  <2>4. \A q \in DOMAIN point : point[q].of = {q}
    BY DEF Init
  <2>5. Corner(k) = {v[i] : i \in Local} /\ Range(v) = Corner(k)
    BY <2>2 DEF Corner, Range, v
  <2>6. ASSUME NEW s, s \subseteq Corner(k) PROVE Origin(s) = s
    <3>1. \A q \in s : point[q].of = {q}
      BY <2>2, <2>4, <2>5, <2>6
    <3> QED
      BY <3>1 DEF Origin
  <2>7. \A f \in Local : Origin(Face(k, f)) = Corners(mesh, k) \ {v[f]}
    <3> TAKE f \in Local
    <3>1. Face(k, f) = Corner(k) \ {v[f]}
      BY <2>5 DEF Face, v
    <3> QED
      BY <2>1, <2>6, <3>1
  <2>8. \A e \in Edge : Origin(Ends(k, e)) = {v[i] : i \in iare[e]}
    <3> TAKE e \in Edge
    <3>1. Ends(k, e) = {v[i] : i \in iare[e]} /\ Ends(k, e) \subseteq Corner(k)
      BY <2>5, EdgesIn DEF Ends, v
    <3> QED
      BY <2>6, <3>1
  <2>9. Spread(k)
    <3>1. Origin(Corner(k)) = Corner(k)
      BY <2>6
    <3>2. v \in [Local -> Origin(Corner(k))]
      BY <2>2, <2>5, <3>1
    <3>3. \A i \in Local : v[i] \in point[tetra[k].v[i]].of
      BY <2>2, <2>4 DEF v
    <3> QED
      BY <2>2, <3>2, <3>3 DEF Spread
  <2>10. /\ tetra[k].xt # 0 => xtetra[tetra[k].xt] = XTetra0(k)
         /\ \A s \in mesh.bdy : s \subseteq Corners(mesh, k) => tetra[k].xt # 0
    BY InitialXTetra
  <2> DEFINE face(i) == Corners(mesh, k) \ {v[i]}
  <2>11. PICK ft, tg, og :
            /\ ft = [i \in Local |-> IF face(i) \in mesh.bdy THEN face(i) ELSE {}]
            /\ tg = [e \in Edge |-> TagOf({v[i] : i \in iare[e]})]
            /\ og = {i \in Local : face(i) \in mesh.bdy /\ Oriented(face(i), mesh.refs[k])}
    OBVIOUS
  <2>12. XTetra0(k) = [ftag |-> ft, tag |-> tg, ori |-> og]
    BY <2>2, <2>11 DEF XTetra0
  <2>13. \A i \in Local : face(i) \subseteq Corners(mesh, k)
    OBVIOUS
  <2> HIDE DEF face
  <2>14. PICK y : y = XTetra0(k) /\ y.ftag = ft /\ y.tag = tg /\ y.ori = og
    BY <2>12
  <2>15. \A i \in Local : ft[i] = IF face(i) \in mesh.bdy THEN face(i) ELSE {}
    BY <2>11
  <2>16. \A i \in Local : i \in og <=> face(i) \in mesh.bdy /\ Oriented(face(i), mesh.refs[k])
    BY <2>11
  <2>17. \A i \in Local : Origin(Face(k, i)) = face(i)
    BY <2>7 DEF face
  <2>18. tetra[k].xt # 0 => xtetra[tetra[k].xt] = y
    BY <2>10, <2>14
  <2>19. FacesTagged(k)
    BY <2>10, <2>13, <2>14, <2>15, <2>17, <2>18 DEF FacesTagged
  <2>20. TagsOf(k)
    BY <2>8, <2>11, <2>14, <2>18 DEF TagsOf
  <2>21. OriOf(k)
    BY <2>3, <2>14, <2>16, <2>17, <2>18 DEF OriOf
  <2> QED
    BY <2>9, <2>19, <2>20, <2>21 DEF WellTagged
<1> QED
  BY <1>2, <1>3, <1>4, <1>5, <1>6 DEF TagsIInv

(* Every action keeps the tags right.                                      *)
LEMMA NextTags == TagsIInv /\ IInv /\ IInv' /\ [Next]_vars => TagsIInv'
<1> SUFFICES ASSUME TagsIInv, IInv, IInv', [Next]_vars PROVE TagsIInv'
  OBVIOUS
<1>1. ASSUME NEW p \in 0..(12 * ne - 1), Insert(p) PROVE TagsIInv'
  BY <1>1, InsertTags
<1>2. ASSUME NEW p \in 0..(12 * ne - 1), InsertFails(p) PROVE TagsIInv'
  BY <1>2, InsertFailsTags
<1>3. CASE MarkEnd
  BY <1>3, MarkEndTags
<1>4. CASE Simulate
  BY <1>4, SimulateTags
<1>5. CASE Cut
  BY <1>5, CutTags
<1>6. CASE CutFails
  BY <1>6, CutFailsTags
<1>7. CASE NoTable \/ NoRoom \/ Skip \/ GoOn \/ SweepEnd \/ CutEnd \/ UNCHANGED vars
  BY <1>7, QuietTags
<1> QED
  BY <1>1, <1>2, <1>3, <1>4, <1>5, <1>6, <1>7 DEF Next

(* The invariant of the tags holds.                                        *)
LEMMA AnatetTags ==
  Spec /\ []SweepsSuffice => []TagsIInv
<1>1. Init => TagsIInv
  BY InitTags
<1> QED
  BY <1>1, NextTags, AnatetInvariant, PTL DEF Spec

(* BoundaryKept: through all the cuts, and also when points are given      *)
(* back, a tetrahedron has an xtetra of its own when one of its faces lies *)
(* in a face of the initial boundary, and then the tags of its four faces  *)
(* say of each whether and in which face of that boundary it lies.         *)
THEOREM AnatetBoundaryKept ==
  Spec /\ []SweepsSuffice => []BoundaryKept
<1>1. TagsIInv => BoundaryKept
  BY DEF TagsIInv, XtOnce, WellTagged, FacesTagged, BoundaryKept
<1> QED
  BY <1>1, AnatetTags, PTL

(* TagsInherited: in an xtetra that split6 has not made, the tag of each   *)
(* edge is that of the edge or of the face of the initial mesh in which it *)
(* lies.                                                                   *)
THEOREM AnatetTagsInherited ==
  Spec /\ []SweepsSuffice => []TagsInherited
<1>1. TagsIInv => TagsInherited
  BY DEF TagsIInv, WellTagged, TagsInherited
<1> QED
  BY <1>1, AnatetTags, PTL

(* OrientationKept: so it is for the bits of the orientation, where the    *)
(* third case of split3op has made no tetrahedron of the ancestry.         *)
THEOREM AnatetOrientationKept ==
  Spec /\ []SweepsSuffice => []OrientationKept
<1>1. TagsIInv => OrientationKept
  BY DEF TagsIInv, WellTagged, OrientationKept
<1> QED
  BY <1>1, AnatetTags, PTL

-------------------------------------------------------------------------------
(* The edges of the required tetrahedra, which no wave may cut.            *)
MeshSets ==
    /\ mesh.hull \subseteq mesh.bdy
    /\ \A s \in mesh.req :
          s \in mesh.tagged /\ \E x, y \in s : x # y /\ \A z \in s : z = x \/ z = y

(* A vertex of the initial mesh comes from itself, a point from more.      *)
OwnOrigin(q) == point[q].of # {} /\ \A x : point[q].of = {x} => x = q

(* No point has been put on one of these edges,                            *)
NotRequired(q) == point[q].of \notin mesh.req

(* each one is there,                                                      *)
ReqSeen == \A s \in mesh.req : \E k \in DOMAIN tetra, e \in Edge : tetra[k].req /\ Ends(k, e) = s

(* and the tetrahedra know them: all the edges of a required one, in an    *)
(* xtetra those with their tags.                                           *)
ReqEnds(k) == tetra[k].req => \A e \in Edge : Origin(Ends(k, e)) \in mesh.req
ReqTags(k) ==
    tetra[k].xt # 0 =>
        \A e \in Edge : xtetra[tetra[k].xt].tag[e] \in mesh.req
                           <=> Origin(Ends(k, e)) \in mesh.req

ReqIInv ==
    /\ MeshSets
    /\ ~broken => /\ \A q \in DOMAIN point : OwnOrigin(q) /\ NotRequired(q)
                  /\ ReqSeen
                  /\ \A k \in DOMAIN tetra : ReqEnds(k) /\ ReqTags(k)

(* Nothing is cut, and the tetrahedra stay required or not.                *)
SameReq == SameTags /\ \A k \in DOMAIN tetra : tetra'[k].req = tetra[k].req

LEMMA SameReqKeeps ==
  ASSUME IInv, IInv', ReqIInv, SameReq,
         ~broken' => \A q \in DOMAIN point' : q \in DOMAIN point \/ (OwnOrigin(q) /\ NotRequired(q))'
  PROVE  ReqIInv'
<1>1. Tets /\ Tets'
  BY DEF IInv
<1>2. /\ mesh' = mesh /\ DOMAIN tetra' = DOMAIN tetra /\ (broken => broken') /\ SamePoints
      /\ \A k \in DOMAIN tetra : SameAt(k) /\ tetra'[k].req = tetra[k].req
  BY DEF SameReq, SameTags, SamePoints
<1>3. MeshSets'
  BY <1>2 DEF ReqIInv, MeshSets
<1>4. ASSUME ~broken' PROVE \A q \in DOMAIN point' : (OwnOrigin(q) /\ NotRequired(q))'
  <2> TAKE q \in DOMAIN point'
  <2>1. CASE q \in DOMAIN point
    <3>1. point'[q] = point[q]
      BY <1>2, <2>1 DEF SamePoints
    <3>2. OwnOrigin(q) /\ NotRequired(q)
      BY <1>2, <1>4, <2>1 DEF ReqIInv
    <3> QED
      BY <1>2, <3>1, <3>2 DEF OwnOrigin, NotRequired
  <2>2. CASE q \notin DOMAIN point
    BY <1>4, <2>2
  <2> QED
    BY <2>1, <2>2
<1>5. \A k \in DOMAIN tetra, e \in Edge :
         Ends(k, e)' = Ends(k, e) /\ Origin(Ends(k, e))' = Origin(Ends(k, e))
  BY <1>1, <1>2, SameOrigin
<1>6. ASSUME ~broken' PROVE ReqSeen'
  <2> SUFFICES ASSUME NEW s \in mesh.req
               PROVE  \E k \in DOMAIN tetra', e \in Edge : tetra'[k].req /\ Ends(k, e)' = s
    BY <1>2 DEF ReqSeen
  <2>1. PICK k \in DOMAIN tetra, e \in Edge : tetra[k].req /\ Ends(k, e) = s
    BY <1>2, <1>6 DEF ReqIInv, ReqSeen
  <2>2. k \in DOMAIN tetra' /\ tetra'[k].req /\ Ends(k, e)' = s
    BY <1>2, <1>5, <2>1
  <2> QED
    BY <2>2
<1>7. ASSUME ~broken', NEW k \in DOMAIN tetra' PROVE (ReqEnds(k) /\ ReqTags(k))'
  <2>1. k \in DOMAIN tetra /\ ReqEnds(k) /\ ReqTags(k)
    BY <1>2, <1>7 DEF ReqIInv
  <2>2. /\ tetra'[k].req = tetra[k].req /\ tetra'[k].xt = tetra[k].xt
        /\ tetra[k].xt # 0 => xtetra'[tetra[k].xt] = xtetra[tetra[k].xt]
    BY <1>2, <2>1 DEF SameAt
  <2> QED
    BY <1>2, <1>5, <2>1, <2>2 DEF ReqEnds, ReqTags
<1> QED
  BY <1>3, <1>4, <1>6, <1>7 DEF ReqIInv

(* The edge that receives a point has two different ends, from different   *)
(* vertices of the initial mesh.                                           *)
Pair(s, a, b) == a # b /\ \A q : q \in s <=> q = a \/ q = b
Unlike(a, b)  == \E r \in point[a].of, s \in point[b].of : r # s

LEMMA TwoEnds ==
  ASSUME Tets, NEW k \in DOMAIN tetra, Spread(k), NEW e \in Edge
  PROVE  \E a, b \in DOMAIN point : Pair(Ends(k, e), a, b) /\ Unlike(a, b)
<1>1. PICK i, j : iare[e] = {i, j} /\ i # j /\ i \in Local /\ j \in Local
  <2>1. /\ iare[0] = {0, 1} /\ iare[1] = {0, 2} /\ iare[2] = {0, 3}
        /\ iare[3] = {1, 2} /\ iare[4] = {1, 3} /\ iare[5] = {2, 3}
    BY DEF iare, Array
  <2>2. e = 0 \/ e = 1 \/ e = 2 \/ e = 3 \/ e = 4 \/ e = 5
    BY DEF Edge
  <2>3. 0 \in Local /\ 1 \in Local /\ 2 \in Local /\ 3 \in Local
    BY DEF Local
  <2> HIDE DEF iare
  <2> QED
    BY <2>1, <2>2, <2>3
<1>2. PICK r \in [Local -> Origin(Corner(k))] :
         IsInjective(r) /\ \A x \in Local : r[x] \in point[tetra[k].v[x]].of
  BY DEF Spread
<1>3. tetra[k].v \in [Local -> DOMAIN point] /\ IsInjective(tetra[k].v)
  BY DEF Tets, Tetrahedron
<1>4. PICK a, b : a = tetra[k].v[i] /\ b = tetra[k].v[j]
  OBVIOUS
<1>5. a # b /\ r[i] # r[j]
  BY <1>1, <1>2, <1>3, <1>4 DEF IsInjective
<1>6. Pair(Ends(k, e), a, b)
  BY <1>1, <1>4, <1>5 DEF Ends, Pair
<1>7. Unlike(a, b)
  BY <1>1, <1>2, <1>4, <1>5 DEF Unlike
<1> QED
  BY <1>1, <1>3, <1>4, <1>6, <1>7

(* A point is made.                                                        *)
LEMMA CreateReq ==
  ASSUME IInv, IInv', TagsIInv, ReqIInv, NEW p, Create(p), SameMesh, broken' = broken
  PROVE  ReqIInv'
<1>0. PICK q0, E : q0 = Head(free) /\ E = EdgeAt(p)
  OBVIOUS
<1>1. /\ stage = "mark" /\ SameMesh /\ broken' = broken /\ p \in Positions /\ Examined(p)
      /\ E \notin DOMAIN hash /\ free # << >>
      /\ point' = With(point, q0, NewPoint(E, wave = "surf"))
  BY <1>0 DEF Create, Markable
<1>2. /\ Limits /\ Control /\ Lengths /\ Tets /\ OwnPoints /\ Forbidden /\ at \in Nat
  BY <1>1 DEF IInv, Hashed, Counters
<1>3. PICK k \in DOMAIN tetra, e \in Edge :
         /\ ~tetra[k].req /\ ~HasReqTag(k, e) /\ E = Ends(k, e)
         /\ wave = "surf" => tetra[k].xt # 0
  BY <1>0, <1>1, <1>2, EdgeOfPosition
<1>4. NewPoint(E, wave = "surf").of = Origin(E)
  BY DEF NewPoint, Origin
<1>5. PICK new : new = NewPoint(E, wave = "surf")
  OBVIOUS
<1>6. q0 \notin DOMAIN point
  BY <1>0, CreateKeeps
<1>7. /\ \A q \in DOMAIN point : point'[q] = point[q]
      /\ point'[q0].of = Origin(E) /\ DOMAIN point' = DOMAIN point \union {q0}
  BY <1>1, <1>4, <1>5, <1>6 DEF With
<1>8. SameReq
  BY <1>1, <1>7 DEF SameReq, SameTags, SamePoints, SameAt, SameMesh
<1>9. ASSUME ~broken PROVE (OwnOrigin(q0) /\ NotRequired(q0))'
  <2>1. Spread(k)
    BY <1>9 DEF TagsIInv, WellTagged
  <2>2. PICK a, b \in DOMAIN point : Pair(E, a, b) /\ Unlike(a, b)
    BY <1>2, <1>3, <2>1, TwoEnds
  <2>3. PICK r, s : r # s /\ r \in point[a].of /\ s \in point[b].of
    BY <2>2 DEF Unlike
  <2>4. \A x : x \in Origin(E) <=> x \in point[a].of \/ x \in point[b].of
    BY <2>2 DEF Origin, Pair
  <2>5. \A x : Origin(E) # {x}
    BY <2>3, <2>4
  <2>6. OwnOrigin(q0)'
    BY <1>7, <2>3, <2>4, <2>5 DEF OwnOrigin
  <2>7. ASSUME Origin(E) \in mesh.req PROVE FALSE
    <3>1. PICK x, y \in Origin(E) : x # y /\ \A z \in Origin(E) : z = x \/ z = y
      BY <2>7 DEF ReqIInv, MeshSets
    <3>3. ASSUME NEW c, c = a \/ c = b PROVE point[c].of = {c} /\ c \in {x, y}
      <4>1. OwnOrigin(c) /\ NotRequired(c)
        BY <1>9, <3>3 DEF ReqIInv
      <4>2. \A z \in point[c].of : z = x \/ z = y
        BY <2>4, <3>1, <3>3
      <4>3. point[c].of # Origin(E)
        BY <2>7, <4>1 DEF NotRequired
      <4>4. point[c].of # {}
        BY <4>1 DEF OwnOrigin
      <4>5. point[c].of = {x} \/ point[c].of = {y}
        <5>1. PICK o, w : o = point[c].of /\ w = Origin(E)
          OBVIOUS
        <5>2. \A z \in w : z = x \/ z = y
          BY <3>1, <5>1
        <5>3. \A z \in o : z \in w
          BY <2>4, <3>3, <5>1
        <5>4. x \notin o \/ y \notin o
          BY <4>3, <5>1, <5>2, <5>3
        <5> QED
          BY <4>2, <4>4, <5>1, <5>4
      <4> QED
        BY <4>1, <4>5 DEF OwnOrigin
    <3>4. E = Origin(E)
      <4>1. \A z : z \in Origin(E) <=> z = a \/ z = b
        BY <2>4, <3>3
      <4> QED
        BY <2>2, <4>1 DEF Pair
    <3>5. CASE wave = "vol"
      <4>1. PICK l \in DOMAIN tetra, d \in Edge : tetra[l].req /\ Ends(l, d) = E
        BY <1>9, <2>7, <3>4 DEF ReqIInv, ReqSeen
      <4>2. E \in DOMAIN hash
        BY <1>1, <1>2, <3>5, <4>1 DEF Forbidden
      <4> QED
        BY <1>1, <4>2
    <3>6. CASE wave = "surf"
      <4>1. tetra[k].xt # 0 => ~(xtetra[tetra[k].xt].tag[e] \in mesh.req)
        BY <1>3 DEF HasReqTag
      <4>2. ReqTags(k)
        BY <1>9 DEF ReqIInv
      <4> QED
        BY <1>3, <2>7, <3>6, <4>1, <4>2 DEF ReqTags
    <3> QED
      BY <1>2, <3>5, <3>6, TheWave
  <2> QED
    BY <1>1, <1>7, <2>6, <2>7 DEF NotRequired, SameMesh
<1> QED
  BY <1>1, <1>7, <1>8, <1>9, SameReqKeeps

(* The steps that cut nothing and insert no point.                         *)
Quiet ==
    \/ MarkEnd \/ Simulate \/ NoTable \/ NoRoom \/ Skip \/ GoOn \/ SweepEnd \/ CutEnd
    \/ UNCHANGED vars

LEMMA QuietSteps ==
  ASSUME IInv, Quiet
  PROVE  SameReq /\ DOMAIN point' \subseteq DOMAIN point /\ broken' = broken
<1>1. CASE MarkEnd
  <2>1. UNCHANGED <<mesh, xtetra, point, broken>> /\ (tetra' = Flagged \/ tetra' = tetra)
    BY <1>1 DEF MarkEnd, Return
  <2>2. SameTags
    BY <2>1, FlaggedTags, SameMeshTags DEF SameMesh
  <2>3. \A k \in DOMAIN tetra : tetra'[k].req = tetra[k].req
    <3>1. ASSUME tetra' = Flagged, NEW k \in DOMAIN tetra PROVE tetra'[k].req = tetra[k].req
      <4>1. PICK fl : tetra'[k] = [tetra[k] EXCEPT !.flag = fl]
        BY <3>1 DEF Flagged
      <4> QED
        BY <4>1
    <3> QED
      BY <2>1, <3>1
  <2> QED
    BY <2>1, <2>2, <2>3 DEF SameReq
<1>2. CASE Simulate
  <2>1. stage = "sim" /\ stage' = "sim" /\ ToSimulate # {}
    BY <1>2 DEF Simulate
  <2>2. Counters /\ Lengths /\ Tets /\ at >= 1
    BY <2>1 DEF IInv, Counters
  <2>3. PICK k \in DOMAIN tetra : k = Min(ToSimulate)
    BY <2>1, <2>2, NextSimulated
  <2>4. Accepts(k) \/ Moves(k) \/ Deletes(k)
    BY <1>2, <2>3, SimulateCases
  <2>5. /\ tetra' = [tetra EXCEPT ![k].flag = FlagOf(k)]
        /\ UNCHANGED <<mesh, xtetra, broken>>
    BY <1>2, <2>3, SimulateCases
  <2>6. DOMAIN tetra' = DOMAIN tetra
    BY <2>5
  <2>7. ASSUME NEW j \in DOMAIN tetra
        PROVE  /\ tetra'[j].v = tetra[j].v /\ tetra'[j].ref = tetra[j].ref
               /\ tetra'[j].xt = tetra[j].xt /\ tetra'[j].req = tetra[j].req
               /\ tetra'[j].six = tetra[j].six /\ tetra'[j].op3 = tetra[j].op3
    <3>1. IsTetra(tetra[k])
      BY <2>2 DEF Tets, Tetrahedron
    <3>2. CASE j = k
      <4>1. tetra'[k] = [tetra[k] EXCEPT !.flag = FlagOf(k)]
        BY <2>5
      <4> QED
        BY <3>2, <4>1
    <3>3. CASE j # k
      BY <2>5, <3>3
    <3> QED
      BY <3>2, <3>3
  <2>8. /\ \A q \in DOMAIN point \intersect DOMAIN point' : point'[q] = point[q]
        /\ DOMAIN point' \subseteq DOMAIN point
    BY <2>4 DEF Accepts, Moves, Deletes
  <2> QED
    BY <2>5, <2>6, <2>7, <2>8 DEF SameReq, SameTags, SamePoints, SameAt
<1>3. CASE NoTable \/ NoRoom \/ Skip \/ GoOn \/ SweepEnd \/ CutEnd \/ UNCHANGED vars
  <2>1. /\ SameMesh /\ broken' = broken /\ (point' = point \/ DelPatternPts)
    BY <1>3 DEF NoTable, NoRoom, Skip, GoOn, SweepEnd, CutEnd, Return, Fail, vars, SameMesh
  <2>2. SameTags
    BY <2>1, SameMeshTags
  <2> QED
    BY <2>1, <2>2 DEF SameReq, SameMesh, DelPatternPts
<1> QED
  BY <1>1, <1>2, <1>3 DEF Quiet

LEMMA QuietReq ==
  ASSUME IInv, IInv', ReqIInv, Quiet
  PROVE  ReqIInv'
BY QuietSteps, SameReqKeeps

(* A cut that fails.                                                       *)
LEMMA CutFailsReq ==
  ASSUME ReqIInv, CutFails
  PROVE  ReqIInv'
<1>1. mesh' = mesh /\ broken' = TRUE
  BY DEF CutFails
<1> QED
  BY <1>1 DEF ReqIInv, MeshSets

(* What is gathered from three vertices or more is no tagged edge.         *)
LEMMA ManyGathered ==
  ASSUME SmallSets, Tets, NEW k \in DOMAIN tetra, Spread(k), NEW J \in SUBSET Local, SomeThree(J)
  PROVE  Gather(point, tetra[k].v, J) \notin mesh.tagged
<1>1. PICK r \in [Local -> Origin(Corner(k))] :
         IsInjective(r) /\ \A i \in Local : r[i] \in point[tetra[k].v[i]].of
  BY DEF Spread
<1>2. PICK a, b, c \in J : a # b /\ a # c /\ b # c
  BY DEF SomeThree
<1>3. \A i \in J : r[i] \in Gather(point, tetra[k].v, J)
  BY <1>1 DEF Gather
<1>4. r[a] # r[b] /\ r[b] # r[c] /\ r[a] # r[c]
  BY <1>1, <1>2 DEF IsInjective
<1> QED
  BY <1>2, <1>3, <1>4 DEF SmallSets

(* The edges of a piece: those with the tag of a required edge are the     *)
(* ones that lie on such an edge, also when split6 has lost other tags.    *)
LEMMA PieceReqTags ==
  ASSUME IInv, TagsIInv, ReqIInv, ~broken, NEW k \in DOMAIN tetra, k \in Pending,
         NEW F, F = FlagOf(k), F # {},
         NEW ps, ps = Split(Bits(F), tetra[k].v), NEW i \in DOMAIN ps, NEW ftag,
         ftag = NotSet \/ (tetra[k].xt # 0 => ftag = xtetra[tetra[k].xt].ftag),
         NEW j, MadeFrom(j, k, F, ps[i], ftag), point' = point, mesh' = mesh
  PROVE  ReqTags(j)'
<1>1. PICK p, v : p = ps[i] /\ v = tetra[k].v
  OBVIOUS
<1>2. /\ Limits /\ Points /\ Tets /\ OwnPoints /\ Apart /\ EdgeOrigins /\ SmallSets
      /\ WellTagged(k) /\ Spread(k) /\ ReqTags(k) /\ MeshSets
  <2>1. stage # "done"
    BY DEF Pending
  <2> QED
    BY <2>1 DEF IInv, Hashed, TagsIInv, WellTagged, ReqIInv
<1>3. F \in SUBSET Edge
  BY DEF FlagOf
<1>4. PICK G : G = Global(k, p.v)
  OBVIOUS
<1>5. Gathers(k, p.v, G)
  BY <1>1, <1>2, <1>4, PieceGathers
<1>6. G \in [Local -> DOMAIN point] /\ IsInjective(G) /\ tetra'[j].v = G
  BY <1>1, <1>4, <1>5 DEF Gathers, MadeFrom
<1>7. ASSUME NEW e \in Edge PROVE Origin(Ends(j, e))' = Gather(point, v, RootsOf(p.v, iare[e]))
  <2>1. Origin(Ends(j, e))' = UNION {point[q].of : q \in {G[y] : y \in iare[e]}}
    BY <1>6 DEF Origin, Ends
  <2>2. \A d \in Edge : UNION {point[q].of : q \in {G[y] : y \in iare[d]}} = Gather(point, G, iare[d])
    <3>1. G \in [Local -> DOMAIN point] /\ IsInjective(G)
      BY <1>6
    <3> QED
      BY <3>1, Gathered
  <2>3. iare[e] \in SUBSET Local
    BY EdgesIn
  <2>4. Gather(point, G, iare[e]) = Gather(point, v, RootsOf(p.v, iare[e]))
    BY <1>1, <1>5, <2>3 DEF Gathers
  <2> QED
    BY <2>1, <2>2, <2>4
<1>8. \A e \in Edge : RootsOf(p.v, iare[e]) \in SUBSET Local
  <2>1. \A x \in Local : Roots(p.v[x]) \subseteq Local
    BY <1>1, <1>3, SplitFaces
  <2> QED
    BY <2>1, EdgesIn DEF RootsOf
<1>9. \A e \in Edge : TagTells(p, e)
  BY <1>1, <1>3, SplitTags
<1>10. \A s \in mesh.req : s \in mesh.tagged /\ s # {} /\ s # {0}
  <2> TAKE s \in mesh.req
  <2>1. PICK x, y \in s : x # y
    BY <1>2 DEF MeshSets
  <2>2. s \in mesh.tagged
    BY <1>2 DEF MeshSets
  <2> QED
    BY <2>1, <2>2
<1> SUFFICES ASSUME tetra'[j].xt # 0, NEW e \in Edge
             PROVE  xtetra'[tetra'[j].xt].tag[e] \in mesh.req
                       <=> Origin(Ends(j, e))' \in mesh.req
  BY DEF ReqTags
<1>11. PICK x : x = xtetra[tetra[k].xt]
  OBVIOUS
<1>12. tetra[k].xt # 0 /\ xtetra'[tetra'[j].xt] = XTetraOf(x, p, ftag)
  BY <1>1, <1>11 DEF MadeFrom
<1>13. XTetraOf(x, p, ftag).tag[e] = CASE p.tag[e] = K -> x.tag[e]
                                       [] p.tag[e] = N -> {}
                                       [] OTHER -> ftag[p.tag[e]]
  BY DEF XTetraOf
<1>14. CASE p.tag[e] = K
  <2>1. RootsOf(p.v, iare[e]) = iare[e]
    BY <1>9, <1>14 DEF TagTells
  <2>2. Origin(Ends(k, e)) = Gather(point, v, iare[e])
    BY <1>1, <1>2, TetraGathers
  <2>3. x.tag[e] \in mesh.req <=> Origin(Ends(k, e)) \in mesh.req
    BY <1>2, <1>11, <1>12 DEF ReqTags
  <2>4. XTetraOf(x, p, ftag).tag[e] = x.tag[e]
    BY <1>13, <1>14 DEF K, N
  <2> QED
    BY <1>7, <1>12, <2>1, <2>2, <2>3, <2>4
<1>15. CASE p.tag[e] # K
  <2>1. p.tag[e] = N \/ p.tag[e] \in Local
    BY <1>9, <1>15 DEF TagTells
  <2>2. SomeThree(RootsOf(p.v, iare[e]))
    BY <1>9, <1>15 DEF TagTells
  <2>3. Origin(Ends(j, e))' \notin mesh.tagged
    BY <1>1, <1>2, <1>7, <1>8, <2>2, ManyGathered
  <2>4. \A f \in Local : ftag[f] \notin mesh.req
    <3>1. CASE ftag = NotSet
      BY <1>10, <3>1 DEF NotSet
    <3>2. CASE ftag = x.ftag
      <4> TAKE f \in Local
      <4>1. x.ftag[f] = IF Origin(Face(k, f)) \in mesh.bdy THEN Origin(Face(k, f)) ELSE {}
        BY <1>2, <1>11, <1>12 DEF WellTagged, FacesTagged
      <4>2. Origin(Face(k, f)) \notin mesh.tagged
        BY <1>2, LargeSets
      <4> QED
        BY <1>10, <3>2, <4>1, <4>2
    <3> QED
      BY <1>11, <1>12, <3>1, <3>2
  <2>5. XTetraOf(x, p, ftag).tag[e] = {} \/ \E f \in Local : XTetraOf(x, p, ftag).tag[e] = ftag[f]
    <3>1. CASE p.tag[e] = N
      BY <1>13, <1>15, <3>1
    <3>2. CASE p.tag[e] # N
      BY <1>13, <1>15, <2>1, <3>2
    <3> QED
      BY <3>1, <3>2
  <2>6. XTetraOf(x, p, ftag).tag[e] \notin mesh.req
    BY <1>10, <2>4, <2>5
  <2> QED
    BY <1>10, <1>12, <2>3, <2>6
<1> QED
  BY <1>14, <1>15

(* A cut: the required tetrahedra stay as they are.                        *)
LEMMA CutReq ==
  ASSUME IInv, IInv', TagsIInv, ReqIInv, Cut
  PROVE  ReqIInv'
<1>1. /\ Limits /\ Counters /\ Lengths /\ Tets /\ Tets' /\ XTets /\ Points
      /\ OwnPoints /\ Apart /\ Flags /\ stage = "cut" /\ ToCut # {}
  BY DEF Cut, IInv, Hashed
<1>2. PICK k \in DOMAIN tetra :
         k = Min(ToCut) /\ k \in ToCut /\ k \in at..last /\ k \in Nat
  BY <1>1, NextCut
<1>3. ~tetra[k].req /\ CutFlag(k) # {}
  BY <1>2 DEF ToCut
<1>4. PICK F : F = FlagOf(k) /\ F = CutFlag(k) /\ F # {}
  BY <1>1, <1>2, <1>3, CutFlagIs
<1>5. PICK ps : ps = Split(Bits(F), tetra[k].v)
  OBVIOUS
<1>6. PICK ftag : /\ Pasted(k, F, ps, ftag)
                  /\ ftag = NotSet \/ (tetra[k].xt # 0 => ftag = xtetra[tetra[k].xt].ftag)
  BY <1>2, <1>4, <1>5, CutReads
<1>7. UNCHANGED <<mesh, point, hash, broken>>
  BY <1>2, CutMeans
<1>8. k \in Pending
  BY <1>1, <1>2 DEF Pending
<1>9. IsTuple(ps) /\ Len(ps) >= 2 /\ Len(ps) \in Nat
  BY <1>1, <1>4, <1>5, <1>8, PieceVertices, TupleLen
<1>10. /\ DOMAIN tetra' = 1..(ne + Len(ps) - 1)
       /\ \A j \in DOMAIN tetra : j # k => tetra'[j] = tetra[j]
       /\ \A x \in 1..Len(xtetra) : x # tetra[k].xt => xtetra'[x] = xtetra[x]
  BY <1>1, <1>6, <1>9, PastedTetra
<1>11. DOMAIN tetra \subseteq DOMAIN tetra'
  BY <1>1, <1>9, <1>10, Numbers
<1>12. ASSUME NEW j \in DOMAIN tetra, j # k
       PROVE  /\ SameAt(j) /\ tetra'[j].req = tetra[j].req
              /\ \A e \in Edge :
                    Ends(j, e)' = Ends(j, e) /\ Origin(Ends(j, e))' = Origin(Ends(j, e))
  <2>1. tetra[j].xt \in 0..Len(xtetra) /\ Len(xtetra) \in Nat
    BY <1>1, Numbers DEF Tets, Tetrahedron
  <2>2. tetra[j].xt # 0 => tetra[j].xt # tetra[k].xt
    BY <1>1, <1>12 DEF XTets
  <2>3. tetra[j].xt # 0 => tetra[j].xt \in 1..Len(xtetra)
    BY <2>1
  <2>4. SameAt(j) /\ tetra'[j].req = tetra[j].req
    BY <1>10, <1>11, <1>12, <2>2, <2>3 DEF SameAt
  <2>5. SamePoints
    BY <1>7 DEF SamePoints
  <2> QED
    BY <1>1, <2>4, <2>5, SameOrigin
<1>13. MeshSets'
  BY <1>7 DEF ReqIInv, MeshSets
<1> SUFFICES ASSUME ~broken
             PROVE  /\ \A q \in DOMAIN point : (OwnOrigin(q) /\ NotRequired(q))'
                    /\ ReqSeen'
                    /\ \A j \in DOMAIN tetra' : (ReqEnds(j) /\ ReqTags(j))'
  BY <1>7, <1>13 DEF ReqIInv
<1>14. /\ \A q \in DOMAIN point : OwnOrigin(q) /\ NotRequired(q)
       /\ ReqSeen /\ \A j \in DOMAIN tetra : ReqEnds(j) /\ ReqTags(j)
  BY DEF ReqIInv
<1>15. \A q \in DOMAIN point : (OwnOrigin(q) /\ NotRequired(q))'
  BY <1>7, <1>14 DEF OwnOrigin, NotRequired
<1>16. ReqSeen'
  <2> SUFFICES ASSUME NEW s \in mesh.req
               PROVE  \E j \in DOMAIN tetra', e \in Edge : tetra'[j].req /\ Ends(j, e)' = s
    BY <1>7 DEF ReqSeen
  <2>1. PICK j \in DOMAIN tetra, e \in Edge : tetra[j].req /\ Ends(j, e) = s
    BY <1>14 DEF ReqSeen
  <2>2. j \in DOMAIN tetra' /\ tetra'[j].req /\ Ends(j, e)' = s
    BY <1>3, <1>11, <1>12, <2>1
  <2> QED
    BY <2>2
<1>17. ASSUME NEW j \in DOMAIN tetra' PROVE (ReqEnds(j) /\ ReqTags(j))'
  <2>1. CASE j \in DOMAIN tetra /\ j # k
    <3>1. ReqEnds(j) /\ ReqTags(j)
      BY <1>14, <2>1
    <3>2. /\ tetra'[j].req = tetra[j].req /\ tetra'[j].xt = tetra[j].xt
          /\ tetra[j].xt # 0 => xtetra'[tetra[j].xt] = xtetra[tetra[j].xt]
      BY <1>12, <2>1 DEF SameAt
    <3> QED
      BY <1>7, <1>12, <2>1, <3>1, <3>2 DEF ReqEnds, ReqTags
  <2>2. CASE j = k \/ j \notin DOMAIN tetra
    <3>1. PICK i \in DOMAIN ps : MadeFrom(j, k, F, ps[i], ftag)
      BY <1>1, <1>6, <1>9, <2>2, PastedPieces
    <3>2. ReqEnds(j)'
      BY <1>3, <3>1 DEF MadeFrom, ReqEnds
    <3>3. ReqTags(j)'
      BY <1>4, <1>5, <1>6, <1>7, <1>8, <3>1, PieceReqTags
    <3> QED
      BY <3>2, <3>3
  <2> QED
    BY <2>1, <2>2
<1> QED
  BY <1>15, <1>16, <1>17

(* The initial states.                                                     *)
LEMMA TwoElements ==
  ASSUME NEW S, IsFiniteSet(S), NEW s \in kSubset(2, S)
  PROVE  \E x, y \in s : x # y /\ \A z \in s : z = x \/ z = y
<1>1. Cardinality(s) = 2 /\ s # {} /\ \A a, b, c \in s : a = b \/ b = c \/ a = c
  BY SmallCard DEF kSubset
<1>2. PICK x : x \in s
  BY <1>1
<1>3. \E y \in s : y # x
  <2>1. s # {x}
    <3>1. Cardinality({x}) = 1
      BY FS_Singleton
    <3> QED
      BY <1>1, <3>1
  <2> QED
    BY <1>2, <2>1
<1> QED
  BY <1>1, <1>2, <1>3

LEMMA TwoMakeAPair ==
  ASSUME NEW S, NEW a \in S, NEW b \in S, a # b
  PROVE  {a, b} \in kSubset(2, S)
<1>1. IsFiniteSet({a}) /\ Cardinality({a}) = 1
  BY FS_Singleton
<1>2. Cardinality({a} \union {b}) = Cardinality({a}) + 1
  BY <1>1, b \notin {a}, FS_AddElement
<1>3. {a} \union {b} = {a, b}
  OBVIOUS
<1>4. Cardinality({a, b}) = 2
  BY <1>1, <1>2, <1>3
<1> QED
  BY <1>4 DEF kSubset

LEMMA EdgeBetween ==
  ASSUME NEW i \in Local, NEW j \in Local, i # j
  PROVE  \E e \in Edge : iare[e] = {i, j}
<1>1. /\ iare[0] = {0, 1} /\ iare[1] = {0, 2} /\ iare[2] = {0, 3}
      /\ iare[3] = {1, 2} /\ iare[4] = {1, 3} /\ iare[5] = {2, 3}
  BY DEF iare, Array
<1>2. /\ i = 0 \/ i = 1 \/ i = 2 \/ i = 3
      /\ j = 0 \/ j = 1 \/ j = 2 \/ j = 3
  BY DEF Local
<1>3. 0 \in Edge /\ 1 \in Edge /\ 2 \in Edge /\ 3 \in Edge /\ 4 \in Edge /\ 5 \in Edge
  BY DEF Edge
<1>4. PICK ia : ia = iare
  OBVIOUS
<1>5. \E e \in {0, 1, 2, 3, 4, 5} : ia[e] = {i, j}
  BY <1>1, <1>2, <1>4
<1> QED
  BY <1>3, <1>4, <1>5

LEMMA InitialOrigins ==
  ASSUME Init, NEW k \in DOMAIN mesh.tets
  PROVE  /\ k \in DOMAIN tetra /\ tetra[k].v = Array(mesh.tets[k])
         /\ tetra[k].req <=> k \in mesh.required
         /\ Corner(k) = Corners(mesh, k) /\ Corner(k) \subseteq DOMAIN point
         /\ Range(tetra[k].v) = Corner(k) /\ DOMAIN tetra[k].v = Local /\ IsInjective(tetra[k].v)
         /\ \A s : s \subseteq Corner(k) => Origin(s) = s
<1>1. Tetrahedron(tetra[k]) /\ Corner(k) = Corners(mesh, k)
  BY InitialTetra DEF Corners
<1>2. k \in DOMAIN tetra /\ tetra[k] = Tetra0(k)
  BY DEF Init
<1>3. tetra[k].v = Array(mesh.tets[k]) /\ tetra[k].req = (k \in mesh.required)
  BY <1>2 DEF Tetra0
<1>4. tetra[k].v \in [Local -> DOMAIN point] /\ IsInjective(tetra[k].v)
  BY <1>1 DEF Tetrahedron
<1>5. Corner(k) \subseteq DOMAIN point /\ Range(tetra[k].v) = Corner(k)
  BY <1>4 DEF Corner, Range
<1>6. ASSUME NEW s, s \subseteq Corner(k) PROVE Origin(s) = s
  <2>1. \A q \in s : point[q].of = {q}
    BY <1>5, <1>6 DEF Init
  <2> QED
    BY <2>1 DEF Origin
<1> QED
  BY <1>1, <1>2, <1>3, <1>4, <1>5, <1>6

LEMMA InitReq ==
  ASSUME Init
  PROVE  ReqIInv
<1>1. PICK m \in Meshes : mesh = Analysed(m)
  BY DEF Init
<1>2. /\ mesh.tets = m.tets /\ mesh.bdy = BdyFaces(m) /\ mesh.tagged = TaggedEdges(m)
      /\ mesh.required = m.required /\ mesh.hull = HullFaces(m) /\ mesh.req = ReqEdges(m)
  BY <1>1 DEF Analysed
<1>3. m.required \subseteq DOMAIN m.tets
  BY MeshesAssumption DEF MeshRecord
<1>4. \A k \in DOMAIN m.tets : IsFiniteSet(Corners(m, k)) /\ Corners(m, k) = Corners(mesh, k)
  <2> TAKE k \in DOMAIN m.tets
  <2>1. IsTuple(m.tets[k]) /\ IsInjective(m.tets[k])
    BY <1>2, InitialMesh
  <2> QED
    BY <1>2, <2>1, ListSize DEF Corners
<1>5. \A s \in mesh.req : \E k \in m.required : s \in kSubset(2, Corners(m, k))
  BY <1>2 DEF ReqEdges
<1>6. MeshSets
  <2>1. mesh.hull \subseteq mesh.bdy
    BY <1>2 DEF HullFaces, BdyFaces
  <2>2. mesh.req \subseteq mesh.tagged
    BY <1>2 DEF TaggedEdges
  <2>3. \A s \in mesh.req : \E x, y \in s : x # y /\ \A z \in s : z = x \/ z = y
    BY <1>3, <1>4, <1>5, TwoElements
  <2> QED
    BY <2>1, <2>2, <2>3 DEF MeshSets
<1>7. \A q \in DOMAIN point : OwnOrigin(q) /\ NotRequired(q)
  <2> TAKE q \in DOMAIN point
  <2>1. point[q].of = {q}
    BY DEF Init
  <2> QED
    BY <1>6, <2>1 DEF MeshSets, OwnOrigin, NotRequired
<1>8. DOMAIN tetra = DOMAIN m.tets
  BY <1>2 DEF Init
<1>9. ASSUME NEW k \in DOMAIN m.tets, NEW e \in Edge
      PROVE  /\ Origin(Ends(k, e)) = Ends(k, e) /\ Ends(k, e) \in kSubset(2, Corners(m, k))
             /\ Ends(k, e) = {tetra[k].v[i] : i \in iare[e]}
  <2>1. PICK i, j : i \in Local /\ j \in Local /\ i # j /\ iare[e] = {i, j}
    <3>1. /\ iare[0] = {0, 1} /\ iare[1] = {0, 2} /\ iare[2] = {0, 3}
          /\ iare[3] = {1, 2} /\ iare[4] = {1, 3} /\ iare[5] = {2, 3}
      BY DEF iare, Array
    <3>2. e = 0 \/ e = 1 \/ e = 2 \/ e = 3 \/ e = 4 \/ e = 5
      BY DEF Edge
    <3>3. 0 \in Local /\ 1 \in Local /\ 2 \in Local /\ 3 \in Local
      BY DEF Local
    <3> HIDE DEF iare
    <3> QED
      BY <3>1, <3>2, <3>3
  <2>2. PICK a, b : a = tetra[k].v[i] /\ b = tetra[k].v[j]
    OBVIOUS
  <2>3. a \in Corner(k) /\ b \in Corner(k) /\ a # b
    BY <1>2, <2>1, <2>2, InitialOrigins DEF Corner, IsInjective
  <2>4. Ends(k, e) = {a, b}
    BY <2>1, <2>2 DEF Ends
  <2>5. Corner(k) = Corners(m, k) /\ Origin({a, b}) = {a, b}
    BY <1>2, <1>4, <2>3, InitialOrigins
  <2>6. {a, b} \in kSubset(2, Corners(m, k))
    BY <2>3, <2>5, TwoMakeAPair
  <2> QED
    BY <2>4, <2>5, <2>6 DEF Ends
<1>10. ReqSeen
  <2> SUFFICES ASSUME NEW s \in mesh.req
               PROVE  \E k \in DOMAIN tetra, e \in Edge : tetra[k].req /\ Ends(k, e) = s
    BY DEF ReqSeen
  <2>1. PICK k \in m.required : s \in kSubset(2, Corners(m, k))
    BY <1>5
  <2>2. PICK x, y \in s : x # y /\ \A z \in s : z = x \/ z = y
    BY <1>6 DEF MeshSets
  <2>3. /\ k \in DOMAIN tetra /\ tetra[k].req /\ Corner(k) = Corners(m, k)
    BY <1>2, <1>3, <1>4, <2>1, InitialOrigins
  <2>4. x \in Corner(k) /\ y \in Corner(k)
    BY <2>1, <2>2, <2>3 DEF kSubset
  <2>5. PICK i, j \in Local : x = tetra[k].v[i] /\ y = tetra[k].v[j]
    BY <2>4 DEF Corner
  <2>6. PICK e \in Edge : iare[e] = {i, j}
    BY <2>2, <2>5, EdgeBetween
  <2>7. Ends(k, e) = s
    BY <2>2, <2>5, <2>6 DEF Ends
  <2> QED
    BY <2>3, <2>7
<1>11. ASSUME NEW k \in DOMAIN m.tets PROVE ReqEnds(k)
  <2>1. tetra[k].req => k \in m.required
    BY <1>2, <1>11, InitialOrigins
  <2>2. tetra[k].req => \A e \in Edge : Ends(k, e) \in mesh.req
    BY <1>2, <1>9, <2>1 DEF ReqEdges
  <2> QED
    BY <1>9, <2>2 DEF ReqEnds
<1>12. ASSUME NEW k \in DOMAIN m.tets PROVE ReqTags(k)
  <2> SUFFICES ASSUME tetra[k].xt # 0, NEW e \in Edge
               PROVE  xtetra[tetra[k].xt].tag[e] \in mesh.req <=> Origin(Ends(k, e)) \in mesh.req
    BY DEF ReqTags
  <2>1. PICK s : s = Ends(k, e) /\ s = {tetra[k].v[i] : i \in iare[e]}
    BY <1>9
  <2>2. xtetra[tetra[k].xt] = XTetra0(k)
    BY <1>2, InitialXTetra
  <2>3. XTetra0(k).tag = [d \in Edge |-> TagOf({tetra[k].v[i] : i \in iare[d]})]
    <3>1. tetra[k].v = Array(mesh.tets[k])
      BY <1>2, InitialOrigins
    <3> QED
      BY <3>1 DEF XTetra0
  <2>4. XTetra0(k).tag[e] = TagOf(s)
    BY <2>1, <2>3
  <2>5. TagOf(s) = s \/ (TagOf(s) = {} /\ s \notin mesh.tagged)
    BY DEF TagOf
  <2>6. {} \notin mesh.req /\ mesh.req \subseteq mesh.tagged
    BY <1>6 DEF MeshSets
  <2>7. Origin(Ends(k, e)) = s
    BY <1>9, <2>1
  <2> QED
    BY <2>2, <2>4, <2>5, <2>6, <2>7
<1> QED
  BY <1>6, <1>7, <1>8, <1>10, <1>11, <1>12 DEF ReqIInv

LEMMA NextReq == ReqIInv /\ TagsIInv /\ IInv /\ IInv' /\ [Next]_vars => ReqIInv'
<1> SUFFICES ASSUME ReqIInv, TagsIInv, IInv, IInv', [Next]_vars PROVE ReqIInv'
  OBVIOUS
<1>1. ASSUME NEW p \in 0..(12 * ne - 1), Insert(p) \/ InsertFails(p) PROVE ReqIInv'
  <2>1. Create(p) /\ SameMesh /\ broken' = broken
    BY <1>1 DEF Insert, InsertFails, Create, SameMesh
  <2> QED
    BY <2>1, CreateReq
<1>2. CASE Quiet
  BY <1>2, QuietReq
<1>3. CASE Cut
  BY <1>3, CutReq
<1>4. CASE CutFails
  BY <1>4, CutFailsReq
<1> QED
  BY <1>1, <1>2, <1>3, <1>4 DEF Next, Quiet

LEMMA AnatetReq ==
  Spec /\ []SweepsSuffice => []ReqIInv
<1>1. Init => ReqIInv
  BY InitReq
<1> QED
  BY <1>1, NextReq, AnatetInvariant, AnatetTags, PTL DEF Spec

-------------------------------------------------------------------------------
(* The mesh with the pieces of the tetrahedra T that are still to be cut,  *)
(* and the sets of points that lie in a face of the hull.                  *)
PieceCells(k) == [i \in DOMAIN Parts(k) |-> VertexSet(Global(k, Parts(k)[i].v))]
CellsWith(T) ==
    [k \in DOMAIN tetra |-> IF k \in T THEN PieceCells(k) ELSE <<VertexSet(tetra[k].v)>>]

OnHull == {g \in SUBSET DOMAIN point : \E h \in mesh.hull : Origin(g) \subseteq h}

Waiting == IF stage = "cut" THEN ToCut ELSE {}

FacesIInv == ~broken => MeshOf(CellsWith(Waiting), OnHull)

(* A tetrahedron that stays has the same pieces.                           *)
LEMMA SamePieces ==
  ASSUME NEW k, SameTetra(k), tetra'[k].flag = tetra[k].flag,
         tetra[k].xt # 0 => xtetra'[tetra[k].xt] = xtetra[tetra[k].xt],
         mesh' = mesh, hash' = hash, call' = call
  PROVE  CutFlag(k)' = CutFlag(k) /\ PieceCells(k)' = PieceCells(k)
<1>1. Vx(k)' = Vx(k) /\ FlagOf(k)' = FlagOf(k)
  BY SameVx
<1>2. CutFlag(k)' = CutFlag(k)
  BY <1>1 DEF CutFlag, wave
<1>3. tetra'[k].v = tetra[k].v
  BY DEF SameTetra
<1>4. Parts(k)' = Parts(k)
  BY <1>2, <1>3 DEF Parts
<1>5. \A u : Global(k, u)' = Global(k, u)
  BY <1>1, <1>3 DEF Global
<1>6. PieceCells(k)' = PieceCells(k)
  BY <1>4, <1>5 DEF PieceCells
<1> QED
  BY <1>2, <1>6

(* A step between the cuts.                                                *)
LEMMA SteadyFaces ==
  ASSUME IInv, IInv', SameTags, broken' = broken, Waiting = {}, Waiting' = {}, FacesIInv
  PROVE  FacesIInv'
<1>1. Tets /\ Tets' /\ SamePoints /\ DOMAIN tetra' = DOMAIN tetra /\ mesh' = mesh
  BY DEF IInv, SameTags, SamePoints
<1>2. PICK W : W = [k \in DOMAIN tetra |-> <<VertexSet(tetra[k].v)>>]
  OBVIOUS
<1>3. CellsWith({}) = W
  BY <1>2 DEF CellsWith
<1>4. CellsWith({})' = W
  <2>1. \A k \in DOMAIN tetra : tetra'[k].v = tetra[k].v
    BY DEF SameTags, SameAt
  <2>2. [k \in DOMAIN tetra' |-> <<VertexSet(tetra'[k].v)>>] = W
    BY <1>1, <1>2, <2>1
  <2> QED
    BY <2>2 DEF CellsWith
<1>5. ASSUME NEW k \in DOMAIN tetra, NEW g \in SUBSET VertexSet(tetra[k].v)
      PROVE  g \in OnHull' <=> g \in OnHull
  <2>1. SameAt(k)
    BY DEF SameTags
  <2>2. /\ tetra[k].v \in [Local -> DOMAIN point] /\ tetra[k].v \in [Local -> DOMAIN point']
        /\ \A j \in Local : point'[tetra[k].v[j]].of = point[tetra[k].v[j]].of
    <3>1. tetra'[k].v = tetra[k].v /\ k \in DOMAIN tetra'
      BY <2>1 DEF SameAt
    <3> QED
      BY <1>1, <2>1, <3>1, SameOrigin DEF Tets, Tetrahedron
  <2>3. \A q \in g : point'[q].of = point[q].of /\ q \in DOMAIN point /\ q \in DOMAIN point'
    BY <2>2 DEF VertexSet
  <2>4. Origin(g)' = Origin(g)
    BY <2>3 DEF Origin
  <2> QED
    BY <1>1, <2>3, <2>4 DEF OnHull
<1> SUFFICES ASSUME ~broken PROVE MeshOf(W, OnHull')
  BY <1>4 DEF FacesIInv
<1>6. MeshOf(W, OnHull)
  BY <1>3 DEF FacesIInv
<1>7. \A k \in DOMAIN W : \A i \in DOMAIN W[k] : \A g \in SUBSET W[k][i] :
         g \in OnHull' <=> g \in OnHull
  <2> TAKE k \in DOMAIN W
  <2>1. k \in DOMAIN tetra /\ W[k] = <<VertexSet(tetra[k].v)>>
    BY <1>2
  <2>2. \A i \in DOMAIN W[k] : W[k][i] = VertexSet(tetra[k].v)
    BY <2>1
  <2> QED
    BY <1>5, <2>1, <2>2
<1>8. PICK A, B : A = OnHull' /\ B = OnHull
  OBVIOUS
<1> QED
  BY <1>6, <1>7, <1>8, SameCells

(* A cut: the pieces of the tetrahedron become tetrahedra.                 *)
LEMMA CutFaces ==
  ASSUME IInv, IInv', Cut, FacesIInv
  PROVE  FacesIInv'
<1>1. /\ Limits /\ Counters /\ Lengths /\ Tets /\ XTets /\ Points
      /\ OwnPoints /\ Apart /\ Flags /\ stage = "cut" /\ ToCut # {}
  BY DEF Cut, IInv, Hashed
<1>2. PICK k \in DOMAIN tetra :
         /\ k = Min(ToCut) /\ k \in ToCut /\ k \in at..last /\ k \in Nat
         /\ \A j \in at..(k - 1) : j \notin ToCut
  BY <1>1, NextCut
<1>3. ~tetra[k].req /\ CutFlag(k) # {}
  BY <1>2 DEF ToCut
<1>4. PICK F : F = FlagOf(k) /\ F = CutFlag(k) /\ F # {}
  BY <1>1, <1>2, <1>3, CutFlagIs
<1>5. PICK ps : ps = Split(Bits(F), tetra[k].v)
  OBVIOUS
<1>6. PICK ftag : Pasted(k, F, ps, ftag)
  BY <1>2, <1>4, <1>5, CutMeans
<1>7. at' = k + 1 /\ UNCHANGED <<mesh, point, hash, broken, call, stage, last>>
  BY <1>2, CutMeans
<1>8. k \in Pending
  BY <1>1, <1>2 DEF Pending
<1>9. IsTuple(ps) /\ Len(ps) >= 2 /\ Len(ps) \in Nat /\ DOMAIN ps = 1..Len(ps)
  BY <1>1, <1>4, <1>5, <1>8, PieceVertices, TupleLen
<1>10. /\ DOMAIN tetra' = 1..(ne + Len(ps) - 1)
       /\ \A j \in DOMAIN tetra : j # k => tetra'[j] = tetra[j]
       /\ \A x \in 1..Len(xtetra) : x # tetra[k].xt => xtetra'[x] = xtetra[x]
  BY <1>1, <1>6, <1>9, PastedTetra
<1>11. /\ DOMAIN tetra = 1..ne /\ ne \in Nat /\ at \in Nat /\ last \in Nat /\ at >= 1 /\ last <= ne
  BY <1>1, Numbers DEF Counters
<1>12. ASSUME NEW j \in DOMAIN tetra, j # k
       PROVE  CutFlag(j)' = CutFlag(j) /\ PieceCells(j)' = PieceCells(j)
  <2>1. tetra[j].xt \in 0..Len(xtetra) /\ Len(xtetra) \in Nat
    BY <1>1, Numbers DEF Tets, Tetrahedron
  <2>2. tetra[j].xt # 0 => tetra[j].xt # tetra[k].xt
    BY <1>1, <1>12 DEF XTets
  <2>3. tetra[j].xt # 0 => tetra[j].xt \in 1..Len(xtetra)
    BY <2>1
  <2>4. SameTetra(j) /\ tetra'[j].flag = tetra[j].flag
    BY <1>10, <1>12 DEF SameTetra
  <2> QED
    BY <1>7, <1>10, <2>2, <2>3, <2>4, SamePieces
<1>13. Waiting = ToCut /\ Waiting' = ToCut \ {k}
  <2>1. ASSUME NEW j PROVE j \in ToCut' <=> j \in ToCut /\ j # k
    <3>1. CASE j \in (k + 1)..last
      <4>1. j \in DOMAIN tetra /\ j # k /\ j \in at..last
        BY <1>2, <1>11, <3>1
      <4>2. tetra'[j] = tetra[j] /\ CutFlag(j)' = CutFlag(j)
        BY <1>10, <1>12, <4>1
      <4> QED
        BY <1>7, <3>1, <4>1, <4>2 DEF ToCut
    <3>2. CASE j \notin (k + 1)..last
      <4>1. j \notin ToCut'
        BY <1>7, <3>2 DEF ToCut
      <4>2. ASSUME j \in ToCut, j # k PROVE FALSE
        <5>1. j \in at..last
          BY <4>2 DEF ToCut
        <5>2. j \in at..(k - 1)
          BY <1>2, <1>11, <3>2, <4>2, <5>1
        <5> QED
          BY <1>2, <4>2, <5>2
      <4> QED
        BY <4>1, <4>2
    <3> QED
      BY <3>1, <3>2
  <2>2. ToCut' = ToCut \ {k}
    BY <2>1
  <2> QED
    BY <1>1, <1>7, <2>2 DEF Waiting
<1>14. PICK T : T = ToCut
  OBVIOUS
<1>15. PICK W, X : W = CellsWith(T) /\ X = CellsWith(T \ {k})'
  OBVIOUS
<1>16. T \subseteq DOMAIN tetra
  BY <1>11, <1>14 DEF ToCut
<1>17. DOMAIN W = 1..ne /\ DOMAIN X = 1..(ne + Len(ps) - 1)
  BY <1>10, <1>11, <1>15 DEF CellsWith
<1>18. \A j \in 1..ne : j # k => X[j] = W[j]
  <2> TAKE j \in 1..ne
  <2> SUFFICES ASSUME j # k PROVE X[j] = W[j]
    OBVIOUS
  <2>1. /\ j \in DOMAIN tetra /\ j \in DOMAIN tetra' /\ tetra'[j] = tetra[j]
        /\ PieceCells(j)' = PieceCells(j)
    BY <1>9, <1>10, <1>11, <1>12
  <2>2. X[j] = IF j \in T THEN PieceCells(j)' ELSE <<VertexSet(tetra'[j].v)>>
    BY <1>15, <2>1 DEF CellsWith
  <2>3. W[j] = IF j \in T THEN PieceCells(j) ELSE <<VertexSet(tetra[j].v)>>
    BY <1>15, <2>1 DEF CellsWith
  <2> QED
    BY <2>1, <2>2, <2>3
<1>19. Parts(k) = ps
  BY <1>4, <1>5 DEF Parts
<1>20. DOMAIN W[k] = 1..Len(ps) /\ \A i \in 1..Len(ps) : W[k][i] = VertexSet(Global(k, ps[i].v))
  <2>1. W[k] = PieceCells(k)
    BY <1>2, <1>14, <1>15 DEF CellsWith
  <2> QED
    BY <1>9, <1>19, <2>1 DEF PieceCells
<1>21. /\ tetra'[k].v = Global(k, ps[1].v)
       /\ \A j \in (ne + 1)..(ne + Len(ps) - 1) : tetra'[j].v = Global(k, ps[j - ne + 1].v)
  <2>1. PICK xs : xs = XPieces(k, ps, ftag)
    OBVIOUS
  <2>2. PICK keep : keep = Keep(xs)
    OBVIOUS
  <2>3. \A p, x : Piece(k, F, p, x).v = Global(k, p.v)
    <3>1. IsTetra(tetra[k])
      BY <1>1 DEF Tets, Tetrahedron
    <3> QED
      BY <3>1 DEF Piece, IsTetra
  <2>4. tetra' = [j \in 1..(ne + Len(ps) - 1) |->
                    IF j = k THEN Piece(k, F, ps[1], XtOf(k, keep, 1))
                    ELSE IF j <= ne THEN tetra[j]
                    ELSE Piece(k, F, ps[j - ne + 1], XtOf(k, keep, j - ne + 1))]
    BY <1>6, <2>1, <2>2, PastedMeans
  <2>5. k \in 1..(ne + Len(ps) - 1)
    BY <1>9, <1>11
  <2>6. tetra'[k] = Piece(k, F, ps[1], XtOf(k, keep, 1))
    BY <2>4, <2>5
  <2>7. ASSUME NEW j \in (ne + 1)..(ne + Len(ps) - 1) PROVE tetra'[j].v = Global(k, ps[j - ne + 1].v)
    <3>1. j \in 1..(ne + Len(ps) - 1) /\ j # k /\ ~(j <= ne)
      BY <1>9, <1>11
    <3>2. tetra'[j] = Piece(k, F, ps[j - ne + 1], XtOf(k, keep, j - ne + 1))
      BY <2>4, <3>1
    <3> QED
      BY <2>3, <3>2
  <2> QED
    BY <2>3, <2>6, <2>7
<1>22. ASSUME NEW j \in 1..(ne + Len(ps) - 1), j = k \/ j \notin 1..ne
       PROVE  DOMAIN X[j] = {1} /\ X[j][1] = VertexSet(tetra'[j].v)
  <2>1. j \notin T \ {k}
    BY <1>11, <1>16, <1>22
  <2>2. X[j] = <<VertexSet(tetra'[j].v)>>
    BY <1>10, <1>15, <2>1 DEF CellsWith
  <2> QED
    BY <2>2
<1>23. DOMAIN X[k] = {1} /\ X[k][1] = W[k][1]
  <2>1. k \in 1..(ne + Len(ps) - 1) /\ 1 \in 1..Len(ps)
    BY <1>9, <1>11
  <2> QED
    BY <1>20, <1>21, <1>22, <2>1
<1>24. \A j \in (ne + 1)..(ne + Len(ps) - 1) : DOMAIN X[j] = {1} /\ X[j][1] = W[k][j - ne + 1]
  <2> TAKE j \in (ne + 1)..(ne + Len(ps) - 1)
  <2>1. j \in 1..(ne + Len(ps) - 1) /\ j \notin 1..ne /\ j - ne + 1 \in 1..Len(ps)
    BY <1>9, <1>11
  <2> QED
    BY <1>20, <1>21, <1>22, <2>1
<1>25. OnHull' = OnHull
  BY <1>7 DEF OnHull, Origin
<1>26. CellsWith(Waiting)' = X /\ CellsWith(Waiting) = W
  <2>1. Waiting' = T \ {k} /\ Waiting = T
    BY <1>13, <1>14
  <2> QED
    BY <1>15, <2>1
<1> SUFFICES ASSUME ~broken PROVE MeshOf(X, OnHull)
  BY <1>7, <1>25, <1>26 DEF FacesIInv
<1>27. PICK B, n, m : B = OnHull /\ n = ne /\ m = Len(ps)
  OBVIOUS
<1>28. UnrolledAt(W, n, k, m, X)
  BY <1>9, <1>11, <1>17, <1>18, <1>20, <1>23, <1>24, <1>27 DEF UnrolledAt
<1>29. MeshOf(W, B)
  BY <1>26, <1>27 DEF FacesIInv
<1>30. MeshOf(X, B)
  BY <1>28, <1>29, Unrolled
<1> QED
  BY <1>27, <1>30

-------------------------------------------------------------------------------
(* The cuts begin.                                                         *)

(* The edges that have a point, and these points.                          *)
WithPoint == {s \in {Ends(k, e) : k \in DOMAIN tetra, e \in Edge} : s \in DOMAIN hash /\ hash[s] # -1}
PointOn   == [s \in WithPoint |-> hash[s]]

(* No edge of a required tetrahedron has one, so that the flag of a        *)
(* tetrahedron names all its edges that have.                              *)
LEMMA FlagsAgree ==
  ASSUME IInv, TagsIInv, ReqIInv, ~broken, NEW k \in DOMAIN tetra, k \in Pending
  PROVE  /\ tetra[k].req => FlagIn(tetra[k].v, PointOn) = {}
         /\ ~tetra[k].req => /\ FlagIn(tetra[k].v, PointOn) = FlagOf(k)
                             /\ \A e \in FlagOf(k) : Vx(k)[e] = PointOn[Ends(k, e)]
<1>1. stage # "done"
  BY DEF Pending
<1>2. /\ Limits /\ Points /\ Tets /\ OwnPoints /\ EdgeOrigins /\ ReqEnds(k) /\ ReqTags(k)
      /\ \A q \in DOMAIN point : NotRequired(q)
  BY <1>1 DEF IInv, Hashed, TagsIInv, ReqIInv
<1>3. ASSUME NEW e \in Edge PROVE e \in FlagIn(tetra[k].v, PointOn) <=> Ends(k, e) \in WithPoint
  BY DEF FlagIn, PointOn, EndsIn, Ends
<1>4. ASSUME NEW e \in Edge, Ends(k, e) \in WithPoint
      PROVE  ~tetra[k].req /\ e \in FlagOf(k) /\ Vx(k)[e] = PointOn[Ends(k, e)]
  <2>1. Ends(k, e) \in DOMAIN hash /\ hash[Ends(k, e)] # -1
    BY <1>4 DEF WithPoint
  <2>2. PICK q : q = hash[Ends(k, e)]
    OBVIOUS
  <2>3. q \in DOMAIN point /\ point[q].of = Origin(Ends(k, e))
    BY <1>2, <2>1, <2>2 DEF OwnPoints, EdgeOrigins
  <2>4. Origin(Ends(k, e)) \notin mesh.req
    BY <1>2, <2>3 DEF NotRequired
  <2>5. ~tetra[k].req /\ ~HasReqTag(k, e)
    BY <1>2, <2>4 DEF ReqEnds, ReqTags, HasReqTag
  <2>6. q \in 1..mesh.npmax /\ mesh.npmax \in Nat
    BY <1>2, <2>3 DEF Points, Limits
  <2>7. Vx(k)[e] = q
    BY <2>1, <2>2, <2>5 DEF Vx, HashGet
  <2>8. e \in FlagOf(k)
    BY <2>6, <2>7 DEF FlagOf
  <2> QED
    BY <1>4, <2>2, <2>5, <2>7, <2>8 DEF PointOn
<1>5. ASSUME NEW e \in FlagOf(k) PROVE e \in Edge /\ Ends(k, e) \in WithPoint
  <2>1. e \in Edge /\ Ends(k, e) \in DOMAIN hash /\ Vx(k)[e] = hash[Ends(k, e)] /\ Vx(k)[e] > 0
    BY VxPoints
  <2>2. hash[Ends(k, e)] # -1
    BY <2>1
  <2> QED
    BY <2>1, <2>2 DEF WithPoint
<1>6. FlagIn(tetra[k].v, PointOn) \subseteq Edge
  BY DEF FlagIn
<1>7. tetra[k].req => FlagIn(tetra[k].v, PointOn) = {}
  BY <1>3, <1>4, <1>6
<1>8. \A e : e \in FlagIn(tetra[k].v, PointOn) => e \in FlagOf(k)
  BY <1>3, <1>4, <1>6
<1>9. \A e : e \in FlagOf(k) => e \in FlagIn(tetra[k].v, PointOn) /\ Vx(k)[e] = PointOn[Ends(k, e)]
  BY <1>3, <1>4, <1>5
<1>10. FlagIn(tetra[k].v, PointOn) = FlagOf(k) \/ \E e \in FlagIn(tetra[k].v, PointOn) : e \notin FlagOf(k)
  BY <1>9
<1> QED
  BY <1>7, <1>8, <1>9, <1>10

(* The vertices and the points differ.                                     *)
LEMMA SoundAt ==
  ASSUME IInv, NEW k \in DOMAIN tetra, k \in Pending
  PROVE  Sound(tetra[k].v, PointOn)
<1>1. stage # "done"
  BY DEF Pending
<1>2. Limits /\ Points /\ Tets /\ OwnPoints /\ Apart
  BY <1>1 DEF IInv, Hashed
<1>3. PICK v : v = tetra[k].v
  OBVIOUS
<1>4. v \in [Local -> DOMAIN point] /\ IsInjective(v)
  BY <1>2, <1>3 DEF Tets, Tetrahedron
<1>5. DOMAIN point \subseteq Nat
  BY <1>2 DEF Points, Limits
<1>6. v \in [Local -> Nat] /\ \A i, j \in Local : v[i] = v[j] => i = j
  BY <1>4, <1>5 DEF IsInjective
<1>7. ASSUME NEW l \in DOMAIN tetra, NEW e \in Edge PROVE \E a, b \in Ends(l, e) : a # b
  <2>1. PICK i, j : i \in iare[e] /\ j \in iare[e] /\ i # j
    <3>1. /\ iare[0] = {0, 1} /\ iare[1] = {0, 2} /\ iare[2] = {0, 3}
          /\ iare[3] = {1, 2} /\ iare[4] = {1, 3} /\ iare[5] = {2, 3}
      BY DEF iare, Array
    <3>2. e = 0 \/ e = 1 \/ e = 2 \/ e = 3 \/ e = 4 \/ e = 5
      BY DEF Edge
    <3> HIDE DEF iare
    <3> QED
      BY <3>1, <3>2
  <2>2. i \in Local /\ j \in Local
    BY <2>1, EdgesIn
  <2>3. tetra[l].v[i] # tetra[l].v[j]
    BY <1>2, <2>1, <2>2 DEF Tets, Tetrahedron, IsInjective
  <2> QED
    BY <2>1, <2>3 DEF Ends
<1>8. \A s \in WithPoint : \E a, b \in s : a # b
  BY <1>7 DEF WithPoint
<1>9. DOMAIN PointOn = WithPoint /\ \A s \in WithPoint : PointOn[s] = hash[s]
  BY DEF PointOn
<1>10. \A i \in Local : {v[i]} \notin DOMAIN PointOn
  BY <1>8, <1>9
<1>11. \A d, e \in DOMAIN PointOn : PointOn[d] = PointOn[e] => d = e
  BY <1>2, <1>9 DEF WithPoint, OwnPoints
<1>12. ASSUME NEW i \in Local, NEW e \in DOMAIN PointOn PROVE PointOn[e] # v[i]
  <2>1. PointOn[e] \in NewPts
    BY <1>9 DEF WithPoint, NewPts
  <2>2. v[i] \in Corner(k)
    BY <1>3 DEF Corner
  <2> QED
    BY <1>2, <2>1, <2>2 DEF Apart
<1> QED
  BY <1>3, <1>6, <1>10, <1>11, <1>12 DEF Sound

(* A piece in both views.                                                  *)
LEMMA PieceImage ==
  ASSUME IInv, TagsIInv, ReqIInv, ~broken, NEW k \in DOMAIN tetra, k \in Pending, ~tetra[k].req,
         NEW F, F = FlagOf(k), F # {},
         NEW ps, ps = Split(Bits(F), tetra[k].v), NEW i \in DOMAIN ps,
         NEW G, G = Global(k, ps[i].v), NEW y, y = Placing(tetra[k].v, PointOn)
  PROVE  PieceIs(y, ps[i], G)
<1>1. F \in SUBSET Edge
  BY DEF FlagOf
<1>2. PICK u : u = ps[i].v
  OBVIOUS
<1>3. u \in [Local -> Local \union {m0 + e : e \in F}]
  BY <1>1, <1>2, SplitUses
<1>4. ASSUME NEW x \in Local PROVE y[u[x]] = G[x]
  <2>1. G[x] = IF u[x] < m0 THEN tetra[k].v[u[x]] ELSE Vx(k)[u[x] - m0]
    BY <1>2 DEF Global
  <2>2. CASE u[x] \in Local
    <3>1. u[x] < m0 /\ u[x] \in 0..9
      BY <2>2 DEF Local, m0
    <3>2. y[u[x]] = tetra[k].v[u[x]]
      BY <3>1 DEF Placing
    <3> QED
      BY <2>1, <3>1, <3>2
  <2>3. CASE u[x] \notin Local
    <3>1. PICK e \in F : u[x] = m0 + e
      BY <1>3, <2>3
    <3>2. PICK w : w = u[x]
      OBVIOUS
    <3>3. ~(w < m0) /\ w \in 0..9 /\ w - m0 = e
      <4>1. e \in 0..5
        BY <1>1 DEF Edge
      <4> QED
        BY <3>1, <3>2, <4>1 DEF m0
    <3>4. y[w] = PointOn[EndsIn(tetra[k].v, e)]
      BY <3>3 DEF Placing
    <3>5. EndsIn(tetra[k].v, e) = Ends(k, e)
      BY DEF EndsIn, Ends
    <3>6. Vx(k)[e] = PointOn[Ends(k, e)]
      BY FlagsAgree
    <3> QED
      BY <2>1, <3>2, <3>3, <3>4, <3>5, <3>6
  <2> QED
    BY <2>2, <2>3
<1>5. \A J \in SUBSET Local : Image(y, {u[x] : x \in J}) = {G[x] : x \in J}
  BY <1>4 DEF Image
<1>6. CornersOf(ps[i]) = {u[x] : x \in Local} /\ VertexSet(G) = {G[x] : x \in Local}
  BY <1>2 DEF CornersOf, VertexSet
<1>7. \A f \in Local : FaceOf(ps[i], f) = {u[x] : x \in Local \ {f}}
  BY <1>2 DEF FaceOf
<1> QED
  BY <1>5, <1>6, <1>7 DEF PieceIs

(* What lies in a face of the hull: of a set of vertices, when what they   *)
(* come from does.                                                         *)
LEMMA InHull ==
  ASSUME NEW G \in [Local -> DOMAIN point], NEW J \in SUBSET Local
  PROVE  {G[x] : x \in J} \in OnHull <=> \E h \in mesh.hull : Gather(point, G, J) \subseteq h
<1>1. {G[x] : x \in J} \in SUBSET DOMAIN point
  OBVIOUS
<1>2. Origin({G[x] : x \in J}) = Gather(point, G, J)
  BY DEF Origin, Gather
<1> QED
  BY <1>1, <1>2 DEF OnHull

LEMMA PieceHull ==
  ASSUME IInv, TagsIInv, ReqIInv, ~broken, NEW k \in DOMAIN tetra, k \in Pending, ~tetra[k].req,
         NEW F, F = FlagOf(k), F # {},
         NEW ps, ps = Split(Bits(F), tetra[k].v), NEW i \in DOMAIN ps, NEW f \in Local,
         NEW v, v = tetra[k].v
  PROVE  Image(Placing(v, PointOn), FaceOf(ps[i], f)) \in OnHull
            <=> f \notin ps[i].reset /\ VertexSet(v) \ {v[f]} \in OnHull
<1>1. stage # "done"
  BY DEF Pending
<1>2. /\ Limits /\ Points /\ Tets /\ OwnPoints /\ Apart /\ EdgeOrigins /\ SmallSets
      /\ Spread(k) /\ MeshSets
  BY <1>1 DEF IInv, Hashed, TagsIInv, WellTagged, ReqIInv
<1>3. PICK p, G : p = ps[i] /\ G = Global(k, p.v)
  OBVIOUS
<1>4. Gathers(k, p.v, G)
  BY <1>2, <1>3, PieceGathers
<1>5. G \in [Local -> DOMAIN point]
  BY <1>4 DEF Gathers
<1>6. RootedAt(p, f)
  <2>1. F \in SUBSET Edge
    BY DEF FlagOf
  <2> QED
    BY <1>3, <2>1, SplitFaces
<1>7. Image(Placing(v, PointOn), FaceOf(p, f)) = {G[x] : x \in Local \ {f}}
  <2>1. PICK y : y = Placing(tetra[k].v, PointOn)
    OBVIOUS
  <2>2. G = Global(k, ps[i].v)
    BY <1>3
  <2>3. PieceIs(y, ps[i], G)
    BY <2>1, <2>2, PieceImage
  <2> QED
    BY <1>3, <2>1, <2>3 DEF PieceIs
<1>8. Gather(point, G, Local \ {f}) = Gather(point, v, RootsOf(p.v, Local \ {f}))
  BY <1>4 DEF Gathers
<1>9. v \in [Local -> DOMAIN point] /\ IsInjective(v)
  BY <1>2 DEF Tets, Tetrahedron
<1>10. VertexSet(v) \ {v[f]} = {v[x] : x \in Local \ {f}}
  BY <1>9 DEF VertexSet, IsInjective
<1>11. \A J \in SUBSET Local : /\ {G[x] : x \in J} \in OnHull <=> \E h \in mesh.hull : Gather(point, G, J) \subseteq h
                               /\ {v[x] : x \in J} \in OnHull <=> \E h \in mesh.hull : Gather(point, v, J) \subseteq h
  BY <1>5, <1>9, InHull
<1>12. CASE f \notin p.reset
  <2>1. RootsOf(p.v, Local \ {f}) = Local \ {f}
    BY <1>6, <1>12 DEF RootedAt
  <2>2. PICK J : J = Local \ {f}
    OBVIOUS
  <2>3. {G[x] : x \in J} \in OnHull <=> {v[x] : x \in J} \in OnHull
    BY <1>8, <1>11, <2>1, <2>2
  <2> QED
    BY <1>3, <1>7, <1>10, <1>12, <2>2, <2>3
<1>13. CASE f \in p.reset
  <2>1. RootsOf(p.v, Local \ {f}) = Local
    BY <1>6, <1>13 DEF RootedAt
  <2>2. ASSUME NEW h \in mesh.hull, Gather(point, G, Local \ {f}) \subseteq h PROVE FALSE
    <3>1. PICK r \in [Local -> Origin(Corner(k))] : IsInjective(r)
      BY <1>2 DEF Spread
    <3>2. Origin(Corner(k)) = Gather(point, v, Local)
      BY <1>2, TetraGathers
    <3>3. Origin(Corner(k)) \subseteq h
      BY <1>8, <2>1, <2>2, <3>2
    <3>4. r \in [Local -> h]
      BY <3>1, <3>3
    <3>5. h \in mesh.bdy
      BY <1>2 DEF MeshSets
    <3> QED
      BY <1>2, <3>1, <3>4, <3>5 DEF SmallSets
  <2> QED
    BY <1>3, <1>7, <1>11, <1>13, <2>2
<1> QED
  BY <1>12, <1>13

-------------------------------------------------------------------------------
(* The cuts begin with the pieces that they will make.                     *)
LEMMA StartFaces ==
  ASSUME IInv, TagsIInv, ReqIInv, ~broken, stage \in {"check", "sim"},
         \A k \in DOMAIN tetra : ~tetra[k].req => CutFlag(k) = FlagOf(k),
         NEW T, T = {k \in DOMAIN tetra : ~tetra[k].req /\ FlagOf(k) # {}},
         MeshOf(CellsWith({}), OnHull)
  PROVE  MeshOf(CellsWith(T), OnHull)
<1>1. Tets /\ Pending = DOMAIN tetra
  BY DEF IInv, Pending
<1>2. PICK M, V, H, PS : /\ M = DOMAIN tetra /\ V = [k \in M |-> tetra[k].v] /\ H = PointOn
                         /\ PS = [k \in M |-> IF k \in T THEN Parts(k) ELSE WholePiece]
  OBVIOUS
<1>3. PICK W, Y, D, B : /\ W = CellsWith(T) /\ Y = Cells(W) /\ D = [c \in Y |-> W[c[1]][c[2]]]
                        /\ B = OnHull
  OBVIOUS
<1>4. \A k \in M : V[k] = tetra[k].v /\ V[k] \in [Local -> DOMAIN point] /\ IsInjective(V[k])
  BY <1>1, <1>2 DEF Tets, Tetrahedron
<1>5. Conforming(M, [k \in M |-> VertexSet(V[k])], B)
  <2>1. PICK W0, C : W0 = CellsWith({}) /\ C = [k \in M |-> VertexSet(V[k])]
    OBVIOUS
  <2>2. DOMAIN W0 = M /\ \A k \in M : W0[k] = <<VertexSet(V[k])>>
    BY <1>2, <2>1 DEF CellsWith
  <2>3. \A k \in DOMAIN W0 : DOMAIN W0[k] = {1} /\ W0[k][1] = C[k]
    <3> TAKE k \in DOMAIN W0
    <3>1. PICK S : S = VertexSet(V[k])
      OBVIOUS
    <3>2. W0[k] = <<S>>
      BY <2>2, <3>1
    <3>3. C[k] = S
      BY <2>1, <2>2, <3>1
    <3> QED
      BY <3>2, <3>3
  <2>4. MeshOf(W0, B) <=> Conforming(DOMAIN W0, [k \in DOMAIN W0 |-> C[k]], B)
    BY <2>3, Singles
  <2>5. [k \in M |-> C[k]] = C
    BY <2>1
  <2> QED
    BY <1>3, <2>1, <2>2, <2>4, <2>5
<1>6. ASSUME NEW k \in M
      PROVE  /\ Sound(V[k], H) /\ WellCut(PS[k], FlagIn(V[k], H), V[k])
             /\ DOMAIN W[k] = DOMAIN PS[k]
             /\ \A i \in DOMAIN PS[k] : W[k][i] = CellOf(V, H, PS, k, i)
             /\ \A i \in DOMAIN PS[k], f \in Local :
                   FaceOfCell(V, H, PS, k, i, f) \in B
                      <=> f \notin PS[k][i].reset /\ VertexSet(V[k]) \ {V[k][f]} \in B
  <2>1. k \in DOMAIN tetra /\ k \in Pending /\ V[k] = tetra[k].v
    BY <1>1, <1>2
  <2>2. PICK v : v = V[k] /\ v = tetra[k].v
    BY <2>1
  <2>3. Sound(v, H)
    BY <1>2, <2>1, <2>2, SoundAt
  <2>4. v \in [Local -> Nat] /\ \A i, j \in Local : v[i] = v[j] => i = j
    BY <2>3 DEF Sound
  <2>5. CASE k \in T
    <3>1. PICK F : F = FlagOf(k) /\ F # {} /\ ~tetra[k].req /\ F = CutFlag(k)
      BY <2>1, <2>5
    <3>2. PICK ps : ps = Split(Bits(F), v) /\ ps = Parts(k)
      BY <2>2, <3>1 DEF Parts
    <3>3. PS[k] = ps
      BY <1>2, <2>5, <3>2
    <3>4. F \in SUBSET Edge
      BY <3>1 DEF FlagOf
    <3>5. FlagIn(v, H) = F
      BY <1>2, <2>1, <2>2, <3>1, FlagsAgree
    <3>6. WellCut(ps, F, v)
      BY <2>4, <3>1, <3>2, <3>4, SplitIsWellCut
    <3>7. W[k] = PieceCells(k)
      BY <1>3, <2>1, <2>5 DEF CellsWith
    <3>8. DOMAIN W[k] = DOMAIN ps /\ \A i \in DOMAIN ps : W[k][i] = VertexSet(Global(k, ps[i].v))
      BY <3>2, <3>7 DEF PieceCells
    <3>9. ASSUME NEW i \in DOMAIN ps PROVE W[k][i] = CellOf(V, H, PS, k, i)
      <4>1. PICK G, y : G = Global(k, ps[i].v) /\ y = Placing(tetra[k].v, PointOn)
        OBVIOUS
      <4>2. PieceIs(y, ps[i], G)
        BY <2>1, <2>2, <3>1, <3>2, <4>1, PieceImage
      <4>3. Image(y, CornersOf(ps[i])) = VertexSet(G)
        BY <4>2 DEF PieceIs
      <4> QED
        BY <1>2, <2>1, <3>3, <3>8, <4>1, <4>3 DEF CellOf
    <3>10. ASSUME NEW i \in DOMAIN ps, NEW f \in Local
           PROVE  FaceOfCell(V, H, PS, k, i, f) \in B
                     <=> f \notin ps[i].reset /\ VertexSet(v) \ {v[f]} \in B
      <4>1. Image(Placing(v, PointOn), FaceOf(ps[i], f)) \in OnHull
               <=> f \notin ps[i].reset /\ VertexSet(v) \ {v[f]} \in OnHull
        BY <2>1, <2>2, <3>1, <3>2, PieceHull
      <4> QED
        BY <1>2, <1>3, <2>2, <3>3, <4>1 DEF FaceOfCell
    <3> QED
      BY <2>2, <2>3, <3>3, <3>5, <3>6, <3>8, <3>9, <3>10
  <2>6. CASE k \notin T
    <3>1. PS[k] = WholePiece /\ W[k] = <<VertexSet(v)>>
      BY <1>2, <1>3, <2>1, <2>2, <2>6 DEF CellsWith
    <3>2. FlagIn(v, H) = {}
      BY <1>2, <2>1, <2>2, <2>6, FlagsAgree
    <3>3. WellCut(WholePiece, {}, v)
      BY WholeIsWellCut
    <3>4. PICK y : y = Placing(v, H)
      OBVIOUS
    <3>5. DOMAIN WholePiece = {1} /\ WholePiece[1].reset = {} /\ PieceIs(y, WholePiece[1], v)
      BY <3>4, WholeImage
    <3>6. Image(y, CornersOf(WholePiece[1])) = VertexSet(v)
      BY <3>5 DEF PieceIs
    <3>7. DOMAIN W[k] = {1} /\ W[k][1] = CellOf(V, H, PS, k, 1)
      BY <2>2, <3>1, <3>4, <3>6 DEF CellOf
    <3>8. ASSUME NEW f \in Local PROVE FaceOfCell(V, H, PS, k, 1, f) = VertexSet(v) \ {v[f]}
      <4>1. Image(y, FaceOf(WholePiece[1], f)) = {v[x] : x \in Local \ {f}}
        BY <3>5 DEF PieceIs
      <4>2. VertexSet(v) \ {v[f]} = {v[x] : x \in Local \ {f}}
        BY <2>4 DEF VertexSet
      <4> QED
        BY <2>2, <3>1, <3>4, <4>1, <4>2 DEF FaceOfCell
    <3> QED
      BY <2>2, <2>3, <3>1, <3>2, <3>3, <3>5, <3>7, <3>8
  <2> QED
    BY <2>5, <2>6
<1>7. AllCut(M, V, H, PS)
  BY <1>6 DEF AllCut
<1>8. HullCut(M, V, H, PS, B, B)
  BY <1>6 DEF HullCut
<1>9. PICK own, part : own = [c \in Y |-> c[1]] /\ part = [c \in Y |-> c[2]]
  OBVIOUS
<1>10. DOMAIN W = M
  BY <1>2, <1>3 DEF CellsWith
<1>15. /\ \A c \in Y : c = <<c[1], c[2]>> /\ c[1] \in DOMAIN W /\ c[2] \in DOMAIN W[c[1]]
       /\ \A k \in DOMAIN W : \A i \in DOMAIN W[k] : <<k, i>> \in Y
  BY <1>3, CellsAre
<1>16. ASSUME NEW c \in Y
       PROVE  c = <<own[c], part[c]>> /\ own[c] \in M /\ part[c] \in DOMAIN PS[own[c]]
  <2>1. PICK k, i : k = c[1] /\ i = c[2]
    OBVIOUS
  <2>2. c = <<k, i>> /\ k \in M /\ i \in DOMAIN W[k]
    BY <1>10, <1>15, <2>1
  <2>3. own[c] = k /\ part[c] = i
    BY <1>9, <2>1
  <2>4. DOMAIN W[k] = DOMAIN PS[k]
    BY <1>6, <2>2
  <2> QED
    BY <2>2, <2>3, <2>4
<1>17. ASSUME NEW k \in M, NEW i \in DOMAIN PS[k]
       PROVE  <<k, i>> \in Y /\ own[<<k, i>>] = k /\ part[<<k, i>>] = i
  <2>1. DOMAIN W[k] = DOMAIN PS[k]
    BY <1>6
  <2>2. <<k, i>> \in Y
    BY <1>10, <1>15, <2>1
  <2> QED
    BY <1>9, <2>2
<1>11. /\ \A c \in Y : c = <<own[c], part[c]>> /\ own[c] \in M /\ part[c] \in DOMAIN PS[own[c]]
       /\ \A k \in M : \A i \in DOMAIN PS[k] : <<k, i>> \in Y
  BY <1>16, <1>17
<1>12. Subdivided(M, PS, Y, own, part)
  BY <1>16, <1>17 DEF Subdivided
<1>13. \A c \in Y : D[c] = CellOf(V, H, PS, own[c], part[c])
  BY <1>3, <1>6, <1>9, <1>11
<1>14. Conforming(Y, D, B)
  BY <1>5, <1>7, <1>8, <1>12, <1>13, CutsFit
<1> QED
  BY <1>3, <1>14 DEF MeshOf

(* When nothing that the pieces depend on changes, they stay.              *)
LEMMA SameMeshCells ==
  ASSUME SameMesh, hash' = hash, call' = call, NEW T
  PROVE  CellsWith(T)' = CellsWith(T) /\ \A k : CutFlag(k)' = CutFlag(k)
<1>1. ASSUME NEW k PROVE CutFlag(k)' = CutFlag(k) /\ PieceCells(k)' = PieceCells(k)
  <2>1. /\ SameTetra(k) /\ tetra'[k].flag = tetra[k].flag
        /\ tetra[k].xt # 0 => xtetra'[tetra[k].xt] = xtetra[tetra[k].xt]
    BY DEF SameMesh, SameTetra
  <2> QED
    BY <2>1, SamePieces DEF SameMesh
<1>2. tetra' = tetra
  BY DEF SameMesh
<1>3. CellsWith(T)' = CellsWith(T)
  BY <1>1, <1>2 DEF CellsWith
<1> QED
  BY <1>1, <1>3

(* GoOn and the last SweepEnd.                                             *)
LEMMA BeginFaces ==
  ASSUME IInv, IInv', TagsIInv, ReqIInv, FacesIInv, stage \in {"check", "sim"}, stage' = "cut",
         at' = 1, last' = ne, SameMesh, UNCHANGED <<point, hash, call, broken>>
  PROVE  FacesIInv'
<1>1. ne \in Nat /\ DOMAIN tetra = 1..ne
  BY Numbers DEF IInv
<1>2. \A k : FlagOf(k)' = FlagOf(k)
  BY SameMeshVx
<1>3. \A k : CutFlag(k)' = CutFlag(k)
  BY SameMeshCells
<1>4. ASSUME NEW k \in DOMAIN tetra, ~tetra[k].req PROVE CutFlag(k) = FlagOf(k)
  <2>1. CASE wave = "surf"
    <3>1. Cutting'
      BY DEF IInv, Flags
    <3>2. k \in at'..last' /\ wave' = "surf" /\ ~tetra'[k].req
      BY <1>1, <1>4, <2>1 DEF SameMesh, wave
    <3>3. tetra'[k].flag = FlagOf(k)'
      BY <3>1, <3>2 DEF Cutting, UpToDate
    <3> QED
      BY <1>2, <2>1, <3>3 DEF SameMesh, CutFlag
  <2>2. CASE wave # "surf"
    BY <2>2 DEF CutFlag
  <2> QED
    BY <2>1, <2>2
<1>5. PICK T : T = {k \in DOMAIN tetra : ~tetra[k].req /\ FlagOf(k) # {}}
  OBVIOUS
<1>6. Waiting' = T
  <2>1. ToCut' = {k \in at'..last' : ~tetra'[k].req /\ CutFlag(k)' # {}}
    BY DEF ToCut
  <2>2. ToCut' = {k \in DOMAIN tetra : ~tetra[k].req /\ CutFlag(k) # {}}
    BY <1>1, <1>3, <2>1 DEF SameMesh
  <2>3. ToCut' = T
    BY <1>4, <1>5, <2>2
  <2> QED
    BY <2>3 DEF Waiting
<1>7. Waiting = {}
  BY DEF Waiting
<1>8. CellsWith(Waiting)' = CellsWith(T)
  <2>1. CellsWith(T)' = CellsWith(T)
    BY SameMeshCells
  <2> QED
    BY <1>6, <2>1
<1>9. OnHull' = OnHull
  BY DEF OnHull, Origin, SameMesh
<1> SUFFICES ASSUME ~broken PROVE MeshOf(CellsWith(T), OnHull)
  BY <1>8, <1>9 DEF FacesIInv
<1>10. MeshOf(CellsWith({}), OnHull)
  BY <1>7 DEF FacesIInv
<1> QED
  BY <1>4, <1>5, <1>10, StartFaces

-------------------------------------------------------------------------------
(* The initial meshes conform.                                             *)
LEMMA AtMostTwo ==
  ASSUME NEW S, IsFiniteSet(S), Cardinality(S) <= 2, NEW k \in S
  PROVE  IF Cardinality(S) = 1 THEN S = {k} ELSE \E z \in S : z # k /\ S = {k, z}
<1>1. PICK R : R = S \ {k}
  OBVIOUS
<1>2. Cardinality(S) \in Nat /\ IsFiniteSet(R) /\ Cardinality(R) = Cardinality(S) - 1
  BY <1>1, FS_CardinalityType, FS_RemoveElement
<1>3. Cardinality(R) \in Nat
  BY <1>2, FS_CardinalityType
<1>4. CASE Cardinality(S) = 1
  <2>1. Cardinality(R) = 0
    BY <1>2, <1>4
  <2>2. R = {}
    BY <1>2, <2>1, FS_EmptySet
  <2> QED
    BY <1>1, <1>4, <2>2
<1>5. CASE Cardinality(S) # 1
  <2>1. Cardinality(R) = 1
    BY <1>2, <1>3, <1>5
  <2>2. PICK z : R = {z}
    BY <1>2, <2>1, FS_Singleton
  <2>3. z \in S /\ z # k /\ S = {k, z}
    BY <1>1, <2>2
  <2> QED
    BY <1>5, <2>3
<1> QED
  BY <1>4, <1>5

LEMMA ThreeOfFour ==
  ASSUME NEW S, IsFiniteSet(S), Cardinality(S) = 4, NEW q \in S
  PROVE  S \ {q} \in kSubset(3, S)
<1>1. Cardinality(S \ {q}) = 3
  BY FS_RemoveElement
<1> QED
  BY <1>1 DEF kSubset

LEMMA MeshConforms ==
  ASSUME NEW m \in Meshes, IsFiniteSet(DOMAIN m.tets),
         \A k \in DOMAIN m.tets : IsFiniteSet(Corners(m, k)) /\ Cardinality(Corners(m, k)) = 4,
         NEW M, M = DOMAIN m.tets, NEW C, \A k \in M : C[k] = Corners(m, k),
         NEW B, \A f \in FacesIn(m) : f \in B <=> f \in HullFaces(m)
  PROVE  Conforming(M, C, B)
<1>1. /\ \A j, k \in DOMAIN m.tets : Corners(m, j) = Corners(m, k) => j = k
      /\ \A f \in FacesIn(m) : Cardinality(Around(m, f)) <= 2
  BY ConformingAssumption
<1>2. ASSUME NEW x \in M, NEW y \in M, C[x] \subseteq C[y] PROVE x = y
  <2>1. PICK s, t : s = Corners(m, x) /\ t = Corners(m, y)
    OBVIOUS
  <2>2. s \in SUBSET t /\ IsFiniteSet(t) /\ Cardinality(s) = Cardinality(t)
    BY <1>2, <2>1
  <2>3. s = t
    BY <2>2, FS_Subset
  <2> QED
    BY <1>1, <2>1, <2>3
<1>3. ASSUME NEW x \in M, NEW q \in C[x] PROVE MeetsAt(M, C, B, x, C[x] \ {q})
  <2>1. PICK f : f = C[x] \ {q}
    OBVIOUS
  <2>2. f \in kSubset(3, Corners(m, x))
    BY <1>3, <2>1, ThreeOfFour
  <2>3. f \in FacesIn(m)
    BY <2>2 DEF FacesIn
  <2>4. PICK S : S = Around(m, f)
    OBVIOUS
  <2>5. \A k \in M : k \in S <=> f \subseteq C[k]
    BY <2>4 DEF Around
  <2>6. S \subseteq M /\ x \in S
    BY <2>1, <2>4, <2>5 DEF Around
  <2>7. IsFiniteSet(S) /\ Cardinality(S) <= 2
    BY <1>1, <2>3, <2>4, <2>6, FS_Subset
  <2>8. IF Cardinality(S) = 1 THEN S = {x} ELSE \E z \in S : z # x /\ S = {x, z}
    BY <2>6, <2>7, AtMostTwo
  <2>9. f \in B <=> Cardinality(S) = 1
    BY <2>3, <2>4 DEF HullFaces
  <2>10. CASE f \in B
    <3>1. S = {x}
      BY <2>8, <2>9, <2>10
    <3>2. FaceHas(M, C, f, x, x)
      BY <2>5, <3>1 DEF FaceHas
    <3> QED
      BY <2>1, <2>10, <3>2 DEF MeetsAt
  <2>11. CASE f \notin B
    <3>1. PICK z \in S : z # x /\ S = {x, z}
      BY <2>8, <2>9, <2>11
    <3>2. z \in M /\ FaceHas(M, C, f, x, z)
      BY <2>5, <2>6, <3>1 DEF FaceHas
    <3> QED
      BY <2>1, <2>11, <3>1, <3>2 DEF MeetsAt
  <2> QED
    BY <2>10, <2>11
<1> QED
  BY <1>2, <1>3 DEF Conforming

(* A mesh of whole tetrahedra.                                             *)
LEMMA WholeCells ==
  MeshOf(CellsWith({}), OnHull)
     <=> Conforming(DOMAIN tetra, [k \in DOMAIN tetra |-> VertexSet(tetra[k].v)], OnHull)
<1>1. PICK W, B, M, C : /\ W = CellsWith({}) /\ B = OnHull /\ M = DOMAIN tetra
                        /\ C = [k \in M |-> VertexSet(tetra[k].v)]
  OBVIOUS
<1>2. DOMAIN W = M /\ \A k \in M : W[k] = <<VertexSet(tetra[k].v)>>
  BY <1>1 DEF CellsWith
<1>3. \A k \in DOMAIN W : DOMAIN W[k] = {1} /\ W[k][1] = C[k]
  <2> TAKE k \in DOMAIN W
  <2>1. PICK S : S = VertexSet(tetra[k].v)
    OBVIOUS
  <2>2. W[k] = <<S>>
    BY <1>2, <2>1
  <2>3. C[k] = S
    BY <1>1, <1>2, <2>1
  <2> QED
    BY <2>2, <2>3
<1>4. MeshOf(W, B) <=> Conforming(DOMAIN W, [k \in DOMAIN W |-> C[k]], B)
  BY <1>3, Singles
<1>5. [k \in M |-> C[k]] = C
  BY <1>1
<1> QED
  BY <1>1, <1>2, <1>4, <1>5

LEMMA InitFaces ==
  ASSUME Init
  PROVE  FacesIInv
<1>1. PICK m \in Meshes : mesh = Analysed(m)
  BY DEF Init
<1>2. mesh.tets = m.tets /\ mesh.hull = HullFaces(m)
  BY <1>1 DEF Analysed
<1>3. \A k \in DOMAIN m.tets : IsFiniteSet(Corners(m, k)) /\ Cardinality(Corners(m, k)) = 4
  <2> TAKE k \in DOMAIN m.tets
  <2>1. IsTuple(m.tets[k]) /\ IsInjective(m.tets[k]) /\ Len(m.tets[k]) = 4
    BY <1>2, InitialMesh
  <2> QED
    BY <2>1, ListSize DEF Corners
<1>4. IsFiniteSet(DOMAIN m.tets) /\ DOMAIN tetra = DOMAIN m.tets
  <2>1. PICK n \in Nat : DOMAIN m.tets = 1..n
    BY <1>2, InitialMesh
  <2> QED
    BY <1>2, <2>1, FiniteUpTo DEF Init
<1>5. PICK C : C = [k \in DOMAIN tetra |-> VertexSet(tetra[k].v)]
  OBVIOUS
<1>6. \A k \in DOMAIN m.tets : C[k] = Corners(m, k)
  <2> TAKE k \in DOMAIN m.tets
  <2>1. Corner(k) = Corners(mesh, k)
    BY <1>2, InitialOrigins
  <2> QED
    BY <1>2, <1>4, <1>5, <2>1 DEF Corner, VertexSet, Corners
<1>7. ASSUME NEW f \in FacesIn(m) PROVE f \in OnHull <=> f \in HullFaces(m)
  <2>1. PICK k \in DOMAIN m.tets : f \in kSubset(3, Corners(m, k))
    BY <1>7 DEF FacesIn
  <2>2. f \subseteq Corners(m, k) /\ Cardinality(f) = 3
    BY <2>1 DEF kSubset
  <2>3. f \subseteq Corner(k) /\ Corner(k) \subseteq DOMAIN point /\ Origin(f) = f
    <3>1. Corner(k) = Corners(m, k)
      BY <1>2, InitialOrigins DEF Corners
    <3> QED
      BY <1>2, <2>2, <3>1, InitialOrigins
  <2>4. ASSUME NEW h \in HullFaces(m), f \subseteq h PROVE f = h
    <3>1. PICK j \in DOMAIN m.tets : h \in kSubset(3, Corners(m, j))
      BY DEF HullFaces, FacesIn
    <3>2. h \in SUBSET Corners(m, j) /\ Cardinality(h) = 3
      BY <3>1 DEF kSubset
    <3>3. IsFiniteSet(h)
      BY <1>3, <3>2, FS_Subset
    <3> QED
      BY <2>2, <2>4, <3>2, <3>3, FS_Subset
  <2>5. f \in OnHull <=> \E h \in HullFaces(m) : f \subseteq h
    BY <1>2, <2>3 DEF OnHull
  <2> QED
    BY <2>4, <2>5
<1>8. PICK B : B = OnHull
  OBVIOUS
<1>9. Conforming(DOMAIN m.tets, C, B)
  BY <1>3, <1>4, <1>6, <1>7, <1>8, MeshConforms
<1>10. Waiting = {}
  BY DEF Init, Waiting
<1>11. MeshOf(CellsWith({}), OnHull)
  BY <1>4, <1>5, <1>8, <1>9, WholeCells
<1> QED
  BY <1>10, <1>11 DEF FacesIInv

(* The steps.                                                              *)
LEMMA CreateFaces ==
  ASSUME IInv, IInv', FacesIInv, NEW p, Create(p), SameMesh, broken' = broken, stage' # "cut"
  PROVE  FacesIInv'
<1>0. PICK q0, E : q0 = Head(free) /\ E = EdgeAt(p)
  OBVIOUS
<1>1. stage = "mark" /\ point' = With(point, q0, NewPoint(E, wave = "surf"))
  BY <1>0 DEF Create
<1>2. q0 \notin DOMAIN point
  BY <1>0, CreateKeeps
<1>3. PICK new : new = NewPoint(E, wave = "surf")
  OBVIOUS
<1>4. \A q \in DOMAIN point : point'[q] = point[q]
  BY <1>1, <1>2, <1>3 DEF With
<1>5. SameTags
  BY <1>1, <1>4 DEF SameTags, SamePoints, SameAt, SameMesh
<1>6. Waiting = {} /\ Waiting' = {}
  BY <1>1 DEF Waiting
<1> QED
  BY <1>1, <1>5, <1>6, SteadyFaces

LEMMA QuietFaces ==
  ASSUME IInv, IInv', TagsIInv, ReqIInv, FacesIInv, Quiet
  PROVE  FacesIInv'
<1>1. SameTags /\ broken' = broken
  BY QuietSteps DEF SameReq
<1>2. CASE UNCHANGED vars
  <2>1. SameMesh /\ hash' = hash /\ call' = call /\ point' = point /\ stage' = stage
        /\ at' = at /\ last' = last
    BY <1>2 DEF vars, SameMesh
  <2>2. \A k : CutFlag(k)' = CutFlag(k)
    BY <2>1, SameMeshCells
  <2>3. ToCut' = ToCut
    BY <2>1, <2>2 DEF ToCut, SameMesh
  <2>4. Waiting' = Waiting
    BY <2>1, <2>3 DEF Waiting
  <2>5. PICK T : T = Waiting
    OBVIOUS
  <2>6. CellsWith(T)' = CellsWith(T)
    BY <2>1, SameMeshCells
  <2>7. CellsWith(Waiting)' = CellsWith(Waiting)
    BY <2>4, <2>5, <2>6
  <2>8. OnHull' = OnHull
    BY <2>1 DEF OnHull, Origin, SameMesh
  <2> QED
    BY <1>1, <2>7, <2>8 DEF FacesIInv
<1>3. CASE GoOn
  <2>1. /\ stage \in {"check", "sim"} /\ stage' = "cut" /\ at' = 1 /\ last' = ne
        /\ SameMesh /\ UNCHANGED <<point, hash, call, broken>>
    BY <1>3 DEF GoOn, SameMesh
  <2> QED
    BY <2>1, BeginFaces
<1>4. CASE SweepEnd
  <2>1. stage = "sim" /\ SameMesh /\ UNCHANGED <<point, hash, call, broken>>
    BY <1>4 DEF SweepEnd, SameMesh
  <2>2. \/ stage' = "sim"
        \/ stage' = "cut" /\ at' = 1 /\ last' = ne
    BY <1>4, <2>1 DEF SweepEnd
  <2>3. CASE stage' = "sim"
    <3>1. Waiting = {} /\ Waiting' = {}
      BY <2>1, <2>3 DEF Waiting
    <3> QED
      BY <1>1, <3>1, SteadyFaces
  <2>4. CASE stage' = "cut" /\ at' = 1 /\ last' = ne
    BY <2>1, <2>4, BeginFaces
  <2> QED
    BY <2>2, <2>3, <2>4
<1>5. CASE MarkEnd \/ Simulate \/ NoTable \/ NoRoom \/ Skip \/ CutEnd
  <2>1. stage = "cut" => ToCut = {}
    BY <1>5 DEF MarkEnd, Simulate, NoTable, NoRoom, Skip, CutEnd
  <2>2. stage' # "cut"
    BY <1>5 DEF MarkEnd, Simulate, NoTable, NoRoom, Skip, CutEnd, Return, Fail
  <2>3. Waiting = {} /\ Waiting' = {}
    BY <2>1, <2>2 DEF Waiting
  <2> QED
    BY <1>1, <2>3, SteadyFaces
<1> QED
  BY <1>2, <1>3, <1>4, <1>5 DEF Quiet

LEMMA NextFaces ==
  FacesIInv /\ ReqIInv /\ TagsIInv /\ IInv /\ IInv' /\ [Next]_vars => FacesIInv'
<1> SUFFICES ASSUME FacesIInv, ReqIInv, TagsIInv, IInv, IInv', [Next]_vars PROVE FacesIInv'
  OBVIOUS
<1>1. ASSUME NEW p \in 0..(12 * ne - 1), Insert(p) \/ InsertFails(p) PROVE FacesIInv'
  <2>1. Create(p) /\ SameMesh /\ broken' = broken /\ stage' # "cut"
    BY <1>1 DEF Insert, InsertFails, Create, SameMesh
  <2> QED
    BY <2>1, CreateFaces
<1>2. CASE Quiet
  BY <1>2, QuietFaces
<1>3. CASE Cut
  BY <1>3, CutFaces
<1>4. CASE CutFails
  BY <1>4 DEF CutFails, FacesIInv
<1> QED
  BY <1>1, <1>2, <1>3, <1>4 DEF Next, Quiet

LEMMA AnatetFaces ==
  Spec /\ []SweepsSuffice => []FacesIInv
<1>1. Init => FacesIInv
  BY InitFaces
<1> QED
  BY <1>1, NextFaces, AnatetInvariant, AnatetTags, AnatetReq, PTL DEF Spec

(* What the counts say.                                                    *)
LEMMA OneOrTwo ==
  /\ \A x : Cardinality({x}) = 1
  /\ \A x, y : x # y => Cardinality({x, y}) = 2
<1>1. \A x : IsFiniteSet({x}) /\ Cardinality({x}) = 1
  BY FS_Singleton
<1>2. ASSUME NEW x, NEW y, x # y PROVE Cardinality({x, y}) = 2
  <2>1. Cardinality({x} \union {y}) = Cardinality({x}) + 1
    BY <1>1, <1>2, FS_AddElement
  <2>2. {x} \union {y} = {x, y}
    OBVIOUS
  <2> QED
    BY <1>1, <2>1, <2>2
<1> QED
  BY <1>1, <1>2

LEMMA FacesCounted ==
  ASSUME IInv, FacesIInv
  PROVE  FacesMatch
<1> SUFFICES ASSUME Whole, NEW k \in DOMAIN tetra, NEW i \in Local
             PROVE  LET onHull == \E h \in mesh.hull : Origin(Face(k, i)) \subseteq h
                    IN Cardinality({j \in DOMAIN tetra : Face(k, i) \subseteq Range(tetra[j].v)})
                           = IF onHull THEN 1 ELSE 2
  BY DEF FacesMatch
<1>1. Tets /\ Waiting = {} /\ ~broken
  BY DEF IInv, Whole, Waiting
<1>2. PICK C, M : M = DOMAIN tetra /\ C = [j \in M |-> VertexSet(tetra[j].v)]
  OBVIOUS
<1>3. Conforming(M, C, OnHull)
  <2>1. MeshOf(CellsWith({}), OnHull)
    BY <1>1 DEF FacesIInv
  <2> QED
    BY <1>2, <2>1, WholeCells
<1>4. \A j \in M : C[j] = Range(tetra[j].v)
  BY <1>1, <1>2 DEF Tets, Tetrahedron, Range, VertexSet
<1>5. PICK q, g : q = tetra[k].v[i] /\ g = Face(k, i)
  OBVIOUS
<1>6. q \in C[k] /\ g = C[k] \ {q}
  BY <1>2, <1>4, <1>5 DEF VertexSet, Face
<1>7. MeetsAt(M, C, OnHull, k, g)
  BY <1>2, <1>3, <1>6 DEF Conforming
<1>8. g \in OnHull <=> \E h \in mesh.hull : Origin(g) \subseteq h
  <2>1. g \in SUBSET DOMAIN point
    BY <1>1, <1>2, <1>6 DEF Tets, Tetrahedron, VertexSet
  <2> QED
    BY <2>1 DEF OnHull
<1>9. PICK S : S = {j \in DOMAIN tetra : g \subseteq Range(tetra[j].v)}
  OBVIOUS
<1>10. \A j : j \in S <=> j \in M /\ g \subseteq C[j]
  BY <1>2, <1>4, <1>9
<1>11. CASE g \in OnHull
  <2>1. FaceHas(M, C, g, k, k)
    BY <1>7, <1>11 DEF MeetsAt
  <2>2. S = {k}
    BY <1>2, <1>10, <2>1 DEF FaceHas
  <2>3. Cardinality(S) = 1
    BY <2>2, OneOrTwo
  <2> QED
    BY <1>5, <1>8, <1>9, <1>11, <2>3
<1>12. CASE g \notin OnHull
  <2>1. PICK z \in M : z # k /\ FaceHas(M, C, g, k, z)
    BY <1>7, <1>12 DEF MeetsAt
  <2>2. S = {k, z}
    BY <1>2, <1>10, <2>1 DEF FaceHas
  <2>3. Cardinality(S) = 2
    BY <2>1, <2>2, OneOrTwo
  <2> QED
    BY <1>5, <1>8, <1>9, <1>12, <2>3
<1> QED
  BY <1>11, <1>12

(* FacesMatch: after the cuts of every wave, two tetrahedra meet at each   *)
(* face inside the domain and one at each face of its hull.  A face is cut *)
(* by the tetrahedra on both sides without a look at each other, and the   *)
(* diagonals that both choose are the same, because the choice looks at    *)
(* the numbers of the vertices of the face only.                           *)
THEOREM AnatetFacesMatch ==
  Spec /\ []SweepsSuffice => []FacesMatch
<1>1. IInv /\ FacesIInv => FacesMatch
  BY FacesCounted
<1> QED
  BY <1>1, AnatetInvariant, AnatetFaces, PTL DEF Spec
===============================================================================
