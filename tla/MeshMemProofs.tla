---------------------------- MODULE MeshMemProofs -----------------------------
(***************************************************************************)
(* The allocation state is well typed, the two lists of empty slots are    *)
(* right, the memory budget is kept, and during a library call each array  *)
(* is an IdAllocator, for every size of the mesh, every cost, every growth *)
(* factor and every memory limit.                                          *)
(***************************************************************************)
EXTENDS MeshMem, SlotPoolProofs

USE SizeAssumption, CostAssumption, GapAssumption

(* A gap that is asked for is a positive number.                           *)
LEMMA WantedPositive ==
  ASSUME NEW size \in Nat, NEW ratio \in [num : Nat \ {0}, den : Nat \ {0}],
         NEW w \in Wanted(size, ratio)
  PROVE  w \in Nat \ {0}
<1> DEFINE q == (ratio.num * size) \div ratio.den
<1>1. q \in Int
  OBVIOUS
<1>2. w = AtLeast1(q) \/ w = AtLeast1(q - 1)
  BY DEF Wanted
<1> HIDE DEF q
<1> QED
  BY <1>1, <1>2 DEF AtLeast1

(* A gap that MMG5_CHK_INT32_OVERFLOW lets through is a positive fraction, *)
(* and adds at least one triangle.                                         *)
LEMMA CheckedGapType ==
  ASSUME TypeOK, trs.max # 0, NEW c \in CheckedGaps(trs.max)
  PROVE  /\ c[1] \in [num : Nat \ {0}, den : Nat \ {0}]
         /\ c[2] \in Nat \ {0}
<1> DEFINE last == [num |-> Int32Limit - trs.max, den |-> trs.max]
<1>1. trs.max \in Nat \ {0} /\ gap \in [num : Nat \ {0}, den : Nat \ {0}]
  BY DEF TypeOK, IsPool
<1>2. CASE \E w \in Wanted(trs.max, gap) : c = <<gap, w>>
  BY <1>1, <1>2, WantedPositive
<1>3. CASE trs.max < Int32Limit /\ \E w \in Wanted(trs.max, last) : c = <<last, w>>
  <2>1. last \in [num : Nat \ {0}, den : Nat \ {0}]
    BY <1>1, <1>3
  <2> HIDE DEF last
  <2> QED
    BY <1>1, <1>3, <2>1, WantedPositive
<1> QED
  BY <1>2, <1>3 DEF CheckedGaps

(* What is granted is an integer, and its cost fits in the budget.         *)
LEMMA GrantedFits ==
  ASSUME memCur \in Nat, memCur <= MemMax, NEW w \in Nat, NEW bytes \in Nat \ {0}
  PROVE  /\ Granted(w, bytes) \in Nat
         /\ memCur + Granted(w, bytes) * bytes <= MemMax
<1> DEFINE a == MemMax - memCur
           d == a \div bytes
<1>1. a \in Nat
  OBVIOUS
<1>2. d \in Nat /\ d * bytes <= a
  BY <1>1
<1> HIDE DEF d
<1> QED
  BY <1>1, <1>2 DEF Granted, Paid, d

-------------------------------------------------------------------------------
(* The inductive invariant.  That the lists are right is not inductive     *)
(* alone: a list is linked again from n+1 by the reallocation, which is    *)
(* only right because an empty list means that no slot below n is out of   *)
(* use (lemma EmptyList), a fact about the whole shape of the list; and    *)
(* the growth is a number of slots only while the budget is kept.  While   *)
(* MMG2D_pack is at work, its loops say what the lists do not: PackInv.    *)
(* The numbers of the vertices are right even after a packing that left an *)
(* old link behind; that only slots in use are slid needs clean.           *)
PackInv ==
    /\ stage = "number" => /\ Cursor(pts, at, nbl)
                           /\ Chain(pts, 1, at - 1, 1) /\ NextNumber(pts, at, nbl)
                           /\ clean => Sliding(pts, 1, 1) /\ Sliding(trs, 1, 1)
    /\ stage = "trias" => /\ Cursor(trs, at, nbl)
                          /\ Chain(pts, 1, pts.n, 1)
                          /\ clean => Sliding(pts, 1, 1) /\ Sliding(trs, at, nbl)
    /\ stage = "points" => /\ Cursor(pts, at, nbl)
                           /\ Chain(pts, at, pts.n, nbl)
                           /\ clean => Sliding(pts, at, nbl) /\ Dense(trs)

IndInv == /\ TypeOK
          /\ pts.max # 0 /\ trs.max # 0
          /\ VertexListOK /\ TriaListOK
          /\ Budget
          /\ PackInv

(* The arrays that MMG2D_setMeshSize_alloc leaves satisfy the inductive    *)
(* invariant.                                                              *)
LEMMA InitInv == Init => IndInv
<1> SUFFICES ASSUME Init PROVE IndInv
  OBVIOUS
<1>1. IsPool(pts) /\ IsPool(trs)
  BY InitialPoolType DEF Init, Status
<1>2. FreeListOK(pts, freeP) /\ FreeListOK(trs, freeT)
  BY InitialPoolList DEF Init, Status
<1>3. pts.max = NPMax /\ trs.max = NTMax
  BY DEF Init, InitialPool
<1>4. /\ clean \in BOOLEAN /\ stage = "open" /\ at \in Nat /\ nbl \in Nat
      /\ stage \in {"open", "number", "trias", "points", "packed"}
  BY DEF Init
<1>5. gap \in [num : Nat \ {0}, den : Nat \ {0}] /\ calls \in Nat
  BY DEF Init
<1>6. memCur \in Nat /\ solMax \in Nat /\ adjMax \in Nat
  <2>1. /\ NPMax * (PointBytes + MetBytes) \in Nat
        /\ NTMax * (TriaBytes + AdjaBytes) \in Nat
    OBVIOUS
  <2> QED
    BY <2>1 DEF Init
<1>7. Budget
  <2>1. /\ NPMax * (PointBytes + MetBytes) = NPMax * PointBytes + NPMax * MetBytes
        /\ NTMax * (TriaBytes + AdjaBytes) = NTMax * TriaBytes + NTMax * AdjaBytes
    OBVIOUS
  <2>2. /\ NPMax * PointBytes \in Nat /\ NPMax * MetBytes \in Nat
        /\ NTMax * TriaBytes \in Nat /\ NTMax * AdjaBytes \in Nat
    OBVIOUS
  <2> QED
    BY <1>3, <2>1, <2>2 DEF Init, Budget
<1> QED
  BY <1>1, <1>2, <1>3, <1>4, <1>5, <1>6, <1>7 DEF IndInv, TypeOK, VertexListOK, TriaListOK, PackInv

(* One step on one array: the array of slots and its list stay right.      *)
LEMMA TakeNext ==
  ASSUME NEW p, IsPool(p), p.nil # 0, NEW f, NEW ok \in BOOLEAN, ok => FreeListOK(p, f)
  PROVE  /\ IsPool(NewSlot(p)) /\ NewSlot(p).max = p.max
         /\ ok => FreeListOK(NewSlot(p), Rest(f))
BY NewSlotType, NewSlotList

(* MMG2D_delPt, MMG2D_delElt: the slot that is given back becomes the head *)
(* of a list that is still correct.                                        *)
LEMMA GiveBack ==
  ASSUME NEW p, IsPool(p), NEW f, NEW ok \in BOOLEAN, ok => FreeListOK(p, f),
         NEW h \in 1..p.max, ok => h \in Live(p)
  PROVE  /\ IsPool(DelSlot(p, h)) /\ DelSlot(p, h).max = p.max
         /\ ok => FreeListOK(DelSlot(p, h), <<h>> \o f)
BY DelSlotType, DelSlotList

(* A reallocation followed by MMG2D_newPt or MMG2D_newElt leaves a correct *)
(* list, and an index in use within the array.                             *)
LEMMA GrowNext ==
  ASSUME NEW p, IsPool(p), p.nil = 0, NEW f, NEW ok \in BOOLEAN, ok => FreeListOK(p, f),
         NEW g \in Nat \ {0}, NEW blank \in Status, blank # "live"
  PROVE  LET q == GrowPool(p, g, blank)
         IN  /\ IsPool(q) /\ q.max = p.max + g /\ q.nil # 0 /\ q.n = p.n
             /\ ok => FreeListOK(q, FreshList(q.n, q.max))
<1>1. p.n \in Nat
  BY DEF IsPool
<1> QED
  BY <1>1, GrowPoolType, GrowPoolList

(* np is a vertex in use.                                                  *)
LEMMA LastInUse ==
  ASSUME NEW p, IsPool(p), p.n > 0, NEW f
  PROVE  p.n \in 1..p.max /\ (FreeListOK(p, f) => p.n \in Live(p))
BY DEF IsPool, FreeListOK, Divided, Live

(* Each operation but packing: one case for each action.                   *)
Operation ==
    \/ NewVertex \/ GrowVertices \/ NoMoreVertex \/ NoMoreMetric \/ DeleteVertex
    \/ NewTria \/ GrowTrias \/ NoMoreTria \/ NoMoreAdja \/ DeleteTria

(* They are the steps of a call that is not packing.                       *)
LEMMA OperationStage ==
  ASSUME Operation
  PROVE  /\ stage = "open" /\ stage' = stage /\ at' = at /\ nbl' = nbl
         /\ clean' = clean
BY DEF Operation, NewVertex, GrowVertices, NoMoreVertex, NoMoreMetric,
       DeleteVertex, NewTria, GrowTrias, NoMoreTria, NoMoreAdja, DeleteTria

(* Each of them keeps the inductive invariant.                             *)
LEMMA OperationInv == IndInv /\ Operation => IndInv'
<1> SUFFICES ASSUME IndInv, Operation PROVE IndInv'
  OBVIOUS
<1>0. /\ IsPool(pts) /\ IsPool(trs) /\ pts.max \in Nat /\ trs.max \in Nat
      /\ pts.max # 0 /\ trs.max # 0
      /\ memCur \in Nat /\ solMax \in Nat /\ adjMax \in Nat
      /\ stage = "open" /\ at \in Nat /\ nbl \in Nat
      /\ stage' = stage /\ at' = at /\ nbl' = nbl
      /\ calls \in Nat /\ clean \in BOOLEAN
      /\ gap \in [num : Nat \ {0}, den : Nat \ {0}]
      /\ clean => FreeListOK(pts, freeP)
      /\ clean => FreeListOK(trs, freeT)
      /\ memCur <= MemMax
      /\ pts.max * PointBytes + trs.max * TriaBytes + solMax * MetBytes <= memCur
      /\ "zero" \in Status /\ "nul" \in Status
  BY OperationStage DEF IndInv, TypeOK, IsPool, VertexListOK, TriaListOK, Listed, Budget, Status
<1> USE <1>0
<1>1. CASE NewVertex
  <2>1. /\ IsPool(pts') /\ pts'.max = pts.max
        /\ clean => FreeListOK(pts', freeP')
    BY <1>1, TakeNext DEF NewVertex
  <2> QED
    BY <1>1, <2>1 DEF NewVertex, IndInv, TypeOK, VertexListOK, TriaListOK, Listed, Budget, PackInv
<1>2. CASE GrowVertices
  <2>1. PICK w \in Wanted(pts.max, gap) :
         LET g     == Granted(w, PointBytes)
             grown == GrowPool(pts, g, "zero")
         IN  /\ g >= 1
             /\ memCur + g * PointBytes + (grown.max - solMax) * MetBytes <= MemMax
             /\ pts'    = NewSlot(grown)
             /\ freeP'  = Rest(FreshList(grown.n, grown.max))
             /\ memCur' = memCur + g * PointBytes + (grown.max - solMax) * MetBytes
             /\ solMax' = grown.max
    BY <1>2 DEF GrowVertices
  <2> DEFINE g == Granted(w, PointBytes)
             grown == GrowPool(pts, g, "zero")
  <2>2. w \in Nat \ {0}
    BY WantedPositive
  <2>3. g \in Nat \ {0}
    <3>1. g >= 1
      BY <2>1
    <3>2. g \in Nat /\ memCur + g * PointBytes <= MemMax
      BY <2>2, GrantedFits
    <3> QED
      BY <3>1, <3>2
  <2> HIDE DEF g
  <2>4. /\ IsPool(grown) /\ grown.max = pts.max + g /\ grown.nil # 0
        /\ clean => FreeListOK(grown, FreshList(grown.n, grown.max))
    <3>1. pts.nil = 0
      BY <1>2 DEF GrowVertices
    <3>2. "zero" # "live"
      OBVIOUS
    <3>3. /\ IsPool(grown) /\ grown.max = pts.max + g
          /\ clean => FreeListOK(grown, FreshList(grown.n, grown.max))
      BY <2>3, <3>1, <3>2, GrowNext
    <3>4. grown.nil = pts.n + 1
      BY <2>3, GrowPoolType
    <3>5. pts.n \in Nat
      BY DEF IsPool
    <3> QED
      BY <3>3, <3>4, <3>5
  <2> HIDE DEF grown
  <2>5. /\ memCur + g * PointBytes + (grown.max - solMax) * MetBytes <= MemMax
        /\ pts'    = NewSlot(grown)
        /\ freeP'  = Rest(FreshList(grown.n, grown.max))
        /\ memCur' = memCur + g * PointBytes + (grown.max - solMax) * MetBytes
        /\ solMax' = grown.max
    BY <2>1 DEF g, grown
  <2>6. /\ IsPool(pts') /\ pts'.max = pts.max + g
        /\ clean => FreeListOK(pts', freeP')
    BY <2>4, <2>5, TakeNext
  <2>7. /\ trs' = trs /\ freeT' = freeT /\ adjMax' = adjMax /\ gap' = gap
        /\ calls' = calls /\ clean' = clean
    BY <1>2 DEF GrowVertices
  <2>8. /\ solMax' = grown.max /\ memCur' <= MemMax
        /\ memCur' = memCur + g * PointBytes + (grown.max - solMax) * MetBytes
    BY <2>5
  <2>9. pts'.max * PointBytes + trs'.max * TriaBytes + solMax' * MetBytes <= memCur'
    <3> DEFINE a == pts.max * PointBytes
               b == trs.max * TriaBytes
               c == solMax * MetBytes
               x == g * PointBytes
               y == (grown.max - solMax) * MetBytes
    <3>1. a \in Nat /\ b \in Nat /\ c \in Nat /\ x \in Nat /\ y \in Int
      BY <2>3, <2>4
    <3>2. a + b + c <= memCur /\ memCur' = memCur + x + y /\ memCur \in Nat
      BY <2>8
    <3>3. grown.max * MetBytes = c + y
      BY <2>3, <2>4
    <3>4. (pts.max + g) * PointBytes = a + x
      BY <2>3
    <3>5. /\ pts'.max * PointBytes = a + x /\ trs'.max * TriaBytes = b
          /\ solMax' * MetBytes = c + y
      BY <2>6, <2>7, <2>8, <3>3, <3>4
    <3> HIDE DEF a, b, c, x, y
    <3>6. (a + x) + b + (c + y) <= memCur'
      BY <3>1, <3>2
    <3> QED
      BY <3>5, <3>6
  <2>10. memCur' \in Nat /\ solMax' \in Nat
    <3>1. solMax' \in Nat
      BY <2>3, <2>4, <2>8
    <3>2. g * PointBytes \in Nat /\ (grown.max - solMax) * MetBytes \in Int
      BY <2>3, <2>4
    <3>3. memCur' \in Int
      BY <2>8, <3>2
    <3>4. /\ pts'.max * PointBytes \in Nat /\ trs'.max * TriaBytes \in Nat
          /\ solMax' * MetBytes \in Nat
      <4>1. pts'.max \in Nat /\ trs'.max \in Nat
        BY <2>3, <2>6, <2>7
      <4>2. \A m, b \in Nat : m * b \in Nat
        OBVIOUS
      <4> QED
        BY <3>1, <4>1, <4>2
    <3> QED
      BY <2>9, <3>1, <3>3, <3>4
  <2>11. pts'.max # 0 /\ trs'.max # 0
    BY <2>3, <2>6, <2>7
  <2> QED
    BY <2>6, <2>7, <2>8, <2>9, <2>10, <2>11
       DEF IndInv, TypeOK, VertexListOK, TriaListOK, Listed, Budget, PackInv
<1>3. CASE NoMoreVertex
  <2>1. pts.n \in 1..pts.max /\ (clean => pts.n \in Live(pts))
    BY <1>3, LastInUse DEF NoMoreVertex
  <2>2. /\ IsPool(pts') /\ pts'.max = pts.max
        /\ clean => FreeListOK(pts', freeP')
    BY <1>3, <2>1, GiveBack DEF NoMoreVertex
  <2> QED
    BY <1>3, <2>2 DEF NoMoreVertex, IndInv, TypeOK, VertexListOK, TriaListOK, Listed, Budget, PackInv
<1>4. CASE NoMoreMetric
  <2>1. PICK w \in Wanted(pts.max, gap) :
         LET g     == Granted(w, PointBytes)
             grown == GrowPool(pts, g, "zero")
         IN  /\ g >= 1
             /\ pts'    = DelSlot(grown, grown.n)
             /\ freeP'  = <<grown.n>> \o FreshList(grown.n, grown.max)
             /\ memCur' = memCur + g * PointBytes
    BY <1>4 DEF NoMoreMetric
  <2> DEFINE g == Granted(w, PointBytes)
             grown == GrowPool(pts, g, "zero")
  <2>2. w \in Nat \ {0}
    BY WantedPositive
  <2>3. g \in Nat \ {0} /\ memCur + g * PointBytes <= MemMax
    <3>1. g >= 1
      BY <2>1
    <3>2. g \in Nat /\ memCur + g * PointBytes <= MemMax
      BY <2>2, GrantedFits
    <3> QED
      BY <3>1, <3>2
  <2> HIDE DEF g
  <2>4. /\ IsPool(grown) /\ grown.max = pts.max + g /\ grown.n = pts.n
        /\ clean => FreeListOK(grown, FreshList(grown.n, grown.max))
    <3>1. pts.nil = 0
      BY <1>4 DEF NoMoreMetric
    <3>2. "zero" # "live"
      OBVIOUS
    <3> QED
      BY <2>3, <3>1, <3>2, GrowNext
  <2> HIDE DEF grown
  <2>5. /\ pts'    = DelSlot(grown, grown.n)
        /\ freeP'  = <<grown.n>> \o FreshList(grown.n, grown.max)
        /\ memCur' = memCur + g * PointBytes
    BY <2>1 DEF g, grown
  <2>6. grown.n \in 1..grown.max /\ (clean => grown.n \in Live(grown))
    BY <1>4, <2>4, LastInUse DEF NoMoreMetric
  <2>7. /\ IsPool(pts') /\ pts'.max = pts.max + g
        /\ clean => FreeListOK(pts', freeP')
    BY <2>4, <2>5, <2>6, GiveBack
  <2>8. /\ trs' = trs /\ freeT' = freeT /\ adjMax' = adjMax /\ gap' = gap
        /\ calls' = calls /\ clean' = clean /\ solMax' = solMax
    BY <1>4 DEF NoMoreMetric
  <2>9. pts'.max * PointBytes + trs'.max * TriaBytes + solMax' * MetBytes <= memCur'
    <3>1. (pts.max + g) * PointBytes = pts.max * PointBytes + g * PointBytes
      BY <2>3
    <3>2. /\ g * PointBytes \in Nat /\ pts.max * PointBytes \in Nat
          /\ trs.max * TriaBytes \in Nat /\ solMax * MetBytes \in Nat
      BY <2>3
    <3>3. pts'.max * PointBytes = pts.max * PointBytes + g * PointBytes
      BY <2>7, <3>1
    <3>4. trs'.max * TriaBytes = trs.max * TriaBytes /\ solMax' * MetBytes = solMax * MetBytes
      BY <2>8
    <3>5. memCur' = memCur + g * PointBytes
      BY <2>5
    <3> QED
      BY <3>2, <3>3, <3>4, <3>5
  <2>10. memCur' \in Nat /\ memCur' <= MemMax /\ pts'.max # 0
    <3>1. g * PointBytes \in Nat
      BY <2>3
    <3>2. memCur' = memCur + g * PointBytes /\ memCur + g * PointBytes <= MemMax
      BY <2>3, <2>5
    <3>3. pts'.max # 0
      BY <2>3, <2>7
    <3> QED
      BY <3>1, <3>2, <3>3
  <2> QED
    BY <2>7, <2>8, <2>9, <2>10 DEF IndInv, TypeOK, VertexListOK, TriaListOK, Listed, Budget, PackInv
<1>5. CASE DeleteVertex
  <2>1. PICK i \in Live(pts) : pts' = DelSlot(pts, i) /\ freeP' = <<i>> \o freeP
    BY <1>5 DEF DeleteVertex
  <2>2. /\ IsPool(pts') /\ pts'.max = pts.max
        /\ clean => FreeListOK(pts', freeP')
    BY <2>1, GiveBack DEF Live
  <2> QED
    BY <1>5, <2>2 DEF DeleteVertex, IndInv, TypeOK, VertexListOK, TriaListOK, Listed, Budget, PackInv
<1>6. CASE NewTria
  <2>1. /\ IsPool(trs') /\ trs'.max = trs.max
        /\ clean => FreeListOK(trs', freeT')
    BY <1>6, TakeNext DEF NewTria
  <2> QED
    BY <1>6, <2>1 DEF NewTria, IndInv, TypeOK, VertexListOK, TriaListOK, Listed, Budget, PackInv
<1>7. CASE GrowTrias
  <2>1. PICK c \in CheckedGaps(trs.max) :
         LET g     == Granted(c[2], TriaBytes)
             grown == GrowPool(trs, g, "nul")
         IN  /\ g >= 1
             /\ memCur + g * TriaBytes + g * AdjaBytes <= MemMax
             /\ trs'    = NewSlot(grown)
             /\ freeT'  = Rest(FreshList(grown.n, grown.max))
             /\ memCur' = memCur + g * TriaBytes + g * AdjaBytes
             /\ adjMax' = grown.max
             /\ gap'    = c[1]
    BY <1>7 DEF GrowTrias
  <2> DEFINE g == Granted(c[2], TriaBytes)
             grown == GrowPool(trs, g, "nul")
  <2>2. c[2] \in Nat \ {0} /\ c[1] \in [num : Nat \ {0}, den : Nat \ {0}]
    BY CheckedGapType DEF IndInv
  <2>3. g \in Nat \ {0}
    <3>1. g >= 1
      BY <2>1
    <3>2. g \in Nat /\ memCur + g * TriaBytes <= MemMax
      BY <2>2, GrantedFits
    <3> QED
      BY <3>1, <3>2
  <2> HIDE DEF g
  <2>4. /\ IsPool(grown) /\ grown.max = trs.max + g /\ grown.nil # 0
        /\ clean => FreeListOK(grown, FreshList(grown.n, grown.max))
    <3>1. trs.nil = 0
      BY <1>7 DEF GrowTrias
    <3>2. "nul" # "live"
      OBVIOUS
    <3>3. /\ IsPool(grown) /\ grown.max = trs.max + g
          /\ clean => FreeListOK(grown, FreshList(grown.n, grown.max))
      BY <2>3, <3>1, <3>2, GrowNext
    <3>4. grown.nil = trs.n + 1
      BY <2>3, GrowPoolType
    <3>5. trs.n \in Nat
      BY DEF IsPool
    <3> QED
      BY <3>3, <3>4, <3>5
  <2> HIDE DEF grown
  <2>5. /\ memCur + g * TriaBytes + g * AdjaBytes <= MemMax
        /\ trs'    = NewSlot(grown)
        /\ freeT'  = Rest(FreshList(grown.n, grown.max))
        /\ memCur' = memCur + g * TriaBytes + g * AdjaBytes
        /\ adjMax' = grown.max
        /\ gap'    = c[1]
    BY <2>1 DEF g, grown
  <2>6. /\ IsPool(trs') /\ trs'.max = trs.max + g
        /\ clean => FreeListOK(trs', freeT')
    BY <2>4, <2>5, TakeNext
  <2>7. /\ pts' = pts /\ freeP' = freeP /\ solMax' = solMax
        /\ calls' = calls /\ clean' = clean
    BY <1>7 DEF GrowTrias
  <2>8. g * TriaBytes \in Nat /\ g * AdjaBytes \in Nat
    BY <2>3
  <2>9. pts'.max * PointBytes + trs'.max * TriaBytes + solMax' * MetBytes <= memCur'
    <3>1. (trs.max + g) * TriaBytes = trs.max * TriaBytes + g * TriaBytes
      BY <2>3
    <3>2. /\ pts.max * PointBytes \in Nat /\ trs.max * TriaBytes \in Nat
          /\ solMax * MetBytes \in Nat
      BY <2>3
    <3>3. trs'.max * TriaBytes = trs.max * TriaBytes + g * TriaBytes
      BY <2>6, <3>1
    <3>4. pts'.max * PointBytes = pts.max * PointBytes /\ solMax' * MetBytes = solMax * MetBytes
      BY <2>7
    <3>5. memCur' = memCur + g * TriaBytes + g * AdjaBytes
      BY <2>5
    <3> DEFINE a == pts.max * PointBytes
               b == trs.max * TriaBytes
               c3 == solMax * MetBytes
               x == g * TriaBytes
               y == g * AdjaBytes
    <3>6. a \in Nat /\ b \in Nat /\ c3 \in Nat /\ x \in Nat /\ y \in Nat
      BY <2>8, <3>2
    <3>7. a + b + c3 <= memCur /\ memCur' = memCur + x + y /\ memCur \in Nat
      BY <3>5
    <3>8. /\ pts'.max * PointBytes = a /\ trs'.max * TriaBytes = b + x
          /\ solMax' * MetBytes = c3
      BY <3>3, <3>4
    <3> HIDE DEF a, b, c3, x, y
    <3>9. a + (b + x) + c3 <= memCur'
      BY <3>6, <3>7
    <3> QED
      BY <3>8, <3>9
  <2>10. /\ memCur' \in Nat /\ memCur' <= MemMax /\ adjMax' \in Nat
         /\ pts'.max # 0 /\ trs'.max # 0
    BY <2>3, <2>4, <2>5, <2>6, <2>7, <2>8
  <2> QED
    BY <2>2, <2>5, <2>6, <2>7, <2>9, <2>10
       DEF IndInv, TypeOK, VertexListOK, TriaListOK, Listed, Budget, PackInv
<1>8. CASE NoMoreTria
  <2>1. gap' \in [num : Nat \ {0}, den : Nat \ {0}]
    BY <1>8, CheckedGapType DEF NoMoreTria, IndInv
  <2> QED
    BY <1>8, <2>1 DEF NoMoreTria, IndInv, TypeOK, VertexListOK, TriaListOK, Listed, Budget, PackInv
<1>9. CASE NoMoreAdja
  <2>1. PICK c \in CheckedGaps(trs.max) :
         LET g     == Granted(c[2], TriaBytes)
             grown == GrowPool(trs, g, "nul")
         IN  /\ g >= 1
             /\ trs'    = grown
             /\ freeT'  = FreshList(grown.n, grown.max)
             /\ memCur' = memCur + g * TriaBytes
             /\ gap'    = c[1]
    BY <1>9 DEF NoMoreAdja
  <2> DEFINE g == Granted(c[2], TriaBytes)
             grown == GrowPool(trs, g, "nul")
  <2>2. c[2] \in Nat \ {0} /\ c[1] \in [num : Nat \ {0}, den : Nat \ {0}]
    BY CheckedGapType DEF IndInv
  <2>3. g \in Nat \ {0} /\ memCur + g * TriaBytes <= MemMax
    <3>1. g >= 1
      BY <2>1
    <3>2. g \in Nat /\ memCur + g * TriaBytes <= MemMax
      BY <2>2, GrantedFits
    <3> QED
      BY <3>1, <3>2
  <2> HIDE DEF g
  <2>4. /\ IsPool(grown) /\ grown.max = trs.max + g
        /\ clean => FreeListOK(grown, FreshList(grown.n, grown.max))
    <3>1. trs.nil = 0
      BY <1>9 DEF NoMoreAdja
    <3>2. "nul" # "live"
      OBVIOUS
    <3> QED
      BY <2>3, <3>1, <3>2, GrowNext
  <2> HIDE DEF grown
  <2>5. /\ trs' = grown /\ freeT' = FreshList(grown.n, grown.max)
        /\ memCur' = memCur + g * TriaBytes /\ gap' = c[1]
    BY <2>1 DEF g, grown
  <2>6. /\ pts' = pts /\ freeP' = freeP /\ solMax' = solMax /\ adjMax' = adjMax
        /\ calls' = calls /\ clean' = clean
    BY <1>9 DEF NoMoreAdja
  <2>7. pts'.max * PointBytes + trs'.max * TriaBytes + solMax' * MetBytes <= memCur'
    <3>1. (trs.max + g) * TriaBytes = trs.max * TriaBytes + g * TriaBytes
      BY <2>3
    <3>2. /\ g * TriaBytes \in Nat /\ pts.max * PointBytes \in Nat
          /\ trs.max * TriaBytes \in Nat /\ solMax * MetBytes \in Nat
      BY <2>3
    <3> QED
      BY <2>4, <2>5, <2>6, <3>1, <3>2
  <2>8. /\ memCur' \in Nat /\ memCur' <= MemMax /\ pts'.max # 0 /\ trs'.max # 0
    <3>1. g * TriaBytes \in Nat
      BY <2>3
    <3> QED
      BY <2>3, <2>4, <2>5, <2>6, <3>1
  <2> QED
    BY <2>2, <2>4, <2>5, <2>6, <2>7, <2>8
       DEF IndInv, TypeOK, VertexListOK, TriaListOK, Listed, Budget, PackInv
<1>10. CASE DeleteTria
  <2>1. PICK i \in Live(trs) : trs' = DelSlot(trs, i) /\ freeT' = <<i>> \o freeT
    BY <1>10 DEF DeleteTria
  <2>2. /\ IsPool(trs') /\ trs'.max = trs.max
        /\ clean => FreeListOK(trs', freeT')
    BY <2>1, GiveBack DEF Live
  <2> QED
    BY <1>10, <2>2 DEF DeleteTria, IndInv, TypeOK, VertexListOK, TriaListOK, Listed, Budget, PackInv
<1> QED
  BY <1>1, <1>2, <1>3, <1>4, <1>5, <1>6, <1>7, <1>8, <1>9, <1>10 DEF Operation

(* The end of MMG2D_pack: the slots in use are 1 .. n, and the lists that  *)
(* it threads are right if the two last slots hold no old link.            *)
LEMMA EndOfPack ==
  ASSUME IndInv, PackEnd
  PROVE  /\ IsPool(pts') /\ pts'.max = pts.max
         /\ IsPool(trs') /\ trs'.max = trs.max
         /\ clean => Dense(pts') /\ Dense(trs')
         /\ clean /\ NoOldLink(pts') => FreeListOK(pts', PackedList(pts'))
         /\ clean /\ NoOldLink(trs') => FreeListOK(trs', PackedList(trs'))
<1>1. /\ IsPool(pts) /\ IsPool(trs) /\ at \in Nat /\ nbl \in Nat
      /\ Ahead(pts, at) = {}
      /\ pts' = Relinked(Unnumbered(EndAt(pts, nbl - 1)))
      /\ trs' = Relinked(trs)
      /\ Cursor(pts, at, nbl)
      /\ clean => Sliding(pts, at, nbl) /\ Dense(trs)
  BY DEF IndInv, TypeOK, PackEnd, PackInv
<1> DEFINE e == EndAt(pts, nbl - 1)
           u == Unnumbered(e)
<1>2. IsPool(e) /\ e.max = pts.max /\ (clean => Dense(e))
  BY <1>1, SlidingEnds
<1> HIDE DEF e
<1>3. IsPool(u) /\ u.max = e.max /\ u.n = e.n /\ u.st = e.st
  BY <1>2, UnnumberedIs
<1>4. clean => Dense(u)
  BY <1>2, <1>3 DEF Dense
<1>5. pts' = Relinked(u)
  BY <1>1 DEF e
<1> HIDE DEF u
<1>6. /\ IsPool(pts') /\ pts'.max = u.max /\ pts'.n = u.n /\ pts'.st = u.st
  BY <1>3, <1>5, RelinkedIs
<1>7. /\ IsPool(trs') /\ trs'.max = trs.max /\ trs'.n = trs.n /\ trs'.st = trs.st
  BY <1>1, RelinkedIs
<1>8. clean => Dense(pts') /\ Dense(trs')
  BY <1>1, <1>4, <1>6, <1>7 DEF Dense
<1>9. clean /\ NoOldLink(pts') => FreeListOK(pts', PackedList(pts'))
  BY <1>3, <1>4, <1>5, RelinkedList
<1>10. clean /\ NoOldLink(trs') => FreeListOK(trs', PackedList(trs'))
  BY <1>1, RelinkedList
<1> QED
  BY <1>2, <1>3, <1>6, <1>7, <1>8, <1>9, <1>10

(* Each loop of MMG2D_pack keeps the inductive invariant: one case for     *)
(* each of its steps.                                                      *)
LEMMA PackingInv ==
  ASSUME IndInv,
         \/ StartPack \/ NumberVertex \/ NumberEnd \/ SlideTria \/ TriasEnd
         \/ SlidePoint \/ PackEnd
  PROVE  IndInv'
<1>0. /\ IsPool(pts) /\ IsPool(trs) /\ pts.max # 0 /\ trs.max # 0
      /\ at \in Nat /\ nbl \in Nat /\ clean \in BOOLEAN
      /\ PackInv
      /\ "zero" \in Status /\ "nul" \in Status /\ "zero" # "live" /\ "nul" # "live"
  BY DEF IndInv, TypeOK, Status
(* No loop pays anything; the two arrays keep their size.                  *)
<1>1. ASSUME IsPool(pts'), IsPool(trs'), pts'.max = pts.max, trs'.max = trs.max,
             UNCHANGED <<memCur, solMax, adjMax, gap, calls>>, clean' \in BOOLEAN,
             stage' \in {"open", "number", "trias", "points", "packed"},
             at' \in Nat, nbl' \in Nat
      PROVE  TypeOK' /\ Budget' /\ pts'.max # 0 /\ trs'.max # 0
  BY <1>0, <1>1 DEF IndInv, TypeOK, Budget
<1>2. CASE StartPack
  <2>1. /\ stage = "open" /\ stage' = "number" /\ at' = 1 /\ nbl' = 1
        /\ UNCHANGED <<pts, trs, freeP, freeT, memCur, solMax, adjMax, gap, calls, clean>>
    BY <1>2 DEF StartPack, Loop
  <2>2. clean => Sliding(pts, 1, 1) /\ Sliding(trs, 1, 1)
    BY <1>0, <2>1, SlidingStarts DEF IndInv, VertexListOK, TriaListOK, Listed
  <2>3. Cursor(pts, 1, 1) /\ Chain(pts, 1, 0, 1) /\ NextNumber(pts, 1, 1)
    <3>1. pts.n \in Nat
      BY <1>0 DEF IsPool
    <3> QED
      BY <3>1 DEF Cursor, Chain, NextNumber
  <2>4. PackInv'
    BY <2>1, <2>2, <2>3 DEF PackInv
  <2>5. ~Listed'
    BY <2>1 DEF Listed
  <2> QED
    BY <1>0, <1>1, <2>1, <2>4, <2>5 DEF IndInv, VertexListOK, TriaListOK
<1>3. CASE NumberVertex
  <2>1. PICK j \in Ahead(pts, at) : /\ Nearest(pts, at, j)
                                    /\ pts' = Number(pts, j, nbl)
                                    /\ NextSlot(j)
    BY <1>3 DEF NumberVertex
  <2>2. /\ stage = "number" /\ stage' = stage /\ at' = j + 1 /\ nbl' = nbl + 1
        /\ UNCHANGED <<trs, freeP, freeT, memCur, solMax, adjMax, gap, calls, clean>>
    BY <1>3, <2>1 DEF NumberVertex, NextSlot
  <2>3. /\ Cursor(pts, at, nbl)
        /\ Chain(pts, 1, at - 1, 1) /\ NextNumber(pts, at, nbl)
        /\ clean => Sliding(pts, 1, 1) /\ Sliding(trs, 1, 1)
    BY <1>0, <2>2 DEF PackInv
  <2>4. /\ IsPool(pts') /\ pts'.max = pts.max /\ pts'.n = pts.n /\ pts'.st = pts.st
        /\ Cursor(pts', j + 1, nbl + 1)
        /\ Chain(pts', 1, j, 1)
        /\ NextNumber(pts', j + 1, nbl + 1)
    BY <1>0, <2>1, <2>3, NumberKeeps
  <2>5. clean => Sliding(pts', 1, 1)
    BY <2>3, <2>4 DEF Sliding
  <2>6. j \in Nat
    BY <1>0, <2>1, <2>3, NearestIs
  <2>7. (j + 1) - 1 = j
    BY <2>6
  <2>8. PackInv'
    BY <2>2, <2>3, <2>4, <2>5, <2>7 DEF PackInv
  <2>9. ~Listed'
    BY <2>2 DEF Listed
  <2> QED
    BY <1>0, <1>1, <2>2, <2>4, <2>6, <2>8, <2>9 DEF IndInv, VertexListOK, TriaListOK
<1>4. CASE NumberEnd
  <2>1. /\ stage = "number" /\ stage' = "trias" /\ at' = 1 /\ nbl' = 1
        /\ Ahead(pts, at) = {}
        /\ UNCHANGED <<pts, trs, freeP, freeT, memCur, solMax, adjMax, gap, calls, clean>>
    BY <1>4 DEF NumberEnd, Loop
  <2>2. /\ Cursor(pts, at, nbl) /\ Chain(pts, 1, at - 1, 1)
        /\ clean => Sliding(pts, 1, 1) /\ Sliding(trs, 1, 1)
    BY <1>0, <2>1 DEF PackInv
  <2>3. Chain(pts, 1, pts.n, 1)
    BY <1>0, <2>1, <2>2, NumberEnds
  <2>4. Cursor(trs, 1, 1)
    <3>1. trs.n \in Nat
      BY <1>0 DEF IsPool
    <3> QED
      BY <3>1 DEF Cursor
  <2>5. PackInv'
    BY <2>1, <2>2, <2>3, <2>4 DEF PackInv
  <2>6. ~Listed'
    BY <2>1 DEF Listed
  <2> QED
    BY <1>0, <1>1, <2>1, <2>5, <2>6 DEF IndInv, VertexListOK, TriaListOK
<1>5. CASE SlideTria
  <2>1. PICK j \in Ahead(trs, at) : /\ Nearest(trs, at, j)
                                    /\ trs' = SlideSlot(trs, j, nbl, "nul")
                                    /\ NextSlot(j)
    BY <1>5 DEF SlideTria
  <2>2. /\ stage = "trias" /\ stage' = stage /\ at' = j + 1 /\ nbl' = nbl + 1
        /\ UNCHANGED <<pts, freeP, freeT, memCur, solMax, adjMax, gap, calls, clean>>
    BY <1>5, <2>1 DEF SlideTria, NextSlot
  <2>3. /\ Cursor(trs, at, nbl) /\ Chain(pts, 1, pts.n, 1)
        /\ clean => Sliding(pts, 1, 1) /\ Sliding(trs, at, nbl)
    BY <1>0, <2>2 DEF PackInv
  <2>4. /\ IsPool(trs') /\ trs'.max = trs.max /\ trs'.n = trs.n
        /\ Cursor(trs', j + 1, nbl + 1)
        /\ Sliding(trs, at, nbl) => Sliding(trs', j + 1, nbl + 1)
    BY <1>0, <2>1, <2>3, SlideKeeps
  <2>5. j \in Nat
    BY <1>0, <2>1, <2>3, NearestIs
  <2>6. PackInv'
    BY <2>2, <2>3, <2>4 DEF PackInv
  <2>7. ~Listed'
    BY <2>2 DEF Listed
  <2> QED
    BY <1>0, <1>1, <2>2, <2>4, <2>5, <2>6, <2>7 DEF IndInv, VertexListOK, TriaListOK
<1>6. CASE TriasEnd
  <2>1. /\ stage = "trias" /\ stage' = "points" /\ at' = 1 /\ nbl' = 1
        /\ Ahead(trs, at) = {} /\ trs' = EndAt(trs, nbl - 1)
        /\ UNCHANGED <<pts, freeP, freeT, memCur, solMax, adjMax, gap, calls, clean>>
    BY <1>6 DEF TriasEnd, Loop
  <2>2. /\ Cursor(trs, at, nbl) /\ Chain(pts, 1, pts.n, 1)
        /\ clean => Sliding(pts, 1, 1) /\ Sliding(trs, at, nbl)
    BY <1>0, <2>1 DEF PackInv
  <2>3. /\ IsPool(trs') /\ trs'.max = trs.max
        /\ Sliding(trs, at, nbl) => Dense(trs')
    BY <1>0, <2>1, <2>2, SlidingEnds
  <2>4. Cursor(pts, 1, 1)
    <3>1. pts.n \in Nat
      BY <1>0 DEF IsPool
    <3> QED
      BY <3>1 DEF Cursor
  <2>5. PackInv'
    BY <2>1, <2>2, <2>3, <2>4 DEF PackInv
  <2>6. ~Listed'
    BY <2>1 DEF Listed
  <2> QED
    BY <1>0, <1>1, <2>1, <2>3, <2>5, <2>6 DEF IndInv, VertexListOK, TriaListOK
<1>7. CASE SlidePoint
  <2>1. PICK j \in Ahead(pts, at) : /\ Nearest(pts, at, j)
                                    /\ pts' = SlideSlot(pts, j, nbl, "zero")
                                    /\ NextSlot(j)
    BY <1>7 DEF SlidePoint
  <2>2. /\ stage = "points" /\ stage' = stage /\ at' = j + 1 /\ nbl' = nbl + 1
        /\ UNCHANGED <<trs, freeP, freeT, memCur, solMax, adjMax, gap, calls, clean>>
    BY <1>7, <2>1 DEF SlidePoint, NextSlot
  <2>3. /\ Cursor(pts, at, nbl) /\ Chain(pts, at, pts.n, nbl)
        /\ clean => Sliding(pts, at, nbl) /\ Dense(trs)
    BY <1>0, <2>2 DEF PackInv
  <2>4. /\ IsPool(pts') /\ pts'.max = pts.max /\ pts'.n = pts.n
        /\ Cursor(pts', j + 1, nbl + 1)
        /\ Sliding(pts, at, nbl) => Sliding(pts', j + 1, nbl + 1)
        /\ Chain(pts, at, pts.n, nbl) => Chain(pts', j + 1, pts'.n, nbl + 1)
    BY <1>0, <2>1, <2>3, SlideKeeps
  <2>5. j \in Nat
    BY <1>0, <2>1, <2>3, NearestIs
  <2>6. PackInv'
    BY <2>2, <2>3, <2>4 DEF PackInv
  <2>7. ~Listed'
    BY <2>2 DEF Listed
  <2> QED
    BY <1>0, <1>1, <2>2, <2>4, <2>5, <2>6, <2>7 DEF IndInv, VertexListOK, TriaListOK
<1>8. CASE PackEnd
  <2>1. /\ stage = "points" /\ stage' = "packed" /\ at' = 1 /\ nbl' = 1
        /\ UNCHANGED <<memCur, solMax, adjMax, gap, calls>>
        /\ clean' = (clean /\ NoOldLink(pts') /\ NoOldLink(trs'))
        /\ freeP' = PackedList(pts') /\ freeT' = PackedList(trs')
    BY <1>8 DEF PackEnd, Loop
  <2>2. /\ IsPool(pts') /\ pts'.max = pts.max
        /\ IsPool(trs') /\ trs'.max = trs.max
        /\ clean => Dense(pts') /\ Dense(trs')
        /\ clean /\ NoOldLink(pts') => FreeListOK(pts', PackedList(pts'))
        /\ clean /\ NoOldLink(trs') => FreeListOK(trs', PackedList(trs'))
    BY <1>8, EndOfPack
  <2>3. clean' \in BOOLEAN
    BY <2>1
  <2>4. clean' => FreeListOK(pts', freeP') /\ FreeListOK(trs', freeT')
    BY <2>1, <2>2
  <2>5. PackInv'
    BY <2>1 DEF PackInv
  <2> QED
    BY <1>0, <1>1, <2>1, <2>2, <2>3, <2>4, <2>5 DEF IndInv, VertexListOK, TriaListOK, Listed
<1> QED
  BY <1>2, <1>3, <1>4, <1>5, <1>6, <1>7, <1>8

(* Each step of a call and the next call keep the inductive invariant.     *)
LEMMA StepInv == IndInv /\ [Next]_vars => IndInv'
<1> SUFFICES ASSUME IndInv, [Next]_vars PROVE IndInv'
  OBVIOUS
<1>1. CASE Operation
  BY <1>1, OperationInv
<1>2. CASE \/ StartPack \/ NumberVertex \/ NumberEnd \/ SlideTria \/ TriasEnd
           \/ SlidePoint \/ PackEnd
  BY <1>2, PackingInv
<1>3. CASE CallAgain
  <2>1. /\ stage = "packed" /\ stage' = "open" /\ at' = 1 /\ nbl' = 1 /\ calls' = calls + 1
        /\ UNCHANGED <<pts, trs, freeP, freeT, memCur, solMax, adjMax, gap, clean>>
    BY <1>3 DEF CallAgain, Loop
  <2>2. Listed' = Listed
    BY <2>1 DEF Listed
  <2>3. PackInv'
    BY <2>1 DEF PackInv
  <2> QED
    BY <2>1, <2>2, <2>3 DEF IndInv, TypeOK, VertexListOK, TriaListOK, Budget
<1>4. CASE UNCHANGED vars
  BY <1>4 DEF vars, IndInv, TypeOK, VertexListOK, TriaListOK, Listed, Budget, PackInv
<1> QED
  BY <1>1, <1>2, <1>3, <1>4 DEF Next, Call, Operation

(* The inductive invariant holds in every state of every sequence of       *)
(* calls.                                                                  *)
LEMMA InvHolds == Spec => []IndInv
<1>1. Init => IndInv
  BY InitInv
<1>2. IndInv /\ [Next]_vars => IndInv'
  BY StepInv
<1> QED
  BY <1>1, <1>2, PTL DEF Spec

-------------------------------------------------------------------------------
(* Every state of the allocator is well typed: the indices stored in the   *)
(* two arrays stay inside them whatever sequence of calls is made.         *)
THEOREM TypeCorrect == Spec => []TypeOK
<1>1. IndInv => TypeOK
  BY DEF IndInv
<1> QED
  BY <1>1, InvHolds, PTL

(* Both lists of empty slots hold exactly the slots that are out of use    *)
(* (MMG2D_newPt, MMG2D_delPt, MMG2D_newElt, MMG2D_delElt, the reallocation *)
(* macros), up to a packing that leaves an old link behind.                *)
THEOREM VertexListCorrect == Spec => []VertexListOK
<1>1. IndInv => VertexListOK
  BY DEF IndInv
<1> QED
  BY <1>1, InvHolds, PTL

(* The same for the triangles.                                             *)
THEOREM TriaListCorrect == Spec => []TriaListOK
<1>1. IndInv => TriaListOK
  BY DEF IndInv
<1> QED
  BY <1>1, InvHolds, PTL

(* What the arrays cost never exceeds the memory that memOption leaves.    *)
THEOREM BudgetKept == Spec => []Budget
<1>1. IndInv => Budget
  BY DEF IndInv
<1> QED
  BY <1>1, InvHolds, PTL

(* MMG2D_newPt and MMG2D_newElt hand out no identifier in use: while no    *)
(* packing has left an old link behind, NextIdFree holds.                  *)
THEOREM CleanNextIdFree == Spec => [](clean => NextIdFree)
<1>1. IndInv => (clean => NextIdFree)
  <2> SUFFICES ASSUME IndInv, clean, stage = "open"
               PROVE  pts.nil \notin Live(pts) /\ trs.nil \notin Live(trs)
    BY DEF NextIdFree
  <2>1. /\ IsPool(pts) /\ FreeListOK(pts, freeP)
        /\ IsPool(trs) /\ FreeListOK(trs, freeT)
    BY DEF IndInv, TypeOK, VertexListOK, TriaListOK, Listed
  <2>2. pts.nil \notin Live(pts)
    BY <2>1, HeadIsFree DEF Live
  <2>3. trs.nil \notin Live(trs)
    BY <2>1, HeadIsFree DEF Live
  <2> QED
    BY <2>2, <2>3
<1> QED
  BY <1>1, InvHolds, PTL

-------------------------------------------------------------------------------
(* During one library call no packing has left an old link behind until    *)
(* the only one is over, and its loops have made both arrays dense.        *)
CallInv == /\ IndInv
           /\ stage # "packed" => clean
           /\ stage = "packed" => Dense(pts) /\ Dense(trs)

(* During one library call, the inductive invariant holds without its      *)
(* condition on the links left by MMG2D_pack.                              *)
LEMMA CallInvHolds == OneCall => []CallInv
<1>1. Init => CallInv
  BY InitInv DEF CallInv, Init
<1>2. CallInv /\ [Call]_vars => CallInv'
  <2> SUFFICES ASSUME CallInv, [Call]_vars PROVE CallInv'
    OBVIOUS
  <2>1. IndInv'
    BY StepInv DEF CallInv, Next
  <2>2. CASE Operation
    BY <2>1, <2>2, OperationStage DEF CallInv
  <2>3. CASE PackEnd
    <3>1. stage = "points" /\ stage' = "packed"
      BY <2>3 DEF PackEnd, Loop
    <3>2. Dense(pts') /\ Dense(trs')
      BY <2>3, <3>1, EndOfPack DEF CallInv
    <3> QED
      BY <2>1, <3>1, <3>2 DEF CallInv
  <2>4. CASE StartPack \/ NumberVertex \/ NumberEnd \/ SlideTria \/ TriasEnd \/ SlidePoint
    <3>1. stage # "packed" /\ stage' # "packed" /\ clean' = clean
      BY <2>4 DEF StartPack, NumberVertex, NumberEnd, SlideTria, TriasEnd, SlidePoint,
                  Loop, NextSlot
    <3> QED
      BY <2>1, <3>1 DEF CallInv
  <2>5. CASE UNCHANGED vars
    BY <2>1, <2>5 DEF vars, CallInv
  <2> QED
    BY <2>2, <2>3, <2>4, <2>5 DEF Call, Operation
<1> QED
  BY <1>1, <1>2, PTL DEF OneCall

(* Each vertex slides to the slot its triangles know it by, and when       *)
(* MMG2D_pack is done the vertices and the triangles in use are 1 .. np    *)
(* and 1 .. nt.  Nothing of it is in the definition of a step: a step      *)
(* copies one slot and clears it.                                          *)
THEOREM PackedIsDense == OneCall => []PackedDense
<1>1. CallInv => PackedDense
  <2> SUFFICES ASSUME CallInv PROVE PackedDense
    OBVIOUS
  <2>1. IsPool(pts) /\ IsPool(trs) /\ at \in Nat /\ nbl \in Nat
    BY DEF CallInv, IndInv, TypeOK
  <2>2. ASSUME stage = "points", NEW j \in Ahead(pts, at), Nearest(pts, at, j)
        PROVE  pts.link[j] = nbl
    <3>1. Cursor(pts, at, nbl) /\ Chain(pts, at, pts.n, nbl)
      BY <2>2 DEF CallInv, IndInv, PackInv
    <3> QED
      BY <2>1, <2>2, <3>1, NumberOfNearest
  <2>3. ASSUME stage = "packed" PROVE Live(pts) = 1..pts.n /\ Live(trs) = 1..trs.n
    BY <2>1, <2>3, DenseLive DEF CallInv
  <2> QED
    BY <2>2, <2>3 DEF PackedDense
<1> QED
  BY <1>1, CallInvHolds, PTL

-------------------------------------------------------------------------------
(* Refinement: during one library call each array is an IdAllocator.  The  *)
(* lists have to be right for a step of the array to be one of the         *)
(* allocator, and so has the invariant of the loops of MMG2D_pack.         *)

(* What is known of one array while the call runs.                         *)
LEMMA Running ==
  ASSUME CallInv
  PROVE  /\ IsPool(pts) /\ IsPool(trs)
         /\ at \in Nat /\ nbl \in Nat
         /\ stage = "open" => FreeListOK(pts, freeP) /\ FreeListOK(trs, freeT)
BY DEF CallInv, IndInv, TypeOK, VertexListOK, TriaListOK, Listed

(* A growth that is granted, as a number of slots.                         *)
LEMMA GrantedNat ==
  ASSUME CallInv, NEW size \in Nat \ {0}, NEW w \in Wanted(size, gap),
         NEW bytes \in Nat \ {0}, Granted(w, bytes) >= 1
  PROVE  Granted(w, bytes) \in Nat \ {0}
<1>1. memCur \in Nat /\ memCur <= MemMax /\ gap \in [num : Nat \ {0}, den : Nat \ {0}]
  BY DEF CallInv, IndInv, TypeOK, Budget
<1>2. w \in Nat
  BY <1>1, WantedPositive
<1>3. Granted(w, bytes) \in Nat
  BY <1>1, <1>2, GrantedFits
<1> QED
  BY <1>3

(* The same for the triangles, whose growth is checked first.              *)
LEMMA CheckedNat ==
  ASSUME CallInv, NEW c \in CheckedGaps(trs.max),
         NEW bytes \in Nat \ {0}, Granted(c[2], bytes) >= 1
  PROVE  Granted(c[2], bytes) \in Nat \ {0}
<1>1. memCur \in Nat /\ memCur <= MemMax
  BY DEF CallInv, IndInv, TypeOK, Budget
<1>2. c[2] \in Nat
  BY CheckedGapType DEF CallInv, IndInv
<1>3. Granted(c[2], bytes) \in Nat
  BY <1>1, <1>2, GrantedFits
<1> QED
  BY <1>3

(* Handing out the next slot, deleting one and sliding one, seen as a      *)
(* change of the set of slots in use.                                      *)
LEMMA AllocStep ==
  ASSUME NEW p, IsPool(p), p.nil # 0, NEW f, FreeListOK(p, f)
  PROVE  \E id \in Live(NewSlot(p)) \ Live(p) :
            id \in Nat \ {0} /\ Live(NewSlot(p)) = Live(p) \union {id}
<1>1. p.nil \in 1..p.max /\ p.nil \notin Live(p)
  BY HeadIsFree DEF Live
<1>2. Live(NewSlot(p)) = Live(p) \union {p.nil}
  BY NewSlotLive
<1>3. p.nil \in Nat \ {0}
  BY <1>1 DEF IsPool
<1> QED
  BY <1>1, <1>2, <1>3

(* A reallocation followed by the creation of a vertex or a triangle hands *)
(* out one identifier that was free.                                       *)
LEMMA GrowAllocStep ==
  ASSUME NEW p, IsPool(p), p.nil = 0, NEW f, FreeListOK(p, f),
         NEW g \in Nat \ {0}, NEW blank \in Status, blank # "live"
  PROVE  LET q == GrowPool(p, g, blank)
         IN  \E id \in Live(NewSlot(q)) \ Live(p) :
                id \in Nat \ {0} /\ Live(NewSlot(q)) = Live(p) \union {id}
<1> DEFINE q == GrowPool(p, g, blank)
<1>1. IsPool(q) /\ q.nil = p.n + 1 /\ Live(q) = Live(p)
  BY GrowPoolType, GrowPoolLive
<1>2. q.nil # 0
  BY <1>1 DEF IsPool
<1>3. FreeListOK(q, FreshList(q.n, q.max))
  BY GrowPoolList
<1> HIDE DEF q
<1> QED
  BY <1>1, <1>2, <1>3, AllocStep DEF q

(* The deletion of the last vertex in use, on the error path of            *)
(* MMG2D_chkspl, gives one identifier back.                                *)
LEMMA FreeStep ==
  ASSUME NEW p, IsPool(p), p.n > 0, NEW f, FreeListOK(p, f)
  PROVE  \E id \in Live(p) : Live(DelSlot(p, p.n)) = Live(p) \ {id}
<1>1. p.n \in 1..p.max /\ p.n \in Live(p)
  BY LastInUse
<1> QED
  BY <1>1, DelSlotLive

(* A slide moves one identifier in use to a smaller one nobody holds, or   *)
(* leaves it where it is.                                                  *)
LEMMA SlideStep ==
  ASSUME NEW p, IsPool(p), Cursor(p, at, nbl), Sliding(p, at, nbl),
         at \in Nat, nbl \in Nat,
         NEW j \in Ahead(p, at), Nearest(p, at, j), NEW blank \in Status, blank # "live"
  PROVE  LET q == SlideSlot(p, j, nbl, blank)
         IN  \/ Live(q) = Live(p)
             \/ \E id \in Live(p) : \E new \in (1..(id - 1)) \ Live(p) :
                   Live(q) = (Live(p) \ {id}) \union {new}
<1> DEFINE q == SlideSlot(p, j, nbl, blank)
<1>1. /\ j \in Nat /\ at <= j /\ j <= p.n /\ j \in 1..p.max /\ nbl \in 1..p.max
      /\ Valid(p, j) /\ \A k \in at..(j - 1) : ~Valid(p, k)
      /\ p.max \in Nat
  BY NearestIs
<1>2. /\ q.max = p.max /\ q.st[nbl] = p.st[j] /\ (j # nbl => q.st[j] = blank)
      /\ \A k \in 1..p.max : k # j /\ k # nbl => q.st[k] = p.st[k]
  BY <1>1, SlideIs
<1> HIDE DEF q
<1>3. p.st[j] = "live"
  <2>1. p.st[j] # "zero" /\ p.st[j] # "nul" /\ p.st[j] \in Status
    BY <1>1 DEF Sliding, Valid, IsPool
  <2> QED
    BY <2>1 DEF Status
<1>4. CASE j = nbl
  <2>1. Live(q) = Live(p)
    BY <1>2, <1>4 DEF Live
  <2> QED
    BY <2>1 DEF q
<1>5. CASE j # nbl
  <2>1. nbl \in 1..(j - 1) /\ p.st[nbl] # "live"
    <3>1. nbl <= at
      BY DEF Cursor
    <3>2. nbl \in 1..(j - 1)
      BY <1>1, <1>5, <3>1
    <3>3. CASE nbl < at
      BY <1>1, <3>3 DEF Sliding
    <3>4. CASE nbl = at
      BY <1>1, <3>2, <3>4 DEF Valid
    <3> QED
      BY <1>1, <3>1, <3>2, <3>3, <3>4
  <2>2. Live(q) = (Live(p) \ {j}) \union {nbl}
    BY <1>1, <1>2, <1>3, <1>5 DEF Live
  <2>3. j \in Live(p) /\ nbl \in (1..(j - 1)) \ Live(p)
    BY <1>1, <1>3, <2>1 DEF Live
  <2> QED
    BY <2>2, <2>3 DEF q
<1> QED
  BY <1>4, <1>5

(* The allocators count with the Cardinality of this module.               *)
LEMMA SameCount ==
  /\ \A S : Vertices!Cardinality(S) = Cardinality(S)
  /\ \A S : Trias!Cardinality(S) = Cardinality(S)
BY Zenon DEF Vertices!Cardinality, Trias!Cardinality, Cardinality,
       Vertices!IsFiniteSet, Trias!IsFiniteSet, IsFiniteSet

(* MMG2D_newPt, MMG2D_delPt, MMG2D_POINT_REALLOC and MMG2D_pack implement  *)
(* an allocator of vertex identifiers: no identifier in use is handed out, *)
(* and no vertex but the one that is named appears or disappears.          *)
LEMMA VertexStep == CallInv /\ [Call]_vars => [Vertices!Next]_<<Live(pts), Phase>>
<1> SUFFICES ASSUME CallInv, [Call]_vars
             PROVE  [Vertices!Next]_<<Live(pts), Phase>>
  OBVIOUS
<1>0. /\ IsPool(pts) /\ IsPool(trs)
      /\ at \in Nat /\ nbl \in Nat
      /\ stage = "open" => FreeListOK(pts, freeP) /\ FreeListOK(trs, freeT)
      /\ "zero" \in Status /\ "zero" # "live"
  BY Running DEF Status
<1>1. CASE NewVertex
  <2>1. Phase = "open" /\ Phase' = Phase /\ stage = "open" /\ pts' = NewSlot(pts) /\ pts.nil # 0
    BY <1>1 DEF NewVertex, Phase
  <2>2. \E id \in Live(pts') \ Live(pts) : id \in Nat \ {0} /\ Live(pts') = Live(pts) \union {id}
    BY <1>0, <2>1, AllocStep
  <2> QED
    BY <2>1, <2>2 DEF Vertices!Next, Vertices!Alloc
<1>2. CASE GrowVertices
  <2>1. /\ Phase = "open" /\ Phase' = Phase /\ stage = "open" /\ pts.nil = 0
        /\ \E w \in Wanted(pts.max, gap) :
              /\ Granted(w, PointBytes) >= 1
              /\ pts' = NewSlot(GrowPool(pts, Granted(w, PointBytes), "zero"))
    BY <1>2 DEF GrowVertices, Phase
  <2>2. PICK w \in Wanted(pts.max, gap) :
              /\ Granted(w, PointBytes) >= 1
              /\ pts' = NewSlot(GrowPool(pts, Granted(w, PointBytes), "zero"))
    BY <2>1
  <2>3. pts.max \in Nat \ {0}
    BY <1>0 DEF CallInv, IndInv, IsPool
  <2>4. Granted(w, PointBytes) \in Nat \ {0}
    BY <2>2, <2>3, GrantedNat
  <2>5. \E id \in Live(pts') \ Live(pts) : id \in Nat \ {0} /\ Live(pts') = Live(pts) \union {id}
    BY <1>0, <2>1, <2>2, <2>4, GrowAllocStep
  <2> QED
    BY <2>1, <2>5 DEF Vertices!Next, Vertices!Alloc
<1>3. CASE NoMoreVertex
  <2>1. Phase = "open" /\ Phase' = Phase /\ stage = "open" /\ pts' = DelSlot(pts, pts.n) /\ pts.n > 0
    BY <1>3 DEF NoMoreVertex, Phase
  <2>2. \E id \in Live(pts) : Live(pts') = Live(pts) \ {id}
    BY <1>0, <2>1, FreeStep
  <2> QED
    BY <2>1, <2>2 DEF Vertices!Next, Vertices!Free
<1>4. CASE NoMoreMetric
  <2>1. /\ Phase = "open" /\ Phase' = Phase /\ stage = "open" /\ pts.nil = 0 /\ pts.n > 0
        /\ \E w \in Wanted(pts.max, gap) :
             LET grown == GrowPool(pts, Granted(w, PointBytes), "zero")
             IN  /\ Granted(w, PointBytes) >= 1
                 /\ pts' = DelSlot(grown, grown.n)
    BY <1>4 DEF NoMoreMetric, Phase
  <2>2. PICK w \in Wanted(pts.max, gap) :
             LET grown == GrowPool(pts, Granted(w, PointBytes), "zero")
             IN  /\ Granted(w, PointBytes) >= 1
                 /\ pts' = DelSlot(grown, grown.n)
    BY <2>1
  <2> DEFINE grown == GrowPool(pts, Granted(w, PointBytes), "zero")
  <2>3. pts.max \in Nat \ {0}
    BY <1>0 DEF CallInv, IndInv, IsPool
  <2>4. Granted(w, PointBytes) \in Nat \ {0}
    BY <2>2, <2>3, GrantedNat
  <2>5. IsPool(grown) /\ grown.n = pts.n /\ Live(grown) = Live(pts)
    BY <1>0, <2>4, GrowPoolType, GrowPoolLive
  <2>6. FreeListOK(grown, FreshList(grown.n, grown.max))
    BY <1>0, <2>1, <2>4, GrowPoolList
  <2>7. pts' = DelSlot(grown, grown.n)
    BY <2>2
  <2> HIDE DEF grown
  <2>8. \E id \in Live(grown) : Live(pts') = Live(grown) \ {id}
    BY <2>1, <2>5, <2>6, <2>7, FreeStep
  <2> QED
    BY <2>1, <2>5, <2>8 DEF Vertices!Next, Vertices!Free
<1>5. CASE DeleteVertex
  <2>1. Phase = "open" /\ Phase' = Phase /\ stage = "open" /\ \E i \in Live(pts) : pts' = DelSlot(pts, i)
    BY <1>5 DEF DeleteVertex, Phase
  <2>2. \E id \in Live(pts) : Live(pts') = Live(pts) \ {id}
    BY <1>0, <2>1, DelSlotLive DEF Live
  <2> QED
    BY <2>1, <2>2 DEF Vertices!Next, Vertices!Free
<1>6. CASE StartPack
  <2>1. Phase = "open" /\ Phase' = "packing" /\ Live(pts') = Live(pts)
    BY <1>6 DEF StartPack, Loop, Phase
  <2> QED
    BY <2>1 DEF Vertices!Next, Vertices!StartPack
<1>16. CASE NumberVertex \/ NumberEnd \/ SlideTria \/ TriasEnd
  <2>1. Phase = "packing" /\ Phase' = "packing"
    BY <1>16 DEF NumberVertex, NumberEnd, SlideTria, TriasEnd, Loop, NextSlot, Phase
  <2>2. Live(pts') = Live(pts)
    <3>1. CASE NumberVertex
      <4>1. PICK j \in Ahead(pts, at) : Nearest(pts, at, j) /\ pts' = Number(pts, j, nbl)
        BY <3>1 DEF NumberVertex
      <4>2. pts'.max = pts.max /\ pts'.st = pts.st
        BY <4>1 DEF Number
      <4> QED
        BY <4>2 DEF Live
    <3>2. CASE NumberEnd \/ SlideTria \/ TriasEnd
      BY <3>2 DEF NumberEnd, SlideTria, TriasEnd
    <3> QED
      BY <1>16, <3>1, <3>2
  <2> QED
    BY <2>1, <2>2
<1>26. CASE SlidePoint
  <2>1. stage = "points" /\ Phase = "packing" /\ Phase' = "packing"
    BY <1>26 DEF SlidePoint, NextSlot, Phase
  <2>2. Cursor(pts, at, nbl) /\ Sliding(pts, at, nbl)
    BY <2>1 DEF CallInv, IndInv, PackInv
  <2>3. PICK j \in Ahead(pts, at) : Nearest(pts, at, j) /\ pts' = SlideSlot(pts, j, nbl, "zero")
    BY <1>26 DEF SlidePoint
  <2>4. \/ Live(pts') = Live(pts)
        \/ \E id \in Live(pts) : \E new \in (1..(id - 1)) \ Live(pts) :
              Live(pts') = (Live(pts) \ {id}) \union {new}
    BY <1>0, <2>2, <2>3, SlideStep
  <2> QED
    BY <2>1, <2>4 DEF Vertices!Next, Vertices!Move
<1>36. CASE PackEnd
  <2>1. Phase = "packing" /\ Phase' = "packed" /\ stage' = "packed"
    BY <1>36 DEF PackEnd, Loop, Phase
  <2>2. Live(pts') = Live(pts)
    <3>1. pts'.max = pts.max /\ pts'.st = pts.st
      BY <1>36 DEF PackEnd, Relinked, Unnumbered, EndAt
    <3> QED
      BY <3>1 DEF Live
  <2>3. IsPool(pts') /\ Dense(pts')
    BY <1>36, EndOfPack DEF CallInv, PackEnd
  <2>4. Live(pts) = 1..Cardinality(Live(pts))
    BY <2>2, <2>3, DenseLive
  <2> QED
    BY <2>1, <2>2, <2>4, SameCount DEF Vertices!Next, Vertices!EndPack
<1>7. CASE NewTria \/ GrowTrias \/ NoMoreTria \/ NoMoreAdja \/ DeleteTria \/ UNCHANGED vars
  <2>1. pts' = pts /\ Phase' = Phase
    BY <1>7 DEF NewTria, GrowTrias, NoMoreTria, NoMoreAdja, DeleteTria, vars, Phase
  <2> QED
    BY <2>1
<1> QED
  BY <1>1, <1>2, <1>3, <1>4, <1>5, <1>6, <1>7, <1>16, <1>26, <1>36 DEF Call

(* The refinement itself: OneCall implements the allocator of vertices.    *)
THEOREM VerticesRefine == OneCall => VertexIds
<1>1. Init => Vertices!Init
  <2> SUFFICES ASSUME Init PROVE Vertices!Init
    OBVIOUS
  <2>1. pts = InitialPool(NPoint, NPMax, "zero") /\ Phase = "open"
    BY DEF Init, Phase
  <2>2. "zero" \in Status /\ "zero" # "live"
    BY DEF Status
  <2>3. Live(pts) = 1..Cardinality(Live(pts))
    BY <2>1, <2>2, InitialPoolLive
  <2> QED
    BY <2>1, <2>3, SameCount DEF Vertices!Init
<1>2. CallInv /\ [Call]_vars => [Vertices!Next]_<<Live(pts), Phase>>
  BY VertexStep
<1> QED
  BY <1>1, <1>2, CallInvHolds, PTL DEF OneCall, VertexIds, Vertices!Spec

(* The same for the triangles: a growth whose adjacency table cannot       *)
(* follow is a stutter, since MMG2D_newElt is not called again.            *)
LEMMA TriaStep == CallInv /\ [Call]_vars => [Trias!Next]_<<Live(trs), Phase>>
<1> SUFFICES ASSUME CallInv, [Call]_vars
             PROVE  [Trias!Next]_<<Live(trs), Phase>>
  OBVIOUS
<1>0. /\ IsPool(pts) /\ IsPool(trs)
      /\ at \in Nat /\ nbl \in Nat
      /\ stage = "open" => FreeListOK(pts, freeP) /\ FreeListOK(trs, freeT)
      /\ "nul" \in Status /\ "nul" # "live"
  BY Running DEF Status
<1>1. CASE NewTria
  <2>1. Phase = "open" /\ Phase' = Phase /\ stage = "open" /\ trs' = NewSlot(trs) /\ trs.nil # 0
    BY <1>1 DEF NewTria, Phase
  <2>2. \E id \in Live(trs') \ Live(trs) : id \in Nat \ {0} /\ Live(trs') = Live(trs) \union {id}
    BY <1>0, <2>1, AllocStep
  <2> QED
    BY <2>1, <2>2 DEF Trias!Next, Trias!Alloc
<1>2. CASE GrowTrias
  <2>1. /\ Phase = "open" /\ Phase' = Phase /\ stage = "open" /\ trs.nil = 0
        /\ \E c \in CheckedGaps(trs.max) :
              /\ Granted(c[2], TriaBytes) >= 1
              /\ trs' = NewSlot(GrowPool(trs, Granted(c[2], TriaBytes), "nul"))
    BY <1>2 DEF GrowTrias, Phase
  <2>2. PICK c \in CheckedGaps(trs.max) :
              /\ Granted(c[2], TriaBytes) >= 1
              /\ trs' = NewSlot(GrowPool(trs, Granted(c[2], TriaBytes), "nul"))
    BY <2>1
  <2>3. Granted(c[2], TriaBytes) \in Nat \ {0}
    BY <2>2, CheckedNat
  <2>4. \E id \in Live(trs') \ Live(trs) : id \in Nat \ {0} /\ Live(trs') = Live(trs) \union {id}
    BY <1>0, <2>1, <2>2, <2>3, GrowAllocStep
  <2> QED
    BY <2>1, <2>4 DEF Trias!Next, Trias!Alloc
<1>3. CASE NoMoreAdja
  <2>1. /\ Phase' = Phase
        /\ \E c \in CheckedGaps(trs.max) :
              /\ Granted(c[2], TriaBytes) >= 1
              /\ trs' = GrowPool(trs, Granted(c[2], TriaBytes), "nul")
    BY <1>3 DEF NoMoreAdja, Phase
  <2>2. PICK c \in CheckedGaps(trs.max) :
              /\ Granted(c[2], TriaBytes) >= 1
              /\ trs' = GrowPool(trs, Granted(c[2], TriaBytes), "nul")
    BY <2>1
  <2>3. Granted(c[2], TriaBytes) \in Nat \ {0}
    BY <2>2, CheckedNat
  <2>4. Live(trs') = Live(trs)
    BY <1>0, <2>2, <2>3, GrowPoolLive
  <2> QED
    BY <2>1, <2>4
<1>4. CASE DeleteTria
  <2>1. Phase = "open" /\ Phase' = Phase /\ stage = "open" /\ \E i \in Live(trs) : trs' = DelSlot(trs, i)
    BY <1>4 DEF DeleteTria, Phase
  <2>2. \E id \in Live(trs) : Live(trs') = Live(trs) \ {id}
    BY <1>0, <2>1, DelSlotLive DEF Live
  <2> QED
    BY <2>1, <2>2 DEF Trias!Next, Trias!Free
<1>5. CASE StartPack
  <2>1. Phase = "open" /\ Phase' = "packing" /\ Live(trs') = Live(trs)
    BY <1>5 DEF StartPack, Loop, Phase
  <2> QED
    BY <2>1 DEF Trias!Next, Trias!StartPack
<1>15. CASE NumberVertex \/ NumberEnd \/ TriasEnd \/ SlidePoint
  <2>1. Phase = "packing" /\ Phase' = "packing"
    BY <1>15 DEF NumberVertex, NumberEnd, TriasEnd, SlidePoint, Loop, NextSlot, Phase
  <2>2. Live(trs') = Live(trs)
    <3>1. CASE TriasEnd
      <4>1. trs'.max = trs.max /\ trs'.st = trs.st
        BY <3>1 DEF TriasEnd, EndAt
      <4> QED
        BY <4>1 DEF Live
    <3>2. CASE NumberVertex \/ NumberEnd \/ SlidePoint
      BY <3>2 DEF NumberVertex, NumberEnd, SlidePoint
    <3> QED
      BY <1>15, <3>1, <3>2
  <2> QED
    BY <2>1, <2>2
<1>25. CASE SlideTria
  <2>1. stage = "trias" /\ Phase = "packing" /\ Phase' = "packing"
    BY <1>25 DEF SlideTria, NextSlot, Phase
  <2>2. Cursor(trs, at, nbl) /\ Sliding(trs, at, nbl)
    BY <2>1 DEF CallInv, IndInv, PackInv
  <2>3. PICK j \in Ahead(trs, at) : Nearest(trs, at, j) /\ trs' = SlideSlot(trs, j, nbl, "nul")
    BY <1>25 DEF SlideTria
  <2>4. \/ Live(trs') = Live(trs)
        \/ \E id \in Live(trs) : \E new \in (1..(id - 1)) \ Live(trs) :
              Live(trs') = (Live(trs) \ {id}) \union {new}
    BY <1>0, <2>2, <2>3, SlideStep
  <2> QED
    BY <2>1, <2>4 DEF Trias!Next, Trias!Move
<1>35. CASE PackEnd
  <2>1. Phase = "packing" /\ Phase' = "packed" /\ stage' = "packed"
    BY <1>35 DEF PackEnd, Loop, Phase
  <2>2. Live(trs') = Live(trs)
    <3>1. trs'.max = trs.max /\ trs'.st = trs.st
      BY <1>35 DEF PackEnd, Relinked
    <3> QED
      BY <3>1 DEF Live
  <2>3. IsPool(trs') /\ Dense(trs')
    BY <1>35, EndOfPack DEF CallInv, PackEnd
  <2>4. Live(trs) = 1..Cardinality(Live(trs))
    BY <2>2, <2>3, DenseLive
  <2> QED
    BY <2>1, <2>2, <2>4, SameCount DEF Trias!Next, Trias!EndPack
<1>6. CASE \/ NewVertex \/ GrowVertices \/ NoMoreVertex \/ NoMoreMetric \/ DeleteVertex
           \/ NoMoreTria \/ UNCHANGED vars
  <2>1. trs' = trs /\ Phase' = Phase
    BY <1>6 DEF NewVertex, GrowVertices, NoMoreVertex, NoMoreMetric, DeleteVertex,
                NoMoreTria, vars, Phase
  <2> QED
    BY <2>1
<1> QED
  BY <1>1, <1>2, <1>3, <1>4, <1>5, <1>6, <1>15, <1>25, <1>35 DEF Call

(* The refinement itself: OneCall implements the allocator of triangles.   *)
THEOREM TriasRefine == OneCall => TriaIds
<1>1. Init => Trias!Init
  <2> SUFFICES ASSUME Init PROVE Trias!Init
    OBVIOUS
  <2>1. trs = InitialPool(NTria, NTMax, "nul") /\ Phase = "open"
    BY DEF Init, Phase
  <2>2. "nul" \in Status /\ "nul" # "live"
    BY DEF Status
  <2>3. Live(trs) = 1..Cardinality(Live(trs))
    BY <2>1, <2>2, InitialPoolLive
  <2> QED
    BY <2>1, <2>3, SameCount DEF Trias!Init
<1>2. CallInv /\ [Call]_vars => [Trias!Next]_<<Live(trs), Phase>>
  BY TriaStep
<1> QED
  BY <1>1, <1>2, CallInvHolds, PTL DEF OneCall, TriaIds, Trias!Spec
===============================================================================
