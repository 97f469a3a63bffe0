---------------------------- MODULE Adapt2DProofs -----------------------------
(***************************************************************************)
(* For every mesh of the plane in which a vertex where two fans touch has  *)
(* been found singular (LoadedAssumption), every size of the two arrays    *)
(* and every order of the operators: the waves of the 2D remesher keep the *)
(* mesh sound, in which a step is one of those of Mesh2DProofs.            *)
(* From this inductive invariant follow the types of the arrays, the       *)
(* adjacency, the tags, the orientation and the use of the vertices, and   *)
(* two properties of the steps: what is singular or required is kept, and  *)
(* with info.fem no edge comes to span the domain.  The last part is about *)
(* MMG2D_anatri: what MMG2D_anaelt and MMG2D_hashTria make of such a mesh  *)
(* is conform, tagged, and without a vertex that is not used.              *)
(***************************************************************************)
EXTENDS Mesh2DProofs, Anatri2D

(* The inductive invariant: the arrays are typed, and as long as no slot   *)
(* was missing the mesh is sound.                                          *)
IInv == /\ mesh \in MeshSet
        /\ fem \in BOOLEAN /\ short \in BOOLEAN /\ ops \in Nat /\ moves \in Nat
        /\ ~short => Sound(mesh)

-------------------------------------------------------------------------------
(* The elementary changes of the arrays.                                   *)

(* Only the triangles change.                                              *)
Retri(m, m2) == m2 \in MeshSet /\ m2.pts = m.pts /\ m2.trs = m.trs /\ m2.point = m.point

Cells == DartSet \union {NoAdja}

LEMMA DartIs ==
  ASSUME NEW e \in DartSet
  PROVE  e[1] \in 1..NTMax /\ e[2] \in Local /\ e = <<e[1], e[2]>> /\ e # NoAdja
BY MeshAssumption DEF DartSet, NoAdja

LEMMA TriaParts ==
  ASSUME NEW m \in MeshSet, NEW k \in 1..NTMax
  PROVE  /\ m.tria[k] \in TriaSet
         /\ m.tria[k].v \in [Local -> 0..NPMax] /\ m.tria[k].tag \in [Local -> SUBSET TagSet]
         /\ m.tria[k].ref \in Nat /\ m.tria[k].adja \in [Local -> Cells]
         /\ m.tria[k] = [v |-> m.tria[k].v, tag |-> m.tria[k].tag, ref |-> m.tria[k].ref,
                         adja |-> m.tria[k].adja]
BY DEF MeshSet, TriaSet, Cells

(* The table of the triangles is replaced.                                 *)
LEMMA NewTria ==
  ASSUME NEW m \in MeshSet, NEW T \in [1..NTMax -> TriaSet], NEW m2, m2 = [m EXCEPT !.tria = T]
  PROVE  Retri(m, m2) /\ m2.tria = T
BY DEF MeshSet, Retri

LEMMA SetAdjaIs ==
  ASSUME NEW m \in MeshSet, NEW a \in DartSet, NEW b \in Cells, NEW m2, m2 = SetAdja(m, a, b)
  PROVE  /\ Retri(m, m2)
         /\ \A e \in DartSet : Vt(m2, e) = Vt(m, e) /\ Tg(m2, e) = Tg(m, e) /\ Rf(m2, e) = Rf(m, e)
         /\ Ad(m2, a) = b
         /\ \A e \in DartSet : e # a => Ad(m2, e) = Ad(m, e)
<1> DEFINE k == a[1]
           i == a[2]
           t == m.tria[k]
           t2 == [t EXCEPT !.adja[i] = b]
           T == [m.tria EXCEPT ![k] = t2]
<1>1. k \in 1..NTMax /\ i \in Local /\ a # NoAdja
  BY DartIs
<1>2. /\ t \in TriaSet /\ t.adja \in [Local -> Cells] /\ t2 \in TriaSet
      /\ t2.v = t.v /\ t2.tag = t.tag /\ t2.ref = t.ref /\ t2.adja = [t.adja EXCEPT ![i] = b]
  <2>1. t \in TriaSet /\ t.adja \in [Local -> Cells]
    BY <1>1, TriaParts
  <2>2. /\ t2.v = t.v /\ t2.tag = t.tag /\ t2.ref = t.ref /\ t2.adja = [t.adja EXCEPT ![i] = b]
    BY <2>1 DEF TriaSet
  <2>3. [t.adja EXCEPT ![i] = b] \in [Local -> Cells]
    BY <2>1
  <2>4. t2 \in TriaSet
    BY <2>1, <2>3 DEF TriaSet, Cells
  <2> QED
    BY <2>1, <2>2, <2>4
<1>3. T \in [1..NTMax -> TriaSet] /\ m2 = [m EXCEPT !.tria = T]
  <2>1. m.tria \in [1..NTMax -> TriaSet]
    BY DEF MeshSet
  <2>2. T \in [1..NTMax -> TriaSet]
    BY <1>2, <2>1
  <2>3. m2 = [m EXCEPT !.tria = T]
    BY <1>1 DEF SetAdja, NoAdja
  <2> QED
    BY <2>2, <2>3
<1> HIDE DEF T
<1>4. Retri(m, m2) /\ m2.tria = T
  BY <1>3, NewTria
<1>5. m.tria \in [1..NTMax -> TriaSet]
  BY DEF MeshSet
<1>6. ASSUME NEW e \in DartSet
      PROVE  /\ Vt(m2, e) = Vt(m, e) /\ Tg(m2, e) = Tg(m, e) /\ Rf(m2, e) = Rf(m, e)
             /\ e = a => Ad(m2, e) = b
             /\ e # a => Ad(m2, e) = Ad(m, e)
  <2>1. e[1] \in 1..NTMax /\ e[2] \in Local /\ e = <<e[1], e[2]>> /\ a = <<k, i>>
    BY DartIs
  <2>2. e[1] = k => m2.tria[e[1]] = t2
    BY <1>1, <1>4, <1>5 DEF T
  <2>3. e[1] # k => m2.tria[e[1]] = m.tria[e[1]]
    BY <1>4, <1>5, <2>1 DEF T
  <2> HIDE DEF t2
  <2>4. CASE e[1] = k
    <3>1. m2.tria[e[1]] = t2 /\ m.tria[e[1]] = t
      BY <2>2, <2>4
    <3>2. e[2] = i => [t.adja EXCEPT ![i] = b][e[2]] = b
      BY <1>1, <1>2
    <3>3. e[2] # i => [t.adja EXCEPT ![i] = b][e[2]] = t.adja[e[2]]
      BY <1>1, <1>2, <2>1
    <3>4. e = a <=> e[2] = i
      BY <2>1, <2>4
    <3> HIDE DEF t, k, i
    <3> QED
      BY <1>2, <3>1, <3>2, <3>3, <3>4 DEF Vt, Tg, Rf, Ad
  <2>5. CASE e[1] # k
    BY <2>1, <2>3, <2>5 DEF Vt, Tg, Rf, Ad
  <2> QED
    BY <2>4, <2>5
<1> QED
  BY <1>4, <1>6

Glued(m, m2, a, b) ==
    /\ Retri(m, m2)
    /\ \A e \in DartSet : Vt(m2, e) = Vt(m, e) /\ Tg(m2, e) = Tg(m, e) /\ Rf(m2, e) = Rf(m, e)
    /\ a # b => Ad(m2, a) = b
    /\ b # NoAdja => Ad(m2, b) = a
    /\ \A e \in DartSet : e # a /\ e # b => Ad(m2, e) = Ad(m, e)

LEMMA GlueIs ==
  ASSUME NEW m \in MeshSet, NEW a \in DartSet, NEW b \in Cells, NEW m2, m2 = Glue(m, a, b)
  PROVE  Glued(m, m2, a, b)
<1> SUFFICES /\ Retri(m, m2)
             /\ \A e \in DartSet : Vt(m2, e) = Vt(m, e) /\ Tg(m2, e) = Tg(m, e) /\ Rf(m2, e) = Rf(m, e)
             /\ a # b => Ad(m2, a) = b
             /\ b # NoAdja => Ad(m2, b) = a
             /\ \A e \in DartSet : e # a /\ e # b => Ad(m2, e) = Ad(m, e)
  BY DEF Glued
<1> DEFINE m1 == SetAdja(m, a, b)
<1>1. /\ Retri(m, m1)
      /\ \A e \in DartSet : Vt(m1, e) = Vt(m, e) /\ Tg(m1, e) = Tg(m, e) /\ Rf(m1, e) = Rf(m, e)
      /\ Ad(m1, a) = b
      /\ \A e \in DartSet : e # a => Ad(m1, e) = Ad(m, e)
  BY SetAdjaIs
<1>2. m2 = SetAdja(m1, b, a) /\ a \in Cells
  BY DEF Glue, Cells
<1> HIDE DEF m1
<1>3. CASE b = NoAdja
  <2>1. m2 = m1
    BY <1>2, <1>3 DEF SetAdja
  <2> QED
    BY <1>1, <1>3, <2>1
<1>4. CASE b # NoAdja
  <2>1. b \in DartSet /\ m1 \in MeshSet
    BY <1>1, <1>4 DEF Cells, Retri
  <2>2. /\ Retri(m1, m2)
        /\ \A e \in DartSet : Vt(m2, e) = Vt(m1, e) /\ Tg(m2, e) = Tg(m1, e) /\ Rf(m2, e) = Rf(m1, e)
        /\ Ad(m2, b) = a
        /\ \A e \in DartSet : e # b => Ad(m2, e) = Ad(m1, e)
    BY <1>2, <2>1, SetAdjaIs
  <2>3. Retri(m, m2)
    BY <1>1, <2>2 DEF Retri
  <2> QED
    BY <1>1, <2>2, <2>3
<1> QED
  BY <1>3, <1>4

Retagged(m, m2, a, tag) ==
    /\ Retri(m, m2)
    /\ \A e \in DartSet : Vt(m2, e) = Vt(m, e) /\ Ad(m2, e) = Ad(m, e) /\ Rf(m2, e) = Rf(m, e)
    /\ a # NoAdja => Tg(m2, a) = tag
    /\ \A e \in DartSet : e # a => Tg(m2, e) = Tg(m, e)

LEMMA SetTagIs ==
  ASSUME NEW m \in MeshSet, NEW a \in Cells, NEW tag \in SUBSET TagSet,
         NEW m2, m2 = SetTag(m, a, tag)
  PROVE  Retagged(m, m2, a, tag)
<1> SUFFICES /\ Retri(m, m2)
             /\ \A e \in DartSet : Vt(m2, e) = Vt(m, e) /\ Ad(m2, e) = Ad(m, e) /\ Rf(m2, e) = Rf(m, e)
             /\ a # NoAdja => Tg(m2, a) = tag
             /\ \A e \in DartSet : e # a => Tg(m2, e) = Tg(m, e)
  BY DEF Retagged
<1>0. CASE a = NoAdja
  BY <1>0 DEF SetTag, Retri
<1>00. CASE a # NoAdja
  <2> DEFINE k == a[1]
             i == a[2]
             t == m.tria[k]
             t2 == [t EXCEPT !.tag[i] = tag]
             T == [m.tria EXCEPT ![k] = t2]
  <2>1. a \in DartSet /\ k \in 1..NTMax /\ i \in Local
    BY <1>00, DartIs DEF Cells
  <2>2. /\ t \in TriaSet /\ t.tag \in [Local -> SUBSET TagSet] /\ t2 \in TriaSet
        /\ t2.v = t.v /\ t2.adja = t.adja /\ t2.ref = t.ref /\ t2.tag = [t.tag EXCEPT ![i] = tag]
    <3>1. t \in TriaSet /\ t.tag \in [Local -> SUBSET TagSet]
      BY <2>1, TriaParts
    <3>2. /\ t2.v = t.v /\ t2.adja = t.adja /\ t2.ref = t.ref /\ t2.tag = [t.tag EXCEPT ![i] = tag]
      BY <3>1 DEF TriaSet
    <3>3. [t.tag EXCEPT ![i] = tag] \in [Local -> SUBSET TagSet]
      BY <3>1
    <3>4. t2 \in TriaSet
      BY <3>1, <3>3 DEF TriaSet
    <3> QED
      BY <3>1, <3>2, <3>4
  <2>3. m.tria \in [1..NTMax -> TriaSet]
    BY DEF MeshSet
  <2>4. T \in [1..NTMax -> TriaSet] /\ m2 = [m EXCEPT !.tria = T]
    <3>1. T \in [1..NTMax -> TriaSet]
      BY <2>2, <2>3
    <3> QED
      BY <1>00, <3>1 DEF SetTag
  <2> HIDE DEF T
  <2>5. Retri(m, m2) /\ m2.tria = T
    BY <2>4, NewTria
  <2>6. ASSUME NEW e \in DartSet
        PROVE  /\ Vt(m2, e) = Vt(m, e) /\ Ad(m2, e) = Ad(m, e) /\ Rf(m2, e) = Rf(m, e)
               /\ e = a => Tg(m2, e) = tag
               /\ e # a => Tg(m2, e) = Tg(m, e)
    <3>1. e[1] \in 1..NTMax /\ e[2] \in Local /\ e = <<e[1], e[2]>> /\ a = <<k, i>>
      BY <2>1, DartIs
    <3>2. e[1] = k => m2.tria[e[1]] = t2
      BY <2>1, <2>3, <2>5 DEF T
    <3>3. e[1] # k => m2.tria[e[1]] = m.tria[e[1]]
      BY <2>3, <2>5, <3>1 DEF T
    <3> HIDE DEF t2
    <3>4. CASE e[1] = k
      <4>1. m2.tria[e[1]] = t2 /\ m.tria[e[1]] = t
        BY <3>2, <3>4
      <4>2. e[2] = i => [t.tag EXCEPT ![i] = tag][e[2]] = tag
        BY <2>1, <2>2
      <4>3. e[2] # i => [t.tag EXCEPT ![i] = tag][e[2]] = t.tag[e[2]]
        BY <2>1, <2>2, <3>1
      <4>4. e = a <=> e[2] = i
        BY <3>1, <3>4
      <4> HIDE DEF t, k, i
      <4> QED
        BY <2>2, <4>1, <4>2, <4>3, <4>4 DEF Vt, Tg, Rf, Ad
    <3>5. CASE e[1] # k
      BY <3>1, <3>3, <3>5 DEF Vt, Tg, Rf, Ad
    <3> QED
      BY <3>4, <3>5
  <2> QED
    BY <2>1, <2>5, <2>6
<1> QED
  BY <1>0, <1>00

Tagging(m, m2, a, tag) ==
    /\ Retri(m, m2)
    /\ \A e \in DartSet : Vt(m2, e) = Vt(m, e) /\ Ad(m2, e) = Ad(m, e) /\ Rf(m2, e) = Rf(m, e)
    /\ a # NoAdja => Tg(m2, a) = Tg(m, a) \union tag
    /\ \A e \in DartSet : e # a => Tg(m2, e) = Tg(m, e)

LEMMA AddTagIs ==
  ASSUME NEW m \in MeshSet, NEW a \in Cells, NEW tag \in SUBSET TagSet,
         NEW m2, m2 = AddTag(m, a, tag)
  PROVE  Tagging(m, m2, a, tag)
<1> SUFFICES /\ Retri(m, m2)
             /\ \A e \in DartSet : Vt(m2, e) = Vt(m, e) /\ Ad(m2, e) = Ad(m, e) /\ Rf(m2, e) = Rf(m, e)
             /\ a # NoAdja => Tg(m2, a) = Tg(m, a) \union tag
             /\ \A e \in DartSet : e # a => Tg(m2, e) = Tg(m, e)
  BY DEF Tagging
<1>0. CASE a = NoAdja
  BY <1>0 DEF AddTag, Retri
<1>00. CASE a # NoAdja
  <2>1. a \in DartSet
    BY <1>00 DEF Cells
  <2>2. Tg(m, a) \subseteq TagSet
    BY <2>1, MeshParts
  <2> DEFINE more == Tg(m, a) \union tag
  <2>3. more \in SUBSET TagSet
    BY <2>2
  <2>4. m2 = SetTag(m, a, more)
    <3>1. a[1] \in 1..NTMax /\ a[2] \in Local
      BY <2>1, DartIs
    <3>2. m.tria[a[1]] \in TriaSet /\ m.tria[a[1]].tag \in [Local -> SUBSET TagSet]
      BY <3>1, TriaParts
    <3> QED
      BY <1>00, <3>1, <3>2 DEF AddTag, SetTag, Tg, MeshSet
  <2> HIDE DEF more
  <2>5. /\ Retri(m, m2)
        /\ \A e \in DartSet : Vt(m2, e) = Vt(m, e) /\ Ad(m2, e) = Ad(m, e) /\ Rf(m2, e) = Rf(m, e)
        /\ Tg(m2, a) = more
        /\ \A e \in DartSet : e # a => Tg(m2, e) = Tg(m, e)
    <3>1. Retagged(m, m2, a, more)
      BY <2>3, <2>4, SetTagIs
    <3> QED
      BY <1>00, <3>1 DEF Retagged
  <2> QED
    BY <2>5 DEF more
<1> QED
  BY <1>0, <1>00

LEMMA PoolIs ==
  ASSUME NEW max \in Nat, NEW p
  PROVE  p \in PoolSet(max) <=> IsPool(p) /\ p.max = max
BY DEF PoolSet, IsPool

(* MMG2D_newPt.                                                            *)
LEMMA NewPtIs ==
  ASSUME NEW m \in MeshSet, m.pts.nil # 0, NEW c \in Int \X Int, NEW tag \in SUBSET TagSet,
         NEW m2, m2 = NewPt(m, c, tag)
  PROVE  /\ m2 \in MeshSet /\ m2.tria = m.tria /\ m2.trs = m.trs /\ m2.pts = NewSlot(m.pts)
         /\ m.pts.nil \in 1..NPMax
         /\ Live(m2.pts) = Live(m.pts) \union {m.pts.nil}
         /\ (\E f : FreeListOK(m.pts, f)) => (\E f : FreeListOK(m2.pts, f))
         /\ At(m2, m.pts.nil) = c /\ Pt(m2, m.pts.nil) = tag
         /\ \A q \in 1..NPMax : q # m.pts.nil => At(m2, q) = At(m, q) /\ Pt(m2, q) = Pt(m, q)
<1> DEFINE p == m.pts
           ip == p.nil
           new == [c |-> c, tag |-> tag]
           P2 == [m.point EXCEPT ![ip] = new]
<1>1. IsPool(p) /\ p.max = NPMax /\ NPMax \in Nat
  BY MeshParts, MeshAssumption
<1>2. ip \in 1..NPMax
  BY <1>1 DEF IsPool
<1>3. NewSlot(p) \in PoolSet(NPMax) /\ Live(NewSlot(p)) = Live(p) \union {ip}
  BY <1>1, NewSlotType, NewSlotLive, PoolIs
<1>4. (\E f : FreeListOK(p, f)) => (\E f : FreeListOK(NewSlot(p), f))
  BY <1>1, NewSlotList
<1>5. m.point \in [1..NPMax -> PointSet] /\ new \in PointSet
  BY DEF MeshSet, PointSet
<1>6. P2 \in [1..NPMax -> PointSet] /\ P2[ip] = new /\ \A q \in 1..NPMax : q # ip => P2[q] = m.point[q]
  BY <1>2, <1>5
<1>7. m2 = [m EXCEPT !.pts = NewSlot(p), !.point = P2]
  BY DEF NewPt
<1> HIDE DEF P2, p
<1>8. m2 \in MeshSet /\ m2.tria = m.tria /\ m2.trs = m.trs /\ m2.pts = NewSlot(p) /\ m2.point = P2
  BY <1>3, <1>6, <1>7 DEF MeshSet
<1>9. new.c = c /\ new.tag = tag
  OBVIOUS
<1> HIDE DEF new
<1> QED
  BY <1>2, <1>3, <1>4, <1>6, <1>8, <1>9 DEF At, Pt, p

(* MMG2D_delPt.                                                            *)
LEMMA DelPtIs ==
  ASSUME NEW m \in MeshSet, NEW ip \in 1..NPMax, NEW m2, m2 = DelPt(m, ip)
  PROVE  /\ m2 \in MeshSet /\ m2.tria = m.tria /\ m2.trs = m.trs
         /\ Live(m2.pts) = Live(m.pts) \ {ip}
         /\ ip \in Live(m.pts) /\ (\E f : FreeListOK(m.pts, f)) => (\E f : FreeListOK(m2.pts, f))
         /\ \A q \in 1..NPMax : q # ip => At(m2, q) = At(m, q) /\ Pt(m2, q) = Pt(m, q)
<1> DEFINE p == m.pts
           P2 == [m.point EXCEPT ![ip] = NoPoint]
<1>1. IsPool(p) /\ p.max = NPMax /\ NPMax \in Nat
  BY MeshParts, MeshAssumption
<1>3. DelSlot(p, ip) \in PoolSet(NPMax) /\ Live(DelSlot(p, ip)) = Live(p) \ {ip}
  BY <1>1, DelSlotType, DelSlotLive, PoolIs
<1>4. ip \in Live(p) /\ (\E f : FreeListOK(p, f)) => (\E f : FreeListOK(DelSlot(p, ip), f))
  BY <1>1, DelSlotList
<1>5. m.point \in [1..NPMax -> PointSet] /\ NoPoint \in PointSet
  BY DEF MeshSet, PointSet, NoPoint
<1>6. P2 \in [1..NPMax -> PointSet] /\ \A q \in 1..NPMax : q # ip => P2[q] = m.point[q]
  BY <1>5
<1>7. m2 = [m EXCEPT !.pts = DelSlot(p, ip), !.point = P2]
  BY DEF DelPt
<1> HIDE DEF P2, p
<1>8. m2 \in MeshSet /\ m2.tria = m.tria /\ m2.trs = m.trs /\ m2.pts = DelSlot(p, ip) /\ m2.point = P2
  BY <1>3, <1>6, <1>7 DEF MeshSet
<1> QED
  BY <1>3, <1>4, <1>6, <1>8 DEF At, Pt, p

(* MMG2D_delElt.                                                           *)
LEMMA DelEltIs ==
  ASSUME NEW m \in MeshSet, NEW k \in 1..NTMax, NEW m2, m2 = DelElt(m, k)
  PROVE  /\ m2 \in MeshSet /\ m2.point = m.point /\ m2.pts = m.pts
         /\ Live(m2.trs) = Live(m.trs) \ {k}
         /\ k \in Live(m.trs) /\ (\E f : FreeListOK(m.trs, f)) => (\E f : FreeListOK(m2.trs, f))
         /\ \A e \in DartSet : e[1] # k => /\ Vt(m2, e) = Vt(m, e) /\ Tg(m2, e) = Tg(m, e)
                                           /\ Rf(m2, e) = Rf(m, e) /\ Ad(m2, e) = Ad(m, e)
<1> DEFINE p == m.trs
           T2 == [m.tria EXCEPT ![k] = NoTria]
<1>1. IsPool(p) /\ p.max = NTMax /\ NTMax \in Nat
  BY MeshParts, MeshAssumption
<1>3. DelSlot(p, k) \in PoolSet(NTMax) /\ Live(DelSlot(p, k)) = Live(p) \ {k}
  BY <1>1, DelSlotType, DelSlotLive, PoolIs
<1>4. k \in Live(p) /\ (\E f : FreeListOK(p, f)) => (\E f : FreeListOK(DelSlot(p, k), f))
  BY <1>1, DelSlotList
<1>5. m.tria \in [1..NTMax -> TriaSet] /\ NoTria \in TriaSet
  BY MeshAssumption DEF MeshSet, TriaSet, NoTria
<1>6. T2 \in [1..NTMax -> TriaSet] /\ \A h \in 1..NTMax : h # k => T2[h] = m.tria[h]
  BY <1>5
<1>7. m2 = [m EXCEPT !.trs = DelSlot(p, k), !.tria = T2]
  BY DEF DelElt
<1> HIDE DEF T2, p
<1>8. m2 \in MeshSet /\ m2.point = m.point /\ m2.pts = m.pts /\ m2.trs = DelSlot(p, k) /\ m2.tria = T2
  BY <1>3, <1>6, <1>7 DEF MeshSet
<1>9. ASSUME NEW e \in DartSet, e[1] # k PROVE m2.tria[e[1]] = m.tria[e[1]]
  BY <1>6, <1>8, <1>9, DartIs
<1> QED
  BY <1>3, <1>4, <1>8, <1>9 DEF Vt, Tg, Rf, Ad, p

-------------------------------------------------------------------------------
(* MMG2D_split1b: one triangle, then the other.                            *)

(* The area of a triangle, taken from any of its corners, with or without  *)
(* another vertex at this corner.                                          *)
LEMMA AreaIs ==
  ASSUME NEW m \in MeshSet, NEW e \in DartSet,
         Vt(m, e) \in 1..NPMax, Vt(m, Nx(e)) \in 1..NPMax, Vt(m, Pv(e)) \in 1..NPMax
  PROVE  AreaOf(m, m.tria[e[1]].v) = Twice(m, e)
<1> DEFINE v == m.tria[e[1]].v
           P == At(m, v[0])
           Q == At(m, v[1])
           R == At(m, v[2])
<1>1. e[2] \in Local /\ e = <<e[1], e[2]>>
  BY DartIs
<1>2. Vt(m, e) = v[e[2]] /\ Vt(m, Nx(e)) = v[Nxt(e[2])] /\ Vt(m, Pv(e)) = v[Prv(e[2])]
  BY DEF Vt, Nx, Pv
<1> HIDE DEF v
<1>3. \/ e[2] = 0 /\ Nxt(e[2]) = 1 /\ Prv(e[2]) = 2
      \/ e[2] = 1 /\ Nxt(e[2]) = 2 /\ Prv(e[2]) = 0
      \/ e[2] = 2 /\ Nxt(e[2]) = 0 /\ Prv(e[2]) = 1
  BY <1>1 DEF Nxt, Prv, Local
<1>4. v[0] \in 1..NPMax /\ v[1] \in 1..NPMax /\ v[2] \in 1..NPMax
  BY <1>2, <1>3
<1>5. P \in Int \X Int /\ Q \in Int \X Int /\ R \in Int \X Int
  BY <1>4, MeshParts
<1>6. AreaOf(m, v) = Area(P, Q, R)
  BY DEF AreaOf, At
<1>7. \/ Twice(m, e) = Area(P, Q, R)
      \/ Twice(m, e) = Area(Q, R, P)
      \/ Twice(m, e) = Area(R, P, Q)
  BY <1>2, <1>3 DEF Twice
<1> HIDE DEF P, Q, R
<1>8. Area(Q, R, P) = Area(P, Q, R) /\ Area(R, P, Q) = Area(Q, R, P)
  BY <1>5, AreaTurns
<1>9. AreaOf(m, v) = Twice(m, e)
  BY <1>6, <1>7, <1>8
<1> QED
  BY <1>9 DEF v

LEMMA WithIs ==
  ASSUME NEW m \in MeshSet, NEW e \in DartSet, NEW ip \in 1..NPMax,
         Vt(m, Nx(e)) \in 1..NPMax, Vt(m, Pv(e)) \in 1..NPMax
  PROVE  AreaOf(m, With(m, e[1], e[2], ip)) = Area(At(m, ip), At(m, Vt(m, Nx(e))), At(m, Vt(m, Pv(e))))
<1> DEFINE v == With(m, e[1], e[2], ip)
           P == At(m, v[0])
           Q == At(m, v[1])
           R == At(m, v[2])
<1>1. e[1] \in 1..NTMax /\ e[2] \in Local /\ e = <<e[1], e[2]>>
  BY DartIs
<1>2. m.tria[e[1]].v \in [Local -> 0..NPMax]
  BY <1>1, TriaParts
<1>3. \/ e[2] = 0 /\ Nxt(e[2]) = 1 /\ Prv(e[2]) = 2
      \/ e[2] = 1 /\ Nxt(e[2]) = 2 /\ Prv(e[2]) = 0
      \/ e[2] = 2 /\ Nxt(e[2]) = 0 /\ Prv(e[2]) = 1
  BY <1>1 DEF Nxt, Prv, Local
<1>4. v[e[2]] = ip /\ Vt(m, Nx(e)) = v[Nxt(e[2])] /\ Vt(m, Pv(e)) = v[Prv(e[2])]
  <2>1. Nxt(e[2]) \in Local /\ Prv(e[2]) \in Local /\ Nxt(e[2]) # e[2] /\ Prv(e[2]) # e[2]
    BY <1>3 DEF Local
  <2>2. Vt(m, Nx(e)) = m.tria[e[1]].v[Nxt(e[2])] /\ Vt(m, Pv(e)) = m.tria[e[1]].v[Prv(e[2])]
    BY DEF Vt, Nx, Pv
  <2> QED
    BY <1>1, <1>2, <2>1, <2>2 DEF With
<1> HIDE DEF v
<1>5. v[0] \in 1..NPMax /\ v[1] \in 1..NPMax /\ v[2] \in 1..NPMax
  BY <1>3, <1>4
<1>6. P \in Int \X Int /\ Q \in Int \X Int /\ R \in Int \X Int
  BY <1>5, MeshParts
<1>7. AreaOf(m, v) = Area(P, Q, R)
  BY DEF AreaOf, At
<1> DEFINE A == Area(At(m, ip), At(m, Vt(m, Nx(e))), At(m, Vt(m, Pv(e))))
<1>8. A = Area(P, Q, R) \/ A = Area(Q, R, P) \/ A = Area(R, P, Q)
  BY <1>3, <1>4
<1> HIDE DEF P, Q, R, A
<1>9. Area(Q, R, P) = Area(P, Q, R) /\ Area(R, P, Q) = Area(Q, R, P)
  BY <1>6, AreaTurns
<1>10. AreaOf(m, v) = A
  BY <1>7, <1>8, <1>9
<1> QED
  BY <1>10 DEF v, A

(* The half of a split: triangle a[1] keeps vertex a[2], vertex b[2]       *)
(* becomes ip; n, the new triangle, is the other half.                     *)
HalfKept(m, m2, n, a, b, ip, e) ==
    /\ Rf(m2, e) = Rf(m, e)
    /\ e = b => Vt(m2, e) = ip
    /\ e # b => Vt(m2, e) = Vt(m, e)
    /\ e = a => Tg(m2, e) = {} /\ Ad(m2, e) = <<n, b[2]>>
    /\ e # a => Tg(m2, e) = Tg(m, e)
    /\ e = Ad(m, a) => Ad(m2, e) = <<n, a[2]>>
    /\ e # a /\ e # Ad(m, a) => Ad(m2, e) = Ad(m, e)

HalfNew(m, m2, n, a, b, ip, e) ==
    /\ Rf(m2, <<n, e[2]>>) = Rf(m, e)
    /\ e = a => Vt(m2, <<n, e[2]>>) = ip
    /\ e # a => Vt(m2, <<n, e[2]>>) = Vt(m, e)
    /\ e = b => Tg(m2, <<n, e[2]>>) = {} /\ Ad(m2, <<n, e[2]>>) = a
    /\ e # b => Tg(m2, <<n, e[2]>>) = Tg(m, e) /\ Ad(m2, <<n, e[2]>>) = Ad(m, e)

Halves(m, m2, n, a, b, ip) ==
    /\ \A e \in DartSet : e[1] # n => HalfKept(m, m2, n, a, b, ip, e)
    /\ \A e \in DartSet : e[1] = a[1] => HalfNew(m, m2, n, a, b, ip, e)

Cleaved(m, m2, n, a, b, ip) ==
    /\ m2 \in MeshSet /\ m2.pts = m.pts /\ m2.point = m.point /\ n \in 1..NTMax
    /\ Live(m2.trs) = Live(m.trs) \union {n} /\ m2.trs = NewSlot(m.trs)
    /\ (\E f : FreeListOK(m.trs, f)) => (\E f : FreeListOK(m2.trs, f))
    /\ Halves(m, m2, n, a, b, ip)

LEMMA HalfIs ==
  ASSUME NEW m \in MeshSet, m.trs.nil # 0, NEW n, n = m.trs.nil,
         NEW a \in DartSet, NEW b \in DartSet, a[1] = b[1], a # b, n # a[1],
         NEW ip \in 0..NPMax, NEW x, x = Ad(m, a), x[1] \notin {a[1], n},
         NEW m2, m2 = Half(m, a[1], n, a[2], b[2], ip)
  PROVE  Cleaved(m, m2, n, a, b, ip)
<1> DEFINE k  == a[1]
           i  == a[2]
           j  == b[2]
           pt == m.tria[k]
           kept == [pt EXCEPT !.v[j] = ip, !.tag[i] = {}, !.adja[i] = <<n, j>>]
           new  == [pt EXCEPT !.v[i] = ip, !.tag[j] = {}, !.adja[j] = <<k, i>>]
           cut  == [m EXCEPT !.trs = NewSlot(@), !.tria[k] = kept, !.tria[n] = new]
           T    == [[m.tria EXCEPT ![k] = kept] EXCEPT ![n] = new]
<1>1. k \in 1..NTMax /\ i \in Local /\ j \in Local /\ a = <<k, i>> /\ b = <<k, j>> /\ i # j
  BY DartIs
<1>2. IsPool(m.trs) /\ m.trs.max = NTMax /\ NTMax \in Nat
  BY MeshParts, MeshAssumption
<1>3. n \in 1..NTMax
  BY <1>2 DEF IsPool
<1>4. NewSlot(m.trs) \in PoolSet(NTMax) /\ Live(NewSlot(m.trs)) = Live(m.trs) \union {n}
  BY <1>2, NewSlotType, NewSlotLive, PoolIs
<1>5. (\E f : FreeListOK(m.trs, f)) => (\E f : FreeListOK(NewSlot(m.trs), f))
  BY <1>2, NewSlotList
<1>6. /\ pt.v \in [Local -> 0..NPMax] /\ pt.tag \in [Local -> SUBSET TagSet]
      /\ pt.ref \in Nat /\ pt.adja \in [Local -> Cells]
      /\ pt = [v |-> pt.v, tag |-> pt.tag, ref |-> pt.ref, adja |-> pt.adja]
  BY <1>1, TriaParts
<1>7. <<n, j>> \in Cells /\ <<k, i>> \in Cells
  BY <1>1, <1>3 DEF Cells, DartSet
<1>8. /\ kept = [v |-> [pt.v EXCEPT ![j] = ip], tag |-> [pt.tag EXCEPT ![i] = {}], ref |-> pt.ref,
                 adja |-> [pt.adja EXCEPT ![i] = <<n, j>>]]
      /\ new = [v |-> [pt.v EXCEPT ![i] = ip], tag |-> [pt.tag EXCEPT ![j] = {}], ref |-> pt.ref,
                adja |-> [pt.adja EXCEPT ![j] = <<k, i>>]]
  <2> HIDE DEF pt, k, i, j
  <2>1. ASSUME NEW h \in {i, j}, NEW g \in {i, j}, NEW y
        PROVE  [pt EXCEPT !.v[h] = ip, !.tag[g] = {}, !.adja[g] = y]
                  = [v |-> [pt.v EXCEPT ![h] = ip], tag |-> [pt.tag EXCEPT ![g] = {}], ref |-> pt.ref,
                     adja |-> [pt.adja EXCEPT ![g] = y]]
    <3> DEFINE v == pt.v
               tag == pt.tag
               ref == pt.ref
               adja == pt.adja
    <3>1. pt = [v |-> v, tag |-> tag, ref |-> ref, adja |-> adja]
      BY <1>6
    <3> HIDE DEF v, tag, ref, adja
    <3>2. [pt EXCEPT !.v[h] = ip, !.tag[g] = {}, !.adja[g] = y]
             = [v |-> [v EXCEPT ![h] = ip], tag |-> [tag EXCEPT ![g] = {}], ref |-> ref,
                adja |-> [adja EXCEPT ![g] = y]]
      <4> DEFINE t1 == [pt EXCEPT !.v[h] = ip]
                 t2 == [t1 EXCEPT !.tag[g] = {}]
                 t3 == [t2 EXCEPT !.adja[g] = y]
      <4>1. t1 = [v |-> [v EXCEPT ![h] = ip], tag |-> tag, ref |-> ref, adja |-> adja]
        BY <3>1
      <4>2. t2 = [v |-> [v EXCEPT ![h] = ip], tag |-> [tag EXCEPT ![g] = {}], ref |-> ref, adja |-> adja]
        <5> HIDE DEF t1
        <5> QED
          BY <4>1
      <4>3. t3 = [v |-> [v EXCEPT ![h] = ip], tag |-> [tag EXCEPT ![g] = {}], ref |-> ref,
                  adja |-> [adja EXCEPT ![g] = y]]
        <5> HIDE DEF t2
        <5> QED
          BY <4>2
      <4>4. [pt EXCEPT !.v[h] = ip, !.tag[g] = {}, !.adja[g] = y] = t3
        OBVIOUS
      <4> QED
        BY <4>3, <4>4
    <3> QED
      BY <3>2, Zenon DEF v, tag, ref, adja
  <2> QED
    BY <2>1, Zenon DEF kept, new
<1> HIDE DEF kept, new
<1>9. kept \in TriaSet /\ new \in TriaSet
  <2>1. /\ [pt.v EXCEPT ![j] = ip] \in [Local -> 0..NPMax] /\ [pt.v EXCEPT ![i] = ip] \in [Local -> 0..NPMax]
        /\ [pt.tag EXCEPT ![i] = {}] \in [Local -> SUBSET TagSet]
        /\ [pt.tag EXCEPT ![j] = {}] \in [Local -> SUBSET TagSet]
        /\ [pt.adja EXCEPT ![i] = <<n, j>>] \in [Local -> Cells]
        /\ [pt.adja EXCEPT ![j] = <<k, i>>] \in [Local -> Cells]
    BY <1>6, <1>7
  <2> HIDE DEF k, i, j, pt
  <2> QED
    BY <1>6, <1>8, <2>1 DEF TriaSet, Cells
<1>10. m.tria \in [1..NTMax -> TriaSet]
  BY DEF MeshSet
<1>11. T \in [1..NTMax -> TriaSet] /\ T[n] = new /\ T[k] = kept
       /\ \A h \in 1..NTMax : h # k /\ h # n => T[h] = m.tria[h]
  BY <1>1, <1>3, <1>9, <1>10
<1>12. cut = [m EXCEPT !.trs = NewSlot(@), !.tria = T]
  BY DEF MeshSet
<1> HIDE DEF T
<1>13. cut \in MeshSet /\ cut.pts = m.pts /\ cut.point = m.point /\ cut.trs = NewSlot(m.trs) /\ cut.tria = T
  BY <1>4, <1>11, <1>12 DEF MeshSet
<1>14. x = pt.adja[i] /\ x \in Cells /\ m2 = SetAdja(cut, x, <<n, i>>)
  BY <1>1, <1>6 DEF Half, Ad, kept, new
<1> HIDE DEF cut
<1>15. <<n, i>> \in Cells /\ <<n, i>> \in DartSet
  BY <1>1, <1>3 DEF Cells, DartSet
<1>16. /\ Retri(cut, m2)
       /\ \A e \in DartSet : Vt(m2, e) = Vt(cut, e) /\ Tg(m2, e) = Tg(cut, e) /\ Rf(m2, e) = Rf(cut, e)
       /\ \A e \in DartSet : e = x => Ad(m2, e) = <<n, i>>
       /\ \A e \in DartSet : e # x => Ad(m2, e) = Ad(cut, e)
  <2>1. CASE x = NoAdja
    <3>1. m2 = cut
      BY <1>14, <2>1 DEF SetAdja
    <3>2. \A e \in DartSet : e # x
      BY <2>1, DartIs
    <3> QED
      BY <1>13, <3>1, <3>2 DEF Retri
  <2>2. CASE x \in DartSet
    <3> DEFINE y == <<n, i>>
    <3>1. y \in Cells /\ m2 = SetAdja(cut, x, y)
      BY <1>14, <1>15
    <3> HIDE DEF y
    <3>2. /\ Retri(cut, m2)
          /\ \A e \in DartSet : Vt(m2, e) = Vt(cut, e) /\ Tg(m2, e) = Tg(cut, e) /\ Rf(m2, e) = Rf(cut, e)
          /\ Ad(m2, x) = y
          /\ \A e \in DartSet : e # x => Ad(m2, e) = Ad(cut, e)
      BY <1>13, <2>2, <3>1, SetAdjaIs
    <3> QED
      BY <3>2 DEF y
  <2> QED
    BY <1>14, <2>1, <2>2 DEF Cells
<1>17. ASSUME NEW e \in DartSet, e[1] = k
       PROVE  /\ Rf(cut, e) = Rf(m, e)
              /\ e = b => Vt(cut, e) = ip
              /\ e # b => Vt(cut, e) = Vt(m, e)
              /\ e = a => Tg(cut, e) = {} /\ Ad(cut, e) = <<n, j>>
              /\ e # a => Tg(cut, e) = Tg(m, e) /\ Ad(cut, e) = Ad(m, e)
              /\ Rf(cut, <<n, e[2]>>) = Rf(m, e)
              /\ e = a => Vt(cut, <<n, e[2]>>) = ip
              /\ e # a => Vt(cut, <<n, e[2]>>) = Vt(m, e)
              /\ e = b => Tg(cut, <<n, e[2]>>) = {} /\ Ad(cut, <<n, e[2]>>) = <<k, i>>
              /\ e # b => Tg(cut, <<n, e[2]>>) = Tg(m, e) /\ Ad(cut, <<n, e[2]>>) = Ad(m, e)
  <2> DEFINE h == e[2]
  <2>1. h \in Local /\ (e = a <=> h = i) /\ (e = b <=> h = j)
    BY <1>1, <1>17, DartIs
  <2>2. /\ Vt(cut, e) = kept.v[h] /\ Tg(cut, e) = kept.tag[h] /\ Rf(cut, e) = kept.ref /\ Ad(cut, e) = kept.adja[h]
        /\ Vt(cut, <<n, h>>) = new.v[h] /\ Tg(cut, <<n, h>>) = new.tag[h]
        /\ Rf(cut, <<n, h>>) = new.ref /\ Ad(cut, <<n, h>>) = new.adja[h]
        /\ Vt(m, e) = pt.v[h] /\ Tg(m, e) = pt.tag[h] /\ Rf(m, e) = pt.ref /\ Ad(m, e) = pt.adja[h]
    BY <1>11, <1>13, <1>17 DEF Vt, Tg, Rf, Ad
  <2>3. /\ h = j => [pt.v EXCEPT ![j] = ip][h] = ip
        /\ h # j => [pt.v EXCEPT ![j] = ip][h] = pt.v[h]
        /\ h = i => [pt.v EXCEPT ![i] = ip][h] = ip
        /\ h # i => [pt.v EXCEPT ![i] = ip][h] = pt.v[h]
        /\ h = i => [pt.tag EXCEPT ![i] = {}][h] = {}
        /\ h # i => [pt.tag EXCEPT ![i] = {}][h] = pt.tag[h]
        /\ h = j => [pt.tag EXCEPT ![j] = {}][h] = {}
        /\ h # j => [pt.tag EXCEPT ![j] = {}][h] = pt.tag[h]
        /\ h = i => [pt.adja EXCEPT ![i] = <<n, j>>][h] = <<n, j>>
        /\ h # i => [pt.adja EXCEPT ![i] = <<n, j>>][h] = pt.adja[h]
        /\ h = j => [pt.adja EXCEPT ![j] = <<k, i>>][h] = <<k, i>>
        /\ h # j => [pt.adja EXCEPT ![j] = <<k, i>>][h] = pt.adja[h]
    BY <1>1, <1>6, <2>1
  <2> HIDE DEF h, k, i, j, pt
  <2>4. /\ kept.v = [pt.v EXCEPT ![j] = ip] /\ kept.tag = [pt.tag EXCEPT ![i] = {}] /\ kept.ref = pt.ref
        /\ kept.adja = [pt.adja EXCEPT ![i] = <<n, j>>]
        /\ new.v = [pt.v EXCEPT ![i] = ip] /\ new.tag = [pt.tag EXCEPT ![j] = {}] /\ new.ref = pt.ref
        /\ new.adja = [pt.adja EXCEPT ![j] = <<k, i>>]
    BY <1>8
  <2>5. /\ Rf(cut, e) = Rf(m, e)
        /\ e = b => Vt(cut, e) = ip
        /\ e # b => Vt(cut, e) = Vt(m, e)
        /\ e = a => Tg(cut, e) = {} /\ Ad(cut, e) = <<n, j>>
        /\ e # a => Tg(cut, e) = Tg(m, e) /\ Ad(cut, e) = Ad(m, e)
    BY <2>1, <2>2, <2>3, <2>4
  <2>6. /\ Rf(cut, <<n, h>>) = Rf(m, e)
        /\ e = a => Vt(cut, <<n, h>>) = ip
        /\ e # a => Vt(cut, <<n, h>>) = Vt(m, e)
        /\ e = b => Tg(cut, <<n, h>>) = {} /\ Ad(cut, <<n, h>>) = <<k, i>>
        /\ e # b => Tg(cut, <<n, h>>) = Tg(m, e) /\ Ad(cut, <<n, h>>) = Ad(m, e)
    BY <2>1, <2>2, <2>3, <2>4
  <2> QED
    BY <2>5, <2>6 DEF h
<1>18. ASSUME NEW e \in DartSet, e[1] # k, e[1] # n
       PROVE  Rf(cut, e) = Rf(m, e) /\ Vt(cut, e) = Vt(m, e) /\ Tg(cut, e) = Tg(m, e) /\ Ad(cut, e) = Ad(m, e)
  <2>1. cut.tria[e[1]] = m.tria[e[1]]
    BY <1>11, <1>13, <1>18, DartIs
  <2> QED
    BY <2>1 DEF Vt, Tg, Rf, Ad
<1>19. m2 \in MeshSet /\ m2.pts = m.pts /\ m2.point = m.point /\ m2.trs = NewSlot(m.trs)
  BY <1>13, <1>16 DEF Retri
<1>20. a[1] = k /\ b[1] = k
  OBVIOUS
<1>21. ASSUME NEW e \in DartSet, e[1] # n
       PROVE  /\ Rf(m2, e) = Rf(m, e)
              /\ e = b => Vt(m2, e) = ip
              /\ e # b => Vt(m2, e) = Vt(m, e)
              /\ e = a => Tg(m2, e) = {} /\ Ad(m2, e) = <<n, b[2]>>
              /\ e # a => Tg(m2, e) = Tg(m, e)
              /\ e = x => Ad(m2, e) = <<n, a[2]>>
              /\ e # a /\ e # x => Ad(m2, e) = Ad(m, e)
  <2>1. e = x => e[1] # k
    OBVIOUS
  <2>2. e[1] # k => e # a /\ e # b
    OBVIOUS
  <2> HIDE DEF k
  <2> QED
    BY <1>16, <1>17, <1>18, <1>20, <1>21, <2>1, <2>2
<1>22. ASSUME NEW e \in DartSet, e[1] = a[1]
       PROVE  /\ Rf(m2, <<n, e[2]>>) = Rf(m, e)
              /\ e = a => Vt(m2, <<n, e[2]>>) = ip
              /\ e # a => Vt(m2, <<n, e[2]>>) = Vt(m, e)
              /\ e = b => Tg(m2, <<n, e[2]>>) = {} /\ Ad(m2, <<n, e[2]>>) = a
              /\ e # b => Tg(m2, <<n, e[2]>>) = Tg(m, e) /\ Ad(m2, <<n, e[2]>>) = Ad(m, e)
  <2> DEFINE g == <<n, e[2]>>
  <2>1. g \in DartSet /\ g # x
    BY <1>3, DartIs DEF DartSet
  <2> HIDE DEF g
  <2>2. Vt(m2, g) = Vt(cut, g) /\ Tg(m2, g) = Tg(cut, g) /\ Rf(m2, g) = Rf(cut, g) /\ Ad(m2, g) = Ad(cut, g)
    BY <1>16, <2>1
  <2> QED
    BY <1>1, <1>17, <1>22, <2>2 DEF g
<1>23. Halves(m, m2, n, a, b, ip)
  <2> HIDE DEF k, i, j, pt
  <2> QED
    BY <1>21, <1>22 DEF Halves, HalfKept, HalfNew
<1> QED
  BY <1>3, <1>4, <1>5, <1>19, <1>23 DEF Cleaved

LEMMA NilIsFree ==
  ASSUME NEW p, IsPool(p), p.nil # 0, \E f : FreeListOK(p, f)
  PROVE  p.nil \in 1..p.max /\ p.nil \notin Live(p)
<1>1. PICK f : FreeListOK(p, f)
  OBVIOUS
<1>2. p.nil \in 1..p.max /\ p.st[p.nil] # "live"
  BY <1>1, HeadIsFree
<1> QED
  BY <1>2 DEF Live

(* What the arrays of a mesh with one more vertex say of its triangles.    *)
SameTria(m, m1) == m1 \in MeshSet /\ m1.tria = m.tria /\ m1.trs = m.trs

LEMMA SameTriaIs ==
  ASSUME NEW m, NEW m1, SameTria(m, m1)
  PROVE  /\ Darts(m1) = Darts(m)
         /\ \A e : Vt(m1, e) = Vt(m, e) /\ Ad(m1, e) = Ad(m, e) /\ Tg(m1, e) = Tg(m, e) /\ Rf(m1, e) = Rf(m, e)
BY DEF SameTria, Darts, Vt, Ad, Tg, Rf

LEMMA HalvesSame ==
  ASSUME NEW m, NEW m1, SameTria(m, m1), NEW m2, NEW n, NEW a, NEW b, NEW ip, Halves(m1, m2, n, a, b, ip)
  PROVE  Halves(m, m2, n, a, b, ip)
<1>1. \A e : Vt(m1, e) = Vt(m, e) /\ Ad(m1, e) = Ad(m, e) /\ Tg(m1, e) = Tg(m, e) /\ Rf(m1, e) = Rf(m, e)
  BY SameTriaIs
<1>2. ASSUME NEW e, HalfKept(m1, m2, n, a, b, ip, e) PROVE HalfKept(m, m2, n, a, b, ip, e)
  BY <1>1, <1>2 DEF HalfKept
<1>3. ASSUME NEW e, HalfNew(m1, m2, n, a, b, ip, e) PROVE HalfNew(m, m2, n, a, b, ip, e)
  BY <1>1, <1>3 DEF HalfNew
<1> QED
  BY <1>2, <1>3 DEF Halves

(* The first half of a split.                                              *)
LEMMA FirstHalfIs ==
  ASSUME NEW m, Solid(m), Lists(m), NEW s \in Darts(m), NEW m1, SameTria(m, m1), m.trs.nil # 0,
         NEW ip \in 1..NPMax, NEW m2, m2 = FirstHalf(m1, s[1], s[2], ip), NEW n, n = m.trs.nil
  PROVE  /\ m2 \in MeshSet /\ m2.pts = m1.pts /\ m2.point = m1.point
         /\ n \in 1..NTMax /\ n \notin Live(m.trs)
         /\ Live(m2.trs) = Live(m.trs) \union {n}
         /\ \E f : FreeListOK(m2.trs, f)
         /\ Halves(m, m2, n, Nx(s), Pv(s), ip)
<1>0. m \in MeshSet /\ m1 \in MeshSet /\ m1.trs = m.trs
  BY DEF Solid, SameTria
<1>1. IsPool(m.trs) /\ m.trs.max = NTMax /\ \E f : FreeListOK(m.trs, f)
  BY <1>0, MeshParts DEF Lists
<1>2. n \in 1..NTMax /\ n \notin Live(m.trs)
  BY <1>1, NilIsFree
<1> DEFINE a == Nx(s)
           b == Pv(s)
           x == Ad(m, a)
<1>3. /\ a \in Darts(m) /\ b \in Darts(m) /\ a \in DartSet /\ b \in DartSet
      /\ a[1] = s[1] /\ b[1] = s[1] /\ a # b /\ s[1] \in Live(m.trs)
  BY <1>0, DartsTurn, MeshParts
<1>4. x[1] \notin {s[1], n}
  <2>1. CASE x = NoAdja
    <3>1. s[1] \in 1..NTMax /\ x[1] = 0
      BY <1>0, <1>3, <2>1, MeshParts DEF NoAdja
    <3> QED
      BY <1>2, <3>1, MeshAssumption
  <2>2. CASE x # NoAdja
    <3>1. x \in Darts(m) /\ x[1] # s[1]
      BY <1>3, <2>2, Twin
    <3>2. x[1] \in Live(m.trs)
      BY <3>1, DartsTurn
    <3> QED
      BY <1>2, <3>1, <3>2
  <2> QED
    BY <2>1, <2>2
<1>5. m2 = Half(m1, a[1], n, a[2], b[2], ip)
  BY <1>0 DEF FirstHalf, Nx, Pv
<1>6. x = Ad(m1, a)
  BY SameTriaIs
<1> HIDE DEF a, b, x
<1>7. n = m1.trs.nil /\ x[1] \notin {a[1], n} /\ ip \in 0..NPMax /\ n # a[1] /\ m1.trs.nil # 0 /\ a[1] = b[1] /\ a # b
  BY <1>0, <1>2, <1>3, <1>4, MeshAssumption
<1>8. /\ m2 \in MeshSet /\ m2.pts = m1.pts /\ m2.point = m1.point
      /\ Live(m2.trs) = Live(m1.trs) \union {n}
      /\ (\E f : FreeListOK(m1.trs, f)) => (\E f : FreeListOK(m2.trs, f))
      /\ Halves(m1, m2, n, a, b, ip)
  <2>1. m1 \in MeshSet /\ a \in DartSet /\ b \in DartSet
    BY <1>0, <1>3
  <2>2. m2 = Half(m1, a[1], n, a[2], b[2], ip)
    BY <1>5
  <2>3. PICK aa, bb, xx : aa = a /\ bb = b /\ xx = x
    OBVIOUS
  <2> HIDE DEF a, b, x
  <2>4. aa \in DartSet /\ bb \in DartSet /\ m2 = Half(m1, aa[1], n, aa[2], bb[2], ip) /\ xx = Ad(m1, aa)
        /\ n = m1.trs.nil /\ xx[1] \notin {aa[1], n} /\ ip \in 0..NPMax /\ n # aa[1] /\ m1.trs.nil # 0 /\ aa[1] = bb[1] /\ aa # bb
    BY <2>1, <2>2, <2>3, <1>6, <1>7
  <2>5. Cleaved(m1, m2, n, aa, bb, ip)
    BY <2>1, <2>4, HalfIs
  <2> QED
    BY <2>3, <2>5 DEF Cleaved
<1>9. Halves(m, m2, n, a, b, ip)
  BY <1>8, HalvesSame
<1>10. Live(m2.trs) = Live(m.trs) \union {n} /\ \E f : FreeListOK(m2.trs, f)
  BY <1>0, <1>1, <1>8
<1> QED
  BY <1>2, <1>8, <1>9, <1>10 DEF a, b

(* The vertex that is created.                                             *)
LEMMA SplitPoint ==
  ASSUME NEW m, Sound(m), NEW s \in Darts(m), m.pts.nil # 0,
         NEW c \in Int \X Int, NEW m1, m1 = NewPt(m, c, Tg(m, s)), NEW ip, ip = m.pts.nil
  PROVE  /\ SameTria(m, m1) /\ ip \in 1..NPMax /\ ip \notin Live(m.pts)
         /\ Live(m1.pts) = Live(m.pts) \union {ip}
         /\ \E f : FreeListOK(m1.pts, f)
         /\ \A p \in Live(m.pts) : At(m1, p) = At(m, p) /\ Pt(m1, p) = Pt(m, p)
         /\ At(m1, ip) = c /\ Pt(m1, ip) = Tg(m, s)
<1>0. m \in MeshSet /\ Lists(m)
  BY DEF Sound
<1>1. IsPool(m.pts) /\ m.pts.max = NPMax /\ \E f : FreeListOK(m.pts, f)
  BY <1>0, MeshParts DEF Lists
<1>2. ip \in 1..NPMax /\ ip \notin Live(m.pts)
  BY <1>1, NilIsFree
<1>3. s \in DartSet
  BY <1>0, MeshParts
<1> DEFINE tag == Tg(m, s)
<1>4. tag \in SUBSET TagSet
  BY <1>0, <1>3, MeshParts
<1>5. m1 = NewPt(m, c, tag)
  OBVIOUS
<1> HIDE DEF tag
<1>6. /\ m1 \in MeshSet /\ m1.tria = m.tria /\ m1.trs = m.trs
      /\ Live(m1.pts) = Live(m.pts) \union {m.pts.nil}
      /\ (\E f : FreeListOK(m.pts, f)) => (\E f : FreeListOK(m1.pts, f))
      /\ At(m1, m.pts.nil) = c /\ Pt(m1, m.pts.nil) = tag
      /\ \A q \in 1..NPMax : q # m.pts.nil => At(m1, q) = At(m, q) /\ Pt(m1, q) = Pt(m, q)
  BY <1>0, <1>4, <1>5, NewPtIs
<1>7. \A p \in Live(m.pts) : p \in 1..NPMax /\ p # ip
  BY <1>0, <1>2, MeshParts
<1>8. \E f : FreeListOK(m1.pts, f)
  BY <1>1, <1>6
<1> QED
  BY <1>2, <1>6, <1>7, <1>8 DEF SameTria, tag

(* The split of an edge of the boundary.                                   *)
LEMMA SplitOpen ==
  ASSUME NEW m, Sound(m), NEW s \in Darts(m), Ad(m, s) = NoAdja, m.pts.nil # 0, m.trs.nil # 0,
         NEW c \in Int \X Int, NEW m1, m1 = NewPt(m, c, Tg(m, s)), NEW ip, ip = m.pts.nil,
         NEW m2, m2 = FirstHalf(m1, s[1], s[2], ip), NEW nn, nn = [e \in {s} |-> m.trs.nil]
  PROVE  Splits(m, m2, s, {s}, nn, ip) /\ m2.point = m1.point
<1> DEFINE n == m.trs.nil
<1>0. Solid(m) /\ Lists(m) /\ m \in MeshSet
  BY DEF Sound, Solid
<1>3. /\ s \in DartSet /\ Nx(s) \in DartSet /\ Pv(s) \in DartSet
      /\ Nx(s) # s /\ Pv(s) # s /\ Nx(s) # Pv(s) /\ Nx(s)[1] = s[1] /\ Pv(s)[1] = s[1]
      /\ Nx(s) \in Darts(m) /\ Pv(s) \in Darts(m)
  BY <1>0, DartsTurn, MeshParts
<1>4. /\ SameTria(m, m1) /\ ip \in 1..NPMax /\ ip \notin Live(m.pts)
      /\ Live(m1.pts) = Live(m.pts) \union {ip}
      /\ \E f : FreeListOK(m1.pts, f)
      /\ \A p \in Live(m.pts) : At(m1, p) = At(m, p) /\ Pt(m1, p) = Pt(m, p)
      /\ Pt(m1, ip) = Tg(m, s)
  BY SplitPoint
<1>5. /\ m2 \in MeshSet /\ m2.pts = m1.pts /\ m2.point = m1.point
      /\ n \in 1..NTMax /\ n \notin Live(m.trs)
      /\ Live(m2.trs) = Live(m.trs) \union {n}
      /\ \E f : FreeListOK(m2.trs, f)
      /\ Halves(m, m2, n, Nx(s), Pv(s), ip)
  BY <1>0, <1>4, FirstHalfIs
<1>6. nn[s] = n /\ \A x \in {s} : nn[x] = n
  OBVIOUS
<1> HIDE DEF n
<1>7. In(s, s) = Nx(s) /\ Col(s, s) = Pv(s)
  BY DEF In, Col
<1>8. Cuttable(m, s, {s}, nn, ip)
  BY <1>4, <1>5, <1>6 DEF Cuttable
<1>9. ASSUME NEW e \in Darts(m) PROVE KeptHalf(m, m2, s, {s}, nn, ip, e)
  <2>1. e \in DartSet /\ e[1] # n
    <3>1. e \in DartSet
      BY <1>0, MeshParts
    <3>2. e[1] \in Live(m.trs)
      BY DartsTurn
    <3> QED
      BY <1>5, <3>1, <3>2
  <2>2. N(nn, s, Pv(s)) = <<n, Pv(s)[2]>> /\ N(nn, s, Nx(s)) = <<n, Nx(s)[2]>>
    BY <1>6 DEF N
  <2>3. Ad(m, e) = Nx(s) => e = Ad(m, Nx(s))
    <3>1. Nx(s) # NoAdja
      BY <1>3, DartIs
    <3> QED
      BY <1>0, <1>3, <2>1, <3>1, Twin
  <2>4. Ad(m, Nx(s)) = e => Ad(m, e) = Nx(s)
    <3>1. e # NoAdja
      BY <2>1, DartIs
    <3> QED
      BY <1>0, <1>3, <2>1, <3>1, Twin
  <2>5. HalfKept(m, m2, n, Nx(s), Pv(s), ip, e)
    BY <1>5, <2>1 DEF Halves
  <2> QED
    BY <1>7, <2>2, <2>3, <2>4, <2>5 DEF KeptHalf, HalfKept
<1>10. NewHalf(m, m2, s, {s}, nn, ip, s)
  <2>1. \A d : N(nn, s, d) = <<n, d[2]>>
    BY <1>6 DEF N
  <2>2. Rf(m, Nx(s)) = Rf(m, s) /\ Rf(m, Pv(s)) = Rf(m, s)
    BY <1>3 DEF Rf
  <2>3. \A d \in {s, Nx(s), Pv(s)} : HalfNew(m, m2, n, Nx(s), Pv(s), ip, d)
    BY <1>3, <1>5 DEF Halves
  <2> QED
    BY <1>3, <1>7, <2>1, <2>2, <2>3 DEF NewHalf, HalfNew
<1>11. Lists(m2) /\ Live(m2.pts) = Live(m.pts) \union {ip} /\ Live(m2.trs) = Live(m.trs) \union {nn[x] : x \in {s}}
  BY <1>4, <1>5, <1>6 DEF Lists
<1>12. /\ \A p \in Live(m.pts) : At(m2, p) = At(m, p) /\ Pt(m2, p) = Pt(m, p)
       /\ Pt(m2, ip) = Tg(m, s)
  BY <1>4, <1>5 DEF At, Pt
<1> QED
  BY <1>5, <1>8, <1>9, <1>10, <1>11, <1>12 DEF Splits

(* The two triangles of an edge: the second half of a split finds its      *)
(* triangle as it was.                                                     *)
LEMMA HalfAside ==
  ASSUME NEW m, Solid(m), NEW s \in Darts(m), NEW t, t = Ad(m, s), t # NoAdja, NEW ip,
         NEW n \in 1..NTMax, n \notin Live(m.trs), NEW h1, Halves(m, h1, n, Nx(s), Pv(s), ip),
         NEW d \in Darts(m), d[1] = t[1]
  PROVE  /\ Vt(h1, d) = Vt(m, d) /\ Tg(h1, d) = Tg(m, d) /\ Rf(h1, d) = Rf(m, d) /\ Ad(h1, d) = Ad(m, d)
         /\ d # Ad(m, Nx(s))
<1>1. t \in Darts(m) /\ t[1] # s[1]
  BY Twin
<1>2. Nx(s) \in Darts(m) /\ Pv(s) \in Darts(m) /\ Nx(s)[1] = s[1] /\ Pv(s)[1] = s[1] /\ s # Nx(s)
  BY DartsTurn
<1>3. d \in DartSet /\ d[1] # n /\ d # NoAdja
  <2>1. d \in DartSet
    BY MeshParts DEF Solid
  <2>2. d[1] \in Live(m.trs)
    BY DartsTurn
  <2> QED
    BY <2>1, <2>2, DartIs
<1>4. d # Ad(m, Nx(s))
  <2>1. PICK b : b = Ad(m, Nx(s))
    OBVIOUS
  <2>2. b # NoAdja => b[1] # t[1]
    BY <1>2, <2>1, NoMirror
  <2> QED
    BY <1>3, <2>1, <2>2
<1>5. HalfKept(m, h1, n, Nx(s), Pv(s), ip, d)
  BY <1>3 DEF Halves
<1>6. d # Nx(s) /\ d # Pv(s)
  BY <1>1, <1>2
<1> QED
  BY <1>4, <1>5, <1>6 DEF HalfKept

TwoHalves(m, m2, h2, s, t, H, nn, ip) ==
    /\ Retri(h2, m2)
    /\ \A e \in Darts(m) : KeptHalf(m, m2, s, H, nn, ip, e)
    /\ NewHalf(m, m2, s, H, nn, ip, s) /\ NewHalf(m, m2, s, H, nn, ip, t)

LEMMA BothHalves ==
  ASSUME NEW m, Solid(m), NEW s \in Darts(m), NEW t, t = Ad(m, s), t # NoAdja, NEW ip,
         NEW n \in 1..NTMax, n \notin Live(m.trs), NEW l \in 1..NTMax, l \notin Live(m.trs), l # n,
         NEW h1, Halves(m, h1, n, Nx(s), Pv(s), ip),
         NEW h2 \in MeshSet, Halves(h1, h2, l, Pv(t), Nx(t), ip),
         NEW m2, m2 = Glue(h2, <<n, s[2]>>, <<l, t[2]>>),
         NEW nn, nn[s] = n, nn[t] = l, NEW H, H = {s, t}
  PROVE  TwoHalves(m, m2, h2, s, t, H, nn, ip)
<1>0. m \in MeshSet
  BY DEF Solid
<1>1. /\ t \in Darts(m) /\ t[1] # s[1] /\ Ad(m, t) = s /\ s # NoAdja
      /\ s \in DartSet /\ t \in DartSet /\ s # t
  <2>1. t \in Darts(m) /\ t[1] # s[1] /\ Ad(m, t) = s /\ s # NoAdja
    BY Twin
  <2> QED
    BY <1>0, <2>1, MeshParts
<1>2. \A e \in {s, t} : /\ Nx(e) \in Darts(m) /\ Pv(e) \in Darts(m) /\ Nx(e) \in DartSet /\ Pv(e) \in DartSet
                        /\ Nx(e) # e /\ Pv(e) # e /\ Nx(e) # Pv(e) /\ Nx(e)[1] = e[1] /\ Pv(e)[1] = e[1]
                        /\ Nx(e)[2] # e[2] /\ Pv(e)[2] # e[2] /\ Nx(e)[2] # Pv(e)[2]
                        /\ Nx(e) # NoAdja /\ Pv(e) # NoAdja
  <2> TAKE e \in {s, t}
  <2>1. e \in Darts(m)
    BY <1>1
  <2>2. /\ Nx(e) \in Darts(m) /\ Pv(e) \in Darts(m)
        /\ Nx(e) # e /\ Pv(e) # e /\ Nx(e) # Pv(e) /\ Nx(e)[1] = e[1] /\ Pv(e)[1] = e[1]
    BY <2>1, DartsTurn
  <2>3. Nx(e) \in DartSet /\ Pv(e) \in DartSet /\ e \in DartSet
    BY <1>0, <2>1, <2>2, MeshParts
  <2>4. Nx(e) # NoAdja /\ Pv(e) # NoAdja
    BY <2>3, DartIs
  <2>5. Nx(e)[2] # e[2] /\ Pv(e)[2] # e[2] /\ Nx(e)[2] # Pv(e)[2]
    <3>1. e = <<e[1], e[2]>> /\ Nx(e) = <<e[1], Nx(e)[2]>> /\ Pv(e) = <<e[1], Pv(e)[2]>>
      BY <2>2, <2>3, DartIs
    <3> QED
      BY <2>2, <3>1
  <2> QED
    BY <2>2, <2>3, <2>4, <2>5
<1>3. In(s, s) = Nx(s) /\ Col(s, s) = Pv(s) /\ In(s, t) = Pv(t) /\ Col(s, t) = Nx(t)
  BY <1>1 DEF In, Col
<1>4. \A d : N(nn, s, d) = <<n, d[2]>> /\ N(nn, t, d) = <<l, d[2]>>
  BY DEF N
<1>5. \A e \in Darts(m) : e \in DartSet /\ e[1] # n /\ e[1] # l /\ e # NoAdja
  <2> TAKE e \in Darts(m)
  <2>1. e \in DartSet
    BY <1>0, MeshParts
  <2>2. e[1] \in Live(m.trs)
    BY DartsTurn
  <2> QED
    BY <2>1, <2>2, DartIs
<1>6. \A d \in Darts(m) : d[1] = t[1] =>
         /\ Vt(h1, d) = Vt(m, d) /\ Tg(h1, d) = Tg(m, d) /\ Rf(h1, d) = Rf(m, d) /\ Ad(h1, d) = Ad(m, d)
         /\ d # Ad(m, Nx(s))
  BY HalfAside
<1>7. Ad(h1, Pv(t)) = Ad(m, Pv(t)) /\ Ad(m, Nx(s)) # Pv(t)
  BY <1>1, <1>2, <1>6
<1>8. Ad(m, Pv(t)) # NoAdja => Ad(m, Pv(t)) \in Darts(m) /\ Ad(m, Ad(m, Pv(t))) = Pv(t) /\ Ad(m, Pv(t))[1] # t[1]
  BY <1>1, <1>2, Twin
<1>9. Ad(m, Nx(s)) # NoAdja => Ad(m, Nx(s)) \in Darts(m) /\ Ad(m, Ad(m, Nx(s))) = Nx(s) /\ Ad(m, Nx(s))[1] # s[1]
  BY <1>1, <1>2, Twin
<1>10. <<n, s[2]>> \in DartSet /\ <<l, t[2]>> \in DartSet /\ <<n, s[2]>> # <<l, t[2]>> /\ <<l, t[2]>> # NoAdja
  <2>1. s[2] \in Local /\ t[2] \in Local
    BY <1>1, DartIs
  <2>2. <<n, s[2]>> \in DartSet /\ <<l, t[2]>> \in DartSet
    BY <2>1 DEF DartSet
  <2> QED
    BY <2>2, DartIs
<1>11. /\ Retri(h2, m2)
       /\ \A e \in DartSet : Vt(m2, e) = Vt(h2, e) /\ Tg(m2, e) = Tg(h2, e) /\ Rf(m2, e) = Rf(h2, e)
       /\ Ad(m2, <<n, s[2]>>) = <<l, t[2]>>
       /\ Ad(m2, <<l, t[2]>>) = <<n, s[2]>>
       /\ \A e \in DartSet : e # <<n, s[2]>> /\ e # <<l, t[2]>> => Ad(m2, e) = Ad(h2, e)
  <2>1. PICK a, b : a = <<n, s[2]>> /\ b = <<l, t[2]>>
    OBVIOUS
  <2>2. a \in DartSet /\ b \in Cells /\ a # b /\ b # NoAdja /\ m2 = Glue(h2, a, b)
    BY <1>10, <2>1 DEF Cells
  <2>3. Glued(h2, m2, a, b)
    BY <2>2, GlueIs
  <2>4. /\ Retri(h2, m2)
        /\ \A e \in DartSet : Vt(m2, e) = Vt(h2, e) /\ Tg(m2, e) = Tg(h2, e) /\ Rf(m2, e) = Rf(h2, e)
        /\ Ad(m2, a) = b
        /\ Ad(m2, b) = a
        /\ \A e \in DartSet : e # a /\ e # b => Ad(m2, e) = Ad(h2, e)
    BY <2>2, <2>3 DEF Glued
  <2> QED
    BY <2>1, <2>4
<1>12. ASSUME NEW e \in Darts(m) PROVE KeptHalf(m, m2, s, H, nn, ip, e)
  <2>1. HalfKept(m, h1, n, Nx(s), Pv(s), ip, e) /\ HalfKept(h1, h2, l, Pv(t), Nx(t), ip, e)
    BY <1>5 DEF Halves
  <2>2. e # <<n, s[2]>> /\ e # <<l, t[2]>>
    BY <1>5
  <2>3. Vt(m2, e) = Vt(h2, e) /\ Tg(m2, e) = Tg(h2, e) /\ Rf(m2, e) = Rf(h2, e) /\ Ad(m2, e) = Ad(h2, e)
    BY <1>5, <1>11, <2>2
  <2>4. Nx(s) # Nx(t) /\ Nx(s) # Pv(t) /\ Pv(s) # Nx(t) /\ Pv(s) # Pv(t)
    BY <1>1, <1>2
  <2>5. Ad(m, e) = Nx(s) <=> (e = Ad(m, Nx(s)))
    <3>1. Ad(m, e) = Nx(s) => e = Ad(m, Nx(s))
      BY <1>2, Twin
    <3> QED
      BY <1>5, <1>9, <3>1
  <2>6. Ad(m, e) = Pv(t) <=> (e = Ad(m, Pv(t)))
    <3>1. Ad(m, e) = Pv(t) => e = Ad(m, Pv(t))
      BY <1>2, Twin
    <3> QED
      BY <1>5, <1>8, <3>1
  <2>7. Rf(m2, e) = Rf(m, e)
    BY <2>1, <2>3 DEF HalfKept
  <2>8. /\ e = Pv(s) \/ e = Nx(t) => Vt(m2, e) = ip
        /\ e # Pv(s) /\ e # Nx(t) => Vt(m2, e) = Vt(m, e)
    BY <2>1, <2>3 DEF HalfKept
  <2>9. /\ e = Nx(s) \/ e = Pv(t) => Tg(m2, e) = {}
        /\ e # Nx(s) /\ e # Pv(t) => Tg(m2, e) = Tg(m, e)
    BY <2>1, <2>3 DEF HalfKept
  <2>10. /\ e = Nx(s) /\ e # Ad(m, Pv(t)) => Ad(m2, e) = <<n, Pv(s)[2]>>
         /\ e = Pv(t) => Ad(m2, e) = <<l, Nx(t)[2]>>
         /\ e = Ad(m, Nx(s)) /\ e # Pv(t) /\ e # Ad(m, Pv(t)) => Ad(m2, e) = <<n, Nx(s)[2]>>
         /\ e = Ad(m, Pv(t)) => Ad(m2, e) = <<l, Pv(t)[2]>>
         /\ e # Nx(s) /\ e # Ad(m, Nx(s)) /\ e # Pv(t) /\ e # Ad(m, Pv(t)) => Ad(m2, e) = Ad(m, e)
    <3>1. /\ e = Nx(s) => Ad(h1, e) = <<n, Pv(s)[2]>>
          /\ e = Ad(m, Nx(s)) => Ad(h1, e) = <<n, Nx(s)[2]>>
          /\ e # Nx(s) /\ e # Ad(m, Nx(s)) => Ad(h1, e) = Ad(m, e)
      BY <2>1 DEF HalfKept
    <3>2. /\ e = Pv(t) => Ad(h2, e) = <<l, Nx(t)[2]>>
          /\ e = Ad(m, Pv(t)) => Ad(h2, e) = <<l, Pv(t)[2]>>
          /\ e # Pv(t) /\ e # Ad(m, Pv(t)) => Ad(h2, e) = Ad(h1, e)
      BY <1>7, <2>1 DEF HalfKept
    <3>3. Nx(s) # Pv(t)
      BY <2>4
    <3> QED
      BY <2>3, <3>1, <3>2, <3>3
  <2>11. Nx(s) # Ad(m, Pv(t)) /\ Ad(m, Nx(s)) # Pv(t) /\ (e = Ad(m, Nx(s)) => e # Ad(m, Pv(t)))
    <3>1. Nx(s) # Ad(m, Pv(t))
      BY <1>2, <1>7, <1>8
    <3> QED
      BY <1>7, <2>4, <2>5, <2>6, <3>1
  <2>12. /\ e = Nx(s) => Ad(m2, e) = N(nn, s, Pv(s))
         /\ e = Pv(t) => Ad(m2, e) = N(nn, t, Nx(t))
         /\ Ad(m, e) = Nx(s) => Ad(m2, e) = N(nn, s, Nx(s))
         /\ Ad(m, e) = Pv(t) => Ad(m2, e) = N(nn, t, Pv(t))
         /\ e # Nx(s) /\ e # Pv(t) /\ Ad(m, e) # Nx(s) /\ Ad(m, e) # Pv(t) => Ad(m2, e) = Ad(m, e)
    BY <1>4, <2>5, <2>6, <2>10, <2>11
  <2> QED
    BY <1>3, <2>7, <2>8, <2>9, <2>12 DEF KeptHalf
<1>13. NewHalf(m, m2, s, H, nn, ip, s)
  <2>1. ASSUME NEW d \in {s, Nx(s), Pv(s)}
        PROVE  /\ HalfNew(m, h1, n, Nx(s), Pv(s), ip, d)
               /\ LET g == <<n, d[2]>>
                  IN  /\ Vt(m2, g) = Vt(h1, g) /\ Tg(m2, g) = Tg(h1, g) /\ Rf(m2, g) = Rf(h1, g)
                      /\ d # s => Ad(m2, g) = Ad(h1, g)
    <3> DEFINE g == <<n, d[2]>>
    <3>1. d \in DartSet /\ d[1] = s[1] /\ Nx(s)[1] = s[1] /\ (d # s => d[2] # s[2])
      BY <1>1, <1>2
    <3>2. HalfNew(m, h1, n, Nx(s), Pv(s), ip, d)
      BY <3>1 DEF Halves
    <3>3. g \in DartSet /\ g[1] = n /\ g[2] = d[2]
      BY <3>1, DartIs DEF DartSet
    <3>4. g # <<l, t[2]>> /\ (d # s => g # <<n, s[2]>>)
      BY <3>1
    <3>5. g # Pv(t) /\ g # Nx(t) /\ g # Ad(h1, Pv(t))
      <4>1. g # Pv(t) /\ g # Nx(t)
        BY <1>1, <1>2, <1>5, <3>3
      <4>2. g # NoAdja
        BY <3>3, DartIs
      <4> QED
        BY <1>5, <1>7, <1>8, <3>3, <4>1, <4>2
    <3> HIDE DEF g
    <3>6. HalfKept(h1, h2, l, Pv(t), Nx(t), ip, g)
      BY <3>3 DEF Halves
    <3>7. Vt(h2, g) = Vt(h1, g) /\ Tg(h2, g) = Tg(h1, g) /\ Rf(h2, g) = Rf(h1, g) /\ Ad(h2, g) = Ad(h1, g)
      BY <3>5, <3>6 DEF HalfKept
    <3>8. Vt(m2, g) = Vt(h1, g) /\ Tg(m2, g) = Tg(h1, g) /\ Rf(m2, g) = Rf(h1, g) /\ (d # s => Ad(m2, g) = Ad(h1, g))
      BY <1>11, <3>3, <3>4, <3>7
    <3> QED
      BY <3>2, <3>8 DEF g
  <2>2. Rf(m, Nx(s)) = Rf(m, s) /\ Rf(m, Pv(s)) = Rf(m, s)
    BY <1>2 DEF Rf
  <2>3. /\ Vt(m2, N(nn, s, s)) = Vt(m, s) /\ Tg(m2, N(nn, s, s)) = Tg(m, s) /\ Rf(m2, N(nn, s, s)) = Rf(m, s)
    BY <1>2, <1>4, <2>1 DEF HalfNew
  <2>4. /\ Vt(m2, N(nn, s, Nx(s))) = ip /\ Tg(m2, N(nn, s, Nx(s))) = Tg(m, Nx(s)) /\ Rf(m2, N(nn, s, Nx(s))) = Rf(m, s)
        /\ Ad(m2, N(nn, s, Nx(s))) = Ad(m, Nx(s))
    BY <1>2, <1>4, <2>1, <2>2 DEF HalfNew
  <2>5. /\ Vt(m2, N(nn, s, Pv(s))) = Vt(m, Pv(s)) /\ Tg(m2, N(nn, s, Pv(s))) = {} /\ Rf(m2, N(nn, s, Pv(s))) = Rf(m, s)
        /\ Ad(m2, N(nn, s, Pv(s))) = Nx(s)
    BY <1>2, <1>4, <2>1, <2>2 DEF HalfNew
  <2>6. Ad(m2, N(nn, s, s)) = N(nn, t, t)
    BY <1>4, <1>11
  <2> QED
    BY <1>3, <2>3, <2>4, <2>5, <2>6 DEF NewHalf
<1>14. NewHalf(m, m2, s, H, nn, ip, t)
  <2>1. ASSUME NEW d \in {t, Nx(t), Pv(t)}
        PROVE  /\ HalfNew(h1, h2, l, Pv(t), Nx(t), ip, d)
               /\ LET g == <<l, d[2]>>
                  IN  /\ Vt(m2, g) = Vt(h2, g) /\ Tg(m2, g) = Tg(h2, g) /\ Rf(m2, g) = Rf(h2, g)
                      /\ d # t => Ad(m2, g) = Ad(h2, g)
               /\ Vt(h1, d) = Vt(m, d) /\ Tg(h1, d) = Tg(m, d) /\ Rf(h1, d) = Rf(m, d) /\ Ad(h1, d) = Ad(m, d)
    <3> DEFINE g == <<l, d[2]>>
    <3>1. d \in DartSet /\ d[1] = t[1] /\ Pv(t)[1] = t[1] /\ (d # t => d[2] # t[2]) /\ d \in Darts(m)
      BY <1>1, <1>2
    <3>2. HalfNew(h1, h2, l, Pv(t), Nx(t), ip, d)
      BY <3>1 DEF Halves
    <3>3. g \in DartSet /\ g[1] = l /\ g[2] = d[2]
      BY <3>1, DartIs DEF DartSet
    <3>4. g # <<n, s[2]>> /\ (d # t => g # <<l, t[2]>>)
      BY <3>1
    <3> HIDE DEF g
    <3>5. Vt(m2, g) = Vt(h2, g) /\ Tg(m2, g) = Tg(h2, g) /\ Rf(m2, g) = Rf(h2, g) /\ (d # t => Ad(m2, g) = Ad(h2, g))
      BY <1>11, <3>3, <3>4
    <3>6. Vt(h1, d) = Vt(m, d) /\ Tg(h1, d) = Tg(m, d) /\ Rf(h1, d) = Rf(m, d) /\ Ad(h1, d) = Ad(m, d)
      BY <1>6, <3>1
    <3> QED
      BY <3>2, <3>5, <3>6 DEF g
  <2>2. Rf(m, Nx(t)) = Rf(m, t) /\ Rf(m, Pv(t)) = Rf(m, t)
    BY <1>2 DEF Rf
  <2>3. /\ Vt(m2, N(nn, t, t)) = Vt(m, t) /\ Tg(m2, N(nn, t, t)) = Tg(m, t) /\ Rf(m2, N(nn, t, t)) = Rf(m, t)
    <3>1. /\ HalfNew(h1, h2, l, Pv(t), Nx(t), ip, t)
          /\ Vt(m2, <<l, t[2]>>) = Vt(h2, <<l, t[2]>>) /\ Tg(m2, <<l, t[2]>>) = Tg(h2, <<l, t[2]>>)
          /\ Rf(m2, <<l, t[2]>>) = Rf(h2, <<l, t[2]>>)
          /\ t # t => Ad(m2, <<l, t[2]>>) = Ad(h2, <<l, t[2]>>)
          /\ Vt(h1, t) = Vt(m, t) /\ Tg(h1, t) = Tg(m, t) /\ Rf(h1, t) = Rf(m, t) /\ Ad(h1, t) = Ad(m, t)
      BY <2>1
    <3>2. t # Pv(t) /\ t # Nx(t) /\ Nx(t) # Pv(t)
      BY <1>2
    <3> QED
      BY <1>4, <2>2, <3>1, <3>2 DEF HalfNew
  <2>4. /\ Vt(m2, N(nn, t, Pv(t))) = ip /\ Tg(m2, N(nn, t, Pv(t))) = Tg(m, Pv(t)) /\ Rf(m2, N(nn, t, Pv(t))) = Rf(m, t)
        /\ Ad(m2, N(nn, t, Pv(t))) = Ad(m, Pv(t))
    BY <1>2, <1>4, <2>1, <2>2 DEF HalfNew
  <2>5. /\ Vt(m2, N(nn, t, Nx(t))) = Vt(m, Nx(t)) /\ Tg(m2, N(nn, t, Nx(t))) = {} /\ Rf(m2, N(nn, t, Nx(t))) = Rf(m, t)
        /\ Ad(m2, N(nn, t, Nx(t))) = Pv(t)
    <3>1. /\ HalfNew(h1, h2, l, Pv(t), Nx(t), ip, Nx(t))
          /\ Vt(m2, <<l, Nx(t)[2]>>) = Vt(h2, <<l, Nx(t)[2]>>) /\ Tg(m2, <<l, Nx(t)[2]>>) = Tg(h2, <<l, Nx(t)[2]>>)
          /\ Rf(m2, <<l, Nx(t)[2]>>) = Rf(h2, <<l, Nx(t)[2]>>)
          /\ Nx(t) # t => Ad(m2, <<l, Nx(t)[2]>>) = Ad(h2, <<l, Nx(t)[2]>>)
          /\ Vt(h1, Nx(t)) = Vt(m, Nx(t)) /\ Tg(h1, Nx(t)) = Tg(m, Nx(t)) /\ Rf(h1, Nx(t)) = Rf(m, Nx(t)) /\ Ad(h1, Nx(t)) = Ad(m, Nx(t))
      BY <2>1
    <3>2. t # Pv(t) /\ t # Nx(t) /\ Nx(t) # Pv(t)
      BY <1>2
    <3> QED
      BY <1>4, <2>2, <3>1, <3>2 DEF HalfNew
  <2>6. Ad(m2, N(nn, t, t)) = N(nn, s, s) /\ Ad(m, t) = s /\ s # NoAdja
    BY <1>1, <1>4, <1>11
  <2> QED
    BY <1>3, <2>3, <2>4, <2>5, <2>6 DEF NewHalf
<1> QED
  BY <1>11, <1>12, <1>13, <1>14 DEF TwoHalves

(* The second half of a split.                                             *)
SecondHalf(m, h1, h2, n, l, t, ip) ==
    Cleaved(h1, h2, l, Pv(t), Nx(t), ip) /\ l \in 1..NTMax /\ l \notin Live(m.trs) /\ l # n

LEMMA SecondHalfIs ==
  ASSUME NEW m, Solid(m), NEW s \in Darts(m), NEW t, t = Ad(m, s), t # NoAdja, NEW ip \in 1..NPMax,
         NEW n \in 1..NTMax, n \notin Live(m.trs),
         NEW h1 \in MeshSet, Halves(m, h1, n, Nx(s), Pv(s), ip),
         Live(h1.trs) = Live(m.trs) \union {n}, \E f : FreeListOK(h1.trs, f), h1.trs.nil # 0,
         NEW l, l = h1.trs.nil, NEW h2, h2 = Half(h1, t[1], l, Prv(t[2]), Nxt(t[2]), ip)
  PROVE  SecondHalf(m, h1, h2, n, l, t, ip)
<1>1. t \in Darts(m) /\ t[1] # s[1] /\ t \in DartSet
  <2>1. t \in Darts(m) /\ t[1] # s[1]
    BY Twin
  <2> QED
    BY <2>1, MeshParts DEF Solid
<1>2. l \in 1..NTMax /\ l \notin Live(h1.trs)
  BY NilIsFree, MeshParts
<1>3. l \notin Live(m.trs) /\ l # n
  BY <1>2
<1> DEFINE a == Pv(t)
           b == Nx(t)
<1>4. a \in Darts(m) /\ b \in Darts(m) /\ a # b /\ a[1] = t[1] /\ b[1] = t[1] /\ t[1] \in Live(m.trs)
  BY <1>1, DartsTurn
<1>5. a \in DartSet /\ b \in DartSet
  BY <1>4, MeshParts DEF Solid
<1>6. Ad(h1, a) = Ad(m, a)
  BY <1>4, HalfAside
<1>7. h2 = Half(h1, a[1], l, a[2], b[2], ip)
  BY DEF Pv, Nx
<1> HIDE DEF a, b
<1>8. PICK x : x = Ad(h1, a)
  OBVIOUS
<1>9. x[1] \notin {a[1], l}
  <2>1. CASE x = NoAdja
    <3>1. a[1] \in 1..NTMax /\ x[1] = 0
      BY <1>5, <2>1, DartIs DEF NoAdja
    <3> QED
      BY <1>2, <3>1, MeshAssumption
  <2>2. CASE x # NoAdja
    <3>1. x \in Darts(m) /\ x[1] # a[1]
      BY <1>4, <1>6, <1>8, <2>2, Twin
    <3>2. x[1] \in Live(m.trs)
      BY <3>1, DartsTurn
    <3> QED
      BY <1>3, <3>1, <3>2
  <2> QED
    BY <2>1, <2>2
<1>10. l # a[1] /\ a[1] = b[1] /\ ip \in 0..NPMax
  BY <1>3, <1>4, MeshAssumption
<1>11. Cleaved(h1, h2, l, a, b, ip)
  BY <1>4, <1>5, <1>7, <1>8, <1>9, <1>10, HalfIs
<1> QED
  BY <1>2, <1>3, <1>11 DEF a, b, SecondHalf

(* The split of an edge inside the domain.                                 *)
LEMMA SplitClosed ==
  ASSUME NEW m, Sound(m), NEW s \in Darts(m), NEW t, t = Ad(m, s), t # NoAdja, m.pts.nil # 0, m.trs.nil # 0,
         NEW c \in Int \X Int, NEW m1, m1 = NewPt(m, c, Tg(m, s)), NEW ip, ip = m.pts.nil,
         NEW h1, h1 = FirstHalf(m1, s[1], s[2], ip), h1.trs.nil # 0,
         NEW l, l = h1.trs.nil, NEW h2, h2 = Half(h1, t[1], l, Prv(t[2]), Nxt(t[2]), ip),
         NEW n, n = m.trs.nil, NEW m2, m2 = Glue(h2, <<n, s[2]>>, <<l, t[2]>>),
         NEW nn, nn = [e \in {s, t} |-> IF e = s THEN n ELSE l]
  PROVE  Splits(m, m2, s, {s, t}, nn, ip) /\ m2.point = m1.point
<1>0. Solid(m) /\ Lists(m) /\ m \in MeshSet
  BY DEF Sound, Solid
<1>1. s # t
  <2>1. t[1] # s[1]
    BY <1>0, Twin
  <2> QED
    BY <2>1
<1>4. /\ SameTria(m, m1) /\ ip \in 1..NPMax /\ ip \notin Live(m.pts)
      /\ Live(m1.pts) = Live(m.pts) \union {ip}
      /\ \E f : FreeListOK(m1.pts, f)
      /\ \A p \in Live(m.pts) : At(m1, p) = At(m, p) /\ Pt(m1, p) = Pt(m, p)
      /\ Pt(m1, ip) = Tg(m, s)
  BY SplitPoint
<1>5. /\ h1 \in MeshSet /\ h1.pts = m1.pts /\ h1.point = m1.point
      /\ n \in 1..NTMax /\ n \notin Live(m.trs)
      /\ Live(h1.trs) = Live(m.trs) \union {n}
      /\ \E f : FreeListOK(h1.trs, f)
      /\ Halves(m, h1, n, Nx(s), Pv(s), ip)
  BY <1>0, <1>4, FirstHalfIs
<1>6. Cleaved(h1, h2, l, Pv(t), Nx(t), ip) /\ l \in 1..NTMax /\ l \notin Live(m.trs) /\ l # n
  <2>1. SecondHalf(m, h1, h2, n, l, t, ip)
    BY <1>0, <1>4, <1>5, SecondHalfIs
  <2> QED
    BY <2>1 DEF SecondHalf
<1>7. nn[s] = n /\ nn[t] = l
  BY <1>1
<1>8. h2 \in MeshSet /\ Halves(h1, h2, l, Pv(t), Nx(t), ip)
  BY <1>6 DEF Cleaved
<1>9. PICK H : H = {s, t}
  OBVIOUS
<1>10. /\ Retri(h2, m2)
       /\ \A e \in Darts(m) : KeptHalf(m, m2, s, H, nn, ip, e)
       /\ NewHalf(m, m2, s, H, nn, ip, s) /\ NewHalf(m, m2, s, H, nn, ip, t)
  <2>1. TwoHalves(m, m2, h2, s, t, H, nn, ip)
    BY <1>0, <1>5, <1>6, <1>7, <1>8, <1>9, BothHalves
  <2> QED
    BY <2>1 DEF TwoHalves
<1>11. Cuttable(m, s, H, nn, ip)
  BY <1>4, <1>5, <1>6, <1>7, <1>9 DEF Cuttable
<1>12. m2 \in MeshSet /\ m2.point = m1.point /\ m2.pts = m1.pts /\ m2.trs = h2.trs
  BY <1>5, <1>6, <1>10 DEF Retri, Cleaved
<1>13. Live(m2.trs) = Live(m.trs) \union {nn[x] : x \in H}
  <2>1. Live(h2.trs) = Live(h1.trs) \union {l}
    BY <1>6 DEF Cleaved
  <2>2. {nn[x] : x \in H} = {n, l}
    BY <1>7, <1>9
  <2> QED
    BY <1>5, <1>12, <2>1, <2>2
<1>14. Lists(m2)
  <2>1. \E f : FreeListOK(m2.trs, f)
    BY <1>5, <1>6, <1>12 DEF Cleaved
  <2>2. \E f : FreeListOK(m2.pts, f)
    BY <1>4, <1>12
  <2> QED
    BY <2>1, <2>2 DEF Lists
<1>15. /\ \A p \in Live(m.pts) : At(m2, p) = At(m, p) /\ Pt(m2, p) = Pt(m, p)
       /\ Pt(m2, ip) = Tg(m, s) /\ Live(m2.pts) = Live(m.pts) \union {ip}
  <2>1. \A p : At(m2, p) = At(m1, p) /\ Pt(m2, p) = Pt(m1, p)
    BY <1>12 DEF At, Pt
  <2>2. Live(m2.pts) = Live(m1.pts)
    BY <1>12
  <2> QED
    BY <1>4, <2>1, <2>2
<1>16. \A x \in H : NewHalf(m, m2, s, H, nn, ip, x)
  BY <1>9, <1>10
<1>17. Splits(m, m2, s, H, nn, ip)
  BY <1>10, <1>11, <1>12, <1>13, <1>14, <1>15, <1>16 DEF Splits
<1> QED
  BY <1>9, <1>12, <1>17

(* The tests of MMG2D_chkspl: no half is flat or inverted.                 *)
LEMMA HalvedBy ==
  ASSUME NEW m, Sound(m), NEW s \in Darts(m), NEW m1, SameTria(m, m1),
         NEW ip \in 1..NPMax, ip \notin Live(m.pts),
         \A p \in Live(m.pts) : At(m1, p) = At(m, p),
         NEW m2, m2.point = m1.point, NEW H, NEW nn, Splits(m, m2, s, H, nn, ip),
         SplitSound(m1, s[1], s[2], ip)
  PROVE  Halved(m, m2, s, H, ip)
<1>0. Solid(m) /\ m \in MeshSet /\ m1 \in MeshSet
  BY DEF Sound, Solid, SameTria
<1>1. Cuttable(m, s, H, nn, ip)
  BY DEF Splits
<1> SUFFICES ASSUME NEW c \in H, NEW d \in {In(s, c), Col(s, c)}
             PROVE  Area(At(m2, ip), At(m, Vt(m, Nx(d))), At(m, Vt(m, Pv(d)))) > 0
  BY DEF Halved
<1>2. /\ s \in Darts(m) /\ c \in Darts(m) /\ d \in Darts(m) /\ d[1] = c[1] /\ d # c
      /\ (c # s => c = Ad(m, s) /\ c # NoAdja)
  <2>1. /\ s \in Darts(m) /\ s \in H /\ c \in Darts(m) /\ d \in Darts(m) /\ d[1] = c[1] /\ d # c
    BY <1>0, <1>1, CutParts
  <2>2. c # s => Ad(m, s) = c /\ Ad(m, s) # NoAdja
    BY <1>0, <1>1, <2>1, CutParts
  <2> QED
    BY <2>1, <2>2
<1>3. d \in DartSet /\ c \in DartSet /\ d[2] \in Local \ {c[2]}
  <2>1. d \in DartSet /\ c \in DartSet
    BY <1>0, <1>2, MeshParts
  <2>2. d = <<d[1], d[2]>> /\ c = <<c[1], c[2]>> /\ d[2] \in Local
    BY <2>1, DartIs
  <2> QED
    BY <1>2, <2>1, <2>2
<1>4. AreaOf(m1, With(m1, c[1], d[2], ip)) > 0
  <2>1. m1.tria[s[1]].adja[s[2]] = Ad(m, s)
    BY DEF SameTria, Ad
  <2>2. CASE c = s
    BY <1>3, <2>2 DEF SplitSound
  <2>3. CASE c # s
    BY <1>2, <1>3, <2>1, <2>3 DEF SplitSound
  <2> QED
    BY <2>2, <2>3
<1>5. \A e : Vt(m1, e) = Vt(m, e)
  BY SameTriaIs
<1>6. Nx(d) \in Darts(m) /\ Pv(d) \in Darts(m)
  BY <1>2, DartsTurn
<1>7. /\ Vt(m, Nx(d)) \in Live(m.pts) /\ Vt(m, Nx(d)) \in 1..NPMax
      /\ Vt(m, Pv(d)) \in Live(m.pts) /\ Vt(m, Pv(d)) \in 1..NPMax
  BY <1>0, <1>6, Corners
<1>8. AreaOf(m1, With(m1, d[1], d[2], ip)) = Area(At(m1, ip), At(m1, Vt(m1, Nx(d))), At(m1, Vt(m1, Pv(d))))
  BY <1>0, <1>3, <1>5, <1>7, WithIs
<1>9. At(m2, ip) = At(m1, ip)
  BY DEF At
<1> QED
  BY <1>2, <1>4, <1>5, <1>7, <1>8, <1>9

LEMMA MidPair ==
  ASSUME NEW p \in Int \X Int, NEW q \in Int \X Int
  PROVE  Midpoint(p, q) \in Int \X Int
BY DEF Midpoint

(* MMG2D_split1b with its tests keeps a mesh sound.                        *)
LEMMA SplitSteps ==
  ASSUME NEW m, Sound(m), NEW s \in Darts(m), ~SIN(Tg(m, s)), m.pts.nil # 0,
         NEW c \in Int \X Int, NEW m1, m1 = NewPt(m, c, Tg(m, s)), NEW ip, ip = m.pts.nil,
         SplitSound(m1, s[1], s[2], ip), m1.trs.nil # 0,
         Ad(m1, s) # NoAdja => FirstHalf(m1, s[1], s[2], ip).trs.nil # 0,
         NEW m2, m2 = Split1b(m1, s[1], s[2], ip)
  PROVE  Sound(m2) /\ \E H, nn : Splits(m, m2, s, H, nn, ip)
<1>0. Solid(m) /\ m \in MeshSet
  BY DEF Sound, Solid
<1>1. /\ SameTria(m, m1) /\ ip \in 1..NPMax /\ ip \notin Live(m.pts)
      /\ \A p \in Live(m.pts) : At(m1, p) = At(m, p) /\ Pt(m1, p) = Pt(m, p)
  BY SplitPoint
<1>2. Ad(m1, s) = Ad(m, s) /\ m1.trs.nil = m.trs.nil
  BY <1>1 DEF SameTria, Ad
<1>3. \E H, nn : Splits(m, m2, s, H, nn, ip) /\ m2.point = m1.point
  <2>1. PICK h1, t, n : h1 = FirstHalf(m1, s[1], s[2], ip) /\ t = Ad(m, s) /\ n = m.trs.nil
    OBVIOUS
  <2>2. CASE t = NoAdja
    <3>1. m2 = h1
      BY <1>2, <2>1, <2>2 DEF Split1b, Ad
    <3>2. PICK nn : nn = [e \in {s} |-> m.trs.nil]
      OBVIOUS
    <3>3. m.trs.nil # 0 /\ Ad(m, s) = NoAdja /\ m2 = FirstHalf(m1, s[1], s[2], ip)
      BY <1>2, <2>1, <2>2, <3>1
    <3>4. Splits(m, m2, s, {s}, nn, ip) /\ m2.point = m1.point
      BY <3>2, <3>3, SplitOpen
    <3> QED
      BY <3>4
  <2>3. CASE t # NoAdja
    <3>1. PICK l : l = h1.trs.nil
      OBVIOUS
    <3>2. PICK h2 : h2 = Half(h1, t[1], l, Prv(t[2]), Nxt(t[2]), ip)
      OBVIOUS
    <3>3. m2 = Glue(h2, <<n, s[2]>>, <<l, t[2]>>)
      <4>1. m1.tria[s[1]].adja[s[2]] = t
        BY <1>2, <2>1 DEF Ad
      <4> QED
        BY <1>2, <2>1, <2>3, <3>1, <3>2, <4>1 DEF Split1b
    <3>4. PICK nn : nn = [e \in {s, t} |-> IF e = s THEN n ELSE l]
      OBVIOUS
    <3>5. h1.trs.nil # 0 /\ m.trs.nil # 0
      BY <1>2, <2>1, <2>3
    <3>6. Splits(m, m2, s, {s, t}, nn, ip) /\ m2.point = m1.point
      BY <2>1, <2>3, <3>1, <3>2, <3>3, <3>4, <3>5, SplitClosed
    <3> QED
      BY <3>6
  <2> QED
    BY <2>2, <2>3
<1>4. PICK H, nn : Splits(m, m2, s, H, nn, ip) /\ m2.point = m1.point
  BY <1>3
<1>5. Halved(m, m2, s, H, ip)
  BY <1>1, <1>4, HalvedBy
<1>6. Sound(m2)
  BY <1>4, <1>5, SplitSoundly
<1> QED
  BY <1>4, <1>6

-------------------------------------------------------------------------------
(* MMG2D_swapar.                                                           *)

(* A triangle with another vertex and the tags of two edges replaced.      *)
Remade(pt, A, g, h, j, w, ta, tb) ==
    /\ A \in TriaSet /\ A.v = [pt.v EXCEPT ![g] = w] /\ A.ref = pt.ref /\ A.adja = pt.adja
    /\ A.tag = [[pt.tag EXCEPT ![h] = ta] EXCEPT ![j] = tb]

LEMMA Redone ==
  ASSUME NEW pt \in TriaSet, NEW g \in Local, NEW h \in Local, NEW j \in Local, NEW w \in 0..NPMax,
         NEW ta \in SUBSET TagSet, NEW tb \in SUBSET TagSet
  PROVE  Remade(pt, [pt EXCEPT !.v[g] = w, !.tag[h] = ta, !.tag[j] = tb], g, h, j, w, ta, tb)
<1> DEFINE v == pt.v
           tag == pt.tag
           ref == pt.ref
           adja == pt.adja
           t1 == [pt EXCEPT !.v[g] = w]
           t2 == [t1 EXCEPT !.tag[h] = ta]
           t3 == [t2 EXCEPT !.tag[j] = tb]
<1>1. pt = [v |-> v, tag |-> tag, ref |-> ref, adja |-> adja]
  BY DEF TriaSet
<1>2. v \in [Local -> 0..NPMax] /\ tag \in [Local -> SUBSET TagSet] /\ ref \in Nat /\ adja \in [Local -> DartSet \union {NoAdja}]
  BY DEF TriaSet
<1> HIDE DEF v, tag, ref, adja
<1>3. t1 = [v |-> [v EXCEPT ![g] = w], tag |-> tag, ref |-> ref, adja |-> adja]
  BY <1>1
<1>4. t2 = [v |-> [v EXCEPT ![g] = w], tag |-> [tag EXCEPT ![h] = ta], ref |-> ref, adja |-> adja]
  <2> HIDE DEF t1
  <2> QED
    BY <1>3
<1>5. t3 = [v |-> [v EXCEPT ![g] = w], tag |-> [[tag EXCEPT ![h] = ta] EXCEPT ![j] = tb], ref |-> ref, adja |-> adja]
  <2> HIDE DEF t2
  <2> QED
    BY <1>4
<1>6. [pt EXCEPT !.v[g] = w, !.tag[h] = ta, !.tag[j] = tb] = t3
  OBVIOUS
<1> HIDE DEF t3
<1> DEFINE vs == [v EXCEPT ![g] = w]
           ts == [[tag EXCEPT ![h] = ta] EXCEPT ![j] = tb]
<1>7. vs \in [Local -> 0..NPMax] /\ ts \in [Local -> SUBSET TagSet]
  BY <1>2
<1>8. t3 = [v |-> vs, tag |-> ts, ref |-> ref, adja |-> adja]
  BY <1>5
<1>9. Remade(pt, t3, g, h, j, w, ta, tb)
  <2>1. t3.v = vs /\ t3.tag = ts
    <3> HIDE DEF vs, ts
    <3> QED
      BY <1>8
  <2>2. t3 \in TriaSet /\ t3.ref = ref /\ t3.adja = adja
    <3> HIDE DEF vs, ts
    <3> QED
      BY <1>2, <1>7, <1>8 DEF TriaSet
  <2> QED
    BY <2>1, <2>2 DEF Remade, v, tag, ref, adja
<1> QED
  BY <1>6, <1>9

(* The two triangles of a swap before they are glued.                      *)
SwapCut(m, m1, x, y) ==
    /\ Retri(m, m1) /\ SwapVt(m, m1, x, y) /\ SwapTg(m, m1, x, y)
    /\ \A e \in DartSet : Rf(m1, e) = Rf(m, e) /\ Ad(m1, e) = Ad(m, e)

LEMMA SwapCutIs ==
  ASSUME NEW m \in MeshSet, NEW x \in DartSet, NEW y \in DartSet, x[1] # y[1],
         NEW A, Remade(m.tria[x[1]], A, Prv(x[2]), x[2], Nxt(x[2]), Vt(m, y), Tg(m, Nx(y)), {}),
         NEW B, Remade(m.tria[y[1]], B, Prv(y[2]), y[2], Nxt(y[2]), Vt(m, x), Tg(m, Nx(x)), {}),
         NEW m1, m1 = [m EXCEPT !.tria[x[1]] = A, !.tria[y[1]] = B]
  PROVE  SwapCut(m, m1, x, y)
<1>1. /\ x[1] \in 1..NTMax /\ x[2] \in Local /\ y[1] \in 1..NTMax /\ y[2] \in Local
      /\ x = <<x[1], x[2]>> /\ y = <<y[1], y[2]>>
  BY DartIs
<1>2. /\ Nx(x) \in DartSet /\ Pv(x) \in DartSet /\ Nx(y) \in DartSet /\ Pv(y) \in DartSet
      /\ Prv(x[2]) \in Local /\ Nxt(x[2]) \in Local /\ Prv(y[2]) \in Local /\ Nxt(y[2]) \in Local
      /\ Nxt(x[2]) # x[2] /\ Nxt(y[2]) # y[2]
  BY <1>1 DEF Nx, Pv, Prv, Nxt, Local, DartSet
<1>3. /\ Vt(m, x) \in 0..NPMax /\ Vt(m, y) \in 0..NPMax
      /\ Tg(m, Nx(x)) \in SUBSET TagSet /\ Tg(m, Nx(y)) \in SUBSET TagSet /\ {} \in SUBSET TagSet
  BY <1>2, MeshParts
<1>4. m.tria[x[1]] \in TriaSet /\ m.tria[y[1]] \in TriaSet /\ m.tria \in [1..NTMax -> TriaSet]
  BY <1>1 DEF MeshSet
<1>5. PICK p, q, vx, vy, tx, ty : /\ p = m.tria[x[1]] /\ q = m.tria[y[1]] /\ vx = Vt(m, x) /\ vy = Vt(m, y)
                                  /\ tx = Tg(m, Nx(x)) /\ ty = Tg(m, Nx(y))
  OBVIOUS
<1>6. /\ A \in TriaSet /\ A.v = [p.v EXCEPT ![Prv(x[2])] = vy] /\ A.ref = p.ref /\ A.adja = p.adja
      /\ A.tag = [[p.tag EXCEPT ![x[2]] = ty] EXCEPT ![Nxt(x[2])] = {}]
  BY <1>5 DEF Remade
<1>7. /\ B \in TriaSet /\ B.v = [q.v EXCEPT ![Prv(y[2])] = vx] /\ B.ref = q.ref /\ B.adja = q.adja
      /\ B.tag = [[q.tag EXCEPT ![y[2]] = tx] EXCEPT ![Nxt(y[2])] = {}]
  BY <1>5 DEF Remade
<1> DEFINE T == [[m.tria EXCEPT ![x[1]] = A] EXCEPT ![y[1]] = B]
<1>8. m1 = [m EXCEPT !.tria = T]
  <2>1. PICK k, l : k = x[1] /\ l = y[1]
    OBVIOUS
  <2>2. m1 = [m EXCEPT !.tria[k] = A, !.tria[l] = B]
    BY <2>1
  <2>3. [m EXCEPT !.tria[k] = A, !.tria[l] = B] = [m EXCEPT !.tria = [[m.tria EXCEPT ![k] = A] EXCEPT ![l] = B]]
    BY DEF MeshSet
  <2> QED
    BY <2>1, <2>2, <2>3
<1>9. /\ T \in [1..NTMax -> TriaSet] /\ T[x[1]] = A /\ T[y[1]] = B
      /\ \A k \in 1..NTMax : k # x[1] /\ k # y[1] => T[k] = m.tria[k]
  <2>1. PICK k, l, f : k = x[1] /\ l = y[1] /\ f = m.tria
    OBVIOUS
  <2>2. k \in 1..NTMax /\ l \in 1..NTMax /\ k # l /\ f \in [1..NTMax -> TriaSet] /\ A \in TriaSet /\ B \in TriaSet
    BY <1>1, <1>4, <1>6, <1>7, <2>1
  <2>3. T = [[f EXCEPT ![k] = A] EXCEPT ![l] = B]
    BY <2>1
  <2> HIDE DEF T
  <2>4. T \in [1..NTMax -> TriaSet] /\ T[k] = A /\ T[l] = B /\ \A h \in 1..NTMax : h # k /\ h # l => T[h] = f[h]
    BY <2>2, <2>3
  <2> QED
    BY <2>1, <2>4
<1> HIDE DEF T
<1>10. Retri(m, m1) /\ m1.tria = T
  <2>1. PICK m2 : m2 = [m EXCEPT !.tria = T]
    OBVIOUS
  <2>2. Retri(m, m2) /\ m2.tria = T
    BY <1>9, <2>1, NewTria
  <2> QED
    BY <1>8, <2>1, <2>2
<1>11. p.v \in [Local -> 0..NPMax] /\ p.tag \in [Local -> SUBSET TagSet] /\ q.v \in [Local -> 0..NPMax] /\ q.tag \in [Local -> SUBSET TagSet]
  BY <1>4, <1>5 DEF TriaSet
<1>12. ASSUME NEW e \in DartSet
       PROVE  /\ Rf(m1, e) = Rf(m, e) /\ Ad(m1, e) = Ad(m, e)
              /\ e = Pv(x) => Vt(m1, e) = vy
              /\ e = Pv(y) => Vt(m1, e) = vx
              /\ e # Pv(x) /\ e # Pv(y) => Vt(m1, e) = Vt(m, e)
              /\ e = x => Tg(m1, e) = ty
              /\ e = y => Tg(m1, e) = tx
              /\ e = Nx(x) \/ e = Nx(y) => Tg(m1, e) = {}
              /\ e \notin {x, y, Nx(x), Nx(y)} => Tg(m1, e) = Tg(m, e)
  <2>1. e[1] \in 1..NTMax /\ e[2] \in Local /\ e = <<e[1], e[2]>>
    BY DartIs
  <2>2. /\ Vt(m1, e) = T[e[1]].v[e[2]] /\ Tg(m1, e) = T[e[1]].tag[e[2]] /\ Rf(m1, e) = T[e[1]].ref /\ Ad(m1, e) = T[e[1]].adja[e[2]]
        /\ Vt(m, e) = m.tria[e[1]].v[e[2]] /\ Tg(m, e) = m.tria[e[1]].tag[e[2]] /\ Rf(m, e) = m.tria[e[1]].ref /\ Ad(m, e) = m.tria[e[1]].adja[e[2]]
    BY <1>10 DEF Vt, Tg, Rf, Ad
  <2>3. CASE e[1] = x[1]
    <3>1. /\ e = x <=> e[2] = x[2]
          /\ e = Nx(x) <=> e[2] = Nxt(x[2])
          /\ e = Pv(x) <=> e[2] = Prv(x[2])
          /\ e # y /\ e # Nx(y) /\ e # Pv(y)
      BY <1>1, <2>1, <2>3 DEF Nx, Pv
    <3>2. T[e[1]] = A /\ m.tria[e[1]] = p
      BY <1>5, <1>9, <2>3
    <3>3. /\ e[2] = Prv(x[2]) => A.v[e[2]] = vy
          /\ e[2] # Prv(x[2]) => A.v[e[2]] = p.v[e[2]]
      BY <1>2, <1>6, <1>11, <2>1
    <3>4. /\ e[2] = x[2] => A.tag[e[2]] = ty
          /\ e[2] = Nxt(x[2]) => A.tag[e[2]] = {}
          /\ e[2] # x[2] /\ e[2] # Nxt(x[2]) => A.tag[e[2]] = p.tag[e[2]]
      BY <1>1, <1>2, <1>6, <1>11, <2>1
    <3>5. /\ Vt(m1, e) = A.v[e[2]] /\ Tg(m1, e) = A.tag[e[2]]
          /\ Vt(m, e) = p.v[e[2]] /\ Tg(m, e) = p.tag[e[2]]
          /\ Rf(m1, e) = Rf(m, e) /\ Ad(m1, e) = Ad(m, e)
      BY <1>6, <2>2, <3>2
    <3>6. /\ e = Pv(x) => Vt(m1, e) = vy
          /\ e # Pv(x) => Vt(m1, e) = Vt(m, e)
      BY <3>1, <3>3, <3>5
    <3>7. /\ e = x => Tg(m1, e) = ty
          /\ e = Nx(x) => Tg(m1, e) = {}
          /\ e # x /\ e # Nx(x) => Tg(m1, e) = Tg(m, e)
      BY <3>1, <3>4, <3>5
    <3> QED
      BY <3>1, <3>5, <3>6, <3>7
  <2>4. CASE e[1] = y[1]
    <3>1. /\ e = y <=> e[2] = y[2]
          /\ e = Nx(y) <=> e[2] = Nxt(y[2])
          /\ e = Pv(y) <=> e[2] = Prv(y[2])
          /\ e # x /\ e # Nx(x) /\ e # Pv(x)
      BY <1>1, <2>1, <2>4 DEF Nx, Pv
    <3>2. T[e[1]] = B /\ m.tria[e[1]] = q
      BY <1>5, <1>9, <2>4
    <3>3. /\ e[2] = Prv(y[2]) => B.v[e[2]] = vx
          /\ e[2] # Prv(y[2]) => B.v[e[2]] = q.v[e[2]]
      BY <1>2, <1>7, <1>11, <2>1
    <3>4. /\ e[2] = y[2] => B.tag[e[2]] = tx
          /\ e[2] = Nxt(y[2]) => B.tag[e[2]] = {}
          /\ e[2] # y[2] /\ e[2] # Nxt(y[2]) => B.tag[e[2]] = q.tag[e[2]]
      BY <1>1, <1>2, <1>7, <1>11, <2>1
    <3>5. /\ Vt(m1, e) = B.v[e[2]] /\ Tg(m1, e) = B.tag[e[2]]
          /\ Vt(m, e) = q.v[e[2]] /\ Tg(m, e) = q.tag[e[2]]
          /\ Rf(m1, e) = Rf(m, e) /\ Ad(m1, e) = Ad(m, e)
      BY <1>7, <2>2, <3>2
    <3>6. /\ e = Pv(y) => Vt(m1, e) = vx
          /\ e # Pv(y) => Vt(m1, e) = Vt(m, e)
      BY <3>1, <3>3, <3>5
    <3>7. /\ e = y => Tg(m1, e) = tx
          /\ e = Nx(y) => Tg(m1, e) = {}
          /\ e # y /\ e # Nx(y) => Tg(m1, e) = Tg(m, e)
      BY <3>1, <3>4, <3>5
    <3> QED
      BY <3>1, <3>5, <3>6, <3>7
  <2>5. CASE e[1] # x[1] /\ e[1] # y[1]
    <3>1. e \notin {x, y, Nx(x), Nx(y), Pv(x), Pv(y)}
      BY <2>5 DEF Nx, Pv
    <3>2. T[e[1]] = m.tria[e[1]]
      BY <1>9, <2>1, <2>5
    <3> QED
      BY <2>2, <3>1, <3>2
  <2> QED
    BY <2>3, <2>4, <2>5
<1>13. SwapVt(m, m1, x, y)
  <2>1. Pv(x) \in DartSet /\ Pv(y) \in DartSet /\ \A e \in Darts(m) : e \in DartSet
    BY <1>2, MeshParts
  <2> QED
    BY <1>5, <1>12, <2>1 DEF SwapVt
<1>14. SwapTg(m, m1, x, y)
  <2>1. Nx(x) \in DartSet /\ Nx(y) \in DartSet /\ \A e \in Darts(m) : e \in DartSet
    BY <1>2, MeshParts
  <2> QED
    BY <1>5, <1>12, <2>1 DEF SwapTg
<1> QED
  BY <1>10, <1>12, <1>13, <1>14 DEF SwapCut

(* The three edges that are glued.                                         *)
LEMMA SwapGlued ==
  ASSUME NEW m, Solid(m), Lists(m), NEW x \in Darts(m), NEW y, y = Ad(m, x), y # NoAdja,
         NEW m1, SwapCut(m, m1, x, y), NEW p, p = Ad(m, Nx(y)), NEW q, q = Ad(m, Nx(x)),
         NEW m2, m2 = Glue(m1, x, p), NEW m3, m3 = Glue(m2, Nx(x), Nx(y)), NEW m4, m4 = Glue(m3, y, q)
  PROVE  Swaps(m, m4, x, y)
<1>0. m \in MeshSet
  BY DEF Solid
<1>1. y \in Darts(m) /\ y[1] # x[1] /\ Ad(m, y) = x /\ x # NoAdja
  BY Twin
<1>2. \A e \in {x, y} : /\ Nx(e) \in Darts(m) /\ Nx(e) # e /\ Nx(e)[1] = e[1]
                        /\ Nx(e) \in DartSet /\ e \in DartSet /\ Nx(e) # NoAdja /\ e # NoAdja
                        /\ Ad(m, Nx(e)) \in Cells
  <2> TAKE e \in {x, y}
  <2>1. e \in Darts(m) /\ Nx(e) \in Darts(m) /\ Nx(e) # e /\ Nx(e)[1] = e[1]
    BY <1>1, DartsTurn
  <2>2. Nx(e) \in DartSet /\ e \in DartSet
    BY <1>0, <2>1, MeshParts
  <2>3. Ad(m, Nx(e)) \in Cells
    BY <1>0, <2>2, MeshParts DEF Cells
  <2> QED
    BY <2>1, <2>2, <2>3, DartIs
<1>3. p # NoAdja => p \in Darts(m) /\ Ad(m, p) = Nx(y) /\ p[1] # y[1] /\ p[1] # x[1]
  <2> HAVE p # NoAdja
  <2>1. p \in Darts(m) /\ Ad(m, p) = Nx(y) /\ p[1] # y[1]
    BY <1>1, <1>2, Twin
  <2>2. p[1] # x[1]
    BY <1>1, <1>2, NoMirror
  <2> QED
    BY <2>1, <2>2
<1>4. q # NoAdja => q \in Darts(m) /\ Ad(m, q) = Nx(x) /\ q[1] # x[1] /\ q[1] # y[1]
  <2> HAVE q # NoAdja
  <2>1. q \in Darts(m) /\ Ad(m, q) = Nx(x) /\ q[1] # x[1]
    BY <1>1, <1>2, Twin
  <2>2. q[1] # y[1]
    BY <1>1, <1>2, NoMirror
  <2> QED
    BY <2>1, <2>2
<1>5. m1 \in MeshSet /\ m1.pts = m.pts /\ m1.trs = m.trs /\ m1.point = m.point
  BY DEF SwapCut, Retri
<1>6. Glued(m1, m2, x, p)
  BY <1>2, <1>5, GlueIs
<1>7. Glued(m2, m3, Nx(x), Nx(y))
  <2>1. m2 \in MeshSet /\ Nx(x) \in DartSet /\ Nx(y) \in Cells
    BY <1>2, <1>6 DEF Glued, Retri, Cells
  <2> QED
    BY <2>1, GlueIs
<1>8. Glued(m3, m4, y, q)
  <2>1. m3 \in MeshSet
    BY <1>7 DEF Glued, Retri
  <2> QED
    BY <1>2, <2>1, GlueIs
<1>9. /\ m4 \in MeshSet /\ m4.pts = m.pts /\ m4.trs = m.trs /\ m4.point = m.point
      /\ \A e \in DartSet : Vt(m4, e) = Vt(m1, e) /\ Tg(m4, e) = Tg(m1, e) /\ Rf(m4, e) = Rf(m1, e)
  <2>1. m4 \in MeshSet /\ m4.pts = m.pts /\ m4.trs = m.trs /\ m4.point = m.point
    BY <1>5, <1>6, <1>7, <1>8 DEF Glued, Retri
  <2>2. \A e \in DartSet : Vt(m4, e) = Vt(m1, e) /\ Tg(m4, e) = Tg(m1, e) /\ Rf(m4, e) = Rf(m1, e)
    BY <1>6, <1>7, <1>8 DEF Glued
  <2> QED
    BY <2>1, <2>2
<1>10. \A e \in DartSet : /\ e = x /\ x # p => Ad(m2, e) = p
                          /\ p # NoAdja /\ e = p => Ad(m2, e) = x
                          /\ e # x /\ e # p => Ad(m2, e) = Ad(m, e)
  BY <1>6 DEF Glued, SwapCut
<1>11. \A e \in DartSet : /\ e = Nx(x) => Ad(m3, e) = Nx(y)
                          /\ e = Nx(y) => Ad(m3, e) = Nx(x)
                          /\ e # Nx(x) /\ e # Nx(y) => Ad(m3, e) = Ad(m2, e)
  <2>1. Nx(x) # Nx(y) /\ Nx(y) # NoAdja
    BY <1>1, <1>2
  <2> QED
    BY <1>7, <2>1 DEF Glued
<1>12. \A e \in DartSet : /\ e = y /\ y # q => Ad(m4, e) = q
                          /\ q # NoAdja /\ e = q => Ad(m4, e) = y
                          /\ e # y /\ e # q => Ad(m4, e) = Ad(m3, e)
  BY <1>8 DEF Glued
<1>13. /\ x # p /\ x # q /\ y # p /\ y # q /\ Nx(x) # p /\ Nx(x) # q /\ Nx(y) # p /\ Nx(y) # q
       /\ x # y /\ x # Nx(y) /\ y # Nx(x) /\ Nx(x) # Nx(y)
       /\ (p # NoAdja => p # q)
  <2>1. x # p /\ y # p /\ Nx(x) # p /\ Nx(y) # p
    BY <1>2, <1>3
  <2>2. x # q /\ y # q /\ Nx(x) # q /\ Nx(y) # q
    BY <1>2, <1>4
  <2>3. x # y /\ x # Nx(y) /\ y # Nx(x) /\ Nx(x) # Nx(y)
    BY <1>1, <1>2
  <2> QED
    BY <1>3, <1>4, <2>1, <2>2, <2>3
<1>14. ASSUME NEW e \in Darts(m)
       PROVE  /\ e \in DartSet
              /\ Ad(m, e) = Nx(y) => Ad(m4, e) = x
              /\ Ad(m, e) = Nx(x) => Ad(m4, e) = y
              /\ e \notin {x, y, Nx(x), Nx(y)} /\ Ad(m, e) \notin {Nx(x), Nx(y)} => Ad(m4, e) = Ad(m, e)
  <2>1. e \in DartSet /\ e # NoAdja
    <3>1. e \in DartSet
      BY <1>0, MeshParts
    <3> QED
      BY <3>1, DartIs
  <2>2. Ad(m, e) = Nx(y) => e = p /\ p # NoAdja
    BY <1>2, <2>1, Twin
  <2>3. Ad(m, e) = Nx(x) => e = q /\ q # NoAdja
    BY <1>2, <2>1, Twin
  <2>4. e = p => Ad(m, e) = Nx(y)
    BY <1>3, <2>1
  <2>5. e = q => Ad(m, e) = Nx(x)
    BY <1>4, <2>1
  <2>6. CASE Ad(m, e) = Nx(y)
    BY <1>10, <1>11, <1>12, <1>13, <2>1, <2>2, <2>6
  <2>7. CASE Ad(m, e) = Nx(x)
    BY <1>12, <1>13, <2>1, <2>3, <2>7
  <2>8. CASE e \notin {x, y, Nx(x), Nx(y)} /\ Ad(m, e) \notin {Nx(x), Nx(y)}
    BY <1>10, <1>11, <1>12, <2>1, <2>4, <2>5, <2>8
  <2> QED
    BY <1>13, <2>1, <2>6, <2>7, <2>8
<1>15. SwapAd(m, m4, x, y)
  <2>1. Ad(m4, x) = p
    BY <1>2, <1>10, <1>11, <1>12, <1>13
  <2>2. Ad(m4, Nx(x)) = Nx(y)
    BY <1>2, <1>11, <1>12, <1>13
  <2>3. Ad(m4, Nx(y)) = Nx(x)
    BY <1>2, <1>11, <1>12, <1>13
  <2>4. Ad(m4, y) = q
    BY <1>2, <1>12, <1>13
  <2> QED
    BY <1>14, <2>1, <2>2, <2>3, <2>4 DEF SwapAd
<1>16. SwapVt(m, m4, x, y) /\ SwapTg(m, m4, x, y)
  <2>1. SwapVt(m, m1, x, y) /\ SwapTg(m, m1, x, y)
    BY DEF SwapCut
  <2>2. Pv(x) \in DartSet /\ Pv(y) \in DartSet
    <3>1. Pv(x) \in Darts(m) /\ Pv(y) \in Darts(m)
      BY <1>1, DartsTurn
    <3> QED
      BY <1>0, <3>1, MeshParts
  <2>3. SwapVt(m, m4, x, y)
    BY <1>9, <1>14, <2>1, <2>2 DEF SwapVt
  <2>4. SwapTg(m, m4, x, y)
    BY <1>2, <1>9, <1>14, <2>1 DEF SwapTg
  <2> QED
    BY <2>3, <2>4
<1>17. \A e \in Darts(m) : Rf(m4, e) = Rf(m, e)
  BY <1>9, <1>14 DEF SwapCut
<1>18. Lists(m4) /\ Live(m4.trs) = Live(m.trs) /\ Live(m4.pts) = Live(m.pts)
  BY <1>9 DEF Lists
<1>19. \A r : At(m4, r) = At(m, r) /\ Pt(m4, r) = Pt(m, r)
  BY <1>9 DEF At, Pt
<1> QED
  BY <1>1, <1>9, <1>15, <1>16, <1>17, <1>18, <1>19 DEF Swaps

(* MMG2D_chkswp and MMG2D_swapar keep a mesh sound.                        *)
LEMMA SwapSteps ==
  ASSUME NEW m, Sound(m), NEW x \in Darts(m), NEW f \in BOOLEAN, Chkswp(m, x[1], x[2], f),
         NEW m4, m4 = Swapar(m, x[1], x[2]), NEW y, y = Ad(m, x)
  PROVE  Sound(m4) /\ Swaps(m, m4, x, y)
<1>0. Solid(m) /\ m \in MeshSet /\ Lists(m)
  BY DEF Sound, Solid
<1>1. /\ y # NoAdja /\ ~EDG(Tg(m, x)) /\ ~SIN(Tg(m, x))
      /\ AreaOf(m, With(m, x[1], Prv(x[2]), Vt(m, y))) > 0
      /\ AreaOf(m, With(m, x[1], Nxt(x[2]), Vt(m, y))) > 0
  BY DEF Chkswp, Ad, Tg, Vt
<1>2. y \in Darts(m) /\ y[1] # x[1] /\ Ad(m, y) = x /\ Vt(m, Nx(y)) = Vt(m, Pv(x)) /\ Vt(m, Pv(y)) = Vt(m, Nx(x))
  BY <1>0, <1>1, Twin
<1>3. x \in DartSet /\ y \in DartSet
  BY <1>0, <1>2, MeshParts
<1> DEFINE A == [m.tria[x[1]] EXCEPT !.v[Prv(x[2])] = Vt(m, y), !.tag[x[2]] = Tg(m, Nx(y)), !.tag[Nxt(x[2])] = {}]
           B == [m.tria[y[1]] EXCEPT !.v[Prv(y[2])] = Vt(m, x), !.tag[y[2]] = Tg(m, Nx(x)), !.tag[Nxt(y[2])] = {}]
           m1 == [m EXCEPT !.tria[x[1]] = A, !.tria[y[1]] = B]
           p == Ad(m, Nx(y))
           q == Ad(m, Nx(x))
           m2 == Glue(m1, x, p)
           m3 == Glue(m2, Nx(x), Nx(y))
<1>4. m4 = Glue(m3, y, q)
  <2>1. x = <<x[1], x[2]>> /\ y = <<y[1], y[2]>>
    BY <1>3, DartIs
  <2> QED
    BY <2>1 DEF Swapar, Ad, Vt, Tg, Nx
<1>5. /\ x[1] \in 1..NTMax /\ x[2] \in Local /\ y[1] \in 1..NTMax /\ y[2] \in Local
      /\ Prv(x[2]) \in Local /\ Nxt(x[2]) \in Local /\ Prv(y[2]) \in Local /\ Nxt(y[2]) \in Local
  <2>1. x[1] \in 1..NTMax /\ x[2] \in Local /\ y[1] \in 1..NTMax /\ y[2] \in Local
    BY <1>3, DartIs
  <2> QED
    BY <2>1 DEF Nxt, Prv, Local
<1>6. Nx(x) \in DartSet /\ Nx(y) \in DartSet
  BY <1>5 DEF Nx, DartSet
<1>7. /\ Vt(m, x) \in 0..NPMax /\ Vt(m, y) \in 0..NPMax
      /\ Tg(m, Nx(x)) \in SUBSET TagSet /\ Tg(m, Nx(y)) \in SUBSET TagSet
  BY <1>0, <1>3, <1>6, MeshParts
<1>8. m.tria[x[1]] \in TriaSet /\ m.tria[y[1]] \in TriaSet
  BY <1>0, <1>5 DEF MeshSet
<1>9. Remade(m.tria[x[1]], A, Prv(x[2]), x[2], Nxt(x[2]), Vt(m, y), Tg(m, Nx(y)), {})
  <2>1. ASSUME NEW pt, pt = m.tria[x[1]], NEW w, w = Vt(m, y), NEW ta, ta = Tg(m, Nx(y))
        PROVE  Remade(pt, [pt EXCEPT !.v[Prv(x[2])] = w, !.tag[x[2]] = ta, !.tag[Nxt(x[2])] = {}], Prv(x[2]), x[2], Nxt(x[2]), w, ta, {})
    <3>1. pt \in TriaSet /\ w \in 0..NPMax /\ ta \in SUBSET TagSet /\ {} \in SUBSET TagSet
      BY <1>7, <1>8, <2>1
    <3> QED
      BY <1>5, <3>1, Redone, Zenon
  <2> QED
    BY <2>1, Zenon DEF A
<1>10. Remade(m.tria[y[1]], B, Prv(y[2]), y[2], Nxt(y[2]), Vt(m, x), Tg(m, Nx(x)), {})
  <2>1. ASSUME NEW pt, pt = m.tria[y[1]], NEW w, w = Vt(m, x), NEW ta, ta = Tg(m, Nx(x))
        PROVE  Remade(pt, [pt EXCEPT !.v[Prv(y[2])] = w, !.tag[y[2]] = ta, !.tag[Nxt(y[2])] = {}], Prv(y[2]), y[2], Nxt(y[2]), w, ta, {})
    <3>1. pt \in TriaSet /\ w \in 0..NPMax /\ ta \in SUBSET TagSet /\ {} \in SUBSET TagSet
      BY <1>7, <1>8, <2>1
    <3> QED
      BY <1>5, <3>1, Redone, Zenon
  <2> QED
    BY <2>1, Zenon DEF B
<1>11. SwapCut(m, m1, x, y)
  <2> HIDE DEF A, B
  <2> QED
    BY <1>0, <1>2, <1>3, <1>9, <1>10, SwapCutIs
<1> HIDE DEF m1
<1>12. Swaps(m, m4, x, y)
  <2> HIDE DEF m2, m3, p, q
  <2>1. p = Ad(m, Nx(y)) /\ q = Ad(m, Nx(x)) /\ m2 = Glue(m1, x, p) /\ m3 = Glue(m2, Nx(x), Nx(y))
    BY DEF p, q, m2, m3
  <2> QED
    BY <1>0, <1>1, <1>4, <1>11, <2>1, SwapGlued
<1> HIDE DEF m2, m3, p, q
<1>13. /\ Vt(m4, x) = Vt(m, x) /\ Vt(m4, Nx(x)) = Vt(m, Nx(x)) /\ Vt(m4, Pv(x)) = Vt(m, y)
       /\ Vt(m4, y) = Vt(m, y) /\ Vt(m4, Nx(y)) = Vt(m, Nx(y)) /\ Vt(m4, Pv(y)) = Vt(m, x)
  BY <1>0, <1>12, SwapParts
<1>14. \A e \in {x, Nx(x), Pv(x), y} : /\ Vt(m, e) \in 1..NPMax /\ At(m, Vt(m, e)) \in Int \X Int
                                       /\ At(m4, Vt(m, e)) = At(m, Vt(m, e)) /\ e \in DartSet
  <2> TAKE e \in {x, Nx(x), Pv(x), y}
  <2>1. e \in Darts(m)
    BY <1>2, DartsTurn
  <2>2. Vt(m, e) \in Live(m.pts)
    BY <1>0, <2>1, Corners
  <2>3. At(m4, Vt(m, e)) = At(m, Vt(m, e))
    BY <1>12, <2>2 DEF Swaps
  <2> QED
    BY <1>0, <2>1, <2>3, Corners
<1> DEFINE X == At(m, Vt(m, x))
           N1 == At(m, Vt(m, Nx(x)))
           P1 == At(m, Vt(m, Pv(x)))
           Y == At(m, Vt(m, y))
<1>15. X \in Int \X Int /\ N1 \in Int \X Int /\ P1 \in Int \X Int /\ Y \in Int \X Int
  BY <1>14
<1>16. Nx(Pv(x)) = x /\ Pv(Pv(x)) = Nx(x) /\ Nx(Nx(x)) = Pv(x) /\ Pv(Nx(x)) = x
  BY DartsTurn
<1>17. Area(Y, X, N1) > 0
  <2>1. AreaOf(m, With(m, Pv(x)[1], Pv(x)[2], Vt(m, y))) = Area(At(m, Vt(m, y)), At(m, Vt(m, Nx(Pv(x)))), At(m, Vt(m, Pv(Pv(x)))))
    <3>1. PICK e, ip : e = Pv(x) /\ ip = Vt(m, y)
      OBVIOUS
    <3>2. e \in DartSet /\ ip \in 1..NPMax /\ Vt(m, Nx(e)) \in 1..NPMax /\ Vt(m, Pv(e)) \in 1..NPMax
      BY <1>14, <1>16, <3>1
    <3> QED
      BY <1>0, <3>1, <3>2, WithIs
  <2>2. Pv(x)[1] = x[1] /\ Pv(x)[2] = Prv(x[2])
    BY DEF Pv
  <2> QED
    BY <1>1, <1>16, <2>1, <2>2
<1>18. Area(Y, P1, X) > 0
  <2>1. AreaOf(m, With(m, Nx(x)[1], Nx(x)[2], Vt(m, y))) = Area(At(m, Vt(m, y)), At(m, Vt(m, Nx(Nx(x)))), At(m, Vt(m, Pv(Nx(x)))))
    <3>1. PICK e, ip : e = Nx(x) /\ ip = Vt(m, y)
      OBVIOUS
    <3>2. e \in DartSet /\ ip \in 1..NPMax /\ Vt(m, Nx(e)) \in 1..NPMax /\ Vt(m, Pv(e)) \in 1..NPMax
      BY <1>14, <1>16, <3>1
    <3> QED
      BY <1>0, <3>1, <3>2, WithIs
  <2>2. Nx(x)[1] = x[1] /\ Nx(x)[2] = Nxt(x[2])
    BY DEF Nx
  <2> QED
    BY <1>1, <1>16, <2>1, <2>2
<1>19. Twice(m4, x) = Area(X, N1, Y) /\ Twice(m4, y) = Area(Y, P1, X)
  BY <1>2, <1>13, <1>14 DEF Twice
<1> HIDE DEF X, N1, P1, Y
<1>20. Twice(m4, x) > 0 /\ Twice(m4, y) > 0
  <2>1. Area(X, N1, Y) = Area(Y, X, N1)
    BY <1>15, AreaTurns
  <2> QED
    BY <1>17, <1>18, <1>19, <2>1
<1>21. Sound(m4)
  BY <1>1, <1>12, <1>20, SwapSoundly
<1> QED
  BY <1>12, <1>21

-------------------------------------------------------------------------------
(* The loop that adds up whole numbers.                                    *)
LEMMA SumLoop ==
  ASSUME NEW w \in Seq(Int)
  PROVE  \E b : /\ b[0] = 0 /\ \A n \in 1..Len(w) : b[n] = b[n - 1] + w[n]
                /\ b \in [0..Len(w) -> Int] /\ AddedUp(w) = b[Len(w)]
<1> DEFINE n == Len(w)
           step == [c \in Int \X (1..n) |-> c[1] + w[c[2]]]
<1>1. n \in Nat /\ \A j \in 1..n : w[j] \in Int
  OBVIOUS
<1>2. step \in Steps(Int, n) /\ \A x \in Int, j \in 1..n : step[<<x, j>>] = x + w[j]
  BY <1>1 DEF Steps
<1>3. \E f : Recursive(f, n, Int, 0, step)
  <2> DEFINE T == Int
             x == 0
  <2>1. n \in Nat /\ x \in T /\ step \in Steps(T, n)
    BY <1>1, <1>2
  <2> HIDE DEF step, n, T, x
  <2>2. \E f : Recursive(f, n, T, x, step)
    BY <2>1, Recursion
  <2> QED
    BY <2>2 DEF T, x
<1> HIDE DEF step
<1>31. PICK f : Recursive(f, n, Int, 0, step)
  BY <1>3
<1>4. f \in [0..n -> Int] /\ f[0] = 0 /\ \A j \in 1..n : f[j] = f[j - 1] + w[j]
  <2>1. f \in [0..n -> Int] /\ f[0] = 0 /\ \A j \in 1..n : f[j] = step[<<f[j - 1], j>>]
    BY <1>31 DEF Recursive
  <2>2. \A j \in 1..n : j - 1 \in 0..n
    BY <1>1
  <2>3. \A j \in 1..n : f[j - 1] \in Int
    BY <2>1, <2>2
  <2> HIDE DEF n
  <2> QED
    BY <1>2, <2>1, <2>3
<1> DEFINE Eq(b) == b = [j \in 0..n |-> IF j = 0 THEN 0 ELSE b[j - 1] + w[j]]
           b == CHOOSE g : Eq(g)
<1>5. Eq(f)
  BY <1>1, <1>4
<1>6. Eq(b)
  BY <1>5
<1>7. AddedUp(w) = b[n]
  BY DEF AddedUp
<1> HIDE DEF b
<1>8. b[0] = 0 /\ \A j \in 1..n : b[j] = b[j - 1] + w[j]
  BY <1>1, <1>6
<1>9. b = f
  <2> DEFINE S == {j \in Nat : j \in 0..n => b[j] = f[j]}
  <2>1. 0 \in S
    BY <1>4, <1>8
  <2>2. ASSUME NEW j \in 1..n, j - 1 \in S PROVE j \in S
    BY <1>1, <1>4, <1>8, <2>2
  <2>3. 0..n \subseteq S
    <3> HIDE DEF S, n
    <3> QED
      BY <1>1, <2>1, <2>2, Upward
  <2>4. \A j \in 0..n : b[j] = f[j]
    BY <2>3
  <2>5. b = [j \in 0..n |-> b[j]]
    BY <1>6
  <2> QED
    BY <1>4, <2>4, <2>5
<1> QED
  BY <1>4, <1>7, <1>9

(* Whole numbers that are not negative, one of which is positive, add up   *)
(* to a positive one.                                                      *)
LEMMA SumPositive ==
  ASSUME NEW w \in Seq(Int), \A j \in 1..Len(w) : w[j] > 0
  PROVE  AddedUp(w) \in Int /\ (Len(w) > 0 => AddedUp(w) > 0)
<1>1. PICK b : /\ b[0] = 0 /\ \A n \in 1..Len(w) : b[n] = b[n - 1] + w[n]
               /\ b \in [0..Len(w) -> Int] /\ AddedUp(w) = b[Len(w)]
  BY SumLoop
<1> DEFINE n == Len(w)
           S == {j \in Nat : j \in 0..n => b[j] >= j}
<1>2. n \in Nat /\ \A j \in 1..n : w[j] \in Int /\ w[j] > 0
  OBVIOUS
<1>3. 0 \in S
  BY <1>1
<1>4. ASSUME NEW j \in 1..n, j - 1 \in S PROVE j \in S
  <2>1. b[j - 1] \in Int /\ b[j - 1] >= j - 1 /\ b[j] = b[j - 1] + w[j]
    BY <1>1, <1>2, <1>4
  <2> QED
    BY <1>2, <2>1
<1>5. 0..n \subseteq S
  <2> HIDE DEF S, n
  <2> QED
    BY <1>2, <1>3, <1>4, Upward
<1>6. b[n] \in Int /\ b[n] >= n
  BY <1>1, <1>2, <1>5
<1> QED
  BY <1>1, <1>2, <1>6

-------------------------------------------------------------------------------
(* MMG2D_movintpt.                                                         *)

LEMMA SumIsInt ==
  ASSUME NEW w \in Seq(Int)
  PROVE  AddedUp(w) \in Int
<1>1. PICK b : /\ b[0] = 0 /\ \A n \in 1..Len(w) : b[n] = b[n - 1] + w[n]
               /\ b \in [0..Len(w) -> Int] /\ AddedUp(w) = b[Len(w)]
  BY SumLoop
<1>2. Len(w) \in 0..Len(w)
  OBVIOUS
<1> QED
  BY <1>1, <1>2

(* The centre of mass of a ball is a point.                                *)
LEMMA MassIsPoint ==
  ASSUME Solid(mesh), NEW list \in Seq(Darts(mesh)), list # <<>>
  PROVE  Mass(list) \in Int \X Int
<1> DEFINE corner(s, j) == mesh.point[mesh.tria[s[1]].v[j]].c
           area(s)      == AreaOf(mesh, mesh.tria[s[1]].v)
           sum(s, x)    == corner(s, 0)[x] + corner(s, 1)[x] + corner(s, 2)[x]
           areas        == [l \in DOMAIN list |-> area(list[l])]
           firsts       == [l \in DOMAIN list |-> area(list[l]) * sum(list[l], 1)]
           seconds      == [l \in DOMAIN list |-> area(list[l]) * sum(list[l], 2)]
           volbal       == AddedUp(areas)
           b1           == AddedUp(firsts)
           b2           == AddedUp(seconds)
<1>1. Mass(list) = <<b1 \div (3 * volbal), b2 \div (3 * volbal)>>
  BY DEF Mass
<1>0. mesh \in MeshSet
  BY DEF Solid
<1>2. ASSUME NEW s \in Darts(mesh)
      PROVE  area(s) \in Int /\ area(s) > 0 /\ sum(s, 1) \in Int /\ sum(s, 2) \in Int
  <2>1. s \in DartSet /\ Nx(s) \in Darts(mesh) /\ Pv(s) \in Darts(mesh)
    BY <1>0, MeshParts, DartsTurn
  <2>2. Vt(mesh, s) \in 1..NPMax /\ Vt(mesh, Nx(s)) \in 1..NPMax /\ Vt(mesh, Pv(s)) \in 1..NPMax
    BY <2>1, Corners
  <2>3. area(s) = Twice(mesh, s)
    BY <1>0, <2>1, <2>2, AreaIs
  <2>4. Twice(mesh, s) > 0
    BY DEF Solid, Positive
  <2>5. Twice(mesh, s) \in Int
    BY <1>0, <2>2, MeshParts, AreaTurns DEF Twice
  <2>6. ASSUME NEW j \in Local PROVE corner(s, j) \in Int \X Int
    <3>1. s[1] \in Live(mesh.trs)
      BY DartsTurn
    <3>2. PICK e : e = <<s[1], j>>
      OBVIOUS
    <3>3. e \in Darts(mesh)
      BY <3>1, <3>2 DEF Darts
    <3>4. At(mesh, Vt(mesh, e)) \in Int \X Int
      BY <3>3, Corners
    <3> QED
      BY <3>2, <3>4 DEF At, Vt
  <2>7. corner(s, 0) \in Int \X Int /\ corner(s, 1) \in Int \X Int /\ corner(s, 2) \in Int \X Int
    BY <2>6 DEF Local
  <2> HIDE DEF corner, area
  <2> QED
    BY <2>3, <2>4, <2>5, <2>7
<1> HIDE DEF area, sum
<1>3. DOMAIN list = 1..Len(list) /\ Len(list) \in Nat /\ Len(list) > 0 /\ \A l \in DOMAIN list : list[l] \in Darts(mesh)
  OBVIOUS
<1>4. /\ areas \in Seq(Int) /\ Len(areas) = Len(list) /\ \A l \in 1..Len(areas) : areas[l] > 0
      /\ firsts \in Seq(Int) /\ seconds \in Seq(Int)
  <2>1. \A l \in DOMAIN list : /\ area(list[l]) \in Int /\ area(list[l]) > 0
                               /\ area(list[l]) * sum(list[l], 1) \in Int
                               /\ area(list[l]) * sum(list[l], 2) \in Int
    BY <1>2, <1>3
  <2>2. areas \in [1..Len(list) -> Int] /\ firsts \in [1..Len(list) -> Int] /\ seconds \in [1..Len(list) -> Int]
    BY <1>3, <2>1
  <2>3. \A l \in 1..Len(list) : areas[l] > 0
    BY <1>3, <2>1
  <2>4. ASSUME NEW g, g \in [1..Len(list) -> Int] PROVE g \in Seq(Int) /\ Len(g) = Len(list)
    BY <1>3, <2>4
  <2> HIDE DEF areas, firsts, seconds
  <2> QED
    BY <2>2, <2>3, <2>4
<1> HIDE DEF areas, firsts, seconds
<1>5. volbal \in Int /\ volbal > 0
  BY <1>3, <1>4, SumPositive
<1>6. b1 \in Int /\ b2 \in Int
  BY <1>4, SumIsInt
<1> HIDE DEF volbal, b1, b2
<1>7. b1 \div (3 * volbal) \in Int /\ b2 \div (3 * volbal) \in Int
  <2>1. 3 * volbal \in Int /\ 3 * volbal > 0
    BY <1>5
  <2> QED
    BY <1>6, <2>1
<1> QED
  BY <1>1, <1>7

(* A vertex that slides along a curve stays at a point of the plane.       *)
LEMMA SlideIsPoint ==
  ASSUME Solid(mesh), NEW list \in Seq(Darts(mesh)), NEW ip \in Live(mesh.pts), NEW c \in Slide(ip, list)
  PROVE  c \in Int \X Int
<1>0. mesh \in MeshSet
  BY DEF Solid
<1>1. \A s \in Range(list) : s \in Darts(mesh)
  BY DEF Range
<1>2. ASSUME NEW s \in Darts(mesh)
      PROVE  mesh.tria[s[1]].v[Prv(s[2])] \in Live(mesh.pts) /\ mesh.tria[s[1]].v[Nxt(s[2])] \in Live(mesh.pts)
  <2>1. Nx(s) \in Darts(mesh) /\ Pv(s) \in Darts(mesh)
    BY DartsTurn
  <2>2. Vt(mesh, Nx(s)) \in Live(mesh.pts) /\ Vt(mesh, Pv(s)) \in Live(mesh.pts)
    BY <2>1, Corners
  <2> QED
    BY <2>2 DEF Vt, Nx, Pv
<1>3. CurveNext(list) \subseteq Live(mesh.pts)
  BY <1>1, <1>2 DEF CurveNext
<1>4. PICK q \in CurveNext(list) :
        c = <<At(mesh, ip)[1] + Vec(At(mesh, ip), At(mesh, q))[1] \div 10,
              At(mesh, ip)[2] + Vec(At(mesh, ip), At(mesh, q))[2] \div 10>>
  BY DEF Slide, At
<1>5. At(mesh, ip) \in Int \X Int /\ At(mesh, q) \in Int \X Int
  <2>1. ip \in 1..NPMax /\ q \in 1..NPMax
    BY <1>0, <1>3, MeshParts
  <2> QED
    BY <1>0, <2>1, MeshParts
<1>6. PICK u, w : u = At(mesh, ip) /\ w = At(mesh, q)
  OBVIOUS
<1>7. Vec(u, w)[1] = w[1] - u[1] /\ Vec(u, w)[2] = w[2] - u[2]
  BY DEF Vec
<1>8. c = <<u[1] + (w[1] - u[1]) \div 10, u[2] + (w[2] - u[2]) \div 10>>
  BY <1>4, <1>6, <1>7
<1>9. u[1] \in Int /\ u[2] \in Int /\ w[1] \in Int /\ w[2] \in Int
  BY <1>5, <1>6
<1> QED
  BY <1>8, <1>9

(* MMG2D_movintpt, MMG2D_movedgpt: a move keeps a mesh sound.              *)
LEMMA MoveSteps ==
  ASSUME Sound(mesh), NEW s \in Darts(mesh), MoveVertex(s[1], s[2])
  PROVE  Sound(mesh') /\ Moves(mesh, mesh', Vt(mesh, s))
         /\ Movable(Pt(mesh, Vt(mesh, s)))
<1>0. Solid(mesh) /\ OneFan(mesh) /\ mesh \in MeshSet
  BY DEF Sound, Solid
<1> DEFINE ip == Vt(mesh, s)
           list == Boulet(mesh, s[1], s[2])
<1>1. PICK c \in IF EDG(Pt(mesh, ip)) THEN Slide(ip, list) ELSE {Mass(list)} :
        /\ Movable(Pt(mesh, ip))
        /\ mesh' = [mesh EXCEPT !.point[ip].c = c]
        /\ \A l \in DOMAIN list : AreaOf(mesh', mesh'.tria[list[l][1]].v) > 0
  BY DEF MoveVertex, Movable, Vt, Pt
<1>2. /\ list \in Seq(Darts(mesh))
      /\ \A e \in Darts(mesh) : Vt(mesh, e) = ip => \E j \in 1..Len(list) : list[j] = e
  BY <1>0, <1>1, BouletHolds
<1>3. ip \in Live(mesh.pts) /\ ip \in 1..NPMax
  BY <1>0, Corners
<1> HIDE DEF ip, list
<1>4. c \in Int \X Int
  <2>1. CASE EDG(Pt(mesh, ip))
    BY <1>0, <1>1, <1>2, <1>3, <2>1, SlideIsPoint
  <2>2. CASE ~EDG(Pt(mesh, ip))
    <3>1. c = Mass(list)
      BY <1>1, <2>2
    <3>2. list # <<>>
      <4>1. \E j \in 1..Len(list) : list[j] = s
        BY <1>2 DEF ip
      <4> QED
        BY <4>1
    <3> QED
      BY <1>0, <1>2, <3>1, <3>2, MassIsPoint
  <2> QED
    BY <2>1, <2>2
<1>5. Moves(mesh, mesh', ip)
  <2>1. mesh.point \in [1..NPMax -> PointSet] /\ mesh.point[ip] = [c |-> mesh.point[ip].c, tag |-> mesh.point[ip].tag]
        /\ mesh.point[ip].tag \in SUBSET TagSet
    BY <1>0, <1>3 DEF MeshSet, PointSet
  <2> DEFINE P == [mesh.point EXCEPT ![ip] = [c |-> c, tag |-> mesh.point[ip].tag]]
  <2>2. mesh' = [mesh EXCEPT !.point = P]
    <3>1. PICK r, q : r = mesh.point[ip] /\ q = mesh.point[ip].tag
      OBVIOUS
    <3>2. [r EXCEPT !.c = c] = [c |-> c, tag |-> q]
      BY <2>1, <3>1
    <3>3. [mesh EXCEPT !.point[ip].c = c] = [mesh EXCEPT !.point = [mesh.point EXCEPT ![ip] = [mesh.point[ip] EXCEPT !.c = c]]]
      BY <1>0 DEF MeshSet
    <3> QED
      BY <1>1, <3>1, <3>2, <3>3
  <2>3. P \in [1..NPMax -> PointSet] /\ P[ip] = [c |-> c, tag |-> mesh.point[ip].tag] /\ \A q \in 1..NPMax : q # ip => P[q] = mesh.point[q]
    <3>1. [c |-> c, tag |-> mesh.point[ip].tag] \in PointSet
      BY <1>4, <2>1 DEF PointSet
    <3> QED
      BY <1>3, <2>1, <3>1
  <2> HIDE DEF P
  <2>4. mesh' \in MeshSet /\ mesh'.pts = mesh.pts /\ mesh'.trs = mesh.trs /\ mesh'.tria = mesh.tria /\ mesh'.point = P
    BY <1>0, <2>2, <2>3 DEF MeshSet
  <2>5. \A q \in 1..NPMax : Pt(mesh', q) = Pt(mesh, q) /\ (q # ip => At(mesh', q) = At(mesh, q))
    BY <2>3, <2>4 DEF Pt, At
  <2> QED
    BY <2>4, <2>5 DEF Moves
<1>6. ASSUME NEW e \in Darts(mesh), Vt(mesh, e) = ip PROVE Twice(mesh', e) > 0
  <2>1. PICK j \in 1..Len(list) : list[j] = e
    BY <1>2, <1>6
  <2>2. AreaOf(mesh', mesh'.tria[e[1]].v) > 0
    BY <1>1, <1>2, <2>1
  <2>3. e \in DartSet /\ Nx(e) \in Darts(mesh) /\ Pv(e) \in Darts(mesh)
    BY <1>0, MeshParts, DartsTurn
  <2>4. Vt(mesh', e) \in 1..NPMax /\ Vt(mesh', Nx(e)) \in 1..NPMax /\ Vt(mesh', Pv(e)) \in 1..NPMax
    <3>1. \A d : Vt(mesh', d) = Vt(mesh, d)
      BY <1>5 DEF Moves, Vt
    <3> QED
      BY <1>0, <2>3, <3>1, Corners
  <2>5. mesh' \in MeshSet
    BY <1>5 DEF Moves
  <2>6. AreaOf(mesh', mesh'.tria[e[1]].v) = Twice(mesh', e)
    <3>1. PICK m2 : m2 = mesh'
      OBVIOUS
    <3>2. AreaOf(m2, m2.tria[e[1]].v) = Twice(m2, e)
      BY <2>3, <2>4, <2>5, <3>1, AreaIs
    <3> QED
      BY <3>1, <3>2
  <2> QED
    BY <2>2, <2>6
<1>7. Sound(mesh')
  <2>1. PICK m2 : m2 = mesh'
    OBVIOUS
  <2>2. Moves(mesh, m2, ip) /\ \A e \in Darts(mesh) : Vt(mesh, e) = ip => Twice(m2, e) > 0
    BY <1>5, <1>6, <2>1
  <2>3. Sound(m2)
    BY <2>2, MoveSoundly
  <2> QED
    BY <2>1, <2>3
<1> QED
  BY <1>1, <1>5, <1>7 DEF ip

-------------------------------------------------------------------------------
(* A step that gives up or is broken off for want of a slot.               *)

(* A mesh is sound for what it holds of the slots in use.                  *)
SameMesh(m, m2) ==
    /\ m2 \in MeshSet /\ m2.tria = m.tria /\ m2.trs = m.trs
    /\ Live(m2.pts) = Live(m.pts)
    /\ \A p \in Live(m.pts) : At(m2, p) = At(m, p) /\ Pt(m2, p) = Pt(m, p)

LEMMA SameSound ==
  ASSUME NEW m, Sound(m), NEW m2, SameMesh(m, m2), Lists(m2)
  PROVE  Sound(m2)
<1>0. Solid(m) /\ m2 \in MeshSet
  BY DEF Sound, Solid, SameMesh
<1>1. /\ Darts(m2) = Darts(m)
      /\ \A e : Vt(m2, e) = Vt(m, e) /\ Ad(m2, e) = Ad(m, e) /\ Tg(m2, e) = Tg(m, e) /\ Rf(m2, e) = Rf(m, e)
  BY DEF SameMesh, Darts, Vt, Ad, Tg, Rf
<1>2. \A e \in Darts(m) : Vt(m, e) \in Live(m.pts) /\ Nx(e) \in Darts(m) /\ Pv(e) \in Darts(m)
  BY <1>0, Corners, DartsTurn
<1>3. \A e \in Darts(m) : At(m2, Vt(m, e)) = At(m, Vt(m, e)) /\ Pt(m2, Vt(m, e)) = Pt(m, Vt(m, e))
  BY <1>2 DEF SameMesh
<1>4. OnLive(m2)
  BY <1>1, <1>2 DEF OnLive, SameMesh
<1>5. Joined(m2)
  BY <1>1 DEF Joined, Sound
<1>6. Positive(m2)
  <2>1. \A e \in Darts(m) : Twice(m2, e) = Twice(m, e)
    BY <1>1, <1>2, <1>3 DEF Twice
  <2> QED
    BY <1>1, <2>1 DEF Positive, Sound
<1>7. Used(m2)
  BY <1>1 DEF Used, Sound, SameMesh
<1>8. Tagged(m2)
  <2>1. \A e \in Darts(m) : KindOf(m2, e) = KindOf(m, e)
    BY <1>1 DEF KindOf
  <2>2. \A e \in Darts(m) : /\ Pt(m2, Vt(m, Nx(e))) = Pt(m, Vt(m, Nx(e)))
                            /\ Pt(m2, Vt(m, Pv(e))) = Pt(m, Vt(m, Pv(e)))
    BY <1>2, <1>3
  <2> QED
    BY <1>1, <2>1, <2>2 DEF Tagged, Sound
<1>9. Plain(m2)
  BY DEF Plain, Sound, SameMesh
<1>10. OneFan(m2)
  <2>1. \A S : Closed(m2, S) => Closed(m, S)
    BY <1>1 DEF Closed
  <2> QED
    BY <1>1, <1>3, <2>1 DEF OneFan, Sound
<1> QED
  BY <1>0, <1>4, <1>5, <1>6, <1>7, <1>8, <1>9, <1>10 DEF Sound

(* MMG2D_delPt on the vertex that MMG2D_newPt has just created.            *)
LEMMA GiveUpSteps ==
  ASSUME NEW m, Sound(m), NEW s \in Darts(m), m.pts.nil # 0, NEW c \in Int \X Int,
         NEW m2, m2 = DelPt(NewPt(m, c, Tg(m, s)), m.pts.nil)
  PROVE  Sound(m2) /\ SameMesh(m, m2)
<1>1. PICK m1, ip : m1 = NewPt(m, c, Tg(m, s)) /\ ip = m.pts.nil
  OBVIOUS
<1>2. /\ SameTria(m, m1) /\ ip \in 1..NPMax /\ ip \notin Live(m.pts)
      /\ Live(m1.pts) = Live(m.pts) \union {ip}
      /\ \E f : FreeListOK(m1.pts, f)
      /\ \A p \in Live(m.pts) : At(m1, p) = At(m, p) /\ Pt(m1, p) = Pt(m, p)
  BY <1>1, SplitPoint
<1>3. m2 = DelPt(m1, ip) /\ m1 \in MeshSet /\ m1.tria = m.tria /\ m1.trs = m.trs
  BY <1>1, <1>2 DEF SameTria
<1>4. /\ m2 \in MeshSet /\ m2.tria = m1.tria /\ m2.trs = m1.trs
      /\ Live(m2.pts) = Live(m1.pts) \ {ip}
      /\ \A q \in 1..NPMax : q # ip => At(m2, q) = At(m1, q) /\ Pt(m2, q) = Pt(m1, q)
  BY <1>2, <1>3, DelPtIs
<1>5. \E f : FreeListOK(m2.pts, f)
  BY <1>2, <1>3, DelPtIs
<1>6. Lists(m2)
  BY <1>3, <1>4, <1>5 DEF Lists, Sound
<1>7. SameMesh(m, m2)
  <2>1. \A p \in Live(m.pts) : p \in 1..NPMax /\ p # ip
    BY <1>2, MeshParts DEF Sound
  <2>2. Live(m2.pts) = Live(m.pts)
    BY <1>2, <1>4
  <2> QED
    BY <1>2, <1>3, <1>4, <2>1, <2>2 DEF SameMesh
<1> QED
  BY <1>6, <1>7, SameSound

(* The vertex that POINT_REALLOC deletes when there is no memory: the one  *)
(* of largest index.                                                       *)
LEMMA LastVertexIs ==
  ASSUME NEW m, Sound(m), NEW s \in Darts(m), NEW m2, m2 = DelPt(m, m.pts.n)
  PROVE  m2 \in MeshSet
<1>0. Solid(m) /\ m \in MeshSet
  BY DEF Sound, Solid
<1>1. PICK f : FreeListOK(m.pts, f)
  BY DEF Sound, Lists
<1>2. \A j \in 1..m.pts.max : m.pts.st[j] = "live" => j <= m.pts.n
  BY <1>1 DEF FreeListOK, Divided
<1>3. Vt(m, s) \in Live(m.pts)
  BY <1>0, Corners
<1>4. m.pts.n \in 1..NPMax
  <2>1. m.pts.n \in 0..m.pts.max /\ m.pts.max = NPMax /\ NPMax \in Nat
    BY <1>0, MeshParts, MeshAssumption DEF IsPool
  <2>2. Vt(m, s) \in 1..m.pts.max /\ m.pts.st[Vt(m, s)] = "live"
    BY <1>3 DEF Live
  <2> QED
    BY <1>2, <2>1, <2>2
<1> QED
  BY <1>0, <1>4, DelPtIs

(* A triangle is missing for the second half.                              *)
LEMMA BrokenSplitIs ==
  ASSUME NEW m, Sound(m), NEW s \in Darts(m), m.pts.nil # 0,
         NEW c \in Int \X Int, NEW m1, m1 = NewPt(m, c, Tg(m, s)), m1.trs.nil # 0,
         NEW m2, m2 = DelPt(FirstHalf(m1, s[1], s[2], m.pts.nil), m.pts.nil)
  PROVE  m2 \in MeshSet
<1>1. PICK ip, n, h : ip = m.pts.nil /\ n = m.trs.nil /\ h = FirstHalf(m1, s[1], s[2], ip)
  OBVIOUS
<1>2. SameTria(m, m1) /\ ip \in 1..NPMax
  BY <1>1, SplitPoint
<1>3. m.trs.nil # 0 /\ Solid(m) /\ Lists(m)
  BY <1>2 DEF SameTria, Sound, Solid
<1>4. h \in MeshSet
  BY <1>1, <1>2, <1>3, FirstHalfIs
<1> QED
  BY <1>1, <1>2, <1>4, DelPtIs

-------------------------------------------------------------------------------
(* MMG2D_chkcol, MMG2D_colver, MMG2D_colver2 and MMG2D_colver3.            *)

(* The ball of a vertex that may be collapsed, turning away from the edge: *)
(* the turns come back to the first triangle, across the edge, unless the  *)
(* edge is on the boundary.                                                *)
Ball(m, s, list) ==
    /\ Run(m, s, "onward", list)
    /\ \A e \in Darts(m) : Vt(m, e) = Vt(m, s) => \E j \in 1..Len(list) : list[j] = e
    /\ Ad(m, Pv(s)) # NoAdja => Ad(m, Pv(s)) = Nx(list[Len(list)])
    /\ Len(list) \in Nat \ {0} /\ \A j \in 1..Len(list) : list[j] \in Darts(m)

LEMMA TailOfOne ==
  ASSUME NEW q, q # <<>>, NEW T, q \in Seq(T), NEW x
  PROVE  q \o Tail(<<x>>) = q
<1>1. Tail(<<x>>) = <<>>
  OBVIOUS
<1>2. Len(q) \in Nat /\ q = [j \in 1..Len(q) |-> q[j]]
  OBVIOUS
<1> QED
  BY <1>1, <1>2

(* A turn back across the boundary.                                        *)
LEMMA NoWayBack ==
  ASSUME NEW m, Solid(m), NEW s \in Darts(m), Ad(m, Pv(s)) = NoAdja
  PROVE  Fan(m, s, "back") = <<s>>
<1>1. PICK f : f = Fan(m, s, "back")
  OBVIOUS
<1>2. "back" \in Ways /\ To("back", s) = Pv(s)
  BY DEF Ways, To
<1>3. Run(m, s, "back", f) /\ Stopped(m, s, "back", f)
  BY <1>1, <1>2, FanRuns
<1>4. Len(f) \in Nat \ {0} /\ f \in Seq(Darts(m)) /\ f[1] = s
  BY <1>3, RunParts DEF Run
<1>5. Turn(m, s, "back")[1] = 0
  <2>1. m \in MeshSet /\ s \in DartSet
    BY MeshParts DEF Solid
  <2> QED
    BY <1>2, <2>1, TurnIs
<1>6. Len(f) = 1
  <2> SUFFICES ASSUME Len(f) # 1 PROVE FALSE
    OBVIOUS
  <2>1. 2 \in 2..Len(f) /\ 2 \in 1..Len(f)
    <3>1. PICK n : n = Len(f)
      OBVIOUS
    <3>2. n \in Nat /\ n # 0 /\ n # 1
      BY <1>4, <3>1
    <3>3. 2 \in 2..n /\ 2 \in 1..n
      BY <3>2
    <3> QED
      BY <3>1, <3>3
  <2>2. \A j \in 2..Len(f) : f[j] = Turn(m, f[j - 1], "back")
    BY <1>3 DEF Run
  <2>5. f[2] = Turn(m, f[1], "back")
    BY <2>1, <2>2
  <2>6. f[2] \in Darts(m)
    BY <1>4, <2>1
  <2>3. f[2][1] = 0
    BY <1>4, <1>5, <2>5
  <2>4. f[2][1] \in Live(m.trs) /\ 0 \notin Live(m.trs)
    BY <2>6, DartsTurn DEF Live
  <2> QED
    BY <2>3, <2>4
<1> QED
  BY <1>1, <1>4, <1>6

(* A vertex whose fan is open is on the boundary.                          *)
LEMMA OpenIsGeo ==
  ASSUME NEW m, Solid(m), Tagged(m), NEW e \in Darts(m), NEW d \in {Nx(e), Pv(e)}, Ad(m, d) = NoAdja
  PROVE  "geo" \in Pt(m, Vt(m, e))
<1>1. d \in Darts(m) /\ e \in {Nx(d), Pv(d)}
  BY DartsTurn
<1>2. Tg(m, d) \ {"req"} = {"geo", "bdy"}
  BY <1>1 DEF Tagged, KindOf
<1>3. Tg(m, d) \subseteq Pt(m, Vt(m, e))
  BY <1>1 DEF Tagged
<1> QED
  BY <1>2, <1>3

LEMMA CollapseBall ==
  ASSUME NEW m, Sound(m), NEW s \in Darts(m), Movable(Pt(m, Vt(m, s))),
         "geo" \in Pt(m, Vt(m, s)) => "geo" \in Tg(m, Pv(s)),
         NEW list, list = Boulet(m, s[1], s[2])
  PROVE  Ball(m, s, list)
<1>0. Solid(m) /\ OneFan(m) /\ Tagged(m) /\ m \in MeshSet
  BY DEF Sound, Solid
<1>1. PICK on : on = Fan(m, s, "onward")
  OBVIOUS
<1>2. "onward" \in Ways /\ \A e : To("onward", e) = Nx(e) /\ Fro("onward", e) = Pv(e)
  BY DEF Ways, To, Fro
<1>3. Run(m, s, "onward", on) /\ Stopped(m, s, "onward", on)
  BY <1>0, <1>1, <1>2, FanRuns
<1>4. /\ Len(on) \in Nat \ {0} /\ on \in Seq(Darts(m)) /\ on # <<>>
      /\ \A j \in 1..Len(on) : on[j] \in Darts(m)
  BY <1>3, RunParts DEF Run
<1>5. PICK l : l = on[Len(on)]
  OBVIOUS
<1>6. l \in Darts(m) /\ l \in DartSet /\ Vt(m, l) = Vt(m, s) /\ Nx(l) \in Darts(m)
  <2>1. Len(on) \in 1..Len(on)
    BY <1>4
  <2>2. l \in Darts(m) /\ Vt(m, l) = Vt(m, s)
    BY <1>3, <1>4, <1>5, <2>1 DEF Run
  <2> QED
    BY <1>0, <2>2, MeshParts, DartsTurn
<1>7. PICK t : t = Turn(m, l, "onward")
  OBVIOUS
<1>8. t[1] \in {0, s[1]}
  BY <1>3, <1>5, <1>7 DEF Stopped
<1>9. PICK a : a = Ad(m, Nx(l))
  OBVIOUS
<1>10. /\ t[1] = a[1]
       /\ a = NoAdja => t[1] = 0
       /\ a # NoAdja => t = Nx(a) /\ t[1] # 0
  BY <1>0, <1>2, <1>6, <1>7, <1>9, TurnIs
<1>11. Boulet(m, s[1], s[2]) = IF t[1] # 0 THEN on ELSE on \o Tail(Fan(m, s, "back"))
  <2>1. <<s[1], s[2]>> = s
    BY <1>0, MeshParts, DartIs
  <2> QED
    BY <1>1, <1>5, <1>7, <2>1 DEF Boulet
<1>14. /\ list \in Seq(Darts(m))
       /\ \A e \in Darts(m) : Vt(m, e) = Vt(m, s) => \E j \in 1..Len(list) : list[j] = e
  BY <1>0, BouletHolds
<1>15. ASSUME list = on, Ad(m, Pv(s)) # NoAdja => Ad(m, Pv(s)) = Nx(l) PROVE Ball(m, s, list)
  <2>1. PICK li : li = list
    OBVIOUS
  <2>2. /\ Run(m, s, "onward", li) /\ Len(li) \in Nat \ {0} /\ l = li[Len(li)]
        /\ \A j \in 1..Len(li) : li[j] \in Darts(m)
        /\ \A e \in Darts(m) : Vt(m, e) = Vt(m, s) => \E j \in 1..Len(li) : li[j] = e
    BY <1>3, <1>4, <1>5, <1>14, <1>15, <2>1
  <2>3. Ball(m, s, li)
    BY <1>15, <2>2 DEF Ball
  <2> QED
    BY <2>1, <2>3
<1>12. CASE a # NoAdja
  <2>1. t = s
    <3>1. \E j \in 1..Len(on) : t[1] = on[j][1]
      <4>1. t[1] = s[1] /\ s = on[1] /\ 1 \in 1..Len(on)
        BY <1>3, <1>4, <1>8, <1>10, <1>12 DEF Run
      <4> QED
        BY <4>1
    <3> QED
      BY <1>0, <1>2, <1>3, <1>5, <1>7, <3>1, NewOrFirst
  <2>2. a \in Darts(m) /\ Ad(m, a) = Nx(l) /\ Nx(l) # NoAdja
    BY <1>0, <1>6, <1>9, <1>12, Twin
  <2>3. a = Pv(s)
    BY <1>10, <1>12, <2>1, <2>2, DartsTurn
  <2>4. list = on
    BY <1>10, <1>11, <1>12
  <2> QED
    BY <1>15, <2>2, <2>3, <2>4
<1>13. CASE a = NoAdja
  <2>1. "geo" \in Pt(m, Vt(m, s))
    BY <1>0, <1>6, <1>9, <1>13, OpenIsGeo
  <2>2. Ad(m, Pv(s)) = NoAdja
    <3>1. "geo" \in Tg(m, Pv(s)) /\ Pv(s) \in Darts(m)
      BY <2>1, DartsTurn
    <3>2. Tg(m, Pv(s)) \ {"req"} = KindOf(m, Pv(s))
      BY <1>0, <3>1 DEF Tagged
    <3>3. "geo" \in KindOf(m, Pv(s))
      BY <3>1, <3>2
    <3> QED
      BY <3>3 DEF KindOf
  <2>3. Fan(m, s, "back") = <<s>>
    BY <1>0, <2>2, NoWayBack
  <2>4. list = on
    <3>1. list = on \o Tail(<<s>>)
      BY <1>10, <1>11, <1>13, <2>3
    <3> QED
      BY <1>4, <3>1, TailOfOne
  <2> QED
    BY <1>15, <2>2, <2>4
<1> QED
  BY <1>12, <1>13

(* Two triangles of the ball that follow each other.                       *)
LEMMA BallNext ==
  ASSUME NEW m, Solid(m), NEW s \in Darts(m), NEW list, Ball(m, s, list), NEW j \in 1..(Len(list) - 1),
         NEW e, e = list[j], NEW f, f = list[j + 1]
  PROVE  /\ e \in Darts(m) /\ f \in Darts(m) /\ Vt(m, e) = Vt(m, s) /\ Vt(m, f) = Vt(m, s) /\ e[1] # f[1]
         /\ Ad(m, Nx(e)) = Pv(f) /\ Ad(m, Pv(f)) = Nx(e) /\ Nx(e) # NoAdja /\ Pv(f) # NoAdja
         /\ Vt(m, Pv(e)) = Vt(m, Nx(f))
<1>1. Len(list) \in Nat /\ j \in 1..Len(list) /\ j + 1 \in 1..Len(list) /\ j + 1 \in 2..Len(list) /\ (j + 1) - 1 = j
  BY DEF Ball
<1>2. e \in Darts(m) /\ f \in Darts(m) /\ Vt(m, e) = Vt(m, s) /\ Vt(m, f) = Vt(m, s)
  BY <1>1 DEF Ball, Run
<1>3. f = Turn(m, e, "onward")
  BY <1>1 DEF Ball, Run
<1>4. f[1] # 0
  <2>1. f[1] \in Live(m.trs) /\ 0 \notin Live(m.trs)
    BY <1>2, DartsTurn DEF Live
  <2> QED
    BY <2>1
<1>5. "onward" \in Ways /\ To("onward", e) = Nx(e) /\ Fro("onward", f) = Pv(f)
  BY DEF Ways, To, Fro
<1>6. f[1] # e[1] /\ Ad(m, Nx(e)) = Pv(f) /\ Ad(m, Pv(f)) = Nx(e) /\ Pv(f) # NoAdja
  BY <1>2, <1>3, <1>4, <1>5, TurnCorner
<1>7. Nx(e) \in Darts(m) /\ Pv(Nx(e)) = e /\ Nx(Nx(e)) = Pv(e) /\ Nx(Pv(f)) = f /\ Pv(Pv(f)) = Nx(f)
  BY <1>2, DartsTurn
<1>8. Vt(m, Pv(Pv(f))) = Vt(m, Nx(Nx(e))) /\ Nx(e) # NoAdja
  BY <1>6, <1>7, Twin
<1> QED
  BY <1>2, <1>6, <1>7, <1>8

(* The corners of the vertex that disappears in the triangles that go: the *)
(* first one of the ball and, if the edge is not on the boundary, the last *)
(* one.                                                                    *)
Hole(m, s, list) == IF Ad(m, Pv(s)) = NoAdja THEN {s} ELSE {s, list[Len(list)]}

(* The ball is long enough for triangles to stay.                          *)
Enough(m, s, list) == Len(list) >= 2 /\ (Ad(m, Pv(s)) # NoAdja => Len(list) >= 3)

LEMMA BallEnds ==
  ASSUME NEW m, Solid(m), NEW s \in Darts(m), NEW list, Ball(m, s, list), Enough(m, s, list),
         NEW n, n = Len(list), NEW t, t = list[n]
  PROVE  /\ n \in Nat /\ n >= 2 /\ list[1] = s /\ t \in Darts(m) /\ t # s /\ t[1] # s[1] /\ Vt(m, t) = Vt(m, s)
         /\ Ad(m, Nx(s)) = Pv(list[2]) /\ Ad(m, Nx(s)) # NoAdja
         /\ Ad(m, Pv(t)) = Nx(list[n - 1]) /\ Ad(m, Pv(t)) # NoAdja
         /\ Vt(m, Pv(s)) = Vt(m, Nx(list[2])) /\ Vt(m, Nx(t)) = Vt(m, Pv(list[n - 1]))
         /\ Ad(m, Pv(s)) # NoAdja => n >= 3 /\ Ad(m, Pv(s)) = Nx(t) /\ Ad(m, Nx(t)) = Pv(s)
                                     /\ Vt(m, Pv(t)) = Vt(m, Nx(s))
<1>1. n \in Nat /\ n >= 2 /\ 1 \in 1..n /\ n \in 1..n /\ 1 \in 1..(n - 1) /\ n - 1 \in 1..(n - 1) /\ (n - 1) + 1 = n /\ 1 + 1 = 2
  BY DEF Ball, Enough
<1>2. list[1] = s
  BY DEF Ball, Run
<1>3. PICK f : f = list[2]
  OBVIOUS
<1>4. /\ f \in Darts(m) /\ Ad(m, Nx(s)) = Pv(f) /\ Pv(f) # NoAdja
      /\ Vt(m, Pv(s)) = Vt(m, Nx(f))
  BY <1>1, <1>2, <1>3, BallNext
<1>5. PICK d : d = list[n - 1]
  OBVIOUS
<1>6. /\ t \in Darts(m) /\ Vt(m, t) = Vt(m, s) /\ Ad(m, Pv(t)) = Nx(d) /\ Nx(d) # NoAdja
      /\ Vt(m, Nx(t)) = Vt(m, Pv(d))
  <2>1. PICK k : k = n - 1
    OBVIOUS
  <2>2. k \in 1..(Len(list) - 1) /\ t = list[k + 1] /\ d = list[k]
    BY <1>1, <1>5, <2>1
  <2>3. /\ d \in Darts(m) /\ t \in Darts(m) /\ Vt(m, d) = Vt(m, s) /\ Vt(m, t) = Vt(m, s) /\ d[1] # t[1]
        /\ Ad(m, Nx(d)) = Pv(t) /\ Ad(m, Pv(t)) = Nx(d) /\ Nx(d) # NoAdja /\ Pv(t) # NoAdja
        /\ Vt(m, Pv(d)) = Vt(m, Nx(t))
    BY <2>2, BallNext, SMTT(60)
  <2> QED
    BY <2>3
<1>7. t[1] # s[1]
  <2>1. \A a, b \in 1..Len(list) : list[a][1] = list[b][1] => a = b
    BY DEF Ball, Run
  <2> QED
    BY <1>1, <1>2, <2>1
<1>8. ASSUME Ad(m, Pv(s)) # NoAdja
      PROVE  n >= 3 /\ Ad(m, Pv(s)) = Nx(t) /\ Ad(m, Nx(t)) = Pv(s) /\ Vt(m, Pv(t)) = Vt(m, Nx(s))
  <2>1. n >= 3 /\ Ad(m, Pv(s)) = Nx(t)
    BY <1>8 DEF Enough, Ball
  <2>2. Pv(s) \in Darts(m) /\ Pv(Pv(s)) = Nx(s) /\ Nx(Nx(t)) = Pv(t)
    BY <1>6, DartsTurn
  <2>3. Ad(m, Nx(t)) = Pv(s) /\ Vt(m, Nx(Nx(t))) = Vt(m, Pv(Pv(s)))
    BY <1>8, <2>1, <2>2, Twin
  <2> QED
    BY <2>1, <2>2, <2>3
<1> QED
  BY <1>1, <1>2, <1>3, <1>4, <1>5, <1>6, <1>7, <1>8

LEMMA HollowBy ==
  ASSUME NEW m, Solid(m), NEW s \in Darts(m), NEW list, Ball(m, s, list), Enough(m, s, list)
  PROVE  /\ Hollow(m, s, Hole(m, s, list))
         /\ In(s, s) = Nx(s)
         /\ Ad(m, Pv(s)) # NoAdja => In(s, list[Len(list)]) = Pv(list[Len(list)])
<1>1. PICK n, t : n = Len(list) /\ t = list[n]
  OBVIOUS
<1>2. /\ t \in Darts(m) /\ t # s /\ Ad(m, Nx(s)) # NoAdja /\ Ad(m, Pv(t)) # NoAdja
      /\ Ad(m, Pv(s)) # NoAdja => Ad(m, Pv(s)) = Nx(t)
  BY <1>1, BallEnds
<1>3. In(s, s) = Nx(s) /\ In(s, t) = Pv(t)
  BY <1>2 DEF In
<1>4. CASE Ad(m, Pv(s)) = NoAdja
  <2>1. Hole(m, s, list) = {s}
    BY <1>4 DEF Hole
  <2> QED
    BY <1>2, <1>3, <1>4, <2>1 DEF Hollow
<1>5. CASE Ad(m, Pv(s)) # NoAdja
  <2>1. Hole(m, s, list) = {s, t}
    BY <1>1, <1>5 DEF Hole
  <2> QED
    BY <1>1, <1>2, <1>3, <1>5, <2>1 DEF Hollow
<1> QED
  BY <1>4, <1>5

(* The triangles of the ball that stay follow each other as before.        *)
LEMMA ChainedBy ==
  ASSUME NEW m, Solid(m), NEW s \in Darts(m), NEW list, Ball(m, s, list), Enough(m, s, list),
         NEW C, C = Hole(m, s, list), NEW m2, After(m, m2, s, C)
  PROVE  Chained(m, m2, s, C)
<1>1. PICK n, t : n = Len(list) /\ t = list[n]
  OBVIOUS
<1>2. /\ n \in Nat /\ n >= 2 /\ list[1] = s /\ t # s
      /\ t \in Darts(m) /\ Ad(m, Nx(s)) = Pv(list[2]) /\ Ad(m, Pv(t)) = Nx(list[n - 1])
      /\ Ad(m, Pv(s)) # NoAdja => n >= 3
  BY <1>1, BallEnds
<1>3. \A j \in 1..n : list[j] \in Darts(m)
  BY <1>1 DEF Ball
<1>4. CASE Ad(m, Pv(s)) = NoAdja
  <2>1. C = {s}
    BY <1>4 DEF Hole
  <2> QED
    BY <2>1 DEF Chained
<1>5. CASE Ad(m, Pv(s)) # NoAdja
  <2>1. C = {s, t} /\ n >= 3
    BY <1>1, <1>2, <1>5 DEF Hole
  <2>2. Past(m, s, s) = list[2] /\ Past(m, s, t) = list[n - 1]
    <3>1. 2 \in 1..n /\ n - 1 \in 1..n
      BY <1>2
    <3>2. list[2] \in Darts(m) /\ list[n - 1] \in Darts(m)
      BY <1>3, <3>1
    <3>3. Nx(Pv(list[2])) = list[2] /\ Pv(Nx(list[n - 1])) = list[n - 1]
      BY <3>2, DartsTurn
    <3> QED
      BY <1>2, <3>3 DEF Past, In
  <2> SUFFICES ASSUME NEW S \in SUBSET Darts(m2), Closed(m2, S)
               PROVE  list[n - 1] \in S <=> list[2] \in S
    BY <2>1, <2>2 DEF Chained
  <2>3. ASSUME NEW j \in 2..(n - 2) PROVE list[j] \in S <=> list[j + 1] \in S
    <3>1. j \in 1..(n - 1) /\ j \in 1..n /\ j + 1 \in 1..n /\ j # 1 /\ j # n /\ j + 1 # 1 /\ j + 1 # n /\ 1 \in 1..n /\ n \in 1..n
      BY <1>2
    <3>2. PICK e, f : e = list[j] /\ f = list[j + 1]
      OBVIOUS
    <3>3. e \in Darts(m) /\ f \in Darts(m) /\ Ad(m, Nx(e)) = Pv(f) /\ Nx(e) # NoAdja /\ Pv(f) # NoAdja
      BY <1>1, <3>1, <3>2, BallNext
    <3>4. \A a, b \in 1..n : list[a][1] = list[b][1] => a = b
      BY <1>1 DEF Ball, Run
    <3>5. e[1] \notin {s[1], t[1]} /\ f[1] \notin {s[1], t[1]}
      BY <1>1, <1>2, <3>1, <3>2, <3>4
    <3>6. {c[1] : c \in C} = {s[1], t[1]}
      BY <2>1
    <3>7. \A x \in Darts(m) : x[1] \notin {s[1], t[1]} => x \in Darts(m2)
      BY <3>6 DEF After, Darts
    <3>8. e \in Darts(m2) /\ f \in Darts(m2)
      BY <3>3, <3>5, <3>7
    <3>9. Nx(e) \in Darts(m2) /\ Pv(f) \in Darts(m2) /\ Pv(Nx(e)) = e /\ Nx(Pv(f)) = f
      BY <3>8, DartsTurn
    <3>10. Ad(m2, Nx(e)) = Pv(f)
      <4>1. Joins(m, m2, s, C, Nx(e))
        BY <3>9 DEF After
      <4> QED
        BY <3>3, <3>9, <4>1 DEF Joins
    <3>11. Pv(Nx(e)) \in S <=> Nx(Pv(f)) \in S
      BY <3>3, <3>9, <3>10 DEF Closed
    <3> QED
      BY <3>2, <3>9, <3>11
  <2> DEFINE Q == {i \in Nat : i + 2 <= n - 1 => (list[i + 2] \in S <=> list[2] \in S)}
             k == n - 3
  <2>4. k \in Nat
    BY <1>2, <2>1
  <2>5. 0 \in Q
    OBVIOUS
  <2>6. \A i \in 1..k : i - 1 \in Q => i \in Q
    <3> TAKE i \in 1..k
    <3> HAVE i - 1 \in Q
    <3>1. i \in Nat /\ (i - 1) + 2 = i + 1 /\ i + 1 <= n - 1 /\ i + 1 \in 2..(n - 2) /\ (i + 1) + 1 = i + 2
      BY <1>2, <2>4
    <3>2. list[i + 1] \in S <=> list[2] \in S
      BY <3>1
    <3>3. list[i + 1] \in S <=> list[i + 2] \in S
      BY <2>3, <3>1
    <3> QED
      BY <3>1, <3>2, <3>3
  <2>7. k \in Q
    <3> HIDE DEF Q, k
    <3>1. 0..k \subseteq Q
      BY <2>4, <2>5, <2>6, Upward
    <3> QED
      BY <2>4, <3>1
  <2>8. k + 2 = n - 1 /\ k + 2 <= n - 1
    BY <1>2
  <2> QED
    BY <2>7, <2>8
<1> QED
  BY <1>4, <1>5

(* What the tests of MMG2D_adpcol and the first ones of MMG2D_chkcol say.  *)
LEMMA CollapseTags ==
  ASSUME NEW m, Sound(m), NEW s \in Darts(m), NEW i, s[2] = Nxt(i), i \in Local,
         AlongCurve(s[1], i), mesh = m, TagsAllow(m, s[1], i),
         NEW list, Ball(m, s, list), Enough(m, s, list)
  PROVE  /\ Movable(Pt(m, Vt(m, s)))
         /\ Pt(m, Vt(m, s)) \subseteq Pt(m, Vt(m, Nx(s)))
         /\ \A c \in Hole(m, s, list) : ~(EDG(Tg(m, c)) /\ EDG(Tg(m, In(s, c))))
         /\ EDG(Pt(m, Vt(m, s))) => Tg(m, s) = {} /\ Tg(m, Nx(s)) = {}
<1>0. Solid(m) /\ Tagged(m) /\ Plain(m) /\ m \in MeshSet
  BY DEF Sound, Solid
<1>1. s = <<s[1], Nxt(i)>> /\ Nx(s) = <<s[1], Prv(i)>> /\ Pv(s) = <<s[1], i>>
  <2>1. s \in DartSet
    BY <1>0, MeshParts
  <2>2. s = <<s[1], s[2]>>
    BY <2>1, DartIs
  <2>3. i \in {0, 1, 2}
    BY DEF Local
  <2> QED
    BY <2>2, <2>3 DEF Nx, Pv, Nxt, Prv
<1>2. Pv(s) \in Darts(m) /\ Nx(s) \in Darts(m) /\ Nx(Pv(s)) = s /\ Pv(Pv(s)) = Nx(s)
  BY DartsTurn
<1> DEFINE t1 == Pt(m, Vt(m, s))
           t2 == Pt(m, Vt(m, Nx(s)))
           tg == Tg(m, Pv(s))
           a == Ad(m, Pv(s))
<1>3. /\ ~SIN(t1) /\ "nom" \notin t1
      /\ "geo" \in t1 => "geo" \in t2 /\ "geo" \in tg
      /\ "geo" \notin t1 => ("ref" \in t1 => EDG(t2) /\ "ref" \in tg)
  BY <1>1 DEF AlongCurve, Pt, Vt, Tg
<1>4. /\ EDG(t1) => EDG(t2) /\ Tg(m, s) \union Tg(m, Nx(s)) = {}
      /\ ~(EDG(Tg(m, s)) /\ EDG(Tg(m, Nx(s))))
      /\ a # NoAdja => ~(EDG(Tg(m, <<a[1], Nxt(a[2])>>)) /\ EDG(Tg(m, <<a[1], Prv(a[2])>>)))
  <2>1. /\ m.tria[s[1]].tag[Nxt(i)] = Tg(m, s) /\ m.tria[s[1]].tag[Prv(i)] = Tg(m, Nx(s))
        /\ m.tria[s[1]].adja[i] = a
        /\ m.point[m.tria[s[1]].v[Nxt(i)]].tag = t1 /\ m.point[m.tria[s[1]].v[Prv(i)]].tag = t2
    BY <1>1 DEF Tg, Ad, Pt, Vt
  <2>2. \A x, y : Tg(m, <<x, y>>) = m.tria[x].tag[y]
    BY DEF Tg
  <2> HIDE DEF t1, t2, a
  <2> QED
    BY <2>1, <2>2 DEF TagsAllow
<1>5. t1 \in Kinds
  <2>1. Vt(m, s) \in Live(m.pts)
    BY <1>0, Corners
  <2> QED
    BY <1>0, <1>3, <2>1 DEF Plain
<1>6. tg \subseteq t2 /\ tg \ {"req"} \in Kinds
  <2>1. tg \subseteq Pt(m, Vt(m, Pv(Pv(s)))) /\ tg \ {"req"} = KindOf(m, Pv(s)) /\ KindOf(m, Pv(s)) \in Kinds
    BY <1>0, <1>2, EdgeKinds
  <2> QED
    BY <1>2, <2>1
<1>7. t1 \subseteq t2
  <2> HIDE DEF t1, t2, tg
  <2> QED
    BY <1>3, <1>5, <1>6 DEF Kinds
<1>8. ASSUME NEW c \in Hole(m, s, list) PROVE ~(EDG(Tg(m, c)) /\ EDG(Tg(m, In(s, c))))
  <2>1. CASE c = s
    BY <1>4, <2>1 DEF In
  <2>2. CASE c # s
    <3>1. PICK n, t : n = Len(list) /\ t = list[n]
      OBVIOUS
    <3>2. c = t /\ a # NoAdja
      BY <1>8, <2>2, <3>1 DEF Hole
    <3>3. a = Nx(t) /\ t \in Darts(m)
      <4>1. Solid(m) /\ Ad(m, Pv(s)) # NoAdja
        BY <1>0, <3>2
      <4> HIDE DEF a
      <4>2. t \in Darts(m) /\ Ad(m, Pv(s)) = Nx(t)
        BY <3>1, <4>1, BallEnds
      <4> QED
        BY <4>2 DEF a
    <3>4. <<a[1], Nxt(a[2])>> = Pv(t) /\ <<a[1], Prv(a[2])>> = t
      <4>1. Nx(Nx(t)) = Pv(t) /\ Pv(Nx(t)) = t
        BY <3>3, DartsTurn
      <4> QED
        BY <3>3, <4>1 DEF Nx, Pv
    <3>5. In(s, c) = Pv(t)
      BY <2>2, <3>2 DEF In
    <3> QED
      BY <1>4, <3>2, <3>4, <3>5
  <2> QED
    BY <2>1, <2>2
<1>9. EDG(t1) => Tg(m, s) = {} /\ Tg(m, Nx(s)) = {}
  BY <1>4
<1> QED
  BY <1>3, <1>7, <1>8, <1>9 DEF Movable

(* The triangles of the ball that stay are not inverted when their vertex  *)
(* moves.                                                                  *)
Roomy(m, s, C) ==
    \A e \in Darts(m) : Vt(m, e) = Vt(m, s) /\ e \notin C =>
        Area(At(m, Vt(m, Nx(s))), At(m, Vt(m, Nx(e))), At(m, Vt(m, Pv(e)))) > 0

LEMMA WithEnd ==
  ASSUME NEW m, Solid(m), NEW s \in Darts(m), NEW e \in Darts(m),
         AreaOf(m, With(m, e[1], e[2], Vt(m, Nx(s)))) > 0
  PROVE  Area(At(m, Vt(m, Nx(s))), At(m, Vt(m, Nx(e))), At(m, Vt(m, Pv(e)))) > 0
<1>1. m \in MeshSet
  BY DEF Solid
<1>2. Nx(s) \in Darts(m) /\ Nx(e) \in Darts(m) /\ Pv(e) \in Darts(m) /\ e \in DartSet
  BY <1>1, DartsTurn, MeshParts
<1>3. PICK ip : ip = Vt(m, Nx(s))
  OBVIOUS
<1>4. ip \in 1..NPMax /\ Vt(m, Nx(e)) \in 1..NPMax /\ Vt(m, Pv(e)) \in 1..NPMax
  BY <1>2, <1>3, Corners
<1>5. AreaOf(m, With(m, e[1], e[2], ip)) = Area(At(m, ip), At(m, Vt(m, Nx(e))), At(m, Vt(m, Pv(e))))
  BY <1>1, <1>2, <1>4, WithIs
<1> QED
  BY <1>3, <1>5

LEMMA RoomyBy ==
  ASSUME NEW m, Solid(m), NEW s \in Darts(m), NEW list, Ball(m, s, list), Enough(m, s, list),
         BallSound(m, list, Ad(m, Pv(s)) = NoAdja, Vt(m, Nx(s)))
  PROVE  Roomy(m, s, Hole(m, s, list))
<1> SUFFICES ASSUME NEW e \in Darts(m), Vt(m, e) = Vt(m, s), e \notin Hole(m, s, list)
             PROVE  Area(At(m, Vt(m, Nx(s))), At(m, Vt(m, Nx(e))), At(m, Vt(m, Pv(e)))) > 0
  BY DEF Roomy
<1>1. PICK n : n = Len(list)
  OBVIOUS
<1>2. n \in Nat /\ n >= 2 /\ list[1] = s
  BY <1>1, BallEnds
<1>3. PICK j \in 1..n : list[j] = e
  BY <1>1 DEF Ball
<1>4. j # 1 /\ (Ad(m, Pv(s)) # NoAdja => j # n)
  BY <1>1, <1>2, <1>3 DEF Hole
<1>5. AreaOf(m, With(m, list[j][1], list[j][2], Vt(m, Nx(s)))) > 0
  <2>1. CASE Ad(m, Pv(s)) = NoAdja
    <3>1. j \in 2..(Len(list) - 0)
      BY <1>1, <1>2, <1>4
    <3>2. \A l \in 2..(Len(list) - 0) : AreaOf(m, With(m, list[l][1], list[l][2], Vt(m, Nx(s)))) > 0
      BY <2>1 DEF BallSound
    <3> QED
      BY <3>1, <3>2
  <2>2. CASE Ad(m, Pv(s)) # NoAdja
    <3>1. j \in 2..(Len(list) - 1)
      BY <1>1, <1>2, <1>4, <2>2
    <3>2. \A l \in 2..(Len(list) - 1) : AreaOf(m, With(m, list[l][1], list[l][2], Vt(m, Nx(s)))) > 0
      BY <2>2 DEF BallSound
    <3> QED
      BY <3>1, <3>2
  <2> QED
    BY <2>1, <2>2
<1> QED
  BY <1>3, <1>5, WithEnd

(* Two triangles around a vertex of the boundary.                          *)
LEMMA RoomyTwo ==
  ASSUME NEW m, Solid(m), NEW s \in Darts(m), NEW list, Ball(m, s, list), Len(list) = 2,
         Ad(m, Pv(s)) = NoAdja,
         AreaOf(m, With(m, list[2][1], list[2][2], Vt(m, Nx(s)))) > 0
  PROVE  Roomy(m, s, Hole(m, s, list))
<1> SUFFICES ASSUME NEW e \in Darts(m), Vt(m, e) = Vt(m, s), e \notin Hole(m, s, list)
             PROVE  Area(At(m, Vt(m, Nx(s))), At(m, Vt(m, Nx(e))), At(m, Vt(m, Pv(e)))) > 0
  BY DEF Roomy
<1>2. list[1] = s
  BY DEF Ball, Run
<1>3. PICK j \in 1..Len(list) : list[j] = e
  BY DEF Ball
<1>4. j = 2
  BY <1>2, <1>3 DEF Hole
<1> QED
  BY <1>3, <1>4, WithEnd

(* Three triangles around a vertex inside: the one that stays covers them. *)
LEMMA RoomyThree ==
  ASSUME NEW m, Solid(m), NEW s \in Darts(m), NEW list, Ball(m, s, list), Len(list) = 3,
         Ad(m, Pv(s)) # NoAdja
  PROVE  Roomy(m, s, Hole(m, s, list))
<1> SUFFICES ASSUME NEW e \in Darts(m), Vt(m, e) = Vt(m, s), e \notin Hole(m, s, list)
             PROVE  Area(At(m, Vt(m, Nx(s))), At(m, Vt(m, Nx(e))), At(m, Vt(m, Pv(e)))) > 0
  BY DEF Roomy
<1>1. Enough(m, s, list)
  BY DEF Enough
<1>20. PICK n, t : n = Len(list) /\ t = list[n]
  OBVIOUS
<1>21. n = 3 /\ n - 1 = 2
  BY <1>20
<1>2. t = list[3]
  BY <1>20, <1>21
<1>22. /\ list[1] = s /\ t \in Darts(m) /\ Vt(m, t) = Vt(m, s)
       /\ Vt(m, Pv(s)) = Vt(m, Nx(list[2])) /\ Vt(m, Nx(t)) = Vt(m, Pv(list[n - 1]))
       /\ Vt(m, Pv(t)) = Vt(m, Nx(s))
  <2>1. ASSUME NEW li, li = list, n = Len(li), t = li[n]
        PROVE  /\ li[1] = s /\ t \in Darts(m) /\ Vt(m, t) = Vt(m, s)
               /\ Vt(m, Pv(s)) = Vt(m, Nx(li[2])) /\ Vt(m, Nx(t)) = Vt(m, Pv(li[n - 1]))
               /\ Vt(m, Pv(t)) = Vt(m, Nx(s))
    <3>1. Ball(m, s, li) /\ Enough(m, s, li)
      BY <1>1, <2>1
    <3> QED
      BY <2>1, <3>1, BallEnds
  <2> QED
    BY <1>20, <2>1
<1>3. /\ list[1] = s /\ t \in Darts(m) /\ Vt(m, t) = Vt(m, s)
      /\ Vt(m, Pv(s)) = Vt(m, Nx(list[2])) /\ Vt(m, Nx(t)) = Vt(m, Pv(list[2]))
      /\ Vt(m, Pv(t)) = Vt(m, Nx(s))
  BY <1>21, <1>22
<1>4. PICK j \in 1..Len(list) : list[j] = e
  BY DEF Ball
<1>5. e = list[2]
  <2>1. j # 1 /\ j # 3 /\ j \in {1, 2, 3}
    BY <1>2, <1>3, <1>4 DEF Hole
  <2> QED
    BY <1>4, <2>1
<1>6. Vt(m, Pv(s)) = Vt(m, Nx(e)) /\ Vt(m, Nx(t)) = Vt(m, Pv(e))
  BY <1>3, <1>5
<1>7. /\ Nx(s) \in Darts(m) /\ Pv(s) \in Darts(m) /\ Pv(e) \in Darts(m) /\ Nx(t) \in Darts(m)
  BY <1>3, DartsTurn
<1> DEFINE P == At(m, Vt(m, s))
           Q == At(m, Vt(m, Nx(s)))
           R == At(m, Vt(m, Nx(e)))
           T == At(m, Vt(m, Pv(e)))
<1>8. P \in Int \X Int /\ Q \in Int \X Int /\ R \in Int \X Int /\ T \in Int \X Int
  BY <1>6, <1>7, Corners
<1>9. Twice(m, s) = Area(P, Q, R) /\ Twice(m, e) = Area(P, R, T) /\ Twice(m, t) = Area(P, T, Q)
  BY <1>3, <1>6 DEF Twice
<1>10. Area(P, Q, R) > 0 /\ Area(P, R, T) > 0 /\ Area(P, T, Q) > 0
  BY <1>3, <1>9 DEF Solid, Positive
<1> HIDE DEF P, Q, R, T
<1>11. Area(Q, R, T) = Area(P, Q, R) + Area(P, R, T) + Area(P, T, Q)
  BY <1>8, AreaAdds
<1>12. Area(P, Q, R) \in Int /\ Area(P, R, T) \in Int /\ Area(P, T, Q) \in Int
  BY <1>8, AreaTurns
<1>13. Area(Q, R, T) > 0
  BY <1>10, <1>11, <1>12
<1> QED
  BY <1>13 DEF Q, R, T

LEMMA CollapseBy ==
  ASSUME NEW m, Sound(m), NEW s \in Darts(m), NEW i, s[2] = Nxt(i), i \in Local,
         AlongCurve(s[1], i), mesh = m, TagsAllow(m, s[1], i),
         NEW list, Ball(m, s, list), Enough(m, s, list),
         NEW C, C = Hole(m, s, list), Roomy(m, s, C), NEW m2, After(m, m2, s, C)
  PROVE  Collapsible(m, m2, s, C) /\ Sound(m2)
<1>0. Solid(m)
  BY DEF Sound, Solid
<1>1. Hollow(m, s, C) /\ Chained(m, m2, s, C)
  BY <1>0, HollowBy, ChainedBy
<1>2. /\ Movable(Pt(m, Vt(m, s))) /\ Pt(m, Vt(m, s)) \subseteq Pt(m, Vt(m, Nx(s)))
      /\ \A c \in C : ~(EDG(Tg(m, c)) /\ EDG(Tg(m, In(s, c))))
  BY CollapseTags
<1>3. ASSUME NEW e \in Darts(m2), Vt(m, e) = Vt(m, s)
      PROVE  Area(At(m, Vt(m, Nx(s))), At(m, Vt(m, Nx(e))), At(m, Vt(m, Pv(e)))) > 0
  <2>1. e \in Darts(m) /\ e[1] \notin {c[1] : c \in C}
    BY <1>0, <1>1, EdgesLeft
  <2>2. e \notin C
    BY <2>1
  <2> QED
    BY <1>3, <2>1, <2>2 DEF Roomy
<1>4. Collapsible(m, m2, s, C)
  BY <1>1, <1>2, <1>3 DEF Collapsible
<1> QED
  BY <1>4, CollapseSound

-------------------------------------------------------------------------------
(* The mesh before the vertex and the triangles that disappear are         *)
(* deleted: the triangles of the ball that stay have been moved, the tags  *)
(* have been added past the triangles of E, the edges have been glued over *)
(* those of D.                                                             *)
Pinched(m, m3, s, C, D, E) ==
    /\ m3 \in MeshSet /\ m3.pts = m.pts /\ m3.trs = m.trs
    /\ \A p \in Live(m.pts) : At(m3, p) = At(m, p) /\ Pt(m3, p) = Pt(m, p)
    /\ \A c \in C : Ad(m3, c) = Ad(m, c) /\ Tg(m3, c) = Tg(m, c)
    /\ \A e \in Darts(m) : e[1] \notin {c[1] : c \in C} =>
          /\ Vt(m, e) = Vt(m, s) => Vt(m3, e) = Vt(m, Nx(s))
          /\ Vt(m, e) # Vt(m, s) => Vt(m3, e) = Vt(m, e)
          /\ Rf(m3, e) = Rf(m, e)
          /\ (\A c \in C : Ad(m, e) # c /\ Ad(m, e) # In(s, c)) => Ad(m3, e) = Ad(m, e) /\ Tg(m3, e) = Tg(m, e)
          /\ \A c \in C : Ad(m, e) = c =>
                /\ c \in D => Ad(m3, e) = Ad(m, In(s, c)) /\ Tg(m3, e) = Tg(m, e) \union Tg(m, In(s, c))
                /\ c \notin D => Ad(m3, e) = Ad(m, e) /\ Tg(m3, e) = Tg(m, e)
          /\ \A c \in C : Ad(m, e) = In(s, c) =>
                /\ c \in D => Ad(m3, e) = Ad(m, c)
                /\ c \notin D => Ad(m3, e) = Ad(m, e)
                /\ c \in E => Tg(m3, e) = Tg(m, e) \union Tg(m, c)
                /\ c \notin E => Tg(m3, e) = Tg(m, e)

(* They are deleted.                                                       *)
Emptied(m3, m2, p, K) ==
    /\ m2 \in MeshSet /\ Lists(m2)
    /\ Live(m2.trs) = Live(m3.trs) \ K
    /\ Live(m2.pts) = Live(m3.pts) \ {p}
    /\ \A e \in DartSet : e[1] \notin K => /\ Vt(m2, e) = Vt(m3, e) /\ Tg(m2, e) = Tg(m3, e)
                                           /\ Rf(m2, e) = Rf(m3, e) /\ Ad(m2, e) = Ad(m3, e)
    /\ \A q \in 1..NPMax : q # p => At(m2, q) = At(m3, q) /\ Pt(m2, q) = Pt(m3, q)

LEMMA EmptiedOne ==
  ASSUME NEW m3 \in MeshSet, Lists(m3), NEW p \in Live(m3.pts), NEW k \in Live(m3.trs),
         NEW m2, m2 = DelElt(DelPt(m3, p), k)
  PROVE  Emptied(m3, m2, p, {k})
<1>1. p \in 1..NPMax /\ k \in 1..NTMax
  BY MeshParts
<1>2. PICK m1 : m1 = DelPt(m3, p)
  OBVIOUS
<1>3. /\ m1 \in MeshSet /\ m1.tria = m3.tria /\ m1.trs = m3.trs
      /\ Live(m1.pts) = Live(m3.pts) \ {p}
      /\ \A q \in 1..NPMax : q # p => At(m1, q) = At(m3, q) /\ Pt(m1, q) = Pt(m3, q)
  BY <1>1, <1>2, DelPtIs
<1>4. \E f : FreeListOK(m1.pts, f)
  BY <1>1, <1>2, DelPtIs DEF Lists
<1>5. m2 = DelElt(m1, k)
  BY <1>2
<1>6. /\ m2 \in MeshSet /\ m2.point = m1.point /\ m2.pts = m1.pts
      /\ Live(m2.trs) = Live(m1.trs) \ {k}
      /\ \A e \in DartSet : e[1] # k => /\ Vt(m2, e) = Vt(m1, e) /\ Tg(m2, e) = Tg(m1, e)
                                        /\ Rf(m2, e) = Rf(m1, e) /\ Ad(m2, e) = Ad(m1, e)
  <2>1. ASSUME NEW x, x = m1, NEW y, y = m2
        PROVE  /\ y \in MeshSet /\ y.point = x.point /\ y.pts = x.pts
               /\ Live(y.trs) = Live(x.trs) \ {k}
               /\ \A e \in DartSet : e[1] # k => /\ Vt(y, e) = Vt(x, e) /\ Tg(y, e) = Tg(x, e)
                                                 /\ Rf(y, e) = Rf(x, e) /\ Ad(y, e) = Ad(x, e)
    <3>1. x \in MeshSet /\ y = DelElt(x, k)
      BY <1>3, <1>5, <2>1
    <3> QED
      BY <1>1, <3>1, DelEltIs
  <2> QED
    BY <2>1
<1>7. \E f : FreeListOK(m2.trs, f)
  <2>1. (\E f : FreeListOK(m1.trs, f)) /\ k \in Live(m1.trs)
    BY <1>3 DEF Lists
  <2> QED
    BY <1>1, <1>3, <1>5, <2>1, DelEltIs
<1>8. Lists(m2)
  BY <1>4, <1>6, <1>7 DEF Lists
<1>9. \A e : Vt(m1, e) = Vt(m3, e) /\ Tg(m1, e) = Tg(m3, e) /\ Rf(m1, e) = Rf(m3, e) /\ Ad(m1, e) = Ad(m3, e)
  BY <1>3 DEF Vt, Tg, Rf, Ad
<1>10. \A q : At(m2, q) = At(m1, q) /\ Pt(m2, q) = Pt(m1, q)
  BY <1>6 DEF At, Pt
<1>11. Live(m2.trs) = Live(m3.trs) \ {k} /\ Live(m2.pts) = Live(m3.pts) \ {p}
  BY <1>3, <1>6
<1>12. \A e \in DartSet : e[1] \notin {k} => /\ Vt(m2, e) = Vt(m3, e) /\ Tg(m2, e) = Tg(m3, e)
                                             /\ Rf(m2, e) = Rf(m3, e) /\ Ad(m2, e) = Ad(m3, e)
  BY <1>6, <1>9
<1>13. \A q \in 1..NPMax : q # p => At(m2, q) = At(m3, q) /\ Pt(m2, q) = Pt(m3, q)
  BY <1>3, <1>10
<1> QED
  BY <1>6, <1>8, <1>11, <1>12, <1>13 DEF Emptied

LEMMA EmptiedTwo ==
  ASSUME NEW m3 \in MeshSet, Lists(m3), NEW p \in Live(m3.pts), NEW k \in Live(m3.trs), NEW l \in Live(m3.trs), k # l,
         NEW m2, m2 = DelElt(DelElt(DelPt(m3, p), k), l)
  PROVE  Emptied(m3, m2, p, {k, l})
<1>1. PICK m1 : m1 = DelElt(DelPt(m3, p), k)
  OBVIOUS
<1>2. Emptied(m3, m1, p, {k}) /\ m2 = DelElt(m1, l)
  BY <1>1, EmptiedOne
<1>3. m1 \in MeshSet /\ Lists(m1) /\ l \in Live(m1.trs) /\ l \in 1..NTMax
  BY <1>2, MeshParts DEF Emptied
<1>4. /\ m2 \in MeshSet /\ m2.point = m1.point /\ m2.pts = m1.pts
      /\ Live(m2.trs) = Live(m1.trs) \ {l}
      /\ \A e \in DartSet : e[1] # l => /\ Vt(m2, e) = Vt(m1, e) /\ Tg(m2, e) = Tg(m1, e)
                                        /\ Rf(m2, e) = Rf(m1, e) /\ Ad(m2, e) = Ad(m1, e)
  BY <1>2, <1>3, DelEltIs
<1>5. \E f : FreeListOK(m2.trs, f)
  <2>1. \E f : FreeListOK(m1.trs, f)
    BY <1>3 DEF Lists
  <2> QED
    BY <1>2, <1>3, <2>1, DelEltIs
<1>6. Lists(m2)
  BY <1>3, <1>4, <1>5 DEF Lists
<1>7. Live(m2.trs) = Live(m3.trs) \ {k, l} /\ Live(m2.pts) = Live(m3.pts) \ {p}
  BY <1>2, <1>4 DEF Emptied
<1>8. ASSUME NEW e \in DartSet, e[1] \notin {k, l}
      PROVE  /\ Vt(m2, e) = Vt(m3, e) /\ Tg(m2, e) = Tg(m3, e)
             /\ Rf(m2, e) = Rf(m3, e) /\ Ad(m2, e) = Ad(m3, e)
  <2>1. e[1] \notin {k} /\ e[1] # l
    BY <1>8
  <2>2. Vt(m1, e) = Vt(m3, e) /\ Tg(m1, e) = Tg(m3, e) /\ Rf(m1, e) = Rf(m3, e) /\ Ad(m1, e) = Ad(m3, e)
    BY <1>2, <2>1 DEF Emptied
  <2> QED
    BY <1>4, <2>1, <2>2
<1>9. \A q : At(m2, q) = At(m1, q) /\ Pt(m2, q) = Pt(m1, q)
  BY <1>4 DEF At, Pt
<1>10. \A q \in 1..NPMax : q # p => At(m2, q) = At(m3, q) /\ Pt(m2, q) = Pt(m3, q)
  BY <1>2, <1>9 DEF Emptied
<1> QED
  BY <1>4, <1>6, <1>7, <1>8, <1>10 DEF Emptied

LEMMA PinchedAfter ==
  ASSUME NEW m, Sound(m), NEW s, NEW C, Hollow(m, s, C), NEW m3, Pinched(m, m3, s, C, C, C),
         NEW m2, Emptied(m3, m2, Vt(m, s), {c[1] : c \in C})
  PROVE  After(m, m2, s, C)
<1>0. Solid(m) /\ m \in MeshSet /\ s \in Darts(m)
  BY DEF Sound, Solid, Hollow
<1>1. PICK K, p : K = {c[1] : c \in C} /\ p = Vt(m, s)
  OBVIOUS
<1>2. /\ m2 \in MeshSet /\ Lists(m2) /\ Live(m2.trs) = Live(m.trs) \ K /\ Live(m2.pts) = Live(m.pts) \ {p}
  BY <1>1 DEF Emptied, Pinched
<1>3. ASSUME NEW q \in Live(m2.pts) PROVE At(m2, q) = At(m, q) /\ Pt(m2, q) = Pt(m, q)
  <2>1. q \in Live(m.pts) /\ q # p /\ q \in 1..NPMax
    BY <1>0, <1>2, <1>3, MeshParts
  <2> QED
    BY <1>1, <2>1 DEF Emptied, Pinched
<1>4. ASSUME NEW e \in Darts(m2)
      PROVE  /\ Vt(m, e) = Vt(m, s) => Vt(m2, e) = Vt(m, Nx(s))
             /\ Vt(m, e) # Vt(m, s) => Vt(m2, e) = Vt(m, e)
             /\ Rf(m2, e) = Rf(m, e)
             /\ Joins(m, m2, s, C, e)
  <2>1. e \in Darts(m) /\ e[1] \notin K
    BY <1>2, <1>4 DEF Darts
  <2>2. e \in DartSet
    BY <1>0, <2>1, MeshParts
  <2>3. Vt(m2, e) = Vt(m3, e) /\ Tg(m2, e) = Tg(m3, e) /\ Rf(m2, e) = Rf(m3, e) /\ Ad(m2, e) = Ad(m3, e)
    BY <1>1, <2>1, <2>2 DEF Emptied
  <2>4. /\ Vt(m, e) = Vt(m, s) => Vt(m3, e) = Vt(m, Nx(s))
        /\ Vt(m, e) # Vt(m, s) => Vt(m3, e) = Vt(m, e)
        /\ Rf(m3, e) = Rf(m, e)
        /\ (\A c \in C : Ad(m, e) # c /\ Ad(m, e) # In(s, c)) => Ad(m3, e) = Ad(m, e) /\ Tg(m3, e) = Tg(m, e)
        /\ \A c \in C : Ad(m, e) = c => /\ Ad(m3, e) = Ad(m, In(s, c))
                                        /\ Tg(m3, e) = Tg(m, e) \union Tg(m, In(s, c))
        /\ \A c \in C : Ad(m, e) = In(s, c) => /\ Ad(m3, e) = Ad(m, c)
                                               /\ Tg(m3, e) = Tg(m, e) \union Tg(m, c)
    BY <1>1, <2>1 DEF Pinched
  <2>5. ASSUME Ad(m, e) = NoAdja \/ Ad(m, e) \in Darts(m2), NEW c \in C
        PROVE  Ad(m, e) # c /\ Ad(m, e) # In(s, c)
    <3>1. c \in Darts(m) /\ In(s, c) \in Darts(m) /\ In(s, c)[1] = c[1]
      BY <1>0, HollowParts
    <3>2. c # NoAdja /\ In(s, c) # NoAdja
      BY <1>0, <3>1, MeshParts, DartIs
    <3>3. c \notin Darts(m2) /\ In(s, c) \notin Darts(m2)
      BY <1>1, <1>2, <3>1 DEF Darts
    <3> QED
      BY <2>5, <3>2, <3>3
  <2>6. Ad(m, e) = NoAdja \/ Ad(m, e) \in Darts(m2) => Ad(m2, e) = Ad(m, e) /\ Tg(m2, e) = Tg(m, e)
    BY <2>3, <2>4, <2>5
  <2>7. Joins(m, m2, s, C, e)
    BY <2>3, <2>4, <2>6 DEF Joins
  <2> QED
    BY <2>3, <2>4, <2>7
<1> QED
  BY <1>1, <1>2, <1>3, <1>4 DEF After

(* Which corners of C the edges past a triangle are across from.           *)
LEMMA AcrossOne ==
  ASSUME NEW m, Solid(m), NEW s, NEW C, Hollow(m, s, C), NEW c \in C, NEW d \in C
  PROVE  /\ c = d \/ c[1] # d[1]
         /\ c # In(s, d) /\ (In(s, c) = In(s, d) => c = d)
         /\ c \in DartSet
<1>1. /\ c \in Darts(m) /\ d \in Darts(m) /\ Vt(m, c) = Vt(m, s) /\ Vt(m, d) = Vt(m, s)
      /\ In(s, c)[1] = c[1] /\ In(s, d)[1] = d[1] /\ d # In(s, d)
  BY HollowParts
<1>2. c = d \/ c[1] # d[1]
  BY <1>1, OneCorner
<1>3. c \in DartSet
  BY <1>1, MeshParts DEF Solid
<1> QED
  BY <1>1, <1>2, <1>3

(* The tags of edge c are added past its triangle.                         *)
LEMMA PinchTag ==
  ASSUME NEW m, Sound(m), NEW s, NEW C, Hollow(m, s, C), NEW D, NEW E, NEW m1, Pinched(m, m1, s, C, D, E),
         NEW c \in C, c \notin E, NEW u, u = Ad(m, In(s, c)), NEW m2, Tagging(m1, m2, u, Tg(m, c))
  PROVE  Pinched(m, m2, s, C, D, E \union {c})
<1>0. Solid(m) /\ m \in MeshSet
  BY DEF Sound, Solid
<1>1. u \in Darts(m) /\ u # NoAdja /\ Ad(m, u) = In(s, c) /\ u[1] \notin {d[1] : d \in C}
  BY <1>0, OutsideOf
<1>2. Retri(m1, m2)
  BY DEF Tagging
<1>3. m2 \in MeshSet /\ m2.pts = m.pts /\ m2.trs = m.trs
  BY <1>2 DEF Retri, Pinched
<1>4. \A p \in Live(m.pts) : At(m2, p) = At(m, p) /\ Pt(m2, p) = Pt(m, p)
  BY <1>2 DEF Retri, Pinched, At, Pt
<1>5. ASSUME NEW d \in C PROVE Ad(m2, d) = Ad(m, d) /\ Tg(m2, d) = Tg(m, d)
  <2>1. d # u /\ d \in DartSet
    BY <1>0, <1>1, AcrossOne
  <2> QED
    BY <2>1 DEF Tagging, Pinched
<1>6. ASSUME NEW e \in Darts(m), e[1] \notin {d[1] : d \in C}
      PROVE  /\ Vt(m, e) = Vt(m, s) => Vt(m2, e) = Vt(m, Nx(s))
             /\ Vt(m, e) # Vt(m, s) => Vt(m2, e) = Vt(m, e)
             /\ Rf(m2, e) = Rf(m, e)
             /\ (\A d \in C : Ad(m, e) # d /\ Ad(m, e) # In(s, d)) => Ad(m2, e) = Ad(m, e) /\ Tg(m2, e) = Tg(m, e)
             /\ \A d \in C : Ad(m, e) = d =>
                   /\ d \in D => Ad(m2, e) = Ad(m, In(s, d)) /\ Tg(m2, e) = Tg(m, e) \union Tg(m, In(s, d))
                   /\ d \notin D => Ad(m2, e) = Ad(m, e) /\ Tg(m2, e) = Tg(m, e)
             /\ \A d \in C : Ad(m, e) = In(s, d) =>
                   /\ d \in D => Ad(m2, e) = Ad(m, d)
                   /\ d \notin D => Ad(m2, e) = Ad(m, e)
                   /\ d \in E \union {c} => Tg(m2, e) = Tg(m, e) \union Tg(m, d)
                   /\ d \notin E \union {c} => Tg(m2, e) = Tg(m, e)
  <2>1. e \in DartSet /\ u \in DartSet
    BY <1>0, <1>1, MeshParts
  <2>2. Vt(m2, e) = Vt(m1, e) /\ Ad(m2, e) = Ad(m1, e) /\ Rf(m2, e) = Rf(m1, e)
    BY <2>1 DEF Tagging
  <2>3. /\ Vt(m, e) = Vt(m, s) => Vt(m1, e) = Vt(m, Nx(s))
        /\ Vt(m, e) # Vt(m, s) => Vt(m1, e) = Vt(m, e)
        /\ Rf(m1, e) = Rf(m, e)
        /\ (\A d \in C : Ad(m, e) # d /\ Ad(m, e) # In(s, d)) => Ad(m1, e) = Ad(m, e) /\ Tg(m1, e) = Tg(m, e)
        /\ \A d \in C : Ad(m, e) = d =>
              /\ d \in D => Ad(m1, e) = Ad(m, In(s, d)) /\ Tg(m1, e) = Tg(m, e) \union Tg(m, In(s, d))
              /\ d \notin D => Ad(m1, e) = Ad(m, e) /\ Tg(m1, e) = Tg(m, e)
        /\ \A d \in C : Ad(m, e) = In(s, d) =>
              /\ d \in D => Ad(m1, e) = Ad(m, d)
              /\ d \notin D => Ad(m1, e) = Ad(m, e)
              /\ d \in E => Tg(m1, e) = Tg(m, e) \union Tg(m, d)
              /\ d \notin E => Tg(m1, e) = Tg(m, e)
    BY <1>6 DEF Pinched
  <2>4. CASE e = u
    <3>1. Tg(m2, e) = Tg(m, e) \union Tg(m, c)
      <4>1. Tg(m1, e) = Tg(m, e)
        BY <1>1, <2>3, <2>4
      <4> QED
        BY <1>1, <2>4, <4>1 DEF Tagging
    <3>2. \A d \in C : Ad(m, e) # d
      BY <1>0, <1>1, <2>4, AcrossOne
    <3>3. \A d \in C : Ad(m, e) = In(s, d) => d = c
      BY <1>0, <1>1, <2>4, AcrossOne
    <3> QED
      BY <1>1, <2>2, <2>3, <2>4, <3>1, <3>2, <3>3
  <2>5. CASE e # u
    <3>1. Tg(m2, e) = Tg(m1, e)
      BY <2>1, <2>5 DEF Tagging
    <3>2. Ad(m, e) # In(s, c)
      <4>1. In(s, c) \in Darts(m)
        BY <1>0, HollowParts
      <4>2. In(s, c) # NoAdja
        BY <1>0, <4>1, MeshParts, DartIs
      <4> QED
        BY <1>0, <2>5, <4>2, Twin
    <3> QED
      BY <2>2, <2>3, <3>1, <3>2
  <2> QED
    BY <2>4, <2>5
<1> QED
  BY <1>3, <1>4, <1>5, <1>6 DEF Pinched

(* The edges are glued over the triangle of c, the far one having taken    *)
(* the tags of the near one.                                               *)
LEMMA PinchGlue ==
  ASSUME NEW m, Sound(m), NEW s, NEW C, Hollow(m, s, C), NEW D, NEW E, NEW m1, Pinched(m, m1, s, C, D, E),
         NEW c \in C, c \notin D, NEW u, u = Ad(m, In(s, c)), NEW w, w = Ad(m, c),
         NEW m2, Retagged(m1, m2, w, Tg(m, w) \union Tg(m, In(s, c))), NEW m3, Glued(m2, m3, u, w)
  PROVE  Pinched(m, m3, s, C, D \union {c}, E)
<1>0. Solid(m) /\ m \in MeshSet
  BY DEF Sound, Solid
<1>1. /\ u \in Darts(m) /\ u # NoAdja /\ Ad(m, u) = In(s, c) /\ u[1] \notin {d[1] : d \in C}
      /\ w # NoAdja => /\ w \in Darts(m) /\ w[1] # u[1] /\ Ad(m, w) = c
                       /\ w[1] \notin {d[1] : d \in C}
  BY <1>0, OutsideOf
<1>2. Retri(m1, m2) /\ Retri(m2, m3)
  BY DEF Retagged, Glued
<1>3. m3 \in MeshSet /\ m3.pts = m.pts /\ m3.trs = m.trs
  BY <1>2 DEF Retri, Pinched
<1>4. \A p \in Live(m.pts) : At(m3, p) = At(m, p) /\ Pt(m3, p) = Pt(m, p)
  BY <1>2 DEF Retri, Pinched, At, Pt
<1>20. c \in Darts(m) /\ In(s, c) \in Darts(m) /\ c # NoAdja /\ In(s, c) # NoAdja
  <2>1. c \in Darts(m) /\ In(s, c) \in Darts(m)
    BY <1>0, HollowParts
  <2> QED
    BY <1>0, <2>1, MeshParts, DartIs
<1>7. u # w
  BY <1>1
<1>8. ASSUME NEW e \in DartSet
      PROVE  /\ Vt(m3, e) = Vt(m1, e) /\ Rf(m3, e) = Rf(m1, e)
             /\ e # w => Tg(m3, e) = Tg(m1, e)
             /\ e # w /\ e # u => Ad(m3, e) = Ad(m1, e)
             /\ e = w => Tg(m3, e) = Tg(m, w) \union Tg(m, In(s, c)) /\ Ad(m3, e) = u
             /\ e = u => Ad(m3, e) = w
  <2>1. /\ Vt(m3, e) = Vt(m2, e) /\ Tg(m3, e) = Tg(m2, e) /\ Rf(m3, e) = Rf(m2, e)
        /\ e = u => Ad(m3, e) = w
        /\ e = w => Ad(m3, e) = u
        /\ e # u /\ e # w => Ad(m3, e) = Ad(m2, e)
    <3>1. e # NoAdja
      BY DartIs
    <3> QED
      BY <1>7, <1>8, <3>1 DEF Glued
  <2>2. /\ Vt(m2, e) = Vt(m1, e) /\ Ad(m2, e) = Ad(m1, e) /\ Rf(m2, e) = Rf(m1, e)
        /\ e = w => Tg(m2, e) = Tg(m, w) \union Tg(m, In(s, c))
        /\ e # w => Tg(m2, e) = Tg(m1, e)
    <3>1. e # NoAdja
      BY DartIs
    <3> QED
      BY <1>8, <3>1 DEF Retagged
  <2> QED
    BY <2>1, <2>2
<1>5. ASSUME NEW d \in C PROVE Ad(m3, d) = Ad(m, d) /\ Tg(m3, d) = Tg(m, d)
  <2>1. d \in DartSet
    BY <1>0, AcrossOne
  <2>2. d # u /\ d # w
    BY <1>1, <2>1, DartIs
  <2>3. Ad(m1, d) = Ad(m, d) /\ Tg(m1, d) = Tg(m, d)
    BY DEF Pinched
  <2> QED
    BY <1>8, <2>1, <2>2, <2>3
<1>6. ASSUME NEW e \in Darts(m), e[1] \notin {d[1] : d \in C}
      PROVE  /\ Vt(m, e) = Vt(m, s) => Vt(m3, e) = Vt(m, Nx(s))
             /\ Vt(m, e) # Vt(m, s) => Vt(m3, e) = Vt(m, e)
             /\ Rf(m3, e) = Rf(m, e)
             /\ (\A d \in C : Ad(m, e) # d /\ Ad(m, e) # In(s, d)) => Ad(m3, e) = Ad(m, e) /\ Tg(m3, e) = Tg(m, e)
             /\ \A d \in C : Ad(m, e) = d =>
                   /\ d \in D \union {c} => Ad(m3, e) = Ad(m, In(s, d)) /\ Tg(m3, e) = Tg(m, e) \union Tg(m, In(s, d))
                   /\ d \notin D \union {c} => Ad(m3, e) = Ad(m, e) /\ Tg(m3, e) = Tg(m, e)
             /\ \A d \in C : Ad(m, e) = In(s, d) =>
                   /\ d \in D \union {c} => Ad(m3, e) = Ad(m, d)
                   /\ d \notin D \union {c} => Ad(m3, e) = Ad(m, e)
                   /\ d \in E => Tg(m3, e) = Tg(m, e) \union Tg(m, d)
                   /\ d \notin E => Tg(m3, e) = Tg(m, e)
  <2>1. e \in DartSet /\ u \in DartSet
    BY <1>0, <1>1, MeshParts
  <2>2. Vt(m3, e) = Vt(m1, e) /\ Rf(m3, e) = Rf(m1, e)
    BY <1>8, <2>1
  <2>3. /\ Vt(m, e) = Vt(m, s) => Vt(m1, e) = Vt(m, Nx(s))
        /\ Vt(m, e) # Vt(m, s) => Vt(m1, e) = Vt(m, e)
        /\ Rf(m1, e) = Rf(m, e)
        /\ (\A d \in C : Ad(m, e) # d /\ Ad(m, e) # In(s, d)) => Ad(m1, e) = Ad(m, e) /\ Tg(m1, e) = Tg(m, e)
        /\ \A d \in C : Ad(m, e) = d =>
              /\ d \in D => Ad(m1, e) = Ad(m, In(s, d)) /\ Tg(m1, e) = Tg(m, e) \union Tg(m, In(s, d))
              /\ d \notin D => Ad(m1, e) = Ad(m, e) /\ Tg(m1, e) = Tg(m, e)
        /\ \A d \in C : Ad(m, e) = In(s, d) =>
              /\ d \in D => Ad(m1, e) = Ad(m, d)
              /\ d \notin D => Ad(m1, e) = Ad(m, e)
              /\ d \in E => Tg(m1, e) = Tg(m, e) \union Tg(m, d)
              /\ d \notin E => Tg(m1, e) = Tg(m, e)
    BY <1>6 DEF Pinched
  <2>4. CASE e = u
    <3>1. Ad(m3, e) = w /\ Tg(m3, e) = Tg(m1, e)
      BY <1>7, <1>8, <2>1, <2>4
    <3>2. \A d \in C : Ad(m, e) # d
      BY <1>0, <1>1, <2>4, AcrossOne
    <3>3. \A d \in C : Ad(m, e) = In(s, d) => d = c
      BY <1>0, <1>1, <2>4, AcrossOne
    <3>4. Ad(m, e) = In(s, c)
      BY <1>1, <2>4
    <3> QED
      BY <2>2, <2>3, <3>1, <3>2, <3>3, <3>4
  <2>5. CASE e = w
    <3>1. w # NoAdja /\ Ad(m, e) = c
      BY <1>1, <2>1, <2>5, DartIs
    <3>2. Ad(m3, e) = u /\ Tg(m3, e) = Tg(m, e) \union Tg(m, In(s, c))
      BY <1>8, <2>1, <2>5
    <3>3. \A d \in C : Ad(m, e) # In(s, d)
      BY <1>0, <3>1, AcrossOne
    <3> QED
      BY <2>2, <2>3, <3>1, <3>2, <3>3
  <2>6. CASE e # u /\ e # w
    <3>1. Tg(m3, e) = Tg(m1, e) /\ Ad(m3, e) = Ad(m1, e)
      BY <1>8, <2>1, <2>6
    <3>2. Ad(m, e) # In(s, c) /\ Ad(m, e) # c
      BY <1>0, <1>20, <2>6, Twin
    <3> QED
      BY <2>2, <2>3, <3>1, <3>2
  <2> QED
    BY <2>4, <2>5, <2>6
<1> QED
  BY <1>3, <1>4, <1>5, <1>6 DEF Pinched

(* Both edges of a triangle that goes, and those glued over it.            *)
LEMMA FarTags ==
  ASSUME NEW m, Sound(m), NEW s, NEW C, Hollow(m, s, C), NEW c \in C,
         NEW u, u = Ad(m, In(s, c)), NEW w, w = Ad(m, c)
  PROVE  /\ Tg(m, u) = Tg(m, In(s, c))
         /\ w # NoAdja => Tg(m, w) = Tg(m, c)
         /\ u \in DartSet /\ w \in Cells /\ c \in DartSet
         /\ Tg(m, c) \in SUBSET TagSet /\ Tg(m, In(s, c)) \in SUBSET TagSet
<1>0. Solid(m) /\ m \in MeshSet /\ Tagged(m)
  BY DEF Sound, Solid
<1>1. /\ u \in Darts(m) /\ u # NoAdja
      /\ w # NoAdja => w \in Darts(m)
  BY <1>0, OutsideOf
<1>2. c \in Darts(m) /\ In(s, c) \in Darts(m)
  BY <1>0, HollowParts
<1>3. \A e \in Darts(m) : e \in DartSet /\ Tg(m, e) \in SUBSET TagSet
  BY <1>0, MeshParts
<1> QED
  BY <1>0, <1>1, <1>2, <1>3 DEF Tagged, Cells

(* MMG2D_colver on one of the triangles that go.                           *)
LEMMA TakeOverIs ==
  ASSUME NEW m, Sound(m), NEW s, NEW C, Hollow(m, s, C), NEW D, NEW m1, Pinched(m, m1, s, C, D, D),
         NEW c \in C, c \notin D, NEW u, u = Ad(m, In(s, c)),
         NEW m4, m4 = TakeOver(m1, c, u)
  PROVE  Pinched(m, m4, s, C, D \union {c}, D \union {c})
<1>0. Solid(m) /\ m \in MeshSet
  BY DEF Sound, Solid
<1>1. PICK w : w = Ad(m, c)
  OBVIOUS
<1>2. /\ Tg(m, u) = Tg(m, In(s, c))
      /\ w # NoAdja => Tg(m, w) = Tg(m, c)
      /\ u \in DartSet /\ w \in Cells /\ c \in DartSet
      /\ Tg(m, c) \in SUBSET TagSet /\ Tg(m, In(s, c)) \in SUBSET TagSet
  BY <1>1, FarTags
<1>3. /\ u \in Darts(m) /\ u # NoAdja /\ Ad(m, u) = In(s, c) /\ u[1] \notin {d[1] : d \in C}
      /\ w # NoAdja => /\ w \in Darts(m) /\ w[1] # u[1] /\ Ad(m, w) = c
                       /\ w[1] \notin {d[1] : d \in C}
  BY <1>0, <1>1, OutsideOf
<1>4. Ad(m1, c) = w /\ Tg(m1, c) = Tg(m, c) /\ m1 \in MeshSet
  BY <1>1 DEF Pinched
<1>5. PICK m2 : m2 = AddTag(m1, u, Tg(m, c))
  OBVIOUS
<1>6. PICK m3 : m3 = AddTag(m2, w, Tg(m2, u))
  OBVIOUS
<1>7. m4 = Glue(m3, u, w)
  <2>1. m1.tria[c[1]].adja[c[2]] = w /\ m1.tria[c[1]].tag[c[2]] = Tg(m, c)
    BY <1>4 DEF Ad, Tg
  <2>2. \A x : x.tria[u[1]].tag[u[2]] = Tg(x, u)
    BY DEF Tg
  <2> QED
    BY <1>5, <1>6, <2>1, <2>2 DEF TakeOver
<1>8. Tagging(m1, m2, u, Tg(m, c)) /\ m2 \in MeshSet
  <2>1. Tagging(m1, m2, u, Tg(m, c))
    BY <1>2, <1>4, <1>5, AddTagIs DEF Cells
  <2> QED
    BY <2>1 DEF Tagging, Retri
<1>9. Pinched(m, m2, s, C, D, D \union {c})
  BY <1>8, PinchTag
<1>10. Tg(m2, u) = Tg(m, In(s, c)) \union Tg(m, c)
  BY <1>2, <1>3, <1>9 DEF Pinched
<1>11. Tagging(m2, m3, w, Tg(m2, u))
  <2>1. Tg(m2, u) \in SUBSET TagSet
    BY <1>2, <1>10
  <2> QED
    BY <1>2, <1>6, <1>8, <2>1, AddTagIs
<1>12. w # NoAdja => Tg(m2, w) = Tg(m, w)
  BY <1>3, <1>9 DEF Pinched
<1>13. Retagged(m2, m3, w, Tg(m, w) \union Tg(m, In(s, c)))
  <2>1. w # NoAdja => Tg(m3, w) = Tg(m, w) \union Tg(m, In(s, c))
    BY <1>2, <1>10, <1>11, <1>12 DEF Tagging
  <2> QED
    BY <1>11, <2>1 DEF Tagging, Retagged
<1>14. Glued(m3, m4, u, w)
  <2>1. m3 \in MeshSet
    BY <1>11 DEF Tagging, Retri
  <2> QED
    BY <1>2, <1>7, <2>1, GlueIs
<1> QED
  BY <1>1, <1>9, <1>13, <1>14, PinchGlue

(* The triangles of the corners in stay have their corner moved to p.      *)
MovedAll(m, m1, stay, p) ==
    /\ m1 \in MeshSet /\ m1.pts = m.pts /\ m1.trs = m.trs
    /\ \A q \in 1..NPMax : At(m1, q) = At(m, q) /\ Pt(m1, q) = Pt(m, q)
    /\ \A e \in DartSet : /\ Ad(m1, e) = Ad(m, e) /\ Tg(m1, e) = Tg(m, e) /\ Rf(m1, e) = Rf(m, e)
                          /\ e \in stay => Vt(m1, e) = p
                          /\ e \notin stay => Vt(m1, e) = Vt(m, e)

Dragged(m, stay, p, q) ==
    [m EXCEPT !.point[p].tag = @ \union m.point[q].tag,
              !.tria = [k \in DOMAIN @ |->
                  IF \E t \in stay : t[1] = k
                  THEN [@[k] EXCEPT !.v[(CHOOSE t \in stay : t[1] = k)[2]] = p]
                  ELSE @[k]]]

LEMMA DraggedIs ==
  ASSUME NEW m \in MeshSet, NEW stay \in SUBSET DartSet, \A x, y \in stay : x[1] = y[1] => x = y,
         NEW p \in 1..NPMax, NEW q, Pt(m, q) \subseteq Pt(m, p), NEW m1, m1 = Dragged(m, stay, p, q)
  PROVE  MovedAll(m, m1, stay, p)
<1> DEFINE pos(k) == (CHOOSE t \in stay : t[1] = k)[2]
           new(k) == [m.tria[k] EXCEPT !.v[pos(k)] = p]
           T == [k \in 1..NTMax |-> IF \E t \in stay : t[1] = k THEN new(k) ELSE m.tria[k]]
           pt == [m.point[p] EXCEPT !.tag = @ \union m.point[q].tag]
           P == [m.point EXCEPT ![p] = pt]
<1>1. m.tria \in [1..NTMax -> TriaSet] /\ m.point \in [1..NPMax -> PointSet] /\ DOMAIN m.tria = 1..NTMax
  BY DEF MeshSet
<1>2. m1 = [m EXCEPT !.point = P, !.tria = T]
  BY <1>1 DEF Dragged
<1>3. ASSUME NEW k \in 1..NTMax, NEW t \in stay, t[1] = k
      PROVE  /\ pos(k) = t[2] /\ t[2] \in Local /\ t = <<k, t[2]>>
             /\ new(k) \in TriaSet /\ new(k).v = [m.tria[k].v EXCEPT ![t[2]] = p]
             /\ new(k).tag = m.tria[k].tag /\ new(k).ref = m.tria[k].ref /\ new(k).adja = m.tria[k].adja
  <2>1. (CHOOSE x \in stay : x[1] = k) = t
    BY <1>3
  <2>2. t[2] \in Local /\ t = <<k, t[2]>>
    BY <1>3, DartIs
  <2>3. PICK r : r = m.tria[k]
    OBVIOUS
  <2>4. r \in TriaSet /\ r.v \in [Local -> 0..NPMax]
    BY <2>3, TriaParts
  <2>5. p \in 0..NPMax
    OBVIOUS
  <2>6. new(k) = [r EXCEPT !.v[t[2]] = p]
    BY <2>1, <2>3
  <2>7. /\ [r EXCEPT !.v[t[2]] = p] \in TriaSet
        /\ [r EXCEPT !.v[t[2]] = p].v = [r.v EXCEPT ![t[2]] = p]
        /\ [r EXCEPT !.v[t[2]] = p].tag = r.tag /\ [r EXCEPT !.v[t[2]] = p].ref = r.ref
        /\ [r EXCEPT !.v[t[2]] = p].adja = r.adja
    <3>1. [r.v EXCEPT ![t[2]] = p] \in [Local -> 0..NPMax]
      BY <2>2, <2>4, <2>5
    <3> QED
      BY <2>4, <3>1 DEF TriaSet
  <2> HIDE DEF new
  <2> QED
    BY <2>1, <2>2, <2>3, <2>6, <2>7
<1> HIDE DEF new, pos
<1>4. T \in [1..NTMax -> TriaSet]
  <2> SUFFICES ASSUME NEW k \in 1..NTMax PROVE T[k] \in TriaSet
    OBVIOUS
  <2>1. CASE \E t \in stay : t[1] = k
    <3>1. T[k] = new(k) /\ new(k) \in TriaSet
      BY <1>3, <2>1
    <3> QED
      BY <3>1
  <2>2. CASE ~\E t \in stay : t[1] = k
    BY <1>1, <2>2
  <2> QED
    BY <2>1, <2>2
<1>5. pt.tag = Pt(m, p) /\ pt.c = At(m, p) /\ pt \in PointSet
  <2>1. m.point[p] \in PointSet /\ m.point[p].tag \union m.point[q].tag = m.point[p].tag
    BY <1>1 DEF Pt
  <2> QED
    BY <2>1 DEF PointSet, Pt, At
<1> HIDE DEF pt
<1>6. P \in [1..NPMax -> PointSet] /\ P[p] = pt /\ \A x \in 1..NPMax : x # p => P[x] = m.point[x]
  BY <1>1, <1>5
<1>7. ASSUME NEW k \in 1..NTMax
      PROVE  /\ T[k].tag = m.tria[k].tag /\ T[k].ref = m.tria[k].ref /\ T[k].adja = m.tria[k].adja
             /\ \A i \in Local : /\ <<k, i>> \in stay => T[k].v[i] = p
                                 /\ <<k, i>> \notin stay => T[k].v[i] = m.tria[k].v[i]
  <2>1. CASE \E t \in stay : t[1] = k
    <3>1. PICK t \in stay : t[1] = k
      BY <2>1
    <3>2. T[k] = new(k)
      BY <2>1
    <3>3. /\ t[2] \in Local /\ t = <<k, t[2]>> /\ new(k).v = [m.tria[k].v EXCEPT ![t[2]] = p]
          /\ new(k).tag = m.tria[k].tag /\ new(k).ref = m.tria[k].ref /\ new(k).adja = m.tria[k].adja
      BY <1>3, <3>1
    <3>4. \A i \in Local : <<k, i>> \in stay <=> i = t[2]
      BY <3>1, <3>3
    <3>5. m.tria[k].v \in [Local -> 0..NPMax]
      BY TriaParts
    <3> HIDE DEF T
    <3>6. ASSUME NEW i \in Local
          PROVE  /\ <<k, i>> \in stay => T[k].v[i] = p
                 /\ <<k, i>> \notin stay => T[k].v[i] = m.tria[k].v[i]
      BY <3>2, <3>3, <3>4, <3>5
    <3> QED
      BY <3>2, <3>3, <3>6
  <2>2. CASE ~\E t \in stay : t[1] = k
    <3>1. T[k] = m.tria[k]
      BY <2>2
    <3>2. \A i : <<k, i>> \notin stay
      BY <2>2
    <3> QED
      BY <3>1, <3>2
  <2> QED
    BY <2>1, <2>2
<1> HIDE DEF T, P
<1>8. m1 \in MeshSet /\ m1.pts = m.pts /\ m1.trs = m.trs /\ m1.point = P /\ m1.tria = T
  BY <1>2, <1>4, <1>6 DEF MeshSet
<1>9. \A x \in 1..NPMax : At(m1, x) = At(m, x) /\ Pt(m1, x) = Pt(m, x)
  BY <1>5, <1>6, <1>8 DEF At, Pt
<1>10. ASSUME NEW e \in DartSet
       PROVE  /\ Ad(m1, e) = Ad(m, e) /\ Tg(m1, e) = Tg(m, e) /\ Rf(m1, e) = Rf(m, e)
              /\ e \in stay => Vt(m1, e) = p
              /\ e \notin stay => Vt(m1, e) = Vt(m, e)
  <2>1. e[1] \in 1..NTMax /\ e[2] \in Local /\ e = <<e[1], e[2]>>
    BY DartIs
  <2> QED
    BY <1>7, <1>8, <2>1 DEF Ad, Tg, Rf, Vt
<1> QED
  BY <1>8, <1>9, <1>10 DEF MovedAll

(* The corners of the vertex that disappears in the triangles that stay.   *)
Stay(m, s, list) == {list[l] : l \in 2..(IF Ad(m, Pv(s)) = NoAdja THEN Len(list) ELSE Len(list) - 1)}

LEMMA StayIs ==
  ASSUME NEW m, Solid(m), NEW s \in Darts(m), NEW list, Ball(m, s, list), Enough(m, s, list),
         NEW C, C = Hole(m, s, list)
  PROVE  /\ Stay(m, s, list) \subseteq Darts(m)
         /\ \A x, y \in Stay(m, s, list) : x[1] = y[1] => x = y
         /\ \A e \in Darts(m) : e[1] \notin {c[1] : c \in C} => (e \in Stay(m, s, list) <=> Vt(m, e) = Vt(m, s))
<1>1. PICK n : n = Len(list)
  OBVIOUS
<1>2. n \in Nat /\ n >= 2 /\ list[1] = s
  BY <1>1, BallEnds
<1>3. PICK h \in {n - 1, n} : /\ Stay(m, s, list) = {list[l] : l \in 2..h}
                              /\ Ad(m, Pv(s)) = NoAdja => h = n
                              /\ Ad(m, Pv(s)) # NoAdja => h = n - 1
  <2>1. CASE Ad(m, Pv(s)) = NoAdja
    BY <1>1, <2>1 DEF Stay
  <2>2. CASE Ad(m, Pv(s)) # NoAdja
    BY <1>1, <2>2 DEF Stay
  <2> QED
    BY <2>1, <2>2
<1>4. \A l \in 2..h : l \in 1..n
  BY <1>2
<1>5. \A j \in 1..n : list[j] \in Darts(m) /\ Vt(m, list[j]) = Vt(m, s)
  BY <1>1 DEF Ball, Run
<1>6. \A a, b \in 1..n : list[a][1] = list[b][1] => a = b
  BY <1>1 DEF Ball, Run
<1>7. Stay(m, s, list) \subseteq Darts(m)
  BY <1>3, <1>4, <1>5
<1>8. ASSUME NEW x \in Stay(m, s, list), NEW y \in Stay(m, s, list), x[1] = y[1] PROVE x = y
  <2>1. PICK a \in 2..h, b \in 2..h : x = list[a] /\ y = list[b]
    BY <1>3, <1>8
  <2> QED
    BY <1>4, <1>6, <1>8, <2>1
<1>9. ASSUME NEW e \in Darts(m), e[1] \notin {c[1] : c \in C}
      PROVE  e \in Stay(m, s, list) <=> Vt(m, e) = Vt(m, s)
  <2>1. ASSUME Vt(m, e) = Vt(m, s) PROVE e \in Stay(m, s, list)
    <3>1. PICK j \in 1..n : list[j] = e
      BY <1>1, <2>1 DEF Ball
    <3>2. j # 1 /\ (Ad(m, Pv(s)) # NoAdja => j # n)
      BY <1>1, <1>2, <1>9, <3>1 DEF Hole
    <3>3. j \in 2..h
      BY <1>2, <1>3, <3>2
    <3> QED
      BY <1>3, <3>1, <3>3
  <2>2. ASSUME e \in Stay(m, s, list) PROVE Vt(m, e) = Vt(m, s)
    BY <1>3, <1>4, <1>5, <2>2
  <2> QED
    BY <2>1, <2>2
<1> QED
  BY <1>7, <1>8, <1>9

LEMMA MovedPinched ==
  ASSUME NEW m, Sound(m), NEW s, NEW C, Hollow(m, s, C), NEW stay,
         \A e \in Darts(m) : e[1] \notin {c[1] : c \in C} => (e \in stay <=> Vt(m, e) = Vt(m, s)),
         NEW m1, MovedAll(m, m1, stay, Vt(m, Nx(s)))
  PROVE  Pinched(m, m1, s, C, {}, {})
<1>0. Solid(m) /\ m \in MeshSet
  BY DEF Sound, Solid
<1>1. m1 \in MeshSet /\ m1.pts = m.pts /\ m1.trs = m.trs
  BY DEF MovedAll
<1>2. \A p \in Live(m.pts) : At(m1, p) = At(m, p) /\ Pt(m1, p) = Pt(m, p)
  BY <1>0, MeshParts DEF MovedAll
<1>3. \A c \in C : Ad(m1, c) = Ad(m, c) /\ Tg(m1, c) = Tg(m, c)
  BY <1>0, AcrossOne DEF MovedAll
<1>4. ASSUME NEW e \in Darts(m), e[1] \notin {c[1] : c \in C}
      PROVE  /\ Vt(m, e) = Vt(m, s) => Vt(m1, e) = Vt(m, Nx(s))
             /\ Vt(m, e) # Vt(m, s) => Vt(m1, e) = Vt(m, e)
             /\ Rf(m1, e) = Rf(m, e)
             /\ Ad(m1, e) = Ad(m, e) /\ Tg(m1, e) = Tg(m, e)
  <2>1. e \in DartSet
    BY <1>0, MeshParts
  <2>2. e \in stay <=> Vt(m, e) = Vt(m, s)
    BY <1>4
  <2> QED
    BY <2>1, <2>2 DEF MovedAll
<1> QED
  BY <1>1, <1>2, <1>3, <1>4 DEF Pinched

(* What is left of the mesh once the triangles of C are gone.              *)
LEMMA EmptyOut ==
  ASSUME NEW m, Sound(m), NEW s \in Darts(m), NEW list, Ball(m, s, list), Enough(m, s, list),
         NEW C, C = Hole(m, s, list), NEW m3, Pinched(m, m3, s, C, C, C), NEW m2,
         Ad(m, Pv(s)) = NoAdja => m2 = DelElt(DelPt(m3, Vt(m, s)), s[1]),
         Ad(m, Pv(s)) # NoAdja => m2 = DelElt(DelElt(DelPt(m3, Vt(m, s)), s[1]), list[Len(list)][1])
  PROVE  After(m, m2, s, C)
<1>0. Solid(m) /\ m \in MeshSet
  BY DEF Sound, Solid
<1>1. Hollow(m, s, C)
  BY <1>0, HollowBy
<1>2. m3 \in MeshSet /\ m3.pts = m.pts /\ m3.trs = m.trs
  BY DEF Pinched
<1>3. Lists(m3)
  BY <1>2 DEF Sound, Lists
<1>4. PICK p, k : p = Vt(m, s) /\ k = s[1]
  OBVIOUS
<1>5. p \in Live(m3.pts) /\ k \in Live(m3.trs)
  BY <1>0, <1>2, <1>4, Corners, DartsTurn
<1>6. CASE Ad(m, Pv(s)) = NoAdja
  <2>1. m2 = DelElt(DelPt(m3, p), k) /\ {c[1] : c \in C} = {k}
    BY <1>4, <1>6 DEF Hole
  <2>2. Emptied(m3, m2, p, {k})
    BY <1>2, <1>3, <1>5, <2>1, EmptiedOne
  <2>3. Emptied(m3, m2, Vt(m, s), {c[1] : c \in C})
    BY <1>4, <2>1, <2>2
  <2> QED
    BY <1>1, <2>3, PinchedAfter
<1>7. CASE Ad(m, Pv(s)) # NoAdja
  <2>1. PICK n, t : n = Len(list) /\ t = list[n]
    OBVIOUS
  <2>2. t \in Darts(m) /\ t[1] # s[1]
    BY <1>0, <2>1, BallEnds
  <2>3. PICK l : l = t[1]
    OBVIOUS
  <2>4. m2 = DelElt(DelElt(DelPt(m3, p), k), l) /\ {c[1] : c \in C} = {k, l}
    BY <1>4, <1>7, <2>1, <2>3 DEF Hole
  <2>5. l \in Live(m3.trs) /\ k # l
    BY <1>2, <1>4, <2>2, <2>3, DartsTurn
  <2>6. Emptied(m3, m2, p, {k, l})
    BY <1>2, <1>3, <1>5, <2>4, <2>5, EmptiedTwo
  <2>7. Emptied(m3, m2, Vt(m, s), {c[1] : c \in C})
    BY <1>4, <2>4, <2>6
  <2> QED
    BY <1>1, <2>7, PinchedAfter
<1> QED
  BY <1>6, <1>7

(* MMG2D_colver.                                                           *)
LEMMA ColverIs ==
  ASSUME NEW m, Sound(m), NEW s \in Darts(m), NEW list, Ball(m, s, list), Enough(m, s, list),
         Pt(m, Vt(m, s)) \subseteq Pt(m, Vt(m, Nx(s))),
         NEW C, C = Hole(m, s, list), NEW m2, m2 = Colver(m, list)
  PROVE  After(m, m2, s, C)
<1>0. Solid(m) /\ m \in MeshSet
  BY DEF Sound, Solid
<1>1. PICK n, t : n = Len(list) /\ t = list[n]
  OBVIOUS
<1>2. /\ n \in Nat /\ n >= 2 /\ list[1] = s /\ t \in Darts(m) /\ t # s
      /\ Ad(m, Nx(s)) = Pv(list[2]) /\ Ad(m, Pv(t)) = Nx(list[n - 1])
  BY <1>0, <1>1, BallEnds
<1>3. Hollow(m, s, C) /\ In(s, s) = Nx(s) /\ In(s, t) = Pv(t)
  BY <1>0, <1>2, HollowBy DEF In
<1>4. PICK p, q : p = Vt(m, Nx(s)) /\ q = Vt(m, s)
  OBVIOUS
<1>5. p \in 1..NPMax /\ Pt(m, q) \subseteq Pt(m, p)
  <2>1. Nx(s) \in Darts(m)
    BY DartsTurn
  <2> QED
    BY <1>0, <1>4, <2>1, Corners
<1>6. PICK stay : stay = Stay(m, s, list)
  OBVIOUS
<1>7. /\ stay \in SUBSET DartSet /\ \A x, y \in stay : x[1] = y[1] => x = y
      /\ \A e \in Darts(m) : e[1] \notin {c[1] : c \in C} => (e \in stay <=> Vt(m, e) = Vt(m, s))
  BY <1>0, <1>6, StayIs, MeshParts
<1>8. PICK m1 : m1 = Dragged(m, stay, p, q)
  OBVIOUS
<1>9. MovedAll(m, m1, stay, p)
  BY <1>0, <1>5, <1>7, <1>8, DraggedIs
<1>10. Pinched(m, m1, s, C, {}, {})
  BY <1>3, <1>4, <1>7, <1>9, MovedPinched
<1>11. PICK u, v : u = Ad(m, In(s, s)) /\ v = Ad(m, In(s, t))
  OBVIOUS
<1>12. PICK m3 : m3 = TakeOver(m1, s, u)
  OBVIOUS
<1>13. s \in C
  BY DEF Hole
<1>14. Pinched(m, m3, s, C, {s}, {s})
  <2>1. Pinched(m, m3, s, C, {} \union {s}, {} \union {s})
    BY <1>3, <1>10, <1>11, <1>12, <1>13, TakeOverIs
  <2>2. {} \union {s} = {s}
    OBVIOUS
  <2> QED
    BY <2>1, <2>2
<1>15. PICK m4 : m4 = TakeOver(m3, t, v)
  OBVIOUS
<1>16. m2 = IF Ad(m, Pv(s)) = NoAdja THEN DelElt(DelPt(m3, q), s[1])
            ELSE DelElt(DelElt(DelPt(m4, q), s[1]), t[1])
  <2>1. u = <<list[2][1], Prv(list[2][2])>> /\ v = <<list[n - 1][1], Nxt(list[n - 1][2])>>
    BY <1>2, <1>3, <1>11 DEF Nx, Pv
  <2>2. m.tria[s[1]].v[s[2]] = q /\ m.tria[s[1]].v[Nxt(s[2])] = p /\ m.tria[s[1]].adja[Prv(s[2])] = Ad(m, Pv(s))
    BY <1>4 DEF Vt, Ad, Nx, Pv
  <2>3. stay = {list[l] : l \in 2..(IF Ad(m, Pv(s)) = NoAdja THEN n ELSE n - 1)}
    BY <1>1, <1>6 DEF Stay
  <2> QED
    BY <1>1, <1>2, <1>8, <1>12, <1>15, <2>1, <2>2, <2>3 DEF Colver, Dragged
<1>17. CASE Ad(m, Pv(s)) = NoAdja
  <2>1. m2 = DelElt(DelPt(m3, Vt(m, s)), s[1]) /\ C = {s}
    BY <1>4, <1>16, <1>17 DEF Hole
  <2>2. Pinched(m, m3, s, C, C, C)
    BY <1>14, <2>1
  <2> QED
    BY <1>17, <2>1, <2>2, EmptyOut
<1>18. CASE Ad(m, Pv(s)) # NoAdja
  <2>1. m2 = DelElt(DelElt(DelPt(m4, Vt(m, s)), s[1]), list[Len(list)][1]) /\ C = {s, t}
    BY <1>1, <1>4, <1>16, <1>18 DEF Hole
  <2>2. Pinched(m, m4, s, C, C, C)
    <3>1. t \in C /\ t \notin {s} /\ C = {s} \union {t}
      BY <1>2, <2>1
    <3>2. Pinched(m, m4, s, C, {s} \union {t}, {s} \union {t})
      BY <1>3, <1>11, <1>14, <1>15, <3>1, TakeOverIs
    <3> QED
      BY <3>1, <3>2
  <2> QED
    BY <1>18, <2>1, <2>2, EmptyOut
<1> QED
  BY <1>17, <1>18

(* One corner is moved.                                                    *)
LEMMA OneMoved ==
  ASSUME NEW m \in MeshSet, NEW f \in DartSet, NEW p \in 1..NPMax,
         NEW m1, m1 = [m EXCEPT !.tria[f[1]].v[f[2]] = p]
  PROVE  MovedAll(m, m1, {f}, p)
<1>1. f[1] \in 1..NTMax /\ f[2] \in Local /\ f = <<f[1], f[2]>>
  BY DartIs
<1>2. PICK t, t2 : t = m.tria[f[1]] /\ t2 = [t EXCEPT !.v[f[2]] = p]
  OBVIOUS
<1>3. t \in TriaSet /\ t.v \in [Local -> 0..NPMax]
  BY <1>1, <1>2, TriaParts
<1>4. /\ t2 \in TriaSet /\ t2.v = [t.v EXCEPT ![f[2]] = p]
      /\ t2.tag = t.tag /\ t2.ref = t.ref /\ t2.adja = t.adja
  <2>1. [t.v EXCEPT ![f[2]] = p] \in [Local -> 0..NPMax]
    BY <1>1, <1>3
  <2> QED
    BY <1>2, <1>3, <2>1 DEF TriaSet
<1>5. PICK T : T = [m.tria EXCEPT ![f[1]] = t2]
  OBVIOUS
<1>6. m.tria \in [1..NTMax -> TriaSet]
  BY DEF MeshSet
<1>7. T \in [1..NTMax -> TriaSet] /\ T[f[1]] = t2 /\ \A k \in 1..NTMax : k # f[1] => T[k] = m.tria[k]
  BY <1>1, <1>4, <1>5, <1>6
<1>8. m1 = [m EXCEPT !.tria = T]
  BY <1>2, <1>5
<1>9. Retri(m, m1) /\ m1.tria = T
  BY <1>7, <1>8, NewTria
<1>10. ASSUME NEW e \in DartSet
       PROVE  /\ Ad(m1, e) = Ad(m, e) /\ Tg(m1, e) = Tg(m, e) /\ Rf(m1, e) = Rf(m, e)
              /\ e \in {f} => Vt(m1, e) = p
              /\ e \notin {f} => Vt(m1, e) = Vt(m, e)
  <2>1. e[1] \in 1..NTMax /\ e[2] \in Local /\ e = <<e[1], e[2]>>
    BY DartIs
  <2>2. CASE e[1] = f[1]
    <3>1. m1.tria[e[1]] = t2 /\ m.tria[e[1]] = t
      BY <1>2, <1>7, <1>9, <2>2
    <3>2. e = f <=> e[2] = f[2]
      BY <1>1, <2>1, <2>2
    <3>3. /\ e[2] = f[2] => t2.v[e[2]] = p
          /\ e[2] # f[2] => t2.v[e[2]] = t.v[e[2]]
      BY <1>3, <1>4, <2>1
    <3> QED
      BY <1>4, <3>1, <3>2, <3>3 DEF Ad, Tg, Rf, Vt
  <2>3. CASE e[1] # f[1]
    <3>1. m1.tria[e[1]] = m.tria[e[1]]
      BY <1>7, <1>9, <2>1, <2>3
    <3> QED
      BY <2>3, <3>1 DEF Ad, Tg, Rf, Vt
  <2> QED
    BY <2>2, <2>3
<1>11. \A q \in 1..NPMax : At(m1, q) = At(m, q) /\ Pt(m1, q) = Pt(m, q)
  BY <1>9 DEF Retri, At, Pt
<1> QED
  BY <1>9, <1>10, <1>11 DEF MovedAll, Retri

(* The tags that SetTag takes from the near edge.                          *)
LEMMA NearTag ==
  ASSUME NEW m, Sound(m), NEW s, NEW C, Hollow(m, s, C), NEW D, NEW E, NEW m1, Pinched(m, m1, s, C, D, E),
         NEW c \in C, c \in E, NEW u, u = Ad(m, In(s, c)), NEW w, w = Ad(m, c),
         NEW tag, tag = Tg(m, u) \union Tg(m, c), NEW m2, m2 = SetTag(m1, w, tag)
  PROVE  Tg(m1, u) = tag /\ Retagged(m1, m2, w, Tg(m, w) \union Tg(m, In(s, c))) /\ m2 \in MeshSet
<1>0. Solid(m) /\ m \in MeshSet /\ m1 \in MeshSet
  BY DEF Sound, Solid, Pinched
<1>1. /\ Tg(m, u) = Tg(m, In(s, c))
      /\ w # NoAdja => Tg(m, w) = Tg(m, c)
      /\ u \in DartSet /\ w \in Cells /\ c \in DartSet
      /\ Tg(m, c) \in SUBSET TagSet /\ Tg(m, In(s, c)) \in SUBSET TagSet
  BY FarTags
<1>2. u \in Darts(m) /\ Ad(m, u) = In(s, c) /\ u[1] \notin {d[1] : d \in C}
  BY <1>0, OutsideOf
<1>3. Tg(m1, u) = tag
  BY <1>2 DEF Pinched
<1>4. tag \in SUBSET TagSet
  BY <1>1
<1>5. Retagged(m1, m2, w, tag)
  BY <1>0, <1>1, <1>4, SetTagIs
<1>6. w # NoAdja => tag = Tg(m, w) \union Tg(m, In(s, c))
  BY <1>1
<1>7. Retagged(m1, m2, w, Tg(m, w) \union Tg(m, In(s, c))) /\ m2 \in MeshSet
  BY <1>5, <1>6 DEF Retagged, Retri
<1> QED
  BY <1>3, <1>7

(* MMG2D_colver3.                                                          *)
LEMMA Colver3Is ==
  ASSUME NEW m, Sound(m), NEW s \in Darts(m), NEW list, Ball(m, s, list), Len(list) = 3,
         Ad(m, Pv(s)) # NoAdja,
         NEW C, C = Hole(m, s, list), NEW m2, m2 = Colver3(m, list)
  PROVE  After(m, m2, s, C)
<1>0. Solid(m) /\ m \in MeshSet
  BY DEF Sound, Solid
<1>1. PICK n, t : n = Len(list) /\ t = list[n]
  OBVIOUS
<1>2. Enough(m, s, list) /\ n = 3 /\ n - 1 = 2
  BY <1>1 DEF Enough
<1>3. PICK f : f = list[2]
  OBVIOUS
<1>4. /\ list[1] = s /\ t \in Darts(m) /\ t # s /\ list[3] = t
      /\ Ad(m, Nx(s)) = Pv(f) /\ Ad(m, Pv(t)) = Nx(f)
  <2>1. ASSUME NEW li, li = list, n = Len(li), t = li[n]
        PROVE  /\ li[1] = s /\ t \in Darts(m) /\ t # s
               /\ Ad(m, Nx(s)) = Pv(li[2]) /\ Ad(m, Pv(t)) = Nx(li[n - 1])
    <3>1. Ball(m, s, li) /\ Enough(m, s, li)
      BY <1>2, <2>1
    <3> QED
      BY <1>0, <2>1, <3>1, BallEnds
  <2>2. /\ list[1] = s /\ t \in Darts(m) /\ t # s
        /\ Ad(m, Nx(s)) = Pv(list[2]) /\ Ad(m, Pv(t)) = Nx(list[n - 1])
    BY <1>1, <2>1
  <2> QED
    BY <1>1, <1>2, <1>3, <2>2
<1>5. Hollow(m, s, C) /\ In(s, s) = Nx(s) /\ In(s, t) = Pv(t) /\ C = {s, t}
  BY <1>0, <1>1, <1>2, <1>4, HollowBy DEF In, Hole
<1>6. PICK p, q : p = Vt(m, Nx(s)) /\ q = Vt(m, s)
  OBVIOUS
<1>7. p \in 1..NPMax
  <2>1. Nx(s) \in Darts(m)
    BY DartsTurn
  <2> QED
    BY <1>0, <1>6, <2>1, Corners
<1>8. f \in Darts(m) /\ f \in DartSet
  <2>1. 2 \in 1..Len(list)
    BY <1>1, <1>2
  <2> QED
    BY <1>0, <1>3, <2>1, MeshParts DEF Ball
<1>9. PICK m0 : m0 = [m EXCEPT !.tria[f[1]].v[f[2]] = p]
  OBVIOUS
<1>10. MovedAll(m, m0, {f}, p)
  BY <1>0, <1>7, <1>8, <1>9, OneMoved
<1>11. Pinched(m, m0, s, C, {}, {})
  <2>1. Stay(m, s, list) = {f}
    <3>1. Stay(m, s, list) = {list[l] : l \in 2..2}
      BY <1>1, <1>2 DEF Stay
    <3> QED
      BY <1>3, <3>1
  <2>2. \A e \in Darts(m) : e[1] \notin {c[1] : c \in C} => (e \in {f} <=> Vt(m, e) = Vt(m, s))
    BY <1>0, <1>2, <2>1, StayIs
  <2> QED
    BY <1>5, <1>6, <1>10, <2>2, MovedPinched
<1>12. PICK u, v : u = Ad(m, In(s, s)) /\ v = Ad(m, In(s, t))
  OBVIOUS
<1>13. u = Pv(f) /\ v = Nx(f)
  BY <1>4, <1>5, <1>12
<1>14. PICK a2, a1 : a2 = Ad(m, s) /\ a1 = Ad(m, t)
  OBVIOUS
<1>15. s \in C /\ t \in C
  BY <1>5
<1>16. /\ u \in DartSet /\ v \in DartSet /\ a2 \in Cells /\ a1 \in Cells
       /\ Tg(m, s) \in SUBSET TagSet /\ Tg(m, t) \in SUBSET TagSet
  BY <1>5, <1>12, <1>14, <1>15, FarTags
<1>17. PICK m11 : m11 = AddTag(m0, v, Tg(m, t))
  OBVIOUS
<1>18. Tagging(m0, m11, v, Tg(m, t)) /\ m11 \in MeshSet
  <2>1. m0 \in MeshSet
    BY <1>10 DEF MovedAll
  <2>2. Tagging(m0, m11, v, Tg(m, t))
    BY <1>16, <1>17, <2>1, AddTagIs DEF Cells
  <2> QED
    BY <2>2 DEF Tagging, Retri
<1>19. Pinched(m, m11, s, C, {}, {t})
  <2>1. Pinched(m, m11, s, C, {}, {} \union {t})
    BY <1>5, <1>11, <1>12, <1>15, <1>18, PinchTag
  <2>2. {} \union {t} = {t}
    OBVIOUS
  <2> QED
    BY <2>1, <2>2
<1>20. PICK m12 : m12 = AddTag(m11, u, Tg(m, s))
  OBVIOUS
<1>21. Tagging(m11, m12, u, Tg(m, s)) /\ m12 \in MeshSet
  <2>2. Tagging(m11, m12, u, Tg(m, s))
    BY <1>16, <1>18, <1>20, AddTagIs DEF Cells
  <2> QED
    BY <2>2 DEF Tagging, Retri
<1>22. Pinched(m, m12, s, C, {}, C)
  <2>1. s \notin {t} /\ C = {t} \union {s}
    BY <1>4, <1>5
  <2>2. Pinched(m, m12, s, C, {}, {t} \union {s})
    BY <1>5, <1>12, <1>15, <1>19, <1>21, <2>1, PinchTag
  <2> QED
    BY <2>1, <2>2
<1>23. PICK tu, tv : tu = Tg(m, u) \union Tg(m, s) /\ tv = Tg(m, v) \union Tg(m, t)
  OBVIOUS
<1>24. PICK m21 : m21 = SetTag(m12, a2, tu)
  OBVIOUS
<1>25. Tg(m12, u) = tu /\ Retagged(m12, m21, a2, Tg(m, a2) \union Tg(m, In(s, s))) /\ m21 \in MeshSet
  BY <1>5, <1>12, <1>14, <1>15, <1>22, <1>23, <1>24, NearTag
<1>26. PICK m22 : m22 = Glue(m21, u, a2)
  OBVIOUS
<1>27. Glued(m21, m22, u, a2)
  BY <1>16, <1>25, <1>26, GlueIs
<1>28. Pinched(m, m22, s, C, {s}, C)
  <2>1. Pinched(m, m22, s, C, {} \union {s}, C)
    BY <1>5, <1>12, <1>14, <1>15, <1>22, <1>25, <1>27, PinchGlue
  <2>2. {} \union {s} = {s}
    OBVIOUS
  <2> QED
    BY <2>1, <2>2
<1>29. PICK m31 : m31 = SetTag(m22, a1, tv)
  OBVIOUS
<1>30. /\ Tg(m22, v) = tv /\ Retagged(m22, m31, a1, Tg(m, a1) \union Tg(m, In(s, t))) /\ m31 \in MeshSet
       /\ Tg(m12, v) = tv
  <2>1. Tg(m22, v) = tv /\ Retagged(m22, m31, a1, Tg(m, a1) \union Tg(m, In(s, t))) /\ m31 \in MeshSet
    BY <1>5, <1>12, <1>14, <1>15, <1>23, <1>28, <1>29, NearTag
  <2>2. v \in Darts(m) /\ Ad(m, v) = In(s, t) /\ v[1] \notin {d[1] : d \in C}
    BY <1>0, <1>5, <1>12, <1>14, <1>15, OutsideOf
  <2>3. Tg(m12, v) = tv
    BY <1>15, <1>22, <1>23, <2>2 DEF Pinched
  <2> QED
    BY <2>1, <2>3
<1>31. PICK m32 : m32 = Glue(m31, v, a1)
  OBVIOUS
<1>32. Glued(m31, m32, v, a1)
  BY <1>16, <1>30, <1>31, GlueIs
<1>33. Pinched(m, m32, s, C, C, C)
  <2>1. t \notin {s} /\ C = {s} \union {t}
    BY <1>4, <1>5
  <2>2. Pinched(m, m32, s, C, {s} \union {t}, C)
    BY <1>5, <1>12, <1>14, <1>15, <1>28, <1>30, <1>32, <2>1, PinchGlue
  <2> QED
    BY <2>1, <2>2
<1>34. m2 = DelElt(DelElt(DelPt(m32, q), s[1]), t[1])
  <2>1. u = <<f[1], Prv(f[2])>> /\ v = <<f[1], Nxt(f[2])>> /\ u # NoAdja /\ v # NoAdja
    BY <1>13, <1>16, DartIs DEF Nx, Pv
  <2>2. /\ m.tria[s[1]].v[s[2]] = q /\ m.tria[s[1]].v[Nxt(s[2])] = p
        /\ m.tria[s[1]].adja[s[2]] = a2 /\ m.tria[t[1]].adja[t[2]] = a1
        /\ m.tria[s[1]].tag[s[2]] = Tg(m, s) /\ m.tria[t[1]].tag[t[2]] = Tg(m, t)
    BY <1>6, <1>14 DEF Vt, Ad, Nx, Tg
  <2>3. m12.tria[f[1]].tag[Prv(f[2])] = tu /\ m12.tria[f[1]].tag[Nxt(f[2])] = tv
    BY <1>25, <1>30, <2>1 DEF Tg
  <2>4. /\ m11 = AddTag([m EXCEPT !.tria[f[1]].v[f[2]] = p], <<f[1], Nxt(f[2])>>, Tg(m, t))
        /\ m12 = AddTag(m11, <<f[1], Prv(f[2])>>, Tg(m, s))
    BY <1>9, <1>17, <1>20, <2>1
  <2>5. /\ m21 = SetTag(m12, a2, m12.tria[f[1]].tag[Prv(f[2])])
        /\ m22 = Glue(m21, <<f[1], Prv(f[2])>>, a2)
        /\ m31 = SetTag(m22, a1, m12.tria[f[1]].tag[Nxt(f[2])])
        /\ m32 = Glue(m31, <<f[1], Nxt(f[2])>>, a1)
    BY <1>24, <1>26, <1>29, <1>31, <2>1, <2>3
  <2>6. Colver3(m, list) = DelElt(DelElt(DelPt(m32, q), s[1]), t[1])
    <3>1. PICK li : li = list
      OBVIOUS
    <3>2. li[1] = s /\ li[2] = f /\ li[3] = t
      BY <1>3, <1>4, <3>1
    <3>3. m11 = AddTag([m EXCEPT !.tria[li[2][1]].v[li[2][2]] = m.tria[li[1][1]].v[Nxt(li[1][2])]],
                       <<li[2][1], Nxt(li[2][2])>>, m.tria[li[3][1]].tag[li[3][2]])
      BY <2>2, <2>4, <3>2
    <3>4. m12 = AddTag(m11, <<li[2][1], Prv(li[2][2])>>, m.tria[li[1][1]].tag[li[1][2]])
      BY <2>2, <2>4, <3>2
    <3>5. m21 = SetTag(m12, m.tria[li[1][1]].adja[li[1][2]], m12.tria[li[2][1]].tag[Prv(li[2][2])])
      BY <2>2, <2>5, <3>2
    <3>6. m22 = Glue(m21, <<li[2][1], Prv(li[2][2])>>, m.tria[li[1][1]].adja[li[1][2]])
      BY <2>2, <2>5, <3>2
    <3>7. m31 = SetTag(m22, m.tria[li[3][1]].adja[li[3][2]], m12.tria[li[2][1]].tag[Nxt(li[2][2])])
      BY <2>2, <2>5, <3>2
    <3>8. m32 = Glue(m31, <<li[2][1], Nxt(li[2][2])>>, m.tria[li[3][1]].adja[li[3][2]])
      BY <2>2, <2>5, <3>2
    <3>9. Colver3(m, li) = DelElt(DelElt(DelPt(m32, m.tria[li[1][1]].v[li[1][2]]), li[1][1]), li[3][1])
      BY <3>3, <3>4, <3>5, <3>6, <3>7, <3>8, Zenon DEF Colver3
    <3> QED
      BY <2>2, <3>1, <3>2, <3>9
  <2> QED
    BY <2>6
<1>35. m2 = DelElt(DelElt(DelPt(m32, Vt(m, s)), s[1]), list[Len(list)][1])
  BY <1>1, <1>6, <1>34
<1> QED
  BY <1>2, <1>33, <1>35, EmptyOut

(* MMG2D_colver2.  No edge inside has a tag at a vertex of the boundary    *)
(* that may go.                                                            *)
LEMMA Colver2Is ==
  ASSUME NEW m, Sound(m), NEW s \in Darts(m), NEW list, Ball(m, s, list), Len(list) = 2,
         Ad(m, Pv(s)) = NoAdja, Tg(m, Nx(s)) = {},
         NEW C, C = Hole(m, s, list), NEW m2, m2 = Colver2(m, list)
  PROVE  After(m, m2, s, C)
<1>0. Solid(m) /\ m \in MeshSet
  BY DEF Sound, Solid
<1>1. PICK n, t : n = Len(list) /\ t = list[n]
  OBVIOUS
<1>2. Enough(m, s, list) /\ n = 2
  BY <1>1 DEF Enough
<1>3. PICK f : f = list[2]
  OBVIOUS
<1>4. list[1] = s /\ Ad(m, Nx(s)) = Pv(f)
  <2>1. ASSUME NEW li, li = list, n = Len(li), t = li[n]
        PROVE  li[1] = s /\ Ad(m, Nx(s)) = Pv(li[2])
    <3>1. Ball(m, s, li) /\ Enough(m, s, li)
      BY <1>2, <2>1
    <3> QED
      BY <1>0, <2>1, <3>1, BallEnds
  <2> QED
    BY <1>1, <1>3, <2>1
<1>5. Hollow(m, s, C) /\ In(s, s) = Nx(s) /\ C = {s}
  BY <1>0, <1>2, HollowBy DEF In, Hole
<1>6. PICK p, q : p = Vt(m, Nx(s)) /\ q = Vt(m, s)
  OBVIOUS
<1>7. p \in 1..NPMax
  <2>1. Nx(s) \in Darts(m)
    BY DartsTurn
  <2> QED
    BY <1>0, <1>6, <2>1, Corners
<1>8. f \in Darts(m) /\ f \in DartSet
  <2>1. 2 \in 1..Len(list)
    BY <1>1, <1>2
  <2> QED
    BY <1>0, <1>3, <2>1, MeshParts DEF Ball
<1>9. PICK m0 : m0 = [m EXCEPT !.tria[f[1]].v[f[2]] = p]
  OBVIOUS
<1>10. MovedAll(m, m0, {f}, p)
  BY <1>0, <1>7, <1>8, <1>9, OneMoved
<1>11. Pinched(m, m0, s, C, {}, {})
  <2>1. Stay(m, s, list) = {f}
    <3>1. Stay(m, s, list) = {list[l] : l \in 2..2}
      BY <1>1, <1>2 DEF Stay
    <3> QED
      BY <1>3, <3>1
  <2>2. \A e \in Darts(m) : e[1] \notin {c[1] : c \in C} => (e \in {f} <=> Vt(m, e) = Vt(m, s))
    BY <1>0, <1>2, <2>1, StayIs
  <2> QED
    BY <1>5, <1>6, <1>10, <2>2, MovedPinched
<1>12. PICK u, w : u = Ad(m, In(s, s)) /\ w = Ad(m, s)
  OBVIOUS
<1>13. u = Pv(f) /\ s \in C
  BY <1>4, <1>5, <1>12
<1>14. u \in DartSet /\ w \in Cells /\ Tg(m, s) \in SUBSET TagSet
  BY <1>5, <1>12, <1>13, FarTags
<1>15. PICK m1 : m1 = AddTag(m0, u, Tg(m, s))
  OBVIOUS
<1>16. Tagging(m0, m1, u, Tg(m, s)) /\ m1 \in MeshSet
  <2>1. m0 \in MeshSet
    BY <1>10 DEF MovedAll
  <2>2. Tagging(m0, m1, u, Tg(m, s))
    BY <1>14, <1>15, <2>1, AddTagIs DEF Cells
  <2> QED
    BY <2>2 DEF Tagging, Retri
<1>17. Pinched(m, m1, s, C, {}, C)
  <2>1. Pinched(m, m1, s, C, {}, {} \union {s})
    BY <1>5, <1>11, <1>12, <1>13, <1>16, PinchTag
  <2>2. {} \union {s} = C
    BY <1>5
  <2> QED
    BY <2>1, <2>2
<1>18. Retagged(m1, m1, w, Tg(m, w) \union Tg(m, In(s, s)))
  <2>1. Retri(m1, m1)
    BY <1>16 DEF Retri
  <2>2. w # NoAdja => Tg(m1, w) = Tg(m, w)
    <3>1. w # NoAdja => w \in Darts(m) /\ Ad(m, w) = s /\ w[1] \notin {d[1] : d \in C}
      BY <1>0, <1>5, <1>12, <1>13, OutsideOf
    <3> QED
      BY <1>13, <1>17, <3>1 DEF Pinched
  <2> QED
    BY <1>5, <2>1, <2>2 DEF Retagged
<1>19. PICK m3 : m3 = Glue(m1, u, w)
  OBVIOUS
<1>20. Glued(m1, m3, u, w)
  BY <1>14, <1>16, <1>19, GlueIs
<1>21. Pinched(m, m3, s, C, C, C)
  <2>1. Pinched(m, m3, s, C, {} \union {s}, C)
    BY <1>5, <1>12, <1>13, <1>17, <1>18, <1>20, PinchGlue
  <2>2. {} \union {s} = C
    BY <1>5
  <2> QED
    BY <2>1, <2>2
<1>22. m2 = DelElt(DelPt(m3, Vt(m, s)), s[1])
  <2>1. u = <<f[1], Prv(f[2])>> /\ u # NoAdja
    BY <1>13, <1>14, DartIs DEF Pv
  <2>2. /\ m.tria[s[1]].v[s[2]] = q /\ m.tria[s[1]].v[Nxt(s[2])] = p
        /\ m.tria[s[1]].adja[s[2]] = w
        /\ m.tria[s[1]].tag[s[2]] = Tg(m, s)
    BY <1>6, <1>12 DEF Vt, Ad, Nx, Tg
  <2>3. m1 = [m EXCEPT !.tria[f[1]].v[f[2]] = p,
                       !.tria[f[1]].tag[Prv(f[2])] = @ \union Tg(m, s)]
    BY <1>9, <1>15, <2>1 DEF AddTag
  <2> QED
    BY <1>3, <1>4, <1>6, <1>19, <2>1, <2>2, <2>3 DEF Colver2
<1> QED
  BY <1>2, <1>21, <1>22, EmptyOut

(* What MMG2D_chkcol accepts, of the ball of the vertex that may go.       *)
LEMMA ChkcolSays ==
  ASSUME NEW m, NEW s, NEW k, NEW i \in Local, s = <<k, Nxt(i)>>, NEW f \in BOOLEAN, Chkcol(m, k, i, f),
         NEW list, list = Boulet(m, s[1], s[2]), NEW open, open = Ad(m, Pv(s))
  PROVE  /\ TagsAllow(m, k, i)
         /\ \/ Wide(list, open = NoAdja) /\ BallSound(m, list, open = NoAdja, Vt(m, Nx(s)))
            \/ Len(list) = 3 /\ open # NoAdja
            \/ /\ Len(list) = 2 /\ open = NoAdja
               /\ AreaOf(m, With(m, list[2][1], list[2][2], Vt(m, Nx(s)))) > 0
<1>1. Nx(s) = <<k, Prv(i)>> /\ Pv(s) = <<k, i>> /\ s[1] = k /\ s[2] = Nxt(i)
  BY DEF Nx, Pv, Nxt, Prv, Local
<1>2. Vt(m, Nx(s)) = m.tria[k].v[Prv(i)] /\ open = m.tria[k].adja[i] /\ list = Boulet(m, k, Nxt(i))
  BY <1>1 DEF Vt, Ad
<1>3. TagsAllow(m, k, i)
  BY DEF Chkcol
<1>4. \/ Wide(list, open = NoAdja) /\ BallSound(m, list, open = NoAdja, Vt(m, Nx(s)))
      \/ Len(list) = 3 /\ open # NoAdja
      \/ /\ Len(list) = 2 /\ open = NoAdja
         /\ AreaOf(m, With(m, list[2][1], list[2][2], Vt(m, Nx(s)))) > 0
  BY <1>2, Zenon DEF Chkcol
<1> QED
  BY <1>3, <1>4

(* Edge i of triangle k is collapsed, its vertex i1 going to its vertex    *)
(* i2: the hole that its triangles leave is closed.                        *)
LEMMA CollapseSteps ==
  ASSUME Sound(mesh), NEW k \in Live(mesh.trs), NEW i \in Local, fem \in BOOLEAN, CollapseEdge(k, i),
         NEW s, s = <<k, Nxt(i)>>
  PROVE  /\ s \in Darts(mesh) /\ ~SIN(Pt(mesh, Vt(mesh, s))) /\ ~SIN(Tg(mesh, Pv(s)))
         /\ Sound(mesh') /\ \E C : Collapsible(mesh, mesh', s, C)
<1>1. PICK m, m2, list : m = mesh /\ m2 = mesh' /\ list = Boulet(mesh, s[1], s[2])
  OBVIOUS
<1>0. Solid(m) /\ m \in MeshSet /\ Sound(m)
  BY <1>1 DEF Sound, Solid
<1>2. Nx(s) = <<k, Prv(i)>> /\ Pv(s) = <<k, i>> /\ s[1] = k /\ s[2] = Nxt(i) /\ Nxt(i) \in Local
  BY DEF Nx, Pv, Nxt, Prv, Local
<1>3. s \in Darts(m)
  BY <1>1, <1>2 DEF Darts
<1>4. /\ AlongCurve(k, i) /\ Chkcol(m, k, i, fem) /\ m2 = Collapsed(m, k, i)
      /\ ~SIN(Tg(m, Pv(s)))
  BY <1>1, <1>2 DEF CollapseEdge, Tg
<1>5. PICK a : a = Ad(m, Pv(s))
  OBVIOUS
<1>6. /\ TagsAllow(m, k, i)
      /\ \/ Wide(list, a = NoAdja) /\ BallSound(m, list, a = NoAdja, Vt(m, Nx(s)))
         \/ Len(list) = 3 /\ a # NoAdja
         \/ /\ Len(list) = 2 /\ a = NoAdja
            /\ AreaOf(m, With(m, list[2][1], list[2][2], Vt(m, Nx(s)))) > 0
  BY <1>1, <1>4, <1>5, ChkcolSays
<1>7. Movable(Pt(m, Vt(m, s))) /\ ("geo" \in Pt(m, Vt(m, s)) => "geo" \in Tg(m, Pv(s)))
  BY <1>1, <1>2, <1>4 DEF AlongCurve, Movable, Pt, Vt, Tg
<1>8. Ball(m, s, list)
  BY <1>0, <1>1, <1>3, <1>7, CollapseBall
<1>9. Len(list) \in Nat
  BY <1>8 DEF Ball
<1>10. Enough(m, s, list)
  BY <1>5, <1>6, <1>9 DEF Enough, Wide
<1>11. PICK C : C = Hole(m, s, list)
  OBVIOUS
<1>12. /\ ~SIN(Pt(m, Vt(m, s)))
       /\ Pt(m, Vt(m, s)) \subseteq Pt(m, Vt(m, Nx(s)))
       /\ EDG(Pt(m, Vt(m, s))) => Tg(m, Nx(s)) = {}
  <2>1. /\ Movable(Pt(m, Vt(m, s)))
        /\ Pt(m, Vt(m, s)) \subseteq Pt(m, Vt(m, Nx(s)))
        /\ EDG(Pt(m, Vt(m, s))) => Tg(m, Nx(s)) = {}
    BY <1>0, <1>1, <1>2, <1>3, <1>4, <1>6, <1>8, <1>10, CollapseTags
  <2> QED
    BY <2>1 DEF Movable
<1>13. Roomy(m, s, C)
  <2>1. CASE Wide(list, a = NoAdja) /\ BallSound(m, list, a = NoAdja, Vt(m, Nx(s)))
    BY <1>0, <1>3, <1>5, <1>8, <1>10, <1>11, <2>1, RoomyBy
  <2>2. CASE Len(list) = 3 /\ a # NoAdja
    BY <1>0, <1>3, <1>5, <1>8, <1>11, <2>2, RoomyThree
  <2>3. CASE /\ Len(list) = 2 /\ a = NoAdja
             /\ AreaOf(m, With(m, list[2][1], list[2][2], Vt(m, Nx(s)))) > 0
    BY <1>0, <1>3, <1>5, <1>8, <1>11, <2>3, RoomyTwo
  <2> QED
    BY <1>6, <2>1, <2>2, <2>3
<1>14. After(m, m2, s, C)
  <2>1. /\ Wide(list, a = NoAdja) => m2 = Colver(m, list)
        /\ ~Wide(list, a = NoAdja) => m2 = IF Len(list) = 3 THEN Colver3(m, list) ELSE Colver2(m, list)
    <3>1. list = Boulet(m, k, Nxt(i)) /\ a = m.tria[k].adja[i]
      BY <1>1, <1>2, <1>5 DEF Ad
    <3> QED
      BY <1>4, <3>1, Zenon DEF Collapsed
  <2>2. CASE Wide(list, a = NoAdja)
    BY <1>0, <1>3, <1>8, <1>10, <1>11, <1>12, <2>1, <2>2, ColverIs
  <2>3. CASE ~Wide(list, a = NoAdja) /\ Len(list) = 3 /\ a # NoAdja
    BY <1>0, <1>3, <1>5, <1>8, <1>11, <2>1, <2>3, Colver3Is
  <2>4. CASE ~Wide(list, a = NoAdja) /\ Len(list) = 2 /\ a = NoAdja
    <3>1. m2 = Colver2(m, list)
      BY <2>1, <2>4
    <3>2. "geo" \in Pt(m, Vt(m, s))
      BY <1>0, <1>3, <1>5, <2>4, OpenIsGeo DEF Sound
    <3>3. Tg(m, Nx(s)) = {}
      BY <1>12, <3>2 DEF EDG
    <3> QED
      BY <1>0, <1>3, <1>5, <1>8, <1>11, <2>4, <3>1, <3>3, Colver2Is
  <2> QED
    BY <1>6, <2>2, <2>3, <2>4
<1>15. Collapsible(m, m2, s, C) /\ Sound(m2)
  BY <1>0, <1>1, <1>2, <1>3, <1>4, <1>6, <1>8, <1>10, <1>11, <1>13, <1>14, CollapseBy
<1> QED
  BY <1>1, <1>3, <1>4, <1>12, <1>15

-------------------------------------------------------------------------------
(* The mesh that is loaded.                                                *)

(* The darts of the mesh that is loaded.                                   *)
VtOf(e) == Vertex(e[1], e[2])
Over(e) == Across(e[1], e[2])
TagOf(e) == EdgeTag(e[1], e[2])

(* The triangles that are loaded are on three vertices each.               *)
LEMMA LoadedVertices ==
  ASSUME NEW e \in Edges
  PROVE  /\ VtOf(e) \in 1..Len(Coords) /\ VtOf(e) \in 1..NPMax
         /\ Coords[VtOf(e)] \in Int \X Int
         /\ Faces[e[1]].ref \in Nat
         /\ e \in DartSet
         /\ Nx(e) \in Edges /\ Pv(e) \in Edges /\ Nx(Nx(e)) = Pv(e) /\ Nx(Pv(e)) = e
         /\ Pv(Nx(e)) = e /\ Pv(Pv(e)) = Nx(e)
         /\ Area(Coords[VtOf(e)], Coords[VtOf(Nx(e))], Coords[VtOf(Pv(e))]) > 0
         /\ VtOf(e) # VtOf(Nx(e)) /\ VtOf(e) # VtOf(Pv(e)) /\ VtOf(Nx(e)) # VtOf(Pv(e))
         /\ Ends(e[1], e[2]) = {VtOf(Nx(e)), VtOf(Pv(e))}
<1>1. PICK n, nf : n = Len(Coords) /\ nf = Len(Faces)
  OBVIOUS
<1>2. n \in Nat /\ nf \in Nat /\ n < NPMax /\ nf < NTMax /\ NPMax \in Nat /\ NTMax \in Nat
  BY <1>1, LoadedAssumption, MeshAssumption
<1>3. PICK k \in 1..nf, i \in Local : e = <<k, i>>
  BY <1>1 DEF Edges
<1>4. Faces[k] \in [v : [1..3 -> 1..n], ref : Nat]
  <2>1. Faces \in Seq([v : [1..3 -> 1..Len(Coords)], ref : Nat])
    BY LoadedAssumption
  <2> QED
    <3>1. \A T : Faces \in Seq(T) => \A j \in 1..Len(Faces) : Faces[j] \in T
      OBVIOUS
    <3>2. Faces[k] \in [v : [1..3 -> 1..Len(Coords)], ref : Nat]
      BY <1>1, <1>3, <2>1, <3>1
    <3> QED
      BY <1>1, <3>2
<1>5. PICK w : w = Faces[k].v
  OBVIOUS
<1>6. w[1] \in 1..n /\ w[2] \in 1..n /\ w[3] \in 1..n /\ Faces[k].ref \in Nat
  BY <1>4, <1>5
<1>7. PICK P, Q, R : P = Coords[w[1]] /\ Q = Coords[w[2]] /\ R = Coords[w[3]]
  OBVIOUS
<1>8. P \in Int \X Int /\ Q \in Int \X Int /\ R \in Int \X Int
  <2>1. Coords \in Seq(Int \X Int)
    BY LoadedAssumption
  <2>2. \A j \in 1..n : Coords[j] \in Int \X Int
    BY <1>1, <2>1
  <2> QED
    BY <1>6, <1>7, <2>2
<1>9. Area(P, Q, R) > 0
  BY <1>1, <1>3, <1>5, <1>7, MeshAssumption
<1>10. /\ Area(Q, R, P) > 0 /\ Area(R, P, Q) > 0
       /\ P # Q /\ Q # R /\ R # P
  <2>1. Area(Q, R, P) = Area(P, Q, R) /\ Area(R, P, Q) = Area(Q, R, P)
    BY <1>8, AreaTurns
  <2>2. Area(P, P, R) = 0 /\ Area(Q, Q, P) = 0 /\ Area(R, R, Q) = 0
    BY <1>8, AreaTurns
  <2>3. Area(P, Q, R) \in Int
    BY <1>8, AreaTurns
  <2> QED
    BY <1>9, <2>1, <2>2, <2>3
<1>11. /\ Nx(e) \in Edges /\ Pv(e) \in Edges /\ Nx(Nx(e)) = Pv(e) /\ Nx(Pv(e)) = e
       /\ Pv(Nx(e)) = e /\ Pv(Pv(e)) = Nx(e)
  BY Around3 DEF Edges
<1>12. Nx(e) = <<k, Nxt(i)>> /\ Pv(e) = <<k, Prv(i)>>
  BY <1>3 DEF Nx, Pv
<1>13. Ends(e[1], e[2]) = {VtOf(Nx(e)), VtOf(Pv(e))}
  BY <1>3, <1>12 DEF Ends, VtOf
<1>14. e \in DartSet /\ Faces[e[1]].ref \in Nat
  <2>1. k \in 1..NTMax
    BY <1>2, <1>3
  <2> QED
    BY <1>3, <1>6, <2>1 DEF DartSet
<1>15. w[1] \in 1..NPMax /\ w[2] \in 1..NPMax /\ w[3] \in 1..NPMax
  BY <1>2, <1>6
<1>16. w[1] # w[2] /\ w[2] # w[3] /\ w[3] # w[1]
  BY <1>7, <1>10
<1>17. \/ VtOf(e) = w[1] /\ VtOf(Nx(e)) = w[2] /\ VtOf(Pv(e)) = w[3]
       \/ VtOf(e) = w[2] /\ VtOf(Nx(e)) = w[3] /\ VtOf(Pv(e)) = w[1]
       \/ VtOf(e) = w[3] /\ VtOf(Nx(e)) = w[1] /\ VtOf(Pv(e)) = w[2]
  <2>1. VtOf(e) = w[i + 1] /\ VtOf(Nx(e)) = w[Nxt(i) + 1] /\ VtOf(Pv(e)) = w[Prv(i) + 1]
    BY <1>3, <1>5, <1>12 DEF VtOf, Vertex
  <2>2. i = 0 \/ i = 1 \/ i = 2
    BY DEF Local
  <2>3. \/ i + 1 = 1 /\ Nxt(i) + 1 = 2 /\ Prv(i) + 1 = 3
        \/ i + 1 = 2 /\ Nxt(i) + 1 = 3 /\ Prv(i) + 1 = 1
        \/ i + 1 = 3 /\ Nxt(i) + 1 = 1 /\ Prv(i) + 1 = 2
    BY <2>2 DEF Nxt, Prv
  <2> QED
    BY <2>1, <2>3
<1> HIDE DEF VtOf
<1>18. /\ VtOf(e) \in 1..n /\ VtOf(e) \in 1..NPMax
       /\ Coords[VtOf(e)] \in Int \X Int
       /\ VtOf(e) # VtOf(Nx(e)) /\ VtOf(e) # VtOf(Pv(e)) /\ VtOf(Nx(e)) # VtOf(Pv(e))
  BY <1>6, <1>7, <1>8, <1>15, <1>16, <1>17
<1>19. Area(Coords[VtOf(e)], Coords[VtOf(Nx(e))], Coords[VtOf(Pv(e))]) > 0
  BY <1>7, <1>9, <1>10, <1>17
<1> QED
  BY <1>1, <1>11, <1>13, <1>14, <1>18, <1>19

(* Two triangles at most share an edge, and they see it in opposite        *)
(* directions.                                                             *)
LEMMA LoadedEdges ==
  ASSUME NEW e \in Edges, NEW f \in Edges, e[1] # f[1], Ends(e[1], e[2]) = Ends(f[1], f[2])
  PROVE  /\ VtOf(Nx(e)) = VtOf(Pv(f)) /\ VtOf(Pv(e)) = VtOf(Nx(f))
         /\ Over(e) = f /\ Over(f) = e
<1>1. \A x, y \in Edges : x[1] # y[1] /\ Ends(x[1], x[2]) = Ends(y[1], y[2])
         => VtOf(Nx(x)) = VtOf(Pv(y)) /\ VtOf(Pv(x)) = VtOf(Nx(y))
  <2>1. \A x, y \in Edges : x[1] # y[1] /\ Ends(x[1], x[2]) = Ends(y[1], y[2])
           => VtOf(Nx(x)) = VtOf(Pv(y))
    BY LoadedAssumption DEF VtOf, Nx, Pv
  <2> QED
    BY <2>1
<1>2. \A x, y, z \in Edges : /\ x[1] # y[1] /\ Ends(x[1], x[2]) = Ends(y[1], y[2])
                             /\ z[1] # y[1] /\ Ends(z[1], z[2]) = Ends(y[1], y[2])
                             => z = x
  <2> SUFFICES ASSUME NEW x \in Edges, NEW y \in Edges, NEW z \in Edges,
                      x[1] # y[1], Ends(x[1], x[2]) = Ends(y[1], y[2]),
                      z[1] # y[1], Ends(z[1], z[2]) = Ends(y[1], y[2])
               PROVE  z = x
    OBVIOUS
  <2>1. /\ VtOf(Nx(x)) = VtOf(Pv(y)) /\ VtOf(Nx(z)) = VtOf(Pv(y))
        /\ VtOf(Pv(x)) = VtOf(Nx(y)) /\ VtOf(Pv(z)) = VtOf(Nx(y))
    BY <1>1
  <2>2. x[1] = z[1]
    <3>1. SUFFICES ASSUME x[1] # z[1] PROVE FALSE
      OBVIOUS
    <3>2. VtOf(Nx(x)) = VtOf(Pv(z))
      BY <1>1, <3>1
    <3> QED
      BY <2>1, <3>2, LoadedVertices
  <2>3. x \in {z, Nx(z), Pv(z)}
    BY <2>2, Around3 DEF Edges
  <2>4. x # Nx(z)
    <3>1. SUFFICES ASSUME x = Nx(z) PROVE FALSE
      OBVIOUS
    <3>2. Nx(x) = Pv(z)
      BY <3>1, LoadedVertices
    <3> QED
      BY <2>1, <3>2, LoadedVertices
  <2>5. x # Pv(z)
    <3>1. SUFFICES ASSUME x = Pv(z) PROVE FALSE
      OBVIOUS
    <3>2. Pv(x) = Nx(z)
      BY <3>1, LoadedVertices
    <3> QED
      BY <2>1, <3>2, LoadedVertices
  <2> QED
    BY <2>3, <2>4, <2>5
<1>3. ASSUME NEW x \in Edges, NEW y \in Edges, x[1] # y[1], Ends(x[1], x[2]) = Ends(y[1], y[2])
      PROVE  Over(x) = y
  <2>1. Over(x) = CHOOSE z \in Edges : z[1] # x[1] /\ Ends(z[1], z[2]) = Ends(x[1], x[2])
    BY <1>3 DEF Over, Across
  <2>2. Over(x) \in Edges /\ Over(x)[1] # x[1] /\ Ends(Over(x)[1], Over(x)[2]) = Ends(x[1], x[2])
    BY <1>3, <2>1
  <2> QED
    BY <1>2, <1>3, <2>2
<1> QED
  BY <1>1, <1>3

(* What is across an edge, and its tags.                                   *)
LEMMA LoadedAcross ==
  ASSUME NEW e \in Edges
  PROVE  /\ Over(e) # NoAdja => /\ Over(e) \in Edges /\ Over(Over(e)) = e /\ Over(e)[1] # e[1]
                                /\ VtOf(Nx(Over(e))) = VtOf(Pv(e)) /\ VtOf(Pv(Over(e))) = VtOf(Nx(e))
                                /\ TagOf(Over(e)) = TagOf(e)
         /\ Over(e) \in DartSet \union {NoAdja}
         /\ TagOf(e) \subseteq TagSet
         /\ TagOf(e) \ {"req"} = IF Over(e) = NoAdja THEN {"geo", "bdy"}
                                 ELSE IF Faces[Over(e)[1]].ref # Faces[e[1]].ref THEN {"ref", "bdy"} ELSE {}
<1>1. ASSUME Over(e) # NoAdja
      PROVE  Over(e) \in Edges /\ Over(e)[1] # e[1] /\ Ends(Over(e)[1], Over(e)[2]) = Ends(e[1], e[2])
  <2>1. \E z \in Edges : z[1] # e[1] /\ Ends(z[1], z[2]) = Ends(e[1], e[2])
    BY <1>1 DEF Over, Across
  <2>2. Over(e) = CHOOSE z \in Edges : z[1] # e[1] /\ Ends(z[1], z[2]) = Ends(e[1], e[2])
    BY <2>1 DEF Over, Across
  <2> QED
    BY <2>1, <2>2
<1>2. ASSUME Over(e) # NoAdja
      PROVE  /\ Over(Over(e)) = e
             /\ VtOf(Nx(Over(e))) = VtOf(Pv(e)) /\ VtOf(Pv(Over(e))) = VtOf(Nx(e))
  BY <1>1, <1>2, LoadedEdges
<1>3. TagOf(e) = (IF Over(e) = NoAdja THEN {"geo", "bdy"}
                  ELSE IF Faces[e[1]].ref # Faces[Over(e)[1]].ref THEN {"ref", "bdy"} ELSE {})
                 \union (IF Ends(e[1], e[2]) \in Required THEN {"req"} ELSE {})
  BY DEF TagOf, EdgeTag, Over
<1>4. ASSUME Over(e) # NoAdja PROVE TagOf(Over(e)) = TagOf(e)
  <2>1. PICK o : o = Over(e)
    OBVIOUS
  <2>2. /\ o \in Edges /\ Over(o) = e /\ Ends(o[1], o[2]) = Ends(e[1], e[2])
        /\ e # NoAdja
    BY <1>1, <1>2, <1>4, <2>1, LoadedVertices, DartIs
  <2>3. TagOf(o) = (IF Faces[o[1]].ref # Faces[e[1]].ref THEN {"ref", "bdy"} ELSE {})
                   \union (IF Ends(o[1], o[2]) \in Required THEN {"req"} ELSE {})
    <3>1. TagOf(o) = (IF Over(o) = NoAdja THEN {"geo", "bdy"}
                      ELSE IF Faces[o[1]].ref # Faces[Over(o)[1]].ref THEN {"ref", "bdy"} ELSE {})
                     \union (IF Ends(o[1], o[2]) \in Required THEN {"req"} ELSE {})
      BY DEF TagOf, EdgeTag, Over
    <3> QED
      BY <2>2, <3>1
  <2>4. Faces[o[1]].ref # Faces[e[1]].ref <=> Faces[e[1]].ref # Faces[o[1]].ref
    OBVIOUS
  <2>5. CASE Faces[o[1]].ref # Faces[e[1]].ref
    BY <1>3, <1>4, <2>1, <2>2, <2>3, <2>5
  <2>6. CASE Faces[o[1]].ref = Faces[e[1]].ref
    BY <1>3, <1>4, <2>1, <2>2, <2>3, <2>6
  <2> QED
    BY <2>5, <2>6
<1>5. Over(e) \in DartSet \union {NoAdja}
  BY <1>1, LoadedVertices
<1>6. TagOf(e) \subseteq TagSet
  BY <1>3 DEF TagSet
<1>7. TagOf(e) \ {"req"} = IF Over(e) = NoAdja THEN {"geo", "bdy"}
                           ELSE IF Faces[Over(e)[1]].ref # Faces[e[1]].ref THEN {"ref", "bdy"} ELSE {}
  <2>1. CASE Over(e) = NoAdja
    BY <1>3, <2>1
  <2>2. CASE Over(e) # NoAdja /\ Faces[e[1]].ref # Faces[Over(e)[1]].ref
    BY <1>3, <2>2
  <2>3. CASE Over(e) # NoAdja /\ Faces[e[1]].ref = Faces[Over(e)[1]].ref
    BY <1>3, <2>3
  <2> QED
    BY <2>1, <2>2, <2>3
<1> QED
  BY <1>1, <1>2, <1>4, <1>5, <1>6, <1>7

(* The tags of the vertices that are loaded.                               *)
LEMMA LoadedTags ==
  ASSUME NEW p \in 1..Len(Coords)
  PROVE  /\ PointTag(p) \subseteq TagSet /\ Singular(p) \subseteq {"nom", "crn", "req"}
         /\ \A e \in Edges : VtOf(Nx(e)) = p \/ VtOf(Pv(e)) = p => TagOf(e) \subseteq PointTag(p)
         /\ \/ SIN(PointTag(p) \union Singular(p))
            \/ "nom" \in PointTag(p) \union Singular(p)
            \/ PointTag(p) \union Singular(p) \in Kinds
<1>1. PointTag(p) = UNION {TagOf(e) : e \in {f \in Edges : p \in Ends(f[1], f[2])}}
  BY DEF PointTag, TagOf
<1>2. ASSUME NEW e \in Edges
      PROVE  p \in Ends(e[1], e[2]) <=> VtOf(Nx(e)) = p \/ VtOf(Pv(e)) = p
  <2>1. Ends(e[1], e[2]) = {VtOf(Nx(e)), VtOf(Pv(e))}
    BY LoadedVertices
  <2> QED
    BY <2>1
<1>3. \A x \in PointTag(p) : \E e \in Edges : p \in Ends(e[1], e[2]) /\ x \in TagOf(e)
  BY <1>1
<1>4. \A e \in Edges : p \in Ends(e[1], e[2]) => TagOf(e) \subseteq PointTag(p)
  BY <1>1
<1>5. PICK ng, nr : ng = Cardinality(Linked(p, {"geo"})) /\ nr = Cardinality(Linked(p, {"ref"}))
  OBVIOUS
<1>6. \A x : IsFiniteSet(Linked(p, {x}))
  <2>1. Len(Coords) \in Nat
    BY LoadedAssumption
  <2>2. IsFiniteSet(1..Len(Coords))
    BY <2>1, FS_Interval
  <2> QED
    BY <2>2, FS_Subset DEF Linked
<1>7. ng \in Nat /\ nr \in Nat
  BY <1>5, <1>6, FS_CardinalityType
<1>8. /\ Linked(p, {"geo"}) # {} => ng # 0
      /\ Linked(p, {"ref"}) # {} => nr # 0
  BY <1>5, <1>6, FS_EmptySet
<1>9. ASSUME FirstFan(p) = Around(p), NEW x \in PointTag(p) PROVE Linked(p, {x}) # {}
  <2>1. PICK e \in Edges : p \in Ends(e[1], e[2]) /\ x \in TagOf(e)
    BY <1>3
  <2>2. /\ Ends(e[1], e[2]) = {VtOf(Nx(e)), VtOf(Pv(e))}
        /\ VtOf(Nx(e)) # VtOf(Pv(e))
        /\ Nx(e) \in Edges /\ Pv(e) \in Edges
    BY LoadedVertices
  <2>3. VtOf(Nx(e)) \in 1..Len(Coords) /\ VtOf(Pv(e)) \in 1..Len(Coords)
    BY <2>2, LoadedVertices
  <2>4. PICK q \in 1..Len(Coords) : q # p /\ Ends(e[1], e[2]) = {p, q}
    BY <2>1, <2>2, <2>3
  <2>5. EdgeTag(e[1], e[2]) \intersect {x} # {}
    BY <2>1 DEF TagOf
  <2>6. PICK c \in Around(p) : c[1] = e[1] /\ e[2] \in {Nxt(c[2]), Prv(c[2])}
    <3>1. CASE VtOf(Nx(e)) = p
      <4>1. Nx(e) \in Around(p)
        BY <2>2, <3>1 DEF Around, VtOf
      <4>2. e = <<e[1], Prv(Nx(e)[2])>> /\ Nx(e)[1] = e[1]
        BY <2>2, LoadedVertices DEF Nx, Pv
      <4> QED
        BY <4>1, <4>2
    <3>2. CASE VtOf(Pv(e)) = p
      <4>1. Pv(e) \in Around(p)
        BY <2>2, <3>2 DEF Around, VtOf
      <4>2. e = <<e[1], Nxt(Pv(e)[2])>> /\ Pv(e)[1] = e[1]
        BY <2>2, LoadedVertices DEF Nx, Pv
      <4> QED
        BY <4>1, <4>2
    <3> QED
      BY <1>2, <2>1, <3>1, <3>2
  <2> QED
    BY <1>9, <2>4, <2>5, <2>6 DEF Linked
<1>10. Singular(p) = IF ng + nr = 0 THEN {}
                     ELSE IF ng + nr > 2 THEN {"nom"}
                     ELSE IF ng = 1 /\ nr = 1 THEN {"req"}
                     ELSE IF ng + nr = 1 THEN {"crn", "req"}
                     ELSE IF Corner(p) THEN {"crn"} ELSE {}
  BY <1>5 DEF Singular
<1>11. Singular(p) \subseteq {"nom", "crn", "req"}
  BY <1>10
<1>12. PointTag(p) \subseteq {"geo", "ref", "bdy", "req"}
  <2>1. ASSUME NEW e \in Edges PROVE TagOf(e) \subseteq {"geo", "ref", "bdy", "req"}
    BY DEF TagOf, EdgeTag
  <2> QED
    BY <1>3, <2>1
<1>13. ASSUME NEW e \in Edges
       PROVE  /\ "bdy" \in TagOf(e) <=> ("geo" \in TagOf(e) \/ "ref" \in TagOf(e))
  BY DEF TagOf, EdgeTag
<1>14. "bdy" \in PointTag(p) <=> ("geo" \in PointTag(p) \/ "ref" \in PointTag(p))
  BY <1>3, <1>4, <1>13
<1>15. ASSUME FirstFan(p) = Around(p), "geo" \in PointTag(p), "ref" \in PointTag(p)
       PROVE  "nom" \in Singular(p) \/ "req" \in Singular(p)
  <2>1. ng # 0 /\ nr # 0
    BY <1>8, <1>9, <1>15
  <2>2. ng + nr > 2 \/ (ng = 1 /\ nr = 1)
    BY <1>7, <2>1
  <2>3. ng + nr # 0
    BY <1>7, <2>1
  <2> QED
    BY <1>10, <2>2, <2>3
<1>16. ASSUME ~SIN(PointTag(p) \union Singular(p)), "nom" \notin PointTag(p) \union Singular(p)
       PROVE  PointTag(p) \union Singular(p) \in Kinds
  <2>1. Singular(p) = {} /\ "req" \notin PointTag(p)
    BY <1>11, <1>16 DEF SIN
  <2>2. ~("geo" \in PointTag(p) /\ "ref" \in PointTag(p))
    <3>1. FirstFan(p) = Around(p)
      BY <1>16, LoadedAssumption DEF SIN
    <3> QED
      BY <1>15, <2>1, <3>1
  <2>3. PointTag(p) \in Kinds
    <3>1. CASE "geo" \in PointTag(p)
      <4>1. PointTag(p) = {"geo", "bdy"}
        BY <1>12, <1>14, <2>1, <2>2, <3>1
      <4> QED
        BY <4>1 DEF Kinds
    <3>2. CASE "ref" \in PointTag(p)
      <4>1. PointTag(p) = {"ref", "bdy"}
        BY <1>12, <1>14, <2>1, <2>2, <3>2
      <4> QED
        BY <4>1 DEF Kinds
    <3>3. CASE "geo" \notin PointTag(p) /\ "ref" \notin PointTag(p)
      <4>1. PointTag(p) = {}
        BY <1>12, <1>14, <2>1, <3>3
      <4> QED
        BY <4>1 DEF Kinds
    <3> QED
      BY <3>1, <3>2, <3>3
  <2> QED
    BY <2>1, <2>3
<1> QED
  BY <1>2, <1>4, <1>11, <1>12, <1>16 DEF TagSet

(* What the mesh that is loaded holds.                                     *)
LEMMA LoadedIs ==
  ASSUME NEW m, m = Loaded
  PROVE  /\ m \in MeshSet /\ Lists(m)
         /\ Live(m.pts) = 1..Len(Coords) /\ Darts(m) = Edges
         /\ \A e \in Edges : /\ Vt(m, e) = VtOf(e) /\ Tg(m, e) = TagOf(e)
                             /\ Ad(m, e) = Over(e) /\ Rf(m, e) = Faces[e[1]].ref
         /\ \A p \in 1..Len(Coords) : At(m, p) = Coords[p] /\ Pt(m, p) = PointTag(p) \union Singular(p)
<1>1. PICK n, nf : n = Len(Coords) /\ nf = Len(Faces)
  OBVIOUS
<1>2. n \in Nat /\ nf \in Nat /\ n < NPMax /\ nf < NTMax /\ NPMax \in Nat /\ NTMax \in Nat
  BY <1>1, LoadedAssumption, MeshAssumption
<1>3. "zero" \in Status /\ "nul" \in Status /\ "zero" # "live" /\ "nul" # "live"
  BY DEF Status
<1>4. m.pts = InitialPool(n, NPMax, "zero") /\ m.trs = InitialPool(nf, NTMax, "nul")
  BY <1>1 DEF Loaded
<1>5. IsPool(m.pts) /\ IsPool(m.trs)
  BY <1>2, <1>3, <1>4, InitialPoolType
<1>6. FreeListOK(m.pts, FreshList(n, NPMax)) /\ FreeListOK(m.trs, FreshList(nf, NTMax))
  BY <1>2, <1>3, <1>4, InitialPoolList
<1>7. Live(m.pts) = 1..n /\ Live(m.trs) = 1..nf
  BY <1>2, <1>4 DEF InitialPool, Live
<1>8. m.pts \in PoolSet(NPMax) /\ m.trs \in PoolSet(NTMax)
  <2>1. m.pts.max = NPMax /\ m.trs.max = NTMax
    BY <1>4 DEF InitialPool
  <2> QED
    BY <1>5, <2>1 DEF IsPool, PoolSet
<1>9. \A e \in Edges : e \in DartSet /\ VtOf(e) \in 0..NPMax /\ TagOf(e) \subseteq TagSet
                       /\ Over(e) \in DartSet \union {NoAdja} /\ Faces[e[1]].ref \in Nat
  <2> SUFFICES ASSUME NEW e \in Edges
               PROVE  e \in DartSet /\ VtOf(e) \in 0..NPMax /\ TagOf(e) \subseteq TagSet
                      /\ Over(e) \in DartSet \union {NoAdja} /\ Faces[e[1]].ref \in Nat
    OBVIOUS
  <2>1. e \in DartSet /\ VtOf(e) \in 1..NPMax /\ Faces[e[1]].ref \in Nat
    BY LoadedVertices
  <2>2. TagOf(e) \subseteq TagSet /\ Over(e) \in DartSet \union {NoAdja}
    BY LoadedAcross
  <2>3. 1..NPMax \subseteq 0..NPMax
    BY <1>2
  <2> QED
    BY <2>1, <2>2, <2>3
<1>10. \A k \in 1..nf : \A i \in Local : <<k, i>> \in Edges
  BY <1>1 DEF Edges
<1>11. ASSUME NEW k \in 1..NTMax PROVE m.tria[k] \in TriaSet
  <2>1. CASE k <= nf
    <3>1. m.tria[k] = [v    |-> [i \in Local |-> Vertex(k, i)],
                       tag  |-> [i \in Local |-> EdgeTag(k, i)],
                       ref  |-> Faces[k].ref,
                       adja |-> [i \in Local |-> Across(k, i)]]
      BY <1>1, <2>1 DEF Loaded
    <3>2. \A i \in Local : /\ Vertex(k, i) \in 0..NPMax /\ EdgeTag(k, i) \in SUBSET TagSet
                           /\ Across(k, i) \in DartSet \union {NoAdja} /\ Faces[k].ref \in Nat
      <4> SUFFICES ASSUME NEW i \in Local
                   PROVE  /\ Vertex(k, i) \in 0..NPMax /\ EdgeTag(k, i) \in SUBSET TagSet
                          /\ Across(k, i) \in DartSet \union {NoAdja} /\ Faces[k].ref \in Nat
        OBVIOUS
      <4>1. <<k, i>> \in Edges
        BY <1>2, <1>10, <2>1
      <4>2. /\ VtOf(<<k, i>>) \in 0..NPMax /\ TagOf(<<k, i>>) \subseteq TagSet
            /\ Over(<<k, i>>) \in DartSet \union {NoAdja} /\ Faces[k].ref \in Nat
        BY <1>9, <4>1
      <4> QED
        BY <4>2 DEF VtOf, TagOf, Over
    <3>3. 0 \in Local
      BY DEF Local
    <3> QED
      BY <3>1, <3>2, <3>3 DEF TriaSet
  <2>2. CASE k > nf
    <3>1. m.tria[k] = NoTria
      BY <1>1, <1>2, <2>2 DEF Loaded
    <3> QED
      BY <1>2, <3>1 DEF NoTria, TriaSet
  <2> QED
    BY <1>2, <2>1, <2>2
<1>12. ASSUME NEW p \in 1..NPMax PROVE m.point[p] \in PointSet
  <2>1. CASE p <= n
    <3>1. m.point[p] = [c |-> Coords[p], tag |-> PointTag(p) \union Singular(p)]
      BY <1>1, <2>1 DEF Loaded
    <3>2. p \in 1..Len(Coords)
      BY <1>1, <1>2, <2>1
    <3>3. Coords[p] \in Int \X Int
      <4>1. \A T : Coords \in Seq(T) => \A j \in 1..Len(Coords) : Coords[j] \in T
        OBVIOUS
      <4> QED
        BY <3>2, <4>1, LoadedAssumption
    <3>4. PointTag(p) \union Singular(p) \subseteq TagSet
      BY <3>2, LoadedTags DEF TagSet
    <3> QED
      BY <3>1, <3>3, <3>4 DEF PointSet
  <2>2. CASE p > n
    <3>1. m.point[p] = NoPoint
      BY <1>1, <1>2, <2>2 DEF Loaded
    <3> QED
      BY <3>1 DEF NoPoint, PointSet
  <2> QED
    BY <1>2, <2>1, <2>2
<1>13. m \in MeshSet
  <2>1. m.tria \in [1..NTMax -> TriaSet]
    <3>1. m.tria = [k \in 1..NTMax |-> m.tria[k]]
      BY DEF Loaded
    <3> QED
      BY <1>11, <3>1
  <2>2. m.point \in [1..NPMax -> PointSet]
    <3>1. m.point = [p \in 1..NPMax |-> m.point[p]]
      BY DEF Loaded
    <3> QED
      BY <1>12, <3>1
  <2>3. m = [pts |-> m.pts, trs |-> m.trs, point |-> m.point, tria |-> m.tria]
    BY DEF Loaded
  <2> QED
    BY <1>8, <2>1, <2>2, <2>3 DEF MeshSet
<1>14. ASSUME NEW e \in Edges
       PROVE  /\ Vt(m, e) = VtOf(e) /\ Tg(m, e) = TagOf(e)
              /\ Ad(m, e) = Over(e) /\ Rf(m, e) = Faces[e[1]].ref
  <2>1. e[1] \in 1..nf /\ e[2] \in Local
    BY <1>1 DEF Edges
  <2>2. e[1] \in 1..NTMax /\ e[1] <= nf
    BY <1>2, <2>1
  <2>3. PICK k, j : k = e[1] /\ j = e[2]
    OBVIOUS
  <2>4. m.tria[k] = [v    |-> [i \in Local |-> Vertex(k, i)],
                     tag  |-> [i \in Local |-> EdgeTag(k, i)],
                     ref  |-> Faces[k].ref,
                     adja |-> [i \in Local |-> Across(k, i)]]
    BY <1>1, <2>2, <2>3 DEF Loaded
  <2> QED
    BY <2>1, <2>3, <2>4 DEF Vt, Tg, Ad, Rf, VtOf, TagOf, Over
<1>15. ASSUME NEW p \in 1..n PROVE At(m, p) = Coords[p] /\ Pt(m, p) = PointTag(p) \union Singular(p)
  <2>1. p \in 1..NPMax /\ p <= n
    BY <1>2
  <2>2. m.point[p] = [c |-> Coords[p], tag |-> PointTag(p) \union Singular(p)]
    BY <1>1, <2>1 DEF Loaded
  <2> QED
    BY <2>2 DEF At, Pt
<1> QED
  BY <1>1, <1>6, <1>7, <1>13, <1>14, <1>15 DEF Lists, Darts, Edges

(* The mesh that is loaded is sound.                                       *)
LEMMA LoadedSound == Sound(Loaded)
<1>1. PICK m : m = Loaded
  OBVIOUS
<1>2. /\ m \in MeshSet /\ Lists(m)
      /\ Live(m.pts) = 1..Len(Coords) /\ Darts(m) = Edges
      /\ \A e \in Edges : /\ Vt(m, e) = VtOf(e) /\ Tg(m, e) = TagOf(e)
                          /\ Ad(m, e) = Over(e) /\ Rf(m, e) = Faces[e[1]].ref
      /\ \A p \in 1..Len(Coords) : At(m, p) = Coords[p] /\ Pt(m, p) = PointTag(p) \union Singular(p)
  BY <1>1, LoadedIs
<1>3. OnLive(m)
  BY <1>2, LoadedVertices DEF OnLive
<1>4. Joined(m)
  <2> SUFFICES ASSUME NEW e \in Edges, Over(e) # NoAdja
               PROVE  /\ Ad(m, e) \in Edges
                      /\ Ad(m, Ad(m, e)) = e
                      /\ Vt(m, Nx(Ad(m, e))) = Vt(m, Pv(e))
                      /\ Vt(m, Pv(Ad(m, e))) = Vt(m, Nx(e))
    BY <1>2 DEF Joined
  <2>1. PICK o : o = Over(e)
    OBVIOUS
  <2>2. /\ o \in Edges /\ Over(o) = e
        /\ VtOf(Nx(o)) = VtOf(Pv(e)) /\ VtOf(Pv(o)) = VtOf(Nx(e))
    BY <2>1, LoadedAcross
  <2>3. Nx(o) \in Edges /\ Pv(o) \in Edges /\ Nx(e) \in Edges /\ Pv(e) \in Edges
    BY <2>2, LoadedVertices
  <2> QED
    BY <1>2, <2>1, <2>2, <2>3
<1>5. Positive(m)
  <2> SUFFICES ASSUME NEW e \in Edges PROVE Twice(m, e) > 0
    BY <1>2 DEF Positive
  <2>1. Nx(e) \in Edges /\ Pv(e) \in Edges
    BY LoadedVertices
  <2>2. VtOf(e) \in 1..Len(Coords) /\ VtOf(Nx(e)) \in 1..Len(Coords) /\ VtOf(Pv(e)) \in 1..Len(Coords)
    BY <2>1, LoadedVertices
  <2>3. Twice(m, e) = Area(Coords[VtOf(e)], Coords[VtOf(Nx(e))], Coords[VtOf(Pv(e))])
    BY <1>2, <2>1, <2>2 DEF Twice
  <2> QED
    BY <2>3, LoadedVertices
<1>6. Used(m)
  <2> SUFFICES ASSUME NEW p \in 1..Len(Coords) PROVE \E e \in Edges : VtOf(e) = p
    BY <1>2 DEF Used
  <2>1. Around(p) # {}
    BY LoadedAssumption
  <2> QED
    BY <2>1 DEF Around, VtOf
<1>7. Tagged(m)
  <2> SUFFICES ASSUME NEW e \in Edges
               PROVE  /\ Ad(m, e) # NoAdja => Tg(m, Ad(m, e)) = Tg(m, e)
                      /\ Tg(m, e) \ {"req"} = KindOf(m, e)
                      /\ Tg(m, e) \subseteq Pt(m, Vt(m, Nx(e)))
                      /\ Tg(m, e) \subseteq Pt(m, Vt(m, Pv(e)))
    BY <1>2 DEF Tagged
  <2>1. Nx(e) \in Edges /\ Pv(e) \in Edges
    BY LoadedVertices
  <2>2. VtOf(Nx(e)) \in 1..Len(Coords) /\ VtOf(Pv(e)) \in 1..Len(Coords)
    BY <2>1, LoadedVertices
  <2>3. TagOf(e) \subseteq PointTag(VtOf(Nx(e))) /\ TagOf(e) \subseteq PointTag(VtOf(Pv(e)))
    BY <2>2, LoadedTags
  <2>4. Ad(m, e) # NoAdja => Tg(m, Ad(m, e)) = Tg(m, e)
    BY <1>2, LoadedAcross
  <2>5. Tg(m, e) \ {"req"} = KindOf(m, e)
    <3>1. CASE Over(e) = NoAdja
      BY <1>2, <3>1, LoadedAcross DEF KindOf
    <3>2. CASE Over(e) # NoAdja
      <4>1. Over(e) \in Edges /\ Rf(m, Over(e)) = Faces[Over(e)[1]].ref
        BY <1>2, <3>2, LoadedAcross
      <4> QED
        BY <1>2, <3>2, <4>1, LoadedAcross DEF KindOf
    <3> QED
      BY <3>1, <3>2
  <2> QED
    BY <1>2, <2>1, <2>2, <2>3, <2>4, <2>5
<1>8. Plain(m)
  BY <1>2, LoadedTags DEF Plain
<1>9. OneFan(m)
  <2> SUFFICES ASSUME NEW S \in SUBSET Edges, Closed(m, S), NEW e \in S, NEW f \in Edges,
                      VtOf(e) = VtOf(f), Movable(Pt(m, VtOf(e)))
               PROVE  f \in S
    BY <1>2 DEF OneFan
  <2>1. PICK p : p = VtOf(e)
    OBVIOUS
  <2>2. p \in 1..Len(Coords) /\ e \in Edges
    BY <2>1, LoadedVertices
  <2>3. FirstFan(p) = Around(p)
    <3>1. \A q \in 1..Len(Coords) : Pt(m, q) = PointTag(q) \union Singular(q)
      BY <1>2
    <3>2. Pt(m, p) = PointTag(p) \union Singular(p)
      BY <2>2, <3>1
    <3>3. Movable(PointTag(p) \union Singular(p))
      BY <2>1, <3>2
    <3>4. (PointTag(p) \union Singular(p)) \intersect {"nom", "crn", "req"} = {}
      BY <3>3 DEF Movable, SIN
    <3> QED
      BY <2>2, <3>4, LoadedAssumption
  <2>4. PICK B, R : B = Around(p) /\ R = S \intersect B
    OBVIOUS
  <2>5. B = {x \in Edges : VtOf(x) = p}
    BY <2>4 DEF Around, VtOf
  <2>6. ASSUME NEW x \in B, NEW y \in B, Beside(x, y) PROVE x \in R <=> y \in R
    <3>1. x \in Edges /\ y \in Edges
      BY <2>5
    <3>2. PICK u, w : u = Nx(x) /\ w = Pv(y)
      OBVIOUS
    <3>3. /\ u \in Edges /\ w \in Edges /\ Pv(u) = x /\ Nx(w) = y
      BY <3>1, <3>2, LoadedVertices
    <3>4. u[1] # w[1] /\ Ends(u[1], u[2]) = Ends(w[1], w[2])
      BY <2>6, <3>2 DEF Beside, Nx, Pv
    <3>5. Over(u) = w
      BY <3>3, <3>4, LoadedEdges
    <3>6. w # NoAdja
      BY <3>3, LoadedVertices, DartIs
    <3>7. Pv(u) \in S <=> Nx(w) \in S
      BY <1>2, <3>3, <3>5, <3>6 DEF Closed
    <3> QED
      BY <2>4, <3>3, <3>7
  <2>7. R \in SUBSET B
    BY <2>4
  <2>8. R \in {{}, B}
    <3>1. R \in Fans(p) /\ B \ R \in Fans(p)
      BY <2>4, <2>6, <2>7 DEF Fans
    <3>2. PICK x \in FirstMet(p) : TRUE
      BY <2>1, <2>2, <2>3, <2>4, <2>5 DEF FirstFan
    <3>3. ASSUME NEW y \in FirstMet(p) PROVE y = x
      <4>1. /\ x \in Edges /\ y \in Edges /\ x[1] = y[1]
            /\ VtOf(x) = p /\ VtOf(y) = p
        BY <3>2, <3>3 DEF FirstMet, Around, VtOf, Edges
      <4>2. /\ VtOf(Nx(x)) # VtOf(x) /\ VtOf(Pv(x)) # VtOf(x)
        BY <4>1, LoadedVertices
      <4>3. y \in {x, Nx(x), Pv(x)}
        BY <4>1, Around3 DEF Edges
      <4> QED
        BY <4>1, <4>2, <4>3
    <3>4. \A T \in Fans(p) : x \in T => B \subseteq T
      BY <2>3, <2>4, <3>3 DEF FirstFan
    <3>5. x \in B
      BY <2>4, <3>2 DEF FirstMet
    <3> QED
      BY <2>7, <3>1, <3>4, <3>5
  <2> QED
    BY <2>1, <2>2, <2>4, <2>5, <2>8
<1> QED
  BY <1>1, <1>2, <1>3, <1>4, <1>5, <1>6, <1>7, <1>8, <1>9 DEF Sound

-------------------------------------------------------------------------------
(* The steps of the waves and what they keep.                              *)

(* What an operator that goes through does to the mesh: five cases.        *)
HasSplit(m, m2)     == \E s, H, nn, ip : Splits(m, m2, s, H, nn, ip) /\ ~SIN(Tg(m, s))
HasCollapsed(m, m2) ==
    \E s, C : /\ Collapsible(m, m2, s, C) /\ s \in Darts(m) /\ ~SIN(Pt(m, Vt(m, s)))
              /\ fem => \E list : Ball(m, s, list) /\ NoBdyBridge(m, list, Vt(m, Nx(s)))
HasSwapped(m, m2)   ==
    \E x, y : /\ Swaps(m, m2, x, y) /\ ~SIN(Tg(m, x))
              /\ fem => ~("bdy" \in Pt(m, Vt(m, x)) /\ "bdy" \in Pt(m, Vt(m, y)))
HasMoved(m, m2)     ==
    \E p : Moves(m, m2, p) /\ Movable(Pt(m, p))

Stepped(m, m2) == \/ HasSplit(m, m2) \/ SameMesh(m, m2)
                  \/ HasCollapsed(m, m2) \/ HasSwapped(m, m2) \/ HasMoved(m, m2)

LEMMA MidIs ==
  ASSUME Sound(mesh), NEW k \in Live(mesh.trs), NEW i \in Local
  PROVE  /\ <<k, i>> \in Darts(mesh) /\ EdgeMid(k, i) \in Int \X Int
         /\ WithMid(k, i) = NewPt(mesh, EdgeMid(k, i), Tg(mesh, <<k, i>>))
<1>1. PICK m, s : m = mesh /\ s = <<k, i>>
  OBVIOUS
<1>2. s \in Darts(m) /\ Solid(m)
  BY <1>1 DEF Darts, Sound, Solid
<1>3. At(m, Vt(m, Nx(s))) \in Int \X Int /\ At(m, Vt(m, Pv(s))) \in Int \X Int
  BY <1>2, Corners, DartsTurn
<1>4. EdgeMid(k, i) = Midpoint(At(m, Vt(m, Nx(s))), At(m, Vt(m, Pv(s))))
  BY <1>1 DEF EdgeMid, At, Vt, Nx, Pv
<1>5. EdgeMid(k, i) \in Int \X Int
  BY <1>3, <1>4, MidPair
<1>6. WithMid(k, i) = NewPt(mesh, EdgeMid(k, i), Tg(mesh, <<k, i>>))
  BY DEF WithMid, Tg
<1> QED
  BY <1>1, <1>2, <1>5, <1>6

LEMMA SplitEdgeSteps ==
  ASSUME Sound(mesh), NEW k \in Live(mesh.trs), NEW i \in Local, SplitEdge(k, i)
  PROVE  Sound(mesh') /\ HasSplit(mesh, mesh') /\ short' = short /\ moves' = moves
<1>1. PICK m, m1, m2, s, ip, c : /\ m = mesh /\ m1 = WithMid(k, i) /\ m2 = mesh' /\ s = <<k, i>>
                                 /\ ip = mesh.pts.nil /\ c = EdgeMid(k, i)
  OBVIOUS
<1>2. s \in Darts(m) /\ c \in Int \X Int /\ m1 = NewPt(m, c, Tg(m, s)) /\ s[1] = k /\ s[2] = i
  BY <1>1, MidIs
<1>3. /\ ~SIN(Tg(m, s)) /\ m.pts.nil # 0 /\ SplitSound(m1, s[1], s[2], ip) /\ m1.trs.nil # 0
      /\ Ad(m1, s) # NoAdja => FirstHalf(m1, s[1], s[2], ip).trs.nil # 0
      /\ m2 = Split1b(m1, s[1], s[2], ip)
  BY <1>1, <1>2 DEF SplitEdge, CanSplit, Tg, Ad
<1>4. Sound(m2) /\ \E H, nn : Splits(m, m2, s, H, nn, ip)
  BY <1>1, <1>2, <1>3, SplitSteps
<1> QED
  BY <1>1, <1>3, <1>4 DEF HasSplit, SplitEdge

LEMMA GiveUpSplitSteps ==
  ASSUME Sound(mesh), NEW k \in Live(mesh.trs), NEW i \in Local, GiveUpSplit(k, i)
  PROVE  Sound(mesh') /\ SameMesh(mesh, mesh') /\ short' = short /\ moves' = moves
<1>1. PICK m, m2, s, c : m = mesh /\ m2 = mesh' /\ s = <<k, i>> /\ c = EdgeMid(k, i)
  OBVIOUS
<1>2. s \in Darts(m) /\ c \in Int \X Int /\ WithMid(k, i) = NewPt(m, c, Tg(m, s))
  BY <1>1, MidIs
<1>3. m.pts.nil # 0 /\ m2 = DelPt(NewPt(m, c, Tg(m, s)), m.pts.nil)
  BY <1>1, <1>2 DEF GiveUpSplit
<1>4. Sound(m2) /\ SameMesh(m, m2)
  BY <1>1, <1>2, <1>3, GiveUpSteps
<1> QED
  BY <1>1, <1>4 DEF GiveUpSplit

(* An operator that is broken off leaves a typed mesh.                     *)
LEMMA BrokenSteps ==
  ASSUME Sound(mesh), NEW k \in Live(mesh.trs), NEW i \in Local, NoVertexLeft(k, i) \/ NoSecondTria(k, i)
  PROVE  mesh' \in MeshSet /\ short' = TRUE /\ moves' = moves
<1>1. PICK m, m1, m2, s, c : m = mesh /\ m1 = WithMid(k, i) /\ m2 = mesh' /\ s = <<k, i>> /\ c = EdgeMid(k, i)
  OBVIOUS
<1>2. s \in Darts(m) /\ c \in Int \X Int /\ m1 = NewPt(m, c, Tg(m, s)) /\ s[1] = k /\ s[2] = i
  BY <1>1, MidIs
<1>3. CASE NoVertexLeft(k, i)
  <2>1. m2 = DelPt(m, m.pts.n)
    BY <1>1, <1>3 DEF NoVertexLeft
  <2>2. m2 \in MeshSet
    BY <1>1, <1>2, <2>1, LastVertexIs
  <2> QED
    BY <1>1, <1>3, <2>2 DEF NoVertexLeft
<1>4. CASE NoSecondTria(k, i)
  <2>1. /\ m.pts.nil # 0 /\ m1.trs.nil # 0
        /\ m2 = DelPt(FirstHalf(m1, s[1], s[2], m.pts.nil), m.pts.nil)
    BY <1>1, <1>2, <1>4 DEF NoSecondTria
  <2>2. m2 \in MeshSet
    BY <1>1, <1>2, <2>1, BrokenSplitIs
  <2> QED
    BY <1>1, <1>4, <2>2 DEF NoSecondTria
<1> QED
  BY <1>3, <1>4

LEMMA CollapseEdgeSteps ==
  ASSUME Sound(mesh), fem \in BOOLEAN, NEW k \in Live(mesh.trs), NEW i \in Local, CollapseEdge(k, i)
  PROVE  Sound(mesh') /\ HasCollapsed(mesh, mesh') /\ short' = short /\ moves' = moves
<1>1. PICK m, m2, s, list : m = mesh /\ m2 = mesh' /\ s = <<k, Nxt(i)>> /\ list = Boulet(mesh, s[1], s[2])
  OBVIOUS
<1>2. /\ s \in Darts(m) /\ ~SIN(Pt(m, Vt(m, s)))
      /\ Sound(m2) /\ \E C : Collapsible(m, m2, s, C)
  BY <1>1, CollapseSteps
<1>3. Nx(s) = <<k, Prv(i)>> /\ Pv(s) = <<k, i>> /\ s[1] = k /\ s[2] = Nxt(i)
  BY <1>1 DEF Nx, Pv, Nxt, Prv, Local
<1>4. /\ Movable(Pt(m, Vt(m, s))) /\ ("geo" \in Pt(m, Vt(m, s)) => "geo" \in Tg(m, Pv(s)))
      /\ Chkcol(m, k, i, fem)
  BY <1>1, <1>3 DEF CollapseEdge, AlongCurve, Movable, Pt, Vt, Tg
<1>5. Ball(m, s, list)
  BY <1>1, <1>2, <1>4, CollapseBall
<1>6. fem => NoBdyBridge(m, list, Vt(m, Nx(s)))
  <2>1. Vt(m, Nx(s)) = m.tria[k].v[Prv(i)] /\ list = Boulet(m, k, Nxt(i))
    BY <1>1, <1>3 DEF Vt
  <2> QED
    BY <1>4, <2>1, Zenon DEF Chkcol
<1>7. HasCollapsed(m, m2)
  BY <1>2, <1>5, <1>6 DEF HasCollapsed
<1> QED
  BY <1>1, <1>2, <1>7 DEF CollapseEdge

LEMMA SwapEdgeSteps ==
  ASSUME Sound(mesh), fem \in BOOLEAN, NEW k \in Live(mesh.trs), NEW i \in Local, SwapEdge(k, i)
  PROVE  Sound(mesh') /\ HasSwapped(mesh, mesh') /\ short' = short /\ moves' = moves
<1>1. PICK m, m2, x, y : m = mesh /\ m2 = mesh' /\ x = <<k, i>> /\ y = Ad(mesh, x)
  OBVIOUS
<1>2. x \in Darts(m) /\ x[1] = k /\ x[2] = i
  BY <1>1 DEF Darts
<1>3. Chkswp(m, x[1], x[2], fem) /\ m2 = Swapar(m, x[1], x[2])
  BY <1>1, <1>2 DEF SwapEdge
<1>4. Sound(m2) /\ Swaps(m, m2, x, y)
  BY <1>1, <1>2, <1>3, SwapSteps
<1>5. /\ ~SIN(Tg(m, x))
      /\ fem => ~("bdy" \in Pt(m, Vt(m, x)) /\ "bdy" \in Pt(m, Vt(m, y)))
  <2>1. PICK x1, x2 : x1 = x[1] /\ x2 = x[2]
    OBVIOUS
  <2>2. Chkswp(m, x1, x2, fem)
    BY <1>3, <2>1
  <2>3. ~SIN(m.tria[x1].tag[x2])
    BY <2>2 DEF Chkswp
  <2>4. fem => ~(/\ "bdy" \in m.point[m.tria[x1].v[x2]].tag
                 /\ "bdy" \in m.point[m.tria[m.tria[x1].adja[x2][1]].v[m.tria[x1].adja[x2][2]]].tag)
    BY <2>2 DEF Chkswp
  <2>5. y = m.tria[x1].adja[x2]
    BY <1>1, <2>1 DEF Ad
  <2>6. Tg(m, x) = m.tria[x1].tag[x2]
    BY <2>1 DEF Tg
  <2>7. Pt(m, Vt(m, x)) = m.point[m.tria[x1].v[x2]].tag
    BY <2>1 DEF Pt, Vt
  <2>8. Pt(m, Vt(m, y)) = m.point[m.tria[m.tria[x1].adja[x2][1]].v[m.tria[x1].adja[x2][2]]].tag
    BY <2>5 DEF Pt, Vt
  <2> QED
    BY <2>3, <2>4, <2>6, <2>7, <2>8, Zenon
<1>6. HasSwapped(m, m2)
  BY <1>4, <1>5 DEF HasSwapped
<1> QED
  BY <1>1, <1>4, <1>6 DEF SwapEdge

LEMMA MoveVertexSteps ==
  ASSUME Sound(mesh), moves \in Nat, NEW k \in Live(mesh.trs), NEW i \in Local, MoveVertex(k, i)
  PROVE  Sound(mesh') /\ HasMoved(mesh, mesh') /\ short' = short /\ moves' \in Nat
<1>1. PICK m, m2, s : m = mesh /\ m2 = mesh' /\ s = <<k, i>>
  OBVIOUS
<1>2. s \in Darts(mesh) /\ s[1] = k /\ s[2] = i
  BY <1>1 DEF Darts
<1>3. Sound(mesh') /\ Moves(mesh, mesh', Vt(mesh, s))
      /\ Movable(Pt(mesh, Vt(mesh, s)))
  BY <1>2, MoveSteps
<1>4. HasMoved(m, m2)
  BY <1>1, <1>3 DEF HasMoved
<1>5. moves' = moves + 1 /\ UNCHANGED short
  BY Zenon DEF MoveVertex
<1>6. moves' \in Nat /\ short' = short
  BY <1>5
<1> QED
  BY <1>1, <1>3, <1>4, <1>6

LEMMA NextSteps ==
  ASSUME IInv, Next
  PROVE  /\ IInv' /\ ~short /\ Sound(mesh)
         /\ ~short' => Sound(mesh') /\ Stepped(mesh, mesh')
<1>1. fem \in BOOLEAN /\ ops \in Nat /\ moves \in Nat /\ short \in BOOLEAN
  BY DEF IInv
<1>2. PICK k \in 1..NTMax, i \in Local :
         \/ SplitEdge(k, i) \/ GiveUpSplit(k, i)
         \/ NoVertexLeft(k, i) \/ NoSecondTria(k, i)
         \/ CollapseEdge(k, i) \/ SwapEdge(k, i) \/ MoveVertex(k, i)
  BY DEF Next
<1>3. ~short /\ k \in Live(mesh.trs)
  BY <1>2 DEF SplitEdge, GiveUpSplit, NoVertexLeft, NoSecondTria, CanSplit, CollapseEdge, SwapEdge, MoveVertex
<1>4. Sound(mesh)
  BY <1>3 DEF IInv
<1>5. ops' = ops + 1 /\ fem' = fem
  BY DEF Next
<1>6. ops' \in Nat /\ fem' \in BOOLEAN
  BY <1>1, <1>5
<1>7. /\ mesh' \in MeshSet /\ short' \in BOOLEAN /\ moves' \in Nat
      /\ ~short' => Sound(mesh') /\ Stepped(mesh, mesh')
  <2>0. Sound(mesh') => mesh' \in MeshSet
    <3>1. \A m : Sound(m) => m \in MeshSet
      BY DEF Sound
    <3> QED
      BY <3>1
  <2>1. CASE SplitEdge(k, i)
    BY <1>1, <1>3, <1>4, <2>0, <2>1, SplitEdgeSteps DEF Stepped
  <2>2. CASE GiveUpSplit(k, i)
    BY <1>1, <1>3, <1>4, <2>0, <2>2, GiveUpSplitSteps DEF Stepped
  <2>3. CASE NoVertexLeft(k, i) \/ NoSecondTria(k, i)
    BY <1>1, <1>3, <1>4, <2>0, <2>3, BrokenSteps
  <2>4. CASE CollapseEdge(k, i)
    BY <1>1, <1>3, <1>4, <2>0, <2>4, CollapseEdgeSteps DEF Stepped
  <2>5. CASE SwapEdge(k, i)
    BY <1>1, <1>3, <1>4, <2>0, <2>5, SwapEdgeSteps DEF Stepped
  <2>6. CASE MoveVertex(k, i)
    BY <1>1, <1>3, <1>4, <2>0, <2>6, MoveVertexSteps DEF Stepped
  <2> QED
    BY <1>2, <2>1, <2>2, <2>3, <2>4, <2>5, <2>6
<1>8. IInv'
  BY <1>6, <1>7 DEF IInv
<1> QED
  BY <1>3, <1>4, <1>7, <1>8

(* The inductive invariant of the waves.                                   *)
THEOREM AdaptInvariant == Spec => []IInv
<1>1. Init => IInv
  <2>1. Sound(Loaded) => Loaded \in MeshSet
    BY DEF Sound
  <2> SUFFICES ASSUME Init PROVE IInv
    OBVIOUS
  <2>2. mesh = Loaded /\ fem \in BOOLEAN /\ short = FALSE /\ ops = 0 /\ moves = 0
    BY DEF Init
  <2>3. Sound(mesh) /\ mesh \in MeshSet
    BY <2>1, <2>2, LoadedSound
  <2>4. ops \in Nat /\ moves \in Nat
    BY <2>2
  <2>5. short \in BOOLEAN
    BY <2>2, Zenon
  <2> QED
    BY <2>2, <2>3, <2>4, <2>5, Zenon DEF IInv
<1>2. IInv /\ [Next]_vars => IInv'
  <2>1. ASSUME IInv, Next PROVE IInv'
    BY <2>1, NextSteps
  <2>2. ASSUME IInv, UNCHANGED vars PROVE IInv'
    <3>1. mesh' = mesh /\ fem' = fem /\ short' = short /\ ops' = ops /\ moves' = moves
      BY <2>2 DEF vars
    <3>2. /\ mesh \in MeshSet /\ fem \in BOOLEAN /\ short \in BOOLEAN /\ ops \in Nat /\ moves \in Nat
          /\ ~short => Sound(mesh)
      BY <2>2 DEF IInv
    <3>3. /\ mesh' \in MeshSet /\ fem' \in BOOLEAN /\ short' \in BOOLEAN /\ ops' \in Nat /\ moves' \in Nat
          /\ ~short' => Sound(mesh')
      BY <3>1, <3>2, Zenon
    <3> QED
      BY <3>3 DEF IInv
  <2> QED
    BY <2>1, <2>2
<1> QED
  BY <1>1, <1>2, PTL DEF Spec

(* TypeOK: the arrays of the mesh keep their types and their sizes,        *)
(* whatever the waves do and wherever one of them is broken off.           *)
THEOREM AdaptTypeOK == Spec => []TypeOK
<1>1. IInv => TypeOK
  <2> SUFFICES ASSUME IInv PROVE TypeOK
    OBVIOUS
  <2>1. /\ mesh \in MeshSet
        /\ fem \in BOOLEAN /\ short \in BOOLEAN /\ ops \in Nat /\ moves \in Nat
    BY DEF IInv
  <2>2. IsPool(mesh.pts) /\ mesh.pts.max = NPMax /\ IsPool(mesh.trs) /\ mesh.trs.max = NTMax
    BY <2>1, MeshParts
  <2>3. mesh.point \in [1..NPMax -> PointSet] /\ mesh.tria \in [1..NTMax -> TriaSet]
    BY <2>1 DEF MeshSet
  <2>4. PointSet = [c : Int \X Int, tag : SUBSET TagSet]
    BY DEF PointSet
  <2>5. TriaSet = [v : [Local -> 0..NPMax], tag : [Local -> SUBSET TagSet], ref : Nat,
                   adja : [Local -> ((1..NTMax) \X Local) \union {NoAdja}]]
    BY DEF TriaSet, DartSet
  <2> QED
    BY <2>1, <2>2, <2>3, <2>4, <2>5, Zenon DEF TypeOK
<1> QED
  BY <1>1, AdaptInvariant, PTL

(* In terms of darts: the ends of an edge, the edges.                      *)
LEMMA EndsIs ==
  ASSUME NEW k, NEW i
  PROVE  EndsOf(k, i) = {Vt(mesh, Nx(<<k, i>>)), Vt(mesh, Pv(<<k, i>>))}
BY DEF EndsOf, Vt, Nx, Pv

LEMMA AdaptSound ==
  ASSUME IInv, ~short
  PROVE  /\ Sound(mesh) /\ Solid(mesh) /\ mesh \in MeshSet /\ Trias \X Local = Darts(mesh)
         /\ \A k \in Trias, i \in Local : <<k, i>> \in Darts(mesh) /\ <<k, i>> \in DartSet
<1>1. Sound(mesh)
  BY DEF IInv
<1>2. Solid(mesh) /\ mesh \in MeshSet
  BY <1>1 DEF Sound, Solid
<1> QED
  BY <1>1, <1>2, MeshParts DEF Trias, Darts

(* What the invariant says of the triangles and of the vertices.           *)
LEMMA MeshSays ==
  ASSUME OnLive(mesh), Joined(mesh), Tagged(mesh), Used(mesh)
  PROVE  Adjacent /\ TagsAgree /\ NoOrphan
<1>1. Adjacent
  <2> SUFFICES ASSUME NEW k \in Trias, NEW i \in Local
               PROVE  LET a == mesh.tria[k].adja[i]
                      IN  /\ mesh.tria[k].v[i] \in Live(mesh.pts)
                          /\ a # NoAdja => /\ a[1] \in Trias
                                           /\ mesh.tria[a[1]].adja[a[2]] = <<k, i>>
                                           /\ mesh.tria[a[1]].v[Nxt(a[2])] = mesh.tria[k].v[Prv(i)]
                                           /\ mesh.tria[a[1]].v[Prv(a[2])] = mesh.tria[k].v[Nxt(i)]
    BY DEF Adjacent
  <2>1. PICK m, e, a : m = mesh /\ e = <<k, i>> /\ a = Ad(mesh, <<k, i>>)
    OBVIOUS
  <2>2. e \in Darts(m)
    BY <2>1 DEF Trias, Darts
  <2>3. /\ Vt(m, e) \in Live(m.pts)
        /\ a # NoAdja => /\ a \in Darts(m) /\ Ad(m, a) = e
                         /\ Vt(m, Nx(a)) = Vt(m, Pv(e)) /\ Vt(m, Pv(a)) = Vt(m, Nx(e))
    BY <2>1, <2>2 DEF OnLive, Joined
  <2>4. a = mesh.tria[k].adja[i] /\ Vt(m, e) = mesh.tria[k].v[i]
        /\ Vt(m, Pv(e)) = mesh.tria[k].v[Prv(i)] /\ Vt(m, Nx(e)) = mesh.tria[k].v[Nxt(i)]
    BY <2>1 DEF Ad, Vt, Nx, Pv
  <2>5. /\ Ad(m, a) = mesh.tria[a[1]].adja[a[2]]
        /\ Vt(m, Nx(a)) = mesh.tria[a[1]].v[Nxt(a[2])] /\ Vt(m, Pv(a)) = mesh.tria[a[1]].v[Prv(a[2])]
    BY <2>1 DEF Ad, Vt, Nx, Pv
  <2>6. a \in Darts(m) => a[1] \in Trias
    BY <2>1 DEF Darts, Trias
  <2> QED
    BY <2>1, <2>3, <2>4, <2>5, <2>6
<1>2. TagsAgree
  <2> SUFFICES ASSUME NEW k \in Trias, NEW i \in Local
               PROVE  LET a   == mesh.tria[k].adja[i]
                          tag == mesh.tria[k].tag[i]
                      IN  /\ a # NoAdja => mesh.tria[a[1]].tag[a[2]] = tag
                          /\ tag \ {"req"} = IF a = NoAdja THEN {"geo", "bdy"}
                                             ELSE IF mesh.tria[a[1]].ref # mesh.tria[k].ref
                                             THEN {"ref", "bdy"} ELSE {}
                          /\ \A ip \in EndsOf(k, i) : tag \subseteq mesh.point[ip].tag
    BY DEF TagsAgree
  <2>1. PICK m, e, a : m = mesh /\ e = <<k, i>> /\ a = Ad(mesh, <<k, i>>)
    OBVIOUS
  <2>2. e \in Darts(m)
    BY <2>1 DEF Trias, Darts
  <2>3. /\ a # NoAdja => Tg(m, a) = Tg(m, e)
        /\ Tg(m, e) \ {"req"} = KindOf(m, e)
        /\ Tg(m, e) \subseteq Pt(m, Vt(m, Nx(e))) /\ Tg(m, e) \subseteq Pt(m, Vt(m, Pv(e)))
    BY <2>1, <2>2 DEF Tagged
  <2>4. a = mesh.tria[k].adja[i] /\ Tg(m, e) = mesh.tria[k].tag[i] /\ Rf(m, e) = mesh.tria[k].ref
    BY <2>1 DEF Ad, Tg, Rf
  <2>5. Tg(m, a) = mesh.tria[a[1]].tag[a[2]] /\ Rf(m, a) = mesh.tria[a[1]].ref
    BY <2>1 DEF Tg, Rf
  <2>6. KindOf(m, e) = IF a = NoAdja THEN {"geo", "bdy"}
                       ELSE IF Rf(m, a) # Rf(m, e) THEN {"ref", "bdy"} ELSE {}
    BY <2>1 DEF KindOf
  <2>7. \A ip \in EndsOf(k, i) : Tg(m, e) \subseteq mesh.point[ip].tag
    BY <2>1, <2>3, EndsIs DEF Pt
  <2> QED
    BY <2>3, <2>4, <2>5, <2>6, <2>7, Zenon
<1>3. NoOrphan
  <2> SUFFICES Live(mesh.pts) = UNION {{mesh.tria[k].v[i] : i \in Local} : k \in Trias}
    BY DEF NoOrphan
  <2>1. Trias \X Local = Darts(mesh)
    BY DEF Trias, Darts
  <2>3. \A k \in Trias, i \in Local : mesh.tria[k].v[i] \in Live(mesh.pts)
    <3> SUFFICES ASSUME NEW k \in Trias, NEW i \in Local PROVE mesh.tria[k].v[i] \in Live(mesh.pts)
      OBVIOUS
    <3>1. <<k, i>> \in Darts(mesh)
      BY <2>1
    <3>2. Vt(mesh, <<k, i>>) \in Live(mesh.pts)
      BY <3>1 DEF OnLive
    <3> QED
      BY <3>2 DEF Vt
  <2>4. \A p \in Live(mesh.pts) : \E k \in Trias, i \in Local : mesh.tria[k].v[i] = p
    <3> SUFFICES ASSUME NEW p \in Live(mesh.pts) PROVE \E k \in Trias, i \in Local : mesh.tria[k].v[i] = p
      OBVIOUS
    <3>1. PICK e \in Darts(mesh) : Vt(mesh, e) = p
      BY DEF Used
    <3> QED
      BY <2>1, <3>1 DEF Vt
  <2>5. PICK D, U : /\ D = {{mesh.tria[k].v[i] : i \in Local} : k \in Trias}
                    /\ U = UNION D
    OBVIOUS
  <2>6. ASSUME NEW p \in Live(mesh.pts) PROVE p \in U
    <3>1. PICK k \in Trias : \E i \in Local : mesh.tria[k].v[i] = p
      BY <2>4
    <3>2. {mesh.tria[k].v[i] : i \in Local} \in D
      BY <2>5
    <3>3. p \in {mesh.tria[k].v[i] : i \in Local}
      BY <3>1
    <3> QED
      BY <2>5, <3>2, <3>3
  <2>7. ASSUME NEW p \in U PROVE p \in Live(mesh.pts)
    <3>1. PICK V \in D : p \in V
      BY <2>5
    <3>2. PICK k \in Trias : V = {mesh.tria[k].v[i] : i \in Local}
      BY <2>5
    <3>3. PICK i \in Local : p = mesh.tria[k].v[i]
      BY <3>1, <3>2
    <3> QED
      BY <2>3, <3>3
  <2>8. U = UNION {{mesh.tria[k].v[i] : i \in Local} : k \in Trias}
    BY <2>5
  <2> QED
    BY <2>6, <2>7, <2>8
<1> QED
  BY <1>1, <1>2, <1>3

(* Adjacent: the triangles that are left are on vertices that are left,    *)
(* and what is across an edge is across it both ways, on the same vertices *)
(* in the opposite order.                                                  *)
THEOREM AdaptAdjacent == Spec => [](~short => Adjacent)
<1>1. IInv => (~short => Adjacent)
  BY AdaptSound, MeshSays DEF Sound
<1> QED
  BY <1>1, AdaptInvariant, PTL

(* TagsAgree: both triangles of an edge give it the same tags, what is     *)
(* tagged is a boundary, an interface or required, and the vertices at its *)
(* ends carry its tags.                                                    *)
THEOREM AdaptTagsAgree == Spec => []TagsAgree
<1>1. IInv => TagsAgree
  BY AdaptSound, MeshSays DEF Sound, TagsAgree
<1> QED
  BY <1>1, AdaptInvariant, PTL

(* Oriented: no operator leaves a triangle flat or inverted.               *)
THEOREM AdaptOriented == Spec => []Oriented
<1>1. IInv => Oriented
  <2> SUFFICES ASSUME IInv, ~short, NEW k \in Trias
               PROVE  AreaOf(mesh, mesh.tria[k].v) > 0
    BY DEF Oriented
  <2>1. PICK m, e : m = mesh /\ e = <<k, 0>>
    OBVIOUS
  <2>2. Solid(m) /\ e \in Darts(m) /\ e \in DartSet /\ m \in MeshSet
    <3>1. 0 \in Local
      BY DEF Local
    <3> QED
      BY <2>1, <3>1, AdaptSound
  <2>3. Nx(e) \in Darts(m) /\ Pv(e) \in Darts(m)
    BY <2>2, DartsTurn
  <2>4. Vt(m, e) \in 1..NPMax /\ Vt(m, Nx(e)) \in 1..NPMax /\ Vt(m, Pv(e)) \in 1..NPMax
    BY <2>2, <2>3, Corners
  <2>5. AreaOf(m, m.tria[e[1]].v) = Twice(m, e)
    BY <2>2, <2>4, AreaIs
  <2>6. Twice(m, e) > 0
    BY <2>2 DEF Solid, Positive
  <2> QED
    BY <2>1, <2>5, <2>6
<1> QED
  BY <1>1, AdaptInvariant, PTL

(* NoOrphan: the vertices that are left are those of the triangles.        *)
THEOREM AdaptNoOrphan == Spec => []NoOrphan
<1>1. IInv => NoOrphan
  BY AdaptSound, MeshSays DEF Sound, NoOrphan
<1> QED
  BY <1>1, AdaptInvariant, PTL

-------------------------------------------------------------------------------
(* What is singular or required is kept.                                   *)

(* The ends of an edge; the edges that are required.                       *)
Pair(m, e)  == {Vt(m, Nx(e)), Vt(m, Pv(e))}
ReqEdges(m) == {Pair(m, e) : e \in {f \in Darts(m) : "req" \in Tg(m, f)}}

(* Each required edge of a mesh is one of the other mesh.                  *)
Carried(m, m2) == \A e \in Darts(m) : "req" \in Tg(m, e) =>
                     \E g \in Darts(m2) : "req" \in Tg(m2, g) /\ Pair(m2, g) = Pair(m, e)

LEMMA ReqSame ==
  ASSUME NEW m, NEW m2, Carried(m, m2), Carried(m2, m)
  PROVE  ReqEdges(m2) = ReqEdges(m)
<1>1. ASSUME NEW a, NEW b, Carried(a, b) PROVE ReqEdges(a) \subseteq ReqEdges(b)
  <2> SUFFICES ASSUME NEW e \in Darts(a), "req" \in Tg(a, e) PROVE Pair(a, e) \in ReqEdges(b)
    BY DEF ReqEdges
  <2>1. PICK g \in Darts(b) : "req" \in Tg(b, g) /\ Pair(b, g) = Pair(a, e)
    BY <1>1 DEF Carried
  <2> QED
    BY <2>1 DEF ReqEdges
<1> QED
  BY <1>1

(* A split keeps them: the edge that is cut is not required, the other     *)
(* edges of the triangles that are cut are edges of one half.              *)
LEMMA SplitInTags ==
  ASSUME NEW m, Solid(m), NEW s, NEW H, NEW nn, NEW ip, NEW m2, Splits(m, m2, s, H, nn, ip), NEW c \in H
  PROVE  /\ Pair(m2, N(nn, c, In(s, c))) = Pair(m, In(s, c))
         /\ Tg(m2, N(nn, c, In(s, c))) = Tg(m, In(s, c))
         /\ N(nn, c, In(s, c)) \in Darts(m2) /\ In(s, c) \in Darts(m)
<1>1. Cuttable(m, s, H, nn, ip)
  BY DEF Splits
<1>2. In(s, c) \in Darts(m)
  BY <1>1, CutParts
<1>3. PICK g, h : g = N(nn, c, In(s, c)) /\ h = In(s, c)
  OBVIOUS
<1>4. Nx(g) = N(nn, c, Nx(h)) /\ Pv(g) = N(nn, c, Pv(h)) /\ g \in Darts(m2)
  BY <1>2, <1>3, NewDarts
<1>5. /\ Vt(m2, N(nn, c, c)) = Vt(m, c)
      /\ Vt(m2, N(nn, c, Col(s, c))) = Vt(m, Col(s, c))
  BY SplitVertex
<1>6. \/ Nx(h) = Col(s, c) /\ Pv(h) = c
      \/ Nx(h) = c /\ Pv(h) = Col(s, c)
  BY <1>1, <1>3, CutSides
<1>7. Vt(m2, Nx(g)) = Vt(m, Nx(h)) /\ Vt(m2, Pv(g)) = Vt(m, Pv(h))
  BY <1>4, <1>5, <1>6
<1>8. Tg(m2, g) = Tg(m, h)
  BY <1>3, SplitTags
<1> QED
  BY <1>2, <1>3, <1>4, <1>7, <1>8 DEF Pair

LEMMA SplitReq ==
  ASSUME NEW m, Sound(m), NEW s, NEW H, NEW nn, NEW ip, NEW m2, Splits(m, m2, s, H, nn, ip), ~SIN(Tg(m, s))
  PROVE  ReqEdges(m2) = ReqEdges(m)
<1>0. Solid(m) /\ Tagged(m) /\ Cuttable(m, s, H, nn, ip)
  BY DEF Sound, Solid, Splits
<1>1. ASSUME NEW c \in H PROVE "req" \notin Tg(m, c) /\ "req" \notin Tg(m2, c) /\ "req" \notin Tg(m2, N(nn, c, c))
  <2>1. s \in Darts(m) /\ (c = s \/ (c = Ad(m, s) /\ Ad(m, s) # NoAdja))
    BY <1>0 DEF Cuttable
  <2>2. Tg(m, c) = Tg(m, s)
    BY <1>0, <2>1 DEF Tagged
  <2>3. "req" \notin Tg(m, c)
    BY <2>2 DEF SIN
  <2> QED
    BY <1>0, <2>3, SplitTags
<1>2. ASSUME NEW e \in Darts(m), \A c \in H : e # c /\ e # In(s, c)
      PROVE  e \in Darts(m2) /\ Tg(m2, e) = Tg(m, e) /\ Pair(m2, e) = Pair(m, e)
  <2>1. Vt(m2, Nx(e)) = Vt(m, Nx(e)) /\ Vt(m2, Pv(e)) = Vt(m, Pv(e))
    BY <1>0, <1>2, SplitVertex
  <2>2. Tg(m2, e) = Tg(m, e)
    BY <1>0, <1>2, SplitTags
  <2>3. e \in Darts(m2)
    BY DartsStay
  <2> QED
    BY <2>1, <2>2, <2>3 DEF Pair
<1>3. Carried(m, m2)
  <2> SUFFICES ASSUME NEW e \in Darts(m), "req" \in Tg(m, e)
               PROVE  \E g \in Darts(m2) : "req" \in Tg(m2, g) /\ Pair(m2, g) = Pair(m, e)
    BY DEF Carried
  <2>1. CASE \E c \in H : e = In(s, c)
    <3>1. PICK c \in H : e = In(s, c)
      BY <2>1
    <3> QED
      BY <1>0, <3>1, SplitInTags
  <2>2. CASE \A c \in H : e # In(s, c)
    <3>1. \A c \in H : e # c
      BY <1>1
    <3> QED
      BY <1>2, <2>2, <3>1
  <2> QED
    BY <2>1, <2>2
<1>4. Carried(m2, m)
  <2> SUFFICES ASSUME NEW g \in Darts(m2), "req" \in Tg(m2, g)
               PROVE  \E e \in Darts(m) : "req" \in Tg(m, e) /\ Pair(m, e) = Pair(m2, g)
    BY DEF Carried
  <2>1. CASE g \in Darts(m)
    <3>1. \A c \in H : g # c
      BY <1>1
    <3>2. ASSUME NEW c \in H PROVE g # In(s, c)
      <4>1. Tg(m2, In(s, c)) = {}
        BY <1>0, SplitInside
      <4> QED
        BY <4>1
    <3> QED
      BY <1>2, <2>1, <3>1, <3>2
  <2>2. CASE g \notin Darts(m)
    <3>1. PICK c \in H : \E d \in {c, In(s, c), Col(s, c)} : g = N(nn, c, d)
      BY <1>0, <2>2, DartsAfter
    <3>2. g # N(nn, c, c)
      BY <1>1
    <3>3. g # N(nn, c, Col(s, c))
      <4>1. Tg(m2, N(nn, c, Col(s, c))) = {}
        BY <1>0, SplitInside
      <4> QED
        BY <4>1
    <3>4. g = N(nn, c, In(s, c))
      BY <3>1, <3>2, <3>3
    <3> QED
      BY <1>0, <3>4, SplitInTags
  <2> QED
    BY <2>1, <2>2
<1> QED
  BY <1>3, <1>4, ReqSame

(* A swap keeps them: the edge that is swapped is not required.            *)
LEMMA SwapReq ==
  ASSUME NEW m, Sound(m), NEW m2, NEW x, NEW y, Swaps(m, m2, x, y), ~SIN(Tg(m, x))
  PROVE  ReqEdges(m2) = ReqEdges(m)
<1>0. Solid(m) /\ Tagged(m)
  BY DEF Sound, Solid
<1>1. Swaps(m, m2, y, x)
  BY SwapsTurn
<1>2. "req" \notin Tg(m, x) /\ "req" \notin Tg(m, y)
  <2>1. Tg(m, y) = Tg(m, x)
    BY <1>0, SwapParts DEF Swaps, Tagged
  <2> QED
    BY <2>1 DEF SIN
<1>3. ASSUME NEW a, NEW b, Swaps(m, m2, a, b)
      PROVE  /\ Pair(m2, a) = Pair(m, Nx(b)) /\ Tg(m2, a) = Tg(m, Nx(b)) /\ Tg(m2, Nx(a)) = {}
             /\ a \in Darts(m2) /\ Nx(b) \in Darts(m)
  <2>1. /\ Nx(Nx(b)) = Pv(b) /\ Pv(Nx(b)) = b
        /\ Vt(m2, Nx(a)) = Vt(m, Nx(a)) /\ Vt(m2, Pv(a)) = Vt(m, b) /\ Vt(m, Nx(a)) = Vt(m, Pv(b))
        /\ a \in Darts(m2) /\ Nx(b) \in Darts(m)
    BY <1>0, <1>3, SwapParts
  <2>2. Tg(m2, a) = Tg(m, Nx(b)) /\ Tg(m2, Nx(a)) = {}
    BY <1>3 DEF Swaps, SwapTg
  <2> QED
    BY <2>1, <2>2 DEF Pair
<1>4. ASSUME NEW e \in Darts(m), e \notin {x, y, Nx(x), Nx(y)}
      PROVE  Pair(m2, e) = Pair(m, e) /\ Tg(m2, e) = Tg(m, e)
  BY <1>0, <1>4, SwapAside DEF Pair
<1>5. Darts(m2) = Darts(m)
  BY <1>0, SwapParts
<1>6. Carried(m, m2)
  <2> SUFFICES ASSUME NEW e \in Darts(m), "req" \in Tg(m, e)
               PROVE  \E g \in Darts(m2) : "req" \in Tg(m2, g) /\ Pair(m2, g) = Pair(m, e)
    BY DEF Carried
  <2>1. e # x /\ e # y
    BY <1>2
  <2>2. CASE e = Nx(y)
    BY <1>3, <2>2
  <2>3. CASE e = Nx(x)
    BY <1>1, <1>3, <2>3
  <2>4. CASE e # Nx(x) /\ e # Nx(y)
    BY <1>4, <1>5, <2>1, <2>4
  <2> QED
    BY <2>2, <2>3, <2>4
<1>7. Carried(m2, m)
  <2> SUFFICES ASSUME NEW g \in Darts(m2), "req" \in Tg(m2, g)
               PROVE  \E e \in Darts(m) : "req" \in Tg(m, e) /\ Pair(m, e) = Pair(m2, g)
    BY DEF Carried
  <2>1. g # Nx(x) /\ g # Nx(y)
    BY <1>1, <1>3
  <2>2. CASE g = x
    BY <1>3, <2>2
  <2>3. CASE g = y
    BY <1>1, <1>3, <2>3
  <2>4. CASE g # x /\ g # y
    BY <1>4, <1>5, <2>1, <2>4
  <2> QED
    BY <2>2, <2>3, <2>4
<1> QED
  BY <1>6, <1>7, ReqSame

(* A mesh whose triangles are the same.                                    *)
LEMMA SameReq ==
  ASSUME NEW m, NEW m2, m2.tria = m.tria, m2.trs = m.trs
  PROVE  ReqEdges(m2) = ReqEdges(m)
BY DEF ReqEdges, Pair, Darts, Vt, Tg

(* A collapse loses no tag of an edge that stays, and an edge away from    *)
(* the vertex that goes keeps its ends.                                    *)
LEMMA TagsGrow ==
  ASSUME NEW m, NEW s, NEW C, NEW m2, Solid(m), Hollow(m, s, C), After(m, m2, s, C), NEW e \in Darts(m2)
  PROVE  /\ e \in Darts(m) /\ Nx(e) \in Darts(m2) /\ Pv(e) \in Darts(m2)
         /\ Tg(m, e) \subseteq Tg(m2, e)
         /\ Vt(m, Nx(e)) # Vt(m, s) /\ Vt(m, Pv(e)) # Vt(m, s) => Pair(m2, e) = Pair(m, e)
<1>1. /\ e \in Darts(m)
      /\ \/ Ad(m, e) = NoAdja
         \/ Ad(m, e) \in Darts(m2)
         \/ \E c \in C : Ad(m, e) = c \/ Ad(m, e) = In(s, c)
  BY EdgesLeft
<1>2. Nx(e) \in Darts(m2) /\ Pv(e) \in Darts(m2)
  BY DartsTurn
<1>3. Joins(m, m2, s, C, e)
  BY DEF After
<1>4. Tg(m, e) \subseteq Tg(m2, e)
  <2>1. CASE Ad(m, e) = NoAdja \/ Ad(m, e) \in Darts(m2)
    BY <1>3, <2>1 DEF Joins
  <2>2. CASE \E c \in C : Ad(m, e) = c \/ Ad(m, e) = In(s, c)
    BY <1>3, <2>2 DEF Joins
  <2> QED
    BY <1>1, <2>1, <2>2
<1>5. Vt(m, Nx(e)) # Vt(m, s) /\ Vt(m, Pv(e)) # Vt(m, s) => Pair(m2, e) = Pair(m, e)
  BY <1>2, NewVertex DEF Pair
<1> QED
  BY <1>1, <1>2, <1>4, <1>5

LEMMA AwayFrom ==
  ASSUME NEW m, Sound(m), NEW s \in Darts(m), NEW x, x \notin Pt(m, Vt(m, s)), NEW e \in Darts(m), x \in Tg(m, e)
  PROVE  Vt(m, Nx(e)) # Vt(m, s) /\ Vt(m, Pv(e)) # Vt(m, s)
<1>1. Tg(m, e) \subseteq Pt(m, Vt(m, Nx(e))) /\ Tg(m, e) \subseteq Pt(m, Vt(m, Pv(e)))
  BY DEF Sound, Tagged
<1> QED
  BY <1>1

LEMMA CollapseReq ==
  ASSUME NEW m, Sound(m), NEW s, NEW C, NEW m2, Collapsible(m, m2, s, C), ~SIN(Pt(m, Vt(m, s)))
  PROVE  ReqEdges(m2) = ReqEdges(m)
<1>0. Solid(m) /\ Hollow(m, s, C) /\ After(m, m2, s, C) /\ s \in Darts(m) /\ Joined(m) /\ Tagged(m)
  BY DEF Sound, Solid, Collapsible, Hollow
<1>1. "req" \notin Pt(m, Vt(m, s))
  BY DEF SIN
<1>2. ASSUME NEW e \in Darts(m), "req" \in Tg(m, e)
      PROVE  Vt(m, Nx(e)) # Vt(m, s) /\ Vt(m, Pv(e)) # Vt(m, s)
  BY <1>0, <1>1, <1>2, AwayFrom
<1>3. ASSUME NEW c \in C, NEW d \in {In(s, c), Col(s, c)} PROVE "req" \notin Tg(m, d)
  <2>1. c \in Darts(m) /\ d \in Darts(m) /\ Vt(m, c) = Vt(m, s)
    BY <1>0, HollowParts
  <2>2. d = Nx(c) \/ d = Pv(c)
    BY <1>3 DEF In, Col
  <2>3. Pv(d) = c \/ Nx(d) = c
    BY <2>1, <2>2, DartsTurn
  <2> QED
    BY <1>2, <2>1, <2>3
<1>4. ASSUME NEW c \in C, NEW u, u = Ad(m, In(s, c))
      PROVE  /\ c \in Darts(m) /\ u \in Darts(m2) /\ Ad(m, u) = In(s, c)
             /\ Tg(m2, u) = Tg(m, u) \union Tg(m, c) /\ Tg(m, u) = Tg(m, In(s, c))
             /\ Pair(m2, u) = Pair(m, c)
  <2>1. u \in Darts(m2) /\ u # NoAdja /\ Ad(m, u) = In(s, c)
    BY <1>0, <1>4, Outside
  <2>2. Tg(m2, u) = Tg(m, u) \union Tg(m, c)
    BY <1>0, <1>4, GluedOver
  <2>3. Vt(m2, Nx(u)) = Vt(m, Nx(c)) /\ Vt(m2, Pv(u)) = Vt(m, Pv(c))
    BY <1>0, <1>4, EndsPast
  <2>4. c \in Darts(m) /\ In(s, c) \in Darts(m)
    BY <1>0, HollowParts
  <2>5. Tg(m, u) = Tg(m, In(s, c))
    BY <1>0, <1>4, <2>1, <2>4 DEF Tagged
  <2> QED
    BY <2>1, <2>2, <2>3, <2>4, <2>5 DEF Pair
<1>5. Carried(m, m2)
  <2> SUFFICES ASSUME NEW e \in Darts(m), "req" \in Tg(m, e)
               PROVE  \E g \in Darts(m2) : "req" \in Tg(m2, g) /\ Pair(m2, g) = Pair(m, e)
    BY DEF Carried
  <2>1. CASE e \in Darts(m2)
    BY <1>0, <1>2, <2>1, TagsGrow
  <2>2. CASE e \notin Darts(m2)
    <3>1. PICK c \in C : e[1] = c[1]
      BY <1>0, <2>2 DEF After, Darts
    <3>2. e \in {c, In(s, c), Col(s, c)}
      BY <1>0, <3>1, HollowParts
    <3>3. e = c
      BY <1>3, <3>2
    <3>4. PICK u : u = Ad(m, In(s, c))
      OBVIOUS
    <3> QED
      BY <1>4, <3>3, <3>4
  <2> QED
    BY <2>1, <2>2
<1>6. Carried(m2, m)
  <2> SUFFICES ASSUME NEW g \in Darts(m2), "req" \in Tg(m2, g)
               PROVE  \E e \in Darts(m) : "req" \in Tg(m, e) /\ Pair(m, e) = Pair(m2, g)
    BY DEF Carried
  <2>1. CASE "req" \in Tg(m, g)
    <3>1. g \in Darts(m)
      BY <1>0, TagsGrow
    <3>2. Vt(m, Nx(g)) # Vt(m, s) /\ Vt(m, Pv(g)) # Vt(m, s)
      BY <1>2, <2>1, <3>1
    <3>3. Pair(m2, g) = Pair(m, g)
      BY <1>0, <3>2, TagsGrow
    <3> QED
      BY <2>1, <3>1, <3>3
  <2>2. CASE "req" \notin Tg(m, g)
    <3>1. /\ g \in Darts(m)
          /\ \/ Ad(m, g) = NoAdja
             \/ Ad(m, g) \in Darts(m2)
             \/ \E c \in C : Ad(m, g) = c \/ Ad(m, g) = In(s, c)
      BY <1>0, EdgesLeft
    <3>2. Joins(m, m2, s, C, g)
      BY <1>0 DEF After
    <3>3. ~(Ad(m, g) = NoAdja \/ Ad(m, g) \in Darts(m2))
      BY <2>2, <3>2 DEF Joins
    <3>4. PICK c \in C : Ad(m, g) = c \/ Ad(m, g) = In(s, c)
      BY <3>1, <3>3
    <3>5. Ad(m, g) # c
      <4>1. SUFFICES ASSUME Ad(m, g) = c PROVE FALSE
        OBVIOUS
      <4>2. Tg(m2, g) = Tg(m, g) \union Tg(m, In(s, c))
        BY <3>2, <4>1 DEF Joins
      <4> QED
        BY <1>3, <2>2, <4>2
    <3>6. Ad(m, g) = In(s, c) /\ Tg(m2, g) = Tg(m, g) \union Tg(m, c)
      BY <3>2, <3>4, <3>5 DEF Joins
    <3>7. g = Ad(m, In(s, c))
      <4>1. In(s, c) \in Darts(m)
        BY <1>0, HollowParts
      <4>2. Ad(m, g) # NoAdja
        BY <3>3
      <4> QED
        BY <1>0, <3>1, <3>6, <4>2 DEF Joined
    <3>8. c \in Darts(m) /\ Pair(m2, g) = Pair(m, c)
      BY <1>4, <3>7
    <3> QED
      BY <2>2, <3>6, <3>8
  <2> QED
    BY <2>1, <2>2
<1> QED
  BY <1>5, <1>6, ReqSame

(* The vertices that are fixed stay, where they are.                       *)
Held(m, m2) ==
    \A p \in Live(m.pts) : Pt(m, p) \intersect {"crn", "req", "nom"} # {} =>
        p \in Live(m2.pts) /\ At(m2, p) = At(m, p) /\ Pt(m2, p) = Pt(m, p)

LEMMA StepHolds ==
  ASSUME NEW m, Sound(m), NEW m2, m2 \in MeshSet, Stepped(m, m2)
  PROVE  Held(m, m2) /\ ReqEdges(m2) = ReqEdges(m)
<1>1. CASE HasSplit(m, m2)
  <2>1. PICK s, H, nn, ip : Splits(m, m2, s, H, nn, ip) /\ ~SIN(Tg(m, s))
    BY <1>1 DEF HasSplit
  <2>2. ReqEdges(m2) = ReqEdges(m)
    BY <2>1, SplitReq
  <2> QED
    BY <2>1, <2>2 DEF Splits, Held
<1>2. CASE SameMesh(m, m2)
  BY <1>2, SameReq DEF SameMesh, Held
<1>3. CASE HasCollapsed(m, m2)
  <2>1. PICK s, C : Collapsible(m, m2, s, C) /\ ~SIN(Pt(m, Vt(m, s)))
    BY <1>3 DEF HasCollapsed
  <2>2. ReqEdges(m2) = ReqEdges(m)
    BY <2>1, CollapseReq
  <2>3. Movable(Pt(m, Vt(m, s))) /\ After(m, m2, s, C)
    BY <2>1 DEF Collapsible
  <2>4. \A p \in Live(m.pts) : Pt(m, p) \intersect {"crn", "req", "nom"} # {} => p # Vt(m, s)
    BY <2>3 DEF Movable, SIN
  <2> QED
    BY <2>2, <2>3, <2>4 DEF After, Held
<1>4. CASE HasSwapped(m, m2)
  <2>1. PICK x, y : Swaps(m, m2, x, y) /\ ~SIN(Tg(m, x))
    BY <1>4 DEF HasSwapped
  <2>2. ReqEdges(m2) = ReqEdges(m)
    BY <2>1, SwapReq
  <2> QED
    BY <2>1, <2>2 DEF Swaps, Held
<1>5. CASE HasMoved(m, m2)
  <2>1. PICK p : Moves(m, m2, p) /\ Movable(Pt(m, p))
    BY <1>5 DEF HasMoved
  <2>2. ReqEdges(m2) = ReqEdges(m)
    BY <2>1, SameReq DEF Moves
  <2>3. Live(m.pts) \subseteq 1..NPMax
    BY MeshParts DEF Sound
  <2>4. \A q \in Live(m.pts) : Pt(m, q) \intersect {"crn", "req", "nom"} # {} => q # p
    BY <2>1 DEF Movable, SIN
  <2>5. m2.pts = m.pts
    BY <2>1 DEF Moves
  <2> QED
    BY <2>1, <2>2, <2>3, <2>4, <2>5 DEF Moves, Held
<1> QED
  BY <1>1, <1>2, <1>3, <1>4, <1>5 DEF Stepped

LEMMA SamePoint ==
  ASSUME NEW m \in MeshSet, NEW m2 \in MeshSet, NEW p \in 1..NPMax, At(m2, p) = At(m, p), Pt(m2, p) = Pt(m, p)
  PROVE  m2.point[p] = m.point[p]
<1>1. m.point[p] \in PointSet /\ m2.point[p] \in PointSet
  BY DEF MeshSet
<1>2. \A a, b \in PointSet : a.c = b.c /\ a.tag = b.tag => a = b
  BY DEF PointSet
<1> QED
  BY <1>1, <1>2 DEF At, Pt

(* SingularKept: a corner, a vertex that is required or non-manifold stays *)
(* where it is with its tags, and a required edge stays, whatever the      *)
(* waves do around them.                                                   *)
THEOREM AdaptSingularKept == Spec => SingularKept
<1>1. IInv /\ [Next]_vars =>
        [~short' => /\ \A ip \in Fixed : mesh.point[ip]' = mesh.point[ip]
                    /\ Fixed \subseteq Live(mesh.pts)'
                    /\ RequiredEdges' = RequiredEdges]_mesh
  <2> SUFFICES ASSUME IInv, Next, ~short'
               PROVE  /\ \A ip \in Fixed : mesh.point[ip]' = mesh.point[ip]
                      /\ Fixed \subseteq Live(mesh.pts)'
                      /\ RequiredEdges' = RequiredEdges
    BY DEF vars
  <2>1. Sound(mesh) /\ Sound(mesh') /\ Stepped(mesh, mesh')
    BY NextSteps
  <2>2. PICK m, m2 : m = mesh /\ m2 = mesh'
    OBVIOUS
  <2>3. m \in MeshSet /\ m2 \in MeshSet /\ Sound(m) /\ Stepped(m, m2)
    BY <2>1, <2>2 DEF Sound
  <2>4. Held(m, m2) /\ ReqEdges(m2) = ReqEdges(m)
    BY <2>3, StepHolds
  <2>5. RequiredEdges = ReqEdges(m)
    BY <2>2 DEF RequiredEdges, EndsOf, Trias, ReqEdges, Pair, Darts, Vt, Tg, Nx, Pv
  <2>6. RequiredEdges' = ReqEdges(m2)
    BY <2>2 DEF RequiredEdges, EndsOf, Trias, ReqEdges, Pair, Darts, Vt, Tg, Nx, Pv
  <2>7. Fixed = {ip \in Live(m.pts) : Pt(m, ip) \intersect {"crn", "req", "nom"} # {}}
    BY <2>2 DEF Fixed, Pt
  <2>8. Live(m.pts) \subseteq 1..NPMax
    BY <2>3, MeshParts
  <2>9. ASSUME NEW ip \in Fixed PROVE m2.point[ip] = m.point[ip] /\ ip \in Live(m2.pts)
    <3>1. ip \in Live(m2.pts) /\ At(m2, ip) = At(m, ip) /\ Pt(m2, ip) = Pt(m, ip) /\ ip \in 1..NPMax
      BY <2>4, <2>7, <2>8 DEF Held
    <3> QED
      BY <2>3, <3>1, SamePoint
  <2> QED
    BY <2>2, <2>4, <2>5, <2>6, <2>9
<1> QED
  BY <1>1, AdaptInvariant, PTL DEF Spec, SingularKept

-------------------------------------------------------------------------------
(* No edge comes to span the domain.                                       *)

(* An edge inside the domain between two vertices of its boundaries.       *)
Bridge(m, e) == /\ "bdy" \notin Tg(m, e)
                /\ "bdy" \in Pt(m, Vt(m, Nx(e))) /\ "bdy" \in Pt(m, Vt(m, Pv(e)))
Spans(m)     == {Pair(m, e) : e \in {f \in Darts(m) : Bridge(m, f)}}

LEMMA SpansLess ==
  ASSUME NEW m, NEW m2,
         \A g \in Darts(m2) : Bridge(m2, g) => \E e \in Darts(m) : Bridge(m, e) /\ Pair(m, e) = Pair(m2, g)
  PROVE  Spans(m2) \subseteq Spans(m)
BY DEF Spans

(* MMG2D_chkswp with info.fem: the edge that a swap creates is not one.    *)
LEMMA SwapSpans ==
  ASSUME NEW m, Sound(m), NEW m2, Sound(m2), NEW x, NEW y, Swaps(m, m2, x, y),
         ~("bdy" \in Pt(m, Vt(m, x)) /\ "bdy" \in Pt(m, Vt(m, y)))
  PROVE  Spans(m2) \subseteq Spans(m)
<1>0. Solid(m) /\ Solid(m2)
  BY DEF Sound, Solid
<1>1. Swaps(m, m2, y, x)
  BY SwapsTurn
<1>2. \A p \in Live(m2.pts) : Pt(m2, p) = Pt(m, p)
  BY DEF Swaps
<1>3. ASSUME NEW a, NEW b, Swaps(m, m2, a, b)
      PROVE  /\ Pair(m2, a) = Pair(m, Nx(b)) /\ Tg(m2, a) = Tg(m, Nx(b)) /\ Nx(b) \in Darts(m)
             /\ Pair(m2, Nx(a)) = {Vt(m, a), Vt(m, b)}
             /\ Vt(m2, Nx(a)) = Vt(m, Pv(b)) /\ Vt(m2, Pv(a)) = Vt(m, b)
             /\ Nx(Nx(b)) = Pv(b) /\ Pv(Nx(b)) = b
  <2>1. /\ Nx(Nx(b)) = Pv(b) /\ Pv(Nx(b)) = b /\ Nx(Nx(a)) = Pv(a) /\ Pv(Nx(a)) = a
        /\ Vt(m2, Nx(a)) = Vt(m, Nx(a)) /\ Vt(m2, Pv(a)) = Vt(m, b) /\ Vt(m, Nx(a)) = Vt(m, Pv(b))
        /\ Vt(m2, a) = Vt(m, a) /\ Nx(b) \in Darts(m)
    BY <1>0, <1>3, SwapParts
  <2>2. Tg(m2, a) = Tg(m, Nx(b))
    BY <1>3 DEF Swaps, SwapTg
  <2> QED
    BY <2>1, <2>2 DEF Pair
<1>4. ASSUME NEW g \in Darts(m2), Bridge(m2, g)
      PROVE  \E e \in Darts(m) : Bridge(m, e) /\ Pair(m, e) = Pair(m2, g)
  <2>1. \A p \in Pair(m2, g) : "bdy" \in Pt(m, p)
    <3>1. Nx(g) \in Darts(m2) /\ Pv(g) \in Darts(m2)
      BY DartsTurn
    <3>2. Vt(m2, Nx(g)) \in Live(m2.pts) /\ Vt(m2, Pv(g)) \in Live(m2.pts)
      BY <1>0, <3>1, Corners
    <3> QED
      BY <1>2, <1>4, <3>2 DEF Bridge, Pair
  <2>2. ASSUME NEW a, NEW b, Swaps(m, m2, a, b), g = a
        PROVE  \E e \in Darts(m) : Bridge(m, e) /\ Pair(m, e) = Pair(m2, g)
    <3>1. Pair(m2, g) = Pair(m, Nx(b)) /\ Tg(m2, g) = Tg(m, Nx(b)) /\ Nx(b) \in Darts(m)
      BY <1>3, <2>2
    <3>2. Bridge(m, Nx(b))
      BY <1>4, <2>1, <3>1 DEF Bridge, Pair
    <3> QED
      BY <3>1, <3>2
  <2>3. g # Nx(x) /\ g # Nx(y)
    <3>1. Pair(m2, Nx(x)) = {Vt(m, x), Vt(m, y)}
      BY <1>3
    <3>2. Pair(m2, Nx(y)) = {Vt(m, x), Vt(m, y)}
      BY <1>1, <1>3
    <3> QED
      BY <2>1, <3>1, <3>2
  <2>4. CASE g \notin {x, y}
    <3>1. g \in Darts(m) /\ g \notin {x, y, Nx(x), Nx(y)}
      BY <1>0, <2>3, <2>4, SwapParts
    <3>2. Pair(m2, g) = Pair(m, g) /\ Tg(m2, g) = Tg(m, g)
      BY <1>0, <3>1, SwapAside DEF Pair
    <3>3. Bridge(m, g)
      BY <1>4, <2>1, <3>2 DEF Bridge, Pair
    <3> QED
      BY <3>1, <3>2, <3>3
  <2> QED
    BY <1>1, <2>2, <2>4
<1> QED
  BY <1>4, SpansLess

(* What is turned around in the ball of a vertex: an edge inside it is on  *)
(* the boundary of the domain, is one that goes, or is the edge after a    *)
(* triangle of the list that is not the last.                              *)
LEMMA BallEdge ==
  ASSUME NEW m, Sound(m), NEW s \in Darts(m), NEW list, Ball(m, s, list),
         NoBdyBridge(m, list, Vt(m, Nx(s))), "bdy" \in Pt(m, Vt(m, Nx(s))),
         NEW d \in Darts(m), Vt(m, d) = Vt(m, s), d # s, NEW e \in Darts(m), Ad(m, e) = Pv(d), e # NoAdja,
         "bdy" \in Pt(m, Vt(m, Nx(d)))
  PROVE  "bdy" \in Tg(m, e)
<1>0. Solid(m) /\ Joined(m)
  BY DEF Sound, Solid
<1>1. PICK l \in 1..Len(list) : list[l] = d
  BY DEF Ball
<1>2. l # 1 /\ Len(list) \in Nat
  <2>1. list[1] = s
    BY DEF Ball, Run
  <2> QED
    BY <1>1, <2>1 DEF Ball
<1>3. PICK j, b : j = l - 1 /\ b = list[j]
  OBVIOUS
<1>4. j \in 1..(Len(list) - 1) /\ j + 1 = l
  BY <1>1, <1>2, <1>3
<1>5. /\ b \in Darts(m) /\ Ad(m, Pv(d)) = Nx(b) /\ Vt(m, Pv(b)) = Vt(m, Nx(d))
  <2>1. \A f : f = list[j + 1] => /\ b \in Darts(m) /\ Ad(m, Pv(f)) = Nx(b)
                                  /\ Vt(m, Pv(b)) = Vt(m, Nx(f))
    BY <1>0, <1>3, <1>4, BallNext
  <2> QED
    BY <1>1, <1>4, <2>1
<1>6. e = Nx(b)
  <2>1. Pv(d) \in Darts(m) /\ Pv(d) # NoAdja
    <3>1. Pv(d) \in Darts(m)
      BY DartsTurn
    <3> QED
      BY <1>0, <3>1, MeshParts, DartIs DEF Solid
  <2>2. Ad(m, Pv(d)) = e
    BY <1>0, <2>1 DEF Joined
  <2> QED
    BY <1>5, <2>2
<1>7. FarEnd(m, list[j]) = Vt(m, Pv(b))
  BY <1>3 DEF FarEnd, Vt, Pv
<1>8. m.tria[list[j][1]].tag[Nxt(list[j][2])] = Tg(m, Nx(b))
  BY <1>3 DEF Tg, Nx
<1>9. "bdy" \in m.point[FarEnd(m, list[j])].tag
  BY <1>5, <1>7 DEF Pt
<1>10. "bdy" \in m.point[Vt(m, Nx(s))].tag
  BY DEF Pt
<1>11. "bdy" \in m.tria[list[j][1]].tag[Nxt(list[j][2])]
  BY <1>4, <1>9, <1>10 DEF NoBdyBridge
<1> QED
  BY <1>6, <1>8, <1>11

(* MMG2D_chkcol with info.fem: no edge that a collapse moves is one.       *)
LEMMA CollapseSpans ==
  ASSUME NEW m, Sound(m), NEW m2, Sound(m2), NEW s, NEW C, Collapsible(m, m2, s, C),
         NEW list, Ball(m, s, list), NoBdyBridge(m, list, Vt(m, Nx(s)))
  PROVE  Spans(m2) \subseteq Spans(m)
<1>0. /\ Solid(m) /\ Solid(m2) /\ Joined(m) /\ Tagged(m)
      /\ Hollow(m, s, C) /\ After(m, m2, s, C) /\ s \in Darts(m)
  BY DEF Sound, Solid, Collapsible, Hollow
<1>1. ASSUME NEW g \in Darts(m2), Bridge(m2, g)
      PROVE  \E e \in Darts(m) : Bridge(m, e) /\ Pair(m, e) = Pair(m2, g)
  <2>1. /\ g \in Darts(m) /\ Nx(g) \in Darts(m2) /\ Pv(g) \in Darts(m2) /\ Tg(m, g) \subseteq Tg(m2, g)
        /\ Vt(m, Nx(g)) # Vt(m, s) /\ Vt(m, Pv(g)) # Vt(m, s) => Pair(m2, g) = Pair(m, g)
    BY <1>0, TagsGrow
  <2>2. \A e \in {Nx(g), Pv(g)} : "bdy" \in Pt(m, Vt(m2, e))
    <3>1. Vt(m2, Nx(g)) \in Live(m2.pts) /\ Vt(m2, Pv(g)) \in Live(m2.pts)
      BY <1>0, <2>1, Corners
    <3> QED
      BY <1>0, <1>1, <3>1 DEF Bridge, After
  <2>3. "bdy" \notin Tg(m, g)
    BY <1>1, <2>1 DEF Bridge
  <2>4. PICK f : f = Ad(m, g)
    OBVIOUS
  <2>5. f \in Darts(m) /\ f # NoAdja /\ Ad(m, f) = g /\ Tg(m, f) = Tg(m, g)
        /\ Vt(m, Nx(f)) = Vt(m, Pv(g)) /\ Vt(m, Pv(f)) = Vt(m, Nx(g))
    <3>1. Ad(m, g) # NoAdja
      BY <1>0, <2>1, <2>3, EdgeKinds
    <3> QED
      BY <1>0, <2>1, <2>4, <3>1 DEF Joined, Tagged
  <2>6. /\ Nx(g) \in Darts(m) /\ Pv(g) \in Darts(m) /\ Nx(f) \in Darts(m) /\ Pv(f) \in Darts(m)
        /\ Pv(Nx(g)) = g /\ Nx(Pv(g)) = g /\ Pv(Nx(f)) = f /\ Nx(Pv(f)) = f
        /\ Nx(Nx(g)) = Pv(g) /\ Pv(Pv(g)) = Nx(g) /\ Nx(Nx(f)) = Pv(f)
    BY <2>1, <2>5, DartsTurn
  <2>7. g # NoAdja
    BY <1>0, <2>1, MeshParts, DartIs DEF Solid
  <2>8. s \in C /\ \A c \in C : c[1] # g[1]
    <3>1. s \in C
      BY <1>0 DEF Hollow
    <3> QED
      BY <1>0, <3>1, EdgesLeft
  <2>9. Vt(m, Pv(g)) # Vt(m, s)
    <3>1. SUFFICES ASSUME Vt(m, Pv(g)) = Vt(m, s) PROVE FALSE
      OBVIOUS
    <3>2. Vt(m2, Pv(g)) = Vt(m, Nx(s))
      BY <1>0, <2>1, <3>1, NewVertex
    <3>3. Vt(m2, Nx(g)) = Vt(m, Nx(g))
      <4>1. Vt(m, Nx(g)) # Vt(m, Pv(g))
        BY <1>0, <2>1, Corners
      <4> QED
        BY <1>0, <2>1, <3>1, <4>1, NewVertex
    <3>4. PICK d : d = Nx(f)
      OBVIOUS
    <3>5. d \in Darts(m) /\ Vt(m, d) = Vt(m, s) /\ Pv(d) = f /\ Nx(d) = Pv(f)
      BY <2>5, <2>6, <3>1, <3>4
    <3>6. d # s
      <4>1. SUFFICES ASSUME d = s PROVE FALSE
        OBVIOUS
      <4>2. Ad(m, Pv(s)) = g
        BY <2>5, <3>5, <4>1
      <4>3. PICK t \in Darts(m) : C = {s, t} /\ Ad(m, Pv(s)) = Nx(t)
        BY <1>0, <2>7, <4>2 DEF Hollow
      <4>4. g[1] = t[1]
        BY <4>2, <4>3, DartsTurn
      <4> QED
        BY <2>8, <4>3, <4>4
    <3>7. "bdy" \in Pt(m, Vt(m, Nx(s))) /\ "bdy" \in Pt(m, Vt(m, Nx(d)))
      BY <2>2, <2>5, <3>2, <3>3, <3>5
    <3>8. "bdy" \in Tg(m, g)
      BY <1>0, <2>1, <2>4, <2>7, <3>5, <3>6, <3>7, BallEdge
    <3> QED
      BY <2>3, <3>8
  <2>10. Vt(m, Nx(g)) # Vt(m, s)
    <3>1. SUFFICES ASSUME Vt(m, Nx(g)) = Vt(m, s) PROVE FALSE
      OBVIOUS
    <3>2. Vt(m2, Nx(g)) = Vt(m, Nx(s))
      BY <1>0, <2>1, <3>1, NewVertex
    <3>3. Vt(m2, Pv(g)) = Vt(m, Pv(g))
      BY <1>0, <2>1, <2>9, NewVertex
    <3>4. PICK d : d = Nx(g)
      OBVIOUS
    <3>5. d \in Darts(m) /\ Vt(m, d) = Vt(m, s) /\ Pv(d) = g /\ Nx(d) = Pv(g)
      BY <2>6, <3>1, <3>4
    <3>6. d # s
      <4>1. Nx(g)[1] = g[1]
        BY <2>1, DartsTurn
      <4> QED
        BY <2>8, <3>4, <4>1
    <3>7. "bdy" \in Pt(m, Vt(m, Nx(s))) /\ "bdy" \in Pt(m, Vt(m, Nx(d)))
      BY <2>2, <3>2, <3>3, <3>5
    <3>8. "bdy" \in Tg(m, f)
      BY <1>0, <2>5, <3>5, <3>6, <3>7, BallEdge
    <3> QED
      BY <2>3, <2>5, <3>8
  <2>11. Pair(m2, g) = Pair(m, g)
    BY <2>1, <2>9, <2>10
  <2>12. Vt(m2, Nx(g)) = Vt(m, Nx(g)) /\ Vt(m2, Pv(g)) = Vt(m, Pv(g))
    BY <1>0, <2>1, <2>9, <2>10, NewVertex
  <2>13. Bridge(m, g)
    BY <2>2, <2>3, <2>12 DEF Bridge
  <2> QED
    BY <2>1, <2>11, <2>13
<1> QED
  BY <1>1, SpansLess

LEMMA AlikeSpans ==
  ASSUME NEW m, Sound(m), NEW m2, m2.tria = m.tria, m2.trs = m.trs,
         \A p \in Live(m.pts) : Pt(m2, p) = Pt(m, p)
  PROVE  Spans(m2) \subseteq Spans(m)
<1>1. Solid(m) /\ Darts(m2) = Darts(m)
  BY DEF Sound, Solid, Darts
<1>2. \A e : Vt(m2, e) = Vt(m, e) /\ Tg(m2, e) = Tg(m, e) /\ Pair(m2, e) = Pair(m, e)
  BY DEF Vt, Tg, Pair
<1>3. \A e \in Darts(m) : Vt(m, Nx(e)) \in Live(m.pts) /\ Vt(m, Pv(e)) \in Live(m.pts)
  BY <1>1, Corners, DartsTurn
<1>4. \A e \in Darts(m) : Bridge(m2, e) => Bridge(m, e)
  BY <1>2, <1>3 DEF Bridge
<1> QED
  BY <1>1, <1>2, <1>4, SpansLess

(* NoNewBridge: with info.fem no step that creates no triangle creates an  *)
(* edge inside the domain between two vertices of its boundaries.          *)
THEOREM AdaptNoNewBridge == Spec => NoNewBridge
<1>1. IInv /\ [Next]_vars => [fem /\ ~short' /\ Trias' \subseteq Trias => Bridges' \subseteq Bridges]_mesh
  <2> SUFFICES ASSUME IInv, Next, fem, ~short', Trias' \subseteq Trias
               PROVE  Bridges' \subseteq Bridges
    BY DEF vars
  <2>1. Sound(mesh) /\ Sound(mesh') /\ Stepped(mesh, mesh')
    BY NextSteps
  <2>2. PICK m, m2 : m = mesh /\ m2 = mesh'
    OBVIOUS
  <2>3. Sound(m) /\ Sound(m2) /\ Stepped(m, m2) /\ Live(m2.trs) \subseteq Live(m.trs)
    BY <2>1, <2>2 DEF Trias
  <2>4. Bridges = Spans(m)
    BY <2>2 DEF Bridges, EndsOf, Trias, Spans, Bridge, Pair, Darts, Vt, Tg, Pt, Nx, Pv
  <2>5. Bridges' = Spans(m2)
    BY <2>2 DEF Bridges, EndsOf, Trias, Spans, Bridge, Pair, Darts, Vt, Tg, Pt, Nx, Pv
  <2>6. Spans(m2) \subseteq Spans(m)
    <3>1. CASE HasSplit(m, m2)
      <4>1. PICK s, H, nn, ip : Splits(m, m2, s, H, nn, ip)
        BY <3>1 DEF HasSplit
      <4>2. s \in H /\ nn[s] \notin Live(m.trs) /\ nn[s] \in Live(m2.trs)
        BY <4>1 DEF Splits, Cuttable
      <4> QED
        BY <2>3, <4>2
    <3>2. CASE SameMesh(m, m2)
      BY <2>3, <3>2, AlikeSpans DEF SameMesh
    <3>3. CASE HasCollapsed(m, m2)
      <4>1. PICK s, C : /\ Collapsible(m, m2, s, C)
                        /\ fem => \E list : Ball(m, s, list) /\ NoBdyBridge(m, list, Vt(m, Nx(s)))
        BY <3>3 DEF HasCollapsed
      <4> QED
        BY <2>3, <4>1, CollapseSpans
    <3>4. CASE HasSwapped(m, m2)
      <4>1. PICK x, y : /\ Swaps(m, m2, x, y)
                        /\ fem => ~("bdy" \in Pt(m, Vt(m, x)) /\ "bdy" \in Pt(m, Vt(m, y)))
        BY <3>4 DEF HasSwapped
      <4> QED
        BY <2>3, <4>1, SwapSpans
    <3>5. CASE HasMoved(m, m2)
      <4>1. PICK p : Moves(m, m2, p)
        BY <3>5 DEF HasMoved
      <4>2. Live(m.pts) \subseteq 1..NPMax
        BY <2>3, MeshParts DEF Sound
      <4> QED
        BY <2>3, <4>1, <4>2, AlikeSpans DEF Moves
    <3> QED
      BY <2>3, <3>1, <3>2, <3>3, <3>4, <3>5 DEF Stepped
  <2> QED
    BY <2>4, <2>5, <2>6
<1> QED
  BY <1>1, AdaptInvariant, PTL DEF Spec, NoNewBridge

-------------------------------------------------------------------------------
(* The first stages of an iteration of MMG2D_anatri.                       *)

(* MMG2D_newElt called n times: the slots that it gives are distinct, out  *)
(* of use before and in use after.                                         *)
LEMMA HeadsTaken ==
  ASSUME NEW p, IsPool(p), NEW f, FreeListOK(p, f), NEW n \in {1, 2, 3}, Len(Heads(p, n)) = n
  PROVE  /\ IsPool(Take(p, n)) /\ Take(p, n).max = p.max
         /\ \E g : FreeListOK(Take(p, n), g)
         /\ DOMAIN Heads(p, n) = 1..n
         /\ \A i \in 1..n : Heads(p, n)[i] \in 1..p.max /\ Heads(p, n)[i] \notin Live(p)
         /\ IsInjective(Heads(p, n))
         /\ Live(Take(p, n)) = Live(p) \union Range(Heads(p, n))
<1>1. ASSUME NEW q, IsPool(q), q.nil # 0, NEW g, FreeListOK(q, g)
      PROVE  /\ IsPool(NewSlot(q)) /\ NewSlot(q).max = q.max
             /\ FreeListOK(NewSlot(q), Rest(g))
             /\ q.nil \in 1..q.max /\ q.nil \notin Live(q)
             /\ Live(NewSlot(q)) = Live(q) \union {q.nil}
             /\ NewSlot(q).nil = q.link[q.nil]
             /\ \A j \in 1..q.max : j # q.nil => NewSlot(q).link[j] = q.link[j]
  <2>1. q.nil \in 1..q.max /\ q.st[q.nil] # "live"
    BY <1>1, HeadIsFree
  <2>2. q.nil \notin Live(q)
    BY <2>1 DEF Live
  <2>3. IsPool(NewSlot(q)) /\ NewSlot(q).max = q.max
    BY <1>1, NewSlotType
  <2>4. FreeListOK(NewSlot(q), Rest(g))
    BY <1>1, NewSlotList
  <2>5. Live(NewSlot(q)) = Live(q) \union {q.nil}
    BY <1>1, NewSlotLive
  <2>6. q.link \in [1..q.max -> 0..q.max]
    BY <1>1 DEF IsPool
  <2>7. /\ NewSlot(q).nil = q.link[q.nil]
        /\ \A j \in 1..q.max : j # q.nil => NewSlot(q).link[j] = q.link[j]
    BY <2>6 DEF NewSlot
  <2> QED
    BY <2>1, <2>2, <2>3, <2>4, <2>5, <2>7
<1>2. PICK a, b, c : a = p.nil /\ b = p.link[a] /\ c = p.link[b]
  OBVIOUS
<1>3. Heads(p, n) = IF a = 0 THEN <<>>
                    ELSE IF n = 1 \/ b = 0 THEN <<a>>
                    ELSE IF n = 2 \/ c = 0 THEN <<a, b>>
                    ELSE <<a, b, c>>
  BY <1>2 DEF Heads
<1>4. PICK q, r, s : q = NewSlot(p) /\ r = NewSlot(q) /\ s = NewSlot(r)
  OBVIOUS
<1>5. a # 0
  BY <1>3
<1>6. /\ IsPool(q) /\ q.max = p.max /\ FreeListOK(q, Rest(f))
      /\ a \in 1..p.max /\ a \notin Live(p)
      /\ Live(q) = Live(p) \union {a} /\ q.nil = b
      /\ \A j \in 1..p.max : j # a => q.link[j] = p.link[j]
  BY <1>1, <1>2, <1>4, <1>5
<1>7. ASSUME b # 0
      PROVE  /\ IsPool(r) /\ r.max = p.max /\ FreeListOK(r, Rest(Rest(f)))
             /\ b \in 1..p.max /\ b \notin Live(q) /\ b # a
             /\ Live(r) = Live(q) \union {b} /\ r.nil = c
  <2>1. /\ IsPool(r) /\ r.max = p.max /\ FreeListOK(r, Rest(Rest(f)))
        /\ b \in 1..p.max /\ b \notin Live(q)
        /\ Live(r) = Live(q) \union {b} /\ r.nil = q.link[b]
    BY <1>1, <1>4, <1>6, <1>7
  <2>2. b # a
    BY <1>6, <2>1
  <2> QED
    BY <1>2, <1>6, <2>1, <2>2
<1>8. ASSUME b # 0, c # 0
      PROVE  /\ IsPool(s) /\ s.max = p.max /\ FreeListOK(s, Rest(Rest(Rest(f))))
             /\ c \in 1..p.max /\ c \notin Live(r) /\ Live(s) = Live(r) \union {c}
  BY <1>1, <1>4, <1>7, <1>8
<1>9. CASE n = 1
  <2>1. Heads(p, n) = <<a>> /\ Take(p, n) = q
    BY <1>3, <1>4, <1>5, <1>9 DEF Take
  <2>2. DOMAIN <<a>> = 1..1 /\ <<a>>[1] = a
    OBVIOUS
  <2>3. \A i \in 1..1 : i = 1
    OBVIOUS
  <2>4. IsInjective(<<a>>)
    BY <2>2, <2>3 DEF IsInjective
  <2>5. Range(<<a>>) = {a}
    BY <2>2, <2>3 DEF Range
  <2> QED
    BY <1>6, <1>9, <2>1, <2>2, <2>3, <2>4, <2>5
<1>10. CASE n = 2
  <2>1. b # 0
    BY <1>3, <1>5, <1>10
  <2>2. Heads(p, n) = <<a, b>> /\ Take(p, n) = r
    BY <1>3, <1>4, <1>5, <1>10, <2>1 DEF Take
  <2>3. DOMAIN <<a, b>> = 1..2 /\ <<a, b>>[1] = a /\ <<a, b>>[2] = b
    OBVIOUS
  <2>4. \A i \in 1..2 : i = 1 \/ i = 2
    OBVIOUS
  <2>6. IsInjective(<<a, b>>)
    BY <1>6, <1>7, <2>1, <2>3, <2>4 DEF IsInjective
  <2>7. Range(<<a, b>>) = {a, b}
    BY <2>3, <2>4 DEF Range
  <2> QED
    BY <1>6, <1>7, <1>10, <2>1, <2>2, <2>3, <2>4, <2>6, <2>7
<1>11. CASE n = 3
  <2>1. b # 0 /\ c # 0
    BY <1>3, <1>5, <1>11
  <2>2. Heads(p, n) = <<a, b, c>> /\ Take(p, n) = s
    BY <1>3, <1>4, <1>5, <1>11, <2>1 DEF Take
  <2>3. DOMAIN <<a, b, c>> = 1..3 /\ <<a, b, c>>[1] = a /\ <<a, b, c>>[2] = b /\ <<a, b, c>>[3] = c
    OBVIOUS
  <2>4. \A i \in 1..3 : i = 1 \/ i = 2 \/ i = 3
    OBVIOUS
  <2>6. a # b /\ b # c /\ a # c
    BY <1>6, <1>7, <1>8, <2>1
  <2>7. IsInjective(<<a, b, c>>)
    BY <2>3, <2>4, <2>6 DEF IsInjective
  <2>8. Range(<<a, b, c>>) = {a, b, c}
    BY <2>3, <2>4 DEF Range
  <2> QED
    BY <1>6, <1>7, <1>8, <1>11, <2>1, <2>2, <2>3, <2>4, <2>6, <2>7, <2>8
<1> QED
  BY <1>9, <1>10, <1>11

(* The mesh at the start of an iteration, and after MMG2D_hashTria: that   *)
(* areas stay positive is not kept, the middle of an edge being rounded.   *)
Ready(m) == Sound(m) /\ Simple(m)
Intact(m) == m \in MeshSet /\ OnLive(m) /\ Joined(m) /\ Tagged(m) /\ Used(m) /\ Simple(m)

(* The stages of MMG2D_anaelt and MMG2D_hashTria: while triangles are cut, *)
(* tr are those of the start, D those of them that have been cut.          *)
MarkInv   == Ready(mesh) /\ marks \subseteq Darts(mesh)
CreateInv == /\ mesh \in MeshSet /\ Lists(mesh)
             /\ Conforming(Trs(mesh)) /\ Tabled(mesh, Trs(mesh), hash)
             /\ marks \subseteq Darts(mesh)
CutInv    == at \in Nat /\ \E tr, D : Cutting(mesh, hash, at, tr, D)
HashInv   == /\ mesh \in MeshSet
             /\ Conforming(Trs(mesh)) /\ Tabled(mesh, Trs(mesh), {})

(* The edge in the table is the rim of the corner.                         *)
LEMMA DartOf ==
  ASSUME NEW k, NEW i
  PROVE  EdgeOf(<<k, i>>) = Rim(mesh.tria[k], i)
BY DEF EdgeOf, Rim

(* A mesh at the start of an iteration.                                    *)
LEMMA ReadyTabled ==
  ASSUME NEW m, Ready(m)
  PROVE  m \in MeshSet /\ Lists(m) /\ Conforming(Trs(m)) /\ Tabled(m, Trs(m), {}) /\ Intact(m)
<1>1. /\ m \in MeshSet /\ Lists(m) /\ OnLive(m) /\ Joined(m) /\ Used(m) /\ Tagged(m) /\ Simple(m)
      /\ Solid(m)
  BY DEF Ready, Sound, Solid
<1>2. EndsTagged(m)
  BY <1>1 DEF Tagged, EndsTagged
<1> QED
  BY <1>1, <1>2, WholeConforms, DartsTabled DEF Intact

(* Step 1 of MMG2D_anaelt only marks edges, ...                            *)
LEMMA MarkKeeps ==
  ASSUME MarkInv, NEW e, Mark(e)
  PROVE  MarkInv'
<1>1. mesh' = mesh /\ marks' = marks \union {e} /\ e \in Examined \X Local
  BY DEF Mark
<1>2. e \in Darts(mesh)
  BY <1>1 DEF Examined, Darts
<1>3. Ready(mesh') /\ marks' \subseteq Darts(mesh')
  BY <1>1, <1>2 DEF MarkInv
<1> QED
  BY <1>3 DEF MarkInv

(* ... and the table is empty when it ends.                                *)
LEMMA MarkEndKeeps ==
  ASSUME MarkInv, MarkEnd
  PROVE  \/ stage' = "hash" /\ HashInv'
         \/ stage' = "create" /\ CreateInv'
<1>1. PICK m : m = mesh
  OBVIOUS
<1>2. mesh' = m /\ marks' = marks \union FemMarks(marks) /\ hash' = {} /\ stage' \in {"hash", "create"}
  BY <1>1 DEF MarkEnd
<1>3. m \in MeshSet /\ Lists(m) /\ Conforming(Trs(m)) /\ Tabled(m, Trs(m), {})
  BY <1>1, ReadyTabled DEF MarkInv
<1>4. FemMarks(marks) \subseteq Darts(m)
  BY <1>1 DEF FemMarks, Examined, Darts
<1>5. marks' \subseteq Darts(m)
  BY <1>1, <1>2, <1>4 DEF MarkInv
<1>6. HashInv'
  BY <1>2, <1>3 DEF HashInv
<1>7. CreateInv'
  BY <1>2, <1>3, <1>5 DEF CreateInv
<1> QED
  BY <1>2, <1>6, <1>7

(* The edge that is visited first.                                         *)
LEMMA FirstIs ==
  ASSUME marks # {}, marks \subseteq DartSet
  PROVE  First \in marks
<1>1. \A e \in marks : 3 * e[1] + e[2] \in Nat
  <2> TAKE e \in marks
  <2>1. e[1] \in Nat /\ e[2] \in Nat
    BY MeshAssumption DEF DartSet, Local
  <2> QED
    BY <2>1
<1>2. PICK S : S = {3 * e[1] + e[2] : e \in marks}
  OBVIOUS
<1>3. S \in SUBSET Nat /\ S # {}
  BY <1>1, <1>2
<1>4. PICK x \in S : \A y \in S : x <= y
  BY <1>3, LeastNat
<1>5. PICK e \in marks : x = 3 * e[1] + e[2]
  BY <1>2, <1>4
<1>6. \A f \in marks : 3 * e[1] + e[2] <= 3 * f[1] + f[2]
  BY <1>2, <1>4, <1>5
<1> QED
  BY <1>6 DEF First

(* The point that is created.                                              *)
LEMMA PointMade ==
  ASSUME NEW m \in MeshSet, NEW p, p = m.pts.nil, p # 0, NEW c \in Int \X Int, NEW tag \in SUBSET TagSet,
         NEW m2, m2 = NewPt(m, c, tag)
  PROVE  /\ m2 \in MeshSet /\ m2.tria = m.tria /\ m2.trs = m.trs
         /\ p \in 1..NPMax
         /\ Live(m2.pts) = Live(m.pts) \union {p}
         /\ (\E f : FreeListOK(m.pts, f)) => (\E f : FreeListOK(m2.pts, f))
         /\ Pt(m2, p) = tag
         /\ \A q \in 1..NPMax : q # p => Pt(m2, q) = Pt(m, q)
<1>1. m.pts.nil # 0
  OBVIOUS
<1>2. m2 = NewPt(m, c, tag)
  OBVIOUS
<1>3. /\ m2 \in MeshSet /\ m2.tria = m.tria /\ m2.trs = m.trs
      /\ Live(m2.pts) = Live(m.pts) \union {m.pts.nil}
      /\ (\E f : FreeListOK(m.pts, f)) => (\E f : FreeListOK(m2.pts, f))
      /\ At(m2, m.pts.nil) = c /\ Pt(m2, m.pts.nil) = tag
      /\ \A q \in 1..NPMax : q # m.pts.nil => At(m2, q) = At(m, q) /\ Pt(m2, q) = Pt(m, q)
  BY <1>1, <1>2, NewPtIs
<1>4. p \in 1..NPMax
  BY MeshParts DEF IsPool
<1> QED
  BY <1>3, <1>4

(* An edge gets one point, a new one, with the tags of both of its sides.  *)
LEMMA CreatePointKeeps ==
  ASSUME CreateInv, CreatePoint
  PROVE  CreateInv'
<1>0. PICK m, m2, s, e, p : m = mesh /\ m2 = mesh' /\ s = First /\ e = EdgeOf(First) /\ p = mesh.pts.nil
  OBVIOUS
<1>1. /\ m \in MeshSet /\ Lists(m) /\ Conforming(Trs(m)) /\ Tabled(m, Trs(m), hash) /\ marks \subseteq Darts(m)
  BY <1>0 DEF CreateInv
<1>2. marks # {} /\ marks' = marks \ {s}
  BY <1>0 DEF CreatePoint
<1>3. s \in marks /\ s \in Darts(m)
  <2>1. marks \subseteq DartSet
    BY <1>1, MeshParts
  <2> QED
    BY <1>0, <1>1, <1>2, <2>1, FirstIs
<1>4. CASE m2 = m /\ hash' = hash
  <2>1. /\ mesh' \in MeshSet /\ Lists(mesh') /\ Conforming(Trs(mesh')) /\ Tabled(mesh', Trs(mesh'), hash')
        /\ marks' \subseteq Darts(mesh')
    BY <1>0, <1>1, <1>2, <1>4
  <2> QED
    BY <2>1 DEF CreateInv
<1>5. CASE /\ m2 = WithMid(s[1], s[2]) /\ hash' = hash \union {<<e, p>>}
           /\ ~Hashed(s) /\ p # 0
  <2>1. OnLive(m)
    <3> SUFFICES ASSUME NEW d \in Darts(m) PROVE Vt(m, d) \in Live(m.pts)
      BY DEF OnLive
    <3>1. d[1] \in Live(m.trs) /\ d[2] \in Local
      BY AllDarts
    <3>2. Vt(m, d) \in Vertices(Trs(m))
      BY <3>1 DEF Vertices, Verts, Trs, Vt
    <3> QED
      BY <1>1, <3>2 DEF Tabled
  <2>2. PICK c, tag : c = EdgeMid(s[1], s[2]) /\ tag = Tg(m, s)
    OBVIOUS
  <2>3. c \in Int \X Int /\ tag \in SUBSET TagSet
    <3>1. Nx(s) \in Darts(m) /\ Pv(s) \in Darts(m) /\ s \in DartSet
      BY <1>1, <1>3, DartsTurn, MeshParts
    <3>2. Vt(m, Nx(s)) \in 1..NPMax /\ Vt(m, Pv(s)) \in 1..NPMax
      BY <1>1, <2>1, <3>1, MeshParts DEF OnLive
    <3>3. At(m, Vt(m, Nx(s))) \in Int \X Int /\ At(m, Vt(m, Pv(s))) \in Int \X Int
      BY <1>1, <3>2, MeshParts
    <3>4. c = Midpoint(At(m, Vt(m, Nx(s))), At(m, Vt(m, Pv(s))))
      BY <1>0, <2>2 DEF EdgeMid, At, Vt, Nx, Pv
    <3> QED
      BY <1>1, <2>2, <3>1, <3>3, <3>4, MeshParts, MidPair
  <2>4. m2 = NewPt(m, c, tag)
    BY <1>0, <1>5, <2>2 DEF WithMid, Tg
  <2>5. /\ m2 \in MeshSet /\ m2.tria = m.tria /\ m2.trs = m.trs
        /\ p \in 1..NPMax
        /\ Live(m2.pts) = Live(m.pts) \union {p}
        /\ (\E f : FreeListOK(m.pts, f)) => (\E f : FreeListOK(m2.pts, f))
        /\ Pt(m2, p) = tag
        /\ \A q \in 1..NPMax : q # p => Pt(m2, q) = Pt(m, q)
    <3>1. m \in MeshSet /\ p = m.pts.nil /\ p # 0
      BY <1>0, <1>1, <1>5
    <3> QED
      BY <2>3, <2>4, <3>1, PointMade
  <2>6. Lists(m2)
    BY <1>1, <2>5 DEF Lists
  <2>7. p \notin Live(m.pts)
    <3>1. IsPool(m.pts) /\ \E f : FreeListOK(m.pts, f)
      BY <1>1, MeshParts DEF Lists
    <3>2. m.pts.st[m.pts.nil] # "live"
      BY <1>0, <1>5, <3>1, HeadIsFree
    <3> QED
      BY <1>0, <3>2 DEF Live
  <2>8. PICK tr : tr = Trs(m)
    OBVIOUS
  <2>9. tr = Trs(m2) /\ Darts(m2) = Darts(m) /\ DOMAIN tr = Live(m.trs) /\ \A k \in Live(m.trs) : tr[k] = m.tria[k]
    BY <2>5, <2>8 DEF Trs, Darts
  <2>10. s[1] \in DOMAIN tr /\ s[2] \in Local /\ e = Rim(tr[s[1]], s[2]) /\ tag = tr[s[1]].tag[s[2]] /\ s = <<s[1], s[2]>>
    BY <1>0, <1>3, <2>2, <2>9, AllDarts DEF Rim, EdgeOf, Tg
  <2>11. \A d \in hash : d[1] # e
    BY <1>0, <1>5 DEF Hashed
  <2>12. ASSUME NEW k \in DOMAIN tr, NEW i \in Local, Rim(tr[k], i) = e
         PROVE  tr[k].tag[i] = tag
    <3>1. PICK d : d = <<k, i>>
      OBVIOUS
    <3>2. d \in Darts(m) /\ Tg(m, d) = tr[k].tag[i]
      BY <2>9, <3>1, AsDarts
    <3>3. SameEnds(m, s, d)
      BY <2>9, <2>10, <2>12, <3>1 DEF SameEnds, Rim, Vt, Nx, Pv
    <3> QED
      BY <1>1, <1>3, <2>2, <3>2, <3>3, OppositeSides
  <2>13. Tabled(m, tr, hash)
    BY <1>1, <2>8
  <2>14. \A q \in Live(m.pts) : q # p /\ q \in 1..NPMax /\ Pt(m2, q) = Pt(m, q)
    BY <1>1, <2>5, <2>7, MeshParts
  <2>15. Tabled(m2, tr, hash \union {<<e, p>>})
    <3>1. e \in EdgesOf(tr)
      BY <2>10 DEF EdgesOf
    <3>2. p \notin Vertices(tr)
      BY <2>7, <2>13 DEF Tabled
    <3>3. \A d \in hash : d[2] # p /\ d[1] # e
      BY <2>7, <2>11, <2>13 DEF Tabled
    <3>4. \A d \in hash \union {<<e, p>>} : /\ d[1] \in EdgesOf(tr)
                                            /\ d[2] \in Live(m2.pts) /\ d[2] \notin Vertices(tr)
      BY <2>5, <2>13, <3>1, <3>2 DEF Tabled
    <3>5. \A d, f \in hash \union {<<e, p>>} : d[1] = f[1] \/ d[2] = f[2] => d = f
      BY <2>13, <3>3 DEF Tabled
    <3>6. Vertices(tr) \subseteq Live(m2.pts)
      BY <2>5, <2>13 DEF Tabled
    <3>7. ASSUME NEW q \in Live(m2.pts)
          PROVE  q \in Vertices(tr) \/ \E d \in hash \union {<<e, p>>} : d[2] = q
      <4>1. CASE q = p
        <5>1. <<e, p>>[2] = q /\ <<e, p>> \in hash \union {<<e, p>>}
          BY <4>1
        <5> QED
          BY <5>1
      <4>2. CASE q \in Live(m.pts)
        BY <2>13, <4>2 DEF Tabled
      <4> QED
        BY <2>5, <4>1, <4>2
    <3>8. ASSUME NEW k \in DOMAIN tr, NEW i \in Local, NEW q \in Rim(tr[k], i)
          PROVE  tr[k].tag[i] \subseteq Pt(m2, q)
      <4>1. q \in Verts(tr[k])
        BY <3>8, Turns DEF Rim, Verts
      <4>2. q \in Live(m.pts)
        BY <2>13, <4>1 DEF Vertices, Tabled
      <4> QED
        BY <2>13, <2>14, <3>8, <4>2 DEF Tabled
    <3>9. ASSUME NEW k \in DOMAIN tr, NEW i \in Local, NEW d \in hash \union {<<e, p>>}, d[1] = Rim(tr[k], i)
          PROVE  tr[k].tag[i] \subseteq Pt(m2, d[2])
      <4>1. CASE d \in hash
        BY <2>13, <2>14, <3>9, <4>1 DEF Tabled
      <4>2. CASE d = <<e, p>>
        BY <2>5, <2>12, <3>9, <4>2
      <4> QED
        BY <4>1, <4>2
    <3> QED
      BY <3>4, <3>5, <3>6, <3>7, <3>8, <3>9 DEF Tabled
  <2>16. /\ mesh' \in MeshSet /\ Lists(mesh') /\ Conforming(Trs(mesh')) /\ Tabled(mesh', Trs(mesh'), hash')
         /\ marks' \subseteq Darts(mesh')
    BY <1>0, <1>1, <1>2, <1>5, <2>5, <2>6, <2>8, <2>9, <2>15
  <2> QED
    BY <2>16 DEF CreateInv
<1>6. \/ m2 = m /\ hash' = hash
      \/ m2 = WithMid(s[1], s[2]) /\ hash' = hash \union {<<e, p>>} /\ ~Hashed(s) /\ p # 0
  <2>1. CASE Hashed(First)
    BY <1>0, <2>1 DEF CreatePoint
  <2>2. CASE ~Hashed(First)
    BY <1>0, <2>2 DEF CreatePoint
  <2> QED
    BY <2>1, <2>2
<1> QED
  BY <1>4, <1>5, <1>6

(* Then nothing has been cut yet.                                          *)
LEMMA CreateEndKeeps ==
  ASSUME CreateInv, CreateEnd
  PROVE  stage' = "cut" /\ CutInv'
<1>0. PICK m, tr : m = mesh /\ tr = Trs(mesh)
  OBVIOUS
<1>1. mesh' = m /\ hash' = hash /\ at' = 1 /\ stage' = "cut"
  BY <1>0 DEF CreateEnd, StartWalk, anaelt
<1>2. m \in MeshSet /\ Lists(m) /\ Conforming(tr) /\ Tabled(m, tr, hash)
  BY <1>0 DEF CreateInv
<1>3. DOMAIN tr = Live(m.trs) /\ \A k \in Live(m.trs) : tr[k] = m.tria[k] /\ k \in 1..NTMax
  BY <1>0, <1>2, MeshParts DEF Trs
<1>4. \A s, z \in Live(m.trs) : m.tria[s] = m.tria[z] => s = z
  BY <1>2, <1>3 DEF Conforming, Distinct3
<1>5. \A k \in DOMAIN tr \ {} : ~(k < 1)
  BY <1>3, MeshAssumption
<1>6. Cutting(m, hash, 1, tr, {})
  BY <1>2, <1>3, <1>4, <1>5 DEF Cutting
<1> QED
  BY <1>1, <1>6 DEF CutInv

(* The slots are a sequence.                                               *)
LEMMA HeadsSeq ==
  ASSUME NEW p, IsPool(p), NEW n
  PROVE  Heads(p, n) \in Seq(0..p.max)
<1>1. PICK a, b, c : a = p.nil /\ b = p.link[a] /\ c = p.link[b]
  OBVIOUS
<1>2. Heads(p, n) = IF a = 0 THEN <<>>
                    ELSE IF n = 1 \/ b = 0 THEN <<a>>
                    ELSE IF n = 2 \/ c = 0 THEN <<a, b>>
                    ELSE <<a, b, c>>
  BY <1>1 DEF Heads
<1>3. a \in 0..p.max /\ (a # 0 => b \in 0..p.max) /\ (a # 0 /\ b # 0 => c \in 0..p.max)
  BY <1>1 DEF IsPool
<1>4. CASE a = 0
  <2>1. <<>> \in Seq(0..p.max)
    OBVIOUS
  <2> QED
    BY <1>2, <1>4, <2>1
<1>5. CASE a # 0 /\ (n = 1 \/ b = 0)
  <2>1. a \in 0..p.max
    BY <1>3
  <2>2. <<a>> \in Seq(0..p.max)
    BY <2>1
  <2> QED
    BY <1>2, <1>5, <2>2
<1>6. CASE a # 0 /\ ~(n = 1 \/ b = 0) /\ (n = 2 \/ c = 0)
  <2>1. a \in 0..p.max /\ b \in 0..p.max
    BY <1>3, <1>6
  <2>2. <<a, b>> \in Seq(0..p.max)
    BY <2>1
  <2> QED
    BY <1>2, <1>6, <2>2
<1>7. CASE a # 0 /\ ~(n = 1 \/ b = 0) /\ ~(n = 2 \/ c = 0)
  <2>1. a \in 0..p.max /\ b \in 0..p.max /\ c \in 0..p.max
    BY <1>3, <1>7
  <2>2. <<a, b, c>> \in Seq(0..p.max)
    BY <2>1
  <2> QED
    BY <1>2, <1>7, <2>2
<1> QED
  BY <1>4, <1>5, <1>6, <1>7

(* The slots are taken and the pieces are put into them. *)
LEMMA SlotsTaken ==
  ASSUME NEW m \in MeshSet, Lists(m), NEW k \in Live(m.trs), NEW n \in {1, 2, 3},
         NEW P, DOMAIN P = 1..(n + 1), \A j \in DOMAIN P : P[j] \in TriaSet,
         NEW H, H = Heads(m.trs, n), Len(H) = n, NEW s, s = <<k>> \o H,
         NEW m2, m2 = [pts |-> m.pts, trs |-> Take(m.trs, n), point |-> m.point, tria |-> PutIn(m.tria, s, P)]
  PROVE  Placed(m, m2, s, P)
<1>00. /\ m2.pts = m.pts /\ m2.point = m.point /\ m2.trs = Take(m.trs, n) /\ m2.tria = PutIn(m.tria, s, P)
      /\ m2 = [pts |-> m2.pts, trs |-> m2.trs, point |-> m2.point, tria |-> m2.tria]
  OBVIOUS
<1>1. PICK p : p = m.trs
  OBVIOUS
<1>2. IsPool(p) /\ p.max = NTMax /\ NTMax \in Nat /\ Live(p) \subseteq 1..NTMax /\ k \in Live(p)
  BY <1>1, MeshParts, MeshAssumption
<1>3. PICK f : FreeListOK(p, f)
  BY <1>1 DEF Lists
<1>4. /\ IsPool(Take(p, n)) /\ Take(p, n).max = p.max
      /\ \E g : FreeListOK(Take(p, n), g)
      /\ DOMAIN H = 1..n
      /\ \A i \in 1..n : H[i] \in 1..p.max /\ H[i] \notin Live(p)
      /\ IsInjective(H)
      /\ Live(Take(p, n)) = Live(p) \union Range(H)
  <2>1. H = Heads(p, n) /\ IsPool(p) /\ Len(Heads(p, n)) = n
    BY <1>1, <1>2
  <2>2. /\ IsPool(Take(p, n)) /\ Take(p, n).max = p.max
        /\ \E g : FreeListOK(Take(p, n), g)
        /\ DOMAIN Heads(p, n) = 1..n
        /\ \A i \in 1..n : Heads(p, n)[i] \in 1..p.max /\ Heads(p, n)[i] \notin Live(p)
        /\ IsInjective(Heads(p, n))
        /\ Live(Take(p, n)) = Live(p) \union Range(Heads(p, n))
    BY <1>3, <2>1, HeadsTaken
  <2> QED
    BY <2>1, <2>2
<1>5. PICK S : S = 0..p.max
  OBVIOUS
<1>6. /\ DOMAIN s = 1..(n + 1) /\ Len(s) = n + 1 /\ s[1] = k
      /\ \A i \in 1..n : s[i + 1] = H[i]
  <2>1. H \in Seq(S) /\ k \in S
    BY <1>1, <1>2, <1>5, HeadsSeq
  <2>2. <<k>> \in Seq(S) /\ Len(<<k>>) = 1 /\ <<k>>[1] = k
    BY <2>1
  <2>3. s \in Seq(S) /\ Len(s) = 1 + n
    BY <2>1, <2>2
  <2>4. \A i \in 1..(1 + n) : s[i] = IF i <= 1 THEN <<k>>[i] ELSE H[i - 1]
    BY <2>1, <2>2
  <2>5. DOMAIN s = 1..(n + 1) /\ Len(s) = n + 1
    BY <2>3
  <2>6. s[1] = k
    BY <2>2, <2>4
  <2>7. \A i \in 1..n : s[i + 1] = H[i]
    <3> TAKE i \in 1..n
    <3>1. i + 1 \in 1..(1 + n) /\ ~(i + 1 <= 1) /\ (i + 1) - 1 = i
      OBVIOUS
    <3> QED
      BY <2>4, <3>1
  <2> QED
    BY <2>5, <2>6, <2>7
<1>7. \A i \in 1..(n + 1) : i = 1 \/ (i - 1 \in 1..n /\ s[i] = H[i - 1])
  <2> TAKE i \in 1..(n + 1)
  <2>1. i = 1 \/ i - 1 \in 1..n
    OBVIOUS
  <2>2. i - 1 \in 1..n => s[(i - 1) + 1] = H[i - 1]
    BY <1>6
  <2> QED
    BY <2>1, <2>2
<1>8. \A i \in 1..(n + 1) : s[i] \in 1..NTMax /\ (s[i] \in Live(p) <=> i = 1)
  <2> TAKE i \in 1..(n + 1)
  <2>1. CASE i = 1
    BY <1>2, <1>6, <2>1
  <2>2. CASE i # 1
    <3>1. i - 1 \in 1..n /\ s[i] = H[i - 1]
      BY <1>7, <2>2
    <3> QED
      BY <1>2, <1>4, <2>2, <3>1
  <2> QED
    BY <2>1, <2>2
<1>9. \A i, j \in 1..(n + 1) : s[i] = s[j] => i = j
  <2> SUFFICES ASSUME NEW i \in 1..(n + 1), NEW j \in 1..(n + 1), s[i] = s[j] PROVE i = j
    OBVIOUS
  <2>1. CASE i = 1 \/ j = 1
    BY <1>8, <2>1
  <2>2. CASE i # 1 /\ j # 1
    <3>1. i - 1 \in 1..n /\ j - 1 \in 1..n /\ H[i - 1] = H[j - 1]
      BY <1>7, <2>2
    <3>2. i - 1 = j - 1
      BY <1>4, <3>1 DEF IsInjective
    <3> QED
      BY <3>2
  <2> QED
    BY <2>1, <2>2
<1>10. \A z : z \in Range(s) <=> \E i \in 1..(n + 1) : z = s[i]
  <2>1. \A z : z \in Range(s) <=> \E i \in DOMAIN s : z = s[i]
    BY DEF Range
  <2>2. DOMAIN s = 1..(n + 1)
    BY <1>6
  <2> QED
    BY <2>1, <2>2
<1>0. m2.tria = [z \in 1..NTMax |-> IF z \in Range(s) THEN P[CHOOSE j \in 1..Len(s) : s[j] = z]
                                                      ELSE m.tria[z]]
  BY <1>00 DEF PutIn
<1>11. ASSUME NEW i \in 1..(n + 1)
       PROVE  m2.tria[s[i]] = P[i]
  <2>1. s[i] \in 1..NTMax /\ s[i] \in Range(s)
    BY <1>8, <1>10
  <2>2. (CHOOSE j \in 1..Len(s) : s[j] = s[i]) = i
    BY <1>6, <1>9
  <2> QED
    BY <1>0, <2>1, <2>2
<1>12. ASSUME NEW z \in 1..NTMax, \A i \in 1..(n + 1) : s[i] # z
       PROVE  m2.tria[z] = m.tria[z]
  BY <1>0, <1>10, <1>12
<1>13. m2.tria \in [1..NTMax -> TriaSet]
  <2>1. \A z \in 1..NTMax : m2.tria[z] \in TriaSet
    <3> TAKE z \in 1..NTMax
    <3>1. m.tria[z] \in TriaSet
      BY DEF MeshSet
    <3>2. CASE \E i \in 1..(n + 1) : s[i] = z
      <4>1. PICK i \in 1..(n + 1) : s[i] = z
        BY <3>2
      <4>2. m2.tria[z] = P[i]
        BY <1>11, <4>1
      <4> QED
        BY <4>2
    <3>3. CASE \A i \in 1..(n + 1) : s[i] # z
      BY <1>12, <3>1, <3>3
    <3> QED
      BY <3>2, <3>3
  <2>2. PICK T : T = m2.tria
    OBVIOUS
  <2>3. T = [z \in 1..NTMax |-> IF z \in Range(s) THEN P[CHOOSE j \in 1..Len(s) : s[j] = z] ELSE m.tria[z]]
    BY <1>0, <2>2
  <2>4. \A z \in 1..NTMax : (IF z \in Range(s) THEN P[CHOOSE j \in 1..Len(s) : s[j] = z] ELSE m.tria[z]) \in TriaSet
    BY <2>1, <2>2, <2>3
  <2>5. T \in [1..NTMax -> TriaSet]
    BY <2>3, <2>4
  <2> QED
    BY <2>2, <2>5
<1>14. m2 \in MeshSet
  <2>1. m2.trs \in PoolSet(NTMax)
    BY <1>1, <1>2, <1>4, <1>00, PoolIs
  <2>2. m2.pts \in PoolSet(NPMax) /\ m2.point \in [1..NPMax -> PointSet]
    BY <1>00 DEF MeshSet
  <2> QED
    BY <1>13, <1>00, <2>1, <2>2 DEF MeshSet
<1>15. Lists(m2)
  BY <1>1, <1>4, <1>00 DEF Lists
<1>16. Live(m2.trs) = Live(m.trs) \union {s[j] : j \in DOMAIN P}
  <2>1. \A i \in 1..n : s[i + 1] = H[i] /\ i + 1 \in 1..(n + 1)
    BY <1>6
  <2>2. ASSUME NEW z \in Live(Take(p, n)) PROVE z \in Live(p) \union {s[j] : j \in 1..(n + 1)}
    BY <1>4, <2>1 DEF Range
  <2>3. ASSUME NEW j \in 1..(n + 1) PROVE s[j] \in Live(Take(p, n))
    BY <1>2, <1>4, <1>6, <1>7 DEF Range
  <2>4. Live(p) \subseteq Live(Take(p, n))
    BY <1>4
  <2>5. PICK B : B = {s[j] : j \in 1..(n + 1)}
    OBVIOUS
  <2>6. B \subseteq Live(Take(p, n))
    BY <2>3, <2>5
  <2>7. Live(Take(p, n)) = Live(p) \union B
    BY <2>2, <2>4, <2>5, <2>6
  <2> QED
    BY <1>1, <1>00, <2>5, <2>7
<1>17. 1 \in DOMAIN P /\ DOMAIN s = DOMAIN P
  BY <1>6
<1>18. Placed(m, m2, s, P)
  BY <1>1, <1>8, <1>9, <1>11, <1>12, <1>14, <1>15, <1>16, <1>17, <1>00 DEF Placed
<1> QED
  BY <1>18

(* The pieces of a triangle of the mesh have its types. *)
LEMMA PiecesTyped ==
  ASSUME NEW m \in MeshSet, NEW tab, NEW tr, Conforming(tr), Tabled(m, tr, tab),
         NEW k \in DOMAIN tr, tr[k] \in TriaSet, CutOf(tr[k], Table(tab)) # {}
  PROVE  \A j \in DOMAIN CutUp(tr[k], Table(tab)) : CutUp(tr[k], Table(tab))[j] \in TriaSet
<1>1. PICK mk, P : mk = Table(tab) /\ P = CutUp(tr[k], Table(tab))
  OBVIOUS
<1>2. CutReady(tr, mk) /\ \A e \in DOMAIN mk : \E c \in tab : c[1] = e /\ c[2] = mk[e]
  BY <1>1, TableIs
<1>3. tr[k] \in Plane /\ Cornered(tr[k]) /\ Fresh(tr[k], mk)
  BY <1>2 DEF CutReady, Conforming
<1>4. FitIn(tr[k], mk, P)
  BY <1>1, <1>3, CutFits
<1> SUFFICES ASSUME NEW j \in DOMAIN P PROVE P[j] \in TriaSet
  BY <1>1
<1>5. PICK q : q = P[j]
  OBVIOUS
<1>6. q \in Plane /\ q.adja = tr[k].adja
  BY <1>1, <1>3, <1>4, <1>5, PiecesAdja DEF FitIn, Typed3
<1>7. \A i \in Local : q.v[i] \in 0..NPMax
  <2> TAKE i \in Local
  <2>1. q.v[i] \in UNION {Verts(P[n]) : n \in DOMAIN P}
    BY <1>5 DEF Verts
  <2>2. q.v[i] \in Verts(tr[k]) \/ \E h \in CutOf(tr[k], mk) : q.v[i] = mk[Rim(tr[k], h)]
    BY <1>4, <2>1 DEF FitIn, Used3
  <2>3. Verts(tr[k]) \subseteq Live(m.pts)
    BY DEF Tabled, Vertices
  <2>4. \A h \in CutOf(tr[k], mk) : mk[Rim(tr[k], h)] \in Live(m.pts)
    BY <1>2 DEF CutOf, Tabled
  <2>5. q.v[i] \in Live(m.pts)
    BY <2>2, <2>3, <2>4
  <2> QED
    BY <2>5, MeshParts
<1>8. /\ q = [v |-> q.v, tag |-> q.tag, ref |-> q.ref, adja |-> q.adja]
      /\ q.v \in [Local -> Nat] /\ q.tag \in [Local -> SUBSET TagSet] /\ q.ref \in Nat
  BY <1>6 DEF Plane
<1>9. q.v \in [Local -> 0..NPMax]
  BY <1>7, <1>8
<1>10. q.adja \in [Local -> DartSet \union {NoAdja}]
  BY <1>6 DEF TriaSet
<1>11. [v |-> q.v, tag |-> q.tag, ref |-> q.ref, adja |-> q.adja] \in TriaSet
  BY <1>8, <1>9, <1>10 DEF TriaSet
<1> QED
  BY <1>5, <1>8, <1>11

(* A triangle that is left with edges to cut is one that has not been cut. *)
LEMMA CutLeft ==
  ASSUME NEW m, NEW tab, NEW a, NEW tr, NEW D, Cutting(m, tab, a, tr, D),
         NEW k \in Live(m.trs), CutOf(m.tria[k], Table(tab)) # {}
  PROVE  k \in DOMAIN tr \ D /\ m.tria[k] = tr[k]
<1>1. k \in DOMAIN tr \ D \/ \E l, j : l \in D /\ PieceOf(tr, Table(tab), m.tria[k], l, j)
  BY DEF Cutting
<1>2. CutReady(tr, Table(tab)) /\ DOMAIN Table(tab) \subseteq EdgesOf(tr)
  BY TableIs DEF Cutting
<1>3. \A l, j : ~PieceOf(tr, Table(tab), m.tria[k], l, j)
  BY <1>2, NoMoreCuts
<1>4. k \in DOMAIN tr \ D
  BY <1>1, <1>3
<1> QED
  BY <1>4 DEF Cutting

(* An edge is in the table, ...                                            *)
LEMMA HashedIs ==
  ASSUME NEW k, NEW i
  PROVE  Hashed(<<k, i>>) <=> Rim(mesh.tria[k], i) \in DOMAIN Table(hash)
BY DartOf DEF Hashed, Table

(* ... and these are the edges of a triangle that are.                     *)
LEMMA CutEdgesIs ==
  ASSUME NEW k
  PROVE  CutEdges(k) = CutOf(mesh.tria[k], Table(hash))
BY HashedIs DEF CutEdges, CutOf

(* A triangle is cut: it is one that was there at the start, and the slots *)
(* that MMG2D_newElt gives take its pieces and nothing else.               *)
LEMMA CutTriaKeeps ==
  ASSUME CutInv, NEW k \in 1..NTMax, CutTria(k), stage' = "cut"
  PROVE  CutInv'
<1>1. PICK tr, D : Cutting(mesh, hash, at, tr, D)
  BY DEF CutInv
<1>2. PICK m, m2, tab, mk, t : m = mesh /\ m2 = mesh' /\ tab = hash /\ mk = Table(hash) /\ t = mesh.tria[k]
  OBVIOUS
<1>3. /\ Cutting(m, tab, at, tr, D) /\ m \in MeshSet /\ Lists(m) /\ Conforming(tr) /\ Tabled(m, tr, tab)
      /\ at \in Nat
  BY <1>1, <1>2 DEF Cutting, CutInv
<1>4. k \in Live(m.trs) /\ CutOf(t, mk) # {}
  BY <1>2, CutEdgesIs DEF CutTria, ToCut
<1>5. k \in DOMAIN tr \ D /\ t = tr[k] /\ t \in TriaSet
  <2>1. k \in DOMAIN tr \ D /\ t = tr[k]
    BY <1>2, <1>3, <1>4, CutLeft
  <2>2. m.tria \in [1..NTMax -> TriaSet]
    BY <1>3 DEF MeshSet
  <2> QED
    BY <1>2, <2>1, <2>2
<1>6. ASSUME NEW l \in DOMAIN tr \ D
      PROVE  l \in Int /\ (l >= at /\ CutOf(tr[l], mk) # {} => k <= l)
  <2>1. l \in Live(m.trs) /\ m.tria[l] = tr[l] /\ l \in 1..NTMax
    <3>1. l \in Live(m.trs) /\ m.tria[l] = tr[l]
      BY <1>3 DEF Cutting
    <3> QED
      BY <1>3, <3>1, MeshParts
  <2>2. l >= at /\ CutOf(tr[l], mk) # {} => l \in ToCut
    BY <1>2, <2>1, CutEdgesIs DEF ToCut
  <2>3. \A z \in ToCut : k <= z
    BY DEF CutTria
  <2> QED
    BY <2>1, <2>2, <2>3
<1>7. PICK P, cut, n, H, s : /\ cut = CutOf(t, mk) /\ P = CutUp(t, mk) /\ n = Cardinality(cut)
                             /\ H = Heads(m.trs, n) /\ s = <<k>> \o H
  OBVIOUS
<1>8. t \in Plane
  BY <1>3, <1>5 DEF Conforming
<1>9. /\ n \in {1, 2, 3} /\ DOMAIN P = 1..(n + 1)
      /\ \A j \in DOMAIN P : P[j] \in TriaSet
  <2>1. n \in {1, 2, 3} /\ DOMAIN P = 1..(n + 1)
    BY <1>4, <1>7, <1>8, PiecesAdja
  <2>2. \A j \in DOMAIN CutUp(tr[k], Table(tab)) : CutUp(tr[k], Table(tab))[j] \in TriaSet
    BY <1>2, <1>3, <1>4, <1>5, PiecesTyped
  <2> QED
    BY <1>2, <1>5, <1>7, <2>1, <2>2
<1>10. PICK x : x = [i \in cut |-> (CHOOSE h \in hash : h[1] = EdgeOf(<<k, i>>))[2]]
  OBVIOUS
<1>11. x = CutAt(t, mk)
  <2>1. \A i \in cut : Rim(t, i) \in DOMAIN mk /\ Rim(t, i) = EdgeOf(<<k, i>>)
    BY <1>2, <1>7, DartOf DEF CutOf
  <2>2. \A e \in DOMAIN mk : mk[e] = (CHOOSE c \in hash : c[1] = e)[2]
    BY <1>2 DEF Table
  <2>3. \A i \in cut : (CHOOSE h \in hash : h[1] = EdgeOf(<<k, i>>))[2] = mk[Rim(t, i)]
    BY <2>1, <2>2
  <2> QED
    BY <1>7, <1>10, <2>3 DEF CutAt
<1>12. P = Pieces(t, x, cut)
  BY <1>4, <1>7, <1>11 DEF CutUp
<1>13. /\ Len(s) = n + 1
       /\ m2 = [m EXCEPT !.trs = Take(m.trs, Len(s) - 1), !.tria = PutIn(m.tria, s, P)]
       /\ at' = k + 1 /\ hash' = hash
  <2>1. CutEdges(k) = cut
    BY <1>2, <1>7, CutEdgesIs
  <2>2. Cardinality(CutEdges(k)) = n /\ <<k>> \o Heads(mesh.trs, Cardinality(CutEdges(k))) = s
    BY <1>2, <1>7, <2>1
  <2>3. Pieces(mesh.tria[k], [i \in CutEdges(k) |-> (CHOOSE h \in hash : h[1] = EdgeOf(<<k, i>>))[2]], CutEdges(k)) = P
    BY <1>2, <1>10, <1>12, <2>1
  <2>4. Len(s) = n + 1
    BY <2>2 DEF CutTria
  <2>5. mesh' = [mesh EXCEPT !.trs = Take(mesh.trs, Len(s) - 1), !.tria = PutIn(mesh.tria, s, P)]
    BY <2>2, <2>3, <2>4 DEF CutTria
  <2>6. at' = k + 1 /\ hash' = hash
    BY DEF CutTria, anaelt
  <2> QED
    BY <1>2, <2>4, <2>5, <2>6
<1>14. Len(H) = n /\ s[1] = k
  <2>1. H \in Seq(0..m.trs.max)
    BY <1>3, <1>7, <1>9, MeshParts, HeadsSeq
  <2>2. PICK S : S = 0..m.trs.max
    OBVIOUS
  <2>3. H \in Seq(S) /\ k \in S
    BY <1>3, <2>1, <2>2, MeshParts, MeshAssumption
  <2>4. <<k>> \in Seq(S) /\ Len(<<k>>) = 1
    BY <2>3
  <2>5. Len(s) = 1 + Len(H) /\ Len(H) \in Nat
    BY <1>7, <2>3, <2>4
  <2>6. s[1] = k
    BY <1>7, <2>3, <2>4
  <2> QED
    BY <1>9, <1>13, <2>5, <2>6
<1>15. m2 = [pts |-> m.pts, trs |-> Take(m.trs, n), point |-> m.point, tria |-> PutIn(m.tria, s, P)]
  <2>1. m = [pts |-> m.pts, trs |-> m.trs, point |-> m.point, tria |-> m.tria]
    BY <1>3 DEF MeshSet
  <2>2. Len(s) - 1 = n
    BY <1>9, <1>13
  <2>3. m2 = [m EXCEPT !.trs = Take(m.trs, n), !.tria = PutIn(m.tria, s, P)]
    BY <1>13, <2>2
  <2> QED
    BY <2>1, <2>3
<1>16. Placed(m, m2, s, P)
  <2>1. m \in MeshSet /\ Lists(m) /\ k \in Live(m.trs) /\ n \in {1, 2, 3}
    BY <1>3, <1>4, <1>9
  <2>2. DOMAIN P = 1..(n + 1) /\ \A j \in DOMAIN P : P[j] \in TriaSet
    BY <1>9
  <2>3. H = Heads(m.trs, n) /\ Len(H) = n /\ s = <<k>> \o H
    BY <1>7, <1>14
  <2> QED
    BY <1>15, <2>1, <2>2, <2>3, SlotsTaken
<1>17. Cutting(m2, tab, k + 1, tr, D \union {k})
  <2>1. at \in Int /\ k \in Int
    BY <1>3
  <2>2. CutOf(tr[k], Table(tab)) # {} /\ P = CutUp(tr[k], Table(tab))
    BY <1>2, <1>4, <1>5, <1>7
  <2>3. \A l \in DOMAIN tr \ D : l \in Int /\ (l >= at /\ CutOf(tr[l], Table(tab)) # {} => k <= l)
    BY <1>2, <1>6
  <2> QED
    BY <1>3, <1>5, <1>14, <1>16, <2>1, <2>2, <2>3, PlacedCuts
<1>18. Cutting(mesh', hash', at', tr, D \union {k}) /\ at' \in Nat
  BY <1>2, <1>13, <1>17
<1> QED
  BY <1>18 DEF CutInv

(* Then no triangle is left to cut.                                        *)
LEMMA CutEndKeeps ==
  ASSUME CutInv, CutEnd
  PROVE  stage' = "hash" /\ HashInv'
<1>1. PICK tr, D : Cutting(mesh, hash, at, tr, D)
  BY DEF CutInv
<1>2. at \in Nat /\ mesh \in MeshSet
  BY <1>1 DEF CutInv, Cutting
<1>3. ASSUME NEW k \in DOMAIN tr \ D PROVE CutOf(tr[k], Table(hash)) = {}
  <2>1. /\ k \in Live(mesh.trs) /\ mesh.tria[k] = tr[k]
        /\ k < at => CutOf(tr[k], Table(hash)) = {}
    BY <1>1 DEF Cutting
  <2>2. k \in Int
    BY <1>2, <2>1, MeshParts
  <2>3. k >= at => CutEdges(k) = {}
    BY <2>1 DEF CutEnd, ToCut
  <2> QED
    BY <1>2, <2>1, <2>2, <2>3, CutEdgesIs
<1>4. Conforming(Trs(mesh)) /\ Tabled(mesh, Trs(mesh), {})
  BY <1>1, <1>3, CutsDone
<1>5. mesh' = mesh /\ stage' = "hash"
  BY DEF CutEnd, StartWalk
<1> QED
  BY <1>2, <1>4, <1>5 DEF HashInv

(* MMG2D_hashTria: each triangle is given the ones that share its edges.   *)
LEMMA HashTriaKeeps ==
  ASSUME HashInv, HashTria
  PROVE  Intact(mesh)' /\ stage' = "collapse" /\ at' = 1
<1>1. PICK m, m2 : m = mesh /\ m2 = mesh'
  OBVIOUS
<1>2. m \in MeshSet /\ Conforming(Trs(m)) /\ Tabled(m, Trs(m), {}) /\ NTMax \in Nat
  BY <1>1, MeshAssumption DEF HashInv
<1>3. m.tria \in [1..NTMax -> TriaSet] /\ Live(m.trs) \subseteq 1..NTMax
      /\ m = [pts |-> m.pts, trs |-> m.trs, point |-> m.point, tria |-> m.tria]
  BY <1>2, MeshParts DEF MeshSet
<1>4. PICK T : T = [k \in 1..NTMax |-> IF k \in Live(m.trs)
                                       THEN [m.tria[k] EXCEPT !.adja = [i \in Local |-> HashAdja(<<k, i>>)]]
                                       ELSE m.tria[k]]
  OBVIOUS
<1>5. m2 = [m EXCEPT !.tria = T]
  BY <1>1, <1>4 DEF HashTria
<1>6. m2.pts = m.pts /\ m2.trs = m.trs /\ m2.point = m.point /\ m2.tria = T
      /\ m2 = [pts |-> m.pts, trs |-> m.trs, point |-> m.point, tria |-> T]
  BY <1>3, <1>5
<1>7. ASSUME NEW k \in Live(m.trs)
      PROVE  /\ m.tria[k] \in TriaSet /\ T[k].v = m.tria[k].v /\ T[k].tag = m.tria[k].tag /\ T[k].ref = m.tria[k].ref
             /\ T[k].adja = [i \in Local |-> HashAdja(<<k, i>>)]
             /\ T[k] = [v |-> m.tria[k].v, tag |-> m.tria[k].tag, ref |-> m.tria[k].ref, adja |-> T[k].adja]
  <2>1. k \in 1..NTMax /\ m.tria[k] \in TriaSet
    BY <1>3
  <2>2. T[k] = [m.tria[k] EXCEPT !.adja = [i \in Local |-> HashAdja(<<k, i>>)]]
    BY <1>4, <2>1
  <2>3. m.tria[k] = [v |-> m.tria[k].v, tag |-> m.tria[k].tag, ref |-> m.tria[k].ref, adja |-> m.tria[k].adja]
    BY <2>1 DEF TriaSet
  <2> QED
    BY <2>1, <2>2, <2>3
<1>8. ASSUME NEW e \in Darts(m), NEW f \in Darts(m)
      PROVE  EdgeOf(e) = EdgeOf(f) <=> SameEnds(m, e, f)
  BY <1>1, AllDarts DEF EdgeOf, SameEnds, Vt, Nx, Pv
<1>9. ASSUME NEW e \in Darts(m)
      PROVE  Twins(e) = {f \in Darts(m) \ {e} : SameEnds(m, e, f)}
  <2>1. Twins(e) = {f \in Darts(m) \ {e} : EdgeOf(f) = EdgeOf(e)}
    BY <1>1 DEF Twins, Darts
  <2> QED
    BY <1>8, <2>1
<1>10. ASSUME NEW e \in Darts(m)
       PROVE  /\ Vt(m2, e) = Vt(m, e) /\ Tg(m2, e) = Tg(m, e) /\ Rf(m2, e) = Rf(m, e)
              /\ Ad(m2, e) = HashAdja(e)
  <2>1. e[1] \in Live(m.trs) /\ e[2] \in Local /\ e = <<e[1], e[2]>>
    BY AllDarts
  <2>2. m2.tria[e[1]].adja = [i \in Local |-> HashAdja(<<e[1], i>>)]
    BY <1>6, <1>7, <2>1
  <2>3. m2.tria[e[1]].adja[e[2]] = HashAdja(<<e[1], e[2]>>)
    BY <2>1, <2>2
  <2> QED
    BY <1>6, <1>7, <2>1, <2>3 DEF Vt, Tg, Rf, Ad
<1>11. ASSUME NEW e \in Darts(m)
       PROVE  \/ /\ HashAdja(e) = NoAdja
                 /\ \A f \in Darts(m) \ {e} : ~SameEnds(m, e, f)
              \/ HashAdja(e) \in Darts(m) \ {e} /\ SameEnds(m, e, HashAdja(e))
  BY <1>9 DEF HashAdja
<1>12. Rehashed(m, m2)
  BY <1>6, <1>10, <1>11 DEF Rehashed
<1>13. OnLive(m) /\ Used(m) /\ EndsTagged(m)
  BY <1>2, TabledDarts
<1>14. Joined(m2) /\ Tagged(m2) /\ Simple(m2)
  BY <1>2, <1>12, <1>13, RehashJoins
<1>15. OnLive(m2) /\ Used(m2)
  <2>1. Darts(m2) = Darts(m) /\ Live(m2.pts) = Live(m.pts)
    BY <1>6 DEF Darts
  <2> QED
    BY <1>10, <1>13, <2>1 DEF OnLive, Used
<1>16. \A k \in 1..NTMax : T[k] \in TriaSet
  <2> SUFFICES ASSUME NEW k \in 1..NTMax PROVE T[k] \in TriaSet
    OBVIOUS
  <2>1. CASE k \notin Live(m.trs)
    BY <1>3, <1>4, <2>1
  <2>2. CASE k \in Live(m.trs)
    <3>1. \A i \in Local : HashAdja(<<k, i>>) \in DartSet \union {NoAdja}
      <4> TAKE i \in Local
      <4>1. <<k, i>> \in Darts(m)
        BY <2>2, AsDarts
      <4>2. Darts(m) \subseteq DartSet
        BY <1>2, MeshParts
      <4> QED
        BY <1>11, <4>1, <4>2
    <3>2. T[k].adja \in [Local -> DartSet \union {NoAdja}]
      BY <1>7, <2>2, <3>1
    <3>3. m.tria[k] \in TriaSet
      BY <1>7, <2>2
    <3>4. m.tria[k].v \in [Local -> 0..NPMax] /\ m.tria[k].tag \in [Local -> SUBSET TagSet] /\ m.tria[k].ref \in Nat
      BY <3>3 DEF TriaSet
    <3>5. T[k] = [v |-> m.tria[k].v, tag |-> m.tria[k].tag, ref |-> m.tria[k].ref, adja |-> T[k].adja]
      BY <1>7, <2>2
    <3> QED
      BY <3>2, <3>4, <3>5 DEF TriaSet
  <2> QED
    BY <2>1, <2>2
<1>17. m2 \in MeshSet
  <2>1. T \in [1..NTMax -> TriaSet]
    BY <1>4, <1>16
  <2>2. m.pts \in PoolSet(NPMax) /\ m.trs \in PoolSet(NTMax) /\ m.point \in [1..NPMax -> PointSet]
    BY <1>2 DEF MeshSet
  <2> QED
    BY <1>6, <2>1, <2>2 DEF MeshSet
<1>18. Intact(mesh')
  BY <1>1, <1>14, <1>15, <1>17 DEF Intact
<1> QED
  BY <1>18 DEF HashTria, StartWalk

(* In terms of the properties that the runs check.                         *)
LEMMA IntactSays ==
  ASSUME Intact(mesh)
  PROVE  Conform /\ TagsAgree /\ NoOrphan
<1>1. Adjacent /\ TagsAgree /\ NoOrphan
  BY MeshSays DEF Intact
<1>2. ASSUME NEW k \in Trias, NEW i \in Local, NEW l \in Trias, NEW j \in Local,
             l # k, EndsOf(l, j) = EndsOf(k, i)
      PROVE  mesh.tria[k].adja[i] = <<l, j>>
  <2>1. PICK e, f : e = <<k, i>> /\ f = <<l, j>>
    OBVIOUS
  <2>2. e \in Darts(mesh) /\ f \in Darts(mesh) /\ e[1] # f[1]
    BY <1>2, <2>1 DEF Darts, Trias
  <2>3. {Vt(mesh, Nx(e)), Vt(mesh, Pv(e))} = {Vt(mesh, Nx(f)), Vt(mesh, Pv(f))}
    BY <1>2, <2>1, EndsIs
  <2>4. Ad(mesh, e) = f
    BY <2>2, <2>3 DEF Intact, Simple
  <2> QED
    BY <2>1, <2>4 DEF Ad
<1>3. ConformMesh
  BY <1>1, <1>2 DEF ConformMesh
<1> QED
  BY <1>1, <1>3 DEF Conform

(* Iteration n up to its first collapse, and all that comes after.         *)
StartOf(n) == it = n /\ stage = "mark" /\ marks = {} /\ Ready(mesh)

WaveInv(n) ==
    /\ it \in Nat /\ it >= n
    /\ it = n => \/ stage = "mark" /\ MarkInv
                 \/ stage = "create" /\ CreateInv
                 \/ stage = "cut" /\ CutInv
                 \/ stage = "hash" /\ HashInv
                 \/ stage = "collapse" /\ at \in Nat \ {0} /\ (at = 1 => Intact(mesh))
                 \/ stage \in {"giveBack", "swap", "done", "failed"}

(* Each step of the loops of MMG2D_anatri keeps this.                      *)
LEMMA WaveStep ==
  ASSUME NEW n \in Nat, WaveInv(n), WaveNext
  PROVE  WaveInv(n)'
<1>0. it \in Nat /\ it >= n
  BY DEF WaveInv
<1>1. CASE SwapEnd
  <2>1. it' = it + 1
    BY <1>1 DEF SwapEnd
  <2> QED
    BY <1>0, <2>1 DEF WaveInv
<1>2. ASSUME it' = it, it # n
      PROVE  WaveInv(n)'
  BY <1>0, <1>2 DEF WaveInv
<1>3. ~SwapEnd => it' = it
  BY DEF WaveNext, MarkEnd, NoInsert, Mark, CreatePoint, CreateEnd, NoPointLeft, CutTria, CutEnd,
         HashTria, CollapseEnd, CollapseInWalk, SwapAgain, SwapInWalk, counters
<1>4. SUFFICES ASSUME ~SwapEnd, it = n, it' = it
               PROVE  WaveInv(n)'
  BY <1>1, <1>2, <1>3
<1>5. /\ stage = "mark" => MarkInv
      /\ stage = "create" => CreateInv
      /\ stage = "cut" => CutInv
      /\ stage = "hash" => HashInv
      /\ stage = "collapse" => at \in Nat \ {0} /\ (at = 1 => Intact(mesh))
  BY <1>4 DEF WaveInv
<1>6. ASSUME \/ stage' = "mark" /\ MarkInv'
             \/ stage' = "create" /\ CreateInv'
             \/ stage' = "cut" /\ CutInv'
             \/ stage' = "hash" /\ HashInv'
             \/ stage' = "collapse" /\ at' \in Nat \ {0} /\ (at' = 1 => Intact(mesh)')
             \/ stage' \in {"giveBack", "swap", "done", "failed"}
      PROVE  WaveInv(n)'
  BY <1>0, <1>4, <1>6 DEF WaveInv
<1>7. CASE \E e \in (1..NTMax) \X Local : Mark(e)
  <2>1. PICK e \in (1..NTMax) \X Local : Mark(e)
    BY <1>7
  <2>2. stage = "mark" /\ stage' = "mark"
    BY <2>1 DEF Mark
  <2> QED
    BY <1>5, <1>6, <2>1, <2>2, MarkKeeps
<1>8. CASE MarkEnd
  <2>1. stage = "mark"
    BY <1>8 DEF MarkEnd
  <2> QED
    BY <1>5, <1>6, <1>8, <2>1, MarkEndKeeps
<1>9. CASE CreatePoint
  <2>1. stage = "create" /\ stage' = "create"
    BY <1>9 DEF CreatePoint
  <2> QED
    BY <1>5, <1>6, <1>9, <2>1, CreatePointKeeps
<1>10. CASE CreateEnd
  <2>1. stage = "create"
    BY <1>10 DEF CreateEnd
  <2> QED
    BY <1>5, <1>6, <1>10, <2>1, CreateEndKeeps
<1>11. CASE NoPointLeft
  <2>1. stage' \in {"giveBack", "failed"}
    BY <1>11 DEF NoPointLeft
  <2> QED
    BY <1>6, <2>1
<1>12. CASE \E k \in 1..NTMax : CutTria(k)
  <2>1. PICK k \in 1..NTMax : CutTria(k)
    BY <1>12
  <2>2. stage = "cut" /\ stage' \in {"cut", "failed"}
    BY <2>1 DEF CutTria
  <2> QED
    BY <1>5, <1>6, <2>1, <2>2, CutTriaKeeps
<1>13. CASE CutEnd
  <2>1. stage = "cut"
    BY <1>13 DEF CutEnd
  <2> QED
    BY <1>5, <1>6, <1>13, <2>1, CutEndKeeps
<1>14. CASE HashTria
  <2>1. stage = "hash"
    BY <1>14 DEF HashTria
  <2>2. Intact(mesh)' /\ stage' = "collapse" /\ at' = 1
    BY <1>5, <1>14, <2>1, HashTriaKeeps
  <2> QED
    BY <1>6, <2>2
<1>15. CASE CollapseInWalk
  <2>1. stage' = "collapse"
    BY <1>15 DEF CollapseInWalk
  <2>2. PICK k \in 1..NTMax : at' = k + 1
    BY <1>15 DEF CollapseInWalk, WalkOn
  <2>3. at' \in Nat \ {0} /\ at' # 1
    BY <2>2
  <2> QED
    BY <1>6, <2>1, <2>3
<1>16. CASE NoInsert \/ CollapseEnd \/ SwapAgain \/ SwapInWalk
  <2>1. stage' = "swap"
    BY <1>16 DEF NoInsert, CollapseEnd, SwapAgain, SwapInWalk, StartWalk
  <2> QED
    BY <1>6, <2>1
<1> QED
  BY <1>4, <1>7, <1>8, <1>9, <1>10, <1>11, <1>12, <1>13, <1>14, <1>15, <1>16 DEF WaveNext

(* So does no step.                                                        *)
LEMMA WaveStutter ==
  ASSUME NEW n \in Nat, WaveInv(n), UNCHANGED waveVars
  PROVE  WaveInv(n)'
<1>1. /\ mesh' = mesh /\ it' = it /\ stage' = stage /\ marks' = marks /\ hash' = hash /\ at' = at
  BY DEF waveVars
<1> QED
  BY <1>1 DEF WaveInv, MarkInv, CreateInv, CutInv, HashInv

(* Until something is collapsed or swapped. *)
Untouched == stage \notin {"swap", "done"} /\ (stage = "collapse" => at = 1)

(* Before anything is collapsed the invariant gives the properties of the  *)
(* loops.                                                                  *)
LEMMA WaveInvSays ==
  ASSUME NEW n \in Nat, WaveInv(n), it = n, Untouched
  PROVE  WaveConform /\ WaveTagsAgree /\ WaveNoOrphan
<1>1. CASE Whole
  <2>1. stage \in {"mark", "collapse"} /\ (stage = "collapse" => at = 1)
    BY <1>1 DEF Whole, Untouched
  <2>2. CASE stage = "mark"
    <3>1. Ready(mesh)
      BY <2>2 DEF WaveInv, MarkInv
    <3>2. Intact(mesh)
      BY <3>1, ReadyTabled
    <3> QED
      BY <3>2, IntactSays DEF WaveConform, WaveTagsAgree, WaveNoOrphan
  <2>3. CASE stage = "collapse"
    <3>1. Intact(mesh)
      BY <2>1, <2>3 DEF WaveInv
    <3> QED
      BY <3>1, IntactSays DEF WaveConform, WaveTagsAgree, WaveNoOrphan
  <2> QED
    BY <2>1, <2>2, <2>3
<1>2. CASE ~Whole
  BY <1>2 DEF WaveConform, WaveTagsAgree, WaveNoOrphan
<1> QED
  BY <1>1, <1>2

(* The invariant at the start of the iteration.                            *)
LEMMA StartSays ==
  ASSUME NEW n \in Nat, StartOf(n)
  PROVE  WaveInv(n)
<1>1. MarkInv
  BY DEF StartOf, MarkInv
<1> QED
  BY <1>1 DEF StartOf, WaveInv

(* WaveConform, WaveTagsAgree and WaveNoOrphan over MMG2D_anaelt and       *)
(* MMG2D_hashTria: any iteration of MMG2D_anatri that starts from a sound  *)
(* mesh, in which triangles that share an edge are adjacent, hands a mesh  *)
(* that is conform, tagged and without orphans to its first walk, whatever *)
(* edges are marked and however many vertices and triangles there is room  *)
(* for.                                                                    *)
THEOREM WaveCut ==
  ASSUME NEW CONSTANT n \in Nat
  PROVE  StartOf(n) /\ [][WaveNext]_waveVars
         => [](it = n /\ Untouched => WaveConform /\ WaveTagsAgree /\ WaveNoOrphan)
<1>1. StartOf(n) => WaveInv(n)
  BY StartSays
<1>2. WaveInv(n) /\ [WaveNext]_waveVars => WaveInv(n)'
  BY WaveStep, WaveStutter
<1>3. WaveInv(n) => (it = n /\ Untouched => WaveConform /\ WaveTagsAgree /\ WaveNoOrphan)
  BY WaveInvSays
<1> QED
  BY <1>1, <1>2, <1>3, PTL

(* In the mesh that is loaded triangles that share an edge are adjacent.   *)
LEMMA LoadedSimple == Simple(Loaded)
<1>1. PICK m : m = Loaded
  OBVIOUS
<1>2. Darts(m) = Edges /\ \A e \in Edges : Vt(m, e) = VtOf(e) /\ Ad(m, e) = Over(e)
  BY <1>1, LoadedIs
<1>3. ASSUME NEW e \in Edges, NEW f \in Edges, e[1] # f[1],
             {Vt(m, Nx(e)), Vt(m, Pv(e))} = {Vt(m, Nx(f)), Vt(m, Pv(f))}
      PROVE  Ad(m, e) = f
  <2>1. Nx(e) \in Edges /\ Pv(e) \in Edges /\ Nx(f) \in Edges /\ Pv(f) \in Edges
    BY <1>2, DartsTurn
  <2>2. {VtOf(Nx(e)), VtOf(Pv(e))} = {VtOf(Nx(f)), VtOf(Pv(f))}
    BY <1>2, <1>3, <2>1
  <2>3. Ends(e[1], e[2]) = Ends(f[1], f[2])
    BY <2>2 DEF Ends, VtOf, Nx, Pv
  <2> QED
    BY <1>2, <1>3, <2>3, LoadedEdges
<1> QED
  BY <1>1, <1>2, <1>3 DEF Simple

(* The first iteration of MMG2D_anatri starts so, for every mesh of        *)
(* LoadedAssumption.                                                       *)
THEOREM FirstCut ==
  WaveSpec => [](it = 0 /\ Untouched => WaveConform /\ WaveTagsAgree /\ WaveNoOrphan)
<1>1. WaveInit => StartOf(0)
  BY LoadedSimple, LoadedSound DEF WaveInit, Init, StartOf, Ready
<1>2. StartOf(0) => WaveInv(0)
  BY StartSays
<1>3. WaveInv(0) /\ [WaveNext]_waveVars => WaveInv(0)'
  BY WaveStep, WaveStutter
<1>4. WaveInv(0) => (it = 0 /\ Untouched => WaveConform /\ WaveTagsAgree /\ WaveNoOrphan)
  BY WaveInvSays
<1> QED
  BY <1>1, <1>2, <1>3, <1>4, PTL DEF WaveSpec
===============================================================================
