--------------------------- MODULE TetPatternsProofs ---------------------------
(***************************************************************************)
(* What the patterns of split_3d.c owe to the code that uses them, for     *)
(* every flag and every numbering of the vertices: a configuration         *)
(* renumbers vertices and edges in the same way and brings the flag to the *)
(* one of its family, the pieces use all the vertices and the points of    *)
(* the flag and no other, the simulations test these pieces, and the tags  *)
(* and reset faces of a piece tell from which vertices of the tetrahedron  *)
(* the vertices of its faces and edges come; and they meet face to face.   *)
(***************************************************************************)
EXTENDS TetPatterns, SlotPoolProofs

(* A table of four or six values.                                          *)
Is4(t, a, b, c, d) ==
    /\ DOMAIN t = Local /\ t = [i \in Local |-> t[i]]
    /\ t[0] = a /\ t[1] = b /\ t[2] = c /\ t[3] = d

Is6(t, a, b, c, d, e, f) ==
    /\ DOMAIN t = Edge /\ t = [i \in Edge |-> t[i]]
    /\ t[0] = a /\ t[1] = b /\ t[2] = c /\ t[3] = d /\ t[4] = e /\ t[5] = f

(* In x, the vertices t0, ..., t3 and the edges e0, ..., e5 play the parts *)
(* of 0, ..., 3 and 0, ..., 5.                                             *)
Numbering(x, t0, t1, t2, t3, e0, e1, e2, e3, e4, e5) ==
    Is4(x.tau, t0, t1, t2, t3) /\ Is6(x.taued, e0, e1, e2, e3, e4, e5)

(* An array written as a tuple.                                            *)
LEMMA ArrayOf4 ==
  ASSUME NEW a, NEW b, NEW c, NEW d
  PROVE  Is4(Array(<<a, b, c, d>>), a, b, c, d)
BY DEF Is4, Array, Local

(* The same with six values.                                               *)
LEMMA ArrayOf6 ==
  ASSUME NEW a, NEW b, NEW c, NEW d, NEW e, NEW f
  PROVE  Is6(Array(<<a, b, c, d, e, f>>), a, b, c, d, e, f)
BY DEF Is6, Array, Edge

(* The rows of the tables.                                                 *)
LEMMA Rows ==
    /\ Numberings[0] = <<0, 1, 2, 3>> /\ permedge[0] = <<0, 1, 2, 3, 4, 5>>
    /\ Numberings[1] = <<0, 2, 3, 1>> /\ permedge[1] = <<1, 2, 0, 5, 3, 4>>
    /\ Numberings[2] = <<0, 3, 1, 2>> /\ permedge[2] = <<2, 0, 1, 4, 5, 3>>
    /\ Numberings[3] = <<1, 0, 3, 2>> /\ permedge[3] = <<0, 4, 3, 2, 1, 5>>
    /\ Numberings[4] = <<1, 2, 0, 3>> /\ permedge[4] = <<3, 0, 4, 1, 5, 2>>
    /\ Numberings[5] = <<1, 3, 2, 0>> /\ permedge[5] = <<4, 3, 0, 5, 2, 1>>
    /\ Numberings[6] = <<2, 0, 1, 3>> /\ permedge[6] = <<1, 3, 5, 0, 2, 4>>
    /\ Numberings[7] = <<2, 1, 3, 0>> /\ permedge[7] = <<3, 5, 1, 4, 0, 2>>
    /\ Numberings[8] = <<2, 3, 0, 1>> /\ permedge[8] = <<5, 1, 3, 2, 4, 0>>
    /\ Numberings[9] = <<3, 0, 2, 1>> /\ permedge[9] = <<2, 5, 4, 1, 0, 3>>
    /\ Numberings[10] = <<3, 1, 0, 2>> /\ permedge[10] = <<4, 2, 5, 0, 3, 1>>
    /\ Numberings[11] = <<3, 2, 1, 0>> /\ permedge[11] = <<5, 4, 2, 3, 1, 0>>
BY DEF Numberings, permedge, Array

(* The twelve direct numberings.                                           *)
LEMMA CfgNumbering ==
    /\ Numbering(Cfg(0), 0, 1, 2, 3, 0, 1, 2, 3, 4, 5)
    /\ Numbering(Cfg(1), 0, 2, 3, 1, 1, 2, 0, 5, 3, 4)
    /\ Numbering(Cfg(2), 0, 3, 1, 2, 2, 0, 1, 4, 5, 3)
    /\ Numbering(Cfg(3), 1, 0, 3, 2, 0, 4, 3, 2, 1, 5)
    /\ Numbering(Cfg(4), 1, 2, 0, 3, 3, 0, 4, 1, 5, 2)
    /\ Numbering(Cfg(5), 1, 3, 2, 0, 4, 3, 0, 5, 2, 1)
    /\ Numbering(Cfg(6), 2, 0, 1, 3, 1, 3, 5, 0, 2, 4)
    /\ Numbering(Cfg(7), 2, 1, 3, 0, 3, 5, 1, 4, 0, 2)
    /\ Numbering(Cfg(8), 2, 3, 0, 1, 5, 1, 3, 2, 4, 0)
    /\ Numbering(Cfg(9), 3, 0, 2, 1, 2, 5, 4, 1, 0, 3)
    /\ Numbering(Cfg(10), 3, 1, 0, 2, 4, 2, 5, 0, 3, 1)
    /\ Numbering(Cfg(11), 3, 2, 1, 0, 5, 4, 2, 3, 1, 0)
BY Rows, ArrayOf4, ArrayOf6 DEF Numbering, Cfg

(* Those that split3op makes by a symmetry.                                *)
LEMMA CfgSymNumbering ==
  ASSUME NEW n, NEW t0, NEW t1, NEW t2, NEW t3,
         NEW e0, NEW e1, NEW e2, NEW e3, NEW e4, NEW e5,
         Numbering(Cfg(n), t0, t1, t2, t3, e0, e1, e2, e3, e4, e5)
  PROVE  Numbering(CfgSym(n), t0, t2, t1, t3, e1, e0, e2, e3, e5, e4)
<1> DEFINE vs == Array(<<0, 2, 1, 3>>)
           es == Array(<<1, 0, 2, 3, 5, 4>>)
           c  == Cfg(n)
<1>1. Is4(vs, 0, 2, 1, 3) /\ Is6(es, 1, 0, 2, 3, 5, 4)
  BY ArrayOf4, ArrayOf6
<1>2. CfgSym(n) = [tau |-> [i \in Local |-> c.tau[vs[i]]], taued |-> [i \in Edge |-> c.taued[es[i]]]]
  BY DEF CfgSym
<1>3. Numbering(c, t0, t1, t2, t3, e0, e1, e2, e3, e4, e5)
  OBVIOUS
<1> HIDE DEF vs, es, c
<1>4. Is4(CfgSym(n).tau, t0, t2, t1, t3)
  BY <1>1, <1>2, <1>3 DEF Numbering, Is4, Is6, Local, Edge
<1>5. Is6(CfgSym(n).taued, e1, e0, e2, e3, e5, e4)
  BY <1>1, <1>2, <1>3 DEF Numbering, Is4, Is6, Local, Edge
<1> QED
  BY <1>4, <1>5 DEF Numbering

(* The ends of the edges.                                                  *)
LEMMA EdgeEnds ==
    /\ iare[0] = {0, 1} /\ iare[1] = {0, 2} /\ iare[2] = {0, 3}
    /\ iare[3] = {1, 2} /\ iare[4] = {1, 3} /\ iare[5] = {2, 3}
BY DEF iare, Array

(* Vertices and edges are renumbered one to one and in the same way.       *)
Consistent(c) ==
    /\ c.tau \in [Local -> Local] /\ c.taued \in [Edge -> Edge]
    /\ \A i, j \in Local : c.tau[i] = c.tau[j] => i = j
    /\ \A i \in Local : \E a \in Local : c.tau[a] = i
    /\ \A e \in Edge : \E a \in Edge : c.taued[a] = e
    /\ iare[c.taued[0]] = {c.tau[0], c.tau[1]} /\ iare[c.taued[1]] = {c.tau[0], c.tau[2]}
    /\ iare[c.taued[2]] = {c.tau[0], c.tau[3]} /\ iare[c.taued[3]] = {c.tau[1], c.tau[2]}
    /\ iare[c.taued[4]] = {c.tau[1], c.tau[3]} /\ iare[c.taued[5]] = {c.tau[2], c.tau[3]}

(* The edges of a flag, as the reference flag of its family names them.    *)
Reference(c, F) == {e \in Edge : c.taued[e] \in F}

(* A flag of bits f that the configuration c brings to the edges R.        *)
BroughtTo(c, f, R) ==
    /\ Consistent(c)
    /\ \A F \in SUBSET Edge : Bits(F) = f => Reference(c, F) = R

(* The flags of split1.                                                    *)
LEMMA split1_flags == \A f \in DOMAIN split1_cfg : BroughtTo(split1_cfg[f], f, {0})
<1> USE DEF BroughtTo, Consistent, Reference, Numbering, Is4, Is6, Bits, Local, Edge
<1>1. BroughtTo(Cfg(0), 1, {0})
  BY CfgNumbering, EdgeEnds
<1>2. BroughtTo(Cfg(6), 2, {0})
  BY CfgNumbering, EdgeEnds
<1>3. BroughtTo(Cfg(2), 4, {0})
  BY CfgNumbering, EdgeEnds
<1>4. BroughtTo(Cfg(4), 8, {0})
  BY CfgNumbering, EdgeEnds
<1>5. BroughtTo(Cfg(10), 16, {0})
  BY CfgNumbering, EdgeEnds
<1>6. BroughtTo(Cfg(11), 32, {0})
  BY CfgNumbering, EdgeEnds
<1> HIDE DEF BroughtTo, Consistent, Reference, Numbering, Is4, Is6, Bits, Local, Edge
<1> QED
  BY <1>1, <1>2, <1>3, <1>4, <1>5, <1>6 DEF split1_cfg

(* The flags of split2sf.                                                  *)
LEMMA split2sf_flags == \A f \in DOMAIN split2sf_cfg : BroughtTo(split2sf_cfg[f], f, {4, 5})
<1> USE DEF BroughtTo, Consistent, Reference, Numbering, Is4, Is6, Bits, Local, Edge
<1>1. BroughtTo(Cfg(0), 48, {4, 5})
  BY CfgNumbering, EdgeEnds
<1>2. BroughtTo(Cfg(1), 24, {4, 5})
  BY CfgNumbering, EdgeEnds
<1>3. BroughtTo(Cfg(2), 40, {4, 5})
  BY CfgNumbering, EdgeEnds
<1>4. BroughtTo(Cfg(5), 6, {4, 5})
  BY CfgNumbering, EdgeEnds
<1>5. BroughtTo(Cfg(3), 34, {4, 5})
  BY CfgNumbering, EdgeEnds
<1>6. BroughtTo(Cfg(4), 36, {4, 5})
  BY CfgNumbering, EdgeEnds
<1>7. BroughtTo(Cfg(6), 20, {4, 5})
  BY CfgNumbering, EdgeEnds
<1>8. BroughtTo(Cfg(7), 5, {4, 5})
  BY CfgNumbering, EdgeEnds
<1>9. BroughtTo(Cfg(8), 17, {4, 5})
  BY CfgNumbering, EdgeEnds
<1>10. BroughtTo(Cfg(9), 9, {4, 5})
  BY CfgNumbering, EdgeEnds
<1>11. BroughtTo(Cfg(11), 3, {4, 5})
  BY CfgNumbering, EdgeEnds
<1>12. BroughtTo(Cfg(10), 10, {4, 5})
  BY CfgNumbering, EdgeEnds
<1> HIDE DEF BroughtTo, Consistent, Reference, Numbering, Is4, Is6, Bits, Local, Edge
<1> QED
  BY <1>1, <1>2, <1>3, <1>4, <1>5, <1>6, <1>7, <1>8, <1>9, <1>10, <1>11, <1>12 DEF split2sf_cfg

(* The flags of split2.                                                    *)
LEMMA split2_flags == \A f \in DOMAIN split2_cfg : BroughtTo(split2_cfg[f], f, {0, 5})
<1> USE DEF BroughtTo, Consistent, Reference, Numbering, Is4, Is6, Bits, Local, Edge
<1>1. BroughtTo(Cfg(0), 33, {0, 5})
  BY CfgNumbering, EdgeEnds
<1>2. BroughtTo(Cfg(10), 18, {0, 5})
  BY CfgNumbering, EdgeEnds
<1>3. BroughtTo(Cfg(2), 12, {0, 5})
  BY CfgNumbering, EdgeEnds
<1> HIDE DEF BroughtTo, Consistent, Reference, Numbering, Is4, Is6, Bits, Local, Edge
<1> QED
  BY <1>1, <1>2, <1>3 DEF split2_cfg

(* The flags of split3.                                                    *)
LEMMA split3_flags == \A f \in DOMAIN split3_cfg : BroughtTo(split3_cfg[f], f, {0, 1, 3})
<1> USE DEF BroughtTo, Consistent, Reference, Numbering, Is4, Is6, Bits, Local, Edge
<1>1. BroughtTo(Cfg(0), 11, {0, 1, 3})
  BY CfgNumbering, EdgeEnds
<1>2. BroughtTo(Cfg(2), 21, {0, 1, 3})
  BY CfgNumbering, EdgeEnds
<1>3. BroughtTo(Cfg(9), 38, {0, 1, 3})
  BY CfgNumbering, EdgeEnds
<1>4. BroughtTo(Cfg(5), 56, {0, 1, 3})
  BY CfgNumbering, EdgeEnds
<1> HIDE DEF BroughtTo, Consistent, Reference, Numbering, Is4, Is6, Bits, Local, Edge
<1> QED
  BY <1>1, <1>2, <1>3, <1>4 DEF split3_cfg

(* The flags of split3cone.                                                *)
LEMMA split3cone_flags == \A f \in DOMAIN split3cone_cfg : BroughtTo(split3cone_cfg[f], f, {0, 1, 2})
<1> USE DEF BroughtTo, Consistent, Reference, Numbering, Is4, Is6, Bits, Local, Edge
<1>1. BroughtTo(Cfg(0), 7, {0, 1, 2})
  BY CfgNumbering, EdgeEnds
<1>2. BroughtTo(Cfg(4), 25, {0, 1, 2})
  BY CfgNumbering, EdgeEnds
<1>3. BroughtTo(Cfg(6), 42, {0, 1, 2})
  BY CfgNumbering, EdgeEnds
<1>4. BroughtTo(Cfg(10), 52, {0, 1, 2})
  BY CfgNumbering, EdgeEnds
<1> HIDE DEF BroughtTo, Consistent, Reference, Numbering, Is4, Is6, Bits, Local, Edge
<1> QED
  BY <1>1, <1>2, <1>3, <1>4 DEF split3cone_cfg

(* The flags of split3op.                                                  *)
LEMMA split3op_flags == \A f \in DOMAIN split3op_cfg : BroughtTo(split3op_cfg[f], f, {0, 1, 5})
<1>1. /\ Numbering(CfgSym(0), 0, 2, 1, 3, 1, 0, 2, 3, 5, 4)
      /\ Numbering(CfgSym(2), 0, 1, 3, 2, 0, 2, 1, 4, 3, 5)
      /\ Numbering(CfgSym(10), 3, 0, 1, 2, 2, 4, 5, 0, 1, 3)
      /\ Numbering(CfgSym(1), 0, 3, 2, 1, 2, 1, 0, 5, 4, 3)
      /\ Numbering(CfgSym(11), 3, 1, 2, 0, 4, 5, 2, 3, 0, 1)
      /\ Numbering(CfgSym(4), 1, 0, 2, 3, 0, 3, 4, 1, 2, 5)
  BY CfgNumbering, CfgSymNumbering
<1> USE DEF BroughtTo, Consistent, Reference, Numbering, Is4, Is6, Bits, Local, Edge
<1>2. BroughtTo(Cfg(0), 35, {0, 1, 5})
  BY CfgNumbering, EdgeEnds
<1>3. BroughtTo(CfgSym(0), 19, {0, 1, 5})
  BY <1>1, EdgeEnds
<1>4. BroughtTo(Cfg(2), 13, {0, 1, 5})
  BY CfgNumbering, EdgeEnds
<1>5. BroughtTo(CfgSym(2), 37, {0, 1, 5})
  BY <1>1, EdgeEnds
<1>6. BroughtTo(Cfg(10), 22, {0, 1, 5})
  BY CfgNumbering, EdgeEnds
<1>7. BroughtTo(CfgSym(10), 28, {0, 1, 5})
  BY <1>1, EdgeEnds
<1>8. BroughtTo(Cfg(6), 26, {0, 1, 5})
  BY CfgNumbering, EdgeEnds
<1>9. BroughtTo(CfgSym(1), 14, {0, 1, 5})
  BY <1>1, EdgeEnds
<1>10. BroughtTo(Cfg(11), 49, {0, 1, 5})
  BY CfgNumbering, EdgeEnds
<1>11. BroughtTo(CfgSym(11), 50, {0, 1, 5})
  BY <1>1, EdgeEnds
<1>12. BroughtTo(Cfg(9), 44, {0, 1, 5})
  BY CfgNumbering, EdgeEnds
<1>13. BroughtTo(CfgSym(4), 41, {0, 1, 5})
  BY <1>1, EdgeEnds
<1> HIDE DEF BroughtTo, Consistent, Reference, Numbering, Is4, Is6, Bits, Local, Edge
<1> QED
  BY <1>2, <1>3, <1>4, <1>5, <1>6, <1>7, <1>8, <1>9, <1>10, <1>11, <1>12, <1>13 DEF split3op_cfg

(* The flags of split4sf.                                                  *)
LEMMA split4sf_flags == \A f \in DOMAIN split4sf_cfg : BroughtTo(split4sf_cfg[f], f, {0, 1, 2, 4})
<1> USE DEF BroughtTo, Consistent, Reference, Numbering, Is4, Is6, Bits, Local, Edge
<1>1. BroughtTo(Cfg(0), 23, {0, 1, 2, 4})
  BY CfgNumbering, EdgeEnds
<1>2. BroughtTo(Cfg(5), 29, {0, 1, 2, 4})
  BY CfgNumbering, EdgeEnds
<1>3. BroughtTo(Cfg(9), 53, {0, 1, 2, 4})
  BY CfgNumbering, EdgeEnds
<1>4. BroughtTo(Cfg(10), 60, {0, 1, 2, 4})
  BY CfgNumbering, EdgeEnds
<1>5. BroughtTo(Cfg(4), 57, {0, 1, 2, 4})
  BY CfgNumbering, EdgeEnds
<1>6. BroughtTo(Cfg(8), 58, {0, 1, 2, 4})
  BY CfgNumbering, EdgeEnds
<1>7. BroughtTo(Cfg(3), 27, {0, 1, 2, 4})
  BY CfgNumbering, EdgeEnds
<1>8. BroughtTo(Cfg(1), 15, {0, 1, 2, 4})
  BY CfgNumbering, EdgeEnds
<1>9. BroughtTo(Cfg(7), 43, {0, 1, 2, 4})
  BY CfgNumbering, EdgeEnds
<1>10. BroughtTo(Cfg(2), 39, {0, 1, 2, 4})
  BY CfgNumbering, EdgeEnds
<1>11. BroughtTo(Cfg(11), 54, {0, 1, 2, 4})
  BY CfgNumbering, EdgeEnds
<1>12. BroughtTo(Cfg(6), 46, {0, 1, 2, 4})
  BY CfgNumbering, EdgeEnds
<1> HIDE DEF BroughtTo, Consistent, Reference, Numbering, Is4, Is6, Bits, Local, Edge
<1> QED
  BY <1>1, <1>2, <1>3, <1>4, <1>5, <1>6, <1>7, <1>8, <1>9, <1>10, <1>11, <1>12 DEF split4sf_cfg

(* The flags of split4op.                                                  *)
LEMMA split4op_flags == \A f \in DOMAIN split4op_cfg : BroughtTo(split4op_cfg[f], f, {1, 2, 3, 4})
<1> USE DEF BroughtTo, Consistent, Reference, Numbering, Is4, Is6, Bits, Local, Edge
<1>1. BroughtTo(Cfg(0), 30, {1, 2, 3, 4})
  BY CfgNumbering, EdgeEnds
<1>2. BroughtTo(Cfg(5), 45, {1, 2, 3, 4})
  BY CfgNumbering, EdgeEnds
<1>3. BroughtTo(Cfg(4), 51, {1, 2, 3, 4})
  BY CfgNumbering, EdgeEnds
<1> HIDE DEF BroughtTo, Consistent, Reference, Numbering, Is4, Is6, Bits, Local, Edge
<1> QED
  BY <1>1, <1>2, <1>3 DEF split4op_cfg

(* The flags of split5.                                                    *)
LEMMA split5_flags == \A f \in DOMAIN split5_cfg : BroughtTo(split5_cfg[f], f, {1, 2, 3, 4, 5})
<1> USE DEF BroughtTo, Consistent, Reference, Numbering, Is4, Is6, Bits, Local, Edge
<1>1. BroughtTo(Cfg(0), 62, {1, 2, 3, 4, 5})
  BY CfgNumbering, EdgeEnds
<1>2. BroughtTo(Cfg(6), 61, {1, 2, 3, 4, 5})
  BY CfgNumbering, EdgeEnds
<1>3. BroughtTo(Cfg(2), 59, {1, 2, 3, 4, 5})
  BY CfgNumbering, EdgeEnds
<1>4. BroughtTo(Cfg(4), 55, {1, 2, 3, 4, 5})
  BY CfgNumbering, EdgeEnds
<1>5. BroughtTo(Cfg(10), 47, {1, 2, 3, 4, 5})
  BY CfgNumbering, EdgeEnds
<1>6. BroughtTo(Cfg(11), 31, {1, 2, 3, 4, 5})
  BY CfgNumbering, EdgeEnds
<1> HIDE DEF BroughtTo, Consistent, Reference, Numbering, Is4, Is6, Bits, Local, Edge
<1> QED
  BY <1>1, <1>2, <1>3, <1>4, <1>5, <1>6 DEF split5_cfg

(* The flags of split6.                                                    *)
LEMMA split6_flags == \A f \in DOMAIN split6_cfg : BroughtTo(split6_cfg[f], f, {0, 1, 2, 3, 4, 5})
<1> USE DEF BroughtTo, Consistent, Reference, Numbering, Is4, Is6, Bits, Local, Edge
<1>1. BroughtTo(Cfg(0), 63, {0, 1, 2, 3, 4, 5})
  BY CfgNumbering, EdgeEnds
<1> HIDE DEF BroughtTo, Consistent, Reference, Numbering, Is4, Is6, Bits, Local, Edge
<1> QED
  BY <1>1 DEF split6_cfg

-------------------------------------------------------------------------------
(* The flags of the ten families.                                          *)
LEMMA Domains ==
    /\ DOMAIN split1_cfg = {1, 2, 4, 8, 16, 32}
    /\ DOMAIN split2sf_cfg = {48, 24, 40, 6, 34, 36, 20, 5, 17, 9, 3, 10}
    /\ DOMAIN split2_cfg = {33, 18, 12}
    /\ DOMAIN split3_cfg = {11, 21, 38, 56}
    /\ DOMAIN split3cone_cfg = {7, 25, 42, 52}
    /\ DOMAIN split3op_cfg = {35, 19, 13, 37, 22, 28, 26, 14, 49, 50, 44, 41}
    /\ DOMAIN split4sf_cfg = {23, 29, 53, 60, 57, 58, 27, 15, 43, 39, 54, 46}
    /\ DOMAIN split4op_cfg = {30, 45, 51}
    /\ DOMAIN split5_cfg = {62, 61, 59, 55, 47, 31}
    /\ DOMAIN split6_cfg = {63}
BY DEF split1_cfg, split2sf_cfg, split2_cfg, split3_cfg, split3cone_cfg, split3op_cfg, split4sf_cfg, split4op_cfg, split5_cfg, split6_cfg

(* A flag has the numbering and the pieces of its family.                  *)
OfFamily(f, v, cfg, pieces) == Configuration[f] = cfg[f] /\ Pieces(f, v) = pieces

(* So it is for the flags of each of the ten families.                     *)
LEMMA FamilyOf ==
  ASSUME NEW v
  PROVE  /\ \A f \in DOMAIN split1_cfg : OfFamily(f, v, split1_cfg, split1)
         /\ \A f \in DOMAIN split2sf_cfg : OfFamily(f, v, split2sf_cfg, split2sf(split2sf_cfg[f], v))
         /\ \A f \in DOMAIN split2_cfg : OfFamily(f, v, split2_cfg, split2)
         /\ \A f \in DOMAIN split3_cfg : OfFamily(f, v, split3_cfg, split3)
         /\ \A f \in DOMAIN split3cone_cfg : OfFamily(f, v, split3cone_cfg, split3cone(split3cone_cfg[f], v))
         /\ \A f \in DOMAIN split3op_cfg : OfFamily(f, v, split3op_cfg, split3op(split3op_cfg[f], v))
         /\ \A f \in DOMAIN split4sf_cfg : OfFamily(f, v, split4sf_cfg, split4sf(split4sf_cfg[f], v))
         /\ \A f \in DOMAIN split4op_cfg : OfFamily(f, v, split4op_cfg, split4op(split4op_cfg[f], v))
         /\ \A f \in DOMAIN split5_cfg : OfFamily(f, v, split5_cfg, split5(split5_cfg[f], v))
         /\ \A f \in DOMAIN split6_cfg : OfFamily(f, v, split6_cfg, split6)
<1>1. \A f \in DOMAIN split1_cfg : OfFamily(f, v, split1_cfg, split1)
  BY Domains DEF OfFamily, Configuration, Pieces
<1>2. \A f \in DOMAIN split2sf_cfg : OfFamily(f, v, split2sf_cfg, split2sf(split2sf_cfg[f], v))
  BY Domains DEF OfFamily, Configuration, Pieces
<1>3. \A f \in DOMAIN split2_cfg : OfFamily(f, v, split2_cfg, split2)
  BY Domains DEF OfFamily, Configuration, Pieces
<1>4. \A f \in DOMAIN split3_cfg : OfFamily(f, v, split3_cfg, split3)
  BY Domains DEF OfFamily, Configuration, Pieces
<1>5. \A f \in DOMAIN split3cone_cfg : OfFamily(f, v, split3cone_cfg, split3cone(split3cone_cfg[f], v))
  BY Domains DEF OfFamily, Configuration, Pieces
<1>6. \A f \in DOMAIN split3op_cfg : OfFamily(f, v, split3op_cfg, split3op(split3op_cfg[f], v))
  BY Domains DEF OfFamily, Configuration, Pieces
<1>7. \A f \in DOMAIN split4sf_cfg : OfFamily(f, v, split4sf_cfg, split4sf(split4sf_cfg[f], v))
  BY Domains DEF OfFamily, Configuration, Pieces
<1>8. \A f \in DOMAIN split4op_cfg : OfFamily(f, v, split4op_cfg, split4op(split4op_cfg[f], v))
  BY Domains DEF OfFamily, Configuration, Pieces
<1>9. \A f \in DOMAIN split5_cfg : OfFamily(f, v, split5_cfg, split5(split5_cfg[f], v))
  BY Domains DEF OfFamily, Configuration, Pieces
<1>10. \A f \in DOMAIN split6_cfg : OfFamily(f, v, split6_cfg, split6)
  BY Domains DEF OfFamily, Configuration, Pieces
<1> QED
  BY <1>1, <1>2, <1>3, <1>4, <1>5, <1>6, <1>7, <1>8, <1>9, <1>10

-------------------------------------------------------------------------------
(* A piece uses the vertices of the tetrahedron and points of the edges R. *)
Uses(u, R) == \A a \in 1..4 : u[a] \in Local \/ \E e \in R : u[a] = m0 + e

(* Some pieces, at least two, that use R.                                  *)
Piecewise(ps, R) ==
    /\ \E n \in Nat : n >= 2 /\ DOMAIN ps = 1..n
    /\ \A i \in DOMAIN ps : Uses(ps[i].v, R)

(* The pieces of split1.                                                   *)
LEMMA split1_uses ==
  Piecewise(split1, {0})
BY DEF split1, Piecewise, Uses, P, Local, m0, m1, m2, m3, m4, m5

(* The pieces of split2sf.                                                 *)
LEMMA split2sf_uses ==
  ASSUME NEW c, NEW v
  PROVE  Piecewise(split2sf(c, v), {4, 5})
BY DEF split2sf, Piecewise, Uses, P, Local, m0, m1, m2, m3, m4, m5

(* The pieces of split2.                                                   *)
LEMMA split2_uses ==
  Piecewise(split2, {0, 5})
BY DEF split2, Piecewise, Uses, P, Local, m0, m1, m2, m3, m4, m5

(* The pieces of split3.                                                   *)
LEMMA split3_uses ==
  Piecewise(split3, {0, 1, 3})
BY DEF split3, Piecewise, Uses, P, Local, m0, m1, m2, m3, m4, m5

(* The pieces of split3cone.                                               *)
LEMMA split3cone_uses ==
  ASSUME NEW c, NEW v
  PROVE  Piecewise(split3cone(c, v), {0, 1, 2})
<1> DEFINE first  == P(<<0, m0, m1, m2>>, <<K, K, K, F3, F2, F1>>, {0})
           Good(ps) == DOMAIN ps = 1..3 /\ \A i \in 1..3 : Uses(ps[i].v, {0, 1, 2})
           Follows(ps) == \A i \in 1..3 : split3cone(c, v)[i + 1] = ps[i]
<1>1. Good(ConeFrom1(c, v))
  BY DEF ConeFrom1, Uses, P, Local, m0, m1, m2
<1>2. Good(ConeFrom2(c, v))
  BY DEF ConeFrom2, Uses, P, Local, m0, m1, m2
<1>3. Good(ConeFrom3(c, v))
  BY DEF ConeFrom3, Uses, P, Local, m0, m1, m2
<1>4. /\ DOMAIN split3cone(c, v) = 1..4 /\ split3cone(c, v)[1] = first
      /\ Follows(ConeFrom1(c, v)) \/ Follows(ConeFrom2(c, v)) \/ Follows(ConeFrom3(c, v))
  BY DEF split3cone, ConeFrom1, ConeFrom2, ConeFrom3
<1>5. Uses(first.v, {0, 1, 2})
  BY DEF Uses, P, Local, m0, m1, m2
<1>6. \A i \in 1..4 : i = 1 \/ (i - 1 \in 1..3 /\ i = (i - 1) + 1)
  OBVIOUS
<1> HIDE DEF first
<1> QED
  BY <1>1, <1>2, <1>3, <1>4, <1>5, <1>6 DEF Piecewise

(* The pieces of split3op.                                                 *)
LEMMA split3op_uses ==
  ASSUME NEW c, NEW v
  PROVE  Piecewise(split3op(c, v), {0, 1, 5})
<1>1. Piecewise(Op20, {0, 1, 5})
  BY DEF Op20, Piecewise, Uses, P, Local, m0, m1, m2, m3, m4, m5
<1>2. Piecewise(Op10, {0, 1, 5})
  BY DEF Op10, Piecewise, Uses, P, Local, m0, m1, m2, m3, m4, m5
<1>3. Piecewise(Op23, {0, 1, 5})
  BY DEF Op23, Piecewise, Uses, P, Local, m0, m1, m2, m3, m4, m5
<1>4. Piecewise(Op13, {0, 1, 5})
  BY DEF Op13, Piecewise, Uses, P, Local, m0, m1, m2, m3, m4, m5
<1> QED
  BY <1>1, <1>2, <1>3, <1>4 DEF split3op

(* The pieces of split4sf.                                                 *)
LEMMA split4sf_uses ==
  ASSUME NEW c, NEW v
  PROVE  Piecewise(split4sf(c, v), {0, 1, 2, 4})
<1>1. CASE First(c, v, 1, 2)
  <2>1. CASE First(c, v, 2, 3)
    BY <1>1, <2>1 DEF split4sf, split4sf12, split4sf23, Piecewise, Uses, P, Local, m0, m1, m2, m3, m4, m5
  <2>2. CASE ~First(c, v, 2, 3)
    BY <1>1, <2>2 DEF split4sf, split4sf12, split4sf23, Piecewise, Uses, P, Local, m0, m1, m2, m3, m4, m5
  <2> QED
    BY <2>1, <2>2
<1>2. CASE ~First(c, v, 1, 2)
  <2>1. CASE First(c, v, 2, 3)
    BY <1>2, <2>1 DEF split4sf, split4sf12, split4sf23, Piecewise, Uses, P, Local, m0, m1, m2, m3, m4, m5
  <2>2. CASE ~First(c, v, 2, 3)
    BY <1>2, <2>2 DEF split4sf, split4sf12, split4sf23, Piecewise, Uses, P, Local, m0, m1, m2, m3, m4, m5
  <2> QED
    BY <2>1, <2>2
<1> QED
  BY <1>1, <1>2

(* The pieces of split4op.                                                 *)
LEMMA split4op_uses ==
  ASSUME NEW c, NEW v
  PROVE  Piecewise(split4op(c, v), {1, 2, 3, 4})
<1>1. CASE First(c, v, 0, 1)
  <2>1. CASE First(c, v, 2, 3)
    BY <1>1, <2>1 DEF split4op, split4op01, split4op23, Piecewise, Uses, P, Local, m0, m1, m2, m3, m4, m5
  <2>2. CASE ~First(c, v, 2, 3)
    BY <1>1, <2>2 DEF split4op, split4op01, split4op23, Piecewise, Uses, P, Local, m0, m1, m2, m3, m4, m5
  <2> QED
    BY <2>1, <2>2
<1>2. CASE ~First(c, v, 0, 1)
  <2>1. CASE First(c, v, 2, 3)
    BY <1>2, <2>1 DEF split4op, split4op01, split4op23, Piecewise, Uses, P, Local, m0, m1, m2, m3, m4, m5
  <2>2. CASE ~First(c, v, 2, 3)
    BY <1>2, <2>2 DEF split4op, split4op01, split4op23, Piecewise, Uses, P, Local, m0, m1, m2, m3, m4, m5
  <2> QED
    BY <2>1, <2>2
<1> QED
  BY <1>1, <1>2

(* The pieces of split5.                                                   *)
LEMMA split5_uses ==
  ASSUME NEW c, NEW v
  PROVE  Piecewise(split5(c, v), {1, 2, 3, 4, 5})
<1>1. CASE First(c, v, 0, 1)
  BY <1>1 DEF split5, split5_01, Piecewise, Uses, P, Local, m0, m1, m2, m3, m4, m5
<1>2. CASE ~First(c, v, 0, 1)
  BY <1>2 DEF split5, split5_01, Piecewise, Uses, P, Local, m0, m1, m2, m3, m4, m5
<1> QED
  BY <1>1, <1>2

(* The pieces of split6.                                                   *)
LEMMA split6_uses ==
  Piecewise(split6, {0, 1, 2, 3, 4, 5})
BY DEF split6, Piecewise, Uses, P, Local, m0, m1, m2, m3, m4, m5

-------------------------------------------------------------------------------
(* The bits of a nonempty set of edges.                                    *)
LEMMA FlagNumber ==
  ASSUME NEW F \in SUBSET Edge, F # {}
  PROVE  Bits(F) \in 1..63
<1> DEFINE f == Bits(F)
<1>1. 0 \in F \/ 1 \in F \/ 2 \in F \/ 3 \in F \/ 4 \in F \/ 5 \in F
  <2>1. PICK e \in Edge : e \in F
    OBVIOUS
  <2> QED
    BY <2>1 DEF Edge
<1> DEFINE bit(e, n) == IF e \in F THEN n ELSE 0
<1>2. /\ bit(0, 1) \in {0, 1} /\ bit(1, 2) \in {0, 2} /\ bit(2, 4) \in {0, 4}
      /\ bit(3, 8) \in {0, 8} /\ bit(4, 16) \in {0, 16} /\ bit(5, 32) \in {0, 32}
  OBVIOUS
<1>3. bit(0, 1) # 0 \/ bit(1, 2) # 0 \/ bit(2, 4) # 0 \/ bit(3, 8) # 0 \/ bit(4, 16) # 0
      \/ bit(5, 32) # 0
  BY <1>1
<1>4. f = bit(0, 1) + bit(1, 2) + bit(2, 4) + bit(3, 8) + bit(4, 16) + bit(5, 32)
  BY DEF Bits
<1> HIDE DEF bit, f
<1> QED
  BY <1>2, <1>3, <1>4 DEF f

(* Whatever edges carry a point, there are at least two pieces, and they   *)
(* use no point but those of the flag.                                     *)
LEMMA PiecesUse ==
  ASSUME NEW v, NEW F \in SUBSET Edge, F # {}
  PROVE  LET f == Bits(F)  c == Configuration[f]
         IN Consistent(c) /\ Piecewise(Pieces(f, v), Reference(c, F))
<1> DEFINE f == Bits(F)
           Good(c, ps) == Consistent(c) /\ Piecewise(ps, Reference(c, F))
<1>1. f \in 1..63
  BY FlagNumber
<1>2. \A c, R : BroughtTo(c, f, R) => Consistent(c) /\ Reference(c, F) = R
  BY DEF BroughtTo
<1>3. \A cfg, ps : OfFamily(f, v, cfg, ps) /\ Good(cfg[f], ps) => Good(Configuration[f], Pieces(f, v))
  BY DEF OfFamily
<1>4. PICK cfg : f \in DOMAIN cfg /\
                 cfg \in {split1_cfg, split2sf_cfg, split2_cfg, split3_cfg, split3cone_cfg,
                          split3op_cfg, split4sf_cfg, split4op_cfg, split5_cfg, split6_cfg}
  BY <1>1, Domains
<1> HIDE DEF f
<1>5. \E ps : OfFamily(f, v, cfg, ps) /\ Good(cfg[f], ps)
  <2>1. CASE cfg = split1_cfg
    BY <1>2, <1>4, <2>1, FamilyOf, split1_flags, split1_uses
  <2>2. CASE cfg = split2sf_cfg
    BY <1>2, <1>4, <2>2, FamilyOf, split2sf_flags, split2sf_uses
  <2>3. CASE cfg = split2_cfg
    BY <1>2, <1>4, <2>3, FamilyOf, split2_flags, split2_uses
  <2>4. CASE cfg = split3_cfg
    BY <1>2, <1>4, <2>4, FamilyOf, split3_flags, split3_uses
  <2>5. CASE cfg = split3cone_cfg
    BY <1>2, <1>4, <2>5, FamilyOf, split3cone_flags, split3cone_uses
  <2>6. CASE cfg = split3op_cfg
    BY <1>2, <1>4, <2>6, FamilyOf, split3op_flags, split3op_uses
  <2>7. CASE cfg = split4sf_cfg
    BY <1>2, <1>4, <2>7, FamilyOf, split4sf_flags, split4sf_uses
  <2>8. CASE cfg = split4op_cfg
    BY <1>2, <1>4, <2>8, FamilyOf, split4op_flags, split4op_uses
  <2>9. CASE cfg = split5_cfg
    BY <1>2, <1>4, <2>9, FamilyOf, split5_flags, split5_uses
  <2>10. CASE cfg = split6_cfg
    BY <1>2, <1>4, <2>10, FamilyOf, split6_flags, split6_uses
  <2> QED
    BY <1>4, <2>1, <2>2, <2>3, <2>4, <2>5, <2>6, <2>7, <2>8, <2>9, <2>10
<1> QED
  BY <1>3, <1>5 DEF f

(* The place of a vertex of a piece in the tetrahedron itself.             *)
Place(w, c) == IF w < m0 THEN c.tau[w] ELSE m0 + c.taued[w - m0]

(* A renumbered piece has the same vertices, each at its place.            *)
LEMMA PlacedAt ==
  ASSUME NEW c, Consistent(c), NEW u
  PROVE  /\ PlacedVertices(u, c) = [i \in Local |-> PlacedVertices(u, c)[i]]
         /\ \A i \in Local : \E a \in 1..4 : PlacedVertices(u, c)[i] = Place(u[a], c)
         /\ \A a \in 1..4 : \E i \in Local : PlacedVertices(u, c)[i] = Place(u[a], c)
<1>1. \A i \in Local : At(c.tau, i) \in Local /\ c.tau[At(c.tau, i)] = i
  BY DEF Consistent, At
<1>2. \A a \in Local : c.tau[a] \in Local /\ At(c.tau, c.tau[a]) = a
  BY <1>1 DEF Consistent
<1>3. \A i \in Local : PlacedVertices(u, c)[i] = Place(u[At(c.tau, i) + 1], c)
  BY DEF PlacedVertices, Place
<1>4. \A i \in Local : At(c.tau, i) + 1 \in 1..4
  BY <1>1 DEF Local
<1>5. \A a \in 1..4 : a - 1 \in Local /\ (a - 1) + 1 = a
  BY DEF Local
<1>6. PlacedVertices(u, c) = [i \in Local |-> PlacedVertices(u, c)[i]]
  BY DEF PlacedVertices
<1>7. \A a \in 1..4 : \E i \in Local : PlacedVertices(u, c)[i] = Place(u[a], c)
  <2> TAKE a \in 1..4
  <2>1. c.tau[a - 1] \in Local /\ At(c.tau, c.tau[a - 1]) = a - 1
    BY <1>2, <1>5
  <2>2. PlacedVertices(u, c)[c.tau[a - 1]] = Place(u[(a - 1) + 1], c)
    BY <1>3, <2>1
  <2> QED
    BY <1>5, <2>1, <2>2
<1> QED
  BY <1>3, <1>4, <1>6, <1>7

(* The cut of a tetrahedron: at least two pieces, whose vertices are those *)
(* of the tetrahedron and the points of the flag.                          *)
THEOREM SplitUses ==
  ASSUME NEW v, NEW F \in SUBSET Edge, F # {}
  PROVE  /\ \E n \in Nat : n >= 2 /\ DOMAIN Split(Bits(F), v) = 1..n
         /\ \A i \in DOMAIN Split(Bits(F), v) :
               Split(Bits(F), v)[i].v \in [Local -> Local \union {m0 + e : e \in F}]
<1> DEFINE f == Bits(F)
           c == Configuration[f]
           ps == Pieces(f, v)
<1>1. Consistent(c) /\ Piecewise(ps, Reference(c, F))
  BY PiecesUse
<1>2. Split(f, v) = [i \in DOMAIN ps |-> Placed(ps[i], c)]
  BY DEF Split
<1> HIDE DEF f, c, ps
<1>3. \A i \in DOMAIN ps : Split(f, v)[i].v = PlacedVertices(ps[i].v, c)
  BY <1>2 DEF Placed
<1>4. ASSUME NEW i \in DOMAIN ps
      PROVE  PlacedVertices(ps[i].v, c) \in [Local -> Local \union {m0 + e : e \in F}]
  <2> DEFINE u == ps[i].v
  <2>1. Uses(u, Reference(c, F))
    BY <1>1 DEF Piecewise
  <2> HIDE DEF u
  <2>2. \A a \in 1..4 : Place(u[a], c) \in Local \union {m0 + e : e \in F}
    <3> TAKE a \in 1..4
    <3>1. CASE u[a] \in Local
      BY <1>1, <3>1 DEF Place, Consistent, Local, m0
    <3>2. CASE \E e \in Reference(c, F) : u[a] = m0 + e
      <4>1. PICK e \in Edge : c.taued[e] \in F /\ u[a] = m0 + e
        BY <3>2 DEF Reference
      <4>2. ~(u[a] < m0) /\ u[a] - m0 = e
        BY <4>1 DEF Edge, m0
      <4> QED
        BY <4>1, <4>2 DEF Place
    <3> QED
      BY <2>1, <3>1, <3>2 DEF Uses
  <2>3. \A j \in Local : PlacedVertices(u, c)[j] \in Local \union {m0 + e : e \in F}
    BY <1>1, <2>2, PlacedAt
  <2>4. PlacedVertices(u, c) = [j \in Local |-> PlacedVertices(u, c)[j]]
    BY <1>1, PlacedAt
  <2> QED
    BY <2>3, <2>4 DEF u
<1> QED
  BY <1>1, <1>2, <1>3, <1>4 DEF Piecewise, f

-------------------------------------------------------------------------------
(* The vertices of a piece differ.                                         *)
Distinct(u) == \A a, b \in 1..4 : u[a] = u[b] => a = b

(* One of the pieces has the vertex w.                                     *)
Has(ps, w) == \E i \in DOMAIN ps : \E a \in 1..4 : ps[i].v[a] = w

(* The pieces have four vertices each, the simulation that tests us knows  *)
(* all of them, and among their vertices are those of W.                   *)
Shows(ps, us, W) ==
    /\ \E n \in Nat : DOMAIN ps = 1..n /\ ps = [k \in 1..n |-> ps[k]]
    /\ \A i \in DOMAIN ps : Distinct(ps[i].v)
    /\ \A i \in DOMAIN ps : ps[i].v \in us
    /\ \A w \in W : Has(ps, w)

(* Global numbers are compared as numbers.                                 *)
Compared(c, v) == \A i, j \in Local : ~(First(c, v, i, j) /\ First(c, v, j, i))

(* Pieces written in two parts.                                            *)
LEMMA Joined ==
  ASSUME NEW s, NEW t, NEW us, NEW V, NEW W, Shows(s, us, V), Shows(t, us, W)
  PROVE  Shows(s \o t, us, V \union W)
<1>1. IsTuple(s) /\ IsTuple(t)
  BY DEF Shows, IsTuple
<1>2. DOMAIN s = 1..Len(s) /\ DOMAIN t = 1..Len(t) /\ Len(s) \in Nat /\ Len(t) \in Nat
  BY <1>1, TupleLen
<1> DEFINE j == s \o t
<1>3. /\ IsTuple(j) /\ Len(j) = Len(s) + Len(t)
      /\ \A k \in 1..Len(s) : j[k] = s[k]
      /\ \A k \in 1..Len(t) : j[Len(s) + k] = t[k]
      /\ \A k \in DOMAIN j : k \in 1..Len(s) \/ k - Len(s) \in 1..Len(t)
  BY <1>1, TwoTuples
<1> HIDE DEF j
<1>4. DOMAIN j = 1..(Len(s) + Len(t))
  BY <1>3, TupleLen
<1>5. \A k \in DOMAIN j : (\E i \in DOMAIN s : j[k] = s[i]) \/ (\E i \in DOMAIN t : j[k] = t[i])
  <2> TAKE k \in DOMAIN j
  <2>1. CASE k \in 1..Len(s)
    BY <1>2, <1>3, <2>1
  <2>2. CASE k - Len(s) \in 1..Len(t)
    <3>1. j[Len(s) + (k - Len(s))] = t[k - Len(s)] /\ Len(s) + (k - Len(s)) = k
      BY <1>2, <1>3, <1>4, <2>2
    <3> QED
      BY <1>2, <2>2, <3>1
  <2> QED
    BY <1>3, <2>1, <2>2
<1>6. \A w : Has(s, w) => Has(j, w)
  BY <1>2, <1>3, <1>4 DEF Has
<1>7. \A w : Has(t, w) => Has(j, w)
  <2> SUFFICES ASSUME NEW w, Has(t, w) PROVE Has(j, w)
    OBVIOUS
  <2>1. PICK i \in DOMAIN t : \E a \in 1..4 : t[i].v[a] = w
    BY DEF Has
  <2>2. Len(s) + i \in DOMAIN j /\ j[Len(s) + i] = t[i]
    BY <1>2, <1>3, <1>4, <2>1
  <2> QED
    BY <2>1, <2>2 DEF Has
<1> QED
  BY <1>3, <1>5, <1>6, <1>7 DEF Shows, IsTuple, j

(* A simulation that tests more.                                           *)
LEMMA TestedToo ==
  ASSUME NEW ps, NEW us, NEW W, Shows(ps, us, W), NEW vs, us \subseteq vs, NEW V, V \subseteq W
  PROVE  Shows(ps, vs, V)
BY DEF Shows

(* The pieces of split1.                                                   *)
LEMMA split1_shows ==
  Shows(split1, split1_sim, {0, 1, 2, 3, m0})
<1>1. \E n \in Nat : DOMAIN split1 = 1..n /\ split1 = [k \in 1..n |-> split1[k]]
  BY DEF split1
<1>2. \A i \in DOMAIN split1 : Distinct(split1[i].v)
  BY DEF split1, Distinct, P, m0, m1, m2, m3, m4, m5
<1>3. \A i \in DOMAIN split1 : split1[i].v \in split1_sim
  BY DEF split1, split1_sim, P, m0, m1, m2, m3, m4, m5
<1>4. \A w \in {0, 1, 2, 3, m0} : Has(split1, w)
  BY DEF split1, Has, P, m0, m1, m2, m3, m4, m5
<1> QED
  BY <1>1, <1>2, <1>3, <1>4 DEF Shows

(* The pieces of split2.                                                   *)
LEMMA split2_shows ==
  Shows(split2, split2_sim, {0, 1, 2, 3, m0, m5})
<1>1. \E n \in Nat : DOMAIN split2 = 1..n /\ split2 = [k \in 1..n |-> split2[k]]
  BY DEF split2
<1>2. \A i \in DOMAIN split2 : Distinct(split2[i].v)
  BY DEF split2, Distinct, P, m0, m1, m2, m3, m4, m5
<1>3. \A i \in DOMAIN split2 : split2[i].v \in split2_sim
  BY DEF split2, split2_sim, P, m0, m1, m2, m3, m4, m5
<1>4. \A w \in {0, 1, 2, 3, m0, m5} : Has(split2, w)
  BY DEF split2, Has, P, m0, m1, m2, m3, m4, m5
<1> QED
  BY <1>1, <1>2, <1>3, <1>4 DEF Shows

(* The pieces of split3.                                                   *)
LEMMA split3_shows ==
  Shows(split3, split3_sim, {0, 1, 2, 3, m0, m1, m3})
<1>1. \E n \in Nat : DOMAIN split3 = 1..n /\ split3 = [k \in 1..n |-> split3[k]]
  BY DEF split3
<1>2. \A i \in DOMAIN split3 : Distinct(split3[i].v)
  BY DEF split3, Distinct, P, m0, m1, m2, m3, m4, m5
<1>3. \A i \in DOMAIN split3 : split3[i].v \in split3_sim
  BY DEF split3, split3_sim, P, m0, m1, m2, m3, m4, m5
<1>4. \A w \in {0, 1, 2, 3, m0, m1, m3} : Has(split3, w)
  BY DEF split3, Has, P, m0, m1, m2, m3, m4, m5
<1> QED
  BY <1>1, <1>2, <1>3, <1>4 DEF Shows

(* The pieces of split6.                                                   *)
LEMMA split6_shows ==
  Shows(split6, split6_sim, {0, 1, 2, 3, m0, m1, m2, m3, m4, m5})
<1>1. \E n \in Nat : DOMAIN split6 = 1..n /\ split6 = [k \in 1..n |-> split6[k]]
  BY DEF split6
<1>2. \A i \in DOMAIN split6 : Distinct(split6[i].v)
  BY DEF split6, Distinct, P, m0, m1, m2, m3, m4, m5
<1>3. \A i \in DOMAIN split6 : split6[i].v \in split6_sim
  BY DEF split6, split6_sim, P, m0, m1, m2, m3, m4, m5
<1>4. \A w \in {0, 1, 2, 3, m0, m1, m2, m3, m4, m5} : Has(split6, w)
  BY DEF split6, Has, P, m0, m1, m2, m3, m4, m5
<1> QED
  BY <1>1, <1>2, <1>3, <1>4 DEF Shows

(* The pieces of split2sf.                                                 *)
LEMMA split2sf_shows ==
  ASSUME NEW c, NEW v
  PROVE  Shows(split2sf(c, v), split2sf_sim(c, v), {0, 1, 2, 3, m4, m5})
<1>1. CASE First(c, v, 1, 2)
  <2>1. \E n \in Nat : DOMAIN split2sf(c, v) = 1..n /\ split2sf(c, v) = [k \in 1..n |-> split2sf(c, v)[k]]
    BY <1>1 DEF split2sf
  <2>2. \A i \in DOMAIN split2sf(c, v) : Distinct(split2sf(c, v)[i].v)
    BY <1>1 DEF split2sf, Distinct, P, m0, m1, m2, m3, m4, m5
  <2>3. \A i \in DOMAIN split2sf(c, v) : split2sf(c, v)[i].v \in split2sf_sim(c, v)
    BY <1>1 DEF split2sf, split2sf_sim, P, m0, m1, m2, m3, m4, m5
  <2>4. \A w \in {0, 1, 2, 3, m4, m5} : Has(split2sf(c, v), w)
    BY <1>1 DEF split2sf, Has, P, m0, m1, m2, m3, m4, m5
  <2> QED
    BY <2>1, <2>2, <2>3, <2>4 DEF Shows
<1>2. CASE ~First(c, v, 1, 2)
  <2>1. \E n \in Nat : DOMAIN split2sf(c, v) = 1..n /\ split2sf(c, v) = [k \in 1..n |-> split2sf(c, v)[k]]
    BY <1>2 DEF split2sf
  <2>2. \A i \in DOMAIN split2sf(c, v) : Distinct(split2sf(c, v)[i].v)
    BY <1>2 DEF split2sf, Distinct, P, m0, m1, m2, m3, m4, m5
  <2>3. \A i \in DOMAIN split2sf(c, v) : split2sf(c, v)[i].v \in split2sf_sim(c, v)
    BY <1>2 DEF split2sf, split2sf_sim, P, m0, m1, m2, m3, m4, m5
  <2>4. \A w \in {0, 1, 2, 3, m4, m5} : Has(split2sf(c, v), w)
    BY <1>2 DEF split2sf, Has, P, m0, m1, m2, m3, m4, m5
  <2> QED
    BY <2>1, <2>2, <2>3, <2>4 DEF Shows
<1> QED
  BY <1>1, <1>2

(* The parts of split4sf.                                                  *)
LEMMA split4sf12_shows ==
  ASSUME NEW c, NEW v
  PROVE  Shows(split4sf12(c, v), split4sf_sim(c, v), {1, 2})
<1>1. CASE First(c, v, 1, 2)
  <2>1. \E n \in Nat : DOMAIN split4sf12(c, v) = 1..n /\ split4sf12(c, v) = [k \in 1..n |-> split4sf12(c, v)[k]]
    BY <1>1 DEF split4sf12
  <2>2. \A i \in DOMAIN split4sf12(c, v) : Distinct(split4sf12(c, v)[i].v)
    BY <1>1 DEF split4sf12, Distinct, P, m0, m1, m2, m3, m4, m5
  <2>3. \A i \in DOMAIN split4sf12(c, v) : split4sf12(c, v)[i].v \in split4sf_sim(c, v)
    BY <1>1 DEF split4sf12, split4sf_sim, P, m0, m1, m2, m3, m4, m5
  <2>4. \A w \in {1, 2} : Has(split4sf12(c, v), w)
    BY <1>1 DEF split4sf12, Has, P, m0, m1, m2, m3, m4, m5
  <2> QED
    BY <2>1, <2>2, <2>3, <2>4 DEF Shows
<1>2. CASE ~First(c, v, 1, 2)
  <2>1. \E n \in Nat : DOMAIN split4sf12(c, v) = 1..n /\ split4sf12(c, v) = [k \in 1..n |-> split4sf12(c, v)[k]]
    BY <1>2 DEF split4sf12
  <2>2. \A i \in DOMAIN split4sf12(c, v) : Distinct(split4sf12(c, v)[i].v)
    BY <1>2 DEF split4sf12, Distinct, P, m0, m1, m2, m3, m4, m5
  <2>3. \A i \in DOMAIN split4sf12(c, v) : split4sf12(c, v)[i].v \in split4sf_sim(c, v)
    BY <1>2 DEF split4sf12, split4sf_sim, P, m0, m1, m2, m3, m4, m5
  <2>4. \A w \in {1, 2} : Has(split4sf12(c, v), w)
    BY <1>2 DEF split4sf12, Has, P, m0, m1, m2, m3, m4, m5
  <2> QED
    BY <2>1, <2>2, <2>3, <2>4 DEF Shows
<1> QED
  BY <1>1, <1>2

(* The second part.                                                        *)
LEMMA split4sf23_shows ==
  ASSUME NEW c, NEW v
  PROVE  Shows(split4sf23(c, v), split4sf_sim(c, v), {3})
<1>1. CASE First(c, v, 2, 3)
  <2>1. \E n \in Nat : DOMAIN split4sf23(c, v) = 1..n /\ split4sf23(c, v) = [k \in 1..n |-> split4sf23(c, v)[k]]
    BY <1>1 DEF split4sf23
  <2>2. \A i \in DOMAIN split4sf23(c, v) : Distinct(split4sf23(c, v)[i].v)
    BY <1>1 DEF split4sf23, Distinct, P, m0, m1, m2, m3, m4, m5
  <2>3. \A i \in DOMAIN split4sf23(c, v) : split4sf23(c, v)[i].v \in split4sf_sim(c, v)
    BY <1>1 DEF split4sf23, split4sf_sim, P, m0, m1, m2, m3, m4, m5
  <2>4. \A w \in {3} : Has(split4sf23(c, v), w)
    BY <1>1 DEF split4sf23, Has, P, m0, m1, m2, m3, m4, m5
  <2> QED
    BY <2>1, <2>2, <2>3, <2>4 DEF Shows
<1>2. CASE ~First(c, v, 2, 3)
  <2>1. \E n \in Nat : DOMAIN split4sf23(c, v) = 1..n /\ split4sf23(c, v) = [k \in 1..n |-> split4sf23(c, v)[k]]
    BY <1>2 DEF split4sf23
  <2>2. \A i \in DOMAIN split4sf23(c, v) : Distinct(split4sf23(c, v)[i].v)
    BY <1>2 DEF split4sf23, Distinct, P, m0, m1, m2, m3, m4, m5
  <2>3. \A i \in DOMAIN split4sf23(c, v) : split4sf23(c, v)[i].v \in split4sf_sim(c, v)
    BY <1>2 DEF split4sf23, split4sf_sim, P, m0, m1, m2, m3, m4, m5
  <2>4. \A w \in {3} : Has(split4sf23(c, v), w)
    BY <1>2 DEF split4sf23, Has, P, m0, m1, m2, m3, m4, m5
  <2> QED
    BY <2>1, <2>2, <2>3, <2>4 DEF Shows
<1> QED
  BY <1>1, <1>2

(* All its pieces.                                                         *)
LEMMA split4sf_shows ==
  ASSUME NEW c, NEW v
  PROVE  Shows(split4sf(c, v), split4sf_sim(c, v), {0, 1, 2, 3, m0, m1, m2, m4})
<1> DEFINE us == split4sf_sim(c, v)
           ps == << P(<<0, m0, m1, m2>>,  <<K, K, K, F3, F2, F1>>, {0}),
                    P(<<m2, m0, m1, m4>>, <<F2, F1, F2, F3, F2, N>>, {0, 1, 3}) >>
<1>1. Shows(ps, us, {0, m0, m1, m2, m4})
  <2>1. \E n \in Nat : DOMAIN ps = 1..n /\ ps = [k \in 1..n |-> ps[k]]
    OBVIOUS
  <2>2. \A i \in DOMAIN ps : Distinct(ps[i].v)
    BY DEF Distinct, P, m0, m1, m2, m3, m4, m5
  <2>3. \A i \in DOMAIN ps : ps[i].v \in us
    BY DEF split4sf_sim, us, P, m0, m1, m2, m3, m4, m5
  <2>4. \A w \in {0, m0, m1, m2, m4} : Has(ps, w)
    BY DEF Has, P, m0, m1, m2, m3, m4, m5
  <2> QED
    BY <2>1, <2>2, <2>3, <2>4 DEF Shows
<1>2. split4sf(c, v) = (ps \o split4sf12(c, v)) \o split4sf23(c, v)
  BY DEF split4sf
<1> HIDE DEF ps
<1>3. Shows(ps \o split4sf12(c, v), us, {0, m0, m1, m2, m4} \union {1, 2})
  BY <1>1, split4sf12_shows, Joined
<1>4. Shows(split4sf(c, v), us, ({0, m0, m1, m2, m4} \union {1, 2}) \union {3})
  BY <1>2, <1>3, split4sf23_shows, Joined
<1> QED
  BY <1>4, TestedToo

(* The parts of split4op.                                                  *)
LEMMA split4op01_shows ==
  ASSUME NEW c, NEW v
  PROVE  Shows(split4op01(c, v), split4op_sim(c, v), {0, 1, m1, m2, m3, m4})
<1>1. CASE First(c, v, 0, 1)
  <2>1. \E n \in Nat : DOMAIN split4op01(c, v) = 1..n /\ split4op01(c, v) = [k \in 1..n |-> split4op01(c, v)[k]]
    BY <1>1 DEF split4op01
  <2>2. \A i \in DOMAIN split4op01(c, v) : Distinct(split4op01(c, v)[i].v)
    BY <1>1 DEF split4op01, Distinct, P, m0, m1, m2, m3, m4, m5
  <2>3. \A i \in DOMAIN split4op01(c, v) : split4op01(c, v)[i].v \in split4op_sim(c, v)
    BY <1>1 DEF split4op01, split4op_sim, P, m0, m1, m2, m3, m4, m5
  <2>4. \A w \in {0, 1, m1, m2, m3, m4} : Has(split4op01(c, v), w)
    BY <1>1 DEF split4op01, Has, P, m0, m1, m2, m3, m4, m5
  <2> QED
    BY <2>1, <2>2, <2>3, <2>4 DEF Shows
<1>2. CASE ~First(c, v, 0, 1)
  <2>1. \E n \in Nat : DOMAIN split4op01(c, v) = 1..n /\ split4op01(c, v) = [k \in 1..n |-> split4op01(c, v)[k]]
    BY <1>2 DEF split4op01
  <2>2. \A i \in DOMAIN split4op01(c, v) : Distinct(split4op01(c, v)[i].v)
    BY <1>2 DEF split4op01, Distinct, P, m0, m1, m2, m3, m4, m5
  <2>3. \A i \in DOMAIN split4op01(c, v) : split4op01(c, v)[i].v \in split4op_sim(c, v)
    BY <1>2 DEF split4op01, split4op_sim, P, m0, m1, m2, m3, m4, m5
  <2>4. \A w \in {0, 1, m1, m2, m3, m4} : Has(split4op01(c, v), w)
    BY <1>2 DEF split4op01, Has, P, m0, m1, m2, m3, m4, m5
  <2> QED
    BY <2>1, <2>2, <2>3, <2>4 DEF Shows
<1> QED
  BY <1>1, <1>2

(* The second part.                                                        *)
LEMMA split4op23_shows ==
  ASSUME NEW c, NEW v
  PROVE  Shows(split4op23(c, v), split4op_sim(c, v), {2, 3})
<1>1. CASE First(c, v, 2, 3)
  <2>1. \E n \in Nat : DOMAIN split4op23(c, v) = 1..n /\ split4op23(c, v) = [k \in 1..n |-> split4op23(c, v)[k]]
    BY <1>1 DEF split4op23
  <2>2. \A i \in DOMAIN split4op23(c, v) : Distinct(split4op23(c, v)[i].v)
    BY <1>1 DEF split4op23, Distinct, P, m0, m1, m2, m3, m4, m5
  <2>3. \A i \in DOMAIN split4op23(c, v) : split4op23(c, v)[i].v \in split4op_sim(c, v)
    BY <1>1 DEF split4op23, split4op_sim, P, m0, m1, m2, m3, m4, m5
  <2>4. \A w \in {2, 3} : Has(split4op23(c, v), w)
    BY <1>1 DEF split4op23, Has, P, m0, m1, m2, m3, m4, m5
  <2> QED
    BY <2>1, <2>2, <2>3, <2>4 DEF Shows
<1>2. CASE ~First(c, v, 2, 3)
  <2>1. \E n \in Nat : DOMAIN split4op23(c, v) = 1..n /\ split4op23(c, v) = [k \in 1..n |-> split4op23(c, v)[k]]
    BY <1>2 DEF split4op23
  <2>2. \A i \in DOMAIN split4op23(c, v) : Distinct(split4op23(c, v)[i].v)
    BY <1>2 DEF split4op23, Distinct, P, m0, m1, m2, m3, m4, m5
  <2>3. \A i \in DOMAIN split4op23(c, v) : split4op23(c, v)[i].v \in split4op_sim(c, v)
    BY <1>2 DEF split4op23, split4op_sim, P, m0, m1, m2, m3, m4, m5
  <2>4. \A w \in {2, 3} : Has(split4op23(c, v), w)
    BY <1>2 DEF split4op23, Has, P, m0, m1, m2, m3, m4, m5
  <2> QED
    BY <2>1, <2>2, <2>3, <2>4 DEF Shows
<1> QED
  BY <1>1, <1>2

(* All its pieces.                                                         *)
LEMMA split4op_shows ==
  ASSUME NEW c, NEW v
  PROVE  Shows(split4op(c, v), split4op_sim(c, v), {0, 1, 2, 3, m1, m2, m3, m4})
<1>1. Shows(split4op(c, v), split4op_sim(c, v), {0, 1, m1, m2, m3, m4} \union {2, 3})
  BY split4op01_shows, split4op23_shows, Joined DEF split4op
<1> QED
  BY <1>1, TestedToo

(* The last pieces of split5.                                              *)
LEMMA split5_01_shows ==
  ASSUME NEW c, NEW v
  PROVE  Shows(split5_01(c, v), split5_sim(c, v), {0, 1})
<1>1. CASE First(c, v, 0, 1)
  <2>1. \E n \in Nat : DOMAIN split5_01(c, v) = 1..n /\ split5_01(c, v) = [k \in 1..n |-> split5_01(c, v)[k]]
    BY <1>1 DEF split5_01
  <2>2. \A i \in DOMAIN split5_01(c, v) : Distinct(split5_01(c, v)[i].v)
    BY <1>1 DEF split5_01, Distinct, P, m0, m1, m2, m3, m4, m5
  <2>3. \A i \in DOMAIN split5_01(c, v) : split5_01(c, v)[i].v \in split5_sim(c, v)
    BY <1>1 DEF split5_01, split5_sim, P, m0, m1, m2, m3, m4, m5
  <2>4. \A w \in {0, 1} : Has(split5_01(c, v), w)
    BY <1>1 DEF split5_01, Has, P, m0, m1, m2, m3, m4, m5
  <2> QED
    BY <2>1, <2>2, <2>3, <2>4 DEF Shows
<1>2. CASE ~First(c, v, 0, 1)
  <2>1. \E n \in Nat : DOMAIN split5_01(c, v) = 1..n /\ split5_01(c, v) = [k \in 1..n |-> split5_01(c, v)[k]]
    BY <1>2 DEF split5_01
  <2>2. \A i \in DOMAIN split5_01(c, v) : Distinct(split5_01(c, v)[i].v)
    BY <1>2 DEF split5_01, Distinct, P, m0, m1, m2, m3, m4, m5
  <2>3. \A i \in DOMAIN split5_01(c, v) : split5_01(c, v)[i].v \in split5_sim(c, v)
    BY <1>2 DEF split5_01, split5_sim, P, m0, m1, m2, m3, m4, m5
  <2>4. \A w \in {0, 1} : Has(split5_01(c, v), w)
    BY <1>2 DEF split5_01, Has, P, m0, m1, m2, m3, m4, m5
  <2> QED
    BY <2>1, <2>2, <2>3, <2>4 DEF Shows
<1> QED
  BY <1>1, <1>2

(* All its pieces.                                                         *)
LEMMA split5_shows ==
  ASSUME NEW c, NEW v
  PROVE  Shows(split5(c, v), split5_sim(c, v), {0, 1, 2, 3, m1, m2, m3, m4, m5})
<1> DEFINE us == split5_sim(c, v)
           ps == << P(<<m2, m4, m5, 3>>,  <<F2, F1, K, F0, K, K>>, {3}),
                    P(<<m1, m3, 2, m5>>,  <<F3, K, F1, K, F0, K>>, {2}),
                    P(<<m2, m4, m3, m5>>, <<F2, N, F1, F0, F0, F0>>, {1, 2, 3}),
                    P(<<m2, m3, m1, m5>>, <<N, F1, F1, F3, F0, F1>>, {0, 2, 3}) >>
<1>1. Shows(ps, us, {2, 3, m1, m2, m3, m4, m5})
  <2>1. \E n \in Nat : DOMAIN ps = 1..n /\ ps = [k \in 1..n |-> ps[k]]
    OBVIOUS
  <2>2. \A i \in DOMAIN ps : Distinct(ps[i].v)
    BY DEF Distinct, P, m0, m1, m2, m3, m4, m5
  <2>3. \A i \in DOMAIN ps : ps[i].v \in us
    BY DEF split5_sim, us, P, m0, m1, m2, m3, m4, m5
  <2>4. \A w \in {2, 3, m1, m2, m3, m4, m5} : Has(ps, w)
    BY DEF Has, P, m0, m1, m2, m3, m4, m5
  <2> QED
    BY <2>1, <2>2, <2>3, <2>4 DEF Shows
<1>2. split5(c, v) = ps \o split5_01(c, v)
  BY DEF split5
<1> HIDE DEF ps
<1>3. Shows(split5(c, v), us, {2, 3, m1, m2, m3, m4, m5} \union {0, 1})
  BY <1>1, <1>2, split5_01_shows, Joined
<1> QED
  BY <1>3, TestedToo

(* The pieces of split3cone when the smallest number is that of 1.         *)
Cone1_sim(c, v) ==
    {<<m0, 1, m1, m2>>} \union
    IF First(c, v, 2, 3) THEN {<<m1, 1, 2, m2>>, <<m2, 1, 2, 3>>}
                         ELSE {<<m2, 1, m1, 3>>, <<m1, 1, 2, 3>>}

(* They show these vertices.                                               *)
LEMMA ConeFrom1_shows ==
  ASSUME NEW c, NEW v
  PROVE  Shows(ConeFrom1(c, v), Cone1_sim(c, v), {1, 2, 3})
<1>1. CASE First(c, v, 2, 3)
  <2>1. \E n \in Nat : DOMAIN ConeFrom1(c, v) = 1..n /\ ConeFrom1(c, v) = [k \in 1..n |-> ConeFrom1(c, v)[k]]
    BY <1>1 DEF ConeFrom1
  <2>2. \A i \in DOMAIN ConeFrom1(c, v) : Distinct(ConeFrom1(c, v)[i].v)
    BY <1>1 DEF ConeFrom1, Distinct, P, m0, m1, m2, m3, m4, m5
  <2>3. \A i \in DOMAIN ConeFrom1(c, v) : ConeFrom1(c, v)[i].v \in Cone1_sim(c, v)
    BY <1>1 DEF ConeFrom1, Cone1_sim, P, m0, m1, m2, m3, m4, m5
  <2>4. \A w \in {1, 2, 3} : Has(ConeFrom1(c, v), w)
    BY <1>1 DEF ConeFrom1, Has, P, m0, m1, m2, m3, m4, m5
  <2> QED
    BY <2>1, <2>2, <2>3, <2>4 DEF Shows
<1>2. CASE ~First(c, v, 2, 3)
  <2>1. \E n \in Nat : DOMAIN ConeFrom1(c, v) = 1..n /\ ConeFrom1(c, v) = [k \in 1..n |-> ConeFrom1(c, v)[k]]
    BY <1>2 DEF ConeFrom1
  <2>2. \A i \in DOMAIN ConeFrom1(c, v) : Distinct(ConeFrom1(c, v)[i].v)
    BY <1>2 DEF ConeFrom1, Distinct, P, m0, m1, m2, m3, m4, m5
  <2>3. \A i \in DOMAIN ConeFrom1(c, v) : ConeFrom1(c, v)[i].v \in Cone1_sim(c, v)
    BY <1>2 DEF ConeFrom1, Cone1_sim, P, m0, m1, m2, m3, m4, m5
  <2>4. \A w \in {1, 2, 3} : Has(ConeFrom1(c, v), w)
    BY <1>2 DEF ConeFrom1, Has, P, m0, m1, m2, m3, m4, m5
  <2> QED
    BY <2>1, <2>2, <2>3, <2>4 DEF Shows
<1> QED
  BY <1>1, <1>2

(* The pieces of split3cone when the smallest number is that of 2.         *)
Cone2_sim(c, v) ==
    {<<m1, m0, 2, m2>>} \union
    IF First(c, v, 3, 1) THEN {<<m2, m0, 2, 3>>, <<m0, 1, 2, 3>>}
                         ELSE {<<m0, 1, 2, m2>>, <<m2, 1, 2, 3>>}

(* They show these vertices.                                               *)
LEMMA ConeFrom2_shows ==
  ASSUME NEW c, NEW v
  PROVE  Shows(ConeFrom2(c, v), Cone2_sim(c, v), {1, 2, 3})
<1>1. CASE First(c, v, 3, 1)
  <2>1. \E n \in Nat : DOMAIN ConeFrom2(c, v) = 1..n /\ ConeFrom2(c, v) = [k \in 1..n |-> ConeFrom2(c, v)[k]]
    BY <1>1 DEF ConeFrom2
  <2>2. \A i \in DOMAIN ConeFrom2(c, v) : Distinct(ConeFrom2(c, v)[i].v)
    BY <1>1 DEF ConeFrom2, Distinct, P, m0, m1, m2, m3, m4, m5
  <2>3. \A i \in DOMAIN ConeFrom2(c, v) : ConeFrom2(c, v)[i].v \in Cone2_sim(c, v)
    BY <1>1 DEF ConeFrom2, Cone2_sim, P, m0, m1, m2, m3, m4, m5
  <2>4. \A w \in {1, 2, 3} : Has(ConeFrom2(c, v), w)
    BY <1>1 DEF ConeFrom2, Has, P, m0, m1, m2, m3, m4, m5
  <2> QED
    BY <2>1, <2>2, <2>3, <2>4 DEF Shows
<1>2. CASE ~First(c, v, 3, 1)
  <2>1. \E n \in Nat : DOMAIN ConeFrom2(c, v) = 1..n /\ ConeFrom2(c, v) = [k \in 1..n |-> ConeFrom2(c, v)[k]]
    BY <1>2 DEF ConeFrom2
  <2>2. \A i \in DOMAIN ConeFrom2(c, v) : Distinct(ConeFrom2(c, v)[i].v)
    BY <1>2 DEF ConeFrom2, Distinct, P, m0, m1, m2, m3, m4, m5
  <2>3. \A i \in DOMAIN ConeFrom2(c, v) : ConeFrom2(c, v)[i].v \in Cone2_sim(c, v)
    BY <1>2 DEF ConeFrom2, Cone2_sim, P, m0, m1, m2, m3, m4, m5
  <2>4. \A w \in {1, 2, 3} : Has(ConeFrom2(c, v), w)
    BY <1>2 DEF ConeFrom2, Has, P, m0, m1, m2, m3, m4, m5
  <2> QED
    BY <2>1, <2>2, <2>3, <2>4 DEF Shows
<1> QED
  BY <1>1, <1>2

(* The pieces of split3cone when the smallest number is that of 3.         *)
Cone3_sim(c, v) ==
    {<<m2, m0, m1, 3>>} \union
    IF First(c, v, 1, 2) THEN {<<m0, 1, m1, 3>>, <<m1, 1, 2, 3>>}
                         ELSE {<<m1, m0, 2, 3>>, <<m0, 1, 2, 3>>}

(* They show these vertices.                                               *)
LEMMA ConeFrom3_shows ==
  ASSUME NEW c, NEW v
  PROVE  Shows(ConeFrom3(c, v), Cone3_sim(c, v), {1, 2, 3})
<1>1. CASE First(c, v, 1, 2)
  <2>1. \E n \in Nat : DOMAIN ConeFrom3(c, v) = 1..n /\ ConeFrom3(c, v) = [k \in 1..n |-> ConeFrom3(c, v)[k]]
    BY <1>1 DEF ConeFrom3
  <2>2. \A i \in DOMAIN ConeFrom3(c, v) : Distinct(ConeFrom3(c, v)[i].v)
    BY <1>1 DEF ConeFrom3, Distinct, P, m0, m1, m2, m3, m4, m5
  <2>3. \A i \in DOMAIN ConeFrom3(c, v) : ConeFrom3(c, v)[i].v \in Cone3_sim(c, v)
    BY <1>1 DEF ConeFrom3, Cone3_sim, P, m0, m1, m2, m3, m4, m5
  <2>4. \A w \in {1, 2, 3} : Has(ConeFrom3(c, v), w)
    BY <1>1 DEF ConeFrom3, Has, P, m0, m1, m2, m3, m4, m5
  <2> QED
    BY <2>1, <2>2, <2>3, <2>4 DEF Shows
<1>2. CASE ~First(c, v, 1, 2)
  <2>1. \E n \in Nat : DOMAIN ConeFrom3(c, v) = 1..n /\ ConeFrom3(c, v) = [k \in 1..n |-> ConeFrom3(c, v)[k]]
    BY <1>2 DEF ConeFrom3
  <2>2. \A i \in DOMAIN ConeFrom3(c, v) : Distinct(ConeFrom3(c, v)[i].v)
    BY <1>2 DEF ConeFrom3, Distinct, P, m0, m1, m2, m3, m4, m5
  <2>3. \A i \in DOMAIN ConeFrom3(c, v) : ConeFrom3(c, v)[i].v \in Cone3_sim(c, v)
    BY <1>2 DEF ConeFrom3, Cone3_sim, P, m0, m1, m2, m3, m4, m5
  <2>4. Has(ConeFrom3(c, v), 1)
    BY <1>2 DEF ConeFrom3, Has, P, m0, m1, m2
  <2>5. Has(ConeFrom3(c, v), 2)
    BY <1>2 DEF ConeFrom3, Has, P, m0, m1, m2
  <2>6. Has(ConeFrom3(c, v), 3)
    BY <1>2 DEF ConeFrom3, Has, P, m0, m1, m2
  <2> QED
    BY <2>1, <2>2, <2>3, <2>4, <2>5, <2>6 DEF Shows
<1> QED
  BY <1>1, <1>2

(* All its pieces.                                                         *)
LEMMA split3cone_shows ==
  ASSUME NEW c, NEW v, Compared(c, v)
  PROVE  Shows(split3cone(c, v), split3cone_sim(c, v), {0, 1, 2, 3, m0, m1, m2})
<1> DEFINE us == split3cone_sim(c, v)
           ps == << P(<<0, m0, m1, m2>>, <<K, K, K, F3, F2, F1>>, {0}) >>
           V  == {0, m0, m1, m2}
<1>1. ~(First(c, v, 3, 2) /\ First(c, v, 2, 3))
  BY DEF Compared, Local
<1>2. PICK qs : /\ split3cone(c, v) = ps \o qs
                /\ \E vs \in SUBSET us : Shows(qs, vs, {1, 2, 3})
  <2>1. CASE First(c, v, 3, 1) /\ First(c, v, 3, 2)
    <3>1. split3cone(c, v) = ps \o ConeFrom3(c, v)
      BY <1>1, <2>1 DEF split3cone
    <3>2. Cone3_sim(c, v) \subseteq us
      BY <1>1, <2>1 DEF split3cone_sim, Cone3_sim
    <3> QED
      BY <3>1, <3>2, ConeFrom3_shows
  <2>2. CASE ~(First(c, v, 3, 1) /\ First(c, v, 3, 2)) /\ First(c, v, 2, 1) /\ First(c, v, 2, 3)
    <3>1. split3cone(c, v) = ps \o ConeFrom2(c, v) /\ Cone2_sim(c, v) \subseteq us
      BY <2>2 DEF split3cone, split3cone_sim, Cone2_sim
    <3> QED
      BY <3>1, ConeFrom2_shows
  <2>3. CASE ~(First(c, v, 3, 1) /\ First(c, v, 3, 2)) /\ ~(First(c, v, 2, 1) /\ First(c, v, 2, 3))
    <3>1. split3cone(c, v) = ps \o ConeFrom1(c, v) /\ Cone1_sim(c, v) \subseteq us
      BY <2>3 DEF split3cone, split3cone_sim, Cone1_sim
    <3> QED
      BY <3>1, ConeFrom1_shows
  <2> QED
    BY <2>1, <2>2, <2>3
<1>3. Shows(qs, us, {1, 2, 3})
  BY <1>2, TestedToo
<1>4. Shows(ps, us, V)
  <2>1. <<0, m0, m1, m2>> \in us
    BY DEF split3cone_sim
  <2>2. Distinct(<<0, m0, m1, m2>>)
    BY DEF Distinct, m0, m1, m2
  <2>3. \A w \in V : \E a \in 1..4 : <<0, m0, m1, m2>>[a] = w
    OBVIOUS
  <2>4. DOMAIN ps = 1..1 /\ ps = [k \in 1..1 |-> ps[k]] /\ ps[1].v = <<0, m0, m1, m2>>
    BY DEF P
  <2> QED
    BY <2>1, <2>2, <2>3, <2>4 DEF Shows, Has
<1> HIDE DEF ps, us
<1>5. Shows(ps \o qs, us, V \union {1, 2, 3})
  BY <1>3, <1>4, Joined
<1> QED
  BY <1>2, <1>5, TestedToo DEF us

(* The pieces of split3op, case Op20.                                      *)
LEMMA Op20_shows ==
  Shows(Op20, {<<m1, m0, 2, m5>>, <<m0, 1, 2, m5>>, <<m0, 1, m5, 3>>, <<0, m0, m1, m5>>,
          <<0, m0, m5, 3>>},
        {0, 1, 2, 3, m0, m1, m5})
<1> DEFINE us == {<<m1, m0, 2, m5>>, <<m0, 1, 2, m5>>, <<m0, 1, m5, 3>>, <<0, m0, m1, m5>>,
                  <<0, m0, m5, 3>>}
<1>1. \E n \in Nat : DOMAIN Op20 = 1..n /\ Op20 = [k \in 1..n |-> Op20[k]]
  BY DEF Op20
<1>2. \A i \in DOMAIN Op20 : Distinct(Op20[i].v)
  BY DEF Op20, Distinct, P, m0, m1, m2, m3, m4, m5
<1>3. \A i \in DOMAIN Op20 : Op20[i].v \in us
  BY DEF Op20, P, m0, m1, m2, m3, m4, m5
<1>4. \A w \in {0, 1, 2, 3, m0, m1, m5} : Has(Op20, w)
  BY DEF Op20, Has, P, m0, m1, m2, m3, m4, m5
<1> QED
  BY <1>1, <1>2, <1>3, <1>4 DEF Shows

(* The pieces of split3op, case Op10.                                      *)
LEMMA Op10_shows ==
  Shows(Op10, {<<m1, 1, 2, m5>>, <<m0, 1, m1, m5>>, <<m0, 1, m5, 3>>, <<0, m0, m1, m5>>,
          <<0, m0, m5, 3>>},
        {0, 1, 2, 3, m0, m1, m5})
<1> DEFINE us == {<<m1, 1, 2, m5>>, <<m0, 1, m1, m5>>, <<m0, 1, m5, 3>>, <<0, m0, m1, m5>>,
                  <<0, m0, m5, 3>>}
<1>1. \E n \in Nat : DOMAIN Op10 = 1..n /\ Op10 = [k \in 1..n |-> Op10[k]]
  BY DEF Op10
<1>2. \A i \in DOMAIN Op10 : Distinct(Op10[i].v)
  BY DEF Op10, Distinct, P, m0, m1, m2, m3, m4, m5
<1>3. \A i \in DOMAIN Op10 : Op10[i].v \in us
  BY DEF Op10, P, m0, m1, m2, m3, m4, m5
<1>4. \A w \in {0, 1, 2, 3, m0, m1, m5} : Has(Op10, w)
  BY DEF Op10, Has, P, m0, m1, m2, m3, m4, m5
<1> QED
  BY <1>1, <1>2, <1>3, <1>4 DEF Shows

(* The pieces of split3op, case Op23.                                      *)
LEMMA Op23_shows ==
  Shows(Op23, {<<0, m0, m1, 3>>, <<m1, m0, m5, 3>>, <<m0, 1, m5, 3>>, <<m1, m0, 2, m5>>,
          <<m0, 1, 2, m5>>},
        {0, 1, 2, 3, m0, m1, m5})
<1> DEFINE us == {<<0, m0, m1, 3>>, <<m1, m0, m5, 3>>, <<m0, 1, m5, 3>>, <<m1, m0, 2, m5>>,
                  <<m0, 1, 2, m5>>}
<1>1. \E n \in Nat : DOMAIN Op23 = 1..n /\ Op23 = [k \in 1..n |-> Op23[k]]
  BY DEF Op23
<1>2. \A i \in DOMAIN Op23 : Distinct(Op23[i].v)
  BY DEF Op23, Distinct, P, m0, m1, m2, m3, m4, m5
<1>3. \A i \in DOMAIN Op23 : Op23[i].v \in us
  BY DEF Op23, P, m0, m1, m2, m3, m4, m5
<1>4. \A w \in {0, 1, 2, 3, m0, m1, m5} : Has(Op23, w)
  BY DEF Op23, Has, P, m0, m1, m2, m3, m4, m5
<1> QED
  BY <1>1, <1>2, <1>3, <1>4 DEF Shows

(* The pieces of split3op, case Op13.                                      *)
LEMMA Op13_shows ==
  Shows(Op13, {<<0, m0, m1, 3>>, <<m1, 1, 2, m5>>, <<m0, 1, m1, 3>>, <<m1, 1, m5, 3>>},
        {0, 1, 2, 3, m0, m1, m5})
<1> DEFINE us == {<<0, m0, m1, 3>>, <<m1, 1, 2, m5>>, <<m0, 1, m1, 3>>, <<m1, 1, m5, 3>>}
<1>1. \E n \in Nat : DOMAIN Op13 = 1..n /\ Op13 = [k \in 1..n |-> Op13[k]]
  BY DEF Op13
<1>2. \A i \in DOMAIN Op13 : Distinct(Op13[i].v)
  BY DEF Op13, Distinct, P, m0, m1, m2, m3, m4, m5
<1>3. \A i \in DOMAIN Op13 : Op13[i].v \in us
  BY DEF Op13, P, m0, m1, m2, m3, m4, m5
<1>4. \A w \in {0, 1, 2, 3, m0, m1, m5} : Has(Op13, w)
  BY DEF Op13, Has, P, m0, m1, m2, m3, m4, m5
<1> QED
  BY <1>1, <1>2, <1>3, <1>4 DEF Shows

(* All its pieces.                                                         *)
LEMMA split3op_shows ==
  ASSUME NEW c, NEW v, Compared(c, v)
  PROVE  Shows(split3op(c, v), split3op_sim(c, v), {0, 1, 2, 3, m0, m1, m5})
<1>1. ~(First(c, v, 2, 1) /\ First(c, v, 1, 2)) /\ ~(First(c, v, 0, 3) /\ First(c, v, 3, 0))
  BY DEF Compared, Local
<1> DEFINE A == First(c, v, 2, 1) /\ First(c, v, 0, 3)
           B == First(c, v, 1, 2) /\ First(c, v, 0, 3)
           C == First(c, v, 2, 1) /\ First(c, v, 3, 0)
<1>2. CASE A
  BY <1>1, <1>2, Op20_shows DEF split3op, split3op_sim
<1>3. CASE B
  BY <1>1, <1>3, Op10_shows DEF split3op, split3op_sim
<1>4. CASE C
  BY <1>1, <1>4, Op23_shows DEF split3op, split3op_sim
<1>5. CASE ~A /\ ~B /\ ~C
  BY <1>5, Op13_shows DEF split3op, split3op_sim
<1> QED
  BY <1>2, <1>3, <1>4, <1>5

-------------------------------------------------------------------------------
(* The edges are renumbered one to one.                                    *)
LEMMA EdgesOneToOne ==
  ASSUME NEW c, Consistent(c)
  PROVE  \A d, e \in Edge : c.taued[d] = c.taued[e] => d = e
<1>1. \A i, j \in Local : c.tau[i] \in Local /\ (c.tau[i] = c.tau[j] => i = j)
  BY DEF Consistent
<1> DEFINE t == c.tau
           pair(e) == CASE e = 0 -> {t[0], t[1]} [] e = 1 -> {t[0], t[2]} [] e = 2 -> {t[0], t[3]}
                        [] e = 3 -> {t[1], t[2]} [] e = 4 -> {t[1], t[3]} [] e = 5 -> {t[2], t[3]}
<1>2. \A e \in Edge : iare[c.taued[e]] = pair(e)
  <2>1. /\ iare[c.taued[0]] = pair(0) /\ iare[c.taued[1]] = pair(1) /\ iare[c.taued[2]] = pair(2)
        /\ iare[c.taued[3]] = pair(3) /\ iare[c.taued[4]] = pair(4) /\ iare[c.taued[5]] = pair(5)
    BY DEF Consistent
  <2> HIDE DEF pair
  <2> QED
    BY <2>1 DEF Edge
<1>3. \A d, e \in Edge : pair(d) = pair(e) => d = e
  <2>1. \A i, j \in Local : t[i] = t[j] => i = j
    BY <1>1
  <2> HIDE DEF t
  <2>2. /\ t[0] # t[1] /\ t[0] # t[2] /\ t[0] # t[3] /\ t[1] # t[2] /\ t[1] # t[3] /\ t[2] # t[3]
    BY <2>1 DEF Local
  <2> QED
    BY <2>2 DEF Edge
<1> HIDE DEF pair
<1> QED
  BY <1>2, <1>3

(* Where the vertex of a placed piece comes from.                          *)
LEMMA PlacedWhere ==
  ASSUME NEW c, Consistent(c), NEW u
  PROVE  \A j \in Local : /\ At(c.tau, j) \in Local /\ c.tau[At(c.tau, j)] = j
                           /\ At(c.tau, j) + 1 \in 1..4
                           /\ PlacedVertices(u, c)[j] = Place(u[At(c.tau, j) + 1], c)
<1>1. \A i \in Local : At(c.tau, i) \in Local /\ c.tau[At(c.tau, i)] = i
  BY DEF Consistent, At
<1>2. \A i \in Local : PlacedVertices(u, c)[i] = Place(u[At(c.tau, i) + 1], c)
  BY DEF PlacedVertices, Place
<1>3. \A i \in Local : i + 1 \in 1..4
  BY DEF Local
<1> QED
  BY <1>1, <1>2, <1>3

-------------------------------------------------------------------------------
(* The tetrahedra that a simulation tests, placed back.                    *)
Placements(us, c) == {PlacedVertices(u, c) : u \in us}

SimOfFamily(f, v, cfg, us) == Configuration[f] = cfg[f] /\ Tests(f, v) = us

(* What is simulated for a flag is what its family says.                   *)
LEMMA SimulationOf ==
  ASSUME NEW v
  PROVE  /\ \A f \in DOMAIN split1_cfg : SimOfFamily(f, v, split1_cfg, split1_sim)
         /\ \A f \in DOMAIN split2sf_cfg : SimOfFamily(f, v, split2sf_cfg, split2sf_sim(split2sf_cfg[f], v))
         /\ \A f \in DOMAIN split2_cfg : SimOfFamily(f, v, split2_cfg, split2_sim)
         /\ \A f \in DOMAIN split3_cfg : SimOfFamily(f, v, split3_cfg, split3_sim)
         /\ \A f \in DOMAIN split3cone_cfg : SimOfFamily(f, v, split3cone_cfg, split3cone_sim(split3cone_cfg[f], v))
         /\ \A f \in DOMAIN split3op_cfg : SimOfFamily(f, v, split3op_cfg, split3op_sim(split3op_cfg[f], v))
         /\ \A f \in DOMAIN split4sf_cfg : SimOfFamily(f, v, split4sf_cfg, split4sf_sim(split4sf_cfg[f], v))
         /\ \A f \in DOMAIN split4op_cfg : SimOfFamily(f, v, split4op_cfg, split4op_sim(split4op_cfg[f], v))
         /\ \A f \in DOMAIN split5_cfg : SimOfFamily(f, v, split5_cfg, split5_sim(split5_cfg[f], v))
         /\ \A f \in DOMAIN split6_cfg : SimOfFamily(f, v, split6_cfg, split6_sim)
<1>1. \A f \in DOMAIN split1_cfg : SimOfFamily(f, v, split1_cfg, split1_sim)
  BY Domains DEF SimOfFamily, Configuration, Tests
<1>2. \A f \in DOMAIN split2sf_cfg : SimOfFamily(f, v, split2sf_cfg, split2sf_sim(split2sf_cfg[f], v))
  BY Domains DEF SimOfFamily, Configuration, Tests
<1>3. \A f \in DOMAIN split2_cfg : SimOfFamily(f, v, split2_cfg, split2_sim)
  BY Domains DEF SimOfFamily, Configuration, Tests
<1>4. \A f \in DOMAIN split3_cfg : SimOfFamily(f, v, split3_cfg, split3_sim)
  BY Domains DEF SimOfFamily, Configuration, Tests
<1>5. \A f \in DOMAIN split3cone_cfg : SimOfFamily(f, v, split3cone_cfg, split3cone_sim(split3cone_cfg[f], v))
  BY Domains DEF SimOfFamily, Configuration, Tests
<1>6. \A f \in DOMAIN split3op_cfg : SimOfFamily(f, v, split3op_cfg, split3op_sim(split3op_cfg[f], v))
  BY Domains DEF SimOfFamily, Configuration, Tests
<1>7. \A f \in DOMAIN split4sf_cfg : SimOfFamily(f, v, split4sf_cfg, split4sf_sim(split4sf_cfg[f], v))
  BY Domains DEF SimOfFamily, Configuration, Tests
<1>8. \A f \in DOMAIN split4op_cfg : SimOfFamily(f, v, split4op_cfg, split4op_sim(split4op_cfg[f], v))
  BY Domains DEF SimOfFamily, Configuration, Tests
<1>9. \A f \in DOMAIN split5_cfg : SimOfFamily(f, v, split5_cfg, split5_sim(split5_cfg[f], v))
  BY Domains DEF SimOfFamily, Configuration, Tests
<1>10. \A f \in DOMAIN split6_cfg : SimOfFamily(f, v, split6_cfg, split6_sim)
  BY Domains DEF SimOfFamily, Configuration, Tests
<1> QED
  BY <1>1, <1>2, <1>3, <1>4, <1>5, <1>6, <1>7, <1>8, <1>9, <1>10

(* Whatever edges carry a point, the pieces have all the vertices and all  *)
(* the points, and the simulation knows them.                              *)
LEMMA PiecesShow ==
  ASSUME NEW v \in [Local -> Int], NEW F \in SUBSET Edge, F # {}
  PROVE  LET f == Bits(F)  c == Configuration[f]
         IN \E us : /\ Shows(Pieces(f, v), us, Local \union {m0 + e : e \in Reference(c, F)})
                    /\ Simulated(f, v) = Placements(us, c)
<1> DEFINE f == Bits(F)
           Good(c, ps, ts) == \E us : /\ Shows(ps, us, Local \union {m0 + e : e \in Reference(c, F)})
                                      /\ ts = Placements(us, c)
<1>1. f \in 1..63
  BY FlagNumber
<1>2. \A c, R : BroughtTo(c, f, R) => Consistent(c) /\ Reference(c, F) = R
  BY DEF BroughtTo
<1>3. \A cfg, ps, us : OfFamily(f, v, cfg, ps) /\ SimOfFamily(f, v, cfg, us) /\ Good(cfg[f], ps, Placements(us, cfg[f]))
                        => Good(Configuration[f], Pieces(f, v), Simulated(f, v))
  <2>1. Simulated(f, v) = Placements(Tests(f, v), Configuration[f])
    BY DEF Simulated, Placements
  <2> HIDE DEF f, Good
  <2> QED
    BY <2>1 DEF OfFamily, SimOfFamily
<1>4. PICK cfg : f \in DOMAIN cfg /\
                 cfg \in {split1_cfg, split2sf_cfg, split2_cfg, split3_cfg, split3cone_cfg,
                          split3op_cfg, split4sf_cfg, split4op_cfg, split5_cfg, split6_cfg}
  BY <1>1, Domains
<1>5. \A c : Consistent(c) => Compared(c, v)
  BY DEF Consistent, Compared, First
<1>6. \A ps, us, c, R : Shows(ps, us, Local \union {m0 + e : e \in R}) /\ Reference(c, F) = R
                         => Good(c, ps, Placements(us, c))
  OBVIOUS
<1> HIDE DEF f, Good
<1>7. \E ps, us : /\ OfFamily(f, v, cfg, ps) /\ SimOfFamily(f, v, cfg, us)
                  /\ Good(cfg[f], ps, Placements(us, cfg[f]))
  <2>1. CASE cfg = split1_cfg
    <3>1. Consistent(cfg[f]) /\ Compared(cfg[f], v) /\ Reference(cfg[f], F) = {0}
      BY <1>2, <1>4, <1>5, <2>1, split1_flags
    <3>2. Local \union {m0 + e : e \in {0}} = {0, 1, 2, 3, m0}
      BY DEF Local, m0
    <3>3. Shows(split1, split1_sim, Local \union {m0 + e : e \in {0}})
      BY <2>1, <3>1, <3>2, split1_shows
    <3>4. Good(cfg[f], split1, Placements(split1_sim, cfg[f]))
      BY <1>6, <3>1, <3>3
    <3> QED
      BY <1>4, <2>1, <3>4, FamilyOf, SimulationOf
  <2>2. CASE cfg = split2sf_cfg
    <3>1. Consistent(cfg[f]) /\ Compared(cfg[f], v) /\ Reference(cfg[f], F) = {4, 5}
      BY <1>2, <1>4, <1>5, <2>2, split2sf_flags
    <3>2. Local \union {m0 + e : e \in {4, 5}} = {0, 1, 2, 3, m4, m5}
      BY DEF Local, m0, m4, m5
    <3>3. Shows(split2sf(split2sf_cfg[f], v), split2sf_sim(split2sf_cfg[f], v), Local \union {m0 + e : e \in {4, 5}})
      BY <2>2, <3>1, <3>2, split2sf_shows
    <3>4. Good(cfg[f], split2sf(split2sf_cfg[f], v), Placements(split2sf_sim(split2sf_cfg[f], v), cfg[f]))
      BY <1>6, <3>1, <3>3
    <3> QED
      BY <1>4, <2>2, <3>4, FamilyOf, SimulationOf
  <2>3. CASE cfg = split2_cfg
    <3>1. Consistent(cfg[f]) /\ Compared(cfg[f], v) /\ Reference(cfg[f], F) = {0, 5}
      BY <1>2, <1>4, <1>5, <2>3, split2_flags
    <3>2. Local \union {m0 + e : e \in {0, 5}} = {0, 1, 2, 3, m0, m5}
      BY DEF Local, m0, m5
    <3>3. Shows(split2, split2_sim, Local \union {m0 + e : e \in {0, 5}})
      BY <2>3, <3>1, <3>2, split2_shows
    <3>4. Good(cfg[f], split2, Placements(split2_sim, cfg[f]))
      BY <1>6, <3>1, <3>3
    <3> QED
      BY <1>4, <2>3, <3>4, FamilyOf, SimulationOf
  <2>4. CASE cfg = split3_cfg
    <3>1. Consistent(cfg[f]) /\ Compared(cfg[f], v) /\ Reference(cfg[f], F) = {0, 1, 3}
      BY <1>2, <1>4, <1>5, <2>4, split3_flags
    <3>2. Local \union {m0 + e : e \in {0, 1, 3}} = {0, 1, 2, 3, m0, m1, m3}
      BY DEF Local, m0, m1, m3
    <3>3. Shows(split3, split3_sim, Local \union {m0 + e : e \in {0, 1, 3}})
      BY <2>4, <3>1, <3>2, split3_shows
    <3>4. Good(cfg[f], split3, Placements(split3_sim, cfg[f]))
      BY <1>6, <3>1, <3>3
    <3> QED
      BY <1>4, <2>4, <3>4, FamilyOf, SimulationOf
  <2>5. CASE cfg = split3cone_cfg
    <3>1. Consistent(cfg[f]) /\ Compared(cfg[f], v) /\ Reference(cfg[f], F) = {0, 1, 2}
      BY <1>2, <1>4, <1>5, <2>5, split3cone_flags
    <3>2. Local \union {m0 + e : e \in {0, 1, 2}} = {0, 1, 2, 3, m0, m1, m2}
      BY DEF Local, m0, m1, m2
    <3>3. Shows(split3cone(split3cone_cfg[f], v), split3cone_sim(split3cone_cfg[f], v), Local \union {m0 + e : e \in {0, 1, 2}})
      BY <2>5, <3>1, <3>2, split3cone_shows
    <3>4. Good(cfg[f], split3cone(split3cone_cfg[f], v), Placements(split3cone_sim(split3cone_cfg[f], v), cfg[f]))
      BY <1>6, <3>1, <3>3
    <3> QED
      BY <1>4, <2>5, <3>4, FamilyOf, SimulationOf
  <2>6. CASE cfg = split3op_cfg
    <3>1. Consistent(cfg[f]) /\ Compared(cfg[f], v) /\ Reference(cfg[f], F) = {0, 1, 5}
      BY <1>2, <1>4, <1>5, <2>6, split3op_flags
    <3>2. Local \union {m0 + e : e \in {0, 1, 5}} = {0, 1, 2, 3, m0, m1, m5}
      BY DEF Local, m0, m1, m5
    <3>3. Shows(split3op(split3op_cfg[f], v), split3op_sim(split3op_cfg[f], v), Local \union {m0 + e : e \in {0, 1, 5}})
      BY <2>6, <3>1, <3>2, split3op_shows
    <3>4. Good(cfg[f], split3op(split3op_cfg[f], v), Placements(split3op_sim(split3op_cfg[f], v), cfg[f]))
      BY <1>6, <3>1, <3>3
    <3> QED
      BY <1>4, <2>6, <3>4, FamilyOf, SimulationOf
  <2>7. CASE cfg = split4sf_cfg
    <3>1. Consistent(cfg[f]) /\ Compared(cfg[f], v) /\ Reference(cfg[f], F) = {0, 1, 2, 4}
      BY <1>2, <1>4, <1>5, <2>7, split4sf_flags
    <3>2. Local \union {m0 + e : e \in {0, 1, 2, 4}} = {0, 1, 2, 3, m0, m1, m2, m4}
      BY DEF Local, m0, m1, m2, m4
    <3>3. Shows(split4sf(split4sf_cfg[f], v), split4sf_sim(split4sf_cfg[f], v), Local \union {m0 + e : e \in {0, 1, 2, 4}})
      BY <2>7, <3>1, <3>2, split4sf_shows
    <3>4. Good(cfg[f], split4sf(split4sf_cfg[f], v), Placements(split4sf_sim(split4sf_cfg[f], v), cfg[f]))
      BY <1>6, <3>1, <3>3
    <3> QED
      BY <1>4, <2>7, <3>4, FamilyOf, SimulationOf
  <2>8. CASE cfg = split4op_cfg
    <3>1. Consistent(cfg[f]) /\ Compared(cfg[f], v) /\ Reference(cfg[f], F) = {1, 2, 3, 4}
      BY <1>2, <1>4, <1>5, <2>8, split4op_flags
    <3>2. Local \union {m0 + e : e \in {1, 2, 3, 4}} = {0, 1, 2, 3, m1, m2, m3, m4}
      BY DEF Local, m0, m1, m2, m3, m4
    <3>3. Shows(split4op(split4op_cfg[f], v), split4op_sim(split4op_cfg[f], v), Local \union {m0 + e : e \in {1, 2, 3, 4}})
      BY <2>8, <3>1, <3>2, split4op_shows
    <3>4. Good(cfg[f], split4op(split4op_cfg[f], v), Placements(split4op_sim(split4op_cfg[f], v), cfg[f]))
      BY <1>6, <3>1, <3>3
    <3> QED
      BY <1>4, <2>8, <3>4, FamilyOf, SimulationOf
  <2>9. CASE cfg = split5_cfg
    <3>1. Consistent(cfg[f]) /\ Compared(cfg[f], v) /\ Reference(cfg[f], F) = {1, 2, 3, 4, 5}
      BY <1>2, <1>4, <1>5, <2>9, split5_flags
    <3>2. Local \union {m0 + e : e \in {1, 2, 3, 4, 5}} = {0, 1, 2, 3, m1, m2, m3, m4, m5}
      BY DEF Local, m0, m1, m2, m3, m4, m5
    <3>3. Shows(split5(split5_cfg[f], v), split5_sim(split5_cfg[f], v), Local \union {m0 + e : e \in {1, 2, 3, 4, 5}})
      BY <2>9, <3>1, <3>2, split5_shows
    <3>4. Good(cfg[f], split5(split5_cfg[f], v), Placements(split5_sim(split5_cfg[f], v), cfg[f]))
      BY <1>6, <3>1, <3>3
    <3> QED
      BY <1>4, <2>9, <3>4, FamilyOf, SimulationOf
  <2>10. CASE cfg = split6_cfg
    <3>1. Consistent(cfg[f]) /\ Compared(cfg[f], v) /\ Reference(cfg[f], F) = {0, 1, 2, 3, 4, 5}
      BY <1>2, <1>4, <1>5, <2>10, split6_flags
    <3>2. Local \union {m0 + e : e \in {0, 1, 2, 3, 4, 5}} = {0, 1, 2, 3, m0, m1, m2, m3, m4, m5}
      BY DEF Local, m0, m1, m2, m3, m4, m5
    <3>3. Shows(split6, split6_sim, Local \union {m0 + e : e \in {0, 1, 2, 3, 4, 5}})
      BY <2>10, <3>1, <3>2, split6_shows
    <3>4. Good(cfg[f], split6, Placements(split6_sim, cfg[f]))
      BY <1>6, <3>1, <3>3
    <3> QED
      BY <1>4, <2>10, <3>4, FamilyOf, SimulationOf
  <2> QED
    BY <1>4, <2>1, <2>2, <2>3, <2>4, <2>5, <2>6, <2>7, <2>8, <2>9, <2>10
<1> QED
  BY <1>3, <1>7 DEF f, Good

(* The cut of a tetrahedron, as the pieces that replace it: each has four  *)
(* different vertices; no vertex and no point of the flag is lost.         *)
THEOREM SplitShows ==
  ASSUME NEW v \in [Local -> Int], NEW F \in SUBSET Edge, F # {}
  PROVE  LET ps == Split(Bits(F), v)
         IN /\ \A i \in DOMAIN ps : \A a, b \in Local : ps[i].v[a] = ps[i].v[b] => a = b
            /\ \A w \in Local \union {m0 + e : e \in F} :
                  \E i \in DOMAIN ps : \E a \in Local : ps[i].v[a] = w
<1> DEFINE f == Bits(F)
           c == Configuration[f]
           ps == Pieces(f, v)
           W == Local \union {m0 + e : e \in Reference(c, F)}
<1>1. Consistent(c) /\ Piecewise(ps, Reference(c, F))
  BY PiecesUse
<1>2. PICK us : Shows(ps, us, W)
  BY PiecesShow
<1>3. Split(f, v) = [i \in DOMAIN ps |-> Placed(ps[i], c)]
  BY DEF Split
<1> HIDE DEF f, c, ps
<1>4. \A i \in DOMAIN ps : Split(f, v)[i].v = PlacedVertices(ps[i].v, c)
  BY <1>3 DEF Placed
<1>5. \A x, y \in W : Place(x, c) = Place(y, c) => x = y
  <2>1. \A x \in Local : Place(x, c) \in 0..3 /\ Place(x, c) = c.tau[x]
    BY <1>1 DEF Place, Consistent, Local, m0
  <2>2. \A e \in Edge : Place(m0 + e, c) = 4 + c.taued[e] /\ c.taued[e] \in 0..5
    BY <1>1 DEF Place, Consistent, Edge, m0
  <2>3. \A d, e \in Edge : c.taued[d] = c.taued[e] => d = e
    BY <1>1, EdgesOneToOne
  <2>4. \A x, y \in Local : Place(x, c) = Place(y, c) => x = y
    BY <1>1, <2>1 DEF Consistent
  <2>5. \A d, e \in Edge : Place(m0 + d, c) = Place(m0 + e, c) => d = e
    BY <2>2, <2>3
  <2>6. \A x \in Local, e \in Edge : Place(x, c) # Place(m0 + e, c)
    BY <2>1, <2>2
  <2>7. Reference(c, F) \subseteq Edge
    BY DEF Reference
  <2> QED
    BY <2>4, <2>5, <2>6, <2>7
<1>6. ASSUME NEW i \in DOMAIN ps, NEW a \in Local, NEW b \in Local, Split(f, v)[i].v[a] = Split(f, v)[i].v[b]
      PROVE  a = b
  <2> DEFINE u == ps[i].v
  <2>1. Distinct(u) /\ Uses(u, Reference(c, F))
    BY <1>1, <1>2 DEF Shows, Piecewise
  <2>2. PlacedVertices(u, c)[a] = PlacedVertices(u, c)[b]
    BY <1>4, <1>6
  <2> HIDE DEF u
  <2>3. \A j \in 1..4 : u[j] \in W
    BY <2>1 DEF Uses
  <2>4. \A j \in Local : At(c.tau, j) + 1 \in 1..4 /\ PlacedVertices(u, c)[j] = Place(u[At(c.tau, j) + 1], c)
    BY <1>1, PlacedWhere
  <2>5. u[At(c.tau, a) + 1] = u[At(c.tau, b) + 1]
    BY <1>5, <2>2, <2>3, <2>4
  <2>6. At(c.tau, a) = At(c.tau, b)
    <3>1. At(c.tau, a) + 1 = At(c.tau, b) + 1
      BY <2>1, <2>4, <2>5 DEF Distinct
    <3>2. At(c.tau, a) \in Local /\ At(c.tau, b) \in Local
      BY <1>1, PlacedWhere
    <3> QED
      BY <3>1, <3>2 DEF Local
  <2>7. c.tau[At(c.tau, a)] = a /\ c.tau[At(c.tau, b)] = b
    BY <1>1, PlacedWhere
  <2> QED
    BY <2>6, <2>7
<1>7. ASSUME NEW w \in Local \union {m0 + e : e \in F}
      PROVE  \E i \in DOMAIN ps : \E a \in Local : Split(f, v)[i].v[a] = w
  <2>1. PICK x \in W : Place(x, c) = w
    <3>1. CASE w \in Local
      <4>1. PICK a \in Local : c.tau[a] = w
        BY <1>1, <3>1 DEF Consistent
      <4> QED
        BY <4>1 DEF Place, Local, m0
    <3>2. CASE w \in {m0 + e : e \in F}
      <4>1. PICK e \in F : w = m0 + e
        BY <3>2
      <4>2. PICK d \in Edge : c.taued[d] = e
        BY <1>1, <4>1 DEF Consistent
      <4>3. m0 + d \in W /\ ~(m0 + d < m0) /\ (m0 + d) - m0 = d
        BY <4>1, <4>2 DEF Reference, Edge, m0
      <4> QED
        BY <4>1, <4>2, <4>3 DEF Place
    <3> QED
      BY <3>1, <3>2
  <2>2. PICK i \in DOMAIN ps : \E a \in 1..4 : ps[i].v[a] = x
    BY <1>2, <2>1 DEF Shows, Has
  <2>3. \E a \in Local : PlacedVertices(ps[i].v, c)[a] = Place(x, c)
    BY <1>1, <2>2, PlacedAt
  <2> QED
    BY <1>4, <2>1, <2>3
<1>8. DOMAIN Split(f, v) = DOMAIN ps
  BY <1>3
<1> QED
  BY <1>6, <1>7, <1>8 DEF f

(* The simulation of a cut tests all its pieces.                           *)
THEOREM SplitSimulated ==
  ASSUME NEW v \in [Local -> Int], NEW F \in SUBSET Edge, F # {}
  PROVE  \A i \in DOMAIN Split(Bits(F), v) : Split(Bits(F), v)[i].v \in Simulated(Bits(F), v)
<1> DEFINE f == Bits(F)
           c == Configuration[f]
           ps == Pieces(f, v)
<1>1. PICK us : /\ \A i \in DOMAIN ps : ps[i].v \in us
                /\ Simulated(f, v) = Placements(us, c)
  BY PiecesShow DEF Shows
<1>2. Split(f, v) = [i \in DOMAIN ps |-> Placed(ps[i], c)]
  BY DEF Split
<1> HIDE DEF f, c, ps
<1>3. \A i \in DOMAIN ps : Split(f, v)[i].v = PlacedVertices(ps[i].v, c)
  BY <1>2 DEF Placed
<1> QED
  BY <1>1, <1>2, <1>3 DEF Placements, f

-------------------------------------------------------------------------------
(* Cuts along a surface: s gives the sign of a function at the vertices    *)
(* (at a point of an edge the function is 0), and the edges of the flag    *)
(* are those whose ends are on both sides.                                 *)
Sign == {-1, 0, 1}
Opposed(a, b) == a # 0 /\ a = -b

CutBy(s, F) == \A e \in Edge : e \in F <=> \E i, j \in iare[e] : Opposed(s[i], s[j])

(* The same, edge by edge.                                                 *)
CutAt(s, F) ==
    /\ 0 \in F <=> Opposed(s[0], s[1])
    /\ 1 \in F <=> Opposed(s[0], s[2])
    /\ 2 \in F <=> Opposed(s[0], s[3])
    /\ 3 \in F <=> Opposed(s[1], s[2])
    /\ 4 \in F <=> Opposed(s[1], s[3])
    /\ 5 \in F <=> Opposed(s[2], s[3])

Value(s, w) == IF w < m0 THEN s[w] ELSE 0

(* The vertices of a piece are on one side or on the surface, and not all  *)
(* on the surface.                                                         *)
Within(s, u, A) ==
    \E sign \in {-1, 1} : /\ \A a \in A : Value(s, u[a]) \in {0, sign}
                          /\ \E a \in A : Value(s, u[a]) = sign
OneSide(s, u) == Within(s, u, 1..4)

(* The two ways to write it.                                               *)
LEMMA CutEdges ==
  ASSUME NEW s \in [Local -> Sign], NEW F
  PROVE  CutBy(s, F) <=> CutAt(s, F)
<1>1. \A i, j \in Local : Opposed(s[i], s[j]) <=> Opposed(s[j], s[i])
  BY DEF Opposed, Sign, Local
<1>2. \A i \in Local : ~Opposed(s[i], s[i])
  BY DEF Opposed, Sign, Local
<1>3. ASSUME NEW e \in Edge, NEW a \in Local, NEW b \in Local, iare[e] = {a, b}
      PROVE  (\E i, j \in iare[e] : Opposed(s[i], s[j])) <=> Opposed(s[a], s[b])
  BY <1>1, <1>2, <1>3
<1>4. /\ (\E i, j \in iare[0] : Opposed(s[i], s[j])) <=> Opposed(s[0], s[1])
      /\ (\E i, j \in iare[1] : Opposed(s[i], s[j])) <=> Opposed(s[0], s[2])
      /\ (\E i, j \in iare[2] : Opposed(s[i], s[j])) <=> Opposed(s[0], s[3])
      /\ (\E i, j \in iare[3] : Opposed(s[i], s[j])) <=> Opposed(s[1], s[2])
      /\ (\E i, j \in iare[4] : Opposed(s[i], s[j])) <=> Opposed(s[1], s[3])
      /\ (\E i, j \in iare[5] : Opposed(s[i], s[j])) <=> Opposed(s[2], s[3])
  BY <1>3, EdgeEnds DEF Edge, Local
<1> QED
  BY <1>4 DEF CutBy, CutAt, Edge

(* The signs at the ends of an edge decide which of four families can come.*)
LEMMA FourFamilies ==
  ASSUME NEW s \in [Local -> Sign], NEW F \in SUBSET Edge, F # {}, CutAt(s, F)
  PROVE  Bits(F) \in DOMAIN split1_cfg \union DOMAIN split2sf_cfg \union DOMAIN split3cone_cfg
                     \union DOMAIN split4op_cfg
<1>1. PICK e \in Edge : e \in F
  OBVIOUS
<1>2. /\ s[0] \in Sign /\ s[1] \in Sign /\ s[2] \in Sign /\ s[3] \in Sign
  BY DEF Local
<1> QED
  BY <1>1, <1>2, Domains DEF CutAt, Opposed, Sign, Bits, Edge

(* One edge is cut.                                                        *)
LEMMA split1_sides ==
  ASSUME NEW s \in [Local -> Sign], CutAt(s, {0})
  PROVE  \A i \in DOMAIN split1 : OneSide(s, split1[i].v)
BY DEF split1, OneSide, Within, Value, CutAt, Opposed, Sign, P, Local, m0

(* Two edges of a face are cut.                                            *)
LEMMA split2sf_sides ==
  ASSUME NEW c, NEW v, NEW s \in [Local -> Sign], CutAt(s, {4, 5})
  PROVE  \A i \in DOMAIN split2sf(c, v) : OneSide(s, split2sf(c, v)[i].v)
BY DEF split2sf, OneSide, Within, Value, CutAt, Opposed, Sign, P, Local, m0, m4, m5

(* The three edges of a vertex are cut.                                    *)
LEMMA split3cone_sides ==
  ASSUME NEW c, NEW v, NEW s \in [Local -> Sign], CutAt(s, {0, 1, 2})
  PROVE  \A i \in DOMAIN split3cone(c, v) : OneSide(s, split3cone(c, v)[i].v)
<1> DEFINE first  == P(<<0, m0, m1, m2>>, <<K, K, K, F3, F2, F1>>, {0})
           Good(ps) == DOMAIN ps = 1..3 /\ \A i \in 1..3 : OneSide(s, ps[i].v)
           Follows(ps) == \A i \in 1..3 : split3cone(c, v)[i + 1] = ps[i]
<1> USE DEF OneSide, Within, Value, CutAt, Opposed, Sign, P, Local, m0, m1, m2
<1>1. Good(ConeFrom1(c, v))
  BY DEF ConeFrom1
<1>2. Good(ConeFrom2(c, v))
  BY DEF ConeFrom2
<1>3. Good(ConeFrom3(c, v))
  BY DEF ConeFrom3
<1>5. OneSide(s, first.v)
  OBVIOUS
<1> HIDE DEF OneSide, Within, Value, CutAt, Opposed, Sign, P, Local, m0, m1, m2
<1>4. /\ DOMAIN split3cone(c, v) = 1..4 /\ split3cone(c, v)[1] = first
      /\ Follows(ConeFrom1(c, v)) \/ Follows(ConeFrom2(c, v)) \/ Follows(ConeFrom3(c, v))
  BY DEF split3cone, ConeFrom1, ConeFrom2, ConeFrom3
<1>6. \A i \in 1..4 : i = 1 \/ (i - 1 \in 1..3 /\ i = (i - 1) + 1)
  OBVIOUS
<1> HIDE DEF first
<1> QED
  BY <1>1, <1>2, <1>3, <1>4, <1>5, <1>6

(* All the edges but two opposite ones are cut.                            *)
LEMMA split4op_sides ==
  ASSUME NEW c, NEW v, NEW s \in [Local -> Sign], CutAt(s, {1, 2, 3, 4})
  PROVE  \A i \in DOMAIN split4op(c, v) : OneSide(s, split4op(c, v)[i].v)
<1>1. \A i \in 1..3 : OneSide(s, split4op01(c, v)[i].v)
  BY DEF split4op01, OneSide, Within, Value, CutAt, Opposed, Sign, P, Local, m0, m1, m2, m3, m4
<1>2. \A i \in 1..3 : OneSide(s, split4op23(c, v)[i].v)
  BY DEF split4op23, OneSide, Within, Value, CutAt, Opposed, Sign, P, Local, m0, m1, m2, m3, m4
<1>3. /\ DOMAIN split4op(c, v) = 1..6
      /\ \A i \in 1..6 : split4op(c, v)[i] = IF i <= 3 THEN split4op01(c, v)[i]
                                                       ELSE split4op23(c, v)[i - 3]
  BY DEF split4op, split4op01, split4op23
<1> QED
  BY <1>1, <1>2, <1>3

(* The signs as a configuration renumbers them.                            *)
Renumbered(s, c) == [i \in Local |-> s[c.tau[i]]]

(* They cut the edges of the reference flag.                               *)
LEMMA CutRenumbered ==
  ASSUME NEW s \in [Local -> Sign], NEW F, CutBy(s, F), NEW c, Consistent(c)
  PROVE  /\ Renumbered(s, c) \in [Local -> Sign]
         /\ CutAt(Renumbered(s, c), Reference(c, F))
<1> DEFINE r == Renumbered(s, c)
<1>1. /\ r \in [Local -> Sign]
      /\ r[0] = s[c.tau[0]] /\ r[1] = s[c.tau[1]] /\ r[2] = s[c.tau[2]] /\ r[3] = s[c.tau[3]]
  BY DEF Renumbered, Consistent, Local
<1>2. \A i, j \in Local : Opposed(s[i], s[j]) <=> Opposed(s[j], s[i])
  BY DEF Opposed, Sign, Local
<1>3. \A i \in Local : ~Opposed(s[i], s[i])
  BY DEF Opposed, Sign, Local
<1>4. ASSUME NEW e \in Edge, NEW a \in Local, NEW b \in Local, iare[e] = {a, b}
      PROVE  e \in F <=> Opposed(s[a], s[b])
  BY <1>2, <1>3, <1>4 DEF CutBy
<1>5. \A e \in Edge : c.taued[e] \in Edge
  BY DEF Consistent
<1>6. \A i \in Local : c.tau[i] \in Local
  BY DEF Consistent
<1>7. /\ c.taued[0] \in F <=> Opposed(s[c.tau[0]], s[c.tau[1]])
      /\ c.taued[1] \in F <=> Opposed(s[c.tau[0]], s[c.tau[2]])
      /\ c.taued[2] \in F <=> Opposed(s[c.tau[0]], s[c.tau[3]])
      /\ c.taued[3] \in F <=> Opposed(s[c.tau[1]], s[c.tau[2]])
      /\ c.taued[4] \in F <=> Opposed(s[c.tau[1]], s[c.tau[3]])
      /\ c.taued[5] \in F <=> Opposed(s[c.tau[2]], s[c.tau[3]])
  <2>1. /\ 0 \in Edge /\ 1 \in Edge /\ 2 \in Edge /\ 3 \in Edge /\ 4 \in Edge /\ 5 \in Edge
        /\ 0 \in Local /\ 1 \in Local /\ 2 \in Local /\ 3 \in Local
    BY DEF Edge, Local
  <2>2. /\ iare[c.taued[0]] = {c.tau[0], c.tau[1]} /\ iare[c.taued[1]] = {c.tau[0], c.tau[2]}
        /\ iare[c.taued[2]] = {c.tau[0], c.tau[3]} /\ iare[c.taued[3]] = {c.tau[1], c.tau[2]}
        /\ iare[c.taued[4]] = {c.tau[1], c.tau[3]} /\ iare[c.taued[5]] = {c.tau[2], c.tau[3]}
    BY DEF Consistent
  <2> QED
    BY <1>4, <1>5, <1>6, <2>1, <2>2
<1> HIDE DEF r
<1>8. CutAt(r, Reference(c, F))
  BY <1>1, <1>7 DEF CutAt, Reference, Edge
<1> QED
  BY <1>1, <1>8 DEF r

(* A tetrahedron that is cut where a function changes its sign is cut by   *)
(* one of four families, into pieces that lie on one side each and not     *)
(* within the surface.                                                     *)
THEOREM SplitOneSide ==
  ASSUME NEW v, NEW s \in [Local -> Sign], NEW F \in SUBSET Edge, F # {}, CutBy(s, F)
  PROVE  \A i \in DOMAIN Split(Bits(F), v) : Within(s, Split(Bits(F), v)[i].v, Local)
<1> DEFINE f == Bits(F)
           c == Configuration[f]
           r == Renumbered(s, c)
           ps == Pieces(f, v)
<1>1. Consistent(c)
  BY PiecesUse
<1>2. r \in [Local -> Sign] /\ CutAt(r, Reference(c, F))
  BY <1>1, CutRenumbered
<1>3. \A i \in DOMAIN ps : OneSide(r, ps[i].v)
  <2>1. \A x, R : BroughtTo(x, f, R) => Reference(x, F) = R
    BY DEF BroughtTo
  <2>2. f \in DOMAIN split1_cfg \union DOMAIN split2sf_cfg \union DOMAIN split3cone_cfg
              \union DOMAIN split4op_cfg
    BY CutEdges, FourFamilies
  <2> HIDE DEF f, r
  <2>3. CASE f \in DOMAIN split1_cfg
    <3>1. c = split1_cfg[f] /\ ps = split1
      BY <2>3, FamilyOf DEF OfFamily
    <3>2. Reference(c, F) = {0}
      BY <2>1, <2>3, <3>1, split1_flags
    <3> HIDE DEF c, ps
    <3> QED
      BY <1>2, <3>1, <3>2, split1_sides
  <2>4. CASE f \in DOMAIN split2sf_cfg
    <3>1. c = split2sf_cfg[f] /\ ps = split2sf(c, v)
      BY <2>4, FamilyOf DEF OfFamily
    <3>2. Reference(c, F) = {4, 5}
      BY <2>1, <2>4, <3>1, split2sf_flags
    <3> HIDE DEF c, ps
    <3> QED
      BY <1>2, <3>1, <3>2, split2sf_sides
  <2>5. CASE f \in DOMAIN split3cone_cfg
    <3>1. c = split3cone_cfg[f] /\ ps = split3cone(c, v)
      BY <2>5, FamilyOf DEF OfFamily
    <3>2. Reference(c, F) = {0, 1, 2}
      BY <2>1, <2>5, <3>1, split3cone_flags
    <3> HIDE DEF c, ps
    <3> QED
      BY <1>2, <3>1, <3>2, split3cone_sides
  <2>6. CASE f \in DOMAIN split4op_cfg
    <3>1. c = split4op_cfg[f] /\ ps = split4op(c, v)
      BY <2>6, FamilyOf DEF OfFamily
    <3>2. Reference(c, F) = {1, 2, 3, 4}
      BY <2>1, <2>6, <3>1, split4op_flags
    <3> HIDE DEF c, ps
    <3> QED
      BY <1>2, <3>1, <3>2, split4op_sides
  <2> QED
    BY <2>2, <2>3, <2>4, <2>5, <2>6
<1>4. Split(f, v) = [i \in DOMAIN ps |-> Placed(ps[i], c)]
  BY DEF Split
<1>5. \A i \in DOMAIN ps : Uses(ps[i].v, Reference(c, F))
  BY PiecesUse DEF Piecewise
<1> HIDE DEF f, c, ps, r
<1>6. \A i \in DOMAIN ps : Split(f, v)[i].v = PlacedVertices(ps[i].v, c)
  BY <1>4 DEF Placed
<1>7. ASSUME NEW i \in DOMAIN ps PROVE Within(s, PlacedVertices(ps[i].v, c), Local)
  <2> DEFINE u == ps[i].v
             w == PlacedVertices(u, c)
  <2>1. Uses(u, Reference(c, F)) /\ OneSide(r, u)
    BY <1>3, <1>5
  <2>2. /\ \A j \in Local : \E a \in 1..4 : w[j] = Place(u[a], c)
        /\ \A a \in 1..4 : \E j \in Local : w[j] = Place(u[a], c)
    BY <1>1, PlacedAt
  <2> HIDE DEF u, w
  <2>3. \A a \in 1..4 : Value(s, Place(u[a], c)) = Value(r, u[a])
    <3> TAKE a \in 1..4
    <3>1. CASE u[a] \in Local
      <4>1. Place(u[a], c) = c.tau[u[a]] /\ c.tau[u[a]] \in Local
        BY <1>1, <3>1 DEF Place, Consistent, Local, m0
      <4>2. Value(s, c.tau[u[a]]) = s[c.tau[u[a]]] /\ Value(r, u[a]) = r[u[a]]
        BY <3>1, <4>1 DEF Value, Local, m0
      <4> QED
        BY <3>1, <4>1, <4>2 DEF Renumbered, r
    <3>2. CASE \E e \in Reference(c, F) : u[a] = m0 + e
      <4>1. PICK e \in Edge : u[a] = m0 + e
        BY <3>2 DEF Reference
      <4>2. ~(u[a] < m0) /\ u[a] - m0 = e /\ c.taued[e] \in Edge
        BY <1>1, <4>1 DEF Edge, m0, Consistent
      <4>3. Place(u[a], c) = m0 + c.taued[e] /\ ~(m0 + c.taued[e] < m0)
        BY <4>1, <4>2 DEF Place, Edge, m0
      <4> QED
        BY <4>2, <4>3 DEF Value
    <3> QED
      BY <2>1, <3>1, <3>2 DEF Uses
  <2>4. PICK sign \in {-1, 1} : /\ \A a \in 1..4 : Value(r, u[a]) \in {0, sign}
                                /\ \E a \in 1..4 : Value(r, u[a]) = sign
    BY <2>1 DEF OneSide, Within
  <2>5. \A j \in Local : Value(s, w[j]) \in {0, sign}
    BY <2>2, <2>3, <2>4
  <2>6. \E j \in Local : Value(s, w[j]) = sign
    BY <2>2, <2>3, <2>4
  <2> QED
    BY <2>5, <2>6 DEF Within, w, u
<1> QED
  BY <1>4, <1>6, <1>7 DEF f

-------------------------------------------------------------------------------
(* Where the pieces come from.  The vertices of the tetrahedron that a     *)
(* vertex of a piece goes back to: itself, or the ends of its edge.        *)
Roots(w) == IF w < m0 THEN {w} ELSE iare[w - m0]

(* The same written out: w goes back to x.                                 *)
From(w, x) ==
    \/ w = x
    \/ w = m0 /\ x \in {0, 1}
    \/ w = m1 /\ x \in {0, 2}
    \/ w = m2 /\ x \in {0, 3}
    \/ w = m3 /\ x \in {1, 2}
    \/ w = m4 /\ x \in {1, 3}
    \/ w = m5 /\ x \in {2, 3}

(* A face of a piece goes back to the three vertices of the face of the    *)
(* same number, or to all four when its tag is reset.                      *)
FacesFrom(u, reset) ==
    \A x \in Local :
        /\ (From(u[2], x) \/ From(u[3], x) \/ From(u[4], x)) <=> (x # 0 \/ 0 \in reset)
        /\ (From(u[1], x) \/ From(u[3], x) \/ From(u[4], x)) <=> (x # 1 \/ 1 \in reset)
        /\ (From(u[1], x) \/ From(u[2], x) \/ From(u[4], x)) <=> (x # 2 \/ 2 \in reset)
        /\ (From(u[1], x) \/ From(u[2], x) \/ From(u[3], x)) <=> (x # 3 \/ 3 \in reset)

(* What the tag of an edge i j says that the edge goes back to: the same   *)
(* edge, the three vertices of a face, or all four.                        *)
Lies(t, i, j, x) == IF t = K THEN x \in {i, j} ELSE x # t

EdgesFrom(u, t) ==
    \A x \in Local :
        /\ (From(u[1], x) \/ From(u[2], x)) <=> Lies(t[1], 0, 1, x)
        /\ (From(u[1], x) \/ From(u[3], x)) <=> Lies(t[2], 0, 2, x)
        /\ (From(u[1], x) \/ From(u[4], x)) <=> Lies(t[3], 0, 3, x)
        /\ (From(u[2], x) \/ From(u[3], x)) <=> Lies(t[4], 1, 2, x)
        /\ (From(u[2], x) \/ From(u[4], x)) <=> Lies(t[5], 1, 3, x)
        /\ (From(u[3], x) \/ From(u[4], x)) <=> Lies(t[6], 2, 3, x)

(* Each vertex of a piece goes back to the vertex in whose place it is.    *)
Traced(p) ==
    /\ From(p.v[1], 0) /\ From(p.v[2], 1) /\ From(p.v[3], 2) /\ From(p.v[4], 3)
    /\ p.reset \subseteq Local
    /\ FacesFrom(p.v, p.reset)

Tagged(p) ==
    /\ \A e \in Edge : p.tag[e + 1] \in {K, N, F0, F1, F2, F3}
    /\ EdgesFrom(p.v, p.tag)

AllTraced(ps) == \A i \in DOMAIN ps : Traced(ps[i])
AllTagged(ps) == \A i \in DOMAIN ps : Tagged(ps[i])

Told(ps) == IsTuple(ps) /\ AllTraced(ps) /\ AllTagged(ps)

(* The pieces of split1.                                                   *)
LEMMA split1_from ==
  Told(split1)
<1> USE DEF Traced, Tagged, FacesFrom, EdgesFrom, Lies, From, P, Local, m0, m1, m2, m3, m4, m5,
          K, N, F0, F1, F2, F3, Edge
<1>1. LET p == P(<<0, m0, 2, 3>>, <<K, K, K, F3, F2, K>>, {0})
     IN Traced(p) /\ Tagged(p)
  OBVIOUS
<1>2. LET p == P(<<m0, 1, 2, 3>>, <<K, F3, F2, K, K, K>>, {1})
     IN Traced(p) /\ Tagged(p)
  OBVIOUS
<1> HIDE DEF Traced, Tagged, FacesFrom, EdgesFrom, Lies, From, P, Local, m0, m1, m2, m3, m4, m5,
          K, N, F0, F1, F2, F3, Edge
<1> QED
  BY <1>1, <1>2 DEF split1, Told, IsTuple, AllTraced, AllTagged

(* The pieces of split2sf.                                                 *)
LEMMA split2sf_from ==
  ASSUME NEW c, NEW v
  PROVE  Told(split2sf(c, v))
<1> USE DEF Traced, Tagged, FacesFrom, EdgesFrom, Lies, From, P, Local, m0, m1, m2, m3, m4, m5,
          K, N, F0, F1, F2, F3, Edge
<1>1. LET p == P(<<0, m4, m5, 3>>, <<F2, F1, K, F0, K, K>>, {3})
     IN Traced(p) /\ Tagged(p)
  OBVIOUS
<1>2. LET p == P(<<0, 1, m5, m4>>, <<K, F1, F2, F0, K, F0>>, {1, 3})
     IN Traced(p) /\ Tagged(p)
  OBVIOUS
<1>3. LET p == P(<<0, 1, 2, m5>>, <<K, K, F1, K, F0, K>>, {2})
     IN Traced(p) /\ Tagged(p)
  OBVIOUS
<1>4. LET p == P(<<0, 1, 2, m4>>, <<K, K, F2, K, K, F0>>, {1})
     IN Traced(p) /\ Tagged(p)
  OBVIOUS
<1>5. LET p == P(<<0, m4, 2, m5>>, <<F2, K, F1, F0, F0, K>>, {2, 3})
     IN Traced(p) /\ Tagged(p)
  OBVIOUS
<1> HIDE DEF Traced, Tagged, FacesFrom, EdgesFrom, Lies, From, P, Local, m0, m1, m2, m3, m4, m5,
          K, N, F0, F1, F2, F3, Edge
<1>6. CASE First(c, v, 1, 2)
  BY <1>1, <1>2, <1>3, <1>4, <1>5, <1>6 DEF split2sf, Told, IsTuple, AllTraced, AllTagged
<1>7. CASE ~First(c, v, 1, 2)
  BY <1>1, <1>2, <1>3, <1>4, <1>5, <1>7 DEF split2sf, Told, IsTuple, AllTraced, AllTagged
<1> QED
  BY <1>6, <1>7

(* The pieces of split2.                                                   *)
LEMMA split2_from ==
  Told(split2)
<1> USE DEF Traced, Tagged, FacesFrom, EdgesFrom, Lies, From, P, Local, m0, m1, m2, m3, m4, m5,
          K, N, F0, F1, F2, F3, Edge
<1>1. LET p == P(<<0, m0, m5, 3>>, <<K, F1, K, N, F2, K>>, {0, 3})
     IN Traced(p) /\ Tagged(p)
  OBVIOUS
<1>2. LET p == P(<<0, m0, 2, m5>>, <<K, K, F1, F3, N, K>>, {0, 2})
     IN Traced(p) /\ Tagged(p)
  OBVIOUS
<1>3. LET p == P(<<m0, 1, m5, 3>>, <<K, N, F2, F0, K, K>>, {1, 3})
     IN Traced(p) /\ Tagged(p)
  OBVIOUS
<1>4. LET p == P(<<m0, 1, 2, m5>>, <<K, F3, N, K, F0, K>>, {1, 2})
     IN Traced(p) /\ Tagged(p)
  OBVIOUS
<1> HIDE DEF Traced, Tagged, FacesFrom, EdgesFrom, Lies, From, P, Local, m0, m1, m2, m3, m4, m5,
          K, N, F0, F1, F2, F3, Edge
<1> QED
  BY <1>1, <1>2, <1>3, <1>4 DEF split2, Told, IsTuple, AllTraced, AllTagged

(* The pieces of split3.                                                   *)
LEMMA split3_from ==
  Told(split3)
<1> USE DEF Traced, Tagged, FacesFrom, EdgesFrom, Lies, From, P, Local, m0, m1, m2, m3, m4, m5,
          K, N, F0, F1, F2, F3, Edge
<1>1. LET p == P(<<0, m0, m1, 3>>, <<K, K, K, F3, F2, F1>>, {0})
     IN Traced(p) /\ Tagged(p)
  OBVIOUS
<1>2. LET p == P(<<m0, 1, m3, 3>>, <<K, F3, F2, K, K, F0>>, {1})
     IN Traced(p) /\ Tagged(p)
  OBVIOUS
<1>3. LET p == P(<<m1, m3, 2, 3>>, <<F3, K, F1, K, F0, K>>, {2})
     IN Traced(p) /\ Tagged(p)
  OBVIOUS
<1>4. LET p == P(<<m0, m3, m1, 3>>, <<F3, F3, F2, F3, F0, F1>>, {0, 1, 2})
     IN Traced(p) /\ Tagged(p)
  OBVIOUS
<1> HIDE DEF Traced, Tagged, FacesFrom, EdgesFrom, Lies, From, P, Local, m0, m1, m2, m3, m4, m5,
          K, N, F0, F1, F2, F3, Edge
<1> QED
  BY <1>1, <1>2, <1>3, <1>4 DEF split3, Told, IsTuple, AllTraced, AllTagged

(* The pieces of split3cone but the first, in each of its three cases.     *)
LEMMA ConeFrom1_from ==
  ASSUME NEW c, NEW v
  PROVE  Told(ConeFrom1(c, v))
<1> USE DEF Traced, Tagged, FacesFrom, EdgesFrom, Lies, From, P, Local, m0, m1, m2, m3, m4, m5,
          K, N, F0, F1, F2, F3, Edge
<1>1. LET p == P(<<m0, 1, m1, m2>>, <<K, F3, F2, F3, F2, F1>>, {0, 1})
     IN Traced(p) /\ Tagged(p)
  OBVIOUS
<1>2. LET p == P(<<m1, 1, 2, m2>>, <<F3, K, F1, K, F2, F1>>, {0, 2})
     IN Traced(p) /\ Tagged(p)
  OBVIOUS
<1>3. LET p == P(<<m2, 1, 2, 3>>, <<F2, F1, K, K, K, K>>, {3})
     IN Traced(p) /\ Tagged(p)
  OBVIOUS
<1>4. LET p == P(<<m2, 1, m1, 3>>, <<F2, F1, K, F3, K, F1>>, {0, 3})
     IN Traced(p) /\ Tagged(p)
  OBVIOUS
<1>5. LET p == P(<<m1, 1, 2, 3>>, <<F3, K, F1, K, K, K>>, {2})
     IN Traced(p) /\ Tagged(p)
  OBVIOUS
<1> HIDE DEF Traced, Tagged, FacesFrom, EdgesFrom, Lies, From, P, Local, m0, m1, m2, m3, m4, m5,
          K, N, F0, F1, F2, F3, Edge
<1>6. CASE First(c, v, 2, 3)
  BY <1>1, <1>2, <1>3, <1>4, <1>5, <1>6 DEF ConeFrom1, Told, IsTuple, AllTraced, AllTagged
<1>7. CASE ~First(c, v, 2, 3)
  BY <1>1, <1>2, <1>3, <1>4, <1>5, <1>7 DEF ConeFrom1, Told, IsTuple, AllTraced, AllTagged
<1> QED
  BY <1>6, <1>7

(* The same.                                                               *)
LEMMA ConeFrom2_from ==
  ASSUME NEW c, NEW v
  PROVE  Told(ConeFrom2(c, v))
<1> USE DEF Traced, Tagged, FacesFrom, EdgesFrom, Lies, From, P, Local, m0, m1, m2, m3, m4, m5,
          K, N, F0, F1, F2, F3, Edge
<1>1. LET p == P(<<m1, m0, 2, m2>>, <<F3, K, F1, F3, F2, F1>>, {0, 2})
     IN Traced(p) /\ Tagged(p)
  OBVIOUS
<1>2. LET p == P(<<m2, m0, 2, 3>>, <<F2, F1, K, F3, F2, K>>, {0, 3})
     IN Traced(p) /\ Tagged(p)
  OBVIOUS
<1>3. LET p == P(<<m0, 1, 2, 3>>, <<K, F3, F2, K, K, K>>, {1})
     IN Traced(p) /\ Tagged(p)
  OBVIOUS
<1>4. LET p == P(<<m0, 1, 2, m2>>, <<K, F3, F2, K, F2, F1>>, {0, 1})
     IN Traced(p) /\ Tagged(p)
  OBVIOUS
<1>5. LET p == P(<<m2, 1, 2, 3>>, <<F2, F1, K, K, K, K>>, {3})
     IN Traced(p) /\ Tagged(p)
  OBVIOUS
<1> HIDE DEF Traced, Tagged, FacesFrom, EdgesFrom, Lies, From, P, Local, m0, m1, m2, m3, m4, m5,
          K, N, F0, F1, F2, F3, Edge
<1>6. CASE First(c, v, 3, 1)
  BY <1>1, <1>2, <1>3, <1>4, <1>5, <1>6 DEF ConeFrom2, Told, IsTuple, AllTraced, AllTagged
<1>7. CASE ~First(c, v, 3, 1)
  BY <1>1, <1>2, <1>3, <1>4, <1>5, <1>7 DEF ConeFrom2, Told, IsTuple, AllTraced, AllTagged
<1> QED
  BY <1>6, <1>7

(* The same.                                                               *)
LEMMA ConeFrom3_from ==
  ASSUME NEW c, NEW v
  PROVE  Told(ConeFrom3(c, v))
<1> USE DEF Traced, Tagged, FacesFrom, EdgesFrom, Lies, From, P, Local, m0, m1, m2, m3, m4, m5,
          K, N, F0, F1, F2, F3, Edge
<1>1. LET p == P(<<m2, m0, m1, 3>>, <<F2, F1, K, F3, F2, F1>>, {0, 3})
     IN Traced(p) /\ Tagged(p)
  OBVIOUS
<1>2. LET p == P(<<m0, 1, m1, 3>>, <<K, F3, F2, F3, K, F1>>, {0, 1})
     IN Traced(p) /\ Tagged(p)
  OBVIOUS
<1>3. LET p == P(<<m1, 1, 2, 3>>, <<F3, K, F1, K, K, K>>, {2})
     IN Traced(p) /\ Tagged(p)
  OBVIOUS
<1>4. LET p == P(<<m1, m0, 2, 3>>, <<F3, K, F1, F3, F2, K>>, {0, 2})
     IN Traced(p) /\ Tagged(p)
  OBVIOUS
<1>5. LET p == P(<<m0, 1, 2, 3>>, <<K, F3, F2, K, K, K>>, {1})
     IN Traced(p) /\ Tagged(p)
  OBVIOUS
<1> HIDE DEF Traced, Tagged, FacesFrom, EdgesFrom, Lies, From, P, Local, m0, m1, m2, m3, m4, m5,
          K, N, F0, F1, F2, F3, Edge
<1>6. CASE First(c, v, 1, 2)
  BY <1>1, <1>2, <1>3, <1>4, <1>5, <1>6 DEF ConeFrom3, Told, IsTuple, AllTraced, AllTagged
<1>7. CASE ~First(c, v, 1, 2)
  BY <1>1, <1>2, <1>3, <1>4, <1>5, <1>7 DEF ConeFrom3, Told, IsTuple, AllTraced, AllTagged
<1> QED
  BY <1>6, <1>7

(* The pieces of split3op in each of its four cases.                       *)
LEMMA Op20_from ==
  Told(Op20)
<1> USE DEF Traced, Tagged, FacesFrom, EdgesFrom, Lies, From, P, Local, m0, m1, m2, m3, m4, m5,
          K, N, F0, F1, F2, F3, Edge
<1>1. LET p == P(<<m1, m0, 2, m5>>, <<F3, K, F1, F3, N, K>>, {0, 2})
     IN Traced(p) /\ Tagged(p)
  OBVIOUS
<1>2. LET p == P(<<m0, 1, 2, m5>>, <<K, F3, N, K, F0, K>>, {1, 2})
     IN Traced(p) /\ Tagged(p)
  OBVIOUS
<1>3. LET p == P(<<m0, 1, m5, 3>>, <<K, N, F2, F0, K, K>>, {1, 3})
     IN Traced(p) /\ Tagged(p)
  OBVIOUS
<1>4. LET p == P(<<0, m0, m1, m5>>, <<K, K, F1, F3, N, F1>>, {0, 2})
     IN Traced(p) /\ Tagged(p)
  OBVIOUS
<1>5. LET p == P(<<0, m0, m5, 3>>, <<K, F1, K, N, F2, K>>, {0, 3})
     IN Traced(p) /\ Tagged(p)
  OBVIOUS
<1> HIDE DEF Traced, Tagged, FacesFrom, EdgesFrom, Lies, From, P, Local, m0, m1, m2, m3, m4, m5,
          K, N, F0, F1, F2, F3, Edge
<1> QED
  BY <1>1, <1>2, <1>3, <1>4, <1>5 DEF Op20, Told, IsTuple, AllTraced, AllTagged

(* The same.                                                               *)
LEMMA Op10_from ==
  Told(Op10)
<1> USE DEF Traced, Tagged, FacesFrom, EdgesFrom, Lies, From, P, Local, m0, m1, m2, m3, m4, m5,
          K, N, F0, F1, F2, F3, Edge
<1>1. LET p == P(<<m1, 1, 2, m5>>, <<F3, K, F1, K, F0, K>>, {2})
     IN Traced(p) /\ Tagged(p)
  OBVIOUS
<1>2. LET p == P(<<m0, 1, m1, m5>>, <<K, F3, N, F3, F0, F1>>, {0, 1, 2})
     IN Traced(p) /\ Tagged(p)
  OBVIOUS
<1>3. LET p == P(<<m0, 1, m5, 3>>, <<K, N, F2, F0, K, K>>, {1, 3})
     IN Traced(p) /\ Tagged(p)
  OBVIOUS
<1>4. LET p == P(<<0, m0, m5, 3>>, <<K, F1, K, N, F2, K>>, {0, 3})
     IN Traced(p) /\ Tagged(p)
  OBVIOUS
<1>5. LET p == P(<<0, m0, m1, m5>>, <<K, K, F1, F3, N, F1>>, {0, 2})
     IN Traced(p) /\ Tagged(p)
  OBVIOUS
<1> HIDE DEF Traced, Tagged, FacesFrom, EdgesFrom, Lies, From, P, Local, m0, m1, m2, m3, m4, m5,
          K, N, F0, F1, F2, F3, Edge
<1> QED
  BY <1>1, <1>2, <1>3, <1>4, <1>5 DEF Op10, Told, IsTuple, AllTraced, AllTagged

(* The same.                                                               *)
LEMMA Op23_from ==
  Told(Op23)
<1> USE DEF Traced, Tagged, FacesFrom, EdgesFrom, Lies, From, P, Local, m0, m1, m2, m3, m4, m5,
          K, N, F0, F1, F2, F3, Edge
<1>1. LET p == P(<<0, m0, m1, 3>>, <<K, K, K, F3, F2, F1>>, {0})
     IN Traced(p) /\ Tagged(p)
  OBVIOUS
<1>2. LET p == [P(<<m1, m0, m5, 3>>, <<F3, F1, F1, N, F2, K>>, {0, 2, 3}) EXCEPT !.ori = {1, 2, 3}]
     IN Traced(p) /\ Tagged(p)
  OBVIOUS
<1>3. LET p == P(<<m0, 1, m5, 3>>, <<K, N, F2, F0, K, K>>, {1, 3})
     IN Traced(p) /\ Tagged(p)
  OBVIOUS
<1>4. LET p == P(<<m1, m0, 2, m5>>, <<F3, K, F1, F3, N, K>>, {0, 2})
     IN Traced(p) /\ Tagged(p)
  OBVIOUS
<1>5. LET p == P(<<m0, 1, 2, m5>>, <<K, F3, N, K, F0, K>>, {1, 2})
     IN Traced(p) /\ Tagged(p)
  OBVIOUS
<1> HIDE DEF Traced, Tagged, FacesFrom, EdgesFrom, Lies, From, P, Local, m0, m1, m2, m3, m4, m5,
          K, N, F0, F1, F2, F3, Edge
<1> DEFINE q == [P(<<m1, m0, m5, 3>>, <<F3, F1, F1, N, F2, K>>, {0, 2, 3}) EXCEPT !.ori = {1, 2, 3}]
<1> HIDE DEF q
<1>6. Op23 = << P(<<0, m0, m1, 3>>, <<K, K, K, F3, F2, F1>>, {0}),
             q,
             P(<<m0, 1, m5, 3>>, <<K, N, F2, F0, K, K>>, {1, 3}),
             P(<<m1, m0, 2, m5>>, <<F3, K, F1, F3, N, K>>, {0, 2}),
             P(<<m0, 1, 2, m5>>, <<K, F3, N, K, F0, K>>, {1, 2}) >>
  BY DEF Op23, q
<1>7. Traced(q) /\ Tagged(q)
  BY <1>2 DEF q
<1> QED
  BY <1>1, <1>3, <1>4, <1>5, <1>6, <1>7 DEF Told, IsTuple, AllTraced, AllTagged

(* The same.                                                               *)
LEMMA Op13_from ==
  Told(Op13)
<1> USE DEF Traced, Tagged, FacesFrom, EdgesFrom, Lies, From, P, Local, m0, m1, m2, m3, m4, m5,
          K, N, F0, F1, F2, F3, Edge
<1>1. LET p == P(<<0, m0, m1, 3>>, <<K, K, K, F3, F2, F1>>, {0})
     IN Traced(p) /\ Tagged(p)
  OBVIOUS
<1>2. LET p == P(<<m1, 1, 2, m5>>, <<F3, K, F1, K, F0, K>>, {2})
     IN Traced(p) /\ Tagged(p)
  OBVIOUS
<1>3. LET p == P(<<m0, 1, m1, 3>>, <<K, F3, F2, F3, K, F1>>, {0, 1})
     IN Traced(p) /\ Tagged(p)
  OBVIOUS
<1>4. LET p == P(<<m1, 1, m5, 3>>, <<F3, F1, F1, F0, K, K>>, {2, 3})
     IN Traced(p) /\ Tagged(p)
  OBVIOUS
<1> HIDE DEF Traced, Tagged, FacesFrom, EdgesFrom, Lies, From, P, Local, m0, m1, m2, m3, m4, m5,
          K, N, F0, F1, F2, F3, Edge
<1> QED
  BY <1>1, <1>2, <1>3, <1>4 DEF Op13, Told, IsTuple, AllTraced, AllTagged

(* The pieces of split4sf at the face of the edges 0, 1, 3.                *)
LEMMA split4sf12_from ==
  ASSUME NEW c, NEW v
  PROVE  Told(split4sf12(c, v))
<1> USE DEF Traced, Tagged, FacesFrom, EdgesFrom, Lies, From, P, Local, m0, m1, m2, m3, m4, m5,
          K, N, F0, F1, F2, F3, Edge
<1>1. LET p == P(<<m0, 1, m1, m4>>, <<K, F3, F2, F3, K, N>>, {0, 1})
     IN Traced(p) /\ Tagged(p)
  OBVIOUS
<1>2. LET p == P(<<m1, 1, 2, m4>>, <<F3, K, N, K, K, F0>>, {1, 2})
     IN Traced(p) /\ Tagged(p)
  OBVIOUS
<1>3. LET p == P(<<m1, m0, 2, m4>>, <<F3, K, N, F3, F2, F0>>, {0, 1, 2})
     IN Traced(p) /\ Tagged(p)
  OBVIOUS
<1>4. LET p == P(<<m0, 1, 2, m4>>, <<K, F3, F2, K, K, F0>>, {1})
     IN Traced(p) /\ Tagged(p)
  OBVIOUS
<1> HIDE DEF Traced, Tagged, FacesFrom, EdgesFrom, Lies, From, P, Local, m0, m1, m2, m3, m4, m5,
          K, N, F0, F1, F2, F3, Edge
<1>5. CASE First(c, v, 1, 2)
  BY <1>1, <1>2, <1>3, <1>4, <1>5 DEF split4sf12, Told, IsTuple, AllTraced, AllTagged
<1>6. CASE ~First(c, v, 1, 2)
  BY <1>1, <1>2, <1>3, <1>4, <1>6 DEF split4sf12, Told, IsTuple, AllTraced, AllTagged
<1> QED
  BY <1>5, <1>6

(* Those at the face of the edges 1, 2, 5.                                 *)
LEMMA split4sf23_from ==
  ASSUME NEW c, NEW v
  PROVE  Told(split4sf23(c, v))
<1> USE DEF Traced, Tagged, FacesFrom, EdgesFrom, Lies, From, P, Local, m0, m1, m2, m3, m4, m5,
          K, N, F0, F1, F2, F3, Edge
<1>1. LET p == P(<<m1, m4, 2, m2>>, <<N, K, F1, F0, F2, F1>>, {0, 2, 3})
     IN Traced(p) /\ Tagged(p)
  OBVIOUS
<1>2. LET p == P(<<m2, m4, 2, 3>>, <<F2, F1, K, F0, K, K>>, {3})
     IN Traced(p) /\ Tagged(p)
  OBVIOUS
<1>3. LET p == P(<<m2, m4, m1, 3>>, <<F2, F1, K, N, K, F1>>, {0, 3})
     IN Traced(p) /\ Tagged(p)
  OBVIOUS
<1>4. LET p == P(<<m1, m4, 2, 3>>, <<N, K, F1, F0, K, K>>, {2, 3})
     IN Traced(p) /\ Tagged(p)
  OBVIOUS
<1> HIDE DEF Traced, Tagged, FacesFrom, EdgesFrom, Lies, From, P, Local, m0, m1, m2, m3, m4, m5,
          K, N, F0, F1, F2, F3, Edge
<1>5. CASE First(c, v, 2, 3)
  BY <1>1, <1>2, <1>3, <1>4, <1>5 DEF split4sf23, Told, IsTuple, AllTraced, AllTagged
<1>6. CASE ~First(c, v, 2, 3)
  BY <1>1, <1>2, <1>3, <1>4, <1>6 DEF split4sf23, Told, IsTuple, AllTraced, AllTagged
<1> QED
  BY <1>5, <1>6

(* The pieces of split4op on one side.                                     *)
LEMMA split4op01_from ==
  ASSUME NEW c, NEW v
  PROVE  Told(split4op01(c, v))
<1> USE DEF Traced, Tagged, FacesFrom, EdgesFrom, Lies, From, P, Local, m0, m1, m2, m3, m4, m5,
          K, N, F0, F1, F2, F3, Edge
<1>1. LET p == P(<<0, 1, m3, m4>>, <<K, F3, F2, K, K, F0>>, {1})
     IN Traced(p) /\ Tagged(p)
  OBVIOUS
<1>2. LET p == P(<<0, m4, m3, m2>>, <<F2, F3, K, F0, F2, N>>, {0, 1, 3})
     IN Traced(p) /\ Tagged(p)
  OBVIOUS
<1>3. LET p == P(<<0, m3, m1, m2>>, <<F3, K, K, F3, N, F1>>, {0, 2})
     IN Traced(p) /\ Tagged(p)
  OBVIOUS
<1>4. LET p == P(<<0, 1, m1, m2>>, <<K, K, K, F3, F2, F1>>, {0})
     IN Traced(p) /\ Tagged(p)
  OBVIOUS
<1>5. LET p == P(<<m1, 1, m3, m2>>, <<F3, F3, F1, K, F2, N>>, {0, 1, 2})
     IN Traced(p) /\ Tagged(p)
  OBVIOUS
<1>6. LET p == P(<<m2, 1, m3, m4>>, <<F2, N, F2, K, K, F0>>, {1, 3})
     IN Traced(p) /\ Tagged(p)
  OBVIOUS
<1> HIDE DEF Traced, Tagged, FacesFrom, EdgesFrom, Lies, From, P, Local, m0, m1, m2, m3, m4, m5,
          K, N, F0, F1, F2, F3, Edge
<1>7. CASE First(c, v, 0, 1)
  BY <1>1, <1>2, <1>3, <1>4, <1>5, <1>6, <1>7 DEF split4op01, Told, IsTuple, AllTraced, AllTagged
<1>8. CASE ~First(c, v, 0, 1)
  BY <1>1, <1>2, <1>3, <1>4, <1>5, <1>6, <1>8 DEF split4op01, Told, IsTuple, AllTraced, AllTagged
<1> QED
  BY <1>7, <1>8

(* Those on the other side.                                                *)
LEMMA split4op23_from ==
  ASSUME NEW c, NEW v
  PROVE  Told(split4op23(c, v))
<1> USE DEF Traced, Tagged, FacesFrom, EdgesFrom, Lies, From, P, Local, m0, m1, m2, m3, m4, m5,
          K, N, F0, F1, F2, F3, Edge
<1>1. LET p == P(<<m2, m4, 2, 3>>, <<F2, F1, K, F0, K, K>>, {3})
     IN Traced(p) /\ Tagged(p)
  OBVIOUS
<1>2. LET p == P(<<m2, m3, 2, m4>>, <<N, F1, F2, K, F0, F0>>, {1, 2, 3})
     IN Traced(p) /\ Tagged(p)
  OBVIOUS
<1>3. LET p == P(<<m1, m3, 2, m2>>, <<F3, K, F1, K, N, F1>>, {0, 2})
     IN Traced(p) /\ Tagged(p)
  OBVIOUS
<1>4. LET p == P(<<m1, m3, 2, 3>>, <<F3, K, F1, K, F0, K>>, {2})
     IN Traced(p) /\ Tagged(p)
  OBVIOUS
<1>5. LET p == P(<<m2, m3, m1, 3>>, <<N, F1, K, F3, F0, F1>>, {0, 2, 3})
     IN Traced(p) /\ Tagged(p)
  OBVIOUS
<1>6. LET p == P(<<m2, m4, m3, 3>>, <<F2, N, K, F0, K, F0>>, {1, 3})
     IN Traced(p) /\ Tagged(p)
  OBVIOUS
<1> HIDE DEF Traced, Tagged, FacesFrom, EdgesFrom, Lies, From, P, Local, m0, m1, m2, m3, m4, m5,
          K, N, F0, F1, F2, F3, Edge
<1>7. CASE First(c, v, 2, 3)
  BY <1>1, <1>2, <1>3, <1>4, <1>5, <1>6, <1>7 DEF split4op23, Told, IsTuple, AllTraced, AllTagged
<1>8. CASE ~First(c, v, 2, 3)
  BY <1>1, <1>2, <1>3, <1>4, <1>5, <1>6, <1>8 DEF split4op23, Told, IsTuple, AllTraced, AllTagged
<1> QED
  BY <1>7, <1>8

(* The last pieces of split5.                                              *)
LEMMA split5_01_from ==
  ASSUME NEW c, NEW v
  PROVE  Told(split5_01(c, v))
<1> USE DEF Traced, Tagged, FacesFrom, EdgesFrom, Lies, From, P, Local, m0, m1, m2, m3, m4, m5,
          K, N, F0, F1, F2, F3, Edge
<1>1. LET p == P(<<0, 1, m3, m4>>, <<K, F3, F2, K, K, F0>>, {1})
     IN Traced(p) /\ Tagged(p)
  OBVIOUS
<1>2. LET p == P(<<0, m4, m3, m2>>, <<F2, F3, K, F0, F2, N>>, {0, 1, 3})
     IN Traced(p) /\ Tagged(p)
  OBVIOUS
<1>3. LET p == P(<<0, m3, m1, m2>>, <<F3, K, K, F3, N, F1>>, {0, 2})
     IN Traced(p) /\ Tagged(p)
  OBVIOUS
<1>4. LET p == P(<<0, 1, m1, m2>>, <<K, K, K, F3, F2, F1>>, {0})
     IN Traced(p) /\ Tagged(p)
  OBVIOUS
<1>5. LET p == P(<<m2, 1, m3, m4>>, <<F2, N, F2, K, K, F0>>, {1, 3})
     IN Traced(p) /\ Tagged(p)
  OBVIOUS
<1>6. LET p == P(<<m1, 1, m3, m2>>, <<F3, F3, F1, K, F2, N>>, {0, 1, 2})
     IN Traced(p) /\ Tagged(p)
  OBVIOUS
<1> HIDE DEF Traced, Tagged, FacesFrom, EdgesFrom, Lies, From, P, Local, m0, m1, m2, m3, m4, m5,
          K, N, F0, F1, F2, F3, Edge
<1>7. CASE First(c, v, 0, 1)
  BY <1>1, <1>2, <1>3, <1>4, <1>5, <1>6, <1>7 DEF split5_01, Told, IsTuple, AllTraced, AllTagged
<1>8. CASE ~First(c, v, 0, 1)
  BY <1>1, <1>2, <1>3, <1>4, <1>5, <1>6, <1>8 DEF split5_01, Told, IsTuple, AllTraced, AllTagged
<1> QED
  BY <1>7, <1>8

(* The pieces of split6.  (The tags of some of its edges are not the right ones.) *)
LEMMA split6_from ==
  AllTraced(split6)
<1> USE DEF Traced, Tagged, FacesFrom, EdgesFrom, Lies, From, P, Local, m0, m1, m2, m3, m4, m5,
          K, N, F0, F1, F2, F3, Edge
<1>1. LET p == P(<<0, m0, m1, m2>>, <<K, K, K, F3, F2, F1>>, {0})
     IN Traced(p)
  OBVIOUS
<1>2. LET p == P(<<m0, 1, m3, m4>>, <<K, F3, F2, K, K, F0>>, {1})
     IN Traced(p)
  OBVIOUS
<1>3. LET p == P(<<m1, m3, 2, m5>>, <<F3, K, F1, K, F0, K>>, {2})
     IN Traced(p)
  OBVIOUS
<1>4. LET p == P(<<m2, m4, m5, 3>>, <<F2, F1, K, F0, K, K>>, {3})
     IN Traced(p)
  OBVIOUS
<1>5. LET p == P(<<m0, m3, m1, m2>>, <<F3, F3, F2, F3, N, F1>>, {0, 1, 2})
     IN Traced(p)
  OBVIOUS
<1>6. LET p == P(<<m2, m0, m3, m4>>, <<F2, N, F2, F3, F2, F0>>, {0, 1, 3})
     IN Traced(p)
  OBVIOUS
<1>7. LET p == P(<<m2, m3, m1, m5>>, <<N, F1, F1, F3, F0, F3>>, {0, 2, 3})
     IN Traced(p)
  OBVIOUS
<1>8. LET p == P(<<m2, m3, m5, m4>>, <<N, F1, F2, F0, F0, F0>>, {1, 2, 3})
     IN Traced(p)
  OBVIOUS
<1> HIDE DEF Traced, Tagged, FacesFrom, EdgesFrom, Lies, From, P, Local, m0, m1, m2, m3, m4, m5,
          K, N, F0, F1, F2, F3, Edge
<1> QED
  BY <1>1, <1>2, <1>3, <1>4, <1>5, <1>6, <1>7, <1>8 DEF split6, Told, IsTuple, AllTraced, AllTagged
(* Pieces written in two parts.                                            *)
LEMMA JoinedFrom ==
  ASSUME NEW s, NEW t, Told(s), Told(t)
  PROVE  Told(s \o t)
<1>1. DOMAIN s = 1..Len(s) /\ DOMAIN t = 1..Len(t) /\ Len(s) \in Nat /\ Len(t) \in Nat
  BY TupleLen DEF Told
<1> DEFINE j == s \o t
<1>2. /\ IsTuple(j) /\ Len(j) = Len(s) + Len(t)
      /\ \A k \in 1..Len(s) : j[k] = s[k]
      /\ \A k \in 1..Len(t) : j[Len(s) + k] = t[k]
      /\ \A k \in DOMAIN j : k \in 1..Len(s) \/ k - Len(s) \in 1..Len(t)
  BY TwoTuples DEF Told
<1> HIDE DEF j
<1>3. DOMAIN j = 1..(Len(s) + Len(t))
  BY <1>2, TupleLen
<1>4. \A k \in DOMAIN j : (\E i \in DOMAIN s : j[k] = s[i]) \/ (\E i \in DOMAIN t : j[k] = t[i])
  <2> TAKE k \in DOMAIN j
  <2>1. CASE k \in 1..Len(s)
    BY <1>1, <1>2, <2>1
  <2>2. CASE k - Len(s) \in 1..Len(t)
    <3>1. j[Len(s) + (k - Len(s))] = t[k - Len(s)] /\ Len(s) + (k - Len(s)) = k
      BY <1>1, <1>2, <1>3, <2>2
    <3> QED
      BY <1>1, <2>2, <3>1
  <2> QED
    BY <1>2, <2>1, <2>2
<1> QED
  BY <1>2, <1>4 DEF Told, AllTraced, AllTagged, j

(* The pieces of split3cone.                                               *)
LEMMA split3cone_from ==
  ASSUME NEW c, NEW v
  PROVE  Told(split3cone(c, v))
<1> DEFINE p  == P(<<0, m0, m1, m2>>, <<K, K, K, F3, F2, F1>>, {0})
           ps == << p >>
<1>1. Traced(p) /\ Tagged(p)
  BY DEF Traced, Tagged, FacesFrom, EdgesFrom, Lies, From, P, Local, m0, m1, m2, m3, m4, m5, K, N,
         F0, F1, F2, F3, Edge
<1>2. \/ split3cone(c, v) = ps \o ConeFrom1(c, v)
      \/ split3cone(c, v) = ps \o ConeFrom2(c, v)
      \/ split3cone(c, v) = ps \o ConeFrom3(c, v)
  BY SMTT(30) DEF split3cone
<1> HIDE DEF p
<1>4. Told(ps)
  BY <1>1 DEF Told, AllTraced, AllTagged, IsTuple
<1> HIDE DEF ps
<1> QED
  BY <1>2, <1>4, ConeFrom1_from, ConeFrom2_from, ConeFrom3_from, JoinedFrom

(* The pieces of split3op.                                                 *)
LEMMA split3op_from ==
  ASSUME NEW c, NEW v
  PROVE  Told(split3op(c, v))
BY Op20_from, Op10_from, Op23_from, Op13_from DEF split3op

(* The pieces of split4sf.                                                 *)
LEMMA split4sf_from ==
  ASSUME NEW c, NEW v
  PROVE  Told(split4sf(c, v))
<1> DEFINE p  == P(<<0, m0, m1, m2>>,  <<K, K, K, F3, F2, F1>>, {0})
           q  == P(<<m2, m0, m1, m4>>, <<F2, F1, F2, F3, F2, N>>, {0, 1, 3})
           ps == << p, q >>
<1>1. Traced(p) /\ Tagged(p)
  BY DEF Traced, Tagged, FacesFrom, EdgesFrom, Lies, From, P, Local, m0, m1, m2, m3, m4, m5, K, N,
         F0, F1, F2, F3, Edge
<1>2. Traced(q) /\ Tagged(q)
  BY DEF Traced, Tagged, FacesFrom, EdgesFrom, Lies, From, P, Local, m0, m1, m2, m3, m4, m5, K, N,
         F0, F1, F2, F3, Edge
<1>3. split4sf(c, v) = (ps \o split4sf12(c, v)) \o split4sf23(c, v)
  BY DEF split4sf
<1> HIDE DEF p, q
<1>5. Told(ps)
  BY <1>1, <1>2 DEF Told, AllTraced, AllTagged, IsTuple
<1> HIDE DEF ps
<1>6. Told(ps \o split4sf12(c, v))
  BY <1>5, split4sf12_from, JoinedFrom
<1> QED
  BY <1>3, <1>6, split4sf23_from, JoinedFrom

(* The pieces of split4op.                                                 *)
LEMMA split4op_from ==
  ASSUME NEW c, NEW v
  PROVE  Told(split4op(c, v))
<1> QED
  BY split4op01_from, split4op23_from, JoinedFrom DEF split4op

(* The pieces of split5.                                                   *)
LEMMA split5_from ==
  ASSUME NEW c, NEW v
  PROVE  Told(split5(c, v))
<1> DEFINE p  == P(<<m2, m4, m5, 3>>,  <<F2, F1, K, F0, K, K>>, {3})
           q  == P(<<m1, m3, 2, m5>>,  <<F3, K, F1, K, F0, K>>, {2})
           r  == P(<<m2, m4, m3, m5>>, <<F2, N, F1, F0, F0, F0>>, {1, 2, 3})
           s  == P(<<m2, m3, m1, m5>>, <<N, F1, F1, F3, F0, F1>>, {0, 2, 3})
           ps == << p, q, r, s >>
<1> USE DEF Traced, Tagged, FacesFrom, EdgesFrom, Lies, From, P, Local, m0, m1, m2, m3, m4, m5,
            K, N, F0, F1, F2, F3, Edge
<1>1. Traced(p) /\ Tagged(p)
  OBVIOUS
<1>2. Traced(q) /\ Tagged(q)
  OBVIOUS
<1>3. Traced(r) /\ Tagged(r)
  OBVIOUS
<1>4. Traced(s) /\ Tagged(s)
  OBVIOUS
<1> HIDE DEF Traced, Tagged, FacesFrom, EdgesFrom, Lies, From, P, Local, m0, m1, m2, m3, m4, m5,
             K, N, F0, F1, F2, F3, Edge
<1>5. split5(c, v) = ps \o split5_01(c, v)
  BY DEF split5
<1> HIDE DEF p, q, r, s
<1>7. Told(ps)
  BY <1>1, <1>2, <1>3, <1>4 DEF Told, AllTraced, AllTagged, IsTuple
<1> HIDE DEF ps
<1> QED
  BY <1>5, <1>7, split5_01_from, JoinedFrom

(* Only the flag of all the edges is the one of split6.                    *)
LEMMA AllEdges ==
  ASSUME NEW F \in SUBSET Edge, Bits(F) = 63
  PROVE  F = Edge
<1> DEFINE bit(e, n) == IF e \in F THEN n ELSE 0
<1>1. /\ bit(0, 1) \in {0, 1} /\ bit(1, 2) \in {0, 2} /\ bit(2, 4) \in {0, 4}
      /\ bit(3, 8) \in {0, 8} /\ bit(4, 16) \in {0, 16} /\ bit(5, 32) \in {0, 32}
  OBVIOUS
<1>2. bit(0, 1) + bit(1, 2) + bit(2, 4) + bit(3, 8) + bit(4, 16) + bit(5, 32) = 63
  BY DEF Bits
<1>3. /\ bit(0, 1) = 1 /\ bit(1, 2) = 2 /\ bit(2, 4) = 4 /\ bit(3, 8) = 8 /\ bit(4, 16) = 16
      /\ bit(5, 32) = 32
  <2> HIDE DEF bit
  <2> QED
    BY <1>1, <1>2
<1>4. 0 \in F /\ 1 \in F /\ 2 \in F /\ 3 \in F /\ 4 \in F /\ 5 \in F
  BY <1>3
<1>5. \A e \in Edge : e \in F
  BY <1>4 DEF Edge
<1> QED
  BY <1>5

(* Whatever edges carry a point.                                           *)
LEMMA PiecesFrom ==
  ASSUME NEW v, NEW F \in SUBSET Edge, F # {}
  PROVE  AllTraced(Pieces(Bits(F), v)) /\ (F # Edge => AllTagged(Pieces(Bits(F), v)))
<1> DEFINE f == Bits(F)
           Good(ps) == AllTraced(ps) /\ (F # Edge => AllTagged(ps))
<1>1. f \in 1..63
  BY FlagNumber
<1>2. \A cfg, ps : OfFamily(f, v, cfg, ps) => Pieces(f, v) = ps
  BY DEF OfFamily
<1>3. \A ps : Told(ps) => Good(ps)
  BY DEF Told
<1>4. f = 63 => F = Edge
  BY AllEdges
<1>5. PICK cfg : f \in DOMAIN cfg /\
                 cfg \in {split1_cfg, split2sf_cfg, split2_cfg, split3_cfg, split3cone_cfg,
                          split3op_cfg, split4sf_cfg, split4op_cfg, split5_cfg, split6_cfg}
  BY <1>1, Domains
<1> HIDE DEF f, Good
<1>6. CASE cfg = split1_cfg
  BY <1>2, <1>3, <1>5, <1>6, FamilyOf, split1_from DEF Good, f
<1>7. CASE cfg = split2sf_cfg
  BY <1>2, <1>3, <1>5, <1>7, FamilyOf, split2sf_from DEF Good, f
<1>8. CASE cfg = split2_cfg
  BY <1>2, <1>3, <1>5, <1>8, FamilyOf, split2_from DEF Good, f
<1>9. CASE cfg = split3_cfg
  BY <1>2, <1>3, <1>5, <1>9, FamilyOf, split3_from DEF Good, f
<1>10. CASE cfg = split3cone_cfg
  BY <1>2, <1>3, <1>5, <1>10, FamilyOf, split3cone_from DEF Good, f
<1>11. CASE cfg = split3op_cfg
  BY <1>2, <1>3, <1>5, <1>11, FamilyOf, split3op_from DEF Good, f
<1>12. CASE cfg = split4sf_cfg
  BY <1>2, <1>3, <1>5, <1>12, FamilyOf, split4sf_from DEF Good, f
<1>13. CASE cfg = split4op_cfg
  BY <1>2, <1>3, <1>5, <1>13, FamilyOf, split4op_from DEF Good, f
<1>14. CASE cfg = split5_cfg
  BY <1>2, <1>3, <1>5, <1>14, FamilyOf, split5_from DEF Good, f
<1>15. CASE cfg = split6_cfg
  <2>1. f = 63
    BY <1>5, <1>15, Domains
  <2> QED
    BY <1>2, <1>4, <1>5, <1>15, <2>1, FamilyOf, split6_from DEF f
<1> QED
  BY <1>5, <1>6, <1>7, <1>8, <1>9, <1>10, <1>11, <1>12, <1>13, <1>14, <1>15

-------------------------------------------------------------------------------
(* The edges of a numbering, and the vertices that they join.              *)
LEMMA EdgesOf ==
  ASSUME NEW c, Consistent(c)
  PROVE  \A e \in Edge : /\ c.taued[e] \in Edge
                         /\ iare[c.taued[e]] = {c.tau[i] : i \in iare[e]}
                         /\ At(c.taued, c.taued[e]) = e
<1>1. \A e \in Edge : iare[c.taued[e]] = {c.tau[i] : i \in iare[e]}
  <2>1. /\ iare[c.taued[0]] = {c.tau[i] : i \in iare[0]} /\ iare[c.taued[1]] = {c.tau[i] : i \in iare[1]}
        /\ iare[c.taued[2]] = {c.tau[i] : i \in iare[2]} /\ iare[c.taued[3]] = {c.tau[i] : i \in iare[3]}
        /\ iare[c.taued[4]] = {c.tau[i] : i \in iare[4]} /\ iare[c.taued[5]] = {c.tau[i] : i \in iare[5]}
    BY EdgeEnds DEF Consistent
  <2> QED
    BY <2>1 DEF Edge
<1>2. \A e \in Edge : c.taued[e] \in Edge /\ e \in DOMAIN c.taued /\ DOMAIN c.taued = Edge
  BY DEF Consistent
<1>3. \A e \in Edge : At(c.taued, c.taued[e]) \in Edge /\ c.taued[At(c.taued, c.taued[e])] = c.taued[e]
  BY <1>2 DEF At
<1> QED
  BY <1>1, <1>2, <1>3, EdgesOneToOne

(* A vertex of a piece goes back to the ends of its edge, whatever the     *)
(* numbering.                                                              *)
LEMMA PlacedRoots ==
  ASSUME NEW c, Consistent(c), NEW w \in 0..9, NEW x \in Local
  PROVE  c.tau[x] \in Roots(Place(w, c)) <=> From(w, x)
<1>1. \A i, j \in Local : c.tau[i] \in Local /\ (c.tau[i] = c.tau[j] => i = j)
  BY DEF Consistent
<1>2. CASE w \in Local
  <2>1. Roots(Place(w, c)) = {c.tau[w]}
    BY <1>1, <1>2 DEF Roots, Place, Local, m0
  <2>2. From(w, x) <=> x = w
    BY <1>2 DEF From, Local, m0, m1, m2, m3, m4, m5
  <2> QED
    BY <1>1, <1>2, <2>1, <2>2
<1>3. CASE w \notin Local
  <2>1. PICK e \in Edge : w = m0 + e
    <3>1. w - 4 \in 0..5 /\ w = 4 + (w - 4)
      BY <1>3 DEF Local
    <3> QED
      BY <3>1 DEF Edge, m0
  <2>2. Place(w, c) = m0 + c.taued[e] /\ c.taued[e] \in Edge
    <3>1. ~(w < m0) /\ w - m0 = e
      BY <2>1 DEF Edge, m0
    <3> QED
      BY <3>1, EdgesOf DEF Place
  <2>3. Roots(Place(w, c)) = {c.tau[i] : i \in iare[e]}
    <3>1. ~(m0 + c.taued[e] < m0) /\ (m0 + c.taued[e]) - m0 = c.taued[e]
      BY <2>2 DEF Edge, m0
    <3>2. Roots(m0 + c.taued[e]) = iare[c.taued[e]]
      BY <3>1 DEF Roots
    <3> QED
      BY <2>2, <3>2, EdgesOf
  <2>4. iare[e] \subseteq Local
    BY EdgeEnds DEF Edge, Local
  <2>5. From(w, x) <=> x \in iare[e]
    BY <2>1, EdgeEnds DEF From, Edge, Local, m0, m1, m2, m3, m4, m5
  <2> QED
    BY <1>1, <2>3, <2>4, <2>5
<1> QED
  BY <1>2, <1>3

(* The same for the vertices of a piece, each at its place.                *)
LEMMA PlacedFrom ==
  ASSUME NEW c, Consistent(c), NEW u, \A a \in 1..4 : u[a] \in 0..9
  PROVE  \A j, x \in Local : c.tau[x] \in Roots(PlacedVertices(u, c)[c.tau[j]]) <=> From(u[j + 1], x)
<1> TAKE j, x \in Local
<1>1. c.tau[j] \in Local /\ At(c.tau, c.tau[j]) = j
  <2>1. c.tau[j] \in Local /\ \A i \in Local : c.tau[i] = c.tau[j] => i = j
    BY DEF Consistent
  <2>2. At(c.tau, c.tau[j]) \in Local /\ c.tau[At(c.tau, c.tau[j])] = c.tau[j]
    BY <2>1, PlacedWhere
  <2> QED
    BY <2>1, <2>2
<1>2. PlacedVertices(u, c)[c.tau[j]] = Place(u[j + 1], c)
  BY <1>1, PlacedWhere
<1>3. u[j + 1] \in 0..9
  BY DEF Local
<1> QED
  BY <1>2, <1>3, PlacedRoots

(* What a piece of a split is made of.                                     *)
LEMMA PlacedPiece ==
  ASSUME NEW v, NEW F \in SUBSET Edge, F # {}, NEW i \in DOMAIN Split(Bits(F), v)
  PROVE  \E c, q : /\ Consistent(c) /\ Split(Bits(F), v)[i] = Placed(q, c)
                   /\ \A a \in 1..4 : q.v[a] \in 0..9
                   /\ Traced(q) /\ (F # Edge => Tagged(q))
<1> DEFINE f == Bits(F)
           c == Configuration[f]
           ps == Pieces(f, v)
<1>1. Consistent(c) /\ Piecewise(ps, Reference(c, F))
  BY PiecesUse
<1>2. Split(f, v) = [k \in DOMAIN ps |-> Placed(ps[k], c)]
  BY DEF Split
<1>3. AllTraced(ps) /\ (F # Edge => AllTagged(ps))
  BY PiecesFrom
<1> HIDE DEF f, c, ps
<1>4. i \in DOMAIN ps /\ Split(f, v)[i] = Placed(ps[i], c)
  BY <1>2 DEF f
<1>5. \A a \in 1..4 : ps[i].v[a] \in 0..9
  <2>1. Uses(ps[i].v, Reference(c, F)) /\ Reference(c, F) \subseteq Edge
    BY <1>1, <1>4 DEF Piecewise, Reference
  <2> QED
    BY <2>1 DEF Uses, Local, Edge, m0
<1> QED
  BY <1>1, <1>3, <1>4, <1>5 DEF AllTraced, AllTagged, f

(* The vertices of the tetrahedron to which some vertices of a piece go    *)
(* back together.                                                          *)
RootsOf(u, J) == UNION {Roots(u[j]) : j \in J}

(* They are vertices of the tetrahedron.                                   *)
LEMMA RootsLocal ==
  ASSUME NEW w \in Local \union {m0 + e : e \in Edge}
  PROVE  Roots(w) \subseteq Local
<1>1. CASE w \in Local
  BY <1>1 DEF Roots, Local, m0
<1>2. CASE w \in {m0 + e : e \in Edge}
  <2>1. PICK e \in Edge : w = m0 + e
    BY <1>2
  <2>2. ~(w < m0) /\ w - m0 = e
    BY <2>1 DEF Edge, m0
  <2>3. iare[e] \subseteq Local
    BY EdgeEnds DEF Edge, Local
  <2> QED
    BY <2>2, <2>3 DEF Roots
<1> QED
  BY <1>1, <1>2

(* A face of a piece goes back to the face of the same number, or to the   *)
(* whole tetrahedron.                                                      *)
RootedAt(p, f) == RootsOf(p.v, Local \ {f}) = IF f \in p.reset THEN Local ELSE Local \ {f}

(* The cut of a tetrahedron, in terms of the tetrahedron itself: a vertex  *)
(* of a piece goes back to the vertex in whose place it is, a face to the  *)
(* three vertices of the face of the same number unless its tag is reset,  *)
(* and then to all four.                                                   *)
THEOREM SplitFaces ==
  ASSUME NEW v, NEW F \in SUBSET Edge, F # {}
  PROVE  \A i \in DOMAIN Split(Bits(F), v) :
            LET p == Split(Bits(F), v)[i]
            IN /\ \A j \in Local : j \in Roots(p.v[j]) /\ Roots(p.v[j]) \subseteq Local
               /\ \A f \in Local : RootedAt(p, f)
<1> TAKE i \in DOMAIN Split(Bits(F), v)
<1> DEFINE p == Split(Bits(F), v)[i]
<1>1. p.v \in [Local -> Local \union {m0 + e : e \in F}]
  BY SplitUses
<1>2. PICK c, q : /\ Consistent(c) /\ p = Placed(q, c)
                  /\ \A a \in 1..4 : q.v[a] \in 0..9
                  /\ Traced(q)
  BY PlacedPiece
<1> DEFINE u == q.v
           r == q.reset
<1>3. p.v = PlacedVertices(u, c) /\ p.reset = {c.tau[f] : f \in r}
  BY <1>2 DEF Placed
<1> HIDE DEF p, u
<1>4. \A j, x \in Local : c.tau[x] \in Roots(p.v[c.tau[j]]) <=> From(u[j + 1], x)
  BY <1>2, <1>3, PlacedFrom DEF u
<1>5. /\ \A j, x \in Local : c.tau[j] \in Local /\ (c.tau[j] = c.tau[x] => j = x)
      /\ \A y \in Local : \E x \in Local : c.tau[x] = y
  BY <1>2 DEF Consistent
<1>6. /\ From(u[0 + 1], 0) /\ From(u[1 + 1], 1) /\ From(u[2 + 1], 2) /\ From(u[3 + 1], 3)
      /\ r \subseteq Local /\ FacesFrom(u, r)
  BY <1>2 DEF Traced, u
<1>7. \A j \in Local : Roots(p.v[j]) \subseteq Local
  BY <1>1, RootsLocal
<1>8. \A j \in Local : j \in Roots(p.v[j])
  <2> TAKE j \in Local
  <2>1. PICK x \in Local : c.tau[x] = j
    BY <1>5
  <2>2. From(u[x + 1], x)
    BY <1>6 DEF Local
  <2> QED
    BY <1>4, <2>1, <2>2
<1>9. \A g, x \in Local : (\E j \in Local : j # g /\ From(u[j + 1], x)) <=> (x # g \/ g \in r)
  <2> TAKE g, x \in Local
  <2>1. /\ (From(u[1 + 1], x) \/ From(u[2 + 1], x) \/ From(u[3 + 1], x)) <=> (x # 0 \/ 0 \in r)
        /\ (From(u[0 + 1], x) \/ From(u[2 + 1], x) \/ From(u[3 + 1], x)) <=> (x # 1 \/ 1 \in r)
        /\ (From(u[0 + 1], x) \/ From(u[1 + 1], x) \/ From(u[3 + 1], x)) <=> (x # 2 \/ 2 \in r)
        /\ (From(u[0 + 1], x) \/ From(u[1 + 1], x) \/ From(u[2 + 1], x)) <=> (x # 3 \/ 3 \in r)
    BY <1>6 DEF FacesFrom
  <2>2. g = 0 \/ g = 1 \/ g = 2 \/ g = 3
    BY DEF Local
  <2> HIDE DEF r
  <2> QED
    BY <2>1, <2>2 DEF Local
<1>10. ASSUME NEW f \in Local
       PROVE  RootedAt(p, f)
  <2>1. PICK g \in Local : c.tau[g] = f
    BY <1>5
  <2>2. f \in p.reset <=> g \in r
    BY <1>3, <1>5, <1>6, <2>1
  <2>3. \A y \in Local : y \in RootsOf(p.v, Local \ {f}) <=> (y # f \/ f \in p.reset)
    <3> TAKE y \in Local
    <3>1. PICK x \in Local : c.tau[x] = y
      BY <1>5
    <3>2. y \in RootsOf(p.v, Local \ {f}) <=> \E j \in Local : j # f /\ y \in Roots(p.v[j])
      BY DEF RootsOf
    <3>3. (\E j \in Local : j # f /\ y \in Roots(p.v[j])) <=>
          (\E j \in Local : j # g /\ From(u[j + 1], x))
      BY <1>4, <1>5, <2>1, <3>1
    <3>4. x = g <=> y = f
      BY <1>5, <2>1, <3>1
    <3> QED
      BY <1>9, <2>2, <3>2, <3>3, <3>4
  <2>4. RootsOf(p.v, Local \ {f}) \subseteq Local
    BY <1>7 DEF RootsOf
  <2> QED
    BY <2>3, <2>4 DEF RootedAt
<1> QED
  BY <1>7, <1>8, <1>10 DEF p

EdgeLies(p, e) ==
    /\ p.tag[e] \in {K, N} \union Local
    /\ p.tag[e] = K => RootsOf(p.v, iare[e]) = iare[e]
    /\ p.tag[e] = N => RootsOf(p.v, iare[e]) = Local
    /\ p.tag[e] # K /\ p.tag[e] # N => RootsOf(p.v, iare[e]) = Local \ {p.tag[e]}

(* An edge of a piece goes back to the vertices of the edge of the same    *)
(* number when it has its tag (K), to all four vertices when it has none   *)
(* (N), to the three vertices of the face whose tag it takes otherwise.    *)
(* (Of the pieces of split6 this is not true.)                             *)
THEOREM SplitEdges ==
  ASSUME NEW v, NEW F \in SUBSET Edge, F # {}, F # Edge
  PROVE  \A i \in DOMAIN Split(Bits(F), v), e \in Edge : EdgeLies(Split(Bits(F), v)[i], e)
<1> SUFFICES ASSUME NEW i \in DOMAIN Split(Bits(F), v)
             PROVE  \A e \in Edge : EdgeLies(Split(Bits(F), v)[i], e)
  OBVIOUS
<1> DEFINE p == Split(Bits(F), v)[i]
<1>1. p.v \in [Local -> Local \union {m0 + e : e \in F}]
  BY SplitUses
<1>2. PICK c, q : /\ Consistent(c) /\ p = Placed(q, c)
                  /\ \A a \in 1..4 : q.v[a] \in 0..9
                  /\ Tagged(q)
  BY PlacedPiece
<1> DEFINE u == q.v
           t == q.tag
           given(x) == IF x < F0 THEN x ELSE c.tau[x]
<1>3. /\ p.v = PlacedVertices(u, c)
      /\ \A e \in Edge : p.tag[e] = given(t[At(c.taued, e) + 1])
  BY <1>2 DEF Placed
<1> HIDE DEF p, u
<1>4. \A j, x \in Local : c.tau[x] \in Roots(p.v[c.tau[j]]) <=> From(u[j + 1], x)
  BY <1>2, <1>3, PlacedFrom DEF u
<1>5. /\ \A j, x \in Local : c.tau[j] \in Local /\ (c.tau[j] = c.tau[x] => j = x)
      /\ \A y \in Local : \E x \in Local : c.tau[x] = y
      /\ \A y \in Edge : \E x \in Edge : c.taued[x] = y
  BY <1>2 DEF Consistent
<1>6. EdgesFrom(u, t) /\ \A e \in Edge : t[e + 1] \in {K, N} \union Local
  BY <1>2 DEF Tagged, u, Local, F0, F1, F2, F3
<1>7. \A j \in Local : Roots(p.v[j]) \subseteq Local
  BY <1>1, RootsLocal
<1> HIDE DEF t, given
<1>8. \A e \in Edge, x \in Local : (\E j \in iare[e] : From(u[j + 1], x)) <=>
                                   (IF t[e + 1] = K THEN x \in iare[e] ELSE x # t[e + 1])
  <2> TAKE e \in Edge, x \in Local
  <2>1. /\ (From(u[0 + 1], x) \/ From(u[1 + 1], x)) <=> Lies(t[0 + 1], 0, 1, x)
        /\ (From(u[0 + 1], x) \/ From(u[2 + 1], x)) <=> Lies(t[1 + 1], 0, 2, x)
        /\ (From(u[0 + 1], x) \/ From(u[3 + 1], x)) <=> Lies(t[2 + 1], 0, 3, x)
        /\ (From(u[1 + 1], x) \/ From(u[2 + 1], x)) <=> Lies(t[3 + 1], 1, 2, x)
        /\ (From(u[1 + 1], x) \/ From(u[3 + 1], x)) <=> Lies(t[4 + 1], 1, 3, x)
        /\ (From(u[2 + 1], x) \/ From(u[3 + 1], x)) <=> Lies(t[5 + 1], 2, 3, x)
    BY <1>6 DEF EdgesFrom
  <2>2. e = 0 \/ e = 1 \/ e = 2 \/ e = 3 \/ e = 4 \/ e = 5
    BY DEF Edge
  <2> QED
    BY <2>1, <2>2, EdgeEnds DEF Lies
<1>9. ASSUME NEW e \in Edge
      PROVE  /\ p.tag[e] \in {K, N} \union Local
             /\ p.tag[e] = K => RootsOf(p.v, iare[e]) = iare[e]
             /\ p.tag[e] = N => RootsOf(p.v, iare[e]) = Local
             /\ p.tag[e] # K /\ p.tag[e] # N => RootsOf(p.v, iare[e]) = Local \ {p.tag[e]}
  <2>1. PICK d \in Edge : c.taued[d] = e
    BY <1>5
  <2>2. At(c.taued, e) = d /\ iare[e] = {c.tau[j] : j \in iare[d]}
    BY <1>2, <2>1, EdgesOf
  <2>3. iare[d] \subseteq Local
    BY EdgeEnds DEF Edge, Local
  <2>4. p.tag[e] = given(t[d + 1]) /\ t[d + 1] \in {K, N} \union Local
    BY <1>3, <1>6, <2>2
  <2>5. \A y \in Local : \A x \in Local : c.tau[x] = y =>
            (y \in RootsOf(p.v, iare[e]) <=>
                IF t[d + 1] = K THEN x \in iare[d] ELSE x # t[d + 1])
    <3> TAKE y \in Local
    <3> TAKE x \in Local
    <3> HAVE c.tau[x] = y
    <3>1. y \in RootsOf(p.v, iare[e]) <=> \E j \in iare[d] : y \in Roots(p.v[c.tau[j]])
      BY <2>2 DEF RootsOf
    <3>2. (\E j \in iare[d] : y \in Roots(p.v[c.tau[j]])) <=> (\E j \in iare[d] : From(u[j + 1], x))
      BY <1>4, <2>3
    <3> QED
      BY <1>8, <3>1, <3>2
  <2>6. RootsOf(p.v, iare[e]) \subseteq Local
    <3>1. iare[e] \subseteq Local
      BY EdgeEnds DEF Edge, Local
    <3> QED
      BY <1>7, <3>1 DEF RootsOf
  <2>7. CASE t[d + 1] = K
    <3>1. p.tag[e] = K
      BY <2>4, <2>7 DEF given, K, F0
    <3>2. \A y \in Local : y \in RootsOf(p.v, iare[e]) <=> y \in iare[e]
      <4> TAKE y \in Local
      <4>1. PICK x \in Local : c.tau[x] = y
        BY <1>5
      <4>2. y \in RootsOf(p.v, iare[e]) <=> x \in iare[d]
        BY <2>5, <2>7, <4>1
      <4>3. y \in iare[e] <=> x \in iare[d]
        BY <1>5, <2>2, <2>3, <4>1
      <4> QED
        BY <4>2, <4>3
    <3>3. iare[e] \subseteq Local
      BY EdgeEnds DEF Edge, Local
    <3> QED
      BY <2>6, <3>1, <3>2, <3>3 DEF K, N
  <2>8. CASE t[d + 1] = N
    <3>1. p.tag[e] = N /\ N # K /\ \A x \in Local : x # N
      BY <2>4, <2>8 DEF given, K, N, F0, Local
    <3>2. \A y \in Local : y \in RootsOf(p.v, iare[e])
      <4> TAKE y \in Local
      <4>1. PICK x \in Local : c.tau[x] = y
        BY <1>5
      <4>2. y \in RootsOf(p.v, iare[e]) <=> x # t[d + 1]
        BY <2>5, <2>8, <3>1, <4>1
      <4> QED
        BY <2>8, <3>1, <4>2
    <3> QED
      BY <2>6, <3>1, <3>2
  <2>9. CASE t[d + 1] \in Local
    <3>1. p.tag[e] = c.tau[t[d + 1]] /\ p.tag[e] \in Local /\ t[d + 1] # K
      BY <1>5, <2>4, <2>9 DEF given, K, F0, Local
    <3>2. \A y \in Local : y # K /\ y # N
      BY DEF K, N, Local
    <3>3. \A y \in Local : y \in RootsOf(p.v, iare[e]) <=> y # p.tag[e]
      <4> TAKE y \in Local
      <4>1. PICK x \in Local : c.tau[x] = y
        BY <1>5
      <4>2. y \in RootsOf(p.v, iare[e]) <=> x # t[d + 1]
        BY <2>5, <3>1, <4>1
      <4>3. x = t[d + 1] <=> y = p.tag[e]
        BY <1>5, <2>9, <3>1, <4>1
      <4> QED
        BY <4>2, <4>3
    <3> QED
      BY <2>6, <3>1, <3>2, <3>3
  <2> QED
    BY <2>4, <2>7, <2>8, <2>9
<1>10. \A e \in Edge : EdgeLies(p, e)
  BY <1>9 DEF EdgeLies
<1> QED
  BY <1>10 DEF p

(* split6, where a tag tells less: an edge with another tag than its own   *)
(* goes back to three vertices at least.                                   *)
SomeThree(s) == \E a, b, c \in s : a # b /\ a # c /\ b # c

Told6(t, w, z, i, j) ==
    IF t = K THEN \A x \in Local : (From(w, x) \/ From(z, x)) <=> x \in {i, j}
    ELSE \E a, b, c \in Local : /\ a # b /\ a # c /\ b # c
                                /\ \A x \in {a, b, c} : From(w, x) \/ From(z, x)

Tagged6(p) ==
    /\ \A e \in Edge : p.tag[e + 1] \in {K, N, F0, F1, F2, F3}
    /\ Told6(p.tag[1], p.v[1], p.v[2], 0, 1) /\ Told6(p.tag[2], p.v[1], p.v[3], 0, 2)
    /\ Told6(p.tag[3], p.v[1], p.v[4], 0, 3) /\ Told6(p.tag[4], p.v[2], p.v[3], 1, 2)
    /\ Told6(p.tag[5], p.v[2], p.v[4], 1, 3) /\ Told6(p.tag[6], p.v[3], p.v[4], 2, 3)

LEMMA split6_tags ==
  \A i \in DOMAIN split6 : Tagged6(split6[i])
<1> USE DEF Tagged6, From, P, Local, m0, m1, m2, m3, m4, m5,
          K, N, F0, F1, F2, F3, Edge
<1>1. LET p == P(<<0, m0, m1, m2>>, <<K, K, K, F3, F2, F1>>, {0})
     IN Tagged6(p)
  BY DEF Told6
<1>2. LET p == P(<<m0, 1, m3, m4>>, <<K, F3, F2, K, K, F0>>, {1})
     IN Tagged6(p)
  BY DEF Told6
<1>3. LET p == P(<<m1, m3, 2, m5>>, <<F3, K, F1, K, F0, K>>, {2})
     IN Tagged6(p)
  BY DEF Told6
<1>4. LET p == P(<<m2, m4, m5, 3>>, <<F2, F1, K, F0, K, K>>, {3})
     IN Tagged6(p)
  BY DEF Told6
<1>5. LET p == P(<<m0, m3, m1, m2>>, <<F3, F3, F2, F3, N, F1>>, {0, 1, 2})
     IN Tagged6(p)
  BY DEF Told6
<1>6. LET p == P(<<m2, m0, m3, m4>>, <<F2, N, F2, F3, F2, F0>>, {0, 1, 3})
     IN Tagged6(p)
  BY DEF Told6
<1>7. LET p == P(<<m2, m3, m1, m5>>, <<N, F1, F1, F3, F0, F3>>, {0, 2, 3})
     IN Tagged6(p)
  BY DEF Told6
<1>8. LET p == P(<<m2, m3, m5, m4>>, <<N, F1, F2, F0, F0, F0>>, {1, 2, 3})
     IN Tagged6(p)
  BY DEF Told6
<1> HIDE DEF Tagged6, From, P, Local, m0, m1, m2, m3, m4, m5,
          K, N, F0, F1, F2, F3, Edge
<1> QED
  BY <1>1, <1>2, <1>3, <1>4, <1>5, <1>6, <1>7, <1>8 DEF split6

(* What the tag of an edge of a piece tells, whatever the flag: an edge    *)
(* that keeps its tag lies in the same edge of the tetrahedron, any other  *)
(* one has three vertices or more behind it.                               *)
TagTells(p, e) ==
    /\ p.tag[e] \in {K, N} \union Local
    /\ IF p.tag[e] = K THEN RootsOf(p.v, iare[e]) = iare[e] ELSE SomeThree(RootsOf(p.v, iare[e]))

(* The pieces of split6 again, in the numbering of the tetrahedron.        *)
LEMMA Placed6 ==
  ASSUME NEW F, F = Edge, NEW v, NEW i \in DOMAIN Split(Bits(F), v), NEW p, p = Split(Bits(F), v)[i],
         NEW e \in Edge
  PROVE  TagTells(p, e)
<1>1. Bits(F) = 63
  BY DEF Bits, Edge
<1> DEFINE f == Bits(F)
           c == Configuration[f]
           ps == Pieces(f, v)
<1>2. F \in SUBSET Edge /\ F # {}
  BY DEF Edge
<1>3. Consistent(c)
  BY <1>2, PiecesUse
<1>4. Split(f, v) = [k \in DOMAIN ps |-> Placed(ps[k], c)]
  BY DEF Split
<1>5. ps = split6
  BY <1>1, FamilyOf, Domains DEF OfFamily
<1> HIDE DEF f, c, ps
<1>6. i \in DOMAIN ps /\ p = Placed(ps[i], c)
  BY <1>4 DEF f
<1>7. PICK q : q = ps[i] /\ Tagged6(q)
  BY <1>5, <1>6, split6_tags
<1>8. \A a \in 1..4 : q.v[a] \in 0..9
  <2>1. Uses(q.v, {0, 1, 2, 3, 4, 5})
    BY <1>5, <1>6, <1>7, split6_uses DEF Piecewise
  <2> QED
    BY <2>1 DEF Uses, Local, m0
<1> DEFINE u == q.v
           t == q.tag
           given(x) == IF x < F0 THEN x ELSE c.tau[x]
<1>9. /\ p.v = PlacedVertices(u, c)
      /\ \A d \in Edge : p.tag[d] = given(t[At(c.taued, d) + 1])
  BY <1>6, <1>7 DEF Placed
<1> HIDE DEF u
<1>10. \A j, x \in Local : c.tau[x] \in Roots(p.v[c.tau[j]]) <=> From(u[j + 1], x)
  BY <1>3, <1>8, <1>9, PlacedFrom DEF u
<1>11. /\ \A j, x \in Local : c.tau[j] \in Local /\ (c.tau[j] = c.tau[x] => j = x)
       /\ \A y \in Local : \E x \in Local : c.tau[x] = y
       /\ \A y \in Edge : \E x \in Edge : c.taued[x] = y
  BY <1>3 DEF Consistent
<1>12. \A d \in Edge : t[d + 1] \in {K, N} \union Local
  BY <1>7 DEF Tagged6, Local, F0, F1, F2, F3
<1>13. p.v \in [Local -> Local \union {m0 + x : x \in F}]
  BY <1>2, SplitUses
<1>14. \A j \in Local : Roots(p.v[j]) \subseteq Local
  <2>1. \A j \in Local : p.v[j] \in Local \union {m0 + x : x \in Edge}
    BY <1>2, <1>13
  <2> QED
    BY <2>1, RootsLocal
<1> DEFINE Goes(d, x) == \E j \in iare[d] : From(u[j + 1], x)
<1>15. ASSUME NEW d \in Edge
       PROVE  IF t[d + 1] = K THEN \A x \in Local : Goes(d, x) <=> x \in iare[d]
              ELSE \E x, y, z \in Local : x # y /\ x # z /\ y # z /\ Goes(d, x) /\ Goes(d, y) /\ Goes(d, z)
  <2>1. /\ Told6(t[0 + 1], u[0 + 1], u[1 + 1], 0, 1) /\ Told6(t[1 + 1], u[0 + 1], u[2 + 1], 0, 2)
        /\ Told6(t[2 + 1], u[0 + 1], u[3 + 1], 0, 3) /\ Told6(t[3 + 1], u[1 + 1], u[2 + 1], 1, 2)
        /\ Told6(t[4 + 1], u[1 + 1], u[3 + 1], 1, 3) /\ Told6(t[5 + 1], u[2 + 1], u[3 + 1], 2, 3)
    BY <1>7 DEF Tagged6, u
  <2>2. PICK i1, i2 : iare[d] = {i1, i2} /\ Told6(t[d + 1], u[i1 + 1], u[i2 + 1], i1, i2)
    <3>1. d = 0 \/ d = 1 \/ d = 2 \/ d = 3 \/ d = 4 \/ d = 5
      BY DEF Edge
    <3> HIDE DEF t
    <3> QED
      BY <2>1, <3>1, EdgeEnds
  <2>3. \A x : Goes(d, x) <=> From(u[i1 + 1], x) \/ From(u[i2 + 1], x)
    BY <2>2
  <2> HIDE DEF Goes, t
  <2> QED
    BY <2>2, <2>3 DEF Told6
<1>16. PICK d \in Edge : c.taued[d] = e
  BY <1>11
<1>17. At(c.taued, e) = d /\ iare[e] = {c.tau[j] : j \in iare[d]}
  BY <1>3, <1>16, EdgesOf
<1>18. iare[d] \subseteq Local /\ iare[e] \subseteq Local
  BY EdgeEnds DEF Edge, Local
<1>19. p.tag[e] = given(t[d + 1]) /\ t[d + 1] \in {K, N} \union Local
  BY <1>9, <1>12, <1>17
<1>20. \A x \in Local : c.tau[x] \in RootsOf(p.v, iare[e]) <=> Goes(d, x)
  <2> TAKE x \in Local
  <2>1. c.tau[x] \in RootsOf(p.v, iare[e]) <=> \E j \in iare[d] : c.tau[x] \in Roots(p.v[c.tau[j]])
    BY <1>17 DEF RootsOf
  <2> QED
    BY <1>10, <1>18, <2>1
<1>21. RootsOf(p.v, iare[e]) \subseteq Local
  BY <1>14, <1>18 DEF RootsOf
<1> HIDE DEF t, Goes
<1>22. CASE t[d + 1] = K
  <2>1. p.tag[e] = K
    BY <1>19, <1>22 DEF K, F0
  <2>2. \A y \in Local : y \in RootsOf(p.v, iare[e]) <=> y \in iare[e]
    <3> TAKE y \in Local
    <3>1. PICK x \in Local : c.tau[x] = y
      BY <1>11
    <3>2. y \in RootsOf(p.v, iare[e]) <=> x \in iare[d]
      BY <1>15, <1>20, <1>22, <3>1
    <3>3. y \in iare[e] <=> x \in iare[d]
      BY <1>11, <1>17, <1>18, <3>1
    <3> QED
      BY <3>2, <3>3
  <2>3. RootsOf(p.v, iare[e]) = iare[e]
    BY <1>18, <1>21, <2>2
  <2> QED
    BY <2>1, <2>3 DEF TagTells
<1>23. CASE t[d + 1] # K
  <2>1. p.tag[e] \in {N} \union Local /\ p.tag[e] # K
    <3>1. t[d + 1] = N => p.tag[e] = N
      BY <1>19 DEF N, F0
    <3>2. t[d + 1] \in Local => p.tag[e] = c.tau[t[d + 1]]
      BY <1>19 DEF F0, Local
    <3>3. \A x \in Local : x # K
      BY DEF Local, K
    <3>4. N # K
      BY DEF K, N
    <3> QED
      BY <1>11, <1>19, <1>23, <3>1, <3>2, <3>3, <3>4
  <2>2. PICK x, y, z \in Local : x # y /\ x # z /\ y # z /\ Goes(d, x) /\ Goes(d, y) /\ Goes(d, z)
    BY <1>15, <1>23
  <2>3. SomeThree(RootsOf(p.v, iare[e]))
    <3>1. /\ c.tau[x] \in RootsOf(p.v, iare[e]) /\ c.tau[y] \in RootsOf(p.v, iare[e])
          /\ c.tau[z] \in RootsOf(p.v, iare[e])
      BY <1>20, <2>2
    <3>2. c.tau[x] # c.tau[y] /\ c.tau[x] # c.tau[z] /\ c.tau[y] # c.tau[z]
      BY <1>11, <2>2
    <3> QED
      BY <3>1, <3>2 DEF SomeThree
  <2> QED
    BY <2>1, <2>3 DEF TagTells
<1> QED
  BY <1>22, <1>23

(* The tags of the edges, whatever the flag.                               *)
THEOREM SplitTags ==
  ASSUME NEW v, NEW F \in SUBSET Edge, F # {}, NEW i \in DOMAIN Split(Bits(F), v),
         NEW p, p = Split(Bits(F), v)[i], NEW e \in Edge
  PROVE  TagTells(p, e)
<1>1. CASE F = Edge
  BY <1>1, Placed6
<1>2. CASE F # Edge
  <2>1. /\ p.tag[e] \in {K, N} \union Local
        /\ p.tag[e] = K => RootsOf(p.v, iare[e]) = iare[e]
        /\ p.tag[e] = N => RootsOf(p.v, iare[e]) = Local
        /\ p.tag[e] # K /\ p.tag[e] # N => RootsOf(p.v, iare[e]) = Local \ {p.tag[e]}
    <3>1. EdgeLies(p, e)
      BY <1>2, SplitEdges
    <3> QED
      BY <3>1 DEF EdgeLies
  <2>2. SomeThree(Local) /\ \A f \in Local : SomeThree(Local \ {f})
    <3>1. /\ 0 \in Local /\ 1 \in Local /\ 2 \in Local /\ 3 \in Local
          /\ \A f \in Local : f = 0 \/ f = 1 \/ f = 2 \/ f = 3
      BY DEF Local
    <3>2. SomeThree(Local)
      BY <3>1 DEF SomeThree
    <3>3. ASSUME NEW f \in Local PROVE SomeThree(Local \ {f})
      <4>1. PICK a, b, c \in Local : a # b /\ a # c /\ b # c /\ a # f /\ b # f /\ c # f
        BY <3>1
      <4> QED
        BY <4>1 DEF SomeThree
    <3> QED
      BY <3>2, <3>3
  <2>3. K # N /\ K \notin Local /\ N \notin Local
    BY DEF K, N, Local
  <2>4. CASE p.tag[e] = K
    BY <2>1, <2>3, <2>4 DEF TagTells
  <2>5. CASE p.tag[e] = N
    BY <2>1, <2>2, <2>3, <2>5 DEF TagTells
  <2>6. CASE p.tag[e] # K /\ p.tag[e] # N
    BY <2>1, <2>2, <2>3, <2>6 DEF TagTells
  <2> QED
    BY <2>4, <2>5, <2>6
<1> QED
  BY <1>1, <1>2

-------------------------------------------------------------------------------
(***************************************************************************)
(* The pieces of a cut tetrahedron fit together: the patterns of           *)
(* split_3d.c cut without leaving a gap.                                   *)
(*                                                                         *)
(* FaceCut says how a triangle with points on some of its edges is cut: it *)
(* is left alone, cut in two, in three (the diagonal starts at the end of  *)
(* the uncut edge with the smaller global number) or in four.  It is told  *)
(* by the triangle alone, so two neighbours read the same cut from it.     *)
(* For each list of pieces of the source, in the numbering of its          *)
(* reference flag, a lemma <list>_fits shows that the pieces meet inside   *)
(* two by two and that those on a face of the tetrahedron are the cut of   *)
(* that face.  Renaming the vertices by the tau of a flag keeps all this,  *)
(* which gives theorem SplitFits for the 63 flags and all numbers.         *)
(***************************************************************************)
(* The cut of a face of corners a, b, c, of which some edges carry a point: *)
(* t is one of its triangles.  marks gives the points of the edges that    *)
(* have one, num the numbers that decide on the diagonal.                  *)
CutFrom(a, b, c, marks, num, t) ==
    LET on(x, y) == {x, y} \in DOMAIN marks
        at(x, y) == marks[{x, y}]
    IN \/ /\ ~on(a, b) /\ ~on(a, c) /\ ~on(b, c)
          /\ t = {a, b, c}
       \/ /\ on(a, b) /\ ~on(a, c) /\ ~on(b, c)
          /\ t = {a, at(a, b), c}
       \/ /\ on(a, b) /\ on(a, c) /\ ~on(b, c)
          /\ \/ t = {a, at(a, b), at(a, c)}
             \/ num[b] < num[c] /\ t \in {{b, at(a, b), at(a, c)}, {b, c, at(a, c)}}
       \/ /\ on(a, b) /\ on(a, c) /\ on(b, c)
          /\ t \in {{a, at(a, b), at(a, c)}, {at(a, b), at(a, c), at(b, c)}}

(* The same whatever order its corners are taken in.                       *)
FaceCut(T, marks, num, t) ==
    \E a, b, c \in T : /\ T = {a, b, c} /\ a # b /\ a # c /\ b # c
                       /\ CutFrom(a, b, c, marks, num, t)

(* A mark on an edge or none, and the cut of a face as a set.              *)
Marked(a, b, marks, x) == {a, b} \in DOMAIN marks /\ marks[{a, b}] = x
Unmarked(a, b, marks)  == {a, b} \notin DOMAIN marks
IsCut(a, b, c, marks, num, C) == \A t : FaceCut({a, b, c}, marks, num, t) <=> t \in C

(* The cut of a face with one, two and three points.                       *)
OneCut(a, b, c, x) == {{a, x, c}, {b, x, c}}
TwoCut(a, b, c, x, y, num) ==
    {{a, x, y}} \union (IF num[b] < num[c] THEN {{b, x, y}, {b, c, y}} ELSE {{c, x, y}, {c, b, x}})
ThreeCut(a, b, c, x, y, z) == {{a, x, y}, {b, x, z}, {c, y, z}, {x, y, z}}

(* An edge has its mark from both of its ends.                             *)
LEMMA MarkedBoth ==
  ASSUME NEW a, NEW b, NEW marks
  PROVE  /\ \A x : Marked(a, b, marks, x) => Marked(b, a, marks, x)
         /\ Unmarked(a, b, marks) => Unmarked(b, a, marks)
<1>1. {a, b} = {b, a}
  OBVIOUS
<1> QED
  BY <1>1 DEF Marked, Unmarked

(* The cut of a face is the same in every order of its corners.            *)
LEMMA AnyOrder ==
  ASSUME NEW a, NEW b, NEW c, NEW marks, NEW num, NEW C, IsCut(a, b, c, marks, num, C)
  PROVE  /\ IsCut(a, c, b, marks, num, C) /\ IsCut(b, a, c, marks, num, C)
         /\ IsCut(b, c, a, marks, num, C) /\ IsCut(c, a, b, marks, num, C)
<1>1. /\ {a, b, c} = {a, c, b} /\ {a, b, c} = {b, a, c}
      /\ {a, b, c} = {b, c, a} /\ {a, b, c} = {c, a, b}
  OBVIOUS
<1> QED
  BY <1>1 DEF IsCut

(* The cut of a face whose corners are taken in one of the six orders.     *)
LEMMA Orders ==
  ASSUME NEW a, NEW b, NEW c, a # b, a # c, b # c, NEW marks, NEW num, NEW t
  PROVE  FaceCut({a, b, c}, marks, num, t) <=>
            \/ CutFrom(a, b, c, marks, num, t) \/ CutFrom(a, c, b, marks, num, t)
            \/ CutFrom(b, a, c, marks, num, t) \/ CutFrom(b, c, a, marks, num, t)
            \/ CutFrom(c, a, b, marks, num, t) \/ CutFrom(c, b, a, marks, num, t)
<1> DEFINE T == {a, b, c}
<1>1. \A x, y, z \in T : x # y /\ x # z /\ y # z =>
         \/ (x = a /\ y = b /\ z = c) \/ (x = a /\ y = c /\ z = b)
         \/ (x = b /\ y = a /\ z = c) \/ (x = b /\ y = c /\ z = a)
         \/ (x = c /\ y = a /\ z = b) \/ (x = c /\ y = b /\ z = a)
  <2>1. \A w \in T : w = a \/ w = b \/ w = c
    OBVIOUS
  <2> HIDE DEF T
  <2> QED
    BY <2>1
<1>2. /\ T = {a, b, c} /\ T = {a, c, b} /\ T = {b, a, c} /\ T = {b, c, a}
      /\ T = {c, a, b} /\ T = {c, b, a} /\ a \in T /\ b \in T /\ c \in T
  OBVIOUS
<1>3. FaceCut(T, marks, num, t) <=>
         \E x, y, z \in T : /\ T = {x, y, z} /\ x # y /\ x # z /\ y # z
                           /\ CutFrom(x, y, z, marks, num, t)
  BY DEF FaceCut
<1> HIDE DEF T
<1>4. ASSUME FaceCut(T, marks, num, t)
      PROVE  \/ CutFrom(a, b, c, marks, num, t) \/ CutFrom(a, c, b, marks, num, t)
             \/ CutFrom(b, a, c, marks, num, t) \/ CutFrom(b, c, a, marks, num, t)
             \/ CutFrom(c, a, b, marks, num, t) \/ CutFrom(c, b, a, marks, num, t)
  <2>1. PICK x, y, z \in T : /\ x # y /\ x # z /\ y # z
                            /\ CutFrom(x, y, z, marks, num, t)
    BY <1>3, <1>4
  <2> QED
    BY <1>1, <2>1
<1>5. ASSUME NEW x \in T, NEW y \in T, NEW z \in T, T = {x, y, z}, x # y, x # z, y # z,
             CutFrom(x, y, z, marks, num, t)
      PROVE  FaceCut(T, marks, num, t)
  BY <1>3, <1>5
<1> QED
  BY <1>2, <1>4, <1>5 DEF T

(* A face without a point.                                                 *)
LEMMA NoMark ==
  ASSUME NEW a, NEW b, NEW c, a # b, a # c, b # c, NEW marks, NEW num,
         Unmarked(a, b, marks), Unmarked(a, c, marks), Unmarked(b, c, marks)
  PROVE  IsCut(a, b, c, marks, num, {{a, b, c}})
<1> USE DEF Unmarked
<1>1. {b, a} = {a, b} /\ {c, a} = {a, c} /\ {c, b} = {b, c}
  OBVIOUS
<1>2. /\ {a, c, b} = {a, b, c} /\ {b, a, c} = {a, b, c} /\ {b, c, a} = {a, b, c}
      /\ {c, a, b} = {a, b, c} /\ {c, b, a} = {a, b, c}
  OBVIOUS
<1>3. ASSUME NEW x, NEW y, NEW z, NEW t, {x, y} \notin DOMAIN marks, {x, z} \notin DOMAIN marks,
             {y, z} \notin DOMAIN marks
      PROVE  CutFrom(x, y, z, marks, num, t) <=> t = {x, y, z}
  BY <1>3 DEF CutFrom
<1>4. \A t : FaceCut({a, b, c}, marks, num, t) <=>
             \/ CutFrom(a, b, c, marks, num, t) \/ CutFrom(a, c, b, marks, num, t)
             \/ CutFrom(b, a, c, marks, num, t) \/ CutFrom(b, c, a, marks, num, t)
             \/ CutFrom(c, a, b, marks, num, t) \/ CutFrom(c, b, a, marks, num, t)
  BY Orders
<1>5. \A t : /\ CutFrom(a, b, c, marks, num, t) <=> t = {a, b, c}
             /\ CutFrom(a, c, b, marks, num, t) <=> t = {a, b, c}
             /\ CutFrom(b, a, c, marks, num, t) <=> t = {a, b, c}
             /\ CutFrom(b, c, a, marks, num, t) <=> t = {a, b, c}
             /\ CutFrom(c, a, b, marks, num, t) <=> t = {a, b, c}
             /\ CutFrom(c, b, a, marks, num, t) <=> t = {a, b, c}
  BY <1>1, <1>2, <1>3
<1> QED
  BY <1>4, <1>5 DEF IsCut

(* A face with one point.                                                  *)
LEMMA OneMark ==
  ASSUME NEW a, NEW b, NEW c, a # b, a # c, b # c, NEW marks, NEW num,
         NEW x, Marked(a, b, marks, x), Unmarked(a, c, marks), Unmarked(b, c, marks)
  PROVE  IsCut(a, b, c, marks, num, OneCut(a, b, c, x))
<1> USE DEF Marked, Unmarked
<1>1. {b, a} = {a, b} /\ {c, a} = {a, c} /\ {c, b} = {b, c}
  OBVIOUS
<1>2. ASSUME NEW p, NEW q, NEW r, NEW t, {p, r} \notin DOMAIN marks, {q, r} \notin DOMAIN marks,
             {p, q} \in DOMAIN marks
      PROVE  /\ CutFrom(p, q, r, marks, num, t) <=> t = {p, marks[{p, q}], r}
             /\ ~CutFrom(p, r, q, marks, num, t) /\ ~CutFrom(r, p, q, marks, num, t)
  <2>1. {r, p} = {p, r} /\ {r, q} = {q, r}
    OBVIOUS
  <2> QED
    BY <1>2, <2>1 DEF CutFrom
<1>3. \A t : FaceCut({a, b, c}, marks, num, t) <=>
             \/ CutFrom(a, b, c, marks, num, t) \/ CutFrom(a, c, b, marks, num, t)
             \/ CutFrom(b, a, c, marks, num, t) \/ CutFrom(b, c, a, marks, num, t)
             \/ CutFrom(c, a, b, marks, num, t) \/ CutFrom(c, b, a, marks, num, t)
  BY Orders
<1>4. \A t : /\ CutFrom(a, b, c, marks, num, t) <=> t = {a, marks[{a, b}], c}
             /\ ~CutFrom(a, c, b, marks, num, t) /\ ~CutFrom(c, a, b, marks, num, t)
  BY <1>2
<1>5. \A t : /\ CutFrom(b, a, c, marks, num, t) <=> t = {b, marks[{a, b}], c}
             /\ ~CutFrom(b, c, a, marks, num, t) /\ ~CutFrom(c, b, a, marks, num, t)
  <2>1. \A t : /\ CutFrom(b, a, c, marks, num, t) <=> t = {b, marks[{b, a}], c}
               /\ ~CutFrom(b, c, a, marks, num, t) /\ ~CutFrom(c, b, a, marks, num, t)
    BY <1>1, <1>2
  <2> QED
    BY <1>1, <2>1
<1> QED
  BY <1>3, <1>4, <1>5 DEF IsCut, OneCut

(* A face with two points.                                                 *)
LEMMA TwoMarks ==
  ASSUME NEW a, NEW b, NEW c, a # b, a # c, b # c, NEW marks, NEW num,
         NEW x, NEW y, Marked(a, b, marks, x), Marked(a, c, marks, y), Unmarked(b, c, marks),
         num[b] < num[c], ~(num[c] < num[b])
  PROVE  IsCut(a, b, c, marks, num, TwoCut(a, b, c, x, y, num))
<1> USE DEF Marked, Unmarked
<1>1. {b, a} = {a, b} /\ {c, a} = {a, c} /\ {c, b} = {b, c}
  OBVIOUS
<1>2. ASSUME NEW t PROVE /\ ~CutFrom(b, a, c, marks, num, t) /\ ~CutFrom(b, c, a, marks, num, t)
                         /\ ~CutFrom(c, a, b, marks, num, t) /\ ~CutFrom(c, b, a, marks, num, t)
  BY <1>1 DEF CutFrom
<1>3. ASSUME NEW t
      PROVE  CutFrom(a, b, c, marks, num, t) <=>
                \/ t = {a, marks[{a, b}], marks[{a, c}]} \/ t = {b, marks[{a, b}], marks[{a, c}]}
                \/ t = {b, c, marks[{a, c}]}
  BY <1>1 DEF CutFrom
<1>4. ASSUME NEW t
      PROVE  CutFrom(a, c, b, marks, num, t) <=> t = {a, marks[{a, b}], marks[{a, c}]}
  <2>1. {a, marks[{a, b}], marks[{a, c}]} = {a, marks[{a, c}], marks[{a, b}]}
    OBVIOUS
  <2> QED
    BY <1>1, <2>1 DEF CutFrom
<1>5. \A t : FaceCut({a, b, c}, marks, num, t) <=>
             \/ CutFrom(a, b, c, marks, num, t) \/ CutFrom(a, c, b, marks, num, t)
             \/ CutFrom(b, a, c, marks, num, t) \/ CutFrom(b, c, a, marks, num, t)
             \/ CutFrom(c, a, b, marks, num, t) \/ CutFrom(c, b, a, marks, num, t)
  BY Orders
<1> QED
  BY <1>2, <1>3, <1>4, <1>5 DEF IsCut, TwoCut

(* A face with three points.                                               *)
LEMMA ThreeMarks ==
  ASSUME NEW a, NEW b, NEW c, a # b, a # c, b # c, NEW marks, NEW num,
         NEW x, NEW y, NEW z,
         Marked(a, b, marks, x), Marked(a, c, marks, y), Marked(b, c, marks, z)
  PROVE  IsCut(a, b, c, marks, num, ThreeCut(a, b, c, x, y, z))
<1> USE DEF Marked
<1>1. /\ marks[{a, b}] = x /\ marks[{b, a}] = x /\ marks[{a, c}] = y /\ marks[{c, a}] = y
      /\ marks[{b, c}] = z /\ marks[{c, b}] = z
      /\ {b, a} \in DOMAIN marks /\ {c, a} \in DOMAIN marks /\ {c, b} \in DOMAIN marks
  <2>1. {b, a} = {a, b} /\ {c, a} = {a, c} /\ {c, b} = {b, c}
    OBVIOUS
  <2> QED
    BY <2>1
<1>2. /\ {a, y, x} = {a, x, y} /\ {b, z, x} = {b, x, z} /\ {c, z, y} = {c, y, z}
      /\ {x, z, y} = {x, y, z} /\ {y, x, z} = {x, y, z} /\ {y, z, x} = {x, y, z}
      /\ {z, x, y} = {x, y, z} /\ {z, y, x} = {x, y, z}
  OBVIOUS
<1>3. ASSUME NEW t
      PROVE  /\ CutFrom(a, b, c, marks, num, t) <=> t = {a, x, y} \/ t = {x, y, z}
             /\ CutFrom(a, c, b, marks, num, t) <=> t = {a, x, y} \/ t = {x, y, z}
             /\ CutFrom(b, a, c, marks, num, t) <=> t = {b, x, z} \/ t = {x, y, z}
             /\ CutFrom(b, c, a, marks, num, t) <=> t = {b, x, z} \/ t = {x, y, z}
             /\ CutFrom(c, a, b, marks, num, t) <=> t = {c, y, z} \/ t = {x, y, z}
             /\ CutFrom(c, b, a, marks, num, t) <=> t = {c, y, z} \/ t = {x, y, z}
  <2>1. CutFrom(a, b, c, marks, num, t) <=> t = {a, x, y} \/ t = {x, y, z}
    BY <1>1 DEF CutFrom
  <2>2. CutFrom(a, c, b, marks, num, t) <=> t = {a, y, x} \/ t = {y, x, z}
    BY <1>1 DEF CutFrom
  <2>3. CutFrom(b, a, c, marks, num, t) <=> t = {b, x, z} \/ t = {x, z, y}
    BY <1>1 DEF CutFrom
  <2>4. CutFrom(b, c, a, marks, num, t) <=> t = {b, z, x} \/ t = {z, x, y}
    BY <1>1 DEF CutFrom
  <2>5. CutFrom(c, a, b, marks, num, t) <=> t = {c, y, z} \/ t = {y, z, x}
    BY <1>1 DEF CutFrom
  <2>6. CutFrom(c, b, a, marks, num, t) <=> t = {c, z, y} \/ t = {z, y, x}
    BY <1>1 DEF CutFrom
  <2> QED
    BY <1>2, <2>1, <2>2, <2>3, <2>4, <2>5, <2>6
<1>4. \A t : FaceCut({a, b, c}, marks, num, t) <=>
             \/ CutFrom(a, b, c, marks, num, t) \/ CutFrom(a, c, b, marks, num, t)
             \/ CutFrom(b, a, c, marks, num, t) \/ CutFrom(b, c, a, marks, num, t)
             \/ CutFrom(c, a, b, marks, num, t) \/ CutFrom(c, b, a, marks, num, t)
  BY Orders
<1>5. \A t : FaceCut({a, b, c}, marks, num, t)
              <=> t = {a, x, y} \/ t = {b, x, z} \/ t = {c, y, z} \/ t = {x, y, z}
  BY <1>3, <1>4
<1> QED
  BY <1>5 DEF IsCut, ThreeCut

-------------------------------------------------------------------------------
(* The points of the edges R of a tetrahedron, by the ends of the edges.   *)
MarksOf(R) == [s \in {iare[e] : e \in R} |-> m0 + CHOOSE e \in Edge : iare[e] = s]

(* Which edges have a point, and which point.                              *)
LEMMA MarksAt ==
  ASSUME NEW R \in SUBSET Edge
  PROVE  /\ \A s : s \in DOMAIN MarksOf(R) <=> \E e \in R : s = iare[e]
         /\ \A e \in R : MarksOf(R)[iare[e]] = m0 + e
<1>1. \A d, e \in Edge : iare[d] = iare[e] => d = e
  BY EdgeEnds DEF Edge
<1>2. \A e \in R : (CHOOSE d \in Edge : iare[d] = iare[e]) = e
  BY <1>1
<1> QED
  BY <1>2 DEF MarksOf

(* The same for the edge e between i and j.                                *)
Between(R, i, j, e) == IF e \in R THEN Marked(i, j, MarksOf(R), m0 + e)
                                  ELSE Unmarked(i, j, MarksOf(R))

(* The six edges of a tetrahedron by their ends.                           *)
LEMMA MarksBetween ==
  ASSUME NEW R \in SUBSET Edge
  PROVE  /\ Between(R, 0, 1, 0) /\ Between(R, 0, 2, 1) /\ Between(R, 0, 3, 2)
         /\ Between(R, 1, 2, 3) /\ Between(R, 1, 3, 4) /\ Between(R, 2, 3, 5)
<1>1. ASSUME NEW i, NEW j, NEW e \in Edge, iare[e] = {i, j}
      PROVE  Between(R, i, j, e)
  <2>1. \A d \in Edge : iare[d] = iare[e] => d = e
    BY EdgeEnds DEF Edge
  <2>2. iare[e] \in DOMAIN MarksOf(R) <=> e \in R
    BY <2>1, MarksAt
  <2>3. e \in R => MarksOf(R)[iare[e]] = m0 + e
    BY MarksAt
  <2> QED
    BY <1>1, <2>2, <2>3 DEF Between, Marked, Unmarked
<1>2. 0 \in Edge /\ 1 \in Edge /\ 2 \in Edge /\ 3 \in Edge /\ 4 \in Edge /\ 5 \in Edge
  BY DEF Edge
<1> QED
  BY <1>1, <1>2, EdgeEnds

(* The vertices of a piece and those of its faces.                         *)
VerticesOf(p) == {p.v[1], p.v[2], p.v[3], p.v[4]}
Trio(p, f)  == {p.v[a + 1] : a \in Local \ {f}}

(* The vertices of the four faces of a piece.                              *)
LEMMA Trios ==
  ASSUME NEW p
  PROVE  /\ Trio(p, 0) = {p.v[2], p.v[3], p.v[4]} /\ Trio(p, 1) = {p.v[1], p.v[3], p.v[4]}
         /\ Trio(p, 2) = {p.v[1], p.v[2], p.v[4]} /\ Trio(p, 3) = {p.v[1], p.v[2], p.v[3]}
BY DEF Trio, Local

(* The pieces that have all the vertices of t are i and j.                 *)
Share(ps, t, i, j) == \A l \in DOMAIN ps : t \subseteq VerticesOf(ps[l]) <=> l = i \/ l = j

(* The cuts of the four faces, written out.                                *)
CutSet(a, b, c, ab, ac, bc, R, num) ==
    LET x == m0 + ab  y == m0 + ac  z == m0 + bc
    IN IF ab \in R
       THEN IF ac \in R
            THEN IF bc \in R THEN ThreeCut(a, b, c, x, y, z)
                             ELSE TwoCut(a, b, c, x, y, num)
            ELSE IF bc \in R THEN TwoCut(b, a, c, x, z, num) ELSE OneCut(a, b, c, x)
       ELSE IF ac \in R
            THEN IF bc \in R THEN TwoCut(c, a, b, y, z, num) ELSE OneCut(a, c, b, y)
            ELSE IF bc \in R THEN OneCut(b, c, a, z) ELSE {{a, b, c}}

CutOf(f, R, num) ==
    CASE f = 0 -> CutSet(1, 2, 3, 3, 4, 5, R, num)
      [] f = 1 -> CutSet(0, 2, 3, 1, 2, 5, R, num)
      [] f = 2 -> CutSet(0, 1, 3, 0, 2, 4, R, num)
      [] f = 3 -> CutSet(0, 1, 2, 0, 1, 3, R, num)

(* A face of piece i that leaves the faces of the tetrahedron is the face  *)
(* of one other piece, the other ones of no other piece.                   *)
Met(ps, i, f) ==
    IF f \in ps[i].reset THEN \E j \in DOMAIN ps : j # i /\ Share(ps, Trio(ps[i], f), i, j)
                         ELSE Share(ps, Trio(ps[i], f), i, i)

(* Those on a face of the tetrahedron make up the cut of this face.        *)
Covers(ps, f, R, num) ==
    CutOf(f, R, num) = {Trio(ps[i], f) : i \in {l \in DOMAIN ps : f \notin ps[l].reset}}

(* The pieces meet two by two inside, cover the faces, and differ.         *)
Fits(ps, R, num) ==
    /\ \A i \in DOMAIN ps, f \in Local : Met(ps, i, f)
    /\ \A f \in Local : Covers(ps, f, R, num)
    /\ \A i, j \in DOMAIN ps : VerticesOf(ps[i]) \subseteq VerticesOf(ps[j]) => i = j

(* Piece p has the faces s0 to s3 and resets those in r.                   *)
Sided(p, r, s0, s1, s2, s3) ==
    p.reset = r /\ Trio(p, 0) = s0 /\ Trio(p, 1) = s1 /\ Trio(p, 2) = s2 /\ Trio(p, 3) = s3

(* num gives the numbers in v of the vertices of a renumbered tetrahedron. *)
Ordered(c, v, num) ==
    /\ \A i, j \in Local : First(c, v, i, j) <=> num[i] < num[j]
    /\ num \in [Local -> Nat]

(* Two sequences in a row, written as one.                                 *)
LEMMA InARow ==
  ASSUME NEW s, IsTuple(s), NEW t, IsTuple(t), NEW u, IsTuple(u), Len(u) = Len(s) + Len(t),
         \A k \in 1..Len(s) : u[k] = s[k], \A k \in 1..Len(t) : u[Len(s) + k] = t[k]
  PROVE  s \o t = u
<1> DEFINE j == s \o t
<1>1. /\ IsTuple(j) /\ Len(j) = Len(s) + Len(t)
      /\ \A k \in 1..Len(s) : j[k] = s[k]
      /\ \A k \in 1..Len(t) : j[Len(s) + k] = t[k]
  BY TwoTuples
<1> HIDE DEF j
<1>2. Len(s) \in Nat /\ Len(t) \in Nat /\ DOMAIN j = 1..Len(u) /\ DOMAIN u = 1..Len(u)
  BY <1>1, TupleLen
<1>3. \A k \in 1..Len(u) : k \in 1..Len(s) \/ (k - Len(s) \in 1..Len(t) /\ k = Len(s) + (k - Len(s)))
  BY <1>2
<1>4. \A k \in 1..Len(u) : j[k] = u[k]
  BY <1>1, <1>3
<1>5. j = [k \in 1..Len(u) |-> j[k]] /\ u = [k \in 1..Len(u) |-> u[k]]
  BY <1>1, <1>2 DEF IsTuple
<1> QED
  BY <1>4, <1>5 DEF j

(* 1 and 2 values in a row.                                                  *)
LEMMA Row12 ==
  ASSUME NEW a, NEW b, NEW c
  PROVE  <<a>> \o <<b, c>> = <<a, b, c>>
<1> DEFINE s == <<a>>
           t == <<b, c>>
           u == <<a, b, c>>
<1>1. IsTuple(s) /\ IsTuple(t) /\ IsTuple(u)
  BY DEF IsTuple
<1>2. Len(s) = 1 /\ Len(t) = 2 /\ Len(u) = 3
  OBVIOUS
<1>3. (\A k \in 1..1 : u[k] = s[k]) /\ (\A k \in 1..2 : u[1 + k] = t[k])
  OBVIOUS
<1>4. s \o t = u
  <2> HIDE DEF s, t, u
  <2>1. /\ \A k \in 1..Len(s) : u[k] = s[k]
        /\ \A k \in 1..Len(t) : u[Len(s) + k] = t[k]
        /\ Len(u) = Len(s) + Len(t)
    BY <1>2, <1>3
  <2> QED
    BY <1>1, <2>1, InARow
<1> QED
  BY <1>4

(* 1 and 3 values in a row.                                                  *)
LEMMA Row13 ==
  ASSUME NEW a, NEW b, NEW c, NEW d
  PROVE  <<a>> \o <<b, c, d>> = <<a, b, c, d>>
<1> DEFINE s == <<a>>
           t == <<b, c, d>>
           u == <<a, b, c, d>>
<1>1. IsTuple(s) /\ IsTuple(t) /\ IsTuple(u)
  BY DEF IsTuple
<1>2. Len(s) = 1 /\ Len(t) = 3 /\ Len(u) = 4
  OBVIOUS
<1>3. (\A k \in 1..1 : u[k] = s[k]) /\ (\A k \in 1..3 : u[1 + k] = t[k])
  OBVIOUS
<1>4. s \o t = u
  <2> HIDE DEF s, t, u
  <2>1. /\ \A k \in 1..Len(s) : u[k] = s[k]
        /\ \A k \in 1..Len(t) : u[Len(s) + k] = t[k]
        /\ Len(u) = Len(s) + Len(t)
    BY <1>2, <1>3
  <2> QED
    BY <1>1, <2>1, InARow
<1> QED
  BY <1>4

(* 2 and 2 values in a row.                                                  *)
LEMMA Row22 ==
  ASSUME NEW a, NEW b, NEW c, NEW d
  PROVE  <<a, b>> \o <<c, d>> = <<a, b, c, d>>
<1> DEFINE s == <<a, b>>
           t == <<c, d>>
           u == <<a, b, c, d>>
<1>1. IsTuple(s) /\ IsTuple(t) /\ IsTuple(u)
  BY DEF IsTuple
<1>2. Len(s) = 2 /\ Len(t) = 2 /\ Len(u) = 4
  OBVIOUS
<1>3. (\A k \in 1..2 : u[k] = s[k]) /\ (\A k \in 1..2 : u[2 + k] = t[k])
  OBVIOUS
<1>4. s \o t = u
  <2> HIDE DEF s, t, u
  <2>1. /\ \A k \in 1..Len(s) : u[k] = s[k]
        /\ \A k \in 1..Len(t) : u[Len(s) + k] = t[k]
        /\ Len(u) = Len(s) + Len(t)
    BY <1>2, <1>3
  <2> QED
    BY <1>1, <2>1, InARow
<1> QED
  BY <1>4

(* 4 and 2 values in a row.                                                  *)
LEMMA Row42 ==
  ASSUME NEW a, NEW b, NEW c, NEW d, NEW e, NEW f
  PROVE  <<a, b, c, d>> \o <<e, f>> = <<a, b, c, d, e, f>>
<1> DEFINE s == <<a, b, c, d>>
           t == <<e, f>>
           u == <<a, b, c, d, e, f>>
<1>1. IsTuple(s) /\ IsTuple(t) /\ IsTuple(u)
  BY DEF IsTuple
<1>2. Len(s) = 4 /\ Len(t) = 2 /\ Len(u) = 6
  OBVIOUS
<1>3. (\A k \in 1..4 : u[k] = s[k]) /\ (\A k \in 1..2 : u[4 + k] = t[k])
  OBVIOUS
<1>4. s \o t = u
  <2> HIDE DEF s, t, u
  <2>1. /\ \A k \in 1..Len(s) : u[k] = s[k]
        /\ \A k \in 1..Len(t) : u[Len(s) + k] = t[k]
        /\ Len(u) = Len(s) + Len(t)
    BY <1>2, <1>3
  <2> QED
    BY <1>1, <2>1, InARow
<1> QED
  BY <1>4

(* 3 and 3 values in a row.                                                  *)
LEMMA Row33 ==
  ASSUME NEW a, NEW b, NEW c, NEW d, NEW e, NEW f
  PROVE  <<a, b, c>> \o <<d, e, f>> = <<a, b, c, d, e, f>>
<1> DEFINE s == <<a, b, c>>
           t == <<d, e, f>>
           u == <<a, b, c, d, e, f>>
<1>1. IsTuple(s) /\ IsTuple(t) /\ IsTuple(u)
  BY DEF IsTuple
<1>2. Len(s) = 3 /\ Len(t) = 3 /\ Len(u) = 6
  OBVIOUS
<1>3. (\A k \in 1..3 : u[k] = s[k]) /\ (\A k \in 1..3 : u[3 + k] = t[k])
  OBVIOUS
<1>4. s \o t = u
  <2> HIDE DEF s, t, u
  <2>1. /\ \A k \in 1..Len(s) : u[k] = s[k]
        /\ \A k \in 1..Len(t) : u[Len(s) + k] = t[k]
        /\ Len(u) = Len(s) + Len(t)
    BY <1>2, <1>3
  <2> QED
    BY <1>1, <2>1, InARow
<1> QED
  BY <1>4

(* 4 and 3 values in a row.                                                  *)
LEMMA Row43 ==
  ASSUME NEW a, NEW b, NEW c, NEW d, NEW e, NEW f, NEW g
  PROVE  <<a, b, c, d>> \o <<e, f, g>> = <<a, b, c, d, e, f, g>>
<1> DEFINE s == <<a, b, c, d>>
           t == <<e, f, g>>
           u == <<a, b, c, d, e, f, g>>
<1>1. IsTuple(s) /\ IsTuple(t) /\ IsTuple(u)
  BY DEF IsTuple
<1>2. Len(s) = 4 /\ Len(t) = 3 /\ Len(u) = 7
  OBVIOUS
<1>3. (\A k \in 1..4 : u[k] = s[k]) /\ (\A k \in 1..3 : u[4 + k] = t[k])
  OBVIOUS
<1>4. s \o t = u
  <2> HIDE DEF s, t, u
  <2>1. /\ \A k \in 1..Len(s) : u[k] = s[k]
        /\ \A k \in 1..Len(t) : u[Len(s) + k] = t[k]
        /\ Len(u) = Len(s) + Len(t)
    BY <1>2, <1>3
  <2> QED
    BY <1>1, <2>1, InARow
<1> QED
  BY <1>4

(* The numbers of the vertices differ.                                     *)
Differ(num) == \A i, j \in Local : i # j => num[i] < num[j] \/ num[j] < num[i]

(* Two marks, whatever the order of the numbers.                           *)
LEMMA TwoMarksDiffer ==
  ASSUME NEW a, NEW b, NEW c, a # b, a # c, b # c, NEW marks, NEW num,
         NEW x, NEW y, Marked(a, b, marks, x), Marked(a, c, marks, y), Unmarked(b, c, marks),
         num[b] \in Nat, num[c] \in Nat, num[b] # num[c]
  PROVE  IsCut(a, b, c, marks, num, TwoCut(a, b, c, x, y, num))
<1>1. (num[b] < num[c] /\ ~(num[c] < num[b])) \/ (num[c] < num[b] /\ ~(num[b] < num[c]))
  OBVIOUS
<1>2. CASE num[b] < num[c] /\ ~(num[c] < num[b])
  BY <1>2, TwoMarks
<1>3. CASE num[c] < num[b] /\ ~(num[b] < num[c])
  <2>1. IsCut(a, c, b, marks, num, TwoCut(a, c, b, y, x, num))
    BY <1>3, TwoMarks, MarkedBoth
  <2>2. {a, y, x} = {a, x, y} /\ {c, y, x} = {c, x, y}
    OBVIOUS
  <2>3. TwoCut(a, c, b, y, x, num) = TwoCut(a, b, c, x, y, num)
    BY <1>3, <2>2 DEF TwoCut
  <2> QED
    BY <2>1, <2>3, AnyOrder
<1> QED
  BY <1>1, <1>2, <1>3

(* The cut of a face, written out.                                         *)
LEMMA CutSetIsCut ==
  ASSUME NEW R \in SUBSET Edge, NEW num \in [Local -> Nat],
         NEW a \in Local, NEW b \in Local, NEW c \in Local, a # b, a # c, b # c,
         num[a] # num[b], num[a] # num[c], num[b] # num[c], NEW ab, NEW ac, NEW bc,
         Between(R, a, b, ab), Between(R, a, c, ac), Between(R, b, c, bc)
  PROVE  IsCut(a, b, c, MarksOf(R), num, CutSet(a, b, c, ab, ac, bc, R, num))
<1> DEFINE M == MarksOf(R)
           x == m0 + ab
           y == m0 + ac
           z == m0 + bc
           C == CutSet(a, b, c, ab, ac, bc, R, num)
<1>1. /\ IF ab \in R THEN Marked(a, b, M, x) ELSE Unmarked(a, b, M)
      /\ IF ac \in R THEN Marked(a, c, M, y) ELSE Unmarked(a, c, M)
      /\ IF bc \in R THEN Marked(b, c, M, z) ELSE Unmarked(b, c, M)
  BY DEF Between
<1>2. C = IF ab \in R
          THEN IF ac \in R THEN IF bc \in R THEN ThreeCut(a, b, c, x, y, z) ELSE TwoCut(a, b, c, x, y, num)
                           ELSE IF bc \in R THEN TwoCut(b, a, c, x, z, num) ELSE OneCut(a, b, c, x)
          ELSE IF ac \in R THEN IF bc \in R THEN TwoCut(c, a, b, y, z, num) ELSE OneCut(a, c, b, y)
                           ELSE IF bc \in R THEN OneCut(b, c, a, z) ELSE {{a, b, c}}
  BY DEF CutSet
<1>3. num[a] \in Nat /\ num[b] \in Nat /\ num[c] \in Nat
  OBVIOUS
<1> HIDE DEF M, x, y, z, C
<1> SUFFICES IsCut(a, b, c, M, num, C)
  BY DEF M, C
<1>4. CASE ab \in R /\ ac \in R /\ bc \in R
  BY <1>1, <1>2, <1>4, ThreeMarks
<1>5. CASE ab \in R /\ ac \in R /\ bc \notin R
  BY <1>1, <1>2, <1>3, <1>5, TwoMarksDiffer
<1>6. CASE ab \in R /\ ac \notin R /\ bc \in R
  <2>1. IsCut(b, a, c, M, num, TwoCut(b, a, c, x, z, num))
    BY <1>1, <1>3, <1>6, TwoMarksDiffer, MarkedBoth
  <2> QED
    BY <1>2, <1>6, <2>1, AnyOrder
<1>7. CASE ab \notin R /\ ac \in R /\ bc \in R
  <2>1. IsCut(c, a, b, M, num, TwoCut(c, a, b, y, z, num))
    BY <1>1, <1>3, <1>7, TwoMarksDiffer, MarkedBoth
  <2> QED
    BY <1>2, <1>7, <2>1, AnyOrder
<1>8. CASE ab \in R /\ ac \notin R /\ bc \notin R
  BY <1>1, <1>2, <1>8, OneMark
<1>9. CASE ab \notin R /\ ac \in R /\ bc \notin R
  <2>1. IsCut(a, c, b, M, num, OneCut(a, c, b, y))
    BY <1>1, <1>9, OneMark, MarkedBoth
  <2> QED
    BY <1>2, <1>9, <2>1, AnyOrder
<1>10. CASE ab \notin R /\ ac \notin R /\ bc \in R
  <2>1. IsCut(b, c, a, M, num, OneCut(b, c, a, z))
    BY <1>1, <1>10, OneMark, MarkedBoth
  <2> QED
    BY <1>2, <1>10, <2>1, AnyOrder
<1>11. CASE ab \notin R /\ ac \notin R /\ bc \notin R
  BY <1>1, <1>2, <1>11, NoMark
<1> QED
  BY <1>4, <1>5, <1>6, <1>7, <1>8, <1>9, <1>10, <1>11

(* The same for the four faces of the tetrahedron.                         *)
LEMMA CutOfIsCut ==
  ASSUME NEW R \in SUBSET Edge, NEW num \in [Local -> Nat], Differ(num), NEW f \in Local
  PROVE  \A t : FaceCut(Local \ {f}, MarksOf(R), num, t) <=> t \in CutOf(f, R, num)
<1>1. f = 0 \/ f = 1 \/ f = 2 \/ f = 3
  BY DEF Local
<1>2. /\ Local \ {0} = {1, 2, 3} /\ Local \ {1} = {0, 2, 3}
      /\ Local \ {2} = {0, 1, 3} /\ Local \ {3} = {0, 1, 2}
  BY DEF Local
<1>3. /\ 0 \in Local /\ 1 \in Local /\ 2 \in Local /\ 3 \in Local
      /\ num[0] # num[1] /\ num[0] # num[2] /\ num[0] # num[3]
      /\ num[1] # num[2] /\ num[1] # num[3] /\ num[2] # num[3]
  BY DEF Local, Differ
<1>4. IsCut(1, 2, 3, MarksOf(R), num, CutSet(1, 2, 3, 3, 4, 5, R, num))
  BY <1>3, MarksBetween, CutSetIsCut
<1>5. IsCut(0, 2, 3, MarksOf(R), num, CutSet(0, 2, 3, 1, 2, 5, R, num))
  BY <1>3, MarksBetween, CutSetIsCut
<1>6. IsCut(0, 1, 3, MarksOf(R), num, CutSet(0, 1, 3, 0, 2, 4, R, num))
  BY <1>3, MarksBetween, CutSetIsCut
<1>7. IsCut(0, 1, 2, MarksOf(R), num, CutSet(0, 1, 2, 0, 1, 3, R, num))
  BY <1>3, MarksBetween, CutSetIsCut
<1>8. CASE f = 0
  BY <1>2, <1>4, <1>8 DEF CutOf, IsCut
<1>9. CASE f = 1
  BY <1>2, <1>5, <1>9 DEF CutOf, IsCut
<1>10. CASE f = 2
  BY <1>2, <1>6, <1>10 DEF CutOf, IsCut
<1>11. CASE f = 3
  BY <1>2, <1>7, <1>11 DEF CutOf, IsCut
<1> QED
  BY <1>1, <1>8, <1>9, <1>10, <1>11

(* The pieces of split2sf_12.                                              *)
LEMMA split2sf_12_fits ==
  ASSUME NEW c, NEW v, NEW num, Ordered(c, v, num),
         num[1] < num[2]
  PROVE  Fits(split2sf(c, v), {4, 5}, num)
<1> DEFINE ps == << P(<<0, m4, m5, 3>>, <<F2, F1, K, F0, K, K>>, {3}),
                  P(<<0, 1, m5, m4>>, <<K, F1, F2, F0, K, F0>>, {1, 3}),
                  P(<<0, 1, 2, m5>>, <<K, K, F1, K, F0, K>>, {2}) >>
           C  == <<{0, 8, 9, 3}, {0, 1, 9, 8}, {0, 1, 2, 9}>>
<1>1. num[1] < num[2] /\ ~(num[2] < num[1])
  BY DEF Ordered, Local
<1>2. First(c, v, 1, 2) /\ ~First(c, v, 2, 1)
  BY DEF Ordered, Local
<1>3. split2sf(c, v) = ps
  BY <1>2, Row12 DEF split2sf
<1>4. /\ Sided(ps[1], {3}, {8, 9, 3}, {0, 9, 3}, {0, 8, 3}, {0, 8, 9})
      /\ Sided(ps[2], {1, 3}, {1, 9, 8}, {0, 9, 8}, {0, 1, 8}, {0, 1, 9})
      /\ Sided(ps[3], {2}, {1, 2, 9}, {0, 2, 9}, {0, 1, 9}, {0, 1, 2})
  BY Trios DEF P, Sided, m0, m1, m2, m3, m4, m5
<1>5. DOMAIN ps = 1..3 /\ \A i \in 1..3 : VerticesOf(ps[i]) = C[i]
  BY DEF P, VerticesOf, m0, m1, m2, m3, m4, m5
<1>6. /\ CutOf(0, {4, 5}, num) = {{3, 8, 9}, {1, 8, 9}, {1, 2, 9}}
      /\ CutOf(1, {4, 5}, num) = {{2, 9, 0}, {3, 9, 0}}
      /\ CutOf(2, {4, 5}, num) = {{1, 8, 0}, {3, 8, 0}}
      /\ CutOf(3, {4, 5}, num) = {{0, 1, 2}}
  BY <1>1 DEF CutOf, CutSet, OneCut, TwoCut, ThreeCut, m0
<1>7. \A i, j \in 1..3 : C[i] \subseteq C[j] => i = j
  OBVIOUS
<1> HIDE DEF ps
<1>8. /\ Share(ps, Trio(ps[1], 0), 1, 1) /\ Share(ps, Trio(ps[1], 1), 1, 1)
      /\ Share(ps, Trio(ps[1], 2), 1, 1) /\ Share(ps, Trio(ps[1], 3), 1, 2)
      /\ Share(ps, Trio(ps[2], 0), 2, 2) /\ Share(ps, Trio(ps[2], 1), 2, 1)
      /\ Share(ps, Trio(ps[2], 2), 2, 2) /\ Share(ps, Trio(ps[2], 3), 2, 3)
      /\ Share(ps, Trio(ps[3], 0), 3, 3) /\ Share(ps, Trio(ps[3], 1), 3, 3)
      /\ Share(ps, Trio(ps[3], 2), 3, 2) /\ Share(ps, Trio(ps[3], 3), 3, 3)
  BY <1>4, <1>5 DEF Share, Sided
<1> HIDE DEF C
<1>9. \A i \in DOMAIN ps, f \in Local : Met(ps, i, f)
  <2>1. /\ \A f \in Local : Met(ps, 1, f)
        /\ \A f \in Local : Met(ps, 2, f)
        /\ \A f \in Local : Met(ps, 3, f)
    BY <1>4, <1>5, <1>8 DEF Met, Local, Sided
  <2>2. \A i \in DOMAIN ps : i = 1 \/ i = 2 \/ i = 3
    BY <1>5
  <2> QED
    BY <2>1, <2>2
<1>10. /\ {3, 8, 9} = Trio(ps[1], 0) /\ {1, 8, 9} = Trio(ps[2], 0) /\ {1, 2, 9} = Trio(ps[3], 0)
      /\ {2, 9, 0} = Trio(ps[3], 1) /\ {3, 9, 0} = Trio(ps[1], 1) /\ {1, 8, 0} = Trio(ps[2], 2)
      /\ {3, 8, 0} = Trio(ps[1], 2) /\ {0, 1, 2} = Trio(ps[3], 3)
  BY <1>4 DEF Sided
<1>11. /\ CutOf(0, {4, 5}, num) = {Trio(ps[1], 0), Trio(ps[2], 0), Trio(ps[3], 0)}
      /\ CutOf(1, {4, 5}, num) = {Trio(ps[3], 1), Trio(ps[1], 1)}
      /\ CutOf(2, {4, 5}, num) = {Trio(ps[2], 2), Trio(ps[1], 2)}
      /\ CutOf(3, {4, 5}, num) = {Trio(ps[3], 3)}
  BY <1>6, <1>10
<1>12. /\ {i \in DOMAIN ps : 0 \notin ps[i].reset} = {1, 2, 3}
      /\ {i \in DOMAIN ps : 1 \notin ps[i].reset} = {1, 3}
      /\ {i \in DOMAIN ps : 2 \notin ps[i].reset} = {1, 2}
      /\ {i \in DOMAIN ps : 3 \notin ps[i].reset} = {3}
  BY <1>4, <1>5 DEF Sided
<1>13. \A f \in Local : Covers(ps, f, {4, 5}, num)
  BY <1>11, <1>12 DEF Covers, Local
<1> QED
  BY <1>3, <1>5, <1>7, <1>9, <1>13 DEF Fits, ps

(* The pieces of split2sf_21.                                              *)
LEMMA split2sf_21_fits ==
  ASSUME NEW c, NEW v, NEW num, Ordered(c, v, num),
         num[2] < num[1]
  PROVE  Fits(split2sf(c, v), {4, 5}, num)
<1> DEFINE ps == << P(<<0, m4, m5, 3>>, <<F2, F1, K, F0, K, K>>, {3}),
                  P(<<0, 1, 2, m4>>, <<K, K, F2, K, K, F0>>, {1}),
                  P(<<0, m4, 2, m5>>, <<F2, K, F1, F0, F0, K>>, {2, 3}) >>
           C  == <<{0, 8, 9, 3}, {0, 1, 2, 8}, {0, 8, 2, 9}>>
<1>1. num[2] < num[1] /\ ~(num[1] < num[2])
  BY DEF Ordered, Local
<1>2. First(c, v, 2, 1) /\ ~First(c, v, 1, 2)
  BY DEF Ordered, Local
<1>3. split2sf(c, v) = ps
  BY <1>2, Row12 DEF split2sf
<1>4. /\ Sided(ps[1], {3}, {8, 9, 3}, {0, 9, 3}, {0, 8, 3}, {0, 8, 9})
      /\ Sided(ps[2], {1}, {1, 2, 8}, {0, 2, 8}, {0, 1, 8}, {0, 1, 2})
      /\ Sided(ps[3], {2, 3}, {8, 2, 9}, {0, 2, 9}, {0, 8, 9}, {0, 8, 2})
  BY Trios DEF P, Sided, m0, m1, m2, m3, m4, m5
<1>5. DOMAIN ps = 1..3 /\ \A i \in 1..3 : VerticesOf(ps[i]) = C[i]
  BY DEF P, VerticesOf, m0, m1, m2, m3, m4, m5
<1>6. /\ CutOf(0, {4, 5}, num) = {{3, 9, 8}, {2, 9, 8}, {2, 1, 8}}
      /\ CutOf(1, {4, 5}, num) = {{2, 9, 0}, {3, 9, 0}}
      /\ CutOf(2, {4, 5}, num) = {{1, 8, 0}, {3, 8, 0}}
      /\ CutOf(3, {4, 5}, num) = {{0, 1, 2}}
  BY <1>1 DEF CutOf, CutSet, OneCut, TwoCut, ThreeCut, m0
<1>7. \A i, j \in 1..3 : C[i] \subseteq C[j] => i = j
  OBVIOUS
<1> HIDE DEF ps
<1>8. /\ Share(ps, Trio(ps[1], 0), 1, 1) /\ Share(ps, Trio(ps[1], 1), 1, 1)
      /\ Share(ps, Trio(ps[1], 2), 1, 1) /\ Share(ps, Trio(ps[1], 3), 1, 3)
      /\ Share(ps, Trio(ps[2], 0), 2, 2) /\ Share(ps, Trio(ps[2], 1), 2, 3)
      /\ Share(ps, Trio(ps[2], 2), 2, 2) /\ Share(ps, Trio(ps[2], 3), 2, 2)
      /\ Share(ps, Trio(ps[3], 0), 3, 3) /\ Share(ps, Trio(ps[3], 1), 3, 3)
      /\ Share(ps, Trio(ps[3], 2), 3, 1) /\ Share(ps, Trio(ps[3], 3), 3, 2)
  BY <1>4, <1>5 DEF Share, Sided
<1> HIDE DEF C
<1>9. \A i \in DOMAIN ps, f \in Local : Met(ps, i, f)
  <2>1. /\ \A f \in Local : Met(ps, 1, f)
        /\ \A f \in Local : Met(ps, 2, f)
        /\ \A f \in Local : Met(ps, 3, f)
    BY <1>4, <1>5, <1>8 DEF Met, Local, Sided
  <2>2. \A i \in DOMAIN ps : i = 1 \/ i = 2 \/ i = 3
    BY <1>5
  <2> QED
    BY <2>1, <2>2
<1>10. /\ {3, 9, 8} = Trio(ps[1], 0) /\ {2, 9, 8} = Trio(ps[3], 0) /\ {2, 1, 8} = Trio(ps[2], 0)
      /\ {2, 9, 0} = Trio(ps[3], 1) /\ {3, 9, 0} = Trio(ps[1], 1) /\ {1, 8, 0} = Trio(ps[2], 2)
      /\ {3, 8, 0} = Trio(ps[1], 2) /\ {0, 1, 2} = Trio(ps[2], 3)
  BY <1>4 DEF Sided
<1>11. /\ CutOf(0, {4, 5}, num) = {Trio(ps[1], 0), Trio(ps[3], 0), Trio(ps[2], 0)}
      /\ CutOf(1, {4, 5}, num) = {Trio(ps[3], 1), Trio(ps[1], 1)}
      /\ CutOf(2, {4, 5}, num) = {Trio(ps[2], 2), Trio(ps[1], 2)}
      /\ CutOf(3, {4, 5}, num) = {Trio(ps[2], 3)}
  BY <1>6, <1>10
<1>12. /\ {i \in DOMAIN ps : 0 \notin ps[i].reset} = {1, 2, 3}
      /\ {i \in DOMAIN ps : 1 \notin ps[i].reset} = {1, 3}
      /\ {i \in DOMAIN ps : 2 \notin ps[i].reset} = {1, 2}
      /\ {i \in DOMAIN ps : 3 \notin ps[i].reset} = {2}
  BY <1>4, <1>5 DEF Sided
<1>13. \A f \in Local : Covers(ps, f, {4, 5}, num)
  BY <1>11, <1>12 DEF Covers, Local
<1> QED
  BY <1>3, <1>5, <1>7, <1>9, <1>13 DEF Fits, ps

(* The pieces of split1.                                                   *)
LEMMA split1_fits ==
  ASSUME NEW num
  PROVE  Fits(split1, {0}, num)
<1> DEFINE ps == split1
           C  == <<{0, 4, 2, 3}, {4, 1, 2, 3}>>
<1>1. /\ Sided(ps[1], {0}, {4, 2, 3}, {0, 2, 3}, {0, 4, 3}, {0, 4, 2})
      /\ Sided(ps[2], {1}, {1, 2, 3}, {4, 2, 3}, {4, 1, 3}, {4, 1, 2})
  BY Trios DEF split1, P, Sided, m0, m1, m2, m3, m4, m5
<1>2. DOMAIN ps = 1..2 /\ \A i \in 1..2 : VerticesOf(ps[i]) = C[i]
  BY DEF split1, P, VerticesOf, m0, m1, m2, m3, m4, m5
<1>3. /\ CutOf(0, {0}, num) = {{1, 2, 3}}
      /\ CutOf(1, {0}, num) = {{0, 2, 3}}
      /\ CutOf(2, {0}, num) = {{0, 4, 3}, {1, 4, 3}}
      /\ CutOf(3, {0}, num) = {{0, 4, 2}, {1, 4, 2}}
  BY DEF CutOf, CutSet, OneCut, TwoCut, ThreeCut, m0
<1>4. \A i, j \in 1..2 : C[i] \subseteq C[j] => i = j
  OBVIOUS
<1> HIDE DEF ps
<1>5. /\ Share(ps, Trio(ps[1], 0), 1, 2) /\ Share(ps, Trio(ps[1], 1), 1, 1)
      /\ Share(ps, Trio(ps[1], 2), 1, 1) /\ Share(ps, Trio(ps[1], 3), 1, 1)
      /\ Share(ps, Trio(ps[2], 0), 2, 2) /\ Share(ps, Trio(ps[2], 1), 2, 1)
      /\ Share(ps, Trio(ps[2], 2), 2, 2) /\ Share(ps, Trio(ps[2], 3), 2, 2)
  BY <1>1, <1>2 DEF Share, Sided
<1> HIDE DEF C
<1>6. \A i \in DOMAIN ps, f \in Local : Met(ps, i, f)
  <2>1. /\ \A f \in Local : Met(ps, 1, f)
        /\ \A f \in Local : Met(ps, 2, f)
    BY <1>1, <1>2, <1>5 DEF Met, Local, Sided
  <2>2. \A i \in DOMAIN ps : i = 1 \/ i = 2
    BY <1>2
  <2> QED
    BY <2>1, <2>2
<1>7. /\ {1, 2, 3} = Trio(ps[2], 0) /\ {0, 2, 3} = Trio(ps[1], 1) /\ {0, 4, 3} = Trio(ps[1], 2)
      /\ {1, 4, 3} = Trio(ps[2], 2) /\ {0, 4, 2} = Trio(ps[1], 3) /\ {1, 4, 2} = Trio(ps[2], 3)
  BY <1>1 DEF Sided
<1>8. /\ CutOf(0, {0}, num) = {Trio(ps[2], 0)}
      /\ CutOf(1, {0}, num) = {Trio(ps[1], 1)}
      /\ CutOf(2, {0}, num) = {Trio(ps[1], 2), Trio(ps[2], 2)}
      /\ CutOf(3, {0}, num) = {Trio(ps[1], 3), Trio(ps[2], 3)}
  BY <1>3, <1>7
<1>9. /\ {i \in DOMAIN ps : 0 \notin ps[i].reset} = {2}
      /\ {i \in DOMAIN ps : 1 \notin ps[i].reset} = {1}
      /\ {i \in DOMAIN ps : 2 \notin ps[i].reset} = {1, 2}
      /\ {i \in DOMAIN ps : 3 \notin ps[i].reset} = {1, 2}
  BY <1>1, <1>2 DEF Sided
<1>10. \A f \in Local : Covers(ps, f, {0}, num)
  BY <1>8, <1>9 DEF Covers, Local
<1> QED
  BY <1>2, <1>4, <1>6, <1>10 DEF Fits, ps

(* The pieces of split2.                                                   *)
LEMMA split2_fits ==
  ASSUME NEW num
  PROVE  Fits(split2, {0, 5}, num)
<1> DEFINE ps == split2
           C  == <<{0, 4, 9, 3}, {0, 4, 2, 9}, {4, 1, 9, 3}, {4, 1, 2, 9}>>
<1>1. /\ Sided(ps[1], {0, 3}, {4, 9, 3}, {0, 9, 3}, {0, 4, 3}, {0, 4, 9})
      /\ Sided(ps[2], {0, 2}, {4, 2, 9}, {0, 2, 9}, {0, 4, 9}, {0, 4, 2})
      /\ Sided(ps[3], {1, 3}, {1, 9, 3}, {4, 9, 3}, {4, 1, 3}, {4, 1, 9})
      /\ Sided(ps[4], {1, 2}, {1, 2, 9}, {4, 2, 9}, {4, 1, 9}, {4, 1, 2})
  BY Trios DEF split2, P, Sided, m0, m1, m2, m3, m4, m5
<1>2. DOMAIN ps = 1..4 /\ \A i \in 1..4 : VerticesOf(ps[i]) = C[i]
  BY DEF split2, P, VerticesOf, m0, m1, m2, m3, m4, m5
<1>3. /\ CutOf(0, {0, 5}, num) = {{2, 9, 1}, {3, 9, 1}}
      /\ CutOf(1, {0, 5}, num) = {{2, 9, 0}, {3, 9, 0}}
      /\ CutOf(2, {0, 5}, num) = {{0, 4, 3}, {1, 4, 3}}
      /\ CutOf(3, {0, 5}, num) = {{0, 4, 2}, {1, 4, 2}}
  BY DEF CutOf, CutSet, OneCut, TwoCut, ThreeCut, m0
<1>4. \A i, j \in 1..4 : C[i] \subseteq C[j] => i = j
  OBVIOUS
<1> HIDE DEF ps
<1>5. /\ Share(ps, Trio(ps[1], 0), 1, 3) /\ Share(ps, Trio(ps[1], 1), 1, 1)
      /\ Share(ps, Trio(ps[1], 2), 1, 1) /\ Share(ps, Trio(ps[1], 3), 1, 2)
      /\ Share(ps, Trio(ps[2], 0), 2, 4) /\ Share(ps, Trio(ps[2], 1), 2, 2)
      /\ Share(ps, Trio(ps[2], 2), 2, 1) /\ Share(ps, Trio(ps[2], 3), 2, 2)
      /\ Share(ps, Trio(ps[3], 0), 3, 3) /\ Share(ps, Trio(ps[3], 1), 3, 1)
      /\ Share(ps, Trio(ps[3], 2), 3, 3) /\ Share(ps, Trio(ps[3], 3), 3, 4)
      /\ Share(ps, Trio(ps[4], 0), 4, 4) /\ Share(ps, Trio(ps[4], 1), 4, 2)
      /\ Share(ps, Trio(ps[4], 2), 4, 3) /\ Share(ps, Trio(ps[4], 3), 4, 4)
  BY <1>1, <1>2 DEF Share, Sided
<1> HIDE DEF C
<1>6. \A i \in DOMAIN ps, f \in Local : Met(ps, i, f)
  <2>1. /\ \A f \in Local : Met(ps, 1, f)
        /\ \A f \in Local : Met(ps, 2, f)
        /\ \A f \in Local : Met(ps, 3, f)
        /\ \A f \in Local : Met(ps, 4, f)
    BY <1>1, <1>2, <1>5 DEF Met, Local, Sided
  <2>2. \A i \in DOMAIN ps : i = 1 \/ i = 2 \/ i = 3 \/ i = 4
    BY <1>2
  <2> QED
    BY <2>1, <2>2
<1>7. /\ {2, 9, 1} = Trio(ps[4], 0) /\ {3, 9, 1} = Trio(ps[3], 0) /\ {2, 9, 0} = Trio(ps[2], 1)
      /\ {3, 9, 0} = Trio(ps[1], 1) /\ {0, 4, 3} = Trio(ps[1], 2) /\ {1, 4, 3} = Trio(ps[3], 2)
      /\ {0, 4, 2} = Trio(ps[2], 3) /\ {1, 4, 2} = Trio(ps[4], 3)
  BY <1>1 DEF Sided
<1>8. /\ CutOf(0, {0, 5}, num) = {Trio(ps[4], 0), Trio(ps[3], 0)}
      /\ CutOf(1, {0, 5}, num) = {Trio(ps[2], 1), Trio(ps[1], 1)}
      /\ CutOf(2, {0, 5}, num) = {Trio(ps[1], 2), Trio(ps[3], 2)}
      /\ CutOf(3, {0, 5}, num) = {Trio(ps[2], 3), Trio(ps[4], 3)}
  BY <1>3, <1>7
<1>9. /\ {i \in DOMAIN ps : 0 \notin ps[i].reset} = {3, 4}
      /\ {i \in DOMAIN ps : 1 \notin ps[i].reset} = {1, 2}
      /\ {i \in DOMAIN ps : 2 \notin ps[i].reset} = {1, 3}
      /\ {i \in DOMAIN ps : 3 \notin ps[i].reset} = {2, 4}
  BY <1>1, <1>2 DEF Sided
<1>10. \A f \in Local : Covers(ps, f, {0, 5}, num)
  BY <1>8, <1>9 DEF Covers, Local
<1> QED
  BY <1>2, <1>4, <1>6, <1>10 DEF Fits, ps

(* The pieces of split3.                                                   *)
LEMMA split3_fits ==
  ASSUME NEW num
  PROVE  Fits(split3, {0, 1, 3}, num)
<1> DEFINE ps == split3
           C  == <<{0, 4, 5, 3}, {4, 1, 7, 3}, {5, 7, 2, 3}, {4, 7, 5, 3}>>
<1>1. /\ Sided(ps[1], {0}, {4, 5, 3}, {0, 5, 3}, {0, 4, 3}, {0, 4, 5})
      /\ Sided(ps[2], {1}, {1, 7, 3}, {4, 7, 3}, {4, 1, 3}, {4, 1, 7})
      /\ Sided(ps[3], {2}, {7, 2, 3}, {5, 2, 3}, {5, 7, 3}, {5, 7, 2})
      /\ Sided(ps[4], {0, 1, 2}, {7, 5, 3}, {4, 5, 3}, {4, 7, 3}, {4, 7, 5})
  BY Trios DEF split3, P, Sided, m0, m1, m2, m3, m4, m5
<1>2. DOMAIN ps = 1..4 /\ \A i \in 1..4 : VerticesOf(ps[i]) = C[i]
  BY DEF split3, P, VerticesOf, m0, m1, m2, m3, m4, m5
<1>3. /\ CutOf(0, {0, 1, 3}, num) = {{1, 7, 3}, {2, 7, 3}}
      /\ CutOf(1, {0, 1, 3}, num) = {{0, 5, 3}, {2, 5, 3}}
      /\ CutOf(2, {0, 1, 3}, num) = {{0, 4, 3}, {1, 4, 3}}
      /\ CutOf(3, {0, 1, 3}, num) = {{0, 4, 5}, {1, 4, 7}, {2, 5, 7}, {4, 5, 7}}
  BY DEF CutOf, CutSet, OneCut, TwoCut, ThreeCut, m0
<1>4. \A i, j \in 1..4 : C[i] \subseteq C[j] => i = j
  OBVIOUS
<1> HIDE DEF ps
<1>5. /\ Share(ps, Trio(ps[1], 0), 1, 4) /\ Share(ps, Trio(ps[1], 1), 1, 1)
      /\ Share(ps, Trio(ps[1], 2), 1, 1) /\ Share(ps, Trio(ps[1], 3), 1, 1)
      /\ Share(ps, Trio(ps[2], 0), 2, 2) /\ Share(ps, Trio(ps[2], 1), 2, 4)
      /\ Share(ps, Trio(ps[2], 2), 2, 2) /\ Share(ps, Trio(ps[2], 3), 2, 2)
      /\ Share(ps, Trio(ps[3], 0), 3, 3) /\ Share(ps, Trio(ps[3], 1), 3, 3)
      /\ Share(ps, Trio(ps[3], 2), 3, 4) /\ Share(ps, Trio(ps[3], 3), 3, 3)
      /\ Share(ps, Trio(ps[4], 0), 4, 3) /\ Share(ps, Trio(ps[4], 1), 4, 1)
      /\ Share(ps, Trio(ps[4], 2), 4, 2) /\ Share(ps, Trio(ps[4], 3), 4, 4)
  BY <1>1, <1>2 DEF Share, Sided
<1> HIDE DEF C
<1>6. \A i \in DOMAIN ps, f \in Local : Met(ps, i, f)
  <2>1. /\ \A f \in Local : Met(ps, 1, f)
        /\ \A f \in Local : Met(ps, 2, f)
        /\ \A f \in Local : Met(ps, 3, f)
        /\ \A f \in Local : Met(ps, 4, f)
    BY <1>1, <1>2, <1>5 DEF Met, Local, Sided
  <2>2. \A i \in DOMAIN ps : i = 1 \/ i = 2 \/ i = 3 \/ i = 4
    BY <1>2
  <2> QED
    BY <2>1, <2>2
<1>7. /\ {1, 7, 3} = Trio(ps[2], 0) /\ {2, 7, 3} = Trio(ps[3], 0) /\ {0, 5, 3} = Trio(ps[1], 1)
      /\ {2, 5, 3} = Trio(ps[3], 1) /\ {0, 4, 3} = Trio(ps[1], 2) /\ {1, 4, 3} = Trio(ps[2], 2)
      /\ {0, 4, 5} = Trio(ps[1], 3) /\ {1, 4, 7} = Trio(ps[2], 3) /\ {2, 5, 7} = Trio(ps[3], 3)
      /\ {4, 5, 7} = Trio(ps[4], 3)
  BY <1>1 DEF Sided
<1>8. /\ CutOf(0, {0, 1, 3}, num) = {Trio(ps[2], 0), Trio(ps[3], 0)}
      /\ CutOf(1, {0, 1, 3}, num) = {Trio(ps[1], 1), Trio(ps[3], 1)}
      /\ CutOf(2, {0, 1, 3}, num) = {Trio(ps[1], 2), Trio(ps[2], 2)}
      /\ CutOf(3, {0, 1, 3}, num) = {Trio(ps[1], 3), Trio(ps[2], 3), Trio(ps[3], 3), Trio(ps[4], 3)}
  BY <1>3, <1>7
<1>9. /\ {i \in DOMAIN ps : 0 \notin ps[i].reset} = {2, 3}
      /\ {i \in DOMAIN ps : 1 \notin ps[i].reset} = {1, 3}
      /\ {i \in DOMAIN ps : 2 \notin ps[i].reset} = {1, 2}
      /\ {i \in DOMAIN ps : 3 \notin ps[i].reset} = {1, 2, 3, 4}
  BY <1>1, <1>2 DEF Sided
<1>10. \A f \in Local : Covers(ps, f, {0, 1, 3}, num)
  BY <1>8, <1>9 DEF Covers, Local
<1> QED
  BY <1>2, <1>4, <1>6, <1>10 DEF Fits, ps

(* The pieces of cone3_12.                                                 *)
LEMMA cone3_12_fits ==
  ASSUME NEW c, NEW v, NEW num, Ordered(c, v, num),
         num[3] < num[1], num[3] < num[2], num[1] < num[2]
  PROVE  Fits(split3cone(c, v), {0, 1, 2}, num)
<1> DEFINE ps == << P(<<0, m0, m1, m2>>, <<K, K, K, F3, F2, F1>>, {0}),
                  P(<<m2, m0, m1, 3>>, <<F2, F1, K, F3, F2, F1>>, {0, 3}),
                  P(<<m0, 1, m1, 3>>, <<K, F3, F2, F3, K, F1>>, {0, 1}),
                  P(<<m1, 1, 2, 3>>, <<F3, K, F1, K, K, K>>, {2}) >>
           C  == <<{0, 4, 5, 6}, {6, 4, 5, 3}, {4, 1, 5, 3}, {5, 1, 2, 3}>>
<1>1. num[3] < num[1] /\ ~(num[1] < num[3]) /\ num[3] < num[2] /\ ~(num[2] < num[3]) /\ num[1] < num[2] /\ ~(num[2] < num[1])
  BY DEF Ordered, Local
<1>2. First(c, v, 3, 1) /\ ~First(c, v, 1, 3) /\ First(c, v, 3, 2) /\ ~First(c, v, 2, 3) /\ First(c, v, 1, 2) /\ ~First(c, v, 2, 1)
  BY DEF Ordered, Local
<1>3. split3cone(c, v) = ps
  <2>1. ConeFrom3(c, v) = << P(<<m2, m0, m1, 3>>, <<F2, F1, K, F3, F2, F1>>, {0, 3}),
                          P(<<m0, 1, m1, 3>>, <<K, F3, F2, F3, K, F1>>, {0, 1}),
                          P(<<m1, 1, 2, 3>>, <<F3, K, F1, K, K, K>>, {2}) >>
    BY <1>2, Row12 DEF ConeFrom3
  <2>2. split3cone(c, v) = << P(<<0, m0, m1, m2>>, <<K, K, K, F3, F2, F1>>, {0}) >> \o ConeFrom3(c, v)
    BY <1>2 DEF split3cone
  <2> QED
    BY <2>1, <2>2, Row13
<1>4. /\ Sided(ps[1], {0}, {4, 5, 6}, {0, 5, 6}, {0, 4, 6}, {0, 4, 5})
      /\ Sided(ps[2], {0, 3}, {4, 5, 3}, {6, 5, 3}, {6, 4, 3}, {6, 4, 5})
      /\ Sided(ps[3], {0, 1}, {1, 5, 3}, {4, 5, 3}, {4, 1, 3}, {4, 1, 5})
      /\ Sided(ps[4], {2}, {1, 2, 3}, {5, 2, 3}, {5, 1, 3}, {5, 1, 2})
  BY Trios DEF P, Sided, m0, m1, m2, m3, m4, m5
<1>5. DOMAIN ps = 1..4 /\ \A i \in 1..4 : VerticesOf(ps[i]) = C[i]
  BY DEF P, VerticesOf, m0, m1, m2, m3, m4, m5
<1>6. /\ CutOf(0, {0, 1, 2}, num) = {{1, 2, 3}}
      /\ CutOf(1, {0, 1, 2}, num) = {{0, 6, 5}, {3, 6, 5}, {3, 2, 5}}
      /\ CutOf(2, {0, 1, 2}, num) = {{0, 6, 4}, {3, 6, 4}, {3, 1, 4}}
      /\ CutOf(3, {0, 1, 2}, num) = {{0, 4, 5}, {1, 4, 5}, {1, 2, 5}}
  BY <1>1 DEF CutOf, CutSet, OneCut, TwoCut, ThreeCut, m0
<1>7. \A i, j \in 1..4 : C[i] \subseteq C[j] => i = j
  OBVIOUS
<1> HIDE DEF ps
<1>8. /\ Share(ps, Trio(ps[1], 0), 1, 2) /\ Share(ps, Trio(ps[1], 1), 1, 1)
      /\ Share(ps, Trio(ps[1], 2), 1, 1) /\ Share(ps, Trio(ps[1], 3), 1, 1)
      /\ Share(ps, Trio(ps[2], 0), 2, 3) /\ Share(ps, Trio(ps[2], 1), 2, 2)
      /\ Share(ps, Trio(ps[2], 2), 2, 2) /\ Share(ps, Trio(ps[2], 3), 2, 1)
      /\ Share(ps, Trio(ps[3], 0), 3, 4) /\ Share(ps, Trio(ps[3], 1), 3, 2)
      /\ Share(ps, Trio(ps[3], 2), 3, 3) /\ Share(ps, Trio(ps[3], 3), 3, 3)
      /\ Share(ps, Trio(ps[4], 0), 4, 4) /\ Share(ps, Trio(ps[4], 1), 4, 4)
      /\ Share(ps, Trio(ps[4], 2), 4, 3) /\ Share(ps, Trio(ps[4], 3), 4, 4)
  BY <1>4, <1>5 DEF Share, Sided
<1> HIDE DEF C
<1>9. \A i \in DOMAIN ps, f \in Local : Met(ps, i, f)
  <2>1. /\ \A f \in Local : Met(ps, 1, f)
        /\ \A f \in Local : Met(ps, 2, f)
        /\ \A f \in Local : Met(ps, 3, f)
        /\ \A f \in Local : Met(ps, 4, f)
    BY <1>4, <1>5, <1>8 DEF Met, Local, Sided
  <2>2. \A i \in DOMAIN ps : i = 1 \/ i = 2 \/ i = 3 \/ i = 4
    BY <1>5
  <2> QED
    BY <2>1, <2>2
<1>10. /\ {1, 2, 3} = Trio(ps[4], 0) /\ {0, 6, 5} = Trio(ps[1], 1) /\ {3, 6, 5} = Trio(ps[2], 1)
      /\ {3, 2, 5} = Trio(ps[4], 1) /\ {0, 6, 4} = Trio(ps[1], 2) /\ {3, 6, 4} = Trio(ps[2], 2)
      /\ {3, 1, 4} = Trio(ps[3], 2) /\ {0, 4, 5} = Trio(ps[1], 3) /\ {1, 4, 5} = Trio(ps[3], 3)
      /\ {1, 2, 5} = Trio(ps[4], 3)
  BY <1>4 DEF Sided
<1>11. /\ CutOf(0, {0, 1, 2}, num) = {Trio(ps[4], 0)}
      /\ CutOf(1, {0, 1, 2}, num) = {Trio(ps[1], 1), Trio(ps[2], 1), Trio(ps[4], 1)}
      /\ CutOf(2, {0, 1, 2}, num) = {Trio(ps[1], 2), Trio(ps[2], 2), Trio(ps[3], 2)}
      /\ CutOf(3, {0, 1, 2}, num) = {Trio(ps[1], 3), Trio(ps[3], 3), Trio(ps[4], 3)}
  BY <1>6, <1>10
<1>12. /\ {i \in DOMAIN ps : 0 \notin ps[i].reset} = {4}
      /\ {i \in DOMAIN ps : 1 \notin ps[i].reset} = {1, 2, 4}
      /\ {i \in DOMAIN ps : 2 \notin ps[i].reset} = {1, 2, 3}
      /\ {i \in DOMAIN ps : 3 \notin ps[i].reset} = {1, 3, 4}
  BY <1>4, <1>5 DEF Sided
<1>13. \A f \in Local : Covers(ps, f, {0, 1, 2}, num)
  BY <1>11, <1>12 DEF Covers, Local
<1> QED
  BY <1>3, <1>5, <1>7, <1>9, <1>13 DEF Fits, ps

(* The pieces of cone3_21.                                                 *)
LEMMA cone3_21_fits ==
  ASSUME NEW c, NEW v, NEW num, Ordered(c, v, num),
         num[3] < num[1], num[3] < num[2], num[2] < num[1]
  PROVE  Fits(split3cone(c, v), {0, 1, 2}, num)
<1> DEFINE ps == << P(<<0, m0, m1, m2>>, <<K, K, K, F3, F2, F1>>, {0}),
                  P(<<m2, m0, m1, 3>>, <<F2, F1, K, F3, F2, F1>>, {0, 3}),
                  P(<<m1, m0, 2, 3>>, <<F3, K, F1, F3, F2, K>>, {0, 2}),
                  P(<<m0, 1, 2, 3>>, <<K, F3, F2, K, K, K>>, {1}) >>
           C  == <<{0, 4, 5, 6}, {6, 4, 5, 3}, {5, 4, 2, 3}, {4, 1, 2, 3}>>
<1>1. num[3] < num[1] /\ ~(num[1] < num[3]) /\ num[3] < num[2] /\ ~(num[2] < num[3]) /\ num[2] < num[1] /\ ~(num[1] < num[2])
  BY DEF Ordered, Local
<1>2. First(c, v, 3, 1) /\ ~First(c, v, 1, 3) /\ First(c, v, 3, 2) /\ ~First(c, v, 2, 3) /\ First(c, v, 2, 1) /\ ~First(c, v, 1, 2)
  BY DEF Ordered, Local
<1>3. split3cone(c, v) = ps
  <2>1. ConeFrom3(c, v) = << P(<<m2, m0, m1, 3>>, <<F2, F1, K, F3, F2, F1>>, {0, 3}),
                          P(<<m1, m0, 2, 3>>, <<F3, K, F1, F3, F2, K>>, {0, 2}),
                          P(<<m0, 1, 2, 3>>, <<K, F3, F2, K, K, K>>, {1}) >>
    BY <1>2, Row12 DEF ConeFrom3
  <2>2. split3cone(c, v) = << P(<<0, m0, m1, m2>>, <<K, K, K, F3, F2, F1>>, {0}) >> \o ConeFrom3(c, v)
    BY <1>2 DEF split3cone
  <2> QED
    BY <2>1, <2>2, Row13
<1>4. /\ Sided(ps[1], {0}, {4, 5, 6}, {0, 5, 6}, {0, 4, 6}, {0, 4, 5})
      /\ Sided(ps[2], {0, 3}, {4, 5, 3}, {6, 5, 3}, {6, 4, 3}, {6, 4, 5})
      /\ Sided(ps[3], {0, 2}, {4, 2, 3}, {5, 2, 3}, {5, 4, 3}, {5, 4, 2})
      /\ Sided(ps[4], {1}, {1, 2, 3}, {4, 2, 3}, {4, 1, 3}, {4, 1, 2})
  BY Trios DEF P, Sided, m0, m1, m2, m3, m4, m5
<1>5. DOMAIN ps = 1..4 /\ \A i \in 1..4 : VerticesOf(ps[i]) = C[i]
  BY DEF P, VerticesOf, m0, m1, m2, m3, m4, m5
<1>6. /\ CutOf(0, {0, 1, 2}, num) = {{1, 2, 3}}
      /\ CutOf(1, {0, 1, 2}, num) = {{0, 6, 5}, {3, 6, 5}, {3, 2, 5}}
      /\ CutOf(2, {0, 1, 2}, num) = {{0, 6, 4}, {3, 6, 4}, {3, 1, 4}}
      /\ CutOf(3, {0, 1, 2}, num) = {{0, 5, 4}, {2, 5, 4}, {2, 1, 4}}
  BY <1>1 DEF CutOf, CutSet, OneCut, TwoCut, ThreeCut, m0
<1>7. \A i, j \in 1..4 : C[i] \subseteq C[j] => i = j
  OBVIOUS
<1> HIDE DEF ps
<1>8. /\ Share(ps, Trio(ps[1], 0), 1, 2) /\ Share(ps, Trio(ps[1], 1), 1, 1)
      /\ Share(ps, Trio(ps[1], 2), 1, 1) /\ Share(ps, Trio(ps[1], 3), 1, 1)
      /\ Share(ps, Trio(ps[2], 0), 2, 3) /\ Share(ps, Trio(ps[2], 1), 2, 2)
      /\ Share(ps, Trio(ps[2], 2), 2, 2) /\ Share(ps, Trio(ps[2], 3), 2, 1)
      /\ Share(ps, Trio(ps[3], 0), 3, 4) /\ Share(ps, Trio(ps[3], 1), 3, 3)
      /\ Share(ps, Trio(ps[3], 2), 3, 2) /\ Share(ps, Trio(ps[3], 3), 3, 3)
      /\ Share(ps, Trio(ps[4], 0), 4, 4) /\ Share(ps, Trio(ps[4], 1), 4, 3)
      /\ Share(ps, Trio(ps[4], 2), 4, 4) /\ Share(ps, Trio(ps[4], 3), 4, 4)
  BY <1>4, <1>5 DEF Share, Sided
<1> HIDE DEF C
<1>9. \A i \in DOMAIN ps, f \in Local : Met(ps, i, f)
  <2>1. /\ \A f \in Local : Met(ps, 1, f)
        /\ \A f \in Local : Met(ps, 2, f)
        /\ \A f \in Local : Met(ps, 3, f)
        /\ \A f \in Local : Met(ps, 4, f)
    BY <1>4, <1>5, <1>8 DEF Met, Local, Sided
  <2>2. \A i \in DOMAIN ps : i = 1 \/ i = 2 \/ i = 3 \/ i = 4
    BY <1>5
  <2> QED
    BY <2>1, <2>2
<1>10. /\ {1, 2, 3} = Trio(ps[4], 0) /\ {0, 6, 5} = Trio(ps[1], 1) /\ {3, 6, 5} = Trio(ps[2], 1)
      /\ {3, 2, 5} = Trio(ps[3], 1) /\ {0, 6, 4} = Trio(ps[1], 2) /\ {3, 6, 4} = Trio(ps[2], 2)
      /\ {3, 1, 4} = Trio(ps[4], 2) /\ {0, 5, 4} = Trio(ps[1], 3) /\ {2, 5, 4} = Trio(ps[3], 3)
      /\ {2, 1, 4} = Trio(ps[4], 3)
  BY <1>4 DEF Sided
<1>11. /\ CutOf(0, {0, 1, 2}, num) = {Trio(ps[4], 0)}
      /\ CutOf(1, {0, 1, 2}, num) = {Trio(ps[1], 1), Trio(ps[2], 1), Trio(ps[3], 1)}
      /\ CutOf(2, {0, 1, 2}, num) = {Trio(ps[1], 2), Trio(ps[2], 2), Trio(ps[4], 2)}
      /\ CutOf(3, {0, 1, 2}, num) = {Trio(ps[1], 3), Trio(ps[3], 3), Trio(ps[4], 3)}
  BY <1>6, <1>10
<1>12. /\ {i \in DOMAIN ps : 0 \notin ps[i].reset} = {4}
      /\ {i \in DOMAIN ps : 1 \notin ps[i].reset} = {1, 2, 3}
      /\ {i \in DOMAIN ps : 2 \notin ps[i].reset} = {1, 2, 4}
      /\ {i \in DOMAIN ps : 3 \notin ps[i].reset} = {1, 3, 4}
  BY <1>4, <1>5 DEF Sided
<1>13. \A f \in Local : Covers(ps, f, {0, 1, 2}, num)
  BY <1>11, <1>12 DEF Covers, Local
<1> QED
  BY <1>3, <1>5, <1>7, <1>9, <1>13 DEF Fits, ps

(* The pieces of cone2_31.                                                 *)
LEMMA cone2_31_fits ==
  ASSUME NEW c, NEW v, NEW num, Ordered(c, v, num),
         num[2] < num[1], num[2] < num[3], num[3] < num[1]
  PROVE  Fits(split3cone(c, v), {0, 1, 2}, num)
<1> DEFINE ps == << P(<<0, m0, m1, m2>>, <<K, K, K, F3, F2, F1>>, {0}),
                  P(<<m1, m0, 2, m2>>, <<F3, K, F1, F3, F2, F1>>, {0, 2}),
                  P(<<m2, m0, 2, 3>>, <<F2, F1, K, F3, F2, K>>, {0, 3}),
                  P(<<m0, 1, 2, 3>>, <<K, F3, F2, K, K, K>>, {1}) >>
           C  == <<{0, 4, 5, 6}, {5, 4, 2, 6}, {6, 4, 2, 3}, {4, 1, 2, 3}>>
<1>1. num[2] < num[1] /\ ~(num[1] < num[2]) /\ num[2] < num[3] /\ ~(num[3] < num[2]) /\ num[3] < num[1] /\ ~(num[1] < num[3])
  BY DEF Ordered, Local
<1>2. First(c, v, 2, 1) /\ ~First(c, v, 1, 2) /\ First(c, v, 2, 3) /\ ~First(c, v, 3, 2) /\ First(c, v, 3, 1) /\ ~First(c, v, 1, 3)
  BY DEF Ordered, Local
<1>3. split3cone(c, v) = ps
  <2>1. ConeFrom2(c, v) = << P(<<m1, m0, 2, m2>>, <<F3, K, F1, F3, F2, F1>>, {0, 2}),
                          P(<<m2, m0, 2, 3>>, <<F2, F1, K, F3, F2, K>>, {0, 3}),
                          P(<<m0, 1, 2, 3>>, <<K, F3, F2, K, K, K>>, {1}) >>
    BY <1>2, Row12 DEF ConeFrom2
  <2>2. split3cone(c, v) = << P(<<0, m0, m1, m2>>, <<K, K, K, F3, F2, F1>>, {0}) >> \o ConeFrom2(c, v)
    BY <1>2 DEF split3cone
  <2> QED
    BY <2>1, <2>2, Row13
<1>4. /\ Sided(ps[1], {0}, {4, 5, 6}, {0, 5, 6}, {0, 4, 6}, {0, 4, 5})
      /\ Sided(ps[2], {0, 2}, {4, 2, 6}, {5, 2, 6}, {5, 4, 6}, {5, 4, 2})
      /\ Sided(ps[3], {0, 3}, {4, 2, 3}, {6, 2, 3}, {6, 4, 3}, {6, 4, 2})
      /\ Sided(ps[4], {1}, {1, 2, 3}, {4, 2, 3}, {4, 1, 3}, {4, 1, 2})
  BY Trios DEF P, Sided, m0, m1, m2, m3, m4, m5
<1>5. DOMAIN ps = 1..4 /\ \A i \in 1..4 : VerticesOf(ps[i]) = C[i]
  BY DEF P, VerticesOf, m0, m1, m2, m3, m4, m5
<1>6. /\ CutOf(0, {0, 1, 2}, num) = {{1, 2, 3}}
      /\ CutOf(1, {0, 1, 2}, num) = {{0, 5, 6}, {2, 5, 6}, {2, 3, 6}}
      /\ CutOf(2, {0, 1, 2}, num) = {{0, 6, 4}, {3, 6, 4}, {3, 1, 4}}
      /\ CutOf(3, {0, 1, 2}, num) = {{0, 5, 4}, {2, 5, 4}, {2, 1, 4}}
  BY <1>1 DEF CutOf, CutSet, OneCut, TwoCut, ThreeCut, m0
<1>7. \A i, j \in 1..4 : C[i] \subseteq C[j] => i = j
  OBVIOUS
<1> HIDE DEF ps
<1>8. /\ Share(ps, Trio(ps[1], 0), 1, 2) /\ Share(ps, Trio(ps[1], 1), 1, 1)
      /\ Share(ps, Trio(ps[1], 2), 1, 1) /\ Share(ps, Trio(ps[1], 3), 1, 1)
      /\ Share(ps, Trio(ps[2], 0), 2, 3) /\ Share(ps, Trio(ps[2], 1), 2, 2)
      /\ Share(ps, Trio(ps[2], 2), 2, 1) /\ Share(ps, Trio(ps[2], 3), 2, 2)
      /\ Share(ps, Trio(ps[3], 0), 3, 4) /\ Share(ps, Trio(ps[3], 1), 3, 3)
      /\ Share(ps, Trio(ps[3], 2), 3, 3) /\ Share(ps, Trio(ps[3], 3), 3, 2)
      /\ Share(ps, Trio(ps[4], 0), 4, 4) /\ Share(ps, Trio(ps[4], 1), 4, 3)
      /\ Share(ps, Trio(ps[4], 2), 4, 4) /\ Share(ps, Trio(ps[4], 3), 4, 4)
  BY <1>4, <1>5 DEF Share, Sided
<1> HIDE DEF C
<1>9. \A i \in DOMAIN ps, f \in Local : Met(ps, i, f)
  <2>1. /\ \A f \in Local : Met(ps, 1, f)
        /\ \A f \in Local : Met(ps, 2, f)
        /\ \A f \in Local : Met(ps, 3, f)
        /\ \A f \in Local : Met(ps, 4, f)
    BY <1>4, <1>5, <1>8 DEF Met, Local, Sided
  <2>2. \A i \in DOMAIN ps : i = 1 \/ i = 2 \/ i = 3 \/ i = 4
    BY <1>5
  <2> QED
    BY <2>1, <2>2
<1>10. /\ {1, 2, 3} = Trio(ps[4], 0) /\ {0, 5, 6} = Trio(ps[1], 1) /\ {2, 5, 6} = Trio(ps[2], 1)
      /\ {2, 3, 6} = Trio(ps[3], 1) /\ {0, 6, 4} = Trio(ps[1], 2) /\ {3, 6, 4} = Trio(ps[3], 2)
      /\ {3, 1, 4} = Trio(ps[4], 2) /\ {0, 5, 4} = Trio(ps[1], 3) /\ {2, 5, 4} = Trio(ps[2], 3)
      /\ {2, 1, 4} = Trio(ps[4], 3)
  BY <1>4 DEF Sided
<1>11. /\ CutOf(0, {0, 1, 2}, num) = {Trio(ps[4], 0)}
      /\ CutOf(1, {0, 1, 2}, num) = {Trio(ps[1], 1), Trio(ps[2], 1), Trio(ps[3], 1)}
      /\ CutOf(2, {0, 1, 2}, num) = {Trio(ps[1], 2), Trio(ps[3], 2), Trio(ps[4], 2)}
      /\ CutOf(3, {0, 1, 2}, num) = {Trio(ps[1], 3), Trio(ps[2], 3), Trio(ps[4], 3)}
  BY <1>6, <1>10
<1>12. /\ {i \in DOMAIN ps : 0 \notin ps[i].reset} = {4}
      /\ {i \in DOMAIN ps : 1 \notin ps[i].reset} = {1, 2, 3}
      /\ {i \in DOMAIN ps : 2 \notin ps[i].reset} = {1, 3, 4}
      /\ {i \in DOMAIN ps : 3 \notin ps[i].reset} = {1, 2, 4}
  BY <1>4, <1>5 DEF Sided
<1>13. \A f \in Local : Covers(ps, f, {0, 1, 2}, num)
  BY <1>11, <1>12 DEF Covers, Local
<1> QED
  BY <1>3, <1>5, <1>7, <1>9, <1>13 DEF Fits, ps

(* The pieces of cone2_13.                                                 *)
LEMMA cone2_13_fits ==
  ASSUME NEW c, NEW v, NEW num, Ordered(c, v, num),
         num[2] < num[1], num[2] < num[3], num[1] < num[3]
  PROVE  Fits(split3cone(c, v), {0, 1, 2}, num)
<1> DEFINE ps == << P(<<0, m0, m1, m2>>, <<K, K, K, F3, F2, F1>>, {0}),
                  P(<<m1, m0, 2, m2>>, <<F3, K, F1, F3, F2, F1>>, {0, 2}),
                  P(<<m0, 1, 2, m2>>, <<K, F3, F2, K, F2, F1>>, {0, 1}),
                  P(<<m2, 1, 2, 3>>, <<F2, F1, K, K, K, K>>, {3}) >>
           C  == <<{0, 4, 5, 6}, {5, 4, 2, 6}, {4, 1, 2, 6}, {6, 1, 2, 3}>>
<1>1. num[2] < num[1] /\ ~(num[1] < num[2]) /\ num[2] < num[3] /\ ~(num[3] < num[2]) /\ num[1] < num[3] /\ ~(num[3] < num[1])
  BY DEF Ordered, Local
<1>2. First(c, v, 2, 1) /\ ~First(c, v, 1, 2) /\ First(c, v, 2, 3) /\ ~First(c, v, 3, 2) /\ First(c, v, 1, 3) /\ ~First(c, v, 3, 1)
  BY DEF Ordered, Local
<1>3. split3cone(c, v) = ps
  <2>1. ConeFrom2(c, v) = << P(<<m1, m0, 2, m2>>, <<F3, K, F1, F3, F2, F1>>, {0, 2}),
                          P(<<m0, 1, 2, m2>>, <<K, F3, F2, K, F2, F1>>, {0, 1}),
                          P(<<m2, 1, 2, 3>>, <<F2, F1, K, K, K, K>>, {3}) >>
    BY <1>2, Row12 DEF ConeFrom2
  <2>2. split3cone(c, v) = << P(<<0, m0, m1, m2>>, <<K, K, K, F3, F2, F1>>, {0}) >> \o ConeFrom2(c, v)
    BY <1>2 DEF split3cone
  <2> QED
    BY <2>1, <2>2, Row13
<1>4. /\ Sided(ps[1], {0}, {4, 5, 6}, {0, 5, 6}, {0, 4, 6}, {0, 4, 5})
      /\ Sided(ps[2], {0, 2}, {4, 2, 6}, {5, 2, 6}, {5, 4, 6}, {5, 4, 2})
      /\ Sided(ps[3], {0, 1}, {1, 2, 6}, {4, 2, 6}, {4, 1, 6}, {4, 1, 2})
      /\ Sided(ps[4], {3}, {1, 2, 3}, {6, 2, 3}, {6, 1, 3}, {6, 1, 2})
  BY Trios DEF P, Sided, m0, m1, m2, m3, m4, m5
<1>5. DOMAIN ps = 1..4 /\ \A i \in 1..4 : VerticesOf(ps[i]) = C[i]
  BY DEF P, VerticesOf, m0, m1, m2, m3, m4, m5
<1>6. /\ CutOf(0, {0, 1, 2}, num) = {{1, 2, 3}}
      /\ CutOf(1, {0, 1, 2}, num) = {{0, 5, 6}, {2, 5, 6}, {2, 3, 6}}
      /\ CutOf(2, {0, 1, 2}, num) = {{0, 4, 6}, {1, 4, 6}, {1, 3, 6}}
      /\ CutOf(3, {0, 1, 2}, num) = {{0, 5, 4}, {2, 5, 4}, {2, 1, 4}}
  BY <1>1 DEF CutOf, CutSet, OneCut, TwoCut, ThreeCut, m0
<1>7. \A i, j \in 1..4 : C[i] \subseteq C[j] => i = j
  OBVIOUS
<1> HIDE DEF ps
<1>8. /\ Share(ps, Trio(ps[1], 0), 1, 2) /\ Share(ps, Trio(ps[1], 1), 1, 1)
      /\ Share(ps, Trio(ps[1], 2), 1, 1) /\ Share(ps, Trio(ps[1], 3), 1, 1)
      /\ Share(ps, Trio(ps[2], 0), 2, 3) /\ Share(ps, Trio(ps[2], 1), 2, 2)
      /\ Share(ps, Trio(ps[2], 2), 2, 1) /\ Share(ps, Trio(ps[2], 3), 2, 2)
      /\ Share(ps, Trio(ps[3], 0), 3, 4) /\ Share(ps, Trio(ps[3], 1), 3, 2)
      /\ Share(ps, Trio(ps[3], 2), 3, 3) /\ Share(ps, Trio(ps[3], 3), 3, 3)
      /\ Share(ps, Trio(ps[4], 0), 4, 4) /\ Share(ps, Trio(ps[4], 1), 4, 4)
      /\ Share(ps, Trio(ps[4], 2), 4, 4) /\ Share(ps, Trio(ps[4], 3), 4, 3)
  BY <1>4, <1>5 DEF Share, Sided
<1> HIDE DEF C
<1>9. \A i \in DOMAIN ps, f \in Local : Met(ps, i, f)
  <2>1. /\ \A f \in Local : Met(ps, 1, f)
        /\ \A f \in Local : Met(ps, 2, f)
        /\ \A f \in Local : Met(ps, 3, f)
        /\ \A f \in Local : Met(ps, 4, f)
    BY <1>4, <1>5, <1>8 DEF Met, Local, Sided
  <2>2. \A i \in DOMAIN ps : i = 1 \/ i = 2 \/ i = 3 \/ i = 4
    BY <1>5
  <2> QED
    BY <2>1, <2>2
<1>10. /\ {1, 2, 3} = Trio(ps[4], 0) /\ {0, 5, 6} = Trio(ps[1], 1) /\ {2, 5, 6} = Trio(ps[2], 1)
      /\ {2, 3, 6} = Trio(ps[4], 1) /\ {0, 4, 6} = Trio(ps[1], 2) /\ {1, 4, 6} = Trio(ps[3], 2)
      /\ {1, 3, 6} = Trio(ps[4], 2) /\ {0, 5, 4} = Trio(ps[1], 3) /\ {2, 5, 4} = Trio(ps[2], 3)
      /\ {2, 1, 4} = Trio(ps[3], 3)
  BY <1>4 DEF Sided
<1>11. /\ CutOf(0, {0, 1, 2}, num) = {Trio(ps[4], 0)}
      /\ CutOf(1, {0, 1, 2}, num) = {Trio(ps[1], 1), Trio(ps[2], 1), Trio(ps[4], 1)}
      /\ CutOf(2, {0, 1, 2}, num) = {Trio(ps[1], 2), Trio(ps[3], 2), Trio(ps[4], 2)}
      /\ CutOf(3, {0, 1, 2}, num) = {Trio(ps[1], 3), Trio(ps[2], 3), Trio(ps[3], 3)}
  BY <1>6, <1>10
<1>12. /\ {i \in DOMAIN ps : 0 \notin ps[i].reset} = {4}
      /\ {i \in DOMAIN ps : 1 \notin ps[i].reset} = {1, 2, 4}
      /\ {i \in DOMAIN ps : 2 \notin ps[i].reset} = {1, 3, 4}
      /\ {i \in DOMAIN ps : 3 \notin ps[i].reset} = {1, 2, 3}
  BY <1>4, <1>5 DEF Sided
<1>13. \A f \in Local : Covers(ps, f, {0, 1, 2}, num)
  BY <1>11, <1>12 DEF Covers, Local
<1> QED
  BY <1>3, <1>5, <1>7, <1>9, <1>13 DEF Fits, ps

(* The pieces of cone1_23.                                                 *)
LEMMA cone1_23_fits ==
  ASSUME NEW c, NEW v, NEW num, Ordered(c, v, num),
         num[1] < num[2], num[1] < num[3], num[2] < num[3]
  PROVE  Fits(split3cone(c, v), {0, 1, 2}, num)
<1> DEFINE ps == << P(<<0, m0, m1, m2>>, <<K, K, K, F3, F2, F1>>, {0}),
                  P(<<m0, 1, m1, m2>>, <<K, F3, F2, F3, F2, F1>>, {0, 1}),
                  P(<<m1, 1, 2, m2>>, <<F3, K, F1, K, F2, F1>>, {0, 2}),
                  P(<<m2, 1, 2, 3>>, <<F2, F1, K, K, K, K>>, {3}) >>
           C  == <<{0, 4, 5, 6}, {4, 1, 5, 6}, {5, 1, 2, 6}, {6, 1, 2, 3}>>
<1>1. num[1] < num[2] /\ ~(num[2] < num[1]) /\ num[1] < num[3] /\ ~(num[3] < num[1]) /\ num[2] < num[3] /\ ~(num[3] < num[2])
  BY DEF Ordered, Local
<1>2. First(c, v, 1, 2) /\ ~First(c, v, 2, 1) /\ First(c, v, 1, 3) /\ ~First(c, v, 3, 1) /\ First(c, v, 2, 3) /\ ~First(c, v, 3, 2)
  BY DEF Ordered, Local
<1>3. split3cone(c, v) = ps
  <2>1. ConeFrom1(c, v) = << P(<<m0, 1, m1, m2>>, <<K, F3, F2, F3, F2, F1>>, {0, 1}),
                          P(<<m1, 1, 2, m2>>, <<F3, K, F1, K, F2, F1>>, {0, 2}),
                          P(<<m2, 1, 2, 3>>, <<F2, F1, K, K, K, K>>, {3}) >>
    BY <1>2, Row12 DEF ConeFrom1
  <2>2. split3cone(c, v) = << P(<<0, m0, m1, m2>>, <<K, K, K, F3, F2, F1>>, {0}) >> \o ConeFrom1(c, v)
    BY <1>2 DEF split3cone
  <2> QED
    BY <2>1, <2>2, Row13
<1>4. /\ Sided(ps[1], {0}, {4, 5, 6}, {0, 5, 6}, {0, 4, 6}, {0, 4, 5})
      /\ Sided(ps[2], {0, 1}, {1, 5, 6}, {4, 5, 6}, {4, 1, 6}, {4, 1, 5})
      /\ Sided(ps[3], {0, 2}, {1, 2, 6}, {5, 2, 6}, {5, 1, 6}, {5, 1, 2})
      /\ Sided(ps[4], {3}, {1, 2, 3}, {6, 2, 3}, {6, 1, 3}, {6, 1, 2})
  BY Trios DEF P, Sided, m0, m1, m2, m3, m4, m5
<1>5. DOMAIN ps = 1..4 /\ \A i \in 1..4 : VerticesOf(ps[i]) = C[i]
  BY DEF P, VerticesOf, m0, m1, m2, m3, m4, m5
<1>6. /\ CutOf(0, {0, 1, 2}, num) = {{1, 2, 3}}
      /\ CutOf(1, {0, 1, 2}, num) = {{0, 5, 6}, {2, 5, 6}, {2, 3, 6}}
      /\ CutOf(2, {0, 1, 2}, num) = {{0, 4, 6}, {1, 4, 6}, {1, 3, 6}}
      /\ CutOf(3, {0, 1, 2}, num) = {{0, 4, 5}, {1, 4, 5}, {1, 2, 5}}
  BY <1>1 DEF CutOf, CutSet, OneCut, TwoCut, ThreeCut, m0
<1>7. \A i, j \in 1..4 : C[i] \subseteq C[j] => i = j
  OBVIOUS
<1> HIDE DEF ps
<1>8. /\ Share(ps, Trio(ps[1], 0), 1, 2) /\ Share(ps, Trio(ps[1], 1), 1, 1)
      /\ Share(ps, Trio(ps[1], 2), 1, 1) /\ Share(ps, Trio(ps[1], 3), 1, 1)
      /\ Share(ps, Trio(ps[2], 0), 2, 3) /\ Share(ps, Trio(ps[2], 1), 2, 1)
      /\ Share(ps, Trio(ps[2], 2), 2, 2) /\ Share(ps, Trio(ps[2], 3), 2, 2)
      /\ Share(ps, Trio(ps[3], 0), 3, 4) /\ Share(ps, Trio(ps[3], 1), 3, 3)
      /\ Share(ps, Trio(ps[3], 2), 3, 2) /\ Share(ps, Trio(ps[3], 3), 3, 3)
      /\ Share(ps, Trio(ps[4], 0), 4, 4) /\ Share(ps, Trio(ps[4], 1), 4, 4)
      /\ Share(ps, Trio(ps[4], 2), 4, 4) /\ Share(ps, Trio(ps[4], 3), 4, 3)
  BY <1>4, <1>5 DEF Share, Sided
<1> HIDE DEF C
<1>9. \A i \in DOMAIN ps, f \in Local : Met(ps, i, f)
  <2>1. /\ \A f \in Local : Met(ps, 1, f)
        /\ \A f \in Local : Met(ps, 2, f)
        /\ \A f \in Local : Met(ps, 3, f)
        /\ \A f \in Local : Met(ps, 4, f)
    BY <1>4, <1>5, <1>8 DEF Met, Local, Sided
  <2>2. \A i \in DOMAIN ps : i = 1 \/ i = 2 \/ i = 3 \/ i = 4
    BY <1>5
  <2> QED
    BY <2>1, <2>2
<1>10. /\ {1, 2, 3} = Trio(ps[4], 0) /\ {0, 5, 6} = Trio(ps[1], 1) /\ {2, 5, 6} = Trio(ps[3], 1)
      /\ {2, 3, 6} = Trio(ps[4], 1) /\ {0, 4, 6} = Trio(ps[1], 2) /\ {1, 4, 6} = Trio(ps[2], 2)
      /\ {1, 3, 6} = Trio(ps[4], 2) /\ {0, 4, 5} = Trio(ps[1], 3) /\ {1, 4, 5} = Trio(ps[2], 3)
      /\ {1, 2, 5} = Trio(ps[3], 3)
  BY <1>4 DEF Sided
<1>11. /\ CutOf(0, {0, 1, 2}, num) = {Trio(ps[4], 0)}
      /\ CutOf(1, {0, 1, 2}, num) = {Trio(ps[1], 1), Trio(ps[3], 1), Trio(ps[4], 1)}
      /\ CutOf(2, {0, 1, 2}, num) = {Trio(ps[1], 2), Trio(ps[2], 2), Trio(ps[4], 2)}
      /\ CutOf(3, {0, 1, 2}, num) = {Trio(ps[1], 3), Trio(ps[2], 3), Trio(ps[3], 3)}
  BY <1>6, <1>10
<1>12. /\ {i \in DOMAIN ps : 0 \notin ps[i].reset} = {4}
      /\ {i \in DOMAIN ps : 1 \notin ps[i].reset} = {1, 3, 4}
      /\ {i \in DOMAIN ps : 2 \notin ps[i].reset} = {1, 2, 4}
      /\ {i \in DOMAIN ps : 3 \notin ps[i].reset} = {1, 2, 3}
  BY <1>4, <1>5 DEF Sided
<1>13. \A f \in Local : Covers(ps, f, {0, 1, 2}, num)
  BY <1>11, <1>12 DEF Covers, Local
<1> QED
  BY <1>3, <1>5, <1>7, <1>9, <1>13 DEF Fits, ps

(* The pieces of cone1_32.                                                 *)
LEMMA cone1_32_fits ==
  ASSUME NEW c, NEW v, NEW num, Ordered(c, v, num),
         num[1] < num[2], num[1] < num[3], num[3] < num[2]
  PROVE  Fits(split3cone(c, v), {0, 1, 2}, num)
<1> DEFINE ps == << P(<<0, m0, m1, m2>>, <<K, K, K, F3, F2, F1>>, {0}),
                  P(<<m0, 1, m1, m2>>, <<K, F3, F2, F3, F2, F1>>, {0, 1}),
                  P(<<m2, 1, m1, 3>>, <<F2, F1, K, F3, K, F1>>, {0, 3}),
                  P(<<m1, 1, 2, 3>>, <<F3, K, F1, K, K, K>>, {2}) >>
           C  == <<{0, 4, 5, 6}, {4, 1, 5, 6}, {6, 1, 5, 3}, {5, 1, 2, 3}>>
<1>1. num[1] < num[2] /\ ~(num[2] < num[1]) /\ num[1] < num[3] /\ ~(num[3] < num[1]) /\ num[3] < num[2] /\ ~(num[2] < num[3])
  BY DEF Ordered, Local
<1>2. First(c, v, 1, 2) /\ ~First(c, v, 2, 1) /\ First(c, v, 1, 3) /\ ~First(c, v, 3, 1) /\ First(c, v, 3, 2) /\ ~First(c, v, 2, 3)
  BY DEF Ordered, Local
<1>3. split3cone(c, v) = ps
  <2>1. ConeFrom1(c, v) = << P(<<m0, 1, m1, m2>>, <<K, F3, F2, F3, F2, F1>>, {0, 1}),
                          P(<<m2, 1, m1, 3>>, <<F2, F1, K, F3, K, F1>>, {0, 3}),
                          P(<<m1, 1, 2, 3>>, <<F3, K, F1, K, K, K>>, {2}) >>
    BY <1>2, Row12 DEF ConeFrom1
  <2>2. split3cone(c, v) = << P(<<0, m0, m1, m2>>, <<K, K, K, F3, F2, F1>>, {0}) >> \o ConeFrom1(c, v)
    BY <1>2 DEF split3cone
  <2> QED
    BY <2>1, <2>2, Row13
<1>4. /\ Sided(ps[1], {0}, {4, 5, 6}, {0, 5, 6}, {0, 4, 6}, {0, 4, 5})
      /\ Sided(ps[2], {0, 1}, {1, 5, 6}, {4, 5, 6}, {4, 1, 6}, {4, 1, 5})
      /\ Sided(ps[3], {0, 3}, {1, 5, 3}, {6, 5, 3}, {6, 1, 3}, {6, 1, 5})
      /\ Sided(ps[4], {2}, {1, 2, 3}, {5, 2, 3}, {5, 1, 3}, {5, 1, 2})
  BY Trios DEF P, Sided, m0, m1, m2, m3, m4, m5
<1>5. DOMAIN ps = 1..4 /\ \A i \in 1..4 : VerticesOf(ps[i]) = C[i]
  BY DEF P, VerticesOf, m0, m1, m2, m3, m4, m5
<1>6. /\ CutOf(0, {0, 1, 2}, num) = {{1, 2, 3}}
      /\ CutOf(1, {0, 1, 2}, num) = {{0, 6, 5}, {3, 6, 5}, {3, 2, 5}}
      /\ CutOf(2, {0, 1, 2}, num) = {{0, 4, 6}, {1, 4, 6}, {1, 3, 6}}
      /\ CutOf(3, {0, 1, 2}, num) = {{0, 4, 5}, {1, 4, 5}, {1, 2, 5}}
  BY <1>1 DEF CutOf, CutSet, OneCut, TwoCut, ThreeCut, m0
<1>7. \A i, j \in 1..4 : C[i] \subseteq C[j] => i = j
  OBVIOUS
<1> HIDE DEF ps
<1>8. /\ Share(ps, Trio(ps[1], 0), 1, 2) /\ Share(ps, Trio(ps[1], 1), 1, 1)
      /\ Share(ps, Trio(ps[1], 2), 1, 1) /\ Share(ps, Trio(ps[1], 3), 1, 1)
      /\ Share(ps, Trio(ps[2], 0), 2, 3) /\ Share(ps, Trio(ps[2], 1), 2, 1)
      /\ Share(ps, Trio(ps[2], 2), 2, 2) /\ Share(ps, Trio(ps[2], 3), 2, 2)
      /\ Share(ps, Trio(ps[3], 0), 3, 4) /\ Share(ps, Trio(ps[3], 1), 3, 3)
      /\ Share(ps, Trio(ps[3], 2), 3, 3) /\ Share(ps, Trio(ps[3], 3), 3, 2)
      /\ Share(ps, Trio(ps[4], 0), 4, 4) /\ Share(ps, Trio(ps[4], 1), 4, 4)
      /\ Share(ps, Trio(ps[4], 2), 4, 3) /\ Share(ps, Trio(ps[4], 3), 4, 4)
  BY <1>4, <1>5 DEF Share, Sided
<1> HIDE DEF C
<1>9. \A i \in DOMAIN ps, f \in Local : Met(ps, i, f)
  <2>1. /\ \A f \in Local : Met(ps, 1, f)
        /\ \A f \in Local : Met(ps, 2, f)
        /\ \A f \in Local : Met(ps, 3, f)
        /\ \A f \in Local : Met(ps, 4, f)
    BY <1>4, <1>5, <1>8 DEF Met, Local, Sided
  <2>2. \A i \in DOMAIN ps : i = 1 \/ i = 2 \/ i = 3 \/ i = 4
    BY <1>5
  <2> QED
    BY <2>1, <2>2
<1>10. /\ {1, 2, 3} = Trio(ps[4], 0) /\ {0, 6, 5} = Trio(ps[1], 1) /\ {3, 6, 5} = Trio(ps[3], 1)
      /\ {3, 2, 5} = Trio(ps[4], 1) /\ {0, 4, 6} = Trio(ps[1], 2) /\ {1, 4, 6} = Trio(ps[2], 2)
      /\ {1, 3, 6} = Trio(ps[3], 2) /\ {0, 4, 5} = Trio(ps[1], 3) /\ {1, 4, 5} = Trio(ps[2], 3)
      /\ {1, 2, 5} = Trio(ps[4], 3)
  BY <1>4 DEF Sided
<1>11. /\ CutOf(0, {0, 1, 2}, num) = {Trio(ps[4], 0)}
      /\ CutOf(1, {0, 1, 2}, num) = {Trio(ps[1], 1), Trio(ps[3], 1), Trio(ps[4], 1)}
      /\ CutOf(2, {0, 1, 2}, num) = {Trio(ps[1], 2), Trio(ps[2], 2), Trio(ps[3], 2)}
      /\ CutOf(3, {0, 1, 2}, num) = {Trio(ps[1], 3), Trio(ps[2], 3), Trio(ps[4], 3)}
  BY <1>6, <1>10
<1>12. /\ {i \in DOMAIN ps : 0 \notin ps[i].reset} = {4}
      /\ {i \in DOMAIN ps : 1 \notin ps[i].reset} = {1, 3, 4}
      /\ {i \in DOMAIN ps : 2 \notin ps[i].reset} = {1, 2, 3}
      /\ {i \in DOMAIN ps : 3 \notin ps[i].reset} = {1, 2, 4}
  BY <1>4, <1>5 DEF Sided
<1>13. \A f \in Local : Covers(ps, f, {0, 1, 2}, num)
  BY <1>11, <1>12 DEF Covers, Local
<1> QED
  BY <1>3, <1>5, <1>7, <1>9, <1>13 DEF Fits, ps

(* The pieces of Op20.                                                     *)
LEMMA Op20_fits ==
  ASSUME NEW num, num[2] < num[1], ~(num[1] < num[2]), num[0] < num[3], ~(num[3] < num[0])
  PROVE  Fits(Op20, {0, 1, 5}, num)
<1> DEFINE ps == Op20
           C  == <<{5, 4, 2, 9}, {4, 1, 2, 9}, {4, 1, 9, 3}, {0, 4, 5, 9},
                  {0, 4, 9, 3}>>
<1>1. /\ Sided(ps[1], {0, 2}, {4, 2, 9}, {5, 2, 9}, {5, 4, 9}, {5, 4, 2})
      /\ Sided(ps[2], {1, 2}, {1, 2, 9}, {4, 2, 9}, {4, 1, 9}, {4, 1, 2})
      /\ Sided(ps[3], {1, 3}, {1, 9, 3}, {4, 9, 3}, {4, 1, 3}, {4, 1, 9})
      /\ Sided(ps[4], {0, 2}, {4, 5, 9}, {0, 5, 9}, {0, 4, 9}, {0, 4, 5})
      /\ Sided(ps[5], {0, 3}, {4, 9, 3}, {0, 9, 3}, {0, 4, 3}, {0, 4, 9})
  BY Trios DEF Op20, P, Sided, m0, m1, m2, m3, m4, m5
<1>2. DOMAIN ps = 1..5 /\ \A i \in 1..5 : VerticesOf(ps[i]) = C[i]
  BY DEF Op20, P, VerticesOf, m0, m1, m2, m3, m4, m5
<1>3. /\ CutOf(0, {0, 1, 5}, num) = {{2, 9, 1}, {3, 9, 1}}
      /\ CutOf(1, {0, 1, 5}, num) = {{2, 5, 9}, {0, 5, 9}, {0, 3, 9}}
      /\ CutOf(2, {0, 1, 5}, num) = {{0, 4, 3}, {1, 4, 3}}
      /\ CutOf(3, {0, 1, 5}, num) = {{0, 5, 4}, {2, 5, 4}, {2, 1, 4}}
  BY DEF CutOf, CutSet, OneCut, TwoCut, ThreeCut, m0
<1>4. \A i, j \in 1..5 : C[i] \subseteq C[j] => i = j
  OBVIOUS
<1> HIDE DEF ps
<1>5. /\ Share(ps, Trio(ps[1], 0), 1, 2) /\ Share(ps, Trio(ps[1], 1), 1, 1)
      /\ Share(ps, Trio(ps[1], 2), 1, 4) /\ Share(ps, Trio(ps[1], 3), 1, 1)
      /\ Share(ps, Trio(ps[2], 0), 2, 2) /\ Share(ps, Trio(ps[2], 1), 2, 1)
      /\ Share(ps, Trio(ps[2], 2), 2, 3) /\ Share(ps, Trio(ps[2], 3), 2, 2)
      /\ Share(ps, Trio(ps[3], 0), 3, 3) /\ Share(ps, Trio(ps[3], 1), 3, 5)
      /\ Share(ps, Trio(ps[3], 2), 3, 3) /\ Share(ps, Trio(ps[3], 3), 3, 2)
      /\ Share(ps, Trio(ps[4], 0), 4, 1) /\ Share(ps, Trio(ps[4], 1), 4, 4)
      /\ Share(ps, Trio(ps[4], 2), 4, 5) /\ Share(ps, Trio(ps[4], 3), 4, 4)
      /\ Share(ps, Trio(ps[5], 0), 5, 3) /\ Share(ps, Trio(ps[5], 1), 5, 5)
      /\ Share(ps, Trio(ps[5], 2), 5, 5) /\ Share(ps, Trio(ps[5], 3), 5, 4)
  BY <1>1, <1>2 DEF Share, Sided
<1> HIDE DEF C
<1>6. \A i \in DOMAIN ps, f \in Local : Met(ps, i, f)
  <2>1. /\ \A f \in Local : Met(ps, 1, f)
        /\ \A f \in Local : Met(ps, 2, f)
        /\ \A f \in Local : Met(ps, 3, f)
        /\ \A f \in Local : Met(ps, 4, f)
        /\ \A f \in Local : Met(ps, 5, f)
    BY <1>1, <1>2, <1>5 DEF Met, Local, Sided
  <2>2. \A i \in DOMAIN ps : i = 1 \/ i = 2 \/ i = 3 \/ i = 4 \/ i = 5
    BY <1>2
  <2> QED
    BY <2>1, <2>2
<1>7. /\ {2, 9, 1} = Trio(ps[2], 0) /\ {3, 9, 1} = Trio(ps[3], 0) /\ {2, 5, 9} = Trio(ps[1], 1)
      /\ {0, 5, 9} = Trio(ps[4], 1) /\ {0, 3, 9} = Trio(ps[5], 1) /\ {0, 4, 3} = Trio(ps[5], 2)
      /\ {1, 4, 3} = Trio(ps[3], 2) /\ {0, 5, 4} = Trio(ps[4], 3) /\ {2, 5, 4} = Trio(ps[1], 3)
      /\ {2, 1, 4} = Trio(ps[2], 3)
  BY <1>1 DEF Sided
<1>8. /\ CutOf(0, {0, 1, 5}, num) = {Trio(ps[2], 0), Trio(ps[3], 0)}
      /\ CutOf(1, {0, 1, 5}, num) = {Trio(ps[1], 1), Trio(ps[4], 1), Trio(ps[5], 1)}
      /\ CutOf(2, {0, 1, 5}, num) = {Trio(ps[5], 2), Trio(ps[3], 2)}
      /\ CutOf(3, {0, 1, 5}, num) = {Trio(ps[4], 3), Trio(ps[1], 3), Trio(ps[2], 3)}
  BY <1>3, <1>7
<1>9. /\ {i \in DOMAIN ps : 0 \notin ps[i].reset} = {2, 3}
      /\ {i \in DOMAIN ps : 1 \notin ps[i].reset} = {1, 4, 5}
      /\ {i \in DOMAIN ps : 2 \notin ps[i].reset} = {3, 5}
      /\ {i \in DOMAIN ps : 3 \notin ps[i].reset} = {1, 2, 4}
  BY <1>1, <1>2 DEF Sided
<1>10. \A f \in Local : Covers(ps, f, {0, 1, 5}, num)
  BY <1>8, <1>9 DEF Covers, Local
<1> QED
  BY <1>2, <1>4, <1>6, <1>10 DEF Fits, ps

(* The pieces of Op10.                                                     *)
LEMMA Op10_fits ==
  ASSUME NEW num, num[1] < num[2], ~(num[2] < num[1]), num[0] < num[3], ~(num[3] < num[0])
  PROVE  Fits(Op10, {0, 1, 5}, num)
<1> DEFINE ps == Op10
           C  == <<{5, 1, 2, 9}, {4, 1, 5, 9}, {4, 1, 9, 3}, {0, 4, 9, 3},
                  {0, 4, 5, 9}>>
<1>1. /\ Sided(ps[1], {2}, {1, 2, 9}, {5, 2, 9}, {5, 1, 9}, {5, 1, 2})
      /\ Sided(ps[2], {0, 1, 2}, {1, 5, 9}, {4, 5, 9}, {4, 1, 9}, {4, 1, 5})
      /\ Sided(ps[3], {1, 3}, {1, 9, 3}, {4, 9, 3}, {4, 1, 3}, {4, 1, 9})
      /\ Sided(ps[4], {0, 3}, {4, 9, 3}, {0, 9, 3}, {0, 4, 3}, {0, 4, 9})
      /\ Sided(ps[5], {0, 2}, {4, 5, 9}, {0, 5, 9}, {0, 4, 9}, {0, 4, 5})
  BY Trios DEF Op10, P, Sided, m0, m1, m2, m3, m4, m5
<1>2. DOMAIN ps = 1..5 /\ \A i \in 1..5 : VerticesOf(ps[i]) = C[i]
  BY DEF Op10, P, VerticesOf, m0, m1, m2, m3, m4, m5
<1>3. /\ CutOf(0, {0, 1, 5}, num) = {{2, 9, 1}, {3, 9, 1}}
      /\ CutOf(1, {0, 1, 5}, num) = {{2, 5, 9}, {0, 5, 9}, {0, 3, 9}}
      /\ CutOf(2, {0, 1, 5}, num) = {{0, 4, 3}, {1, 4, 3}}
      /\ CutOf(3, {0, 1, 5}, num) = {{0, 4, 5}, {1, 4, 5}, {1, 2, 5}}
  BY DEF CutOf, CutSet, OneCut, TwoCut, ThreeCut, m0
<1>4. \A i, j \in 1..5 : C[i] \subseteq C[j] => i = j
  OBVIOUS
<1> HIDE DEF ps
<1>5. /\ Share(ps, Trio(ps[1], 0), 1, 1) /\ Share(ps, Trio(ps[1], 1), 1, 1)
      /\ Share(ps, Trio(ps[1], 2), 1, 2) /\ Share(ps, Trio(ps[1], 3), 1, 1)
      /\ Share(ps, Trio(ps[2], 0), 2, 1) /\ Share(ps, Trio(ps[2], 1), 2, 5)
      /\ Share(ps, Trio(ps[2], 2), 2, 3) /\ Share(ps, Trio(ps[2], 3), 2, 2)
      /\ Share(ps, Trio(ps[3], 0), 3, 3) /\ Share(ps, Trio(ps[3], 1), 3, 4)
      /\ Share(ps, Trio(ps[3], 2), 3, 3) /\ Share(ps, Trio(ps[3], 3), 3, 2)
      /\ Share(ps, Trio(ps[4], 0), 4, 3) /\ Share(ps, Trio(ps[4], 1), 4, 4)
      /\ Share(ps, Trio(ps[4], 2), 4, 4) /\ Share(ps, Trio(ps[4], 3), 4, 5)
      /\ Share(ps, Trio(ps[5], 0), 5, 2) /\ Share(ps, Trio(ps[5], 1), 5, 5)
      /\ Share(ps, Trio(ps[5], 2), 5, 4) /\ Share(ps, Trio(ps[5], 3), 5, 5)
  BY <1>1, <1>2 DEF Share, Sided
<1> HIDE DEF C
<1>6. \A i \in DOMAIN ps, f \in Local : Met(ps, i, f)
  <2>1. /\ \A f \in Local : Met(ps, 1, f)
        /\ \A f \in Local : Met(ps, 2, f)
        /\ \A f \in Local : Met(ps, 3, f)
        /\ \A f \in Local : Met(ps, 4, f)
        /\ \A f \in Local : Met(ps, 5, f)
    BY <1>1, <1>2, <1>5 DEF Met, Local, Sided
  <2>2. \A i \in DOMAIN ps : i = 1 \/ i = 2 \/ i = 3 \/ i = 4 \/ i = 5
    BY <1>2
  <2> QED
    BY <2>1, <2>2
<1>7. /\ {2, 9, 1} = Trio(ps[1], 0) /\ {3, 9, 1} = Trio(ps[3], 0) /\ {2, 5, 9} = Trio(ps[1], 1)
      /\ {0, 5, 9} = Trio(ps[5], 1) /\ {0, 3, 9} = Trio(ps[4], 1) /\ {0, 4, 3} = Trio(ps[4], 2)
      /\ {1, 4, 3} = Trio(ps[3], 2) /\ {0, 4, 5} = Trio(ps[5], 3) /\ {1, 4, 5} = Trio(ps[2], 3)
      /\ {1, 2, 5} = Trio(ps[1], 3)
  BY <1>1 DEF Sided
<1>8. /\ CutOf(0, {0, 1, 5}, num) = {Trio(ps[1], 0), Trio(ps[3], 0)}
      /\ CutOf(1, {0, 1, 5}, num) = {Trio(ps[1], 1), Trio(ps[5], 1), Trio(ps[4], 1)}
      /\ CutOf(2, {0, 1, 5}, num) = {Trio(ps[4], 2), Trio(ps[3], 2)}
      /\ CutOf(3, {0, 1, 5}, num) = {Trio(ps[5], 3), Trio(ps[2], 3), Trio(ps[1], 3)}
  BY <1>3, <1>7
<1>9. /\ {i \in DOMAIN ps : 0 \notin ps[i].reset} = {1, 3}
      /\ {i \in DOMAIN ps : 1 \notin ps[i].reset} = {1, 4, 5}
      /\ {i \in DOMAIN ps : 2 \notin ps[i].reset} = {3, 4}
      /\ {i \in DOMAIN ps : 3 \notin ps[i].reset} = {1, 2, 5}
  BY <1>1, <1>2 DEF Sided
<1>10. \A f \in Local : Covers(ps, f, {0, 1, 5}, num)
  BY <1>8, <1>9 DEF Covers, Local
<1> QED
  BY <1>2, <1>4, <1>6, <1>10 DEF Fits, ps

(* The pieces of Op23.                                                     *)
LEMMA Op23_fits ==
  ASSUME NEW num, num[2] < num[1], ~(num[1] < num[2]), num[3] < num[0], ~(num[0] < num[3])
  PROVE  Fits(Op23, {0, 1, 5}, num)
<1> DEFINE ps == Op23
           C  == <<{0, 4, 5, 3}, {5, 4, 9, 3}, {4, 1, 9, 3}, {5, 4, 2, 9},
                  {4, 1, 2, 9}>>
<1>1. /\ Sided(ps[1], {0}, {4, 5, 3}, {0, 5, 3}, {0, 4, 3}, {0, 4, 5})
      /\ Sided(ps[2], {0, 2, 3}, {4, 9, 3}, {5, 9, 3}, {5, 4, 3}, {5, 4, 9})
      /\ Sided(ps[3], {1, 3}, {1, 9, 3}, {4, 9, 3}, {4, 1, 3}, {4, 1, 9})
      /\ Sided(ps[4], {0, 2}, {4, 2, 9}, {5, 2, 9}, {5, 4, 9}, {5, 4, 2})
      /\ Sided(ps[5], {1, 2}, {1, 2, 9}, {4, 2, 9}, {4, 1, 9}, {4, 1, 2})
  BY Trios DEF Op23, P, Sided, m0, m1, m2, m3, m4, m5
<1>2. DOMAIN ps = 1..5 /\ \A i \in 1..5 : VerticesOf(ps[i]) = C[i]
  BY DEF Op23, P, VerticesOf, m0, m1, m2, m3, m4, m5
<1>3. /\ CutOf(0, {0, 1, 5}, num) = {{2, 9, 1}, {3, 9, 1}}
      /\ CutOf(1, {0, 1, 5}, num) = {{2, 9, 5}, {3, 9, 5}, {3, 0, 5}}
      /\ CutOf(2, {0, 1, 5}, num) = {{0, 4, 3}, {1, 4, 3}}
      /\ CutOf(3, {0, 1, 5}, num) = {{0, 5, 4}, {2, 5, 4}, {2, 1, 4}}
  BY DEF CutOf, CutSet, OneCut, TwoCut, ThreeCut, m0
<1>4. \A i, j \in 1..5 : C[i] \subseteq C[j] => i = j
  OBVIOUS
<1> HIDE DEF ps
<1>5. /\ Share(ps, Trio(ps[1], 0), 1, 2) /\ Share(ps, Trio(ps[1], 1), 1, 1)
      /\ Share(ps, Trio(ps[1], 2), 1, 1) /\ Share(ps, Trio(ps[1], 3), 1, 1)
      /\ Share(ps, Trio(ps[2], 0), 2, 3) /\ Share(ps, Trio(ps[2], 1), 2, 2)
      /\ Share(ps, Trio(ps[2], 2), 2, 1) /\ Share(ps, Trio(ps[2], 3), 2, 4)
      /\ Share(ps, Trio(ps[3], 0), 3, 3) /\ Share(ps, Trio(ps[3], 1), 3, 2)
      /\ Share(ps, Trio(ps[3], 2), 3, 3) /\ Share(ps, Trio(ps[3], 3), 3, 5)
      /\ Share(ps, Trio(ps[4], 0), 4, 5) /\ Share(ps, Trio(ps[4], 1), 4, 4)
      /\ Share(ps, Trio(ps[4], 2), 4, 2) /\ Share(ps, Trio(ps[4], 3), 4, 4)
      /\ Share(ps, Trio(ps[5], 0), 5, 5) /\ Share(ps, Trio(ps[5], 1), 5, 4)
      /\ Share(ps, Trio(ps[5], 2), 5, 3) /\ Share(ps, Trio(ps[5], 3), 5, 5)
  BY <1>1, <1>2 DEF Share, Sided
<1> HIDE DEF C
<1>6. \A i \in DOMAIN ps, f \in Local : Met(ps, i, f)
  <2>1. /\ \A f \in Local : Met(ps, 1, f)
        /\ \A f \in Local : Met(ps, 2, f)
        /\ \A f \in Local : Met(ps, 3, f)
        /\ \A f \in Local : Met(ps, 4, f)
        /\ \A f \in Local : Met(ps, 5, f)
    BY <1>1, <1>2, <1>5 DEF Met, Local, Sided
  <2>2. \A i \in DOMAIN ps : i = 1 \/ i = 2 \/ i = 3 \/ i = 4 \/ i = 5
    BY <1>2
  <2> QED
    BY <2>1, <2>2
<1>7. /\ {2, 9, 1} = Trio(ps[5], 0) /\ {3, 9, 1} = Trio(ps[3], 0) /\ {2, 9, 5} = Trio(ps[4], 1)
      /\ {3, 9, 5} = Trio(ps[2], 1) /\ {3, 0, 5} = Trio(ps[1], 1) /\ {0, 4, 3} = Trio(ps[1], 2)
      /\ {1, 4, 3} = Trio(ps[3], 2) /\ {0, 5, 4} = Trio(ps[1], 3) /\ {2, 5, 4} = Trio(ps[4], 3)
      /\ {2, 1, 4} = Trio(ps[5], 3)
  BY <1>1 DEF Sided
<1>8. /\ CutOf(0, {0, 1, 5}, num) = {Trio(ps[5], 0), Trio(ps[3], 0)}
      /\ CutOf(1, {0, 1, 5}, num) = {Trio(ps[4], 1), Trio(ps[2], 1), Trio(ps[1], 1)}
      /\ CutOf(2, {0, 1, 5}, num) = {Trio(ps[1], 2), Trio(ps[3], 2)}
      /\ CutOf(3, {0, 1, 5}, num) = {Trio(ps[1], 3), Trio(ps[4], 3), Trio(ps[5], 3)}
  BY <1>3, <1>7
<1>9. /\ {i \in DOMAIN ps : 0 \notin ps[i].reset} = {3, 5}
      /\ {i \in DOMAIN ps : 1 \notin ps[i].reset} = {1, 2, 4}
      /\ {i \in DOMAIN ps : 2 \notin ps[i].reset} = {1, 3}
      /\ {i \in DOMAIN ps : 3 \notin ps[i].reset} = {1, 4, 5}
  BY <1>1, <1>2 DEF Sided
<1>10. \A f \in Local : Covers(ps, f, {0, 1, 5}, num)
  BY <1>8, <1>9 DEF Covers, Local
<1> QED
  BY <1>2, <1>4, <1>6, <1>10 DEF Fits, ps

(* The pieces of Op13.                                                     *)
LEMMA Op13_fits ==
  ASSUME NEW num, num[1] < num[2], ~(num[2] < num[1]), num[3] < num[0], ~(num[0] < num[3])
  PROVE  Fits(Op13, {0, 1, 5}, num)
<1> DEFINE ps == Op13
           C  == <<{0, 4, 5, 3}, {5, 1, 2, 9}, {4, 1, 5, 3}, {5, 1, 9, 3}>>
<1>1. /\ Sided(ps[1], {0}, {4, 5, 3}, {0, 5, 3}, {0, 4, 3}, {0, 4, 5})
      /\ Sided(ps[2], {2}, {1, 2, 9}, {5, 2, 9}, {5, 1, 9}, {5, 1, 2})
      /\ Sided(ps[3], {0, 1}, {1, 5, 3}, {4, 5, 3}, {4, 1, 3}, {4, 1, 5})
      /\ Sided(ps[4], {2, 3}, {1, 9, 3}, {5, 9, 3}, {5, 1, 3}, {5, 1, 9})
  BY Trios DEF Op13, P, Sided, m0, m1, m2, m3, m4, m5
<1>2. DOMAIN ps = 1..4 /\ \A i \in 1..4 : VerticesOf(ps[i]) = C[i]
  BY DEF Op13, P, VerticesOf, m0, m1, m2, m3, m4, m5
<1>3. /\ CutOf(0, {0, 1, 5}, num) = {{2, 9, 1}, {3, 9, 1}}
      /\ CutOf(1, {0, 1, 5}, num) = {{2, 9, 5}, {3, 9, 5}, {3, 0, 5}}
      /\ CutOf(2, {0, 1, 5}, num) = {{0, 4, 3}, {1, 4, 3}}
      /\ CutOf(3, {0, 1, 5}, num) = {{0, 4, 5}, {1, 4, 5}, {1, 2, 5}}
  BY DEF CutOf, CutSet, OneCut, TwoCut, ThreeCut, m0
<1>4. \A i, j \in 1..4 : C[i] \subseteq C[j] => i = j
  OBVIOUS
<1> HIDE DEF ps
<1>5. /\ Share(ps, Trio(ps[1], 0), 1, 3) /\ Share(ps, Trio(ps[1], 1), 1, 1)
      /\ Share(ps, Trio(ps[1], 2), 1, 1) /\ Share(ps, Trio(ps[1], 3), 1, 1)
      /\ Share(ps, Trio(ps[2], 0), 2, 2) /\ Share(ps, Trio(ps[2], 1), 2, 2)
      /\ Share(ps, Trio(ps[2], 2), 2, 4) /\ Share(ps, Trio(ps[2], 3), 2, 2)
      /\ Share(ps, Trio(ps[3], 0), 3, 4) /\ Share(ps, Trio(ps[3], 1), 3, 1)
      /\ Share(ps, Trio(ps[3], 2), 3, 3) /\ Share(ps, Trio(ps[3], 3), 3, 3)
      /\ Share(ps, Trio(ps[4], 0), 4, 4) /\ Share(ps, Trio(ps[4], 1), 4, 4)
      /\ Share(ps, Trio(ps[4], 2), 4, 3) /\ Share(ps, Trio(ps[4], 3), 4, 2)
  BY <1>1, <1>2 DEF Share, Sided
<1> HIDE DEF C
<1>6. \A i \in DOMAIN ps, f \in Local : Met(ps, i, f)
  <2>1. /\ \A f \in Local : Met(ps, 1, f)
        /\ \A f \in Local : Met(ps, 2, f)
        /\ \A f \in Local : Met(ps, 3, f)
        /\ \A f \in Local : Met(ps, 4, f)
    BY <1>1, <1>2, <1>5 DEF Met, Local, Sided
  <2>2. \A i \in DOMAIN ps : i = 1 \/ i = 2 \/ i = 3 \/ i = 4
    BY <1>2
  <2> QED
    BY <2>1, <2>2
<1>7. /\ {2, 9, 1} = Trio(ps[2], 0) /\ {3, 9, 1} = Trio(ps[4], 0) /\ {2, 9, 5} = Trio(ps[2], 1)
      /\ {3, 9, 5} = Trio(ps[4], 1) /\ {3, 0, 5} = Trio(ps[1], 1) /\ {0, 4, 3} = Trio(ps[1], 2)
      /\ {1, 4, 3} = Trio(ps[3], 2) /\ {0, 4, 5} = Trio(ps[1], 3) /\ {1, 4, 5} = Trio(ps[3], 3)
      /\ {1, 2, 5} = Trio(ps[2], 3)
  BY <1>1 DEF Sided
<1>8. /\ CutOf(0, {0, 1, 5}, num) = {Trio(ps[2], 0), Trio(ps[4], 0)}
      /\ CutOf(1, {0, 1, 5}, num) = {Trio(ps[2], 1), Trio(ps[4], 1), Trio(ps[1], 1)}
      /\ CutOf(2, {0, 1, 5}, num) = {Trio(ps[1], 2), Trio(ps[3], 2)}
      /\ CutOf(3, {0, 1, 5}, num) = {Trio(ps[1], 3), Trio(ps[3], 3), Trio(ps[2], 3)}
  BY <1>3, <1>7
<1>9. /\ {i \in DOMAIN ps : 0 \notin ps[i].reset} = {2, 4}
      /\ {i \in DOMAIN ps : 1 \notin ps[i].reset} = {1, 2, 4}
      /\ {i \in DOMAIN ps : 2 \notin ps[i].reset} = {1, 3}
      /\ {i \in DOMAIN ps : 3 \notin ps[i].reset} = {1, 2, 3}
  BY <1>1, <1>2 DEF Sided
<1>10. \A f \in Local : Covers(ps, f, {0, 1, 5}, num)
  BY <1>8, <1>9 DEF Covers, Local
<1> QED
  BY <1>2, <1>4, <1>6, <1>10 DEF Fits, ps

(* The pieces of split4sf_12_23.                                           *)
LEMMA split4sf_12_23_fits ==
  ASSUME NEW c, NEW v, NEW num, Ordered(c, v, num),
         num[1] < num[2], num[2] < num[3]
  PROVE  Fits(split4sf(c, v), {0, 1, 2, 4}, num)
<1> DEFINE ps == << P(<<0, m0, m1, m2>>, <<K, K, K, F3, F2, F1>>, {0}),
                  P(<<m2, m0, m1, m4>>, <<F2, F1, F2, F3, F2, N>>, {0, 1, 3}),
                  P(<<m0, 1, m1, m4>>, <<K, F3, F2, F3, K, N>>, {0, 1}),
                  P(<<m1, 1, 2, m4>>, <<F3, K, N, K, K, F0>>, {1, 2}),
                  P(<<m1, m4, 2, m2>>, <<N, K, F1, F0, F2, F1>>, {0, 2, 3}),
                  P(<<m2, m4, 2, 3>>, <<F2, F1, K, F0, K, K>>, {3}) >>
           C  == <<{0, 4, 5, 6}, {6, 4, 5, 8}, {4, 1, 5, 8}, {5, 1, 2, 8},
                  {5, 8, 2, 6}, {6, 8, 2, 3}>>
<1>1. num[1] < num[2] /\ ~(num[2] < num[1]) /\ num[2] < num[3] /\ ~(num[3] < num[2])
  BY DEF Ordered, Local
<1>2. First(c, v, 1, 2) /\ ~First(c, v, 2, 1) /\ First(c, v, 2, 3) /\ ~First(c, v, 3, 2)
  BY DEF Ordered, Local
<1>3. split4sf(c, v) = ps
  <2>1. split4sf12(c, v) = << P(<<m0, 1, m1, m4>>, <<K, F3, F2, F3, K, N>>, {0, 1}),
                           P(<<m1, 1, 2, m4>>, <<F3, K, N, K, K, F0>>, {1, 2}) >>
    BY <1>2 DEF split4sf12
  <2>2. split4sf23(c, v) = << P(<<m1, m4, 2, m2>>, <<N, K, F1, F0, F2, F1>>, {0, 2, 3}),
                           P(<<m2, m4, 2, 3>>, <<F2, F1, K, F0, K, K>>, {3}) >>
    BY <1>2 DEF split4sf23
  <2> DEFINE qs == << P(<<0, m0, m1, m2>>, <<K, K, K, F3, F2, F1>>, {0}),
                  P(<<m2, m0, m1, m4>>, <<F2, F1, F2, F3, F2, N>>, {0, 1, 3}),
                  P(<<m0, 1, m1, m4>>, <<K, F3, F2, F3, K, N>>, {0, 1}),
                  P(<<m1, 1, 2, m4>>, <<F3, K, N, K, K, F0>>, {1, 2}) >>
  <2>3. << P(<<0, m0, m1, m2>>, <<K, K, K, F3, F2, F1>>, {0}),
         P(<<m2, m0, m1, m4>>, <<F2, F1, F2, F3, F2, N>>, {0, 1, 3}) >>
        \o split4sf12(c, v) = qs
    BY <2>1, Row22
  <2>4. split4sf(c, v) = qs \o split4sf23(c, v)
    BY <2>3 DEF split4sf
  <2> QED
    BY <2>2, <2>4, Row42
<1>4. /\ Sided(ps[1], {0}, {4, 5, 6}, {0, 5, 6}, {0, 4, 6}, {0, 4, 5})
      /\ Sided(ps[2], {0, 1, 3}, {4, 5, 8}, {6, 5, 8}, {6, 4, 8}, {6, 4, 5})
      /\ Sided(ps[3], {0, 1}, {1, 5, 8}, {4, 5, 8}, {4, 1, 8}, {4, 1, 5})
      /\ Sided(ps[4], {1, 2}, {1, 2, 8}, {5, 2, 8}, {5, 1, 8}, {5, 1, 2})
      /\ Sided(ps[5], {0, 2, 3}, {8, 2, 6}, {5, 2, 6}, {5, 8, 6}, {5, 8, 2})
      /\ Sided(ps[6], {3}, {8, 2, 3}, {6, 2, 3}, {6, 8, 3}, {6, 8, 2})
  BY Trios DEF P, Sided, m0, m1, m2, m3, m4, m5
<1>5. DOMAIN ps = 1..6 /\ \A i \in 1..6 : VerticesOf(ps[i]) = C[i]
  BY DEF P, VerticesOf, m0, m1, m2, m3, m4, m5
<1>6. /\ CutOf(0, {0, 1, 2, 4}, num) = {{1, 8, 2}, {3, 8, 2}}
      /\ CutOf(1, {0, 1, 2, 4}, num) = {{0, 5, 6}, {2, 5, 6}, {2, 3, 6}}
      /\ CutOf(2, {0, 1, 2, 4}, num) = {{0, 4, 6}, {1, 4, 8}, {3, 6, 8}, {4, 6, 8}}
      /\ CutOf(3, {0, 1, 2, 4}, num) = {{0, 4, 5}, {1, 4, 5}, {1, 2, 5}}
  BY <1>1 DEF CutOf, CutSet, OneCut, TwoCut, ThreeCut, m0
<1>7. \A i, j \in 1..6 : C[i] \subseteq C[j] => i = j
  OBVIOUS
<1> HIDE DEF ps
<1>8. /\ Share(ps, Trio(ps[1], 0), 1, 2) /\ Share(ps, Trio(ps[1], 1), 1, 1)
      /\ Share(ps, Trio(ps[1], 2), 1, 1) /\ Share(ps, Trio(ps[1], 3), 1, 1)
      /\ Share(ps, Trio(ps[2], 0), 2, 3) /\ Share(ps, Trio(ps[2], 1), 2, 5)
      /\ Share(ps, Trio(ps[2], 2), 2, 2) /\ Share(ps, Trio(ps[2], 3), 2, 1)
      /\ Share(ps, Trio(ps[3], 0), 3, 4) /\ Share(ps, Trio(ps[3], 1), 3, 2)
      /\ Share(ps, Trio(ps[3], 2), 3, 3) /\ Share(ps, Trio(ps[3], 3), 3, 3)
      /\ Share(ps, Trio(ps[4], 0), 4, 4) /\ Share(ps, Trio(ps[4], 1), 4, 5)
      /\ Share(ps, Trio(ps[4], 2), 4, 3) /\ Share(ps, Trio(ps[4], 3), 4, 4)
      /\ Share(ps, Trio(ps[5], 0), 5, 6) /\ Share(ps, Trio(ps[5], 1), 5, 5)
      /\ Share(ps, Trio(ps[5], 2), 5, 2) /\ Share(ps, Trio(ps[5], 3), 5, 4)
      /\ Share(ps, Trio(ps[6], 0), 6, 6) /\ Share(ps, Trio(ps[6], 1), 6, 6)
      /\ Share(ps, Trio(ps[6], 2), 6, 6) /\ Share(ps, Trio(ps[6], 3), 6, 5)
  BY <1>4, <1>5 DEF Share, Sided
<1> HIDE DEF C
<1>9. \A i \in DOMAIN ps, f \in Local : Met(ps, i, f)
  <2>1. /\ \A f \in Local : Met(ps, 1, f)
        /\ \A f \in Local : Met(ps, 2, f)
        /\ \A f \in Local : Met(ps, 3, f)
        /\ \A f \in Local : Met(ps, 4, f)
        /\ \A f \in Local : Met(ps, 5, f)
        /\ \A f \in Local : Met(ps, 6, f)
    BY <1>4, <1>5, <1>8 DEF Met, Local, Sided
  <2>2. \A i \in DOMAIN ps : i = 1 \/ i = 2 \/ i = 3 \/ i = 4 \/ i = 5 \/ i = 6
    BY <1>5
  <2> QED
    BY <2>1, <2>2
<1>10. /\ {1, 8, 2} = Trio(ps[4], 0) /\ {3, 8, 2} = Trio(ps[6], 0) /\ {0, 5, 6} = Trio(ps[1], 1)
      /\ {2, 5, 6} = Trio(ps[5], 1) /\ {2, 3, 6} = Trio(ps[6], 1) /\ {0, 4, 6} = Trio(ps[1], 2)
      /\ {1, 4, 8} = Trio(ps[3], 2) /\ {3, 6, 8} = Trio(ps[6], 2) /\ {4, 6, 8} = Trio(ps[2], 2)
      /\ {0, 4, 5} = Trio(ps[1], 3) /\ {1, 4, 5} = Trio(ps[3], 3) /\ {1, 2, 5} = Trio(ps[4], 3)
  BY <1>4 DEF Sided
<1>11. /\ CutOf(0, {0, 1, 2, 4}, num) = {Trio(ps[4], 0), Trio(ps[6], 0)}
      /\ CutOf(1, {0, 1, 2, 4}, num) = {Trio(ps[1], 1), Trio(ps[5], 1), Trio(ps[6], 1)}
      /\ CutOf(2, {0, 1, 2, 4}, num) = {Trio(ps[1], 2), Trio(ps[3], 2), Trio(ps[6], 2), Trio(ps[2], 2)}
      /\ CutOf(3, {0, 1, 2, 4}, num) = {Trio(ps[1], 3), Trio(ps[3], 3), Trio(ps[4], 3)}
  BY <1>6, <1>10
<1>12. /\ {i \in DOMAIN ps : 0 \notin ps[i].reset} = {4, 6}
      /\ {i \in DOMAIN ps : 1 \notin ps[i].reset} = {1, 5, 6}
      /\ {i \in DOMAIN ps : 2 \notin ps[i].reset} = {1, 2, 3, 6}
      /\ {i \in DOMAIN ps : 3 \notin ps[i].reset} = {1, 3, 4}
  BY <1>4, <1>5 DEF Sided
<1>13. \A f \in Local : Covers(ps, f, {0, 1, 2, 4}, num)
  BY <1>11, <1>12 DEF Covers, Local
<1> QED
  BY <1>3, <1>5, <1>7, <1>9, <1>13 DEF Fits, ps

(* The pieces of split4sf_12_32.                                           *)
LEMMA split4sf_12_32_fits ==
  ASSUME NEW c, NEW v, NEW num, Ordered(c, v, num),
         num[1] < num[2], num[3] < num[2]
  PROVE  Fits(split4sf(c, v), {0, 1, 2, 4}, num)
<1> DEFINE ps == << P(<<0, m0, m1, m2>>, <<K, K, K, F3, F2, F1>>, {0}),
                  P(<<m2, m0, m1, m4>>, <<F2, F1, F2, F3, F2, N>>, {0, 1, 3}),
                  P(<<m0, 1, m1, m4>>, <<K, F3, F2, F3, K, N>>, {0, 1}),
                  P(<<m1, 1, 2, m4>>, <<F3, K, N, K, K, F0>>, {1, 2}),
                  P(<<m2, m4, m1, 3>>, <<F2, F1, K, N, K, F1>>, {0, 3}),
                  P(<<m1, m4, 2, 3>>, <<N, K, F1, F0, K, K>>, {2, 3}) >>
           C  == <<{0, 4, 5, 6}, {6, 4, 5, 8}, {4, 1, 5, 8}, {5, 1, 2, 8},
                  {6, 8, 5, 3}, {5, 8, 2, 3}>>
<1>1. num[1] < num[2] /\ ~(num[2] < num[1]) /\ num[3] < num[2] /\ ~(num[2] < num[3])
  BY DEF Ordered, Local
<1>2. First(c, v, 1, 2) /\ ~First(c, v, 2, 1) /\ First(c, v, 3, 2) /\ ~First(c, v, 2, 3)
  BY DEF Ordered, Local
<1>3. split4sf(c, v) = ps
  <2>1. split4sf12(c, v) = << P(<<m0, 1, m1, m4>>, <<K, F3, F2, F3, K, N>>, {0, 1}),
                           P(<<m1, 1, 2, m4>>, <<F3, K, N, K, K, F0>>, {1, 2}) >>
    BY <1>2 DEF split4sf12
  <2>2. split4sf23(c, v) = << P(<<m2, m4, m1, 3>>, <<F2, F1, K, N, K, F1>>, {0, 3}),
                           P(<<m1, m4, 2, 3>>, <<N, K, F1, F0, K, K>>, {2, 3}) >>
    BY <1>2 DEF split4sf23
  <2> DEFINE qs == << P(<<0, m0, m1, m2>>, <<K, K, K, F3, F2, F1>>, {0}),
                  P(<<m2, m0, m1, m4>>, <<F2, F1, F2, F3, F2, N>>, {0, 1, 3}),
                  P(<<m0, 1, m1, m4>>, <<K, F3, F2, F3, K, N>>, {0, 1}),
                  P(<<m1, 1, 2, m4>>, <<F3, K, N, K, K, F0>>, {1, 2}) >>
  <2>3. << P(<<0, m0, m1, m2>>, <<K, K, K, F3, F2, F1>>, {0}),
         P(<<m2, m0, m1, m4>>, <<F2, F1, F2, F3, F2, N>>, {0, 1, 3}) >>
        \o split4sf12(c, v) = qs
    BY <2>1, Row22
  <2>4. split4sf(c, v) = qs \o split4sf23(c, v)
    BY <2>3 DEF split4sf
  <2> QED
    BY <2>2, <2>4, Row42
<1>4. /\ Sided(ps[1], {0}, {4, 5, 6}, {0, 5, 6}, {0, 4, 6}, {0, 4, 5})
      /\ Sided(ps[2], {0, 1, 3}, {4, 5, 8}, {6, 5, 8}, {6, 4, 8}, {6, 4, 5})
      /\ Sided(ps[3], {0, 1}, {1, 5, 8}, {4, 5, 8}, {4, 1, 8}, {4, 1, 5})
      /\ Sided(ps[4], {1, 2}, {1, 2, 8}, {5, 2, 8}, {5, 1, 8}, {5, 1, 2})
      /\ Sided(ps[5], {0, 3}, {8, 5, 3}, {6, 5, 3}, {6, 8, 3}, {6, 8, 5})
      /\ Sided(ps[6], {2, 3}, {8, 2, 3}, {5, 2, 3}, {5, 8, 3}, {5, 8, 2})
  BY Trios DEF P, Sided, m0, m1, m2, m3, m4, m5
<1>5. DOMAIN ps = 1..6 /\ \A i \in 1..6 : VerticesOf(ps[i]) = C[i]
  BY DEF P, VerticesOf, m0, m1, m2, m3, m4, m5
<1>6. /\ CutOf(0, {0, 1, 2, 4}, num) = {{1, 8, 2}, {3, 8, 2}}
      /\ CutOf(1, {0, 1, 2, 4}, num) = {{0, 6, 5}, {3, 6, 5}, {3, 2, 5}}
      /\ CutOf(2, {0, 1, 2, 4}, num) = {{0, 4, 6}, {1, 4, 8}, {3, 6, 8}, {4, 6, 8}}
      /\ CutOf(3, {0, 1, 2, 4}, num) = {{0, 4, 5}, {1, 4, 5}, {1, 2, 5}}
  BY <1>1 DEF CutOf, CutSet, OneCut, TwoCut, ThreeCut, m0
<1>7. \A i, j \in 1..6 : C[i] \subseteq C[j] => i = j
  OBVIOUS
<1> HIDE DEF ps
<1>8. /\ Share(ps, Trio(ps[1], 0), 1, 2) /\ Share(ps, Trio(ps[1], 1), 1, 1)
      /\ Share(ps, Trio(ps[1], 2), 1, 1) /\ Share(ps, Trio(ps[1], 3), 1, 1)
      /\ Share(ps, Trio(ps[2], 0), 2, 3) /\ Share(ps, Trio(ps[2], 1), 2, 5)
      /\ Share(ps, Trio(ps[2], 2), 2, 2) /\ Share(ps, Trio(ps[2], 3), 2, 1)
      /\ Share(ps, Trio(ps[3], 0), 3, 4) /\ Share(ps, Trio(ps[3], 1), 3, 2)
      /\ Share(ps, Trio(ps[3], 2), 3, 3) /\ Share(ps, Trio(ps[3], 3), 3, 3)
      /\ Share(ps, Trio(ps[4], 0), 4, 4) /\ Share(ps, Trio(ps[4], 1), 4, 6)
      /\ Share(ps, Trio(ps[4], 2), 4, 3) /\ Share(ps, Trio(ps[4], 3), 4, 4)
      /\ Share(ps, Trio(ps[5], 0), 5, 6) /\ Share(ps, Trio(ps[5], 1), 5, 5)
      /\ Share(ps, Trio(ps[5], 2), 5, 5) /\ Share(ps, Trio(ps[5], 3), 5, 2)
      /\ Share(ps, Trio(ps[6], 0), 6, 6) /\ Share(ps, Trio(ps[6], 1), 6, 6)
      /\ Share(ps, Trio(ps[6], 2), 6, 5) /\ Share(ps, Trio(ps[6], 3), 6, 4)
  BY <1>4, <1>5 DEF Share, Sided
<1> HIDE DEF C
<1>9. \A i \in DOMAIN ps, f \in Local : Met(ps, i, f)
  <2>1. /\ \A f \in Local : Met(ps, 1, f)
        /\ \A f \in Local : Met(ps, 2, f)
        /\ \A f \in Local : Met(ps, 3, f)
        /\ \A f \in Local : Met(ps, 4, f)
        /\ \A f \in Local : Met(ps, 5, f)
        /\ \A f \in Local : Met(ps, 6, f)
    BY <1>4, <1>5, <1>8 DEF Met, Local, Sided
  <2>2. \A i \in DOMAIN ps : i = 1 \/ i = 2 \/ i = 3 \/ i = 4 \/ i = 5 \/ i = 6
    BY <1>5
  <2> QED
    BY <2>1, <2>2
<1>10. /\ {1, 8, 2} = Trio(ps[4], 0) /\ {3, 8, 2} = Trio(ps[6], 0) /\ {0, 6, 5} = Trio(ps[1], 1)
      /\ {3, 6, 5} = Trio(ps[5], 1) /\ {3, 2, 5} = Trio(ps[6], 1) /\ {0, 4, 6} = Trio(ps[1], 2)
      /\ {1, 4, 8} = Trio(ps[3], 2) /\ {3, 6, 8} = Trio(ps[5], 2) /\ {4, 6, 8} = Trio(ps[2], 2)
      /\ {0, 4, 5} = Trio(ps[1], 3) /\ {1, 4, 5} = Trio(ps[3], 3) /\ {1, 2, 5} = Trio(ps[4], 3)
  BY <1>4 DEF Sided
<1>11. /\ CutOf(0, {0, 1, 2, 4}, num) = {Trio(ps[4], 0), Trio(ps[6], 0)}
      /\ CutOf(1, {0, 1, 2, 4}, num) = {Trio(ps[1], 1), Trio(ps[5], 1), Trio(ps[6], 1)}
      /\ CutOf(2, {0, 1, 2, 4}, num) = {Trio(ps[1], 2), Trio(ps[3], 2), Trio(ps[5], 2), Trio(ps[2], 2)}
      /\ CutOf(3, {0, 1, 2, 4}, num) = {Trio(ps[1], 3), Trio(ps[3], 3), Trio(ps[4], 3)}
  BY <1>6, <1>10
<1>12. /\ {i \in DOMAIN ps : 0 \notin ps[i].reset} = {4, 6}
      /\ {i \in DOMAIN ps : 1 \notin ps[i].reset} = {1, 5, 6}
      /\ {i \in DOMAIN ps : 2 \notin ps[i].reset} = {1, 2, 3, 5}
      /\ {i \in DOMAIN ps : 3 \notin ps[i].reset} = {1, 3, 4}
  BY <1>4, <1>5 DEF Sided
<1>13. \A f \in Local : Covers(ps, f, {0, 1, 2, 4}, num)
  BY <1>11, <1>12 DEF Covers, Local
<1> QED
  BY <1>3, <1>5, <1>7, <1>9, <1>13 DEF Fits, ps

(* The pieces of split4sf_21_23.                                           *)
LEMMA split4sf_21_23_fits ==
  ASSUME NEW c, NEW v, NEW num, Ordered(c, v, num),
         num[2] < num[1], num[2] < num[3]
  PROVE  Fits(split4sf(c, v), {0, 1, 2, 4}, num)
<1> DEFINE ps == << P(<<0, m0, m1, m2>>, <<K, K, K, F3, F2, F1>>, {0}),
                  P(<<m2, m0, m1, m4>>, <<F2, F1, F2, F3, F2, N>>, {0, 1, 3}),
                  P(<<m1, m0, 2, m4>>, <<F3, K, N, F3, F2, F0>>, {0, 1, 2}),
                  P(<<m0, 1, 2, m4>>, <<K, F3, F2, K, K, F0>>, {1}),
                  P(<<m1, m4, 2, m2>>, <<N, K, F1, F0, F2, F1>>, {0, 2, 3}),
                  P(<<m2, m4, 2, 3>>, <<F2, F1, K, F0, K, K>>, {3}) >>
           C  == <<{0, 4, 5, 6}, {6, 4, 5, 8}, {5, 4, 2, 8}, {4, 1, 2, 8},
                  {5, 8, 2, 6}, {6, 8, 2, 3}>>
<1>1. num[2] < num[1] /\ ~(num[1] < num[2]) /\ num[2] < num[3] /\ ~(num[3] < num[2])
  BY DEF Ordered, Local
<1>2. First(c, v, 2, 1) /\ ~First(c, v, 1, 2) /\ First(c, v, 2, 3) /\ ~First(c, v, 3, 2)
  BY DEF Ordered, Local
<1>3. split4sf(c, v) = ps
  <2>1. split4sf12(c, v) = << P(<<m1, m0, 2, m4>>, <<F3, K, N, F3, F2, F0>>, {0, 1, 2}),
                           P(<<m0, 1, 2, m4>>, <<K, F3, F2, K, K, F0>>, {1}) >>
    BY <1>2 DEF split4sf12
  <2>2. split4sf23(c, v) = << P(<<m1, m4, 2, m2>>, <<N, K, F1, F0, F2, F1>>, {0, 2, 3}),
                           P(<<m2, m4, 2, 3>>, <<F2, F1, K, F0, K, K>>, {3}) >>
    BY <1>2 DEF split4sf23
  <2> DEFINE qs == << P(<<0, m0, m1, m2>>, <<K, K, K, F3, F2, F1>>, {0}),
                  P(<<m2, m0, m1, m4>>, <<F2, F1, F2, F3, F2, N>>, {0, 1, 3}),
                  P(<<m1, m0, 2, m4>>, <<F3, K, N, F3, F2, F0>>, {0, 1, 2}),
                  P(<<m0, 1, 2, m4>>, <<K, F3, F2, K, K, F0>>, {1}) >>
  <2>3. << P(<<0, m0, m1, m2>>, <<K, K, K, F3, F2, F1>>, {0}),
         P(<<m2, m0, m1, m4>>, <<F2, F1, F2, F3, F2, N>>, {0, 1, 3}) >>
        \o split4sf12(c, v) = qs
    BY <2>1, Row22
  <2>4. split4sf(c, v) = qs \o split4sf23(c, v)
    BY <2>3 DEF split4sf
  <2> QED
    BY <2>2, <2>4, Row42
<1>4. /\ Sided(ps[1], {0}, {4, 5, 6}, {0, 5, 6}, {0, 4, 6}, {0, 4, 5})
      /\ Sided(ps[2], {0, 1, 3}, {4, 5, 8}, {6, 5, 8}, {6, 4, 8}, {6, 4, 5})
      /\ Sided(ps[3], {0, 1, 2}, {4, 2, 8}, {5, 2, 8}, {5, 4, 8}, {5, 4, 2})
      /\ Sided(ps[4], {1}, {1, 2, 8}, {4, 2, 8}, {4, 1, 8}, {4, 1, 2})
      /\ Sided(ps[5], {0, 2, 3}, {8, 2, 6}, {5, 2, 6}, {5, 8, 6}, {5, 8, 2})
      /\ Sided(ps[6], {3}, {8, 2, 3}, {6, 2, 3}, {6, 8, 3}, {6, 8, 2})
  BY Trios DEF P, Sided, m0, m1, m2, m3, m4, m5
<1>5. DOMAIN ps = 1..6 /\ \A i \in 1..6 : VerticesOf(ps[i]) = C[i]
  BY DEF P, VerticesOf, m0, m1, m2, m3, m4, m5
<1>6. /\ CutOf(0, {0, 1, 2, 4}, num) = {{1, 8, 2}, {3, 8, 2}}
      /\ CutOf(1, {0, 1, 2, 4}, num) = {{0, 5, 6}, {2, 5, 6}, {2, 3, 6}}
      /\ CutOf(2, {0, 1, 2, 4}, num) = {{0, 4, 6}, {1, 4, 8}, {3, 6, 8}, {4, 6, 8}}
      /\ CutOf(3, {0, 1, 2, 4}, num) = {{0, 5, 4}, {2, 5, 4}, {2, 1, 4}}
  BY <1>1 DEF CutOf, CutSet, OneCut, TwoCut, ThreeCut, m0
<1>7. \A i, j \in 1..6 : C[i] \subseteq C[j] => i = j
  OBVIOUS
<1> HIDE DEF ps
<1>8. /\ Share(ps, Trio(ps[1], 0), 1, 2) /\ Share(ps, Trio(ps[1], 1), 1, 1)
      /\ Share(ps, Trio(ps[1], 2), 1, 1) /\ Share(ps, Trio(ps[1], 3), 1, 1)
      /\ Share(ps, Trio(ps[2], 0), 2, 3) /\ Share(ps, Trio(ps[2], 1), 2, 5)
      /\ Share(ps, Trio(ps[2], 2), 2, 2) /\ Share(ps, Trio(ps[2], 3), 2, 1)
      /\ Share(ps, Trio(ps[3], 0), 3, 4) /\ Share(ps, Trio(ps[3], 1), 3, 5)
      /\ Share(ps, Trio(ps[3], 2), 3, 2) /\ Share(ps, Trio(ps[3], 3), 3, 3)
      /\ Share(ps, Trio(ps[4], 0), 4, 4) /\ Share(ps, Trio(ps[4], 1), 4, 3)
      /\ Share(ps, Trio(ps[4], 2), 4, 4) /\ Share(ps, Trio(ps[4], 3), 4, 4)
      /\ Share(ps, Trio(ps[5], 0), 5, 6) /\ Share(ps, Trio(ps[5], 1), 5, 5)
      /\ Share(ps, Trio(ps[5], 2), 5, 2) /\ Share(ps, Trio(ps[5], 3), 5, 3)
      /\ Share(ps, Trio(ps[6], 0), 6, 6) /\ Share(ps, Trio(ps[6], 1), 6, 6)
      /\ Share(ps, Trio(ps[6], 2), 6, 6) /\ Share(ps, Trio(ps[6], 3), 6, 5)
  BY <1>4, <1>5 DEF Share, Sided
<1> HIDE DEF C
<1>9. \A i \in DOMAIN ps, f \in Local : Met(ps, i, f)
  <2>1. /\ \A f \in Local : Met(ps, 1, f)
        /\ \A f \in Local : Met(ps, 2, f)
        /\ \A f \in Local : Met(ps, 3, f)
        /\ \A f \in Local : Met(ps, 4, f)
        /\ \A f \in Local : Met(ps, 5, f)
        /\ \A f \in Local : Met(ps, 6, f)
    BY <1>4, <1>5, <1>8 DEF Met, Local, Sided
  <2>2. \A i \in DOMAIN ps : i = 1 \/ i = 2 \/ i = 3 \/ i = 4 \/ i = 5 \/ i = 6
    BY <1>5
  <2> QED
    BY <2>1, <2>2
<1>10. /\ {1, 8, 2} = Trio(ps[4], 0) /\ {3, 8, 2} = Trio(ps[6], 0) /\ {0, 5, 6} = Trio(ps[1], 1)
      /\ {2, 5, 6} = Trio(ps[5], 1) /\ {2, 3, 6} = Trio(ps[6], 1) /\ {0, 4, 6} = Trio(ps[1], 2)
      /\ {1, 4, 8} = Trio(ps[4], 2) /\ {3, 6, 8} = Trio(ps[6], 2) /\ {4, 6, 8} = Trio(ps[2], 2)
      /\ {0, 5, 4} = Trio(ps[1], 3) /\ {2, 5, 4} = Trio(ps[3], 3) /\ {2, 1, 4} = Trio(ps[4], 3)
  BY <1>4 DEF Sided
<1>11. /\ CutOf(0, {0, 1, 2, 4}, num) = {Trio(ps[4], 0), Trio(ps[6], 0)}
      /\ CutOf(1, {0, 1, 2, 4}, num) = {Trio(ps[1], 1), Trio(ps[5], 1), Trio(ps[6], 1)}
      /\ CutOf(2, {0, 1, 2, 4}, num) = {Trio(ps[1], 2), Trio(ps[4], 2), Trio(ps[6], 2), Trio(ps[2], 2)}
      /\ CutOf(3, {0, 1, 2, 4}, num) = {Trio(ps[1], 3), Trio(ps[3], 3), Trio(ps[4], 3)}
  BY <1>6, <1>10
<1>12. /\ {i \in DOMAIN ps : 0 \notin ps[i].reset} = {4, 6}
      /\ {i \in DOMAIN ps : 1 \notin ps[i].reset} = {1, 5, 6}
      /\ {i \in DOMAIN ps : 2 \notin ps[i].reset} = {1, 2, 4, 6}
      /\ {i \in DOMAIN ps : 3 \notin ps[i].reset} = {1, 3, 4}
  BY <1>4, <1>5 DEF Sided
<1>13. \A f \in Local : Covers(ps, f, {0, 1, 2, 4}, num)
  BY <1>11, <1>12 DEF Covers, Local
<1> QED
  BY <1>3, <1>5, <1>7, <1>9, <1>13 DEF Fits, ps

(* The pieces of split4sf_21_32.                                           *)
LEMMA split4sf_21_32_fits ==
  ASSUME NEW c, NEW v, NEW num, Ordered(c, v, num),
         num[2] < num[1], num[3] < num[2]
  PROVE  Fits(split4sf(c, v), {0, 1, 2, 4}, num)
<1> DEFINE ps == << P(<<0, m0, m1, m2>>, <<K, K, K, F3, F2, F1>>, {0}),
                  P(<<m2, m0, m1, m4>>, <<F2, F1, F2, F3, F2, N>>, {0, 1, 3}),
                  P(<<m1, m0, 2, m4>>, <<F3, K, N, F3, F2, F0>>, {0, 1, 2}),
                  P(<<m0, 1, 2, m4>>, <<K, F3, F2, K, K, F0>>, {1}),
                  P(<<m2, m4, m1, 3>>, <<F2, F1, K, N, K, F1>>, {0, 3}),
                  P(<<m1, m4, 2, 3>>, <<N, K, F1, F0, K, K>>, {2, 3}) >>
           C  == <<{0, 4, 5, 6}, {6, 4, 5, 8}, {5, 4, 2, 8}, {4, 1, 2, 8},
                  {6, 8, 5, 3}, {5, 8, 2, 3}>>
<1>1. num[2] < num[1] /\ ~(num[1] < num[2]) /\ num[3] < num[2] /\ ~(num[2] < num[3])
  BY DEF Ordered, Local
<1>2. First(c, v, 2, 1) /\ ~First(c, v, 1, 2) /\ First(c, v, 3, 2) /\ ~First(c, v, 2, 3)
  BY DEF Ordered, Local
<1>3. split4sf(c, v) = ps
  <2>1. split4sf12(c, v) = << P(<<m1, m0, 2, m4>>, <<F3, K, N, F3, F2, F0>>, {0, 1, 2}),
                           P(<<m0, 1, 2, m4>>, <<K, F3, F2, K, K, F0>>, {1}) >>
    BY <1>2 DEF split4sf12
  <2>2. split4sf23(c, v) = << P(<<m2, m4, m1, 3>>, <<F2, F1, K, N, K, F1>>, {0, 3}),
                           P(<<m1, m4, 2, 3>>, <<N, K, F1, F0, K, K>>, {2, 3}) >>
    BY <1>2 DEF split4sf23
  <2> DEFINE qs == << P(<<0, m0, m1, m2>>, <<K, K, K, F3, F2, F1>>, {0}),
                  P(<<m2, m0, m1, m4>>, <<F2, F1, F2, F3, F2, N>>, {0, 1, 3}),
                  P(<<m1, m0, 2, m4>>, <<F3, K, N, F3, F2, F0>>, {0, 1, 2}),
                  P(<<m0, 1, 2, m4>>, <<K, F3, F2, K, K, F0>>, {1}) >>
  <2>3. << P(<<0, m0, m1, m2>>, <<K, K, K, F3, F2, F1>>, {0}),
         P(<<m2, m0, m1, m4>>, <<F2, F1, F2, F3, F2, N>>, {0, 1, 3}) >>
        \o split4sf12(c, v) = qs
    BY <2>1, Row22
  <2>4. split4sf(c, v) = qs \o split4sf23(c, v)
    BY <2>3 DEF split4sf
  <2> QED
    BY <2>2, <2>4, Row42
<1>4. /\ Sided(ps[1], {0}, {4, 5, 6}, {0, 5, 6}, {0, 4, 6}, {0, 4, 5})
      /\ Sided(ps[2], {0, 1, 3}, {4, 5, 8}, {6, 5, 8}, {6, 4, 8}, {6, 4, 5})
      /\ Sided(ps[3], {0, 1, 2}, {4, 2, 8}, {5, 2, 8}, {5, 4, 8}, {5, 4, 2})
      /\ Sided(ps[4], {1}, {1, 2, 8}, {4, 2, 8}, {4, 1, 8}, {4, 1, 2})
      /\ Sided(ps[5], {0, 3}, {8, 5, 3}, {6, 5, 3}, {6, 8, 3}, {6, 8, 5})
      /\ Sided(ps[6], {2, 3}, {8, 2, 3}, {5, 2, 3}, {5, 8, 3}, {5, 8, 2})
  BY Trios DEF P, Sided, m0, m1, m2, m3, m4, m5
<1>5. DOMAIN ps = 1..6 /\ \A i \in 1..6 : VerticesOf(ps[i]) = C[i]
  BY DEF P, VerticesOf, m0, m1, m2, m3, m4, m5
<1>6. /\ CutOf(0, {0, 1, 2, 4}, num) = {{1, 8, 2}, {3, 8, 2}}
      /\ CutOf(1, {0, 1, 2, 4}, num) = {{0, 6, 5}, {3, 6, 5}, {3, 2, 5}}
      /\ CutOf(2, {0, 1, 2, 4}, num) = {{0, 4, 6}, {1, 4, 8}, {3, 6, 8}, {4, 6, 8}}
      /\ CutOf(3, {0, 1, 2, 4}, num) = {{0, 5, 4}, {2, 5, 4}, {2, 1, 4}}
  BY <1>1 DEF CutOf, CutSet, OneCut, TwoCut, ThreeCut, m0
<1>7. \A i, j \in 1..6 : C[i] \subseteq C[j] => i = j
  OBVIOUS
<1> HIDE DEF ps
<1>8. /\ Share(ps, Trio(ps[1], 0), 1, 2) /\ Share(ps, Trio(ps[1], 1), 1, 1)
      /\ Share(ps, Trio(ps[1], 2), 1, 1) /\ Share(ps, Trio(ps[1], 3), 1, 1)
      /\ Share(ps, Trio(ps[2], 0), 2, 3) /\ Share(ps, Trio(ps[2], 1), 2, 5)
      /\ Share(ps, Trio(ps[2], 2), 2, 2) /\ Share(ps, Trio(ps[2], 3), 2, 1)
      /\ Share(ps, Trio(ps[3], 0), 3, 4) /\ Share(ps, Trio(ps[3], 1), 3, 6)
      /\ Share(ps, Trio(ps[3], 2), 3, 2) /\ Share(ps, Trio(ps[3], 3), 3, 3)
      /\ Share(ps, Trio(ps[4], 0), 4, 4) /\ Share(ps, Trio(ps[4], 1), 4, 3)
      /\ Share(ps, Trio(ps[4], 2), 4, 4) /\ Share(ps, Trio(ps[4], 3), 4, 4)
      /\ Share(ps, Trio(ps[5], 0), 5, 6) /\ Share(ps, Trio(ps[5], 1), 5, 5)
      /\ Share(ps, Trio(ps[5], 2), 5, 5) /\ Share(ps, Trio(ps[5], 3), 5, 2)
      /\ Share(ps, Trio(ps[6], 0), 6, 6) /\ Share(ps, Trio(ps[6], 1), 6, 6)
      /\ Share(ps, Trio(ps[6], 2), 6, 5) /\ Share(ps, Trio(ps[6], 3), 6, 3)
  BY <1>4, <1>5 DEF Share, Sided
<1> HIDE DEF C
<1>9. \A i \in DOMAIN ps, f \in Local : Met(ps, i, f)
  <2>1. /\ \A f \in Local : Met(ps, 1, f)
        /\ \A f \in Local : Met(ps, 2, f)
        /\ \A f \in Local : Met(ps, 3, f)
        /\ \A f \in Local : Met(ps, 4, f)
        /\ \A f \in Local : Met(ps, 5, f)
        /\ \A f \in Local : Met(ps, 6, f)
    BY <1>4, <1>5, <1>8 DEF Met, Local, Sided
  <2>2. \A i \in DOMAIN ps : i = 1 \/ i = 2 \/ i = 3 \/ i = 4 \/ i = 5 \/ i = 6
    BY <1>5
  <2> QED
    BY <2>1, <2>2
<1>10. /\ {1, 8, 2} = Trio(ps[4], 0) /\ {3, 8, 2} = Trio(ps[6], 0) /\ {0, 6, 5} = Trio(ps[1], 1)
      /\ {3, 6, 5} = Trio(ps[5], 1) /\ {3, 2, 5} = Trio(ps[6], 1) /\ {0, 4, 6} = Trio(ps[1], 2)
      /\ {1, 4, 8} = Trio(ps[4], 2) /\ {3, 6, 8} = Trio(ps[5], 2) /\ {4, 6, 8} = Trio(ps[2], 2)
      /\ {0, 5, 4} = Trio(ps[1], 3) /\ {2, 5, 4} = Trio(ps[3], 3) /\ {2, 1, 4} = Trio(ps[4], 3)
  BY <1>4 DEF Sided
<1>11. /\ CutOf(0, {0, 1, 2, 4}, num) = {Trio(ps[4], 0), Trio(ps[6], 0)}
      /\ CutOf(1, {0, 1, 2, 4}, num) = {Trio(ps[1], 1), Trio(ps[5], 1), Trio(ps[6], 1)}
      /\ CutOf(2, {0, 1, 2, 4}, num) = {Trio(ps[1], 2), Trio(ps[4], 2), Trio(ps[5], 2), Trio(ps[2], 2)}
      /\ CutOf(3, {0, 1, 2, 4}, num) = {Trio(ps[1], 3), Trio(ps[3], 3), Trio(ps[4], 3)}
  BY <1>6, <1>10
<1>12. /\ {i \in DOMAIN ps : 0 \notin ps[i].reset} = {4, 6}
      /\ {i \in DOMAIN ps : 1 \notin ps[i].reset} = {1, 5, 6}
      /\ {i \in DOMAIN ps : 2 \notin ps[i].reset} = {1, 2, 4, 5}
      /\ {i \in DOMAIN ps : 3 \notin ps[i].reset} = {1, 3, 4}
  BY <1>4, <1>5 DEF Sided
<1>13. \A f \in Local : Covers(ps, f, {0, 1, 2, 4}, num)
  BY <1>11, <1>12 DEF Covers, Local
<1> QED
  BY <1>3, <1>5, <1>7, <1>9, <1>13 DEF Fits, ps

(* The pieces of split4op_01_23.                                           *)
LEMMA split4op_01_23_fits ==
  ASSUME NEW c, NEW v, NEW num, Ordered(c, v, num),
         num[0] < num[1], num[2] < num[3]
  PROVE  Fits(split4op(c, v), {1, 2, 3, 4}, num)
<1> DEFINE ps == << P(<<0, 1, m3, m4>>, <<K, F3, F2, K, K, F0>>, {1}),
                  P(<<0, m4, m3, m2>>, <<F2, F3, K, F0, F2, N>>, {0, 1, 3}),
                  P(<<0, m3, m1, m2>>, <<F3, K, K, F3, N, F1>>, {0, 2}),
                  P(<<m2, m4, 2, 3>>, <<F2, F1, K, F0, K, K>>, {3}),
                  P(<<m2, m3, 2, m4>>, <<N, F1, F2, K, F0, F0>>, {1, 2, 3}),
                  P(<<m1, m3, 2, m2>>, <<F3, K, F1, K, N, F1>>, {0, 2}) >>
           C  == <<{0, 1, 7, 8}, {0, 8, 7, 6}, {0, 7, 5, 6}, {6, 8, 2, 3},
                  {6, 7, 2, 8}, {5, 7, 2, 6}>>
<1>1. num[0] < num[1] /\ ~(num[1] < num[0]) /\ num[2] < num[3] /\ ~(num[3] < num[2])
  BY DEF Ordered, Local
<1>2. First(c, v, 0, 1) /\ ~First(c, v, 1, 0) /\ First(c, v, 2, 3) /\ ~First(c, v, 3, 2)
  BY DEF Ordered, Local
<1>3. split4op(c, v) = ps
  <2>1. split4op01(c, v) = << P(<<0, 1, m3, m4>>, <<K, F3, F2, K, K, F0>>, {1}),
                           P(<<0, m4, m3, m2>>, <<F2, F3, K, F0, F2, N>>, {0, 1, 3}),
                           P(<<0, m3, m1, m2>>, <<F3, K, K, F3, N, F1>>, {0, 2}) >>
    BY <1>2 DEF split4op01
  <2>2. split4op23(c, v) = << P(<<m2, m4, 2, 3>>, <<F2, F1, K, F0, K, K>>, {3}),
                           P(<<m2, m3, 2, m4>>, <<N, F1, F2, K, F0, F0>>, {1, 2, 3}),
                           P(<<m1, m3, 2, m2>>, <<F3, K, F1, K, N, F1>>, {0, 2}) >>
    BY <1>2 DEF split4op23
  <2> QED
    BY <2>1, <2>2, Row33 DEF split4op
<1>4. /\ Sided(ps[1], {1}, {1, 7, 8}, {0, 7, 8}, {0, 1, 8}, {0, 1, 7})
      /\ Sided(ps[2], {0, 1, 3}, {8, 7, 6}, {0, 7, 6}, {0, 8, 6}, {0, 8, 7})
      /\ Sided(ps[3], {0, 2}, {7, 5, 6}, {0, 5, 6}, {0, 7, 6}, {0, 7, 5})
      /\ Sided(ps[4], {3}, {8, 2, 3}, {6, 2, 3}, {6, 8, 3}, {6, 8, 2})
      /\ Sided(ps[5], {1, 2, 3}, {7, 2, 8}, {6, 2, 8}, {6, 7, 8}, {6, 7, 2})
      /\ Sided(ps[6], {0, 2}, {7, 2, 6}, {5, 2, 6}, {5, 7, 6}, {5, 7, 2})
  BY Trios DEF P, Sided, m0, m1, m2, m3, m4, m5
<1>5. DOMAIN ps = 1..6 /\ \A i \in 1..6 : VerticesOf(ps[i]) = C[i]
  BY DEF P, VerticesOf, m0, m1, m2, m3, m4, m5
<1>6. /\ CutOf(0, {1, 2, 3, 4}, num) = {{1, 7, 8}, {2, 7, 8}, {2, 3, 8}}
      /\ CutOf(1, {1, 2, 3, 4}, num) = {{0, 5, 6}, {2, 5, 6}, {2, 3, 6}}
      /\ CutOf(2, {1, 2, 3, 4}, num) = {{3, 6, 8}, {0, 6, 8}, {0, 1, 8}}
      /\ CutOf(3, {1, 2, 3, 4}, num) = {{2, 5, 7}, {0, 5, 7}, {0, 1, 7}}
  BY <1>1 DEF CutOf, CutSet, OneCut, TwoCut, ThreeCut, m0
<1>7. \A i, j \in 1..6 : C[i] \subseteq C[j] => i = j
  OBVIOUS
<1> HIDE DEF ps
<1>8. /\ Share(ps, Trio(ps[1], 0), 1, 1) /\ Share(ps, Trio(ps[1], 1), 1, 2)
      /\ Share(ps, Trio(ps[1], 2), 1, 1) /\ Share(ps, Trio(ps[1], 3), 1, 1)
      /\ Share(ps, Trio(ps[2], 0), 2, 5) /\ Share(ps, Trio(ps[2], 1), 2, 3)
      /\ Share(ps, Trio(ps[2], 2), 2, 2) /\ Share(ps, Trio(ps[2], 3), 2, 1)
      /\ Share(ps, Trio(ps[3], 0), 3, 6) /\ Share(ps, Trio(ps[3], 1), 3, 3)
      /\ Share(ps, Trio(ps[3], 2), 3, 2) /\ Share(ps, Trio(ps[3], 3), 3, 3)
      /\ Share(ps, Trio(ps[4], 0), 4, 4) /\ Share(ps, Trio(ps[4], 1), 4, 4)
      /\ Share(ps, Trio(ps[4], 2), 4, 4) /\ Share(ps, Trio(ps[4], 3), 4, 5)
      /\ Share(ps, Trio(ps[5], 0), 5, 5) /\ Share(ps, Trio(ps[5], 1), 5, 4)
      /\ Share(ps, Trio(ps[5], 2), 5, 2) /\ Share(ps, Trio(ps[5], 3), 5, 6)
      /\ Share(ps, Trio(ps[6], 0), 6, 5) /\ Share(ps, Trio(ps[6], 1), 6, 6)
      /\ Share(ps, Trio(ps[6], 2), 6, 3) /\ Share(ps, Trio(ps[6], 3), 6, 6)
  BY <1>4, <1>5 DEF Share, Sided
<1> HIDE DEF C
<1>9. \A i \in DOMAIN ps, f \in Local : Met(ps, i, f)
  <2>1. /\ \A f \in Local : Met(ps, 1, f)
        /\ \A f \in Local : Met(ps, 2, f)
        /\ \A f \in Local : Met(ps, 3, f)
        /\ \A f \in Local : Met(ps, 4, f)
        /\ \A f \in Local : Met(ps, 5, f)
        /\ \A f \in Local : Met(ps, 6, f)
    BY <1>4, <1>5, <1>8 DEF Met, Local, Sided
  <2>2. \A i \in DOMAIN ps : i = 1 \/ i = 2 \/ i = 3 \/ i = 4 \/ i = 5 \/ i = 6
    BY <1>5
  <2> QED
    BY <2>1, <2>2
<1>10. /\ {1, 7, 8} = Trio(ps[1], 0) /\ {2, 7, 8} = Trio(ps[5], 0) /\ {2, 3, 8} = Trio(ps[4], 0)
      /\ {0, 5, 6} = Trio(ps[3], 1) /\ {2, 5, 6} = Trio(ps[6], 1) /\ {2, 3, 6} = Trio(ps[4], 1)
      /\ {3, 6, 8} = Trio(ps[4], 2) /\ {0, 6, 8} = Trio(ps[2], 2) /\ {0, 1, 8} = Trio(ps[1], 2)
      /\ {2, 5, 7} = Trio(ps[6], 3) /\ {0, 5, 7} = Trio(ps[3], 3) /\ {0, 1, 7} = Trio(ps[1], 3)
  BY <1>4 DEF Sided
<1>11. /\ CutOf(0, {1, 2, 3, 4}, num) = {Trio(ps[1], 0), Trio(ps[5], 0), Trio(ps[4], 0)}
      /\ CutOf(1, {1, 2, 3, 4}, num) = {Trio(ps[3], 1), Trio(ps[6], 1), Trio(ps[4], 1)}
      /\ CutOf(2, {1, 2, 3, 4}, num) = {Trio(ps[4], 2), Trio(ps[2], 2), Trio(ps[1], 2)}
      /\ CutOf(3, {1, 2, 3, 4}, num) = {Trio(ps[6], 3), Trio(ps[3], 3), Trio(ps[1], 3)}
  BY <1>6, <1>10
<1>12. /\ {i \in DOMAIN ps : 0 \notin ps[i].reset} = {1, 4, 5}
      /\ {i \in DOMAIN ps : 1 \notin ps[i].reset} = {3, 4, 6}
      /\ {i \in DOMAIN ps : 2 \notin ps[i].reset} = {1, 2, 4}
      /\ {i \in DOMAIN ps : 3 \notin ps[i].reset} = {1, 3, 6}
  BY <1>4, <1>5 DEF Sided
<1>13. \A f \in Local : Covers(ps, f, {1, 2, 3, 4}, num)
  BY <1>11, <1>12 DEF Covers, Local
<1> QED
  BY <1>3, <1>5, <1>7, <1>9, <1>13 DEF Fits, ps

(* The pieces of split4op_01_32.                                           *)
LEMMA split4op_01_32_fits ==
  ASSUME NEW c, NEW v, NEW num, Ordered(c, v, num),
         num[0] < num[1], num[3] < num[2]
  PROVE  Fits(split4op(c, v), {1, 2, 3, 4}, num)
<1> DEFINE ps == << P(<<0, 1, m3, m4>>, <<K, F3, F2, K, K, F0>>, {1}),
                  P(<<0, m4, m3, m2>>, <<F2, F3, K, F0, F2, N>>, {0, 1, 3}),
                  P(<<0, m3, m1, m2>>, <<F3, K, K, F3, N, F1>>, {0, 2}),
                  P(<<m1, m3, 2, 3>>, <<F3, K, F1, K, F0, K>>, {2}),
                  P(<<m2, m3, m1, 3>>, <<N, F1, K, F3, F0, F1>>, {0, 2, 3}),
                  P(<<m2, m4, m3, 3>>, <<F2, N, K, F0, K, F0>>, {1, 3}) >>
           C  == <<{0, 1, 7, 8}, {0, 8, 7, 6}, {0, 7, 5, 6}, {5, 7, 2, 3},
                  {6, 7, 5, 3}, {6, 8, 7, 3}>>
<1>1. num[0] < num[1] /\ ~(num[1] < num[0]) /\ num[3] < num[2] /\ ~(num[2] < num[3])
  BY DEF Ordered, Local
<1>2. First(c, v, 0, 1) /\ ~First(c, v, 1, 0) /\ First(c, v, 3, 2) /\ ~First(c, v, 2, 3)
  BY DEF Ordered, Local
<1>3. split4op(c, v) = ps
  <2>1. split4op01(c, v) = << P(<<0, 1, m3, m4>>, <<K, F3, F2, K, K, F0>>, {1}),
                           P(<<0, m4, m3, m2>>, <<F2, F3, K, F0, F2, N>>, {0, 1, 3}),
                           P(<<0, m3, m1, m2>>, <<F3, K, K, F3, N, F1>>, {0, 2}) >>
    BY <1>2 DEF split4op01
  <2>2. split4op23(c, v) = << P(<<m1, m3, 2, 3>>, <<F3, K, F1, K, F0, K>>, {2}),
                           P(<<m2, m3, m1, 3>>, <<N, F1, K, F3, F0, F1>>, {0, 2, 3}),
                           P(<<m2, m4, m3, 3>>, <<F2, N, K, F0, K, F0>>, {1, 3}) >>
    BY <1>2 DEF split4op23
  <2> QED
    BY <2>1, <2>2, Row33 DEF split4op
<1>4. /\ Sided(ps[1], {1}, {1, 7, 8}, {0, 7, 8}, {0, 1, 8}, {0, 1, 7})
      /\ Sided(ps[2], {0, 1, 3}, {8, 7, 6}, {0, 7, 6}, {0, 8, 6}, {0, 8, 7})
      /\ Sided(ps[3], {0, 2}, {7, 5, 6}, {0, 5, 6}, {0, 7, 6}, {0, 7, 5})
      /\ Sided(ps[4], {2}, {7, 2, 3}, {5, 2, 3}, {5, 7, 3}, {5, 7, 2})
      /\ Sided(ps[5], {0, 2, 3}, {7, 5, 3}, {6, 5, 3}, {6, 7, 3}, {6, 7, 5})
      /\ Sided(ps[6], {1, 3}, {8, 7, 3}, {6, 7, 3}, {6, 8, 3}, {6, 8, 7})
  BY Trios DEF P, Sided, m0, m1, m2, m3, m4, m5
<1>5. DOMAIN ps = 1..6 /\ \A i \in 1..6 : VerticesOf(ps[i]) = C[i]
  BY DEF P, VerticesOf, m0, m1, m2, m3, m4, m5
<1>6. /\ CutOf(0, {1, 2, 3, 4}, num) = {{1, 8, 7}, {3, 8, 7}, {3, 2, 7}}
      /\ CutOf(1, {1, 2, 3, 4}, num) = {{0, 6, 5}, {3, 6, 5}, {3, 2, 5}}
      /\ CutOf(2, {1, 2, 3, 4}, num) = {{3, 6, 8}, {0, 6, 8}, {0, 1, 8}}
      /\ CutOf(3, {1, 2, 3, 4}, num) = {{2, 5, 7}, {0, 5, 7}, {0, 1, 7}}
  BY <1>1 DEF CutOf, CutSet, OneCut, TwoCut, ThreeCut, m0
<1>7. \A i, j \in 1..6 : C[i] \subseteq C[j] => i = j
  OBVIOUS
<1> HIDE DEF ps
<1>8. /\ Share(ps, Trio(ps[1], 0), 1, 1) /\ Share(ps, Trio(ps[1], 1), 1, 2)
      /\ Share(ps, Trio(ps[1], 2), 1, 1) /\ Share(ps, Trio(ps[1], 3), 1, 1)
      /\ Share(ps, Trio(ps[2], 0), 2, 6) /\ Share(ps, Trio(ps[2], 1), 2, 3)
      /\ Share(ps, Trio(ps[2], 2), 2, 2) /\ Share(ps, Trio(ps[2], 3), 2, 1)
      /\ Share(ps, Trio(ps[3], 0), 3, 5) /\ Share(ps, Trio(ps[3], 1), 3, 3)
      /\ Share(ps, Trio(ps[3], 2), 3, 2) /\ Share(ps, Trio(ps[3], 3), 3, 3)
      /\ Share(ps, Trio(ps[4], 0), 4, 4) /\ Share(ps, Trio(ps[4], 1), 4, 4)
      /\ Share(ps, Trio(ps[4], 2), 4, 5) /\ Share(ps, Trio(ps[4], 3), 4, 4)
      /\ Share(ps, Trio(ps[5], 0), 5, 4) /\ Share(ps, Trio(ps[5], 1), 5, 5)
      /\ Share(ps, Trio(ps[5], 2), 5, 6) /\ Share(ps, Trio(ps[5], 3), 5, 3)
      /\ Share(ps, Trio(ps[6], 0), 6, 6) /\ Share(ps, Trio(ps[6], 1), 6, 5)
      /\ Share(ps, Trio(ps[6], 2), 6, 6) /\ Share(ps, Trio(ps[6], 3), 6, 2)
  BY <1>4, <1>5 DEF Share, Sided
<1> HIDE DEF C
<1>9. \A i \in DOMAIN ps, f \in Local : Met(ps, i, f)
  <2>1. /\ \A f \in Local : Met(ps, 1, f)
        /\ \A f \in Local : Met(ps, 2, f)
        /\ \A f \in Local : Met(ps, 3, f)
        /\ \A f \in Local : Met(ps, 4, f)
        /\ \A f \in Local : Met(ps, 5, f)
        /\ \A f \in Local : Met(ps, 6, f)
    BY <1>4, <1>5, <1>8 DEF Met, Local, Sided
  <2>2. \A i \in DOMAIN ps : i = 1 \/ i = 2 \/ i = 3 \/ i = 4 \/ i = 5 \/ i = 6
    BY <1>5
  <2> QED
    BY <2>1, <2>2
<1>10. /\ {1, 8, 7} = Trio(ps[1], 0) /\ {3, 8, 7} = Trio(ps[6], 0) /\ {3, 2, 7} = Trio(ps[4], 0)
      /\ {0, 6, 5} = Trio(ps[3], 1) /\ {3, 6, 5} = Trio(ps[5], 1) /\ {3, 2, 5} = Trio(ps[4], 1)
      /\ {3, 6, 8} = Trio(ps[6], 2) /\ {0, 6, 8} = Trio(ps[2], 2) /\ {0, 1, 8} = Trio(ps[1], 2)
      /\ {2, 5, 7} = Trio(ps[4], 3) /\ {0, 5, 7} = Trio(ps[3], 3) /\ {0, 1, 7} = Trio(ps[1], 3)
  BY <1>4 DEF Sided
<1>11. /\ CutOf(0, {1, 2, 3, 4}, num) = {Trio(ps[1], 0), Trio(ps[6], 0), Trio(ps[4], 0)}
      /\ CutOf(1, {1, 2, 3, 4}, num) = {Trio(ps[3], 1), Trio(ps[5], 1), Trio(ps[4], 1)}
      /\ CutOf(2, {1, 2, 3, 4}, num) = {Trio(ps[6], 2), Trio(ps[2], 2), Trio(ps[1], 2)}
      /\ CutOf(3, {1, 2, 3, 4}, num) = {Trio(ps[4], 3), Trio(ps[3], 3), Trio(ps[1], 3)}
  BY <1>6, <1>10
<1>12. /\ {i \in DOMAIN ps : 0 \notin ps[i].reset} = {1, 4, 6}
      /\ {i \in DOMAIN ps : 1 \notin ps[i].reset} = {3, 4, 5}
      /\ {i \in DOMAIN ps : 2 \notin ps[i].reset} = {1, 2, 6}
      /\ {i \in DOMAIN ps : 3 \notin ps[i].reset} = {1, 3, 4}
  BY <1>4, <1>5 DEF Sided
<1>13. \A f \in Local : Covers(ps, f, {1, 2, 3, 4}, num)
  BY <1>11, <1>12 DEF Covers, Local
<1> QED
  BY <1>3, <1>5, <1>7, <1>9, <1>13 DEF Fits, ps

(* The pieces of split4op_10_23.                                           *)
LEMMA split4op_10_23_fits ==
  ASSUME NEW c, NEW v, NEW num, Ordered(c, v, num),
         num[1] < num[0], num[2] < num[3]
  PROVE  Fits(split4op(c, v), {1, 2, 3, 4}, num)
<1> DEFINE ps == << P(<<0, 1, m1, m2>>, <<K, K, K, F3, F2, F1>>, {0}),
                  P(<<m1, 1, m3, m2>>, <<F3, F3, F1, K, F2, N>>, {0, 1, 2}),
                  P(<<m2, 1, m3, m4>>, <<F2, N, F2, K, K, F0>>, {1, 3}),
                  P(<<m2, m4, 2, 3>>, <<F2, F1, K, F0, K, K>>, {3}),
                  P(<<m2, m3, 2, m4>>, <<N, F1, F2, K, F0, F0>>, {1, 2, 3}),
                  P(<<m1, m3, 2, m2>>, <<F3, K, F1, K, N, F1>>, {0, 2}) >>
           C  == <<{0, 1, 5, 6}, {5, 1, 7, 6}, {6, 1, 7, 8}, {6, 8, 2, 3},
                  {6, 7, 2, 8}, {5, 7, 2, 6}>>
<1>1. num[1] < num[0] /\ ~(num[0] < num[1]) /\ num[2] < num[3] /\ ~(num[3] < num[2])
  BY DEF Ordered, Local
<1>2. First(c, v, 1, 0) /\ ~First(c, v, 0, 1) /\ First(c, v, 2, 3) /\ ~First(c, v, 3, 2)
  BY DEF Ordered, Local
<1>3. split4op(c, v) = ps
  <2>1. split4op01(c, v) = << P(<<0, 1, m1, m2>>, <<K, K, K, F3, F2, F1>>, {0}),
                           P(<<m1, 1, m3, m2>>, <<F3, F3, F1, K, F2, N>>, {0, 1, 2}),
                           P(<<m2, 1, m3, m4>>, <<F2, N, F2, K, K, F0>>, {1, 3}) >>
    BY <1>2 DEF split4op01
  <2>2. split4op23(c, v) = << P(<<m2, m4, 2, 3>>, <<F2, F1, K, F0, K, K>>, {3}),
                           P(<<m2, m3, 2, m4>>, <<N, F1, F2, K, F0, F0>>, {1, 2, 3}),
                           P(<<m1, m3, 2, m2>>, <<F3, K, F1, K, N, F1>>, {0, 2}) >>
    BY <1>2 DEF split4op23
  <2> QED
    BY <2>1, <2>2, Row33 DEF split4op
<1>4. /\ Sided(ps[1], {0}, {1, 5, 6}, {0, 5, 6}, {0, 1, 6}, {0, 1, 5})
      /\ Sided(ps[2], {0, 1, 2}, {1, 7, 6}, {5, 7, 6}, {5, 1, 6}, {5, 1, 7})
      /\ Sided(ps[3], {1, 3}, {1, 7, 8}, {6, 7, 8}, {6, 1, 8}, {6, 1, 7})
      /\ Sided(ps[4], {3}, {8, 2, 3}, {6, 2, 3}, {6, 8, 3}, {6, 8, 2})
      /\ Sided(ps[5], {1, 2, 3}, {7, 2, 8}, {6, 2, 8}, {6, 7, 8}, {6, 7, 2})
      /\ Sided(ps[6], {0, 2}, {7, 2, 6}, {5, 2, 6}, {5, 7, 6}, {5, 7, 2})
  BY Trios DEF P, Sided, m0, m1, m2, m3, m4, m5
<1>5. DOMAIN ps = 1..6 /\ \A i \in 1..6 : VerticesOf(ps[i]) = C[i]
  BY DEF P, VerticesOf, m0, m1, m2, m3, m4, m5
<1>6. /\ CutOf(0, {1, 2, 3, 4}, num) = {{1, 7, 8}, {2, 7, 8}, {2, 3, 8}}
      /\ CutOf(1, {1, 2, 3, 4}, num) = {{0, 5, 6}, {2, 5, 6}, {2, 3, 6}}
      /\ CutOf(2, {1, 2, 3, 4}, num) = {{3, 8, 6}, {1, 8, 6}, {1, 0, 6}}
      /\ CutOf(3, {1, 2, 3, 4}, num) = {{2, 7, 5}, {1, 7, 5}, {1, 0, 5}}
  BY <1>1 DEF CutOf, CutSet, OneCut, TwoCut, ThreeCut, m0
<1>7. \A i, j \in 1..6 : C[i] \subseteq C[j] => i = j
  OBVIOUS
<1> HIDE DEF ps
<1>8. /\ Share(ps, Trio(ps[1], 0), 1, 2) /\ Share(ps, Trio(ps[1], 1), 1, 1)
      /\ Share(ps, Trio(ps[1], 2), 1, 1) /\ Share(ps, Trio(ps[1], 3), 1, 1)
      /\ Share(ps, Trio(ps[2], 0), 2, 3) /\ Share(ps, Trio(ps[2], 1), 2, 6)
      /\ Share(ps, Trio(ps[2], 2), 2, 1) /\ Share(ps, Trio(ps[2], 3), 2, 2)
      /\ Share(ps, Trio(ps[3], 0), 3, 3) /\ Share(ps, Trio(ps[3], 1), 3, 5)
      /\ Share(ps, Trio(ps[3], 2), 3, 3) /\ Share(ps, Trio(ps[3], 3), 3, 2)
      /\ Share(ps, Trio(ps[4], 0), 4, 4) /\ Share(ps, Trio(ps[4], 1), 4, 4)
      /\ Share(ps, Trio(ps[4], 2), 4, 4) /\ Share(ps, Trio(ps[4], 3), 4, 5)
      /\ Share(ps, Trio(ps[5], 0), 5, 5) /\ Share(ps, Trio(ps[5], 1), 5, 4)
      /\ Share(ps, Trio(ps[5], 2), 5, 3) /\ Share(ps, Trio(ps[5], 3), 5, 6)
      /\ Share(ps, Trio(ps[6], 0), 6, 5) /\ Share(ps, Trio(ps[6], 1), 6, 6)
      /\ Share(ps, Trio(ps[6], 2), 6, 2) /\ Share(ps, Trio(ps[6], 3), 6, 6)
  BY <1>4, <1>5 DEF Share, Sided
<1> HIDE DEF C
<1>9. \A i \in DOMAIN ps, f \in Local : Met(ps, i, f)
  <2>1. /\ \A f \in Local : Met(ps, 1, f)
        /\ \A f \in Local : Met(ps, 2, f)
        /\ \A f \in Local : Met(ps, 3, f)
        /\ \A f \in Local : Met(ps, 4, f)
        /\ \A f \in Local : Met(ps, 5, f)
        /\ \A f \in Local : Met(ps, 6, f)
    BY <1>4, <1>5, <1>8 DEF Met, Local, Sided
  <2>2. \A i \in DOMAIN ps : i = 1 \/ i = 2 \/ i = 3 \/ i = 4 \/ i = 5 \/ i = 6
    BY <1>5
  <2> QED
    BY <2>1, <2>2
<1>10. /\ {1, 7, 8} = Trio(ps[3], 0) /\ {2, 7, 8} = Trio(ps[5], 0) /\ {2, 3, 8} = Trio(ps[4], 0)
      /\ {0, 5, 6} = Trio(ps[1], 1) /\ {2, 5, 6} = Trio(ps[6], 1) /\ {2, 3, 6} = Trio(ps[4], 1)
      /\ {3, 8, 6} = Trio(ps[4], 2) /\ {1, 8, 6} = Trio(ps[3], 2) /\ {1, 0, 6} = Trio(ps[1], 2)
      /\ {2, 7, 5} = Trio(ps[6], 3) /\ {1, 7, 5} = Trio(ps[2], 3) /\ {1, 0, 5} = Trio(ps[1], 3)
  BY <1>4 DEF Sided
<1>11. /\ CutOf(0, {1, 2, 3, 4}, num) = {Trio(ps[3], 0), Trio(ps[5], 0), Trio(ps[4], 0)}
      /\ CutOf(1, {1, 2, 3, 4}, num) = {Trio(ps[1], 1), Trio(ps[6], 1), Trio(ps[4], 1)}
      /\ CutOf(2, {1, 2, 3, 4}, num) = {Trio(ps[4], 2), Trio(ps[3], 2), Trio(ps[1], 2)}
      /\ CutOf(3, {1, 2, 3, 4}, num) = {Trio(ps[6], 3), Trio(ps[2], 3), Trio(ps[1], 3)}
  BY <1>6, <1>10
<1>12. /\ {i \in DOMAIN ps : 0 \notin ps[i].reset} = {3, 4, 5}
      /\ {i \in DOMAIN ps : 1 \notin ps[i].reset} = {1, 4, 6}
      /\ {i \in DOMAIN ps : 2 \notin ps[i].reset} = {1, 3, 4}
      /\ {i \in DOMAIN ps : 3 \notin ps[i].reset} = {1, 2, 6}
  BY <1>4, <1>5 DEF Sided
<1>13. \A f \in Local : Covers(ps, f, {1, 2, 3, 4}, num)
  BY <1>11, <1>12 DEF Covers, Local
<1> QED
  BY <1>3, <1>5, <1>7, <1>9, <1>13 DEF Fits, ps

(* The pieces of split4op_10_32.                                           *)
LEMMA split4op_10_32_fits ==
  ASSUME NEW c, NEW v, NEW num, Ordered(c, v, num),
         num[1] < num[0], num[3] < num[2]
  PROVE  Fits(split4op(c, v), {1, 2, 3, 4}, num)
<1> DEFINE ps == << P(<<0, 1, m1, m2>>, <<K, K, K, F3, F2, F1>>, {0}),
                  P(<<m1, 1, m3, m2>>, <<F3, F3, F1, K, F2, N>>, {0, 1, 2}),
                  P(<<m2, 1, m3, m4>>, <<F2, N, F2, K, K, F0>>, {1, 3}),
                  P(<<m1, m3, 2, 3>>, <<F3, K, F1, K, F0, K>>, {2}),
                  P(<<m2, m3, m1, 3>>, <<N, F1, K, F3, F0, F1>>, {0, 2, 3}),
                  P(<<m2, m4, m3, 3>>, <<F2, N, K, F0, K, F0>>, {1, 3}) >>
           C  == <<{0, 1, 5, 6}, {5, 1, 7, 6}, {6, 1, 7, 8}, {5, 7, 2, 3},
                  {6, 7, 5, 3}, {6, 8, 7, 3}>>
<1>1. num[1] < num[0] /\ ~(num[0] < num[1]) /\ num[3] < num[2] /\ ~(num[2] < num[3])
  BY DEF Ordered, Local
<1>2. First(c, v, 1, 0) /\ ~First(c, v, 0, 1) /\ First(c, v, 3, 2) /\ ~First(c, v, 2, 3)
  BY DEF Ordered, Local
<1>3. split4op(c, v) = ps
  <2>1. split4op01(c, v) = << P(<<0, 1, m1, m2>>, <<K, K, K, F3, F2, F1>>, {0}),
                           P(<<m1, 1, m3, m2>>, <<F3, F3, F1, K, F2, N>>, {0, 1, 2}),
                           P(<<m2, 1, m3, m4>>, <<F2, N, F2, K, K, F0>>, {1, 3}) >>
    BY <1>2 DEF split4op01
  <2>2. split4op23(c, v) = << P(<<m1, m3, 2, 3>>, <<F3, K, F1, K, F0, K>>, {2}),
                           P(<<m2, m3, m1, 3>>, <<N, F1, K, F3, F0, F1>>, {0, 2, 3}),
                           P(<<m2, m4, m3, 3>>, <<F2, N, K, F0, K, F0>>, {1, 3}) >>
    BY <1>2 DEF split4op23
  <2> QED
    BY <2>1, <2>2, Row33 DEF split4op
<1>4. /\ Sided(ps[1], {0}, {1, 5, 6}, {0, 5, 6}, {0, 1, 6}, {0, 1, 5})
      /\ Sided(ps[2], {0, 1, 2}, {1, 7, 6}, {5, 7, 6}, {5, 1, 6}, {5, 1, 7})
      /\ Sided(ps[3], {1, 3}, {1, 7, 8}, {6, 7, 8}, {6, 1, 8}, {6, 1, 7})
      /\ Sided(ps[4], {2}, {7, 2, 3}, {5, 2, 3}, {5, 7, 3}, {5, 7, 2})
      /\ Sided(ps[5], {0, 2, 3}, {7, 5, 3}, {6, 5, 3}, {6, 7, 3}, {6, 7, 5})
      /\ Sided(ps[6], {1, 3}, {8, 7, 3}, {6, 7, 3}, {6, 8, 3}, {6, 8, 7})
  BY Trios DEF P, Sided, m0, m1, m2, m3, m4, m5
<1>5. DOMAIN ps = 1..6 /\ \A i \in 1..6 : VerticesOf(ps[i]) = C[i]
  BY DEF P, VerticesOf, m0, m1, m2, m3, m4, m5
<1>6. /\ CutOf(0, {1, 2, 3, 4}, num) = {{1, 8, 7}, {3, 8, 7}, {3, 2, 7}}
      /\ CutOf(1, {1, 2, 3, 4}, num) = {{0, 6, 5}, {3, 6, 5}, {3, 2, 5}}
      /\ CutOf(2, {1, 2, 3, 4}, num) = {{3, 8, 6}, {1, 8, 6}, {1, 0, 6}}
      /\ CutOf(3, {1, 2, 3, 4}, num) = {{2, 7, 5}, {1, 7, 5}, {1, 0, 5}}
  BY <1>1 DEF CutOf, CutSet, OneCut, TwoCut, ThreeCut, m0
<1>7. \A i, j \in 1..6 : C[i] \subseteq C[j] => i = j
  OBVIOUS
<1> HIDE DEF ps
<1>8. /\ Share(ps, Trio(ps[1], 0), 1, 2) /\ Share(ps, Trio(ps[1], 1), 1, 1)
      /\ Share(ps, Trio(ps[1], 2), 1, 1) /\ Share(ps, Trio(ps[1], 3), 1, 1)
      /\ Share(ps, Trio(ps[2], 0), 2, 3) /\ Share(ps, Trio(ps[2], 1), 2, 5)
      /\ Share(ps, Trio(ps[2], 2), 2, 1) /\ Share(ps, Trio(ps[2], 3), 2, 2)
      /\ Share(ps, Trio(ps[3], 0), 3, 3) /\ Share(ps, Trio(ps[3], 1), 3, 6)
      /\ Share(ps, Trio(ps[3], 2), 3, 3) /\ Share(ps, Trio(ps[3], 3), 3, 2)
      /\ Share(ps, Trio(ps[4], 0), 4, 4) /\ Share(ps, Trio(ps[4], 1), 4, 4)
      /\ Share(ps, Trio(ps[4], 2), 4, 5) /\ Share(ps, Trio(ps[4], 3), 4, 4)
      /\ Share(ps, Trio(ps[5], 0), 5, 4) /\ Share(ps, Trio(ps[5], 1), 5, 5)
      /\ Share(ps, Trio(ps[5], 2), 5, 6) /\ Share(ps, Trio(ps[5], 3), 5, 2)
      /\ Share(ps, Trio(ps[6], 0), 6, 6) /\ Share(ps, Trio(ps[6], 1), 6, 5)
      /\ Share(ps, Trio(ps[6], 2), 6, 6) /\ Share(ps, Trio(ps[6], 3), 6, 3)
  BY <1>4, <1>5 DEF Share, Sided
<1> HIDE DEF C
<1>9. \A i \in DOMAIN ps, f \in Local : Met(ps, i, f)
  <2>1. /\ \A f \in Local : Met(ps, 1, f)
        /\ \A f \in Local : Met(ps, 2, f)
        /\ \A f \in Local : Met(ps, 3, f)
        /\ \A f \in Local : Met(ps, 4, f)
        /\ \A f \in Local : Met(ps, 5, f)
        /\ \A f \in Local : Met(ps, 6, f)
    BY <1>4, <1>5, <1>8 DEF Met, Local, Sided
  <2>2. \A i \in DOMAIN ps : i = 1 \/ i = 2 \/ i = 3 \/ i = 4 \/ i = 5 \/ i = 6
    BY <1>5
  <2> QED
    BY <2>1, <2>2
<1>10. /\ {1, 8, 7} = Trio(ps[3], 0) /\ {3, 8, 7} = Trio(ps[6], 0) /\ {3, 2, 7} = Trio(ps[4], 0)
      /\ {0, 6, 5} = Trio(ps[1], 1) /\ {3, 6, 5} = Trio(ps[5], 1) /\ {3, 2, 5} = Trio(ps[4], 1)
      /\ {3, 8, 6} = Trio(ps[6], 2) /\ {1, 8, 6} = Trio(ps[3], 2) /\ {1, 0, 6} = Trio(ps[1], 2)
      /\ {2, 7, 5} = Trio(ps[4], 3) /\ {1, 7, 5} = Trio(ps[2], 3) /\ {1, 0, 5} = Trio(ps[1], 3)
  BY <1>4 DEF Sided
<1>11. /\ CutOf(0, {1, 2, 3, 4}, num) = {Trio(ps[3], 0), Trio(ps[6], 0), Trio(ps[4], 0)}
      /\ CutOf(1, {1, 2, 3, 4}, num) = {Trio(ps[1], 1), Trio(ps[5], 1), Trio(ps[4], 1)}
      /\ CutOf(2, {1, 2, 3, 4}, num) = {Trio(ps[6], 2), Trio(ps[3], 2), Trio(ps[1], 2)}
      /\ CutOf(3, {1, 2, 3, 4}, num) = {Trio(ps[4], 3), Trio(ps[2], 3), Trio(ps[1], 3)}
  BY <1>6, <1>10
<1>12. /\ {i \in DOMAIN ps : 0 \notin ps[i].reset} = {3, 4, 6}
      /\ {i \in DOMAIN ps : 1 \notin ps[i].reset} = {1, 4, 5}
      /\ {i \in DOMAIN ps : 2 \notin ps[i].reset} = {1, 3, 6}
      /\ {i \in DOMAIN ps : 3 \notin ps[i].reset} = {1, 2, 4}
  BY <1>4, <1>5 DEF Sided
<1>13. \A f \in Local : Covers(ps, f, {1, 2, 3, 4}, num)
  BY <1>11, <1>12 DEF Covers, Local
<1> QED
  BY <1>3, <1>5, <1>7, <1>9, <1>13 DEF Fits, ps

(* The pieces of split5_01.                                                *)
LEMMA split5_01_fits ==
  ASSUME NEW c, NEW v, NEW num, Ordered(c, v, num),
         num[0] < num[1]
  PROVE  Fits(split5(c, v), {1, 2, 3, 4, 5}, num)
<1> DEFINE ps == << P(<<m2, m4, m5, 3>>, <<F2, F1, K, F0, K, K>>, {3}),
                  P(<<m1, m3, 2, m5>>, <<F3, K, F1, K, F0, K>>, {2}),
                  P(<<m2, m4, m3, m5>>, <<F2, N, F1, F0, F0, F0>>, {1, 2, 3}),
                  P(<<m2, m3, m1, m5>>, <<N, F1, F1, F3, F0, F1>>, {0, 2, 3}),
                  P(<<0, 1, m3, m4>>, <<K, F3, F2, K, K, F0>>, {1}),
                  P(<<0, m4, m3, m2>>, <<F2, F3, K, F0, F2, N>>, {0, 1, 3}),
                  P(<<0, m3, m1, m2>>, <<F3, K, K, F3, N, F1>>, {0, 2}) >>
           C  == <<{6, 8, 9, 3}, {5, 7, 2, 9}, {6, 8, 7, 9}, {6, 7, 5, 9},
                  {0, 1, 7, 8}, {0, 8, 7, 6}, {0, 7, 5, 6}>>
<1>1. num[0] < num[1] /\ ~(num[1] < num[0])
  BY DEF Ordered, Local
<1>2. First(c, v, 0, 1) /\ ~First(c, v, 1, 0)
  BY DEF Ordered, Local
<1>3. split5(c, v) = ps
  <2>1. split5_01(c, v) = << P(<<0, 1, m3, m4>>, <<K, F3, F2, K, K, F0>>, {1}),
                          P(<<0, m4, m3, m2>>, <<F2, F3, K, F0, F2, N>>, {0, 1, 3}),
                          P(<<0, m3, m1, m2>>, <<F3, K, K, F3, N, F1>>, {0, 2}) >>
    BY <1>2 DEF split5_01
  <2> QED
    BY <2>1, Row43 DEF split5
<1>4. /\ Sided(ps[1], {3}, {8, 9, 3}, {6, 9, 3}, {6, 8, 3}, {6, 8, 9})
      /\ Sided(ps[2], {2}, {7, 2, 9}, {5, 2, 9}, {5, 7, 9}, {5, 7, 2})
      /\ Sided(ps[3], {1, 2, 3}, {8, 7, 9}, {6, 7, 9}, {6, 8, 9}, {6, 8, 7})
      /\ Sided(ps[4], {0, 2, 3}, {7, 5, 9}, {6, 5, 9}, {6, 7, 9}, {6, 7, 5})
      /\ Sided(ps[5], {1}, {1, 7, 8}, {0, 7, 8}, {0, 1, 8}, {0, 1, 7})
      /\ Sided(ps[6], {0, 1, 3}, {8, 7, 6}, {0, 7, 6}, {0, 8, 6}, {0, 8, 7})
      /\ Sided(ps[7], {0, 2}, {7, 5, 6}, {0, 5, 6}, {0, 7, 6}, {0, 7, 5})
  BY Trios DEF P, Sided, m0, m1, m2, m3, m4, m5
<1>5. DOMAIN ps = 1..7 /\ \A i \in 1..7 : VerticesOf(ps[i]) = C[i]
  BY DEF P, VerticesOf, m0, m1, m2, m3, m4, m5
<1>6. /\ CutOf(0, {1, 2, 3, 4, 5}, num) = {{1, 7, 8}, {2, 7, 9}, {3, 8, 9}, {7, 8, 9}}
      /\ CutOf(1, {1, 2, 3, 4, 5}, num) = {{0, 5, 6}, {2, 5, 9}, {3, 6, 9}, {5, 6, 9}}
      /\ CutOf(2, {1, 2, 3, 4, 5}, num) = {{3, 6, 8}, {0, 6, 8}, {0, 1, 8}}
      /\ CutOf(3, {1, 2, 3, 4, 5}, num) = {{2, 5, 7}, {0, 5, 7}, {0, 1, 7}}
  BY <1>1 DEF CutOf, CutSet, OneCut, TwoCut, ThreeCut, m0
<1>7. \A i, j \in 1..7 : C[i] \subseteq C[j] => i = j
  OBVIOUS
<1> HIDE DEF ps
<1>8. /\ Share(ps, Trio(ps[1], 0), 1, 1) /\ Share(ps, Trio(ps[1], 1), 1, 1)
      /\ Share(ps, Trio(ps[1], 2), 1, 1) /\ Share(ps, Trio(ps[1], 3), 1, 3)
      /\ Share(ps, Trio(ps[2], 0), 2, 2) /\ Share(ps, Trio(ps[2], 1), 2, 2)
      /\ Share(ps, Trio(ps[2], 2), 2, 4) /\ Share(ps, Trio(ps[2], 3), 2, 2)
      /\ Share(ps, Trio(ps[3], 0), 3, 3) /\ Share(ps, Trio(ps[3], 1), 3, 4)
      /\ Share(ps, Trio(ps[3], 2), 3, 1) /\ Share(ps, Trio(ps[3], 3), 3, 6)
      /\ Share(ps, Trio(ps[4], 0), 4, 2) /\ Share(ps, Trio(ps[4], 1), 4, 4)
      /\ Share(ps, Trio(ps[4], 2), 4, 3) /\ Share(ps, Trio(ps[4], 3), 4, 7)
      /\ Share(ps, Trio(ps[5], 0), 5, 5) /\ Share(ps, Trio(ps[5], 1), 5, 6)
      /\ Share(ps, Trio(ps[5], 2), 5, 5) /\ Share(ps, Trio(ps[5], 3), 5, 5)
      /\ Share(ps, Trio(ps[6], 0), 6, 3) /\ Share(ps, Trio(ps[6], 1), 6, 7)
      /\ Share(ps, Trio(ps[6], 2), 6, 6) /\ Share(ps, Trio(ps[6], 3), 6, 5)
      /\ Share(ps, Trio(ps[7], 0), 7, 4) /\ Share(ps, Trio(ps[7], 1), 7, 7)
      /\ Share(ps, Trio(ps[7], 2), 7, 6) /\ Share(ps, Trio(ps[7], 3), 7, 7)
  BY <1>4, <1>5 DEF Share, Sided
<1> HIDE DEF C
<1>9. \A i \in DOMAIN ps, f \in Local : Met(ps, i, f)
  <2>1. /\ \A f \in Local : Met(ps, 1, f)
        /\ \A f \in Local : Met(ps, 2, f)
        /\ \A f \in Local : Met(ps, 3, f)
        /\ \A f \in Local : Met(ps, 4, f)
        /\ \A f \in Local : Met(ps, 5, f)
        /\ \A f \in Local : Met(ps, 6, f)
        /\ \A f \in Local : Met(ps, 7, f)
    BY <1>4, <1>5, <1>8 DEF Met, Local, Sided
  <2>2. \A i \in DOMAIN ps : i = 1 \/ i = 2 \/ i = 3 \/ i = 4 \/ i = 5 \/ i = 6 \/ i = 7
    BY <1>5
  <2> QED
    BY <2>1, <2>2
<1>10. /\ {1, 7, 8} = Trio(ps[5], 0) /\ {2, 7, 9} = Trio(ps[2], 0) /\ {3, 8, 9} = Trio(ps[1], 0)
      /\ {7, 8, 9} = Trio(ps[3], 0) /\ {0, 5, 6} = Trio(ps[7], 1) /\ {2, 5, 9} = Trio(ps[2], 1)
      /\ {3, 6, 9} = Trio(ps[1], 1) /\ {5, 6, 9} = Trio(ps[4], 1) /\ {3, 6, 8} = Trio(ps[1], 2)
      /\ {0, 6, 8} = Trio(ps[6], 2) /\ {0, 1, 8} = Trio(ps[5], 2) /\ {2, 5, 7} = Trio(ps[2], 3)
      /\ {0, 5, 7} = Trio(ps[7], 3) /\ {0, 1, 7} = Trio(ps[5], 3)
  BY <1>4 DEF Sided
<1>11. /\ CutOf(0, {1, 2, 3, 4, 5}, num) = {Trio(ps[5], 0), Trio(ps[2], 0), Trio(ps[1], 0), Trio(ps[3], 0)}
      /\ CutOf(1, {1, 2, 3, 4, 5}, num) = {Trio(ps[7], 1), Trio(ps[2], 1), Trio(ps[1], 1), Trio(ps[4], 1)}
      /\ CutOf(2, {1, 2, 3, 4, 5}, num) = {Trio(ps[1], 2), Trio(ps[6], 2), Trio(ps[5], 2)}
      /\ CutOf(3, {1, 2, 3, 4, 5}, num) = {Trio(ps[2], 3), Trio(ps[7], 3), Trio(ps[5], 3)}
  BY <1>6, <1>10
<1>12. /\ {i \in DOMAIN ps : 0 \notin ps[i].reset} = {1, 2, 3, 5}
      /\ {i \in DOMAIN ps : 1 \notin ps[i].reset} = {1, 2, 4, 7}
      /\ {i \in DOMAIN ps : 2 \notin ps[i].reset} = {1, 5, 6}
      /\ {i \in DOMAIN ps : 3 \notin ps[i].reset} = {2, 5, 7}
  BY <1>4, <1>5 DEF Sided
<1>13. \A f \in Local : Covers(ps, f, {1, 2, 3, 4, 5}, num)
  BY <1>11, <1>12 DEF Covers, Local
<1> QED
  BY <1>3, <1>5, <1>7, <1>9, <1>13 DEF Fits, ps

(* The pieces of split5_10.                                                *)
LEMMA split5_10_fits ==
  ASSUME NEW c, NEW v, NEW num, Ordered(c, v, num),
         num[1] < num[0]
  PROVE  Fits(split5(c, v), {1, 2, 3, 4, 5}, num)
<1> DEFINE ps == << P(<<m2, m4, m5, 3>>, <<F2, F1, K, F0, K, K>>, {3}),
                  P(<<m1, m3, 2, m5>>, <<F3, K, F1, K, F0, K>>, {2}),
                  P(<<m2, m4, m3, m5>>, <<F2, N, F1, F0, F0, F0>>, {1, 2, 3}),
                  P(<<m2, m3, m1, m5>>, <<N, F1, F1, F3, F0, F1>>, {0, 2, 3}),
                  P(<<0, 1, m1, m2>>, <<K, K, K, F3, F2, F1>>, {0}),
                  P(<<m2, 1, m3, m4>>, <<F2, N, F2, K, K, F0>>, {1, 3}),
                  P(<<m1, 1, m3, m2>>, <<F3, F3, F1, K, F2, N>>, {0, 1, 2}) >>
           C  == <<{6, 8, 9, 3}, {5, 7, 2, 9}, {6, 8, 7, 9}, {6, 7, 5, 9},
                  {0, 1, 5, 6}, {6, 1, 7, 8}, {5, 1, 7, 6}>>
<1>1. num[1] < num[0] /\ ~(num[0] < num[1])
  BY DEF Ordered, Local
<1>2. First(c, v, 1, 0) /\ ~First(c, v, 0, 1)
  BY DEF Ordered, Local
<1>3. split5(c, v) = ps
  <2>1. split5_01(c, v) = << P(<<0, 1, m1, m2>>, <<K, K, K, F3, F2, F1>>, {0}),
                          P(<<m2, 1, m3, m4>>, <<F2, N, F2, K, K, F0>>, {1, 3}),
                          P(<<m1, 1, m3, m2>>, <<F3, F3, F1, K, F2, N>>, {0, 1, 2}) >>
    BY <1>2 DEF split5_01
  <2> QED
    BY <2>1, Row43 DEF split5
<1>4. /\ Sided(ps[1], {3}, {8, 9, 3}, {6, 9, 3}, {6, 8, 3}, {6, 8, 9})
      /\ Sided(ps[2], {2}, {7, 2, 9}, {5, 2, 9}, {5, 7, 9}, {5, 7, 2})
      /\ Sided(ps[3], {1, 2, 3}, {8, 7, 9}, {6, 7, 9}, {6, 8, 9}, {6, 8, 7})
      /\ Sided(ps[4], {0, 2, 3}, {7, 5, 9}, {6, 5, 9}, {6, 7, 9}, {6, 7, 5})
      /\ Sided(ps[5], {0}, {1, 5, 6}, {0, 5, 6}, {0, 1, 6}, {0, 1, 5})
      /\ Sided(ps[6], {1, 3}, {1, 7, 8}, {6, 7, 8}, {6, 1, 8}, {6, 1, 7})
      /\ Sided(ps[7], {0, 1, 2}, {1, 7, 6}, {5, 7, 6}, {5, 1, 6}, {5, 1, 7})
  BY Trios DEF P, Sided, m0, m1, m2, m3, m4, m5
<1>5. DOMAIN ps = 1..7 /\ \A i \in 1..7 : VerticesOf(ps[i]) = C[i]
  BY DEF P, VerticesOf, m0, m1, m2, m3, m4, m5
<1>6. /\ CutOf(0, {1, 2, 3, 4, 5}, num) = {{1, 7, 8}, {2, 7, 9}, {3, 8, 9}, {7, 8, 9}}
      /\ CutOf(1, {1, 2, 3, 4, 5}, num) = {{0, 5, 6}, {2, 5, 9}, {3, 6, 9}, {5, 6, 9}}
      /\ CutOf(2, {1, 2, 3, 4, 5}, num) = {{3, 8, 6}, {1, 8, 6}, {1, 0, 6}}
      /\ CutOf(3, {1, 2, 3, 4, 5}, num) = {{2, 7, 5}, {1, 7, 5}, {1, 0, 5}}
  BY <1>1 DEF CutOf, CutSet, OneCut, TwoCut, ThreeCut, m0
<1>7. \A i, j \in 1..7 : C[i] \subseteq C[j] => i = j
  OBVIOUS
<1> HIDE DEF ps
<1>8. /\ Share(ps, Trio(ps[1], 0), 1, 1) /\ Share(ps, Trio(ps[1], 1), 1, 1)
      /\ Share(ps, Trio(ps[1], 2), 1, 1) /\ Share(ps, Trio(ps[1], 3), 1, 3)
      /\ Share(ps, Trio(ps[2], 0), 2, 2) /\ Share(ps, Trio(ps[2], 1), 2, 2)
      /\ Share(ps, Trio(ps[2], 2), 2, 4) /\ Share(ps, Trio(ps[2], 3), 2, 2)
      /\ Share(ps, Trio(ps[3], 0), 3, 3) /\ Share(ps, Trio(ps[3], 1), 3, 4)
      /\ Share(ps, Trio(ps[3], 2), 3, 1) /\ Share(ps, Trio(ps[3], 3), 3, 6)
      /\ Share(ps, Trio(ps[4], 0), 4, 2) /\ Share(ps, Trio(ps[4], 1), 4, 4)
      /\ Share(ps, Trio(ps[4], 2), 4, 3) /\ Share(ps, Trio(ps[4], 3), 4, 7)
      /\ Share(ps, Trio(ps[5], 0), 5, 7) /\ Share(ps, Trio(ps[5], 1), 5, 5)
      /\ Share(ps, Trio(ps[5], 2), 5, 5) /\ Share(ps, Trio(ps[5], 3), 5, 5)
      /\ Share(ps, Trio(ps[6], 0), 6, 6) /\ Share(ps, Trio(ps[6], 1), 6, 3)
      /\ Share(ps, Trio(ps[6], 2), 6, 6) /\ Share(ps, Trio(ps[6], 3), 6, 7)
      /\ Share(ps, Trio(ps[7], 0), 7, 6) /\ Share(ps, Trio(ps[7], 1), 7, 4)
      /\ Share(ps, Trio(ps[7], 2), 7, 5) /\ Share(ps, Trio(ps[7], 3), 7, 7)
  BY <1>4, <1>5 DEF Share, Sided
<1> HIDE DEF C
<1>9. \A i \in DOMAIN ps, f \in Local : Met(ps, i, f)
  <2>1. /\ \A f \in Local : Met(ps, 1, f)
        /\ \A f \in Local : Met(ps, 2, f)
        /\ \A f \in Local : Met(ps, 3, f)
        /\ \A f \in Local : Met(ps, 4, f)
        /\ \A f \in Local : Met(ps, 5, f)
        /\ \A f \in Local : Met(ps, 6, f)
        /\ \A f \in Local : Met(ps, 7, f)
    BY <1>4, <1>5, <1>8 DEF Met, Local, Sided
  <2>2. \A i \in DOMAIN ps : i = 1 \/ i = 2 \/ i = 3 \/ i = 4 \/ i = 5 \/ i = 6 \/ i = 7
    BY <1>5
  <2> QED
    BY <2>1, <2>2
<1>10. /\ {1, 7, 8} = Trio(ps[6], 0) /\ {2, 7, 9} = Trio(ps[2], 0) /\ {3, 8, 9} = Trio(ps[1], 0)
      /\ {7, 8, 9} = Trio(ps[3], 0) /\ {0, 5, 6} = Trio(ps[5], 1) /\ {2, 5, 9} = Trio(ps[2], 1)
      /\ {3, 6, 9} = Trio(ps[1], 1) /\ {5, 6, 9} = Trio(ps[4], 1) /\ {3, 8, 6} = Trio(ps[1], 2)
      /\ {1, 8, 6} = Trio(ps[6], 2) /\ {1, 0, 6} = Trio(ps[5], 2) /\ {2, 7, 5} = Trio(ps[2], 3)
      /\ {1, 7, 5} = Trio(ps[7], 3) /\ {1, 0, 5} = Trio(ps[5], 3)
  BY <1>4 DEF Sided
<1>11. /\ CutOf(0, {1, 2, 3, 4, 5}, num) = {Trio(ps[6], 0), Trio(ps[2], 0), Trio(ps[1], 0), Trio(ps[3], 0)}
      /\ CutOf(1, {1, 2, 3, 4, 5}, num) = {Trio(ps[5], 1), Trio(ps[2], 1), Trio(ps[1], 1), Trio(ps[4], 1)}
      /\ CutOf(2, {1, 2, 3, 4, 5}, num) = {Trio(ps[1], 2), Trio(ps[6], 2), Trio(ps[5], 2)}
      /\ CutOf(3, {1, 2, 3, 4, 5}, num) = {Trio(ps[2], 3), Trio(ps[7], 3), Trio(ps[5], 3)}
  BY <1>6, <1>10
<1>12. /\ {i \in DOMAIN ps : 0 \notin ps[i].reset} = {1, 2, 3, 6}
      /\ {i \in DOMAIN ps : 1 \notin ps[i].reset} = {1, 2, 4, 5}
      /\ {i \in DOMAIN ps : 2 \notin ps[i].reset} = {1, 5, 6}
      /\ {i \in DOMAIN ps : 3 \notin ps[i].reset} = {2, 5, 7}
  BY <1>4, <1>5 DEF Sided
<1>13. \A f \in Local : Covers(ps, f, {1, 2, 3, 4, 5}, num)
  BY <1>11, <1>12 DEF Covers, Local
<1> QED
  BY <1>3, <1>5, <1>7, <1>9, <1>13 DEF Fits, ps

(* The pieces of split6.                                                   *)
LEMMA split6_fits ==
  ASSUME NEW num
  PROVE  Fits(split6, {0, 1, 2, 3, 4, 5}, num)
<1> DEFINE ps == split6
           C  == <<{0, 4, 5, 6}, {4, 1, 7, 8}, {5, 7, 2, 9}, {6, 8, 9, 3},
                  {4, 7, 5, 6}, {6, 4, 7, 8}, {6, 7, 5, 9}, {6, 7, 9, 8}>>
<1>1. /\ Sided(ps[1], {0}, {4, 5, 6}, {0, 5, 6}, {0, 4, 6}, {0, 4, 5})
      /\ Sided(ps[2], {1}, {1, 7, 8}, {4, 7, 8}, {4, 1, 8}, {4, 1, 7})
      /\ Sided(ps[3], {2}, {7, 2, 9}, {5, 2, 9}, {5, 7, 9}, {5, 7, 2})
      /\ Sided(ps[4], {3}, {8, 9, 3}, {6, 9, 3}, {6, 8, 3}, {6, 8, 9})
      /\ Sided(ps[5], {0, 1, 2}, {7, 5, 6}, {4, 5, 6}, {4, 7, 6}, {4, 7, 5})
      /\ Sided(ps[6], {0, 1, 3}, {4, 7, 8}, {6, 7, 8}, {6, 4, 8}, {6, 4, 7})
      /\ Sided(ps[7], {0, 2, 3}, {7, 5, 9}, {6, 5, 9}, {6, 7, 9}, {6, 7, 5})
      /\ Sided(ps[8], {1, 2, 3}, {7, 9, 8}, {6, 9, 8}, {6, 7, 8}, {6, 7, 9})
  <2>1. Sided(ps[1], {0}, {4, 5, 6}, {0, 5, 6}, {0, 4, 6}, {0, 4, 5})
    BY Trios DEF split6, P, Sided, m0, m1, m2, m3, m4, m5
  <2>2. Sided(ps[2], {1}, {1, 7, 8}, {4, 7, 8}, {4, 1, 8}, {4, 1, 7})
    BY Trios DEF split6, P, Sided, m0, m1, m2, m3, m4, m5
  <2>3. Sided(ps[3], {2}, {7, 2, 9}, {5, 2, 9}, {5, 7, 9}, {5, 7, 2})
    BY Trios DEF split6, P, Sided, m0, m1, m2, m3, m4, m5
  <2>4. Sided(ps[4], {3}, {8, 9, 3}, {6, 9, 3}, {6, 8, 3}, {6, 8, 9})
    BY Trios DEF split6, P, Sided, m0, m1, m2, m3, m4, m5
  <2>5. Sided(ps[5], {0, 1, 2}, {7, 5, 6}, {4, 5, 6}, {4, 7, 6}, {4, 7, 5})
    BY Trios DEF split6, P, Sided, m0, m1, m2, m3, m4, m5
  <2>6. Sided(ps[6], {0, 1, 3}, {4, 7, 8}, {6, 7, 8}, {6, 4, 8}, {6, 4, 7})
    BY Trios DEF split6, P, Sided, m0, m1, m2, m3, m4, m5
  <2>7. Sided(ps[7], {0, 2, 3}, {7, 5, 9}, {6, 5, 9}, {6, 7, 9}, {6, 7, 5})
    BY Trios DEF split6, P, Sided, m0, m1, m2, m3, m4, m5
  <2>8. Sided(ps[8], {1, 2, 3}, {7, 9, 8}, {6, 9, 8}, {6, 7, 8}, {6, 7, 9})
    BY Trios DEF split6, P, Sided, m0, m1, m2, m3, m4, m5
  <2> QED
    BY <2>1, <2>2, <2>3, <2>4, <2>5, <2>6, <2>7, <2>8
<1>2. DOMAIN ps = 1..8 /\ \A i \in 1..8 : VerticesOf(ps[i]) = C[i]
  BY DEF split6, P, VerticesOf, m0, m1, m2, m3, m4, m5
<1>3. /\ CutOf(0, {0, 1, 2, 3, 4, 5}, num) = {{1, 7, 8}, {2, 7, 9}, {3, 8, 9}, {7, 8, 9}}
      /\ CutOf(1, {0, 1, 2, 3, 4, 5}, num) = {{0, 5, 6}, {2, 5, 9}, {3, 6, 9}, {5, 6, 9}}
      /\ CutOf(2, {0, 1, 2, 3, 4, 5}, num) = {{0, 4, 6}, {1, 4, 8}, {3, 6, 8}, {4, 6, 8}}
      /\ CutOf(3, {0, 1, 2, 3, 4, 5}, num) = {{0, 4, 5}, {1, 4, 7}, {2, 5, 7}, {4, 5, 7}}
  BY DEF CutOf, CutSet, OneCut, TwoCut, ThreeCut, m0
<1>4. \A i, j \in 1..8 : C[i] \subseteq C[j] => i = j
  OBVIOUS
<1> HIDE DEF ps
<1>5. /\ Share(ps, Trio(ps[1], 0), 1, 5) /\ Share(ps, Trio(ps[1], 1), 1, 1)
      /\ Share(ps, Trio(ps[1], 2), 1, 1) /\ Share(ps, Trio(ps[1], 3), 1, 1)
      /\ Share(ps, Trio(ps[2], 0), 2, 2) /\ Share(ps, Trio(ps[2], 1), 2, 6)
      /\ Share(ps, Trio(ps[2], 2), 2, 2) /\ Share(ps, Trio(ps[2], 3), 2, 2)
      /\ Share(ps, Trio(ps[3], 0), 3, 3) /\ Share(ps, Trio(ps[3], 1), 3, 3)
      /\ Share(ps, Trio(ps[3], 2), 3, 7) /\ Share(ps, Trio(ps[3], 3), 3, 3)
      /\ Share(ps, Trio(ps[4], 0), 4, 4) /\ Share(ps, Trio(ps[4], 1), 4, 4)
      /\ Share(ps, Trio(ps[4], 2), 4, 4) /\ Share(ps, Trio(ps[4], 3), 4, 8)
      /\ Share(ps, Trio(ps[5], 0), 5, 7) /\ Share(ps, Trio(ps[5], 1), 5, 1)
      /\ Share(ps, Trio(ps[5], 2), 5, 6) /\ Share(ps, Trio(ps[5], 3), 5, 5)
      /\ Share(ps, Trio(ps[6], 0), 6, 2) /\ Share(ps, Trio(ps[6], 1), 6, 8)
      /\ Share(ps, Trio(ps[6], 2), 6, 6) /\ Share(ps, Trio(ps[6], 3), 6, 5)
      /\ Share(ps, Trio(ps[7], 0), 7, 3) /\ Share(ps, Trio(ps[7], 1), 7, 7)
      /\ Share(ps, Trio(ps[7], 2), 7, 8) /\ Share(ps, Trio(ps[7], 3), 7, 5)
      /\ Share(ps, Trio(ps[8], 0), 8, 8) /\ Share(ps, Trio(ps[8], 1), 8, 4)
      /\ Share(ps, Trio(ps[8], 2), 8, 6) /\ Share(ps, Trio(ps[8], 3), 8, 7)
  BY <1>1, <1>2 DEF Share, Sided
<1> HIDE DEF C
<1>6. \A i \in DOMAIN ps, f \in Local : Met(ps, i, f)
  <2>1. /\ \A f \in Local : Met(ps, 1, f)
        /\ \A f \in Local : Met(ps, 2, f)
        /\ \A f \in Local : Met(ps, 3, f)
        /\ \A f \in Local : Met(ps, 4, f)
        /\ \A f \in Local : Met(ps, 5, f)
        /\ \A f \in Local : Met(ps, 6, f)
        /\ \A f \in Local : Met(ps, 7, f)
        /\ \A f \in Local : Met(ps, 8, f)
    BY <1>1, <1>2, <1>5 DEF Met, Local, Sided
  <2>2. \A i \in DOMAIN ps : i = 1 \/ i = 2 \/ i = 3 \/ i = 4 \/ i = 5 \/ i = 6 \/ i = 7 \/ i = 8
    BY <1>2
  <2> QED
    BY <2>1, <2>2
<1>7. /\ {1, 7, 8} = Trio(ps[2], 0) /\ {2, 7, 9} = Trio(ps[3], 0) /\ {3, 8, 9} = Trio(ps[4], 0)
      /\ {7, 8, 9} = Trio(ps[8], 0) /\ {0, 5, 6} = Trio(ps[1], 1) /\ {2, 5, 9} = Trio(ps[3], 1)
      /\ {3, 6, 9} = Trio(ps[4], 1) /\ {5, 6, 9} = Trio(ps[7], 1) /\ {0, 4, 6} = Trio(ps[1], 2)
      /\ {1, 4, 8} = Trio(ps[2], 2) /\ {3, 6, 8} = Trio(ps[4], 2) /\ {4, 6, 8} = Trio(ps[6], 2)
      /\ {0, 4, 5} = Trio(ps[1], 3) /\ {1, 4, 7} = Trio(ps[2], 3) /\ {2, 5, 7} = Trio(ps[3], 3)
      /\ {4, 5, 7} = Trio(ps[5], 3)
  BY <1>1 DEF Sided
<1>8. /\ CutOf(0, {0, 1, 2, 3, 4, 5}, num) = {Trio(ps[2], 0), Trio(ps[3], 0), Trio(ps[4], 0), Trio(ps[8], 0)}
      /\ CutOf(1, {0, 1, 2, 3, 4, 5}, num) = {Trio(ps[1], 1), Trio(ps[3], 1), Trio(ps[4], 1), Trio(ps[7], 1)}
      /\ CutOf(2, {0, 1, 2, 3, 4, 5}, num) = {Trio(ps[1], 2), Trio(ps[2], 2), Trio(ps[4], 2), Trio(ps[6], 2)}
      /\ CutOf(3, {0, 1, 2, 3, 4, 5}, num) = {Trio(ps[1], 3), Trio(ps[2], 3), Trio(ps[3], 3), Trio(ps[5], 3)}
  BY <1>3, <1>7
<1>9. /\ {i \in DOMAIN ps : 0 \notin ps[i].reset} = {2, 3, 4, 8}
      /\ {i \in DOMAIN ps : 1 \notin ps[i].reset} = {1, 3, 4, 7}
      /\ {i \in DOMAIN ps : 2 \notin ps[i].reset} = {1, 2, 4, 6}
      /\ {i \in DOMAIN ps : 3 \notin ps[i].reset} = {1, 2, 3, 5}
  BY <1>1, <1>2 DEF Sided
<1>10. \A f \in Local : Covers(ps, f, {0, 1, 2, 3, 4, 5}, num)
  BY <1>8, <1>9 DEF Covers, Local
<1> QED
  BY <1>2, <1>4, <1>6, <1>10 DEF Fits, ps

(* Two different numbers are in one order.                                 *)
LEMMA InOrder ==
  ASSUME NEW num \in [Local -> Nat], Differ(num)
  PROVE  \A i, j \in Local : i # j => \/ num[i] < num[j] /\ ~(num[j] < num[i])
                                      \/ num[j] < num[i] /\ ~(num[i] < num[j])
<1>1. \A i, j \in Local : num[i] \in Nat /\ num[j] \in Nat
  OBVIOUS
<1> QED
  BY <1>1 DEF Differ

(* The pieces of the families with a choice.                               *)
LEMMA split2sf_fits ==
  ASSUME NEW c, NEW v, NEW num, Ordered(c, v, num), Differ(num)
  PROVE  Fits(split2sf(c, v), {4, 5}, num)
<1>1. num[1] < num[2] \/ num[2] < num[1]
  BY DEF Differ, Local
<1> QED
  BY <1>1, split2sf_12_fits, split2sf_21_fits

(* The six lists of split3cone.                                            *)
LEMMA split3cone_fits ==
  ASSUME NEW c, NEW v, NEW num, Ordered(c, v, num), Differ(num)
  PROVE  Fits(split3cone(c, v), {0, 1, 2}, num)
<1>1. \/ num[3] < num[1] /\ num[3] < num[2] /\ num[1] < num[2]
      \/ num[3] < num[1] /\ num[3] < num[2] /\ num[2] < num[1]
      \/ num[2] < num[1] /\ num[2] < num[3] /\ num[3] < num[1]
      \/ num[2] < num[1] /\ num[2] < num[3] /\ num[1] < num[3]
      \/ num[1] < num[2] /\ num[1] < num[3] /\ num[2] < num[3]
      \/ num[1] < num[2] /\ num[1] < num[3] /\ num[3] < num[2]
  <2>1. num[1] \in Nat /\ num[2] \in Nat /\ num[3] \in Nat
    BY DEF Ordered, Local
  <2>2. /\ num[1] < num[2] \/ num[2] < num[1]
        /\ num[1] < num[3] \/ num[3] < num[1]
        /\ num[2] < num[3] \/ num[3] < num[2]
    BY DEF Differ, Local
  <2> QED
    BY <2>1, <2>2
<1> QED
  BY <1>1, cone3_12_fits, cone3_21_fits, cone2_31_fits, cone2_13_fits, cone1_23_fits, cone1_32_fits

(* The four lists of split3op.                                             *)
LEMMA split3op_fits ==
  ASSUME NEW c, NEW v, NEW num, Ordered(c, v, num), Differ(num)
  PROVE  Fits(split3op(c, v), {0, 1, 5}, num)
<1>1. /\ \/ num[1] < num[2] /\ ~(num[2] < num[1])
         \/ num[2] < num[1] /\ ~(num[1] < num[2])
      /\ \/ num[0] < num[3] /\ ~(num[3] < num[0])
         \/ num[3] < num[0] /\ ~(num[0] < num[3])
  <2>1. 0 \in Local /\ 1 \in Local /\ 2 \in Local /\ 3 \in Local
    BY DEF Local
  <2> QED
    BY <2>1, InOrder DEF Ordered
<1>2. /\ First(c, v, 2, 1) <=> num[2] < num[1]
      /\ First(c, v, 1, 2) <=> num[1] < num[2]
      /\ First(c, v, 0, 3) <=> num[0] < num[3]
      /\ First(c, v, 3, 0) <=> num[3] < num[0]
  BY DEF Ordered, Local
<1>3. CASE num[2] < num[1] /\ ~(num[1] < num[2]) /\ num[0] < num[3] /\ ~(num[3] < num[0])
  <2>1. split3op(c, v) = Op20
    BY <1>2, <1>3 DEF split3op
  <2> QED
    BY <1>3, <2>1, Op20_fits
<1>4. CASE num[1] < num[2] /\ ~(num[2] < num[1]) /\ num[0] < num[3] /\ ~(num[3] < num[0])
  <2>1. split3op(c, v) = Op10
    BY <1>2, <1>4 DEF split3op
  <2> QED
    BY <1>4, <2>1, Op10_fits
<1>5. CASE num[2] < num[1] /\ ~(num[1] < num[2]) /\ num[3] < num[0] /\ ~(num[0] < num[3])
  <2>1. split3op(c, v) = Op23
    BY <1>2, <1>5 DEF split3op
  <2> QED
    BY <1>5, <2>1, Op23_fits
<1>6. CASE num[1] < num[2] /\ ~(num[2] < num[1]) /\ num[3] < num[0] /\ ~(num[0] < num[3])
  <2>1. split3op(c, v) = Op13
    BY <1>2, <1>6 DEF split3op
  <2> QED
    BY <1>6, <2>1, Op13_fits
<1> QED
  BY <1>1, <1>3, <1>4, <1>5, <1>6

(* The four lists of split4sf.                                             *)
LEMMA split4sf_fits ==
  ASSUME NEW c, NEW v, NEW num, Ordered(c, v, num), Differ(num)
  PROVE  Fits(split4sf(c, v), {0, 1, 2, 4}, num)
<1>1. (num[1] < num[2] \/ num[2] < num[1]) /\ (num[2] < num[3] \/ num[3] < num[2])
  BY DEF Differ, Local
<1> QED
  BY <1>1, split4sf_12_23_fits, split4sf_12_32_fits, split4sf_21_23_fits, split4sf_21_32_fits

(* The four lists of split4op.                                             *)
LEMMA split4op_fits ==
  ASSUME NEW c, NEW v, NEW num, Ordered(c, v, num), Differ(num)
  PROVE  Fits(split4op(c, v), {1, 2, 3, 4}, num)
<1>1. (num[0] < num[1] \/ num[1] < num[0]) /\ (num[2] < num[3] \/ num[3] < num[2])
  BY DEF Differ, Local
<1> QED
  BY <1>1, split4op_01_23_fits, split4op_01_32_fits, split4op_10_23_fits, split4op_10_32_fits

(* The two lists of split5.                                                *)
LEMMA split5_fits ==
  ASSUME NEW c, NEW v, NEW num, Ordered(c, v, num), Differ(num)
  PROVE  Fits(split5(c, v), {1, 2, 3, 4, 5}, num)
<1>1. num[0] < num[1] \/ num[1] < num[0]
  BY DEF Differ, Local
<1> QED
  BY <1>1, split5_01_fits, split5_10_fits

(* The numbers of the vertices in the numbering of a flag.                 *)
Num(v, c) == [i \in Local |-> v[c.tau[i]]]

(* They are in the order that the lists ask for, and differ.               *)
LEMMA NumbersDiffer ==
  ASSUME NEW v \in [Local -> Nat], \A i, j \in Local : v[i] = v[j] => i = j, NEW c, Consistent(c)
  PROVE  Num(v, c) \in [Local -> Nat] /\ Ordered(c, v, Num(v, c)) /\ Differ(Num(v, c))
<1>1. \A i \in Local : c.tau[i] \in Local /\ v[c.tau[i]] \in Nat
  BY DEF Consistent
<1>2. Num(v, c) \in [Local -> Nat]
  BY <1>1 DEF Num
<1>3. Ordered(c, v, Num(v, c))
  BY <1>1, <1>2 DEF Ordered, First, Num
<1>4. \A i, j \in Local : i # j => v[c.tau[i]] # v[c.tau[j]]
  BY <1>1 DEF Consistent
<1>5. Differ(Num(v, c))
  <2> SUFFICES ASSUME NEW i \in Local, NEW j \in Local, i # j
               PROVE  Num(v, c)[i] < Num(v, c)[j] \/ Num(v, c)[j] < Num(v, c)[i]
    BY DEF Differ
  <2>1. Num(v, c)[i] \in Nat /\ Num(v, c)[j] \in Nat /\ Num(v, c)[i] # Num(v, c)[j]
    BY <1>1, <1>4 DEF Num
  <2> QED
    BY <2>1
<1> QED
  BY <1>2, <1>3, <1>5

(* Whatever edges carry a point, the pieces fit.                           *)
LEMMA PiecesFit ==
  ASSUME NEW v \in [Local -> Nat], \A i, j \in Local : v[i] = v[j] => i = j,
         NEW F \in SUBSET Edge, F # {}
  PROVE  LET f == Bits(F)  c == Configuration[f]
         IN Fits(Pieces(f, v), Reference(c, F), Num(v, c))
<1> DEFINE f == Bits(F)
           Good(c, ps) == Fits(ps, Reference(c, F), Num(v, c))
<1>1. f \in 1..63
  BY FlagNumber
<1>2. \A c, R : BroughtTo(c, f, R) => /\ Reference(c, F) = R /\ Ordered(c, v, Num(v, c))
                                      /\ Differ(Num(v, c)) /\ Num(v, c) \in [Local -> Nat]
  BY NumbersDiffer DEF BroughtTo
<1>3. \A cfg, ps : OfFamily(f, v, cfg, ps) /\ Good(cfg[f], ps) => Good(Configuration[f], Pieces(f, v))
  BY DEF OfFamily
<1>4. PICK cfg : f \in DOMAIN cfg /\
                 cfg \in {split1_cfg, split2sf_cfg, split2_cfg, split3_cfg, split3cone_cfg,
                          split3op_cfg, split4sf_cfg, split4op_cfg, split5_cfg, split6_cfg}
  BY <1>1, Domains
<1> HIDE DEF f
<1>5. \E ps : OfFamily(f, v, cfg, ps) /\ Good(cfg[f], ps)
  <2>1. CASE cfg = split1_cfg
    BY <1>2, <1>4, <2>1, FamilyOf, split1_flags, split1_fits
  <2>2. CASE cfg = split2sf_cfg
    BY <1>2, <1>4, <2>2, FamilyOf, split2sf_flags, split2sf_fits
  <2>3. CASE cfg = split2_cfg
    BY <1>2, <1>4, <2>3, FamilyOf, split2_flags, split2_fits
  <2>4. CASE cfg = split3_cfg
    BY <1>2, <1>4, <2>4, FamilyOf, split3_flags, split3_fits
  <2>5. CASE cfg = split3cone_cfg
    BY <1>2, <1>4, <2>5, FamilyOf, split3cone_flags, split3cone_fits
  <2>6. CASE cfg = split3op_cfg
    BY <1>2, <1>4, <2>6, FamilyOf, split3op_flags, split3op_fits
  <2>7. CASE cfg = split4sf_cfg
    BY <1>2, <1>4, <2>7, FamilyOf, split4sf_flags, split4sf_fits
  <2>8. CASE cfg = split4op_cfg
    BY <1>2, <1>4, <2>8, FamilyOf, split4op_flags, split4op_fits
  <2>9. CASE cfg = split5_cfg
    BY <1>2, <1>4, <2>9, FamilyOf, split5_flags, split5_fits
  <2>10. CASE cfg = split6_cfg
    BY <1>2, <1>4, <2>10, FamilyOf, split6_flags, split6_fits
  <2> QED
    BY <1>4, <2>1, <2>2, <2>3, <2>4, <2>5, <2>6, <2>7, <2>8, <2>9, <2>10
<1> QED
  BY <1>3, <1>5 DEF f

-------------------------------------------------------------------------------
(* The cut of a face does not depend on how its vertices are called.       *)
Image(y, s) == {y[w] : w \in s}

(* The image of a face.                                                    *)
LEMMA Images ==
  ASSUME NEW y
  PROVE  \A a, b, c : Image(y, {a, b, c}) = {y[a], y[b], y[c]}
BY DEF Image

(* The renaming y keeps the points of the edges of T, and the order of the *)
(* numbers of its vertices.                                                *)
SameMarks(y, T, marks, ys) ==
    \A a, b \in T : /\ Unmarked(a, b, marks) => Unmarked(y[a], y[b], ys)
                    /\ \A x : Marked(a, b, marks, x) => Marked(y[a], y[b], ys, y[x])

SameOrder(y, T, num, ynum) == \A a, b \in T : num[a] < num[b] <=> ynum[y[a]] < ynum[y[b]]

(* Then the cut is renamed, in one order of the corners,                   *)
LEMMA CutRenamed ==
  ASSUME NEW T, NEW y, NEW marks, NEW num, NEW ys, NEW ynum,
         SameMarks(y, T, marks, ys), SameOrder(y, T, num, ynum),
         NEW a \in T, NEW b \in T, NEW c \in T, NEW u
  PROVE  CutFrom(y[a], y[b], y[c], ys, ynum, u) <=>
            \E t : CutFrom(a, b, c, marks, num, t) /\ u = Image(y, t)
<1> DEFINE on(p, q) == {p, q} \in DOMAIN marks
           at(p, q) == marks[{p, q}]
           y1 == ys[{y[a], y[b]}]
           y2 == ys[{y[a], y[c]}]
           y3 == ys[{y[b], y[c]}]
<1>1. /\ {y[a], y[b]} \in DOMAIN ys <=> on(a, b)
      /\ {y[a], y[c]} \in DOMAIN ys <=> on(a, c)
      /\ {y[b], y[c]} \in DOMAIN ys <=> on(b, c)
      /\ on(a, b) => y1 = y[at(a, b)]
      /\ on(a, c) => y2 = y[at(a, c)]
      /\ on(b, c) => y3 = y[at(b, c)]
  BY DEF SameMarks, Marked, Unmarked
<1>2. ynum[y[b]] < ynum[y[c]] <=> num[b] < num[c]
  BY DEF SameOrder
<1> DEFINE Y == CutFrom(y[a], y[b], y[c], ys, ynum, u)
           t0 == {a, at(a, b), c}
           t1 == {a, at(a, b), at(a, c)}
           t2 == {b, at(a, b), at(a, c)}
           t3 == {b, c, at(a, c)}
           t4 == {at(a, b), at(a, c), at(b, c)}
<1>3. /\ Image(y, {a, b, c}) = {y[a], y[b], y[c]}
      /\ Image(y, t0) = {y[a], y[at(a, b)], y[c]}
      /\ Image(y, t1) = {y[a], y[at(a, b)], y[at(a, c)]}
      /\ Image(y, t2) = {y[b], y[at(a, b)], y[at(a, c)]}
      /\ Image(y, t3) = {y[b], y[c], y[at(a, c)]}
      /\ Image(y, t4) = {y[at(a, b)], y[at(a, c)], y[at(b, c)]}
  BY DEF Image
<1>4. CASE ~on(a, b) /\ ~on(a, c) /\ ~on(b, c)
  <2>1. Y <=> u = {y[a], y[b], y[c]}
    BY <1>1, <1>4 DEF CutFrom
  <2>2. \A t : CutFrom(a, b, c, marks, num, t) <=> t = {a, b, c}
    BY <1>4 DEF CutFrom
  <2>3. Image(y, {a, b, c}) = {y[a], y[b], y[c]}
    BY <1>3
  <2> QED
    BY <2>1, <2>2, <2>3
<1>5. CASE on(a, b) /\ ~on(a, c) /\ ~on(b, c)
  <2>1. Y <=> u = {y[a], y1, y[c]}
    BY <1>1, <1>5 DEF CutFrom
  <2>2. \A t : CutFrom(a, b, c, marks, num, t) <=> t = t0
    BY <1>5 DEF CutFrom
  <2>3. Image(y, t0) = {y[a], y1, y[c]}
    BY <1>1, <1>3, <1>5
  <2> HIDE DEF Y, t0, y1
  <2> QED
    BY <2>1, <2>2, <2>3 DEF Y
<1>6. CASE on(a, b) /\ on(a, c) /\ ~on(b, c)
  <2>1. Y <=> \/ u = {y[a], y1, y2}
              \/ num[b] < num[c] /\ (u = {y[b], y1, y2} \/ u = {y[b], y[c], y2})
    BY <1>1, <1>2, <1>6 DEF CutFrom
  <2>2. \A t : CutFrom(a, b, c, marks, num, t) <=> t = t1 \/ (num[b] < num[c] /\ (t = t2 \/ t = t3))
    BY <1>6 DEF CutFrom
  <2>3. /\ Image(y, t1) = {y[a], y1, y2} /\ Image(y, t2) = {y[b], y1, y2}
        /\ Image(y, t3) = {y[b], y[c], y2}
    BY <1>1, <1>3, <1>6
  <2> HIDE DEF Y, t1, t2, t3, y1, y2
  <2> QED
    BY <2>1, <2>2, <2>3 DEF Y
<1>7. CASE on(a, b) /\ on(a, c) /\ on(b, c)
  <2>1. Y <=> u = {y[a], y1, y2} \/ u = {y1, y2, y3}
    BY <1>1, <1>7 DEF CutFrom
  <2>2. \A t : CutFrom(a, b, c, marks, num, t) <=> t = t1 \/ t = t4
    BY <1>7 DEF CutFrom
  <2>3. Image(y, t1) = {y[a], y1, y2} /\ Image(y, t4) = {y1, y2, y3}
    BY <1>1, <1>3, <1>7
  <2> HIDE DEF Y, t1, t4, y1, y2, y3
  <2> QED
    BY <2>1, <2>2, <2>3 DEF Y
<1>8. CASE /\ on(a, b) \/ on(a, c) \/ on(b, c)
           /\ ~(on(a, b) /\ ~on(a, c) /\ ~on(b, c)) /\ ~(on(a, b) /\ on(a, c))
  <2>1. ~Y
    BY <1>1, <1>8 DEF CutFrom
  <2>2. \A t : ~CutFrom(a, b, c, marks, num, t)
    BY <1>8 DEF CutFrom
  <2> QED
    BY <2>1, <2>2
<1> HIDE DEF on
<1> QED
  BY <1>4, <1>5, <1>6, <1>7, <1>8

(* The renamed triangles of a cut.                                         *)
CutOfImage(y, T, marks, num, u) == \E t : FaceCut(T, marks, num, t) /\ u = Image(y, t)

(* and in every order.                                                     *)
LEMMA FaceCutRenamed ==
  ASSUME NEW T, NEW y, \A a, b \in T : y[a] = y[b] => a = b, NEW marks, NEW num, NEW ys, NEW ynum,
         SameMarks(y, T, marks, ys), SameOrder(y, T, num, ynum), NEW u
  PROVE  FaceCut(Image(y, T), ys, ynum, u) <=> CutOfImage(y, T, marks, num, u)
<1> DEFINE Renamed(a, b, c, v) == \E t : CutFrom(a, b, c, marks, num, t) /\ v = Image(y, t)
<1>0. \A a, b, c \in T : CutFrom(y[a], y[b], y[c], ys, ynum, u) <=> Renamed(a, b, c, u)
  BY CutRenamed
<1> HIDE DEF Renamed
<1>1. ASSUME NEW a \in T, NEW b \in T, NEW c \in T
      PROVE  T = {a, b, c} <=> Image(y, T) = {y[a], y[b], y[c]}
  <2>1. \A s : s \subseteq T /\ Image(y, s) = Image(y, T) => s = T
    BY DEF Image
  <2>2. {a, b, c} \subseteq T /\ Image(y, {a, b, c}) = {y[a], y[b], y[c]}
    BY Images
  <2> QED
    BY <2>1, <2>2
<1>2. \A a \in T : y[a] \in Image(y, T)
  BY DEF Image
<1>3. \A p \in Image(y, T) : \E a \in T : p = y[a]
  BY DEF Image
<1>4. ASSUME FaceCut(Image(y, T), ys, ynum, u)
      PROVE  CutOfImage(y, T, marks, num, u)
  <2>1. PICK p, q, r \in Image(y, T) : /\ Image(y, T) = {p, q, r} /\ p # q /\ p # r /\ q # r
                                      /\ CutFrom(p, q, r, ys, ynum, u)
    BY <1>4 DEF FaceCut
  <2>2. PICK a, b, c \in T : p = y[a] /\ q = y[b] /\ r = y[c]
    BY <1>3
  <2>3. T = {a, b, c} /\ a # b /\ a # c /\ b # c
    BY <1>1, <2>1, <2>2
  <2>4. CutFrom(y[a], y[b], y[c], ys, ynum, u)
    BY <2>1, <2>2
  <2>5. PICK t : CutFrom(a, b, c, marks, num, t) /\ u = Image(y, t)
    BY <1>0, <2>4 DEF Renamed
  <2> QED
    BY <2>3, <2>5 DEF FaceCut, CutOfImage
<1>5. ASSUME NEW t, FaceCut(T, marks, num, t), u = Image(y, t)
      PROVE  FaceCut(Image(y, T), ys, ynum, u)
  <2>1. PICK a, b, c \in T : /\ T = {a, b, c} /\ a # b /\ a # c /\ b # c
                            /\ CutFrom(a, b, c, marks, num, t)
    BY <1>5 DEF FaceCut
  <2>2. CutFrom(y[a], y[b], y[c], ys, ynum, u)
    BY <1>0, <1>5, <2>1 DEF Renamed
  <2>3. Image(y, T) = {y[a], y[b], y[c]} /\ y[a] # y[b] /\ y[a] # y[c] /\ y[b] # y[c]
    BY <1>1, <2>1
  <2> QED
    BY <1>2, <2>2, <2>3 DEF FaceCut
<1> QED
  BY <1>4, <1>5 DEF CutOfImage

-------------------------------------------------------------------------------
(* A numbering as a renaming of the vertices 0..9 of the pieces.           *)
Naming(c) == [w \in 0..9 |-> Place(w, c)]

(* It is one-to-one: vertices go to vertices and points to points.         *)
LEMMA NamingAt ==
  ASSUME NEW c, Consistent(c)
  PROVE  /\ \A a \in Local : Naming(c)[a] = c.tau[a]
         /\ \A e \in Edge : m0 + e \in 0..9 /\ Naming(c)[m0 + e] = m0 + c.taued[e]
         /\ \A w, x \in 0..9 : Naming(c)[w] = Naming(c)[x] => w = x
<1> DEFINE y == Naming(c)
<1>1. \A a \in Local : y[a] = c.tau[a]
  BY DEF Naming, Place, Local, m0
<1>2. \A e \in Edge : m0 + e \in 0..9 /\ ~(m0 + e < m0) /\ (m0 + e) - m0 = e
  BY DEF Edge, m0
<1>3. \A e \in Edge : y[m0 + e] = m0 + c.taued[e]
  BY <1>2 DEF Naming, Place
<1>4. \A w \in 0..9 : w \in Local \/ \E e \in Edge : w = m0 + e
  <2> SUFFICES ASSUME NEW w \in 0..9, w \notin Local PROVE \E e \in Edge : w = m0 + e
    OBVIOUS
  <2>1. w - 4 \in Edge /\ w = m0 + (w - 4)
    BY DEF Local, Edge, m0
  <2> QED
    BY <2>1
<1>5. /\ \A a \in Local : c.tau[a] \in Local
      /\ \A e \in Edge : c.taued[e] \in Edge
      /\ \A a, b \in Local : c.tau[a] = c.tau[b] => a = b
  BY DEF Consistent
<1>6. \A i \in Local, e \in Edge : i # m0 + e
  BY DEF Local, Edge, m0
<1>7. \A d, e \in Edge : m0 + d = m0 + e => d = e
  BY DEF Edge, m0
<1>8. \A d, e \in Edge : c.taued[d] = c.taued[e] => d = e
  BY EdgesOneToOne
<1> HIDE DEF y
<1>9. ASSUME NEW w \in 0..9, NEW x \in 0..9, y[w] = y[x]
      PROVE  w = x
  <2>1. CASE w \in Local /\ x \in Local
    BY <1>1, <1>5, <1>9, <2>1
  <2>2. ASSUME NEW a \in Local, NEW e \in Edge PROVE y[a] # y[m0 + e]
    <3>1. y[a] \in Local /\ y[m0 + e] = m0 + c.taued[e] /\ c.taued[e] \in Edge
      BY <1>1, <1>3, <1>5
    <3> QED
      BY <1>6, <3>1
  <2>3. CASE w \in Local <=> x \notin Local
    BY <1>4, <1>9, <2>2, <2>3
  <2>4. ASSUME NEW d \in Edge, NEW e \in Edge, w = m0 + d, x = m0 + e
        PROVE  w = x
    <3>1. c.taued[d] = c.taued[e]
      BY <1>3, <1>5, <1>7, <1>9, <2>4
    <3> QED
      BY <1>8, <2>4, <3>1
  <2> QED
    BY <1>4, <2>1, <2>2, <2>3, <2>4
<1> QED
  BY <1>1, <1>2, <1>3, <1>9 DEF y

(* It keeps the marks of a face and the order of its vertices.             *)
LEMMA NamingKeeps ==
  ASSUME NEW c, Consistent(c), NEW F \in SUBSET Edge, NEW v \in [Local -> Nat], NEW T \in SUBSET Local
  PROVE  /\ SameMarks(Naming(c), T, MarksOf(Reference(c, F)), MarksOf(F))
         /\ SameOrder(Naming(c), T, Num(v, c), v)
<1> DEFINE y == Naming(c)
           R == Reference(c, F)
<1>1. R \in SUBSET Edge /\ \A e \in Edge : e \in R <=> c.taued[e] \in F
  BY DEF Reference
<1>2. \A a \in T : a \in Local /\ y[a] = c.tau[a]
  BY NamingAt
<1>3. SameOrder(y, T, Num(v, c), v)
  BY <1>2 DEF SameOrder, Num
<1>4. \A e \in Edge : iare[c.taued[e]] = {c.tau[i] : i \in iare[e]} /\ iare[e] \subseteq Local
  <2>1. \A e \in Edge : iare[e] \subseteq Local
    BY EdgeEnds DEF Edge, Local
  <2> QED
    BY <2>1, EdgesOf
<1>5. /\ \A a, b \in Local : c.tau[a] = c.tau[b] => a = b
      /\ \A e \in Edge : \E d \in Edge : c.taued[d] = e
  BY DEF Consistent
<1>6. \A e \in Edge : y[m0 + e] = m0 + c.taued[e]
  BY NamingAt
<1> HIDE DEF y, R
<1>7. ASSUME NEW a \in T, NEW b \in T, Unmarked(a, b, MarksOf(R))
      PROVE  Unmarked(y[a], y[b], MarksOf(F))
  <2> SUFFICES ASSUME {y[a], y[b]} \in DOMAIN MarksOf(F) PROVE FALSE
    BY DEF Unmarked
  <2>1. PICK e \in F : {y[a], y[b]} = iare[e]
    BY MarksAt
  <2>2. PICK d \in Edge : c.taued[d] = e
    BY <1>5
  <2>3. {c.tau[i] : i \in iare[d]} = {c.tau[a], c.tau[b]}
    BY <1>2, <1>4, <2>1, <2>2
  <2>4. iare[d] = {a, b}
    <3>1. \A i \in Local : c.tau[i] \in {c.tau[j] : j \in iare[d]} <=> i \in iare[d]
      BY <1>4, <1>5
    <3>2. \A i \in Local : c.tau[i] \in {c.tau[a], c.tau[b]} <=> i \in {a, b}
      BY <1>2, <1>5
    <3>3. iare[d] \subseteq Local /\ {a, b} \subseteq Local
      BY <1>2, <1>4
    <3> QED
      BY <2>3, <3>1, <3>2, <3>3
  <2>5. {a, b} \in DOMAIN MarksOf(R)
    BY <1>1, <2>2, <2>4, MarksAt
  <2> QED
    BY <1>7, <2>5 DEF Unmarked
<1>8. ASSUME NEW a \in T, NEW b \in T, NEW x, Marked(a, b, MarksOf(R), x)
      PROVE  Marked(y[a], y[b], MarksOf(F), y[x])
  <2>1. PICK e \in R : {a, b} = iare[e]
    BY <1>1, <1>8, MarksAt DEF Marked
  <2>2. x = m0 + e
    BY <1>1, <1>8, <2>1, MarksAt DEF Marked
  <2>3. e \in Edge /\ c.taued[e] \in F
    BY <1>1, <2>1
  <2>4. iare[c.taued[e]] = {y[a], y[b]}
    BY <1>2, <1>4, <2>1, <2>3
  <2>5. {y[a], y[b]} \in DOMAIN MarksOf(F) /\ MarksOf(F)[{y[a], y[b]}] = m0 + c.taued[e]
    BY <2>3, <2>4, MarksAt
  <2> QED
    BY <1>6, <2>2, <2>3, <2>5 DEF Marked
<1>9. SameMarks(y, T, MarksOf(R), MarksOf(F))
  BY <1>7, <1>8 DEF SameMarks
<1> QED
  BY <1>3, <1>9 DEF y, R

-------------------------------------------------------------------------------
(* The corners of a piece and those of its faces.                          *)
CornersOf(p) == {p.v[j] : j \in Local}
FaceOf(p, f) == {p.v[j] : j \in Local \ {f}}

(* Those of a piece brought to its tetrahedron are the renamed ones.       *)
LEMMA PlacedCorners ==
  ASSUME NEW c, Consistent(c), NEW q, q.reset \subseteq Local, \A a \in 1..4 : q.v[a] \in 0..9
  PROVE  /\ CornersOf(Placed(q, c)) = Image(Naming(c), VerticesOf(q)) /\ VerticesOf(q) \subseteq 0..9
         /\ \A f \in Local : /\ FaceOf(Placed(q, c), c.tau[f]) = Image(Naming(c), Trio(q, f))
                             /\ Trio(q, f) \subseteq 0..9
                             /\ c.tau[f] \in Placed(q, c).reset <=> f \in q.reset
<1> DEFINE u == q.v
           V == PlacedVertices(u, c)
           y == Naming(c)
<1>1. Placed(q, c).v = V /\ Placed(q, c).reset = {c.tau[f] : f \in q.reset}
  BY DEF Placed
<1>2. /\ \A j, x \in Local : c.tau[j] \in Local /\ (c.tau[j] = c.tau[x] => j = x)
      /\ \A j \in Local : \E x \in Local : c.tau[x] = j
  BY DEF Consistent
<1>3. \A a \in Local : a + 1 \in 1..4 /\ u[a + 1] \in 0..9
  BY DEF Local
<1>4. \A a \in Local : V[c.tau[a]] = y[u[a + 1]]
  <2> TAKE a \in Local
  <2>1. c.tau[a] \in Local /\ At(c.tau, c.tau[a]) = a
    <3>1. At(c.tau, c.tau[a]) \in Local /\ c.tau[At(c.tau, c.tau[a])] = c.tau[a]
      BY <1>2, PlacedWhere
    <3> QED
      BY <1>2, <3>1
  <2>2. V[c.tau[a]] = Place(u[a + 1], c)
    BY <2>1, PlacedWhere
  <2> QED
    BY <1>3, <2>2 DEF Naming
<1>5. VerticesOf(q) = {u[a + 1] : a \in Local}
  <2>1. \A w : (\E a \in Local : w = u[a + 1]) <=> w = u[1] \/ w = u[2] \/ w = u[3] \/ w = u[4]
    BY DEF Local
  <2> QED
    BY <2>1 DEF VerticesOf
<1>6. \A f \in Local : Trio(q, f) = {u[a + 1] : a \in Local \ {f}}
  BY DEF Trio
<1> HIDE DEF u, V, y
<1>7. CornersOf(Placed(q, c)) = Image(y, VerticesOf(q))
  <2>1. CornersOf(Placed(q, c)) = {V[j] : j \in Local}
    BY <1>1 DEF CornersOf
  <2>2. Image(y, VerticesOf(q)) = {y[u[a + 1]] : a \in Local}
    BY <1>5 DEF Image
  <2> QED
    BY <1>2, <1>4, <2>1, <2>2
<1>8. ASSUME NEW f \in Local
      PROVE  FaceOf(Placed(q, c), c.tau[f]) = Image(y, Trio(q, f))
  <2>1. FaceOf(Placed(q, c), c.tau[f]) = {V[j] : j \in Local \ {c.tau[f]}}
    BY <1>1 DEF FaceOf
  <2>2. Image(y, Trio(q, f)) = {y[u[a + 1]] : a \in Local \ {f}}
    BY <1>6 DEF Image
  <2>3. \A a \in Local : a # f <=> c.tau[a] # c.tau[f]
    BY <1>2
  <2> QED
    BY <1>2, <1>4, <2>1, <2>2, <2>3
<1>9. \A f \in Local : c.tau[f] \in Placed(q, c).reset <=> f \in q.reset
  BY <1>1, <1>2
<1> QED
  BY <1>3, <1>5, <1>6, <1>7, <1>8, <1>9 DEF y

(* The faces of pieces on a face of the tetrahedron make up its cut.       *)
Agree(ps, F, v) ==
    \A f \in Local : \A t : FaceCut(Local \ {f}, MarksOf(F), v, t)
                           <=> \E i \in DOMAIN ps : f \notin ps[i].reset /\ t = FaceOf(ps[i], f)

(* Face f of piece i is the face of one other piece, or of none.           *)
Inside(ps, i, f)  == \E j \in DOMAIN ps \ {i} :
                        \A l \in DOMAIN ps : FaceOf(ps[i], f) \subseteq CornersOf(ps[l]) <=> l \in {i, j}
Outside(ps, i, f) == \A l \in DOMAIN ps : FaceOf(ps[i], f) \subseteq CornersOf(ps[l]) <=> l = i

(* The pieces of a cut fit together, and with those of the neighbours.  A  *)
(* face that a piece has inside the tetrahedron is the face of exactly one *)
(* other piece.  The other faces are the face of no other piece, and those *)
(* on a face of the tetrahedron make up a cut of it that is told by its    *)
(* three corners, by the points of its edges and by the order of the       *)
(* global numbers alone, whatever happens elsewhere in the tetrahedron: it *)
(* is the same one on the other side of the face.  No piece is in another. *)
THEOREM SplitFits ==
  ASSUME NEW v \in [Local -> Nat], \A i, j \in Local : v[i] = v[j] => i = j,
         NEW F \in SUBSET Edge, F # {}
  PROVE  LET ps == Split(Bits(F), v)
         IN /\ \A i \in DOMAIN ps, f \in Local :
                  IF f \in ps[i].reset THEN Inside(ps, i, f) ELSE Outside(ps, i, f)
            /\ Agree(ps, F, v)
            /\ \A i, j \in DOMAIN ps : CornersOf(ps[i]) \subseteq CornersOf(ps[j]) => i = j
<1> DEFINE b  == Bits(F)
           c  == Configuration[b]
           qs == Pieces(b, v)
           ps == Split(b, v)
           R  == Reference(c, F)
           num == Num(v, c)
           y  == Naming(c)
<1>1. Consistent(c) /\ Piecewise(qs, R) /\ Fits(qs, R, num) /\ AllTraced(qs)
  BY PiecesUse, PiecesFit, PiecesFrom
<1>2. DOMAIN ps = DOMAIN qs /\ \A i \in DOMAIN qs : ps[i] = Placed(qs[i], c)
  BY DEF Split
<1>3. num \in [Local -> Nat] /\ Differ(num)
  BY <1>1, NumbersDiffer
<1>4. R \in SUBSET Edge
  BY DEF Reference
<1> HIDE DEF b, c, qs, ps, R, num
<1>5. ASSUME NEW i \in DOMAIN qs
      PROVE  /\ CornersOf(ps[i]) = Image(y, VerticesOf(qs[i])) /\ VerticesOf(qs[i]) \subseteq 0..9
             /\ \A f \in Local : /\ FaceOf(ps[i], c.tau[f]) = Image(y, Trio(qs[i], f))
                                 /\ Trio(qs[i], f) \subseteq 0..9
                                 /\ c.tau[f] \in ps[i].reset <=> f \in qs[i].reset
  <2>1. qs[i].reset \subseteq Local
    BY <1>1 DEF AllTraced, Traced
  <2>2. \A a \in 1..4 : qs[i].v[a] \in 0..9
    <3>1. Uses(qs[i].v, R)
      BY <1>1 DEF Piecewise
    <3> QED
      BY <1>4, <3>1 DEF Uses, Local, Edge, m0
  <2> QED
    BY <1>1, <1>2, <2>1, <2>2, PlacedCorners
<1>6. /\ \A f \in Local : c.tau[f] \in Local /\ y[f] = c.tau[f]
      /\ \A g \in Local : \E f \in Local : c.tau[f] = g
      /\ \A f, g \in Local : c.tau[f] = c.tau[g] => f = g
      /\ \A w, x \in 0..9 : y[w] = y[x] => w = x
  BY <1>1, NamingAt DEF Consistent
<1>7. \A s, t : s \subseteq 0..9 /\ t \subseteq 0..9 => (Image(y, s) \subseteq Image(y, t) <=> s \subseteq t)
  <2> SUFFICES ASSUME NEW s, NEW t, s \subseteq 0..9, t \subseteq 0..9
               PROVE  Image(y, s) \subseteq Image(y, t) <=> s \subseteq t
    OBVIOUS
  <2> HIDE DEF y
  <2>1. ASSUME s \subseteq t PROVE Image(y, s) \subseteq Image(y, t)
    BY <2>1 DEF Image
  <2>2. ASSUME Image(y, s) \subseteq Image(y, t), NEW w \in s PROVE w \in t
    <3>1. y[w] \in Image(y, t)
      BY <2>2 DEF Image
    <3>2. PICK x \in t : y[w] = y[x]
      BY <3>1 DEF Image
    <3> QED
      BY <1>6, <3>2
  <2> QED
    BY <2>1, <2>2
<1> HIDE DEF y
<1>8. ASSUME NEW i \in DOMAIN qs, NEW f \in Local, NEW l \in DOMAIN qs
      PROVE  FaceOf(ps[i], c.tau[f]) \subseteq CornersOf(ps[l]) <=> Trio(qs[i], f) \subseteq VerticesOf(qs[l])
  BY <1>5, <1>7
<1>9. ASSUME NEW i \in DOMAIN ps, NEW g \in Local
      PROVE  IF g \in ps[i].reset THEN Inside(ps, i, g) ELSE Outside(ps, i, g)
  <2>1. PICK f \in Local : c.tau[f] = g
    BY <1>6
  <2>2. i \in DOMAIN qs /\ Met(qs, i, f)
    BY <1>1, <1>2 DEF Fits
  <2>3. g \in ps[i].reset <=> f \in qs[i].reset
    BY <1>5, <2>1, <2>2
  <2>4. \A l \in DOMAIN ps : FaceOf(ps[i], g) \subseteq CornersOf(ps[l])
                                <=> Trio(qs[i], f) \subseteq VerticesOf(qs[l])
    BY <1>2, <1>8, <2>1, <2>2
  <2>5. CASE f \in qs[i].reset
    <3>1. PICK j \in DOMAIN qs : j # i /\ Share(qs, Trio(qs[i], f), i, j)
      BY <2>2, <2>5 DEF Met
    <3>2. j \in DOMAIN ps \ {i} /\ \A l \in DOMAIN ps : Trio(qs[i], f) \subseteq VerticesOf(qs[l]) <=> l \in {i, j}
      BY <1>2, <3>1 DEF Share
    <3> QED
      BY <2>3, <2>4, <2>5, <3>2 DEF Inside
  <2>6. CASE f \notin qs[i].reset
    <3>1. Share(qs, Trio(qs[i], f), i, i)
      BY <2>2, <2>6 DEF Met
    <3> QED
      BY <1>2, <2>3, <2>4, <2>6, <3>1 DEF Outside, Share
  <2> QED
    BY <2>5, <2>6
<1>10. ASSUME NEW g \in Local, NEW u
       PROVE  FaceCut(Local \ {g}, MarksOf(F), v, u)
                 <=> \E i \in DOMAIN ps : g \notin ps[i].reset /\ u = FaceOf(ps[i], g)
  <2>1. PICK f \in Local : c.tau[f] = g
    BY <1>6
  <2> DEFINE T == Local \ {f}
  <2>2. Image(y, T) = Local \ {g}
    <3>1. \A a \in Local : y[a] = g <=> a = f
      BY <1>6, <2>1
    <3>2. \A a \in Local : y[a] \in Local
      BY <1>6
    <3>3. \A h \in Local : \E a \in Local : y[a] = h
      BY <1>6
    <3> QED
      BY <3>1, <3>2, <3>3 DEF Image
  <2>3. SameMarks(y, T, MarksOf(R), MarksOf(F)) /\ SameOrder(y, T, num, v)
    BY <1>1, NamingKeeps DEF y, R, num
  <2>4. \A a, d \in T : y[a] = y[d] => a = d
    BY <1>6
  <2>5. FaceCut(Local \ {g}, MarksOf(F), v, u)
           <=> CutOfImage(y, T, MarksOf(R), num, u)
    <3> HIDE DEF T
    <3>1. FaceCut(Image(y, T), MarksOf(F), v, u) <=> CutOfImage(y, T, MarksOf(R), num, u)
      BY <2>3, <2>4, FaceCutRenamed
    <3> QED
      BY <2>2, <3>1
  <2>6. \A t : FaceCut(T, MarksOf(R), num, t) <=> t \in CutOf(f, R, num)
    BY <1>3, <1>4, CutOfIsCut
  <2>7. \A t : t \in CutOf(f, R, num) <=> \E i \in DOMAIN qs : f \notin qs[i].reset /\ t = Trio(qs[i], f)
    BY <1>1 DEF Fits, Covers
  <2>8. \A i \in DOMAIN qs : /\ g \notin ps[i].reset <=> f \notin qs[i].reset
                             /\ FaceOf(ps[i], g) = Image(y, Trio(qs[i], f))
    BY <1>5, <2>1
  <2> HIDE DEF T
  <2>9. CutOfImage(y, T, MarksOf(R), num, u)
           <=> \E i \in DOMAIN qs : f \notin qs[i].reset /\ u = Image(y, Trio(qs[i], f))
    BY <2>6, <2>7 DEF CutOfImage
  <2> QED
    BY <1>2, <2>5, <2>8, <2>9
<1>11. ASSUME NEW i \in DOMAIN ps, NEW j \in DOMAIN ps, CornersOf(ps[i]) \subseteq CornersOf(ps[j])
       PROVE  i = j
  <2>1. VerticesOf(qs[i]) \subseteq VerticesOf(qs[j])
    BY <1>2, <1>5, <1>7, <1>11
  <2> QED
    BY <1>1, <1>2, <2>1 DEF Fits
<1>12. Agree(ps, F, v)
  BY <1>10 DEF Agree
<1> QED
  BY <1>9, <1>11, <1>12 DEF ps, b

-------------------------------------------------------------------------------
(* Meshes.  X is a set of cells, C gives the corners of each one and B the *)
(* faces of the hull.                                                      *)

(* The cells at face f are x and z.                                        *)
FaceHas(X, C, f, x, z) == \A y \in X : f \subseteq C[y] <=> y = x \/ y = z

MeetsAt(X, C, B, x, f) ==
    IF f \in B THEN FaceHas(X, C, f, x, x) ELSE \E z \in X : z # x /\ FaceHas(X, C, f, x, z)

Conforming(X, C, B) ==
    /\ \A x, y \in X : C[x] \subseteq C[y] => x = y
    /\ \A x \in X : \A q \in C[x] : MeetsAt(X, C, B, x, C[x] \ {q})

(* What matters of a mesh is which cells have which corners, and which of  *)
(* their faces lie in the hull.                                            *)
LEMMA SameMeshConforms ==
  ASSUME NEW X, NEW C, NEW B, Conforming(X, C, B), NEW Y, NEW D, NEW A, NEW s,
         \A y \in Y : s[y] \in X /\ D[y] = C[s[y]],
         \A x \in X : \E y \in Y : s[y] = x,
         \A y, z \in Y : s[y] = s[z] => y = z,
         \A y \in Y : \A q \in D[y] : D[y] \ {q} \in A <=> D[y] \ {q} \in B
  PROVE  Conforming(Y, D, A)
<1>1. ASSUME NEW y \in Y, NEW z \in Y, D[y] \subseteq D[z] PROVE y = z
  BY <1>1 DEF Conforming
<1>2. ASSUME NEW y \in Y, NEW q \in D[y] PROVE MeetsAt(Y, D, A, y, D[y] \ {q})
  <2> DEFINE f == D[y] \ {q}
             x == s[y]
  <2>1. x \in X /\ MeetsAt(X, C, B, x, f) /\ (f \in A <=> f \in B)
    BY <1>2 DEF Conforming
  <2> HIDE DEF f
  <2>2. CASE f \in B
    <3>1. FaceHas(X, C, f, x, x)
      BY <2>1, <2>2 DEF MeetsAt
    <3>2. FaceHas(Y, D, f, y, y)
      BY <3>1 DEF FaceHas
    <3> QED
      BY <2>1, <2>2, <3>2 DEF MeetsAt, f
  <2>3. CASE f \notin B
    <3>1. PICK w \in X : w # x /\ FaceHas(X, C, f, x, w)
      BY <2>1, <2>3 DEF MeetsAt
    <3>2. PICK z \in Y : s[z] = w
      OBVIOUS
    <3>3. z # y /\ FaceHas(Y, D, f, y, z)
      BY <3>1, <3>2 DEF FaceHas
    <3> QED
      BY <2>1, <2>3, <3>3 DEF MeetsAt, f
  <2> QED
    BY <2>2, <2>3
<1> QED
  BY <1>1, <1>2 DEF Conforming

-------------------------------------------------------------------------------
(* A tetrahedron of a mesh where the edges in H have points.               *)
VertexSet(v)  == {v[i] : i \in Local}
EndsIn(v, e)  == {v[i] : i \in iare[e]}
FlagIn(v, H)  == {e \in Edge : EndsIn(v, e) \in DOMAIN H}
Placing(v, H) == [w \in 0..9 |-> IF w < m0 THEN v[w] ELSE H[EndsIn(v, w - m0)]]

(* The vertices that its pieces have.                                      *)
VerticesFrom(F) == Local \union {m0 + e : e \in F}

(* Its vertices differ, and no point of an edge is one of them.            *)
Sound(v, H) ==
    /\ v \in [Local -> Nat] /\ \A i, j \in Local : v[i] = v[j] => i = j
    /\ \A i \in Local : {v[i]} \notin DOMAIN H
    /\ \A d, e \in DOMAIN H : H[d] = H[e] => d = e
    /\ \A i \in Local, e \in DOMAIN H : H[e] # v[i]

(* What is known of its pieces.                                            *)
WellCut(ps, F, v) ==
    /\ \A i \in DOMAIN ps : /\ ps[i].v \in [Local -> VerticesFrom(F)]
                            /\ \A a, b \in Local : ps[i].v[a] = ps[i].v[b] => a = b
    /\ \A i \in DOMAIN ps, f \in Local :
          IF f \in ps[i].reset THEN Inside(ps, i, f) ELSE Outside(ps, i, f)
    /\ Agree(ps, F, v)
    /\ \A i, j \in DOMAIN ps : CornersOf(ps[i]) \subseteq CornersOf(ps[j]) => i = j
    /\ \A i \in DOMAIN ps, f \in Local : RootedAt(ps[i], f)

LEMMA SplitIsWellCut ==
  ASSUME NEW v \in [Local -> Nat], \A i, j \in Local : v[i] = v[j] => i = j,
         NEW F \in SUBSET Edge, F # {}
  PROVE  WellCut(Split(Bits(F), v), F, v)
<1>1. PICK ps : ps = Split(Bits(F), v)
  OBVIOUS
<1>2. \A i \in DOMAIN ps : \A a, b \in Local : ps[i].v[a] = ps[i].v[b] => a = b
  <2>1. v \in [Local -> Int]
    OBVIOUS
  <2> QED
    BY <1>1, <2>1, SplitShows
<1>3. \A i \in DOMAIN ps : ps[i].v \in [Local -> VerticesFrom(F)]
  BY <1>1, SplitUses DEF VerticesFrom
<1>4. ASSUME NEW i \in DOMAIN ps, NEW p, p = ps[i], NEW f \in Local
      PROVE  RootedAt(p, f)
  BY <1>1, <1>4, SplitFaces
<1>5. /\ \A i \in DOMAIN ps, f \in Local :
            IF f \in ps[i].reset THEN Inside(ps, i, f) ELSE Outside(ps, i, f)
      /\ Agree(ps, F, v)
      /\ \A i, j \in DOMAIN ps : CornersOf(ps[i]) \subseteq CornersOf(ps[j]) => i = j
  BY <1>1, SplitFits
<1> QED
  BY <1>1, <1>2, <1>3, <1>4, <1>5 DEF WellCut

(* A tetrahedron that is not cut is one piece of itself.                   *)
WholePiece == << [v |-> [i \in Local |-> i], reset |-> {}] >>

LEMMA WholeIsWellCut ==
  ASSUME NEW v
  PROVE  WellCut(WholePiece, {}, v)
<1> DEFINE ps == WholePiece
           w  == [i \in Local |-> i]
<1>1. DOMAIN ps = {1} /\ ps[1].v = w /\ ps[1].reset = {}
  <2>1. DOMAIN ps = {1} /\ ps[1] = [v |-> w, reset |-> {}]
    BY DEF WholePiece
  <2> QED
    BY <2>1
<1>2. CornersOf(ps[1]) = Local /\ \A f \in Local : FaceOf(ps[1], f) = Local \ {f}
  BY <1>1 DEF CornersOf, FaceOf
<1> HIDE DEF ps
<1>3. \A j \in Local : Roots(j) = {j}
  BY DEF Roots, Local, m0
<1>4. \A f \in Local : RootsOf(w, Local \ {f}) = Local \ {f}
  BY <1>3 DEF RootsOf
<1>8. \A i \in DOMAIN ps, f \in Local : RootedAt(ps[i], f)
  BY <1>1, <1>4 DEF RootedAt
<1>5. w \in [Local -> VerticesFrom({})]
  BY DEF VerticesFrom
<1>6. \A i \in DOMAIN ps, f \in Local : Outside(ps, i, f)
  BY <1>1, <1>2 DEF Outside
<1>7. Agree(ps, {}, v)
  <2>1. \A a, b : Unmarked(a, b, MarksOf({}))
    BY DEF Unmarked, MarksOf
  <2>2. ASSUME NEW a, NEW b, NEW c, a # b, a # c, b # c, NEW t
        PROVE  FaceCut({a, b, c}, MarksOf({}), v, t) <=> t = {a, b, c}
    <3>1. IsCut(a, b, c, MarksOf({}), v, {{a, b, c}})
      BY <2>1, <2>2, NoMark
    <3> QED
      BY <3>1 DEF IsCut
  <2>3. ASSUME NEW f \in Local, NEW t PROVE FaceCut(Local \ {f}, MarksOf({}), v, t) <=> t = Local \ {f}
    <3>1. PICK a, b, c : Local \ {f} = {a, b, c} /\ a # b /\ a # c /\ b # c
      <4>1. f = 0 \/ f = 1 \/ f = 2 \/ f = 3
        BY DEF Local
      <4>2. /\ Local \ {0} = {1, 2, 3} /\ Local \ {1} = {0, 2, 3}
            /\ Local \ {2} = {0, 1, 3} /\ Local \ {3} = {0, 1, 2}
        BY DEF Local
      <4> QED
        BY <4>1, <4>2
    <3>2. FaceCut({a, b, c}, MarksOf({}), v, t) <=> t = {a, b, c}
      BY <2>2, <3>1
    <3> QED
      BY <3>1, <3>2
  <2>4. ASSUME NEW f \in Local, NEW t
        PROVE  (\E i \in DOMAIN ps : f \notin ps[i].reset /\ t = FaceOf(ps[i], f)) <=> t = Local \ {f}
    BY <1>1, <1>2
  <2> QED
    BY <2>3, <2>4 DEF Agree
<1> QED
  <2>1. \A a, b \in Local : w[a] = w[b] => a = b
    OBVIOUS
  <2> HIDE DEF w
  <2>2. \A i \in DOMAIN ps : i = 1
    BY <1>1
  <2> QED
    BY <1>1, <1>5, <1>6, <1>7, <1>8, <2>1, <2>2 DEF WellCut, ps

(* Its vertices and the points of its edges differ.                        *)
LEMMA EndsInApart ==
  ASSUME NEW v, \A i, j \in Local : v[i] = v[j] => i = j
  PROVE  \A d, e \in Edge : EndsIn(v, d) = EndsIn(v, e) => d = e
<1>1. \A e \in Edge : iare[e] \subseteq Local
  BY EdgeEnds DEF Edge, Local
<1>2. ASSUME NEW d \in Edge, NEW e \in Edge, EndsIn(v, d) = EndsIn(v, e) PROVE iare[d] = iare[e]
  <2>1. \A i \in Local : v[i] \in EndsIn(v, d) <=> i \in iare[d]
    BY <1>1 DEF EndsIn
  <2>2. \A i \in Local : v[i] \in EndsIn(v, e) <=> i \in iare[e]
    BY <1>1 DEF EndsIn
  <2> QED
    BY <1>1, <1>2, <2>1, <2>2
<1>3. \A d, e \in Edge : iare[d] = iare[e] => d = e
  BY EdgeEnds DEF Edge
<1> QED
  BY <1>2, <1>3

LEMMA PlacingAt ==
  ASSUME NEW v, NEW H
  PROVE  /\ \A i \in Local : Placing(v, H)[i] = v[i]
         /\ \A e \in Edge : Placing(v, H)[m0 + e] = H[EndsIn(v, e)]
         /\ \A F \in SUBSET Edge : VerticesFrom(F) \subseteq 0..9
<1>1. \A i \in Local : i \in 0..9 /\ i < m0
  BY DEF Local, m0
<1>2. \A e \in Edge : m0 + e \in 0..9 /\ ~(m0 + e < m0) /\ (m0 + e) - m0 = e
  BY DEF Edge, m0
<1>3. \A i \in Local : Placing(v, H)[i] = v[i]
  BY <1>1 DEF Placing
<1>4. \A e \in Edge : Placing(v, H)[m0 + e] = H[EndsIn(v, e)]
  BY <1>2 DEF Placing
<1>5. \A F \in SUBSET Edge : VerticesFrom(F) \subseteq 0..9
  BY <1>1, <1>2 DEF VerticesFrom
<1> QED
  BY <1>3, <1>4, <1>5

LEMMA PlacingApart ==
  ASSUME NEW v, NEW H, Sound(v, H)
  PROVE  \A w, x \in VerticesFrom(FlagIn(v, H)) : Placing(v, H)[w] = Placing(v, H)[x] => w = x
<1> DEFINE F == FlagIn(v, H)
           y == Placing(v, H)
<1>1. /\ \A i \in Local : y[i] = v[i]
      /\ \A e \in Edge : y[m0 + e] = H[EndsIn(v, e)]
  BY PlacingAt
<1>2. \A e \in F : e \in Edge /\ EndsIn(v, e) \in DOMAIN H
  BY DEF FlagIn
<1>3. \A d, e \in Edge : EndsIn(v, d) = EndsIn(v, e) => d = e
  BY EndsInApart DEF Sound
<1> HIDE DEF F, y
<1>4. ASSUME NEW i \in Local, NEW e \in F PROVE y[i] # y[m0 + e]
  BY <1>1, <1>2 DEF Sound
<1>5. ASSUME NEW d \in F, NEW e \in F, y[m0 + d] = y[m0 + e] PROVE d = e
  BY <1>1, <1>2, <1>3, <1>5 DEF Sound
<1>6. ASSUME NEW i \in Local, NEW j \in Local, y[i] = y[j] PROVE i = j
  BY <1>1, <1>6 DEF Sound
<1>7. \A w \in VerticesFrom(F) : w \in Local \/ \E e \in F : w = m0 + e
  BY DEF VerticesFrom
<1> QED
  BY <1>4, <1>5, <1>6, <1>7 DEF F, y

(* Global vertices keep the points of a face and the order of its numbers. *)
Itself == [q \in Nat |-> q]

LEMMA PlacingKeeps ==
  ASSUME NEW v, NEW H, Sound(v, H), NEW T \in SUBSET Local
  PROVE  /\ SameMarks(Placing(v, H), T, MarksOf(FlagIn(v, H)), H)
         /\ SameOrder(Placing(v, H), T, v, Itself)
<1> DEFINE F == FlagIn(v, H)
           y == Placing(v, H)
<1>1. /\ \A i \in Local : y[i] = v[i]
      /\ \A e \in Edge : y[m0 + e] = H[EndsIn(v, e)]
  BY PlacingAt
<1>2. F \in SUBSET Edge /\ \A e \in Edge : e \in F <=> EndsIn(v, e) \in DOMAIN H
  BY DEF FlagIn
<1> HIDE DEF F, y
<1>3. \A a \in T : a \in Local /\ y[a] = v[a] /\ v[a] \in Nat
  BY <1>1 DEF Sound
<1>4. SameOrder(y, T, v, Itself)
  BY <1>3 DEF SameOrder, Itself
<1>5. ASSUME NEW a \in T, NEW b \in T, a # b
      PROVE  \E e \in Edge : iare[e] = {a, b} /\ EndsIn(v, e) = {y[a], y[b]}
  <2>1. PICK e \in Edge : iare[e] = {a, b}
    <3>1. /\ a \in {0, 1, 2, 3} /\ b \in {0, 1, 2, 3}
          /\ 0 \in Edge /\ 1 \in Edge /\ 2 \in Edge /\ 3 \in Edge /\ 4 \in Edge /\ 5 \in Edge
      BY <1>3 DEF Local, Edge
    <3>2. {b, a} = {a, b}
      OBVIOUS
    <3>3. /\ iare[0] = {0, 1} /\ iare[1] = {0, 2} /\ iare[2] = {0, 3} /\ iare[3] = {1, 2}
          /\ iare[4] = {1, 3} /\ iare[5] = {2, 3}
      BY EdgeEnds
    <3> QED
      BY <1>5, <3>1, <3>2, <3>3
  <2>2. EndsIn(v, e) = {y[a], y[b]}
    BY <1>3, <2>1 DEF EndsIn
  <2> QED
    BY <2>1, <2>2
<1>6. ASSUME NEW a \in T, NEW b \in T
      PROVE  /\ Unmarked(a, b, MarksOf(F)) => Unmarked(y[a], y[b], H)
             /\ \A x : Marked(a, b, MarksOf(F), x) => Marked(y[a], y[b], H, y[x])
  <2>1. CASE a = b
    <3>1. {a, b} \notin DOMAIN MarksOf(F)
      <4>1. \A e \in Edge : iare[e] # {a, b}
        BY <2>1, EdgeEnds DEF Edge
      <4> QED
        BY <1>2, <4>1, MarksAt
    <3>2. {y[a], y[b]} \notin DOMAIN H
      BY <1>3, <2>1 DEF Sound
    <3> QED
      BY <3>1, <3>2 DEF Marked, Unmarked
  <2>2. CASE a # b
    <3>1. PICK e \in Edge : iare[e] = {a, b} /\ EndsIn(v, e) = {y[a], y[b]}
      BY <1>5, <2>2
    <3>2. \A d \in Edge : iare[d] = iare[e] => d = e
      BY EdgeEnds DEF Edge
    <3>3. {a, b} \in DOMAIN MarksOf(F) <=> e \in F
      <4>1. iare[e] \in DOMAIN MarksOf(F) <=> \E d \in F : iare[e] = iare[d]
        BY <1>2, MarksAt
      <4>2. iare[e] \in DOMAIN MarksOf(F) <=> e \in F
        BY <1>2, <3>2, <4>1
      <4> QED
        BY <3>1, <4>2
    <3>4. e \in F => MarksOf(F)[{a, b}] = m0 + e
      BY <1>2, <3>1, MarksAt
    <3>5. {y[a], y[b]} \in DOMAIN H <=> e \in F
      BY <1>2, <3>1
    <3>6. y[m0 + e] = H[{y[a], y[b]}]
      BY <1>1, <3>1
    <3> QED
      BY <3>3, <3>4, <3>5, <3>6 DEF Marked, Unmarked
  <2> QED
    BY <2>1, <2>2
<1>7. SameMarks(y, T, MarksOf(F), H)
  BY <1>6 DEF SameMarks
<1> QED
  BY <1>4, <1>7 DEF F, y

-------------------------------------------------------------------------------
(* The vertices of a piece are vertices or points of the tetrahedron.      *)
LEMMA PieceIn ==
  ASSUME NEW ps, NEW F, NEW v, WellCut(ps, F, v), NEW i \in DOMAIN ps
  PROVE  /\ CornersOf(ps[i]) \subseteq VerticesFrom(F)
         /\ \A f \in Local : FaceOf(ps[i], f) \subseteq VerticesFrom(F)
<1>1. ps[i].v \in [Local -> VerticesFrom(F)]
  BY DEF WellCut
<1>2. \A j \in Local : ps[i].v[j] \in VerticesFrom(F)
  BY <1>1
<1>3. CornersOf(ps[i]) \subseteq VerticesFrom(F)
  BY <1>2 DEF CornersOf
<1>4. \A f \in Local : FaceOf(ps[i], f) \subseteq VerticesFrom(F)
  BY <1>2 DEF FaceOf
<1> QED
  BY <1>3, <1>4

(* A renaming without collisions keeps inclusions.                         *)
LEMMA ImageWithin ==
  ASSUME NEW W, NEW y, \A w, x \in W : y[w] = y[x] => w = x,
         NEW s \in SUBSET W, NEW t \in SUBSET W
  PROVE  Image(y, s) \subseteq Image(y, t) <=> s \subseteq t
BY DEF Image

(* Tetrahedron w has the vertices of face f of v; the same of some vertices *)
(* of the pieces.                                                          *)
HasFace(v, f, w)     == VertexSet(v) \ {v[f]} \subseteq VertexSet(w)
HasImage(v, H, s, w, t) == Image(Placing(v, H), s) \subseteq Image(Placing(w, H), t)

(* The faces of a cell are those of its piece.                             *)
LEMMA CellFaces ==
  ASSUME NEW v, NEW H, Sound(v, H), NEW ps, WellCut(ps, FlagIn(v, H), v), NEW i \in DOMAIN ps,
         NEW q \in Image(Placing(v, H), CornersOf(ps[i]))
  PROVE  \E f \in Local : Image(Placing(v, H), CornersOf(ps[i])) \ {q}
                              = Image(Placing(v, H), FaceOf(ps[i], f))
<1> DEFINE y == Placing(v, H)
           W == VerticesFrom(FlagIn(v, H))
           u == ps[i].v
<1>1. \A w, x \in W : y[w] = y[x] => w = x
  BY PlacingApart
<1>2. u \in [Local -> W] /\ \A a, b \in Local : u[a] = u[b] => a = b
  BY DEF WellCut
<1> HIDE DEF y, W, u
<1>3. \A x : x \in Image(y, CornersOf(ps[i])) <=> \E j \in Local : x = y[u[j]]
  BY DEF Image, CornersOf, u
<1>4. \A f \in Local : \A x : x \in Image(y, FaceOf(ps[i], f)) <=> \E j \in Local : j # f /\ x = y[u[j]]
  BY DEF Image, FaceOf, u
<1>5. PICK f \in Local : q = y[u[f]]
  BY <1>3 DEF y
<1>6. \A j \in Local : y[u[j]] = q <=> j = f
  BY <1>1, <1>2, <1>5
<1>7. \A x : x \in Image(y, CornersOf(ps[i])) \ {q} <=> x \in Image(y, FaceOf(ps[i], f))
  BY <1>3, <1>4, <1>6
<1> QED
  BY <1>7 DEF y

(* The cells of a tetrahedron at an inner face, and at an outer one.       *)
LEMMA InnerCells ==
  ASSUME NEW v, NEW H, Sound(v, H), NEW ps, WellCut(ps, FlagIn(v, H), v), NEW i \in DOMAIN ps,
         NEW f \in Local, f \in ps[i].reset
  PROVE  \E j \in DOMAIN ps \ {i} : \A l \in DOMAIN ps :
            Image(Placing(v, H), FaceOf(ps[i], f)) \subseteq Image(Placing(v, H), CornersOf(ps[l]))
               <=> l \in {i, j}
<1> DEFINE y == Placing(v, H)
           W == VerticesFrom(FlagIn(v, H))
<1>1. \A w, x \in W : y[w] = y[x] => w = x
  BY PlacingApart
<1>2. FaceOf(ps[i], f) \in SUBSET W /\ \A l \in DOMAIN ps : CornersOf(ps[l]) \in SUBSET W
  BY PieceIn
<1>3. Inside(ps, i, f)
  BY DEF WellCut
<1> HIDE DEF y, W
<1>4. \A l \in DOMAIN ps : Image(y, FaceOf(ps[i], f)) \subseteq Image(y, CornersOf(ps[l]))
                              <=> FaceOf(ps[i], f) \subseteq CornersOf(ps[l])
  BY <1>1, <1>2, ImageWithin
<1> QED
  BY <1>3, <1>4 DEF Inside, y

LEMMA OuterCells ==
  ASSUME NEW v, NEW H, Sound(v, H), NEW ps, WellCut(ps, FlagIn(v, H), v), NEW i \in DOMAIN ps,
         NEW f \in Local, f \notin ps[i].reset
  PROVE  \A l \in DOMAIN ps :
            Image(Placing(v, H), FaceOf(ps[i], f)) \subseteq Image(Placing(v, H), CornersOf(ps[l]))
               <=> l = i
<1> DEFINE y == Placing(v, H)
           W == VerticesFrom(FlagIn(v, H))
<1>1. \A w, x \in W : y[w] = y[x] => w = x
  BY PlacingApart
<1>2. FaceOf(ps[i], f) \in SUBSET W /\ \A l \in DOMAIN ps : CornersOf(ps[l]) \in SUBSET W
  BY PieceIn
<1>3. Outside(ps, i, f)
  BY DEF WellCut
<1> HIDE DEF y, W
<1>4. \A l \in DOMAIN ps : Image(y, FaceOf(ps[i], f)) \subseteq Image(y, CornersOf(ps[l]))
                              <=> FaceOf(ps[i], f) \subseteq CornersOf(ps[l])
  BY <1>1, <1>2, ImageWithin
<1> QED
  BY <1>3, <1>4 DEF Outside, y

(* The cells on a face of the tetrahedron are the cut of this face as it is *)
(* told by the points of its edges and by the numbers of its vertices.     *)
LEMMA FaceCells ==
  ASSUME NEW v, NEW H, Sound(v, H), NEW ps, WellCut(ps, FlagIn(v, H), v), NEW f \in Local, NEW g
  PROVE  FaceCut(VertexSet(v) \ {v[f]}, H, Itself, g) <=>
            \E i \in DOMAIN ps : f \notin ps[i].reset /\ g = Image(Placing(v, H), FaceOf(ps[i], f))
<1> DEFINE y == Placing(v, H)
           F == FlagIn(v, H)
           T == Local \ {f}
<1>1. T \in SUBSET Local
  OBVIOUS
<1>2. SameMarks(y, T, MarksOf(F), H) /\ SameOrder(y, T, v, Itself)
  BY <1>1, PlacingKeeps
<1>3. \A a \in Local : y[a] = v[a]
  BY PlacingAt
<1>4. \A a, b \in T : y[a] = y[b] => a = b
  BY <1>3 DEF Sound
<1>5. Image(y, T) = VertexSet(v) \ {v[f]}
  <2>1. \A a, b \in Local : v[a] = v[b] => a = b
    BY DEF Sound
  <2> HIDE DEF y
  <2>2. \A x : x \in Image(y, T) <=> \E a \in Local : a # f /\ x = v[a]
    BY <1>3 DEF Image
  <2>3. \A x : x \in VertexSet(v) \ {v[f]} <=> \E a \in Local : a # f /\ x = v[a]
    BY <2>1 DEF VertexSet
  <2> QED
    BY <2>2, <2>3
<1>6. FaceCut(Image(y, T), H, Itself, g) <=> CutOfImage(y, T, MarksOf(F), v, g)
  BY <1>2, <1>4, FaceCutRenamed
<1>7. Agree(ps, F, v)
  BY DEF WellCut
<1>8. \A t : FaceCut(T, MarksOf(F), v, t) <=> \E i \in DOMAIN ps : f \notin ps[i].reset /\ t = FaceOf(ps[i], f)
  BY <1>7 DEF Agree
<1> HIDE DEF y, F, T
<1>9. CutOfImage(y, T, MarksOf(F), v, g) <=>
         \E i \in DOMAIN ps : f \notin ps[i].reset /\ g = Image(y, FaceOf(ps[i], f))
  BY <1>8 DEF CutOfImage
<1> QED
  BY <1>5, <1>6, <1>9 DEF y

(* What belongs to two tetrahedra belongs to the face that they share.     *)
LEMMA RootsIn ==
  ASSUME NEW v, NEW w, NEW H, Sound(v, H), Sound(w, H), NEW s \in SUBSET VerticesFrom(FlagIn(v, H)),
         NEW t \in SUBSET VerticesFrom(FlagIn(w, H)),
         Image(Placing(v, H), s) \subseteq Image(Placing(w, H), t)
  PROVE  \A x \in s : \A r \in Roots(x) : v[r] \in VertexSet(w)
<1>1. /\ \A i \in Local : Placing(v, H)[i] = v[i] /\ Placing(w, H)[i] = w[i]
      /\ \A e \in Edge : /\ Placing(v, H)[m0 + e] = H[EndsIn(v, e)]
                         /\ Placing(w, H)[m0 + e] = H[EndsIn(w, e)]
  BY PlacingAt
<1>2. ASSUME NEW x \in s, NEW r \in Roots(x) PROVE v[r] \in VertexSet(w)
  <2>1. PICK z \in t : Placing(v, H)[x] = Placing(w, H)[z]
    BY <1>2 DEF Image
  <2>2. z \in Local \/ \E d \in Edge : z = m0 + d /\ EndsIn(w, d) \in DOMAIN H
    BY DEF VerticesFrom, FlagIn
  <2>3. CASE x \in Local
    <3>1. Roots(x) = {x}
      BY <2>3 DEF Roots, Local, m0
    <3>2. v[x] = Placing(w, H)[z]
      BY <1>1, <2>1, <2>3
    <3>3. z \in Local
      BY <1>1, <2>2, <2>3, <3>2 DEF Sound
    <3> QED
      BY <1>1, <1>2, <3>1, <3>2, <3>3 DEF VertexSet
  <2>4. CASE x \notin Local
    <3>1. PICK e \in Edge : x = m0 + e /\ EndsIn(v, e) \in DOMAIN H
      BY <2>4 DEF VerticesFrom, FlagIn
    <3>2. ~(x < m0) /\ x - m0 = e
      BY <3>1 DEF Edge, m0
    <3>3. Roots(x) = iare[e]
      BY <3>2 DEF Roots
    <3>4. H[EndsIn(v, e)] = Placing(w, H)[z]
      BY <1>1, <2>1, <3>1
    <3>5. z \notin Local
      BY <1>1, <3>1, <3>4 DEF Sound
    <3>6. PICK d \in Edge : z = m0 + d /\ EndsIn(w, d) \in DOMAIN H
      BY <2>2, <3>5
    <3>7. EndsIn(v, e) = EndsIn(w, d)
      BY <1>1, <3>1, <3>4, <3>6 DEF Sound
    <3>8. v[r] \in EndsIn(w, d)
      BY <1>2, <3>3, <3>7 DEF EndsIn
    <3>9. iare[d] \subseteq Local
      BY EdgeEnds DEF Edge, Local
    <3> QED
      BY <3>8, <3>9 DEF EndsIn, VertexSet
  <2> QED
    BY <2>3, <2>4
<1> QED
  BY <1>2

(* So a cell that has the vertices of a face of another one belongs to a   *)
(* tetrahedron with the vertices to which the face goes back.              *)
LEMMA FaceRootsIn ==
  ASSUME NEW v, NEW w, NEW H, Sound(v, H), Sound(w, H),
         NEW ps, WellCut(ps, FlagIn(v, H), v), NEW i \in DOMAIN ps, NEW f \in Local,
         NEW t \in SUBSET VerticesFrom(FlagIn(w, H)),
         HasImage(v, H, FaceOf(ps[i], f), w, t)
  PROVE  /\ HasFace(v, f, w)
         /\ f \in ps[i].reset => VertexSet(v) \subseteq VertexSet(w)
<1>1. FaceOf(ps[i], f) \in SUBSET VerticesFrom(FlagIn(v, H))
  BY PieceIn
<1>2. \A x \in FaceOf(ps[i], f) : \A r \in Roots(x) : v[r] \in VertexSet(w)
  BY <1>1, RootsIn DEF HasImage
<1>3. \A r \in RootsOf(ps[i].v, Local \ {f}) : v[r] \in VertexSet(w)
  BY <1>2 DEF RootsOf, FaceOf
<1>4. RootedAt(ps[i], f)
  BY DEF WellCut
<1>5. /\ \A r \in Local \ {f} : v[r] \in VertexSet(w)
      /\ f \in ps[i].reset => \A r \in Local : v[r] \in VertexSet(w)
  BY <1>3, <1>4 DEF RootedAt
<1> QED
  BY <1>5 DEF VertexSet, HasFace

(* Three vertices that two tetrahedra share are a face of both.            *)
LEMMA Fourth ==
  ASSUME NEW i \in Local, NEW j \in Local, NEW k \in Local, i # j, i # k, j # k
  PROVE  \E h \in Local : \A x \in Local : x # h <=> x = i \/ x = j \/ x = k
<1>1. /\ i = 0 \/ i = 1 \/ i = 2 \/ i = 3
      /\ j = 0 \/ j = 1 \/ j = 2 \/ j = 3
      /\ k = 0 \/ k = 1 \/ k = 2 \/ k = 3
  BY DEF Local
<1>2. \A x : x \in Local <=> x = 0 \/ x = 1 \/ x = 2 \/ x = 3
  BY DEF Local
<1>3. \E h \in Local : h # i /\ h # j /\ h # k
  BY <1>1, <1>2
<1>4. PICK h \in Local : h # i /\ h # j /\ h # k
  BY <1>3
<1>5. h = 0 \/ h = 1 \/ h = 2 \/ h = 3
  BY <1>2
<1>6. \A x \in Local : x # h <=> x = i \/ x = j \/ x = k
  BY <1>1, <1>2, <1>4, <1>5
<1> QED
  BY <1>6

LEMMA FaceShared ==
  ASSUME NEW v, NEW w, NEW H, Sound(v, H), Sound(w, H), NEW f \in Local,
         HasFace(v, f, w)
  PROVE  \E h \in Local : VertexSet(w) \ {w[h]} = VertexSet(v) \ {v[f]}
<1>1. /\ \A a, b \in Local : v[a] = v[b] => a = b
      /\ \A a, b \in Local : w[a] = w[b] => a = b
  BY DEF Sound
<1>2. PICK a \in Local, b \in Local, c \in Local :
         a # b /\ a # c /\ b # c /\ \A x \in Local : x # f <=> x = a \/ x = b \/ x = c
  <2>1. f = 0 \/ f = 1 \/ f = 2 \/ f = 3
    BY DEF Local
  <2>2. \A x : x \in Local <=> x = 0 \/ x = 1 \/ x = 2 \/ x = 3
    BY DEF Local
  <2>3. 0 \in Local /\ 1 \in Local /\ 2 \in Local /\ 3 \in Local
    BY <2>2
  <2>4. CASE f = 0
    <3>1. \A x \in Local : x # f <=> x = 1 \/ x = 2 \/ x = 3
      BY <2>2, <2>4
    <3> QED
      BY <2>3, <3>1
  <2>5. CASE f = 1
    <3>1. \A x \in Local : x # f <=> x = 0 \/ x = 2 \/ x = 3
      BY <2>2, <2>5
    <3> QED
      BY <2>3, <3>1
  <2>6. CASE f = 2
    <3>1. \A x \in Local : x # f <=> x = 0 \/ x = 1 \/ x = 3
      BY <2>2, <2>6
    <3> QED
      BY <2>3, <3>1
  <2>7. CASE f = 3
    <3>1. \A x \in Local : x # f <=> x = 0 \/ x = 1 \/ x = 2
      BY <2>2, <2>7
    <3> QED
      BY <2>3, <3>1
  <2> QED
    BY <2>1, <2>4, <2>5, <2>6, <2>7
<1>3. \A z : z \in VertexSet(v) \ {v[f]} <=> z = v[a] \/ z = v[b] \/ z = v[c]
  BY <1>1, <1>2 DEF VertexSet
<1>4. PICK i \in Local, j \in Local, k \in Local : v[a] = w[i] /\ v[b] = w[j] /\ v[c] = w[k]
  BY <1>3 DEF VertexSet, HasFace
<1>5. i # j /\ i # k /\ j # k
  BY <1>1, <1>2, <1>4
<1>6. PICK h \in Local : \A x \in Local : x # h <=> x = i \/ x = j \/ x = k
  BY <1>5, Fourth
<1>7. \A z : z \in VertexSet(w) \ {w[h]} <=> z = w[i] \/ z = w[j] \/ z = w[k]
  BY <1>1, <1>6 DEF VertexSet
<1> QED
  BY <1>3, <1>4, <1>7

-------------------------------------------------------------------------------
(* The tetrahedra of M have the vertices V and are cut in the pieces PS;   *)
(* y stands for piece part[y] of tetrahedron own[y].                       *)
CellOf(V, H, PS, k, i)      == Image(Placing(V[k], H), CornersOf(PS[k][i]))
FaceOfCell(V, H, PS, k, i, f) == Image(Placing(V[k], H), FaceOf(PS[k][i], f))

Subdivided(M, PS, Y, own, part) ==
    /\ \A y \in Y : own[y] \in M /\ part[y] \in DOMAIN PS[own[y]]
    /\ \A k \in M : \A i \in DOMAIN PS[k] : \E y \in Y : own[y] = k /\ part[y] = i
    /\ \A y, z \in Y : own[y] = own[z] /\ part[y] = part[z] => y = z

AllCut(M, V, H, PS) == \A k \in M : Sound(V[k], H) /\ WellCut(PS[k], FlagIn(V[k], H), V[k])

(* The faces A of the pieces lie in the hull B.                            *)
HullCut(M, V, H, PS, B, A) ==
    \A k \in M : \A i \in DOMAIN PS[k], f \in Local :
        FaceOfCell(V, H, PS, k, i, f) \in A
           <=> f \notin PS[k][i].reset /\ VertexSet(V[k]) \ {V[k][f]} \in B

(* The cells at a face of a piece, tetrahedron by tetrahedron: its own one *)
LEMMA CellsApart ==
  ASSUME NEW M, NEW V, NEW H, NEW PS, NEW B,
         AllCut(M, V, H, PS),
         Conforming(M, [k \in M |-> VertexSet(V[k])], B),
         NEW k \in M, NEW i \in DOMAIN PS[k], NEW l \in M, NEW j \in DOMAIN PS[l],
         CellOf(V, H, PS, k, i) \subseteq CellOf(V, H, PS, l, j)
  PROVE  k = l /\ i = j
<1>1. /\ Sound(V[k], H) /\ WellCut(PS[k], FlagIn(V[k], H), V[k])
      /\ Sound(V[l], H) /\ WellCut(PS[l], FlagIn(V[l], H), V[l])
  BY DEF AllCut
<1>2. CornersOf(PS[l][j]) \in SUBSET VerticesFrom(FlagIn(V[l], H))
  BY <1>1, PieceIn
<1>3. \A f \in Local : FaceOfCell(V, H, PS, k, i, f) \subseteq CellOf(V, H, PS, l, j)
  BY DEF FaceOfCell, CellOf, Image, FaceOf, CornersOf
<1>4. \A f \in Local : VertexSet(V[k]) \ {V[k][f]} \subseteq VertexSet(V[l])
  <2> TAKE f \in Local
  <2>1. PICK v, w, ps, c : v = V[k] /\ w = V[l] /\ ps = PS[k] /\ c = CornersOf(PS[l][j])
    OBVIOUS
  <2>2. Image(Placing(v, H), FaceOf(ps[i], f)) \subseteq Image(Placing(w, H), c)
    BY <1>3, <2>1 DEF FaceOfCell, CellOf
  <2>3. HasFace(v, f, w)
    BY <1>1, <1>2, <2>1, <2>2, FaceRootsIn DEF HasImage
  <2> QED
    BY <2>1, <2>3 DEF HasFace
<1>5. VertexSet(V[k]) \subseteq VertexSet(V[l])
  <2>1. 0 \in Local /\ 1 \in Local
    BY DEF Local
  <2>2. V[k][0] # V[k][1]
    BY <1>1, <2>1 DEF Sound
  <2> QED
    BY <1>4, <2>1, <2>2
<1>6. k = l
  BY <1>5 DEF Conforming
<1>7. \A w, x \in VerticesFrom(FlagIn(V[k], H)) :
         Placing(V[k], H)[w] = Placing(V[k], H)[x] => w = x
  BY <1>1, PlacingApart
<1>8. CornersOf(PS[k][i]) \in SUBSET VerticesFrom(FlagIn(V[k], H))
  BY <1>1, PieceIn
<1>9. CornersOf(PS[k][i]) \subseteq CornersOf(PS[k][j])
  <2>1. PICK y, W, c, d : /\ y = Placing(V[k], H) /\ W = VerticesFrom(FlagIn(V[k], H))
                         /\ c = CornersOf(PS[k][i]) /\ d = CornersOf(PS[k][j])
    OBVIOUS
  <2>2. Image(y, c) \subseteq Image(y, d)
    BY <1>6, <2>1 DEF CellOf
  <2>3. /\ \A w, x \in W : y[w] = y[x] => w = x
        /\ c \in SUBSET W /\ d \in SUBSET W
    BY <1>2, <1>6, <1>7, <1>8, <2>1
  <2>4. c \subseteq d
    BY <2>2, <2>3, ImageWithin
  <2> QED
    BY <2>1, <2>4
<1> QED
  BY <1>1, <1>6, <1>9 DEF WellCut

(* if the face is inside it,                                               *)
LEMMA CellsInside ==
  ASSUME NEW M, NEW V, NEW H, NEW PS, NEW B,
         AllCut(M, V, H, PS),
         Conforming(M, [k \in M |-> VertexSet(V[k])], B),
         NEW k \in M, NEW i \in DOMAIN PS[k], NEW f \in Local, f \in PS[k][i].reset
  PROVE  \E j \in DOMAIN PS[k] \ {i} : \A l \in M : \A m \in DOMAIN PS[l] :
            FaceOfCell(V, H, PS, k, i, f) \subseteq CellOf(V, H, PS, l, m)
               <=> l = k /\ (m = i \/ m = j)
<1>1. PICK j \in DOMAIN PS[k] \ {i} : \A m \in DOMAIN PS[k] :
         FaceOfCell(V, H, PS, k, i, f) \subseteq CellOf(V, H, PS, k, m) <=> m \in {i, j}
  BY InnerCells DEF FaceOfCell, CellOf, AllCut
<1>2. ASSUME NEW l \in M, NEW m \in DOMAIN PS[l],
             FaceOfCell(V, H, PS, k, i, f) \subseteq CellOf(V, H, PS, l, m)
      PROVE  l = k
  <2>1. CornersOf(PS[l][m]) \in SUBSET VerticesFrom(FlagIn(V[l], H))
    BY PieceIn DEF AllCut
  <2>2. VertexSet(V[k]) \subseteq VertexSet(V[l])
    BY <1>2, <2>1, FaceRootsIn DEF FaceOfCell, CellOf, HasImage, AllCut
  <2> QED
    BY <2>2 DEF Conforming
<1> QED
  BY <1>1, <1>2

(* One or none of the pieces of tetrahedron l has the corners g.           *)
OneCell(V, H, PS, g, l) ==
    \E j \in DOMAIN PS[l] : \A m \in DOMAIN PS[l] : g \subseteq CellOf(V, H, PS, l, m) <=> m = j
NoCell(V, H, PS, g, l) ==
    \A m \in DOMAIN PS[l] : ~(g \subseteq CellOf(V, H, PS, l, m))

(* one in every tetrahedron that has the face on which it lies otherwise.  *)
LEMMA CellsOutside ==
  ASSUME NEW M, NEW V, NEW H, NEW PS,
         AllCut(M, V, H, PS),
         NEW k \in M, NEW i \in DOMAIN PS[k], NEW f \in Local, f \notin PS[k][i].reset,
         NEW l \in M
  PROVE  IF HasFace(V[k], f, V[l])
         THEN OneCell(V, H, PS, FaceOfCell(V, H, PS, k, i, f), l)
         ELSE NoCell(V, H, PS, FaceOfCell(V, H, PS, k, i, f), l)
<1>1. /\ Sound(V[k], H) /\ WellCut(PS[k], FlagIn(V[k], H), V[k])
      /\ Sound(V[l], H) /\ WellCut(PS[l], FlagIn(V[l], H), V[l])
  BY DEF AllCut
<1> DEFINE g == FaceOfCell(V, H, PS, k, i, f)
           G == VertexSet(V[k]) \ {V[k][f]}
<1>2. CASE G \subseteq VertexSet(V[l])
  <2>1. PICK h \in Local : VertexSet(V[l]) \ {V[l][h]} = G
    <3>1. PICK v, w : v = V[k] /\ w = V[l]
      OBVIOUS
    <3>2. HasFace(v, f, w)
      BY <1>2, <3>1 DEF HasFace
    <3>3. \E h \in Local : VertexSet(w) \ {w[h]} = VertexSet(v) \ {v[f]}
      BY <1>1, <3>1, <3>2, FaceShared
    <3> QED
      BY <3>1, <3>3
  <2>2. FaceCut(G, H, Itself, g)
    BY <1>1, FaceCells DEF FaceOfCell
  <2> HIDE DEF G
  <2>3. FaceCut(VertexSet(V[l]) \ {V[l][h]}, H, Itself, g)
    BY <2>1, <2>2
  <2> HIDE DEF g
  <2>4. PICK j \in DOMAIN PS[l] :
           h \notin PS[l][j].reset /\ g = Image(Placing(V[l], H), FaceOf(PS[l][j], h))
    BY <1>1, <2>3, FaceCells
  <2>5. \A m \in DOMAIN PS[l] : g \subseteq CellOf(V, H, PS, l, m) <=> m = j
    BY <1>1, <2>4, OuterCells DEF CellOf
  <2> QED
    BY <1>2, <2>5 DEF g, G, OneCell, HasFace
<1>3. CASE ~(G \subseteq VertexSet(V[l]))
  <2>1. ASSUME NEW m \in DOMAIN PS[l], g \subseteq CellOf(V, H, PS, l, m) PROVE FALSE
    <3>1. CornersOf(PS[l][m]) \in SUBSET VerticesFrom(FlagIn(V[l], H))
      BY <1>1, PieceIn
    <3> QED
      <4>1. PICK v, w, ps, c : v = V[k] /\ w = V[l] /\ ps = PS[k] /\ c = CornersOf(PS[l][m])
        OBVIOUS
      <4>2. Image(Placing(v, H), FaceOf(ps[i], f)) \subseteq Image(Placing(w, H), c)
        BY <2>1, <4>1 DEF FaceOfCell, CellOf
      <4>3. HasFace(v, f, w)
        BY <1>1, <3>1, <4>1, <4>2, FaceRootsIn DEF HasImage
      <4> QED
        BY <1>3, <4>1, <4>3 DEF HasFace
  <2> QED
    BY <1>3, <2>1 DEF NoCell, HasFace
<1> QED
  BY <1>2, <1>3

(* THEOREM. When the tetrahedra of a conforming mesh are cut by the        *)
(* patterns, each one by the flag of its edges that have a point, the      *)
(* pieces are a conforming mesh again.                                     *)
THEOREM CutsFit ==
  ASSUME NEW M, NEW V, NEW H, NEW PS, NEW B,
         AllCut(M, V, H, PS),
         Conforming(M, [k \in M |-> VertexSet(V[k])], B),
         NEW Y, NEW own, NEW part, Subdivided(M, PS, Y, own, part),
         NEW D, \A y \in Y : D[y] = CellOf(V, H, PS, own[y], part[y]),
         NEW A, HullCut(M, V, H, PS, B, A)
  PROVE  Conforming(Y, D, A)
<1>1. \A y \in Y : own[y] \in M /\ part[y] \in DOMAIN PS[own[y]]
  BY DEF Subdivided
<1>2. \A k \in M : \A i \in DOMAIN PS[k] : \E y \in Y : own[y] = k /\ part[y] = i
  BY DEF Subdivided
<1>3. \A y, z \in Y : own[y] = own[z] /\ part[y] = part[z] => y = z
  BY DEF Subdivided
<1>4. ASSUME NEW y \in Y, NEW z \in Y, D[y] \subseteq D[z] PROVE y = z
  <2>1. CellOf(V, H, PS, own[y], part[y]) \subseteq CellOf(V, H, PS, own[z], part[z])
    BY <1>4
  <2>2. own[y] = own[z] /\ part[y] = part[z]
    BY <1>1, <2>1, CellsApart
  <2> QED
    BY <1>3, <2>2
<1>5. ASSUME NEW y \in Y, NEW q \in D[y] PROVE MeetsAt(Y, D, A, y, D[y] \ {q})
  <2>1. PICK k, i : k = own[y] /\ i = part[y]
    OBVIOUS
  <2>2. /\ k \in M /\ i \in DOMAIN PS[k] /\ D[y] = CellOf(V, H, PS, k, i)
        /\ Sound(V[k], H) /\ WellCut(PS[k], FlagIn(V[k], H), V[k])
    BY <1>1, <2>1 DEF AllCut
  <2>3. PICK f \in Local : D[y] \ {q} = FaceOfCell(V, H, PS, k, i, f)
    BY <1>5, <2>2, CellFaces DEF CellOf, FaceOfCell
  <2>4. PICK g : g = FaceOfCell(V, H, PS, k, i, f)
    OBVIOUS
  <2>5. g \in A <=> f \notin PS[k][i].reset /\ VertexSet(V[k]) \ {V[k][f]} \in B
    BY <2>2, <2>4 DEF HullCut
  <2>6. CASE f \in PS[k][i].reset
    <3>1. PICK j \in DOMAIN PS[k] \ {i} : \A l \in M : \A m \in DOMAIN PS[l] :
             g \subseteq CellOf(V, H, PS, l, m) <=> l = k /\ (m = i \/ m = j)
      BY <2>2, <2>4, <2>6, CellsInside
    <3>2. PICK z \in Y : own[z] = k /\ part[z] = j
      BY <1>2, <2>2
    <3>3. z # y
      BY <2>1, <3>1, <3>2
    <3>4. FaceHas(Y, D, g, y, z)
      BY <1>1, <1>3, <2>1, <3>1, <3>2 DEF FaceHas
    <3> QED
      BY <2>3, <2>4, <2>5, <2>6, <3>3, <3>4 DEF MeetsAt
  <2>7. CASE f \notin PS[k][i].reset
    <3>1. PICK G : G = VertexSet(V[k]) \ {V[k][f]}
      OBVIOUS
    <3>2. ASSUME NEW l \in M
          PROVE  IF G \subseteq VertexSet(V[l]) THEN OneCell(V, H, PS, g, l) ELSE NoCell(V, H, PS, g, l)
      <4>1. IF HasFace(V[k], f, V[l]) THEN OneCell(V, H, PS, g, l) ELSE NoCell(V, H, PS, g, l)
        BY <2>2, <2>4, <2>7, CellsOutside
      <4>2. HasFace(V[k], f, V[l]) <=> G \subseteq VertexSet(V[l])
        BY <3>1 DEF HasFace
      <4> QED
        BY <4>1, <4>2
    <3>3. MeetsAt(M, [x \in M |-> VertexSet(V[x])], B, k, G)
      <4>1. V[k][f] \in VertexSet(V[k])
        BY DEF VertexSet
      <4> QED
        BY <2>2, <3>1, <4>1 DEF Conforming
    <3>4. \A m \in DOMAIN PS[k] : g \subseteq CellOf(V, H, PS, k, m) <=> m = i
      BY <2>2, <2>4, <2>7, OuterCells DEF CellOf, FaceOfCell
    <3>5. CASE G \in B
      <4>1. \A l \in M : G \subseteq VertexSet(V[l]) <=> l = k
        BY <3>3, <3>5 DEF MeetsAt, FaceHas
      <4>2. \A z \in Y : g \subseteq D[z] <=> z = y
        <5> TAKE z \in Y
        <5>1. own[z] \in M /\ part[z] \in DOMAIN PS[own[z]] /\ D[z] = CellOf(V, H, PS, own[z], part[z])
          BY <1>1
        <5>2. own[z] # k => ~(g \subseteq D[z])
          BY <3>2, <4>1, <5>1 DEF NoCell
        <5>3. own[z] = k => (g \subseteq D[z] <=> part[z] = i)
          BY <3>4, <5>1
        <5> QED
          BY <1>3, <2>1, <5>2, <5>3
      <4>3. FaceHas(Y, D, g, y, y)
        BY <4>2 DEF FaceHas
      <4> QED
        BY <2>3, <2>4, <2>5, <2>7, <3>1, <3>5, <4>3 DEF MeetsAt
    <3>6. CASE G \notin B
      <4>1. PICK n \in M : n # k /\ \A l \in M : G \subseteq VertexSet(V[l]) <=> l = k \/ l = n
        BY <3>3, <3>6 DEF MeetsAt, FaceHas
      <4>2. PICK j \in DOMAIN PS[n] : \A m \in DOMAIN PS[n] :
               g \subseteq CellOf(V, H, PS, n, m) <=> m = j
        BY <3>2, <4>1 DEF OneCell
      <4>3. PICK w \in Y : own[w] = n /\ part[w] = j
        BY <1>2
      <4>4. w # y
        BY <2>1, <4>1, <4>3
      <4>5. \A z \in Y : g \subseteq D[z] <=> z = y \/ z = w
        <5> TAKE z \in Y
        <5>1. own[z] \in M /\ part[z] \in DOMAIN PS[own[z]] /\ D[z] = CellOf(V, H, PS, own[z], part[z])
          BY <1>1
        <5>2. own[z] # k /\ own[z] # n => ~(g \subseteq D[z])
          BY <3>2, <4>1, <5>1 DEF NoCell
        <5>3. own[z] = k => (g \subseteq D[z] <=> part[z] = i)
          BY <3>4, <5>1
        <5>4. own[z] = n => (g \subseteq D[z] <=> part[z] = j)
          BY <4>2, <5>1
        <5> QED
          BY <1>3, <2>1, <4>1, <4>3, <5>2, <5>3, <5>4
      <4>6. FaceHas(Y, D, g, y, w)
        BY <4>5 DEF FaceHas
      <4> QED
        BY <2>3, <2>4, <2>5, <2>7, <3>1, <3>6, <4>4, <4>6 DEF MeetsAt
    <3> QED
      BY <3>5, <3>6
  <2> QED
    BY <2>6, <2>7
<1> QED
  BY <1>4, <1>5 DEF Conforming

-------------------------------------------------------------------------------
(* A mesh of cells: W[k][i] are the corners of the i-th piece of k.        *)
Cells(W)     == UNION {{<<k, i>> : i \in DOMAIN W[k]} : k \in DOMAIN W}
MeshOf(W, B) == Conforming(Cells(W), [c \in Cells(W) |-> W[c[1]][c[2]]], B)

LEMMA CellsAre ==
  ASSUME NEW W
  PROVE  /\ \A c \in Cells(W) : c = <<c[1], c[2]>> /\ c[1] \in DOMAIN W /\ c[2] \in DOMAIN W[c[1]]
         /\ \A k \in DOMAIN W : \A i \in DOMAIN W[k] : <<k, i>> \in Cells(W)
BY DEF Cells

(* The same cells, with other sets that agree on what their faces are.     *)
LEMMA SameCells ==
  ASSUME NEW W, NEW B, MeshOf(W, B), NEW A,
         \A k \in DOMAIN W : \A i \in DOMAIN W[k] : \A g \in SUBSET W[k][i] : g \in A <=> g \in B
  PROVE  MeshOf(W, A)
<1>1. PICK X, C : X = Cells(W) /\ C = [c \in X |-> W[c[1]][c[2]]]
  OBVIOUS
<1>3. Conforming(X, C, B)
  BY <1>1 DEF MeshOf
<1>4. \A y \in X : \A q \in C[y] : C[y] \ {q} \in A <=> C[y] \ {q} \in B
  <2> TAKE y \in X
  <2> TAKE q \in C[y]
  <2>1. y[1] \in DOMAIN W /\ y[2] \in DOMAIN W[y[1]]
    BY <1>1, CellsAre
  <2>2. C[y] = W[y[1]][y[2]]
    BY <1>1
  <2>3. C[y] \ {q} \in SUBSET W[y[1]][y[2]]
    BY <2>2
  <2> QED
    BY <2>1, <2>3
<1>5. \A y \in X : \A q \in C[y] : MeetsAt(X, C, A, y, C[y] \ {q})
  BY <1>3, <1>4 DEF Conforming, MeetsAt
<1>6. Conforming(X, C, A)
  BY <1>3, <1>5 DEF Conforming
<1> QED
  BY <1>1, <1>6 DEF MeshOf

(* One piece each.                                                         *)
LEMMA Singles ==
  ASSUME NEW W, NEW C, NEW B, \A k \in DOMAIN W : DOMAIN W[k] = {1} /\ W[k][1] = C[k]
  PROVE  MeshOf(W, B) <=> Conforming(DOMAIN W, [k \in DOMAIN W |-> C[k]], B)
<1>1. PICK X, M, D, F : /\ X = Cells(W) /\ M = DOMAIN W /\ D = [c \in X |-> W[c[1]][c[2]]]
                        /\ F = [k \in M |-> C[k]]
  OBVIOUS
<1>2. PICK s, t : s = [c \in X |-> c[1]] /\ t = [k \in M |-> <<k, 1>>]
  OBVIOUS
<1>3. \A c \in X : c = <<c[1], 1>> /\ c[1] \in M /\ D[c] = F[c[1]]
  BY <1>1, CellsAre
<1>4. \A k \in M : <<k, 1>> \in X /\ D[<<k, 1>>] = F[k]
  BY <1>1, CellsAre
<1>5. \A c \in X : s[c] \in M /\ D[c] = F[s[c]]
  BY <1>2, <1>3
<1>6. \A k \in M : t[k] \in X /\ F[k] = D[t[k]]
  BY <1>2, <1>4
<1>7. \A k \in M : \E c \in X : s[c] = k
  BY <1>2, <1>4
<1>8. \A c \in X : \E k \in M : t[k] = c
  BY <1>2, <1>3
<1>9. /\ \A c, d \in X : s[c] = s[d] => c = d
      /\ \A j, k \in M : t[j] = t[k] => j = k
  BY <1>2, <1>3
<1>10. ASSUME Conforming(M, F, B) PROVE Conforming(X, D, B)
  BY <1>5, <1>7, <1>9, <1>10, SameMeshConforms
<1>11. ASSUME Conforming(X, D, B) PROVE Conforming(M, F, B)
  BY <1>6, <1>8, <1>9, <1>11, SameMeshConforms
<1> QED
  BY <1>1, <1>10, <1>11 DEF MeshOf

(* The pieces of k become cells of their own.                              *)
UnrolledAt(W, n, k, m, X) ==
    /\ n \in Nat /\ DOMAIN W = 1..n /\ k \in 1..n
    /\ m \in Nat /\ m >= 2 /\ DOMAIN W[k] = 1..m
    /\ DOMAIN X = 1..(n + m - 1)
    /\ \A j \in 1..n : j # k => X[j] = W[j]
    /\ DOMAIN X[k] = {1} /\ X[k][1] = W[k][1]
    /\ \A j \in (n + 1)..(n + m - 1) : DOMAIN X[j] = {1} /\ X[j][1] = W[k][j - n + 1]

LEMMA Unrolled ==
  ASSUME NEW W, NEW B, MeshOf(W, B), NEW n, NEW k, NEW m, NEW X, UnrolledAt(W, n, k, m, X)
  PROVE  MeshOf(X, B)
<1>0. /\ n \in Nat /\ DOMAIN W = 1..n /\ k \in 1..n
      /\ m \in Nat /\ m >= 2 /\ DOMAIN W[k] = 1..m
      /\ DOMAIN X = 1..(n + m - 1)
      /\ \A j \in 1..n : j # k => X[j] = W[j]
      /\ DOMAIN X[k] = {1} /\ X[k][1] = W[k][1]
      /\ \A j \in (n + 1)..(n + m - 1) : DOMAIN X[j] = {1} /\ X[j][1] = W[k][j - n + 1]
  BY DEF UnrolledAt
<1>1. PICK Y, Z, C, D : /\ Y = Cells(W) /\ Z = Cells(X)
                        /\ C = [c \in Y |-> W[c[1]][c[2]]] /\ D = [c \in Z |-> X[c[1]][c[2]]]
  OBVIOUS
<1>2. PICK s : s = [c \in Z |-> IF c[1] = k THEN <<k, 1>>
                                ELSE IF c[1] \in 1..n THEN c ELSE <<k, c[1] - n + 1>>]
  OBVIOUS
<1>3. /\ \A c \in Z : c = <<c[1], c[2]>> /\ c[1] \in 1..(n + m - 1) /\ c[2] \in DOMAIN X[c[1]]
      /\ \A j \in 1..(n + m - 1) : \A i \in DOMAIN X[j] : <<j, i>> \in Z
      /\ \A c \in Y : c = <<c[1], c[2]>> /\ c[1] \in 1..n /\ c[2] \in DOMAIN W[c[1]]
      /\ \A j \in 1..n : \A i \in DOMAIN W[j] : <<j, i>> \in Y
  BY <1>0, <1>1, CellsAre
<1>4. /\ k \in 1..(n + m - 1) /\ 1 \in 1..m
      /\ \A j \in 1..n : j \in 1..(n + m - 1)
      /\ \A j \in 1..(n + m - 1) : j \notin 1..n => j \in (n + 1)..(n + m - 1) /\ j - n + 1 \in 2..m
  BY <1>0
<1>5. ASSUME NEW c \in Z
      PROVE  \/ c = <<k, 1>> /\ s[c] = c
             \/ c[1] \in 1..n /\ c[1] # k /\ s[c] = c /\ c \in Y
             \/ /\ c[1] \in (n + 1)..(n + m - 1) /\ c = <<c[1], 1>>
                /\ s[c] = <<k, c[1] - n + 1>> /\ c[1] - n + 1 \in 2..m
  <2>1. CASE c[1] = k
    <3>1. c = <<k, 1>>
      BY <1>0, <1>3, <2>1
    <3> QED
      BY <1>2, <2>1, <3>1
  <2>2. CASE c[1] # k /\ c[1] \in 1..n
    <3>1. c[2] \in DOMAIN W[c[1]] /\ c = <<c[1], c[2]>>
      BY <1>0, <1>3, <2>2
    <3>2. c \in Y
      BY <1>3, <2>2, <3>1
    <3>3. s[c] = c
      BY <1>2, <2>2
    <3> QED
      BY <2>2, <3>2, <3>3
  <2>3. CASE c[1] # k /\ c[1] \notin 1..n
    <3>1. c[1] \in (n + 1)..(n + m - 1) /\ c[1] - n + 1 \in 2..m
      BY <1>3, <1>4, <2>3
    <3>2. c = <<c[1], 1>>
      BY <1>0, <1>3, <3>1
    <3>3. s[c] = <<k, c[1] - n + 1>>
      BY <1>2, <2>3
    <3> QED
      BY <3>1, <3>2, <3>3
  <2> QED
    BY <2>1, <2>2, <2>3
<1>6. ASSUME NEW c \in Z PROVE s[c] \in Y /\ D[c] = C[s[c]]
  <2>1. D[c] = X[c[1]][c[2]]
    BY <1>1
  <2>2. CASE c = <<k, 1>> /\ s[c] = c
    <3>1. c \in Y
      BY <1>0, <1>3, <1>4, <2>2
    <3>2. C[c] = W[k][1]
      BY <1>1, <2>2, <3>1
    <3> QED
      BY <1>0, <2>1, <2>2, <3>1, <3>2
  <2>3. CASE c[1] \in 1..n /\ c[1] # k /\ s[c] = c /\ c \in Y
    <3>1. C[c] = W[c[1]][c[2]]
      BY <1>1, <2>3
    <3> QED
      BY <1>0, <2>1, <2>3, <3>1
  <2>4. CASE /\ c[1] \in (n + 1)..(n + m - 1) /\ c = <<c[1], 1>>
             /\ s[c] = <<k, c[1] - n + 1>> /\ c[1] - n + 1 \in 2..m
    <3>1. PICK i \in 2..m : i = c[1] - n + 1
      BY <2>4
    <3>2. i \in 1..m
      BY <1>0
    <3>3. <<k, i>> \in Y
      BY <1>0, <1>3, <3>2
    <3>4. C[<<k, i>>] = W[k][i]
      BY <1>1, <3>3
    <3>5. D[c] = W[k][i]
      <4>1. PICK j : j = c[1]
        OBVIOUS
      <4>2. c[2] = 1
        BY <2>4
      <4>3. X[j][1] = W[k][j - n + 1]
        BY <1>0, <2>4, <4>1
      <4> QED
        BY <2>1, <3>1, <4>1, <4>2, <4>3
    <3> QED
      BY <2>4, <3>1, <3>3, <3>4, <3>5
  <2> QED
    BY <1>5, <2>2, <2>3, <2>4
<1>7. ASSUME NEW y \in Y PROVE \E c \in Z : s[c] = y
  <2>1. y = <<y[1], y[2]>> /\ y[1] \in 1..n /\ y[2] \in DOMAIN W[y[1]]
    BY <1>3
  <2>2. CASE y[1] # k
    <3>1. y \in Z
      BY <1>0, <1>3, <1>4, <2>1, <2>2
    <3>2. s[y] = y
      BY <1>2, <2>1, <2>2, <3>1
    <3> QED
      BY <3>1, <3>2
  <2>3. CASE y = <<k, 1>>
    <3>1. y \in Z
      BY <1>0, <1>3, <1>4, <2>3
    <3>2. s[y] = y
      BY <1>2, <2>3, <3>1
    <3> QED
      BY <3>1, <3>2
  <2>4. CASE y[1] = k /\ y[2] # 1
    <3>1. PICK i \in 2..m : i = y[2]
      BY <1>0, <2>1, <2>4
    <3>2. PICK j \in (n + 1)..(n + m - 1) : j = n + i - 1 /\ j - n + 1 = i /\ j \notin 1..n /\ j # k
      BY <1>0
    <3>3. j \in 1..(n + m - 1) /\ 1 \in DOMAIN X[j]
      BY <1>0, <3>2
    <3>4. PICK c : c = <<j, 1>>
      OBVIOUS
    <3>5. c \in Z /\ c[1] = j
      BY <1>3, <3>3, <3>4
    <3>6. s[c] = <<k, j - n + 1>>
      BY <1>2, <3>2, <3>5
    <3>7. s[c] = y
      BY <2>1, <2>4, <3>1, <3>2, <3>6
    <3> QED
      BY <3>5, <3>7
  <2> QED
    BY <2>1, <2>2, <2>3, <2>4
<1>8. ASSUME NEW c \in Z, NEW d \in Z, s[c] = s[d] PROVE c = d
  <2>1. PICK a, b : a = c[1] /\ b = d[1]
    OBVIOUS
  <2>2. \/ c = <<k, 1>> /\ s[c] = c
        \/ a \in 1..n /\ a # k /\ s[c] = c /\ c = <<a, c[2]>>
        \/ a \in (n + 1)..(n + m - 1) /\ c = <<a, 1>> /\ s[c] = <<k, a - n + 1>> /\ a - n + 1 \in 2..m
    BY <1>3, <1>5, <2>1
  <2>3. \/ d = <<k, 1>> /\ s[d] = d
        \/ b \in 1..n /\ b # k /\ s[d] = d /\ d = <<b, d[2]>>
        \/ b \in (n + 1)..(n + m - 1) /\ d = <<b, 1>> /\ s[d] = <<k, b - n + 1>> /\ b - n + 1 \in 2..m
    BY <1>3, <1>5, <2>1
  <2>4. ASSUME a \in (n + 1)..(n + m - 1), b \in (n + 1)..(n + m - 1), a - n + 1 = b - n + 1
        PROVE  a = b
    BY <1>0, <2>4
  <2> QED
    BY <1>0, <1>8, <2>2, <2>3, <2>4
<1>9. Conforming(Y, C, B)
  BY <1>1 DEF MeshOf
<1>10. Conforming(Z, D, B)
  BY <1>6, <1>7, <1>8, <1>9, SameMeshConforms
<1> QED
  BY <1>1, <1>10 DEF MeshOf

-------------------------------------------------------------------------------
(* What a piece is in both views: the vertices that the cut gives it, and  *)
(* those of its vertices that have their places in the tetrahedron.        *)
PieceIs(y, p, G) ==
    /\ Image(y, CornersOf(p)) = VertexSet(G)
    /\ \A f \in Local : Image(y, FaceOf(p, f)) = {G[x] : x \in Local \ {f}}

(* The piece of a tetrahedron that is not cut.                             *)
LEMMA WholeImage ==
  ASSUME NEW v, NEW H
  PROVE  /\ DOMAIN WholePiece = {1} /\ WholePiece[1].reset = {}
         /\ PieceIs(Placing(v, H), WholePiece[1], v)
<1>1. PICK w : w = [i \in Local |-> i]
  OBVIOUS
<1>2. DOMAIN WholePiece = {1} /\ WholePiece[1].v = w /\ WholePiece[1].reset = {}
  <2>1. DOMAIN WholePiece = {1} /\ WholePiece[1] = [v |-> w, reset |-> {}]
    BY <1>1 DEF WholePiece
  <2> QED
    BY <2>1
<1>3. CornersOf(WholePiece[1]) = Local /\ \A f \in Local : FaceOf(WholePiece[1], f) = Local \ {f}
  BY <1>1, <1>2 DEF CornersOf, FaceOf
<1>4. PICK y : y = Placing(v, H)
  OBVIOUS
<1>5. \A x \in Local : y[x] = v[x]
  <2> TAKE x \in Local
  <2>1. x \in 0..9 /\ x < m0
    BY DEF Local, m0
  <2> QED
    BY <1>4, <2>1 DEF Placing
<1>6. \A J \in SUBSET Local : Image(y, J) = {v[x] : x \in J}
  BY <1>5 DEF Image
<1>7. PieceIs(y, WholePiece[1], v)
  BY <1>3, <1>6 DEF PieceIs, VertexSet
<1> QED
  BY <1>2, <1>4, <1>7
===============================================================================
