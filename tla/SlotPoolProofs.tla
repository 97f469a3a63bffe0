---------------------------- MODULE SlotPoolProofs ----------------------------
(***************************************************************************)
(* Facts about natural numbers, recursive functions and sequences that all *)
(* the proofs need, and what each operation on a pool of slots keeps, for  *)
(* every pool: its type and the shape of its list of empty slots.          *)
(*                                                                         *)
(* The provers do not instantiate an induction theorem, whose parameter is *)
(* an operator: an induction is a search for the least counterexample, or  *)
(* a step on a set.                                                        *)
(***************************************************************************)
EXTENDS SlotPool, TLAPS, FiniteSetTheorems, SequenceTheorems, WellFoundedInduction

(* A nonempty set of natural numbers has a least element.                  *)
LEMMA LeastNat ==
  ASSUME NEW S \in SUBSET Nat, S # {}
  PROVE  \E x \in S : \A y \in S : x <= y
<1>1. \E x \in S : \A y \in S : ~ (<<y, x>> \in OpToRel(<, Nat))
  BY NatLessThanWellFounded, WFMin
<1>2. PICK x \in S : \A y \in S : ~ (y < x)
  BY <1>1 DEF OpToRel
<1> QED
  BY <1>2

(* Induction up to m, on a set.                                            *)
LEMMA Upward ==
  ASSUME NEW m \in Nat, NEW S, 0 \in S, \A i \in 1..m : i - 1 \in S => i \in S
  PROVE  0..m \subseteq S
<1> DEFINE Bad == {i \in 0..m : i \notin S}
<1> SUFFICES ASSUME Bad # {} PROVE FALSE
  OBVIOUS
<1>1. PICK n \in Bad : \A k \in Bad : n <= k
  <2>1. Bad \in SUBSET Nat
    OBVIOUS
  <2> HIDE DEF Bad
  <2> QED
    BY <2>1, LeastNat
<1>2. n \in 1..m /\ n - 1 \in 0..m
  BY <1>1
<1>3. n - 1 \notin Bad
  BY <1>1, <1>2
<1> QED
  BY <1>1, <1>2, <1>3

(* A function defined by recursion up to n exists: its value at 0, and how *)
(* its value at k follows from the one before.                             *)
Steps(T, n) == [T \X (1..n) -> T]
Recursive(f, n, T, x, step) ==
    f \in [0..n -> T] /\ f[0] = x /\ \A k \in 1..n : f[k] = step[<<f[k - 1], k>>]

(* There is such a function.                                               *)
LEMMA Recursion ==
  ASSUME NEW n \in Nat, NEW T, NEW x \in T, NEW step \in Steps(T, n)
  PROVE  \E f : Recursive(f, n, T, x, step)
<1> DEFINE Upto(m, f) == f[0] = x /\ \A k \in 1..m : f[k] = step[<<f[k - 1], k>>]
           S == {m \in 0..n : \E f \in [0..m -> T] : Upto(m, f)}
<1>1. 0 \in S
  <2> DEFINE f == [k \in 0..0 |-> x]
  <2>1. f \in [0..0 -> T] /\ Upto(0, f)
    OBVIOUS
  <2> HIDE DEF f
  <2> QED
    BY <2>1
<1>2. ASSUME NEW m \in 1..n, m - 1 \in S PROVE m \in S
  <2>1. PICK f \in [0..(m - 1) -> T] : Upto(m - 1, f)
    BY <1>2
  <2> DEFINE g == [k \in 0..m |-> IF k = m THEN step[<<f[m - 1], m>>] ELSE f[k]]
  <2>2. f[m - 1] \in T
    OBVIOUS
  <2>3. step[<<f[m - 1], m>>] \in T
    BY <2>2 DEF Steps
  <2>4. \A k \in 0..m : k # m => k \in 0..(m - 1) /\ g[k] = f[k]
    OBVIOUS
  <2>5. g \in [0..m -> T]
    BY <2>3
  <2>6. \A k \in 1..m : g[k] = step[<<g[k - 1], k>>]
    <3> TAKE k \in 1..m
    <3>1. g[k - 1] = f[k - 1]
      BY <2>4
    <3>2. CASE k = m
      <4>1. g[m] = step[<<f[m - 1], m>>]
        OBVIOUS
      <4> HIDE DEF g
      <4> QED
        BY <3>1, <3>2, <4>1
    <3>3. CASE k # m
      <4>1. k \in 1..(m - 1) /\ g[k] = f[k]
        BY <2>4, <3>3
      <4> QED
        BY <2>1, <3>1, <4>1
    <3> QED
      BY <3>2, <3>3
  <2>7. g[0] = x
    BY <2>1, <2>4
  <2> HIDE DEF g
  <2> QED
    BY <2>5, <2>6, <2>7
<1> HIDE DEF S
<1>3. 0..n \subseteq S
  BY <1>1, <1>2, Upward
<1> QED
  BY <1>3 DEF S, Recursive

-------------------------------------------------------------------------------
(* Sequences whose values have no type.                                    *)
IsTuple(s) == \E n \in Nat : DOMAIN s = 1..n /\ s = [k \in 1..n |-> s[k]]

(* Length and domain of a sequence.                                        *)
LEMMA TupleLen ==
  ASSUME NEW s, IsTuple(s)
  PROVE  /\ Len(s) \in Nat /\ DOMAIN s = 1..Len(s)
         /\ s \in Seq({s[k] : k \in DOMAIN s})
<1>1. PICK n \in Nat : DOMAIN s = 1..n /\ s = [k \in 1..n |-> s[k]]
  BY DEF IsTuple
<1>2. s \in [1..n -> {s[k] : k \in DOMAIN s}]
  BY <1>1
<1>3. s \in Seq({s[k] : k \in DOMAIN s})
  BY <1>2
<1> QED
  BY <1>3

(* A sequence of values of a type is one.                                  *)
LEMMA SeqIsTuple ==
  ASSUME NEW S, NEW s \in Seq(S)
  PROVE  IsTuple(s)
<1>1. Len(s) \in Nat /\ DOMAIN s = 1..Len(s) /\ s = [k \in 1..Len(s) |-> s[k]]
  OBVIOUS
<1> QED
  BY <1>1 DEF IsTuple

(* A function on 1..n is one.                                              *)
LEMMA FunctionIsTuple ==
  ASSUME NEW n \in Nat, NEW f, f = [k \in 1..n |-> f[k]]
  PROVE  IsTuple(f) /\ Len(f) = n
<1>1. DOMAIN f = 1..n
  OBVIOUS
<1>2. IsTuple(f)
  BY <1>1 DEF IsTuple
<1>3. Len(f) \in Nat /\ DOMAIN f = 1..Len(f)
  BY <1>2, TupleLen
<1> QED
  BY <1>1, <1>2, <1>3

(* Two sequences in a row.                                                 *)
LEMMA TwoTuples ==
  ASSUME NEW s, IsTuple(s), NEW t, IsTuple(t)
  PROVE  /\ IsTuple(s \o t) /\ Len(s \o t) = Len(s) + Len(t)
         /\ \A k \in 1..Len(s) : (s \o t)[k] = s[k]
         /\ \A k \in 1..Len(t) : (s \o t)[Len(s) + k] = t[k]
         /\ \A k \in DOMAIN (s \o t) : k \in 1..Len(s) \/ k - Len(s) \in 1..Len(t)
<1> DEFINE S == {s[k] : k \in DOMAIN s} \union {t[k] : k \in DOMAIN t}
<1>1. s \in Seq({s[k] : k \in DOMAIN s}) /\ t \in Seq({t[k] : k \in DOMAIN t})
  BY TupleLen
<1>2. s \in Seq(S) /\ t \in Seq(S)
  BY <1>1
<1> HIDE DEF S
<1>3. s \o t \in Seq(S)
  BY <1>2
<1>4. IsTuple(s \o t)
  BY <1>3, SeqIsTuple
<1> QED
  BY <1>2, <1>4

(* One more value.                                                         *)
LEMMA OneMore ==
  ASSUME NEW s, IsTuple(s), NEW x
  PROVE  /\ IsTuple(Append(s, x)) /\ Len(Append(s, x)) = Len(s) + 1
         /\ \A k \in 1..Len(s) : Append(s, x)[k] = s[k]
         /\ Append(s, x)[Len(s) + 1] = x
<1> DEFINE S == {s[k] : k \in DOMAIN s} \union {x}
<1>1. s \in Seq({s[k] : k \in DOMAIN s})
  BY TupleLen
<1>2. s \in Seq(S) /\ x \in S
  BY <1>1
<1> HIDE DEF S
<1>3. Append(s, x) \in Seq(S)
  BY <1>2
<1>4. IsTuple(Append(s, x))
  BY <1>3, SeqIsTuple
<1> QED
  BY <1>2, <1>4

-------------------------------------------------------------------------------
(* A nonempty set of numbers below i has a greatest element.               *)
LEMMA Greatest ==
  ASSUME NEW i \in Nat, NEW S \in SUBSET (1..(i - 1)), S # {}
  PROVE  \E j \in S : \A h \in S : h <= j
<1> DEFINE T == {x \in Nat : i - x \in S}
<1>1. ASSUME NEW h \in S PROVE /\ h \in Int
                               /\ i - h \in T
                               /\ i - (i - h) = h
  <2>1. h \in Int /\ h <= i - 1 /\ i - (i - h) = h
    OBVIOUS
  <2> QED
    BY <2>1
<1>2. T \subseteq Nat /\ T # {}
  BY <1>1
<1>3. IsWellFoundedOn(OpToRel(<, Nat), Nat)
  BY NatLessThanWellFounded
<1>4. \E x \in T : \A y \in T : ~ (<<y, x>> \in OpToRel(<, Nat))
  BY <1>2, <1>3, WFMin
<1>5. PICK x \in T : \A y \in T : ~ (y < x)
  BY <1>2, <1>4 DEF OpToRel
<1>6. ASSUME NEW h \in S PROVE h <= i - x
  <2>1. ~(i - h < x)
    BY <1>1, <1>5
  <2>2. x \in Nat /\ h \in Int
    BY <1>1
  <2> QED
    BY <2>1, <2>2
<1> QED
  BY <1>5, <1>6

(* The loop of MMG2D_delPt and MMG2D_delElt stops on the last slot before  *)
(* i that is in use, or on 0 when there is none.                           *)
LEMMA LastValidStops ==
  ASSUME NEW p, IsPool(p), NEW i \in 1..p.max
  PROVE  /\ LastValid(p, i) \in 0..(i - 1)
         /\ LastValid(p, i) > 0 => Valid(p, LastValid(p, i))
         /\ \A h \in 1..(i - 1) : h > LastValid(p, i) => ~Valid(p, h)
<1> DEFINE S == {j \in 1..(i - 1) : Valid(p, j)}
           Top(j) == /\ Valid(p, j)
                     /\ \A h \in (j + 1)..(i - 1) : ~Valid(p, h)
<1>1. i \in Nat
  BY DEF IsPool
<1>2. CASE S = {}
  <2>1. LastValid(p, i) = 0
    BY <1>2 DEF LastValid
  <2> QED
    BY <1>1, <1>2, <2>1
<1>3. CASE S # {}
  <2>1. PICK j \in S : \A h \in S : h <= j
    BY <1>1, <1>3, Greatest
  <2>2. j \in 1..(i - 1) /\ Top(j)
    BY <1>1, <2>1
  <2>3. LastValid(p, i) = CHOOSE k \in 1..(i - 1) : Top(k)
    BY <2>2 DEF LastValid
  <2>4. LastValid(p, i) \in 1..(i - 1) /\ Top(LastValid(p, i))
    BY <2>2, <2>3
  <2> QED
    BY <1>1, <2>4
<1> QED
  BY <1>2, <1>3

-------------------------------------------------------------------------------
(* Types.                                                                  *)
LEMMA InitialPoolType ==
  ASSUME NEW n \in Nat, NEW max \in Nat, n < max,
         NEW blank \in Status
  PROVE  IsPool(InitialPool(n, max, blank))
BY DEF IsPool, InitialPool, Status

(* MMG2D_newPt and MMG2D_newElt leave a pool of the same size.             *)
LEMMA NewSlotType ==
  ASSUME NEW p, IsPool(p), p.nil # 0
  PROVE  IsPool(NewSlot(p)) /\ NewSlot(p).max = p.max
BY DEF IsPool, NewSlot, Status

(* MMG2D_delPt and MMG2D_delElt leave a pool of the same size.             *)
LEMMA DelSlotType ==
  ASSUME NEW p, IsPool(p), NEW i \in 1..p.max
  PROVE  IsPool(DelSlot(p, i)) /\ DelSlot(p, i).max = p.max
<1>1. LastValid(p, i) \in 0..(i - 1)
  BY LastValidStops
<1> QED
  BY <1>1 DEF IsPool, DelSlot, Status

(* A reallocation leaves a pool, longer by the gap that was granted.       *)
LEMMA GrowPoolType ==
  ASSUME NEW p, IsPool(p), NEW g \in Nat \ {0}, NEW blank \in Status
  PROVE  /\ IsPool(GrowPool(p, g, blank))
         /\ GrowPool(p, g, blank).max = p.max + g
         /\ GrowPool(p, g, blank).n = p.n
         /\ GrowPool(p, g, blank).nil = p.n + 1
BY DEF IsPool, GrowPool, Status

-------------------------------------------------------------------------------
(* The list of empty slots.                                                *)
LEMMA RestOf ==
  ASSUME NEW S, NEW f \in Seq(S), f # <<>>
  PROVE  /\ Len(f) \in Nat \ {0}
         /\ Rest(f) \in Seq(S)
         /\ Len(Rest(f)) = Len(f) - 1
         /\ \A i \in 1..(Len(f) - 1) : Rest(f)[i] = f[i + 1]
         /\ Rest(f) = <<>> <=> Len(f) = 1
         /\ f[1] \in S
<1>1. Rest(f) = Tail(f)
  BY DEF Rest
<1>2. Len(f) \in Nat /\ Len(f) # 0
  BY EmptySeq
<1>3. f[1] \in S
  BY <1>2, ElementOfSeq
<1>4. /\ Tail(f) \in Seq(S) /\ Len(Tail(f)) = Len(f) - 1
      /\ \A i \in 1..(Len(f) - 1) : Tail(f)[i] = f[i + 1]
  BY <1>2
<1>5. Tail(f) = <<>> <=> Len(f) = 1
  BY <1>2, <1>4, EmptySeq
<1> QED
  BY <1>1, <1>2, <1>3, <1>4, <1>5

(* The sequence with one more element in front: its length and its         *)
(* elements.                                                               *)
LEMMA ConsOf ==
  ASSUME NEW S, NEW f \in Seq(S), NEW x \in S
  PROVE  /\ Len(f) \in Nat
         /\ <<x>> \o f \in Seq(S)
         /\ Len(<<x>> \o f) = Len(f) + 1
         /\ (<<x>> \o f)[1] = x
         /\ \A i \in 1..Len(f) : (<<x>> \o f)[i + 1] = f[i]
         /\ <<x>> \o f # <<>>
OBVIOUS

(* Taking the head of a correct list leaves a correct list, without its    *)
(* head.                                                                   *)
LEMMA NewSlotList ==
  ASSUME NEW p, IsPool(p), p.nil # 0, NEW f, FreeListOK(p, f)
  PROVE  FreeListOK(NewSlot(p), Rest(f))
<1> DEFINE q == NewSlot(p)
           h == p.nil
           g == Rest(f)
<1>1. f \in Seq(1..p.max) /\ f # <<>> /\ h = f[1]
  BY DEF FreeListOK, Threaded
<1>2. PICK m \in 0..p.max, r \in 0..Len(f) : Divided(p, f, m, r)
  BY DEF FreeListOK
<1>3. /\ Len(f) \in Nat \ {0} /\ g \in Seq(1..p.max) /\ Len(g) = Len(f) - 1
      /\ \A i \in 1..Len(g) : g[i] = f[i + 1]
      /\ g = <<>> <=> Len(f) = 1
      /\ h \in 1..p.max /\ p.max \in Nat
  BY <1>1, RestOf DEF IsPool
<1>4. /\ q.max = p.max /\ q.nil = p.link[h]
      /\ q.n = IF h > p.n THEN h ELSE p.n
      /\ \A j \in 1..p.max : /\ q.link[j] = IF j = h THEN 0 ELSE p.link[j]
                             /\ q.st[j] = IF j = h THEN "live" ELSE p.st[j]
  BY <1>3 DEF NewSlot, IsPool
<1>0. /\ m \in Nat /\ m <= p.max /\ r \in Nat /\ r <= Len(f) /\ p.n \in Nat
      /\ p.max \in Nat /\ p.n <= p.max
      /\ \A j \in 1..m : j \in 1..p.max
  BY <1>3 DEF IsPool
<1> HIDE DEF q, h, g
<1>5. \A i \in 1..Len(f) : /\ f[i] \in 1..p.max
                           /\ p.link[f[i]] = IF i = Len(f) THEN 0 ELSE f[i + 1]
  BY <1>1, <1>3 DEF FreeListOK, Threaded
<1>6. \A i \in 1..Len(g) : g[i] # h
  <2> SUFFICES ASSUME NEW i \in 1..Len(g) PROVE f[i + 1] # f[1]
    BY <1>1, <1>3
  <2>1. CASE r = 0
    BY <1>2, <1>3, <2>1 DEF Divided
  <2>2. CASE r > 0 /\ i + 1 <= r
    BY <1>2, <1>3, <2>2 DEF Divided
  <2>3. CASE r > 0 /\ i + 1 > r
    BY <1>2, <1>3, <2>3 DEF Divided
  <2> QED
    BY <1>2, <1>3, <2>1, <2>2, <2>3
<1>7. Threaded(q, g)
  <2>1. q.nil = IF g = <<>> THEN 0 ELSE g[1]
    BY <1>1, <1>3, <1>4, <1>5
  <2>2. \A i \in 1..Len(g) : q.link[g[i]] = IF i = Len(g) THEN 0 ELSE g[i + 1]
    <3> TAKE i \in 1..Len(g)
    <3>1. i + 1 \in 1..Len(f) /\ g[i] = f[i + 1] /\ g[i] # h /\ f[i + 1] \in 1..p.max
      BY <1>3, <1>5, <1>6
    <3>2. q.link[g[i]] = p.link[f[i + 1]]
      BY <1>4, <3>1
    <3>3. p.link[f[i + 1]] = IF i + 1 = Len(f) THEN 0 ELSE f[i + 2]
      BY <1>3, <1>5, <3>1
    <3>4. i # Len(g) => g[i + 1] = f[i + 2]
      BY <1>3
    <3> QED
      BY <1>3, <3>2, <3>3, <3>4
  <2> QED
    BY <1>3, <1>4, <2>1, <2>2 DEF Threaded
<1>8. CASE r = 0
  <2>1. h = m + 1
    BY <1>1, <1>2, <1>3, <1>8 DEF Divided
  <2>2. Divided(q, g, m + 1, 0)
    <3>1. q.n = h /\ m + 1 \in 1..p.max
      BY <1>0, <1>2, <1>3, <1>4, <2>1 DEF Divided
    <3>2. /\ q.n <= m + 1
          /\ q.n > 0 => q.st[q.n] = "live"
          /\ m + 1 < q.max => q.link[q.max] = 0
      BY <1>0, <1>2, <1>3, <1>4, <2>1, <3>1 DEF Divided
    <3>3. \A j \in 1..q.max : q.st[j] = "live" => j <= q.n
      <4> TAKE j \in 1..q.max
      <4>1. j # h /\ q.st[j] = "live" => j <= p.n
        BY <1>2, <1>4 DEF Divided
      <4> QED
        BY <1>0, <1>2, <1>3, <1>4, <3>1, <4>1 DEF Divided
    <3>4. \A j \in 1..(m + 1) : q.st[j] # "zero" /\ q.st[j] # "nul"
      <4> TAKE j \in 1..(m + 1)
      <4>1. j = h \/ (j \in 1..m /\ j # h)
        BY <1>0, <2>1
      <4>2. ASSUME j \in 1..m, j # h
            PROVE  p.st[j] # "zero" /\ p.st[j] # "nul"
        BY <1>2, <1>8, <4>2 DEF Divided
      <4> QED
        BY <1>0, <1>3, <1>4, <4>1, <4>2
    <3>5. \A i \in 1..Len(g) : g[i] = m + 1 + i
      BY <1>0, <1>2, <1>3, <1>8 DEF Divided
    <3> QED
      BY <1>0, <1>3, <3>2, <3>3, <3>4, <3>5 DEF Divided
  <2> QED
    <3>1. m + 1 \in 0..q.max /\ 0 \in 0..Len(g)
      BY <1>0, <1>3, <1>4, <2>1
    <3> QED
      BY <1>7, <2>2, <3>1 DEF FreeListOK, q, g
<1>9. CASE r > 0
  <2>1. h <= m
    BY <1>1, <1>2, <1>3, <1>9 DEF Divided
  <2>2. Divided(q, g, m, r - 1)
    <3>1. \A j \in 1..m : q.st[j] = "nul" => \E i \in 1..(r - 1) : g[i] = j
      <4> SUFFICES ASSUME NEW j \in 1..m, q.st[j] = "nul"
                   PROVE  \E i \in 1..(r - 1) : g[i] = j
        OBVIOUS
      <4>1. j # h /\ p.st[j] = "nul"
        BY <1>0, <1>4
      <4>2. PICK i \in 1..r : f[i] = j
        BY <1>2, <4>1 DEF Divided
      <4>3. i # 1 /\ i - 1 \in 1..(r - 1) /\ i - 1 \in 1..Len(g)
        BY <1>1, <1>3, <4>1, <4>2
      <4>4. g[i - 1] = f[i]
        BY <1>3, <4>3
      <4> QED
        BY <4>2, <4>3, <4>4
    <3>2. \A i \in 1..(r - 1) : g[i] <= m /\ q.st[g[i]] = "nul"
      <4> TAKE i \in 1..(r - 1)
      <4>1. /\ i \in 1..Len(g) /\ i + 1 \in 1..r /\ i + 1 \in 1..Len(f)
            /\ g[i] = f[i + 1] /\ g[i] # h
        BY <1>0, <1>3, <1>6
      <4>2. f[i + 1] <= m /\ p.st[f[i + 1]] = "nul" /\ f[i + 1] \in 1..p.max
        BY <1>2, <1>5, <4>1 DEF Divided
      <4> QED
        BY <1>4, <4>1, <4>2
    <3>3. \A i, j \in 1..(r - 1) : g[i] = g[j] => i = j
      <4> TAKE i, j \in 1..(r - 1)
      <4>1. /\ i + 1 \in 1..r /\ j + 1 \in 1..r
            /\ i \in 1..Len(g) /\ j \in 1..Len(g)
        BY <1>0, <1>3
      <4>2. f[i + 1] = f[j + 1] => i + 1 = j + 1
        BY <1>2, <4>1 DEF Divided
      <4> QED
        BY <1>3, <4>1, <4>2
    <3>4. \A i \in r..Len(g) : g[i] = m + i - (r - 1)
      <4> TAKE i \in r..Len(g)
      <4>1. i \in 1..Len(g) /\ i + 1 \in (r + 1)..Len(f)
        BY <1>0, <1>3, <1>9
      <4>2. f[i + 1] = m + (i + 1) - r
        BY <1>2, <4>1 DEF Divided
      <4> QED
        BY <1>0, <1>3, <4>1, <4>2
    <3>5. q.n <= m /\ (m < q.max => q.link[q.max] = 0)
      BY <1>0, <1>2, <1>3, <1>4, <2>1 DEF Divided
    <3>6. /\ q.n > 0 => q.st[q.n] = "live"
          /\ \A j \in 1..q.max : q.st[j] = "live" => j <= q.n
      BY <1>0, <1>2, <1>3, <1>4 DEF Divided
    <3>7. \A j \in 1..m : q.st[j] # "zero"
      BY <1>0, <1>2, <1>4 DEF Divided
    <3> QED
      BY <1>0, <1>9, <3>1, <3>2, <3>3, <3>4, <3>5, <3>6, <3>7 DEF Divided
  <2>3. r - 1 \in 0..Len(g) /\ m \in 0..q.max
    BY <1>3, <1>4, <1>9
  <2> QED
    BY <1>7, <2>2, <2>3 DEF FreeListOK, q, g
<1> QED
  BY <1>8, <1>9

(* Giving back a slot in use leaves a correct list, with this slot in      *)
(* front.                                                                  *)
LEMMA DelSlotList ==
  ASSUME NEW p, IsPool(p), NEW f, FreeListOK(p, f), NEW h \in Live(p)
  PROVE  FreeListOK(DelSlot(p, h), <<h>> \o f)
<1> DEFINE q == DelSlot(p, h)
           g == <<h>> \o f
           l == LastValid(p, h)
<1>1. h \in 1..p.max /\ p.st[h] = "live" /\ f \in Seq(1..p.max)
  BY DEF Live, FreeListOK, Threaded
<1>2. PICK m \in 0..p.max, r \in 0..Len(f) : Divided(p, f, m, r)
  BY DEF FreeListOK
<1>3. /\ Len(f) \in Nat /\ g \in Seq(1..p.max) /\ Len(g) = Len(f) + 1
      /\ g[1] = h /\ \A i \in 1..Len(f) : g[i + 1] = f[i]
      /\ g # <<>>
  BY <1>1, ConsOf
<1>4. /\ q.max = p.max /\ q.nil = h
      /\ q.n = IF h = p.n THEN l ELSE p.n
      /\ \A j \in 1..p.max : /\ q.link[j] = IF j = h THEN p.nil ELSE p.link[j]
                             /\ q.st[j] = IF j = h THEN "nul" ELSE p.st[j]
  BY <1>1 DEF DelSlot, IsPool
<1>5. /\ l \in 0..(h - 1) /\ (l > 0 => Valid(p, l))
      /\ \A j \in 1..(h - 1) : j > l => ~Valid(p, j)
  BY <1>1, LastValidStops
<1> HIDE DEF q, g, l
<1>6. /\ m \in Nat /\ m <= p.max /\ r \in Nat /\ r <= Len(f) /\ p.n \in Nat
      /\ p.max \in Nat /\ p.n <= p.max /\ h <= p.n /\ h <= m /\ h \in Nat /\ h > 0
      /\ \A j \in 1..m : j \in 1..p.max
  BY <1>1, <1>2, <1>3 DEF IsPool, Divided
<1>7. \A i \in 1..Len(f) : f[i] \in 1..p.max /\ f[i] # h
  <2> TAKE i \in 1..Len(f)
  <2>1. f[i] \in 1..p.max
    BY <1>1, <1>3, ElementOfSeq
  <2>2. CASE i \in 1..r
    BY <1>1, <1>2, <2>1, <2>2 DEF Divided
  <2>3. CASE i \in (r + 1)..Len(f)
    BY <1>2, <1>6, <2>1, <2>3 DEF Divided
  <2> QED
    BY <1>6, <2>1, <2>2, <2>3
<1>8. Threaded(q, g)
  <2>1. q.nil = IF g = <<>> THEN 0 ELSE g[1]
    BY <1>3, <1>4
  <2>2. \A i \in 1..Len(g) : q.link[g[i]] = IF i = Len(g) THEN 0 ELSE g[i + 1]
    <3> TAKE i \in 1..Len(g)
    <3>1. CASE i = 1
      <4>1. q.link[g[i]] = p.nil
        BY <1>1, <1>3, <1>4, <3>1
      <4>2. p.nil = IF f = <<>> THEN 0 ELSE f[1]
        BY DEF FreeListOK, Threaded
      <4>3. f = <<>> <=> Len(f) = 0
        BY <1>1, EmptySeq
      <4>4. Len(f) # 0 => g[2] = f[1]
        BY <1>3
      <4> QED
        BY <1>3, <3>1, <4>1, <4>2, <4>3, <4>4
    <3>2. CASE i # 1
      <4>1. i - 1 \in 1..Len(f) /\ (i - 1) + 1 = i
        BY <1>3, <3>2
      <4>2. g[i] = f[i - 1] /\ f[i - 1] \in 1..p.max /\ f[i - 1] # h
        BY <1>3, <1>7, <4>1
      <4>3. q.link[g[i]] = p.link[f[i - 1]]
        BY <1>4, <4>2
      <4>4. p.link[f[i - 1]] = IF i - 1 = Len(f) THEN 0 ELSE f[i]
        BY <4>1 DEF FreeListOK, Threaded
      <4>5. i # Len(g) => g[i + 1] = f[i]
        BY <1>3, <3>2
      <4> QED
        BY <1>3, <4>3, <4>4, <4>5
    <3> QED
      BY <3>1, <3>2
  <2> QED
    BY <1>3, <1>4, <2>1, <2>2 DEF Threaded
<1>9. Divided(q, g, m, r + 1)
  <2>1. q.n <= m /\ (m < q.max => q.link[q.max] = 0)
    <3>1. l \in Int /\ l <= m /\ p.n <= m
      BY <1>2, <1>5, <1>6 DEF Divided
    <3>2. m < p.max => p.max # h /\ p.max \in 1..p.max /\ p.link[p.max] = 0
      BY <1>2, <1>6 DEF Divided
    <3> QED
      BY <1>4, <3>1, <3>2
  <2>2. q.n > 0 => q.st[q.n] = "live"
    <3>1. CASE h = p.n
      <4>1. l > 0 => l \in 1..m /\ l # h
        BY <1>5, <1>6
      <4>2. l > 0 => p.st[l] # "nul" /\ p.st[l] # "zero" /\ p.st[l] \in Status
        BY <1>2, <1>5, <1>6, <4>1 DEF Divided, Valid, IsPool
      <4> QED
        BY <1>4, <1>6, <3>1, <4>1, <4>2 DEF Status
    <3>2. CASE h # p.n
      BY <1>1, <1>2, <1>4, <1>6, <3>2 DEF Divided
    <3> QED
      BY <3>1, <3>2
  <2>3. \A j \in 1..q.max : q.st[j] = "live" => j <= q.n
    <3> SUFFICES ASSUME NEW j \in 1..p.max, q.st[j] = "live" PROVE j <= q.n
      BY <1>4
    <3>1. p.st[j] = "live" /\ j # h /\ j <= p.n
      BY <1>2, <1>4 DEF Divided
    <3>2. h = p.n => j \in 1..(h - 1) /\ Valid(p, j)
      BY <1>6, <3>1 DEF Valid
    <3> QED
      BY <1>4, <1>5, <1>6, <3>1, <3>2
  <2>4. \A j \in 1..m : q.st[j] # "zero"
    BY <1>2, <1>4, <1>6 DEF Divided
  <2>5. \A i \in 1..(r + 1) : g[i] <= m /\ q.st[g[i]] = "nul"
    <3> TAKE i \in 1..(r + 1)
    <3>1. CASE i = 1
      BY <1>1, <1>3, <1>4, <1>6, <3>1
    <3>2. CASE i # 1
      <4>1. i - 1 \in 1..r /\ i - 1 \in 1..Len(f) /\ (i - 1) + 1 = i
        BY <1>3, <1>6, <3>2
      <4>2. g[i] = f[i - 1] /\ f[i - 1] \in 1..p.max /\ f[i - 1] # h
        BY <1>3, <1>7, <4>1
      <4>3. f[i - 1] <= m /\ p.st[f[i - 1]] = "nul"
        BY <1>2, <4>1 DEF Divided
      <4> QED
        BY <1>4, <4>2, <4>3
    <3> QED
      BY <3>1, <3>2
  <2>6. \A i, j \in 1..(r + 1) : g[i] = g[j] => i = j
    <3> SUFFICES ASSUME NEW i \in 1..(r + 1), NEW j \in 1..(r + 1), g[i] = g[j]
                 PROVE  i = j
      OBVIOUS
    <3>1. \A k \in 1..(r + 1) : k # 1 => /\ k - 1 \in 1..r /\ k - 1 \in 1..Len(f)
                                        /\ g[k] = f[k - 1] /\ f[k - 1] # h
      <4> TAKE k \in 1..(r + 1)
      <4> HAVE k # 1
      <4>1. k - 1 \in 1..r /\ k - 1 \in 1..Len(f) /\ (k - 1) + 1 = k
        BY <1>3, <1>6
      <4> QED
        BY <1>3, <1>7, <4>1
    <3>2. CASE i = 1 \/ j = 1
      BY <1>3, <3>1, <3>2
    <3>3. CASE i # 1 /\ j # 1
      BY <1>2, <3>1, <3>3 DEF Divided
    <3> QED
      BY <3>2, <3>3
  <2>7. \A j \in 1..m : q.st[j] = "nul" => \E i \in 1..(r + 1) : g[i] = j
    <3> SUFFICES ASSUME NEW j \in 1..m, q.st[j] = "nul"
                 PROVE  \E i \in 1..(r + 1) : g[i] = j
      OBVIOUS
    <3>1. CASE j = h
      BY <1>3, <1>6, <3>1
    <3>2. CASE j # h
      <4>1. PICK i \in 1..r : f[i] = j
        BY <1>2, <1>4, <1>6, <3>2 DEF Divided
      <4>2. i + 1 \in 1..(r + 1) /\ i \in 1..Len(f)
        BY <1>3, <1>6
      <4> QED
        BY <1>3, <4>1, <4>2
    <3> QED
      BY <3>1, <3>2
  <2>8. \A i \in ((r + 1) + 1)..Len(g) : g[i] = m + i - (r + 1)
    <3> TAKE i \in ((r + 1) + 1)..Len(g)
    <3>1. i - 1 \in (r + 1)..Len(f) /\ i - 1 \in 1..Len(f) /\ (i - 1) + 1 = i
      BY <1>3, <1>6
    <3>2. g[i] = f[i - 1] /\ f[i - 1] = m + (i - 1) - r
      BY <1>2, <1>3, <3>1 DEF Divided
    <3> QED
      BY <1>6, <3>1, <3>2
  <2> QED
    BY <2>1, <2>2, <2>3, <2>4, <2>5, <2>6, <2>7, <2>8 DEF Divided
<1>10. m \in 0..q.max /\ r + 1 \in 0..Len(g)
  BY <1>3, <1>4, <1>6
<1> QED
  BY <1>8, <1>9, <1>10 DEF FreeListOK, q, g

(* However a list comes to be linked from n+1 to the end of the array, it *)
(* holds FreshList(n, max) as soon as its last slot points nowhere.        *)
LEMMA FreshListThreads ==
  ASSUME NEW p, IsPool(p), p.n < p.max, p.nil = p.n + 1,
         \A j \in 1..p.max : j > p.n /\ j < p.max - 1 => p.link[j] = j + 1,
         p.link[p.max] = 0, p.max - 1 > p.n => p.link[p.max - 1] = 0
  PROVE  /\ Threaded(p, FreshList(p.n, p.max))
         /\ Len(FreshList(p.n, p.max)) \in Nat
         /\ \A i \in 1..Len(FreshList(p.n, p.max)) : FreshList(p.n, p.max)[i] = p.n + i
<1> DEFINE f == FreshList(p.n, p.max)
<1>1. p.n \in Nat /\ p.max \in Nat
  BY DEF IsPool
<1>2. CASE p.n + 1 = p.max
  <2>1. f = <<p.max>>
    BY <1>2 DEF FreshList
  <2>2. f \in Seq(1..p.max) /\ Len(f) = 1 /\ f[1] = p.max /\ f # <<>>
    BY <1>1, <1>2, <2>1
  <2> HIDE DEF f
  <2> QED
    BY <1>1, <1>2, <2>2 DEF Threaded, f
<1>3. CASE p.n + 1 # p.max
  <2> DEFINE k == p.max - 1 - p.n
  <2>1. k \in Nat /\ k >= 1 /\ f = [i \in 1..k |-> p.n + i]
    BY <1>1, <1>3 DEF FreshList, Interval
  <2>2. \A i \in 1..k : p.n + i \in 1..p.max
    BY <1>1, <2>1
  <2>3. f \in Seq(1..p.max) /\ Len(f) = k
    BY <1>1, <2>1, <2>2, IsASeq
  <2>4. f # <<>>
    BY <2>1, <2>3
  <2>5. \A i \in 1..k : f[i] = p.n + i
    BY <2>1
  <2> HIDE DEF f
  <2>6. \A i \in 1..k : p.link[f[i]] = IF i = k THEN 0 ELSE f[i + 1]
    <3> TAKE i \in 1..k
    <3>1. CASE i = k
      BY <1>1, <2>1, <2>5, <3>1
    <3>2. CASE i # k
      <4>1. p.n + i \in 1..p.max /\ p.n + i > p.n /\ p.n + i < p.max - 1
        BY <1>1, <2>1, <3>2
      <4>2. p.link[p.n + i] = p.n + i + 1
        BY <4>1
      <4>3. f[i + 1] = p.n + (i + 1)
        BY <2>1, <2>5, <3>2
      <4> QED
        BY <1>1, <2>5, <3>2, <4>2, <4>3
    <3> QED
      BY <3>1, <3>2
  <2> QED
    BY <1>1, <2>1, <2>3, <2>4, <2>5, <2>6 DEF Threaded, f
<1> QED
  BY <1>2, <1>3

(* A list that starts at n+1, above every slot in use, has the shape of a  *)
(* list nothing was given back to.                                         *)
LEMMA FreshSplit ==
  ASSUME NEW p, IsPool(p), NEW f, Threaded(p, f), Len(f) \in Nat,
         \A j \in 1..p.max : p.st[j] = "live" <=> j <= p.n,
         \A i \in 1..Len(f) : f[i] = p.n + i,
         p.n < p.max => p.link[p.max] = 0
  PROVE  FreeListOK(p, f)
<1>1. p.n \in 0..p.max /\ 0 \in 0..Len(f) /\ p.max \in Nat
  BY DEF IsPool
<1>2. Divided(p, f, p.n, 0)
  BY <1>1 DEF Divided
<1> QED
  BY <1>1, <1>2 DEF FreeListOK

(* The list that MMG2D_setMeshSize_alloc threads is correct.               *)
LEMMA InitialPoolList ==
  ASSUME NEW n \in Nat, NEW max \in Nat, n < max, NEW blank \in Status,
         blank # "live"
  PROVE  FreeListOK(InitialPool(n, max, blank), FreshList(n, max))
<1> DEFINE p == InitialPool(n, max, blank)
<1>1. IsPool(p)
  BY InitialPoolType
<1>2. /\ p.n = n /\ p.max = max /\ p.nil = n + 1
      /\ \A j \in 1..max : /\ p.st[j] = "live" <=> j <= n
                           /\ p.link[j] = IF j > n /\ j < max - 1 THEN j + 1 ELSE 0
  BY DEF InitialPool
<1> HIDE DEF p
<1>3. p.link[max] = 0 /\ (max - 1 > n => p.link[max - 1] = 0)
  BY <1>2
<1>4. /\ Threaded(p, FreshList(n, max))
      /\ Len(FreshList(n, max)) \in Nat
      /\ \A i \in 1..Len(FreshList(n, max)) : FreshList(n, max)[i] = n + i
  BY <1>1, <1>2, <1>3, FreshListThreads
<1> QED
  BY <1>1, <1>2, <1>3, <1>4, FreshSplit DEF p

(* When the list of a pool is empty every slot up to n is in use.          *)
LEMMA EmptyList ==
  ASSUME NEW p, IsPool(p), p.nil = 0, NEW f, FreeListOK(p, f)
  PROVE  /\ \A j \in 1..p.max : p.st[j] = "live" <=> j <= p.n
         /\ p.n < p.max => p.link[p.max] = 0
         /\ f = <<>>
<1>1. f \in Seq(1..p.max)
  BY DEF FreeListOK, Threaded
<1>2. f = <<>>
  <2>1. SUFFICES ASSUME f # <<>> PROVE FALSE
    OBVIOUS
  <2>2. f[1] \in 1..p.max /\ p.nil = f[1]
    BY <1>1, <2>1, RestOf DEF FreeListOK, Threaded
  <2> QED
    BY <2>2
<1>3. PICK m \in 0..p.max, r \in 0..0 : Divided(p, f, m, r)
  BY <1>2, EmptySeq DEF FreeListOK
<1>4. r = 0 /\ m \in Nat /\ m <= p.max /\ p.n \in Nat /\ p.n <= m /\ p.max \in Nat
  BY <1>3 DEF Divided, IsPool
<1>5. \A j \in 1..m : p.st[j] = "live"
  <2> TAKE j \in 1..m
  <2>1. p.st[j] # "zero" /\ p.st[j] # "nul"
    BY <1>3, <1>4 DEF Divided
  <2>2. p.st[j] \in Status
    BY <1>4 DEF IsPool
  <2> QED
    BY <2>1, <2>2 DEF Status
<1>6. m = p.n
  <2>1. m > 0 => m <= p.n
    BY <1>3, <1>4, <1>5 DEF Divided
  <2> QED
    BY <1>4, <2>1
<1> QED
  BY <1>2, <1>3, <1>4, <1>5, <1>6 DEF Divided

(* The list that a reallocation threads from n+1 is correct, if the one of *)
(* before was, and was empty.                                              *)
LEMMA GrowPoolList ==
  ASSUME NEW p, IsPool(p), p.nil = 0, NEW f, FreeListOK(p, f),
         NEW g \in Nat \ {0}, NEW blank \in Status, blank # "live"
  PROVE  LET q == GrowPool(p, g, blank)
         IN  FreeListOK(q, FreshList(q.n, q.max))
<1> DEFINE q == GrowPool(p, g, blank)
<1>1. /\ IsPool(q) /\ q.max = p.max + g /\ q.n = p.n /\ q.nil = p.n + 1
  BY GrowPoolType
<1>2. /\ p.n \in Nat /\ p.max \in Nat /\ p.n <= p.max
      /\ \A j \in 1..p.max : p.st[j] = "live" <=> j <= p.n
      /\ p.n < p.max => p.link[p.max] = 0
  BY EmptyList DEF IsPool
<1>3. \A j \in 1..q.max :
        /\ q.link[j] = IF j > p.n /\ j < q.max - 1 THEN j + 1
                       ELSE IF j <= p.max THEN p.link[j] ELSE 0
        /\ q.st[j] = IF j <= p.max THEN p.st[j] ELSE blank
  BY <1>1 DEF GrowPool
<1> HIDE DEF q
<1>4. q.link[q.max] = 0 /\ (q.max - 1 > q.n => q.link[q.max - 1] = 0)
  <2>1. q.max \in 1..q.max /\ q.max > p.max
    BY <1>1, <1>2
  <2>2. q.link[q.max] = 0
    BY <1>1, <1>2, <1>3, <2>1
  <2>3. ASSUME q.max - 1 > q.n PROVE q.link[q.max - 1] = 0
    <3>1. q.max - 1 \in 1..q.max /\ q.max - 1 >= p.max /\ ~(q.max - 1 < q.max - 1)
      BY <1>1, <1>2, <2>3
    <3>2. q.max - 1 = p.max => p.link[p.max] = 0
      BY <1>1, <1>2, <2>3
    <3> QED
      BY <1>1, <1>2, <1>3, <3>1, <3>2
  <2> QED
    BY <2>2, <2>3
<1>5. \A j \in 1..q.max : q.st[j] = "live" <=> j <= q.n
  BY <1>1, <1>2, <1>3
<1>6. /\ Threaded(q, FreshList(q.n, q.max))
      /\ Len(FreshList(q.n, q.max)) \in Nat
      /\ \A i \in 1..Len(FreshList(q.n, q.max)) : FreshList(q.n, q.max)[i] = q.n + i
  BY <1>1, <1>2, <1>3, <1>4, FreshListThreads
<1> QED
  BY <1>1, <1>4, <1>5, <1>6, FreshSplit DEF q

(* The loops of MMG2D_pack.  Below nbl every slot is filled, from nbl to at *)
(* none is in use, and from at on no slot that looks valid is one that was *)
(* never handed out.                                                       *)
Sliding(p, at, nbl) ==
    /\ \A j \in 1..p.max : j < nbl => p.st[j] = "live"
    /\ \A j \in 1..p.max : nbl <= j /\ j < at => p.st[j] # "live"
    /\ \A j \in 1..p.max : p.st[j] = "live" => j <= p.n
    /\ \A j \in 1..p.max : at <= j /\ j <= p.n => p.st[j] # "zero"

(* The slot to fill is not after the slot to look at.                      *)
Cursor(p, at, nbl) == /\ at \in Nat /\ nbl \in Nat
                      /\ 1 <= nbl /\ nbl <= at /\ at <= p.n + 1

(* The numbers written in the valid slots from lo to hi count them, from   *)
(* first on.                                                               *)
Chain(p, lo, hi, first) ==
    /\ \A j \in lo..hi :
         (Valid(p, j) /\ \A k \in lo..(j - 1) : ~Valid(p, k)) => p.link[j] = first
    /\ \A i, j \in lo..hi :
         (/\ i < j /\ Valid(p, i) /\ Valid(p, j)
          /\ \A k \in (i + 1)..(j - 1) : ~Valid(p, k)) => p.link[j] = p.link[i] + 1

(* The next number to write is 1, or the one after the last written.       *)
NextNumber(p, at, nbl) ==
    /\ (\A k \in 1..(at - 1) : ~Valid(p, k)) => nbl = 1
    /\ \A i \in 1..(at - 1) :
         (Valid(p, i) /\ \A k \in (i + 1)..(at - 1) : ~Valid(p, k)) => p.link[i] = nbl - 1

(* Every slot in use below n, none above: what sliding leaves.             *)
Dense(p) == \A j \in 1..p.max : p.st[j] = "live" <=> j <= p.n

(* The slot a loop comes to next.                                          *)
LEMMA NearestIs ==
  ASSUME NEW p, IsPool(p), NEW at \in Nat, NEW nbl \in Nat, Cursor(p, at, nbl),
         NEW j \in Ahead(p, at), Nearest(p, at, j)
  PROVE  /\ j \in Nat /\ at <= j /\ j <= p.n /\ j \in 1..p.max /\ nbl \in 1..p.max
         /\ p.n \in Nat /\ p.max \in Nat /\ p.n <= p.max
         /\ Valid(p, j) /\ \A k \in at..(j - 1) : ~Valid(p, k)
         /\ Cursor(p, j + 1, nbl + 1)
<1>1. /\ p.n \in Nat /\ p.max \in Nat /\ p.n <= p.max
  BY DEF IsPool
<1>2. j \in at..p.n /\ Valid(p, j) /\ \A k \in Ahead(p, at) : j <= k
  BY DEF Ahead, Nearest
<1>3. 1 <= nbl /\ nbl <= at /\ at <= p.n + 1
  BY DEF Cursor
<1>4. /\ j \in Nat /\ at <= j /\ j <= p.n /\ j \in 1..p.max /\ nbl \in 1..p.max
      /\ Cursor(p, j + 1, nbl + 1)
  BY <1>1, <1>2, <1>3 DEF Cursor
<1>5. ASSUME NEW k \in at..(j - 1) PROVE ~Valid(p, k)
  <2>1. k \in at..p.n /\ ~(j <= k)
    BY <1>1, <1>4
  <2> QED
    BY <1>2, <2>1 DEF Ahead
<1> QED
  BY <1>1, <1>2, <1>4, <1>5

(* Before the loops nothing has moved: the list of empty slots is right.   *)
LEMMA SlidingStarts ==
  ASSUME NEW p, IsPool(p), NEW f, FreeListOK(p, f)
  PROVE  Sliding(p, 1, 1)
<1>1. PICK m \in 0..p.max, r \in 0..Len(f) : Divided(p, f, m, r)
  BY DEF FreeListOK
<1>2. /\ p.n \in Nat /\ p.max \in Nat /\ p.n <= m /\ m \in Nat
      /\ \A j \in 1..p.max : p.st[j] = "live" => j <= p.n
      /\ \A j \in 1..m : p.st[j] # "zero"
  BY <1>1 DEF Divided, IsPool
<1>3. ASSUME NEW j \in 1..p.max, j <= p.n PROVE p.st[j] # "zero"
  BY <1>2, <1>3
<1> QED
  BY <1>2, <1>3 DEF Sliding

(* One vertex is numbered.                                                 *)
LEMMA NumberKeeps ==
  ASSUME NEW p, IsPool(p), NEW at \in Nat, NEW nbl \in Nat, Cursor(p, at, nbl),
         Chain(p, 1, at - 1, 1), NextNumber(p, at, nbl),
         NEW j \in Ahead(p, at), Nearest(p, at, j)
  PROVE  LET q == Number(p, j, nbl)
         IN  /\ IsPool(q) /\ q.max = p.max /\ q.n = p.n /\ q.st = p.st
             /\ Cursor(q, j + 1, nbl + 1)
             /\ Chain(q, 1, j, 1)
             /\ NextNumber(q, j + 1, nbl + 1)
<1> DEFINE q == Number(p, j, nbl)
<1>1. /\ j \in Nat /\ at <= j /\ j <= p.n /\ j \in 1..p.max /\ nbl \in 1..p.max
      /\ p.n \in Nat /\ p.max \in Nat /\ p.n <= p.max
      /\ Valid(p, j) /\ \A k \in at..(j - 1) : ~Valid(p, k)
      /\ Cursor(p, j + 1, nbl + 1)
  BY NearestIs
<1>2. IsPool(q) /\ q.max = p.max /\ q.n = p.n /\ q.st = p.st
  BY <1>1 DEF IsPool, Number
<1>3. /\ q.link[j] = nbl
      /\ \A k \in 1..p.max : k # j => q.link[k] = p.link[k]
  BY <1>1 DEF Number, IsPool
<1> HIDE DEF q
<1>4. Cursor(q, j + 1, nbl + 1)
  BY <1>1, <1>2 DEF Cursor
<1>5. \A k : Valid(q, k) <=> Valid(p, k)
  BY <1>2 DEF Valid
<1>6. ASSUME NEW k \in 1..(j - 1), Valid(p, k) PROVE k \in 1..(at - 1)
  BY <1>1, <1>6
<1>7. ASSUME NEW i \in 1..j, Valid(p, i), \A k \in 1..(i - 1) : ~Valid(p, k)
      PROVE  q.link[i] = 1
  <2>1. CASE i = j
    <3>1. \A k \in 1..(at - 1) : ~Valid(p, k)
      BY <1>1, <1>7, <2>1
    <3> QED
      BY <1>3, <2>1, <3>1 DEF NextNumber
  <2>2. CASE i # j
    <3>1. i \in 1..(at - 1) /\ i \in 1..p.max
      BY <1>1, <1>6, <1>7, <2>2
    <3> QED
      BY <1>3, <1>7, <2>2, <3>1 DEF Chain
  <2> QED
    BY <2>1, <2>2
<1>8. ASSUME NEW i \in 1..j, NEW l \in 1..j, i < l, Valid(p, i), Valid(p, l),
             \A k \in (i + 1)..(l - 1) : ~Valid(p, k)
      PROVE  q.link[l] = q.link[i] + 1
  <2>1. i \in 1..(at - 1) /\ i \in 1..p.max /\ i # j
    BY <1>1, <1>6, <1>8
  <2>2. CASE l = j
    <3>1. \A k \in (i + 1)..(at - 1) : ~Valid(p, k)
      BY <1>1, <1>8, <2>2
    <3>2. p.link[i] = nbl - 1
      BY <1>8, <2>1, <3>1 DEF NextNumber
    <3> QED
      BY <1>1, <1>3, <2>1, <2>2, <3>2
  <2>3. CASE l # j
    <3>1. l \in 1..(at - 1) /\ l \in 1..p.max
      BY <1>1, <1>6, <1>8, <2>3
    <3>2. p.link[l] = p.link[i] + 1
      BY <1>8, <2>1, <3>1 DEF Chain
    <3> QED
      BY <1>3, <2>1, <2>3, <3>1, <3>2
  <2> QED
    BY <2>2, <2>3
<1>9. Chain(q, 1, j, 1)
  BY <1>5, <1>7, <1>8 DEF Chain
<1>10. NextNumber(q, j + 1, nbl + 1)
  <2>1. j \in 1..((j + 1) - 1)
    BY <1>1
  <2>2. ASSUME NEW i \in 1..((j + 1) - 1), Valid(p, i),
               \A k \in (i + 1)..((j + 1) - 1) : ~Valid(p, k)
        PROVE  q.link[i] = (nbl + 1) - 1
    <3>1. i = j
      BY <1>1, <2>2
    <3> QED
      BY <1>1, <1>3, <3>1
  <2> QED
    BY <1>1, <1>5, <2>1, <2>2 DEF NextNumber
<1> QED
  BY <1>2, <1>4, <1>9, <1>10 DEF q

(* When no vertex is ahead all of them are numbered.                       *)
LEMMA NumberEnds ==
  ASSUME NEW p, IsPool(p), NEW at \in Nat, NEW nbl \in Nat, Cursor(p, at, nbl),
         Chain(p, 1, at - 1, 1), Ahead(p, at) = {}
  PROVE  Chain(p, 1, p.n, 1)
<1>1. p.n \in Nat /\ at >= 1 /\ at <= p.n + 1
  BY DEF IsPool, Cursor
<1>2. ASSUME NEW j \in 1..p.n, Valid(p, j) PROVE j \in 1..(at - 1)
  BY <1>1, <1>2 DEF Ahead
<1> QED
  BY <1>2 DEF Chain

(* The vertex that slides next is numbered for the slot to fill.           *)
LEMMA NumberOfNearest ==
  ASSUME NEW p, IsPool(p), NEW at \in Nat, NEW nbl \in Nat, Cursor(p, at, nbl),
         Chain(p, at, p.n, nbl), NEW j \in Ahead(p, at), Nearest(p, at, j)
  PROVE  p.link[j] = nbl
<1>1. /\ j \in at..p.n /\ Valid(p, j) /\ \A k \in at..(j - 1) : ~Valid(p, k)
  BY NearestIs DEF Ahead
<1> QED
  BY <1>1 DEF Chain

(* One slot slides.  The slot it leaves is not in use any more, and is the *)
(* only one.                                                               *)
LEMMA SlideIs ==
  ASSUME NEW p, IsPool(p), NEW j \in 1..p.max, NEW new \in 1..p.max,
         NEW blank \in Status
  PROVE  LET q == SlideSlot(p, j, new, blank)
         IN  /\ IsPool(q) /\ q.max = p.max /\ q.n = p.n
             /\ q.st[new] = p.st[j] /\ q.link[new] = p.link[j]
             /\ j # new => q.st[j] = blank
             /\ \A k \in 1..p.max : k # j /\ k # new =>
                   q.st[k] = p.st[k] /\ q.link[k] = p.link[k]
<1>1. CASE j = new
  BY <1>1 DEF SlideSlot
<1>2. CASE j # new
  <2> DEFINE q == SlideSlot(p, j, new, blank)
  <2>1. q = [n |-> p.n, max |-> p.max, nil |-> p.nil,
             link |-> [p.link EXCEPT ![new] = p.link[j], ![j] = 0],
             st   |-> [p.st EXCEPT ![new] = p.st[j], ![j] = blank]]
    BY <1>2 DEF SlideSlot
  <2>2. /\ p.link \in [1..p.max -> 0..p.max] /\ p.st \in [1..p.max -> Status]
        /\ p.max \in Nat /\ p.n \in 0..p.max /\ p.nil \in 0..p.max
    BY DEF IsPool
  <2> DEFINE L == [p.link EXCEPT ![new] = p.link[j], ![j] = 0]
             T == [p.st EXCEPT ![new] = p.st[j], ![j] = blank]
  <2>3. /\ L \in [1..p.max -> 0..p.max]
        /\ L[new] = p.link[j] /\ \A k \in 1..p.max : k # j /\ k # new => L[k] = p.link[k]
    BY <1>2, <2>2
  <2>7. /\ T \in [1..p.max -> Status]
        /\ T[new] = p.st[j] /\ T[j] = blank
        /\ \A k \in 1..p.max : k # j /\ k # new => T[k] = p.st[k]
    BY <1>2, <2>2
  <2>4. q.link = L /\ q.st = T /\ q.n = p.n /\ q.max = p.max /\ q.nil = p.nil
    BY <2>1
  <2>8. q = [n |-> p.n, max |-> p.max, nil |-> p.nil, link |-> L, st |-> T]
    BY <2>1
  <2> HIDE DEF L, T
  <2>5. q \in [n : 0..p.max, max : {p.max}, nil : 0..p.max,
                link : [1..p.max -> 0..p.max], st : [1..p.max -> Status]]
    BY <2>2, <2>3, <2>7, <2>8
  <2> HIDE DEF q
  <2>6. IsPool(q)
    BY <2>2, <2>4, <2>5 DEF IsPool
  <2> QED
    BY <1>2, <2>3, <2>4, <2>6, <2>7 DEF q
<1> QED
  BY <1>1, <1>2

(* What the loops rely on is kept by one more slot.                        *)
LEMMA SlideKeeps ==
  ASSUME NEW p, IsPool(p), NEW at \in Nat, NEW nbl \in Nat, Cursor(p, at, nbl),
         NEW j \in Ahead(p, at), Nearest(p, at, j),
         NEW blank \in Status, blank # "live"
  PROVE  LET q == SlideSlot(p, j, nbl, blank)
         IN  /\ IsPool(q) /\ q.max = p.max /\ q.n = p.n
             /\ Cursor(q, j + 1, nbl + 1)
             /\ Sliding(p, at, nbl) => Sliding(q, j + 1, nbl + 1)
             /\ Chain(p, at, p.n, nbl) => Chain(q, j + 1, q.n, nbl + 1)
<1> DEFINE q == SlideSlot(p, j, nbl, blank)
<1>1. /\ j \in Nat /\ at <= j /\ j <= p.n /\ j \in 1..p.max /\ nbl \in 1..p.max
      /\ p.n \in Nat /\ p.max \in Nat /\ p.n <= p.max
      /\ Valid(p, j) /\ \A k \in at..(j - 1) : ~Valid(p, k)
      /\ Cursor(p, j + 1, nbl + 1) /\ nbl <= at
  BY NearestIs DEF Cursor
<1>2. /\ IsPool(q) /\ q.max = p.max /\ q.n = p.n
      /\ q.st[nbl] = p.st[j]
      /\ j # nbl => q.st[j] = blank
      /\ \A k \in 1..p.max : k # j /\ k # nbl =>
            q.st[k] = p.st[k] /\ q.link[k] = p.link[k]
  BY <1>1, SlideIs
<1> HIDE DEF q
<1>3. Cursor(q, j + 1, nbl + 1)
  BY <1>1, <1>2 DEF Cursor
<1>4. ASSUME Sliding(p, at, nbl) PROVE Sliding(q, j + 1, nbl + 1)
  <2>1. p.st[j] = "live"
    <3>1. p.st[j] # "zero" /\ p.st[j] # "nul" /\ p.st[j] \in Status
      BY <1>1, <1>4 DEF Sliding, Valid, IsPool
    <3> QED
      BY <3>1 DEF Status
  <2>2. ASSUME NEW k \in 1..q.max, k < nbl + 1 PROVE q.st[k] = "live"
    <3>1. k = nbl \/ (k < nbl /\ k # j)
      BY <1>1, <2>2
    <3> QED
      BY <1>1, <1>2, <1>4, <2>1, <3>1 DEF Sliding
  <2>3. ASSUME NEW k \in 1..q.max, nbl + 1 <= k, k < j + 1 PROVE q.st[k] # "live"
    <3>1. k # nbl
      BY <1>1, <2>3
    <3>2. CASE k = j
      BY <1>2, <3>1, <3>2
    <3>3. CASE k # j /\ k < at
      <4>1. p.st[k] # "live"
        BY <1>1, <1>2, <1>4, <2>3, <3>3 DEF Sliding
      <4> QED
        BY <1>2, <3>1, <3>3, <4>1
    <3>4. CASE k # j /\ ~(k < at)
      <4>1. ~Valid(p, k)
        BY <1>1, <1>2, <2>3, <3>4
      <4> QED
        BY <1>2, <3>1, <3>4, <4>1 DEF Valid
    <3> QED
      BY <3>2, <3>3, <3>4
  <2>4. ASSUME NEW k \in 1..q.max, q.st[k] = "live" PROVE k <= q.n
    <3>1. CASE k = nbl
      BY <1>1, <1>2, <3>1
    <3>2. CASE k = j
      BY <1>1, <1>2, <3>2
    <3>3. CASE k # nbl /\ k # j
      BY <1>2, <1>4, <2>4, <3>3 DEF Sliding
    <3> QED
      BY <3>1, <3>2, <3>3
  <2>5. ASSUME NEW k \in 1..q.max, j + 1 <= k, k <= q.n PROVE q.st[k] # "zero"
    <3>1. k # j /\ k # nbl /\ at <= k
      BY <1>1, <2>5
    <3> QED
      BY <1>2, <1>4, <2>5, <3>1 DEF Sliding
  <2> QED
    BY <2>2, <2>3, <2>4, <2>5 DEF Sliding
<1>5. ASSUME Chain(p, at, p.n, nbl) PROVE Chain(q, j + 1, q.n, nbl + 1)
  <2>1. p.link[j] = nbl
    BY <1>5, NumberOfNearest
  <2>2. ASSUME NEW k \in (j + 1)..q.n
        PROVE  /\ k \in at..p.n /\ k \in 1..p.max /\ j < k
               /\ q.link[k] = p.link[k] /\ (Valid(q, k) <=> Valid(p, k))
    <3>1. k \in at..p.n /\ k \in 1..p.max /\ j < k /\ k # j /\ k # nbl
      BY <1>1, <1>2
    <3> QED
      BY <1>2, <3>1 DEF Valid
  <2>3. ASSUME NEW l \in (j + 1)..q.n, Valid(q, l),
               \A k \in (j + 1)..(l - 1) : ~Valid(q, k)
        PROVE  q.link[l] = nbl + 1
    <3>1. \A k \in (j + 1)..(l - 1) : k \in (j + 1)..q.n
      BY <1>1, <1>2
    <3>2. \A k \in (j + 1)..(l - 1) : ~Valid(p, k)
      BY <2>2, <2>3, <3>1
    <3>3. j \in at..p.n
      BY <1>1
    <3>4. p.link[l] = p.link[j] + 1
      BY <1>1, <1>5, <2>2, <2>3, <3>2, <3>3 DEF Chain
    <3> QED
      BY <2>1, <2>2, <3>4
  <2>4. ASSUME NEW i \in (j + 1)..q.n, NEW l \in (j + 1)..q.n, i < l,
               Valid(q, i), Valid(q, l), \A k \in (i + 1)..(l - 1) : ~Valid(q, k)
        PROVE  q.link[l] = q.link[i] + 1
    <3>1. \A k \in (i + 1)..(l - 1) : k \in (j + 1)..q.n
      BY <1>1, <1>2
    <3>2. \A k \in (i + 1)..(l - 1) : ~Valid(p, k)
      BY <2>2, <2>4, <3>1
    <3>3. p.link[l] = p.link[i] + 1
      BY <1>5, <2>2, <2>4, <3>2 DEF Chain
    <3> QED
      BY <2>2, <3>3
  <2> QED
    BY <2>3, <2>4 DEF Chain
<1> QED
  BY <1>2, <1>3, <1>4, <1>5 DEF q

(* When nothing is ahead the slots in use are those below nbl.             *)
LEMMA SlidingEnds ==
  ASSUME NEW p, IsPool(p), NEW at \in Nat, NEW nbl \in Nat, Cursor(p, at, nbl),
         Ahead(p, at) = {}
  PROVE  LET q == EndAt(p, nbl - 1)
         IN  /\ IsPool(q) /\ q.max = p.max /\ q.n = nbl - 1
             /\ Sliding(p, at, nbl) => Dense(q)
<1> DEFINE q == EndAt(p, nbl - 1)
<1>1. /\ p.n \in Nat /\ p.max \in Nat /\ p.n <= p.max
      /\ 1 <= nbl /\ nbl <= at /\ at <= p.n + 1
  BY DEF IsPool, Cursor
<1>2. nbl - 1 \in 0..p.max
  BY <1>1
<1>3. IsPool(q) /\ q.max = p.max /\ q.n = nbl - 1 /\ q.st = p.st
  BY <1>2 DEF IsPool, EndAt
<1> HIDE DEF q
<1>4. ASSUME Sliding(p, at, nbl), NEW j \in 1..q.max
      PROVE  q.st[j] = "live" <=> j <= q.n
  <2>1. CASE j < nbl
    BY <1>1, <1>3, <1>4, <2>1 DEF Sliding
  <2>2. CASE nbl <= j /\ j < at
    BY <1>1, <1>3, <1>4, <2>2 DEF Sliding
  <2>3. CASE at <= j
    <3>1. p.st[j] # "live"
      <4> SUFFICES ASSUME p.st[j] = "live" PROVE FALSE
        OBVIOUS
      <4>1. j \in at..p.n
        BY <1>1, <1>3, <1>4, <2>3 DEF Sliding
      <4> QED
        BY <4>1 DEF Ahead, Valid
    <3> QED
      BY <1>1, <1>3, <2>3, <3>1
  <2> QED
    BY <1>1, <2>1, <2>2, <2>3
<1> QED
  BY <1>3, <1>4 DEF Dense, q

(* The slots in use of a dense array are 1 .. n.                           *)
LEMMA DenseLive ==
  ASSUME NEW p, IsPool(p), Dense(p)
  PROVE  /\ Live(p) = 1..p.n
         /\ Live(p) = 1..Cardinality(Live(p))
<1>1. p.n \in Nat /\ p.max \in Nat /\ p.n <= p.max
  BY DEF IsPool
<1>2. Live(p) = 1..p.n
  BY <1>1 DEF Dense, Live
<1>3. Cardinality(1..p.n) = p.n
  BY <1>1, FS_Interval
<1> QED
  BY <1>2, <1>3

(* The numbers of the vertices are cleared.                                *)
LEMMA UnnumberedIs ==
  ASSUME NEW p, IsPool(p)
  PROVE  /\ IsPool(Unnumbered(p)) /\ Unnumbered(p).max = p.max
         /\ Unnumbered(p).n = p.n /\ Unnumbered(p).st = p.st
BY DEF IsPool, Unnumbered

(* Relinking leaves the slots alone.                                       *)
LEMMA RelinkedIs ==
  ASSUME NEW p, IsPool(p)
  PROVE  LET q == Relinked(p)
         IN  /\ IsPool(q) /\ q.max = p.max /\ q.n = p.n /\ q.st = p.st
             /\ q.nil = IF q.n < q.max - 3 THEN q.n + 1 ELSE 0
             /\ \A j \in 1..q.max : j > q.n /\ q.n < q.max - 3 /\ j < q.max - 1
                                      => q.link[j] = j + 1
BY DEF IsPool, Relinked

(* The list that MMG2D_pack threads after its loops have made the array    *)
(* dense is correct, if the two last slots hold no old link.               *)
LEMMA RelinkedList ==
  ASSUME NEW p, IsPool(p), Dense(p), NoOldLink(Relinked(p))
  PROVE  FreeListOK(Relinked(p), PackedList(Relinked(p)))
<1> DEFINE q == Relinked(p)
           f == PackedList(q)
<1>1. /\ IsPool(q) /\ q.max = p.max /\ q.n = p.n /\ q.st = p.st
      /\ q.nil = IF q.n < q.max - 3 THEN q.n + 1 ELSE 0
      /\ \A j \in 1..q.max : j > q.n /\ q.n < q.max - 3 /\ j < q.max - 1
                               => q.link[j] = j + 1
  BY RelinkedIs
<1>2. q.n \in Nat /\ q.n <= q.max /\ q.max \in Nat
  BY <1>1 DEF IsPool
<1>3. f = IF q.n < q.max - 3 THEN Interval(q.n + 1, q.max - 1) ELSE <<>>
  BY DEF PackedList
<1>4. \A j \in 1..q.max : q.st[j] = "live" <=> j <= q.n
  BY <1>1 DEF Dense
<1>5. /\ q.n < q.max => q.link[q.max] = 0
      /\ q.max - 1 > q.n => q.link[q.max - 1] = 0
  BY <1>2 DEF NoOldLink
<1> HIDE DEF q, f
<1>6. CASE q.n < q.max - 3
  <2>1. f = FreshList(q.n, q.max)
    BY <1>2, <1>3, <1>6 DEF FreshList
  <2>2. /\ Threaded(q, f) /\ Len(f) \in Nat
        /\ \A i \in 1..Len(f) : f[i] = q.n + i
    BY <1>1, <1>2, <1>5, <1>6, <2>1, FreshListThreads
  <2> QED
    BY <1>1, <1>4, <1>5, <2>2, FreshSplit DEF q, f
<1>7. CASE ~(q.n < q.max - 3)
  <2>1. f = <<>> /\ q.nil = 0 /\ Len(f) = 0 /\ f \in Seq(1..q.max)
    BY <1>1, <1>3, <1>7, EmptySeq
  <2>2. Threaded(q, f)
    BY <2>1 DEF Threaded
  <2> QED
    BY <1>1, <1>4, <1>5, <2>1, <2>2, FreshSplit DEF q, f
<1> QED
  BY <1>6, <1>7

-------------------------------------------------------------------------------
(* What each operation does to the set of slots in use.                    *)

(* The head of a right list is not in use.                                 *)
LEMMA HeadIsFree ==
  ASSUME NEW p, IsPool(p), p.nil # 0, NEW f, FreeListOK(p, f)
  PROVE  p.nil \in 1..p.max /\ p.st[p.nil] # "live"
<1>1. PICK m \in 0..p.max, r \in 0..Len(f) : Divided(p, f, m, r)
  BY DEF FreeListOK
<1>2. f \in Seq(1..p.max) /\ f # <<>> /\ p.nil = f[1]
  BY DEF FreeListOK, Threaded
<1>3. Len(f) \in Nat \ {0} /\ f[1] \in 1..p.max
  BY <1>2, RestOf
<1>4. CASE r >= 1
  BY <1>1, <1>2, <1>3, <1>4 DEF Divided
<1>5. CASE r = 0
  <2>1. f[1] = m + 1 /\ p.n <= m
    BY <1>1, <1>3, <1>5 DEF Divided
  <2>2. p.n \in Nat
    BY DEF IsPool
  <2> QED
    BY <1>1, <1>2, <1>3, <2>1, <2>2 DEF Divided
<1> QED
  BY <1>1, <1>3, <1>4, <1>5

(* MMG2D_newPt and MMG2D_newElt add the head of the list to the slots in   *)
(* use.                                                                    *)
LEMMA NewSlotLive ==
  ASSUME NEW p, IsPool(p), p.nil # 0
  PROVE  Live(NewSlot(p)) = Live(p) \union {p.nil}
<1>1. p.nil \in 1..p.max
  BY DEF IsPool
<1> QED
  BY <1>1 DEF IsPool, NewSlot, Live

(* MMG2D_delPt and MMG2D_delElt take one slot from those in use.           *)
LEMMA DelSlotLive ==
  ASSUME NEW p, IsPool(p), NEW h \in 1..p.max
  PROVE  Live(DelSlot(p, h)) = Live(p) \ {h}
BY DEF IsPool, DelSlot, Live

(* The reallocation macros leave the slots in use alone.                   *)
LEMMA GrowPoolLive ==
  ASSUME NEW p, IsPool(p), NEW g \in Nat \ {0}, NEW blank \in Status, blank # "live"
  PROVE  Live(GrowPool(p, g, blank)) = Live(p)
BY DEF IsPool, GrowPool, Live

(* The slots in use of a mesh that was just loaded are 1 .. n.             *)
LEMMA InitialPoolLive ==
  ASSUME NEW n \in Nat, NEW max \in Nat, n < max, NEW blank \in Status, blank # "live"
  PROVE  Live(InitialPool(n, max, blank)) = 1..Cardinality(Live(InitialPool(n, max, blank)))
<1>1. Live(InitialPool(n, max, blank)) = 1..n
  BY DEF InitialPool, Live
<1>2. Cardinality(1..n) = n
  BY FS_Interval
<1> QED
  BY <1>1, <1>2
===============================================================================
