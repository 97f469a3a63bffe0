----------------------------- MODULE EdgeHashProofs ----------------------------
(***************************************************************************)
(* For every set of edges, every hash function, every size of the table    *)
(* and every memory limit: the chains of a hash table end and share no     *)
(* cell, the unused cells stay apart from them, and the table is the map   *)
(* its callers take it for.                                                *)
(***************************************************************************)
EXTENDS EdgeHash, SlotPoolProofs

USE TableAssumption

-------------------------------------------------------------------------------
(* Walks along chains.                                                     *)

(* A table whose links go up.                                              *)
Chained(cells, m) ==
    /\ m \in Nat
    /\ DOMAIN cells = 0..m
    /\ \A c \in 0..m : cells[c].nxt = 0 \/ cells[c].nxt \in (c + 1)..m

(* A walk is the function its recursive definition describes.              *)
LEMMA WalkSteps ==
  ASSUME NEW m \in Nat, NEW cells, DOMAIN cells = 0..m, NEW head, NEW last
  PROVE  /\ DOMAIN Walk(cells, head, last) = 0..m
         /\ Walk(cells, head, last)[0] = head
         /\ \A i \in 1..m : Walk(cells, head, last)[i] =
                            LinkOf(cells, Walk(cells, head, last)[i - 1], last)
<1> DEFINE Def(f, n) == f = [i \in 0..n |-> IF i = 0 THEN head ELSE LinkOf(cells, f[i - 1], last)]
           Bad == {n \in Nat : ~ \E f : Def(f, n)}
<1>1. Bad = {}
  <2> SUFFICES ASSUME Bad # {} PROVE FALSE
    OBVIOUS
  <2>1. PICK n \in Bad : \A k \in Bad : n <= k
    <3>1. Bad \in SUBSET Nat
      OBVIOUS
    <3> HIDE DEF Bad
    <3> QED
      BY <3>1, LeastNat
  <2>2. CASE n = 0
    <3> DEFINE f == [i \in 0..0 |-> head]
    <3>1. Def(f, 0)
      OBVIOUS
    <3> QED
      BY <2>2, <3>1
  <2>3. CASE n # 0
    <3>1. n - 1 \in Nat /\ n - 1 \notin Bad
      BY <2>1, <2>3
    <3>2. PICK f : Def(f, n - 1)
      BY <3>1
    <3>5. \A i \in 0..(n - 1) : f[i] = IF i = 0 THEN head ELSE LinkOf(cells, f[i - 1], last)
      BY <3>2
    <3> DEFINE g == [i \in 0..n |-> IF i = n THEN LinkOf(cells, f[n - 1], last) ELSE f[i]]
    <3>3. \A i \in 0..n : g[i] = IF i = 0 THEN head ELSE LinkOf(cells, g[i - 1], last)
      <4> TAKE i \in 0..n
      <4>1. CASE i = n
        BY <2>3, <3>1, <4>1
      <4>2. CASE i # n
        <5>1. i \in 0..(n - 1)
          BY <3>1, <4>2
        <5>2. f[i] = IF i = 0 THEN head ELSE LinkOf(cells, f[i - 1], last)
          BY <3>5, <5>1, Zenon
        <5>3. g[i] = f[i]
          BY <4>2
        <5>4. i # 0 => g[i - 1] = f[i - 1]
          BY <3>1, <4>2, <5>1
        <5> QED
          BY <5>2, <5>3, <5>4
      <4> QED
        BY <4>1, <4>2
    <3>4. Def(g, n)
      <4> DEFINE rhs == [i \in 0..n |-> IF i = 0 THEN head ELSE LinkOf(cells, g[i - 1], last)]
      <4>1. DOMAIN g = 0..n /\ DOMAIN rhs = 0..n
        OBVIOUS
      <4>2. \A i \in 0..n : g[i] = rhs[i]
        BY <3>3
      <4>3. g = [i \in 0..n |-> g[i]] /\ rhs = [i \in 0..n |-> rhs[i]]
        OBVIOUS
      <4> HIDE DEF g, rhs
      <4>4. g = rhs
        BY <4>2, <4>3
      <4> QED
        BY <4>4 DEF rhs
    <3> QED
      BY <2>1, <3>4
  <2> QED
    BY <2>2, <2>3
<1>2. PICK f : Def(f, m)
  BY <1>1
<1> DEFINE w == Walk(cells, head, last)
<1>3. w = [i \in 0..m |-> IF i = 0 THEN head ELSE LinkOf(cells, w[i - 1], last)]
  <2>1. w = CHOOSE c : Def(c, m)
    BY DEF Walk
  <2> QED
    BY <1>2, <2>1
<1> HIDE DEF w
<1>4. DOMAIN w = 0..m
  BY <1>3
<1>5. \A i \in 0..m : w[i] = IF i = 0 THEN head ELSE LinkOf(cells, w[i - 1], last)
  BY <1>3
<1>6. w[0] = head
  BY <1>5
<1>7. \A i \in 1..m : w[i] = LinkOf(cells, w[i - 1], last)
  BY <1>5
<1> QED
  BY <1>4, <1>6, <1>7 DEF w

(* The cells visited are the least set that holds the head and is closed   *)
(* under the links, and the walk ends.                                     *)
LEMMA VisitedLeast ==
  ASSUME NEW m, NEW cells, Chained(cells, m), NEW head \in 0..m, NEW last \in 0..m
  PROVE  LET V == VisitedFrom(cells, head, last)
         IN  /\ head \in V
             /\ V \subseteq 0..m
             /\ \A c \in V : cells[c].nxt \in 1..last => cells[c].nxt \in V
             /\ \A S : /\ head \in S
                       /\ \A c \in S \intersect (0..m) : cells[c].nxt \in 1..last => cells[c].nxt \in S
                       => V \subseteq S
             /\ LinkOf(cells, Walk(cells, head, last)[m], last) = -1
<1> DEFINE w == Walk(cells, head, last)
           V == VisitedFrom(cells, head, last)
<1>1. m \in Nat /\ DOMAIN cells = 0..m
  BY DEF Chained
<1>2. w[0] = head /\ \A i \in 1..m : w[i] = LinkOf(cells, w[i - 1], last)
  BY <1>1, WalkSteps
<1>3. V = {w[i] : i \in 0..m} \ {-1}
  BY <1>1 DEF VisitedFrom
<1> HIDE DEF w, V
<1>4. \A i \in 0..m : w[i] = -1 \/ w[i] \in i..m
  <2> DEFINE S == {i \in 0..m : w[i] = -1 \/ w[i] \in i..m}
  <2>1. 0 \in S
    BY <1>1, <1>2
  <2>2. \A i \in 1..m : i - 1 \in S => i \in S
    <3> SUFFICES ASSUME NEW i \in 1..m, w[i - 1] = -1 \/ w[i - 1] \in (i - 1)..m
                 PROVE  w[i] = -1 \/ w[i] \in i..m
      BY <1>1
    <3>1. w[i] = LinkOf(cells, w[i - 1], last)
      BY <1>2
    <3> QED
      BY <1>1, <3>1 DEF LinkOf, Chained
  <2> HIDE DEF S
  <2>3. 0..m \subseteq S
    BY <1>1, <2>1, <2>2, Upward
  <2> QED
    BY <2>3 DEF S
<1>5. head \in V
  BY <1>1, <1>2, <1>3
<1>6. V \subseteq 0..m
  BY <1>1, <1>3, <1>4
<1>7. ASSUME NEW c \in V, cells[c].nxt \in 1..last PROVE cells[c].nxt \in V
  <2>1. PICK i \in 0..m : w[i] = c
    BY <1>3
  <2>2. c # -1 /\ c \in i..m /\ cells[c].nxt \in (c + 1)..m
    BY <1>1, <1>3, <1>4, <1>7, <2>1 DEF Chained
  <2>3. i + 1 \in 1..m /\ (i + 1) - 1 = i
    BY <1>1, <2>2
  <2>4. w[i + 1] = LinkOf(cells, c, last)
    BY <1>2, <2>1, <2>3
  <2>5. w[i + 1] = cells[c].nxt
    BY <1>7, <2>2, <2>4 DEF LinkOf
  <2>6. i + 1 \in 0..m /\ cells[c].nxt # -1
    BY <1>7, <2>3
  <2> QED
    BY <1>3, <2>5, <2>6
<1>8. ASSUME NEW S, head \in S,
             \A c \in S \intersect (0..m) : cells[c].nxt \in 1..last => cells[c].nxt \in S
      PROVE  V \subseteq S
  <2> DEFINE T == {i \in 0..m : w[i] = -1 \/ w[i] \in S}
  <2>1. 0 \in T
    BY <1>1, <1>2, <1>8
  <2>2. \A i \in 1..m : i - 1 \in T => i \in T
    <3> SUFFICES ASSUME NEW i \in 1..m, w[i - 1] = -1 \/ w[i - 1] \in S
                 PROVE  w[i] = -1 \/ w[i] \in S
      BY <1>1
    <3>1. w[i] = LinkOf(cells, w[i - 1], last)
      BY <1>2
    <3>2. w[i - 1] = -1 \/ w[i - 1] \in 0..m
      BY <1>1, <1>4
    <3> QED
      BY <1>8, <3>1, <3>2 DEF LinkOf
  <2> HIDE DEF T
  <2>3. 0..m \subseteq T
    BY <1>1, <2>1, <2>2, Upward
  <2> QED
    BY <1>3, <2>3 DEF T
<1>9. LinkOf(cells, w[m], last) = -1
  BY <1>1, <1>4 DEF LinkOf, Chained
<1> QED
  BY <1>5, <1>6, <1>7, <1>8, <1>9 DEF w, V

(* A set that holds the head and is closed holds the chain.                *)
LEMMA VisitedInside ==
  ASSUME NEW m, NEW cells, Chained(cells, m), NEW head \in 0..m, NEW last \in 0..m,
         NEW S, head \in S, \A c \in S : cells[c].nxt \in 1..last => cells[c].nxt \in S
  PROVE  VisitedFrom(cells, head, last) \subseteq S
BY VisitedLeast

(* Every chain has a last cell.                                            *)
LEMMA ChainEnd ==
  ASSUME NEW m, NEW cells, Chained(cells, m), NEW head \in 0..m, NEW last \in 0..m
  PROVE  \E c \in VisitedFrom(cells, head, last) : cells[c].nxt \notin 1..last
<1> DEFINE V == VisitedFrom(cells, head, last)
           T == {m - c : c \in V}
<1>1. m \in Nat
  BY DEF Chained
<1>2. /\ head \in V /\ V \subseteq 0..m
      /\ \A c \in V : cells[c].nxt \in 1..last => cells[c].nxt \in V
  BY VisitedLeast
<1> HIDE DEF V
<1>3. PICK x \in T : \A y \in T : x <= y
  <2>1. T \in SUBSET Nat /\ T # {}
    BY <1>1, <1>2
  <2> HIDE DEF T
  <2> QED
    BY <2>1, LeastNat
<1>4. PICK c \in V : x = m - c
  BY <1>3
<1>5. ASSUME cells[c].nxt \in 1..last PROVE FALSE
  <2>1. cells[c].nxt \in V /\ cells[c].nxt \in (c + 1)..m
    BY <1>2, <1>5 DEF Chained
  <2>2. x <= m - cells[c].nxt
    BY <1>3, <2>1
  <2> QED
    BY <1>1, <1>2, <1>4, <2>1, <2>2
<1> QED
  BY <1>4, <1>5 DEF V

-------------------------------------------------------------------------------
(* The shape of a table between two calls.  That the chains are apart is   *)
(* not inductive alone: an edge that was in no chain would be overwritten, *)
(* and one listed twice would be found twice.                              *)
Typed(cells, m, n) ==
    /\ m \in Nat /\ n \in Siz..m
    /\ cells \in [0..m -> [e : Keys \union {None}, k : Nat, nxt : 0..m]]

(* The unused cells lead to one another, up to the cell m.                 *)
Apart(cells, m, n) ==
    /\ \A c \in n..(m - 1) : cells[c].e = None /\ cells[c].k = 0 /\ cells[c].nxt = c + 1
    /\ cells[m].e = None /\ cells[m].k = 0 /\ cells[m].nxt = 0

(* Each chain holds the edges of its head.                                 *)
Homed(cells, n, h) ==
    /\ \A c \in 0..HSiz : /\ cells[c].e = None => cells[c].nxt = 0
                          /\ cells[c].e # None => h[cells[c].e] = c
    /\ \A c \in Siz..(n - 1) : cells[c].e \in Keys
    /\ \A c \in 0..(n - 1) : cells[c].nxt # 0 =>
            /\ cells[c].nxt \in Siz..(n - 1) /\ cells[c].nxt > c
            /\ h[cells[cells[c].nxt].e] = h[cells[c].e]

(* No edge is listed twice.                                                *)
Once(cells, n) ==
    \A c, d \in 0..(n - 1) : cells[c].e = cells[d].e /\ cells[c].e # None => c = d

(* Each edge is in the chain where it is looked for.                       *)
Reached(cells, m, n, h) ==
    \A c \in 0..(n - 1) : cells[c].e # None => c \in VisitedFrom(cells, h[cells[c].e], m)

(* What is stored.                                                         *)
Holds(cells, n, K) ==
    \A c \in 0..(n - 1) : cells[c].e # None => cells[c].k \in K

Good(cells, m, n, h, K) ==
    /\ Typed(cells, m, n) /\ Apart(cells, m, n) /\ Homed(cells, n, h)
    /\ Once(cells, n) /\ Reached(cells, m, n, h) /\ Holds(cells, n, K)

(* The cells of chain a, in use.                                           *)
ChainOf(cells, n, h, a) ==
    {c \in 0..(n - 1) : c = a \/ (cells[c].e \in Keys /\ h[cells[c].e] = a)}

(* The links of such a table go up.                                        *)
LEMMA GoodChained ==
  ASSUME NEW cells, NEW m, NEW n, NEW h, Typed(cells, m, n), Apart(cells, m, n), Homed(cells, n, h)
  PROVE  Chained(cells, m)
<1>1. m \in Nat /\ n \in Nat /\ n <= m /\ DOMAIN cells = 0..m
  BY DEF Typed, Siz
<1>2. ASSUME NEW c \in 0..m PROVE cells[c].nxt = 0 \/ cells[c].nxt \in (c + 1)..m
  <2>1. CASE c \in 0..(n - 1)
    <3> DEFINE x == cells[c].nxt
    <3>1. x # 0 => x \in Siz..(n - 1) /\ x > c
      BY <2>1 DEF Homed
    <3>2. Siz \in Nat /\ c \in Nat
      BY DEF Siz
    <3> HIDE DEF x
    <3>3. x = 0 \/ x \in (c + 1)..m
      BY <1>1, <3>1, <3>2
    <3> QED
      BY <3>3 DEF x
  <2>2. CASE c \in n..(m - 1)
    <3>1. cells[c].nxt = c + 1
      BY <2>2 DEF Apart
    <3> QED
      BY <1>1, <2>2, <3>1
  <2>3. CASE c = m
    BY <2>3 DEF Apart
  <2> QED
    BY <1>1, <2>1, <2>2, <2>3
<1> QED
  BY <1>1, <1>2 DEF Chained

(* A walk from a head stays among the cells in use of its chain, whether   *)
(* it looks at the cell m or not.                                          *)
LEMMA GoodVisited ==
  ASSUME NEW cells, NEW m, NEW n, NEW h, NEW a \in 0..HSiz,
         Typed(cells, m, n), Apart(cells, m, n), Homed(cells, n, h)
  PROVE  /\ VisitedFrom(cells, a, m) \subseteq ChainOf(cells, n, h, a)
         /\ VisitedFrom(cells, a, m - 1) = VisitedFrom(cells, a, m)
<1>1. /\ m \in Nat /\ n \in Nat /\ n <= m /\ a \in 0..(n - 1) /\ a \in 0..m
      /\ n >= 1 /\ m \in 0..m /\ m - 1 \in 0..m /\ DOMAIN cells = 0..m
  <2>1. m \in Nat /\ n \in (HSiz + 1)..m /\ DOMAIN cells = 0..m
    BY DEF Typed, Siz
  <2> QED
    BY <2>1
<1>2. Chained(cells, m)
  BY GoodChained
<1> DEFINE V(last) == VisitedFrom(cells, a, last)
<1>3. \A last \in {m - 1, m} :
        /\ a \in V(last) /\ V(last) \subseteq 0..m
        /\ \A c \in V(last) : cells[c].nxt \in 1..last => cells[c].nxt \in V(last)
        /\ \A S : /\ a \in S
                  /\ \A c \in S \intersect (0..m) : cells[c].nxt \in 1..last => cells[c].nxt \in S
                  => V(last) \subseteq S
  <2> TAKE last \in {m - 1, m}
  <2>1. last \in 0..m
    BY <1>1
  <2> QED
    BY <1>1, <1>2, <2>1, VisitedLeast
<1> HIDE DEF V
<1> DEFINE S == ChainOf(cells, n, h, a)
<1>4. ASSUME NEW c \in S, cells[c].nxt \in 1..m PROVE cells[c].nxt \in S
  <2>1. c \in 0..(n - 1) /\ cells[c].nxt # 0
    BY <1>4 DEF ChainOf
  <2>2. /\ cells[c].nxt \in Siz..(n - 1)
        /\ h[cells[cells[c].nxt].e] = h[cells[c].e]
    BY <2>1 DEF Homed
  <2>3. cells[cells[c].nxt].e \in Keys
    BY <2>2 DEF Homed
  <2>4. h[cells[c].e] = a
    <3>1. CASE c = a
      <4>1. /\ cells[a].e = None => cells[a].nxt = 0
            /\ cells[a].e # None => h[cells[a].e] = a
        BY DEF Homed
      <4> QED
        BY <2>1, <3>1, <4>1
    <3>2. CASE c # a
      BY <3>2 DEF ChainOf
    <3> QED
      BY <3>1, <3>2
  <2>5. cells[c].nxt \in 0..(n - 1)
    BY <1>1, <2>2 DEF Siz
  <2> QED
    BY <2>2, <2>3, <2>4, <2>5 DEF ChainOf
<1>5. a \in S
  BY <1>1 DEF ChainOf
<1> HIDE DEF S
<1>6. \A last \in {m - 1, m} : V(last) \subseteq S
  BY <1>1, <1>3, <1>4, <1>5
<1>7. \A c \in S : cells[c].nxt \in 1..m => cells[c].nxt \in 1..(m - 1)
  BY <1>1 DEF S, ChainOf, Homed, Siz
<1>8. V(m) \subseteq V(m - 1)
  BY <1>1, <1>3, <1>6, <1>7
<1>9. V(m - 1) \subseteq V(m)
  <2>1. \A c \in V(m) : cells[c].nxt \in 1..(m - 1) => cells[c].nxt \in V(m)
    BY <1>1, <1>3
  <2> QED
    BY <1>1, <1>3, <2>1
<1> QED
  BY <1>6, <1>8, <1>9 DEF V, S

(* The same links lead to the same cells, in a table that has more.        *)
LEMMA VisitedGrows ==
  ASSUME NEW cells, NEW m, Chained(cells, m), NEW d, NEW p, Chained(d, p), m <= p,
         NEW a \in 0..m, NEW last \in 0..m, NEW top \in 0..p,
         \A c \in VisitedFrom(cells, a, last) : cells[c].nxt \in 1..last =>
             d[c].nxt = cells[c].nxt /\ cells[c].nxt \in 1..top
  PROVE  VisitedFrom(cells, a, last) \subseteq VisitedFrom(d, a, top)
<1> DEFINE V == VisitedFrom(cells, a, last)
           W == VisitedFrom(d, a, top)
<1>1. m \in Nat /\ p \in Nat /\ a \in 0..p
  BY DEF Chained
<1>2. /\ a \in V
      /\ \A c \in V : cells[c].nxt \in 1..last => cells[c].nxt \in V
      /\ \A S : /\ a \in S
                /\ \A c \in S \intersect (0..m) : cells[c].nxt \in 1..last => cells[c].nxt \in S
                => V \subseteq S
  BY VisitedLeast
<1>3. /\ a \in W
      /\ \A c \in W : d[c].nxt \in 1..top => d[c].nxt \in W
  BY <1>1, VisitedLeast
<1> HIDE DEF V, W
<1> DEFINE S == V \intersect W
<1>4. ASSUME NEW c \in S, cells[c].nxt \in 1..last PROVE cells[c].nxt \in S
  <2>1. d[c].nxt = cells[c].nxt /\ cells[c].nxt \in 1..top
    BY <1>4 DEF V
  <2> QED
    BY <1>2, <1>3, <1>4, <2>1
<1>5. a \in S
  BY <1>2, <1>3
<1> HIDE DEF S
<1>6. V \subseteq S
  BY <1>2, <1>4, <1>5
<1> QED
  BY <1>6 DEF S, V, W

(* An edge that is listed is in the chain of its head.                     *)
LEMMA ListedInChain ==
  ASSUME NEW h \in [Keys -> 0..HSiz], NEW K, NEW cells, NEW m, NEW n, Good(cells, m, n, h, K),
         NEW c \in 0..(n - 1), cells[c].e # None
  PROVE  /\ cells[c].e \in Keys
         /\ c \in VisitedFrom(cells, h[cells[c].e], m)
         /\ cells[h[cells[c].e]].e # None
<1>1. Typed(cells, m, n) /\ Apart(cells, m, n) /\ Homed(cells, n, h) /\ Reached(cells, m, n, h)
  BY DEF Good
<1>2. m \in Nat /\ n \in (HSiz + 1)..m /\ c \in 0..m
  BY <1>1 DEF Typed, Siz
<1>3. cells[c].e \in Keys
  BY <1>1, <1>2 DEF Typed
<1> DEFINE a == h[cells[c].e]
<1>4. a \in 0..HSiz /\ a \in 0..m
  BY <1>2, <1>3
<1>5. c \in VisitedFrom(cells, a, m)
  BY <1>1 DEF Reached
<1>6. cells[a].e # None
  <2> SUFFICES ASSUME cells[a].e = None PROVE FALSE
    OBVIOUS
  <2>1. cells[a].nxt = 0
    BY <1>1, <1>4 DEF Homed
  <2>2. \A x \in {a} \intersect (0..m) : cells[x].nxt \in 1..m => cells[x].nxt \in {a}
    BY <2>1
  <2>3. Chained(cells, m) /\ m \in 0..m
    BY <1>1, <1>2, GoodChained
  <2>4. VisitedFrom(cells, a, m) \subseteq {a}
    <3> HIDE DEF a
    <3> QED
      BY <1>4, <2>2, <2>3, VisitedLeast
  <2> QED
    BY <1>5, <2>4
<1> QED
  BY <1>3, <1>5, <1>6

(* The first edge of a chain.                                              *)
LEMMA PutAtHead ==
  ASSUME NEW h \in [Keys -> 0..HSiz], NEW K \in SUBSET Nat, NEW cells, NEW m, NEW n,
         Good(cells, m, n, h, K),
         NEW e \in Keys, NEW v \in K, cells[h[e]].e = None
  PROVE  Good([cells EXCEPT ![h[e]] = Entry(e, v)], m, n, h, K)
<1> DEFINE a == h[e]
           d == [cells EXCEPT ![a] = Entry(e, v)]
<1>1. /\ Typed(cells, m, n) /\ Apart(cells, m, n) /\ Homed(cells, n, h)
      /\ Once(cells, n) /\ Reached(cells, m, n, h) /\ Holds(cells, n, K)
  BY DEF Good
<1>2. /\ m \in Nat /\ n \in (HSiz + 1)..m /\ DOMAIN cells = 0..m
      /\ a \in 0..HSiz /\ a \in 0..m /\ a \in 0..(n - 1) /\ a < n
  <2>1. m \in Nat /\ n \in (HSiz + 1)..m /\ DOMAIN cells = 0..m /\ a \in 0..HSiz
    BY <1>1 DEF Typed, Siz
  <2> HIDE DEF a
  <2> QED
    BY <2>1
<1>3. cells[a].nxt = 0 /\ cells[a].e = None
  BY <1>1, <1>2 DEF Homed
<1>4. e # None
  BY DEF None
<1>5. d[a] = Entry(e, v) /\ \A c \in 0..m : c # a => d[c] = cells[c]
  BY <1>2
<1>6. /\ d[a].e = e /\ d[a].k = v /\ d[a].nxt = 0
      /\ \A c \in 0..m : d[c].nxt = cells[c].nxt
  BY <1>3, <1>5 DEF Entry
<1>7. ASSUME NEW c \in 0..(n - 1) PROVE cells[c].e # e
  BY <1>3, <1>4, <1>7, ListedInChain
<1>8. Typed(d, m, n)
  <2>1. Entry(e, v) \in [e : Keys \union {None}, k : Nat, nxt : 0..m]
    <3>1. 0 \in 0..m /\ v \in Nat
      BY <1>2
    <3> QED
      BY <3>1 DEF Entry
  <2>2. d \in [0..m -> [e : Keys \union {None}, k : Nat, nxt : 0..m]]
    BY <1>1, <1>2, <2>1 DEF Typed
  <2> QED
    BY <1>1, <2>2 DEF Typed
<1> HIDE DEF d, a
<1>9. Apart(d, m, n)
  <2>1. d[m] = cells[m] /\ \A c \in n..(m - 1) : d[c] = cells[c]
    BY <1>2, <1>5
  <2> QED
    BY <1>1, <2>1 DEF Apart
<1>10. Homed(d, n, h)
  <2>1. ASSUME NEW c \in 0..HSiz PROVE /\ d[c].e = None => d[c].nxt = 0
                                       /\ d[c].e # None => h[d[c].e] = c
    <3>1. c \in 0..m
      BY <1>2
    <3> QED
      BY <1>1, <1>4, <1>5, <1>6, <3>1 DEF Homed, a
  <2>2. ASSUME NEW c \in Siz..(n - 1) PROVE d[c].e \in Keys
    <3>1. c \in 0..m /\ c # a
      BY <1>2 DEF Siz
    <3> QED
      BY <1>1, <1>5, <3>1 DEF Homed
  <2>3. ASSUME NEW c \in 0..(n - 1), d[c].nxt # 0
        PROVE  /\ d[c].nxt \in Siz..(n - 1) /\ d[c].nxt > c
               /\ h[d[d[c].nxt].e] = h[d[c].e]
    <3>1. c \in 0..m /\ d[c].nxt = cells[c].nxt /\ c # a /\ d[c] = cells[c]
      BY <1>2, <1>5, <1>6, <2>3
    <3>2. /\ cells[c].nxt \in Siz..(n - 1) /\ cells[c].nxt > c
          /\ h[cells[cells[c].nxt].e] = h[cells[c].e]
      BY <1>1, <2>3, <3>1 DEF Homed
    <3>3. cells[c].nxt \in 0..m /\ cells[c].nxt # a
      BY <1>2, <3>2 DEF Siz
    <3> QED
      BY <1>5, <3>1, <3>2, <3>3
  <2> QED
    BY <2>1, <2>2, <2>3 DEF Homed
<1>11. Once(d, n)
  <2>1. \A c \in 0..(n - 1) : c # a => d[c] = cells[c]
    BY <1>2, <1>5
  <2> QED
    BY <1>1, <1>6, <1>7, <2>1 DEF Once
<1>12. Reached(d, m, n, h)
  <2> SUFFICES ASSUME NEW c \in 0..(n - 1), d[c].e # None
               PROVE  c \in VisitedFrom(d, h[d[c].e], m)
    BY DEF Reached
  <2>1. Chained(cells, m) /\ Chained(d, m) /\ m \in 0..m /\ m <= m
    BY <1>1, <1>2, <1>8, <1>9, <1>10, GoodChained
  <2>2. CASE c = a
    <3>1. h[d[c].e] = a
      BY <1>6, <2>2 DEF a
    <3> QED
      BY <1>2, <2>1, <2>2, <3>1, VisitedLeast
  <2>3. CASE c # a
    <3>1. d[c].e = cells[c].e
      BY <1>2, <1>5, <2>3
    <3> DEFINE b == h[cells[c].e]
    <3>2. c \in VisitedFrom(cells, b, m) /\ b \in 0..m
      BY <1>2, <3>1, ListedInChain
    <3> HIDE DEF b
    <3>3. VisitedFrom(cells, b, m) \subseteq 0..m
      BY <2>1, <3>2, VisitedLeast
    <3>4. VisitedFrom(cells, b, m) \subseteq VisitedFrom(d, b, m)
      BY <1>6, <2>1, <3>2, <3>3, VisitedGrows
    <3> QED
      BY <3>1, <3>2, <3>4 DEF b
  <2> QED
    BY <2>2, <2>3
<1>13. Holds(d, n, K)
  <2>1. \A c \in 0..(n - 1) : c # a => d[c] = cells[c]
    BY <1>2, <1>5
  <2> QED
    BY <1>1, <1>6, <2>1 DEF Holds
<1>14. Good(d, m, n, h, K)
  BY <1>8, <1>9, <1>10, <1>11, <1>12, <1>13 DEF Good
<1> QED
  BY <1>14 DEF d, a

(* A cell of the chain of e, in use, is either in the chain of another     *)
(* edge with the same key, or its head.                                    *)
LEMMA InChainOf ==
  ASSUME NEW h \in [Keys -> 0..HSiz], NEW cells, NEW m, NEW n,
         Typed(cells, m, n), Apart(cells, m, n), Homed(cells, n, h),
         NEW a \in 0..HSiz, cells[a].e # None, NEW t \in VisitedFrom(cells, a, m)
  PROVE  t \in 0..(n - 1) /\ cells[t].e \in Keys /\ h[cells[t].e] = a
<1>1. m \in Nat /\ n \in (HSiz + 1)..m /\ a \in 0..m
  BY DEF Typed, Siz
<1>2. t \in ChainOf(cells, n, h, a)
  BY GoodVisited
<1>3. CASE t = a
  <2>1. cells[a].e \in Keys
    BY <1>1 DEF Typed
  <2>2. h[cells[a].e] = a
    BY DEF Homed
  <2> QED
    BY <1>1, <1>3, <2>1, <2>2
<1>4. CASE t # a
  BY <1>2, <1>4 DEF ChainOf
<1> QED
  BY <1>3, <1>4

(* An edge put in the first unused cell, at the end of its chain.          *)
LEMMA PutAtEnd ==
  ASSUME NEW h \in [Keys -> 0..HSiz], NEW K \in SUBSET Nat, NEW cells, NEW m, NEW n,
         Good(cells, m, n, h, K), n < m,
         NEW e \in Keys, NEW v \in K, cells[h[e]].e # None,
         \A c \in 0..(n - 1) : cells[c].e # e,
         NEW t \in VisitedFrom(cells, h[e], m), cells[t].nxt = 0
  PROVE  Good([cells EXCEPT ![t].nxt = n, ![n] = Entry(e, v)], m, n + 1, h, K)
<1> DEFINE a == h[e]
           d == [cells EXCEPT ![t].nxt = n, ![n] = Entry(e, v)]
<1>1. /\ Typed(cells, m, n) /\ Apart(cells, m, n) /\ Homed(cells, n, h)
      /\ Once(cells, n) /\ Reached(cells, m, n, h) /\ Holds(cells, n, K)
  BY DEF Good
<1>2. /\ m \in Nat /\ n \in (HSiz + 1)..m /\ n \in Nat /\ n \in 0..m /\ DOMAIN cells = 0..m
      /\ a \in 0..HSiz /\ a \in 0..m
  <2>1. m \in Nat /\ n \in (HSiz + 1)..m /\ DOMAIN cells = 0..m /\ a \in 0..HSiz
    BY <1>1 DEF Typed, Siz
  <2> HIDE DEF a
  <2> QED
    BY <2>1
<1>3. t \in 0..(n - 1) /\ cells[t].e \in Keys /\ h[cells[t].e] = a
  BY <1>1, <1>2, InChainOf
<1>4. e # None /\ t \in 0..m /\ t # n /\ t < n
  BY <1>2, <1>3 DEF None
<1>5. /\ d[n] = Entry(e, v)
      /\ d[t] = [cells[t] EXCEPT !.nxt = n]
      /\ \A c \in 0..m : c # t /\ c # n => d[c] = cells[c]
      /\ DOMAIN d = 0..m
  BY <1>2, <1>4
<1>6. /\ d[n].e = e /\ d[n].k = v /\ d[n].nxt = 0
      /\ d[t].e = cells[t].e /\ d[t].k = cells[t].k /\ d[t].nxt = n
      /\ \A c \in 0..m : c # n => d[c].e = cells[c].e /\ d[c].k = cells[c].k
      /\ \A c \in 0..m : c # n /\ c # t => d[c].nxt = cells[c].nxt
  <2>1. d[n].e = e /\ d[n].k = v /\ d[n].nxt = 0
    BY <1>5 DEF Entry
  <2>2. cells[t] \in [e : Keys \union {None}, k : Nat, nxt : 0..m]
    BY <1>1, <1>4 DEF Typed
  <2>3. d[t].e = cells[t].e /\ d[t].k = cells[t].k /\ d[t].nxt = n
    BY <1>5, <2>2
  <2> QED
    BY <1>5, <2>1, <2>3
<1>7. d \in [0..m -> [e : Keys \union {None}, k : Nat, nxt : 0..m]]
  <2>1. Entry(e, v) \in [e : Keys \union {None}, k : Nat, nxt : 0..m]
    <3>1. v \in Nat
      OBVIOUS
    <3>2. 0 \in 0..m
      BY <1>2
    <3> QED
      BY <3>1, <3>2 DEF Entry
  <2>2. cells \in [0..m -> [e : Keys \union {None}, k : Nat, nxt : 0..m]]
    BY <1>1 DEF Typed
  <2>3. [cells[t] EXCEPT !.nxt = n] \in [e : Keys \union {None}, k : Nat, nxt : 0..m]
    <3>1. cells[t] \in [e : Keys \union {None}, k : Nat, nxt : 0..m]
      BY <1>4, <2>2
    <3>2. n \in 0..m
      BY <1>2
    <3> QED
      BY <3>1, <3>2
  <2> QED
    BY <1>2, <1>4, <2>1, <2>2, <2>3
<1> HIDE DEF d, a
<1>8. Typed(d, m, n + 1)
  <2>1. n + 1 \in Siz..m
    BY <1>2 DEF Siz
  <2> QED
    BY <1>2, <1>7, <2>1 DEF Typed
<1>9. Apart(d, m, n + 1)
  <2>1. d[m] = cells[m] \/ m = n
    BY <1>2, <1>3, <1>5
  <2>2. \A c \in (n + 1)..(m - 1) : d[c] = cells[c] /\ c \in n..(m - 1)
    <3> TAKE c \in (n + 1)..(m - 1)
    <3>1. c \in 0..m /\ c # t /\ c # n /\ c \in n..(m - 1)
      BY <1>2, <1>4
    <3> QED
      BY <1>5, <3>1
  <2>3. d[m] = cells[m]
    BY <1>2, <2>1
  <2> QED
    BY <1>1, <2>2, <2>3 DEF Apart
<1>10. Homed(d, n + 1, h)
  <2>1. ASSUME NEW c \in 0..HSiz PROVE /\ d[c].e = None => d[c].nxt = 0
                                       /\ d[c].e # None => h[d[c].e] = c
    <3>1. c \in 0..m /\ c # n
      BY <1>2
    <3>2. d[c].e = cells[c].e
      BY <1>6, <3>1
    <3>3. cells[c].e = None => c # t
      BY <1>3 DEF None
    <3>4. /\ cells[c].e = None => cells[c].nxt = 0
          /\ cells[c].e # None => h[cells[c].e] = c
      BY <1>1 DEF Homed
    <3> QED
      BY <1>6, <3>1, <3>2, <3>3, <3>4
  <2>2. ASSUME NEW c \in Siz..n PROVE d[c].e \in Keys
    <3>1. CASE c = n
      BY <1>6, <3>1
    <3>2. CASE c # n
      <4>1. c \in Siz..(n - 1) /\ c \in 0..m
        BY <1>2, <3>2 DEF Siz
      <4> QED
        BY <1>1, <1>6, <3>2, <4>1 DEF Homed
    <3> QED
      BY <3>1, <3>2
  <2>3. ASSUME NEW c \in 0..n, d[c].nxt # 0
        PROVE  /\ d[c].nxt \in Siz..n /\ d[c].nxt > c
               /\ h[d[d[c].nxt].e] = h[d[c].e]
    <3>1. c \in 0..m /\ c # n
      BY <1>2, <1>6, <2>3
    <3>2. CASE c = t
      <4>1. d[c].nxt = n /\ n \in Siz..n
        BY <1>2, <1>6, <3>2 DEF Siz
      <4> QED
        BY <1>3, <1>4, <1>6, <3>2, <4>1 DEF a
    <3>3. CASE c # t
      <4>1. d[c].nxt = cells[c].nxt /\ d[c].e = cells[c].e /\ c \in 0..(n - 1)
        BY <1>2, <1>6, <3>1, <3>3
      <4>2. /\ cells[c].nxt \in Siz..(n - 1) /\ cells[c].nxt > c
            /\ h[cells[cells[c].nxt].e] = h[cells[c].e]
        BY <1>1, <2>3, <4>1 DEF Homed
      <4>3. cells[c].nxt \in Siz..n /\ cells[c].nxt \in 0..m /\ cells[c].nxt # n
        BY <1>2, <4>2 DEF Siz
      <4>4. d[cells[c].nxt].e = cells[cells[c].nxt].e
        BY <1>6, <4>3
      <4> QED
        BY <4>1, <4>2, <4>3, <4>4
    <3> QED
      BY <3>2, <3>3
  <2>4. (n + 1) - 1 = n
    BY <1>2
  <2> QED
    BY <2>1, <2>2, <2>3, <2>4 DEF Homed
<1>11. Once(d, n + 1)
  <2>1. \A c \in 0..((n + 1) - 1) : c # n => c \in 0..(n - 1) /\ d[c].e = cells[c].e
    BY <1>2, <1>6
  <2> QED
    BY <1>1, <1>6, <2>1 DEF Once
<1>12. Reached(d, m, n + 1, h)
  <2> SUFFICES ASSUME NEW c \in 0..n, d[c].e # None
               PROVE  c \in VisitedFrom(d, h[d[c].e], m)
    BY <1>2 DEF Reached
  <2>1. Chained(cells, m) /\ Chained(d, m) /\ m \in 0..m /\ m <= m
    BY <1>1, <1>2, <1>8, <1>9, <1>10, GoodChained
  <2>2. ASSUME NEW b \in 0..HSiz PROVE VisitedFrom(cells, b, m) \subseteq VisitedFrom(d, b, m)
    <3>1. b \in 0..m
      BY <1>2
    <3>2. ASSUME NEW x \in VisitedFrom(cells, b, m), cells[x].nxt \in 1..m
          PROVE  d[x].nxt = cells[x].nxt
      <4>1. x \in ChainOf(cells, n, h, b)
        BY <1>1, GoodVisited
      <4>2. x \in 0..m /\ x # n
        BY <1>2, <4>1 DEF ChainOf
      <4>3. x # t
        BY <3>2
      <4> QED
        BY <1>6, <4>2, <4>3
    <3> QED
      BY <2>1, <3>1, <3>2, VisitedGrows
  <2>3. CASE c = n
    <3>1. h[d[c].e] = a
      BY <1>6, <2>3 DEF a
    <3>2. t \in VisitedFrom(d, a, m)
      BY <1>2, <2>2 DEF a
    <3>3. d[t].nxt = c /\ c \in 1..m
      BY <1>2, <1>6, <2>3
    <3>4. c \in VisitedFrom(d, a, m)
      BY <1>2, <2>1, <3>2, <3>3, VisitedLeast
    <3> QED
      BY <3>1, <3>4
  <2>4. CASE c # n
    <3>1. c \in 0..(n - 1) /\ d[c].e = cells[c].e
      BY <1>2, <1>6, <2>4
    <3>2. c \in VisitedFrom(cells, h[cells[c].e], m) /\ h[cells[c].e] \in 0..HSiz
      BY <3>1, ListedInChain
    <3> QED
      BY <2>2, <3>1, <3>2
  <2> QED
    BY <2>3, <2>4
<1>13. Holds(d, n + 1, K)
  <2>1. \A c \in 0..((n + 1) - 1) :
           c # n => c \in 0..(n - 1) /\ d[c].e = cells[c].e /\ d[c].k = cells[c].k
    BY <1>2, <1>6
  <2> QED
    BY <1>1, <1>6, <2>1 DEF Holds
<1>14. Good(d, m, n + 1, h, K)
  BY <1>8, <1>9, <1>10, <1>11, <1>12, <1>13 DEF Good
<1> QED
  BY <1>14 DEF d

(* New cells, when the unused ones have run out.                           *)
LEMMA MoreCells ==
  ASSUME NEW h \in [Keys -> 0..HSiz], NEW K \in SUBSET Nat, NEW cells, NEW m,
         Good(cells, m, m, h, K), NEW g \in Nat \ {0}
  PROVE  Good(Link(Extended(cells, m, g), m, m + g - 1), m + g, m, h, K)
<1> DEFINE d == Link(Extended(cells, m, g), m, m + g - 1)
           p == m + g
<1>1. /\ Typed(cells, m, m) /\ Apart(cells, m, m) /\ Homed(cells, m, h)
      /\ Once(cells, m) /\ Reached(cells, m, m, h) /\ Holds(cells, m, K)
  BY DEF Good
<1>2. /\ m \in Nat /\ m \in (HSiz + 1)..m /\ DOMAIN cells = 0..m
      /\ p \in Nat /\ m < p /\ m \in 0..p /\ p - 1 \in m..p
  BY <1>1 DEF Typed, Siz
<1>3. /\ DOMAIN d = 0..p
      /\ \A c \in 0..(m - 1) : d[c] = cells[c]
      /\ \A c \in m..(p - 1) : d[c] = [e |-> None, k |-> 0, nxt |-> c + 1]
      /\ d[p] = [e |-> None, k |-> 0, nxt |-> 0]
  <2> DEFINE x == Extended(cells, m, g)
             B == [e |-> None, k |-> 0, nxt |-> 0]
  <2>1. DOMAIN x = 0..p /\ (\A c \in 0..m : x[c] = cells[c]) /\ (\A c \in (m + 1)..p : x[c] = B)
    BY <1>2 DEF Extended, Blank
  <2>2. cells[m] = B
    <3>1. cells[m] \in [e : Keys \union {None}, k : Nat, nxt : 0..m]
      BY <1>1, <1>2 DEF Typed
    <3>2. cells[m].e = None /\ cells[m].k = 0 /\ cells[m].nxt = 0
      BY <1>1 DEF Apart
    <3> QED
      BY <3>1, <3>2
  <2>3. \A c \in m..p : x[c] = B
    BY <1>2, <2>1, <2>2
  <2> HIDE DEF x
  <2>4. DOMAIN d = 0..p
    BY <2>1 DEF Link, x
  <2>5. \A c \in 0..p : d[c] = IF m <= c /\ c <= m + g - 1 THEN [x[c] EXCEPT !.nxt = c + 1] ELSE x[c]
    BY <2>1 DEF Link, x
  <2>9. m + g - 1 = p - 1
    BY <1>2
  <2> HIDE DEF d, p
  <2>6. ASSUME NEW c \in 0..(m - 1) PROVE d[c] = cells[c]
    <3>1. c \in 0..p /\ c \in 0..m /\ ~(m <= c)
      BY <1>2
    <3> QED
      BY <2>1, <2>5, <3>1
  <2>7. ASSUME NEW c \in m..(p - 1) PROVE d[c] = [e |-> None, k |-> 0, nxt |-> c + 1]
    <3>1. c \in 0..p /\ c \in m..p /\ m <= c /\ c <= m + g - 1
      BY <1>2, <2>9
    <3>2. d[c] = [x[c] EXCEPT !.nxt = c + 1] /\ x[c] = B
      BY <2>3, <2>5, <3>1
    <3> QED
      BY <3>2
  <2>8. d[p] = B
    <3>1. p \in 0..p /\ p \in m..p /\ ~(p <= m + g - 1)
      BY <1>2, <2>9
    <3> QED
      BY <2>3, <2>5, <3>1
  <2> QED
    BY <2>4, <2>6, <2>7, <2>8
<1> HIDE DEF d, p
<1>4. Typed(d, p, m)
  <2>1. ASSUME NEW c \in 0..p PROVE d[c] \in [e : Keys \union {None}, k : Nat, nxt : 0..p]
    <3>1. CASE c \in 0..(m - 1)
      <4>1. d[c] \in [e : Keys \union {None}, k : Nat, nxt : 0..m]
        BY <1>1, <1>2, <1>3, <3>1 DEF Typed
      <4>2. 0..m \subseteq 0..p
        BY <1>2
      <4> QED
        BY <4>1, <4>2
    <3>2. CASE c \in m..(p - 1)
      <4>1. c + 1 \in 0..p
        BY <1>2, <3>2
      <4>2. d[c] = [e |-> None, k |-> 0, nxt |-> c + 1]
        BY <1>3, <3>2
      <4> QED
        BY <4>1, <4>2
    <3>3. CASE c = p
      <4>1. 0 \in 0..p
        BY <1>2
      <4> QED
        BY <1>3, <3>3, <4>1
    <3> QED
      BY <1>2, <3>1, <3>2, <3>3
  <2>2. d = [c \in 0..p |-> d[c]]
    <3>1. d \in [DOMAIN d -> {d[c] : c \in DOMAIN d}]
      BY DEF d, Link
    <3> QED
      BY <1>3, <3>1
  <2>3. m \in Siz..p
    BY <1>2 DEF Siz
  <2> QED
    BY <1>2, <2>1, <2>2, <2>3 DEF Typed
<1>5. Apart(d, p, m)
  <2>1. ASSUME NEW c \in m..(p - 1) PROVE d[c].e = None /\ d[c].k = 0 /\ d[c].nxt = c + 1
    <3>1. d[c] = [e |-> None, k |-> 0, nxt |-> c + 1]
      BY <1>3
    <3> QED
      BY <3>1
  <2>2. d[p].e = None /\ d[p].k = 0 /\ d[p].nxt = 0
    BY <1>3
  <2> QED
    BY <2>1, <2>2 DEF Apart
<1>6. Homed(d, m, h)
  <2>1. \A c \in 0..HSiz : d[c] = cells[c]
    BY <1>2, <1>3
  <2>2. \A c \in Siz..(m - 1) : d[c] = cells[c]
    BY <1>2, <1>3 DEF Siz
  <2> QED
    BY <1>1, <1>3, <2>1, <2>2 DEF Homed
<1>7. Once(d, m)
  BY <1>1, <1>3 DEF Once
<1>8. Reached(d, p, m, h)
  <2> SUFFICES ASSUME NEW c \in 0..(m - 1), d[c].e # None
               PROVE  c \in VisitedFrom(d, h[d[c].e], p)
    BY DEF Reached
  <2>1. Chained(cells, m) /\ Chained(d, p)
    BY <1>1, <1>4, <1>5, <1>6, GoodChained
  <2> DEFINE b == h[d[c].e]
  <2>2. c \in VisitedFrom(cells, b, m) /\ b \in 0..HSiz
    BY <1>3, ListedInChain
  <2> HIDE DEF b
  <2>3. \A x \in VisitedFrom(cells, b, m) : x \in 0..(m - 1)
    BY <1>1, <2>2, GoodVisited DEF ChainOf
  <2>4. b \in 0..m /\ m \in 0..m /\ p \in 0..p /\ m <= p /\ 1..m \subseteq 1..p
    BY <1>2, <2>2
  <2>5. \A x \in VisitedFrom(cells, b, m) : cells[x].nxt \in 1..m =>
             d[x].nxt = cells[x].nxt /\ cells[x].nxt \in 1..p
    BY <1>3, <2>3, <2>4
  <2>6. VisitedFrom(cells, b, m) \subseteq VisitedFrom(d, b, p)
    BY <2>1, <2>4, <2>5, VisitedGrows
  <2> QED
    BY <2>2, <2>6 DEF b
<1>9. Holds(d, m, K)
  BY <1>1, <1>3 DEF Holds
<1>10. Good(d, p, m, h, K)
  BY <1>4, <1>5, <1>6, <1>7, <1>8, <1>9 DEF Good
<1> QED
  BY <1>10 DEF d, p

(* Another value for an edge that is listed.                               *)
LEMMA PutValue ==
  ASSUME NEW h \in [Keys -> 0..HSiz], NEW K \in SUBSET Nat, NEW cells, NEW m, NEW n,
         Good(cells, m, n, h, K), NEW t \in 0..(n - 1), NEW v \in K
  PROVE  Good([cells EXCEPT ![t].k = v], m, n, h, K)
<1> DEFINE d == [cells EXCEPT ![t].k = v]
<1>1. /\ Typed(cells, m, n) /\ Apart(cells, m, n) /\ Homed(cells, n, h)
      /\ Once(cells, n) /\ Reached(cells, m, n, h) /\ Holds(cells, n, K)
  BY DEF Good
<1>2. /\ m \in Nat /\ n \in (HSiz + 1)..m /\ n \in Nat /\ DOMAIN cells = 0..m
      /\ t \in 0..m /\ v \in Nat
  BY <1>1 DEF Typed, Siz
<1>3. /\ d[t] = [cells[t] EXCEPT !.k = v]
      /\ \A c \in 0..m : c # t => d[c] = cells[c]
  BY <1>2
<1>4. cells[t] \in [e : Keys \union {None}, k : Nat, nxt : 0..m]
  BY <1>1, <1>2 DEF Typed
<1>5. d[t].e = cells[t].e /\ d[t].nxt = cells[t].nxt /\ d[t].k = v
  BY <1>3, <1>4
<1>6. \A c \in 0..m : d[c].e = cells[c].e /\ d[c].nxt = cells[c].nxt
  BY <1>3, <1>5
<1>7. d \in [0..m -> [e : Keys \union {None}, k : Nat, nxt : 0..m]]
  <2>1. [cells[t] EXCEPT !.k = v] \in [e : Keys \union {None}, k : Nat, nxt : 0..m]
    BY <1>2, <1>4
  <2> QED
    BY <1>1, <1>2, <2>1 DEF Typed
<1> HIDE DEF d
<1>8. Typed(d, m, n)
  BY <1>1, <1>7 DEF Typed
<1>9. Apart(d, m, n)
  <2>1. d[m] = cells[m] /\ \A c \in n..(m - 1) : d[c] = cells[c]
    BY <1>2, <1>3
  <2> QED
    BY <1>1, <2>1 DEF Apart
<1>10. Homed(d, n, h)
  <2>1. 0..HSiz \subseteq 0..m /\ Siz..(n - 1) \subseteq 0..m /\ 0..(n - 1) \subseteq 0..m
    BY <1>2 DEF Siz
  <2>2. \A c \in 0..HSiz : /\ d[c].e = None => d[c].nxt = 0
                           /\ d[c].e # None => h[d[c].e] = c
    BY <1>1, <1>6, <2>1 DEF Homed
  <2>3. \A c \in Siz..(n - 1) : d[c].e \in Keys
    BY <1>1, <1>6, <2>1 DEF Homed
  <2>4. ASSUME NEW c \in 0..(n - 1), d[c].nxt # 0
        PROVE  /\ d[c].nxt \in Siz..(n - 1) /\ d[c].nxt > c
               /\ h[d[d[c].nxt].e] = h[d[c].e]
    <3>1. d[c].nxt = cells[c].nxt /\ d[c].e = cells[c].e
      BY <1>6, <2>1
    <3>2. /\ cells[c].nxt \in Siz..(n - 1) /\ cells[c].nxt > c
          /\ h[cells[cells[c].nxt].e] = h[cells[c].e]
      BY <1>1, <2>4, <3>1 DEF Homed
    <3>3. d[cells[c].nxt].e = cells[cells[c].nxt].e
      BY <1>6, <2>1, <3>2
    <3> QED
      BY <3>1, <3>2, <3>3
  <2> QED
    BY <2>2, <2>3, <2>4 DEF Homed
<1>11. Once(d, n)
  <2>1. \A c \in 0..(n - 1) : d[c].e = cells[c].e
    BY <1>2, <1>6
  <2> QED
    BY <1>1, <2>1 DEF Once
<1>12. Reached(d, m, n, h)
  <2> SUFFICES ASSUME NEW c \in 0..(n - 1), d[c].e # None
               PROVE  c \in VisitedFrom(d, h[d[c].e], m)
    BY DEF Reached
  <2>1. Chained(cells, m) /\ Chained(d, m) /\ m \in 0..m /\ m <= m
    BY <1>1, <1>2, <1>8, <1>9, <1>10, GoodChained
  <2> DEFINE b == h[d[c].e]
  <2>2. c \in VisitedFrom(cells, b, m) /\ b \in 0..HSiz
    BY <1>2, <1>6, ListedInChain
  <2> HIDE DEF b
  <2>3. b \in 0..m
    BY <1>2, <2>2
  <2>4. VisitedFrom(cells, b, m) \subseteq 0..m
    BY <2>1, <2>3, VisitedLeast
  <2>5. VisitedFrom(cells, b, m) \subseteq VisitedFrom(d, b, m)
    BY <1>6, <2>1, <2>3, <2>4, VisitedGrows
  <2> QED
    BY <2>2, <2>5 DEF b
<1>13. Holds(d, n, K)
  <2>1. \A c \in 0..(n - 1) : c # t => d[c] = cells[c]
    BY <1>2, <1>3
  <2> QED
    BY <1>1, <1>5, <2>1 DEF Holds
<1>14. Good(d, m, n, h, K)
  BY <1>8, <1>9, <1>10, <1>11, <1>12, <1>13 DEF Good
<1> QED
  BY <1>14 DEF d

(* A table of which the chain a runs into the last unused cell.            *)
Torn(cells, d, m, a) ==
    /\ d \in [0..m -> [e : Keys \union {None}, k : Nat, nxt : 0..m]]
    /\ Chained(d, m)
    /\ \A c \in 0..m : d[c].e = cells[c].e /\ d[c].k = cells[c].k
    /\ \A b \in 0..HSiz : /\ VisitedFrom(cells, b, m) \subseteq VisitedFrom(d, b, m)
                          /\ VisitedFrom(d, b, m) \subseteq VisitedFrom(cells, b, m) \union
                                                            {c \in {m - 1, m} : a = b}

(* The link that MMG5_hashEdge has made when it cannot enlarge the table:  *)
(* the chain runs into the unused cell, the others are what they were.     *)
LEMMA TornChain ==
  ASSUME NEW h \in [Keys -> 0..HSiz], NEW K, NEW cells, NEW m,
         Good(cells, m, m - 1, h, K),
         NEW a \in 0..HSiz, cells[a].e # None,
         NEW t \in VisitedFrom(cells, a, m), cells[t].nxt = 0
  PROVE  Torn(cells, [cells EXCEPT ![t].nxt = m - 1], m, a)
<1>0. SUFFICES ASSUME NEW d, d = [cells EXCEPT ![t].nxt = m - 1]
               PROVE  Torn(cells, d, m, a)
  OBVIOUS
<1>1. /\ Typed(cells, m, m - 1) /\ Apart(cells, m, m - 1) /\ Homed(cells, m - 1, h)
  BY DEF Good
<1>2. /\ m \in Nat /\ m - 1 \in (HSiz + 1)..m /\ m - 1 \in Nat /\ m - 1 \in 0..m /\ m \in 0..m
      /\ DOMAIN cells = 0..m /\ a \in 0..m
  BY <1>1 DEF Typed, Siz
<1>3. t \in 0..((m - 1) - 1) /\ cells[t].e \in Keys /\ h[cells[t].e] = a
  BY <1>1, InChainOf
<1>4. t \in 0..m /\ t # m - 1 /\ t # m /\ m - 1 \in (t + 1)..m
  BY <1>2, <1>3
<1>5. cells[t] \in [e : Keys \union {None}, k : Nat, nxt : 0..m]
  BY <1>1, <1>4 DEF Typed
<1>6. /\ d[t] = [cells[t] EXCEPT !.nxt = m - 1]
      /\ \A c \in 0..m : c # t => d[c] = cells[c]
      /\ DOMAIN d = 0..m
  BY <1>0, <1>2, <1>4
<1>7. d[t].e = cells[t].e /\ d[t].k = cells[t].k /\ d[t].nxt = m - 1
  BY <1>5, <1>6
<1>8. d \in [0..m -> [e : Keys \union {None}, k : Nat, nxt : 0..m]]
  <2>1. [cells[t] EXCEPT !.nxt = m - 1] \in [e : Keys \union {None}, k : Nat, nxt : 0..m]
    <3>1. m - 1 \in 0..m
      BY <1>2
    <3> QED
      BY <1>5, <3>1
  <2>2. cells \in [0..m -> [e : Keys \union {None}, k : Nat, nxt : 0..m]]
    BY <1>1 DEF Typed
  <2> QED
    BY <1>0, <1>4, <2>1, <2>2
<1>9. \A c \in 0..m : d[c].e = cells[c].e /\ d[c].k = cells[c].k
  BY <1>6, <1>7
<1>10. Chained(cells, m)
  BY <1>1, GoodChained
<1>11. Chained(d, m)
  <2>1. \A c \in 0..m : cells[c].nxt = 0 \/ cells[c].nxt \in (c + 1)..m
    BY <1>10 DEF Chained
  <2>2. \A c \in 0..m : d[c].nxt = 0 \/ d[c].nxt \in (c + 1)..m
    BY <1>4, <1>6, <1>7, <2>1
  <2> QED
    BY <1>2, <1>6, <2>2 DEF Chained
<1>12. ASSUME NEW b \in 0..HSiz
       PROVE  /\ VisitedFrom(cells, b, m) \subseteq VisitedFrom(d, b, m)
              /\ VisitedFrom(d, b, m) \subseteq VisitedFrom(cells, b, m) \union
                                                {c \in {m - 1, m} : a = b}
  <2> DEFINE V == VisitedFrom(cells, b, m)
             S == V \union {c \in {m - 1, m} : a = b}
  <2>1. b \in 0..m
    BY <1>2
  <2>2. /\ b \in V /\ V \subseteq 0..m
        /\ \A c \in V : cells[c].nxt \in 1..m => cells[c].nxt \in V
    BY <1>2, <1>10, <2>1, VisitedLeast
  <2>3. V \subseteq VisitedFrom(d, b, m)
    <3>1. \A c \in V : cells[c].nxt \in 1..m => d[c].nxt = cells[c].nxt /\ cells[c].nxt \in 1..m
      <4>1. \A c \in V : c \in 0..m /\ (c = t => cells[c].nxt = 0)
        BY <2>2
      <4> HIDE DEF V
      <4> QED
        BY <1>6, <4>1
    <3>2. m <= m
      BY <1>2
    <3>3. m \in 0..m
      BY <1>2
    <3> HIDE DEF V
    <3>4. \A c \in VisitedFrom(cells, b, m) :
              cells[c].nxt \in 1..m => d[c].nxt = cells[c].nxt /\ cells[c].nxt \in 1..m
      BY <3>1 DEF V
    <3>5. VisitedFrom(cells, b, m) \subseteq VisitedFrom(d, b, m)
      BY <1>10, <1>11, <2>1, <3>2, <3>3, <3>4, VisitedGrows
    <3> QED
      BY <3>5 DEF V
  <2>4. t \in V => a = b
    <3> SUFFICES ASSUME t \in V PROVE a = b
      OBVIOUS
    <3>1. t \in ChainOf(cells, m - 1, h, b)
      BY <1>1, GoodVisited
    <3>2. CASE t = b
      <4>1. cells[b].e # None
        BY <1>3, <3>2 DEF None
      <4>2. h[cells[b].e] = b
        BY <1>1, <4>1 DEF Homed
      <4> QED
        BY <1>3, <3>2, <4>2
    <3>3. CASE t # b
      BY <1>3, <3>1, <3>3 DEF ChainOf
    <3> QED
      BY <3>2, <3>3
  <2> HIDE DEF V
  <2>5. ASSUME NEW c \in S, d[c].nxt \in 1..m PROVE d[c].nxt \in S
    <3>1. CASE c = t
      <4>1. c \in V
        BY <1>4, <3>1
      <4> QED
        BY <1>7, <2>4, <3>1, <4>1
    <3>2. CASE c # t /\ c \in V
      BY <1>6, <2>2, <2>5, <3>2
    <3>3. CASE c # t /\ c \notin V
      <4>1. c \in {m - 1, m} /\ a = b
        BY <3>3
      <4>2. c = m - 1 => d[c].nxt = m
        <5>1. cells[m - 1].nxt = (m - 1) + 1
          BY <1>1, <1>2 DEF Apart
        <5> QED
          BY <1>2, <1>4, <1>6, <5>1
      <4>3. c = m => d[c].nxt = 0
        <5>1. cells[m].nxt = 0
          BY <1>1 DEF Apart
        <5> QED
          BY <1>2, <1>4, <1>6, <5>1
      <4> QED
        BY <2>5, <4>1, <4>2, <4>3
    <3> QED
      BY <3>1, <3>2, <3>3
  <2>6. b \in S
    BY <2>2
  <2> HIDE DEF S
  <2>7. VisitedFrom(d, b, m) \subseteq S
    <3>1. m \in 0..m
      BY <1>2
    <3> QED
      BY <1>11, <2>1, <2>5, <2>6, <3>1, VisitedInside
  <2> QED
    BY <2>3, <2>7 DEF S, V
<1> QED
  BY <1>8, <1>9, <1>11, <1>12 DEF Torn

-------------------------------------------------------------------------------
(* The map a table stands for.                                             *)
Listing(cells, n) == {cells[c].e : c \in 0..(n - 1)} \ {None}
MapOf(cells, n) ==
    [e \in Listing(cells, n) |-> cells[CHOOSE c \in 0..(n - 1) : cells[c].e = e].k]

(* When no edge is listed twice, the map has the value of the cell that    *)
(* holds the edge.                                                         *)
LEMMA MapOfFacts ==
  ASSUME NEW cells, NEW n, Once(cells, n)
  PROVE  /\ DOMAIN MapOf(cells, n) = Listing(cells, n)
         /\ \A c \in 0..(n - 1) : cells[c].e # None => MapOf(cells, n)[cells[c].e] = cells[c].k
<1>1. DOMAIN MapOf(cells, n) = Listing(cells, n)
  BY DEF MapOf
<1>2. ASSUME NEW c \in 0..(n - 1), cells[c].e # None
      PROVE  MapOf(cells, n)[cells[c].e] = cells[c].k
  <2> DEFINE e == cells[c].e
             t == CHOOSE x \in 0..(n - 1) : cells[x].e = e
  <2>1. t \in 0..(n - 1) /\ cells[t].e = e
    OBVIOUS
  <2> HIDE DEF t
  <2>2. t = c
    BY <1>2, <2>1 DEF Once
  <2>3. e \in Listing(cells, n)
    BY <1>2 DEF Listing
  <2>4. MapOf(cells, n)[e] = cells[t].k
    BY <2>3 DEF MapOf, t
  <2> QED
    BY <2>2, <2>4
<1> QED
  BY <1>1, <1>2

(* One edge stored, the others as they were.                               *)
Put(f, e, v) == [x \in (DOMAIN f) \union {e} |-> IF x = e THEN v ELSE f[x]]

(* A cell below n holds the edge e and the value v.                        *)
Written(cells, n, e, v) == \E t \in 0..(n - 1) : cells[t].e = e /\ cells[t].k = v

(* The cells of the other edges are the same in two tables.                *)
Others(cells, n, d, p, e) ==
    /\ \A c \in 0..(n - 1) : cells[c].e # e /\ cells[c].e # None =>
          c \in 0..(p - 1) /\ d[c].e = cells[c].e /\ d[c].k = cells[c].k
    /\ \A c \in 0..(p - 1) : d[c].e # e /\ d[c].e # None =>
          c \in 0..(n - 1) /\ cells[c].e = d[c].e

(* Two tables that differ in the cell of the edge e alone stand for maps   *)
(* that differ at e alone.                                                 *)
LEMMA MapStore ==
  ASSUME NEW cells, NEW n, Once(cells, n), NEW d, NEW p, Once(d, p),
         NEW e \in Keys, NEW v, Written(d, p, e, v), Others(cells, n, d, p, e)
  PROVE  MapOf(d, p) = Put(MapOf(cells, n), e, v)
<1>1. PICK t \in 0..(p - 1) : d[t].e = e /\ d[t].k = v
  BY DEF Written
<1>2. /\ \A c \in 0..(n - 1) : cells[c].e # e /\ cells[c].e # None =>
             c \in 0..(p - 1) /\ d[c].e = cells[c].e /\ d[c].k = cells[c].k
      /\ \A c \in 0..(p - 1) : d[c].e # e /\ d[c].e # None =>
             c \in 0..(n - 1) /\ cells[c].e = d[c].e
  BY DEF Others
<1> DEFINE X == MapOf(cells, n)
           Y == MapOf(d, p)
<1>3. e # None
  BY DEF None
<1>4. /\ DOMAIN X = Listing(cells, n) /\ DOMAIN Y = Listing(d, p)
      /\ \A c \in 0..(n - 1) : cells[c].e # None => X[cells[c].e] = cells[c].k
      /\ \A c \in 0..(p - 1) : d[c].e # None => Y[d[c].e] = d[c].k
      /\ Y = [f \in DOMAIN Y |-> Y[f]]
  <2>1. Y = [f \in DOMAIN Y |-> Y[f]]
    BY DEF MapOf
  <2> QED
    BY <2>1, MapOfFacts
<1> HIDE DEF X, Y
<1>5. Listing(d, p) = Listing(cells, n) \union {e}
  <2>1. ASSUME NEW f \in Listing(d, p) PROVE f \in Listing(cells, n) \union {e}
    <3>1. PICK c \in 0..(p - 1) : d[c].e = f /\ f # None
      BY DEF Listing
    <3> QED
      BY <1>2, <3>1 DEF Listing
  <2>2. ASSUME NEW f \in Listing(cells, n), f # e PROVE f \in Listing(d, p)
    <3>1. PICK c \in 0..(n - 1) : cells[c].e = f /\ f # None
      BY DEF Listing
    <3>2. c \in 0..(p - 1) /\ d[c].e = f
      BY <1>2, <2>2, <3>1
    <3> QED
      BY <3>1, <3>2 DEF Listing
  <2>3. e \in Listing(d, p)
    BY <1>1, <1>3 DEF Listing
  <2> QED
    BY <2>1, <2>2, <2>3
<1>6. ASSUME NEW f \in Listing(d, p) PROVE Y[f] = IF f = e THEN v ELSE X[f]
  <2>1. CASE f = e
    BY <1>1, <1>3, <1>4, <2>1
  <2>2. CASE f # e
    <3>1. PICK c \in 0..(p - 1) : d[c].e = f /\ f # None
      BY DEF Listing
    <3>2. c \in 0..(n - 1) /\ cells[c].e = f
      BY <1>2, <2>2, <3>1
    <3>3. d[c].k = cells[c].k
      BY <1>2, <2>2, <3>1, <3>2
    <3> QED
      BY <1>4, <2>2, <3>1, <3>2, <3>3
  <2> QED
    BY <2>1, <2>2
<1>7. Y = Put(X, e, v)
  <2>1. Y = [f \in (DOMAIN X) \union {e} |-> IF f = e THEN v ELSE X[f]]
    BY <1>4, <1>5, <1>6
  <2> QED
    BY <2>1 DEF Put
<1> QED
  BY <1>7 DEF X, Y

(* Nothing stored.                                                         *)
LEMMA MapSame ==
  ASSUME NEW cells, NEW n, NEW d, \A c \in 0..(n - 1) : d[c] = cells[c]
  PROVE  MapOf(d, n) = MapOf(cells, n)
<1> DEFINE F(e) == d[CHOOSE c \in 0..(n - 1) : d[c].e = e].k
           G(e) == cells[CHOOSE c \in 0..(n - 1) : cells[c].e = e].k
<1>1. Listing(d, n) = Listing(cells, n)
  BY DEF Listing
<1>2. ASSUME NEW e \in Listing(cells, n)
      PROVE  F(e) = G(e)
  <2>1. (CHOOSE c \in 0..(n - 1) : d[c].e = e) = (CHOOSE c \in 0..(n - 1) : cells[c].e = e)
    <3>1. \A c \in 0..(n - 1) : (d[c].e = e) = (cells[c].e = e)
      OBVIOUS
    <3> QED
      BY <3>1
  <2>2. (CHOOSE c \in 0..(n - 1) : cells[c].e = e) \in 0..(n - 1)
    BY DEF Listing
  <2> QED
    BY <2>1, <2>2
<1>3. MapOf(d, n) = [e \in Listing(d, n) |-> F(e)] /\ MapOf(cells, n) = [e \in Listing(cells, n) |-> G(e)]
  BY DEF MapOf
<1> HIDE DEF F, G
<1> QED
  BY <1>1, <1>2, <1>3

-------------------------------------------------------------------------------
(* The inductive invariant.  Between two calls the table is Good; a call   *)
(* of MMG5_hashEdge that fails leaves a chain that runs into the unused    *)
(* cells, of which only the type and the end of the chains are kept.       *)
Allowed == CASE kind = "edge" -> Values \union {0}
             [] kind = "face" -> Values
             [] kind = "tag"  -> Tags

Ready == /\ Good(item, max, nxt, key, Allowed)
         /\ nxt < max

IndInv == /\ TypeOK
          /\ ChainsApart
          /\ ~stopped => Ready

(* What is stored is a natural number.                                     *)
LEMMA AllowedNat == kind \in {"edge", "face", "tag"} => Allowed \in SUBSET Nat
BY DEF Allowed

(* The chains of a Good table end, and share no cell.                      *)
LEMMA GoodApart ==
  key \in [Keys -> 0..HSiz] /\ Good(item, max, nxt, key, Allowed) => ChainsApart
<1> SUFFICES ASSUME key \in [Keys -> 0..HSiz], Good(item, max, nxt, key, Allowed)
             PROVE  ChainsApart
  OBVIOUS
<1>1. /\ Typed(item, max, nxt) /\ Apart(item, max, nxt) /\ Homed(item, nxt, key)
      /\ Chained(item, max)
  BY GoodChained DEF Good
<1>2. max \in Nat /\ nxt \in (HSiz + 1)..max
  BY <1>1 DEF Typed, Siz
<1>3. ASSUME NEW e \in Keys PROVE ~Endless(e, max)
  <2>1. key[e] \in 0..max /\ max \in 0..max
    BY <1>2
  <2>2. LinkOf(item, Walk(item, key[e], max)[max], max) = -1
    BY <1>1, <2>1, VisitedLeast
  <2> QED
    BY <2>2 DEF Endless
<1>4. ASSUME NEW e \in Keys, NEW f \in Keys, key[e] # key[f],
             NEW c \in Visited(e, max), c \in Visited(f, max)
      PROVE  FALSE
  <2>1. c \in ChainOf(item, nxt, key, key[e]) /\ c \in ChainOf(item, nxt, key, key[f])
    BY <1>1, <1>4, GoodVisited DEF Visited
  <2>2. c \in 0..HSiz /\ item[c].e \in Keys => key[item[c].e] = c
    BY <1>1 DEF Homed, None
  <2> QED
    BY <1>4, <2>1, <2>2 DEF ChainOf
<1> QED
  BY <1>3, <1>4 DEF ChainsApart

(* What a walk along the chain of an edge finds.                           *)
LEMMA Finds ==
  ASSUME key \in [Keys -> 0..HSiz], NEW K, Good(item, max, nxt, key, K), NEW e \in Keys
  PROVE  /\ Known(e) = {c \in 0..(nxt - 1) : item[c].e = e}
         /\ Held(e) = Known(e)
         /\ HeadFree(e) => Known(e) = {}
<1>1. /\ Typed(item, max, nxt) /\ Apart(item, max, nxt) /\ Homed(item, nxt, key)
  BY DEF Good
<1>2. VisitedFrom(item, key[e], max - 1) = VisitedFrom(item, key[e], max)
  BY <1>1, GoodVisited
<1>3. VisitedFrom(item, key[e], max) \subseteq 0..(nxt - 1)
  BY <1>1, GoodVisited DEF ChainOf
<1>4. ASSUME NEW c \in 0..(nxt - 1), item[c].e = e
      PROVE  c \in VisitedFrom(item, key[e], max) /\ ~HeadFree(e)
  <2>1. item[c].e # None
    BY <1>4 DEF None
  <2> QED
    BY <1>4, <2>1, ListedInChain DEF HeadFree
<1> QED
  BY <1>2, <1>3, <1>4 DEF Known, Held, Visited

(* The end of a chain, where the next edge is linked.                      *)
LEMMA EndOfChain ==
  ASSUME key \in [Keys -> 0..HSiz], NEW K, Good(item, max, nxt, key, K),
         NEW e \in Keys, ~HeadFree(e)
  PROVE  LastOf(e) \in VisitedFrom(item, key[e], max) /\ item[LastOf(e)].nxt = 0
<1>1. /\ Typed(item, max, nxt) /\ Apart(item, max, nxt) /\ Homed(item, nxt, key)
      /\ Chained(item, max)
  BY GoodChained DEF Good
<1>2. max \in Nat /\ nxt \in (HSiz + 1)..max
  BY <1>1 DEF Typed, Siz
<1>3. key[e] \in 0..max /\ max - 1 \in 0..max
  BY <1>2
<1>4. \E c \in VisitedFrom(item, key[e], max - 1) : item[c].nxt \notin 1..(max - 1)
  BY <1>1, <1>3, ChainEnd
<1>5. LastOf(e) \in VisitedFrom(item, key[e], max - 1) /\ item[LastOf(e)].nxt \notin 1..(max - 1)
  BY <1>4 DEF LastOf, Visited
<1>6. VisitedFrom(item, key[e], max - 1) = VisitedFrom(item, key[e], max)
  BY <1>1, GoodVisited
<1>7. LastOf(e) \in 0..(nxt - 1)
  BY <1>1, <1>5, <1>6, GoodVisited DEF ChainOf
<1>8. item[LastOf(e)].nxt # 0 => item[LastOf(e)].nxt \in Siz..(nxt - 1)
  BY <1>1, <1>7 DEF Homed
<1>9. Siz..(nxt - 1) \subseteq 1..(max - 1)
  BY <1>2 DEF Siz
<1> QED
  BY <1>5, <1>6, <1>8, <1>9

(* What the table holds is the map that its cells in use describe.         *)
LEMMA ContentsIs ==
  key \in [Keys -> 0..HSiz] /\ Good(item, max, nxt, key, Allowed)
  => Contents = MapOf(item, nxt)
<1> SUFFICES ASSUME key \in [Keys -> 0..HSiz], Good(item, max, nxt, key, Allowed)
             PROVE  Contents = MapOf(item, nxt)
  OBVIOUS
<1>1. /\ Typed(item, max, nxt) /\ Once(item, nxt)
      /\ 0..(nxt - 1) \subseteq 0..max
  <2>1. Typed(item, max, nxt) /\ Once(item, nxt)
    BY DEF Good
  <2>2. max \in Nat /\ nxt \in (HSiz + 1)..max
    BY <2>1 DEF Typed, Siz
  <2> QED
    BY <2>1, <2>2
<1>2. \A e \in Keys : /\ Held(e) = {c \in 0..(nxt - 1) : item[c].e = e}
                      /\ HeadFree(e) => Held(e) = {}
  BY Finds
<1>3. {f \in Keys : ~HeadFree(f) /\ Held(f) # {}} = Listing(item, nxt)
  <2>1. ASSUME NEW f \in Keys, Held(f) # {} PROVE f \in Listing(item, nxt)
    <3>1. PICK c \in 0..(nxt - 1) : item[c].e = f
      BY <1>2, <2>1
    <3> QED
      BY <3>1 DEF Listing, None
  <2>2. ASSUME NEW f \in Listing(item, nxt) PROVE f \in Keys /\ Held(f) # {} /\ ~HeadFree(f)
    <3>1. PICK c \in 0..(nxt - 1) : item[c].e = f /\ f # None
      BY DEF Listing
    <3>2. f \in Keys
      BY <1>1, <3>1 DEF Typed
    <3> QED
      BY <1>2, <3>1, <3>2
  <2> QED
    BY <2>1, <2>2
<1>4. ASSUME NEW e \in Listing(item, nxt)
      PROVE  item[CellOf(Held(e))].k = MapOf(item, nxt)[e]
  <2>1. e \in Keys /\ Held(e) # {} /\ e # None
    BY <1>3 DEF Listing
  <2>2. CellOf(Held(e)) \in Held(e)
    BY <2>1 DEF CellOf
  <2>3. CellOf(Held(e)) \in 0..(nxt - 1) /\ item[CellOf(Held(e))].e = e
    BY <1>2, <2>1, <2>2
  <2> QED
    BY <1>1, <2>1, <2>3, MapOfFacts
<1>5. MapOf(item, nxt) = [e \in Listing(item, nxt) |-> MapOf(item, nxt)[e]]
  BY DEF MapOf
<1>6. Contents = [e \in Listing(item, nxt) |-> item[CellOf(Held(e))].k]
  BY <1>3 DEF Contents
<1> QED
  BY <1>4, <1>5, <1>6

(* The cells that MMG5_TAB_RECALLOC may leave.                             *)
LEMMA GrownPositive ==
  ASSUME max \in Nat, paid \in Nat, NEW g \in Grown
  PROVE  g \in Nat \ {0}
<1> DEFINE q == (GapNum * max) \div GapDen
<1>1. q \in Int
  OBVIOUS
<1>2. PICK w \in Wanted(max, Gap) : g = Paid(w, 1, paid, CellLimit) /\ g >= 1
  BY DEF Grown
<1>3. w = AtLeast1(q) \/ w = AtLeast1(q - 1)
  BY <1>2 DEF Wanted, Gap
<1> HIDE DEF q
<1>4. w \in Int
  BY <1>1, <1>3 DEF AtLeast1
<1>5. g \in Int
  BY <1>2, <1>4 DEF Paid
<1> QED
  BY <1>2, <1>5

(* MMG5_hashNew leaves a Good table.                                       *)
LEMMA InitInv == Init => IndInv
<1> SUFFICES ASSUME Init PROVE IndInv
  OBVIOUS
<1>1. /\ kind \in {"edge", "face", "tag"} /\ key \in [Keys -> 0..HSiz]
      /\ max = HMax + 2 /\ nxt = Siz /\ item = Link(Blank(max), Siz, max - 1)
      /\ paid = max + 1 /\ ret = 1 /\ stopped = FALSE
  BY DEF Init
<1>2. /\ max \in Nat /\ nxt \in Nat /\ nxt \in 1..(max - 1) /\ nxt = HSiz + 1 /\ nxt < max
  BY <1>1 DEF Siz
<1>3. /\ DOMAIN item = 0..max
      /\ \A c \in 0..max : item[c] = IF nxt <= c /\ c <= max - 1
                                     THEN [e |-> None, k |-> 0, nxt |-> c + 1]
                                     ELSE [e |-> None, k |-> 0, nxt |-> 0]
      /\ item = [c \in 0..max |-> item[c]]
  <2>1. DOMAIN Blank(max) = 0..max /\ \A c \in 0..max : Blank(max)[c] = [e |-> None, k |-> 0, nxt |-> 0]
    BY DEF Blank
  <2>2. DOMAIN item = 0..max
    BY <1>1, <2>1 DEF Link
  <2>3. item = [c \in 0..max |-> item[c]]
    BY <1>1, <2>1 DEF Link
  <2>4. ASSUME NEW c \in 0..max
        PROVE  item[c] = IF nxt <= c /\ c <= max - 1 THEN [Blank(max)[c] EXCEPT !.nxt = c + 1]
                         ELSE Blank(max)[c]
    BY <1>1, <2>1 DEF Link
  <2>5. ASSUME NEW c \in 0..max
        PROVE  [Blank(max)[c] EXCEPT !.nxt = c + 1] = [e |-> None, k |-> 0, nxt |-> c + 1]
    BY <2>1
  <2> QED
    BY <2>1, <2>2, <2>3, <2>4, <2>5
<1>4. \A c \in 0..max : /\ item[c].e = None /\ item[c].k = 0
                        /\ item[c].nxt = IF nxt <= c /\ c <= max - 1 THEN c + 1 ELSE 0
  BY <1>3
<1>5. Typed(item, max, nxt)
  <2>1. ASSUME NEW c \in 0..max
        PROVE  item[c] \in [e : Keys \union {None}, k : Nat, nxt : 0..max]
    <3>1. 0 \in 0..max /\ (c <= max - 1 => c + 1 \in 0..max)
      BY <1>2
    <3> QED
      BY <1>3, <3>1
  <2>2. nxt \in Siz..max
    BY <1>1, <1>2
  <2> QED
    BY <1>2, <1>3, <2>1, <2>2 DEF Typed
<1>6. Apart(item, max, nxt)
  BY <1>2, <1>4 DEF Apart
<1>7. \A c \in 0..(nxt - 1) : c \in 0..max /\ item[c].e = None /\ item[c].nxt = 0
  BY <1>2, <1>4
<1>8. Homed(item, nxt, key)
  <2>1. 0..HSiz \subseteq 0..(nxt - 1) /\ Siz..(nxt - 1) = {}
    BY <1>1, <1>2
  <2> QED
    BY <1>7, <2>1 DEF Homed
<1>9. Once(item, nxt) /\ Reached(item, max, nxt, key) /\ Holds(item, nxt, Allowed)
  BY <1>7 DEF Once, Reached, Holds
<1>10. Good(item, max, nxt, key, Allowed)
  BY <1>5, <1>6, <1>8, <1>9 DEF Good
<1>11. ChainsApart
  BY <1>1, <1>10, GoodApart
<1>12. TypeOK
  <2>1. paid \in Nat /\ ret \in Nat /\ stopped \in BOOLEAN
    <3>1. paid = max + 1 /\ ret = 1 /\ stopped = FALSE
      BY <1>1
    <3>2. paid \in Nat
      BY <1>2, <3>1
    <3>3. ret \in Nat
      BY <3>1
    <3>4. stopped \in BOOLEAN
      BY <3>1
    <3> QED
      BY <3>2, <3>3, <3>4
  <2> QED
    BY <1>1, <1>5, <2>1 DEF TypeOK, Typed, Cells
<1> QED
  BY <1>1, <1>2, <1>10, <1>11, <1>12 DEF IndInv, Ready

-------------------------------------------------------------------------------
(* What each part of a call does to the table and to its map.              *)
LEMMA ReadyFacts ==
  ASSUME Ready
  PROVE  /\ Good(item, max, nxt, key, Allowed)
         /\ max \in Nat /\ nxt \in (HSiz + 1)..(max - 1) /\ nxt \in Nat /\ nxt < max
         /\ DOMAIN item = 0..max
         /\ item[nxt].nxt = nxt + 1 /\ item[nxt].e = None
         /\ Once(item, nxt)
<1>1. /\ Good(item, max, nxt, key, Allowed) /\ nxt < max
      /\ Typed(item, max, nxt) /\ Apart(item, max, nxt) /\ Once(item, nxt)
  BY DEF Ready, Good
<1>2. max \in Nat /\ nxt \in (HSiz + 1)..max /\ DOMAIN item = 0..max
  BY <1>1 DEF Typed, Siz
<1>3. nxt \in nxt..(max - 1)
  BY <1>1, <1>2
<1>4. item[nxt].nxt = nxt + 1 /\ item[nxt].e = None
  BY <1>1, <1>3 DEF Apart
<1> QED
  BY <1>1, <1>2, <1>4

(* An edge that the walk of an insertion does not find is nowhere in the   *)
(* table.                                                                  *)
LEMMA UnlistedEdge ==
  ASSUME key \in [Keys -> 0..HSiz], Ready, NEW e \in Keys, Known(e) = {}
  PROVE  e \notin Listing(item, nxt) /\ \A c \in 0..(nxt - 1) : item[c].e # e
<1>1. \A c \in 0..(nxt - 1) : item[c].e # e
  BY ReadyFacts, Finds
<1> QED
  BY <1>1 DEF Listing

(* An edge that is the first of its chain.                                 *)
LEMMA HeadPuts ==
  ASSUME key \in [Keys -> 0..HSiz], Allowed \in SUBSET Nat, Ready,
         NEW e \in Keys, NEW v \in Allowed, HeadFree(e)
  PROVE  LET d == [item EXCEPT ![key[e]] = Entry(e, v)]
         IN  /\ Good(d, max, nxt, key, Allowed)
             /\ MapOf(d, nxt) = Put(MapOf(item, nxt), e, v)
             /\ e \notin Listing(item, nxt)
<1> DEFINE a == key[e]
           d == [item EXCEPT ![a] = Entry(e, v)]
<1>1. /\ Good(item, max, nxt, key, Allowed) /\ Once(item, nxt)
      /\ max \in Nat /\ nxt \in (HSiz + 1)..(max - 1) /\ DOMAIN item = 0..max
  BY ReadyFacts
<1>2. a \in 0..HSiz /\ item[a].e = None
  BY DEF HeadFree
<1>3. Good(d, max, nxt, key, Allowed)
  BY <1>1, <1>2, PutAtHead
<1>4. Known(e) = {}
  BY <1>1, Finds
<1>5. a \in 0..(nxt - 1) /\ a \in 0..max /\ 0..(nxt - 1) \subseteq 0..max
  <2> HIDE DEF a
  <2> QED
    BY <1>1, <1>2
<1>6. d[a].e = e /\ d[a].k = v /\ \A c \in 0..max : c # a => d[c] = item[c]
  BY <1>1, <1>5 DEF Entry
<1>7. Once(d, nxt)
  BY <1>3 DEF Good
<1>8. e \notin Listing(item, nxt)
  BY <1>4, UnlistedEdge
<1> HIDE DEF d, a
<1>9. MapOf(d, nxt) = Put(MapOf(item, nxt), e, v)
  <2>1. \A c \in 0..(nxt - 1) : item[c].e # e /\ item[c].e # None =>
             c \in 0..(nxt - 1) /\ d[c].e = item[c].e /\ d[c].k = item[c].k
    BY <1>2, <1>5, <1>6
  <2>2. \A c \in 0..(nxt - 1) : d[c].e # e /\ d[c].e # None =>
             c \in 0..(nxt - 1) /\ item[c].e = d[c].e
    BY <1>5, <1>6
  <2> QED
    <3>1. Others(item, nxt, d, nxt, e)
      BY <2>1, <2>2 DEF Others
    <3>2. Written(d, nxt, e, v)
      BY <1>5, <1>6 DEF Written
    <3> QED
      BY <1>1, <1>7, <3>1, <3>2, MapStore
<1> QED
  BY <1>3, <1>8, <1>9 DEF d, a

(* An edge put at the end of its chain.                                    *)
Full(e, v) == [item EXCEPT ![LastOf(e)].nxt = nxt, ![nxt] = Entry(e, v)]

(* Its effect on the map: the edge is put in, nothing else changes.        *)
LEMMA EndPuts ==
  ASSUME key \in [Keys -> 0..HSiz], Allowed \in SUBSET Nat, Ready,
         NEW e \in Keys, NEW v \in Allowed, ~HeadFree(e), Known(e) = {}
  PROVE  /\ Good(Full(e, v), max, nxt + 1, key, Allowed)
         /\ MapOf(Full(e, v), nxt + 1) = Put(MapOf(item, nxt), e, v)
         /\ e \notin Listing(item, nxt)
<1> DEFINE t == LastOf(e)
           d == Full(e, v)
<1>1. /\ Good(item, max, nxt, key, Allowed) /\ Once(item, nxt) /\ nxt < max
      /\ max \in Nat /\ nxt \in (HSiz + 1)..(max - 1) /\ nxt \in Nat /\ DOMAIN item = 0..max
  BY ReadyFacts
<1>2. t \in VisitedFrom(item, key[e], max) /\ item[t].nxt = 0
  BY <1>1, EndOfChain
<1>3. item[key[e]].e # None
  BY DEF HeadFree
<1>4. e \notin Listing(item, nxt) /\ \A c \in 0..(nxt - 1) : item[c].e # e
  BY UnlistedEdge
<1>5. Good(d, max, nxt + 1, key, Allowed)
  <2> DEFINE full == [item EXCEPT ![t].nxt = nxt, ![nxt] = Entry(e, v)]
  <2>1. d = full
    BY DEF Full
  <2> HIDE DEF t
  <2>2. Good(full, max, nxt + 1, key, Allowed)
    BY <1>1, <1>2, <1>3, <1>4, PutAtEnd
  <2> QED
    BY <2>1, <2>2
<1>6. t \in 0..(nxt - 1)
  <2>1. Typed(item, max, nxt) /\ Apart(item, max, nxt) /\ Homed(item, nxt, key)
    BY <1>1 DEF Good
  <2> HIDE DEF t
  <2> QED
    BY <1>2, <1>3, <2>1, InChainOf
<1>7. t \in 0..max /\ nxt \in 0..max /\ t # nxt /\ 0..(nxt - 1) \subseteq 0..max
  <2> HIDE DEF t
  <2> QED
    BY <1>1, <1>6
<1>8. /\ d[nxt].e = e /\ d[nxt].k = v
      /\ \A c \in 0..(nxt - 1) : d[c].e = item[c].e /\ d[c].k = item[c].k
  <2>1. /\ d[nxt] = Entry(e, v) /\ d[t] = [item[t] EXCEPT !.nxt = nxt]
        /\ \A c \in 0..max : c # t /\ c # nxt => d[c] = item[c]
    <3> HIDE DEF t
    <3>1. d = [item EXCEPT ![t].nxt = nxt, ![nxt] = Entry(e, v)]
      BY DEF Full, t
    <3> QED
      BY <1>1, <1>7, <3>1
  <2>2. item[t] \in [e : Keys \union {None}, k : Nat, nxt : 0..max]
    BY <1>1, <1>7 DEF Good, Typed
  <2> HIDE DEF d, t
  <2>3. d[t].e = item[t].e /\ d[t].k = item[t].k
    BY <2>1, <2>2
  <2>4. \A c \in 0..(nxt - 1) : c \in 0..max /\ c # nxt
    BY <1>1
  <2>5. d[nxt].e = e /\ d[nxt].k = v
    BY <2>1 DEF Entry
  <2>6. \A c \in 0..(nxt - 1) : d[c].e = item[c].e /\ d[c].k = item[c].k
    BY <2>1, <2>3, <2>4
  <2> QED
    BY <2>5, <2>6
<1>9. Once(d, nxt + 1)
  BY <1>5 DEF Good
<1> HIDE DEF d, t
<1>10. MapOf(d, nxt + 1) = Put(MapOf(item, nxt), e, v)
  <2>1. nxt \in 0..((nxt + 1) - 1) /\ \A c \in 0..((nxt + 1) - 1) : c = nxt \/ c \in 0..(nxt - 1)
    BY <1>1
  <2>2. \A c \in 0..(nxt - 1) : item[c].e # e /\ item[c].e # None =>
             c \in 0..((nxt + 1) - 1) /\ d[c].e = item[c].e /\ d[c].k = item[c].k
    BY <1>1, <1>8
  <2>3. \A c \in 0..((nxt + 1) - 1) : d[c].e # e /\ d[c].e # None =>
             c \in 0..(nxt - 1) /\ item[c].e = d[c].e
    BY <1>8, <2>1
  <2> QED
    <3>1. Others(item, nxt, d, nxt + 1, e)
      BY <2>2, <2>3 DEF Others
    <3>2. Written(d, nxt + 1, e, v)
      BY <1>8, <2>1 DEF Written
    <3> QED
      BY <1>1, <1>9, <3>1, <3>2, MapStore
<1> QED
  BY <1>4, <1>5, <1>10 DEF d

(* The same when the table is enlarged.                                    *)
Longer(e, v, g) == Link(Extended(Full(e, v), max, g), max, max + g - 1)

(* The same when the table has to grow.                                    *)
LEMMA GrowPuts ==
  ASSUME key \in [Keys -> 0..HSiz], Allowed \in SUBSET Nat, Ready, nxt + 1 = max,
         NEW e \in Keys, NEW v \in Allowed, ~HeadFree(e), Known(e) = {}, NEW g \in Nat \ {0}
  PROVE  /\ Good(Longer(e, v, g), max + g, max, key, Allowed)
         /\ MapOf(Longer(e, v, g), max) = Put(MapOf(item, nxt), e, v)
<1>1. max \in Nat /\ DOMAIN item = 0..max
  BY ReadyFacts
<1>2. /\ Good(Full(e, v), max, max, key, Allowed)
      /\ MapOf(Full(e, v), max) = Put(MapOf(item, nxt), e, v)
  BY EndPuts
<1>3. Good(Longer(e, v, g), max + g, max, key, Allowed)
  BY <1>1, <1>2, MoreCells DEF Longer
<1>4. DOMAIN Full(e, v) = 0..max
  BY <1>1 DEF Full
<1>5. \A c \in 0..(max - 1) : Longer(e, v, g)[c] = Full(e, v)[c]
  <2> TAKE c \in 0..(max - 1)
  <2> DEFINE x == Extended(Full(e, v), max, g)
  <2>1. c \in 0..(max + g) /\ c <= max /\ ~(max <= c)
    BY <1>1
  <2>2. DOMAIN x = 0..(max + g) /\ x[c] = Full(e, v)[c]
    BY <2>1 DEF Extended
  <2> HIDE DEF x
  <2>3. Link(x, max, max + g - 1)[c] = x[c]
    BY <2>1, <2>2 DEF Link
  <2> QED
    BY <2>2, <2>3 DEF Longer, x
<1>6. MapOf(Longer(e, v, g), max) = MapOf(Full(e, v), max)
  BY <1>5, MapSame
<1> QED
  BY <1>2, <1>3, <1>6

(* The cell n that is linked after t, filled after the table has grown by  *)
(* g cells, as MMG5_hashEdge does, or before.                              *)
FilledLast(cells, t, n, m, g, x) ==
    [Link(Extended([cells EXCEPT ![t].nxt = n], m, g), m, m + g - 1) EXCEPT ![n] = x]

FilledFirst(cells, t, n, m, g, x) ==
    Link(Extended([cells EXCEPT ![t].nxt = n, ![n] = x], m, g), m, m + g - 1)

(* MMG5_hashEdge fills its cell after the table has been enlarged, the     *)
(* others before: it makes no difference.                                  *)
LEMMA FillLater ==
  ASSUME NEW m \in Nat, NEW n \in 0..(m - 1), NEW cells, DOMAIN cells = 0..m,
         NEW t \in 0..m, t # n, NEW g \in Nat \ {0}, NEW x
  PROVE  FilledLast(cells, t, n, m, g, x) = FilledFirst(cells, t, n, m, g, x)
<1> DEFINE a == [cells EXCEPT ![t].nxt = n]
           b == [cells EXCEPT ![t].nxt = n, ![n] = x]
           p == Extended(a, m, g)
           q == Extended(b, m, g)
           y == Link(p, m, m + g - 1)
           z == Link(q, m, m + g - 1)
<1>1. n \in 0..m /\ n \in 0..(m + g) /\ ~(m <= n) /\ n <= m
  OBVIOUS
<1>2. b[n] = x /\ \A c \in 0..m : c # n => b[c] = a[c]
  BY <1>1
<1> HIDE DEF a, b
<1>3. /\ DOMAIN p = 0..(m + g) /\ DOMAIN q = 0..(m + g) /\ q[n] = x
      /\ \A c \in 0..(m + g) : c # n => q[c] = p[c]
  <2>1. DOMAIN p = 0..(m + g) /\ DOMAIN q = 0..(m + g)
    BY DEF Extended
  <2>2. q[n] = x
    BY <1>1, <1>2 DEF Extended
  <2>3. ASSUME NEW c \in 0..(m + g), c # n PROVE q[c] = p[c]
    <3>1. c <= m => c \in 0..m
      OBVIOUS
    <3> QED
      BY <1>2, <2>3, <3>1 DEF Extended
  <2> QED
    BY <2>1, <2>2, <2>3
<1> HIDE DEF p, q
<1>4. y = [c \in 0..(m + g) |-> y[c]] /\ z = [c \in 0..(m + g) |-> z[c]]
  BY <1>3 DEF Link
<1>5. z[n] = x
  BY <1>1, <1>3 DEF Link
<1>6. ASSUME NEW c \in 0..(m + g), c # n PROVE z[c] = y[c]
  BY <1>3, <1>6 DEF Link
<1> HIDE DEF y, z
<1>7. [y EXCEPT ![n] = x] = z
  BY <1>1, <1>4, <1>5, <1>6
<1> QED
  BY <1>7 DEF y, z, p, q, a, b, FilledLast, FilledFirst

(* An edge that is listed already.                                         *)
LEMMA KnownCell ==
  ASSUME key \in [Keys -> 0..HSiz], Ready, NEW e \in Keys, Known(e) # {}
  PROVE  /\ CellOf(Known(e)) \in 0..(nxt - 1)
         /\ item[CellOf(Known(e))].e = e
         /\ item[CellOf(Known(e))].k \in Allowed
         /\ e \in Listing(item, nxt)
         /\ MapOf(item, nxt)[e] = item[CellOf(Known(e))].k
<1>1. Known(e) = {c \in 0..(nxt - 1) : item[c].e = e}
  BY ReadyFacts, Finds
<1>2. CellOf(Known(e)) \in Known(e)
  BY DEF CellOf
<1>3. e # None
  BY DEF None
<1>4. Holds(item, nxt, Allowed) /\ Once(item, nxt)
  BY DEF Ready, Good
<1>5. CellOf(Known(e)) \in 0..(nxt - 1) /\ item[CellOf(Known(e))].e = e
  BY <1>1, <1>2
<1>6. item[CellOf(Known(e))].k \in Allowed
  BY <1>3, <1>4, <1>5 DEF Holds
<1>7. e \in Listing(item, nxt)
  BY <1>3, <1>5 DEF Listing
<1>8. MapOf(item, nxt)[e] = item[CellOf(Known(e))].k
  BY <1>3, <1>4, <1>5, MapOfFacts
<1> QED
  BY <1>5, <1>6, <1>7, <1>8

(* Changing what is stored for an edge changes the map for this edge       *)
(* alone.                                                                  *)
LEMMA ValuePuts ==
  ASSUME key \in [Keys -> 0..HSiz], Allowed \in SUBSET Nat, Ready,
         NEW e \in Keys, NEW v \in Allowed, Known(e) # {}
  PROVE  LET d == [item EXCEPT ![CellOf(Known(e))].k = v]
         IN  /\ Good(d, max, nxt, key, Allowed)
             /\ MapOf(d, nxt) = Put(MapOf(item, nxt), e, v)
<1> DEFINE t == CellOf(Known(e))
           d == [item EXCEPT ![t].k = v]
<1>1. /\ Good(item, max, nxt, key, Allowed) /\ Once(item, nxt)
      /\ max \in Nat /\ nxt \in (HSiz + 1)..(max - 1) /\ DOMAIN item = 0..max
  BY ReadyFacts
<1>2. t \in 0..(nxt - 1) /\ item[t].e = e
  BY KnownCell
<1> HIDE DEF t
<1>3. Good(d, max, nxt, key, Allowed)
  BY <1>1, <1>2, PutValue
<1>4. t \in 0..max /\ 0..(nxt - 1) \subseteq 0..max
  BY <1>1, <1>2
<1>5. item[t] \in [e : Keys \union {None}, k : Nat, nxt : 0..max]
  BY <1>1, <1>4 DEF Good, Typed
<1>6. d[t] = [item[t] EXCEPT !.k = v] /\ \A c \in 0..max : c # t => d[c] = item[c]
  BY <1>1, <1>4
<1>7. d[t].e = e /\ d[t].k = v
  BY <1>2, <1>5, <1>6
<1>8. Once(d, nxt)
  BY <1>3 DEF Good
<1> HIDE DEF d
<1>9. MapOf(d, nxt) = Put(MapOf(item, nxt), e, v)
  <2>1. \A c \in 0..(nxt - 1) : item[c].e # e /\ item[c].e # None =>
             c \in 0..(nxt - 1) /\ d[c].e = item[c].e /\ d[c].k = item[c].k
    BY <1>2, <1>4, <1>6
  <2>2. \A c \in 0..(nxt - 1) : d[c].e # e /\ d[c].e # None =>
             c \in 0..(nxt - 1) /\ item[c].e = d[c].e
    BY <1>4, <1>6, <1>7
  <2> QED
    <3>1. Others(item, nxt, d, nxt, e)
      BY <2>1, <2>2 DEF Others
    <3>2. Written(d, nxt, e, v)
      BY <1>2, <1>7 DEF Written
    <3> QED
      BY <1>1, <1>8, <3>1, <3>2, MapStore
<1> QED
  BY <1>3, <1>9 DEF d, t

-------------------------------------------------------------------------------
(* Every call keeps the inductive invariant, and is a step of the map.     *)
LEMMA GoodState ==
  /\ kind \in {"edge", "face", "tag"} /\ key \in [Keys -> 0..HSiz]
  /\ paid \in Nat /\ ret \in {-1, 0} \union Nat /\ stopped \in BOOLEAN
  /\ Good(item, max, nxt, key, Allowed)
  => TypeOK /\ ChainsApart /\ Contents = MapOf(item, nxt)
<1> SUFFICES ASSUME kind \in {"edge", "face", "tag"}, key \in [Keys -> 0..HSiz],
                    paid \in Nat, ret \in {-1, 0} \union Nat, stopped \in BOOLEAN,
                    Good(item, max, nxt, key, Allowed)
             PROVE  TypeOK /\ ChainsApart /\ Contents = MapOf(item, nxt)
  OBVIOUS
<1>1. ChainsApart /\ Contents = MapOf(item, nxt)
  BY GoodApart, ContentsIs
<1>2. max \in Nat /\ nxt \in Siz..max
      /\ item \in [0..max -> [e : Keys \union {None}, k : Nat, nxt : 0..max]]
  BY DEF Good, Typed
<1>3. TypeOK
  BY <1>2 DEF TypeOK, Cells
<1> QED
  BY <1>1, <1>3

(* What a call finds.                                                      *)
LEMMA BeforeCall ==
  ASSUME IndInv, ~stopped
  PROVE  /\ Ready /\ key \in [Keys -> 0..HSiz] /\ Allowed \in SUBSET Nat
         /\ kind \in {"edge", "face", "tag"} /\ paid \in Nat
         /\ Contents = MapOf(item, nxt) /\ DOMAIN Contents = Listing(item, nxt)
<1>1. /\ TypeOK /\ Ready
  BY DEF IndInv
<1>2. /\ kind \in {"edge", "face", "tag"} /\ key \in [Keys -> 0..HSiz] /\ paid \in Nat
  BY <1>1 DEF TypeOK
<1>3. Good(item, max, nxt, key, Allowed)
  BY <1>1 DEF Ready
<1> QED
  BY <1>1, <1>2, <1>3, AllowedNat, ContentsIs DEF MapOf

(* What a call has to leave for the invariant to hold again.               *)
LEMMA AfterCall ==
  ASSUME IndInv, ~stopped, kind' = kind, key' = key,
         paid' \in Nat, ret' \in {-1, 0} \union Nat, stopped' \in BOOLEAN,
         Good(item', max', nxt', key, Allowed), ~stopped' => nxt' < max'
  PROVE  IndInv' /\ Contents' = MapOf(item', nxt')
<1>1. key \in [Keys -> 0..HSiz] /\ kind \in {"edge", "face", "tag"}
  BY BeforeCall
<1>2. Allowed' = Allowed
  BY DEF Allowed
<1>3. Good(item, max, nxt, key, Allowed)'
  BY <1>2
<1>4. (/\ kind \in {"edge", "face", "tag"} /\ key \in [Keys -> 0..HSiz]
       /\ paid \in Nat /\ ret \in {-1, 0} \union Nat /\ stopped \in BOOLEAN
       /\ Good(item, max, nxt, key, Allowed)
       => TypeOK /\ ChainsApart /\ Contents = MapOf(item, nxt))'
  BY GoodState, PTL
<1>5. TypeOK' /\ ChainsApart' /\ Contents' = MapOf(item', nxt')
  BY <1>1, <1>3, <1>4
<1> QED
  BY <1>3, <1>5 DEF IndInv, Ready

(* A step of the map, from what it says of the contents.                   *)
LEMMA Storing ==
  ASSUME NEW e, NEW v, Contents' = Put(Contents, e, v)
  PROVE  Map!Store(e, v)
BY DEF Put, Map!Store, Map!Listed

(* An edge that is the first of its chain.                                 *)
LEMMA AtHeadStep ==
  ASSUME IndInv, ~stopped, kind' = kind, key' = key,
         NEW e \in Keys, NEW v \in Allowed, NEW code \in {-1, 0} \union Nat, AtHead(e, v, code)
  PROVE  IndInv' /\ e \notin Map!Listed /\ Map!Store(e, v) /\ ret' = code
<1>1. /\ Ready /\ key \in [Keys -> 0..HSiz] /\ Allowed \in SUBSET Nat /\ paid \in Nat
      /\ Contents = MapOf(item, nxt) /\ DOMAIN Contents = Listing(item, nxt)
  BY BeforeCall
<1>2. /\ HeadFree(e) /\ item' = [item EXCEPT ![key[e]] = Entry(e, v)] /\ ret' = code
      /\ max' = max /\ nxt' = nxt /\ paid' = paid /\ stopped' = stopped
  BY DEF AtHead
<1>3. /\ Good(item', max', nxt', key, Allowed)
      /\ MapOf(item', nxt') = Put(MapOf(item, nxt), e, v)
      /\ e \notin Listing(item, nxt)
  BY <1>1, <1>2, HeadPuts
<1>4. nxt' < max'
  BY <1>1, <1>2 DEF Ready
<1>5. stopped' \in BOOLEAN
  BY <1>2 DEF IndInv, TypeOK
<1>6. IndInv' /\ Contents' = MapOf(item', nxt')
  BY <1>1, <1>2, <1>3, <1>4, <1>5, AfterCall
<1>7. Map!Store(e, v)
  BY <1>1, <1>3, <1>6, Storing
<1> QED
  BY <1>1, <1>2, <1>3, <1>6, <1>7 DEF Map!Listed

(* An edge that is listed, of which nothing changes.                       *)
LEMMA SameStep ==
  ASSUME IndInv, ~stopped, kind' = kind, key' = key, ret' \in {-1, 0} \union Nat,
         UNCHANGED <<item, max, nxt, paid, stopped>>
  PROVE  IndInv' /\ Contents' = Contents
<1>1. /\ Ready /\ paid \in Nat /\ Contents = MapOf(item, nxt)
  BY BeforeCall
<1>2. stopped' \in BOOLEAN
  BY DEF IndInv, TypeOK
<1>3. Good(item', max', nxt', key, Allowed) /\ nxt' < max'
  BY <1>1 DEF Ready
<1>4. IndInv' /\ Contents' = MapOf(item', nxt')
  BY <1>1, <1>2, <1>3, AfterCall
<1> QED
  BY <1>1, <1>4

(* An edge found by the walk of an insertion is in the map, with the value *)
(* of its cell.                                                            *)
LEMMA ListedEdge ==
  ASSUME IndInv, ~stopped, NEW e \in Keys, Known(e) # {}
  PROVE  /\ e \in Map!Listed
         /\ Contents[e] = item[CellOf(Known(e))].k /\ Contents[e] \in Allowed
<1>1. /\ Ready /\ key \in [Keys -> 0..HSiz]
      /\ Contents = MapOf(item, nxt) /\ DOMAIN Contents = Listing(item, nxt)
  BY BeforeCall
<1>2. /\ e \in Listing(item, nxt) /\ MapOf(item, nxt)[e] = item[CellOf(Known(e))].k
      /\ item[CellOf(Known(e))].k \in Allowed
  BY <1>1, KnownCell
<1> QED
  BY <1>1, <1>2 DEF Map!Listed

(* Another value for an edge that is listed.                               *)
LEMMA ValueStep ==
  ASSUME IndInv, ~stopped, kind' = kind, key' = key, ret' \in {-1, 0} \union Nat,
         NEW e \in Keys, NEW v \in Allowed, Known(e) # {},
         item' = [item EXCEPT ![CellOf(Known(e))].k = v],
         UNCHANGED <<max, nxt, paid, stopped>>
  PROVE  IndInv' /\ Map!Store(e, v)
<1>1. /\ Ready /\ key \in [Keys -> 0..HSiz] /\ Allowed \in SUBSET Nat /\ paid \in Nat
      /\ Contents = MapOf(item, nxt)
  BY BeforeCall
<1>2. /\ Good(item', max', nxt', key, Allowed)
      /\ MapOf(item', nxt') = Put(MapOf(item, nxt), e, v)
  BY <1>1, ValuePuts
<1>3. nxt' < max'
  BY <1>1 DEF Ready
<1>4. stopped' \in BOOLEAN
  BY DEF IndInv, TypeOK
<1>5. IndInv' /\ Contents' = MapOf(item', nxt')
  BY <1>1, <1>2, <1>3, <1>4, AfterCall
<1> QED
  BY <1>1, <1>2, <1>5, Storing

(* A new edge in a chain, with room for the next one or not.               *)
LEMMA EndStep ==
  ASSUME IndInv, ~stopped, kind' = kind, key' = key, ret' \in {-1, 0} \union Nat,
         NEW e \in Keys, NEW v \in Allowed, ~HeadFree(e), Known(e) = {},
         item' = Full(e, v), nxt' = nxt + 1, max' = max, paid' = paid,
         stopped' \in BOOLEAN, ~stopped' => nxt' < max'
  PROVE  IndInv' /\ e \notin Map!Listed /\ Map!Store(e, v)
<1>1. /\ Ready /\ key \in [Keys -> 0..HSiz] /\ Allowed \in SUBSET Nat /\ paid \in Nat
      /\ Contents = MapOf(item, nxt) /\ DOMAIN Contents = Listing(item, nxt)
  BY BeforeCall
<1>2. /\ Good(item', max', nxt', key, Allowed)
      /\ MapOf(item', nxt') = Put(MapOf(item, nxt), e, v)
      /\ e \notin Listing(item, nxt)
  BY <1>1, EndPuts
<1>3. IndInv' /\ Contents' = MapOf(item', nxt')
  BY <1>1, <1>2, AfterCall
<1> QED
  BY <1>1, <1>2, <1>3, Storing DEF Map!Listed

(* The step that appends an edge to its chain and enlarges the table.      *)
LEMMA GrowStep ==
  ASSUME IndInv, ~stopped, kind' = kind, key' = key, ret' \in {-1, 0} \union Nat,
         NEW e \in Keys, NEW v \in Allowed, ~HeadFree(e), Known(e) = {}, nxt + 1 = max,
         NEW g \in Grown, item' = Longer(e, v, g), nxt' = max, max' = max + g,
         paid' = paid + g, stopped' = stopped
  PROVE  IndInv' /\ e \notin Map!Listed /\ Map!Store(e, v)
<1>1. /\ Ready /\ key \in [Keys -> 0..HSiz] /\ Allowed \in SUBSET Nat /\ paid \in Nat
      /\ Contents = MapOf(item, nxt) /\ DOMAIN Contents = Listing(item, nxt)
  BY BeforeCall
<1>2. max \in Nat /\ g \in Nat \ {0}
  BY <1>1, ReadyFacts, GrownPositive
<1>3. /\ Good(item', max', nxt', key, Allowed)
      /\ MapOf(item', nxt') = Put(MapOf(item, nxt), e, v)
  BY <1>1, <1>2, GrowPuts
<1>4. e \notin Listing(item, nxt)
  BY <1>1, UnlistedEdge
<1>5. paid' \in Nat /\ nxt' < max'
  BY <1>1, <1>2
<1>6. stopped' \in BOOLEAN
  BY DEF IndInv, TypeOK
<1>7. IndInv' /\ Contents' = MapOf(item', nxt')
  BY <1>3, <1>5, <1>6, AfterCall
<1> QED
  BY <1>1, <1>3, <1>4, <1>7, Storing DEF Map!Listed

(* MMG5_hashEdge when the table cannot grow.                               *)
LEMMA FailStep ==
  ASSUME IndInv, ~stopped, kind' = kind, key' = key, NEW e \in Keys, HashEdgeFail(e)
  PROVE  IndInv' /\ e \notin Map!Listed /\ Contents' = Contents /\ ret' = 0
<1> DEFINE t == LastOf(e)
           V(f) == VisitedFrom(item, key[f], max)
           W(f) == VisitedFrom(item', key[f], max)
<1>1. /\ Ready /\ key \in [Keys -> 0..HSiz] /\ Allowed \in SUBSET Nat
      /\ kind \in {"edge", "face", "tag"} /\ paid \in Nat
      /\ Contents = MapOf(item, nxt) /\ DOMAIN Contents = Listing(item, nxt)
  BY BeforeCall
<1>2. /\ ~HeadFree(e) /\ Known(e) = {} /\ nxt >= max - 1
      /\ item' = [item EXCEPT ![t].nxt = nxt]
      /\ ret' = 0 /\ stopped' = TRUE /\ max' = max /\ nxt' = nxt /\ paid' = paid
  BY DEF HashEdgeFail
<1>3. /\ Good(item, max, nxt, key, Allowed)
      /\ max \in Nat /\ nxt \in (HSiz + 1)..(max - 1) /\ nxt = max - 1
  <2>1. /\ Good(item, max, nxt, key, Allowed)
        /\ max \in Nat /\ nxt \in (HSiz + 1)..(max - 1)
    BY <1>1, ReadyFacts
  <2> QED
    BY <1>2, <2>1
<1>4. t \in VisitedFrom(item, key[e], max) /\ item[t].nxt = 0 /\ item[key[e]].e # None
  BY <1>1, <1>2, <1>3, EndOfChain DEF HeadFree
<1> HIDE DEF t
<1>5. /\ item' \in [0..max -> [e : Keys \union {None}, k : Nat, nxt : 0..max]]
      /\ Chained(item', max)
      /\ \A c \in 0..max : item'[c].e = item[c].e /\ item'[c].k = item[c].k
      /\ \A b \in 0..HSiz : /\ VisitedFrom(item, b, max) \subseteq VisitedFrom(item', b, max)
                            /\ VisitedFrom(item', b, max) \subseteq
                                 VisitedFrom(item, b, max) \union {c \in {max - 1, max} : key[e] = b}
  <2>1. key[e] \in 0..HSiz
    BY <1>1
  <2>2. item' = [item EXCEPT ![t].nxt = max - 1]
    BY <1>2, <1>3
  <2>3. Good(item, max, max - 1, key, Allowed)
    BY <1>3
  <2> DEFINE a == key[e]
  <2>4. Torn(item, [item EXCEPT ![t].nxt = max - 1], max, a)
    <3>1. a \in 0..HSiz /\ item[a].e # None /\ t \in VisitedFrom(item, a, max)
      BY <1>4, <2>1
    <3>2. key \in [Keys -> 0..HSiz] /\ item[t].nxt = 0
      BY <1>1, <1>4
    <3> HIDE DEF a
    <3> QED
      BY <2>3, <3>1, <3>2, TornChain
  <2>5. Torn(item, item', max, a)
    BY <2>2, <2>4
  <2> QED
    BY <2>5 DEF Torn
<1>6. \A f \in Keys : V(f) \subseteq W(f) /\ W(f) \subseteq V(f) \union {c \in {max - 1, max} : key[e] = key[f]}
  BY <1>1, <1>5
<1>7. \A f \in Keys : V(f) \subseteq 0..(nxt - 1)
  <2>1. Typed(item, max, nxt) /\ Apart(item, max, nxt) /\ Homed(item, nxt, key)
    BY <1>3 DEF Good
  <2> QED
    BY <1>1, <2>1, GoodVisited DEF ChainOf
<1>8. /\ max - 1 \in 0..max /\ max \in 0..max /\ max - 1 \notin 0..(nxt - 1) /\ max \notin 0..(nxt - 1)
      /\ 0..(nxt - 1) \subseteq 0..max
      /\ item[max].e = None /\ item[max - 1].e = None
  <2>1. Apart(item, max, nxt) /\ item[nxt].e = None
    BY <1>1, ReadyFacts DEF Ready, Good
  <2> QED
    BY <1>3, <2>1 DEF Apart
<1>9. ChainsApart'
  <2>1. ASSUME NEW f \in Keys PROVE ~Endless(f, max)'
    <3>1. key[f] \in 0..max
      BY <1>1, <1>3
    <3>2. LinkOf(item', Walk(item', key[f], max)[max], max) = -1
      <4>1. Chained(item', max) /\ max \in 0..max
        BY <1>5, <1>8
      <4> QED
        BY <3>1, <4>1, VisitedLeast
    <3> QED
      BY <1>2, <3>2 DEF Endless
  <2>2. ASSUME NEW f \in Keys, NEW g \in Keys, key[f] # key[g],
               NEW c \in W(f), c \in W(g)
        PROVE  FALSE
    <3>1. ChainsApart
      BY DEF IndInv
    <3>2. c \notin V(f) \/ c \notin V(g)
      BY <2>2, <3>1 DEF ChainsApart, Visited
    <3> HIDE DEF V, W
    <3> QED
      BY <1>6, <1>7, <1>8, <2>2, <3>2
  <2>3. \A f, g \in Keys : (key[f] # key[g] => Visited(f, max) \intersect Visited(g, max) = {})'
    BY <1>2, <2>2 DEF Visited
  <2> QED
    BY <1>2, <2>1, <2>3 DEF ChainsApart
<1>10. TypeOK'
  <2>1. nxt \in Siz..max
    BY <1>3 DEF Siz
  <2>2. ret' \in {-1, 0} \union Nat /\ stopped' \in BOOLEAN
    BY <1>2
  <2> QED
    BY <1>1, <1>2, <1>3, <1>5, <2>1, <2>2 DEF TypeOK, Cells
<1>11. IndInv'
  BY <1>2, <1>9, <1>10 DEF IndInv
<1>12. \A f \in Keys : Held(f)' = Held(f)
  <2> TAKE f \in Keys
  <2>1. Held(f) = {c \in V(f) : item[c].e = f} /\ Held(f)' = {c \in W(f) : item'[c].e = f}
    BY <1>2 DEF Held, Visited
  <2>2. f # None
    BY DEF None
  <2> HIDE DEF V, W
  <2>3. V(f) \subseteq 0..max /\ W(f) \subseteq 0..max
    BY <1>6, <1>7, <1>8
  <2>4. ASSUME NEW c \in W(f), item'[c].e = f PROVE c \in V(f)
    <3>1. item[c].e = f
      BY <1>5, <2>3, <2>4
    <3> QED
      BY <1>6, <1>8, <2>2, <3>1
  <2>5. \A c \in V(f) \union W(f) : item'[c].e = item[c].e
    BY <1>5, <2>3
  <2> QED
    BY <1>6, <2>1, <2>4, <2>5
<1>13. \A f \in Keys : HeadFree(f)' = HeadFree(f)
  <2> TAKE f \in Keys
  <2>1. key[f] \in 0..max
    BY <1>1, <1>3
  <2>2. item'[key[f]].e = item[key[f]].e
    BY <1>5, <2>1
  <2> QED
    BY <2>2 DEF HeadFree
<1>14. ASSUME NEW f \in Keys, Held(f) # {}
       PROVE  item'[CellOf(Held(f))].k = item[CellOf(Held(f))].k
  <2>1. CellOf(Held(f)) \in Held(f)
    BY <1>14 DEF CellOf
  <2>2. Held(f) \subseteq V(f)
    BY DEF Held, Visited
  <2> HIDE DEF V, W
  <2>3. CellOf(Held(f)) \in 0..max
    BY <1>7, <1>8, <2>1, <2>2
  <2> QED
    BY <1>5, <2>3
<1>15. Contents' = Contents
  <2> DEFINE D == {f \in Keys : ~HeadFree(f) /\ Held(f) # {}}
  <2>1. Contents = [f \in D |-> item[CellOf(Held(f))].k]
    BY DEF Contents
  <2>2. Contents' = [f \in D |-> item'[CellOf(Held(f))].k]
    <3>1. D' = D
      BY <1>12, <1>13
    <3>2. Contents' = [f \in D' |-> item'[CellOf(Held(f)')].k]
      BY DEF Contents, CellOf
    <3>3. \A f \in D : Held(f)' = Held(f)
      BY <1>12
    <3> HIDE DEF D
    <3> QED
      BY <3>1, <3>2, <3>3
  <2>3. \A f \in D : item'[CellOf(Held(f))].k = item[CellOf(Held(f))].k
    BY <1>14
  <2> HIDE DEF D
  <2> QED
    BY <2>1, <2>2, <2>3
<1>16. e \notin Map!Listed
  BY <1>1, <1>2, UnlistedEdge DEF Map!Listed
<1> QED
  BY <1>2, <1>11, <1>15, <1>16

(* MMG5_hashEdge: one step of the map, for each way it returns.            *)
LEMMA HashEdgeStep ==
  ASSUME IndInv, ~stopped, kind' = kind, key' = key, kind = "edge",
         NEW e \in Keys, NEW v \in Values, HashEdge(e, v)
  PROVE  IndInv' /\ Map!ListEdge(e, v)
<1>1. v \in Allowed
  BY DEF Allowed
<1>2. Ready /\ key \in [Keys -> 0..HSiz] /\ paid \in Nat
  BY BeforeCall
<1>3. /\ Good(item, max, nxt, key, Allowed) /\ nxt < max /\ DOMAIN item = 0..max
      /\ max \in Nat /\ nxt \in (HSiz + 1)..(max - 1) /\ nxt \in Nat /\ item[nxt].nxt = nxt + 1
  BY <1>2, ReadyFacts
<1>4. CASE AtHead(e, v, 2)
  BY <1>1, <1>4, AtHeadStep DEF Map!ListEdge
<1>5. CASE HashEdgeKnown(e)
  <2>1. Known(e) # {} /\ ret' = 1 /\ UNCHANGED <<item, max, nxt, paid, stopped>>
    BY <1>5 DEF HashEdgeKnown
  <2>2. IndInv' /\ Contents' = Contents
    BY <2>1, SameStep
  <2>3. e \in Map!Listed
    BY <2>1, ListedEdge
  <2> QED
    BY <2>1, <2>2, <2>3 DEF Map!ListEdge
<1>6. CASE HashEdgeAppend(e, v)
  <2>1. /\ ~HeadFree(e) /\ Known(e) = {} /\ nxt < max - 1
        /\ item' = Full(e, v) /\ nxt' = nxt + 1 /\ ret' = 2
        /\ max' = max /\ paid' = paid /\ stopped' = stopped
    BY <1>3, <1>6 DEF HashEdgeAppend, Full
  <2>2. nxt' < max'
    BY <1>3, <2>1
  <2>3. ret' \in {-1, 0} \union Nat
    BY <2>1
  <2>4. stopped' \in BOOLEAN
    BY <2>1 DEF IndInv, TypeOK
  <2>5. IndInv' /\ e \notin Map!Listed /\ Map!Store(e, v)
    BY <1>1, <2>1, <2>2, <2>3, <2>4, EndStep
  <2> QED
    BY <2>1, <2>5 DEF Map!ListEdge
<1>7. CASE HashEdgeGrow(e, v)
  <2>1. PICK g \in Grown :
          /\ item' = [Link(Extended([item EXCEPT ![LastOf(e)].nxt = nxt], max, g),
                           item[nxt].nxt, max + g - 1) EXCEPT ![nxt] = Entry(e, v)]
          /\ nxt' = item[nxt].nxt /\ max' = max + g /\ paid' = paid + g
    BY <1>7 DEF HashEdgeGrow
  <2>2. ~HeadFree(e) /\ Known(e) = {} /\ nxt >= max - 1 /\ ret' = 2 /\ stopped' = stopped
    BY <1>7 DEF HashEdgeGrow
  <2>3. nxt + 1 = max /\ nxt' = max /\ item[nxt].nxt = max
    BY <1>3, <2>1, <2>2
  <2>4. g \in Nat \ {0}
    BY <1>2, <1>3, GrownPositive
  <2>5. item' = Longer(e, v, g)
    <3> DEFINE t == LastOf(e)
    <3>1. t \in 0..(nxt - 1)
      <4>1. /\ Typed(item, max, nxt) /\ Apart(item, max, nxt) /\ Homed(item, nxt, key)
        BY <1>3 DEF Good
      <4>2. t \in VisitedFrom(item, key[e], max) /\ item[key[e]].e # None
        BY <1>2, <1>3, <2>2, EndOfChain DEF HeadFree
      <4> HIDE DEF t
      <4> QED
        BY <1>2, <4>1, <4>2, InChainOf
    <3>2. t \in 0..max /\ t # nxt /\ nxt \in 0..(max - 1)
      <4> HIDE DEF t
      <4> QED
        BY <1>3, <3>1
    <3>3. item' = FilledLast(item, t, nxt, max, g, Entry(e, v))
      BY <2>1, <2>3 DEF FilledLast
    <3>4. Longer(e, v, g) = FilledFirst(item, t, nxt, max, g, Entry(e, v))
      BY DEF Longer, Full, FilledFirst
    <3> HIDE DEF t
    <3>5. FilledLast(item, t, nxt, max, g, Entry(e, v))
          = FilledFirst(item, t, nxt, max, g, Entry(e, v))
      BY <1>3, <2>4, <3>2, FillLater
    <3> QED
      BY <3>3, <3>4, <3>5
  <2>6. ret' \in {-1, 0} \union Nat
    BY <2>2
  <2>7. IndInv' /\ e \notin Map!Listed /\ Map!Store(e, v)
    BY <1>1, <2>1, <2>2, <2>3, <2>5, <2>6, GrowStep
  <2> QED
    BY <2>2, <2>7 DEF Map!ListEdge
<1>8. CASE HashEdgeFail(e)
  BY <1>8, FailStep DEF Map!ListEdge
<1> QED
  BY <1>4, <1>5, <1>6, <1>7, <1>8 DEF HashEdge

(* MMG5_hashFace and MMG5_hashEdgeTag on an edge that is not listed and    *)
(* whose chain is not empty.                                               *)
LEMMA AddStep ==
  ASSUME IndInv, ~stopped, kind' = kind, key' = key,
         NEW e \in Keys, NEW v \in Allowed, NEW code \in {-1} \union Nat, AddThenGrow(e, v, code)
  PROVE  IndInv' /\ e \notin Map!Listed /\ Map!Store(e, v) /\ ret' \in {code, 0}
<1>1. Ready /\ key \in [Keys -> 0..HSiz] /\ paid \in Nat
  BY BeforeCall
<1>2. /\ nxt < max /\ max \in Nat /\ nxt \in Nat /\ item[nxt].nxt = nxt + 1
  BY <1>1, ReadyFacts
<1>3. /\ ~HeadFree(e) /\ Known(e) = {} /\ nxt' = nxt + 1
  BY <1>2 DEF AddThenGrow
<1>4. \/ nxt + 1 < max /\ item' = Full(e, v) /\ ret' = code /\ UNCHANGED <<max, paid, stopped>>
      \/ /\ nxt + 1 >= max
         /\ \E g \in Grown : item' = Longer(e, v, g) /\ max' = max + g /\ paid' = paid + g
         /\ ret' = code /\ stopped' = stopped
      \/ nxt + 1 >= max /\ item' = Full(e, v) /\ ret' = 0 /\ stopped' = TRUE /\ UNCHANGED <<max, paid>>
  <2>1. nxt + 1 >= max => nxt + 1 = max
    BY <1>2
  <2> QED
    BY <1>2, <2>1 DEF AddThenGrow, Full, Longer
<1>5. ret' \in {-1, 0} \union Nat /\ ret' \in {code, 0}
  BY <1>4
<1>6. CASE nxt + 1 < max /\ item' = Full(e, v) /\ UNCHANGED <<max, paid, stopped>>
  <2>1. stopped' \in BOOLEAN
    BY <1>6 DEF IndInv, TypeOK
  <2>2. nxt' < max'
    BY <1>3, <1>6
  <2> QED
    BY <1>3, <1>5, <1>6, <2>1, <2>2, EndStep
<1>7. CASE /\ nxt + 1 >= max
           /\ \E g \in Grown : item' = Longer(e, v, g) /\ max' = max + g /\ paid' = paid + g
           /\ stopped' = stopped
  <2>1. nxt + 1 = max
    BY <1>2, <1>7
  <2>2. PICK g \in Grown : item' = Longer(e, v, g) /\ max' = max + g /\ paid' = paid + g
    BY <1>7
  <2>3. nxt' = max /\ stopped' = stopped
    BY <1>3, <1>7, <2>1
  <2> QED
    BY <1>3, <1>5, <2>1, <2>2, <2>3, GrowStep
<1>8. CASE nxt + 1 >= max /\ item' = Full(e, v) /\ stopped' = TRUE /\ UNCHANGED <<max, paid>>
  <2>1. stopped' \in BOOLEAN /\ stopped'
    BY <1>8
  <2> QED
    BY <1>3, <1>5, <1>8, <2>1, EndStep
<1> QED
  BY <1>4, <1>6, <1>7, <1>8

(* MMG5_hashFace: one step of the map, for each way it returns.            *)
LEMMA HashFaceStep ==
  ASSUME IndInv, ~stopped, kind' = kind, key' = key, kind = "face",
         NEW e \in Keys, NEW v \in Values, HashFace(e, v)
  PROVE  IndInv' /\ Map!ListFace(e, v)
<1>1. Allowed = Values
  BY DEF Allowed
<1>2. CASE AtHead(e, v, -1)
  BY <1>1, <1>2, AtHeadStep DEF Map!ListFace
<1>3. CASE HashFaceKnown(e)
  <2>1. /\ Known(e) # {} /\ ret' = item[CellOf(Known(e))].k
        /\ UNCHANGED <<item, max, nxt, paid, stopped>>
    BY <1>3 DEF HashFaceKnown
  <2>2. /\ e \in Map!Listed /\ ret' = Contents[e] /\ ret' \in Values
    BY <1>1, <2>1, ListedEdge
  <2>3. ret' \in {-1, 0} \union Nat
    BY <2>2
  <2>4. IndInv' /\ Contents' = Contents
    BY <2>1, <2>3, SameStep
  <2> QED
    BY <2>2, <2>4 DEF Map!ListFace
<1>4. CASE AddThenGrow(e, v, -1)
  BY <1>1, <1>4, AddStep DEF Map!ListFace
<1> QED
  BY <1>2, <1>3, <1>4 DEF HashFace

(* The union of two masks is a mask.                                       *)
LEMMA OrTags ==
  ASSUME NEW s \in Tags, NEW t \in Tags
  PROVE  Or(s, t) \in Tags /\ Map!Or(s, t) = Or(s, t)
<1> DEFINE Is(u) == \A bit \in {1, 2} :
                       (u \div bit) % 2 = 1 <=> 1 \in {(s \div bit) % 2, (t \div bit) % 2}
<1>1. \A x \in {1, 2, 3} : /\ (x \div 1) % 2 = IF x = 2 THEN 0 ELSE 1
                           /\ (x \div 2) % 2 = IF x = 1 THEN 0 ELSE 1
  OBVIOUS
<1>2. \E u \in Tags : Is(u)
  <2>1. s \in {1, 2, 3} /\ t \in {1, 2, 3}
    OBVIOUS
  <2>2. CASE s = t
    BY <2>2
  <2>3. CASE s # t
    <3>1. Is(3)
      BY <1>1, <2>1, <2>3
    <3> QED
      BY <3>1
  <2> QED
    BY <2>2, <2>3
<1>3. Or(s, t) = CHOOSE u \in Tags : Is(u)
  BY DEF Or
<1>4. Or(s, t) \in Tags
  <2> HIDE DEF Is
  <2> QED
    BY <1>2, <1>3
<1>5. Map!Or(s, t) = Or(s, t)
  BY DEF Map!Or, Or
<1> QED
  BY <1>4, <1>5

(* MMG5_hashEdgeTag: the same.                                             *)
LEMMA HashTagStep ==
  ASSUME IndInv, ~stopped, kind' = kind, key' = key, kind = "tag",
         NEW e \in Keys, NEW t \in Tags, HashEdgeTag(e, t)
  PROVE  IndInv' /\ Map!ListTag(e, t)
<1>1. Allowed = Tags /\ Tags \subseteq Nat
  BY DEF Allowed
<1>2. CASE AtHead(e, t, t)
  BY <1>1, <1>2, AtHeadStep DEF Map!ListTag
<1>3. CASE HashTagKnown(e, t)
  <2> DEFINE v == Or(item[CellOf(Known(e))].k, t)
  <2>1. /\ Known(e) # {} /\ ret' = v
        /\ item' = [item EXCEPT ![CellOf(Known(e))].k = Or(@, t)]
        /\ UNCHANGED <<max, nxt, paid, stopped>>
    BY <1>3 DEF HashTagKnown
  <2>2. /\ e \in Map!Listed /\ Contents[e] = item[CellOf(Known(e))].k /\ Contents[e] \in Tags
    BY <1>1, <2>1, ListedEdge
  <2>3. v \in Tags /\ v = Map!Or(Contents[e], t)
    BY <2>2, OrTags
  <2>4. item' = [item EXCEPT ![CellOf(Known(e))].k = v]
    BY <2>1
  <2>5. ret' \in {-1, 0} \union Nat
    BY <1>1, <2>1, <2>3
  <2> HIDE DEF v
  <2>6. IndInv' /\ Map!Store(e, v)
    BY <1>1, <2>1, <2>3, <2>4, <2>5, ValueStep
  <2> QED
    BY <2>1, <2>2, <2>3, <2>6 DEF Map!ListTag
<1>4. CASE AddThenGrow(e, t, t)
  BY <1>1, <1>4, AddStep DEF Map!ListTag
<1> QED
  BY <1>2, <1>3, <1>4 DEF HashEdgeTag

(* MMG5_hashUpdate: the same.                                              *)
LEMMA HashUpdateStep ==
  ASSUME IndInv, ~stopped, kind' = kind, key' = key, kind = "edge",
         NEW e \in Keys, NEW v \in Values \union {0}, HashUpdate(e, v)
  PROVE  IndInv' /\ Map!UpdateEdge(e, v)
<1>1. v \in Allowed
  BY DEF Allowed
<1>2. /\ Ready /\ key \in [Keys -> 0..HSiz]
  BY BeforeCall
<1>3. Held(e) = Known(e) /\ (HeadFree(e) => Known(e) = {})
  BY <1>2, ReadyFacts, Finds
<1>4. CASE /\ ~HeadFree(e) /\ Held(e) # {} /\ ret' = 1
           /\ item' = [item EXCEPT ![CellOf(Held(e))].k = v]
  <2>1. UNCHANGED <<max, nxt, paid, stopped>>
    BY DEF HashUpdate
  <2>2. Known(e) # {} /\ item' = [item EXCEPT ![CellOf(Known(e))].k = v]
    BY <1>3, <1>4
  <2>3. ret' \in {-1, 0} \union Nat
    BY <1>4
  <2>4. IndInv' /\ Map!Store(e, v)
    BY <1>1, <2>1, <2>2, <2>3, ValueStep
  <2>5. e \in Map!Listed
    BY <2>2, ListedEdge
  <2> QED
    BY <1>4, <2>4, <2>5 DEF Map!UpdateEdge
<1>5. CASE /\ (HeadFree(e) \/ Held(e) = {}) /\ ret' = 0 /\ item' = item
  <2>1. Known(e) = {}
    BY <1>3, <1>5
  <2>2. ret' = 0 /\ UNCHANGED <<item, max, nxt, paid, stopped>>
    BY <1>3, <1>5 DEF HashUpdate
  <2>3. IndInv' /\ Contents' = Contents
    BY <2>2, SameStep
  <2>4. e \notin Map!Listed
    BY <1>2, <2>1, BeforeCall, UnlistedEdge DEF Map!Listed
  <2> QED
    BY <2>2, <2>3, <2>4 DEF Map!UpdateEdge
<1> QED
  BY <1>4, <1>5 DEF HashUpdate

(* Every step keeps the invariant and is a step of the map.                *)
LEMMA StepRefines == IndInv /\ [Next]_vars => IndInv' /\ [Map!Next]_<<kind, Contents, ret>>
<1> SUFFICES ASSUME IndInv, [Next]_vars
             PROVE  IndInv' /\ [Map!Next]_<<kind, Contents, ret>>
  OBVIOUS
<1>1. CASE Next
  <2>1. ~stopped /\ kind' = kind /\ key' = key
    BY <1>1 DEF Next
  <2>2. PICK e \in Keys :
          \/ kind = "edge" /\ \E v \in Values : HashEdge(e, v)
          \/ kind = "edge" /\ \E v \in Values \union {0} : HashUpdate(e, v)
          \/ kind = "face" /\ \E v \in Values : HashFace(e, v)
          \/ kind = "tag"  /\ \E t \in Tags : HashEdgeTag(e, t)
    BY <1>1 DEF Next
  <2>3. CASE kind = "edge" /\ \E v \in Values : HashEdge(e, v)
    BY <2>1, <2>3, HashEdgeStep DEF Map!Next
  <2>4. CASE kind = "edge" /\ \E v \in Values \union {0} : HashUpdate(e, v)
    BY <2>1, <2>4, HashUpdateStep DEF Map!Next
  <2>5. CASE kind = "face" /\ \E v \in Values : HashFace(e, v)
    BY <2>1, <2>5, HashFaceStep DEF Map!Next
  <2>6. CASE kind = "tag" /\ \E t \in Tags : HashEdgeTag(e, t)
    BY <2>1, <2>6, HashTagStep DEF Map!Next
  <2> QED
    BY <2>2, <2>3, <2>4, <2>5, <2>6
<1>2. CASE UNCHANGED vars
  <2>1. /\ kind' = kind /\ key' = key /\ item' = item /\ max' = max /\ nxt' = nxt
        /\ paid' = paid /\ ret' = ret /\ stopped' = stopped
    BY <1>2 DEF vars
  <2>2. TypeOK' /\ ChainsApart'
    BY <2>1 DEF IndInv, TypeOK, ChainsApart, Cells, Endless, Visited
  <2>3. ~stopped' => Ready'
    BY <2>1 DEF IndInv, Ready, Allowed
  <2>4. Contents' = Contents
    BY <2>1 DEF Contents, HeadFree, Held, CellOf, Visited
  <2> QED
    BY <2>1, <2>2, <2>3, <2>4 DEF IndInv
<1> QED
  BY <1>1, <1>2

(* The invariant holds as long as a caller goes on.                        *)
LEMMA InvHolds == Spec => []IndInv
<1>1. IndInv /\ [Next]_vars => IndInv'
  BY StepRefines
<1> QED
  BY <1>1, InitInv, PTL DEF Spec

-------------------------------------------------------------------------------
(* The table is well typed: every link stays inside it (MMG5_hashEdge,     *)
(* MMG5_hashFace, MMG5_hashEdgeTag, MMG5_hashUpdate).                      *)
THEOREM TypeCorrect == Spec => []TypeOK
<1>1. IndInv => TypeOK
  BY DEF IndInv
<1> QED
  BY <1>1, InvHolds, PTL

(* Every chain ends, so that a search returns, and two chains share no     *)
(* cell, also after the failure of a call.                                 *)
THEOREM ChainsStayApart == Spec => []ChainsApart
<1>1. IndInv => ChainsApart
  BY DEF IndInv
<1> QED
  BY <1>1, InvHolds, PTL

(* Up to a failure the unused cells are in no chain and in order, so that  *)
(* the next edge overwrites none.                                          *)
THEOREM UnusedCellsCorrect == Spec => []UnusedCells
<1>1. IndInv => UnusedCells
  <2> SUFFICES ASSUME IndInv, ~stopped
               PROVE  /\ nxt \in Siz..(max - 1)
                      /\ \A c \in nxt..(max - 1) : item[c] = [e |-> None, k |-> 0, nxt |-> c + 1]
                      /\ \A e \in Keys : Visited(e, max) \intersect nxt..max = {}
    BY DEF UnusedCells
  <2>1. Ready /\ key \in [Keys -> 0..HSiz]
    BY BeforeCall
  <2>2. /\ Good(item, max, nxt, key, Allowed)
        /\ max \in Nat /\ nxt \in (HSiz + 1)..(max - 1)
    BY <2>1, ReadyFacts
  <2>3. Typed(item, max, nxt) /\ Apart(item, max, nxt) /\ Homed(item, nxt, key)
    BY <2>2 DEF Good
  <2>4. nxt \in Siz..(max - 1)
    BY <2>2 DEF Siz
  <2>5. ASSUME NEW c \in nxt..(max - 1)
        PROVE  item[c] = [e |-> None, k |-> 0, nxt |-> c + 1]
    <3>1. c \in 0..max
      BY <2>2
    <3>2. item[c] \in [e : Keys \union {None}, k : Nat, nxt : 0..max]
      BY <2>3, <3>1 DEF Typed
    <3>3. item[c].e = None /\ item[c].k = 0 /\ item[c].nxt = c + 1
      BY <2>3 DEF Apart
    <3> QED
      BY <3>2, <3>3
  <2>6. ASSUME NEW e \in Keys, NEW c \in Visited(e, max) PROVE c \notin nxt..max
    <3>1. c \in 0..(nxt - 1)
      BY <2>1, <2>3, <2>6, GoodVisited DEF ChainOf, Visited
    <3> QED
      BY <2>2, <3>1
  <2> QED
    BY <2>4, <2>5, <2>6
<1> QED
  BY <1>1, InvHolds, PTL

(* Up to and including the first failure, the table is the map from edges  *)
(* to integers that its callers take it for.                               *)
THEOREM TableIsMap == Spec => MapOK
<1>1. Init => Map!Init
  <2> SUFFICES ASSUME Init PROVE Map!Init
    OBVIOUS
  <2>1. kind \in {"edge", "face", "tag"} /\ key \in [Keys -> 0..HSiz] /\ ret = 1 /\ nxt = Siz
    BY DEF Init
  <2>2. Good(item, max, nxt, key, Allowed) /\ stopped = FALSE /\ IndInv
    BY InitInv DEF Init, IndInv, Ready
  <2>3. \A c \in 0..max : item[c].e = None
    BY DEF Init, Link, Blank
  <2>4. \A e \in Keys : HeadFree(e)
    <3>1. \A e \in Keys : key[e] \in 0..max
      BY <2>1 DEF Init
    <3> QED
      BY <2>3, <3>1 DEF HeadFree
  <2>5. Contents = [e \in {} |-> 0]
    BY <2>4 DEF Contents
  <2> QED
    BY <2>1, <2>5 DEF Map!Init
<1>2. IndInv /\ [Next]_vars => [Map!Next]_<<kind, Contents, ret>>
  BY StepRefines
<1> QED
  BY <1>1, <1>2, InvHolds, PTL DEF Spec, MapOK, Map!Spec
===============================================================================
