------------------------------- MODULE Anatri2D -------------------------------
(***************************************************************************)
(* MMG2D_anatri (mmg2d1.c), the first stages of the remeshing: the         *)
(* triangles are cut by patterns (MMG2D_anaelt), the adjacencies are built *)
(* again (MMG2D_hashTria), then a walk on the triangles collapses edges    *)
(* (MMG2D_colelt) and one or two swap edges (MMG2D_swpmsh); all this again *)
(* while something is done and at most maxit times.                        *)
(*                                                                         *)
(* A step is one vertex or one triangle of a loop of anaelt, one edge of a *)
(* walk, or the end of a loop.  Triangles are visited in increasing order: *)
(* at is the next one.                                                     *)
(***************************************************************************)
EXTENDS Adapt2D

CONSTANTS Options,   \* the options and the value of typchk of a call
          MaxIt,     \* maxit
          MaxMarks,  \* bounds of the model, divided by the number of the iteration:
          MaxPerWalk \* edges that are too long, edges that a walk collapses or swaps

ASSUME AnatriAssumption ==
    /\ Options \subseteq [typchk : {1, 2}, noinsert : BOOLEAN, noswap : BOOLEAN]
    /\ MaxIt \in Nat \ {0} /\ MaxMarks \in Nat /\ MaxPerWalk \in Nat

VARIABLES opt,
          stage,     \* what comes next: "mark", "create", "giveBack", "cut", "hash",
                     \* "collapse", "swap", or the end: "done", "failed"
          marks,     \* pairs <<triangle, edge>> that step 1 of anaelt has still to visit
          hash,      \* its table: pairs <<edge, vertex>>
          npinit,    \* the value of np at its start
          it,        \* number of iterations that are complete
          pass,      \* number of walks of this call of swpmsh that are complete
          at, nb,    \* next triangle of the walk, number of edges it has changed
          busy       \* ns+nc+nsw > 0 in this iteration

waveVars == <<mesh, fem, short, ops, moves, opt, stage, marks, hash, npinit,
              it, pass, at, nb, busy>>
anaelt   == <<marks, hash, npinit>>
counters == <<it, pass, at, nb>>

WaveInit ==
    /\ Init
    /\ opt \in Options
    /\ stage = "mark"
    /\ marks = {} /\ hash = {} /\ npinit = 0
    /\ it = 0 /\ pass = 0 /\ at = 1 /\ nb = 0
    /\ busy = FALSE

StartWalk(s) == stage' = s /\ at' = 1 /\ nb' = 0

-------------------------------------------------------------------------------
(* Mutant of Examined: triangles with a required edge are examined too.    *)
ExaminedAll == Live(mesh.trs)

(* MMG2D_anaelt.  Step 1 examines the triangles that have no required edge *)
(* and flags the edges that are too long, and, with info.fem, those inside *)
(* the domain that link two vertices of its boundaries.                    *)
Examined == {k \in Live(mesh.trs) : \A i \in Local : ~SIN(mesh.tria[k].tag[i])}

EdgeOf(e) == {mesh.tria[e[1]].v[Nxt(e[2])], mesh.tria[e[1]].v[Prv(e[2])]}

FemMarks(long) ==
    {e \in Examined \X Local :
        /\ fem
        /\ opt.typchk = 1 => \E l \in long : l[1] = e[1]
        /\ "bdy" \notin mesh.tria[e[1]].tag[e[2]]
        /\ \A ip \in EdgeOf(e) : "bdy" \in mesh.point[ip].tag}

Mark(e) ==
    /\ stage = "mark" /\ ~opt.noinsert
    /\ Cardinality(marks) < MaxMarks \div (it + 1)
    /\ e \in (Examined \X Local) \ marks
    /\ marks' = marks \union {e}
    /\ UNCHANGED <<mesh, stage, short, moves, hash, npinit, counters, busy>>

MarkEnd ==
    /\ stage = "mark" /\ ~opt.noinsert
    /\ marks' = marks \union FemMarks(marks)
    /\ stage' = IF marks' = {} THEN "hash" ELSE "create"
    /\ hash' = {}
    /\ npinit' = mesh.pts.n
    /\ UNCHANGED <<mesh, short, moves, counters, busy>>

NoInsert ==
    /\ stage = "mark" /\ opt.noinsert
    /\ StartWalk("swap")
    /\ UNCHANGED <<mesh, short, moves, anaelt, it, pass, busy>>

(* The edge that the loops on k and i visit first.                         *)
First == CHOOSE e \in marks : \A f \in marks : 3 * e[1] + e[2] <= 3 * f[1] + f[2]

Hashed(e) == \E h \in hash : h[1] = EdgeOf(e)

(* Mutant of CreatePoint: the table is not looked at.                      *)
CreatePointAgain ==
    /\ stage = "create" /\ marks # {}
    /\ mesh.pts.nil # 0
    /\ mesh' = WithMid(First[1], First[2])
    /\ hash' = hash \union {<<EdgeOf(First), mesh.pts.nil>>}
    /\ marks' = marks \ {First}
    /\ UNCHANGED <<stage, short, moves, npinit, counters, busy>>

(* A vertex is created in the middle of the edge unless the table has one. *)
CreatePoint ==
    /\ stage = "create" /\ marks # {}
    /\ Hashed(First) \/ mesh.pts.nil # 0
    /\ IF Hashed(First) THEN UNCHANGED <<mesh, hash>>
       ELSE /\ mesh' = WithMid(First[1], First[2])
            /\ hash' = hash \union {<<EdgeOf(First), mesh.pts.nil>>}
    /\ marks' = marks \ {First}
    /\ UNCHANGED <<stage, short, moves, npinit, counters, busy>>

CreateEnd ==
    /\ stage = "create" /\ marks = {}
    /\ StartWalk("cut")
    /\ UNCHANGED <<mesh, short, moves, anaelt, it, pass, busy>>

(* There is no memory for it: the law deletes the last vertex, and again   *)
(* while there are more of them than at the start.                         *)
NoPointLeft ==
    /\ \/ stage = "create" /\ marks # {} /\ ~Hashed(First) /\ mesh.pts.nil = 0
       \/ stage = "giveBack"
    /\ mesh' = DelPt(mesh, mesh.pts.n)
    /\ short' = TRUE
    /\ stage' = IF mesh'.pts.n > npinit THEN "giveBack" ELSE "failed"
    /\ UNCHANGED <<moves, anaelt, counters, busy>>

-------------------------------------------------------------------------------
(* Steps 2 and 3: a triangle that has an edge in the table, flagged by     *)
(* itself or by its neighbour, is cut at each of its edges that is there.  *)
(* The vertices are in the middle of straight edges, so that no cut is     *)
(* invalid and none of them is moved.                                      *)
CutEdges(k) == {i \in Local : Hashed(<<k, i>>)}

Take(p, n) == CASE n = 0 -> p
                [] n = 1 -> NewSlot(p)
                [] n = 2 -> NewSlot(NewSlot(p))
                [] n = 3 -> NewSlot(NewSlot(NewSlot(p)))

(* The first n slots of the list, or as many as there are.                 *)
Heads(p, n) ==
    LET second == p.link[p.nil]
        third  == p.link[second]
    IN  IF p.nil = 0 THEN <<>>
        ELSE IF n = 1 \/ second = 0 THEN <<p.nil>>
        ELSE IF n = 2 \/ third = 0 THEN <<p.nil, second>>
        ELSE <<p.nil, second, third>>

(* Step 4: the triangles are cut.  The slots are taken before the triangle *)
(* is touched; when there are not enough of them those that have been      *)
(* taken are not given back.                                               *)
ToCut == {k \in Live(mesh.trs) : k >= at /\ CutEdges(k) # {}}

(* The first piece takes the place of the triangle, the others the slots.  *)
PutIn(tria, slot, pieces) ==
    [n \in 1..NTMax |-> IF n \in Range(slot) THEN pieces[CHOOSE j \in 1..Len(slot) : slot[j] = n]
                                              ELSE tria[n]]

CutTria(k) ==
    LET cut    == CutEdges(k)
        need   == Cardinality(cut)
        x      == [i \in cut |-> (CHOOSE h \in hash : h[1] = EdgeOf(<<k, i>>))[2]]
        slot   == <<k>> \o Heads(mesh.trs, need)
        pieces == Pieces(mesh.tria[k], x, cut)
        enough == Len(slot) = need + 1
    IN  /\ stage = "cut"
        /\ k \in ToCut /\ \A l \in ToCut : k <= l
        /\ mesh' = [mesh EXCEPT !.trs = Take(@, Len(slot) - 1),
                                        !.tria = IF enough THEN PutIn(@, slot, pieces) ELSE @]
        /\ short' = ~enough
        /\ stage' = IF enough THEN "cut" ELSE "failed"
        /\ at' = k + 1
        /\ busy' = TRUE
        /\ UNCHANGED <<moves, anaelt, it, pass, nb>>

CutEnd ==
    /\ stage = "cut" /\ ToCut = {}
    /\ StartWalk("hash")
    /\ UNCHANGED <<mesh, short, moves, anaelt, it, pass, busy>>

(* MMG2D_hashTria: triangles that share two vertices are adjacent.         *)
Twins(e) == {f \in (Live(mesh.trs) \X Local) \ {e} : EdgeOf(f) = EdgeOf(e)}

(* Mutant of HashAdja: the adjacencies of before are kept.                 *)
HashAdjaKept(e) == mesh.tria[e[1]].adja[e[2]]

HashAdja(e) == IF Twins(e) = {} THEN NoAdja ELSE CHOOSE f \in Twins(e) : TRUE

HashTria ==
    /\ stage = "hash"
    /\ mesh' = [mesh EXCEPT !.tria = [k \in 1..NTMax |->
                   IF k \in Live(mesh.trs)
                   THEN [@[k] EXCEPT !.adja = [i \in Local |-> HashAdja(<<k, i>>)]]
                   ELSE @[k]]]
    /\ hash' = {}
    /\ StartWalk("collapse")
    /\ UNCHANGED <<short, moves, marks, npinit, it, pass, busy>>

-------------------------------------------------------------------------------
(* MMG2D_colelt: one edge at most of each triangle.                        *)
WalkOn(k) == k >= at /\ nb < MaxPerWalk \div (it + 1) /\ at' = k + 1 /\ nb' = nb + 1

CollapseInWalk ==
    /\ stage = "collapse"
    /\ \E k \in 1..NTMax, i \in Local : WalkOn(k) /\ CollapseEdge(k, i)
    /\ busy' = TRUE
    /\ UNCHANGED <<stage, anaelt, it, pass>>

CollapseEnd ==
    /\ stage = "collapse"
    /\ StartWalk("swap")
    /\ UNCHANGED <<mesh, short, moves, anaelt, it, pass, busy>>

(* MMG2D_swpmsh: a walk, and another one if this one has done something.   *)
SwapInWalk ==
    /\ stage = "swap" /\ ~opt.noswap
    /\ \E k \in 1..NTMax, i \in Local : WalkOn(k) /\ SwapEdge(k, i)
    /\ UNCHANGED <<stage, anaelt, it, pass, busy>>

(* Mutant of SwapAgain: nothing limits the number of walks.                *)
SwapAgainAlways ==
    /\ stage = "swap" /\ ~opt.noswap
    /\ nb > 0
    /\ busy' = TRUE
    /\ StartWalk("swap")
    /\ UNCHANGED <<mesh, short, moves, anaelt, it, pass>>

SwapAgain ==
    /\ stage = "swap" /\ ~opt.noswap
    /\ nb > 0 /\ pass + 1 < 2
    /\ pass' = pass + 1
    /\ busy' = TRUE
    /\ StartWalk("swap")
    /\ UNCHANGED <<mesh, short, moves, anaelt, it>>

(* Mutant of SwapEnd: one iteration too many.                              *)
SwapEndLate ==
    /\ stage = "swap"
    /\ opt.noswap \/ nb = 0 \/ pass + 1 = 2
    /\ it' = it + 1
    /\ pass' = 0
    /\ busy' = FALSE
    /\ StartWalk(IF (busy \/ nb > 0) /\ it < MaxIt THEN "mark" ELSE "done")
    /\ UNCHANGED <<mesh, short, moves, anaelt>>

(* The end of an iteration.  The other test of the code that breaks the    *)
(* loop (it > 3) is only true in the last iteration, maxit being 5.        *)
SwapEnd ==
    /\ stage = "swap"
    /\ opt.noswap \/ nb = 0 \/ pass + 1 = 2
    /\ it' = it + 1
    /\ pass' = 0
    /\ busy' = FALSE
    /\ StartWalk(IF (busy \/ nb > 0) /\ it + 1 < MaxIt THEN "mark" ELSE "done")
    /\ UNCHANGED <<mesh, short, moves, anaelt>>

WaveNext ==
    /\ UNCHANGED <<fem, ops, opt>>
    /\ \/ MarkEnd \/ NoInsert \/ \E e \in (1..NTMax) \X Local : Mark(e)
       \/ CreatePoint \/ CreateEnd \/ NoPointLeft
       \/ (\E k \in 1..NTMax : CutTria(k)) \/ CutEnd \/ HashTria
       \/ CollapseEnd \/ CollapseInWalk
       \/ SwapEnd \/ SwapAgain \/ SwapInWalk

WaveSpec == WaveInit /\ [][WaveNext]_waveVars /\ WF_waveVars(WaveNext)

-------------------------------------------------------------------------------
(* Type invariant.                                                         *)
WaveTypeOK ==
    /\ TypeOK
    /\ opt \in Options
    /\ stage \in {"mark", "create", "giveBack", "cut", "hash", "collapse", "swap", "done", "failed"}
    /\ marks \subseteq (1..NTMax) \X Local
    /\ hash \subseteq (SUBSET (1..NPMax)) \X (1..NPMax)
    /\ npinit \in 0..NPMax
    /\ it \in 0..MaxIt /\ pass \in 0..1
    /\ at \in 1..(NTMax + 1) /\ nb \in 0..MaxPerWalk
    /\ busy \in BOOLEAN

(* Between two loops the mesh is whole: the triangles on both sides of an  *)
(* edge have been cut at the same vertex, the tags of the pieces are those *)
(* of the edge they come from, each vertex has been used.                  *)
Whole == stage \in {"mark", "collapse", "swap", "done"}
WaveConform   == Whole => Conform
WaveTagsAgree == Whole => TagsAgree
WaveNoOrphan  == Whole => NoOrphan

(* The library packs and returns the mesh of a wave that has failed for    *)
(* want of memory: the triangles' vertices must be in use.                 *)
VerticesInUse == \A k \in Live(mesh.trs), i \in Local : mesh.tria[k].v[i] \in Live(mesh.pts)

(* The loops end: those of anatri and swpmsh stop after a number of        *)
(* iterations, whatever the operators undo of what others have done.       *)
Terminates == <>(stage \in {"done", "failed"})
===============================================================================
