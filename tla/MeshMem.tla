------------------------------- MODULE MeshMem --------------------------------
(***************************************************************************)
(* Vertex and triangle allocation of the 2D remesher (zaldy_2d.c), the     *)
(* reallocation macros of libmmg2d_private.h and mmgcommon_private.h, and  *)
(* the packing that ends a library call (hash_2d.c).  The arrays that must *)
(* follow the size of another one are the metric (sol->npmax follows       *)
(* npmax) and the adjacency table (3*ntmax+5 integers).  All of them are   *)
(* paid from one budget, memMax.                                           *)
(*                                                                         *)
(* freeP, freeT and clean are auxiliary: no other variable depends on      *)
(* them.  freeP and freeT record the lists of empty slots that the links   *)
(* stored inside the arrays stand for; clean says whether every packing so *)
(* far left the two last slots of each array without an old link.          *)
(***************************************************************************)
EXTENDS SlotPool, TabRecalloc

CONSTANTS NPoint, NTria,   \* np and nt of the mesh that is loaded
          NPMax, NTMax,    \* npmax and ntmax when its arrays are allocated
          PointBytes, TriaBytes, AdjaBytes, MetBytes, \* cost of one entity
          MemMax,          \* memMax, less what the other tables use
          GapNum, GapDen,  \* MMG5_GAP, the part an array grows by
          Int32Limit,      \* (INT32_MAX-5)/3: largest legal ntmax
          MaxPoint, MaxTria, \* bounds of the model: no growth beyond them
          MaxCalls         \* bound of the model: library calls on this mesh

ASSUME SizeAssumption ==
    /\ NPoint \in Nat \ {0} /\ NTria \in Nat \ {0}
    /\ NPMax \in Nat /\ NTMax \in Nat /\ NPoint < NPMax /\ NTria < NTMax
ASSUME CostAssumption ==
    /\ PointBytes \in Nat \ {0} /\ TriaBytes \in Nat \ {0}
    /\ AdjaBytes \in Nat \ {0} /\ MetBytes \in Nat \ {0}
    /\ MemMax \in Nat
    /\ NPMax * (PointBytes + MetBytes) + NTMax * (TriaBytes + AdjaBytes) <= MemMax
ASSUME GapAssumption ==
    /\ GapNum \in Nat \ {0} /\ GapDen \in Nat \ {0} /\ GapNum <= GapDen
    /\ Int32Limit \in Nat
    /\ MaxPoint \in Nat /\ MaxTria \in Nat /\ MaxCalls \in Nat

VARIABLES pts, trs,       \* the two arrays of slots
          freeP, freeT,   \* auxiliary: their lists of empty slots
          memCur,         \* mesh->memCur
          solMax,         \* sol->npmax: vertices that have room in sol->m
          adjMax,         \* triangles that have room in mesh->adja
          gap,            \* mesh->gap, a fraction
          calls,          \* library calls made on this mesh
          clean,          \* auxiliary: no packing left a link behind it
          stage,          \* the loop of MMG2D_pack, or what is around it
          at, nbl         \* its next slot to look at, and to fill

vars == <<pts, trs, freeP, freeT, memCur, solMax, adjMax, gap, calls, clean,
          stage, at, nbl>>

Init ==
    /\ pts = InitialPool(NPoint, NPMax, "zero")
    /\ trs = InitialPool(NTria, NTMax, "nul")
    /\ freeP = FreshList(NPoint, NPMax)
    /\ freeT = FreshList(NTria, NTMax)
    /\ memCur = NPMax * (PointBytes + MetBytes) + NTMax * (TriaBytes + AdjaBytes)
    /\ solMax = NPMax
    /\ adjMax = NTMax
    /\ gap = [num |-> GapNum, den |-> GapDen]
    /\ calls = 1
    /\ clean = TRUE
    /\ stage = "open" /\ at = 1 /\ nbl = 1

-------------------------------------------------------------------------------
(* MMG5_TAB_RECALLOC: the gap that is paid, 0 when the macro gives up.     *)
Granted(wanted, bytes) == Paid(wanted, bytes, memCur, MemMax)

(* MMG5_CHK_INT32_OVERFLOW on a table of size triangles: the values left   *)
(* in mesh->gap, each with the gap that MMG5_TAB_RECALLOC computes from    *)
(* it.  There is none when 32-bit integers would overflow.                 *)
Overflows(size) == \E w \in Wanted(size, gap) : size + w > Int32Limit

CheckedGaps(size) ==
    LET last == [num |-> Int32Limit - size, den |-> size]
    IN  {<<gap, w>> : w \in {u \in Wanted(size, gap) : size + u <= Int32Limit}}
        \union (IF Overflows(size) /\ size < Int32Limit
                THEN {<<last, w>> : w \in Wanted(size, last)} ELSE {})

-------------------------------------------------------------------------------
(* A vertex is asked for by MMG2D_chkspl and MMG2D_anaelt: MMG2D_newPt,    *)
(* and when the list is empty MMG2D_POINT_REALLOC.                         *)
NewVertex ==
    /\ stage = "open"
    /\ pts.nil # 0
    /\ pts' = NewSlot(pts)
    /\ freeP' = Rest(freeP)
    /\ UNCHANGED <<trs, freeT, memCur, solMax, adjMax, gap, calls, clean, stage, at, nbl>>

GrowVertices ==
    /\ stage = "open"
    /\ pts.nil = 0
    /\ \E w \in Wanted(pts.max, gap) :
         LET g     == Granted(w, PointBytes)
             grown == GrowPool(pts, g, "zero")
         IN  /\ g >= 1
             /\ grown.max <= MaxPoint
             /\ memCur + g * PointBytes + (grown.max - solMax) * MetBytes <= MemMax
             /\ pts'    = NewSlot(grown)
             /\ freeP'  = Rest(FreshList(grown.n, grown.max))
             /\ memCur' = memCur + g * PointBytes + (grown.max - solMax) * MetBytes
             /\ solMax' = grown.max
    /\ UNCHANGED <<trs, freeT, adjMax, gap, calls, clean, stage, at, nbl>>

(* The error path of the macro in these two callers deletes vertices       *)
(* do { MMG2D_delPt(mesh,mesh->np) } while ( np > npinit ), where npinit   *)
(* is np on entry: np itself goes.  Either the vertices cannot grow ...    *)
NoMoreVertex ==
    /\ stage = "open"
    /\ pts.nil = 0
    /\ pts.n > 0
    /\ \E w \in Wanted(pts.max, gap) : Granted(w, PointBytes) < 1
    /\ pts'   = DelSlot(pts, pts.n)
    /\ freeP' = <<pts.n>> \o freeP
    /\ UNCHANGED <<trs, freeT, memCur, solMax, adjMax, gap, calls, clean, stage, at, nbl>>

(* ... or they have grown, and nothing is left to grow the metric.         *)
NoMoreMetric ==
    /\ stage = "open"
    /\ pts.nil = 0
    /\ pts.n > 0
    /\ \E w \in Wanted(pts.max, gap) :
         LET g     == Granted(w, PointBytes)
             grown == GrowPool(pts, g, "zero")
         IN  /\ g >= 1
             /\ grown.max <= MaxPoint
             /\ memCur + g * PointBytes + (grown.max - solMax) * MetBytes > MemMax
             /\ pts'    = DelSlot(grown, grown.n)
             /\ freeP'  = <<grown.n>> \o FreshList(grown.n, grown.max)
             /\ memCur' = memCur + g * PointBytes
    /\ UNCHANGED <<trs, freeT, solMax, adjMax, gap, calls, clean, stage, at, nbl>>

(* MMG2D_delPt on a vertex in use: a split that is given up, a collapse.   *)
DeleteVertex ==
    /\ stage = "open"
    /\ \E i \in Live(pts) : /\ pts'   = DelSlot(pts, i)
                            /\ freeP' = <<i>> \o freeP
    /\ UNCHANGED <<trs, freeT, memCur, solMax, adjMax, gap, calls, clean, stage, at, nbl>>

-------------------------------------------------------------------------------
(* MMG2D_newElt, and MMG2D_TRIA_REALLOC when it returns 0.                 *)
NewTria ==
    /\ stage = "open"
    /\ trs.nil # 0
    /\ trs' = NewSlot(trs)
    /\ freeT' = Rest(freeT)
    /\ UNCHANGED <<pts, freeP, memCur, solMax, adjMax, gap, calls, clean, stage, at, nbl>>

GrowTrias ==
    /\ stage = "open"
    /\ trs.nil = 0
    /\ \E c \in CheckedGaps(trs.max) :
         LET g     == Granted(c[2], TriaBytes)
             grown == GrowPool(trs, g, "nul")
         IN  /\ g >= 1
             /\ grown.max <= MaxTria
             /\ memCur + g * TriaBytes + g * AdjaBytes <= MemMax
             /\ trs'    = NewSlot(grown)
             /\ freeT'  = Rest(FreshList(grown.n, grown.max))
             /\ memCur' = memCur + g * TriaBytes + g * AdjaBytes
             /\ adjMax' = grown.max
             /\ gap'    = c[1]
    /\ UNCHANGED <<pts, freeP, solMax, calls, clean, stage, at, nbl>>

(* The triangles cannot grow, because 32-bit integers would overflow or    *)
(* because memory is short: at most mesh->gap has changed.                 *)
NoMoreTria ==
    /\ stage = "open"
    /\ trs.nil = 0
    /\ \/ Overflows(trs.max) /\ trs.max >= Int32Limit /\ UNCHANGED gap
       \/ \E c \in CheckedGaps(trs.max) : /\ Granted(c[2], TriaBytes) < 1
                                          /\ gap' = c[1]
    /\ UNCHANGED <<pts, trs, freeP, freeT, memCur, solMax, adjMax, calls, clean, stage, at, nbl>>

(* The triangles have grown, and nothing is left to grow the adjacencies.  *)
NoMoreAdja ==
    /\ stage = "open"
    /\ trs.nil = 0
    /\ \E c \in CheckedGaps(trs.max) :
         LET g     == Granted(c[2], TriaBytes)
             grown == GrowPool(trs, g, "nul")
         IN  /\ g >= 1
             /\ grown.max <= MaxTria
             /\ memCur + g * TriaBytes + g * AdjaBytes > MemMax
             /\ trs'    = grown
             /\ freeT'  = FreshList(grown.n, grown.max)
             /\ memCur' = memCur + g * TriaBytes
             /\ gap'    = c[1]
    /\ UNCHANGED <<pts, freeP, solMax, adjMax, calls, clean, stage, at, nbl>>

(* MMG2D_delElt on a triangle in use.                                      *)
DeleteTria ==
    /\ stage = "open"
    /\ \E i \in Live(trs) : /\ trs'   = DelSlot(trs, i)
                            /\ freeT' = <<i>> \o freeT
    /\ UNCHANGED <<pts, freeP, memCur, solMax, adjMax, gap, calls, clean, stage, at, nbl>>

-------------------------------------------------------------------------------
(* MMG2D_pack at the end of a library call.  One loop numbers the vertices *)
(* in use, in tmp; a second one renames the vertices of each triangle and  *)
(* slides it to the first free slot; a third one slides the vertices, each *)
(* to the slot it was numbered for.  One step for each slot in use.  The   *)
(* vertices of a triangle, its adjacencies and the metric move with it and *)
(* are not modelled.                                                       *)
Loop(next) == stage' = next /\ at' = 1 /\ nbl' = 1

NextSlot(j) == at' = j + 1 /\ nbl' = nbl + 1 /\ UNCHANGED stage

StartPack ==
    /\ stage = "open"
    /\ Loop("number")
    /\ UNCHANGED <<pts, trs, freeP, freeT, memCur, solMax, adjMax, gap, calls, clean>>

NumberVertex ==
    /\ stage = "number"
    /\ \E j \in Ahead(pts, at) : /\ Nearest(pts, at, j)
                                /\ pts' = Number(pts, j, nbl)
                                /\ NextSlot(j)
    /\ UNCHANGED <<trs, freeP, freeT, memCur, solMax, adjMax, gap, calls, clean>>

NumberEnd ==
    /\ stage = "number"
    /\ Ahead(pts, at) = {}
    /\ Loop("trias")
    /\ UNCHANGED <<pts, trs, freeP, freeT, memCur, solMax, adjMax, gap, calls, clean>>

SlideTria ==
    /\ stage = "trias"
    /\ \E j \in Ahead(trs, at) : /\ Nearest(trs, at, j)
                                /\ trs' = SlideSlot(trs, j, nbl, "nul")
                                /\ NextSlot(j)
    /\ UNCHANGED <<pts, freeP, freeT, memCur, solMax, adjMax, gap, calls, clean>>

TriasEnd ==
    /\ stage = "trias"
    /\ Ahead(trs, at) = {}
    /\ trs' = EndAt(trs, nbl - 1)
    /\ Loop("points")
    /\ UNCHANGED <<pts, freeP, freeT, memCur, solMax, adjMax, gap, calls, clean>>

SlidePoint ==
    /\ stage = "points"
    /\ \E j \in Ahead(pts, at) : /\ Nearest(pts, at, j)
                                /\ pts' = SlideSlot(pts, j, nbl, "zero")
                                /\ NextSlot(j)
    /\ UNCHANGED <<trs, freeP, freeT, memCur, solMax, adjMax, gap, calls, clean>>

(* Both lists of empty slots are linked again, and the call is over.       *)
PackEnd ==
    /\ stage = "points"
    /\ Ahead(pts, at) = {}
    /\ pts'   = Relinked(Unnumbered(EndAt(pts, nbl - 1)))
    /\ trs'   = Relinked(trs)
    /\ freeP' = PackedList(pts')
    /\ freeT' = PackedList(trs')
    /\ clean' = (clean /\ NoOldLink(pts') /\ NoOldLink(trs'))
    /\ Loop("packed")
    /\ UNCHANGED <<memCur, solMax, adjMax, gap, calls>>

(* The next call on the same structures.                                   *)
CallAgain ==
    /\ stage = "packed"
    /\ calls < MaxCalls
    /\ calls' = calls + 1
    /\ Loop("open")
    /\ UNCHANGED <<pts, trs, freeP, freeT, memCur, solMax, adjMax, gap, clean>>

(* What one library call does, and what a sequence of calls does.          *)
Call ==
    \/ NewVertex \/ GrowVertices \/ NoMoreVertex \/ NoMoreMetric \/ DeleteVertex
    \/ NewTria \/ GrowTrias \/ NoMoreTria \/ NoMoreAdja \/ DeleteTria
    \/ StartPack \/ NumberVertex \/ NumberEnd \/ SlideTria \/ TriasEnd
    \/ SlidePoint \/ PackEnd

Next == Call \/ CallAgain

OneCall == Init /\ [][Call]_vars

Spec == Init /\ [][Next]_vars

-------------------------------------------------------------------------------
(* Type invariant of the allocation state.                                 *)
TypeOK ==
    /\ IsPool(pts) /\ IsPool(trs)
    /\ memCur \in Nat /\ solMax \in Nat /\ adjMax \in Nat
    /\ gap \in [num : Nat \ {0}, den : Nat \ {0}]
    /\ calls \in Nat /\ clean \in BOOLEAN
    /\ stage \in {"open", "number", "trias", "points", "packed"}
    /\ at \in Nat /\ nbl \in Nat

(* The vertices MMG2D_newPt will hand out are exactly those the loops over *)
(* 1 .. np skip, and those never used: the list threaded through           *)
(* point[k].tmp neither loops, nor leads to a vertex in use, nor forgets a *)
(* deleted one, and np is the last vertex in use.  MMG2D_pack may break it *)
(* for the calls that follow: see clean.  While it packs, there is no list. *)
Listed == stage \in {"open", "packed"} /\ clean

VertexListOK == Listed => FreeListOK(pts, freeP)

(* The same for the list that MMG2D_newElt reads in tria[k].v[2].          *)
TriaListOK == Listed => FreeListOK(trs, freeT)

(* The identifier that MMG2D_newPt or MMG2D_newElt returns next is not one *)
(* of a vertex or a triangle in use.                                       *)
NextIdFree == stage = "open" => pts.nil \notin Live(pts) /\ trs.nil \notin Live(trs)

(* MMG5_ADD_MEM takes back what exceeds the budget: what has been paid     *)
(* never does, so that the unsigned memMax - memCur of MMG5_TAB_RECALLOC   *)
(* does not wrap, and the two arrays of slots are paid for.                *)
Budget == /\ memCur <= MemMax
          /\ pts.max * PointBytes + trs.max * TriaBytes + solMax * MetBytes <= memCur

(* MMG2D_pack: the vertex that slides next goes to the slot the triangles  *)
(* know it by, whose number the loop before wrote in its tmp (the          *)
(* assertion of hash_2d.c:842); and when it is done the mesh of the caller *)
(* is 1..np and 1..nt, without a hole and without anything left behind.    *)
PackedDense ==
    /\ stage = "points" => \A j \in Ahead(pts, at) : Nearest(pts, at, j) => pts.link[j] = nbl
    /\ stage = "packed" => Live(pts) = 1..pts.n /\ Live(trs) = 1..trs.n

(* sol->m and mesh->adja have room for every vertex and every triangle in  *)
(* use.                                                                    *)
ArraysFollow == pts.n <= solMax /\ trs.n <= adjMax

(* Seen from the rest of the program, during one library call, each array  *)
(* is an IdAllocator: what is handed out was free, nothing else changes,   *)
(* and packing moves what is in use, one at a time, never onto another.    *)
Phase == IF stage \in {"open", "packed"} THEN stage ELSE "packing"

Vertices == INSTANCE IdAllocator WITH live <- Live(pts), phase <- Phase
Trias    == INSTANCE IdAllocator WITH live <- Live(trs), phase <- Phase
VertexIds == Vertices!Spec
TriaIds   == Trias!Spec
===============================================================================
