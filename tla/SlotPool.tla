------------------------------- MODULE SlotPool -------------------------------
(***************************************************************************)
(* The slot arrays of a 2D mesh: mesh->point and mesh->tria.  Both keep    *)
(* their unused slots in a LIFO list threaded through the array itself     *)
(* (the tmp field of a vertex, v[2] of a triangle) whose head is npnil or  *)
(* nenil, and the largest index in use in np or nt.  Every loop of the     *)
(* remesher runs from 1 to that index and skips the slots that are not in  *)
(* use.  A pool is a record                                                *)
(*   n     np or nt          max   npmax or ntmax                          *)
(*   nil   npnil or nenil    link  point[k].tmp or tria[k].v[2]            *)
(*   st    "live" for a slot handed out, "nul" for one the loops skip      *)
(*         (MG_NUL tag, v[0] = 0), "zero" for one never handed out whose   *)
(*         cleared memory passes the test !MG_NUL all the same (vertices). *)
(***************************************************************************)
EXTENDS Integers, Sequences, FiniteSets

Status == {"live", "nul", "zero"}

Live(p)  == {j \in 1..p.max : p.st[j] = "live"}
Valid(p, j) == p.st[j] # "nul"                     \* MG_VOK, MG_EOK

IsPool(p) ==
    /\ p.max \in Nat
    /\ p \in [n : 0..p.max, max : {p.max}, nil : 0..p.max,
              link : [1..p.max -> 0..p.max], st : [1..p.max -> Status]]

(* The slots from .. last, in this order.                                  *)
Interval(from, last) == [i \in 1..(last - from + 1) |-> from + i - 1]

(* The slots that the loops "for (k=nil; k<max-1; k++) link[k]=k+1" leave  *)
(* in the list that starts at n+1.                                         *)
FreshList(n, max) == IF n + 1 = max THEN <<max>> ELSE Interval(n + 1, max - 1)

Rest(f) == IF f = <<>> THEN <<>> ELSE Tail(f)

(* Mutant of InitialPool: the loop runs to max instead of max-2.           *)
InitialPoolPastEnd(n, max, blank) ==
    [n    |-> n, max |-> max, nil |-> n + 1,
     link |-> [j \in 1..max |-> IF j > n THEN j + 1 ELSE 0],
     st   |-> [j \in 1..max |-> IF j <= n THEN "live" ELSE blank]]

(* MMG2D_setMeshSize_alloc: n slots in use at loading, the others cleared. *)
InitialPool(n, max, blank) ==
    [n    |-> n, max |-> max, nil |-> n + 1,
     link |-> [j \in 1..max |-> IF j > n /\ j < max - 1 THEN j + 1 ELSE 0],
     st   |-> [j \in 1..max |-> IF j <= n THEN "live" ELSE blank]]

(* Mutant of NewSlot: the largest index in use is not raised.              *)
NewSlotLastKept(p) ==
    [n    |-> p.n,
     max  |-> p.max,
     nil  |-> p.link[p.nil],
     link |-> [p.link EXCEPT ![p.nil] = 0],
     st   |-> [p.st EXCEPT ![p.nil] = "live"]]

(* MMG2D_newPt, MMG2D_newElt, when the list is not empty.                  *)
NewSlot(p) ==
    [n    |-> IF p.nil > p.n THEN p.nil ELSE p.n,
     max  |-> p.max,
     nil  |-> p.link[p.nil],
     link |-> [p.link EXCEPT ![p.nil] = 0],
     st   |-> [p.st EXCEPT ![p.nil] = "live"]]

(* MMG2D_delPt, MMG2D_delElt: the slot becomes the head of the list; if it *)
(* was the last one the index steps down over every slot out of use.       *)
LastValid(p, i) ==
    IF \E j \in 1..(i - 1) : Valid(p, j)
    THEN CHOOSE j \in 1..(i - 1) : /\ Valid(p, j)
                                   /\ \A h \in (j + 1)..(i - 1) : ~Valid(p, h)
    ELSE 0

(* Mutant of DelSlot: the index steps down by one, as in MMG5_delEdge.     *)
DelSlotOneDown(p, i) ==
    [n    |-> IF i = p.n THEN p.n - 1 ELSE p.n,
     max  |-> p.max,
     nil  |-> i,
     link |-> [p.link EXCEPT ![i] = p.nil],
     st   |-> [p.st EXCEPT ![i] = "nul"]]

DelSlot(p, i) ==
    [n    |-> IF i = p.n THEN LastValid(p, i) ELSE p.n,
     max  |-> p.max,
     nil  |-> i,
     link |-> [p.link EXCEPT ![i] = p.nil],
     st   |-> [p.st EXCEPT ![i] = "nul"]]

(* Mutants of GrowPool: the loop links the last slot too; the slots are    *)
(* all cleared, not only the new ones.                                     *)
GrowPoolPastEnd(p, g, blank) ==
    LET max == p.max + g
    IN  [n    |-> p.n, max |-> max, nil |-> p.n + 1,
         link |-> [j \in 1..max |-> IF j > p.n THEN j + 1 ELSE p.link[j]],
         st   |-> [j \in 1..max |-> IF j <= p.max THEN p.st[j] ELSE blank]]

GrowPoolCleared(p, g, blank) ==
    LET max == p.max + g
    IN  [n    |-> p.n, max |-> max, nil |-> p.n + 1,
         link |-> [j \in 1..max |-> IF j > p.n /\ j < max - 1 THEN j + 1 ELSE 0],
         st   |-> [j \in 1..max |-> blank]]

(* The tail of MMG2D_POINT_REALLOC and MMG2D_TRIA_REALLOC: g cleared slots *)
(* are added and the list is linked again from n+1.                        *)
GrowPool(p, g, blank) ==
    LET max == p.max + g
    IN  [n    |-> p.n, max |-> max, nil |-> p.n + 1,
         link |-> [j \in 1..max |->
                     IF j > p.n /\ j < max - 1 THEN j + 1
                     ELSE IF j <= p.max THEN p.link[j] ELSE 0],
         st   |-> [j \in 1..max |-> IF j <= p.max THEN p.st[j] ELSE blank]]

(* MMG2D_pack goes through 1 .. n and passes over the slots that are not   *)
(* in use: those it still finds from slot at on, and the first of them.    *)
Ahead(p, at) == {j \in at..p.n : Valid(p, j)}
Nearest(p, at, j) == j \in Ahead(p, at) /\ \A k \in Ahead(p, at) : j <= k

(* Mutant of Number: the vertex is given the number it has.                *)
NumberSame(p, j, new) ==
    [n |-> p.n, max |-> p.max, nil |-> p.nil,
     link |-> [p.link EXCEPT ![j] = j], st |-> p.st]

(* The number a vertex will have is written in its field tmp, the link.    *)
Number(p, j, new) ==
    [n |-> p.n, max |-> p.max, nil |-> p.nil,
     link |-> [p.link EXCEPT ![j] = new], st |-> p.st]

(* Mutant of SlideSlot: the slot that is left is not cleared.              *)
SlideSlotLeft(p, j, new, blank) ==
    [n |-> p.n, max |-> p.max, nil |-> p.nil,
     link |-> [p.link EXCEPT ![new] = p.link[j]],
     st   |-> [p.st EXCEPT ![new] = p.st[j]]]

(* Slot j is copied to slot new, which is not after it, and cleared, unless *)
(* it is there already.                                                    *)
SlideSlot(p, j, new, blank) ==
    IF j = new THEN p
    ELSE [n |-> p.n, max |-> p.max, nil |-> p.nil,
          link |-> [p.link EXCEPT ![new] = p.link[j], ![j] = 0],
          st   |-> [p.st EXCEPT ![new] = p.st[j], ![j] = blank]]

(* np or nt when the slots in use have slid down.                          *)
EndAt(p, n) ==
    [n |-> n, max |-> p.max, nil |-> p.nil, link |-> p.link, st |-> p.st]

(* The numbers in tmp are of no use any more.                              *)
Unnumbered(p) ==
    [n |-> p.n, max |-> p.max, nil |-> p.nil,
     link |-> [j \in 1..p.max |-> IF j <= p.n THEN 0 ELSE p.link[j]],
     st |-> p.st]

(* The list is linked again from n+1 when the array has more than three    *)
(* slots left; otherwise it is declared empty.                             *)
Relinked(p) ==
    LET room == p.n < p.max - 3
    IN  [n    |-> p.n, max |-> p.max, nil |-> IF room THEN p.n + 1 ELSE 0,
         link |-> [j \in 1..p.max |->
                     IF room /\ j > p.n /\ j < p.max - 1 THEN j + 1 ELSE p.link[j]],
         st   |-> p.st]

(* The two last slots are past the loops that link the list again: it ends *)
(* where it should if they hold no link from before.                       *)
NoOldLink(p) == \A j \in {p.max - 1, p.max} : j > p.n => p.link[j] = 0

PackedList(p) == IF p.n < p.max - 3 THEN Interval(p.n + 1, p.max - 1) ELSE <<>>

-------------------------------------------------------------------------------
(* The list of p holds the slots f, in this order, and stops there.        *)
Threaded(p, f) ==
    /\ f \in Seq(1..p.max)
    /\ p.nil = IF f = <<>> THEN 0 ELSE f[1]
    /\ \A i \in 1..Len(f) : p.link[f[i]] = IF i = Len(f) THEN 0 ELSE f[i + 1]

(* The shape of the list: r slots that were given back, all of them at or  *)
(* below m, the highest slot ever handed out, then slots above m that were *)
(* never handed out, in increasing order.  Every slot up to m that is out  *)
(* of use is in the list, no slot up to m has cleared memory, and n is the *)
(* last slot in use.                                                       *)
Divided(p, f, m, r) ==
    /\ p.n <= m
    /\ p.n > 0 => p.st[p.n] = "live"
    /\ \A j \in 1..p.max : p.st[j] = "live" => j <= p.n
    /\ \A j \in 1..m : p.st[j] # "zero"
    /\ \A i \in 1..r : f[i] <= m /\ p.st[f[i]] = "nul"
    /\ \A i, j \in 1..r : f[i] = f[j] => i = j
    /\ \A j \in 1..m : p.st[j] = "nul" => \E i \in 1..r : f[i] = j
    /\ \A i \in (r + 1)..Len(f) : f[i] = m + i - r
    /\ m < p.max => p.link[p.max] = 0

FreeListOK(p, f) ==
    /\ Threaded(p, f)
    /\ \E m \in 0..p.max, r \in 0..Len(f) : Divided(p, f, m, r)
===============================================================================
