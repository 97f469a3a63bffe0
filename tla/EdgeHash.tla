------------------------------- MODULE EdgeHash -------------------------------
(***************************************************************************)
(* The hash tables of edges and faces (common/hash.c).  The cells 0..siz-1 *)
(* are the heads of the chains; a chain goes on in the cells siz..max-1,   *)
(* which are taken in the order of a list of unused cells that starts at   *)
(* hash->nxt and is linked by the same field nxt as the chains.  Cell max  *)
(* is allocated too.  When the unused cells run out the table is           *)
(* reallocated, as far as the memory limit allows.                         *)
(*                                                                         *)
(* A table is filled by one of MMG5_hashEdge, MMG5_hashFace and            *)
(* MMG5_hashEdgeTag: kind says which.  The hash function is any function.  *)
(* stopped says that a call has failed: the callers modelled here check    *)
(* the value returned and leave the table.                                 *)
(***************************************************************************)
EXTENDS TabRecalloc

CONSTANTS Keys,            \* edges or faces, their vertices in increasing order
          Values, Tags,    \* what is stored: positive integers, masks of two bits
          HSiz, HMax,      \* the sizes given to MMG5_hashNew
          CellLimit,       \* cells that memMax leaves to this table
          GapNum, GapDen   \* MMG5_GAP or mesh->gap, the part the table grows by

ASSUME TableAssumption ==
    /\ HSiz \in Nat /\ HMax \in Nat /\ HSiz < HMax + 1
    /\ CellLimit \in Nat /\ HMax + 2 < CellLimit
    /\ GapNum \in Nat \ {0} /\ GapDen \in Nat \ {0}
    /\ Values \subseteq Nat \ {0} /\ Tags = 1..3
    /\ <<>> \notin Keys

VARIABLES kind,      \* the function that fills the table
          key,       \* the hash function
          item,      \* hash->item
          max, nxt,  \* hash->max and hash->nxt
          paid,      \* cells paid for
          ret,       \* what the last call returned
          stopped    \* a call has failed

vars == <<kind, key, item, max, nxt, paid, ret, stopped>>

None  == <<>>                                       \* a = 0
Siz   == HSiz + 1
Cells == 0..max
Gap   == [num |-> GapNum, den |-> GapDen]

(* Mutant of Link: the loop links the cell max too.                        *)
LinkPastEnd(cells, from, last) ==
    [c \in DOMAIN cells |->
        IF from <= c /\ c <= last + 1 THEN [cells[c] EXCEPT !.nxt = c + 1] ELSE cells[c]]

(* The links that MMG5_hashNew and the reallocations put in cells from     *)
(* .. last.                                                                *)
Link(cells, from, last) ==
    [c \in DOMAIN cells |->
        IF from <= c /\ c <= last THEN [cells[c] EXCEPT !.nxt = c + 1] ELSE cells[c]]

Blank(last) == [c \in 0..last |-> [e |-> None, k |-> 0, nxt |-> 0]]

(* MMG5_hashNew.                                                           *)
Init ==
    /\ kind \in {"edge", "face", "tag"}
    /\ key \in [Keys -> 0..HSiz]
    /\ max = HMax + 2
    /\ nxt = Siz
    /\ item = Link(Blank(max), Siz, max - 1)
    /\ paid = max + 1
    /\ ret = 1
    /\ stopped = FALSE

-------------------------------------------------------------------------------
(* The link of cell c, if it is neither 0 nor above last; -1 past the end. *)
LinkOf(cells, c, last) ==
    IF c # -1 /\ cells[c].nxt \in 1..last THEN cells[c].nxt ELSE -1

(* The cells of the chain that starts at head, in order.  There are no     *)
(* more than the table has: a walk that goes on after that never ends.     *)
Walk(cells, head, last) ==
    LET cell[i \in DOMAIN cells] ==
            IF i = 0 THEN head ELSE LinkOf(cells, cell[i - 1], last)
    IN  cell

VisitedFrom(cells, head, last) ==
    LET cell == Walk(cells, head, last) IN {cell[i] : i \in DOMAIN cells} \ {-1}

Visited(e, last) == VisitedFrom(item, key[e], last)
Endless(e, last) == LinkOf(item, Walk(item, key[e], last)[max], last) # -1

(* MMG5_hashGet follows every link, MMG5_hashEdge and the others only      *)
(* those below max.                                                        *)
Held(e)    == {c \in Visited(e, max) : item[c].e = e}
Known(e)   == {c \in Visited(e, max - 1) : item[c].e = e}
CellOf(S)  == CHOOSE c \in S : TRUE
LastOf(e)  == CHOOSE c \in Visited(e, max - 1) : item[c].nxt \notin 1..(max - 1)
HeadFree(e) == item[key[e]].e = None

HashGet(e) == IF HeadFree(e) \/ Held(e) = {} THEN 0 ELSE item[CellOf(Held(e))].k

Entry(e, v) == [e |-> e, k |-> v, nxt |-> 0]

(* MMG5_TAB_RECALLOC on hash->item: the cells it may leave, none when it   *)
(* fails.                                                                  *)
Grown == {g \in {Paid(w, 1, paid, CellLimit) : w \in Wanted(max, Gap)} : g >= 1}

Extended(cells, m, g) ==
    [c \in 0..(m + g) |-> IF c <= m THEN cells[c] ELSE Blank(m + g)[c]]

-------------------------------------------------------------------------------
(* An edge that is the first one with its key, for the three functions.    *)
AtHead(e, v, code) ==
    /\ HeadFree(e)
    /\ item' = [item EXCEPT ![key[e]] = Entry(e, v)]
    /\ ret' = code
    /\ UNCHANGED <<max, nxt, paid, stopped>>

(* MMG5_hashEdge makes sure there is an unused cell for the next edge      *)
(* before it fills the one it takes, but after it has linked it.           *)
HashEdgeKnown(e) ==
    /\ Known(e) # {}
    /\ ret' = 1
    /\ UNCHANGED <<item, max, nxt, paid, stopped>>

(* Mutant of HashEdgeAppend: the cell that is taken keeps its link.        *)
HashEdgeAppendLinked(e, v) ==
    /\ ~HeadFree(e) /\ Known(e) = {}
    /\ nxt < max - 1
    /\ item' = [item EXCEPT ![LastOf(e)].nxt = nxt, ![nxt] = [@ EXCEPT !.e = e, !.k = v]]
    /\ nxt' = item[nxt].nxt
    /\ ret' = 2
    /\ UNCHANGED <<max, paid, stopped>>

HashEdgeAppend(e, v) ==
    /\ ~HeadFree(e) /\ Known(e) = {}
    /\ nxt < max - 1
    /\ item' = [item EXCEPT ![LastOf(e)].nxt = nxt, ![nxt] = Entry(e, v)]
    /\ nxt' = item[nxt].nxt
    /\ ret' = 2
    /\ UNCHANGED <<max, paid, stopped>>

(* Mutant of HashEdgeGrow: the new cells are not linked.                   *)
HashEdgeGrowUnlinked(e, v) ==
    /\ ~HeadFree(e) /\ Known(e) = {}
    /\ nxt >= max - 1
    /\ \E g \in Grown :
         LET first  == item[nxt].nxt
             linked == [item EXCEPT ![LastOf(e)].nxt = nxt]
         IN  /\ item' = [Extended(linked, max, g) EXCEPT ![nxt] = Entry(e, v)]
             /\ nxt'  = first
             /\ max'  = max + g
             /\ paid' = paid + g
    /\ ret' = 2
    /\ UNCHANGED stopped

HashEdgeGrow(e, v) ==
    /\ ~HeadFree(e) /\ Known(e) = {}
    /\ nxt >= max - 1
    /\ \E g \in Grown :
         LET first  == item[nxt].nxt
             linked == [item EXCEPT ![LastOf(e)].nxt = nxt]
             longer == Link(Extended(linked, max, g), first, max + g - 1)
         IN  /\ item' = [longer EXCEPT ![nxt] = Entry(e, v)]
             /\ nxt'  = first
             /\ max'  = max + g
             /\ paid' = paid + g
    /\ ret' = 2
    /\ UNCHANGED stopped

HashEdgeFail(e) ==
    /\ ~HeadFree(e) /\ Known(e) = {}
    /\ nxt >= max - 1
    /\ Grown = {}
    /\ item' = [item EXCEPT ![LastOf(e)].nxt = nxt]
    /\ ret' = 0
    /\ stopped' = TRUE
    /\ UNCHANGED <<max, nxt, paid>>

HashEdge(e, v) ==
    \/ AtHead(e, v, 2) \/ HashEdgeKnown(e) \/ HashEdgeAppend(e, v)
    \/ HashEdgeGrow(e, v) \/ HashEdgeFail(e)

-------------------------------------------------------------------------------
(* MMG5_hashFace and MMG5_hashEdgeTag fill the cell first and make sure    *)
(* there is one for the next edge afterwards.                              *)
AddThenGrow(e, v, code) ==
    LET full   == [item EXCEPT ![LastOf(e)].nxt = nxt, ![nxt] = Entry(e, v)]
        second == item[nxt].nxt
    IN  /\ ~HeadFree(e) /\ Known(e) = {}
        /\ nxt' = second
        /\ \/ /\ second < max
              /\ item' = full
              /\ ret' = code
              /\ UNCHANGED <<max, paid, stopped>>
           \/ /\ second >= max
              /\ \E g \in Grown : /\ item' = Link(Extended(full, max, g), second, max + g - 1)
                                  /\ max'  = max + g
                                  /\ paid' = paid + g
              /\ ret' = code
              /\ UNCHANGED stopped
           \/ /\ second >= max
              /\ Grown = {}
              /\ item' = full
              /\ ret' = 0
              /\ stopped' = TRUE
              /\ UNCHANGED <<max, paid>>

HashFaceKnown(e) ==
    /\ Known(e) # {}
    /\ ret' = item[CellOf(Known(e))].k
    /\ UNCHANGED <<item, max, nxt, paid, stopped>>

HashFace(e, k) == AtHead(e, k, -1) \/ HashFaceKnown(e) \/ AddThenGrow(e, k, -1)

(* s | t, on masks of two bits.                                            *)
Or(s, t) == CHOOSE u \in Tags : \A bit \in {1, 2} :
                (u \div bit) % 2 = 1 <=> 1 \in {(s \div bit) % 2, (t \div bit) % 2}

(* Mutant of HashTagKnown: the tag replaces the one of before.             *)
HashTagReplaced(e, tag) ==
    /\ Known(e) # {}
    /\ item' = [item EXCEPT ![CellOf(Known(e))].k = tag]
    /\ ret'  = tag
    /\ UNCHANGED <<max, nxt, paid, stopped>>

HashTagKnown(e, tag) ==
    /\ Known(e) # {}
    /\ LET c == CellOf(Known(e))
       IN  /\ item' = [item EXCEPT ![c].k = Or(@, tag)]
           /\ ret'  = Or(item[c].k, tag)
    /\ UNCHANGED <<max, nxt, paid, stopped>>

HashEdgeTag(e, tag) ==
    AtHead(e, tag, tag) \/ HashTagKnown(e, tag) \/ AddThenGrow(e, tag, tag)

-------------------------------------------------------------------------------
(* MMG5_hashUpdate walks the chain up to a cell that holds no edge.        *)
HashUpdate(e, k) ==
    /\ \/ /\ ~HeadFree(e) /\ Held(e) # {}
          /\ item' = [item EXCEPT ![CellOf(Held(e))].k = k]
          /\ ret' = 1
       \/ /\ HeadFree(e) \/ Held(e) = {}
          /\ ret' = 0
          /\ UNCHANGED item
    /\ UNCHANGED <<max, nxt, paid, stopped>>

(* One call of a caller that has met no failure.                           *)
Next ==
    /\ ~stopped
    /\ \E e \in Keys :
         \/ kind = "edge" /\ \E v \in Values : HashEdge(e, v)
         \/ kind = "edge" /\ \E v \in Values \union {0} : HashUpdate(e, v)
         \/ kind = "face" /\ \E v \in Values : HashFace(e, v)
         \/ kind = "tag"  /\ \E t \in Tags : HashEdgeTag(e, t)
    /\ UNCHANGED <<kind, key>>

Spec == Init /\ [][Next]_vars

-------------------------------------------------------------------------------
(* Type invariant of a table.                                              *)
TypeOK ==
    /\ kind \in {"edge", "face", "tag"}
    /\ key \in [Keys -> 0..HSiz]
    /\ item \in [Cells -> [e : Keys \union {None}, k : Nat, nxt : 0..max]]
    /\ max \in Nat /\ nxt \in Siz..max /\ paid \in Nat
    /\ ret \in {-1, 0} \union Nat
    /\ stopped \in BOOLEAN

(* Every chain ends, even after a failure, and two chains share no cell:   *)
(* MMG5_hashGet returns, and the loops over the chains of the table visit  *)
(* each edge once.                                                         *)
ChainsApart ==
    /\ \A e \in Keys : ~Endless(e, max)
    /\ \A e, f \in Keys : key[e] # key[f] => Visited(e, max) \intersect Visited(f, max) = {}

(* The unused cells nxt .. max-1 are in no chain, hold no edge and lead to *)
(* one another, so that no edge that is listed is overwritten by the next  *)
(* one.                                                                    *)
UnusedCells ==
    ~stopped => /\ nxt \in Siz..(max - 1)
                /\ \A c \in nxt..(max - 1) : item[c] = [e |-> None, k |-> 0, nxt |-> c + 1]
                /\ \A e \in Keys : Visited(e, max) \intersect nxt..max = {}

(* What is stored for each edge that MMG5_hashGet finds.                   *)
Contents == [e \in {f \in Keys : ~HeadFree(f) /\ Held(f) # {}} |-> item[CellOf(Held(e))].k]

(* The table is the map its callers take it for, up to and including the   *)
(* first failure.                                                          *)
Map == INSTANCE EdgeMap WITH map <- Contents
MapOK == Map!Spec
===============================================================================
