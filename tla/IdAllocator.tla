----------------------------- MODULE IdAllocator ------------------------------
(***************************************************************************)
(* What the remesher relies on when it creates and deletes vertices or     *)
(* triangles: an identifier that is handed out is not one somebody holds,  *)
(* an identifier stays valid until it is given back, whatever happens to   *)
(* the arrays meanwhile, and packing moves the identifiers in use, one by  *)
(* one, to smaller ones nobody holds, until the k of them are 1 .. k.      *)
(***************************************************************************)
EXTENDS Integers, FiniteSets

VARIABLES live, phase

Init == /\ live = 1..Cardinality(live)
        /\ phase = "open"

Alloc == /\ phase = "open"
         /\ \E id \in live' \ live : id \in Nat \ {0} /\ live' = live \union {id}
         /\ UNCHANGED phase

Free == /\ phase = "open"
        /\ \E id \in live : live' = live \ {id}
        /\ UNCHANGED phase

StartPack == phase = "open" /\ phase' = "packing" /\ UNCHANGED live

Move == /\ phase = "packing"
        /\ \E id \in live : \E new \in (1..(id - 1)) \ live :
               live' = (live \ {id}) \union {new}
        /\ UNCHANGED phase

EndPack == /\ phase = "packing"
           /\ live = 1..Cardinality(live)
           /\ phase' = "packed"
           /\ UNCHANGED live

Reopen == phase = "packed" /\ phase' = "open" /\ UNCHANGED live

Next == Alloc \/ Free \/ StartPack \/ Move \/ EndPack \/ Reopen

Spec == Init /\ [][Next]_<<live, phase>>
===============================================================================
