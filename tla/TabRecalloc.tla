------------------------------ MODULE TabRecalloc -----------------------------
(***************************************************************************)
(* The arithmetic of MMG5_TAB_RECALLOC: every table of the remesher that   *)
(* runs out of room grows by a part of its size (mesh->gap or MMG5_GAP),   *)
(* by at least one cell, and by what the memory limit leaves when that is  *)
(* less.                                                                   *)
(***************************************************************************)
EXTENDS Integers

AtLeast1(k) == IF k < 1 THEN 1 ELSE k

(* gap = floor(wantedGap * size), at least 1.  The product is a floating   *)
(* point one: when it is an integer it may come out just below it.         *)
Wanted(size, ratio) ==
    LET q == (ratio.num * size) \div ratio.den
    IN  {AtLeast1(q)} \union
        (IF (ratio.num * size) % ratio.den = 0 THEN {AtLeast1(q - 1)} ELSE {})

(* Mutant of Paid: the limit is not looked at.                             *)
PaidInFull(wanted, bytes, used, limit) == wanted

(* The cells that are paid for; the macro gives up when there is none.     *)
Paid(wanted, bytes, used, limit) ==
    IF used + wanted * bytes <= limit THEN wanted ELSE (limit - used) \div bytes
===============================================================================
