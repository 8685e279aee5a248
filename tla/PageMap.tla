------------------------------- MODULE PageMap -------------------------------
(***************************************************************************)
(* What nxu_mmu_map and nxu_mmu_leaf promise of the identity map: a page    *)
(* has the attribute it was last given, or none. Space.tla is written over  *)
(* such a map, and Translate.tla shows that the tables of                   *)
(* silicon/aarch64/translate/mmu.c are one.                                 *)
(***************************************************************************)
CONSTANTS Page, Perm, None

VARIABLES map, live

Init == map = [p \in Page |-> None] /\ live = TRUE

\* One page of a range is given its attribute.
Set(p, perm) ==
  /\ live
  /\ map' = [map EXCEPT ![p] = perm]
  /\ UNCHANGED live

\* The tables ran out: the boot halts, and the pages keep what they have.
Fail == live /\ live' = FALSE /\ UNCHANGED map

Next == Fail \/ \E p \in Page, perm \in Perm : Set(p, perm)

Spec == Init /\ [][Next]_<<map, live>>
==============================================================================
