----------------------------- MODULE MCArcPanel -----------------------------
(***************************************************************************)
(* Instances of ArcPanel for TLC. An untouched arc holds "leave it alone". *)
(***************************************************************************)
EXTENDS ArcPanel, TLC

OneLevel == {60}
NoGarbage == {-1}

SlotSymmetry == Permutations(Slot)
=============================================================================
