----------------------------- MODULE MCRoaster -----------------------------
(***************************************************************************)
(* Instances of Roaster for TLC.  The stage protocol does not depend on    *)
(* what an arc sends, so its runs leave the arcs without levels (nothing   *)
(* can be turned, and a touched arc sends a command that asks for nothing) *)
(* and the queues get the room instead.                                    *)
(***************************************************************************)
EXTENDS Roaster, TLC

NoLevels == {}
NoGarbage == {-1}

\* An untouched arc may hold "leave it alone" or no percentage at all.
MCLevels == {0, 60}
MCGarbage == {-1, 300}

\* Heap blocks are interchangeable.
SlotSymmetry == Permutations(Slot)
============================================================================
