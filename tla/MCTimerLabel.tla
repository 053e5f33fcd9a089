---------------------------- MODULE MCTimerLabel ----------------------------
(***************************************************************************)
(* Instances of TimerLabel for TLC. Neither the stage protocol nor a time  *)
(* depends on what an arc sends, so the arcs have no levels. Where there   *)
(* is no garbage either, a new arc has no value and the controls stay      *)
(* closed: a command that asks for no stage then comes from the box only.  *)
(***************************************************************************)
EXTENDS TimerLabel, TLC

NoLevels == {}

\* The heap may fail torra_task.
TorraOnly == {START}

TooMuch == {300}

SlotSymmetry == Permutations(Slot)
=============================================================================
