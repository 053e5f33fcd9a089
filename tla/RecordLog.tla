----------------------------- MODULE RecordLog -----------------------------
(***************************************************************************)
(* What the record of a roast promises, without a heap or pointers: two    *)
(* logs, of the actuators and of the sensors, begun one after the other,   *)
(* that then only grow, and in step, each entry stamped with its time.     *)
(*                                                                         *)
(* A repeated START begins them anew: the entries of the roast so far are  *)
(* lost, and between the two beginnings a recipe of one entry stands       *)
(* beside the sensor log of the roast that was given up.                   *)
(***************************************************************************)
EXTENDS Integers, Sequences, SequencesExt

VARIABLES recipe,  \* times of the actuator entries
          sensor   \* times of the sensor entries

logVars == <<recipe, sensor>>

LogInit == recipe = <<>> /\ sensor = <<>>

\* A new roast is prepared, or the firmware starts again.
Clear == recipe' = <<>> /\ sensor' = <<>>

\* The roast begins, or begins anew: only when both logs are complete.
BeginRecipe == recipe = sensor /\ recipe' = <<0>> /\ UNCHANGED sensor

\* Until the sensor log has followed, whatever it held, nothing is appended.
BeginSensor == recipe = <<0>> /\ sensor' = <<0>> /\ UNCHANGED recipe

\* An entry is later than all before it.
AppendRecipe ==
  /\ recipe # <<>>
  /\ recipe = sensor
  /\ recipe' # <<>>
  /\ Front(recipe') = recipe
  /\ Last(recipe') > Last(recipe)
  /\ UNCHANGED sensor

\* Its counterpart has the same time.
AppendSensor ==
  /\ sensor # recipe
  /\ sensor' = Append(sensor, Last(recipe))
  /\ sensor' = recipe
  /\ UNCHANGED recipe

LogNext == Clear \/ BeginRecipe \/ BeginSensor \/ AppendRecipe \/ AppendSensor

LogSpec == LogInit /\ [][LogNext]_logVars
============================================================================
