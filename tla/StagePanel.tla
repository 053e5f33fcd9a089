----------------------------- MODULE StagePanel -----------------------------
(***************************************************************************)
(* What the stage button promises, without tasks, queues or commands: the  *)
(* roast goes round OFF, PRE_HEATING, START, COOLER one stage at a time,   *)
(* only to the stage that is on offer, and a stage is put on offer only    *)
(* while its predecessor is the stage of the machine.                      *)
(***************************************************************************)
EXTENDS Integers

VARIABLES stage,  \* the stage of the machine
          offer   \* the stage the button would ask for

panelVars == <<stage, offer>>

NumStages == 4
After(s) == (s + 1) % NumStages

PanelInit == stage = 0 /\ offer = After(0)

\* The machine reaches the stage on offer, and no button has noticed yet.
Advance ==
  /\ offer = After(stage)
  /\ stage' = offer
  /\ UNCHANGED offer

\* The button catches up with the machine.
Refresh ==
  /\ offer' = After(stage)
  /\ UNCHANGED stage

\* The firmware starts again.
Reset == stage' = 0 /\ offer' = After(0)

PanelNext == Advance \/ Refresh \/ Reset

PanelSpec == PanelInit /\ [][PanelNext]_panelVars
=============================================================================
