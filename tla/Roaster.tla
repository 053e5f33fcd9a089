------------------------------ MODULE Roaster ------------------------------
(***************************************************************************)
(* The firmware of the coffee roaster: the tasks app_main creates, the     *)
(* stage tasks the controller creates in turn, and the queues and shared   *)
(* record between them.  All of them are pinned to core 1.                 *)
(***************************************************************************)
EXTENDS Controller, Display

vars == <<dataVars, controllerVars, displayVars>>

TypeOK == DataTypeOK /\ ControllerTypeOK /\ DisplayTypeOK

Init == DataInit /\ ControllerInit /\ DisplayInit

ControllerRuns == ~panicked /\ ControllerStep /\ UNCHANGED displayVars

StageTaskRuns(s) == ~panicked /\ StageTaskStep(s) /\ UNCHANGED displayVars

DisplayRuns == ~panicked /\ DisplayStep /\ UNCHANGED controllerVars

\* The panic handler prints and restarts the chip (CONFIG_ESP_SYSTEM_PANIC),
\* and app_main starts from nothing: no state is kept in flash.
Reboot ==
  /\ panicked
  /\ incoming_queue_commands' = <<>>
  /\ event_broadcast_queue' = <<>>
  /\ read_state' = "OFF"
  /\ read_mode' = "MODE_NONE"
  /\ read_stage' = STAGE_OFF
  /\ read_actuator' = [a \in Actuator |-> 0]
  /\ ctl_pc' = "receive"
  /\ ctl_cmd' = EmptyCommand
  /\ ctl_arc' = 0
  /\ task' = [s \in Slot |-> Free]
  /\ handle' = [k \in TaskKind |-> NoTask]
  /\ recipe_set' = FALSE
  /\ failed' = {}
  /\ strayed' = FALSE
  /\ panicked' = FALSE
  /\ draw_pc' = "handler"
  /\ out' = EmptyCommand
  /\ screen' = "MENU"
  /\ current_content_type' = "CHART"
  /\ btn_stage' = NextStage(STAGE_OFF)
  /\ prompts' = 0
  /\ arc_value' = [a \in Actuator |-> 0]
  /\ debounced' = [a \in Actuator |-> TRUE]
  /\ awaiting' = FALSE

Next ==
  \/ ControllerRuns
  \/ \E s \in Slot : StageTaskRuns(s)
  \/ DisplayRuns
  \/ Reboot

Spec == Init /\ [][Next]_vars

(***************************************************************************)
(* Fairness.  The draw task has the highest priority and delays at the end *)
(* of every iteration, so it runs whenever it can.  The stage tasks come   *)
(* next and delay too; a slot of the event queue goes to the waiting task  *)
(* of the highest priority, so they are served before the controller. The  *)
(* controller, behind them, gets a slot because a stage task sleeps 100 ms *)
(* after its reports and the draw task frees a slot more often than that.  *)
(* Both may wait again and again, and get their turn again and again: that *)
(* is strong fairness.  What the operator does is never fair: NoGesture is *)
(* always a choice.                                                        *)
(***************************************************************************)
Fairness ==
  /\ WF_vars(DisplayRuns)
  /\ \A s \in Slot : SF_vars(StageTaskRuns(s))
  /\ SF_vars(ControllerRuns)
  /\ WF_vars(Reboot)

FairSpec == Spec /\ Fairness

-----------------------------------------------------------------------------
(* Safety, for any operator.                                               *)

\* However often the button is pressed while its label is out of date, no
\* command skips a stage or goes back: the commands on their way to the
\* controller (in its stage handler, in the queue, in the callback that is
\* sending) first repeat the present stage and then ask for the stage on the
\* button, which is the present one or its successor
\* (content_manager.c:53,200 against controller.c:88-180).
StagesInOrder ==
  LET queued(i) == incoming_queue_commands[i].stage
      places == 1 .. Len(incoming_queue_commands)
      later == {STAGE_NONE, btn_stage}
  IN  /\ btn_stage \in {read_stage, NextStage(read_stage)}
      /\ ctl_pc = "stage" => ctl_cmd.stage \in {read_stage, btn_stage}
      /\ \A i \in places : queued(i) \in later \cup {read_stage}
      /\ out.stage \in later
      /\ (ctl_pc = "stage" /\ ctl_cmd.stage = btn_stage) =>
           \A i \in places : queued(i) \in later
      /\ \A i, j \in places :
           (i < j /\ queued(i) = btn_stage) => queued(j) \in later

\* A button that offers the present stage again is about to be corrected:
\* its STAGE_EVENT is queued or the controller is still on its way to send
\* it. No order of opening screens and showing events loses the correction
\* (content_manager.c:41,52-54; controller.c:118,138,160,174).
StaleButtonNotified ==
  (screen = "MANUAL" /\ btn_stage # NextStage(read_stage)) =>
     \/ ctl_pc \in {"create", "notify_stage"}
     \/ \E i \in 1 .. Len(event_broadcast_queue) :
          event_broadcast_queue[i] = "STAGE_EVENT"

\* The task handles are uninitialised locals and read_recipe_data starts as a
\* null pointer (controller.c:48-50,383), yet by the time a stage's handler
\* runs, the recipe that START logs exists, and the handle it deletes has been
\* assigned, whatever the operator repeats: only a creation of that task which
\* failed, unnoticed, can have left it unset (controller.c:115,135,157).
HandlesReady ==
  (ctl_pc = "stage" /\ ctl_cmd.stage # PRE_HEATING) =>
     /\ recipe_set
     /\ LET kind == Predecessor(ctl_cmd.stage)
        IN  handle[kind] = NoTask => kind \in failed

\* read_stage, read_state and read_mode are written at different places, and
\* the gate in front of the actuators reads all three after sends that may
\* have waited: between commands they agree (controller.c:59-86,163-168).
StateFollowsStage ==
  ctl_pc = "receive" =>
     /\ (read_state = "ON") <=> (read_stage # STAGE_OFF)
     /\ (read_mode = "MANUAL") <=> (read_stage # STAGE_OFF)

\* The PWM duties change only while the machine heats or roasts, although the
\* gate is read once and the writes wait for the event queue in between
\* (controller.c:197-224).
ActuatorsGated ==
  [][read_actuator' # read_actuator =>
       panicked \/ read_stage \in {PRE_HEATING, START}]_vars

\* The stages as the button promises them.
Panel == INSTANCE StagePanel WITH stage <- read_stage, offer <- btn_stage

StageProtocol == Panel!PanelSpec

-----------------------------------------------------------------------------
(* Safety, for an operator who waits for the button to change.             *)

\* Outside the creation of a task there is exactly the task of the present
\* stage, where its handle says it is, or none if its creation failed: none is
\* orphaned, none outlives its stage, and a creation that failed does no harm
\* to later roasts unless the next handler traps
\* (controller.c:115,126,135,145,157,165).
OneStageTask ==
  /\ Live = IF read_stage \in failed \cup {STAGE_OFF} \/ ctl_pc = "create" THEN {}
            ELSE {handle[read_stage]}
  /\ \A s \in Live : task[s].kind = read_stage

\* Nothing but a failed creation of the present stage's task makes the firmware
\* delete what is no task, trap, or delete the controller.
NeverPanics == panicked \/ ctl_pc = "deleted" => read_stage \in failed

-----------------------------------------------------------------------------
(* Liveness, for an operator who waits for the button to change.           *)

\* The controller never waits for ever in a send: it comes back for the next
\* command (controller.c:56, and the eight sends of its handler), unless it has
\* deleted itself.
ControllerReturns ==
  (ctl_pc # "receive") ~> (ctl_pc \in {"receive", "deleted"})

\* A button on the screen that is out of date is brought up to date.
ButtonCatchesUp ==
  (screen = "MANUAL" /\ btn_stage # NextStage(read_stage))
     ~> (screen = "MENU" \/ btn_stage = NextStage(read_stage))

-----------------------------------------------------------------------------
(* What the repository says of the program and an impatient operator, or a *)
(* bare touch of an arc, disproves.                                        *)

\* main.c:20: the event queue "sera lida pelo LCD", will be read by the LCD.
DisplayKeepsReading == []<>(draw_pc = "event")

\* controller.c:382: read_recipe_data is the recipe that is being recorded.
\* The tasks that record, pre_heating_task and torra_task, write to it.
RecipeIsCurrent ==
  \A s \in Live : task[s].kind \in {PRE_HEATING, START} => task[s].current

\* common_controller.c:8: the machine at STAGE_OFF is shown as "DESLIGADO",
\* switched off.
OffMeansIdle ==
  (read_stage = STAGE_OFF /\ ctl_pc = "receive") =>
     \A a \in Actuator : read_actuator[a] = 0

\* controls.c:229: an actuator is a percentage.
ActuatorPercent == \A a \in Actuator : read_actuator[a] \in 0 .. 100
============================================================================
