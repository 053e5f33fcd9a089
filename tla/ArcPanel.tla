------------------------------ MODULE ArcPanel ------------------------------
(***************************************************************************)
(* The arcs of the manual screen against the actuators they set.           *)
(*                                                                         *)
(* Turning an arc moves it at once; the command goes out when the finger   *)
(* lifts, and the controller may refuse it without a word. An              *)
(* ACTUATOR_VALUE_EVENT puts every arc back to what the actuators are, but *)
(* not the number inside it, which is left out here.  Each action is one   *)
(* of Roaster, with what it does to the panel.                             *)
(*                                                                         *)
(* turned and refused record history; the program has no such variables.   *)
(*                                                                         *)
(* A definition marked "Slip" is a plausible mistake in the definition     *)
(* after it. Nothing uses it: it is there to see that a run would notice.  *)
(***************************************************************************)
EXTENDS Roaster

VARIABLES
  arc_shown,  \* the value of each lv_arc; 0 without arcs
  turned,     \* turned by the operator since the arcs were last refreshed
  refused     \* the gate refused a command of this arc since then

panelVars == <<arc_shown, turned, refused>>
arcVars == <<vars, panelVars>>

PanelTypeOK ==
  /\ arc_shown \in [Actuator -> 0 .. 100]
  /\ turned \in [Actuator -> BOOLEAN]
  /\ refused \in [Actuator -> BOOLEAN]

None == [a \in Actuator |-> FALSE]

ArcPanelInit ==
  /\ Init
  /\ arc_shown = NoArcs
  /\ turned = None
  /\ refused = None

-----------------------------------------------------------------------------
\* lv_arc_set_value keeps a value within the range of the arc.
Clamp(v) == IF v < 0 THEN 0 ELSE IF v > 100 THEN 100 ELSE v

ActuatorsOnArcs == [a \in Actuator |-> Clamp(read_actuator[a])]

\* Opening the controls shows the actuators; the chart and the menu have no arcs.
InitPanel ==
  /\ arc_shown' = IF current_content_type' = "CONTROLS" THEN ActuatorsOnArcs ELSE NoArcs
  /\ turned' = None
  /\ refused' = None

ChangeContent == (OpenManual \/ GoBack \/ ToggleContent) /\ InitPanel

\* The finger has moved the arc to arc_value'[a] when the callback is called.
TurnShownArc(a) ==
  /\ TurnArc(a)
  /\ arc_shown' = [arc_shown EXCEPT ![a] = arc_value'[a]]
  /\ turned' = [turned EXCEPT ![a] = TRUE]
  /\ UNCHANGED refused

\* Slip: the arcs are left where the operator put them.
RefreshNothing == UNCHANGED arc_shown

\* The arcs, not the labels.
RefreshArcs == arc_shown' = ActuatorsOnArcs

\* content_manager_update hands the event to the content that is shown.
ShowActuators ==
  /\ HandleEvent
  /\ IF /\ Head(event_broadcast_queue) = "ACTUATOR_VALUE_EVENT"
        /\ current_content_type = "CONTROLS"
     THEN RefreshArcs /\ turned' = None /\ refused' = None
     ELSE UNCHANGED <<arc_shown, turned, refused>>

DisplayLeavesArcs ==
  /\ \/ NoGesture \/ PressStage \/ AnswerNo \/ AnswerSave
     \/ (\E a \in Actuator : ReleaseArc(a))
     \/ SendCommand \/ NoEvent
  /\ UNCHANGED panelVars

\* A command that finds the gate closed.
GateWithHistory ==
  /\ Gate
  /\ refused' = [a \in Actuator |->
                   refused[a] \/ (~ActuatorsEnabled /\ ctl_cmd.write[a] # -1)]
  /\ UNCHANGED <<arc_shown, turned>>

ControllerLeavesArcs ==
  /\ \/ ReceiveCommand \/ BeginPreHeating \/ BeginSuccessor \/ BeginOff
     \/ DeleteTraps \/ CreateStageTask \/ CreationFails \/ NotifyStage
     \/ SkipActuator \/ WriteActuator \/ NotifyActuator
  /\ UNCHANGED panelVars

RebootPanel == Reboot /\ InitPanel

PanelController ==
  ~panicked /\ (GateWithHistory \/ ControllerLeavesArcs) /\ UNCHANGED displayVars

PanelTask(s) == StageTaskRuns(s) /\ UNCHANGED panelVars

PanelDisplay ==
  /\ ~panicked
  /\ \/ ChangeContent
     \/ \E a \in Actuator : TurnShownArc(a)
     \/ ShowActuators
     \/ DisplayLeavesArcs
  /\ UNCHANGED controllerVars

ArcPanelNext ==
  \/ PanelController
  \/ \E s \in Slot : PanelTask(s)
  \/ PanelDisplay
  \/ RebootPanel

ArcPanelSpec == ArcPanelInit /\ [][ArcPanelNext]_arcVars

-----------------------------------------------------------------------------
ControlsShown == screen = "MANUAL" /\ current_content_type = "CONTROLS"

ActuatorEventComing ==
  \/ ctl_pc = "notify_write"
  \/ \E i \in 1 .. Len(event_broadcast_queue) :
       event_broadcast_queue[i] = "ACTUATOR_VALUE_EVENT"

\* No command is on its way to the controller and no event to the display.
Settled ==
  /\ ctl_pc = "receive"
  /\ incoming_queue_commands = <<>>
  /\ event_broadcast_queue = <<>>
  /\ draw_pc # "send"
  /\ \A a \in Actuator : debounced[a]

\* An arc nobody has turned shows its actuator, or the event that will correct
\* it is on its way: no order of opening the controls, writing the actuators
\* and showing events leaves it wrong (controls.c:46-48,63-67;
\* controller.c:201-207).
ArcFollowsActuator ==
  \A a \in Actuator :
    (ControlsShown /\ ~turned[a] /\ arc_shown[a] # ActuatorsOnArcs[a])
      => ActuatorEventComing

\* When everything has come to rest, an arc that does not show its actuator
\* was turned, and the gate refused the command it sent: what the controller
\* accepts is shown, however it overtook or was overtaken by later turns
\* (controls.c:165-198 against controller.c:197-224).
RestingArcsAgree ==
  Settled /\ ControlsShown =>
    \A a \in Actuator : arc_shown[a] = ActuatorsOnArcs[a] \/ refused[a]
=============================================================================
