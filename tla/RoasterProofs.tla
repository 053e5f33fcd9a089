--------------------------- MODULE RoasterProofs ---------------------------
(***************************************************************************)
(* Theorems about Roaster, for every queue length, number of actuators,    *)
(* heap and operator.                                                      *)
(***************************************************************************)
EXTENDS Roaster, TLAPS

-----------------------------------------------------------------------------
(* Lemmas about the data.                                                  *)

\* The successor of a stage is another stage: content_manager.c:41,53.
LEMMA NextStageFacts ==
  ASSUME NEW s \in Stage
  PROVE  NextStage(s) \in Stage /\ NextStage(s) # s
  BY DEF Stage, NextStage, STAGE_OFF, COOLER

\* What xQueueReceive takes from a queue and leaves in it.
LEMMA ReceiveFacts ==
  ASSUME NEW S, NEW q \in Seq(S), q # <<>>
  PROVE  /\ Head(q) \in S /\ Head(q) = q[1] /\ Len(q) \in Nat /\ Len(q) >= 1
         /\ Tail(q) \in Seq(S) /\ Len(Tail(q)) = Len(q) - 1
         /\ \A i \in 1 .. Len(Tail(q)) :
              i + 1 \in 1 .. Len(q) /\ Tail(q)[i] = q[i + 1]
  OBVIOUS

\* What xQueueSend makes of a queue.
LEMMA SendFacts ==
  ASSUME NEW S, NEW q \in Seq(S), NEW e \in S
  PROVE  /\ Append(q, e) \in Seq(S) /\ Len(q) \in Nat
         /\ Len(Append(q, e)) = Len(q) + 1
         /\ Append(q, e)[Len(q) + 1] = e
         /\ \A i \in 1 .. Len(q) : Append(q, e)[i] = q[i]
  OBVIOUS

LEMMA EmptyCommandType == EmptyCommand \in Command
  BY DEF EmptyCommand, Command

LEMMA ReportType ==
  ASSUME NEW kind PROVE Report(kind) \in Seq(Event)
<1>1. CASE kind = PRE_HEATING
  BY <1>1 DEF Report, Event
<1>2. CASE kind # PRE_HEATING /\ kind = START
  <2>1. <<"TIMER_VALUE_EVENT", "SENSOR_VALUE_EVENT">> \in Seq(Event)
    BY DEF Event
  <2> QED
    BY <1>2, <2>1 DEF Report
<1>3. CASE kind # PRE_HEATING /\ kind # START
  BY <1>3 DEF Report, Event
<1> QED
  BY <1>1, <1>2, <1>3

\* What a heap block can hold.
Block == [kind : TaskKind \cup {STAGE_NONE}, todo : Seq(Event), current : BOOLEAN]

LEMMA FreeType == Free \in Block
<1>1. <<>> \in Seq(Event)
  OBVIOUS
<1> QED
  BY <1>1 DEF Free, Block

-----------------------------------------------------------------------------
(* Types, together with what each place of the controller's handler knows. *)

ControlOK ==
  /\ ctl_pc = "stage" => ctl_cmd.stage \in Stage
  /\ ctl_pc = "create" => ctl_cmd.stage = read_stage /\ read_stage \in TaskKind
  /\ ctl_pc = "notify_write" => ctl_arc < NumActuators
  /\ draw_pc # "send" => out = EmptyCommand

USE DataAssumption, SlotAssumption, OperatorAssumption
  DEF DataAssumption, SlotAssumption, OperatorAssumption

\* The Boolean variables are kept apart: the provers want them alone.
BooleansOK ==
  /\ recipe_set \in BOOLEAN /\ strayed \in BOOLEAN /\ panicked \in BOOLEAN
  /\ awaiting \in BOOLEAN

ControllerTypes ==
  /\ ctl_pc \in {"receive", "stage", "create", "notify_stage", "gate",
                 "write", "notify_write", "deleted"}
  /\ ctl_cmd \in Command
  /\ ctl_arc \in 0 .. NumActuators
  /\ task \in [Slot -> Block]
  /\ handle \in [TaskKind -> Slot \cup {NoTask}]
  /\ failed \subseteq TaskKind

DisplayTypes ==
  /\ draw_pc \in {"handler", "send", "event"}
  /\ out \in Command
  /\ screen \in {"MENU", "MANUAL"}
  /\ current_content_type \in {"CHART", "CONTROLS"}
  /\ btn_stage \in Stage
  /\ prompts \in 0 .. MaxPrompts
  /\ arc_value \in [Actuator -> Int]
  /\ debounced \in [Actuator -> BOOLEAN]

Types == DataTypeOK /\ ControllerTypes /\ DisplayTypes /\ ControlOK

LEMMA TypesSuffice == Types /\ BooleansOK <=> TypeOK /\ ControlOK
  BY ZenonT(30) DEF Types, BooleansOK, TypeOK, ControllerTypeOK, DisplayTypeOK,
     ControllerTypes, DisplayTypes, Block

\* The state app_main starts from, and the one Reboot leads to.
LEMMA InitTypes == Init => Types
<1> SUFFICES ASSUME Init PROVE Types
  OBVIOUS
<1>1. DataTypeOK
  BY DEF Init, DataInit, DataTypeOK, Stage, STAGE_OFF, COOLER, Actuator
<1>2. ControllerTypes
  BY EmptyCommandType, FreeType DEF Init, ControllerInit, ControllerTypes
<1>3. DisplayTypes
  <2>1. NextStage(STAGE_OFF) \in Stage
    BY DEF NextStage, Stage, STAGE_OFF, COOLER
  <2> QED
    BY <2>1, EmptyCommandType DEF Init, DisplayInit, DisplayTypes
<1>4. ControlOK
  BY DEF Init, ControllerInit, DisplayInit, ControlOK
<1> QED
  BY <1>1, <1>2, <1>3, <1>4 DEF Types

LEMMA RebootTypes == Reboot => Types'
<1> SUFFICES ASSUME Reboot PROVE Types'
  OBVIOUS
<1>1. DataTypeOK'
  BY DEF Reboot, DataTypeOK, Stage, STAGE_OFF, COOLER, Actuator
<1>2. ControllerTypes'
  BY EmptyCommandType, FreeType DEF Reboot, ControllerTypes
<1>3. DisplayTypes'
  <2>1. NextStage(STAGE_OFF) \in Stage
    BY DEF NextStage, Stage, STAGE_OFF, COOLER
  <2> QED
    BY <2>1, EmptyCommandType DEF Reboot, DisplayTypes
<1>4. ControlOK'
  BY DEF Reboot, ControlOK
<1> QED
  BY <1>1, <1>2, <1>3, <1>4 DEF Types

\* Booleans are only ever assigned Booleans.
LEMMA BooleansStep == BooleansOK /\ [Next]_vars => BooleansOK'
<1> SUFFICES ASSUME BooleansOK, [Next]_vars PROVE BooleansOK'
  OBVIOUS
<1> USE DEF BooleansOK, faults
<1>1. CASE ControllerRuns
  BY <1>1 DEF ControllerRuns, DeleteTask, displayVars, dataVars, ControllerStep, ReceiveCommand,
     BeginPreHeating, BeginSuccessor, BeginOff, DeleteTraps, CreateStageTask, CreationFails,
     NotifyStage, Gate, SkipActuator, WriteActuator, NotifyActuator
<1>2. ASSUME NEW s \in Slot, StageTaskRuns(s) PROVE BooleansOK'
  BY <1>2 DEF StageTaskRuns, StageTaskStep, Wake, SendReport, displayVars
<1>3. CASE DisplayRuns
  BY <1>3 DEF DisplayRuns, controllerVars, DisplayStep, NoGesture, Gesture,
     OpenManual, GoBack, ToggleContent, PressStage, AnswerNo, AnswerSave,
     TurnArc, ReleaseArc, SendCommand, HandleEvent, NoEvent
<1>4. CASE Reboot
  BY <1>4 DEF Reboot
<1>5. CASE UNCHANGED vars
  BY <1>5 DEF vars, controllerVars, displayVars
<1> QED
  BY <1>1, <1>2, <1>3, <1>4, <1>5 DEF Next

\* Every action of the controller keeps the types.
LEMMA ControllerTypesStep == Types /\ ControllerRuns => Types'
<1> SUFFICES ASSUME Types, ControllerStep, UNCHANGED displayVars PROVE Types'
  BY DEF ControllerRuns
<1> USE DEF Types, faults
<1>d. DisplayTypes' /\ out' = out /\ draw_pc' = draw_pc
  BY DEF displayVars, DisplayTypes
<1>1. CASE ReceiveCommand
  <2> DEFINE cmd == Head(incoming_queue_commands)
  <2>1. /\ cmd \in Command
        /\ Tail(incoming_queue_commands) \in Seq(Command)
        /\ Len(Tail(incoming_queue_commands)) <= CommandQueueLen
    <3>1. /\ incoming_queue_commands \in Seq(Command)
          /\ incoming_queue_commands # <<>>
          /\ Len(incoming_queue_commands) <= CommandQueueLen
      BY <1>1 DEF ReceiveCommand, DataTypeOK
    <3> QED
      BY <3>1, ReceiveFacts
  <2>2. /\ cmd.state \in {"STATE_NONE", "ON", "OFF"}
        /\ cmd.mode \in {"MODE_NONE", "MANUAL", "AUTO"}
        /\ cmd.stage \in Stage \cup {STAGE_NONE}
    BY <2>1 DEF Command
  <2>3. DataTypeOK'
    BY <1>1, <2>1, <2>2 DEF ReceiveCommand, DataTypeOK
  <2>4. ControllerTypes'
    BY <1>1, <2>1 DEF ReceiveCommand, ControllerTypes
  <2>5. ControlOK'
    BY <1>1, <1>d, <2>2 DEF ReceiveCommand, ControlOK
  <2> QED
    BY <1>d, <2>3, <2>4, <2>5
<1>2. CASE BeginPreHeating
  <2>1. DataTypeOK'
    BY <1>2 DEF BeginPreHeating, DataTypeOK, Stage, STAGE_OFF, COOLER, PRE_HEATING
  <2>2. ControllerTypes'
    BY <1>2 DEF BeginPreHeating, ControllerTypes, Block
  <2>3. ControlOK'
    BY <1>2, <1>d DEF BeginPreHeating, ControlOK, TaskKind
  <2> QED
    BY <1>d, <2>1, <2>2, <2>3
<1>3. CASE BeginSuccessor
  <2>1. DataTypeOK'
    BY <1>3 DEF BeginSuccessor, DataTypeOK, Stage, STAGE_OFF, COOLER, START
  <2>2. ControllerTypes'
    BY <1>3, FreeType DEF BeginSuccessor, ControllerTypes, DeleteTask
  <2>3. ControlOK'
    BY <1>3, <1>d DEF BeginSuccessor, ControlOK, TaskKind
  <2> QED
    BY <1>d, <2>1, <2>2, <2>3
<1>4. CASE BeginOff
  <2>1. DataTypeOK'
    BY <1>4 DEF BeginOff, SwitchOff, DataTypeOK, Stage, STAGE_OFF, COOLER
  <2>2. ControllerTypes'
    BY <1>4, FreeType DEF BeginOff, ControllerTypes, DeleteTask
  <2>3. ControlOK'
    BY <1>4, <1>d DEF BeginOff, ControlOK
  <2> QED
    BY <1>d, <2>1, <2>2, <2>3
<1>5. CASE DeleteTraps
  <2>1. DataTypeOK'
    BY <1>5 DEF DeleteTraps, DataTypeOK, dataVars
  <2>2. ControllerTypes' /\ ControlOK'
    BY <1>5, <1>d DEF DeleteTraps, ControllerTypes, ControlOK, dataVars
  <2> QED
    BY <1>d, <2>1, <2>2
<1>6. CASE CreateStageTask
  <2>1. DataTypeOK'
    BY <1>6 DEF CreateStageTask, DataTypeOK, dataVars
  <2>2. ControllerTypes'
    <3>1. /\ ctl_pc' = "notify_stage" /\ ctl_cmd' = ctl_cmd /\ ctl_arc' = ctl_arc
          /\ ctl_cmd.stage \in TaskKind
      BY <1>6 DEF CreateStageTask, ControlOK
    <3>2. NewTask(ctl_cmd.stage) \in Block
      <4>1. <<>> \in Seq(Event)
        OBVIOUS
      <4> QED
        BY <3>1, <4>1 DEF NewTask, Block
    <3>3. /\ task' \in [Slot -> Block]
          /\ handle' \in [TaskKind -> Slot \cup {NoTask}]
      BY <1>6, <3>1, <3>2 DEF CreateStageTask, StoreHandle, ControllerTypes
    <3>4. failed' \subseteq TaskKind
      BY <1>6 DEF CreateStageTask, ControllerTypes
    <3> QED
      BY <3>1, <3>3, <3>4 DEF ControllerTypes
  <2>3. ControlOK'
    BY <1>6, <1>d DEF CreateStageTask, ControlOK
  <2> QED
    BY <1>d, <2>1, <2>2, <2>3
<1>7. CASE NotifyStage
  <2>1. DataTypeOK'
    BY <1>7, SendFacts DEF NotifyStage, Broadcast, DataTypeOK, Event
  <2>2. ControllerTypes' /\ ControlOK'
    BY <1>7, <1>d DEF NotifyStage, ControllerTypes, ControlOK
  <2> QED
    BY <1>d, <2>1, <2>2
<1>8. CASE Gate
  <2>1. DataTypeOK'
    BY <1>8 DEF Gate, DataTypeOK, dataVars
  <2>2. ControllerTypes' /\ ControlOK'
    BY <1>8, <1>d, EmptyCommandType DEF Gate, ControllerTypes, ControlOK
  <2> QED
    BY <1>d, <2>1, <2>2
<1>9. CASE SkipActuator
  <2>1. DataTypeOK'
    BY <1>9 DEF SkipActuator, DataTypeOK, dataVars
  <2>2. ControllerTypes' /\ ControlOK'
    BY <1>9, <1>d, EmptyCommandType DEF SkipActuator, ControllerTypes, ControlOK
  <2> QED
    BY <1>d, <2>1, <2>2
<1>10. CASE WriteActuator
  <2>1. ctl_arc \in Actuator /\ ctl_cmd.write[ctl_arc] \in Int
    BY <1>10 DEF WriteActuator, ControllerTypes, Actuator, Command
  <2>2. DataTypeOK'
    BY <1>10, <2>1 DEF WriteActuator, DataTypeOK
  <2>3. ControllerTypes' /\ ControlOK'
    BY <1>10, <1>d DEF WriteActuator, ControllerTypes, ControlOK
  <2> QED
    BY <1>d, <2>2, <2>3
<1>11. CASE NotifyActuator
  <2>1. DataTypeOK'
    BY <1>11, SendFacts DEF NotifyActuator, Broadcast, DataTypeOK, Event
  <2>2. ControllerTypes' /\ ControlOK'
    BY <1>11, <1>d DEF NotifyActuator, ControllerTypes, ControlOK
  <2> QED
    BY <1>d, <2>1, <2>2
<1>12. CASE CreationFails
  <2>1. DataTypeOK'
    BY <1>12 DEF CreationFails, DataTypeOK, dataVars
  <2>2. ControllerTypes' /\ ControlOK'
    BY <1>12, <1>d DEF CreationFails, ControllerTypes, ControlOK, dataVars
  <2> QED
    BY <1>d, <2>1, <2>2
<1> QED
  BY <1>1, <1>2, <1>3, <1>4, <1>5, <1>6, <1>7, <1>8, <1>9, <1>10, <1>11, <1>12
     DEF ControllerStep

\* So does every action of a stage task.
LEMMA StageTaskTypesStep ==
  ASSUME NEW s \in Slot PROVE Types /\ StageTaskRuns(s) => Types'
<1> SUFFICES ASSUME Types, StageTaskStep(s), UNCHANGED displayVars PROVE Types'
  BY DEF StageTaskRuns
<1> USE DEF Types, faults
<1>d. DisplayTypes' /\ out' = out /\ draw_pc' = draw_pc
  BY DEF displayVars, DisplayTypes
<1>1. CASE Wake(s)
  <2>1. DataTypeOK'
    BY <1>1 DEF Wake, DataTypeOK, dataVars
  <2>2. ControllerTypes'
    BY <1>1, ReportType DEF Wake, ControllerTypes, Block
  <2>3. ControlOK'
    BY <1>1, <1>d DEF Wake, ControlOK, dataVars
  <2> QED
    BY <1>d, <2>1, <2>2, <2>3
<1>2. CASE SendReport(s)
  <2>1. task[s].todo \in Seq(Event) /\ task[s].todo # <<>>
    BY <1>2 DEF SendReport, ControllerTypes, Block
  <2>2. Head(task[s].todo) \in Event /\ Tail(task[s].todo) \in Seq(Event)
    BY <2>1, ReceiveFacts
  <2>3. DataTypeOK'
    BY <1>2, <2>2, SendFacts DEF SendReport, Broadcast, DataTypeOK
  <2>4. ControllerTypes'
    BY <1>2, <2>2 DEF SendReport, ControllerTypes, Block
  <2>5. ControlOK'
    BY <1>2, <1>d DEF SendReport, ControlOK
  <2> QED
    BY <1>d, <2>3, <2>4, <2>5
<1> QED
  BY <1>1, <1>2 DEF StageTaskStep

\* A callback's command is a command.
LEMMA StageCommandType ==
  ASSUME NEW s \in Stage
  PROVE  [EmptyCommand EXCEPT !.state = "ON", !.mode = "MANUAL", !.stage = s]
           \in Command
  BY EmptyCommandType DEF Command

LEMMA EraseCommandType == [EmptyCommand EXCEPT !.choice = "ERASE"] \in Command
  BY EmptyCommandType DEF Command

LEMMA ArcCommandType ==
  ASSUME NEW a \in Actuator, NEW v \in Int
  PROVE  [EmptyCommand EXCEPT !.write[a] = v] \in Command
  BY EmptyCommandType DEF Command

\* And so does every action of the draw task.
LEMMA DisplayTypesStep == Types /\ DisplayRuns => Types'
<1> SUFFICES ASSUME Types, DisplayStep, UNCHANGED controllerVars PROVE Types'
  BY DEF DisplayRuns
<1> USE DEF Types
<1>c. ControllerTypes' /\ ctl_pc' = ctl_pc /\ ctl_cmd' = ctl_cmd /\ ctl_arc' = ctl_arc
  BY DEF controllerVars, faults, ControllerTypes
\* While a callback runs, only the screen and what it will send change.
<1>g. ASSUME UNCHANGED dataVars, draw_pc' = "send" \/ out' = EmptyCommand
      PROVE  DataTypeOK' /\ ControlOK'
  BY <1>g, <1>c DEF dataVars, DataTypeOK, ControlOK
<1>1. CASE NoGesture
  <2>1. DisplayTypes'
    BY <1>1 DEF NoGesture, DisplayTypes
  <2> QED
    BY <1>1, <1>c, <1>g, <2>1 DEF NoGesture, ControlOK
<1>2. CASE OpenManual
  <2>1. btn_stage' \in Stage
    BY <1>2, NextStageFacts DEF OpenManual, OfferOnOpen, DataTypeOK
  <2>2. DisplayTypes'
    BY <1>2, <2>1 DEF OpenManual, DisplayTypes
  <2> QED
    BY <1>2, <1>c, <1>g, <2>2 DEF OpenManual, FreeFinger, ControlOK
<1>3. CASE GoBack
  <2>1. DisplayTypes'
    BY <1>3 DEF GoBack, NoArcs, DisplayTypes
  <2> QED
    BY <1>3, <1>c, <1>g, <2>1 DEF GoBack, FreeFinger, ControlOK
<1>4. CASE ToggleContent
  <2>1. arc_value' \in [Actuator -> Int]
    <3>1. CASE current_content_type = "CHART"
      <4>1. arc_value' \in [Actuator -> Garbage] /\ Garbage \subseteq Int
        BY <1>4, <3>1 DEF ToggleContent
      <4> QED
        BY <4>1
    <3>2. CASE current_content_type = "CONTROLS"
      BY <1>4, <3>2 DEF ToggleContent, NoArcs
    <3> QED
      BY <1>4, <3>1, <3>2 DEF ToggleContent
  <2>2. DisplayTypes'
    BY <1>4, <2>1 DEF ToggleContent, DisplayTypes
  <2> QED
    BY <1>4, <1>c, <1>g, <2>2 DEF ToggleContent, FreeFinger, ControlOK
<1>5. CASE PressStage
  <2>1. out' \in Command
    BY <1>5, StageCommandType DEF PressStage, DisplayTypes
  <2>2. prompts' \in 0 .. MaxPrompts
    BY <1>5 DEF PressStage, DisplayTypes
  <2>3. DisplayTypes'
    BY <1>5, <2>1, <2>2 DEF PressStage, DisplayTypes
  <2> QED
    BY <1>5, <1>c, <1>g, <2>3 DEF PressStage
<1>6. CASE AnswerNo
  <2>1. DisplayTypes'
    BY <1>6, EraseCommandType DEF AnswerNo, DisplayTypes
  <2> QED
    BY <1>6, <1>c, <1>g, <2>1 DEF AnswerNo
<1>7. CASE AnswerSave
  <2>1. DisplayTypes'
    BY <1>7 DEF AnswerSave, DisplayTypes
  <2> QED
    BY <1>7, <1>c, <1>g, <2>1 DEF AnswerSave, FreeFinger, ControlOK
<1>8. ASSUME NEW a \in Actuator, TurnArc(a) PROVE Types'
  <2>1. DisplayTypes'
    BY <1>8 DEF TurnArc, DisplayTypes
  <2> QED
    BY <1>8, <1>c, <1>g, <2>1 DEF TurnArc, OnArc, ControlOK
<1>9. ASSUME NEW a \in Actuator, ReleaseArc(a) PROVE Types'
  <2>1. out' \in Command
    BY <1>9, ArcCommandType DEF ReleaseArc, DisplayTypes
  <2>2. DisplayTypes'
    BY <1>9, <2>1 DEF ReleaseArc, DisplayTypes
  <2> QED
    BY <1>9, <1>c, <1>g, <2>2 DEF ReleaseArc
<1>10. CASE SendCommand
  <2>1. DataTypeOK'
    BY <1>10, SendFacts DEF SendCommand, DataTypeOK, DisplayTypes
  <2>2. DisplayTypes' /\ ControlOK'
    BY <1>10, <1>c, EmptyCommandType DEF SendCommand, DisplayTypes, ControlOK
  <2> QED
    BY <1>c, <2>1, <2>2
<1>11. CASE HandleEvent
  <2>1. btn_stage' \in Stage
    BY <1>11, NextStageFacts DEF HandleEvent, ShownOffer, DataTypeOK, DisplayTypes
  <2>2. DataTypeOK'
    BY <1>11, ReceiveFacts DEF HandleEvent, RemoveEvent, DataTypeOK
  <2>3. DisplayTypes' /\ ControlOK'
    BY <1>11, <1>c, <2>1 DEF HandleEvent, DisplayTypes, ControlOK
  <2> QED
    BY <1>c, <2>2, <2>3
<1>12. CASE NoEvent
  <2>1. DisplayTypes'
    BY <1>12 DEF NoEvent, DisplayTypes
  <2> QED
    BY <1>12, <1>c, <1>g, <2>1 DEF NoEvent, ControlOK
<1> QED
  BY <1>1, <1>2, <1>3, <1>4, <1>5, <1>6, <1>7, <1>8, <1>9, <1>10, <1>11, <1>12
     DEF DisplayStep, Gesture

LEMMA TypesStep == Types /\ [Next]_vars => Types'
<1> SUFFICES ASSUME Types, [Next]_vars PROVE Types'
  OBVIOUS
<1>1. CASE UNCHANGED vars
  BY <1>1 DEF vars, dataVars, controllerVars, displayVars, faults, Types, DataTypeOK,
     ControllerTypes, DisplayTypes, ControlOK
<1> QED
  BY <1>1, ControllerTypesStep, StageTaskTypesStep, DisplayTypesStep, RebootTypes
     DEF Next

\* Every variable of the firmware model keeps its type: in particular the
\* stage button never holds STAGE_NONE and the queues never overflow
\* (controller.c:41-230, lcd_gui.c:87-111).
THEOREM TypeCorrect == Spec => []TypeOK
<1>1. Init => BooleansOK
  BY DEF Init, ControllerInit, DisplayInit, BooleansOK
<1>2. Types /\ BooleansOK => TypeOK
  BY TypesSuffice
<1> QED
  BY <1>1, <1>2, InitTypes, TypesStep, BooleansStep, PTL DEF Spec

-----------------------------------------------------------------------------
(* The order of the stages.  StagesInOrder is inductive relative to Types. *)

\* A stage handler moves the machine to the stage its command asks for.
LEMMA BeginKeepsOrder ==
  ASSUME Types, StagesInOrder, ctl_pc = "stage", ctl_pc' # "stage",
         read_stage' = ctl_cmd.stage,
         UNCHANGED <<incoming_queue_commands, btn_stage, out>>
  PROVE  StagesInOrder'
<1>1. CASE ctl_cmd.stage = read_stage
  BY <1>1 DEF StagesInOrder
<1>2. CASE ctl_cmd.stage = btn_stage
  BY <1>2 DEF StagesInOrder
<1> QED
  BY <1>1, <1>2 DEF StagesInOrder

\* The button catches up while no callback is sending.
LEMMA RefreshKeepsOrder ==
  ASSUME Types, StagesInOrder, draw_pc # "send",
         btn_stage' = NextStage(read_stage),
         UNCHANGED <<incoming_queue_commands, read_stage, ctl_pc, ctl_cmd, out>>
  PROVE  StagesInOrder'
<1>1. CASE btn_stage = NextStage(read_stage)
  BY <1>1 DEF StagesInOrder
<1>2. CASE btn_stage = read_stage
  <2>1. /\ NextStage(read_stage) \in Stage
        /\ NextStage(read_stage) # read_stage
        /\ NextStage(read_stage) # STAGE_NONE
    BY NextStageFacts DEF Types, DataTypeOK, Stage, STAGE_OFF, COOLER, STAGE_NONE
  <2>2. out.stage = STAGE_NONE
    BY DEF Types, ControlOK, EmptyCommand
  <2> QED
    BY <1>2, <2>1, <2>2 DEF StagesInOrder
<1> QED
  BY <1>1, <1>2 DEF StagesInOrder

\* Anything that asks for no stage, moves no stage and leaves the button.
LEMMA FrameKeepsOrder ==
  ASSUME StagesInOrder,
         UNCHANGED <<incoming_queue_commands, read_stage, btn_stage>>,
         out'.stage \in {STAGE_NONE, btn_stage, out.stage},
         ctl_pc' # "stage" \/ UNCHANGED <<ctl_pc, ctl_cmd>>
  PROVE  StagesInOrder'
  BY DEF StagesInOrder

LEMMA ReceiveKeepsOrder ==
  ASSUME Types, StagesInOrder, ReceiveCommand, UNCHANGED displayVars
  PROVE  StagesInOrder'
<1> DEFINE q == incoming_queue_commands
<1>1. /\ q \in Seq(Command) /\ q # <<>> /\ q' = Tail(q)
      /\ UNCHANGED <<read_stage, btn_stage, out>>
      /\ ctl_cmd' = Head(q)
      /\ ctl_pc' = "stage" => Head(q).stage # STAGE_NONE
  BY DEF ReceiveCommand, Types, DataTypeOK, displayVars
<1>2. /\ Head(q) = q[1] /\ Len(q) \in Nat /\ Len(q) >= 1
      /\ Len(q') = Len(q) - 1
      /\ \A i \in 1 .. Len(q') : i + 1 \in 1 .. Len(q) /\ q'[i] = q[i + 1]
  BY <1>1, ReceiveFacts
<1>3. /\ \A i \in 1 .. Len(q) : q[i].stage \in {STAGE_NONE, btn_stage, read_stage}
      /\ \A i, j \in 1 .. Len(q) :
           (i < j /\ q[i].stage = btn_stage) => q[j].stage \in {STAGE_NONE, btn_stage}
      /\ btn_stage \in {read_stage, NextStage(read_stage)}
      /\ out.stage \in {STAGE_NONE, btn_stage}
  BY DEF StagesInOrder
<1>4. \A i \in 1 .. Len(q') : q'[i].stage \in {STAGE_NONE, btn_stage, read_stage}
  BY <1>2, <1>3
<1>5. \A i, j \in 1 .. Len(q') :
        (i < j /\ q'[i].stage = btn_stage) => q'[j].stage \in {STAGE_NONE, btn_stage}
  BY <1>2, <1>3
<1>6. ctl_pc' = "stage" => ctl_cmd'.stage \in {read_stage, btn_stage}
  BY <1>1, <1>2, <1>3
<1>7. (ctl_pc' = "stage" /\ ctl_cmd'.stage = btn_stage) =>
        \A i \in 1 .. Len(q') : q'[i].stage \in {STAGE_NONE, btn_stage}
  <2> SUFFICES ASSUME q[1].stage = btn_stage, NEW i \in 1 .. Len(q')
               PROVE  q'[i].stage \in {STAGE_NONE, btn_stage}
    BY <1>1, <1>2
  <2>1. i + 1 \in 1 .. Len(q) /\ 1 \in 1 .. Len(q) /\ 1 < i + 1
    BY <1>2
  <2> QED
    BY <1>2, <1>3, <2>1
<1> QED
  BY <1>1, <1>3, <1>4, <1>5, <1>6, <1>7 DEF StagesInOrder

LEMMA SendKeepsOrder ==
  ASSUME Types, StagesInOrder, SendCommand, UNCHANGED controllerVars
  PROVE  StagesInOrder'
<1> DEFINE q == incoming_queue_commands
<1>1. /\ q \in Seq(Command) /\ out \in Command /\ q' = Append(q, out)
      /\ out'.stage = STAGE_NONE
      /\ UNCHANGED <<read_stage, btn_stage, ctl_pc, ctl_cmd>>
  BY DEF SendCommand, Types, DataTypeOK, DisplayTypes, EmptyCommand, controllerVars
<1>2. /\ Len(q) \in Nat /\ Len(q') = Len(q) + 1 /\ q'[Len(q) + 1] = out
      /\ \A i \in 1 .. Len(q) : q'[i] = q[i]
  BY <1>1, SendFacts
<1>3. \A i \in 1 .. Len(q') : \/ i \in 1 .. Len(q) /\ q'[i] = q[i]
                              \/ i = Len(q) + 1 /\ q'[i] = out
  BY <1>2
<1>4. out.stage \in {STAGE_NONE, btn_stage}
  BY DEF StagesInOrder
<1>5. \A i \in 1 .. Len(q') : q'[i].stage \in {STAGE_NONE, btn_stage, read_stage}
  BY <1>3, <1>4 DEF StagesInOrder
<1>6. (ctl_pc = "stage" /\ ctl_cmd.stage = btn_stage) =>
        \A i \in 1 .. Len(q') : q'[i].stage \in {STAGE_NONE, btn_stage}
  BY <1>3, <1>4 DEF StagesInOrder
<1>7. ASSUME NEW i \in 1 .. Len(q'), NEW j \in 1 .. Len(q'),
             i < j, q'[i].stage = btn_stage
      PROVE  q'[j].stage \in {STAGE_NONE, btn_stage}
  <2>1. CASE j = Len(q) + 1
    BY <1>2, <1>4, <2>1
  <2>2. CASE j # Len(q) + 1
    <3>1. i \in 1 .. Len(q) /\ j \in 1 .. Len(q)
      BY <1>2, <1>7, <2>2
    <3> QED
      BY <1>2, <1>7, <3>1 DEF StagesInOrder
  <2> QED
    BY <2>1, <2>2
<1> QED
  BY <1>1, <1>5, <1>6, <1>7 DEF StagesInOrder

LEMMA OrderStep == Types /\ StagesInOrder /\ [Next]_vars => StagesInOrder'
<1> SUFFICES ASSUME Types, StagesInOrder, [Next]_vars PROVE StagesInOrder'
  OBVIOUS
<1>1. CASE ControllerRuns
  <2>1. UNCHANGED <<btn_stage, out>> /\ UNCHANGED displayVars
    BY <1>1 DEF ControllerRuns, displayVars
  <2>2. CASE ReceiveCommand
    BY <2>1, <2>2, ReceiveKeepsOrder
  <2>3. CASE BeginPreHeating \/ BeginSuccessor \/ BeginOff
    BY <2>1, <2>3, BeginKeepsOrder DEF BeginPreHeating, BeginSuccessor, BeginOff
  <2>4. CASE DeleteTraps
    BY <2>1, <2>4, FrameKeepsOrder DEF DeleteTraps, dataVars
  <2>5. CASE CreateStageTask \/ CreationFails
    BY <2>1, <2>5, FrameKeepsOrder DEF CreateStageTask, CreationFails, dataVars
  <2>6. CASE NotifyStage \/ NotifyActuator \/ WriteActuator
    BY <2>1, <2>6, FrameKeepsOrder DEF NotifyStage, NotifyActuator, WriteActuator
  <2>7. CASE Gate \/ SkipActuator
    BY <2>1, <2>7, FrameKeepsOrder DEF Gate, SkipActuator, dataVars
  <2> QED
    BY <1>1, <2>2, <2>3, <2>4, <2>5, <2>6, <2>7 DEF ControllerRuns, ControllerStep
<1>2. ASSUME NEW s \in Slot, StageTaskRuns(s) PROVE StagesInOrder'
  BY <1>2, FrameKeepsOrder
     DEF StageTaskRuns, StageTaskStep, Wake, SendReport, displayVars, dataVars
<1>3. CASE DisplayRuns
  <2>1. UNCHANGED <<ctl_pc, ctl_cmd>> /\ UNCHANGED controllerVars
    BY <1>3 DEF DisplayRuns, controllerVars
  <2>2. CASE OpenManual
    BY <2>1, <2>2, RefreshKeepsOrder DEF OpenManual, FreeFinger, OfferOnOpen, dataVars
  <2>3. CASE SendCommand
    BY <2>1, <2>3, SendKeepsOrder
  <2>4. CASE HandleEvent
    <3>1. CASE btn_stage' = btn_stage
      BY <2>1, <2>4, <3>1, FrameKeepsOrder DEF HandleEvent
    <3>2. CASE btn_stage' = NextStage(read_stage)
      BY <2>1, <2>4, <3>2, RefreshKeepsOrder DEF HandleEvent
    <3> QED
      BY <2>4, <3>1, <3>2 DEF HandleEvent, ShownOffer
  <2>5. CASE PressStage
    <3>1. out'.stage = btn_stage
      BY <2>5 DEF PressStage, EmptyCommand
    <3> QED
      BY <2>1, <2>5, <3>1, FrameKeepsOrder DEF PressStage, dataVars
  <2>6. CASE AnswerNo
    <3>1. out'.stage = STAGE_NONE
      BY <2>6 DEF AnswerNo, EmptyCommand
    <3> QED
      BY <2>1, <2>6, <3>1, FrameKeepsOrder DEF AnswerNo, dataVars
  <2>7. ASSUME NEW a \in Actuator, ReleaseArc(a) PROVE StagesInOrder'
    <3>1. out'.stage = STAGE_NONE
      BY <2>7 DEF ReleaseArc, EmptyCommand
    <3> QED
      BY <2>1, <2>7, <3>1, FrameKeepsOrder DEF ReleaseArc, dataVars
  <2>8. ASSUME NEW a \in Actuator, TurnArc(a) PROVE StagesInOrder'
    BY <2>1, <2>8, FrameKeepsOrder DEF TurnArc, dataVars
  <2>9. CASE NoGesture \/ GoBack \/ ToggleContent \/ AnswerSave \/ NoEvent
    BY <2>1, <2>9, FrameKeepsOrder
       DEF NoGesture, GoBack, ToggleContent, AnswerSave, NoEvent, dataVars
  <2> QED
    BY <1>3, <2>2, <2>3, <2>4, <2>5, <2>6, <2>7, <2>8, <2>9
       DEF DisplayRuns, DisplayStep, Gesture
<1>4. CASE Reboot
  BY <1>4 DEF Reboot, StagesInOrder, EmptyCommand
<1>5. CASE UNCHANGED vars
  BY <1>5, FrameKeepsOrder DEF vars, dataVars, controllerVars, displayVars
<1> QED
  BY <1>1, <1>2, <1>3, <1>4, <1>5 DEF Next

LEMMA OrderInit == Init => StagesInOrder
  BY DEF Init, DataInit, ControllerInit, DisplayInit, StagesInOrder, EmptyCommand

\* However impatient the operator and whatever the queues hold, no command on
\* its way skips a stage or goes back (content_manager.c:53,200 against
\* controller.c:88-180).
THEOREM StagesStayInOrder == Spec => []StagesInOrder
  BY InitTypes, TypesStep, OrderInit, OrderStep, PTL DEF Spec

-----------------------------------------------------------------------------
(* The stage button.                                                       *)

LEMMA StaleStep ==
  Types /\ StaleButtonNotified /\ [Next]_vars => StaleButtonNotified'
<1> SUFFICES ASSUME Types, StaleButtonNotified, [Next]_vars
             PROVE  StaleButtonNotified'
  OBVIOUS
<1> DEFINE e == event_broadcast_queue
           Up == btn_stage = NextStage(read_stage)
           Queued == \E i \in 1 .. Len(e) : e[i] = "STAGE_EVENT"
<1>e. e \in Seq(Event)
  BY DEF Types, DataTypeOK
\* Sending an event removes none.
<1>s. ASSUME NEW ev \in Event, e' = Append(e, ev), Queued PROVE Queued'
  <2>1. /\ Len(e) \in Nat /\ Len(e') = Len(e) + 1
        /\ \A i \in 1 .. Len(e) : e'[i] = e[i]
    BY <1>e, <1>s, SendFacts
  <2> QED
    BY <1>s, <2>1
\* Nothing happens to the stage, the screen and the queued events.
<1>f. ASSUME UNCHANGED <<read_stage, screen, btn_stage>>, Queued => Queued',
             ctl_pc \in {"create", "notify_stage"} =>
               ctl_pc' \in {"create", "notify_stage"} \/ Queued'
      PROVE  StaleButtonNotified'
  BY <1>f DEF StaleButtonNotified
<1>1. CASE ControllerRuns
  <2>d. UNCHANGED <<screen, btn_stage>>
    BY <1>1 DEF ControllerRuns, displayVars
  <2>1. CASE ReceiveCommand
    BY <1>f, <2>d, <2>1 DEF ReceiveCommand
  <2>2. CASE BeginPreHeating \/ BeginSuccessor \/ BeginOff
    BY <2>2 DEF BeginPreHeating, BeginSuccessor, BeginOff, StaleButtonNotified
  <2>3. CASE DeleteTraps
    BY <1>f, <2>d, <2>3 DEF DeleteTraps, dataVars
  <2>4. CASE CreateStageTask \/ CreationFails
    BY <1>f, <2>d, <2>4 DEF CreateStageTask, CreationFails, dataVars
  <2>5. CASE NotifyStage
    <3>1. e' = Append(e, "STAGE_EVENT") /\ "STAGE_EVENT" \in Event
      BY <2>5 DEF NotifyStage, Broadcast, Event
    <3>2. Len(e) \in Nat /\ Len(e') = Len(e) + 1 /\ e'[Len(e) + 1] = "STAGE_EVENT"
      BY <1>e, <3>1, SendFacts
    <3>3. Queued'
      BY <3>2
    <3> QED
      BY <3>3 DEF StaleButtonNotified
  <2>6. CASE NotifyActuator
    <3>1. e' = Append(e, "ACTUATOR_VALUE_EVENT") /\ "ACTUATOR_VALUE_EVENT" \in Event
      BY <2>6 DEF NotifyActuator, Broadcast, Event
    <3> QED
      BY <1>f, <1>s, <2>d, <2>6, <3>1 DEF NotifyActuator
  <2>7. CASE WriteActuator
    BY <1>f, <2>d, <2>7 DEF WriteActuator
  <2>8. CASE Gate \/ SkipActuator
    BY <1>f, <2>d, <2>8 DEF Gate, SkipActuator, dataVars
  <2> QED
    BY <1>1, <2>1, <2>2, <2>3, <2>4, <2>5, <2>6, <2>7, <2>8
       DEF ControllerRuns, ControllerStep
<1>2. ASSUME NEW s \in Slot, StageTaskRuns(s) PROVE StaleButtonNotified'
  <2>d. UNCHANGED <<screen, btn_stage, read_stage, ctl_pc>>
    BY <1>2 DEF StageTaskRuns, StageTaskStep, Wake, SendReport, displayVars, dataVars
  <2>1. CASE Wake(s)
    BY <1>f, <2>d, <2>1 DEF Wake, dataVars
  <2>2. CASE SendReport(s)
    <3>1. task[s].todo \in Seq(Event) /\ task[s].todo # <<>>
      BY <1>2, <2>2 DEF SendReport, Types, ControllerTypes, Block
    <3>2. Head(task[s].todo) \in Event
      BY <3>1, ReceiveFacts
    <3>3. e' = Append(e, Head(task[s].todo))
      BY <2>2 DEF SendReport, Broadcast
    <3> QED
      BY <1>f, <1>s, <2>d, <3>2, <3>3
  <2> QED
    BY <1>2, <2>1, <2>2 DEF StageTaskRuns, StageTaskStep
<1>3. CASE DisplayRuns
  <2>c. UNCHANGED ctl_pc
    BY <1>3 DEF DisplayRuns, controllerVars
  <2>1. CASE OpenManual
    BY <2>1 DEF OpenManual, OfferOnOpen, dataVars, StaleButtonNotified
  <2>2. CASE GoBack
    BY <2>2 DEF GoBack, StaleButtonNotified
  <2>3. CASE HandleEvent
    <3>1. /\ e # <<>> /\ e' = Tail(e)
          /\ UNCHANGED <<screen, read_stage>>
          /\ btn_stage' = ShownOffer(Head(e))
      BY <2>3 DEF HandleEvent, RemoveEvent
    <3>2. /\ Head(e) = e[1] /\ Len(e) \in Nat /\ Len(e') = Len(e) - 1
          /\ \A i \in 1 .. Len(e') : e'[i] = e[i + 1]
      BY <1>e, <3>1, ReceiveFacts
    <3>3. CASE screen = "MANUAL" /\ Head(e) = "STAGE_EVENT"
      BY <3>1, <3>3 DEF ShownOffer, StaleButtonNotified
    <3>4. CASE screen # "MANUAL"
      BY <3>1, <3>4 DEF StaleButtonNotified
    <3>5. CASE Head(e) # "STAGE_EVENT"
      <4>1. ASSUME NEW i \in 1 .. Len(e), e[i] = "STAGE_EVENT" PROVE Queued'
        <5>1. i - 1 \in 1 .. Len(e') /\ e'[i - 1] = e[i]
          BY <3>2, <3>5, <4>1
        <5> QED
          BY <4>1, <5>1
      <4> QED
        BY <1>f, <2>c, <3>1, <3>5, <4>1 DEF ShownOffer
    <3> QED
      BY <3>3, <3>4, <3>5
  <2>4. CASE SendCommand
    BY <1>f, <2>c, <2>4 DEF SendCommand
  <2>5. ASSUME NEW a \in Actuator, TurnArc(a) \/ ReleaseArc(a)
        PROVE  StaleButtonNotified'
    BY <1>f, <2>c, <2>5 DEF TurnArc, ReleaseArc, dataVars
  <2>6. CASE NoGesture \/ ToggleContent \/ PressStage \/ AnswerNo \/ AnswerSave \/ NoEvent
    BY <1>f, <2>c, <2>6
       DEF NoGesture, ToggleContent, PressStage, AnswerNo, AnswerSave, NoEvent, dataVars
  <2> QED
    BY <1>3, <2>1, <2>2, <2>3, <2>4, <2>5, <2>6 DEF DisplayRuns, DisplayStep, Gesture
<1>4. CASE Reboot
  BY <1>4 DEF Reboot, StaleButtonNotified
<1>5. CASE UNCHANGED vars
  BY <1>5, <1>f DEF vars, dataVars, controllerVars, displayVars
<1> QED
  BY <1>1, <1>2, <1>3, <1>4, <1>5 DEF Next

\* A stage button that is out of date always has its correction on the way
\* (controller.c:118,138,160,174; content_manager.c:41,52-54).
THEOREM StaleButtonIsNotified == Spec => []StaleButtonNotified
<1>1. Init => StaleButtonNotified
  BY DEF Init, DisplayInit, StaleButtonNotified
<1> QED
  BY <1>1, InitTypes, TypesStep, StaleStep, PTL DEF Spec

-----------------------------------------------------------------------------
(* The task handles.                                                       *)

\* The handle was never set, and not because the creation failed.
Unset(kind) == handle[kind] = NoTask /\ kind \notin failed

\* Such a handle means that the machine has never been past the stage whose
\* task it is for.
HandleInv ==
  /\ Unset(PRE_HEATING) =>
       \/ read_stage = STAGE_OFF
       \/ read_stage = PRE_HEATING /\ ctl_pc = "create"
  /\ Unset(START) =>
       \/ read_stage \in {STAGE_OFF, PRE_HEATING}
       \/ read_stage = START /\ ctl_pc = "create"
  /\ Unset(COOLER) =>
       \/ read_stage \in {STAGE_OFF, PRE_HEATING, START}
       \/ read_stage = COOLER /\ ctl_pc = "create"
  /\ (Unset(COOLER) /\ read_stage = STAGE_OFF) =>
       /\ btn_stage = PRE_HEATING
       /\ ctl_pc = "stage" => ctl_cmd.stage = PRE_HEATING
       /\ \A i \in 1 .. Len(incoming_queue_commands) :
            incoming_queue_commands[i].stage \in {STAGE_NONE, PRE_HEATING}

RecipeInv ==
  (read_stage # STAGE_OFF \/ ~Unset(COOLER)) => recipe_set

\* The stages are five different numbers and follow each other in a ring.
LEMMA StageFacts ==
  /\ Stage = {STAGE_OFF, PRE_HEATING, START, COOLER}
  /\ TaskKind = {PRE_HEATING, START, COOLER}
  /\ STAGE_OFF # PRE_HEATING /\ STAGE_OFF # START /\ STAGE_OFF # COOLER
  /\ PRE_HEATING # START /\ PRE_HEATING # COOLER /\ START # COOLER
  /\ STAGE_NONE \notin Stage /\ STAGE_NONE \notin TaskKind
  /\ NextStage(STAGE_OFF) = PRE_HEATING /\ NextStage(PRE_HEATING) = START
  /\ NextStage(START) = COOLER /\ NextStage(COOLER) = STAGE_OFF
  BY DEF Stage, TaskKind, STAGE_OFF, PRE_HEATING, START, COOLER, STAGE_NONE,
         NextStage

\* A handler of a stage runs in that stage or in its predecessor.
LEMMA HandlerStage ==
  ASSUME Types, StagesInOrder, ctl_pc = "stage"
  PROVE  /\ ctl_cmd.stage \in Stage /\ read_stage \in Stage
         /\ ctl_cmd.stage \in {read_stage, NextStage(read_stage)}
  BY DEF Types, ControlOK, DataTypeOK, StagesInOrder

\* Steps that touch no handle and no stage.
LEMMA FrameKeepsHandles ==
  ASSUME Types, HandleInv, ctl_pc # "create", ctl_pc' # "create",
         UNCHANGED <<handle, failed, read_stage, btn_stage, incoming_queue_commands>>,
         ctl_pc' # "stage" \/ UNCHANGED <<ctl_pc, ctl_cmd>>
  PROVE  HandleInv'
  BY DEF HandleInv, Unset

LEMMA TaskFrameKeepsHandles ==
  ASSUME Types, HandleInv,
         UNCHANGED <<handle, failed, read_stage, btn_stage, incoming_queue_commands,
                     ctl_pc, ctl_cmd>>
  PROVE  HandleInv'
  BY DEF HandleInv, Unset

\* After a creation the handle is set, or its kind has failed.
LEMMA CreateKeepsHandles ==
  ASSUME Types, HandleInv, CreateStageTask \/ CreationFails, UNCHANGED displayVars
  PROVE  HandleInv'
<1>1. /\ ctl_cmd.stage = read_stage /\ read_stage \in TaskKind
      /\ ctl_pc = "create" /\ ctl_pc' \in {"create", "notify_stage"}
      /\ UNCHANGED <<read_stage, btn_stage, incoming_queue_commands>>
      /\ handle \in [TaskKind -> Slot \cup {NoTask}]
      /\ NoTask \notin Slot
  BY SlotAssumption DEF CreateStageTask, CreationFails, Types, ControlOK,
     ControllerTypes, dataVars, displayVars, SlotAssumption
<1>2. ~Unset(read_stage)' /\ \A k \in TaskKind \ {read_stage} : Unset(k)' <=> Unset(k)
  <2>1. CASE CreationFails
    BY <1>1, <2>1 DEF CreationFails, Unset
  <2>2. CASE CreateStageTask
    <3>1. PICK s \in Slot : handle' = [handle EXCEPT ![read_stage] = s]
      BY <1>1, <2>2 DEF CreateStageTask, StoreHandle
    <3>2. failed' = failed \ {read_stage}
      BY <1>1, <2>2 DEF CreateStageTask
    <3> QED
      BY <1>1, <3>1, <3>2 DEF Unset
  <2> QED
    BY <2>1, <2>2
<1> QED
  BY <1>1, <1>2, StageFacts DEF HandleInv

\* The machine is switched off after it has cooled, or again.
LEMMA OffFollowsCooler ==
  ASSUME Types, StagesInOrder, HandleInv, ctl_pc = "stage", ctl_cmd.stage = STAGE_OFF
  PROVE  ~Unset(COOLER)
<1>1. read_stage \in {COOLER, STAGE_OFF}
  BY HandlerStage, StageFacts
<1> QED
  BY <1>1, StageFacts DEF HandleInv

LEMMA HandleStep ==
  Types /\ StagesInOrder /\ HandleInv /\ [Next]_vars => HandleInv'
<1> SUFFICES ASSUME Types, StagesInOrder, HandleInv, [Next]_vars
             PROVE  HandleInv'
  OBVIOUS
<1>1. CASE ControllerRuns
  <2>d. UNCHANGED <<btn_stage, out>> /\ UNCHANGED displayVars
    BY <1>1 DEF ControllerRuns, displayVars
  <2>1. CASE ReceiveCommand
    <3> DEFINE q == incoming_queue_commands
    <3>1. /\ q \in Seq(Command) /\ q # <<>> /\ q' = Tail(q)
          /\ ctl_cmd' = Head(q)
          /\ ctl_pc' \in {"stage", "gate"} /\ ctl_pc = "receive"
          /\ ctl_pc' = "stage" => Head(q).stage # STAGE_NONE
          /\ UNCHANGED <<read_stage, btn_stage, handle, failed>>
      BY <2>1, <2>d DEF faults, ReceiveCommand, Types, DataTypeOK
    <3>2. /\ Head(q) = q[1] /\ Len(q) \in Nat /\ Len(q) >= 1
          /\ Len(q') = Len(q) - 1
          /\ \A i \in 1 .. Len(q') : i + 1 \in 1 .. Len(q) /\ q'[i] = q[i + 1]
      BY <3>1, ReceiveFacts
    <3> QED
      BY <3>1, <3>2 DEF HandleInv, Unset
  <2>2. CASE BeginPreHeating
    <3>1. /\ read_stage' = PRE_HEATING /\ ctl_pc' = "create"
          /\ UNCHANGED <<handle, failed>>
      BY <2>2 DEF BeginPreHeating, faults
    <3> QED
      BY <3>1, StageFacts DEF HandleInv, Unset
  <2>3. CASE BeginSuccessor
    <3>1. /\ ctl_pc = "stage" /\ ctl_cmd.stage \in {START, COOLER}
          /\ read_stage' = ctl_cmd.stage /\ ctl_pc' = "create"
          /\ UNCHANGED <<handle, failed>>
      BY <2>3 DEF BeginSuccessor
    <3>2. /\ ctl_cmd.stage = START => read_stage \in {PRE_HEATING, START}
          /\ ctl_cmd.stage = COOLER => read_stage \in {START, COOLER}
      BY <3>1, HandlerStage, StageFacts
    <3> QED
      BY <3>1, <3>2, StageFacts DEF HandleInv, Unset
  <2>4. CASE BeginOff
    <3>1. /\ ctl_cmd.stage = STAGE_OFF /\ read_stage' = STAGE_OFF
          /\ ctl_pc = "stage" /\ ctl_pc' = "notify_stage"
          /\ UNCHANGED <<handle, failed>>
      BY <2>4 DEF BeginOff
    <3>2. ~Unset(COOLER)
      BY <3>1, OffFollowsCooler
    <3> QED
      BY <3>1, <3>2, StageFacts DEF HandleInv, Unset
  <2>5. CASE DeleteTraps
    BY <2>d, <2>5, FrameKeepsHandles DEF DeleteTraps, dataVars
  <2>6. CASE CreateStageTask \/ CreationFails
    BY <2>d, <2>6, CreateKeepsHandles
  <2>7. CASE NotifyStage \/ NotifyActuator \/ WriteActuator
    BY <2>d, <2>7, FrameKeepsHandles
       DEF NotifyStage, NotifyActuator, WriteActuator, faults
  <2>8. CASE Gate \/ SkipActuator
    BY <2>d, <2>8, FrameKeepsHandles DEF Gate, SkipActuator, dataVars, faults
  <2> QED
    BY <1>1, <2>1, <2>2, <2>3, <2>4, <2>5, <2>6, <2>7, <2>8
       DEF ControllerRuns, ControllerStep
<1>2. ASSUME NEW s \in Slot, StageTaskRuns(s) PROVE HandleInv'
  BY <1>2, TaskFrameKeepsHandles
     DEF StageTaskRuns, StageTaskStep, Wake, SendReport, dataVars, displayVars, faults
<1>3. CASE DisplayRuns
  <2>c. UNCHANGED <<ctl_pc, ctl_cmd, handle, failed>>
    BY <1>3 DEF DisplayRuns, controllerVars, faults
  <2>1. CASE SendCommand
    <3> DEFINE q == incoming_queue_commands
    <3>1. /\ q \in Seq(Command) /\ out \in Command /\ q' = Append(q, out)
          /\ UNCHANGED <<read_stage, btn_stage>>
      BY <2>1 DEF SendCommand, Types, DataTypeOK, DisplayTypes
    <3>2. /\ Len(q) \in Nat /\ Len(q') = Len(q) + 1 /\ q'[Len(q) + 1] = out
          /\ \A i \in 1 .. Len(q) : q'[i] = q[i]
      BY <3>1, SendFacts
    <3>3. out.stage \in {STAGE_NONE, btn_stage}
      BY DEF StagesInOrder
    <3>4. ASSUME btn_stage = PRE_HEATING,
                 \A i \in 1 .. Len(q) : q[i].stage \in {STAGE_NONE, PRE_HEATING}
          PROVE  \A i \in 1 .. Len(q') : q'[i].stage \in {STAGE_NONE, PRE_HEATING}
      <4> TAKE i \in 1 .. Len(q')
      <4>1. CASE i = Len(q) + 1
        BY <3>2, <3>3, <3>4, <4>1
      <4>2. CASE i \in 1 .. Len(q)
        BY <3>2, <3>4, <4>2
      <4> QED
        BY <3>2, <4>1, <4>2
    <3> QED
      BY <2>c, <3>1, <3>4 DEF HandleInv, Unset
  <2>2. ASSUME UNCHANGED <<incoming_queue_commands, read_stage>>,
               btn_stage' \in {btn_stage, NextStage(read_stage)}
        PROVE  HandleInv'
    BY <2>2, <2>c, StageFacts DEF HandleInv, Unset
  <2>3. CASE OpenManual
    BY <2>2, <2>3 DEF OpenManual, OfferOnOpen, dataVars
  <2>4. CASE HandleEvent
    BY <2>2, <2>4 DEF HandleEvent, ShownOffer
  <2>5. ASSUME NEW a \in Actuator, TurnArc(a) \/ ReleaseArc(a) PROVE HandleInv'
    BY <2>2, <2>5 DEF TurnArc, ReleaseArc, dataVars
  <2>6. CASE \/ NoGesture \/ GoBack \/ ToggleContent \/ PressStage
             \/ AnswerNo \/ AnswerSave \/ NoEvent
    BY <2>2, <2>6 DEF NoGesture, GoBack, ToggleContent, PressStage, AnswerNo,
       AnswerSave, NoEvent, dataVars
  <2> QED
    BY <1>3, <2>1, <2>3, <2>4, <2>5, <2>6 DEF DisplayRuns, DisplayStep, Gesture
<1>4. CASE Reboot
  BY <1>4, StageFacts DEF Reboot, HandleInv
<1>5. CASE UNCHANGED vars
  BY <1>5, TaskFrameKeepsHandles DEF vars, dataVars, controllerVars, displayVars, faults
<1> QED
  BY <1>1, <1>2, <1>3, <1>4, <1>5 DEF Next

LEMMA HandleInit == Init => HandleInv
  BY StageFacts DEF Init, DataInit, ControllerInit, DisplayInit, HandleInv

\* The recipe is allocated on the way into the first roast and stays.
LEMMA RecipeStep ==
  Types /\ StagesInOrder /\ HandleInv /\ RecipeInv /\ [Next]_vars => RecipeInv'
<1> SUFFICES ASSUME Types, StagesInOrder, HandleInv, RecipeInv, [Next]_vars
             PROVE  RecipeInv'
  OBVIOUS
<1>1. CASE UNCHANGED <<recipe_set, read_stage, handle, failed>>
  BY <1>1 DEF RecipeInv, Unset
<1>2. CASE BeginPreHeating
  BY <1>2 DEF BeginPreHeating, RecipeInv
<1>3. CASE BeginSuccessor
  <2>1. ctl_pc = "stage" /\ ctl_cmd.stage \in {START, COOLER}
    BY <1>3 DEF BeginSuccessor
  <2>2. read_stage # STAGE_OFF
    BY <2>1, HandlerStage, StageFacts
  <2>3. recipe_set' = recipe_set
    BY <1>3 DEF BeginSuccessor
  <2> QED
    BY <2>2, <2>3 DEF RecipeInv
<1>4. CASE BeginOff
  <2>1. ~Unset(COOLER)
    BY <1>4, OffFollowsCooler DEF BeginOff
  <2>2. recipe_set' = recipe_set
    BY <1>4 DEF BeginOff
  <2> QED
    BY <2>1, <2>2 DEF RecipeInv
<1>c. CASE CreateStageTask \/ CreationFails
  <2>1. read_stage # STAGE_OFF
    BY <1>c, StageFacts DEF CreateStageTask, CreationFails, Types, ControlOK
  <2>2. recipe_set' = recipe_set
    BY <1>c DEF CreateStageTask, CreationFails
  <2> QED
    BY <2>1, <2>2 DEF RecipeInv
<1>5. CASE Reboot
  BY <1>5, StageFacts DEF Reboot, RecipeInv, Unset
<1>6. CASE ControllerRuns
  BY <1>1, <1>2, <1>3, <1>4, <1>c, <1>6 DEF ControllerRuns, ControllerStep,
     ReceiveCommand, DeleteTraps, NotifyStage, Gate, SkipActuator, WriteActuator,
     NotifyActuator, dataVars, faults
<1>7. ASSUME NEW s \in Slot, StageTaskRuns(s) PROVE RecipeInv'
  BY <1>1, <1>7 DEF StageTaskRuns, StageTaskStep, Wake, SendReport, dataVars, faults
<1>8. CASE DisplayRuns
  BY <1>1, <1>8 DEF DisplayRuns, DisplayStep, controllerVars, faults, dataVars, NoGesture,
     Gesture, OpenManual, GoBack, ToggleContent, PressStage, AnswerNo, AnswerSave,
     TurnArc, ReleaseArc, SendCommand, HandleEvent, NoEvent
<1>9. CASE UNCHANGED vars
  BY <1>1, <1>9 DEF vars, controllerVars, faults, dataVars
<1> QED
  BY <1>5, <1>6, <1>7, <1>8, <1>9 DEF Next

\* No stage handler logs a recipe that was never allocated, and none deletes
\* through a handle that was never set unless the creation of that very task
\* has failed (controller.c:48-50,115,124,126,135,145,157,165,383), however
\* impatient the operator.
THEOREM HandlesAreReady == Spec => []HandlesReady
<1>1. Init => RecipeInv
  BY StageFacts DEF Init, DataInit, ControllerInit, RecipeInv, Unset
<1>2. ASSUME Types, StagesInOrder, HandleInv, RecipeInv PROVE HandlesReady
  <2> SUFFICES ASSUME ctl_pc = "stage", ctl_cmd.stage # PRE_HEATING
               PROVE  ~Unset(Predecessor(ctl_cmd.stage)) /\ recipe_set
    BY DEF HandlesReady, Unset
  <2>1. /\ ctl_cmd.stage \in {START, COOLER, STAGE_OFF}
        /\ ctl_cmd.stage = START => read_stage \in {PRE_HEATING, START}
        /\ ctl_cmd.stage = COOLER => read_stage \in {START, COOLER}
        /\ ctl_cmd.stage = STAGE_OFF => read_stage \in {COOLER, STAGE_OFF}
    BY <1>2, HandlerStage, StageFacts
  <2>2. ~Unset(Predecessor(ctl_cmd.stage))
    BY <1>2, <2>1, StageFacts DEF HandleInv, Predecessor
  <2>3. read_stage # STAGE_OFF \/ ~Unset(COOLER)
    BY <2>1, <2>2, StageFacts DEF Predecessor
  <2>4. recipe_set
    BY <1>2, <2>3 DEF RecipeInv
  <2> QED
    BY <2>2, <2>4
<1> QED
  BY <1>1, <1>2, InitTypes, TypesStep, OrderInit, OrderStep, HandleInit,
     HandleStep, RecipeStep, PTL DEF Spec

-----------------------------------------------------------------------------
(* Roaster implements StagePanel.                                          *)

LEMMA PanelStep ==
  Types /\ StagesInOrder /\ [Next]_vars => [Panel!PanelNext]_(Panel!panelVars)
<1> SUFFICES ASSUME Types, StagesInOrder, [Next]_vars
             PROVE  [Panel!PanelNext]_(Panel!panelVars)
  OBVIOUS
<1>s. Panel!After(read_stage) = NextStage(read_stage)
  BY DEF Panel!After, Panel!NumStages, NextStage
<1>1. CASE UNCHANGED <<read_stage, btn_stage>>
  BY <1>1 DEF Panel!panelVars
\* A stage handler either repeats the stage or takes the one on offer.
<1>2. ASSUME ctl_pc = "stage", read_stage' = ctl_cmd.stage, UNCHANGED btn_stage
      PROVE  [Panel!PanelNext]_(Panel!panelVars)
  <2>1. CASE ctl_cmd.stage = read_stage
    BY <1>1, <1>2, <2>1
  <2>2. CASE ctl_cmd.stage = btn_stage /\ btn_stage = NextStage(read_stage)
    BY <1>2, <1>s, <2>2 DEF Panel!PanelNext, Panel!Advance
  <2> QED
    BY <1>2, <2>1, <2>2 DEF StagesInOrder
\* A label is only ever brought up to date.
<1>3. ASSUME UNCHANGED read_stage, btn_stage' \in {btn_stage, NextStage(read_stage)}
      PROVE  [Panel!PanelNext]_(Panel!panelVars)
  BY <1>1, <1>3, <1>s DEF Panel!PanelNext, Panel!Refresh
<1>4. CASE ControllerRuns
  <2>1. UNCHANGED btn_stage
    BY <1>4 DEF ControllerRuns, displayVars
  <2>2. CASE BeginPreHeating \/ BeginSuccessor \/ BeginOff
    BY <1>2, <2>1, <2>2 DEF BeginPreHeating, BeginSuccessor, BeginOff
  <2>3. CASE ~(BeginPreHeating \/ BeginSuccessor \/ BeginOff)
    <3>1. UNCHANGED read_stage
      BY <1>4, <2>3 DEF ControllerRuns, ControllerStep, ReceiveCommand, DeleteTraps,
         CreateStageTask, CreationFails, NotifyStage, Gate, SkipActuator, WriteActuator,
         NotifyActuator, dataVars
    <3> QED
      BY <1>1, <2>1, <3>1
  <2> QED
    BY <2>2, <2>3
<1>5. ASSUME NEW s \in Slot, StageTaskRuns(s)
      PROVE  [Panel!PanelNext]_(Panel!panelVars)
  BY <1>1, <1>5 DEF StageTaskRuns, StageTaskStep, Wake, SendReport, dataVars, displayVars
<1>6. CASE DisplayRuns
  <2>1. UNCHANGED read_stage
    BY <1>6 DEF DisplayRuns, DisplayStep, dataVars, NoGesture, Gesture, OpenManual,
       GoBack, ToggleContent, PressStage, AnswerNo, AnswerSave, TurnArc, ReleaseArc,
       SendCommand, HandleEvent, NoEvent
  <2>2. btn_stage' \in {btn_stage, NextStage(read_stage)}
    BY <1>6 DEF DisplayRuns, DisplayStep, NoGesture, Gesture, OpenManual, OfferOnOpen,
       GoBack, ToggleContent, PressStage, AnswerNo, AnswerSave, TurnArc, ReleaseArc,
       SendCommand, HandleEvent, ShownOffer, NoEvent
  <2> QED
    BY <1>3, <2>1, <2>2
<1>7. CASE Reboot
  BY <1>7 DEF Reboot, Panel!PanelNext, Panel!Reset, Panel!After, Panel!NumStages,
     NextStage, STAGE_OFF
<1>8. CASE UNCHANGED vars
  BY <1>1, <1>8 DEF vars, dataVars, displayVars
<1> QED
  BY <1>4, <1>5, <1>6, <1>7, <1>8 DEF Next

\* The stages and the button of the firmware are those of StagePanel: one
\* stage at a time, only to the stage on offer (controller.c:88-180,
\* content_manager.c:41,53,200).
THEOREM PanelImplemented == Spec => StageProtocol
<1>1. Init => Panel!PanelInit
  BY DEF Init, DataInit, DisplayInit, Panel!PanelInit, Panel!After, Panel!NumStages,
     NextStage, STAGE_OFF
<1> QED
  BY <1>1, InitTypes, TypesStep, OrderInit, OrderStep, PanelStep, PTL
     DEF Spec, StageProtocol, Panel!PanelSpec

-----------------------------------------------------------------------------
(* The actuators.                                                          *)

\* Past the gate the controller is the only task that could close it again.
GateInv ==
  ctl_pc \in {"write", "notify_write"} => read_stage \in {PRE_HEATING, START}

LEMMA GateStep == GateInv /\ [Next]_vars => GateInv'
<1> SUFFICES ASSUME GateInv, [Next]_vars PROVE GateInv'
  OBVIOUS
<1>1. CASE ControllerRuns
  BY <1>1 DEF GateInv, ControllerRuns, ControllerStep, ReceiveCommand,
     BeginPreHeating, BeginSuccessor, BeginOff, DeleteTraps, CreateStageTask, CreationFails,
     NotifyStage, Gate, ActuatorsEnabled, SkipActuator, WriteActuator,
     NotifyActuator, dataVars
<1>2. ASSUME NEW s \in Slot, StageTaskRuns(s) PROVE GateInv'
  BY <1>2 DEF GateInv, StageTaskRuns, StageTaskStep, Wake, SendReport, dataVars
<1>3. CASE DisplayRuns
  BY <1>3 DEF GateInv, DisplayRuns, DisplayStep, dataVars, controllerVars, NoGesture,
     Gesture, OpenManual, GoBack, ToggleContent, PressStage, AnswerNo, AnswerSave,
     TurnArc, ReleaseArc, SendCommand, HandleEvent, NoEvent
<1>4. CASE Reboot
  BY <1>4 DEF GateInv, Reboot
<1>5. CASE UNCHANGED vars
  BY <1>5 DEF GateInv, vars, dataVars, controllerVars
<1> QED
  BY <1>1, <1>2, <1>3, <1>4, <1>5 DEF Next

\* No duty changes outside PRE_HEATING and START, although the gate is read
\* before sends that may wait for the display (controller.c:197-224).
THEOREM ActuatorsStayGated == Spec => ActuatorsGated
<1> DEFINE A == read_actuator' # read_actuator =>
                  panicked \/ read_stage \in {PRE_HEATING, START}
<1>1. Init => GateInv
  BY DEF Init, ControllerInit, GateInv
<1>2. GateInv /\ [Next]_vars => [A]_vars
  <2> SUFFICES ASSUME GateInv, Next, read_actuator' # read_actuator
               PROVE  panicked \/ read_stage \in {PRE_HEATING, START}
    OBVIOUS
  <2>1. CASE ControllerRuns
    BY <2>1 DEF GateInv, ControllerRuns, ControllerStep, ReceiveCommand,
       BeginPreHeating, BeginSuccessor, BeginOff, DeleteTraps, CreateStageTask, CreationFails,
       NotifyStage, Gate, SkipActuator, WriteActuator, NotifyActuator, dataVars
  <2>2. CASE \E s \in Slot : StageTaskRuns(s)
    BY <2>2 DEF StageTaskRuns, StageTaskStep, Wake, SendReport, dataVars
  <2>3. CASE DisplayRuns
    BY <2>3 DEF DisplayRuns, DisplayStep, dataVars, NoGesture, Gesture, OpenManual,
       GoBack, ToggleContent, PressStage, AnswerNo, AnswerSave, TurnArc, ReleaseArc,
       SendCommand, HandleEvent, NoEvent
  <2>4. CASE Reboot
    BY <2>4 DEF Reboot
  <2> QED
    BY <2>1, <2>2, <2>3, <2>4 DEF Next
<1> QED
  BY <1>1, <1>2, GateStep, PTL DEF Spec, ActuatorsGated

-----------------------------------------------------------------------------
(* State and mode against the stage.                                       *)

\* A command that asks for a stage also asks for ON and MANUAL, and no other
\* command asks for anything of the kind (content_manager.c:198-200).
AsksTogether(c) ==
  IF c.stage = STAGE_NONE THEN c.state = "STATE_NONE" /\ c.mode = "MODE_NONE"
  ELSE c.state = "ON" /\ c.mode = "MANUAL"

CommandsAskTogether ==
  /\ AsksTogether(out)
  /\ \A i \in 1 .. Len(incoming_queue_commands) :
       AsksTogether(incoming_queue_commands[i])

LEMMA CommandsStep ==
  Types /\ CommandsAskTogether /\ [Next]_vars => CommandsAskTogether'
<1> SUFFICES ASSUME Types, CommandsAskTogether, [Next]_vars
             PROVE  CommandsAskTogether'
  OBVIOUS
<1> DEFINE q == incoming_queue_commands
<1>q. q \in Seq(Command)
  BY DEF Types, DataTypeOK
<1>e. AsksTogether(EmptyCommand)
  BY DEF AsksTogether, EmptyCommand
\* The queue stays, and what is being sent is well made.
<1>f. ASSUME q' = q, AsksTogether(out') PROVE CommandsAskTogether'
  BY <1>f DEF CommandsAskTogether
<1>o. AsksTogether(out)
  BY DEF CommandsAskTogether
<1>1. CASE ControllerRuns
  <2>o. out' = out
    BY <1>1 DEF ControllerRuns, displayVars
  <2>1. CASE ReceiveCommand
    <3>1. q # <<>> /\ q' = Tail(q)
      BY <2>1 DEF ReceiveCommand
    <3>2. \A i \in 1 .. Len(q') : i + 1 \in 1 .. Len(q) /\ q'[i] = q[i + 1]
      BY <1>q, <3>1, ReceiveFacts
    <3> QED
      BY <1>o, <2>o, <3>2 DEF CommandsAskTogether
  <2>2. CASE ~ReceiveCommand
    <3>1. q' = q
      BY <1>1, <2>2 DEF ControllerRuns, ControllerStep, BeginPreHeating,
         BeginSuccessor, BeginOff, DeleteTraps, CreateStageTask, CreationFails, NotifyStage, Gate,
         SkipActuator, WriteActuator, NotifyActuator, dataVars
    <3> QED
      BY <1>f, <1>o, <2>o, <3>1
  <2> QED
    BY <2>1, <2>2
<1>2. ASSUME NEW s \in Slot, StageTaskRuns(s) PROVE CommandsAskTogether'
  <2>1. q' = q /\ out' = out
    BY <1>2 DEF StageTaskRuns, StageTaskStep, Wake, SendReport, displayVars, dataVars
  <2> QED
    BY <1>f, <1>o, <2>1
<1>3. CASE DisplayRuns
  <2>1. CASE SendCommand
    <3>1. q' = Append(q, out) /\ out' = EmptyCommand /\ out \in Command
      BY <2>1 DEF SendCommand, Types, DisplayTypes
    <3>2. /\ Len(q) \in Nat /\ Len(q') = Len(q) + 1 /\ q'[Len(q) + 1] = out
          /\ \A i \in 1 .. Len(q) : q'[i] = q[i]
      BY <1>q, <3>1, SendFacts
    <3>3. \A i \in 1 .. Len(q') : i \in 1 .. Len(q) \/ i = Len(q) + 1
      BY <3>2
    <3> QED
      BY <1>e, <3>1, <3>2, <3>3 DEF CommandsAskTogether
  <2>2. CASE PressStage
    <3>1. btn_stage # STAGE_NONE
      BY DEF Types, DisplayTypes, Stage, STAGE_OFF, COOLER, STAGE_NONE
    <3>2. AsksTogether(out')
      BY <2>2, <3>1 DEF PressStage, AsksTogether, EmptyCommand
    <3> QED
      BY <1>f, <2>2, <3>2 DEF PressStage, dataVars
  <2>3. CASE AnswerNo
    <3>1. AsksTogether(out')
      BY <2>3 DEF AnswerNo, AsksTogether, EmptyCommand
    <3> QED
      BY <1>f, <2>3, <3>1 DEF AnswerNo, dataVars
  <2>4. ASSUME NEW a \in Actuator, ReleaseArc(a) PROVE CommandsAskTogether'
    <3>1. AsksTogether(out')
      BY <2>4 DEF ReleaseArc, AsksTogether, EmptyCommand
    <3> QED
      BY <1>f, <2>4, <3>1 DEF ReleaseArc, dataVars
  <2>5. CASE \/ NoGesture \/ OpenManual \/ GoBack \/ ToggleContent \/ AnswerSave
             \/ HandleEvent \/ NoEvent \/ \E a \in Actuator : TurnArc(a)
    <3>1. q' = q /\ out' = out
      BY <2>5 DEF NoGesture, OpenManual, GoBack, ToggleContent, AnswerSave,
         HandleEvent, NoEvent, TurnArc, dataVars
    <3> QED
      BY <1>f, <1>o, <3>1
  <2> QED
    BY <1>3, <2>1, <2>2, <2>3, <2>4, <2>5 DEF DisplayRuns, DisplayStep, Gesture
<1>4. CASE Reboot
  <2>1. q' = <<>> /\ out' = EmptyCommand
    BY <1>4 DEF Reboot
  <2> QED
    BY <1>e, <2>1 DEF CommandsAskTogether
<1>5. CASE UNCHANGED vars
  <2>1. q' = q /\ out' = out
    BY <1>5 DEF vars, dataVars, displayVars
  <2> QED
    BY <1>f, <1>o, <2>1
<1> QED
  BY <1>1, <1>2, <1>3, <1>4, <1>5 DEF Next

\* They disagree only between the two switches in front of a stage's handler
\* and the handler itself, which by then has been promised ON and MANUAL (and
\* for good when the handler deletes its own task).
AgreeInv ==
  IF ctl_pc = "stage" THEN read_state = "ON" /\ read_mode = "MANUAL"
  ELSE ctl_pc # "deleted" =>
         /\ (read_state = "ON") <=> (read_stage # STAGE_OFF)
         /\ (read_mode = "MANUAL") <=> (read_stage # STAGE_OFF)

LEMMA AgreeStep ==
  Types /\ CommandsAskTogether /\ AgreeInv /\ [Next]_vars => AgreeInv'
<1> SUFFICES ASSUME Types, CommandsAskTogether, AgreeInv, [Next]_vars
             PROVE  AgreeInv'
  OBVIOUS
<1>f. ASSUME UNCHANGED <<read_state, read_mode, read_stage>>,
             ctl_pc' = "stage" <=> ctl_pc = "stage",
             ctl_pc = "deleted" => ctl_pc' = "deleted"
      PROVE  AgreeInv'
  BY <1>f DEF AgreeInv
<1>1. CASE ControllerRuns
  <2>1. CASE ReceiveCommand
    <3> DEFINE c == Head(incoming_queue_commands)
    <3>1. AsksTogether(c)
      <4>1. /\ incoming_queue_commands \in Seq(Command)
            /\ incoming_queue_commands # <<>>
        BY <2>1 DEF ReceiveCommand, Types, DataTypeOK
      <4>2. /\ c = incoming_queue_commands[1]
            /\ 1 \in 1 .. Len(incoming_queue_commands)
        BY <4>1, ReceiveFacts
      <4> QED
        BY <4>2 DEF CommandsAskTogether
    <3>2. CASE c.stage = STAGE_NONE
      BY <2>1, <3>1, <3>2 DEF ReceiveCommand, AsksTogether, AgreeInv
    <3>3. CASE c.stage # STAGE_NONE
      BY <2>1, <3>1, <3>3 DEF ReceiveCommand, AsksTogether, AgreeInv
    <3> QED
      BY <3>2, <3>3
  <2>2. CASE BeginPreHeating \/ BeginSuccessor
    BY <2>2 DEF BeginPreHeating, BeginSuccessor, AgreeInv, STAGE_OFF, PRE_HEATING,
       START, COOLER
  <2>3. CASE BeginOff
    BY <2>3 DEF BeginOff, SwitchOff, AgreeInv
  <2>4. CASE DeleteTraps
    BY <2>4 DEF DeleteTraps, AgreeInv, dataVars
  <2>5. CASE CreateStageTask \/ CreationFails \/ Gate \/ SkipActuator
    BY <1>f, <2>5 DEF CreateStageTask, CreationFails, Gate, SkipActuator, dataVars
  <2>6. CASE NotifyStage \/ WriteActuator \/ NotifyActuator
    BY <1>f, <2>6 DEF NotifyStage, WriteActuator, NotifyActuator
  <2> QED
    BY <1>1, <2>1, <2>2, <2>3, <2>4, <2>5, <2>6 DEF ControllerRuns, ControllerStep
<1>2. ASSUME NEW s \in Slot, StageTaskRuns(s) PROVE AgreeInv'
  BY <1>f, <1>2 DEF StageTaskRuns, StageTaskStep, Wake, SendReport, dataVars
<1>3. CASE DisplayRuns
  BY <1>f, <1>3 DEF DisplayRuns, DisplayStep, dataVars, controllerVars, NoGesture,
     Gesture, OpenManual, GoBack, ToggleContent, PressStage, AnswerNo, AnswerSave,
     TurnArc, ReleaseArc, SendCommand, HandleEvent, NoEvent
<1>4. CASE Reboot
  BY <1>4 DEF Reboot, AgreeInv
<1>5. CASE UNCHANGED vars
  BY <1>f, <1>5 DEF vars, dataVars, controllerVars
<1> QED
  BY <1>1, <1>2, <1>3, <1>4, <1>5 DEF Next

\* Whenever the controller waits for a command, it is ON and MANUAL exactly
\* when a stage is running, although STAGE_OFF comes with a command that asks
\* for ON and MANUAL (controller.c:59-86,163-168).
THEOREM StateAgreesWithStage == Spec => []StateFollowsStage
<1>1. Init => CommandsAskTogether /\ AgreeInv
  BY DEF Init, DataInit, ControllerInit, DisplayInit, CommandsAskTogether,
     AsksTogether, EmptyCommand, AgreeInv
<1>2. AgreeInv => StateFollowsStage
  BY DEF AgreeInv, StateFollowsStage
<1> QED
  BY <1>1, <1>2, InitTypes, TypesStep, CommandsStep, AgreeStep, PTL DEF Spec
============================================================================
