-------------------------- MODULE UnhurriedProofs ---------------------------
(***************************************************************************)
(* The tasks under an operator who asks for a stage once and then waits    *)
(* for the button to change: for every queue length, number of actuators   *)
(* and heap, whatever else he touches.                                     *)
(***************************************************************************)
EXTENDS RoasterProofs

USE DataAssumption, SlotAssumption, OperatorAssumption
  DEF DataAssumption, SlotAssumption, OperatorAssumption

-----------------------------------------------------------------------------
(* A stage is asked for once.                                              *)

\* The command that asks for a stage may be in the callback that sends it, in
\* the queue or in the handler, and in one of them only.
AskedInQueue(i) == incoming_queue_commands[i].stage # STAGE_NONE

Asked ==
  \/ out.stage # STAGE_NONE
  \/ \E i \in 1 .. Len(incoming_queue_commands) : AskedInQueue(i)
  \/ ctl_pc = "stage"

AskedOnce ==
  /\ ctl_pc = "stage" =>
       /\ ctl_cmd.stage = btn_stage
       /\ out.stage = STAGE_NONE
       /\ \A i \in 1 .. Len(incoming_queue_commands) : ~AskedInQueue(i)
  /\ \A i \in 1 .. Len(incoming_queue_commands) : AskedInQueue(i) =>
       /\ incoming_queue_commands[i].stage = btn_stage
       /\ out.stage = STAGE_NONE
       /\ \A j \in 1 .. Len(incoming_queue_commands) : AskedInQueue(j) => i = j
  /\ out.stage \in {STAGE_NONE, btn_stage}

\* While he is not waiting, nothing is asked for and the button is right; while
\* something is asked for, the button keeps showing it.
WaitsForButton ==
  /\ ~awaiting => ~Asked
  /\ (~awaiting \/ Asked) => btn_stage = NextStage(read_stage)

UnhurriedInv == AskedOnce /\ WaitsForButton

\* Steps that move no command and no label.
LEMMA FrameKeepsAsking ==
  ASSUME UnhurriedInv, ctl_pc # "stage", ctl_pc' # "stage",
         UNCHANGED <<incoming_queue_commands, btn_stage, read_stage, awaiting>>,
         out'.stage = out.stage
  PROVE  UnhurriedInv'
  BY DEF UnhurriedInv, AskedOnce, WaitsForButton, Asked, AskedInQueue

LEMMA StutterKeepsAsking ==
  ASSUME UnhurriedInv,
         UNCHANGED <<ctl_pc, ctl_cmd, incoming_queue_commands, btn_stage,
                     read_stage, awaiting>>,
         out'.stage = out.stage
  PROVE  UnhurriedInv'
  BY DEF UnhurriedInv, AskedOnce, WaitsForButton, Asked, AskedInQueue

\* The machine reaches the stage that was asked for; he is still waiting.
LEMMA BeginKeepsAsking ==
  ASSUME UnhurriedInv, ctl_pc = "stage", ctl_pc' # "stage",
         UNCHANGED <<incoming_queue_commands, btn_stage, awaiting, out>>,
         awaiting \in BOOLEAN
  PROVE  UnhurriedInv'
  BY DEF UnhurriedInv, AskedOnce, WaitsForButton, Asked, AskedInQueue

\* The label is brought up to date, and he stops waiting if that changes it.
LEMMA RefreshKeepsAsking ==
  ASSUME UnhurriedInv, awaiting \in BOOLEAN,
         btn_stage' \in {btn_stage, NextStage(read_stage)},
         awaiting' = (awaiting /\ btn_stage' = btn_stage),
         UNCHANGED <<ctl_pc, ctl_cmd, incoming_queue_commands, read_stage, out>>
  PROVE  UnhurriedInv'
<1>1. CASE btn_stage' = btn_stage
  BY <1>1, StutterKeepsAsking
<1>2. CASE btn_stage' # btn_stage
  <2>1. ~Asked /\ btn_stage' = NextStage(read_stage)
    BY <1>2 DEF UnhurriedInv, WaitsForButton
  <2> QED
    BY <2>1 DEF UnhurriedInv, AskedOnce, WaitsForButton, Asked, AskedInQueue
<1> QED
  BY <1>1, <1>2

LEMMA ReceiveKeepsAsking ==
  ASSUME Types, UnhurriedInv, ReceiveCommand, UNCHANGED displayVars
  PROVE  UnhurriedInv'
<1> DEFINE q == incoming_queue_commands
<1>1. /\ q \in Seq(Command) /\ q # <<>> /\ q' = Tail(q)
      /\ ctl_cmd' = Head(q)
      /\ ctl_pc' = IF Head(q).stage = STAGE_NONE THEN "gate" ELSE "stage"
      /\ UNCHANGED <<read_stage, btn_stage, awaiting, out>>
  BY DEF ReceiveCommand, Types, DataTypeOK, displayVars
<1>2. /\ Head(q) = q[1] /\ Len(q) \in Nat /\ Len(q) >= 1
      /\ Len(q') = Len(q) - 1
      /\ \A i \in 1 .. Len(q') : i + 1 \in 1 .. Len(q) /\ q'[i] = q[i + 1]
  BY <1>1, ReceiveFacts
<1> HIDE DEF q
<1>3. AskedOnce'
  BY <1>1, <1>2 DEF UnhurriedInv, AskedOnce, AskedInQueue, q
<1>4. Asked' => Asked
  BY <1>1, <1>2 DEF Asked, AskedInQueue, q
<1> QED
  BY <1>1, <1>3, <1>4 DEF UnhurriedInv, WaitsForButton

LEMMA SendKeepsAsking ==
  ASSUME Types, UnhurriedInv, SendCommand, UNCHANGED controllerVars
  PROVE  UnhurriedInv'
<1> DEFINE q == incoming_queue_commands
<1>1. /\ q \in Seq(Command) /\ out \in Command /\ q' = Append(q, out)
      /\ out' = EmptyCommand /\ out'.stage = STAGE_NONE
      /\ UNCHANGED <<read_stage, btn_stage, awaiting, ctl_pc, ctl_cmd>>
  BY DEF SendCommand, Types, DataTypeOK, DisplayTypes, EmptyCommand, controllerVars
<1>2. /\ Len(q) \in Nat /\ Len(q') = Len(q) + 1 /\ q'[Len(q) + 1] = out
      /\ \A i \in 1 .. Len(q) : q'[i] = q[i]
  BY <1>1, SendFacts
<1> HIDE DEF q
<1>3. AskedOnce'
  BY <1>1, <1>2 DEF UnhurriedInv, AskedOnce, AskedInQueue, q
<1>4. Asked' => Asked
  BY <1>1, <1>2 DEF Asked, AskedInQueue, q
<1> QED
  BY <1>1, <1>3, <1>4 DEF UnhurriedInv, WaitsForButton

LEMMA PressKeepsAsking ==
  ASSUME Types, UnhurriedInv, ~HastyOperator, PressStage, UNCHANGED controllerVars
  PROVE  UnhurriedInv'
<1>1. /\ ~awaiting /\ awaiting' = TRUE /\ out'.stage = btn_stage
      /\ UNCHANGED <<incoming_queue_commands, read_stage, btn_stage, ctl_pc, ctl_cmd>>
  BY DEF PressStage, EmptyCommand, dataVars, controllerVars
<1>2. ~Asked /\ btn_stage = NextStage(read_stage)
  BY <1>1 DEF UnhurriedInv, WaitsForButton
<1> QED
  BY <1>1, <1>2 DEF UnhurriedInv, AskedOnce, WaitsForButton, Asked, AskedInQueue

\* The other callbacks ask for no stage.
LEMMA OtherCallback ==
  ASSUME Types, AnswerNo \/ \E a \in Actuator : ReleaseArc(a)
  PROVE  out'.stage = out.stage
  BY DEF Types, ControlOK, AnswerNo, ReleaseArc, OnArc, FreeFinger, EmptyCommand

LEMMA UnhurriedStep ==
  ASSUME ~HastyOperator
  PROVE  Types /\ BooleansOK /\ UnhurriedInv /\ [Next]_vars => UnhurriedInv'
<1> SUFFICES ASSUME Types, BooleansOK, UnhurriedInv, [Next]_vars PROVE UnhurriedInv'
  OBVIOUS
<1>b. awaiting \in BOOLEAN
  BY DEF BooleansOK
<1>1. CASE ControllerRuns
  <2>d. UNCHANGED <<btn_stage, out, awaiting>> /\ UNCHANGED displayVars
    BY <1>1 DEF ControllerRuns, displayVars
  <2>1. CASE ReceiveCommand
    BY <2>d, <2>1, ReceiveKeepsAsking
  <2>2. CASE BeginPreHeating \/ BeginSuccessor \/ BeginOff
    BY <1>b, <2>d, <2>2, BeginKeepsAsking DEF BeginPreHeating, BeginSuccessor, BeginOff
  <2>3. CASE DeleteTraps
    <3>1. UNCHANGED <<ctl_cmd, incoming_queue_commands, read_stage>>
      BY <2>3 DEF DeleteTraps, dataVars
    <3> QED
      BY <1>b, <2>d, <2>3, <3>1, BeginKeepsAsking, StutterKeepsAsking DEF DeleteTraps
  <2>4. CASE CreateStageTask \/ CreationFails \/ NotifyStage \/ NotifyActuator \/ WriteActuator
    BY <2>d, <2>4, FrameKeepsAsking
       DEF CreateStageTask, CreationFails, NotifyStage, NotifyActuator, WriteActuator,
           dataVars
  <2>5. CASE Gate \/ SkipActuator
    BY <2>d, <2>5, FrameKeepsAsking DEF Gate, SkipActuator, dataVars
  <2> QED
    BY <1>1, <2>1, <2>2, <2>3, <2>4, <2>5 DEF ControllerRuns, ControllerStep
<1>2. ASSUME NEW s \in Slot, StageTaskRuns(s) PROVE UnhurriedInv'
  BY <1>2, StutterKeepsAsking
     DEF StageTaskRuns, StageTaskStep, Wake, SendReport, displayVars, dataVars
<1>3. CASE DisplayRuns
  <2>c. UNCHANGED <<ctl_pc, ctl_cmd>> /\ UNCHANGED controllerVars
    BY <1>3 DEF DisplayRuns, controllerVars
  <2>1. CASE OpenManual
    BY <1>b, <2>c, <2>1, RefreshKeepsAsking DEF OpenManual, OfferOnOpen, dataVars
  <2>2. CASE HandleEvent
    BY <1>b, <2>c, <2>2, RefreshKeepsAsking DEF HandleEvent, ShownOffer
  <2>3. CASE PressStage
    BY <2>c, <2>3, PressKeepsAsking
  <2>4. CASE SendCommand
    BY <2>c, <2>4, SendKeepsAsking
  <2>5. CASE AnswerNo
    BY <2>c, <2>5, OtherCallback, StutterKeepsAsking DEF AnswerNo, dataVars
  <2>6. ASSUME NEW a \in Actuator, ReleaseArc(a) PROVE UnhurriedInv'
    BY <2>c, <2>6, OtherCallback, StutterKeepsAsking DEF ReleaseArc, dataVars
  <2>7. ASSUME NEW a \in Actuator, TurnArc(a) PROVE UnhurriedInv'
    BY <2>c, <2>7, StutterKeepsAsking DEF TurnArc, dataVars
  <2>8. CASE NoGesture \/ GoBack \/ ToggleContent \/ AnswerSave \/ NoEvent
    BY <2>c, <2>8, StutterKeepsAsking
       DEF NoGesture, GoBack, ToggleContent, AnswerSave, NoEvent, dataVars
  <2> QED
    BY <1>3, <2>1, <2>2, <2>3, <2>4, <2>5, <2>6, <2>7, <2>8
       DEF DisplayRuns, DisplayStep, Gesture
<1>4. CASE Reboot
  BY <1>4, StageFacts DEF Reboot, EmptyCommand, UnhurriedInv, AskedOnce, WaitsForButton,
     Asked, AskedInQueue
<1>5. CASE UNCHANGED vars
  BY <1>5, StutterKeepsAsking DEF vars, dataVars, controllerVars, displayVars
<1> QED
  BY <1>1, <1>2, <1>3, <1>4, <1>5 DEF Next

-----------------------------------------------------------------------------
(* The tasks.                                                              *)

\* What a handler of a stage finds: the machine in the stage before it.
LEMMA AskedIsNext ==
  ASSUME Types, UnhurriedInv, ctl_pc = "stage"
  PROVE  /\ read_stage \in Stage /\ ctl_cmd.stage \in Stage
         /\ ctl_cmd.stage = NextStage(read_stage)
  BY DEF Types, ControlOK, DataTypeOK, UnhurriedInv, AskedOnce, WaitsForButton, Asked

\* The task it deletes is that of the present stage, the only one, or the
\* handle is stale because there is none.
LEMMA OneTaskToDelete ==
  ASSUME Types, UnhurriedInv, OneStageTask, ctl_pc = "stage",
         ctl_cmd.stage # PRE_HEATING
  PROVE  /\ read_stage = Predecessor(ctl_cmd.stage)
         /\ read_stage \in TaskKind
         /\ Live = IF read_stage \in failed THEN {} ELSE {handle[read_stage]}
<1>1. read_stage = Predecessor(ctl_cmd.stage) /\ read_stage \in TaskKind
  BY AskedIsNext, StageFacts DEF Predecessor
<1> QED
  BY <1>1, StageFacts DEF OneStageTask

LEMMA DisplayKeepsStage ==
  ASSUME DisplayRuns PROVE UNCHANGED read_stage
  BY DEF DisplayRuns, DisplayStep, dataVars, NoGesture, Gesture, OpenManual, GoBack,
     ToggleContent, PressStage, AnswerNo, AnswerSave, TurnArc, ReleaseArc, SendCommand,
     HandleEvent, NoEvent

LEMMA NeverPanicsStep ==
  Types /\ UnhurriedInv /\ OneStageTask /\ NeverPanics /\ [Next]_vars => NeverPanics'
<1> SUFFICES ASSUME Types, UnhurriedInv, OneStageTask, NeverPanics, [Next]_vars
             PROVE  NeverPanics'
  OBVIOUS
<1>1. CASE DeleteTraps
  <2>1. /\ ctl_pc = "stage" /\ ctl_cmd.stage # PRE_HEATING
        /\ Stale(Predecessor(ctl_cmd.stage))
        /\ UNCHANGED <<read_stage, failed>>
    BY <1>1 DEF DeleteTraps, dataVars
  <2> QED
    BY <2>1, OneTaskToDelete DEF Stale, NeverPanics
<1>2. CASE CreationFails
  BY <1>2 DEF CreationFails, NeverPanics, Types, ControlOK, dataVars
<1>3. CASE ControllerRuns
  BY <1>1, <1>2, <1>3 DEF ControllerRuns, ControllerStep, ReceiveCommand, BeginPreHeating,
     BeginSuccessor, BeginOff, CreateStageTask, NotifyStage, Gate, SkipActuator,
     WriteActuator, NotifyActuator, NeverPanics, faults
<1>4. ASSUME NEW s \in Slot, StageTaskRuns(s) PROVE NeverPanics'
  BY <1>4 DEF StageTaskRuns, StageTaskStep, Wake, SendReport, NeverPanics, faults, dataVars
<1>5. CASE DisplayRuns \/ UNCHANGED vars
  BY <1>5, DisplayKeepsStage DEF DisplayRuns, vars, controllerVars, dataVars, NeverPanics,
     faults
<1>6. CASE Reboot
  BY <1>6 DEF Reboot, NeverPanics
<1> QED
  BY <1>3, <1>4, <1>5, <1>6 DEF Next

\* Steps that create and delete nothing.
LEMMA FrameKeepsTask ==
  ASSUME OneStageTask, UNCHANGED <<handle, read_stage, failed>>,
         ctl_pc = "create" <=> ctl_pc' = "create",
         Live' = Live, \A s \in Live : task'[s].kind = task[s].kind
  PROVE  OneStageTask'
  BY DEF OneStageTask

LEMMA BeginKeepsTask ==
  ASSUME Types, UnhurriedInv, OneStageTask,
         BeginPreHeating \/ BeginSuccessor \/ BeginOff
  PROVE  OneStageTask'
<1>1. CASE BeginPreHeating
  <2>1. ctl_pc = "stage" /\ ctl_cmd.stage = PRE_HEATING /\ ctl_pc' = "create"
    BY <1>1 DEF BeginPreHeating
  <2>2. read_stage = STAGE_OFF
    BY <2>1, AskedIsNext, StageFacts
  <2>3. Live' = Live /\ Live = {}
    BY <1>1, <2>2 DEF BeginPreHeating, OneStageTask, Live, Types, ControllerTypes, Block
  <2> QED
    BY <2>1, <2>3 DEF OneStageTask
<1>2. CASE BeginSuccessor \/ BeginOff
  <2>1. /\ ctl_pc = "stage" /\ ctl_cmd.stage # PRE_HEATING
        /\ DeleteTask(Predecessor(ctl_cmd.stage))
        /\ read_stage' = STAGE_OFF \/ ctl_pc' = "create"
    BY <1>2, StageFacts DEF BeginSuccessor, BeginOff, Predecessor
  <2>2. /\ Live = IF read_stage \in failed THEN {} ELSE {handle[read_stage]}
        /\ DeleteTask(read_stage)
    BY <2>1, OneTaskToDelete
  <2>3. Live' = {}
    <3>1. CASE Stale(read_stage)
      BY <2>2, <3>1 DEF DeleteTask, Stale, Live
    <3>2. CASE ~Stale(read_stage)
      BY <2>2, <3>2 DEF DeleteTask, Stale, Live, Free, Types, ControllerTypes
    <3> QED
      BY <3>1, <3>2
  <2> QED
    BY <2>1, <2>3 DEF OneStageTask
<1> QED
  BY <1>1, <1>2

\* The handle of the only task says where it is.
LEMMA CreateKeepsTask ==
  ASSUME Types, OneStageTask, CreateStageTask
  PROVE  OneStageTask'
<1>1. /\ ctl_pc = "create" /\ ctl_pc' = "notify_stage"
      /\ ctl_cmd.stage = read_stage /\ read_stage' = read_stage
      /\ failed' = failed \ {read_stage}
      /\ read_stage \in TaskKind /\ Live = {}
      /\ task \in [Slot -> Block] /\ handle \in [TaskKind -> Slot \cup {NoTask}]
  BY DEF CreateStageTask, Types, ControlOK, ControllerTypes, OneStageTask, dataVars
<1>2. PICK s \in Slot : /\ task' = [task EXCEPT ![s] = NewTask(read_stage)]
                        /\ handle' = [handle EXCEPT ![read_stage] = s]
  BY <1>1 DEF CreateStageTask, StoreHandle
<1>3. /\ handle'[read_stage] = s /\ task'[s].kind = read_stage
      /\ \A t \in Slot \ {s} : task'[t] = task[t]
  BY <1>1, <1>2 DEF NewTask
<1>4. Live' = {s}
  BY <1>1, <1>3, StageFacts DEF Live
<1> QED
  BY <1>1, <1>3, <1>4, StageFacts DEF OneStageTask

\* There is none if the creation failed.
LEMMA FailureKeepsTask ==
  ASSUME Types, OneStageTask, CreationFails
  PROVE  OneStageTask'
<1>1. /\ Live = {} /\ UNCHANGED <<task, read_stage>>
      /\ read_stage \in failed'
  BY DEF CreationFails, Types, ControlOK, OneStageTask, dataVars
<1> QED
  BY <1>1 DEF OneStageTask, Live

LEMMA OneTaskStep ==
  Types /\ UnhurriedInv /\ OneStageTask /\ [Next]_vars => OneStageTask'
<1> SUFFICES ASSUME Types, UnhurriedInv, OneStageTask, [Next]_vars PROVE OneStageTask'
  OBVIOUS
<1>1. CASE BeginPreHeating \/ BeginSuccessor \/ BeginOff
  BY <1>1, BeginKeepsTask
<1>2. CASE CreateStageTask \/ CreationFails
  BY <1>2, CreateKeepsTask, FailureKeepsTask
<1>3. CASE \/ ReceiveCommand \/ DeleteTraps \/ NotifyStage \/ Gate \/ SkipActuator
           \/ WriteActuator \/ NotifyActuator
  <2>1. /\ UNCHANGED <<handle, read_stage, task, failed>>
        /\ ctl_pc # "create" /\ ctl_pc' # "create"
    BY <1>3 DEF ReceiveCommand, DeleteTraps, NotifyStage, Gate, SkipActuator,
       WriteActuator, NotifyActuator, dataVars, faults
  <2> QED
    BY <2>1, FrameKeepsTask DEF Live
<1>4. CASE ControllerRuns
  BY <1>1, <1>2, <1>3, <1>4 DEF ControllerRuns, ControllerStep
<1>5. ASSUME NEW s \in Slot, StageTaskRuns(s) PROVE OneStageTask'
  <2>1. /\ UNCHANGED <<handle, read_stage, ctl_pc, failed>>
        /\ \E todo : task' = [task EXCEPT ![s].todo = todo]
    BY <1>5 DEF StageTaskRuns, StageTaskStep, Wake, SendReport, dataVars, faults
  <2>2. \A t \in Slot : task'[t].kind = task[t].kind
    BY <2>1 DEF Types, ControllerTypes, Block
  <2> QED
    BY <2>1, <2>2, FrameKeepsTask DEF Live
<1>6. CASE DisplayRuns \/ UNCHANGED vars
  <2>1. UNCHANGED <<handle, ctl_pc, task, failed>>
    BY <1>6 DEF DisplayRuns, vars, controllerVars, faults
  <2>2. UNCHANGED read_stage
    BY <1>6, DisplayKeepsStage DEF vars, dataVars
  <2> QED
    BY <2>1, <2>2, FrameKeepsTask DEF Live
<1>7. CASE Reboot
  BY <1>7, StageFacts DEF Reboot, OneStageTask, Live, Free
<1> QED
  BY <1>4, <1>5, <1>6, <1>7 DEF Next

LEMMA UnhurriedInit == Init => UnhurriedInv /\ OneStageTask /\ NeverPanics
<1> SUFFICES ASSUME Init PROVE UnhurriedInv /\ OneStageTask /\ NeverPanics
  OBVIOUS
<1>1. UnhurriedInv
  BY StageFacts DEF Init, DataInit, ControllerInit, DisplayInit, UnhurriedInv, AskedOnce,
     WaitsForButton, Asked, AskedInQueue, EmptyCommand
<1>2. OneStageTask /\ NeverPanics
  BY StageFacts DEF Init, DataInit, ControllerInit, OneStageTask, NeverPanics, Live, Free
<1> QED
  BY <1>1, <1>2

LEMMA BooleansInit == Init => BooleansOK
  BY DEF Init, ControllerInit, DisplayInit, BooleansOK

\* If the operator asks for each stage once, every task is that of the stage
\* the machine is in, where its handle says it is: none is orphaned, none
\* outlives its stage, and the only stage without a task is one whose creation
\* failed, whichever creations fail and whatever the stale deletions that
\* follow do, for every size of the heap and the queues
\* (controller.c:115,126,135,145,157,165).
THEOREM OneTaskUnhurried ==
  ASSUME ~HastyOperator PROVE Spec => []OneStageTask
  BY BooleansInit, BooleansStep, InitTypes, TypesStep, UnhurriedInit, UnhurriedStep,
     OneTaskStep, PTL DEF Spec

\* And unless the creation of the present stage's task has failed, the
\* firmware never panics and the controller never deletes itself: every other
\* vTaskDelete meets the task it means (controller.c:126,145,165).
THEOREM NoPanicUnhurried ==
  ASSUME ~HastyOperator PROVE Spec => []NeverPanics
  BY BooleansInit, BooleansStep, InitTypes, TypesStep, UnhurriedInit, UnhurriedStep,
     OneTaskStep, NeverPanicsStep, PTL DEF Spec

-----------------------------------------------------------------------------
(* The recipe.                                                             *)

AllCurrent == \A s \in Live : task[s].current

LEMMA CurrentStep ==
  Types /\ UnhurriedInv /\ OneStageTask /\ AllCurrent /\ [Next]_vars => AllCurrent'
<1> SUFFICES ASSUME Types, UnhurriedInv, OneStageTask, AllCurrent, [Next]_vars
             PROVE  AllCurrent'
  OBVIOUS
<1> USE DEF AllCurrent, Live
<1>t. task \in [Slot -> Block]
  BY DEF Types, ControllerTypes
\* A new recipe is prepared while no task is alive.
<1>1. CASE BeginPreHeating
  <2>1. read_stage = STAGE_OFF
    BY <1>1, AskedIsNext, StageFacts DEF BeginPreHeating
  <2>2. Live = {}
    BY <2>1 DEF OneStageTask
  <2> QED
    BY <1>1, <1>t, <2>2 DEF BeginPreHeating, Block
<1>2. CASE BeginSuccessor \/ BeginOff
  <2>1. UNCHANGED task \/ \E b \in Slot : task' = [task EXCEPT ![b] = Free]
    BY <1>2 DEF BeginSuccessor, BeginOff, DeleteTask, Stale
  <2> QED
    BY <1>t, <2>1 DEF Free
<1>3. CASE CreateStageTask
  BY <1>3, <1>t DEF CreateStageTask, NewTask
<1>4. CASE \/ ReceiveCommand \/ DeleteTraps \/ CreationFails \/ NotifyStage
           \/ Gate \/ SkipActuator \/ WriteActuator \/ NotifyActuator
  BY <1>4 DEF ReceiveCommand, DeleteTraps, CreationFails, NotifyStage, Gate,
     SkipActuator, WriteActuator, NotifyActuator
<1>5. ASSUME NEW s \in Slot, StageTaskRuns(s) PROVE AllCurrent'
  <2>1. \E todo : task' = [task EXCEPT ![s].todo = todo]
    BY <1>5 DEF StageTaskRuns, StageTaskStep, Wake, SendReport
  <2> QED
    BY <1>t, <2>1 DEF Block
<1>6. CASE DisplayRuns \/ UNCHANGED vars
  BY <1>6 DEF DisplayRuns, vars, controllerVars
<1>7. CASE Reboot
  BY <1>7 DEF Reboot, Free
<1> QED
  BY <1>1, <1>2, <1>3, <1>4, <1>5, <1>6, <1>7 DEF Next, ControllerRuns, ControllerStep

\* What the run orphan_recipe refutes for an impatient operator holds for this
\* one: the tasks that record write to the recipe of the present roast
\* (controller.c:106-107,231,269-270,382-383).
THEOREM RecipeIsCurrentUnhurried ==
  ASSUME ~HastyOperator PROVE Spec => []RecipeIsCurrent
<1>1. Init => AllCurrent
  BY DEF Init, ControllerInit, AllCurrent, Live, Free
<1>2. AllCurrent => RecipeIsCurrent
  BY DEF AllCurrent, RecipeIsCurrent
<1> QED
  BY <1>1, <1>2, BooleansInit, BooleansStep, InitTypes, TypesStep, UnhurriedInit,
     UnhurriedStep, OneTaskStep, CurrentStep, PTL DEF Spec
=============================================================================
