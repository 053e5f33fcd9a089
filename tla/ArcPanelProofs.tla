--------------------------- MODULE ArcPanelProofs ---------------------------
(***************************************************************************)
(* The arcs of the manual screen, for every queue length, number of        *)
(* actuators, heap and operator, and whatever malloc leaves in an arc.     *)
(***************************************************************************)
EXTENDS ArcPanel, RoasterProofs

USE DataAssumption, SlotAssumption, OperatorAssumption
  DEF DataAssumption, SlotAssumption, OperatorAssumption

-----------------------------------------------------------------------------
(* What is proved of Roaster holds here.                                   *)

LEMMA PanelControllerProjection == PanelController => ControllerRuns
  BY DEF PanelController, ControllerRuns, ControllerStep, GateWithHistory,
     ControllerLeavesArcs

LEMMA PanelDisplayProjection == PanelDisplay => DisplayRuns
  BY DEF PanelDisplay, DisplayRuns, DisplayStep, Gesture, ChangeContent, TurnShownArc,
     ShowActuators, DisplayLeavesArcs

LEMMA PanelProjection == [ArcPanelNext]_arcVars => [Next]_vars
<1> SUFFICES ASSUME [ArcPanelNext]_arcVars PROVE [Next]_vars
  OBVIOUS
<1>1. ASSUME NEW s \in Slot, PanelTask(s) PROVE StageTaskRuns(s)
  BY <1>1 DEF PanelTask
<1>2. CASE RebootPanel
  BY <1>2 DEF RebootPanel, Next
<1>3. CASE UNCHANGED arcVars
  BY <1>3 DEF arcVars
<1> QED
  BY <1>1, <1>2, <1>3, PanelControllerProjection, PanelDisplayProjection
     DEF ArcPanelNext, Next

LEMMA PanelImplementsRoaster == ArcPanelSpec => Spec
<1>1. ArcPanelInit => Init
  BY DEF ArcPanelInit
<1> QED
  BY <1>1, PanelProjection, PTL DEF ArcPanelSpec, Spec

-----------------------------------------------------------------------------
(* The invariant.                                                          *)

\* While a finger is on arc a, the callback has left a percentage in it.
HeldArcs == \A a \in Actuator : ~debounced[a] => arc_value[a] \in 0 .. 100

\* The controller looks at the write fields from the first one on.
WritesFromFirst == ctl_pc \notin {"write", "notify_write"} => ctl_arc = 0

\* A command that sets actuator a is in the callback, in the queue, or with the
\* controller, which has not come to its write field yet, or has deleted itself
\* over the command.
WriteComing(a) ==
  \/ draw_pc = "send" /\ out.write[a] # -1
  \/ \E i \in 1 .. Len(incoming_queue_commands) :
       incoming_queue_commands[i].write[a] # -1
  \/ /\ ctl_cmd.write[a] # -1
     /\ \/ ctl_pc \in {"stage", "create", "notify_stage", "gate", "deleted"}
        \/ ctl_pc = "write" /\ ctl_arc <= a

\* An arc that shows something else than its actuator is still held, or what it
\* sent is on its way, or it was refused.
TurnsArrive ==
  \A a \in Actuator :
    (ControlsShown /\ arc_shown[a] # ActuatorsOnArcs[a] /\ ~refused[a])
      => ActuatorEventComing \/ ~debounced[a] \/ WriteComing(a)

ArcInv ==
  /\ PanelTypeOK
  /\ HeldArcs
  /\ WritesFromFirst
  /\ ArcFollowsActuator
  /\ TurnsArrive

LEMMA OnArcsType ==
  ASSUME Types PROVE ActuatorsOnArcs \in [Actuator -> 0 .. 100]
<1>1. read_actuator \in [Actuator -> Int]
  BY DEF Types, DataTypeOK
<1>2. \A v \in Int : Clamp(v) \in 0 .. 100
  BY DEF Clamp
<1> QED
  BY <1>1, <1>2 DEF ActuatorsOnArcs

LEMMA ArcInit == ArcPanelInit => ArcInv
<1> SUFFICES ASSUME ArcPanelInit PROVE ArcInv
  OBVIOUS
<1>1. /\ screen = "MENU" /\ debounced = [a \in Actuator |-> TRUE]
      /\ ctl_arc = 0 /\ arc_shown = [a \in Actuator |-> 0]
      /\ turned = [a \in Actuator |-> FALSE] /\ refused = [a \in Actuator |-> FALSE]
  BY DEF ArcPanelInit, Init, ControllerInit, DisplayInit, NoArcs, None
<1> QED
  BY <1>1 DEF ArcInv, PanelTypeOK, HeldArcs, WritesFromFirst, ArcFollowsActuator,
     TurnsArrive, ControlsShown

-----------------------------------------------------------------------------
(* What is on its way stays on its way until it arrives.                   *)

LEMMA SendKeepsEvents ==
  ASSUME Types, NEW ev \in Event,
         event_broadcast_queue' = Append(event_broadcast_queue, ev)
  PROVE  /\ ActuatorEventComing => ctl_pc = "notify_write" \/ ActuatorEventComing'
         /\ ev = "ACTUATOR_VALUE_EVENT" => ActuatorEventComing'
<1> DEFINE e == event_broadcast_queue
<1>1. e \in Seq(Event)
  BY DEF Types, DataTypeOK
<1>2. /\ Len(e) \in Nat /\ Len(e') = Len(e) + 1 /\ e'[Len(e) + 1] = ev
      /\ \A i \in 1 .. Len(e) : e'[i] = e[i]
  BY <1>1, SendFacts
<1>3. ASSUME NEW i \in 1 .. Len(e), e[i] = "ACTUATOR_VALUE_EVENT"
      PROVE  ActuatorEventComing'
  <2>1. i \in 1 .. Len(e') /\ e'[i] = "ACTUATOR_VALUE_EVENT"
    BY <1>2, <1>3
  <2> QED
    BY <2>1 DEF ActuatorEventComing
<1>4. ASSUME ev = "ACTUATOR_VALUE_EVENT" PROVE ActuatorEventComing'
  <2>1. Len(e) + 1 \in 1 .. Len(e') /\ e'[Len(e) + 1] = "ACTUATOR_VALUE_EVENT"
    BY <1>2, <1>4
  <2> QED
    BY <2>1 DEF ActuatorEventComing
<1> QED
  BY <1>3, <1>4 DEF ActuatorEventComing

LEMMA ShowKeepsEvents ==
  ASSUME Types, HandleEvent, UNCHANGED ctl_pc,
         Head(event_broadcast_queue) # "ACTUATOR_VALUE_EVENT", ActuatorEventComing
  PROVE  ActuatorEventComing'
<1> DEFINE e == event_broadcast_queue
<1>1. e \in Seq(Event) /\ e # <<>> /\ e' = Tail(e)
  BY DEF Types, DataTypeOK, HandleEvent, RemoveEvent
<1>2. /\ Head(e) = e[1] /\ Len(e) \in Nat /\ Len(e') = Len(e) - 1
      /\ \A i \in 1 .. Len(e') : e'[i] = e[i + 1]
  BY <1>1, ReceiveFacts
<1>3. ASSUME NEW i \in 1 .. Len(e), e[i] = "ACTUATOR_VALUE_EVENT"
      PROVE  ActuatorEventComing'
  <2>1. i - 1 \in 1 .. Len(e') /\ e'[i - 1] = "ACTUATOR_VALUE_EVENT"
    BY <1>2, <1>3
  <2> QED
    BY <2>1 DEF ActuatorEventComing
<1> QED
  BY <1>3 DEF ActuatorEventComing

\* Every step of the controller but the one that comes to the write field.
LEMMA ControllerKeepsWrites ==
  ASSUME Types, WritesFromFirst, NEW a \in Actuator, WriteComing(a),
         ControllerStep, UNCHANGED displayVars
  PROVE  \/ WriteComing(a)'
         \/ ActuatorEventComing'
         \/ Gate /\ ~ActuatorsEnabled /\ ctl_cmd.write[a] # -1
<1> DEFINE c == incoming_queue_commands
<1>c. c \in Seq(Command)
  BY DEF Types, DataTypeOK
<1>a. a \in Int /\ 0 <= a /\ a < NumActuators /\ ctl_arc \in Int
  BY DEF Actuator, Types, ControllerTypes
<1>d. UNCHANGED <<draw_pc, out>>
  BY DEF displayVars
<1>1. CASE ReceiveCommand
  <2>1. /\ c # <<>> /\ c' = Tail(c) /\ ctl_cmd' = Head(c) /\ ctl_pc = "receive"
        /\ ctl_pc' \in {"gate", "stage"}
    BY <1>1 DEF ReceiveCommand
  <2>2. /\ Head(c) = c[1] /\ Len(c) \in Nat /\ Len(c') = Len(c) - 1
        /\ \A i \in 1 .. Len(c') : c'[i] = c[i + 1]
    BY <1>c, <2>1, ReceiveFacts
  <2>3. ASSUME NEW i \in 1 .. Len(c), c[i].write[a] # -1 PROVE WriteComing(a)'
    <3>1. CASE i = 1
      BY <2>1, <2>2, <2>3, <3>1 DEF WriteComing
    <3>2. CASE i # 1
      <4>1. i - 1 \in 1 .. Len(c') /\ c'[i - 1] = c[i]
        BY <2>2, <3>2
      <4> QED
        BY <2>3, <4>1 DEF WriteComing
    <3> QED
      BY <3>1, <3>2
  <2> QED
    BY <1>d, <2>1, <2>3 DEF WriteComing
<1>2. CASE BeginPreHeating \/ BeginSuccessor \/ BeginOff
  BY <1>2, <1>d DEF BeginPreHeating, BeginSuccessor, BeginOff, WriteComing
<1>3. CASE DeleteTraps \/ CreateStageTask \/ CreationFails
  BY <1>3, <1>d DEF DeleteTraps, CreateStageTask, CreationFails, WriteComing, dataVars
<1>4. CASE NotifyStage
  BY <1>4, <1>d DEF NotifyStage, WriteComing
<1>5. CASE Gate
  BY <1>5, <1>a, <1>d DEF Gate, WriteComing, WritesFromFirst, dataVars
<1>6. CASE SkipActuator
  BY <1>6, <1>a, <1>d DEF SkipActuator, WriteComing, dataVars
<1>7. CASE WriteActuator
  BY <1>7 DEF WriteActuator, ActuatorEventComing
<1>8. CASE NotifyActuator
  BY <1>8, SendKeepsEvents DEF NotifyActuator, Broadcast, Event
<1> QED
  BY <1>1, <1>2, <1>3, <1>4, <1>5, <1>6, <1>7, <1>8 DEF ControllerStep

LEMMA CallbackKeepsWrites ==
  ASSUME Types, NEW a \in Actuator, WriteComing(a), DisplayStep,
         UNCHANGED controllerVars
  PROVE  WriteComing(a)'
<1> DEFINE c == incoming_queue_commands
<1>c. c \in Seq(Command)
  BY DEF Types, DataTypeOK
<1>k. UNCHANGED <<ctl_pc, ctl_cmd, ctl_arc>>
  BY DEF controllerVars
<1>1. CASE SendCommand
  <2>1. c' = Append(c, out) /\ out \in Command
    BY <1>1 DEF SendCommand, Types, DisplayTypes
  <2>2. /\ Len(c) \in Nat /\ Len(c') = Len(c) + 1 /\ c'[Len(c) + 1] = out
        /\ \A i \in 1 .. Len(c) : c'[i] = c[i]
    BY <1>c, <2>1, SendFacts
  <2>3. ASSUME NEW i \in 1 .. Len(c), c[i].write[a] # -1 PROVE WriteComing(a)'
    <3>1. i \in 1 .. Len(c') /\ c'[i].write[a] # -1
      BY <2>2, <2>3
    <3> QED
      BY <3>1 DEF WriteComing
  <2>4. ASSUME out.write[a] # -1 PROVE WriteComing(a)'
    <3>1. Len(c) + 1 \in 1 .. Len(c') /\ c'[Len(c) + 1].write[a] # -1
      BY <2>2, <2>4
    <3> QED
      BY <3>1 DEF WriteComing
  <2> QED
    BY <1>k, <2>3, <2>4 DEF WriteComing
<1>2. CASE ~SendCommand
  <2>1. c' = c /\ draw_pc # "send"
    BY <1>2 DEF DisplayStep, Gesture, NoGesture, OpenManual, GoBack, ToggleContent,
       PressStage, AnswerNo, AnswerSave, TurnArc, ReleaseArc, HandleEvent, NoEvent,
       FreeFinger, OnArc, dataVars
  <2> QED
    BY <1>k, <2>1 DEF WriteComing
<1> QED
  BY <1>1, <1>2

-----------------------------------------------------------------------------
(* The steps.                                                              *)

\* Steps that move no arc and no actuator.
LEMMA FrameKeepsArcs ==
  ASSUME PanelTypeOK, ArcFollowsActuator, TurnsArrive,
         UNCHANGED <<arc_shown, turned, screen, current_content_type, read_actuator>>,
         refused' \in [Actuator -> BOOLEAN],
         ActuatorEventComing => ActuatorEventComing',
         \A a \in Actuator : refused[a] => refused'[a],
         \A a \in Actuator :
           ~debounced[a] \/ WriteComing(a) =>
             ~debounced'[a] \/ WriteComing(a)' \/ ActuatorEventComing' \/ refused'[a]
  PROVE  PanelTypeOK' /\ ArcFollowsActuator' /\ TurnsArrive'
<1>1. ControlsShown' = ControlsShown /\ ActuatorsOnArcs' = ActuatorsOnArcs
  BY DEF ControlsShown, ActuatorsOnArcs
<1>2. PanelTypeOK'
  BY DEF PanelTypeOK
<1>3. ArcFollowsActuator'
  BY <1>1 DEF ArcFollowsActuator
<1>4. ASSUME NEW a \in Actuator, ControlsShown', (arc_shown[a] # ActuatorsOnArcs[a])',
             ~refused'[a]
      PROVE  ActuatorEventComing' \/ ~debounced'[a] \/ WriteComing(a)'
  <2>1. ControlsShown /\ arc_shown[a] # ActuatorsOnArcs[a] /\ ~refused[a]
    BY <1>1, <1>4
  <2>2. ActuatorEventComing \/ ~debounced[a] \/ WriteComing(a)
    BY <2>1 DEF TurnsArrive
  <2> QED
    BY <1>4, <2>2
<1> QED
  BY <1>2, <1>3, <1>4 DEF TurnsArrive

\* Steps that put every arc where its actuator is, or take the arcs away.
LEMMA RefreshKeepsArcs ==
  ASSUME Types, read_actuator' = read_actuator,
         arc_shown' = IF ControlsShown' THEN ActuatorsOnArcs ELSE arc_shown',
         PanelTypeOK'
  PROVE  ArcFollowsActuator' /\ TurnsArrive'
<1>1. ActuatorsOnArcs' = ActuatorsOnArcs
  BY DEF ActuatorsOnArcs
<1> QED
  BY <1>1 DEF ArcFollowsActuator, TurnsArrive

LEMMA ControllerKeepsArcs ==
  ASSUME Types, ArcInv, PanelController
  PROVE  ArcInv'
<1> USE DEF ArcInv
<1>d. UNCHANGED displayVars /\ ControllerStep
  BY PanelControllerProjection DEF PanelController, ControllerRuns
<1>h. HeldArcs'
  BY <1>d DEF displayVars, HeldArcs
<1>w. WritesFromFirst'
  BY DEF WritesFromFirst, PanelController, GateWithHistory, ControllerLeavesArcs,
     ReceiveCommand, BeginPreHeating, BeginSuccessor, BeginOff, DeleteTraps,
     CreateStageTask, CreationFails, NotifyStage, Gate, SkipActuator, WriteActuator, NotifyActuator
<1>1. CASE WriteActuator
  <2>1. /\ ctl_pc' = "notify_write"
        /\ UNCHANGED panelVars
    BY <1>1 DEF WriteActuator, PanelController, GateWithHistory, ControllerLeavesArcs,
       Gate
  <2>2. ActuatorEventComing'
    BY <2>1 DEF ActuatorEventComing
  <2> QED
    BY <1>h, <1>w, <2>1, <2>2 DEF panelVars, PanelTypeOK, ArcFollowsActuator,
       TurnsArrive
<1>2. CASE ~WriteActuator
  <2>1. read_actuator' = read_actuator
    BY <1>2, <1>d DEF ControllerStep, ReceiveCommand, BeginPreHeating, BeginSuccessor,
       BeginOff, DeleteTraps, CreateStageTask, CreationFails, NotifyStage, Gate, SkipActuator,
       NotifyActuator, dataVars
  <2>2. UNCHANGED <<arc_shown, turned>>
    BY DEF PanelController, GateWithHistory, ControllerLeavesArcs, panelVars
  <2>3. /\ refused' \in [Actuator -> BOOLEAN]
        /\ \A a \in Actuator : refused[a] => refused'[a]
        /\ Gate /\ ~ActuatorsEnabled =>
             \A a \in Actuator : ctl_cmd.write[a] # -1 => refused'[a]
    <3>1. CASE GateWithHistory
      BY <3>1 DEF GateWithHistory, PanelTypeOK
    <3>2. CASE ControllerLeavesArcs
      <4>1. ~Gate
        BY <3>2 DEF ControllerLeavesArcs, Gate, ReceiveCommand, BeginPreHeating,
           BeginSuccessor, BeginOff, DeleteTraps, CreateStageTask, CreationFails, NotifyStage,
           SkipActuator, WriteActuator, NotifyActuator
      <4> QED
        BY <3>2, <4>1 DEF ControllerLeavesArcs, panelVars, PanelTypeOK
    <3> QED
      BY <3>1, <3>2 DEF PanelController
  <2>4. ActuatorEventComing => ActuatorEventComing'
    <3>1. CASE NotifyActuator
      BY <3>1, SendKeepsEvents DEF NotifyActuator, Broadcast, Event
    <3>2. CASE NotifyStage
      BY <3>2, SendKeepsEvents DEF NotifyStage, Broadcast, Event
    <3>3. CASE ~NotifyActuator /\ ~NotifyStage
      <4>1. /\ event_broadcast_queue' = event_broadcast_queue
            /\ ctl_pc = "notify_write" => ctl_pc' = "notify_write"
        BY <1>2, <1>d, <3>3 DEF ControllerStep, ReceiveCommand, BeginPreHeating,
           BeginSuccessor, BeginOff, DeleteTraps, CreateStageTask, CreationFails, Gate, SkipActuator,
           dataVars
      <4> QED
        BY <4>1 DEF ActuatorEventComing
    <3> QED
      BY <3>1, <3>2, <3>3
  <2>5. ASSUME NEW a \in Actuator, ~debounced[a] \/ WriteComing(a)
        PROVE  ~debounced'[a] \/ WriteComing(a)' \/ ActuatorEventComing' \/ refused'[a]
    <3>1. debounced' = debounced
      BY <1>d DEF displayVars
    <3> QED
      BY <1>d, <2>3, <2>5, <3>1, ControllerKeepsWrites
  <2>6. UNCHANGED <<screen, current_content_type>>
    BY <1>d DEF displayVars
  <2> QED
    BY <1>h, <1>w, <2>1, <2>2, <2>3, <2>4, <2>5, <2>6, FrameKeepsArcs
<1> QED
  BY <1>1, <1>2

LEMMA TaskKeepsArcs ==
  ASSUME Types, ArcInv, NEW s \in Slot, PanelTask(s)
  PROVE  ArcInv'
<1> USE DEF ArcInv
<1>1. UNCHANGED <<panelVars, displayVars, incoming_queue_commands, read_actuator,
                  ctl_pc, ctl_cmd, ctl_arc>>
  BY DEF PanelTask, StageTaskRuns, StageTaskStep, Wake, SendReport, dataVars
<1>2. HeldArcs' /\ WritesFromFirst'
  BY <1>1 DEF displayVars, HeldArcs, WritesFromFirst
<1>3. ActuatorEventComing => ActuatorEventComing'
  <2>1. CASE Wake(s)
    BY <2>1 DEF Wake, dataVars, ActuatorEventComing
  <2>2. CASE SendReport(s)
    <3>1. task[s].todo \in Seq(Event) /\ task[s].todo # <<>>
      BY <2>2 DEF SendReport, Types, ControllerTypes, Block
    <3>2. Head(task[s].todo) \in Event
      BY <3>1, ReceiveFacts
    <3>3. event_broadcast_queue' = Append(event_broadcast_queue, Head(task[s].todo))
      BY <2>2 DEF SendReport, Broadcast
    <3>4. ActuatorEventComing => ctl_pc = "notify_write" \/ ActuatorEventComing'
      BY <3>2, <3>3, SendKeepsEvents
    <3> QED
      BY <1>1, <3>4 DEF ActuatorEventComing
  <2> QED
    BY <2>1, <2>2 DEF PanelTask, StageTaskRuns, StageTaskStep
<1>4. \A a \in Actuator : WriteComing(a) => WriteComing(a)'
  BY <1>1 DEF displayVars, WriteComing
<1> QED
  BY <1>1, <1>2, <1>3, <1>4, FrameKeepsArcs DEF panelVars, displayVars, PanelTypeOK

LEMMA DisplayKeepsArcs ==
  ASSUME Types, ArcInv, PanelDisplay
  PROVE  ArcInv'
<1> USE DEF ArcInv
<1>k. UNCHANGED controllerVars /\ DisplayStep
  BY PanelDisplayProjection DEF PanelDisplay, DisplayRuns
<1>w. WritesFromFirst'
  BY <1>k DEF controllerVars, WritesFromFirst
<1>r. read_actuator' = read_actuator
  BY <1>k DEF DisplayStep, dataVars, NoGesture, Gesture, OpenManual, GoBack,
     ToggleContent, PressStage, AnswerNo, AnswerSave, TurnArc, ReleaseArc,
     SendCommand, HandleEvent, NoEvent
<1>c. \A a \in Actuator : WriteComing(a) => WriteComing(a)'
  BY <1>k, CallbackKeepsWrites
<1>v. arc_value \in [Actuator -> Int] /\ debounced \in [Actuator -> BOOLEAN]
  BY DEF Types, DisplayTypes
<1>p. ctl_pc' = ctl_pc
  BY <1>k DEF controllerVars
<1>1. CASE ChangeContent
  <2>1. HeldArcs'
    BY <1>1 DEF ChangeContent, OpenManual, GoBack, ToggleContent, FreeFinger, HeldArcs
  <2>2. /\ arc_shown' = IF current_content_type' = "CONTROLS" THEN ActuatorsOnArcs
                        ELSE NoArcs
        /\ turned' = None /\ refused' = None
    BY <1>1 DEF ChangeContent, InitPanel
  <2>3. PanelTypeOK'
    BY <2>2, OnArcsType DEF PanelTypeOK, None, NoArcs
  <2>4. ControlsShown' => arc_shown' = ActuatorsOnArcs
    BY <2>2 DEF ControlsShown
  <2> QED
    BY <1>r, <1>w, <2>1, <2>3, <2>4, RefreshKeepsArcs
<1>2. ASSUME NEW a \in Actuator, TurnShownArc(a) PROVE ArcInv'
  <2>1. /\ UNCHANGED <<refused, screen, current_content_type, event_broadcast_queue>>
        /\ turned' = [turned EXCEPT ![a] = TRUE]
        /\ arc_shown' = [arc_shown EXCEPT ![a] = arc_value'[a]]
        /\ debounced' = [debounced EXCEPT ![a] = FALSE]
    BY <1>2 DEF TurnShownArc, TurnArc, dataVars
  <2>2. PICK v \in Levels : arc_value' = [arc_value EXCEPT ![a] = v]
    BY <1>2 DEF TurnShownArc, TurnArc
  <2>3. arc_value'[a] = v /\ v \in 0 .. 100
    BY <1>v, <2>2
  <2>4. \A b \in Actuator \ {a} : /\ arc_value'[b] = arc_value[b]
                                  /\ debounced'[b] = debounced[b]
                                  /\ arc_shown'[b] = arc_shown[b]
                                  /\ turned'[b] = turned[b]
    BY <1>v, <2>1, <2>2 DEF PanelTypeOK
  <2>5. turned'[a] /\ ~debounced'[a]
    BY <1>v, <2>1 DEF PanelTypeOK
  <2>6. HeldArcs'
    BY <2>3, <2>4 DEF HeldArcs
  <2>7. PanelTypeOK'
    BY <2>1, <2>3 DEF PanelTypeOK
  <2>8. ControlsShown' = ControlsShown /\ ActuatorsOnArcs' = ActuatorsOnArcs
    BY <1>r, <2>1 DEF ControlsShown, ActuatorsOnArcs
  <2>9. ActuatorEventComing' <=> ActuatorEventComing
    BY <1>p, <2>1 DEF ActuatorEventComing
  <2>10. ArcFollowsActuator'
    BY <2>4, <2>5, <2>8, <2>9 DEF ArcFollowsActuator
  <2>11. TurnsArrive'
    <3> SUFFICES ASSUME NEW b \in Actuator, ControlsShown',
                        (arc_shown[b] # ActuatorsOnArcs[b])', ~refused'[b]
                 PROVE  ActuatorEventComing' \/ ~debounced'[b] \/ WriteComing(b)'
      BY DEF TurnsArrive
    <3>1. CASE b = a
      BY <2>5, <3>1
    <3>2. CASE b # a
      <4>1. ControlsShown /\ arc_shown[b] # ActuatorsOnArcs[b] /\ ~refused[b]
        BY <2>1, <2>4, <2>8, <3>2
      <4>2. ActuatorEventComing \/ ~debounced[b] \/ WriteComing(b)
        BY <4>1 DEF TurnsArrive
      <4> QED
        BY <1>c, <2>4, <2>9, <3>2, <4>2
    <3> QED
      BY <3>1, <3>2
  <2> QED
    BY <1>w, <2>6, <2>7, <2>10, <2>11
<1>3. CASE ShowActuators
  <2>1. UNCHANGED <<screen, current_content_type, arc_value, debounced>>
    BY <1>3 DEF ShowActuators, HandleEvent
  <2>2. HeldArcs'
    BY <2>1 DEF HeldArcs
  <2>3. CASE /\ Head(event_broadcast_queue) = "ACTUATOR_VALUE_EVENT"
             /\ current_content_type = "CONTROLS"
    <3>1. arc_shown' = ActuatorsOnArcs /\ turned' = None /\ refused' = None
      BY <1>3, <2>3 DEF ShowActuators, RefreshArcs
    <3>2. PanelTypeOK'
      BY <3>1, OnArcsType DEF PanelTypeOK, None
    <3> QED
      BY <1>r, <1>w, <2>2, <3>1, <3>2, RefreshKeepsArcs
  <2>4. CASE current_content_type # "CONTROLS"
    <3>1. UNCHANGED <<arc_shown, turned, refused>> /\ ~ControlsShown'
      BY <1>3, <2>1, <2>4 DEF ShowActuators, ControlsShown
    <3> QED
      BY <1>w, <2>2, <3>1 DEF PanelTypeOK, ArcFollowsActuator, TurnsArrive
  <2>5. CASE Head(event_broadcast_queue) # "ACTUATOR_VALUE_EVENT"
    <3>1. UNCHANGED <<arc_shown, turned, refused>>
      BY <1>3, <2>5 DEF ShowActuators
    <3>2. ActuatorEventComing => ActuatorEventComing'
      BY <1>3, <1>p, <2>5, ShowKeepsEvents DEF ShowActuators
    <3> QED
      BY <1>c, <1>r, <1>w, <2>1, <2>2, <3>1, <3>2, FrameKeepsArcs DEF PanelTypeOK
  <2> QED
    BY <2>3, <2>4, <2>5
<1>4. CASE DisplayLeavesArcs
  <2>1. UNCHANGED <<arc_shown, turned, refused, screen, current_content_type,
                    arc_value, event_broadcast_queue>>
    BY <1>4 DEF DisplayLeavesArcs, panelVars, dataVars, NoGesture, PressStage,
       AnswerNo, AnswerSave, ReleaseArc, SendCommand, NoEvent
  <2>2. ActuatorEventComing => ActuatorEventComing'
    BY <1>p, <2>1 DEF ActuatorEventComing
  <2>3. \A a \in Actuator : ~debounced'[a] => ~debounced[a]
    BY <1>4, <1>v DEF DisplayLeavesArcs, NoGesture, PressStage, AnswerNo, AnswerSave,
       ReleaseArc, SendCommand, NoEvent
  <2>4. HeldArcs'
    BY <2>1, <2>3 DEF HeldArcs
\* The finger lifts: what the arc shows is sent.
  <2>5. ASSUME NEW a \in Actuator, ~debounced[a], debounced'[a]
        PROVE  WriteComing(a)'
    <3>1. PICK b \in Actuator : ReleaseArc(b)
      BY <1>4, <2>5 DEF DisplayLeavesArcs, NoGesture, PressStage, AnswerNo,
         AnswerSave, SendCommand, NoEvent
    <3>2. a = b
      BY <2>5, <3>1 DEF ReleaseArc, OnArc
    <3>3. /\ draw_pc' = "send"
          /\ out' = [EmptyCommand EXCEPT !.write[a] = arc_value[a]]
      BY <3>1, <3>2 DEF ReleaseArc
    <3>4. out'.write[a] = arc_value[a]
      BY <3>3 DEF EmptyCommand
    <3>5. arc_value[a] \in 0 .. 100
      BY <2>5 DEF HeldArcs
    <3>6. \A v \in 0 .. 100 : v # -1
      OBVIOUS
    <3>7. (draw_pc = "send" /\ out.write[a] # -1)'
      BY <3>3, <3>4, <3>5, <3>6
    <3> QED
      BY ONLY <3>7 DEF WriteComing
  <2>6. \A a \in Actuator : ~debounced[a] \/ WriteComing(a) =>
          ~debounced'[a] \/ WriteComing(a)'
    BY <1>c, <2>5
  <2> QED
    BY <1>r, <1>w, <2>1, <2>2, <2>4, <2>6, FrameKeepsArcs DEF PanelTypeOK
<1> QED
  BY <1>1, <1>2, <1>3, <1>4 DEF PanelDisplay

LEMMA ArcStep == Types /\ ArcInv /\ [ArcPanelNext]_arcVars => ArcInv'
<1> SUFFICES ASSUME Types, ArcInv, [ArcPanelNext]_arcVars PROVE ArcInv'
  OBVIOUS
<1>1. CASE PanelController
  BY <1>1, ControllerKeepsArcs
<1>2. ASSUME NEW s \in Slot, PanelTask(s) PROVE ArcInv'
  BY <1>2, TaskKeepsArcs
<1>3. CASE PanelDisplay
  BY <1>3, DisplayKeepsArcs
<1>4. CASE RebootPanel
  <2>1. /\ screen' = "MENU" /\ current_content_type' = "CHART"
        /\ debounced' = [a \in Actuator |-> TRUE] /\ ctl_arc' = 0
        /\ arc_shown' = NoArcs /\ turned' = None /\ refused' = None
    BY <1>4 DEF RebootPanel, Reboot, InitPanel
  <2> QED
    BY <2>1 DEF ArcInv, PanelTypeOK, HeldArcs, WritesFromFirst, ArcFollowsActuator,
       TurnsArrive, ControlsShown, NoArcs, None
<1>5. CASE UNCHANGED arcVars
  BY <1>5 DEF arcVars, vars, dataVars, controllerVars, displayVars, panelVars, ArcInv,
     PanelTypeOK, HeldArcs, WritesFromFirst, ArcFollowsActuator, TurnsArrive,
     ControlsShown, ActuatorsOnArcs, ActuatorEventComing, WriteComing
<1> QED
  BY <1>1, <1>2, <1>3, <1>4, <1>5 DEF ArcPanelNext

\* An arc nobody has turned since it was last refreshed shows its actuator, or
\* an ACTUATOR_VALUE_EVENT is on its way (controls.c:46-48,63-67;
\* controller.c:201-207), whatever duty a bare touch of an arc has sent.
THEOREM UnturnedArcFollows == ArcPanelSpec => []ArcFollowsActuator
<1>1. ArcInv => ArcFollowsActuator
  BY DEF ArcInv
<1> QED
  BY <1>1, ArcInit, ArcStep, PanelImplementsRoaster, InitTypes, TypesStep, PTL
     DEF Spec, ArcPanelSpec

\* When everything has come to rest, an arc shows its actuator or the gate
\* refused what it sent: no turn is lost on the way through the callback, the
\* queue and the controller, and no event overtakes the one that matters
\* (controls.c:165-198 against controller.c:197-224).
THEOREM ArcsComeToAgree == ArcPanelSpec => []RestingArcsAgree
<1>1. ASSUME Types, ArcInv PROVE RestingArcsAgree
  <2> SUFFICES ASSUME Settled, ControlsShown, NEW a \in Actuator,
                      arc_shown[a] # ActuatorsOnArcs[a], ~refused[a]
               PROVE  FALSE
    BY DEF RestingArcsAgree
  <2>1. ActuatorEventComing \/ ~debounced[a] \/ WriteComing(a)
    BY <1>1 DEF ArcInv, TurnsArrive
  <2>2. ~ActuatorEventComing /\ debounced[a]
    BY DEF Settled, ActuatorEventComing
  <2>3. ~WriteComing(a)
    BY DEF Settled, WriteComing
  <2> QED
    BY <2>1, <2>2, <2>3
<1> QED
  BY <1>1, ArcInit, ArcStep, PanelImplementsRoaster, PanelProjection, InitTypes,
     TypesStep, PTL DEF Spec, ArcPanelSpec
=============================================================================
