-------------------------- MODULE TimerLabelProofs --------------------------
(***************************************************************************)
(* The time on the manual screen, for every queue length, number of        *)
(* actuators, heap and operator.                                           *)
(***************************************************************************)
EXTENDS TimerLabel, RoasterProofs

USE DataAssumption, SlotAssumption, OperatorAssumption
  DEF DataAssumption, SlotAssumption, OperatorAssumption

-----------------------------------------------------------------------------
(* What is proved of Roaster holds here.                                   *)

LEMMA ControllerProjection == TimedController => ControllerRuns
  BY DEF TimedController, ControllerRuns, ControllerStep, EnterStage, FirstTick,
     ControllerElsewhere

LEMMA DisplayProjection == TimedDisplay => DisplayRuns
  BY DEF TimedDisplay, DisplayRuns, DisplayStep, Gesture, ShowEvent, ChangeScreen,
     DisplayElsewhere

LEMMA TimerProjection == [TimerNext]_allVars => [Next]_vars
<1> SUFFICES ASSUME [TimerNext]_allVars PROVE [Next]_vars
  OBVIOUS
<1>1. ASSUME NEW s \in Slot, TimedTask(s) PROVE StageTaskRuns(s) \/ UNCHANGED vars
  BY <1>1 DEF TimedTask, StageTaskRuns, StageTaskStep, TaskTicks, vars
<1>2. CASE RebootTimer
  BY <1>2 DEF RebootTimer, Next
<1>3. CASE UNCHANGED allVars
  BY <1>3 DEF allVars
<1> QED
  BY <1>1, <1>2, <1>3, ControllerProjection, DisplayProjection DEF TimerNext, Next

LEMMA TimerImplementsRoaster == TimerSpec => Spec
<1>1. TimerInit => Init
  BY DEF TimerInit
<1> QED
  BY <1>1, TimerProjection, PTL DEF TimerSpec, Spec

-----------------------------------------------------------------------------
(* The tasks that write clocks.                                            *)

\* A torra_task or cooler_task is of the present run of its stage. The handle a
\* repeated stage deletes through names that task or none.
ClockTasksInv ==
  \/ strayed
  \/ /\ \A s \in Live : task[s].kind \in Timed => OfThisRun(s)
     /\ (read_stage = START /\ handle[PRE_HEATING] \in Live) =>
          task[handle[PRE_HEATING]].kind = START
     /\ (read_stage = COOLER /\ handle[START] \in Live) =>
          task[handle[START]].kind = COOLER

\* Steps that create and delete nothing.
LEMMA FrameKeepsClockTasks ==
  ASSUME ClockTasksInv, UNCHANGED <<handle, read_stage, strayed, failed>>,
         ctl_pc' = "create" => ctl_pc = "create",
         Live' = Live, \A s \in Live : task'[s].kind = task[s].kind
  PROVE  ClockTasksInv'
  BY DEF ClockTasksInv, OfThisRun

LEMMA BeginKeepsClockTasks ==
  ASSUME Types, StagesInOrder, ClockTasksInv,
         BeginPreHeating \/ BeginSuccessor \/ BeginOff
  PROVE  ClockTasksInv'
<1>t. task \in [Slot -> Block] /\ handle \in [TaskKind -> Slot \cup {NoTask}]
  BY DEF Types, ControllerTypes
<1> SUFFICES ASSUME ~strayed' PROVE ClockTasksInv'
  BY DEF ClockTasksInv
<1>s. ~strayed
  BY DEF BeginPreHeating, BeginSuccessor, BeginOff, DeleteTask, faults
<1>1. CASE BeginPreHeating
  <2>1. /\ ctl_cmd.stage = PRE_HEATING /\ ctl_pc = "stage" /\ read_stage' = PRE_HEATING
        /\ \A s \in Slot : task'[s].kind = task[s].kind
    BY <1>1, <1>t DEF BeginPreHeating, Block
  <2>2. read_stage \in {STAGE_OFF, PRE_HEATING}
    BY <2>1, HandlerStage, StageFacts
  <2>3. \A s \in Live : task[s].kind \notin Timed
    BY <1>s, <2>2, StageFacts DEF ClockTasksInv, OfThisRun, Timed
  <2>4. Live' = Live
    BY <2>1 DEF Live
  <2> QED
    BY <2>1, <2>3, <2>4, StageFacts DEF ClockTasksInv, Live
<1>2. CASE BeginSuccessor \/ BeginOff
  <2> DEFINE stage == ctl_cmd.stage
             old == handle[Predecessor(stage)]
  <2>1. /\ ctl_pc = "stage" /\ read_stage' = stage /\ handle' = handle
        /\ stage \in {START, COOLER, STAGE_OFF}
        /\ DeleteTask(Predecessor(stage))
    BY <1>2, StageFacts DEF BeginSuccessor, BeginOff, Predecessor
  <2>2. /\ stage = START => read_stage \in {PRE_HEATING, START}
        /\ stage = COOLER => read_stage \in {START, COOLER}
        /\ stage = STAGE_OFF => read_stage \in {COOLER, STAGE_OFF}
    BY <2>1, HandlerStage, StageFacts
  <2>3. CASE Stale(Predecessor(stage))
    \* It has not strayed: there was no task.
    <3>1. Live = {} /\ task' = task
      BY <2>1, <2>3 DEF DeleteTask
    <3> QED
      BY <3>1 DEF ClockTasksInv, Live
  <2>4. CASE ~Stale(Predecessor(stage))
    <3>1. old \in Live /\ task' = [task EXCEPT ![old] = Free]
      BY <2>1, <2>4 DEF DeleteTask, Stale
    <3>2. \A s \in Live : task[s].kind \in Timed => s = old
      <4>1. \A s \in Live : task[s].kind \in Timed =>
              read_stage \in Timed /\ s = handle[read_stage]
        BY <1>s DEF ClockTasksInv, OfThisRun
      <4>2. CASE stage = read_stage
        <5>1. read_stage \in Timed => task[old].kind = read_stage
          BY <1>s, <3>1, <4>2, StageFacts DEF ClockTasksInv, Predecessor, Timed
        <5> QED
          BY <3>1, <4>1, <5>1
      <4>3. CASE stage # read_stage
        BY <2>1, <2>2, <4>1, <4>3, StageFacts DEF Predecessor, Timed
      <4> QED
        BY <4>2, <4>3
    <3>3. Live' = Live \ {old} /\ \A s \in Live' : task'[s] = task[s]
      BY <1>t, <3>1 DEF Live, Free
    <3>4. \A s \in Live' : task'[s].kind \notin Timed
      BY <3>2, <3>3
    <3>5. stage \in {START, COOLER} => handle'[Predecessor(stage)] \notin Live'
      BY <2>1, <3>3
    <3> QED
      BY <2>1, <3>4, <3>5, StageFacts DEF ClockTasksInv, Predecessor
  <2> QED
    BY <2>3, <2>4
<1> QED
  BY <1>1, <1>2

LEMMA CreateKeepsClockTasks ==
  ASSUME Types, ClockTasksInv, CreateStageTask
  PROVE  ClockTasksInv'
<1>1. /\ ctl_pc = "create" /\ ctl_pc' = "notify_stage"
      /\ ctl_cmd.stage = read_stage /\ read_stage' = read_stage
      /\ read_stage \in TaskKind /\ failed' = failed \ {read_stage}
      /\ strayed' = strayed
      /\ task \in [Slot -> Block] /\ handle \in [TaskKind -> Slot \cup {NoTask}]
  BY DEF CreateStageTask, Types, ControlOK, ControllerTypes, dataVars
<1> SUFFICES ASSUME ~strayed PROVE ClockTasksInv'
  BY <1>1 DEF ClockTasksInv
<1>2. \A s \in Live : task[s].kind \notin Timed
  BY <1>1 DEF ClockTasksInv, OfThisRun
<1>3. PICK b \in Slot \ Live : /\ task' = [task EXCEPT ![b] = NewTask(read_stage)]
                               /\ handle' = [handle EXCEPT ![read_stage] = b]
  BY <1>1 DEF CreateStageTask, StoreHandle
<1>4. /\ task'[b].kind = read_stage /\ handle'[read_stage] = b
      /\ \A s \in Slot \ {b} : task'[s] = task[s]
      /\ \A k \in TaskKind \ {read_stage} : handle'[k] = handle[k]
  BY <1>1, <1>3 DEF NewTask
<1>5. Live' = Live \cup {b}
  BY <1>1, <1>4, StageFacts DEF Live
<1>6. \A s \in Live' : task'[s].kind \in Timed => s = b
  BY <1>2, <1>4, <1>5 DEF Live
<1>7. OfThisRun(b)'
  BY <1>1, <1>4 DEF OfThisRun
<1> QED
  BY <1>1, <1>4, <1>5, <1>6, <1>7, <1>2, StageFacts DEF ClockTasksInv, Timed, Live

\* A creation that fails leaves no task of the stage behind.
LEMMA FailureKeepsClockTasks ==
  ASSUME Types, ClockTasksInv, CreationFails
  PROVE  ClockTasksInv'
<1>1. ctl_pc = "create" /\ UNCHANGED <<task, handle, read_stage, strayed>>
  BY DEF CreationFails, dataVars
<1>2. strayed \/ \A s \in Live : task[s].kind \notin Timed
  BY <1>1 DEF ClockTasksInv, OfThisRun
<1> QED
  BY <1>1, <1>2 DEF ClockTasksInv, Live

LEMMA ClockTasksStep ==
  Types /\ StagesInOrder /\ ClockTasksInv /\ [Next]_vars => ClockTasksInv'
<1> SUFFICES ASSUME Types, StagesInOrder, ClockTasksInv, [Next]_vars
             PROVE  ClockTasksInv'
  OBVIOUS
<1>1. CASE BeginPreHeating \/ BeginSuccessor \/ BeginOff
  BY <1>1, BeginKeepsClockTasks
<1>2. CASE CreateStageTask \/ CreationFails
  BY <1>2, CreateKeepsClockTasks, FailureKeepsClockTasks
<1>3. CASE \/ ReceiveCommand \/ DeleteTraps \/ NotifyStage \/ Gate \/ SkipActuator
           \/ WriteActuator \/ NotifyActuator
  <2>1. UNCHANGED <<handle, read_stage, task, failed, strayed>> /\ ctl_pc' # "create"
    BY <1>3 DEF ReceiveCommand, DeleteTraps, NotifyStage, Gate, SkipActuator,
       WriteActuator, NotifyActuator, dataVars, faults
  <2> QED
    BY <2>1, FrameKeepsClockTasks DEF Live
<1>4. CASE ControllerRuns
  BY <1>1, <1>2, <1>3, <1>4 DEF ControllerRuns, ControllerStep
<1>5. ASSUME NEW s \in Slot, StageTaskRuns(s) PROVE ClockTasksInv'
  <2>1. /\ UNCHANGED <<handle, read_stage, ctl_pc, failed, strayed>>
        /\ \E todo : task' = [task EXCEPT ![s].todo = todo]
    BY <1>5 DEF StageTaskRuns, StageTaskStep, Wake, SendReport, dataVars, faults
  <2>2. \A t \in Slot : task'[t].kind = task[t].kind
    BY <2>1 DEF Types, ControllerTypes, Block
  <2> QED
    BY <2>1, <2>2, FrameKeepsClockTasks DEF Live
<1>6. CASE DisplayRuns \/ UNCHANGED vars
  <2>1. UNCHANGED <<handle, ctl_pc, task, failed, strayed>>
    BY <1>6 DEF DisplayRuns, vars, controllerVars, faults
  <2>2. UNCHANGED read_stage
    BY <1>6 DEF DisplayRuns, DisplayStep, dataVars, NoGesture, Gesture, OpenManual,
       GoBack, ToggleContent, PressStage, AnswerNo, AnswerSave, TurnArc, ReleaseArc,
       SendCommand, HandleEvent, NoEvent, vars
  <2> QED
    BY <2>1, <2>2, FrameKeepsClockTasks DEF Live
<1>7. CASE Reboot
  BY <1>7, StageFacts DEF Reboot, ClockTasksInv, Live, Free
<1> QED
  BY <1>4, <1>5, <1>6, <1>7 DEF Next

LEMMA ClockTasksInit == Init => ClockTasksInv
  BY StageFacts DEF Init, DataInit, ControllerInit, ClockTasksInv, Live, Free

\* However impatient the operator, however small the heap and whichever creations
\* fail, a repeated START leaves no second torra_task behind, nor a repeated
\* COOLER a second cooler_task, until vTaskDelete comes back from memory that
\* holds no task while a stage task runs: a handle that names another live task
\* does no such harm (controller.c:126-136,145-156,310,343).
THEOREM ClocksHaveOneWriter == TimerSpec => []OneClockWriter
<1>1. ClockTasksInv => OneClockWriter
  BY DEF ClockTasksInv, OneClockWriter, OfThisRun
<1> QED
  BY <1>1, TimerImplementsRoaster, InitTypes, TypesStep, OrderInit, OrderStep,
     ClockTasksInit, ClockTasksStep, PTL DEF Spec

-----------------------------------------------------------------------------
(* What the tasks report.                                                  *)

\* The heating task reports no time.
ReportsInv ==
  \A s \in Slot : task[s].kind = PRE_HEATING =>
    \A i \in 1 .. Len(task[s].todo) : task[s].todo[i] # "TIMER_VALUE_EVENT"

LEMMA FrameKeepsReports ==
  ASSUME ReportsInv,
         \A s \in Slot : task'[s].kind = task[s].kind /\ task'[s].todo = task[s].todo
  PROVE  ReportsInv'
  BY DEF ReportsInv

LEMMA ReportsStep ==
  Types /\ ReportsInv /\ [Next]_vars => ReportsInv'
<1> SUFFICES ASSUME Types, ReportsInv, [Next]_vars PROVE ReportsInv'
  OBVIOUS
<1>t. task \in [Slot -> Block]
  BY DEF Types, ControllerTypes
<1>1. CASE BeginPreHeating
  BY <1>t, <1>1, FrameKeepsReports DEF BeginPreHeating, Block
<1>2. CASE BeginSuccessor \/ BeginOff \/ CreateStageTask
  <2>1. \/ UNCHANGED task
        \/ \E b \in Slot, new \in {Free} \cup {NewTask(k) : k \in Stage} :
             task' = [task EXCEPT ![b] = new]
    BY <1>2 DEF BeginSuccessor, BeginOff, DeleteTask, Stale, Live, CreateStageTask,
       Types, ControlOK, DataTypeOK
  <2>2. \A k \in Stage : NewTask(k).todo = <<>>
    BY DEF NewTask
  <2> QED
    BY <1>t, <2>1, <2>2 DEF Free, ReportsInv
<1>3. CASE \/ ReceiveCommand \/ DeleteTraps \/ CreationFails \/ NotifyStage \/ Gate
           \/ SkipActuator \/ WriteActuator \/ NotifyActuator
  <2>1. UNCHANGED task
    BY <1>3 DEF ReceiveCommand, DeleteTraps, CreationFails, NotifyStage, Gate,
       SkipActuator, WriteActuator, NotifyActuator
  <2> QED
    BY <2>1, FrameKeepsReports
<1>4. CASE ControllerRuns
  BY <1>1, <1>2, <1>3, <1>4 DEF ControllerRuns, ControllerStep
<1>5. ASSUME NEW s \in Slot, StageTaskRuns(s) PROVE ReportsInv'
  <2>1. CASE Wake(s)
    <3>1. task' = [task EXCEPT ![s].todo = Report(task[s].kind)]
      BY <2>1 DEF Wake
    <3>2. Report(PRE_HEATING) = <<"SENSOR_VALUE_EVENT">>
      BY DEF Report
    <3> QED
      BY <1>t, <3>1, <3>2 DEF ReportsInv, Block
  <2>2. CASE SendReport(s)
    <3>1. /\ task' = [task EXCEPT ![s].todo = Tail(task[s].todo)]
          /\ task[s].todo \in Seq(Event) /\ task[s].todo # <<>>
      BY <1>t, <2>2 DEF SendReport, Block
    <3>2. /\ Len(task[s].todo) \in Nat
          /\ Len(Tail(task[s].todo)) = Len(task[s].todo) - 1
          /\ \A i \in 1 .. Len(Tail(task[s].todo)) :
               Tail(task[s].todo)[i] = task[s].todo[i + 1]
      BY <3>1, ReceiveFacts
    <3>3. /\ task'[s].todo = Tail(task[s].todo) /\ task'[s].kind = task[s].kind
          /\ \A t \in Slot \ {s} : task'[t] = task[t]
      BY <1>t, <3>1 DEF Block
    <3>4. \A i \in 1 .. Len(Tail(task[s].todo)) : i + 1 \in 1 .. Len(task[s].todo)
      BY <3>2
    <3>5. task[s].kind = PRE_HEATING =>
            \A i \in 1 .. Len(task'[s].todo) : task'[s].todo[i] # "TIMER_VALUE_EVENT"
      BY <3>2, <3>3, <3>4 DEF ReportsInv
    <3> QED
      BY <3>3, <3>5 DEF ReportsInv
  <2> QED
    BY <1>5, <2>1, <2>2 DEF StageTaskRuns, StageTaskStep
<1>6. CASE DisplayRuns \/ UNCHANGED vars
  BY <1>6, FrameKeepsReports DEF DisplayRuns, vars, controllerVars
<1>7. CASE Reboot
  BY <1>7 DEF Reboot, ReportsInv, Free
<1> QED
  BY <1>4, <1>5, <1>6, <1>7 DEF Next

LEMMA ReportsInit == Init => ReportsInv
  BY DEF Init, ControllerInit, ReportsInv, Free

-----------------------------------------------------------------------------
(* The label.                                                              *)

StageEventQueued ==
  \E i \in 1 .. Len(event_broadcast_queue) : event_broadcast_queue[i] = "STAGE_EVENT"

\* A STAGE_EVENT follows every queued TIMER_VALUE_EVENT.
TimerEventsFollowed ==
  \A i \in 1 .. Len(event_broadcast_queue) :
    event_broadcast_queue[i] = "TIMER_VALUE_EVENT" =>
      \E j \in i + 1 .. Len(event_broadcast_queue) :
        event_broadcast_queue[j] = "STAGE_EVENT"

\* From its task's first tick on, the clock of the stage the machine is in shows
\* a time in that stage: a report cannot bring back an older one. If the task
\* was not created, no report is behind the stage's event.
ClockInv ==
  /\ TimerTypeOK
  /\ (read_stage \in Timed /\ clock[read_stage] = "past" /\ ctl_pc # "create") =>
       \/ strayed
       \/ read_stage \in failed /\ (ctl_pc = "notify_stage" \/ TimerEventsFollowed)
  /\ OldTimeIsCleared

LEMMA ClockInit == TimerInit => ClockInv
  BY StageFacts DEF TimerInit, Init, DataInit, ControllerInit, DisplayInit, ClockInv,
     TimerTypeOK, Time, Timed, OldTimeIsCleared

LEMMA FirstTickKeepsClock ==
  ASSUME Types, ClockInv, FirstTick, UNCHANGED displayVars
  PROVE  ClockInv'
<1>1. /\ ctl_pc' = "notify_stage" /\ timer_label' = timer_label
      /\ read_stage' = ctl_cmd.stage
      /\ clock' = [k \in Timed |-> IF k = ctl_cmd.stage THEN "present" ELSE clock[k]]
  BY DEF FirstTick, CreateStageTask, Types, ControlOK, dataVars
<1>2. TimerTypeOK'
  BY <1>1 DEF ClockInv, TimerTypeOK, Time
<1> QED
  BY <1>1, <1>2 DEF ClockInv, OldTimeIsCleared, StageEventComing

LEMMA EnterKeepsClock ==
  ASSUME Types, ClockInv, EnterStage
  PROVE  ClockInv'
<1>1. TimerTypeOK'
  BY DEF EnterStage, ClockInv, TimerTypeOK, Aged, Time
<1>2. /\ ctl_pc' \in {"create", "notify_stage"}
      /\ read_stage' \in Timed => ctl_pc' = "create"
  BY StageFacts DEF EnterStage, BeginPreHeating, BeginSuccessor, BeginOff, Timed
<1> QED
  BY <1>1, <1>2 DEF ClockInv, OldTimeIsCleared, StageEventComing

LEMMA FailureKeepsClock ==
  ASSUME Types, ClockInv, CreationFails, UNCHANGED <<timerVars, displayVars>>
  PROVE  ClockInv'
<1>1. /\ ctl_pc' \in {"create", "notify_stage"}
      /\ read_stage' \in failed'
      /\ UNCHANGED <<clock, timer_label>>
  BY DEF CreationFails, Types, ControlOK, dataVars, timerVars
<1> QED
  BY <1>1 DEF ClockInv, TimerTypeOK, OldTimeIsCleared, StageEventComing

\* Sending an event removes none, and a STAGE_EVENT follows all of them.
LEMMA SendKeepsEvents ==
  ASSUME Types, NEW ev \in Event, Broadcast(ev)
  PROVE  /\ StageEventQueued \/ ev = "STAGE_EVENT" => StageEventQueued'
         /\ TimerEventsFollowed /\ ev # "TIMER_VALUE_EVENT" => TimerEventsFollowed'
         /\ ev = "STAGE_EVENT" => TimerEventsFollowed'
<1> DEFINE e == event_broadcast_queue
<1>1. e \in Seq(Event) /\ e' = Append(e, ev)
  BY DEF Types, DataTypeOK, Broadcast
<1>2. /\ Len(e) \in Nat /\ Len(e') = Len(e) + 1 /\ e'[Len(e) + 1] = ev
      /\ \A i \in 1 .. Len(e) : e'[i] = e[i]
  BY <1>1, SendFacts
<1> HIDE DEF e
<1>3. StageEventQueued \/ ev = "STAGE_EVENT" => StageEventQueued'
  BY <1>2 DEF StageEventQueued, e
<1>4. ASSUME NEW i \in 1 .. Len(e'), e'[i] = "TIMER_VALUE_EVENT", ev = "STAGE_EVENT"
      PROVE  \E j \in i + 1 .. Len(e') : e'[j] = "STAGE_EVENT"
  BY <1>2, <1>4
<1>5. ASSUME NEW i \in 1 .. Len(e'), e'[i] = "TIMER_VALUE_EVENT",
             TimerEventsFollowed, ev # "TIMER_VALUE_EVENT"
      PROVE  \E j \in i + 1 .. Len(e') : e'[j] = "STAGE_EVENT"
  <2>1. i \in 1 .. Len(e) /\ e[i] = "TIMER_VALUE_EVENT"
    BY <1>2, <1>5
  <2>2. PICK j \in i + 1 .. Len(e) : e[j] = "STAGE_EVENT"
    BY <1>5, <2>1 DEF TimerEventsFollowed, e
  <2>3. j \in 1 .. Len(e) /\ j \in i + 1 .. Len(e')
    BY <1>2, <2>1
  <2> QED
    BY <1>2, <2>2, <2>3
<1> QED
  BY <1>3, <1>4, <1>5 DEF TimerEventsFollowed, e

\* Showing an event, unless it is a STAGE_EVENT, removes none of them.
LEMMA ShowKeepsEvents ==
  ASSUME Types, event_broadcast_queue # <<>>, RemoveEvent
  PROVE  /\ StageEventQueued /\ Head(event_broadcast_queue) # "STAGE_EVENT"
              => StageEventQueued'
         /\ TimerEventsFollowed => TimerEventsFollowed'
         /\ TimerEventsFollowed /\ Head(event_broadcast_queue) = "TIMER_VALUE_EVENT"
              => StageEventQueued'
<1> DEFINE e == event_broadcast_queue
<1>1. e \in Seq(Event) /\ e # <<>> /\ e' = Tail(e)
  BY DEF Types, DataTypeOK, RemoveEvent
<1>2. /\ Head(e) = e[1] /\ Len(e) \in Nat /\ Len(e) >= 1 /\ Len(e') = Len(e) - 1
      /\ \A i \in 1 .. Len(e') : e'[i] = e[i + 1]
  BY <1>1, ReceiveFacts
<1> HIDE DEF e
\* An event behind the head moves up.
<1>3. ASSUME NEW j \in 2 .. Len(e) PROVE j - 1 \in 1 .. Len(e') /\ e'[j - 1] = e[j]
  BY <1>2
<1>4. ASSUME StageEventQueued, Head(e) # "STAGE_EVENT" PROVE StageEventQueued'
  <2>1. PICK i \in 1 .. Len(e) : e[i] = "STAGE_EVENT"
    BY <1>4 DEF StageEventQueued, e
  <2>2. i \in 2 .. Len(e)
    BY <1>2, <1>4, <2>1
  <2> QED
    BY <1>3, <2>1, <2>2 DEF StageEventQueued, e
<1>5. ASSUME TimerEventsFollowed, NEW i \in 1 .. Len(e'), e'[i] = "TIMER_VALUE_EVENT"
      PROVE  \E j \in i + 1 .. Len(e') : e'[j] = "STAGE_EVENT"
  <2>1. i + 1 \in 1 .. Len(e) /\ e[i + 1] = "TIMER_VALUE_EVENT"
    BY <1>2, <1>5
  <2>2. PICK j \in (i + 1) + 1 .. Len(e) : e[j] = "STAGE_EVENT"
    BY <1>5, <2>1 DEF TimerEventsFollowed, e
  <2>3. j \in 2 .. Len(e) /\ j - 1 \in i + 1 .. Len(e')
    BY <1>2, <2>1
  <2> QED
    BY <1>3, <2>2, <2>3
<1>6. ASSUME TimerEventsFollowed, Head(e) = "TIMER_VALUE_EVENT" PROVE StageEventQueued'
  <2>1. 1 \in 1 .. Len(e) /\ e[1] = "TIMER_VALUE_EVENT"
    BY <1>2, <1>6
  <2>2. PICK j \in 1 + 1 .. Len(e) : e[j] = "STAGE_EVENT"
    BY <1>6, <2>1 DEF TimerEventsFollowed, e
  <2>3. j \in 2 .. Len(e)
    BY <1>2
  <2> QED
    BY <1>3, <2>2, <2>3 DEF StageEventQueued, e
<1> QED
  BY <1>4, <1>5, <1>6 DEF TimerEventsFollowed, e

\* Steps that write no clock, show no event and enter no stage.
LEMMA FrameKeepsClock ==
  ASSUME ClockInv,
         UNCHANGED <<timerVars, read_stage, screen, failed, strayed>>,
         ctl_pc' = "create" <=> ctl_pc = "create",
         StageEventQueued => StageEventQueued',
         read_stage \in failed /\ ~strayed /\ TimerEventsFollowed => TimerEventsFollowed',
         ctl_pc = "notify_stage" =>
           \/ ctl_pc' = "notify_stage"
           \/ StageEventQueued' /\ TimerEventsFollowed'
  PROVE  ClockInv'
<1>1. StageEventComing => StageEventComing'
  BY DEF StageEventComing, StageEventQueued
<1> QED
  BY <1>1 DEF ClockInv, OldTimeIsCleared, timerVars, TimerTypeOK

LEMMA ControllerKeepsClock ==
  ASSUME Types, ClockInv, TimedController
  PROVE  ClockInv'
<1>d. UNCHANGED screen /\ UNCHANGED displayVars
  BY DEF TimedController, displayVars
<1>1. CASE EnterStage
  BY <1>1, EnterKeepsClock
<1>2. CASE FirstTick
  BY <1>d, <1>2, FirstTickKeepsClock
<1>3. CASE ControllerElsewhere
  <2>t. UNCHANGED timerVars
    BY <1>3 DEF ControllerElsewhere
  <2>1. CASE NotifyStage
    <3>1. Broadcast("STAGE_EVENT") /\ "STAGE_EVENT" \in Event
          /\ ctl_pc = "notify_stage" /\ ctl_pc' = "gate"
          /\ UNCHANGED <<read_stage, failed, strayed>>
      BY <2>1 DEF NotifyStage, Event, faults
    <3> QED
      BY <1>d, <2>t, <3>1, SendKeepsEvents, FrameKeepsClock
  <2>2. CASE NotifyActuator
    <3>1. Broadcast("ACTUATOR_VALUE_EVENT") /\ "ACTUATOR_VALUE_EVENT" \in Event
          /\ ctl_pc = "notify_write" /\ ctl_pc' = "write"
          /\ UNCHANGED <<read_stage, failed, strayed>>
      BY <2>2 DEF NotifyActuator, Event, faults
    <3> QED
      BY <1>d, <2>t, <3>1, SendKeepsEvents, FrameKeepsClock
  <2>3. CASE CreationFails
    BY <1>d, <2>t, <2>3, FailureKeepsClock
  <2>4. CASE ReceiveCommand \/ DeleteTraps \/ Gate \/ SkipActuator \/ WriteActuator
    <3>1. /\ ctl_pc \notin {"create", "notify_stage"} /\ ctl_pc' # "create"
          /\ UNCHANGED <<event_broadcast_queue, read_stage, failed, strayed>>
      BY <2>4 DEF ReceiveCommand, DeleteTraps, Gate, SkipActuator, WriteActuator,
         dataVars, faults
    <3> QED
      BY <1>d, <2>t, <3>1, FrameKeepsClock DEF StageEventQueued, TimerEventsFollowed
  <2> QED
    BY <1>3, <2>1, <2>2, <2>3, <2>4 DEF ControllerElsewhere
<1> QED
  BY <1>1, <1>2, <1>3 DEF TimedController

\* A task that writes a clock is that of the present run, which was created.
LEMMA TaskKeepsClock ==
  ASSUME Types, ClockTasksInv, ReportsInv, ClockInv, NEW s \in Slot, TimedTask(s)
  PROVE  ClockInv'
<1>1. /\ UNCHANGED <<timer_label, screen, read_stage, ctl_pc, failed, strayed>>
      /\ s \in Live /\ task[s].kind \in TaskKind
  BY DEF TimedTask, TaskTicks, Wake, SendReport, displayVars, dataVars, controllerVars,
     faults, Live, Types, ControllerTypes, Block
<1>2. strayed \/ (task[s].kind \in Timed => OfThisRun(s))
  BY <1>1 DEF ClockTasksInv
<1>3. CASE Tick(s) /\ UNCHANGED event_broadcast_queue
  <2>1. TimerTypeOK'
    BY <1>1, <1>3 DEF Tick, ClockInv, TimerTypeOK, Time
  <2>2. ~strayed /\ read_stage \in Timed =>
          clock'[read_stage] \in {clock[read_stage], "present"}
    BY <1>2, <1>3 DEF Tick
  <2>3. OldTimeIsCleared'
    BY <1>1, <1>3 DEF ClockInv, OldTimeIsCleared, StageEventComing
  <2> QED
    BY <1>1, <1>3, <2>1, <2>2, <2>3 DEF ClockInv, TimerEventsFollowed
<1>4. CASE SendReport(s) /\ UNCHANGED clock
  <2>1. task[s].todo \in Seq(Event) /\ task[s].todo # <<>>
        /\ Broadcast(Head(task[s].todo))
    BY <1>4 DEF SendReport, Types, ControllerTypes, Block
  <2>2. /\ Head(task[s].todo) \in Event /\ Head(task[s].todo) = task[s].todo[1]
        /\ 1 \in 1 .. Len(task[s].todo)
    BY <2>1, ReceiveFacts
  <2>3. read_stage \in failed /\ ~strayed => Head(task[s].todo) # "TIMER_VALUE_EVENT"
    <3> SUFFICES ASSUME read_stage \in failed, ~strayed
                 PROVE  Head(task[s].todo) # "TIMER_VALUE_EVENT"
      OBVIOUS
    <3>1. task[s].kind = PRE_HEATING
      BY <1>1, <1>2 DEF OfThisRun, TaskKind, Timed
    <3> QED
      BY <2>2, <3>1 DEF ReportsInv
  <2>4. /\ StageEventQueued => StageEventQueued'
        /\ read_stage \in failed /\ ~strayed /\ TimerEventsFollowed => TimerEventsFollowed'
    BY <2>1, <2>2, <2>3, SendKeepsEvents
  <2>5. UNCHANGED timerVars
    BY <1>1, <1>4 DEF timerVars
  <2>6. StageEventComing => StageEventComing'
    BY <1>1, <2>4 DEF StageEventComing, StageEventQueued
  <2> QED
    BY <1>1, <2>4, <2>5, <2>6 DEF ClockInv, OldTimeIsCleared, timerVars, TimerTypeOK
<1> QED
  BY <1>3, <1>4 DEF TimedTask, TaskTicks, Wake, dataVars

LEMMA ShowKeepsClock ==
  ASSUME Types, ClockInv, ShowEvent, UNCHANGED controllerVars
  PROVE  ClockInv'
<1> DEFINE first == Head(event_broadcast_queue)
<1>1. /\ event_broadcast_queue # <<>> /\ RemoveEvent
      /\ UNCHANGED <<screen, read_stage, clock, ctl_pc, failed, strayed>>
      /\ timer_label' = IF screen = "MANUAL" THEN ShownTime(first) ELSE timer_label
  BY DEF ShowEvent, HandleEvent, RemoveEvent, controllerVars, faults
<1>2. TimerTypeOK'
  BY <1>1 DEF ClockInv, TimerTypeOK, ShownTime, Time
<1>3. OldTimeIsCleared'
  <2> SUFFICES ASSUME screen = "MANUAL", timer_label' = "past", ~strayed
               PROVE  StageEventComing'
    BY <1>1 DEF OldTimeIsCleared
  <2>1. first # "STAGE_EVENT"
    BY <1>1 DEF ShownTime
  <2>2. CASE first = "TIMER_VALUE_EVENT"
    <3>1. read_stage \in Timed /\ clock[read_stage] = "past"
      BY <1>1, <2>2 DEF ShownTime
    <3>2. ctl_pc \in {"create", "notify_stage"} \/ TimerEventsFollowed
      BY <3>1 DEF ClockInv
    <3> QED
      BY <1>1, <2>2, <3>2, ShowKeepsEvents DEF StageEventComing, StageEventQueued
  <2>3. CASE first # "TIMER_VALUE_EVENT"
    <3>1. timer_label = "past"
      BY <1>1, <2>1, <2>3 DEF ShownTime
    <3>2. ctl_pc \in {"create", "notify_stage"} \/ StageEventQueued
      BY <3>1 DEF ClockInv, OldTimeIsCleared, StageEventComing, StageEventQueued
    <3> QED
      BY <1>1, <2>1, <3>2, ShowKeepsEvents DEF StageEventComing, StageEventQueued
  <2> QED
    BY <2>2, <2>3
<1> QED
  BY <1>1, <1>2, <1>3, ShowKeepsEvents DEF ClockInv

LEMMA ClockStep ==
  Types /\ ClockTasksInv /\ ReportsInv /\ ClockInv /\ [TimerNext]_allVars => ClockInv'
<1> SUFFICES ASSUME Types, ClockTasksInv, ReportsInv, ClockInv, [TimerNext]_allVars
             PROVE  ClockInv'
  OBVIOUS
<1>1. CASE TimedController
  BY <1>1, ControllerKeepsClock
<1>2. ASSUME NEW s \in Slot, TimedTask(s) PROVE ClockInv'
  BY <1>2, TaskKeepsClock
<1>3. CASE TimedDisplay
  <2>c. UNCHANGED <<ctl_pc, failed, strayed>> /\ UNCHANGED controllerVars
    BY <1>3 DEF TimedDisplay, controllerVars, faults
  <2>1. CASE ShowEvent
    BY <2>c, <2>1, ShowKeepsClock
  <2>2. CASE ChangeScreen
    <3>1. UNCHANGED <<clock, read_stage, event_broadcast_queue>> /\ timer_label' = "zero"
      BY <2>2 DEF ChangeScreen, OpenManual, GoBack, dataVars
    <3> QED
      BY <2>c, <3>1 DEF ClockInv, TimerTypeOK, Time, OldTimeIsCleared,
         TimerEventsFollowed
  <2>3. CASE DisplayElsewhere
    <3>1. UNCHANGED <<timerVars, screen, read_stage, event_broadcast_queue>>
      BY <2>3 DEF DisplayElsewhere, NoGesture, ToggleContent, PressStage, AnswerNo,
         AnswerSave, TurnArc, ReleaseArc, SendCommand, NoEvent, dataVars
    <3>2. (StageEventQueued => StageEventQueued') /\ (TimerEventsFollowed => TimerEventsFollowed')
      BY <3>1 DEF StageEventQueued, TimerEventsFollowed
    <3> QED
      BY <2>c, <3>1, <3>2, FrameKeepsClock
  <2> QED
    BY <1>3, <2>1, <2>2, <2>3 DEF TimedDisplay
<1>4. CASE RebootTimer
  BY <1>4, StageFacts DEF RebootTimer, Reboot, ClockInv, TimerTypeOK, Time, Timed,
     OldTimeIsCleared
<1>5. CASE UNCHANGED allVars
  <2>1. UNCHANGED <<timerVars, screen, read_stage, event_broadcast_queue, ctl_pc, failed,
                    strayed>>
    BY <1>5 DEF allVars, vars, dataVars, controllerVars, displayVars, faults
  <2>2. (StageEventQueued => StageEventQueued') /\ (TimerEventsFollowed => TimerEventsFollowed')
    BY <2>1 DEF StageEventQueued, TimerEventsFollowed
  <2> QED
    BY <2>1, <2>2, FrameKeepsClock
<1> QED
  BY <1>1, <1>2, <1>3, <1>4, <1>5 DEF TimerNext

\* A time of an earlier roast never stays on the label, however many stages,
\* screens and events an impatient operator mixes and whichever creations fail,
\* until a stage task has strayed: the STAGE_EVENT that clears it is queued or
\* yet to be sent (content_manager.c:52-73, controller.c:310,343).
THEOREM OldTimeGoesAway == TimerSpec => []OldTimeIsCleared
<1>1. ClockInv => OldTimeIsCleared
  BY DEF ClockInv
<1> QED
  BY <1>1, ClockInit, ClockStep, TimerImplementsRoaster, TimerProjection, InitTypes,
     TypesStep, OrderInit, OrderStep, ClockTasksInit, ClockTasksStep, ReportsInit,
     ReportsStep, PTL DEF Spec, TimerSpec
=============================================================================
