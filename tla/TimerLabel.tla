----------------------------- MODULE TimerLabel -----------------------------
(***************************************************************************)
(* The time on the manual screen: the clocks that torra_task and           *)
(* cooler_task write into the shared record, and the label on which the    *)
(* draw task shows one of them whenever it reads a TIMER_VALUE_EVENT.      *)
(*                                                                         *)
(* The event does not say whose clock has ticked.  The display picks one   *)
(* by the stage of the moment, and nothing sets a clock back when its      *)
(* stage begins, so the label can show the time of an earlier roast.       *)
(*                                                                         *)
(* A time is represented by the run of a stage it belongs to.  Each action *)
(* is one of Roaster, with what it does to the clocks and the label.       *)
(*                                                                         *)
(* A definition marked "Slip" is a plausible mistake in the definition     *)
(* after it. Nothing uses it: it is there to see that a run would notice.  *)
(***************************************************************************)
EXTENDS Roaster

VARIABLES
  clock,       \* read_torra_time (START) and read_resf_time (COOLER)
  timer_label  \* what the label says; "zero" on the menu

timerVars == <<clock, timer_label>>
allVars == <<vars, timerVars>>

Timed == {START, COOLER}

\* 00:00, a time in the stage the machine is in, or one in an earlier stage.
Time == {"zero", "present", "past"}

TimerTypeOK == clock \in [Timed -> Time] /\ timer_label \in Time

TimerInit ==
  /\ Init
  /\ clock = [k \in Timed |-> "zero"]
  /\ timer_label = "zero"

-----------------------------------------------------------------------------
Aged(time) == IF time = "present" THEN "past" ELSE time

\* The machine enters a stage: no clock is touched, what they say has aged.
EnterStage ==
  /\ BeginPreHeating \/ BeginSuccessor \/ BeginOff
  /\ clock' = [k \in Timed |-> Aged(clock[k])]
  /\ timer_label' = Aged(timer_label)

\* The new task's first iteration writes its clock, before any delay.
FirstTick ==
  /\ CreateStageTask
  /\ clock' = [k \in Timed |-> IF k = ctl_cmd.stage THEN "present" ELSE clock[k]]
  /\ UNCHANGED timer_label

\* The rest of the controller: no clock is written.
ControllerElsewhere ==
  /\ \/ ReceiveCommand \/ DeleteTraps \/ CreationFails \/ NotifyStage \/ Gate
     \/ SkipActuator \/ WriteActuator \/ NotifyActuator
  /\ UNCHANGED timerVars

\* The task in block s was created in the present run of its stage.
OfThisRun(s) ==
  LET kind == task[s].kind
  IN  /\ kind = read_stage
      /\ kind \notin failed
      /\ handle[kind] = s
      /\ ctl_pc # "create"

\* Every iteration of a task writes its clock, and some send a report. A task
\* that has outlived its run of the stage counts from the start of that run.
Tick(s) ==
  clock' = [k \in Timed |->
              IF k # task[s].kind THEN clock[k]
              ELSE IF OfThisRun(s) THEN "present" ELSE "past"]

TaskTicks(s) ==
  /\ \/ Wake(s) /\ Tick(s)
     \/ s \in Live /\ task[s].todo = <<>> /\ Tick(s) /\ UNCHANGED <<dataVars, controllerVars>>
     \/ SendReport(s) /\ UNCHANGED clock
  /\ UNCHANGED timer_label

\* Slip: the branch for COOLER is missing.
ShownTimeOfRoast(event) ==
  IF event = "STAGE_EVENT" THEN "zero"
  ELSE IF event = "TIMER_VALUE_EVENT"
  THEN IF read_stage = START THEN clock[START] ELSE "zero"
  ELSE timer_label

\* Slip: the label is left to the next TIMER_VALUE_EVENT.
ShownTimeUnreset(event) ==
  IF event = "TIMER_VALUE_EVENT"
  THEN IF read_stage \in Timed THEN clock[read_stage] ELSE "zero"
  ELSE timer_label

\* What the label says after an event: content_manager_update.
ShownTime(event) ==
  IF event = "STAGE_EVENT" THEN "zero"
  ELSE IF event = "TIMER_VALUE_EVENT"
  THEN IF read_stage \in Timed THEN clock[read_stage] ELSE "zero"
  ELSE timer_label

ShowEvent ==
  /\ HandleEvent
  /\ timer_label' = IF screen = "MANUAL"
                    THEN ShownTime(Head(event_broadcast_queue))
                    ELSE timer_label
  /\ UNCHANGED clock

\* A new manual screen says 00:00; the menu has no label.
ChangeScreen == (OpenManual \/ GoBack) /\ timer_label' = "zero" /\ UNCHANGED clock

DisplayElsewhere ==
  /\ \/ NoGesture \/ ToggleContent \/ PressStage \/ AnswerNo \/ AnswerSave
     \/ (\E a \in Actuator : TurnArc(a) \/ ReleaseArc(a))
     \/ SendCommand \/ NoEvent
  /\ UNCHANGED timerVars

RebootTimer ==
  /\ Reboot
  /\ clock' = [k \in Timed |-> "zero"]
  /\ timer_label' = "zero"

TimedController ==
  ~panicked /\ (EnterStage \/ FirstTick \/ ControllerElsewhere) /\ UNCHANGED displayVars

TimedTask(s) == ~panicked /\ TaskTicks(s) /\ UNCHANGED displayVars

TimedDisplay ==
  ~panicked /\ (ShowEvent \/ ChangeScreen \/ DisplayElsewhere) /\ UNCHANGED controllerVars

TimerNext ==
  \/ TimedController
  \/ \E s \in Slot : TimedTask(s)
  \/ TimedDisplay
  \/ RebootTimer

TimerSpec == TimerInit /\ [][TimerNext]_allVars

\* As in Roaster, where it is argued for. That some stage task gets its turn is
\* enough: while the machine roasts or cools there is one.
TimerFairness ==
  /\ WF_allVars(TimedDisplay)
  /\ SF_allVars(\E s \in Slot : TimedTask(s))
  /\ SF_allVars(TimedController)
  /\ WF_allVars(RebootTimer)

FairTimerSpec == TimerSpec /\ TimerFairness

-----------------------------------------------------------------------------
\* The STAGE_EVENT of the present stage is queued or yet to be sent.
StageEventComing ==
  \/ ctl_pc \in {"create", "notify_stage"}
  \/ \E i \in 1 .. Len(event_broadcast_queue) :
       event_broadcast_queue[i] = "STAGE_EVENT"

\* Any operator may see the time of an earlier roast, because a TIMER_VALUE_EVENT
\* of one stage is shown in the next before that one's clock is first written,
\* but a STAGE_EVENT is always behind it and clears the label: no order of
\* events, presses and screens leaves an old time standing, nor a task that could
\* not be created, unless a stage task was left running by a vTaskDelete that
\* meant it (content_manager.c:52-73, controller.c:115,135,157,310,343).
OldTimeIsCleared ==
  (screen = "MANUAL" /\ timer_label = "past") => StageEventComing \/ strayed

\* controller.c:310,343: the clocks have one writer each. However impatient the
\* operator, whichever creations fail and whichever stage task's block a stale
\* handle names, a second torra_task or cooler_task to set them back appears
\* only after vTaskDelete has come back from memory that holds no task while a
\* stage task was running.
OneClockWriter ==
  strayed \/ \A s, t \in Live : {task[s].kind, task[t].kind} \subseteq Timed => s = t

\* While the machine roasts or cools, unless its task could not be created, the
\* manual screen comes to show its time, however many duties the operator sets in
\* the meantime, each with an event of its own
\* (controller.c:320,344 against controller.c:207-223).
TimerComesToRun ==
  (screen = "MANUAL" /\ read_stage \in Timed)
    ~> \/ timer_label = "present" \/ screen = "MENU"
       \/ read_stage \notin Timed \ failed
=============================================================================
