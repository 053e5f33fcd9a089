----------------------------- MODULE Controller -----------------------------
(***************************************************************************)
(* controller_task (priority 2) and the stage tasks it creates and deletes *)
(* (pre_heating_task, torra_task, cooler_task, priority 3).                *)
(*                                                                         *)
(* The controller's handler blocks only in xQueueSend, but the other tasks *)
(* preempt it anywhere, so it is split where they could tell: a step per   *)
(* write of read_stage, per task creation and per blocking send.           *)
(*                                                                         *)
(* A task handle is the address of a heap block.  A Slot is such a block:  *)
(* creating a task takes a free one, deleting a task frees it, and a stale *)
(* handle names whatever lives in its block by then.                       *)
(*                                                                         *)
(* The commands, the recipes and the contents of the screen come from the  *)
(* same heap and are never freed, so a creation can fail at any time; and  *)
(* a free block may hold one of them, so a stale handle may name anything. *)
(*                                                                         *)
(* failed and strayed record history; the program has no such variables.   *)
(***************************************************************************)
EXTENDS RoasterData, FiniteSets

CONSTANTS Slot,    \* heap blocks that fit a stage task: the most there can be
          NoTask,  \* a TaskHandle_t local that was never assigned
          MayFail  \* bound: kinds of task whose creation may fail at any time

ASSUME SlotAssumption == NoTask \notin Slot

VARIABLES
  ctl_pc,      \* where the controller's handler is
  ctl_cmd,     \* incoming_data; empty while there is none, as its old value
               \* is overwritten before it is read
  ctl_arc,     \* the actuator whose write field is looked at
  task,        \* the stage tasks, by heap block
  handle,      \* the three *_task_handle locals, by kind of task
  recipe_set,  \* has read_recipe_data (and read_sensor_data) been allocated?
  failed,      \* the kinds of task whose last creation failed
  strayed,     \* a vTaskDelete through a stale handle has left a task running
  panicked     \* the CPU took an exception; only a reboot follows

faults == <<failed, strayed, panicked>>

controllerVars ==
  <<ctl_pc, ctl_cmd, ctl_arc, task, handle, recipe_set, faults>>

TaskKind == {PRE_HEATING, START, COOLER}

\* What each kind of task broadcasts in one iteration of its loop, if anything.
Report(kind) ==
  IF kind = PRE_HEATING THEN <<"SENSOR_VALUE_EVENT">>
  ELSE IF kind = START THEN <<"TIMER_VALUE_EVENT", "SENSOR_VALUE_EVENT">>
  ELSE <<"TIMER_VALUE_EVENT">>

Free == [kind |-> STAGE_NONE, todo |-> <<>>, current |-> FALSE]

\* A created task outranks the controller, so it has run to its first
\* vTaskDelay, and has fetched its recipe pointers, when the call returns.
NewTask(kind) == [kind |-> kind, todo |-> <<>>, current |-> TRUE]

Live == {s \in Slot : task[s].kind # STAGE_NONE}

ControllerTypeOK ==
  /\ ctl_pc \in {"receive", "stage", "create", "notify_stage", "gate",
                 "write", "notify_write", "deleted"}
  /\ ctl_cmd \in Command
  /\ ctl_arc \in 0 .. NumActuators
  /\ task \in [Slot -> [kind : TaskKind \cup {STAGE_NONE},
                        todo : Seq(Event), current : BOOLEAN]]
  /\ handle \in [TaskKind -> Slot \cup {NoTask}]
  /\ recipe_set \in BOOLEAN
  /\ failed \subseteq TaskKind
  /\ strayed \in BOOLEAN
  /\ panicked \in BOOLEAN

ControllerInit ==
  /\ ctl_pc = "receive"
  /\ ctl_cmd = EmptyCommand
  /\ ctl_arc = 0
  /\ task = [s \in Slot |-> Free]
  /\ handle = [k \in TaskKind |-> NoTask]
  /\ recipe_set = FALSE
  /\ failed = {}
  /\ strayed = FALSE
  /\ panicked = FALSE

-----------------------------------------------------------------------------
(* The command handler.                                                    *)

\* xQueueReceive, then the state and mode switches.
ReceiveCommand ==
  /\ ctl_pc = "receive"
  /\ incoming_queue_commands # <<>>
  /\ LET cmd == Head(incoming_queue_commands)
     IN  /\ ctl_cmd' = cmd
         /\ read_state' = IF cmd.state = "STATE_NONE" THEN read_state
                          ELSE cmd.state
         /\ read_mode' = IF cmd.mode = "MODE_NONE" THEN read_mode
                         ELSE cmd.mode
         /\ ctl_pc' = IF cmd.stage = STAGE_NONE THEN "gate" ELSE "stage"
  /\ incoming_queue_commands' = Tail(incoming_queue_commands)
  /\ UNCHANGED <<event_broadcast_queue, read_stage, read_actuator, ctl_arc,
                 task, handle, recipe_set, faults>>

\* Slip: COOLER's handler is copied from START's.
PredecessorCopied(stage) ==
  IF stage \in {START, COOLER} THEN PRE_HEATING ELSE COOLER

\* Slip: COOLER's handler is copied from STAGE_OFF's.
PredecessorOfOff(stage) == IF stage = START THEN PRE_HEATING ELSE COOLER

\* The kind of task that the handler of a stage deletes first.
Predecessor(stage) ==
  IF stage = START THEN PRE_HEATING
  ELSE IF stage = COOLER THEN START
  ELSE COOLER

\* The handle names no task any more, or was never set.
Stale(kind) == handle[kind] \notin Live

\* Slip: the task is left running.
DeleteNothing(kind) == UNCHANGED <<task, strayed>>

\* vTaskDelete. Through a stale handle it works on whatever the memory holds,
\* and may come back all the same.
DeleteTask(kind) ==
  \/ /\ ~Stale(kind)
     /\ task' = [task EXCEPT ![handle[kind]] = Free]
     /\ UNCHANGED strayed
  \/ /\ Stale(kind)
     /\ strayed' = (strayed \/ Live # {})
     /\ UNCHANGED task

\* case PRE_HEATING: the stage, and a new recipe for the tasks of this roast.
BeginPreHeating ==
  /\ ctl_pc = "stage"
  /\ ctl_cmd.stage = PRE_HEATING
  /\ read_stage' = PRE_HEATING
  /\ recipe_set' = TRUE
  /\ task' = [s \in Slot |-> [task[s] EXCEPT !.current = FALSE]]
  /\ ctl_pc' = "create"
  /\ UNCHANGED <<incoming_queue_commands, event_broadcast_queue, read_state,
                 read_mode, read_actuator, ctl_cmd, ctl_arc, handle, faults>>

\* case START and case COOLER: the previous stage's task goes first.
BeginSuccessor ==
  /\ ctl_pc = "stage"
  /\ ctl_cmd.stage \in {START, COOLER}
  /\ DeleteTask(Predecessor(ctl_cmd.stage))
  /\ read_stage' = ctl_cmd.stage
  /\ ctl_pc' = "create"
  /\ UNCHANGED <<incoming_queue_commands, event_broadcast_queue, read_state,
                 read_mode, read_actuator, ctl_cmd, ctl_arc, handle,
                 recipe_set, failed, panicked>>

\* Slip: the mode is not reset.
SwitchOffHalf == read_state' = "OFF" /\ UNCHANGED read_mode

\* STAGE_OFF overrides the ON and MANUAL that came with the command.
SwitchOff == read_state' = "OFF" /\ read_mode' = "MODE_NONE"

\* case STAGE_OFF: no task follows the cooler's.
BeginOff ==
  /\ ctl_pc = "stage"
  /\ ctl_cmd.stage = STAGE_OFF
  /\ DeleteTask(COOLER)
  /\ SwitchOff
  /\ read_stage' = STAGE_OFF
  /\ ctl_pc' = "notify_stage"
  /\ UNCHANGED <<incoming_queue_commands, event_broadcast_queue,
                 read_actuator, ctl_cmd, ctl_arc, handle, recipe_set, failed,
                 panicked>>

\* The same three cases with a stale handle, when vTaskDelete does not come
\* back: it follows pointers that no longer exist, a CPU exception, or takes
\* what was never set for NULL, which is the calling task.
DeleteTraps ==
  /\ ctl_pc = "stage"
  /\ ctl_cmd.stage # PRE_HEATING
  /\ Stale(Predecessor(ctl_cmd.stage))
  /\ \/ panicked' = TRUE /\ UNCHANGED ctl_pc
     \/ /\ handle[Predecessor(ctl_cmd.stage)] = NoTask
        /\ ctl_pc' = "deleted"
        /\ UNCHANGED panicked
  /\ UNCHANGED <<dataVars, ctl_cmd, ctl_arc, task, handle, recipe_set, failed,
                 strayed>>

\* Slip: every creation is given &pre_heating_task_handle.
StoreFirstHandle(kind, s) == handle' = [handle EXCEPT ![PRE_HEATING] = s]

\* The handle of a new task in block s goes to the local of its kind.
StoreHandle(kind, s) == handle' = [handle EXCEPT ![kind] = s]

\* xTaskCreatePinnedToCore, with the parameters malloc'ed for it.
CreateStageTask ==
  /\ ctl_pc = "create"
  /\ \E s \in Slot \ Live :
       /\ task' = [task EXCEPT ![s] = NewTask(ctl_cmd.stage)]
       /\ StoreHandle(ctl_cmd.stage, s)
  /\ failed' = failed \ {ctl_cmd.stage}
  /\ ctl_pc' = "notify_stage"
  /\ UNCHANGED <<dataVars, ctl_cmd, ctl_arc, recipe_set, strayed, panicked>>

\* The heap has no room, whatever is live. For the parameters: malloc's NULL is
\* written through, a CPU exception. For the task: the result is ignored, and
\* the handle keeps its old value.
CreationFails ==
  /\ ctl_pc = "create"
  /\ ctl_cmd.stage \in MayFail \/ Live = Slot
  /\ failed' = failed \cup {ctl_cmd.stage}
  /\ \/ panicked' = TRUE /\ UNCHANGED ctl_pc
     \/ ctl_pc' = "notify_stage" /\ UNCHANGED panicked
  /\ UNCHANGED <<dataVars, ctl_cmd, ctl_arc, task, handle, recipe_set, strayed>>

NotifyStage ==
  /\ ctl_pc = "notify_stage"
  /\ Broadcast("STAGE_EVENT")
  /\ ctl_pc' = "gate"
  /\ UNCHANGED <<incoming_queue_commands, read_state, read_mode, read_stage,
                 read_actuator, ctl_cmd, ctl_arc, task, handle, recipe_set,
                 faults>>

\* Slip: the stage is not looked at.
ActuatorsAlwaysEnabled == read_state = "ON" /\ read_mode = "MANUAL"

\* The three nested ifs in front of the actuator writes.
ActuatorsEnabled ==
  /\ read_state = "ON"
  /\ read_mode = "MANUAL"
  /\ read_stage \in {PRE_HEATING, START}

Gate ==
  /\ ctl_pc = "gate"
  /\ \/ ActuatorsEnabled /\ ctl_pc' = "write" /\ UNCHANGED ctl_cmd
     \/ ~ActuatorsEnabled /\ ctl_pc' = "receive" /\ ctl_cmd' = EmptyCommand
  /\ UNCHANGED <<dataVars, ctl_arc, task, handle, recipe_set, faults>>

\* if (incoming_data->write_xxx != -1) ..., one actuator after the other;
\* past the last one the handler returns to xQueueReceive.
SkipActuator ==
  /\ ctl_pc = "write"
  /\ \/ /\ ctl_arc = NumActuators
        /\ ctl_pc' = "receive"
        /\ ctl_cmd' = EmptyCommand
        /\ ctl_arc' = 0
     \/ /\ ctl_arc < NumActuators
        /\ ctl_cmd.write[ctl_arc] = -1
        /\ ctl_arc' = ctl_arc + 1
        /\ UNCHANGED <<ctl_pc, ctl_cmd>>
  /\ UNCHANGED <<dataVars, task, handle, recipe_set, faults>>

WriteActuator ==
  /\ ctl_pc = "write"
  /\ ctl_arc < NumActuators
  /\ ctl_cmd.write[ctl_arc] # -1
  /\ read_actuator' = [read_actuator EXCEPT ![ctl_arc] = ctl_cmd.write[ctl_arc]]
  /\ ctl_pc' = "notify_write"
  /\ UNCHANGED <<incoming_queue_commands, event_broadcast_queue, read_state,
                 read_mode, read_stage, ctl_cmd, ctl_arc, task, handle,
                 recipe_set, faults>>

NotifyActuator ==
  /\ ctl_pc = "notify_write"
  /\ Broadcast("ACTUATOR_VALUE_EVENT")
  /\ ctl_arc' = ctl_arc + 1
  /\ ctl_pc' = "write"
  /\ UNCHANGED <<incoming_queue_commands, read_state, read_mode, read_stage,
                 read_actuator, ctl_cmd, task, handle, recipe_set, faults>>

ControllerStep ==
  \/ ReceiveCommand
  \/ BeginPreHeating
  \/ BeginSuccessor
  \/ BeginOff
  \/ DeleteTraps
  \/ CreateStageTask
  \/ CreationFails
  \/ NotifyStage
  \/ Gate
  \/ SkipActuator
  \/ WriteActuator
  \/ NotifyActuator

-----------------------------------------------------------------------------
(* The stage tasks. Iterations that broadcast nothing (samples still being *)
(* summed, a timer not due, a node pushed) change nothing that is kept     *)
(* here and are stuttering steps.                                          *)

Wake(s) ==
  /\ s \in Live
  /\ task[s].todo = <<>>
  /\ task' = [task EXCEPT ![s].todo = Report(task[s].kind)]
  /\ UNCHANGED <<dataVars, ctl_pc, ctl_cmd, ctl_arc, handle, recipe_set,
                 faults>>

SendReport(s) ==
  /\ s \in Live
  /\ task[s].todo # <<>>
  /\ Broadcast(Head(task[s].todo))
  /\ task' = [task EXCEPT ![s].todo = Tail(@)]
  /\ UNCHANGED <<incoming_queue_commands, read_state, read_mode, read_stage,
                 read_actuator, ctl_pc, ctl_cmd, ctl_arc, handle, recipe_set,
                 faults>>

StageTaskStep(s) == Wake(s) \/ SendReport(s)
============================================================================
