---------------------------- MODULE RoasterData ----------------------------
(***************************************************************************)
(* What the tasks of the coffee roaster share: the enumerations and the    *)
(* command record of common_controller.h, the two FreeRTOS queues created  *)
(* by app_main, and the fields of controller_data that the controller task *)
(* writes and the display task reads.                                      *)
(*                                                                         *)
(* A definition marked "Slip" is a plausible mistake in the definition     *)
(* after it. Nothing uses it: it is there to see that a run would notice.  *)
(***************************************************************************)
EXTENDS Integers, Sequences

CONSTANTS
  CommandQueueLen,  \* slots of incoming_queue_commands (10 in the firmware)
  EventQueueLen,    \* slots of event_broadcast_queue (10 in the firmware)
  NumActuators,     \* POTENCIA, CILINDRO, TURBINA are 0, 1, 2 in the firmware
  Levels,           \* percentages an LVGL arc can report
  Garbage           \* what malloc may leave in arc_obj->value

ASSUME DataAssumption ==
  /\ CommandQueueLen \in Nat \ {0}
  /\ EventQueueLen \in Nat \ {0}
  /\ NumActuators \in Nat \ {0}
  /\ Levels \subseteq 0..100
  /\ Garbage \subseteq Int

Actuator == 0 .. NumActuators - 1

(***************************************************************************)
(* controller_stage_t keeps its C values, because the display computes the *)
(* stage its button asks for from them.                                    *)
(***************************************************************************)
STAGE_OFF   == 0
PRE_HEATING == 1
START       == 2
COOLER      == 3
STAGE_NONE  == 4
Stage == STAGE_OFF .. COOLER

\* Slip: the wrap-around is forgotten.
NextStageUnwrapped(s) == s + 1

NextStage(s) == (s + 1) % 4

Event == {"STAGE_EVENT", "TIMER_VALUE_EVENT", "SENSOR_VALUE_EVENT",
          "ACTUATOR_VALUE_EVENT"}

(***************************************************************************)
(* incoming_data_t. -1 in write[a] means "leave actuator a alone", which   *)
(* is why a Garbage value of -1 is silently dropped.                       *)
(***************************************************************************)
Command ==
  [state  : {"STATE_NONE", "ON", "OFF"},
   mode   : {"MODE_NONE", "MANUAL", "AUTO"},
   stage  : Stage \cup {STAGE_NONE},
   choice : {"SAVE", "ERASE", "CHOICE_NONE"},
   write  : [Actuator -> Int]]

EmptyCommand ==
  [state |-> "STATE_NONE", mode |-> "MODE_NONE", stage |-> STAGE_NONE,
   choice |-> "CHOICE_NONE", write |-> [a \in Actuator |-> -1]]

VARIABLES
  incoming_queue_commands,  \* commands, display task to controller task
  event_broadcast_queue,    \* events, controller and stage tasks to display
  read_state, read_mode, read_stage,  \* what the machine says it is doing
  read_actuator             \* read_potencia, read_cilindro, read_turbina,
                            \* each equal to the duty of its PWM channel

dataVars == <<incoming_queue_commands, event_broadcast_queue, read_state,
              read_mode, read_stage, read_actuator>>

DataTypeOK ==
  /\ incoming_queue_commands \in Seq(Command)
  /\ Len(incoming_queue_commands) <= CommandQueueLen
  /\ event_broadcast_queue \in Seq(Event)
  /\ Len(event_broadcast_queue) <= EventQueueLen
  /\ read_state \in {"ON", "OFF"}
  /\ read_mode \in {"MODE_NONE", "MANUAL", "AUTO"}
  /\ read_stage \in Stage
  /\ read_actuator \in [Actuator -> Int]

DataInit ==
  /\ incoming_queue_commands = <<>>
  /\ event_broadcast_queue = <<>>
  /\ read_state = "OFF"
  /\ read_mode = "MODE_NONE"
  /\ read_stage = STAGE_OFF
  /\ read_actuator = [a \in Actuator |-> 0]

\* Slip: the sender does not wait, and its event is lost.
BroadcastNoWait(event) ==
  event_broadcast_queue' =
    IF Len(event_broadcast_queue) < EventQueueLen
    THEN Append(event_broadcast_queue, event)
    ELSE event_broadcast_queue

\* xQueueSend(event_broadcast_queue, ..., portMAX_DELAY): the sender waits
\* for a free slot.
Broadcast(event) ==
  /\ Len(event_broadcast_queue) < EventQueueLen
  /\ event_broadcast_queue' = Append(event_broadcast_queue, event)
============================================================================
