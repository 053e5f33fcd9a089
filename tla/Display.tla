------------------------------ MODULE Display ------------------------------
(***************************************************************************)
(* lcd_gui_draw_task (priority 5) and the operator in front of it.         *)
(*                                                                         *)
(* One iteration of the task runs lv_timer_handler, in which the touch     *)
(* controller is read and at most one LVGL callback acts on the roaster,   *)
(* and then shows and removes at most one event.  No other task of the     *)
(* roaster outranks it, so an iteration is interrupted only where it       *)
(* blocks: in a callback's xQueueSend.                                     *)
(*                                                                         *)
(* HastyOperator = FALSE is an assumption about the operator, not          *)
(* something the code enforces: a stage is asked for once, when the button *)
(* offers it, and nothing is pressed while ten commands are waiting.       *)
(***************************************************************************)
EXTENDS RoasterData

CONSTANTS
  HastyOperator,  \* may the operator press before the last press was served?
  MaxPrompts      \* bound: "Salvar Receita?" boxes open at the same time

ASSUME OperatorAssumption == HastyOperator \in BOOLEAN /\ MaxPrompts \in Nat

VARIABLES
  draw_pc,     \* "handler", "send" (inside a callback) or "event"
  out,         \* the command that callback is sending
  screen,      \* MENU or the MANUAL screen
  current_content_type,  \* CHART or CONTROLS; CHART on the menu
  btn_stage,   \* btn_stage->value: the stage the button asks for
  prompts,     \* "Salvar Receita?" boxes on the screen
  arc_value,   \* arc_obj->value of the arcs on the screen; 0 without arcs
  debounced,   \* arc_obj->debounced: no finger is turning this arc
  awaiting     \* the unhurried operator has pressed this offer already

displayVars == <<draw_pc, out, screen, current_content_type, btn_stage,
                 prompts, arc_value, debounced, awaiting>>

DisplayTypeOK ==
  /\ draw_pc \in {"handler", "send", "event"}
  /\ out \in Command
  /\ screen \in {"MENU", "MANUAL"}
  /\ current_content_type \in {"CHART", "CONTROLS"}
  /\ btn_stage \in Stage
  /\ prompts \in 0 .. MaxPrompts
  /\ arc_value \in [Actuator -> Int]
  /\ debounced \in [Actuator -> BOOLEAN]
  /\ awaiting \in BOOLEAN

DisplayInit ==
  /\ draw_pc = "handler"
  /\ out = EmptyCommand
  /\ screen = "MENU"
  /\ current_content_type = "CHART"
  /\ btn_stage = NextStage(STAGE_OFF)
  /\ prompts = 0
  /\ arc_value = [a \in Actuator |-> 0]
  /\ debounced = [a \in Actuator |-> TRUE]
  /\ awaiting = FALSE

-----------------------------------------------------------------------------
(* lv_timer_handler: what one touch can do.                                *)

\* The callbacks run in the draw task, and there is one pointer: a finger
\* that turns an arc presses nothing else.
FreeFinger == draw_pc = "handler" /\ \A a \in Actuator : debounced[a]

MayCommand == HastyOperator \/ Len(incoming_queue_commands) < CommandQueueLen

NoGesture ==
  /\ draw_pc = "handler"
  /\ draw_pc' = "event"
  /\ UNCHANGED <<dataVars, out, screen, current_content_type, btn_stage,
                 prompts, arc_value, debounced, awaiting>>

\* Slip: the button starts as it did when the machine was switched on.
OfferAtPowerOn == NextStage(STAGE_OFF)

\* What a new content manager offers.
OfferOnOpen == NextStage(read_stage)

\* Both buttons of the menu open the manual screen, whose content manager
\* starts with the chart and reads the stage.
OpenManual ==
  /\ FreeFinger
  /\ screen = "MENU"
  /\ screen' = "MANUAL"
  /\ current_content_type' = "CHART"
  /\ btn_stage' = OfferOnOpen
  /\ awaiting' = (awaiting /\ btn_stage' = btn_stage)
  /\ draw_pc' = "event"
  /\ UNCHANGED <<dataVars, out, prompts, arc_value, debounced>>

NoArcs == [a \in Actuator |-> 0]

\* clear_screen deletes the boxes and the arcs along with everything else.
GoBack ==
  /\ FreeFinger
  /\ screen = "MANUAL"
  /\ screen' = "MENU"
  /\ current_content_type' = "CHART"
  /\ prompts' = 0
  /\ arc_value' = NoArcs
  /\ draw_pc' = "event"
  /\ UNCHANGED <<dataVars, out, btn_stage, debounced, awaiting>>

\* btn_content_event_handler. arc_container_create leaves arc_obj->value as
\* malloc returned it: lv_arc_set_value does not touch it.
ToggleContent ==
  /\ FreeFinger
  /\ screen = "MANUAL"
  /\ \/ /\ current_content_type = "CHART"
        /\ current_content_type' = "CONTROLS"
        /\ arc_value' \in [Actuator -> Garbage]
     \/ /\ current_content_type = "CONTROLS"
        /\ current_content_type' = "CHART"
        /\ arc_value' = NoArcs
  /\ draw_pc' = "event"
  /\ UNCHANGED <<dataVars, out, screen, btn_stage, prompts, debounced,
                 awaiting>>

\* btn_stage_event_handler, up to its xQueueSend.
PressStage ==
  /\ FreeFinger
  /\ screen = "MANUAL"
  /\ MayCommand
  /\ ~awaiting
  /\ \/ btn_stage # STAGE_OFF /\ UNCHANGED prompts
     \/ /\ btn_stage = STAGE_OFF
        /\ prompts < MaxPrompts
        /\ prompts' = prompts + 1
  /\ out' = [EmptyCommand EXCEPT !.state = "ON", !.mode = "MANUAL",
                                 !.stage = btn_stage]
  /\ awaiting' = ~HastyOperator
  /\ draw_pc' = "send"
  /\ UNCHANGED <<dataVars, screen, current_content_type, btn_stage, arc_value,
                 debounced>>

\* mbox_event_handler, NAO. The box closes after the send, which the draw
\* task cannot be seen to do separately.
AnswerNo ==
  /\ FreeFinger
  /\ prompts > 0
  /\ MayCommand
  /\ prompts' = prompts - 1
  /\ out' = [EmptyCommand EXCEPT !.choice = "ERASE"]
  /\ draw_pc' = "send"
  /\ UNCHANGED <<dataVars, screen, current_content_type, btn_stage, arc_value,
                 debounced, awaiting>>

\* mbox_event_handler, SALVAR: the command it has built is never sent.
AnswerSave ==
  /\ FreeFinger
  /\ prompts > 0
  /\ prompts' = prompts - 1
  /\ draw_pc' = "event"
  /\ UNCHANGED <<dataVars, out, screen, current_content_type, btn_stage,
                 arc_value, debounced, awaiting>>

\* The arcs can be reached, and any finger on the screen is on arc a.
OnArc(a) ==
  /\ draw_pc = "handler"
  /\ screen = "MANUAL"
  /\ current_content_type = "CONTROLS"
  /\ \A b \in Actuator \ {a} : debounced[b]

\* arc_event_value_changed_cb
TurnArc(a) ==
  /\ OnArc(a)
  /\ \E v \in Levels : arc_value' = [arc_value EXCEPT ![a] = v]
  /\ debounced' = [debounced EXCEPT ![a] = FALSE]
  /\ draw_pc' = "event"
  /\ UNCHANGED <<dataVars, out, screen, current_content_type, btn_stage,
                 prompts, awaiting>>

\* arc_event_released_cb, up to its xQueueSend. LVGL also reports the release
\* of a touch that did not turn the arc.
ReleaseArc(a) ==
  /\ OnArc(a)
  /\ MayCommand
  /\ debounced' = [debounced EXCEPT ![a] = TRUE]
  /\ out' = [EmptyCommand EXCEPT !.write[a] = arc_value[a]]
  /\ draw_pc' = "send"
  /\ UNCHANGED <<dataVars, screen, current_content_type, btn_stage, prompts,
                 arc_value, awaiting>>

Gesture ==
  \/ OpenManual
  \/ GoBack
  \/ ToggleContent
  \/ PressStage
  \/ AnswerNo
  \/ AnswerSave
  \/ \E a \in Actuator : TurnArc(a) \/ ReleaseArc(a)

-----------------------------------------------------------------------------
(* The rest of the iteration.                                              *)

\* xQueueSend(incoming_queue_commands, ..., portMAX_DELAY)
SendCommand ==
  /\ draw_pc = "send"
  /\ Len(incoming_queue_commands) < CommandQueueLen
  /\ incoming_queue_commands' = Append(incoming_queue_commands, out)
  /\ out' = EmptyCommand
  /\ draw_pc' = "event"
  /\ UNCHANGED <<event_broadcast_queue, read_state, read_mode, read_stage,
                 read_actuator, screen, current_content_type, btn_stage,
                 prompts, arc_value, debounced, awaiting>>

\* Slip: a stage event leaves the button alone.
ShownOfferFixed(event) == btn_stage

\* Slip: the button counts stage events instead of reading the stage.
ShownOfferCounted(event) ==
  IF screen = "MANUAL" /\ event = "STAGE_EVENT" THEN NextStage(btn_stage)
  ELSE btn_stage

\* What an event changes on the screen: content_manager_update.
ShownOffer(event) ==
  IF screen = "MANUAL" /\ event = "STAGE_EVENT" THEN NextStage(read_stage)
  ELSE btn_stage

\* Slip: the event is looked at and never removed.
KeepEvent == UNCHANGED event_broadcast_queue

RemoveEvent == event_broadcast_queue' = Tail(event_broadcast_queue)

\* xQueuePeek, screen_manager_update, xEventGroupSync on its own bit alone,
\* xQueueReceive. Nothing else receives, so what is removed is what was shown.
HandleEvent ==
  /\ draw_pc = "event"
  /\ event_broadcast_queue # <<>>
  /\ btn_stage' = ShownOffer(Head(event_broadcast_queue))
  /\ awaiting' = (awaiting /\ btn_stage' = btn_stage)
  /\ RemoveEvent
  /\ draw_pc' = "handler"
  /\ UNCHANGED <<incoming_queue_commands, read_state, read_mode, read_stage,
                 read_actuator, out, screen, current_content_type, prompts,
                 arc_value, debounced>>

NoEvent ==
  /\ draw_pc = "event"
  /\ event_broadcast_queue = <<>>
  /\ draw_pc' = "handler"
  /\ UNCHANGED <<dataVars, out, screen, current_content_type, btn_stage,
                 prompts, arc_value, debounced, awaiting>>

DisplayStep == NoGesture \/ Gesture \/ SendCommand \/ HandleEvent \/ NoEvent
============================================================================
