# Coffee roaster firmware: TLA+ models and proofs

This directory holds models of the ESP32 firmware in `../src`, the TLC
configurations that check them, and proofs that TLAPS checks. Paths below are
relative to `../src/components` unless they start with `main/`.

## The system

The firmware runs on FreeRTOS (ESP-IDF 4.4, preemptive priorities). All tasks of
the roaster are pinned to core 1.

| Component | Source | State it keeps | Operations |
|---|---|---|---|
| start-up | `main/main.c` | NVS partition, two queues of ten slots, an event group | open or erase the NVS, create queues, controller, display, tasks |
| controller task (priority 2) | `controller/controller.c:41-230` | `read_state`, `read_mode`, `read_stage`, `read_*` actuators, three task handles, recipe pointers | one handler per command: state, mode, stage, choice, three actuators |
| stage tasks (priority 3) | `controller/controller.c:232-352` | sums, averages, clocks, recorded lists | sample, average, record, broadcast |
| draw task (priority 5) | `lcd_gui/lcd_gui.c:87-111` | none of its own | run LVGL (callbacks), show one event, remove it |
| manual screen | `lcd_gui/content_manager.c` | stage button, labels, current content | open, toggle content, press stage, answer prompt, update |
| arcs | `lcd_gui/contents/controls.c` | `arc_obj->value`, label, position | turn, release, update |
| recorded recipe | `controller/controller.c:389-453` | two linked lists that grow by a node every 30 s | begin, push |
| chart | `lcd_gui/contents/chart.c`, `lcd_gui/components.c` | point arrays, limits | draw pre-heating, draw roast, reset |
| navigation | `lcd_gui/screen_manager.c` | list of screens | set screen, go back |
| database | `database/database.c` | partition label | mount, free space |
| PWM, ADC | `controller/pwm.c`, `controller/adc.c` | none | set duty, sample |

How they interact:

- The draw task sends commands: LVGL callbacks put pointers to `incoming_data_t`
  on `incoming_queue_commands` with `portMAX_DELAY`.
- The controller takes them one at a time, changes `controller_data`, creates and
  deletes stage tasks, and announces what it did on `event_broadcast_queue`, also
  with `portMAX_DELAY`. Stage tasks broadcast on the same queue.
- The draw task peeks an event, updates the screen *from the shared record, not
  from the event*, and receives it. It is the only reader.
- The display reads `controller_data` without a lock.

The server and website that comments mention do not exist: no task, no event bit.

### What is hard about it

1. Both queues are sent to with an unlimited wait and each end of one is the other
   end of the other: the draw task can wait for the controller and vice versa.
2. The button sends the stage that it showed last. Between a stage change and the
   moment its event is shown, the button is stale, and a press repeats a command.
3. Handlers of stages are not idempotent: they delete the predecessor's task through
   a handle that a repeated command finds dangling, and they overwrite handles.
4. Event and state travel separately: when an event is shown the state may have
   moved on, the screen may have been closed and opened again.
5. A stage task may be deleted at any point where the controller can run.
6. Uninitialised memory: task handles, `arc_obj->value`, `current_content_type`.
7. Unchecked results: `xTaskCreate`, `malloc`, `db_init`.
8. The draw task walks the recorded lists while `torra_task` adds to them, without a lock,
   and it makes room in the chart's arrays only after it has stored the points.
9. The power may fail while a partition is being erased.

`PROJECT.json` lists the hazards at their lines.

### What makes each part correct

- **stage protocol**: stages go round OFF, PRE_HEATING, START, COOLER one at a time,
  no command skips a stage, and the button never stays wrong;
- **controller**: state, mode and stage agree between commands; handles are assigned
  before they are used; at most one stage task, that of the present stage; actuators
  change only while the machine heats or roasts; it always returns for a command; a
  creation that fails does no more harm than it must;
- **display**: it always returns for an event; what an arc sends is a percentage;
- **arcs**: an arc nobody has turned shows its actuator or is about to; what the
  controller accepted is what the arcs show in the end;
- **timer label**: never left with the time of an earlier roast; keeps being shown;
- **sampling**: readings stay near the ADC's range, deltas compare readings;
- **recorded recipe**: whoever walks the lists at any moment finds two logs that grow
  in step until a roast begins them anew;
- **chart**: no point is written outside its array, except in a chart that is too small from the
  start; the axis spans what is drawn;
- **navigation**: back always leads to the menu, the list is never empty;
- **start-up**: the NVS is erased only when it cannot be read, used half erased only after a
  failure, and the firmware comes up.

## Modules

| Module | What it models |
|---|---|
| `RoasterData` | enumerations, the command record, both queues, the shared state, mode, stage and actuators |
| `Controller` | `controller_task` and the stage tasks, with the heap blocks that hold tasks |
| `Display` | `lcd_gui_draw_task`, the manual screen, and the operator |
| `Roaster` | all of them together, panic and reboot, fairness, and the properties |
| `StagePanel` | abstract: a stage and the stage on offer, nothing else |
| `MCRoaster` | instances of `Roaster` for TLC, used by the runs that end in a violation |
| `RoasterProofs` | the theorems about `Roaster` for any operator |
| `UnhurriedProofs` | the theorems about `Roaster` for an operator who waits for the button |
| `Sampling`, `SamplingProofs` | sums, averages and differences of `pre_heating_task` and `torra_task`, one roast after the other |
| `Navigation` | the list of screens, the screen and content shown, the label of the content button |
| `TimerLabel`, `MCTimerLabel`, `TimerLabelProofs` | `Roaster` with the clocks of START and COOLER and the timer label |
| `ArcPanel`, `MCArcPanel`, `ArcPanelProofs` | `Roaster` with what the arcs show |
| `Recording`, `RecordingProofs` | `torra_task`'s two linked lists, with nodes, pointers and a heap |
| `RecordLog` | abstract: two logs that grow in step; `Recording` implements it |
| `Chart`, `MCChart`, `ChartProofs` | `Recording` with the chart that is drawn from it: room of the point arrays, limits of the axis |
| `Boot`, `BootProofs` | `app_main`, NVS and database partition, power cuts, and then `Navigation`; the proofs are about both |

### Controller

`ctl_pc` splits the handler where another task could tell the difference: at the
receive, at a write of `read_stage`, at `xTaskCreate`, at each `xQueueSend`, at the gate
in front of the actuators, at each actuator. Everything between two such points
is one step, because every other task reads at most one of the variables written
in between (`read_state` and `read_mode` are read by the controller alone).

A stage task is a record in a heap block (`Slot`): its `kind`, the events it has still to
send in this iteration (`todo`), and whether the recipe it writes to is the present one
(`current`). `handle` maps each kind to a block, like the three `TaskHandle_t` locals.
Deleting frees the block; creating takes any free one.

Commands, recipes and parameters come from the same heap and are never freed
(`common_controller.c`, `controller.c:129,154`), so a creation can fail at any time, the first
one too. `CreationFails` has both ways: the `malloc` of the parameters returns null, which is
written through (`panicked`, after which the chip restarts,
`CONFIG_ESP_SYSTEM_PANIC_PRINT_REBOOT`), or `xTaskCreatePinnedToCore` finds no room, whose result
is ignored: the handle keeps its old value, or none.

A handle that names no task any more, or was never set, is `Stale`. If its block holds
another stage task by then, `vTaskDelete` deletes that one. Otherwise the block is free, or was
reused by a command, parameters or a screen object, and three things can happen: `vTaskDelete`
takes an exception on a list pointer that means nothing, it comes back and the handler goes
on to create a task (`DeleteTask`), or, if the uninitialised local happens to be null, it
deletes its caller, the controller (`ctl_pc = "deleted"`; the last and the first are
`DeleteTraps`). What else it writes into the memory it takes for a task is not modelled.

Two variables are history. `failed` holds the kinds of task whose last creation failed. `strayed`
says that a `vTaskDelete` through a stale handle came back while a stage task was running: from
then on nothing bounds the number of stage tasks, and the properties about them and their
clocks say so in place of claiming more than the code delivers.

Creating a task is one step with the task's first run up to its first delay, because a
stage task outranks the controller; that is where it fetches its recipe pointers.
`ERASE` and `SAVE` are received and do nothing, as in the code.

### Display

One iteration of the draw loop is: at most one gesture (`draw_pc = "handler"`), the send of
its command if it makes one (`"send"`, which may block), one event (`"event"`).
Peek, update, `xEventGroupSync` on the task's own bit (which never waits) and receive
are one step, because no roaster task outranks the draw task. Gestures are the LVGL
callbacks: open and leave the manual screen, toggle chart and controls, press the
stage button, answer the "Salvar Receita?" box, turn an arc, release an arc.
There is one finger, so a turning arc excludes other gestures. A new arc's value is
any member of `Garbage`.

`HastyOperator = FALSE` describes an operator who asks for a stage once, waits until
the button changes, and presses nothing while the command queue is full. The code
does not enforce this; what holds only under it is said so.

### Sampling

The temperatures are never read by anything that decides, so they are a module of their
own: `controller_data` and the locals of the sampling task, with one action per
iteration of a task. `adc_reading`, `temp_ar_reading` and `temp_grao_reading` are `reading`;
the two channels are sampled from the same ADC one after the other. `since` counts the
iterations since `last_timer_period` up to the fewest that fit in 30 s; from then on looking
back may happen in any of them, since a full event queue delays an iteration. The
recorded lists are left out.

### Navigation

`navigation` is the linked list, head first; `SetScreen` is `screen_manager_set_screen` with
its `nav_push`, and `GoBack` pops first. `current_screen` and the head are set by different
assignments, which is what `BackLeadsToMenu` relates. `content_btn_label` takes any of its
values when a content manager is made, because the code reads a field that nobody has set.

### TimerLabel and ArcPanel

Both extend `Roaster`: they keep every action of it and conjoin what that action does to
some more variables, so what is shown meets every interleaving of the whole firmware. Each step
of theirs is one of `Roaster`, so what they are checked for includes `Roaster`'s properties.

`TimerLabel` represents a time by the run of a stage that it belongs to: none, the present
one, an earlier one. The clocks of START and COOLER are written by a task's first iteration
together with its creation, for the reason given above, and again by each later one
(`Tick`): a task of the present run of its stage writes a time of it, one that has
outlived its run goes on with the time it counts from its own start; `content_manager_update` reads the clock of `read_stage` when it *shows* the
event, and a `STAGE_EVENT` clears the label.

`ArcPanel` keeps the value of each arc. It changes when the callback of a turn runs, when
`controls_update` reads an ACTUATOR event, and when the controls are opened; `lv_arc_set_value`
clamps. `turned` and `refused` are history: which arcs the operator has moved, and which
commands the gate has dropped, since the arcs were refreshed last. The numbers inside the arcs
are left out: `controls_update` does not refresh them, so they follow the operator's turns only.

### Recording and RecordLog

A step of `torra_task` is a statement after which the draw task could run: `malloc`, filling
the node, setting the head, each step of the walk to the end, the link. Times stand for the
readings. The walk of the draw task is one step, because it outranks `torra_task`; it is the
operator `ReadList`, defined through a recursive function, and it stands for what would be read *now*.
`RecordLog` has no pointers; the refinement maps the logs to what a reader would see. Assumed:
the compiler keeps the stores into a new node before the one that links it (a loop lies
between them); the controller, which `torra_task` outranks, deletes it only while it waits.
There is one `torra_task` at most: by `OneClockWriter` of `TimerLabel` a second one appears
only after a stale `vTaskDelete` has come back, and what two of them would record is not modelled.
Creating it may fail, and deleting it through a stale handle may trap, as in `Controller`.

A second START begins the lists anew, one after the other: what the roast has recorded so far
is lost, and for the time of a `malloc` a recipe of one node stands beside the sensor list
of the roast that was given up. The code means START to begin a record, so `RecordLog` has
this as `BeginRecipe` and `BeginSensor`; between them nothing can be appended. What it does
promise is that the logs lose all or nothing, and are at most one entry apart otherwise.

Nodes are not freed; when none is left `malloc` returns null and the write through it restarts
the chip.

### Chart

`Chart` extends `Recording` with what `chart.c` and the chart part of `components.c` do: opening and
closing the chart, the drawing of PRE_HEATING, that of the roast, and the reset. It may draw
after any statement of `torra_task`. `room` is the length of the `y_points` arrays: a draw
stores a point per node and then calls `lv_chart_set_point_count(count + 2)`, so room must be left by
whatever came before. `limits` belong to the chart, not to a drawing; `drawn` is history.
Queue and display are not composed with it: any event may be read at any time, which
includes every order in which they can arrive, late events too. The one assumption about
time is in the history variable `reported`: between two nodes, 30 s apart and with a sensor
event every 100 ms on a bounded queue in between, the display has read at least one sensor
event. The points themselves are left out (`chart_draw_start` stores each delta in the
series of the other one, components.c:178-179).

### Boot

`pc` is the step of `app_main`; `nvs` and `spiffs` are what the partitions answer, the only state that
survives `Restart`. Erasing and formatting take two steps each, so that a power cut can come
between. An NVS whose erasure was cut short is `HALF_ERASED`: sectors are erased in turn, an erased
one is a free page, so the next `nvs_flash_init` may answer OK as well as with either of the two
errors that call for an erasure, and start-up then goes on with what is left of the old pages. `nvs_flash_init`'s answers other than two go to `ESP_ERROR_CHECK`, which restarts; the
database is formatted for whatever reason it does not mount (`format_if_mount_failed`), and if that
fails too `db_init` returns null, which nobody looks at. Partitions on worn flash (`worn`) may answer with an
error at any time. `kept` is history. Once `app_main` has returned, the operator moves
along the screens of `Navigation`, which a power cut takes back to the menu.

### Definitions marked "Slip"

Each is a plausible mistake in the definition that follows it. Nothing uses them; they
serve to see that the run of a property would notice such a mistake.

## Runs

| Run | Checks | Result |
|---|---|---|
| `StagesHasty` (`MCTimerLabel`) | `StagesInOrder`, `StaleButtonNotified`, `HandlesReady`, `StageProtocol`, `OldTimeIsCleared`, `OneClockWriter`, any operator | hold |
| `ActuatorsHasty` (`MCArcPanel`) | `TypeOK`, `StateFollowsStage`, `ActuatorsGated`, `ArcFollowsActuator`, `RestingArcsAgree`, any operator | hold |
| `Unhurried` (`MCTimerLabel`) | `OneStageTask`, `NeverPanics`, freedom from deadlock, `ControllerReturns`, `ButtonCatchesUp`, `TimerComesToRun` | hold |
| `DisplayStops` | `DisplayKeepsReading` (`main/main.c:20`) | violated: circular wait |
| `OrphanRecipe` | `RecipeIsCurrent` (`controller.c:382`) | violated: PRE_HEATING twice |
| `OffStillHeats` | `OffMeansIdle` (`common_controller.c:8`) | violated: duties survive STAGE_OFF |
| `TouchedArc` | `ActuatorPercent` (`controls.c:229`) | violated: uninitialised arc value |
| `Sampling` | `TypeOK`, `ReadingsInRange` | hold |
| `Gradient` | `SteadyHasNoGradient` (`controls.c:123`) | violated: differences with an unfinished sum |
| `Recording` (`MCChart`) | `WalksEnd`, `DeletedInStep`, `RecordProtocol` (refinement), `PointsInArray`, `LimitsAreExtremes` | hold |
| `Boot` | `ErasedOnlyIfUnreadable`, `ComesUp`, `BackLeadsToMenu` | hold |
| `ContentLabel` | `LabelNamesOther` (`content_manager.c:114-118`) | violated: uninitialised content type |

**Bounds.** Queues of one or two slots instead of ten: a full queue, a command behind
another and an event behind another already occur, and nothing in the code looks at more
than the head of a queue. Two heap blocks: enough for an orphan beside a live task, a heap
that is full, and a block that is reused by another kind of task; one block in runs
about arcs, which never look at a task. `MayFail` names the kinds of task that may not be created
although a block is free: `torra_task` in `StagesHasty` and `Unhurried`, whose failure leaves both
its own handle and its predecessor's in doubt and whose clock the label shows; none in the runs
about arcs and in those that end in a violation, which needs no failure. Any creation fails
when all blocks are taken, and the proofs let any fail at any time. `StagesHasty` has no controls to open (`ActuatorsHasty` has); it and `Unhurried` have one actuator: the three
are handled in sequence by the same code, and the handler of one already has "skip",
"write" and "end"; `ActuatorsHasty` has two, since the refresh that one causes moves the
other, and one level beside 0, which is enough for right and wrong. One box at a time
(`MaxPrompts`): with the second press of OFF the first box must have been answered. The
stage protocol does not depend on what arcs send, so its runs have arcs without levels;
in `Unhurried` a touched arc sends 300, so that ACTUATOR events compete with those of the
tasks. Symmetry over heap blocks is used for safety only.
`Recording` has 7 nodes and 2 recording iterations: a roast that is recorded to the end
takes 6, one that is repeated runs out, at any of the mallocs. A new chart has 2 points instead
of 400 and a roast 3 nodes: the list grows to where a draw needs the room the last one left,
and past the size of a new chart, as a roast of more than 3 h 20 min does, which nothing in the
code prevents (`CONTROLLER_MAX_TIME_MINS` is not used). The readings lie on both sides of the limits. `Boot` lets the power
fail 4 times, more than there are steps that erase, and the manual screen be visited 40 times
between two failures.
`Sampling`
takes samples from 1 and 10, so that averages are rounded and differ, one channel, since
the two do not interact, and looks back after 11 iterations, so that it happens at every
place between two averages; `Gradient` takes one steady sample.

The theorems below need none of these bounds.

**Deadlock** is checked for the unhurried operator. The hasty runs allow it, because the
system really can stop: `DisplayStops` shows how.
`Boot` and `ContentLabel` end after the last visit of the manual screen.

**Fairness** (`Roaster!Fairness`). The draw task has the highest priority and delays in every
iteration, so it gets to run when it can: weak fairness. The others compete for slots of
the event queue, which FreeRTOS gives to the waiting task of the highest priority. A stage
task waits for one only behind the other stage tasks and goes before the controller; without
strong fairness, an operator who keeps setting duties could keep the queue full of the
controller's events and the time on the screen would stand still, which these priorities
exclude. The controller, of the lowest priority, comes after them; `torra_task` sends two
events and sleeps 100 ms, and the draw task removes an event per iteration, so as long as
an iteration takes well under 100 ms there is again and again a slot for it: strong
fairness. If drawing were slower than that, the controller could starve. The operator is
under no fairness; `NoGesture` is always possible. In `Boot` there is one task, so `AppMain` is
weakly fair; the power is under no fairness. `TimerFairness` is the same of `TimerLabel`'s steps, and asks
it only of the stage tasks together: while the machine roasts or cools, there is one, or its creation failed.

## Proofs

Every safety property that a passing run checks is also a theorem, for every value of
the constants. The assumptions are those stated beside the constants, as the code
justifies them: queues have at least one slot, there is an actuator, neither null nor an
unset handle is a heap block, levels are percentages, a new chart has a point. The heap may
have no block at all, and a roast may be of any length.

| Module | Theorem | States |
|---|---|---|
| `RoasterProofs` | `TypeCorrect` | `Spec => []TypeOK` |
| | `StagesStayInOrder` | `Spec => []StagesInOrder` |
| | `StaleButtonIsNotified` | `Spec => []StaleButtonNotified` |
| | `HandlesAreReady` | `Spec => []HandlesReady` |
| | `PanelImplemented` | `Spec => StageProtocol`: Roaster implements StagePanel |
| | `ActuatorsStayGated` | `Spec => ActuatorsGated` |
| | `StateAgreesWithStage` | `Spec => []StateFollowsStage` |
| `UnhurriedProofs` | `OneTaskUnhurried` | `~HastyOperator` implies `Spec => []OneStageTask` |
| | `NoPanicUnhurried` | `~HastyOperator` implies `Spec => []NeverPanics` |
| | `RecipeIsCurrentUnhurried` | `~HastyOperator` implies `Spec => []RecipeIsCurrent` |
| `TimerLabelProofs` | `ClocksHaveOneWriter` | `TimerSpec => []OneClockWriter` |
| | `OldTimeGoesAway` | `TimerSpec => []OldTimeIsCleared` |
| `ArcPanelProofs` | `UnturnedArcFollows` | `ArcPanelSpec => []ArcFollowsActuator` |
| | `ArcsComeToAgree` | `ArcPanelSpec => []RestingArcsAgree` |
| `RecordingProofs` | `WalksComeToAnEnd` | `Spec => []WalksEnd` |
| | `DeletedWhileInStep` | `Spec => []DeletedInStep` |
| | `RecordIsLog` | `Spec => RecordProtocol`: Recording implements RecordLog |
| `ChartProofs` | `DrawingsFit` | `ChartSpec => []PointsInArray` |
| | `LimitsOfWhatWasDrawn` | `ChartSpec => []LimitsAreExtremes` |
| `SamplingProofs` | `SamplingTypeCorrect` | `Spec => []TypeOK` |
| | `ReadingsStayInRange` | `Spec => []ReadingsInRange` |
| `BootProofs` | `BackAlwaysLeadsToMenu` | `Spec => []BackLeadsToMenu`, of `Navigation` |
| | `BackLeadsToMenuAfterRestarts` | `BootSpec => []BackLeadsToMenu` |
| | `FlashIsKept` | `BootSpec => ErasedOnlyIfUnreadable` |

What is proved of a module is proved of those that extend it, because they implement it:
`TimerImplementsRoaster`, `PanelImplementsRoaster` and `ChartKeepsRecord` state that each of
their steps is one of `Roaster` or `Recording`, so the theorems about those two hold in the
specifications that the runs check.

The argument, for `Roaster`:

- `TypeOK` alone is not inductive: `CreateStageTask` stores a task of kind `ctl_cmd.stage`, so one
  needs that a command at that place asks for a stage with a task, and that nothing is
  left in `out` between sends. `ControlOK` adds this.
- `StagesInOrder` is inductive relative to the types. The heart is in two lemmas:
  `BeginKeepsOrder` (a handler moves the machine to the stage of the oldest command; what
  asked for the stage before can only be older) and `RefreshKeepsOrder` (when the button
  moves on, nothing on its way can already ask for the new offer, because the new offer
  is neither the present stage nor the old offer).
- `StaleButtonNotified` is inductive relative to the types.
- `HandlesReady` needs `HandleInv`: a handle that is unset although no creation failed means that the
  machine has never been past the handle's stage, and STAGE_OFF before the first COOLER accepts
  only PRE_HEATING. It uses `StagesInOrder` to know from which stage a handler is entered.
  `RecipeInv` says the same of the recipe.
- The refinement follows step by step from `StagesInOrder`: a handler that repeats the
  present stage stutters, one that takes the offer is `Advance`, an event shown or a screen
  opened is `Refresh` or stutters, a reboot is `Reset`.
- `ActuatorsGated` needs that past the gate the stage is still one of the two.
- `StateFollowsStage` needs that every command on its way asks for ON and MANUAL exactly when
  it asks for a stage (`CommandsAskTogether`), and the exception it makes in front of a stage's
  handler, where the switches have been thrown and the stage has not (`AgreeInv`).

For an operator who waits for the button (`ASSUME ~HastyOperator`):

- `UnhurriedInv` says that a stage is asked for once: the command is in the callback, in the
  queue or in the handler, in one of them only, and while he is not waiting there is none and the
  button is right. So a handler is entered from the predecessor of its stage
  (`AskedIsNext`), which makes `OneStageTask` inductive (with none where the creation failed), and with it `NeverPanics` and, since
  a recipe is prepared only where no task is alive, `RecipeIsCurrent`. For a hasty
  operator the runs `OrphanRecipe` and `StagesHasty` show how much less is left.

For the time and the arcs:

- `OneClockWriter` needs `ClockTasksInv`: unless a deletion has gone astray, a `torra_task` or
  `cooler_task` is of the present run of its stage and where its handle says, and the handle
  through which a repeated command deletes names that task or none. It rests on `StagesInOrder`.
- `OldTimeIsCleared` needs `ClockInv`: from its task's first tick the clock of the present stage is
  not that of an earlier run. If the task was not created, nothing overwrites the clock, but
  then the only reports of a time are those of the stage before, which are in the queue ahead
  of the STAGE_EVENT (`TimerEventsFollowed`, with `ReportsInv`: the heating task reports none).
- `ArcFollowsActuator` and `RestingArcsAgree` are proved from `ArcInv`: what the operator turned
  is still held, or in a command that has not reached the actuator (`WriteComing`), or refused,
  or its event is coming (`TurnsArrive`); the controller looks at the write fields from the
  first one on (`WritesFromFirst`); and a held arc has a percentage (`HeldArcs`), unlike one
  that was only touched.

For the recorded lists and their chart:

- The invariant `RecordingInv(p)` speaks of two sequences of nodes, `p["recipe"]` and `p["sensor"]`:
  the pointers from each head run through them once and end in null, they share no node, all their
  nodes are allocated, their times count from 0 (`Separate`); a node is filled before it is linked
  (`Filled`), on no list until then, and the walk is on the list that it is meant for (`InHand`);
  and how far one is ahead of the other follows from where `torra_task` is (`InStep`).
  `SomeLists` says that such sequences exist. `RecordingStep` gives, for every step,
  the next ones.
- What a reader sees is `NodesFrom`, a recursive function. `NodesFromEquation` shows that it exists, so
  that it obeys its definition, and `ListIsSeen` that along a list without circles it
  returns the nodes of the list, whose number the heap bounds. Both are inductions over the numbers:
  the library's induction theorem takes the predicate as an operator, which the provers
  cannot instantiate, so `NatSetInduction` states it of a set. `LimitsUpTo` of
  `Chart` is treated alike.
- `RecordIsLog` maps each step of `RecordingStep` to one of `RecordLog` or to a stutter.
- `PointsInArray` needs `RoomInv`: while `torra_task` is at work there is room for the node it is about to
  add, because while it waited a drawing has left room for one more than there were. This is where
  `reported` is used. It says nothing of a chart that has not been drawn yet: that one has its
  initial size, which is the exception in `PointsInArray`.
- `LimitsAreExtremes` is an induction over the nodes of a drawing: comparing with the second
  limit only if the first was not moved loses nothing, since the lower limit is never above the
  upper one (`WidenExtremes`).

For the rest:

- `ReadingsInRange` speaks of finished averages. `SumsInRange` says what an unfinished sum of k
  samples may be: between k times the least and k times the largest sample, in `torra_task`
  plus 10/9 of the largest, the share that all earlier averages together can leave. Ten
  samples more and a division by ten give back the same share.
- `BackLeadsToMenu` is inductive relative to the types, because only the menu can open the
  manual screen: what is set is always set on a list of menus.
- `ErasedOnlyIfUnreadable` needs what a step of `app_main` knows of the NVS because of the steps before it
  (`NvsInv`): an erasure is under way only where one was called for, and is left half done only by
  a power failure or on worn flash.

TLC checked the larger ones of these invariants (`ArcInv`, `RecordingInv`, `RoomInv`) on the instances of
the runs before they were proved.
Each proof was tried with the "Slip" of its property in place, and failed.

Only model-checked: liveness, which is out of the prover's reach, like ENABLED: `ControllerReturns`,
`ButtonCatchesUp`, `TimerComesToRun`, `ComesUp`, and freedom from deadlock in `Unhurried`. What the runs
that end in a violation show needs no proof.

## Not modelled

- the numbers inside the arcs and the points of the chart (see above);
- the numbers on the three sensor labels: they are the shared record at the time an event is
  shown, and may mix two averages for 100 ms; the status label, which always names the stage
  before the button's;
- the digits of times (`read_torra_time` is 64 bits wide and may be read between its two
  words; below 71 min the upper word is zero), and how fast LVGL's clock runs;
- memory other than the blocks of stage tasks (`Controller`) and of recorded nodes (`Recording`): commands, recipes and screens leak
  and `malloc` may fail for them too; what a stale `vTaskDelete` that comes back has written
  into such memory;
- `esp_timer` calls of the controller: the timer is created without a callback, fails, and
  nothing reads it;
- what the database holds (nothing uses it after start-up) and its free-space figure (only logged),
  drivers, LVGL, layout;
- `outgoing_queue_lcd` and the event group: nothing is sent to the first and the second
  never makes anyone wait;
- `MODE_NONE`, `AUTO`, `OFF` and `SAVE` in commands: the display never sends them, so no run
  reaches them although the handler's switches are there.

## Left to do

All modules above, their runs, and theorems for every safety property of a passing run are
done. What could follow:

1. What is left of the violated statements under conditions that exclude the cause: the
   label of the content button after the first toggle, duties at STAGE_OFF when the arcs were
   put to 0 before, what an arc sends when it was turned.
2. `DisplayStops`: that a wait of the draw task and one of the controller for each other is the
   only way for the firmware to stop.
3. Two `torra_task`s on one pair of lists, after a deletion has gone astray.
