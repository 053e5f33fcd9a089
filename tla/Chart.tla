------------------------------- MODULE Chart -------------------------------
(***************************************************************************)
(* The chart of the manual screen, drawn from the list that torra_task is  *)
(* recording: the room in its arrays of points, and the limits of its      *)
(* vertical axis.                                                          *)
(*                                                                         *)
(* chart_draw_start stores one point per node of the list and only then    *)
(* asks lv_chart_set_point_count for room for as many and two more, so     *)
(* every drawing relies on the room that the one before it, the            *)
(* pre-heating drawing, a reset or a new chart has left.  The limits live  *)
(* in chart_obj, not in a drawing: they only widen, from roast to roast,   *)
(* until the chart is left and a new one made.                             *)
(*                                                                         *)
(* A drawing may come after any statement of torra_task (Recording). When  *)
(* the display reads which event is left open: any one at any time.        *)
(*                                                                         *)
(* A definition marked "Slip" is a plausible mistake in the definition     *)
(* after it. Nothing uses it: it is there to see that a run would notice.  *)
(***************************************************************************)
EXTENDS Recording, SequencesExt

CONSTANTS
  NewPoints,  \* points of a new chart: 100 * sizeof(int), 400
  Readings    \* what a node may hold: <<temp_ar, temp_grao, delta_ar, delta_grao>>

\* No roast is too long for it: a node is added every 30 s, and nothing ends a
\* roast (CONTROLLER_MAX_TIME_MINS, 25 min, is not used).
ASSUME ChartAssumption ==
  /\ NewPoints \in Nat \ {0}
  /\ Readings \subseteq Int \X Int \X Int \X Int

VARIABLES
  reading,   \* the temperatures and deltas in each node
  room,      \* elements of each y_points array; 0 without a chart
  limits,    \* lower_limit and upper_limit of chart_obj
  reported,  \* a SENSOR_VALUE_EVENT was read since the last node was added
  drawn      \* history: the values that this chart has drawn

chartVars == <<reading, room, limits, reported, drawn>>
plottedVars == <<vars, chartVars>>

NewLimits == [lower |-> 0, upper |-> 10]
NoReading == <<0, 0, 0, 0>>

ChartInit ==
  /\ Init
  /\ reading = [n \in Node |-> NoReading]
  /\ room = 0
  /\ limits = NewLimits
  /\ reported = FALSE
  /\ drawn = {}

-----------------------------------------------------------------------------
(* What Recording does.                                                    *)

\* The arguments of sensor_data_node_init. The first node of a roast has no
\* deltas.
FillReading ==
  /\ Fill
  /\ IF list = "sensor"
     THEN \E r \in Readings :
            /\ now = 0 => r[3] = 0 /\ r[4] = 0
            /\ reading' = [reading EXCEPT ![new] = r]
     ELSE UNCHANGED reading
  /\ UNCHANGED <<room, limits, reported, drawn>>

\* The 30 s between two nodes are long enough for torra_task to have put
\* hundreds of events on a queue of ten, so the display has read one of them
\* at least: that is all that is assumed of time.
RecordReported == Record /\ reported /\ UNCHANGED chartVars

AddNode ==
  /\ SetHead \/ Link
  /\ reported' = (reported /\ list # "sensor")
  /\ UNCHANGED <<reading, room, limits, drawn>>

RecordingElsewhere ==
  /\ \/ BeginPreHeating \/ BeginStart \/ CreateTorra \/ CreateTorraFails
     \/ DeleteTraps \/ BeginCooler \/ Malloc \/ MallocTraps \/ Walk
  /\ UNCHANGED chartVars

RebootChart ==
  /\ Reboot
  /\ reading' = [n \in Node |-> NoReading]
  /\ room' = 0
  /\ limits' = NewLimits
  /\ reported' = FALSE
  /\ drawn' = {}

-----------------------------------------------------------------------------
(* The draw task.                                                          *)

DrawTaskRuns == pc # "panic" /\ UNCHANGED <<vars, reading>>

ChartShown == room # 0

\* A new manual screen and a second touch of the content button make a chart.
OpenChart ==
  /\ DrawTaskRuns
  /\ ~ChartShown
  /\ room' = NewPoints
  /\ limits' = NewLimits
  /\ drawn' = {}
  /\ UNCHANGED reported

\* Leaving the screen or opening the controls deletes it.
CloseChart ==
  /\ DrawTaskRuns
  /\ ChartShown
  /\ room' = 0
  /\ limits' = NewLimits
  /\ drawn' = {}
  /\ UNCHANGED reported

\* lv_chart_set_point_count: LVGL keeps one point at least.
PointCount(n) == IF n < 1 THEN 1 ELSE n

\* The nodes a drawing comes upon.
SensorNodes == ListNodes("sensor")

\* Slip: room for what is drawn, and for nothing more.
RoomAfterDrawTight == PointCount(Len(SensorNodes))

\* *point_count = counter+2;
RoomAfterDraw == PointCount(Len(SensorNodes) + 2)

\* Slip: the second comparison of the pair is made with the wrong limit.
WidenMistyped(lim, v) ==
  IF v < lim.lower THEN [lim EXCEPT !.lower = v]
  ELSE IF v > lim.lower THEN [lim EXCEPT !.upper = v]
  ELSE lim

\* if (v < *lower_limit) ... else if (v > *upper_limit) ...
Widen(lim, v) ==
  IF v < lim.lower THEN [lim EXCEPT !.lower = v]
  ELSE IF v > lim.upper THEN [lim EXCEPT !.upper = v]
  ELSE lim

WidenForNode(lim, node) ==
  LET r == reading[node]
  IN  Widen(Widen(Widen(Widen(lim, r[1]), r[2]), r[3]), r[4])

\* The limits when the first k nodes are drawn.
LimitsUpTo[k \in 0 .. Cardinality(Node)] ==
  IF k = 0 THEN limits ELSE WidenForNode(LimitsUpTo[k - 1], SensorNodes[k])

\* chart_draw_start
DrawStart ==
  /\ room' = RoomAfterDraw
  /\ limits' = LimitsUpTo[Len(SensorNodes)]
  /\ drawn' = drawn \cup {reading[n][f] : n \in ToSet(SensorNodes), f \in 1 .. 4}

\* chart_draw_pre_heating: one point, on a range of its own.
DrawPreHeating == room' = PointCount(1) /\ UNCHANGED <<limits, drawn>>

\* chart_update
ShowSensorEvent ==
  /\ DrawTaskRuns
  /\ reported' = TRUE
  /\ \/ ChartShown /\ stage = "PRE_HEATING" /\ DrawPreHeating
     \/ ChartShown /\ stage = "START" /\ DrawStart
     \/ ~(ChartShown /\ stage \in {"PRE_HEATING", "START"})
          /\ UNCHANGED <<room, limits, drawn>>

\* chart_reset, on a STAGE_EVENT that is read at STAGE_OFF.
ResetChart ==
  /\ DrawTaskRuns
  /\ ChartShown
  /\ stage = "OFF"
  /\ room' = PointCount(0)
  /\ UNCHANGED <<limits, reported, drawn>>

-----------------------------------------------------------------------------
ChartNext ==
  \/ FillReading \/ RecordReported \/ AddNode \/ RecordingElsewhere \/ RebootChart
  \/ OpenChart \/ CloseChart \/ ShowSensorEvent \/ ResetChart

ChartSpec == ChartInit /\ [][ChartNext]_plottedVars

-----------------------------------------------------------------------------
\* The one way in which a drawing can overflow: a chart opened in a roast that
\* already has more nodes than a new chart has points, and not drawn yet.
NewChart == room = NewPoints /\ drawn = {}
NewChartTooSmall == NewChart /\ NewPoints < Len(SensorNodes)

\* Whatever the operator opens, closes and repeats, and wherever torra_task is
\* interrupted, a drawing of the roast finds room in the arrays for each node,
\* unless a new chart is too small for it, although it makes room only for the
\* next one, pre-heating and the end of a roast shrink the arrays to one point,
\* and nothing compares the two lengths
\* (components.c:93,132-192, chart.c:20-28, controller.c:288,318).
PointsInArray ==
  (ChartShown /\ stage = "START" /\ pc # "panic") =>
    Len(SensorNodes) <= room \/ NewChartTooSmall

\* However many drawings and roasts a chart has seen, and although each value
\* is compared with the second limit only if it did not move the first, the
\* limits are the extremes of what was drawn, 0 and 10 among it
\* (components.c:144-174).
LimitsAreExtremes ==
  /\ {limits.lower, limits.upper} \subseteq drawn \cup {0, 10}
  /\ \A v \in drawn \cup {0, 10} : limits.lower <= v /\ v <= limits.upper
=============================================================================
