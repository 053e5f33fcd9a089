---------------------------- MODULE ChartProofs ----------------------------
(***************************************************************************)
(* The chart, for every heap, any number of recorded iterations, any       *)
(* number of points of a new chart, and any readings.                      *)
(***************************************************************************)
EXTENDS Chart, RecordingProofs

USE RecordingAssumption, ChartAssumption DEF RecordingAssumption, ChartAssumption

-----------------------------------------------------------------------------
(* What the chart does leaves the record as it is: ChartSpec implements    *)
(* Recording.                                                              *)

LEMMA ChartStepsRecord == [ChartNext]_plottedVars => [Next]_vars
  BY DEF ChartNext, FillReading, RecordReported, AddNode, RecordingElsewhere,
     RebootChart, OpenChart, CloseChart, ShowSensorEvent, ResetChart, DrawTaskRuns,
     plottedVars, Next

LEMMA ChartKeepsRecord == ChartSpec => Spec
<1>1. ChartInit => Init
  BY DEF ChartInit
<1> QED
  BY <1>1, ChartStepsRecord, PTL DEF ChartSpec, Spec

LEMMA SomeListsInChart == ChartSpec => []SomeLists
  BY ChartKeepsRecord, RecordingHolds, PTL

-----------------------------------------------------------------------------
(* Room for the points.                                                    *)

\* With a list of n sensor nodes. A drawing leaves room for two more nodes, and
\* torra_task waits for one before it records again; when it is at work there
\* is room for the node that it is about to add. Until a new chart is drawn, it
\* has the room it came with.
RoomInv(n) ==
  /\ room \in Nat
  /\ ChartShown /\ ~NewChart =>
       /\ stage = "START" /\ pc # "panic" => n <= room
       /\ pc \in Working => now + 1 <= room
       /\ pc = "delay" /\ reported /\ now < MaxTime => now + 2 <= room

ChartInv(p) == RecordingInv(p) /\ RoomInv(Len(p["sensor"]))

SomeListsFit == \E p \in Lists : ChartInv(p)

LEMMA RoomInit == ChartInit => ChartInv(NoNodes)
<1> SUFFICES ASSUME ChartInit PROVE ChartInv(NoNodes)
  OBVIOUS
<1>1. RecordingInv(NoNodes)
  BY RecordingInit DEF ChartInit
<1> QED
  BY <1>1 DEF ChartInv, RoomInv, ChartShown, ChartInit

\* Steps of the controller and torra_task that add no node.
LEMMA RecordingRoomStep ==
  ASSUME NEW p \in Lists, ChartInv(p),
         FillReading \/ RecordReported \/ RecordingElsewhere
  PROVE  \E q \in Lists : ChartInv(q)'
<1> USE DEF ChartInv
<1> DEFINE n == Len(p["sensor"])
<1>t. n \in Nat /\ now \in Nat
  BY ListFacts DEF Lists, RecordingInv, HeapTypes
<1>1. UNCHANGED <<room, reported, drawn>> /\ (NewChart <=> NewChart')
  BY DEF FillReading, RecordReported, RecordingElsewhere, chartVars, NewChart
<1>2. CASE BeginPreHeating
  <2>1. RecordingInv(NoNodes)'
    BY <1>2, ClearStep
  <2>2. RoomInv(0)'
    <3>1. stage' = "PRE_HEATING" /\ pc' = pc /\ now' = now
      BY <1>2 DEF BeginPreHeating
    <3>2. pc' \notin Working /\ pc' # "delay"
      BY <2>1, <3>1 DEF RecordingInv, InStep, Working
    <3> QED
      BY <1>1, <3>1, <3>2 DEF RoomInv, ChartShown
  <2>3. RoomInv(Len(NoNodes["sensor"]))'
    BY <2>2, NoNodesFacts, ListFacts DEF RoomInv
  <2> QED
    BY <2>1, <2>3, NoNodesFacts
<1>3. CASE Fill \/ Walk
  <2>1. RecordingInv(p)'
    BY <1>3, FillStep, WalkStaysOnList
  <2>2. pc \in Working /\ pc' \in Working /\ UNCHANGED <<stage, now>>
    BY <1>3 DEF Fill, Walk, Working
  <2>3. RoomInv(n)'
    BY <1>1, <2>2 DEF RoomInv, ChartShown, Working
  <2> QED
    BY <2>1, <2>3
<1>4. CASE \/ BeginStart \/ CreateTorra \/ CreateTorraFails \/ DeleteTraps
           \/ BeginCooler \/ Record \/ Malloc \/ MallocTraps
  <2>1. RecordingInv(p)'
    BY <1>4, StageStep
  <2>2. RoomInv(n)'
    <3>1. CASE BeginStart
      <4>1. stage = "PRE_HEATING" => n = 0
        BY DEF RecordingInv, InStep
      <4>2. stage \in {"PRE_HEATING", "START"} /\ pc # "panic" /\ pc' = "create"
        BY <3>1 DEF BeginStart
      <4> QED
        BY <1>t, <1>1, <4>1, <4>2 DEF RoomInv, ChartShown, Working
    <3>2. CASE CreateTorra
      <4>1. pc = "create" /\ stage = "START" /\ stage' = stage /\ now' = 0 /\ pc' = "malloc"
        BY <3>2 DEF CreateTorra, RecordingInv, InStep
      <4> QED
        BY <1>t, <1>1, <4>1 DEF RoomInv, ChartShown, Working
    <3>3. CASE BeginCooler \/ CreateTorraFails \/ DeleteTraps \/ MallocTraps
      <4>1. /\ pc' \in {"none", "panic"}
            /\ pc' = "none" => stage' = "OFF" \/ (UNCHANGED stage /\ pc # "panic")
        BY <3>3 DEF BeginCooler, CreateTorraFails, DeleteTraps, MallocTraps
      <4> QED
        BY <1>1, <4>1 DEF RoomInv, ChartShown, Working
    <3>4. CASE Record
      <4>1. reported
        BY <3>4 DEF FillReading, Fill, RecordReported, RecordingElsewhere, Record,
           BeginPreHeating, BeginStart, CreateTorra, CreateTorraFails, DeleteTraps,
           BeginCooler, Malloc, MallocTraps, Walk
      <4>2. pc = "delay" /\ pc' = "malloc" /\ now < MaxTime /\ now' = now + 1
            /\ stage' = stage
        BY <3>4 DEF Record
      <4> QED
        BY <1>t, <1>1, <4>1, <4>2 DEF RoomInv, ChartShown, Working
    <3>5. CASE Malloc
      BY <1>1, <3>5 DEF Malloc, RoomInv, ChartShown, Working
    <3> QED
      BY <1>4, <3>1, <3>2, <3>3, <3>4, <3>5
  <2> QED
    BY <2>1, <2>2
<1> QED
  BY <1>2, <1>3, <1>4 DEF FillReading, RecordReported, RecordingElsewhere

LEMMA AddNodeRoomStep ==
  ASSUME NEW p \in Lists, ChartInv(p), AddNode
  PROVE  \E q \in Lists : ChartInv(q)'
<1> USE DEF ChartInv
<1>1. [Next]_vars
  BY DEF AddNode, Next
<1>2. PICK q \in Lists : RecordingInv(q)' /\ Grows(p, q)
  BY <1>1, RecordingStep
<1> DEFINE n == Len(p["sensor"])
           n2 == Len(q["sensor"])
<1>t. /\ n \in Nat /\ n2 \in Nat /\ Len(p["recipe"]) \in Nat /\ Len(q["recipe"]) \in Nat
      /\ now \in Nat
  BY ListFacts DEF Lists, RecordingInv, HeapTypes
<1>3. /\ pc \in Working /\ UNCHANGED <<stage, now, room>> /\ stage = "START"
      /\ list \in List
      /\ NewChart <=> NewChart'
      /\ reported' = (reported /\ list # "sensor")
  BY DEF AddNode, SetHead, Link, Working, RecordingInv, InStep, HeapTypes, NewChart
<1>4. CASE list = "recipe"
  <2>1. pc' = "malloc"
    BY <1>4 DEF AddNode, SetHead, Link, Proceed
  <2>2. n2 = n \/ n2 <= 1
    BY <1>2, <1>3, <1>4, <1>t DEF Grows, RecordingInv, InStep
  <2>3. RoomInv(n2)'
    BY <1>3, <1>t, <2>1, <2>2 DEF RoomInv, ChartShown, Working
  <2> QED
    BY <1>2, <2>3
<1>5. CASE list # "recipe"
  <2>1. pc' = "delay" /\ list = "sensor"
    BY <1>3, <1>5, ListFacts DEF AddNode, SetHead, Link, Proceed
  <2>2. n2 = now + 1
    BY <1>2, <1>3, <2>1 DEF RecordingInv, InStep
  <2>3. ~reported'
    BY <1>3, <2>1
  <2>4. RoomInv(n2)'
    BY <1>3, <1>t, <2>1, <2>2, <2>3 DEF RoomInv, ChartShown, Working
  <2> QED
    BY <1>2, <2>4
<1> QED
  BY <1>4, <1>5

\* The draw task.
LEMMA DrawTaskRoomStep ==
  ASSUME NEW p \in Lists, ChartInv(p),
         OpenChart \/ CloseChart \/ ShowSensorEvent \/ ResetChart
  PROVE  ChartInv(p)'
<1> USE DEF ChartInv
<1> DEFINE n == Len(p["sensor"])
<1>1. UNCHANGED vars /\ pc # "panic"
  BY DEF OpenChart, CloseChart, ShowSensorEvent, ResetChart, DrawTaskRuns
<1>2. RecordingInv(p)'
  BY <1>1, UnchangedStep
<1>3. UNCHANGED <<stage, pc, now>>
  BY <1>1 DEF vars
<1>4. /\ n \in Nat /\ n <= MaxTime + 1 /\ now \in 0 .. MaxTime
      /\ pc # "none" => stage = "START"
      /\ pc \in Working /\ now > 0 => n = now
      /\ pc = "delay" => n = now + 1
  <2>1. n \in Nat /\ Len(p["recipe"]) \in Nat
    BY ListFacts DEF Lists
  <2> QED
    BY <2>1, ListFacts DEF RecordingInv, Separate, HeapTypes, InStep, Working
<1>5. RoomInv(n)'
  <2>1. CASE OpenChart
    <3>1. NewChart' /\ room' \in Nat
      BY <2>1 DEF OpenChart, NewChart
    <3> QED
      BY <3>1 DEF RoomInv
  <2>2. CASE CloseChart
    BY <2>2 DEF CloseChart, RoomInv, ChartShown
  <2>3. CASE ResetChart
    <3>1. stage = "OFF" /\ room' = 1
      BY <2>3 DEF ResetChart, PointCount
    <3> QED
      BY <1>3, <1>4, <3>1 DEF RoomInv, ChartShown, Working
  <2>4. CASE ShowSensorEvent /\ ChartShown /\ stage = "PRE_HEATING"
    <3>1. room' = 1
      BY <2>4 DEF ShowSensorEvent, DrawPreHeating, PointCount
    <3> QED
      BY <1>3, <1>4, <2>4, <3>1 DEF RoomInv, ChartShown, Working
  <2>5. CASE ShowSensorEvent /\ ChartShown /\ stage = "START"
    <3>1. Len(SensorNodes) = n
      BY ListFacts, SeenOfLists DEF SensorNodes
    <3>2. room' = n + 2
      BY <1>4, <2>5, <3>1 DEF ShowSensorEvent, DrawStart, RoomAfterDraw, PointCount
    <3> QED
      BY <1>3, <1>4, <3>2 DEF RoomInv, ChartShown, Working
  <2>6. CASE ShowSensorEvent /\ ~(ChartShown /\ stage \in {"PRE_HEATING", "START"})
    <3>1. UNCHANGED <<room, drawn>> /\ (ChartShown => stage \notin {"PRE_HEATING", "START"})
      BY <2>6 DEF ShowSensorEvent
    <3> QED
      BY <1>3, <1>4, <3>1 DEF RoomInv, ChartShown, Working
  <2> QED
    BY <2>1, <2>2, <2>3, <2>4, <2>5, <2>6
<1> QED
  BY <1>2, <1>5

LEMMA RoomStep == SomeListsFit /\ [ChartNext]_plottedVars => SomeListsFit'
<1> SUFFICES ASSUME NEW p \in Lists, ChartInv(p), [ChartNext]_plottedVars
             PROVE  \E q \in Lists : ChartInv(q)'
  BY DEF SomeListsFit
<1>1. CASE FillReading \/ RecordReported \/ RecordingElsewhere
  BY <1>1, RecordingRoomStep
<1>2. CASE AddNode
  BY <1>2, AddNodeRoomStep
<1>3. CASE RebootChart
  <2>1. RecordingInv(NoNodes)'
    BY <1>3, ClearStep DEF RebootChart, ChartInv
  <2>2. RoomInv(Len(NoNodes["sensor"]))'
    BY <1>3 DEF RebootChart, RoomInv, ChartShown
  <2> QED
    BY <2>1, <2>2, NoNodesFacts DEF ChartInv
<1>4. CASE OpenChart \/ CloseChart \/ ShowSensorEvent \/ ResetChart
  BY <1>4, DrawTaskRoomStep
<1>5. CASE UNCHANGED plottedVars
  <2>1. UNCHANGED vars /\ UNCHANGED <<room, reported, drawn>>
    BY <1>5 DEF plottedVars, chartVars
  <2>2. RecordingInv(p)'
    BY <2>1, UnchangedStep DEF ChartInv
  <2>3. RoomInv(Len(p["sensor"]))'
    BY <2>1 DEF ChartInv, RoomInv, ChartShown, NewChart, vars
  <2> QED
    BY <2>2, <2>3 DEF ChartInv
<1> QED
  BY <1>1, <1>2, <1>3, <1>4, <1>5 DEF ChartNext

\* A drawing of the roast finds room for each of its points, on a heap of any
\* size and however long the roast is, except the first drawing of a chart that
\* was opened in a roast with more nodes than a new chart has points
\* (components.c:93,132-192, chart.c:20-28, controller.c:288,318).
THEOREM DrawingsFit == ChartSpec => []PointsInArray
<1>1. ChartInit => SomeListsFit
  BY RoomInit, NoNodesFacts DEF SomeListsFit
<1>2. SomeListsFit => PointsInArray
  <2> SUFFICES ASSUME NEW p \in Lists, ChartInv(p),
                      ChartShown, stage = "START", pc # "panic"
               PROVE  Len(SensorNodes) <= room \/ NewChartTooSmall
    BY DEF SomeListsFit, PointsInArray
  <2>1. Len(SensorNodes) = Len(p["sensor"])
    BY ListFacts, SeenOfLists DEF SensorNodes, ChartInv
  <2> QED
    BY <2>1, ListFacts DEF ChartInv, RoomInv, NewChartTooSmall, NewChart, Lists
<1> QED
  BY <1>1, <1>2, RoomStep, PTL DEF ChartSpec

-----------------------------------------------------------------------------
(* The limits of the axis.  The recursive function LimitsUpTo exists, so   *)
(* it does what it says.                                                   *)

\* LimitsUpTo[k], from f = LimitsUpTo.
LimitsFrom(f, k) == IF k = 0 THEN limits ELSE WidenForNode(f[k - 1], SensorNodes[k])

LimitsOfNodes(m, f) == f = [k \in 0 .. m |-> LimitsFrom(f, k)]

LEMMA LimitsOfNodesExist == \A m \in Nat : \E f : LimitsOfNodes(m, f)
<1> DEFINE S == {m \in Nat : \E f : LimitsOfNodes(m, f)}
<1>1. 0 \in S
  <2> DEFINE g == [k \in 0 .. 0 |-> limits]
  <2>1. LimitsOfNodes(0, g)
    BY DEF LimitsOfNodes, LimitsFrom
  <2> QED
    BY <2>1
<1>2. ASSUME NEW m \in Nat, m \in S PROVE m + 1 \in S
  <2>1. PICK f : LimitsOfNodes(m, f)
    BY <1>2
  <2> DEFINE g == [k \in 0 .. m + 1 |-> LimitsFrom(f, k)]
  <2>2. \A k \in 0 .. m : k \in 0 .. m + 1 /\ f[k] = LimitsFrom(f, k)
    BY <2>1 DEF LimitsOfNodes
  <2>3. \A k \in 0 .. m : g[k] = f[k]
    BY <2>2, Zenon
  <2>4. \A k \in 0 .. m + 1 : k # 0 => k - 1 \in 0 .. m
    OBVIOUS
  <2>5. \A k \in 0 .. m + 1 : k # 0 => g[k - 1] = f[k - 1]
    BY <2>3, <2>4
  <2>6. \A k \in 0 .. m + 1 : LimitsFrom(f, k) = LimitsFrom(g, k)
    <3> HIDE DEF g
    <3> QED
      BY <2>5, Zenon DEF LimitsFrom
  <2>7. LimitsOfNodes(m + 1, g)
    <3>1. g = [k \in 0 .. m + 1 |-> LimitsFrom(f, k)]
      OBVIOUS
    <3> HIDE DEF g
    <3> QED
      BY <2>6, <3>1, Zenon DEF LimitsOfNodes
  <2> QED
    BY <2>7
<1> HIDE DEF S
<1>3. Nat \subseteq S
  BY <1>1, <1>2, NatSetInduction
<1> QED
  BY <1>3 DEF S

LEMMA LimitsUpToFacts ==
  /\ LimitsUpTo[0] = limits
  /\ \A k \in 1 .. Size : LimitsUpTo[k] = WidenForNode(LimitsUpTo[k - 1], SensorNodes[k])
<1>1. LimitsOfNodes(Size, LimitsUpTo)
  <2>1. \E f : LimitsOfNodes(Size, f)
    BY LimitsOfNodesExist, SizeType
  <2> QED
    BY <2>1, Zenon DEF LimitsOfNodes, LimitsFrom, LimitsUpTo, Size
<1>2. \A k \in 0 .. Size : LimitsUpTo[k] = LimitsFrom(LimitsUpTo, k)
  <2> DEFINE f == LimitsUpTo
  <2>1. f = [k \in 0 .. Size |-> LimitsFrom(f, k)]
    BY <1>1 DEF LimitsOfNodes
  <2> HIDE DEF f
  <2>2. \A k \in 0 .. Size : f[k] = LimitsFrom(f, k)
    BY <2>1, Zenon
  <2> QED
    BY <2>2 DEF f
<1>3. 0 \in 0 .. Size /\ \A k \in 1 .. Size : k \in 0 .. Size /\ k # 0
  BY SizeType
<1> QED
  BY <1>2, <1>3, Zenon DEF LimitsFrom

\* The limits lim are the extremes of D.
Extremes(lim, D) ==
  /\ lim \in [lower : Int, upper : Int]
  /\ {lim.lower, lim.upper} \subseteq D
  /\ \A v \in D : v \in Int /\ lim.lower <= v /\ v <= lim.upper

\* A value that moves one limit need not be compared with the other.
LEMMA WidenExtremes ==
  ASSUME NEW lim, NEW D, Extremes(lim, D), NEW v \in Int
  PROVE  Extremes(Widen(lim, v), D \cup {v})
<1>1. lim.lower <= lim.upper /\ lim.lower \in Int /\ lim.upper \in Int
  BY DEF Extremes
<1>2. CASE v < lim.lower
  <2>1. Widen(lim, v) = [lower |-> v, upper |-> lim.upper]
    BY <1>2 DEF Widen, Extremes
  <2> QED
    BY <1>1, <1>2, <2>1 DEF Extremes
<1>3. CASE ~(v < lim.lower) /\ v > lim.upper
  <2>1. Widen(lim, v) = [lower |-> lim.lower, upper |-> v]
    BY <1>3 DEF Widen, Extremes
  <2> QED
    BY <1>1, <1>3, <2>1 DEF Extremes
<1>4. CASE ~(v < lim.lower) /\ ~(v > lim.upper)
  <2>1. Widen(lim, v) = lim
    BY <1>4 DEF Widen
  <2> QED
    BY <1>1, <1>4, <2>1 DEF Extremes
<1> QED
  BY <1>2, <1>3, <1>4

ValuesOf(node) == {reading[node][f] : f \in 1 .. 4}

LEMMA WidenForNodeExtremes ==
  ASSUME NEW lim, NEW D, Extremes(lim, D), NEW node,
         reading[node] \in Int \X Int \X Int \X Int
  PROVE  Extremes(WidenForNode(lim, node), D \cup ValuesOf(node))
<1> DEFINE r == reading[node]
           lim1 == Widen(lim, r[1])
           lim2 == Widen(lim1, r[2])
           lim3 == Widen(lim2, r[3])
           lim4 == Widen(lim3, r[4])
<1>1. r[1] \in Int /\ r[2] \in Int /\ r[3] \in Int /\ r[4] \in Int
  OBVIOUS
<1>2. D \cup {r[f] : f \in 1 .. 4} = D \cup {r[1]} \cup {r[2]} \cup {r[3]} \cup {r[4]}
  OBVIOUS
<1>3. WidenForNode(lim, node) = lim4
  BY DEF WidenForNode
<1> HIDE DEF r, lim1, lim2, lim3, lim4
<1>4. Extremes(lim1, D \cup {r[1]})
  BY <1>1, WidenExtremes DEF lim1
<1>5. Extremes(lim2, D \cup {r[1]} \cup {r[2]})
  BY <1>1, <1>4, WidenExtremes DEF lim2
<1>6. Extremes(lim3, D \cup {r[1]} \cup {r[2]} \cup {r[3]})
  BY <1>1, <1>5, WidenExtremes DEF lim3
<1>7. Extremes(lim4, D \cup {r[1]} \cup {r[2]} \cup {r[3]} \cup {r[4]})
  BY <1>1, <1>6, WidenExtremes DEF lim4
<1> QED
  BY <1>2, <1>3, <1>7 DEF r, ValuesOf

\* What the first k nodes hold.
ValuesUpTo(k) == {reading[SensorNodes[i]][f] : i \in 1 .. k, f \in 1 .. 4}

LEMMA ValuesOfNext ==
  \A k \in Nat : ValuesUpTo(k + 1)
                  = ValuesUpTo(k) \cup ValuesOf(SensorNodes[k + 1])
<1> TAKE k \in Nat
<1>1. \A i \in 1 .. k + 1 : i \in 1 .. k \/ i = k + 1
  OBVIOUS
<1>2. \A i \in 1 .. k : i \in 1 .. k + 1
  OBVIOUS
<1>3. k + 1 \in 1 .. k + 1
  OBVIOUS
<1> QED
  BY <1>1, <1>2, <1>3 DEF ValuesUpTo, ValuesOf

LEMMA LimitsUpToExtremes ==
  ASSUME NEW D, Extremes(limits, D), SensorNodes \in Seq(Node), Len(SensorNodes) <= Size,
         reading \in [Node -> Int \X Int \X Int \X Int]
  PROVE  \A k \in 0 .. Len(SensorNodes) : Extremes(LimitsUpTo[k], D \cup ValuesUpTo(k))
<1> DEFINE n == Len(SensorNodes)
           S == {k \in Nat : k <= n => Extremes(LimitsUpTo[k], D \cup ValuesUpTo(k))}
<1>0. n \in Nat /\ Size \in Nat
  BY SizeType
<1>1. 0 \in S
  <2>1. D \cup ValuesUpTo(0) = D
    BY DEF ValuesUpTo
  <2> QED
    BY <2>1, LimitsUpToFacts
<1>2. ASSUME NEW k \in Nat, k \in S PROVE k + 1 \in S
  <2> SUFFICES ASSUME k + 1 <= n
               PROVE  Extremes(LimitsUpTo[k + 1], D \cup ValuesUpTo(k + 1))
    OBVIOUS
  <2>n. PICK node \in Node : node = SensorNodes[k + 1]
    BY <1>0
  <2>1. Extremes(LimitsUpTo[k], D \cup ValuesUpTo(k))
    BY <1>0, <1>2
  <2>2. reading[node] \in Int \X Int \X Int \X Int
    OBVIOUS
  <2>3. LimitsUpTo[k + 1] = WidenForNode(LimitsUpTo[k], node)
    <3>1. k + 1 \in 1 .. Size /\ (k + 1) - 1 = k
      BY <1>0
    <3> QED
      BY <2>n, <3>1, LimitsUpToFacts
  <2>4. (D \cup ValuesUpTo(k)) \cup ValuesOf(node)
          = D \cup ValuesUpTo(k + 1)
    <3>1. ValuesUpTo(k + 1) = ValuesUpTo(k) \cup ValuesOf(node)
      BY <2>n, ValuesOfNext
    <3> QED
      BY <3>1
  <2>5. Extremes(WidenForNode(LimitsUpTo[k], node),
                 (D \cup ValuesUpTo(k)) \cup ValuesOf(node))
    BY <2>1, <2>2, WidenForNodeExtremes
  <2> QED
    BY <2>3, <2>4, <2>5
<1> HIDE DEF S
<1>3. Nat \subseteq S
  BY <1>1, <1>2, NatSetInduction
<1>4. \A k \in 0 .. n : k \in Nat /\ k <= n
  BY <1>0
<1> QED
  BY <1>3, <1>4 DEF S

LimitsInv ==
  /\ reading \in [Node -> Int \X Int \X Int \X Int]
  /\ Extremes(limits, drawn \cup {0, 10})

LEMMA NewLimitsFacts == Extremes(NewLimits, {} \cup {0, 10})
  BY DEF Extremes, NewLimits

LEMMA DrawStartLimits ==
  ASSUME NEW p \in Lists, RecordingInv(p), LimitsInv, DrawStart
  PROVE  Extremes(limits, drawn \cup {0, 10})'
<1>1. SensorNodes = p["sensor"]
  BY SeenOfLists, ListFacts DEF SensorNodes
<1>2. SensorNodes \in Seq(Node) /\ Len(SensorNodes) <= Size
  <2>1. p["sensor"] \in Seq(Node) /\ IsList("sensor", p["sensor"])
    BY ListFacts DEF Lists, RecordingInv, Separate
  <2> QED
    BY <1>1, <2>1, NoLongerThanHeap DEF IsList
<1> DEFINE n == Len(SensorNodes)
<1>3. Extremes(LimitsUpTo[n], (drawn \cup {0, 10}) \cup ValuesUpTo(n))
  <2>1. n \in 0 .. n
    BY <1>2
  <2> QED
    BY <1>2, <2>1, LimitsUpToExtremes DEF LimitsInv
<1>4. limits' = LimitsUpTo[n]
  BY DEF DrawStart
<1>5. drawn' \cup {0, 10} = (drawn \cup {0, 10}) \cup ValuesUpTo(n)
  <2>1. drawn' = drawn \cup {reading[m][f] : m \in ToSet(SensorNodes), f \in 1 .. 4}
    BY DEF DrawStart
  <2>2. ToSet(SensorNodes) = {SensorNodes[i] : i \in 1 .. n}
    BY <1>2 DEF ToSet
  <2> HIDE DEF n
  <2> QED
    BY <2>1, <2>2 DEF ValuesUpTo
<1> QED
  BY <1>3, <1>4, <1>5 DEF Extremes

LEMMA LimitsStep ==
  SomeLists /\ LimitsInv /\ [ChartNext]_plottedVars => LimitsInv'
<1> SUFFICES ASSUME NEW p \in Lists, RecordingInv(p), LimitsInv, [ChartNext]_plottedVars
             PROVE  LimitsInv'
  BY DEF SomeLists
<1> USE DEF LimitsInv
<1>1. CASE FillReading
  <2>1. UNCHANGED <<limits, drawn>> /\ new \in Node
    BY <1>1 DEF FillReading, Fill, RecordingInv, HeapTypes, InHand
  <2>2. reading' = reading \/ \E r \in Readings : reading' = [reading EXCEPT ![new] = r]
    BY <1>1 DEF FillReading
  <2>3. reading' \in [Node -> Int \X Int \X Int \X Int]
    BY <2>1, <2>2
  <2> QED
    BY <2>1, <2>3 DEF Extremes
<1>2. CASE \/ RecordReported \/ AddNode \/ RecordingElsewhere \/ ResetChart
           \/ UNCHANGED plottedVars
  <2>1. UNCHANGED <<reading, limits, drawn>>
    BY <1>2 DEF RecordReported, AddNode, RecordingElsewhere, ResetChart, DrawTaskRuns,
       plottedVars, chartVars
  <2> QED
    BY <2>1 DEF Extremes
<1>3. CASE RebootChart \/ OpenChart \/ CloseChart
  <2>1. limits' = NewLimits /\ drawn' = {}
    BY <1>3 DEF RebootChart, OpenChart, CloseChart
  <2>2. reading' \in [Node -> Int \X Int \X Int \X Int]
    BY <1>3 DEF RebootChart, OpenChart, CloseChart, DrawTaskRuns, NoReading
  <2> QED
    BY <2>1, <2>2, NewLimitsFacts DEF Extremes
<1>4. CASE ShowSensorEvent
  <2>1. UNCHANGED reading
    BY <1>4 DEF ShowSensorEvent, DrawTaskRuns
  <2>2. CASE DrawStart
    BY <2>1, <2>2, DrawStartLimits
  <2>3. CASE UNCHANGED <<limits, drawn>>
    BY <2>1, <2>3 DEF Extremes
  <2> QED
    BY <1>4, <2>2, <2>3 DEF ShowSensorEvent, DrawPreHeating
<1> QED
  BY <1>1, <1>2, <1>3, <1>4 DEF ChartNext

\* However many drawings and roasts a chart has seen, and whatever the readings
\* are, the limits are the extremes of what was drawn, 0 and 10 among it
\* (components.c:144-174).
THEOREM LimitsOfWhatWasDrawn == ChartSpec => []LimitsAreExtremes
<1>1. ChartInit => LimitsInv
  <2> SUFFICES ASSUME ChartInit PROVE LimitsInv
    OBVIOUS
  <2>1. reading \in [Node -> Int \X Int \X Int \X Int]
    BY DEF ChartInit, NoReading
  <2> QED
    BY <2>1, NewLimitsFacts DEF ChartInit, LimitsInv
<1>2. LimitsInv => LimitsAreExtremes
  BY DEF LimitsInv, Extremes, LimitsAreExtremes
<1> QED
  BY <1>1, <1>2, SomeListsInChart, LimitsStep, PTL DEF ChartSpec
============================================================================
