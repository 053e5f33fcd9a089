----------------------------- MODULE Recording -----------------------------
(***************************************************************************)
(* How torra_task records a roast: two singly linked lists on the heap, to *)
(* which it adds a node each in an iteration of its loop, while the draw   *)
(* task, which outranks it, may walk them at any moment without a lock.    *)
(*                                                                         *)
(* A step is a statement that the draw task could come after.  It is       *)
(* assumed that the compiler keeps the stores of a new node before the one *)
(* that links it, which a loop lies between.  The controller is outranked  *)
(* by torra_task: it deletes it only where it waits, between iterations.   *)
(* There is one torra_task at most here: what two of them record, once a   *)
(* vTaskDelete has gone astray (OneClockWriter in TimerLabel), is not      *)
(* modelled.                                                               *)
(*                                                                         *)
(* Nodes are never freed and no malloc is checked.                         *)
(*                                                                         *)
(* A definition marked "Slip" is a plausible mistake in the definition     *)
(* after it. Nothing uses it: it is there to see that a run would notice.  *)
(***************************************************************************)
EXTENDS Integers, Sequences, FiniteSets

CONSTANTS
  Node,     \* heap blocks that fit a node: the heap's size
  NULL,     \* the null pointer
  Junk,     \* what malloc leaves in a pointer or a time
  MaxTime   \* bound: iterations that record, after the first nodes

ASSUME RecordingAssumption ==
  /\ IsFiniteSet(Node)
  /\ NULL \notin Node
  /\ Junk \notin Node \cup {NULL}
  /\ MaxTime \in Nat

VARIABLES
  stage,  \* "OFF" also stands for COOLER: no list changes in either
  heap,   \* time and next of each node; its readings go with its time
  used,   \* the blocks malloc has given away
  head,   \* data of read_recipe_data and read_sensor_data
  pc,     \* where torra_task is; "none" without one, "create" when the
          \* controller is about to make it, "panic" after a trap
  list,   \* the list it works on
  new,    \* new_recipe_data_node or new_sensor_data_node
  temp,   \* the node its walk has reached
  now     \* elapsed_time, in recorded iterations; 0 before the loop

vars == <<stage, heap, used, head, pc, list, new, temp, now>>

List == {"recipe", "sensor"}
Empty == [l \in List |-> NULL]
Unset == [time |-> Junk, next |-> Junk]

Init ==
  /\ stage = "OFF"
  /\ heap = [n \in Node |-> Unset]
  /\ used = {}
  /\ head = Empty
  /\ pc = "none"
  /\ list = "recipe"
  /\ new = NULL
  /\ temp = NULL
  /\ now = 0

-----------------------------------------------------------------------------
(* The controller.                                                         *)

\* case PRE_HEATING, the second time as well: two new, empty records. The
\* nodes of the old ones stay allocated.
BeginPreHeating ==
  /\ stage \in {"OFF", "PRE_HEATING"}
  /\ stage' = "PRE_HEATING"
  /\ head' = Empty
  /\ UNCHANGED <<heap, used, pc, list, new, temp, now>>

\* case START. A repeated START deletes torra_task, if there is one.
BeginStart ==
  /\ stage \in {"PRE_HEATING", "START"}
  /\ pc \in {"none", "delay"}
  /\ stage' = "START"
  /\ pc' = "create"
  /\ UNCHANGED <<heap, used, head, list, new, temp, now>>

CreateTorra ==
  /\ pc = "create"
  /\ pc' = "malloc"
  /\ list' = "recipe"
  /\ now' = 0
  /\ UNCHANGED <<stage, heap, used, head, new, temp>>

\* The heap has no room for the task or, a trap, for its parameters.
CreateTorraFails ==
  /\ pc = "create"
  /\ pc' \in {"none", "panic"}
  /\ UNCHANGED <<stage, heap, used, head, list, new, temp, now>>

\* A repeated START deletes through a handle whose task is gone, and COOLER
\* through one that was never set if there is no torra_task.
DeleteTraps ==
  /\ stage = "START"
  /\ pc \in {"none", "delay"}
  /\ pc' = "panic"
  /\ UNCHANGED <<stage, heap, used, head, list, new, temp, now>>

\* case COOLER deletes torra_task, if there is one.
BeginCooler ==
  /\ stage = "START"
  /\ pc \in {"none", "delay"}
  /\ stage' = "OFF"
  /\ pc' = "none"
  /\ UNCHANGED <<heap, used, head, list, new, temp, now>>

-----------------------------------------------------------------------------
(* torra_task.                                                             *)

\* 30 s have passed: the iteration records.
Record ==
  /\ pc = "delay"
  /\ now < MaxTime
  /\ now' = now + 1
  /\ pc' = "malloc"
  /\ list' = "recipe"
  /\ UNCHANGED <<stage, heap, used, head, new, temp>>

Malloc ==
  /\ pc = "malloc"
  /\ \E n \in Node \ used :
       /\ new' = n
       /\ used' = used \cup {n}
  /\ pc' = "fill"
  /\ UNCHANGED <<stage, heap, head, list, temp, now>>

\* The null pointer that malloc returns is written through.
MallocTraps ==
  /\ pc = "malloc"
  /\ used = Node
  /\ pc' = "panic"
  /\ UNCHANGED <<stage, heap, used, head, list, new, temp, now>>

\* Slip: the end of the list is not marked.
NodeUnended == [time |-> now, next |-> Junk]

\* recipe_data_node_init, sensor_data_node_init
NewNode == [time |-> now, next |-> NULL]

\* What comes after a fill: the first node of a roast becomes the head, the
\* others are added at the end.
Fill ==
  /\ pc = "fill"
  /\ heap' = [heap EXCEPT ![new] = NewNode]
  /\ IF now = 0 THEN pc' = "set_head" /\ UNCHANGED temp
     ELSE pc' = "walk" /\ temp' = head[list]
  /\ UNCHANGED <<stage, used, head, list, new, now>>

\* Slip: a roast is recorded in one list only.
ProceedAlone == pc' = "delay" /\ UNCHANGED list

\* The recipe's node is followed by the sensors', then the task waits.
Proceed ==
  IF list = "recipe" THEN pc' = "malloc" /\ list' = "sensor"
  ELSE pc' = "delay" /\ UNCHANGED list

SetHead ==
  /\ pc = "set_head"
  /\ head' = [head EXCEPT ![list] = new]
  /\ Proceed
  /\ UNCHANGED <<stage, heap, used, new, temp, now>>

\* while (temp->next != NULL) temp = temp->next;
Walk ==
  /\ pc = "walk"
  /\ heap[temp].next # NULL
  /\ temp' = heap[temp].next
  /\ UNCHANGED <<stage, heap, used, head, pc, list, new, now>>

\* Slip: the walk is forgotten: what follows the first node is replaced.
LastReachedAlways == TRUE

LastReached == heap[temp].next = NULL

\* temp->next = new_..._data_node;
Link ==
  /\ pc = "walk"
  /\ LastReached
  /\ heap' = [heap EXCEPT ![temp].next = new]
  /\ Proceed
  /\ UNCHANGED <<stage, used, head, new, temp, now>>

Reboot ==
  /\ pc = "panic"
  /\ stage' = "OFF"
  /\ heap' = [n \in Node |-> Unset]
  /\ used' = {}
  /\ head' = Empty
  /\ pc' = "none"
  /\ list' = "recipe"
  /\ new' = NULL
  /\ temp' = NULL
  /\ now' = 0

Next ==
  \/ BeginPreHeating \/ BeginStart \/ CreateTorra \/ CreateTorraFails
  \/ DeleteTraps \/ BeginCooler
  \/ Record \/ Malloc \/ MallocTraps \/ Fill \/ SetHead \/ Walk \/ Link
  \/ Reboot

Spec == Init /\ [][Next]_vars

-----------------------------------------------------------------------------
(* What the draw task would read, if it walked a list now.                 *)

\* The first k nodes from pointer p on. A walk that meets junk is cut there.
NodesFrom[k \in 0 .. Cardinality(Node)] ==
  [p \in Node \cup {NULL, Junk} |->
     IF k = 0 \/ p \notin Node THEN <<>>
     ELSE <<p>> \o NodesFrom[k - 1][heap[p].next]]

ListNodes(l) == NodesFrom[Cardinality(Node)][head[l]]

ReadList(l) == [i \in DOMAIN ListNodes(l) |-> heap[ListNodes(l)[i]].time]

Log == INSTANCE RecordLog WITH recipe <- ReadList("recipe"), sensor <- ReadList("sensor")

\* Walked at any moment, the lists are the logs that RecordLog describes: no
\* node is seen before it is filled or seen twice, and none is lost until a
\* START or PRE_HEATING, which begins the lists anew, drops them all; the lists
\* are at most one node apart, except that a repeated START, which the operator
\* can press in a roast of any length, begins one before the other (controller.c:
\* 106-107,287-288,317-318,398-453 against components.c:145-182).
RecordProtocol == Log!LogSpec

\* A walk ends at a null pointer: it meets no junk and no circle. So does that
\* of torra_task itself, which is always somewhere on the list it appends to
\* (components.c:146,180; controller.c:415,448).
WalksEnd ==
  /\ \A n \in Node :
       (n \in used /\ ~(n = new /\ pc = "fill")) => heap[n].next \in Node \cup {NULL}
  /\ \A l \in List :
       IF ListNodes(l) = <<>> THEN head[l] = NULL
       ELSE heap[ListNodes(l)[Len(ListNodes(l))]].next = NULL
  /\ pc = "walk" => \E i \in DOMAIN ListNodes(list) : temp = ListNodes(list)[i]

\* Whenever the controller can delete torra_task, an entry of one list has its
\* counterpart in the other (controller.c:145 against 317-318).
DeletedInStep == pc = "delay" => ReadList("recipe") = ReadList("sensor")
============================================================================
