-------------------------- MODULE RecordingProofs --------------------------
(***************************************************************************)
(* The record of a roast, for every heap and any number of recorded        *)
(* iterations.                                                             *)
(***************************************************************************)
EXTENDS Recording, FiniteSetTheorems, SequenceTheorems, TLAPS

USE RecordingAssumption DEF RecordingAssumption

-----------------------------------------------------------------------------
(* Induction.  The library's theorem takes the predicate as an operator,   *)
(* which the provers cannot instantiate: here it is a set.                 *)

LEMMA LessPairs == \A x, y \in Nat : x < y => <<x, y>> \in OpToRel(<, Nat)
  BY DEF OpToRel

LEMMA NatSetInduction ==
  ASSUME NEW S, 0 \in S, \A n \in Nat : n \in S => n + 1 \in S
  PROVE  Nat \subseteq S
<1> DEFINE T == Nat \ S
<1> SUFFICES ASSUME T # {} PROVE FALSE
  OBVIOUS
<1>1. T \subseteq Nat
  OBVIOUS
<1> HIDE DEF T
<1>2. PICK x \in T : \A y \in T : ~ (<<y, x>> \in OpToRel(<, Nat))
  BY <1>1, WFMin, NatLessThanWellFounded, Zenon
<1>3. x \in Nat /\ x \notin S /\ x # 0
  BY <1>2 DEF T
<1>4. x - 1 \in Nat /\ x - 1 < x /\ (x - 1) + 1 = x
  BY <1>3
<1>5. x - 1 \in S
  <2>1. <<x - 1, x>> \in OpToRel(<, Nat)
    BY <1>3, <1>4, LessPairs
  <2>2. x - 1 \notin T
    BY <1>2, <2>1, Zenon
  <2> QED
    BY <1>4, <2>2 DEF T
<1> QED
  BY <1>3, <1>4, <1>5

-----------------------------------------------------------------------------
(* The recursive function NodesFrom exists, so it does what it says.       *)

Size == Cardinality(Node)

LEMMA SizeType == Size \in Nat
  BY FS_CardinalityType DEF Size

\* NodesFrom[k], from f = NodesFrom.
WalksOf(f, k) ==
  [p \in Node \cup {NULL, Junk} |->
     IF k = 0 \/ p \notin Node THEN <<>>
     ELSE <<p>> \o f[k - 1][heap[p].next]]

\* The equation of NodesFrom, for a function f on 0 .. m.
NodesUpTo(m, f) == f = [k \in 0 .. m |-> WalksOf(f, k)]

LEMMA NodesUpToExists == \A m \in Nat : \E f : NodesUpTo(m, f)
<1> DEFINE S == {m \in Nat : \E f : NodesUpTo(m, f)}
<1>1. 0 \in S
  <2> DEFINE g == [k \in 0 .. 0 |-> [p \in Node \cup {NULL, Junk} |-> <<>>]]
  <2>1. NodesUpTo(0, g)
    BY DEF NodesUpTo, WalksOf
  <2> QED
    BY <2>1
<1>2. ASSUME NEW m \in Nat, m \in S PROVE m + 1 \in S
  <2>1. PICK f : NodesUpTo(m, f)
    BY <1>2
  <2> DEFINE g == [k \in 0 .. m + 1 |-> WalksOf(f, k)]
  <2>2. \A k \in 0 .. m : k \in 0 .. m + 1 /\ f[k] = WalksOf(f, k)
    BY <2>1 DEF NodesUpTo
  <2>3. \A k \in 0 .. m : g[k] = f[k]
    BY <2>2, Zenon
  <2>4. \A k \in 0 .. m + 1 : k # 0 => k - 1 \in 0 .. m
    OBVIOUS
  <2>5. \A k \in 0 .. m + 1 : k # 0 => g[k - 1] = f[k - 1]
    BY <2>3, <2>4
  <2>6. \A k \in 0 .. m + 1 : WalksOf(f, k) = WalksOf(g, k)
    <3> HIDE DEF g
    <3> QED
      BY <2>5, Zenon DEF WalksOf
  <2>7. g = [k \in 0 .. m + 1 |-> WalksOf(g, k)]
    <3>1. g = [k \in 0 .. m + 1 |-> WalksOf(f, k)]
      OBVIOUS
    <3> HIDE DEF g
    <3> QED
      BY <2>6, <3>1, Zenon
  <2>8. \E h : NodesUpTo(m + 1, h)
    <3> HIDE DEF g
    <3> QED
      BY <2>7, Zenon DEF NodesUpTo
  <2> QED
    BY <2>8
<1> HIDE DEF S
<1>3. Nat \subseteq S
  BY <1>1, <1>2, NatSetInduction
<1> QED
  BY <1>3 DEF S

LEMMA NodesFromEquation == NodesUpTo(Size, NodesFrom)
<1>1. \E f : NodesUpTo(Size, f)
  BY NodesUpToExists, SizeType
<1> QED
  BY <1>1, Zenon DEF NodesUpTo, WalksOf, NodesFrom, Size

LEMMA NodesFromFacts ==
  /\ \A k \in 0 .. Size, p \in {NULL, Junk} : NodesFrom[k][p] = <<>>
  /\ \A k \in 1 .. Size, p \in Node :
       NodesFrom[k][p] = <<p>> \o NodesFrom[k - 1][heap[p].next]
<1>0. Size \in Nat
  BY SizeType
<1>1. \A k \in 0 .. Size : NodesFrom[k] = WalksOf(NodesFrom, k)
  <2> DEFINE f == NodesFrom
  <2>1. f = [k \in 0 .. Size |-> WalksOf(f, k)]
    BY NodesFromEquation DEF NodesUpTo
  <2> HIDE DEF f
  <2>2. \A k \in 0 .. Size : f[k] = WalksOf(f, k)
    BY <2>1, Zenon
  <2> QED
    BY <2>2 DEF f
<1>2. \A k \in 1 .. Size : k \in 0 .. Size /\ k # 0
  BY <1>0
<1>3. ASSUME NEW f, NEW k, NEW p \in {NULL, Junk} PROVE WalksOf(f, k)[p] = <<>>
  BY DEF WalksOf
<1>4. ASSUME NEW f, NEW k, k # 0, NEW p \in Node
      PROVE  WalksOf(f, k)[p] = <<p>> \o f[k - 1][heap[p].next]
  BY <1>4, Zenon DEF WalksOf
<1>5. ASSUME NEW k \in 0 .. Size, NEW p \in {NULL, Junk} PROVE NodesFrom[k][p] = <<>>
  BY <1>1, <1>3
<1>6. ASSUME NEW k \in 1 .. Size, NEW p \in Node
      PROVE  NodesFrom[k][p] = <<p>> \o NodesFrom[k - 1][heap[p].next]
  <2>1. NodesFrom[k] = WalksOf(NodesFrom, k)
    BY <1>1, <1>2
  <2>2. WalksOf(NodesFrom, k)[p] = <<p>> \o NodesFrom[k - 1][heap[p].next]
    BY <1>2, <1>4, Zenon
  <2> QED
    BY <2>1, <2>2, Zenon
<1> QED
  BY <1>5, <1>6

-----------------------------------------------------------------------------
(* Lists as sequences of nodes.                                            *)

\* The list l consists of the nodes of s, each once, and ends with a null
\* pointer.
IsList(l, s) ==
  /\ head[l] = IF s = <<>> THEN NULL ELSE s[1]
  /\ \A i \in 1 .. Len(s) :
       heap[s[i]].next = IF i = Len(s) THEN NULL ELSE s[i + 1]
  /\ \A i, j \in 1 .. Len(s) : s[i] = s[j] => i = j

\* No list has more nodes than there are.
LEMMA NoLongerThanHeap ==
  ASSUME NEW s \in Seq(Node), \A i, j \in 1 .. Len(s) : s[i] = s[j] => i = j
  PROVE  Len(s) <= Size
<1>1. Len(s) \in Nat /\ s \in [1 .. Len(s) -> Node]
  OBVIOUS
<1>2. s \in Injection(1 .. Len(s), Node)
  BY <1>1 DEF Injection, IsInjective
<1>3. Cardinality(1 .. Len(s)) <= Size
  BY <1>2, FS_Injection DEF Size
<1> QED
  BY <1>1, <1>3, FS_Interval

\* What a walk sees of a list that it enters at its i-th node.
LEMMA WalkOfRest ==
  ASSUME NEW l \in List, NEW s \in Seq(Node), IsList(l, s)
  PROVE  \A m \in 0 .. Len(s) : \A k \in m .. Size :
           m # 0 => NodesFrom[k][s[Len(s) - m + 1]] = SubSeq(s, Len(s) - m + 1, Len(s))
<1> DEFINE n == Len(s)
           Seen(m) == \A k \in m .. Size :
             m # 0 => NodesFrom[k][s[n - m + 1]] = SubSeq(s, n - m + 1, n)
           S == {m \in Nat : m <= n => Seen(m)}
<1>0. n \in Nat /\ n <= Size /\ Size \in Nat
  BY NoLongerThanHeap, SizeType DEF IsList
<1>1. 0 \in S
  OBVIOUS
<1>2. ASSUME NEW m \in Nat, m \in S PROVE m + 1 \in S
  <2> SUFFICES ASSUME m + 1 <= n, NEW k \in m + 1 .. Size
               PROVE  NodesFrom[k][s[n - m]] = SubSeq(s, n - m, n)
    BY <1>0
  <2>1. n - m \in 1 .. n /\ s[n - m] \in Node /\ k \in 1 .. Size /\ k - 1 \in m .. Size
    BY <1>0
  <2>2. NodesFrom[k][s[n - m]] = <<s[n - m]>> \o NodesFrom[k - 1][heap[s[n - m]].next]
    BY <2>1, NodesFromFacts
  <2>3. SubSeq(s, n - m, n) = <<s[n - m]>> \o SubSeq(s, n - m + 1, n)
    BY <1>0, <2>1, SubSeqRecursiveFirst
  <2>4. CASE m = 0
    <3>1. heap[s[n - m]].next = NULL
      BY <1>0, <2>1, <2>4 DEF IsList
    <3>2. NodesFrom[k - 1][NULL] = <<>>
      BY <1>0, <2>1, <2>4, NodesFromFacts
    <3>3. SubSeq(s, n - m + 1, n) = <<>>
      BY <1>0, <2>4, SubSeqEmpty
    <3> QED
      BY <2>2, <2>3, <3>1, <3>2, <3>3
  <2>5. CASE m # 0
    <3>1. heap[s[n - m]].next = s[n - m + 1]
      BY <1>0, <2>1, <2>5 DEF IsList
    <3>2. NodesFrom[k - 1][s[n - m + 1]] = SubSeq(s, n - m + 1, n)
      BY <1>0, <1>2, <2>1, <2>5
    <3> QED
      BY <2>2, <2>3, <3>1, <3>2
  <2> QED
    BY <2>4, <2>5
<1> HIDE DEF S
<1>3. Nat \subseteq S
  BY <1>1, <1>2, NatSetInduction
<1>4. \A m \in Nat : m <= n => Seen(m)
  BY <1>3, Zenon DEF S
<1>5. \A m \in 0 .. n : m \in Nat /\ m <= n
  BY <1>0
<1> QED
  BY <1>4, <1>5, Zenon

LEMMA ListIsSeen ==
  \A l \in List, s \in Seq(Node) : IsList(l, s) => ListNodes(l) = s
<1> SUFFICES ASSUME NEW l \in List, NEW s \in Seq(Node), IsList(l, s)
             PROVE  ListNodes(l) = s
  OBVIOUS
<1>0. Len(s) \in Nat /\ Len(s) <= Size /\ Size \in Nat
  BY NoLongerThanHeap, SizeType DEF IsList
<1>1. CASE s = <<>>
  <2>1. head[l] = NULL
    BY <1>1 DEF IsList
  <2> QED
    BY <1>0, <1>1, <2>1, NodesFromFacts DEF ListNodes, Size
<1>2. CASE s # <<>>
  <2>1. head[l] = s[1] /\ Len(s) # 0
    BY <1>2 DEF IsList
  <2>2. /\ Len(s) \in 0 .. Len(s) /\ Size \in Len(s) .. Size
        /\ Len(s) - Len(s) + 1 = 1
    BY <1>0
  <2>3. NodesFrom[Size][s[1]] = SubSeq(s, 1, Len(s))
    BY <2>1, <2>2, WalkOfRest
  <2>4. SubSeq(s, 1, Len(s)) = s
    BY SubSeqFull
  <2> QED
    BY <2>1, <2>3, <2>4 DEF ListNodes, Size
<1> QED
  BY <1>1, <1>2

-----------------------------------------------------------------------------
(* The invariant, for the nodes p[l] of each list l.                       *)

HeapTypes ==
  /\ stage \in {"OFF", "PRE_HEATING", "START"}
  /\ heap \in [Node -> [time : Nat \cup {Junk}, next : Node \cup {NULL, Junk}]]
  /\ used \subseteq Node
  /\ head \in [List -> Node \cup {NULL}]
  /\ pc \in {"none", "create", "delay", "malloc", "fill", "set_head", "walk", "panic"}
  /\ list \in List
  /\ new \in Node \cup {NULL}
  /\ temp \in Node \cup {NULL}
  /\ now \in 0 .. MaxTime

\* The lists have no node in common and only nodes that were allocated, the
\* times in each count from 0, and neither outgrows a roast.
Separate(p) ==
  /\ \A l \in List : IsList(l, p[l])
  /\ \A l \in List : \A i \in 1 .. Len(p[l]) :
       p[l][i] \in used /\ heap[p[l][i]].time = i - 1
  /\ \A i \in 1 .. Len(p["recipe"]), j \in 1 .. Len(p["sensor"]) :
       p["recipe"][i] # p["sensor"][j]
  /\ \A l \in List : Len(p[l]) <= MaxTime + 1

\* A node that is allocated is filled before it is linked, and a pointer that
\* was filled in is one.
Filled ==
  /\ pc \in {"set_head", "walk"} => heap[new] = NewNode
  /\ \A n \in used : ~(n = new /\ pc = "fill") => heap[n].next \in Node \cup {NULL}

\* Until then it is on no list, and the walk is on the one it is to go to.
InHand(p) ==
  /\ pc \in {"fill", "set_head", "walk"} =>
       new \in used /\ \A l \in List : \A i \in 1 .. Len(p[l]) : p[l][i] # new
  /\ pc = "walk" => \E i \in 1 .. Len(p[list]) : temp = p[list][i]

Working == {"malloc", "fill", "set_head", "walk"}

\* torra_task appends to the recipe first, and where it waits the lists are
\* equally long.
InStep(p) ==
  LET recipe == Len(p["recipe"])
      sensor == Len(p["sensor"])
  IN  /\ pc \in {"none", "create", "delay"} => recipe = sensor
      /\ pc = "delay" => recipe = now + 1
      /\ (pc \in Working /\ list = "recipe") => recipe = sensor
      /\ (pc \in Working /\ list = "sensor") => recipe = now + 1
      /\ (pc \in Working /\ now > 0) => sensor = now
      /\ pc = "set_head" => now = 0
      /\ pc = "walk" => now > 0
      /\ pc # "none" => stage = "START"
      /\ stage = "PRE_HEATING" => recipe = 0

RecordingInv(p) ==
  HeapTypes /\ Separate(p) /\ Filled /\ InHand(p) /\ InStep(p)

Lists == [List -> Seq(Node)]

LEMMA ListFacts ==
  /\ "recipe" \in List /\ "sensor" \in List
  /\ \A l \in List : l = "recipe" \/ l = "sensor"
  BY DEF List

-----------------------------------------------------------------------------
(* The steps.                                                              *)

\* Where the walk leads is known from the lists alone: WalkStaysOnList.
LEMMA HeapTypesStep == HeapTypes /\ [Next]_vars /\ ~Walk => HeapTypes'
<1> SUFFICES ASSUME HeapTypes, [Next]_vars, ~Walk PROVE HeapTypes'
  OBVIOUS
<1> USE DEF HeapTypes
<1>1. CASE \/ BeginPreHeating \/ BeginStart \/ CreateTorra \/ CreateTorraFails
           \/ DeleteTraps \/ BeginCooler
  BY <1>1 DEF BeginPreHeating, BeginStart, CreateTorra, CreateTorraFails, DeleteTraps,
     BeginCooler, Empty, List
<1>2. CASE Record \/ Malloc \/ MallocTraps
  BY <1>2 DEF Record, Malloc, MallocTraps, List
<1>3. CASE Fill
  <2>1. NewNode \in [time : Nat \cup {Junk}, next : Node \cup {NULL, Junk}]
    BY DEF NewNode
  <2> QED
    BY <1>3, <2>1 DEF Fill
<1>4. CASE SetHead
  BY <1>4 DEF SetHead, Proceed, List
<1>5. CASE Link
  BY <1>5 DEF Link, Proceed, List
<1>6. CASE Reboot
  BY <1>6 DEF Reboot, Empty, List, Unset
<1>7. CASE UNCHANGED vars
  BY <1>7 DEF vars
<1> QED
  BY <1>1, <1>2, <1>3, <1>4, <1>5, <1>6, <1>7 DEF Next

\* Steps that leave the linked nodes and the heads as they are.
LEMMA FrameKeepsLists ==
  ASSUME NEW p \in Lists, Separate(p), head' = head, used \subseteq used',
         \A l \in List : \A i \in 1 .. Len(p[l]) : heap'[p[l][i]] = heap[p[l][i]]
  PROVE  Separate(p)'
<1>1. ASSUME NEW l \in List PROVE IsList(l, p[l])'
  <2>1. IsList(l, p[l])
    BY DEF Separate
  <2>2. \A i \in 1 .. Len(p[l]) : heap'[p[l][i]] = heap[p[l][i]]
    OBVIOUS
  <2> QED
    BY <2>1, <2>2 DEF IsList
<1>2. ASSUME NEW l \in List, NEW i \in 1 .. Len(p[l])
      PROVE  p[l][i] \in used' /\ heap'[p[l][i]].time = i - 1
  <2>1. p[l][i] \in used /\ heap[p[l][i]].time = i - 1
    BY DEF Separate
  <2> QED
    BY <2>1
<1> QED
  BY <1>1, <1>2 DEF Separate

\* The next node of one on a list is on it too.
LEMMA NextOnList ==
  ASSUME NEW p \in Lists, Separate(p), NEW l \in List, NEW i \in 1 .. Len(p[l])
  PROVE  \/ i = Len(p[l]) /\ heap[p[l][i]].next = NULL
         \/ /\ i + 1 \in 1 .. Len(p[l]) /\ heap[p[l][i]].next = p[l][i + 1]
            /\ p[l][i + 1] \in Node
<1>1. p[l] \in Seq(Node) /\ Len(p[l]) \in Nat
  BY DEF Lists
<1>2. heap[p[l][i]].next = IF i = Len(p[l]) THEN NULL ELSE p[l][i + 1]
  BY DEF Separate, IsList
<1> QED
  BY <1>1, <1>2

LEMMA WalkStaysOnList ==
  ASSUME NEW p \in Lists, RecordingInv(p), Walk
  PROVE  RecordingInv(p)'
<1> USE DEF RecordingInv
<1>1. /\ UNCHANGED <<stage, heap, used, head, pc, list, new, now>>
      /\ pc = "walk" /\ temp' = heap[temp].next /\ heap[temp].next # NULL
  BY DEF Walk
<1>2. PICK i \in 1 .. Len(p[list]) : temp = p[list][i]
  BY <1>1 DEF InHand
<1>3. list \in List
  BY DEF HeapTypes
<1>4. i + 1 \in 1 .. Len(p[list]) /\ temp' = p[list][i + 1] /\ temp' \in Node
  BY <1>1, <1>2, <1>3, NextOnList
<1>5. HeapTypes'
  BY <1>1, <1>4 DEF HeapTypes
<1>6. Separate(p)'
  BY <1>1, FrameKeepsLists
<1>7. Filled'
  BY <1>1 DEF Filled, NewNode
<1>8. InHand(p)'
  BY <1>1, <1>4 DEF InHand
<1>9. InStep(p)'
  BY <1>1 DEF InStep, Working
<1> QED
  BY <1>5, <1>6, <1>7, <1>8, <1>9

\* Steps that change no pointer.
LEMMA StageStep ==
  ASSUME NEW p \in Lists, RecordingInv(p),
         \/ BeginStart \/ CreateTorra \/ CreateTorraFails \/ DeleteTraps
         \/ BeginCooler \/ Record \/ Malloc \/ MallocTraps
  PROVE  RecordingInv(p)'
<1> USE DEF RecordingInv
<1>t. p["recipe"] \in Seq(Node) /\ p["sensor"] \in Seq(Node)
  BY ListFacts DEF Lists
<1>1. HeapTypes'
  BY HeapTypesStep DEF Next, BeginStart, CreateTorra, CreateTorraFails, DeleteTraps,
     BeginCooler, Record, Malloc, MallocTraps, Walk
<1>2. UNCHANGED <<heap, head>> /\ used \subseteq used'
  BY DEF BeginStart, CreateTorra, CreateTorraFails, DeleteTraps, BeginCooler, Record,
     Malloc, MallocTraps
<1>3. Separate(p)'
  BY <1>2, FrameKeepsLists
<1>4. CASE Malloc
  <2>1. PICK n \in Node \ used :
          new' = n /\ used' = used \cup {n} /\ pc = "malloc" /\ pc' = "fill"
    BY <1>4 DEF Malloc
  <2>2. \A l \in List : \A i \in 1 .. Len(p[l]) : p[l][i] # n
    BY <2>1 DEF Separate
  <2>3. Filled' /\ InHand(p)'
    BY <1>2, <2>1, <2>2 DEF Filled, InHand
  <2>4. InStep(p)'
    BY <1>4, <1>t, <2>1 DEF Malloc, InStep, Working
  <2> QED
    BY <1>1, <1>3, <2>3, <2>4
<1>5. CASE ~Malloc
  <2>1. /\ UNCHANGED <<used, new, temp>>
        /\ pc \in {"none", "delay", "create", "malloc"}
        /\ pc' \in {"none", "delay", "create", "malloc", "panic"}
    BY <1>5 DEF BeginStart, CreateTorra, CreateTorraFails, DeleteTraps, BeginCooler,
       Record, MallocTraps
  <2>2. Filled' /\ InHand(p)'
    BY <1>2, <2>1 DEF Filled, InHand
  <2>3. InStep(p)'
    <3>1. CASE BeginStart \/ CreateTorraFails \/ DeleteTraps \/ BeginCooler
      BY <1>t, <3>1 DEF BeginStart, CreateTorraFails, DeleteTraps, BeginCooler, InStep,
         Working
    <3>2. CASE CreateTorra \/ Record
      BY <1>t, <3>2 DEF CreateTorra, Record, InStep, Working, HeapTypes
    <3>3. CASE MallocTraps
      BY <1>t, <3>3 DEF MallocTraps, InStep, Working
    <3> QED
      BY <1>5, <3>1, <3>2, <3>3
  <2> QED
    BY <1>1, <1>3, <2>2, <2>3
<1> QED
  BY <1>4, <1>5

LEMMA FillStep ==
  ASSUME NEW p \in Lists, RecordingInv(p), Fill
  PROVE  RecordingInv(p)'
<1> USE DEF RecordingInv
<1>t. p["recipe"] \in Seq(Node) /\ p["sensor"] \in Seq(Node)
  BY ListFacts DEF Lists
<1>1. /\ pc = "fill" /\ heap' = [heap EXCEPT ![new] = NewNode]
      /\ UNCHANGED <<stage, used, head, list, new, now>>
      /\ IF now = 0 THEN pc' = "set_head" ELSE pc' = "walk" /\ temp' = head[list]
  BY DEF Fill
<1>2. /\ new \in used /\ new \in Node /\ NewNode.next = NULL
      /\ \A l \in List : \A i \in 1 .. Len(p[l]) : p[l][i] # new /\ p[l][i] \in Node
  BY <1>1 DEF InHand, HeapTypes, NewNode, Lists
<1>3. HeapTypes'
  BY <1>1, HeapTypesStep DEF Next, Walk
<1>4. heap'[new] = NewNode /\ \A n \in Node \ {new} : heap'[n] = heap[n]
  BY <1>1, <1>2 DEF HeapTypes
<1>5. Separate(p)'
  BY <1>1, <1>2, <1>4, FrameKeepsLists
<1>6. Filled'
  <2>1. NewNode' = NewNode
    BY <1>1 DEF NewNode
  <2>2. \A n \in used : n \in Node
    BY DEF HeapTypes
  <2> QED
    BY <1>1, <1>2, <1>4, <2>1, <2>2 DEF Filled
<1>7. InHand(p)'
  <2>1. CASE now = 0
    BY <1>1, <1>2, <2>1 DEF InHand
  <2>2. CASE now # 0
    <3>1. /\ now \in Nat /\ list \in List /\ p[list] \in Seq(Node)
          /\ head[list] = IF p[list] = <<>> THEN NULL ELSE p[list][1]
      BY DEF HeapTypes, Separate, IsList, Lists
    <3>2. Len(p[list]) > 0
      BY <1>1, <1>t, <2>2, <3>1 DEF InStep, Working, List
    <3>3. 1 \in 1 .. Len(p[list]) /\ temp' = p[list][1]
      BY <1>1, <2>2, <3>1, <3>2
    <3> QED
      BY <1>1, <1>2, <2>2, <3>3 DEF InHand
  <2> QED
    BY <2>1, <2>2
<1>8. InStep(p)'
  BY <1>1, <1>t DEF InStep, Working, HeapTypes
<1> QED
  BY <1>3, <1>5, <1>6, <1>7, <1>8

\* The record is empty.
NoNodes == [l \in List |-> <<>>]

LEMMA NoNodesFacts ==
  NoNodes \in Lists /\ \A l \in List : NoNodes[l] = <<>> /\ Len(NoNodes[l]) = 0
  BY DEF NoNodes, Lists

LEMMA ClearStep ==
  ASSUME NEW p \in Lists, RecordingInv(p), BeginPreHeating \/ Reboot
  PROVE  RecordingInv(NoNodes)'
<1> USE DEF RecordingInv
<1>1. HeapTypes'
  BY HeapTypesStep DEF Next, BeginPreHeating, Reboot, Walk, InStep
<1>2. head' = [l \in List |-> NULL] /\ pc' = "none" /\ stage' \in {"OFF", "PRE_HEATING"}
  BY DEF BeginPreHeating, Reboot, Empty, InStep
<1>3. Separate(NoNodes)'
  <2>1. \A l \in List : IsList(l, NoNodes[l])'
    BY <1>2, NoNodesFacts DEF IsList
  <2> QED
    BY <2>1, NoNodesFacts, ListFacts DEF Separate
<1>4. Filled'
  BY <1>2 DEF BeginPreHeating, Reboot, Filled
<1>5. InHand(NoNodes)' /\ InStep(NoNodes)'
  BY <1>2, NoNodesFacts, ListFacts DEF InHand, InStep, Working
<1> QED
  BY <1>1, <1>3, <1>4, <1>5

LEMMA SetHeadStep ==
  ASSUME NEW p \in Lists, RecordingInv(p), SetHead,
         NEW q \in Lists, q = [p EXCEPT ![list] = <<new>>]
  PROVE  RecordingInv(q)'
<1> USE DEF RecordingInv
<1>l. list \in List
  BY DEF HeapTypes
<1>t. p["recipe"] \in Seq(Node) /\ p["sensor"] \in Seq(Node)
  BY ListFacts DEF Lists
<1>1. /\ pc = "set_head" /\ head' = [head EXCEPT ![list] = new]
      /\ UNCHANGED <<stage, heap, used, new, temp, now>>
      /\ IF list = "recipe" THEN pc' = "malloc" /\ list' = "sensor"
         ELSE pc' = "delay" /\ UNCHANGED list
  BY DEF SetHead, Proceed
<1>2. /\ new \in used /\ heap[new] = NewNode /\ now = 0
      /\ \A l \in List : \A i \in 1 .. Len(p[l]) : p[l][i] # new
  BY <1>1 DEF InHand, Filled, InStep
<1>q. /\ q[list] = <<new>> /\ Len(q[list]) = 1 /\ q[list][1] = new
      /\ \A l \in List \ {list} : q[l] = p[l]
  BY <1>l DEF Lists
<1>3. HeapTypes'
  BY <1>1, HeapTypesStep DEF Next, Walk
<1>4. ASSUME NEW l \in List PROVE IsList(l, q[l])'
  <2>1. CASE l = list
    <3>1. head'[l] = new /\ heap'[new].next = NULL
      BY <1>1, <1>2, <2>1 DEF HeapTypes, NewNode
    <3> QED
      BY <1>q, <2>1, <3>1 DEF IsList
  <2>2. CASE l # list
    <3>1. head'[l] = head[l] /\ q[l] = p[l] /\ IsList(l, p[l])
      BY <1>1, <1>q, <2>2 DEF HeapTypes, Separate
    <3> QED
      BY <1>1, <3>1 DEF IsList
  <2> QED
    BY <2>1, <2>2
<1>5. ASSUME NEW l \in List
      PROVE  /\ Len(q[l]) <= MaxTime + 1
             /\ \A i \in 1 .. Len(q[l]) : q[l][i] \in used /\ heap[q[l][i]].time = i - 1
  <2>1. CASE l = list
    BY <1>2, <1>q, <2>1 DEF NewNode
  <2>2. CASE l # list
    BY <1>q, <2>2 DEF Separate
  <2> QED
    BY <2>1, <2>2
<1>6. \A i \in 1 .. Len(q["recipe"]), j \in 1 .. Len(q["sensor"]) :
        q["recipe"][i] # q["sensor"][j]
  BY <1>2, <1>l, <1>q, ListFacts
<1>7. Separate(q)'
  BY <1>1, <1>4, <1>5, <1>6 DEF Separate
<1>8. Filled' /\ InHand(q)'
  BY <1>1 DEF Filled, InHand
<1>9. InStep(q)'
  <2>1. CASE list = "recipe"
    <3>1. Len(q["recipe"]) = 1 /\ q["sensor"] = p["sensor"]
      BY <1>q, <2>1, ListFacts
    <3> QED
      BY <1>1, <1>2, <2>1, <3>1 DEF InStep, Working
  <2>2. CASE list = "sensor"
    <3>1. Len(q["sensor"]) = 1 /\ q["recipe"] = p["recipe"]
      BY <1>q, <2>2, ListFacts
    <3>2. Len(p["recipe"]) = 1 /\ stage = "START"
      BY <1>1, <1>2, <2>2 DEF InStep, Working
    <3>3. pc' = "delay" /\ now' = 0 /\ stage' = "START"
      BY <1>1, <1>2, <2>2, <3>2
    <3>4. Len(q["recipe"]) = 1
      BY <3>1, <3>2
    <3> QED
      BY ONLY <3>1, <3>3, <3>4 DEF InStep, Working
  <2> QED
    BY <1>l, <2>1, <2>2, ListFacts
<1> QED
  BY <1>3, <1>7, <1>8, <1>9

LEMMA LinkStep ==
  ASSUME NEW p \in Lists, RecordingInv(p), Link,
         NEW q \in Lists, q = [p EXCEPT ![list] = Append(p[list], new)]
  PROVE  RecordingInv(q)' /\ Len(p[list]) = now
<1> USE DEF RecordingInv
<1> DEFINE s == p[list]
           n == Len(s)
<1>l. list \in List
  BY DEF HeapTypes
<1>t. /\ p["recipe"] \in Seq(Node) /\ p["sensor"] \in Seq(Node)
      /\ s \in Seq(Node) /\ n \in Nat
  BY <1>l, ListFacts DEF Lists
<1>1. /\ pc = "walk" /\ heap[temp].next = NULL
      /\ heap' = [heap EXCEPT ![temp].next = new]
      /\ UNCHANGED <<stage, used, head, new, temp, now>>
      /\ IF list = "recipe" THEN pc' = "malloc" /\ list' = "sensor"
         ELSE pc' = "delay" /\ UNCHANGED list
  BY DEF Link, LastReached, Proceed
<1>2. /\ new \in used /\ new \in Node /\ heap[new] = NewNode
      /\ now \in 1 .. MaxTime
      /\ \A l \in List : \A i \in 1 .. Len(p[l]) : p[l][i] # new
  BY <1>1 DEF HeapTypes, InHand, Filled, InStep
<1>n. n = now
  BY <1>1, <1>l, <1>t, <1>2, ListFacts DEF InStep, Working
\* The walk has come to the end of the list.
<1>e. n \in 1 .. n /\ temp = s[n] /\ temp \in Node
  <2>1. PICK i \in 1 .. n : temp = s[i]
    BY <1>1 DEF InHand
  <2>2. i = n
    <3>1. \/ i = n
          \/ heap[temp].next \in Node
      BY <1>l, <2>1, NextOnList
    <3> QED
      BY <1>1, <3>1
  <2> QED
    BY <1>t, <2>1, <2>2
<1>q. /\ Len(q[list]) = n + 1 /\ q[list][n + 1] = new
      /\ \A i \in 1 .. n : q[list][i] = s[i]
      /\ \A l \in List \ {list} : q[l] = p[l]
  BY <1>2, <1>l, <1>t DEF Lists
<1>h. /\ heap'[temp].next = new /\ heap'[temp].time = heap[temp].time
      /\ \A m \in Node \ {temp} : heap'[m] = heap[m]
  BY <1>1, <1>e DEF HeapTypes
<1>s. IsList(list, s)
  BY <1>l DEF Separate
<1>3. HeapTypes'
  BY <1>1, HeapTypesStep DEF Next, Walk, LastReached
<1>m. heap'[new].next = NULL /\ heap'[new].time = n
  <2>1. new # temp
    BY <1>2, <1>e, <1>l
  <2> QED
    BY <1>2, <1>h, <1>n, <2>1 DEF NewNode
<1>j. \A i, j \in 1 .. n : s[i] = s[j] => i = j
  BY <1>s DEF IsList
\* The nodes before the last one stay as they are.
<1>b. \A i \in 1 .. n : i # n => s[i] \in Node \ {temp} /\ heap'[s[i]] = heap[s[i]]
  <2> SUFFICES ASSUME NEW i \in 1 .. n, i # n
               PROVE  s[i] \in Node \ {temp} /\ heap'[s[i]] = heap[s[i]]
    OBVIOUS
  <2>1. s[i] # s[n] /\ s[i] \in Node
    BY <1>e, <1>j, <1>t
  <2> QED
    BY <1>e, <1>h, <2>1
\* The other list is not touched.
<1>o. \A l \in List \ {list} : \A i \in 1 .. Len(p[l]) :
        p[l][i] \in Node \ {temp} /\ heap'[p[l][i]] = heap[p[l][i]]
  <2> SUFFICES ASSUME NEW l \in List \ {list}, NEW i \in 1 .. Len(p[l])
               PROVE  p[l][i] \in Node \ {temp} /\ heap'[p[l][i]] = heap[p[l][i]]
    OBVIOUS
  <2>1. p[l][i] # s[n]
    BY <1>e, <1>l, ListFacts DEF Separate
  <2>2. p[l][i] \in Node
    BY DEF Lists
  <2> QED
    BY <1>e, <1>h, <2>1, <2>2
<1>4. ASSUME NEW l \in List PROVE IsList(l, q[l])'
  <2>1. CASE l = list
    <3>1. q[l] # <<>> /\ q[l][1] = s[1] /\ s # <<>>
      BY <1>e, <1>q, <1>t, <2>1
    <3>2. head'[l] = q[l][1]
      BY <1>1, <1>s, <2>1, <3>1 DEF IsList
    <3>3. ASSUME NEW i \in 1 .. n + 1
          PROVE  heap'[q[l][i]].next = IF i = n + 1 THEN NULL ELSE q[l][i + 1]
      <4>1. CASE i = n + 1
        BY <1>m, <1>q, <2>1, <4>1
      <4>2. CASE i = n
        BY <1>e, <1>h, <1>q, <2>1, <4>2
      <4>3. CASE i # n /\ i # n + 1
        <5>1. i \in 1 .. n /\ i + 1 \in 1 .. n
          BY <1>t, <4>3
        <5>2. heap[s[i]].next = s[i + 1]
          BY <1>s, <4>3, <5>1 DEF IsList
        <5> QED
          BY <1>b, <1>q, <1>t, <2>1, <4>3, <5>1, <5>2
      <4> QED
        BY <4>1, <4>2, <4>3
    <3>4. ASSUME NEW i \in 1 .. n + 1, NEW j \in 1 .. n + 1, q[l][i] = q[l][j]
          PROVE  i = j
      <4>1. \A k \in 1 .. n : q[l][k] # new
        BY <1>2, <1>l, <1>q, <2>1
      <4>2. CASE i = n + 1 \/ j = n + 1
        BY <1>q, <1>t, <2>1, <3>4, <4>1, <4>2
      <4>3. CASE i \in 1 .. n /\ j \in 1 .. n
        BY <1>q, <1>s, <2>1, <3>4, <4>3 DEF IsList
      <4> QED
        BY <1>t, <4>2, <4>3
    <3> QED
      BY <1>q, <2>1, <3>1, <3>2, <3>3, <3>4 DEF IsList
  <2>2. CASE l # list
    <3>1. head'[l] = head[l] /\ q[l] = p[l] /\ IsList(l, p[l])
      BY <1>1, <1>q, <2>2 DEF Separate
    <3>2. \A i \in 1 .. Len(p[l]) : heap'[p[l][i]] = heap[p[l][i]]
      BY <1>o, <2>2
    <3>3. IsList(l, p[l])'
      BY <3>1, <3>2 DEF IsList
    <3> QED
      BY <3>1, <3>3
  <2> QED
    BY <2>1, <2>2
<1>5. ASSUME NEW l \in List
      PROVE  /\ Len(q[l]) <= MaxTime + 1
             /\ \A i \in 1 .. Len(q[l]) : q[l][i] \in used /\ heap'[q[l][i]].time = i - 1
  <2>1. CASE l = list
    <3>1. \A i \in 1 .. n : s[i] \in used /\ heap[s[i]].time = i - 1
      BY <1>l DEF Separate
    <3>2. \A i \in 1 .. n : heap'[s[i]].time = heap[s[i]].time
      BY <1>b, <1>e, <1>h
    <3>3. \A i \in 1 .. n + 1 : i \in 1 .. n \/ i = n + 1
      BY <1>t
    <3> QED
      BY <1>2, <1>m, <1>n, <1>q, <2>1, <3>1, <3>2, <3>3
  <2>2. CASE l # list
    BY <1>o, <1>q, <2>2 DEF Separate
  <2> QED
    BY <2>1, <2>2
<1>6. \A i \in 1 .. Len(q["recipe"]), j \in 1 .. Len(q["sensor"]) :
        q["recipe"][i] # q["sensor"][j]
  <2>1. \A l \in List : \A i \in 1 .. Len(q[l]) :
          \/ i \in 1 .. Len(p[l]) /\ q[l][i] = p[l][i]
          \/ l = list /\ q[l][i] = new
    <3> SUFFICES ASSUME NEW l \in List, NEW i \in 1 .. Len(q[l])
                 PROVE  \/ i \in 1 .. Len(p[l]) /\ q[l][i] = p[l][i]
                        \/ l = list /\ q[l][i] = new
      OBVIOUS
    <3>1. CASE l = list
      BY <1>q, <1>t, <3>1
    <3>2. CASE l # list
      BY <1>q, <3>2
    <3> QED
      BY <3>1, <3>2
  <2>2. list = "recipe" => q["sensor"] = p["sensor"]
    BY <1>q, ListFacts
  <2>3. list = "sensor" => q["recipe"] = p["recipe"]
    BY <1>q, ListFacts
  <2>4. \A i \in 1 .. Len(p["recipe"]), j \in 1 .. Len(p["sensor"]) :
          p["recipe"][i] # p["sensor"][j]
    BY DEF Separate
  <2> QED
    BY <1>2, <1>l, <2>1, <2>2, <2>3, <2>4, ListFacts
<1>7. Separate(q)'
  BY <1>1, <1>4, <1>5, <1>6 DEF Separate
<1>8. Filled' /\ InHand(q)'
  <2>1. \A m \in used : heap[m].next \in Node \cup {NULL}
    BY <1>1 DEF Filled
  <2>2. \A m \in used : heap'[m].next \in Node \cup {NULL}
    BY <1>2, <1>h, <2>1 DEF HeapTypes
  <2> QED
    BY <1>1, <2>2 DEF Filled, InHand
<1>9. InStep(q)'
  BY <1>1, <1>2, <1>l, <1>n, <1>q, <1>t, ListFacts DEF InStep, Working
<1> QED
  BY <1>3, <1>7, <1>8, <1>9, <1>n

-----------------------------------------------------------------------------
(* What is seen of the lists.                                              *)

\* 0 .. n - 1, as the times of n nodes.
Times(n) == [i \in 1 .. n |-> i - 1]

\* No ASSUME, so that it can be cited of the next state as well.
LEMMA SeenOfLists ==
  \A p \in Lists : RecordingInv(p) =>
    \A l \in List : ListNodes(l) = p[l] /\ ReadList(l) = Times(Len(p[l]))
<1> SUFFICES ASSUME NEW p \in Lists, RecordingInv(p), NEW l \in List
             PROVE  ListNodes(l) = p[l] /\ ReadList(l) = Times(Len(p[l]))
  OBVIOUS
<1>1. p[l] \in Seq(Node) /\ IsList(l, p[l])
  BY DEF RecordingInv, Separate, Lists
<1>2. ListNodes(l) = p[l]
  BY <1>1, ListIsSeen
<1>3. \A i \in 1 .. Len(p[l]) : heap[p[l][i]].time = i - 1
  BY DEF RecordingInv, Separate
<1>4. DOMAIN p[l] = 1 .. Len(p[l])
  BY <1>1
<1> QED
  BY <1>2, <1>3, <1>4 DEF ReadList, Times

\* What a step does to the lengths of the lists.
Grows(p, q) ==
  LET recipe == Len(p["recipe"])
      sensor == Len(p["sensor"])
      recipe2 == Len(q["recipe"])
      sensor2 == Len(q["sensor"])
  IN  \/ recipe2 = recipe /\ sensor2 = sensor
      \/ recipe2 = 0 /\ sensor2 = 0
      \/ recipe2 = 1 /\ sensor2 = sensor /\ recipe = sensor
      \/ recipe2 = 1 /\ sensor2 = 1 /\ recipe = 1
      \/ recipe2 = recipe + 1 /\ sensor2 = sensor /\ recipe = sensor /\ recipe > 0
      \/ recipe2 = recipe /\ sensor2 = recipe /\ recipe = sensor + 1

LEMMA UnchangedStep ==
  ASSUME NEW p \in Lists, RecordingInv(p), UNCHANGED vars
  PROVE  RecordingInv(p)'
  BY DEF vars, RecordingInv, HeapTypes, Separate, IsList, Filled, NewNode, InHand, InStep

LEMMA RecordingStep ==
  ASSUME NEW p \in Lists, RecordingInv(p), [Next]_vars
  PROVE  \E q \in Lists : RecordingInv(q)' /\ Grows(p, q)
<1>t. p["recipe"] \in Seq(Node) /\ p["sensor"] \in Seq(Node)
  BY ListFacts DEF Lists
<1>l. list \in List /\ new \in Node \cup {NULL}
  BY DEF RecordingInv, HeapTypes
<1>1. ASSUME RecordingInv(p)' PROVE \E q \in Lists : RecordingInv(q)' /\ Grows(p, q)
  BY <1>1 DEF Grows
<1>2. CASE BeginPreHeating \/ Reboot
  <2>1. RecordingInv(NoNodes)'
    BY <1>2, ClearStep
  <2> QED
    BY <2>1, NoNodesFacts, ListFacts DEF Grows
<1>3. CASE \/ BeginStart \/ CreateTorra \/ CreateTorraFails \/ DeleteTraps
           \/ BeginCooler \/ Record \/ Malloc \/ MallocTraps
  BY <1>1, <1>3, StageStep
<1>4. CASE Fill
  BY <1>1, <1>4, FillStep
<1>5. CASE Walk
  BY <1>1, <1>5, WalkStaysOnList
<1>6. CASE SetHead
  <2>1. pc = "set_head" /\ new \in Node
    BY <1>6 DEF SetHead, RecordingInv, InHand, HeapTypes
  <2>2. <<new>> \in Seq(Node)
    BY <2>1
  <2>3. PICK q \in Lists : q = [p EXCEPT ![list] = <<new>>]
    BY <2>2 DEF Lists
  <2>4. RecordingInv(q)'
    BY <1>6, <2>3, SetHeadStep
  <2>5. CASE list = "recipe"
    <3>1. Len(q["recipe"]) = 1 /\ q["sensor"] = p["sensor"]
      BY <2>3, <2>5, ListFacts DEF Lists
    <3>2. Len(p["recipe"]) = Len(p["sensor"])
      BY <2>1, <2>5 DEF RecordingInv, InStep, Working
    <3> QED
      BY <2>4, <3>1, <3>2 DEF Grows
  <2>6. CASE list = "sensor"
    <3>1. Len(q["sensor"]) = 1 /\ q["recipe"] = p["recipe"]
      BY <2>3, <2>6, ListFacts DEF Lists
    <3>2. Len(p["recipe"]) = 1
      BY <2>1, <2>6 DEF RecordingInv, InStep, Working
    <3> QED
      BY <2>4, <3>1, <3>2 DEF Grows
  <2> QED
    BY <1>l, <2>5, <2>6, ListFacts
<1>7. CASE Link
  <2>1. pc = "walk" /\ new \in Node
    BY <1>7 DEF Link, RecordingInv, InHand, HeapTypes
  <2>2. Append(p[list], new) \in Seq(Node)
    BY <1>l, <2>1 DEF Lists
  <2>3. PICK q \in Lists : q = [p EXCEPT ![list] = Append(p[list], new)]
    BY <2>2 DEF Lists
  <2>4. RecordingInv(q)' /\ Len(p[list]) = now
    BY <1>7, <2>3, LinkStep
  <2>5. now \in Nat /\ now > 0
    BY <2>1 DEF RecordingInv, HeapTypes, InStep
  <2>6. CASE list = "recipe"
    <3>1. Len(q["recipe"]) = Len(p["recipe"]) + 1 /\ q["sensor"] = p["sensor"]
      BY <1>t, <2>1, <2>3, <2>6, ListFacts DEF Lists
    <3>2. Len(p["recipe"]) = Len(p["sensor"])
      BY <2>1, <2>6 DEF RecordingInv, InStep, Working
    <3> QED
      BY <2>4, <2>5, <2>6, <3>1, <3>2 DEF Grows
  <2>7. CASE list = "sensor"
    <3>1. Len(q["sensor"]) = Len(p["sensor"]) + 1 /\ q["recipe"] = p["recipe"]
      BY <1>t, <2>1, <2>3, <2>7, ListFacts DEF Lists
    <3>2. Len(p["recipe"]) = now + 1
      BY <2>1, <2>7 DEF RecordingInv, InStep, Working
    <3> QED
      BY <2>4, <2>5, <2>7, <3>1, <3>2 DEF Grows
  <2> QED
    BY <1>l, <2>6, <2>7, ListFacts
<1>8. CASE UNCHANGED vars
  BY <1>1, <1>8, UnchangedStep
<1> QED
  BY <1>2, <1>3, <1>4, <1>5, <1>6, <1>7, <1>8 DEF Next

SomeLists == \E p \in Lists : RecordingInv(p)

LEMMA RecordingInit == Init => RecordingInv(NoNodes)
<1> SUFFICES ASSUME Init PROVE RecordingInv(NoNodes)
  OBVIOUS
<1> USE DEF Init
<1>1. HeapTypes
  BY DEF HeapTypes, Empty, List, Unset
<1>2. Separate(NoNodes)
  <2>1. \A l \in List : IsList(l, NoNodes[l])
    BY NoNodesFacts DEF IsList, Empty
  <2> QED
    BY <2>1, NoNodesFacts, ListFacts DEF Separate
<1>3. Filled /\ InHand(NoNodes) /\ InStep(NoNodes)
  BY NoNodesFacts, ListFacts DEF Filled, InHand, InStep, Working
<1> QED
  BY <1>1, <1>2, <1>3 DEF RecordingInv

LEMMA RecordingHolds == Spec => []SomeLists
<1>1. Init => SomeLists
  BY RecordingInit, NoNodesFacts DEF SomeLists
<1>2. SomeLists /\ [Next]_vars => SomeLists'
  BY RecordingStep DEF SomeLists
<1> QED
  BY <1>1, <1>2, PTL DEF Spec

-----------------------------------------------------------------------------
(* Theorems.                                                               *)

\* Wherever torra_task is interrupted, a walk along a list, the draw task's or
\* its own, meets only nodes that are filled and ends at a null pointer, on a
\* heap of any size (components.c:146,180; controller.c:415,448).
THEOREM WalksComeToAnEnd == Spec => []WalksEnd
<1>1. SomeLists => WalksEnd
  <2> SUFFICES ASSUME NEW p \in Lists, RecordingInv(p) PROVE WalksEnd
    BY DEF SomeLists
  <2>1. \A l \in List : ListNodes(l) = p[l]
    BY SeenOfLists
  <2>2. \A n \in used : ~(n = new /\ pc = "fill") => heap[n].next \in Node \cup {NULL}
    BY DEF RecordingInv, Filled
  <2>3. ASSUME NEW l \in List
        PROVE  IF p[l] = <<>> THEN head[l] = NULL
               ELSE heap[p[l][Len(p[l])]].next = NULL
    <3>1. IsList(l, p[l]) /\ p[l] \in Seq(Node)
      BY DEF RecordingInv, Separate, Lists
    <3> QED
      BY <3>1 DEF IsList
  <2>4. pc = "walk" => \E i \in DOMAIN p[list] : temp = p[list][i]
    BY DEF RecordingInv, InHand, HeapTypes, Lists
  <2>5. list \in List
    BY DEF RecordingInv, HeapTypes
  <2> QED
    BY <2>1, <2>2, <2>3, <2>4, <2>5 DEF WalksEnd
<1> QED
  BY <1>1, RecordingHolds, PTL

\* Whenever the controller can delete torra_task, the lists have the same
\* times, even if START is repeated (controller.c:145 against 317-318).
THEOREM DeletedWhileInStep == Spec => []DeletedInStep
<1>1. SomeLists => DeletedInStep
  <2> SUFFICES ASSUME NEW p \in Lists, RecordingInv(p), pc = "delay"
               PROVE  ReadList("recipe") = ReadList("sensor")
    BY DEF SomeLists, DeletedInStep
  <2>1. Len(p["recipe"]) = Len(p["sensor"])
    BY DEF RecordingInv, InStep
  <2> QED
    BY <2>1, SeenOfLists, ListFacts
<1> QED
  BY <1>1, RecordingHolds, PTL
-----------------------------------------------------------------------------
(* The record implements RecordLog.                                        *)

LEMMA SeenNext ==
  (\A p \in Lists : RecordingInv(p) =>
     \A l \in List : ListNodes(l) = p[l] /\ ReadList(l) = Times(Len(p[l])))'
  BY SeenOfLists, PTL

LEMMA TimesFacts ==
  /\ Times(0) = <<>>
  /\ Times(1) = <<0>>
  /\ \A n \in Nat : Times(n) \in Seq(Nat) /\ Len(Times(n)) = n
  /\ \A n \in Nat : Times(n + 1) = Append(Times(n), n)
<1>1. ASSUME NEW n \in Nat PROVE Times(n) \in Seq(Nat) /\ Len(Times(n)) = n
  BY DEF Times
<1>2. ASSUME NEW n \in Nat PROVE Times(n + 1) = Append(Times(n), n)
  BY DEF Times
<1>3. Times(0) = <<>>
  BY DEF Times
<1>4. Times(1) = <<0>>
  BY DEF Times
<1> QED
  BY <1>1, <1>2, <1>3, <1>4

\* The last entry of a log of n + 1 is n, and before it comes one of n.
LEMMA LastOfTimes ==
  ASSUME NEW n \in Nat
  PROVE  /\ Log!Last(Times(n + 1)) = n
         /\ Log!Front(Times(n + 1)) = Times(n)
         /\ Times(n + 1) # Times(n)
         /\ Times(n + 1) # <<>>
<1>1. /\ Times(n) \in Seq(Nat) /\ Len(Times(n)) = n
      /\ Times(n + 1) = Append(Times(n), n) /\ Len(Times(n + 1)) = n + 1
  <2>1. n + 1 \in Nat
    OBVIOUS
  <2>2. Len(Times(n + 1)) = n + 1
    BY <2>1, TimesFacts, Zenon
  <2> QED
    BY <2>2, TimesFacts, Zenon
<1>2. Log!Last(Times(n + 1)) = n
  BY <1>1 DEF Log!Last
<1>3. Log!Front(Times(n + 1)) = Times(n)
  BY <1>1 DEF Log!Front
<1> QED
  BY <1>1, <1>2, <1>3

\* Walked at any moment, the lists are the two logs of RecordLog: on a heap of
\* any size, and however often START and PRE_HEATING are repeated, a step of
\* the program is one of the logs' or changes nothing that a walk would see. A
\* repeated START is one of theirs: it begins the logs anew, the recipe's first
\* (controller.c:287-288,317-318,398-453 against components.c:145-182).
THEOREM RecordIsLog == Spec => RecordProtocol
<1>1. Init => Log!LogInit
  <2> SUFFICES ASSUME Init PROVE ReadList("recipe") = <<>> /\ ReadList("sensor") = <<>>
    BY DEF Log!LogInit
  <2>1. \A l \in List : ReadList(l) = Times(Len(NoNodes[l]))
    BY RecordingInit, NoNodesFacts, SeenOfLists
  <2> QED
    BY <2>1, NoNodesFacts, TimesFacts, ListFacts
<1>2. SomeLists /\ [Next]_vars => [Log!LogNext]_(Log!logVars)
  <2> SUFFICES ASSUME SomeLists, [Next]_vars PROVE [Log!LogNext]_(Log!logVars)
    OBVIOUS
  <2>1. PICK p \in Lists : RecordingInv(p)
    BY DEF SomeLists
  <2>2. PICK q \in Lists : RecordingInv(q)' /\ Grows(p, q)
    BY <2>1, RecordingStep
  <2> DEFINE r == Len(p["recipe"])
             s == Len(p["sensor"])
             r2 == Len(q["recipe"])
             s2 == Len(q["sensor"])
  <2>3. r \in Nat /\ s \in Nat /\ r2 \in Nat /\ s2 \in Nat
    BY ListFacts DEF Lists
  <2>4. ReadList("recipe") = Times(r) /\ ReadList("sensor") = Times(s)
    BY <2>1, SeenOfLists, ListFacts
  <2>5. ReadList("recipe")' = Times(r2) /\ ReadList("sensor")' = Times(s2)
    BY <2>2, SeenNext, ListFacts
  <2>6. \/ r2 = r /\ s2 = s
        \/ r2 = 0 /\ s2 = 0
        \/ r2 = 1 /\ s2 = s /\ r = s
        \/ r2 = 1 /\ s2 = 1 /\ r = 1
        \/ r2 = r + 1 /\ s2 = s /\ r = s /\ r > 0
        \/ r2 = r /\ s2 = r /\ r = s + 1
    BY <2>2 DEF Grows
  <2> HIDE DEF r, s, r2, s2
  <2>a. CASE r2 = r /\ s2 = s
    BY <2>a, <2>4, <2>5 DEF Log!logVars
  <2>b. CASE r2 = 0 /\ s2 = 0
    BY <2>b, <2>5, TimesFacts DEF Log!LogNext, Log!Clear
  <2>c. CASE r2 = 1 /\ s2 = s /\ r = s
    BY <2>c, <2>4, <2>5, TimesFacts DEF Log!LogNext, Log!BeginRecipe
  <2>d. CASE r2 = 1 /\ s2 = 1 /\ r = 1
    BY <2>d, <2>4, <2>5, TimesFacts DEF Log!LogNext, Log!BeginSensor
  <2>e. CASE r2 = r + 1 /\ s2 = s /\ r = s /\ r > 0
    <3>1. r - 1 \in Nat /\ (r - 1) + 1 = r
      BY <2>3, <2>e
    <3>2. Log!Last(Times(r)) = r - 1 /\ Times(r) # <<>>
      BY <3>1, LastOfTimes
    <3>3. /\ Log!Last(Times(r + 1)) = r
          /\ Log!Front(Times(r + 1)) = Times(r)
          /\ Times(r + 1) # <<>>
      BY <2>3, LastOfTimes
    <3>4. r > r - 1
      BY <2>3
    <3> QED
      BY <2>4, <2>5, <2>e, <3>2, <3>3, <3>4 DEF Log!LogNext, Log!AppendRecipe
  <2>f. CASE r2 = r /\ s2 = r /\ r = s + 1
    <3>1. Log!Last(Times(r)) = s /\ Times(s) # Times(r)
      BY <2>3, <2>f, LastOfTimes
    <3>2. Times(r) = Append(Times(s), s)
      BY <2>3, <2>f, TimesFacts
    <3> QED
      BY <2>4, <2>5, <2>f, <3>1, <3>2 DEF Log!LogNext, Log!AppendSensor
  <2> QED
    BY <2>6, <2>a, <2>b, <2>c, <2>d, <2>e, <2>f
<1> QED
  BY <1>1, <1>2, RecordingHolds, PTL DEF Spec, RecordProtocol, Log!LogSpec
=============================================================================
