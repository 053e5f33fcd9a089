--------------------------- MODULE SamplingProofs ---------------------------
(***************************************************************************)
(* The range of the temperatures, for every range of the ADC and whenever  *)
(* torra_task looks back.                                                  *)
(***************************************************************************)
EXTENDS Sampling, TLAPS

USE SampleAssumption DEF SampleAssumption

\* Division of a sum by the number of its samples rounds down.
LEMMA AverageFacts ==
  ASSUME NEW x \in Nat
  PROVE  /\ x \div PerAverage \in Nat
         /\ PerAverage * (x \div PerAverage) <= x
         /\ x < PerAverage * (x \div PerAverage) + PerAverage
  BY DEF PerAverage

\* What the ADC may return.
LEMMA SampleFacts ==
  \A s \in Samples : s \in Nat /\ MinSample <= s /\ s <= MaxSample
OBVIOUS

\* One more sample.
LEMMA OneMore ==
  ASSUME NEW k \in Nat, NEW m \in Nat
  PROVE  k * m \in Nat /\ (k + 1) * m = k * m + m
  OBVIOUS

\* A sum of torra_task holds sample_counter samples and at most 10/9 of the
\* largest one, a sum of pre_heating_task the samples alone.
SumsInRange ==
  /\ stage = "PRE_HEATING" =>
       /\ sample_counter * MinSample <= reading["grao"]
       /\ reading["grao"] <= sample_counter * MaxSample
  /\ stage = "START" =>
       \A c \in Channel :
         /\ sample_counter * MinSample <= reading[c]
         /\ 9 * reading[c] <= 9 * (sample_counter * MaxSample) + 10 * MaxSample

SamplingInv == TypeOK /\ SumsInRange /\ ReadingsInRange

LEMMA SamplingInit == Init => SamplingInv
  BY DEF Init, Zero, SamplingInv, TypeOK, SumsInRange, ReadingsInRange, PerAverage

LEMMA FreshSums ==
  ASSUME FreshTask PROVE SumsInRange'
<1>1. sample_counter' = 0 /\ \A c \in Channel : reading'[c] = 0
  BY DEF FreshTask, Zero
<1> QED
  BY <1>1 DEF SumsInRange

LEMMA PreHeatingStep == SamplingInv /\ PreHeatingSample => SamplingInv'
<1> SUFFICES ASSUME SamplingInv, PreHeatingSample PROVE SamplingInv'
  OBVIOUS
<1> USE DEF SamplingInv
<1>1. PICK v \in Samples :
        LET sum == reading["grao"] + v
        IN  \/ /\ AverageDue
               /\ read_temp' = [read_temp EXCEPT !["grao"] = sum \div PerAverage]
               /\ pre_heating_temp' = sum \div PerAverage
               /\ sample_counter' = 0
               /\ ResetSum(sum)
            \/ /\ ~AverageDue
               /\ reading' = [reading EXCEPT !["grao"] = sum]
               /\ sample_counter' = sample_counter + 1
               /\ UNCHANGED <<read_temp, pre_heating_temp>>
  BY DEF PreHeatingSample
<1> DEFINE k == sample_counter
           sum == reading["grao"] + v
<1>2. /\ stage = "PRE_HEATING" /\ UNCHANGED <<stage, last_reading, read_delta, since>>
      /\ v \in Nat /\ MinSample <= v /\ v <= MaxSample
      /\ k \in 0 .. 9 /\ reading["grao"] \in Nat
      /\ k * MinSample <= reading["grao"] /\ reading["grao"] <= k * MaxSample
  BY DEF PreHeatingSample, SumsInRange, TypeOK, PerAverage
<1>3. /\ sum \in Nat
      /\ (k + 1) * MinSample <= sum /\ sum <= (k + 1) * MaxSample
  <2>1. /\ (k + 1) * MinSample = k * MinSample + MinSample /\ k * MinSample \in Nat
        /\ (k + 1) * MaxSample = k * MaxSample + MaxSample /\ k * MaxSample \in Nat
    BY <1>2, OneMore
  <2> QED
    BY <1>2, <2>1
<1>4. CASE AverageDue
  <2> DEFINE avg == sum \div PerAverage
  <2>1. k + 1 = 10
    BY <1>2, <1>4 DEF AverageDue, PerAverage
  <2>2. avg \in Nat /\ 10 * avg <= sum /\ sum < 10 * avg + 10
    BY <1>3, AverageFacts DEF PerAverage
  <2>3. 10 * MinSample <= sum /\ sum <= 10 * MaxSample
    BY <1>3, <2>1
  <2> HIDE DEF sum, avg
  <2>4. avg \in MinSample .. MaxSample
    BY <1>3, <2>2, <2>3
  <2>5. /\ read_temp' = [read_temp EXCEPT !["grao"] = avg]
        /\ pre_heating_temp' = avg /\ sample_counter' = 0
        /\ reading' = [reading EXCEPT !["grao"] = 0]
    BY <1>1, <1>4 DEF ResetSum, sum, avg
  <2>6. TypeOK'
    BY <1>2, <2>2, <2>5 DEF TypeOK, PerAverage
  <2>7. reading'["grao"] = 0
    BY <2>5 DEF TypeOK
  <2>8. SumsInRange'
    BY <1>2, <2>5, <2>7 DEF SumsInRange
  <2>9. 9 * avg <= 10 * MaxSample
    BY <2>4
  <2>10. ReadingsInRange'
    BY <2>4, <2>5, <2>9 DEF ReadingsInRange, TypeOK
  <2> QED
    BY <2>6, <2>8, <2>10
<1>5. CASE ~AverageDue
  <2>1. /\ reading' = [reading EXCEPT !["grao"] = sum]
        /\ sample_counter' = k + 1
        /\ UNCHANGED <<read_temp, pre_heating_temp>>
    BY <1>1, <1>5
  <2>2. k + 1 \in 0 .. 9
    BY <1>2, <1>5 DEF AverageDue, PerAverage
  <2>3. TypeOK'
    BY <1>2, <1>3, <2>1, <2>2 DEF TypeOK, PerAverage
  <2>4. reading'["grao"] = sum
    BY <2>1 DEF TypeOK
  <2>5. SumsInRange'
    BY <1>2, <1>3, <2>1, <2>4 DEF SumsInRange
  <2>6. read_temp' = read_temp /\ pre_heating_temp' = pre_heating_temp
    BY <2>1
  <2>7. ReadingsInRange'
    BY <2>6 DEF ReadingsInRange
  <2> QED
    BY <2>3, <2>5, <2>7
<1> QED
  BY <1>4, <1>5

LEMMA RoastStep == SamplingInv /\ RoastIteration => SamplingInv'
<1> SUFFICES ASSUME SamplingInv, RoastIteration PROVE SamplingInv'
  OBVIOUS
<1> USE DEF SamplingInv
<1> DEFINE k == sample_counter
<1>1. PICK v \in [Channel -> Samples] :
        LET sum(c) == reading[c] + v[c]
            avg(c) == sum(c) \div PerAverage
        IN  \/ /\ AverageDue
               /\ reading' = [c \in Channel |-> avg(c)]
               /\ read_temp' = [c \in Channel |-> avg(c)]
               /\ read_delta' = [c \in Channel |-> avg(c) - last_reading[c]]
               /\ sample_counter' = 0
            \/ /\ ~AverageDue
               /\ reading' = [c \in Channel |-> sum(c)]
               /\ sample_counter' = sample_counter + 1
               /\ UNCHANGED <<read_temp, read_delta>>
  BY DEF RoastIteration, RoastSample
<1> DEFINE sum(c) == reading[c] + v[c]
           avg(c) == sum(c) \div PerAverage
<1>2. stage = "START" /\ stage' = "START" /\ pre_heating_temp' = pre_heating_temp
  BY DEF RoastIteration
<1>3. k \in 0 .. 9 /\ MinSample \in Nat /\ MaxSample \in Nat
  BY DEF TypeOK, PerAverage
<1>4. ASSUME NEW c \in Channel
      PROVE  /\ sum(c) \in Nat
             /\ (k + 1) * MinSample <= sum(c)
             /\ 9 * sum(c) <= 9 * ((k + 1) * MaxSample) + 10 * MaxSample
  <2>1. /\ reading[c] \in Nat
        /\ k * MinSample <= reading[c]
        /\ 9 * reading[c] <= 9 * (k * MaxSample) + 10 * MaxSample
    BY <1>2 DEF SumsInRange, TypeOK
  <2>2. v[c] \in Nat /\ MinSample <= v[c] /\ v[c] <= MaxSample
    <3>1. v[c] \in Samples
      OBVIOUS
    <3> HIDE SampleAssumption DEF SampleAssumption
    <3> QED
      BY <3>1, SampleFacts
  <2>3. /\ (k + 1) * MinSample = k * MinSample + MinSample /\ k * MinSample \in Nat
        /\ (k + 1) * MaxSample = k * MaxSample + MaxSample /\ k * MaxSample \in Nat
    BY <1>3, OneMore
  <2> QED
    BY <1>3, <2>1, <2>2, <2>3
\* Looking back touches nothing that is averaged.
<1>5. ASSUME reading' \in [Channel -> Nat]
      PROVE  last_reading' \in [Channel -> Nat] /\ since' \in 0 .. MinIterations
  BY <1>5 DEF RoastIteration, Remember, TypeOK
<1>6. CASE AverageDue
  <2>1. k + 1 = 10
    BY <1>3, <1>6 DEF AverageDue, PerAverage
  <2>2. ASSUME NEW c \in Channel
        PROVE  avg(c) \in Nat /\ MinSample <= avg(c) /\ 9 * avg(c) <= 10 * MaxSample
    <3>1. avg(c) \in Nat /\ 10 * avg(c) <= sum(c) /\ sum(c) < 10 * avg(c) + 10
      BY <1>4, AverageFacts DEF PerAverage
    <3>2. 10 * MinSample <= sum(c) /\ 9 * sum(c) <= 100 * MaxSample
      BY <1>3, <1>4, <2>1
    <3> QED
      BY <1>3, <1>4, <3>1, <3>2
  <2>3. /\ reading' = [c \in Channel |-> avg(c)]
        /\ read_temp' = [c \in Channel |-> avg(c)]
        /\ read_delta' = [c \in Channel |-> avg(c) - last_reading[c]]
        /\ sample_counter' = 0
    BY <1>1, <1>6
  <2> HIDE DEF avg
  <2>4. reading' \in [Channel -> Nat] /\ read_temp' \in [Channel -> Nat]
    BY <2>2, <2>3
  <2>5. read_delta' \in [Channel -> Int]
    BY <2>2, <2>3 DEF TypeOK
  <2>6. TypeOK'
    BY <1>2, <1>5, <2>3, <2>4, <2>5 DEF TypeOK, PerAverage
  <2>7. SumsInRange'
    BY <1>2, <1>3, <2>2, <2>3 DEF SumsInRange
  <2>8. ReadingsInRange'
    BY <1>2, <2>2, <2>3 DEF ReadingsInRange
  <2> QED
    BY <2>6, <2>7, <2>8
<1>7. CASE ~AverageDue
  <2>1. /\ reading' = [c \in Channel |-> sum(c)]
        /\ sample_counter' = k + 1
        /\ UNCHANGED <<read_temp, read_delta>>
    BY <1>1, <1>7
  <2>2. k + 1 \in 0 .. 9
    BY <1>3, <1>7 DEF AverageDue, PerAverage
  <2> HIDE DEF sum
  <2>3. reading' \in [Channel -> Nat]
    BY <1>4, <2>1
  <2>4. TypeOK'
    BY <1>2, <1>5, <2>1, <2>2, <2>3 DEF TypeOK, PerAverage
  <2>5. SumsInRange'
    BY <1>2, <1>4, <2>1 DEF SumsInRange
  <2>6. read_temp' = read_temp /\ pre_heating_temp' = pre_heating_temp
    BY <1>2, <2>1
  <2>7. ReadingsInRange'
    BY <2>6 DEF ReadingsInRange
  <2> QED
    BY <2>4, <2>5, <2>7
<1> QED
  BY <1>6, <1>7

LEMMA SamplingStep == SamplingInv /\ [Next]_vars => SamplingInv'
<1> SUFFICES ASSUME SamplingInv, [Next]_vars PROVE SamplingInv'
  OBVIOUS
<1>1. CASE StartRoast \/ NextRoast
  <2>1. TypeOK'
    BY <1>1 DEF SamplingInv, StartRoast, NextRoast, FreshTask, Zero, TypeOK, PerAverage
  <2>2. SumsInRange'
    BY <1>1, FreshSums DEF StartRoast, NextRoast
  <2>3. ReadingsInRange'
    BY <1>1 DEF SamplingInv, StartRoast, NextRoast, ReadingsInRange
  <2> QED
    BY <2>1, <2>2, <2>3 DEF SamplingInv
<1>2. CASE UNCHANGED vars
  BY <1>2 DEF vars, SamplingInv, TypeOK, SumsInRange, ReadingsInRange
<1> QED
  BY <1>1, <1>2, PreHeatingStep, RoastStep DEF Next

\* The types: a sum of samples never turns negative, a counter never passes the
\* ten samples of an average, whatever the task that left them
\* (controller.c:244-263,300-313).
THEOREM SamplingTypeCorrect == Spec => []TypeOK
<1>1. SamplingInv => TypeOK
  BY DEF SamplingInv
<1> QED
  BY <1>1, SamplingInit, SamplingStep, PTL DEF Spec

\* Whatever the samples and their range, and although torra_task never starts a
\* sum from zero, no reading exceeds the largest sample by more than a ninth,
\* none falls below the smallest, and the pre-heating temperature stays between
\* the two (controller.c:244-258,300-310).
THEOREM ReadingsStayInRange == Spec => []ReadingsInRange
<1>1. SamplingInv => ReadingsInRange
  BY DEF SamplingInv
<1> QED
  BY <1>1, SamplingInit, SamplingStep, PTL DEF Spec
=============================================================================
