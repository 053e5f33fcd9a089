------------------------------ MODULE Sampling ------------------------------
(***************************************************************************)
(* The temperatures: how pre_heating_task and torra_task turn raw samples  *)
(* of the ADC into readings and differences of readings.                   *)
(*                                                                         *)
(* pre_heating_task starts every average from zero. torra_task does not:   *)
(* it divides its sum by ten and keeps adding to the quotient.  It also    *)
(* takes last_ar_reading and last_grao_reading from that variable whenever *)
(* 30 s have passed, whether it holds an average or an unfinished sum.     *)
(*                                                                         *)
(* One roast after the other, each with the tasks it should have (what an  *)
(* impatient operator makes of the tasks is modelled in Roaster).          *)
(*                                                                         *)
(* A definition marked "Slip" is a plausible mistake in the definition     *)
(* after it. Nothing uses it: it is there to see that a run would notice.  *)
(***************************************************************************)
EXTENDS Integers

CONSTANTS
  Channel,     \* "ar" and "grao", both read from the one ADC channel
  Samples,     \* what adc1_get_raw may return
  MinSample, MaxSample,  \* the range of Samples: 0 .. 4095 for 12 bits
  MinIterations  \* the fewest iterations of torra_task in 30 s: about 300, and
                 \* less when it has to wait for the event queue

ASSUME SampleAssumption ==
  /\ "grao" \in Channel
  /\ MinSample \in Nat /\ MaxSample \in Nat
  /\ Samples \subseteq MinSample .. MaxSample
  /\ MinIterations \in Nat

PerAverage == 10

VARIABLES
  stage,             \* "PRE_HEATING" or "START": which task is sampling
  sample_counter,
  reading,           \* temp_ar_reading, temp_grao_reading (adc_reading is the
                     \* "grao" of pre_heating_task)
  last_reading,      \* last_ar_reading, last_grao_reading
  read_temp,         \* read_temp_ar, read_temp_grao
  read_delta,        \* read_delta_ar, read_delta_grao
  pre_heating_temp,  \* of the recipe
  since              \* iterations since last_timer_period, up to MinIterations

vars == <<stage, sample_counter, reading, last_reading, read_temp, read_delta,
          pre_heating_temp, since>>

Zero == [c \in Channel |-> 0]

\* The locals of a task that has just been created.
FreshTask ==
  /\ sample_counter' = 0
  /\ reading' = Zero
  /\ last_reading' = Zero
  /\ since' = 0

\* Init, and the first PRE_HEATING command.
Init ==
  /\ stage = "PRE_HEATING"
  /\ sample_counter = 0
  /\ reading = Zero
  /\ last_reading = Zero
  /\ read_temp = Zero
  /\ read_delta = Zero
  /\ pre_heating_temp = 0
  /\ since = 0

\* Slip: one sample too many.
AverageDueLate == sample_counter + 1 > PerAverage

AverageDue == sample_counter + 1 >= PerAverage

\* Slip: the sum is not reset, as in torra_task.
KeepSum(sum) == reading' = [reading EXCEPT !["grao"] = sum \div PerAverage]

\* What pre_heating_task starts the next average from.
ResetSum(sum) == reading' = [reading EXCEPT !["grao"] = 0]

\* An iteration of pre_heating_task.
PreHeatingSample ==
  /\ stage = "PRE_HEATING"
  /\ \E v \in Samples :
       LET sum == reading["grao"] + v
       IN  \/ /\ AverageDue
              /\ read_temp' = [read_temp EXCEPT !["grao"] = sum \div PerAverage]
              /\ pre_heating_temp' = sum \div PerAverage
              /\ sample_counter' = 0
              /\ ResetSum(sum)
           \/ /\ ~AverageDue
              /\ reading' = [reading EXCEPT !["grao"] = sum]
              /\ sample_counter' = sample_counter + 1
              /\ UNCHANGED <<read_temp, pre_heating_temp>>
  /\ UNCHANGED <<stage, last_reading, read_delta, since>>

\* The START command deletes pre_heating_task and creates torra_task.
StartRoast ==
  /\ stage = "PRE_HEATING"
  /\ stage' = "START"
  /\ FreshTask
  /\ UNCHANGED <<read_temp, read_delta, pre_heating_temp>>

\* The sums of torra_task and what it makes of them, at an average and before.
RoastSample ==
  \E v \in [Channel -> Samples] :
    LET sum(c) == reading[c] + v[c]
        avg(c) == sum(c) \div PerAverage
    IN  \/ /\ AverageDue
           /\ reading' = [c \in Channel |-> avg(c)]
           /\ read_temp' = [c \in Channel |-> avg(c)]
           /\ read_delta' = [c \in Channel |-> avg(c) - last_reading[c]]
           /\ sample_counter' = 0
        \/ /\ ~AverageDue
           /\ reading' = [c \in Channel |-> sum(c)]
           /\ sample_counter' = sample_counter + 1
           /\ UNCHANGED <<read_temp, read_delta>>

\* Once 30 s have passed torra_task remembers, at whatever sample it is, what
\* it will compare the next averages with.
Remember ==
  \/ /\ since < MinIterations
     /\ since' = since + 1
     /\ UNCHANGED last_reading
  \/ /\ since = MinIterations
     /\ UNCHANGED <<since, last_reading>>
  \/ /\ since = MinIterations
     /\ since' = 0
     /\ last_reading' = reading'

\* An iteration of torra_task.
RoastIteration ==
  /\ stage = "START"
  /\ RoastSample
  /\ Remember
  /\ UNCHANGED <<stage, pre_heating_temp>>

\* COOLER, STAGE_OFF and the next PRE_HEATING: a new task and a new recipe, but
\* the readings of the old roast stay in controller_data.
NextRoast ==
  /\ stage = "START"
  /\ stage' = "PRE_HEATING"
  /\ FreshTask
  /\ pre_heating_temp' = 0
  /\ UNCHANGED <<read_temp, read_delta>>

Next == PreHeatingSample \/ StartRoast \/ RoastIteration \/ NextRoast

Spec == Init /\ [][Next]_vars

-----------------------------------------------------------------------------
TypeOK ==
  /\ stage \in {"PRE_HEATING", "START"}
  /\ sample_counter \in 0 .. PerAverage - 1
  /\ reading \in [Channel -> Nat]
  /\ last_reading \in [Channel -> Nat]
  /\ read_temp \in [Channel -> Nat]
  /\ read_delta \in [Channel -> Int]
  /\ pre_heating_temp \in Nat
  /\ since \in 0 .. MinIterations

\* A recipe's pre-heating temperature lies within the samples. A reading that
\* is shown may exceed them, because a tenth of the previous average leaks into
\* each of torra_task's, but the leaks do not build up: by at most a ninth
\* (controller.c:250-258,301-310).
ReadingsInRange ==
  /\ pre_heating_temp \in {0} \cup (MinSample .. MaxSample)
  /\ \A c \in Channel :
       read_temp[c] = 0 \/ (read_temp[c] >= MinSample /\ 9 * read_temp[c] <= 10 * MaxSample)

\* controls.c:123 calls the difference "GRADIENTE". At a steady temperature a
\* gradient is (nearly) zero, once there is something to compare with.
SteadyHasNoGradient ==
  [][\A c \in Channel :
       (MinSample = MaxSample /\ stage = "START" /\ sample_counter = PerAverage - 1
          /\ sample_counter' = 0 /\ last_reading[c] # 0)
       => read_delta'[c] \in -1 .. 1]_vars
=============================================================================
