------------------------ MODULE FieldHeading_proofs -------------------------
(***************************************************************************)
(* Proofs about FieldHeading, for any number of threads that ask, any      *)
(* resolution of the turn and any age and failures that are tolerated.     *)
(***************************************************************************)
EXTENDS FieldHeading, TLAPS

(* What the configuration of the gyro promises: at least one failure is     *)
(* tolerated and an age is not negative.  The turn is even, since the       *)
(* interval of the headings is centred.                                     *)
Configured ==
  /\ MaxAge \in Nat
  /\ MaxFailures \in Nat \ {0}
  /\ AngleBound \in Nat
  /\ Half \in Nat \ {0}
  /\ Turn = 2 * Half

(* The monitor counts failures only while it goes on. *)
Counting == monitor.pc # "ended" => failures < MaxFailures

(* What the monitor is about to publish is what the gyro shows: a read is   *)
(* shorter than a tick.                                                     *)
ReadIsNow == monitor.pc = "publish" => monitor.read = past[0]

(* A fresh sample shows the rover as it was as long ago as its age says. *)
SampleWasTrue == Fresh(sample) => sample.heading = past[sample.age]

(* What a thread took from a fresh sample it still uses in the same tick. *)
AskedWasTrue ==
  \A t \in Queriers : query[t].pc # "idle" => \E n \in Ago : query[t].heading = past[n]

WellFormed == TypeOK /\ Counting
Truthful   == WellFormed /\ ReadIsNow /\ SampleWasTrue /\ AskedWasTrue

-----------------------------------------------------------------------------
(* Types *)

\* A normalized angle lies within half a turn of zero.
LEMMA NormalizedRange ==
  ASSUME Configured, NEW a \in Int
  PROVE  Normalized(a) \in (-Half)..(Half - 1)
<1>1. (a + Half) % Turn \in 0..(Turn - 1)
  BY DEF Configured
<1> QED  BY <1>1 DEF Normalized, Configured

\* WellFormed holds at first.
LEMMA InitWellFormed ==
  ASSUME Configured, Init
  PROVE  WellFormed
<1> USE DEF Configured, Init
<1>1. 0 \in Angles /\ 0 \in (-Half)..(Half - 1) /\ MaxAge + 1 \in 0..MaxAge + 1
  BY DEF Angles
<1>2. TypeOK
  BY <1>1 DEF TypeOK, Nothing
<1>3. Counting
  BY DEF Counting
<1> QED  BY <1>2, <1>3 DEF WellFormed

\* Publishing a reading keeps WellFormed.
LEMMA PublishWellFormed ==
  ASSUME Configured, WellFormed, Publish
  PROVE  WellFormed'
<1>1. 0 \in Angles /\ 0 \in 0..MaxAge + 1 /\ 0 \in 0..MaxFailures /\ 0 < MaxFailures
  BY DEF Configured, Angles
<1>2. monitor.read \in Angles
  BY DEF WellFormed, TypeOK
<1> QED  BY <1>1, <1>2 DEF WellFormed, TypeOK, Counting, Publish

\* So does marking the sample unavailable.
LEMMA MarkWellFormed ==
  ASSUME Configured, WellFormed, Mark
  PROVE  WellFormed'
<1> USE DEF WellFormed
<1>1. failures \in Nat /\ failures < MaxFailures /\ MaxFailures \in Nat
  BY DEF Mark, Counting, TypeOK, Configured
<1>2. failures' \in 0..MaxFailures
  BY <1>1 DEF Mark
<1>3. PICK pc \in {"ended", "cycle"} :
        /\ monitor' = [monitor EXCEPT !.pc = pc]
        /\ pc = "cycle" => failures' # MaxFailures
  BY DEF Mark
<1>4. monitor' \in [pc : {"open", "cycle", "publish", "mark", "ended"}, read : Angles,
                    opened : BOOLEAN]
      /\ monitor'.pc = pc
  BY <1>3 DEF TypeOK
<1>5. sample' \in [available : BOOLEAN, heading : Angles, age : 0..MaxAge + 1]
  <2>1. 0 \in 0..MaxAge + 1
    BY DEF Configured
  <2> QED  BY <2>1 DEF Mark, Unavailable, TypeOK
<1>6. TypeOK'
  BY <1>2, <1>4, <1>5 DEF TypeOK, Mark
<1>7. Counting'
  BY <1>1, <1>2, <1>3, <1>4 DEF Counting
<1> QED  BY <1>6, <1>7

\* So does every step of a query.
LEMMA QueryWellFormed ==
  ASSUME Configured, WellFormed, NEW t \in Queriers,
         Ask(t, "get") \/ Ask(t, "set") \/ Answer(t) \/ SetZero(t)
  PROVE  WellFormed'
<1> USE DEF WellFormed
<1> DEFINE Q == [pc : {"idle", "get", "set"}, heading : Angles]
           A == [given : BOOLEAN, heading : (-Half)..(Half - 1)]
<1>1. 0 \in Angles /\ 0 \in (-Half)..(Half - 1) /\ Angles \subseteq Int
  BY DEF Configured, Angles
<1>2. sample.heading \in Angles /\ query[t] \in Q /\ zero \in Angles
  BY DEF TypeOK
<1>3. Counting'
  BY DEF Ask, Answer, SetZero, Counting
<1>4. query' \in [Queriers -> Q]
  BY <1>1, <1>2 DEF Ask, Answer, SetZero, TypeOK
<1>5. answer' \in [Queriers -> A]
  <2>1. Normalized(query[t].heading - zero) \in (-Half)..(Half - 1)
    <3>1. query[t].heading \in Int /\ zero \in Int
      BY <1>1, <1>2
    <3> QED  BY <3>1, NormalizedRange
  <2>2. answer \in [Queriers -> A]
    BY DEF TypeOK
  <2>3. Nothing \in A
    BY <1>1 DEF Nothing
  <2>4. [given |-> TRUE, heading |-> Normalized(query[t].heading - zero)] \in A
    BY <2>1
  <2>5. PICK b \in A : answer' = answer \/ answer' = [answer EXCEPT ![t] = b]
    BY <2>3, <2>4 DEF Ask, Answer, SetZero
  <2> QED  BY <2>2, <2>5
<1>6. zero' \in Angles
  BY <1>2 DEF Ask, Answer, SetZero
<1> QED  BY <1>3, <1>4, <1>5, <1>6 DEF Ask, Answer, SetZero, TypeOK

\* So does the passing of time, which moves the past by one.
LEMMA TickWellFormed ==
  ASSUME Configured, WellFormed, Tick
  PROVE  WellFormed'
<1> USE DEF WellFormed
<1>1. past' \in [Ago -> Angles]
  <2>1. PICK a \in Angles : past' = [n \in Ago |-> IF n = 0 THEN a ELSE past[n - 1]]
    BY DEF Tick
  <2>2. \A n \in Ago : n # 0 => n - 1 \in Ago
    BY DEF Ago, Configured
  <2> QED  BY <2>1, <2>2 DEF TypeOK
<1>2. sample' \in [available : BOOLEAN, heading : Angles, age : 0..MaxAge + 1]
  <2>1. sample.age \in 0..MaxAge + 1
    BY DEF TypeOK
  <2>2. PICK n \in 0..MaxAge + 1 : sample' = [sample EXCEPT !.age = n]
    BY <2>1 DEF Tick, Configured
  <2> QED  BY <2>2 DEF TypeOK
<1> QED  BY <1>1, <1>2 DEF Tick, TypeOK, Counting

\* Hence every step keeps WellFormed.
LEMMA NextWellFormed ==
  ASSUME Configured, WellFormed, [Next]_heading_vars
  PROVE  WellFormed'
<1> USE DEF WellFormed
<1>1. CASE Open
  BY <1>1 DEF Open, TypeOK, Counting, Configured
<1>2. CASE Read
  <2>1. past[0] \in Angles
    BY DEF TypeOK, Ago, Configured
  <2> QED  BY <1>2, <2>1 DEF Read, TypeOK, Counting
<1>3. CASE GyroChanges
  BY <1>3 DEF GyroChanges, TypeOK, Counting
<1>4. CASE UNCHANGED heading_vars
  BY <1>4 DEF heading_vars, TypeOK, Counting
<1> QED  BY <1>1, <1>2, <1>3, <1>4, PublishWellFormed, MarkWellFormed, QueryWellFormed,
            TickWellFormed DEF Next

(* The variables keep their types: in particular a heading that is returned *)
(* lies in the interval of _normalize_angle, however far the gyro counted,  *)
(* and the monitor never counts beyond max_consecutive_failures.            *)
THEOREM HeadingTypes ==
  ASSUME Configured
  PROVE  Spec => []TypeOK
<1>1. WellFormed => TypeOK
  BY DEF WellFormed
<1> QED  BY <1>1, InitWellFormed, NextWellFormed, PTL DEF Spec

-----------------------------------------------------------------------------
(* Truth *)

\* At first there is no sample and nobody asks.
LEMMA InitTruthful ==
  ASSUME Configured, Init
  PROVE  Truthful
<1>1. WellFormed
  BY InitWellFormed
<1> QED  BY <1>1 DEF Init, Truthful, ReadIsNow, SampleWasTrue, AskedWasTrue, Fresh

\* What the monitor publishes is what the gyro showed when it was read.
LEMMA MonitorTruthful ==
  ASSUME Configured, Truthful, Open \/ Read \/ Publish \/ Mark
  PROVE  Truthful'
<1> USE DEF Truthful, WellFormed
<1>1. WellFormed' /\ UNCHANGED <<past, query>>
  BY NextWellFormed DEF Next, Open, Read, Publish, Mark
<1>2. AskedWasTrue'
  BY <1>1 DEF AskedWasTrue
<1>3. CASE Open
  BY <1>1, <1>2, <1>3 DEF Open, ReadIsNow, SampleWasTrue, TypeOK
<1>4. CASE Read
  <2>1. monitor'.pc = "publish" => monitor'.read = past[0]
    BY <1>4 DEF Read, TypeOK
  <2> QED  BY <1>1, <1>2, <1>4, <2>1 DEF Read, ReadIsNow, SampleWasTrue
<1>5. CASE Publish
  <2>1. sample'.heading = past[0] /\ sample'.age = 0
    BY <1>5 DEF Publish, ReadIsNow
  <2> QED  BY <1>1, <1>2, <1>5, <2>1 DEF Publish, ReadIsNow, SampleWasTrue
<1>6. CASE Mark
  <2>1. sample'.available = FALSE
    BY <1>6 DEF Mark, Unavailable, TypeOK
  <2>2. monitor'.pc # "publish"
    BY <1>6 DEF Mark, TypeOK
  <2> QED  BY <1>1, <1>2, <2>1, <2>2 DEF ReadIsNow, SampleWasTrue, Fresh
<1> QED  BY <1>3, <1>4, <1>5, <1>6

\* What a query copies is the sample with its age, or what the zero was.
LEMMA QueryTruthful ==
  ASSUME Configured, Truthful, NEW t \in Queriers,
         Ask(t, "get") \/ Ask(t, "set") \/ Answer(t) \/ SetZero(t)
  PROVE  Truthful'
<1> USE DEF Truthful, WellFormed
<1>1. WellFormed' /\ UNCHANGED <<past, monitor, sample>>
  BY QueryWellFormed DEF Ask, Answer, SetZero
<1>2. ReadIsNow' /\ SampleWasTrue'
  BY <1>1 DEF ReadIsNow, SampleWasTrue
<1>3. AskedWasTrue'
  <2> SUFFICES ASSUME NEW u \in Queriers, query'[u].pc # "idle"
               PROVE  \E n \in Ago : query'[u].heading = past[n]
    BY <1>1 DEF AskedWasTrue
  <2>1. CASE query'[u] = query[u]
    BY <2>1 DEF AskedWasTrue
  <2>2. CASE query'[u] # query[u]
    <3>1. Fresh(sample) /\ query'[u].heading = sample.heading
      BY <2>2 DEF Ask, Answer, SetZero, TypeOK
    <3>2. sample.age \in Ago
      BY <3>1 DEF Fresh, TypeOK, Ago, Configured
    <3> QED  BY <3>1, <3>2 DEF SampleWasTrue
  <2> QED  BY <2>1, <2>2
<1> QED  BY <1>1, <1>2, <1>3

\* A tick moves what was read, published or copied one further into the past.
LEMMA TickTruthful ==
  ASSUME Configured, Truthful, Tick
  PROVE  Truthful'
<1> USE DEF Truthful, WellFormed
<1>1. WellFormed'
  BY TickWellFormed
<1>2. ReadIsNow'
  BY DEF Tick, ReadIsNow
<1>3. AskedWasTrue'
  BY DEF Tick, AskedWasTrue
<1>4. SampleWasTrue'
  <2> SUFFICES ASSUME Fresh(sample)'
               PROVE  sample'.heading = past'[sample'.age]
    BY DEF SampleWasTrue
  <2>1. sample.age \in 0..MaxAge + 1 /\ MaxAge \in Nat
    BY DEF TypeOK, Configured
  <2>2. /\ sample'.available = sample.available /\ sample'.heading = sample.heading
        /\ sample'.age = IF sample.age > MaxAge THEN sample.age ELSE sample.age + 1
    BY DEF Tick, TypeOK
  <2>3. sample.age < MaxAge /\ sample'.age = sample.age + 1
    BY <2>1, <2>2 DEF Fresh
  <2>4. Fresh(sample)
    BY <2>1, <2>2, <2>3 DEF Fresh
  <2>5. sample'.age \in Ago /\ sample'.age # 0 /\ sample'.age - 1 = sample.age
    BY <2>1, <2>3 DEF Ago
  <2>6. past'[sample'.age] = past[sample.age]
    BY <2>5 DEF Tick
  <2> QED  BY <2>2, <2>4, <2>6 DEF SampleWasTrue
<1> QED  BY <1>1, <1>2, <1>3, <1>4

\* Hence every step keeps Truthful.
LEMMA NextTruthful ==
  ASSUME Configured, Truthful, [Next]_heading_vars
  PROVE  Truthful'
<1> USE DEF Truthful
<1>1. WellFormed'
  BY NextWellFormed
<1>2. CASE GyroChanges \/ UNCHANGED heading_vars
  <2>1. UNCHANGED <<past, monitor, sample, query>>
    BY <1>2 DEF GyroChanges, heading_vars
  <2> QED  BY <1>1, <2>1 DEF ReadIsNow, SampleWasTrue, AskedWasTrue
<1> QED  BY <1>2, MonitorTruthful, QueryTruthful, TickTruthful DEF Next

(* A heading that is returned is one the rover had no longer than MaxAge    *)
(* ago, relative to the zero of the moment, for any ages and failures the   *)
(* configuration tolerates and any threads that set the zero meanwhile.     *)
THEOREM AnsweredIsTrue ==
  ASSUME Configured
  PROVE  Spec => AnswersAreTrue
<1> DEFINE Step ==
      \A t \in Queriers : answer'[t] # answer[t] /\ answer'[t].given =>
        \E n \in Ago : answer'[t].heading = Normalized(past[n] - zero)
<1>1. ASSUME Truthful, [Next]_heading_vars
      PROVE  [Step]_heading_vars
  <2> USE DEF Truthful, WellFormed
  <2> SUFFICES ASSUME NEW t \in Queriers, answer'[t] # answer[t], answer'[t].given
               PROVE  \E n \in Ago : answer'[t].heading = Normalized(past[n] - zero)
    OBVIOUS
  <2>1. PICK u \in Queriers : Ask(u, "get") \/ Ask(u, "set") \/ Answer(u)
    BY <1>1 DEF Next, Open, Read, Publish, Mark, SetZero, Tick, GyroChanges, heading_vars
  <2>2. answer \in [Queriers -> [given : BOOLEAN, heading : (-Half)..(Half - 1)]]
    BY <1>1 DEF TypeOK
  <2>3. u = t
    BY <2>1, <2>2 DEF Ask, Answer
  <2>4. Answer(t)
    BY <2>1, <2>2, <2>3 DEF Ask, Nothing
  <2>5. answer'[t].heading = Normalized(query[t].heading - zero) /\ query[t].pc # "idle"
    BY <2>2, <2>4 DEF Answer
  <2> QED  BY <1>1, <2>5 DEF AskedWasTrue
<1> QED  BY <1>1, InitTruthful, NextTruthful, PTL DEF Spec, AnswersAreTrue
=============================================================================
