---------------------------- MODULE EngineProofs ----------------------------
(***************************************************************************)
(* Proofs about the reconcile engine, for every budget, timer and number   *)
(* of events, and for every threshold, back-off and bucket: Engine.Run     *)
(* (EngineLoop), then the circuit breaker of one controller (Breaker).     *)
(***************************************************************************)
EXTENDS EngineLoop, Breaker, FiniteSetTheorems, TLAPS

-----------------------------------------------------------------------------
(* The run loop.                                                           *)

\* A drain timer is armed only once Run's context has ended.
DrainTimerNeedsDone == cutLeft # Off => ctx = "done" /\ Drain > 0

\* NoLostWrite needs to know that the desired version never runs behind a pass, and
\* CutOnlyAfterDrain that a drain timer runs only after the context has ended.
Inv == /\ TypeOK
       /\ NoLostWrite
       /\ NoLostRequeue
       /\ DeferralSuffices
       /\ CutOnlyAfterDrain
       /\ DrainTimerNeedsDone

\* One full token is within the bucket's capacity.
LEMMA CapacityHoldsAToken == Capacity \in Nat /\ Capacity >= Unit
BY BudgetAssumption, SMT DEF Capacity

\* What the start of a pass sets.
LEMMA PassBeginsSets ==
    ASSUME TypeOK, NEW l, PassBegins(l)
    PROVE  /\ loop' = l /\ seen' = desired /\ seen' \in -1..MaxWrites
           /\ asked' = FALSE /\ asked' \in BOOLEAN
           /\ cut' \in BOOLEAN
           /\ cutLeft' \in 0..Drain \cup {Off}
           /\ cut' => ctx = "done" /\ Drain = 0
           /\ cutLeft' # Off => ctx = "done" /\ Drain > 0
<1>1. loop' = l /\ seen' = desired /\ asked' = FALSE
  BY DEF PassBegins
<1>2. cut' \in BOOLEAN /\ (cut' => ctx = "done" /\ Drain = 0)
  BY Zenon DEF PassBegins
<1>3. cutLeft' \in 0..Drain \cup {Off} /\ (cutLeft' # Off => ctx = "done" /\ Drain > 0)
  BY TimerAssumption DEF PassBegins, Off
<1>4. seen' \in -1..MaxWrites
  BY <1>1, BoundAssumption DEF TypeOK
<1> QED  BY <1>1, <1>2, <1>3, <1>4

\* trigger() keeps the invariant whatever channel was read, provided the rest
\* of the loop's state stays as the select case left it.
LEMMA TriggerKeeps ==
    ASSUME Inv, Trigger, loop = "select"
    PROVE  /\ deferLeft' \in 0..(Unit + 1) \cup {Off}
           /\ tokens' \in 0..(Capacity)
           /\ loop' \in {"select", "pass"}
           /\ cutLeft' \in 0..Drain \cup {Off}
           /\ cut' \in BOOLEAN
           /\ seen' \in -1..MaxWrites
           /\ asked' \in BOOLEAN
           /\ deferLeft' # Off => tokens' + deferLeft' >= Unit
           /\ deferLeft' # Off \/ (seen' = desired /\ ~asked')
           /\ cut' => ctx = "done" /\ (Drain = 0 \/ cutLeft' = 0)
           /\ cutLeft' # Off => ctx = "done" /\ Drain > 0
<1> USE BudgetAssumption, TimerAssumption, BoundAssumption, CapacityHoldsAToken
<1>1. CASE Affordable
  <2>1. PassBegins("pass") /\ tokens' = tokens - Unit /\ deferLeft' = Off
    BY <1>1 DEF Trigger
  <2>2. tokens' \in 0..Capacity
    BY <1>1, <2>1 DEF Inv, TypeOK, Affordable
  <2>3. TypeOK
    BY DEF Inv
  <2>4. /\ loop' = "pass" /\ seen' = desired /\ seen' \in -1..MaxWrites
        /\ asked' = FALSE /\ cut' \in BOOLEAN /\ cutLeft' \in 0..Drain \cup {Off}
        /\ cut' => ctx = "done" /\ Drain = 0
        /\ cutLeft' # Off => ctx = "done" /\ Drain > 0
    BY <2>1, <2>3, PassBeginsSets
  <2> QED  BY <2>1, <2>2, <2>4
<1>2. CASE ~Affordable
  BY <1>2 DEF Inv, TypeOK, Trigger, Affordable, PassWait, DeferralSuffices, CutOnlyAfterDrain,
              DrainTimerNeedsDone, Off
<1> QED  BY <1>1, <1>2

\* Init establishes the invariant.
LEMMA InitInv == Init => Inv
<1> SUFFICES ASSUME Init PROVE Inv
  OBVIOUS
<1> USE BudgetAssumption, TimerAssumption, BoundAssumption, CapacityHoldsAToken DEF Init, Off
<1>1. TypeOK
  <2>1. desired \in 0..MaxWrites /\ owed \in 0..desired /\ sent \in 0..MaxEvents /\ events \in 0..sent
    OBVIOUS
  <2>2. tokens \in 0..Capacity /\ backoff \in Nat \ {0} /\ seen \in -1..MaxWrites
    OBVIOUS
  <2>3. alarms \subseteq Nat
    OBVIOUS
  <2> QED  BY <2>1, <2>2, <2>3 DEF TypeOK
<1>2. NoLostWrite /\ NoLostRequeue
  BY DEF NoLostWrite, NoLostRequeue
<1>3. DeferralSuffices /\ CutOnlyAfterDrain /\ DrainTimerNeedsDone
  BY DEF DeferralSuffices, CutOnlyAfterDrain, DrainTimerNeedsDone
<1> QED  BY <1>1, <1>2, <1>3 DEF Inv

\* Every step of the engine keeps it.
LEMMA NextInv == Inv /\ [Next]_vars => Inv'
<1> SUFFICES ASSUME Inv, [Next]_vars PROVE Inv'
  OBVIOUS
<1> USE BudgetAssumption, TimerAssumption, BoundAssumption, CapacityHoldsAToken DEF envVars, chanVars, timerVars, guardVars, loopVars, Off
<1> USE DEF Inv, TypeOK, NoLostWrite, NoLostRequeue, DeferralSuffices, CutOnlyAfterDrain,
            DrainTimerNeedsDone
<1>1. CASE Write
  BY <1>1 DEF Write
<1>2. CASE Nudge
  BY <1>2 DEF Nudge
<1>3. CASE DockerEvent
  BY <1>3 DEF DockerEvent
<1>4. CASE StreamCloses
  BY <1>4 DEF StreamCloses
<1>5. CASE ResetBudget
  BY <1>5 DEF ResetBudget
<1>6. CASE Cancel
  BY <1>6 DEF Cancel, InPass
<1>7. CASE Clock
  <2>1. tokens' \in 0..(Capacity) /\ tokens' >= tokens
    BY <1>7 DEF Clock, Refill
  <2>2. tickLeft' \in 1..Resync \cup {Off} /\ tick' \in BOOLEAN
    BY <1>7 DEF Clock
  <2>3. alarms' \subseteq Nat /\ (alarms # {} => alarms' # {})
    <3>1. alarms' = {IF a > 0 THEN a - 1 ELSE 0 : a \in alarms}
      BY <1>7 DEF Clock
    <3>2. \A a \in alarms : (IF a > 0 THEN a - 1 ELSE 0) \in Nat
      OBVIOUS
    <3>3. alarms # {} => alarms' # {}
      BY <3>1, Zenon
    <3> QED  BY <3>1, <3>2, <3>3
  <2>4. deferLeft' \in 0..(Unit + 1) \cup {Off} /\ (deferLeft' = Off <=> deferLeft = Off)
    BY <1>7 DEF Clock
  <2>5. deferLeft' # Off => tokens' + deferLeft' >= Unit
    <3>1. CASE deferLeft > 0
      <4>1. tokens < Capacity => tokens' = tokens + 1
        BY <1>7 DEF Clock, Refill
      <4>2. tokens = Capacity => tokens' >= Unit
        BY <2>1
      <4> QED  BY <1>7, <3>1, <4>1, <4>2, <2>1 DEF Clock
    <3>2. CASE deferLeft = 0
      BY <1>7, <3>2, <2>1 DEF Clock
    <3> QED  BY <3>1, <3>2, <2>4
  <2>6. cutLeft' \in 0..Drain \cup {Off} /\ cut' \in BOOLEAN /\ (cutLeft' = Off <=> cutLeft = Off)
    BY <1>7 DEF Clock
  <2>7. cut' => ctx = "done" /\ (Drain = 0 \/ cutLeft' = 0)
    BY <1>7 DEF Clock
  <2> QED  BY <1>7, <2>1, <2>2, <2>3, <2>4, <2>5, <2>6, <2>7 DEF Clock
<1>8. CASE RunAsks
  BY <1>8 DEF RunAsks, RequeueDelay, NextBackoff
<1>9. CASE RunContent
  BY <1>9 DEF RunContent
<1>10. CASE AlarmNudges
  BY <1>10 DEF AlarmNudges
<1>11. CASE FirstPass
  <2>1. PassBegins("bootpass")
    BY <1>11 DEF FirstPass
  <2> QED  BY <1>11, <2>1, PassBeginsSets DEF FirstPass
<1>12. CASE PassEnds
  <2>1. TypeOK'
    <3>1. alarms' \subseteq alarms \cup BootDelays
      BY <1>12, Zenon DEF PassEnds
    <3>2. tickLeft' \in 1..Resync \cup {Off}
      BY <1>12 DEF PassEnds
    <3> QED  BY <1>12, <3>1, <3>2 DEF PassEnds
  <2>2. NoLostWrite'
    BY <1>12 DEF PassEnds, InPass
  <2>3. NoLostRequeue'
    BY <1>12 DEF PassEnds, InPass
  <2>4. DeferralSuffices'
    BY <1>12 DEF PassEnds, InPass
  <2>5. CutOnlyAfterDrain'
    BY <1>12 DEF PassEnds, InPass
  <2>6. DrainTimerNeedsDone'
    BY <1>12 DEF PassEnds, InPass
  <2> QED  BY <2>1, <2>2, <2>3, <2>4, <2>5, <2>6
<1>13. CASE OnTick
  BY <1>13, TriggerKeeps DEF OnTick
<1>14. CASE OnNudge
  BY <1>14, TriggerKeeps DEF OnNudge
<1>15. CASE OnDeferred
  <2>1. CASE Affordable
    <3>1. PassBegins("pass") /\ tokens' = tokens - Unit /\ deferLeft' = Off
      BY <1>15, <2>1 DEF OnDeferred
    <3>2. tokens' \in 0..Capacity
      BY <2>1, <3>1 DEF Affordable
    <3>3. TypeOK
      OBVIOUS
    <3>4. /\ loop' = "pass" /\ seen' = desired /\ seen' \in -1..MaxWrites
          /\ asked' = FALSE /\ cut' \in BOOLEAN /\ cutLeft' \in 0..Drain \cup {Off}
          /\ cut' => ctx = "done" /\ Drain = 0
          /\ cutLeft' # Off => ctx = "done" /\ Drain > 0
      BY <3>1, <3>3, PassBeginsSets
    <3> QED  BY <1>15, <3>1, <3>2, <3>4 DEF OnDeferred
  <2>2. CASE ~Affordable
    BY <1>15, <2>2 DEF OnDeferred, Affordable, PassWait
  <2> QED  BY <2>1, <2>2
<1>16. CASE OnEvent
  <2>1. alarms' \subseteq Nat /\ events' \in 0..sent
    BY <1>16 DEF OnEvent
  <2> QED  BY <1>16, <2>1, TriggerKeeps DEF OnEvent
<1>17. CASE OnStreamClosed
  BY <1>17 DEF OnStreamClosed
<1>18. CASE OnDone
  BY <1>18 DEF OnDone
<1>19. CASE UNCHANGED vars
  BY <1>19 DEF vars
<1> QED  BY <1>1, <1>2, <1>3, <1>4, <1>5, <1>6, <1>7, <1>8, <1>9, <1>10, <1>11, <1>12, <1>13,
            <1>14, <1>15, <1>16, <1>17, <1>18, <1>19
         DEF Next, Outside, Runs, Run

\* The invariant holds throughout.
THEOREM Invariant == Spec => []Inv
BY InitInv, NextInv, PTL DEF Spec

\* Every variable of Run keeps its type.
THEOREM TypeCorrect == Spec => []TypeOK
BY Invariant, PTL DEF Inv

\* "level-triggered, so nothing is lost": no write is forgotten by Run.
THEOREM WritesNeverLost == Spec => []NoLostWrite
BY Invariant, PTL DEF Inv

\* A run's request to be looked at again is never forgotten either.
THEOREM RequeuesNeverLost == Spec => []NoLostRequeue
BY Invariant, PTL DEF Inv

\* The wait AllowPass returns always ends with a token in the bucket.
THEOREM OneDeferralSuffices == Spec => []DeferralSuffices
BY Invariant, PTL DEF Inv

\* A pass is never cut before its drain time has passed.
THEOREM DrainHonoured == Spec => []CutOnlyAfterDrain
BY Invariant, PTL DEF Inv

\* Neither a write nor a run's request is ever forgotten, for every budget and every timer.
THEOREM NothingEverLost == Spec => []NothingLost
BY WritesNeverLost, RequeuesNeverLost, OneDeferralSuffices, PTL DEF NothingLost

-----------------------------------------------------------------------------
(* The circuit breaker.                                                    *)

\* A full bucket holds at least one token.
LEMMA BucketHoldsAToken == BucketSize \in Nat /\ BucketSize >= TokenTime
BY BucketAssumption, SMT DEF BucketSize

\* Every variable of the breaker keeps its type.
THEOREM BreakerTypeCorrect == BreakerSpec => []BreakerTypeOK
<1> USE BreakerAssumption, BucketAssumption, MaxFailsAssumption, BucketHoldsAToken
<1>1. BreakerInit => BreakerTypeOK
  <2> SUFFICES ASSUME BreakerInit PROVE BreakerTypeOK
    OBVIOUS
  <2>1. /\ failures \in 0..Threshold /\ nextWait \in Nat \ {0} /\ openLeft \in 0..BreakerMax
        /\ bucket \in 0..BucketSize /\ fails \in 0..MaxFails /\ quiet \in 0..BreakerMax
    BY DEF BreakerInit
  <2> QED  BY <2>1 DEF BreakerInit, BreakerTypeOK
<1>2. BreakerTypeOK /\ [BreakerNext]_breakerVars => BreakerTypeOK'
  <2> SUFFICES ASSUME BreakerTypeOK, [BreakerNext]_breakerVars PROVE BreakerTypeOK'
    OBVIOUS
  <2>1. CASE BeforeThrottled
    BY <2>1 DEF BeforeThrottled, Probed, BreakerTypeOK
  <2>2. CASE BeforeRuns
    <3>1. bucket' \in 0..BucketSize
      BY <2>2 DEF BeforeRuns, HasToken, BreakerTypeOK
    <3> QED  BY <2>2, <3>1 DEF BeforeRuns, Probed, BreakerTypeOK
  <2>3. CASE AfterSuccess
    BY <2>3 DEF AfterSuccess, BreakerTypeOK
  <2>4. CASE AfterFailure
    <3>1. fails' \in 0..MaxFails /\ quiet' \in 0..BreakerMax /\ run' = "idle"
      BY <2>4 DEF AfterFailure, BreakerTypeOK
    <3>2. FailureWait \in 0..BreakerMax /\ Doubled \in Nat \ {0}
      BY DEF FailureWait, Doubled, BreakerTypeOK
    <3>3. failures' \in 0..Threshold /\ state' \in {"closed", "open", "half_open"}
      BY <2>4 DEF AfterFailure, BreakerTypeOK
    <3>4. openLeft' \in 0..BreakerMax /\ nextWait' \in Nat \ {0}
      BY <2>4, <3>2 DEF AfterFailure, BreakerTypeOK
    <3> QED  BY <2>4, <3>1, <3>3, <3>4 DEF AfterFailure, BreakerTypeOK
  <2>5. CASE Reset
    BY <2>5 DEF Reset, BreakerTypeOK
  <2>6. CASE BreakerClock
    BY <2>6 DEF BreakerClock, BreakerTypeOK
  <2>7. CASE UNCHANGED breakerVars
    BY <2>7 DEF breakerVars, BreakerTypeOK
  <2> QED  BY <2>1, <2>2, <2>3, <2>4, <2>5, <2>6, <2>7 DEF BreakerNext, Before
<1> QED  BY <1>1, <1>2, PTL DEF BreakerSpec

\* From a Reset to the next run the breaker is not open, the bucket holds a
\* token, and at most the run that was in flight has failed.
AfterReset ==
    fresh => /\ state # "open" /\ bucket >= TokenTime
             /\ failures = 0 \/ (failures = 1 /\ run = "idle")

\* A Reset takes effect whatever the run in flight does, when one failure does
\* not open the breaker by itself (the code's default threshold is 5).
THEOREM ResetTakesEffect == Threshold >= 2 => (BreakerSpec => []ResetHonoured)
<1> SUFFICES ASSUME Threshold >= 2 PROVE BreakerSpec => []ResetHonoured
  OBVIOUS
<1> USE BreakerAssumption, BucketAssumption, MaxFailsAssumption, BucketHoldsAToken
<1>1. BreakerInit => AfterReset
  BY DEF BreakerInit, AfterReset
<1>2. BreakerTypeOK /\ AfterReset /\ [BreakerNext]_breakerVars => AfterReset'
  <2> SUFFICES ASSUME BreakerTypeOK, AfterReset, [BreakerNext]_breakerVars PROVE AfterReset'
    OBVIOUS
  <2>1. CASE BeforeThrottled
    BY <2>1 DEF BeforeThrottled, Probed, AfterReset
  <2>2. CASE BeforeRuns
    BY <2>2 DEF BeforeRuns, AfterReset
  <2>3. CASE AfterSuccess
    BY <2>3 DEF AfterSuccess, AfterReset
  <2>4. CASE AfterFailure
    <3>1. run = "running" /\ run' = "idle" /\ UNCHANGED <<bucket, fresh>>
      BY <2>4 DEF AfterFailure
    <3>2. CASE fresh
      <4>1. failures = 0 /\ state # "open" /\ bucket >= TokenTime
        BY <3>1, <3>2 DEF AfterReset
      <4>2. failures' = 1 /\ state' = state
        BY <2>4, <4>1 DEF AfterFailure
      <4> QED  BY <3>1, <4>1, <4>2 DEF AfterReset
    <3>3. CASE ~fresh
      BY <3>1, <3>3 DEF AfterReset
    <3> QED  BY <3>2, <3>3
  <2>5. CASE Reset
    BY <2>5 DEF Reset, AfterReset
  <2>6. CASE BreakerClock
    <3>1. bucket' >= bucket /\ bucket' \in Nat /\ bucket \in Nat
      BY <2>6 DEF BreakerClock, BreakerTypeOK
    <3> QED  BY <2>6, <3>1 DEF BreakerClock, AfterReset
  <2>7. CASE UNCHANGED breakerVars
    BY <2>7 DEF breakerVars, AfterReset
  <2> QED  BY <2>1, <2>2, <2>3, <2>4, <2>5, <2>6, <2>7 DEF BreakerNext, Before
<1>3. AfterReset => ResetHonoured
  BY DEF AfterReset, ResetHonoured, Passable, HasToken
<1> QED  BY <1>1, <1>2, <1>3, BreakerTypeCorrect, PTL DEF BreakerSpec

-----------------------------------------------------------------------------
(* The back-off of the breaker.                                            *)

\* The subsets of 1..n+1 are twice as many as those of 1..n: without and with n+1.
LEMMA PowerDoubles ==
    ASSUME NEW n \in Nat
    PROVE  2 ^ n \in Nat /\ 2 ^ (n + 1) = 2 * 2 ^ n
<1> DEFINE Low == SUBSET (1..n)
           High == {s \cup {n + 1} : s \in Low}
           AddTop == [s \in Low |-> s \cup {n + 1}]
<1>a. ASSUME NEW m \in Nat
      PROVE  IsFiniteSet(SUBSET (1..m)) /\ Cardinality(SUBSET (1..m)) = 2 ^ m
  <2>1. IsFiniteSet(1..m) /\ Cardinality(1..m) = m
    <3>1. 1 \in Int /\ m \in Int /\ (IF 1 > m THEN 0 ELSE m - 1 + 1) = m
      OBVIOUS
    <3> QED  BY <3>1, FS_Interval
  <2> QED  BY <2>1, FS_SUBSET, Zenon
<1>1. IsFiniteSet(Low) /\ Cardinality(Low) = 2 ^ n
  BY <1>a
<1>2. IsFiniteSet(SUBSET (1..(n + 1))) /\ Cardinality(SUBSET (1..(n + 1))) = 2 ^ (n + 1)
  <2>1. n + 1 \in Nat
    OBVIOUS
  <2> QED  BY <2>1, <1>a, Zenon
<1>3. ExistsBijection(Low, High)
  <2>1. \A s \in Low : n + 1 \notin s
    OBVIOUS
  <2>2. AddTop \in Injection(Low, High)
    <3>1. AddTop \in [Low -> High]
      OBVIOUS
    <3>2. \A s, t \in Low : AddTop[s] = AddTop[t] => s = t
      BY <2>1
    <3> QED  BY <3>1, <3>2 DEF Injection, IsInjective
  <2>3. AddTop \in Surjection(Low, High)
    BY DEF Surjection
  <2> QED  BY <2>2, <2>3 DEF Bijection, ExistsBijection
<1>4. IsFiniteSet(High) /\ Cardinality(High) = 2 ^ n
  BY <1>1, <1>3, FS_Bijection
<1>5. SUBSET (1..(n + 1)) = Low \cup High
  <2>1. ASSUME NEW s \in SUBSET (1..(n + 1)) PROVE s \in Low \cup High
    <3>1. CASE n + 1 \in s
      <4>1. s \ {n + 1} \in Low /\ s = (s \ {n + 1}) \cup {n + 1}
        BY <3>1
      <4> QED  BY <4>1
    <3>2. CASE n + 1 \notin s
      BY <3>2
    <3> QED  BY <3>1, <3>2
  <2>2. ASSUME NEW s \in Low PROVE s \in SUBSET (1..(n + 1)) /\ s \cup {n + 1} \in SUBSET (1..(n + 1))
    <3>1. 1..n \subseteq 1..(n + 1) /\ n + 1 \in 1..(n + 1)
      OBVIOUS
    <3>2. s \subseteq 1..n
      OBVIOUS
    <3> HIDE DEF Low
    <3>3. \A x \in s \cup {n + 1} : x \in 1..(n + 1)
      BY <3>1, <3>2, Zenon
    <3> QED  BY <3>3
  <2>3. \A t \in High : t \in SUBSET (1..(n + 1))
    BY <2>2
  <2> HIDE DEF Low, High
  <2> QED  BY <2>1, <2>2, <2>3
<1>6. Low \cap High = {}
  <2>1. \A s \in Low : n + 1 \notin s
    OBVIOUS
  <2>2. \A s \in High : n + 1 \in s
    OBVIOUS
  <2> QED  BY <2>1, <2>2
<1>7. 2 ^ n \in Nat
  BY <1>1, FS_CardinalityType
<1>8. Cardinality(Low \cup High) = Cardinality(Low) + Cardinality(High) - Cardinality(Low \cap High)
  BY <1>1, <1>4, FS_Union
<1>9. 2 ^ (n + 1) = 2 ^ n + 2 ^ n - 0
  BY <1>1, <1>2, <1>4, <1>5, <1>6, <1>8, FS_EmptySet
<1> QED  BY <1>7, <1>9

\* What the first failures cost, and that every further one costs at most twice as much.
LEMMA WaitBounds ==
    ASSUME NEW n \in Nat
    PROVE  /\ WaitAfter(n) \in 0..BreakerMax
           /\ n < Threshold => WaitAfter(n) = 0
           /\ n <= Threshold => WaitAfter(n) <= BreakerBase
           /\ WaitAfter(n) <= WaitAfter(n + 1)
           /\ \A w \in Nat : w >= BreakerBase /\ w >= WaitAfter(n)
                               => (IF w < BreakerMax THEN 2 * w ELSE w) >= WaitAfter(n + 1)
<1> USE BreakerAssumption
<1>1. CASE n + 1 < Threshold
  BY <1>1 DEF WaitAfter
<1>2. CASE n + 1 = Threshold
  <2>1. BreakerBase * 2 ^ (n + 1 - Threshold) = BreakerBase
    <3>1. n + 1 - Threshold = 0 /\ 2 ^ 0 = 1 /\ BreakerBase * 1 = BreakerBase
      BY <1>2
    <3> QED  BY <3>1
  <2>2. WaitAfter(n) = 0
    BY <1>2 DEF WaitAfter
  <2>3. WaitAfter(n + 1) = IF BreakerBase < BreakerMax THEN BreakerBase ELSE BreakerMax
    BY <1>2, <2>1 DEF WaitAfter
  <2> QED  BY <1>2, <2>2, <2>3
<1>3. CASE n >= Threshold
  <2> DEFINE k == n - Threshold
             earned == BreakerBase * 2 ^ k
             next == BreakerBase * 2 ^ (k + 1)
  <2>1. k \in Nat /\ n + 1 - Threshold = k + 1
    BY <1>3
  <2>2. 2 ^ k \in Nat /\ 2 ^ (k + 1) = 2 * 2 ^ k
    BY <2>1, PowerDoubles
  <2>3. \A p \in Nat : BreakerBase * p \in Nat /\ BreakerBase * (2 * p) = 2 * (BreakerBase * p)
    OBVIOUS
  <2>4. earned \in Nat /\ next = 2 * earned
    BY <2>2, <2>3
  <2>5. WaitAfter(n) = IF earned < BreakerMax THEN earned ELSE BreakerMax
    BY <1>3, <2>1 DEF WaitAfter
  <2>6. WaitAfter(n + 1) = IF next < BreakerMax THEN next ELSE BreakerMax
    BY <1>3, <2>1 DEF WaitAfter
  <2>7. n = Threshold => earned = BreakerBase
    <3>1. n = Threshold => k = 0
      BY <1>3
    <3>2. 2 ^ 0 = 1 /\ BreakerBase * 1 = BreakerBase
      OBVIOUS
    <3> QED  BY <3>1, <3>2
  <2> HIDE DEF earned, next, k
  <2> QED  BY <1>3, <2>4, <2>5, <2>6, <2>7
<1> QED  BY <1>1, <1>2, <1>3

\* The counter of the code follows the failures in a row up to the threshold, the wait of the
\* next failure is ready in nextWait, and the wait of the last one has passed or is what the
\* open breaker still waits for.
Earned ==
    /\ failures = IF fails < Threshold THEN fails ELSE Threshold
    /\ fails < Threshold => state = "closed"
    /\ nextWait >= BreakerBase /\ nextWait >= WaitAfter(fails + 1)
    /\ quiet + openLeft >= WaitAfter(fails)
    /\ state # "open" => quiet >= WaitAfter(fails)

LEMMA EarnedKept == BreakerTypeOK /\ Earned /\ [BreakerNext]_breakerVars => Earned'
<1> SUFFICES ASSUME BreakerTypeOK, Earned, [BreakerNext]_breakerVars PROVE Earned'
  OBVIOUS
<1> USE BreakerAssumption, MaxFailsAssumption
<1>a. \A n \in Nat : WaitAfter(n) \in 0..BreakerMax
  BY WaitBounds
<1>1. /\ fails \in Nat /\ quiet \in 0..BreakerMax /\ openLeft \in 0..BreakerMax /\ nextWait \in Nat
      /\ WaitAfter(fails) \in 0..BreakerMax /\ WaitAfter(fails + 1) \in 0..BreakerMax
  <2>1. /\ fails \in Nat /\ fails + 1 \in Nat /\ quiet \in 0..BreakerMax
        /\ openLeft \in 0..BreakerMax /\ nextWait \in Nat
    BY DEF BreakerTypeOK
  <2> QED  BY <2>1, <1>a
<1>2. WaitAfter(0) = 0 /\ WaitAfter(1) <= BreakerBase /\ WaitAfter(1) \in 0..BreakerMax
  BY WaitBounds
<1>3. CASE Before
  <2>1. UNCHANGED <<failures, nextWait, openLeft, fails, quiet>> /\ Passable /\ state' = Probed
    BY <1>3 DEF Before, BeforeThrottled, BeforeRuns
  <2>2. quiet >= WaitAfter(fails)
    BY <1>1, <2>1 DEF Earned, Passable
  <2> QED  BY <2>1, <2>2 DEF Earned, Probed
<1>4. CASE AfterSuccess \/ Reset
  <2>1. /\ state' = "closed" /\ failures' = 0 /\ nextWait' = BreakerBase /\ openLeft' = 0
        /\ fails' = 0 /\ quiet' = quiet
    BY <1>4 DEF AfterSuccess, Reset
  <2> QED  BY <1>1, <1>2, <2>1 DEF Earned
<1>5. CASE BreakerClock
  <2>1. UNCHANGED <<state, failures, nextWait, fails>>
    BY <1>5 DEF BreakerClock
  <2>2. quiet' + openLeft' >= WaitAfter(fails) /\ quiet' >= quiet /\ quiet' \in Nat
    BY <1>1, <1>5 DEF BreakerClock, Earned
  <2>3. state # "open" => quiet' >= WaitAfter(fails)
    BY <1>1, <2>2 DEF Earned
  <2> QED  BY <2>1, <2>2, <2>3 DEF Earned
<1>6. CASE AfterFailure
  <2>1. fails' = (IF fails < MaxFails THEN fails + 1 ELSE fails) /\ quiet' = 0 /\ fails' \in Nat
    BY <1>1, <1>6 DEF AfterFailure
  <2>2. CASE failures + 1 < Threshold
    <3>1. failures = fails /\ fails' = fails + 1 /\ fails + 1 < Threshold /\ state = "closed"
      BY <1>1, <2>1, <2>2 DEF Earned
    <3>2. failures' = failures + 1 /\ UNCHANGED <<state, nextWait, openLeft>>
      BY <1>6, <2>2 DEF AfterFailure
    <3>3. WaitAfter(fails + 1) = 0 /\ WaitAfter(fails + 2) <= BreakerBase /\ WaitAfter(fails + 2) \in Nat
      <4>1. fails + 1 \in Nat /\ fails + 2 \in Nat /\ fails + 2 <= Threshold
        BY <1>1, <3>1
      <4> QED  BY <3>1, <4>1, WaitBounds
    <3>4. fails' + 1 = fails + 2
      BY <1>1, <3>1
    <3> QED  BY <1>1, <2>1, <3>1, <3>2, <3>3, <3>4 DEF Earned
  <2>3. CASE ~(failures + 1 < Threshold)
    <3>1. failures' = Threshold /\ state' = "open" /\ openLeft' = FailureWait /\ nextWait' = Doubled
      BY <1>6, <2>3 DEF AfterFailure
    <3>2. fails + 1 >= Threshold
      BY <1>1, <2>3 DEF Earned
    <3>3. WaitAfter(fails') <= WaitAfter(fails + 1) /\ fails' >= Threshold
      <4>1. CASE fails < MaxFails
        BY <1>1, <2>1, <3>2, <4>1
      <4>2. CASE ~(fails < MaxFails)
        <5>1. fails' = fails /\ fails >= Threshold
          BY <1>1, <2>1, <4>2
        <5> QED  BY <1>1, <5>1, WaitBounds
      <4> QED  BY <4>1, <4>2
    <3>4. FailureWait \in Nat /\ FailureWait >= WaitAfter(fails')
      <4>1. WaitAfter(fails') \in Nat
        BY <2>1, <1>a
      <4> QED  BY <1>1, <3>3, <4>1 DEF FailureWait, Earned
    <3>5. nextWait' >= BreakerBase /\ nextWait' >= WaitAfter(fails' + 1)
      <4>1. nextWait' \in Nat /\ nextWait' >= nextWait /\ nextWait' >= BreakerBase
        BY <1>1, <3>1 DEF Doubled, Earned
      <4>2. CASE fails < MaxFails
        <5>1. fails' = fails + 1 /\ fails + 1 \in Nat /\ nextWait >= BreakerBase /\ nextWait >= WaitAfter(fails + 1)
          BY <1>1, <2>1, <4>2 DEF Earned
        <5>2. (IF nextWait < BreakerMax THEN 2 * nextWait ELSE nextWait) >= WaitAfter(fails + 1 + 1)
          BY <1>1, <5>1, WaitBounds
        <5> QED  BY <3>1, <4>1, <5>1, <5>2 DEF Doubled
      <4>3. CASE ~(fails < MaxFails)
        BY <1>1, <2>1, <4>1, <4>3 DEF Earned
      <4> QED  BY <4>2, <4>3
    <3> QED  BY <2>1, <3>1, <3>3, <3>4, <3>5 DEF Earned
  <2> QED  BY <2>2, <2>3
<1>7. CASE UNCHANGED breakerVars
  BY <1>7 DEF breakerVars, Earned
<1> QED  BY <1>3, <1>4, <1>5, <1>6, <1>7 DEF BreakerNext

\* Storm protection, for every threshold, base and maximum: no run begins before the whole wait
\* that the last of the failures in a row earned has passed, whatever Resets, throttled and
\* half-open probes came in between (guard.go, Before and After).
THEOREM BackoffNeverShortened == BreakerSpec => BackoffHonoured
<1>1. BreakerInit => Earned
  <2>1. WaitAfter(0) = 0 /\ WaitAfter(1) <= BreakerBase /\ WaitAfter(1) \in Nat
    BY WaitBounds, BreakerAssumption
  <2> QED  BY <2>1, BreakerAssumption DEF BreakerInit, Earned
<1>2. BreakerTypeOK /\ Earned /\ [BreakerNext]_breakerVars
        => [run = "idle" /\ run' = "running" => quiet >= WaitAfter(fails)]_breakerVars
  <2> SUFFICES ASSUME BreakerTypeOK, Earned, [BreakerNext]_breakerVars, run = "idle", run' = "running"
               PROVE  quiet >= WaitAfter(fails) \/ UNCHANGED breakerVars
    OBVIOUS
  <2>1. run' # run
    OBVIOUS
  <2>2. CASE BeforeRuns
    <3>1. fails \in Nat /\ quiet \in Nat /\ WaitAfter(fails) \in Nat
      BY WaitBounds, BreakerAssumption DEF BreakerTypeOK
    <3>2. state # "open" \/ openLeft = 0
      BY <2>2 DEF BeforeRuns, Passable
    <3> QED  BY <3>1, <3>2 DEF Earned
  <2> QED
    BY <2>1, <2>2 DEF BreakerNext, Before, BeforeThrottled, AfterSuccess, AfterFailure, Reset, BreakerClock,
       breakerVars
<1> QED  BY <1>1, <1>2, EarnedKept, BreakerTypeCorrect, PTL DEF BreakerSpec, BackoffHonoured
=============================================================================
