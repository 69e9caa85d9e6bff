--------------------------- MODULE KeyQueueProofs ---------------------------
(***************************************************************************)
(* Proofs about the keyed worker pool, for every set of apps and workers   *)
(* and every number of passes.                                             *)
(***************************************************************************)
EXTENDS KeyQueue, FiniteSetTheorems, TLAPS

\* Signalling only moves a sleeping worker back to idle.
LEMMA SignalType ==
    ASSUME TypeOK, Signal
    PROVE  pc' \in [Workers -> {"idle", "waiting", "running", "returned", "released", "exited"}]
BY DEF TypeOK, Signal, Waiting

\* q.add keeps the types of the queue and of the workers' program counters.
LEMMA AddType ==
    ASSUME TypeOK, NEW k \in Keys, NEW v \in 0..MaxPass, Add(k, v)
    PROVE  /\ pending' \in [Keys -> 0..MaxPass]
           /\ order' \subseteq Keys \X Keys
           /\ pc' \in [Workers -> {"idle", "waiting", "running", "returned", "released", "exited"}]
<1>1. CASE Closed
  BY <1>1 DEF Add, TypeOK
<1>2. CASE ~Closed /\ k \in Queued
  BY <1>2 DEF Add, TypeOK
<1>3. CASE ~Closed /\ k \notin Queued
  <2>1. Signal
    BY <1>3 DEF Add
  <2>2. order' = order \cup (Queued \X {k}) /\ pending' = [pending EXCEPT ![k] = v]
    BY <1>3 DEF Add
  <2> QED  BY <2>1, <2>2, SignalType DEF TypeOK, Queued
<1> QED  BY <1>1, <1>2, <1>3

\* Every variable of the pool keeps its type.
THEOREM TypeCorrect == Spec => []TypeOK
<1> USE MaxPassAssumption, WorkersAssumption
<1>1. Init => TypeOK
  BY DEF Init, TypeOK
<1>2. TypeOK /\ [Next]_vars => TypeOK'
  <2> SUFFICES ASSUME TypeOK, [Next]_vars PROVE TypeOK'
    OBVIOUS
  <2> USE DEF envVars, passVars, queueVars, workerVars, timerVars
  <2>1. ASSUME NEW k \in Keys, CreateApp(k) \/ DeleteApp(k) PROVE TypeOK'
    BY <2>1 DEF TypeOK, CreateApp, DeleteApp
  <2>2. CASE PassStart
    BY <2>2 DEF TypeOK, PassStart
  <2>3. CASE PassSourceError
    BY <2>3 DEF TypeOK, PassSourceError
  <2>4. ASSUME NEW k \in Keys, PassAdd(k) PROVE TypeOK'
    BY <2>4, AddType DEF TypeOK, PassAdd
  <2>5. CASE PassRetain
    <3>1. cut' \subseteq Workers
      BY <2>5 DEF TypeOK, PassRetain
    <3> QED  BY <2>5, <3>1 DEF TypeOK, PassRetain, Keep
  <2>6. ASSUME NEW w \in Workers, NEW k \in Keys, Take(w, k) PROVE TypeOK'
    <3>1. <<k, pending[k]>> \in Instances
      BY <2>6 DEF TypeOK, Take, First, Runnable, Queued, Instances
    <3> QED  BY <2>6, <3>1 DEF TypeOK, Take, Keep
  <2>7. ASSUME NEW w \in Workers, Wait(w) \/ Exit(w) PROVE TypeOK'
    BY <2>7 DEF TypeOK, Wait, Exit
  <2>8. ASSUME NEW w \in Workers, Release(w) PROVE TypeOK'
    BY <2>8 DEF TypeOK, Release
  <2>9. ASSUME NEW w \in Workers, Rebroadcast(w) PROVE TypeOK'
    BY <2>9 DEF TypeOK, Rebroadcast, Broadcast
  <2>10. ASSUME NEW w \in Workers, Expire(w) PROVE TypeOK'
    BY <2>10 DEF TypeOK, Expire
  <2>11. ASSUME NEW w \in Workers, NEW keyOnly \in BOOLEAN, RunReturn(w, keyOnly) PROVE TypeOK'
    BY <2>11 DEF TypeOK, RunReturn
  <2>12. ASSUME NEW i \in Instances, RequeueCheck(i) PROVE TypeOK'
    BY <2>12 DEF TypeOK, RequeueCheck
  <2>13. ASSUME NEW i \in Instances, RequeueAdd(i) PROVE TypeOK'
    <3>1. i[1] \in Keys /\ i[2] \in 0..MaxPass
      BY DEF Instances
    <3> QED  BY <2>13, <3>1, AddType DEF TypeOK, RequeueAdd
  <2>14. CASE Stop
    BY <2>14 DEF TypeOK, Stop
  <2>15. CASE DrainCut
    BY <2>15 DEF TypeOK, DrainCut, Running
  <2>16. CASE CloseReturn
    BY <2>16 DEF TypeOK, CloseReturn
  <2>17. CASE UNCHANGED vars
    BY <2>17 DEF TypeOK, vars
  <2> QED  BY <2>1, <2>2, <2>3, <2>4, <2>5, <2>6, <2>7, <2>8, <2>9, <2>10, <2>11, <2>12, <2>13,
              <2>14, <2>15, <2>16, <2>17
           DEF Next, Env, Pass, WorkerStep, RunStep, Timer, Shutdown
<1> QED  BY <1>1, <1>2, PTL DEF Spec

-----------------------------------------------------------------------------
(* What the helpers do.                                                    *)

\* q.add leaves the runs alone: it queues one name, and a sleeping worker may
\* wake up.
LEMMA AddEffect ==
    ASSUME TypeOK, NEW k \in Keys, NEW v \in 0..MaxPass, Add(k, v)
    PROVE  /\ pending' = pending \/ (~Closed /\ pending' = [pending EXCEPT ![k] = v])
           /\ \A w \in Workers : pc'[w] = pc[w] \/ (pc[w] = "waiting" /\ pc'[w] = "idle")
<1>1. Signal => \A w \in Workers : pc'[w] = pc[w] \/ (pc[w] = "waiting" /\ pc'[w] = "idle")
  BY DEF Signal, Waiting, TypeOK
<1> QED  BY <1>1 DEF Add

\* A worker that wakes up is in no run, before and after.
LEMMA WakingIsNoRun ==
    ASSUME \A w \in Workers : pc'[w] = pc[w] \/ (pc[w] = "waiting" /\ pc'[w] = "idle")
    PROVE  /\ Running' = Running
           /\ \A w \in Workers : pc'[w] \in {"running", "returned"} <=> pc[w] \in {"running", "returned"}
BY DEF Running

-----------------------------------------------------------------------------
(* One run per name.                                                       *)

\* The worker that q.inflight records for a name is the one that runs it.
THEOREM OneRunPerName == Spec => []PerKeyExclusion
<1> USE MaxPassAssumption, WorkersAssumption
<1>1. Init => PerKeyExclusion
  BY DEF Init, PerKeyExclusion
<1>2. TypeOK /\ PerKeyExclusion /\ [Next]_vars => PerKeyExclusion'
  <2> SUFFICES ASSUME TypeOK, PerKeyExclusion, [Next]_vars PROVE PerKeyExclusion'
    OBVIOUS
  <2> USE DEF envVars, passVars, queueVars, workerVars, timerVars
  <2>1. ASSUME UNCHANGED <<inflight, hold>>,
               \A w \in Workers : pc'[w] \in {"running", "returned"} <=> pc[w] \in {"running", "returned"}
        PROVE  PerKeyExclusion'
    BY <2>1 DEF PerKeyExclusion
  <2>2. ASSUME NEW k \in Keys, CreateApp(k) \/ DeleteApp(k) PROVE PerKeyExclusion'
    BY <2>1, <2>2 DEF CreateApp, DeleteApp
  <2>3. CASE PassStart \/ PassSourceError \/ PassRetain
    BY <2>1, <2>3 DEF PassStart, PassSourceError, PassRetain
  <2>4. ASSUME NEW k \in Keys, PassAdd(k) PROVE PerKeyExclusion'
    <3>1. Add(k, passNo) /\ passNo \in 0..MaxPass
      BY <2>4 DEF PassAdd, TypeOK
    <3> QED  BY <2>1, <2>4, <3>1, AddEffect, WakingIsNoRun DEF PassAdd
  <2>5. ASSUME NEW w \in Workers, NEW k \in Keys, Take(w, k) PROVE PerKeyExclusion'
    <3>1. pc[w] = "idle" /\ inflight[k] = NoWorker
      BY <2>5 DEF Take, First, Runnable
    <3>2. \A j \in Keys : inflight[j] # w
      BY <3>1 DEF PerKeyExclusion
    <3>3. /\ pc' = [pc EXCEPT ![w] = "running"] /\ inflight' = [inflight EXCEPT ![k] = w]
          /\ hold' = [hold EXCEPT ![w] = {<<k, pending[k]>>}]
      BY <2>5 DEF Take
    <3>4. \A j \in Keys : inflight'[j] = w <=> j = k
      BY <3>2, <3>3 DEF TypeOK
    <3>5. hold'[w] = {<<k, pending[k]>>}
      BY <3>3 DEF TypeOK
    <3>6. \A x \in Workers \ {w} : /\ pc'[x] = pc[x] /\ hold'[x] = hold[x]
                                   /\ \A j \in Keys : inflight'[j] = x <=> inflight[j] = x
      BY <3>1, <3>3 DEF TypeOK
    <3>7. pc'[w] = "running"
      BY <3>3 DEF TypeOK
    <3>8. \A j \in Keys : (\E i \in hold'[w] : i[1] = j) <=> j = k
      BY <3>5
    <3>9. \A i, j \in hold'[w] : i = j
      BY <3>5
    <3> QED  BY <3>4, <3>6, <3>7, <3>8, <3>9 DEF PerKeyExclusion
  <2>6. ASSUME NEW w \in Workers, Wait(w) \/ Exit(w) \/ Rebroadcast(w) PROVE PerKeyExclusion'
    <3>1. \A x \in Workers : pc'[x] \in {"running", "returned"} <=> pc[x] \in {"running", "returned"}
      BY <2>6 DEF Wait, Exit, Rebroadcast, Broadcast, Waiting, TypeOK
    <3> QED  BY <2>1, <2>6, <3>1 DEF Wait, Exit, Rebroadcast
  <2>7. ASSUME NEW w \in Workers, Release(w) PROVE PerKeyExclusion'
    <3>1. /\ pc[w] = "returned" /\ pc' = [pc EXCEPT ![w] = "released"] /\ hold' = [hold EXCEPT ![w] = {}]
          /\ inflight' = [k \in Keys |-> IF \E i \in hold[w] : i[1] = k THEN NoWorker ELSE inflight[k]]
      BY <2>7 DEF Release
    <3>2. \A k \in Keys : inflight[k] = w <=> \E i \in hold[w] : i[1] = k
      BY <3>1 DEF PerKeyExclusion
    <3>3. \A k \in Keys : inflight'[k] # w
      BY <3>1, <3>2
    <3>4. \A x \in Workers \ {w} : /\ pc'[x] = pc[x] /\ hold'[x] = hold[x]
                                   /\ \A k \in Keys : inflight'[k] = x <=> inflight[k] = x
      BY <3>1, <3>2 DEF TypeOK
    <3>5. pc'[w] = "released" /\ hold'[w] = {}
      BY <3>1 DEF TypeOK
    <3> QED  BY <3>3, <3>4, <3>5 DEF PerKeyExclusion
  <2>8. ASSUME NEW w \in Workers, RunStep(w) PROVE PerKeyExclusion'
    <3>1. \A x \in Workers : pc'[x] \in {"running", "returned"} <=> pc[x] \in {"running", "returned"}
      BY <2>8 DEF RunStep, Expire, RunReturn, TypeOK
    <3> QED  BY <2>1, <2>8, <3>1 DEF RunStep, Expire, RunReturn
  <2>9. ASSUME NEW i \in Instances, RequeueCheck(i) PROVE PerKeyExclusion'
    BY <2>1, <2>9 DEF RequeueCheck
  <2>10. ASSUME NEW i \in Instances, RequeueAdd(i) PROVE PerKeyExclusion'
    <3>1. Add(i[1], i[2]) /\ i[1] \in Keys /\ i[2] \in 0..MaxPass
      BY <2>10 DEF RequeueAdd, Instances
    <3> QED  BY <2>1, <2>10, <3>1, AddEffect, WakingIsNoRun DEF RequeueAdd
  <2>11. CASE Stop
    <3>1. \A x \in Workers : pc'[x] \in {"running", "returned"} <=> pc[x] \in {"running", "returned"}
      BY <2>11 DEF Stop, Waiting, TypeOK
    <3> QED  BY <2>1, <2>11, <3>1 DEF Stop
  <2>12. CASE DrainCut \/ CloseReturn
    BY <2>1, <2>12 DEF DrainCut, CloseReturn
  <2>13. CASE UNCHANGED vars
    BY <2>1, <2>13 DEF vars
  <2> QED  BY <2>2, <2>3, <2>4, <2>5, <2>6, <2>7, <2>8, <2>9, <2>10, <2>11, <2>12, <2>13
           DEF Next, Env, Pass, WorkerStep, Timer, Shutdown
<1> QED  BY <1>1, <1>2, TypeCorrect, PTL DEF Spec

-----------------------------------------------------------------------------
(* Runs whose app is gone, and runs at the end of the drain.               *)

\* Between passes the source's last answer is forgotten, and passes are numbered
\* from 1; the pool is closed only after the engine's loop; before the first add there is no pool: nothing is queued, runs, or
\* waits behind a timer.
Shape ==
    /\ phase # "adding" => passLive = {}
    /\ Closed => phase = "stopped"
    /\ phase = "adding" => passNo # 0
    /\ pool = "none" => /\ \A w \in Workers : pc[w] = "idle"
                        /\ Queued = {} /\ timers = {} /\ checked = {}

\* Shape is an invariant of the pool.
LEMMA ShapeHolds == Spec => []Shape
<1> USE MaxPassAssumption, WorkersAssumption
<1>1. Init => Shape
  BY DEF Init, Shape, Queued, Closed
<1>2. TypeOK /\ Shape /\ [Next]_vars => Shape'
  <2> SUFFICES ASSUME TypeOK, Shape, [Next]_vars PROVE Shape'
    OBVIOUS
  <2> USE DEF envVars, passVars, queueVars, workerVars, timerVars, Shape, Queued, Closed
  <2>1. ASSUME NEW k \in Keys, CreateApp(k) \/ DeleteApp(k) PROVE Shape'
    BY <2>1 DEF CreateApp, DeleteApp
  <2>2. CASE PassStart \/ PassSourceError
    BY <2>2 DEF PassStart, PassSourceError, TypeOK
  <2>3. CASE PassRetain
    BY <2>3 DEF PassRetain, TypeOK
  <2>4. ASSUME NEW k \in Keys, PassAdd(k) PROVE Shape'
    BY <2>4 DEF PassAdd, TypeOK
  <2>5. ASSUME NEW w \in Workers, NEW k \in Keys, Take(w, k) PROVE Shape'
    BY <2>5 DEF Take
  <2>6. ASSUME NEW w \in Workers, Wait(w) \/ Exit(w) \/ Rebroadcast(w) \/ Release(w) PROVE Shape'
    BY <2>6 DEF Wait, Exit, Rebroadcast, Release, Closed
  <2>7. ASSUME NEW w \in Workers, RunStep(w) PROVE Shape'
    BY <2>7 DEF RunStep, Expire, RunReturn
  <2>8. ASSUME NEW i \in Instances, RequeueCheck(i) \/ RequeueAdd(i) PROVE Shape'
    BY <2>8 DEF RequeueCheck, RequeueAdd
  <2>9. CASE Shutdown
    BY <2>9 DEF Shutdown, Stop, DrainCut, CloseReturn
  <2>10. CASE UNCHANGED vars
    BY <2>10 DEF vars
  <2> QED  BY <2>1, <2>2, <2>3, <2>4, <2>5, <2>6, <2>7, <2>8, <2>9, <2>10
           DEF Next, Env, Pass, WorkerStep, Timer
<1> QED  BY <1>1, <1>2, TypeCorrect, PTL DEF Spec

\* Once the drain limit has passed, every run's context has ended.
THEOREM DrainBoundsRuns == Spec => []DrainEndsRuns
<1> USE MaxPassAssumption, WorkersAssumption
<1>1. Init => DrainEndsRuns
  BY DEF Init, DrainEndsRuns
<1>2. TypeOK /\ Shape /\ DrainEndsRuns /\ [Next]_vars => DrainEndsRuns'
  <2> SUFFICES ASSUME TypeOK, Shape, DrainEndsRuns, [Next]_vars PROVE DrainEndsRuns'
    OBVIOUS
  <2> USE DEF envVars, passVars, queueVars, workerVars, timerVars, DrainEndsRuns
  <2>1. ASSUME UNCHANGED pool, Running' \subseteq Running, Running' \cap cut \subseteq cut' PROVE DrainEndsRuns'
    BY <2>1
  <2>2. ASSUME NEW k \in Keys, CreateApp(k) \/ DeleteApp(k) PROVE DrainEndsRuns'
    BY <2>2 DEF CreateApp, DeleteApp, Running
  <2>3. CASE PassStart \/ PassSourceError \/ PassRetain
    <3>1. UNCHANGED <<pool, pc>> /\ cut \subseteq cut'
      BY <2>3 DEF PassStart, PassSourceError, PassRetain
    <3> QED  BY <2>1, <3>1 DEF Running
  <2>4. ASSUME NEW k \in Keys, PassAdd(k) PROVE DrainEndsRuns'
    <3>1. Add(k, passNo) /\ passNo \in 0..MaxPass
      BY <2>4 DEF PassAdd, TypeOK
    <3>2. Running' = Running /\ cut' = cut
      BY <2>4, <3>1, AddEffect, WakingIsNoRun DEF PassAdd
    <3> QED  BY <2>4, <3>2 DEF PassAdd
  <2>5. ASSUME NEW w \in Workers, NEW k \in Keys, Take(w, k) PROVE DrainEndsRuns'
    BY <2>5 DEF Take
  <2>6. ASSUME NEW w \in Workers, Wait(w) \/ Exit(w) \/ Rebroadcast(w) \/ Expire(w) PROVE DrainEndsRuns'
    <3>1. UNCHANGED pool /\ cut \subseteq cut' /\ Running' \subseteq Running
      BY <2>6 DEF Wait, Exit, Rebroadcast, Expire, Broadcast, Waiting, Running, TypeOK
    <3> QED  BY <2>1, <3>1
  <2>7. ASSUME NEW w \in Workers, Release(w) PROVE DrainEndsRuns'
    <3>1. UNCHANGED pool /\ cut' = cut \ {w} /\ Running' \subseteq Running \ {w}
      BY <2>7 DEF Release, Running, TypeOK
    <3> QED  BY <2>1, <3>1
  <2>8. ASSUME NEW w \in Workers, NEW keyOnly \in BOOLEAN, RunReturn(w, keyOnly) PROVE DrainEndsRuns'
    <3>1. UNCHANGED <<pool, cut>> /\ Running' \subseteq Running
      BY <2>8 DEF RunReturn, Running, TypeOK
    <3> QED  BY <2>1, <3>1
  <2>9. ASSUME NEW i \in Instances, RequeueCheck(i) PROVE DrainEndsRuns'
    BY <2>9 DEF RequeueCheck, Running
  <2>10. ASSUME NEW i \in Instances, RequeueAdd(i) PROVE DrainEndsRuns'
    <3>1. Add(i[1], i[2]) /\ i[1] \in Keys /\ i[2] \in 0..MaxPass
      BY <2>10 DEF RequeueAdd, Instances
    <3>2. Running' = Running
      BY <3>1, AddEffect, WakingIsNoRun
    <3> QED  BY <2>10, <3>2 DEF RequeueAdd
  <2>11. CASE Stop
    BY <2>11 DEF Stop, Shape, Running, TypeOK
  <2>12. CASE DrainCut
    BY <2>12 DEF DrainCut, Running
  <2>13. CASE CloseReturn
    BY <2>13 DEF CloseReturn, Running
  <2>14. CASE UNCHANGED vars
    BY <2>14 DEF vars, Running
  <2> QED  BY <2>2, <2>3, <2>4, <2>5, <2>6, <2>7, <2>8, <2>9, <2>10, <2>11, <2>12, <2>13, <2>14
           DEF Next, Env, Pass, WorkerStep, RunStep, Timer, Shutdown
<1> QED  BY <1>1, <1>2, TypeCorrect, ShapeHolds, PTL DEF Spec

\* What is queued, or runs with a context that holds, was seen by the last
\* finished pass, by the one under way, or put back by a racing requeue.
THEOREM OnlyLive == Spec => []OnlyLiveRuns
<1> USE MaxPassAssumption, WorkersAssumption
<1>1. Init => OnlyLiveRuns
  BY DEF Init, OnlyLiveRuns, Queued, Running
<1>2. TypeOK /\ Shape /\ PerKeyExclusion /\ OnlyLiveRuns /\ [Next]_vars => OnlyLiveRuns'
  <2> SUFFICES ASSUME TypeOK, Shape, PerKeyExclusion, OnlyLiveRuns, [Next]_vars PROVE OnlyLiveRuns'
    OBVIOUS
  <2> USE DEF envVars, passVars, queueVars, workerVars, timerVars
  <2> DEFINE Seen == live \cup passLive \cup raced
  <2>1. ASSUME UNCHANGED hold, Seen \subseteq Seen', Queued' \subseteq Seen',
               Running' \subseteq Running, Running' \cap cut \subseteq cut'
        PROVE  OnlyLiveRuns'
    BY <2>1 DEF OnlyLiveRuns
  <2>2. Queued \subseteq Seen
    BY DEF OnlyLiveRuns
  <2>3. ASSUME NEW k \in Keys, CreateApp(k) \/ DeleteApp(k) PROVE OnlyLiveRuns'
    BY <2>1, <2>2, <2>3 DEF CreateApp, DeleteApp, Running, Queued
  <2>4. CASE PassStart
    BY <2>1, <2>2, <2>4 DEF PassStart, Shape, Running, Queued
  <2>5. CASE PassSourceError
    BY <2>1, <2>2, <2>5 DEF PassSourceError, Running, Queued
  <2>6. ASSUME NEW k \in Keys, PassAdd(k) PROVE OnlyLiveRuns'
    <3>1. Add(k, passNo) /\ passNo \in 0..MaxPass /\ k \in passLive
      BY <2>6 DEF PassAdd, TypeOK
    <3>2. Queued' \subseteq Queued \cup {k}
      BY <3>1, AddEffect DEF Queued, TypeOK
    <3>3. Running' = Running
      BY <3>1, AddEffect, WakingIsNoRun
    <3> QED  BY <2>1, <2>2, <2>6, <3>1, <3>2, <3>3 DEF PassAdd
  <2>7. CASE PassRetain
    <3>1. CASE pool = "none"
      BY <2>7, <3>1 DEF PassRetain, Shape, OnlyLiveRuns, Running, Queued
    <3>2. CASE pool # "none"
      <4>1. /\ live' = passLive /\ UNCHANGED <<pc, hold>>
            /\ pending' = [k \in Keys |-> IF k \in passLive THEN pending[k] ELSE 0]
            /\ cut' = cut \cup {inflight[k] : k \in {j \in Keys \ passLive : inflight[j] # NoWorker}}
        BY <2>7, <3>2 DEF PassRetain
      <4>2. Queued' \subseteq live'
        BY <4>1 DEF Queued
      <4>3. ASSUME NEW w \in Running' \ cut', NEW i \in hold'[w] PROVE i[1] \in live'
        <5>1. w \in Workers /\ pc[w] = "running" /\ i \in hold[w]
          BY <4>1, <4>3 DEF Running
        <5>2. i[1] \in Keys
          BY <5>1 DEF TypeOK, Instances
        <5>3. inflight[i[1]] = w
          BY <5>1, <5>2 DEF PerKeyExclusion
        <5> QED  BY <4>1, <4>3, <5>1, <5>2, <5>3
      <4> QED  BY <4>2, <4>3 DEF OnlyLiveRuns
    <3> QED  BY <3>1, <3>2
  <2>8. ASSUME NEW w \in Workers, NEW k \in Keys, Take(w, k) PROVE OnlyLiveRuns'
    <3>1. /\ k \in Queued /\ hold' = [hold EXCEPT ![w] = {<<k, pending[k]>>}] /\ cut' = cut \ {w}
          /\ pending' = [pending EXCEPT ![k] = 0] /\ pc' = [pc EXCEPT ![w] = "running"]
          /\ UNCHANGED <<live, passLive, raced>>
      BY <2>8 DEF Take, First, Runnable
    <3>2. Queued' \subseteq Queued
      BY <3>1 DEF Queued, TypeOK
    <3>3. ASSUME NEW x \in Running' \ cut', NEW i \in hold'[x] PROVE i[1] \in Seen
      <4>1. CASE x = w
        <5>1. hold'[w] = {<<k, pending[k]>>}
          BY <3>1 DEF TypeOK
        <5> QED  BY <2>2, <3>1, <3>3, <4>1, <5>1
      <4>2. CASE x # w
        BY <3>1, <3>3, <4>2 DEF OnlyLiveRuns, Running, TypeOK
      <4> QED  BY <4>1, <4>2
    <3> QED  BY <2>2, <3>1, <3>2, <3>3 DEF OnlyLiveRuns
  <2>9. ASSUME NEW w \in Workers, Wait(w) \/ Exit(w) \/ Rebroadcast(w) \/ Expire(w) PROVE OnlyLiveRuns'
    <3>1. UNCHANGED <<hold, pending, live, passLive, raced>> /\ cut \subseteq cut' /\ Running' \subseteq Running
      BY <2>9 DEF Wait, Exit, Rebroadcast, Expire, Broadcast, Waiting, Running, TypeOK
    <3> QED  BY <2>1, <2>2, <3>1 DEF Queued
  <2>10. ASSUME NEW w \in Workers, Release(w) PROVE OnlyLiveRuns'
    <3>1. /\ UNCHANGED <<pending, live, passLive, raced>> /\ cut' = cut \ {w} /\ Running' \subseteq Running \ {w}
          /\ \A x \in Workers \ {w} : hold'[x] = hold[x]
      BY <2>10 DEF Release, Running, TypeOK
    <3>2. Queued' = Queued /\ Running \subseteq Workers
      BY <3>1 DEF Queued, Running
    <3> QED  BY <3>1, <3>2 DEF OnlyLiveRuns
  <2>11. ASSUME NEW w \in Workers, NEW keyOnly \in BOOLEAN, RunReturn(w, keyOnly) PROVE OnlyLiveRuns'
    <3>1. UNCHANGED <<hold, pending, live, passLive, raced, cut>> /\ Running' \subseteq Running
      BY <2>11 DEF RunReturn, Running, TypeOK
    <3> QED  BY <2>1, <2>2, <3>1 DEF Queued
  <2>12. ASSUME NEW i \in Instances, RequeueCheck(i) PROVE OnlyLiveRuns'
    BY <2>1, <2>2, <2>12 DEF RequeueCheck, Running, Queued
  <2>13. ASSUME NEW i \in Instances, RequeueAdd(i) PROVE OnlyLiveRuns'
    <3>1. Add(i[1], i[2]) /\ i[1] \in Keys /\ i[2] \in 0..MaxPass
      BY <2>13 DEF RequeueAdd, Instances
    <3>2. Running' = Running /\ (Queued' = Queued \/ (~Closed /\ Queued' \subseteq Queued \cup {i[1]}))
      BY <3>1, AddEffect, WakingIsNoRun DEF Queued, TypeOK
    <3>3. /\ UNCHANGED <<live, passLive, hold, cut>>
          /\ raced' = IF Closed \/ i[1] \in live THEN raced ELSE raced \cup {i[1]}
      BY <2>13 DEF RequeueAdd
    <3> QED  BY <2>1, <2>2, <3>2, <3>3
  <2>14. CASE Stop
    <3>1. UNCHANGED <<hold, live, passLive, raced, cut>> /\ Queued' \subseteq Queued /\ Running' \subseteq Running
      BY <2>14 DEF Stop, Queued, Running, Waiting, TypeOK
    <3> QED  BY <2>1, <2>2, <3>1
  <2>15. CASE DrainCut \/ CloseReturn
    BY <2>1, <2>2, <2>15 DEF DrainCut, CloseReturn, Running, Queued
  <2>16. CASE UNCHANGED vars
    BY <2>1, <2>2, <2>16 DEF vars, Running, Queued
  <2> QED  BY <2>3, <2>4, <2>5, <2>6, <2>7, <2>8, <2>9, <2>10, <2>11, <2>12, <2>13, <2>14, <2>15, <2>16
           DEF Next, Env, Pass, WorkerStep, RunStep, Timer, Shutdown
<1> QED  BY <1>1, <1>2, TypeCorrect, ShapeHolds, OneRunPerName, PTL DEF Spec

-----------------------------------------------------------------------------
(* The queue's order.                                                      *)

\* R puts the elements of S in a line.
InLine(R, S) ==
    /\ R \subseteq S \X S
    /\ \A k \in S : <<k, k>> \notin R
    /\ \A j, k \in S : j # k => (<<j, k>> \in R <=> <<k, j>> \notin R)
    /\ \A i, j, k \in S : <<i, j>> \in R /\ <<j, k>> \in R => <<i, k>> \in R

\* Dropping names keeps the others in line.
LEMMA LineKept ==
    ASSUME NEW R, NEW S, NEW T, InLine(R, S)
    PROVE  InLine(R \cap (T \X T), S \cap T)
BY DEF InLine

\* A new name goes to the back of the line.
LEMMA LineAppended ==
    ASSUME NEW R, NEW S, NEW k, InLine(R, S), k \notin S
    PROVE  InLine(R \cup (S \X {k}), S \cup {k})
<1> DEFINE Q == R \cup (S \X {k})
           U == S \cup {k}
<1>1. R \subseteq S \X S /\ \A x \in S : <<x, x>> \notin R /\ <<x, k>> \notin R /\ <<k, x>> \notin R
  BY DEF InLine
<1>2. Q \subseteq U \X U
  BY <1>1
<1>3. \A a, b : <<a, b>> \in Q <=> <<a, b>> \in R \/ (a \in S /\ b = k)
  OBVIOUS
<1>4. \A x \in U : <<x, x>> \notin Q
  BY <1>1, <1>3
<1>5. \A a, b \in U : a # b => (<<a, b>> \in Q <=> <<b, a>> \notin Q)
  BY <1>1, <1>3 DEF InLine
<1>6. \A a, b, c \in U : <<a, b>> \in Q /\ <<b, c>> \in Q => <<a, c>> \in Q
  BY <1>1, <1>3 DEF InLine
<1> HIDE DEF Q, U
<1>7. InLine(Q, U)
  BY <1>2, <1>4, <1>5, <1>6 DEF InLine
<1> QED  BY <1>7 DEF Q, U

\* q.pending and q.order never disagree.
THEOREM QueueInLine == Spec => []QueueShape
<1> USE MaxPassAssumption, WorkersAssumption
<1>0. QueueShape <=> InLine(order, Queued)
  BY DEF QueueShape, InLine
<1>1. Init => QueueShape
  BY DEF Init, QueueShape, Queued
<1>2. TypeOK /\ Shape /\ QueueShape /\ [Next]_vars => QueueShape'
  <2> SUFFICES ASSUME TypeOK, Shape, InLine(order, Queued), [Next]_vars PROVE InLine(order', Queued')
    BY DEF QueueShape, InLine
  <2> USE DEF envVars, passVars, queueVars, workerVars, timerVars
  <2>1. ASSUME UNCHANGED <<pending, order>> PROVE InLine(order', Queued')
    BY <2>1 DEF Queued
  <2>2. ASSUME NEW k \in Keys, NEW v \in 1..MaxPass, Add(k, v) PROVE InLine(order', Queued')
    <3>1. CASE Closed
      BY <2>1, <2>2, <3>1 DEF Add
    <3>2. CASE ~Closed
      <4>1. pending' = [pending EXCEPT ![k] = v]
        BY <2>2, <3>2 DEF Add
      <4>2. Queued' = Queued \cup {k}
        BY <4>1 DEF Queued, TypeOK
      <4>3. CASE k \in Queued
        BY <2>2, <3>2, <4>2, <4>3 DEF Add
      <4>4. CASE k \notin Queued
        <5>1. order' = order \cup (Queued \X {k})
          BY <2>2, <3>2, <4>4 DEF Add
        <5> QED  BY <4>2, <4>4, <5>1, LineAppended
      <4> QED  BY <4>3, <4>4
    <3> QED  BY <3>1, <3>2
  <2>3. ASSUME NEW T, order' = Keep(T), Queued' = Queued \cap T PROVE InLine(order', Queued')
    BY <2>3, LineKept DEF Keep
  <2>4. ASSUME NEW k \in Keys, PassAdd(k) PROVE InLine(order', Queued')
    <3>1. Add(k, passNo) /\ passNo \in 1..MaxPass
      BY <2>4 DEF PassAdd, Shape, TypeOK
    <3> QED  BY <2>2, <3>1
  <2>5. CASE PassRetain
    <3>1. CASE pool = "none"
      BY <2>1, <2>5, <3>1 DEF PassRetain
    <3>2. CASE pool # "none"
      <4>1. /\ order' = Keep(passLive)
            /\ pending' = [k \in Keys |-> IF k \in passLive THEN pending[k] ELSE 0]
        BY <2>5, <3>2 DEF PassRetain
      <4>2. Queued' = Queued \cap passLive
        BY <4>1 DEF Queued
      <4> QED  BY <2>3, <4>1, <4>2
    <3> QED  BY <3>1, <3>2
  <2>6. ASSUME NEW w \in Workers, NEW k \in Keys, Take(w, k) PROVE InLine(order', Queued')
    <3>1. order' = Keep(Keys \ {k}) /\ pending' = [pending EXCEPT ![k] = 0]
      BY <2>6 DEF Take
    <3>2. Queued' = Queued \cap (Keys \ {k})
      BY <3>1 DEF Queued, TypeOK
    <3> QED  BY <2>3, <3>1, <3>2
  <2>7. ASSUME NEW i \in Instances, RequeueAdd(i) PROVE InLine(order', Queued')
    <3>1. Add(i[1], i[2]) /\ i[1] \in Keys /\ i[2] \in 1..MaxPass
      BY <2>7 DEF RequeueAdd, Instances
    <3> QED  BY <2>2, <3>1
  <2>8. CASE Stop
    <3>1. UNCHANGED <<pending, order>> \/ (pending' = [k \in Keys |-> 0] /\ order' = {})
      BY <2>8 DEF Stop
    <3> QED  BY <2>1, <3>1 DEF Queued, InLine
  <2>9. ASSUME NEW k \in Keys, CreateApp(k) \/ DeleteApp(k) PROVE InLine(order', Queued')
    BY <2>1, <2>9 DEF CreateApp, DeleteApp
  <2>10. CASE PassStart \/ PassSourceError \/ DrainCut \/ CloseReturn
    BY <2>1, <2>10 DEF PassStart, PassSourceError, DrainCut, CloseReturn
  <2>11. ASSUME NEW w \in Workers,
                Wait(w) \/ Exit(w) \/ Release(w) \/ Rebroadcast(w) \/ RunStep(w)
         PROVE  InLine(order', Queued')
    BY <2>1, <2>11 DEF Wait, Exit, Release, Rebroadcast, RunStep, Expire, RunReturn
  <2>12. ASSUME NEW i \in Instances, RequeueCheck(i) PROVE InLine(order', Queued')
    BY <2>1, <2>12 DEF RequeueCheck
  <2>13. CASE UNCHANGED vars
    BY <2>1, <2>13 DEF vars
  <2> QED  BY <2>4, <2>5, <2>6, <2>7, <2>8, <2>9, <2>10, <2>11, <2>12, <2>13
           DEF Next, Env, Pass, WorkerStep, Timer, Shutdown
<1> QED  BY <1>1, <1>2, TypeCorrect, ShapeHolds, PTL DEF Spec

-----------------------------------------------------------------------------
(* One place for every controller instance.                                *)

\* An instance is somewhere only once its pass has begun, and the names left
\* for a pass to add are forgotten with the pass.
Numbered ==
    /\ phase # "adding" => todo = {}
    /\ \A i \in Instances : InQueue(i) \/ InRun(i) \/ i \in timers \cup checked => i[2] <= passNo

\* A step that moves no instance to a new place keeps every one in its place.
LEMMA NothingMoves ==
    ASSUME OneTokenPerInstance, Numbered, passNo' >= passNo, TypeOK, TypeOK',
           phase' # "adding" => todo' = {},
           \A i \in Instances : /\ AwaitsAdd(i)' => AwaitsAdd(i)
                                /\ InQueue(i)' => InQueue(i)
                                /\ InRun(i)' => InRun(i),
           timers' \subseteq timers, checked' \subseteq checked
    PROVE  OneTokenPerInstance' /\ Numbered'
<1>1. \A i \in Instances : i[2] \in Nat
  BY MaxPassAssumption DEF Instances
<1>2. passNo \in Nat /\ passNo' \in Nat
  BY MaxPassAssumption DEF TypeOK
<1>3. OneTokenPerInstance'
  BY DEF OneTokenPerInstance
<1>4. ASSUME NEW i \in Instances, InQueue(i)' \/ InRun(i)' \/ i \in timers' \cup checked' PROVE i[2] <= passNo'
  <2>1. i[2] <= passNo
    BY <1>4 DEF Numbered
  <2> QED  BY <1>1, <1>2, <2>1
<1> QED  BY <1>3, <1>4 DEF Numbered

\* No two workers are in a run of one instance, nor one worker in two runs.
LEMMA RunsApart ==
    ASSUME TypeOK, PerKeyExclusion, NEW i \in Instances, NEW w \in Running, i \in hold[w]
    PROVE  \A x \in Running : (i \in hold[x] => x = w) /\ hold[w] = {i}
<1>1. i[1] \in Keys /\ w \in Workers /\ Running \subseteq Workers
  BY DEF Instances, Running
<1>2. inflight[i[1]] = w
  BY <1>1 DEF PerKeyExclusion, Running
<1>3. ASSUME NEW x \in Running, i \in hold[x] PROVE x = w
  BY <1>1, <1>2, <1>3 DEF PerKeyExclusion, Running
<1>4. hold[w] = {i}
  BY <1>1 DEF PerKeyExclusion
<1> QED  BY <1>3, <1>4

\* An instance is never in two places.
THEOREM InstanceInOnePlace == Spec => []OneTokenPerInstance
<1> USE MaxPassAssumption, WorkersAssumption
<1>1. Init => OneTokenPerInstance /\ Numbered
  BY DEF Init, OneTokenPerInstance, Numbered, AwaitsAdd, InQueue, InRun, Running, Instances
<1>2. TypeOK /\ TypeOK' /\ Shape /\ PerKeyExclusion /\ OneTokenPerInstance /\ Numbered /\ [Next]_vars
      => OneTokenPerInstance' /\ Numbered'
  <2> SUFFICES ASSUME TypeOK, TypeOK', Shape, PerKeyExclusion, OneTokenPerInstance, Numbered, [Next]_vars
               PROVE  OneTokenPerInstance' /\ Numbered'
    OBVIOUS
  <2> USE DEF envVars, passVars, queueVars, workerVars, timerVars
  <2>1. \A i \in Instances : i[1] \in Keys /\ i[2] \in 1..MaxPass /\ i = <<i[1], i[2]>>
    BY DEF Instances
  <2>2. passNo \in 0..MaxPass /\ passNo' \in 0..MaxPass
    BY DEF TypeOK
  <2>3. ASSUME NEW i \in Instances, ~AwaitsAdd(i)', ~InRun(i)', i \notin timers' \cup checked',
               i[2] <= passNo', passNo' = passNo, phase' # "adding" => todo' = {},
               timers' \subseteq timers, checked' \subseteq checked,
               \A j \in Instances \ {i} : /\ AwaitsAdd(j)' => AwaitsAdd(j)
                                          /\ InQueue(j)' => InQueue(j)
                                          /\ InRun(j)' => InRun(j)
        PROVE  OneTokenPerInstance' /\ Numbered'
    <3>1. OneTokenPerInstance'
      BY <2>3 DEF OneTokenPerInstance
    <3>2. Numbered'
      BY <2>3 DEF Numbered
    <3> QED  BY <3>1, <3>2
  <2>4. ASSUME NEW k \in Keys, CreateApp(k) \/ DeleteApp(k) PROVE OneTokenPerInstance' /\ Numbered'
    BY <2>2, <2>4, NothingMoves DEF CreateApp, DeleteApp, AwaitsAdd, InQueue, InRun, Running, Numbered
  <2>5. CASE PassStart
    <3>1. /\ passNo' = passNo + 1 /\ phase' = "adding"
          /\ \A i \in Instances : /\ AwaitsAdd(i)' => i[2] = passNo + 1
                                  /\ InQueue(i)' <=> InQueue(i)
                                  /\ InRun(i)' <=> InRun(i)
          /\ timers' = timers /\ checked' = checked
      BY <2>5 DEF PassStart, AwaitsAdd, InQueue, InRun, Running
    <3>2. \A i \in Instances : AwaitsAdd(i)' => ~InQueue(i) /\ ~InRun(i) /\ i \notin timers \cup checked
      BY <2>1, <2>2, <3>1 DEF Numbered
    <3>3. OneTokenPerInstance'
      BY <3>1, <3>2 DEF OneTokenPerInstance
    <3>4. ASSUME NEW i \in Instances, InQueue(i)' \/ InRun(i)' \/ i \in timers' \cup checked' PROVE i[2] <= passNo'
      <4>1. i[2] <= passNo
        BY <3>1, <3>4 DEF Numbered
      <4> QED  BY <2>1, <2>2, <3>1, <4>1
    <3> QED  BY <3>1, <3>3, <3>4 DEF Numbered
  <2>6. CASE PassSourceError
    <3>1. /\ passNo' = passNo + 1 /\ phase # "adding" /\ phase' = phase /\ todo' = todo
          /\ UNCHANGED <<pending, pc, hold, timers, checked>>
      BY <2>6 DEF PassSourceError
    <3>2. todo = {}
      BY <3>1 DEF Numbered
    <3> QED  BY <2>2, <3>1, <3>2, NothingMoves DEF AwaitsAdd, InQueue, InRun, Running
  <2>7. ASSUME NEW k \in Keys, PassAdd(k) PROVE OneTokenPerInstance' /\ Numbered'
    <3>1. /\ Add(k, passNo) /\ k \in todo /\ todo' = todo \ {k} /\ phase = "adding" /\ phase' = phase
          /\ UNCHANGED <<passNo, hold, timers, checked>>
      BY <2>7 DEF PassAdd
    <3>2. PICK i \in Instances : i = <<k, passNo>>
      <4>1. <<k, passNo>> \in Instances
        BY <2>2, <3>1 DEF Shape, Instances
      <4> QED  BY <4>1
    <3>3. AwaitsAdd(i)
      BY <3>1, <3>2 DEF AwaitsAdd
    <3>4. Running' = Running
      BY <2>2, <3>1, AddEffect, WakingIsNoRun
    <3>5. ~InQueue(i) /\ ~InRun(i) /\ i \notin timers \cup checked
      BY <3>3 DEF OneTokenPerInstance
    <3>6. pending' = pending \/ pending' = [pending EXCEPT ![k] = passNo]
      BY <2>2, <3>1, AddEffect
    <3>7. ASSUME NEW j \in Instances \ {i} PROVE InQueue(j)' => InQueue(j)
      BY <2>1, <3>1, <3>2, <3>6 DEF InQueue, TypeOK
    <3>8. \A j \in Instances : (AwaitsAdd(j)' => AwaitsAdd(j)) /\ (InRun(j)' <=> InRun(j))
      BY <3>1, <3>4 DEF AwaitsAdd, InRun
    <3>9. ~AwaitsAdd(i)'
      BY <3>1, <3>2 DEF AwaitsAdd
    <3>10. i[2] <= passNo'
      BY <2>2, <3>1, <3>2
    <3> QED  BY <2>3, <3>1, <3>2, <3>5, <3>7, <3>8, <3>9, <3>10
  <2>8. CASE PassRetain
    <3>1. /\ UNCHANGED <<passNo, todo, pc, hold, timers, checked>> /\ todo = {}
          /\ \A k \in Keys : pending'[k] = pending[k] \/ pending'[k] = 0
      BY <2>8 DEF PassRetain
    <3> QED  BY <2>1, <2>2, <3>1, NothingMoves DEF AwaitsAdd, InQueue, InRun, Running
  <2>9. ASSUME NEW w \in Workers, NEW k \in Keys, Take(w, k) PROVE OneTokenPerInstance' /\ Numbered'
    <3> DEFINE i == <<k, pending[k]>>
    <3>1. /\ k \in Queued /\ pc[w] = "idle"
          /\ hold' = [hold EXCEPT ![w] = {i}] /\ pending' = [pending EXCEPT ![k] = 0]
          /\ pc' = [pc EXCEPT ![w] = "running"]
          /\ UNCHANGED <<passNo, todo, passLive, phase, timers, checked>>
      BY <2>9 DEF Take, First, Runnable
    <3>2. i \in Instances /\ InQueue(i)
      BY <3>1 DEF Queued, Instances, InQueue, TypeOK
    <3>3. ~AwaitsAdd(i) /\ ~InRun(i) /\ i \notin timers \cup checked /\ i[2] <= passNo
      BY <3>2 DEF OneTokenPerInstance, Numbered
    <3>4. \A j \in Instances : InQueue(j)' => InQueue(j) /\ j # i
      BY <2>1, <3>1 DEF InQueue, TypeOK
    <3>5. \A j \in Instances : j # i => (InRun(j)' => InRun(j))
      BY <3>1 DEF InRun, Running, TypeOK
    <3>6. \A j \in Instances : AwaitsAdd(j)' <=> AwaitsAdd(j)
      BY <3>1 DEF AwaitsAdd
    <3> HIDE DEF i
    <3>7. OneTokenPerInstance'
      BY <3>1, <3>3, <3>4, <3>5, <3>6 DEF OneTokenPerInstance
    <3>8. Numbered'
      BY <3>1, <3>3, <3>4, <3>5 DEF Numbered
    <3> QED  BY <3>7, <3>8
  <2>10. ASSUME NEW w \in Workers, Wait(w) \/ Exit(w) \/ Release(w) \/ Rebroadcast(w) \/ Expire(w)
         PROVE  OneTokenPerInstance' /\ Numbered'
    <3>1. UNCHANGED <<passNo, todo, phase, pending, timers, checked>>
      BY <2>10 DEF Wait, Exit, Release, Rebroadcast, Expire
    <3>2. Running' \subseteq Running /\ \A x \in Running' : hold'[x] = hold[x]
      BY <2>10 DEF Wait, Exit, Release, Rebroadcast, Expire, Broadcast, Running, Waiting, TypeOK
    <3> QED  BY <2>2, <3>1, <3>2, NothingMoves DEF AwaitsAdd, InQueue, InRun, Numbered
  <2>11. ASSUME NEW w \in Workers, NEW keyOnly \in BOOLEAN, RunReturn(w, keyOnly)
         PROVE  OneTokenPerInstance' /\ Numbered'
    <3>1. /\ w \in Running /\ pc' = [pc EXCEPT ![w] = "returned"]
          /\ timers' = IF keyOnly THEN timers \cup hold[w] ELSE timers
          /\ UNCHANGED <<passNo, todo, phase, pending, hold, checked>>
      BY <2>11 DEF RunReturn, Running
    <3>2. Running' = Running \ {w}
      BY <3>1 DEF Running, TypeOK
    <3>3. ASSUME NEW i \in hold[w] PROVE i \in Instances /\ InRun(i) /\ ~InRun(i)'
      <4>1. i \in Instances
        BY <3>1, <3>3 DEF TypeOK, Running
      <4>2. \A x \in Running : i \in hold[x] => x = w
        BY <3>1, <3>3, <4>1, RunsApart
      <4> QED  BY <3>1, <3>2, <3>3, <4>1, <4>2 DEF InRun
    <3>4. \A j \in Instances : /\ AwaitsAdd(j)' <=> AwaitsAdd(j)
                               /\ InQueue(j)' <=> InQueue(j)
                               /\ InRun(j)' => InRun(j)
      BY <3>1, <3>2 DEF AwaitsAdd, InQueue, InRun
    <3>5. timers' \subseteq timers \cup hold[w]
      BY <3>1
    <3>6. OneTokenPerInstance'
      BY <3>1, <3>3, <3>4, <3>5 DEF OneTokenPerInstance
    <3>7. Numbered'
      BY <3>1, <3>3, <3>4, <3>5 DEF Numbered
    <3> QED  BY <3>6, <3>7
  <2>12. ASSUME NEW i \in Instances, RequeueCheck(i) PROVE OneTokenPerInstance' /\ Numbered'
    <3>1. /\ i \in timers /\ timers' = timers \ {i} /\ checked' \subseteq checked \cup {i}
          /\ UNCHANGED <<passNo, todo, phase, pending, pc, hold>>
      BY <2>12 DEF RequeueCheck
    <3>2. \A j \in Instances : /\ AwaitsAdd(j)' <=> AwaitsAdd(j)
                               /\ InQueue(j)' <=> InQueue(j)
                               /\ InRun(j)' <=> InRun(j)
      BY <3>1 DEF AwaitsAdd, InQueue, InRun, Running
    <3>3. OneTokenPerInstance'
      BY <3>1, <3>2 DEF OneTokenPerInstance
    <3>4. Numbered'
      BY <3>1, <3>2 DEF Numbered
    <3> QED  BY <3>3, <3>4
  <2>13. ASSUME NEW i \in Instances, RequeueAdd(i) PROVE OneTokenPerInstance' /\ Numbered'
    <3>1. /\ Add(i[1], i[2]) /\ i \in checked /\ checked' = checked \ {i}
          /\ UNCHANGED <<passNo, todo, phase, hold, timers>>
      BY <2>13 DEF RequeueAdd
    <3>2. Running' = Running
      BY <2>1, <3>1, AddEffect, WakingIsNoRun
    <3>3. ~AwaitsAdd(i) /\ ~InRun(i) /\ i \notin timers /\ i[2] <= passNo
      BY <3>1 DEF OneTokenPerInstance, Numbered
    <3>4. pending' = pending \/ pending' = [pending EXCEPT ![i[1]] = i[2]]
      BY <2>1, <3>1, AddEffect
    <3>5. ASSUME NEW j \in Instances \ {i} PROVE InQueue(j)' => InQueue(j)
      BY <2>1, <3>4 DEF InQueue, TypeOK
    <3>6. \A j \in Instances : (AwaitsAdd(j)' <=> AwaitsAdd(j)) /\ (InRun(j)' <=> InRun(j))
      BY <3>1, <3>2 DEF AwaitsAdd, InRun
    <3>7. phase' # "adding" => todo' = {}
      BY <3>1 DEF Numbered
    <3> QED  BY <2>3, <3>1, <3>3, <3>5, <3>6, <3>7
  <2>14. CASE Stop
    <3>1. /\ UNCHANGED <<passNo, todo, hold, timers, checked>> /\ phase = "select"
          /\ \A k \in Keys : pending'[k] = pending[k] \/ pending'[k] = 0
          /\ Running' \subseteq Running
      BY <2>14 DEF Stop, Running, Waiting, TypeOK
    <3>2. todo = {}
      BY <3>1 DEF Numbered
    <3> QED  BY <2>1, <2>2, <3>1, <3>2, NothingMoves DEF AwaitsAdd, InQueue, InRun
  <2>15. CASE DrainCut \/ CloseReturn
    BY <2>2, <2>15, NothingMoves DEF DrainCut, CloseReturn, AwaitsAdd, InQueue, InRun, Running, Numbered
  <2>16. CASE UNCHANGED vars
    BY <2>2, <2>16, NothingMoves DEF vars, AwaitsAdd, InQueue, InRun, Running, Numbered
  <2> QED  BY <2>4, <2>5, <2>6, <2>7, <2>8, <2>9, <2>10, <2>11, <2>12, <2>13, <2>14, <2>15, <2>16
           DEF Next, Env, Pass, WorkerStep, RunStep, Timer, Shutdown
<1> QED  BY <1>1, <1>2, TypeCorrect, ShapeHolds, OneRunPerName, PTL DEF Spec

-----------------------------------------------------------------------------
(* No wake-up is lost.                                                     *)

\* The workers on their way to next().
Awake == {w \in Workers : pc[w] = "idle"}

\* Every runnable name has an awake worker of its own.
Served == Cardinality(Runnable) <= Cardinality(Awake)

\* Nobody sleeps once close has begun, and nobody sleeps before the first add.
NoSleepers == pool # "up" => Waiting = {}

\* Counting is monotone.
LEMMA ServedMonotone ==
    ASSUME TypeOK, TypeOK', Served, Runnable' \subseteq Runnable, Awake \subseteq Awake'
    PROVE  Served'
<1>1. IsFiniteSet(Runnable) /\ IsFiniteSet(Awake')
  BY KeysAssumption, WorkersAssumption, FS_Subset DEF Runnable, Queued, Awake
<1>2. IsFiniteSet(Runnable') /\ IsFiniteSet(Awake)
  BY <1>1, FS_Subset
<1>3. Cardinality(Runnable') <= Cardinality(Runnable) /\ Cardinality(Awake) <= Cardinality(Awake')
  BY <1>1, FS_Subset
<1> QED  BY <1>1, <1>2, <1>3, FS_CardinalityType DEF Served

\* One more runnable name and one more awake worker.
LEMMA ServedUp ==
    ASSUME Served, NEW k, NEW w \in Workers, w \notin Awake,
           Runnable' \subseteq Runnable \cup {k}, Awake' = Awake \cup {w}
    PROVE  Served'
<1>1. IsFiniteSet(Runnable) /\ IsFiniteSet(Awake)
  BY KeysAssumption, WorkersAssumption, FS_Subset DEF Runnable, Queued, Awake
<1>2. /\ IsFiniteSet(Runnable \cup {k})
      /\ Cardinality(Runnable \cup {k}) <= Cardinality(Runnable) + 1
  <2>1. Cardinality(Runnable) \in Nat
    BY <1>1, FS_CardinalityType
  <2>2. /\ IsFiniteSet(Runnable \cup {k})
        /\ \/ Cardinality(Runnable \cup {k}) = Cardinality(Runnable)
           \/ Cardinality(Runnable \cup {k}) = Cardinality(Runnable) + 1
    BY <1>1, FS_AddElement
  <2> QED  BY <2>1, <2>2
<1>3. IsFiniteSet(Runnable') /\ Cardinality(Runnable') <= Cardinality(Runnable \cup {k})
  BY <1>2, FS_Subset
<1>4. Cardinality(Awake') = Cardinality(Awake) + 1
  BY <1>1, FS_AddElement
<1> QED  BY <1>1, <1>2, <1>3, <1>4, FS_CardinalityType DEF Served

\* A worker takes one runnable name.
LEMMA ServedDown ==
    ASSUME Served, NEW k \in Runnable, NEW w \in Awake,
           Runnable' \subseteq Runnable \ {k}, Awake' = Awake \ {w}
    PROVE  Served'
<1>1. IsFiniteSet(Runnable) /\ IsFiniteSet(Awake)
  BY KeysAssumption, WorkersAssumption, FS_Subset DEF Runnable, Queued, Awake
<1>2. /\ IsFiniteSet(Runnable \ {k}) /\ IsFiniteSet(Awake \ {w})
      /\ Cardinality(Runnable \ {k}) = Cardinality(Runnable) - 1
      /\ Cardinality(Awake \ {w}) = Cardinality(Awake) - 1
  BY <1>1, FS_RemoveElement
<1>3. IsFiniteSet(Runnable') /\ Cardinality(Runnable') <= Cardinality(Runnable \ {k})
  BY <1>2, FS_Subset
<1> QED  BY <1>1, <1>2, <1>3, FS_CardinalityType DEF Served

\* q.add keeps the count: the name it appends comes with a worker it wakes, and
\* if there is none to wake, nobody sleeps.
LEMMA AddServes ==
    ASSUME TypeOK, TypeOK', NoSleepers, NoLostWakeup, NEW k \in Keys, NEW v \in 0..MaxPass, Add(k, v),
           UNCHANGED <<inflight>>, pool' = pool \/ (pool = "none" /\ pool' = "up")
    PROVE  NoLostWakeup' /\ NoSleepers'
<1>1. CASE Waiting = {}
  <2>1. pc' = pc
    BY <1>1 DEF Add, Signal
  <2> QED  BY <1>1, <2>1 DEF NoLostWakeup, NoSleepers, Waiting
<1>2. CASE Waiting # {}
  <2>1. pool = "up" /\ pool' = "up" /\ ~Closed
    BY <1>2 DEF NoSleepers, Closed
  <2>2. pending' = [pending EXCEPT ![k] = v]
    BY <2>1 DEF Add
  <2>3. CASE k \in Queued
    <3>1. pc' = pc
      BY <2>1, <2>3 DEF Add
    <3>2. Runnable' \subseteq Runnable /\ Awake' = Awake
      BY <2>2, <2>3, <3>1 DEF Runnable, Queued, Awake, TypeOK
    <3>3. Served => Served'
      BY <3>2, ServedMonotone
    <3> QED  BY <2>1, <3>1, <3>3 DEF NoLostWakeup, NoSleepers, Served, Awake, Waiting
  <2>4. CASE k \notin Queued
    <3>1. PICK w \in Waiting : pc' = [pc EXCEPT ![w] = "idle"]
      BY <1>2, <2>1, <2>4 DEF Add, Signal
    <3>2. /\ w \in Workers /\ w \notin Awake /\ Awake' = Awake \cup {w}
          /\ Runnable' \subseteq Runnable \cup {k}
      BY <2>2, <3>1 DEF Waiting, Awake, Runnable, Queued, TypeOK
    <3>3. Served => Served'
      BY <3>2, ServedUp
    <3>4. \A x \in Workers : pc[x] = "released" => pc'[x] = "released"
      BY <3>1 DEF Waiting, TypeOK
    <3> QED  BY <2>1, <3>3, <3>4 DEF NoLostWakeup, NoSleepers, Served, Awake, Waiting
  <2> QED  BY <2>3, <2>4
<1> QED  BY <1>1, <1>2

\* While a worker sleeps, no runnable name waits for a wake-up that never comes.
THEOREM WakeupsNeverLost == Spec => []NoLostWakeup
<1> USE MaxPassAssumption, WorkersAssumption
<1>1. Init => NoLostWakeup /\ NoSleepers
  BY DEF Init, NoLostWakeup, NoSleepers, Waiting
<1>2. TypeOK /\ TypeOK' /\ Shape /\ NoLostWakeup /\ NoSleepers /\ [Next]_vars => NoLostWakeup' /\ NoSleepers'
  <2> SUFFICES ASSUME TypeOK, TypeOK', Shape, NoLostWakeup, NoSleepers, [Next]_vars
               PROVE  NoLostWakeup' /\ NoSleepers'
    OBVIOUS
  <2> USE DEF envVars, passVars, queueVars, workerVars, timerVars
  <2>1. ASSUME Waiting' = {} PROVE NoLostWakeup' /\ NoSleepers'
    BY <2>1 DEF NoLostWakeup, NoSleepers
  <2>2. ASSUME Runnable' \subseteq Runnable, Awake \subseteq Awake', pool' # "up" => Waiting' = {},
               Waiting' \subseteq Waiting, \A w \in Workers : pc[w] = "released" => pc'[w] = "released"
        PROVE  NoLostWakeup' /\ NoSleepers'
    <3>1. Served => Served'
      BY <2>2, ServedMonotone
    <3> QED  BY <2>2, <3>1 DEF NoLostWakeup, NoSleepers, Served, Awake
  <2>3. ASSUME UNCHANGED <<pc, pool>>, Runnable' \subseteq Runnable PROVE NoLostWakeup' /\ NoSleepers'
    BY <2>2, <2>3 DEF Awake, Waiting, NoSleepers
  <2>4. ASSUME NEW k \in Keys, CreateApp(k) \/ DeleteApp(k) PROVE NoLostWakeup' /\ NoSleepers'
    BY <2>3, <2>4 DEF CreateApp, DeleteApp, Runnable, Queued
  <2>5. CASE PassStart \/ PassSourceError
    BY <2>3, <2>5 DEF PassStart, PassSourceError, Runnable, Queued
  <2>6. CASE PassRetain
    <3>1. /\ UNCHANGED <<pc, pool, inflight>>
          /\ \A k \in Keys : pending'[k] = pending[k] \/ pending'[k] = 0
      BY <2>6 DEF PassRetain
    <3> QED  BY <2>3, <3>1 DEF Runnable, Queued
  <2>7. ASSUME NEW k \in Keys, PassAdd(k) PROVE NoLostWakeup' /\ NoSleepers'
    BY <2>7, AddServes DEF PassAdd, TypeOK
  <2>8. ASSUME NEW w \in Workers, NEW k \in Keys, Take(w, k) PROVE NoLostWakeup' /\ NoSleepers'
    <3>1. /\ k \in Runnable /\ w \in Awake /\ pool = "up" /\ pool' = "up"
          /\ pending' = [pending EXCEPT ![k] = 0] /\ inflight' = [inflight EXCEPT ![k] = w]
          /\ pc' = [pc EXCEPT ![w] = "running"]
      BY <2>8 DEF Take, First, Awake
    <3>2. Runnable' \subseteq Runnable \ {k} /\ Awake' = Awake \ {w} /\ Waiting' = Waiting
      BY <3>1 DEF Runnable, Queued, Awake, Waiting, TypeOK
    <3>3. Served => Served'
      BY <3>1, <3>2, ServedDown
    <3>4. \A x \in Workers : pc[x] = "released" => pc'[x] = "released"
      BY <3>1 DEF Awake, TypeOK
    <3> QED  BY <3>1, <3>2, <3>3, <3>4 DEF NoLostWakeup, NoSleepers, Served, Awake
  <2>9. ASSUME NEW w \in Workers, Wait(w) PROVE NoLostWakeup' /\ NoSleepers'
    <3>1. pool' = "up" /\ Runnable' = {}
      BY <2>9 DEF Wait, Runnable, Queued
    <3>2. IsFiniteSet(Awake')
      BY FS_Subset DEF Awake
    <3>3. Served'
      BY <3>1, <3>2, FS_EmptySet, FS_CardinalityType DEF Served
    <3> QED  BY <3>1, <3>3 DEF NoLostWakeup, NoSleepers, Served, Awake
  <2>10. ASSUME NEW w \in Workers, Exit(w) PROVE NoLostWakeup' /\ NoSleepers'
    <3>1. Waiting = {}
      BY <2>10 DEF Exit, Closed, NoSleepers
    <3>2. Waiting' = {}
      BY <2>10, <3>1 DEF Exit, Waiting, TypeOK
    <3> QED  BY <2>1, <3>2
  <2>11. ASSUME NEW w \in Workers, Release(w) PROVE NoLostWakeup' /\ NoSleepers'
    <3>1. pc'[w] = "released" /\ pool' = pool /\ Waiting' = Waiting
      BY <2>11 DEF Release, Waiting, TypeOK
    <3> QED  BY <3>1 DEF NoLostWakeup, NoSleepers
  <2>12. ASSUME NEW w \in Workers, Rebroadcast(w) PROVE NoLostWakeup' /\ NoSleepers'
    <3>1. Waiting' = {}
      BY <2>12 DEF Rebroadcast, Broadcast, Waiting
    <3> QED  BY <2>1, <3>1
  <2>13. ASSUME NEW w \in Workers, RunStep(w) PROVE NoLostWakeup' /\ NoSleepers'
    <3>1. /\ UNCHANGED <<pool, pending, inflight>> /\ Awake' = Awake /\ Waiting' = Waiting
          /\ \A x \in Workers : pc[x] = "released" => pc'[x] = "released"
      BY <2>13 DEF RunStep, Expire, RunReturn, Awake, Waiting, TypeOK
    <3> QED  BY <2>2, <3>1 DEF Runnable, Queued, NoSleepers
  <2>14. ASSUME NEW i \in Instances, RequeueCheck(i) PROVE NoLostWakeup' /\ NoSleepers'
    BY <2>3, <2>14 DEF RequeueCheck, Runnable, Queued
  <2>15. ASSUME NEW i \in Instances, RequeueAdd(i) PROVE NoLostWakeup' /\ NoSleepers'
    <3>1. Add(i[1], i[2]) /\ i[1] \in Keys /\ i[2] \in 0..MaxPass /\ UNCHANGED <<inflight, pool>>
      BY <2>15 DEF RequeueAdd, Instances
    <3> QED  BY <3>1, AddServes
  <2>16. CASE Stop
    <3>1. Waiting' = {}
      BY <2>16 DEF Stop, Waiting, Shape
    <3> QED  BY <2>1, <3>1
  <2>17. CASE DrainCut \/ CloseReturn
    <3>1. pool # "up" /\ Waiting' = Waiting
      BY <2>17 DEF DrainCut, CloseReturn, Waiting
    <3> QED  BY <2>1, <3>1 DEF NoSleepers
  <2>18. CASE UNCHANGED vars
    BY <2>3, <2>18 DEF vars, Runnable, Queued
  <2> QED  BY <2>4, <2>5, <2>6, <2>7, <2>8, <2>9, <2>10, <2>11, <2>12, <2>13, <2>14, <2>15, <2>16, <2>17, <2>18
           DEF Next, Env, Pass, WorkerStep, Timer, Shutdown
<1> QED  BY <1>1, <1>2, TypeCorrect, ShapeHolds, PTL DEF Spec

-----------------------------------------------------------------------------
(* The pool implements the executor.                                       *)

\* A worker that has its context ended is the worker of at most one name.
LEMMA BusyApart ==
    ASSUME TypeOK, PerKeyExclusion, NEW j \in Busy, NEW k \in Busy, inflight[j] = inflight[k]
    PROVE  j = k
<1>1. PICK w \in Workers : w = inflight[j]
  BY DEF TypeOK, Busy
<1>2. (\E i \in hold[w] : i[1] = j) /\ (\E i \in hold[w] : i[1] = k)
  BY <1>1 DEF PerKeyExclusion, Busy
<1> QED  BY <1>1, <1>2 DEF PerKeyExclusion

\* q.add is a request for one more run, or nothing after close.
LEMMA AddWants ==
    ASSUME TypeOK, NEW k \in Keys, NEW v \in 1..MaxPass, Add(k, v),
           UNCHANGED <<inflight, cut>>, Closed' <=> Closed
    PROVE  Executor!Want(k) \/ UNCHANGED Executor!vars
<1>1. Busy' = Busy /\ Ended' = Ended
  BY DEF Busy, Ended
<1>2. CASE Closed
  BY <1>1, <1>2 DEF Add, Executor!vars, Queued
<1>3. CASE ~Closed
  <2>1. pending' = [pending EXCEPT ![k] = v]
    BY <1>3 DEF Add
  <2>2. Queued' = Queued \cup {k}
    BY <2>1 DEF Queued, TypeOK
  <2> QED  BY <1>1, <1>3, <2>2 DEF Executor!Want
<1> QED  BY <1>2, <1>3

\* Every step of workers, timers, passes and shutdown is a step of the abstract
\* executor, or changes nothing it can see.
THEOREM ImplementsExecutor == Spec => KeepsItsPromise
<1> USE MaxPassAssumption, WorkersAssumption
<1>1. Init => Executor!Init
  BY DEF Init, Executor!Init, Queued, Busy, Ended, Closed
<1>2. TypeOK /\ Shape /\ PerKeyExclusion /\ [Next]_vars => [Executor!Next]_(Executor!vars)
  <2> SUFFICES ASSUME TypeOK, Shape, PerKeyExclusion, [Next]_vars
               PROVE  Executor!Next \/ UNCHANGED Executor!vars
    OBVIOUS
  <2> USE DEF envVars, passVars, queueVars, workerVars, timerVars
  <2>1. ASSUME UNCHANGED <<pending, inflight, cut>>, Closed' <=> Closed PROVE UNCHANGED Executor!vars
    BY <2>1 DEF Executor!vars, Queued, Busy, Ended
  <2>2. ASSUME NEW S \in SUBSET Keys, Executor!EndContexts(S) \/ Executor!Retain(S) PROVE Executor!Next
    BY <2>2 DEF Executor!Next
  <2>3. ASSUME NEW k \in Keys, Executor!Want(k) \/ Executor!Begin(k) \/ Executor!Finish(k) PROVE Executor!Next
    BY <2>3 DEF Executor!Next
  <2>4. ASSUME NEW k \in Keys, CreateApp(k) \/ DeleteApp(k) PROVE UNCHANGED Executor!vars
    BY <2>1, <2>4 DEF CreateApp, DeleteApp, Closed
  <2>5. CASE PassStart \/ PassSourceError
    BY <2>1, <2>5 DEF PassStart, PassSourceError, Closed
  <2>6. ASSUME NEW k \in Keys, PassAdd(k) PROVE Executor!Next \/ UNCHANGED Executor!vars
    <3>1. Add(k, passNo) /\ passNo \in 1..MaxPass /\ UNCHANGED <<inflight, cut>>
      BY <2>6 DEF PassAdd, Shape, TypeOK
    <3>2. Closed' <=> Closed
      BY <2>6 DEF PassAdd, Closed
    <3> QED  BY <2>3, <3>1, <3>2, AddWants
  <2>7. CASE PassRetain
    <3>1. CASE pool = "none"
      BY <2>1, <2>7, <3>1 DEF PassRetain, Closed
    <3>2. CASE pool # "none"
      <4>1. /\ pending' = [k \in Keys |-> IF k \in passLive THEN pending[k] ELSE 0]
            /\ cut' = cut \cup {inflight[k] : k \in {j \in Keys \ passLive : inflight[j] # NoWorker}}
            /\ UNCHANGED <<pool, inflight>>
        BY <2>7, <3>2 DEF PassRetain
      <4>2. Queued' = Queued \cap passLive /\ Busy' = Busy /\ (Closed' <=> Closed)
        BY <4>1 DEF Queued, Busy, Closed
      <4>3. cut' = cut \cup {inflight[k] : k \in Busy \ passLive}
        BY <4>1 DEF Busy
      <4>4. ASSUME NEW k \in Busy PROVE inflight[k] \in cut' <=> inflight[k] \in cut \/ k \notin passLive
        BY <4>3, BusyApart
      <4>5. Ended' = Ended \cup (Busy \ passLive)
        BY <4>1, <4>2, <4>4 DEF Ended
      <4>6. Executor!Retain(passLive)
        BY <4>2, <4>5 DEF Executor!Retain
      <4> QED  BY <2>2, <4>6 DEF TypeOK
    <3> QED  BY <3>1, <3>2
  <2>8. ASSUME NEW w \in Workers, NEW k \in Keys, Take(w, k) PROVE Executor!Next
    <3>1. /\ pool = "up" /\ pool' = pool /\ k \in Queued /\ k \notin Busy /\ pc[w] = "idle"
          /\ pending' = [pending EXCEPT ![k] = 0] /\ inflight' = [inflight EXCEPT ![k] = w] /\ cut' = cut \ {w}
      BY <2>8 DEF Take, First, Runnable, Busy
    <3>2. Queued' = Queued \ {k} /\ Busy' = Busy \cup {k} /\ ~Closed /\ ~Closed'
      BY <3>1 DEF Queued, Busy, Closed, TypeOK
    <3>3. \A j \in Busy : inflight[j] # w /\ inflight'[j] = inflight[j]
      BY <3>1 DEF PerKeyExclusion, Busy, TypeOK
    <3>4. Ended' = Ended
      BY <3>1, <3>2, <3>3 DEF Ended, TypeOK
    <3>5. Executor!Begin(k)
      BY <3>1, <3>2, <3>4 DEF Executor!Begin
    <3> QED  BY <2>3, <3>5
  <2>9. ASSUME NEW w \in Workers, Wait(w) \/ Exit(w) \/ Rebroadcast(w) PROVE UNCHANGED Executor!vars
    BY <2>1, <2>9 DEF Wait, Exit, Rebroadcast, Closed
  <2>10. ASSUME NEW w \in Workers, Release(w) PROVE Executor!Next \/ UNCHANGED Executor!vars
    <3>1. /\ inflight' = [k \in Keys |-> IF \E i \in hold[w] : i[1] = k THEN NoWorker ELSE inflight[k]]
          /\ pc[w] = "returned" /\ cut' = cut \ {w} /\ UNCHANGED <<pending, pool>>
      BY <2>10 DEF Release
    <3>2. \A k \in Keys : (\E i \in hold[w] : i[1] = k) <=> inflight[k] = w
      BY <3>1 DEF PerKeyExclusion
    <3>3. inflight' = [k \in Keys |-> IF inflight[k] = w THEN NoWorker ELSE inflight[k]]
      BY <3>1, <3>2
    <3>4. Queued' = Queued /\ (Closed' <=> Closed)
      BY <3>1 DEF Queued, Closed
    <3>5. CASE \E k \in Keys : inflight[k] = w
      <4>1. PICK k \in Keys : inflight[k] = w
        BY <3>5
      <4>2. \A j \in Busy : inflight[j] = w => j = k
        BY <4>1, BusyApart DEF Busy
      <4>3. Busy' = Busy \ {k} /\ k \in Busy
        BY <3>3, <4>1, <4>2 DEF Busy
      <4>4. Ended' = Ended \ {k}
        BY <3>1, <3>3, <4>2, <4>3 DEF Ended, Busy
      <4>5. Executor!Finish(k)
        BY <3>4, <4>3, <4>4 DEF Executor!Finish
      <4> QED  BY <2>3, <4>5
    <3>6. CASE \A k \in Keys : inflight[k] # w
      <4>1. inflight' = inflight
        BY <3>3, <3>6 DEF TypeOK
      <4>2. Busy' = Busy /\ Ended' = Ended
        BY <3>1, <3>6, <4>1 DEF Busy, Ended
      <4> QED  BY <3>4, <4>2 DEF Executor!vars
    <3> QED  BY <3>5, <3>6
  <2>11. ASSUME UNCHANGED <<pending, inflight>>, Closed' <=> Closed, cut \subseteq cut'
         PROVE  Executor!Next
    <3>1. Queued' = Queued /\ Busy' = Busy /\ Ended \subseteq Ended'
      BY <2>11 DEF Queued, Busy, Ended
    <3>2. Ended' \subseteq Busy /\ Busy \subseteq Keys
      BY <3>1 DEF Ended, Busy
    <3>3. Executor!EndContexts(Ended')
      BY <2>11, <3>1, <3>2 DEF Executor!EndContexts
    <3> QED  BY <2>2, <3>2, <3>3
  <2>12. ASSUME NEW w \in Workers, RunStep(w) PROVE Executor!Next
    BY <2>11, <2>12 DEF RunStep, Expire, RunReturn, Closed
  <2>13. ASSUME NEW i \in Instances, RequeueCheck(i) PROVE UNCHANGED Executor!vars
    BY <2>1, <2>13 DEF RequeueCheck, Closed
  <2>14. ASSUME NEW i \in Instances, RequeueAdd(i) PROVE Executor!Next \/ UNCHANGED Executor!vars
    <3>1. Add(i[1], i[2]) /\ i[1] \in Keys /\ i[2] \in 1..MaxPass /\ UNCHANGED <<inflight, cut, pool>>
      BY <2>14 DEF RequeueAdd, Instances
    <3>2. Closed' <=> Closed
      BY <3>1 DEF Closed
    <3> QED  BY <2>3, <3>1, <3>2, AddWants
  <2>15. CASE Stop
    <3>1. UNCHANGED <<inflight, cut>> /\ ~Closed /\ Closed'
      BY <2>15 DEF Stop, Shape, Closed
    <3>2. Queued' = {}
      BY <2>15 DEF Stop, Shape, Queued
    <3>3. Executor!Close
      BY <3>1, <3>2 DEF Executor!Close, Busy, Ended
    <3> QED  BY <3>3 DEF Executor!Next
  <2>16. CASE DrainCut
    BY <2>11, <2>16 DEF DrainCut, Closed
  <2>17. CASE CloseReturn
    BY <2>1, <2>17 DEF CloseReturn, Closed
  <2>18. CASE UNCHANGED vars
    BY <2>1, <2>18 DEF vars, Closed
  <2> QED  BY <2>4, <2>5, <2>6, <2>7, <2>8, <2>9, <2>10, <2>12, <2>13, <2>14, <2>15, <2>16, <2>17, <2>18
           DEF Next, Env, Pass, WorkerStep, Timer, Shutdown
<1> QED  BY <1>1, <1>2, TypeCorrect, ShapeHolds, OneRunPerName, PTL DEF Spec, KeepsItsPromise, Executor!Spec

\* The queue in line, only apps a pass saw, every instance in one place and no run past the
\* drain limit: the pool is sound for any apps, workers and passes.
THEOREM PoolIsSound == Spec => []PoolSound
BY QueueInLine, OnlyLive, InstanceInOnePlace, DrainBoundsRuns, PTL DEF PoolSound
=============================================================================
