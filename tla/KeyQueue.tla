------------------------------ MODULE KeyQueue ------------------------------
(***************************************************************************)
(* The keyed worker pool of the reconcile engine                           *)
(* (internal/reconcile/workqueue.go) together with the parts of the engine *)
(* that feed it (engine.go): the pass that adds one controller per app and *)
(* then retains the live names, the timer a run arms when it asks to be    *)
(* looked at again, and the shutdown that drains the pool.                 *)
(*                                                                         *)
(* Every section the code runs under q.mu is one action.  Everything that  *)
(* happens between two lock sections (a Broadcast after the unlock, the    *)
(* window between requeue's check and its add) is a separate step.         *)
(*                                                                         *)
(* A controller instance is identified by its key and by the number of the *)
(* pass that built it: the source builds new instances on every pass, and  *)
(* a timer re-adds the very instance that armed it.                        *)
(***************************************************************************)
EXTENDS Integers, FiniteSets

CONSTANTS
    Keys,       \* names of the keyed controllers ("app/<name>")
    Workers,    \* the goroutines of the pool
    MaxPass,    \* bound: how many passes the engine makes
    NoWorker    \* q.inflight has no entry for a name

ASSUME WorkersAssumption == IsFiniteSet(Workers) /\ Workers # {} /\ NoWorker \notin Workers

ASSUME KeysAssumption == IsFiniteSet(Keys) /\ Keys # {}

ASSUME MaxPassAssumption == MaxPass \in Nat \ {0}

VARIABLES
    apps,       \* the app rows of the store: what the next source call sees
    passNo,     \* passes begun so far
    todo,       \* names this pass has not reached yet
    passLive,   \* the names this pass's source call returned; {} between passes
    phase,      \* the Run loop: "select", "adding" (inside ReconcileAll), "stopped"
    pool,       \* e.queue: "none", "up", then close: "draining", "cut", "closed"
    pending,    \* q.pending: the pass number of the queued instance, 0 if none
    order,      \* q.order as the relation "is ahead of" on the queued names
    inflight,   \* q.inflight: the worker whose context the entry cancels
    live,       \* q.live; nil, which lets every name through, is Keys
    pc,         \* where each worker is in worker() and next()
    hold,       \* the instance <<key, pass>> a worker took, {} when it has none
    cut,        \* workers whose run context has ended (deadline or cancel)
    timers,     \* instances with an armed time.AfterFunc
    checked,    \* instances whose requeue has passed the live check but not added yet
    raced       \* history: names such an add put back after they had left live

envVars == <<apps>>
passVars == <<passNo, todo, passLive, phase>>
queueVars == <<pending, order, inflight, live>>
workerVars == <<pc, hold, cut>>
timerVars == <<timers, checked>>
vars == <<envVars, passVars, pool, queueVars, workerVars, timerVars, raced>>

Instances == Keys \X (1..MaxPass)

Queued == {k \in Keys : pending[k] # 0}

\* Mutant of Runnable: next() forgets to skip a busy name.
RunnableBusyToo == Queued

\* The loop of next(): queued and not in flight.
Runnable == {k \in Queued : inflight[k] = NoWorker}

Waiting == {w \in Workers : pc[w] = "waiting"}

\* The run a worker is in, once it has taken an instance.
Running == {w \in Workers : pc[w] = "running"}

Closed == pool \in {"draining", "cut", "closed"}

-----------------------------------------------------------------------------
Init ==
    /\ apps \in SUBSET Keys
    /\ passNo = 0
    /\ todo = {}
    /\ passLive = {}
    /\ phase = "select"
    /\ pool = "none"
    /\ pending = [k \in Keys |-> 0]
    /\ order = {}
    /\ inflight = [k \in Keys |-> NoWorker]
    /\ live = Keys
    /\ pc = [w \in Workers |-> "idle"]
    /\ hold = [w \in Workers |-> {}]
    /\ cut = {}
    /\ timers = {}
    /\ checked = {}
    /\ raced = {}

-----------------------------------------------------------------------------
(* sync.Cond.                                                              *)

\* Mutant of Signal: add forgets to signal.
SignalNobody == pc' = pc

\* cond.Signal: one waiter, if there is any, goes back to compete for the lock.
Signal ==
    IF Waiting = {}
    THEN pc' = pc
    ELSE \E w \in Waiting : pc' = [pc EXCEPT ![w] = "idle"]

\* cond.Broadcast, called by a worker w that then loops into next().
Broadcast(w) ==
    pc' = [x \in Workers |-> IF x = w \/ x \in Waiting THEN "idle" ELSE pc[x]]

-----------------------------------------------------------------------------
(* The queue.                                                              *)

\* Mutant of Add: add does not look at q.closed.
AddWhenClosed(k, v) ==
    /\ pending' = [pending EXCEPT ![k] = v]
    /\ IF k \in Queued
       THEN UNCHANGED <<order, pc>>
       ELSE order' = order \cup (Queued \X {k}) /\ Signal

\* q.add under q.mu.  A queued name keeps its place, an absent one goes to the
\* back and wakes one worker.
Add(k, v) ==
    IF Closed
    THEN UNCHANGED <<pending, order, pc>>
    ELSE /\ pending' = [pending EXCEPT ![k] = v]
         /\ IF k \in Queued
            THEN UNCHANGED <<order, pc>>
            ELSE order' = order \cup (Queued \X {k}) /\ Signal

\* What is left of q.order when only the names in S stay.
Keep(S) == order \cap (S \X S)

\* Mutant of First: next() scans from the back.
FirstFromBack(k) == k \in Runnable /\ \A j \in Runnable \ {k} : <<j, k>> \in order

\* The entry next() stops at: runnable, with no runnable name ahead of it.
First(k) == k \in Runnable /\ \A j \in Runnable \ {k} : <<k, j>> \in order

-----------------------------------------------------------------------------
(* The store: apps are created and deleted at any time.                    *)

CreateApp(k) ==
    /\ k \notin apps
    /\ apps' = apps \cup {k}
    /\ UNCHANGED <<passVars, pool, queueVars, workerVars, timerVars, raced>>

DeleteApp(k) ==
    /\ k \in apps
    /\ apps' = apps \ {k}
    /\ UNCHANGED <<passVars, pool, queueVars, workerVars, timerVars, raced>>

-----------------------------------------------------------------------------
(* Engine.ReconcileAll, run by the single goroutine of Engine.Run.         *)

\* Mutant of PassStart: live keeps only the fixed controllers' names.
PassStartNoLive ==
    /\ phase = "select"
    /\ passNo < MaxPass
    /\ phase' = "adding"
    /\ passNo' = passNo + 1
    /\ passLive' = {}
    /\ todo' = apps
    /\ UNCHANGED <<envVars, pool, queueVars, workerVars, timerVars, raced>>

\* The source lists the apps; one new controller instance per app follows.
PassStart ==
    /\ phase = "select"
    /\ passNo < MaxPass
    /\ phase' = "adding"
    /\ passNo' = passNo + 1
    /\ passLive' = apps
    /\ todo' = apps
    /\ UNCHANGED <<envVars, pool, queueVars, workerVars, timerVars, raced>>

\* The source fails: the pass returns before it adds or retains anything.
PassSourceError ==
    /\ phase = "select"
    /\ passNo < MaxPass
    /\ passNo' = passNo + 1
    /\ UNCHANGED <<envVars, todo, passLive, phase, pool, queueVars, workerVars, timerVars, raced>>

\* One iteration over the dynamic controllers; the first one starts the pool.
PassAdd(k) ==
    /\ phase = "adding"
    /\ k \in todo
    /\ todo' = todo \ {k}
    /\ pool' = IF pool = "none" THEN "up" ELSE pool
    /\ Add(k, passNo)
    /\ UNCHANGED <<envVars, passNo, passLive, phase, inflight, live, hold, cut, timerVars, raced>>

\* The end of the pass: q.retain(live), skipped while there is no pool.
PassRetain ==
    /\ phase = "adding"
    /\ todo = {}
    /\ phase' = "select"
    /\ passLive' = {}
    /\ IF pool = "none"
       THEN UNCHANGED <<pending, order, live, cut, raced>>
       ELSE /\ live' = passLive
            /\ pending' = [k \in Keys |-> IF k \in passLive THEN pending[k] ELSE 0]
            /\ order' = Keep(passLive)
            /\ cut' = cut \cup {inflight[k] : k \in {j \in Keys \ passLive : inflight[j] # NoWorker}}
            /\ raced' = {}
    /\ UNCHANGED <<envVars, passNo, todo, pool, inflight, pc, hold, timerVars>>

-----------------------------------------------------------------------------
(* worker() and next().                                                    *)

\* next() finds the first runnable name and takes it with a fresh context.
Take(w, k) ==
    /\ pool = "up"
    /\ pc[w] = "idle"
    /\ First(k)
    /\ hold' = [hold EXCEPT ![w] = {<<k, pending[k]>>}]
    /\ pending' = [pending EXCEPT ![k] = 0]
    /\ order' = Keep(Keys \ {k})
    /\ inflight' = [inflight EXCEPT ![k] = w]
    /\ pc' = [pc EXCEPT ![w] = "running"]
    /\ cut' = cut \ {w}
    /\ UNCHANGED <<envVars, passVars, pool, live, timerVars, raced>>

\* next() finds nothing to run and waits on the condition.
Wait(w) ==
    /\ pool = "up"
    /\ pc[w] = "idle"
    /\ Runnable = {}
    /\ pc' = [pc EXCEPT ![w] = "waiting"]
    /\ UNCHANGED <<envVars, passVars, pool, queueVars, hold, cut, timerVars, raced>>

\* next() sees q.closed: the worker leaves its loop.
Exit(w) ==
    /\ Closed
    /\ pc[w] = "idle"
    /\ pc' = [pc EXCEPT ![w] = "exited"]
    /\ UNCHANGED <<envVars, passVars, pool, queueVars, hold, cut, timerVars, raced>>

\* The per-key time limit ends the run's context.
Expire(w) ==
    /\ pc[w] = "running"
    /\ w \notin cut
    /\ cut' = cut \cup {w}
    /\ UNCHANGED <<envVars, passVars, pool, queueVars, pc, hold, timerVars, raced>>

\* reconcileKeyed returns: a KeyOnly result arms a timer for this instance.
RunReturn(w, keyOnly) ==
    /\ pc[w] = "running"
    /\ pc' = [pc EXCEPT ![w] = "returned"]
    /\ timers' = IF keyOnly THEN timers \cup hold[w] ELSE timers
    /\ UNCHANGED <<envVars, passVars, pool, queueVars, hold, cut, checked, raced>>

\* cancel(), then delete(q.inflight, name) under the lock.
Release(w) ==
    /\ pc[w] = "returned"
    /\ inflight' = [k \in Keys |-> IF \E i \in hold[w] : i[1] = k THEN NoWorker ELSE inflight[k]]
    /\ hold' = [hold EXCEPT ![w] = {}]
    /\ pc' = [pc EXCEPT ![w] = "released"]
    /\ cut' = cut \ {w}
    /\ UNCHANGED <<envVars, passVars, pool, pending, order, live, timerVars, raced>>

\* q.cond.Broadcast after the unlock; the worker calls next() again.
Rebroadcast(w) ==
    /\ pc[w] = "released"
    /\ Broadcast(w)
    /\ UNCHANGED <<envVars, passVars, pool, queueVars, hold, cut, timerVars, raced>>

-----------------------------------------------------------------------------
(* The requeue timer: requeueKey, then keyQueue.requeue.                   *)

\* Mutant of RequeueCheck: a ticker in place of a one-shot timer.
RequeueCheckTicker(i) ==
    /\ i \in timers
    /\ timers' = timers
    /\ checked' = IF pool = "up" /\ i[1] \in live THEN checked \cup {i} ELSE checked
    /\ UNCHANGED <<envVars, passVars, pool, queueVars, workerVars, raced>>

\* The timer fires; the live check passes, fails, or the pool is gone.
RequeueCheck(i) ==
    /\ i \in timers
    /\ timers' = timers \ {i}
    /\ checked' = IF pool = "up" /\ i[1] \in live THEN checked \cup {i} ELSE checked
    /\ UNCHANGED <<envVars, passVars, pool, queueVars, workerVars, raced>>

\* requeue calls add, in a lock section of its own.
RequeueAdd(i) ==
    /\ i \in checked
    /\ checked' = checked \ {i}
    /\ Add(i[1], i[2])
    /\ raced' = IF Closed \/ i[1] \in live THEN raced ELSE raced \cup {i[1]}
    /\ UNCHANGED <<envVars, passVars, pool, inflight, live, hold, cut, timers>>

-----------------------------------------------------------------------------
(* Engine.stopQueue and keyQueue.close, from the Run loop's ctx.Done case. *)

\* Mutant of Stop: close sets the flag and wakes nobody.
StopNoBroadcast ==
    /\ phase = "select"
    /\ phase' = "stopped"
    /\ IF pool = "none"
       THEN pool' = "closed" /\ UNCHANGED <<pending, order>>
       ELSE /\ pool' = "draining"
            /\ pending' = [k \in Keys |-> 0]
            /\ order' = {}
    /\ UNCHANGED <<envVars, passNo, todo, passLive, inflight, live, pc, hold, cut, timerVars, raced>>

\* close up to the wait for the workers.
Stop ==
    /\ phase = "select"
    /\ phase' = "stopped"
    /\ IF pool = "none"
       THEN pool' = "closed" /\ UNCHANGED <<pending, order, pc>>
       ELSE /\ pool' = "draining"
            /\ pending' = [k \in Keys |-> 0]
            /\ order' = {}
            /\ pc' = [w \in Workers |-> IF w \in Waiting THEN "idle" ELSE pc[w]]
    /\ UNCHANGED <<envVars, passNo, todo, passLive, inflight, live, hold, cut, timerVars, raced>>

\* The drain limit (or no drain at all): q.cancel ends every run's context.
DrainCut ==
    /\ pool = "draining"
    /\ pool' = "cut"
    /\ cut' = cut \cup Running
    /\ UNCHANGED <<envVars, passVars, queueVars, pc, hold, timerVars, raced>>

\* q.wg.Wait returns once every worker has exited.
CloseReturn ==
    /\ pool \in {"draining", "cut"}
    /\ \A w \in Workers : pc[w] = "exited"
    /\ pool' = "closed"
    /\ UNCHANGED <<envVars, passVars, queueVars, workerVars, timerVars, raced>>

-----------------------------------------------------------------------------
Env == \E k \in Keys : CreateApp(k) \/ DeleteApp(k)

Pass == PassStart \/ PassSourceError \/ PassRetain \/ \E k \in Keys : PassAdd(k)

\* One step of the worker's own code, outside the controller it runs.
WorkerStep(w) ==
    \/ \E k \in Keys : Take(w, k)
    \/ Wait(w)
    \/ Exit(w)
    \/ Release(w)
    \/ Rebroadcast(w)

\* One step of the controller run or of its deadline.
RunStep(w) == Expire(w) \/ \E keyOnly \in BOOLEAN : RunReturn(w, keyOnly)

Timer == \E i \in Instances : RequeueCheck(i) \/ RequeueAdd(i)

Shutdown == Stop \/ DrainCut \/ CloseReturn

Next ==
    \/ Env
    \/ Pass
    \/ \E w \in Workers : WorkerStep(w) \/ RunStep(w)
    \/ Timer
    \/ Shutdown

\* The goroutines of the pool and the engine's own steps are scheduled; a run
\* ends by its deadline at the latest, because controllers honour their
\* context.  Nobody has to create apps, begin a pass, stop, or fire a timer.
Fairness ==
    /\ \A w \in Workers : WF_vars(WorkerStep(w)) /\ WF_vars(RunStep(w))
    /\ WF_vars(PassRetain \/ \E k \in Keys : PassAdd(k))
    /\ WF_vars(DrainCut \/ CloseReturn)

Spec == Init /\ [][Next]_vars

FairSpec == Spec /\ Fairness

-----------------------------------------------------------------------------
(* Properties.                                                             *)

\* The types of the variables.
TypeOK ==
    /\ apps \subseteq Keys
    /\ passNo \in 0..MaxPass
    /\ todo \subseteq passLive
    /\ passLive \subseteq Keys
    /\ phase \in {"select", "adding", "stopped"}
    /\ pool \in {"none", "up", "draining", "cut", "closed"}
    /\ pending \in [Keys -> 0..MaxPass]
    /\ order \subseteq Keys \X Keys
    /\ inflight \in [Keys -> Workers \cup {NoWorker}]
    /\ live \subseteq Keys
    /\ pc \in [Workers -> {"idle", "waiting", "running", "returned", "released", "exited"}]
    /\ hold \in [Workers -> SUBSET Instances]
    /\ cut \subseteq Workers
    /\ timers \subseteq Instances
    /\ checked \subseteq Instances
    /\ raced \subseteq Keys

\* "at most one in flight per name" (keyQueue): a worker inside a run is the one
\* q.inflight records for its name, so two workers never run one app, and
\* retain's cancel reaches exactly the run of the deleted name.
PerKeyExclusion ==
    /\ \A w \in Workers, k \in Keys :
          inflight[k] = w <=> pc[w] \in {"running", "returned"} /\ \E i \in hold[w] : i[1] = k
    /\ \A w \in Workers : \A i, j \in hold[w] : i = j

\* pending and order never disagree: the queued names are exactly the ones with
\* a place, every two of them are ordered, and there is no cycle.  A name left
\* in one but not the other would run a nil controller or never run.
QueueShape ==
    /\ order \subseteq Queued \X Queued
    /\ \A k \in Queued : <<k, k>> \notin order
    /\ \A j, k \in Queued : j # k => (<<j, k>> \in order <=> <<k, j>> \notin order)
    /\ \A i, j, k \in Queued : <<i, j>> \in order /\ <<j, k>> \in order => <<i, k>> \in order

\* No wake-up is lost although add signals one worker only and the broadcast
\* after a run happens outside the lock: while a worker sleeps in cond.Wait,
\* either a broadcast is still coming or every runnable name has an awake
\* worker of its own on its way to next().
NoLostWakeup ==
    \/ Waiting = {}
    \/ \E w \in Workers : pc[w] = "released"
    \/ Cardinality(Runnable) <= Cardinality({w \in Workers : pc[w] = "idle"})

\* "a deleted app never keeps converging after its desired state is gone"
\* (retain): whatever is queued, or running with a context that still holds,
\* was seen by the last finished pass or by the one under way, or was put back
\* by a requeue that raced with retain since.
OnlyLiveRuns ==
    /\ Queued \subseteq live \cup passLive \cup raced
    /\ \A w \in Running \ cut : \A i \in hold[w] : i[1] \in live \cup passLive \cup raced

\* Where a controller instance can be while it still has a run coming.
AwaitsAdd(i) == i[1] \in todo /\ i[2] = passNo
InQueue(i) == pending[i[1]] = i[2]
InRun(i) == \E w \in Running : i \in hold[w]

\* One controller instance is in one place at a time: waiting for its pass to
\* add it, queued, in a run, behind a timer or between the timer's check and
\* its add.  So an instance, whose fields have no lock, is never run by two
\* goroutines, and a run arms at most one live timer however passes and
\* timers interleave.
OneTokenPerInstance ==
    \A i \in Instances :
        /\ AwaitsAdd(i) => ~InQueue(i) /\ ~InRun(i) /\ i \notin timers \cup checked
        /\ InQueue(i)   => ~InRun(i) /\ i \notin timers \cup checked
        /\ InRun(i)     => i \notin timers \cup checked
        /\ i \notin timers \cap checked

\* close waits "at most drain": once the limit has passed, no run is left whose
\* context still holds, whichever worker was between taking a name and running
\* it when the limit struck.
DrainEndsRuns == pool \in {"cut", "closed"} => Running \subseteq cut

\* keyQueue, engine: what is queued, waiting or running is always in order, wanted, in one place
\* and within the drain limit.
PoolSound == QueueShape /\ OnlyLiveRuns /\ OneTokenPerInstance /\ DrainEndsRuns

\* FIFO by first add: every queued name leaves the queue, even while other
\* names requeue themselves for ever, and even when it was queued behind a run
\* of its own.
NoStarvation == \A k \in Keys : (k \in Queued) ~> (k \notin Queued)

\* close returns: every worker, asleep or in a run, notices and exits.
CloseTerminates == Closed ~> (pool = "closed")

\* The abstract executor: a name is wanted while it is queued, and in a run from
\* next to the worker's delete(q.inflight, name).
Busy == {k \in Keys : inflight[k] # NoWorker}
Ended == {k \in Busy : inflight[k] \in cut}
Executor == INSTANCE KeyExecutor WITH wanted <- Queued, busy <- Busy, ended <- Ended, open <- ~Closed

\* keyQueue's promise: whatever workers, timers, passes and shutdown do, the pool
\* runs an added name once more after the run it is in, never beside it; retain
\* and the limits end exactly the runs they name; close takes no work.
KeepsItsPromise == Executor!Spec

=============================================================================
