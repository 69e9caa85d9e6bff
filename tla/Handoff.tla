------------------------------ MODULE Handoff ------------------------------
(***************************************************************************)
(* The blue-green pass of one application controller with one replica      *)
(* (internal/reconcile/application): how a candidate release takes over    *)
(* from the serving one, and how a failed, superseded or interrupted       *)
(* take-over is undone.                                                    *)
(*                                                                         *)
(* A release stands for the container of one image (ContainerName is       *)
(* stable per image).  One action is one call of the Docker runtime with   *)
(* the decisions around it, so containers die, deploys land and the        *)
(* control plane stops between any two of them.  The pass of one service   *)
(* never overlaps another pass of it (KeyQueue, PerKeyExclusion).          *)
(***************************************************************************)
EXTENDS Integers, Sequences

CONSTANTS
    Releases,    \* the releases that may be deployed
    First,       \* the release that serves at the start
    Sites        \* the settings and the bounds to start with, see SiteType

Events == {"deploy", "death", "crash", "fault", "stuck", "blind", "drift"}

\* What a service and its control plane are set to, and how often each event
\* happens at most.
SiteType ==
    [mode: {"overlap", "port", "data"},  \* no host-level claim; a pinned host port;
                                         \* a stream port and a writable volume
     defers: BOOLEAN,                    \* pendingReady is set: several reconcile workers
     keepsOne: BOOLEAN,                  \* the policy forbids taking the only replica down
     images: SUBSET Releases,            \* bound: the releases that are deployed
     bad: SUBSET Releases,               \* releases that never pass their readiness probe
     max: [Events -> Nat]]               \* bound: deploys after the first, exits, restarts of
                                         \* the control plane, failed starts, failed stops
                                         \* and removals, failed reads of Docker (listings,
                                         \* inspections, probe addresses), config changes
                                         \* that keep the image

ASSUME ReleaseAssumption == First \in Releases

ASSUME SiteAssumption == Sites \subseteq SiteType /\ \A s \in Sites : First \notin s.bad

VARIABLES
    site,      \* the settings, chosen once
    desired,   \* the image of the desired service in the store
    attempts,  \* releases of the deploy attempts marked succeeded, oldest first
    cont,      \* Docker: every release's container
    born,      \* Docker: by age, the pairs of containers <<created before, created after>>
    label,     \* Docker: the released label of every container
    late,      \* containers running for longer than the readiness budget
    older,     \* containers started before the control plane was
    pending,   \* PendingReadiness.byKey: candidate to released previous ones
    waiting,   \* containers inside their RestartBackoff delay
    asked,     \* a key-only run was asked for
    blocked,   \* handoffFailed of the controller that runs or ran last
    cooling,   \* targets whose retry delay has not passed yet
    pc,        \* where the pass is; "idle" between passes
    goal,      \* the desired release the pass began with
    todo,      \* toStop, not stopped yet
    held,      \* released: stopped by this pass and not restarted yet
    ghosts,    \* containers the pass snapshot still lists as running
    proven,    \* history: containers that were ready once
    parked,    \* history: stopped for a take-over and owed a restart
    used       \* how often every bounded event happened

storeVars == <<site, desired, attempts>>
dockVars == <<cont, born, label, late, older>>
sharedVars == <<pending, waiting, asked>>
retryVars == <<blocked, cooling>>
passVars == <<pc, goal, todo, held, ghosts>>
histVars == <<proven, parked>>
vars == <<storeVars, dockVars, sharedVars, retryVars, passVars, histVars, used>>

Mode == site.mode
Defers == site.defers
KeepsOne == site.keepsOne
Bad == site.bad

Once(event) ==
    /\ used[event] < site.max[event]
    /\ used' = [used EXCEPT ![event] = @ + 1]

Fault == Once("fault")
Stuck == Once("stuck")
Blind == Once("blind")

Init ==
    /\ site \in Sites
    /\ desired = First /\ attempts = <<First>>
    /\ cont = [r \in Releases |-> IF r = First THEN "up" ELSE "none"]
    /\ born = {} /\ label = [r \in Releases |-> {}]
    /\ late = {} /\ older = {}
    /\ pending = <<>> /\ waiting = {} /\ asked = FALSE
    /\ blocked = {} /\ cooling = {}
    /\ pc = "idle" /\ goal = First /\ todo = {} /\ held = {} /\ ghosts = {}
    /\ proven = {First} /\ parked = {}
    /\ used = [event \in Events |-> 0]

-----------------------------------------------------------------------------
(* What the controller reads.                                              *)

Up == {r \in Releases : cont[r] = "up"}
Exists == {r \in Releases : cont[r] # "none"}

\* The pass snapshot: a container that died since the listing reads running.
ListedUp == Up \cup (ghosts \cap Exists)
Stale == Exists \ {goal}

\* planHandoff: the previous release must stop before the candidate starts.
StopFirst == Mode # "overlap"

\* locateReleased, releasedFromLabel: those that are still there and stopped.
Located(names) == (names \cap Exists) \ ListedUp

Newest(S) == CHOOSE r \in S : \A s \in S \ {r} : <<s, r>> \in born

\* The place of r's newest succeeded attempt; 0 when it has none.
Rank(r) == IF \E i \in DOMAIN attempts : attempts[i] = r
           THEN CHOOSE i \in DOMAIN attempts :
                    attempts[i] = r /\ \A j \in DOMAIN attempts : attempts[j] = r => j <= i
           ELSE 0

Known == {r \in Exists \ {goal} : Rank(r) > 0}

\* Mutant of Revivable: in every mode a running candidate vetoes the restart.
RevivableAlone(start) ==
    IF ListedUp # {}
    THEN {}
    ELSE {r \in Known \ waiting : \A s \in Known : Rank(s) <= Rank(r)}

\* reviveIfDead: the newest succeeded release, when nothing vetoes it.
Revivable(start) ==
    IF \/ goal \in ListedUp /\ (StopFirst \/ start)
       \/ Mode = "port" /\ ListedUp # {}
       \/ Known \cap ListedUp # {}
    THEN {}
    ELSE {r \in Known \ waiting : \A s \in Known : Rank(s) <= Rank(r)}

\* supersededPrevious: all but the newest running previous release, or the
\* newest stopped one when none runs.
Surplus == IF Stale = {} THEN {}
           ELSE Stale \ {Newest(IF Stale \cap ListedUp # {} THEN Stale \cap ListedUp ELSE Stale)}

-----------------------------------------------------------------------------
(* What the Docker runtime does.                                           *)

\* Docker refuses a second binding of a pinned host port.
Bindable(r) == Mode = "port" => Up \subseteq {r}

Started(r) ==
    /\ cont' = [cont EXCEPT ![r] = "up"]
    /\ late' = late \ {r} /\ older' = older \ {r}

Start(r) ==
    /\ cont[r] # "none" /\ Bindable(r)
    /\ Started(r)
    /\ UNCHANGED <<born, label, used>>

StartFails(r) ==
    /\ \/ (cont[r] = "none" \/ ~Bindable(r)) /\ UNCHANGED used
       \/ cont[r] # "none" /\ Bindable(r) /\ Fault
    /\ UNCHANGED dockVars

\* The goal's container cannot be started, or Docker fails to.
CreateOrStartFails ==
    \/ ~Bindable(goal) /\ UNCHANGED used
    \/ Bindable(goal) /\ Fault

StartTried(r) == Start(r) \/ StartFails(r)

Stopped(S) ==
    /\ cont' = [r \in Releases |-> IF r \in S /\ cont[r] = "up" THEN "stopped" ELSE cont[r]]
    /\ late' = late \ S /\ older' = older \ S

Stop(r) == Stopped({r}) /\ UNCHANGED <<born, label, used>>

\* A stop whose error the caller drops.
StopTried(r) ==
    \/ Stop(r)
    \/ r \in Up /\ Stuck /\ UNCHANGED dockVars

Cleared(gone, down) ==
    /\ cont' = [r \in Releases |-> IF r \in gone THEN "none"
                                  ELSE IF r \in down /\ cont[r] = "up" THEN "stopped" ELSE cont[r]]
    /\ born' = born \cap ((Exists \ gone) \X (Exists \ gone))
    /\ label' = [r \in Releases |-> IF r \in gone THEN {} ELSE label[r]]
    /\ late' = late \ (gone \cup down) /\ older' = older \ (gone \cup down)
    /\ proven' = proven \ gone /\ parked' = parked \ gone
    /\ ghosts' = {}

Removed(S) == Cleared(S, {})

\* removeContainers: every one is stopped and removed, whatever fails.
RemovalTried(S) ==
    \/ Removed(S) /\ UNCHANGED used
    \/ \E gone, down \in SUBSET S : gone # S /\ Cleared(gone, down) /\ Stuck

\* A listing that fails, where the caller goes on with nothing.
SeesNothing == Blind /\ UNCHANGED <<dockVars, ghosts, proven, parked>>

-----------------------------------------------------------------------------
(* The outside: deploys, containers, time, the control plane itself.       *)

\* The attempt is marked succeeded when the deploy is triggered.
Deploy(r) ==
    /\ Once("deploy")
    /\ r \in site.images \ {desired}
    /\ desired' = r /\ attempts' = Append(attempts, r)
    /\ UNCHANGED <<site, dockVars, sharedVars, retryVars, passVars, histVars>>

\* A listing taken earlier in the pass may go on showing it as running.
Dies(r) ==
    /\ Once("death")
    /\ r \in Up
    /\ Stopped({r})
    /\ \E seen \in {{}, {r}} : ghosts' = IF pc = "idle" THEN {} ELSE ghosts \cup seen
    /\ UNCHANGED <<storeVars, born, label, sharedVars, retryVars, pc, goal, todo, held, proven, parked>>

BudgetPasses(r) ==
    /\ r \in Up \ late
    /\ late' = late \cup {r}
    /\ UNCHANGED <<storeVars, cont, born, label, older, sharedVars, retryVars, passVars, histVars, used>>

BackoffPasses(r) ==
    /\ r \in waiting
    /\ waiting' = waiting \ {r}
    /\ UNCHANGED <<storeVars, dockVars, pending, asked, retryVars, passVars, histVars, used>>

RetryPasses(r) ==
    /\ r \in cooling
    /\ cooling' = cooling \ {r}
    /\ UNCHANGED <<storeVars, dockVars, sharedVars, blocked, passVars, histVars, used>>

\* The snapshot expires, or another service's change drops it.
ListingRefreshed ==
    /\ ghosts # {}
    /\ ghosts' = {}
    /\ UNCHANGED <<storeVars, dockVars, sharedVars, retryVars, pc, goal, todo, held, histVars, used>>

\* A restart of the control plane: the containers stay, its memory goes.
Crash ==
    /\ Once("crash")
    /\ older' = Up
    /\ pending' = <<>> /\ waiting' = {} /\ asked' = FALSE /\ blocked' = {}
    /\ pc' = "idle" /\ todo' = {} /\ held' = {} /\ ghosts' = {}
    /\ UNCHANGED <<storeVars, cont, born, label, late, cooling, goal, histVars>>

Outside ==
    \/ \E r \in Releases : Deploy(r) \/ Dies(r)
    \/ ListingRefreshed
    \/ Crash

Time == \E r \in Releases : BudgetPasses(r) \/ BackoffPasses(r) \/ RetryPasses(r)

-----------------------------------------------------------------------------
(* One pass: Reconcile, reviveIfDead, reconcileBlueGreen.                  *)

Goto(place) == pc' = place /\ UNCHANGED <<goal, todo>>

\* The engine builds a new controller for every pass.  A key-only run of an
\* older controller begins the same way: one that failed has asked for none.
StartPass ==
    /\ pc = "idle"
    /\ pc' = "revive" /\ goal' = desired
    /\ blocked' = {} /\ asked' = FALSE
    /\ UNCHANGED <<storeVars, dockVars, pending, waiting, cooling, todo, held, ghosts, histVars, used>>

\* A key-only run keeps the controller of the run that asked for it, here the
\* last one.
StartRequeued ==
    /\ pc = "idle" /\ asked
    /\ pc' = "revive" /\ goal' = desired
    /\ asked' = FALSE
    /\ UNCHANGED <<storeVars, dockVars, pending, waiting, retryVars, todo, held, ghosts, histVars, used>>

\* reviveIfDead restarts the pick, or has nothing to restart.
Reviving(start) ==
    \/ /\ (Revivable(start) = {} /\ UNCHANGED used) \/ Blind
       /\ UNCHANGED <<dockVars, waiting, ghosts, parked>>
    \/ \E r \in Revivable(start) :
           /\ waiting' = waiting \cup {r}
           /\ parked' = parked \ {r}
           /\ ghosts' = {}
           /\ StartTried(r)

ReviveFirst ==
    /\ pc = "revive"
    /\ Reviving(TRUE)
    /\ Goto(IF Defers THEN "supersede" ELSE "ensure")
    /\ UNCHANGED <<storeVars, pending, asked, retryVars, held, proven>>

NoneSuperseded ==
    /\ pc = "supersede" /\ DOMAIN pending \subseteq {goal}
    /\ Goto("ensure")
    /\ UNCHANGED <<storeVars, dockVars, sharedVars, retryVars, held, ghosts, histVars, used>>

Without(f, t) == [r \in DOMAIN f \ {t} |-> f[r]]

\* abortSupersededPending, for one candidate: take its record, stop it, then
\* put back what the record names.  If the listing fails, nothing is put back.
AbortSuperseded ==
    /\ pc = "supersede"
    /\ \E t \in DOMAIN pending \ {goal} :
           /\ pending' = Without(pending, t)
           /\ \/ held' = Located(pending[t]) /\ StopTried(t)
              \/ /\ pending[t] # {} /\ held' = {} /\ Blind
                 /\ \E down \in {{}, {t}} : Stopped(down)
                 /\ UNCHANGED <<born, label>>
    /\ ghosts' = {}
    /\ Goto("putback")
    /\ UNCHANGED <<storeVars, waiting, asked, retryVars, proven, parked>>

\* Where restoreReleased returns to.
AfterRestore == IF pc = "putback" THEN "supersede" ELSE "prune"

\* restoreReleased: start every released one again, whatever fails.
RestoreOne ==
    /\ pc \in {"putback", "restore"}
    /\ \E r \in held :
           /\ held' = held \ {r}
           /\ parked' = parked \ {r}
           /\ StartTried(r)
    /\ ghosts' = {}
    /\ UNCHANGED <<storeVars, sharedVars, retryVars, pc, goal, todo, proven>>

RestoreDone ==
    /\ pc \in {"putback", "restore"} /\ held = {}
    /\ Goto(AfterRestore)
    /\ UNCHANGED <<storeVars, dockVars, sharedVars, retryVars, held, ghosts, histVars, used>>

-----------------------------------------------------------------------------
(* ensureReplicaRunning, before the candidate runs.                        *)

Tracked == Defers /\ goal \in DOMAIN pending

\* The container no longer fits the desired config: it is removed.
EnsureDrifted ==
    /\ pc = "ensure" /\ goal \in Exists
    /\ Once("drift")
    /\ Removed({goal})
    /\ Goto("release")
    /\ UNCHANGED <<storeVars, sharedVars, retryVars, held>>

EnsureMissing ==
    /\ pc = "ensure" /\ goal \notin Exists
    /\ Goto("release")
    /\ UNCHANGED <<storeVars, dockVars, sharedVars, retryVars, held, ghosts, histVars, used>>

\* ensureReplicaRunning gives up before it changed anything: its inspection
\* fails, a drifted container cannot be removed, releasePinnedPort cannot list.
LooksFail ==
    /\ pc = "ensure" \/ (pc = "release" /\ StopFirst)
    /\ Blind
    /\ Goto("prune")
    /\ UNCHANGED <<storeVars, dockVars, sharedVars, retryVars, held, ghosts, histVars>>

\* recordRolloutFailure marks the newest succeeded attempt of the image.
FailAttempt == attempts' = IF Rank(goal) = 0 THEN attempts
                           ELSE [i \in 1 .. Len(attempts) - 1 |->
                                   attempts[IF i < Rank(goal) THEN i ELSE i + 1]]

\* What a verdict on the candidate puts back: a resumed one brings its record.
Owes == IF Tracked THEN Located(pending[goal]) ELSE held

\* Mutant of Fails: the record is dropped and its released releases with it.
FailsForgetting(owed) ==
    /\ FailAttempt
    /\ pending' = Without(pending, goal)
    /\ held' = IF Tracked THEN {} ELSE owed
    /\ Goto("abort")

\* readinessVerdict on a failure, with what it puts back.
Fails(owed) ==
    /\ FailAttempt
    /\ pending' = Without(pending, goal)
    /\ held' = owed
    /\ Goto("abort")

\* The record is taken, and the listing that should find its releases fails.
FailsBlind == Tracked /\ Fails({}) /\ Blind

\* stoppedCandidate: it exited between two runs.
EnsureExited ==
    /\ pc = "ensure" /\ Tracked /\ goal \in Exists \ ListedUp
    /\ (Fails(Owes) /\ UNCHANGED used) \/ FailsBlind
    /\ UNCHANGED <<site, desired, dockVars, waiting, asked, retryVars, ghosts, histVars>>

EnsureBackingOff ==
    /\ pc = "ensure" /\ ~Tracked /\ goal \in (Exists \ ListedUp) \cap waiting
    /\ Goto("prune")
    /\ UNCHANGED <<storeVars, dockVars, sharedVars, retryVars, held, ghosts, histVars, used>>

\* Mutant of EnsureRestarts: a container that does not start is left behind.
EnsureRestartsLeaves ==
    /\ pc = "ensure" /\ ~Tracked /\ goal \in Exists \ (ListedUp \cup waiting)
    /\ waiting' = waiting \cup {goal}
    /\ \/ /\ Start(goal)
          /\ parked' = parked \ {goal} /\ ghosts' = {}
          /\ Goto("judge")
       \/ /\ CreateOrStartFails
          /\ Goto("recreate")
          /\ UNCHANGED <<dockVars, ghosts, parked>>
    /\ UNCHANGED <<storeVars, pending, asked, retryVars, held, proven>>

\* A container that does not start is removed and created afresh.  The pass
\* ends at once when the network is missing, or when the container, started,
\* cannot be inspected.
EnsureRestarts ==
    /\ pc = "ensure" /\ ~Tracked /\ goal \in Exists \ (ListedUp \cup waiting)
    /\ waiting' = waiting \cup {goal}
    /\ \/ /\ Bindable(goal)
          /\ Started(goal)
          /\ (Goto("judge") /\ UNCHANGED used) \/ (Goto("prune") /\ Blind)
          /\ parked' = parked \ {goal} /\ ghosts' = {}
          /\ UNCHANGED <<born, label, proven>>
       \/ /\ CreateOrStartFails
          /\ Removed({goal})
          /\ Goto("recreate")
       \/ /\ Fault
          /\ Goto("prune")
          /\ UNCHANGED <<dockVars, ghosts, proven, parked>>
    /\ UNCHANGED <<storeVars, pending, asked, retryVars, held>>

\* handoffBlockedUntil: this controller remembers a failure, and the delay runs.
HandoffBlocked == goal \in blocked \cap cooling

ToStop == IF StopFirst THEN ListedUp \ {goal} ELSE {}

\* The policy's floor: the only replica must not go down for its successor.
FloorRefuses == KeepsOne /\ ToStop # {}

ReleaseRefused ==
    /\ pc = "release"
    /\ (StopFirst /\ HandoffBlocked) \/ FloorRefuses
    /\ Goto("prune")
    /\ UNCHANGED <<storeVars, dockVars, sharedVars, retryVars, held, ghosts, histVars, used>>

ReleaseBegins ==
    /\ pc = "release"
    /\ ~(StopFirst /\ HandoffBlocked) /\ ~FloorRefuses
    /\ todo' = ToStop
    /\ pc' = "stop"
    /\ UNCHANGED <<storeVars, dockVars, sharedVars, retryVars, goal, held, ghosts, histVars, used>>

\* releasePinnedPort stops the holders one by one.
StopHolder ==
    /\ pc = "stop"
    /\ \E r \in todo :
           /\ todo' = todo \ {r}
           /\ held' = held \cup {r} /\ parked' = parked \cup {r}
           /\ Stop(r)
    /\ ghosts' = {}
    /\ UNCHANGED <<storeVars, sharedVars, retryVars, pc, goal, proven>>

\* One stop fails, with its effect or without: the others are put back.
StopHolderFails ==
    /\ pc = "stop" /\ todo # {}
    /\ Stuck
    /\ \E down \in SUBSET todo :
           /\ \A r, s \in down : r = s
           /\ Stopped(down)
           /\ parked' = parked \cup down
    /\ todo' = {} /\ pc' = "restore"
    /\ ghosts' = {}
    /\ UNCHANGED <<storeVars, born, label, sharedVars, retryVars, goal, held, proven>>

\* Mutant of TakesOver: what a replaced candidate still owed is not taken over.
TakesOverAlone ==
    /\ pc = "stop" /\ todo = {}
    /\ pending' = IF Defers THEN Without(pending, goal) ELSE pending
    /\ Goto("create")
    /\ UNCHANGED <<storeVars, dockVars, waiting, asked, retryVars, held, ghosts, histVars, used>>

\* A pending candidate that was replaced still owes its released releases.
TakesOver ==
    /\ pc = "stop" /\ todo = {}
    /\ pending' = IF Defers THEN Without(pending, goal) ELSE pending
    /\ \/ held' = held \cup (IF Tracked THEN Located(pending[goal]) ELSE {}) /\ UNCHANGED used
       \/ Tracked /\ UNCHANGED held /\ Blind
    /\ Goto("create")
    /\ UNCHANGED <<storeVars, dockVars, waiting, asked, retryVars, ghosts, histVars>>

\* createAndStart, and the pre-deploy hook behind it: a container whose first
\* start or hook fails is removed, one that cannot join a network stays.  If
\* the started container cannot be inspected, the pass ends there: nothing is
\* put back, and no record is left.
Create ==
    /\ pc \in {"create", "recreate"}
    /\ LET failed == Goto(IF pc = "create" THEN "abort" ELSE "prune")
       IN  \/ /\ Bindable(goal)
              /\ Started(goal)
              /\ born' = born \cup (Exists \X {goal})
              /\ label' = [label EXCEPT ![goal] = held]
              /\ \/ Goto("judge") /\ UNCHANGED <<held, used>>
                 \/ failed /\ Fault /\ UNCHANGED held
                 \/ Goto("prune") /\ held' = {} /\ Blind
           \/ CreateOrStartFails /\ failed /\ UNCHANGED <<dockVars, held>>
    /\ ghosts' = {}
    /\ UNCHANGED <<storeVars, sharedVars, retryVars, histVars>>

-----------------------------------------------------------------------------
(* ensureReplicaRunning, once the container runs: probe and verdict.       *)

\* One probe that answers, and the stability gate behind it.
Probed == goal \in Up \ Bad

\* readinessVerdict when the candidate is ready; what follows fails when the
\* image cannot be verified.
JudgeReady ==
    /\ \/ pc = "judge"
       \/ pc = "ensure" /\ Tracked /\ goal \in ListedUp
    /\ Probed
    /\ pending' = Without(pending, goal)
    /\ blocked' = blocked \ {goal}
    /\ proven' = proven \cup {goal}
    /\ parked' = {} /\ held' = {}
    /\ (Goto("retire") /\ UNCHANGED used) \/ (Goto("prune") /\ Blind)
    /\ UNCHANGED <<storeVars, dockVars, waiting, asked, cooling, ghosts>>

\* deferCandidate: not ready, inside its budget; a key-only run will follow.
\* A resumed candidate keeps the record it has.
JudgePending ==
    /\ Defers
    /\ \/ pc = "judge"
       \/ pc = "ensure" /\ Tracked /\ goal \in ListedUp
    /\ goal \in Up \ late
    /\ pending' = [r \in DOMAIN pending \cup {goal} |->
                     IF r = goal /\ ~Tracked THEN held ELSE pending[r]]
    /\ held' = {} /\ asked' = TRUE /\ ghosts' = {}
    /\ Goto("last")
    /\ UNCHANGED <<storeVars, dockVars, waiting, retryVars, histVars, used>>

\* The candidate died or used up its budget, or has no address to probe.
JudgeFails ==
    /\ \/ pc = "judge"
       \/ pc = "ensure" /\ Tracked /\ goal \in ListedUp
    /\ \/ goal \notin Up \ late /\ Fails(Owes) /\ UNCHANGED used
       \/ goal \in Up \ late /\ Fails(Owes) /\ Blind
       \/ FailsBlind
    /\ UNCHANGED <<site, desired, dockVars, waiting, asked, retryVars, ghosts, histVars>>

\* Mutant of WaitSuperseded: the wait that ends early passes for a ready one.
WaitSupersededReady ==
    /\ pc = "judge" /\ ~Defers /\ desired # goal
    /\ StopTried(goal)
    /\ ghosts' = {}
    /\ Goto("retire")
    /\ UNCHANGED <<storeVars, sharedVars, retryVars, held, proven, parked>>

\* awaitReady: the blocking wait ends when desired state changed under it.
WaitSuperseded ==
    /\ pc = "judge" /\ ~Defers /\ desired # goal
    /\ StopTried(goal)
    /\ ghosts' = {}
    /\ Goto("restore")
    /\ UNCHANGED <<storeVars, sharedVars, retryVars, held, proven, parked>>

\* awaitReady: without a take-over the last ready release is kept alive.
WaitRevives ==
    /\ pc = "judge" /\ ~Defers /\ ~StopFirst /\ Revivable(FALSE) # {}
    /\ Reviving(FALSE)
    /\ UNCHANGED <<storeVars, pending, asked, retryVars, pc, goal, todo, held, proven>>

\* verifyRunningReady: the replica of an earlier pass is still ready, or counts
\* as ready because it has no address to probe.  Its networks or its image may
\* be in the way all the same.
StillReady ==
    /\ pc = "ensure" /\ ~Tracked /\ goal \in ListedUp
    /\ \/ /\ Probed
          /\ proven' = proven \cup {goal} /\ parked' = {}
          /\ (Goto("steady") /\ UNCHANGED used) \/ (Goto("prune") /\ Blind)
       \/ /\ Goto("steady") /\ Blind
          /\ UNCHANGED <<proven, parked>>
    /\ UNCHANGED <<storeVars, dockVars, sharedVars, retryVars, held, ghosts>>

\* adoptable: a wait that a restart of the control plane cut short.
Adoptable == Defers /\ goal \in (Up \cap older) \ late /\ Stale # {}

\* verifyRunningReady failed; the wait goes on with what the label names.
Adopt ==
    /\ pc = "ensure" /\ ~Tracked /\ goal \in ListedUp /\ Adoptable
    /\ \E owed \in {Located(label[goal]), {}} :
           /\ pending' = [r \in DOMAIN pending \cup {goal} |->
                            IF r = goal THEN owed ELSE pending[r]]
           /\ \/ owed = Located(label[goal]) /\ UNCHANGED used
              \/ owed = {} /\ label[goal] # {} /\ Blind
    /\ asked' = TRUE /\ ghosts' = {}
    /\ Goto("last")
    /\ UNCHANGED <<storeVars, dockVars, waiting, retryVars, held, proven, parked>>

\* RunningNotReady: the run ends with an error and nothing else.
NotReady ==
    /\ pc = "ensure" /\ ~Tracked /\ goal \in ListedUp /\ ~Adoptable
    /\ Goto("prune")
    /\ UNCHANGED <<storeVars, dockVars, sharedVars, retryVars, held, ghosts, proven, parked, used>>

-----------------------------------------------------------------------------
(* The end of a pass.                                                      *)

\* abortHandoff with nothing to put back: the candidate is only stopped.  An
\* inspection that fails here and in Abort does what a failed stop does.
AbortAlone ==
    /\ pc = "abort" /\ held = {}
    /\ StopTried(goal)
    /\ ghosts' = {}
    /\ Goto("prune")
    /\ UNCHANGED <<storeVars, sharedVars, retryVars, held, proven, parked>>

\* abortHandoff: the candidate goes, its target's next attempt is delayed.
Abort ==
    /\ pc = "abort" /\ held # {}
    /\ RemovalTried({goal})
    /\ blocked' = blocked \cup {goal} /\ cooling' = cooling \cup {goal}
    /\ Goto("restore")
    /\ UNCHANGED <<storeVars, sharedVars, held>>

\* pruneSupersededPrevious, on every failed run.
Prune ==
    /\ pc = "prune"
    /\ RemovalTried(Surplus) \/ SeesNothing
    /\ Goto("last")
    /\ UNCHANGED <<storeVars, sharedVars, retryVars, held>>

\* reviveLastReady, on every run that is not ready.
ReviveLast ==
    /\ pc = "last"
    /\ Reviving(FALSE)
    /\ Goto("idle")
    /\ UNCHANGED <<storeVars, pending, asked, retryVars, held, proven>>

\* retireStale: every stale container goes that does not run; of the running
\* ones the drain window and the hold may keep any.  The back-offs of the
\* others end with a release that was retired for.
Retire ==
    /\ pc \in {"retire", "steady"}
    /\ (\E keep \in SUBSET (Stale \cap ListedUp) : RemovalTried(Stale \ keep)) \/ SeesNothing
    /\ waiting' = IF pc = "retire" /\ used' = used THEN waiting \cap {goal} ELSE waiting
    /\ Goto("idle")
    /\ UNCHANGED <<storeVars, pending, asked, retryVars, held>>

Pass ==
    \/ StartPass \/ StartRequeued \/ ReviveFirst
    \/ NoneSuperseded \/ AbortSuperseded \/ RestoreOne \/ RestoreDone
    \/ LooksFail \/ EnsureMissing \/ EnsureExited \/ EnsureBackingOff \/ EnsureRestarts
    \/ ReleaseRefused \/ ReleaseBegins \/ StopHolder \/ StopHolderFails \/ TakesOver \/ Create
    \/ JudgeReady \/ JudgePending \/ JudgeFails \/ WaitSuperseded \/ WaitRevives
    \/ StillReady \/ Adopt \/ NotReady
    \/ AbortAlone \/ Abort \/ Prune \/ ReviveLast \/ Retire

Next == Outside \/ Time \/ EnsureDrifted \/ Pass

Spec == Init /\ [][Next]_vars

\* The engine goes on making passes, time passes.
FairSpec == Spec /\ WF_vars(Pass) /\ \A r \in Releases :
    WF_vars(BudgetPasses(r)) /\ WF_vars(BackoffPasses(r)) /\ WF_vars(RetryPasses(r))

-----------------------------------------------------------------------------
(* Properties.                                                             *)

Places == {"idle", "revive", "supersede", "putback", "ensure", "release", "stop", "create",
           "recreate", "judge", "abort", "restore", "prune", "last", "retire", "steady"}

\* Where a pass has stopped nothing that it still has to put back.
Settled == {"idle", "revive", "supersede", "ensure", "release", "recreate", "prune", "last",
            "retire", "steady"}

\* Of two containers one was created first, and the ages of three agree.
Aged ==
    /\ born \subseteq Exists \X Exists
    /\ \A r \in Exists : <<r, r>> \notin born
    /\ \A r, s \in Exists : r = s \/ <<r, s>> \in born \/ <<s, r>> \in born
    /\ \A r, s, t \in Exists : <<r, s>> \in born /\ <<s, t>> \in born => <<r, t>> \in born

\* Every variable holds a value of its kind, a controller holds releases only
\* while it hands over, and only a running container is late.
TypeOK ==
    /\ site \in Sites /\ desired \in Releases /\ goal \in Releases /\ attempts \in Seq(Releases)
    /\ cont \in [Releases -> {"none", "stopped", "up"}]
    /\ label \in [Releases -> SUBSET Releases]
    /\ Aged
    /\ late \cup older \subseteq Up /\ proven \cup parked \subseteq Exists
    /\ DOMAIN pending \subseteq Releases
    /\ \A r \in DOMAIN pending : pending[r] \subseteq Releases
    /\ waiting \cup blocked \cup cooling \cup todo \cup held \cup ghosts \subseteq Releases
    /\ asked \in BOOLEAN /\ pc \in Places
    /\ pc \in Settled => held = {}
    /\ \A event \in DOMAIN used : used[event] \in Nat

\* The releases that were ready and run, no candidate among them.
Serving == (proven \cap Up) \ (DOMAIN pending \cup {goal})

\* reconcileBlueGreen: a bad deploy never has a moment where nothing healthy
\* is serving.  When nothing has to stop first, or the policy forbids it, the
\* last release that serves ends in three ways only: it dies; it is retired
\* behind a candidate that was ready, or whose check was skipped for want of an
\* address to probe; or pruneSupersededPrevious keeps another release instead,
\* one that runs in its listing but was never ready or died since.
LastServingKept ==
    [][~StopFirst \/ KeepsOne => \A r \in Serving :
          cont'[r] # "up" /\ (proven \cap Up)' = {} =>
              \/ Dies(r)
              \/ pc \in {"retire", "steady"} /\ goal \in proven
              \/ pc = "steady" /\ used["blind"] > 0
              \/ pc = "prune" /\ Newest(Stale \cap ListedUp) \notin proven \cap Up]_vars

\* In the hands of the pass, or in the record of a pending candidate.
Owed == held \cup UNION {pending[t] : t \in DOMAIN pending}

Failed(event) == used'[event] # used[event]

\* Every release stopped for a take-over is owed its restart until it was tried
\* or a candidate became ready, from one place to the next.  What is owed is
\* forgotten by a restart of the control plane or a read of Docker that fails,
\* and never noted when the stop itself was reported as failed.
ParkedIsOwed ==
    [][\A r \in parked' : \/ r \in Owed'
                          \/ r \in parked \ Owed
                          \/ Crash \/ Failed("blind")
                          \/ r \notin parked /\ Failed("stuck")]_vars

\* reviveLastReady: an app without a pinned port that has a release that can be
\* ready, with a succeeded attempt and a container, is served again.  With a
\* pinned port a candidate whose stop failed keeps the port.
ServedAgain ==
    Mode = "overlap" /\ Known \ Bad # {} ~> Up \ Bad # {} \/ Known \ Bad = {}

\* A take-over that stopped a release which can serve ends with one running that
\* can serve: that release, the candidate or another.  A release with a
\* succeeded attempt comes back although starts fail and the control plane is
\* restarted, any release when neither happens.  What is left out: a failed
\* stop, removal or read, and a candidate that had used up its readiness budget
\* when a restarted control plane saw it, which then is not adopted.
TakeOverEnds ==
    \A r \in Releases : r \in parked \ Bad ~>
        \/ Up \ Bad # {}
        \/ Rank(r) = 0 /\ used["fault"] + used["crash"] > 0
        \/ older \cap late # {}
        \/ used["stuck"] + used["blind"] > 0

=============================================================================
