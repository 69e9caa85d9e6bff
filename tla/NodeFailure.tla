---------------------------- MODULE NodeFailure -----------------------------
(***************************************************************************)
(* The policy for a node that stays unreachable (internal/nodefailure with *)
(* its executor, internal/api/node_failure.go and node_move_exec.go): the  *)
(* tick that moves stateless apps away, keeps data where it is and fences  *)
(* the stale copies when the node returns, the operator's calls beside it, *)
(* and the teardowns that are queued when a node cannot be reached         *)
(* (internal/reconcile/application/delete_finalizer.go).                   *)
(*                                                                         *)
(* One node, Home, fails; the Others stay healthy.  A tick or an API call  *)
(* works on its own copy of the failure row from its load to its save; an  *)
(* action is one call that changes the store or the platform, with the     *)
(* reads that come just before it.                                         *)
(***************************************************************************)
EXTENDS Naturals

CONSTANTS
    Home,       \* the node that fails
    Others,     \* the healthy nodes
    Apps,       \* the apps and databases placed on Home at the start
    Data,       \* those that hold data on their node
    Databases,  \* those of them that are databases
    Sites       \* the settings and bounds to start with, see SiteType

Events == {"flap", "api", "wait", "move", "crash", "call", "save", "fence"}

SiteType ==
    [auto: BOOLEAN,           \* mode "auto", otherwise "notify"
     overlap: BOOLEAN,        \* bound: API calls run beside a tick
     max: [Events -> Nat]]    \* bounds: losses of the heartbeat, calls of MarkLost and restore,
                              \* of wait, moves by an operator, restarts of the control plane,
                              \* failed calls of the platform, failed saves of the row, failed
                              \* teardowns

ASSUME NodeAssumption == Home \notin Others /\ Databases \subseteq Data /\ Data \subseteq Apps

ASSUME SiteAssumption == Sites \subseteq SiteType

VARIABLES
    site,     \* the settings, chosen once
    link,     \* Home's heartbeat: "up", "silent" (inside the grace), "gone" (past it)
    sched,    \* Home is schedulable
    place,    \* desired state: the node of every app
    copies,   \* the nodes an app's containers run on
    tomb,     \* pending_teardowns: the node an app is to be removed from
    jobs,     \* teardowns that have begun: an app and the node it is removed from
    ending,   \* the apps of teardowns done whose tombstone is not cleared yet
    row,      \* node_failure_state of Home; phase "none" without a row
    rested,   \* the recovery hold has passed since recovering_at
    pc,       \* where the tick and the API call are
    st,       \* their copy of the row
    knew,     \* n.Schedulable as they loaded it
    was,      \* the row was recovering already when they loaded it
    todo,     \* the actions they have not come to yet
    aim,      \* the app and the node they are placing
    used      \* how often every bounded event happened

nodeVars == <<link, sched>>
appVars == <<place, copies, tomb, jobs, ending>>
rowVars == <<row, rested>>
runVars == <<pc, st, knew, was, todo, aim>>
vars == <<site, nodeVars, appVars, rowVars, runVars, used>>

Nodes == Others \cup {Home}
Runs == {"tick", "api"}

NoAction == [status |-> "absent", target |-> Home]

NoRow == [phase |-> "none", cordoned |-> FALSE, acts |-> [a \in Apps |-> NoAction]]

Once(event) ==
    /\ used[event] < site.max[event]
    /\ used' = [used EXCEPT ![event] = @ + 1]

Init ==
    /\ site \in Sites
    /\ link = "up" /\ sched = TRUE
    /\ place = [a \in Apps |-> Home] /\ copies = [a \in Apps |-> {Home}]
    /\ tomb = [a \in Apps |-> {}] /\ jobs = {} /\ ending = {}
    /\ row = NoRow /\ rested = FALSE
    /\ pc = [p \in Runs |-> "idle"] /\ st = [p \in Runs |-> NoRow]
    /\ knew = [p \in Runs |-> TRUE] /\ was = [p \in Runs |-> FALSE]
    /\ todo = [p \in Runs |-> {}] /\ aim = [p \in Runs |-> {}]
    /\ used = [event \in Events |-> 0]

-----------------------------------------------------------------------------
Reachable(n) == n = Home => link = "up"

\* The actions an action list holds in one of the states S.
In(r, S) == {a \in Apps : r.acts[a].status \in S}

Marked(r, a, status) == [r EXCEPT !.acts[a].status = status]

Goto(p, place1) == pc' = [pc EXCEPT ![p] = place1]

\* The run is over and its copy is gone.
Ends(p) ==
    /\ Goto(p, "idle")
    /\ st' = [st EXCEPT ![p] = NoRow]
    /\ knew' = [knew EXCEPT ![p] = TRUE] /\ was' = [was EXCEPT ![p] = FALSE]
    /\ todo' = [todo EXCEPT ![p] = {}] /\ aim' = [aim EXCEPT ![p] = {}]

\* A call of one run may begin while the other one is idle, or beside it.
Begins(p) == pc[p] = "idle" /\ (site.overlap \/ \A q \in Runs : pc[q] = "idle")

Load(p, r) ==
    /\ st' = [st EXCEPT ![p] = r]
    /\ knew' = [knew EXCEPT ![p] = sched]
    /\ was' = [was EXCEPT ![p] = row.phase = "recovering"]

-----------------------------------------------------------------------------
(* The node, the reconcilers and the operator.                             *)

HeartbeatStops ==
    /\ link = "up" /\ Once("flap")
    /\ link' = "silent"
    /\ UNCHANGED <<site, sched, appVars, rowVars, runVars>>

GracePasses ==
    /\ link = "silent"
    /\ link' = "gone"
    /\ UNCHANGED <<site, sched, appVars, rowVars, runVars, used>>

HeartbeatReturns ==
    /\ link # "up"
    /\ link' = "up"
    /\ UNCHANGED <<site, sched, appVars, rowVars, runVars, used>>

HoldPasses ==
    /\ row.phase = "recovering" /\ ~rested
    /\ rested' = TRUE
    /\ UNCHANGED <<site, nodeVars, appVars, row, runVars, used>>

\* The app's own controller, on the node the app is placed on.
Converges(a) ==
    /\ Reachable(place[a])
    /\ copies' = [copies EXCEPT ![a] = @ \cup {place[a]}]
    /\ UNCHANGED <<site, nodeVars, place, tomb, jobs, ending, rowVars, runVars, used>>

\* teardownServiceContainers: a tombstone, and a teardown in the background.
Queued(a, n) ==
    /\ tomb' = [tomb EXCEPT ![a] = {n}]
    /\ jobs' = jobs \cup {<<a, n>>}

\* handleSetAppNode: a schedulable node, and a teardown on the old one.
OperatorMoves(a, n) ==
    /\ a \notin Databases /\ n # place[a] /\ (n = Home => sched)
    /\ Begins("api") /\ Once("move")
    /\ place' = [place EXCEPT ![a] = n]
    /\ Queued(a, place[a])
    /\ UNCHANGED <<site, nodeVars, copies, ending, rowVars, runVars>>

OperatorUncordons ==
    /\ ~sched
    /\ sched' = TRUE
    /\ UNCHANGED <<site, link, appVars, rowVars, runVars, used>>

\* The finalizer's pass: an app that is placed where it was to be removed from
\* keeps its containers, any other teardown begins again.
FinalizerVisits(a) ==
    /\ tomb[a] # {}
    /\ IF tomb[a] = {place[a]}
       THEN tomb' = [tomb EXCEPT ![a] = {}] /\ UNCHANGED jobs
       ELSE jobs' = jobs \cup ({a} \X tomb[a]) /\ UNCHANGED tomb
    /\ UNCHANGED <<site, nodeVars, place, copies, ending, rowVars, runVars, used>>

\* A teardown on n may fail, and without the node it does.
TeardownFails(n) == IF Reachable(n) THEN Once("fence") ELSE UNCHANGED used

\* Finalize: when the teardown fails its tombstone stays.
TearsDown(a, n) ==
    /\ <<a, n>> \in jobs
    /\ jobs' = jobs \ {<<a, n>>}
    /\ \/ /\ Reachable(n)
          /\ copies' = [copies EXCEPT ![a] = @ \ {n}] /\ ending' = ending \cup {a}
          /\ UNCHANGED used
       \/ TeardownFails(n) /\ UNCHANGED <<copies, ending>>
    /\ UNCHANGED <<site, nodeVars, place, tomb, rowVars, runVars>>

\* The tombstone is deleted by the app's name.
ClearsTombstone(a) ==
    /\ a \in ending
    /\ ending' = ending \ {a}
    /\ tomb' = [tomb EXCEPT ![a] = {}]
    /\ UNCHANGED <<site, nodeVars, place, copies, jobs, rowVars, runVars, used>>

\* The control plane restarts.
Crash ==
    /\ Once("crash")
    /\ pc' = [p \in Runs |-> "idle"] /\ st' = [p \in Runs |-> NoRow]
    /\ knew' = [p \in Runs |-> TRUE] /\ was' = [p \in Runs |-> FALSE]
    /\ todo' = [p \in Runs |-> {}] /\ aim' = [p \in Runs |-> {}]
    /\ jobs' = {} /\ ending' = {}
    /\ UNCHANGED <<site, nodeVars, place, copies, tomb, rowVars>>

-----------------------------------------------------------------------------
(* How a tick or a call begins.                                            *)

\* Mutant of Unreachable: the phase stays as it was loaded.
UnreachableKept == row

\* The loaded row, or a new one, in the phase of an unreachable node.
Unreachable == [row EXCEPT !.phase = IF row.phase = "lost" THEN "lost" ELSE "unreachable"]

TickUnreachable ==
    /\ link = "gone" /\ Begins("tick")
    /\ Load("tick", Unreachable)
    /\ Goto("tick", "merge")
    /\ UNCHANGED <<site, nodeVars, appVars, rowVars, todo, aim, used>>

TickHealthy ==
    /\ link # "gone" /\ row.phase # "none" /\ Begins("tick")
    /\ Load("tick", row)
    /\ todo' = [todo EXCEPT !["tick"] = In(row, {"moved"})]
    /\ Goto("tick", "fence")
    /\ UNCHANGED <<site, nodeVars, appVars, rowVars, aim, used>>

\* MarkLost: the node is offline or past its grace.
MarkLost ==
    /\ link # "up" /\ Begins("api") /\ Once("api")
    /\ Load("api", [row EXCEPT !.phase = "lost"])
    /\ Goto("api", "merge")
    /\ UNCHANGED <<site, nodeVars, appVars, rowVars, todo, aim>>

Resolvable(a) == row.phase \in {"unreachable", "lost"} /\ row.acts[a].status # "absent"

ResolveWait(a) ==
    /\ Resolvable(a) /\ Begins("api") /\ Once("wait")
    /\ Load("api", Marked(row, a, "waiting"))
    /\ Goto("api", "save")
    /\ UNCHANGED <<site, nodeVars, appVars, rowVars, todo, aim>>

ResolveRestore(a) ==
    /\ Resolvable(a) /\ Begins("api") /\ Once("api")
    /\ Load("api", row)
    /\ \E n \in Others : aim' = [aim EXCEPT !["api"] = {<<a, n>>}]
    /\ Goto("api", "restore")
    /\ UNCHANGED <<site, nodeVars, appVars, rowVars, todo>>

-----------------------------------------------------------------------------
(* advance, for a tick and for MarkLost.                                   *)

\* Mutant of Merged: what runs elsewhere already is dropped from the list.
MergedForgets(r) ==
    [r EXCEPT !.acts = [a \in Apps |->
        IF place[a] # Home THEN NoAction
        ELSE IF r.acts[a].status = "absent" THEN [NoAction EXCEPT !.status = "pending"]
        ELSE r.acts[a]]]

\* merge: settled actions stay, the others only while the app is on Home.
Merged(r) ==
    [r EXCEPT !.acts = [a \in Apps |->
        IF r.acts[a].status \in {"moved", "fenced"} THEN r.acts[a]
        ELSE IF place[a] # Home THEN NoAction
        ELSE IF r.acts[a].status = "absent" THEN [NoAction EXCEPT !.status = "pending"]
        ELSE r.acts[a]]]

Merge(p) ==
    /\ pc[p] = "merge"
    /\ st' = [st EXCEPT ![p] = Merged(@)]
    /\ Goto(p, IF site.auto \/ st[p].phase = "lost" THEN "cordon" ELSE "save")
    /\ UNCHANGED <<site, nodeVars, appVars, rowVars, knew, was, todo, aim, used>>

\* Mutant of Movable: the class of an action is not looked at.
MovableAll(r) == In(r, {"pending", "moving", "waiting", "failed"})

\* The actions advance goes through: stateless, and not settled.
Movable(r) == In(r, {"pending", "moving", "waiting", "failed"}) \ Data

\* cordon, which may fail, and the start of the loop over the actions.
Cordon(p) ==
    /\ pc[p] = "cordon"
    /\ todo' = [todo EXCEPT ![p] = Movable(st[p])]
    /\ IF ~knew[p] \/ st[p].cordoned
       THEN UNCHANGED <<sched, st, used>>
       ELSE \/ sched' = FALSE /\ st' = [st EXCEPT ![p].cordoned = TRUE] /\ UNCHANGED used
            \/ Once("call") /\ UNCHANGED <<sched, st>>
    /\ Goto(p, "apps")
    /\ UNCHANGED <<site, link, appVars, rowVars, knew, was, aim>>

\* One round of the loop ends with this status, without placing anything.
Settles(p, a, status) ==
    /\ pc[p] = "apps" /\ a \in todo[p]
    /\ todo' = [todo EXCEPT ![p] = @ \ {a}]
    /\ st' = [st EXCEPT ![p] = Marked(@, a, status)]
    /\ UNCHANGED <<site, nodeVars, appVars, rowVars, pc, knew, was, aim>>

MovedAlready(p, a) ==
    /\ place[a] # Home
    /\ Settles(p, a, "moved")
    /\ UNCHANGED used

\* PickTarget finds no node; a move under way keeps the target it has.
NoTarget(p, a) ==
    /\ place[a] = Home /\ st[p].acts[a].status # "moving"
    /\ Once("call")
    /\ Settles(p, a, "failed")

\* The row is saved as moving before anything is placed; that save may fail.
Aims(p, a) ==
    /\ place[a] = Home
    /\ \E n \in IF st[p].acts[a].status = "moving" THEN {st[p].acts[a].target} ELSE Others :
           LET moving == [st[p] EXCEPT !.acts[a] = [status |-> "moving", target |-> n]]
           IN  \/ /\ pc[p] = "apps" /\ a \in todo[p]
                  /\ row' = moving
                  /\ st' = [st EXCEPT ![p] = moving]
                  /\ aim' = [aim EXCEPT ![p] = {<<a, n>>}]
                  /\ todo' = [todo EXCEPT ![p] = @ \ {a}]
                  /\ Goto(p, "place")
                  /\ UNCHANGED <<site, nodeVars, appVars, rested, knew, was, used>>
               \/ Once("save") /\ Settles(p, a, "failed")

Placed(p, status) ==
    /\ \E a \in Apps, n \in Nodes :
           /\ <<a, n>> \in aim[p]
           /\ place' = [place EXCEPT ![a] = n]
           /\ st' = [st EXCEPT ![p].acts[a] = [status |-> status, target |-> n]]
    /\ aim' = [aim EXCEPT ![p] = {}]
    /\ UNCHANGED <<site, nodeVars, copies, tomb, jobs, ending, rowVars, knew, was, todo, used>>

Places(p) ==
    /\ pc[p] = "place"
    /\ Placed(p, "moved")
    /\ Goto(p, "apps")

PlaceFails(p) ==
    /\ pc[p] = "place" /\ Once("call")
    /\ \E a \in Apps, n \in Nodes :
           <<a, n>> \in aim[p] /\ st' = [st EXCEPT ![p] = Marked(@, a, "failed")]
    /\ aim' = [aim EXCEPT ![p] = {}]
    /\ Goto(p, "apps")
    /\ UNCHANGED <<site, nodeVars, appVars, rowVars, knew, was, todo>>

AppsDone(p) ==
    /\ pc[p] = "apps" /\ todo[p] = {}
    /\ Goto(p, "save")
    /\ UNCHANGED <<site, nodeVars, appVars, rowVars, st, knew, was, todo, aim, used>>

Save(p) ==
    /\ pc[p] = "save"
    /\ \/ row' = st[p] /\ UNCHANGED used
       \/ Once("save") /\ UNCHANGED row
    /\ Ends(p)
    /\ UNCHANGED <<site, nodeVars, appVars, rested>>

\* Resolve places the resource first and records it then.
Restore ==
    /\ pc["api"] = "restore"
    /\ Placed("api", "moved")
    /\ Goto("api", "save")

RestoreFails ==
    /\ pc["api"] = "restore" /\ Once("call")
    /\ Ends("api")
    /\ UNCHANGED <<site, nodeVars, appVars, rowVars>>

-----------------------------------------------------------------------------
(* healthy and clear.                                                      *)

\* Mutant of FenceLooks: where the app is placed now is not looked at.
FenceLooksAway(a) ==
    /\ pc["tick"] = "fence" /\ a \in todo["tick"]
    /\ todo' = [todo EXCEPT !["tick"] = @ \ {a}]
    /\ aim' = [aim EXCEPT !["tick"] = {<<a, Home>>}]
    /\ Goto("tick", "stop")
    /\ UNCHANGED <<site, nodeVars, appVars, rowVars, st, knew, was, used>>

\* One round of the loop over the moved actions: what an operator placed back
\* on Home counts as fenced, the copy of anything else is to be stopped.
FenceLooks(a) ==
    /\ pc["tick"] = "fence" /\ a \in todo["tick"]
    /\ todo' = [todo EXCEPT !["tick"] = @ \ {a}]
    /\ IF place[a] = Home
       THEN st' = [st EXCEPT !["tick"] = Marked(@, a, "fenced")] /\ UNCHANGED <<pc, aim>>
       ELSE /\ aim' = [aim EXCEPT !["tick"] = {<<a, Home>>}]
            /\ Goto("tick", "stop") /\ UNCHANGED st
    /\ UNCHANGED <<site, nodeVars, appVars, rowVars, knew, was, used>>

\* The round ends with the copy of a stopped, queued or still there.
FenceEnds(a, fenced) ==
    /\ pc["tick"] = "stop" /\ <<a, Home>> \in aim["tick"]
    /\ st' = IF fenced THEN [st EXCEPT !["tick"] = Marked(@, a, "fenced")] ELSE st
    /\ aim' = [aim EXCEPT !["tick"] = {}]
    /\ Goto("tick", "fence")
    /\ UNCHANGED <<site, nodeVars, place, ending, rowVars, knew, was, todo>>

FenceStops(a) ==
    /\ link = "up"
    /\ FenceEnds(a, TRUE)
    /\ copies' = [copies EXCEPT ![a] = @ \ {Home}]
    /\ UNCHANGED <<tomb, jobs, used>>

\* The teardown fails: an app's is queued, a database's is tried again.
FenceFails(a) ==
    /\ TeardownFails(Home)
    /\ FenceEnds(a, a \notin Databases)
    /\ IF a \in Databases THEN UNCHANGED <<tomb, jobs>> ELSE Queued(a, Home)
    /\ UNCHANGED copies

\* All fenced and the hold has passed: the row goes; or the wait goes on.
FencesDone ==
    /\ pc["tick"] = "fence" /\ todo["tick"] = {}
    /\ st' = [st EXCEPT !["tick"].phase = "recovering"]
    /\ rested' = (rested /\ was["tick"])
    /\ Goto("tick", IF rested /\ was["tick"] /\ In(st["tick"], {"moved"}) = {}
                    THEN "uncordon" ELSE "save")
    /\ UNCHANGED <<site, nodeVars, appVars, row, knew, was, todo, aim, used>>

Uncordon ==
    /\ pc["tick"] = "uncordon"
    /\ \/ /\ sched' = (sched \/ st["tick"].cordoned)
          /\ Goto("tick", "delete")
          /\ UNCHANGED used
          /\ UNCHANGED <<st, knew, was, todo, aim>>
       \/ st["tick"].cordoned /\ Once("call") /\ Ends("tick") /\ UNCHANGED sched
    /\ UNCHANGED <<site, link, appVars, rowVars>>

\* Mutant of Delete: the row stays and nothing ever removes it.
DeleteKeeps ==
    /\ pc["tick"] = "delete"
    /\ Ends("tick")
    /\ UNCHANGED <<site, nodeVars, appVars, rowVars, used>>

Delete ==
    /\ pc["tick"] = "delete"
    /\ \/ row' = NoRow /\ UNCHANGED used
       \/ Once("save") /\ UNCHANGED row
    /\ Ends("tick")
    /\ UNCHANGED <<site, nodeVars, appVars, rested>>

-----------------------------------------------------------------------------
Outside ==
    \/ HeartbeatStops \/ GracePasses \/ HeartbeatReturns \/ HoldPasses
    \/ OperatorUncordons \/ Crash
    \/ \E a \in Apps : Converges(a) \/ \E n \in Nodes : OperatorMoves(a, n)

Finalizer ==
    \E a \in Apps : \/ FinalizerVisits(a) \/ ClearsTombstone(a)
                    \/ \E n \in Nodes : TearsDown(a, n)

Advance(p) ==
    \/ Merge(p) \/ Cordon(p) \/ Places(p) \/ PlaceFails(p) \/ AppsDone(p) \/ Save(p)
    \/ \E a \in Apps : MovedAlready(p, a) \/ NoTarget(p, a) \/ Aims(p, a)

Tick ==
    \/ TickUnreachable \/ TickHealthy \/ Advance("tick")
    \/ \E a \in Apps : FenceLooks(a) \/ FenceStops(a) \/ FenceFails(a)
    \/ FencesDone \/ Uncordon \/ Delete

ApiStep == Advance("api") \/ Restore \/ RestoreFails

Api == MarkLost \/ ApiStep \/ \E a \in Apps : ResolveWait(a) \/ ResolveRestore(a)

Next == Outside \/ Finalizer \/ Tick \/ Api

Spec == Init /\ [][Next]_vars

\* The ticker ticks, handlers go on, and a hold that counts down ends.
FairSpec == Spec /\ WF_vars(Tick) /\ WF_vars(ApiStep) /\ WF_vars(HoldPasses)

-----------------------------------------------------------------------------
(* Properties.                                                             *)

Statuses == {"absent", "pending", "moving", "moved", "fenced", "waiting", "failed"}

RowType ==
    [phase: {"none", "unreachable", "lost", "recovering"}, cordoned: BOOLEAN,
     acts: [Apps -> [status: Statuses, target: Nodes]]]

\* Every variable holds a value of its kind, only a step that places something
\* has an aim, and data is on no run's list of apps to move.
TypeOK ==
    /\ site \in Sites /\ link \in {"up", "silent", "gone"} /\ sched \in BOOLEAN
    /\ place \in [Apps -> Nodes] /\ copies \in [Apps -> SUBSET Nodes]
    /\ tomb \in [Apps -> SUBSET Nodes] /\ jobs \subseteq Apps \X Nodes /\ ending \subseteq Apps
    /\ row \in RowType /\ rested \in BOOLEAN /\ (row.phase = "none" => row = NoRow)
    /\ pc \in [Runs -> {"idle", "merge", "cordon", "apps", "place", "save", "restore",
                        "fence", "stop", "uncordon", "delete"}]
    /\ st \in [Runs -> RowType] /\ {knew[p] : p \in Runs} \cup {was[p] : p \in Runs} \subseteq BOOLEAN
    /\ todo \in [Runs -> SUBSET Apps] /\ aim \in [Runs -> SUBSET (Apps \X Nodes)]
    /\ \A p \in Runs : /\ aim[p] # {} => pc[p] \in {"place", "restore", "stop"}
                      /\ pc[p] \in {"apps", "place"} => todo[p] \cap Data = {}
    /\ \A event \in Events : used[event] \in Nat

Quiet == row.phase = "none" /\ \A p \in Runs : pc[p] = "idle"

\* "fences stale copies when the node returns" (package comment): once the
\* failure row is gone, what still runs on Home is placed there, or its
\* teardown is queued.
NoStrays ==
    Quiet => \A a \in Apps : Home \in copies[a] => place[a] = Home \/ tomb[a] = {Home}

\* The sites where no call of the API runs beside a tick, no operator asks to
\* wait for what was moved, the control plane does not restart, and every save
\* of the row succeeds.
Calm ==
    /\ ~site.overlap /\ site.max["crash"] = 0 /\ site.max["save"] = 0
    /\ site.max["wait"] > 0 => ~site.auto /\ site.max["api"] = 0

\* healthy, clear: there, NoStrays holds through every drop and return of the
\* node, failed call and failed teardown, unless an operator's move overwrites
\* the tombstone of a teardown that is not done (no site of the run has both).
StraysFenced == Calm => NoStrays

\* clear: there, a node the policy cordoned is schedulable again when its
\* failure is over.
CordonReturned == Calm /\ Quiet => sched

\* healthy: with no step under way and nothing left to fail, a recovered node is as clean as one
\* that never failed.
RecoveredClean == StraysFenced /\ CordonReturned

\* "never moves anything holding node-local data": only an operator does.
DataStays ==
    [][\A a \in Data : place'[a] # place[a] => pc["api"] = "restore" \/ used'["move"] # used["move"]]_vars

\* healthy: the fence of a tick never stops the copy of an app that is placed
\* on Home again.
WantedKept ==
    [][Calm /\ jobs' = jobs => \A a \in Apps : Home \in copies[a] \ copies'[a] => place[a] # Home]_vars

\* "it reschedules stateless apps": in mode "auto" a stateless app on a node
\* that stays unreachable is placed elsewhere, though calls fail, runs overlap
\* and the control plane restarts.  An app an operator placed back on a node
\* whose row has settled it before is left out: the tick passes over it.
Owed(a) ==
    /\ site.auto /\ link = "gone" /\ place[a] = Home
    /\ row.acts[a].status \notin {"moved", "fenced"}

Rescheduled == \A a \in Apps \ Data : Owed(a) ~> ~Owed(a)

\* A node that stays healthy loses its failure row, whatever had to be fenced.
Clears == <>[](link = "up") => []<>(row.phase = "none")

\* Tick: a failure that lasts moves what may move, and one that ends is forgotten.
FailureHandled == Rescheduled /\ Clears
=============================================================================
