-------------------------- MODULE NodeFailureProofs ---------------------------
(***************************************************************************)
(* What holds of every failure of a node, whatever the apps and the other  *)
(* nodes are, however often it drops and returns, calls, saves and         *)
(* teardowns fail, operators call and the control plane restarts: the      *)
(* types, and that the policy itself never moves what holds data.  Then    *)
(* what holds where nothing runs beside a tick: cordons that are undone,   *)
(* and a returned node without stale copies.                               *)
(***************************************************************************)
EXTENDS NodeFailure, TLAPS

Phases == {"unreachable", "lost", "recovering"}
Points == {"idle", "merge", "cordon", "apps", "place", "save", "restore",
           "fence", "stop", "uncordon", "delete"}

\* The functions and records TypeOK is about, with their domains.
Typed ==
    /\ site \in Sites /\ link \in {"up", "silent", "gone"} /\ sched \in BOOLEAN
    /\ place \in [Apps -> Nodes] /\ copies \in [Apps -> SUBSET Nodes]
    /\ tomb \in [Apps -> SUBSET Nodes] /\ jobs \subseteq Apps \X Nodes /\ ending \subseteq Apps
    /\ row \in RowType /\ rested \in BOOLEAN
    /\ pc \in [Runs -> Points] /\ st \in [Runs -> RowType]
    /\ knew \in [Runs -> BOOLEAN] /\ was \in [Runs -> BOOLEAN]
    /\ todo \in [Runs -> SUBSET Apps] /\ aim \in [Runs -> SUBSET (Apps \X Nodes)]
    /\ used \in [Events -> Nat]

\* A run under way works on a row that exists; no row is kept without a phase.
Rows ==
    /\ row.phase = "none" => row = NoRow
    /\ \A p \in Runs : pc[p] # "idle" => st[p].phase \in Phases

\* What a run is about to place: nothing but stateless apps, except for an operator.
Stateless ==
    \A p \in Runs :
        /\ aim[p] # {} => pc[p] \in {"place", "restore", "stop"}
        /\ pc[p] \in {"apps", "place"} => todo[p] \cap Data = {}
        /\ pc[p] = "place" => aim[p] \subseteq (Apps \ Data) \X Nodes
        /\ pc[p] = "restore" => p = "api"

Inv == Typed /\ Rows /\ Stateless

-----------------------------------------------------------------------------
LEMMA NoRowTyped == NoRow \in RowType
  BY DEF NoRow, NoAction, RowType, Statuses, Nodes

LEMMA ActIsTyped ==
  ASSUME NEW r \in RowType, NEW a \in Apps, NEW act \in [status : Statuses, target : Nodes]
  PROVE  [r EXCEPT !.acts[a] = act] \in RowType /\ [r EXCEPT !.acts[a] = act].phase = r.phase
  <1> DEFINE Act == [status : Statuses, target : Nodes]
  <1>1. r.acts \in [Apps -> Act]
    BY DEF RowType
  <1> HIDE DEF Act
  <1>2. act \in Act
    BY DEF Act
  <1>3. [r.acts EXCEPT ![a] = act] \in [Apps -> Act]
    BY <1>1, <1>2
  <1> QED
    BY <1>3 DEF RowType, Act

\* A status of an action.
LEMMA MarkedIsTyped ==
  ASSUME NEW r \in RowType, NEW a \in Apps, NEW s \in Statuses
  PROVE  Marked(r, a, s) \in RowType /\ Marked(r, a, s).phase = r.phase
  <1>1. [r.acts[a] EXCEPT !.status = s] \in [status : Statuses, target : Nodes]
    BY DEF RowType
  <1>2. Marked(r, a, s) = [r EXCEPT !.acts[a] = [r.acts[a] EXCEPT !.status = s]]
    BY DEF Marked
  <1> QED
    BY <1>1, <1>2, ActIsTyped

\* A status and a target of an action.
LEMMA AimIsTyped ==
  ASSUME NEW r \in RowType, NEW a \in Apps, NEW s \in {"moving", "moved"}, NEW n \in Nodes
  PROVE  /\ [r EXCEPT !.acts[a] = [status |-> s, target |-> n]] \in RowType
         /\ [r EXCEPT !.acts[a] = [status |-> s, target |-> n]].phase = r.phase
  <1>1. [status |-> s, target |-> n] \in [status : Statuses, target : Nodes]
    BY DEF Statuses
  <1> QED
    BY <1>1, ActIsTyped

LEMMA TargetIsTyped == \A r \in RowType, a \in Apps : r.acts[a].target \in Nodes
  BY DEF RowType

LEMMA PhasesAreTyped ==
  ASSUME NEW r \in RowType
  PROVE  /\ \A ph \in Phases : [r EXCEPT !.phase = ph] \in RowType /\ [r EXCEPT !.phase = ph].phase = ph
         /\ [r EXCEPT !.cordoned = TRUE] \in RowType /\ [r EXCEPT !.cordoned = TRUE].phase = r.phase
         /\ r.phase \in {"none"} \cup Phases
  BY DEF RowType, Phases

LEMMA MergedIsTyped ==
  ASSUME NEW r \in RowType
  PROVE  Merged(r) \in RowType /\ Merged(r).phase = r.phase
  BY DEF Merged, RowType, NoAction, Statuses, Nodes

LEMMA OnceTyped ==
  ASSUME used \in [Events -> Nat], NEW e \in Events, Once(e)
  PROVE  used' \in [Events -> Nat]
  BY DEF Once

LEMMA Initially == Init => Inv
  <1> SUFFICES ASSUME Init PROVE Inv
    OBVIOUS
  <1>1. Typed
    BY NoRowTyped DEF Init, Typed, Nodes, Points, Runs
  <1>2. Rows /\ Stateless
    BY DEF Init, Rows, Stateless, Runs, NoRow
  <1> QED
    BY <1>1, <1>2 DEF Inv

-----------------------------------------------------------------------------
(* What happens beside the runs.                                           *)

LEMMA OutsideStep == Inv /\ (Outside \/ Finalizer) => Inv'
  <1> SUFFICES ASSUME Inv, Outside \/ Finalizer PROVE Inv'
    OBVIOUS
  <1> USE DEF Inv, Typed, nodeVars, appVars, rowVars, runVars, Nodes
  <1>1. CASE HeartbeatStops \/ GracePasses \/ HeartbeatReturns
    <2>1. Typed'
      BY <1>1, OnceTyped DEF HeartbeatStops, GracePasses, HeartbeatReturns, Events
    <2> QED
      BY <1>1, <2>1 DEF HeartbeatStops, GracePasses, HeartbeatReturns, Rows, Stateless
  <1>2. CASE HoldPasses \/ OperatorUncordons
    BY <1>2 DEF HoldPasses, OperatorUncordons, Rows, Stateless
  <1>3. CASE Crash
    <2>1. Typed'
      BY <1>3, OnceTyped, NoRowTyped DEF Crash, Events, Points
    <2> QED
      BY <1>3, <2>1 DEF Crash, Rows, Stateless
  <1>4. ASSUME NEW a \in Apps, Converges(a)
        PROVE  Inv'
    BY <1>4 DEF Converges, Rows, Stateless
  <1>5. ASSUME NEW a \in Apps, NEW n \in Nodes, OperatorMoves(a, n)
        PROVE  Inv'
    <2>1. Typed'
      BY <1>5, OnceTyped DEF OperatorMoves, Queued, Events
    <2> QED
      BY <1>5, <2>1 DEF OperatorMoves, Rows, Stateless
  <1>6. ASSUME NEW a \in Apps, FinalizerVisits(a) \/ ClearsTombstone(a)
        PROVE  Inv'
    <2>1. Typed'
      BY <1>6 DEF FinalizerVisits, ClearsTombstone
    <2> QED
      BY <1>6, <2>1 DEF FinalizerVisits, ClearsTombstone, Rows, Stateless
  <1>7. ASSUME NEW a \in Apps, NEW n \in Nodes, TearsDown(a, n)
        PROVE  Inv'
    <2>1. Typed'
      BY <1>7, OnceTyped DEF TearsDown, TeardownFails, Events
    <2> QED
      BY <1>7, <2>1 DEF TearsDown, Rows, Stateless
  <1> QED
    BY <1>1, <1>2, <1>3, <1>4, <1>5, <1>6, <1>7 DEF Outside, Finalizer

-----------------------------------------------------------------------------
(* How a run begins and ends.                                              *)

LEMMA BeginStep ==
  Inv /\ (TickUnreachable \/ TickHealthy \/ MarkLost \/ \E a \in Apps : ResolveWait(a) \/ ResolveRestore(a))
      => Inv'
  <1> SUFFICES ASSUME Inv, TickUnreachable \/ TickHealthy \/ MarkLost
                           \/ \E a \in Apps : ResolveWait(a) \/ ResolveRestore(a)
               PROVE  Inv'
    OBVIOUS
  <1> USE DEF Inv, Typed, nodeVars, appVars, rowVars, runVars, Nodes, Goto, Load, Begins, Runs
  <1>1. CASE TickUnreachable
    <2>1. Unreachable \in RowType /\ Unreachable.phase \in Phases
      BY PhasesAreTyped DEF Unreachable, Phases
    <2> QED
      BY <1>1, <2>1 DEF TickUnreachable, Rows, Stateless, Points
  <1>2. CASE TickHealthy
    <2>1. row.phase \in Phases /\ In(row, {"moved"}) \subseteq Apps
      BY <1>2, PhasesAreTyped DEF TickHealthy, In
    <2> QED
      BY <1>2, <2>1 DEF TickHealthy, Rows, Stateless, Points
  <1>3. CASE MarkLost
    <2>1. [row EXCEPT !.phase = "lost"] \in RowType /\ [row EXCEPT !.phase = "lost"].phase \in Phases
      BY PhasesAreTyped DEF Phases
    <2> QED
      BY <1>3, <2>1, OnceTyped DEF MarkLost, Rows, Stateless, Points, Events
  <1>4. ASSUME NEW a \in Apps, ResolveWait(a)
        PROVE  Inv'
    <2>1. row.phase \in Phases
      BY <1>4, PhasesAreTyped DEF ResolveWait, Resolvable, Phases
    <2>2. Marked(row, a, "waiting") \in RowType /\ Marked(row, a, "waiting").phase \in Phases
      BY <2>1, MarkedIsTyped DEF Statuses
    <2> QED
      BY <1>4, <2>2, OnceTyped DEF ResolveWait, Rows, Stateless, Points, Events
  <1>5. ASSUME NEW a \in Apps, ResolveRestore(a)
        PROVE  Inv'
    <2>1. row.phase \in Phases
      BY <1>5, PhasesAreTyped DEF ResolveRestore, Resolvable, Phases
    <2> QED
      BY <1>5, <2>1, OnceTyped DEF ResolveRestore, Rows, Stateless, Points, Events
  <1> QED
    BY <1>1, <1>2, <1>3, <1>4, <1>5

LEMMA EndsTyped ==
  ASSUME Inv, NEW p \in Runs, Ends(p)
  PROVE  /\ pc' \in [Runs -> Points] /\ st' \in [Runs -> RowType]
         /\ knew' \in [Runs -> BOOLEAN] /\ was' \in [Runs -> BOOLEAN]
         /\ todo' \in [Runs -> SUBSET Apps] /\ aim' \in [Runs -> SUBSET (Apps \X Nodes)]
         /\ Stateless'
         /\ \A q \in Runs : pc'[q] # "idle" => st'[q].phase \in Phases
  BY NoRowTyped DEF Ends, Goto, Inv, Typed, Rows, Stateless, Points

-----------------------------------------------------------------------------
(* advance and the restore of an operator.                                 *)

LEMMA AdvanceStep == \A p \in Runs : Inv /\ Advance(p) => Inv'
  <1> SUFFICES ASSUME NEW p \in Runs, Inv, Advance(p) PROVE Inv'
    OBVIOUS
  <1> USE DEF Inv, Typed, nodeVars, appVars, rowVars, runVars, Nodes, Goto, Points
  <1>a. st[p] \in RowType /\ (pc[p] # "idle" => st[p].phase \in Phases)
    BY DEF Rows
  <1>1. CASE Merge(p)
    <2>1. Merged(st[p]) \in RowType /\ Merged(st[p]).phase = st[p].phase
      BY <1>a, MergedIsTyped
    <2> QED
      BY <1>1, <1>a, <2>1 DEF Merge, Rows, Stateless
  <1>2. CASE Cordon(p)
    <2>1. [st[p] EXCEPT !.cordoned = TRUE] \in RowType /\ [st[p] EXCEPT !.cordoned = TRUE].phase = st[p].phase
      BY <1>a, PhasesAreTyped
    <2>2. Movable(st[p]) \subseteq Apps /\ Movable(st[p]) \cap Data = {}
      BY DEF Movable, In
    <2>3. st' = st \/ st' = [st EXCEPT ![p] = [st[p] EXCEPT !.cordoned = TRUE]]
      BY <1>2 DEF Cordon
    <2>4. st' \in [Runs -> RowType] /\ \A q \in Runs : st'[q].phase = st[q].phase
      BY <2>1, <2>3
    <2>5. used' \in [Events -> Nat] /\ sched' \in BOOLEAN
      BY <1>2, OnceTyped DEF Cordon, Events
    <2>6. /\ pc[p] = "cordon" /\ pc' = [pc EXCEPT ![p] = "apps"]
          /\ todo' = [todo EXCEPT ![p] = Movable(st[p])]
          /\ UNCHANGED <<site, link, appVars, rowVars, knew, was, aim>>
      BY <1>2 DEF Cordon
    <2>7. Typed'
      BY <2>2, <2>4, <2>5, <2>6
    <2>8. Rows' /\ Stateless'
      BY <1>a, <2>2, <2>4, <2>6 DEF Rows, Stateless
    <2> QED
      BY <2>7, <2>8
  <1>3. CASE AppsDone(p)
    BY <1>3, <1>a DEF AppsDone, Rows, Stateless
  <1>4. CASE Save(p)
    <2>1. row' \in RowType /\ (row'.phase = "none" => row' = NoRow) /\ used' \in [Events -> Nat]
      BY <1>4, <1>a, OnceTyped DEF Save, Rows, Events, Phases
    <2>2. Ends(p) /\ UNCHANGED <<site, nodeVars, appVars, rested>>
      BY <1>4 DEF Save
    <2> QED
      BY <2>1, <2>2, EndsTyped DEF Rows
  <1>5. CASE Places(p)
    <2>1. PICK a \in Apps, n \in Nodes :
              /\ <<a, n>> \in aim[p]
              /\ place' = [place EXCEPT ![a] = n]
              /\ st' = [st EXCEPT ![p].acts[a] = [status |-> "moved", target |-> n]]
      BY <1>5 DEF Places, Placed
    <2>2. /\ [st[p] EXCEPT !.acts[a] = [status |-> "moved", target |-> n]] \in RowType
          /\ [st[p] EXCEPT !.acts[a] = [status |-> "moved", target |-> n]].phase = st[p].phase
      BY <1>a, AimIsTyped
    <2>3. st' = [st EXCEPT ![p] = [st[p] EXCEPT !.acts[a] = [status |-> "moved", target |-> n]]]
      BY <2>1
    <2>4. st' \in [Runs -> RowType] /\ \A q \in Runs : st'[q].phase = st[q].phase
      BY <2>2, <2>3
    <2> QED
      BY <1>5, <1>a, <2>1, <2>4 DEF Places, Placed, Rows, Stateless
  <1>6. CASE PlaceFails(p)
    <2>1. PICK a \in Apps : st' = [st EXCEPT ![p] = Marked(st[p], a, "failed")]
      BY <1>6 DEF PlaceFails
    <2>2. Marked(st[p], a, "failed") \in RowType /\ Marked(st[p], a, "failed").phase = st[p].phase
      BY <1>a, MarkedIsTyped DEF Statuses
    <2>3. st' \in [Runs -> RowType] /\ \A q \in Runs : st'[q].phase = st[q].phase
      BY <2>1, <2>2
    <2> QED
      BY <1>6, <1>a, <2>3, OnceTyped DEF PlaceFails, Rows, Stateless, Events
  <1>7. ASSUME NEW a \in Apps, NEW s \in Statuses, Settles(p, a, s), used' \in [Events -> Nat]
        PROVE  Inv'
    <2>1. Marked(st[p], a, s) \in RowType /\ Marked(st[p], a, s).phase = st[p].phase
      BY <1>a, MarkedIsTyped, Zenon
    <2>2. st' \in [Runs -> RowType] /\ \A q \in Runs : st'[q].phase = st[q].phase
      BY <1>7, <2>1 DEF Settles
    <2> QED
      BY <1>7, <1>a, <2>2 DEF Settles, Rows, Stateless
  <1>8. ASSUME NEW a \in Apps, MovedAlready(p, a) \/ NoTarget(p, a)
        PROVE  Inv'
    <2>1. used' \in [Events -> Nat]
      BY <1>8, OnceTyped DEF MovedAlready, NoTarget, Events
    <2> QED
      BY <1>7, <1>8, <2>1 DEF MovedAlready, NoTarget, Statuses
  <1>9. ASSUME NEW a \in Apps, Aims(p, a)
        PROVE  Inv'
    <2>1. CASE Once("save") /\ Settles(p, a, "failed")
      <3>1. used' \in [Events -> Nat]
        BY <2>1, OnceTyped DEF Events
      <3> QED
        BY <1>7, <2>1, <3>1 DEF Statuses
    <2>2. ASSUME NEW n \in Nodes, NEW moving,
                 moving = [st[p] EXCEPT !.acts[a] = [status |-> "moving", target |-> n]],
                 pc[p] = "apps" /\ a \in todo[p],
                 row' = moving, st' = [st EXCEPT ![p] = moving],
                 aim' = [aim EXCEPT ![p] = {<<a, n>>}], todo' = [todo EXCEPT ![p] = @ \ {a}],
                 Goto(p, "place"), UNCHANGED <<site, nodeVars, appVars, rested, knew, was, used>>
          PROVE  Inv'
      <3>1. moving \in RowType /\ moving.phase = st[p].phase
        <4>1. /\ [st[p] EXCEPT !.acts[a] = [status |-> "moving", target |-> n]] \in RowType
              /\ [st[p] EXCEPT !.acts[a] = [status |-> "moving", target |-> n]].phase = st[p].phase
          <5> DEFINE act == [status |-> "moving", target |-> n]
          <5>1. act \in [status : Statuses, target : Nodes]
            BY DEF Statuses
          <5> HIDE DEF act
          <5>2. [st[p] EXCEPT !.acts[a] = act] \in RowType /\ [st[p] EXCEPT !.acts[a] = act].phase = st[p].phase
            BY <1>a, <5>1, ActIsTyped
          <5> QED
            BY <5>2 DEF act
        <4> QED
          BY <2>2, <4>1, Zenon
      <3>2. row'.phase # "none" /\ moving.phase \in Phases
        BY <1>a, <2>2, <3>1 DEF Phases
      <3>3. a \notin Data
        BY <2>2 DEF Stateless
      <3>4. Typed'
        BY <2>2, <3>1
      <3>5. Rows'
        BY <2>2, <3>2 DEF Rows
      <3>6. Stateless'
        BY <2>2, <3>3 DEF Stateless
      <3> QED
        BY <3>4, <3>5, <3>6
    <2>3. st[p].acts[a].target \in Nodes
      BY <1>a, TargetIsTyped
    <2>4. \A n \in (IF st[p].acts[a].status = "moving" THEN {st[p].acts[a].target} ELSE Others) :
              n \in Nodes
      BY <2>3
    <2> QED
      BY <1>9, <2>1, <2>2, <2>4 DEF Aims
  <1> QED
    BY <1>1, <1>2, <1>3, <1>4, <1>5, <1>6, <1>8, <1>9 DEF Advance

LEMMA RestoreStep == Inv /\ (Restore \/ RestoreFails) => Inv'
  <1> SUFFICES ASSUME Inv, Restore \/ RestoreFails PROVE Inv'
    OBVIOUS
  <1> USE DEF Inv, Typed, nodeVars, appVars, rowVars, runVars, Nodes, Goto, Points, Runs
  <1>a. st["api"] \in RowType /\ (pc["api"] # "idle" => st["api"].phase \in Phases)
    BY DEF Rows
  <1>1. CASE Restore
    <2>1. PICK a \in Apps, n \in Nodes :
              /\ place' = [place EXCEPT ![a] = n]
              /\ st' = [st EXCEPT !["api"].acts[a] = [status |-> "moved", target |-> n]]
      BY <1>1 DEF Restore, Placed
    <2>2. /\ [st["api"] EXCEPT !.acts[a] = [status |-> "moved", target |-> n]] \in RowType
          /\ [st["api"] EXCEPT !.acts[a] = [status |-> "moved", target |-> n]].phase = st["api"].phase
      <3> DEFINE act == [status |-> "moved", target |-> n]
      <3>1. act \in [status : Statuses, target : Nodes]
        BY DEF Statuses
      <3> HIDE DEF act
      <3>2. /\ [st["api"] EXCEPT !.acts[a] = act] \in RowType
            /\ [st["api"] EXCEPT !.acts[a] = act].phase = st["api"].phase
        BY <1>a, <3>1, ActIsTyped
      <3> QED
        BY <3>2 DEF act
    <2>3. st' = [st EXCEPT !["api"] = [st["api"] EXCEPT !.acts[a] = [status |-> "moved", target |-> n]]]
      BY <2>1
    <2>4. st' \in [Runs -> RowType] /\ \A q \in Runs : st'[q].phase = st[q].phase
      BY <2>2, <2>3
    <2> QED
      BY <1>1, <1>a, <2>1, <2>4 DEF Restore, Placed, Rows, Stateless
  <1>2. CASE RestoreFails
    <2>1. used' \in [Events -> Nat] /\ Ends("api") /\ UNCHANGED <<site, nodeVars, appVars, rowVars>>
      BY <1>2, OnceTyped DEF RestoreFails, Events
    <2> QED
      BY <2>1, EndsTyped DEF Rows
  <1> QED
    BY <1>1, <1>2

-----------------------------------------------------------------------------
(* healthy and clear.                                                      *)

LEMMA HealthyStep ==
  ASSUME Inv,
         \/ \E a \in Apps : FenceLooks(a) \/ FenceStops(a) \/ FenceFails(a)
         \/ FencesDone \/ Uncordon \/ Delete
  PROVE  Inv'
  <1> USE DEF Inv, Typed, nodeVars, appVars, rowVars, runVars, Nodes, Goto, Points, Runs
  <1>a. st["tick"] \in RowType /\ (pc["tick"] # "idle" => st["tick"].phase \in Phases)
    BY DEF Rows
  <1>b. \A a \in Apps : /\ Marked(st["tick"], a, "fenced") \in RowType
                        /\ Marked(st["tick"], a, "fenced").phase = st["tick"].phase
    <2>1. "fenced" \in Statuses
      BY DEF Statuses
    <2> QED
      BY <1>a, <2>1, MarkedIsTyped, Zenon
  <1>1. ASSUME NEW a \in Apps, FenceLooks(a)
        PROVE  Inv'
    <2>1. st' = st \/ st' = [st EXCEPT !["tick"] = Marked(st["tick"], a, "fenced")]
      BY <1>1 DEF FenceLooks
    <2>2. st' \in [Runs -> RowType] /\ \A q \in Runs : st'[q].phase = st[q].phase
      BY <1>b, <2>1
    <2>3. Typed'
      BY <1>1, <2>2 DEF FenceLooks
    <2> QED
      BY <1>1, <1>a, <2>2, <2>3 DEF FenceLooks, Rows, Stateless
  <1>2. ASSUME NEW a \in Apps, NEW fenced \in BOOLEAN, FenceEnds(a, fenced),
               copies' \in [Apps -> SUBSET Nodes], tomb' \in [Apps -> SUBSET Nodes],
               jobs' \subseteq Apps \X Nodes, used' \in [Events -> Nat]
        PROVE  Inv'
    <2>1. st' = st \/ st' = [st EXCEPT !["tick"] = Marked(st["tick"], a, "fenced")]
      BY <1>2 DEF FenceEnds
    <2>2. st' \in [Runs -> RowType] /\ \A q \in Runs : st'[q].phase = st[q].phase
      BY <1>b, <2>1
    <2>3. Typed'
      BY <1>2, <2>2 DEF FenceEnds
    <2> QED
      BY <1>2, <1>a, <2>2, <2>3 DEF FenceEnds, Rows, Stateless
  <1>3. ASSUME NEW a \in Apps, FenceStops(a)
        PROVE  Inv'
    BY <1>2, <1>3 DEF FenceStops
  <1>4. ASSUME NEW a \in Apps, FenceFails(a)
        PROVE  Inv'
    <2>1. used' \in [Events -> Nat]
      BY <1>4, OnceTyped DEF FenceFails, TeardownFails, Events
    <2>2. tomb' \in [Apps -> SUBSET Nodes] /\ jobs' \subseteq Apps \X Nodes
      BY <1>4 DEF FenceFails, Queued
    <2>3. FenceEnds(a, TRUE) \/ FenceEnds(a, FALSE)
      BY <1>4 DEF FenceFails
    <2>4. copies' \in [Apps -> SUBSET Nodes]
      BY <1>4 DEF FenceFails
    <2> QED
      BY <1>2, <2>1, <2>2, <2>3, <2>4
  <1>5. CASE FencesDone
    <2>1. /\ [st["tick"] EXCEPT !.phase = "recovering"] \in RowType
          /\ [st["tick"] EXCEPT !.phase = "recovering"].phase \in Phases
      BY <1>a, PhasesAreTyped DEF Phases
    <2>2. rested' \in BOOLEAN
      BY <1>5 DEF FencesDone
    <2>3. /\ pc["tick"] = "fence" /\ st' = [st EXCEPT !["tick"] = [st["tick"] EXCEPT !.phase = "recovering"]]
          /\ pc' = [pc EXCEPT !["tick"] = "uncordon"] \/ pc' = [pc EXCEPT !["tick"] = "save"]
          /\ UNCHANGED <<site, nodeVars, appVars, row, knew, was, todo, aim, used>>
      BY <1>5 DEF FencesDone
    <2>4. Typed'
      BY <2>1, <2>2, <2>3
    <2> QED
      BY <2>1, <2>3, <2>4 DEF Rows, Stateless
  <1>6. CASE Uncordon
    <2>1. used' \in [Events -> Nat] /\ sched' \in BOOLEAN
      BY <1>6, <1>a, OnceTyped DEF Uncordon, Events, RowType
    <2>2. CASE Ends("tick")
      BY <1>6, <2>1, <2>2, EndsTyped DEF Uncordon, Rows
    <2>3. CASE ~Ends("tick")
      BY <1>6, <1>a, <2>1, <2>3 DEF Uncordon, Rows, Stateless
    <2> QED
      BY <2>2, <2>3
  <1>7. CASE Delete
    <2>1. used' \in [Events -> Nat] /\ row' \in RowType /\ (row'.phase = "none" => row' = NoRow)
      BY <1>7, OnceTyped, NoRowTyped DEF Delete, Events, Rows
    <2>2. Ends("tick") /\ UNCHANGED <<site, nodeVars, appVars, rested>>
      BY <1>7 DEF Delete
    <2> QED
      BY <2>1, <2>2, EndsTyped DEF Rows
  <1> QED
    BY <1>1, <1>3, <1>4, <1>5, <1>6, <1>7

LEMMA InvStep == Inv /\ [Next]_vars => Inv'
  <1> SUFFICES ASSUME Inv, [Next]_vars PROVE Inv'
    OBVIOUS
  <1>1. CASE UNCHANGED vars
    BY <1>1 DEF vars, Inv, Typed, Rows, Stateless, nodeVars, appVars, rowVars, runVars
  <1>2. CASE Outside \/ Finalizer
    BY <1>2, OutsideStep
  <1>3. CASE Tick
    BY <1>3, BeginStep, AdvanceStep, HealthyStep DEF Tick, Runs
  <1>4. CASE Api
    BY <1>4, BeginStep, AdvanceStep, RestoreStep DEF Api, ApiStep, Runs
  <1> QED
    BY <1>1, <1>2, <1>3, <1>4 DEF Next

LEMMA InvAlways == Spec => []Inv
  BY Initially, InvStep, PTL DEF Spec

\* Every variable keeps its type, only a step that places or stops something has an aim, and data
\* is on no run's list of what is to be moved.
THEOREM TypeCorrect == Spec => []TypeOK
  <1>1. Inv => TypeOK
    BY DEF Inv, Typed, Rows, Stateless, TypeOK, Points
  <1> QED
    BY <1>1, InvAlways, PTL

\* "never moves anything holding node-local data" (package comment of nodefailure): whatever
\* fails and whoever calls beside it, the policy leaves data where it is; only the operator's
\* own restore or move takes it elsewhere.
THEOREM DataIsLeft == Spec => DataStays
  <1> DEFINE Left == \A a \in Data : place'[a] # place[a] => pc["api"] = "restore" \/ used'["move"] # used["move"]
  <1>1. ASSUME Inv, [Next]_vars
        PROVE  Left
    <2> USE DEF nodeVars, appVars, rowVars, runVars
    <2>1. ASSUME NEW p \in Runs, Places(p)
          PROVE  Left
      <3>1. PICK a \in Apps, n \in Nodes : <<a, n>> \in aim[p] /\ place' = [place EXCEPT ![a] = n]
        BY <2>1 DEF Places, Placed
      <3>2. a \notin Data
        BY <1>1, <2>1, <3>1 DEF Inv, Stateless, Places
      <3> QED
        BY <1>1, <3>1, <3>2, NodeAssumption DEF Inv, Typed
    <2>2. ASSUME NEW a \in Apps, NEW n \in Nodes, OperatorMoves(a, n)
          PROVE  Left
      BY <1>1, <2>2 DEF OperatorMoves, Once, Inv, Typed, Events
    <2>3. CASE Restore
      BY <2>3 DEF Restore
    <2>4. CASE UNCHANGED place
      BY <2>4
    <2>5. ASSUME NEW p \in Runs, Advance(p), ~Places(p)
          PROVE  UNCHANGED place
      BY <2>5 DEF Advance, Merge, Cordon, PlaceFails, AppsDone, Save, MovedAlready, NoTarget, Aims, Settles
    <2>6. CASE Outside \/ Finalizer
      BY <2>2, <2>4, <2>6 DEF Outside, Finalizer, HeartbeatStops, GracePasses, HeartbeatReturns, HoldPasses,
         OperatorUncordons, Crash, Converges, FinalizerVisits, ClearsTombstone, TearsDown
    <2>7. CASE Tick
      BY <2>1, <2>4, <2>5, <2>7 DEF Tick, Runs, TickUnreachable, TickHealthy, FenceLooks, FenceStops, FenceFails,
         FenceEnds, FencesDone, Uncordon, Delete
    <2>8. CASE Api
      BY <2>1, <2>3, <2>4, <2>5, <2>8 DEF Api, ApiStep, Runs, MarkLost, ResolveWait, ResolveRestore, RestoreFails
    <2> QED
      BY <1>1, <2>4, <2>6, <2>7, <2>8 DEF Next, vars
  <1> QED
    BY <1>1, InvAlways, PTL DEF Spec, DataStays

-----------------------------------------------------------------------------
(* The sites where nothing runs beside anything.                           *)

OneRun == \A p, q \in Runs : pc[p] # "idle" /\ pc[q] # "idle" => p = q

\* The copy about to be fenced is of an app that is placed elsewhere.
AimAway ==
    pc["tick"] = "stop" =>
        \A a \in Apps, n \in Nodes : <<a, n>> \in aim["tick"] => place[a] # Home

\* Home is unschedulable only while the row, or the copy a run will save, says who did it.
Cordons ==
    /\ \A p \in Runs : pc[p] # "idle" /\ ~sched => pc[p] # "delete" /\ st[p].cordoned
    /\ ~sched /\ (\A p \in Runs : pc[p] \notin {"apps", "place", "save"}) => row.cordoned

Calmly == OneRun /\ AimAway /\ Cordons

LEMMA NothingBeside ==
  ASSUME Inv, Calm
  PROVE  ~site.overlap /\ ~Once("crash") /\ ~Once("save")
  BY SiteAssumption DEF Inv, Typed, Calm, Once, SiteType, Events

\* When a run works, all others are idle.
LEMMA OthersIdle ==
  ASSUME OneRun, NEW p \in Runs, pc[p] # "idle"
  PROVE  \A q \in Runs : q # p => pc[q] = "idle"
  BY DEF OneRun

LEMMA CalmOutside == Inv /\ Calm /\ Calmly /\ (Outside \/ Finalizer) => Calmly'
  <1> SUFFICES ASSUME Inv, Calm, Calmly, Outside \/ Finalizer PROVE Calmly'
    OBVIOUS
  <1> USE DEF Inv, Typed, nodeVars, appVars, rowVars, runVars, Calmly
  <1>1. CASE HeartbeatStops \/ GracePasses \/ HeartbeatReturns \/ HoldPasses \/ OperatorUncordons
    BY <1>1 DEF HeartbeatStops, GracePasses, HeartbeatReturns, HoldPasses, OperatorUncordons,
       OneRun, AimAway, Cordons
  <1>2. CASE Crash
    BY <1>2, NothingBeside DEF Crash
  <1>3. ASSUME NEW a \in Apps, Converges(a) \/ FinalizerVisits(a) \/ ClearsTombstone(a)
        PROVE  Calmly'
    BY <1>3 DEF Converges, FinalizerVisits, ClearsTombstone, OneRun, AimAway, Cordons
  <1>4. ASSUME NEW a \in Apps, NEW n \in Nodes, TearsDown(a, n)
        PROVE  Calmly'
    BY <1>4 DEF TearsDown, OneRun, AimAway, Cordons
  <1>5. ASSUME NEW a \in Apps, NEW n \in Nodes, OperatorMoves(a, n)
        PROVE  Calmly'
    <2>1. \A q \in Runs : pc[q] = "idle"
      BY <1>5, NothingBeside DEF OperatorMoves, Begins
    <2> QED
      BY <1>5, <2>1 DEF OperatorMoves, OneRun, AimAway, Cordons, Runs
  <1> QED
    BY <1>1, <1>2, <1>3, <1>4, <1>5 DEF Outside, Finalizer

\* A run begins alone, with a row that says what it has cordoned.
LEMMA CalmBegins ==
  ASSUME Inv, Calm, Calmly,
         TickUnreachable \/ TickHealthy \/ MarkLost \/ \E a \in Apps : ResolveWait(a) \/ ResolveRestore(a)
  PROVE  Calmly'
  <1> USE DEF Inv, Typed, nodeVars, appVars, rowVars, runVars, Goto, Load
  <1>1. ASSUME NEW p \in Runs, NEW r \in RowType, NEW place1 \in Points, Begins(p),
               st' = [st EXCEPT ![p] = r], r.cordoned = row.cordoned,
               pc' = [pc EXCEPT ![p] = place1], place1 \in {"merge", "fence", "restore", "save"},
               UNCHANGED <<sched, row>>
        PROVE  Calmly'
    <2>1. \A q \in Runs : pc[q] = "idle"
      BY <1>1, NothingBeside DEF Begins
    <2>2. ~sched => row.cordoned
      BY <2>1 DEF Calmly, Cordons
    <2> QED
      BY <1>1, <2>1, <2>2 DEF Calmly, OneRun, AimAway, Cordons, Runs
  <1>2. CASE TickUnreachable
    <2>1. Unreachable \in RowType /\ Unreachable.cordoned = row.cordoned
      BY DEF Unreachable, RowType
    <2> QED
      BY <1>1, <1>2, <2>1 DEF TickUnreachable, Runs, Points
  <1>3. CASE TickHealthy
    BY <1>1, <1>3 DEF TickHealthy, Runs, Points
  <1>4. CASE MarkLost
    <2>1. [row EXCEPT !.phase = "lost"] \in RowType /\ [row EXCEPT !.phase = "lost"].cordoned = row.cordoned
      BY DEF RowType
    <2> QED
      BY <1>1, <1>4, <2>1 DEF MarkLost, Runs, Points
  <1>5. ASSUME NEW a \in Apps, ResolveWait(a)
        PROVE  Calmly'
    <2>1. Marked(row, a, "waiting") \in RowType /\ Marked(row, a, "waiting").cordoned = row.cordoned
      <3>1. "waiting" \in Statuses
        BY DEF Statuses
      <3>2. Marked(row, a, "waiting") \in RowType
        BY <3>1, MarkedIsTyped, Zenon
      <3> QED
        BY <3>2 DEF Marked, RowType
    <2> QED
      BY <1>1, <1>5, <2>1 DEF ResolveWait, Runs, Points
  <1>6. ASSUME NEW a \in Apps, ResolveRestore(a)
        PROVE  Calmly'
    BY <1>1, <1>6 DEF ResolveRestore, Runs, Points
  <1> QED
    BY <1>2, <1>3, <1>4, <1>5, <1>6

\* A run goes on: what it says of the cordon stays, and it places nothing of its own aim.
LEMMA CalmGoesOn ==
  ASSUME Inv, Calmly, NEW p \in Runs, NEW place1 \in Points, pc[p] # "idle",
         pc' = [pc EXCEPT ![p] = place1], UNCHANGED sched,
         \A q \in Runs : st'[q].cordoned = st[q].cordoned,
         row'.cordoned = row.cordoned \/ place1 \in {"apps", "place", "save"},
         place1 # "delete" \/ sched,
         pc[p] \in {"apps", "place", "save"} => place1 \in {"apps", "place", "save"},
         place1 # "stop" \/ AimAway'
  PROVE  Calmly'
  <1>1. \A q \in Runs : q # p => pc[q] = "idle" /\ pc'[q] = "idle"
    BY OthersIdle DEF Calmly, Inv, Typed
  <1>2. pc'[p] = place1
    BY DEF Inv, Typed
  <1>3. OneRun'
    BY <1>1 DEF OneRun
  <1>4. AimAway'
    BY <1>1, <1>2 DEF AimAway, Runs
  <1>5. Cordons'
    BY <1>1, <1>2 DEF Calmly, Cordons
  <1> QED
    BY <1>3, <1>4, <1>5 DEF Calmly

\* A run ends: if Home is unschedulable, the row says so.
LEMMA CalmEnds ==
  ASSUME Inv, Calmly, NEW p \in Runs, pc[p] # "idle", Ends(p), UNCHANGED sched,
         ~sched => row'.cordoned
  PROVE  Calmly'
  <1>1. \A q \in Runs : pc'[q] = "idle"
    BY OthersIdle DEF Calmly, Inv, Typed, Ends, Goto
  <1> QED
    BY <1>1 DEF Calmly, OneRun, AimAway, Cordons, Runs

LEMMA CalmRow ==
  ASSUME Inv, Calmly, NEW p \in Runs, pc[p] \notin {"idle", "apps", "place", "save"}, ~sched
  PROVE  row.cordoned
  <1>1. \A q \in Runs : q # p => pc[q] = "idle"
    BY OthersIdle DEF Calmly
  <1> QED
    BY <1>1 DEF Calmly, Cordons

LEMMA MarkedKeepsCordon ==
  \A r \in RowType, a \in Apps, s \in Statuses : Marked(r, a, s).cordoned = r.cordoned
  BY DEF Marked, RowType

LEMMA CalmAdvances == \A p \in Runs : Inv /\ Inv' /\ Calm /\ Calmly /\ Advance(p) => Calmly'
  <1> SUFFICES ASSUME NEW p \in Runs, Inv, Inv', Calm, Calmly, Advance(p) PROVE Calmly'
    OBVIOUS
  <1> USE DEF nodeVars, appVars, rowVars, runVars, Goto, Points
  <1>a. st \in [Runs -> RowType] /\ pc \in [Runs -> Points] /\ todo \in [Runs -> SUBSET Apps] /\ row \in RowType
    BY DEF Inv, Typed
  <1>1. CASE Merge(p)
    <2>1. \A q \in Runs : st'[q].cordoned = st[q].cordoned
      BY <1>a, <1>1 DEF Merge, Merged, RowType
    <2> QED
      BY <1>1, <2>1, CalmGoesOn DEF Merge
  <1>2. CASE Cordon(p)
    <2>1. \A q \in Runs : q # p => pc[q] = "idle"
      BY <1>2, OthersIdle DEF Calmly, Cordon
    <2>2. (st' = st /\ sched' = sched) \/ st' = [st EXCEPT ![p].cordoned = TRUE]
      BY <1>2 DEF Cordon
    <2>3. st'[p].cordoned \/ (sched' = sched /\ st' = st)
      BY <1>a, <2>2 DEF RowType
    <2>4. pc[p] = "cordon" /\ pc' = [pc EXCEPT ![p] = "apps"]
      BY <1>2 DEF Cordon
    <2> QED
      BY <1>a, <2>1, <2>3, <2>4 DEF Calmly, OneRun, AimAway, Cordons, Runs
  <1>3. CASE AppsDone(p)
    BY <1>3, CalmGoesOn DEF AppsDone
  <1>4. CASE Save(p)
    <2>1. row' = st[p] /\ Ends(p) /\ UNCHANGED sched /\ pc[p] = "save"
      BY <1>4, NothingBeside DEF Save
    <2> QED
      BY <2>1, CalmEnds DEF Calmly, Cordons
  <1>5. CASE Places(p)
    <2>1. \A q \in Runs : st'[q].cordoned = st[q].cordoned
      BY <1>a, <1>5 DEF Places, Placed, RowType
    <2> QED
      BY <1>5, <2>1, CalmGoesOn DEF Places, Placed
  <1>6. CASE PlaceFails(p)
    <2>1. \A q \in Runs : st'[q].cordoned = st[q].cordoned
      BY <1>a, <1>6 DEF PlaceFails, Marked, RowType
    <2> QED
      BY <1>6, <2>1, CalmGoesOn DEF PlaceFails
  <1>7. ASSUME NEW a \in Apps, NEW s \in Statuses, Settles(p, a, s)
        PROVE  Calmly'
    <2>1. \A q \in Runs : st'[q].cordoned = st[q].cordoned
      BY <1>a, <1>7, MarkedKeepsCordon DEF Settles
    <2>2. pc' = [pc EXCEPT ![p] = "apps"] /\ pc[p] = "apps"
      BY <1>a, <1>7 DEF Settles
    <2> QED
      BY <1>7, <2>1, <2>2, CalmGoesOn DEF Settles
  <1>8. ASSUME NEW a \in Apps, MovedAlready(p, a) \/ NoTarget(p, a)
        PROVE  Calmly'
    BY <1>7, <1>8 DEF MovedAlready, NoTarget, Statuses
  <1>9. ASSUME NEW a \in Apps, Aims(p, a)
        PROVE  Calmly'
    <2>1. PICK n : LET moving == [st[p] EXCEPT !.acts[a] = [status |-> "moving", target |-> n]]
                   IN  /\ pc[p] = "apps" /\ st' = [st EXCEPT ![p] = moving]
                       /\ Goto(p, "place") /\ UNCHANGED nodeVars
      BY <1>9, NothingBeside DEF Aims
    <2>2. \A q \in Runs : st'[q].cordoned = st[q].cordoned
      BY <1>a, <2>1 DEF RowType
    <2> QED
      BY <2>1, <2>2, CalmGoesOn
  <1> QED
    BY <1>1, <1>2, <1>3, <1>4, <1>5, <1>6, <1>8, <1>9 DEF Advance

LEMMA CalmHealthy ==
  ASSUME Inv, Calm, Calmly,
         \/ \E a \in Apps : FenceLooks(a) \/ FenceStops(a) \/ FenceFails(a)
         \/ FencesDone \/ Uncordon \/ Delete \/ Restore \/ RestoreFails
  PROVE  Calmly'
  <1> USE DEF nodeVars, appVars, rowVars, runVars, Goto, Points, Runs
  <1>a. st \in [Runs -> RowType] /\ pc \in [Runs -> Points] /\ row \in RowType
    BY DEF Inv, Typed
  <1>b. "fenced" \in Statuses
    BY DEF Statuses
  <1>1. ASSUME NEW a \in Apps, FenceLooks(a)
        PROVE  Calmly'
    <2>1. \A q \in Runs : st'[q].cordoned = st[q].cordoned
      BY <1>a, <1>b, <1>1, MarkedKeepsCordon DEF FenceLooks
    <2>2. CASE place[a] = Home
      <3>1. pc' = [pc EXCEPT !["tick"] = "fence"] /\ pc["tick"] = "fence"
        BY <1>a, <1>1, <2>2 DEF FenceLooks
      <3> QED
        BY <1>1, <2>1, <3>1, CalmGoesOn DEF FenceLooks
    <2>3. CASE place[a] # Home
      <3>1. AimAway'
        BY <1>1, <2>3 DEF FenceLooks, AimAway, Inv, Typed
      <3> QED
        BY <1>1, <2>1, <2>3, <3>1, CalmGoesOn DEF FenceLooks
    <2> QED
      BY <2>2, <2>3
  <1>2. ASSUME NEW a \in Apps, FenceStops(a) \/ FenceFails(a)
        PROVE  Calmly'
    <2>1. PICK fenced \in BOOLEAN : FenceEnds(a, fenced)
      BY <1>2 DEF FenceStops, FenceFails
    <2>2. \A q \in Runs : st'[q].cordoned = st[q].cordoned
      BY <1>a, <1>b, <2>1, MarkedKeepsCordon DEF FenceEnds
    <2> QED
      BY <2>1, <2>2, CalmGoesOn DEF FenceEnds
  <1>3. CASE FencesDone
    <2>1. \A q \in Runs : st'[q].cordoned = st[q].cordoned
      BY <1>a, <1>3 DEF FencesDone, RowType
    <2>2. PICK place1 \in {"uncordon", "save"} : pc' = [pc EXCEPT !["tick"] = place1]
      BY <1>3 DEF FencesDone
    <2>3. pc["tick"] = "fence" /\ UNCHANGED <<sched, row>>
      BY <1>3 DEF FencesDone
    <2> QED
      BY <2>1, <2>2, <2>3, CalmGoesOn
  <1>4. CASE Uncordon
    <2>1. CASE Ends("tick") /\ UNCHANGED sched
      BY <1>4, <2>1, CalmRow, CalmEnds DEF Uncordon
    <2>2. CASE sched' = (sched \/ st["tick"].cordoned) /\ Goto("tick", "delete") /\ UNCHANGED st
      <3>1. pc["tick"] = "uncordon" /\ UNCHANGED row
        BY <1>4 DEF Uncordon
      <3>2. sched'
        BY <1>a, <2>2, <3>1 DEF Calmly, Cordons, Inv, Typed, RowType
      <3>3. pc["api"] = "idle"
        BY <3>1, OthersIdle DEF Calmly
      <3> QED
        BY <1>a, <2>2, <3>1, <3>2, <3>3 DEF Calmly, OneRun, AimAway, Cordons
    <2> QED
      BY <1>4, <2>1, <2>2 DEF Uncordon
  <1>5. CASE Delete
    <2>1. sched /\ Ends("tick") /\ UNCHANGED sched /\ pc["tick"] = "delete"
      BY <1>5 DEF Delete, Calmly, Cordons
    <2> QED
      BY <2>1, CalmEnds
  <1>6. CASE Restore
    <2>1. \A q \in Runs : st'[q].cordoned = st[q].cordoned
      BY <1>a, <1>6 DEF Restore, Placed, RowType
    <2> QED
      BY <1>6, <2>1, CalmGoesOn DEF Restore, Placed
  <1>7. CASE RestoreFails
    BY <1>7, CalmRow, CalmEnds DEF RestoreFails
  <1> QED
    BY <1>1, <1>2, <1>3, <1>4, <1>5, <1>6, <1>7

LEMMA SiteKept == [Next]_vars => UNCHANGED site
  BY DEF Next, vars, Outside, Finalizer, Tick, Api, ApiStep, Advance, HeartbeatStops, GracePasses,
     HeartbeatReturns, HoldPasses, OperatorUncordons, Crash, Converges, OperatorMoves,
     FinalizerVisits, ClearsTombstone, TearsDown, TickUnreachable, TickHealthy, MarkLost, ResolveWait,
     ResolveRestore, Merge, Cordon, Places, PlaceFails, AppsDone, Save, MovedAlready, NoTarget,
     Aims, Settles, Placed, Restore, RestoreFails, FenceLooks, FenceStops, FenceFails, FenceEnds,
     FencesDone, Uncordon, Delete

CalmInv == Inv /\ (Calm => Calmly)

LEMMA CalmAlways == Spec => []CalmInv
  <1>1. Init => CalmInv
    BY Initially DEF CalmInv, Init, Calmly, OneRun, AimAway, Cordons, Runs
  <1>2. CalmInv /\ [Next]_vars => CalmInv'
    <2> SUFFICES ASSUME CalmInv, [Next]_vars, Calm' PROVE Calmly'
      BY InvStep DEF CalmInv
    <2>1. UNCHANGED site
      BY SiteKept
    <2>2. Inv /\ Inv' /\ Calm /\ Calmly
      BY <2>1, InvStep DEF CalmInv, Calm
    <2>3. CASE UNCHANGED vars
      BY <2>2, <2>3 DEF vars, Calmly, OneRun, AimAway, Cordons, nodeVars, appVars, rowVars, runVars
    <2>4. CASE Outside \/ Finalizer
      BY <2>2, <2>4, CalmOutside
    <2>5. CASE Tick
      BY <2>2, <2>5, CalmBegins, CalmAdvances, CalmHealthy DEF Tick, Runs
    <2>6. CASE Api
      BY <2>2, <2>6, CalmBegins, CalmAdvances, CalmHealthy DEF Api, ApiStep, Runs
    <2> QED
      BY <2>3, <2>4, <2>5, <2>6 DEF Next
  <1> QED
    BY <1>1, <1>2, PTL DEF Spec

\* Where nothing runs beside a tick and every save succeeds, a node the policy cordoned is
\* schedulable again when its failure is over, whatever drops, calls and teardowns failed (clear).
THEOREM CordonsAreReturned == Spec => []CordonReturned
  <1>1. CalmInv => CordonReturned
    BY DEF CalmInv, Inv, Rows, Calmly, Cordons, CordonReturned, Quiet, NoRow
  <1> QED
    BY <1>1, CalmAlways, PTL

\* There, the fence of a tick never stops the copy of an app that is placed on Home again,
\* however often it was moved away and back (healthy).
THEOREM WantedCopiesKept == Spec => WantedKept
  <1> DEFINE Kept == Calm /\ jobs' = jobs => \A a \in Apps : Home \in copies[a] \ copies'[a] => place[a] # Home
  <1>1. ASSUME CalmInv, [Next]_vars
        PROVE  Kept
    <2> USE DEF nodeVars, appVars, rowVars, runVars
    <2>1. ASSUME NEW a \in Apps, NEW n \in Nodes, TearsDown(a, n)
          PROVE  Kept
      BY <2>1 DEF TearsDown
    <2>2. ASSUME NEW a \in Apps, FenceStops(a)
          PROVE  Kept
      <3>1. Calm => place[a] # Home
        BY <1>1, <2>2 DEF FenceStops, FenceEnds, CalmInv, Calmly, AimAway, Nodes
      <3> QED
        BY <1>1, <2>2, <3>1 DEF FenceStops, CalmInv, Inv, Typed
    <2>3. ASSUME NEW a \in Apps, Converges(a)
          PROVE  Kept
      BY <1>1, <2>3 DEF Converges, CalmInv, Inv, Typed
    <2>4. CASE UNCHANGED copies
      BY <2>4
    <2>5. CASE Outside \/ Finalizer
      BY <2>1, <2>3, <2>4, <2>5 DEF Outside, Finalizer, HeartbeatStops, GracePasses, HeartbeatReturns,
         HoldPasses, OperatorUncordons, Crash, OperatorMoves, FinalizerVisits, ClearsTombstone
    <2>6. ASSUME NEW p \in Runs, Advance(p)
          PROVE  UNCHANGED copies
      BY <2>6 DEF Advance, Merge, Cordon, Places, Placed, PlaceFails, AppsDone, Save, MovedAlready,
         NoTarget, Aims, Settles
    <2>7. CASE Tick
      BY <2>2, <2>4, <2>6, <2>7 DEF Tick, Runs, TickUnreachable, TickHealthy, FenceLooks, FenceFails,
         FencesDone, Uncordon, Delete
    <2>8. CASE Api
      BY <2>4, <2>6, <2>8 DEF Api, ApiStep, Runs, MarkLost, ResolveWait, ResolveRestore, Restore, Placed,
         RestoreFails
    <2> QED
      BY <1>1, <2>4, <2>5, <2>7, <2>8 DEF Next, vars
  <1> QED
    BY <1>1, CalmAlways, PTL DEF Spec, WantedKept

-----------------------------------------------------------------------------
(* The sites where, besides, no operator moves an app.                     *)

\* The sites where no operator moves an app.
Unmoved == site.max["move"] = 0

\* Where an operator may ask to wait, nothing is ever moved.
Unlost ==
    site.max["wait"] > 0 =>
        /\ row.phase # "lost" /\ \A a \in Apps : place[a] = Home
        /\ \A p \in Runs : st[p].phase # "lost" /\ pc[p] \notin {"cordon", "apps", "place", "restore"}

\* Nothing is moved to Home, and what a tick is about to move is there still.
Targets(r) == \A a \in Apps : r.acts[a].status = "moving" => r.acts[a].target # Home

Aimed ==
    /\ Targets(row) /\ \A p \in Runs : Targets(st[p])
    /\ \A p \in Runs, a \in Apps, n \in Nodes : <<a, n>> \in aim[p] =>
           /\ pc[p] \in {"place", "restore"} => n # Home
           /\ pc[p] = "place" => place[a] = Home

\* Only what was moved away is torn down, and only on Home.
Teardowns ==
    /\ \A a \in Apps : tomb[a] \subseteq {Home}
    /\ \A a \in Apps, n \in Nodes : <<a, n>> \in jobs => n = Home /\ place[a] # Home
    /\ \A a \in ending : place[a] # Home /\ Home \notin copies[a]

\* Every stale copy on Home is queued, or r says that its app was moved.
Covers(r) ==
    \A a \in Apps : place[a] # Home /\ Home \in copies[a] => tomb[a] = {Home} \/ r.acts[a].status = "moved"

\* The copy a run works on covers them, and the saved row does unless that copy has
\* placed something since.
Covered ==
    /\ \A p \in Runs : pc[p] # "idle" => Covers(st[p])
    /\ (\A p \in Runs : pc[p] \notin {"apps", "place", "save"}) => Covers(row)
    /\ pc["tick"] \in {"uncordon", "delete"} => In(st["tick"], {"moved"}) = {}

Cleanly == Unlost /\ Aimed /\ Teardowns /\ Covered

LEMMA NothingMoves ==
  ASSUME Inv, Calm
  PROVE  /\ Unmoved => ~Once("move")
         /\ site.max["wait"] > 0 => ~site.auto /\ ~Once("api")
  BY SiteAssumption DEF Inv, Typed, Calm, Once, SiteType, Events, Unmoved

LEMMA MarkedActs ==
  ASSUME NEW r \in RowType, NEW a \in Apps, NEW s \in Statuses
  PROVE  /\ Marked(r, a, s).phase = r.phase
         /\ \A b \in Apps : /\ Marked(r, a, s).acts[b].target = r.acts[b].target
                            /\ Marked(r, a, s).acts[b].status = IF b = a THEN s ELSE r.acts[b].status
  BY DEF Marked, RowType

LEMMA CleanOutside == Inv /\ Calm /\ Unmoved /\ Calmly /\ Cleanly /\ (Outside \/ Finalizer) => Cleanly'
  <1> SUFFICES ASSUME Inv, Calm, Unmoved, Calmly, Cleanly, Outside \/ Finalizer PROVE Cleanly'
    OBVIOUS
  <1> USE DEF nodeVars, appVars, rowVars, runVars
  <1>a. place \in [Apps -> Nodes] /\ copies \in [Apps -> SUBSET Nodes] /\ tomb \in [Apps -> SUBSET Nodes]
    BY DEF Inv, Typed
  <1>1. CASE HeartbeatStops \/ GracePasses \/ HeartbeatReturns \/ HoldPasses \/ OperatorUncordons
    <2>1. UNCHANGED <<site, place, copies, tomb, jobs, ending, row, pc, st, aim>>
      BY <1>1 DEF HeartbeatStops, GracePasses, HeartbeatReturns, HoldPasses, OperatorUncordons
    <2> QED
      BY <2>1 DEF Cleanly, Unlost, Aimed, Targets, Teardowns, Covered, Covers, In
  <1>2. CASE Crash
    BY <1>2, NothingBeside DEF Crash
  <1>3. ASSUME NEW a \in Apps, Converges(a)
        PROVE  Cleanly'
    <2>1. \A b \in Apps : place[b] # Home => (Home \in copies'[b] <=> Home \in copies[b])
      BY <1>a, <1>3 DEF Converges
    <2>2. UNCHANGED <<site, place, tomb, jobs, ending, row, pc, st, aim>>
      BY <1>3 DEF Converges
    <2> QED
      BY <2>1, <2>2 DEF Cleanly, Unlost, Aimed, Targets, Teardowns, Covered, Covers, In, Inv, Typed
  <1>4. ASSUME NEW a \in Apps, FinalizerVisits(a)
        PROVE  Cleanly'
    <2>1. tomb[a] = {Home}
      BY <1>4 DEF FinalizerVisits, Cleanly, Teardowns
    <2>2. UNCHANGED <<site, place, copies, ending, row, pc, st, aim>>
      BY <1>4 DEF FinalizerVisits
    <2>3. CASE place[a] = Home
      <3>1. tomb' = [tomb EXCEPT ![a] = {}] /\ UNCHANGED jobs
        BY <1>4, <2>1, <2>3 DEF FinalizerVisits
      <3> QED
        BY <1>a, <2>2, <2>3, <3>1 DEF Cleanly, Unlost, Aimed, Targets, Teardowns, Covered, Covers, In
    <2>4. CASE place[a] # Home
      <3>1. jobs' = jobs \cup ({a} \X {Home}) /\ UNCHANGED tomb
        BY <1>4, <2>1, <2>4 DEF FinalizerVisits
      <3> QED
        BY <1>a, <2>2, <2>4, <3>1 DEF Cleanly, Unlost, Aimed, Targets, Teardowns, Covered, Covers, In
    <2> QED
      BY <2>3, <2>4
  <1>5. ASSUME NEW a \in Apps, ClearsTombstone(a)
        PROVE  Cleanly'
    <2>1. Home \notin copies[a]
      BY <1>5 DEF ClearsTombstone, Cleanly, Teardowns
    <2>2. /\ ending' = ending \ {a} /\ tomb' = [tomb EXCEPT ![a] = {}]
          /\ UNCHANGED <<site, place, copies, jobs, row, pc, st, aim>>
      BY <1>5 DEF ClearsTombstone
    <2> QED
      BY <1>a, <2>1, <2>2 DEF Cleanly, Unlost, Aimed, Targets, Teardowns, Covered, Covers, In
  <1>6. ASSUME NEW a \in Apps, NEW n \in Nodes, TearsDown(a, n)
        PROVE  Cleanly'
    <2>1. n = Home /\ place[a] # Home
      BY <1>6 DEF TearsDown, Cleanly, Teardowns
    <2>2. jobs' = jobs \ {<<a, n>>} /\ UNCHANGED <<site, place, tomb, row, pc, st, aim>>
      BY <1>6 DEF TearsDown
    <2>3. \/ copies' = [copies EXCEPT ![a] = @ \ {Home}] /\ ending' = ending \cup {a}
          \/ UNCHANGED <<copies, ending>>
      BY <1>6, <2>1 DEF TearsDown
    <2>4. /\ \A b \in Apps : copies'[b] \subseteq copies[b]
          /\ \A b \in ending' : b \in ending \/ (b = a /\ Home \notin copies'[a])
      BY <1>a, <2>3
    <2>5. Teardowns'
      BY <2>1, <2>2, <2>4 DEF Cleanly, Teardowns, Inv, Typed
    <2> QED
      BY <2>2, <2>4, <2>5 DEF Cleanly, Unlost, Aimed, Targets, Covered, Covers, In
  <1>7. ASSUME NEW a \in Apps, NEW n \in Nodes, OperatorMoves(a, n)
        PROVE  FALSE
    BY <1>7, NothingMoves DEF OperatorMoves
  <1> QED
    BY <1>1, <1>2, <1>3, <1>4, <1>5, <1>6, <1>7 DEF Outside, Finalizer

\* A run begins alone, and what it loads covers what the saved row covers.
LEMMA CleanBegins ==
  ASSUME Inv, Calm, Unmoved, Calmly, Cleanly,
         TickUnreachable \/ TickHealthy \/ MarkLost \/ \E a \in Apps : ResolveWait(a) \/ ResolveRestore(a)
  PROVE  Cleanly'
  <1> USE DEF nodeVars, appVars, rowVars, runVars, Goto, Load
  <1>a. /\ st \in [Runs -> RowType] /\ pc \in [Runs -> Points] /\ row \in RowType
        /\ aim \in [Runs -> SUBSET (Apps \X Nodes)] /\ "tick" \in Runs /\ "api" \in Runs
    BY DEF Inv, Typed, Runs
  <1>1. ASSUME NEW p \in Runs, NEW r \in RowType, NEW place1 \in {"merge", "fence", "save"}, Begins(p),
               st' = [st EXCEPT ![p] = r], pc' = [pc EXCEPT ![p] = place1],
               Targets(r), Covers(r), site.max["wait"] > 0 => r.phase # "lost",
               UNCHANGED <<site, place, copies, tomb, jobs, ending, row, aim>>
        PROVE  Cleanly'
    <2>1. \A q \in Runs : pc[q] = "idle"
      BY <1>1, NothingBeside DEF Begins
    <2>2. pc'[p] = place1 /\ \A q \in Runs \ {p} : pc'[q] = "idle"
      BY <1>a, <1>1, <2>1
    <2>3. st'[p] = r /\ \A q \in Runs \ {p} : st'[q] = st[q]
      BY <1>a, <1>1
    <2>4. Unlost' /\ Teardowns'
      BY <1>1, <2>2, <2>3 DEF Cleanly, Unlost, Teardowns
    <2>5. Aimed'
      BY <1>1, <2>2, <2>3 DEF Cleanly, Aimed, Targets
    <2>6. Covers(row)
      BY <2>1 DEF Cleanly, Covered
    <2>7. Covered'
      BY <1>a, <1>1, <2>2, <2>3, <2>6 DEF Covered, Covers
    <2> QED
      BY <2>4, <2>5, <2>7 DEF Cleanly
  <1>b. Begins("tick") \/ Begins("api") => Covers(row)
    BY NothingBeside DEF Begins, Cleanly, Covered
  <1>c. Targets(row) /\ (site.max["wait"] > 0 => row.phase # "lost")
    BY DEF Cleanly, Aimed, Unlost
  <1>2. CASE TickUnreachable
    <2>1. Unreachable \in RowType /\ Unreachable.acts = row.acts
      BY <1>a DEF Unreachable, RowType
    <2>2. Unreachable.phase = "lost" => row.phase = "lost"
      BY <1>a DEF Unreachable, RowType
    <2>3. Targets(Unreachable) /\ Covers(Unreachable)
      BY <1>2, <1>b, <1>c, <2>1 DEF TickUnreachable, Targets, Covers
    <2> QED
      BY <1>a, <1>1, <1>2, <1>c, <2>1, <2>2, <2>3 DEF TickUnreachable
  <1>3. CASE TickHealthy
    BY <1>a, <1>1, <1>3, <1>b, <1>c DEF TickHealthy
  <1>4. CASE MarkLost
    <2> DEFINE lost == [row EXCEPT !.phase = "lost"]
    <2>1. lost \in RowType /\ lost.acts = row.acts
      BY <1>a DEF RowType
    <2>2. Targets(lost) /\ Covers(lost)
      BY <1>4, <1>b, <1>c, <2>1 DEF MarkLost, Targets, Covers
    <2>3. ~(site.max["wait"] > 0)
      BY <1>4, NothingMoves DEF MarkLost
    <2> QED
      BY <1>a, <1>1, <1>4, <2>1, <2>2, <2>3 DEF MarkLost
  <1>5. ASSUME NEW a \in Apps, ResolveWait(a)
        PROVE  Cleanly'
    <2> DEFINE waits == Marked(row, a, "waiting")
    <2>1. "waiting" \in Statuses /\ waits \in RowType
      BY <1>a, MarkedIsTyped, Zenon DEF Statuses
    <2>2. waits.phase = row.phase /\ Targets(waits)
      BY <1>a, <1>c, <2>1, MarkedActs DEF Targets
    <2>3. site.max["wait"] > 0
      BY <1>5, SiteAssumption DEF ResolveWait, Once, Inv, Typed, SiteType, Events
    <2>4. Covers(waits)
      BY <2>3 DEF Cleanly, Unlost, Covers
    <2> QED
      BY <1>a, <1>1, <1>5, <1>c, <2>1, <2>2, <2>4 DEF ResolveWait
  <1>6. ASSUME NEW a \in Apps, ResolveRestore(a)
        PROVE  Cleanly'
    <2>1. ~(site.max["wait"] > 0) /\ \A q \in Runs : pc[q] = "idle"
      BY <1>6, NothingMoves, NothingBeside DEF ResolveRestore, Begins
    <2>2. PICK n \in Others : aim' = [aim EXCEPT !["api"] = {<<a, n>>}]
      BY <1>6 DEF ResolveRestore
    <2>3. /\ st' = [st EXCEPT !["api"] = row] /\ pc' = [pc EXCEPT !["api"] = "restore"]
          /\ UNCHANGED <<site, place, copies, tomb, jobs, ending, row>>
      BY <1>6 DEF ResolveRestore
    <2>4. pc'["api"] = "restore" /\ \A q \in Runs \ {"api"} : pc'[q] = "idle"
      BY <1>a, <2>1, <2>3
    <2>5. Unlost' /\ Teardowns'
      BY <2>1, <2>3 DEF Cleanly, Unlost, Teardowns
    <2>6. \A q \in Runs : Targets(st'[q])
      BY <1>a, <1>c, <2>3 DEF Cleanly, Aimed
    <2>7. Aimed'
      BY <1>a, <1>c, <2>2, <2>3, <2>4, <2>6, NodeAssumption DEF Aimed, Targets
    <2>8. Covered'
      BY <1>a, <1>6, <1>b, <2>3, <2>4 DEF ResolveRestore, Covered, Covers, Runs
    <2> QED
      BY <2>5, <2>7, <2>8 DEF Cleanly
  <1> QED
    BY <1>2, <1>3, <1>4, <1>5, <1>6

\* A run goes on with a copy of the row that covers every stale copy.
LEMMA CleanGoesOn ==
  ASSUME Inv, Calmly, Cleanly, NEW p \in Runs, NEW place1 \in Points \ {"idle"}, pc[p] # "idle",
         pc' = [pc EXCEPT ![p] = place1], UNCHANGED site,
         \A q \in Runs : q # p => st'[q] = st[q],
         Targets(row'), Targets(st'[p]), Covers(st[p])',
         place1 \in {"apps", "place", "save"} \/ Covers(row)',
         place1 \in {"uncordon", "delete"} => In(st'[p], {"moved"}) = {},
         \A a \in Apps, n \in Nodes : <<a, n>> \in aim'[p] =>
             (place1 \in {"place", "restore"} => n # Home) /\ (place1 = "place" => place'[a] = Home),
         site.max["wait"] > 0 => /\ row'.phase # "lost" /\ st'[p].phase # "lost" /\ UNCHANGED place
                                 /\ place1 \notin {"cordon", "apps", "place", "restore"},
         Teardowns'
  PROVE  Cleanly'
  <1>1. pc'[p] = place1 /\ \A q \in Runs : q # p => pc'[q] = "idle"
    BY OthersIdle DEF Calmly, Inv, Typed
  <1>2. Unlost'
    BY <1>1 DEF Cleanly, Unlost
  <1>3. Aimed'
    BY <1>1 DEF Cleanly, Aimed
  <1>4. Covered'
    <2>1. \A q \in Runs : pc'[q] # "idle" => Covers(st[q])'
      BY <1>1
    <2>2. (\A q \in Runs : pc'[q] \notin {"apps", "place", "save"}) => Covers(row)'
      BY <1>1
    <2>3. pc'["tick"] \in {"uncordon", "delete"} => In(st'["tick"], {"moved"}) = {}
      BY <1>1 DEF Runs
    <2> QED
      BY <2>1, <2>2, <2>3 DEF Covered, In
  <1> QED
    BY <1>2, <1>3, <1>4 DEF Cleanly

\* A run ends, and the saved row covers every stale copy.
LEMMA CleanEnds ==
  ASSUME Inv, Calmly, Cleanly, NEW p \in Runs, pc[p] # "idle", Ends(p),
         UNCHANGED <<site, place, copies, tomb, jobs, ending>>,
         Targets(row'), Covers(row'), site.max["wait"] > 0 => row'.phase # "lost"
  PROVE  Cleanly'
  <1>1. \A q \in Runs : pc'[q] = "idle" /\ (st'[q] = NoRow \/ st'[q] = st[q])
    BY OthersIdle DEF Calmly, Inv, Typed, Ends, Goto
  <1>2. Targets(NoRow) /\ NoRow.phase # "lost"
    BY DEF Targets, NoRow, NoAction
  <1>3. Unlost' /\ Teardowns'
    BY <1>1, <1>2 DEF Cleanly, Unlost, Teardowns
  <1>4. Aimed'
    BY <1>1, <1>2 DEF Cleanly, Aimed
  <1>5. Covered'
    BY <1>1 DEF Covered, Covers, Runs
  <1> QED
    BY <1>3, <1>4, <1>5 DEF Cleanly

LEMMA CleanAdvances ==
  \A p \in Runs : Inv /\ Inv' /\ Calm /\ Unmoved /\ Calmly /\ Cleanly /\ Advance(p) => Cleanly'
  <1> SUFFICES ASSUME NEW p \in Runs, Inv, Inv', Calm, Unmoved, Calmly, Cleanly, Advance(p) PROVE Cleanly'
    OBVIOUS
  <1> USE DEF nodeVars, appVars, rowVars, runVars, Goto
  <1>a. /\ st \in [Runs -> RowType] /\ pc \in [Runs -> Points] /\ row \in RowType
        /\ todo \in [Runs -> SUBSET Apps] /\ aim \in [Runs -> SUBSET (Apps \X Nodes)]
        /\ place \in [Apps -> Nodes]
    BY DEF Inv, Typed
  <1>b. Targets(row) /\ \A q \in Runs : Targets(st[q])
    BY DEF Cleanly, Aimed
  <1>c. pc[p] # "idle" => Covers(st[p])
    BY DEF Cleanly, Covered
  <1>d. UNCHANGED <<place, copies, tomb, jobs, ending>> => Teardowns'
    BY DEF Cleanly, Teardowns
  <1>e. site.max["wait"] > 0 => row.phase # "lost" /\ st[p].phase # "lost" /\ ~site.auto
                                /\ pc[p] \notin {"cordon", "apps", "place", "restore"}
    BY NothingMoves DEF Cleanly, Unlost
  <1>f. \A a \in Apps, n \in Nodes : <<a, n>> \in aim[p] => pc[p] \in {"place", "restore", "stop"}
    BY DEF Inv, Stateless
  <1>1. CASE Merge(p)
    <2>1. PICK place1 \in {"cordon", "save"} :
              /\ pc' = [pc EXCEPT ![p] = place1]
              /\ place1 = "cordon" => site.auto \/ st[p].phase = "lost"
      BY <1>1 DEF Merge
    <2>2. pc[p] = "merge" /\ UNCHANGED <<site, place, copies, tomb, jobs, ending, row, aim>>
      BY <1>1 DEF Merge
    <2>3. st'[p] = Merged(st[p]) /\ \A q \in Runs : q # p => st'[q] = st[q]
      BY <1>a, <1>1 DEF Merge
    <2>4. Merged(st[p]).phase = st[p].phase
      BY <1>a DEF Merged, RowType
    <2>5. Targets(st'[p])
      BY <1>a, <1>b, <2>3 DEF Merged, RowType, Targets, NoAction
    <2>6. \A a \in Apps : st[p].acts[a].status = "moved" => Merged(st[p]).acts[a].status = "moved"
      BY <1>a DEF Merged, RowType
    <2>7. Covers(st[p])'
      BY <1>c, <2>2, <2>3, <2>6 DEF Covers
    <2>8. Covers(row)'
      <3>1. \A q \in Runs : pc[q] \notin {"apps", "place", "save"}
        BY <2>2, OthersIdle DEF Calmly
      <3> QED
        BY <2>2, <3>1 DEF Cleanly, Covered, Covers
    <2> QED
      BY <1>b, <1>d, <1>e, <1>f, <2>1, <2>2, <2>3, <2>4, <2>5, <2>7, <2>8, CleanGoesOn DEF Points
  <1>2. CASE Cordon(p)
    <2>1. st' = st \/ st' = [st EXCEPT ![p].cordoned = TRUE]
      BY <1>2 DEF Cordon
    <2>2. st'[p].acts = st[p].acts /\ \A q \in Runs : q # p => st'[q] = st[q]
      BY <1>a, <2>1 DEF RowType
    <2>3. /\ pc[p] = "cordon" /\ pc' = [pc EXCEPT ![p] = "apps"]
          /\ UNCHANGED <<site, place, copies, tomb, jobs, ending, row, aim>>
      BY <1>2 DEF Cordon
    <2>4. Targets(st'[p]) /\ Covers(st[p])'
      BY <1>b, <1>c, <2>2, <2>3 DEF Targets, Covers
    <2> QED
      BY <1>b, <1>d, <1>e, <1>f, <2>2, <2>3, <2>4, CleanGoesOn DEF Points
  <1>3. CASE AppsDone(p)
    <2>1. /\ pc[p] = "apps" /\ pc' = [pc EXCEPT ![p] = "save"]
          /\ UNCHANGED <<site, place, copies, tomb, jobs, ending, row, aim, st>>
      BY <1>3 DEF AppsDone
    <2>2. Covers(st[p])'
      BY <1>c, <2>1 DEF Covers
    <2> QED
      BY <1>b, <1>d, <1>e, <1>f, <2>1, <2>2, CleanGoesOn DEF Points
  <1>4. CASE Save(p)
    <2>1. row' = st[p] /\ Ends(p) /\ pc[p] = "save" /\ UNCHANGED <<site, place, copies, tomb, jobs, ending>>
      BY <1>4, NothingBeside DEF Save
    <2>2. Targets(row') /\ Covers(row') /\ (site.max["wait"] > 0 => row'.phase # "lost")
      BY <1>b, <1>c, <1>e, <2>1
    <2> QED
      BY <2>1, <2>2, CleanEnds
  <1>5. ASSUME NEW a \in Apps, NEW s \in Statuses \ {"moving"}, pc[p] \in {"apps", "place"},
               pc' = [pc EXCEPT ![p] = "apps"], st' = [st EXCEPT ![p] = Marked(@, a, s)],
               place[a] = Home \/ s = "moved", aim' = aim \/ aim' = [aim EXCEPT ![p] = {}],
               UNCHANGED <<site, place, copies, tomb, jobs, ending, row>>
        PROVE  Cleanly'
    <2>1. st'[p] = Marked(st[p], a, s) /\ \A q \in Runs : q # p => st'[q] = st[q]
      BY <1>a, <1>5
    <2>2. Targets(st'[p])
      BY <1>a, <1>b, <2>1, MarkedActs DEF Targets
    <2>3. \A b \in Apps : st'[p].acts[b].status = IF b = a THEN s ELSE st[p].acts[b].status
      BY <1>a, <2>1, MarkedActs
    <2>4. Covers(st[p])'
      BY <1>5, <1>c, <2>3 DEF Covers
    <2>5. Teardowns' /\ ~(site.max["wait"] > 0)
      BY <1>5, <1>d, <1>e
    <2>6. "apps" \in Points \ {"idle"} /\ pc[p] # "idle" /\ Targets(row')
      BY <1>5, <1>b DEF Points
    <2> QED
      BY <1>5, <2>1, <2>2, <2>4, <2>5, <2>6, CleanGoesOn
  <1>6. ASSUME NEW a \in Apps, MovedAlready(p, a) \/ NoTarget(p, a)
        PROVE  Cleanly'
    <2>1. PICK s \in {"moved", "failed"} : Settles(p, a, s) /\ (place[a] = Home \/ s = "moved")
      BY <1>6 DEF MovedAlready, NoTarget
    <2>2. pc' = [pc EXCEPT ![p] = "apps"]
      BY <1>a, <2>1 DEF Settles
    <2> QED
      BY <1>5, <2>1, <2>2 DEF Settles, Statuses
  <1>7. CASE PlaceFails(p)
    <2>1. PICK a \in Apps, n \in Nodes : <<a, n>> \in aim[p] /\ st' = [st EXCEPT ![p] = Marked(@, a, "failed")]
      BY <1>7 DEF PlaceFails
    <2>2. pc[p] = "place" /\ place[a] = Home
      BY <1>7, <2>1 DEF PlaceFails, Cleanly, Aimed
    <2> QED
      BY <1>5, <1>7, <2>1, <2>2 DEF PlaceFails, Statuses
  <1>8. CASE Places(p)
    <2>1. PICK a \in Apps, n \in Nodes :
              /\ <<a, n>> \in aim[p] /\ place' = [place EXCEPT ![a] = n]
              /\ st' = [st EXCEPT ![p].acts[a] = [status |-> "moved", target |-> n]]
      BY <1>8 DEF Places, Placed
    <2>2. /\ pc[p] = "place" /\ pc' = [pc EXCEPT ![p] = "apps"] /\ aim' = [aim EXCEPT ![p] = {}]
          /\ UNCHANGED <<site, copies, tomb, jobs, ending, row>>
      BY <1>8 DEF Places, Placed
    <2>3. n # Home /\ place[a] = Home
      BY <2>1, <2>2 DEF Cleanly, Aimed
    <2>4. Targets(st'[p]) /\ \A q \in Runs : q # p => st'[q] = st[q]
      BY <1>a, <1>b, <2>1 DEF Targets, RowType
    <2>5. \A b \in Apps : st'[p].acts[b].status = IF b = a THEN "moved" ELSE st[p].acts[b].status
      BY <1>a, <2>1 DEF RowType
    <2>6. \A b \in Apps : place'[b] = IF b = a THEN n ELSE place[b]
      BY <1>a, <2>1
    <2>7. Covers(st[p])'
      BY <1>c, <2>2, <2>5, <2>6 DEF Covers
    <2>8. Teardowns'
      BY <2>2, <2>3, <2>6 DEF Cleanly, Teardowns, Inv, Typed
    <2>9. aim'[p] = {}
      BY <1>a, <2>2
    <2> QED
      BY <1>b, <1>e, <2>2, <2>4, <2>7, <2>8, <2>9, CleanGoesOn DEF Points
  <1>9. ASSUME NEW a \in Apps, Aims(p, a)
        PROVE  Cleanly'
    <2>1. pc[p] = "apps" /\ place[a] = Home
      BY <1>9 DEF Aims, Settles
    <2>2. PICK n \in IF st[p].acts[a].status = "moving" THEN {st[p].acts[a].target} ELSE Others :
              LET moving == [st[p] EXCEPT !.acts[a] = [status |-> "moving", target |-> n]]
              IN  /\ row' = moving /\ st' = [st EXCEPT ![p] = moving]
                  /\ aim' = [aim EXCEPT ![p] = {<<a, n>>}] /\ pc' = [pc EXCEPT ![p] = "place"]
                  /\ UNCHANGED <<site, place, copies, tomb, jobs, ending>>
      BY <1>9, NothingBeside DEF Aims
    <2>3. n # Home
      BY <1>b, <2>2, NodeAssumption DEF Targets
    <2>4. row' = st'[p] /\ \A q \in Runs : q # p => st'[q] = st[q]
      BY <1>a, <2>2
    <2>5. /\ st'[p].acts[a] = [status |-> "moving", target |-> n]
          /\ \A b \in Apps : b # a => st'[p].acts[b] = st[p].acts[b]
      BY <1>a, <2>2 DEF RowType
    <2>6. Targets(st'[p])
      BY <1>b, <2>3, <2>5 DEF Targets
    <2>7. Covers(st[p])'
      BY <1>c, <2>1, <2>2, <2>5 DEF Covers
    <2>8. aim'[p] = {<<a, n>>}
      BY <1>a, <2>2
    <2> QED
      BY <1>d, <1>e, <2>1, <2>2, <2>3, <2>4, <2>6, <2>7, <2>8, CleanGoesOn DEF Points
  <1> QED
    BY <1>1, <1>2, <1>3, <1>4, <1>6, <1>7, <1>8, <1>9 DEF Advance

\* The tick fences what is stale, and removes the row when nothing is left to fence.
LEMMA CleanHealthy ==
  ASSUME Inv, Calm, Unmoved, Calmly, Cleanly,
         \/ \E a \in Apps : FenceLooks(a) \/ FenceStops(a) \/ FenceFails(a)
         \/ FencesDone \/ Uncordon \/ Delete \/ Restore \/ RestoreFails
  PROVE  Cleanly'
  <1> USE DEF nodeVars, appVars, rowVars, runVars, Goto
  <1>a. /\ st \in [Runs -> RowType] /\ pc \in [Runs -> Points] /\ row \in RowType
        /\ todo \in [Runs -> SUBSET Apps] /\ aim \in [Runs -> SUBSET (Apps \X Nodes)]
        /\ place \in [Apps -> Nodes] /\ copies \in [Apps -> SUBSET Nodes] /\ tomb \in [Apps -> SUBSET Nodes]
        /\ "tick" \in Runs /\ "api" \in Runs
    BY DEF Inv, Typed, Runs
  <1>b. Targets(row) /\ \A q \in Runs : Targets(st[q])
    BY DEF Cleanly, Aimed
  <1>c. \A q \in Runs : pc[q] # "idle" => Covers(st[q])
    BY DEF Cleanly, Covered
  <1>d. UNCHANGED <<place, copies, tomb, jobs, ending>> => Teardowns'
    BY DEF Cleanly, Teardowns
  <1>e. site.max["wait"] > 0 => /\ row.phase # "lost" /\ \A q \in Runs : st[q].phase # "lost" /\ pc[q] # "restore"
    BY DEF Cleanly, Unlost
  <1>f. \A q \in Runs : pc[q] \notin {"idle", "apps", "place", "save"} => Covers(row)
    BY OthersIdle DEF Calmly, Cleanly, Covered
  <1>g. "fenced" \in Statuses
    BY DEF Statuses
  <1>h. ASSUME NEW place1 \in {"fence", "stop", "uncordon", "delete", "save"}, pc["tick"] # "idle",
               pc' = [pc EXCEPT !["tick"] = place1], UNCHANGED <<site, place, row>>,
               \A q \in Runs : q # "tick" => st'[q] = st[q],
               site.max["wait"] > 0 => st'["tick"].phase # "lost",
               Targets(st'["tick"]), Covers(st["tick"])', Covers(row)', Teardowns',
               place1 \in {"uncordon", "delete"} => In(st'["tick"], {"moved"}) = {}
        PROVE  Cleanly'
    <2>1. place1 \in Points \ {"idle"} /\ place1 \notin {"cordon", "apps", "place", "restore"}
      BY <1>h DEF Points
    <2>2. Targets(row') /\ (site.max["wait"] > 0 => row'.phase # "lost" /\ UNCHANGED place)
      BY <1>h, <1>b, <1>e
    <2> QED
      BY <1>a, <1>h, <2>1, <2>2, CleanGoesOn
  <1>1. ASSUME NEW a \in Apps, FenceLooks(a)
        PROVE  Cleanly'
    <2>1. pc["tick"] = "fence" /\ UNCHANGED <<site, place, copies, tomb, jobs, ending, row>>
      BY <1>1 DEF FenceLooks
    <2>2. Covers(row)'
      BY <1>f, <1>a, <2>1 DEF Covers
    <2>3. CASE place[a] = Home
      <3>1. /\ st' = [st EXCEPT !["tick"] = Marked(@, a, "fenced")]
            /\ pc' = [pc EXCEPT !["tick"] = "fence"] /\ UNCHANGED aim
        BY <1>a, <1>1, <2>3 DEF FenceLooks
      <3>2. /\ st'["tick"] = Marked(st["tick"], a, "fenced") /\ \A q \in Runs : q # "tick" => st'[q] = st[q]
        BY <1>a, <3>1
      <3>3. /\ st'["tick"].phase = st["tick"].phase
            /\ \A b \in Apps : /\ st'["tick"].acts[b].target = st["tick"].acts[b].target
                               /\ st'["tick"].acts[b].status =
                                     IF b = a THEN "fenced" ELSE st["tick"].acts[b].status
        BY <1>a, <1>g, <3>2, MarkedActs
      <3>4. Targets(st'["tick"])
        BY <1>a, <1>b, <3>3 DEF Targets
      <3>5. Covers(st["tick"])'
        BY <1>a, <1>c, <2>1, <2>3, <3>3 DEF Covers
      <3> QED
        BY <1>a, <1>d, <1>e, <1>h, <2>1, <2>2, <3>1, <3>2, <3>3, <3>4, <3>5
    <2>4. CASE place[a] # Home
      <3>1. pc' = [pc EXCEPT !["tick"] = "stop"] /\ UNCHANGED st
        BY <1>1, <2>4 DEF FenceLooks
      <3>2. Covers(st["tick"])'
        BY <1>a, <1>c, <2>1, <3>1 DEF Covers
      <3> QED
        BY <1>a, <1>b, <1>d, <1>e, <1>h, <2>1, <2>2, <3>1, <3>2
    <2> QED
      BY <2>3, <2>4
  <1>2. ASSUME NEW a \in Apps, FenceStops(a) \/ FenceFails(a)
        PROVE  Cleanly'
    <2>1. PICK fenced \in BOOLEAN :
              /\ FenceEnds(a, fenced)
              /\ \/ copies' = [copies EXCEPT ![a] = @ \ {Home}] /\ UNCHANGED <<tomb, jobs>>
                 \/ Queued(a, Home) /\ UNCHANGED copies
                 \/ ~fenced /\ UNCHANGED <<copies, tomb, jobs>>
      BY <1>2 DEF FenceStops, FenceFails
    <2>2. /\ pc["tick"] = "stop" /\ pc' = [pc EXCEPT !["tick"] = "fence"]
          /\ UNCHANGED <<site, place, ending, row>>
      BY <2>1 DEF FenceEnds
    <2>3. place[a] # Home
      BY <2>1 DEF FenceEnds, Calmly, AimAway, Nodes
    <2>4. /\ st'["tick"] = IF fenced THEN Marked(st["tick"], a, "fenced") ELSE st["tick"]
          /\ \A q \in Runs : q # "tick" => st'[q] = st[q]
      BY <1>a, <2>1 DEF FenceEnds
    <2>5. /\ st'["tick"].phase = st["tick"].phase
          /\ \A b \in Apps : /\ st'["tick"].acts[b].target = st["tick"].acts[b].target
                             /\ st'["tick"].acts[b].status =
                                   IF fenced /\ b = a THEN "fenced" ELSE st["tick"].acts[b].status
      BY <1>a, <1>g, <2>4, MarkedActs
    <2>6. Targets(st'["tick"])
      BY <1>a, <1>b, <2>5 DEF Targets
    <2>7. /\ \A b \in Apps : copies'[b] \subseteq copies[b] /\ (b # a => tomb'[b] = tomb[b])
          /\ tomb'[a] = tomb[a] \/ tomb'[a] = {Home}
          /\ fenced => Home \notin copies'[a] \/ tomb'[a] = {Home}
          /\ jobs' = jobs \/ jobs' = jobs \cup {<<a, Home>>}
      BY <1>a, <2>1 DEF Queued
    <2>8. Teardowns'
      BY <2>2, <2>3, <2>7 DEF Cleanly, Teardowns, Inv, Typed
    <2>9. Covers(st["tick"])'
      BY <1>a, <1>c, <2>2, <2>5, <2>7 DEF Covers
    <2>10. Covers(row)'
      BY <1>a, <1>f, <2>2, <2>7 DEF Covers
    <2> QED
      BY <1>a, <1>e, <1>h, <2>2, <2>4, <2>5, <2>6, <2>8, <2>9, <2>10
  <1>3. CASE FencesDone
    <2>1. PICK place1 \in {"uncordon", "save"} :
              /\ pc' = [pc EXCEPT !["tick"] = place1]
              /\ place1 = "uncordon" => In(st["tick"], {"moved"}) = {}
      BY <1>3 DEF FencesDone
    <2>2. pc["tick"] = "fence" /\ UNCHANGED <<site, place, copies, tomb, jobs, ending, row, aim>>
      BY <1>3 DEF FencesDone
    <2>3. /\ st'["tick"].acts = st["tick"].acts /\ st'["tick"].phase = "recovering"
          /\ \A q \in Runs : q # "tick" => st'[q] = st[q]
      BY <1>a, <1>3 DEF FencesDone, RowType
    <2>4. Targets(st'["tick"]) /\ Covers(st["tick"])' /\ Covers(row)'
      BY <1>a, <1>b, <1>c, <1>f, <2>2, <2>3 DEF Targets, Covers
    <2>5. In(st'["tick"], {"moved"}) = In(st["tick"], {"moved"})
      BY <2>3 DEF In
    <2> QED
      BY <1>a, <1>d, <1>h, <2>1, <2>2, <2>3, <2>4, <2>5
  <1>4. CASE Uncordon
    <2>1. pc["tick"] = "uncordon" /\ UNCHANGED <<site, place, copies, tomb, jobs, ending, row>>
      BY <1>4 DEF Uncordon
    <2>2. CASE Ends("tick")
      BY <1>a, <1>b, <1>e, <1>f, <2>1, <2>2, CleanEnds
    <2>3. CASE pc' = [pc EXCEPT !["tick"] = "delete"] /\ UNCHANGED <<st, aim>>
      <3>1. In(st["tick"], {"moved"}) = {}
        BY <2>1 DEF Cleanly, Covered
      <3>2. Covers(st["tick"])' /\ Covers(row)'
        BY <1>a, <1>c, <1>f, <2>1, <2>3 DEF Covers
      <3> QED
        BY <1>a, <1>b, <1>d, <1>e, <1>h, <2>1, <2>3, <3>1, <3>2
    <2> QED
      BY <1>4, <2>2, <2>3 DEF Uncordon
  <1>5. CASE Delete
    <2>1. /\ pc["tick"] = "delete" /\ row' = NoRow /\ Ends("tick")
          /\ UNCHANGED <<site, place, copies, tomb, jobs, ending>>
      BY <1>5, NothingBeside DEF Delete
    <2>2. In(st["tick"], {"moved"}) = {}
      BY <2>1 DEF Cleanly, Covered
    <2>3. Targets(NoRow) /\ NoRow.phase # "lost"
      BY DEF Targets, NoRow, NoAction
    <2>4. Covers(NoRow)
      BY <1>a, <1>c, <2>1, <2>2 DEF Covers, In
    <2> QED
      BY <1>a, <2>1, <2>3, <2>4, CleanEnds
  <1>6. CASE Restore
    <2>1. PICK a \in Apps, n \in Nodes :
              /\ <<a, n>> \in aim["api"] /\ place' = [place EXCEPT ![a] = n]
              /\ st' = [st EXCEPT !["api"].acts[a] = [status |-> "moved", target |-> n]]
      BY <1>6 DEF Restore, Placed
    <2>2. /\ pc["api"] = "restore" /\ pc' = [pc EXCEPT !["api"] = "save"] /\ aim' = [aim EXCEPT !["api"] = {}]
          /\ UNCHANGED <<site, copies, tomb, jobs, ending, row>>
      BY <1>6 DEF Restore, Placed
    <2>3. n # Home
      BY <1>a, <2>1, <2>2 DEF Cleanly, Aimed
    <2>4. Targets(st'["api"]) /\ \A q \in Runs : q # "api" => st'[q] = st[q]
      BY <1>a, <1>b, <2>1 DEF Targets, RowType
    <2>5. \A b \in Apps : st'["api"].acts[b].status = IF b = a THEN "moved" ELSE st["api"].acts[b].status
      BY <1>a, <2>1 DEF RowType
    <2>6. \A b \in Apps : place'[b] = IF b = a THEN n ELSE place[b]
      BY <1>a, <2>1
    <2>7. Covers(st["api"])'
      BY <1>a, <1>c, <2>2, <2>5, <2>6 DEF Covers
    <2>8. Teardowns'
      BY <2>2, <2>3, <2>6 DEF Cleanly, Teardowns, Inv, Typed
    <2>9. aim'["api"] = {}
      BY <1>a, <2>2
    <2> QED
      BY <1>a, <1>b, <1>e, <2>2, <2>4, <2>7, <2>8, <2>9, CleanGoesOn DEF Points
  <1>7. CASE RestoreFails
    <2>1. pc["api"] = "restore" /\ Ends("api") /\ UNCHANGED <<site, place, copies, tomb, jobs, ending, row>>
      BY <1>7 DEF RestoreFails
    <2> QED
      BY <1>a, <1>b, <1>e, <1>f, <2>1, CleanEnds
  <1> QED
    BY <1>1, <1>2, <1>3, <1>4, <1>5, <1>6, <1>7

CleanInv == CalmInv /\ (Calm /\ Unmoved => Cleanly)

LEMMA CleanAlways == Spec => []CleanInv
  <1>1. Init => Cleanly
    <2> SUFFICES ASSUME Init PROVE Cleanly
      OBVIOUS
    <2>1. \A a \in Apps : row.acts[a].status = "absent" /\ place[a] = Home /\ tomb[a] = {}
      BY DEF Init, NoRow, NoAction
    <2>2. \A p \in Runs : st[p] = row /\ pc[p] = "idle" /\ aim[p] = {}
      BY DEF Init
    <2>3. row.phase # "lost" /\ jobs = {} /\ ending = {} /\ "tick" \in Runs
      BY DEF Init, NoRow, Runs
    <2> QED
      <3>1. Unlost
        BY <2>1, <2>2, <2>3 DEF Unlost
      <3>2. Targets(row) /\ \A p \in Runs : Targets(st[p])
        BY <2>1, <2>2 DEF Targets
      <3>3. Aimed
        BY <2>2, <3>2 DEF Aimed
      <3>4. Teardowns
        BY <2>1, <2>3 DEF Teardowns
      <3>5. Covers(row)
        BY <2>1 DEF Covers
      <3>6. Covered
        BY <2>2, <2>3, <3>5 DEF Covered
      <3> QED
        BY <3>1, <3>3, <3>4, <3>6 DEF Cleanly
  <1>2. ASSUME CalmInv, CalmInv', Calm /\ Unmoved => Cleanly, [Next]_vars
        PROVE  (Calm /\ Unmoved => Cleanly)'
    <2> SUFFICES ASSUME Calm', Unmoved' PROVE Cleanly'
      OBVIOUS
    <2>1. UNCHANGED site
      BY <1>2, SiteKept
    <2>2. Inv /\ Inv' /\ Calm /\ Unmoved /\ Calmly /\ Cleanly
      BY <1>2, <2>1 DEF CalmInv, Calm, Unmoved
    <2>3. CASE UNCHANGED vars
      BY <2>2, <2>3 DEF vars, nodeVars, appVars, rowVars, runVars, Cleanly, Unlost, Aimed, Targets, Teardowns,
         Covered, Covers, In
    <2>4. CASE Outside \/ Finalizer
      BY <2>2, <2>4, CleanOutside
    <2>5. CASE Tick
      BY <2>2, <2>5, CleanBegins, CleanAdvances, CleanHealthy DEF Tick, Runs
    <2>6. CASE Api
      BY <2>2, <2>6, CleanBegins, CleanAdvances, CleanHealthy DEF Api, ApiStep, Runs
    <2> QED
      BY <1>2, <2>3, <2>4, <2>5, <2>6 DEF Next
  <1>3. Init /\ CalmInv => CleanInv
    BY <1>1 DEF CleanInv
  <1>4. CleanInv /\ CalmInv' /\ [Next]_vars => CleanInv'
    BY <1>2 DEF CleanInv
  <1> QED
    BY <1>3, <1>4, CalmAlways, PTL DEF Spec

\* "fences stale copies when the node returns" (package comment of nodefailure): where nothing
\* runs beside a tick, every save succeeds and no operator moves an app, a node whose failure is
\* over runs nothing that belongs elsewhere, unless its teardown is queued, and is schedulable
\* again, however often it dropped and whatever calls and teardowns failed (healthy, clear).
THEOREM ReturnsClean == Spec => [](Unmoved => RecoveredClean)
  <1>1. CleanInv => (Unmoved => StraysFenced)
    <2>1. ASSUME CleanInv, Unmoved, Calm, Quiet
          PROVE  \A a \in Apps : Home \in copies[a] => place[a] = Home \/ tomb[a] = {Home}
      <3>1. Covers(row)
        BY <2>1 DEF CleanInv, Cleanly, Covered, Quiet
      <3>2. \A a \in Apps : row.acts[a].status # "moved"
        BY <2>1 DEF CleanInv, CalmInv, Inv, Rows, Quiet, NoRow, NoAction
      <3> QED
        BY <3>1, <3>2, Zenon DEF Covers
    <2> QED
      BY <2>1, Zenon DEF StraysFenced, NoStrays
  <1>2. CleanInv => CordonReturned
    BY DEF CleanInv, CalmInv, Inv, Rows, Calmly, Cordons, CordonReturned, Quiet, NoRow
  <1>3. CleanInv => (Unmoved => RecoveredClean)
    BY <1>1, <1>2 DEF RecoveredClean
  <1> QED
    BY <1>3, CleanAlways, PTL

=============================================================================
