---------------------------- MODULE HandoffProofs ----------------------------
(***************************************************************************)
(* For any releases, settings, deploys, containers that die, calls and     *)
(* reads that fail and restarts: every variable keeps its kind, with the   *)
(* order in which the containers were created; what a take-over stopped    *)
(* stays owed a restart, through the hands of the pass and the records of  *)
(* pending candidates; and the last release that serves is lost in the     *)
(* ways LastServingKept lists only, of which the prune needs a third       *)
(* release.                                                                *)
(***************************************************************************)
EXTENDS Handoff, TLAPS

Typed ==
    /\ site \in Sites /\ used \in [Events -> Nat]
    /\ desired \in Releases /\ goal \in Releases
    /\ cont \in [Releases -> {"none", "stopped", "up"}]
    /\ DOMAIN pending \subseteq Releases /\ (~Defers => DOMAIN pending = {})

\* Parked releases exist, and no listing shows them as running.
Parked == \A r \in parked : r \in Releases /\ cont[r] = "stopped" /\ r \notin ghosts

\* What the places of a pass know of its goal, its hands and its record.
Placed ==
    /\ pc \in Settled => held = {}
    /\ pc \in {"release", "stop", "create", "recreate"} => cont[goal] = "none"
    /\ pc = "stop" => todo \subseteq Exists
    /\ pc \in {"create", "recreate", "judge"} => ~Tracked

\* Something has to stop first, and may.
Parks == StopFirst /\ ~KeepsOne

Unparked == ~Parks => parked = {} /\ (pc = "stop" => todo = {})

Inv == Typed /\ Parked /\ Placed /\ Unparked

\* One step of ParkedIsOwed.
StaysOwed ==
    \A r \in parked' : \/ r \in Owed'
                       \/ r \in parked \ Owed
                       \/ Crash \/ Failed("blind")
                       \/ r \notin parked /\ Failed("stuck")

-----------------------------------------------------------------------------
LEMMA OnceTyped ==
  ASSUME used \in [Events -> Nat], NEW e \in Events, Once(e)
  PROVE  used' \in [Events -> Nat] /\ Failed(e)
  BY DEF Once, Failed

LEMMA EventsFail ==
  ASSUME Typed
  PROVE  /\ Fault => used' \in [Events -> Nat]
         /\ Stuck => used' \in [Events -> Nat] /\ Failed("stuck")
         /\ Blind => used' \in [Events -> Nat] /\ Failed("blind")
  BY OnceTyped DEF Typed, Fault, Stuck, Blind, Events

LEMMA Initially == Init => Inv
  BY ReleaseAssumption DEF Init, Inv, Typed, Parked, Placed, Unparked, Settled, Events, Defers, Parks

\* What was owed is owed, when no new release is parked and no record and no hand lost one.
LEMMA SameOwed ==
  ASSUME parked' \subseteq parked, Owed \cap parked' \subseteq Owed'
  PROVE  StaysOwed
  BY DEF StaysOwed

LEMMA SameHands ==
  ASSUME parked' \subseteq parked, UNCHANGED <<held, pending>>
  PROVE  StaysOwed
  BY SameOwed DEF Owed

\* Starting r, or failing to, concerns r alone, and what does not exist is not started.
LEMMA StartTriedKeeps ==
  ASSUME Typed, NEW r \in Releases, StartTried(r)
  PROVE  /\ cont' \in [Releases -> {"none", "stopped", "up"}] /\ used' \in [Events -> Nat]
         /\ \A s \in Releases : s # r => cont'[s] = cont[s]
         /\ cont'[r] = "none" <=> cont[r] = "none"
  BY EventsFail DEF StartTried, Start, StartFails, Started, Typed, dockVars

LEMMA StoppedKeeps ==
  ASSUME Typed, NEW S, Stopped(S)
  PROVE  /\ cont' \in [Releases -> {"none", "stopped", "up"}]
         /\ \A s \in Releases : cont[s] # "up" => cont'[s] = cont[s]
         /\ \A s \in Releases : cont[s] = "up" => cont'[s] # "none"
         /\ \A s \in S \cap Releases : cont[s] # "none" => cont'[s] = "stopped"
  BY DEF Stopped, Typed

\* Stopping, or failing to, leaves what is stopped as it is.
LEMMA StopTriedKeeps ==
  ASSUME Typed, NEW r \in Releases, StopTried(r)
  PROVE  /\ cont' \in [Releases -> {"none", "stopped", "up"}] /\ used' \in [Events -> Nat]
         /\ \A s \in Releases : cont[s] # "up" => cont'[s] = cont[s]
         /\ \A s \in Releases : cont[s] = "up" => cont'[s] # "none"
  <1>1. CASE Stop(r)
    BY <1>1, StoppedKeeps DEF Stop, Typed
  <1>2. CASE Stuck /\ UNCHANGED dockVars
    BY <1>2, EventsFail DEF dockVars, Typed
  <1> QED
    BY <1>1, <1>2 DEF StopTried

\* Clearing containers away leaves no stopped one running.
LEMMA ClearedKeeps ==
  ASSUME Typed, NEW gone, NEW down, Cleared(gone, down)
  PROVE  /\ cont' \in [Releases -> {"none", "stopped", "up"}] /\ ghosts' = {}
         /\ parked' = parked \ gone
         /\ \A s \in Releases : s \in gone => cont'[s] = "none"
         /\ \A s \in Releases : s \notin gone => (cont'[s] = "none" <=> cont[s] = "none")
         /\ \A s \in Releases : s \notin gone /\ cont[s] = "stopped" => cont'[s] = "stopped"
  BY DEF Cleared, Typed

LEMMA RemovalKeeps ==
  ASSUME Typed, Parked, NEW S, RemovalTried(S) \/ SeesNothing
  PROVE  /\ cont' \in [Releases -> {"none", "stopped", "up"}] /\ used' \in [Events -> Nat]
         /\ parked' \subseteq parked
         /\ \A s \in parked' : s \in Releases /\ cont'[s] = "stopped" /\ s \notin ghosts'
  <1>1. ASSUME NEW gone, NEW down, Cleared(gone, down)
        PROVE  /\ cont' \in [Releases -> {"none", "stopped", "up"}]
               /\ parked' \subseteq parked
               /\ \A s \in parked' : s \in Releases /\ cont'[s] = "stopped" /\ s \notin ghosts'
    BY <1>1, ClearedKeeps DEF Parked
  <1>2. CASE RemovalTried(S)
    BY <1>1, <1>2, EventsFail DEF RemovalTried, Removed, Typed
  <1>3. CASE SeesNothing
    BY <1>3, EventsFail DEF SeesNothing, dockVars, Parked, Typed
  <1> QED
    BY <1>2, <1>3

\* A revived release is no longer parked; the others are as they were.
LEMMA RevivingKeeps ==
  ASSUME Typed, Parked, NEW start \in BOOLEAN, Reviving(start)
  PROVE  /\ cont' \in [Releases -> {"none", "stopped", "up"}] /\ used' \in [Events -> Nat]
         /\ \A s \in Releases : cont'[s] = "none" <=> cont[s] = "none"
         /\ parked' \subseteq parked
         /\ \A s \in parked' : cont'[s] = "stopped" /\ s \notin ghosts'
  <1>1. Revivable(start) \subseteq Releases
    BY DEF Revivable, Known, Exists
  <1>2. CASE UNCHANGED <<dockVars, waiting, ghosts, parked>> /\ (UNCHANGED used \/ Blind)
    BY <1>2, EventsFail DEF dockVars, Typed, Parked
  <1>3. ASSUME NEW r \in Releases, parked' = parked \ {r}, ghosts' = {}, StartTried(r)
        PROVE  /\ cont' \in [Releases -> {"none", "stopped", "up"}] /\ used' \in [Events -> Nat]
               /\ \A s \in Releases : cont'[s] = "none" <=> cont[s] = "none"
               /\ parked' \subseteq parked
               /\ \A s \in parked' : cont'[s] = "stopped" /\ s \notin ghosts'
    BY <1>3, StartTriedKeeps DEF Parked
  <1> QED
    BY <1>1, <1>2, <1>3 DEF Reviving

\* What is parked and named by a record is found when the record is taken up.
LEMMA LocatedParked ==
  ASSUME Typed, Parked, NEW names
  PROVE  names \cap parked \subseteq Located(names)
  BY DEF Located, Exists, ListedUp, Up, Parked

-----------------------------------------------------------------------------
(* The steps.                                                              *)

LEMMA OutsideStep == Inv /\ (Outside \/ Time) => Inv' /\ StaysOwed
  <1> SUFFICES ASSUME Inv, Outside \/ Time PROVE Inv' /\ StaysOwed
    OBVIOUS
  <1> USE DEF Inv, storeVars, dockVars, sharedVars, retryVars, passVars, histVars, Typed, Parked, Placed, Unparked,
              Parks, StopFirst, Mode, KeepsOne, Defers, Tracked, Settled, Exists
  <1>1. ASSUME NEW r \in Releases, Deploy(r)
        PROVE  Inv' /\ StaysOwed
    BY <1>1, OnceTyped, SameHands DEF Deploy, Events
  <1>2. ASSUME NEW r \in Releases, Dies(r)
        PROVE  Inv' /\ StaysOwed
    <2>1. used' \in [Events -> Nat]
      BY <1>2, OnceTyped DEF Dies, Events
    <2>2. /\ cont[r] = "up" /\ cont' = [s \in Releases |-> IF s = r THEN "stopped" ELSE cont[s]]
          /\ ghosts' \subseteq ghosts \cup {r}
          /\ UNCHANGED <<site, desired, goal, pending, parked, pc, todo, held>>
      BY <1>2 DEF Dies, Up, Stopped
    <2>3. Typed' /\ Parked' /\ Placed'
      BY <2>1, <2>2
    <2> QED
      BY <2>2, <2>3, SameHands
  <1>3. CASE ListingRefreshed
    BY <1>3, SameHands DEF ListingRefreshed
  <1>4. CASE Crash
    <2>1. used' \in [Events -> Nat]
      BY <1>4, OnceTyped DEF Crash, Events
    <2>2. Typed' /\ Parked' /\ Placed' /\ Unparked'
      BY <1>4, <2>1 DEF Crash
    <2> QED
      BY <1>4, <2>2 DEF StaysOwed
  <1>5. CASE Time
    BY <1>5, SameHands DEF Time, BudgetPasses, BackoffPasses, RetryPasses
  <1> QED
    BY <1>1, <1>2, <1>3, <1>4, <1>5 DEF Outside

\* A pass begins, and puts back what superseded candidates had stopped.
LEMMA BeginStep ==
  Inv /\ (StartPass \/ StartRequeued \/ ReviveFirst \/ NoneSuperseded \/ AbortSuperseded \/ RestoreOne \/ RestoreDone)
      => Inv' /\ StaysOwed
  <1> SUFFICES ASSUME Inv, \/ StartPass \/ StartRequeued \/ ReviveFirst \/ NoneSuperseded
                           \/ AbortSuperseded \/ RestoreOne \/ RestoreDone
               PROVE  Inv' /\ StaysOwed
    OBVIOUS
  <1> USE DEF Inv, storeVars, dockVars, sharedVars, retryVars, passVars, histVars, Typed, Parked, Placed, Unparked,
              Parks, StopFirst, Mode, KeepsOne, Defers, Tracked, Settled, Goto
  <1>1. CASE StartPass \/ StartRequeued
    BY <1>1, SameHands DEF StartPass, StartRequeued
  <1>2. CASE ReviveFirst
    BY <1>2, RevivingKeeps, SameHands DEF ReviveFirst
  <1>3. CASE NoneSuperseded
    BY <1>3, SameHands DEF NoneSuperseded
  <1>4. CASE AbortSuperseded
    <2>1. PICK t \in DOMAIN pending \ {goal} :
              /\ pending' = Without(pending, t)
              /\ \/ held' = Located(pending[t]) /\ StopTried(t)
                 \/ /\ held' = {} /\ Blind
                    /\ \E down \in {{}, {t}} : Stopped(down)
      BY <1>4 DEF AbortSuperseded
    <2>2. t \in Releases /\ DOMAIN pending' = DOMAIN pending \ {t} /\ \A s \in DOMAIN pending' : pending'[s] = pending[s]
      BY <2>1 DEF Without
    <2>3. /\ pc = "supersede" /\ pc' = "putback" /\ ghosts' = {} /\ held = {}
          /\ UNCHANGED <<site, desired, goal, todo, parked>>
      BY <1>4 DEF AbortSuperseded
    <2>4. CASE held' = Located(pending[t]) /\ StopTried(t)
      <3>1. Typed' /\ Parked' /\ Placed' /\ Unparked'
        BY <2>2, <2>3, <2>4, StopTriedKeeps
      <3>2. Owed \cap parked' \subseteq Owed'
        BY <2>2, <2>3, <2>4, LocatedParked DEF Owed
      <3> QED
        BY <2>3, <3>1, <3>2, SameOwed
    <2>5. ASSUME NEW down, Stopped(down), held' = {}, Blind
          PROVE  Inv' /\ StaysOwed
      <3>1. used' \in [Events -> Nat] /\ Failed("blind")
        BY <2>5, EventsFail
      <3>2. Typed' /\ Parked' /\ Placed' /\ Unparked'
        BY <2>2, <2>3, <2>5, <3>1, StoppedKeeps
      <3> QED
        BY <3>1, <3>2 DEF StaysOwed
    <2> QED
      BY <2>1, <2>4, <2>5
  <1>5. CASE RestoreOne
    <2>1. PICK r \in held : held' = held \ {r} /\ parked' = parked \ {r} /\ StartTried(r)
      BY <1>5 DEF RestoreOne
    <2>2. /\ pc \in {"putback", "restore"} /\ ghosts' = {}
          /\ UNCHANGED <<site, desired, goal, todo, pc, pending>>
      BY <1>5 DEF RestoreOne
    <2>3. /\ cont' \in [Releases -> {"none", "stopped", "up"}] /\ used' \in [Events -> Nat]
          /\ \A s \in Releases : s # r => cont'[s] = cont[s]
      BY <2>1, EventsFail DEF StartTried, Start, StartFails, Started
    <2>4. StaysOwed
      BY <2>1, <2>2, SameOwed DEF Owed
    <2> QED
      BY <2>1, <2>2, <2>3, <2>4
  <1>6. CASE RestoreDone
    BY <1>6, SameHands DEF RestoreDone, AfterRestore
  <1> QED
    BY <1>1, <1>2, <1>3, <1>4, <1>5, <1>6

\* A verdict against the candidate: its record passes into the hands of the pass, or a read failed.
LEMMA FailsOwes ==
  ASSUME Inv, (Fails(Owes) /\ (UNCHANGED used \/ Blind)) \/ FailsBlind,
         UNCHANGED <<site, desired, cont, ghosts, parked>>, pc \in {"ensure", "judge"}
  PROVE  Inv' /\ StaysOwed
  <1> USE DEF Inv, storeVars, Typed, Parked, Placed, Unparked, Parks, StopFirst, Mode, KeepsOne, Defers, Tracked,
              Settled, Goto
  <1>1. used' \in [Events -> Nat]
    BY EventsFail DEF FailsBlind
  <1>2. PICK owed : Fails(owed)
    BY DEF FailsBlind
  <1>3. DOMAIN pending' = DOMAIN pending \ {goal} /\ \A s \in DOMAIN pending' : pending'[s] = pending[s]
    BY <1>2 DEF Fails, Without
  <1>4. pc' = "abort" /\ UNCHANGED <<goal, todo>>
    BY <1>2 DEF Fails
  <1>5. Typed' /\ Parked' /\ Placed' /\ Unparked'
    BY <1>1, <1>3, <1>4
  <1>6. CASE Fails(Owes)
    <2>1. Tracked => held' = Located(pending[goal]) /\ pc = "ensure" /\ held = {}
      BY <1>6 DEF Fails, Owes
    <2>2. ~Tracked => held' = held /\ goal \notin DOMAIN pending
      BY <1>6 DEF Fails, Owes
    <2>3. Owed \cap parked' \subseteq Owed'
      BY <1>3, <2>1, <2>2, LocatedParked DEF Owed
    <2> QED
      BY <1>5, <2>3, SameOwed
  <1>7. CASE FailsBlind
    BY <1>5, <1>7, EventsFail DEF FailsBlind, StaysOwed
  <1> QED
    BY <1>6, <1>7

LEMMA EnsureStep ==
  Inv /\ (EnsureDrifted \/ LooksFail \/ EnsureMissing \/ EnsureExited \/ EnsureBackingOff \/ EnsureRestarts)
      => Inv' /\ StaysOwed
  <1> SUFFICES ASSUME Inv, \/ EnsureDrifted \/ LooksFail \/ EnsureMissing \/ EnsureExited
                           \/ EnsureBackingOff \/ EnsureRestarts
               PROVE  Inv' /\ StaysOwed
    OBVIOUS
  <1> USE DEF Inv, storeVars, dockVars, sharedVars, retryVars, passVars, histVars, Typed, Parked, Placed, Unparked,
              Parks, StopFirst, Mode, KeepsOne, Defers, Tracked, Settled, Goto
  <1>1. CASE EnsureDrifted
    <2>1. used' \in [Events -> Nat]
      BY <1>1, OnceTyped DEF EnsureDrifted, Events
    <2>2. /\ pc = "ensure" /\ pc' = "release" /\ Cleared({goal}, {})
          /\ UNCHANGED <<site, desired, goal, todo, pending, held>>
      BY <1>1 DEF EnsureDrifted, Removed
    <2> QED
      BY <2>1, <2>2, ClearedKeeps, SameHands
  <1>2. CASE LooksFail
    BY <1>2, EventsFail, SameHands DEF LooksFail
  <1>3. CASE EnsureMissing
    BY <1>3, SameHands DEF EnsureMissing, Exists
  <1>4. CASE EnsureExited
    BY <1>4, FailsOwes DEF EnsureExited
  <1>5. CASE EnsureBackingOff
    BY <1>5, SameHands DEF EnsureBackingOff
  <1>6. CASE EnsureRestarts
    <2>1. /\ pc = "ensure" /\ ~Tracked /\ UNCHANGED <<site, desired, goal, todo, pending, held>>
      BY <1>6 DEF EnsureRestarts
    <2>2. CASE /\ Started(goal)
               /\ (Goto("judge") /\ UNCHANGED used) \/ (Goto("prune") /\ Blind)
               /\ parked' = parked \ {goal} /\ ghosts' = {}
      <3>1. used' \in [Events -> Nat]
        BY <2>2, EventsFail
      <3> QED
        BY <2>1, <2>2, <3>1, SameHands DEF Started
    <2>3. CASE CreateOrStartFails /\ Cleared({goal}, {}) /\ Goto("recreate")
      <3>1. used' \in [Events -> Nat]
        BY <2>3, EventsFail DEF CreateOrStartFails
      <3> QED
        BY <2>1, <2>3, <3>1, ClearedKeeps, SameHands
    <2>4. CASE Fault /\ Goto("prune") /\ UNCHANGED <<dockVars, ghosts, proven, parked>>
      BY <2>1, <2>4, EventsFail, SameHands
    <2> QED
      BY <1>6, <2>2, <2>3, <2>4 DEF EnsureRestarts, Removed
  <1> QED
    BY <1>1, <1>2, <1>3, <1>4, <1>5, <1>6

\* What has to stop first is stopped, and the candidate is created.
LEMMA TakeOverStep ==
  Inv /\ (ReleaseRefused \/ ReleaseBegins \/ StopHolder \/ StopHolderFails \/ TakesOver \/ Create)
      => Inv' /\ StaysOwed
  <1> SUFFICES ASSUME Inv, ReleaseRefused \/ ReleaseBegins \/ StopHolder \/ StopHolderFails \/ TakesOver \/ Create
               PROVE  Inv' /\ StaysOwed
    OBVIOUS
  <1> USE DEF Inv, storeVars, dockVars, sharedVars, retryVars, passVars, histVars, Typed, Parked, Placed, Unparked,
              Parks, StopFirst, Mode, KeepsOne, Defers, Tracked, Settled, Goto
  <1>1. CASE ReleaseRefused
    BY <1>1, SameHands DEF ReleaseRefused
  <1>2. CASE ReleaseBegins
    <2>1. ToStop \subseteq Exists /\ (~Parks => ToStop = {})
      BY <1>2 DEF ReleaseBegins, ToStop, FloorRefuses, ListedUp, Exists, Up
    <2>2. /\ pc = "release" /\ pc' = "stop" /\ todo' = ToStop
          /\ UNCHANGED <<site, desired, goal, cont, ghosts, parked, pending, held, used>>
      BY <1>2 DEF ReleaseBegins
    <2> QED
      BY <2>1, <2>2, SameHands DEF Exists
  <1>3. CASE StopHolder
    <2>1. PICK r \in todo : /\ todo' = todo \ {r} /\ held' = held \cup {r} /\ parked' = parked \cup {r}
                            /\ Stop(r)
      BY <1>3 DEF StopHolder
    <2>2. /\ pc = "stop" /\ pc' = "stop" /\ ghosts' = {}
          /\ UNCHANGED <<site, desired, goal, pending, used>>
      BY <1>3, <2>1 DEF StopHolder, Stop
    <2>3. cont' = [s \in Releases |-> IF s = r /\ cont[s] = "up" THEN "stopped" ELSE cont[s]]
      BY <2>1 DEF Stop, Stopped
    <2>4. r \in Releases /\ cont[r] # "none"
      BY <2>1, <2>2 DEF Exists
    <2>5. Typed' /\ Parked'
      BY <2>1, <2>2, <2>3, <2>4
    <2>6. Placed'
      BY <2>1, <2>2, <2>3, <2>4 DEF Exists
    <2>7. StaysOwed
      BY <2>1, <2>2 DEF StaysOwed, Owed
    <2> QED
      BY <2>1, <2>2, <2>5, <2>6, <2>7
  <1>4. CASE StopHolderFails
    <2>1. used' \in [Events -> Nat] /\ Failed("stuck")
      BY <1>4, EventsFail DEF StopHolderFails
    <2>2. PICK down \in SUBSET todo : Stopped(down) /\ parked' = parked \cup down
      BY <1>4 DEF StopHolderFails
    <2>3. /\ pc = "stop" /\ pc' = "restore" /\ ghosts' = {} /\ todo' = {}
          /\ UNCHANGED <<site, desired, goal, pending, held>>
      BY <1>4 DEF StopHolderFails
    <2>4. down \subseteq Exists
      BY <2>2, <2>3
    <2>5. Typed' /\ Parked' /\ Placed'
      BY <2>1, <2>2, <2>3, <2>4, StoppedKeeps DEF Exists
    <2>6. Unparked'
      BY <2>2, <2>3
    <2>7. StaysOwed
      BY <2>1, <2>2, <2>3 DEF StaysOwed, Owed
    <2> QED
      BY <2>5, <2>6, <2>7
  <1>5. CASE TakesOver
    <2>1. DOMAIN Without(pending, goal) = DOMAIN pending \ {goal}
          /\ \A s \in DOMAIN pending \ {goal} : Without(pending, goal)[s] = pending[s]
      BY DEF Without
    <2>2. /\ pc = "stop" /\ pc' = "create" /\ UNCHANGED <<site, desired, goal, todo, cont, ghosts, parked>>
          /\ pending' = IF Defers THEN Without(pending, goal) ELSE pending
      BY <1>5 DEF TakesOver
    <2>3. \/ held' = held \cup (IF Tracked THEN Located(pending[goal]) ELSE {}) /\ UNCHANGED used
          \/ Blind
      BY <1>5 DEF TakesOver
    <2>4. used' \in [Events -> Nat]
      BY <2>3, EventsFail
    <2>5. Typed' /\ Parked' /\ Placed' /\ Unparked'
      BY <2>1, <2>2, <2>4
    <2>6. CASE Blind
      BY <2>5, <2>6, EventsFail DEF StaysOwed
    <2>7. CASE held' = held \cup (IF Tracked THEN Located(pending[goal]) ELSE {})
      <3>1. Owed \cap parked' \subseteq Owed'
        BY <2>1, <2>2, <2>7, LocatedParked DEF Owed
      <3> QED
        BY <2>2, <2>5, <3>1, SameOwed
    <2> QED
      BY <2>3, <2>6, <2>7
  <1>6. CASE Create
    <2>1. /\ pc \in {"create", "recreate"}
          /\ ghosts' = {} /\ UNCHANGED <<site, desired, goal, todo, pending, parked>>
      BY <1>6 DEF Create
    <2>2. used' \in [Events -> Nat]
      BY <1>6, EventsFail DEF Create, CreateOrStartFails
    <2>3. cont' = cont \/ cont' = [cont EXCEPT ![goal] = "up"]
      BY <1>6 DEF Create, Started
    <2>4. \/ /\ UNCHANGED held
             /\ \/ pc' = "judge"
                \/ pc' = "abort" /\ pc = "create"
                \/ pc' = "prune" /\ pc = "recreate"
          \/ pc' = "prune" /\ held' = {} /\ Failed("blind")
      BY <1>6, EventsFail DEF Create
    <2>5. Inv'
      BY <2>1, <2>2, <2>3, <2>4
    <2>6. StaysOwed
      BY <2>1, <2>4, SameHands DEF StaysOwed
    <2> QED
      BY <2>5, <2>6
  <1> QED
    BY <1>1, <1>2, <1>3, <1>4, <1>5, <1>6

LEMMA JudgeStep ==
  Inv /\ (\/ JudgeReady \/ JudgePending \/ JudgeFails \/ WaitSuperseded \/ WaitRevives
          \/ StillReady \/ Adopt \/ NotReady) => Inv' /\ StaysOwed
  <1> SUFFICES ASSUME Inv, \/ JudgeReady \/ JudgePending \/ JudgeFails \/ WaitSuperseded \/ WaitRevives
                           \/ StillReady \/ Adopt \/ NotReady
               PROVE  Inv' /\ StaysOwed
    OBVIOUS
  <1> USE DEF Inv, storeVars, dockVars, sharedVars, retryVars, passVars, histVars, Typed, Parked, Placed, Unparked,
              Parks, StopFirst, Mode, KeepsOne, Defers, Tracked, Settled, Goto
  <1>1. CASE JudgeReady
    <2>1. used' \in [Events -> Nat]
      BY <1>1, EventsFail DEF JudgeReady
    <2>2. StaysOwed
      BY <1>1 DEF JudgeReady, StaysOwed
    <2> QED
      BY <1>1, <2>1, <2>2 DEF JudgeReady, Without
  <1>2. CASE JudgePending
    <2>1. /\ DOMAIN pending' = DOMAIN pending \cup {goal}
          /\ \A s \in DOMAIN pending' : pending'[s] = IF s = goal /\ ~Tracked THEN held ELSE pending[s]
      BY <1>2 DEF JudgePending
    <2>2. /\ Defers /\ held' = {} /\ ghosts' = {} /\ pc' = "last"
          /\ UNCHANGED <<site, desired, goal, todo, cont, parked, used>>
          /\ (pc = "judge" /\ ~Tracked) \/ (pc = "ensure" /\ Tracked)
      BY <1>2 DEF JudgePending
    <2>3. Typed' /\ Parked' /\ Placed' /\ Unparked'
      BY <2>1, <2>2
    <2>4. Owed \cap parked' \subseteq Owed'
      BY <2>1, <2>2 DEF Owed
    <2> QED
      BY <2>2, <2>3, <2>4, SameOwed
  <1>3. CASE JudgeFails
    BY <1>3, FailsOwes DEF JudgeFails
  <1>4. CASE WaitSuperseded
    BY <1>4, StopTriedKeeps, SameHands DEF WaitSuperseded
  <1>5. CASE WaitRevives
    BY <1>5, RevivingKeeps, SameHands DEF WaitRevives
  <1>6. CASE StillReady
    <2>1. used' \in [Events -> Nat] /\ pc' \in {"steady", "prune"} /\ parked' \subseteq parked
      BY <1>6, EventsFail DEF StillReady
    <2>2. pc = "ensure" /\ UNCHANGED <<site, desired, goal, todo, cont, ghosts, pending, held>>
      BY <1>6 DEF StillReady
    <2> QED
      BY <2>1, <2>2, SameHands
  <1>7. CASE Adopt
    <2>1. /\ DOMAIN pending' = DOMAIN pending \cup {goal}
          /\ \A s \in DOMAIN pending : s # goal => pending'[s] = pending[s]
      BY <1>7 DEF Adopt
    <2>2. /\ pc = "ensure" /\ pc' = "last" /\ Defers /\ goal \notin DOMAIN pending /\ ghosts' = {}
          /\ UNCHANGED <<site, desired, goal, todo, cont, held, parked>>
      BY <1>7 DEF Adopt, Adoptable
    <2>3. used' \in [Events -> Nat]
      BY <1>7, EventsFail DEF Adopt
    <2>4. Owed \cap parked' \subseteq Owed'
      BY <2>1, <2>2 DEF Owed
    <2> QED
      BY <2>1, <2>2, <2>3, <2>4, SameOwed
  <1>8. CASE NotReady
    BY <1>8, SameHands DEF NotReady
  <1> QED
    BY <1>1, <1>2, <1>3, <1>4, <1>5, <1>6, <1>7, <1>8

\* The end of a pass.
LEMMA EndStep == Inv /\ (AbortAlone \/ Abort \/ Prune \/ ReviveLast \/ Retire) => Inv' /\ StaysOwed
  <1> SUFFICES ASSUME Inv, AbortAlone \/ Abort \/ Prune \/ ReviveLast \/ Retire PROVE Inv' /\ StaysOwed
    OBVIOUS
  <1> USE DEF Inv, storeVars, dockVars, sharedVars, retryVars, passVars, histVars, Typed, Parked, Placed, Unparked,
              Parks, StopFirst, Mode, KeepsOne, Defers, Tracked, Settled, Goto
  <1>1. CASE AbortAlone
    BY <1>1, StopTriedKeeps, SameHands DEF AbortAlone
  <1>2. CASE Abort
    <2>1. /\ pc = "abort" /\ pc' = "restore" /\ RemovalTried({goal})
          /\ UNCHANGED <<site, desired, goal, todo, pending, held>>
      BY <1>2 DEF Abort
    <2> QED
      BY <2>1, RemovalKeeps, SameHands
  <1>3. CASE Prune
    <2>1. /\ pc = "prune" /\ pc' = "last"
          /\ RemovalTried(Surplus) \/ SeesNothing
          /\ UNCHANGED <<site, desired, goal, todo, pending, held>>
      BY <1>3 DEF Prune
    <2> QED
      BY <2>1, RemovalKeeps, SameHands
  <1>4. CASE ReviveLast
    BY <1>4, RevivingKeeps, SameHands DEF ReviveLast
  <1>5. CASE Retire
    <2>1. PICK keep : RemovalTried(Stale \ keep) \/ SeesNothing
      BY <1>5 DEF Retire
    <2>2. /\ pc \in {"retire", "steady"} /\ pc' = "idle"
          /\ UNCHANGED <<site, desired, goal, todo, pending, held>>
      BY <1>5 DEF Retire
    <2> QED
      BY <2>1, <2>2, RemovalKeeps, SameHands
  <1> QED
    BY <1>1, <1>2, <1>3, <1>4, <1>5

LEMMA InvStep == Inv /\ [Next]_vars => Inv'
  <1>1. UNCHANGED vars /\ Inv => Inv'
    BY DEF vars, Inv, storeVars, dockVars, sharedVars, retryVars, passVars, histVars, Typed, Parked, Placed,
       Unparked, Parks, StopFirst, Mode, KeepsOne, Defers, Tracked, Exists
  <1> QED
    BY <1>1, OutsideStep, BeginStep, EnsureStep, TakeOverStep, JudgeStep, EndStep DEF Next, Pass

\* What a take-over stopped is never forgotten, however deploys, deaths, drift, restarts and failing
\* calls come in between: from one place to the next it stays in the hands of the pass or in a
\* pending record, except where a restart or a failing read loses it (createAndStart's inspection,
\* locateReleased's listing) or a stop reported as failed had its effect (releasePinnedPort).
THEOREM NothingParkedForgotten == Spec => ParkedIsOwed
  <1>1. Inv /\ Next => StaysOwed
    BY OutsideStep, BeginStep, EnsureStep, TakeOverStep, JudgeStep, EndStep DEF Next, Pass
  <1>2. Inv /\ [Next]_vars => [StaysOwed]_vars
    BY <1>1
  <1>3. Spec => [][Next]_vars
    BY DEF Spec
  <1> QED
    BY <1>2, <1>3, Initially, InvStep, PTL DEF Spec, ParkedIsOwed, StaysOwed

\* Whatever dies, fails or restarts, what is parked exists, is stopped, and no listing of the pass
\* shows it as running any more: putting it back finds it (locateReleased).
THEOREM ParkedIsFound == Spec => []Parked
  <1>1. Inv => Parked
    BY DEF Inv
  <1> QED
    BY <1>1, Initially, InvStep, PTL DEF Spec

-----------------------------------------------------------------------------
(* The types.                                                              *)

\* What Docker holds: containers, their ages and labels, and what is known of them.
Docked ==
    /\ cont \in [Releases -> {"none", "stopped", "up"}] /\ label \in [Releases -> SUBSET Releases]
    /\ late \cup older \subseteq Up /\ proven \subseteq Exists
    /\ Aged

\* What the store and the control plane hold.
Noted ==
    /\ attempts \in Seq(Releases) /\ asked \in BOOLEAN /\ pc \in Places
    /\ \A t \in DOMAIN pending : pending[t] \subseteq Releases
    /\ waiting \cup blocked \cup cooling \cup todo \cup held \cup ghosts \subseteq Releases

Kinds == Inv /\ Docked /\ Noted

LEMMA AgedKept ==
  ASSUME Aged, Exists' = Exists, UNCHANGED born
  PROVE  Aged'
  BY DEF Aged

LEMMA StartedDocked ==
  ASSUME Docked, NEW r \in Releases, cont[r] # "none", Started(r), UNCHANGED <<born, label, proven>>
  PROVE  Docked'
  <1>1. Exists' = Exists /\ Up \subseteq Up'
    BY DEF Started, Docked, Exists, Up
  <1> QED
    BY <1>1, AgedKept DEF Started, Docked

LEMMA StartDocked ==
  ASSUME Docked, NEW r \in Releases, StartTried(r), UNCHANGED proven
  PROVE  Docked'
  <1>1. CASE UNCHANGED dockVars
    BY <1>1 DEF dockVars, Docked, Aged, Exists, Up
  <1> QED
    BY <1>1, StartedDocked DEF StartTried, Start, StartFails

LEMMA StopDocked ==
  ASSUME Docked, NEW S, Stopped(S), UNCHANGED <<born, label, proven>>
  PROVE  Docked'
  <1>1. Exists' = Exists /\ Up' = Up \ S
    BY DEF Stopped, Docked, Exists, Up
  <1>2. cont' \in [Releases -> {"none", "stopped", "up"}]
    BY DEF Stopped, Docked
  <1>3. late' \cup older' \subseteq Up' /\ proven' \subseteq Exists'
    BY <1>1 DEF Stopped, Docked
  <1> QED
    BY <1>1, <1>2, <1>3, AgedKept DEF Docked

LEMMA StopTriedDocked ==
  ASSUME Docked, NEW r \in Releases, StopTried(r), UNCHANGED proven
  PROVE  Docked'
  <1>1. CASE Stop(r)
    BY <1>1, StopDocked DEF Stop
  <1>2. CASE UNCHANGED dockVars
    BY <1>2 DEF dockVars, Docked, Aged, Exists, Up
  <1> QED
    BY <1>1, <1>2 DEF StopTried

\* What is left after containers are cleared away keeps its order.
LEMMA ClearDocked ==
  ASSUME Docked, NEW gone, NEW down, Cleared(gone, down)
  PROVE  Docked'
  <1>1. Exists' = Exists \ gone /\ Up' = Up \ (gone \cup down)
    BY DEF Cleared, Docked, Exists, Up
  <1>2. cont' \in [Releases -> {"none", "stopped", "up"}] /\ label' \in [Releases -> SUBSET Releases]
    BY DEF Cleared, Docked
  <1>3. late' \cup older' \subseteq Up' /\ proven' \subseteq Exists'
    BY <1>1 DEF Cleared, Docked
  <1>4. \A r, s \in Exists' : <<r, s>> \in born' <=> <<r, s>> \in born
    BY <1>1 DEF Cleared
  <1>5. born' \subseteq Exists' \X Exists'
    BY <1>1 DEF Cleared
  <1>6. Aged'
    BY <1>1, <1>4, <1>5 DEF Docked, Aged
  <1> QED
    BY <1>2, <1>3, <1>6 DEF Docked

LEMMA RemovalDocked ==
  ASSUME Docked, NEW S, RemovalTried(S) \/ SeesNothing
  PROVE  Docked'
  <1>1. CASE RemovalTried(S)
    BY <1>1, ClearDocked DEF RemovalTried, Removed
  <1>2. CASE SeesNothing
    BY <1>2 DEF SeesNothing, dockVars, Docked, Aged, Exists, Up
  <1> QED
    BY <1>1, <1>2

\* A container that is created is the newest one.
LEMMA CreateDocked ==
  ASSUME Inv, Docked, held \subseteq Releases, Create
  PROVE  Docked'
  <1>1. goal \in Releases /\ cont[goal] = "none"
    BY DEF Create, Inv, Typed, Placed
  <1>2. CASE Started(goal) /\ born' = born \cup (Exists \X {goal}) /\ label' = [label EXCEPT ![goal] = held]
    <2>1. Exists' = Exists \cup {goal} /\ Up \subseteq Up' /\ goal \notin Exists
      BY <1>1, <1>2 DEF Started, Docked, Exists, Up
    <2>2. \A r, s : <<r, s>> \in born' <=> <<r, s>> \in born \/ (r \in Exists /\ s = goal)
      BY <1>2
    <2>3. born' \subseteq Exists' \X Exists'
      BY <1>2, <2>1 DEF Docked, Aged
    <2>4. \A r, s : <<r, s>> \in born => r \in Exists /\ s \in Exists
      BY DEF Docked, Aged
    <2>5. /\ \A r \in Exists' : <<r, r>> \notin born'
          /\ \A r, s \in Exists' : r = s \/ <<r, s>> \in born' \/ <<s, r>> \in born'
      BY <2>1, <2>2, <2>4 DEF Docked, Aged
    <2>6. \A r, s, t \in Exists' : <<r, s>> \in born' /\ <<s, t>> \in born' => <<r, t>> \in born'
      BY <2>1, <2>2, <2>4 DEF Docked, Aged
    <2>7. late' \cup older' \subseteq Up' /\ proven' \subseteq Exists'
      BY <1>2, <2>1 DEF Started, Docked, Create, histVars
    <2>8. cont' \in [Releases -> {"none", "stopped", "up"}] /\ label' \in [Releases -> SUBSET Releases]
      BY <1>2 DEF Started, Docked
    <2> QED
      BY <2>3, <2>5, <2>6, <2>7, <2>8 DEF Docked, Aged
  <1>3. CASE UNCHANGED dockVars
    BY <1>3 DEF dockVars, Docked, Aged, Exists, Up, Create, histVars
  <1> QED
    BY <1>2, <1>3 DEF Create

LEMMA ReviveDocked ==
  ASSUME Docked, NEW start \in BOOLEAN, Reviving(start), UNCHANGED proven
  PROVE  Docked'
  <1>1. Revivable(start) \subseteq Releases
    BY DEF Revivable, Known, Exists
  <1>2. CASE UNCHANGED dockVars
    BY <1>2 DEF dockVars, Docked, Aged, Exists, Up
  <1> QED
    BY <1>1, <1>2, StartDocked DEF Reviving

LEMMA DockedStep == Kinds /\ Inv' /\ [Next]_vars => Docked'
  <1> SUFFICES ASSUME Inv, Docked, Noted, [Next]_vars PROVE Docked'
    BY DEF Kinds
  <1> USE DEF storeVars, sharedVars, retryVars, passVars, histVars
  <1>a. goal \in Releases /\ DOMAIN pending \subseteq Releases /\ held \subseteq Releases /\ todo \subseteq Releases
    BY DEF Inv, Typed, Noted
  <1>1. ASSUME UNCHANGED <<dockVars, proven>>
        PROVE  Docked'
    BY <1>1 DEF dockVars, Docked, Aged, Exists, Up
  <1>2. CASE UNCHANGED vars
    BY <1>1, <1>2 DEF vars
  <1>3. ASSUME NEW r \in Releases, Deploy(r) \/ BackoffPasses(r) \/ RetryPasses(r)
        PROVE  Docked'
    BY <1>1, <1>3 DEF Deploy, BackoffPasses, RetryPasses
  <1>4. ASSUME NEW r \in Releases, Dies(r)
        PROVE  Docked'
    BY <1>4, StopDocked DEF Dies
  <1>5. ASSUME NEW r \in Releases, BudgetPasses(r)
        PROVE  Docked'
    BY <1>5 DEF BudgetPasses, Docked, Aged, Exists, Up
  <1>6. CASE Crash
    BY <1>6 DEF Crash, Docked, Aged, Exists, Up
  <1>7. CASE ReviveFirst \/ WaitRevives \/ ReviveLast
    BY <1>7, ReviveDocked DEF ReviveFirst, WaitRevives, ReviveLast
  <1>8. CASE AbortSuperseded \/ WaitSuperseded \/ AbortAlone
    BY <1>a, <1>8, StopTriedDocked, StopDocked DEF AbortSuperseded, WaitSuperseded, AbortAlone
  <1>9. CASE RestoreOne
    BY <1>a, <1>9, StartDocked DEF RestoreOne
  <1>10. CASE StopHolder \/ StopHolderFails
    BY <1>10, StopDocked DEF StopHolder, StopHolderFails, Stop
  <1>11. CASE EnsureDrifted \/ Abort \/ Prune \/ Retire
    BY <1>11, ClearDocked, RemovalDocked DEF EnsureDrifted, Abort, Prune, Retire, Removed
  <1>12. CASE EnsureRestarts
    <2>1. CASE Started(goal) /\ UNCHANGED <<born, label, proven>>
      <3>1. cont[goal] # "none"
        BY <1>12 DEF EnsureRestarts, Exists
      <3> QED
        BY <1>a, <2>1, <3>1, StartedDocked
    <2>2. CASE Cleared({goal}, {}) \/ UNCHANGED <<dockVars, proven>>
      BY <1>1, <2>2, ClearDocked
    <2> QED
      BY <1>12, <2>1, <2>2 DEF EnsureRestarts, Removed
  <1>13. CASE Create
    BY <1>a, <1>13, CreateDocked
  <1>14. CASE JudgeReady \/ StillReady
    BY <1>14 DEF JudgeReady, StillReady, Probed, dockVars, Docked, Aged, Exists, Up
  <1>15. CASE \/ StartPass \/ StartRequeued \/ NoneSuperseded \/ RestoreDone \/ EnsureMissing \/ EnsureExited
              \/ LooksFail \/ EnsureBackingOff \/ ReleaseRefused \/ ReleaseBegins \/ TakesOver
              \/ JudgePending \/ JudgeFails \/ Adopt \/ NotReady \/ ListingRefreshed
    BY <1>1, <1>15 DEF StartPass, StartRequeued, NoneSuperseded, RestoreDone, EnsureMissing, EnsureExited,
       LooksFail, EnsureBackingOff, ReleaseRefused, ReleaseBegins, TakesOver, JudgePending, JudgeFails, Adopt,
       NotReady, ListingRefreshed
  <1> QED
    BY <1>2, <1>3, <1>4, <1>5, <1>6, <1>7, <1>8, <1>9, <1>10, <1>11, <1>12, <1>13, <1>14, <1>15
       DEF Next, Outside, Time, Pass

LEMMA LocatedTyped == \A names : Located(names) \subseteq Releases
  BY DEF Located, Exists

LEMMA FailsNoted ==
  ASSUME Inv, Noted, Fails(Owes) \/ FailsBlind, UNCHANGED <<asked, waiting, blocked, cooling, ghosts>>
  PROVE  Noted'
  <1>1. PICK owed \in SUBSET Releases : Fails(owed)
    BY LocatedTyped DEF Owes, FailsBlind, Noted
  <1>2. pending' = Without(pending, goal) /\ held' \subseteq Releases /\ pc' = "abort" /\ UNCHANGED todo
    BY <1>1 DEF Fails, Goto
  <1>3. \A t \in DOMAIN pending' : pending'[t] \subseteq Releases
    BY <1>2 DEF Without, Noted
  <1>4. attempts' \in Seq(Releases)
    BY <1>1 DEF Fails, FailAttempt, Noted
  <1> QED
    BY <1>2, <1>3, <1>4 DEF Noted, Places

LEMMA RemovalNoted ==
  ASSUME NEW S, RemovalTried(S) \/ SeesNothing
  PROVE  ghosts' = {} \/ ghosts' = ghosts
  BY DEF RemovalTried, Removed, Cleared, SeesNothing

LEMMA NotedStep == Kinds /\ [Next]_vars => Noted'
  <1> SUFFICES ASSUME Inv, Noted, [Next]_vars PROVE Noted'
    BY DEF Kinds
  <1> USE DEF storeVars, sharedVars, retryVars, passVars, histVars, Goto, Places
  <1>a. goal \in Releases /\ DOMAIN pending \subseteq Releases /\ held \subseteq Releases
    BY DEF Inv, Typed, Noted
  <1>1. CASE UNCHANGED vars
    BY <1>1 DEF vars, Noted
  <1>2. ASSUME NEW r \in Releases, Deploy(r)
        PROVE  Noted'
    BY <1>2 DEF Deploy, Noted
  <1>3. ASSUME NEW r \in Releases, Dies(r) \/ BudgetPasses(r) \/ BackoffPasses(r) \/ RetryPasses(r)
        PROVE  Noted'
    BY <1>3 DEF Dies, BudgetPasses, BackoffPasses, RetryPasses, Noted
  <1>4. CASE ListingRefreshed
    BY <1>4 DEF ListingRefreshed, Noted
  <1>5. CASE Crash
    <2>1. DOMAIN pending' = {}
      BY <1>5 DEF Crash
    <2> QED
      BY <1>5, <2>1 DEF Crash, Noted
  <1>6. ASSUME NEW start \in BOOLEAN, Reviving(start)
        PROVE  waiting' \cup ghosts' \subseteq Releases
    BY <1>6 DEF Reviving, Revivable, Known, Exists, Noted
  <1>7. CASE ReviveFirst \/ WaitRevives \/ ReviveLast
    BY <1>6, <1>7 DEF ReviveFirst, WaitRevives, ReviveLast, Noted
  <1>8. CASE StartPass \/ StartRequeued \/ NoneSuperseded \/ RestoreOne \/ RestoreDone
    BY <1>8 DEF StartPass, StartRequeued, NoneSuperseded, RestoreOne, RestoreDone, AfterRestore, Noted
  <1>9. CASE AbortSuperseded
    <2>1. PICK t \in DOMAIN pending : pending' = Without(pending, t) /\ held' \in {Located(pending[t]), {}}
      BY <1>9 DEF AbortSuperseded
    <2> QED
      BY <1>9, <2>1, LocatedTyped DEF AbortSuperseded, Without, Noted
  <1>10. CASE EnsureDrifted \/ LooksFail \/ EnsureMissing \/ EnsureBackingOff
    BY <1>10 DEF EnsureDrifted, LooksFail, EnsureMissing, EnsureBackingOff, Removed, Cleared, Noted
  <1>11. CASE EnsureExited \/ JudgeFails
    BY <1>11, FailsNoted DEF EnsureExited, JudgeFails
  <1>12. CASE EnsureRestarts
    BY <1>a, <1>12 DEF EnsureRestarts, Removed, Cleared, Noted
  <1>13. CASE ReleaseRefused \/ StopHolder \/ StopHolderFails
    BY <1>13 DEF ReleaseRefused, StopHolder, StopHolderFails, Noted
  <1>14. CASE ReleaseBegins
    BY <1>14 DEF ReleaseBegins, ToStop, ListedUp, Up, Exists, Noted
  <1>15. CASE TakesOver
    <2>1. held' \subseteq Releases
      BY <1>15, LocatedTyped DEF TakesOver, Noted
    <2> QED
      BY <1>15, <2>1 DEF TakesOver, Without, Noted
  <1>16. CASE Create
    <2>1. pc' \in {"judge", "abort", "prune"} /\ held' \subseteq held /\ UNCHANGED todo
      BY <1>16 DEF Create
    <2> QED
      BY <1>16, <2>1 DEF Create, Noted
  <1>17. CASE JudgeReady
    BY <1>17 DEF JudgeReady, Without, Noted
  <1>18. CASE JudgePending
    <2>1. /\ DOMAIN pending' = DOMAIN pending \cup {goal}
          /\ \A t \in DOMAIN pending' : pending'[t] = IF t = goal /\ ~Tracked THEN held ELSE pending[t]
      BY <1>18 DEF JudgePending
    <2>2. \A t \in DOMAIN pending' : pending'[t] = held \/ t \in DOMAIN pending
      BY <2>1 DEF Tracked
    <2>3. \A t \in DOMAIN pending' : pending'[t] \subseteq Releases
      BY <2>1, <2>2 DEF Noted
    <2> QED
      BY <1>18, <2>3 DEF JudgePending, Noted
  <1>19. CASE Adopt
    <2>1. PICK owed \in {Located(label[goal]), {}} :
              pending' = [r \in DOMAIN pending \cup {goal} |-> IF r = goal THEN owed ELSE pending[r]]
      BY <1>19 DEF Adopt
    <2>2. \A t \in DOMAIN pending' : pending'[t] \subseteq Releases
      BY <2>1, LocatedTyped DEF Noted
    <2> QED
      BY <1>19, <2>2 DEF Adopt, Noted
  <1>20. CASE WaitSuperseded \/ StillReady \/ NotReady
    BY <1>20 DEF WaitSuperseded, StillReady, NotReady, Noted
  <1>21. CASE AbortAlone \/ Abort \/ Prune \/ Retire
    BY <1>a, <1>21, RemovalNoted DEF AbortAlone, Abort, Prune, Retire, Noted
  <1> QED
    BY <1>1, <1>2, <1>3, <1>4, <1>5, <1>7, <1>8, <1>9, <1>10, <1>11, <1>12, <1>13, <1>14, <1>15, <1>16,
       <1>17, <1>18, <1>19, <1>20, <1>21 DEF Next, Outside, Time, Pass

LEMMA InitialCont ==
  ASSUME Init
  PROVE  \A r \in Releases : cont[r] = IF r = First THEN "up" ELSE "none"
  <1>1. cont = [r \in Releases |-> IF r = First THEN "up" ELSE "none"]
    BY DEF Init
  <1> QED
    BY <1>1, Zenon

LEMMA InitialKinds == Init => Kinds
  <1> SUFFICES ASSUME Init PROVE Docked /\ Noted
    BY Initially DEF Kinds
  <1>1. Up = {First} /\ Exists = {First}
    BY InitialCont, ReleaseAssumption DEF Up, Exists
  <1>2. Docked
    BY <1>1 DEF Init, Docked, Aged
  <1>3. Noted
    <2>1. attempts \in Seq(Releases) /\ DOMAIN pending = {}
      BY ReleaseAssumption DEF Init
    <2> QED
      BY <2>1 DEF Init, Noted, Places
  <1> QED
    BY <1>2, <1>3

\* Whatever happens to its containers, its calls and the control plane, the controller keeps every
\* variable in its kind: it holds releases only while it hands over, only a running container is
\* late, only one that exists was ready or is parked, and of two containers one is the older.
THEOREM TypeCorrect == Spec => []TypeOK
  <1>1. Init => Kinds
    BY InitialKinds
  <1>2. Kinds /\ [Next]_vars => Kinds'
    BY InvStep, DockedStep, NotedStep DEF Kinds
  <1>3. Kinds => TypeOK
    <2> SUFFICES ASSUME Kinds PROVE TypeOK
      OBVIOUS
    <2>1. parked \subseteq Exists
      BY DEF Kinds, Inv, Parked, Exists
    <2>2. pc \in Settled => held = {}
      BY DEF Kinds, Inv, Placed
    <2>3. DOMAIN used = Events /\ \A event \in DOMAIN used : used[event] \in Nat
      BY DEF Kinds, Inv, Typed
    <2> QED
      BY <2>1, <2>2, <2>3 DEF Kinds, Inv, Typed, Docked, Noted, TypeOK
  <1> QED
    BY <1>1, <1>2, <1>3, PTL DEF Spec

-----------------------------------------------------------------------------
(* The last release that serves.                                           *)

\* A pass retires what is stale behind a candidate that was ready, or that a failed read left unproven.
Ready ==
    /\ pc = "retire" => goal \in proven
    /\ pc = "steady" => goal \in proven \/ used["blind"] > 0

LEMMA ReadyStep == Kinds /\ Ready /\ [Next]_vars => Ready'
  <1> SUFFICES ASSUME Kinds, Ready, [Next]_vars, pc' \in {"retire", "steady"} PROVE Ready'
    BY DEF Ready
  <1> USE DEF storeVars, sharedVars, retryVars, passVars, histVars, Goto
  <1>a. used \in [Events -> Nat]
    BY DEF Kinds, Inv, Typed
  <1>1. CASE JudgeReady
    BY <1>1 DEF JudgeReady, Ready
  <1>2. CASE StillReady
    <2>1. Blind => used'["blind"] > 0
      BY <1>a DEF Blind, Once, Events
    <2> QED
      BY <1>2, <2>1 DEF StillReady, Ready
  <1>3. ASSUME UNCHANGED <<pc, goal, proven>>, UNCHANGED used \/ \E e \in Events : Once(e)
        PROVE  Ready'
    <2>1. used'["blind"] >= used["blind"] /\ used["blind"] \in Nat /\ used'["blind"] \in Nat
      BY <1>a, <1>3 DEF Once, Events
    <2> QED
      BY <1>3, <2>1 DEF Ready
  <1>4. CASE UNCHANGED vars
    BY <1>3, <1>4 DEF vars
  <1>5. ASSUME NEW r \in Releases, Deploy(r) \/ Dies(r) \/ BudgetPasses(r) \/ BackoffPasses(r) \/ RetryPasses(r)
        PROVE  Ready'
    BY <1>3, <1>5 DEF Deploy, Dies, BudgetPasses, BackoffPasses, RetryPasses, Events
  <1>6. CASE ListingRefreshed
    BY <1>3, <1>6 DEF ListingRefreshed
  <1>7. ~Crash
    BY DEF Crash
  <1>8. ~(\/ StartPass \/ StartRequeued \/ ReviveFirst \/ NoneSuperseded \/ AbortSuperseded \/ RestoreDone
          \/ EnsureDrifted \/ LooksFail \/ EnsureMissing \/ EnsureBackingOff \/ EnsureRestarts \/ ReleaseRefused
          \/ ReleaseBegins \/ TakesOver \/ JudgePending \/ Adopt \/ NotReady \/ StopHolderFails
          \/ AbortAlone \/ Abort \/ Prune \/ ReviveLast \/ Retire \/ WaitSuperseded)
    BY DEF StartPass, StartRequeued, ReviveFirst, NoneSuperseded, AbortSuperseded, RestoreDone, AfterRestore,
       EnsureDrifted, LooksFail, EnsureMissing, EnsureBackingOff, EnsureRestarts, ReleaseRefused, ReleaseBegins,
       TakesOver, JudgePending, Adopt, NotReady, StopHolderFails, AbortAlone, Abort, Prune, ReviveLast, Retire,
       WaitSuperseded
  <1>9. ~(EnsureExited \/ JudgeFails)
    BY DEF EnsureExited, JudgeFails, Fails, FailsBlind
  <1>10. ~Create
    BY DEF Create
  <1>11. ~(RestoreOne \/ StopHolder \/ WaitRevives)
    BY DEF RestoreOne, StopHolder, WaitRevives
  <1> QED
    BY <1>1, <1>2, <1>4, <1>5, <1>6, <1>7, <1>8, <1>9, <1>10, <1>11 DEF Next, Outside, Time, Pass

\* A step that ends r and leaves no release running that was ready once.
Ends(r) == cont'[r] # "up" /\ (proven \cap Up)' = {}

\* Prune keeps the newest of the others that the listing shows as running.
LEMMA PruneEnds ==
  ASSUME Kinds, Prune, NEW r \in Serving, Ends(r)
  PROVE  Newest(Stale \cap ListedUp) \notin proven \cap Up
  <1> DEFINE n == Newest(Stale \cap ListedUp)
  <1> SUFFICES ASSUME n \in proven \cap Up PROVE FALSE
    OBVIOUS
  <1>1. cont \in [Releases -> {"none", "stopped", "up"}] /\ r \in Stale \cap ListedUp /\ cont[r] = "up"
    BY DEF Kinds, Docked, ListedUp, Stale, Serving, Up, Exists
  <1>2. Surplus = Stale \ {n}
    BY <1>1 DEF Surplus
  <1>3. ~SeesNothing
    BY <1>1 DEF SeesNothing, dockVars, Ends
  <1>4. PICK gone, down \in SUBSET (Stale \ {n}) : Cleared(gone, down)
    BY <1>2, <1>3 DEF Prune, RemovalTried, Removed
  <1> HIDE DEF n
  <1>5. n \in proven' /\ n \in Up'
    BY <1>4 DEF Cleared, Up
  <1> QED
    BY <1>5 DEF Ends

LEMMA ServingStep ==
  ASSUME Kinds, Ready, ~Parks, [Next]_vars, NEW r \in Serving, Ends(r)
  PROVE  \/ Dies(r)
         \/ pc \in {"retire", "steady"} /\ goal \in proven
         \/ pc = "steady" /\ used["blind"] > 0
         \/ pc = "prune" /\ Newest(Stale \cap ListedUp) \notin proven \cap Up
  <1> USE DEF storeVars, sharedVars, retryVars, passVars, histVars
  <1>a. /\ r \in Releases /\ cont[r] = "up" /\ r # goal /\ r \notin DOMAIN pending /\ cont'[r] # "up"
        /\ cont \in [Releases -> {"none", "stopped", "up"}] /\ goal \in Releases
    BY DEF Kinds, Docked, Serving, Up, Inv, Typed, Ends
  <1>1. cont' # cont
    BY <1>a
  <1>2. ~UNCHANGED vars /\ ~UNCHANGED dockVars
    BY <1>1 DEF vars, dockVars
  <1>3. ASSUME NEW s, StartTried(s) \/ Started(s)
        PROVE  FALSE
    BY <1>a, <1>2, <1>3 DEF StartTried, Start, StartFails, Started
  <1>4. ASSUME NEW s, s # r, StopTried(s) \/ \E down \in {{}, {s}} : Stopped(down)
        PROVE  FALSE
    BY <1>a, <1>2, <1>4 DEF StopTried, Stop, Stopped
  <1>5. ASSUME NEW gone \in SUBSET {goal}, NEW down \in SUBSET {goal}, Cleared(gone, down)
        PROVE  FALSE
    BY <1>a, <1>5 DEF Cleared
  <1>6. ASSUME NEW s \in Releases,
               Deploy(s) \/ Dies(s) \/ BudgetPasses(s) \/ BackoffPasses(s) \/ RetryPasses(s)
        PROVE  Dies(r)
    <2>1. Dies(s)
      BY <1>1, <1>2, <1>6 DEF Deploy, BudgetPasses, BackoffPasses, RetryPasses
    <2>2. s = r
      BY <1>a, <2>1 DEF Dies, Stopped
    <2> QED
      BY <2>1, <2>2
  <1>7. ASSUME NEW start \in BOOLEAN, Reviving(start)
        PROVE  FALSE
    BY <1>2, <1>3, <1>7 DEF Reviving
  <1>8. ~(ReviveFirst \/ WaitRevives \/ ReviveLast \/ RestoreOne)
    BY <1>3, <1>7 DEF ReviveFirst, WaitRevives, ReviveLast, RestoreOne
  <1>9. ~(AbortSuperseded \/ WaitSuperseded \/ AbortAlone)
    BY <1>a, <1>4 DEF AbortSuperseded, WaitSuperseded, AbortAlone
  <1>10. ~(StopHolder \/ StopHolderFails)
    BY DEF StopHolder, StopHolderFails, Kinds, Inv, Unparked
  <1>11. ~(EnsureDrifted \/ Abort)
    BY <1>5 DEF EnsureDrifted, Abort, RemovalTried, Removed
  <1>12. ~(EnsureRestarts \/ Create)
    BY <1>2, <1>3, <1>5 DEF EnsureRestarts, Removed, Create
  <1>13. Prune => pc = "prune" /\ Newest(Stale \cap ListedUp) \notin proven \cap Up
    BY PruneEnds DEF Prune
  <1>14. Retire => \/ pc \in {"retire", "steady"} /\ goal \in proven
                   \/ pc = "steady" /\ used["blind"] > 0
    BY DEF Retire, Ready
  <1>15. ~(\/ StartPass \/ StartRequeued \/ NoneSuperseded \/ RestoreDone \/ EnsureMissing \/ EnsureExited
           \/ EnsureBackingOff \/ ReleaseRefused \/ ReleaseBegins \/ LooksFail \/ TakesOver
           \/ JudgeReady \/ JudgePending \/ JudgeFails \/ StillReady \/ Adopt \/ NotReady \/ ListingRefreshed)
    BY <1>2 DEF StartPass, StartRequeued, NoneSuperseded, RestoreDone, EnsureMissing, EnsureExited,
       EnsureBackingOff, ReleaseRefused, ReleaseBegins, LooksFail, TakesOver, JudgeReady, JudgePending,
       JudgeFails, StillReady, Adopt, NotReady, ListingRefreshed
  <1>16. ~Crash
    BY <1>1 DEF Crash
  <1> QED
    BY <1>2, <1>6, <1>8, <1>9, <1>10, <1>11, <1>12, <1>13, <1>14, <1>15, <1>16 DEF Next, Outside, Time, Pass

LEMMA KindsHold == Spec => [](Kinds /\ Ready)
  <1>1. Init => Ready
    BY DEF Init, Ready
  <1>2. Kinds /\ [Next]_vars => Kinds'
    BY InvStep, DockedStep, NotedStep DEF Kinds
  <1> QED
    BY <1>1, <1>2, InitialKinds, ReadyStep, PTL DEF Spec

\* "A bad deploy never has a moment where nothing healthy is serving" (reconcileBlueGreen), for any
\* releases, settings, deploys, deaths, restarts and failing calls: the last release that serves dies,
\* is retired behind a candidate that was ready or whose check a failed read skipped, or is pruned in
\* favour of one that runs in the listing but was never ready or died since.
THEOREM ServingKept == Spec => LastServingKept
  <1> DEFINE Kept == ~StopFirst \/ KeepsOne => \A r \in Serving :
                       cont'[r] # "up" /\ (proven \cap Up)' = {} =>
                           \/ Dies(r)
                           \/ pc \in {"retire", "steady"} /\ goal \in proven
                           \/ pc = "steady" /\ used["blind"] > 0
                           \/ pc = "prune" /\ Newest(Stale \cap ListedUp) \notin proven \cap Up
  <1>1. Kinds /\ Ready /\ [Next]_vars => [Kept]_vars
    BY ServingStep DEF Parks, Ends
  <1>2. Spec => [][Next]_vars
    BY DEF Spec
  <1> QED
    BY <1>1, <1>2, KindsHold, PTL DEF LastServingKept

-----------------------------------------------------------------------------
(* Two releases.                                                           *)

\* One deploy, or deploys between the first release and one other.
TwoReleases(s) == s.max["deploy"] <= 1 \/ \E r \in Releases : s.images \subseteq {First, r}

\* The releases that are there, or may come, are the first one and one other.
Pair ==
    TwoReleases(site) => \E r \in Releases :
        /\ Exists \cup {desired, goal} \subseteq {First, r}
        /\ \/ site.images \subseteq {First, r}
           \/ site.max["deploy"] <= 1 /\ (used["deploy"] = 0 => r = First)

\* What a step may do to the containers there are: nothing, remove some, create the goal's.
Same == Exists' = Exists /\ born' = born
Fewer == Exists' \subseteq Exists /\ born' = born \cap (Exists' \X Exists')
OneMore == goal \notin Exists /\ Exists' = Exists \cup {goal} /\ born' = born \cup (Exists \X {goal})

LEMMA StartSame ==
  ASSUME Docked, NEW r, StartTried(r)
  PROVE  Same
  <1>1. CASE Start(r)
    BY <1>1 DEF Start, Started, Docked, Same, Exists
  <1>2. CASE UNCHANGED dockVars
    BY <1>2 DEF dockVars, Same, Exists
  <1> QED
    BY <1>1, <1>2 DEF StartTried, StartFails

LEMMA StopSame ==
  ASSUME Docked, NEW r, StopTried(r) \/ Stop(r)
  PROVE  Same
  <1>1. CASE Stop(r)
    BY <1>1 DEF Stop, Stopped, Docked, Same, Exists
  <1>2. CASE UNCHANGED dockVars
    BY <1>2 DEF dockVars, Same, Exists
  <1> QED
    BY <1>1, <1>2 DEF StopTried

LEMMA ClearedFewer ==
  ASSUME Docked, NEW gone, NEW down, Cleared(gone, down)
  PROVE  Fewer
  BY DEF Cleared, Docked, Fewer, Exists

LEMMA RemovalShapes ==
  ASSUME Docked, NEW S, RemovalTried(S) \/ SeesNothing
  PROVE  Same \/ Fewer
  <1>1. CASE RemovalTried(S)
    BY <1>1, ClearedFewer DEF RemovalTried, Removed
  <1>2. CASE SeesNothing
    BY <1>2 DEF SeesNothing, dockVars, Same, Exists
  <1> QED
    BY <1>1, <1>2

LEMMA CreateShapes ==
  ASSUME Inv, Docked, Create
  PROVE  Same \/ OneMore
  <1>1. goal \in Releases /\ cont[goal] = "none"
    BY DEF Create, Inv, Typed, Placed
  <1>2. CASE Started(goal) /\ born' = born \cup (Exists \X {goal})
    BY <1>1, <1>2 DEF Started, Docked, OneMore, Exists
  <1>3. CASE UNCHANGED dockVars
    BY <1>3 DEF dockVars, Same, Exists
  <1> QED
    BY <1>2, <1>3 DEF Create

LEMMA Shapes == Kinds /\ [Next]_vars => Same \/ Fewer \/ OneMore
  <1> SUFFICES ASSUME Inv, Docked, [Next]_vars PROVE Same \/ Fewer \/ OneMore
    BY DEF Kinds
  <1>1. ASSUME UNCHANGED <<cont, born>>
        PROVE  Same
    BY <1>1 DEF Same, Exists
  <1>2. CASE UNCHANGED vars
    BY <1>1, <1>2 DEF vars, dockVars
  <1>3. ASSUME NEW r \in Releases, Deploy(r) \/ BackoffPasses(r) \/ RetryPasses(r) \/ BudgetPasses(r)
        PROVE  Same
    BY <1>1, <1>3 DEF Deploy, BackoffPasses, RetryPasses, BudgetPasses, dockVars
  <1>4. ASSUME NEW r \in Releases, Dies(r)
        PROVE  Same
    BY <1>4 DEF Dies, Stopped, Docked, Same, Exists
  <1>5. CASE Crash
    BY <1>1, <1>5 DEF Crash
  <1>6. ASSUME NEW start \in BOOLEAN, Reviving(start)
        PROVE  Same
    BY <1>1, <1>6, StartSame DEF Reviving, dockVars
  <1>7. CASE ReviveFirst \/ WaitRevives \/ ReviveLast
    BY <1>6, <1>7 DEF ReviveFirst, WaitRevives, ReviveLast
  <1>8. CASE AbortSuperseded \/ WaitSuperseded \/ AbortAlone \/ StopHolder \/ StopHolderFails
    <2>1. ASSUME NEW S, Stopped(S), UNCHANGED born
          PROVE  Same
      BY <2>1 DEF Stopped, Docked, Same, Exists
    <2> QED
      BY <1>8, <2>1, StopSame DEF AbortSuperseded, WaitSuperseded, AbortAlone, StopHolder, StopHolderFails
  <1>9. CASE RestoreOne
    BY <1>9, StartSame DEF RestoreOne
  <1>10. CASE EnsureDrifted \/ Abort \/ Prune \/ Retire
    BY <1>10, ClearedFewer, RemovalShapes DEF EnsureDrifted, Abort, Prune, Retire, Removed
  <1>11. CASE EnsureRestarts
    <2>1. CASE Started(goal) /\ UNCHANGED born
      BY <1>11, <2>1 DEF EnsureRestarts, Started, Docked, Same, Exists
    <2> QED
      BY <1>1, <1>11, <2>1, ClearedFewer DEF EnsureRestarts, Removed, dockVars
  <1>12. CASE Create
    BY <1>12, CreateShapes
  <1>13. CASE \/ StartPass \/ StartRequeued \/ NoneSuperseded \/ RestoreDone \/ EnsureMissing \/ EnsureExited
              \/ EnsureBackingOff \/ ReleaseRefused \/ ReleaseBegins \/ LooksFail \/ TakesOver
              \/ JudgeReady \/ JudgePending \/ JudgeFails \/ StillReady \/ Adopt \/ NotReady \/ ListingRefreshed
    BY <1>1, <1>13 DEF StartPass, StartRequeued, NoneSuperseded, RestoreDone, EnsureMissing, EnsureExited,
       EnsureBackingOff, ReleaseRefused, ReleaseBegins, LooksFail, TakesOver, JudgeReady, JudgePending,
       JudgeFails, StillReady, Adopt, NotReady, ListingRefreshed, dockVars
  <1> QED
    BY <1>2, <1>3, <1>4, <1>5, <1>7, <1>8, <1>9, <1>10, <1>11, <1>12, <1>13 DEF Next, Outside, Time, Pass

\* The settings stay, a deploy is the one step that names a new release, and no step but a deploy counts one.
LEMMA NamesKept ==
  Kinds /\ [Next]_vars =>
      /\ site' = site
      /\ \/ desired' = desired /\ goal' \in {goal, desired} /\ used'["deploy"] = used["deploy"]
         \/ \E r \in site.images : desired' = r /\ r # desired /\ goal' = goal /\ Once("deploy")
  <1> SUFFICES ASSUME Inv, [Next]_vars
               PROVE  /\ site' = site
                      /\ \/ desired' = desired /\ goal' \in {goal, desired} /\ used'["deploy"] = used["deploy"]
                         \/ \E r \in site.images : desired' = r /\ r # desired /\ goal' = goal /\ Once("deploy")
    BY DEF Kinds
  <1> USE DEF storeVars, passVars, Goto
  <1>a. ASSUME NEW e \in Events, Once(e), e # "deploy"
        PROVE  used'["deploy"] = used["deploy"]
    BY <1>a DEF Once, Inv, Typed, Events
  <1>b. Fault \/ Stuck \/ Blind => used'["deploy"] = used["deploy"]
    BY <1>a DEF Fault, Stuck, Blind, Events
  <1>1. CASE UNCHANGED vars
    BY <1>1 DEF vars
  <1>2. ASSUME NEW r \in Releases, Deploy(r)
        PROVE  site' = site /\ \E s \in site.images : desired' = s /\ s # desired /\ goal' = goal /\ Once("deploy")
    BY <1>2 DEF Deploy
  <1>3. ASSUME NEW r \in Releases, Dies(r) \/ BudgetPasses(r) \/ BackoffPasses(r) \/ RetryPasses(r)
        PROVE  UNCHANGED <<site, desired, goal>> /\ used'["deploy"] = used["deploy"]
    BY <1>3, <1>a DEF Dies, BudgetPasses, BackoffPasses, RetryPasses, Events
  <1>4. CASE Crash \/ ListingRefreshed \/ EnsureDrifted
    BY <1>4, <1>a DEF Crash, ListingRefreshed, EnsureDrifted, Events
  <1>5. ASSUME NEW start \in BOOLEAN, Reviving(start)
        PROVE  used'["deploy"] = used["deploy"]
    BY <1>5, <1>b DEF Reviving, StartTried, Start, StartFails
  <1>6. CASE ReviveFirst \/ WaitRevives \/ ReviveLast
    BY <1>5, <1>6 DEF ReviveFirst, WaitRevives, ReviveLast
  <1>7. ASSUME NEW S, StopTried(S) \/ Stop(S) \/ StartTried(S) \/ RemovalTried(S) \/ SeesNothing
        PROVE  used'["deploy"] = used["deploy"]
    BY <1>7, <1>b DEF StopTried, Stop, StartTried, Start, StartFails, RemovalTried, SeesNothing
  <1>8. CASE AbortSuperseded \/ WaitSuperseded \/ AbortAlone \/ StopHolder \/ RestoreOne
    BY <1>7, <1>8, <1>b DEF AbortSuperseded, WaitSuperseded, AbortAlone, StopHolder, RestoreOne
  <1>9. CASE EnsureRestarts \/ Create \/ StopHolderFails
    BY <1>9, <1>b DEF EnsureRestarts, Create, CreateOrStartFails, StopHolderFails
  <1>10. CASE StartPass \/ StartRequeued
    BY <1>10 DEF StartPass, StartRequeued
  <1>11. CASE EnsureExited \/ JudgeFails
    BY <1>11, <1>b DEF EnsureExited, JudgeFails, Fails, FailsBlind
  <1>12. CASE \/ NoneSuperseded \/ RestoreDone \/ EnsureMissing \/ EnsureBackingOff \/ ReleaseRefused \/ ReleaseBegins
              \/ LooksFail \/ TakesOver \/ JudgeReady \/ JudgePending \/ StillReady \/ Adopt \/ NotReady
    BY <1>12, <1>b DEF NoneSuperseded, RestoreDone, EnsureMissing, EnsureBackingOff, ReleaseRefused, ReleaseBegins,
       LooksFail, TakesOver, JudgeReady, JudgePending, StillReady, Adopt, NotReady
  <1>13. CASE Abort \/ Prune \/ Retire
    BY <1>7, <1>13 DEF Abort, Prune, Retire
  <1> QED
    BY <1>1, <1>2, <1>3, <1>4, <1>6, <1>8, <1>9, <1>10, <1>11, <1>12, <1>13 DEF Next, Outside, Time, Pass

LEMMA PairStep == Kinds /\ Pair /\ [Next]_vars => Pair'
  <1> SUFFICES ASSUME Kinds, Pair, [Next]_vars, TwoReleases(site)'
               PROVE  Pair'
    BY DEF Pair
  <1>1. TwoReleases(site) /\ site' = site
    BY NamesKept DEF TwoReleases
  <1>2. PICK r \in Releases :
            /\ Exists \cup {desired, goal} \subseteq {First, r}
            /\ \/ site.images \subseteq {First, r}
               \/ site.max["deploy"] <= 1 /\ (used["deploy"] = 0 => r = First)
    BY <1>1 DEF Pair
  <1>3. Exists' \subseteq {First, r}
    BY <1>2, Shapes DEF Same, Fewer, OneMore
  <1>4. CASE desired' = desired /\ goal' \in {goal, desired} /\ used'["deploy"] = used["deploy"]
    <2>1. /\ (Exists \cup {desired, goal})' \subseteq {First, r}
          /\ \/ site'.images \subseteq {First, r}
             \/ site'.max["deploy"] <= 1 /\ (used'["deploy"] = 0 => r = First)
      BY <1>1, <1>2, <1>3, <1>4
    <2> QED
      BY <2>1 DEF Pair
  <1>5. ASSUME NEW d \in site.images, desired' = d, goal' = goal, Once("deploy")
        PROVE  Pair'
    <2>1. CASE site.images \subseteq {First, r}
      <3>1. (Exists \cup {desired, goal})' \subseteq {First, r} /\ site'.images \subseteq {First, r}
        BY <1>1, <1>2, <1>3, <1>5, <2>1
      <3> QED
        BY <3>1 DEF Pair
    <2>2. CASE site.max["deploy"] <= 1 /\ (used["deploy"] = 0 => r = First)
      <3>1. used["deploy"] \in Nat /\ used["deploy"] < site.max["deploy"] /\ site.max["deploy"] \in Nat
            /\ used'["deploy"] = used["deploy"] + 1 /\ d \in Releases
        BY <1>5, SiteAssumption DEF Once, Kinds, Inv, Typed, SiteType, Events
      <3>2. r = First /\ used'["deploy"] # 0
        BY <2>2, <3>1
      <3>3. (Exists \cup {desired, goal})' \subseteq {First, d}
        BY <1>2, <1>3, <1>5, <3>2
      <3>4. /\ (Exists \cup {desired, goal})' \subseteq {First, d}
            /\ site'.max["deploy"] <= 1 /\ (used'["deploy"] = 0 => d = First)
        BY <1>1, <2>2, <3>2, <3>3
      <3> QED
        BY <3>1, <3>4 DEF Pair
    <2> QED
      BY <1>2, <2>1, <2>2
  <1> QED
    BY <1>4, <1>5, NamesKept

LEMMA PairHolds == Spec => []Pair
  <1>1. Init => Pair
    <2> SUFFICES ASSUME Init, TwoReleases(site) PROVE Pair
      BY DEF Pair
    <2>1. Exists = {First} /\ desired = First /\ goal = First /\ used["deploy"] = 0
      BY InitialCont, ReleaseAssumption DEF Init, Exists, Events
    <2>2. CASE site.max["deploy"] <= 1
      BY <2>1, <2>2, ReleaseAssumption DEF Pair
    <2>3. CASE \E r \in Releases : site.images \subseteq {First, r}
      BY <2>1, <2>3 DEF Pair
    <2> QED
      BY <2>2, <2>3 DEF TwoReleases
  <1> QED
    BY <1>1, KindsHold, PairStep, PTL DEF Spec

\* With the candidate there is one other release, so what Prune keeps is what serves.
LEMMA PruneKeepsIt ==
  ASSUME Pair, TwoReleases(site), NEW r \in Serving
  PROVE  Newest(Stale \cap ListedUp) \in proven \cap Up
  <1>1. PICK x : Exists \cup {goal} \subseteq {First, x}
    BY DEF Pair
  <1>2. r \in Up /\ r \in Exists /\ r \in proven /\ r # goal
    BY DEF Serving, Up, Exists
  <1>3. Stale \cap ListedUp = {r}
    BY <1>1, <1>2 DEF Stale, ListedUp, Up, Exists
  <1>4. Newest({r}) = r
    <2>1. \A s \in {r} \ {r} : <<s, r>> \in born
      OBVIOUS
    <2> QED
      BY <2>1 DEF Newest
  <1> QED
    BY <1>2, <1>3, <1>4

\* As long as there are two releases, no failed deploy ends the one that serves, whatever dies, fails
\* or restarts: it dies, or is retired behind one that was ready or whose check a failed read skipped.
THEOREM ServingKeptOfTwo ==
  Spec => [][TwoReleases(site) /\ (~StopFirst \/ KeepsOne) => \A r \in Serving :
                cont'[r] # "up" /\ (proven \cap Up)' = {} =>
                    \/ Dies(r)
                    \/ pc \in {"retire", "steady"} /\ goal \in proven
                    \/ pc = "steady" /\ used["blind"] > 0]_vars
  <1> DEFINE Kept == TwoReleases(site) /\ (~StopFirst \/ KeepsOne) => \A r \in Serving :
                       cont'[r] # "up" /\ (proven \cap Up)' = {} =>
                           \/ Dies(r)
                           \/ pc \in {"retire", "steady"} /\ goal \in proven
                           \/ pc = "steady" /\ used["blind"] > 0
  <1>1. Kinds /\ Ready /\ Pair /\ [Next]_vars => [Kept]_vars
    BY ServingStep, PruneKeepsIt DEF Parks, Ends
  <1>2. Spec => [][Next]_vars
    BY DEF Spec
  <1> QED
    BY <1>1, <1>2, KindsHold, PairHolds, PTL

=============================================================================
