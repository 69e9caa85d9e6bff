----------------------------- MODULE EngineLoop -----------------------------
(***************************************************************************)
(* Engine.Run (internal/reconcile/engine.go): the one goroutine that makes *)
(* reconcile passes, the ways to trigger a pass (resync ticker, Docker     *)
(* event, Nudge, deferred timer), the global pass budget of the storm      *)
(* guard (guard.go: bucket, AllowPass) and the requeue back-off            *)
(* (requeue.go).                                                           *)
(*                                                                         *)
(* Time is discrete: one Clock step is one millisecond, and every timer    *)
(* holds the time it has left, or Off.  The bucket counts in Unit-ths of a *)
(* token: it gains one part per step and a pass costs Unit parts.          *)
(*                                                                         *)
(* Desired state is a version number, so that "this pass has seen that     *)
(* write" can be said.                                                     *)
(***************************************************************************)
EXTENDS Integers

CONSTANTS
    Burst,       \* GuardConfig.PassBurst
    Unit,        \* steps per token: 1000 / GuardConfig.PassesPerSec
    Resync,      \* resyncInterval
    BootDelays,  \* e.bootDelays, the positive ones
    FirstEvent,  \* e.firstEventDelay, 0 when unset
    Base,        \* the RequeueAfter a controller asks for
    Limit,       \* APP_RECONCILE_REQUEUE_MAX
    Drain,       \* e.drainTimeout, 0 when unset
    MaxWrites,   \* bound: desired-state writes
    MaxEvents    \* bound: Docker events

ASSUME BudgetAssumption == Burst \in Nat \ {0} /\ Unit \in Nat \ {0}

ASSUME TimerAssumption ==
    /\ Resync \in Nat \ {0} /\ BootDelays \subseteq Nat \ {0} /\ FirstEvent \in Nat
    /\ Base \in Nat \ {0} /\ Limit \in Nat \ {0} /\ Drain \in Nat

ASSUME BoundAssumption == MaxWrites \in Nat /\ MaxEvents \in Nat

VARIABLES
    desired,     \* version of the desired state in the store
    owed,        \* API calls that have written but not nudged yet
    stream,      \* the event channel: "open", "closed", "nil" (Run has noticed)
    sent,        \* Docker events sent so far
    nudge,       \* the nudge channel holds a value
    tick,        \* ticker.C holds a value
    events,      \* Docker events not read yet
    tickLeft,    \* time to the next resync tick
    alarms,      \* time left of every AfterFunc(_, e.Nudge)
    deferLeft,   \* time left of deferTimer; Off when deferC is nil
    cutLeft,     \* time left before a pass that outlives its context is cut
    tokens,      \* guard.global.tokens, in parts of a token
    backoff,     \* Base doubled e.requeue.streak times, until it reaches Limit
    firstSeen,   \* firstEventSeen
    loop,        \* Run: "boot", "bootpass", "select", "pass", "stopped"
    ctx,         \* Run's context: "live" or "done"
    cut,         \* the running pass's own context is cancelled
    seen,        \* the desired version the last pass to begin could see
    asked        \* history: a run asked for a requeue and no pass has begun since

envVars == <<desired, owed, stream, sent>>
chanVars == <<nudge, tick, events>>
timerVars == <<tickLeft, alarms, deferLeft, cutLeft>>
guardVars == <<tokens, backoff>>
loopVars == <<firstSeen, loop, ctx, cut, seen, asked>>
vars == <<envVars, chanVars, timerVars, guardVars, loopVars>>

Off == -1

InPass == loop \in {"bootpass", "pass"}

\* A full bucket, in parts of a token.
Capacity == Burst * Unit

-----------------------------------------------------------------------------
Init ==
    /\ desired = 0 /\ owed = 0 /\ stream = "open" /\ sent = 0
    /\ nudge = FALSE /\ tick = FALSE /\ events = 0
    /\ tickLeft = Off /\ alarms = {} /\ deferLeft = Off /\ cutLeft = Off
    /\ tokens = Capacity /\ backoff = Base
    /\ firstSeen = FALSE /\ loop = "boot" /\ ctx = "live" /\ cut = FALSE
    /\ seen = -1 /\ asked = FALSE

-----------------------------------------------------------------------------
(* The pass budget and the back-off.                                       *)

\* Mutant of Refill: the burst is no cap.
RefillUncapped == tokens + 1

\* bucket.refill over one step, capped at the burst.
Refill == IF tokens < Capacity THEN tokens + 1 ELSE tokens

\* bucket.take finds a whole token.
Affordable == tokens >= Unit

\* AllowPass's wait: the missing part of a token, and one millisecond.
PassWait == Unit - tokens + 1

\* The delay of a requeue request: capped.
RequeueDelay == IF backoff > Limit THEN Limit ELSE backoff

\* One more request in a row doubles the next delay, up to the cap.
NextBackoff == IF backoff < Limit THEN 2 * backoff ELSE backoff

-----------------------------------------------------------------------------
(* The outside: API calls, Docker, the health page, SIGTERM.               *)

\* An API handler changes desired state; it nudges when it is done.
Write ==
    /\ desired < MaxWrites
    /\ desired' = desired + 1
    /\ owed' = owed + 1
    /\ UNCHANGED <<stream, sent, chanVars, timerVars, guardVars, loopVars>>

\* Engine.Nudge: a full channel already holds a wake-up.
Nudge ==
    /\ owed > 0
    /\ owed' = owed - 1
    /\ nudge' = TRUE
    /\ UNCHANGED <<desired, stream, sent, tick, events, timerVars, guardVars, loopVars>>

DockerEvent ==
    /\ stream = "open" /\ sent < MaxEvents
    /\ sent' = sent + 1
    /\ events' = events + 1
    /\ UNCHANGED <<desired, owed, stream, nudge, tick, timerVars, guardVars, loopVars>>

StreamCloses ==
    /\ stream = "open"
    /\ stream' = "closed"
    /\ UNCHANGED <<desired, owed, sent, chanVars, timerVars, guardVars, loopVars>>

\* Guard.Reset(""): the health page's Fix refills the budget.
ResetBudget ==
    /\ tokens' = Capacity
    /\ UNCHANGED <<envVars, chanVars, timerVars, backoff, loopVars>>

\* Mutant of Cancel: the pass runs on Run's own context.
CancelCuts ==
    /\ ctx = "live"
    /\ ctx' = "done"
    /\ cutLeft' = IF InPass /\ Drain > 0 THEN Drain ELSE Off
    /\ cut' = InPass
    /\ UNCHANGED <<envVars, chanVars, tickLeft, alarms, deferLeft, guardVars, firstSeen, loop, seen, asked>>

\* Run's context ends; a running pass may go on for Drain, or is cut at once.
Cancel ==
    /\ ctx = "live"
    /\ ctx' = "done"
    /\ cutLeft' = IF InPass /\ Drain > 0 THEN Drain ELSE Off
    /\ cut' = (InPass /\ Drain = 0)
    /\ UNCHANGED <<envVars, chanVars, tickLeft, alarms, deferLeft, guardVars, firstSeen, loop, seen, asked>>

\* Time.  A full ticker channel drops the tick.
Clock ==
    /\ loop # "stopped"
    /\ tokens' = Refill
    /\ tickLeft' = IF tickLeft = 1 THEN Resync ELSE IF tickLeft = Off THEN Off ELSE tickLeft - 1
    /\ tick' = (tick \/ tickLeft = 1)
    /\ alarms' = {IF a > 0 THEN a - 1 ELSE 0 : a \in alarms}
    /\ deferLeft' = IF deferLeft > 0 THEN deferLeft - 1 ELSE deferLeft
    /\ cutLeft' = IF cutLeft > 0 THEN cutLeft - 1 ELSE cutLeft
    /\ cut' = (cut \/ cutLeft = 1)
    /\ UNCHANGED <<envVars, nudge, events, backoff, firstSeen, loop, ctx, seen, asked>>

-----------------------------------------------------------------------------
(* Controller runs, inline in a pass or on the keyed pool.                 *)

\* Mutant of RunAsks: a repeated request counts on the timer of the first one.
RunAsksOnce ==
    /\ seen >= 0 /\ loop # "stopped"
    /\ alarms' = IF backoff = Base THEN alarms \cup {RequeueDelay} ELSE alarms
    /\ backoff' = NextBackoff
    /\ asked' = TRUE
    /\ UNCHANGED <<envVars, chanVars, tickLeft, deferLeft, cutLeft, tokens, firstSeen, loop, ctx, cut, seen>>

\* runOne ends and calls scheduleRequeue: the back-off doubles per request.
RunAsks ==
    /\ seen >= 0 /\ loop # "stopped"
    /\ alarms' = alarms \cup {RequeueDelay}
    /\ backoff' = NextBackoff
    /\ asked' = TRUE
    /\ UNCHANGED <<envVars, chanVars, tickLeft, deferLeft, cutLeft, tokens, firstSeen, loop, ctx, cut, seen>>

\* A run that asks for nothing resets the back-off; timers already set stay.
RunContent ==
    /\ seen >= 0 /\ loop # "stopped"
    /\ backoff' = Base
    /\ UNCHANGED <<envVars, chanVars, timerVars, tokens, loopVars>>

\* An AfterFunc runs Nudge.
AlarmNudges ==
    /\ 0 \in alarms
    /\ alarms' = alarms \ {0}
    /\ nudge' = TRUE
    /\ UNCHANGED <<envVars, tick, events, tickLeft, deferLeft, cutLeft, guardVars, loopVars>>

-----------------------------------------------------------------------------
(* The Run goroutine.                                                      *)

\* pass(): the source will see every write made so far.  When the context has
\* ended already, the pass's drain time starts with it.
PassBegins(l) ==
    /\ loop' = l
    /\ seen' = desired
    /\ asked' = FALSE
    /\ cutLeft' = IF ctx = "done" /\ Drain > 0 THEN Drain ELSE Off
    /\ cut' = (ctx = "done" /\ Drain = 0)

\* trigger(): begin a pass and drop the deferred one, or defer, once.
Trigger ==
    IF Affordable
    THEN tokens' = tokens - Unit /\ deferLeft' = Off /\ PassBegins("pass")
    ELSE /\ deferLeft' = IF deferLeft = Off THEN PassWait ELSE deferLeft
         /\ UNCHANGED <<tokens, loop, seen, asked, cutLeft, cut>>

\* Run's first pass is not taken from the budget.
FirstPass ==
    /\ loop = "boot"
    /\ PassBegins("bootpass")
    /\ UNCHANGED <<envVars, chanVars, tickLeft, alarms, deferLeft, guardVars, firstSeen, ctx>>

\* A pass ends; after the first one Run sets the boot timers and the ticker.
PassEnds ==
    /\ InPass
    /\ loop' = "select"
    /\ cutLeft' = Off
    /\ cut' = FALSE
    /\ IF loop = "bootpass"
       THEN alarms' = alarms \cup BootDelays /\ tickLeft' = Resync
       ELSE UNCHANGED <<alarms, tickLeft>>
    /\ UNCHANGED <<envVars, chanVars, deferLeft, guardVars, firstSeen, ctx, seen, asked>>

OnTick ==
    /\ loop = "select" /\ tick
    /\ tick' = FALSE
    /\ Trigger
    /\ UNCHANGED <<envVars, nudge, events, tickLeft, alarms, backoff, firstSeen, ctx>>

OnNudge ==
    /\ loop = "select" /\ nudge
    /\ nudge' = FALSE
    /\ Trigger
    /\ UNCHANGED <<envVars, tick, events, tickLeft, alarms, backoff, firstSeen, ctx>>

\* The deferred timer: deferC becomes nil before trigger looks at it.
OnDeferred ==
    /\ loop = "select" /\ deferLeft = 0
    /\ IF Affordable
       THEN tokens' = tokens - Unit /\ deferLeft' = Off /\ PassBegins("pass")
       ELSE deferLeft' = PassWait /\ UNCHANGED <<tokens, loop, seen, asked, cutLeft, cut>>
    /\ UNCHANGED <<envVars, chanVars, tickLeft, alarms, backoff, firstSeen, ctx>>

\* A Docker event; the first one also schedules a nudge.
OnEvent ==
    /\ loop = "select" /\ events > 0
    /\ events' = events - 1
    /\ firstSeen' = TRUE
    /\ alarms' = IF ~firstSeen /\ FirstEvent > 0 THEN alarms \cup {FirstEvent} ELSE alarms
    /\ Trigger
    /\ UNCHANGED <<envVars, nudge, tick, tickLeft, backoff, ctx>>

\* The stream is drained and closed: Run goes on without it.
OnStreamClosed ==
    /\ loop = "select" /\ stream = "closed" /\ events = 0
    /\ stream' = "nil"
    /\ UNCHANGED <<desired, owed, sent, chanVars, timerVars, guardVars, loopVars>>

\* Mutant of OnDone: Run returns only once the event stream has ended too.
OnDoneWithStream ==
    /\ loop = "select" /\ ctx = "done" /\ stream = "nil"
    /\ loop' = "stopped"
    /\ deferLeft' = Off
    /\ UNCHANGED <<envVars, chanVars, tickLeft, alarms, cutLeft, guardVars, firstSeen, ctx, cut, seen, asked>>

\* ctx.Done: stop the pool and return; the deferred timer is stopped.
OnDone ==
    /\ loop = "select" /\ ctx = "done"
    /\ loop' = "stopped"
    /\ deferLeft' = Off
    /\ UNCHANGED <<envVars, chanVars, tickLeft, alarms, cutLeft, guardVars, firstSeen, ctx, cut, seen, asked>>

-----------------------------------------------------------------------------
Outside == Write \/ Nudge \/ DockerEvent \/ StreamCloses \/ ResetBudget \/ Cancel

Runs == RunAsks \/ RunContent \/ AlarmNudges

Run == \/ FirstPass \/ PassEnds
       \/ OnTick \/ OnNudge \/ OnDeferred \/ OnEvent \/ OnStreamClosed \/ OnDone

Next == Outside \/ Clock \/ Runs \/ Run

\* Handlers reach their Nudge, time passes, passes end, and the select, which
\* picks a ready case at random, picks each one in the end.  Nothing below
\* rests on its picking a tick or an event.
Fairness ==
    /\ WF_vars(Nudge) /\ WF_vars(Clock)
    /\ WF_vars(FirstPass) /\ WF_vars(PassEnds)
    /\ SF_vars(OnNudge) /\ SF_vars(OnDeferred) /\ SF_vars(OnStreamClosed) /\ SF_vars(OnDone)

Spec == Init /\ [][Next]_vars

FairSpec == Spec /\ Fairness

-----------------------------------------------------------------------------
(* Properties.                                                             *)

\* The types of the variables.
TypeOK ==
    /\ desired \in 0..MaxWrites /\ owed \in 0..desired
    /\ stream \in {"open", "closed", "nil"} /\ sent \in 0..MaxEvents
    /\ nudge \in BOOLEAN /\ tick \in BOOLEAN /\ events \in 0..sent
    /\ tickLeft \in 1..Resync \cup {Off}
    /\ alarms \subseteq Nat
    /\ deferLeft \in 0..(Unit + 1) \cup {Off}
    /\ cutLeft \in 0..Drain \cup {Off}
    /\ tokens \in 0..(Capacity) /\ backoff \in Nat \ {0}
    /\ firstSeen \in BOOLEAN
    /\ loop \in {"boot", "bootpass", "select", "pass", "stopped"}
    /\ ctx \in {"live", "done"} /\ cut \in BOOLEAN
    /\ seen \in -1..MaxWrites /\ asked \in BOOLEAN

\* "level-triggered, so nothing is lost" (Run): while a write is not yet covered
\* by a pass that began after it, a wake-up for it is on its way: its handler is
\* about to nudge, the channel is full, a deferred pass is pending, or Run has
\* not begun.  This is what a nudge taken from the channel during a refused
\* trigger, or a deferred timer dropped without a pass, would break.
NoLostWrite ==
    \/ desired = seen
    \/ owed > 0 \/ nudge \/ deferLeft # Off
    \/ loop \in {"boot", "stopped"}

\* The same for a run that asked to be looked at again: some timer, the channel
\* or the deferred pass still carries the request until a pass begins.
NoLostRequeue ==
    asked => alarms # {} \/ nudge \/ deferLeft # Off \/ loop = "stopped"

\* The wait AllowPass computes is long enough: when the deferred timer fires, a
\* token is there, however long the loop was busy, so one deferral is enough.
DeferralSuffices == deferLeft # Off => tokens + deferLeft >= Unit

\* Run: no wake-up is lost, and one deferral is enough to carry it over the pass budget.
NothingLost == NoLostWrite /\ NoLostRequeue /\ DeferralSuffices

\* "finish, for at most d, instead of being cut mid-operation" (SetDrainTimeout):
\* whether the context ends before, during or between passes, a pass's own
\* context is cancelled only once its whole drain time has passed.
CutOnlyAfterDrain == cut => ctx = "done" /\ (Drain = 0 \/ cutLeft = 0)

\* Every write is seen by a pass that begins after it, or Run stops.
WriteSeen == \A v \in 1..MaxWrites : (desired >= v) ~> (seen >= v \/ loop = "stopped")

\* A cancelled Run returns.
CancelStops == (ctx = "done") ~> (loop = "stopped")

\* Run never hangs: it sees what was written, and it returns when it is told to.
RunGoesOn == WriteSeen /\ CancelStops
=============================================================================
