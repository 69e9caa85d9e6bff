------------------------------ MODULE Breaker -------------------------------
(***************************************************************************)
(* The per-controller half of the storm guard (internal/reconcile/guard.go:*)
(* Before, After, Reset): a token bucket and a circuit breaker in front of *)
(* the runs of one controller.  Runs of one controller never overlap (see  *)
(* KeyQueue), but a Reset from the API may come in the middle of one.      *)
(*                                                                         *)
(* Time is discrete and relative: openLeft is what is left until openUntil,*)
(* and the bucket counts in parts of a token, TokenTime of them to a whole *)
(* one, and gains one per clock step.                                      *)
(* The code computes the wait of a failure by doubling BreakerBase once    *)
(* per failure past the threshold; here nextWait is that product, carried  *)
(* along, so the failure counter need not grow past the threshold.         *)
(***************************************************************************)
EXTENDS Integers

CONSTANTS
    Threshold,   \* GuardConfig.BreakerFailures
    BreakerBase, \* GuardConfig.BreakerBase
    BreakerMax,  \* GuardConfig.BreakerMax
    ResourceBurst, \* GuardConfig.ResourceBurst
    TokenTime,   \* steps per token: 1 / GuardConfig.ResourcePerSec
    MaxFails     \* bound: failures in a row the history counts

ASSUME BreakerAssumption ==
    Threshold \in Nat \ {0} /\ BreakerBase \in Nat \ {0} /\ BreakerMax \in Nat \ {0}

ASSUME BucketAssumption == ResourceBurst \in Nat \ {0} /\ TokenTime \in Nat \ {0}

ASSUME MaxFailsAssumption == MaxFails \in Nat /\ MaxFails >= Threshold

VARIABLES
    state,     \* "closed", "open", "half_open"
    failures,  \* failures in a row, up to Threshold
    nextWait,  \* BreakerBase doubled once per failure past the threshold
    openLeft,  \* time left until openUntil
    bucket,    \* the token bucket, in parts of a token
    run,       \* the controller: "idle", "running"
    fails,     \* history: failures since the last success or Reset, up to MaxFails
    quiet,     \* history: time since the last failure, up to BreakerMax
    fresh      \* history: a Reset came and no run has begun since

breakerVars == <<state, failures, nextWait, openLeft, bucket, run, fails, quiet, fresh>>

\* A full bucket, in parts of a token.
BucketSize == ResourceBurst * TokenTime

BreakerInit ==
    /\ state = "closed" /\ failures = 0 /\ nextWait = BreakerBase /\ openLeft = 0
    /\ bucket = BucketSize
    /\ run = "idle"
    /\ fails = 0 /\ quiet = BreakerMax /\ fresh = FALSE

-----------------------------------------------------------------------------
\* The breaker lets a run through: closed, half open, or open for long enough.
Passable == state # "open" \/ openLeft = 0

\* state after Before: an open breaker whose time has come turns half open.
Probed == IF state = "open" THEN "half_open" ELSE state

\* bucket.take finds a whole token.
HasToken == bucket >= TokenTime

\* The wait of a failure at or past the threshold, capped.
FailureWait == IF nextWait > BreakerMax THEN BreakerMax ELSE nextWait

\* Mutant of Doubled: the loop stops one doubling early.
DoubledOnce == IF 2 * nextWait < BreakerMax THEN 2 * nextWait ELSE nextWait

\* The wait of the failure after it.
Doubled == IF nextWait < BreakerMax THEN 2 * nextWait ELSE nextWait

-----------------------------------------------------------------------------
\* Before refuses because the breaker is open: nothing but a counter changes,
\* so there is no action for it.  Before refuses for want of a token: a probe
\* that was due stays due.
BeforeThrottled ==
    /\ run = "idle"
    /\ Passable /\ ~HasToken
    /\ state' = Probed
    /\ UNCHANGED <<failures, nextWait, openLeft, bucket, run, fails, quiet, fresh>>

\* Mutant of BeforeRuns: only a closed breaker lets a run through.
BeforeRunsClosedOnly ==
    /\ run = "idle"
    /\ state = "closed" /\ HasToken
    /\ bucket' = bucket - TokenTime
    /\ run' = "running"
    /\ fresh' = FALSE
    /\ UNCHANGED <<state, failures, nextWait, openLeft, fails, quiet>>

\* Before lets the run begin.
BeforeRuns ==
    /\ run = "idle"
    /\ Passable /\ HasToken
    /\ state' = Probed
    /\ bucket' = bucket - TokenTime
    /\ run' = "running"
    /\ fresh' = FALSE
    /\ UNCHANGED <<failures, nextWait, openLeft, fails, quiet>>

\* After a run without error.
AfterSuccess ==
    /\ run = "running"
    /\ run' = "idle"
    /\ state' = "closed" /\ failures' = 0 /\ nextWait' = BreakerBase /\ openLeft' = 0
    /\ fails' = 0
    /\ UNCHANGED <<bucket, quiet, fresh>>

\* After an error or a panic: count, and at the threshold open for the wait.
AfterFailure ==
    /\ run = "running"
    /\ run' = "idle"
    /\ fails' = IF fails < MaxFails THEN fails + 1 ELSE fails
    /\ quiet' = 0
    /\ IF failures + 1 < Threshold
       THEN failures' = failures + 1 /\ UNCHANGED <<state, nextWait, openLeft>>
       ELSE /\ failures' = Threshold
            /\ state' = "open"
            /\ openLeft' = FailureWait
            /\ nextWait' = Doubled
    /\ UNCHANGED <<bucket, fresh>>

\* Mutant of Reset: the bucket is left as it is.
ResetKeepsTokens ==
    /\ state' = "closed" /\ failures' = 0 /\ nextWait' = BreakerBase /\ openLeft' = 0
    /\ fails' = 0 /\ fresh' = TRUE
    /\ UNCHANGED <<bucket, run, quiet>>

\* Reset, from NudgeController or the health page, whatever the run is doing.
Reset ==
    /\ state' = "closed" /\ failures' = 0 /\ nextWait' = BreakerBase /\ openLeft' = 0
    /\ bucket' = BucketSize
    /\ fails' = 0 /\ fresh' = TRUE
    /\ UNCHANGED <<run, quiet>>

\* Mutant of BreakerClock: a bucket refilled without its cap.
ClockNoCap ==
    /\ openLeft' = IF openLeft > 0 THEN openLeft - 1 ELSE 0
    /\ bucket' = bucket + 1
    /\ quiet' = IF quiet < BreakerMax THEN quiet + 1 ELSE quiet
    /\ UNCHANGED <<state, failures, nextWait, run, fails, fresh>>

BreakerClock ==
    /\ openLeft' = IF openLeft > 0 THEN openLeft - 1 ELSE 0
    /\ bucket' = IF bucket < BucketSize THEN bucket + 1 ELSE bucket
    /\ quiet' = IF quiet < BreakerMax THEN quiet + 1 ELSE quiet
    /\ UNCHANGED <<state, failures, nextWait, run, fails, fresh>>

Before == BeforeThrottled \/ BeforeRuns

BreakerNext == Before \/ AfterSuccess \/ AfterFailure \/ Reset \/ BreakerClock

\* The resync tick asks Before again and again, time passes, and runs end.
BreakerFairness ==
    /\ WF_breakerVars(Before) /\ WF_breakerVars(BreakerClock)
    /\ WF_breakerVars(AfterSuccess \/ AfterFailure)

BreakerSpec == BreakerInit /\ [][BreakerNext]_breakerVars

BreakerFairSpec == BreakerSpec /\ BreakerFairness

-----------------------------------------------------------------------------
\* The types of the variables.
BreakerTypeOK ==
    /\ state \in {"closed", "open", "half_open"}
    /\ failures \in 0..Threshold
    /\ nextWait \in Nat \ {0}
    /\ openLeft \in 0..BreakerMax
    /\ bucket \in 0..BucketSize
    /\ run \in {"idle", "running"}
    /\ fails \in 0..MaxFails
    /\ quiet \in 0..BreakerMax
    /\ fresh \in BOOLEAN

\* What the n-th failure in a row costs, from the words of guard.go's fields:
\* nothing below the threshold, then BreakerBase doubling up to BreakerMax.
WaitAfter(n) ==
    IF n < Threshold THEN 0
    ELSE LET w == BreakerBase * 2 ^ (n - Threshold)
         IN IF w < BreakerMax THEN w ELSE BreakerMax

\* Storm protection: however throttling, probes and Resets interleave with the
\* runs, a controller that has failed n times in a row is left alone for the
\* whole wait its last failure earned.
BackoffHonoured ==
    [][run = "idle" /\ run' = "running" => quiet >= WaitAfter(fails)]_breakerVars

\* NudgeController exists to make retrying worthwhile now: from a Reset to the
\* first run after it, nothing keeps Before from letting that run through, not
\* even a run that was in flight when the Reset came and failed afterwards.
ResetHonoured == fresh => Passable /\ HasToken

\* A breaker is never stuck: an open one is probed in the end.
EventuallyProbed == (state = "open") ~> (run = "running" \/ state = "closed")
=============================================================================
