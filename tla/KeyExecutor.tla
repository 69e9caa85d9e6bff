---------------------------- MODULE KeyExecutor -----------------------------
(***************************************************************************)
(* What the keyed pool promises the engine, in the words of keyQueue's own *)
(* comments and without workers, locks, conditions or an order: a name is  *)
(* wanted or not, and in a run or not; "at most one in flight per name";   *)
(* a name added while in flight "runs once more after the current run";    *)
(* retain forgets what is wanted no more and ends its runs; close takes no *)
(* more work.  KeyQueue implements this specification.                     *)
(***************************************************************************)
CONSTANT Keys

VARIABLES
    wanted,  \* names with a run coming
    busy,    \* names in a run
    ended,   \* the busy names whose run must stop: its context has ended
    open     \* work is accepted

vars == <<wanted, busy, ended, open>>

Init == wanted = {} /\ busy = {} /\ ended = {} /\ open = TRUE

\* add and requeue: one more run, however often it is asked for.
Want(k) ==
    /\ open
    /\ wanted' = wanted \cup {k}
    /\ UNCHANGED <<busy, ended, open>>

\* next: a wanted name that is not in a run begins one, with a context of its own.
Begin(k) ==
    /\ open
    /\ k \in wanted \ busy
    /\ wanted' = wanted \ {k}
    /\ busy' = busy \cup {k}
    /\ UNCHANGED <<ended, open>>

\* The deadline of a run, or the end of the drain for all of them.
EndContexts(S) ==
    /\ S \subseteq busy
    /\ ended' = ended \cup S
    /\ UNCHANGED <<wanted, busy, open>>

\* worker: the run is over, and the name may run again.
Finish(k) ==
    /\ k \in busy
    /\ busy' = busy \ {k}
    /\ ended' = ended \ {k}
    /\ UNCHANGED <<wanted, open>>

\* retain: only the live names are still wanted, and only they may go on.
Retain(names) ==
    /\ wanted' = wanted \cap names
    /\ ended' = ended \cup (busy \ names)
    /\ UNCHANGED <<busy, open>>

\* close: nothing is wanted any more.
Close ==
    /\ open
    /\ open' = FALSE
    /\ wanted' = {}
    /\ UNCHANGED <<busy, ended>>

Next ==
    \/ \E k \in Keys : Want(k) \/ Begin(k) \/ Finish(k)
    \/ \E S \in SUBSET Keys : EndContexts(S) \/ Retain(S)
    \/ Close

Spec == Init /\ [][Next]_vars
=============================================================================
