--------------------------- MODULE MCNodeFailure ----------------------------
(* Small instances of NodeFailure for TLC. *)
EXTENDS NodeFailure

Bounds(flaps, apis, waits, moves, crashes, calls, saves, fences) ==
    [flap |-> flaps, api |-> apis, wait |-> waits, move |-> moves, crash |-> crashes,
     call |-> calls, save |-> saves, fence |-> fences]

Site(auto, overlap, max) == [auto |-> auto, overlap |-> overlap, max |-> max]

\* The tick alone with failing calls; an operator's calls between the ticks;
\* an app the operator moves, or places back while the node recovers; calls
\* of the API beside a tick; a restart and a failed save.
SafeSites == {Site(TRUE, FALSE, Bounds(2, 0, 0, 0, 0, 1, 0, 1)),
              Site(FALSE, FALSE, Bounds(1, 2, 0, 0, 0, 1, 0, 1)),
              Site(FALSE, FALSE, Bounds(2, 0, 1, 0, 0, 0, 0, 0)),
              Site(TRUE, FALSE, Bounds(1, 0, 0, 1, 0, 0, 0, 0)),
              Site(TRUE, TRUE, Bounds(1, 1, 0, 0, 0, 0, 0, 0)),
              Site(TRUE, FALSE, Bounds(1, 0, 0, 0, 0, 0, 2, 0)),
              Site(TRUE, FALSE, Bounds(1, 0, 0, 1, 1, 0, 0, 1))}
=============================================================================
