----------------------------- MODULE MCHandoff ------------------------------
(* Small instances of Handoff for TLC. *)
EXTENDS Handoff

CONSTANTS a, b, c

\* How often each event of SiteType happens at most.
Bounds(deploys, deaths, crashes, faults, stuck, blind, drifts) ==
    [deploy |-> deploys, death |-> deaths, crash |-> crashes,
     fault |-> faults, stuck |-> stuck, blind |-> blind, drift |-> drifts]

\* b is the release that is never ready.
Site(mode, defers, keepsOne, images, max) ==
    [mode |-> mode, defers |-> defers, keepsOne |-> keepsOne,
     images |-> images, bad |-> {b}, max |-> max]

\* No pinned port, three releases, and a read that fails.
Overlap == Site("overlap", TRUE, FALSE, Releases, Bounds(2, 0, 0, 0, 0, 1, 0))

\* No pinned port, a death, a restart of the control plane, a failed removal.
Again == Site("overlap", TRUE, FALSE, {a, b}, Bounds(2, 1, 1, 0, 1, 0, 0))

\* One reconcile worker: the pass itself waits for the candidate.
Waits == Site("overlap", FALSE, FALSE, {a, b}, Bounds(2, 1, 0, 1, 0, 0, 0))

\* A pinned port: the serving release stops before the candidate starts.
Port == Site("port", TRUE, FALSE, {a, b}, Bounds(1, 1, 0, 1, 0, 0, 1))

\* The same with a way back to the first release, a failed start and a restart.
PortAgain == Site("port", TRUE, FALSE, {a, b}, Bounds(2, 0, 1, 1, 0, 0, 0))

\* A pinned port, a stop and a read that fail, and a restart.
PortFails == Site("port", TRUE, FALSE, {a, b}, Bounds(1, 0, 1, 0, 1, 1, 0))

\* A pinned port, and a policy that forbids an app without replica.
Floor == Site("port", TRUE, TRUE, {a, b}, Bounds(2, 1, 1, 0, 0, 0, 0))

\* A volume that has one writer.
Data == Site("data", TRUE, FALSE, {a, b}, Bounds(2, 1, 0, 0, 0, 0, 0))

AllSites == {Overlap, Again, Waits, Port, PortAgain, PortFails, Floor, Data}
=============================================================================
