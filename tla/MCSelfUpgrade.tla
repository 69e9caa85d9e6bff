---------------------------- MODULE MCSelfUpgrade -----------------------------
(* Small instances of SelfUpgrade: one upgrade of a release of every kind. *)
EXTENDS SelfUpgrade

Bound(kill, power, op, cancel, retry, skip) ==
    [kill |-> kill, power |-> power, op |-> op, cancel |-> cancel, retry |-> retry, skip |-> skip]

\* A recovery that is killed too, under a failed call; a power cut after a kill; the
\* operator's choices.
MCSites ==
    [kind : Kinds, max : {Bound(2, 0, 0, 0, 0, 0), Bound(1, 0, 1, 0, 0, 0), Bound(1, 1, 0, 0, 0, 0),
                          Bound(0, 0, 0, 1, 1, 1)}]

LossSites == [kind : {"good", "migration"}, max : {Bound(1, 1, 0, 0, 0, 0)}]
=============================================================================
