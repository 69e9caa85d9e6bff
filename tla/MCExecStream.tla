---------------------------- MODULE MCExecStream -----------------------------
(* Small instances of ExecStream for TLC. *)
EXTENDS ExecStream

Bound(l, c, a) == [link |-> l, close |-> c, attach |-> a]

\* How the caller's input ends: none is attached, a clean end, a read error.
Site(chunks, input, ending, reads, max) ==
    [out |-> chunks, in |-> input, stdin |-> ending # "absent", broken |-> ending = "error",
     reads |-> reads, max |-> max]

\* Output past the window; input past the window, clean or broken; both.
MCSites ==
    {Site(7, 0, "absent", FALSE, Bound(1, 1, 1)), Site(1, 5, "eof", TRUE, Bound(1, 0, 0)),
     Site(0, 4, "error", TRUE, Bound(1, 1, 0)), Site(5, 1, "error", FALSE, Bound(0, 0, 0))}
=============================================================================
