----------------------------- MODULE ExecPromise -----------------------------
(***************************************************************************)
(* What a remote exec promises its two ends: a pipe each way that neither  *)
(* drops nor reorders, and a clean end of file only after everything that  *)
(* was written before it: a command that works on its whole input ends     *)
(* well only when it was given all of it.                                  *)
(***************************************************************************)
EXTENDS Naturals, Sequences

VARIABLES
    made,     \* frames the command has written
    got,      \* the frames the caller has read, by number
    exited,   \* the command has exited by itself
    end,      \* how the caller's stream ended: "none", "eof" or another reason
    sent,     \* frames the caller's input has produced
    written,  \* the frames the command has been given
    drained,  \* the input ended cleanly
    reads,    \* the command reads its input to the end
    input     \* how the command's input ended: "none", "eof" or another reason

vars == <<made, got, exited, end, sent, written, drained, reads, input>>

Init ==
    /\ made = 0 /\ got = <<>> /\ exited = FALSE /\ end = "none"
    /\ sent = 0 /\ written = <<>> /\ drained = FALSE /\ input = "none"
    /\ reads \in BOOLEAN

Complete ==
    /\ exited /\ Len(got) = made
    /\ reads => drained /\ Len(written) = sent

Output ==
    \/ /\ ~exited /\ made' = made + 1 /\ UNCHANGED <<got, exited, end>>
    \/ /\ Len(got) < made /\ got' = Append(got, Len(got) + 1) /\ UNCHANGED <<made, exited, end>>
    \/ /\ exited' = TRUE /\ UNCHANGED <<made, got, end>>
    \/ /\ end = "none"
       /\ end' \in {"failure", "refused", "cancelled", "session"}
             \cup IF Complete THEN {"eof"} ELSE {}
       /\ UNCHANGED <<made, got, exited>>

Input ==
    \/ /\ ~drained /\ sent' \in {sent, sent + 1} /\ drained' \in BOOLEAN
       /\ UNCHANGED <<written, input>>
    \/ /\ Len(written) < sent /\ written' = Append(written, Len(written) + 1)
       /\ UNCHANGED <<sent, drained, input>>
    \/ /\ input = "none"
       /\ input' \in {"broken"} \cup IF drained /\ Len(written) = sent THEN {"eof"} ELSE {}
       /\ UNCHANGED <<sent, written, drained>>

Next ==
    \/ (Output /\ UNCHANGED <<sent, written, drained, reads, input>>)
    \/ (Input /\ UNCHANGED <<made, got, exited, end, reads>>)

Spec == Init /\ [][Next]_vars
=============================================================================
