----------------------------- MODULE MCKeyQueue -----------------------------
(* Small instances of KeyQueue for TLC. *)
EXTENDS KeyQueue, TLC

\* Apps and workers are interchangeable: no safety property names one.
KeySymmetry == Permutations(Keys) \cup Permutations(Workers)

\* Liveness is about apps that stay: nothing is created or deleted, so a name
\* can leave the queue only by being taken.
SteadySpec == Init /\ apps = Keys /\ [][Next /\ UNCHANGED apps]_vars /\ Fairness
=============================================================================
