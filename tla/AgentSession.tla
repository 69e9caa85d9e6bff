---------------------------- MODULE AgentSession -----------------------------
(***************************************************************************)
(* The control plane's end of one node's sessions (internal/agent: Server  *)
(* .Session, Registry, mux), with the calls made over them.  An agent that *)
(* lost its connection dials again while the server may still hold the old *)
(* stream, so sessions of the same node overlap.  A call finds a transport *)
(* in the registry, registers with the multiplexer, sends its request and  *)
(* waits for an answer, for the end of the session or for its deadline.    *)
(***************************************************************************)
EXTENDS FiniteSets

CONSTANTS
    Sessions,   \* connections the agent makes, each once
    Calls,      \* calls to the node, each once
    Kicks,      \* bound: operator disconnects, a subset of Sessions
    NoSession   \* no session

ASSUME SessionAssumption == NoSession \notin Sessions /\ Kicks \subseteq Sessions

VARIABLES
    stage,     \* the handler of every session
    kicked,    \* the sessions whose kick channel is closed
    sessions,  \* Server.sessions of the node
    registry,  \* Registry.byID of the node
    status,    \* the node's status in the store
    broken,    \* the sessions whose stream ended for the receive loop
    mux,       \* every multiplexer: "none", "open", "closing", "closed"
    pending,   \* the calls every multiplexer knows
    taken,     \* the calls its shutdown is about to fail
    asked,     \* requests on their way to the node
    answered,  \* answers on their way back
    call       \* every call: where it is, its session, its channel

handlerVars == <<stage, kicked, sessions, registry, status>>
muxVars == <<broken, mux, pending, taken>>
vars == <<handlerVars, muxVars, asked, answered, call>>

Stages == {"idle", "online", "tracked", "serving", "leaving", "unregistered", "gone"}
Waits == {"idle", "found", "registered", "waiting"}
Results == {"ok", "closed", "unsent", "expired", "unregistered"}
MaySession == Sessions \cup {NoSession}

TypeOK ==
    /\ stage \in [Sessions -> Stages] /\ kicked \subseteq Sessions
    /\ sessions \in MaySession /\ registry \in MaySession /\ status \in {"online", "offline"}
    /\ broken \subseteq Sessions
    /\ mux \in [Sessions -> {"none", "open", "closing", "closed"}]
    /\ pending \in [Sessions -> SUBSET Calls] /\ taken \in [Sessions -> SUBSET Calls]
    /\ asked \in [Sessions -> SUBSET Calls] /\ answered \in [Sessions -> SUBSET Calls]
    /\ call \in [Calls -> [at : Waits \cup Results, on : MaySession,
                           chan : {"empty", "answer", "closed"}]]

NoCalls == [s \in Sessions |-> {}]

Init ==
    /\ stage = [s \in Sessions |-> "idle"] /\ kicked = {}
    /\ sessions = NoSession /\ registry = NoSession /\ status = "offline"
    /\ broken = {} /\ mux = [s \in Sessions |-> "none"] /\ pending = NoCalls /\ taken = NoCalls
    /\ asked = NoCalls /\ answered = NoCalls
    /\ call = [c \in Calls |-> [at |-> "idle", on |-> NoSession, chan |-> "empty"]]

Moves(s, from, to) == stage[s] = from /\ stage' = [stage EXCEPT ![s] = to]

-----------------------------------------------------------------------------
(* The handler of a session, Server.Session.                               *)

Connect(s) ==
    /\ Moves(s, "idle", "online") /\ status' = "online"
    /\ UNCHANGED <<kicked, sessions, registry, muxVars, asked, answered, call>>

\* Mutant of Track: there is always an older session.
TrackAlwaysOld(s) ==
    /\ Moves(s, "online", "tracked")
    /\ mux' = [mux EXCEPT ![s] = "open"]
    /\ sessions' = s /\ kicked' = kicked \cup {sessions}
    /\ UNCHANGED <<registry, status, broken, pending, taken, asked, answered, call>>

\* newMuxWithHandlers and trackSession: the newest session ends the one before it.
Track(s) ==
    /\ Moves(s, "online", "tracked")
    /\ mux' = [mux EXCEPT ![s] = "open"]
    /\ sessions' = s /\ kicked' = kicked \cup ({sessions} \ {NoSession})
    /\ UNCHANGED <<registry, status, broken, pending, taken, asked, answered, call>>

Register(s) ==
    /\ Moves(s, "tracked", "serving") /\ registry' = s
    /\ UNCHANGED <<kicked, sessions, status, muxVars, asked, answered, call>>

\* Mutant of Untrack: a session ends with its stream only.
UntrackBroken(s) ==
    /\ mux[s] = "closed"
    /\ \/ sessions = s /\ Moves(s, "serving", "leaving") /\ sessions' = NoSession
       \/ sessions # s /\ Moves(s, "serving", "gone") /\ UNCHANGED sessions
    /\ UNCHANGED <<kicked, registry, status, muxVars, asked, answered, call>>

\* Mutant of Untrack: the entry is deleted whoever it belongs to.
UntrackAny(s) ==
    /\ mux[s] = "closed" \/ s \in kicked
    /\ Moves(s, "serving", "leaving") /\ sessions' = NoSession
    /\ UNCHANGED <<kicked, registry, status, muxVars, asked, answered, call>>

\* A session that is not the current one any more touches nothing.
Untrack(s) ==
    /\ mux[s] = "closed" \/ s \in kicked
    /\ \/ sessions = s /\ Moves(s, "serving", "leaving") /\ sessions' = NoSession
       \/ sessions # s /\ Moves(s, "serving", "gone") /\ UNCHANGED sessions
    /\ UNCHANGED <<kicked, registry, status, muxVars, asked, answered, call>>

Unregister(s) ==
    /\ Moves(s, "leaving", "unregistered") /\ registry' = NoSession
    /\ UNCHANGED <<kicked, sessions, status, muxVars, asked, answered, call>>

MarkOffline(s) ==
    /\ Moves(s, "unregistered", "gone") /\ status' = "offline"
    /\ UNCHANGED <<kicked, sessions, registry, muxVars, asked, answered, call>>

Disconnect ==
    /\ sessions \in Kicks /\ sessions \notin kicked /\ kicked' = kicked \cup {sessions}
    /\ UNCHANGED <<stage, sessions, registry, status, muxVars, asked, answered, call>>

-----------------------------------------------------------------------------
(* The receive loop of a multiplexer.                                      *)

\* The connection breaks, or the handler has returned.
StreamEnds(s) ==
    /\ mux[s] = "open" /\ s \notin broken /\ broken' = broken \cup {s}
    /\ UNCHANGED <<handlerVars, mux, pending, taken, asked, answered, call>>

\* An answer nobody waits for any more is dropped.
Deliver(s, c) ==
    /\ mux[s] = "open" /\ c \in answered[s]
    /\ answered' = [answered EXCEPT ![s] = @ \ {c}]
    /\ pending' = [pending EXCEPT ![s] = @ \ {c}]
    /\ call' = IF c \in pending[s] THEN [call EXCEPT ![c].chan = "answer"] ELSE call
    /\ UNCHANGED <<handlerVars, broken, mux, taken, asked>>

\* shutdown takes the calls under the lock, then closes their channels without it.
ShutdownTakes(s) ==
    /\ mux[s] = "open" /\ s \in broken
    /\ mux' = [mux EXCEPT ![s] = "closing"]
    /\ taken' = [taken EXCEPT ![s] = pending[s]] /\ pending' = [pending EXCEPT ![s] = {}]
    /\ UNCHANGED <<handlerVars, broken, asked, answered, call>>

ShutdownCloses(s) ==
    /\ mux[s] = "closing" /\ mux' = [mux EXCEPT ![s] = "closed"]
    /\ call' = [c \in Calls |->
                  IF c \in taken[s] THEN [call[c] EXCEPT !.chan = "closed"] ELSE call[c]]
    /\ taken' = [taken EXCEPT ![s] = {}]
    /\ UNCHANGED <<handlerVars, broken, pending, asked, answered>>

-----------------------------------------------------------------------------
(* A call: Registry.Get and mux.CallWithID.                                *)

Ends(c, result) == call' = [call EXCEPT ![c].at = result]

Find(c) ==
    /\ call[c].at = "idle"
    /\ IF registry = NoSession THEN Ends(c, "unregistered")
       ELSE call' = [call EXCEPT ![c].at = "found", ![c].on = registry]
    /\ UNCHANGED <<handlerVars, muxVars, asked, answered>>

RegisterCall(c) ==
    LET s == call[c].on IN
    /\ call[c].at = "found"
    /\ IF mux[s] = "open"
       THEN Ends(c, "registered") /\ pending' = [pending EXCEPT ![s] = @ \cup {c}]
       ELSE Ends(c, "closed") /\ UNCHANGED pending
    /\ UNCHANGED <<handlerVars, broken, mux, taken, asked, answered>>

Forgets(s, c) == pending' = [pending EXCEPT ![s] = @ \ {c}]

\* A send on a broken stream fails, or is buffered and lost.
Send(c) ==
    LET s == call[c].on IN
    /\ call[c].at = "registered"
    /\ \/ /\ s \in broken /\ Ends(c, "unsent") /\ Forgets(s, c) /\ UNCHANGED asked
       \/ /\ Ends(c, "waiting") /\ UNCHANGED pending
          /\ asked' = IF s \in broken THEN asked ELSE [asked EXCEPT ![s] = @ \cup {c}]
    /\ UNCHANGED <<handlerVars, broken, mux, taken, answered>>

\* select takes any of its ready cases.
Return(c) ==
    LET s == call[c].on IN
    /\ call[c].at = "waiting"
    /\ \/ call[c].chan = "answer" /\ Ends(c, "ok")
       \/ (call[c].chan = "closed" \/ mux[s] = "closed") /\ Ends(c, "closed")
    /\ UNCHANGED <<handlerVars, muxVars, asked, answered>>

Expire(c) ==
    /\ call[c].at = "waiting" /\ Ends(c, "expired") /\ Forgets(call[c].on, c)
    /\ UNCHANGED <<handlerVars, broken, mux, taken, asked, answered>>

-----------------------------------------------------------------------------
\* The node handles requests side by side; its answer is lost when the stream ended.
Answer(s, c) ==
    /\ c \in asked[s] /\ asked' = [asked EXCEPT ![s] = @ \ {c}]
    /\ answered' = IF s \in broken THEN answered ELSE [answered EXCEPT ![s] = @ \cup {c}]
    /\ UNCHANGED <<handlerVars, muxVars, call>>

Handler(s) == Track(s) \/ Register(s) \/ Untrack(s) \/ Unregister(s) \/ MarkOffline(s)
RecvLoop(s) ==
    \/ stage[s] = "gone" /\ StreamEnds(s)
    \/ (\E c \in Calls : Deliver(s, c)) \/ ShutdownTakes(s) \/ ShutdownCloses(s)
Caller(c) == RegisterCall(c) \/ Send(c) \/ Return(c)

Next ==
    \/ \E s \in Sessions : Connect(s) \/ StreamEnds(s) \/ Handler(s) \/ RecvLoop(s)
    \/ \E c \in Calls : Find(c) \/ Caller(c) \/ Expire(c)
    \/ \E s \in Sessions, c \in Calls : Answer(s, c)
    \/ Disconnect

\* Goroutines run; no agent must connect or answer, and no call needs a deadline.
Spec ==
    /\ Init /\ [][Next]_vars
    /\ \A s \in Sessions : WF_vars(Handler(s)) /\ WF_vars(RecvLoop(s))
    /\ \A c \in Calls : WF_vars(Caller(c))

-----------------------------------------------------------------------------
\* trackSession, untrackSession: of the sessions that serve, all but the current one have been
\* told to go, and the current one still serves.
OneCurrent ==
    /\ \A s \in Sessions : stage[s] \in {"tracked", "serving"} => sessions = s \/ s \in kicked
    /\ sessions \in Sessions => stage[sessions] \in {"tracked", "serving"}

\* CallWithID: a call without a result is known to the multiplexer it waits on, or to its
\* shutdown, until that is over; or its channel says how it ended.
CallsKnown ==
    \A c \in Calls : LET s == call[c].on IN
        call[c].at \in {"registered", "waiting"} =>
            c \in pending[s] \cup taken[s] \/ call[c].chan # "empty" \/ mux[s] = "closed"

\* Server, mux: overlapping sessions and their ends lose track neither of the session that is
\* current nor of a call.
SessionsSound == OneCurrent /\ CallsKnown

\* shutdown, CallWithID: a call whose session breaks ends, even one that registers, sends or
\* is answered while the shutdown fails the others.
CallsEnd ==
    \A c \in Calls : (call[c].at \in Waits \ {"idle"} /\ call[c].on \in broken \cup kicked)
                        ~> call[c].at \in Results

\* An older connection closes, and with it everything that waits on it.
SupersededLeave ==
    \A s \in Sessions : (stage[s] = "serving" /\ sessions # s)
                           ~> (stage[s] = "gone" /\ mux[s] = "closed")

\* Server.Session: what waits on a session that is over does not wait for ever.
SessionsEnd == CallsEnd /\ SupersededLeave
=============================================================================
