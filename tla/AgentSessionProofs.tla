--------------------------- MODULE AgentSessionProofs ---------------------------
(***************************************************************************)
(* AgentSession keeps its types and stays sound for any number of sessions *)
(* and calls.  Which session is current depends on the handlers alone; that*)
(* no call is lost depends on the multiplexers, whose shutdown takes the   *)
(* pending calls in one step and fails them in another.                    *)
(***************************************************************************)
EXTENDS AgentSession, TLAPS

CallType == [at : Waits \cup Results, on : MaySession, chan : {"empty", "answer", "closed"}]

\* A call that moves on, and a multiplexer that learns of a call or forgets one, keep their types.
LEMMA CallMoves ==
    ASSUME TypeOK, NEW c \in Calls, NEW at \in Waits \cup Results,
           call' = [call EXCEPT ![c].at = at]
    PROVE  /\ call' \in [Calls -> CallType]
           /\ call'[c] = [at |-> at, on |-> call[c].on, chan |-> call[c].chan]
           /\ \A d \in Calls \ {c} : call'[d] = call[d]
<1>1. call \in [Calls -> CallType]
  BY DEF TypeOK, CallType
<1>2. [call[c] EXCEPT !.at = at] = [at |-> at, on |-> call[c].on, chan |-> call[c].chan]
  BY <1>1 DEF CallType
<1> QED  BY <1>1, <1>2 DEF CallType

\* Every step keeps the types.
LEMMA TypeStep == TypeOK /\ [Next]_vars => TypeOK'
<1> SUFFICES ASSUME TypeOK, [Next]_vars PROVE TypeOK'
  OBVIOUS
<1> USE DEF TypeOK, handlerVars, muxVars, Moves, Ends, Forgets, MaySession
<1>1. CASE \E s \in Sessions : Connect(s) \/ StreamEnds(s)
  BY <1>1 DEF Connect, StreamEnds, Stages
<1>2. CASE \E s \in Sessions : Handler(s)
  <2> PICK s \in Sessions : Handler(s)
    BY <1>2
  <2>1. CASE Track(s)
    BY <2>1 DEF Track, Stages
  <2>2. CASE Register(s)
    BY <2>2 DEF Register, Stages
  <2>3. CASE Untrack(s)
    BY <2>3 DEF Untrack, Stages
  <2>4. CASE Unregister(s)
    BY <2>4 DEF Unregister, Stages
  <2>5. CASE MarkOffline(s)
    BY <2>5 DEF MarkOffline, Stages
  <2> QED  BY <2>1, <2>2, <2>3, <2>4, <2>5 DEF Handler
<1>3. CASE \E s \in Sessions : RecvLoop(s)
  <2> PICK s \in Sessions : RecvLoop(s)
    BY <1>3
  <2>1. CASE StreamEnds(s)
    BY <2>1 DEF StreamEnds
  <2>2. ASSUME NEW c \in Calls, Deliver(s, c) PROVE TypeOK'
    BY <2>2 DEF Deliver
  <2>3. CASE ShutdownTakes(s)
    BY <2>3 DEF ShutdownTakes
  <2>4. CASE ShutdownCloses(s)
    BY <2>4 DEF ShutdownCloses
  <2> QED  BY <2>1, <2>2, <2>3, <2>4 DEF RecvLoop
<1>4. CASE \E c \in Calls : Find(c) \/ Caller(c) \/ Expire(c)
  <2> PICK c \in Calls : Find(c) \/ Caller(c) \/ Expire(c)
    BY <1>4
  <2> USE DEF Waits, Results
  <2>1. CASE Find(c)
    BY <2>1 DEF Find
  <2>2. CASE RegisterCall(c)
    <3>1. call' \in [Calls -> CallType]
      BY <2>2, CallMoves DEF RegisterCall
    <3>2. pending' \in [Sessions -> SUBSET Calls]
      BY <2>2 DEF RegisterCall
    <3> QED  BY <2>2, <3>1, <3>2 DEF RegisterCall, CallType
  <2>3. CASE Send(c)
    <3>1. call' \in [Calls -> CallType]
      BY <2>3, CallMoves DEF Send
    <3>2. pending' \in [Sessions -> SUBSET Calls]
      BY <2>3 DEF Send
    <3>3. asked' \in [Sessions -> SUBSET Calls]
      BY <2>3 DEF Send
    <3> QED  BY <2>3, <3>1, <3>2, <3>3 DEF Send, CallType
  <2>4. CASE Return(c)
    BY <2>4, CallMoves DEF Return, CallType
  <2>5. CASE Expire(c)
    <3>1. call' \in [Calls -> CallType]
      BY <2>5, CallMoves DEF Expire
    <3>2. pending' \in [Sessions -> SUBSET Calls]
      BY <2>5 DEF Expire
    <3> QED  BY <2>5, <3>1, <3>2 DEF Expire, CallType
  <2> QED  BY <2>1, <2>2, <2>3, <2>4, <2>5 DEF Caller
<1>5. CASE \E s \in Sessions, c \in Calls : Answer(s, c)
  BY <1>5 DEF Answer
<1>6. CASE Disconnect
  BY <1>6, SessionAssumption DEF Disconnect
<1>7. CASE UNCHANGED vars
  BY <1>7 DEF vars
<1> QED  BY <1>1, <1>2, <1>3, <1>4, <1>5, <1>6, <1>7 DEF Next

\* Every variable of the sessions keeps its type.
THEOREM TypeCorrect == Spec => []TypeOK
<1>1. Init => TypeOK
  BY DEF Init, TypeOK, NoCalls, Stages, Waits, MaySession
<1> QED  BY <1>1, TypeStep, PTL DEF Spec

-----------------------------------------------------------------------------
\* Only the handler of a session moves it, and only the newest session is current: the one
\* trackSession replaces is told to go, and untrackSession takes an entry of its own only.
THEOREM CurrentIsOne == Spec => []OneCurrent
<1>1. Init => OneCurrent
  BY SessionAssumption DEF Init, OneCurrent
<1>2. TypeOK /\ OneCurrent /\ [Next]_vars => OneCurrent'
  <2> SUFFICES ASSUME TypeOK, OneCurrent, [Next]_vars PROVE OneCurrent'
    OBVIOUS
  <2> USE SessionAssumption DEF TypeOK, OneCurrent, handlerVars, muxVars, Moves
  <2>1. ASSUME UNCHANGED <<stage, sessions>>, kicked \subseteq kicked' PROVE OneCurrent'
    BY <2>1
  <2>2. ASSUME NEW s \in Sessions, Connect(s) PROVE OneCurrent'
    BY <2>2 DEF Connect
  <2>3. ASSUME NEW s \in Sessions, Track(s) PROVE OneCurrent'
    BY <2>3 DEF Track, MaySession
  <2>4. ASSUME NEW s \in Sessions, Register(s) PROVE OneCurrent'
    BY <2>4 DEF Register
  <2>5. ASSUME NEW s \in Sessions, Untrack(s) PROVE OneCurrent'
    BY <2>5 DEF Untrack
  <2>6. ASSUME NEW s \in Sessions, Unregister(s) \/ MarkOffline(s) PROVE OneCurrent'
    BY <2>6 DEF Unregister, MarkOffline
  <2>7. ASSUME NEW s \in Sessions, StreamEnds(s) \/ RecvLoop(s) PROVE OneCurrent'
    BY <2>1, <2>7 DEF RecvLoop, StreamEnds, Deliver, ShutdownTakes, ShutdownCloses
  <2>8. ASSUME NEW c \in Calls, Find(c) \/ Caller(c) \/ Expire(c) PROVE OneCurrent'
    BY <2>1, <2>8 DEF Find, Caller, RegisterCall, Send, Return, Expire
  <2>9. ASSUME NEW s \in Sessions, NEW c \in Calls, Answer(s, c) PROVE OneCurrent'
    BY <2>1, <2>9 DEF Answer
  <2>10. CASE Disconnect
    BY <2>1, <2>10 DEF Disconnect
  <2>11. CASE UNCHANGED vars
    BY <2>1, <2>11 DEF vars
  <2> QED  BY <2>2, <2>3, <2>4, <2>5, <2>6, <2>7, <2>8, <2>9, <2>10, <2>11 DEF Next, Handler
<1> QED  BY <1>1, <1>2, TypeCorrect, PTL DEF Spec

-----------------------------------------------------------------------------
\* Only a shutdown under way has calls to fail, and a session has no multiplexer before it is
\* tracked.
SessionKept(s) ==
    /\ mux[s] # "closing" => taken[s] = {}
    /\ stage[s] \in {"idle", "online"} => mux[s] = "none"

\* A call that waits, waits on a session that was tracked, which knows it.
CallKept(c) ==
    LET s == call[c].on IN
    /\ call[c].at \in {"found", "registered", "waiting"} => s \in Sessions
    /\ call[c].at \in {"registered", "waiting"} =>
         /\ mux[s] # "none"
         /\ c \in pending[s] \cup taken[s] \/ call[c].chan # "empty" \/ mux[s] = "closed"

Kept == (\A s \in Sessions : SessionKept(s)) /\ (\A c \in Calls : CallKept(c))

\* Calls whose records do not change stay known while the multiplexers forget none of them.
LEMMA KeptStep ==
    ASSUME Kept, NEW D \in SUBSET Calls, UNCHANGED taken,
           UNCHANGED mux,
           \A s \in Sessions : \/ stage'[s] = stage[s] \/ stage[s] = "idle"
                               \/ stage'[s] \notin {"idle", "online"},
           \A d \in D : call'[d] = call[d],
           \A s \in Sessions, d \in D : d \in pending[s] => d \in pending'[s]
    PROVE  (\A s \in Sessions : SessionKept(s)') /\ (\A d \in D : CallKept(d)')
<1>1. ASSUME NEW s \in Sessions PROVE SessionKept(s)'
  BY <1>1 DEF Kept, SessionKept
<1>2. ASSUME NEW d \in D PROVE CallKept(d)'
  <2>1. CallKept(d) /\ call'[d] = call[d]
    BY <1>2 DEF Kept
  <2> QED  BY <1>2, <2>1 DEF CallKept
<1> QED  BY <1>1, <1>2

\* A call registers under the lock the shutdown takes them under, so it finds the multiplexer
\* closed or is failed with the others; an answer or a failure reaches its channel.
THEOREM NoCallForgotten == Spec => []CallsKnown
<1>1. Init => Kept
  BY DEF Init, Kept, SessionKept, CallKept, NoCalls
<1>2. TypeOK /\ Kept /\ [Next]_vars => Kept'
  <2> SUFFICES ASSUME TypeOK, Kept, [Next]_vars PROVE Kept'
    OBVIOUS
  <2>0. /\ stage \in [Sessions -> Stages] /\ taken \in [Sessions -> SUBSET Calls]
        /\ mux \in [Sessions -> {"none", "open", "closing", "closed"}]
        /\ pending \in [Sessions -> SUBSET Calls] /\ call \in [Calls -> CallType]
    BY DEF TypeOK, CallType
  <2> USE DEF handlerVars, muxVars
  <2>1. ASSUME UNCHANGED <<mux, pending, taken, call>>,
               \A s \in Sessions : \/ stage'[s] = stage[s] \/ stage[s] = "idle"
                                   \/ stage'[s] \notin {"idle", "online"}
        PROVE  Kept'
    BY <2>1, KeptStep DEF Kept
  <2>2. ASSUME NEW s \in Sessions, Connect(s) \/ StreamEnds(s) \/ Register(s) \/ Untrack(s)
                                      \/ Unregister(s) \/ MarkOffline(s)
        PROVE  Kept'
    BY <2>0, <2>1, <2>2 DEF Connect, StreamEnds, Register, Untrack, Unregister, MarkOffline, Moves
  <2>3. ASSUME NEW s \in Sessions, Track(s) PROVE Kept'
    <3>1. SessionKept(s) /\ stage[s] = "online"
      BY <2>3 DEF Kept, Track, Moves
    <3>2. /\ UNCHANGED <<pending, taken, call>> /\ mux[s] = "none"
          /\ stage'[s] = "tracked" /\ mux'[s] = "open"
          /\ \A t \in Sessions \ {s} : stage'[t] = stage[t] /\ mux'[t] = mux[t]
      BY <2>0, <2>3, <3>1 DEF Track, Moves, SessionKept
    <3>3. \A t \in Sessions : SessionKept(t)'
      BY <3>2 DEF Kept, SessionKept
    <3>4. ASSUME NEW c \in Calls PROVE CallKept(c)'
      <4>1. CallKept(c)
        BY DEF Kept
      <4> QED  BY <3>2, <4>1 DEF CallKept
    <3> QED  BY <3>3, <3>4 DEF Kept
  <2>4. ASSUME NEW s \in Sessions, NEW c \in Calls, Deliver(s, c) PROVE Kept'
    <3>1. UNCHANGED <<stage, mux, taken>>
      BY <2>4 DEF Deliver
    <3>2. \A t \in Sessions, d \in Calls \ {c} : d \in pending[t] => d \in pending'[t]
      BY <2>0, <2>4 DEF Deliver
    <3>3. \A d \in Calls \ {c} : call'[d] = call[d]
      BY <2>0, <2>4 DEF Deliver
    <3>4. CallKept(c)'
      <4>1. CallKept(c)
        BY DEF Kept
      <4>2. CASE c \in pending[s]
        <5>1. call'[c] = [call[c] EXCEPT !.chan = "answer"]
          BY <2>0, <2>4, <4>2 DEF Deliver
        <5>2. call'[c].at = call[c].at /\ call'[c].on = call[c].on /\ call'[c].chan = "answer"
          BY <2>0, <5>1 DEF CallType
        <5> QED  BY <3>1, <4>1, <5>2 DEF CallKept
      <4>3. CASE c \notin pending[s]
        <5>1. pending' = pending /\ call' = call
          BY <2>0, <2>4, <4>3 DEF Deliver
        <5> QED  BY <3>1, <4>1, <5>1 DEF CallKept
      <4> QED  BY <4>2, <4>3
    <3> QED  BY <3>1, <3>2, <3>3, <3>4, KeptStep DEF Kept
  <2>5. ASSUME NEW s \in Sessions, ShutdownTakes(s) PROVE Kept'
    <3>1. /\ UNCHANGED <<stage, call>> /\ mux[s] = "open" /\ mux'[s] = "closing"
          /\ taken'[s] = pending[s]
          /\ \A t \in Sessions \ {s} : mux'[t] = mux[t] /\ taken'[t] = taken[t] /\ pending'[t] = pending[t]
      BY <2>0, <2>5 DEF ShutdownTakes
    <3>2. taken[s] = {} /\ stage[s] \notin {"idle", "online"}
      BY <3>1 DEF Kept, SessionKept
    <3>3. \A t \in Sessions : SessionKept(t)'
      BY <3>1, <3>2 DEF Kept, SessionKept
    <3>4. ASSUME NEW c \in Calls PROVE CallKept(c)'
      <4>1. CallKept(c)
        BY DEF Kept
      <4> QED  BY <3>1, <3>2, <4>1 DEF CallKept
    <3> QED  BY <3>3, <3>4 DEF Kept
  <2>6. ASSUME NEW s \in Sessions, ShutdownCloses(s) PROVE Kept'
    <3>1. /\ UNCHANGED <<stage, pending>> /\ mux[s] = "closing" /\ mux'[s] = "closed" /\ taken'[s] = {}
          /\ \A t \in Sessions \ {s} : mux'[t] = mux[t] /\ taken'[t] = taken[t]
      BY <2>0, <2>6 DEF ShutdownCloses
    <3>2. \A t \in Sessions : SessionKept(t)'
      BY <3>1 DEF Kept, SessionKept
    <3>3. ASSUME NEW c \in Calls PROVE CallKept(c)'
      <4>1. CallKept(c)
        BY DEF Kept
      <4>2. \/ call'[c] = call[c]
            \/ call'[c].at = call[c].at /\ call'[c].on = call[c].on /\ call'[c].chan = "closed"
        BY <2>0, <2>6 DEF ShutdownCloses, CallType
      <4> QED  BY <3>1, <4>1, <4>2 DEF CallKept
    <3> QED  BY <3>2, <3>3 DEF Kept
  <2>7. ASSUME NEW c \in Calls, Find(c) \/ RegisterCall(c) \/ Send(c) \/ Return(c) \/ Expire(c)
        PROVE  Kept'
    <3>1. UNCHANGED <<stage, mux, taken>>
      BY <2>7 DEF Find, RegisterCall, Send, Return, Expire
    <3>2. \A d \in Calls \ {c} : call'[d] = call[d]
      BY <2>0, <2>7 DEF Find, RegisterCall, Send, Return, Expire, Ends
    <3>3. \A t \in Sessions, d \in Calls \ {c} : d \in pending[t] => d \in pending'[t]
      BY <2>0, <2>7 DEF Find, RegisterCall, Send, Return, Expire, Forgets
    <3>4. CallKept(c)
      BY DEF Kept
    <3>0. ASSUME NEW at \in Waits \cup Results, Ends(c, at)
          PROVE  call'[c].at = at /\ call'[c].on = call[c].on /\ call'[c].chan = call[c].chan
      <4>1. call'[c] = [at |-> at, on |-> call[c].on, chan |-> call[c].chan]
        BY <3>0, CallMoves DEF Ends
      <4> QED  BY <4>1
    <3>5. ASSUME NEW at \in Results, Ends(c, at) PROVE CallKept(c)'
      BY <3>0, <3>5 DEF Results, CallKept
    <3>6. CallKept(c)'
      <4>1. CASE Find(c)
        <5>1. CASE registry = NoSession
          BY <3>5, <4>1, <5>1 DEF Find, Results
        <5>2. CASE registry # NoSession
          <6>1. registry \in Sessions
            BY <5>2 DEF TypeOK, MaySession
          <6>2. call'[c].at = "found" /\ call'[c].on = registry
            BY <2>0, <4>1, <5>2 DEF Find, CallType
          <6> QED  BY <6>1, <6>2 DEF CallKept
        <5> QED  BY <5>1, <5>2
      <4>2. CASE RegisterCall(c)
        <5>1. CASE mux[call[c].on] = "open"
          <6>1. call'[c].at = "registered" /\ call'[c].on = call[c].on
            BY <3>0, <4>2, <5>1 DEF RegisterCall, Waits
          <6>2. call[c].on \in Sessions
            BY <3>4, <4>2 DEF RegisterCall, CallKept
          <6>3. c \in pending'[call[c].on]
            BY <2>0, <4>2, <5>1, <6>2 DEF RegisterCall
          <6> QED  BY <3>1, <5>1, <6>1, <6>2, <6>3 DEF CallKept
        <5>2. CASE mux[call[c].on] # "open"
          BY <3>5, <4>2, <5>2 DEF RegisterCall, Results
        <5> QED  BY <5>1, <5>2
      <4>3. CASE Send(c)
        <5>1. CASE Ends(c, "unsent")
          BY <3>5, <5>1 DEF Results
        <5>2. CASE Ends(c, "waiting") /\ UNCHANGED pending
          <6>1. call[c].at = "registered"
            BY <4>3 DEF Send
          <6>2. /\ call'[c].at = "waiting" /\ call'[c].on = call[c].on
                /\ call'[c].chan = call[c].chan
            BY <3>0, <5>2 DEF Waits
          <6> QED  BY <3>1, <3>4, <5>2, <6>1, <6>2 DEF CallKept
        <5> QED  BY <4>3, <5>1, <5>2 DEF Send
      <4>4. CASE Return(c)
        BY <3>5, <4>4 DEF Return, Results
      <4>5. CASE Expire(c)
        BY <3>5, <4>5 DEF Expire, Results
      <4> QED  BY <2>7, <4>1, <4>2, <4>3, <4>4, <4>5
    <3> QED  BY <3>1, <3>2, <3>3, <3>6, KeptStep DEF Kept
  <2>8. ASSUME NEW s \in Sessions, NEW c \in Calls, Answer(s, c) PROVE Kept'
    BY <2>1, <2>8 DEF Answer
  <2>9. CASE Disconnect
    BY <2>1, <2>9 DEF Disconnect
  <2>10. CASE UNCHANGED vars
    BY <2>1, <2>10 DEF vars
  <2> QED  BY <2>2, <2>3, <2>4, <2>5, <2>6, <2>7, <2>8, <2>9, <2>10
           DEF Next, Handler, RecvLoop, Caller
<1>3. Kept => CallsKnown
  BY DEF Kept, CallKept, CallsKnown
<1> QED  BY <1>1, <1>2, <1>3, TypeCorrect, PTL DEF Spec

\* For any sessions and calls, one session is current and no call is lost.
THEOREM SessionsAreSound == Spec => []SessionsSound
BY CurrentIsOne, NoCallForgotten, PTL DEF SessionsSound
=============================================================================
