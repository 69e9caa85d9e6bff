----------------------------- MODULE ExecStream ------------------------------
(***************************************************************************)
(* One remote exec over an agent's session (internal/agent: the multiplexer*)
(* and execStream on the control plane, ExecRelay on the node).  Both      *)
(* directions are numbered frames under a window of credits: a sender      *)
(* stops without credit, a receiver refunds in batches, and a frame that   *)
(* finds its channel full ends the exec, since a receive loop never waits. *)
(* The session delivers in order and may end at any moment.                *)
(***************************************************************************)
EXTENDS Naturals, Sequences

CONSTANTS
    Window,  \* execWindowFrames
    Batch,   \* execCreditBatch
    Sites    \* the commands, inputs and bounds to start with, see SiteType

Events == {"link", "close", "attach"}

SiteType ==
    [out : Nat,          \* bound: frames the command may write
     in : Nat,           \* frames the caller's input holds
     stdin : BOOLEAN,    \* the request attaches stdin
     broken : BOOLEAN,   \* the caller's input ends with a read error
     reads : BOOLEAN,    \* the command reads its input to the end
     max : [Events -> Nat]]  \* bounds: ends of the session, callers that give up, attaches that fail

ASSUME WindowAssumption == Window \in Nat /\ Batch \in 1..Window

ASSUME SiteAssumption == Sites \subseteq SiteType

VARIABLES
    site,      \* chosen once
    link,      \* the session: "up", "down", and "shut" when the mux has noticed
    down, up,  \* the session's frames in flight, to the node and from it
    (* the control plane *)
    call,      \* startExec and the stream: "new", "calling", "open", "closed", "over"
    sub,       \* the subscription: "none", "open", "gone", "failed" (closed by recvLoop)
    why,       \* its err
    outq, credq,    \* its channels
    got, consumed,  \* Read: the chunks read, those not refunded yet
    fin,       \* how the stream ended for its reader
    pump,      \* pumpStdin runs
    pcredit, sent,  \* its credit, the chunks it sent
    eof,       \* its source was read to a clean end
    (* the node *)
    live,      \* the exec is in ExecRelay.live
    ex,        \* run: "none", "attaching", "relaying", "relayed", "over"
    stopped,   \* stop was called: cancelled, context and output closed
    exited,    \* the command has exited
    inq, acredq,    \* the channels of the exec
    rcredit, made,  \* relayOutput: its credit, the chunks the command wrote
    apump,     \* pumpStdin runs
    written, aconsumed,  \* it: the chunks the command was given, those not refunded yet
    stdin,     \* the pipe to the command: "none" (open), "eof", "broken"
    used       \* how often every bounded event happened

linkVars == <<site, link, down, up>>
readVars == <<call, sub, why, outq, got, consumed, fin>>
pumpVars == <<credq, pump, pcredit, sent, eof>>
relayVars == <<live, ex, stopped, exited, acredq, rcredit, made>>
stdinVars == <<inq, apump, written, aconsumed, stdin>>
controlVars == <<readVars, pumpVars>>
nodeVars == <<relayVars, stdinVars>>

vars == <<linkVars, controlVars, nodeVars, used>>

Frame(kind, n) == [kind |-> kind, n |-> n]

TypeOK ==
    /\ site \in Sites /\ link \in {"up", "down", "shut"}
    /\ call \in {"new", "calling", "open", "closed", "over"}
    /\ sub \in {"none", "open", "gone", "failed"} /\ why \in {"none", "violated", "session"}
    /\ Len(outq) <= Window + 1 /\ Len(credq) <= Window + 1
    /\ Len(inq) <= Window + 1 /\ Len(acredq) <= Window + 1
    /\ consumed \in 0..Batch - 1 /\ aconsumed \in 0..Batch - 1
    /\ pcredit \in 0..Window /\ rcredit \in 0..Window
    /\ sent \in 0..site.in /\ made \in 0..site.out
    /\ fin \in {"none", "eof", "failure", "refused", "cancelled", "violated", "session"}
    /\ ex \in {"none", "attaching", "relaying", "relayed", "over"}
    /\ stdin \in {"none", "eof", "broken"}
    /\ pump \in BOOLEAN /\ eof \in BOOLEAN /\ live \in BOOLEAN
    /\ stopped \in BOOLEAN /\ exited \in BOOLEAN /\ apump \in BOOLEAN
    /\ used \in [Events -> Nat]

Init ==
    /\ site \in Sites
    /\ link = "up" /\ down = <<>> /\ up = <<>>
    /\ call = "new" /\ sub = "none" /\ why = "none" /\ outq = <<>> /\ credq = <<>>
    /\ got = <<>> /\ consumed = 0 /\ fin = "none"
    /\ pump = FALSE /\ pcredit = Window /\ sent = 0 /\ eof = FALSE
    /\ live = FALSE /\ ex = "none" /\ stopped = FALSE /\ exited = FALSE
    /\ inq = <<>> /\ acredq = <<>> /\ rcredit = Window /\ made = 0
    /\ apump = FALSE /\ written = <<>> /\ aconsumed = 0 /\ stdin = "none"
    /\ used = [e \in Events |-> 0]

Once(event) ==
    /\ used[event] < site.max[event]
    /\ used' = [used EXCEPT ![event] = @ + 1]

\* A send on a session that ended returns an error nobody acts on but pumpStdin.
Down(frames) == down' = IF link = "up" THEN down \o frames ELSE down
Up(frames) == up' = IF link = "up" THEN up \o frames ELSE up

\* Both receivers count the chunks they consumed, and refund them when a batch is full.
Counted(n) == IF n + 1 = Batch THEN 0 ELSE n + 1

-----------------------------------------------------------------------------
(* The control plane: startExec, recvLoop, Read, Close, pumpStdin.         *)

Start ==
    /\ call = "new" /\ link # "shut"
    /\ call' = "calling" /\ sub' = "open" /\ Down(<<Frame("start", 0)>>)
    /\ UNCHANGED <<site, link, up, why, outq, got, consumed, fin, pumpVars, nodeVars, used>>

\* The stream has ended for its reader: nothing more is delivered to it.
Finish(reason) ==
    /\ call' = "over" /\ fin' = reason
    /\ sub' = (IF sub = "open" THEN "gone" ELSE sub)

\* The call failed, maybe only on this side: the node is told.
CallFails(reason) == Finish(reason) /\ Down(<<Frame("cancel", 0)>>)

\* Close, by the caller or by the watcher of its context: a Read may still find a frame.
Closes ==
    /\ call' = "closed" /\ Down(<<Frame("cancel", 0)>>)
    /\ sub' = (IF sub = "open" THEN "gone" ELSE sub) /\ UNCHANGED fin

GiveUp ==
    /\ Once("close")
    /\ \/ call = "calling" /\ CallFails("cancelled")
       \/ call = "open" /\ Closes
    /\ UNCHANGED <<site, link, up, why, outq, got, consumed, pumpVars, nodeVars>>

FailExec == sub' = "failed" /\ why' = "violated"

Pops == up # <<>> /\ up' = Tail(up) /\ UNCHANGED <<site, link>>

RecvAck ==
    /\ Pops /\ Head(up).kind \in {"ack", "nack"}
    /\ IF call # "calling" THEN UNCHANGED <<call, sub, fin, down, pump>>
       ELSE IF Head(up).kind = "ack"
       THEN call' = "open" /\ pump' = site.stdin /\ UNCHANGED <<sub, fin, down>>
       ELSE CallFails("refused") /\ UNCHANGED pump
    /\ UNCHANGED <<why, outq, got, consumed, credq, pcredit, sent, eof, nodeVars, used>>

RecvOutput ==
    /\ Pops /\ Head(up).kind \in {"chunk", "eof", "failure"}
    /\ IF sub # "open" THEN UNCHANGED <<sub, why, outq>>
       ELSE IF Len(outq) <= Window THEN outq' = Append(outq, Head(up)) /\ UNCHANGED <<sub, why>>
       ELSE FailExec /\ UNCHANGED outq
    /\ UNCHANGED <<down, call, got, consumed, fin, pumpVars, nodeVars, used>>

RecvCredit ==
    /\ Pops /\ Head(up).kind = "credit"
    /\ IF sub # "open" THEN UNCHANGED <<sub, why, credq>>
       ELSE IF Len(credq) <= Window THEN credq' = Append(credq, Head(up).n) /\ UNCHANGED <<sub, why>>
       ELSE FailExec /\ UNCHANGED credq
    /\ UNCHANGED <<down, call, outq, got, consumed, fin, pump, pcredit, sent, eof, nodeVars, used>>

\* Mutant of Shutdown: the end of a session fails its calls only.
ShutdownForgetsExecs ==
    /\ link = "down" /\ up = <<>> /\ link' = "shut"
    /\ IF call = "calling" THEN call' = "over" /\ fin' = "session" ELSE UNCHANGED <<call, fin>>
    /\ UNCHANGED <<site, down, up, sub, why, outq, got, consumed, pumpVars, nodeVars, used>>

\* recvLoop has read what the session still delivered: shutdown ends calls and subscriptions.
Shutdown ==
    /\ link = "down" /\ up = <<>> /\ link' = "shut"
    /\ IF sub = "open" THEN sub' = "failed" /\ why' = "session" ELSE UNCHANGED <<sub, why>>
    /\ IF call = "calling" THEN call' = "over" /\ fin' = "session" ELSE UNCHANGED <<call, fin>>
    /\ UNCHANGED <<site, down, up, outq, got, consumed, pumpVars, nodeVars, used>>

\* Mutant of ReadChunk: the count of consumed chunks is kept after a refund.
ReadChunkKeepsCount ==
    /\ call \in {"open", "closed"} /\ outq # <<>> /\ Head(outq).kind = "chunk"
    /\ outq' = Tail(outq) /\ got' = Append(got, Head(outq).n)
    /\ consumed' = consumed + 1
    /\ Down(IF consumed' >= Batch THEN <<Frame("credit", Batch)>> ELSE <<>>)
    /\ UNCHANGED <<site, link, up, call, sub, why, fin, pumpVars, nodeVars, used>>

ReadChunk ==
    /\ call \in {"open", "closed"} /\ outq # <<>> /\ Head(outq).kind = "chunk"
    /\ outq' = Tail(outq) /\ got' = Append(got, Head(outq).n)
    /\ consumed' = Counted(consumed)
    /\ Down(IF consumed' = 0 THEN <<Frame("credit", Batch)>> ELSE <<>>)
    /\ UNCHANGED <<site, link, up, call, sub, why, fin, pumpVars, nodeVars, used>>

ReadEnd ==
    /\ call \in {"open", "closed"}
    /\ \/ outq # <<>> /\ Head(outq).kind # "chunk" /\ Finish(Head(outq).kind)
       \/ outq = <<>> /\ sub = "failed" /\ Finish(why)
       \/ call = "closed" /\ Finish("cancelled")
    /\ UNCHANGED <<linkVars, why, outq, got, consumed, pumpVars, nodeVars, used>>

\* Mutant of LastInput: a read error is taken for the end.
LastInputEof == Frame("eof", 0)

LastInput == Frame(IF site.broken THEN "error" ELSE "eof", 0)

PumpChunk ==
    /\ pump /\ pcredit > 0 /\ sent < site.in
    /\ sent' = sent + 1 /\ pcredit' = pcredit - 1 /\ Down(<<Frame("chunk", sent')>>)
    /\ UNCHANGED <<site, link, up, readVars, credq, pump, eof, nodeVars, used>>

\* The end is read alone or with the last chunk, whose credit is then not needed any more.
PumpEnd ==
    /\ pump /\ pcredit > 0 /\ pump' = FALSE /\ eof' = ~site.broken
    /\ \/ sent = site.in /\ Down(<<LastInput>>) /\ UNCHANGED sent
       \/ sent + 1 = site.in /\ sent' = site.in /\ Down(<<Frame("chunk", sent'), LastInput>>)
    /\ UNCHANGED <<site, link, up, readVars, credq, pcredit, nodeVars, used>>

PumpRefunded ==
    /\ pump /\ pcredit = 0 /\ credq # <<>>
    /\ pcredit' = Head(credq) /\ credq' = Tail(credq)
    /\ UNCHANGED <<linkVars, readVars, pump, sent, eof, nodeVars, used>>

\* A send fails, or the stream is done when a refund is awaited.
PumpStops ==
    /\ pump /\ pump' = FALSE
    /\ \/ link # "up"
       \/ pcredit = 0 /\ (call \in {"closed", "over"} \/ (sub = "failed" /\ credq = <<>>))
    /\ UNCHANGED <<linkVars, readVars, credq, pcredit, sent, eof, nodeVars, used>>

-----------------------------------------------------------------------------
(* The node: ExecRelay, and the command it runs.                           *)

Stop ==
    /\ stopped' = TRUE
    /\ stdin' = (IF site.stdin /\ stdin = "none" THEN "broken" ELSE stdin)

\* failExec of the relay: the first to discard reports and stops.
RelayFails ==
    IF live THEN live' = FALSE /\ Up(<<Frame("failure", 0)>>) /\ Stop
            ELSE UNCHANGED <<live, up, stopped, stdin>>

Gets(kind) == down # <<>> /\ Head(down).kind = kind /\ down' = Tail(down) /\ UNCHANGED <<site, link>>

GetStart ==
    /\ Gets("start") /\ live' = TRUE /\ ex' = "attaching" /\ apump' = site.stdin
    /\ UNCHANGED <<up, controlVars, stopped, exited, acredq, rcredit, made, inq, written, aconsumed, stdin, used>>

GetInput ==
    /\ \E kind \in {"chunk", "eof", "error"} : Gets(kind)
    /\ IF ~live THEN UNCHANGED <<live, up, stopped, stdin, inq>>
       ELSE IF Len(inq) <= Window
       THEN inq' = Append(inq, Head(down)) /\ UNCHANGED <<live, up, stopped, stdin>>
       ELSE RelayFails /\ UNCHANGED inq
    /\ UNCHANGED <<controlVars, ex, exited, acredq, rcredit, made, apump, written, aconsumed, used>>

GetCredit ==
    /\ Gets("credit")
    /\ IF ~live THEN UNCHANGED <<live, up, stopped, stdin, acredq>>
       ELSE IF Len(acredq) <= Window
       THEN acredq' = Append(acredq, Head(down).n) /\ UNCHANGED <<live, up, stopped, stdin>>
       ELSE RelayFails /\ UNCHANGED acredq
    /\ UNCHANGED <<controlVars, ex, exited, rcredit, made, inq, apump, written, aconsumed, used>>

\* Cancel, and CloseAll when the session has ended.
Cancelled ==
    /\ \/ Gets("cancel")
       \/ link # "up" /\ down = <<>> /\ live /\ UNCHANGED <<site, link, down>>
    /\ live' = FALSE
    /\ IF live THEN Stop ELSE UNCHANGED <<stopped, stdin>>
    /\ UNCHANGED <<up, controlVars, ex, exited, acredq, rcredit, made, inq, apump, written, aconsumed, used>>

Attach ==
    /\ ex = "attaching"
    /\ \/ /\ ~stopped /\ ex' = "relaying" /\ Up(<<Frame("ack", 0)>>)
          /\ UNCHANGED <<live, stopped, stdin, used>>
       \/ /\ stopped /\ ex' = "over" /\ UNCHANGED <<live, up, stopped, stdin, used>>
       \/ /\ Once("attach") /\ ex' = "over" /\ Up(<<Frame("nack", 0)>>)
          /\ live' = FALSE /\ IF live THEN Stop ELSE UNCHANGED <<stopped, stdin>>
    /\ UNCHANGED <<site, link, down, controlVars, exited, acredq, rcredit, made, inq, apump, written, aconsumed>>

\* A command at the end of a broken pipe ends like one at the end of its input.
CommandExits ==
    /\ ex = "relaying" /\ ~exited /\ exited' = TRUE
    /\ site.reads => stdin # "none"
    /\ UNCHANGED <<linkVars, controlVars, live, ex, stopped, acredq, rcredit, made, stdinVars, used>>

RelayChunk ==
    /\ ex = "relaying" /\ ~exited /\ ~stopped /\ rcredit > 0 /\ made < site.out
    /\ made' = made + 1 /\ rcredit' = rcredit - 1 /\ Up(<<Frame("chunk", made')>>)
    /\ UNCHANGED <<site, link, down, controlVars, live, ex, stopped, exited, acredq, stdinVars, used>>

\* Mutant of RelayRefunded: any refund restores the whole window.
RelayRefills ==
    /\ ex = "relaying" /\ rcredit = 0 /\ acredq # <<>>
    /\ rcredit' = Window /\ acredq' = Tail(acredq)
    /\ UNCHANGED <<linkVars, controlVars, live, ex, stopped, exited, made, stdinVars, used>>

RelayRefunded ==
    /\ ex = "relaying" /\ rcredit = 0 /\ acredq # <<>>
    /\ rcredit' = Head(acredq) /\ acredq' = Tail(acredq)
    /\ UNCHANGED <<linkVars, controlVars, live, ex, stopped, exited, made, stdinVars, used>>

\* A read error of a cancelled exec describes the cancel and is not sent.
RelayEnds ==
    /\ ex = "relaying" /\ (stopped \/ (exited /\ rcredit > 0))
    /\ ex' = "relayed"
    /\ IF stopped THEN UNCHANGED up
       ELSE \E status \in {"eof", "failure"} : Up(<<Frame(status, 0)>>)
    /\ UNCHANGED <<site, link, down, controlVars, live, stopped, exited, acredq, rcredit, made, stdinVars, used>>

\* run, after relayOutput: discard and stop.
RunEnds ==
    /\ ex = "relayed" /\ ex' = "over" /\ live' = FALSE /\ Stop
    /\ UNCHANGED <<linkVars, controlVars, exited, acredq, rcredit, made, inq, apump, written, aconsumed, used>>

StdinChunk ==
    /\ apump /\ ~stopped /\ ex = "relaying" /\ ~exited /\ inq # <<>> /\ Head(inq).kind = "chunk"
    /\ inq' = Tail(inq) /\ written' = Append(written, Head(inq).n)
    /\ aconsumed' = Counted(aconsumed)
    /\ Up(IF aconsumed' = 0 THEN <<Frame("credit", Batch)>> ELSE <<>>)
    /\ UNCHANGED <<site, link, down, controlVars, relayVars, apump, stdin, used>>

StdinEof ==
    /\ apump /\ inq # <<>> /\ Head(inq).kind = "eof"
    /\ inq' = Tail(inq) /\ apump' = FALSE /\ stdin' = (IF stdin = "none" THEN "eof" ELSE stdin)
    /\ UNCHANGED <<linkVars, controlVars, relayVars, written, aconsumed, used>>

StdinError ==
    /\ apump /\ inq # <<>> /\ Head(inq).kind = "error"
    /\ inq' = Tail(inq) /\ apump' = FALSE /\ RelayFails
    /\ UNCHANGED <<site, link, down, controlVars, ex, exited, acredq, rcredit, made, written, aconsumed, used>>

StdinStops ==
    /\ apump /\ stopped /\ apump' = FALSE
    /\ UNCHANGED <<linkVars, controlVars, relayVars, inq, written, aconsumed, stdin, used>>

-----------------------------------------------------------------------------
\* The connection breaks: either end still gets some of what was sent to it.
LinkEnds ==
    /\ link = "up" /\ Once("link")
    /\ link' = "down"
    /\ \E n \in 0..Len(down) : down' = SubSeq(down, 1, n)
    /\ \E n \in 0..Len(up) : up' = SubSeq(up, 1, n)
    /\ UNCHANGED <<site, controlVars, nodeVars>>

RecvLoop == RecvAck \/ RecvOutput \/ RecvCredit \/ Shutdown
Reader == ReadChunk \/ ReadEnd
Pump == PumpChunk \/ PumpEnd \/ PumpRefunded \/ PumpStops
NodeLoop == GetStart \/ GetInput \/ GetCredit \/ Cancelled
Run == Attach \/ RelayRefunded \/ RelayEnds \/ RunEnds
StdinPump == StdinChunk \/ StdinEof \/ StdinError \/ StdinStops

Next ==
    \/ Start \/ GiveUp \/ RecvLoop \/ Reader \/ Pump
    \/ NodeLoop \/ Run \/ RelayChunk \/ CommandExits \/ StdinPump \/ LinkEnds

\* Every goroutine runs, the caller reads on, and the command exits; nobody must start, give
\* up or write.
Spec ==
    /\ Init /\ [][Next]_vars
    /\ WF_vars(RecvLoop) /\ WF_vars(Reader) /\ WF_vars(Pump)
    /\ WF_vars(NodeLoop) /\ WF_vars(Run) /\ WF_vars(CommandExits) /\ WF_vars(StdinPump)

-----------------------------------------------------------------------------
\* Two ends that honour the credits never overrun a channel, whatever they refund and when:
\* no exec fails for its window at either end (mux.go:42, exec_relay.go:348).
WindowKept ==
    /\ why # "violated"
    /\ live /\ down # <<>> =>
         /\ Head(down).kind \in {"chunk", "eof", "error"} => Len(inq) <= Window
         /\ Head(down).kind = "credit" => Len(acredq) <= Window

Promise == INSTANCE ExecPromise WITH end <- fin, input <- stdin, drained <- eof,
                                     reads <- site.reads

\* Both pipes deliver in order and without a gap, and end of file is the true end: a dropped
\* session or a cancel never looks like one, and a truncated restore fails instead of looking
\* complete (mux.go:474, grpc_transport.go:404).
KeepsItsPromise == Promise!Spec

\* A caller that reads on gets to the end of its stream.
StreamEnds == call = "calling" ~> fin # "none"

\* An exec whose caller is done does not go on running on the node.
NodeReleased == fin # "none" ~> (~live /\ ex \in {"none", "over"} /\ ~apump)

\* startExec, ExecRelay.run: an exec comes to its end at both ends.
ExecEnds == StreamEnds /\ NodeReleased
=============================================================================
