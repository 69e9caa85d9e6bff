----------------------------- MODULE ExecStreamProofs -----------------------------
(***************************************************************************)
(* Two theorems about ExecStream, for any window, any batch and any        *)
(* command and input.  Its credits keep every channel within its length:   *)
(* what a sender may still send, what is on its way, what waits to be      *)
(* consumed and what was consumed but not refunded, with the refunds on    *)
(* their way back, never come to more than the window, and a lost frame    *)
(* only lowers the sum.  And it implements ExecPromise: what waits at the  *)
(* reader goes on where it stopped reading, what is on the way goes on     *)
(* where the queue ends, and an end of file stands behind the last chunk.  *)
(***************************************************************************)
EXTENDS ExecStream, FiniteSetTheorems, SequenceTheorems, TLAPS

At(q, K) == {i \in 1..Len(q) : q[i].kind \in K}

Count(q, K) == Cardinality(At(q, K))

-----------------------------------------------------------------------------
(* Counting the frames of a kind.                                          *)

\* A count is a number, no more than the length.
LEMMA CountType ==
    ASSUME NEW F, NEW q \in Seq(F), NEW K
    PROVE  IsFiniteSet(At(q, K)) /\ Count(q, K) \in Nat /\ Count(q, K) <= Len(q)
<1>1. Len(q) \in Nat
  BY LenProperties
<1>2. IsFiniteSet(1..Len(q)) /\ Cardinality(1..Len(q)) = Len(q)
  BY <1>1, FS_Interval, SMTT(30)
<1>3. At(q, K) \in SUBSET (1..Len(q))
  BY DEF At
<1>4. IsFiniteSet(At(q, K)) /\ Cardinality(At(q, K)) <= Len(q)
  BY <1>2, <1>3, FS_Subset
<1> QED  BY <1>4, FS_CardinalityType DEF Count

\* Nothing is counted in the empty sequence.
LEMMA CountEmpty ==
    ASSUME NEW K
    PROVE  Count(<<>>, K) = 0
<1>1. At(<<>>, K) = {}
  BY DEF At
<1> QED  BY <1>1, FS_EmptySet DEF Count

\* A frame at the end counts as one of its kind.
LEMMA CountAppend ==
    ASSUME NEW F, NEW q \in Seq(F), NEW f \in F, NEW K
    PROVE  Count(Append(q, f), K) = Count(q, K) + IF f.kind \in K THEN 1 ELSE 0
<1> DEFINE r == Append(q, f)
<1>1. /\ Len(q) \in Nat /\ Len(r) = Len(q) + 1 /\ r[Len(q) + 1] = f
      /\ \A i \in 1..Len(q) : r[i] = q[i]
  BY AppendProperties, LenProperties
<1>2. At(r, K) = At(q, K) \cup IF f.kind \in K THEN {Len(q) + 1} ELSE {}
  BY <1>1 DEF At
<1>3. Len(q) + 1 \notin At(q, K)
  BY <1>1 DEF At
<1>4. IsFiniteSet(At(q, K)) /\ Count(q, K) \in Nat
  BY CountType
<1>5. CASE f.kind \in K
  BY <1>2, <1>3, <1>4, <1>5, FS_AddElement DEF Count
<1>6. CASE f.kind \notin K
  <2>1. At(r, K) = At(q, K)
    BY <1>2, <1>6
  <2> QED  BY <1>4, <1>6, <2>1 DEF Count
<1> QED  BY <1>5, <1>6

\* The first frame counts as one of its kind.
LEMMA CountTail ==
    ASSUME NEW F, NEW q \in Seq(F), q # <<>>, NEW K
    PROVE  Count(q, K) = Count(Tail(q), K) + IF Head(q).kind \in K THEN 1 ELSE 0
<1> DEFINE t == Tail(q)
           A == At(q, K) \ {1}
           B == At(t, K)
<1>1. /\ Len(q) \in Nat \ {0} /\ t \in Seq(F) /\ Len(t) = Len(q) - 1
      /\ \A i \in 1..Len(t) : t[i] = q[i + 1]
      /\ Head(q) = q[1]
  BY HeadTailProperties, LenProperties, EmptySeq
<1>2. /\ IsFiniteSet(At(q, K)) /\ Count(q, K) \in Nat /\ IsFiniteSet(B) /\ Count(t, K) \in Nat
  BY <1>1, CountType
<1>3. IsFiniteSet(A) /\ Cardinality(A) = IF 1 \in At(q, K) THEN Count(q, K) - 1 ELSE Count(q, K)
  BY <1>2, FS_RemoveElement DEF Count
<1>4. Cardinality(A) = Cardinality(B)
  <2> DEFINE g == [i \in B |-> i + 1]
  <2>1. \A i \in B : i \in Nat /\ i + 1 \in A
    BY <1>1 DEF At
  <2>2. \A j \in A : j \in Nat /\ j - 1 \in B /\ g[j - 1] = j
    BY <1>1 DEF At
  <2>3. g \in [B -> A]
    BY <2>1
  <2>4. \A i, j \in B : g[i] = g[j] => i = j
    BY <2>1
  <2>5. g \in Bijection(B, A)
    BY <2>2, <2>3, <2>4 DEF Bijection, Injection, Surjection, IsInjective
  <2> QED  BY <1>2, <2>5, FS_Bijection DEF ExistsBijection
<1>5. 1 \in At(q, K) <=> Head(q).kind \in K
  BY <1>1 DEF At
<1> QED  BY <1>2, <1>3, <1>4, <1>5 DEF Count

\* What is left of a sequence counts no more.
LEMMA CountPart ==
    ASSUME NEW F, NEW q \in Seq(F), NEW n \in 0..Len(q), NEW K
    PROVE  SubSeq(q, 1, n) \in Seq(F) /\ Count(SubSeq(q, 1, n), K) <= Count(q, K)
<1> DEFINE p == SubSeq(q, 1, n)
<1>1. Len(q) \in Nat /\ \A i \in 1..n : q[i] \in F
  BY LenProperties, ElementOfSeq
<1>2. p \in Seq(F) /\ Len(p) = n /\ \A i \in 1..n : p[i] = q[i]
  BY <1>1, SubSeqProperties, Z3
<1>3. At(p, K) \in SUBSET At(q, K)
  BY <1>1, <1>2 DEF At
<1>4. IsFiniteSet(At(q, K))
  BY CountType
<1> QED  BY <1>2, <1>3, <1>4, FS_Subset DEF Count

\* Frames of two kinds make up a sequence that has no others.
LEMMA CountAll ==
    ASSUME NEW F, NEW q \in Seq(F), NEW K, NEW L, K \cap L = {}, \A f \in F : f.kind \in K \cup L
    PROVE  Len(q) = Count(q, K) + Count(q, L)
<1>1. Len(q) \in Nat /\ \A i \in 1..Len(q) : q[i] \in F
  BY LenProperties, ElementOfSeq
<1>2. At(q, K) \cup At(q, L) = 1..Len(q) /\ At(q, K) \cap At(q, L) = {}
  BY <1>1 DEF At
<1>3. IsFiniteSet(At(q, K)) /\ IsFiniteSet(At(q, L))
  BY CountType
<1>4. Cardinality(1..Len(q)) = Len(q)
  BY <1>1, FS_Interval, SMTT(30)
<1>5. Cardinality(At(q, K) \cup At(q, L)) = Cardinality(At(q, K)) + Cardinality(At(q, L))
  <2>1. Cardinality(At(q, K) \cup At(q, L))
          = Cardinality(At(q, K)) + Cardinality(At(q, L)) - Cardinality(At(q, K) \cap At(q, L))
    BY <1>3, FS_Union
  <2>2. Cardinality(At(q, K) \cap At(q, L)) = 0
    BY <1>2, FS_EmptySet
  <2>3. Cardinality(At(q, K)) \in Nat /\ Cardinality(At(q, L)) \in Nat
    BY <1>3, FS_CardinalityType
  <2> QED  BY <2>1, <2>2, <2>3
<1> QED  BY <1>2, <1>4, <1>5 DEF Count

-----------------------------------------------------------------------------
(* What every step does to the frames.                                     *)

Kinds == {"start", "chunk", "eof", "error", "cancel", "ack", "nack", "failure", "credit"}

Frames == {f \in [kind : Kinds, n : Nat] : f.kind = "credit" => f.n = Batch}

OutFrames == {f \in Frames : f.kind \in {"chunk", "eof", "failure"}}
InFrames == {f \in Frames : f.kind \in {"chunk", "eof", "error"}}

Typed ==
    /\ down \in Seq(Frames) /\ up \in Seq(Frames) /\ outq \in Seq(OutFrames) /\ inq \in Seq(InFrames)
    /\ credq \in Seq({Batch}) /\ acredq \in Seq({Batch})

Chunks(q) == Count(q, {"chunk"})
Credits(q) == Count(q, {"credit"})
Ends(q) == Count(q, {"eof", "failure"})
Lasts(q) == Count(q, {"eof", "error"})
Starts(q) == Count(q, {"start"})

One(k, K) == IF k \in K THEN 1 ELSE 0

\* r holds what q holds and at most one frame of kind k more.
Grows(q, r, k) ==
    /\ Chunks(r) <= Chunks(q) + One(k, {"chunk"}) /\ Credits(r) <= Credits(q) + One(k, {"credit"})
    /\ Ends(r) <= Ends(q) + One(k, {"eof", "failure"})
    /\ Lasts(r) <= Lasts(q) + One(k, {"eof", "error"})
    /\ Starts(r) <= Starts(q) + One(k, {"start"})

\* q holds what r holds and one frame of kind k more.
Holds(q, r, k) ==
    /\ Chunks(q) = Chunks(r) + One(k, {"chunk"}) /\ Credits(q) = Credits(r) + One(k, {"credit"})
    /\ Ends(q) = Ends(r) + One(k, {"eof", "failure"})
    /\ Lasts(q) = Lasts(r) + One(k, {"eof", "error"})
    /\ Starts(q) = Starts(r) + One(k, {"start"})

Natural(q) ==
    Chunks(q) \in Nat /\ Credits(q) \in Nat /\ Ends(q) \in Nat /\ Lasts(q) \in Nat /\ Starts(q) \in Nat

\* All five counts are numbers.
LEMMA Naturals5 ==
    ASSUME NEW F, NEW q \in Seq(F)
    PROVE  Natural(q)
BY CountType DEF Natural, Chunks, Credits, Ends, Lasts, Starts

\* A frame put into a channel.
LEMMA Put ==
    ASSUME NEW F, NEW q \in Seq(F), NEW f \in F
    PROVE  Append(q, f) \in Seq(F) /\ Len(Append(q, f)) = Len(q) + 1 /\ Holds(Append(q, f), q, f.kind)
<1>1. \A K : Count(Append(q, f), K) = Count(q, K) + IF f.kind \in K THEN 1 ELSE 0
  BY CountAppend
<1>2. Append(q, f) \in Seq(F) /\ Len(Append(q, f)) = Len(q) + 1
  BY AppendProperties
<1>3. /\ Count(Append(q, f), {"chunk"}) = Count(q, {"chunk"}) + One(f.kind, {"chunk"})
      /\ Count(Append(q, f), {"credit"}) = Count(q, {"credit"}) + One(f.kind, {"credit"})
      /\ Count(Append(q, f), {"start"}) = Count(q, {"start"}) + One(f.kind, {"start"})
  BY <1>1 DEF One
<1>4. /\ Count(Append(q, f), {"eof", "failure"}) = Count(q, {"eof", "failure"}) + One(f.kind, {"eof", "failure"})
      /\ Count(Append(q, f), {"eof", "error"}) = Count(q, {"eof", "error"}) + One(f.kind, {"eof", "error"})
  BY <1>1 DEF One
<1> QED  BY <1>2, <1>3, <1>4 DEF Holds, Chunks, Credits, Ends, Lasts, Starts

\* A frame taken from a channel.
LEMMA Taken ==
    ASSUME NEW F, NEW q \in Seq(F), q # <<>>
    PROVE  /\ Tail(q) \in Seq(F) /\ Len(q) = Len(Tail(q)) + 1
           /\ Head(q) \in F /\ Holds(q, Tail(q), Head(q).kind)
<1> DEFINE f == Head(q)
<1>1. \A K : Count(q, K) = Count(Tail(q), K) + IF f.kind \in K THEN 1 ELSE 0
  BY CountTail
<1>2. Tail(q) \in Seq(F) /\ Len(q) = Len(Tail(q)) + 1 /\ f \in F
  BY HeadTailProperties, LenProperties
<1>3. /\ Count(q, {"chunk"}) = Count(Tail(q), {"chunk"}) + One(f.kind, {"chunk"})
      /\ Count(q, {"credit"}) = Count(Tail(q), {"credit"}) + One(f.kind, {"credit"})
      /\ Count(q, {"start"}) = Count(Tail(q), {"start"}) + One(f.kind, {"start"})
  BY <1>1 DEF One
<1>4. /\ Count(q, {"eof", "failure"}) = Count(Tail(q), {"eof", "failure"}) + One(f.kind, {"eof", "failure"})
      /\ Count(q, {"eof", "error"}) = Count(Tail(q), {"eof", "error"}) + One(f.kind, {"eof", "error"})
  BY <1>1 DEF One
<1> QED  BY <1>2, <1>3, <1>4 DEF Holds, Chunks, Credits, Ends, Lasts, Starts

\* A frame sent on the session, or lost because it has ended.
LEMMA Sent ==
    ASSUME NEW q \in Seq(Frames), NEW k \in Kinds, NEW n \in Nat, k = "credit" => n = Batch,
           NEW r \in {q, q \o <<Frame(k, n)>>}
    PROVE  r \in Seq(Frames) /\ Grows(q, r, k)
<1> DEFINE f == Frame(k, n)
<1>1. f \in Frames /\ f.kind = k
  BY DEF Frame, Frames
<1>2. Natural(q)
  BY Naturals5
<1>5. /\ One(k, {"chunk"}) \in Nat /\ One(k, {"credit"}) \in Nat /\ One(k, {"start"}) \in Nat
      /\ One(k, {"eof", "failure"}) \in Nat /\ One(k, {"eof", "error"}) \in Nat
  BY DEF One
<1>3. CASE r # q
  <2>1. r = Append(q, f)
    BY <1>1, <1>3, AppendIsConcat
  <2>2. Holds(r, q, k) /\ r \in Seq(Frames)
    BY <1>1, <2>1, Put
  <2>3. Natural(r)
    BY <2>2, Naturals5
  <2>4. \A a, b, c \in Nat : a = b + c => a <= b + c
    OBVIOUS
  <2>5. Grows(q, r, k)
    BY <1>2, <1>5, <2>2, <2>3, <2>4 DEF Holds, Grows, Natural
  <2> QED  BY <2>2, <2>5
<1>4. CASE r = q
  BY <1>2, <1>4, <1>5 DEF Grows, Natural
<1> QED  BY <1>3, <1>4

\* The last chunk of an input, sent with its end.
LEMMA SentTwo ==
    ASSUME NEW q \in Seq(Frames), NEW n \in Nat, NEW k \in {"eof", "error"},
           NEW r \in {q, q \o <<Frame("chunk", n), Frame(k, 0)>>}
    PROVE  /\ r \in Seq(Frames)
           /\ Chunks(r) <= Chunks(q) + 1 /\ Lasts(r) <= Lasts(q) + 1
           /\ Credits(r) <= Credits(q) /\ Starts(r) <= Starts(q)
<1> DEFINE f == Frame("chunk", n)
           g == Frame(k, 0)
<1>0. k \in Kinds /\ k # "credit" /\ "chunk" \in Kinds
  BY DEF Kinds
<1>1. f \in Frames /\ f.kind = "chunk" /\ g \in Frames /\ g.kind = k
  BY <1>0 DEF Frame, Frames
<1>2. Natural(q)
  BY Naturals5
<1>3. CASE r # q
  <2>0. <<f>> \in Seq(Frames) /\ <<g>> \in Seq(Frames) /\ <<f, g>> = <<f>> \o <<g>>
    BY <1>1
  <2>1. r = (q \o <<f>>) \o <<g>>
    BY <1>3, <2>0, ConcatAssociative
  <2>2. /\ q \o <<f>> = Append(q, f) /\ Append(q, f) \in Seq(Frames) /\ Holds(Append(q, f), q, "chunk")
    BY <1>1, AppendIsConcat, Put
  <2>3. r = Append(Append(q, f), g)
    BY <1>1, <2>1, <2>2, AppendIsConcat
  <2>4. r \in Seq(Frames) /\ Holds(r, Append(q, f), k)
    BY <1>1, <2>2, <2>3, Put
  <2>5. Natural(r) /\ Natural(Append(q, f))
    BY <2>2, <2>4, Naturals5
  <2> QED  BY <1>0, <1>2, <2>2, <2>4, <2>5 DEF Holds, Natural, One
<1>4. CASE r = q
  BY <1>2, <1>4 DEF Natural
<1> QED  BY <1>3, <1>4

-----------------------------------------------------------------------------
(* Types.                                                                  *)

\* What the bounds and the counters of a step need to know of the constants.
LEMMA Sizes ==
    ASSUME TypeOK
    PROVE  /\ Window \in Nat /\ Batch \in Nat /\ 1 <= Batch /\ Batch <= Window
           /\ site.in \in Nat /\ site.out \in Nat /\ site.max \in [Events -> Nat]
           /\ site.stdin \in BOOLEAN /\ site.broken \in BOOLEAN
           /\ \A n \in 0..Batch - 1 : Counted(n) \in 0..Batch - 1
BY WindowAssumption, SiteAssumption DEF TypeOK, SiteType, Counted

\* A refund leaves its channel.
LEMMA Refund ==
    ASSUME NEW q \in Seq({Batch}), q # <<>>
    PROVE  Head(q) = Batch /\ Tail(q) \in Seq({Batch}) /\ Len(q) = Len(Tail(q)) + 1
BY HeadTailProperties, LenProperties

\* A frame sent to the node.
LEMMA DownSends ==
    ASSUME Typed, NEW k \in Kinds, NEW n \in Nat, k = "credit" => n = Batch, Down(<<Frame(k, n)>>)
    PROVE  down' \in Seq(Frames) /\ Grows(down, down', k)
<1> DEFINE d == down'
<1>1. down \in Seq(Frames) /\ d \in {down, down \o <<Frame(k, n)>>}
  BY DEF Typed, Down
<1> HIDE DEF d
<1>2. d \in Seq(Frames) /\ Grows(down, d, k)
  BY <1>1, Sent
<1> QED  BY <1>2 DEF d

\* A frame sent by the node.
LEMMA UpSends ==
    ASSUME Typed, NEW k \in Kinds, NEW n \in Nat, k = "credit" => n = Batch, Up(<<Frame(k, n)>>)
    PROVE  up' \in Seq(Frames) /\ Grows(up, up', k)
<1> DEFINE u == up'
<1>1. up \in Seq(Frames) /\ u \in {up, up \o <<Frame(k, n)>>}
  BY DEF Typed, Up
<1> HIDE DEF u
<1>2. u \in Seq(Frames) /\ Grows(up, u, k)
  BY <1>1, Sent
<1> QED  BY <1>2 DEF u

\* The last chunk of an input and its end, sent to the node.
LEMMA DownSendsTwo ==
    ASSUME Typed, NEW k \in {"eof", "error"}, NEW n \in Nat, Down(<<Frame("chunk", n), Frame(k, 0)>>)
    PROVE  /\ down' \in Seq(Frames)
           /\ Chunks(down') <= Chunks(down) + 1 /\ Lasts(down') <= Lasts(down) + 1
           /\ Credits(down') <= Credits(down) /\ Starts(down') <= Starts(down)
<1> DEFINE d == down'
<1>1. down \in Seq(Frames) /\ d \in {down, down \o <<Frame("chunk", n), Frame(k, 0)>>}
  BY DEF Typed, Down
<1> HIDE DEF d
<1>2. /\ d \in Seq(Frames)
      /\ Chunks(d) <= Chunks(down) + 1 /\ Lasts(d) <= Lasts(down) + 1
      /\ Credits(d) <= Credits(down) /\ Starts(d) <= Starts(down)
  BY <1>1, SentTwo
<1> QED  BY <1>2 DEF d

\* A send of nothing.
LEMMA SendsNothing ==
    ASSUME Typed
    PROVE  (Down(<<>>) => down' = down) /\ (Up(<<>>) => up' = up)
<1>1. down \o <<>> = down /\ up \o <<>> = up
  BY ConcatEmptySeq DEF Typed
<1> QED  BY <1>1 DEF Down, Up

\* A frame the node takes in.
LEMMA Got ==
    ASSUME Typed, NEW k \in Kinds, Gets(k)
    PROVE  /\ down' \in Seq(Frames) /\ Head(down) \in Frames /\ Head(down).kind = k
           /\ Holds(down, down', k)
BY Taken DEF Gets, Typed

\* A frame the control plane takes in.
LEMMA Popped ==
    ASSUME Typed, Pops
    PROVE  /\ up' \in Seq(Frames) /\ Head(up) \in Frames /\ Holds(up, up', Head(up).kind)
BY Taken DEF Pops, Typed

\* TypeOK, the variables that range over a few values and those that count.
Words ==
    /\ site \in Sites /\ link \in {"up", "down", "shut"}
    /\ call \in {"new", "calling", "open", "closed", "over"}
    /\ sub \in {"none", "open", "gone", "failed"} /\ why \in {"none", "violated", "session"}
    /\ fin \in {"none", "eof", "failure", "refused", "cancelled", "violated", "session"}
    /\ ex \in {"none", "attaching", "relaying", "relayed", "over"}
    /\ stdin \in {"none", "eof", "broken"}
    /\ pump \in BOOLEAN /\ eof \in BOOLEAN /\ live \in BOOLEAN
    /\ stopped \in BOOLEAN /\ exited \in BOOLEAN /\ apump \in BOOLEAN

Numbers ==
    /\ Len(outq) <= Window + 1 /\ Len(credq) <= Window + 1
    /\ Len(inq) <= Window + 1 /\ Len(acredq) <= Window + 1
    /\ consumed \in 0..Batch - 1 /\ aconsumed \in 0..Batch - 1
    /\ pcredit \in 0..Window /\ rcredit \in 0..Window
    /\ sent \in 0..site.in /\ made \in 0..site.out
    /\ used \in [Events -> Nat]

LEMMA WordsAndNumbers == TypeOK <=> Words /\ Numbers
BY DEF TypeOK, Words, Numbers

\* Every step keeps the types.
LEMMA TypeStep == TypeOK /\ Typed /\ [Next]_vars => TypeOK' /\ Typed'
<1> SUFFICES ASSUME TypeOK, Typed, [Next]_vars PROVE TypeOK' /\ Typed'
  OBVIOUS
<1>0. /\ Window \in Nat /\ Batch \in Nat /\ 1 <= Batch /\ Batch <= Window
      /\ site.in \in Nat /\ site.out \in Nat /\ site.max \in [Events -> Nat]
      /\ site.stdin \in BOOLEAN /\ site.broken \in BOOLEAN
      /\ \A n \in 0..Batch - 1 : Counted(n) \in 0..Batch - 1
  BY Sizes
<1>w. Words /\ Numbers
  BY WordsAndNumbers
<1>v. Words' /\ Numbers' => TypeOK'
  BY DEF TypeOK, Words, Numbers
<1>a. /\ Len(outq) \in Nat /\ Len(credq) \in Nat /\ Len(inq) \in Nat /\ Len(acredq) \in Nat
  BY LenProperties DEF Typed
<1>c. /\ sent \in Nat /\ sent <= site.in /\ made \in Nat /\ made <= site.out
      /\ pcredit \in Nat /\ pcredit <= Window /\ rcredit \in Nat /\ rcredit <= Window
  BY <1>0 DEF TypeOK
<1>b. \A e \in Events : Once(e) => used' \in [Events -> Nat]
  BY DEF Once, TypeOK
<1>k. /\ "start" \in Kinds /\ "chunk" \in Kinds /\ "cancel" \in Kinds /\ "ack" \in Kinds /\ "nack" \in Kinds
      /\ "eof" \in Kinds /\ "error" \in Kinds /\ "failure" \in Kinds /\ "credit" \in Kinds
  BY DEF Kinds
<1> USE DEF linkVars, readVars, pumpVars, relayVars, stdinVars, controlVars, nodeVars
<1>1. CASE Start
  <2>1. down' \in Seq(Frames)
    BY <1>k, <1>1, DownSends DEF Start
  <2>2. TypeOK'
    BY <1>1 DEF Start, TypeOK
  <2> QED  BY <1>1, <2>1, <2>2 DEF Typed, Start
<1>2. CASE GiveUp
  <2>1. down' \in Seq(Frames)
    BY <1>k, <1>2, DownSends DEF GiveUp, CallFails, Closes
  <2>2. TypeOK'
    BY <1>b, <1>2, SMTT(30) DEF TypeOK, GiveUp, CallFails, Closes, Finish, Events
  <2> QED  BY <1>2, <2>1, <2>2 DEF Typed, GiveUp
<1>3. CASE RecvAck
  <2>1. up' \in Seq(Frames)
    BY <1>3, Popped DEF RecvAck
  <2>2. down' \in Seq(Frames)
    BY <1>k, <1>3, DownSends DEF RecvAck, CallFails, Typed
  <2>3. TypeOK'
    <3>1. pump' \in BOOLEAN
      <4>1. pump \in BOOLEAN /\ pump' \in {pump, site.stdin}
        BY <1>3 DEF TypeOK, RecvAck
      <4> QED  BY <1>0, <4>1
    <3>2. /\ call' \in {"new", "calling", "open", "closed", "over"}
          /\ sub' \in {"none", "open", "gone", "failed"}
          /\ fin' \in {"none", "eof", "failure", "refused", "cancelled", "violated", "session"}
      BY <1>3 DEF TypeOK, RecvAck, CallFails, Finish
    <3> QED  BY <1>3, <3>1, <3>2 DEF TypeOK, RecvAck, Pops
  <2> QED  BY <1>3, <2>1, <2>2, <2>3 DEF Typed, RecvAck
<1>4. CASE RecvOutput
  <2>1. up' \in Seq(Frames) /\ Head(up) \in OutFrames
    BY <1>4, Popped DEF RecvOutput, OutFrames
  <2>2. outq' \in Seq(OutFrames) /\ Len(outq') <= Window + 1
    <3>1. CASE outq' = outq
      BY <3>1 DEF TypeOK, Typed
    <3>2. CASE outq' # outq
      <4>1. outq' = Append(outq, Head(up)) /\ Len(outq) <= Window
        BY <1>4, <3>2 DEF RecvOutput
      <4> QED  BY <1>0, <1>a, <2>1, <4>1, AppendProperties DEF Typed
    <3> QED  BY <3>1, <3>2
  <2>3. TypeOK'
    BY <1>4, <2>2 DEF TypeOK, RecvOutput, Pops, FailExec
  <2> QED  BY <1>4, <2>1, <2>2, <2>3 DEF Typed, RecvOutput
<1>5. CASE RecvCredit
  <2>1. up' \in Seq(Frames) /\ Head(up).n = Batch
    BY <1>5, Popped DEF RecvCredit, Pops, Frames
  <2>2. credq' \in Seq({Batch}) /\ Len(credq') <= Window + 1
    <3>1. CASE credq' = credq
      BY <3>1 DEF TypeOK, Typed
    <3>2. CASE credq' # credq
      <4>1. credq' = Append(credq, Batch) /\ Len(credq) <= Window
        BY <1>5, <2>1, <3>2 DEF RecvCredit
      <4> QED  BY <1>0, <1>a, <4>1, AppendProperties DEF Typed
    <3> QED  BY <3>1, <3>2
  <2>3. TypeOK'
    BY <1>5, <2>2 DEF TypeOK, RecvCredit, Pops, FailExec
  <2> QED  BY <1>5, <2>1, <2>2, <2>3 DEF Typed, RecvCredit
<1>6. CASE Shutdown
  <2>1. TypeOK'
    BY <1>6 DEF TypeOK, Shutdown
  <2> QED  BY <1>6, <2>1 DEF Typed, Shutdown
<1>7. CASE ReadChunk
  <2>1. outq' \in Seq(OutFrames) /\ Len(outq') <= Window + 1
    BY <1>0, <1>a, <1>7, HeadTailProperties DEF ReadChunk, TypeOK, Typed
  <2>2. down' \in Seq(Frames)
    BY <1>0, <1>k, <1>7, DownSends, SendsNothing DEF ReadChunk, Typed
  <2>3. TypeOK'
    BY <1>0, <1>7, <2>1 DEF TypeOK, ReadChunk
  <2> QED  BY <1>7, <2>1, <2>2, <2>3 DEF Typed, ReadChunk
<1>8. CASE ReadEnd
  <2>1. outq # <<>> => Head(outq) \in OutFrames
    BY HeadTailProperties DEF Typed
  <2>2. \/ Finish("cancelled")
        \/ outq = <<>> /\ sub = "failed" /\ Finish(why)
        \/ Finish("eof")
        \/ Finish("failure")
    BY <1>8, <2>1 DEF ReadEnd, OutFrames
  <2>3. TypeOK'
    BY <1>8, <2>2 DEF TypeOK, ReadEnd, Finish
  <2> QED  BY <1>8, <2>3 DEF Typed, ReadEnd
<1>9. CASE PumpChunk
  <2>1. down' \in Seq(Frames)
    <3>1. sent' \in Nat /\ Down(<<Frame("chunk", sent')>>)
      BY <1>c, <1>9 DEF PumpChunk
    <3> QED  BY <1>k, <3>1, DownSends
  <2>2. TypeOK'
    <3>1. sent' \in 0..site.in /\ pcredit' \in 0..Window /\ site' = site
      BY <1>0, <1>c, <1>9 DEF PumpChunk
    <3> QED  BY <1>9, <3>1 DEF TypeOK, PumpChunk
  <2> QED  BY <1>9, <2>1, <2>2 DEF Typed, PumpChunk
<1>10. CASE PumpEnd
  <2>1. LastInput \in {Frame("eof", 0), Frame("error", 0)}
    BY DEF LastInput
  <2>2. down' \in Seq(Frames)
    <3>1. CASE Down(<<LastInput>>)
      BY <1>k, <2>1, <3>1, DownSends
    <3>2. CASE Down(<<Frame("chunk", sent'), LastInput>>)
      <4>1. sent' \in Nat
        BY <1>c, <1>10 DEF PumpEnd
      <4> QED  BY <2>1, <3>2, <4>1, DownSendsTwo
    <3> QED  BY <1>10, <3>1, <3>2 DEF PumpEnd
  <2>3. TypeOK'
    <3>1. sent' \in 0..site.in /\ site' = site
      BY <1>0, <1>c, <1>10 DEF PumpEnd
    <3>2. pump' \in BOOLEAN /\ eof' \in BOOLEAN
      BY <1>10 DEF PumpEnd
    <3> QED  BY <1>10, <3>1, <3>2 DEF TypeOK, PumpEnd
  <2> QED  BY <1>10, <2>2, <2>3 DEF Typed, PumpEnd
<1>11. CASE PumpRefunded
  <2>1. Head(credq) = Batch /\ credq' \in Seq({Batch}) /\ Len(credq') <= Window + 1
    <3>1. credq # <<>> /\ credq' = Tail(credq) /\ credq \in Seq({Batch}) /\ Len(credq) <= Window + 1
      BY <1>11, <1>w DEF Typed, PumpRefunded, Numbers
    <3>2. Head(credq) = Batch /\ Tail(credq) \in Seq({Batch}) /\ Len(credq) = Len(Tail(credq)) + 1
      BY <3>1, Refund
    <3> QED  BY <1>0, <3>1, <3>2, LenProperties
  <2>2. TypeOK'
    <3>1. Words'
      BY <1>w, <1>11 DEF Words, PumpRefunded
    <3>2. pcredit' \in 0..Window
      BY <1>0, <1>11, <2>1, SMTT(30) DEF PumpRefunded
    <3>3. Numbers'
      BY <1>w, <1>11, <2>1, <3>2 DEF Numbers, PumpRefunded
    <3> QED  BY <3>1, <3>3, <1>v
  <2> QED  BY <1>11, <2>1, <2>2 DEF Typed, PumpRefunded
<1>12. CASE PumpStops
  <2>1. TypeOK'
    <3>0. pump' \in BOOLEAN
      BY <1>w, <1>12 DEF Words, PumpStops
    <3>1. Words'
      BY <1>w, <1>12, <3>0 DEF Words, PumpStops
    <3>2. Numbers'
      BY <1>w, <1>12 DEF Numbers, PumpStops
    <3> QED  BY <3>1, <3>2, <1>v
  <2> QED  BY <1>12, <2>1 DEF Typed, PumpStops
<1>13. CASE GetStart
  <2>1. down' \in Seq(Frames)
    BY <1>k, <1>13, Got DEF GetStart
  <2>2. TypeOK'
    <3>1. apump' \in BOOLEAN
      BY <1>0, <1>13 DEF GetStart
    <3> QED  BY <1>13, <3>1 DEF TypeOK, GetStart, Gets
  <2> QED  BY <1>13, <2>1, <2>2 DEF Typed, GetStart
<1>14. CASE GetInput
  <2>1. down' \in Seq(Frames) /\ Head(down) \in InFrames
    BY <1>k, <1>14, Got DEF GetInput, InFrames
  <2>2. up' \in Seq(Frames)
    BY <1>k, <1>14, UpSends DEF GetInput, RelayFails, Typed
  <2>3. inq' \in Seq(InFrames) /\ Len(inq') <= Window + 1
    <3>1. CASE inq' = inq
      BY <3>1 DEF TypeOK, Typed
    <3>2. CASE inq' # inq
      <4>1. inq' = Append(inq, Head(down)) /\ Len(inq) <= Window
        BY <1>14, <3>2 DEF GetInput
      <4> QED  BY <1>0, <1>a, <2>1, <4>1, AppendProperties DEF Typed
    <3> QED  BY <3>1, <3>2
  <2>4. TypeOK'
    <3>0. live' \in BOOLEAN /\ stopped' \in BOOLEAN /\ stdin' \in {"none", "eof", "broken"}
      BY <1>w, <1>14 DEF Words, GetInput, Gets, RelayFails, Stop
    <3>1. Words'
      BY <1>w, <1>14, <3>0 DEF Words, GetInput, Gets, RelayFails, Stop
    <3>2. Numbers'
      BY <1>w, <1>14, <2>3 DEF Numbers, GetInput, Gets, RelayFails, Stop
    <3> QED  BY <3>1, <3>2, <1>v
  <2> QED  BY <1>14, <2>1, <2>2, <2>3, <2>4 DEF Typed, GetInput
<1>15. CASE GetCredit
  <2>1. down' \in Seq(Frames) /\ Head(down).n = Batch
    BY <1>k, <1>15, Got DEF GetCredit, Frames
  <2>2. up' \in Seq(Frames)
    BY <1>k, <1>15, UpSends DEF GetCredit, RelayFails, Typed
  <2>3. acredq' \in Seq({Batch}) /\ Len(acredq') <= Window + 1
    <3>1. CASE acredq' = acredq
      BY <3>1 DEF TypeOK, Typed
    <3>2. CASE acredq' # acredq
      <4>1. acredq' = Append(acredq, Batch) /\ Len(acredq) <= Window
        BY <1>15, <2>1, <3>2 DEF GetCredit
      <4> QED  BY <1>0, <1>a, <4>1, AppendProperties DEF Typed
    <3> QED  BY <3>1, <3>2
  <2>4. TypeOK'
    <3>0. live' \in BOOLEAN /\ stopped' \in BOOLEAN /\ stdin' \in {"none", "eof", "broken"}
      BY <1>w, <1>15 DEF Words, GetCredit, Gets, RelayFails, Stop
    <3>1. Words'
      BY <1>w, <1>15, <3>0 DEF Words, GetCredit, Gets, RelayFails, Stop
    <3>2. Numbers'
      BY <1>w, <1>15, <2>3 DEF Numbers, GetCredit, Gets, RelayFails, Stop
    <3> QED  BY <3>1, <3>2, <1>v
  <2> QED  BY <1>15, <2>1, <2>2, <2>3, <2>4 DEF Typed, GetCredit
<1>16. CASE Cancelled
  <2>1. down' \in Seq(Frames)
    BY <1>k, <1>16, Got DEF Cancelled, Typed
  <2>2. TypeOK'
    <3>0. live' \in BOOLEAN /\ stopped' \in BOOLEAN /\ stdin' \in {"none", "eof", "broken"}
      BY <1>w, <1>16 DEF Words, Cancelled, Gets, Stop
    <3>1. Words'
      BY <1>w, <1>16, <3>0 DEF Words, Cancelled, Gets, Stop
    <3>2. Numbers'
      BY <1>w, <1>16 DEF Numbers, Cancelled, Gets, Stop
    <3> QED  BY <3>1, <3>2, <1>v
  <2> QED  BY <1>16, <2>1, <2>2 DEF Typed, Cancelled
<1>17. CASE Attach
  <2>1. up' \in Seq(Frames)
    BY <1>k, <1>17, UpSends DEF Attach, Typed
  <2>2. TypeOK'
    <3>0. live' \in BOOLEAN /\ stopped' \in BOOLEAN /\ stdin' \in {"none", "eof", "broken"} /\ ex' \in {"relaying", "over"}
      BY <1>w, <1>17 DEF Words, Attach, Stop
    <3>1. Words'
      BY <1>w, <1>17, <3>0 DEF Words, Attach, Stop
    <3>2. Numbers'
      BY <1>w, <1>17, <1>b DEF Numbers, Attach, Stop, Events
    <3> QED  BY <3>1, <3>2, <1>v
  <2> QED  BY <1>17, <2>1, <2>2 DEF Typed, Attach
<1>18. CASE RelayRefunded
  <2>1. Head(acredq) = Batch /\ acredq' \in Seq({Batch}) /\ Len(acredq') <= Window + 1
    BY <1>0, <1>a, <1>18, Refund, SMTT(30) DEF TypeOK, Typed, RelayRefunded
  <2>2. TypeOK'
    <3>1. Words'
      BY <1>w, <1>18 DEF Words, RelayRefunded
    <3>2. rcredit' \in 0..Window
      BY <1>0, <1>18, <2>1 DEF RelayRefunded
    <3>3. Numbers'
      BY <1>w, <1>18, <2>1, <3>2 DEF Numbers, RelayRefunded
    <3> QED  BY <3>1, <3>3, <1>v
  <2> QED  BY <1>18, <2>1, <2>2 DEF Typed, RelayRefunded
<1>19. CASE RelayEnds
  <2>1. up' \in Seq(Frames)
    BY <1>k, <1>19, UpSends DEF RelayEnds, Typed
  <2>2. TypeOK'
    BY <1>19 DEF TypeOK, RelayEnds
  <2> QED  BY <1>19, <2>1, <2>2 DEF Typed, RelayEnds
<1>20. CASE RunEnds
  <2>1. TypeOK'
    <3>0. live' \in BOOLEAN /\ stopped' \in BOOLEAN /\ stdin' \in {"none", "eof", "broken"}
      BY <1>w, <1>20 DEF Words, RunEnds, Stop
    <3>1. Words'
      BY <1>w, <1>20, <3>0 DEF Words, RunEnds, Stop
    <3>2. Numbers'
      BY <1>w, <1>20 DEF Numbers, RunEnds, Stop
    <3> QED  BY <3>1, <3>2, <1>v
  <2> QED  BY <1>20, <2>1 DEF Typed, RunEnds
<1>21. CASE RelayChunk
  <2>1. up' \in Seq(Frames)
    <3>1. made' \in Nat /\ Up(<<Frame("chunk", made')>>)
      BY <1>c, <1>21 DEF RelayChunk
    <3> QED  BY <1>k, <3>1, UpSends
  <2>2. TypeOK'
    <3>1. made' \in 0..site.out /\ rcredit' \in 0..Window /\ site' = site
      BY <1>0, <1>c, <1>21 DEF RelayChunk
    <3> QED  BY <1>21, <3>1 DEF TypeOK, RelayChunk
  <2> QED  BY <1>21, <2>1, <2>2 DEF Typed, RelayChunk
<1>22. CASE CommandExits
  <2>1. TypeOK'
    BY <1>22 DEF TypeOK, CommandExits
  <2> QED  BY <1>22, <2>1 DEF Typed, CommandExits
<1>23. CASE StdinChunk
  <2>1. inq' \in Seq(InFrames) /\ Len(inq') <= Window + 1
    BY <1>0, <1>a, <1>23, HeadTailProperties DEF StdinChunk, TypeOK, Typed
  <2>2. up' \in Seq(Frames)
    BY <1>0, <1>k, <1>23, UpSends, SendsNothing DEF StdinChunk, Typed
  <2>3. TypeOK'
    BY <1>0, <1>23, <2>1 DEF TypeOK, StdinChunk
  <2> QED  BY <1>23, <2>1, <2>2, <2>3 DEF Typed, StdinChunk
<1>24. CASE StdinEof
  <2>1. inq' \in Seq(InFrames) /\ Len(inq') <= Window + 1
    BY <1>0, <1>a, <1>24, HeadTailProperties DEF StdinEof, TypeOK, Typed
  <2>2. TypeOK'
    <3>0. apump' \in BOOLEAN /\ stdin' \in {"none", "eof", "broken"}
      BY <1>w, <1>24 DEF Words, StdinEof
    <3>1. Words'
      BY <1>w, <1>24, <3>0 DEF Words, StdinEof
    <3>2. Numbers'
      BY <1>w, <1>24, <2>1 DEF Numbers, StdinEof
    <3> QED  BY <3>1, <3>2, <1>v
  <2> QED  BY <1>24, <2>1, <2>2 DEF Typed, StdinEof
<1>25. CASE StdinError
  <2>1. inq' \in Seq(InFrames) /\ Len(inq') <= Window + 1
    BY <1>0, <1>a, <1>25, HeadTailProperties DEF StdinError, TypeOK, Typed
  <2>2. up' \in Seq(Frames)
    BY <1>k, <1>25, UpSends DEF StdinError, RelayFails, Typed
  <2>3. TypeOK'
    <3>0. live' \in BOOLEAN /\ stopped' \in BOOLEAN /\ stdin' \in {"none", "eof", "broken"} /\ apump' \in BOOLEAN
      BY <1>w, <1>25 DEF Words, StdinError, RelayFails, Stop
    <3>1. Words'
      BY <1>w, <1>25, <3>0 DEF Words, StdinError, RelayFails, Stop
    <3>2. Numbers'
      BY <1>w, <1>25, <2>1 DEF Numbers, StdinError, RelayFails, Stop
    <3> QED  BY <3>1, <3>2, <1>v
  <2> QED  BY <1>25, <2>1, <2>2, <2>3 DEF Typed, StdinError
<1>26. CASE StdinStops
  <2>1. TypeOK'
    <3>0. apump' \in BOOLEAN
      BY <1>w, <1>26 DEF Words, StdinStops
    <3>1. Words'
      BY <1>w, <1>26, <3>0 DEF Words, StdinStops
    <3>2. Numbers'
      BY <1>w, <1>26 DEF Numbers, StdinStops
    <3> QED  BY <3>1, <3>2, <1>v
  <2> QED  BY <1>26, <2>1 DEF Typed, StdinStops
<1>27. CASE LinkEnds
  <2>1. down' \in Seq(Frames) /\ up' \in Seq(Frames)
    BY <1>27, CountPart DEF LinkEnds, Typed
  <2>2. TypeOK'
    BY <1>b, <1>27 DEF TypeOK, LinkEnds, Events
  <2> QED  BY <1>27, <2>1, <2>2 DEF Typed, LinkEnds
<1>28. CASE UNCHANGED vars
  BY <1>28 DEF TypeOK, Typed, vars
<1> QED  BY <1>1, <1>2, <1>3, <1>4, <1>5, <1>6, <1>7, <1>8, <1>9, <1>10, <1>11, <1>12, <1>13, <1>14,
            <1>15, <1>16, <1>17, <1>18, <1>19, <1>20, <1>21, <1>22, <1>23, <1>24, <1>25, <1>26,
            <1>27, <1>28
         DEF Next, RecvLoop, Reader, Pump, NodeLoop, Run, StdinPump

\* The first state has its types.
LEMMA TypeInit == Init => TypeOK /\ Typed
<1> SUFFICES ASSUME Init PROVE TypeOK /\ Typed
  OBVIOUS
<1>1. Words
  BY DEF Init, Words
<1>2. Numbers
  <2>1. Window \in Nat /\ Batch \in Nat /\ 1 <= Batch /\ site.in \in Nat /\ site.out \in Nat
    BY WindowAssumption, SiteAssumption DEF Init, SiteType
  <2>2. Len(outq) = 0 /\ Len(credq) = 0 /\ Len(inq) = 0 /\ Len(acredq) = 0
    BY DEF Init
  <2> QED  BY <2>1, <2>2 DEF Init, Numbers
<1>3. Typed
  BY DEF Init, Typed
<1> QED  BY <1>1, <1>2, <1>3, WordsAndNumbers

\* Every variable of an exec keeps its type: no queue grows past the channel's length, and no
\* credit or count leaves its range.
THEOREM TypeCorrect == Spec => []TypeOK
<1> QED  BY TypeInit, TypeStep, PTL DEF Spec

-----------------------------------------------------------------------------
(* What every step does to the frames in flight.                           *)

UpSame == Chunks(up') <= Chunks(up) /\ Credits(up') <= Credits(up) /\ Ends(up') <= Ends(up)

DownSame ==
    /\ Chunks(down') <= Chunks(down) /\ Credits(down') <= Credits(down)
    /\ Lasts(down') <= Lasts(down) /\ Starts(down') <= Starts(down)

\* A frame of another kind, or one that leaves, does not raise a count.
LEMMA UpCalm ==
    ASSUME Typed, up' = up \/ Pops \/ Up(<<Frame("ack", 0)>>) \/ Up(<<Frame("nack", 0)>>)
    PROVE  UpSame
<1>1. CASE up' = up
  <2>1. Natural(up)
    BY Naturals5 DEF Typed
  <2> QED  BY <1>1, <2>1 DEF UpSame, Natural
<1>2. CASE Pops
  <2>1. up' \in Seq(Frames) /\ Holds(up, up', Head(up).kind)
    BY <1>2, Popped
  <2>2. Natural(up) /\ Natural(up')
    BY <2>1, Naturals5 DEF Typed
  <2> QED  BY <2>1, <2>2, SMTT(30) DEF Holds, Natural, UpSame, One
<1>3. ASSUME NEW k \in {"ack", "nack"}, Up(<<Frame(k, 0)>>) PROVE UpSame
  <2>1. up' \in Seq(Frames) /\ Grows(up, up', k)
    BY <1>3, UpSends DEF Kinds
  <2>2. Natural(up) /\ Natural(up')
    BY <2>1, Naturals5 DEF Typed
  <2> QED  BY <2>1, <2>2, SMTT(30) DEF Grows, Natural, UpSame, One
<1> QED  BY <1>1, <1>2, <1>3

\* The same to the node.
LEMMA DownCalm ==
    ASSUME Typed, down' = down \/ Down(<<Frame("cancel", 0)>>) \/ \E k \in Kinds : Gets(k)
    PROVE  DownSame
<1>1. CASE down' = down
  <2>1. Natural(down)
    BY Naturals5 DEF Typed
  <2> QED  BY <1>1, <2>1 DEF DownSame, Natural
<1>2. ASSUME NEW k \in Kinds, Gets(k) PROVE DownSame
  <2>1. down' \in Seq(Frames) /\ Holds(down, down', k)
    BY <1>2, Got
  <2>2. Natural(down) /\ Natural(down')
    BY <2>1, Naturals5 DEF Typed
  <2> QED  BY <2>1, <2>2, SMTT(30) DEF Holds, Natural, DownSame, One
<1>3. CASE Down(<<Frame("cancel", 0)>>)
  <2>1. down' \in Seq(Frames) /\ Grows(down, down', "cancel")
    BY <1>3, DownSends DEF Kinds
  <2>2. Natural(down) /\ Natural(down')
    BY <2>1, Naturals5 DEF Typed
  <2> QED  BY <2>1, <2>2, SMTT(30) DEF Grows, Natural, DownSame, One
<1> QED  BY <1>1, <1>2, <1>3

\* What a broken connection still delivers was sent.
LEMMA LinkCalm == Typed /\ LinkEnds => UpSame /\ DownSame
<1> SUFFICES ASSUME Typed, LinkEnds PROVE UpSame /\ DownSame
  OBVIOUS
<1>1. PICK n \in 0..Len(down) : down' = SubSeq(down, 1, n)
  BY DEF LinkEnds
<1>2. PICK m \in 0..Len(up) : up' = SubSeq(up, 1, m)
  BY DEF LinkEnds
<1>3. \A K : Count(SubSeq(down, 1, n), K) <= Count(down, K)
  BY CountPart DEF Typed
<1>4. \A K : Count(SubSeq(up, 1, m), K) <= Count(up, K)
  BY CountPart DEF Typed
<1>5. DownSame
  BY <1>1, <1>3 DEF DownSame, Chunks, Credits, Lasts, Starts
<1>6. UpSame
  BY <1>2, <1>4 DEF UpSame, Chunks, Credits, Ends
<1> QED  BY <1>5, <1>6

\* Only relayOutput sends chunks and its end, only the input's pump sends refunds, and whoever
\* reports a failure has ended the exec.
LEMMA UpFlow ==
    ASSUME TypeOK, Typed, [Next]_vars
    PROVE  \/ UpSame
           \/ RelayChunk /\ Grows(up, up', "chunk")
           \/ StdinChunk /\ Grows(up, up', "credit")
           \/ RelayEnds /\ \E k \in {"eof", "failure"} : Grows(up, up', k)
           \/ (GetInput \/ GetCredit \/ StdinError) /\ live /\ ~live' /\ Grows(up, up', "failure")
<1>0. Batch \in Nat /\ made \in Nat
  BY WindowAssumption, SiteAssumption DEF TypeOK, SiteType
<1>k. /\ "chunk" \in Kinds /\ "eof" \in Kinds /\ "failure" \in Kinds /\ "credit" \in Kinds
  BY DEF Kinds
<1> USE DEF linkVars, readVars, pumpVars, relayVars, stdinVars, controlVars, nodeVars
<1>1. CASE RecvAck \/ RecvOutput \/ RecvCredit
  BY <1>1, UpCalm DEF RecvAck, RecvOutput, RecvCredit
<1>2. CASE Start \/ GiveUp \/ Shutdown \/ Reader \/ Pump
  BY <1>2, UpCalm DEF Start, GiveUp, Shutdown, Reader, Pump, ReadChunk, ReadEnd,
                      PumpChunk, PumpEnd, PumpRefunded, PumpStops
<1>3. CASE GetStart \/ Cancelled \/ RelayRefunded \/ RunEnds \/ CommandExits \/ StdinEof \/ StdinStops
  BY <1>3, UpCalm DEF GetStart, Cancelled, RelayRefunded, RunEnds, CommandExits, StdinEof, StdinStops
<1>4. CASE GetInput \/ GetCredit \/ StdinError
  <2>1. CASE up' = up
    BY <2>1, UpCalm
  <2>2. CASE up' # up
    <3>1. live /\ ~live' /\ Up(<<Frame("failure", 0)>>)
      BY <1>4, <2>2 DEF GetInput, GetCredit, StdinError, RelayFails
    <3> QED  BY <1>k, <1>4, <3>1, UpSends
  <2> QED  BY <2>1, <2>2
<1>5. CASE Attach
  BY <1>5, UpCalm DEF Attach
<1>6. CASE RelayEnds
  <2>1. CASE up' = up
    BY <2>1, UpCalm
  <2>2. CASE up' # up
    <3>1. PICK k \in {"eof", "failure"} : Up(<<Frame(k, 0)>>)
      BY <1>6, <2>2 DEF RelayEnds
    <3> QED  BY <1>k, <1>6, <3>1, UpSends
  <2> QED  BY <2>1, <2>2
<1>7. CASE RelayChunk
  <2>1. made' \in Nat /\ Up(<<Frame("chunk", made')>>)
    BY <1>0, <1>7 DEF RelayChunk
  <2> QED  BY <1>k, <1>7, <2>1, UpSends
<1>8. CASE StdinChunk
  <2>1. Up(<<Frame("credit", Batch)>>) \/ up' = up
    BY <1>8, SendsNothing DEF StdinChunk
  <2> QED  BY <1>0, <1>k, <1>8, <2>1, UpCalm, UpSends
<1>9. CASE LinkEnds
  BY <1>9, LinkCalm
<1>10. CASE UNCHANGED vars
  BY <1>10, UpCalm DEF vars
<1> QED  BY <1>1, <1>2, <1>3, <1>4, <1>5, <1>6, <1>7, <1>8, <1>9, <1>10
         DEF Next, RecvLoop, NodeLoop, Run, StdinPump

\* Only startExec sends the start, only the pump sends chunks and their end, only Read refunds.
LEMMA DownFlow ==
    ASSUME TypeOK, Typed, [Next]_vars
    PROVE  \/ DownSame
           \/ Start /\ Grows(down, down', "start")
           \/ ReadChunk /\ consumed' = 0 /\ Grows(down, down', "credit")
           \/ PumpChunk /\ Grows(down, down', "chunk")
           \/ /\ PumpEnd /\ Chunks(down') <= Chunks(down) + 1 /\ Lasts(down') <= Lasts(down) + 1
              /\ Credits(down') <= Credits(down) /\ Starts(down') <= Starts(down)
<1>0. Batch \in Nat /\ sent \in Nat
  BY WindowAssumption, SiteAssumption DEF TypeOK, SiteType
<1>k. /\ "chunk" \in Kinds /\ "eof" \in Kinds /\ "error" \in Kinds /\ "credit" \in Kinds
      /\ "start" \in Kinds /\ "cancel" \in Kinds
  BY DEF Kinds
<1> USE DEF linkVars, readVars, pumpVars, relayVars, stdinVars, controlVars, nodeVars
<1>1. CASE GetStart \/ GetInput \/ GetCredit \/ Cancelled
  BY <1>k, <1>1, DownCalm DEF GetStart, GetInput, GetCredit, Cancelled
<1>2. CASE GiveUp
  BY <1>2, DownCalm DEF GiveUp, CallFails, Closes
<1>3. CASE RecvAck
  BY <1>3, DownCalm DEF RecvAck, CallFails
<1>4. CASE RecvOutput \/ RecvCredit \/ Shutdown \/ ReadEnd \/ PumpRefunded \/ PumpStops
  BY <1>4, DownCalm DEF RecvOutput, RecvCredit, Shutdown, ReadEnd, PumpRefunded, PumpStops
<1>5. CASE Run \/ RelayChunk \/ CommandExits \/ StdinPump
  BY <1>5, DownCalm DEF Run, Attach, RelayRefunded, RelayEnds, RunEnds, RelayChunk, CommandExits,
                        StdinPump, StdinChunk, StdinEof, StdinError, StdinStops
<1>6. CASE Start
  BY <1>k, <1>6, DownSends DEF Start
<1>7. CASE ReadChunk
  <2>1. CASE consumed' = 0
    BY <1>0, <1>k, <1>7, <2>1, DownSends DEF ReadChunk
  <2>2. CASE consumed' # 0
    BY <1>7, <2>2, SendsNothing, DownCalm DEF ReadChunk
  <2> QED  BY <2>1, <2>2
<1>8. CASE PumpChunk
  <2>1. sent' \in Nat /\ Down(<<Frame("chunk", sent')>>)
    BY <1>0, <1>8 DEF PumpChunk
  <2> QED  BY <1>k, <1>8, <2>1, DownSends
<1>9. CASE PumpEnd
  <2>1. LastInput \in {Frame("eof", 0), Frame("error", 0)}
    BY DEF LastInput
  <2>2. Natural(down)
    BY Naturals5 DEF Typed
  <2>3. ASSUME NEW k \in {"eof", "error"}, Down(<<Frame(k, 0)>>)
        PROVE  /\ Chunks(down') <= Chunks(down) + 1 /\ Lasts(down') <= Lasts(down) + 1
               /\ Credits(down') <= Credits(down) /\ Starts(down') <= Starts(down)
    <3>1. down' \in Seq(Frames) /\ Grows(down, down', k)
      BY <1>k, <2>3, DownSends
    <3>2. Natural(down')
      BY <3>1, Naturals5
    <3> QED  BY <2>2, <3>1, <3>2 DEF Grows, Natural, One
  <2>4. ASSUME Down(<<Frame("chunk", sent'), LastInput>>)
        PROVE  /\ Chunks(down') <= Chunks(down) + 1 /\ Lasts(down') <= Lasts(down) + 1
               /\ Credits(down') <= Credits(down) /\ Starts(down') <= Starts(down)
    <3>1. sent' \in Nat
      BY <1>0, <1>9 DEF PumpEnd
    <3> QED  BY <2>1, <2>4, <3>1, DownSendsTwo
  <2> QED  BY <1>9, <2>1, <2>3, <2>4 DEF PumpEnd
<1>10. CASE LinkEnds
  BY <1>10, LinkCalm
<1>11. CASE UNCHANGED vars
  BY <1>11, DownCalm DEF vars
<1> QED  BY <1>1, <1>2, <1>3, <1>4, <1>5, <1>6, <1>7, <1>8, <1>9, <1>10, <1>11
         DEF Next, RecvLoop, Reader, Pump, NodeLoop

-----------------------------------------------------------------------------
(* The credits.                                                            *)

Owed(n) == Batch * n

\* What the relay may still send, what it sent and what was consumed, with the refunds under way.
OutWindow ==
    rcredit + Chunks(up) + Chunks(outq) + consumed + Owed(Credits(down) + Len(acredq)) <= Window

\* The ends of an output: one of the relay, which keeps a credit for it, one of whoever ends the exec.
OutEnds ==
    Ends(up) + Ends(outq) <= (IF live \/ ex = "none" THEN 0 ELSE 1)
                           + (IF ex \in {"relayed", "over"} /\ rcredit > 0 THEN 1 ELSE 0)

Pumping == pump \/ call \in {"new", "calling"}

\* The same for the input, whose pump may leave its last credit unused.
InWindow ==
    (IF Pumping THEN pcredit ELSE 0) + Chunks(down) + Chunks(inq) + aconsumed
      + Owed(Credits(up) + Len(credq)) <= Window

InEnds == Lasts(down) + Lasts(inq) <= IF Pumping THEN 0 ELSE 1

\* An exec is started once, before anything else happens on the node.
Begun ==
    /\ Starts(down) <= IF call = "new" \/ ex # "none" THEN 0 ELSE 1
    /\ call = "new" => ex = "none"
    /\ live => ex # "none"
    /\ pump => call \notin {"new", "calling"}

LEMMA OwedIs ==
    /\ \A n \in Nat : Owed(n) \in Nat /\ n <= Owed(n) /\ Owed(n + 1) = Owed(n) + Batch
    /\ \A m, n \in Nat : m <= n => Owed(m) <= Owed(n)
<1>1. Batch \in Nat /\ 1 <= Batch
  BY WindowAssumption
<1>2. ASSUME NEW n \in Nat PROVE Owed(n) \in Nat /\ n <= Owed(n) /\ Owed(n + 1) = Owed(n) + Batch
  BY <1>1, SMT DEF Owed
<1>3. ASSUME NEW m \in Nat, NEW n \in Nat, m <= n PROVE Owed(m) <= Owed(n)
  <2>1. n - m \in Nat /\ Batch * (n - m) \in Nat /\ Batch * n = Batch * m + Batch * (n - m)
    BY <1>1, <1>3
  <2> QED  BY <1>1, <1>3, <2>1 DEF Owed
<1> QED  BY <1>2, <1>3

\* A queue of output holds chunks and ends.
LEMMA OutQueue ==
    ASSUME NEW q \in Seq(OutFrames)
    PROVE  Len(q) \in Nat /\ Len(q) = Chunks(q) + Ends(q)
<1> DEFINE K == {"chunk"}
           L == {"eof", "failure"}
<1>1. (\A f \in OutFrames : f.kind \in K \cup L) /\ K \cap L = {}
  BY DEF OutFrames
<1> HIDE DEF K, L
<1>2. Len(q) = Count(q, K) + Count(q, L)
  BY <1>1, CountAll
<1> QED  BY <1>2, LenProperties DEF K, L, Chunks, Ends

\* A queue of input too.
LEMMA InQueue ==
    ASSUME NEW q \in Seq(InFrames)
    PROVE  Len(q) \in Nat /\ Len(q) = Chunks(q) + Lasts(q)
<1> DEFINE K == {"chunk"}
           L == {"eof", "error"}
<1>1. (\A f \in InFrames : f.kind \in K \cup L) /\ K \cap L = {}
  BY DEF InFrames
<1> HIDE DEF K, L
<1>2. Len(q) = Count(q, K) + Count(q, L)
  BY <1>1, CountAll
<1> QED  BY <1>2, LenProperties DEF K, L, Chunks, Lasts

\* An exec that has begun does not return to its start.
LEMMA AliveBegun ==
    ASSUME [Next]_vars, ex # "none"
    PROVE  ex' # "none"
<1> USE DEF linkVars, readVars, pumpVars, relayVars, stdinVars, controlVars, nodeVars
<1>1. CASE Start \/ GiveUp \/ RecvLoop
  BY <1>1 DEF Start, GiveUp, RecvLoop, RecvAck, RecvOutput, RecvCredit, Shutdown
<1>2. CASE Reader \/ Pump
  BY <1>2 DEF Reader, ReadChunk, ReadEnd, Pump, PumpChunk, PumpEnd, PumpRefunded, PumpStops
<1>3. CASE NodeLoop \/ Run \/ RelayChunk \/ CommandExits
  BY <1>3 DEF NodeLoop, GetStart, GetInput, GetCredit, Cancelled, Run, Attach, RelayRefunded, RelayEnds, RunEnds,
              RelayChunk, CommandExits
<1>4. CASE StdinPump \/ LinkEnds
  BY <1>4 DEF StdinPump, StdinChunk, StdinEof, StdinError, StdinStops, LinkEnds
<1>5. CASE UNCHANGED vars
  BY <1>5 DEF vars
<1> QED  BY <1>1, <1>2, <1>3, <1>4, <1>5 DEF Next

\* An exec is begun once.
LEMMA BegunStep ==
    ASSUME TypeOK, Typed, Typed', Begun, [Next]_vars
    PROVE  Begun'
<1>1. Starts(down) \in Nat /\ Starts(down') \in Nat
  BY Naturals5 DEF Typed, Natural
<1> USE DEF linkVars, readVars, pumpVars, relayVars, stdinVars, controlVars, nodeVars
<1>2. Start \/ Starts(down') <= Starts(down)
  BY <1>1, DownFlow DEF DownSame, Grows, One
<1>3. CASE Start
  <2>1. Starts(down') <= Starts(down) + 1
    BY <1>1, <1>3, DownFlow DEF DownSame, Grows, One, Start, ReadChunk, PumpChunk, PumpEnd
  <2> QED  BY <1>1, <1>3, <2>1 DEF Begun, Start
<1>4. CASE GetStart
  <2>1. Starts(down) = Starts(down') + 1
    BY <1>4, Got DEF GetStart, Kinds, Holds, One
  <2> QED  BY <1>1, <1>4, <2>1 DEF Begun, GetStart, Gets
<1>5. CASE ~Start /\ ~GetStart
  <2> DEFINE P == /\ (call' = "new") = (call = "new") /\ (ex' = "none") = (ex = "none")
                  /\ live' => live
                  /\ pump' => (pump /\ call' = call) \/ call' \notin {"new", "calling"}
  <2>1. P
    <3>1. CASE GiveUp
      BY <3>1 DEF GiveUp, CallFails, Closes, Finish
    <3>2. CASE RecvLoop
      BY <3>2 DEF RecvLoop, RecvAck, CallFails, Finish, RecvOutput, RecvCredit, Shutdown
    <3>3. CASE Reader
      BY <3>3 DEF Reader, ReadChunk, ReadEnd, Finish
    <3>4. CASE Pump
      BY <3>4 DEF Pump, PumpChunk, PumpEnd, PumpRefunded, PumpStops
    <3>5. CASE NodeLoop
      BY <1>5, <3>5 DEF NodeLoop, GetInput, GetCredit, Cancelled, RelayFails, Stop
    <3>6. CASE Run
      BY <3>6 DEF Run, Attach, RelayRefunded, RelayEnds, RunEnds, Stop
    <3>7. CASE RelayChunk \/ CommandExits \/ LinkEnds
      BY <3>7 DEF RelayChunk, CommandExits, LinkEnds
    <3>8. CASE StdinPump
      BY <3>8 DEF StdinPump, StdinChunk, StdinEof, StdinError, StdinStops, RelayFails, Stop
    <3>9. CASE UNCHANGED vars
      BY <3>9 DEF vars
    <3> QED  BY <1>5, <3>1, <3>2, <3>3, <3>4, <3>5, <3>6, <3>7, <3>8, <3>9 DEF Next
  <2> QED  BY <1>1, <1>2, <1>5, <2>1 DEF Begun
<1> QED  BY <1>3, <1>4, <1>5

\* What the output's window and ends do not see.
LEMMA OutStays ==
    ASSUME [Next]_vars, ~RecvOutput, ~ReadChunk
    PROVE  outq' = outq /\ consumed' = consumed
<1> USE DEF linkVars, readVars, pumpVars, relayVars, stdinVars, controlVars, nodeVars
<1>1. CASE Start \/ GiveUp \/ RecvAck \/ RecvCredit \/ Shutdown \/ ReadEnd
  BY <1>1 DEF Start, GiveUp, RecvAck, RecvCredit, Shutdown, ReadEnd
<1>2. CASE Pump
  BY <1>2 DEF Pump, PumpChunk, PumpEnd, PumpRefunded, PumpStops
<1>3. CASE NodeLoop \/ Run \/ RelayChunk \/ CommandExits
  BY <1>3 DEF NodeLoop, GetStart, GetInput, GetCredit, Cancelled, Run, Attach, RelayRefunded, RelayEnds, RunEnds,
              RelayChunk, CommandExits
<1>4. CASE StdinPump \/ LinkEnds
  BY <1>4 DEF StdinPump, StdinChunk, StdinEof, StdinError, StdinStops, LinkEnds
<1>5. CASE UNCHANGED vars
  BY <1>5 DEF vars
<1> QED  BY <1>1, <1>2, <1>3, <1>4, <1>5 DEF Next, RecvLoop, Reader

\* A step that leaves the node's end of the output alone.
LEMMA RelayStays ==
    ASSUME [Next]_vars, ~GetCredit, ~RelayRefunded, ~RelayChunk
    PROVE  rcredit' = rcredit /\ acredq' = acredq
<1> USE DEF linkVars, readVars, pumpVars, relayVars, stdinVars, controlVars, nodeVars
<1>1. CASE Start \/ GiveUp \/ RecvLoop
  BY <1>1 DEF Start, GiveUp, RecvLoop, RecvAck, RecvOutput, RecvCredit, Shutdown
<1>2. CASE Reader \/ Pump
  BY <1>2 DEF Reader, ReadChunk, ReadEnd, Pump, PumpChunk, PumpEnd, PumpRefunded, PumpStops
<1>3. CASE GetStart \/ GetInput \/ Cancelled \/ Attach \/ RelayEnds \/ RunEnds
  BY <1>3 DEF GetStart, GetInput, Cancelled, Attach, RelayEnds, RunEnds
<1>4. CASE CommandExits \/ StdinPump \/ LinkEnds
  BY <1>4 DEF CommandExits, StdinPump, StdinChunk, StdinEof, StdinError, StdinStops, LinkEnds
<1>5. CASE UNCHANGED vars
  BY <1>5 DEF vars
<1> QED  BY <1>1, <1>2, <1>3, <1>4, <1>5 DEF Next, NodeLoop, Run

\* The output keeps its window: every step moves credits, and a lost frame lowers the sum.
LEMMA OutStep ==
    ASSUME TypeOK, Typed, TypeOK', Typed', OutWindow, [Next]_vars
    PROVE  OutWindow'
<1> DEFINE n == Credits(down) + Len(acredq)
           m == Credits(down') + Len(acredq')
           x == rcredit + Chunks(up) + Chunks(outq) + consumed
           y == rcredit' + Chunks(up') + Chunks(outq') + consumed'
<1>0. /\ Window \in Nat /\ Batch \in Nat /\ 1 <= Batch
      /\ rcredit \in Nat /\ rcredit' \in Nat /\ consumed \in Nat /\ consumed' \in Nat
  BY WindowAssumption DEF TypeOK
<1>1. /\ Chunks(up) \in Nat /\ Chunks(up') \in Nat /\ Chunks(outq) \in Nat /\ Chunks(outq') \in Nat
      /\ Credits(down) \in Nat /\ Credits(down') \in Nat /\ Len(acredq) \in Nat /\ Len(acredq') \in Nat
      /\ n \in Nat /\ m \in Nat
  <2>1. Natural(up) /\ Natural(down) /\ Natural(outq) /\ Natural(up') /\ Natural(down') /\ Natural(outq')
    BY Naturals5 DEF Typed
  <2>2. acredq \in Seq({Batch}) /\ acredq' \in Seq({Batch})
    BY DEF Typed
  <2>3. Len(acredq) \in Nat /\ Len(acredq') \in Nat
    BY <2>2, LenProperties
  <2>4. Credits(down) \in Nat /\ Credits(down') \in Nat
    BY <2>1 DEF Natural
  <2>5. Chunks(up) \in Nat /\ Chunks(up') \in Nat /\ Chunks(outq) \in Nat /\ Chunks(outq') \in Nat
    BY <2>1 DEF Natural
  <2> QED  BY <2>3, <2>4, <2>5
<1>a. /\ Chunks(up) \in Nat /\ Chunks(up') \in Nat /\ Chunks(outq) \in Nat /\ Chunks(outq') \in Nat
      /\ rcredit \in Nat /\ rcredit' \in Nat /\ consumed \in Nat /\ consumed' \in Nat
  BY <1>0, <1>1
<1>2. Owed(n) \in Nat /\ Owed(m) \in Nat /\ x \in Nat /\ y \in Nat
  <2>1. Owed(n) \in Nat /\ Owed(m) \in Nat
    BY <1>1, OwedIs
  <2>2. x \in Nat /\ y \in Nat
    BY <1>a
  <2> QED  BY <2>1, <2>2
<1>3. x + Owed(n) <= Window
  BY DEF OutWindow
<1>4. SUFFICES y + Owed(m) <= Window
  BY DEF OutWindow
<1>5. (m <= n => Owed(m) <= Owed(n)) /\ (m = n + 1 => Owed(m) = Owed(n) + Batch)
      /\ (n = m + 1 => Owed(n) = Owed(m) + Batch)
  BY <1>1, OwedIs
<1> HIDE DEF n, m, x, y
<1> USE DEF linkVars, readVars, pumpVars, relayVars, stdinVars, controlVars, nodeVars
<1>p. Chunks(up') <= Chunks(up) \/ (RelayChunk /\ Chunks(up') <= Chunks(up) + 1)
  BY <1>1, UpFlow DEF UpSame, Grows, One
<1>q. \/ Credits(down') <= Credits(down)
      \/ ReadChunk /\ consumed' = 0 /\ Credits(down') <= Credits(down) + 1
  BY <1>1, DownFlow DEF DownSame, Grows, One
<1>6. CASE RecvOutput
  <2>1. Chunks(up') + Chunks(outq') <= Chunks(up) + Chunks(outq)
    <3>1. up # <<>> /\ up' = Tail(up) /\ (outq' = outq \/ outq' = Append(outq, Head(up)))
      BY <1>6 DEF RecvOutput, Pops, FailExec
    <3>2. Chunks(up) = Chunks(up') + One(Head(up).kind, {"chunk"})
      BY <1>6, Popped DEF RecvOutput, Holds
    <3>3. CASE outq' = outq
      BY <1>1, <3>2, <3>3 DEF One
    <3>4. CASE outq' = Append(outq, Head(up))
      <4>1. Head(up) \in OutFrames
        BY <1>6, Popped DEF RecvOutput, OutFrames
      <4>2. Chunks(outq') = Chunks(outq) + One(Head(up).kind, {"chunk"})
        BY <3>4, <4>1, Put DEF Typed, Holds
      <4> QED  BY <1>1, <3>2, <4>2 DEF One
    <3> QED  BY <3>1, <3>3, <3>4
  <2>2. m = n /\ rcredit' = rcredit /\ consumed' = consumed
    BY <1>6 DEF RecvOutput, n, m
  <2>3. y <= x
    BY <1>a, <2>1, <2>2 DEF x, y
  <2> QED  BY <1>0, <1>2, <1>3, <2>3, <2>2
<1>7. CASE ReadChunk
  <2>1. Chunks(up') = Chunks(up) /\ rcredit' = rcredit
    BY <1>7 DEF ReadChunk
  <2>2. Chunks(outq) = Chunks(outq') + 1
    <3>1. outq # <<>> /\ outq' = Tail(outq) /\ Head(outq).kind = "chunk"
      BY <1>7 DEF ReadChunk
    <3> QED  BY <3>1, Taken DEF Typed, Holds, One
  <2>3. CASE consumed' = 0
    <3>1. consumed + 1 = Batch /\ acredq' = acredq
      BY <1>0, <1>7, <2>3 DEF ReadChunk, Counted
    <3>2. m <= n + 1
      BY <1>1, <1>q, <3>1 DEF n, m
    <3>3. Owed(m) <= Owed(n) + Batch
      BY <1>1, <3>2, OwedIs
    <3>4. y + Batch = x
      BY <1>a, <2>1, <2>2, <2>3, <3>1 DEF x, y
    <3> QED  BY <1>0, <1>2, <1>3, <3>4, <3>3
  <2>4. CASE consumed' # 0
    <3>1. consumed' = consumed + 1 /\ acredq' = acredq
      BY <1>7, <2>4 DEF ReadChunk, Counted
    <3>2. m <= n
      BY <1>1, <1>q, <2>4, <3>1 DEF n, m
    <3>3. Owed(m) <= Owed(n)
      BY <1>5, <3>2
    <3>4. y = x
      <4>1. Chunks(outq') + consumed' = Chunks(outq) + consumed
        BY <1>0, <1>1, <2>2, <3>1
      <4> QED  BY <1>a, <2>1, <4>1 DEF x, y
    <3> QED  BY <1>0, <1>2, <1>3, <3>4, <3>3
  <2> QED  BY <2>3, <2>4
<1>8. CASE GetCredit
  <2>1. rcredit' = rcredit /\ consumed' = consumed /\ Chunks(outq') = Chunks(outq)
    BY <1>8 DEF GetCredit
  <2>2. Chunks(up') <= Chunks(up)
    BY <1>8, <1>p DEF GetCredit, Gets, RelayChunk
  <2>3. m <= n
    <3>1. Credits(down) = Credits(down') + 1
      BY <1>8, Got DEF GetCredit, Kinds, Holds, One
    <3>2. acredq' = acredq \/ acredq' = Append(acredq, Head(down).n)
      BY <1>8 DEF GetCredit
    <3>3. CASE acredq' = acredq
      BY <1>1, <3>1, <3>3 DEF n, m
    <3>4. CASE acredq' = Append(acredq, Head(down).n)
      <4>1. Head(down).n = Batch
        BY <1>8, Got DEF GetCredit, Kinds, Frames
      <4>2. Len(acredq') = Len(acredq) + 1
        BY <3>4, <4>1, AppendProperties DEF Typed
      <4> QED  BY <1>1, <3>1, <4>2 DEF n, m
    <3> QED  BY <3>2, <3>3, <3>4
  <2>4. Owed(m) <= Owed(n)
    BY <1>5, <2>3
  <2>5. y <= x
    BY <1>a, <2>1, <2>2 DEF x, y
  <2> QED  BY <1>0, <1>2, <1>3, <2>5, <2>4
<1>9. CASE RelayRefunded
  <2>1. Chunks(up') = Chunks(up) /\ Chunks(outq') = Chunks(outq) /\ consumed' = consumed /\ rcredit = 0
    BY <1>9 DEF RelayRefunded
  <2>2. acredq # <<>> /\ acredq' = Tail(acredq) /\ rcredit' = Head(acredq) /\ down' = down
    BY <1>9 DEF RelayRefunded
  <2>3. rcredit' = Batch /\ Len(acredq) = Len(acredq') + 1
    BY <2>2, Refund DEF Typed
  <2>4. n = m + 1
    BY <1>1, <2>2, <2>3 DEF n, m
  <2>5. Owed(n) = Owed(m) + Batch
    BY <1>5, <2>4
  <2>6. y = x + Batch
    BY <1>a, <2>1, <2>3 DEF x, y
  <2> QED  BY <1>0, <1>2, <1>3, <2>6, <2>5
<1>10. CASE RelayChunk
  <2>1. Chunks(up') <= Chunks(up) + 1
    BY <1>1, <1>p
  <2>2. rcredit = rcredit' + 1 /\ Chunks(outq') = Chunks(outq) /\ consumed' = consumed
    BY <1>0, <1>10 DEF RelayChunk
  <2>3. Owed(m) = Owed(n)
    BY <1>10 DEF RelayChunk, n, m
  <2>4. y <= x
    <3>1. rcredit' + Chunks(up') <= rcredit + Chunks(up)
      BY <1>a, <2>1, <2>2
    <3> QED  BY <1>a, <2>2, <3>1 DEF x, y
  <2> QED  BY <1>0, <1>2, <1>3, <2>4, <2>3
<1>11. CASE ~RecvOutput /\ ~ReadChunk /\ ~GetCredit /\ ~RelayRefunded /\ ~RelayChunk
  <2>1. Chunks(up') <= Chunks(up) /\ Credits(down') <= Credits(down)
    BY <1>11, <1>p, <1>q
  <2>2. outq' = outq /\ consumed' = consumed /\ rcredit' = rcredit /\ acredq' = acredq
    BY <1>11, OutStays, RelayStays
  <2>3. m <= n
    BY <1>1, <2>1, <2>2 DEF n, m
  <2>4. Owed(m) <= Owed(n)
    BY <1>5, <2>3
  <2>5. Chunks(outq') = Chunks(outq)
    BY <2>2
  <2>6. y <= x
    <3>1. rcredit' + Chunks(up') <= rcredit + Chunks(up)
      BY <1>0, <1>1, <2>1, <2>2
    <3> QED  BY <1>a, <2>2, <2>5, <3>1 DEF x, y
  <2> QED  BY <1>0, <1>2, <1>3, <2>6, <2>4
<1> QED  BY <1>6, <1>7, <1>8, <1>9, <1>10, <1>11

\* An exec that is not alive stays so, and its end keeps its credit.
LEMMA EndsStay ==
    ASSUME TypeOK, Typed, Begun, [Next]_vars
    PROVE  /\ ~live /\ ex # "none" => ~live' /\ ex' # "none"
           /\ ex \in {"relayed", "over"} /\ rcredit > 0 => ex' \in {"relayed", "over"} /\ rcredit' > 0
<1> USE DEF linkVars, readVars, pumpVars, relayVars, stdinVars, controlVars, nodeVars
<1>1. CASE Start \/ GiveUp \/ RecvLoop
  BY <1>1 DEF Start, GiveUp, RecvLoop, RecvAck, RecvOutput, RecvCredit, Shutdown
<1>2. CASE Reader \/ Pump
  BY <1>2 DEF Reader, ReadChunk, ReadEnd, Pump, PumpChunk, PumpEnd, PumpRefunded, PumpStops
<1>3. CASE GetStart
  <2>1. Starts(down) = Starts(down') + 1 /\ down' \in Seq(Frames)
    BY <1>3, Got DEF GetStart, Kinds, Holds, One
  <2>2. Starts(down) \in Nat /\ Starts(down') \in Nat
    BY <2>1, Naturals5 DEF Typed, Natural
  <2> QED  BY <2>1, <2>2 DEF Begun
<1>4. CASE GetInput \/ GetCredit \/ Cancelled
  BY <1>4 DEF GetInput, GetCredit, Cancelled, RelayFails, Stop
<1>5. CASE Run \/ RelayChunk \/ CommandExits
  BY <1>5 DEF Run, Attach, RelayRefunded, RelayEnds, RunEnds, Stop, RelayChunk, CommandExits
<1>6. CASE StdinPump \/ LinkEnds
  BY <1>6 DEF StdinPump, StdinChunk, StdinEof, StdinError, StdinStops, RelayFails, Stop, LinkEnds
<1>7. CASE UNCHANGED vars
  BY <1>7 DEF vars
<1> QED  BY <1>1, <1>2, <1>3, <1>4, <1>5, <1>6, <1>7 DEF Next, NodeLoop

\* An output has an end of its own and one of whoever ended the exec, no more.
LEMMA OutEndsStep ==
    ASSUME TypeOK, Typed, TypeOK', Typed', Begun, OutEnds, [Next]_vars
    PROVE  OutEnds'
<1> DEFINE a == IF live \/ ex = "none" THEN 0 ELSE 1
           b == IF ex \in {"relayed", "over"} /\ rcredit > 0 THEN 1 ELSE 0
           c == IF live' \/ ex' = "none" THEN 0 ELSE 1
           d == IF ex' \in {"relayed", "over"} /\ rcredit' > 0 THEN 1 ELSE 0
<1>1. /\ Ends(up) \in Nat /\ Ends(up') \in Nat /\ Ends(outq) \in Nat /\ Ends(outq') \in Nat
  <2>1. Natural(up) /\ Natural(outq) /\ Natural(up') /\ Natural(outq')
    BY Naturals5 DEF Typed
  <2> QED  BY <2>1 DEF Natural
<1>2. a \in 0..1 /\ b \in 0..1 /\ c \in 0..1 /\ d \in 0..1 /\ a <= c /\ b <= d
  BY EndsStay
<1>3. Ends(up) + Ends(outq) <= a + b
  BY DEF OutEnds
<1>4. SUFFICES Ends(up') + Ends(outq') <= c + d
  BY DEF OutEnds
<1> USE DEF linkVars, readVars, pumpVars, relayVars, stdinVars, controlVars, nodeVars
<1>5. CASE RecvOutput
  <2>1. up # <<>> /\ up' = Tail(up) /\ (outq' = outq \/ outq' = Append(outq, Head(up)))
    BY <1>5 DEF RecvOutput, Pops, FailExec
  <2>2. Ends(up) = Ends(up') + One(Head(up).kind, {"eof", "failure"})
    BY <1>5, Popped DEF RecvOutput, Holds
  <2>3. Ends(outq') \in {Ends(outq), Ends(outq) + One(Head(up).kind, {"eof", "failure"})}
    <3>1. Head(up) \in OutFrames /\ outq \in Seq(OutFrames)
      BY <1>5, Popped DEF RecvOutput, OutFrames, Typed
    <3>2. CASE outq' = outq
      BY <3>2
    <3>3. CASE outq' = Append(outq, Head(up))
      <4>1. Ends(outq') = Ends(outq) + One(Head(up).kind, {"eof", "failure"})
        BY <3>1, <3>3, Put DEF Holds
      <4> QED  BY <4>1
    <3> QED  BY <2>1, <3>2, <3>3
  <2>4. One(Head(up).kind, {"eof", "failure"}) \in 0..1
    BY DEF One
  <2>5. Ends(up') + Ends(outq') <= Ends(up) + Ends(outq)
    BY <1>1, <2>2, <2>3, <2>4
  <2> HIDE DEF a, b, c, d
  <2> QED  BY <1>1, <1>2, <1>3, <2>5
<1>6. CASE ~RecvOutput
  <2>1. Ends(outq') <= Ends(outq)
    <3>1. CASE ReadChunk
      BY <1>1, <3>1, Taken, SMTT(30) DEF ReadChunk, Typed, Holds, One
    <3>2. CASE ~ReadChunk
      <4>1. outq' = outq
        BY <1>6, <3>2, OutStays
      <4> QED  BY <1>1, <4>1
    <3> QED  BY <3>1, <3>2
  <2>2. CASE RelayEnds /\ Ends(up') <= Ends(up) + 1 /\ ~stopped
    <3>1. b = 0 /\ d = 1
      BY <2>2 DEF RelayEnds
    <3> HIDE DEF a, b, c, d
    <3> QED  BY <1>1, <1>2, <1>3, <2>1, <2>2, <3>1
  <2>3. CASE live /\ ~live' /\ Ends(up') <= Ends(up) + 1
    <3>1. a = 0 /\ c = 1
      <4>1. ex # "none"
        BY <2>3 DEF Begun
      <4>2. ex' # "none"
        BY <2>3, <4>1, AliveBegun
      <4> QED  BY <2>3, <4>2
    <3> HIDE DEF a, b, c, d
    <3> QED  BY <1>1, <1>2, <1>3, <2>1, <2>3, <3>1
  <2>4. CASE Ends(up') <= Ends(up)
    <3> HIDE DEF a, b, c, d
    <3> QED  BY <1>1, <1>2, <1>3, <2>1, <2>4
  <2>5. \/ Ends(up') <= Ends(up)
        \/ RelayEnds /\ Ends(up') <= Ends(up) + 1
        \/ live /\ ~live' /\ Ends(up') <= Ends(up) + 1
    BY <1>1, UpFlow DEF UpSame, Grows, One
  <2>6. RelayEnds /\ stopped => Ends(up') <= Ends(up)
    BY <1>1 DEF RelayEnds
  <2> QED  BY <2>2, <2>3, <2>4, <2>5, <2>6
<1> QED  BY <1>5, <1>6

\* The pump's end of the input: only a refund and the pump change its credit.
LEMMA PumpStays ==
    ASSUME Begun, [Next]_vars
    PROVE  /\ Pumping' => Pumping
           /\ ~PumpChunk /\ ~PumpRefunded => pcredit' = pcredit
           /\ ~PumpRefunded /\ ~RecvCredit => credq' = credq
<1> USE DEF linkVars, readVars, pumpVars, relayVars, stdinVars, controlVars, nodeVars
<1>1. CASE Start
  BY <1>1 DEF Pumping, Begun, Start
<1>2. CASE GiveUp
  BY <1>2 DEF Pumping, Begun, GiveUp, CallFails, Closes, Finish
<1>3. CASE RecvLoop
  BY <1>3 DEF Pumping, RecvLoop, RecvAck, CallFails, Finish, RecvOutput, RecvCredit, Shutdown
<1>4. CASE Reader
  BY <1>4 DEF Pumping, Reader, ReadChunk, ReadEnd, Finish
<1>5. CASE Pump
  BY <1>5 DEF Pumping, Pump, PumpChunk, PumpEnd, PumpRefunded, PumpStops
<1>6. CASE NodeLoop \/ Run \/ RelayChunk \/ CommandExits
  BY <1>6 DEF Pumping, NodeLoop, GetStart, GetInput, GetCredit, Cancelled, Run, Attach, RelayRefunded, RelayEnds,
              RunEnds, RelayChunk, CommandExits
<1>7. CASE StdinPump \/ LinkEnds
  BY <1>7 DEF Pumping, StdinPump, StdinChunk, StdinEof, StdinError, StdinStops, LinkEnds
<1>8. CASE UNCHANGED vars
  BY <1>8 DEF Pumping, vars
<1> QED  BY <1>1, <1>2, <1>3, <1>4, <1>5, <1>6, <1>7, <1>8 DEF Next

\* The node's end of the input.
LEMMA StdinStays ==
    ASSUME [Next]_vars, ~StdinChunk
    PROVE  /\ aconsumed' = aconsumed
           /\ ~GetInput /\ ~StdinEof /\ ~StdinError => inq' = inq
<1> USE DEF linkVars, readVars, pumpVars, relayVars, stdinVars, controlVars, nodeVars
<1>1. CASE Start \/ GiveUp \/ RecvLoop
  BY <1>1 DEF Start, GiveUp, RecvLoop, RecvAck, RecvOutput, RecvCredit, Shutdown
<1>2. CASE Reader \/ Pump
  BY <1>2 DEF Reader, ReadChunk, ReadEnd, Pump, PumpChunk, PumpEnd, PumpRefunded, PumpStops
<1>3. CASE NodeLoop \/ Run \/ RelayChunk \/ CommandExits
  BY <1>3 DEF NodeLoop, GetStart, GetInput, GetCredit, Cancelled, Run, Attach, RelayRefunded, RelayEnds, RunEnds,
              RelayChunk, CommandExits
<1>4. CASE StdinPump \/ LinkEnds
  BY <1>4 DEF StdinPump, StdinEof, StdinError, StdinStops, LinkEnds
<1>5. CASE UNCHANGED vars
  BY <1>5 DEF vars
<1> QED  BY <1>1, <1>2, <1>3, <1>4, <1>5 DEF Next

\* The first frame of the input moves to its queue, or is dropped.
LEMMA InputMoves ==
    ASSUME TypeOK, Typed, Typed', GetInput
    PROVE  /\ Chunks(down') + Chunks(inq') <= Chunks(down) + Chunks(inq)
           /\ Lasts(down') + Lasts(inq') <= Lasts(down) + Lasts(inq)
<1> DEFINE k == Head(down).kind
<1>1. PICK kind \in {"chunk", "eof", "error"} : Gets(kind)
  BY DEF GetInput
<1>2. Head(down) \in InFrames /\ k = kind /\ Holds(down, down', k)
  BY <1>1, Got DEF Kinds, InFrames
<1>3. inq' = inq \/ inq' = Append(inq, Head(down))
  BY DEF GetInput
<1>4. Natural(down) /\ Natural(down') /\ Natural(inq) /\ Natural(inq')
  BY Naturals5 DEF Typed
<1>5. One(k, {"chunk"}) \in 0..1 /\ One(k, {"eof", "error"}) \in 0..1
  BY DEF One
<1>6. CASE inq' = inq
  <2>1. Chunks(inq') = Chunks(inq) /\ Lasts(inq') = Lasts(inq)
    BY <1>6
  <2> QED  BY <1>2, <1>4, <1>5, <2>1 DEF Holds, Natural
<1>7. CASE inq' = Append(inq, Head(down))
  <2>1. Holds(inq', inq, k)
    BY <1>2, <1>7, Put DEF Typed
  <2> HIDE DEF k
  <2> QED  BY <1>2, <1>4, <1>5, <2>1 DEF Holds, Natural
<1> QED  BY <1>3, <1>6, <1>7

\* The input keeps its window.
LEMMA InStep ==
    ASSUME TypeOK, Typed, TypeOK', Typed', Begun, InWindow, [Next]_vars
    PROVE  InWindow'
<1> DEFINE n == Credits(up) + Len(credq)
           m == Credits(up') + Len(credq')
           u == IF Pumping THEN pcredit ELSE 0
           v == IF Pumping' THEN pcredit' ELSE 0
           x == u + Chunks(down) + Chunks(inq) + aconsumed
           y == v + Chunks(down') + Chunks(inq') + aconsumed'
<1>0. /\ Window \in Nat /\ Batch \in Nat /\ 1 <= Batch
      /\ pcredit \in Nat /\ pcredit' \in Nat /\ aconsumed \in Nat /\ aconsumed' \in Nat
  BY WindowAssumption DEF TypeOK
<1>1. /\ Chunks(down) \in Nat /\ Chunks(down') \in Nat /\ Chunks(inq) \in Nat /\ Chunks(inq') \in Nat
      /\ Credits(up) \in Nat /\ Credits(up') \in Nat /\ Len(credq) \in Nat /\ Len(credq') \in Nat
  <2>1. Natural(up) /\ Natural(down) /\ Natural(inq) /\ Natural(up') /\ Natural(down') /\ Natural(inq')
    BY Naturals5 DEF Typed
  <2>2. credq \in Seq({Batch}) /\ credq' \in Seq({Batch})
    BY DEF Typed
  <2>3. Len(credq) \in Nat /\ Len(credq') \in Nat
    BY <2>2, LenProperties
  <2>4. Credits(up) \in Nat /\ Credits(up') \in Nat
    BY <2>1 DEF Natural
  <2>5. Chunks(down) \in Nat /\ Chunks(down') \in Nat /\ Chunks(inq) \in Nat /\ Chunks(inq') \in Nat
    BY <2>1 DEF Natural
  <2> QED  BY <2>3, <2>4, <2>5
<1>2. u \in Nat /\ v \in Nat
  BY <1>0
<1>3. n \in Nat /\ m \in Nat
  BY <1>1
<1>4. x + Owed(n) <= Window
  BY DEF InWindow
<1>5. SUFFICES y + Owed(m) <= Window
  BY DEF InWindow
<1> HIDE DEF n, m, u, v, x, y
<1>6. /\ (m <= n => Owed(m) <= Owed(n)) /\ (n = m + 1 => Owed(n) = Owed(m) + Batch)
      /\ (m <= n + 1 => Owed(m) <= Owed(n) + Batch)
  BY <1>3, OwedIs
<1>a. /\ u \in Nat /\ v \in Nat /\ aconsumed \in Nat /\ aconsumed' \in Nat
      /\ Chunks(down) \in Nat /\ Chunks(down') \in Nat /\ Chunks(inq) \in Nat /\ Chunks(inq') \in Nat
  BY <1>0, <1>1, <1>2
<1>b. Owed(n) \in Nat /\ Owed(m) \in Nat /\ x \in Nat /\ y \in Nat
  <2>1. Owed(n) \in Nat /\ Owed(m) \in Nat
    BY <1>3, OwedIs
  <2>2. x \in Nat /\ y \in Nat
    BY <1>a DEF x, y
  <2> QED  BY <2>1, <2>2
<1>c. SUFFICES \/ y <= x /\ m <= n
               \/ y + Batch <= x /\ m <= n + 1
               \/ y <= x + Batch /\ n = m + 1
  BY <1>0, <1>4, <1>6, <1>b
<1>p. Credits(up') <= Credits(up) \/ (StdinChunk /\ Credits(up') <= Credits(up) + 1)
  BY <1>1, UpFlow DEF UpSame, Grows, One
<1>q. \/ Chunks(down') <= Chunks(down)
      \/ (PumpChunk \/ PumpEnd) /\ Chunks(down') <= Chunks(down) + 1
  BY <1>1, DownFlow DEF DownSame, Grows, One
<1> USE DEF linkVars, readVars, pumpVars, relayVars, stdinVars, controlVars, nodeVars
<1>7. CASE PumpChunk
  <2>1. u = v + 1
    BY <1>0, <1>7 DEF PumpChunk, u, v, Pumping
  <2>2. Chunks(down') <= Chunks(down) + 1
    BY <1>1, <1>q
  <2>3. Chunks(inq') = Chunks(inq) /\ aconsumed' = aconsumed /\ m = n
    BY <1>7 DEF PumpChunk, n, m
  <2>4. v + Chunks(down') <= u + Chunks(down)
    BY <1>a, <2>1, <2>2
  <2>5. y <= x
    BY <1>a, <2>3, <2>4 DEF x, y
  <2> QED  BY <1>3, <2>3, <2>5
<1>8. CASE PumpEnd
  <2>1. 1 <= u /\ v = 0
    BY <1>0, <1>8 DEF PumpEnd, u, v, Pumping, Begun
  <2>2. Chunks(down') <= Chunks(down) + 1
    BY <1>1, <1>q
  <2>3. Chunks(inq') = Chunks(inq) /\ aconsumed' = aconsumed /\ m = n
    BY <1>8 DEF PumpEnd, n, m
  <2>4. v + Chunks(down') <= u + Chunks(down)
    BY <1>a, <2>1, <2>2
  <2>5. y <= x
    BY <1>a, <2>3, <2>4 DEF x, y
  <2> QED  BY <1>3, <2>3, <2>5
<1>9. CASE PumpRefunded
  <2>1. credq # <<>> /\ credq' = Tail(credq) /\ pcredit' = Head(credq) /\ up' = up /\ pcredit = 0
    BY <1>9 DEF PumpRefunded
  <2>2. pcredit' = Batch /\ Len(credq) = Len(credq') + 1
    BY <2>1, Refund DEF Typed
  <2>3. n = m + 1
    BY <1>1, <2>1, <2>2 DEF n, m
  <2>4. u = 0 /\ v = Batch
    BY <1>9, <2>1, <2>2 DEF PumpRefunded, u, v, Pumping
  <2>5. Chunks(inq') = Chunks(inq) /\ aconsumed' = aconsumed /\ Chunks(down') = Chunks(down)
    BY <1>9 DEF PumpRefunded
  <2>6. y = x + Batch
    BY <1>0, <1>a, <2>4, <2>5 DEF x, y
  <2> QED  BY <1>0, <1>b, <2>3, <2>6
<1>10. CASE RecvCredit
  <2>1. v <= u
    BY <1>0, <1>10 DEF RecvCredit, u, v, Pumping
  <2>2. Chunks(inq') = Chunks(inq) /\ aconsumed' = aconsumed /\ Chunks(down') = Chunks(down)
    BY <1>10 DEF RecvCredit
  <2>3. m <= n
    <3>1. Credits(up) = Credits(up') + 1 /\ Head(up).n = Batch
      BY <1>10, Popped DEF RecvCredit, Holds, One, Frames
    <3>2. credq' = credq \/ credq' = Append(credq, Head(up).n)
      BY <1>10 DEF RecvCredit, FailExec
    <3>3. CASE credq' = credq
      BY <1>1, <3>1, <3>3 DEF n, m
    <3>4. CASE credq' = Append(credq, Head(up).n)
      <4>1. Len(credq') = Len(credq) + 1
        BY <3>1, <3>4, AppendProperties DEF Typed
      <4> QED  BY <1>1, <3>1, <4>1 DEF n, m
    <3> QED  BY <3>2, <3>3, <3>4
  <2>4. y <= x
    BY <1>a, <2>1, <2>2 DEF x, y
  <2> QED  BY <2>3, <2>4
<1>11. CASE StdinChunk
  <2>1. Chunks(inq) = Chunks(inq') + 1
    BY <1>11, Taken DEF StdinChunk, Typed, Holds, One
  <2>2. v = u /\ Chunks(down') = Chunks(down) /\ credq' = credq
    BY <1>11 DEF StdinChunk, u, v, Pumping
  <2>3. CASE aconsumed' = 0
    <3>1. aconsumed + 1 = Batch
      BY <1>0, <1>11, <2>3 DEF StdinChunk, Counted
    <3>2. m <= n + 1
      BY <1>1, <1>p, <2>2 DEF n, m
    <3>3. y + Batch = x
      <4>1. Chunks(inq') + aconsumed' + Batch = Chunks(inq) + aconsumed
        BY <1>0, <1>a, <2>1, <2>3, <3>1
      <4> QED  BY <1>0, <1>a, <2>2, <4>1 DEF x, y
    <3> QED  BY <1>0, <1>b, <3>2, <3>3
  <2>4. CASE aconsumed' # 0
    <3>1. aconsumed' = aconsumed + 1 /\ up' = up
      BY <1>11, <2>4, SendsNothing DEF StdinChunk, Counted
    <3>2. m = n
      BY <2>2, <3>1 DEF n, m
    <3>3. y = x
      <4>1. Chunks(inq') + aconsumed' = Chunks(inq) + aconsumed
        BY <1>a, <2>1, <3>1
      <4> QED  BY <1>a, <2>2, <4>1 DEF x, y
    <3> QED  BY <1>3, <1>b, <3>2, <3>3
  <2> QED  BY <2>3, <2>4
<1>12. CASE ~PumpChunk /\ ~PumpEnd /\ ~PumpRefunded /\ ~RecvCredit /\ ~StdinChunk
  <2>1. v <= u
    BY <1>0, <1>12, PumpStays DEF u, v
  <2>2. credq' = credq /\ aconsumed' = aconsumed
    BY <1>12, PumpStays, StdinStays
  <2>3. m <= n
    BY <1>1, <1>12, <1>p, <2>2 DEF n, m
  <2>4. Chunks(down') + Chunks(inq') <= Chunks(down) + Chunks(inq)
    <3>1. CASE GetInput
      BY <3>1, InputMoves
    <3>2. CASE ~GetInput
      <4>1. Chunks(inq') <= Chunks(inq)
        <5>1. CASE StdinEof \/ StdinError
          <6>1. inq # <<>> /\ inq' = Tail(inq) /\ Head(inq).kind \in {"eof", "error"}
            BY <5>1 DEF StdinEof, StdinError
          <6>2. Chunks(inq) = Chunks(inq') + One(Head(inq).kind, {"chunk"})
            BY <6>1, Taken DEF Typed, Holds
          <6>3. One(Head(inq).kind, {"chunk"}) \in 0..1
            BY DEF One
          <6> QED  BY <1>1, <6>2, <6>3
        <5>2. CASE ~(StdinEof \/ StdinError)
          <6>1. inq' = inq
            BY <1>12, <3>2, <5>2, StdinStays
          <6> QED  BY <1>1, <6>1
        <5> QED  BY <5>1, <5>2
      <4> QED  BY <1>1, <1>12, <1>q, <4>1
    <3> QED  BY <3>1, <3>2
  <2>5. y <= x
    BY <1>a, <2>1, <2>2, <2>4 DEF x, y
  <2> QED  BY <2>3, <2>5
<1> QED  BY <1>7, <1>8, <1>9, <1>10, <1>11, <1>12

\* An input has one end.
LEMMA InEndsStep ==
    ASSUME TypeOK, Typed, TypeOK', Typed', Begun, InEnds, [Next]_vars
    PROVE  InEnds'
<1>1. /\ Lasts(down) \in Nat /\ Lasts(down') \in Nat /\ Lasts(inq) \in Nat /\ Lasts(inq') \in Nat
  <2>1. Natural(down) /\ Natural(inq) /\ Natural(down') /\ Natural(inq')
    BY Naturals5 DEF Typed
  <2> QED  BY <2>1 DEF Natural
<1>2. Lasts(down') <= Lasts(down) \/ (PumpEnd /\ Lasts(down') <= Lasts(down) + 1)
  BY <1>1, DownFlow DEF DownSame, Grows, One
<1>3. Pumping' => Pumping
  BY PumpStays
<1> USE DEF linkVars, readVars, pumpVars, relayVars, stdinVars, controlVars, nodeVars
<1>4. CASE GetInput
  <2>1. Lasts(down') + Lasts(inq') <= Lasts(down) + Lasts(inq)
    BY <1>4, InputMoves
  <2> QED  BY <1>1, <1>3, <2>1 DEF InEnds
<1>5. CASE PumpEnd
  <2>1. Pumping /\ ~Pumping' /\ Lasts(inq') = Lasts(inq)
    BY <1>5 DEF PumpEnd, Pumping, Begun
  <2> QED  BY <1>1, <1>2, <2>1 DEF InEnds
<1>6. CASE ~GetInput /\ ~PumpEnd
  <2>1. Lasts(inq') <= Lasts(inq)
    <3>1. CASE StdinChunk \/ StdinEof \/ StdinError
      <4>1. inq # <<>> /\ inq' = Tail(inq)
        BY <3>1 DEF StdinChunk, StdinEof, StdinError
      <4>2. Lasts(inq) = Lasts(inq') + One(Head(inq).kind, {"eof", "error"})
        BY <4>1, Taken DEF Typed, Holds
      <4>3. One(Head(inq).kind, {"eof", "error"}) \in 0..1
        BY DEF One
      <4> QED  BY <1>1, <4>2, <4>3
    <3>2. CASE ~(StdinChunk \/ StdinEof \/ StdinError)
      <4>1. inq' = inq
        BY <1>6, <3>2, StdinStays
      <4> QED  BY <1>1, <4>1
    <3> QED  BY <3>1, <3>2
  <2>2. Lasts(down') <= Lasts(down)
    BY <1>2, <1>6
  <2>3. Lasts(down') + Lasts(inq') <= Lasts(down) + Lasts(inq)
    BY <1>1, <2>1, <2>2
  <2> QED  BY <1>1, <1>3, <2>3 DEF InEnds
<1> QED  BY <1>4, <1>5, <1>6

-----------------------------------------------------------------------------
(* No channel is overrun.                                                  *)

Credited == Begun /\ OutWindow /\ OutEnds /\ InWindow /\ InEnds

\* A frame under way finds room in its channel.
LEMMA Room ==
    ASSUME TypeOK, Typed, Credited
    PROVE  /\ up # <<>> /\ Head(up).kind \in {"chunk", "eof", "failure"} => Len(outq) <= Window
           /\ up # <<>> /\ Head(up).kind = "credit" => Len(credq) <= Window
           /\ down # <<>> /\ Head(down).kind \in {"chunk", "eof", "error"} => Len(inq) <= Window
           /\ down # <<>> /\ Head(down).kind = "credit" => Len(acredq) <= Window
<1> USE DEF Credited
<1>0. /\ Window \in Nat /\ rcredit \in Nat /\ pcredit \in Nat /\ consumed \in Nat /\ aconsumed \in Nat
  BY WindowAssumption DEF TypeOK
<1>1. /\ Chunks(down) \in Nat /\ Credits(down) \in Nat /\ Lasts(down) \in Nat
      /\ Chunks(up) \in Nat /\ Credits(up) \in Nat /\ Ends(up) \in Nat
      /\ Chunks(outq) \in Nat /\ Ends(outq) \in Nat /\ Chunks(inq) \in Nat /\ Lasts(inq) \in Nat
  BY Naturals5 DEF Typed, Natural
<1>2. Len(credq) \in Nat /\ Len(acredq) \in Nat
  <2>1. credq \in Seq({Batch}) /\ acredq \in Seq({Batch})
    BY DEF Typed
  <2> QED  BY <2>1, LenProperties
<1>3. ASSUME up # <<>>
      PROVE  /\ Head(up).kind = "chunk" => Chunks(up) >= 1
             /\ Head(up).kind \in {"eof", "failure"} => Ends(up) >= 1
             /\ Head(up).kind = "credit" => Credits(up) >= 1
  <2>1. Natural(Tail(up)) /\ Holds(up, Tail(up), Head(up).kind)
    BY <1>3, Taken, Naturals5 DEF Typed
  <2>2. Chunks(Tail(up)) \in Nat /\ Ends(Tail(up)) \in Nat /\ Credits(Tail(up)) \in Nat
    BY <2>1 DEF Natural
  <2> QED  BY <2>1, <2>2 DEF Holds, One
<1>4. ASSUME down # <<>>
      PROVE  /\ Head(down).kind = "chunk" => Chunks(down) >= 1
             /\ Head(down).kind \in {"eof", "error"} => Lasts(down) >= 1
             /\ Head(down).kind = "credit" => Credits(down) >= 1
  <2>1. Natural(Tail(down)) /\ Holds(down, Tail(down), Head(down).kind)
    BY <1>4, Taken, Naturals5 DEF Typed
  <2>2. Chunks(Tail(down)) \in Nat /\ Lasts(Tail(down)) \in Nat /\ Credits(Tail(down)) \in Nat
    BY <2>1 DEF Natural
  <2> QED  BY <2>1, <2>2 DEF Holds, One
<1> DEFINE n == Credits(down) + Len(acredq)
           m == Credits(up) + Len(credq)
           u == IF Pumping THEN pcredit ELSE 0
<1>n. n \in Nat /\ m \in Nat
  BY <1>1, <1>2
<1>u. u \in Nat
  BY <1>0
<1>o. rcredit + Chunks(up) + Chunks(outq) + consumed + Owed(n) <= Window
  BY DEF OutWindow
<1>i. u + Chunks(down) + Chunks(inq) + aconsumed + Owed(m) <= Window
  BY DEF InWindow
<1> HIDE DEF n, m, u
<1>w. Owed(n) \in Nat /\ Owed(m) \in Nat /\ n <= Owed(n) /\ m <= Owed(m)
  BY <1>n, OwedIs
<1>5. ASSUME up # <<>>, Head(up).kind \in {"chunk", "eof", "failure"} PROVE Len(outq) <= Window
  <2>1. Len(outq) = Chunks(outq) + Ends(outq)
    BY OutQueue DEF Typed
  <2>2. Chunks(up) + Ends(up) >= 1
    BY <1>1, <1>3, <1>5
  <2>3. rcredit + Chunks(up) + Chunks(outq) <= Window
    BY <1>0, <1>1, <1>w, <1>o
  <2>4. Ends(up) + Ends(outq) <= 1 + rcredit
    BY <1>0, <1>1 DEF OutEnds
  <2>5. rcredit + (Chunks(up) + Chunks(outq)) + (Ends(up) + Ends(outq)) <= Window + 1 + rcredit
    BY <1>0, <1>1, <2>3, <2>4
  <2>6. (Chunks(up) + Ends(up)) + (Chunks(outq) + Ends(outq)) <= Window + 1
    BY <1>0, <1>1, <2>5
  <2> QED  BY <1>0, <1>1, <2>1, <2>2, <2>6, SMTT(30)
<1>6. ASSUME up # <<>>, Head(up).kind = "credit" PROVE Len(credq) <= Window
  <2>1. Credits(up) >= 1
    BY <1>3, <1>6
  <2>2. Owed(m) <= Window
    BY <1>0, <1>1, <1>u, <1>w, <1>i
  <2>3. m <= Window
    BY <1>0, <1>n, <1>w, <2>2
  <2> QED  BY <1>0, <1>1, <1>2, <2>1, <2>3 DEF m
<1>7. ASSUME down # <<>>, Head(down).kind \in {"chunk", "eof", "error"} PROVE Len(inq) <= Window
  <2>1. Len(inq) = Chunks(inq) + Lasts(inq)
    BY InQueue DEF Typed
  <2>2. Chunks(down) + Lasts(down) >= 1
    BY <1>1, <1>4, <1>7
  <2>3. Chunks(down) + Chunks(inq) <= Window
    BY <1>0, <1>1, <1>u, <1>w, <1>i
  <2>4. Lasts(down) + Lasts(inq) <= 1
    BY <1>1 DEF InEnds
  <2> QED  BY <1>0, <1>1, <2>1, <2>2, <2>3, <2>4, SMTT(30)
<1>8. ASSUME down # <<>>, Head(down).kind = "credit" PROVE Len(acredq) <= Window
  <2>1. Credits(down) >= 1
    BY <1>4, <1>8
  <2>2. Owed(n) <= Window
    BY <1>0, <1>1, <1>w, <1>o
  <2>3. n <= Window
    BY <1>0, <1>n, <1>w, <2>2
  <2> QED  BY <1>0, <1>1, <1>2, <2>1, <2>3 DEF n
<1> QED  BY <1>5, <1>6, <1>7, <1>8

\* The control plane ends no exec for its window.
LEMMA NeverViolated ==
    ASSUME TypeOK, Typed, Credited, why # "violated", [Next]_vars
    PROVE  why' # "violated"
<1> USE DEF linkVars, readVars, pumpVars, relayVars, stdinVars, controlVars, nodeVars
<1>1. CASE RecvOutput
  <2>1. Len(outq) <= Window
    BY <1>1, Room DEF RecvOutput, Pops
  <2> QED  BY <1>1, <2>1 DEF RecvOutput
<1>2. CASE RecvCredit
  <2>1. Len(credq) <= Window
    BY <1>2, Room DEF RecvCredit, Pops
  <2> QED  BY <1>2, <2>1 DEF RecvCredit
<1>3. CASE Start \/ GiveUp \/ RecvAck \/ Shutdown \/ Reader \/ Pump
  BY <1>3 DEF Start, GiveUp, RecvAck, Shutdown, Reader, ReadChunk, ReadEnd,
              Pump, PumpChunk, PumpEnd, PumpRefunded, PumpStops
<1>4. CASE NodeLoop \/ Run \/ RelayChunk \/ CommandExits
  BY <1>4 DEF NodeLoop, GetStart, GetInput, GetCredit, Cancelled, Run, Attach, RelayRefunded, RelayEnds,
              RunEnds, RelayChunk, CommandExits
<1>5. CASE StdinPump \/ LinkEnds
  BY <1>5 DEF StdinPump, StdinChunk, StdinEof, StdinError, StdinStops, LinkEnds
<1>6. CASE UNCHANGED vars
  BY <1>6 DEF vars
<1> QED  BY <1>1, <1>2, <1>3, <1>4, <1>5, <1>6 DEF Next, RecvLoop

\* Nothing is under way at first.
LEMMA CreditedInit == Init => Credited /\ why # "violated"
<1> SUFFICES ASSUME Init PROVE Credited /\ why # "violated"
  OBVIOUS
<1>1. \A K : Count(<<>>, K) = 0
  BY CountEmpty
<1>2. /\ Chunks(down) = 0 /\ Credits(down) = 0 /\ Lasts(down) = 0 /\ Starts(down) = 0
      /\ Chunks(up) = 0 /\ Credits(up) = 0 /\ Ends(up) = 0
      /\ Chunks(outq) = 0 /\ Ends(outq) = 0 /\ Chunks(inq) = 0 /\ Lasts(inq) = 0
  BY <1>1 DEF Init, Chunks, Credits, Ends, Lasts, Starts
<1>3. Len(credq) = 0 /\ Len(acredq) = 0 /\ Window \in Nat /\ Batch \in Nat
  BY WindowAssumption DEF Init
<1>4. Owed(0) = 0
  BY <1>3 DEF Owed
<1>5. OutWindow /\ InWindow
  BY <1>2, <1>3, <1>4 DEF Init, OutWindow, InWindow, Pumping
<1>6. OutEnds /\ InEnds /\ Begun
  BY <1>2 DEF Init, OutEnds, InEnds, Begun, Pumping
<1> QED  BY <1>5, <1>6 DEF Init, Credited

\* What the window rests on.
Accounts == TypeOK /\ Typed /\ Credited /\ why # "violated"

LEMMA AccountsInit == Init => Accounts
BY TypeInit, CreditedInit DEF Accounts

\* Every step keeps the accounts.
LEMMA AccountsStep == Accounts /\ [Next]_vars => Accounts'
<1> SUFFICES ASSUME TypeOK, Typed, Credited, why # "violated", [Next]_vars PROVE Accounts'
  BY DEF Accounts
<1>1. TypeOK' /\ Typed'
  BY TypeStep
<1>2. Begun'
  BY <1>1, BegunStep DEF Credited
<1>3. OutWindow'
  BY <1>1, OutStep DEF Credited
<1>4. OutEnds'
  BY <1>1, OutEndsStep DEF Credited
<1>5. InWindow'
  BY <1>1, InStep DEF Credited
<1>6. InEnds'
  BY <1>1, InEndsStep DEF Credited
<1>7. why' # "violated"
  BY NeverViolated
<1> QED  BY <1>1, <1>2, <1>3, <1>4, <1>5, <1>6, <1>7 DEF Accounts, Credited

\* Two ends that honour the credits never overrun a channel, whatever they refund and when: no
\* exec fails for its window at either end, for any window and any batch (mux.go:42,
\* exec_relay.go:348).
THEOREM NoWindowOverrun == Spec => []WindowKept
<1>1. Accounts => WindowKept
  BY Room DEF Accounts, WindowKept
<1> QED  BY <1>1, AccountsInit, AccountsStep, PTL DEF Spec
-----------------------------------------------------------------------------
(* A pipe: a queue q at its reader and a wire w to it.                      *)

IsChunk(f, n) == f.kind = "chunk" /\ f.n = n

\* The chunks after b, as far as t, are all before position i of s.
Before(s, b, t, i) == t = b \/ \E j \in 1..i - 1 : IsChunk(s[j], t)

\* The chunks of s follow b one by one, and none is past t.
InOrder(s, b, t) ==
    \A i \in 1..Len(s) : s[i].kind = "chunk" =>
      /\ s[i].n \in b + 1..t /\ Before(s, b, s[i].n - 1, i)
      /\ \A j \in 1..i - 1 : s[j].kind = "chunk" => s[j].n < s[i].n

\* An end of file comes after all chunks.
Ended(s, b, t) == \A i \in 1..Len(s) : s[i].kind = "eof" => Before(s, b, t, i)

\* b chunks were taken of the t that were put in. The queue goes on where they end, and the
\* wire where the queue ends, as long as the reader takes from it: up to the last one while
\* nothing is lost.
PipeAt(q, w, open, whole, b, t, m) ==
    /\ m \in b..t
    /\ InOrder(q, b, m) /\ Ended(q, b, t) /\ Before(q, b, m, Len(q) + 1)
    /\ open => InOrder(w, m, t) /\ Ended(w, m, t) /\ (whole => Before(w, m, t, Len(w) + 1))

Pipe(q, w, open, whole, b, t) == \E m \in b..t : PipeAt(q, w, open, whole, b, t, m)

HasEof(s) == \E i \in 1..Len(s) : s[i].kind = "eof"

NoChunk(s) == \A i \in 1..Len(s) : s[i].kind # "chunk"

OutPipe == Pipe(outq, up, sub = "open", link = "up", Len(got), made)
InPipe == Pipe(inq, down, live, link = "up", Len(written), sent)

\* Before the node begins, neither pipe holds anything.
Fresh ==
    /\ ex = "none" =>
         /\ up = <<>> /\ outq = <<>> /\ got = <<>> /\ made = 0
         /\ NoChunk(down) /\ inq = <<>> /\ written = <<>> /\ sent = 0 /\ ~pump /\ ~eof
    /\ sub = "none" <=> call = "new"

\* What an end of file stands for.
EndsMean ==
    /\ HasEof(outq) \/ HasEof(up) => exited /\ (site.reads => stdin = "eof")
    /\ HasEof(inq) \/ HasEof(down) => eof
    /\ stdin = "eof" => eof /\ Len(written) = sent
    /\ stdin = "broken" => stopped
    /\ exited /\ site.reads => stdin # "none"
    /\ eof => ~pump /\ call \notin {"new", "calling"}
    /\ fin = "none" <=> call # "over"
    /\ sub = "failed" => why # "none"

\* What comes before a position is decided by the frames before it.
LEMMA BeforeSame ==
    ASSUME NEW r, NEW s, NEW i, \A j \in 1..i - 1 : r[j] = s[j], NEW b, NEW t
    PROVE  Before(r, b, t, i) <=> Before(s, b, t, i)
BY DEF Before, IsChunk

\* A frame that is no chunk, put at the end.
LEMMA OtherLast ==
    ASSUME NEW F, NEW s \in Seq(F), NEW f \in F, NEW b \in Nat, NEW t \in Nat, f.kind # "chunk"
    PROVE  /\ InOrder(s, b, t) => InOrder(Append(s, f), b, t)
           /\ \A u : Before(s, b, u, Len(s) + 1) => Before(Append(s, f), b, u, Len(Append(s, f)) + 1)
           /\ Ended(s, b, t) /\ (f.kind = "eof" => Before(s, b, t, Len(s) + 1)) => Ended(Append(s, f), b, t)
<1> DEFINE r == Append(s, f)
<1>1. /\ Len(s) \in Nat /\ Len(r) = Len(s) + 1 /\ r[Len(s) + 1] = f
      /\ \A i \in 1..Len(s) : r[i] = s[i]
  BY AppendProperties, LenProperties
<1> HIDE DEF r
<1>2. \A i \in 1..Len(s) + 1 : \A u : Before(r, b, u, i) <=> Before(s, b, u, i)
  <2> TAKE i \in 1..Len(s) + 1
  <2>1. \A j \in 1..i - 1 : r[j] = s[j]
    BY <1>1
  <2> QED  BY <2>1, BeforeSame
<1>3. ASSUME InOrder(s, b, t) PROVE InOrder(r, b, t)
  <2>1. ASSUME NEW i \in 1..Len(r), r[i].kind = "chunk"
        PROVE  /\ r[i].n \in b + 1..t /\ Before(r, b, r[i].n - 1, i)
               /\ \A j \in 1..i - 1 : r[j].kind = "chunk" => r[j].n < r[i].n
    <3>1. i \in 1..Len(s) /\ r[i] = s[i] /\ \A j \in 1..i - 1 : r[j] = s[j]
      BY <1>1, <2>1
    <3>2. /\ s[i].n \in b + 1..t /\ Before(s, b, s[i].n - 1, i)
          /\ \A j \in 1..i - 1 : s[j].kind = "chunk" => s[j].n < s[i].n
      BY <1>3, <2>1, <3>1 DEF InOrder
    <3>3. Before(r, b, s[i].n - 1, i)
      BY <1>2, <3>1, <3>2
    <3> QED  BY <3>1, <3>2, <3>3
  <2> QED  BY <2>1 DEF InOrder
<1>4. ASSUME NEW u, Before(s, b, u, Len(s) + 1) PROVE Before(r, b, u, Len(r) + 1)
  BY <1>1, <1>4 DEF Before, IsChunk
<1>5. Ended(s, b, t) /\ (f.kind = "eof" => Before(s, b, t, Len(s) + 1)) => Ended(r, b, t)
  BY <1>1, <1>2 DEF Ended
<1> QED  BY <1>3, <1>4, <1>5 DEF r

\* The next chunk, put at the end.
LEMMA ChunkLast ==
    ASSUME NEW F, NEW s \in Seq(F), NEW f \in F, NEW b \in Nat, NEW t \in Nat, IsChunk(f, t + 1),
           InOrder(s, b, t), Before(s, b, t, Len(s) + 1), b <= t
    PROVE  /\ InOrder(Append(s, f), b, t + 1)
           /\ Before(Append(s, f), b, t + 1, Len(Append(s, f)) + 1)
<1> DEFINE r == Append(s, f)
<1>1. /\ Len(s) \in Nat /\ Len(r) = Len(s) + 1 /\ r[Len(s) + 1] = f
      /\ \A i \in 1..Len(s) : r[i] = s[i]
  BY AppendProperties, LenProperties
<1> HIDE DEF r
<1>2. \A i \in 1..Len(s) + 1 : \A u : Before(r, b, u, i) <=> Before(s, b, u, i)
  <2> TAKE i \in 1..Len(s) + 1
  <2>1. \A j \in 1..i - 1 : r[j] = s[j]
    BY <1>1
  <2> QED  BY <2>1, BeforeSame
<1>3. Before(r, b, t + 1, Len(r) + 1)
  BY <1>1 DEF Before, IsChunk
<1>4. ASSUME NEW i \in 1..Len(r), r[i].kind = "chunk"
      PROVE  /\ r[i].n \in b + 1..t + 1 /\ Before(r, b, r[i].n - 1, i)
             /\ \A j \in 1..i - 1 : r[j].kind = "chunk" => r[j].n < r[i].n
  <2>1. CASE i \in 1..Len(s)
    <3>1. i \in 1..Len(s) + 1 /\ r[i] = s[i] /\ \A j \in 1..i - 1 : r[j] = s[j]
      BY <1>1, <2>1
    <3>2. /\ s[i].n \in b + 1..t /\ Before(s, b, s[i].n - 1, i)
          /\ \A j \in 1..i - 1 : s[j].kind = "chunk" => s[j].n < s[i].n
      BY <1>4, <2>1, <3>1 DEF InOrder
    <3>3. Before(r, b, s[i].n - 1, i)
      BY <1>2, <3>1, <3>2
    <3>4. s[i].n \in b + 1..t + 1
      BY <3>2
    <3> QED  BY <3>1, <3>2, <3>3, <3>4
  <2>2. CASE i = Len(s) + 1
    <3>1. r[i].n = t + 1 /\ r[i].n - 1 = t
      BY <1>1, <2>2 DEF IsChunk
    <3>2. Before(r, b, t, i)
      BY <1>1, <1>2, <2>2
    <3>3. \A j \in 1..i - 1 : r[j].kind = "chunk" => r[j].n \in b + 1..t
      BY <1>1, <2>2 DEF InOrder
    <3> QED  BY <3>1, <3>2, <3>3
  <2> QED  BY <1>1, <2>1, <2>2
<1> QED  BY <1>3, <1>4 DEF r, InOrder

\* A chunk taken from the front is the next one, and the others go on after it.
LEMMA ChunkFirst ==
    ASSUME NEW F, NEW s \in Seq(F), s # <<>>, NEW b \in Nat, NEW m \in Nat, InOrder(s, b, m),
           Head(s).kind = "chunk"
    PROVE  /\ Head(s).n = b + 1 /\ b + 1 <= m
           /\ InOrder(Tail(s), b + 1, m)
           /\ \A t \in Nat : t > b /\ Ended(s, b, t) => Ended(Tail(s), b + 1, t)
           /\ \A t \in Nat : t > b /\ Before(s, b, t, Len(s) + 1) => Before(Tail(s), b + 1, t, Len(Tail(s)) + 1)
<1> DEFINE r == Tail(s)
<1>1. /\ Len(s) \in Nat \ {0} /\ Len(r) = Len(s) - 1 /\ Head(s) = s[1]
      /\ \A i \in 1..Len(r) : r[i] = s[i + 1]
  BY HeadTailProperties, LenProperties, EmptySeq
<1> HIDE DEF r
<1>2. s[1].n = b + 1 /\ b + 1 <= m
  <2>1. s[1].n \in b + 1..m /\ Before(s, b, s[1].n - 1, 1)
    BY <1>1 DEF InOrder
  <2>2. s[1].n - 1 = b
    BY <2>1 DEF Before
  <2> QED  BY <2>1, <2>2
<1>3. ASSUME NEW i \in 1..Len(r) + 1, NEW t \in Nat, t > b, Before(s, b, t, i + 1)
      PROVE  Before(r, b + 1, t, i)
  <2>1. PICK j \in 1..i : IsChunk(s[j], t)
    BY <1>1, <1>3 DEF Before
  <2>2. CASE j = 1
    BY <1>2, <2>1, <2>2 DEF Before, IsChunk
  <2>3. CASE j # 1
    <3>1. j - 1 \in 1..i - 1 /\ r[j - 1] = s[j]
      BY <1>1, <2>3
    <3> QED  BY <2>1, <3>1 DEF Before
  <2> QED  BY <2>2, <2>3
<1>4. ASSUME NEW i \in 1..Len(r), r[i].kind = "chunk"
      PROVE  /\ r[i].n \in b + 2..m /\ Before(r, b + 1, r[i].n - 1, i)
             /\ \A j \in 1..i - 1 : r[j].kind = "chunk" => r[j].n < r[i].n
  <2>1. i + 1 \in 1..Len(s) /\ r[i] = s[i + 1] /\ s[1].kind = "chunk" /\ 1 \in 1..(i + 1) - 1
    BY <1>1
  <2>2. /\ r[i].n \in b + 1..m /\ Before(s, b, r[i].n - 1, i + 1) /\ s[1].n < r[i].n
        /\ \A j \in 1..(i + 1) - 1 : s[j].kind = "chunk" => s[j].n < r[i].n
    BY <1>4, <2>1 DEF InOrder
  <2>3. r[i].n \in b + 2..m /\ r[i].n - 1 \in Nat /\ r[i].n - 1 > b
    BY <1>2, <2>2
  <2>4. Before(r, b + 1, r[i].n - 1, i)
    <3> DEFINE u == r[i].n - 1
    <3>1. i \in 1..Len(r) + 1 /\ u \in Nat /\ u > b /\ Before(s, b, u, i + 1)
      BY <1>1, <2>2, <2>3
    <3> HIDE DEF u
    <3>2. Before(r, b + 1, u, i)
      BY <1>3, <3>1
    <3> QED  BY <3>2 DEF u
  <2>5. ASSUME NEW j \in 1..i - 1, r[j].kind = "chunk" PROVE r[j].n < r[i].n
    <3>1. j + 1 \in 1..(i + 1) - 1 /\ r[j] = s[j + 1]
      BY <1>1
    <3> QED  BY <2>2, <2>5, <3>1
  <2> QED  BY <2>3, <2>4, <2>5
<1>5. InOrder(r, b + 1, m)
  <2>1. b + 2 = (b + 1) + 1
    OBVIOUS
  <2> QED  BY <1>4, <2>1 DEF InOrder
<1>6. ASSUME NEW t \in Nat, t > b, Ended(s, b, t) PROVE Ended(r, b + 1, t)
  <2>1. ASSUME NEW i \in 1..Len(r), r[i].kind = "eof" PROVE Before(r, b + 1, t, i)
    <3>1. i + 1 \in 1..Len(s) /\ r[i] = s[i + 1]
      BY <1>1
    <3>2. Before(s, b, t, i + 1)
      BY <1>6, <2>1, <3>1 DEF Ended
    <3> QED  BY <1>3, <1>6, <3>2
  <2> QED  BY <2>1 DEF Ended
<1>7. ASSUME NEW t \in Nat, t > b, Before(s, b, t, Len(s) + 1) PROVE Before(r, b + 1, t, Len(r) + 1)
  <2>1. Len(r) + 1 \in 1..Len(r) + 1 /\ (Len(r) + 1) + 1 = Len(s) + 1
    BY <1>1
  <2> QED  BY <1>3, <1>7, <2>1
<1> QED  BY <1>1, <1>2, <1>5, <1>6, <1>7 DEF r

\* Another frame taken from the front leaves the chunks as they are.
LEMMA OtherFirst ==
    ASSUME NEW F, NEW s \in Seq(F), s # <<>>, NEW b \in Nat, Head(s).kind # "chunk"
    PROVE  \A t \in Nat :
             /\ InOrder(s, b, t) => InOrder(Tail(s), b, t)
             /\ Ended(s, b, t) => Ended(Tail(s), b, t)
             /\ Before(s, b, t, Len(s) + 1) => Before(Tail(s), b, t, Len(Tail(s)) + 1)
             /\ Head(s).kind = "eof" /\ Ended(s, b, t) => t = b
<1> DEFINE r == Tail(s)
<1>1. /\ Len(s) \in Nat \ {0} /\ Len(r) = Len(s) - 1 /\ Head(s) = s[1]
      /\ \A i \in 1..Len(r) : r[i] = s[i + 1]
  BY HeadTailProperties, LenProperties, EmptySeq
<1> HIDE DEF r
<1> TAKE t \in Nat
<1>2. ASSUME NEW i \in 1..Len(r) + 1, NEW u, Before(s, b, u, i + 1) PROVE Before(r, b, u, i)
  <2>1. CASE u = b
    BY <2>1 DEF Before
  <2>2. CASE u # b
    <3>1. PICK j \in 1..i : IsChunk(s[j], u)
      BY <1>1, <1>2, <2>2 DEF Before
    <3>2. j # 1
      BY <1>1, <3>1 DEF IsChunk
    <3>3. j - 1 \in 1..i - 1 /\ r[j - 1] = s[j]
      BY <1>1, <3>2
    <3> QED  BY <3>1, <3>3 DEF Before
  <2> QED  BY <2>1, <2>2
<1>3. ASSUME InOrder(s, b, t), NEW i \in 1..Len(r), r[i].kind = "chunk"
      PROVE  /\ r[i].n \in b + 1..t /\ Before(r, b, r[i].n - 1, i)
             /\ \A j \in 1..i - 1 : r[j].kind = "chunk" => r[j].n < r[i].n
  <2>1. i + 1 \in 1..Len(s) /\ r[i] = s[i + 1]
    BY <1>1
  <2>2. /\ r[i].n \in b + 1..t /\ Before(s, b, r[i].n - 1, i + 1)
        /\ \A j \in 1..(i + 1) - 1 : s[j].kind = "chunk" => s[j].n < r[i].n
    BY <1>3, <2>1 DEF InOrder
  <2>3. Before(r, b, r[i].n - 1, i)
    BY <1>2, <2>2
  <2>4. ASSUME NEW j \in 1..i - 1, r[j].kind = "chunk" PROVE r[j].n < r[i].n
    <3>1. j + 1 \in 1..(i + 1) - 1 /\ r[j] = s[j + 1]
      BY <1>1
    <3> QED  BY <2>2, <2>4, <3>1
  <2> QED  BY <2>2, <2>3, <2>4
<1>4. InOrder(s, b, t) => InOrder(r, b, t)
  BY <1>3 DEF InOrder
<1>5. ASSUME Ended(s, b, t), NEW i \in 1..Len(r), r[i].kind = "eof" PROVE Before(r, b, t, i)
  <2>1. i + 1 \in 1..Len(s) /\ r[i] = s[i + 1]
    BY <1>1
  <2> QED  BY <1>2, <1>5, <2>1 DEF Ended
<1>6. ASSUME Before(s, b, t, Len(s) + 1) PROVE Before(r, b, t, Len(r) + 1)
  <2>1. Len(r) + 1 \in 1..Len(r) + 1 /\ (Len(r) + 1) + 1 = Len(s) + 1
    BY <1>1
  <2> QED  BY <1>2, <1>6, <2>1
<1>7. Head(s).kind = "eof" /\ Ended(s, b, t) => t = b
  BY <1>1 DEF Ended, Before
<1> QED  BY <1>1, <1>4, <1>5, <1>6, <1>7 DEF r, Ended

\* A reader that stopped taking from the wire no longer depends on it.
LEMMA PipeShut ==
    ASSUME NEW q, NEW w, NEW o, NEW x, NEW b, NEW t, Pipe(q, w, o, x, b, t)
    PROVE  \A v, y : Pipe(q, v, FALSE, y, b, t)
BY DEF Pipe, PipeAt

\* Nothing is in the pipe.
LEMMA PipeNew ==
    ASSUME NEW w, NoChunk(w), NEW o, NEW x
    PROVE  Pipe(<<>>, w, o, x, 0, 0)
<1>1. InOrder(<<>>, 0, 0) /\ Ended(<<>>, 0, 0) /\ \A i : Before(<<>>, 0, 0, i)
  BY DEF InOrder, Ended, Before
<1>2. InOrder(w, 0, 0) /\ Ended(w, 0, 0) /\ \A i : Before(w, 0, 0, i)
  BY DEF InOrder, Ended, Before, NoChunk
<1>3. PipeAt(<<>>, w, o, x, 0, 0, 0)
  BY <1>1, <1>2 DEF PipeAt
<1> QED  BY <1>3 DEF Pipe

\* A frame that is no chunk is sent.
LEMMA PipeSends ==
    ASSUME NEW q, NEW F, NEW w \in Seq(F), NEW f \in F, f.kind # "chunk", NEW o \in BOOLEAN,
           NEW b \in Nat, NEW t \in Nat, Pipe(q, w, o, TRUE, b, t)
    PROVE  Pipe(q, Append(w, f), o, TRUE, b, t)
<1>1. PICK m \in b..t : PipeAt(q, w, o, TRUE, b, t, m)
  BY DEF Pipe
<1>2. m \in Nat
  OBVIOUS
<1> DEFINE r == Append(w, f)
<1>3. /\ InOrder(w, m, t) => InOrder(r, m, t)
      /\ Before(w, m, t, Len(w) + 1) => Before(r, m, t, Len(r) + 1)
      /\ Ended(w, m, t) /\ (f.kind = "eof" => Before(w, m, t, Len(w) + 1)) => Ended(r, m, t)
  BY <1>2, OtherLast
<1> HIDE DEF r
<1>4. PipeAt(q, r, o, TRUE, b, t, m)
  BY <1>1, <1>3 DEF PipeAt
<1> QED  BY <1>4 DEF Pipe, r

\* A bound that grows.
LEMMA OrderGrows ==
    ASSUME NEW s, NEW b \in Nat, NEW t \in Nat, InOrder(s, b, t)
    PROVE  InOrder(s, b, t + 1)
BY \A x : x \in b + 1..t => x \in b + 1..t + 1 DEF InOrder

\* The next chunk is sent, before any end of file.
LEMMA PipeChunk ==
    ASSUME NEW q, NEW F, NEW w \in Seq(F), NEW f \in F, NEW o \in BOOLEAN,
           NEW b \in Nat, NEW t \in Nat, IsChunk(f, t + 1), ~HasEof(q), ~HasEof(w),
           Pipe(q, w, o, TRUE, b, t)
    PROVE  Pipe(q, Append(w, f), o, TRUE, b, t + 1)
<1>1. PICK m \in b..t : PipeAt(q, w, o, TRUE, b, t, m)
  BY DEF Pipe
<1>2. m \in Nat /\ m <= t /\ m \in b..t + 1
  OBVIOUS
<1> DEFINE r == Append(w, f)
<1>3. InOrder(w, m, t) /\ Before(w, m, t, Len(w) + 1) =>
        InOrder(r, m, t + 1) /\ Before(r, m, t + 1, Len(r) + 1)
  BY <1>2, ChunkLast
<1>4. ~HasEof(r)
  <2>1. /\ Len(w) \in Nat /\ Len(r) = Len(w) + 1 /\ r[Len(w) + 1] = f
        /\ \A i \in 1..Len(w) : r[i] = w[i]
    BY AppendProperties, LenProperties
  <2> HIDE DEF r
  <2> QED  BY <2>1 DEF HasEof, IsChunk
<1> HIDE DEF r
<1>5. Ended(q, b, t + 1) /\ Ended(r, m, t + 1)
  BY <1>4 DEF Ended, HasEof
<1>6. PipeAt(q, r, o, TRUE, b, t + 1, m)
  BY <1>1, <1>2, <1>3, <1>5 DEF PipeAt
<1> QED  BY <1>2, <1>6 DEF Pipe, r

\* The next chunk is lost.
LEMMA PipeLoses ==
    ASSUME NEW q, NEW w, NEW o \in BOOLEAN, NEW x, NEW b \in Nat, NEW t \in Nat,
           ~HasEof(q), ~HasEof(w), Pipe(q, w, o, x, b, t)
    PROVE  Pipe(q, w, o, FALSE, b, t + 1)
<1>1. PICK m \in b..t : PipeAt(q, w, o, x, b, t, m)
  BY DEF Pipe
<1>2. m \in Nat /\ m \in b..t + 1
  OBVIOUS
<1>3. InOrder(w, m, t) => InOrder(w, m, t + 1)
  BY <1>2, OrderGrows
<1>4. Ended(q, b, t + 1) /\ Ended(w, m, t + 1)
  BY DEF Ended, HasEof
<1>5. PipeAt(q, w, o, FALSE, b, t + 1, m)
  BY <1>1, <1>2, <1>3, <1>4 DEF PipeAt
<1> QED  BY <1>2, <1>5 DEF Pipe

\* The reader drops a frame that is no chunk.
LEMMA PipeDrops ==
    ASSUME NEW q, NEW F, NEW w \in Seq(F), w # <<>>, Head(w).kind # "chunk",
           NEW o \in BOOLEAN, NEW x \in BOOLEAN, NEW b \in Nat, NEW t \in Nat,
           Pipe(q, w, o, x, b, t)
    PROVE  Pipe(q, Tail(w), o, x, b, t)
<1>1. PICK m \in b..t : PipeAt(q, w, o, x, b, t, m)
  BY DEF Pipe
<1>2. m \in Nat
  OBVIOUS
<1>3. /\ InOrder(w, m, t) => InOrder(Tail(w), m, t)
      /\ Ended(w, m, t) => Ended(Tail(w), m, t)
      /\ Before(w, m, t, Len(w) + 1) => Before(Tail(w), m, t, Len(Tail(w)) + 1)
  BY <1>2, OtherFirst
<1>4. PipeAt(q, Tail(w), o, x, b, t, m)
  BY <1>1, <1>3 DEF PipeAt
<1> QED  BY <1>4 DEF Pipe

\* A frame moves from the wire to the queue.
LEMMA PipeMoves ==
    ASSUME NEW F, NEW G, NEW q \in Seq(F), NEW w \in Seq(G), w # <<>>, Head(w) \in F,
           NEW x \in BOOLEAN, NEW b \in Nat, NEW t \in Nat, Pipe(q, w, TRUE, x, b, t)
    PROVE  Pipe(Append(q, Head(w)), Tail(w), TRUE, x, b, t)
<1>1. PICK m \in b..t : PipeAt(q, w, TRUE, x, b, t, m)
  BY DEF Pipe
<1>2. m \in Nat /\ b <= m /\ m <= t
  OBVIOUS
<1> DEFINE f == Head(w)
           r == Append(q, f)
           v == Tail(w)
<1>3. /\ InOrder(q, b, m) /\ Ended(q, b, t) /\ Before(q, b, m, Len(q) + 1)
      /\ InOrder(w, m, t) /\ Ended(w, m, t) /\ (x => Before(w, m, t, Len(w) + 1))
  BY <1>1 DEF PipeAt
<1>4. CASE f.kind = "chunk"
  <2>1. f.n = m + 1 /\ m + 1 <= t /\ InOrder(v, m + 1, t)
    BY <1>2, <1>3, <1>4, ChunkFirst
  <2>2. t > m
    BY <1>2, <2>1
  <2>3. Ended(v, m + 1, t)
    BY <1>2, <1>3, <1>4, <2>2, ChunkFirst
  <2>4. x => Before(v, m + 1, t, Len(v) + 1)
    BY <1>2, <1>3, <1>4, <2>2, ChunkFirst
  <2>5. IsChunk(f, m + 1)
    BY <1>4, <2>1 DEF IsChunk
  <2>6. InOrder(r, b, m + 1) /\ Before(r, b, m + 1, Len(r) + 1)
    BY <1>2, <1>3, <2>5, ChunkLast
  <2>7. Ended(r, b, t)
    <3>1. /\ Len(q) \in Nat /\ Len(r) = Len(q) + 1 /\ r[Len(q) + 1] = f
          /\ \A i \in 1..Len(q) : r[i] = q[i]
      BY AppendProperties, LenProperties
    <3> HIDE DEF r, f
    <3>2. ASSUME NEW i \in 1..Len(r), r[i].kind = "eof" PROVE Before(r, b, t, i)
      <4>1. i \in 1..Len(q) /\ q[i].kind = "eof" /\ \A j \in 1..i - 1 : r[j] = q[j]
        BY <1>4, <3>1, <3>2
      <4>2. Before(q, b, t, i)
        BY <1>3, <4>1 DEF Ended
      <4> QED  BY <4>1, <4>2, BeforeSame
    <3> QED  BY <3>2 DEF Ended
  <2> HIDE DEF f, r, v
  <2>8. m + 1 \in b..t
    BY <1>2, <2>1
  <2>9. PipeAt(r, v, TRUE, x, b, t, m + 1)
    BY <2>1, <2>3, <2>4, <2>6, <2>7, <2>8 DEF PipeAt
  <2> QED  BY <2>8, <2>9 DEF Pipe, r, v, f
<1>5. CASE f.kind # "chunk"
  <2>1. /\ InOrder(v, m, t) /\ Ended(v, m, t) /\ (x => Before(v, m, t, Len(v) + 1))
        /\ f.kind = "eof" => t = m
    BY <1>2, <1>3, <1>5, OtherFirst
  <2>2. InOrder(r, b, m) /\ Before(r, b, m, Len(r) + 1)
    BY <1>2, <1>3, <1>5, OtherLast
  <2>3. Ended(r, b, t)
    BY <1>2, <1>3, <1>5, <2>1, OtherLast
  <2> HIDE DEF f, r, v
  <2>4. PipeAt(r, v, TRUE, x, b, t, m)
    BY <1>2, <2>1, <2>2, <2>3 DEF PipeAt
  <2> QED  BY <2>4 DEF Pipe, r, v, f
<1> QED  BY <1>4, <1>5

\* The next chunk is taken from the queue: it is the one after those taken.
LEMMA PipeTakes ==
    ASSUME NEW F, NEW q \in Seq(F), q # <<>>, Head(q).kind = "chunk", NEW w,
           NEW o \in BOOLEAN, NEW x \in BOOLEAN, NEW b \in Nat, NEW t \in Nat, Pipe(q, w, o, x, b, t)
    PROVE  Head(q).n = b + 1 /\ b < t /\ Pipe(Tail(q), w, o, x, b + 1, t)
<1>1. PICK m \in b..t : PipeAt(q, w, o, x, b, t, m)
  BY DEF Pipe
<1>2. m \in Nat /\ m <= t
  OBVIOUS
<1>3. InOrder(q, b, m) /\ Ended(q, b, t) /\ Before(q, b, m, Len(q) + 1)
  BY <1>1 DEF PipeAt
<1>4. Head(q).n = b + 1 /\ b + 1 <= m /\ InOrder(Tail(q), b + 1, m)
  BY <1>2, <1>3, ChunkFirst
<1>5. m > b /\ t > b
  BY <1>2, <1>4
<1>6. Ended(Tail(q), b + 1, t) /\ Before(Tail(q), b + 1, m, Len(Tail(q)) + 1)
  BY <1>2, <1>3, <1>5, ChunkFirst
<1>7. m \in b + 1..t
  BY <1>2, <1>4
<1>8. PipeAt(Tail(q), w, o, x, b + 1, t, m)
  BY <1>1, <1>4, <1>6, <1>7 DEF PipeAt
<1> QED  BY <1>4, <1>5, <1>7, <1>8 DEF Pipe

\* Another frame is taken from the queue: an end of file finds that everything was taken.
LEMMA PipeEnds ==
    ASSUME NEW F, NEW q \in Seq(F), q # <<>>, Head(q).kind # "chunk", NEW w,
           NEW o \in BOOLEAN, NEW x \in BOOLEAN, NEW b \in Nat, NEW t \in Nat, Pipe(q, w, o, x, b, t)
    PROVE  Pipe(Tail(q), w, o, x, b, t) /\ (Head(q).kind = "eof" => t = b)
<1>1. PICK m \in b..t : PipeAt(q, w, o, x, b, t, m)
  BY DEF Pipe
<1>2. m \in Nat
  OBVIOUS
<1>3. InOrder(q, b, m) /\ Ended(q, b, t) /\ Before(q, b, m, Len(q) + 1)
  BY <1>1 DEF PipeAt
<1>4. /\ InOrder(Tail(q), b, m) /\ Before(Tail(q), b, m, Len(Tail(q)) + 1)
      /\ Ended(Tail(q), b, t) /\ (Head(q).kind = "eof" => t = b)
  BY <1>2, <1>3, OtherFirst
<1>5. PipeAt(Tail(q), w, o, x, b, t, m)
  BY <1>1, <1>4 DEF PipeAt
<1> QED  BY <1>4, <1>5 DEF Pipe

\* The wire breaks and keeps only what it carried first.
LEMMA PipeCut ==
    ASSUME NEW q, NEW F, NEW w \in Seq(F), NEW n \in 0..Len(w), NEW o \in BOOLEAN, NEW x,
           NEW b \in Nat, NEW t \in Nat, Pipe(q, w, o, x, b, t)
    PROVE  Pipe(q, SubSeq(w, 1, n), o, FALSE, b, t)
<1>1. PICK m \in b..t : PipeAt(q, w, o, x, b, t, m)
  BY DEF Pipe
<1> DEFINE r == SubSeq(w, 1, n)
<1>2. Len(w) \in Nat /\ \A i \in 1..n : w[i] \in F
  BY LenProperties, ElementOfSeq
<1>3. Len(r) = n /\ \A i \in 1..n : i \in 1..Len(w) /\ r[i] = w[i]
  BY <1>2, SubSeqProperties, Z3
<1> HIDE DEF r
<1>4. ASSUME NEW i \in 1..n PROVE \A u : Before(r, m, u, i) <=> Before(w, m, u, i)
  <2>1. \A j \in 1..i - 1 : r[j] = w[j]
    BY <1>3
  <2> QED  BY <2>1, BeforeSame
<1>5. InOrder(w, m, t) => InOrder(r, m, t)
  <2>1. \A i \in 1..n : \A j \in 1..i - 1 : r[j] = w[j]
    BY <1>3
  <2> QED  BY <1>3, <1>4, <2>1 DEF InOrder
<1>6. Ended(w, m, t) => Ended(r, m, t)
  BY <1>3, <1>4 DEF Ended
<1>7. PipeAt(q, r, o, FALSE, b, t, m)
  BY <1>1, <1>5, <1>6 DEF PipeAt
<1> QED  BY <1>7 DEF Pipe, r

\* Ends of file and chunks in what a sequence becomes.
LEMMA EofStays ==
    ASSUME NEW F, NEW s \in Seq(F)
    PROVE  /\ \A f \in F : HasEof(Append(s, f)) <=> HasEof(s) \/ f.kind = "eof"
           /\ s # <<>> => /\ HasEof(Tail(s)) => HasEof(s)
                          /\ Head(s).kind = "eof" => HasEof(s)
           /\ \A n \in 0..Len(s) : HasEof(SubSeq(s, 1, n)) => HasEof(s)
           /\ ~HasEof(<<>>)
<1>1. Len(s) \in Nat /\ \A i \in 1..Len(s) : s[i] \in F
  BY LenProperties, ElementOfSeq
<1>2. ASSUME NEW f \in F PROVE HasEof(Append(s, f)) <=> HasEof(s) \/ f.kind = "eof"
  <2> DEFINE r == Append(s, f)
  <2>1. /\ Len(r) = Len(s) + 1 /\ r[Len(s) + 1] = f /\ \A i \in 1..Len(s) : r[i] = s[i]
    BY AppendProperties
  <2> HIDE DEF r
  <2>2. HasEof(r) <=> HasEof(s) \/ f.kind = "eof"
    BY <1>1, <2>1 DEF HasEof
  <2> QED  BY <2>2 DEF r
<1>3. ASSUME s # <<>>
      PROVE  (HasEof(Tail(s)) => HasEof(s)) /\ (Head(s).kind = "eof" => HasEof(s))
  <2> DEFINE r == Tail(s)
  <2>1. /\ Len(s) # 0 /\ Len(r) = Len(s) - 1 /\ Head(s) = s[1] /\ \A i \in 1..Len(r) : r[i] = s[i + 1]
    BY <1>3, HeadTailProperties, EmptySeq
  <2> HIDE DEF r
  <2>2. (HasEof(r) => HasEof(s)) /\ (Head(s).kind = "eof" => HasEof(s))
    BY <1>1, <2>1 DEF HasEof
  <2> QED  BY <2>2 DEF r
<1>4. ASSUME NEW n \in 0..Len(s), HasEof(SubSeq(s, 1, n)) PROVE HasEof(s)
  <2> DEFINE r == SubSeq(s, 1, n)
  <2>1. Len(r) = n /\ \A i \in 1..n : i \in 1..Len(s) /\ r[i] = s[i]
    BY <1>1, SubSeqProperties, Z3
  <2>2. HasEof(r)
    BY <1>4
  <2> HIDE DEF r
  <2> QED  BY <2>1, <2>2 DEF HasEof
<1> QED  BY <1>2, <1>3, <1>4 DEF HasEof

\* The same for sequences without a chunk.
LEMMA NoChunkStays ==
    ASSUME NEW F, NEW s \in Seq(F), NoChunk(s)
    PROVE  /\ \A f \in F : f.kind # "chunk" => NoChunk(Append(s, f))
           /\ s # <<>> => NoChunk(Tail(s))
           /\ \A n \in 0..Len(s) : NoChunk(SubSeq(s, 1, n))
<1>1. Len(s) \in Nat /\ \A i \in 1..Len(s) : s[i] \in F
  BY LenProperties, ElementOfSeq
<1>2. ASSUME NEW f \in F, f.kind # "chunk" PROVE NoChunk(Append(s, f))
  <2> DEFINE r == Append(s, f)
  <2>1. /\ Len(r) = Len(s) + 1 /\ r[Len(s) + 1] = f /\ \A i \in 1..Len(s) : r[i] = s[i]
    BY AppendProperties
  <2> HIDE DEF r
  <2>2. NoChunk(r)
    BY <1>1, <1>2, <2>1 DEF NoChunk
  <2> QED  BY <2>2 DEF r
<1>3. ASSUME s # <<>> PROVE NoChunk(Tail(s))
  <2> DEFINE r == Tail(s)
  <2>1. /\ Len(s) # 0 /\ Len(r) = Len(s) - 1 /\ \A i \in 1..Len(r) : r[i] = s[i + 1]
    BY <1>3, HeadTailProperties, EmptySeq
  <2> HIDE DEF r
  <2>2. NoChunk(r)
    BY <1>1, <2>1 DEF NoChunk
  <2> QED  BY <2>2 DEF r
<1>4. ASSUME NEW n \in 0..Len(s) PROVE NoChunk(SubSeq(s, 1, n))
  <2> DEFINE r == SubSeq(s, 1, n)
  <2>1. Len(r) = n /\ \A i \in 1..n : i \in 1..Len(s) /\ r[i] = s[i]
    BY <1>1, SubSeqProperties, Z3
  <2> HIDE DEF r
  <2>2. NoChunk(r)
    BY <2>1 DEF NoChunk
  <2> QED  BY <2>2 DEF r
<1> QED  BY <1>2, <1>3, <1>4

-----------------------------------------------------------------------------
(* Both pipes of an exec are kept.                                         *)

Delivered == got \in Seq(Nat) /\ written \in Seq(Nat)

Piped == OutPipe /\ InPipe /\ Fresh /\ EndsMean /\ Delivered

\* What is counted at the ends of the pipes.
LEMMA Counts ==
    ASSUME TypeOK, Delivered
    PROVE  /\ Len(got) \in Nat /\ Len(written) \in Nat /\ made \in Nat /\ sent \in Nat /\ Batch \in Nat
           /\ (sub = "open") \in BOOLEAN /\ (link = "up") \in BOOLEAN /\ live \in BOOLEAN
<1>1. Len(got) \in Nat /\ Len(written) \in Nat
  BY LenProperties DEF Delivered
<1>2. made \in Nat /\ sent \in Nat /\ Batch \in Nat /\ live \in BOOLEAN
  BY Sizes DEF TypeOK
<1> QED  BY <1>1, <1>2

\* A step that leaves the output's pipe alone, or from which its reader turns away.
LEMMA OutQuiet ==
    ASSUME OutPipe, got' = got, made' = made, outq' = outq,
           \/ sub' # "open"
           \/ sub' = sub /\ up' = up /\ (link' = "up" <=> link = "up")
    PROVE  OutPipe'
<1>1. Pipe(outq, up, sub = "open", link = "up", Len(got), made)
  BY DEF OutPipe
<1>2. CASE sub' # "open"
  <2>1. \A v, y : Pipe(outq, v, FALSE, y, Len(got), made)
    BY <1>1, PipeShut
  <2>2. (sub' = "open") = FALSE
    BY <1>2
  <2> QED  BY <2>1, <2>2 DEF OutPipe
<1>3. CASE sub' = sub /\ up' = up /\ (link' = "up" <=> link = "up")
  <2>1. (sub' = "open") = (sub = "open") /\ (link' = "up") = (link = "up")
    BY <1>3
  <2> QED  BY <1>1, <1>3, <2>1 DEF OutPipe
<1> QED  BY <1>2, <1>3

\* A frame of the node that is no chunk.
LEMMA OutSends ==
    ASSUME TypeOK, Typed, Delivered, OutPipe, NEW k \in Kinds \ {"chunk"}, NEW n \in Nat,
           k = "credit" => n = Batch, Up(<<Frame(k, n)>>),
           UNCHANGED <<got, made, outq, sub, link>>
    PROVE  OutPipe'
<1>1. CASE link # "up"
  BY <1>1, OutQuiet DEF Up
<1>2. CASE link = "up"
  <2> DEFINE f == Frame(k, n)
  <2>1. f \in Frames /\ f.kind # "chunk" /\ up \in Seq(Frames)
    BY DEF Frame, Frames, Typed
  <2>2. up' = Append(up, f)
    BY <1>2, <2>1, AppendIsConcat DEF Up
  <2>3. Len(got) \in Nat /\ made \in Nat /\ (sub = "open") \in BOOLEAN
    BY Counts
  <2>4. Pipe(outq, up, sub = "open", TRUE, Len(got), made)
    BY <1>2 DEF OutPipe
  <2> HIDE DEF f
  <2>5. Pipe(outq, Append(up, f), sub = "open", TRUE, Len(got), made)
    BY <2>1, <2>3, <2>4, PipeSends
  <2> QED  BY <1>2, <2>2, <2>5 DEF OutPipe
<1> QED  BY <1>1, <1>2

\* A frame that the reader has no queue for.
LEMMA OutDrops ==
    ASSUME TypeOK, Typed, Delivered, OutPipe, Pops, Head(up).kind # "chunk",
           UNCHANGED <<got, made, outq>>, sub' = sub \/ sub' # "open"
    PROVE  OutPipe'
<1>1. CASE sub' # "open"
  BY <1>1, OutQuiet
<1>2. CASE sub' = sub
  <2>1. Len(got) \in Nat /\ made \in Nat /\ (sub = "open") \in BOOLEAN /\ (link = "up") \in BOOLEAN
    BY Counts
  <2>2. up # <<>> /\ up' = Tail(up) /\ link' = link /\ up \in Seq(Frames)
    BY DEF Pops, Typed
  <2>3. Pipe(outq, Tail(up), sub = "open", link = "up", Len(got), made)
    BY <2>1, <2>2, PipeDrops DEF OutPipe
  <2> QED  BY <1>2, <2>2, <2>3 DEF OutPipe
<1> QED  BY <1>1, <1>2

\* Every step keeps the output's pipe.
LEMMA OutPipeStep ==
    ASSUME TypeOK, Typed, Begun, Piped, [Next]_vars
    PROVE  OutPipe'
<1>1. /\ OutPipe /\ Fresh /\ EndsMean /\ Delivered
      /\ Len(got) \in Nat /\ made \in Nat /\ (sub = "open") \in BOOLEAN /\ (link = "up") \in BOOLEAN
      /\ Batch \in Nat
  BY Counts DEF Piped
<1>k. /\ "ack" \in Kinds \ {"chunk"} /\ "nack" \in Kinds \ {"chunk"} /\ "eof" \in Kinds \ {"chunk"}
      /\ "failure" \in Kinds \ {"chunk"} /\ "credit" \in Kinds \ {"chunk"}
  BY DEF Kinds
<1> USE DEF linkVars, readVars, pumpVars, relayVars, stdinVars, controlVars, nodeVars
<1>2. CASE Start
  <2>1. up' = <<>> /\ outq' = <<>> /\ got' = <<>> /\ made' = 0
    BY <1>1, <1>2 DEF Start, Begun, Fresh
  <2>2. NoChunk(<<>>) /\ Len(<<>>) = 0
    BY DEF NoChunk
  <2>3. Pipe(<<>>, <<>>, sub' = "open", link' = "up", 0, 0)
    BY <2>2, PipeNew
  <2> QED  BY <2>1, <2>2, <2>3 DEF OutPipe
<1>3. CASE GiveUp
  BY <1>1, <1>3, OutQuiet DEF GiveUp, CallFails, Closes, Finish
<1>4. CASE RecvAck
  BY <1>1, <1>4, OutDrops DEF RecvAck, CallFails, Finish
<1>5. CASE RecvCredit
  BY <1>1, <1>5, OutDrops DEF RecvCredit, FailExec
<1>6. CASE RecvOutput
  <2>1. CASE sub' # "open"
    <3>1. outq' = outq
      BY <1>6, <2>1 DEF RecvOutput, FailExec
    <3> QED  BY <1>1, <1>6, <2>1, <3>1, OutQuiet DEF RecvOutput
  <2>2. CASE sub' = "open"
    <3>1. /\ sub = "open" /\ up # <<>> /\ up' = Tail(up) /\ outq' = Append(outq, Head(up))
          /\ UNCHANGED <<got, made, sub, link>>
      BY <1>6, <2>2 DEF RecvOutput, FailExec, Pops
    <3>2. Head(up) \in OutFrames /\ up \in Seq(Frames) /\ outq \in Seq(OutFrames)
      BY <1>6, Popped DEF RecvOutput, OutFrames, Typed
    <3>3. Pipe(outq, up, TRUE, link = "up", Len(got), made)
      BY <1>1, <3>1 DEF OutPipe
    <3>4. Pipe(Append(outq, Head(up)), Tail(up), TRUE, link = "up", Len(got), made)
      BY <1>1, <3>1, <3>2, <3>3, PipeMoves
    <3> QED  BY <3>1, <3>4 DEF OutPipe
  <2> QED  BY <2>1, <2>2
<1>7. CASE Shutdown
  BY <1>1, <1>7, OutQuiet DEF Shutdown
<1>8. CASE ReadChunk
  <2>1. /\ outq # <<>> /\ Head(outq).kind = "chunk" /\ outq' = Tail(outq)
        /\ got' = Append(got, Head(outq).n) /\ UNCHANGED <<up, sub, link, made>>
    BY <1>8 DEF ReadChunk
  <2>2. Pipe(outq, up, sub = "open", link = "up", Len(got), made) /\ outq \in Seq(OutFrames)
    BY <1>1 DEF OutPipe, Typed
  <2> DEFINE o == sub = "open"
             x == link = "up"
             b == Len(got)
  <2>a. o \in BOOLEAN /\ x \in BOOLEAN /\ b \in Nat /\ Pipe(outq, up, o, x, b, made)
    BY <1>1, <2>2
  <2> HIDE DEF o, x, b
  <2>b. Head(outq).n = b + 1 /\ Pipe(Tail(outq), up, o, x, b + 1, made)
    BY <1>1, <2>1, <2>2, <2>a, PipeTakes
  <2>3. Head(outq).n = Len(got) + 1 /\ Pipe(Tail(outq), up, sub = "open", link = "up", Len(got) + 1, made)
    BY <2>b DEF o, x, b
  <2>4. Len(got') = Len(got) + 1
    BY <1>1, <2>1, <2>3, AppendProperties DEF Delivered
  <2> QED  BY <2>1, <2>3, <2>4 DEF OutPipe
<1>9. CASE ReadEnd
  BY <1>1, <1>9, OutQuiet DEF ReadEnd, Finish
<1>10. CASE Pump
  BY <1>1, <1>10, OutQuiet DEF Pump, PumpChunk, PumpEnd, PumpRefunded, PumpStops
<1>11. CASE GetInput \/ GetCredit \/ StdinError
  <2>1. UNCHANGED <<got, made, outq, sub, link>> /\ (up' = up \/ Up(<<Frame("failure", 0)>>))
    <3>1. CASE GetInput
      BY <3>1 DEF GetInput, RelayFails, Gets
    <3>2. CASE GetCredit
      BY <3>2 DEF GetCredit, RelayFails, Gets
    <3>3. CASE StdinError
      BY <3>3 DEF StdinError, RelayFails
    <3> QED  BY <1>11, <3>1, <3>2, <3>3
  <2> QED  BY <1>1, <1>k, <2>1, OutQuiet, OutSends
<1>12. CASE GetStart \/ Cancelled
  BY <1>1, <1>12, OutQuiet DEF GetStart, Cancelled, Gets
<1>13. CASE Attach
  <2>1. /\ UNCHANGED <<got, made, outq, sub, link>>
        /\ up' = up \/ Up(<<Frame("ack", 0)>>) \/ Up(<<Frame("nack", 0)>>)
    BY <1>13 DEF Attach
  <2> QED  BY <1>1, <1>k, <2>1, OutQuiet, OutSends
<1>14. CASE RelayRefunded \/ RunEnds \/ CommandExits
  BY <1>1, <1>14, OutQuiet DEF RelayRefunded, RunEnds, CommandExits
<1>15. CASE RelayEnds
  <2>1. /\ UNCHANGED <<got, made, outq, sub, link>>
        /\ up' = up \/ Up(<<Frame("eof", 0)>>) \/ Up(<<Frame("failure", 0)>>)
    BY <1>15 DEF RelayEnds
  <2> QED  BY <1>1, <1>k, <2>1, OutQuiet, OutSends
<1>16. CASE RelayChunk
  <2>1. /\ UNCHANGED <<got, outq, sub, link>> /\ made' = made + 1 /\ ~exited
        /\ Up(<<Frame("chunk", made + 1)>>)
    BY <1>16 DEF RelayChunk
  <2>2. ~HasEof(outq) /\ ~HasEof(up)
    BY <1>1, <2>1 DEF EndsMean
  <2>3. CASE link # "up"
    <3>1. Pipe(outq, up, sub = "open", FALSE, Len(got), made + 1)
      BY <1>1, <2>2, PipeLoses DEF OutPipe
    <3>2. up' = up /\ (link' = "up") = FALSE
      BY <2>1, <2>3 DEF Up
    <3> QED  BY <2>1, <3>1, <3>2 DEF OutPipe
  <2>4. CASE link = "up"
    <3> DEFINE f == Frame("chunk", made + 1)
    <3>1. f \in Frames /\ IsChunk(f, made + 1) /\ up \in Seq(Frames)
      BY <1>1 DEF Frame, Frames, Kinds, IsChunk, Typed
    <3>2. up' = Append(up, f)
      BY <2>1, <2>4, <3>1, AppendIsConcat DEF Up
    <3> HIDE DEF f
    <3>3. Pipe(outq, up, sub = "open", TRUE, Len(got), made)
      BY <1>1, <2>4 DEF OutPipe
    <3>4. Pipe(outq, Append(up, f), sub = "open", TRUE, Len(got), made + 1)
      BY <1>1, <2>2, <3>1, <3>3, PipeChunk
    <3> QED  BY <2>1, <2>4, <3>2, <3>4 DEF OutPipe
  <2> QED  BY <2>3, <2>4
<1>17. CASE StdinChunk
  <2>1. UNCHANGED <<got, made, outq, sub, link>> /\ (up' = up \/ Up(<<Frame("credit", Batch)>>))
    BY <1>17, SendsNothing DEF StdinChunk
  <2> QED  BY <1>1, <1>k, <2>1, OutQuiet, OutSends
<1>18. CASE StdinEof \/ StdinStops
  BY <1>1, <1>18, OutQuiet DEF StdinEof, StdinStops
<1>19. CASE LinkEnds
  <2>1. PICK n \in 0..Len(up) : up' = SubSeq(up, 1, n)
    BY <1>19 DEF LinkEnds
  <2>2. UNCHANGED <<got, made, outq, sub>> /\ (link' = "up") = FALSE
    BY <1>19 DEF LinkEnds
  <2>3. Pipe(outq, SubSeq(up, 1, n), sub = "open", FALSE, Len(got), made)
    BY <1>1, PipeCut DEF OutPipe, Typed
  <2> QED  BY <2>1, <2>2, <2>3 DEF OutPipe
<1>20. CASE UNCHANGED vars
  BY <1>1, <1>20, OutQuiet DEF vars
<1> QED  BY <1>2, <1>3, <1>4, <1>5, <1>6, <1>7, <1>8, <1>9, <1>10, <1>11, <1>12, <1>13, <1>14, <1>15, <1>16,
            <1>17, <1>18, <1>19, <1>20 DEF Next, RecvLoop, Reader, NodeLoop, Run, StdinPump

\* A step that leaves the input's pipe alone, or after which the node takes nothing more from it.
LEMMA InQuiet ==
    ASSUME InPipe, written' = written, sent' = sent, inq' = inq,
           \/ live' = FALSE
           \/ live' = live /\ down' = down /\ (link' = "up" <=> link = "up")
    PROVE  InPipe'
<1>1. Pipe(inq, down, live, link = "up", Len(written), sent)
  BY DEF InPipe
<1>2. CASE live' = FALSE
  <2>1. \A v, y : Pipe(inq, v, FALSE, y, Len(written), sent)
    BY <1>1, PipeShut
  <2> QED  BY <1>2, <2>1 DEF InPipe
<1>3. CASE live' = live /\ down' = down /\ (link' = "up" <=> link = "up")
  <2>1. (link' = "up") = (link = "up")
    BY <1>3
  <2> QED  BY <1>1, <1>3, <2>1 DEF InPipe
<1> QED  BY <1>2, <1>3

\* A frame of the control plane that is no chunk.
LEMMA InSends ==
    ASSUME TypeOK, Typed, Delivered, InPipe, NEW k \in Kinds \ {"chunk"}, NEW n \in Nat,
           k = "credit" => n = Batch, Down(<<Frame(k, n)>>),
           UNCHANGED <<written, sent, inq, live, link>>
    PROVE  InPipe'
<1>1. CASE link # "up"
  BY <1>1, InQuiet DEF Down
<1>2. CASE link = "up"
  <2> DEFINE f == Frame(k, n)
  <2>1. f \in Frames /\ f.kind # "chunk" /\ down \in Seq(Frames)
    BY DEF Frame, Frames, Typed
  <2>2. down' = Append(down, f)
    BY <1>2, <2>1, AppendIsConcat DEF Down
  <2>3. Len(written) \in Nat /\ sent \in Nat /\ live \in BOOLEAN
    BY Counts
  <2>4. Pipe(inq, down, live, TRUE, Len(written), sent)
    BY <1>2 DEF InPipe
  <2> HIDE DEF f
  <2>5. Pipe(inq, Append(down, f), live, TRUE, Len(written), sent)
    BY <2>1, <2>3, <2>4, PipeSends
  <2> QED  BY <1>2, <2>2, <2>5 DEF InPipe
<1> QED  BY <1>1, <1>2

\* A frame that is not for the queue.
LEMMA InDrops ==
    ASSUME TypeOK, Typed, Delivered, InPipe, NEW k \in Kinds \ {"chunk"}, Gets(k),
           UNCHANGED <<written, sent, inq>>, live' = live \/ live' = FALSE
    PROVE  InPipe'
<1>1. CASE live' = FALSE
  BY <1>1, InQuiet
<1>2. CASE live' = live
  <2>1. Len(written) \in Nat /\ sent \in Nat /\ live \in BOOLEAN /\ (link = "up") \in BOOLEAN
    BY Counts
  <2>2. /\ down # <<>> /\ down' = Tail(down) /\ link' = link /\ down \in Seq(Frames)
        /\ Head(down).kind # "chunk"
    BY DEF Gets, Typed
  <2>3. Pipe(inq, Tail(down), live, link = "up", Len(written), sent)
    BY <2>1, <2>2, PipeDrops DEF InPipe
  <2> QED  BY <1>2, <2>2, <2>3 DEF InPipe
<1> QED  BY <1>1, <1>2

\* The node begins an exec once.
LEMMA GetsFresh ==
    ASSUME Typed, Begun, GetStart
    PROVE  ex = "none"
<1>1. Starts(down) = Starts(down') + 1 /\ down' \in Seq(Frames)
  BY Got DEF GetStart, Kinds, Holds, One
<1>2. Starts(down) \in Nat /\ Starts(down') \in Nat
  BY <1>1, Naturals5 DEF Typed, Natural
<1> QED  BY <1>1, <1>2 DEF Begun

\* Two frames that are sent at once are sent one after the other.
LEMMA TwoFrames ==
    ASSUME NEW F, NEW s \in Seq(F), NEW f \in F, NEW g \in F
    PROVE  s \o <<f, g>> = Append(Append(s, f), g) /\ Append(s, f) \in Seq(F)
<1>1. <<f, g>> = <<f>> \o <<g>> /\ <<f>> \in Seq(F) /\ <<g>> \in Seq(F)
  <2>1. <<f>> \in Seq(F) /\ <<g>> \in Seq(F)
    OBVIOUS
  <2>2. <<f, g>> = Append(<<f>>, g)
    OBVIOUS
  <2> QED  BY <2>1, <2>2, AppendIsConcat
<1>2. s \o <<f>> = Append(s, f) /\ Append(s, f) \in Seq(F)
  BY AppendIsConcat, AppendProperties
<1>3. s \o <<f, g>> = (s \o <<f>>) \o <<g>>
  BY <1>1, ConcatAssociative
<1> QED  BY <1>2, <1>3, AppendIsConcat

\* The next chunk of the input, and the end of the input: both are in the pipe, or lost with
\* the session.
LEMMA InChunk ==
    ASSUME TypeOK, Typed, Delivered, InPipe, ~HasEof(inq), ~HasEof(down)
    PROVE  /\ link # "up" => Pipe(inq, down, live, FALSE, Len(written), sent + 1)
           /\ LET r == Append(down, Frame("chunk", sent + 1)) IN
              /\ r = down \o <<Frame("chunk", sent + 1)>> /\ r \in Seq(Frames)
              /\ link = "up" => Pipe(inq, r, live, TRUE, Len(written), sent + 1)
<1>1. Len(written) \in Nat /\ sent \in Nat /\ live \in BOOLEAN /\ (link = "up") \in BOOLEAN
  BY Counts
<1>2. Pipe(inq, down, live, FALSE, Len(written), sent + 1)
  BY <1>1, PipeLoses DEF InPipe
<1> DEFINE f == Frame("chunk", sent + 1)
<1>3. f \in Frames /\ IsChunk(f, sent + 1) /\ down \in Seq(Frames)
  BY <1>1 DEF Frame, Frames, Kinds, IsChunk, Typed
<1> HIDE DEF f
<1>4. Append(down, f) = down \o <<f>> /\ Append(down, f) \in Seq(Frames)
  BY <1>3, AppendIsConcat, AppendProperties
<1>5. ASSUME link = "up" PROVE Pipe(inq, Append(down, f), live, TRUE, Len(written), sent + 1)
  <2>1. Pipe(inq, down, live, TRUE, Len(written), sent)
    BY <1>5 DEF InPipe
  <2> QED  BY <1>1, <1>3, <2>1, PipeChunk
<1> QED  BY <1>2, <1>4, <1>5 DEF f

\* Every step keeps the input's pipe.
LEMMA InPipeStep ==
    ASSUME TypeOK, Typed, Begun, Piped, [Next]_vars
    PROVE  InPipe'
<1>1. /\ InPipe /\ Fresh /\ EndsMean /\ Delivered
      /\ Len(written) \in Nat /\ sent \in Nat /\ live \in BOOLEAN /\ (link = "up") \in BOOLEAN
      /\ Batch \in Nat
  BY Counts DEF Piped
<1>k. /\ "start" \in Kinds \ {"chunk"} /\ "cancel" \in Kinds \ {"chunk"} /\ "eof" \in Kinds \ {"chunk"}
      /\ "error" \in Kinds \ {"chunk"} /\ "credit" \in Kinds \ {"chunk"}
  BY DEF Kinds
<1> USE DEF linkVars, readVars, pumpVars, relayVars, stdinVars, controlVars, nodeVars
<1>2. CASE Start
  BY <1>1, <1>k, <1>2, InSends DEF Start
<1>3. CASE GiveUp
  BY <1>1, <1>k, <1>3, InSends DEF GiveUp, CallFails, Closes
<1>4. CASE RecvAck
  <2>1. UNCHANGED <<written, sent, inq, live, link>> /\ (down' = down \/ Down(<<Frame("cancel", 0)>>))
    BY <1>4 DEF RecvAck, CallFails, Pops
  <2> QED  BY <1>1, <1>k, <2>1, InQuiet, InSends
<1>5. CASE RecvOutput \/ RecvCredit
  BY <1>1, <1>5, InQuiet DEF RecvOutput, RecvCredit, Pops
<1>6. CASE Shutdown
  BY <1>1, <1>6, InQuiet DEF Shutdown
<1>7. CASE ReadChunk
  <2>1. UNCHANGED <<written, sent, inq, live, link>> /\ (down' = down \/ Down(<<Frame("credit", Batch)>>))
    BY <1>7, SendsNothing DEF ReadChunk
  <2> QED  BY <1>1, <1>k, <2>1, InQuiet, InSends
<1>8. CASE ReadEnd \/ PumpRefunded \/ PumpStops
  BY <1>1, <1>8, InQuiet DEF ReadEnd, PumpRefunded, PumpStops
<1>9. CASE PumpChunk \/ PumpEnd
  <2>1. UNCHANGED <<written, inq, live, link>>
    BY <1>9 DEF PumpChunk, PumpEnd
  <2>2. ~HasEof(inq) /\ ~HasEof(down)
    BY <1>1, <1>9 DEF PumpChunk, PumpEnd, EndsMean
  <2> DEFINE f == Frame("chunk", sent + 1)
             r == Append(down, f)
  <2>3. /\ link # "up" => Pipe(inq, down, live, FALSE, Len(written), sent + 1)
        /\ r = down \o <<f>> /\ r \in Seq(Frames) /\ f \in Frames
        /\ link = "up" => Pipe(inq, r, live, TRUE, Len(written), sent + 1)
    <3>1. f \in Frames
      BY <1>1 DEF Frame, Frames, Kinds
    <3>2. /\ link # "up" => Pipe(inq, down, live, FALSE, Len(written), sent + 1)
          /\ r = down \o <<f>> /\ r \in Seq(Frames)
          /\ link = "up" => Pipe(inq, r, live, TRUE, Len(written), sent + 1)
      BY <1>1, <2>2, InChunk
    <3> QED  BY <3>1, <3>2
  <2>4. CASE Down(<<f>>) /\ sent' = sent + 1
    <3> HIDE DEF f
    <3>1. CASE link = "up"
      BY <2>1, <2>3, <2>4, <3>1 DEF InPipe, Down
    <3>2. CASE link # "up"
      <4>1. (link' = "up") = FALSE
        BY <2>1, <3>2
      <4> QED  BY <2>1, <2>3, <2>4, <3>2, <4>1 DEF InPipe, Down
    <3> QED  BY <3>1, <3>2
  <2>5. CASE \E k \in {"eof", "error"} : Down(<<f, Frame(k, 0)>>) /\ sent' = sent + 1
    <3>1. PICK k \in {"eof", "error"} : Down(<<f, Frame(k, 0)>>)
      BY <2>5
    <3> DEFINE g == Frame(k, 0)
    <3>2. g \in Frames /\ g.kind # "chunk"
      BY <1>k DEF Frame, Frames
    <3>3. sent + 1 \in Nat
      BY <1>1
    <3> HIDE DEF f, g, r
    <3>5. CASE link = "up"
      <4>3. down' = Append(r, g)
        BY <2>3, <3>1, <3>2, <3>5, TwoFrames DEF Down, Typed, g, r
      <4>4. Pipe(inq, Append(r, g), live, TRUE, Len(written), sent + 1)
        <5> DEFINE t == sent + 1
                   b == Len(written)
        <5>1. t \in Nat /\ b \in Nat /\ Pipe(inq, r, live, TRUE, b, t)
          BY <1>1, <2>3, <3>3, <3>5
        <5> HIDE DEF t, b
        <5>2. Pipe(inq, Append(r, g), live, TRUE, b, t)
          BY <1>1, <2>3, <3>2, <5>1, PipeSends
        <5> QED  BY <5>2 DEF t, b
      <4> QED  BY <2>1, <2>5, <3>5, <4>3, <4>4 DEF InPipe
    <3>6. CASE link # "up"
      <4>1. (link' = "up") = FALSE /\ down' = down
        BY <2>1, <3>1, <3>6 DEF Down
      <4> QED  BY <2>1, <2>3, <2>5, <3>6, <4>1 DEF InPipe
    <3> QED  BY <3>5, <3>6
  <2>6. CASE \E k \in {"eof", "error"} : Down(<<Frame(k, 0)>>) /\ sent' = sent
    BY <1>1, <1>k, <2>1, <2>6, InSends
  <2>7. CASE PumpChunk
    BY <2>4, <2>7 DEF PumpChunk
  <2>8. CASE PumpEnd
    <3>1. LastInput = Frame("eof", 0) \/ LastInput = Frame("error", 0)
      BY DEF LastInput
    <3>2. CASE Down(<<LastInput>>) /\ sent' = sent
      BY <2>6, <3>1, <3>2
    <3>3. CASE sent' = sent + 1 /\ Down(<<Frame("chunk", sent'), LastInput>>)
      BY <2>5, <3>1, <3>3
    <3> QED  BY <2>8, <3>2, <3>3 DEF PumpEnd
  <2> QED  BY <1>9, <2>7, <2>8
<1>10. CASE GetStart
  <2>1. ex = "none"
    BY <1>10, GetsFresh
  <2>2. /\ inq' = <<>> /\ written' = <<>> /\ sent' = 0
        /\ down # <<>> /\ down' = Tail(down) /\ NoChunk(down) /\ down \in Seq(Frames)
    BY <1>1, <1>10, <2>1 DEF GetStart, Gets, Fresh, Typed
  <2>3. NoChunk(Tail(down)) /\ Len(<<>>) = 0
    BY <2>2, NoChunkStays
  <2>4. Pipe(<<>>, Tail(down), live', link' = "up", 0, 0)
    BY <2>3, PipeNew
  <2> QED  BY <2>2, <2>3, <2>4 DEF InPipe
<1>11. CASE GetInput
  <2>1. CASE live' = FALSE
    <3>1. inq' = inq
      BY <1>1, <1>11, <2>1 DEF GetInput
    <3> QED  BY <1>1, <1>11, <2>1, <3>1, InQuiet DEF GetInput
  <2>2. CASE live' # FALSE
    <3>1. /\ live /\ live' = live /\ inq' = Append(inq, Head(down)) /\ UNCHANGED <<written, sent>>
      BY <1>1, <1>11, <2>2 DEF GetInput, RelayFails
    <3>2. /\ down # <<>> /\ down' = Tail(down) /\ link' = link /\ down \in Seq(Frames)
          /\ Head(down).kind \in {"chunk", "eof", "error"}
      BY <1>11 DEF GetInput, Gets, Typed
    <3>3. Head(down) \in InFrames /\ inq \in Seq(InFrames)
      BY <3>2, HeadTailProperties DEF InFrames, Typed
    <3>4. live = TRUE
      BY <1>1, <3>1
    <3>5. Pipe(inq, down, TRUE, link = "up", Len(written), sent)
      BY <1>1, <3>4 DEF InPipe
    <3>6. Pipe(Append(inq, Head(down)), Tail(down), TRUE, link = "up", Len(written), sent)
      BY <1>1, <3>2, <3>3, <3>5, PipeMoves
    <3> QED  BY <3>1, <3>2, <3>4, <3>6 DEF InPipe
  <2> QED  BY <2>1, <2>2
<1>12. CASE GetCredit
  BY <1>1, <1>k, <1>12, InDrops DEF GetCredit, RelayFails
<1>13. CASE Cancelled
  BY <1>1, <1>13, InQuiet DEF Cancelled
<1>14. CASE Run \/ RelayChunk \/ CommandExits
  BY <1>1, <1>14, InQuiet DEF Run, Attach, RelayRefunded, RelayEnds, RunEnds, RelayChunk, CommandExits
<1>15. CASE StdinChunk
  <2>1. /\ inq # <<>> /\ Head(inq).kind = "chunk" /\ inq' = Tail(inq)
        /\ written' = Append(written, Head(inq).n) /\ UNCHANGED <<down, live, link, sent>>
    BY <1>15 DEF StdinChunk
  <2> DEFINE x == link = "up"
             b == Len(written)
  <2>2. x \in BOOLEAN /\ b \in Nat /\ Pipe(inq, down, live, x, b, sent) /\ inq \in Seq(InFrames)
    BY <1>1 DEF InPipe, Typed
  <2> HIDE DEF x, b
  <2>3. Head(inq).n = b + 1 /\ Pipe(Tail(inq), down, live, x, b + 1, sent)
    BY <1>1, <2>1, <2>2, PipeTakes
  <2>4. Len(written') = Len(written) + 1
    BY <1>1, <2>1, <2>2, <2>3, AppendProperties DEF Delivered
  <2> QED  BY <2>1, <2>3, <2>4 DEF InPipe, x, b
<1>16. CASE StdinEof \/ StdinError
  <2>1. /\ inq # <<>> /\ Head(inq).kind # "chunk" /\ inq' = Tail(inq)
        /\ UNCHANGED <<written, down, link, sent>> /\ (live' = live \/ live' = FALSE)
    BY <1>16 DEF StdinEof, StdinError, RelayFails
  <2>2. inq \in Seq(InFrames) /\ Pipe(inq, down, live, link = "up", Len(written), sent)
    BY <1>1 DEF InPipe, Typed
  <2>3. Pipe(Tail(inq), down, live, link = "up", Len(written), sent)
    BY <1>1, <2>1, <2>2, PipeEnds
  <2>4. CASE live' = live
    BY <2>1, <2>3, <2>4 DEF InPipe
  <2>5. CASE live' = FALSE
    <3>1. \A v, y : Pipe(Tail(inq), v, FALSE, y, Len(written), sent)
      BY <2>3, PipeShut
    <3> QED  BY <2>1, <2>5, <3>1 DEF InPipe
  <2> QED  BY <2>1, <2>4, <2>5
<1>17. CASE StdinStops
  BY <1>1, <1>17, InQuiet DEF StdinStops
<1>18. CASE LinkEnds
  <2>1. PICK n \in 0..Len(down) : down' = SubSeq(down, 1, n)
    BY <1>18 DEF LinkEnds
  <2>2. UNCHANGED <<written, sent, inq, live>> /\ (link' = "up") = FALSE
    BY <1>18 DEF LinkEnds
  <2>3. Pipe(inq, SubSeq(down, 1, n), live, FALSE, Len(written), sent)
    BY <1>1, PipeCut DEF InPipe, Typed
  <2> QED  BY <2>1, <2>2, <2>3 DEF InPipe
<1>19. CASE UNCHANGED vars
  BY <1>1, <1>19, InQuiet DEF vars
<1> QED  BY <1>2, <1>3, <1>4, <1>5, <1>6, <1>7, <1>8, <1>9, <1>10, <1>11, <1>12, <1>13, <1>14, <1>15, <1>16,
            <1>17, <1>18, <1>19 DEF Next, RecvLoop, Reader, Pump, NodeLoop, StdinPump

\* An end of file leaves the node only when the command has exited and was not stopped.
LEMMA UpEof ==
    ASSUME TypeOK, Typed, [Next]_vars, HasEof(up')
    PROVE  HasEof(up) \/ (RelayEnds /\ ~stopped /\ exited)
<1>1. made \in Nat /\ Batch \in Nat /\ up \in Seq(Frames)
  BY Sizes DEF TypeOK, Typed
<1>k. "ack" \in Kinds /\ "nack" \in Kinds /\ "failure" \in Kinds /\ "credit" \in Kinds /\ "chunk" \in Kinds
  BY DEF Kinds
<1>2. ASSUME NEW k \in Kinds \ {"eof"}, NEW n \in Nat, k = "credit" => n = Batch, Up(<<Frame(k, n)>>)
      PROVE  HasEof(up)
  <2> DEFINE f == Frame(k, n)
  <2>1. f \in Frames /\ f.kind # "eof"
    BY <1>2 DEF Frame, Frames
  <2>2. up' = up \/ up' = Append(up, f)
    BY <1>1, <1>2, <2>1, AppendIsConcat DEF Up
  <2> HIDE DEF f
  <2> QED  BY <1>1, <2>1, <2>2, EofStays
<1>3. CASE up' = up
  BY <1>3
<1>4. CASE Pops
  BY <1>1, <1>4, EofStays DEF Pops
<1> USE DEF linkVars, readVars, pumpVars, relayVars, stdinVars, controlVars, nodeVars
<1>5. CASE Start \/ GiveUp \/ Shutdown \/ Reader \/ Pump
  BY <1>3, <1>5 DEF Start, GiveUp, Shutdown, Reader, ReadChunk, ReadEnd, Pump, PumpChunk, PumpEnd, PumpRefunded,
                    PumpStops
<1>6. CASE RecvAck \/ RecvOutput \/ RecvCredit
  BY <1>4, <1>6 DEF RecvAck, RecvOutput, RecvCredit
<1>7. CASE GetStart \/ Cancelled \/ RelayRefunded \/ RunEnds \/ CommandExits \/ StdinEof \/ StdinStops
  BY <1>3, <1>7 DEF GetStart, Cancelled, RelayRefunded, RunEnds, CommandExits, StdinEof, StdinStops
<1>8. CASE GetInput \/ GetCredit \/ StdinError
  <2>1. up' = up \/ Up(<<Frame("failure", 0)>>)
    BY <1>8 DEF GetInput, GetCredit, StdinError, RelayFails
  <2> QED  BY <1>k, <1>2, <1>3, <2>1
<1>9. CASE Attach
  <2>1. up' = up \/ Up(<<Frame("ack", 0)>>) \/ Up(<<Frame("nack", 0)>>)
    BY <1>9 DEF Attach
  <2> QED  BY <1>k, <1>2, <1>3, <2>1
<1>10. CASE RelayEnds
  <2>1. up' = up \/ (~stopped /\ exited)
    BY <1>10 DEF RelayEnds
  <2> QED  BY <1>3, <1>10, <2>1
<1>11. CASE RelayChunk
  <2>1. made + 1 \in Nat /\ Up(<<Frame("chunk", made + 1)>>)
    BY <1>1, <1>11 DEF RelayChunk
  <2> QED  BY <1>k, <1>2, <2>1
<1>12. CASE StdinChunk
  <2>1. up' = up \/ Up(<<Frame("credit", Batch)>>)
    BY <1>12, SendsNothing DEF StdinChunk
  <2> QED  BY <1>k, <1>1, <1>2, <1>3, <2>1
<1>13. CASE LinkEnds
  BY <1>1, <1>13, EofStays DEF LinkEnds
<1>14. CASE UNCHANGED vars
  BY <1>3, <1>14 DEF vars
<1> QED  BY <1>5, <1>6, <1>7, <1>8, <1>9, <1>10, <1>11, <1>12, <1>13, <1>14
         DEF Next, RecvLoop, NodeLoop, Run, StdinPump

\* One leaves the control plane only when the input was read to a clean end.
LEMMA DownEof ==
    ASSUME TypeOK, Typed, [Next]_vars, HasEof(down')
    PROVE  HasEof(down) \/ (PumpEnd /\ eof')
<1>1. sent \in Nat /\ Batch \in Nat /\ down \in Seq(Frames)
  BY Sizes DEF TypeOK, Typed
<1>k. "start" \in Kinds /\ "cancel" \in Kinds /\ "error" \in Kinds /\ "credit" \in Kinds /\ "chunk" \in Kinds
  BY DEF Kinds
<1>2. ASSUME NEW k \in Kinds \ {"eof"}, NEW n \in Nat, k = "credit" => n = Batch, Down(<<Frame(k, n)>>)
      PROVE  HasEof(down)
  <2> DEFINE f == Frame(k, n)
  <2>1. f \in Frames /\ f.kind # "eof"
    BY <1>2 DEF Frame, Frames
  <2>2. down' = down \/ down' = Append(down, f)
    BY <1>1, <1>2, <2>1, AppendIsConcat DEF Down
  <2> HIDE DEF f
  <2> QED  BY <1>1, <2>1, <2>2, EofStays
<1>3. CASE down' = down
  BY <1>3
<1>4. CASE \E kind \in Kinds : Gets(kind)
  BY <1>1, <1>4, EofStays DEF Gets
<1> USE DEF linkVars, readVars, pumpVars, relayVars, stdinVars, controlVars, nodeVars
<1>5. CASE Start
  BY <1>k, <1>2, <1>5 DEF Start
<1>6. CASE GiveUp
  BY <1>k, <1>2, <1>6 DEF GiveUp, CallFails, Closes
<1>7. CASE RecvAck
  <2>1. down' = down \/ Down(<<Frame("cancel", 0)>>)
    BY <1>7 DEF RecvAck, CallFails
  <2> QED  BY <1>k, <1>2, <1>3, <2>1
<1>8. CASE RecvOutput \/ RecvCredit \/ Shutdown \/ ReadEnd \/ PumpRefunded \/ PumpStops
  BY <1>3, <1>8 DEF RecvOutput, RecvCredit, Shutdown, ReadEnd, PumpRefunded, PumpStops
<1>9. CASE ReadChunk
  <2>1. down' = down \/ Down(<<Frame("credit", Batch)>>)
    BY <1>9, SendsNothing DEF ReadChunk
  <2> QED  BY <1>k, <1>1, <1>2, <1>3, <2>1
<1>10. CASE PumpChunk
  <2>1. sent + 1 \in Nat /\ Down(<<Frame("chunk", sent + 1)>>)
    BY <1>1, <1>10 DEF PumpChunk
  <2> QED  BY <1>k, <1>2, <2>1
<1>11. CASE PumpEnd
  <2>1. CASE ~site.broken
    BY <1>11, <2>1 DEF PumpEnd
  <2>2. CASE site.broken
    <3> DEFINE f == Frame("chunk", sent + 1)
               g == Frame("error", 0)
    <3>1. f \in Frames /\ g \in Frames /\ f.kind # "eof" /\ g.kind # "eof"
      BY <1>1, <1>k DEF Frame, Frames
    <3>2. Down(<<g>>) \/ Down(<<f, g>>)
      BY <1>11, <2>2 DEF PumpEnd, LastInput
    <3> HIDE DEF f, g
    <3>3. down \o <<f, g>> = Append(Append(down, f), g) /\ Append(down, f) \in Seq(Frames)
      BY <1>1, <3>1, TwoFrames
    <3>4. down \o <<g>> = Append(down, g)
      BY <1>1, <3>1, AppendIsConcat
    <3>7. down' \in {down, Append(down, g), Append(Append(down, f), g)}
      BY <3>2, <3>3, <3>4 DEF Down
    <3>8. HasEof(Append(Append(down, f), g)) => HasEof(down)
      BY <1>1, <3>1, <3>3, EofStays
    <3>9. HasEof(Append(down, g)) => HasEof(down)
      BY <1>1, <3>1, EofStays
    <3> QED  BY <3>7, <3>8, <3>9
  <2> QED  BY <2>1, <2>2
<1>12. CASE GetStart \/ GetInput \/ GetCredit
  BY <1>4, <1>12 DEF GetStart, GetInput, GetCredit, Kinds
<1>13. CASE Cancelled
  BY <1>3, <1>4, <1>13 DEF Cancelled, Kinds
<1>14. CASE Run \/ RelayChunk \/ CommandExits \/ StdinPump
  BY <1>3, <1>14 DEF Run, Attach, RelayRefunded, RelayEnds, RunEnds, RelayChunk, CommandExits,
                     StdinPump, StdinChunk, StdinEof, StdinError, StdinStops
<1>15. CASE LinkEnds
  BY <1>1, <1>15, EofStays DEF LinkEnds
<1>16. CASE UNCHANGED vars
  BY <1>3, <1>16 DEF vars
<1> QED  BY <1>5, <1>6, <1>7, <1>8, <1>9, <1>10, <1>11, <1>12, <1>13, <1>14, <1>15, <1>16
         DEF Next, RecvLoop, Reader, Pump, NodeLoop

\* Neither queue gets an end of file that was not on its wire.
LEMMA QueueEof ==
    ASSUME TypeOK, Typed, [Next]_vars
    PROVE  /\ HasEof(outq') => HasEof(outq) \/ HasEof(up)
           /\ HasEof(inq') => HasEof(inq) \/ HasEof(down)
<1>1. HasEof(outq') => HasEof(outq) \/ HasEof(up)
  <2>1. CASE RecvOutput
    <3>1. Head(up) \in OutFrames /\ up \in Seq(Frames) /\ outq \in Seq(OutFrames) /\ up # <<>>
      BY <2>1, Popped DEF RecvOutput, OutFrames, Typed, Pops
    <3>2. outq' = outq \/ outq' = Append(outq, Head(up))
      BY <2>1 DEF RecvOutput
    <3>3. HasEof(Append(outq, Head(up))) => HasEof(outq) \/ Head(up).kind = "eof"
      BY <3>1, EofStays
    <3>4. Head(up).kind = "eof" => HasEof(up)
      BY <3>1, EofStays
    <3> QED  BY <3>2, <3>3, <3>4
  <2>2. CASE ReadChunk
    BY <2>2, EofStays DEF ReadChunk, Typed
  <2>3. CASE ~RecvOutput /\ ~ReadChunk
    BY <2>3, OutStays
  <2> QED  BY <2>1, <2>2, <2>3
<1>2. HasEof(inq') => HasEof(inq) \/ HasEof(down)
  <2>1. CASE GetInput
    <3>1. /\ Head(down).kind \in {"chunk", "eof", "error"} /\ down # <<>>
          /\ down \in Seq(Frames) /\ inq \in Seq(InFrames)
      BY <2>1 DEF GetInput, Gets, Typed
    <3>2. Head(down) \in InFrames
      BY <3>1, HeadTailProperties DEF InFrames
    <3>3. inq' = inq \/ inq' = Append(inq, Head(down))
      BY <2>1 DEF GetInput
    <3>4. HasEof(Append(inq, Head(down))) => HasEof(inq) \/ Head(down).kind = "eof"
      BY <3>1, <3>2, EofStays
    <3>5. Head(down).kind = "eof" => HasEof(down)
      BY <3>1, EofStays
    <3> QED  BY <3>3, <3>4, <3>5
  <2>2. CASE StdinChunk \/ StdinEof \/ StdinError
    BY <2>2, EofStays DEF StdinChunk, StdinEof, StdinError, Typed
  <2>3. CASE ~GetInput /\ ~StdinChunk /\ ~StdinEof /\ ~StdinError
    BY <2>3, StdinStays
  <2> QED  BY <2>1, <2>2, <2>3
<1> QED  BY <1>1, <1>2

\* Until the node begins, it neither gets nor gives anything.
LEMMA FreshStep ==
    ASSUME TypeOK, Typed, Begun, Piped, [Next]_vars
    PROVE  Fresh'
<1>1. Fresh /\ EndsMean /\ down \in Seq(Frames) /\ live \in BOOLEAN /\ Batch \in Nat
  BY Counts DEF Piped, Typed
<1>k. /\ "start" \in Kinds /\ "cancel" \in Kinds /\ "error" \in Kinds /\ "eof" \in Kinds
  BY DEF Kinds
<1> USE DEF linkVars, readVars, pumpVars, relayVars, stdinVars, controlVars, nodeVars
<1>2. (sub = "none" <=> call = "new")'
  <2>1. CASE Start \/ GiveUp
    BY <1>1, <2>1 DEF Fresh, Start, GiveUp, CallFails, Closes, Finish
  <2>2. CASE RecvLoop \/ Reader
    BY <1>1, <2>2 DEF Fresh, RecvLoop, RecvAck, CallFails, RecvOutput, RecvCredit, FailExec, Shutdown,
                      Reader, ReadChunk, ReadEnd, Finish
  <2>3. CASE Pump
    BY <1>1, <2>3 DEF Fresh, Pump, PumpChunk, PumpEnd, PumpRefunded, PumpStops
  <2>4. CASE NodeLoop \/ Run \/ RelayChunk \/ CommandExits
    BY <1>1, <2>4 DEF Fresh, NodeLoop, GetStart, GetInput, GetCredit, Cancelled, Run, Attach, RelayRefunded,
                      RelayEnds, RunEnds, RelayChunk, CommandExits
  <2>5. CASE StdinPump \/ LinkEnds
    BY <1>1, <2>5 DEF Fresh, StdinPump, StdinChunk, StdinEof, StdinError, StdinStops, LinkEnds
  <2>6. CASE UNCHANGED vars
    BY <1>1, <2>6 DEF Fresh, vars
  <2> QED  BY <2>1, <2>2, <2>3, <2>4, <2>5, <2>6 DEF Next
<1>3. ASSUME ex' = "none"
      PROVE  /\ up' = <<>> /\ outq' = <<>> /\ got' = <<>> /\ made' = 0
             /\ NoChunk(down') /\ inq' = <<>> /\ written' = <<>> /\ sent' = 0 /\ ~pump' /\ ~eof'
  <2>1. ex = "none"
    BY <1>3, AliveBegun
  <2>2. /\ up = <<>> /\ outq = <<>> /\ got = <<>> /\ made = 0 /\ ~live
        /\ NoChunk(down) /\ inq = <<>> /\ written = <<>> /\ sent = 0 /\ ~pump /\ ~eof
    BY <1>1, <2>1 DEF Fresh, Begun
  <2>3. ASSUME NEW k \in {"start", "cancel"}, Down(<<Frame(k, 0)>>) PROVE NoChunk(down')
    <3> DEFINE f == Frame(k, 0)
    <3>1. f \in Frames /\ f.kind # "chunk"
      BY <1>k DEF Frame, Frames
    <3>2. down' = down \/ down' = Append(down, f)
      BY <1>1, <2>3, <3>1, AppendIsConcat DEF Down
    <3> HIDE DEF f
    <3> QED  BY <1>1, <2>2, <3>1, <3>2, NoChunkStays
  <2>4. ASSUME NEW k \in Kinds, Gets(k) PROVE NoChunk(down')
    BY <1>1, <2>2, <2>4, NoChunkStays DEF Gets
  <2>5. CASE Start
    BY <2>2, <2>3, <2>5 DEF Start
  <2>6. CASE GiveUp
    BY <2>2, <2>3, <2>6 DEF GiveUp, CallFails, Closes
  <2>7. CASE Shutdown \/ ReadEnd
    BY <2>2, <2>7 DEF Shutdown, ReadEnd
  <2>8. CASE RecvAck \/ RecvOutput \/ RecvCredit \/ ReadChunk \/ Pump
    BY <2>2, <2>8 DEF RecvAck, RecvOutput, RecvCredit, Pops, ReadChunk, Pump, PumpChunk, PumpEnd, PumpRefunded,
                      PumpStops
  <2>9. CASE GetStart
    BY <1>3, <2>9 DEF GetStart
  <2>10. CASE GetInput \/ GetCredit
    BY <2>2, <2>4, <2>10 DEF GetInput, GetCredit, Kinds
  <2>11. CASE Cancelled
    BY <1>k, <2>2, <2>4, <2>11 DEF Cancelled
  <2>12. CASE Run \/ RelayChunk \/ CommandExits
    BY <1>3, <2>1, <2>12 DEF Run, Attach, RelayRefunded, RelayEnds, RunEnds, RelayChunk, CommandExits
  <2>13. CASE StdinPump
    BY <2>2, <2>13 DEF StdinPump, StdinChunk, StdinEof, StdinError, StdinStops
  <2>14. CASE LinkEnds
    <3>1. \A n \in 0..0 : SubSeq(<<>>, 1, n) = <<>>
      OBVIOUS
    <3>2. up' = <<>>
      BY <2>2, <2>14, <3>1 DEF LinkEnds
    <3>3. NoChunk(down')
      BY <1>1, <2>2, <2>14, NoChunkStays DEF LinkEnds
    <3> QED  BY <2>2, <2>14, <3>2, <3>3 DEF LinkEnds
  <2>15. CASE UNCHANGED vars
    BY <2>2, <2>15 DEF vars
  <2> QED  BY <2>5, <2>6, <2>7, <2>8, <2>9, <2>10, <2>11, <2>12, <2>13, <2>14, <2>15
           DEF Next, RecvLoop, Reader, NodeLoop
<1> QED  BY <1>2, <1>3 DEF Fresh

\* What was read stays read, and what has ended stays ended.
LEMMA Lasting ==
    ASSUME TypeOK, [Next]_vars
    PROVE  /\ site' = site /\ (stopped => stopped') /\ (exited => exited')
           /\ (stdin # "none" => stdin' = stdin)
           /\ (stdin' # stdin => (stdin' = "broken" /\ stopped') \/ (StdinEof /\ stdin' = "eof"))
           /\ (exited' # exited => CommandExits)
           /\ (eof' # eof \/ sent' # sent => PumpChunk \/ PumpEnd)
           /\ (written' # written => StdinChunk)
<1> USE DEF linkVars, readVars, pumpVars, relayVars, stdinVars, controlVars, nodeVars
<1>1. CASE Start \/ GiveUp \/ RecvLoop
  BY <1>1 DEF Start, GiveUp, RecvLoop, RecvAck, RecvOutput, RecvCredit, Shutdown, Pops
<1>2. CASE Reader \/ Pump
  BY <1>2 DEF Reader, ReadChunk, ReadEnd, Pump, PumpChunk, PumpEnd, PumpRefunded, PumpStops
<1>3. CASE NodeLoop
  BY <1>3 DEF NodeLoop, GetStart, GetInput, GetCredit, Cancelled, RelayFails, Stop, Gets
<1>4. CASE Run \/ RelayChunk \/ CommandExits
  BY <1>4 DEF Run, Attach, RelayRefunded, RelayEnds, RunEnds, RelayChunk, CommandExits, Stop
<1>5. CASE StdinPump \/ LinkEnds
  BY <1>5 DEF StdinPump, StdinChunk, StdinEof, StdinError, StdinStops, RelayFails, Stop, LinkEnds
<1>6. CASE UNCHANGED vars
  BY <1>6 DEF vars
<1> QED  BY <1>1, <1>2, <1>3, <1>4, <1>5, <1>6 DEF Next

\* How the two ends of a call go together.
LEMMA CallStep ==
    ASSUME TypeOK, Typed, Begun, EndsMean, [Next]_vars
    PROVE  /\ (eof => ~pump /\ call \notin {"new", "calling"})'
           /\ (fin = "none" <=> call # "over")'
           /\ (sub = "failed" => why # "none")'
<1> USE DEF linkVars, readVars, pumpVars, relayVars, stdinVars, controlVars, nodeVars
<1>1. /\ eof => ~pump /\ call \notin {"new", "calling"}
      /\ fin = "none" <=> call # "over"
      /\ sub = "failed" => why # "none"
      /\ pump => call \notin {"new", "calling"}
      /\ pump \in BOOLEAN /\ eof \in BOOLEAN
  BY DEF EndsMean, Begun, TypeOK
<1>2. CASE Start \/ GiveUp
  BY <1>1, <1>2 DEF Start, GiveUp, CallFails, Closes, Finish
<1>3. CASE RecvLoop
  BY <1>1, <1>3 DEF RecvLoop, RecvAck, CallFails, RecvOutput, RecvCredit, FailExec, Shutdown, Finish
<1>4. CASE ReadChunk
  BY <1>1, <1>4 DEF ReadChunk
<1>5. CASE ReadEnd
  <2>1. PICK reason : Finish(reason) /\ reason # "none"
    <3>1. CASE outq # <<>> /\ Head(outq).kind # "chunk" /\ Finish(Head(outq).kind)
      <4>1. Head(outq) \in OutFrames
        BY <3>1, HeadTailProperties DEF Typed
      <4>2. Head(outq).kind # "none"
        BY <4>1 DEF OutFrames
      <4> QED  BY <3>1, <4>2
    <3>2. CASE outq = <<>> /\ sub = "failed" /\ Finish(why)
      BY <1>1, <3>2
    <3>3. CASE Finish("cancelled")
      BY <3>3
    <3> QED  BY <1>5, <3>1, <3>2, <3>3 DEF ReadEnd
  <2> QED  BY <1>1, <1>5, <2>1 DEF ReadEnd, Finish
<1>6. CASE Pump
  BY <1>1, <1>6 DEF Pump, PumpChunk, PumpEnd, PumpRefunded, PumpStops
<1>7. CASE NodeLoop \/ Run \/ RelayChunk \/ CommandExits
  BY <1>1, <1>7 DEF NodeLoop, GetStart, GetInput, GetCredit, Cancelled, Run, Attach, RelayRefunded,
                    RelayEnds, RunEnds, RelayChunk, CommandExits
<1>8. CASE StdinPump \/ LinkEnds
  BY <1>1, <1>8 DEF StdinPump, StdinChunk, StdinEof, StdinError, StdinStops, LinkEnds
<1>9. CASE UNCHANGED vars
  BY <1>1, <1>9 DEF vars
<1> QED  BY <1>2, <1>3, <1>4, <1>5, <1>6, <1>7, <1>8, <1>9 DEF Next, Reader

\* A chunk given to the command is the one after those it has, and there is one to give.
LEMMA StdinNext ==
    ASSUME TypeOK, Typed, Delivered, InPipe, StdinChunk
    PROVE  Head(inq).n = Len(written) + 1 /\ Len(written) < sent
<1> DEFINE x == link = "up"
           b == Len(written)
<1>1. x \in BOOLEAN /\ b \in Nat /\ sent \in Nat /\ live \in BOOLEAN
  BY Counts
<1>2. inq # <<>> /\ Head(inq).kind = "chunk" /\ inq \in Seq(InFrames) /\ Pipe(inq, down, live, x, b, sent)
  BY DEF StdinChunk, InPipe, Typed
<1> HIDE DEF x, b
<1>3. Head(inq).n = b + 1 /\ b < sent
  BY <1>1, <1>2, PipeTakes
<1> QED  BY <1>3 DEF b

\* The same for the reader of the output.
LEMMA ReadNext ==
    ASSUME TypeOK, Typed, Delivered, OutPipe, ReadChunk
    PROVE  Head(outq).n = Len(got) + 1 /\ Len(got) < made
<1> DEFINE o == sub = "open"
           x == link = "up"
           b == Len(got)
<1>1. x \in BOOLEAN /\ b \in Nat /\ made \in Nat /\ o \in BOOLEAN
  BY Counts
<1>2. outq # <<>> /\ Head(outq).kind = "chunk" /\ outq \in Seq(OutFrames) /\ Pipe(outq, up, o, x, b, made)
  BY DEF ReadChunk, OutPipe, Typed
<1> HIDE DEF o, x, b
<1>3. Head(outq).n = b + 1 /\ b < made
  BY <1>1, <1>2, PipeTakes
<1> QED  BY <1>3 DEF b

\* Only a Read takes output.
LEMMA GotStays ==
    ASSUME [Next]_vars, ~ReadChunk
    PROVE  got' = got
<1> USE DEF linkVars, readVars, pumpVars, relayVars, stdinVars, controlVars, nodeVars
<1>1. CASE Start \/ GiveUp \/ RecvLoop \/ ReadEnd
  BY <1>1 DEF Start, GiveUp, RecvLoop, RecvAck, RecvOutput, RecvCredit, Shutdown, ReadEnd
<1>2. CASE Pump
  BY <1>2 DEF Pump, PumpChunk, PumpEnd, PumpRefunded, PumpStops
<1>3. CASE NodeLoop \/ Run \/ RelayChunk \/ CommandExits
  BY <1>3 DEF NodeLoop, GetStart, GetInput, GetCredit, Cancelled, Run, Attach, RelayRefunded, RelayEnds, RunEnds,
              RelayChunk, CommandExits
<1>4. CASE StdinPump \/ LinkEnds
  BY <1>4 DEF StdinPump, StdinChunk, StdinEof, StdinError, StdinStops, LinkEnds
<1>5. CASE UNCHANGED vars
  BY <1>5 DEF vars
<1> QED  BY <1>1, <1>2, <1>3, <1>4, <1>5 DEF Next, Reader

\* What has been delivered are numbers.
LEMMA DeliveredStep ==
    ASSUME TypeOK, Typed, Piped, [Next]_vars
    PROVE  Delivered'
<1>1. Delivered /\ OutPipe /\ InPipe
  BY DEF Piped
<1>2. Len(got) \in Nat /\ Len(written) \in Nat
  BY <1>1, Counts
<1>3. written' \in Seq(Nat)
  <2>1. CASE written' = written
    BY <1>1, <2>1 DEF Delivered
  <2>2. CASE StdinChunk
    <3>1. written' = Append(written, Head(inq).n) /\ Head(inq).n \in Nat
      BY <1>1, <1>2, <2>2, StdinNext DEF StdinChunk
    <3> QED  BY <1>1, <3>1, AppendProperties DEF Delivered
  <2> QED  BY <2>1, <2>2, Lasting
<1>4. got' \in Seq(Nat)
  <2>1. CASE ReadChunk
    <3>1. got' = Append(got, Head(outq).n) /\ Head(outq).n \in Nat
      BY <1>1, <1>2, <2>1, ReadNext DEF ReadChunk
    <3> QED  BY <1>1, <3>1, AppendProperties DEF Delivered
  <2>2. CASE ~ReadChunk
    <3>1. got' = got
      BY <2>2, GotStays
    <3> QED  BY <1>1, <3>1 DEF Delivered
  <2> QED  BY <2>1, <2>2
<1> QED  BY <1>3, <1>4 DEF Delivered

\* An end of file keeps its meaning.
LEMMA EndsMeanStep ==
    ASSUME TypeOK, Typed, Begun, Piped, [Next]_vars
    PROVE  EndsMean'
<1>1. EndsMean /\ Fresh /\ InPipe /\ Delivered
  BY DEF Piped
<1>2. /\ site' = site /\ (stopped => stopped') /\ (exited => exited')
      /\ (stdin # "none" => stdin' = stdin)
      /\ (stdin' # stdin => (stdin' = "broken" /\ stopped') \/ (StdinEof /\ stdin' = "eof"))
      /\ (exited' # exited => CommandExits)
      /\ (eof' # eof \/ sent' # sent => PumpChunk \/ PumpEnd)
      /\ (written' # written => StdinChunk)
  BY Lasting
<1>3. eof => eof' /\ sent' = sent
  <2>1. PumpChunk \/ PumpEnd => pump
    BY DEF PumpChunk, PumpEnd
  <2>2. eof \in BOOLEAN
    BY DEF TypeOK
  <2> QED  BY <1>1, <1>2, <2>1, <2>2 DEF EndsMean
<1>4. (stdin = "eof" => eof /\ Len(written) = sent)'
  <2>1. CASE stdin = "eof"
    <3>1. eof /\ Len(written) = sent
      BY <1>1, <2>1 DEF EndsMean
    <3>2. ~StdinChunk
      <4>1. Len(written) \in Nat /\ sent \in Nat
        BY <1>1, Counts
      <4> QED  BY <1>1, <3>1, <4>1, StdinNext
    <3> QED  BY <1>2, <1>3, <3>1, <3>2
  <2>2. CASE StdinEof
    <3>1. inq # <<>> /\ Head(inq).kind = "eof" /\ inq \in Seq(InFrames) /\ UNCHANGED <<sent, written, eof>>
      BY <2>2 DEF StdinEof, Typed, controlVars, pumpVars
    <3>2. HasEof(inq)
      BY <3>1, EofStays
    <3>3. Len(written) \in Nat /\ sent \in Nat /\ live \in BOOLEAN /\ (link = "up") \in BOOLEAN
      BY <1>1, Counts
    <3>4. sent = Len(written)
      <4> DEFINE x == link = "up"
                 b == Len(written)
      <4>1. x \in BOOLEAN /\ b \in Nat /\ Pipe(inq, down, live, x, b, sent)
        BY <1>1, <3>3 DEF InPipe
      <4> HIDE DEF x, b
      <4>2. sent = b
        BY <3>1, <3>3, <4>1, PipeEnds
      <4> QED  BY <4>2 DEF b
    <3> QED  BY <1>1, <3>1, <3>2, <3>4 DEF EndsMean
  <2> QED  BY <1>2, <2>1, <2>2
<1>5. (stdin = "broken" => stopped)'
  BY <1>1, <1>2 DEF EndsMean
<1>6. (exited /\ site.reads => stdin # "none")'
  <2>1. CASE CommandExits
    BY <1>2, <2>1 DEF CommandExits
  <2>2. CASE exited' = exited
    BY <1>1, <1>2, <2>2 DEF EndsMean
  <2> QED  BY <1>2, <2>1, <2>2
<1>7. (HasEof(inq) \/ HasEof(down) => eof)'
  BY <1>1, <1>3, QueueEof, DownEof DEF EndsMean
<1>8. (HasEof(outq) \/ HasEof(up) => exited /\ (site.reads => stdin = "eof"))'
  <2>1. ASSUME exited, site.reads => stdin = "eof" PROVE exited' /\ (site'.reads => stdin' = "eof")
    BY <1>2, <2>1
  <2>2. CASE HasEof(outq) \/ HasEof(up)
    BY <1>1, <2>1, <2>2 DEF EndsMean
  <2>3. CASE RelayEnds /\ ~stopped /\ exited
    <3>1. site.reads => stdin = "eof"
      BY <1>1, <2>3 DEF EndsMean, TypeOK
    <3> QED  BY <2>1, <2>3, <3>1
  <2> QED  BY <2>2, <2>3, QueueEof, UpEof
<1>9. /\ (eof => ~pump /\ call \notin {"new", "calling"})'
      /\ (fin = "none" <=> call # "over")'
      /\ (sub = "failed" => why # "none")'
  BY <1>1, CallStep
<1> QED  BY <1>4, <1>5, <1>6, <1>7, <1>8, <1>9 DEF EndsMean

\* At first both pipes are empty.
LEMMA PipedInit == Init => Piped
<1> SUFFICES ASSUME Init PROVE Piped
  OBVIOUS
<1>1. NoChunk(<<>>) /\ ~HasEof(<<>>) /\ Len(<<>>) = 0 /\ <<>> \in Seq(Nat)
  BY DEF NoChunk, HasEof
<1>2. Pipe(<<>>, <<>>, sub = "open", link = "up", 0, 0) /\ Pipe(<<>>, <<>>, live, link = "up", 0, 0)
  BY <1>1, PipeNew
<1>3. OutPipe /\ InPipe
  BY <1>1, <1>2 DEF Init, OutPipe, InPipe
<1>4. Fresh /\ EndsMean /\ Delivered
  BY <1>1 DEF Init, Fresh, EndsMean, Delivered
<1> QED  BY <1>3, <1>4 DEF Piped

\* Every step keeps both pipes.
LEMMA PipedStep == Accounts /\ Piped /\ [Next]_vars => Piped'
<1> SUFFICES ASSUME TypeOK, Typed, Begun, Piped, [Next]_vars PROVE Piped'
  BY DEF Accounts, Credited
<1> QED  BY OutPipeStep, InPipeStep, FreshStep, EndsMeanStep, DeliveredStep DEF Piped

-----------------------------------------------------------------------------
(* An exec is what ExecPromise says it is.                                 *)

\* The way a stream ends.
LEMMA PromisesEnd ==
    ASSUME Accounts, Piped, NEW reason, Finish(reason), call # "over",
           \/ reason \in {"failure", "refused", "cancelled", "session"}
           \/ reason = "eof" /\ outq # <<>> /\ Head(outq).kind = "eof",
           UNCHANGED <<made, got, exited>>
    PROVE  Promise!Output
<1>1. EndsMean /\ OutPipe /\ Delivered /\ TypeOK /\ outq \in Seq(OutFrames)
  BY DEF Piped, Accounts, Typed
<1>2. fin = "none" /\ fin' = reason
  BY <1>1 DEF EndsMean, Finish
<1>3. CASE reason = "eof" /\ outq # <<>> /\ Head(outq).kind = "eof"
  <2> DEFINE o == sub = "open"
             x == link = "up"
             b == Len(got)
  <2>1. o \in BOOLEAN /\ x \in BOOLEAN /\ b \in Nat /\ made \in Nat /\ Pipe(outq, up, o, x, b, made)
    BY <1>1, Counts DEF OutPipe
  <2> HIDE DEF o, x, b
  <2>2. made = b
    BY <1>1, <1>3, <2>1, PipeEnds
  <2>3. HasEof(outq)
    BY <1>1, <1>3, EofStays
  <2>4. Promise!Complete
    BY <1>1, <2>2, <2>3 DEF EndsMean, Promise!Complete, b
  <2> QED  BY <1>2, <1>3, <2>4 DEF Promise!Output
<1>4. CASE reason \in {"failure", "refused", "cancelled", "session"}
  BY <1>2, <1>4 DEF Promise!Output
<1> QED  BY <1>3, <1>4

\* Each step of an exec is a step of one pipe or of neither.
LEMMA PromisesStep ==
    ASSUME Accounts, Piped, [Next]_vars
    PROVE  [Promise!Next]_(Promise!vars)
<1>1. /\ TypeOK /\ Typed /\ Begun /\ why # "violated"
      /\ OutPipe /\ InPipe /\ Fresh /\ EndsMean /\ Delivered
  BY DEF Accounts, Credited, Piped
<1> DEFINE OutputSame == UNCHANGED <<made, got, exited, fin, site>>
           InputSame == UNCHANGED <<sent, written, eof, stdin, site>>
<1>2. OutputSame /\ InputSame => UNCHANGED Promise!vars
  BY DEF Promise!vars
<1>3. InputSame /\ Promise!Output => Promise!Next
  BY DEF Promise!Next
<1>4. OutputSame /\ Promise!Input => Promise!Next
  BY DEF Promise!Next
<1>5. ASSUME OutputSame, UNCHANGED <<sent, written, eof>>, stdin' = stdin \/ (stdin = "none" /\ stdin' = "broken")
      PROVE  [Promise!Next]_(Promise!vars)
  <2>1. CASE stdin' = stdin
    BY <1>2, <1>5, <2>1
  <2>2. CASE stdin = "none" /\ stdin' = "broken"
    <3>1. Promise!Input
      BY <1>5, <2>2 DEF Promise!Input
    <3> QED  BY <1>4, <1>5, <3>1
  <2> QED  BY <1>5, <2>1, <2>2
<1>6. ASSUME InputSame, UNCHANGED <<made, got, exited, fin>> \/ Promise!Output
      PROVE  [Promise!Next]_(Promise!vars)
  BY <1>2, <1>3, <1>6
<1> USE DEF linkVars, readVars, pumpVars, relayVars, stdinVars, controlVars, nodeVars
<1>7. CASE Start \/ PumpRefunded \/ PumpStops \/ RelayRefunded \/ StdinStops \/ LinkEnds
  BY <1>2, <1>7 DEF Start, PumpRefunded, PumpStops, RelayRefunded, StdinStops, LinkEnds
<1>8. CASE GiveUp
  <2>1. InputSame /\ UNCHANGED <<made, got, exited>>
    BY <1>8 DEF GiveUp
  <2>2. CASE call = "calling" /\ CallFails("cancelled")
    BY <1>6, <2>1, <2>2, PromisesEnd DEF CallFails
  <2>3. CASE Closes
    BY <1>6, <2>1, <2>3 DEF Closes
  <2> QED  BY <1>8, <2>2, <2>3 DEF GiveUp
<1>9. CASE RecvAck
  <2>1. InputSame /\ UNCHANGED <<made, got, exited>>
    BY <1>9 DEF RecvAck, Pops
  <2>2. CASE fin' = fin
    BY <1>6, <2>1, <2>2
  <2>3. CASE fin' # fin
    <3>1. call = "calling" /\ Finish("refused")
      BY <1>9, <2>3 DEF RecvAck, CallFails
    <3> QED  BY <1>6, <2>1, <3>1, PromisesEnd
  <2> QED  BY <2>2, <2>3
<1>10. CASE RecvOutput \/ RecvCredit
  BY <1>2, <1>10 DEF RecvOutput, RecvCredit, Pops
<1>11. CASE Shutdown
  <2>1. InputSame /\ UNCHANGED <<made, got, exited>>
    BY <1>11 DEF Shutdown
  <2>2. CASE call = "calling"
    <3>1. fin = "none" /\ fin' = "session"
      BY <1>1, <1>11, <2>2 DEF Shutdown, EndsMean
    <3>2. Promise!Output
      BY <2>1, <3>1 DEF Promise!Output
    <3> QED  BY <1>6, <2>1, <3>2
  <2>3. CASE call # "calling"
    BY <1>6, <1>11, <2>1, <2>3 DEF Shutdown
  <2> QED  BY <2>2, <2>3
<1>12. CASE ReadChunk
  <2>1. Head(outq).n = Len(got) + 1 /\ Len(got) < made
    BY <1>1, <1>12, ReadNext
  <2>2. Promise!Output
    BY <1>12, <2>1 DEF ReadChunk, Promise!Output
  <2> QED  BY <1>6, <1>12, <2>2 DEF ReadChunk
<1>13. CASE ReadEnd
  <2>1. InputSame /\ UNCHANGED <<made, got, exited>> /\ call # "over"
    BY <1>13 DEF ReadEnd
  <2>2. CASE outq # <<>> /\ Head(outq).kind # "chunk" /\ Finish(Head(outq).kind)
    <3>1. Head(outq) \in OutFrames
      BY <1>1, <2>2, HeadTailProperties DEF Typed
    <3>2. Head(outq).kind \in {"eof", "failure"}
      BY <2>2, <3>1 DEF OutFrames
    <3>3. Promise!Output
      BY <2>1, <2>2, <3>2, PromisesEnd
    <3> QED  BY <1>6, <2>1, <3>3
  <2>3. CASE outq = <<>> /\ sub = "failed" /\ Finish(why)
    <3>1. why = "session"
      BY <1>1, <2>3 DEF EndsMean, TypeOK
    <3>2. Promise!Output
      BY <2>1, <2>3, <3>1, PromisesEnd
    <3> QED  BY <1>6, <2>1, <3>2
  <2>4. CASE Finish("cancelled")
    <3>1. Promise!Output
      BY <2>1, <2>4, PromisesEnd
    <3> QED  BY <1>6, <2>1, <3>1
  <2> QED  BY <1>13, <2>2, <2>3, <2>4 DEF ReadEnd
<1>14. CASE PumpChunk \/ PumpEnd
  <2>1. OutputSame /\ UNCHANGED <<written, stdin>> /\ pump /\ sent' \in {sent, sent + 1}
    BY <1>14 DEF PumpChunk, PumpEnd
  <2>2. eof' \in BOOLEAN /\ eof = FALSE
    <3>1. site.broken \in BOOLEAN /\ eof \in BOOLEAN
      BY <1>1, Sizes DEF TypeOK
    <3>2. ~eof
      BY <1>1, <2>1 DEF EndsMean
    <3>3. eof' = eof \/ eof' = ~site.broken
      BY <1>14 DEF PumpChunk, PumpEnd
    <3> QED  BY <3>1, <3>2, <3>3
  <2>3. Promise!Input
    BY <2>1, <2>2 DEF Promise!Input
  <2> QED  BY <1>4, <2>1, <2>3
<1>15. CASE GetStart
  BY <1>2, <1>15 DEF GetStart, Gets
<1>16. CASE GetInput
  BY <1>5, <1>16 DEF GetInput, RelayFails, Stop, Gets
<1>17. CASE GetCredit
  BY <1>5, <1>17 DEF GetCredit, RelayFails, Stop, Gets
<1>18. CASE Cancelled
  BY <1>5, <1>18 DEF Cancelled, Stop, Gets
<1>19. CASE Attach
  BY <1>5, <1>19 DEF Attach, Stop
<1>20. CASE RelayEnds
  BY <1>2, <1>20 DEF RelayEnds
<1>21. CASE RunEnds
  BY <1>5, <1>21 DEF RunEnds, Stop
<1>22. CASE RelayChunk
  <2>1. Promise!Output
    BY <1>22 DEF RelayChunk, Promise!Output
  <2> QED  BY <1>6, <1>22, <2>1 DEF RelayChunk
<1>23. CASE CommandExits
  <2>1. Promise!Output
    BY <1>23 DEF CommandExits, Promise!Output
  <2> QED  BY <1>6, <1>23, <2>1 DEF CommandExits
<1>24. CASE StdinChunk
  <2>1. Head(inq).n = Len(written) + 1 /\ Len(written) < sent
    BY <1>1, <1>24, StdinNext
  <2>2. Promise!Input /\ OutputSame
    BY <1>24, <2>1 DEF StdinChunk, Promise!Input
  <2> QED  BY <1>4, <2>2
<1>25. CASE StdinEof
  <2>1. OutputSame /\ UNCHANGED <<sent, written, eof>>
    BY <1>25 DEF StdinEof
  <2>2. CASE stdin # "none"
    <3>1. stdin' = stdin
      BY <1>25, <2>2 DEF StdinEof
    <3> QED  BY <1>5, <2>1, <3>1
  <2>3. CASE stdin = "none"
    <3>1. stdin' = "eof"
      BY <1>25, <2>3 DEF StdinEof
    <3>2. (stdin = "eof" => eof /\ Len(written) = sent)'
      BY <1>1, EndsMeanStep DEF EndsMean, Piped
    <3>3. eof /\ Len(written) = sent
      BY <2>1, <3>1, <3>2
    <3>4. Promise!Input
      BY <2>1, <2>3, <3>1, <3>3 DEF Promise!Input
    <3> QED  BY <1>4, <2>1, <3>4
  <2> QED  BY <2>2, <2>3
<1>26. CASE StdinError
  BY <1>5, <1>26 DEF StdinError, RelayFails, Stop
<1>27. CASE UNCHANGED vars
  BY <1>2, <1>27 DEF vars
<1> QED  BY <1>7, <1>8, <1>9, <1>10, <1>11, <1>12, <1>13, <1>14, <1>15, <1>16, <1>17, <1>18, <1>19, <1>20, <1>21,
            <1>22, <1>23, <1>24, <1>25, <1>26, <1>27
         DEF Next, RecvLoop, Reader, Pump, NodeLoop, Run, StdinPump

\* For any window, command and input, whatever the session loses and whoever gives up or fails:
\* output and input arrive in order and without a gap, a caller that reads a clean end has read
\* all a command that exited has written, and a command at a clean end of its input was given
\* all of it (mux.go:474, grpc_transport.go:404).
THEOREM KeepsPipes == Spec => KeepsItsPromise
<1>1. Init => Promise!Init
  <2> SUFFICES ASSUME Init PROVE Promise!Init
    OBVIOUS
  <2>1. site.reads \in BOOLEAN
    BY SiteAssumption DEF Init, SiteType
  <2> QED  BY <2>1 DEF Init, Promise!Init
<1>2. Accounts /\ Piped /\ [Next]_vars => [Promise!Next]_(Promise!vars)
  BY PromisesStep
<1> QED  BY <1>1, <1>2, AccountsInit, AccountsStep, PipedInit, PipedStep, PTL
         DEF Spec, KeepsItsPromise, Promise!Spec
=============================================================================
