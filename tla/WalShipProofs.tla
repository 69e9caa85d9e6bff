---------------------------- MODULE WalShipProofs ----------------------------
(***************************************************************************)
(* WalShip, for any number of pages, transactions, checkpoints, failures   *)
(* and kills: what restore yields is the state after a transaction.        *)
(*                                                                         *)
(* The inductive invariant compares versions of a page with what the WAL   *)
(* makes of them (Follows): the file, the pages copied so far and the      *)
(* image of the newest generation may each be torn, but the committed      *)
(* frames bring every page of them up to date, and nothing that is only    *)
(* in the frames is lost when the WAL starts anew.  The rest says why: the *)
(* shipper's hold lets the WAL start anew only when all frames are in the  *)
(* file (EpochInv), segments join (SinkInv), and shipping everything up to *)
(* the last commit leaves a state (ImageInv).                              *)
(***************************************************************************)
EXTENDS WalShip, SequenceTheorems, WellFoundedInduction, TLAPS

-----------------------------------------------------------------------------
(* Maxima of sets of numbers, frames and their newest versions.            *)

\* A set of numbers that is not empty has a least element.
LEMMA LeastExists ==
    ASSUME NEW S, S \subseteq Nat, S # {}
    PROVE  \E x \in S : \A y \in S : x <= y
<1> DEFINE Less == {pair \in Nat \X Nat : pair[1] < pair[2]}
<1>1. IsWellFoundedOn(Less, Nat)
  BY NatLessThanWellFounded DEF OpToRel
<1>2. PICK x \in S : \A y \in S : ~ (<<y, x>> \in Less)
  <2> HIDE DEF Less
  <2> QED  BY <1>1, WFMin
<1>3. \A y \in S : x <= y
  <2> TAKE y \in S
  <2>1. <<y, x>> \notin Less
    BY <1>2, Zenon
  <2> QED  BY <2>1
<1> QED  BY <1>3

\* A bounded set of numbers that is not empty has a maximum.
LEMMA MaxOfBounded ==
    ASSUME NEW S, S \subseteq Nat, S # {}, NEW b \in Nat, \A y \in S : y <= b
    PROVE  Max(S) \in S /\ \A y \in S : y <= Max(S)
<1> DEFINE Bounding == {n \in Nat : \A y \in S : y <= n}
<1>1. PICK m \in Bounding : \A n \in Bounding : m <= n
  <2>1. Bounding # {} /\ Bounding \subseteq Nat
    OBVIOUS
  <2> QED  BY <2>1, LeastExists
<1>2. m \in S
  <2> SUFFICES ASSUME m \notin S PROVE FALSE
    OBVIOUS
  <2>1. m > 0 /\ m - 1 \in Nat
    <3>1. PICK y \in S : TRUE
      OBVIOUS
    <3> QED  BY <3>1
  <2>2. m - 1 \in Bounding
    BY <2>1
  <2> QED  BY <2>2, <1>1
<1> QED  BY <1>2 DEF Max

\* What bounds a set from inside is its maximum.
LEMMA MaxIs ==
    ASSUME NEW S, S \subseteq Nat, NEW m \in S, \A y \in S : y <= m
    PROVE  Max(S) = m
<1>1. m \in S /\ \A y \in S : m >= y
  OBVIOUS
<1>2. Max(S) \in S /\ \A y \in S : Max(S) >= y
  BY <1>1, Zenon DEF Max
<1>3. m >= Max(S) /\ Max(S) >= m /\ m \in Nat /\ Max(S) \in Nat
  BY <1>1, <1>2, Zenon
<1> QED  BY <1>3

\* The last commit frame.
LEMMA CommittedIs ==
    ASSUME NEW w \in Seq(FrameType)
    PROVE  /\ Committed(w) \in 0..Len(w)
           /\ Committed(w) # 0 => w[Committed(w)].commit
           /\ \A n \in 1..Len(w) : w[n].commit => n <= Committed(w)
<1> DEFINE S == {0} \cup {n \in DOMAIN w : w[n].commit}
<1>1. S \subseteq Nat /\ S # {} /\ Len(w) \in Nat /\ \A y \in S : y <= Len(w)
  OBVIOUS
<1>2. Max(S) \in S /\ \A y \in S : y <= Max(S)
  <2> HIDE DEF S
  <2> QED  BY <1>1, MaxOfBounded
<1>3. Committed(w) = Max(S)
  BY DEF Committed
<1>4. Committed(w) \in S /\ \A y \in S : y <= Committed(w)
  <2> HIDE DEF S
  <2> QED  BY <1>2, <1>3
<1> QED  BY <1>4

\* No later frame commits.
LEMMA CommittedUnique ==
    ASSUME NEW w \in Seq(FrameType), NEW c \in 0..Len(w), c # 0 => w[c].commit,
           \A n \in 1..Len(w) : w[n].commit => n <= c
    PROVE  Committed(w) = c
<1> DEFINE S == {0} \cup {n \in DOMAIN w : w[n].commit}
<1>1. S \subseteq Nat /\ c \in S /\ \A y \in S : y <= c
  OBVIOUS
<1>2. Max(S) = c
  <2> HIDE DEF S
  <2> QED  BY <1>1, MaxIs
<1> QED  BY <1>2 DEF Committed

\* The newest version of a page: the old one, or that of its last frame.
LEMMA NewestIs ==
    ASSUME NEW w \in Seq(FrameType), NEW n \in 0..Len(w), NEW p, NEW v
    PROVE  \/ (\A i \in 1..n : w[i].page # p) /\ Newest(p, w, n, v) = v
           \/ \E m \in 1..n : /\ w[m].page = p /\ Newest(p, w, n, v) = w[m].txn
                              /\ \A i \in 1..n : w[i].page = p => i <= m
<1> DEFINE S == {i \in 1..n : w[i].page = p}
<1>1. CASE S = {}
  BY <1>1 DEF Newest
<1>2. CASE S # {}
  <2>1. S \subseteq Nat /\ n \in Nat /\ \A y \in S : y <= n
    OBVIOUS
  <2>2. Max(S) \in S /\ \A y \in S : y <= Max(S)
    <3> HIDE DEF S
    <3> QED  BY <1>2, <2>1, MaxOfBounded
  <2>3. Newest(p, w, n, v) = w[Max(S)].txn
    BY <1>2 DEF Newest
  <2> QED  BY <2>2, <2>3
<1> QED  BY <1>1, <1>2

\* Equal frames, equal versions.
LEMMA NewestPrefix ==
    ASSUME NEW w, NEW u, NEW n \in Nat, \A i \in 1..n : u[i] = w[i], NEW p, NEW v
    PROVE  Newest(p, u, n, v) = Newest(p, w, n, v)
<1>1. {i \in 1..n : u[i].page = p} = {i \in 1..n : w[i].page = p}
  OBVIOUS
<1>2. CASE {i \in 1..n : w[i].page = p} = {}
  BY <1>1, <1>2 DEF Newest
<1>3. CASE {i \in 1..n : w[i].page = p} # {}
  <2> DEFINE S == {i \in 1..n : w[i].page = p}
  <2>1. Max(S) \in S
    <3>1. S \subseteq Nat /\ \A y \in S : y <= n
      OBVIOUS
    <3> HIDE DEF S
    <3>2. S # {}
      BY <1>3 DEF S
    <3> QED  BY <3>1, <3>2, MaxOfBounded
  <2> QED  BY <1>1, <1>3, <2>1 DEF Newest
<1> QED  BY <1>2, <1>3

\* A shorter prefix brings nothing the longer one does not bring.
LEMMA NewestTwice ==
    ASSUME NEW w \in Seq(FrameType), NEW n \in 0..Len(w), NEW m \in 0..n, NEW p, NEW v
    PROVE  Newest(p, w, n, Newest(p, w, m, v)) = Newest(p, w, n, v)
<1> DEFINE u == Newest(p, w, m, v)
<1>1. CASE \A i \in 1..n : w[i].page # p
  <2>1. m \in 0..Len(w) /\ \A i \in 1..m : w[i].page # p
    BY <1>1
  <2>2. u = v
    BY <2>1, NewestIs
  <2> QED  BY <2>2
<1>2. CASE \E i \in 1..n : w[i].page = p
  BY <1>2 DEF Newest
<1> QED  BY <1>1, <1>2

\* One frame more.
LEMMA NewestLast ==
    ASSUME NEW w \in Seq(FrameType), NEW n \in 1..Len(w), NEW p, NEW v
    PROVE  Newest(p, w, n, v) = IF w[n].page = p THEN w[n].txn ELSE Newest(p, w, n - 1, v)
<1>1. n - 1 \in 0..Len(w) /\ n \in 0..Len(w)
  OBVIOUS
<1>2. CASE w[n].page = p
  <2>1. PICK m \in 1..n : Newest(p, w, n, v) = w[m].txn /\ \A i \in 1..n : w[i].page = p => i <= m
    BY <1>1, <1>2, NewestIs
  <2> QED  BY <1>2, <2>1
<1>3. CASE w[n].page # p
  <2>1. {i \in 1..n : w[i].page = p} = {i \in 1..(n - 1) : w[i].page = p}
    BY <1>3
  <2> QED  BY <1>3, <2>1 DEF Newest
<1> QED  BY <1>2, <1>3

\* No frame at all.
LEMMA NewestNone ==
    ASSUME NEW w, NEW p, NEW v
    PROVE  Newest(p, w, 0, v) = v
BY DEF Newest

\* A frame is appended.
LEMMA NewestAppend ==
    ASSUME NEW w \in Seq(FrameType), NEW f \in FrameType, NEW p, NEW v
    PROVE  Newest(p, Append(w, f), Len(w) + 1, v)
             = IF f.page = p THEN f.txn ELSE Newest(p, w, Len(w), v)
<1> DEFINE u == Append(w, f)
<1>1. u \in Seq(FrameType) /\ Len(u) = Len(w) + 1 /\ u[Len(w) + 1] = f
      /\ \A i \in 1..Len(w) : u[i] = w[i]
  OBVIOUS
<1>2. Newest(p, u, Len(w), v) = Newest(p, w, Len(w), v)
  <2> HIDE DEF u
  <2> QED  BY <1>1, NewestPrefix
<1>3. Newest(p, u, Len(w) + 1, v)
        = IF u[Len(w) + 1].page = p THEN u[Len(w) + 1].txn ELSE Newest(p, u, Len(w) + 1 - 1, v)
  <2> HIDE DEF u
  <2>1. Len(w) + 1 \in 1..Len(u)
    BY <1>1
  <2> QED  BY <1>1, <2>1, NewestLast
<1>4. Len(w) + 1 - 1 = Len(w)
  OBVIOUS
<1> QED  BY <1>1, <1>2, <1>3, <1>4

-----------------------------------------------------------------------------
(* What the database held.                                                 *)

\* What it holds after the last transaction.
Latest == State(Len(txns))

\* A commit adds one state after those before it.
LEMMA StateAppend ==
    ASSUME txns \in Seq(SUBSET Pages), NEW T, txns' = Append(txns, T)
    PROVE  /\ \A k \in 0..Len(txns) : State(k)' = State(k)
           /\ Len(txns)' = Len(txns) + 1
           /\ \A p \in Pages : Latest'[p] = IF p \in T THEN Len(txns) + 1 ELSE Latest[p]
<1>1. Len(txns') = Len(txns) + 1 /\ Len(txns) \in Nat /\ txns'[Len(txns) + 1] = T
      /\ \A i \in 1..Len(txns) : txns'[i] = txns[i]
  OBVIOUS
<1>2. ASSUME NEW k \in 0..Len(txns) PROVE State(k)' = State(k)
  <2>1. ASSUME NEW p \in Pages
        PROVE {i \in 1..k : p \in txns'[i]} = {i \in 1..k : p \in txns[i]}
    BY <1>1
  <2> QED  BY <2>1, Zenon DEF State
<1>3. ASSUME NEW p \in Pages
      PROVE Latest'[p] = IF p \in T THEN Len(txns) + 1 ELSE Latest[p]
  <2> DEFINE n == Len(txns)
             S == {0} \cup {i \in 1..n : p \in txns[i]}
             S1 == {0} \cup {i \in 1..(n + 1) : p \in txns'[i]}
  <2>1. Latest'[p] = Max(S1) /\ Latest[p] = Max(S)
    BY <1>1 DEF State, Latest
  <2>2. CASE p \in T
    <3>1. S1 \subseteq Nat /\ n + 1 \in S1 /\ \A y \in S1 : y <= n + 1
      BY <1>1, <2>2
    <3>2. Max(S1) = n + 1
      <4> HIDE DEF S1
      <4> QED  BY <3>1, MaxIs
    <3> QED  BY <2>1, <2>2, <3>2
  <2>3. CASE p \notin T
    <3>1. S1 = S
      BY <1>1, <2>3
    <3> QED  BY <2>1, <2>3, <3>1
  <2> QED  BY <2>2, <2>3
<1> QED  BY <1>1, <1>2, <1>3

-----------------------------------------------------------------------------
(* The invariant.                                                          *)

\* Every frame in the file already.
Full == filled = Committed(wal)

\* The snapshot of the generation at hand was put without an error.
Stored == gen \in taken

Segments(g) == {s \in shipped : s.gen = g /\ s.frames # <<>>}

\* The header of an epoch.
HeaderOf(g, e) == Segment(g, e, 0, <<>>)

\* The committed frames bring the version v of page p up to date; a version nothing but a
\* restart of the WAL separates from the frames is up to date once all of them are in the file.
Follows(p, v, fixed) ==
    /\ Newest(p, wal, Committed(wal), v) = Latest[p]
    /\ fixed /\ Full => v = Latest[p]

\* A transaction leaves at most one frame behind the last commit.
WalInv ==
    /\ epoch \in Nat /\ wal \in Seq(FrameType) /\ txns \in Seq(SUBSET Pages)
    /\ filled \in 0..Committed(wal)
    /\ epoch = 0 => wal = <<>>
    /\ \A i \in 1..Committed(wal) : wal[i].txn <= Len(txns)
    /\ Len(wal) <= Committed(wal) + 1
    /\ Open => wal[Len(wal)].txn = Len(txns) + 1
    /\ size \in Nat /\ Len(wal) <= size

FileInv ==
    /\ file \in [Pages -> 0..Len(txns)]
    /\ \A p \in Pages : Follows(p, file[p], TRUE)

\* Where the shipper is, what it holds, and which generations there can be.
HoldInv ==
    /\ hold \in {NoHold, FileHold} \cup {WalHold(n) : n \in 1..Committed(wal)}
    /\ pc \in {"idle", "list", "copy", "header", "frames", "size", "swap"}
    /\ next \in {"header", "size"} /\ locked \in BOOLEAN
    /\ pc \in {"copy", "header", "frames", "size", "swap"} => hold # NoHold
    /\ pc = "list" => hold = NoHold
    /\ locked => ~Open /\ pc \in {"header", "frames", "swap"}
    /\ pc = "swap" => locked

\* Under a hold the WAL starts anew at most once before its header is shipped again.
EpochInv ==
    /\ hdr \in 0..epoch /\ offset \in Nat /\ (hdr = 0 => offset = 0)
    /\ hdr = epoch => offset <= Committed(wal)
    /\ pc = "frames" => hdr # 0
    /\ pc = "swap" \/ (locked /\ pc = "frames") => hdr = epoch
    /\ hold # NoHold /\ hdr # 0 /\ (Stored \/ locked \/ pc \in {"frames", "size"}) =>
           epoch = hdr \/ (epoch = hdr + 1 /\ hold = FileHold /\ filled = 0)

\* Where the segments of the generation at hand end.
TailInv ==
    /\ hdr # 0 => HeaderOf(gen, hdr) \in shipped
    /\ \A s \in Segments(gen) :
           /\ s.epoch <= hdr
           /\ s.epoch = hdr =>
                 \/ s.from + Len(s.frames) <= offset
                 \/ /\ s.from = offset
                    /\ hdr = epoch => /\ offset + Len(s.frames) <= Committed(wal)
                                      /\ \A i \in 1..Len(s.frames) : s.frames[i] = wal[offset + i]
    /\ offset # 0 => \E s \in Segments(gen) : s.epoch = hdr /\ s.from + Len(s.frames) = offset

\* The segments of a generation have their headers and join, and end where the shipper goes on;
\* only a Put that failed after it stored its object leaves one segment more, with frames of the
\* WAL that the next one holds too.
SinkInv ==
    /\ DOMAIN snaps \subseteq Nat \ {0} /\ (snaps = <<>> \/ DOMAIN snaps # {})
    /\ settled \subseteq taken /\ taken \subseteq DOMAIN snaps /\ gen \in Nat
    /\ \A g \in DOMAIN snaps : snaps[g] \in [Pages -> 0..Len(txns)]
    /\ \A s \in shipped :
           /\ s.gen \in Nat \ {0} /\ s.epoch \in Nat \ {0} /\ s.from \in Nat
           /\ s.epoch <= epoch /\ s.frames \in Seq(FrameType)
           /\ s.frames # <<>> => s.frames[Len(s.frames)].commit
    /\ \E b \in Nat : (\A g \in DOMAIN snaps : g <= b) /\ \A s \in shipped : s.gen <= b
    /\ hold # NoHold => gen # 0 /\ \A g \in DOMAIN snaps : g <= gen
    /\ \A g \in taken : \A t \in Segments(g) :
           /\ HeaderOf(g, t.epoch) \in shipped
           /\ t.from = 0 \/ \E s \in Segments(g) : s.epoch = t.epoch /\ s.from + Len(s.frames) = t.from
    /\ pc = "copy" => gen \notin DOMAIN snaps /\ \A s \in shipped : s.gen # gen
    /\ Stored => TailInv

\* What the generation at hand restores is brought up to date by the WAL, and holds the frames
\* that were shipped; when they end in a restart, or before a checkpoint, it is a state.
ImageInv ==
    Stored /\ hold # NoHold =>
        /\ \A p \in Pages : Follows(p, Image(gen)[p], hold = FileHold)
        /\ hdr = epoch =>
               \E m \in offset..Committed(wal) :
                   \A p \in Pages : Newest(p, wal, m, Image(gen)[p]) = Image(gen)[p]
        /\ (pc = "frames" /\ epoch # hdr) \/ (pc = "size" /\ gen \in settled) =>
               \E k \in started..Len(txns) : Image(gen) = State(k)
        /\ pc = "swap" => Image(gen) = Latest

\* The same for the pages copied so far.
CopyInv ==
    /\ DOMAIN copied \subseteq Pages /\ copied \in [DOMAIN copied -> 0..Len(txns)]
    /\ pc = "copy" => \A p \in DOMAIN copied : Follows(p, copied[p], hold = FileHold)

CountInv ==
    /\ started \in 0..Len(txns)
    /\ \A g \in DOMAIN synced : synced[g] \in 0..Len(txns) /\ (pc # "idle" => synced[g] <= started)

Inv == /\ WalInv /\ FileInv /\ HoldInv /\ EpochInv /\ SinkInv /\ ImageInv /\ CopyInv /\ CountInv
       /\ ConsistentPrefix

-----------------------------------------------------------------------------
(* The application writes.                                                 *)

\* What any change of the WAL keeps of the versions that follow it.
Carried ==
    /\ \A q \in Pages : \A v : \A fixed \in BOOLEAN :
           Follows(q, v, fixed) /\ (fixed \/ hold.on = "wal") => Follows(q, v, fixed)'
    /\ \A k \in 0..Len(txns) : State(k)' = State(k)
    /\ Len(txns) \in Nat /\ Len(txns)' \in Nat /\ Len(txns) <= Len(txns)'
    /\ \/ /\ epoch' = epoch /\ filled' = filled /\ Committed(wal) <= Committed(wal')
          /\ \A i \in 1..Committed(wal) : wal'[i] = wal[i]
          /\ \A q \in Pages, n \in 0..Committed(wal) : \A v :
                 Newest(q, wal', n, v) = Newest(q, wal, n, v)
       \/ epoch' = epoch + 1 /\ filled' = 0 /\ Full /\ hold.on # "wal" /\ (epoch = 0 \/ filled # 0)

\* A WAL that may start anew is in the file, and nobody reads it.
LEMMA RestartsFull ==
    ASSUME WalInv, HoldInv, Restarts, ~Open
    PROVE  Full /\ hold.on # "wal" /\ (epoch = 0 \/ filled # 0)
<1>1. CASE epoch = 0
  <2>1. wal = <<>> /\ Committed(wal) \in 0..Len(wal)
    BY <1>1, CommittedIs DEF WalInv
  <2>2. Committed(wal) = 0
    BY <2>1
  <2>3. hold \in {NoHold, FileHold}
    BY <2>2 DEF HoldInv
  <2> QED  BY <1>1, <2>2, <2>3 DEF WalInv, Full, NoHold, FileHold
<1>2. CASE wal # <<>> /\ filled = Len(wal) /\ hold.on # "wal"
  <2>1. Committed(wal) \in 0..Len(wal) /\ Len(wal) # 0
    BY <1>2, CommittedIs DEF WalInv
  <2> QED  BY <1>2, <2>1 DEF WalInv, Full, Open
<1> QED  BY <1>1, <1>2 DEF Restarts

\* The WAL file never shrinks.
LEMMA SizeGrows ==
    ASSUME WalInv, NEW p \in Pages, NEW commit, Write(p, commit)
    PROVE  size' \in Nat /\ (Len(wal') \in Nat => Len(wal') <= size')
<1> SUFFICES ASSUME Len(wal') \in Nat PROVE size' \in Nat /\ Len(wal') <= size'
  <2>1. Len(wal') \in Nat
    <3>1. wal \in Seq(FrameType)
      BY DEF WalInv
    <3> QED  BY <3>1 DEF Write
  <2> QED  BY <2>1
<1> DEFINE S == {size, Len(wal')}
           b == IF size <= Len(wal') THEN Len(wal') ELSE size
<1>1. S \subseteq Nat /\ b \in S /\ \A y \in S : y <= b
  BY DEF WalInv
<1>2. Max(S) = b
  <2> HIDE DEF S, b
  <2> QED  BY <1>1, MaxIs
<1>3. size' = b
  <2>1. size' = Max(S)
    BY DEF Write
  <2> HIDE DEF S, b
  <2> QED  BY <1>2, <2>1
<1> QED  BY <1>3 DEF WalInv

\* The first frame of a transaction that is not yet committed.
LEMMA SpillCarries ==
    ASSUME WalInv, HoldInv, NEW p \in Pages, Spill(p)
    PROVE  WalInv' /\ Carried
<1> DEFINE f == Frame(p, Len(txns) + 1, FALSE)
<1>1. f \in FrameType /\ f.page = p /\ f.txn = Len(txns) + 1 /\ ~f.commit /\ Len(txns) \in Nat
  BY DEF WalInv, Frame, FrameType
<1> HIDE DEF f
<1>2. ~Open /\ txns' = txns /\ hold' = hold
  BY DEF Spill
<1>3. wal \in Seq(FrameType) /\ Committed(wal) \in 0..Len(wal) /\ Len(wal) \in Nat
      /\ Committed(wal) = Len(wal)
  BY <1>2, CommittedIs DEF WalInv, Open
<1>4. Len(txns)' = Len(txns) /\ Latest' = Latest /\ \A k \in 0..Len(txns) : State(k)' = State(k)
  BY <1>2 DEF Latest, State
<1>s. size' \in Nat /\ (Len(wal') \in Nat => Len(wal') <= size')
  BY SizeGrows DEF Spill
<1>5. CASE Restarts /\ epoch' = epoch + 1 /\ wal' = <<f>> /\ filled' = 0
  <2>1. wal' \in Seq(FrameType) /\ Len(wal') = 1 /\ wal'[1] = f
    BY <1>1, <1>5
  <2>2. Committed(wal') = 0
    <3>1. 0 \in 0..Len(wal') /\ \A n \in 1..Len(wal') : wal'[n].commit => n <= 0
      BY <1>1, <2>1
    <3> QED  BY <2>1, <3>1, CommittedUnique
  <2>3. Full /\ hold.on # "wal" /\ (epoch = 0 \/ filled # 0)
    BY <1>2, <1>5, RestartsFull
  <2>4. WalInv'
    BY <1>1, <1>2, <1>5, <1>s, <2>1, <2>2 DEF WalInv, Open
  <2>5. ASSUME NEW q \in Pages, NEW v, NEW fixed \in BOOLEAN, Follows(q, v, fixed), fixed
        PROVE  Follows(q, v, fixed)'
    <3>1. v = Latest[q]
      BY <2>3, <2>5 DEF Follows
    <3> QED  BY <1>4, <2>2, <3>1, NewestNone DEF Follows
  <2> QED  BY <1>4, <1>5, <2>3, <2>4, <2>5, <1>1 DEF Carried
<1>6. CASE epoch > 0 /\ wal' = Append(wal, f) /\ UNCHANGED <<epoch, filled>>
  <2>1. wal' \in Seq(FrameType) /\ Len(wal') = Len(wal) + 1 /\ wal'[Len(wal) + 1] = f
        /\ \A i \in 1..Len(wal) : wal'[i] = wal[i]
    BY <1>1, <1>3, <1>6
  <2>2. Committed(wal') = Committed(wal)
    <3>1. Committed(wal) # 0 => wal[Committed(wal)].commit
      BY <1>3, CommittedIs
    <3>2. \A n \in 1..Len(wal') : wal'[n].commit => n <= Committed(wal)
      BY <1>1, <1>3, <2>1
    <3>3. Committed(wal) \in 0..Len(wal') /\ (Committed(wal) # 0 => wal'[Committed(wal)].commit)
      BY <1>3, <2>1, <3>1
    <3> QED  BY <2>1, <3>2, <3>3, CommittedUnique
  <2>3. WalInv'
    BY <1>1, <1>2, <1>3, <1>6, <1>s, <2>1, <2>2 DEF WalInv, Open
  <2>4. \A q \in Pages, n \in 0..Committed(wal) : \A v :
           Newest(q, wal', n, v) = Newest(q, wal, n, v)
    <3> TAKE q \in Pages, n \in 0..Committed(wal)
    <3> TAKE v
    <3>1. n \in Nat /\ \A i \in 1..n : wal'[i] = wal[i]
      BY <1>3, <2>1
    <3> QED  BY <3>1, NewestPrefix
  <2>5. ASSUME NEW q \in Pages, NEW v, NEW fixed \in BOOLEAN, Follows(q, v, fixed)
        PROVE  Follows(q, v, fixed)'
    <3>1. Newest(q, wal', Committed(wal'), v) = Newest(q, wal, Committed(wal), v)
      BY <1>3, <2>2, <2>4
    <3> QED  BY <1>4, <1>6, <2>2, <2>5, <3>1 DEF Follows, Full
  <2> QED  BY <1>1, <1>3, <1>4, <1>6, <2>2, <2>3, <2>4, <2>5 DEF Carried
<1> QED  BY <1>5, <1>6 DEF Spill, Write, f

\* Frames after the last commit go.
LEMMA RollbackCarries ==
    ASSUME WalInv, HoldInv, Rollback
    PROVE  WalInv' /\ Carried
<1>1. wal' = SubSeq(wal, 1, Committed(wal)) /\ UNCHANGED <<epoch, filled, size, txns, hold>>
  BY DEF Rollback
<1>2. wal \in Seq(FrameType) /\ Committed(wal) \in 0..Len(wal) /\ Len(wal) \in Nat
      /\ (Committed(wal) # 0 => wal[Committed(wal)].commit) /\ Len(txns) \in Nat
  BY CommittedIs DEF WalInv
<1>3. wal' \in Seq(FrameType) /\ Len(wal') = Committed(wal)
      /\ \A i \in 1..Committed(wal) : wal'[i] = wal[i]
  BY <1>1, <1>2
<1>4. Committed(wal') = Committed(wal)
  <2>1. Committed(wal) \in 0..Len(wal') /\ (Committed(wal) # 0 => wal'[Committed(wal)].commit)
        /\ \A n \in 1..Len(wal') : wal'[n].commit => n <= Committed(wal)
    BY <1>2, <1>3
  <2> QED  BY <1>3, <2>1, CommittedUnique
<1>5. Len(txns)' = Len(txns) /\ Latest' = Latest /\ \A k \in 0..Len(txns) : State(k)' = State(k)
  BY <1>1 DEF Latest, State
<1>6. WalInv'
  <2>1. wal = <<>> => wal' = <<>>
    BY <1>2, <1>3
  <2>2. size' \in Nat /\ Len(wal') <= size'
    BY <1>1, <1>2, <1>3 DEF WalInv
  <2> QED  BY <1>1, <1>2, <1>3, <1>4, <2>1, <2>2 DEF WalInv, Open
<1>7. \A q \in Pages, n \in 0..Committed(wal) : \A v :
           Newest(q, wal', n, v) = Newest(q, wal, n, v)
  <2> TAKE q \in Pages, n \in 0..Committed(wal)
  <2> TAKE v
  <2>1. n \in Nat /\ \A i \in 1..n : wal'[i] = wal[i]
    BY <1>2, <1>3
  <2> QED  BY <2>1, NewestPrefix
<1>8. ASSUME NEW q \in Pages, NEW v, NEW fixed \in BOOLEAN, Follows(q, v, fixed)
      PROVE  Follows(q, v, fixed)'
  <2>1. Newest(q, wal', Committed(wal'), v) = Newest(q, wal, Committed(wal), v)
    BY <1>2, <1>4, <1>7
  <2> QED  BY <1>1, <1>4, <1>5, <1>8, <2>1 DEF Follows, Full
<1> QED  BY <1>1, <1>2, <1>4, <1>5, <1>6, <1>7, <1>8 DEF Carried

\* The frame that commits a transaction.
LEMMA CommitCarries ==
    ASSUME WalInv, HoldInv, NEW p \in Pages, Commit(p)
    PROVE  WalInv' /\ Carried
<1> DEFINE n == Len(txns)
           f == Frame(p, n + 1, TRUE)
           T == {p} \cup IF Open THEN {wal[Len(wal)].page} ELSE {}
<1>1. f \in FrameType /\ f.page = p /\ f.txn = n + 1 /\ f.commit /\ n \in Nat
  BY DEF WalInv, Frame, FrameType
<1>2. wal \in Seq(FrameType) /\ Committed(wal) \in 0..Len(wal) /\ Len(wal) \in Nat
      /\ (Committed(wal) # 0 => wal[Committed(wal)].commit)
  BY CommittedIs DEF WalInv
<1>3. txns' = Append(txns, T) /\ T \subseteq Pages /\ hold' = hold
  <2>1. Open => wal[Len(wal)] \in FrameType
    BY <1>2 DEF Open
  <2> QED  BY <2>1 DEF Commit, FrameType
<1>4. /\ Len(txns)' = n + 1 /\ \A k \in 0..n : State(k)' = State(k)
      /\ \A q \in Pages : Latest'[q] = IF q \in T THEN n + 1 ELSE Latest[q]
      /\ txns' \in Seq(SUBSET Pages)
  <2>1. txns \in Seq(SUBSET Pages)
    BY DEF WalInv
  <2>2. txns' \in Seq(SUBSET Pages)
    BY <1>3, <2>1
  <2> HIDE DEF T
  <2> QED  BY <1>3, <2>1, <2>2, StateAppend
<1>5. \A q : q \in T <=> q = p \/ (Open /\ q = wal[Len(wal)].page)
  OBVIOUS
<1>6. n = Len(txns)
  OBVIOUS
<1> HIDE DEF f, n, T
<1>s. size' \in Nat /\ (Len(wal') \in Nat => Len(wal') <= size')
  BY SizeGrows DEF Commit
<1>7. CASE Restarts /\ epoch' = epoch + 1 /\ wal' = <<f>> /\ filled' = 0
  <2>1. wal' \in Seq(FrameType) /\ Len(wal') = 1 /\ wal'[1] = f
    BY <1>1, <1>7
  <2>2. ~Open
    BY <1>7 DEF Commit, WalInv
  <2>3. Committed(wal') = 1
    <3>1. 1 \in 0..Len(wal') /\ wal'[1].commit /\ \A i \in 1..Len(wal') : wal'[i].commit => i <= 1
      BY <1>1, <2>1
    <3> QED  BY <2>1, <3>1, CommittedUnique
  <2>4. Full /\ hold.on # "wal" /\ (epoch = 0 \/ filled # 0)
    BY <1>7, <2>2, RestartsFull
  <2>5. WalInv'
    BY <1>1, <1>4, <1>7, <1>s, <2>1, <2>3 DEF WalInv, Open
  <2>6. ASSUME NEW q \in Pages, NEW v, NEW fixed \in BOOLEAN, Follows(q, v, fixed), fixed
        PROVE  Follows(q, v, fixed)'
    <3>1. v = Latest[q]
      BY <2>4, <2>6 DEF Follows
    <3>2. Newest(q, wal', 1, v) = IF wal'[1].page = q THEN wal'[1].txn ELSE Newest(q, wal', 0, v)
      <4>1. 1 \in 1..Len(wal') /\ 1 - 1 = 0
        BY <2>1
      <4> QED  BY <2>1, <4>1, NewestLast
    <3>3. Newest(q, wal', 1, v) = Latest'[q]
      BY <1>1, <1>4, <1>5, <2>1, <2>2, <3>1, <3>2, NewestNone
    <3> QED  BY <1>7, <2>3, <3>3 DEF Follows, Full
  <2> QED  BY <1>1, <1>4, <1>7, <1>6, <2>4, <2>5, <2>6 DEF Carried
<1>8. CASE epoch > 0 /\ wal' = Append(wal, f) /\ UNCHANGED <<epoch, filled>>
  <2>1. wal' \in Seq(FrameType) /\ Len(wal') = Len(wal) + 1 /\ wal'[Len(wal) + 1] = f
        /\ \A i \in 1..Len(wal) : wal'[i] = wal[i]
    BY <1>1, <1>2, <1>8
  <2>2. Committed(wal') = Len(wal) + 1
    <3>1. Len(wal) + 1 \in 0..Len(wal') /\ wal'[Len(wal) + 1].commit
          /\ \A i \in 1..Len(wal') : wal'[i].commit => i <= Len(wal) + 1
      BY <1>1, <1>2, <2>1
    <3> QED  BY <2>1, <3>1, CommittedUnique
  <2>3. WalInv'
    <3>1. ASSUME NEW i \in 1..Len(wal) PROVE wal[i].txn <= n + 1
      <4>1. wal[i] \in FrameType
        BY <1>2
      <4>2. CASE i <= Committed(wal)
        BY <1>1, <1>2, <1>6, <4>1, <4>2 DEF WalInv, FrameType
      <4>3. CASE i > Committed(wal)
        <5>1. i = Len(wal) /\ Open
          BY <1>2, <4>3 DEF WalInv, Open
        <5> QED  BY <1>1, <1>6, <5>1 DEF WalInv
      <4> QED  BY <1>2, <4>2, <4>3
    <3>2. \A i \in 1..(Len(wal) + 1) : wal'[i].txn <= n + 1
      BY <1>1, <1>2, <2>1, <3>1
    <3>3. wal' \in Seq(FrameType) /\ epoch' \in Nat /\ epoch' # 0 /\ filled' \in 0..Committed(wal')
      BY <1>2, <1>8, <2>1, <2>2 DEF WalInv
    <3> QED  BY <1>2, <1>4, <1>s, <2>1, <2>2, <3>2, <3>3 DEF WalInv, Open
  <2>4. ASSUME NEW q \in Pages, NEW m \in 0..Len(wal), NEW v
        PROVE  Newest(q, wal', m, v) = Newest(q, wal, m, v)
    <3>1. m \in Nat /\ \A i \in 1..m : wal'[i] = wal[i]
      BY <1>2, <2>1
    <3>2. ASSUME NEW u, \A i \in 1..m : u[i] = wal[i]
          PROVE  Newest(q, u, m, v) = Newest(q, wal, m, v)
      BY <3>1, <3>2, NewestPrefix
    <3> QED  BY <3>1, <3>2, Zenon
  <2>5. ASSUME NEW q \in Pages, NEW v, NEW fixed \in BOOLEAN, Follows(q, v, fixed)
        PROVE  Follows(q, v, fixed)'
    <3>1. Newest(q, wal', Len(wal) + 1, v) = IF q = p THEN n + 1 ELSE Newest(q, wal, Len(wal), v)
      BY <1>1, <1>2, <1>8, NewestAppend
    <3>2. q # p => Newest(q, wal, Len(wal), v)
                     = IF q \in T THEN n + 1 ELSE Newest(q, wal, Committed(wal), v)
      <4>1. CASE Open
        <5>1. Len(wal) = Committed(wal) + 1 /\ wal[Len(wal)].txn = n + 1 /\ Len(wal) \in 1..Len(wal)
              /\ Len(wal) - 1 = Committed(wal)
          BY <1>2, <1>6, <4>1 DEF WalInv, Open
        <5>2. Newest(q, wal, Len(wal), v) = IF wal[Len(wal)].page = q THEN wal[Len(wal)].txn
                                            ELSE Newest(q, wal, Len(wal) - 1, v)
          BY <1>2, <5>1, NewestLast
        <5> QED  BY <1>5, <4>1, <5>1, <5>2
      <4>2. CASE ~Open
        <5>1. Len(wal) = Committed(wal)
          BY <1>2, <4>2 DEF Open
        <5> QED  BY <1>5, <4>2, <5>1
      <4> QED  BY <4>1, <4>2
    <3>3. Newest(q, wal', Committed(wal'), v) = Latest'[q]
      BY <1>4, <1>5, <2>2, <2>5, <3>1, <3>2 DEF Follows
    <3>4. ~Full'
      BY <1>2, <1>8, <2>2 DEF Full, WalInv
    <3> QED  BY <3>3, <3>4 DEF Follows
  <2>6. \A q \in Pages, m \in 0..Committed(wal) : \A v : Newest(q, wal', m, v) = Newest(q, wal, m, v)
    BY <1>2, <2>4
  <2>7. Committed(wal) <= Committed(wal') /\ \A i \in 1..Committed(wal) : wal'[i] = wal[i]
    BY <1>2, <2>1, <2>2
  <2>8. /\ epoch' = epoch /\ filled' = filled /\ Committed(wal) <= Committed(wal')
        /\ \A i \in 1..Committed(wal) : wal'[i] = wal[i]
        /\ \A q \in Pages, m \in 0..Committed(wal) : \A v : Newest(q, wal', m, v) = Newest(q, wal, m, v)
    BY <1>8, <2>6, <2>7
  <2>9. /\ \A k \in 0..Len(txns) : State(k)' = State(k)
        /\ Len(txns) \in Nat /\ Len(txns)' \in Nat /\ Len(txns) <= Len(txns)'
    BY <1>1, <1>4, <1>6
  <2> QED  BY <2>3, <2>5, <2>8, <2>9, Zenon DEF Carried
<1> QED  BY <1>7, <1>8 DEF Commit, Write, f, n

-----------------------------------------------------------------------------
(* Steps of the application keep the invariant.                            *)

\* The sink alone decides what is restored.
LEMMA ImageStays ==
    ASSUME UNCHANGED sinkVars
    PROVE  (\A g : Image(g)' = Image(g)) /\ Restored' = Restored
<1>1. snaps' = snaps /\ shipped' = shipped
  BY DEF sinkVars
<1>2. \A g : Replayed(g)' = Replayed(g)
  BY <1>1 DEF Replayed
<1>3. ASSUME NEW g PROVE Image(g)' = Image(g)
  <2>1. snaps' = snaps /\ Replayed(g)' = Replayed(g)
    BY <1>1, <1>2
  <2> QED  BY <2>1 DEF Image
<1> QED  BY <1>1, <1>3 DEF Restored

\* The kinds of hold.
LEMMA HoldIs ==
    ASSUME HoldInv
    PROVE  \/ hold = NoHold /\ hold.on = "none" /\ hold # FileHold
           \/ hold = FileHold /\ hold.on = "file" /\ hold # NoHold
           \/ /\ hold.on = "wal" /\ hold # NoHold /\ hold # FileHold
              /\ hold.mark \in 1..Committed(wal)
BY DEF HoldInv, NoHold, FileHold, WalHold

\* What every segment is.
LEMMA SegmentTypes ==
    ASSUME SinkInv
    PROVE  \A s \in shipped :
               /\ s.gen \in Nat \ {0} /\ s.epoch \in Nat \ {0} /\ s.from \in Nat
               /\ s.epoch <= epoch /\ s.frames \in Seq(FrameType)
               /\ s.frames # <<>> => Len(s.frames) \in Nat \ {0} /\ s.frames[Len(s.frames)].commit
<1> TAKE s \in shipped
<1>1. /\ s.gen \in Nat \ {0} /\ s.epoch \in Nat \ {0} /\ s.from \in Nat
      /\ s.epoch <= epoch /\ s.frames \in Seq(FrameType)
      /\ s.frames # <<>> => s.frames[Len(s.frames)].commit
  BY Zenon DEF SinkInv
<1>2. s.frames # <<>> => Len(s.frames) \in Nat \ {0}
  BY <1>1
<1> QED  BY <1>1, <1>2

\* Whatever a writer does to the WAL, the shipper's bookkeeping survives.
LEMMA WriterKeeps ==
    ASSUME Inv, WalInv', Carried, ~locked, Len(txns) <= Len(txns'),
           UNCHANGED <<file, hold, locked, shipVars, sinkVars, ghostVars>>
    PROVE  Inv'
<1> USE DEF Inv
<1>1. UNCHANGED <<file, hold, locked, pc, gen, hdr, offset, copied, next, snaps, shipped,
                  started, synced, taken, settled>>
  BY DEF shipVars, sinkVars, ghostVars
<1>2. (\A g : Image(g)' = Image(g)) /\ Restored' = Restored
  BY ImageStays
<1>3. Len(txns) \in Nat /\ Len(txns)' \in Nat /\ Len(txns) <= Len(txns)'
      /\ \A k \in 0..Len(txns) : State(k)' = State(k)
  BY DEF Carried
<1>4. Committed(wal) \in Nat /\ Committed(wal') \in Nat
  BY CommittedIs DEF WalInv
<1>5. FileInv'
  <2>1. file' \in [Pages -> 0..Len(txns)']
    BY <1>1, <1>3 DEF FileInv
  <2>2. ASSUME NEW p \in Pages PROVE Follows(p, file[p], TRUE)'
    BY <1>1 DEF FileInv, Carried
  <2> QED  BY <2>1, <2>2 DEF FileInv
<1>6. HoldInv'
  <2>1. hold' \in {NoHold, FileHold} \cup {WalHold(n) : n \in 1..Committed(wal')}
    <3>1. CASE Committed(wal) <= Committed(wal')
      BY <1>1, <1>4, <3>1 DEF HoldInv
    <3>2. CASE hold.on # "wal"
      BY <1>1, <3>2 DEF HoldInv, WalHold
    <3> QED  BY <3>1, <3>2 DEF Carried
  <2> QED  BY <1>1, <2>1 DEF HoldInv
<1>7. EpochInv'
  <2>1. CASE epoch' = epoch /\ filled' = filled /\ Committed(wal) <= Committed(wal')
    BY <1>1, <1>4, <2>1 DEF EpochInv, Stored
  <2>2. CASE epoch' = epoch + 1 /\ filled' = 0 /\ hold.on # "wal" /\ (epoch = 0 \/ filled # 0)
    <3>1. hdr' \in 0..epoch' /\ epoch \in Nat /\ hdr' # epoch'
      BY <1>1, <2>2 DEF EpochInv, WalInv
    <3>2. hdr # 0 => filled # 0
      BY <2>2, <3>1 DEF EpochInv
    <3>3. hold # NoHold => hold = FileHold
      BY <2>2, HoldIs
    <3>4. ~locked' /\ pc' # "swap"
      BY <1>1 DEF HoldInv
    <3> QED  BY <1>1, <2>2, <3>1, <3>2, <3>3, <3>4 DEF EpochInv, Stored
  <2> QED  BY <2>1, <2>2 DEF Carried
<1>8. SinkInv'
  <2>1. \A g : Segments(g)' = Segments(g)
    BY <1>1 DEF Segments
  <2>2. epoch \in Nat /\ epoch' \in Nat /\ epoch <= epoch'
    BY DEF Carried, WalInv
  <2>s. SinkInv
    OBVIOUS
  <2> HIDE DEF Inv
  <2>3. \A s \in shipped' :
           /\ s.gen \in Nat \ {0} /\ s.epoch \in Nat \ {0} /\ s.from \in Nat
           /\ s.epoch <= epoch' /\ s.frames \in Seq(FrameType)
           /\ s.frames # <<>> => s.frames[Len(s.frames)].commit
    <3>1. shipped' = shipped
      BY <1>1
    <3>2. \A s \in shipped : s.epoch <= epoch'
      BY <2>2, <2>s, SegmentTypes
    <3> QED  BY <2>s, <3>1, <3>2, SegmentTypes
  <2>4. \A g \in DOMAIN snaps' : snaps'[g] \in [Pages -> 0..Len(txns')]
    <3>1. \A v \in 0..Len(txns) : v \in 0..Len(txns')
      BY <1>3
    <3>2. \A g \in DOMAIN snaps : snaps[g] \in [Pages -> 0..Len(txns)]
      BY <2>s DEF SinkInv
    <3> QED  BY <1>1, <3>1, <3>2
  <2> USE DEF Inv
  <2>5. ASSUME Stored PROVE TailInv'
    <3>1. CASE epoch' = epoch + 1
      <4>1. hdr' # epoch' /\ TailInv
        BY <1>1, <2>2, <2>5, <3>1 DEF EpochInv, SinkInv
      <4> QED  BY <1>1, <2>1, <4>1 DEF TailInv
    <3>2. CASE epoch' = epoch /\ hdr = epoch
      <4>1. /\ Committed(wal) <= Committed(wal') /\ TailInv /\ offset \in Nat
            /\ \A i \in 1..Committed(wal) : wal'[i] = wal[i]
        <5>1. TailInv
          BY <2>s, <2>5, Zenon DEF SinkInv
        <5>2. /\ Committed(wal) <= Committed(wal') /\ offset \in Nat
              /\ \A i \in 1..Committed(wal) : wal'[i] = wal[i]
          BY <2>2, <3>2 DEF Carried, EpochInv
        <5> QED  BY <5>1, <5>2
      <4>2. \A s \in Segments(gen) : Len(s.frames) \in Nat
        BY DEF SinkInv, Segments
      <4>3. ASSUME NEW s \in Segments(gen), s.epoch = hdr, s.from + Len(s.frames) > offset
            PROVE  /\ s.from = offset /\ offset + Len(s.frames) <= Committed(wal')
                   /\ \A i \in 1..Len(s.frames) : s.frames[i] = wal'[offset + i]
        <5>1. /\ s.from = offset /\ offset + Len(s.frames) <= Committed(wal)
              /\ \A i \in 1..Len(s.frames) : s.frames[i] = wal[offset + i]
          <6>1. s.from \in Nat
            BY DEF SinkInv, Segments
          <6>2. ~(s.from + Len(s.frames) <= offset)
            BY <4>1, <4>2, <4>3, <6>1
          <6> QED  BY <3>2, <4>1, <4>3, <6>2 DEF TailInv
        <5>2. \A i \in 1..Len(s.frames) : offset + i \in 1..Committed(wal)
          BY <1>4, <4>1, <4>2, <5>1
        <5>3. offset + Len(s.frames) <= Committed(wal')
          BY <1>4, <4>1, <4>2, <5>1
        <5> QED  BY <4>1, <5>1, <5>2, <5>3
      <4>4. \A s \in Segments(gen) : s.epoch <= hdr
        BY <4>1 DEF TailInv
      <4>5. \A s \in Segments(gen) : s.from \in Nat
        BY DEF SinkInv, Segments
      <4>6. \A s \in Segments(gen) : s.epoch = hdr /\ ~(s.from + Len(s.frames) <= offset) =>
                s.from + Len(s.frames) > offset
        BY <4>1, <4>2, <4>5
      <4>7. hdr # 0 => HeaderOf(gen, hdr) \in shipped
        BY <4>1 DEF TailInv
      <4>8. offset # 0 => \E s \in Segments(gen) : s.epoch = hdr /\ s.from + Len(s.frames) = offset
        BY <4>1 DEF TailInv
      <4>9. HeaderOf(gen, hdr)' = HeaderOf(gen, hdr)
        BY <1>1 DEF HeaderOf
      <4>10. \A s \in Segments(gen)' :
               /\ s.epoch <= hdr'
               /\ s.epoch = hdr' =>
                     \/ s.from + Len(s.frames) <= offset'
                     \/ /\ s.from = offset'
                        /\ offset' + Len(s.frames) <= Committed(wal')
                        /\ \A i \in 1..Len(s.frames) : s.frames[i] = wal'[offset' + i]
        BY <1>1, <2>1, <4>3, <4>4, <4>6
      <4> QED  BY <1>1, <2>1, <4>7, <4>8, <4>9, <4>10 DEF TailInv
    <3>3. CASE epoch' = epoch /\ hdr # epoch
      <4>1. TailInv
        BY <2>5 DEF SinkInv
      <4>2. HeaderOf(gen, hdr)' = HeaderOf(gen, hdr) /\ hdr' # epoch'
        BY <1>1, <3>3 DEF HeaderOf
      <4> HIDE DEF Inv
      <4> QED  BY <1>1, <2>1, <4>1, <4>2 DEF TailInv
    <3> QED  BY <3>1, <3>2, <3>3 DEF Carried
  <2>6. \A g, e : HeaderOf(g, e)' = HeaderOf(g, e)
    BY DEF HeaderOf
  <2>7. /\ DOMAIN snaps' \subseteq Nat \ {0} /\ (snaps' = <<>> \/ DOMAIN snaps' # {})
        /\ settled' \subseteq taken' /\ taken' \subseteq DOMAIN snaps' /\ gen' \in Nat
        /\ \E b \in Nat : (\A g \in DOMAIN snaps' : g <= b) /\ \A s \in shipped' : s.gen <= b
        /\ hold' # NoHold => gen' # 0 /\ \A g \in DOMAIN snaps' : g <= gen'
        /\ pc' = "copy" => gen' \notin DOMAIN snaps' /\ \A s \in shipped' : s.gen # gen'
    BY <1>1, <2>s DEF SinkInv
  <2>8. \A g \in taken' : \A t \in Segments(g)' :
           /\ HeaderOf(g, t.epoch)' \in shipped'
           /\ t.from = 0 \/ \E s \in Segments(g)' : s.epoch = t.epoch /\ s.from + Len(s.frames) = t.from
    BY <1>1, <2>s, <2>1, <2>6 DEF SinkInv
  <2>9. Stored' => TailInv'
    BY <1>1, <2>5 DEF Stored
  <2> HIDE DEF Inv
  <2> QED  BY <2>3, <2>4, <2>7, <2>8, <2>9 DEF SinkInv
<1>9. ASSUME NEW p \in Pages, NEW v, hold # NoHold, Follows(p, v, hold = FileHold)
      PROVE  Follows(p, v, hold = FileHold)'
  BY <1>1, <1>9, HoldIs, Zenon DEF Carried
<1>10. ImageInv'
  <2> SUFFICES ASSUME Stored, hold # NoHold
               PROVE /\ \A p \in Pages : Follows(p, Image(gen)[p], hold = FileHold)'
                     /\ hdr' = epoch' =>
                           \E m \in offset'..Committed(wal') :
                               \A p \in Pages : Newest(p, wal', m, Image(gen)[p]) = Image(gen)[p]
                     /\ (pc' = "frames" /\ epoch' # hdr') \/ (pc' = "size" /\ gen' \in settled') =>
                           \E k \in started..Len(txns') : Image(gen) = State(k)'
                     /\ pc' # "swap"
    BY <1>1, <1>2, Zenon DEF ImageInv, Stored
  <2>1. \A p \in Pages : Follows(p, Image(gen)[p], hold = FileHold)'
    BY <1>1, <1>2, <1>9 DEF ImageInv
  <2>2. ASSUME hdr' = epoch'
        PROVE  \E m \in offset'..Committed(wal') :
                   \A p \in Pages : Newest(p, wal', m, Image(gen)[p]) = Image(gen)[p]
    <3>1. epoch' = epoch /\ hdr = epoch /\ offset \in Nat
      BY <1>1, <2>2 DEF EpochInv, WalInv, Carried
    <3>2. PICK m \in offset..Committed(wal) :
              \A p \in Pages : Newest(p, wal, m, Image(gen)[p]) = Image(gen)[p]
      BY <3>1 DEF ImageInv
    <3>3. Committed(wal) <= Committed(wal') /\ m \in 0..Committed(wal) /\ m \in offset..Committed(wal')
          /\ \A q \in Pages, n \in 0..Committed(wal) : \A v :
                 Newest(q, wal', n, v) = Newest(q, wal, n, v)
      BY <1>4, <3>1, <3>2 DEF Carried, WalInv
    <3> QED  BY <1>1, <3>2, <3>3
  <2>3. ASSUME (pc' = "frames" /\ epoch' # hdr') \/ (pc' = "size" /\ gen' \in settled')
        PROVE  \E k \in started..Len(txns') : Image(gen) = State(k)'
    <3>1. \E k \in started..Len(txns) : Image(gen) = State(k)
      <4>1. CASE (pc = "frames" /\ epoch # hdr) \/ (pc = "size" /\ gen \in settled)
        BY <4>1 DEF ImageInv
      <4>2. CASE pc = "frames" /\ epoch = hdr
        <5>1. Full /\ hold = FileHold
          BY <1>1, <2>3, <4>2, HoldIs DEF Carried
        <5>2. \A p \in Pages : Image(gen)[p] = Latest[p]
          BY <5>1 DEF ImageInv, Follows
        <5>3. Image(gen) = Latest
          BY <5>2 DEF Image, Applied, Latest, State
        <5> QED  BY <1>3, <5>3 DEF CountInv, Latest
      <4> QED  BY <1>1, <2>3, <4>1, <4>2
    <3>2. PICK k \in started..Len(txns) : Image(gen) = State(k)
      BY <3>1
    <3>3. k \in 0..Len(txns) /\ k \in started..Len(txns')
      BY <1>3, <3>2 DEF CountInv
    <3> QED  BY <1>3, <3>2, <3>3
  <2> QED  BY <1>1, <2>1, <2>2, <2>3 DEF HoldInv
<1>11. CopyInv'
  <2>1. ASSUME pc = "copy", NEW p \in DOMAIN copied
        PROVE  Follows(p, copied[p], hold = FileHold)'
    <3>1. p \in Pages /\ Follows(p, copied[p], hold = FileHold) /\ hold # NoHold
      BY <2>1 DEF CopyInv, HoldInv
    <3> QED  BY <1>1, <1>9, <3>1
  <2>2. copied' \in [DOMAIN copied' -> 0..Len(txns')]
    <3>1. copied \in [DOMAIN copied -> 0..Len(txns)] /\ \A v \in 0..Len(txns) : v \in 0..Len(txns')
      BY <1>3 DEF CopyInv
    <3> QED  BY <1>1, <3>1
  <2> QED  BY <1>1, <2>1, <2>2 DEF CopyInv
<1>12. CountInv'
  BY <1>1, <1>3 DEF CountInv
<1>13. ConsistentPrefix'
  <2> SUFFICES ASSUME snaps # <<>> /\ Max(DOMAIN snaps) \in settled
               PROVE  \E k \in 0..Len(txns') :
                         /\ Restored = State(k)'
                         /\ \A g \in DOMAIN synced : g <= Max(DOMAIN snaps) => synced[g] <= k
    BY <1>1, <1>2 DEF ConsistentPrefix
  <2>1. PICK k \in 0..Len(txns) :
            /\ Restored = State(k)
            /\ \A g \in DOMAIN synced : g <= Max(DOMAIN snaps) => synced[g] <= k
    BY DEF ConsistentPrefix
  <2>2. k \in 0..Len(txns')
    BY <1>3
  <2> QED  BY <1>3, <2>1, <2>2
<1> QED  BY <1>5, <1>6, <1>7, <1>8, <1>10, <1>11, <1>12, <1>13

\* What neither writes nor ships keeps the sink as it is.
LEMMA SinkInvStays ==
    ASSUME SinkInv, UNCHANGED <<epoch, wal, txns, gen, hdr, offset, snaps, shipped, taken>>,
           settled' \subseteq taken, pc' = "copy" => pc = "copy", hold' # NoHold => hold # NoHold
    PROVE  SinkInv'
<1>1. \A g : Segments(g)' = Segments(g)
  BY DEF Segments
<1>2. \A g, e : HeaderOf(g, e)' = HeaderOf(g, e)
  BY DEF HeaderOf
<1>3. Stored' <=> Stored
  BY DEF Stored
<1>4. TailInv => TailInv'
  BY <1>1, <1>2 DEF TailInv
<1> QED  BY <1>1, <1>2, <1>3, <1>4 DEF SinkInv

\* A checkpoint reads committed frames only.
LEMMA ReachBounded ==
    ASSUME WalInv, HoldInv
    PROVE  Reach \in 0..Committed(wal) /\ Committed(wal) \in Nat
BY CommittedIs, HoldIs DEF WalInv, Reach

\* A page that a checkpoint has copied stays as close to the last state as it was.
LEMMA PageCopied ==
    ASSUME WalInv, FileInv, NEW p \in Pages, NEW n \in 0..Committed(wal)
    PROVE  /\ Newest(p, wal, n, file[p]) \in 0..Len(txns)
           /\ Newest(p, wal, Committed(wal), Newest(p, wal, n, file[p])) = Latest[p]
           /\ n = Committed(wal) => Newest(p, wal, n, file[p]) = Latest[p]
<1>1. wal \in Seq(FrameType) /\ Committed(wal) \in 0..Len(wal) /\ Len(wal) \in Nat
  BY CommittedIs DEF WalInv
<1>2. file[p] \in 0..Len(txns) /\ Newest(p, wal, Committed(wal), file[p]) = Latest[p]
  BY DEF FileInv, Follows
<1>3. Newest(p, wal, n, file[p]) \in 0..Len(txns)
  <2>1. n \in 0..Len(wal)
    BY <1>1
  <2>2. ASSUME NEW m \in 1..n PROVE wal[m].txn \in 0..Len(txns)
    <3>1. m \in 1..Committed(wal) /\ wal[m] \in FrameType
      BY <1>1
    <3>2. wal[m].txn <= Len(txns) /\ wal[m].txn \in Nat /\ Len(txns) \in Nat
      BY <3>1 DEF WalInv, FrameType
    <3> QED  BY <3>2
  <2> QED  BY <1>1, <1>2, <2>1, <2>2, NewestIs
<1>4. Newest(p, wal, Committed(wal), Newest(p, wal, n, file[p])) = Latest[p]
  BY <1>1, <1>2, NewestTwice
<1> QED  BY <1>2, <1>3, <1>4

\* Frames copied into the file by a checkpoint of the application.
LEMMA CheckpointKeeps ==
    ASSUME Inv, FileInv', hold.on # "file", filled' \in 0..Committed(wal),
           UNCHANGED <<epoch, wal, size, txns, hold, locked, shipVars, sinkVars, ghostVars>>
    PROVE  Inv'
<1> USE DEF Inv
<1>1. UNCHANGED <<epoch, wal, size, txns, hold, locked, pc, gen, hdr, offset, copied, next, snaps,
                  shipped, started, synced, taken, settled>>
  BY DEF shipVars, sinkVars, ghostVars
<1>2. (\A g : Image(g)' = Image(g)) /\ Restored' = Restored /\ (\A k : State(k)' = State(k))
      /\ Latest' = Latest
  BY <1>1, ImageStays DEF State, Latest
<1>3. hold # FileHold
  BY HoldIs
<1>4. WalInv'
  BY <1>1 DEF WalInv, Open
<1>5. HoldInv'
  BY <1>1 DEF HoldInv, Open
<1>6. EpochInv'
  BY <1>1, <1>3 DEF EpochInv, Stored
<1>7. SinkInv'
  <2>1. settled \subseteq taken
    BY DEF SinkInv
  <2> QED  BY <1>1, <2>1, SinkInvStays
<1>8. ImageInv'
  BY <1>1, <1>2, <1>3 DEF ImageInv, Stored, Follows
<1>9. CopyInv'
  BY <1>1, <1>2, <1>3 DEF CopyInv, Follows
<1>10. CountInv' /\ ConsistentPrefix'
  BY <1>1, <1>2 DEF CountInv, ConsistentPrefix
<1> QED  BY <1>4, <1>5, <1>6, <1>7, <1>8, <1>9, <1>10

\* Every step of the application.
LEMMA ApplicationKeeps ==
    ASSUME Inv, \/ \E p \in Pages : Spill(p) \/ Commit(p) \/ Backfill(p)
                \/ Rollback \/ Backfilled
    PROVE  Inv'
<1>1. WalInv /\ HoldInv /\ FileInv
  BY DEF Inv
<1>2. CASE (\E p \in Pages : Spill(p) \/ Commit(p)) \/ Rollback
  <2>1. WalInv' /\ Carried
    BY <1>1, <1>2, SpillCarries, CommitCarries, RollbackCarries
  <2>2. ~locked /\ UNCHANGED <<file, hold, locked, shipVars, sinkVars, ghostVars>>
    BY <1>1, <1>2 DEF Spill, Commit, Rollback, HoldInv
  <2> QED  BY <2>1, <2>2, WriterKeeps DEF Carried
<1>3. ASSUME NEW p \in Pages, Backfill(p) PROVE Inv'
  <2>1. Reach \in 0..Committed(wal) /\ Committed(wal) \in Nat
    BY <1>1, ReachBounded
  <2>2. /\ filled < Reach /\ file' = [file EXCEPT ![p] = Newest(p, wal, Reach, @)]
        /\ UNCHANGED <<epoch, wal, txns, filled, hold>>
    BY <1>3 DEF Backfill
  <2>3. FileInv'
    <3>1. Newest(p, wal, Reach, file[p]) \in 0..Len(txns)
          /\ Newest(p, wal, Committed(wal), Newest(p, wal, Reach, file[p])) = Latest[p]
      BY <1>1, <2>1, PageCopied
    <3>2. ~Full' /\ Latest' = Latest
      BY <1>1, <2>1, <2>2 DEF Full, WalInv, Latest, State
    <3> QED  BY <1>1, <2>2, <3>1, <3>2 DEF FileInv, Follows
  <2>4. filled' \in 0..Committed(wal)
    BY <1>1, <2>2 DEF WalInv
  <2> QED  BY <1>3, <2>3, <2>4, CheckpointKeeps DEF Backfill
<1>4. CASE Backfilled
  <2>1. Reach \in 0..Committed(wal) /\ Committed(wal) \in Nat
    BY <1>1, ReachBounded
  <2>2. filled' = Reach /\ UNCHANGED <<epoch, wal, txns, file, hold>>
        /\ \A p \in Pages : file[p] = Newest(p, wal, Reach, file[p])
    BY <1>4 DEF Backfilled
  <2>3. FileInv'
    <3>1. Latest' = Latest
      BY <2>2 DEF Latest, State
    <3>2. ASSUME NEW p \in Pages PROVE Follows(p, file[p], TRUE)'
      BY <1>1, <2>1, <2>2, <3>1, PageCopied DEF Follows, Full, FileInv
    <3> QED  BY <1>1, <2>2, <3>2 DEF FileInv
  <2> QED  BY <1>4, <2>1, <2>2, <2>3, CheckpointKeeps DEF Backfilled
<1> QED  BY <1>2, <1>3, <1>4

-----------------------------------------------------------------------------
(* Steps of the shipper keep the invariant.                                *)

\* What replay takes of the segments of a generation.
Joined(segments) ==
    {s \in segments : \A t \in segments : Before(t, s) =>
        t.from = 0 \/ \E r \in segments : r.epoch = t.epoch /\ r.from + Len(r.frames) = t.from}

\* The segments that replay can use.
Headed(g) == {s \in Segments(g) : HeaderOf(g, s.epoch) \in shipped}

\* Replay looks at the segments that have frames and a header.
LEMMA ReplayedIs ==
    \A g : Replayed(g) = Joined(Headed(g))
<1>1. \A g : Headed(g) = {s \in shipped : /\ s.gen = g /\ s.frames # <<>>
                                         /\ Segment(g, s.epoch, 0, <<>>) \in shipped}
  BY DEF Headed, Segments, HeaderOf
<1> QED  BY <1>1 DEF Replayed, Joined

\* The segments of a generation whose snapshot was put all join.
LEMMA AllReplayed ==
    ASSUME SinkInv, NEW g \in taken
    PROVE  Replayed(g) = Segments(g)
<1>1. \A t \in Segments(g) : /\ HeaderOf(g, t.epoch) \in shipped
                             /\ t.from = 0 \/ \E s \in Segments(g) :
                                    s.epoch = t.epoch /\ s.from + Len(s.frames) = t.from
  BY DEF SinkInv
<1>2. Headed(g) = Segments(g)
  BY <1>1 DEF Headed
<1>3. Joined(Segments(g)) = Segments(g)
  BY <1>1 DEF Joined
<1> QED  BY <1>2, <1>3, ReplayedIs

\* Equal segments, equal images, whatever headers come.
LEMMA ImageKept ==
    ASSUME SinkInv, NEW g \in taken, snaps'[g] = snaps[g], Segments(g)' = Segments(g),
           \A e : HeaderOf(g, e) \in shipped => HeaderOf(g, e) \in shipped'
    PROVE  Image(g)' = Image(g)
<1>1. \A t \in Segments(g) : /\ HeaderOf(g, t.epoch) \in shipped'
                             /\ t.from = 0 \/ \E s \in Segments(g) :
                                    s.epoch = t.epoch /\ s.from + Len(s.frames) = t.from
  BY DEF SinkInv
<1>2. Headed(g)' = {s \in Segments(g)' : HeaderOf(g, s.epoch) \in shipped'}
  BY DEF Headed, HeaderOf, Segments
<1>3. Headed(g)' = Segments(g)
  BY <1>1, <1>2
<1>4. Replayed(g)' = Joined(Headed(g)')
  <2>1. Headed(g)' = {s \in shipped' : /\ s.gen = g /\ s.frames # <<>>
                                       /\ Segment(g, s.epoch, 0, <<>>) \in shipped'}
    BY DEF Headed, Segments, HeaderOf
  <2> QED  BY <2>1 DEF Replayed, Joined
<1>5. Joined(Segments(g)) = Segments(g)
  BY <1>1 DEF Joined
<1>6. Replayed(g)' = Replayed(g)
  BY <1>3, <1>4, <1>5, AllReplayed
<1> QED  BY <1>6 DEF Image, Applied

\* So is what is restored, when it is the image of such a generation.
LEMMA SinkStays ==
    ASSUME SinkInv, snaps' = snaps, \A g : Segments(g)' = Segments(g),
           \A g, e : HeaderOf(g, e) \in shipped => HeaderOf(g, e) \in shipped'
    PROVE  /\ \A g \in taken : Image(g)' = Image(g)
           /\ Max(DOMAIN snaps) \in settled => Restored' = Restored
<1>1. \A g \in taken : Image(g)' = Image(g)
  BY ImageKept
<1>2. ASSUME Max(DOMAIN snaps) \in settled PROVE Restored' = Restored
  <2>1. PICK m : m = Max(DOMAIN snaps)
    OBVIOUS
  <2>2. Image(m)' = Image(m)
    BY <1>1, <1>2, <2>1 DEF SinkInv
  <2>3. Restored = Image(m) /\ Restored' = Image(m)'
    BY <2>1 DEF Restored, Image, Applied, Replayed
  <2> QED  BY <2>2, <2>3
<1> QED  BY <1>1, <1>2

\* The generation at hand is the newest one.
LEMMA NewestGeneration ==
    ASSUME SinkInv, Stored, hold # NoHold
    PROVE  Max(DOMAIN snaps) = gen /\ Restored = Image(gen)
<1>1. DOMAIN snaps \subseteq Nat /\ gen \in DOMAIN snaps /\ \A g \in DOMAIN snaps : g <= gen
  BY DEF SinkInv, Stored
<1>2. Max(DOMAIN snaps) = gen
  BY <1>1, MaxIs
<1> QED  BY <1>2 DEF Restored

\* The last state as a state like any other.
LEMMA LatestIs ==
    ASSUME CountInv, NEW g, \A p \in Pages : Image(g)[p] = Latest[p]
    PROVE  Image(g) = Latest /\ \E k \in started..Len(txns) : Image(g) = State(k)
<1>1. Image(g) = Latest
  BY DEF Image, Applied, Latest, State
<1> QED  BY <1>1 DEF CountInv, Latest

\* What a step that leaves the database alone keeps.
LEMMA WalStays ==
    ASSUME UNCHANGED walVars
    PROVE  /\ UNCHANGED <<file, epoch, wal, filled, size, txns>>
           /\ Latest' = Latest /\ \A k : State(k)' = State(k)
           /\ \A q, v, fixed : Follows(q, v, fixed)' = Follows(q, v, fixed)
           /\ (WalInv => WalInv') /\ (FileInv => FileInv')
<1>1. UNCHANGED <<file, epoch, wal, filled, size, txns>>
  BY DEF walVars
<1>2. Latest' = Latest /\ \A k : State(k)' = State(k)
  BY <1>1 DEF Latest, State
<1>3. \A q, v, fixed : Follows(q, v, fixed)' = Follows(q, v, fixed)
  BY <1>1, <1>2 DEF Follows, Full
<1>4. WalInv => WalInv'
  BY <1>1 DEF WalInv, Open
<1>5. FileInv => FileInv'
  BY <1>1, <1>3 DEF FileInv
<1> QED  BY <1>1, <1>2, <1>3, <1>4, <1>5

\* A step that settles nothing new, returns nothing and changes no image.
LEMMA PrefixStays ==
    ASSUME ConsistentPrefix, snaps' = snaps, txns' = txns, settled' = settled, synced' = synced,
           Max(DOMAIN snaps) \in settled => Restored' = Restored
    PROVE  ConsistentPrefix'
BY DEF ConsistentPrefix, State

\* A Sync that returns nil, when the newest generation is a state since it started, or is not
\* the one it shipped to.
LEMMA ReturnsKeeps ==
    ASSUME SinkInv, CountInv, ConsistentPrefix, Returns, hold # NoHold, pc # "idle",
           snaps' = snaps, txns' = txns, settled' = settled,
           Max(DOMAIN snaps) \in settled => Restored' = Restored,
           gen \in settled => \E k \in started..Len(txns) : Image(gen) = State(k)
    PROVE  ConsistentPrefix'
<1> DEFINE newest == Max(DOMAIN snaps)
<1>1. DOMAIN synced' = DOMAIN synced \cup {gen}
      /\ \A g \in DOMAIN synced' : synced'[g] = IF g = gen THEN started ELSE synced[g]
  BY DEF Returns
<1> SUFFICES ASSUME snaps # <<>>, newest \in settled
             PROVE  \E k \in 0..Len(txns) :
                       /\ Restored' = State(k)
                       /\ \A g \in DOMAIN synced' : g <= newest => synced'[g] <= k
  BY DEF ConsistentPrefix, State
<1>2. Restored' = Restored /\ newest \in DOMAIN snaps /\ newest \in Nat /\ newest <= gen /\ gen \in Nat
  BY DEF SinkInv
<1>3. CASE gen \in settled
  <2>1. PICK k \in started..Len(txns) : Image(gen) = State(k)
    BY <1>3
  <2>2. Restored' = State(k)
    BY <1>2, <1>3, <2>1, NewestGeneration DEF Stored, SinkInv
  <2>3. k \in 0..Len(txns) /\ \A g \in DOMAIN synced' : synced'[g] <= k
    <3>1. started \in Nat /\ started <= k /\ \A g \in DOMAIN synced : synced[g] \in Nat /\ synced[g] <= started
      BY <2>1 DEF CountInv
    <3> QED  BY <1>1, <2>1, <3>1 DEF CountInv
  <2> QED  BY <2>2, <2>3
<1>4. CASE gen \notin settled
  <2>1. newest < gen
    BY <1>2, <1>4
  <2>2. PICK k \in 0..Len(txns) : /\ Restored = State(k)
                                  /\ \A g \in DOMAIN synced : g <= newest => synced[g] <= k
    BY DEF ConsistentPrefix
  <2> HIDE DEF newest
  <2>3. \A g \in DOMAIN synced' : g <= newest => synced'[g] <= k
    BY <1>1, <1>2, <2>1, <2>2
  <2> QED  BY <1>2, <2>2, <2>3
<1> QED  BY <1>3, <1>4

\* A Sync starts.
LEMMA SyncKeeps ==
    ASSUME Inv, Sync
    PROVE  Inv'
<1> USE DEF Inv
<1>1. UNCHANGED walVars /\ snaps' = snaps /\ shipped' = shipped
      /\ UNCHANGED <<hold, locked, gen, hdr, offset, copied, synced, taken, settled>>
  BY DEF Sync, sinkVars
<1>3. (\A g : Image(g)' = Image(g)) /\ Restored' = Restored
  BY <1>1, ImageStays DEF sinkVars
<1>4. /\ UNCHANGED <<file, epoch, wal, filled, txns>> /\ WalInv' /\ FileInv'
      /\ \A q, v, fixed : Follows(q, v, fixed)' = Follows(q, v, fixed)
  BY <1>1, WalStays
<1>5. pc = "idle" /\ started' = Len(txns) /\ next' \in {"header", "size"}
      /\ ((pc' = "list" /\ hold = NoHold) \/ (pc' = "header" /\ hold # NoHold))
  BY DEF Sync, Goes, HoldInv
<1>6. HoldInv'
  BY <1>1, <1>4, <1>5 DEF HoldInv, Open
<1>7. EpochInv'
  BY <1>1, <1>4, <1>5 DEF EpochInv, Stored
<1>8. SinkInv'
  <2>1. SinkInv /\ settled \subseteq taken
    BY DEF SinkInv
  <2> QED  BY <1>1, <1>4, <1>5, <2>1, SinkInvStays
<1>9. ImageInv'
  BY <1>1, <1>3, <1>4, <1>5 DEF ImageInv, Stored
<1>10. CopyInv' /\ CountInv'
  <2>1. Len(txns) \in Nat
    BY DEF WalInv
  <2> QED  BY <1>1, <1>4, <1>5, <2>1 DEF CopyInv, CountInv
<1>11. ConsistentPrefix'
  BY <1>1, <1>3, <1>4, PrefixStays
<1> QED  BY <1>4, <1>6, <1>7, <1>8, <1>9, <1>10, <1>11

\* A new generation starts with a new hold.
LEMMA ListKeeps ==
    ASSUME Inv, List
    PROVE  Inv'
<1> USE DEF Inv
<1>1. UNCHANGED walVars /\ snaps' = snaps /\ shipped' = shipped
      /\ UNCHANGED <<hdr, offset, next, started, synced, taken, settled>>
  BY DEF List, sinkVars, ghostVars
<1>2. \A g : Segments(g)' = Segments(g)
  BY <1>1 DEF Segments
<1>3. (\A g : Image(g)' = Image(g)) /\ Restored' = Restored
  BY <1>1, ImageStays DEF sinkVars
<1>4. UNCHANGED <<file, epoch, wal, filled, txns>> /\ WalInv' /\ FileInv'
  BY <1>1, WalStays
<1>5. pc = "list" /\ ~locked /\ locked' = FALSE /\ copied' = <<>> /\ hold = NoHold
      /\ ((pc' = "copy" /\ hold' = Hold(filled)) \/ (pc' = "idle" /\ hold' = NoHold))
  <2>1. pc = "list" /\ ~locked /\ hold = NoHold /\ locked \in BOOLEAN /\ copied' = <<>>
    BY DEF List, HoldInv
  <2>2. \/ pc' = "copy" /\ hold' = Hold(filled) /\ locked' = locked
        \/ pc' = "idle" /\ hold' = hold /\ locked' = FALSE
    BY DEF List, Goes, Fails
  <2>3. locked' = FALSE
    BY <2>1, <2>2
  <2>4. (pc' = "copy" /\ hold' = Hold(filled)) \/ (pc' = "idle" /\ hold' = NoHold)
    BY <2>1, <2>2, Zenon
  <2> QED  BY <2>1, <2>3, <2>4
<1>6. gen' \in Nat \ {0} /\ (\A g \in DOMAIN snaps : g < gen') /\ \A s \in shipped : s.gen < gen'
  <2> DEFINE S == {0} \cup DOMAIN snaps \cup {s.gen : s \in shipped}
  <2>1. PICK b \in Nat : \A y \in S : y <= b
    <3>1. PICK b \in Nat : (\A g \in DOMAIN snaps : g <= b) /\ \A s \in shipped : s.gen <= b
      BY DEF SinkInv
    <3> QED  BY <3>1
  <2>2. S \subseteq Nat /\ S # {}
    <3>1. DOMAIN snaps \subseteq Nat
      BY DEF SinkInv
    <3>2. \A s \in shipped : s.gen \in Nat
      BY SegmentTypes
    <3> QED  BY <3>1, <3>2
  <2>3. gen' = 1 + Max(S)
    BY DEF List
  <2>4. Max(S) \in S /\ \A y \in S : y <= Max(S)
    <3> HIDE DEF S
    <3> QED  BY <2>1, <2>2, MaxOfBounded
  <2>5. Max(S) \in Nat /\ \A y \in S : y \in Nat /\ y <= Max(S)
    <3> HIDE DEF S
    <3> QED  BY <2>2, <2>4
  <2>6. gen' \in Nat \ {0} /\ \A y \in S : y < gen'
    <3> HIDE DEF S
    <3> QED  BY <2>3, <2>5
  <2> QED  BY <2>6
<1>7. HoldInv'
  <2>1. Committed(wal) \in Nat /\ filled \in 0..Committed(wal)
    BY CommittedIs DEF WalInv
  <2>2. Hold(filled) \in {FileHold} \cup {WalHold(n) : n \in 1..Committed(wal)} /\ Hold(filled) # NoHold
    BY <2>1 DEF Hold, FileHold, WalHold, NoHold
  <2> QED  BY <1>1, <1>4, <1>5, <2>2 DEF HoldInv
<1>8. ~Stored'
  BY <1>1, <1>6 DEF Stored, SinkInv
<1>9. EpochInv'
  BY <1>1, <1>4, <1>5, <1>8 DEF EpochInv
<1>10. SinkInv'
  <2>1. /\ gen' # 0 /\ (\A g \in DOMAIN snaps' : g <= gen' /\ g # gen')
        /\ \A s \in shipped' : s.gen # gen'
    BY <1>1, <1>6 DEF SinkInv
  <2>2. \A g, e : HeaderOf(g, e)' = HeaderOf(g, e)
    BY DEF HeaderOf
  <2>3. SinkInv
    OBVIOUS
  <2> HIDE DEF Inv
  <2> QED  BY <1>1, <1>2, <1>4, <1>6, <1>8, <2>1, <2>2, <2>3 DEF SinkInv
<1>11. ImageInv'
  BY <1>8 DEF ImageInv
<1>12. CopyInv' /\ CountInv'
  <2>1. CopyInv'
    <3>1. copied' = <<>> /\ DOMAIN copied' = {} /\ copied' \in [{} -> 0..Len(txns')]
      BY <1>5
    <3> QED  BY <3>1 DEF CopyInv
  <2> QED  BY <1>1, <1>4, <1>5, <2>1 DEF CountInv
<1>13. ConsistentPrefix'
  BY <1>1, <1>3, <1>4, PrefixStays
<1> QED  BY <1>4, <1>7, <1>9, <1>10, <1>11, <1>12, <1>13

\* A page is read: the file is never behind what the frames bring up to date.
LEMMA CopyPageKeeps ==
    ASSUME Inv, NEW p \in Pages, CopyPage(p)
    PROVE  Inv'
<1> USE DEF Inv
<1>1. UNCHANGED walVars /\ snaps' = snaps /\ shipped' = shipped
      /\ UNCHANGED <<hold, locked, pc, gen, hdr, offset, next, started, synced, taken, settled>>
  BY DEF CopyPage, sinkVars, ghostVars
<1>3. (\A g : Image(g)' = Image(g)) /\ Restored' = Restored
  BY <1>1, ImageStays DEF sinkVars
<1>4. /\ UNCHANGED <<file, epoch, wal, filled, txns>> /\ WalInv' /\ FileInv'
      /\ \A q, v, fixed : Follows(q, v, fixed)' = Follows(q, v, fixed)
  BY <1>1, WalStays
<1>5. copied' = [q \in DOMAIN copied \cup {p} |-> IF q = p THEN file[p] ELSE copied[q]]
      /\ pc = "copy"
  BY DEF CopyPage
<1>6. HoldInv'
  BY <1>1, <1>4 DEF HoldInv, Open
<1>7. EpochInv'
  BY <1>1, <1>4 DEF EpochInv, Stored
<1>8. SinkInv'
  <2>1. SinkInv /\ settled \subseteq taken
    BY DEF SinkInv
  <2> QED  BY <1>1, <1>4, <2>1, SinkInvStays
<1>9. ImageInv'
  BY <1>1, <1>3, <1>4, <1>5 DEF ImageInv, Stored
<1>10. CopyInv'
  <2>1. Follows(p, file[p], hold = FileHold)
    BY DEF FileInv, Follows
  <2>2. ASSUME NEW q \in DOMAIN copied' PROVE Follows(q, copied'[q], hold = FileHold)
    <3>1. CASE q = p
      BY <1>5, <2>1, <3>1
    <3>2. CASE q # p
      BY <1>5, <2>2, <3>2 DEF CopyInv
    <3> QED  BY <3>1, <3>2
  <2>3. DOMAIN copied' \subseteq Pages /\ copied' \in [DOMAIN copied' -> 0..Len(txns')]
    <3>1. file[p] \in 0..Len(txns)
      BY DEF FileInv
    <3>2. copied \in [DOMAIN copied -> 0..Len(txns)] /\ DOMAIN copied \subseteq Pages
      BY DEF CopyInv
    <3>3. \A q \in DOMAIN copied : copied[q] \in 0..Len(txns)
      BY <3>2
    <3>4. txns' = txns
      BY <1>4
    <3> HIDE DEF Inv
    <3> QED  BY <1>5, <3>1, <3>2, <3>3, <3>4
  <2> QED  BY <1>1, <1>4, <2>2, <2>3 DEF CopyInv
<1>11. CountInv'
  BY <1>1, <1>4 DEF CountInv
<1>12. ConsistentPrefix'
  BY <1>1, <1>3, <1>4, PrefixStays
<1> QED  BY <1>4, <1>6, <1>7, <1>8, <1>9, <1>10, <1>11, <1>12

\* The snapshot is stored, or the pages read are lost.
LEMMA SnapshotKeeps ==
    ASSUME Inv, PutSnapshot
    PROVE  Inv'
<1> USE DEF Inv
<1>1. UNCHANGED walVars /\ UNCHANGED <<hold, gen, next, shipped, started, synced, settled>>
      /\ copied' = <<>> /\ pc = "copy" /\ ~locked /\ locked' = FALSE /\ DOMAIN copied = Pages
  BY DEF PutSnapshot, Fails, HoldInv
<1>2. \A g : Segments(g)' = Segments(g)
  BY <1>1 DEF Segments
<1>3. /\ UNCHANGED <<file, epoch, wal, filled, txns>> /\ WalInv' /\ FileInv' /\ Latest' = Latest
      /\ \A q, v, fixed : Follows(q, v, fixed)' = Follows(q, v, fixed)
  BY <1>1, WalStays
<1>4. pc' \in {"idle", next} /\ next \in {"header", "size"}
  BY DEF PutSnapshot, Fails, Goes, HoldInv
<1>5. HoldInv'
  BY <1>1, <1>3, <1>4 DEF HoldInv, Open
<1>6. CopyInv' /\ CountInv'
  <2>1. CopyInv'
    <3>1. copied' = <<>> /\ DOMAIN copied' = {} /\ copied' \in [{} -> 0..Len(txns')]
      BY <1>1
    <3> QED  BY <3>1 DEF CopyInv
  <2> QED  BY <1>1, <1>3, <1>4, <2>1 DEF CountInv
<1>7. CASE UNCHANGED <<snaps, taken, hdr, offset>> /\ pc' = "idle"
  <2>1. (\A g : Image(g)' = Image(g)) /\ Restored' = Restored
    BY <1>1, <1>7, ImageStays DEF sinkVars
  <2>2. EpochInv'
    BY <1>1, <1>3, <1>7 DEF EpochInv, Stored
  <2>3. SinkInv'
    <3>1. SinkInv /\ settled \subseteq taken
      BY DEF SinkInv
    <3> QED  BY <1>1, <1>3, <1>7, <3>1, SinkInvStays
  <2>4. ImageInv'
    BY <1>1, <1>3, <1>7, <2>1 DEF ImageInv, Stored
  <2>5. ConsistentPrefix'
    BY <1>1, <1>3, <1>7, <2>1, PrefixStays
  <2> QED  BY <1>3, <1>5, <1>6, <2>2, <2>3, <2>4, <2>5
<1>8. CASE /\ snaps' = [g \in DOMAIN snaps \cup {gen} |-> IF g = gen THEN copied ELSE snaps[g]]
           /\ \/ taken' = taken \cup {gen} /\ hdr' = 0 /\ offset' = 0 /\ pc' = next
              \/ UNCHANGED <<taken, hdr, offset>> /\ pc' = "idle"
  <2>1. gen \in Nat \ {0} /\ ~Stored /\ gen \notin DOMAIN snaps /\ (\A s \in shipped : s.gen # gen)
        /\ \A g \in DOMAIN snaps : g <= gen
    BY <1>1 DEF SinkInv, HoldInv, Stored
  <2>2. /\ DOMAIN snaps' = DOMAIN snaps \cup {gen} /\ snaps'[gen] = copied
        /\ \A g \in DOMAIN snaps : snaps'[g] = snaps[g]
    BY <1>8, <2>1
  <2>3. Segments(gen) = {}
    BY <2>1 DEF Segments
  <2>4. Stored' => hdr' = 0 /\ offset' = 0 /\ pc' = next
    BY <1>1, <1>8, <2>1 DEF Stored
  <2>5. \A p \in Pages : Image(gen)'[p] = copied[p]
    <3>1. Replayed(gen)' = {}
      BY <1>1, <2>1 DEF Replayed
    <3>2. Image(gen)' = Applied(snaps'[gen], {})
      BY <1>1, <3>1 DEF Image, Applied
    <3> QED  BY <2>2, <3>2 DEF Applied
  <2>6. EpochInv'
    <3>1. epoch \in Nat /\ Committed(wal) \in Nat
      BY CommittedIs DEF WalInv
    <3>2. CASE hdr' = 0 /\ offset' = 0 /\ pc' = next
      BY <1>1, <1>3, <1>4, <3>1, <3>2 DEF EpochInv
    <3>3. CASE UNCHANGED <<taken, hdr, offset>> /\ pc' = "idle"
      BY <1>1, <1>3, <3>3 DEF EpochInv, Stored
    <3> QED  BY <1>8, <3>2, <3>3
  <2>7. SinkInv'
    <3>1. /\ DOMAIN snaps' \subseteq Nat \ {0} /\ DOMAIN snaps' # {} /\ settled' \subseteq taken'
          /\ taken' \subseteq DOMAIN snaps'
          /\ gen' \in Nat /\ (hold' # NoHold => gen' # 0 /\ \A g \in DOMAIN snaps' : g <= gen')
      BY <1>1, <1>8, <2>1, <2>2 DEF SinkInv
    <3>2. \E b \in Nat : (\A g \in DOMAIN snaps' : g <= b) /\ \A s \in shipped' : s.gen <= b
      <4>1. PICK b \in Nat : (\A g \in DOMAIN snaps : g <= b) /\ \A s \in shipped : s.gen <= b
        BY DEF SinkInv
      <4>2. CASE gen <= b
        BY <1>1, <2>1, <2>2, <4>1, <4>2
      <4>3. CASE b < gen
        <5>1. \A g \in DOMAIN snaps' : g <= gen
          BY <2>1, <2>2
        <5>2. \A s \in shipped' : s.gen <= gen
          <6>s. SinkInv
            OBVIOUS
          <6> HIDE DEF Inv
          <6>t. \A s \in shipped : s.gen \in Nat \ {0}
            BY <6>s, Zenon DEF SinkInv
          <6>1. \A s \in shipped : s.gen \in Nat /\ s.gen <= b
            BY <4>1, <6>t
          <6>2. b \in Nat /\ gen \in Nat
            BY <2>1
          <6> QED  BY <1>1, <4>3, <6>1, <6>2
        <5> QED  BY <2>1, <5>1, <5>2
      <4> QED  BY <2>1, <4>2, <4>3
    <3>s. SinkInv /\ \A g, e : HeaderOf(g, e)' = HeaderOf(g, e)
      BY DEF HeaderOf
    <3>3. \A g \in taken' : \A t \in Segments(g)' :
             /\ HeaderOf(g, t.epoch)' \in shipped'
             /\ t.from = 0 \/ \E s \in Segments(g)' : s.epoch = t.epoch /\ s.from + Len(s.frames) = t.from
      <4>1. \A g \in taken' : g \in taken \/ g = gen
        BY <1>8
      <4> HIDE DEF Inv
      <4> QED  BY <1>1, <1>2, <2>3, <3>s, <4>1 DEF SinkInv
    <3>4. pc' # "copy"
      BY <1>4, <1>8
    <3>5. Stored' => TailInv'
      <4> SUFFICES ASSUME Stored' PROVE TailInv'
        OBVIOUS
      <4>1. Segments(gen') = {} /\ offset' = 0 /\ hdr' = 0
        BY <1>1, <2>3, <2>4
      <4>2. Segments(gen') = Segments(gen)' /\ Segments(gen)' = {}
        BY <1>1, <1>2, <2>3
      <4>3. ~(hdr' # 0) /\ ~(offset' # 0)
        BY <4>1
      <4> HIDE DEF Inv
      <4> QED  BY <4>2, <4>3, Zenon DEF TailInv
    <3>6. \A s \in shipped' : /\ s.gen \in Nat \ {0} /\ s.epoch \in Nat \ {0} /\ s.from \in Nat
                              /\ s.epoch <= epoch' /\ s.frames \in Seq(FrameType)
                              /\ s.frames # <<>> => s.frames[Len(s.frames)].commit
      <4>1. shipped' = shipped /\ epoch' = epoch
        BY <1>1, <1>3
      <4> HIDE DEF Inv
      <4> QED  BY <3>s, <4>1, Zenon DEF SinkInv
    <3>7. \A g \in DOMAIN snaps' : snaps'[g] \in [Pages -> 0..Len(txns')]
      <4>1. copied \in [Pages -> 0..Len(txns)]
        BY <1>1 DEF CopyInv
      <4>2. \A g \in DOMAIN snaps : snaps[g] \in [Pages -> 0..Len(txns)]
        BY DEF SinkInv
      <4> HIDE DEF Inv
      <4> QED  BY <1>3, <2>2, <4>1, <4>2
    <3> HIDE DEF Inv
    <3> QED  BY <3>1, <3>2, <3>3, <3>4, <3>5, <3>6, <3>7 DEF SinkInv
  <2>8. ImageInv'
    <3> SUFFICES ASSUME Stored' PROVE ImageInv'
      BY DEF ImageInv
    <3>1. \A p \in Pages : Follows(p, Image(gen)[p], hold = FileHold)'
      BY <1>1, <1>3, <2>5 DEF CopyInv
    <3>2. \E m \in offset'..Committed(wal') :
              \A p \in Pages : Newest(p, wal', m, Image(gen)'[p]) = Image(gen)'[p]
      <4>1. offset' = 0 /\ 0 \in 0..Committed(wal')
        BY <1>3, <2>4, CommittedIs DEF WalInv
      <4> QED  BY <4>1, NewestNone
    <3>3. pc' \notin {"frames", "swap"} /\ gen' \notin settled'
      BY <1>1, <1>4, <2>4, <2>1 DEF SinkInv, Stored
    <3> QED  BY <1>1, <3>1, <3>2, <3>3 DEF ImageInv
  <2>9. ConsistentPrefix'
    <3>1. Max(DOMAIN snaps') = gen
      <4>1. DOMAIN snaps' \subseteq Nat /\ gen \in DOMAIN snaps' /\ \A g \in DOMAIN snaps' : g <= gen
        BY <2>1, <2>2 DEF SinkInv
      <4> QED  BY <4>1, MaxIs
    <3>2. gen \notin settled'
      BY <1>1, <2>1 DEF SinkInv, Stored
    <3> QED  BY <3>1, <3>2 DEF ConsistentPrefix
  <2> QED  BY <1>3, <1>5, <1>6, <2>6, <2>7, <2>8, <2>9
<1> QED  BY <1>7, <1>8 DEF PutSnapshot, Fails, Goes

\* What syncLocked settles and keeps when the newest generation is a state since Sync started.
LEMMA SettlesKeeps ==
    ASSUME SinkInv, CountInv, ConsistentPrefix, Settles, hold # NoHold, pc # "idle", txns' = txns,
           UNCHANGED <<snaps, synced>>, Max(DOMAIN snaps) \in settled => Restored' = Restored,
           Stored => \E k \in started..Len(txns) : Restored' = State(k)
    PROVE  ConsistentPrefix' /\ settled' \subseteq taken
<1>1. settled' \subseteq taken
  BY DEF Settles, SinkInv
<1>2. CASE Stored
  <2>1. PICK k \in started..Len(txns) : Restored' = State(k)
    BY <1>2
  <2>2. k \in 0..Len(txns) /\ \A g \in DOMAIN synced : synced[g] <= k
    <3>1. started \in 0..Len(txns) /\ started <= k /\ k \in 0..Len(txns)
      BY <2>1 DEF CountInv
    <3>2. \A g \in DOMAIN synced : synced[g] \in Nat /\ synced[g] <= started
      BY DEF CountInv
    <3> QED  BY <3>1, <3>2
  <2>3. Restored' = State(k)'
    BY <2>1 DEF State
  <2> QED  BY <1>1, <2>2, <2>3 DEF ConsistentPrefix
<1>3. CASE ~Stored
  <2>1. settled' = settled
    BY <1>3 DEF Settles, Stored
  <2> QED  BY <1>1, <2>1, PrefixStays
<1> QED  BY <1>2, <1>3

\* A WAL that was never written is all in the file.
LEMMA EmptyWal ==
    ASSUME WalInv, epoch = 0
    PROVE  Committed(wal) = 0 /\ Full
<1>1. wal = <<>> /\ Committed(wal) \in 0..Len(wal)
  BY CommittedIs DEF WalInv
<1> QED  BY <1>1 DEF Full, WalInv

\* An object is put under its name.
LEMMA WithIs ==
    ASSUME NEW n, shipped' = With(n)
    PROVE  /\ n \in shipped' /\ \A s \in shipped' : s \in shipped \/ s = n
           /\ \A s \in shipped : s \notin shipped' =>
                  s.gen = n.gen /\ s.epoch = n.epoch /\ s.from = n.from /\ (s.frames = <<>> <=> n.frames = <<>>)
<1>1. n \in shipped' /\ \A s \in shipped' : s \in shipped \/ s = n
  BY DEF With
<1>2. ASSUME NEW s \in shipped, s \notin shipped'
      PROVE  /\ s.gen = n.gen /\ s.epoch = n.epoch /\ s.from = n.from
             /\ (s.frames = <<>> <=> n.frames = <<>>)
  <2>1. ~(\/ <<s.gen, s.epoch, s.from>> # <<n.gen, n.epoch, n.from>>
          \/ ~(s.frames = <<>> <=> n.frames = <<>>))
    BY <1>2 DEF With
  <2>2. <<s.gen, s.epoch, s.from>> = <<n.gen, n.epoch, n.from>> /\ (s.frames = <<>> <=> n.frames = <<>>)
    BY <2>1
  <2>3. \A a, b, c, d, e, f : <<a, b, c>> = <<d, e, f>> => a = d /\ b = e /\ c = f
    OBVIOUS
  <2>4. s.gen = n.gen /\ s.epoch = n.epoch /\ s.from = n.from
    BY <2>2, <2>3, Zenon
  <2> QED  BY <2>2, <2>4, Zenon
<1> QED  BY <1>1, <1>2, Zenon

\* An object of the generation at hand is a segment like the others.
LEMMA PutIs ==
    ASSUME SinkInv, hold # NoHold, NEW n, shipped' = With(n), snaps' = snaps, epoch' = epoch,
           n.gen = gen, n.epoch \in Nat \ {0}, n.epoch <= epoch, n.from \in Nat,
           n.frames \in Seq(FrameType), n.frames # <<>> => n.frames[Len(n.frames)].commit
    PROVE  /\ \A s \in shipped' :
                  /\ s.gen \in Nat \ {0} /\ s.epoch \in Nat \ {0} /\ s.from \in Nat
                  /\ s.epoch <= epoch' /\ s.frames \in Seq(FrameType)
                  /\ s.frames # <<>> => s.frames[Len(s.frames)].commit
           /\ \E b \in Nat : (\A g \in DOMAIN snaps' : g <= b) /\ \A s \in shipped' : s.gen <= b
<1>1. gen \in Nat \ {0} /\ (\A g \in DOMAIN snaps : g <= gen)
  BY DEF SinkInv
<1>2. \A s \in shipped' : s \in shipped \/ s = n
  BY WithIs
<1>3. \A s \in shipped' :
         /\ s.gen \in Nat \ {0} /\ s.epoch \in Nat \ {0} /\ s.from \in Nat
         /\ s.epoch <= epoch' /\ s.frames \in Seq(FrameType)
         /\ s.frames # <<>> => s.frames[Len(s.frames)].commit
  <2> TAKE s \in shipped'
  <2>1. CASE s \in shipped
    BY <2>1, SegmentTypes
  <2>2. CASE s = n
    BY <1>1, <2>2
  <2> QED  BY <1>2, <2>1, <2>2
<1>4. \E b \in Nat : (\A g \in DOMAIN snaps' : g <= b) /\ \A s \in shipped' : s.gen <= b
  <2>1. PICK b \in Nat : (\A g \in DOMAIN snaps : g <= b) /\ \A s \in shipped : s.gen <= b
    BY DEF SinkInv
  <2>2. \A s \in shipped : s.gen \in Nat
    BY SegmentTypes
  <2>3. CASE gen <= b
    BY <1>2, <2>1, <2>3
  <2>4. CASE b < gen
    <3>1. \A s \in shipped' : s.gen <= gen
      BY <1>1, <1>2, <2>1, <2>2, <2>4
    <3> QED  BY <1>1, <3>1
  <2> QED  BY <1>1, <2>1, <2>3, <2>4
<1> QED  BY <1>3, <1>4

\* A header in the sink changes nothing that is restored.
LEMMA HeaderPut ==
    ASSUME SinkInv, hold # NoHold, epoch \in Nat \ {0}, shipped' = With(Segment(gen, epoch, 0, <<>>)),
           snaps' = snaps, epoch' = epoch
    PROVE  /\ \A g : Segments(g)' = Segments(g)
           /\ \A g, e : HeaderOf(g, e) \in shipped => HeaderOf(g, e) \in shipped'
           /\ HeaderOf(gen, epoch) \in shipped'
           /\ \A s \in shipped' :
                  /\ s.gen \in Nat \ {0} /\ s.epoch \in Nat \ {0} /\ s.from \in Nat
                  /\ s.epoch <= epoch' /\ s.frames \in Seq(FrameType)
                  /\ s.frames # <<>> => s.frames[Len(s.frames)].commit
           /\ \E b \in Nat : (\A g \in DOMAIN snaps' : g <= b) /\ \A s \in shipped' : s.gen <= b
<1> DEFINE n == Segment(gen, epoch, 0, <<>>)
<1>1. n.gen = gen /\ n.epoch = epoch /\ n.from = 0 /\ n.frames = <<>>
  BY DEF Segment
<1>2. /\ n \in shipped' /\ \A s \in shipped' : s \in shipped \/ s = n
      /\ \A s \in shipped : s \notin shipped' =>
                  s.gen = n.gen /\ s.epoch = n.epoch /\ s.from = n.from /\ (s.frames = <<>> <=> n.frames = <<>>)
  <2> HIDE DEF n
  <2>1. shipped' = With(n)
    BY DEF n
  <2> QED  BY <2>1, WithIs
<1>3. \A g : Segments(g)' = Segments(g)
  <2> HIDE DEF n
  <2> QED  BY <1>1, <1>2 DEF Segments
<1>4. \A g, e : HeaderOf(g, e) \in shipped => HeaderOf(g, e) \in shipped'
  <2> TAKE g, e
  <2>1. CASE g = gen /\ e = epoch
    BY <1>2, <2>1 DEF HeaderOf
  <2>2. CASE ~(g = gen /\ e = epoch)
    <3>1. HeaderOf(g, e).gen = g /\ HeaderOf(g, e).epoch = e
      BY DEF HeaderOf, Segment
    <3> HIDE DEF n
    <3> QED  BY <1>1, <1>2, <2>2, <3>1
  <2> QED  BY <2>1, <2>2
<1>5. HeaderOf(gen, epoch) \in shipped'
  BY <1>2 DEF HeaderOf
<1>6. <<>> \in Seq(FrameType)
  OBVIOUS
<1>7. /\ \A s \in shipped' :
             /\ s.gen \in Nat \ {0} /\ s.epoch \in Nat \ {0} /\ s.from \in Nat
             /\ s.epoch <= epoch' /\ s.frames \in Seq(FrameType)
             /\ s.frames # <<>> => s.frames[Len(s.frames)].commit
      /\ \E b \in Nat : (\A g \in DOMAIN snaps' : g <= b) /\ \A s \in shipped' : s.gen <= b
  <2>1. shipped' = With(n)
    OBVIOUS
  <2> HIDE DEF n
  <2>2. n.epoch \in Nat \ {0} /\ n.epoch <= epoch /\ n.from \in Nat /\ n.frames \in Seq(FrameType)
        /\ ~(n.frames # <<>>)
    BY <1>1, <1>6
  <2> QED  BY <1>1, <2>1, <2>2, PutIs
<1> QED  BY <1>3, <1>4, <1>5, <1>7

\* The header is compared, a new one shipped, or a gap found.
LEMMA HeaderKeeps ==
    ASSUME Inv, Header
    PROVE  Inv'
<1>s. WalInv /\ HoldInv /\ EpochInv /\ SinkInv /\ ImageInv /\ CopyInv /\ CountInv /\ ConsistentPrefix
      /\ settled \subseteq taken
  BY DEF Inv, SinkInv
<1>1. UNCHANGED walVars /\ UNCHANGED <<gen, copied, snaps, started, synced, taken>>
      /\ pc = "header" /\ hold # NoHold
  BY <1>s DEF Header, HoldInv
<1>4. /\ UNCHANGED <<file, epoch, wal, filled, txns>> /\ WalInv' /\ FileInv' /\ Latest' = Latest
      /\ \A k : State(k)' = State(k)
      /\ \A q, v, fixed : Follows(q, v, fixed)' = Follows(q, v, fixed)
  BY <1>1, WalStays DEF Inv
<1>5. CountInv'
  BY <1>s, <1>1, <1>4 DEF CountInv
<1>7. Stored' <=> Stored
  BY <1>1 DEF Stored
<1>8. CASE epoch = 0 /\ pc' = Onward /\ Settles /\ UNCHANGED <<hold, locked, hdr, offset, next, shipped>>
  <2>1. Committed(wal) = 0 /\ Full
    BY <1>s, <1>8, EmptyWal
  <2>2. pc' \in {"size", "swap"} /\ (pc' = "swap" => locked) /\ (pc' = "size" => ~locked)
    BY <1>8 DEF Onward
  <2>3. ASSUME Stored
        PROVE  Image(gen) = Latest /\ \E k \in started..Len(txns) : Image(gen) = State(k)
    <3>1. \A p \in Pages : Image(gen)[p] = Latest[p]
      BY <1>s, <1>1, <2>1, <2>3, NewestNone DEF ImageInv, Follows
    <3> QED  BY <1>s, <3>1, LatestIs
  <2>i. (\A g : Image(g)' = Image(g)) /\ Restored' = Restored
    BY <1>1, <1>8, ImageStays DEF sinkVars
  <2>4. ConsistentPrefix' /\ settled' \subseteq taken
    <3>1. Stored => \E k \in started..Len(txns) : Restored' = State(k)
      BY <1>s, <1>1, <2>i, <2>3, NewestGeneration
    <3> QED  BY <1>s, <1>1, <1>4, <1>8, <2>i, <3>1, SettlesKeeps
  <2>5. HoldInv'
    BY <1>s, <1>1, <1>4, <1>8, <2>2 DEF HoldInv, Open
  <2>6. EpochInv'
    BY <1>s, <1>1, <1>4, <1>7, <1>8, <2>2 DEF EpochInv
  <2>7. SinkInv'
    BY <1>s, <1>1, <1>4, <1>8, <2>2, <2>4, SinkInvStays
  <2>8. ImageInv'
    BY <1>s, <1>1, <1>4, <1>7, <1>8, <2>i, <2>2, <2>3 DEF ImageInv
  <2>9. CopyInv'
    BY <1>s, <1>1, <1>4, <2>2 DEF CopyInv
  <2> QED  BY <1>4, <1>5, <2>4, <2>5, <2>6, <2>7, <2>8, <2>9 DEF Inv
<1>9. CASE /\ epoch > 0 /\ epoch = hdr /\ pc' = "frames"
           /\ UNCHANGED <<hold, locked, hdr, offset, next, shipped, settled>>
  <2>i. (\A g : Image(g)' = Image(g)) /\ Restored' = Restored
    BY <1>1, <1>9, ImageStays DEF sinkVars
  <2>1. HoldInv' /\ CopyInv'
    BY <1>s, <1>1, <1>4, <1>9 DEF HoldInv, CopyInv, Open
  <2>2. EpochInv'
    BY <1>s, <1>1, <1>4, <1>7, <1>9 DEF EpochInv
  <2>3. SinkInv'
    BY <1>s, <1>1, <1>4, <1>9, SinkInvStays
  <2>4. ImageInv'
    BY <1>s, <1>1, <1>4, <1>7, <1>9, <2>i DEF ImageInv
  <2>5. ConsistentPrefix'
    BY <1>s, <1>1, <1>4, <1>9, <2>i, PrefixStays
  <2> QED  BY <1>4, <1>5, <2>1, <2>2, <2>3, <2>4, <2>5 DEF Inv
<1>10. CASE /\ Gap /\ pc' = "list" /\ next' = Onward /\ hold' = NoHold
            /\ UNCHANGED <<locked, hdr, offset, shipped, settled>>
  <2>i. (\A g : Image(g)' = Image(g)) /\ Restored' = Restored
    BY <1>1, <1>10, ImageStays DEF sinkVars
  <2>1. ~locked
    BY <1>s, <1>1, <1>10 DEF Gap, EpochInv
  <2>2. next' = "size"
    BY <1>10, <2>1 DEF Onward
  <2>3. HoldInv' /\ CopyInv'
    BY <1>s, <1>1, <1>4, <1>10, <2>1, <2>2 DEF HoldInv, CopyInv, Open
  <2>4. EpochInv'
    BY <1>s, <1>1, <1>4, <1>7, <1>10 DEF EpochInv
  <2>5. SinkInv'
    BY <1>s, <1>1, <1>4, <1>10, SinkInvStays
  <2>6. ImageInv'
    BY <1>10 DEF ImageInv
  <2>7. ConsistentPrefix'
    BY <1>s, <1>1, <1>4, <1>10, <2>i, PrefixStays
  <2> QED  BY <1>4, <1>5, <2>3, <2>4, <2>5, <2>6, <2>7 DEF Inv
<1>11. CASE epoch \notin {0, hdr} /\ shipped' = With(Segment(gen, epoch, 0, <<>>))
            /\ UNCHANGED <<hold, next, settled>>
            /\ \/ hdr' = epoch /\ offset' = 0 /\ pc' = "frames" /\ UNCHANGED locked
               \/ UNCHANGED <<hdr, offset>> /\ pc' = "idle" /\ locked' = FALSE
  <2>1. hdr < epoch /\ hdr \in Nat /\ epoch \in Nat \ {0}
    BY <1>s, <1>11 DEF EpochInv, WalInv
  <2>i. /\ \A g : Segments(g)' = Segments(g)
        /\ \A g, e : HeaderOf(g, e) \in shipped => HeaderOf(g, e) \in shipped'
        /\ HeaderOf(gen, epoch) \in shipped'
        /\ \A s \in shipped' :
               /\ s.gen \in Nat \ {0} /\ s.epoch \in Nat \ {0} /\ s.from \in Nat
               /\ s.epoch <= epoch' /\ s.frames \in Seq(FrameType)
               /\ s.frames # <<>> => s.frames[Len(s.frames)].commit
        /\ \E b \in Nat : (\A g \in DOMAIN snaps' : g <= b) /\ \A s \in shipped' : s.gen <= b
    BY <1>s, <1>1, <1>4, <1>11, <2>1, HeaderPut
  <2>j. /\ \A g \in taken : Image(g)' = Image(g)
        /\ Max(DOMAIN snaps) \in settled => Restored' = Restored
    BY <1>s, <1>1, <2>i, SinkStays
  <2>2. HoldInv' /\ CopyInv'
    <3>1. \/ pc' = "frames" /\ locked' = locked
          \/ pc' = "idle" /\ locked' = FALSE
      BY <1>11
    <3>2. HoldInv'
      <4>1. CASE pc' = "frames" /\ locked' = locked
        BY <1>s, <1>1, <1>4, <1>11, <4>1 DEF HoldInv, Open
      <4>2. CASE pc' = "idle" /\ locked' = FALSE
        BY <1>s, <1>1, <1>4, <1>11, <4>2 DEF HoldInv, Open
      <4> QED  BY <3>1, <4>1, <4>2
    <3>3. CopyInv'
      BY <1>s, <1>1, <1>4, <3>1 DEF CopyInv
    <3> QED  BY <3>2, <3>3
  <2>3. EpochInv'
    <3>1. Committed(wal) \in Nat
      BY <1>s, CommittedIs DEF WalInv
    <3>2. CASE hdr' = epoch /\ offset' = 0 /\ pc' = "frames" /\ UNCHANGED locked
      BY <1>s, <1>1, <1>4, <1>11, <2>1, <3>1, <3>2 DEF EpochInv
    <3>3. CASE UNCHANGED <<hdr, offset>> /\ pc' = "idle" /\ locked' = FALSE
      BY <1>s, <1>1, <1>4, <1>7, <1>11, <2>1, <3>3 DEF EpochInv
    <3> QED  BY <1>11, <3>2, <3>3
  <2>h. \A g, e : HeaderOf(g, e)' = HeaderOf(g, e)
    BY DEF HeaderOf
  <2>t. Stored' => TailInv'
    <3> SUFFICES ASSUME Stored' PROVE TailInv'
      OBVIOUS
    <3>1. TailInv
      BY <1>s, <1>7, Zenon DEF SinkInv
    <3>2. CASE hdr' = epoch /\ offset' = 0
      <4>1. \A s \in Segments(gen) : s.epoch \in Nat /\ s.epoch <= hdr
        BY <1>s, <3>1, SegmentTypes DEF TailInv, Segments
      <4>2. \A s \in Segments(gen)' : s.epoch <= hdr' /\ s.epoch # hdr'
        BY <1>1, <2>i, <2>1, <3>2, <4>1
      <4>3. HeaderOf(gen, hdr)' \in shipped' /\ ~(offset' # 0)
        BY <1>1, <2>i, <2>h, <3>2
      <4> QED  BY <4>2, <4>3, Zenon DEF TailInv
    <3>3. CASE UNCHANGED <<hdr, offset>>
      <4>1. HeaderOf(gen, hdr)' = HeaderOf(gen, hdr) /\ Segments(gen)' = Segments(gen)
            /\ UNCHANGED <<hdr, offset, epoch, wal>>
        BY <1>1, <1>4, <2>h, <2>i, <3>3 DEF HeaderOf
      <4> QED  BY <2>i, <3>1, <4>1 DEF TailInv
    <3> QED  BY <1>11, <3>2, <3>3
  <2>4. SinkInv'
    <3>1. /\ DOMAIN snaps' \subseteq Nat \ {0} /\ (snaps' = <<>> \/ DOMAIN snaps' # {})
          /\ settled' \subseteq taken' /\ taken' \subseteq DOMAIN snaps' /\ gen' \in Nat
          /\ \A g \in DOMAIN snaps' : snaps'[g] \in [Pages -> 0..Len(txns)']
          /\ hold' # NoHold => gen' # 0 /\ \A g \in DOMAIN snaps' : g <= gen'
          /\ pc' # "copy"
      BY <1>s, <1>1, <1>4, <1>11 DEF SinkInv
    <3>2. \A g \in taken' : \A t \in Segments(g)' :
             /\ HeaderOf(g, t.epoch)' \in shipped'
             /\ t.from = 0 \/ \E s \in Segments(g)' : s.epoch = t.epoch /\ s.from + Len(s.frames) = t.from
      <4>1. \A g \in taken : \A t \in Segments(g) :
               /\ HeaderOf(g, t.epoch) \in shipped
               /\ t.from = 0 \/ \E s \in Segments(g) : s.epoch = t.epoch /\ s.from + Len(s.frames) = t.from
        BY <1>s, Zenon DEF SinkInv
      <4>2. taken' = taken
        BY <1>1
      <4> QED  BY <2>h, <2>i, <4>1, <4>2
    <3> QED  BY <2>i, <2>t, <3>1, <3>2 DEF SinkInv
  <2>5. ImageInv'
    <3> SUFFICES ASSUME Stored PROVE ImageInv'
      BY <1>7 DEF ImageInv
    <3>1. Image(gen)' = Image(gen) /\ \A p \in Pages : Follows(p, Image(gen)[p], hold = FileHold)
      BY <1>s, <1>1, <2>j DEF ImageInv, Stored
    <3>2. CASE hdr' = epoch /\ offset' = 0 /\ pc' = "frames"
      <4>1. 0 \in offset'..Committed(wal') /\ \A p, v : Newest(p, wal', 0, v) = v
        BY <1>s, <1>4, <3>2, CommittedIs, NewestNone DEF WalInv
      <4> QED  BY <1>1, <1>4, <1>11, <3>1, <3>2, <4>1 DEF ImageInv
    <3>3. CASE UNCHANGED <<hdr, offset>> /\ pc' = "idle"
      <4>1. hdr' # epoch'
        BY <1>4, <1>11, <3>3
      <4> QED  BY <1>1, <1>4, <1>11, <3>1, <3>3, <4>1 DEF ImageInv
    <3> QED  BY <1>11, <3>2, <3>3
  <2>6. ConsistentPrefix'
    BY <1>s, <1>1, <1>4, <1>11, <2>j, PrefixStays
  <2> QED  BY <1>4, <1>5, <2>2, <2>3, <2>4, <2>5, <2>6 DEF Inv
<1>12. CASE /\ pc' = "idle" /\ locked' = FALSE
            /\ UNCHANGED <<hold, hdr, offset, next, shipped, settled>>
  <2>i. (\A g : Image(g)' = Image(g)) /\ Restored' = Restored
    BY <1>1, <1>12, ImageStays DEF sinkVars
  <2>1. HoldInv' /\ CopyInv'
    BY <1>s, <1>1, <1>4, <1>12 DEF HoldInv, CopyInv, Open
  <2>2. EpochInv'
    BY <1>s, <1>1, <1>4, <1>7, <1>12 DEF EpochInv
  <2>3. SinkInv'
    BY <1>s, <1>1, <1>4, <1>12, SinkInvStays
  <2>4. ImageInv'
    BY <1>s, <1>1, <1>4, <1>7, <1>12, <2>i DEF ImageInv
  <2>5. ConsistentPrefix'
    BY <1>s, <1>1, <1>4, <1>12, <2>i, PrefixStays
  <2> QED  BY <1>4, <1>5, <2>1, <2>2, <2>3, <2>4, <2>5 DEF Inv
<1>13. \/ epoch = 0 /\ pc' = Onward /\ Settles /\ UNCHANGED <<hold, locked, hdr, offset, next, shipped>>
       \/ /\ epoch > 0 /\ epoch = hdr /\ pc' = "frames"
          /\ UNCHANGED <<hold, locked, hdr, offset, next, shipped, settled>>
       \/ /\ Gap /\ pc' = "list" /\ next' = Onward /\ hold' = NoHold
          /\ UNCHANGED <<locked, hdr, offset, shipped, settled>>
       \/ /\ epoch \notin {0, hdr} /\ UNCHANGED <<hold, next, settled>>
          /\ \/ /\ shipped' = With(Segment(gen, epoch, 0, <<>>))
                /\ hdr' = epoch /\ offset' = 0 /\ pc' = "frames" /\ UNCHANGED locked
             \/ /\ shipped' \in {shipped, With(Segment(gen, epoch, 0, <<>>))}
                /\ UNCHANGED <<hdr, offset>> /\ pc' = "idle" /\ locked' = FALSE
  BY DEF Header, Fails, Goes
<1> QED  BY <1>8, <1>9, <1>10, <1>11, <1>12, <1>13

\* What putting all frames from where shipping stands does to the segments: it replaces what a
\* failed Put left there.
LEMMA FramesPut ==
    ASSUME WalInv, EpochInv, SinkInv, hold # NoHold, hdr = epoch, offset < Committed(wal),
           UNCHANGED <<snaps, epoch, gen>>,
           NEW n, n = Segment(gen, hdr, offset, SubSeq(wal, offset + 1, Committed(wal))),
           shipped' = With(n)
    PROVE  /\ n.gen = gen /\ n.epoch = hdr /\ n.from = offset /\ n.frames \in Seq(FrameType)
           /\ Len(n.frames) = Committed(wal) - offset
           /\ \A i \in 1..(Committed(wal) - offset) : n.frames[i] = wal[offset + i]
           /\ \A g : g # gen => Segments(g)' = Segments(g)
           /\ \A s : s \in Segments(gen)' <=>
                        s = n \/ (s \in Segments(gen) /\ ~(s.epoch = hdr /\ s.from = offset))
           /\ \A g, e : HeaderOf(g, e) \in shipped => HeaderOf(g, e) \in shipped'
           /\ \A s \in shipped' :
                  /\ s.gen \in Nat \ {0} /\ s.epoch \in Nat \ {0} /\ s.from \in Nat
                  /\ s.epoch <= epoch' /\ s.frames \in Seq(FrameType)
                  /\ s.frames # <<>> => s.frames[Len(s.frames)].commit
           /\ \E b \in Nat : (\A g \in DOMAIN snaps' : g <= b) /\ \A s \in shipped' : s.gen <= b
<1> DEFINE c == Committed(wal)
<1>1. /\ wal \in Seq(FrameType) /\ c \in 0..Len(wal) /\ offset \in 0..c /\ offset < c
      /\ Len(wal) \in Nat /\ hdr \in Nat /\ wal[c].commit
  BY CommittedIs DEF WalInv, EpochInv
<1>2. /\ n.gen = gen /\ n.epoch = hdr /\ n.from = offset
      /\ n.frames = SubSeq(wal, offset + 1, c)
  BY DEF Segment
<1>3. /\ n.frames \in Seq(FrameType) /\ Len(n.frames) = c - offset
      /\ \A i \in 1..(c - offset) : n.frames[i] = wal[offset + i]
  <2>1. SubSeq(wal, offset + 1, c) \in Seq(FrameType) /\ Len(SubSeq(wal, offset + 1, c)) = c - offset
        /\ \A i \in 1..(c - offset) : SubSeq(wal, offset + 1, c)[i] = wal[offset + i]
    <3> HIDE DEF c
    <3> QED  BY <1>1
  <2> QED  BY <1>2, <2>1
<1>4. n.frames # <<>> /\ n.frames[Len(n.frames)].commit
  <2>1. Len(n.frames) \in 1..(c - offset) /\ offset + Len(n.frames) = c
    <3> HIDE DEF c
    <3> QED  BY <1>1, <1>3
  <2>2. n.frames[Len(n.frames)] = wal[c]
    BY <1>3, <2>1
  <2>3. n.frames # <<>>
    BY <1>3, <2>1
  <2> QED  BY <1>1, <2>2, <2>3
<1>5. /\ n \in shipped' /\ \A s \in shipped' : s \in shipped \/ s = n
      /\ \A s \in shipped : s \notin shipped' =>
             s.gen = n.gen /\ s.epoch = n.epoch /\ s.from = n.from /\ (s.frames = <<>> <=> n.frames = <<>>)
  BY WithIs
<1>6. \A g : g # gen => Segments(g)' = Segments(g)
  BY <1>2, <1>5 DEF Segments
<1>7. \A g, e : HeaderOf(g, e) \in shipped => HeaderOf(g, e) \in shipped'
  <2> TAKE g, e
  <2>1. HeaderOf(g, e).frames = <<>>
    BY DEF HeaderOf, Segment
  <2> QED  BY <1>4, <1>5, <2>1
<1>8. \A s : s \in Segments(gen)' <=>
                s = n \/ (s \in Segments(gen) /\ ~(s.epoch = hdr /\ s.from = offset))
  <2>1. \A s : s \in shipped' /\ s # n => s \in shipped
               /\ (<<s.gen, s.epoch, s.from>> # <<gen, hdr, offset>> \/ s.frames = <<>>)
    BY <1>2, <1>4, Zenon DEF With
  <2>2. \A a, b, d, x, y, z : <<a, b, d>> = <<x, y, z>> <=> a = x /\ b = y /\ d = z
    OBVIOUS
  <2>3. \A s : s \in shipped' /\ s # n => s \in shipped
               /\ (~(s.gen = gen /\ s.epoch = hdr /\ s.from = offset) \/ s.frames = <<>>)
    BY <2>1, <2>2, Zenon
  <2>5. \A s : s \in Segments(gen) <=> s \in shipped /\ s.gen = gen /\ s.frames # <<>>
    BY DEF Segments
  <2>6. \A s : s \in {t \in shipped' : t.gen = gen /\ t.frames # <<>>} <=>
                  s = n \/ (s \in Segments(gen) /\ ~(s.epoch = hdr /\ s.from = offset))
    <3> TAKE s
    <3>1. CASE s = n
      BY <1>2, <1>4, <1>5, <3>1
    <3>2. CASE s # n
      BY <1>2, <1>4, <1>5, <2>3, <2>5, <3>2
    <3> QED  BY <3>1, <3>2
  <2> QED  BY <2>6 DEF Segments
<1>9. /\ \A s \in shipped' :
             /\ s.gen \in Nat \ {0} /\ s.epoch \in Nat \ {0} /\ s.from \in Nat
             /\ s.epoch <= epoch' /\ s.frames \in Seq(FrameType)
             /\ s.frames # <<>> => s.frames[Len(s.frames)].commit
      /\ \E b \in Nat : (\A g \in DOMAIN snaps' : g <= b) /\ \A s \in shipped' : s.gen <= b
  <2>1. epoch \in Nat \ {0} /\ offset \in Nat
    <3>1. epoch = 0 => wal = <<>>
      BY DEF WalInv
    <3>2. epoch # 0
      BY <1>1, <3>1
    <3> QED  BY <1>1, <3>2
  <2>2. n.epoch \in Nat \ {0} /\ n.epoch <= epoch /\ n.from \in Nat
    BY <1>2, <2>1
  <2> QED  BY <1>2, <1>3, <1>4, <2>2, PutIs
<1> QED  BY <1>2, <1>3, <1>6, <1>7, <1>8, <1>9

\* A segment of all frames from where shipping stands leaves every page as the WAL has it.
LEMMA ShippedImage ==
    ASSUME WalInv, EpochInv, SinkInv, ImageInv, Stored, hold # NoHold, hdr = epoch,
           offset < Committed(wal), UNCHANGED <<snaps, epoch, gen>>,
           shipped' = With(Segment(gen, hdr, offset, SubSeq(wal, offset + 1, Committed(wal))))
    PROVE  /\ \A t \in Segments(gen)' :
                  /\ HeaderOf(gen, t.epoch) \in shipped'
                  /\ t.from = 0 \/
                         \E s \in Segments(gen)' : s.epoch = t.epoch /\ s.from + Len(s.frames) = t.from
           /\ \A s \in Segments(gen)' :
                  /\ s.epoch <= hdr
                  /\ s.epoch = hdr =>
                        \/ s.from + Len(s.frames) <= offset
                        \/ /\ s.from = offset /\ offset + Len(s.frames) = Committed(wal)
                           /\ \A i \in 1..Len(s.frames) : s.frames[i] = wal[offset + i]
           /\ \E s \in Segments(gen)' : s.epoch = hdr /\ s.from + Len(s.frames) = Committed(wal)
           /\ offset # 0 => \E s \in Segments(gen)' : s.epoch = hdr /\ s.from + Len(s.frames) = offset
           /\ \A p \in Pages : Image(gen)'[p] = Latest[p]
<1> DEFINE c == Committed(wal)
           R == {s \in Segments(gen) : ~(s.epoch = hdr /\ s.from = offset)}
<1>1. wal \in Seq(FrameType) /\ c \in 0..Len(wal) /\ offset \in 0..c /\ offset < c /\ Len(wal) \in Nat
      /\ hdr \in Nat
  BY CommittedIs DEF WalInv, EpochInv
<1>n. PICK n : n = Segment(gen, hdr, offset, SubSeq(wal, offset + 1, Committed(wal)))
  OBVIOUS
<1>2. /\ n.gen = gen /\ n.epoch = hdr /\ n.from = offset /\ n.frames \in Seq(FrameType)
      /\ Len(n.frames) = c - offset
      /\ \A i \in 1..(c - offset) : n.frames[i] = wal[offset + i]
      /\ \A s : s \in Segments(gen)' <=>
                   s = n \/ (s \in Segments(gen) /\ ~(s.epoch = hdr /\ s.from = offset))
      /\ \A g, e : HeaderOf(g, e) \in shipped => HeaderOf(g, e) \in shipped'
  BY <1>n, FramesPut
<1>3. Len(n.frames) \in Nat \ {0} /\ offset + Len(n.frames) = c
  <2> HIDE DEF c
  <2> QED  BY <1>1, <1>2
<1>4. TailInv
  BY Zenon DEF SinkInv
<1>5. Segments(gen)' = R \cup {n}
  BY <1>2
<1>6. \A s \in Segments(gen) :
         /\ s.epoch \in Nat /\ s.from \in Nat /\ Len(s.frames) \in Nat \ {0}
         /\ s.frames \in Seq(FrameType) /\ HeaderOf(gen, s.epoch) \in shipped
         /\ s.from = 0 \/ \E r \in Segments(gen) : r.epoch = s.epoch /\ r.from + Len(r.frames) = s.from
  <2>1. \A s \in Segments(gen) : s \in shipped /\ s.frames # <<>>
    BY DEF Segments
  <2>2. \A s \in Segments(gen) :
           /\ HeaderOf(gen, s.epoch) \in shipped
           /\ s.from = 0 \/ \E r \in Segments(gen) : r.epoch = s.epoch /\ r.from + Len(r.frames) = s.from
    BY Zenon DEF SinkInv, Stored
  <2> QED  BY <2>1, <2>2, SegmentTypes
<1>7. \A s \in R : s.epoch <= hdr /\ (s.epoch = hdr => s.from + Len(s.frames) <= offset)
  BY <1>4 DEF TailInv
<1>8. ASSUME NEW s \in Segments(gen), s \notin R
      PROVE  /\ s.epoch = hdr /\ s.from = offset /\ offset + Len(s.frames) <= c
             /\ \A i \in 1..Len(s.frames) : s.frames[i] = wal[offset + i]
  <2>1. s.epoch = hdr /\ s.from = offset
    BY <1>8
  <2>2. ~(s.from + Len(s.frames) <= offset)
    <3> HIDE DEF c
    <3> QED  BY <1>1, <1>6, <2>1
  <2> QED  BY <1>4, <2>1, <2>2 DEF TailInv
<1>9. \A s \in R : Before(s, n) /\ ~Before(n, s)
  <2> TAKE s \in R
  <2>1. s.epoch \in Nat /\ s.from \in Nat /\ Len(s.frames) \in Nat \ {0}
        /\ s.epoch <= hdr /\ (s.epoch = hdr => s.from + Len(s.frames) <= offset)
    BY <1>6, <1>7
  <2>2. offset \in Nat /\ hdr \in Nat
    BY <1>1
  <2> QED  BY <1>2, <2>1, <2>2 DEF Before
<1>10. /\ \A s \in Segments(gen)' :
              /\ s.epoch <= hdr
              /\ s.epoch = hdr =>
                    \/ s.from + Len(s.frames) <= offset
                    \/ /\ s.from = offset /\ offset + Len(s.frames) = c
                       /\ \A i \in 1..Len(s.frames) : s.frames[i] = wal[offset + i]
       /\ \E s \in Segments(gen)' : s.epoch = hdr /\ s.from + Len(s.frames) = c
  <2>1. \A i \in 1..Len(n.frames) : n.frames[i] = wal[offset + i]
    BY <1>2
  <2> HIDE DEF R, c
  <2>2. hdr <= hdr
    BY <1>1
  <2> QED  BY <1>2, <1>3, <1>5, <1>7, <2>1, <2>2
<1>11. offset # 0 => \E s \in R : s.epoch = hdr /\ s.from + Len(s.frames) = offset
  <2> SUFFICES ASSUME offset # 0 PROVE \E s \in R : s.epoch = hdr /\ s.from + Len(s.frames) = offset
    OBVIOUS
  <2>1. PICK s \in Segments(gen) : s.epoch = hdr /\ s.from + Len(s.frames) = offset
    BY <1>4 DEF TailInv
  <2>2. s.from # offset
    <3> HIDE DEF R, c
    <3> QED  BY <1>1, <1>6, <2>1
  <2> QED  BY <2>1, <2>2
<1>12. \A t \in Segments(gen)' :
          /\ HeaderOf(gen, t.epoch) \in shipped'
          /\ t.from = 0 \/ \E s \in Segments(gen)' : s.epoch = t.epoch /\ s.from + Len(s.frames) = t.from
  <2>1. n.from = 0 \/ \E s \in R : s.epoch = n.epoch /\ s.from + Len(s.frames) = n.from
    BY <1>2, <1>11
  <2>2. HeaderOf(gen, n.epoch) \in shipped'
    <3>1. hdr # 0
      <4>1. epoch = 0 => wal = <<>>
        BY DEF WalInv
      <4> QED  BY <1>1, <4>1
    <3> QED  BY <1>2, <1>4, <3>1 DEF TailInv
  <2>3. ASSUME NEW t \in R
        PROVE  t.from = 0 \/ \E s \in R : s.epoch = t.epoch /\ s.from + Len(s.frames) = t.from
    <3> SUFFICES ASSUME t.from # 0
                 PROVE  \E s \in R : s.epoch = t.epoch /\ s.from + Len(s.frames) = t.from
      OBVIOUS
    <3>1. PICK s \in Segments(gen) : s.epoch = t.epoch /\ s.from + Len(s.frames) = t.from
      BY <1>6
    <3>2. s \in R
      <4> SUFFICES ASSUME s \notin R PROVE FALSE
        OBVIOUS
      <4>1. s.epoch = hdr /\ s.from = offset
        BY <1>8
      <4>2. t.epoch = hdr /\ t.from + Len(t.frames) <= offset
        BY <1>7, <3>1, <4>1
      <4>3. Len(s.frames) \in Nat \ {0} /\ Len(t.frames) \in Nat \ {0} /\ t.from \in Nat
        BY <1>6
      <4> HIDE DEF R, c
      <4> QED  BY <1>1, <3>1, <4>1, <4>2, <4>3
    <3> QED  BY <3>1, <3>2
  <2>4. \A t \in R : HeaderOf(gen, t.epoch) \in shipped'
    BY <1>2, <1>6
  <2> HIDE DEF R
  <2> QED  BY <1>5, <2>1, <2>2, <2>3, <2>4
<1>13. Image(gen)' = Applied(snaps[gen], R \cup {n})
  <2>1. Replayed(gen)' = Joined(Headed(gen)')
    <3>1. Headed(gen)' = {s \in shipped' : /\ s.gen = gen /\ s.frames # <<>>
                                           /\ Segment(gen, s.epoch, 0, <<>>) \in shipped'}
      BY DEF Headed, Segments, HeaderOf
    <3> QED  BY <3>1 DEF Replayed, Joined
  <2>2. Headed(gen)' = {s \in Segments(gen)' : HeaderOf(gen, s.epoch) \in shipped'}
    BY DEF Headed, HeaderOf
  <2>3. Headed(gen)' = R \cup {n}
    <3> HIDE DEF R
    <3> QED  BY <1>5, <1>12, <2>2
  <2>4. Joined(R \cup {n}) = R \cup {n}
    <3> HIDE DEF R
    <3> QED  BY <1>5, <1>12 DEF Joined
  <2>5. Replayed(gen)' = R \cup {n} /\ snaps'[gen'] = snaps[gen]
    BY <2>1, <2>3, <2>4
  <2> HIDE DEF R
  <2> QED  BY <2>5 DEF Image, Applied
<1>14. Image(gen) = Applied(snaps[gen], Segments(gen))
  BY AllReplayed DEF Image, Stored
<1>15. ASSUME NEW p \in Pages PROVE Image(gen)'[p] = Latest[p]
  <2> DEFINE Writing(T) == {s \in T : \E i \in DOMAIN s.frames : s.frames[i].page = p}
             Last(T) == CHOOSE s \in Writing(T) : \A t \in Writing(T) : Before(t, s)
             v == Image(gen)[p]
  <2>m. PICK m \in offset..c : Newest(p, wal, m, v) = v
    BY DEF ImageInv
  <2>1. Newest(p, wal, c, v) = Latest[p]
    BY DEF ImageInv, Follows
  <2>2. \A T : Applied(snaps[gen], T)[p] = IF Writing(T) = {} THEN snaps[gen][p]
               ELSE Newest(p, Last(T).frames, Len(Last(T).frames), 0)
    BY DEF Applied
  <2>3. CASE \A i \in (offset + 1)..c : wal[i].page # p
    <3>1. Writing(R \cup {n}) = Writing(R)
      <4>1. ~ \E i \in DOMAIN n.frames : n.frames[i].page = p
        <5> HIDE DEF c
        <5>1. DOMAIN n.frames = 1..(c - offset)
          BY <1>1, <1>2
        <5>2. ASSUME NEW i \in 1..(c - offset) PROVE n.frames[i].page # p
          <6>1. offset + i \in (offset + 1)..c
            BY <1>1
          <6> QED  BY <1>2, <2>3, <6>1
        <5> QED  BY <5>1, <5>2
      <4> HIDE DEF R
      <4> QED  BY <4>1
    <3>2. Writing(Segments(gen)) = Writing(R)
      <4>1. ASSUME NEW s \in Segments(gen), s \notin R
            PROVE  ~ \E i \in DOMAIN s.frames : s.frames[i].page = p
        <5>1. /\ offset + Len(s.frames) <= c /\ Len(s.frames) \in Nat
              /\ \A i \in 1..Len(s.frames) : s.frames[i] = wal[offset + i]
          BY <1>6, <1>8, <4>1
        <5>2. DOMAIN s.frames = 1..Len(s.frames)
          BY <1>6
        <5> HIDE DEF c, R
        <5>3. ASSUME NEW i \in 1..Len(s.frames) PROVE s.frames[i].page # p
          <6>1. offset + i \in (offset + 1)..c
            BY <1>1, <5>1
          <6> QED  BY <2>3, <5>1, <6>1
        <5> QED  BY <5>2, <5>3
      <4>2. R \subseteq Segments(gen)
        OBVIOUS
      <4> HIDE DEF R
      <4> QED  BY <4>1, <4>2
    <3>3. Last(R \cup {n}) = Last(R) /\ Last(Segments(gen)) = Last(R)
      <4> HIDE DEF Writing, R
      <4> QED  BY <3>1, <3>2
    <3>4. Image(gen)'[p] = v
      <4> HIDE DEF Writing, Last, R
      <4> QED  BY <1>13, <1>14, <2>2, <3>1, <3>2, <3>3
    <3>5. {i \in 1..c : wal[i].page = p} = {i \in 1..m : wal[i].page = p}
      <4> HIDE DEF c
      <4> QED  BY <1>1, <2>3
    <3>6. Newest(p, wal, c, v) = Newest(p, wal, m, v)
      <4> HIDE DEF v, c
      <4> QED  BY <3>5 DEF Newest
    <3> HIDE DEF v, c
    <3> QED  BY <2>1, <2>m, <3>4, <3>6
  <2>4. CASE \E i \in (offset + 1)..c : wal[i].page = p
    <3>1. PICK i \in 1..(c - offset) : n.frames[i].page = p
      <4> HIDE DEF c
      <4>1. PICK j \in (offset + 1)..c : wal[j].page = p
        BY <2>4
      <4>2. j - offset \in 1..(c - offset) /\ offset + (j - offset) = j
        BY <1>1
      <4> QED  BY <1>2, <4>1, <4>2
    <3>i. i \in DOMAIN n.frames
      <4> HIDE DEF c
      <4> QED  BY <1>1, <1>2, <3>1
    <3>2. Last(R \cup {n}) = n
      <4>1. n \in Writing(R \cup {n})
        <5> HIDE DEF R
        <5> QED  BY <3>1, <3>i
      <4>2. Before(n, n) /\ \A s \in R : Before(s, n) /\ ~Before(n, s)
        <5>1. n.from <= n.from
          BY <1>1, <1>2
        <5> QED  BY <1>9, <5>1 DEF Before
      <4>3. Writing(R \cup {n}) \subseteq R \cup {n}
        OBVIOUS
      <4> HIDE DEF Writing, R
      <4>4. \A t \in Writing(R \cup {n}) : Before(t, n)
        BY <4>2, <4>3
      <4>5. \A s \in Writing(R \cup {n}) : Before(n, s) => s = n
        BY <4>2, <4>3
      <4> QED  BY <4>1, <4>4, <4>5
    <3>3. Image(gen)'[p] = Newest(p, n.frames, Len(n.frames), 0)
      <4>1. Writing(R \cup {n}) # {}
        <5> HIDE DEF R
        <5> QED  BY <3>1, <3>i
      <4> HIDE DEF Writing, Last, R
      <4> QED  BY <1>13, <2>2, <3>2, <4>1
    <3>4. PICK l \in 1..(c - offset) : /\ n.frames[l].page = p
                                       /\ Newest(p, n.frames, Len(n.frames), 0) = n.frames[l].txn
                                       /\ \A j \in 1..(c - offset) : n.frames[j].page = p => j <= l
      <4> HIDE DEF c
      <4>1. Len(n.frames) \in 0..Len(n.frames) /\ Len(n.frames) = c - offset
        BY <1>1, <1>2
      <4> QED  BY <1>2, <3>1, <4>1, NewestIs
    <3>5. PICK k \in 1..c : /\ wal[k].page = p /\ Newest(p, wal, c, v) = wal[k].txn
                            /\ \A j \in 1..c : wal[j].page = p => j <= k
      <4> HIDE DEF c, v
      <4>1. offset + l \in 1..c /\ wal[offset + l].page = p
        BY <1>1, <1>2, <3>4
      <4> QED  BY <1>1, <4>1, NewestIs
    <3>6. k = offset + l
      <4> HIDE DEF c, v
      <4>1. offset + l \in 1..c /\ wal[offset + l].page = p
        BY <1>1, <1>2, <3>4
      <4>2. offset + l <= k
        BY <3>5, <4>1
      <4>3. k - offset \in 1..(c - offset) /\ offset + (k - offset) = k
        BY <1>1, <4>1, <4>2
      <4>4. n.frames[k - offset].page = p
        BY <1>2, <3>5, <4>3
      <4>5. k - offset <= l
        BY <3>4, <4>3, <4>4
      <4> QED  BY <1>1, <4>2, <4>5
    <3>7. n.frames[l] = wal[k]
      <4> HIDE DEF c, v
      <4> QED  BY <1>2, <3>6
    <3> HIDE DEF c, v
    <3> QED  BY <2>1, <3>3, <3>4, <3>5, <3>7
  <2> QED  BY <2>3, <2>4
<1>16. offset # 0 => \E s \in Segments(gen)' : s.epoch = hdr /\ s.from + Len(s.frames) = offset
  BY <1>5, <1>11
<1> HIDE DEF R
<1> QED  BY <1>10, <1>12, <1>15, <1>16

\* Frames are shipped, or there are none.
LEMMA FramesKeeps ==
    ASSUME Inv, Frames
    PROVE  Inv'
<1>s. WalInv /\ HoldInv /\ EpochInv /\ SinkInv /\ ImageInv /\ CopyInv /\ CountInv /\ ConsistentPrefix
      /\ settled \subseteq taken
  BY DEF Inv, SinkInv
<1>1. UNCHANGED walVars /\ UNCHANGED <<hold, gen, hdr, copied, next, snaps, started, synced, taken>>
      /\ pc = "frames" /\ hold # NoHold
  BY <1>s DEF Frames, ShipsUpTo, HoldInv
<1>2. /\ UNCHANGED <<file, epoch, wal, filled, txns>> /\ WalInv' /\ FileInv' /\ Latest' = Latest
      /\ \A k : State(k)' = State(k)
      /\ \A q, v, fixed : Follows(q, v, fixed)' = Follows(q, v, fixed)
  BY <1>1, WalStays DEF Inv
<1>3. CountInv'
  BY <1>s, <1>1, <1>2 DEF CountInv
<1>4. (Stored' <=> Stored) /\ Len(txns) \in Nat
  BY <1>s, <1>1 DEF Stored, WalInv
<1>5. Onward \in {"size", "swap"} /\ (Onward = "swap" => locked) /\ (Onward = "size" => ~locked)
  BY DEF Onward
<1>6. (locked => hdr = epoch) /\ hdr # 0 /\ hdr \in 0..epoch /\ offset \in Nat
      /\ (hdr = epoch => offset <= Committed(wal))
  BY <1>s, <1>1 DEF EpochInv, WalInv
<1>7. Committed(wal) \in Nat /\ wal \in Seq(FrameType) /\ Committed(wal) \in 0..Len(wal)
  BY <1>s, CommittedIs DEF WalInv
<1>8. CASE /\ (IF epoch = hdr THEN Committed(wal) ELSE 0) <= offset
           /\ pc' = Onward /\ Settles /\ UNCHANGED <<locked, offset, shipped>>
  <2>2. (\A g : Image(g)' = Image(g)) /\ Restored' = Restored
    BY <1>1, <1>8, ImageStays DEF sinkVars
  <2>3. ASSUME Stored
        PROVE  /\ epoch = hdr => Image(gen) = Latest
               /\ \E k \in started..Len(txns) : Image(gen) = State(k)
    <3>1. CASE epoch = hdr
      <4>1. offset = Committed(wal)
        BY <1>6, <1>7, <1>8, <3>1
      <4>2. PICK m \in offset..Committed(wal) :
                \A p \in Pages : Newest(p, wal, m, Image(gen)[p]) = Image(gen)[p]
        BY <1>s, <1>1, <2>3, <3>1 DEF ImageInv
      <4>3. m = Committed(wal)
        BY <1>7, <4>1
      <4>4. \A p \in Pages : Newest(p, wal, Committed(wal), Image(gen)[p]) = Latest[p]
        BY <1>s, <1>1, <2>3 DEF ImageInv, Follows
      <4>5. \A p \in Pages : Image(gen)[p] = Latest[p]
        BY <4>2, <4>3, <4>4
      <4> QED  BY <1>s, <4>5, LatestIs
    <3>2. CASE epoch # hdr
      BY <1>s, <1>1, <2>3, <3>2 DEF ImageInv
    <3> QED  BY <3>1, <3>2
  <2>4. ConsistentPrefix' /\ settled' \subseteq taken
    <3>1. Stored => \E k \in started..Len(txns) : Restored' = State(k)
      BY <1>s, <1>1, <2>2, <2>3, NewestGeneration
    <3> QED  BY <1>s, <1>1, <1>2, <1>8, <2>2, <3>1, SettlesKeeps
  <2>5. HoldInv' /\ CopyInv'
    BY <1>s, <1>1, <1>2, <1>5, <1>8 DEF HoldInv, CopyInv, Open
  <2>6. EpochInv'
    BY <1>s, <1>1, <1>2, <1>4, <1>5, <1>6, <1>8 DEF EpochInv
  <2>7. SinkInv'
    BY <1>s, <1>1, <1>2, <1>5, <1>8, <2>4, SinkInvStays
  <2>8. ImageInv'
    BY <1>s, <1>1, <1>2, <1>4, <1>5, <1>6, <1>8, <2>2, <2>3 DEF ImageInv
  <2> QED  BY <1>2, <1>3, <2>4, <2>5, <2>6, <2>7, <2>8 DEF Inv
<1>9. CASE /\ epoch = hdr /\ Committed(wal) > offset
           /\ shipped' = With(Segment(gen, hdr, offset, SubSeq(wal, offset + 1, Committed(wal))))
           /\ \/ offset' = Committed(wal) /\ pc' = Onward /\ Settles /\ UNCHANGED locked
              \/ pc' = "idle" /\ locked' = FALSE /\ UNCHANGED <<offset, settled>>
  <2>n. PICK n : n = Segment(gen, hdr, offset, SubSeq(wal, offset + 1, Committed(wal)))
    OBVIOUS
  <2>o. offset < Committed(wal) /\ shipped' = With(n) /\ UNCHANGED <<snaps, epoch, gen>>
    BY <1>1, <1>2, <1>6, <1>7, <1>9, <2>n
  <2>1. /\ \A g : g # gen => Segments(g)' = Segments(g)
        /\ \A g, e : HeaderOf(g, e) \in shipped => HeaderOf(g, e) \in shipped'
        /\ \A s \in shipped' :
               /\ s.gen \in Nat \ {0} /\ s.epoch \in Nat \ {0} /\ s.from \in Nat
               /\ s.epoch <= epoch' /\ s.frames \in Seq(FrameType)
               /\ s.frames # <<>> => s.frames[Len(s.frames)].commit
        /\ \E b \in Nat : (\A g \in DOMAIN snaps' : g <= b) /\ \A s \in shipped' : s.gen <= b
    BY <1>s, <1>1, <1>9, <2>n, <2>o, FramesPut
  <2>2. ASSUME Stored
        PROVE  /\ \A t \in Segments(gen)' :
                      /\ HeaderOf(gen, t.epoch) \in shipped'
                      /\ t.from = 0 \/
                            \E s \in Segments(gen)' : s.epoch = t.epoch /\ s.from + Len(s.frames) = t.from
               /\ \A s \in Segments(gen)' :
                      /\ s.epoch <= hdr
                      /\ s.epoch = hdr =>
                            \/ s.from + Len(s.frames) <= offset
                            \/ /\ s.from = offset /\ offset + Len(s.frames) = Committed(wal)
                               /\ \A i \in 1..Len(s.frames) : s.frames[i] = wal[offset + i]
               /\ \E s \in Segments(gen)' : s.epoch = hdr /\ s.from + Len(s.frames) = Committed(wal)
               /\ offset # 0 => \E s \in Segments(gen)' : s.epoch = hdr /\ s.from + Len(s.frames) = offset
               /\ \A p \in Pages : Image(gen)'[p] = Latest[p]
    BY <1>s, <1>1, <1>9, <2>2, <2>o, ShippedImage
  <2>3. Stored => Image(gen)' = Latest
    BY <1>1, <1>2, <2>2 DEF Image, Applied, Latest, State
  <2>4. settled' \subseteq taken /\ (~Stored => settled' = settled)
    BY <1>s, <1>9 DEF Settles, Stored
  <2>5. HoldInv' /\ CopyInv'
    <3>1. HoldInv'
      <4>1. CASE pc' = Onward /\ UNCHANGED locked
        BY <1>s, <1>1, <1>2, <1>5, <4>1 DEF HoldInv, Open
      <4>2. CASE pc' = "idle" /\ locked' = FALSE
        BY <1>s, <1>1, <1>2, <4>2 DEF HoldInv, Open
      <4> QED  BY <1>9, <4>1, <4>2
    <3>2. CopyInv'
      BY <1>s, <1>1, <1>2, <1>5, <1>9 DEF CopyInv
    <3> QED  BY <3>1, <3>2
  <2>6. EpochInv'
    <3>1. offset' \in Nat /\ offset' <= Committed(wal) /\ hdr' = epoch'
      BY <1>1, <1>2, <1>6, <1>7, <1>9
    <3>2. pc' # "frames"
      BY <1>5, <1>9
    <3> QED  BY <1>1, <1>2, <1>6, <3>1, <3>2 DEF EpochInv
  <2>h. \A g, e : HeaderOf(g, e)' = HeaderOf(g, e)
    BY DEF HeaderOf
  <2>t. Stored' => TailInv'
    <3> SUFFICES ASSUME Stored' PROVE TailInv'
      OBVIOUS
    <3>1. Stored /\ TailInv
      BY <1>s, <1>4, Zenon DEF SinkInv
    <3>2. HeaderOf(gen, hdr)' \in shipped' /\ hdr' = hdr /\ epoch' = epoch /\ wal' = wal /\ gen' = gen
      BY <1>1, <1>2, <1>6, <2>1, <2>h, <3>1 DEF TailInv
    <3>3. ASSUME NEW s \in Segments(gen)'
          PROVE  s.from \in Nat /\ Len(s.frames) \in Nat
      <4>1. s \in shipped'
        BY <3>3 DEF Segments
      <4>2. s.from \in Nat /\ s.frames \in Seq(FrameType)
        BY <2>1, <4>1
      <4> QED  BY <4>2
    <3>4. CASE offset' = Committed(wal)
      <4>1. ASSUME NEW s \in Segments(gen)', s.epoch = hdr
            PROVE  s.from + Len(s.frames) <= Committed(wal)
        <5>1. CASE s.from + Len(s.frames) <= offset
          BY <1>6, <1>7, <2>o, <3>3, <5>1
        <5>2. CASE s.from = offset /\ offset + Len(s.frames) = Committed(wal)
          BY <1>7, <5>2
        <5> QED  BY <2>2, <3>1, <4>1, <5>1, <5>2
      <4>2. \A s \in Segments(gen)' : s.epoch <= hdr
        BY <2>2, <3>1
      <4>3. \E s \in Segments(gen)' : s.epoch = hdr /\ s.from + Len(s.frames) = Committed(wal)
        BY <2>2, <3>1
      <4>4. \A s \in Segments(gen)' : s.epoch = hdr => s.from + Len(s.frames) <= Committed(wal)
        BY <4>1
      <4>5. \A s \in Segments(gen)' : s.epoch = hdr' => s.from + Len(s.frames) <= offset'
        BY <3>2, <3>4, <4>4
      <4>6. \E s \in Segments(gen)' : s.epoch = hdr' /\ s.from + Len(s.frames) = offset'
        BY <3>2, <3>4, <4>3
      <4>7. \A s \in Segments(gen)' : s.epoch <= hdr'
        BY <3>2, <4>2
      <4> QED  BY <3>2, <4>5, <4>6, <4>7, Zenon DEF TailInv
    <3>5. CASE offset' = offset
      <4>1. \A s \in Segments(gen)' :
               /\ s.epoch <= hdr'
               /\ s.epoch = hdr' =>
                     \/ s.from + Len(s.frames) <= offset'
                     \/ /\ s.from = offset' /\ offset' + Len(s.frames) <= Committed(wal')
                        /\ \A i \in 1..Len(s.frames) : s.frames[i] = wal'[offset' + i]
        <5>1. Committed(wal) <= Committed(wal)
          BY <1>7
        <5> QED  BY <2>2, <3>1, <3>2, <3>5, <5>1
      <4>2. offset' # 0 => \E s \in Segments(gen)' : s.epoch = hdr' /\ s.from + Len(s.frames) = offset'
        BY <2>2, <3>1, <3>2, <3>5
      <4> QED  BY <3>2, <4>1, <4>2 DEF TailInv
    <3> QED  BY <1>9, <3>4, <3>5
  <2>7. SinkInv'
    <3>1. /\ DOMAIN snaps' \subseteq Nat \ {0} /\ (snaps' = <<>> \/ DOMAIN snaps' # {})
          /\ settled' \subseteq taken' /\ taken' \subseteq DOMAIN snaps' /\ gen' \in Nat
          /\ \A g \in DOMAIN snaps' : snaps'[g] \in [Pages -> 0..Len(txns)']
          /\ hold' # NoHold => gen' # 0 /\ \A g \in DOMAIN snaps' : g <= gen'
      BY <1>s, <1>1, <1>2, <2>4 DEF SinkInv
    <3>2. pc' # "copy"
      BY <1>5, <1>9
    <3>3. \A g \in taken' : \A t \in Segments(g)' :
             /\ HeaderOf(g, t.epoch)' \in shipped'
             /\ t.from = 0 \/ \E s \in Segments(g)' : s.epoch = t.epoch /\ s.from + Len(s.frames) = t.from
      <4> TAKE g \in taken'
      <4>1. CASE g = gen
        BY <1>1, <2>2, <2>h, <4>1 DEF Stored
      <4>2. CASE g # gen
        <5>1. \A h \in taken : \A t \in Segments(h) :
                 /\ HeaderOf(h, t.epoch) \in shipped
                 /\ t.from = 0 \/ \E s \in Segments(h) : s.epoch = t.epoch /\ s.from + Len(s.frames) = t.from
          BY <1>s, Zenon DEF SinkInv
        <5>2. Segments(g)' = Segments(g) /\ g \in taken
          BY <1>1, <2>1, <4>2
        <5> QED  BY <2>1, <2>h, <5>1, <5>2
      <4> QED  BY <4>1, <4>2
    <3> QED  BY <2>1, <2>t, <3>1, <3>2, <3>3 DEF SinkInv
  <2>8. ImageInv'
    <3> SUFFICES ASSUME Stored PROVE ImageInv'
      BY <1>4 DEF ImageInv
    <3>1. \A p \in Pages : Newest(p, wal, Committed(wal), Latest[p]) = Latest[p]
      <4> TAKE p \in Pages
      <4>1. Newest(p, wal, Committed(wal), Image(gen)[p]) = Latest[p]
        BY <1>s, <1>1 DEF ImageInv, Follows
      <4>2. Committed(wal) \in 0..Committed(wal)
        BY <1>7
      <4> QED  BY <1>7, <4>1, <4>2, NewestTwice
    <3>2. \A p \in Pages : Follows(p, Latest[p], hold = FileHold)
      BY <3>1 DEF Follows
    <3>3. Image(gen)' = State(Len(txns)) /\ Len(txns) \in started..Len(txns)
      BY <1>s, <1>4, <2>3 DEF Latest, CountInv
    <3>4. Committed(wal) \in offset'..Committed(wal)
      BY <1>6, <1>7, <1>9
    <3>5. pc' # "frames"
      BY <1>5, <1>9
    <3> QED  BY <1>1, <1>2, <2>3, <3>1, <3>2, <3>3, <3>4, <3>5 DEF ImageInv
  <2>9. ConsistentPrefix'
    <3>1. CASE Stored
      <4>1. Max(DOMAIN snaps) = gen
        BY <1>s, <1>1, <3>1, NewestGeneration
      <4>2. Restored' = Latest
        BY <1>1, <2>3, <3>1, <4>1 DEF Restored
      <4>3. Restored' = State(Len(txns)) /\ Len(txns) \in 0..Len(txns)
            /\ \A g \in DOMAIN synced : synced[g] <= Len(txns)
        BY <1>s, <1>4, <4>2 DEF Latest, CountInv
      <4> QED  BY <1>1, <1>2, <4>3 DEF ConsistentPrefix
    <3>2. CASE ~Stored
      <4>1. ASSUME Max(DOMAIN snaps) \in settled PROVE Restored' = Restored
        <5>1. PICK m : m = Max(DOMAIN snaps)
          OBVIOUS
        <5>2. m \in taken /\ m # gen
          BY <1>s, <3>2, <4>1, <5>1 DEF Stored
        <5>3. Segments(m)' = Segments(m) /\ snaps'[m] = snaps[m]
          BY <1>1, <2>1, <5>2
        <5>4. Image(m)' = Image(m)
          BY <1>s, <2>1, <5>2, <5>3, ImageKept
        <5>5. Restored = Image(m) /\ Restored' = Image(m)'
          BY <1>1, <5>1 DEF Restored, Image, Applied, Replayed
        <5> QED  BY <5>4, <5>5
      <4> QED  BY <1>s, <1>1, <1>2, <2>4, <3>2, <4>1, PrefixStays
    <3> QED  BY <3>1, <3>2
  <2> QED  BY <1>2, <1>3, <2>5, <2>6, <2>7, <2>8, <2>9 DEF Inv
<1>10. CASE pc' = "idle" /\ locked' = FALSE /\ UNCHANGED <<shipped, offset, settled>>
  <2>2. (\A g : Image(g)' = Image(g)) /\ Restored' = Restored
    BY <1>1, <1>10, ImageStays DEF sinkVars
  <2>3. HoldInv' /\ CopyInv'
    BY <1>s, <1>1, <1>2, <1>10 DEF HoldInv, CopyInv, Open
  <2>4. EpochInv'
    BY <1>s, <1>1, <1>2, <1>4, <1>10 DEF EpochInv
  <2>5. SinkInv'
    BY <1>s, <1>1, <1>2, <1>10, SinkInvStays
  <2>6. ImageInv'
    BY <1>s, <1>1, <1>2, <1>4, <1>10, <2>2 DEF ImageInv
  <2>7. ConsistentPrefix'
    BY <1>s, <1>1, <1>2, <1>10, <2>2, PrefixStays
  <2> QED  BY <1>2, <1>3, <2>3, <2>4, <2>5, <2>6, <2>7 DEF Inv
<1>11. epoch # hdr => ~(0 > offset)
  BY <1>6
<1>12. LET upto == IF epoch = hdr THEN Committed(wal) ELSE 0
           stored == With(Segment(gen, hdr, offset, SubSeq(wal, offset + 1, upto))) IN
       \/ upto <= offset /\ pc' = Onward /\ Settles /\ UNCHANGED <<locked, offset, shipped>>
       \/ /\ upto > offset
          /\ \/ shipped' = stored /\ offset' = upto /\ pc' = Onward /\ Settles /\ UNCHANGED locked
             \/ /\ pc' = "idle" /\ locked' = FALSE /\ shipped' \in {shipped, stored}
                /\ UNCHANGED <<offset, settled>>
  BY DEF Frames, ShipsUpTo, Fails, Goes
<1> QED  BY <1>6, <1>7, <1>8, <1>9, <1>10, <1>11, <1>12

\* Sync looks at the size of the WAL.
LEMMA SizeKeeps ==
    ASSUME Inv, Size
    PROVE  Inv'
<1>s. WalInv /\ HoldInv /\ EpochInv /\ SinkInv /\ ImageInv /\ CopyInv /\ CountInv /\ ConsistentPrefix
      /\ settled \subseteq taken
  BY DEF Inv, SinkInv
<1>1. UNCHANGED walVars /\ snaps' = snaps /\ shipped' = shipped
      /\ UNCHANGED <<hold, gen, hdr, offset, copied, next, started, taken, settled>>
      /\ pc = "size" /\ hold # NoHold
  BY <1>s DEF Size, sinkVars, HoldInv
<1>3. (\A g : Image(g)' = Image(g)) /\ Restored' = Restored
  BY <1>1, ImageStays DEF sinkVars
<1>4. /\ UNCHANGED <<file, epoch, wal, filled, txns>> /\ WalInv' /\ FileInv'
      /\ \A k : State(k)' = State(k)
      /\ \A q, v, fixed : Follows(q, v, fixed)' = Follows(q, v, fixed)
  BY <1>1, WalStays DEF Inv
<1>5. \/ pc' = "idle" /\ locked' = FALSE /\ Returns
      \/ pc' = "header" /\ locked' = TRUE /\ ~Open /\ synced' = synced
  BY DEF Size, Returns, Goes
<1>6. HoldInv'
  BY <1>s, <1>1, <1>4, <1>5 DEF HoldInv, Open
<1>7. EpochInv'
  BY <1>s, <1>1, <1>4, <1>5 DEF EpochInv, Stored
<1>8. SinkInv'
  BY <1>s, <1>1, <1>4, <1>5, SinkInvStays
<1>9. ImageInv'
  BY <1>s, <1>1, <1>3, <1>4, <1>5 DEF ImageInv, Stored
<1>10. CopyInv'
  BY <1>s, <1>1, <1>4, <1>5 DEF CopyInv
<1>11. CountInv'
  <2>1. \A g \in DOMAIN synced' : (synced'[g] = synced[g] /\ g \in DOMAIN synced) \/ synced'[g] = started
    BY <1>5 DEF Returns
  <2>2. started \in 0..Len(txns) /\ started <= started
    BY <1>s DEF CountInv, WalInv
  <2>3. \A g \in DOMAIN synced : synced[g] \in 0..Len(txns) /\ synced[g] <= started
    BY <1>s, <1>1 DEF CountInv
  <2> QED  BY <1>1, <1>4, <2>1, <2>2, <2>3 DEF CountInv
<1>12. ConsistentPrefix'
  <2>1. CASE synced' = synced
    BY <1>s, <1>1, <1>3, <1>4, <2>1, PrefixStays
  <2>2. CASE Returns
    <3>1. gen \in settled => \E k \in started..Len(txns) : Image(gen) = State(k)
      BY <1>s, <1>1 DEF ImageInv, Stored
    <3> QED  BY <1>s, <1>1, <1>3, <1>4, <2>2, <3>1, ReturnsKeeps
  <2> QED  BY <1>5, <2>1, <2>2
<1> QED  BY <1>4, <1>6, <1>7, <1>8, <1>9, <1>10, <1>11, <1>12 DEF Inv

\* The hold is given up for a checkpoint and taken again.
LEMMA SwapKeeps ==
    ASSUME Inv, Swap
    PROVE  Inv'
<1>s. WalInv /\ FileInv /\ HoldInv /\ EpochInv /\ SinkInv /\ ImageInv /\ CopyInv /\ CountInv
      /\ ConsistentPrefix /\ settled \subseteq taken
  BY DEF Inv, SinkInv
<1>1. UNCHANGED <<epoch, wal, size, txns, gen, hdr, offset, copied, next, snaps, shipped, started,
                  taken, settled>>
      /\ pc = "swap" /\ hold # NoHold /\ locked /\ ~Open
  BY <1>s DEF Swap, sinkVars, HoldInv
<1>3. (\A g : Image(g)' = Image(g)) /\ Restored' = Restored
  BY <1>1, ImageStays DEF sinkVars
<1>4. wal \in Seq(FrameType) /\ Committed(wal) = Len(wal) /\ Len(wal) \in Nat /\ filled \in 0..Len(wal)
  BY <1>s, <1>1, CommittedIs DEF WalInv, Open
<1>5. PICK n \in filled..Len(wal) :
        /\ filled' = n /\ file' = [p \in Pages |-> Newest(p, wal, n, file[p])]
        /\ \/ hold' = Hold(n) /\ Returns
           \/ hold' = NoHold /\ pc' = "idle" /\ locked' = FALSE /\ synced' = synced
  BY DEF Swap, Fails, Goes
<1>6. n \in 0..Committed(wal)
  BY <1>4
<1>7. pc' = "idle" /\ locked' = FALSE /\ (synced' = synced \/ Returns)
  BY <1>5 DEF Returns, Goes
<1>8. Latest' = Latest /\ \A k : State(k)' = State(k)
  BY <1>1 DEF Latest, State
<1>9. WalInv'
  BY <1>s, <1>1, <1>5, <1>6 DEF WalInv, Open
<1>10. FileInv'
  <2>1. ASSUME NEW p \in Pages
        PROVE  file'[p] \in 0..Len(txns) /\ Follows(p, file[p], TRUE)'
    <3>1. file'[p] = Newest(p, wal, n, file[p])
      BY <1>5
    <3>2. /\ file'[p] \in 0..Len(txns) /\ Newest(p, wal, Committed(wal), file'[p]) = Latest[p]
          /\ n = Committed(wal) => file'[p] = Latest[p]
      BY <1>s, <1>6, <3>1, PageCopied
    <3> QED  BY <1>1, <1>5, <1>8, <3>2 DEF Follows, Full
  <2>2. file' = [p \in Pages |-> file'[p]]
    BY <1>5
  <2> QED  BY <1>1, <2>1, <2>2 DEF FileInv
<1>11. HoldInv'
  <2>1. hold' \in {NoHold, FileHold} \cup {WalHold(m) : m \in 1..Committed(wal)}
    <3>1. CASE hold' = Hold(n)
      <4>1. n = Committed(wal) \/ Committed(wal) \in 1..Committed(wal)
        BY <1>4, <1>6
      <4> QED  BY <3>1, <4>1 DEF Hold
    <3> QED  BY <1>5, <3>1
  <2> QED  BY <1>s, <1>1, <1>7, <2>1 DEF HoldInv
<1>e. hdr = epoch
  BY <1>s, <1>1 DEF EpochInv
<1>12. EpochInv'
  BY <1>s, <1>e, <1>1, <1>7 DEF EpochInv
<1>13. SinkInv'
  BY <1>s, <1>1, <1>7, SinkInvStays
<1>14. ImageInv'
  <2> SUFFICES ASSUME Stored PROVE ImageInv'
    BY <1>1 DEF ImageInv, Stored
  <2>1. Image(gen) = Latest /\ \A p \in Pages : Newest(p, wal, Committed(wal), Latest[p]) = Latest[p]
    BY <1>s, <1>1 DEF ImageInv, Follows
  <2>2. \A p \in Pages : Follows(p, Image(gen)[p], hold = FileHold)'
    BY <1>1, <1>3, <1>8, <2>1 DEF Follows
  <2>3. \E m \in offset..Committed(wal) :
            \A p \in Pages : Newest(p, wal, m, Image(gen)[p]) = Image(gen)[p]
    BY <1>s, <1>1, <1>e DEF ImageInv
  <2> QED  BY <1>1, <1>3, <1>7, <2>2, <2>3 DEF ImageInv
<1>15. CopyInv' /\ CountInv'
  <2>1. CopyInv'
    BY <1>s, <1>1, <1>7 DEF CopyInv
  <2>2. CountInv'
    BY <1>s, <1>1, <1>7 DEF CountInv, Returns
  <2> QED  BY <2>1, <2>2
<1>16. ConsistentPrefix'
  <2>1. CASE synced' = synced
    BY <1>s, <1>1, <1>3, <2>1, PrefixStays
  <2>2. CASE Returns
    <3>1. gen \in settled => \E k \in started..Len(txns) : Image(gen) = State(k)
      <4>1. gen \in settled => Image(gen) = State(Len(txns))
        BY <1>s, <1>1 DEF ImageInv, Stored, Latest
      <4>2. Len(txns) \in started..Len(txns)
        BY <1>s DEF CountInv, WalInv
      <4> QED  BY <4>1, <4>2
    <3> QED  BY <1>s, <1>1, <1>3, <2>2, <3>1, ReturnsKeeps
  <2> QED  BY <1>7, <2>1, <2>2
<1> QED  BY <1>9, <1>10, <1>11, <1>12, <1>13, <1>14, <1>15, <1>16 DEF Inv

\* Only the sink outlives the shipper.
LEMMA KillKeeps ==
    ASSUME Inv, Kill
    PROVE  Inv'
<1>s. WalInv /\ HoldInv /\ EpochInv /\ SinkInv /\ CountInv /\ ConsistentPrefix /\ settled \subseteq taken
  BY DEF Inv, SinkInv
<1>1. UNCHANGED walVars /\ UNCHANGED <<snaps, shipped, started, synced, taken, settled>>
      /\ hold' = NoHold /\ locked' = FALSE /\ pc' = "idle" /\ gen' = 0 /\ hdr' = 0 /\ offset' = 0
      /\ copied' = <<>> /\ next' = "header"
  BY DEF Kill, sinkVars, ghostVars
<1>2. \A g : Segments(g)' = Segments(g)
  BY <1>1 DEF Segments
<1>3. Restored' = Restored
  BY <1>1, ImageStays DEF sinkVars
<1>4. UNCHANGED <<file, epoch, wal, filled, txns>> /\ WalInv' /\ FileInv'
  BY <1>1, WalStays DEF Inv
<1>5. ~Stored'
  BY <1>s, <1>1 DEF Stored, SinkInv
<1>6. HoldInv'
  BY <1>1 DEF HoldInv
<1>7. EpochInv'
  <2>1. epoch \in Nat /\ Committed(wal) \in Nat
    BY <1>s, CommittedIs DEF WalInv
  <2> QED  BY <1>1, <1>4, <2>1 DEF EpochInv
<1>8. SinkInv'
  <2>1. /\ DOMAIN snaps' \subseteq Nat \ {0} /\ (snaps' = <<>> \/ DOMAIN snaps' # {})
        /\ settled' \subseteq taken' /\ taken' \subseteq DOMAIN snaps' /\ gen' \in Nat
        /\ \A g \in DOMAIN snaps' : snaps'[g] \in [Pages -> 0..Len(txns)']
        /\ \E b \in Nat : (\A g \in DOMAIN snaps' : g <= b) /\ \A s \in shipped' : s.gen <= b
        /\ hold' = NoHold /\ pc' # "copy"
    BY <1>s, <1>1, <1>4 DEF SinkInv
  <2>2. \A s \in shipped' :
           /\ s.gen \in Nat \ {0} /\ s.epoch \in Nat \ {0} /\ s.from \in Nat
           /\ s.epoch <= epoch' /\ s.frames \in Seq(FrameType)
           /\ s.frames # <<>> => s.frames[Len(s.frames)].commit
    BY <1>s, <1>1, <1>4, SegmentTypes
  <2>3. \A g, e : HeaderOf(g, e)' = HeaderOf(g, e)
    BY DEF HeaderOf
  <2>4. \A g \in taken : \A t \in Segments(g) :
           /\ HeaderOf(g, t.epoch) \in shipped
           /\ t.from = 0 \/ \E s \in Segments(g) : s.epoch = t.epoch /\ s.from + Len(s.frames) = t.from
    BY <1>s, Zenon DEF SinkInv
  <2>5. \A g \in taken' : \A t \in Segments(g)' :
           /\ HeaderOf(g, t.epoch)' \in shipped'
           /\ t.from = 0 \/ \E s \in Segments(g)' : s.epoch = t.epoch /\ s.from + Len(s.frames) = t.from
    BY <1>1, <1>2, <2>3, <2>4
  <2> QED  BY <1>5, <2>1, <2>2, <2>5 DEF SinkInv
<1>9. ImageInv'
  BY <1>5 DEF ImageInv
<1>10. CopyInv' /\ CountInv'
  <2>1. copied' = <<>> /\ DOMAIN copied' = {} /\ copied' \in [{} -> 0..Len(txns')]
    BY <1>1
  <2>2. CopyInv'
    BY <1>1, <2>1 DEF CopyInv
  <2>3. CountInv'
    BY <1>s, <1>1, <1>4 DEF CountInv
  <2> QED  BY <2>2, <2>3
<1>11. ConsistentPrefix'
  BY <1>s, <1>1, <1>3, <1>4, PrefixStays
<1> QED  BY <1>4, <1>6, <1>7, <1>8, <1>9, <1>10, <1>11 DEF Inv

-----------------------------------------------------------------------------
(* The theorems.                                                           *)

\* The database is empty, the shipper has not started, the sink holds nothing.
LEMMA InitHolds ==
    Init => Inv
<1> SUFFICES ASSUME Init PROVE Inv
  OBVIOUS
<1> USE DEF Init
<1>1. Committed(wal) = 0 /\ Len(wal) = 0 /\ Len(txns) = 0
  <2>1. wal \in Seq(FrameType) /\ Len(wal) = 0 /\ Len(txns) = 0
    OBVIOUS
  <2>2. Committed(wal) \in 0..Len(wal)
    BY <2>1, CommittedIs
  <2> QED  BY <2>1, <2>2
<1>2. WalInv
  BY <1>1 DEF WalInv, Open
<1>3. FileInv
  <2>1. \A p \in Pages : Latest[p] = 0
    <3> TAKE p \in Pages
    <3>1. {0} \cup {i \in 1..0 : p \in txns[i]} = {0}
      OBVIOUS
    <3>2. Max({0}) = 0
      BY MaxIs
    <3> QED  BY <1>1, <3>1, <3>2 DEF Latest, State
  <2> QED  BY <1>1, <2>1, NewestNone DEF FileInv, Follows
<1>4. HoldInv
  BY <1>1 DEF HoldInv, Open
<1>5. EpochInv
  BY <1>1 DEF EpochInv
<1>7. DOMAIN snaps = {} /\ DOMAIN synced = {} /\ DOMAIN copied = {} /\ copied \in [{} -> 0..Len(txns)]
      /\ ~Stored
  BY DEF Stored
<1>6. CopyInv /\ CountInv
  BY <1>1, <1>7 DEF CopyInv, CountInv
<1>8. SinkInv
  BY <1>7 DEF SinkInv
<1>9. ImageInv /\ ConsistentPrefix
  BY <1>7 DEF ImageInv, ConsistentPrefix
<1> QED  BY <1>2, <1>3, <1>4, <1>5, <1>6, <1>8, <1>9 DEF Inv

\* Every step keeps the invariant.
LEMMA NextKeeps ==
    Inv /\ [Next]_vars => Inv'
<1> SUFFICES ASSUME Inv, [Next]_vars PROVE Inv'
  OBVIOUS
<1>1. CASE (\E p \in Pages : Spill(p) \/ Commit(p) \/ Backfill(p)) \/ Rollback \/ Backfilled
  BY <1>1, ApplicationKeeps
<1>2. CASE \E p \in Pages : CopyPage(p)
  BY <1>2, CopyPageKeeps
<1>3. CASE Sync \/ List \/ PutSnapshot \/ Header \/ Frames
  BY <1>3, SyncKeeps, ListKeeps, SnapshotKeeps, HeaderKeeps, FramesKeeps
<1>4. CASE Size \/ Swap \/ Kill
  BY <1>4, SizeKeeps, SwapKeeps, KillKeeps
<1>5. CASE UNCHANGED vars
  <2>s. WalInv /\ HoldInv /\ EpochInv /\ SinkInv /\ ImageInv /\ CopyInv /\ CountInv /\ ConsistentPrefix
        /\ settled \subseteq taken
    BY DEF Inv, SinkInv
  <2>1. UNCHANGED walVars /\ UNCHANGED <<snaps, shipped>>
        /\ UNCHANGED <<hold, locked, pc, gen, hdr, offset, copied, next, started, synced, taken, settled>>
    BY <1>5 DEF vars, shipVars, sinkVars, ghostVars
  <2>3. (\A g : Image(g)' = Image(g)) /\ Restored' = Restored
    BY <2>1, ImageStays DEF sinkVars
  <2>4. /\ UNCHANGED <<file, epoch, wal, filled, txns>> /\ (\A k : State(k)' = State(k))
        /\ \A q, v, fixed : Follows(q, v, fixed)' = Follows(q, v, fixed)
    BY <2>1, WalStays
  <2>5. WalInv' /\ FileInv'
    BY <2>1, WalStays DEF Inv
  <2>6. HoldInv' /\ EpochInv' /\ SinkInv'
    <3>1. HoldInv' /\ EpochInv'
      BY <2>s, <2>1, <2>4 DEF HoldInv, EpochInv, Stored, Open
    <3>2. SinkInv'
      BY <2>s, <2>1, <2>4, SinkInvStays
    <3> QED  BY <3>1, <3>2
  <2>7. ImageInv'
    <3> SUFFICES ASSUME Stored, hold # NoHold PROVE ImageInv'
      BY <2>1 DEF ImageInv, Stored
    <3>1. Image(gen)' = Image(gen) /\ Latest' = Latest /\ (Stored' <=> Stored)
      BY <2>1, <2>3, WalStays DEF Stored
    <3> QED  BY <2>s, <2>1, <2>4, <3>1 DEF ImageInv
  <2>8. CopyInv' /\ CountInv'
    BY <2>s, <2>1, <2>4 DEF CopyInv, CountInv
  <2>9. ConsistentPrefix'
    BY <2>s, <2>1, <2>3, <2>4, PrefixStays
  <2> QED  BY <2>5, <2>6, <2>7, <2>8, <2>9 DEF Inv
<1> QED  BY <1>1, <1>2, <1>3, <1>4, <1>5 DEF Next

\* The invariant holds in every reachable state.
LEMMA InvHolds ==
    Spec => []Inv
<1> QED  BY InitHolds, NextKeeps, PTL DEF Spec

\* The state has its types, every segment in the sink ends in a commit frame of an epoch the WAL
\* had, and the shipper is never ahead of the commits of the WAL it ships, also when a Put that
\* failed has stored its object.
THEOREM TypeCorrect ==
    Spec => []TypeOK
<1>1. Inv => TypeOK
  <2> SUFFICES ASSUME Inv PROVE TypeOK
    OBVIOUS
  <2>s. WalInv /\ FileInv /\ HoldInv /\ EpochInv /\ SinkInv /\ CopyInv /\ CountInv
    BY DEF Inv
  <2>1. Committed(wal) \in Nat /\ file \in [Pages -> 0..Len(txns)] /\ Len(wal) <= size
        /\ txns \in Seq(SUBSET Pages) /\ epoch \in Nat /\ wal \in Seq(FrameType) /\ filled \in 0..Committed(wal)
    BY <2>s, CommittedIs DEF WalInv, FileInv
  <2>2. hold.mark <= Committed(wal) /\ hold.on \in {"none", "file", "wal"}
    BY <2>s, <2>1, HoldIs DEF NoHold, FileHold
  <2>3. /\ locked \in BOOLEAN /\ pc \in {"idle", "list", "copy", "header", "frames", "size", "swap"}
        /\ next \in {"header", "size", "swap"} /\ DOMAIN copied \subseteq Pages
        /\ hdr \in 0..epoch /\ offset \in Nat /\ (hdr = epoch => offset <= Committed(wal))
        /\ \A g \in DOMAIN synced : synced[g] <= Len(txns)
    BY <2>s DEF HoldInv, EpochInv, CopyInv, CountInv
  <2>4. /\ gen \in Nat /\ settled \subseteq taken /\ taken \subseteq DOMAIN snaps
        /\ \A g \in DOMAIN snaps : g \in Nat \ {0} /\ snaps[g] \in [Pages -> 0..Len(txns)]
    BY <2>s DEF SinkInv
  <2>5. \A s \in shipped :
           /\ s.gen \in Nat \ {0} /\ s.epoch \in 1..epoch /\ s.from \in Nat
           /\ s.frames \in Seq(FrameType) /\ (s.frames # <<>> => s.frames[Len(s.frames)].commit)
    <3> TAKE s \in shipped
    <3>1. /\ s.gen \in Nat \ {0} /\ s.epoch \in Nat \ {0} /\ s.from \in Nat
          /\ s.epoch <= epoch /\ s.frames \in Seq(FrameType)
          /\ (s.frames # <<>> => s.frames[Len(s.frames)].commit)
      BY <2>s, SegmentTypes
    <3> QED  BY <2>1, <3>1
  <2> QED  BY <2>1, <2>2, <2>3, <2>4, <2>5 DEF TypeOK
<1> QED  BY <1>1, InvHolds, PTL

\* "restores a consistent prefix" (adr/047:26): with any number of writes, checkpoints, failed
\* Puts (which may have stored their object) and kills between any two steps of the shipper, the
\* newest generation, once its snapshot was put without an error and its WAL was read, restores to
\* the state after a transaction, and nothing is lost that a Sync which returned nil has shipped
\* to it or to a generation before it.
THEOREM PrefixAlwaysRestored ==
    Spec => []ConsistentPrefix
<1>1. Inv => ConsistentPrefix
  BY DEF Inv
<1> QED  BY <1>1, InvHolds, PTL
=============================================================================
