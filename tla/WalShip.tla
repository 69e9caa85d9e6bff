------------------------------- MODULE WalShip -------------------------------
(***************************************************************************)
(* Continuous replication of the SQLite store by WAL shipping              *)
(* (internal/walship): a shipper copies the database file once per         *)
(* generation and then every committed frame of the WAL, under a read hold *)
(* that keeps SQLite from restarting the WAL.  The application writes and  *)
(* checkpoints on its own; the shipper may die at any moment; any Put may  *)
(* fail, and a Put that fails (a timeout) may have stored its object.      *)
(* Restore takes the newest generation that has a snapshot.                *)
(*                                                                         *)
(* A page holds the number of the transaction that wrote it last.  SQLite  *)
(* is external: frames are appended, copied into the file page by page up  *)
(* to the oldest reader, and overwritten from the start (a new epoch) by   *)
(* the first writer that finds all of them copied and no reader on them.   *)
(***************************************************************************)
EXTENDS Naturals, Sequences, FiniteSetsExt

CONSTANTS
    Pages,       \* of the database
    Sites,       \* the bounds of every run, see SiteType
    Limit        \* checkpointBytes, in frames

Events == {"txn", "spill", "snapshot", "segment", "hold", "kill"}

SiteType == [Events -> Nat]

ASSUME SiteAssumption == Sites \subseteq SiteType /\ Limit \in Nat

VARIABLES
    site,        \* chosen once
    file,        \* the database file: the version of every page
    epoch, wal,  \* the WAL: its sequence number, its frames
    filled,      \* frames copied into the file
    size,        \* of the WAL file, in frames: it does not shrink when the WAL starts anew
    txns,        \* the pages of every committed transaction
    hold,        \* the shipper's read transaction: frames of the WAL it sees, see Holds
    locked,      \* the shipper holds the write lock
    pc,          \* where Sync is: "idle", "list", "copy", "header", "frames", "size", "swap"
    gen,         \* Shipper.gen
    hdr, offset, \* the epoch (0: none) and the frames of it that were shipped
    copied,      \* newGeneration: the pages read so far
    next,        \* where newGeneration returns to
    snaps,       \* the sink: the snapshot of every generation that has one
    shipped,     \* the sink: headers and segments, see Segment
    started,     \* transactions committed when Sync started
    synced,      \* by generation: transactions committed before the last Sync that returned nil
    taken,       \* generations whose snapshot was put without an error
    settled,     \* those of them whose WAL was read afterwards
    used         \* how often every bounded event happened

walVars == <<file, epoch, wal, filled, size, txns>>
shipVars == <<pc, gen, hdr, offset, copied, next>>
sinkVars == <<snaps, shipped>>
ghostVars == <<started, synced, taken, settled>>
vars == <<site, walVars, hold, locked, shipVars, sinkVars, ghostVars, used>>

Frame(page, txn, commit) == [page |-> page, txn |-> txn, commit |-> commit]

\* No read transaction, one on the file alone (all frames were copied), or one on the WAL.
NoHold == [on |-> "none", mark |-> 0]
FileHold == [on |-> "file", mark |-> 0]
WalHold(n) == [on |-> "wal", mark |-> n]

\* A header is the segment without frames at offset 0.
Segment(g, e, from, frames) == [gen |-> g, epoch |-> e, from |-> from, frames |-> frames]

Init ==
    /\ site \in Sites
    /\ file = [p \in Pages |-> 0] /\ epoch = 0 /\ wal = <<>> /\ filled = 0 /\ size = 0
    /\ txns = <<>>
    /\ hold = NoHold /\ locked = FALSE
    /\ pc = "idle" /\ gen = 0 /\ hdr = 0 /\ offset = 0 /\ next = "header"
    /\ copied = <<>> /\ snaps = <<>> /\ shipped = {}
    /\ started = 0 /\ synced = <<>> /\ taken = {} /\ settled = {}
    /\ used = [e \in Events |-> 0]

Once(event) ==
    /\ used[event] < site[event]
    /\ used' = [used EXCEPT ![event] = @ + 1]

\* Frames up to the last commit frame.
Committed(frames) == Max({0} \cup {n \in DOMAIN frames : frames[n].commit})

\* The newest version of p in the first n frames, the given one if there is none.
Newest(p, frames, n, old) ==
    LET at == {i \in 1..n : frames[i].page = p} IN IF at = {} THEN old ELSE frames[Max(at)].txn

-----------------------------------------------------------------------------
(* The application and SQLite.                                             *)

Open == Committed(wal) < Len(wal)

\* The first frame of a transaction may find the WAL free and start it anew.
Restarts == epoch = 0 \/ (wal # <<>> /\ filled = Len(wal) /\ hold.on # "wal")

Write(p, commit) ==
    LET frame == Frame(p, Len(txns) + 1, commit) IN
    /\ \/ /\ Restarts /\ epoch' = epoch + 1 /\ wal' = <<frame>> /\ filled' = 0
       \/ /\ epoch > 0 /\ wal' = Append(wal, frame) /\ UNCHANGED <<epoch, filled>>
    /\ size' = Max({size, Len(wal')})

Spill(p) ==
    /\ ~locked /\ ~Open /\ Len(txns) < site["txn"] /\ Once("spill")
    /\ Write(p, FALSE)
    /\ UNCHANGED <<site, file, txns, hold, locked, shipVars, sinkVars, ghostVars>>

Commit(p) ==
    /\ ~locked /\ Len(txns) < site["txn"] /\ Write(p, TRUE)
    /\ (Open => epoch' = epoch)
    /\ txns' = Append(txns, {p} \cup IF Open THEN {wal[Len(wal)].page} ELSE {})
    /\ UNCHANGED <<site, file, hold, locked, shipVars, sinkVars, ghostVars, used>>

Rollback ==
    /\ Open /\ wal' = SubSeq(wal, 1, Committed(wal))
    /\ UNCHANGED <<site, file, epoch, filled, size, txns, hold, locked, shipVars, sinkVars, ghostVars, used>>

\* A checkpoint may copy what every reader has in view, and nothing under a reader of the file.
Reach == IF hold.on = "wal" THEN hold.mark ELSE Committed(wal)

Backfill(p) ==
    /\ hold.on # "file" /\ filled < Reach
    /\ file' = [file EXCEPT ![p] = Newest(p, wal, Reach, @)]
    /\ UNCHANGED <<site, epoch, wal, filled, size, txns, hold, locked, shipVars, sinkVars, ghostVars, used>>

Backfilled ==
    /\ hold.on # "file" /\ filled < Reach
    /\ \A p \in Pages : file[p] = Newest(p, wal, Reach, file[p])
    /\ filled' = Reach
    /\ UNCHANGED <<site, file, epoch, wal, size, txns, hold, locked, shipVars, sinkVars, ghostVars, used>>

-----------------------------------------------------------------------------
(* The shipper.                                                            *)

Goes(place) == pc' = place

\* acquireHold: a reader that finds every frame in the file reads the file alone.
Hold(n) == IF n = Committed(wal) THEN FileHold ELSE WalHold(Committed(wal))

\* An error ends Sync: the checkpoint's write lock goes, the hold stays as it is.
Fails(event) ==
    /\ Once(event) /\ Goes("idle") /\ locked' = FALSE

\* Sync returns nil, also when a gap made it stop after the snapshot of a new generation.
Returns ==
    /\ Goes("idle") /\ locked' = FALSE
    /\ synced' = [g \in DOMAIN synced \cup {gen} |-> IF g = gen THEN started ELSE synced[g]]

\* syncLocked has read the WAL up to its last commit.
Settles == settled' = settled \cup ({gen} \cap taken)

Sync ==
    /\ pc = "idle" /\ started' = Len(txns)
    /\ IF hold = NoHold THEN Goes("list") /\ next' = "header" ELSE Goes("header") /\ UNCHANGED next
    /\ UNCHANGED <<site, walVars, hold, locked, gen, hdr, offset, copied, sinkVars, synced, taken, settled, used>>

\* newGeneration: the hold is released before this step.
List ==
    /\ pc = "list"
    /\ gen' = 1 + Max({0} \cup DOMAIN snaps \cup {s.gen : s \in shipped})
    /\ copied' = <<>>
    /\ \/ Goes("copy") /\ hold' = Hold(filled) /\ UNCHANGED <<locked, used>>
       \/ Fails("hold") /\ UNCHANGED hold
    /\ UNCHANGED <<site, walVars, hdr, offset, next, sinkVars, ghostVars>>

CopyPage(p) ==
    /\ pc = "copy" /\ p \notin DOMAIN copied
    /\ copied' = [q \in DOMAIN copied \cup {p} |-> IF q = p THEN file[p] ELSE copied[q]]
    /\ UNCHANGED <<site, walVars, hold, locked, pc, gen, hdr, offset, next, sinkVars, ghostVars, used>>

PutSnapshot ==
    /\ pc = "copy" /\ DOMAIN copied = Pages
    /\ LET stored == [g \in DOMAIN snaps \cup {gen} |-> IF g = gen THEN copied ELSE snaps[g]] IN
       \/ /\ snaps' = stored /\ taken' = taken \cup {gen}
          /\ hdr' = 0 /\ offset' = 0 /\ Goes(next) /\ UNCHANGED <<locked, used>>
       \/ Fails("snapshot") /\ snaps' \in {snaps, stored} /\ UNCHANGED <<hdr, offset, taken>>
    /\ copied' = <<>>
    /\ UNCHANGED <<site, walVars, hold, gen, next, shipped, started, synced, settled>>

\* The sink with s in place of what its name held.
With(s) ==
    {t \in shipped : \/ <<t.gen, t.epoch, t.from>> # <<s.gen, s.epoch, s.from>>
                     \/ ~(t.frames = <<>> <=> s.frames = <<>>)} \cup {s}

\* syncLocked goes on in Sync, or in checkpoint.
Onward == IF locked THEN "swap" ELSE "size"

\* A WAL that was restarted more than once has lost frames: a new generation, not a guess.
Gap == hdr # 0 /\ epoch \notin {hdr, hdr + 1}

Header ==
    /\ pc = "header"
    /\ \/ epoch = 0 /\ Goes(Onward) /\ Settles
          /\ UNCHANGED <<hold, locked, hdr, offset, next, shipped, used>>
       \/ epoch > 0 /\ epoch = hdr /\ Goes("frames")
          /\ UNCHANGED <<hold, locked, hdr, offset, next, shipped, settled, used>>
       \/ Gap /\ Goes("list") /\ next' = Onward /\ hold' = NoHold
          /\ UNCHANGED <<locked, hdr, offset, shipped, settled, used>>
       \/ /\ epoch \notin {0, hdr} /\ ~Gap
          /\ LET stored == With(Segment(gen, epoch, 0, <<>>)) IN
             \/ /\ shipped' = stored
                /\ hdr' = epoch /\ offset' = 0 /\ Goes("frames") /\ UNCHANGED <<locked, used>>
             \/ Fails("segment") /\ shipped' \in {shipped, stored} /\ UNCHANGED <<hdr, offset>>
          /\ UNCHANGED <<hold, next, settled>>
    /\ UNCHANGED <<site, walVars, gen, copied, snaps, started, synced, taken>>

ShipsUpTo(upto) ==
    LET stored == With(Segment(gen, hdr, offset, SubSeq(wal, offset + 1, upto))) IN
    /\ pc = "frames"
    /\ \/ upto <= offset /\ Goes(Onward) /\ Settles /\ UNCHANGED <<locked, offset, shipped, used>>
       \/ /\ upto > offset
          /\ \/ /\ shipped' = stored /\ offset' = upto /\ Goes(Onward) /\ Settles
                /\ UNCHANGED <<locked, used>>
             \/ /\ Fails("segment") /\ shipped' \in {shipped, stored}
                /\ UNCHANGED <<offset, settled>>
    /\ UNCHANGED <<site, walVars, hold, gen, hdr, copied, next, snaps, started, synced, taken>>

\* Mutant of Frames: ships what is in the WAL, committed or not.
FramesToTheEnd == ShipsUpTo(IF epoch = hdr THEN Len(wal) ELSE 0)

\* scanFrames: the frames of this epoch up to the last commit.
Frames == ShipsUpTo(IF epoch = hdr THEN Committed(wal) ELSE 0)

\* Mutant of Size: the checkpoint does not ship the tail first.
SizeSwapsAtOnce ==
    /\ pc = "size"
    /\ \/ (size < Limit \/ Open) /\ Returns
       \/ size >= Limit /\ ~Open /\ Goes("swap") /\ locked' = TRUE
          /\ UNCHANGED synced
    /\ UNCHANGED <<site, walVars, hold, gen, hdr, offset, copied, next, sinkVars, started, taken,
                   settled, used>>

\* BEGIN IMMEDIATE: a writer in the middle of its transaction leaves it for later.
Size ==
    /\ pc = "size"
    /\ \/ size < Limit /\ Returns
       \/ size >= Limit /\ Open /\ Returns
       \/ size >= Limit /\ ~Open /\ Goes("header") /\ locked' = TRUE
          /\ UNCHANGED synced
    /\ UNCHANGED <<site, walVars, hold, gen, hdr, offset, copied, next, sinkVars, started, taken,
                   settled, used>>

\* The hold goes, a checkpoint copies what the application's readers allow, and the new hold
\* is taken before any writer runs.
Swap ==
    /\ pc = "swap"
    /\ \E n \in filled..Len(wal) :
        /\ filled' = n
        /\ file' = [p \in Pages |-> Newest(p, wal, n, file[p])]
        /\ \/ hold' = Hold(n) /\ Returns /\ UNCHANGED used
           \/ hold' = NoHold /\ Fails("hold") /\ UNCHANGED synced
    /\ UNCHANGED <<site, epoch, wal, size, txns, gen, hdr, offset, copied, next, sinkVars, started,
                   taken, settled>>

\* The shipper's process ends and a new one starts: only the sink remembers.
Kill ==
    /\ Once("kill")
    /\ hold' = NoHold /\ locked' = FALSE
    /\ pc' = "idle" /\ gen' = 0 /\ hdr' = 0 /\ offset' = 0 /\ copied' = <<>> /\ next' = "header"
    /\ UNCHANGED <<site, walVars, sinkVars, ghostVars>>

-----------------------------------------------------------------------------
(* Restore.                                                                *)

Before(s, t) == s.epoch < t.epoch \/ (s.epoch = t.epoch /\ s.from <= t.from)

\* Epochs with a header replay in order, segments by offset, up to the first that does not join.
Replayed(g) ==
    LET segments == {s \in shipped : /\ s.gen = g /\ s.frames # <<>>
                                     /\ Segment(g, s.epoch, 0, <<>>) \in shipped}
        Joins(t) == t.from = 0 \/ \E s \in segments :
                                    s.epoch = t.epoch /\ s.from + Len(s.frames) = t.from
    IN  {s \in segments : \A t \in segments : Before(t, s) => Joins(t)}

\* Every page as the last segment that writes it leaves it.
Applied(base, segments) ==
    LET Writing(p) == {s \in segments : \E i \in DOMAIN s.frames : s.frames[i].page = p}
        Last(p) == CHOOSE s \in Writing(p) : \A t \in Writing(p) : Before(t, s)
    IN  [p \in Pages |-> IF Writing(p) = {} THEN base[p]
                         ELSE Newest(p, Last(p).frames, Len(Last(p).frames), 0)]

Image(g) == Applied(snaps[g], Replayed(g))

\* The newest generation that has a snapshot.
Restored == Image(Max(DOMAIN snaps))

Next ==
    \/ \E p \in Pages : Spill(p) \/ Commit(p) \/ Backfill(p) \/ CopyPage(p)
    \/ Rollback \/ Backfilled
    \/ Sync \/ List \/ PutSnapshot \/ Header \/ Frames \/ Size \/ Swap \/ Kill

Spec == Init /\ [][Next]_vars

-----------------------------------------------------------------------------
\* What the database held after the first k transactions.
State(k) == [p \in Pages |-> Max({0} \cup {i \in 1..k : p \in txns[i]})]

FrameType == [page : Pages, txn : Nat \ {0}, commit : BOOLEAN]

\* The state has its types, every segment ends "at the last commit frame" (wal.go:71), and the
\* shipper is never ahead of the commits of the WAL it ships.
TypeOK ==
    /\ txns \in Seq(SUBSET Pages) /\ file \in [Pages -> 0..Len(txns)]
    /\ epoch \in Nat /\ wal \in Seq(FrameType) /\ filled \in 0..Committed(wal) /\ Len(wal) <= size
    /\ hold.mark <= Committed(wal) /\ hold.on \in {"none", "file", "wal"} /\ locked \in BOOLEAN
    /\ pc \in {"idle", "list", "copy", "header", "frames", "size", "swap"}
    /\ next \in {"header", "size", "swap"} /\ DOMAIN copied \subseteq Pages /\ gen \in Nat
    /\ hdr \in 0..epoch /\ offset \in Nat /\ (hdr = epoch => offset <= Committed(wal))
    /\ \A g \in DOMAIN snaps : g \in Nat \ {0} /\ snaps[g] \in [Pages -> 0..Len(txns)]
    /\ \A s \in shipped :
           /\ s.gen \in Nat \ {0} /\ s.epoch \in 1..epoch /\ s.from \in Nat
           /\ s.frames \in Seq(FrameType) /\ (s.frames # <<>> => s.frames[Len(s.frames)].commit)
    /\ \A g \in DOMAIN synced : synced[g] <= Len(txns)
    /\ settled \subseteq taken /\ taken \subseteq DOMAIN snaps

\* "restores a consistent prefix" (adr/047:26): whatever the application checkpointed while the
\* file was copied, and whatever failed, the newest generation, once its snapshot was put without
\* an error and its WAL was read, restores to the state after some transaction, and nothing is
\* lost that a Sync which returned nil has shipped to it or to a generation before it.
ConsistentPrefix ==
    LET newest == Max(DOMAIN snaps) IN
    snaps # <<>> /\ newest \in settled =>
        \E k \in 0..Len(txns) : /\ Restored = State(k)
                               /\ \A g \in DOMAIN synced : g <= newest => synced[g] <= k

\* "Sync ships every committed frame not yet shipped" (shipper.go:98): when it returns nil, what
\* was committed before it started can be restored.
SyncShips ==
    [][pc # "idle" /\ pc' = "idle" /\ used' = used /\ started > 0 =>
           snaps' # <<>> /\ \E k \in started..Len(txns) : Restored' = State(k)]_vars
=============================================================================
