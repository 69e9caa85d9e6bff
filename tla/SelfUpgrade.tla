---------------------------- MODULE SelfUpgrade ------------------------------
(***************************************************************************)
(* "levelrail self-upgrade" (internal/selfupgrade): the host command that  *)
(* replaces the control plane's binary, rolls back what does not become    *)
(* healthy, and is finished by a later "--recover" when it dies.  It works *)
(* beside the service, which ServiceBoot starts and stops.                 *)
(*                                                                         *)
(* A step runs its function first and is journaled after it: ret holds     *)
(* what the function returned and the journal does not know yet.  Only the *)
(* journal, the files and the database survive a kill.                     *)
(***************************************************************************)
EXTENDS ServiceBoot

CONSTANT Sites  \* the releases and bounds to start with, see SiteType

Events == {"kill", "power", "op", "cancel", "retry", "skip"}

SiteType ==
    [kind: Kinds,
     max: [Events -> Nat]]  \* bounds: kills of the host command, power cuts, host operations
                            \* that fail, cancels, retries in safe mode, backups that fail
                            \* under --skip-backup

ASSUME SiteAssumption == Sites \subseteq SiteType

VARIABLES
    site,       \* the bounds, chosen once
    pc,         \* the step the host command is at
    ret,        \* what its function returned, or the outcome to close with
    att,        \* the attempt in the command's memory
    disk,       \* the attempt in the journal
    self,       \* the release the command is
    cancelled,  \* an operator cancelled it before it committed
    prev,       \* the file of PrevBinary exists, it holds Old
    snap,       \* the snapshot
    aside,      \* the database RestoreDB moved aside
    tried,      \* New has been put in place
    used        \* how often every bounded event happened

fileVars == <<prev, snap, aside>>
hostVars == <<pc, ret, att, disk, self, cancelled>>
vars == <<bootVars, site, hostVars, fileVars, tried, used>>

Steps == {"verify", "backup", "check", "stop", "swap", "start", "health"}
UndoSteps == {"r_stop", "r_swap", "r_db", "r_create", "r_copy", "r_start", "r_wait"}
EndSteps == {"unstop", "resume", "tidy", "close", "import"}
Outcomes == {"running", "succeeded", "rolled_back", "failed", "refused"}

NoAttempt == [outcome |-> "none", past |-> FALSE, ok |-> {}, prev |-> FALSE, snap |-> FALSE, restored |-> FALSE]

\* past: the current or a recorded step changes the host, see pastPoint.
Attempts ==
    [outcome : Outcomes \cup {"none"}, past : BOOLEAN, ok : SUBSET Steps,
     prev : BOOLEAN, snap : BOOLEAN, restored : BOOLEAN]

TypeOK ==
    /\ BootTypeOK
    /\ site \in Sites
    /\ pc \in Steps \cup UndoSteps \cup EndSteps \cup {"idle"}
    /\ ret \in {"none", "ok"} \cup Outcomes
    /\ att \in Attempts /\ disk \in Attempts
    /\ self \in {Old, New} /\ cancelled \in BOOLEAN
    /\ prev \in BOOLEAN /\ snap \in Databases /\ aside \in Databases /\ tried \in BOOLEAN
    /\ used \in [Events -> Nat]

Init ==
    /\ site \in Sites /\ kind = site.kind /\ BootInit
    /\ pc = "idle" /\ ret = "none" /\ att = NoAttempt /\ disk = NoAttempt
    /\ self = Old /\ cancelled = FALSE
    /\ prev = FALSE /\ snap = NoDatabase /\ aside = NoDatabase /\ tried = FALSE
    /\ used = [e \in Events |-> 0]

Once(event) ==
    /\ used[event] < site.max[event]
    /\ used' = [used EXCEPT ![event] = @ + 1]

-----------------------------------------------------------------------------
Running == disk.outcome = "running"

\* The command goes on at step with r returned, and nothing else of it changes.
Goto(step, r) ==
    /\ pc' = step /\ ret' = r
    /\ UNCHANGED <<att, disk, self, cancelled>>

Returns(r) == ret = "none" /\ Goto(pc, r)

\* The function of step at pc returns an error and has done nothing.
Fails(steps) ==
    /\ pc \in steps /\ Returns("failed") /\ Once("op")
    /\ UNCHANGED <<bootVars, fileVars, tried>>

AfterSwapFirst == [verify |-> "backup", backup |-> "check", check |-> "swap", swap |-> "stop",
                   stop |-> "start", start |-> "health", health |-> "close"]

After == [verify |-> "backup", backup |-> "check", check |-> "stop", stop |-> "swap",
          swap |-> "start", start |-> "health", health |-> "close"]

Commits == {"stop", "swap", "start", "health"}  \* the steps that are not Cancellable

\* runSelfUpgrade: refused while an attempt is unfinished, or of the installed release.
Apply ==
    /\ pc = "idle" /\ disk = NoAttempt /\ bin = Old
    /\ att' = [NoAttempt EXCEPT !.outcome = "running"] /\ disk' = att'
    /\ pc' = "verify" /\ ret' = "none" /\ self' = bin /\ cancelled' = FALSE
    /\ UNCHANGED <<bootVars, fileVars, tried, used>>

\* Guard, download, checksum, signature and probe only look; a download fails, what the
\* others find is refused.
Verify ==
    /\ pc = "verify" /\ ret = "none"
    /\ Goto("verify", "ok") \/ Goto("close", "refused") \/ Goto("close", "failed")
    /\ UNCHANGED <<bootVars, fileVars, tried, used>>

\* A snapshot of the live database and a copy of the installed binary.
Backup ==
    /\ pc = "backup" /\ ret = "none"
    /\ \/ /\ db.file = "ok" /\ db.schema = Head(self)
          /\ snap' = db /\ UNCHANGED used
       \/ Once("skip") /\ UNCHANGED snap
    /\ prev' = TRUE
    /\ att' = [att EXCEPT !.prev = TRUE, !.snap = snap'.file = "ok"]
    /\ ret' = "ok"
    /\ UNCHANGED <<bootVars, pc, disk, self, cancelled, aside, tried>>

\* The migrations run on a copy of the snapshot; a target without the dry run passes.
MigrationCheck ==
    /\ pc = "check" /\ ret = "none"
    /\ Returns("ok") \/ (kind = "migration" /\ att.snap /\ Returns("failed"))
    /\ UNCHANGED <<bootVars, fileVars, tried, used>>

Stop ==
    /\ pc = "stop" /\ Returns("ok") /\ Stops
    /\ UNCHANGED <<fileVars, tried, used>>

Swap ==
    /\ pc = "swap" /\ Returns("ok")
    /\ bin' = New /\ tried' = TRUE
    /\ UNCHANGED <<kind, svc, run, ledger, db, fileVars, used>>

Start ==
    /\ pc = "start" /\ Returns("ok") /\ Restarts
    /\ UNCHANGED <<fileVars, tried, used>>

\* verifyRelease: readiness and the schema head, within the health timeout.
Health ==
    /\ pc = "health"
    /\ \/ Ready /\ db.file = "ok" /\ db.schema = Head(New) /\ Returns("ok")
       \/ ~Ready /\ Returns("failed")
    /\ UNCHANGED <<bootVars, fileVars, tried, used>>

\* recordStep and the start of the next step.
Record ==
    /\ pc \in Steps /\ ret \in {"ok", "failed"}
    /\ LET stopNow == cancelled /\ pc \notin Commits
           next == CASE ret = "ok" /\ ~stopNow -> After[pc]
                     [] ret = "ok" /\ pc = "check" -> "unstop"  \* commit finds the cancel
                     [] pc \in {"verify", "backup", "check"} -> "tidy"
                     [] pc = "stop" -> "unstop"
                     [] OTHER -> "r_stop"
       IN  /\ pc' = next
           /\ ret' = CASE next = "close" -> "succeeded"
                       [] next \in EndSteps -> "failed"
                       [] OTHER -> "none"
           /\ att' = [att EXCEPT !.ok = IF ret = "ok" THEN @ \cup {pc} ELSE @,
                                 !.past = @ \/ next \in Commits \cup {"r_stop"}]
           /\ disk' = att'
    /\ UNCHANGED <<bootVars, site, self, cancelled, fileVars, tried, used>>

-----------------------------------------------------------------------------
(* rollbackAndFinish: one journaled step made of these calls.              *)

\* A call fails: the step is journaled as failed.
Closes(outcome) ==
    /\ pc' = "close" /\ ret' = outcome /\ disk' = att
    /\ UNCHANGED <<att, self, cancelled>>

RollbackStop ==  \* its error is ignored
    /\ pc = "r_stop" /\ Goto("r_swap", "none")
    /\ \/ Stops /\ UNCHANGED used
       \/ Once("op") /\ UNCHANGED bootVars
    /\ UNCHANGED <<fileVars, tried>>

RollbackSwap ==
    /\ pc = "r_swap"
    /\ \/ ~att.prev /\ Goto("r_db", "none") /\ UNCHANGED bin
       \/ att.prev /\ prev /\ Goto("r_db", "none") /\ bin' = Old
       \/ att.prev /\ ~prev /\ Closes("failed") /\ UNCHANGED bin
    /\ UNCHANGED <<kind, svc, run, ledger, db, fileVars, tried, used>>

SchemaOther == db.file # "ok" \/ db.schema # Head(self)

SchemaChanged == db.file # "ok" \/ db.schema # Head(Old)

\* SwapInBackup, first half: the live database is renamed.
RollbackDatabase ==
    /\ pc = "r_db"
    /\ \/ /\ ~(SchemaChanged /\ att.snap) /\ Goto("r_start", "none")
          /\ UNCHANGED <<db, aside>>
       \/ /\ SchemaChanged /\ att.snap /\ db.file # "none"
          /\ aside' = db /\ db' = NoDatabase /\ Goto("r_create", "none")
       \/ /\ SchemaChanged /\ att.snap /\ db.file = "none"
          /\ Closes("failed") /\ UNCHANGED <<db, aside>>
    /\ UNCHANGED <<kind, svc, run, ledger, bin, prev, snap, tried, used>>

\* O_EXCL: when a service has created the file meanwhile, UndoSwap.
RollbackCreate ==
    /\ pc = "r_create"
    /\ \/ db.file = "none" /\ db' = TornDatabase /\ Goto("r_copy", "none") /\ UNCHANGED aside
       \/ db.file # "none" /\ db' = aside /\ aside' = NoDatabase /\ Closes("failed")
    /\ UNCHANGED <<kind, svc, run, ledger, bin, prev, snap, tried, used>>

RollbackCopy ==
    /\ pc = "r_copy"
    /\ pc' = "r_start" /\ db' = snap /\ att' = [att EXCEPT !.restored = TRUE]
    /\ UNCHANGED <<kind, svc, run, ledger, bin, fileVars, ret, disk, self, cancelled, tried, used>>

RollbackStart ==
    /\ pc = "r_start" /\ Goto("r_wait", "none") /\ Restarts
    /\ UNCHANGED <<fileVars, tried, used>>

RollbackWait ==
    /\ pc = "r_wait"
    /\ \/ /\ Ready /\ pc' = "tidy" /\ ret' = "rolled_back"
          /\ disk' = att /\ UNCHANGED <<att, self, cancelled>>
       \/ ~Ready /\ Closes("failed")
    /\ UNCHANGED <<bootVars, fileVars, tried, used>>

\* Swapping back, copying (UndoSwap follows) and starting can fail.
RollbackFails ==
    /\ pc \in {"r_swap", "r_copy", "r_start"} /\ Once("op") /\ Closes("failed")
    /\ IF pc = "r_copy" THEN db' = aside /\ aside' = NoDatabase ELSE UNCHANGED <<db, aside>>
    /\ UNCHANGED <<kind, svc, run, ledger, bin, prev, snap, tried>>

-----------------------------------------------------------------------------
(* The end of an attempt.                                                  *)

\* The stop failed or a cancel won against it, or Recover has nothing to undo: Start's error
\* is ignored.
Unstop ==
    /\ \/ pc = "unstop" /\ Goto("tidy", "failed")
       \/ pc = "resume" /\ Goto("close", "failed")
    /\ \/ Restarts /\ UNCHANGED used
       \/ Once("op") /\ UNCHANGED bootVars
    /\ UNCHANGED <<fileVars, tried>>

\* os.Remove(PrevBinary): before the close, but after it when the upgrade succeeded.
Tidy ==
    /\ pc = "tidy"
    /\ Goto(IF ret = "succeeded" THEN "import" ELSE "close", ret)
    /\ prev' = (prev /\ ~att.prev)
    /\ UNCHANGED <<bootVars, snap, aside, tried, used>>

CloseUnsaved ==
    /\ pc = "close"
    /\ att' = [att EXCEPT !.outcome = ret] /\ UNCHANGED disk
    /\ pc' = IF ret = "succeeded" THEN "tidy" ELSE "import"
    /\ UNCHANGED <<bootVars, ret, self, cancelled, fileVars, tried, used>>

Close ==
    /\ pc = "close"
    /\ att' = [att EXCEPT !.outcome = ret] /\ disk' = att'
    /\ pc' = IF ret = "succeeded" THEN "tidy" ELSE "import"
    /\ UNCHANGED <<bootVars, ret, self, cancelled, fileVars, tried, used>>

\* recordAttempt opens the store, unless its schema is behind the command's own.
Import ==
    /\ pc = "import"
    /\ db' = IF db.file = "none" THEN [db EXCEPT !.file = "ok", !.schema = Head(self)] ELSE db
    /\ Goto("idle", "none")
    /\ UNCHANGED <<kind, svc, run, ledger, bin, fileVars, tried, used>>

\* The cases of Recover, given the step that must have succeeded for the upgrade to count.
Recovers(last) ==
    /\ pc = "idle" /\ Running
    /\ self' = bin /\ cancelled' = FALSE
    /\ \/ /\ last \in disk.ok
          /\ att' = [disk EXCEPT !.outcome = "succeeded"] /\ disk' = att'
          /\ pc' = "import" /\ ret' = "none"
       \/ /\ {last, "stop"} \cap disk.ok = {}
          /\ pc' = "resume" /\ ret' = "failed" /\ att' = disk /\ UNCHANGED disk
       \/ /\ last \notin disk.ok /\ "stop" \in disk.ok
          /\ pc' = "r_stop" /\ ret' = "none" /\ att' = disk /\ UNCHANGED disk
    /\ UNCHANGED <<bootVars, fileVars, tried, used>>

RecoverTrustsStart == Recovers("start")

\* "--recover" by the release that is installed.
Recover == Recovers("health")

\* ReapOrphans of a control plane that serves: no heartbeat, and nothing changed yet.
Reap ==
    /\ pc = "idle" /\ Running /\ svc = "up" /\ ~disk.past
    /\ disk' = [disk EXCEPT !.outcome = "failed"]
    /\ UNCHANGED <<bootVars, pc, ret, att, self, cancelled, fileVars, tried, used>>

-----------------------------------------------------------------------------
\* RequestCancel is seen by a heartbeat before commit.
Cancel ==
    /\ pc \in {"verify", "backup", "check"} /\ ~cancelled /\ Once("cancel")
    /\ cancelled' = TRUE
    /\ UNCHANGED <<bootVars, pc, ret, att, disk, self, fileVars, tried>>

Dies ==
    /\ pc' = "idle" /\ ret' = "none" /\ att' = NoAttempt
    /\ UNCHANGED <<disk, self, cancelled, fileVars, tried>>

Kill == pc # "idle" /\ Once("kill") /\ Dies /\ UNCHANGED bootVars

\* The host boots again: systemd starts the service as it does after a crash.
PowerCut ==
    /\ Once("power") /\ Dies
    /\ svc' = "crashed"
    /\ UNCHANGED <<kind, run, ledger, bin, db>>

Host ==
    \/ Apply \/ Verify \/ Backup \/ MigrationCheck \/ Stop \/ Swap \/ Start \/ Health \/ Record
    \/ RollbackStop \/ RollbackSwap \/ RollbackDatabase \/ RollbackCreate \/ RollbackCopy
    \/ RollbackStart \/ RollbackWait \/ Unstop \/ Tidy \/ Close \/ Import \/ Recover

HostFaults == Fails({"backup", "check", "stop", "swap", "start"}) \/ RollbackFails \/ Cancel \/ Kill

\* The old release serves again, from its own database, after the new one was in place.
PutBack == run = Old /\ bin = Old /\ tried /\ "before" \in db.rows

Service ==
    \/ (Boots \/ SocketActivates \/ (PutBack /\ Writes("after"))) /\ UNCHANGED used
    \/ SafeModeRetry /\ Once("retry")

Next ==
    /\ UNCHANGED site
    /\ \/ Host \/ HostFaults \/ Reap \/ PowerCut
       \/ Service /\ UNCHANGED <<hostVars, fileVars, tried>>

\* The command's own steps, the operator who runs --recover, and a service whose boot ends
\* and whose supervisor restarts it.
Spec ==
    /\ Init /\ [][Next]_vars
    /\ WF_vars(Host /\ UNCHANGED site)
    /\ WF_vars(Boots /\ UNCHANGED <<site, hostVars, fileVars, tried, used>>)

-----------------------------------------------------------------------------
\* While an attempt may have to be undone, all that undoing it needs is journaled and kept:
\* whatever the moment the command dies at, the journal says the service was stopped, and the
\* previous binary is there (apply.go:211, runner.go:109).
Recoverable ==
    Running /\ "health" \notin disk.ok /\ (bin = New \/ (disk.past /\ SchemaChanged)) =>
        "stop" \in disk.ok /\ disk.prev /\ prev /\ (disk.snap => snap.file = "ok" /\ "before" \in snap.rows)

Finished == Running /\ ~Running'

\* An attempt closes with the outcome that is true of the host.
OutcomeTrue ==
    [][Finished =>
        CASE disk'.outcome = "succeeded" -> bin' = New /\ "before" \in db'.rows /\ db'.schema = Head(New)
          [] disk'.outcome = "rolled_back" -> bin' = Old /\ db'.schema = Head(Old)
          [] "stop" \in disk.ok -> TRUE
          [] OTHER -> bin' = Old /\ db'.schema = Head(Old) /\ "before" \in db'.rows]_vars

\* What the previous release recorded after it was put back is not discarded by a second
\* recovery of the same attempt.
AfterKept == [][db.file = "ok" /\ "after" \in db.rows => "after" \in db'.rows]_vars

\* A release that cannot start is not restarted for ever.
CrashLoopEnds == <>[](svc # "crashed")

\* An interrupted attempt is finished.
Settles == Running ~> ~Running

\* systemd, --recover: neither a release that cannot start nor an interrupted attempt lasts.
AttemptEnds == CrashLoopEnds /\ Settles

\* "the database needed no restore so no changes were lost" (runner.go:235)
LossReported == disk.outcome = "rolled_back" /\ ~disk.restored => "before" \in db.rows

=============================================================================
