---------------------------- MODULE ServiceBoot ------------------------------
(***************************************************************************)
(* How the control plane's service starts, stops and gives up              *)
(* (cmd/levelrail/boot_run.go and boot_safemode.go over the boot ledger of *)
(* internal/safemode), under a unit that restarts it on failure and whose  *)
(* sockets start it on traffic.  Two releases exist: Old, and New, which   *)
(* has migrated its database to a schema Old refuses to open.              *)
(***************************************************************************)
EXTENDS Naturals

CONSTANT Threshold  \* Policy.Threshold: failed boots before safe mode

ASSUME ThresholdAssumption == Threshold \in Nat \ {0}

Old == 1
New == 2

\* What is wrong with the new release: nothing, it exits once its store is open, a
\* migration fails on the live data, it serves but is never ready.
Kinds == {"good", "crashes", "migration", "mute"}

VARIABLES
    kind,    \* what is wrong with the new release
    svc,     \* "down", "booting", "up", "safe" (mode), "crashed", "refused" (exit status 78)
    run,     \* the release the process runs, or last ran
    ledger,  \* boot-ledger.json: failures, healthy
    bin,     \* the release installed at BinaryPath
    db       \* the live database file: ok, none or torn; its schema and rows

bootVars == <<kind, svc, run, ledger, bin, db>>

\* The schema head of a release; a migration that fails leaves the one between.
Head(r) == IF r = Old THEN 1 ELSE 3
Midway == 2

\* What the old release recorded before the upgrade and after it was put back.
Rows == {"before", "after"}
Databases == [file : {"ok", "none", "torn"}, schema : 0..3, rows : SUBSET Rows]

NoDatabase == [file |-> "none", schema |-> 0, rows |-> {}]
TornDatabase == [file |-> "torn", schema |-> 0, rows |-> {}]

BootTypeOK ==
    /\ kind \in Kinds
    /\ svc \in {"down", "booting", "up", "safe", "crashed", "refused"}
    /\ run \in {Old, New} /\ bin \in {Old, New}
    /\ ledger \in [failures : 0..Threshold, healthy : BOOLEAN]
    /\ db \in Databases

BootInit ==
    /\ svc = "up" /\ run = Old /\ bin = Old
    /\ \E h \in BOOLEAN : ledger = [failures |-> 0, healthy |-> h]
    /\ db = [file |-> "ok", schema |-> Head(Old), rows |-> {"before"}]

-----------------------------------------------------------------------------
BegunUncounted(l) == [l EXCEPT !.healthy = FALSE]

\* Ledger.Begin on a process start: a start that was never marked counts as a failure.
\* The count has no use past the threshold and is capped there.
Begun(l) ==
    LET n == IF l.healthy THEN l.failures ELSE l.failures + 1
    IN  [failures |-> IF n > Threshold THEN Threshold ELSE n, healthy |-> FALSE]

Starts(l) ==
    /\ ledger' = Begun(l)
    /\ svc' = IF ledger'.failures >= Threshold THEN "safe" ELSE "booting"
    /\ run' = bin

Clean(l) == [l EXCEPT !.healthy = TRUE]

SafeModeOverfull == [failures |-> Threshold + 1, healthy |-> TRUE]

\* ExitSafeMode: the next start gets one more attempt.
SafeModeLeft == [failures |-> Threshold - 1, healthy |-> TRUE]

\* What a SIGTERM can leave of the ledger: a cancelled store open ends in safe mode, which
\* then exits at once; a boot that is past it ends clean, with an error or with a signal.
LedgersAfterStop ==
    CASE svc = "up" -> {Clean(ledger)}
      [] svc = "safe" -> {SafeModeLeft}
      [] svc = "booting" -> {ledger, Clean(ledger), SafeModeLeft}
      [] OTHER -> {ledger}

\* The migrations of a boot that is stopped may have got half way.
DatabasesAfterStop ==
    {db} \cup IF svc = "booting" /\ run = New /\ db.file = "ok" /\ db.schema = Head(Old)
              THEN {[db EXCEPT !.schema = Midway]} ELSE {}

\* systemctl stop
Stops ==
    /\ ledger' \in LedgersAfterStop
    /\ db' \in DatabasesAfterStop
    /\ svc' = "down"
    /\ UNCHANGED <<kind, run, bin>>

\* systemctl restart
Restarts ==
    /\ \E l \in LedgersAfterStop : Starts(l)
    /\ db' \in DatabasesAfterStop
    /\ UNCHANGED <<kind, bin>>

-----------------------------------------------------------------------------
\* openStore: a missing file is created, an older schema is migrated.
Opened(d) == [d EXCEPT !.file = "ok", !.schema = Head(run)]

BootCorrupt ==  \* quick_check fails
    /\ svc = "booting" /\ db.file = "torn"
    /\ svc' = "safe"
    /\ UNCHANGED <<kind, run, ledger, bin, db>>

BootRefused ==  \* the database is newer than the binary
    /\ svc = "booting" /\ db.file = "ok" /\ db.schema > Head(run)
    /\ svc' = "refused"
    /\ UNCHANGED <<kind, run, ledger, bin, db>>

MigrationFails ==
    /\ svc = "booting" /\ db.file = "ok" /\ db.schema < Head(run) /\ kind = "migration"
    /\ \E s \in {db.schema, Midway} : db' = [db EXCEPT !.schema = s]
    /\ svc' = "safe"
    /\ UNCHANGED <<kind, run, ledger, bin>>

BootEnds ==
    /\ svc = "booting" /\ db.file # "torn" /\ db.schema <= Head(run)
    /\ db.file = "none" \/ db.schema = Head(run) \/ kind # "migration"
    /\ db' = Opened(db)
    /\ svc' = IF run = New /\ kind = "crashes" THEN "crashed" ELSE "up"
    /\ UNCHANGED <<kind, run, ledger, bin>>

\* HealthyAfter has passed while serving.
MarkHealthy ==
    /\ svc = "up" /\ ~ledger.healthy
    /\ ledger' = [failures |-> 0, healthy |-> TRUE]
    /\ UNCHANGED <<kind, svc, run, bin, db>>

\* Restart=on-failure, but not after exit status 78; or the host boots again.
SystemdRestarts ==
    /\ svc = "crashed" /\ Starts(ledger)
    /\ UNCHANGED <<kind, bin, db>>

\* Traffic on a listening socket starts a service that does not run.
SocketActivates ==
    /\ svc \in {"down", "refused"} /\ Starts(ledger)
    /\ UNCHANGED <<kind, bin, db>>

\* "Retry boot" on the recovery page: Ledger.Reset, exit 75, restart.
SafeModeRetry ==
    /\ svc = "safe" /\ Starts([failures |-> 0, healthy |-> TRUE])
    /\ UNCHANGED <<kind, bin, db>>

\* The running release records something in the database it has open.
Writes(row) ==
    /\ svc = "up" /\ db.file = "ok" /\ db.schema = Head(run) /\ row \notin db.rows
    /\ db' = [db EXCEPT !.rows = @ \cup {row}]
    /\ UNCHANGED <<kind, svc, run, ledger, bin>>

\* What /healthz and /readyz answer.
Ready == svc = "up" /\ ~(run = New /\ kind = "mute")

Boots ==
    \/ BootCorrupt \/ BootRefused \/ MigrationFails \/ BootEnds
    \/ MarkHealthy \/ SystemdRestarts

=============================================================================
