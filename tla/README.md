# Levelrail: formal models

TLA+ models of the control plane of Levelrail, a self-hosted PaaS, model-checked
with TLC and proved with TLAPS. The modules sit beside the code they describe;
`PROJECT.json` maps every definition to the lines it translates, and lists the
runs, the mutants that show each property can fail, the findings, the hazards
and the theorems.

## 1. The system

One Go binary (`cmd/levelrail`) holds the desired state in SQLite and converges
Docker hosts towards it with level-triggered controllers. It reaches containers
through `agent.Transport` (the local Docker socket, or a node agent over gRPC),
embeds Caddy as ingress, builds images, runs pipelines, backs up databases and
ships their WAL, and serves an HTTP API to the dashboard, the CLI and the MCP
server.

### 1.1 Components

| component | code | state it keeps | operations | hard behaviour |
|---|---|---|---|---|
| reconcile engine, loop | `internal/reconcile/engine.go`, `requeue.go` | nudge channel, deferred-pass timer, requeue streaks | `Run`, `trigger`, `pass`, `Nudge`, `scheduleRequeue` | coalesced triggers, rate-limited passes, shutdown in the middle of a pass |
| reconcile engine, keyed pool | `internal/reconcile/workqueue.go` | `pending`, `order`, `inflight`, `live`, workers | `add`, `requeue`, `retain`, `next`, `close` | lost wake-ups, per-app exclusion, deletion racing with a run or a timer |
| reconcile engine, storm guard | `internal/reconcile/guard.go` | token buckets, one breaker per controller | `AllowPass`, `Before`, `After`, `Reset` | a reset racing with a run, half-open probes, back-off at its cap |
| reconcile engine, status ledger | `internal/reconcile/persist.go` | last signature and time written per controller | `due`, `record`, `forget` | a suppressed write after a row was deleted |
| application controller | `internal/reconcile/application` | containers of one app, shared trackers | blue-green, recreate, rolling, readiness, drain, pinned-port hand-off | crash or supersede in the middle of a cut-over, outage windows |
| database, node, mesh, ingress controllers | `internal/reconcile/*` | one resource each | `Reconcile` | ordering against the app controller |
| deploy orchestration | `internal/deploy`, `internal/deploysafety`, `internal/rolloutpolicy`, `internal/canary` | deploy rows, phases | start, promote, roll back | concurrent deploys of one app |
| node failure policy | `internal/nodefailure`, `internal/api/node_move_exec.go` | `node_failure_state` per node | tick, `MarkLost`, `Resolve` | a node that drops again while it recovers; calls beside a tick; a restart before a save |
| pending teardowns | `delete_finalizer.go`, `internal/api/apps_delete.go`, `apps_placement.go` | `pending_teardowns` rows | queue, tear down, clear | a teardown that runs while the app is placed back |
| node moves, orphan reaper | `internal/nodemove`, `internal/orphans` | move rows; grace per unknown container | plan, move, roll back; reap | a move cut in the middle; a container that is known again |
| node agent, sessions and calls | `internal/agent/server.go`, `transport.go`, `mux.go` | table of sessions, registry of transports, node status; per session the pending calls | `Session`, `trackSession`, `Disconnect`, `request`, `recvLoop`, `shutdown` | sessions of one node that overlap; a call that registers while the multiplexer fails its calls |
| node agent, remote exec | `mux.go`, `grpc_transport.go`, `exec_relay.go` | per exec: subscription, four channels, credits, counts of consumed chunks | `startExec`, `Read`, `pumpStdin`, `Start`, `run`, `relayOutput`, `Cancel` | credits against bounded channels; a session that ends in the middle of a stream; cancels beside an attach |
| sleeping apps | `internal/appsleep` | per-app asleep flag, waiters | wake on request, put to sleep | a request racing with a stop |
| pipelines, scheduled work | `internal/pipeline`, `internal/scheduledtask`, `internal/scheduledeploy` | runs, leases | claim, run, finish | restart between claim and finish |
| backups | `internal/backup`, `internal/cpbackup` | archives, retention | snapshot, restore | crash between upload and record |
| WAL shipping | `internal/walship` | generation, offset and header of the WAL, read hold; snapshots and segments in a store | `Sync`, `newGeneration`, `checkpoint`, `Restore` | writers and checkpoints beside the copy; the swap of the hold; a shipper that dies |
| self upgrade | `internal/selfupgrade`, `internal/rollback` | journal of the attempt, previous binary, snapshot, live database | `Apply`, `Run`, `Rollback`, `Recover`, `Reap` | a kill or a power cut between an effect and its record; a recovery that dies too |
| safe mode | `internal/safemode`, `cmd/levelrail/boot_run.go` | boot ledger: failures, healthy | `Begin`, `MarkHealthy`, `MarkClean`, `Reset` | crash loop right after the swap |
| store | `internal/store` | SQLite tables | CRUD | external to the models: its rows are environment variables |
| API, CLI, MCP, dashboard, templates, importers, mail | `internal/api`, `cmd/levelrail-cli`, `cmd/levelrail-mcp`, `web`, ... | request-scoped | HTTP handlers | mostly I/O and formatting |

### 1.2 How the parts interact

The API writes desired state and nudges the engine. The engine's single `Run`
goroutine makes passes: a pass runs the fixed controllers, asks the *source* for
one controller per app and database, runs those inline or hands them to the
keyed pool, then tells the pool which names are still live. A controller reads
the store, observes containers through the transport and changes them; its
`Result` may ask for another look, either of the whole engine
(`scheduleRequeue` -> `Nudge`) or of its own key only (a timer that re-adds the
instance to the pool). The guard stands in front of every pass and every run.

### 1.3 What makes each part correct

- *Loop*: a trigger is never lost, a cancelled loop returns, a pass under way may finish within
  the drain time.
- *Pool*: one run per app, every added app runs, a deleted app stops, `close` ends.
- *Storm guard*: a failing controller is left alone as long as its failures earned, and is
  probed in the end; a reset works at once.
- *Status ledger*: what the store shows is what a controller last said, at most a refresh late.
- *Application controller*: something healthy goes on serving; what was stopped for a candidate
  comes back or is replaced; two containers never share a writable volume; a rolling
  deploy never falls below its budget.
- *Database and other controllers*: idempotent, and never ahead of what they depend on.
- *Deploys, canaries*: of two deploys the later one wins; a roll-back restores what served.
- *Node failure, moves, teardowns*: data is not moved by itself, stateless apps are, no copy runs
  where it is not placed, a cordon is returned.
- *Node agent*: one current session per node; every call ends, with an answer or an error; a
  stream respects its credits, arrives in order, and a broken one never ends like a whole one.
- *Sleeping apps*: a request wakes its app; an app with requests in flight is not stopped.
- *Pipelines, scheduled work*: a job runs once per claim, a missed run is not run twice.
- *Backups*: what is recorded can be restored.
- *WAL shipping*: the newest generation restores the state after some transaction, and loses
  none that a finished sync has shipped.
- *Self upgrade, safe mode*: whatever dies and when, the record and the files can undo the
  upgrade; the outcome it states is true; writes of the release put back are not undone by a
  second recovery; a crash loop ends in safe mode.

## 2. Modules

| module | models | extends / uses |
|---|---|---|
| `KeyExecutor` | the abstract executor: what the keyed pool promises the engine | |
| `KeyQueue` | `internal/reconcile/workqueue.go` and the calls of `engine.go` that feed it | implements `KeyExecutor` |
| `MCKeyQueue` | small instances, symmetry, a specification with a fixed set of apps | `KeyQueue` |
| `KeyQueueProofs` | theorems about `KeyQueue` | `KeyQueue` |
| `EngineLoop` | `Engine.Run`: triggers, pass budget, requeue back-off, drain | |
| `Breaker` | `guard.go`: bucket and circuit breaker of one controller | |
| `EngineProofs` | theorems about `EngineLoop` and `Breaker`, whose names differ for that | `EngineLoop`, `Breaker` |
| `Handoff` | the blue-green pass of `internal/reconcile/application` | |
| `HandoffProofs` | theorems about `Handoff` | `Handoff` |
| `MCHandoff` | the settings the run starts from | `Handoff` |
| `NodeFailure` | `internal/nodefailure`, its executor in `internal/api`, the pending teardowns of moved apps | |
| `NodeFailureProofs` | theorems about `NodeFailure` | `NodeFailure` |
| `MCNodeFailure` | the settings the runs start from | `NodeFailure` |
| `AgentSession` | `Server.Session`, the registry, the multiplexer's calls | |
| `AgentSessionProofs` | theorems about `AgentSession` | `AgentSession` |
| `ExecPromise` | the abstract exec: a pipe out, a pipe in, and how each may end | |
| `ExecStream` | one remote exec at both ends of a session | implements `ExecPromise` |
| `ExecStreamProofs` | theorems about `ExecStream` | `ExecStream` |
| `MCExecStream` | the commands and inputs the run starts from | `ExecStream` |
| `ServiceBoot` | how the service starts, stops and gives up, over the boot ledger | |
| `SelfUpgrade` | the host command that upgrades, rolls back and recovers | `ServiceBoot` |
| `SelfUpgradeProofs` | theorems about `SelfUpgrade` | `SelfUpgrade` |
| `MCSelfUpgrade` | the releases and bounds the runs start from | `SelfUpgrade` |
| `WalShip` | the shipper, SQLite's WAL beside it, and `Restore` | |
| `MCWalShip` | the bounds the runs start from | `WalShip` |
| `WalShipProofs` | theorems about `WalShip` | `WalShip` |

Each module relies on the ones above it through a fact it states: `Handoff` has one pass of a
service at a time and `Breaker` one run of a controller at a time because `KeyQueue` has
`PerKeyExclusion`; the runs of the pool may be cut in the middle because `EngineLoop` and
`KeyQueue` end contexts after the drain time. `SelfUpgrade` is a composition: the host command
and the service are two processes that share the installed binary, the database and the unit's
state. `ExecStream` has one session, the current one of `AgentSession`, with the order of
delivery gRPC gives a stream.

### 2.1 KeyQueue and KeyExecutor

| model | code |
|---|---|
| `pending`, `order`, `inflight`, `live` | the fields of `keyQueue`; `order` is the relation "is ahead of", so the place of a name survives what happens to the others |
| `pc`, `hold`, `cut` | where a worker is in `worker`/`next`, the instance it took, whether its run's context has ended |
| `passNo`, `todo`, `passLive`, `phase` | `ReconcileAll`: the instances of the pass under way |
| `timers`, `checked` | armed `time.AfterFunc`s; instances between `requeue`'s check and its `add` |
| `Add` | `add`, signalling one waiter |
| `Take`, `Wait`, `Exit` | the three ends of `next`'s loop |
| `RunReturn`, `Release`, `Rebroadcast` | the controller returns, the entry of `inflight` goes, the broadcast follows outside the lock |
| `PassStart`, `PassSourceError`, `PassAdd`, `PassRetain` | one pass; `PassRetain` is `retain` |
| `RequeueCheck`, `RequeueAdd` | the two lock sections of `requeue` |
| `Stop`, `DrainCut`, `CloseReturn` | `close`: up to its unlock, the drain limit, the return |
| `raced` | history: names that came back through the window of `requeue` |

One section under `q.mu` is one action; what happens between two sections is a step of its
own. `KeyExecutor` knows wanted names, names in a run, runs whose context has ended, and
whether work is accepted; the mapping reads `wanted` off `pending`, `busy` off `inflight` and
`ended` off `cut`.

### 2.2 EngineLoop and Breaker

`EngineLoop` is the `select` of `Run` with every channel and timer as state: the nudge
channel's one place, the ticker's, Docker events, `alarms` (all `AfterFunc`s that nudge),
`deferLeft` (the deferred pass), `tokens` (the budget in parts of a token), `cutLeft` (what is
left of the drain time of a pass whose context has ended). The desired state is a version, a
pass records the version it began with. `Clock` lets one millisecond pass, also while a pass
runs; a timer that is due stays due until the loop notices it.

`Breaker` is `Before`, `After` and `Reset` of one controller; `nextWait` carries the product
of the doublings, so that the model needs no growing counter; `WaitAfter` says, from the words
of the configuration fields, what the n-th failure in a row should cost.

### 2.3 Handoff

A release is the container of one image. The pass of a service is a chain of actions, one
call of the Docker runtime each, and `pc` says where it is:

| place | code |
|---|---|
| `revive` | `reviveIfDead` at the head of `reconcileDesired` |
| `supersede`, `putback` | `abortSuperseded`: the candidate of an overtaken deploy goes, what it had stopped is restarted |
| `ensure`, `release`, `stop`, `create`, `recreate` | `ensureReplicaRunning`, `planHandoff`, `releasePinnedPort`, `createAndStart` |
| `judge` | `awaitReady`, `probeCandidate`, `readinessVerdict`, deferred or waited for |
| `abort`, `restore` | `abortHandoff` and the restarts it owes |
| `prune`, `last` | `pruneSupersededPrevious`, `reviveLastReady` |
| `retire`, `steady` | `retireStale` |

`pending` is the tracker shared by all instances (`PendingReadiness`), `blocked` the field of
one instance, which the next pass no longer has; `label` is what a candidate's container
remembers for the time after a restart of the control plane. Containers die, deploys land and
the control plane stops between any two actions; `ghosts` are containers the snapshot of the
pass still lists as running.

Calls fail in three ways. A start fails (`Fault`). A stop or a removal fails (`Stuck`), with its
effect or without: `StopHolderFails`, `RemovalTried`. A read of Docker fails (`Blind`): the
inspection or the listing before a candidate is created (`LooksFail`); the inspection of the started
candidate (`controller.go:1122`), which ends the pass with nothing put back and no record left
(`Create`); the listing that should find what a record names (`readiness_requeue.go:243`), after
which the record is gone (`FailsBlind`, `AbortSuperseded`, `TakesOver`, `Adopt`); the listings of
`pruneSupersededPrevious` and `retireStale` (`SeesNothing`); the check of a ready container's image
(`controller.go:1243`), which prunes where it would retire (`JudgeReady`, `StillReady`); and the
address to probe, which fails a candidate (`JudgeFails`) and lets a release of an earlier pass count
as ready (`controller.go:2447`, `StillReady`).

Narrowed: one replica; blue-green; creation times differ; `RecoverRestartRollout`, errors of
the store, Suspended and Maintenance, run-to-completion services, retained deploys and
`PinnedPortNotPublished` are left out, and a failed start whose container cannot be removed either;
a failing pre-deploy hook is a failing creation; the
stability gate is part of the verdict; the drain window and the hold of `retireStale` are any
choice of running containers to keep; a drift is one that does not change the pins; a key-only
run of an older instance begins like a new pass.

### 2.4 NodeFailure

| model | code |
|---|---|
| `row` | `node_failure_state`: phase, cordoned, the action of every app |
| `st`, `knew`, `was`, `todo`, `aim` per run | the copies a tick or an API call works on from its load to its save |
| `tomb`, `jobs`, `ending` | `pending_teardowns`; teardowns that run; finished ones whose tombstone is not cleared yet |
| `TickUnreachable`, `Merge`, `Cordon`, `NoTarget`, `Aims`, `Places`, `PlaceFails`, `AppsDone`, `Save` | `process.go`: unreachable, merge, cordon, the loop over the actions, save |
| `TickHealthy`, `FenceLooks`, `FenceStops`, `FenceFails`, `FencesDone`, `Uncordon`, `Delete` | `process.go`: healthy, fence, clear |
| `MarkLost`, `ResolveWait`, `ResolveRestore`, `Restore`, `RestoreFails` | `operator.go` and its handlers |
| `FinalizerVisits`, `TearsDown`, `ClearsTombstone` | `delete_finalizer.go` and the background teardown of a move |
| `Converges`, `OperatorMoves`, `OperatorUncordons` | the application controller on a reachable node, a move or an uncordon from the API |

Narrowed: one node fails; the policy does not change during a failure; any healthy node may
be the target; previews and errors of listing and loading are left out; `NodeOf` and
`PickTarget` are read in the step that uses them; the finalizer's drop check and its delete are
one step; apps and nodes are not deleted.

### 2.5 AgentSession

| model | code |
|---|---|
| `stage`, `kicked` | where the handler `Server.Session` of a connection is; its closed `kick` channel |
| `sessions`, `registry`, `status` | `Server.sessions[node]`, `Registry.byID[node]`, the node's row |
| `mux`, `pending`, `taken` | the multiplexer, the calls it knows, the calls its `shutdown` took out under the lock |
| `asked`, `answered`, `call` | requests and answers on the stream; where a caller is, on which session, its channel |
| `Connect`, `Track`, `Register` | `Session` up to its `select`: the status, `trackSession` with the displaced session's kick, `Registry.Register` |
| `Untrack`, `Unregister`, `MarkOffline` | its end: `untrackSession`, and the two steps after the lock is free |
| `Disconnect`, `StreamEnds` | the operator; the stream breaks, or the handler has returned |
| `Deliver`, `ShutdownTakes`, `ShutdownCloses` | `recvLoop`: `deliver`, and the two halves of `shutdown` |
| `Find`, `RegisterCall`, `Send`, `Return`, `Expire`, `Answer` | `Registry.Get`, the parts of `CallWithID`, the node's answer |

### 2.6 ExecStream and ExecPromise

`ExecPromise` is what a user of a remote exec relies on: two pipes that neither drop nor
reorder, an end of file only after everything written before it, and, for a command that works
on its whole input, only if it was given the whole input. `ExecStream` is the machinery: the
session is two queues (`down`, `up`), every frame carries its number, `LinkEnds` breaks the
session and keeps any prefix of what is in flight in either direction.

| model | code |
|---|---|
| `call`, `sub`, `why`, `outq`, `credq` | `startExec` and `execSub`: its state, error and two channels (a window and one frame long) |
| `got`, `consumed`, `fin` | `execStream.Read`: chunks read, chunks not refunded yet, the end the reader saw |
| `pump`, `pcredit`, `sent`, `eof` | the control plane's `pumpStdin` |
| `live`, `ex`, `stopped`, `inq`, `acredq` | `ExecRelay.live`, `run`, `agentExec.stop`, its two channels |
| `rcredit`, `made` | `relayOutput` |
| `apump`, `written`, `aconsumed`, `stdin` | the node's `pumpStdin` and the pipe to the command |
| `Start`, `GiveUp`, `RecvAck`, `RecvOutput`, `RecvCredit`, `Shutdown` | `startExec`, its watcher and `Close`, the cases of `recvLoop`, `shutdown` |
| `ReadChunk`, `ReadEnd`, `PumpChunk`, `PumpEnd`, `PumpRefunded`, `PumpStops` | `Read` and `pumpStdin` |
| `GetStart`, `GetInput`, `GetCredit`, `Cancelled`, `Attach` | the agent's receive loop, `Cancel` and `CloseAll`, `attachLocal` |
| `RelayChunk`, `RelayRefunded`, `RelayEnds`, `RunEnds`, `Stdin...` | the goroutines of `run` |

A frame that finds its channel full is an action of its own kind (`FailExec`, `RelayFails`): the
model does not assume that the credits work, `WindowKept` says so. Narrowed: `failExec` of the
relay discards, stops and reports in one step; a terminal and its resizes, archives and file
requests, and image builds (the same frames around another payload) are left out; a node sends
its terminal frame as `eof` or `failure`.

### 2.7 SelfUpgrade and ServiceBoot

`ServiceBoot` is the service: `boot_run.go` over the boot ledger, the store that migrates when it
opens, and the unit, which restarts a crash at once and starts the service on traffic.
`SelfUpgrade` is the host command. Both act on `bin`, `db` and `svc`; the command's memory
(`pc`, `ret`, `att`) dies with a kill, the journal (`disk`), the files (`prev`, `snap`, `aside`)
and the database do not.

| model | code |
|---|---|
| `Begun`, `Clean`, `LedgersAfterStop`, `MarkHealthy`, `SafeModeLeft` | `ledger.go`: `Begin`, `MarkClean`, `MarkHealthy`, `ExitSafeMode` |
| `BootCorrupt`, `BootRefused`, `MigrationFails`, `BootEnds`, `SystemdRestarts`, `SocketActivates` | a boot: the quick check, a database newer than the binary, a migration that fails, a boot that serves, crashes or ends in safe mode; the unit |
| `Verify`, `Backup`, `MigrationCheck`, `Stop`, `Swap`, `Start`, `Health`, `Record` | the steps of `Apply`; a step's function is one action and its journal entry (`Record`) the next |
| `RollbackStop` ... `RollbackWait`, `RollbackFails` | `rollbackAndFinish`; the database's rename, creation and copy are three actions |
| `Recover`, `Reap`, `Cancel`, `Close`, `Tidy`, `Import` | `Recover`, the reaper of dead attempts, `tryCancel`, the last record, the clean-up |
| `Kill`, `PowerCut` | the command dies alone, or with the service |

A release is good, exits once its store is open, has a migration that fails on the live data, or
serves and is never ready. Narrowed: one upgrade; the checks before the backup only look and are
one step; a save of the journal does not fail; snapshots of the recovery page are left out.

### 2.8 WalShip

A page holds the number of the transaction that wrote it last, so the file, the WAL, the
snapshots and a restored copy are functions from pages to numbers, and a consistent one is
`State(k)` for some `k`. SQLite is external: `Spill`, `Commit`, `Rollback`, `Backfill`,
`Restarts`. The shipper's steps are `Sync`, `List`, `CopyPage`, `PutSnapshot` (`newGeneration`,
one page at a time), `Header`, `Frames`, `Size`, `Swap` (`syncLocked` and `checkpoint`), `Kill`;
`Restored` is `Restore`, the image of the newest generation. A Put that fails may have stored its
object, as an `ObjectSink` that runs into its timeout may have (`sink_object.go:86`); one that
takes effect only after it has returned is not modelled. `size` is the size of the WAL file, which
does not shrink when the WAL starts anew. History: `synced`, by generation, what was committed before
the last Sync that returned nil, also one that ships to a generation without a snapshot; `taken`, the
generations whose snapshot was put without an error; `settled`, those of them whose WAL was read
afterwards.

## 3. What is checked

Every property of a passing run has a mutant in `PROJECT.json`: a plausible bug in a mapped
definition under which TLC finds the property violated.

| run | instance | question |
|---|---|---|
| `keyqueue` | 2 apps, 2 workers, 2 passes, any timers | exclusion, `PoolSound`, no lost wake-up, refinement of `KeyExecutor` |
| `keyqueue_live` | 3 apps that stay, 2 workers, 1 pass, endless requeues | no queued app starves; `close` returns |
| `engine_loop` | budget of one pass, resync 1, boot timer 2, requeue 1 doubling to 2, drain 1, 1 write, 1 event, an event stream that may close | `NothingLost`, a pass is not cut early, `RunGoesOn` |
| `breaker` | threshold 3, waits 1 to 6, 7 failures in a row | a reset takes effect, the wait earned is kept, an open breaker is probed |
| `handoff` | 8 settings, up to 3 releases and 3 deploys, a death, a restart, a drift, failed starts, stops, removals and reads | how the last release that serves may end; what was stopped stays owed a restart; served again; a take-over ends with a release that runs |
| `nodefailure` | 7 settings, 2 apps (one a database), 3 nodes | `RecoveredClean`, data stays, wanted copies kept, `FailureHandled` |
| `session` | 2 sessions of a node, one may be disconnected by the operator, 1 call | `SessionsSound`, `SessionsEnd` |
| `exec` | window 4, batch 2; output of 7 and 5 frames, input of 4 and 5 | no channel overruns, refinement of `ExecPromise`, `ExecEnds` |
| `upgrade` | 4 kinds of release, with two kills, a kill and a failing call, a kill and a power cut, or a cancel, a retry and a skipped backup | recoverable at every moment, true outcomes, later writes kept, `AttemptEnds` |
| `upgrade_loss` | a kill and a power cut | finding: a lost database reported as "no changes were lost" |
| `walship` | 2 pages, up to 3 transactions, checkpoint limit of 1 frame, 4 settings with Puts that fail, a kill, a lost hold | the newest generation, once its snapshot was put without an error and its WAL was read, restores a consistent prefix |
| `walship_loss` | 1 transaction, a snapshot Put that fails | finding: a Sync returns nil and nothing can be restored |

Properties with several parts:

- `PoolSound`: `QueueShape` (`pending` and `order` agree, `order` is a line), `OnlyLiveRuns` (what
  is queued or runs is live, or came back through the window of `requeue`), `OneTokenPerInstance`
  (an instance is in one of pass, queue, run, timer), `DrainEndsRuns` (after the drain limit no
  run has a context that holds).
- `NothingLost`: `NoLostWrite`, `NoLostRequeue`, `DeferralSuffices` (the deferred timer fires with
  a whole token). `RunGoesOn`: every write is seen by a later pass, a cancelled `Run` returns.
- `RecoveredClean`: `StraysFenced` and `CordonReturned`; `FailureHandled`: stateless apps are
  rescheduled, and the failure's row is cleared once the node stays up.
- `SessionsSound`: `OneCurrent`, `CallsKnown`. `SessionsEnd`: calls over a session that ends
  return, superseded sessions go.
- `ExecEnds`: `StreamEnds` for a caller that reads on, `NodeReleased` once the caller is done.
- `AttemptEnds`: `CrashLoopEnds`, `Settles`.

### 3.1 Bounds, and why they are enough

*KeyQueue.* Two workers and two names are the least with a worker that sleeps while another
finishes a busy name; two passes are the least with two instances of one name, a name deleted
between them and a timer that outlives its pass. All safety properties of this run are
theorems as well, so the bounds do not limit them. The liveness run has three names, so that
there is one that waits behind two that come back; apps stay in it, because a name whose app
is deleted leaves the queue without being run.

*EngineLoop.* The times are as small as they can be with all orders of resync, requeue, boot
and deferred timer; the five safety properties are theorems for all of them. One write is
enough for "every write": each is followed by its own nudge, and `NoLostWrite` speaks of the
newest.

*Breaker.* The wait doubles three times and then stays at its cap (1, 2, 4, 6), with a
threshold above two, so that a reset may be followed by a failure that does not open it.

*AgentSession.* Two sessions are the least that overlap, and in both orders; the disconnect of one
of them is the third way a session learns that it must go. A call is one among others only in its
multiplexer's list, so one call is enough for liveness; the safety properties are theorems for
any number of both.

*ExecStream.* The batch is half the window, as in the code (64 frames and 32). Output and input
must pass the window, so that both wait for a refund and go on: 7 frames are the window, a batch
and one. The two directions are full in different settings and both busy in the last one. A
session breaks once, a caller gives up once, an attach fails once; `TypeOK` and `WindowKept` are
theorems for any window, batch, command and input.

*SelfUpgrade.* Two kills are the least with a recovery that dies as well; a kill and a power cut
the least with a service that boots between two steps of a rollback. The threshold of two failed
boots is the least that tells a first failure from the last one. The four safety properties are
theorems for any number of kills, power cuts, failures, cancels and retries and any threshold.

*WalShip.* Two pages are the least that can be torn; three transactions the least with one in the
snapshot, one in a segment and one that restarts the WAL between them; the limit of one frame
makes each sync try a checkpoint. One Put that fails is enough for a snapshot or a segment that is
stored and not known to be; `ConsistentPrefix` is a theorem for any number of them.

*Handoff, NodeFailure.* A state space that has every event at once is too large; the runs
start from a handful of settings, each with the events that interact. For the hand-over: three
releases with a failed read, two releases deployed in turn with a death, a restart and a failed
removal, the blocking wait with a death and a failed start, and on a pinned port a death, a
drift, a failed start, a restart, a failed stop and a failed read in four combinations, one of them
under a policy that keeps the only replica; and a shared volume. Its safety properties are theorems for
any settings and any number of events; the bounds limit `ServedAgain` and `TakeOverEnds`. For node
failures: a node that drops again while it recovers with failed calls and teardowns;
calls of the API beside a tick; a restart with a move. Two drops are needed for a fence that
races with the next loss, two API calls for a restore after `MarkLost`. Where a property holds
only in some of the settings or with exceptions it says so in its own text (`KeepsOne`, `Mode`,
`Calm`, the cases of `TakeOverEnds`).

### 3.2 Fairness, and what the code has for it

- `KeyQueue`: each worker's own steps and each run. Goroutines are scheduled; a run ends by
  its deadline, since every controller takes a context. One pass, once begun, goes on; close
  goes on. Nothing forces a timer to fire, an app to exist or the program to stop.
- `EngineLoop`: weakly fair `Clock`, the end of a pass and the nudge an API handler owes;
  strongly fair cases of the `select`, because Go picks among the ready ones at random, so that
  none is passed over for ever.
- `Breaker`: `Before` is asked on every resync, time passes, a run ends.
- `Handoff`: passes go on (the resync ticker), and the readiness budget, the restart back-off
  and the retry delay pass. Deploys, deaths and failures are bounded and not forced; `EnsureDrifted`
  is a choice of the environment and not part of `Pass`.
- `NodeFailure`: the ticker ticks, handlers finish, a recovery hold that counts down ends. The
  node is not forced to return: `Clears` assumes that it stays up.
- `AgentSession`: goroutines run: the steps of each handler, of each receive loop, of each caller.
  No agent must connect or answer, no operator must disconnect, no deadline must pass.
- `ExecStream`: goroutines run, the caller that reads goes on reading, and a command whose input
  has ended exits (one that does not read its input exits by itself). Nobody must start an exec,
  write, give up or break the session.
- `SelfUpgrade`: the command's own steps, which include the operator's `--recover` after a kill
  (an interrupted attempt waits for it), and the boots of the service with its supervisor. No
  kill, fault, cancel or retry is forced.
- `WalShip` states no fairness: it is checked for safety only.

`CHECK_DEADLOCK FALSE` is set where the system stops for good (a closed pool, a stopped loop, an
exec, a session or an upgrade that is over) or may have nothing left to do within its bounds
(`NodeFailure`, `WalShip`).

## 4. What is proved

The proofs are checked by TLAPS for all values of the constants that satisfy the named
assumptions of the modules (finite, non-empty sets of keys and workers; positive times and
capacities).

- `KeyQueueProofs`. `TypeCorrect`; `OneRunPerName` (`PerKeyExclusion`), inductive with the
  types; `QueueInLine` (`QueueShape`) by two lemmas about lines, one for dropping names and one
  for appending; `DrainBoundsRuns`, `OnlyLive`, which need `Shape`: between passes there is no
  answer of the source left, before the first add nothing runs; `InstanceInOnePlace`
  (`OneTokenPerInstance`), which also needs that an instance is nowhere before its pass has
  begun (`Numbered`) and that two workers never hold the same one; `WakeupsNeverLost`
  (`NoLostWakeup`) by counting: each new name comes with one signal, so the awake workers are
  never fewer than the runnable names while somebody sleeps and no broadcast is on its way.
  `ImplementsExecutor` shows that each step of the pool is a step of `KeyExecutor` or leaves
  what it sees unchanged.
- `EngineProofs`, for the run loop. The invariant `Inv` is the conjunction of the five safety properties and
  `DrainTimerNeedsDone`; each step preserves it by a lemma about `trigger` and one about the
  beginning of a pass.
- `EngineProofs`, for the breaker. `BreakerTypeCorrect`; `ResetTakesEffect` from `AfterReset`: between a reset and the
  next run at most the run in flight fails, which does not open a breaker whose threshold is
  two or more. With a threshold of one (`APP_RECONCILE_BREAKER_FAILURES=1`) that failure opens
  it, and the statement is false; the theorem has the threshold as a hypothesis.
  `BackoffNeverShortened` (`BackoffHonoured`) from `Earned`: the time since the last failure and
  what the open breaker still waits come to no less than the wait that the failures in a row
  earned, and the next wait is no shorter than that of one failure more. It needs
  `2 ^ (n + 1) = 2 * 2 ^ n`, which no back-end knows; `PowerDoubles` gets it from the number of
  subsets of a finite set.
- `KeyQueueProofs` and `EngineProofs` also put the parts together: `PoolIsSound`
  (`PoolSound`), `NothingEverLost` (`NothingLost`).
- `AgentSessionProofs`. `TypeCorrect`; `CurrentIsOne` from the place of the handlers; and
  `NoCallForgotten`, whose induction follows a call through the two lists of its multiplexer: a
  call leaves one only for the other, with an answer in its channel, or when the shutdown is
  over. `SessionsAreSound` is both (`SessionsSound`), for any number of sessions and calls.
- `ExecStreamProofs`. `NoWindowOverrun` (`WindowKept`) for any window and any batch no larger. The
  invariant counts, in each direction: the credit the sender holds, the frames in flight, the
  frames queued, the frames consumed and not refunded, and the refunds in flight and queued never
  come to more than the window (`OutWindow`, `InWindow`). A channel is one longer than the window,
  so a chunk fits; an end of the stream fits as well because its sender still holds a credit
  (`OutEnds`, `InEnds`). `Begun` says which side of an exec can have frames at all. Frames of a
  kind are counted as the cardinality of their positions, with lemmas about
  appending, popping and prefixes (a session that breaks keeps a prefix of what is in flight).
  `TypeCorrect` does not need it: a frame that finds its channel full ends the exec instead.
  `KeepsPipes` shows that `ExecStream` implements `ExecPromise` (`KeepsItsPromise`), each step
  being a step of one pipe or of neither. Its invariant says the same of both directions:
  `Pipe(q, w, open, whole, b, t)`, with `b` chunks taken of the `t` put in, holds if the queue `q`
  at the reader goes on with `b + 1`, the wire `w` goes on where the queue ends for as long as the
  reader takes from it, all `t` are there unless the session has broken, and whatever has broken,
  an end of file in either stands behind chunk `t`. It is stated by positions and predecessors, not by
  counting, so that any prefix of a wire keeps it. `EndsMean` says what an end of file stands for:
  one on its way to the caller was sent by a node that was not stopped, after its command had
  exited, and if the command reads its input to the end it had seen it; one on its way to the
  command says the caller's input was read to a clean end. `Fresh` keeps both pipes empty until
  the node begins, and `NoWindowOverrun` rules out the end the promise does not have.

- `SelfUpgradeProofs`. `TypeCorrect`, `AlwaysRecoverable` (`Recoverable`), `OutcomesAreTrue`
  (`OutcomeTrue`) and `LaterWritesKept` (`AfterKept`), from one inductive invariant. `Undoable`
  says what every step of the command leaves behind: its memory and the journal agree, nothing is
  touched before the stop is journaled, steps succeed in order, the snapshot is whole, and the
  previous binary is kept until the old release is back. `Truthful` says what the service cannot
  spoil: a release that runs on its own database (`Front`, `Back`) stays so whatever the service
  does, because only the other release migrates it away; and rows of the old release's later
  writes exist only there. Only `Close`, `Recover` and `Reap` finish an attempt, and each of them
  reads the fact it reports.

- `NodeFailureProofs`. `TypeCorrect` and `DataIsLeft` (`DataStays`) for any apps, nodes and faults,
  with the API's calls beside the ticks: what holds data is on no run's list and in no run's aim
  (`Stateless`), and a run works on a row that exists (`Rows`). `WantedCopiesKept` (`WantedKept`)
  and `CordonsAreReturned` (`CordonReturned`) for the sites of `Calm`, where at most one run is
  under way (`OneRun`), so the placement a fence has looked at is still true when it stops the copy
  (`AimAway`), and a node is unschedulable only while the row or the copy a run will save says that
  the policy cordoned it (`Cordons`). Without `Calm` both are false: a restart between the
  cordon and the save forgets the cordon, and an overlapping move brings back the app whose copy a
  fence is about to stop. `ReturnsClean` states
  `RecoveredClean`, with `StraysFenced` in it, for the sites where no operator moves an app
  (`Unmoved`). Its invariant, `Cleanly`: every stale copy on the node has its teardown queued, or its
  app is marked moved in the copy of the row that a run works on and, unless that copy has placed
  something since, in the saved row (`Covered`); what a tick is about to place is on the failed node
  still and goes elsewhere (`Aimed`); teardowns and their tombstones concern that node and apps that
  have left it (`Teardowns`); and where an operator may ask to wait, nothing has been moved
  (`Unlost`). With moves it is false: a tombstone has the app's name as its key
  (`pending_teardown.go:32`), so one move that follows a failed fence overwrites the tombstone of
  the stale copy, and so does the second of two moves. The calm sites of the run have
  one move beside teardowns that succeed.

- `HandoffProofs`, for any releases, settings and number of events. `NothingParkedForgotten`
  (`ParkedIsOwed`): each step keeps what is parked in the hands of the pass or in a record, puts it
  back, or is one of the steps that the code has no answer to: a restart of the control plane, a read
  of Docker that fails, a stop reported as failed that had its effect. It needs that a parked release
  exists, is stopped and is in no listing as running (`Parked`, the theorem `ParkedIsFound`), so that
  `Located` keeps it whenever a record is taken up; that the pass has empty hands where it drops
  them (`Placed`); and that a candidate that is created or judged has no record that its own would
  replace (`~Tracked`). `TypeCorrect` (`TypeOK`): what Docker holds (`Docked`) and what the controller
  notes (`Noted`) keep their kinds, and the containers are ordered by age, which needs that a
  candidate is only created where none exists (`Placed`); that order (`born`) is a relation, as what
  filters a sequence is an induction.

  `ServingKept` (`LastServingKept`) goes through the steps that can end a container. Its invariant adds
  to the types that what retires the others was ready or that a read had failed (`Ready`), and that a
  pass stops nothing where nothing has to stop first or nothing may (`Unparked`); `Prune` keeps the
  newest running release of its listing, so it ends the last one that serves only if that one
  does not serve (`PruneEnds`). `ServingKeptOfTwo` rules that out where the deploys are one or go
  between two releases: `Pair` says that beside the candidate there is only the release that serves.
  With three releases it is false, see section 5.

- `WalShipProofs`. `TypeCorrect` and `PrefixAlwaysRestored` (`ConsistentPrefix`), for any number
  of pages, transactions, checkpoints, kills and failed Puts, stored or not. A torn copy is no state,
  so the induction is about repair: `Follows(p, v)` says that the committed frames of the WAL bring the
  version `v` of a page up to date, and the file, the pages copied so far and the image of the
  newest generation all follow. A WAL that starts anew ends the repair of what has not been
  shipped; `EpochInv` says why nothing is lost then: under the hold it can happen once, and only
  when the file had every frame before the hold was taken. `SinkInv` says that the segments of a
  generation that was taken join, end at `offset` or, where a Put failed and stored its segment,
  behind it, and agree with the WAL there, so that shipping again from `offset` replays to the same
  image (`ShippedImage`); `ImageInv` that the image is a state wherever a Sync may return, and holds
  what every Sync up to this generation has shipped (`CountInv` bounds those counts). Maxima are
  not in the provers' library: `LeastExists` gets them from the well-foundedness of the naturals.

Model-checked only: all liveness properties (TLAPS has no rules for `ENABLED`, hence none for
fairness), and `StraysFenced` of `NodeFailure` with an operator's move. Where a theorem has a
hypothesis on the settings, its bullet or section 5 says how the statement fails without it.

## 5. Findings

Two runs have a violation as their expected outcome.

`upgrade_loss`: `SwapInBackup` renames the live
database before it creates the copy (`rollback/host.go:58`). When the power fails in between, the
unit starts the old release, which makes an empty database; the recovery then finds the schema it
started from, restores nothing and closes the attempt with "the database needed no restore so no
changes were lost" (`selfupgrade/runner.go:235`). The real database lies beside it under its
`.before-rollback` name. The settings of `upgrade` have this power cut too; `OutcomeTrue` asks of
a rolled-back attempt the release and the schema, not the rows, so it holds there.

`walship_loss`: when the snapshot of a generation cannot be put, `newGeneration` returns with the new
hold taken and `haveHdr` and `offset` as they were (`shipper.go:179`). The next Sync sees a hold, starts
no generation, ships to one that has no snapshot and returns nil, against "Sync ships every
committed frame not yet shipped" (`shipper.go:98`). If the failed Put had stored the snapshot after all,
that generation is the newest one, its frames go on from the old offset without a header, and
`Restore` returns the bare copy, which may be torn. `ConsistentPrefix` speaks of generations whose
snapshot was put without an error (`taken`).

Noticed while modelling, with no run of their own:

- *Keyed pool.* `requeue` unlocks between its check of `live` (`workqueue.go:107`) and its `add`
  (`:113`); a `retain` in between lets a deleted app's timer queue it once more. The next pass
  ends it; `OnlyLiveRuns` bounds it. A timer re-adds the controller instance that armed it, also
  when a newer pass has queued a fresh one (`engine.go:173`; the comment at `workqueue.go:53` has
  the *newer* controller win).
- *Run loop.* When the event stream closes, `Run` goes on with the resync ticker alone
  (`engine.go:501`); its comment (`engine.go:425-427`) says that it returns then.
- *Hand-over: the last release that serves.* `supersededPrevious` keeps the newest *running* release
  (`image_truth.go:273`), which may be a candidate that was never ready, so the one that serves is
  removed (against the comment at `controller.go:771`); with nothing running it keeps the newest
  stopped one although only an older one was ever ready (`image_truth.go:275`, against `:258`).
  Without a port or a volume and with three releases, three deploys and nothing else reach it, or
  two deploys and two failed starts, one death, one restart, one failed stop or a drift:
  the last case of `LastServingKept`. A release whose probe address cannot be resolved counts as ready
  (`controller.go:2447`) and the others are retired behind it although it was never ready: the case
  `steady` there.
- *Hand-over: what was stopped.* When the started candidate cannot be inspected
  (`controller.go:1122-1128`) the pass ends without `abortHandoff` and without a record: the candidate
  goes on running and the released release is put back only if it has a succeeded attempt and
  nothing vetoes its revival. When the listing fails after a record was taken
  (`readiness_requeue.go:242-245`) its releases are forgotten likewise; when a stop fails after it
  had its effect (`pinned_port.go:194`) that release is not among those put back. The `released`
  label is there "so a restarted control plane can still restore them" (`readiness_requeue.go:289`),
  but only a candidate inside its budget that has not crashed is adopted (`controller.go:1101`): one
  that used up its budget while the control plane was down keeps running unready, vetoes the
  revival, and what it replaced stays down. These are the exceptions of `ParkedIsOwed` and
  `TakeOverEnds`.
- *Hand-over: two writers.* `reconcileDesired` revives the old release (`controller.go:711`) before it
  aborts a superseded candidate (`:2372`) that runs on the same volume. A stopped container of the
  desired image is started where it is (`controller.go:1048`), and only one that is created stops the
  others first (`:1026`), so a candidate that failed once, or a release deployed again after a
  restart, comes up beside the one that runs. No invariant about writers holds, so there is none.
- *Hand-over: the delay.* `handoffFailed` belongs to a controller that lives for one pass
  (`pinned_port.go:134`, `:121`, `boot_source.go:372`), so `APP_DEPLOY_PINNED_PORT_RETRY` delays
  nothing (`docs/deploy-safety.md:361`).
- *Node failure.* `Resolve` turns a finished move into a waiting action, which the fence passes
  over (`operator.go:177`, against `nodefailure.go:1-3`). A restart or a failed save between
  placing an app and saving the row leaves a copy nobody fences; one between cordoning and saving
  leaves the node cordoned. `MarkLost`, `Resolve` and a tick overwrite one another's row. An app
  whose action is `moved` or `fenced` and that is placed back is not rescheduled when the node drops
  again before its row is cleared. Restoring an app twice leaves a copy on the first target.
  `MarkLost` inside the grace is undone by the next tick. The background teardown does not check
  where the app is placed by then (`apps_delete.go:285`). Tombstones have the app's name as key
  (`pending_teardown.go:32`): a second move overwrites the first one's, and its end deletes the
  newer. `Calm` in `NodeFailure` excludes all but the last, which the settings of the run do not
  reach; the orphan reaper is the program's backstop.
- *Sessions.* The end of a session removes its entry under the lock and the transport and the
  status after it (`server.go:327`): a newer session that registers in between loses its
  transport and its node is marked offline, though connected (`server_duplicate_test.go:16` has
  the order that the lock protects). A handler that was displaced between `trackSession` and `Register` still
  registers its transport over the newer one. `unsubscribe` closes a watcher's channel while
  `deliverEvent` may be sending on it, unlike `unsubscribeExec`, whose comment says why it does
  not (`mux.go:260`).
- *Exec.* `run` and the pump of the input may both send a terminal frame; the receiver has let go of
  the exec after the first, and both fit because an end keeps a credit.
- *Self upgrade.* After a kill between the removal of the previous binary and the last record, a
  second `--recover` stops a healthy service and fails. A rollback that is killed inside `SwapInBackup` leaves no
  database, and the recovery that repeats it cannot move one aside and fails. A release that crashes can leave enough in the ledger that the old, good one
  boots into safe mode. `Import` may make a fresh database. A failed save of the journal is a
  warning only. Without a supervisor the retry from the recovery page loses its reset, because the end of safe
  mode writes the ledger again (`boot_safemode.go:88`, against `docs/resilience.md:141`).
- *WAL shipping* is a prototype that no boot stage starts (ADR 039). Between a snapshot and the
  first segment after it, the newest generation is torn or older than the one before it. A Sync
  that finds a gap, which takes a WAL that was restarted twice, returns what `newGeneration` returned
  (`shipper.go:209`) without reading the WAL of the new generation. `ConsistentPrefix` therefore speaks of
  a newest generation whose WAL was read (`settled`). `Restore` takes the epochs of
  a generation as they are and does not look for a gap between them.

## 6. Not modelled, and the plan

Components with status `not_modelled` in `PROJECT.json` say why. Most of the repository is HTTP
handlers, clients of external services, rendering of configuration and data translation, which
have no state of their own to check. What has state and is left out, in the order in which it
would be worth modelling:

1. *Application controller, other modes*: waves of `reconcileRolling` with the policy's budget,
   `reconcileRecreate`, several replicas; the drain and hold trackers in place of the free
   choice of `Retire`.
2. *Deploys and deletes of apps* with their background teardowns, placed back or not; deploys that
   overtake one another; canaries and a stale write of a release (`canary/reconciler.go:168`).
3. *Sleeping apps*: a request that wakes an app against the idle scheduler, which each write two
   rows (`appsleep/appsleep.go:448`), and the listeners of its ports (`appsleep/portwake.go:284`).
4. *Watches, archives and terminals* over the multiplexer.
5. *Pipelines*, *scheduled tasks*, *node moves* with the resumed move and the cordon of a restarted
   control plane, the *status ledger*, the *database controller*, the *orphan reaper*.

The small components will share runs: one instance per module, its properties together.
