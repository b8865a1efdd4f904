# trading-max: a TLA+ model of its job runtime and its records

trading-max is a personal portfolio workspace. An API process accepts work (refreshes,
research, analysis), a durable SQLite table holds it as jobs, a worker process executes each
job as a sequence of versioned stages, and the last stage publishes an immutable snapshot that
every reader then sees. Around this control plane, files and rows are kept by protocols of their own:
the watchlist, the alert monitor, analysis runs, packs of sealed records, recovery points, releases of
the macOS service and their cleanup, the upgrade of a desktop workspace, the ledgers of
broker accounts, uploads of broker exports and the costs in them, the login to a model provider. This directory models them: TLC checks the models on small instances, and
TLAPS proves their safety for all instances.

## 1. Inventory

| component | state | operations | modelled in |
| --- | --- | --- | --- |
| durable job queue (`infrastructure/job_queue.py`) | rows of `jobs` and `job_stages` in SQLite: status, trigger, attempts, lease, owner, cancel and follow-up flags, snapshot id, stage status | `enqueue`, `cancel`, `request_research_follow_up`, `consume_follow_up`, `claim`, `heartbeat`, `set_stage`, `complete`, `fail`, `cancel_running`; `refresh_failure_streaks` | `JobQueue`, abstractly `JobLifecycle`; `RefreshAttention` |
| durable worker (`worker/runner.py`) | locals of `run_once`, a heartbeat thread per job | poll, claim, the stage loop, completion, failure, exception handling | `DurableWorker` |
| worker process and admission (`worker_main.py`, `typed_jobs.py`) | the loops around `run_once`, `on_finished` | `submit`, `cancel`, follow-ups, structural refreshes | `RefreshAdmission` |
| schedulers (`scheduler.py`, `intraday_scheduler.py`) | the due slot and its attempts, read back from the job table | tick, slot attempt, retry | `RefreshAdmission` |
| snapshot publication (`research_stages.py`, `snapshots.py`, `artifacts.py`) | manifests, `latest.json`, content addressed objects with sidecars | merge with the previous snapshot, publish, latest | `SnapshotPublication`, abstractly `SnapshotRegister` |
| cached latest manifest (`trading_max_api/artifacts.py`) | signature, manifest and lock shared by request threads | `latest_manifest` | `LatestManifest` |
| object packs (`infrastructure/object_packs.py`, `pack_maintenance.py`, `recovery_pack_sharing.py`) | loose files, pack files, a SQLite locator, journals of batches | seal, retire, recover, rebuild, share, compact; lock-free readers and writers | `ObjectPacks`, `RecoveryPacks` |
| backup (`background_backup.py`, `recovery_checkpoint.py`) | checkpoint directories with manifests, a status file, the deployment's request | capture, archive, maintain, yield, clean up | `BackgroundBackup` |
| macOS release manager (`deploy/macos/release-manager.py`) | releases, the pointer `app`, deployment records, service definitions | deploy, roll back, `--recover` | `ReleaseManager` |
| release cleanup (`service_retention.py`) | a plan, a quarantine, a journal, retired records | plan, apply | `ServiceRetention` |
| desktop upgrade (`desktop_upgrade.py`, `scripts/supervisor.py`) | workspace, baseline, staging, what was set aside, a journal, a lock | first start of a newer App, migration, commit, rollback | `DesktopUpgrade` |
| analysis runs (`typed_analysis.py`, `analysis_repository.py`) | `analysis_runs` rows beside the jobs | submit, execute, `recover_interrupted`, cancel | `AnalysisRuns` |
| single-flight cache (`infrastructure/singleflight.py`) | an LRU of values, a table of pending loads | `resolve` from many threads | `SingleFlight` |
| watchlist (`watchlist.py`) | `watchlist.json`, a bootstrap marker, a cache per process | add, remove, move, pending, reconcile, classify, seed | `WatchlistFile` |
| alert monitor (`alert_monitor.py`) | `alert-monitor.json` | poll quotes, score alerts, from a thread and from requests | `AlertMonitor` |
| broker ledger sync (`broker_sync.py` and what it calls) | cached exports, a pending report, a registered ledger, per account | sync of the rolling window, older windows, reconciliation, registration | `BrokerSync` |
| CFD imports (`cfd_imports.py`, `analytics/cfd.py`) | originals, a manifest, the caches of ledger and analysis | upload, combination of exports, allocation of costs to closes | `CfdImports` |
| OAuth login (`oauth.py` and the stores it calls) | a credential, a settings row, a login session in memory, two locks | start, status, cancel, disconnect, authorize | `OAuthLogin` |
| settings and API keys; API read side and dashboard; taxonomy, valuation assumptions and journal; stages and analytics | rows with one writer, pure projections, numeric code | | not modelled, section 8 |

Interactions. The API calls `submit`, which looks for an active job and calls `enqueue`. Worker
threads poll `claim`, each restricted to the triggers it was given; `claim` also ends cancelled jobs
whose owner is gone. A claimed job is a *session*: a heartbeat thread renews the lease while the
loop runs stages, and every write of the session is refused (`QueueConflict`) once the row names
another owner or status. Nothing but the lease decides who owns a job. The final stage,
`snapshot.publish`, has its effect outside SQLite, between two transactions, and does not look at
the lease: it reads the latest snapshot, merges, and replaces `latest.json`, which the
threads of the API process read through a cache and the alert monitor between its runs. When the job is over, `on_finished` consumes the
follow-up flag, enqueues further work and reconciles the watchlist. Checkpoints are captured while publishers go on,
and packs are sealed while readers and writers go on; a deployment captures a checkpoint of its own and makes
the background job yield.

Hard behaviours. Two processes write one table; a worker can be superseded at any of its
steps (its lease ran out because the machine slept, or because its heartbeat thread died on an
exception) and come back; it can crash between two transactions; SQLite may refuse any
transaction; cancellation, retry and reclaim all concern the same job; the side effect of a stage is not
atomic with its record. Exports of an account have gaps and overlaps, and hold the same cost in two forms. Files are read, changed and written back by threads and processes that no lock keeps apart, with downloads
in between. A deployment, a backup, a maintenance run, an upgrade, a broker sync can be killed between any two of its
writes, and what is left must be enough to go on from, or back to. What has to be true in spite of this is listed
with each run in section 4: among others, that a finished job stays as it is, a cancelled one is never handed out, a job nobody cancels ends; that
a snapshot is published after all the other stages and never half; that no record is lost by
packing, upgrading or removing what is old; that what is shown belongs together; and that what was begun is brought to an end.

## 2. Modules

| module | contents |
| --- | --- |
| `JobLifecycle` | the abstract specification: the life of one job, with a phase and a holder |
| `JobQueue` | the job table; one action per writing transaction, clients and workers unrestricted |
| `DurableWorker` | worker processes over the table: a program counter per worker, one step per transaction or side effect; heartbeat thread; crash, restart, database error, stalled heartbeat |
| `DurableWorker_proofs` | the theorems of `JobQueue`, that the workers implement it, and their own theorems |
| `RefreshAdmission` | requests, schedulers and the worker's follow-ups, which all put jobs on the queue |
| `RefreshAttention` | `refresh_failure_streaks` over any history of the table, against a definition of what it should count |
| `SnapshotRegister` | the abstract specification: one latest snapshot, updated at once |
| `SnapshotPublication` | publishers that merge into the latest snapshot and write files one by one; deaths, lost leases |
| `LatestManifest` | extends it with request threads that read through the cache |
| `LatestManifest_proofs` | the theorems of `SnapshotPublication` and `LatestManifest` |
| `ObjectPacks` | the packer, its journals and its recovery, with readers and writers that take no lock |
| `RecoveryPacks` | extends it with what only a recovery repository does: manifests, sharing, compaction, aliases |
| `RecoveryPacks_proofs` | the theorems of `ObjectPacks` and `RecoveryPacks` |
| `BackgroundBackup` | captures, the background job, its status file, deployments |
| `ReleaseManager` | deployments of the service, rollback, recovery |
| `ServiceRetention` | extends it with the cleanup of old releases |
| `ServiceRetention_proofs` | the theorems of `ReleaseManager` and `ServiceRetention` |
| `DesktopUpgrade` | the first start of a newer App, and the way back |
| `SingleFlight` | threads that share a bounded cache and the loads under way |
| `AnalysisRuns` | a row of `analysis_runs`, its job, the processes that execute it one after the other |
| `WatchlistFile` | the watchlist between two processes |
| `Admission_proofs` | the theorems of `RefreshAdmission`, `RefreshAttention` and `WatchlistFile` |
| `AlertMonitor` | the runs of the thread and of requests over one state file |
| `Upkeep_proofs` | the theorems of `AlertMonitor` and `BackgroundBackup` |
| `BrokerSync` | the ledger of one account |
| `CfdImports` | uploaded exports of an account for contracts for difference, and the costs they prove |
| `Ledgers_proofs` | the theorems of `BrokerSync` and `CfdImports` |
| `OAuthLogin` | the connection to a provider |
| `Services_proofs` | the theorems of `SingleFlight`, `AnalysisRuns`, `OAuthLogin` and `DesktopUpgrade` |
| `MCJobQueue`, `MCRefreshAdmission`, `MCDurableWorker`, `MCSnapshotPublication`, `MCRecoveryPacks` | values for the constants |
| `MCWorkerLoops` | the loops that execute jobs: those of two processes, or the two threads of one |
| `MCJobs`, `MCStores`, `MCServices`, `MCRecords` | instances of several components for one run, see below |

Components that share state are composed: `DurableWorker` works on the table of `JobQueue`, `LatestManifest` reads
what `SnapshotPublication` writes, `RecoveryPacks` shares the packs of `ObjectPacks`, `ServiceRetention` removes what `ReleaseManager`
built. The last four `MC` modules put components side by side that share no variable: a variable `part`, chosen by
the initial state, says which of them takes steps, and the others stay as they are. The behaviours of such
a run are those of each of its parts, one after the other, so it says of each what a run
of its own would say. The fairness of a part is stated with the part as a condition. In `MCStores` the part
`readers` has publishers of account snapshots only, because a reader sees no more of a snapshot than its run. In `MCWorkerLoops` the parts are two settings of one component: which of the workers run.

Operators named `Faulty...` stand before the operator they vary. None of them is used in a
specification: each is a plausible bug that makes one property fail, which shows that the property is about the code.

## 3. From code to model

**Queue.** Columns are functions on jobs; `status[j] = "absent"` before the insert. Jobs are
numbered by `created_at`, which `enqueue` reads *before* it takes the write lock, so rows
appear in any order of their numbers. `lease_expires_at` is compared with the clock only: a lease is
`"live"` until its deadline passes (`LeaseExpires`) and `"expired"` afterwards. Renewing an
expired lease is allowed, as in `heartbeat()`. `attempts` counts up to `MaxAttempts`
and stays there: the only comparison in the code is `attempts < max_attempts`. `Claim` is the
whole transaction of `claim()`, the sweep of abandoned cancelled jobs included, and also when it finds no
job. `Finish` is `_finish()`, shared by `complete`, `cancel_running` and
`fail`. Payloads, messages, timestamps, cached stage artifacts and worker registration are left out: nothing
here is decided by them.

**Worker.** `pc[w]` names the next step of `run_once`:

| `pc` | code |
| --- | --- |
| `stopped`, `ended`, `idle` | no process; a thread that is over; the polling loop around `run_once` |
| `boundary` | head of the stage loop: cancellation check, skip of finished stages, end of the loop |
| `starting`, `running`, `recording`, `renewing` | `set_stage(RUNNING)`, `stage.run()`, `set_stage(SUCCEEDED)`, `heartbeat()` |
| `stagefail`, `failing`, `requeue` | `set_stage(FAILED)`, the read in `fail()`, its retry transaction |
| `succeeded`, `failed`, `interrupted` | the `_finish` transaction with that status |
| `raising` | the `except` block of `run_once` |

`done[w]` is the set of stages the claimed *record* shows as succeeded: the code reads it once, so
the model does. A transaction that meets a lost job (`LosesJob`) or a database that refuses it
(`DatabaseError`) goes through the exception handler as in the code; an exception in the
handler, or in the polling loop, ends the loop (`Exit`). For the main loop of a process, one of the workers `Supervised`, that ends the process, and
its supervisor starts another; the threads that run `system` jobs are the other workers, and such a thread is over (`"ended"`) while its process goes on. `published[j]` counts how often job `j` replaced
`latest.json`; it stops at 2, no property distinguishes more.

**Admission.** `RefreshAdmission` keeps, of each row, the columns that `submit` and the schedulers read. Every look
at the queue and every insert is a transaction of its own, so each request (`call[c]`), each scheduler (`tick[s]`) and the worker after a job (`after`)
has a step for the look and a step for what follows it. A scheduler reads the clock when it wakes up and submits
for the slot it read, however late that is; restarts of the process make it wake up once more (`Wake`). The
structural refresh that a live job asks for, the follow-up flag, and the research job it turns into
are the steps of `on_finished`, and the worker can die between them (`Dies`). Whether a daily slot is a research or a
reconciliation run is decided by the constant `Daily`, as the calendar decides it in the code.

**Attention.** `RefreshAttention` lets a table of jobs evolve in every way the queue permits (`Create`, `Progress`, `End`, `Stop`) and evaluates
`Streaks`, the loop of `refresh_failure_streaks` as a recursive function of the number of rows scanned so far (`Scan`), from the newest to the oldest. `cancelled` remembers
what an operator asked for, because the row does not.

**Watchlist.** An operation is a load (from the cache when the signature of the file is still the cached one, else from the
file), a change, a save by a rename, and the note of the new signature, in separate steps: the lock is one of the process, the file is everybody's.
A version stands for a signature. `Operations` says which methods the program calls in which process. A load that finds other reference data than the file has rewrites the file (`RefreshLoaded`).
`marked` is the bootstrap marker, `seeded` counts the lists made from the holdings, `emptied` remembers that a user took the last entry off.

**Publication.** A refresh is known by its number, and so are the rows, the account artifacts and
the manifest it produces; 0 stands for none. The nine mergeable research artifacts go through the same
code and stand as one, with a row and a clock per ticker; account scopes (`accounts`,
`intraday`, `cfd`) differ in nothing that is merged. `pc[p]` walks through
`TypedPublishSnapshotStage.run` and `SnapshotStore.publish`: read the latest snapshot, store merged artifacts and
coverage, write the manifest, replace the pointer. Each file appears by a rename (`atomic_bytes`), so each write is one step, and
a process may end between any two (`Abandon`). The store never loses an artifact: nothing in the program deletes
one that a manifest names while refreshes run. What keeps publishers apart, the single refresh loop of the
worker process and the lease of the job it runs, is one `holder`; it ends when its publisher is dead, or is lost by
a publisher that goes on, at most `MaxLosses` times.

**Cached reads.** A call of `latest_manifest` is a stat, a lookup under the lock, the read of the pointer and its
manifest, and the filling of the cache. Each replacement of `latest.json` gives it a new inode and time, so the run it names
stands for its signature. The manifest itself is written once and cannot change between the two reads
of `latest()`, which are one step. `during[r]` records what the pointer has been since the call began; it is there for
the property only.

**Packs.** `loose[k]` is the loose file of a record, `blocks` are the pack files there are, `index`, `listed` and `place` the
locator (absent, blank or ready; the packs it knows; where it finds a record), `journals` the batches of which a journal is left. `job` goes through
choosing a batch, journal, sealing, commit, check, unlinking file by file, and the end of the journal, or through the compaction of a pack. Bytes
are told apart because two writers of a record may store different ones under one key. Readers look
for the loose file, then into the locator, and do not look again when what they found has gone in between. In `RecoveryPacks`, `needed` is what manifests
of the repository refer to, `aliased` the packs that are also a physical recovery file; `repository` tells the store of artifacts, where
readers take no lock, from a recovery repository, where they do. Deaths happen between any two steps.

**Backup.** `capture` walks through pinning `latest.json`, copying the locator and copying the files, while `PublishSnapshot`
and `PackStore` go on as far as the repository lock lets them. `point[i]` is a checkpoint directory: its phase, whether the tree and the manifest
are there, what it holds. `job` follows a run of the background job: its queue, archive, status file, maintenance. A deployment asks
it to yield, waits for its lock and captures a point of its own.

**Releases.** `control.at` is the step the controller is at, `record[n]` the record of deployment `n` as it is on disk, with the phase
that `--recover` starts from. `app` is the pointer, `host` what the environment, the model routes and the service definitions
were written for, and the services run whichever release they were started from. Release 0 is the first installation, a plain directory at `app` until a deployment renames it to a path that
bears the name of this deployment; `moved` is that deployment. The record of every deployment that began before names a path of its own, which does not come to be (`PathMade`). A step can raise, which starts the rollback or the recovery the code
has for that step, and the controller can be killed at every step; `CannotGoOn` and `CannotStart` are the steps that can only raise, for want of the previous release or of anything at `app`. `owed` are the deployments that began their cutover and were not
settled. In `ServiceRetention`, `plan` holds the releases planned for removal and the context the plan was made in, `sweep` goes through the
removal of one release after the other (to the quarantine, out of it, records marked), `unfinished` says that a journal of an
interrupted removal is there. `Protected` follows the chain of predecessors as the code does.

**Desktop upgrade.** `root`, `baseline`, `staging` and `aside` are directories: for each entry the version that wrote it and the latest
edit in it. `journal` is the transaction file, `shell[p]` the supervisor of App `p`, `services` the App whose services
run. They outlive their supervisor for a moment and keep its lock, which they inherited, so `LockFree` looks at both. Renames
are one step each; listing, moving aside and moving back are entry by entry. `kept` and `edits` remember what the user
has, for the properties only.

**Single-flight cache.** Loads are numbered, and the number of a load stands for its future and for the value it
returns. A call of `resolve` takes one of three ways in its first hold of the lock (`HitEntry`, `Join`, `Own`). The
steps of an owner are then `LoadEnds` and `Store`, `PublishResult` or `Fail`, `Raise`, in the order of the code: the future
is unregistered under the lock and completed after it. `after[k]` holds the keys behind `k` in the
`OrderedDict`, so a key survives eviction if fewer than `Capacity` keys follow it. `valid()` is a function of
the value that turns false as time passes (`Expire`); a load may return a value that is not valid, as a price
history that is old at its source is. `spoiled[c]` is there for `NothingSpoiled` only.

**Analysis runs.** `analysis` is the row, `ticket` what the queue knows of the job with the same id, `hand[e]` where
executor `e` is between claim and end of the job, the copy that it works on and the lenses it has to do. The row has no owner, so an executor whose lease lapsed goes on saving its copy.
`recover_interrupted` runs at the start of a process and sees the job as it is then. What the database refuses has its own steps: a save in `submit()` (`SaveRefused`), the save of a lens, which the
loop notes as an error of the lens (`FinishLens`, `LensesStop`), every other read or save of the stage, which makes it raise (`StageRaises`), and what the worker asks of the queue around the
stage (`WorkerFails`), where a stage of another version fails the job as well (`StartStage`). A job that the analysis itself failed is `"failed"`, one that failed for any of these reasons is `"errored"`.

**Alert monitor.** `visit[w]` is a run of the thread or of a request with its own copy of the state file `monitor`: load, download,
save, score, save. A quote or an alert is a ticker with the snapshot it was obtained for. The two refresh intervals are flags that age. What raises inside the `try` of `run_once` ends the run with a save
(`RunRaises`); what raises outside it, the read of the manifest or of the watchlist or a save, ends a request with an error and the thread for good (`RunDies`), until the process is started again (`ApiStarts`).
A state file that cannot be read is taken for an empty one (`LoadRefused`). `phase` and `lastError` are left out.

**Broker ledger.** Days have two halves, so that a day can be exported before it is over. An export is the set of half days it holds.
`activity` says what happened in each: nothing, something the positions of today show, something they do not. `report` is the export that is pending
at the broker, with the state file that lets a later sync resume it, `exports` the cached files, named by their window. `sync` goes from window to window, then compares and registers.
`late` remembers that a sync began more than `Lookback` days after the last.

**CFD imports.** `account` is what happened to one position, in the order of its times: orders that open it or enlarge it, before or after charges, nightly charges, fees that name the order of a close, closes. It is
the broker's, and so is what a close bore of each cost (`Borne`). The code does not know how the broker attributes a charge to closes; `attribution` has two ways, to the units that were held, which are closed first, or
over all units that are closed later. They differ only if an order enlarges the position after the charge. An export is a window of those rows, with or without the column in which a close states what it bore. `upload.at` is the
file that `import_bytes` writes next; `entries` are the files in the manifest. `Rows`, `Conflict`, `Candidates`, `Holding`, `Share`, `Fallback` and `Unresolved` are `combine_cfd_ledgers` and `_allocate_costs` on the
rows there are: they know of the account only what was uploaded. A conflicting export is refused, so it is not a step. `TotalCost` is the sum of `analyse_cfd_ledger`, one currency; dividends go
the way of nightly charges. The account status, a field of the manifest that the same lock guards, is left out.

**OAuth login.** `stored` is the credential in the store of the operating system, `row` the login that the settings show, `session` the login
session in memory. `thread[n]` says how far the thread of login `n` is:

| `thread[n]` | code of `_run` |
| --- | --- |
| `none`, `begun` | not started, before the child process is attached |
| `listening` | reading lines of the child |
| `waiting` | has a credential and the manager's lock, waits for the lock file |
| `saving` | between the credential and the row, in `save()` |
| `raised`, `over` | an exception has given the locks away, the session is to be closed; done |

`line[n]` is what the child has said and nobody has read. The child and the provider are external: a child may end at any
time, the provider may renew a credential (`issued`) and refuses the former one from then on. Neither lock is a
variable: `ManagerFree` and `FileFree` say that no holder is at a place where the code holds it. `revoked` and
`torn` are history variables for the two properties.

## 4. What the runs check

| run | instance | shows |
| --- | --- | --- |
| `jobs` | `MCJobs`: queue with 2 jobs, 2 workers, 1 stage, 2 attempts; admission with 2 slots, 4 rows, one extra tick, one fault; attention with 3 jobs; watchlist with 2 processes, 2 tickers, 3 saves | each row `ImplementsLifecycle`; at most one structural refresh is pending (`OneStructural`), a daily slot is attempted once (`DailyOnce`), a ticker merged into an active job is researched afterwards (`FollowUpKept`); `StreaksCountFailures`; operations of the watchlist that do not overlap build on each other (`WorksOnCurrent`), a list emptied by its user is not seeded (`NotSeededAgain`) |
| `stores` | `MCStores`: 2 publishers, 2 tickers, 3 refreshes, one lost lease; 2 readers; packs with 2 records, 2 writers, 1 reader, 2 maintenance runs, one death; accounts of 5 rows, orders of two units and closes of one, both attributions, 2 different exports, any number of uploads | `ImplementsRegister`, `SnapshotsComplete`, `CoverageDescribesRows`; `FreshAnswer`: an answer was the latest run at some moment of the call; `ReadersFind` and `KeepsContents`: no reader misses a record, and no maintenance or recovery loses one or changes what is read; `EachCostOnce`: with the orders that opened and enlarged the position, and charges borne by what was held, a known result holds each cost the exports prove once; `ImportsHold`: uploads cut short leave a manifest whose ledger can be built |
| `worker` | `MCWorkerLoops`: 1 job of 2 stages, 2 attempts, and either the main loops of two processes, with a `live` job, or a main loop and a thread for system jobs, with a `system` job; one database error, one stall, one crash; fair | `SucceededIsComplete`; `ExclusiveExecution`: while heartbeats come through no two workers execute one job, crashes included; `JobsSettle`: a job nobody cancels ends as long as a loop is left that may run it; `CancellationStops`: a cancellation that does not meet a retry ends the job, even if no such loop is left, since every `claim()` sweeps it |
| `services` | `MCServices`: cache with 2 threads, 3 keys, 2 places, 3 loads; 2 logins, 2 refreshers, 2 renewals, 2 mishaps; workspace with Apps of two versions, 3 entries, 2 edits, 2 losses; monitor with 2 snapshots, a position sold in the second, one outage; backup with 1 snapshot, 2 points, 1 day, 1 deployment, 1 kill; fair | `OneLoadPerKey`, `NothingSpoiled`, `EveryCallReturns`; `NoLateLogin`, `ConnectionWorks`; `RecordsKept`, `StartsWhole`, `UpgradeSettles`; `OneSnapshotShown`, `MonitorSettles`; `CapturesAreWhole`, `PointsSurvive`, `QueueDrains` |
| `releases` | `ServiceRetention`: 3 deployments of 2 services, one fault, one death of the cleanup; fair | `LoadedCanRun`, `Coherent`, `RollbackAvailable`; `CutoversSettle` |
| `records` | `MCRecords`: analysis of 2 lenses, 2 executors, any two of lapses, kills and refused reads or writes; a ledger over 6 days, older windows of a day, one active half day, 2 setbacks; fair | `RowFollowsJob`: the row is honest about what the run produced and, while no lease lapses under a live executor, follows its job; `RunSettles`: a row that says "running" is finished, unless the job is cancelled or fails for another reason than the analysis; `LedgerHasNoHole`, `HistoryReachesFloor` |
| `cancel_during_retry`, `failed_but_published`, `snapshot_lost_rows`, `cancelled_refreshes`, `batches_resume`, `history_slices` | small instances of one module each | violated, see below |

The properties in words stand before their definitions, with the line of the documentation they come from where there is one.

Bounds. *Queue and worker.* Two workers are enough for one to supersede the other, and one of them can itself be
superseded again because leases and claims are not bounded. Two stages distinguish the publishing stage from the
others and make a resumed job skip one. Two attempts give one retry. One fault of each kind,
at any point, covers their combinations in pairs; one error is what ends a thread for good, and the main loop beside it is what sweeps up after it. *Admission.* `Settings` are the schedulers and requests there are at the same time:
each scheduler alone over two slots, one that meets a request, two requests that meet each other. Four rows are a job, the one that follows it, and two that come between.
*Publication.* Three refreshes are one to merge into and
two that race; a third ticker that two would leave out is like one of them, asked for or not. *Packs.* Two records make a batch of which one is
retired and the other not; one record has two possible contents, so that a write can race a retirement; two maintenance runs are one that dies and one that recovers.
*Exports.* Five rows are two orders, two costs and a close, in any order that makes sense, or an order, two costs and two closes, which are the ways to be partial and the ways for an order to come between charges; two exports are
enough to overlap or to leave a gap. A charge of 12 is divided by any number of units held. The account ends with a close because what follows the last close changes nothing in what closes state.
*Cache.* Two threads are an owner and one that waits or loads another key meanwhile; three keys with two places make
one of them evict another, and three loads let a value be spoiled and loaded again. *Analysis.* Two executors are one taken over and one that
takes over, and two upsets are a take-over and a kill, a refusal in each of two processes, or both in one.  *Logins.* The second login cancels the first or meets its late result; two renewals are one by a refresher that then loses its reply and one
that would use what was revoked. *Upgrade.* Three entries are the manifest, one that is migrated and one that only the newer version creates.
*Monitor.* One outage ends the thread, or stops the request that would make up for what it has not done.
*Releases.* With three deployments the first installation falls out of the protected chain and can be removed; one fault makes one of them interrupted, which the next may overtake, before or after it has moved the first installation. *Ledger.* The first sync is on the fourth day, so that
there are older windows down to the floor, and there is a day and a half left for syncs over midnight and syncs that come
too late. One active half day is enough for what a missing half day can hide; several are a matter of the theorem. *Backup.* Two points are one in the queue
and one captured meanwhile.

Deadlock is checked in `worker`, where no part ever stops. In the others a part may really stop, when its bound on
jobs, refreshes, loads, deployments or days is reached.

### Disagreements with the documentation

*A cancelled retry is stuck* (`cancel_during_retry`, `CancelSettles`). `fail()` reads `cancel_requested` in one
transaction (`job_queue.py:762`) and requeues in another that does not look again and does not clear
the flag. A cancellation between the two leaves a queued job with `cancel_requested = 1`: `claim()`
hands out only jobs without the flag and sweeps only running ones. Unless somebody cancels
it again, the job stays active, although the comment at `job_queue.py:652-654` says
that a cancelled job is finalized "so it cannot block admission forever". This is why `CancellationStops`
leaves out a cancellation that meets a retry.

*A failed job can have published* (`failed_but_published`, `FailedLeavesSnapshot`). `snapshot.publish` takes effect before
the transactions that record it. If one of those fails, the handler at `runner.py:253` fails the job;
its snapshot is the latest, whereas `durable-job-runtime.md:43` says that a failed
job leaves the previous snapshot untouched.

*A superseded publisher loses rows* (`snapshot_lost_rows`, `UntouchedRowsSurvive`). `TypedPublishSnapshotStage.run` reads the latest
snapshot (`research_stages.py:813`) and replaces it (`:846`) without a lock, a comparison or a look at
its lease. A worker that is suspended in between, and whose lease ends, publishes the merge of
a snapshot that is not the latest any more, so rows that another job published go back to
what they were. The docstring (`research_stages.py:750`) promises to "preserve rows for tickers a partial
research refresh did not touch". Without a lost lease the publication implements the register.

*Cancelled refreshes count as failures* (`cancelled_refreshes`, `CancellationsDoNotCount`). `refresh_failure_streaks` leaves out the rows that have
`cancel_requested` set (`job_queue.py:219`), but every way in which a cancelled job ends clears the flag, so an operator's
cancellation adds to the streak. The docstring (`job_queue.py:206`) says that it neither clears nor adds failures.

*An interrupted batch cannot always be resumed* (`batches_resume`, `BatchesResume`). `nightly_packs` runs `share()` (`recovery_pack_sharing.py:168`), which compacts the packs down to
what manifests need, before `pack_repository()` recovers the batches of an earlier night. A record of such a batch that was committed and is no longer needed is dropped, its
original file is gone, and the recovery raises on this and every later night (`pack_maintenance.py:139`). `storage-maintenance.md:376` says that an interrupted batch
"verifies committed records and remaining originals before resuming".

*A sync does not go back to the floor* (`history_slices`, `SlicesUntilExplained`). `sync()` leaves its loop at the first window without transactions (`broker_sync.py:283-288`), whatever
the reconciliation says; the strict comparison then raises, and the next sync starts from the latest year again. An account with a position older than
a year without transactions is never synced. `trading212-ingestion.md:40-46` says that earlier slices are requested while a position is unexplained, and that only
reaching the floor without a match fails. `HistoryReachesFloor` leaves this case out (`Forgotten`).

Also met while modelling: without the order that opened a position, `_allocate_costs` may take one cost for another. A position of two units bears two equal nightly charges, then one unit
is closed; only the second charge and the close are exported. The charge is allocated to the close in full, equals the embedded total, which is half of both, and the other charge is lost, where the docstring
(`cfd.py:1728`) says "never silently counted twice or discarded". `data-and-metrics.md:139` says that the quantity needs the order as evidence, so `EachCostOnce` asks for it. With all orders exported the same can happen if one of them enlarged the position after the charge: open two units, a charge, open two more, another charge, close one, and all of it exported but
the second charge. The code divides the charge that it sees by the two units that it finds held (`cfd.py:1770`); a broker that spreads a charge over all units closed later makes the close state half of that for each, 3 and 3,
the allocated 6 equals the embedded total, and the other charge is dropped. `data-and-metrics.md:135` says that the attribution is the code's, "not a broker-reported per-close allocation", so `EachCostOnce`
has as a condition (`BorneByHeld`) that the closes bore the exported charges as the code assumes. `CfdAccountStage.run` reads the ledger and the
status of the imports one after the other, so an upload in between publishes the status of other files.

Also met, without a run of their own. Jobs of the trigger `system` are claimed only by a daemon thread whose loop (`worker_main.py:209-219`) has no exception handler. If the database
refuses a transaction of `run_once`, and the handler's attempt to fail the job as well, the exception ends that thread. The process, its main loop and its registered health stay up, nothing starts the thread again, and no
other loop may claim the trigger: the job stays `running`, its lease long over. `durable-job-runtime.md:12-14` says that a worker can crash "without leaving a permanently running job: an expired lease is eligible for reclaim".
So `JobsSettle` speaks of jobs for which a loop is left.

And documented nowhere. A request is told that a follow-up was queued when the active job had
ended meanwhile (`routes/research.py:363`). Admission looks and inserts in two transactions, so two full refreshes, or two jobs of one live slot, can be
admitted. The follow-up flag is consumed in one transaction and the research job enqueued in another (`worker_main.py:126`), so a crash in between drops it. `claim()` reclaims an expired lease however many
attempts were used. The signature of the watchlist is taken after the file was read, and operations of the API and of the worker that overlap lose one of the updates. A forced backup
makes no new point while items are queued; a kill between the removal of a tree and the status file makes a second point on one day. A process killed in `submit()` of an analysis leaves a row `QUEUED` that nobody
recovers (`typed_analysis.py:359`), and so does a worker that fails the job before the stage has read the row (`runner.py:128, 140, 253`); one that fails it after that, or whose save is refused (`typed_analysis.py:412, 507`), leaves the row `RUNNING` under a failed job until a process starts. `RowFollowsJob` and `RunSettles` leave out
these jobs (`"errored"`). An exception outside the `try` of the alert monitor ends its thread for good (`alert_monitor.py:284-288`), and `start()` does nothing while `_thread` is set, so `MonitorSettles` says: unless the thread has ended for good. A deployment of an in-place installation that is killed before
it renamed `app`, and overtaken by a second one that does, has a record whose `previous` was never made (`release-manager.py:265-267`): `--recover` accepts it, stops the services, and raises `previous release is unavailable` (`:517`), or, when `app` itself is gone, finds it at its original place and fails to start the services. `deploy/macos/README.md:136` asks to stop other attempts before a recovery; the controller does not insist. `RollbackAvailable` and `CutoversSettle` leave these records out (`Stranded`). While a cutover is interrupted only the active release and its predecessor are protected from the cleanup, where `storage-maintenance.md:103` speaks of two rollback targets. A sync that
begins more than the lookback after the last one leaves a hole that no later sync fills. A kill, or a lost reply, between the renewal of a credential at the provider and its storing
loses the connection; an undo that fails, or a kill between the credential and its row, leaves a row that does not describe the credential (`pi-ai-transport.md:89` speaks of failures
that leave the connection as it was).

## 5. Fairness

*Worker* (`FairWorkerSpec`). Weak fairness of each worker's own steps (start, poll, run): the process
supervisor (`deploy/macos`, the desktop shell) restarts a process that exited, `_worker_loop` calls `run_once` again
after every return, and a stage returns or raises. A thread for `system` jobs that an exception ended (`"ended"`) has no step of its own: only the end of its process, a crash, which nothing promises, brings it back. Weak fairness of a lease's
lapsing while nobody renews it: time passes. It does not assume that heartbeats are in time, that
submissions or cancellations happen, or that a fault does not; the fault bounds make faults finite, which is what
"eventually no more faults" means here, in every part.

*Cache* (`FairCallSpec`). Every call under way goes on: a load returns or raises (the network calls have timeouts), and no
thread keeps the lock, which is held for dictionary operations and `valid()` only. Calls need not begin.

*Analysis* (`AnalysisFairness`). An executor that has the job goes on, one that was killed is started again, and a lease that nobody renews runs out; a thread that ended need not come back, for the reason given under *Worker*. *Upgrade* (`UpgradeFairness`). A start answers or times out,
a rollback goes on, the services of a dead supervisor notice within a second and leave, and a user opens a workspace again that was not opened; a
ready App need not end. *Monitor* (`MonitorFairness`). While it lives the thread goes round and is inside the market window again and again, hence strong fairness of its load; once an exception has ended it nothing is assumed of it, not even that the API process is started again; a request that was begun is finished;
the intervals pass; requests need not be made. *Backup* (`BackupFairness`). launchd starts the job again and again, the job and the captures go on, deployments end. *Releases* (`RetentionSpec`). A controller and a
cleanup that were started go on, and the operator comes back to each deployment that is owed its end, as `deploy/macos/README.md` asks: strong fairness of its recovery, because while one record cannot be recovered the recovery of another is again and again under way; nobody need begin a deployment, make a plan or apply one. *Ledger* (`BrokerFairness`). The
daily job calls the sync again, its steps go on because a report ends or times out, and the clock goes on.

Admission, attention, watchlist, publication, readers, packs, imports and login are checked for safety only: their specifications assume no fairness.

## 6. What is proved

Constants are arbitrary within the assumption of each module (`QueueAssumption`, `FaultAssumption`, `AdmissionAssumption`, `AttentionAssumption`, `WatchlistAssumption`, `PublicationAssumption`,
`ReaderAssumption`, `PackAssumption`, `OfferedAssumption`, `BackupAssumption`, `ReleaseAssumption`, `SweepAssumption`, `UpgradeAssumption`, `SingleFlightAssumption`, `AnalysisAssumption`,
`MonitorAssumption`, `BrokerAssumption`, `CfdAssumption`, `OAuthAssumption`): any sets of jobs, workers, publishers, clients, tickers, readers, records, releases, Apps, entries and refreshers,
any number of stages and attempts, any grants of triggers, any lengths of history, any numbers of faults. The assumptions say that bounds are natural numbers and that what there is at least one of in
the program (a stage, a record, a ticker that is listed, a slot, a deployment) is one here.

| theorem | says |
| --- | --- |
| `TypeCorrect`, `OwnershipCorrect` | `[]TypeOK`, `[]OwnershipOK` |
| `FinishedStaysFinal`, `CancelledStaysPut`, `LiveLeaseProtects` | the action properties of the table: a finished job stays as it is, a cancelled one is not handed out, a live lease protects |
| `RowsImplementLifecycle` | `Spec => ImplementsLifecycle` |
| `WorkersImplementQueue` | `WorkerSpec => Spec` |
| `WorkerTypeCorrect` | `[]WorkerTypeOK` |
| `SucceededJobsAreComplete`, `SucceededJobsPublished`, `RetriesAreBounded`, `JobsExecuteExclusively` | the worker's invariants; the last is `[]ExclusiveExecution` |
| `SucceededStagesStick`, `PublicationsComeLast` | the worker's action properties |
| `AdmissionTypeCorrect`, `OneStructuralPending`, `DailySlotOnce`, `JoinedTickersServed` | `[]AdmissionTypeOK`, `[]OneStructural`, `[]DailyOnce`, `[]FollowUpKept` |
| `FailuresAreCounted` | `[]StreaksCountFailures` |
| `WatchTypeCorrect`, `WorkIsOnTheFile`, `SeededOnce` | `[]WatchTypeOK`, `[]WorksOnCurrent`; `NotSeededAgain`, if at most one process seeds |
| `PublicationTypeCorrect`, `SnapshotsAreComplete`, `CoverageIsConsistent` | the invariants of publication, leases lost or not |
| `PublicationIsAtomic` | `Spec => ImplementsRegister`: as long as no lease was lost, every publication is one step of the register |
| `ReaderTypeCorrect`, `AnswersAreFresh` | `[]ReaderTypeOK`, `[]FreshAnswer` |
| `PoolTypeCorrect`, `ReadersFindRecords`, `ContentsKept` | `[]PoolTypeOK`, `[]ReadersFind`; the action property `KeepsContents` |
| `BackupTypeCorrect`, `CapturesFindTheirSnapshot`, `QueuedPointsSurvive` | `[]BackupTypeOK`, `[]CapturesAreWhole`, `[]PointsSurvive` |
| `RetentionTypeCorrect`, `LoadedServicesCanRun`, `UpgradesAreAllOrNothing`, `RecoveryFindsItsRelease` | `[]RetentionTypeOK`, `[]LoadedCanRun`, `[]Coherent`, `[]RollbackAvailable` |
| `UpgradeTypeCorrect`, `RecordsAreKept`, `ServicesStartOnWhole` | `[]UpgradeTypeOK`, `[]RecordsKept`, `StartsWhole` |
| `CacheTypeCorrect`, `LoadsAreCoalesced`, `AnswersAreValid`, `WaitersAreServed` | `[]CacheTypeOK`, `[]OneLoadPerKey`, `[]NothingSpoiled`, `[]WaitersHaveOwner` |
| `AnalysisTypeCorrect`, `RowsFollowTheirJob` | `[]AnalysisTypeOK`, `[]RowFollowsJob` |
| `MonitorTypeCorrect`, `StateIsOfOneSnapshot` | `[]MonitorTypeOK`, `[]OneSnapshotShown` |
| `OAuthTypeCorrect`, `LateLoginsAreDropped`, `ConnectionStays` | `[]OAuthTypeOK`, `[]NoLateLogin`, `[]ConnectionWorks` |
| `BrokerTypeCorrect`, `LedgerIsWhole` | `[]BrokerTypeOK`; `[]LedgerHasNoHole`, if `Lookback = Year` |
| `CfdTypeCorrect`, `ImportsAreKept`, `CostsCountOnce` | `[]CfdTypeOK`, `[]ImportsHold`, `[]EachCostOnce` |

Each safety invariant and each action property that a passing run checks is one of these. None of them uses the fairness of its specification, so they hold of unfair
behaviours too. What follows says, module by module, which inductive invariant carries the proof and why the property alone does not.

`DurableWorker_proofs`, queue. `TypeOK` and `OwnershipOK` are together inductive. The action
properties follow step by step from them; `RowsImplementLifecycle` shows each
step of the table to be a step or a stutter of `JobLifecycle` for each row.

`DurableWorker_proofs`, worker. `WorkersImplementQueue` maps every step of the program to a step of
the queue, or to a stutter, so that all theorems about the queue hold of it. The worker's own properties are not inductive:
that a worker about to write `"succeeded"` has run every stage depends on what
it read at the claim and on what the table still says. The strengthening `WorkerInv` adds two parts.
`SessionOK` relates the locals of a session to the table: the stages in `done[w]` and those before
`at[w]` are succeeded in the table, whoever owns the job now (this holds because no step re-opens a succeeded
stage, which is `StagesStick`, and is why a superseded worker cannot publish early), `snap[w]` implies a
publication, and a worker at `"requeue"` that still owns its job read an attempt count
below the limit. `RowsOK` holds what the rows need by themselves: succeeded jobs are complete and published, a queued
job has attempts left. `ExclusiveExecution` needs to know why nobody else can have the job: `HoldOK` says that, until a heartbeat stalls or the database
refuses something, every session under way owns its job, that its lease is live, and that its heartbeat beats.

`Admission_proofs`. Nothing in the database keeps two structural refreshes, or two jobs of a slot, apart; what does is that one actor only asks for each. `StructuralOK`
says that the worker, when it is about to ask, has found no structural refresh and that none can have come since, `DailyOK` the same of the daily scheduler and its slot, `HeldOK` what
everybody knows of the job it acts upon, above all that the job whose follow-up flag is being consumed has succeeded, so that no request can join it any more. Of the
watchlist, `CurrentOK` says that the copy of the operation under way is that of the file as long as no other operation overlapped it, `MarkerOK` that whoever has seen an entry, or has written a
list without one, has left the bootstrap marker, and `SeederOK` that the one process which seeds leaves it before it does anything else. Of the warning, `Settled` says that a job which has finished is not asked to be cancelled any more. Given that, the
scan counts what the definition counts, by an induction over the rows that it has seen (`ScanCounts`).

`LatestManifest_proofs`, publication. `PublicationInv` is inductive. `NumbersOK` says that the numbers of the refreshes under way
differ and that none of them is the pointer, so that writing a manifest never changes the latest snapshot. `StoreOK` adds to
`SnapshotsComplete` that what each publisher read, and what it is about to write, is stored. `ConsistentOK` says that every
manifest, and every snapshot read, has the coverage of its rows; merging keeps it. None of them mentions the lease.
The refinement does: as long as `losses = 0`, `LeasedOK` says that only the holder is under way
and that what it read is still the latest, so replacing the pointer is one refresh of the register and all
other steps stutter.

`LatestManifest_proofs`, readers. The inductive invariant relates the cache to the calls that may still hit it: `Answers(s, n)`
says that run `n`, filed under signature `s`, is an answer to every open call that found `s`, and that
it is the latest run if `s` still is the signature of the pointer. It survives a publication because the new
signature is one that nobody has found (`UnseenOK`), which rests on `NumbersOK`.

`RecoveryPacks_proofs`. One invariant, `PoolInv`, serves the store with its lock-free readers and writers and the recovery repository. `BatchOK` says what the batch in hand guarantees at each
step: no loose file of it was changed but by a writer, what the locator has under its keys is what the batch holds, and when a file is unlinked its record is
located. `PoolOK` says the same of a pack that is rewritten: whatever a manifest needs of it is among what was written again. `ReaderOK` follows a reader through the order in which a record moves: if
it has missed the loose file the record was located before that, and a pack that it was sent to stays, because a store with readers never removes one.

`Upkeep_proofs`. Of the monitor, `SeenFor` says of a state that its quotes and alerts were obtained for the snapshot it names, and `CopyOK` the same of each copy a run works on, with what the run cleared when
it found another snapshot. Of the backup, `LiveOK` and `CaptureOK` follow a capture from the pinned pointer to the copied files, `PointsOK` says that a point is in the queue only while its tree or its
manifest is there and is marked as archived only when its manifest is, and `JobOK` what the job has made sure of before it removes a tree.

`ServiceRetention_proofs`. `PlaceOK` says where `app` can point, `StepOK` what each step of the controller finds, `SweepOK` that the cleanup has left alone the release that any recoverable record goes
back to, unless it is about to retire that record, and that a journal is there meanwhile. `LoadedCanRun` and `RollbackAvailable` need these three, whoever deploys when; that a record which began on the plain directory finds it, at `app` or at its own path, unless it is stranded, is a matter of who moved it (`moved`). `Coherent` holds as long as nobody deploys over an
interrupted deployment; while that is so, `OwedOK` says that a deployment that began its cutover has saved what it replaced whole and `StageOK` says to which release the environment, the routes and the services belong at each step, forward and back.

`Services_proofs`, cache. `OwnersOK` ties the table of pending futures to the calls: an entry has exactly one owning call, with that
key and that future, and an owner's key is not cached. Coalescing is a part of it; that waiters are served
needs it when a call joins, and `AnswersAreValid` when it joins too, because a future with an owner cannot be of a load that is over.
`NumbersOK` says that the next load is new.

`Services_proofs`, analysis. The row has no owner of its own, so what keeps it in step with the job is the lease of the job. `RequestOK` says that until `submit()` has queued the job there is nothing but the
row, `CopiesOK` that a lens which was done has left an artifact or an error in the copy of its executor, and `OwnerOK` that, as long as no lease lapses under a live executor, only the owner of the job executes it, and
which answer of the row goes with each of its steps.

`Services_proofs`, upgrade. `RecordsKept` needs to know how far a rollback is (`JournalOK`: while entries are listed and moved aside, the staged copy is the baseline and the list is all there is;
while they are moved back, each entry is staged or back, never both or neither), that nobody but the holder of the lock and its orphans changes the workspace (`LockOK`, `ServicesOK`: no
services run during a rollback, and those that run when no upgrade is under way have nothing to migrate), and what each step of a supervisor has found when it comes to it (`SupervisorOK`).

`Services_proofs`, login. `SessionOK` says that only the thread of a session that is still active can come to save its login. `UnsavedOK` says that a login that was not saved has left no trace in the store, the row or what would be
put back. `FileOK` says what the one holder of the lock file knows of the store, `ShownOK` what it is about to make the row show.

`Ledgers_proofs`. Of the broker's ledger, `FilesOK` says what each cached file and the pending report are sure to hold: their window, but for the last day of a rolling one, which may not have been over.
`WindowOK` says that the window of a sync is the rolling one, or an older one that ends where what was gathered begins. `RowsOK` says what the rows gathered so far cover, step by step. A partial file
of a rolling window must not be taken for an older window; it is told from one by its length, which is where the proof needs `Lookback = Year`. The defaults are like that; a lookback of 364 days
would let the names of the two files coincide. Of the imports, `UploadOK` says what an upload may rely on at each step: what it is about to list was found free
of conflicts, because no other upload changes the manifest meanwhile, its original is stored, and the caches before the one it writes are already made from the same files.
`CostsCountOnce` is about the allocation, whatever files are listed. Since the orders are known, the analysis takes the holding at a charge for no less than it was, so
what it allocates to a close is at most what the close bore of those costs if it bore them by what was held (`ShareOfBorne`, the one place where `BorneByHeld` is needed); if that equals the embedded total, the close bore nothing else. If nothing can be allocated to a close, all it bore is without a row, and its embedded total is
what is added (`FallbackIsMissing`).

Two of these theorems are about loops over any number of rows: `FailuresAreCounted` and `CostsCountOnce`. The induction theorems of the library cannot be used, so each is done by hand: a set of numbers
that has 0 and the successor of each of its members has all numbers, because there would be a least one it lacks (`LeastElement`, from the well-foundedness of `<`). That the recursive function exists, and
is a sum whatever member the fold takes first (`SumsExist`, `SumsAgree`, `SumLaws`), or is what the loop computes (`ScanUnfolds`), comes before anything is said of its values.

Each of the inductive invariants was model-checked before it was proved.

## 7. What is only model-checked

Liveness under fairness is out of reach of the prover: `JobsSettle`, `CancellationStops`, `EveryCallReturns`, `RunSettles`, `UpgradeSettles`, `MonitorSettles`, `QueueDrains`, `CutoversSettle`,
`HistoryReachesFloor`.  `NotSeededAgain` is checked with one seeding process, as the program has, and proved with that as a hypothesis.

## 8. What is not modelled

- What stages compute (accounts, NAV, performance, research, fund holdings) is numeric code over large records, without concurrency of its own; `DurableWorker` models how stages run. The parsing of
  broker exports, the snapshot and the cash feed of an account are left out of `BrokerSync` for the same reason. Of the analysis of CFD ledgers the costs are modelled; currency conversion, trade statistics, phases and risk are sums and ratios over what the costs leave.
- The dashboard and the history reader project an immutable snapshot. Settings, API keys, taxonomy, valuation assumptions and the journal have
  one writer and no protocol beyond a revision.
- `prune_snapshots` and `publish_typed` have no callers but tests. A stored artifact that cannot be read back (`research_stages.py:772`), checksums, the sidecars of byte artifacts and the formats
  of packs and history chunks are left to the correctness of the store: a file that was written is there and is what was written.
- Of the recovery commands only capture, archival and maintenance are modelled. Verification reads points that no longer change; restore and the legacy commands are run by an operator.
- Of the storage commands only the cleanup of releases is modelled; the migrations of the storage layout and of checkpoints are run once, by an operator, with services down.
- Of the desktop application only the upgrade: the window, its connections and the download of updates are one user's calls to the operating system. The web application talks to
  the API only.
- Loads of the single-flight cache that ask another cache do not hold its lock; one that asked its own cache for its own key would wait for itself, which no caller does.

## 9. What is left

The migrations of storage layout and checkpoints, which are interruptible and have journals of their own. An abstract specification of the
two promises of the recovery store (a point that was taken can be restored, what a manifest needs is there), which `BackgroundBackup` and `RecoveryPacks` would implement. Of the
watchlist, what several seeding processes at once can do to each other.
