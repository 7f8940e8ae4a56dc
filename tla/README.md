# Formal models of the registry mirror stack

This directory holds TLA+ models of the control plane of the registry mirror
stack (`src/`): the process that keeps an index of what the registry caches
hold, removes what nobody uses, and asks a second process to collect the
garbage. TLC checks the models on small instances; TLAPS proves theorems about
them for every value of their constants.

## 1. The system

```
 clients ──> router ──> registry-dockerhub / -ghcr / -quay  ──> upstream registries
                          │  notifications (events)   ▲ catalog, tags, HEAD, DELETE
                          ▼                           │
              control: webhook · catalog sync · janitor · console API
                          │  SQLite (one connection, WAL)
                          │  flag files: gc.<cache>.requested / gc.<cache>.running
                          ▼
              gc-worker: polls the flags, runs `registry garbage-collect`
```

One Go binary (`app/main.go`) runs in three modes: `router`, `control`,
`gc-worker`. Control and gc-worker share the SQLite file and the directory of
flag files, and nothing else; when they start, each rewrites the repository
names an earlier version left in the database.

### Inventory

| component | state it keeps | operations | correct when |
|---|---|---|---|
| **metadata index** (`store.go`, schema in `app.go`) | tables `artifacts` (tag, first/last seen, pin, protection, deletion mark) and `artifact_tags` | apply a push, pull, delete or other event; import a repository; pin; protect; mark deleted; prune | no row is used before it was first seen, but for the time an operation waited; the row's tag is one of the artifact's tags; a mark of the operator survives everything; a tombstone is lifted only on evidence |
| **registry notifications** (`handlers.go`) | none; the queue is the registry's | store each event of a delivery in a transaction of its own, answer 200 | the index learns of a removal; repeated and late deliveries do no harm |
| **catalog sync** (`catalog.go`) | one transaction per repository | list repositories and tags, fetch each tag's manifest, upsert, commit or roll back | never revives what was removed meanwhile; what is cached comes to be listed |
| **janitor** (`ops.go`) | candidate list, batch counters, `janitorRunning` | check the reasons to skip, list, delete at the registry, mark, ask for GC | honours pauses and marks; a removal leads to a collection |
| **GC hand-off** (`ops.go`, `targets_ops.go`, `main.go`) | request flag and active flag per cache, `gcRunning` | request, clear, poll, run the command, remove the request, restart | requests survive crashes and are served; flags tell the truth; pauses hold |
| **health and fallback** (`ops.go`) | `lastFallback` | classify mode, GC, mirrors, upstreams, storage | the classification is what the skips rely on |
| **maintenance settings** (`store.go`) | settings rows `maintenance_mode`, `janitor_paused`, `gc_paused`, banner | read one by one, written one by one | a run that starts under a pause does nothing |
| **disks and job history** (`targets_ops.go`, `disk_linux.go`, `store.go`) | `job_runs`; the disks' free space is read, never kept | read and sum the storage of all caches, compute what there is to free; create, finish, "ran today?" | a run frees what is missing and not more; a row says `running` while its run lives |
| **repository names, router** (`upstreams.go`, `router.go`, `store.go`) | the names in all tables | `CanonicalRepo`, `ResolveRepoTarget`, `resolveTarget`, `normalizeStoredRepos` | naming and routing agree; a rewriting leaves each row with its artifact |
| **login and sessions** (`auth.go`, `store.go`) | failed-login counter, lock, `sessions`, the browsers' cookies | login, logout, change password, authenticate, touch, prune | failures lock; what is ended stays ended; a live cookie is known |
| **mirror manager** (`scripts/docker-registry-mirror-manager.sh`) | `daemon.json`, its backup, state file, scheduled rollback | apply, rollback, status | what apply did can be undone, reports are true, a scheduled rollback happens |
| configuration, console, system log, installer | — | — | see `PROJECT.json`, `components` |

### How the parts interact, and what makes it hard

* **Two processes, no lock between them.** `beginOperation` excludes the
  janitor and a collection from each other inside one process only. Between the
  processes there are files that `os.WriteFile` truncates first and fills later.
* **One connection.** `SetMaxOpenConns(1)` makes every statement of control wait
  for a transaction that is open. The catalog sync opens its transaction
  *before* it asks the registry anything, and that is what orders a concurrent
  deletion after its commit.
* **Notifications** come in order, may be repeated (the answer is lost) and may
  be dropped (`recordEvent` fails, the handler answers 200 all the same).
* **Decisions on old data.** The janitor lists candidates once and deletes them
  one by one; both workers read settings one statement at a time and then act; a
  login counts from a row it read before the slow comparison; a starting process
  rewrites names it selected while the other process is already up.
* **Times from before the wait.** `recordEvent`, `createSession` and
  `touchSession` read the clock and then wait for the connection, so what they
  write is older than the write, and may be older than what was written meanwhile.
* **Deleting is not freeing.** Space comes back only when the gc-worker has
  collected, so a run under pressure counts what it hopes for, over the sum of
  all caches.
* **Partial failure.** A DELETE succeeds and the mark fails; one tag of a
  repository cannot be fetched; the command of one cache fails.
* **Crashes** between any two steps, of either process.
* **On the clients**, a shell script rewrites Docker's configuration in steps over
  several files, may stop between any two, and has a timer start a second run of
  itself.

`PROJECT.json`, `hazards`, lists these at their lines, with the property that
covers each or the reason why none does yet.

## 2. The modules

| module | models | lines of code read |
|---|---|---|
| `Fallback` | `refreshFallbackStatus`'s switch as an operator | `ops.go` |
| `ArtifactStore` | the two index tables, each writing operation as one action | `store.go`, `catalog.go`, `handlers.go`, `app.go` |
| `MCArtifactStore` | symmetry of digests, for TLC | |
| `ArtifactStoreProofs` | the index invariants and action properties, proved | |
| `GCWorker` | GC hand-off: callers of control, flag files, the worker step by step | `ops.go`, `targets_ops.go`, `handlers.go`, `main.go` |
| `GCHandOff` | the abstract hand-off: caches wanted, running, served | |
| `GCWorkerProofs` | its safety, and that it implements `GCHandOff`, proved | |
| `CacheControl` | control at work on one cache; extends `ArtifactStore` with the registry, the notification queue, catalog syncs, the janitor and faults | `ops.go`, `catalog.go`, `handlers.go`, `main.go` |
| `MCCacheControl` | symmetry of digests and syncers, for TLC | |
| `CacheControlProofs` | its safety, and that all it writes to the index are steps of `ArtifactStore`, proved | |
| `Cleanup` | the janitor over several caches: bytes, disks, its two callers, job rows, collections | `ops.go`, `targets_ops.go`, `disk_linux.go`, `store.go`, `handlers.go` |
| `MCCleanup` | sizes, disks and ranks of an instance | |
| `CleanupProofs` | types, exclusion of runs, job rows, garbage, the target, proved | |
| `Sessions` | login, logout, change of password, authentication, a statement at a time | `auth.go`, `store.go` |
| `MCSessions` | symmetry of requests, for TLC | |
| `SessionsProofs` | the safety of the session table and of the failure counter, proved | |
| `Names` | names and routes of artifacts; the rewriting of stored names by two processes | `upstreams.go`, `router.go`, `store.go`, `app.go` |
| `MCNames` | an instance with two registries | |
| `NamesProofs` | naming and rewriting, proved | |
| `MirrorManager` | apply, rollback and the scheduled rollback, file by file | `docker-registry-mirror-manager.sh` |
| `MCMirrorManager` | names of mirrors | |
| `MirrorManagerProofs` | what holds of runs that follow one another, proved | |
| `Counting` | what the proofs need of sums over finite sets and of binomial coefficients, proved | |

### ArtifactStore

`artifacts` is a partial function from `<<repo, digest>>` to a row,
`artifact_tags` a set of pairs. Every operation of the code is one SQL
statement or one transaction on the only connection, and so one action:
`RecordEvent` (push, pull, delete, other), `SyncRepo` (a whole repository,
committed at once), `HandlePin`, `HandleProtect`, `MarkDeleted`,
`PruneMetadata`. `ListCandidates` is the janitor's query together with
`decorateArtifact`'s verdict.

Left out: sizes, media types and use counts (no control depends on them here),
the raw event log, `normalizeStoredRepos` (it is in `Names`). Time is a counter of days,
since the two policy limits count days. The time an operation writes, `now`, is a
parameter of the action: `recordEvent` reads the clock (store.go:419) before
`BeginTx` waits for the connection, which a catalog sync holds across its calls
to the registry, so `now` is any day at most `MaxWait` before the write (`Stamps`).
`AgesOrdered` therefore does not say that a row's last use follows its first sight:
an event stamped first and applied after a sync has made the row puts it before.
It says that it is never further before than the longest wait, and that neither
is in the future. `deleted_at` and `delete_reason` are one
field, for they are written together.

Of an import, `Latest` says that a digest which several tags answered ends with
the tag listed last; the order of the listing is the registry's, so any of these
tags may be it.

### GCWorker

An upstream is its position in `cfg.Upstreams`. An *activity* of control
(`Callers`) works through a list of targets, writing or removing request
files: `handleRunGC` and `handleClearGCRequest` in the order of the
configuration, the janitor in the order of a Go map, which is any order.
Writing is two steps, `OpenRequest` (the file exists and is empty, and reads as an
unforced "legacy" request) and `WriteRequest`; a file removed in between takes
the text with it (`"unlinked"`). Two activities that write over each other may
leave text that is no JSON, which reads as an unforced request too.

The worker's `pc` follows `gcWorkerLoop` (`poll`, `stat`) and `executeGC`
(`begin`, `health`, `mode`, `paused`, `target`, `collect`, `clear`): a step ends
where another process can come between, which is at every file operation, SQL
statement and at the command. `gcRunning`, `pending`, `fallback`, `modeRead` and
`force` are the code's variables.

History variables, which no guard reads: `owed` (targets with a request no
successful command followed), `rewritten` (a request was written since the
command of its cache began), `held` (what has paused GC without a break since the
run began).

Settings are switched and health changes at any time. The hour of the
scheduled run and "ran today" are a free choice in `PollEnd`.

`GCHandOff` says what all of this is for, without files, polls or processes: a
set of caches whose collection is wanted, the one being collected, the one just
served. `IsHandOff` maps `GCWorker` onto it: wanted are the caches with a
request file, running the cursor's cache while the command runs, served the
cursor's while its request is about to be removed. So a half-written file is a
request already, a worker that dies mid-command is a `Stop`, and the removal
of a request is a `Retire` of that cache alone.

### CacheControl

The registry is **external**: it holds manifests, resolves tags, appends to a
queue of events, and a DELETE removes the tags with the manifest. `ClientPull`
stores a manifest and may or may not report it (a pull-through proxy does not
always). Control's steps:

* `StampEvent`, `ReceiveEvent`: `recordEvent` reads the clock (`stamp`), and when it
  has the connection its whole transaction is one step; the answer may be lost,
  and then the event stays in the queue. `DropEvent`: storing failed. A sync and a
  janitor run hold the time they have read in the same way (`now`). `MaxWait`
  bounds how far the clock moves on while an event or a transaction waits.
* `ListTags`, `BeginSyncTx`, `FetchTag`, `CommitSync`, `RollbackSync`: a sync of
  one repository. `conn` is the connection: from `BeginSyncTx` to the commit no
  other statement of control runs (`ConnFree`).
* `BeginJanitor`, `ReadHealth`, `ReadMode`, `ReadPausedAndDecide`, `List`,
  `NextItem`, `EndLoop`, `DeleteManifest`, `DeleteManifestFails`, `MarkItem`,
  `MarkItemFails`, `FinishJanitor`: a janitor run, a step per statement or
  call. The storage level and the amount to free may be anything (`ReadHealth`).
* `OperatorMarks`, `SetMaintenanceMode`, `SetJanitorPaused`, `Housekeeping`,
  `NextDay`, `ControlCrash`; `CollectBegins`, `CollectEnds` stand for `GCWorker`
  as far as this cache sees it.

History variables: `lost` (removals that nobody is left to report, because an
event was dropped or a mark failed while the row was active, or while a sync that
had been answered the manifest was about to make it so), `shielded` (artifacts marked by the
operator since before the listing), `uncollected`, `held`.

Left out: bytes (`required` and `recovered` count artifacts), failing reads
(in WAL mode a read fails only when the disk does), paging of the catalog,
two caches at once: the caches share the connection and the janitor's list,
and otherwise nothing (what they share in bytes is in `Cleanup`).

### Cleanup

Caches, disks and artifacts with sizes; `Tagged` are the artifacts that the catalog
names, the others are pulled by digest; `DiskOf` says which file system a
cache's volume is on. `FreeBytes` is what `getDiskStats` answers, `TotalRead`,
`FreeRead`, `FreePct` and `BytesToTarget` are `aggregateStorage` and
`bytesToTarget` with their rounding, over the caches that can be read. A run
has the places `health`, `list`, `loop`, `mark`, `gc`, `finish`; `run[c]` holds
its local variables, `AfterItem` is the end of the loop's body, with the two
tests that stop it. The two callers are the ticker and the console; the
console's client may disconnect, which fails every later statement and call of the
run that uses the request's context (`Disconnect`, `gone`), but not
`finishJobRun`. `Begin` is `beginOperation` and `createJobRun`. `openRows` counts
rows of `job_runs` left in status running.

The gc-worker is here as `CollectBegins`, `CollectEnds`, `CollectFails`; a blob
leaves its disk only by `CollectEnds`, and the request file goes with it, a newer
one included, as in `GCWorker`. Clients, the clock, outages, notifications
and the catalog sync are external or reduced to what they do to `indexed` and
`unused`. The notification of a pull (`RecordPull`) touches a row that is not
marked as deleted, and makes and revives none; a pushed artifact is listed again
(`RecordPush`), and so is what the catalog names (`CatalogSync`, of `Tagged` only).
So an artifact may be cached and not listed: one that is pulled by digest when its
row is marked already, and initially one that no row was ever made for.

History variables: `shortage` in a run (what the disks really lacked when they
were read, each disk once) and `unasked` (caches whose request failed, was lost in a
crash or with a collection that was under way, or was nobody's any more because
the delete event took the row first, or because the DELETE whose answer was lost
was of an artifact that was not listed).

Left out: the settings and reasons to skip that `CacheControl` has; the age
limits (one state, unused) and with them the candidates of emergency mode.

### Sessions

One account, since the console creates no other. A request is at a place between
two SQL statements, and there is no transaction around them: `LoginReadUser`, then
the comparison, then `RecordFailedLogin` or `RecordSuccessfulLogin`, then
`TakeTime`, `CreateSession` and `SetCookie`; `Send` (with a cookie the browser has), `FindAuthSession`,
`TouchRead`, `TouchWrite`, then the handler's statements; the middleware and the
handler each authenticate (`gate`). `Abort` is a lost client, a failing
statement or a crash. Instants are kept as what is left until them, so that the
clock (`Tick`) has no end; `lag` is how old the time is that a request is about
to write, or has just written: `createSession` computes `expires_at` and then
waits for the connection, `touchSession` does the same, and the answer takes its
time too. A session that was inserted and whose answer is on its way is `fresh`.

A cookie has two times of its own: `Expires`, which is the row's `expires_at`
(`expires`), and `Max-Age`, the whole TTL from the moment the browser receives it,
which a browser prefers (`cookie`). The row therefore may expire while the browser
still sends its cookie. `CookieCovered` is about the promise the server does give:
until `Expires` the row is known.

History variables: `ended` (tokens of revoked sessions), `cut` (a change of
password that ended between its first two statements), `uncounted` (failures
since the counter was last reset), and in a row `verified`, `late`.

Left out: hashing (a password is the number of its change), the cookie's
encoding, same-origin and CSRF checks, which keep no state.

### Names

A name is a sequence of segments, a host is one segment, `Lower` is
`strings.ToLower`. `ParseUpstreamTargets` is applied to a configured list that
`Accepted` accepts; `CanonicalRepo`, `ResolveRepoTarget` (which finds the host
regardless of case and trims it with regard to case) and the router's
`ResolveTarget` are as in the code. `normalizeStoredRepos` runs in each process
between opening the database and serving, table by table: `SelectArtifacts`,
`SelectTags` and `SelectEvents` each read the rows and make the list of updates,
`UpdateArtifact`, `UpdateTag` and `UpdateEvent` make one of them by its rowid, and
`Serve` ends the start with `pruneMetadata`. A key that is taken refuses an update
(`Refused`, `TagRefused`), and the start with it (`UpdateRefused`); the process is
started again and reads afresh, as after a `Crash`. Meanwhile the other process
records events (`RecordEvent`: the tag is kept of any event but a pull of what is
not listed) or prunes (`PruneEvent`, `PruneTags`).

The three tables differ in what a rowid that was read may be later. No code
deletes rows of `artifacts`, so there it is the same row. Ids of events are
`AUTOINCREMENT`, so there it is the same row or none. `artifact_tags` loses its
orphans to `pruneMetadata`, tags whose artifact is not in `artifacts`, and a new
row takes the rowid after the highest there is: there it may be another row. The
database of the earlier version has such orphans (`NamesInit`).

Histories: `of`, in a row, is the host and repository the row was made for;
`claimed`, in a row of `artifact_tags`, says that when it was made some process had
still to update the row that had this rowid before. `RightCache` and `NoRefusal` say
that these are the only rows a late update can harm, or run into.

### MirrorManager

A run of the script is a record: the command, its place, `MIRROR_URL`, whether a
time or `--self-delete` is set, and what a copy or the embedded Python has read.
There are two processes, the operator's and the timer's. The steps have the names
of the shell functions; one that opens a file and then fills it is two
(`StartApply` and `SaveState`, `BackupCurrentConfigOnce` and `FillBackup`,
`RestoreBackup` and `FillDaemonJSON`), and so is the Python that reads
`daemon.json` and replaces it. The two scripts the timer starts are made in three
steps each, emptied, filled and made executable (`InstallSelf`, `FillScript`,
`ChmodScript`; `WriteRollbackWrapper`, `FillWrapper`, `ChmodWrapper`). A script
that is cut off counts as empty, for all that each of them does begins in its last
line. `Stop` ends a run anywhere, as a signal or a
command that fails under `set -e` does; `RestartFails` leaves Docker down;
`Reboot` stops all and starts Docker with the `daemon.json` there is; a `docker
system info` that fails prints no mirror. `Fire` is the timer: it starts
ROLLBACK_SCRIPT, and through it INSTALL_PATH, if both are whole and executable
(`TimerCanRun`); otherwise it has elapsed for nothing. The operator starts a script
file as a command, as the repository's README does (README.md:359-365), so an
INSTALL_PATH that cannot run is not what an apply was started from (`self`).

`daemon.json` is a version of the operator's own settings and a set of mirrors; an
absent or empty file is one with neither. `Overlap` says whether the two
processes may run at the same time: the script takes no lock, so they may, but
only a run that begins at the scheduled minute overlaps.

History: `report` (what the last run said), `original` (what the backup was
made of, once it is whole).

Left out: the `at` branch (hosts without systemd), `status`, which prints,
`verify_control_if_possible`, which warns, and mirrors whose URL is a part of
another's (`grep -F` takes one for the other).

### Slips

A definition whose comment begins with "Slip:" is not the code's. It is a
mistake the code could well contain (a forgotten guard, a swapped order, a column
too many), kept next to the definition it would replace. It documents what each
property is for: with the slip in place of the original, TLC finds the property
violated (`PROJECT.json`, `mutants`). No slip is part of a specification.

## 3. The runs

`tlc -workers 2 -config <cfg> <module>` in this directory.

| run (cfg) | instance | what it shows |
|---|---|---|
| `artifact_store` (`ArtifactStore.cfg`) | 1 repository, 2 digests, 2 tags of which one protected, days 0..2, both limits 1 day, waits of up to 1 day | any order of operations keeps `AgesOrdered` and `TagIndexed`; only pin and protect change the operator's marks (`MarksStick`); a deleted artifact comes back only on evidence (`TombstonesStay`) |
| `gc_worker` (`GCWorker.cfg`) | 2 caches, 1 activity, 1 fault | `FlagsTellTruth`, `PauseHonoured`, `OwedIsRequested`, the refinement `IsHandOff`, and the liveness property `RequestsServed` |
| `cache_control` (`CacheControl.cfg`) | 1 repository, 2 digests, 1 tag, 1 syncer, batch 2, 2 events on their way, 2 changes, 1 fault, waits of up to 1 day | `NewsReachesIndex`, `MarksBeforeListing`, `PauseHonoured`, `RemovalAsksForGC` |
| `cache_heals` (`CCHeals.cfg`) | 1 digest, 1 tag, 1 syncer, 2 events on their way, 2 changes, 1 fault | the liveness property `CatalogHeals` |
| `cleanup` (`Cleanup.cfg`) | 2 caches on a disk of 10 each, 3 artifacts, the least recently used one never deletable, one without a tag, batch 2, 2 changes, 1 fault | `OneRun`, `RunningRowsLive`, `TargetIsEnough`, `GarbageIsKnown`, and the liveness property `UnusedSpaceReturns` |
| `sessions` (`Sessions.cfg`) | 2 requests at a time, 2 sessions, 1 change of password, TTL 2, refresh 1, 2 attempts | `EndedStaysOut`, `HeldRowIsOwn`, `CookieCovered`, `OldSessionsEnd`, `FailuresLock` |
| `names` (`Names.cfg`) | 2 registries, one configured in capitals, a repository with a path like the other's name; 2 stored names, 2 digests, up to 2 rows of `artifact_tags` of any of them, 1 event, 2 faults | `PulledIsAddressed`, `RightCache`, `NoRefusal`, and the liveness property `AllComeUp` |
| `mirror_manager` (`MirrorManager.cfg`) | 3 mirrors, one the operator's own, 4 runs one after the other, 1 edit, 2 faults | `UndoIsPossible`, `OriginalKept`, `ScheduledCanRun`, `RolledBackIsClean`, and the liveness property `RollbackHappens` |
| `gc_lost` (`GCLost.cfg`) | 1 cache, no fault | finding: `NoRequestLost` is violated |
| `gc_degraded` (`GCDegraded.cfg`) | 1 cache, no fault | finding: `DegradedSkips` is violated |
| `cc_gc_pause` (`CCGCPause.cfg`) | 1 digest, no fault | finding: `DeletesPauseForGC` is violated |
| `cleanup_overshoot` (`CleanupShared.cfg`) | the caches of `cleanup` on one disk of 20, no fault | finding: `TargetIsEnough` is violated |

All runs but `names` and `mirror_manager` check for deadlock. In `names` the
system comes to rest when both processes are up, the bounded events are recorded
and pruned and the faults are spent; a host is at rest when the bounded runs of the
script are over and no rollback is scheduled.

### Bounds, and why they are enough

* Two digests (`cache_control`) are the fewest with which a janitor run has a
  next candidate after an item that failed, and a tag can move between them.
  Repositories do not interact, except through the connection and the batch;
  one repository shows each of these, and `ArtifactStore` is proved for any
  number.
* Days 0..2 with limits of one day: a row is young, then old enough to be a
  candidate (`lastUsed < clock - UnusedDays`).
* `MaxWait` is one day, the clock's unit: an event is applied a day after it was
  stamped, which is enough to put it before a row that a sync made meanwhile.
* `MaxChanges` counts client pulls, marks, switched settings and collections that
  begin. Two are enough for a pull followed by a pin, by a switched pause, or by a
  second pull after the removal: only the last makes a tombstone that the sync has
  to lift. Syncs and janitor runs are not bounded.
* One syncer: a second one waits for the connection in `BeginSyncTx`, so all it
  adds is a list of tags that has aged, which the single syncer has too when the
  janitor deletes, or a client pulls, between `ListTags` and `FetchTag`. The
  specification allows any number.
* `MaxFaults` is one: every fault of the model (failed call, lost answer,
  dropped event, crash) is taken in every state. Two faults at once are outside the
  runs; the theorems, which cover every safety property, hold for any number.
* One activity in `gc_worker`: two would overlap their file writes, which the
  run leaves to the theorems (they hold for any set of activities); one
  activity and the worker show the races between the two processes.
* `Healths` leaves "mirror" out of `gc_worker`: the classification of a
  collection does not depend on it (see the finding on `DegradedSkips`).
* `cleanup`: two caches are needed for a request that goes to the wrong one or to
  one of two; three artifacts with a batch of two, one of them never deletable,
  are the fewest with which failing candidates could use up a batch, a run can
  reach its target before its batch ends, and two artifacts share a disk. The one
  without a tag is alone on its disk, and can be listed or not when the run
  begins, and pulled again by digest after its removal. The
  sizes make the disks cross `LOW_WATERMARK_PCT`, `TARGET_FREE_PCT` (the values of
  `.env.example`) and `EMERGENCY_FREE_PCT` as artifacts come and go.
* `sessions`: two requests interleave every pair of statement sequences of the
  code; a third adds only more failures that overlap (`FailuresLock` names the
  number of requests, and is proved for any). Two sessions and one change are the fewest for an old
  session beside a new one. TTL 2 and refresh 1: an expiry slides at least once
  before it runs out, and an insertion or an answer can wait for a part of the TTL
  or for all of it. Two attempts and two requests: `FailuresLock` allows
  `choose(3, 2) = 3` failures, one more than a sequence of logins. The theorems
  cover any number of each.
* `names`: the second registry is configured in capitals and also occurs, in small
  letters and in capitals, as a segment of names; two stored names can collide
  with each other's canonical names and with recorded ones; two rows of
  `artifact_tags`, orphans among them, and one event are the fewest with which a
  rowid is lost, taken again and updated late; two faults stop both processes, or
  one of them twice. The theorems cover any configuration.
* `mirror_manager`: two mirrors besides the operator's own are needed for an apply
  over another's; four runs are apply, apply, rollback, apply again; two faults
  stop a run and the one that should repair it. The theorems cover any number.
* The symmetries are sound: digests, syncers and requests are only compared, and
  no run with a symmetry checks liveness.

### Fairness

* `GCFairSpec`, `WF(WorkerNext)`: the worker's loop is driven by a ticker; each of
  its steps is a finite call; the command is a finite batch over the cache's
  files (a command that hangs has no timeout in the code; see the hazards); a
  worker that died is started again by docker compose (`restart:
  unless-stopped`). Nothing is assumed of the activities of control, of the
  settings or of health. `RequestsServed` is about runs in which the pauses
  are off for good eventually; `MaxFaults` makes the faults finite.
* `ControlFairSpec`, weak fairness on `ReceiveEvent` (the registry sends again
  until it is answered), on each syncer's `SyncNext` (control syncs at startup
  and at every tick of its ticker) and on `JanitorNext` (a run that has begun goes
  on). One repository in these runs makes fairness over `SyncNext` fairness for the
  repository, as the code's loop over all of them gives. `RollbackSync` through
  a fault is bounded by `MaxFaults`. `CatalogHeals` needs strong fairness
  nowhere: what the sync waits for, the connection, is released by finite
  transactions, and in the run TLC finds no schedule that starves it.

* `CleanupFairSpec`, weak fairness on `TickerBegins` (a Go ticker), on each
  caller's `RunNext` (every call of a run has a timeout), on each cache's
  `GCNext` (as above; one cache's failures are bounded by `MaxFaults`) and on
  each artifact's `CatalogSync`. `UnusedSpaceReturns` assumes in its premise that
  outages end and the disks can be read: while a disk's size cannot be read, the
  free space counts as 0 and nothing is required, so that every run stops after
  its first item, and one that can never be deleted blocks the others. It leaves
  out the caches whose request got lost (`unasked`), and what nothing lists.
* `NamesFairSpec`, weak fairness on `StartNext` of each process: a start is a
  finite sequence of statements, and docker compose starts again what exits
  (`restart: unless-stopped`).
* `ManagerFairSpec`, weak fairness on each process's `Step` (a run goes on until it
  ends or stops) and on `Fire` (the time comes; `Persistent=true` makes up for a
  machine that was off). The premise of `RollbackHappens` says that the faults
  are spent: a rollback that is stopped has cleared its schedule already and is
  not tried again. And it says that the timer's scripts can run at that moment: an
  apply that was stopped while it made them anew has left an earlier apply's timer
  with a script that cannot (see below). An apply that is under way later may
  empty them again; it fills them before the timer's run begins, and if it clears
  the timer it sets it anew.
* `Sessions` and `ArtifactStore` have no fairness and no liveness property: a
  client may always go away.

### Findings

Where the code does what a text of the repository denies (`PROJECT.json`,
`findings`); each is a run TLC finds violated.

1. **A request can be lost** (`gc_lost`). `executeGC` removes the request file
   after its command succeeded, whatever was written meanwhile. A request the
   janitor writes during a collection disappears without a collection.
2. **The skip on a degraded upstream never happens** (`gc_degraded`).
   `beginOperation` raises `gcRunning` before `refreshFallbackStatus` looks at it,
   so the run classifies itself as maintenance.
3. **An unforced janitor run deletes during a collection** (`cc_gc_pause`). The
   state "maintenance", which says that destructive operations are paused, is
   among none of the reasons to skip.
4. **On a shared disk a cleanup goes past its target** (`cleanup_overshoot`).
   `aggregateStorage` counts a file system once per cache on it, and
   `docker-compose.yml` puts the volumes of all caches on one Docker host: the
   bytes to free come out as a multiple of what is missing.

More consequences of the code are in the models without a run of their own:

* A cache whose command keeps failing keeps the caches after it from being
  collected (`CommandFails` ends the run; `RequestsServed` bounds the faults).
* An artifact pinned after the listing is removed all the same
  (`MarksBeforeListing` is about marks made before it).
* A tag whose manifest can never be fetched keeps the other tags of its repository
  out of the index: the transaction is rolled back at every sync (`BrokenTags`;
  with one in the configuration of `cache_heals`, `CatalogHeals` is violated).
* A row can have been used before it was first seen, by as much as a notification
  waited for the connection (`AgesOrdered`).
* A cookie can outlast its session, by as much as the INSERT waited and the answer
  travelled: the browser sends it, and the console answers that nobody is logged
  in (`cookie` and `expires` in `Sessions`).
* A crash of control between the deletions of a run and its requests leaves
  garbage nobody asks to be collected, until a later run deletes something from the
  same cache (`unasked` in `Cleanup`).
* An artifact that clients pull by digest when its row is marked already is listed
  by nothing: a pull revives no row, and the catalog names tags. However long
  nobody uses it, its space does not return (`UnusedSpaceReturns` leaves it out).
* A process that starts slowly can give a row of `artifact_tags` the name of another
  artifact, when the row has taken the rowid of an orphan that the other process
  pruned; or its update is refused by the primary key and the start ends. At the
  next start the names are read afresh (`claimed` in `Names`; that both processes
  come up all the same is `AllComeUp`).
* An apply that is stopped between emptying one of the timer's scripts and making it
  executable leaves the timer of an earlier apply in force and nothing for it to
  run: nothing is rolled back (`RollbackHappens` begins when the scripts can run).
* The mirror manager's runs take no lock: the scheduled rollback that is under way
  clears the timer that an overlapping apply has just set and reported, and
  removes its scripts (with `Overlap = TRUE`, `ScheduledCanRun` is violated).
* An apply without a time leaves an earlier timer in force
  (`VerifyMirrorEnabled` ends before `ClearSchedules`), and status, which prints
  what the state file says, shows no time.
* A backup that was cut off between `cp`'s creating and writing it is kept by
  every later apply and restored by the next rollback (`Stop` after
  `BackupCurrentConfigOnce`); `OriginalKept` is about whole backups.

## 4. The proofs

`tlapm <module>` for `ArtifactStoreProofs`, `GCWorkerProofs`,
`CacheControlProofs`, `SessionsProofs`, `NamesProofs`, `Counting`,
`CleanupProofs` and `MirrorManagerProofs`. Every safety property and every
refinement that a passing run checks is a theorem here, for every value of the
constants.

**The index** (assumption `StoreAssumption`: `NULL` is no tag, limits and bounds
are naturals). `StoreInv == StoreTypeOK /\ AgesOrdered /\ TagIndexed` is
inductive as it stands: a new `last_used_at` is at most `MaxWait` before the clock,
which no `first_seen_at` is past. Most of the work is in `SyncInv`, which follows a whole
repository's upsert: the row a digest ends with has a tag that answered this
digest, and `artifact_tags` gained the pair in the same transaction. Hence
`StoreTypeCorrect`, `StoreAges`, `StoreTagsIndexed`. The two action properties
follow step by step from the types alone (`NotificationKeeps`, `SyncKeeps`,
`LocalKeeps`): a step keeps every row's marks unless it is the operator's, and
every tombstone unless it is evidence for it (`StoreMarksStick`,
`StoreTombstonesStay`).

**The GC hand-off** (assumption `GCAssumption`: at least one cache; healths
contain "ok"; broken caches are caches). None of `FlagsTellTruth`,
`PauseHonoured` and `OwedIsRequested` is inductive alone. `GCInv` adds

* `CursorOnTarget`: while a command runs the cursor is on a cache, so the flags
  that go up and down are a cache's;
* `CallersBusy`: a busy activity has a target left, and a file open only while
  it requests, which types `Head(todo)`;
* `LinkedIsRequested`: a file that is open and still linked is there. Without
  it, `WriteRequest` could owe a request that is not on disk;
* `HeldIsOn`: what `held` says has been on is on now, and a maintenance mode on
  since the run began was read as on. Without it, the decision could pass a pause
  that has held throughout.

There is one lemma per action (`PollTargetInv`, ..., `ClearRequestInv`), one step
in it per conjunct, and `GCNextInv` puts them together. Hence `GCTypeCorrect`,
`GCFlagsTellTruth`, `GCPauseHonoured`, `GCRequestsSurvive`, for any number of
caches, of concurrent activities and of faults.

**The refinement** (`GCIsHandOff`). The initial states map to `HandOffInit`; under
`GCInv` each action maps to one step of `GCHandOff` or to none, with one lemma per
kind of step (`DecideMaps`, `OperatorMaps`, `StartCommandMaps`, ...). Three of them
need the invariant: `ClearServed` removes one cache's file because the cursor is on
a cache (`CursorOnTarget`); `ClearRequest` is a `Withdraw` because its target is
one (`CallersBusy`); and `WriteRequest`, the second half of a write in two steps,
asks for nothing new because the file it rewrites was a request already
(`LinkedIsRequested`).

**One cache under control's processes** (assumption `ControlAssumption`: bounds
are naturals, a batch has room for one, no syncer is called `"free"`; and
`StoreAssumption`). The invariants build on each other.

* `Typed` is inductive alone: the connection is with exactly the sync that
  fetches, and only that one holds answers (`SyncSound`); the janitor has an item
  in hand only when the batch has room for it, and candidates only once the clock
  has passed `UnusedDays` (`JanitorSound`). Hence `ControlTypeCorrect`.
* `ControlWritesAsStore` is a refinement that no run checks. Under `Typed` every step of
  `CacheControl` is a step of `ArtifactStore` or leaves the tables alone: what a
  sync wrote down tag by tag is, at the commit, one `SyncRepo` of what it was
  answered; the janitor's mark is a `MarkDeleted` at a day on which a row can
  have been unused for so long. So the theorems about the index hold under all
  interleavings of the janitor, the syncs and the events (`ControlKeepsRows`).
* `ShieldKept`: what the operator marked before the listing is not among the
  candidates that are left. `PauseKept`: what `held` says has been on is on, and a
  maintenance mode on since the run began was read as on. `AskKept`: without a
  fault, a run that removed a manifest is about to count it, or has counted
  something and not asked yet. Hence `ControlMarksBeforeListing`,
  `ControlPauseHonoured`, `ControlRemovalAsksForGC`.
* `ControlNewsReachesIndex` needs the registry's order of events: what a tag
  resolves to is there (`TagsResolve`), and a push on its way of a manifest that is
  gone is followed by its delete event (`PushesFollowed`). `NewsKept` says of the
  rows that are active, *and of those that will be once a sync under way
  commits* (`Answered`), that someone is left to correct them.

The last clause came out of the proof. The history `lost` used to count an event
only when the row was active as it was dropped. With two faults that is too few:
a sync is answered a manifest whose row is a tombstone, the manifest is deleted
and the event that says so is dropped, and the commit brings the row back. The run has one fault and did not see it; TLC with two did. `DropEvent`
and `LostWithMark` now count what a sync has been answered as well.

**Sums and binomial coefficients** (`Counting`). `SumFunctionOnSet` adds values
in the order in which `CHOOSE` picks their indices; `SumTakes` takes out any
index, `SumRenamed` changes the names. `choose` divides factorials; `ChooseExact`
and `Pascal` are proved together by induction, since the division has to be exact
for the sum to be. The library's induction theorems have operator
parameters, which the provers cannot instantiate; `SubsetInduction` and `CountUp`
take a set in place of the operator, and follow from the well-foundedness
of the order. A `Profile` says how many of some things lie above each value, its
`ProfileRank` how many profiles are smaller; `RankRises` and `RankBounded` say that the
rank counts what it should.

**Sessions** (assumption `SessionsAssumption`: finitely many requests, positive
times). `SessionsInv` adds to the four properties: tokens and ids are drawn once
and nobody names one not yet drawn (`Drawn`, `TokensDiffer`); the row of an ended
session has `revoked_at` whatever its expiry (`EndedIsRevoked`), without which a
late touch would revive it; a time about to be written covers the cookie it is
written for (`WriteCovers`); until the answer to a login is received nobody has the
token of the session made for it (`AnswerOwn`), and its row lasts as long as the
`Expires` that the answer carries (`AnswerCovers`), which is what keeps a cookie
covered that arrives late; and what `OldSessionsEnd` says of live rows holds of
expired ones too (`OldRowsEnd`), since a touch in flight can make those live
again. Hence `SessionsTypeCorrect`, `SessionsEndedStayOut`,
`SessionsHeldRowIsOwn`, `SessionsCookieCovered`, `SessionsOldEnd`.

`SessionsFailuresLock` is an argument of its own. Failures overlap, each writes
one more than it has read, and so the counter may go down: it is no measure. Let
the level of a request be the count it would write over, but no more than
`attempts` is, and `attempts` for a request that has read none. A failure
that does not lock raises the level of its own request and leaves those below it
where they are; reading, and giving up, never lower a level; whatever clears
`attempts` clears `uncounted`. So the profile of the levels rises with every
failure counted, `uncounted` is at most its rank (`FailuresRanked`), and with n
requests there are `choose(MaxAttempts + n - 1, n)` profiles.

**Names** (assumption `NamesAssumption`: the configuration is accepted,
lower-casing twice is lower-casing once, no stored name begins with a
configured host). The lemmas `Addressed` and `Served` are about names alone: the
canonical name resolves to where it came from, and the router serves every name
at a configured host. `NamesInv` says that a row's name is the canonical one of
what it stands for, or still the old one (`Named`); that a process past a table has
left nothing in it to rewrite, and one in it holds an update for all that is left
(`ArtifactsPending`, `TagsPending`, `EventsPending`); that every update held, however
old, names what the row with its id stands for (`Fits`, in `ArtifactsNamed` and
`EventsNamed`); and that no two rows stand for the same artifact (`Distinct`), from
which `NeverRefused`. Of `artifact_tags` each of these holds for the rows nobody has
claimed (`TagsNamed`): a new row takes a rowid some process has an update for only
as a claimed one, and a claimed row is canonical from the start, so that a late
update changes it from one canonical name to another and leaves nothing to do. Hence `NamesTypeCorrect`,
`NamesPulledIsAddressed`, `NamesRightCache`, `NamesNoRefusal`.

**Cleanup** (assumption `CleanupAssumption`: finitely many caches and artifacts,
sizes are naturals, percentages lie in 0..100).
`CleanupInv` says of a run at which places it may hold candidates, an artifact or
caches to ask (`Sound`), that at most one caller is at work and the flag says
so (`OneLive`). `GarbageIsKnown` needs nothing of what the candidates are: one may
have been marked since the listing, and pulled again without being listed, and
then a DELETE whose answer is lost leaves garbage of a cache that counts as
`unasked`.
`RunGoesOn` leaves for each step of a run only what it does to the candidates and
to the garbage. Hence `CleanupOneRun`, `CleanupRunningRowsLive`,
`CleanupGarbageIsKnown`, which need nothing of the sums.

`CleanupTypeCorrect` does: that the bytes to free are a natural number takes
the sums over the disks and the rounding of the percentages.
`CleanupTargetIsEnough` assumes that no two caches share a disk
(`IsInjective(DiskOf)`): then the sum over the caches that `aggregateStorage`
takes is the sum over the disks (`SumRenamed`), what a run was told to free is at
most the bytes the disks lacked, and it stops when it has recovered as much. The
hypothesis is not a convenience: on a shared disk the property is false (finding
4), and `docker-compose.yml` deploys it so.

**MirrorManager** (assumption `ManagerAssumption`; the theorems assume `~Overlap`,
for without it they are false). `ManagerInv` says that one
process at a time is at work (`OneBusy`), so that only its run has to be looked
at (`RunMoves`); how far an apply has come says which files are there
(`ApplySound`), the scripts emptied, filled or executable, and how far a rollback has come what `daemon.json` and Docker are
(`RollbackSound`); the backup contains what it was made from, and no copy is newer
than the operator's last edit (`FilesSound`), from which an edit or a restored
backup cannot lose settings; and a report is the last word of the last run
(`Reported`). Hence `ManagerTypeCorrect`, `ManagerUndoIsPossible`,
`ManagerOriginalKept`, `ManagerScheduledCanRun`, `ManagerRolledBackIsClean`.

### Only model-checked

* The liveness properties `RequestsServed`, `CatalogHeals`, `UnusedSpaceReturns`,
  `AllComeUp` and `RollbackHappens`: liveness under fairness, and ENABLED, are out of the
  prover's reach.
* Nothing else: the theorems state every invariant, action property and
  refinement of the passing runs. The runs on which they were found out first
  stay, as they check the same formulas without any lemma, and the slips.

## 5. Not modelled, and why

* Two operators saving the maintenance form at once: planned (below).
* Of the job history, `hasJobRunToday` is a free choice of the worker, and the
  summaries are left out; of the health, the probes may find anything.
* Configuration parsing (but for the list of upstreams), console, system log,
  overview and queries, installer: no control of the system depends on them, or
  they are one sequential pass. The constraints `config.go` checks are the
  assumptions on the constants.

## 6. Plan

Done: `Fallback`, `ArtifactStore`, `GCWorker`, `CacheControl`, `Cleanup`,
`Sessions`, `Names`, `MirrorManager`, the abstract `GCHandOff`; the proofs of all
their safety properties and of two refinements (`GCWorker` implements
`GCHandOff`, `CacheControl` writes as `ArtifactStore`).

Next:

1. `Maintenance`: `updateMaintenanceState` by two operators against
   `getMaintenanceState`, each a statement at a time.
2. The index as a set of artifacts believed present, implemented by
   `ArtifactStore`.
3. What still holds of the mirror manager when two of its runs overlap
   (`Overlap = TRUE`).
