------------------------------- MODULE Cleanup -------------------------------
(***************************************************************************)
(* What the janitor does to the disks (src/app/ops.go, targets_ops.go):    *)
(* how much it reads that there is to free, over all caches together, how  *)
(* far it deletes, which caches it asks to collect, and the job_runs row   *)
(* each run leaves.  Two callers start runs: janitorLoop and the console.  *)
(*                                                                         *)
(* CacheControl follows the rows and events of one cache and counts        *)
(* artifacts; here there are several caches, their sizes and disks are     *)
(* numbers, and the index is reduced to which artifacts it lists and which *)
(* of those are unused for cfg.UnusedDays.  A deletion frees nothing: the  *)
(* gc-worker does, once it collects.                                       *)
(*                                                                         *)
(* A definition that begins with "Slip:" is not the code's: it is a mistake *)
(* the code could contain, and a property below fails when it takes the    *)
(* place of the definition that follows it.                                *)
(***************************************************************************)
EXTENDS Fallback, Integers, FiniteSets, Functions

CONSTANTS
    Targets,           \* cfg.Upstreams
    Disks,             \* file systems
    DiskOf,            \* the disk of a target's RegistryDataPath
    Total,             \* bytes of a disk
    Other,             \* bytes of a disk that no artifact occupies
    Items,             \* artifacts
    TargetOf,          \* ResolveRepoTarget of an artifact's repository
    Tagged,            \* artifacts that the catalog names, by a tag
    Size,              \* artifacts.size_bytes
    Rank,              \* the order of last use, which the listing follows
    Stuck,             \* artifacts whose DELETE the registry refuses
    LowWatermarkPct, TargetFreePct, EmergencyFreePct,
    MaxDeleteBatch,
    MaxChanges,        \* bound of the model: pulls, outages, console runs
    MaxFaults          \* bound of the model: failed calls and crashes

ASSUME CleanupAssumption ==
    /\ IsFiniteSet(Targets) /\ IsFiniteSet(Items)
    /\ DiskOf \in [Targets -> Disks]
    /\ Total \in [Disks -> Nat \ {0}] /\ Other \in [Disks -> Nat]
    /\ TargetOf \in [Items -> Targets]
    /\ Size \in [Items -> Nat] /\ Rank \in [Items -> Nat]
    /\ Tagged \subseteq Items /\ Stuck \subseteq Items
    /\ {LowWatermarkPct, TargetFreePct, EmergencyFreePct} \subseteq 0 .. 100
    /\ EmergencyFreePct < LowWatermarkPct
    /\ MaxDeleteBatch \in Nat \ {0}
    /\ MaxChanges \in Nat /\ MaxFaults \in Nat

VARIABLES
    cached,            \* external: artifacts the registries hold
    onDisk,            \* external: artifacts whose blobs occupy their disk
    readable,          \* external: targets whose file system can be read
    outage,            \* external: what the probes find
    indexed,           \* artifacts rows that are not deleted
    unused,            \* artifacts with a last use before the cutoff
    janitorRunning,    \* App.janitorRunning
    run,               \* the run of each caller
    openRows,          \* job_runs in status running, by caller
    gcRequest,         \* targets with a request flag file
    collecting,        \* what the gc-worker is about to free, by target
    changes, faults,   \* so far
    unasked            \* history: targets whose request was not made, or lost

diskVars == <<cached, onDisk>>
healthVars == <<readable, outage>>
indexVars == <<indexed, unused>>
jobVars == <<janitorRunning, run, openRows>>
gcVars == <<gcRequest, collecting>>
boundVars == <<changes, faults>>
cleanupVars == <<diskVars, healthVars, indexVars, jobVars, gcVars, boundVars,
                 unasked>>

Callers == {"ticker", "console"}

\* recovered is recoveredEstimate; results counts result.Results; touched is
\* gcTargets.  shortage is a history: what the disks really lacked to
\* TARGET_FREE_PCT when they were read.
Idle == [pc |-> "idle", dry |-> FALSE, force |-> FALSE, gone |-> FALSE,
         mustFree |-> FALSE, required |-> 0, shortage |-> 0, todo |-> {},
         item |-> {}, results |-> 0, recovered |-> 0, touched |-> {}]

Live(c) == run[c].pc # "idle"

Change == changes < MaxChanges /\ changes' = changes + 1 /\ UNCHANGED faults
Fault == faults < MaxFaults /\ faults' = faults + 1 /\ UNCHANGED changes

----------------------------------------------------------------------------
(* The disks and what the janitor reads of them. *)

FreeBytes(d) ==
    Total[d] - Other[d]
        - SumFunctionOnSet(Size, {i \in onDisk : DiskOf[TargetOf[i]] = d})

\* getDiskStats of each target that can be read, summed by aggregateStorage.
TotalRead == SumFunction([t \in readable |-> Total[DiskOf[t]]])
FreeRead == SumFunction([t \in readable |-> FreeBytes(DiskOf[t])])

\* free_pct in hundredths, rounded by roundFloat; 0 when nothing can be read.
FreePct ==
    IF TotalRead = 0 THEN 0
    ELSE (20000 * FreeRead + TotalRead) \div (2 * TotalRead)

BelowPct(pct) == FreePct < 100 * pct

AtLeastZero(n) == IF n < 0 THEN 0 ELSE n

\* bytesToTarget
BytesToTarget == AtLeastZero((TotalRead * TargetFreePct) \div 100 - FreeRead)

\* The same of the disks themselves, each taken once.
Shortage ==
    LET disks == {DiskOf[t] : t \in readable}
    IN  (SumFunctionOnSet(Total, disks) * TargetFreePct) \div 100
            - SumFunction([d \in disks |-> FreeBytes(d)])

----------------------------------------------------------------------------
(* A run: runJanitor. *)

\* Slip: the deferred endOperation is set up before beginOperation is asked.
BeginDeferFirst(c, dry, force) ==
    /\ run[c].pc = "idle"
    /\ IF janitorRunning
       THEN janitorRunning' = FALSE /\ UNCHANGED <<run, openRows>>
       ELSE /\ janitorRunning' = TRUE
            /\ openRows' = [openRows EXCEPT ![c] = @ + 1]
            /\ run' = [run EXCEPT ![c] = [Idle EXCEPT !.pc = "health", !.dry = dry,
                                                      !.force = force]]
    /\ UNCHANGED <<diskVars, healthVars, indexVars, gcVars, unasked>>

\* beginOperation, createJobRun.  A caller that finds a run under way returns,
\* and so does one whose createJobRun fails: nothing is left of either.
Begin(c, dry, force) ==
    /\ run[c].pc = "idle" /\ ~janitorRunning
    /\ janitorRunning' = TRUE
    /\ openRows' = [openRows EXCEPT ![c] = @ + 1]
    /\ run' = [run EXCEPT ![c] = [Idle EXCEPT !.pc = "health", !.dry = dry,
                                              !.force = force]]
    /\ UNCHANGED <<diskVars, healthVars, indexVars, gcVars, unasked>>

TickerBegins == Begin("ticker", FALSE, FALSE) /\ UNCHANGED boundVars

ConsoleBegins == Change /\ \E dry, force \in BOOLEAN : Begin("console", dry, force)

\* The client of the console's request is gone: its context is cancelled, and
\* with it every query and call of the run but the last ones.
Disconnect ==
    /\ Change /\ Live("console") /\ ~run["console"].gone
    /\ run' = [run EXCEPT !["console"].gone = TRUE]
    /\ UNCHANGED <<diskVars, healthVars, indexVars, janitorRunning, openRows,
                   gcVars, unasked>>

\* The reasons to skip a run that the settings do not give (see CacheControl).
Skips(c) ==
    LET level == IF BelowPct(EmergencyFreePct) THEN "emergency" ELSE "ok"
        state == FallbackState(FALSE, DOMAIN collecting # {},
                               outage # "mirror" /\ ~run[c].gone,
                               outage # "upstream", level)
    IN  /\ ~run[c].force
        /\ \/ state = "mirror-degraded"
           \/ state = "upstream-degraded" /\ ~BelowPct(EmergencyFreePct)

\* All that is left to do is finishJobRun.
Over(r) == [Idle EXCEPT !.pc = "finish", !.gone = r.gone]

\* refreshFallbackStatus and the decisions taken from it.
ReadStorage(c) ==
    LET mustFree == BelowPct(LowWatermarkPct)
    IN  /\ run[c].pc = "health"
        /\ run' = [run EXCEPT
              ![c] = IF Skips(c) THEN Over(@)
                     ELSE [@ EXCEPT !.pc = "list", !.force = FALSE,
                                    !.mustFree = mustFree,
                                    !.required = IF mustFree THEN BytesToTarget ELSE 0,
                                    !.shortage = Shortage]]
        /\ UNCHANGED <<diskVars, healthVars, indexVars, janitorRunning, openRows,
                       gcVars, boundVars, unasked>>

\* listCandidates; a failed listing fails the run.
List(c) ==
    /\ run[c].pc = "list"
    /\ \/ /\ ~run[c].gone
          /\ run' = [run EXCEPT ![c].pc = "loop", ![c].todo = indexed \cap unused]
          /\ UNCHANGED boundVars
       \/ /\ run' = [run EXCEPT ![c] = Over(@)]
          /\ IF run[c].gone THEN UNCHANGED boundVars ELSE Fault
    /\ UNCHANGED <<diskVars, healthVars, indexVars, janitorRunning, openRows,
                   gcVars, unasked>>

\* The next candidate, least recently used first.
Next1st(c) == {i \in run[c].todo : \A j \in run[c].todo : Rank[i] <= Rank[j]}

\* Slip: the limit is passed by one.
WorkingPastLimit(c) ==
    /\ run[c].pc = "loop" /\ run[c].todo # {}
    /\ run[c].results <= MaxDeleteBatch

Working(c) ==
    /\ run[c].pc = "loop" /\ run[c].todo # {}
    /\ run[c].results < MaxDeleteBatch

\* Slip: the limit is tested before the item's bytes are counted.
AfterItemOneLate(r, more) ==
    [r EXCEPT !.pc = IF r.mustFree /\ r.recovered >= r.required THEN "gc" ELSE "loop",
              !.results = @ + 1, !.recovered = @ + more, !.item = {}]

\* Slip: the loop stops at an item that failed.
AfterItemOrError(r, more) ==
    [r EXCEPT !.pc = IF more = 0 \/ (r.mustFree /\ r.recovered + more >= r.required)
                     THEN "gc" ELSE "loop",
              !.results = @ + 1, !.recovered = @ + more, !.item = {}]

\* The run r after an item that recovered so much: the loop stops once enough
\* is recovered, but only under pressure.
AfterItem(r, more) ==
    [r EXCEPT !.pc = IF r.mustFree /\ r.recovered + more >= r.required
                     THEN "gc" ELSE "loop",
              !.results = @ + 1, !.recovered = @ + more, !.item = {}]

Without(r, i) == [r EXCEPT !.todo = @ \ {i}]

\* A dry run counts what it would delete.
PlanItem(c, i) ==
    /\ Working(c) /\ run[c].dry /\ i \in Next1st(c)
    /\ run' = [run EXCEPT ![c] = AfterItem(Without(@, i), Size[i])]
    /\ UNCHANGED <<diskVars, healthVars, indexVars, janitorRunning, openRows,
                   gcVars, boundVars, unasked>>

\* deleteManifest is answered 202, or 404 when the manifest is gone already.
DeleteManifest(c, i) ==
    /\ Working(c) /\ ~run[c].dry /\ i \in Next1st(c)
    /\ i \notin Stuck /\ ~run[c].gone
    /\ cached' = cached \ {i}
    /\ run' = [run EXCEPT ![c] = [Without(@, i) EXCEPT !.pc = "mark", !.item = {i}]]
    /\ UNCHANGED <<onDisk, healthVars, indexVars, janitorRunning, openRows,
                   gcVars, boundVars, unasked>>

\* The call is refused or cancelled, or it fails and perhaps only its answer
\* is lost: if the row was marked meanwhile, no one will ask for a collection.
DeleteManifestFails(c, i) ==
    /\ Working(c) /\ ~run[c].dry /\ i \in Next1st(c)
    /\ \/ /\ i \in Stuck \/ run[c].gone
          /\ UNCHANGED <<cached, boundVars>>
       \/ /\ i \notin Stuck /\ ~run[c].gone /\ Fault
          /\ cached' \in {cached, cached \ {i}}
    /\ run' = [run EXCEPT ![c] = AfterItem(Without(@, i), 0)]
    /\ unasked' = unasked \cup {TargetOf[j] : j \in (cached \ cached') \ indexed}
    /\ UNCHANGED <<onDisk, healthVars, indexVars, janitorRunning, openRows,
                   gcVars>>

\* gcTargets gains a cache.
Touching(r, t) == [r EXCEPT !.touched = @ \cup {t}]

\* markDeleted: the row is found by its key, whatever it says by now.
MarkItem(c, i) ==
    /\ run[c].pc = "mark" /\ i \in run[c].item /\ ~run[c].gone
    /\ indexed' = indexed \ {i}
    /\ run' = [run EXCEPT ![c] = AfterItem(Touching(@, TargetOf[i]), Size[i])]
    /\ UNCHANGED <<diskVars, healthVars, unused, janitorRunning, openRows, gcVars,
                   boundVars, unasked>>

\* The delete event came before the mark that is not made.
DoneByEvent(c) == {TargetOf[i] : i \in run[c].item \ indexed}

\* The row stays, and its target is not among those asked to collect.
MarkItemFails(c) ==
    /\ run[c].pc = "mark"
    /\ IF run[c].gone THEN UNCHANGED boundVars ELSE Fault
    /\ run' = [run EXCEPT ![c] = AfterItem(@, 0)]
    /\ unasked' = unasked \cup DoneByEvent(c)
    /\ UNCHANGED <<diskVars, healthVars, indexVars, janitorRunning, openRows,
                   gcVars>>

EndLoop(c) ==
    /\ run[c].pc = "loop" /\ ~Working(c)
    /\ run' = [run EXCEPT ![c].pc = "gc"]
    /\ UNCHANGED <<diskVars, healthVars, indexVars, janitorRunning, openRows,
                   gcVars, boundVars, unasked>>

\* Slip: only one cache is asked.
RequestGCForOne(c) ==
    /\ run[c].pc = "gc"
    /\ \E asked \in SUBSET run[c].touched :
          /\ run[c].touched # {} => Cardinality(asked) = 1
          /\ gcRequest' = gcRequest \cup asked
    /\ run' = [run EXCEPT ![c] = Over(@)]
    /\ UNCHANGED <<diskVars, healthVars, indexVars, janitorRunning, openRows,
                   collecting, boundVars, unasked>>

\* requestGCForTarget for each cache something was deleted from.  A flag file
\* that cannot be written is passed over.
RequestGC(c) ==
    /\ run[c].pc = "gc"
    /\ \E failed \in SUBSET run[c].touched :
          /\ IF failed = {} THEN UNCHANGED boundVars ELSE Fault
          /\ gcRequest' = gcRequest \cup (run[c].touched \ failed)
          /\ unasked' = unasked \cup failed
    /\ run' = [run EXCEPT ![c] = Over(@)]
    /\ UNCHANGED <<diskVars, healthVars, indexVars, janitorRunning, openRows,
                   collecting>>

\* Slip: the row is finished under the context of the request.
FinishInContext(c) ==
    /\ run[c].pc = "finish"
    /\ openRows' = [openRows EXCEPT ![c] = IF run[c].gone THEN @ ELSE @ - 1]
    /\ janitorRunning' = FALSE
    /\ run' = [run EXCEPT ![c] = Idle]
    /\ UNCHANGED <<diskVars, healthVars, indexVars, gcVars, boundVars, unasked>>

\* finishJobRun, which does not use the request's context, and endOperation.
Finish(c) ==
    /\ run[c].pc = "finish"
    /\ \/ openRows' = [openRows EXCEPT ![c] = @ - 1] /\ UNCHANGED boundVars
       \/ UNCHANGED openRows /\ Fault
    /\ janitorRunning' = FALSE
    /\ run' = [run EXCEPT ![c] = Idle]
    /\ UNCHANGED <<diskVars, healthVars, indexVars, gcVars, unasked>>

\* The process dies and is started again; job_runs and flag files stay.
Crash ==
    /\ Fault
    /\ janitorRunning' = FALSE
    /\ run' = [c \in Callers |-> Idle]
    /\ unasked' = unasked \cup UNION {run[c].touched \cup DoneByEvent(c) : c \in Callers}
    /\ UNCHANGED <<diskVars, healthVars, indexVars, openRows, gcVars>>

----------------------------------------------------------------------------
(* The registries and their clients, the gc-worker, the disks (external).  *)

\* recordEvent of a pull: only a row that is not marked as deleted is touched,
\* none is made and none is revived.
RecordPull(i) ==
    /\ unused' = unused \ (indexed \cap {i})
    /\ UNCHANGED indexed

\* A client pulls an artifact; the notification of it is recorded or gets lost.
Pull(i) ==
    /\ Change
    /\ i \in onDisk \/ Size[i] <= FreeBytes(DiskOf[TargetOf[i]])
    /\ cached' = cached \cup {i} /\ onDisk' = onDisk \cup {i}
    /\ RecordPull(i) \/ UNCHANGED indexVars
    /\ UNCHANGED <<healthVars, jobVars, gcVars, unasked>>

\* recordEvent of a push or a mount, which may be of long ago, lists the
\* artifact.
RecordPush(i) ==
    /\ Change
    /\ indexed' = indexed \cup {i} /\ unused' = unused \ {i}
    /\ UNCHANGED <<diskVars, healthVars, jobVars, gcVars, unasked>>

\* UnusedDays have passed since the last use.
FallsUnused(i) ==
    /\ i \notin unused
    /\ unused' = unused \cup {i}
    /\ UNCHANGED <<diskVars, healthVars, indexed, jobVars, gcVars, boundVars, unasked>>

\* The health of the caches, upstreams and file systems changes.
Weather ==
    /\ Change
    /\ outage' \in {"none", "mirror", "upstream"}
    /\ readable' \in {Targets} \cup {Targets \ {t} : t \in Targets}
    /\ UNCHANGED <<diskVars, indexVars, jobVars, gcVars, unasked>>

\* The registry's delete event arrives.  When it is not the run at work on the
\* artifact that would have marked the row anyway, no one will ask for a
\* collection any more.
DeleteEvent(i) ==
    /\ i \in indexed \ cached
    /\ indexed' = indexed \ {i}
    /\ unasked' = IF \E c \in Callers : i \in run[c].item THEN unasked
                  ELSE unasked \cup {TargetOf[i]}
    /\ UNCHANGED <<diskVars, healthVars, unused, jobVars, gcVars, boundVars>>

\* The catalog sync finds a tag of an artifact that is not listed any more,
\* such as one pulled between its removal and its mark.
CatalogSync(i) ==
    /\ i \in (Tagged \cap cached) \ indexed
    /\ indexed' = indexed \cup {i}
    /\ UNCHANGED <<diskVars, healthVars, unused, jobVars, gcVars, boundVars, unasked>>

Garbage(t) == {i \in onDisk \ cached : TargetOf[i] = t}

\* registry garbage-collect takes what nothing refers to when it starts.
CollectBegins(t) ==
    /\ t \in gcRequest /\ collecting = <<>>
    /\ collecting' = [x \in {t} |-> Garbage(t)]
    /\ unasked' = unasked \ {t}
    /\ UNCHANGED <<diskVars, healthVars, indexVars, jobVars, gcRequest, boundVars>>

\* The request is removed, a newer one with it (see GCWorker).
CollectEnds(t) ==
    /\ t \in DOMAIN collecting
    /\ onDisk' = onDisk \ (collecting[t] \ cached)
    /\ collecting' = <<>>
    /\ gcRequest' = gcRequest \ {t}
    /\ unasked' = IF Garbage(t) \subseteq collecting[t] THEN unasked
                  ELSE unasked \cup {t}
    /\ UNCHANGED <<cached, healthVars, indexVars, jobVars, boundVars>>

\* The command fails: the request stays.
CollectFails(t) ==
    /\ t \in DOMAIN collecting /\ Fault
    /\ collecting' = <<>>
    /\ UNCHANGED <<diskVars, healthVars, indexVars, jobVars, gcRequest, unasked>>

----------------------------------------------------------------------------
CleanupInit ==
    /\ cached = Items /\ onDisk = Items
    /\ readable = Targets /\ outage = "none"
    /\ indexed \in SUBSET Items /\ Tagged \subseteq indexed /\ unused = {}
    /\ janitorRunning = FALSE
    /\ run = [c \in Callers |-> Idle]
    /\ openRows = [c \in Callers |-> 0]
    /\ gcRequest = {} /\ collecting = <<>>
    /\ changes = 0 /\ faults = 0
    /\ unasked = {}

RunNext(c) ==
    \/ ReadStorage(c) \/ List(c)
    \/ \E i \in Items :
          \/ PlanItem(c, i) \/ DeleteManifest(c, i) \/ DeleteManifestFails(c, i)
          \/ MarkItem(c, i)
    \/ MarkItemFails(c) \/ EndLoop(c) \/ RequestGC(c) \/ Finish(c)

GCNext(t) == CollectBegins(t) \/ CollectEnds(t) \/ CollectFails(t)

CleanupNext ==
    \/ TickerBegins \/ ConsoleBegins \/ Disconnect \/ Crash
    \/ \E c \in Callers : RunNext(c)
    \/ \E i \in Items : \/ Pull(i) \/ RecordPush(i) \/ FallsUnused(i)
                       \/ DeleteEvent(i) \/ CatalogSync(i)
    \/ Weather
    \/ \E t \in Targets : GCNext(t)

CleanupSpec == CleanupInit /\ [][CleanupNext]_cleanupVars

\* The ticker ticks on, a run goes on once begun (its calls have timeouts),
\* the gc-worker polls and collects, and the catalog is synced on its interval.
CleanupFairSpec ==
    /\ CleanupSpec
    /\ WF_cleanupVars(TickerBegins)
    /\ \A c \in Callers : WF_cleanupVars(RunNext(c))
    /\ \A t \in Targets : WF_cleanupVars(GCNext(t))
    /\ \A i \in Items : WF_cleanupVars(CatalogSync(i))

----------------------------------------------------------------------------
(* Properties. *)

CleanupTypeOK ==
    /\ onDisk \subseteq Items /\ cached \subseteq onDisk
    /\ readable \subseteq Targets /\ outage \in {"none", "mirror", "upstream"}
    /\ indexed \subseteq Items /\ unused \subseteq Items
    /\ janitorRunning \in BOOLEAN
    /\ \A c \in Callers :
          /\ run[c].pc \in {"idle", "health", "list", "loop", "mark", "gc", "finish"}
          /\ {run[c].dry, run[c].force, run[c].gone, run[c].mustFree} \subseteq BOOLEAN
          /\ run[c].required \in Nat /\ run[c].recovered \in Nat
          /\ run[c].todo \subseteq Items /\ run[c].item \subseteq Items
          /\ run[c].results \in 0 .. MaxDeleteBatch
          /\ run[c].touched \subseteq Targets
          /\ openRows[c] \in Nat
    /\ gcRequest \subseteq Targets
    /\ DOMAIN collecting \subseteq Targets /\ Cardinality(DOMAIN collecting) <= 1
    /\ changes \in 0 .. MaxChanges /\ faults \in 0 .. MaxFaults
    /\ unasked \subseteq Targets

\* The ticker and the console never run the janitor at once, and the flag that
\* keeps them apart is up just while one of them does: a crash, a failing step
\* or a refused caller leaves no flag up with no run, nor a run with no flag.
OneRun ==
    /\ Cardinality({c \in Callers : Live(c)}) <= 1
    /\ janitorRunning <=> \E c \in Callers : Live(c)

\* A job_runs row says running while its run is under way; of a run that is
\* over it says so only after a crash or a finishJobRun that failed.
RunningRowsLive ==
    \A c \in Callers :
        openRows[c] <= (IF Live(c) THEN 1 ELSE 0) + faults

\* Under pressure a run stops at the item with which TARGET_FREE_PCT is
\* reached (README.md:513): when it removes another one, what it has removed
\* so far was less than the disks lacked when they were read.
TargetIsEnough ==
    \A c \in Callers :
        run[c].pc = "mark" /\ run[c].mustFree /\ run[c].results > 0
            => run[c].recovered < run[c].shortage

\* Blobs that nothing refers to wait for a collection that was asked of their
\* own cache, or their row is still listed so that another run will do the
\* artifact again, or the run that removed it is still to ask; unless the
\* request was lost, which takes a fault, a collection under way or the delete
\* event of an artifact whose removal or mark had failed.
GarbageIsKnown ==
    \A i \in onDisk \ cached :
        \/ TargetOf[i] \in gcRequest \cup unasked
        \/ i \in indexed
        \/ \E c \in Callers : TargetOf[i] \in run[c].touched \/ i \in run[c].item

\* An artifact nobody uses any more leaves its disk in the end, although other
\* artifacts' removal fails every time, calls fail and processes die: once the
\* caches are healthy and their disks can be read, runs get to it, if fewer
\* artifacts are stuck than a run may try, and what was half done is done
\* again.  Left out are the caches whose request for a collection got lost,
\* and what nothing lists: an artifact without a tag whose row is marked, or
\* was never made, and that clients pull by its digest.
UnusedSpaceReturns ==
    <>[](outage = "none" /\ readable = Targets) =>
        \A i \in Items \ Stuck :
            <>[](i \in unused) =>
                <>[](\/ i \notin onDisk
                     \/ TargetOf[i] \in unasked
                     \/ i \in cached \ (indexed \cup Tagged))
=============================================================================
