---------------------------- MODULE CacheControl ----------------------------
(***************************************************************************)
(* The control process at work on one registry cache: the janitor          *)
(* (src/app/ops.go), the catalog sync (catalog.go) and the notifications   *)
(* (handlers.go), all of them writing the index of ArtifactStore through   *)
(* one SQLite connection, while clients pull through the cache, an operator *)
(* pins, protects and pauses, and the gc-worker collects.                  *)
(*                                                                         *)
(* The registry itself is external.  It holds manifests, resolves tags to  *)
(* them and reports what happens to it in a queue of events, which it       *)
(* delivers in order and again until it is answered.                       *)
(*                                                                         *)
(* A definition that begins with "Slip:" is not the code's: it is a mistake *)
(* the code could contain, and a property below fails when it takes the    *)
(* place of the definition that follows it.                                *)
(***************************************************************************)
EXTENDS ArtifactStore, Fallback, FiniteSets, Sequences

CONSTANTS
    NoDigest,         \* a tag the registry does not resolve
    BrokenTags,       \* listed tags whose manifest can never be fetched
    Syncers,          \* catalogSyncLoop and the handlers that sync on demand
    DryRunConfig,     \* cfg.DryRun
    MaxDeleteBatch,   \* cfg.MaxDeleteBatch
    MaxRequired,      \* bound of the model: most artifacts a run must free
    MaxEvents,        \* bound of the model: events on their way
    MaxChanges,       \* bound of the model: pulls, marks, settings, GC runs
    MaxFaults         \* bound of the model: failed calls and crashes

ASSUME ControlAssumption ==
    /\ NoDigest \notin Digests
    /\ BrokenTags \subseteq Tags
    /\ "free" \notin Syncers
    /\ DryRunConfig \in BOOLEAN
    /\ MaxDeleteBatch \in Nat \ {0}
    /\ MaxRequired \in Nat /\ MaxEvents \in Nat
    /\ MaxChanges \in Nat /\ MaxFaults \in Nat

VARIABLES
    manifests,        \* external: the manifests the cache holds
    tagOf,            \* external: the digest each tag resolves to
    events,           \* external: notifications not yet answered
    stamp,            \* the day recordEvent read, while it waits for conn
    conn,             \* who holds the database connection inside a transaction
    sync,             \* the state of each catalog sync
    janitor,          \* the state of runJanitor
    maintenanceMode,  \* settings
    janitorPaused,
    gcRequest,        \* the request flag file
    gcActive,         \* the active flag file: the gc-worker is collecting
    changes,          \* changes made so far
    faults,           \* faults so far
    lost,             \* history: removals no one is left to tell the index of
    shielded,         \* history: rows marked by the operator since the listing
    uncollected,      \* history: a manifest was removed, no GC asked for since
    held              \* history: what has been on ever since this run began

registryVars == <<manifests, tagOf, events>>
settingVars == <<maintenanceMode, janitorPaused>>
gcFlagVars == <<gcRequest, gcActive>>
boundVars == <<changes, faults>>
historyVars == <<lost, shielded, uncollected, held>>
controlVars == <<storeVars, registryVars, stamp, conn, sync, janitor, settingVars,
                 gcFlagVars, boundVars, historyVars>>

Event == [action: Actions, key: Key, tag: Tags \cup {NoTag}]

\* recordEvent is not running.
NoStamp == -1

SyncIdle == [pc |-> "idle", repo |-> "", todo |-> {}, found |-> <<>>, now |-> 0]

\* now is the time of listCandidates' cutoffs; cands maps the candidates still
\* to do to the lastUsed they were listed with; recovered and required count
\* artifacts instead of bytes.
JanitorIdle ==
    [pc |-> "idle", dry |-> FALSE, force |-> FALSE, fallback |-> "normal",
     modeRead |-> FALSE, mustFree |-> FALSE, emergency |-> FALSE,
     required |-> 0, now |-> 0, cands |-> <<>>, item |-> <<>>, results |-> 0,
     deleted |-> 0, recovered |-> 0]

Janitor == [pc: {"idle", "health", "mode", "paused", "list", "loop", "delete",
                 "mark", "gc"},
            dry: BOOLEAN, force: BOOLEAN, fallback: States, modeRead: BOOLEAN,
            mustFree: BOOLEAN, emergency: BOOLEAN, required: 0 .. MaxRequired,
            now: 0 .. MaxClock,
            cands: UNION {[K -> 0 .. MaxClock] : K \in SUBSET Key},
            item: Key \cup {<<>>}, results: 0 .. MaxDeleteBatch,
            deleted: 0 .. MaxDeleteBatch, recovered: 0 .. MaxDeleteBatch]

Change == changes < MaxChanges /\ changes' = changes + 1 /\ UNCHANGED faults
Fault == faults < MaxFaults /\ faults' = faults + 1 /\ UNCHANGED changes

\* A statement outside a transaction has to wait for the connection.
ConnFree == conn = "free"

----------------------------------------------------------------------------
(* The registry and its clients (external). *)

Emit(event) ==
    /\ Len(events) < MaxEvents
    /\ events' = Append(events, event)

\* A client pulls a tag through the cache, which stores the manifest and
\* reports a push or a pull; a pull-through proxy does not report every time.
ClientPull(r, t, d) ==
    /\ Change
    /\ manifests' = manifests \cup {<<r, d>>}
    /\ tagOf' = [tagOf EXCEPT ![<<r, t>>] = d]
    /\ \/ \E action \in {"push", "pull"} :
            Emit([action |-> action, key |-> <<r, d>>, tag |-> t])
       \/ UNCHANGED events
    /\ UNCHANGED <<storeVars, stamp, conn, sync, janitor, settingVars,
                   gcFlagVars, historyVars>>

InFlight(k) == \E i \in DOMAIN events : events[i].action = "delete" /\ events[i].key = k

\* A catalog sync under way was answered k and will write its row.
Answered(k) ==
    \E s \in Syncers : /\ sync[s].repo = k[1]
                       /\ \E t \in DOMAIN sync[s].found : sync[s].found[t] = k[2]

\* runJanitor has removed k and is about to mark it.
Marking(k) == janitor.pc = "mark" /\ janitor.item = k

\* What a DELETE of the manifest does: the tags go with it, an event follows.
RegistryDelete(k) ==
    /\ manifests' = manifests \ {k}
    /\ tagOf' = [x \in DOMAIN tagOf |->
                    IF x[1] = k[1] /\ tagOf[x] = k[2] THEN NoDigest ELSE tagOf[x]]
    /\ Emit([action |-> "delete", key |-> k, tag |-> NoTag])
    /\ lost' = lost \ {k}
    /\ uncollected' = TRUE

----------------------------------------------------------------------------
(* Notifications. *)

\* recordEvent reads the clock, and then finds the connection taken.
StampEvent ==
    /\ stamp = NoStamp /\ events # <<>> /\ ~ConnFree
    /\ stamp' = clock
    /\ UNCHANGED <<storeVars, registryVars, conn, sync, janitor, settingVars,
                   gcFlagVars, boundVars, historyVars>>

\* recordEvent stores the event once it has the connection, under the time it
\* read before; if it has it at once there was no wait.  The registry gets its
\* answer, or the answer is lost and the registry will send the event again.
ReceiveEvent ==
    /\ events # <<>> /\ ConnFree
    /\ RecordEvent(Head(events).action, Head(events).key, Head(events).tag,
                   IF stamp = NoStamp THEN clock ELSE stamp)
    /\ stamp' = NoStamp
    /\ \/ events' = Tail(events) /\ UNCHANGED boundVars
       \/ UNCHANGED events /\ Fault
    /\ UNCHANGED <<manifests, tagOf, conn, sync, janitor, settingVars,
                   gcFlagVars, historyVars>>

\* recordEvent fails; the handler counts it and still answers 200.
DropEvent ==
    /\ events # <<>> /\ Fault
    /\ stamp' = NoStamp
    /\ events' = Tail(events)
    /\ LET k == Head(events).key
       IN  lost' = IF /\ Head(events).action = "delete"
                      /\ Active(k) \/ Answered(k)
                      /\ ~Marking(k)
                   THEN lost \cup {k} ELSE lost
    /\ UNCHANGED <<storeVars, manifests, tagOf, conn, sync, janitor,
                   settingVars, gcFlagVars, shielded, uncollected, held>>

----------------------------------------------------------------------------
(* Catalog sync: syncTargetCatalog for one repository.                     *)

\* A broken tag is listed like the others.
ListedTags(r) == {t \in Tags : tagOf[<<r, t>>] # NoDigest} \cup BrokenTags

ListTags(s, r) ==
    /\ sync[s].pc = "idle"
    /\ ListedTags(r) # {}
    /\ sync' = [sync EXCEPT ![s] = [pc |-> "begin", repo |-> r,
                                    todo |-> ListedTags(r), found |-> <<>>,
                                    now |-> 0]]
    /\ UNCHANGED <<storeVars, registryVars, stamp, conn, janitor, settingVars,
                   gcFlagVars, boundVars, historyVars>>

\* Slip: the transaction is begun only after the manifests are fetched.
BeginSyncWithoutTx(s) ==
    /\ sync[s].pc = "begin" /\ ConnFree
    /\ sync' = [sync EXCEPT ![s].pc = "fetch", ![s].now = clock]
    /\ UNCHANGED <<storeVars, registryVars, stamp, conn, janitor, settingVars, gcFlagVars,
                   boundVars, historyVars>>

\* BeginTx takes the connection, before the first manifest is fetched; the
\* time of all the rows of the sync is read next.
BeginSyncTx(s) ==
    /\ sync[s].pc = "begin" /\ ConnFree
    /\ conn' = s
    /\ sync' = [sync EXCEPT ![s].pc = "fetch", ![s].now = clock]
    /\ UNCHANGED <<storeVars, registryVars, stamp, janitor, settingVars, gcFlagVars,
                   boundVars, historyVars>>

\* Slip: an answer without a digest is taken for one.
FetchTagUnanswered(s, t) ==
    /\ sync[s].pc = "fetch" /\ t \in sync[s].todo
    /\ t \notin BrokenTags
    /\ sync' = [sync EXCEPT
          ![s].todo = @ \ {t},
          ![s].found = [x \in DOMAIN @ \cup {t} |->
                           IF x = t THEN tagOf[<<sync[s].repo, t>>] ELSE @[x]]]
    /\ UNCHANGED <<storeVars, registryVars, stamp, conn, janitor, settingVars,
                   gcFlagVars, boundVars, historyVars>>

\* fetchManifestMetadata answers the tag's digest.
FetchTag(s, t) ==
    LET d == tagOf[<<sync[s].repo, t>>]
    IN  /\ sync[s].pc = "fetch" /\ t \in sync[s].todo
        /\ d # NoDigest /\ t \notin BrokenTags
        /\ sync' = [sync EXCEPT
              ![s].todo = @ \ {t},
              ![s].found = [x \in DOMAIN @ \cup {t} |-> IF x = t THEN d ELSE @[x]]]
        /\ UNCHANGED <<storeVars, registryVars, stamp, conn, janitor,
                       settingVars, gcFlagVars, boundVars, historyVars>>

CommitSync(s) ==
    /\ sync[s].pc = "fetch" /\ sync[s].todo = {}
    /\ SyncRepo(sync[s].repo, sync[s].found, sync[s].now)
    /\ conn' = "free"
    /\ sync' = [sync EXCEPT ![s] = SyncIdle]
    /\ UNCHANGED <<registryVars, stamp, janitor, settingVars, gcFlagVars,
                   boundVars, historyVars>>

\* One tag that cannot be fetched rolls the whole repository back.
RollbackSync(s) ==
    /\ sync[s].pc = "fetch"
    /\ \/ \E t \in sync[s].todo :
            /\ tagOf[<<sync[s].repo, t>>] = NoDigest \/ t \in BrokenTags
            /\ UNCHANGED boundVars
       \/ sync[s].todo # {} /\ Fault
    /\ conn' = "free"
    /\ sync' = [sync EXCEPT ![s] = SyncIdle]
    /\ UNCHANGED <<storeVars, registryVars, stamp, janitor, settingVars,
                   gcFlagVars, historyVars>>

----------------------------------------------------------------------------
(* The janitor: runJanitor. *)

envVars == <<manifests, tagOf, events, stamp, conn, sync, settingVars, gcFlagVars>>

\* What is on at this moment of what could keep a run from deleting.
Pausing ==
    {p \in {"mode", "paused", "gc"} :
        \/ p = "mode" /\ maintenanceMode
        \/ p = "paused" /\ janitorPaused
        \/ p = "gc" /\ gcActive}

Marked(k) == artifacts[k].pinned \/ artifacts[k].explicitProtected

\* beginOperation and createJobRun.  The ticker starts an unforced run, the
\* console any run.
BeginJanitor(dry, force) ==
    /\ janitor.pc = "idle" /\ ConnFree
    /\ janitor' = [JanitorIdle EXCEPT !.pc = "health", !.force = force,
                                      !.dry = DryRunConfig \/ dry]
    /\ held' = Pausing
    /\ UNCHANGED <<storeVars, envVars, boundVars, lost, shielded, uncollected>>

\* refreshFallbackStatus: the probes, the volumes' free space, the mode and
\* the active flag, which operationSnapshot reports as gc_running.
ReadHealth ==
    /\ janitor.pc = "health" /\ ConnFree
    /\ \E mirrorsUp, upstreamsUp \in BOOLEAN,
          storage \in {"ok", "pressure", "emergency"}, required \in 0 .. MaxRequired :
          /\ storage = "ok" => required = 0
          /\ janitor' = [janitor EXCEPT
                !.pc = "mode",
                !.fallback = FallbackState(maintenanceMode, gcActive,
                                           mirrorsUp, upstreamsUp, storage),
                !.mustFree = storage # "ok",
                !.emergency = storage = "emergency",
                !.required = required]
    /\ UNCHANGED <<storeVars, envVars, boundVars, historyVars>>

\* getMaintenanceState reads one setting after the other.
ReadMode ==
    /\ janitor.pc = "mode" /\ ConnFree
    /\ janitor' = [janitor EXCEPT !.pc = "paused", !.modeRead = maintenanceMode]
    /\ UNCHANGED <<storeVars, envVars, boundVars, historyVars>>

\* The run ends: finishJobRun, endOperation.
EndJanitor ==
    /\ janitor' = JanitorIdle
    /\ held' = {} /\ shielded' = {}

\* Slip: maintenance mode alone is checked, not janitor_paused.
SkipsUnlessPaused ==
    /\ ~janitor.force
    /\ \/ janitor.modeRead
       \/ janitor.fallback = "mirror-degraded"
       \/ janitor.fallback = "upstream-degraded" /\ ~janitor.emergency

\* The reasons to skip, with janitor_paused read now.
Skips ==
    /\ ~janitor.force
    /\ \/ janitor.modeRead \/ janitorPaused
       \/ janitor.fallback = "mirror-degraded"
       \/ janitor.fallback = "upstream-degraded" /\ ~janitor.emergency

\* What was read for the decision is not read again, and is forgotten.  The
\* run goes on to listCandidates, which reads the clock before it waits.
ReadPausedAndDecide ==
    /\ janitor.pc = "paused" /\ ConnFree
    /\ IF Skips
       THEN EndJanitor
       ELSE /\ janitor' = [janitor EXCEPT !.pc = "list", !.fallback = "normal",
                                          !.modeRead = FALSE, !.now = clock]
            /\ UNCHANGED <<held, shielded>>
    /\ UNCHANGED <<storeVars, envVars, boundVars, lost, uncollected>>

List ==
    /\ janitor.pc = "list" /\ ConnFree
    /\ janitor' = [janitor EXCEPT
          !.pc = "loop", !.emergency = FALSE, !.now = 0,
          !.cands = [k \in ListCandidates(janitor.emergency, janitor.now) |->
                        artifacts[k].lastUsed]]
    /\ shielded' = {k \in DOMAIN artifacts : Marked(k)}
    /\ UNCHANGED <<storeVars, envVars, boundVars, lost, uncollected, held>>

\* Where the loop goes on after an item: it stops once enough is recovered.
AfterItem(recovered) ==
    IF janitor.mustFree /\ recovered >= janitor.required THEN "gc" ELSE "loop"

\* The next candidate, least recently used first.
NextItem ==
    /\ janitor.pc = "loop" /\ janitor.results < MaxDeleteBatch
    /\ \E k \in DOMAIN janitor.cands :
          /\ \A l \in DOMAIN janitor.cands : janitor.cands[k] <= janitor.cands[l]
          /\ LET rest == [l \in DOMAIN janitor.cands \ {k} |-> janitor.cands[l]]
             IN  janitor' =
                   IF janitor.dry
                   THEN [janitor EXCEPT !.cands = rest,
                                        !.results = @ + 1,
                                        !.recovered = @ + 1,
                                        !.pc = AfterItem(janitor.recovered + 1)]
                   ELSE [janitor EXCEPT !.cands = rest, !.item = k,
                                        !.pc = "delete"]
    /\ UNCHANGED <<storeVars, envVars, boundVars, historyVars>>

EndLoop ==
    /\ janitor.pc = "loop"
    /\ janitor.results >= MaxDeleteBatch \/ DOMAIN janitor.cands = {}
    /\ janitor' = [janitor EXCEPT !.pc = "gc"]
    /\ UNCHANGED <<storeVars, envVars, boundVars, historyVars>>

\* The item ended in an error.
ItemFails ==
    janitor' = [janitor EXCEPT !.pc = AfterItem(janitor.recovered),
                               !.results = @ + 1, !.item = <<>>]

\* deleteManifest is answered 202, or 404 when the manifest is gone already.
DeleteManifest ==
    /\ janitor.pc = "delete"
    /\ IF janitor.item \in manifests
       THEN RegistryDelete(janitor.item)
       ELSE UNCHANGED <<registryVars, lost, uncollected>>
    /\ janitor' = [janitor EXCEPT !.pc = "mark"]
    /\ UNCHANGED <<storeVars, stamp, conn, sync, settingVars, gcFlagVars,
                   boundVars, shielded, held>>

\* The call fails, or only its answer is lost.
DeleteManifestFails ==
    /\ janitor.pc = "delete" /\ Fault
    /\ \/ janitor.item \in manifests /\ RegistryDelete(janitor.item)
       \/ UNCHANGED <<registryVars, lost, uncollected>>
    /\ ItemFails
    /\ UNCHANGED <<storeVars, stamp, conn, sync, settingVars, gcFlagVars,
                   shielded, held>>

\* markDeleted, whatever became of the row since it was listed.
MarkItem ==
    /\ janitor.pc = "mark" /\ ConnFree
    /\ MarkDeleted(janitor.item)
    /\ janitor' = [janitor EXCEPT !.pc = AfterItem(janitor.recovered + 1),
                                  !.item = <<>>,
                                  !.results = @ + 1,
                                  !.deleted = @ + 1,
                                  !.recovered = @ + 1]
    /\ UNCHANGED <<envVars, boundVars, historyVars>>

\* The removals that nobody will report once the mark of k is not made.
LostWithMark(k) ==
    IF (Active(k) \/ Answered(k)) /\ ~InFlight(k) THEN lost \cup {k} ELSE lost

MarkItemFails ==
    /\ janitor.pc = "mark" /\ Fault
    /\ ItemFails
    /\ lost' = LostWithMark(janitor.item)
    /\ UNCHANGED <<storeVars, envVars, shielded, uncollected, held>>

\* Slip: one deletion alone does not ask for a collection.
FinishJanitorAboveOne ==
    /\ janitor.pc = "gc"
    /\ IF ~janitor.dry /\ janitor.deleted > 1
       THEN gcRequest' = TRUE /\ uncollected' = FALSE
       ELSE UNCHANGED <<gcRequest, uncollected>>
    /\ EndJanitor
    /\ UNCHANGED <<storeVars, registryVars, stamp, conn, sync, settingVars,
                   gcActive, boundVars, lost>>

\* The GC request of a run that deleted something, and the end of the run.
FinishJanitor ==
    /\ janitor.pc = "gc"
    /\ IF ~janitor.dry /\ janitor.deleted > 0
       THEN gcRequest' = TRUE /\ uncollected' = FALSE
       ELSE UNCHANGED <<gcRequest, uncollected>>
    /\ EndJanitor
    /\ UNCHANGED <<storeVars, registryVars, stamp, conn, sync, settingVars,
                   gcActive, boundVars, lost>>

----------------------------------------------------------------------------
(* The operator, the gc-worker, housekeeping, time and crashes. *)

othersVars == <<registryVars, stamp, conn, sync, janitor>>

OperatorMarks ==
    /\ ConnFree /\ Change
    /\ Pin \/ Protect
    /\ shielded' = {k \in shielded : Marked(k)'}
    /\ UNCHANGED <<othersVars, settingVars, gcFlagVars, lost, uncollected, held>>

SetMaintenanceMode ==
    /\ ConnFree /\ Change
    /\ maintenanceMode' = ~maintenanceMode
    /\ held' = held \ {"mode"}
    /\ UNCHANGED <<storeVars, othersVars, janitorPaused, gcFlagVars, lost,
                   shielded, uncollected>>

SetJanitorPaused ==
    /\ ConnFree /\ Change
    /\ janitorPaused' = ~janitorPaused
    /\ held' = held \ {"paused"}
    /\ UNCHANGED <<storeVars, othersVars, maintenanceMode, gcFlagVars, lost,
                   shielded, uncollected>>

\* The gc-worker (module GCWorker) collects this cache: for a request of its
\* own, or under a forced request for another cache.
CollectBegins ==
    /\ ~gcActive /\ Change
    /\ gcActive' = TRUE
    /\ UNCHANGED <<storeVars, othersVars, settingVars, gcRequest, historyVars>>

\* The request is removed, unless the command failed.
CollectEnds ==
    /\ gcActive
    /\ gcActive' = FALSE
    /\ gcRequest' = FALSE \/ UNCHANGED gcRequest
    /\ held' = held \ {"gc"}
    /\ UNCHANGED <<storeVars, othersVars, settingVars, boundVars, lost, shielded,
                   uncollected>>

Housekeeping ==
    /\ ConnFree
    /\ PruneMetadata
    /\ UNCHANGED <<othersVars, settingVars, gcFlagVars, boundVars, historyVars>>

\* Time passes, whoever holds the connection and whoever waits for it, up to
\* the bound on a wait.
NextDay ==
    /\ Tick
    /\ stamp # NoStamp => clock - stamp < MaxWait
    /\ \A s \in Syncers : sync[s].pc = "fetch" => clock - sync[s].now < MaxWait
    /\ UNCHANGED <<othersVars, settingVars, gcFlagVars, boundVars, historyVars>>

\* The process dies; its transaction is rolled back and its files stay.
ControlCrash ==
    /\ Fault
    /\ stamp' = NoStamp /\ conn' = "free"
    /\ sync' = [s \in Syncers |-> SyncIdle]
    /\ lost' = IF janitor.pc = "mark" THEN LostWithMark(janitor.item) ELSE lost
    /\ EndJanitor
    /\ UNCHANGED <<storeVars, registryVars, settingVars, gcFlagVars, uncollected>>

----------------------------------------------------------------------------
ControlInit ==
    /\ StoreInit
    /\ manifests = {}
    /\ tagOf = [x \in Repos \X Tags |-> NoDigest]
    /\ events = <<>>
    /\ stamp = NoStamp /\ conn = "free"
    /\ sync = [s \in Syncers |-> SyncIdle]
    /\ janitor = JanitorIdle
    /\ maintenanceMode = FALSE /\ janitorPaused = FALSE
    /\ gcRequest = FALSE /\ gcActive = FALSE
    /\ changes = 0 /\ faults = 0
    /\ lost = {} /\ shielded = {} /\ uncollected = FALSE /\ held = {}

SyncNext(s) ==
    \/ \E r \in Repos : ListTags(s, r)
    \/ BeginSyncTx(s)
    \/ \E t \in Tags : FetchTag(s, t)
    \/ CommitSync(s) \/ RollbackSync(s)

JanitorNext ==
    \/ \E dry, force \in BOOLEAN : BeginJanitor(dry, force)
    \/ ReadHealth \/ ReadMode \/ ReadPausedAndDecide \/ List
    \/ NextItem \/ EndLoop
    \/ DeleteManifest \/ DeleteManifestFails \/ MarkItem \/ MarkItemFails
    \/ FinishJanitor

ControlNext ==
    \/ \E r \in Repos, t \in Tags, d \in Digests : ClientPull(r, t, d)
    \/ StampEvent \/ ReceiveEvent \/ DropEvent
    \/ \E s \in Syncers : SyncNext(s)
    \/ JanitorNext
    \/ OperatorMarks \/ SetMaintenanceMode \/ SetJanitorPaused
    \/ CollectBegins \/ CollectEnds
    \/ Housekeeping \/ NextDay \/ ControlCrash

ControlSpec == ControlInit /\ [][ControlNext]_controlVars

\* The registry keeps sending, the sync loop keeps its rounds (startup and
\* ticker), and a run of the janitor goes on once it has begun.
ControlFairSpec ==
    /\ ControlSpec
    /\ WF_controlVars(ReceiveEvent)
    /\ \A s \in Syncers : WF_controlVars(SyncNext(s))
    /\ WF_controlVars(JanitorNext)

----------------------------------------------------------------------------
(* Properties. *)

ControlTypeOK ==
    /\ StoreTypeOK
    /\ manifests \subseteq Key
    /\ tagOf \in [Repos \X Tags -> Digests \cup {NoDigest}]
    /\ events \in Seq(Event) /\ Len(events) <= MaxEvents
    /\ stamp \in {NoStamp} \cup (0 .. MaxClock)
    /\ conn \in Syncers \cup {"free"}
    /\ \A s \in Syncers :
          /\ sync[s].now \in 0 .. MaxClock
          /\ sync[s].pc \in {"idle", "begin", "fetch"}
          /\ sync[s].repo \in Repos \cup {""}
          /\ sync[s].todo \subseteq Tags
          /\ sync[s].found \in [DOMAIN sync[s].found -> Digests]
    /\ janitor \in Janitor
    /\ {maintenanceMode, janitorPaused, gcRequest, gcActive, uncollected} \subseteq BOOLEAN
    /\ changes \in 0 .. MaxChanges /\ faults \in 0 .. MaxFaults
    /\ lost \subseteq Key /\ shielded \subseteq Key
    /\ held \subseteq {"mode", "paused", "gc"}

\* An artifact the index shows as cached although the registry no longer has
\* it is about to be corrected: the registry's delete event is on its way or
\* the janitor is about to mark the row, unless both were lost.  In particular
\* a catalog sync, which asks the registry before it writes, never brings back
\* a row that was marked meanwhile: it keeps the connection from before its
\* first question until its commit, so the mark and the event come after.
NewsReachesIndex ==
    \A k \in DOMAIN artifacts :
        Active(k) /\ k \notin manifests => InFlight(k) \/ Marking(k) \/ k \in lost

\* A mark the operator made before the candidates were listed, and has not
\* taken back, keeps its artifact out of the whole run, forced or not.
MarksBeforeListing ==
    janitor.pc \in {"delete", "mark"} => janitor.item \notin shielded

\* An unforced run deletes nothing under maintenance mode, or under a paused
\* janitor, that has been on without a break since the run began.
PauseHonoured ==
    janitor.pc \in {"list", "loop", "delete", "mark"} /\ ~janitor.force
        => held \cap {"mode", "paused"} = {}

\* What a run removed from the registry is followed by a GC request before the
\* run is over, unless a call failed or the process died.
RemovalAsksForGC == uncollected /\ janitor.pc = "idle" => faults > 0

\* Whatever control, the registry and the operator do at the same time, the
\* index only ever makes the steps of ArtifactStore: the sync writes what it
\* was answered, one repository at a time and something of each, and the
\* janitor marks a row only when one could have been a candidate.  So what
\* holds of that module (ages, tags, marks, tombstones) holds here.
WritesAsStore == StoreSpec

\* What the README says of the catalog sync (line 399): an artifact that stays
\* in the cache under a tag comes to be listed, although the notifications may
\* be incomplete, late or repeated.
Served(k) == k \in manifests /\ \E t \in Tags \ BrokenTags : tagOf[<<k[1], t>>] = k[2]

CatalogHeals == \A k \in Key : <>[]Served(k) => <>[]Active(k)

\* What the fallback state says (ops.go:177): destructive operations are paused
\* while maintenance or GC is active.  So an unforced run deletes nothing while
\* a collection goes on that was going on when the run began.
DeletesPauseForGC ==
    janitor.pc \in {"delete", "mark"} /\ ~janitor.force => "gc" \notin held
=============================================================================
