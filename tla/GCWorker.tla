------------------------------ MODULE GCWorker ------------------------------
(***************************************************************************)
(* The GC hand-off between the control process, which asks for a garbage   *)
(* collection, and the gc-worker process, which runs it (src/app/ops.go,   *)
(* targets_ops.go, main.go).  The two share only files: per upstream cache *)
(* a request flag, written by control, and an active flag, written by the  *)
(* worker, and the settings table.                                         *)
(*                                                                         *)
(* An upstream cache is its position in cfg.Upstreams.  A request file is  *)
(* its content as readGCRequestForTarget reads it; os.WriteFile truncates  *)
(* (or creates) the file and then writes it, so it is two steps.           *)
(*                                                                         *)
(* A definition that begins with "Slip:" is not the code's: it is a mistake *)
(* the code could contain, and a property below fails when it takes the    *)
(* place of the definition that follows it.                                *)
(***************************************************************************)
EXTENDS Fallback, Naturals, Sequences

CONSTANTS
    NTargets,     \* len(cfg.Upstreams)
    Callers,      \* concurrent activities of control: HTTP handlers, janitor
    Healths,      \* bound of the model: what the health probes may find
    Broken,       \* caches whose garbage-collect command always fails
    MaxFaults     \* bound of the model: crashes, failed commands, failed jobs

Targets == 1 .. NTargets

ASSUME GCAssumption ==
    /\ NTargets \in Nat \ {0}
    /\ Healths \subseteq {"ok", "mirror", "upstream"} /\ "ok" \in Healths
    /\ Broken \subseteq Targets
    /\ MaxFaults \in Nat

VARIABLES
    request,          \* request flag files
    active,           \* active flag files
    caller,           \* what each activity of control is doing
    maintenanceMode,  \* settings read by the worker
    gcPaused,
    health,           \* "ok", or what is down: a "mirror" or an "upstream"
    pc,               \* where gcWorkerLoop and executeGC stand
    cursor,           \* the target the current loop looks at
    force,            \* executeGC's argument
    gcRunning,        \* App.gcRunning
    pending,          \* result.GCPending
    fallback,         \* fallback.State
    modeRead,         \* maintenance.MaintenanceMode
    faults,           \* faults so far
    rewritten,        \* history: a request was written since the command began
    owed,             \* history: targets whose last request no command ended after
    held              \* history: what has paused GC ever since this run began

controlVars == <<caller, maintenanceMode, gcPaused, health>>
runVars == <<pc, cursor, force, gcRunning, pending, fallback, modeRead>>
historyVars == <<rewritten, owed, held>>
gcVars == <<request, active, controlVars, runVars, faults, historyVars>>

\* "empty": truncated, not yet written; it reads as an unforced request.
Contents == {"none", "empty", "soft", "force"}

Idle == [op |-> "idle", todo |-> <<>>, force |-> FALSE, file |-> "closed"]

\* The orders in which a list of distinct targets can be worked through.
Orders == {s \in UNION {[1 .. n -> Targets] : n \in Targets} :
              \A i, j \in DOMAIN s : s[i] = s[j] => i = j}

ConfigOrder == [i \in Targets |-> i]

GCTypeOK ==
    /\ request \in [Targets -> Contents]
    /\ active \in [Targets -> BOOLEAN]
    /\ caller \in [Callers -> [op: {"idle", "request", "clear"},
                               todo: Seq(Targets),
                               force: BOOLEAN,
                               file: {"closed", "linked", "unlinked"}]]
    /\ maintenanceMode \in BOOLEAN /\ gcPaused \in BOOLEAN
    /\ health \in Healths
    /\ pc \in {"down", "poll", "stat", "begin", "health", "mode", "paused",
               "target", "collect", "clear"}
    /\ cursor \in 1 .. NTargets + 1
    /\ force \in BOOLEAN /\ gcRunning \in BOOLEAN /\ pending \in BOOLEAN
    /\ fallback \in States
    /\ modeRead \in BOOLEAN
    /\ faults \in 0 .. MaxFaults
    /\ rewritten \in BOOLEAN /\ owed \subseteq Targets
    /\ held \subseteq {"mode", "paused", "upstream"}

Requested(t) == request[t] # "none"           \* gcRequestedForTarget
AnyRequested == \E t \in Targets : Requested(t)   \* gcRequested
AnyActive == \E t \in Targets : active[t]         \* gcActive

----------------------------------------------------------------------------
(* The control process.                                                    *)
(* An activity works through a list of targets: runGC and clearGCRequest   *)
(* in the order of the configuration, the janitor in the order of a map.   *)

Start(c, op, order, f) ==
    /\ caller[c] = Idle
    /\ caller' = [caller EXCEPT ![c] = [op |-> op, todo |-> order, force |-> f,
                                        file |-> "closed"]]
    /\ UNCHANGED <<request, active, maintenanceMode, gcPaused, health, runVars,
                   faults, historyVars>>

RunGC(c) == \E f \in BOOLEAN : Start(c, "request", ConfigOrder, f)
JanitorRequest(c) == \E order \in Orders : Start(c, "request", order, FALSE)
HandleClearGCRequest(c) == Start(c, "clear", ConfigOrder, FALSE)

\* The activity goes on with its next target, or ends.
Advance(c) ==
    IF Len(caller[c].todo) = 1 THEN Idle
    ELSE [caller[c] EXCEPT !.todo = Tail(@), !.file = "closed"]

\* requestGCForTarget, first half: the file exists and is empty.
OpenRequest(c) ==
    /\ caller[c].op = "request" /\ caller[c].file = "closed"
    /\ request' = [request EXCEPT ![Head(caller[c].todo)] = "empty"]
    /\ caller' = [caller EXCEPT ![c].file = "linked"]
    /\ UNCHANGED <<active, maintenanceMode, gcPaused, health, runVars, faults,
                   historyVars>>

\* Second half.  A file removed in between takes the text with it.  Over a
\* longer text of another activity the end of that text stays: the file is no
\* longer JSON and reads as an unforced ("legacy") request.
WriteRequest(c) ==
    LET t == Head(caller[c].todo)
        own == IF caller[c].force THEN "force" ELSE "soft"
    IN  /\ caller[c].op = "request" /\ caller[c].file # "closed"
        /\ \/ /\ caller[c].file = "linked"
              /\ \/ request' = [request EXCEPT ![t] = own]
                 \/ /\ request[t] # "empty"
                    /\ request' = [request EXCEPT ![t] = "soft"]
           \/ /\ caller[c].file = "unlinked"
              /\ UNCHANGED request
        /\ caller' = [caller EXCEPT ![c] = Advance(c)]
        /\ rewritten' = (\/ rewritten
                         \/ /\ caller[c].file = "linked"
                            /\ pc = "collect" /\ cursor = t)
        /\ owed' = IF caller[c].file = "linked" /\ ~(pc = "clear" /\ cursor = t)
                   THEN owed \cup {t} ELSE owed
        /\ UNCHANGED <<active, maintenanceMode, gcPaused, health, runVars,
                       faults, held>>

\* The callers after the request file of t is removed: who had it open writes
\* to a file nobody will read.
Unlinked(t) ==
    [c \in Callers |->
        IF caller[c].file = "linked" /\ Head(caller[c].todo) = t
        THEN [caller[c] EXCEPT !.file = "unlinked"] ELSE caller[c]]

\* clearGCRequestForTarget on the operator's behalf.
ClearRequest(c) ==
    LET t == Head(caller[c].todo)
    IN  /\ caller[c].op = "clear"
        /\ request' = [request EXCEPT ![t] = "none"]
        /\ caller' = [Unlinked(t) EXCEPT ![c] = Advance(c)]
        /\ owed' = owed \ {t}
        /\ UNCHANGED <<active, maintenanceMode, gcPaused, health, runVars,
                       faults, rewritten, held>>

\* updateMaintenanceState writes its settings one statement at a time.
SetMaintenanceMode ==
    /\ maintenanceMode' = ~maintenanceMode
    /\ held' = held \ {"mode"}
    /\ UNCHANGED <<request, active, caller, gcPaused, health, runVars, faults,
                   rewritten, owed>>

SetGCPaused ==
    /\ gcPaused' = ~gcPaused
    /\ held' = held \ {"paused"}
    /\ UNCHANGED <<request, active, caller, maintenanceMode, health, runVars,
                   faults, rewritten, owed>>

\* What the probes find changes by itself.
HealthChanges ==
    /\ health' \in Healths \ {health}
    /\ held' = held \ {"upstream"}
    /\ UNCHANGED <<request, active, caller, maintenanceMode, gcPaused, runVars,
                   faults, rewritten, owed>>

ControlCrash ==
    /\ \E c \in Callers : caller[c] # Idle
    /\ caller' = [c \in Callers |-> Idle]
    /\ UNCHANGED <<request, active, maintenanceMode, gcPaused, health, runVars,
                   faults, historyVars>>

----------------------------------------------------------------------------
(* The gc-worker process: gcWorkerLoop. *)

\* Slip: the loop over the targets stops at the first one without a request.
PollFirstTarget ==
    /\ pc = "poll" /\ cursor <= NTargets
    /\ IF Requested(cursor)
       THEN pc' = "begin" /\ force' = (request[cursor] = "force")
       ELSE pc' = "stat" /\ UNCHANGED force
    /\ UNCHANGED <<request, active, controlVars, cursor, gcRunning, pending,
                   fallback, modeRead, faults, historyVars>>

\* One readGCRequestForTarget: the first request found decides force.
PollTarget ==
    /\ pc = "poll" /\ cursor <= NTargets
    /\ IF Requested(cursor)
       THEN /\ pc' = "begin"
            /\ force' = (request[cursor] = "force")
            /\ UNCHANGED cursor
       ELSE /\ cursor' = cursor + 1
            /\ pc' = IF cursor = NTargets THEN "stat" ELSE "poll"
            /\ UNCHANGED force
    /\ UNCHANGED <<request, active, controlVars, gcRunning, pending, fallback,
                   modeRead, faults, historyVars>>

\* Slip: the next poll starts one position too early.
PollEndFromZero ==
    /\ pc = "stat"
    /\ \/ pc' = "begin" /\ AnyRequested
       \/ pc' = "poll"
    /\ cursor' = 0
    /\ force' = FALSE
    /\ UNCHANGED <<request, active, controlVars, gcRunning, pending, fallback,
                   modeRead, faults, historyVars>>

\* No request was read.  The scheduled run starts if one has appeared since,
\* the hour is right and no scheduled run succeeded today; of the last two
\* conditions no property depends on which holds when.
PollEnd ==
    /\ pc = "stat"
    /\ \/ pc' = "begin" /\ AnyRequested
       \/ pc' = "poll"
    /\ cursor' = 1
    /\ force' = FALSE
    /\ UNCHANGED <<request, active, controlVars, gcRunning, pending, fallback,
                   modeRead, faults, historyVars>>

(* executeGC. *)

\* The local variables of a run are gone.
ForgetRun ==
    /\ cursor' = 1 /\ force' = FALSE /\ gcRunning' = FALSE
    /\ pending' = FALSE /\ fallback' = "normal" /\ modeRead' = FALSE
    /\ held' = {} /\ rewritten' = FALSE

\* The run ends, endOperation, and the loop waits for its next tick.
EndRun == pc' = "poll" /\ ForgetRun

Fault == faults < MaxFaults /\ faults' = faults + 1

\* What pauses an unforced run at this moment.
Pausing ==
    {p \in {"mode", "paused", "upstream"} :
        \/ p = "mode" /\ maintenanceMode
        \/ p = "paused" /\ gcPaused
        \/ p = "upstream" /\ health = "upstream"}

\* beginOperation and createJobRun; gcRequested is the first thing read.
BeginGC ==
    /\ pc = "begin"
    /\ pc' = "health"
    /\ gcRunning' = TRUE
    /\ pending' = AnyRequested
    /\ held' = Pausing
    /\ UNCHANGED <<request, active, controlVars, cursor, force, fallback,
                   modeRead, faults, rewritten, owed>>

\* createJobRun fails: the database is locked by the other process.
BeginFails ==
    /\ pc = "begin" /\ Fault
    /\ EndRun
    /\ UNCHANGED <<request, active, controlVars, owed>>

\* refreshFallbackStatus; the storage level cannot matter here.
ReadHealth ==
    /\ pc = "health"
    /\ pc' = "mode"
    /\ fallback' = FallbackState(maintenanceMode, gcRunning \/ AnyActive,
                                 health # "mirror", health # "upstream", "ok")
    /\ UNCHANGED <<request, active, controlVars, cursor, force, gcRunning,
                   pending, modeRead, faults, historyVars>>

\* getMaintenanceState reads one setting after the other.
ReadMode ==
    /\ pc = "mode"
    /\ pc' = "paused"
    /\ modeRead' = maintenanceMode
    /\ UNCHANGED <<request, active, controlVars, cursor, force, gcRunning,
                   pending, fallback, faults, historyVars>>

\* Slip: maintenance mode alone is checked, not gc_paused.
SkipsUnlessPaused ==
    /\ ~force
    /\ modeRead \/ fallback = "upstream-degraded" \/ ~pending

\* The four reasons to skip, with gc_paused read now.
Skips ==
    /\ ~force
    /\ modeRead \/ gcPaused \/ fallback = "upstream-degraded" \/ ~pending

ReadPausedAndDecide ==
    /\ pc = "paused"
    /\ IF Skips
       THEN EndRun
       ELSE /\ pc' = "target" /\ cursor' = 1
            /\ UNCHANGED <<force, gcRunning, pending, fallback, modeRead,
                            rewritten, held>>
    /\ UNCHANGED <<request, active, controlVars, faults, owed>>

\* Slip: a run collects every cache, as if it were forced.
ShouldRunAnyway(t) == t \in Targets

ShouldRun(t) == force \/ Requested(t)

PassTarget ==
    /\ pc = "target" /\ cursor <= NTargets /\ ~ShouldRun(cursor)
    /\ cursor' = cursor + 1
    /\ UNCHANGED <<request, active, controlVars, pc, force, gcRunning, pending,
                   fallback, modeRead, faults, historyVars>>

\* setGCActiveForTarget(target, true), and the command starts.
StartCommand ==
    /\ pc = "target" /\ cursor <= NTargets /\ ShouldRun(cursor)
    /\ pc' = "collect"
    /\ active' = [active EXCEPT ![cursor] = TRUE]
    /\ rewritten' = FALSE
    /\ UNCHANGED <<request, controlVars, cursor, force, gcRunning, pending,
                   fallback, modeRead, faults, owed, held>>

\* The command ends and setGCActiveForTarget(target, false).
CommandSucceeds ==
    /\ pc = "collect" /\ cursor \notin Broken
    /\ pc' = "clear"
    /\ active' = [active EXCEPT ![cursor] = FALSE]
    /\ owed' = owed \ {cursor}
    /\ UNCHANGED <<request, controlVars, cursor, force, gcRunning, pending,
                   fallback, modeRead, faults, rewritten, held>>

\* Slip: the request is removed however the command ends.
CommandFailsAndClears ==
    /\ pc = "collect"
    /\ IF cursor \in Broken THEN UNCHANGED faults ELSE Fault
    /\ active' = [active EXCEPT ![cursor] = FALSE]
    /\ request' = [request EXCEPT ![cursor] = "none"]
    /\ caller' = Unlinked(cursor)
    /\ EndRun
    /\ UNCHANGED <<maintenanceMode, gcPaused, health, owed>>

\* A failure ends the whole run; the targets after it are not looked at.
CommandFails ==
    /\ pc = "collect"
    /\ IF cursor \in Broken THEN UNCHANGED faults ELSE Fault
    /\ active' = [active EXCEPT ![cursor] = FALSE]
    /\ EndRun
    /\ UNCHANGED <<request, controlVars, owed>>

\* clearGCRequestForTarget, whatever was written meanwhile.
ClearServed ==
    /\ pc = "clear"
    /\ request' = [request EXCEPT ![cursor] = "none"]
    /\ caller' = Unlinked(cursor)
    /\ pc' = "target"
    /\ cursor' = cursor + 1
    /\ rewritten' = FALSE
    /\ UNCHANGED <<active, maintenanceMode, gcPaused, health, force, gcRunning,
                   pending, fallback, modeRead, faults, owed, held>>

FinishGC ==
    /\ pc = "target" /\ cursor > NTargets
    /\ EndRun
    /\ UNCHANGED <<request, active, controlVars, faults, owed>>

\* The process dies with whatever command it was running.
WorkerCrash ==
    /\ pc # "down" /\ Fault
    /\ pc' = "down" /\ ForgetRun
    /\ UNCHANGED <<request, active, controlVars, owed>>

\* Slip: the worker starts without clearing the flags.
WorkerStartKeepsFlags ==
    /\ pc = "down"
    /\ EndRun
    /\ UNCHANGED <<request, active, controlVars, faults, owed>>

\* main: the flags a crash left behind are cleared before the loop starts.
WorkerStart ==
    /\ pc = "down"
    /\ active' = [t \in Targets |-> FALSE]
    /\ EndRun
    /\ UNCHANGED <<request, controlVars, faults, owed>>

----------------------------------------------------------------------------
GCInit ==
    /\ request = [t \in Targets |-> "none"]
    /\ active = [t \in Targets |-> FALSE]
    /\ caller = [c \in Callers |-> Idle]
    /\ maintenanceMode = FALSE /\ gcPaused = FALSE /\ health = "ok"
    /\ pc = "down" /\ cursor = 1 /\ force = FALSE /\ gcRunning = FALSE
    /\ pending = FALSE /\ fallback = "normal" /\ modeRead = FALSE
    /\ faults = 0
    /\ rewritten = FALSE /\ owed = {} /\ held = {}

ControlNext ==
    \/ \E c \in Callers :
          \/ RunGC(c) \/ JanitorRequest(c) \/ HandleClearGCRequest(c)
          \/ OpenRequest(c) \/ WriteRequest(c) \/ ClearRequest(c)
    \/ SetMaintenanceMode \/ SetGCPaused \/ HealthChanges \/ ControlCrash

WorkerNext ==
    \/ PollTarget \/ PollEnd
    \/ BeginGC \/ BeginFails \/ ReadHealth \/ ReadMode \/ ReadPausedAndDecide
    \/ PassTarget \/ StartCommand \/ CommandSucceeds \/ CommandFails
    \/ ClearServed \/ FinishGC
    \/ WorkerStart

GCNext == ControlNext \/ WorkerNext \/ WorkerCrash

GCSpec == GCInit /\ [][GCNext]_gcVars

\* The worker's loop is driven by a ticker, its commands end (a garbage
\* collection is a finite batch), and docker compose restarts it.
GCFairSpec == GCSpec /\ WF_gcVars(WorkerNext)

----------------------------------------------------------------------------
(* Properties. *)

\* The active flag, which is all that control and its console know of a
\* running collection, is up exactly while the command of that cache runs; a
\* crash may leave one flag standing, and only until the worker is back.
FlagsTellTruth ==
    /\ pc # "down" => \A t \in Targets : active[t] <=> pc = "collect" /\ cursor = t
    /\ \A t, u \in Targets : active[t] /\ active[u] => t = u

\* A pause holds for every unforced run that starts under it: as long as
\* maintenance mode, or gc_paused, has been on without a break since the run
\* began, the run goes no further than its checks, whatever the settings, the
\* requests and the health do in between.
PauseHonoured ==
    pc \in {"target", "collect", "clear"} /\ ~force => held \cap {"mode", "paused"} = {}

\* A request outlives crashes of either process, failed commands and skipped
\* runs: it stays on disk until a command for its own cache has succeeded since
\* it was written, or the operator clears it.  (Written between that success
\* and the removal of the file it is lost; see NoRequestLost.)
OwedIsRequested ==
    \A t \in owed : Requested(t) /\ ~(pc = "clear" /\ cursor = t)

\* Every request is served, once the pauses are lifted for good and the faults
\* are over, however many requests the other caches get.
RequestsServed ==
    <>[](~maintenanceMode /\ ~gcPaused)
        => \A t \in Targets : Requested(t) ~> ~Requested(t)

\* What the README says of the worker (line 116): it reads the GC request of
\* each upstream and then runs the garbage collection.  So it never removes a
\* request that was written after the command began, for which none has run.
NoRequestLost == pc = "clear" => ~rewritten

\* What executeGC's own check says (ops.go:587): an unforced collection is
\* skipped while an upstream is degraded.
DegradedSkips ==
    pc \in {"target", "collect", "clear"} /\ ~force => "upstream" \notin held

\* What the worker and control do to their files is a GC hand-off: seen from
\* the requests that are on disk, the cache whose command runs, and the
\* operator's clears, every step is one of GCHandOff's, crashes included.
HandOff == INSTANCE GCHandOff WITH
    wanted   <- {t \in Targets : Requested(t)},
    running  <- IF pc = "collect" THEN {cursor} ELSE {},
    served   <- IF pc = "clear" THEN {cursor} ELSE {},
    forced   <- force,
    clearing <- \E c \in Callers : caller[c].op = "clear"

\* The worker of executeGC and the files implement the abstract hand-off.
IsHandOff == HandOff!HandOffSpec
=============================================================================
