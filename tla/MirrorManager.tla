---------------------------- MODULE MirrorManager ----------------------------
(***************************************************************************)
(* The script that points a client's Docker at the mirror and back         *)
(* (src/scripts/docker-registry-mirror-manager.sh): apply, rollback, and   *)
(* the rollback that apply schedules with systemd.  A run of the script is *)
(* a process of several steps over files, and may stop between any two:    *)
(* it is interrupted, the machine restarts, a command fails under set -e.  *)
(* The operator's runs and the timer's are two processes without a lock.   *)
(*                                                                         *)
(* daemon.json is what the operator's own settings say, as a version that  *)
(* grows when the operator edits the file, and the mirrors it lists.  A    *)
(* file that is empty, absent or {} is Blank: all three mean the defaults. *)
(* The host has systemd; the at branch of the script is not modelled.      *)
(*                                                                         *)
(* A definition that begins with "Slip:" is not the code's: it is a mistake *)
(* the code could contain, and a property below fails when it takes the    *)
(* place of the definition that follows it.                                *)
(***************************************************************************)
EXTENDS Integers

CONSTANTS
    Mirrors,           \* URLs of mirrors, none a part of another
    NoMirror,          \* a state file that names none: absent, or cut off
    OwnMirrors,        \* the mirrors the operator's own daemon.json lists
    Overlap,           \* whether the two processes may run at the same time
    MaxRuns,           \* bound of the model: runs the operator starts
    MaxEdits,          \* bound of the model: versions of the own settings
    MaxFaults          \* bound of the model: stops and failing commands

ASSUME ManagerAssumption ==
    /\ NoMirror \notin Mirrors /\ OwnMirrors \subseteq Mirrors
    /\ Overlap \in BOOLEAN
    /\ MaxRuns \in Nat /\ MaxEdits \in Nat \ {0} /\ MaxFaults \in Nat

VARIABLES
    daemon,            \* DOCKER_DAEMON_JSON
    backup,            \* BACKUP_JSON, a set of at most one content
    state,             \* STATE_FILE: MIRROR_URL and whether TARGET_TIME_BKK is set
    installed,         \* INSTALL_PATH, a script file
    wrapper,           \* ROLLBACK_SCRIPT, a script file
    armed,             \* the timer is enabled and has not elapsed
    live,              \* external: the mirrors the Docker daemon runs with
    task,              \* the run of each process
    report,            \* what the last run reported, until a run starts or is due
    original,          \* history: what the backup was made from, once it is whole
    runs, edits, faults

fileVars == <<daemon, backup, state, installed, wrapper>>
boundVars == <<runs, edits, faults>>
managerVars == <<fileVars, armed, live, task, report, original, boundVars>>

Processes == {"operator", "timer"}

Content == [own : 0 .. MaxEdits, mirrors : SUBSET Mirrors]
Blank == [own |-> 0, mirrors |-> {}]
NoState == [mirror |-> NoMirror, timed |-> FALSE]

\* A script file is opened empty, filled and made executable one after the other.
\* Without its last line a script does nothing, so that cut off counts as empty.
ScriptFiles == [text : {"none", "empty", "whole"}, exec : BOOLEAN]
NoScript == [text |-> "none", exec |-> FALSE]

\* Opened for writing: a file that is there keeps its mode, a new one gets one.
Emptied(file, mode) ==
    [text |-> "empty", exec |-> IF file = NoScript THEN mode ELSE file.exec]

\* A file that has been removed meanwhile is written to all the same.
Filled(file) == IF file = NoScript THEN NoScript ELSE [file EXCEPT !.text = "whole"]

CanRun(file) == file.text = "whole" /\ file.exec
TimerCanRun == CanRun(wrapper) /\ CanRun(installed)

\* mirror is MIRROR_URL, timed whether TARGET_TIME_BKK is set, self SELF_DELETE
\* in a rollback and, in an apply, whether INSTALL_PATH itself was started; held
\* is what a copy or the embedded Python has read.
Idle == [op |-> "none", pc |-> "idle", mirror |-> NoMirror, timed |-> FALSE,
         self |-> FALSE, held |-> Blank]

PCs == {"idle", "save", "install", "fillScript", "chmodScript", "wrapper",
        "fillWrapper", "chmodWrapper", "backup", "copy", "read", "write", "restart",
        "verify", "clear", "schedule", "restore", "refill",
        "rmWrapper", "rmScript", "rmState", "rmBackup"}

Tasks == [op : {"none", "apply", "rollback"}, pc : PCs,
          mirror : Mirrors \cup {NoMirror}, timed : BOOLEAN, self : BOOLEAN,
          held : Content]

Busy(p) == task[p].pc # "idle"
Quiet == \A p \in Processes : ~Busy(p)
At(p, op, pc) == task[p].op = op /\ task[p].pc = pc
MayStart(p) == ~Busy(p) /\ (Overlap \/ Quiet)

Goto(p, pc) == task' = [task EXCEPT ![p].pc = pc]
GotoWith(p, pc, held) == task' = [task EXCEPT ![p].pc = pc, ![p].held = held]
Ends(p, says) == task' = [task EXCEPT ![p] = Idle] /\ report' = says

Fault == faults < MaxFaults /\ faults' = faults + 1 /\ UNCHANGED <<runs, edits>>

----------------------------------------------------------------------------
(* apply *)

\* Slip: what an earlier apply scheduled is cleared first.
StartApplyCleared(mirror, timed, self) ==
    /\ MayStart("operator") /\ runs < MaxRuns /\ runs' = runs + 1
    /\ self => CanRun(installed)
    /\ task' = [task EXCEPT !["operator"] =
                   [Idle EXCEPT !.op = "apply", !.pc = "save", !.mirror = mirror,
                                !.timed = timed, !.self = self]]
    /\ report' = "none" /\ state' = NoState /\ armed' = FALSE
    /\ UNCHANGED <<daemon, backup, installed, wrapper, live, original, edits,
                   faults>>

\* ensure_dirs, and save_state up to the redirection, which empties the file.
StartApply(mirror, timed, self) ==
    /\ MayStart("operator") /\ runs < MaxRuns /\ runs' = runs + 1
    /\ self => CanRun(installed)
    /\ task' = [task EXCEPT !["operator"] =
                   [Idle EXCEPT !.op = "apply", !.pc = "save", !.mirror = mirror,
                                !.timed = timed, !.self = self]]
    /\ report' = "none" /\ state' = NoState
    /\ UNCHANGED <<daemon, backup, installed, wrapper, armed, live, original,
                   edits, faults>>

SaveState(p) ==
    /\ At(p, "apply", "save")
    /\ state' = [mirror |-> task[p].mirror, timed |-> task[p].timed]
    /\ Goto(p, "install")
    /\ UNCHANGED <<daemon, backup, installed, wrapper, armed, live, report,
                   original, boundVars>>

\* install_self: the script does not copy itself when it runs from INSTALL_PATH.
\* A copy gets the mode of the file that was started, which bash may have read.
InstallSelf(p, mode) ==
    /\ At(p, "apply", "install")
    /\ IF task[p].self
       THEN Goto(p, "wrapper") /\ UNCHANGED installed
       ELSE Goto(p, "fillScript") /\ installed' = Emptied(installed, mode)
    /\ UNCHANGED <<daemon, backup, state, wrapper, armed, live, report, original,
                   boundVars>>

FillScript(p) ==
    /\ At(p, "apply", "fillScript")
    /\ installed' = Filled(installed)
    /\ Goto(p, "chmodScript")
    /\ UNCHANGED <<daemon, backup, state, wrapper, armed, live, report, original,
                   boundVars>>

\* Without the file chmod fails, and set -e ends the run.
ChmodScript(p) ==
    /\ At(p, "apply", "chmodScript")
    /\ IF installed = NoScript THEN Ends(p, "failed") /\ UNCHANGED installed
       ELSE /\ installed' = [installed EXCEPT !.exec = TRUE]
            /\ Goto(p, "wrapper") /\ UNCHANGED report
    /\ UNCHANGED <<daemon, backup, state, wrapper, armed, live, original, boundVars>>

\* write_rollback_wrapper: a new file is not executable at first.
WriteRollbackWrapper(p) ==
    /\ At(p, "apply", "wrapper")
    /\ wrapper' = Emptied(wrapper, FALSE)
    /\ Goto(p, "fillWrapper")
    /\ UNCHANGED <<daemon, backup, state, installed, armed, live, report, original,
                   boundVars>>

FillWrapper(p) ==
    /\ At(p, "apply", "fillWrapper")
    /\ wrapper' = Filled(wrapper)
    /\ Goto(p, "chmodWrapper")
    /\ UNCHANGED <<daemon, backup, state, installed, armed, live, report, original,
                   boundVars>>

ChmodWrapper(p) ==
    /\ At(p, "apply", "chmodWrapper")
    /\ IF wrapper = NoScript THEN Ends(p, "failed") /\ UNCHANGED wrapper
       ELSE /\ wrapper' = [wrapper EXCEPT !.exec = TRUE]
            /\ Goto(p, "backup") /\ UNCHANGED report
    /\ UNCHANGED <<daemon, backup, state, installed, armed, live, original, boundVars>>

\* Slip: the backup is made anew by each apply.
BackupEachTime(p) ==
    /\ At(p, "apply", "backup")
    /\ backup' = {Blank} /\ original' = {}
    /\ GotoWith(p, "copy", daemon)
    /\ UNCHANGED <<daemon, state, installed, wrapper, armed, live, report, boundVars>>

\* backup_current_config_once: a backup that is there stays.  cp opens the new
\* file empty, then writes what it read.
BackupCurrentConfigOnce(p) ==
    /\ At(p, "apply", "backup")
    /\ IF backup = {}
       THEN backup' = {Blank} /\ original' = {} /\ GotoWith(p, "copy", daemon)
       ELSE Goto(p, "read") /\ UNCHANGED <<backup, original>>
    /\ UNCHANGED <<daemon, state, installed, wrapper, armed, live, report, boundVars>>

\* A file that has been removed meanwhile is written to all the same.
FillBackup(p) ==
    /\ At(p, "apply", "copy")
    /\ IF backup = {} THEN UNCHANGED <<backup, original>>
       ELSE backup' = {task[p].held} /\ original' = {task[p].held}
    /\ Goto(p, "read")
    /\ UNCHANGED <<daemon, state, installed, wrapper, armed, live, report, boundVars>>

\* apply_mirror_json: read, add the mirror, and replace the file at once.
ReadDaemonJSON(p) ==
    /\ At(p, "apply", "read")
    /\ GotoWith(p, "write", [daemon EXCEPT !.mirrors = @ \cup {task[p].mirror}])
    /\ UNCHANGED <<fileVars, armed, live, report, original, boundVars>>

\* The os.replace of apply_mirror_json and of rollback_mirror_json.
ReplaceDaemonJSON(p) ==
    /\ task[p].pc = "write"
    /\ daemon' = task[p].held
    /\ GotoWith(p, "restart", Blank)
    /\ UNCHANGED <<backup, state, installed, wrapper, armed, live, report, original,
                   boundVars>>

\* restart_docker, of both commands.
RestartDocker(p) ==
    /\ task[p].pc = "restart"
    /\ live' = daemon.mirrors
    /\ Goto(p, "verify")
    /\ UNCHANGED <<fileVars, armed, report, original, boundVars>>

\* The restart fails: Docker is down, and set -e ends the run.
RestartFails(p) ==
    /\ task[p].pc = "restart" /\ Fault
    /\ live' = {}
    /\ Ends(p, "failed")
    /\ UNCHANGED <<fileVars, armed, original>>

\* verify_mirror_enabled of what docker system info prints.
VerifyMirrorEnabled(p, printed) ==
    /\ At(p, "apply", "verify")
    /\ IF task[p].mirror \notin printed THEN Ends(p, "failed")
       ELSE IF task[p].timed THEN Goto(p, "clear") /\ UNCHANGED report
       ELSE Ends(p, "applied")
    /\ UNCHANGED <<fileVars, armed, live, original>>

\* clear_schedules, of both commands: the first step of a rollback, and in apply
\* only before another rollback is scheduled.
ClearSchedules(p) ==
    /\ task[p].pc = "clear"
    /\ armed' = FALSE
    /\ Goto(p, IF task[p].op = "apply" THEN "schedule" ELSE "restore")
    /\ UNCHANGED <<fileVars, live, report, original, boundVars>>

\* Slip: the schedules are cleared when the new one is there already.
ScheduleThenClear(p) ==
    /\ At(p, "apply", "schedule")
    /\ armed' = FALSE
    /\ Ends(p, "scheduled")
    /\ UNCHANGED <<fileVars, live, original, boundVars>>

\* schedule_with_systemd
ScheduleWithSystemd(p) ==
    /\ At(p, "apply", "schedule")
    /\ armed' = TRUE
    /\ Ends(p, "scheduled")
    /\ UNCHANGED <<fileVars, live, original, boundVars>>

----------------------------------------------------------------------------
(* rollback *)

\* Slip: the state file is taken at its word, also when it names no mirror.
LoadedAsIs(default) == state.mirror

\* load_state_if_present: what the state file names goes before what the command
\* line and the environment say.
Loaded(default) == IF state.mirror = NoMirror THEN default ELSE state.mirror

BeginRollback(p, default, self) ==
    /\ task' = [task EXCEPT ![p] =
                   [Idle EXCEPT !.op = "rollback", !.pc = "clear",
                                !.mirror = Loaded(default), !.self = self]]
    /\ report' = "none"

StartRollback(default, self) ==
    /\ MayStart("operator") /\ runs < MaxRuns /\ runs' = runs + 1
    /\ BeginRollback("operator", default, self)
    /\ UNCHANGED <<fileVars, armed, live, original, edits, faults>>

\* The timer elapses, and its service starts ROLLBACK_SCRIPT, which starts
\* INSTALL_PATH; when either is gone, empty or not executable nothing happens, and
\* nothing will again.
Fire(default) ==
    /\ armed /\ (Overlap \/ Quiet)
    /\ armed' = FALSE
    /\ IF TimerCanRun /\ ~Busy("timer")
       THEN BeginRollback("timer", default, TRUE)
       ELSE report' = "none" /\ UNCHANGED task
    /\ UNCHANGED <<fileVars, live, original, boundVars>>

\* Slip: the backup is moved into place, over a file that is first emptied.
MoveBackup(p) ==
    /\ At(p, "rollback", "restore") /\ backup # {}
    /\ daemon' = Blank /\ backup' = {}
    /\ \E b \in backup : GotoWith(p, "refill", b)
    /\ UNCHANGED <<state, installed, wrapper, armed, live, report, original, boundVars>>

\* Slip: the mirror alone is taken out, as without a backup.
TakeOutMirror(p) ==
    /\ At(p, "rollback", "restore") /\ backup # {}
    /\ daemon' = Blank
    /\ GotoWith(p, "refill", [daemon EXCEPT !.mirrors = @ \ {task[p].mirror}])
    /\ UNCHANGED <<backup, state, installed, wrapper, armed, live, report, original,
                   boundVars>>

\* rollback_mirror_json with a backup: cp -f empties daemon.json, then fills it.
RestoreBackup(p) ==
    /\ At(p, "rollback", "restore") /\ backup # {}
    /\ daemon' = Blank
    /\ \E b \in backup : GotoWith(p, "refill", b)
    /\ UNCHANGED <<backup, state, installed, wrapper, armed, live, report, original,
                   boundVars>>

FillDaemonJSON(p) ==
    /\ At(p, "rollback", "refill")
    /\ daemon' = task[p].held
    /\ GotoWith(p, "restart", Blank)
    /\ UNCHANGED <<backup, state, installed, wrapper, armed, live, report, original,
                   boundVars>>

\* Without a backup, the mirror alone is taken out of the list.
RemoveMirror(p) ==
    /\ At(p, "rollback", "restore") /\ backup = {}
    /\ IF daemon = Blank THEN Goto(p, "restart")
       ELSE GotoWith(p, "write", [daemon EXCEPT !.mirrors = @ \ {task[p].mirror}])
    /\ UNCHANGED <<fileVars, armed, live, report, original, boundVars>>

\* verify_mirror_disabled: an info command that fails prints nothing, which passes.
VerifyMirrorDisabled(p, printed) ==
    /\ At(p, "rollback", "verify")
    /\ IF task[p].mirror \in printed THEN Ends(p, "failed")
       ELSE IF task[p].self THEN Goto(p, "rmWrapper") /\ UNCHANGED report
       ELSE Ends(p, "rolledback")
    /\ UNCHANGED <<fileVars, armed, live, original>>

\* cleanup_self_files, one file after the other.
CleanupSelfFiles(p) ==
    /\ task[p].op = "rollback"
    /\ \/ /\ task[p].pc = "rmWrapper" /\ Goto(p, "rmScript")
          /\ wrapper' = NoScript /\ UNCHANGED <<backup, state, installed, report>>
       \/ /\ task[p].pc = "rmScript" /\ Goto(p, "rmState")
          /\ installed' = NoScript /\ UNCHANGED <<backup, state, wrapper, report>>
       \/ /\ task[p].pc = "rmState" /\ Goto(p, "rmBackup")
          /\ state' = NoState /\ UNCHANGED <<backup, installed, wrapper, report>>
       \/ /\ task[p].pc = "rmBackup" /\ Ends(p, "rolledback")
          /\ backup' = {} /\ UNCHANGED <<state, installed, wrapper>>
    /\ UNCHANGED <<daemon, armed, live, original, boundVars>>

----------------------------------------------------------------------------
(* What happens around the script. *)

\* A run stops where it is: a signal, or a command that fails under set -e.
Stop(p) ==
    /\ Busy(p) /\ Fault
    /\ Ends(p, "failed")
    /\ UNCHANGED <<fileVars, armed, live, original>>

\* The machine restarts: Docker reads daemon.json, and the enabled timer is back.
Reboot ==
    /\ Fault
    /\ live' = daemon.mirrors
    /\ task' = [p \in Processes |-> Idle]
    /\ report' = IF Quiet THEN report ELSE "failed"
    /\ UNCHANGED <<fileVars, armed, original>>

\* The operator edits the own settings in daemon.json.
EditDaemonJSON ==
    /\ edits < MaxEdits /\ edits' = edits + 1
    /\ daemon' = [daemon EXCEPT !.own = edits + 1]
    /\ UNCHANGED <<backup, state, installed, wrapper, armed, live, task, report,
                   original, runs, faults>>

\* docker system info prints the mirrors, or fails and prints nothing.
Verify(p) ==
    \/ /\ VerifyMirrorEnabled(p, live) \/ VerifyMirrorDisabled(p, live)
       /\ UNCHANGED boundVars
    \/ /\ VerifyMirrorEnabled(p, {}) \/ VerifyMirrorDisabled(p, {})
       /\ Fault

ManagerInit ==
    /\ daemon = [own |-> 1, mirrors |-> OwnMirrors]
    /\ backup = {} /\ state = NoState
    /\ installed = NoScript /\ wrapper = NoScript /\ armed = FALSE
    /\ live = OwnMirrors
    /\ task = [p \in Processes |-> Idle] /\ report = "none" /\ original = {}
    /\ runs = 0 /\ edits = 1 /\ faults = 0

Step(p) ==
    \/ SaveState(p)
    \/ \E mode \in BOOLEAN : InstallSelf(p, mode)
    \/ FillScript(p) \/ ChmodScript(p)
    \/ WriteRollbackWrapper(p) \/ FillWrapper(p) \/ ChmodWrapper(p)
    \/ BackupCurrentConfigOnce(p) \/ FillBackup(p)
    \/ ReadDaemonJSON(p) \/ ReplaceDaemonJSON(p)
    \/ RestartDocker(p) \/ Verify(p)
    \/ ClearSchedules(p) \/ ScheduleWithSystemd(p)
    \/ RestoreBackup(p) \/ FillDaemonJSON(p) \/ RemoveMirror(p)
    \/ CleanupSelfFiles(p)

ManagerNext ==
    \/ \E m \in Mirrors, timed, self \in BOOLEAN : StartApply(m, timed, self)
    \/ \E m \in Mirrors, self \in BOOLEAN : StartRollback(m, self)
    \/ \E m \in Mirrors : Fire(m)
    \/ \E p \in Processes : Step(p) \/ RestartFails(p) \/ Stop(p)
    \/ Reboot \/ EditDaemonJSON

ManagerSpec == ManagerInit /\ [][ManagerNext]_managerVars

\* A run goes on, and the time the timer is set to comes.
ManagerFairSpec ==
    /\ ManagerSpec
    /\ \A p \in Processes : WF_managerVars(Step(p))
    /\ WF_managerVars(\E m \in Mirrors : Fire(m))

----------------------------------------------------------------------------
(* Properties *)

ManagerTypeOK ==
    /\ daemon \in Content /\ backup \subseteq Content /\ original \subseteq Content
    /\ \A b, c \in backup : b = c
    /\ state \in [mirror : Mirrors \cup {NoMirror}, timed : BOOLEAN]
    /\ {installed, wrapper} \subseteq ScriptFiles /\ armed \in BOOLEAN
    /\ live \subseteq Mirrors
    /\ task \in [Processes -> Tasks]
    /\ \A p \in Processes : Busy(p) => task[p].mirror \in Mirrors
    /\ report \in {"none", "failed", "applied", "scheduled", "rolledback"}
    /\ runs \in 0 .. MaxRuns /\ edits \in 0 .. MaxEdits /\ faults \in 0 .. MaxFaults

\* However often apply and rollback are stopped and repeated, a mirror that apply
\* put into daemon.json can be taken out: there is a backup, and no backup has a
\* mirror the operator's own file did not have (backup_current_config_once).
UndoIsPossible ==
    /\ ~(daemon.mirrors \subseteq OwnMirrors) => backup # {}
    /\ \A b \in backup : b.mirrors \subseteq OwnMirrors

\* The settings that were backed up are not lost by a rollback that is stopped,
\* before or after the file is emptied, or by an apply that finds it so: they
\* are in the backup, or in daemon.json as they were or edited since.
OriginalKept == \A o \in original : backup = {o} \/ daemon.own >= o.own

\* When apply says the rollback is scheduled, it is, the scripts that the timer
\* starts are whole and executable, whatever an apply that was stopped left of
\* them, and the backup they restore is there.
ScheduledCanRun == report = "scheduled" => armed /\ TimerCanRun /\ backup # {}

Clean == live \cup daemon.mirrors \subseteq OwnMirrors

\* When rollback says Docker is back to normal, neither Docker nor daemon.json has
\* a mirror that an apply added: the last one's, which it looks for, or another's.
RolledBackIsClean == report = "rolledback" => Clean

\* A scheduled rollback happens while its scripts can run, whatever was stopped
\* before it was scheduled: if nothing fails from then on, the mirrors that apply
\* added are gone again, also when another apply is under way that makes the
\* scripts anew.  When an apply was stopped in the middle of that, install_self
\* and write_rollback_wrapper have left the timer of an earlier apply a script
\* that is empty or not executable, and nothing is rolled back.
RollbackHappens == armed /\ TimerCanRun /\ faults = MaxFaults ~> Clean
=============================================================================
