------------------------- MODULE MirrorManagerProofs -------------------------
(***************************************************************************)
(* What TLAPS proves of MirrorManager when one run of the script follows   *)
(* the other, for any mirrors and any number of runs, edits and stops: an  *)
(* apply can always be undone, the backed-up settings survive, and what    *)
(* the script reports of the schedule and of the rollback is so.           *)
(***************************************************************************)
EXTENDS MirrorManager, TLAPS

\* Nothing is lost among daemon.json, its backup and what the backup was made of.
FilesSound ==
    /\ UndoIsPossible /\ OriginalKept
    /\ backup # {} => original \subseteq backup
    /\ daemon.own <= edits
    /\ \A b \in backup \cup original : b.own <= edits

ScriptPCs == {"save", "install", "fillScript", "chmodScript"}
WrapperPCs == {"wrapper", "fillWrapper", "chmodWrapper"}
AppliedPCs == {"read", "write", "restart", "verify", "clear", "schedule"}
RestoredPCs == {"restart", "verify", "rmWrapper", "rmScript", "rmState", "rmBackup"}

\* How far an apply has come says which files are there and which scripts can run:
\* a script file that was opened is there until chmod is through, since no other
\* run is under way.
ApplySound(t) ==
    /\ t.pc \in ScriptPCs \cup WrapperPCs \cup {"backup", "copy"} \cup AppliedPCs
    /\ t.pc \in {"save", "install"} => (t.self => CanRun(installed))
    /\ t.pc = "fillScript" => installed # NoScript
    /\ t.pc = "chmodScript" => installed.text = "whole"
    /\ t.pc \notin ScriptPCs => CanRun(installed)
    /\ t.pc = "fillWrapper" => wrapper # NoScript
    /\ t.pc = "chmodWrapper" => wrapper.text = "whole"
    /\ t.pc \notin ScriptPCs \cup WrapperPCs => CanRun(wrapper)
    /\ t.pc = "copy" => backup # {} /\ original = {} /\ t.held.mirrors \subseteq OwnMirrors
    /\ t.pc \in AppliedPCs => backup # {}

\* What a rollback is about to write is clean and no older than the backup, and
\* so is daemon.json from then on.
RollbackSound(t) ==
    /\ t.pc \in {"clear", "restore", "refill", "write"} \cup RestoredPCs
    /\ t.pc = "refill" => backup = {t.held}
    /\ t.pc = "write" => /\ backup = {} /\ t.held.mirrors \subseteq OwnMirrors
                         /\ \A o \in original : t.held.own >= o.own
    /\ t.pc \in RestoredPCs => /\ daemon.mirrors \subseteq OwnMirrors
                               /\ \A o \in original : daemon.own >= o.own
    /\ t.pc \in RestoredPCs \ {"restart"} => live \subseteq OwnMirrors

Sound(t) ==
    /\ t.pc = "idle" <=> t.op = "none"
    /\ t.op = "apply" => ApplySound(t)
    /\ t.op = "rollback" => RollbackSound(t)
    /\ t.held.own <= edits

OneBusy == \A p, q \in Processes : Busy(p) /\ Busy(q) => p = q

\* A report is the last word of the last run.
Reported ==
    report \in {"scheduled", "rolledback"} => Quiet /\ ScheduledCanRun /\ RolledBackIsClean

RunsSound == OneBusy /\ \A p \in Processes : Sound(task[p])

ManagerInv == ManagerTypeOK /\ RunsSound /\ FilesSound /\ Reported

----------------------------------------------------------------------------
(* Runs. *)

\* t is what p's run becomes, when it is p's turn or nobody's.
LEMMA RunMoves ==
    ASSUME ManagerInv, NEW p \in Processes, Busy(p) \/ Quiet,
           NEW t \in Tasks, t.pc # "idle" => t.mirror \in Mirrors,
           task' = [task EXCEPT ![p] = t], edits' = edits,
           t.pc = "idle" <=> t.op = "none", t.held.own <= edits
    PROVE  /\ task' \in [Processes -> Tasks] /\ task'[p] = t
           /\ \A q \in Processes : task'[q].pc # "idle" => task'[q].mirror \in Mirrors
           /\ Sound(task[p])' => RunsSound'
           /\ t.pc = "idle" => RunsSound' /\ Quiet'
<1>1. /\ task' \in [Processes -> Tasks] /\ task'[p] = t
      /\ \A q \in Processes \ {p} : task'[q] = task[q]
  BY DEF ManagerInv, ManagerTypeOK
<1>2. \A q \in Processes \ {p} : task'[q].pc = "idle" /\ task'[q].op = "none"
                                 /\ task'[q].held.own <= edits'
  <2>1. \A q \in Processes \ {p} : task[q].pc = "idle"
    BY DEF ManagerInv, RunsSound, OneBusy, Busy, Quiet
  <2>2. \A q \in Processes : Sound(task[q])
    BY DEF ManagerInv, RunsSound
  <2> QED
    BY <1>1, <2>1, <2>2 DEF Sound
<1>3. OneBusy' /\ \A q \in Processes \ {p} : Sound(task[q])'
  BY <1>2 DEF OneBusy, Busy, Sound
<1>4. \A q \in Processes : task'[q].pc # "idle" => task'[q].mirror \in Mirrors
  BY <1>1, <1>2
<1>5. Sound(task[p])' => RunsSound'
  BY <1>3 DEF RunsSound
<1>6. t.pc = "idle" => Quiet'
  BY <1>1, <1>2 DEF Quiet, Busy
<1>7. t.pc = "idle" => Sound(task[p])'
  BY <1>1 DEF Sound
<1> QED
  BY <1>1, <1>4, <1>5, <1>6, <1>7

LEMMA IdleIs ==
    Idle \in Tasks /\ Idle.pc = "idle" /\ Idle.op = "none" /\ Idle.held.own = 0
BY ManagerAssumption DEF Idle, Tasks, PCs, Content, Blank

LEMMA Ended ==
    ASSUME ManagerInv, NEW p \in Processes, Busy(p), NEW says, Ends(p, says),
           edits' = edits
    PROVE  /\ task' \in [Processes -> Tasks] /\ report' = says
           /\ \A q \in Processes : task'[q].pc # "idle" => task'[q].mirror \in Mirrors
           /\ RunsSound' /\ Quiet'
<1>1. 0 <= edits
  BY DEF ManagerInv, ManagerTypeOK
<1> QED
  BY <1>1, IdleIs, RunMoves DEF Ends

\* p goes on, with held in hand.
LEMMA GoesOnWith ==
    ASSUME ManagerInv, NEW p \in Processes, Busy(p),
           NEW pc \in PCs \ {"idle"}, NEW held \in Content, held.own <= edits,
           GotoWith(p, pc, held), edits' = edits
    PROVE  /\ task' \in [Processes -> Tasks]
           /\ \A q \in Processes : task'[q].pc # "idle" => task'[q].mirror \in Mirrors
           /\ task'[p].pc = pc /\ task'[p].held = held
           /\ task'[p].op = task[p].op /\ task'[p].self = task[p].self
           /\ task[p].op # "none" /\ Sound(task[p]) /\ task[p] \in Tasks
           /\ Sound(task[p])' => RunsSound'
           /\ ~Quiet
<1> DEFINE t == [task[p] EXCEPT !.pc = pc, !.held = held]
<1>1. /\ task[p] \in Tasks /\ task[p].mirror \in Mirrors /\ Sound(task[p])
      /\ task[p].pc # "idle"
  BY DEF ManagerInv, ManagerTypeOK, RunsSound, Busy
<1>2. /\ t \in Tasks /\ t.pc = pc /\ t.held = held /\ t.mirror = task[p].mirror
      /\ t.op = task[p].op /\ t.self = task[p].self
  BY <1>1 DEF Tasks
<1>3. task' = [task EXCEPT ![p] = t]
  BY DEF GotoWith
<1>4. task[p].op # "none"
  BY <1>1 DEF Sound
<1> HIDE DEF t
<1>5. /\ task' \in [Processes -> Tasks] /\ task'[p] = t
      /\ \A q \in Processes : task'[q].pc # "idle" => task'[q].mirror \in Mirrors
      /\ Sound(task[p])' => RunsSound'
  BY <1>1, <1>2, <1>3, <1>4, RunMoves
<1> QED
  BY <1>1, <1>2, <1>4, <1>5 DEF Quiet

LEMMA GoesOn ==
    ASSUME ManagerInv, NEW p \in Processes, Busy(p),
           NEW pc \in PCs \ {"idle"}, Goto(p, pc), edits' = edits
    PROVE  /\ task' \in [Processes -> Tasks]
           /\ \A q \in Processes : task'[q].pc # "idle" => task'[q].mirror \in Mirrors
           /\ task'[p].pc = pc /\ task'[p].held = task[p].held
           /\ task'[p].op = task[p].op /\ task'[p].self = task[p].self
           /\ task[p].op # "none" /\ Sound(task[p]) /\ task[p] \in Tasks
           /\ Sound(task[p])' => RunsSound'
           /\ ~Quiet
<1>1. task \in [Processes -> Tasks] /\ task[p].held \in Content
  BY DEF ManagerInv, ManagerTypeOK, Tasks
<1>2. task[p].held.own <= edits
  BY DEF ManagerInv, RunsSound, Sound
<1>3. GotoWith(p, pc, task[p].held)
  BY <1>1 DEF Goto, GotoWith, Tasks
<1> QED
  BY <1>1, <1>2, <1>3, GoesOnWith

----------------------------------------------------------------------------
(* The steps of an apply. *)

\* What is the same in the steps that leave daemon.json and its backup alone.
LEMMA FilesStay ==
    ASSUME ManagerInv, UNCHANGED <<daemon, backup, original, edits>>
    PROVE  FilesSound'
BY DEF ManagerInv, FilesSound, UndoIsPossible, OriginalKept

\* A run under way has reported nothing yet.
LEMMA NothingReported ==
    ASSUME ManagerInv, ~Quiet, report' = report
    PROVE  Reported'
BY DEF ManagerInv, Reported

LEMMA SaveStateInv ==
    ASSUME ManagerInv, NEW p \in Processes, SaveState(p)
    PROVE  ManagerInv'
<1>1. /\ Busy(p) /\ Goto(p, "install") /\ "install" \in PCs \ {"idle"}
      /\ edits' = edits /\ task[p].op = "apply" /\ task[p].pc = "save"
  BY DEF SaveState, At, Busy, boundVars, PCs
<1>2. Sound(task[p])'
  BY <1>1, GoesOn DEF Sound, ApplySound, AppliedPCs, ScriptPCs, WrapperPCs, SaveState
<1>3. ManagerTypeOK'
  BY <1>1, GoesOn DEF ManagerInv, ManagerTypeOK, SaveState, boundVars, Tasks, Busy
<1>4. FilesSound' /\ Reported'
  BY <1>1, GoesOn, FilesStay, NothingReported DEF SaveState
<1> QED
  BY <1>1, <1>2, <1>3, <1>4, GoesOn DEF ManagerInv

\* A script file keeps its type, is there once it is opened, whole once it is
\* filled, and can run once chmod is through.
LEMMA ScriptMade ==
    ASSUME NEW file \in ScriptFiles, NEW mode \in BOOLEAN
    PROVE  /\ NoScript \in ScriptFiles /\ NoScript.text = "none"
           /\ Emptied(file, mode) \in ScriptFiles /\ Emptied(file, mode) # NoScript
           /\ Filled(file) \in ScriptFiles
           /\ file # NoScript => Filled(file).text = "whole"
           /\ [file EXCEPT !.exec = TRUE] \in ScriptFiles
           /\ file.text = "whole" => CanRun([file EXCEPT !.exec = TRUE])
<1>1. NoScript \in ScriptFiles /\ NoScript.text = "none" /\ file.exec \in BOOLEAN
  BY DEF NoScript, ScriptFiles
<1>2. Emptied(file, mode) \in ScriptFiles /\ Emptied(file, mode) # NoScript
  <2>1. Emptied(file, mode).text = "empty" /\ Emptied(file, mode) \in ScriptFiles
    BY <1>1 DEF Emptied, ScriptFiles
  <2> QED
    BY <1>1, <2>1
<1>3. Filled(file) \in ScriptFiles /\ (file # NoScript => Filled(file).text = "whole")
  BY <1>1 DEF Filled, ScriptFiles
<1>4. [file EXCEPT !.exec = TRUE] \in ScriptFiles
  BY DEF ScriptFiles
<1>5. file.text = "whole" => CanRun([file EXCEPT !.exec = TRUE])
  BY DEF CanRun, ScriptFiles
<1> QED
  BY <1>1, <1>2, <1>3, <1>4, <1>5

LEMMA InstallSelfInv ==
    ASSUME ManagerInv, NEW p \in Processes, NEW mode \in BOOLEAN, InstallSelf(p, mode)
    PROVE  ManagerInv'
<1>1. /\ Busy(p) /\ {"wrapper", "fillScript"} \subseteq PCs \ {"idle"}
      /\ edits' = edits /\ task[p].op = "apply" /\ task[p].pc = "install"
      /\ report' = report /\ installed \in ScriptFiles
      /\ UNCHANGED <<daemon, backup, state, wrapper, armed, live, original, boundVars>>
  BY DEF InstallSelf, At, Busy, boundVars, PCs, ManagerInv, ManagerTypeOK
<1>2. CASE task[p].self
  <2>1. Goto(p, "wrapper") /\ installed' = installed
    BY <1>2 DEF InstallSelf
  <2>2. CanRun(installed)
    BY <1>1, <1>2, <2>1, GoesOn DEF Sound, ApplySound
  <2>3. Sound(task[p])'
    BY <1>1, <2>1, <2>2, GoesOn
       DEF Sound, ApplySound, AppliedPCs, ScriptPCs, WrapperPCs
  <2>4. ManagerTypeOK'
    BY <1>1, <2>1, GoesOn DEF ManagerInv, ManagerTypeOK, boundVars, Busy
  <2> QED
    BY <1>1, <2>1, <2>3, <2>4, GoesOn, FilesStay, NothingReported DEF ManagerInv
<1>3. CASE ~task[p].self
  <2>1. Goto(p, "fillScript") /\ installed' = Emptied(installed, mode)
    BY <1>3 DEF InstallSelf
  <2>2. installed' \in ScriptFiles /\ installed' # NoScript
    BY <1>1, <2>1, ScriptMade
  <2>3. Sound(task[p])'
    BY <1>1, <2>1, <2>2, GoesOn
       DEF Sound, ApplySound, AppliedPCs, ScriptPCs, WrapperPCs
  <2>4. ManagerTypeOK'
    BY <1>1, <2>1, <2>2, GoesOn DEF ManagerInv, ManagerTypeOK, boundVars, Busy
  <2> QED
    BY <1>1, <2>1, <2>3, <2>4, GoesOn, FilesStay, NothingReported DEF ManagerInv
<1> QED
  BY <1>2, <1>3

LEMMA FillScriptInv ==
    ASSUME ManagerInv, NEW p \in Processes, FillScript(p)
    PROVE  ManagerInv'
<1>1. /\ Busy(p) /\ Goto(p, "chmodScript") /\ "chmodScript" \in PCs \ {"idle"}
      /\ edits' = edits /\ task[p].op = "apply" /\ task[p].pc = "fillScript"
      /\ report' = report /\ installed \in ScriptFiles
      /\ installed' = Filled(installed)
      /\ UNCHANGED <<daemon, backup, state, wrapper, armed, live, original, boundVars>>
  BY DEF FillScript, At, Busy, boundVars, PCs, ManagerInv, ManagerTypeOK
<1>2. installed # NoScript
  BY <1>1, GoesOn DEF Sound, ApplySound
<1>3. installed' \in ScriptFiles /\ installed'.text = "whole"
  BY <1>1, <1>2, ScriptMade
<1>4. Sound(task[p])'
  BY <1>1, <1>3, GoesOn DEF Sound, ApplySound, AppliedPCs, ScriptPCs, WrapperPCs
<1>5. ManagerTypeOK'
  BY <1>1, <1>3, GoesOn DEF ManagerInv, ManagerTypeOK, boundVars, Busy
<1> QED
  BY <1>1, <1>4, <1>5, GoesOn, FilesStay, NothingReported DEF ManagerInv

LEMMA ChmodScriptInv ==
    ASSUME ManagerInv, NEW p \in Processes, ChmodScript(p)
    PROVE  ManagerInv'
<1>1. /\ Busy(p) /\ "wrapper" \in PCs \ {"idle"}
      /\ edits' = edits /\ task[p].op = "apply" /\ task[p].pc = "chmodScript"
      /\ installed \in ScriptFiles /\ Sound(task[p])
      /\ UNCHANGED <<daemon, backup, state, wrapper, armed, live, original, boundVars>>
  BY DEF ChmodScript, At, Busy, boundVars, PCs, ManagerInv, ManagerTypeOK, RunsSound
<1>2. installed.text = "whole" /\ installed # NoScript
  BY <1>1, ScriptMade DEF Sound, ApplySound
<1>3. /\ Goto(p, "wrapper") /\ report' = report
      /\ installed' = [installed EXCEPT !.exec = TRUE]
  BY <1>2 DEF ChmodScript
<1>4. installed' \in ScriptFiles /\ CanRun(installed)'
  BY <1>1, <1>2, <1>3, ScriptMade DEF CanRun
<1>5. Sound(task[p])'
  BY <1>1, <1>3, <1>4, GoesOn DEF Sound, ApplySound, AppliedPCs, ScriptPCs, WrapperPCs
<1>6. ManagerTypeOK'
  BY <1>1, <1>3, <1>4, GoesOn DEF ManagerInv, ManagerTypeOK, boundVars, Busy
<1> QED
  BY <1>1, <1>3, <1>5, <1>6, GoesOn, FilesStay, NothingReported DEF ManagerInv

LEMMA WriteRollbackWrapperInv ==
    ASSUME ManagerInv, NEW p \in Processes, WriteRollbackWrapper(p)
    PROVE  ManagerInv'
<1>1. /\ Busy(p) /\ Goto(p, "fillWrapper") /\ "fillWrapper" \in PCs \ {"idle"}
      /\ edits' = edits /\ task[p].op = "apply" /\ task[p].pc = "wrapper"
      /\ report' = report /\ wrapper \in ScriptFiles
      /\ wrapper' = Emptied(wrapper, FALSE)
      /\ UNCHANGED <<daemon, backup, state, installed, armed, live, original, boundVars>>
  BY DEF WriteRollbackWrapper, At, Busy, boundVars, PCs, ManagerInv, ManagerTypeOK
<1>2. wrapper' \in ScriptFiles /\ wrapper' # NoScript
  BY <1>1, ScriptMade
<1>3. Sound(task[p])'
  BY <1>1, <1>2, GoesOn DEF Sound, ApplySound, AppliedPCs, ScriptPCs, WrapperPCs
<1>4. ManagerTypeOK'
  BY <1>1, <1>2, GoesOn DEF ManagerInv, ManagerTypeOK, boundVars, Busy
<1> QED
  BY <1>1, <1>3, <1>4, GoesOn, FilesStay, NothingReported DEF ManagerInv

LEMMA FillWrapperInv ==
    ASSUME ManagerInv, NEW p \in Processes, FillWrapper(p)
    PROVE  ManagerInv'
<1>1. /\ Busy(p) /\ Goto(p, "chmodWrapper") /\ "chmodWrapper" \in PCs \ {"idle"}
      /\ edits' = edits /\ task[p].op = "apply" /\ task[p].pc = "fillWrapper"
      /\ report' = report /\ wrapper \in ScriptFiles
      /\ wrapper' = Filled(wrapper)
      /\ UNCHANGED <<daemon, backup, state, installed, armed, live, original, boundVars>>
  BY DEF FillWrapper, At, Busy, boundVars, PCs, ManagerInv, ManagerTypeOK
<1>2. wrapper # NoScript
  BY <1>1, GoesOn DEF Sound, ApplySound
<1>3. wrapper' \in ScriptFiles /\ wrapper'.text = "whole"
  BY <1>1, <1>2, ScriptMade
<1>4. Sound(task[p])'
  BY <1>1, <1>3, GoesOn DEF Sound, ApplySound, AppliedPCs, ScriptPCs, WrapperPCs
<1>5. ManagerTypeOK'
  BY <1>1, <1>3, GoesOn DEF ManagerInv, ManagerTypeOK, boundVars, Busy
<1> QED
  BY <1>1, <1>4, <1>5, GoesOn, FilesStay, NothingReported DEF ManagerInv

LEMMA ChmodWrapperInv ==
    ASSUME ManagerInv, NEW p \in Processes, ChmodWrapper(p)
    PROVE  ManagerInv'
<1>1. /\ Busy(p) /\ "backup" \in PCs \ {"idle"}
      /\ edits' = edits /\ task[p].op = "apply" /\ task[p].pc = "chmodWrapper"
      /\ wrapper \in ScriptFiles /\ Sound(task[p])
      /\ UNCHANGED <<daemon, backup, state, installed, armed, live, original, boundVars>>
  BY DEF ChmodWrapper, At, Busy, boundVars, PCs, ManagerInv, ManagerTypeOK, RunsSound
<1>2. wrapper.text = "whole" /\ wrapper # NoScript
  BY <1>1, ScriptMade DEF Sound, ApplySound
<1>3. /\ Goto(p, "backup") /\ report' = report
      /\ wrapper' = [wrapper EXCEPT !.exec = TRUE]
  BY <1>2 DEF ChmodWrapper
<1>4. wrapper' \in ScriptFiles /\ CanRun(wrapper)'
  BY <1>1, <1>2, <1>3, ScriptMade DEF CanRun
<1>5. Sound(task[p])'
  BY <1>1, <1>3, <1>4, GoesOn DEF Sound, ApplySound, AppliedPCs, ScriptPCs, WrapperPCs
<1>6. ManagerTypeOK'
  BY <1>1, <1>3, <1>4, GoesOn DEF ManagerInv, ManagerTypeOK, boundVars, Busy
<1> QED
  BY <1>1, <1>3, <1>5, <1>6, GoesOn, FilesStay, NothingReported DEF ManagerInv

\* A new backup is made of a daemon.json that no apply has touched.
LEMMA BackupCurrentConfigOnceInv ==
    ASSUME ManagerInv, NEW p \in Processes, BackupCurrentConfigOnce(p)
    PROVE  ManagerInv'
<1>1. /\ Busy(p) /\ edits' = edits /\ report' = report
      /\ task[p].op = "apply" /\ task[p].pc = "backup"
      /\ {"copy", "read"} \subseteq PCs \ {"idle"}
  BY DEF BackupCurrentConfigOnce, At, Busy, boundVars, PCs
<1>2. /\ daemon \in Content /\ daemon.own <= edits /\ Blank \in Content
      /\ Blank.own = 0 /\ Blank.mirrors = {} /\ 0 <= edits
  BY ManagerAssumption
     DEF ManagerInv, ManagerTypeOK, FilesSound, Blank, Content
<1>3. CASE backup = {}
  <2>1. /\ GotoWith(p, "copy", daemon) /\ daemon' = daemon
        /\ backup' = {Blank} /\ original' = {}
        /\ UNCHANGED <<state, installed, wrapper, armed, live, boundVars>>
    BY <1>3 DEF BackupCurrentConfigOnce
  <2>2. daemon.mirrors \subseteq OwnMirrors
    BY <1>3 DEF ManagerInv, FilesSound, UndoIsPossible
  <2>3. Sound(task[p])'
    BY <1>1, <1>2, <2>1, <2>2, GoesOnWith
       DEF Sound, ApplySound, AppliedPCs, ScriptPCs, WrapperPCs
  <2>4. ManagerTypeOK'
    BY <1>1, <1>2, <2>1, GoesOnWith DEF ManagerInv, ManagerTypeOK, boundVars, Busy
  <2>5. FilesSound'
    BY <1>1, <1>2, <2>1, <2>2 DEF FilesSound, UndoIsPossible, OriginalKept
  <2> QED
    BY <1>1, <1>2, <2>1, <2>3, <2>4, <2>5, GoesOnWith, NothingReported DEF ManagerInv
<1>4. CASE backup # {}
  <2>1. /\ Goto(p, "read")
        /\ UNCHANGED <<fileVars, original, armed, live, boundVars>>
    BY <1>4 DEF BackupCurrentConfigOnce, fileVars
  <2>2. Sound(task[p])'
    BY <1>1, <1>4, <2>1, GoesOn
       DEF Sound, ApplySound, AppliedPCs, ScriptPCs, WrapperPCs, fileVars
  <2>3. ManagerTypeOK'
    BY <1>1, <2>1, GoesOn DEF ManagerInv, ManagerTypeOK, boundVars, fileVars, Busy
  <2>4. FilesSound'
    BY <1>1, <2>1, FilesStay DEF fileVars
  <2> QED
    BY <1>1, <2>1, <2>2, <2>3, <2>4, GoesOn, NothingReported DEF ManagerInv
<1> QED
  BY <1>3, <1>4

LEMMA FillBackupInv ==
    ASSUME ManagerInv, NEW p \in Processes, FillBackup(p)
    PROVE  ManagerInv'
<1>1. /\ Busy(p) /\ Goto(p, "read") /\ "read" \in PCs \ {"idle"}
      /\ edits' = edits /\ report' = report
      /\ task[p].op = "apply" /\ task[p].pc = "copy"
  BY DEF FillBackup, At, Busy, boundVars, PCs
<1> DEFINE h == task[p].held
<1>2. /\ backup # {} /\ h.mirrors \subseteq OwnMirrors /\ h.own <= edits
      /\ h \in Content
  BY <1>1, GoesOn DEF Sound, ApplySound, Tasks
<1>3. backup' = {h} /\ original' = {h}
  BY <1>2 DEF FillBackup
<1> HIDE DEF h
<1>4. Sound(task[p])'
  BY <1>1, <1>3, GoesOn
     DEF Sound, ApplySound, AppliedPCs, ScriptPCs, WrapperPCs, FillBackup
<1>5. ManagerTypeOK'
  BY <1>1, <1>2, <1>3, GoesOn DEF ManagerInv, ManagerTypeOK, FillBackup, boundVars, Busy
<1>6. FilesSound'
  BY <1>1, <1>2, <1>3
     DEF ManagerInv, FilesSound, UndoIsPossible, OriginalKept, FillBackup
<1> QED
  BY <1>1, <1>4, <1>5, <1>6, GoesOn, NothingReported DEF ManagerInv

LEMMA ReadDaemonJSONInv ==
    ASSUME ManagerInv, NEW p \in Processes, ReadDaemonJSON(p)
    PROVE  ManagerInv'
<1> DEFINE h == [daemon EXCEPT !.mirrors = @ \cup {task[p].mirror}]
<1>1. /\ Busy(p) /\ GotoWith(p, "write", h) /\ "write" \in PCs \ {"idle"}
      /\ edits' = edits /\ report' = report
      /\ task[p].op = "apply" /\ task[p].pc = "read"
  BY DEF ReadDaemonJSON, At, Busy, boundVars, PCs
<1>2. h \in Content /\ h.own <= edits
  BY <1>1 DEF ManagerInv, ManagerTypeOK, FilesSound, Content, Busy
<1> HIDE DEF h
<1>3. Sound(task[p])'
  BY <1>1, <1>2, GoesOnWith
     DEF Sound, ApplySound, AppliedPCs, ScriptPCs, WrapperPCs, ReadDaemonJSON, fileVars
<1>4. ManagerTypeOK'
  BY <1>1, <1>2, GoesOnWith
     DEF ManagerInv, ManagerTypeOK, ReadDaemonJSON, boundVars, fileVars, Busy
<1>5. FilesSound'
  BY <1>1, FilesStay DEF ReadDaemonJSON, fileVars
<1> QED
  BY <1>1, <1>2, <1>3, <1>4, <1>5, GoesOnWith, NothingReported DEF ManagerInv

\* Whichever command writes: an apply has a backup then, and a rollback writes
\* nothing that has to be undone.
LEMMA ReplaceDaemonJSONInv ==
    ASSUME ManagerInv, NEW p \in Processes, ReplaceDaemonJSON(p)
    PROVE  ManagerInv'
<1>1. /\ Busy(p) /\ GotoWith(p, "restart", Blank) /\ "restart" \in PCs \ {"idle"}
      /\ edits' = edits /\ report' = report /\ task[p].pc = "write"
  BY DEF ReplaceDaemonJSON, Busy, boundVars, PCs
<1>2. Blank \in Content /\ Blank.own <= edits
  BY ManagerAssumption DEF ManagerInv, ManagerTypeOK, Blank, Content
<1> DEFINE h == task[p].held
<1>3. /\ daemon' = h /\ h \in Content /\ h.own <= edits
      /\ UNCHANGED <<backup, original, state, installed, wrapper, armed, live, boundVars>>
  BY <1>1, <1>2, GoesOnWith DEF ReplaceDaemonJSON, Sound, Tasks
<1>4. ManagerTypeOK'
  BY <1>1, <1>2, <1>3, GoesOnWith DEF ManagerInv, ManagerTypeOK, boundVars, Busy
<1>5. CASE task[p].op = "apply"
  <2>1. backup # {}
    BY <1>1, <1>2, <1>5, GoesOnWith
       DEF Sound, ApplySound, AppliedPCs, ScriptPCs, WrapperPCs
  <2>2. Sound(task[p])'
    BY <1>1, <1>2, <1>3, <1>5, GoesOnWith
       DEF Sound, ApplySound, AppliedPCs, ScriptPCs, WrapperPCs
  <2>3. \A o \in original : backup = {o}
    BY <2>1 DEF ManagerInv, ManagerTypeOK, FilesSound
  <2>4. FilesSound'
    BY <1>1, <1>3, <2>1, <2>3 DEF ManagerInv, FilesSound, UndoIsPossible, OriginalKept
  <2> QED
    BY <1>1, <1>2, <1>4, <2>2, <2>4, GoesOnWith, NothingReported DEF ManagerInv
<1>6. CASE task[p].op = "rollback"
  <2>1. /\ h.mirrors \subseteq OwnMirrors
        /\ \A o \in original : h.own >= o.own
    BY <1>1, <1>2, <1>6, GoesOnWith DEF Sound, RollbackSound, RestoredPCs
  <2> HIDE DEF h
  <2>2. Sound(task[p])'
    BY <1>1, <1>2, <1>3, <1>6, <2>1, GoesOnWith DEF Sound, RollbackSound, RestoredPCs
  <2>3. FilesSound'
    BY <1>1, <1>3, <2>1 DEF ManagerInv, FilesSound, UndoIsPossible, OriginalKept
  <2> QED
    BY <1>1, <1>2, <1>4, <2>2, <2>3, GoesOnWith, NothingReported DEF ManagerInv
<1> QED
  BY <1>1, <1>2, <1>5, <1>6, GoesOnWith DEF Tasks

LEMMA RestartDockerInv ==
    ASSUME ManagerInv, NEW p \in Processes, RestartDocker(p)
    PROVE  ManagerInv'
<1>1. /\ Busy(p) /\ Goto(p, "verify") /\ "verify" \in PCs \ {"idle"}
      /\ edits' = edits /\ report' = report /\ task[p].pc = "restart"
      /\ live' = daemon.mirrors
      /\ UNCHANGED <<daemon, backup, state, installed, wrapper, armed, original, boundVars>>
  BY DEF RestartDocker, Busy, boundVars, fileVars, PCs
<1>2. ManagerTypeOK'
  BY <1>1, GoesOn DEF ManagerInv, ManagerTypeOK, Content, boundVars, Busy
<1>3. CASE task[p].op = "apply"
  <2>1. Sound(task[p])'
    BY <1>1, <1>3, GoesOn DEF Sound, ApplySound, AppliedPCs, ScriptPCs, WrapperPCs
  <2> QED
    BY <1>1, <1>2, <2>1, FilesStay, GoesOn, NothingReported DEF ManagerInv
<1>4. CASE task[p].op = "rollback"
  <2>1. Sound(task[p])'
    BY <1>1, <1>4, GoesOn DEF Sound, RollbackSound, RestoredPCs
  <2> QED
    BY <1>1, <1>2, <2>1, FilesStay, GoesOn, NothingReported DEF ManagerInv
<1> QED
  BY <1>1, <1>3, <1>4, GoesOn DEF Tasks

LEMMA FaultIs ==
    ASSUME ManagerInv, Fault
    PROVE  /\ edits' = edits /\ runs' = runs /\ faults' \in 0 .. MaxFaults
BY ManagerAssumption DEF ManagerInv, ManagerTypeOK, Fault

\* A run that ends without good news leaves nothing to show but its types.
LEMMA FailedInv ==
    ASSUME ManagerInv, NEW p \in Processes, Busy(p),
           NEW says \in {"failed", "applied"}, Ends(p, says),
           UNCHANGED <<daemon, backup, state, installed, wrapper, armed, original,
                       runs, edits>>,
           live' \subseteq Mirrors, faults' \in 0 .. MaxFaults
    PROVE  ManagerInv'
<1>1. ManagerTypeOK'
  BY Ended DEF ManagerInv, ManagerTypeOK, Busy
<1>2. Reported'
  BY Ended DEF Reported
<1> QED
  BY <1>1, <1>2, Ended, FilesStay DEF ManagerInv

LEMMA RestartFailsInv ==
    ASSUME ManagerInv, NEW p \in Processes, RestartFails(p)
    PROVE  ManagerInv'
<1>1. /\ Busy(p) /\ Ends(p, "failed") /\ live' = {} /\ Fault
      /\ UNCHANGED <<daemon, backup, state, installed, wrapper, armed, original>>
  BY DEF RestartFails, Busy, fileVars
<1> QED
  BY <1>1, FaultIs, FailedInv

LEMMA StopInv ==
    ASSUME ManagerInv, NEW p \in Processes, Stop(p)
    PROVE  ManagerInv'
<1>1. /\ Busy(p) /\ Ends(p, "failed") /\ live' = live /\ Fault
      /\ UNCHANGED <<daemon, backup, state, installed, wrapper, armed, original>>
  BY DEF Stop, fileVars
<1>2. live' \subseteq Mirrors
  BY <1>1 DEF ManagerInv, ManagerTypeOK
<1> QED
  BY <1>1, <1>2, FaultIs, FailedInv

LEMMA VerifyMirrorEnabledInv ==
    ASSUME ManagerInv, NEW p \in Processes, NEW printed,
           VerifyMirrorEnabled(p, printed), UNCHANGED <<runs, edits>>,
           faults' \in 0 .. MaxFaults
    PROVE  ManagerInv'
<1>1. /\ Busy(p) /\ task[p].op = "apply" /\ task[p].pc = "verify"
      /\ "clear" \in PCs \ {"idle"} /\ live' \subseteq Mirrors
      /\ UNCHANGED <<daemon, backup, state, installed, wrapper, armed, live, original>>
  BY DEF VerifyMirrorEnabled, At, Busy, fileVars, PCs, ManagerInv, ManagerTypeOK
<1>2. CASE Goto(p, "clear") /\ UNCHANGED report
  <2>1. Sound(task[p])'
    BY <1>1, <1>2, GoesOn DEF Sound, ApplySound, AppliedPCs, ScriptPCs, WrapperPCs
  <2>2. ManagerTypeOK'
    BY <1>1, <1>2, GoesOn DEF ManagerInv, ManagerTypeOK, Busy
  <2> QED
    BY <1>1, <1>2, <2>1, <2>2, FilesStay, GoesOn, NothingReported DEF ManagerInv
<1>3. CASE Ends(p, "failed") \/ Ends(p, "applied")
  BY <1>1, <1>3, FailedInv
<1> QED
  BY <1>2, <1>3 DEF VerifyMirrorEnabled

LEMMA ClearSchedulesInv ==
    ASSUME ManagerInv, NEW p \in Processes, ClearSchedules(p)
    PROVE  ManagerInv'
<1>1. /\ Busy(p) /\ task[p].pc = "clear" /\ armed' = FALSE
      /\ {"schedule", "restore"} \subseteq PCs \ {"idle"}
      /\ edits' = edits /\ report' = report
      /\ UNCHANGED <<daemon, backup, state, installed, wrapper, live, original, boundVars>>
  BY DEF ClearSchedules, Busy, boundVars, fileVars, PCs
<1>2. CASE task[p].op = "apply"
  <2>1. Goto(p, "schedule")
    BY <1>2 DEF ClearSchedules
  <2>2. Sound(task[p])'
    BY <1>1, <1>2, <2>1, GoesOn DEF Sound, ApplySound, AppliedPCs, ScriptPCs, WrapperPCs
  <2>3. ManagerTypeOK'
    BY <1>1, <2>1, GoesOn DEF ManagerInv, ManagerTypeOK, boundVars, Busy
  <2> QED
    BY <1>1, <2>1, <2>2, <2>3, FilesStay, GoesOn, NothingReported DEF ManagerInv
<1>3. CASE task[p].op # "apply"
  <2>1. Goto(p, "restore")
    BY <1>3 DEF ClearSchedules
  <2>2. Sound(task[p])'
    BY <1>1, <1>3, <2>1, GoesOn DEF Sound, RollbackSound, RestoredPCs
  <2>3. ManagerTypeOK'
    BY <1>1, <2>1, GoesOn DEF ManagerInv, ManagerTypeOK, boundVars, Busy
  <2> QED
    BY <1>1, <2>1, <2>2, <2>3, FilesStay, GoesOn, NothingReported DEF ManagerInv
<1> QED
  BY <1>2, <1>3

\* The run ends with the files in place that its last steps made.
LEMMA ScheduleWithSystemdInv ==
    ASSUME ManagerInv, NEW p \in Processes, ScheduleWithSystemd(p)
    PROVE  ManagerInv'
<1>1. /\ Busy(p) /\ Ends(p, "scheduled") /\ edits' = edits /\ armed' = TRUE
      /\ task[p].op = "apply" /\ task[p].pc = "schedule"
      /\ UNCHANGED <<daemon, backup, state, installed, wrapper, live, original, boundVars>>
  BY DEF ScheduleWithSystemd, At, Busy, boundVars, fileVars
<1>2. TimerCanRun /\ TimerCanRun' /\ backup # {}
  BY <1>1 DEF ManagerInv, RunsSound, Sound, ApplySound, AppliedPCs, ScriptPCs,
              WrapperPCs, TimerCanRun, CanRun
<1>3. ManagerTypeOK'
  BY <1>1, Ended DEF ManagerInv, ManagerTypeOK, boundVars, Busy
<1>4. Reported'
  BY <1>1, <1>2, Ended DEF Reported, ScheduledCanRun, RolledBackIsClean
<1> QED
  BY <1>1, <1>3, <1>4, Ended, FilesStay DEF ManagerInv

----------------------------------------------------------------------------
(* The steps of a rollback. *)

LEMMA RestoreBackupInv ==
    ASSUME ManagerInv, NEW p \in Processes, RestoreBackup(p)
    PROVE  ManagerInv'
<1>1. PICK b \in backup : GotoWith(p, "refill", b)
  BY DEF RestoreBackup
<1>2. /\ Busy(p) /\ "refill" \in PCs \ {"idle"} /\ edits' = edits
      /\ report' = report /\ task[p].op = "rollback" /\ daemon' = Blank
      /\ UNCHANGED <<backup, original, state, installed, wrapper, armed, live, boundVars>>
  BY DEF RestoreBackup, At, Busy, boundVars, PCs
<1>3. /\ b \in Content /\ b.own <= edits /\ backup = {b}
      /\ Blank \in Content /\ Blank.own = 0 /\ Blank.mirrors = {} /\ 0 <= edits
  BY ManagerAssumption DEF ManagerInv, ManagerTypeOK, FilesSound, Blank, Content
<1>4. Sound(task[p])'
  BY <1>1, <1>2, <1>3, GoesOnWith DEF Sound, RollbackSound, RestoredPCs
<1>5. ManagerTypeOK'
  BY <1>1, <1>2, <1>3, GoesOnWith DEF ManagerInv, ManagerTypeOK, boundVars, Busy
<1>6. \A o \in original : backup = {o}
  BY <1>3 DEF ManagerInv, FilesSound
<1>7. FilesSound'
  BY <1>2, <1>3, <1>6 DEF ManagerInv, FilesSound, UndoIsPossible, OriginalKept
<1> QED
  BY <1>1, <1>2, <1>3, <1>4, <1>5, <1>7, GoesOnWith, NothingReported DEF ManagerInv

LEMMA FillDaemonJSONInv ==
    ASSUME ManagerInv, NEW p \in Processes, FillDaemonJSON(p)
    PROVE  ManagerInv'
<1>1. /\ Busy(p) /\ GotoWith(p, "restart", Blank) /\ "restart" \in PCs \ {"idle"}
      /\ edits' = edits /\ report' = report
      /\ task[p].op = "rollback" /\ task[p].pc = "refill"
  BY DEF FillDaemonJSON, At, Busy, boundVars, PCs
<1>2. Blank \in Content /\ Blank.own <= edits
  BY ManagerAssumption DEF ManagerInv, ManagerTypeOK, Blank, Content
<1> DEFINE h == task[p].held
<1>3. /\ daemon' = h /\ h \in Content /\ h.own <= edits /\ backup = {h}
      /\ UNCHANGED <<backup, original, state, installed, wrapper, armed, live, boundVars>>
  BY <1>1, <1>2, GoesOnWith DEF FillDaemonJSON, Sound, RollbackSound, Tasks
<1> HIDE DEF h
<1>4. h.mirrors \subseteq OwnMirrors /\ \A o \in original : o = h
  BY <1>3 DEF ManagerInv, FilesSound, UndoIsPossible
<1>5. \A o \in original : h.own >= o.own
  BY <1>3, <1>4 DEF Content
<1>6. Sound(task[p])'
  BY <1>1, <1>2, <1>3, <1>4, <1>5, GoesOnWith DEF Sound, RollbackSound, RestoredPCs
<1>7. ManagerTypeOK'
  BY <1>1, <1>2, <1>3, GoesOnWith DEF ManagerInv, ManagerTypeOK, boundVars, Busy
<1>8. FilesSound'
  BY <1>1, <1>3, <1>4, <1>5 DEF ManagerInv, FilesSound, UndoIsPossible, OriginalKept
<1> QED
  BY <1>1, <1>2, <1>6, <1>7, <1>8, GoesOnWith, NothingReported DEF ManagerInv

LEMMA RemoveMirrorInv ==
    ASSUME ManagerInv, NEW p \in Processes, RemoveMirror(p)
    PROVE  ManagerInv'
<1>1. /\ Busy(p) /\ {"restart", "write"} \subseteq PCs \ {"idle"} /\ edits' = edits
      /\ report' = report /\ task[p].op = "rollback" /\ backup = {}
      /\ UNCHANGED <<daemon, backup, original, state, installed, wrapper, armed, live, boundVars>>
  BY DEF RemoveMirror, At, Busy, boundVars, fileVars, PCs
<1>2. /\ daemon.mirrors \subseteq OwnMirrors /\ daemon.own <= edits
      /\ \A o \in original : daemon.own >= o.own
  BY <1>1 DEF ManagerInv, FilesSound, UndoIsPossible, OriginalKept
<1>3. FilesSound'
  BY <1>1, FilesStay
<1>4. CASE Goto(p, "restart")
  <2>1. Sound(task[p])'
    BY <1>1, <1>2, <1>4, GoesOn DEF Sound, RollbackSound, RestoredPCs
  <2>2. ManagerTypeOK'
    BY <1>1, <1>4, GoesOn DEF ManagerInv, ManagerTypeOK, boundVars, Busy
  <2> QED
    BY <1>1, <1>3, <1>4, <2>1, <2>2, GoesOn, NothingReported DEF ManagerInv
<1> DEFINE h == [daemon EXCEPT !.mirrors = @ \ {task[p].mirror}]
<1>5. CASE GotoWith(p, "write", h)
  <2>1. /\ h \in Content /\ h.own = daemon.own /\ h.mirrors \subseteq OwnMirrors
    BY <1>2 DEF ManagerInv, ManagerTypeOK, Content
  <2> HIDE DEF h
  <2>2. Sound(task[p])'
    BY <1>1, <1>2, <1>5, <2>1, GoesOnWith DEF Sound, RollbackSound, RestoredPCs
  <2>3. ManagerTypeOK'
    BY <1>1, <1>2, <1>5, <2>1, GoesOnWith DEF ManagerInv, ManagerTypeOK, boundVars, Busy
  <2> QED
    BY <1>1, <1>2, <1>3, <1>5, <2>1, <2>2, <2>3, GoesOnWith, NothingReported
       DEF ManagerInv
<1> QED
  BY <1>4, <1>5 DEF RemoveMirror

\* What a rollback ends with when it reports that it is done.
LEMMA RolledBackInv ==
    ASSUME ManagerInv, NEW p \in Processes, Busy(p), Ends(p, "rolledback"),
           task[p].op = "rollback", task[p].pc \in {"verify", "rmBackup"},
           UNCHANGED <<daemon, armed, live, runs, edits>>
    PROVE  /\ RunsSound' /\ Reported'
           /\ task' \in [Processes -> Tasks] /\ report' = "rolledback"
           /\ \A q \in Processes : task'[q].pc # "idle" => task'[q].mirror \in Mirrors
<1>1. live \cup daemon.mirrors \subseteq OwnMirrors
  BY DEF ManagerInv, RunsSound, Sound, RollbackSound, RestoredPCs
<1>2. Quiet' /\ report' = "rolledback"
  BY Ended
<1>3. Reported'
  BY <1>1, <1>2 DEF Reported, RolledBackIsClean, Clean, ScheduledCanRun
<1> QED
  BY <1>2, <1>3, Ended

LEMMA VerifyMirrorDisabledInv ==
    ASSUME ManagerInv, NEW p \in Processes, NEW printed,
           VerifyMirrorDisabled(p, printed), UNCHANGED <<runs, edits>>,
           faults' \in 0 .. MaxFaults
    PROVE  ManagerInv'
<1>1. /\ Busy(p) /\ task[p].op = "rollback" /\ task[p].pc = "verify"
      /\ "rmWrapper" \in PCs \ {"idle"} /\ live' \subseteq Mirrors
      /\ UNCHANGED <<daemon, backup, state, installed, wrapper, armed, live, original>>
  BY DEF VerifyMirrorDisabled, At, Busy, fileVars, PCs, ManagerInv, ManagerTypeOK
<1>2. CASE Goto(p, "rmWrapper") /\ UNCHANGED report
  <2>1. Sound(task[p])'
    BY <1>1, <1>2, GoesOn DEF Sound, RollbackSound, RestoredPCs
  <2>2. ManagerTypeOK'
    BY <1>1, <1>2, GoesOn DEF ManagerInv, ManagerTypeOK, Busy
  <2> QED
    BY <1>1, <1>2, <2>1, <2>2, FilesStay, GoesOn, NothingReported DEF ManagerInv
<1>3. CASE Ends(p, "failed")
  BY <1>1, <1>3, FailedInv
<1>4. CASE Ends(p, "rolledback")
  <2>1. ManagerTypeOK'
    BY <1>1, <1>4, RolledBackInv DEF ManagerInv, ManagerTypeOK, Busy
  <2> QED
    BY <1>1, <1>4, <2>1, RolledBackInv, FilesStay DEF ManagerInv
<1> QED
  BY <1>2, <1>3, <1>4 DEF VerifyMirrorDisabled

LEMMA CleanupSelfFilesInv ==
    ASSUME ManagerInv, NEW p \in Processes, CleanupSelfFiles(p)
    PROVE  ManagerInv'
<1>1. /\ Busy(p) /\ task[p].op = "rollback" /\ edits' = edits
      /\ {"rmScript", "rmState", "rmBackup"} \subseteq PCs \ {"idle"}
      /\ UNCHANGED <<daemon, armed, live, original, boundVars>>
  BY DEF CleanupSelfFiles, Busy, boundVars, PCs
<1>2. ASSUME NEW pc \in {"rmScript", "rmState", "rmBackup"}, Goto(p, pc),
             task[p].pc \in {"rmWrapper", "rmScript", "rmState"},
             backup' = backup, report' = report,
             {wrapper', installed'} \subseteq ScriptFiles,
             state' \in [mirror : Mirrors \cup {NoMirror}, timed : BOOLEAN]
      PROVE  ManagerInv'
  <2>1. Sound(task[p])'
    BY <1>1, <1>2, GoesOn DEF Sound, RollbackSound, RestoredPCs
  <2>2. ManagerTypeOK'
    BY <1>1, <1>2, GoesOn DEF ManagerInv, ManagerTypeOK, boundVars, Busy
  <2> QED
    BY <1>1, <1>2, <2>1, <2>2, FilesStay, GoesOn, NothingReported DEF ManagerInv
<1>3. /\ NoState \in [mirror : Mirrors \cup {NoMirror}, timed : BOOLEAN]
      /\ NoScript \in ScriptFiles
  BY DEF NoState, NoScript, ScriptFiles
<1>4. CASE task[p].pc \in {"rmWrapper", "rmScript", "rmState"}
  BY <1>2, <1>3, <1>4 DEF CleanupSelfFiles, ManagerInv, ManagerTypeOK
<1>5. CASE task[p].pc = "rmBackup"
  <2>1. /\ Ends(p, "rolledback") /\ backup' = {}
        /\ UNCHANGED <<state, installed, wrapper>>
    BY <1>5 DEF CleanupSelfFiles
  <2>2. /\ daemon.mirrors \subseteq OwnMirrors
        /\ \A o \in original : daemon.own >= o.own
    BY <1>1, <1>5 DEF ManagerInv, RunsSound, Sound, RollbackSound, RestoredPCs
  <2>3. FilesSound'
    BY <1>1, <2>1, <2>2 DEF ManagerInv, FilesSound, UndoIsPossible, OriginalKept
  <2>4. ManagerTypeOK'
    BY <1>1, <1>5, <2>1, RolledBackInv DEF ManagerInv, ManagerTypeOK, boundVars, Busy
  <2> QED
    BY <1>1, <1>5, <2>1, <2>3, <2>4, RolledBackInv DEF ManagerInv, boundVars
<1> QED
  BY <1>4, <1>5 DEF CleanupSelfFiles

----------------------------------------------------------------------------
(* What starts a run, and what happens around the script. *)

LEMMA StartApplyInv ==
    ASSUME ~Overlap, ManagerInv, NEW m \in Mirrors, NEW timed \in BOOLEAN,
           NEW self \in BOOLEAN, StartApply(m, timed, self)
    PROVE  ManagerInv'
<1> DEFINE p == "operator"
           t == [Idle EXCEPT !.op = "apply", !.pc = "save", !.mirror = m,
                             !.timed = timed, !.self = self]
<1>1. /\ p \in Processes /\ Quiet /\ task' = [task EXCEPT ![p] = t]
      /\ self => CanRun(installed)
      /\ report' = "none" /\ state' = NoState /\ edits' = edits
      /\ runs' \in 0 .. MaxRuns
      /\ UNCHANGED <<daemon, backup, installed, wrapper, armed, live, original, faults>>
  BY ManagerAssumption
     DEF StartApply, MayStart, Processes, ManagerInv, ManagerTypeOK
<1>2. /\ t \in Tasks /\ t.pc = "save" /\ t.op = "apply" /\ t.mirror \in Mirrors
      /\ t.self = self /\ t.held.own <= edits
  <2>1. t \in Tasks /\ t.held = Idle.held
    BY IdleIs DEF Tasks, PCs
  <2> QED
    BY <2>1, IdleIs DEF Tasks, ManagerInv, ManagerTypeOK
<1> HIDE DEF p, t
<1>3. /\ task' \in [Processes -> Tasks] /\ task'[p] = t
      /\ \A q \in Processes : task'[q].pc # "idle" => task'[q].mirror \in Mirrors
      /\ Sound(task[p])' => RunsSound'
  BY <1>1, <1>2, RunMoves
<1>4. Sound(task[p])'
  BY <1>1, <1>2, <1>3 DEF Sound, ApplySound, AppliedPCs, ScriptPCs, WrapperPCs
<1>5. ManagerTypeOK'
  BY <1>1, <1>3 DEF ManagerInv, ManagerTypeOK, NoState, Busy
<1> QED
  BY <1>1, <1>3, <1>4, <1>5, FilesStay DEF ManagerInv, Reported

LEMMA BeginRollbackInv ==
    ASSUME ManagerInv, Quiet, NEW p \in Processes, NEW m \in Mirrors,
           NEW self \in BOOLEAN, BeginRollback(p, m, self),
           armed' \in BOOLEAN, runs' \in 0 .. MaxRuns,
           UNCHANGED <<daemon, backup, state, installed, wrapper, live, original,
                       edits, faults>>
    PROVE  ManagerInv'
<1> DEFINE t == [Idle EXCEPT !.op = "rollback", !.pc = "clear",
                             !.mirror = Loaded(m), !.self = self]
<1>1. task' = [task EXCEPT ![p] = t] /\ report' = "none"
  BY DEF BeginRollback
<1>2. Loaded(m) \in Mirrors
  BY DEF Loaded, ManagerInv, ManagerTypeOK
<1>3. /\ t \in Tasks /\ t.pc = "clear" /\ t.op = "rollback" /\ t.mirror \in Mirrors
      /\ t.held.own <= edits
  <2>1. t \in Tasks /\ t.held = Idle.held
    BY <1>2, IdleIs DEF Tasks, PCs
  <2> QED
    BY <1>2, <2>1, IdleIs DEF Tasks, ManagerInv, ManagerTypeOK
<1> HIDE DEF t
<1>4. /\ task' \in [Processes -> Tasks] /\ task'[p] = t
      /\ \A q \in Processes : task'[q].pc # "idle" => task'[q].mirror \in Mirrors
      /\ Sound(task[p])' => RunsSound'
  BY <1>1, <1>3, RunMoves
<1>5. Sound(task[p])'
  BY <1>3, <1>4 DEF Sound, RollbackSound, RestoredPCs
<1>6. ManagerTypeOK'
  BY <1>1, <1>4 DEF ManagerInv, ManagerTypeOK, Busy
<1> QED
  BY <1>1, <1>4, <1>5, <1>6, FilesStay DEF ManagerInv, Reported

LEMMA StartRollbackInv ==
    ASSUME ~Overlap, ManagerInv, NEW m \in Mirrors, NEW self \in BOOLEAN,
           StartRollback(m, self)
    PROVE  ManagerInv'
<1>1. /\ "operator" \in Processes /\ Quiet /\ armed' \in BOOLEAN
      /\ runs' \in 0 .. MaxRuns
  BY ManagerAssumption
     DEF StartRollback, MayStart, Processes, ManagerInv, ManagerTypeOK
<1> QED
  BY <1>1, BeginRollbackInv DEF StartRollback, fileVars

LEMMA FireInv ==
    ASSUME ~Overlap, ManagerInv, NEW m \in Mirrors, Fire(m)
    PROVE  ManagerInv'
<1>1. /\ "timer" \in Processes /\ Quiet /\ armed' = FALSE /\ ~Busy("timer")
      /\ UNCHANGED <<daemon, backup, state, installed, wrapper, live, original,
                      runs, edits, faults>>
  BY DEF Fire, Processes, fileVars, boundVars, Quiet
<1>2. CASE TimerCanRun
  <2>1. BeginRollback("timer", m, TRUE)
    BY <1>1, <1>2 DEF Fire
  <2>2. runs' \in 0 .. MaxRuns
    BY <1>1 DEF ManagerInv, ManagerTypeOK
  <2> QED
    BY <1>1, <2>1, <2>2, BeginRollbackInv
<1>3. CASE ~TimerCanRun
  <2>1. task' = task /\ report' = "none"
    BY <1>3 DEF Fire
  <2>2. Reported'
    BY <2>1 DEF Reported
  <2>3. RunsSound'
    BY <1>1, <2>1
       DEF ManagerInv, RunsSound, OneBusy, Sound, ApplySound, RollbackSound, Quiet, Busy
  <2>4. ManagerTypeOK'
    BY <1>1, <2>1 DEF ManagerInv, ManagerTypeOK, Busy
  <2> QED
    BY <1>1, <2>2, <2>3, <2>4, FilesStay DEF ManagerInv
<1> QED
  BY <1>2, <1>3

LEMMA RebootInv ==
    ASSUME ManagerInv, Reboot
    PROVE  ManagerInv'
<1>1. /\ task' = [p \in Processes |-> Idle] /\ live' = daemon.mirrors
      /\ report' = IF Quiet THEN report ELSE "failed"
      /\ UNCHANGED <<daemon, backup, state, installed, wrapper, armed, original>>
      /\ edits' = edits /\ runs' = runs /\ faults' \in 0 .. MaxFaults
  BY FaultIs DEF Reboot, fileVars
<1>2. task' \in [Processes -> Tasks] /\ \A p \in Processes : ~Busy(p)'
  BY <1>1, IdleIs DEF Busy
<1>3. RunsSound'
  <2>1. 0 <= edits
    BY DEF ManagerInv, ManagerTypeOK
  <2> QED
    BY <1>1, <1>2, <2>1, IdleIs DEF RunsSound, OneBusy, Sound
<1>4. ManagerTypeOK'
  BY <1>1, <1>2 DEF ManagerInv, ManagerTypeOK, Content
<1>5. Reported'
  BY <1>1, <1>2
     DEF ManagerInv, Reported, ScheduledCanRun, TimerCanRun, CanRun,
         RolledBackIsClean, Clean, Quiet
<1> QED
  BY <1>1, <1>3, <1>4, <1>5, FilesStay DEF ManagerInv

\* An edit makes the settings newer than any copy of them.
LEMMA EditDaemonJSONInv ==
    ASSUME ManagerInv, EditDaemonJSON
    PROVE  ManagerInv'
<1>1. /\ edits' = edits + 1 /\ edits' \in 0 .. MaxEdits /\ edits \in Nat
      /\ daemon' = [daemon EXCEPT !.own = edits + 1]
      /\ UNCHANGED <<backup, state, installed, wrapper, armed, live, task, report,
                      original, runs, faults>>
  BY ManagerAssumption DEF EditDaemonJSON, ManagerInv, ManagerTypeOK
<1>2. /\ daemon' \in Content /\ daemon'.own = edits + 1
      /\ daemon'.mirrors = daemon.mirrors
  BY <1>1 DEF ManagerInv, ManagerTypeOK, Content
<1>3. \A o \in original \cup backup : o \in Content /\ o.own <= edits
  BY DEF ManagerInv, ManagerTypeOK, FilesSound
<1>4. \A o \in original \cup backup : o.own \in Int /\ o.own <= edits + 1
  BY <1>1, <1>3 DEF Content
<1>5. FilesSound'
  BY <1>1, <1>2, <1>4 DEF ManagerInv, FilesSound, UndoIsPossible, OriginalKept
<1>6. RunsSound'
  <2>1. ASSUME NEW p \in Processes PROVE Sound(task[p])'
    <3>1. /\ task'[p] = task[p] /\ Sound(task[p]) /\ task[p].held.own \in Int
      BY <1>1 DEF ManagerInv, ManagerTypeOK, RunsSound, Tasks, Content
    <3>2. ApplySound(task[p]) => ApplySound(task[p])'
      BY <1>1, <3>1 DEF ApplySound
    <3>3. RollbackSound(task[p]) => RollbackSound(task[p])'
      BY <1>1, <1>2, <1>4, <3>1 DEF RollbackSound
    <3>4. task'[p].held.own <= edits'
      BY <1>1, <3>1 DEF Sound
    <3> QED
      BY <3>1, <3>2, <3>3, <3>4 DEF Sound
  <2> QED
    BY <1>1, <2>1 DEF ManagerInv, RunsSound, OneBusy, Busy
<1>7. ManagerTypeOK'
  BY <1>1, <1>2 DEF ManagerInv, ManagerTypeOK, Busy
<1>8. Reported'
  BY <1>1, <1>2
     DEF ManagerInv, Reported, ScheduledCanRun, TimerCanRun, CanRun,
         RolledBackIsClean, Clean, Quiet, Busy
<1> QED
  BY <1>5, <1>6, <1>7, <1>8 DEF ManagerInv

----------------------------------------------------------------------------
(* The invariant, and what follows. *)

LEMMA ManagerInitInv == ManagerInit => ManagerInv
<1> SUFFICES ASSUME ManagerInit PROVE ManagerInv
  OBVIOUS
<1>1. /\ daemon \in Content /\ daemon.own = 1 /\ daemon.mirrors = OwnMirrors
  BY ManagerAssumption DEF ManagerInit, Content
<1>2. \A p \in Processes : task[p] = Idle
  BY DEF ManagerInit
<1>3. RunsSound
  BY <1>2, IdleIs DEF ManagerInit, RunsSound, OneBusy, Sound, Busy
<1>4. ManagerTypeOK
  <2>1. task \in [Processes -> Tasks] /\ \A p \in Processes : ~Busy(p)
    BY IdleIs DEF ManagerInit, Busy
  <2>2. state \in [mirror : Mirrors \cup {NoMirror}, timed : BOOLEAN]
    BY DEF ManagerInit, NoState
  <2>3. {installed, wrapper} \subseteq ScriptFiles /\ armed \in BOOLEAN
    <3>1. NoScript \in ScriptFiles
      BY DEF NoScript, ScriptFiles
    <3> QED
      BY <3>1 DEF ManagerInit
  <2>4. runs \in 0 .. MaxRuns /\ edits \in 0 .. MaxEdits /\ faults \in 0 .. MaxFaults
    BY ManagerAssumption DEF ManagerInit
  <2>5. /\ live \subseteq Mirrors
        /\ report \in {"none", "failed", "applied", "scheduled", "rolledback"}
        /\ backup = {} /\ original = {}
    BY ManagerAssumption DEF ManagerInit
  <2> QED
    BY <1>1, <2>1, <2>2, <2>3, <2>4, <2>5 DEF ManagerTypeOK
<1>5. FilesSound
  BY <1>1 DEF ManagerInit, FilesSound, UndoIsPossible, OriginalKept
<1> QED
  BY <1>3, <1>4, <1>5 DEF ManagerInit, ManagerInv, Reported

LEMMA VerifyInv ==
    ASSUME ManagerInv, NEW p \in Processes, Verify(p)
    PROVE  ManagerInv'
<1>1. /\ UNCHANGED <<runs, edits>> /\ faults' \in 0 .. MaxFaults
  BY FaultIs DEF Verify, boundVars, ManagerInv, ManagerTypeOK
<1> QED
  BY <1>1, VerifyMirrorEnabledInv, VerifyMirrorDisabledInv DEF Verify

LEMMA StepInv ==
    ASSUME ManagerInv, NEW p \in Processes, Step(p)
    PROVE  ManagerInv'
BY SaveStateInv, InstallSelfInv, FillScriptInv, ChmodScriptInv,
   WriteRollbackWrapperInv, FillWrapperInv, ChmodWrapperInv,
   BackupCurrentConfigOnceInv, FillBackupInv, ReadDaemonJSONInv,
   ReplaceDaemonJSONInv, RestartDockerInv, VerifyInv, ClearSchedulesInv,
   ScheduleWithSystemdInv, RestoreBackupInv, FillDaemonJSONInv, RemoveMirrorInv,
   CleanupSelfFilesInv
   DEF Step

LEMMA ManagerNextInv ==
    ASSUME ~Overlap, ManagerInv, [ManagerNext]_managerVars
    PROVE  ManagerInv'
<1>1. CASE \E m \in Mirrors, timed, self \in BOOLEAN : StartApply(m, timed, self)
  BY <1>1, StartApplyInv
<1>2. CASE \E m \in Mirrors, self \in BOOLEAN : StartRollback(m, self)
  BY <1>2, StartRollbackInv
<1>3. CASE \E m \in Mirrors : Fire(m)
  BY <1>3, FireInv
<1>4. CASE \E p \in Processes : Step(p) \/ RestartFails(p) \/ Stop(p)
  BY <1>4, StepInv, RestartFailsInv, StopInv
<1>5. CASE Reboot \/ EditDaemonJSON
  BY <1>5, RebootInv, EditDaemonJSONInv
<1>6. CASE UNCHANGED managerVars
  <2>1. UNCHANGED <<daemon, backup, state, installed, wrapper, armed, live, task,
                    report, original, runs, edits, faults>>
    BY <1>6 DEF managerVars, fileVars, boundVars
  <2>2. RunsSound'
    BY <2>1 DEF ManagerInv, RunsSound, OneBusy, Busy, Sound, ApplySound, RollbackSound
  <2>3. ManagerTypeOK'
    BY <2>1 DEF ManagerInv, ManagerTypeOK, Busy
  <2>4. Reported'
    BY <2>1 DEF ManagerInv, Reported, ScheduledCanRun, TimerCanRun, CanRun,
                RolledBackIsClean, Clean, Quiet, Busy
  <2> QED
    BY <2>1, <2>2, <2>3, <2>4, FilesStay DEF ManagerInv
<1> QED
  BY <1>1, <1>2, <1>3, <1>4, <1>5, <1>6 DEF ManagerNext

LEMMA ManagerInvariance == ASSUME ~Overlap PROVE ManagerSpec => []ManagerInv
<1>1. ManagerInv /\ [ManagerNext]_managerVars => ManagerInv'
  BY ManagerNextInv
<1> QED
  BY <1>1, ManagerInitInv, PTL DEF ManagerSpec

\* The script's files and the runs have their types, and a run has a mirror.
THEOREM ManagerTypeCorrect == ASSUME ~Overlap PROVE ManagerSpec => []ManagerTypeOK
BY ManagerInvariance, PTL DEF ManagerInv

\* A mirror that apply added can be taken out again, however many applies and
\* stops there were: backup_current_config_once keeps the first backup.
THEOREM ManagerUndoIsPossible ==
    ASSUME ~Overlap PROVE ManagerSpec => []UndoIsPossible
<1>1. ManagerInv => UndoIsPossible
  BY DEF ManagerInv, FilesSound
<1> QED
  BY <1>1, ManagerInvariance, PTL

\* What was backed up whole stays in the backup or in daemon.json, also when a
\* rollback is cut off between emptying the file and filling it.
THEOREM ManagerOriginalKept ==
    ASSUME ~Overlap PROVE ManagerSpec => []OriginalKept
<1>1. ManagerInv => OriginalKept
  BY DEF ManagerInv, FilesSound
<1> QED
  BY <1>1, ManagerInvariance, PTL

\* When apply says a rollback is scheduled, it is, its scripts can run and the
\* backup is there: install_self and write_rollback_wrapper went through, whatever
\* earlier applies had left of the files.
THEOREM ManagerScheduledCanRun ==
    ASSUME ~Overlap PROVE ManagerSpec => []ScheduledCanRun
<1>1. ManagerInv => ScheduledCanRun
  BY DEF ManagerInv, Reported, ScheduledCanRun
<1> QED
  BY <1>1, ManagerInvariance, PTL

\* When rollback says it is done, no mirror that an apply added is left.
THEOREM ManagerRolledBackIsClean ==
    ASSUME ~Overlap PROVE ManagerSpec => []RolledBackIsClean
<1>1. ManagerInv => RolledBackIsClean
  BY DEF ManagerInv, Reported, RolledBackIsClean
<1> QED
  BY <1>1, ManagerInvariance, PTL
=============================================================================
