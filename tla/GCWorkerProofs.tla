--------------------------- MODULE GCWorkerProofs ---------------------------
(***************************************************************************)
(* The safety of the GC hand-off, for any number of caches and of          *)
(* concurrent activities of control.  The conjuncts of GCInv are inductive *)
(* together: each action's lemma below preserves all of them.              *)
(***************************************************************************)
EXTENDS GCWorker, SequenceTheorems, TLAPS

\* An activity that is busy has a target left, and has a file open only while
\* it requests.
CallersBusy ==
    \A c \in Callers :
        /\ caller[c].op # "idle" => caller[c].todo # <<>>
        /\ caller[c].file # "closed" => caller[c].op = "request"

\* A file that is open and linked is there for the worker to find.
LinkedIsRequested ==
    \A c \in Callers :
        caller[c].file = "linked" => Requested(Head(caller[c].todo))

\* What has been on since the run began is on now, and a mode that has been
\* on was read as on.
HeldIsOn ==
    /\ "mode" \in held => maintenanceMode
    /\ "paused" \in held => gcPaused
    /\ pc = "paused" /\ "mode" \in held => modeRead

\* A command runs, and its request is removed, for a cache there is.
CursorOnTarget == pc \in {"collect", "clear"} => cursor \in Targets

GCInv ==
    /\ GCTypeOK
    /\ CursorOnTarget
    /\ FlagsTellTruth
    /\ PauseHonoured
    /\ OwedIsRequested
    /\ CallersBusy
    /\ LinkedIsRequested
    /\ HeldIsOn

\* The lists an activity starts with are not empty.
LEMMA OrdersAreLists ==
    /\ \A s \in Orders : s \in Seq(Targets) /\ s # <<>>
    /\ ConfigOrder \in Seq(Targets) /\ ConfigOrder # <<>>
  <1>1. ASSUME NEW s \in Orders PROVE s \in Seq(Targets) /\ s # <<>>
    <2>1. PICK n \in Targets : s \in [1 .. n -> Targets]
      BY DEF Orders
    <2>2. n \in Nat /\ 1 \in 1 .. n
      BY <2>1 DEF Targets
    <2>3. s \in Seq(Targets)
      BY <2>1, <2>2
    <2>4. Len(s) = n
      BY <2>1, <2>2
    <2> QED BY <2>2, <2>3, <2>4
  <1>2. ConfigOrder \in [1 .. NTargets -> Targets] /\ NTargets \in Nat \ {0}
    BY GCAssumption DEF ConfigOrder, Targets
  <1>3. ConfigOrder \in Seq(Targets) /\ Len(ConfigOrder) = NTargets
    BY <1>2
  <1> QED BY <1>1, <1>2, <1>3
\* The cursor of a loop over the targets.
LEMMA CursorRange ==
    /\ 1 \in 1 .. NTargets + 1
    /\ \A i \in 1 .. NTargets + 1 :
         i <= NTargets => i \in Targets /\ i + 1 \in 1 .. NTargets + 1
  <1>1. NTargets \in Nat
    BY GCAssumption
  <1> QED BY <1>1 DEF Targets

\* What a run leaves behind is well typed and holds nothing.
LEMMA ForgetRunType ==
    ASSUME GCInv, ForgetRun
    PROVE  /\ cursor' \in 1 .. NTargets + 1 /\ cursor' = 1
           /\ force' \in BOOLEAN /\ gcRunning' \in BOOLEAN
           /\ pending' \in BOOLEAN /\ fallback' \in States
           /\ modeRead' \in BOOLEAN
           /\ held' = {} /\ rewritten' = FALSE
  BY CursorRange DEF ForgetRun, States

LEMMA FaultType ==
    ASSUME GCInv, Fault
    PROVE  faults' \in 0 .. MaxFaults
  BY GCAssumption DEF Fault, GCInv, GCTypeOK

LEMMA PollTargetInv ==
    ASSUME GCInv, PollTarget
    PROVE  GCInv'
  <1>1. GCTypeOK'
    BY CursorRange
       DEF PollTarget, GCInv, GCTypeOK, Targets, controlVars, runVars,
           historyVars
  <1>2. FlagsTellTruth' /\ CursorOnTarget'
    BY CursorRange
       DEF PollTarget, GCInv, GCTypeOK, FlagsTellTruth, CursorOnTarget,
           Targets, controlVars, runVars, historyVars
  <1>3. PauseHonoured' /\ HeldIsOn'
    BY CursorRange
       DEF PollTarget, GCInv, GCTypeOK, PauseHonoured, HeldIsOn, controlVars,
           runVars, historyVars
  <1>4. OwedIsRequested' /\ CallersBusy' /\ LinkedIsRequested'
    BY DEF PollTarget, GCInv, GCTypeOK, OwedIsRequested, CallersBusy,
           LinkedIsRequested, Requested, controlVars, runVars, historyVars
  <1> QED BY <1>1, <1>2, <1>3, <1>4 DEF GCInv

LEMMA PollEndInv ==
    ASSUME GCInv, PollEnd
    PROVE  GCInv'
  <1>1. GCTypeOK'
    BY CursorRange
       DEF PollEnd, GCInv, GCTypeOK, Targets, controlVars, runVars, historyVars
  <1>2. FlagsTellTruth' /\ CursorOnTarget'
    BY CursorRange
       DEF PollEnd, GCInv, GCTypeOK, FlagsTellTruth, CursorOnTarget, Targets,
           controlVars, runVars, historyVars
  <1>3. PauseHonoured' /\ HeldIsOn'
    BY CursorRange
       DEF PollEnd, GCInv, GCTypeOK, PauseHonoured, HeldIsOn, controlVars,
           runVars, historyVars
  <1>4. OwedIsRequested' /\ CallersBusy' /\ LinkedIsRequested'
    BY DEF PollEnd, GCInv, GCTypeOK, OwedIsRequested, CallersBusy,
           LinkedIsRequested, Requested, controlVars, runVars, historyVars
  <1> QED BY <1>1, <1>2, <1>3, <1>4 DEF GCInv

LEMMA BeginGCInv ==
    ASSUME GCInv, BeginGC
    PROVE  GCInv'
  <1>1. GCTypeOK'
    <2>1. pending' \in BOOLEAN
      BY DEF BeginGC, AnyRequested
    <2>2. held' \subseteq {"mode", "paused", "upstream"}
      BY DEF BeginGC, Pausing
    <2> QED BY <2>1, <2>2 DEF BeginGC, GCInv, GCTypeOK, controlVars
  <1>2. FlagsTellTruth' /\ CursorOnTarget'
    BY CursorRange
       DEF BeginGC, GCInv, GCTypeOK, FlagsTellTruth, CursorOnTarget, Targets,
           controlVars, runVars, historyVars
  <1>3. PauseHonoured' /\ HeldIsOn'
    BY CursorRange
       DEF BeginGC, GCInv, GCTypeOK, PauseHonoured, HeldIsOn, controlVars,
           runVars, historyVars, Pausing
  <1>4. OwedIsRequested' /\ CallersBusy' /\ LinkedIsRequested'
    BY DEF BeginGC, GCInv, GCTypeOK, OwedIsRequested, CallersBusy,
           LinkedIsRequested, Requested, controlVars, runVars, historyVars
  <1> QED BY <1>1, <1>2, <1>3, <1>4 DEF GCInv

LEMMA BeginFailsInv ==
    ASSUME GCInv, BeginFails
    PROVE  GCInv'
  <1>1. GCTypeOK'
    BY CursorRange, ForgetRunType, FaultType
       DEF BeginFails, GCInv, GCTypeOK, Targets, controlVars, runVars,
           historyVars, EndRun
  <1>2. FlagsTellTruth' /\ CursorOnTarget'
    BY CursorRange, ForgetRunType, FaultType
       DEF BeginFails, GCInv, GCTypeOK, FlagsTellTruth, CursorOnTarget,
           Targets, controlVars, runVars, historyVars, EndRun
  <1>3. PauseHonoured' /\ HeldIsOn'
    BY CursorRange, ForgetRunType, FaultType
       DEF BeginFails, GCInv, GCTypeOK, PauseHonoured, HeldIsOn, controlVars,
           runVars, historyVars, EndRun
  <1>4. OwedIsRequested' /\ CallersBusy' /\ LinkedIsRequested'
    BY DEF BeginFails, GCInv, GCTypeOK, OwedIsRequested, CallersBusy,
           LinkedIsRequested, Requested, controlVars, runVars, historyVars, EndRun
  <1> QED BY <1>1, <1>2, <1>3, <1>4 DEF GCInv

LEMMA ReadHealthInv ==
    ASSUME GCInv, ReadHealth
    PROVE  GCInv'
  <1>1. GCTypeOK'
    BY CursorRange
       DEF ReadHealth, GCInv, GCTypeOK, Targets, controlVars, runVars,
           historyVars, FallbackState, States
  <1>2. FlagsTellTruth' /\ CursorOnTarget'
    BY CursorRange
       DEF ReadHealth, GCInv, GCTypeOK, FlagsTellTruth, CursorOnTarget,
           Targets, controlVars, runVars, historyVars
  <1>3. PauseHonoured' /\ HeldIsOn'
    BY CursorRange
       DEF ReadHealth, GCInv, GCTypeOK, PauseHonoured, HeldIsOn, controlVars,
           runVars, historyVars
  <1>4. OwedIsRequested' /\ CallersBusy' /\ LinkedIsRequested'
    BY DEF ReadHealth, GCInv, GCTypeOK, OwedIsRequested, CallersBusy,
           LinkedIsRequested, Requested, controlVars, runVars, historyVars
  <1> QED BY <1>1, <1>2, <1>3, <1>4 DEF GCInv

LEMMA ReadModeInv ==
    ASSUME GCInv, ReadMode
    PROVE  GCInv'
  <1>1. GCTypeOK'
    BY CursorRange
       DEF ReadMode, GCInv, GCTypeOK, Targets, controlVars, runVars, historyVars
  <1>2. FlagsTellTruth' /\ CursorOnTarget'
    BY CursorRange
       DEF ReadMode, GCInv, GCTypeOK, FlagsTellTruth, CursorOnTarget, Targets,
           controlVars, runVars, historyVars
  <1>3. PauseHonoured' /\ HeldIsOn'
    BY CursorRange
       DEF ReadMode, GCInv, GCTypeOK, PauseHonoured, HeldIsOn, controlVars,
           runVars, historyVars
  <1>4. OwedIsRequested' /\ CallersBusy' /\ LinkedIsRequested'
    BY DEF ReadMode, GCInv, GCTypeOK, OwedIsRequested, CallersBusy,
           LinkedIsRequested, Requested, controlVars, runVars, historyVars
  <1> QED BY <1>1, <1>2, <1>3, <1>4 DEF GCInv

LEMMA ReadPausedAndDecideInv ==
    ASSUME GCInv, ReadPausedAndDecide
    PROVE  GCInv'
  <1>1. GCTypeOK'
    BY CursorRange, ForgetRunType
       DEF ReadPausedAndDecide, GCInv, GCTypeOK, Targets, controlVars,
           runVars, historyVars, EndRun
  <1>2. FlagsTellTruth' /\ CursorOnTarget'
    BY CursorRange, ForgetRunType
       DEF ReadPausedAndDecide, GCInv, GCTypeOK, FlagsTellTruth,
           CursorOnTarget, Targets, controlVars, runVars, historyVars, EndRun
  <1>3. PauseHonoured' /\ HeldIsOn'
    BY CursorRange, ForgetRunType
       DEF ReadPausedAndDecide, GCInv, GCTypeOK, PauseHonoured, HeldIsOn,
           controlVars, runVars, historyVars, EndRun, Skips
  <1>4. OwedIsRequested' /\ CallersBusy' /\ LinkedIsRequested'
    BY DEF ReadPausedAndDecide, GCInv, GCTypeOK, OwedIsRequested, CallersBusy,
           LinkedIsRequested, Requested, controlVars, runVars, historyVars, EndRun
  <1> QED BY <1>1, <1>2, <1>3, <1>4 DEF GCInv

LEMMA PassTargetInv ==
    ASSUME GCInv, PassTarget
    PROVE  GCInv'
  <1>1. GCTypeOK'
    BY CursorRange
       DEF PassTarget, GCInv, GCTypeOK, Targets, controlVars, runVars,
           historyVars
  <1>2. FlagsTellTruth' /\ CursorOnTarget'
    BY CursorRange
       DEF PassTarget, GCInv, GCTypeOK, FlagsTellTruth, CursorOnTarget,
           Targets, controlVars, runVars, historyVars
  <1>3. PauseHonoured' /\ HeldIsOn'
    BY CursorRange
       DEF PassTarget, GCInv, GCTypeOK, PauseHonoured, HeldIsOn, controlVars,
           runVars, historyVars
  <1>4. OwedIsRequested' /\ CallersBusy' /\ LinkedIsRequested'
    BY DEF PassTarget, GCInv, GCTypeOK, OwedIsRequested, CallersBusy,
           LinkedIsRequested, Requested, controlVars, runVars, historyVars
  <1> QED BY <1>1, <1>2, <1>3, <1>4 DEF GCInv

LEMMA StartCommandInv ==
    ASSUME GCInv, StartCommand
    PROVE  GCInv'
  <1>1. GCTypeOK'
    BY CursorRange
       DEF StartCommand, GCInv, GCTypeOK, Targets, controlVars, runVars,
           historyVars
  <1>2. FlagsTellTruth' /\ CursorOnTarget'
    BY CursorRange
       DEF StartCommand, GCInv, GCTypeOK, FlagsTellTruth, CursorOnTarget,
           Targets, controlVars, runVars, historyVars
  <1>3. PauseHonoured' /\ HeldIsOn'
    BY CursorRange
       DEF StartCommand, GCInv, GCTypeOK, PauseHonoured, HeldIsOn,
           controlVars, runVars, historyVars
  <1>4. OwedIsRequested' /\ CallersBusy' /\ LinkedIsRequested'
    BY DEF StartCommand, GCInv, GCTypeOK, OwedIsRequested, CallersBusy,
           LinkedIsRequested, Requested, controlVars, runVars, historyVars
  <1> QED BY <1>1, <1>2, <1>3, <1>4 DEF GCInv

LEMMA CommandSucceedsInv ==
    ASSUME GCInv, CommandSucceeds
    PROVE  GCInv'
  <1>1. GCTypeOK'
    BY CursorRange
       DEF CommandSucceeds, GCInv, GCTypeOK, Targets, controlVars, runVars,
           historyVars
  <1>2. FlagsTellTruth' /\ CursorOnTarget'
    BY CursorRange
       DEF CommandSucceeds, GCInv, GCTypeOK, FlagsTellTruth, CursorOnTarget,
           Targets, controlVars, runVars, historyVars
  <1>3. PauseHonoured' /\ HeldIsOn'
    BY CursorRange
       DEF CommandSucceeds, GCInv, GCTypeOK, PauseHonoured, HeldIsOn,
           controlVars, runVars, historyVars
  <1>4. OwedIsRequested' /\ CallersBusy' /\ LinkedIsRequested'
    BY DEF CommandSucceeds, GCInv, GCTypeOK, OwedIsRequested, CallersBusy,
           LinkedIsRequested, Requested, controlVars, runVars, historyVars
  <1> QED BY <1>1, <1>2, <1>3, <1>4 DEF GCInv

LEMMA CommandFailsInv ==
    ASSUME GCInv, CommandFails
    PROVE  GCInv'
  <1>1. GCTypeOK'
    BY CursorRange, ForgetRunType, FaultType
       DEF CommandFails, GCInv, GCTypeOK, Targets, controlVars, runVars,
           historyVars, EndRun
  <1>2. FlagsTellTruth' /\ CursorOnTarget'
    BY CursorRange, ForgetRunType, FaultType
       DEF CommandFails, GCInv, GCTypeOK, FlagsTellTruth, CursorOnTarget,
           Targets, controlVars, runVars, historyVars, EndRun
  <1>3. PauseHonoured' /\ HeldIsOn'
    BY CursorRange, ForgetRunType, FaultType
       DEF CommandFails, GCInv, GCTypeOK, PauseHonoured, HeldIsOn,
           controlVars, runVars, historyVars, EndRun
  <1>4. OwedIsRequested' /\ CallersBusy' /\ LinkedIsRequested'
    BY DEF CommandFails, GCInv, GCTypeOK, OwedIsRequested, CallersBusy,
           LinkedIsRequested, Requested, controlVars, runVars, historyVars, EndRun
  <1> QED BY <1>1, <1>2, <1>3, <1>4 DEF GCInv

LEMMA ClearServedInv ==
    ASSUME GCInv, ClearServed
    PROVE  GCInv'
  <1>1. GCTypeOK'
    <2>1. cursor \in Targets /\ cursor' \in 1 .. NTargets + 1
      BY CursorRange DEF ClearServed, GCInv, GCTypeOK, CursorOnTarget, Targets
    <2>2. request' \in [Targets -> Contents]
      BY DEF ClearServed, GCInv, GCTypeOK, Contents
    <2>3. caller' \in [Callers -> [op: {"idle", "request", "clear"},
                                    todo: Seq(Targets),
                                    force: BOOLEAN,
                                    file: {"closed", "linked", "unlinked"}]]
      BY DEF ClearServed, GCInv, GCTypeOK, Unlinked
    <2> QED BY <2>1, <2>2, <2>3
            DEF ClearServed, GCInv, GCTypeOK, runVars, historyVars
  <1>2. FlagsTellTruth' /\ CursorOnTarget'
    BY CursorRange
       DEF ClearServed, GCInv, GCTypeOK, FlagsTellTruth, CursorOnTarget,
           Targets, controlVars, runVars, historyVars
  <1>3. PauseHonoured' /\ HeldIsOn'
    BY CursorRange
       DEF ClearServed, GCInv, GCTypeOK, PauseHonoured, HeldIsOn, controlVars,
           runVars, historyVars
  <1>4. OwedIsRequested' /\ CallersBusy' /\ LinkedIsRequested'
    BY DEF ClearServed, GCInv, GCTypeOK, OwedIsRequested, CallersBusy,
           LinkedIsRequested, Requested, controlVars, runVars, historyVars, Unlinked
  <1> QED BY <1>1, <1>2, <1>3, <1>4 DEF GCInv

LEMMA FinishGCInv ==
    ASSUME GCInv, FinishGC
    PROVE  GCInv'
  <1>1. GCTypeOK'
    BY CursorRange, ForgetRunType
       DEF FinishGC, GCInv, GCTypeOK, Targets, controlVars, runVars,
           historyVars, EndRun
  <1>2. FlagsTellTruth' /\ CursorOnTarget'
    BY CursorRange, ForgetRunType
       DEF FinishGC, GCInv, GCTypeOK, FlagsTellTruth, CursorOnTarget, Targets,
           controlVars, runVars, historyVars, EndRun
  <1>3. PauseHonoured' /\ HeldIsOn'
    BY CursorRange, ForgetRunType
       DEF FinishGC, GCInv, GCTypeOK, PauseHonoured, HeldIsOn, controlVars,
           runVars, historyVars, EndRun
  <1>4. OwedIsRequested' /\ CallersBusy' /\ LinkedIsRequested'
    BY DEF FinishGC, GCInv, GCTypeOK, OwedIsRequested, CallersBusy,
           LinkedIsRequested, Requested, controlVars, runVars, historyVars, EndRun
  <1> QED BY <1>1, <1>2, <1>3, <1>4 DEF GCInv

LEMMA WorkerCrashInv ==
    ASSUME GCInv, WorkerCrash
    PROVE  GCInv'
  <1>1. GCTypeOK'
    BY CursorRange, ForgetRunType, FaultType
       DEF WorkerCrash, GCInv, GCTypeOK, Targets, controlVars, runVars,
           historyVars
  <1>2. FlagsTellTruth' /\ CursorOnTarget'
    BY CursorRange, ForgetRunType, FaultType
       DEF WorkerCrash, GCInv, GCTypeOK, FlagsTellTruth, CursorOnTarget,
           Targets, controlVars, runVars, historyVars
  <1>3. PauseHonoured' /\ HeldIsOn'
    BY CursorRange, ForgetRunType, FaultType
       DEF WorkerCrash, GCInv, GCTypeOK, PauseHonoured, HeldIsOn, controlVars,
           runVars, historyVars
  <1>4. OwedIsRequested' /\ CallersBusy' /\ LinkedIsRequested'
    BY DEF WorkerCrash, GCInv, GCTypeOK, OwedIsRequested, CallersBusy,
           LinkedIsRequested, Requested, controlVars, runVars, historyVars
  <1> QED BY <1>1, <1>2, <1>3, <1>4 DEF GCInv

LEMMA WorkerStartInv ==
    ASSUME GCInv, WorkerStart
    PROVE  GCInv'
  <1>1. GCTypeOK'
    BY CursorRange, ForgetRunType
       DEF WorkerStart, GCInv, GCTypeOK, Targets, controlVars, runVars,
           historyVars, EndRun
  <1>2. FlagsTellTruth' /\ CursorOnTarget'
    BY CursorRange, ForgetRunType
       DEF WorkerStart, GCInv, GCTypeOK, FlagsTellTruth, CursorOnTarget,
           Targets, controlVars, runVars, historyVars, EndRun
  <1>3. PauseHonoured' /\ HeldIsOn'
    BY CursorRange, ForgetRunType
       DEF WorkerStart, GCInv, GCTypeOK, PauseHonoured, HeldIsOn, controlVars,
           runVars, historyVars, EndRun
  <1>4. OwedIsRequested' /\ CallersBusy' /\ LinkedIsRequested'
    BY DEF WorkerStart, GCInv, GCTypeOK, OwedIsRequested, CallersBusy,
           LinkedIsRequested, Requested, controlVars, runVars, historyVars, EndRun
  <1> QED BY <1>1, <1>2, <1>3, <1>4 DEF GCInv

LEMMA SetMaintenanceModeInv ==
    ASSUME GCInv, SetMaintenanceMode
    PROVE  GCInv'
  BY DEF SetMaintenanceMode, GCInv, GCTypeOK, CursorOnTarget, FlagsTellTruth,
         PauseHonoured, HeldIsOn, OwedIsRequested, CallersBusy,
         LinkedIsRequested, Requested, runVars, historyVars

LEMMA SetGCPausedInv ==
    ASSUME GCInv, SetGCPaused
    PROVE  GCInv'
  BY DEF SetGCPaused, GCInv, GCTypeOK, CursorOnTarget, FlagsTellTruth,
         PauseHonoured, HeldIsOn, OwedIsRequested, CallersBusy,
         LinkedIsRequested, Requested, runVars, historyVars

LEMMA HealthChangesInv ==
    ASSUME GCInv, HealthChanges
    PROVE  GCInv'
  BY DEF HealthChanges, GCInv, GCTypeOK, CursorOnTarget, FlagsTellTruth,
         PauseHonoured, HeldIsOn, OwedIsRequested, CallersBusy,
         LinkedIsRequested, Requested, runVars, historyVars

LEMMA ControlCrashInv ==
    ASSUME GCInv, ControlCrash
    PROVE  GCInv'
  BY DEF ControlCrash, GCInv, GCTypeOK, CursorOnTarget, FlagsTellTruth,
         PauseHonoured, HeldIsOn, OwedIsRequested, CallersBusy,
         LinkedIsRequested, Requested, runVars, historyVars, Idle

\* An activity that goes on has a target left and no file open.
LEMMA AdvanceType ==
    ASSUME GCInv, NEW c \in Callers, caller[c].todo # <<>>
    PROVE  /\ Advance(c) \in [op: {"idle", "request", "clear"},
                               todo: Seq(Targets),
                               force: BOOLEAN,
                               file: {"closed", "linked", "unlinked"}]
           /\ Advance(c).file = "closed"
           /\ Advance(c).op # "idle" => Advance(c).todo # <<>>
           /\ Head(caller[c].todo) \in Targets
  <1> DEFINE T == caller[c].todo
  <1>1. /\ caller[c] \in [op: {"idle", "request", "clear"}, todo: Seq(Targets),
                          force: BOOLEAN, file: {"closed", "linked", "unlinked"}]
        /\ T \in Seq(Targets) /\ T # <<>>
    BY DEF GCInv, GCTypeOK
  <1>2. Head(T) \in Targets /\ Tail(T) \in Seq(Targets) /\ Len(Tail(T)) = Len(T) - 1
    BY <1>1
  <1>3. CASE Len(T) = 1
    <2>1. Advance(c) = Idle
      BY <1>3 DEF Advance
    <2>2. <<>> \in Seq(Targets)
      OBVIOUS
    <2> QED BY <1>2, <2>1, <2>2 DEF Idle
  <1>4. CASE Len(T) # 1
    <2>1. Advance(c) = [caller[c] EXCEPT !.todo = Tail(T), !.file = "closed"]
      BY <1>4 DEF Advance
    <2>2. Len(T) \in Nat /\ Len(T) # 0 /\ Len(<<>>) = 0
      BY <1>1, EmptySeq
    <2>3. Tail(T) # <<>>
      <3> HIDE DEF T
      <3> SUFFICES Len(Tail(T)) # 0
        BY <2>2
      <3> QED BY <1>2, <1>4, <2>2
    <2> QED BY <1>1, <1>2, <2>1, <2>3
  <1> QED BY <1>3, <1>4

LEMMA StartInv ==
    ASSUME GCInv, NEW c \in Callers,
           NEW op \in {"request", "clear"}, NEW f \in BOOLEAN,
           NEW order \in Seq(Targets), order # <<>>, Start(c, op, order, f)
    PROVE  GCInv'
  <1>1. GCTypeOK'
    BY DEF Start, GCInv, GCTypeOK, runVars, historyVars
  <1>2. FlagsTellTruth' /\ CursorOnTarget'
    BY DEF Start, GCInv, FlagsTellTruth, CursorOnTarget, runVars
  <1>3. PauseHonoured' /\ HeldIsOn'
    BY DEF Start, GCInv, PauseHonoured, HeldIsOn, runVars, historyVars
  <1>4. OwedIsRequested' /\ CallersBusy' /\ LinkedIsRequested'
    BY DEF Start, Idle, GCInv, GCTypeOK, OwedIsRequested, CallersBusy,
           LinkedIsRequested, Requested, runVars, historyVars
  <1> QED BY <1>1, <1>2, <1>3, <1>4 DEF GCInv

LEMMA OpenRequestInv ==
    ASSUME GCInv, NEW c \in Callers, OpenRequest(c)
    PROVE  GCInv'
  <1>0. caller[c].todo # <<>> /\ Head(caller[c].todo) \in Targets
    BY DEF OpenRequest, GCInv, GCTypeOK, CallersBusy
  <1>1. GCTypeOK'
    BY <1>0 DEF OpenRequest, Contents, GCInv, GCTypeOK, runVars, historyVars
  <1>2. FlagsTellTruth' /\ CursorOnTarget'
    BY DEF OpenRequest, GCInv, FlagsTellTruth, CursorOnTarget, runVars
  <1>3. PauseHonoured' /\ HeldIsOn'
    BY DEF OpenRequest, GCInv, PauseHonoured, HeldIsOn, runVars, historyVars
  <1>4. OwedIsRequested' /\ CallersBusy' /\ LinkedIsRequested'
    BY <1>0 DEF OpenRequest, Contents, GCInv, GCTypeOK, OwedIsRequested,
                CallersBusy,
           LinkedIsRequested, Requested, runVars, historyVars
  <1> QED BY <1>1, <1>2, <1>3, <1>4 DEF GCInv

LEMMA WriteRequestInv ==
    ASSUME GCInv, NEW c \in Callers, WriteRequest(c)
    PROVE  GCInv'
  <1>0. caller[c].todo # <<>> /\ Head(caller[c].todo) \in Targets
    BY DEF WriteRequest, GCInv, GCTypeOK, CallersBusy
  <1>1. GCTypeOK'
    BY <1>0, AdvanceType DEF WriteRequest, Contents, GCInv, GCTypeOK, runVars,
                             historyVars
  <1>2. FlagsTellTruth' /\ CursorOnTarget'
    BY DEF WriteRequest, GCInv, FlagsTellTruth, CursorOnTarget, runVars
  <1>3. PauseHonoured' /\ HeldIsOn'
    BY DEF WriteRequest, GCInv, PauseHonoured, HeldIsOn, runVars, historyVars
  <1>4. OwedIsRequested' /\ CallersBusy' /\ LinkedIsRequested'
    BY <1>0, AdvanceType DEF WriteRequest, Contents, GCInv, GCTypeOK,
                             OwedIsRequested, CallersBusy,
           LinkedIsRequested, Requested, runVars, historyVars
  <1> QED BY <1>1, <1>2, <1>3, <1>4 DEF GCInv

LEMMA ClearRequestInv ==
    ASSUME GCInv, NEW c \in Callers, ClearRequest(c)
    PROVE  GCInv'
  <1>0. caller[c].todo # <<>> /\ Head(caller[c].todo) \in Targets
    BY DEF ClearRequest, GCInv, GCTypeOK, CallersBusy
  <1> DEFINE Activity == [op: {"idle", "request", "clear"}, todo: Seq(Targets),
                         force: BOOLEAN, file: {"closed", "linked", "unlinked"}]
             t == Head(caller[c].todo)
  <1>1. GCTypeOK'
    <2>1. request' \in [Targets -> Contents] /\ owed' \subseteq Targets
      BY <1>0 DEF ClearRequest, Contents, GCInv, GCTypeOK
    <2>2. Unlinked(t) \in [Callers -> Activity]
      BY DEF Unlinked, GCInv, GCTypeOK
    <2>3. Advance(c) \in Activity
      BY <1>0, AdvanceType
    <2>4. caller' \in [Callers -> Activity]
      <3> HIDE DEF Activity
      <3> QED BY <2>2, <2>3 DEF ClearRequest
    <2> QED BY <2>1, <2>4 DEF ClearRequest, GCInv, GCTypeOK, runVars
  <1>2. FlagsTellTruth' /\ CursorOnTarget'
    BY DEF ClearRequest, GCInv, FlagsTellTruth, CursorOnTarget, runVars
  <1>3. PauseHonoured' /\ HeldIsOn'
    BY DEF ClearRequest, GCInv, PauseHonoured, HeldIsOn, runVars, historyVars
  <1>4. OwedIsRequested' /\ CallersBusy' /\ LinkedIsRequested'
    BY <1>0, AdvanceType DEF ClearRequest, Contents, Unlinked, GCInv,
                             GCTypeOK, OwedIsRequested, CallersBusy,
           LinkedIsRequested, Requested, runVars, historyVars
  <1> QED BY <1>1, <1>2, <1>3, <1>4 DEF GCInv

\* The hand-off starts with no request, no flag and the worker not yet started.
LEMMA GCInitInv == GCInit => GCInv
  <1> SUFFICES ASSUME GCInit PROVE GCInv
    OBVIOUS
  <1>1. GCTypeOK
    <2>1. caller \in [Callers -> [op: {"idle", "request", "clear"},
                                  todo: Seq(Targets),
                                  force: BOOLEAN,
                                  file: {"closed", "linked", "unlinked"}]]
      BY DEF GCInit, Idle
    <2>2. faults \in 0 .. MaxFaults
      BY GCAssumption DEF GCInit
    <2> QED BY <2>1, <2>2, GCAssumption, CursorRange
            DEF GCInit, GCTypeOK, Contents, States
  <1>2. FlagsTellTruth /\ CursorOnTarget /\ PauseHonoured /\ HeldIsOn
    BY DEF GCInit, FlagsTellTruth, CursorOnTarget, PauseHonoured, HeldIsOn
  <1>3. OwedIsRequested /\ CallersBusy /\ LinkedIsRequested
    BY DEF GCInit, OwedIsRequested, CallersBusy, LinkedIsRequested, Idle
  <1> QED BY <1>1, <1>2, <1>3 DEF GCInv

LEMMA ControlNextInv ==
    ASSUME GCInv, ControlNext
    PROVE  GCInv'
  <1>1. CASE \E c \in Callers :
               RunGC(c) \/ JanitorRequest(c) \/ HandleClearGCRequest(c)
    BY <1>1, StartInv, OrdersAreLists
       DEF RunGC, JanitorRequest, HandleClearGCRequest
  <1>2. CASE \E c \in Callers :
               OpenRequest(c) \/ WriteRequest(c) \/ ClearRequest(c)
    BY <1>2, OpenRequestInv, WriteRequestInv, ClearRequestInv
  <1>3. CASE SetMaintenanceMode \/ SetGCPaused \/ HealthChanges \/ ControlCrash
    BY <1>3, SetMaintenanceModeInv, SetGCPausedInv, HealthChangesInv, ControlCrashInv
  <1> QED BY <1>1, <1>2, <1>3 DEF ControlNext

LEMMA GCNextInv == GCInv /\ [GCNext]_gcVars => GCInv'
  <1> SUFFICES ASSUME GCInv, [GCNext]_gcVars PROVE GCInv'
    OBVIOUS
  <1>1. CASE ControlNext
    BY <1>1, ControlNextInv
  <1>2. CASE PollTarget \/ PollEnd
    BY <1>2, PollTargetInv, PollEndInv
  <1>3. CASE BeginGC \/ BeginFails \/ ReadHealth \/ ReadMode \/ ReadPausedAndDecide
    BY <1>3, BeginGCInv, BeginFailsInv, ReadHealthInv, ReadModeInv,
       ReadPausedAndDecideInv
  <1>4. CASE PassTarget \/ StartCommand \/ CommandSucceeds \/ CommandFails
    BY <1>4, PassTargetInv, StartCommandInv, CommandSucceedsInv, CommandFailsInv
  <1>5. CASE ClearServed \/ FinishGC \/ WorkerStart \/ WorkerCrash
    BY <1>5, ClearServedInv, FinishGCInv, WorkerStartInv, WorkerCrashInv
  <1>6. CASE UNCHANGED gcVars
    BY <1>6 DEF gcVars, controlVars, runVars, historyVars, GCInv, GCTypeOK,
                CursorOnTarget, FlagsTellTruth, PauseHonoured, HeldIsOn,
                OwedIsRequested, CallersBusy, LinkedIsRequested, Requested
  <1> QED BY <1>1, <1>2, <1>3, <1>4, <1>5, <1>6 DEF GCNext, WorkerNext

LEMMA GCInvariance == GCSpec => []GCInv
  BY GCInitInv, GCNextInv, PTL DEF GCSpec

\* Every variable of the hand-off keeps its type.
THEOREM GCTypeCorrect == GCSpec => []GCTypeOK
  BY GCInvariance, PTL DEF GCInv

\* The active flags say what the worker is doing, across its crashes.
THEOREM GCFlagsTellTruth == GCSpec => []FlagsTellTruth
  BY GCInvariance, PTL DEF GCInv

\* No unforced run gets past its checks under a pause that was on when it began.
THEOREM GCPauseHonoured == GCSpec => []PauseHonoured
  BY GCInvariance, PTL DEF GCInv

\* A request outlives everything but its own cache's successful command.
THEOREM GCRequestsSurvive == GCSpec => []OwedIsRequested
  BY GCInvariance, PTL DEF GCInv

----------------------------------------------------------------------------
(* The hand-off is the abstract one.  Each action below maps to an action  *)
(* of GCHandOff, or to a stuttering step, under the mapping of HandOff.    *)

Wanted == {t \in Targets : Requested(t)}
Running == IF pc = "collect" THEN {cursor} ELSE {}
Served == IF pc = "clear" THEN {cursor} ELSE {}
Clearing == \E c \in Callers : caller[c].op = "clear"

\* The mapped next-state relation, with the mapping's names.
Mapped == [HandOff!HandOffNext]_<<Wanted, Running, Served, force, Clearing>>

\* A step that leaves the files, the cursor's command and the callers alone.
LEMMA DecideMaps ==
    ASSUME UNCHANGED <<request, caller>>, force' \in BOOLEAN,
           Running = {}, Served = {}, Running' = {}, Served' = {}
    PROVE  Mapped
  <1>1. Wanted' = Wanted /\ Clearing' = Clearing
    BY DEF Wanted, Requested, Clearing
  <1>2. HandOff!Decide
    BY <1>1 DEF HandOff!Decide, Running, Served, Wanted, Clearing
  <1> QED BY <1>2 DEF Mapped, HandOff!HandOffNext

\* A step of which the hand-off sees at most that an operator's clear begins or
\* ends.
LEMMA OperatorMaps ==
    ASSUME Wanted' = Wanted, UNCHANGED <<pc, cursor, force>>
    PROVE  Mapped
  <1>1. Clearing' \in BOOLEAN
    BY DEF Clearing
  <1>2. HandOff!Operator
    BY <1>1 DEF HandOff!Operator, Running, Served, Wanted, Clearing
  <1> QED BY <1>2 DEF Mapped, HandOff!HandOffNext

LEMMA WorkerDecidesMaps ==
    ASSUME GCInv,
           \/ PollTarget \/ PollEnd \/ BeginGC \/ BeginFails \/ ReadHealth \/ ReadMode
           \/ ReadPausedAndDecide \/ PassTarget \/ FinishGC \/ WorkerStart
    PROVE  Mapped
  <1>1. pc \notin {"collect", "clear"} /\ pc' \notin {"collect", "clear"}
    BY DEF PollTarget, PollEnd, BeginGC, BeginFails, ReadHealth, ReadMode,
           ReadPausedAndDecide, PassTarget, FinishGC, WorkerStart, EndRun
  <1>2. force' \in BOOLEAN
    BY DEF GCInv, GCTypeOK, PollTarget, PollEnd, BeginGC, BeginFails, ReadHealth,
           ReadMode, ReadPausedAndDecide, PassTarget, FinishGC, WorkerStart,
           EndRun, ForgetRun
  <1>3. UNCHANGED <<request, caller>>
    BY DEF PollTarget, PollEnd, BeginGC, BeginFails, ReadHealth, ReadMode,
           ReadPausedAndDecide, PassTarget, FinishGC, WorkerStart, controlVars
  <1> QED BY <1>1, <1>2, <1>3, DecideMaps DEF Running, Served

LEMMA StartCommandMaps ==
    ASSUME GCInv, StartCommand
    PROVE  Mapped
  <1>1. cursor \in Targets /\ (cursor \in Wanted \/ force)
    BY DEF StartCommand, ShouldRun, GCInv, GCTypeOK, Targets, Wanted
  <1>2. /\ Running = {} /\ Served = {} /\ Running' = {cursor} /\ Served' = {}
        /\ force' = force
    BY DEF StartCommand, Running, Served
  <1>3. Wanted' = Wanted /\ Clearing' = Clearing
    BY DEF StartCommand, Wanted, Requested, Clearing, controlVars
  <1>4. HandOff!Begin(cursor)
    BY <1>1, <1>2, <1>3 DEF HandOff!Begin, Running, Served, Wanted, Clearing
  <1> QED BY <1>1, <1>4 DEF Mapped, HandOff!HandOffNext

LEMMA CommandSucceedsMaps ==
    ASSUME CommandSucceeds
    PROVE  Mapped
  <1>1. /\ Running = {cursor} /\ Running' = {} /\ Served' = {cursor}
        /\ force' = force
    BY DEF CommandSucceeds, Running, Served
  <1>2. Wanted' = Wanted /\ Clearing' = Clearing
    BY DEF CommandSucceeds, Wanted, Requested, Clearing, controlVars
  <1>3. HandOff!Succeed
    BY <1>1, <1>2 DEF HandOff!Succeed, Running, Served, Wanted, Clearing
  <1> QED BY <1>3 DEF Mapped, HandOff!HandOffNext

\* A command that fails and a worker that dies stop the hand-off where it is.
LEMMA StopMaps ==
    ASSUME CommandFails \/ WorkerCrash
    PROVE  Mapped
  <1>1. Running' = {} /\ Served' = {} /\ force' = FALSE
    BY DEF CommandFails, WorkerCrash, EndRun, ForgetRun, Running, Served
  <1>2. Wanted' = Wanted /\ Clearing' = Clearing
    BY DEF CommandFails, WorkerCrash, Wanted, Requested, Clearing, controlVars
  <1>3. HandOff!Stop
    BY <1>1, <1>2 DEF HandOff!Stop, Running, Served, Wanted, Clearing
  <1> QED BY <1>3 DEF Mapped, HandOff!HandOffNext

LEMMA ClearServedMaps ==
    ASSUME GCInv, ClearServed
    PROVE  Mapped
  <1>1. cursor \in Targets
    BY DEF ClearServed, GCInv, CursorOnTarget
  <1>2. Served = {cursor} /\ Served' = {} /\ Running = {} /\ Running' = {}
        /\ force' = force
    BY DEF ClearServed, Running, Served
  <1>3. Wanted' = Wanted \ {cursor}
    BY <1>1 DEF ClearServed, Wanted, Requested, GCInv, GCTypeOK
  <1>4. \A c \in Callers : caller'[c].op = caller[c].op
    BY DEF ClearServed, Unlinked, GCInv, GCTypeOK
  <1>5. Clearing' = Clearing
    BY <1>4 DEF Clearing
  <1>6. HandOff!Retire
    BY <1>2, <1>3, <1>5 DEF HandOff!Retire, Running, Served, Wanted, Clearing
  <1> QED BY <1>6 DEF Mapped, HandOff!HandOffNext

LEMMA OpenRequestMaps ==
    ASSUME GCInv, NEW c \in Callers, OpenRequest(c)
    PROVE  Mapped
  <1> DEFINE t == Head(caller[c].todo)
  <1>1. caller[c].todo \in Seq(Targets) /\ caller[c].todo # <<>>
    BY DEF OpenRequest, GCInv, GCTypeOK, CallersBusy
  <1>2. t \in Targets
    BY <1>1
  <1>3. request' = [request EXCEPT ![t] = "empty"]
    BY DEF OpenRequest
  <1> HIDE DEF t
  <1>4. Wanted' = Wanted \cup {t}
    BY <1>2, <1>3 DEF Wanted, Requested, GCInv, GCTypeOK
  <1>5. UNCHANGED <<pc, cursor, force>>
    BY DEF OpenRequest, runVars
  <1>6. \A d \in Callers : caller'[d].op = caller[d].op
    BY DEF OpenRequest, GCInv, GCTypeOK
  <1>7. Clearing' = Clearing
    BY <1>6 DEF Clearing
  <1>8. HandOff!Ask(t)
    BY <1>4, <1>5, <1>7 DEF HandOff!Ask, Running, Served, Wanted, Clearing
  <1> QED BY <1>2, <1>8 DEF Mapped, HandOff!HandOffNext

\* The second half of a write finds the request there already.
LEMMA WriteRequestMaps ==
    ASSUME GCInv, NEW c \in Callers, WriteRequest(c)
    PROVE  Mapped
  <1> DEFINE t == Head(caller[c].todo)
  <1>1. CASE caller[c].file = "linked"
    <2>1. t \in Targets /\ request[t] # "none"
      <3>1. caller[c].todo \in Seq(Targets) /\ caller[c].todo # <<>>
        BY DEF WriteRequest, GCInv, GCTypeOK, CallersBusy
      <3> QED BY <1>1, <3>1 DEF GCInv, LinkedIsRequested, Requested
    <2>2. PICK content \in {"soft", "force"} : request' = [request EXCEPT ![t] = content]
      BY <1>1 DEF WriteRequest
    <2> HIDE DEF t
    <2>3. Wanted' = Wanted /\ UNCHANGED <<pc, cursor, force>>
      BY <2>1, <2>2 DEF Wanted, Requested, GCInv, GCTypeOK, WriteRequest, runVars
    <2> QED BY <2>3, OperatorMaps
  <1>2. CASE caller[c].file # "linked"
    <2>1. request' = request
      BY <1>2 DEF WriteRequest
    <2>2. Wanted' = Wanted /\ UNCHANGED <<pc, cursor, force>>
      BY <2>1 DEF Wanted, Requested, WriteRequest, runVars
    <2> QED BY <2>2, OperatorMaps
  <1> QED BY <1>1, <1>2

LEMMA ClearRequestMaps ==
    ASSUME GCInv, NEW c \in Callers, ClearRequest(c)
    PROVE  Mapped
  <1> DEFINE t == Head(caller[c].todo)
  <1>1. t \in Targets
    <2>1. caller[c].todo \in Seq(Targets) /\ caller[c].todo # <<>>
      BY DEF ClearRequest, GCInv, GCTypeOK, CallersBusy
    <2> QED BY <2>1
  <1>2. request' = [request EXCEPT ![t] = "none"]
    BY DEF ClearRequest
  <1> HIDE DEF t
  <1>3. Wanted' = Wanted \ {t}
    BY <1>1, <1>2 DEF Wanted, Requested, GCInv, GCTypeOK
  <1>4. UNCHANGED <<pc, cursor, force>>
    BY DEF ClearRequest, runVars
  <1>5. Clearing = TRUE /\ Clearing' \in BOOLEAN
    BY DEF ClearRequest, Clearing
  <1>6. Running' = Running /\ Served' = Served /\ force' = force
    BY <1>4 DEF Running, Served
  <1>7. PICK u \in Targets : u = t
    BY <1>1
  <1>8. HandOff!Withdraw(u)
    BY <1>3, <1>5, <1>6, <1>7
       DEF HandOff!Withdraw, Running, Served, Wanted, Clearing
  <1>9. HandOff!HandOffNext
    BY <1>8 DEF HandOff!HandOffNext
  <1> QED BY <1>9 DEF Mapped

LEMMA ControlMaps ==
    ASSUME GCInv, ControlNext
    PROVE  Mapped
  <1>1. CASE \E c \in Callers :
               RunGC(c) \/ JanitorRequest(c) \/ HandleClearGCRequest(c)
    BY <1>1, OperatorMaps
       DEF RunGC, JanitorRequest, HandleClearGCRequest, Start, Wanted, Requested,
           runVars
  <1>2. CASE \E c \in Callers :
               OpenRequest(c) \/ WriteRequest(c) \/ ClearRequest(c)
    BY <1>2, OpenRequestMaps, WriteRequestMaps, ClearRequestMaps
  <1>3. CASE SetMaintenanceMode \/ SetGCPaused \/ HealthChanges \/ ControlCrash
    BY <1>3, OperatorMaps
       DEF SetMaintenanceMode, SetGCPaused, HealthChanges, ControlCrash, Wanted,
           Requested, runVars
  <1> QED BY <1>1, <1>2, <1>3 DEF ControlNext

LEMMA HandOffStep ==
    ASSUME GCInv, [GCNext]_gcVars
    PROVE  Mapped
  <1>1. CASE ControlNext
    BY <1>1, ControlMaps
  <1>2. CASE WorkerNext \/ WorkerCrash
    BY <1>2, WorkerDecidesMaps, StartCommandMaps, CommandSucceedsMaps, StopMaps,
       ClearServedMaps
       DEF WorkerNext
  <1>3. CASE UNCHANGED gcVars
    BY <1>3, OperatorMaps
       DEF gcVars, runVars, Wanted, Requested
  <1> QED BY <1>1, <1>2, <1>3 DEF GCNext

LEMMA HandOffStart ==
    ASSUME GCInit
    PROVE  HandOff!HandOffInit
  BY DEF GCInit, HandOff!HandOffInit, Requested, Idle

\* The worker and the files are a GC hand-off: whatever the polls, the writes
\* in two steps and the crashes do, a collection that was asked for is
\* forgotten only when it succeeded or an operator cleared it.
THEOREM GCIsHandOff == GCSpec => IsHandOff
  <1>1. GCInv /\ [GCNext]_gcVars => [HandOff!HandOffNext]_HandOff!handOffVars
    BY HandOffStep
       DEF Mapped, HandOff!handOffVars, Wanted, Running, Served, Clearing
  <1> QED
    BY <1>1, HandOffStart, GCInvariance, PTL
       DEF GCSpec, IsHandOff, HandOff!HandOffSpec
=============================================================================
