---------------------------- MODULE CleanupProofs ----------------------------
(***************************************************************************)
(* What TLAPS proves of Cleanup, for any caches, disks, artifacts and      *)
(* limits, and any number of changes and faults: the janitor's two callers *)
(* exclude each other, a job_runs row says running of a run under way      *)
(* only, no blob becomes garbage that nobody will ask to collect, and a    *)
(* run stops at the target.                                                *)
(*                                                                         *)
(* The types and the last need the sums over the disks (Counting), the     *)
(* last also that each cache has a disk of its own; for the others a run   *)
(* may read any storage level and need any number of bytes.                *)
(***************************************************************************)
EXTENDS Cleanup, Counting

PCs == {"idle", "health", "list", "loop", "mark", "gc", "finish"}

\* A run has candidates and caches to ask only between its listing and its
\* end, and an artifact in hand only between its deletion and its mark.
Sound(r) ==
    /\ DOMAIN r = DOMAIN Idle
    /\ r.pc \in PCs
    /\ r.pc \in {"idle", "health", "list", "finish"} => r.todo = {} /\ r.touched = {}
    /\ r.pc # "mark" => r.item = {}
    /\ \A i \in r.item : i \notin r.todo /\ \A j \in r.item : i = j

RunsSound ==
    /\ run = [c \in Callers |-> run[c]]
    /\ \A c \in Callers : Sound(run[c])

\* OneRun without the count.
OneLive ==
    /\ janitorRunning \in BOOLEAN
    /\ janitorRunning <=> \E c \in Callers : Live(c)
    /\ \A c, d \in Callers : Live(c) /\ Live(d) => c = d

RowsTyped ==
    /\ openRows \in [Callers -> Int]
    /\ faults \in Nat /\ RunningRowsLive

CleanupInv ==
    /\ RunsSound
    /\ OneLive
    /\ RowsTyped
    /\ GarbageIsKnown

----------------------------------------------------------------------------
(* Runs. *)

LEMMA IdleIs ==
    /\ Sound(Idle) /\ Idle.pc = "idle"
    /\ Idle.todo = {} /\ Idle.item = {} /\ Idle.touched = {}
BY DEF Sound, Idle, PCs

LEMMA OverIs ==
    ASSUME NEW r
    PROVE  /\ Sound(Over(r)) /\ Over(r).pc = "finish"
           /\ Over(r).todo = {} /\ Over(r).item = {} /\ Over(r).touched = {}
BY DEF Sound, Over, Idle, PCs

\* The loop goes on or ends, with nothing in hand.
LEMMA AfterItemIs ==
    ASSUME NEW r, DOMAIN r = DOMAIN Idle, NEW n
    PROVE  /\ Sound(AfterItem(r, n)) /\ AfterItem(r, n).pc \in {"loop", "gc"}
           /\ AfterItem(r, n).item = {}
           /\ AfterItem(r, n).todo = r.todo
           /\ AfterItem(r, n).touched = r.touched
<1> DEFINE s == AfterItem(r, n)
<1>1. /\ DOMAIN s = DOMAIN Idle
      /\ s.pc \in {"loop", "gc"} /\ s.item = {}
      /\ s.todo = r.todo /\ s.touched = r.touched
  BY DEF AfterItem, Idle
<1>2. Sound(s)
  BY <1>1 DEF Sound, PCs
<1> QED
  BY <1>1, <1>2

\* While one caller is at work the other is idle and holds nothing.
LEMMA OthersHoldNothing ==
    ASSUME CleanupInv, NEW c \in Callers, Live(c), NEW d \in Callers \ {c}
    PROVE  /\ ~Live(d)
           /\ run[d].todo = {} /\ run[d].item = {} /\ run[d].touched = {}
<1>1. ~Live(d)
  BY DEF CleanupInv, OneLive
<1> QED
  BY <1>1 DEF CleanupInv, RunsSound, Sound, Live

\* The garbage is known to someone: r is the run under way.
Known(i, r) ==
    \/ TargetOf[i] \in gcRequest \cup unasked
    \/ i \in indexed
    \/ TargetOf[i] \in r.touched \/ i \in r.item

LEMMA KnownToRun ==
    ASSUME CleanupInv, NEW c \in Callers, Live(c), NEW i \in onDisk \ cached
    PROVE  Known(i, run[c])
BY OthersHoldNothing DEF CleanupInv, GarbageIsKnown, Known

\* What is left to show when the caller c at work goes on as r.
LEMMA RunGoesOn ==
    ASSUME CleanupInv, NEW c \in Callers, Live(c),
           NEW r, Sound(r), r.pc # "idle",
           run' = [run EXCEPT ![c] = r],
           UNCHANGED <<janitorRunning, openRows>>,
           faults' \in Nat, faults' >= faults
    PROVE  /\ RunsSound' /\ OneLive' /\ RowsTyped'
           /\ (\A i \in onDisk' \ cached' :
                  \/ TargetOf[i] \in gcRequest' \cup unasked'
                  \/ i \in indexed'
                  \/ TargetOf[i] \in r.touched \/ i \in r.item) => GarbageIsKnown'
<1>1. /\ run' = [d \in Callers |-> run'[d]]
      /\ run'[c] = r
      /\ \A d \in Callers \ {c} : run'[d] = run[d]
  BY DEF CleanupInv, RunsSound
<1>2. RunsSound'
  BY <1>1 DEF CleanupInv, RunsSound, Sound
<1>3. \A d \in Callers : run'[d].pc # "idle" <=> run[d].pc # "idle"
  BY <1>1 DEF Live
<1>4. OneLive'
  BY <1>3 DEF CleanupInv, OneLive, Live
<1>5. RowsTyped'
  BY <1>3 DEF CleanupInv, RowsTyped, RunningRowsLive, Live
<1>8. ASSUME \A i \in onDisk' \ cached' :
                \/ TargetOf[i] \in gcRequest' \cup unasked'
                \/ i \in indexed'
                \/ TargetOf[i] \in r.touched \/ i \in r.item
      PROVE  GarbageIsKnown'
  BY <1>1, <1>8 DEF GarbageIsKnown
<1> QED
  BY <1>2, <1>4, <1>5, <1>8

\* What is left to show when no run moves.
LEMMA RunsStay ==
    ASSUME CleanupInv, UNCHANGED jobVars, faults' \in Nat, faults' >= faults
    PROVE  RunsSound' /\ OneLive' /\ RowsTyped'
<1>1. run' = run /\ janitorRunning' = janitorRunning /\ openRows' = openRows
  BY DEF jobVars
<1>2. RunsSound'
  BY <1>1 DEF CleanupInv, RunsSound, Sound
<1>3. OneLive'
  BY <1>1 DEF CleanupInv, OneLive, Live
<1>4. RowsTyped'
  BY <1>1 DEF CleanupInv, RowsTyped, RunningRowsLive, Live
<1> QED
  BY <1>2, <1>3, <1>4

\* The bounds are counted upwards.
LEMMA Counted ==
    ASSUME CleanupInv, Fault \/ Change \/ UNCHANGED boundVars
    PROVE  faults' \in Nat /\ faults' >= faults
BY DEF CleanupInv, RowsTyped, Fault, Change, boundVars

----------------------------------------------------------------------------
(* The steps of a run. *)

LEMMA BeginKeeps ==
    ASSUME CleanupInv, NEW c \in Callers, NEW dry \in BOOLEAN, NEW force \in BOOLEAN,
           Begin(c, dry, force), Change \/ UNCHANGED boundVars
    PROVE  CleanupInv'
<1> DEFINE r == [Idle EXCEPT !.pc = "health", !.dry = dry, !.force = force]
<1>1. /\ Sound(r) /\ r.pc = "health"
      /\ r.todo = {} /\ r.item = {} /\ r.touched = {}
  BY DEF Idle, Sound, PCs
<1>2. /\ ~janitorRunning /\ janitorRunning' = TRUE
      /\ openRows' = [openRows EXCEPT ![c] = @ + 1]
      /\ run' = [run EXCEPT ![c] = r]
      /\ UNCHANGED <<cached, onDisk, indexed, gcRequest, unasked>>
  BY DEF Begin, diskVars, indexVars, gcVars
<1> HIDE DEF r
<1>3. \A d \in Callers : ~Live(d)
  BY <1>2 DEF CleanupInv, OneLive
<1>4. \A d \in Callers : run[d].todo = {} /\ run[d].item = {} /\ run[d].touched = {}
  BY <1>3 DEF CleanupInv, RunsSound, Sound, Live
<1>5. /\ run' = [d \in Callers |-> run'[d]]
      /\ run'[c] = r
      /\ \A d \in Callers \ {c} : run'[d] = run[d]
  BY <1>2 DEF CleanupInv, RunsSound
<1>6. RunsSound'
  BY <1>1, <1>5 DEF CleanupInv, RunsSound, Sound
<1>7. OneLive'
  BY <1>1, <1>2, <1>3, <1>5 DEF OneLive, Live
<1>8. RowsTyped'
  <2>1. faults' \in Nat /\ faults' >= faults
    BY Counted
  <2>2. /\ openRows' \in [Callers -> Int]
        /\ openRows'[c] = openRows[c] + 1
        /\ \A d \in Callers \ {c} : openRows'[d] = openRows[d]
    BY <1>2 DEF CleanupInv, RowsTyped
  <2>3. \A d \in Callers : openRows[d] <= faults
    BY <1>3 DEF CleanupInv, RowsTyped, RunningRowsLive
  <2>4. \A d \in Callers : openRows'[d] <= (IF run'[d].pc # "idle" THEN 1 ELSE 0) + faults'
    <3>1. openRows'[c] <= 1 + faults' /\ run'[c].pc # "idle"
      BY <1>1, <1>5, <2>1, <2>2, <2>3 DEF CleanupInv, RowsTyped
    <3>2. \A d \in Callers \ {c} : openRows'[d] <= faults'
      BY <2>1, <2>2, <2>3 DEF CleanupInv, RowsTyped
    <3> QED
      BY <2>1, <2>2, <3>1, <3>2
  <2> QED
    BY <2>1, <2>2, <2>4 DEF RowsTyped, RunningRowsLive, Live
<1>10. GarbageIsKnown'
  BY <1>1, <1>2, <1>4, <1>5 DEF CleanupInv, GarbageIsKnown
<1> QED
  BY <1>6, <1>7, <1>8, <1>10 DEF CleanupInv

LEMMA DisconnectKeeps ==
    ASSUME CleanupInv, Disconnect
    PROVE  CleanupInv'
<1> DEFINE c == "console"
           r == [run[c] EXCEPT !.gone = TRUE]
<1>1. c \in Callers /\ Live(c) /\ Sound(run[c])
  BY DEF Disconnect, Callers, CleanupInv, RunsSound
<1>2. /\ Sound(r) /\ r.pc # "idle"
      /\ r.todo = run[c].todo /\ r.item = run[c].item /\ r.touched = run[c].touched
  BY <1>1 DEF Sound, Idle, Live
<1>3. run' = [run EXCEPT ![c] = r]
  BY DEF Disconnect
<1>4. UNCHANGED <<cached, onDisk, indexed, gcRequest, unasked, janitorRunning, openRows>>
  BY DEF Disconnect, diskVars, indexVars, gcVars
<1>5. faults' \in Nat /\ faults' >= faults
  BY Counted DEF Disconnect
<1> HIDE DEF c, r
<1>7. \A i \in onDisk' \ cached' :
         \/ TargetOf[i] \in gcRequest' \cup unasked'
         \/ i \in indexed'
         \/ TargetOf[i] \in r.touched \/ i \in r.item
  BY <1>1, <1>2, <1>4, KnownToRun DEF Known
<1> QED
  BY <1>1, <1>2, <1>3, <1>4, <1>5, <1>7, RunGoesOn DEF CleanupInv

LEMMA ReadStorageKeeps ==
    ASSUME CleanupInv, NEW c \in Callers, ReadStorage(c)
    PROVE  CleanupInv'
<1> DEFINE m == BelowPct(LowWatermarkPct)
           r == IF Skips(c) THEN Over(run[c])
                ELSE [run[c] EXCEPT !.pc = "list", !.force = FALSE, !.mustFree = m,
                                    !.required = IF m THEN BytesToTarget ELSE 0,
                                    !.shortage = Shortage]
<1>1. run[c].pc = "health" /\ Live(c) /\ Sound(run[c])
  BY DEF ReadStorage, Live, CleanupInv, RunsSound
<1>2. /\ Sound(r) /\ r.pc # "idle" /\ r.todo = {} /\ r.item = {} /\ r.touched = {}
  <2>1. CASE Skips(c)
    BY <2>1, OverIs
  <2>2. CASE ~Skips(c)
    BY <1>1, <2>2 DEF Sound, Idle, PCs
  <2> QED
    BY <2>1, <2>2
<1>3. run' = [run EXCEPT ![c] = r]
  BY DEF ReadStorage
<1>4. UNCHANGED <<cached, onDisk, indexed, gcRequest, unasked, janitorRunning, openRows>>
  BY DEF ReadStorage, diskVars, indexVars, gcVars
<1>5. faults' \in Nat /\ faults' >= faults
  BY Counted DEF ReadStorage
<1> HIDE DEF r
<1>6. run[c].item = {} /\ run[c].touched = {}
  BY <1>1 DEF Sound
<1>7. \A i \in onDisk' \ cached' :
         \/ TargetOf[i] \in gcRequest' \cup unasked'
         \/ i \in indexed'
         \/ TargetOf[i] \in r.touched \/ i \in r.item
  BY <1>1, <1>4, <1>6, KnownToRun DEF Known
<1> QED
  BY <1>1, <1>2, <1>3, <1>4, <1>5, <1>7, RunGoesOn DEF CleanupInv

LEMMA ListKeeps ==
    ASSUME CleanupInv, NEW c \in Callers, List(c)
    PROVE  CleanupInv'
<1>1. run[c].pc = "list" /\ Live(c) /\ Sound(run[c])
  BY DEF List, Live, CleanupInv, RunsSound
<1>2. run[c].item = {} /\ run[c].touched = {}
  BY <1>1 DEF Sound
<1>3. UNCHANGED <<cached, onDisk, indexed, gcRequest, unasked, janitorRunning, openRows>>
  BY DEF List, diskVars, indexVars, gcVars
<1>4. faults' \in Nat /\ faults' >= faults
  BY Counted DEF List
<1>5. PICK r : /\ run' = [run EXCEPT ![c] = r]
               /\ Sound(r) /\ r.pc # "idle" /\ r.todo \subseteq indexed
               /\ r.item = {} /\ r.touched = {}
  <2>1. CASE run' = [run EXCEPT ![c] = Over(@)]
    <3> DEFINE r == Over(run[c])
    <3>1. /\ run' = [run EXCEPT ![c] = r] /\ Sound(r) /\ r.pc # "idle"
          /\ r.todo = {} /\ r.item = {} /\ r.touched = {}
      BY <2>1, OverIs
    <3> HIDE DEF r
    <3> QED
      BY <3>1
  <2>2. CASE run' = [run EXCEPT ![c].pc = "loop", ![c].todo = indexed \cap unused]
    <3> DEFINE r == [run[c] EXCEPT !.pc = "loop", !.todo = indexed \cap unused]
    <3>1. run' = [run EXCEPT ![c] = r]
      BY <2>2 DEF CleanupInv, RunsSound
    <3>2. /\ Sound(r) /\ r.pc # "idle" /\ r.todo = indexed \cap unused
          /\ r.item = {} /\ r.touched = {}
      BY <1>1, <1>2 DEF Sound, Idle, PCs
    <3> HIDE DEF r
    <3> QED
      BY <3>1, <3>2
  <2> QED
    BY <2>1, <2>2 DEF List
<1>7. \A i \in onDisk' \ cached' :
         \/ TargetOf[i] \in gcRequest' \cup unasked'
         \/ i \in indexed'
         \/ TargetOf[i] \in r.touched \/ i \in r.item
  BY <1>1, <1>2, <1>3, KnownToRun DEF Known
<1> QED
  BY <1>1, <1>3, <1>4, <1>5, <1>7, RunGoesOn DEF CleanupInv

\* What a run at work on an item holds.
LEMMA WithoutIs ==
    ASSUME NEW r, DOMAIN r = DOMAIN Idle, NEW i
    PROVE  /\ DOMAIN Without(r, i) = DOMAIN Idle
           /\ Without(r, i).todo = r.todo \ {i}
           /\ Without(r, i).item = r.item
           /\ Without(r, i).touched = r.touched
BY DEF Without, Idle

LEMMA PlanItemKeeps ==
    ASSUME CleanupInv, NEW c \in Callers, NEW i \in Items, PlanItem(c, i)
    PROVE  CleanupInv'
<1> DEFINE r == AfterItem(Without(run[c], i), Size[i])
<1>1. run[c].pc = "loop" /\ Live(c) /\ Sound(run[c])
  BY DEF PlanItem, Working, Live, CleanupInv, RunsSound
<1>2. /\ Sound(r) /\ r.pc # "idle" /\ r.item = {}
      /\ r.todo = run[c].todo \ {i} /\ r.touched = run[c].touched
  BY <1>1, WithoutIs, AfterItemIs DEF Sound
<1>3. run' = [run EXCEPT ![c] = r]
  BY DEF PlanItem
<1>4. UNCHANGED <<cached, onDisk, indexed, gcRequest, unasked, janitorRunning, openRows>>
  BY DEF PlanItem, diskVars, indexVars, gcVars
<1>5. faults' \in Nat /\ faults' >= faults
  BY Counted DEF PlanItem
<1> HIDE DEF r
<1>7. \A j \in onDisk' \ cached' :
         \/ TargetOf[j] \in gcRequest' \cup unasked'
         \/ j \in indexed'
         \/ TargetOf[j] \in r.touched \/ j \in r.item
  BY <1>1, <1>2, <1>4, KnownToRun DEF Known, Sound
<1> QED
  BY <1>1, <1>2, <1>3, <1>4, <1>5, <1>7, RunGoesOn DEF CleanupInv

\* The artifact that becomes garbage is in hand.
LEMMA DeleteManifestKeeps ==
    ASSUME CleanupInv, NEW c \in Callers, NEW i \in Items, DeleteManifest(c, i)
    PROVE  CleanupInv'
<1> DEFINE r == [Without(run[c], i) EXCEPT !.pc = "mark", !.item = {i}]
<1>1. run[c].pc = "loop" /\ Live(c) /\ Sound(run[c])
  BY DEF DeleteManifest, Working, Live, CleanupInv, RunsSound
<1>2. /\ DOMAIN r = DOMAIN Idle /\ r.pc = "mark" /\ r.item = {i}
      /\ r.todo = run[c].todo \ {i} /\ r.touched = run[c].touched
  BY <1>1 DEF Without, Idle, Sound
<1>3. run' = [run EXCEPT ![c] = r]
  BY DEF DeleteManifest
<1>4. /\ cached' = cached \ {i}
      /\ UNCHANGED <<onDisk, indexed, gcRequest, unasked, janitorRunning, openRows>>
  BY DEF DeleteManifest, indexVars, gcVars
<1>5. faults' \in Nat /\ faults' >= faults
  BY Counted DEF DeleteManifest
<1> HIDE DEF r
<1>8. Sound(r) /\ r.pc # "idle"
  BY <1>2 DEF Sound, PCs
<1>7. \A j \in onDisk' \ cached' :
         \/ TargetOf[j] \in gcRequest' \cup unasked'
         \/ j \in indexed'
         \/ TargetOf[j] \in r.touched \/ j \in r.item
  BY <1>1, <1>2, <1>4, KnownToRun DEF Known, Sound
<1> QED
  BY <1>1, <1>3, <1>4, <1>5, <1>7, <1>8, RunGoesOn DEF CleanupInv

\* One whose deletion was carried out and not answered is still listed, or the
\* request counts as lost.
LEMMA DeleteManifestFailsKeeps ==
    ASSUME CleanupInv, NEW c \in Callers, NEW i \in Items, DeleteManifestFails(c, i)
    PROVE  CleanupInv'
<1> DEFINE r == AfterItem(Without(run[c], i), 0)
<1>1. run[c].pc = "loop" /\ Live(c) /\ Sound(run[c]) /\ i \in run[c].todo
  BY DEF DeleteManifestFails, Working, Next1st, Live, CleanupInv, RunsSound
<1>2. /\ Sound(r) /\ r.pc # "idle" /\ r.item = {}
      /\ r.todo = run[c].todo \ {i} /\ r.touched = run[c].touched
  BY <1>1, WithoutIs, AfterItemIs DEF Sound
<1>3. run' = [run EXCEPT ![c] = r]
  BY DEF DeleteManifestFails
<1>4. /\ cached' \in {cached, cached \ {i}}
      /\ unasked' = unasked \cup {TargetOf[j] : j \in (cached \ cached') \ indexed}
      /\ UNCHANGED <<onDisk, indexed, gcRequest, janitorRunning, openRows>>
  BY DEF DeleteManifestFails, indexVars, gcVars
<1>5. faults' \in Nat /\ faults' >= faults
  BY Counted DEF DeleteManifestFails
<1> HIDE DEF r
<1>7. ASSUME NEW j \in onDisk' \ cached'
      PROVE  \/ TargetOf[j] \in gcRequest' \cup unasked'
             \/ j \in indexed'
             \/ TargetOf[j] \in r.touched \/ j \in r.item
  <2>1. CASE j \in cached
    BY <1>4, <1>7, <2>1
  <2>2. CASE j \notin cached
    BY <1>1, <1>2, <1>4, <1>7, <2>2, KnownToRun DEF Known, Sound
  <2> QED
    BY <2>1, <2>2
<1> QED
  BY <1>1, <1>2, <1>3, <1>4, <1>5, <1>7, RunGoesOn DEF CleanupInv

\* The row goes, and its cache is among those to ask.
LEMMA MarkItemKeeps ==
    ASSUME CleanupInv, NEW c \in Callers, NEW i \in Items, MarkItem(c, i)
    PROVE  CleanupInv'
<1> DEFINE q == Touching(run[c], TargetOf[i])
           r == AfterItem(q, Size[i])
<1>1. run[c].pc = "mark" /\ Live(c) /\ Sound(run[c]) /\ i \in run[c].item
  BY DEF MarkItem, Live, CleanupInv, RunsSound
<1>2. /\ DOMAIN q = DOMAIN Idle /\ q.todo = run[c].todo
      /\ q.touched = run[c].touched \cup {TargetOf[i]}
  BY <1>1 DEF Sound, Idle, Touching
<1>9. run' = [run EXCEPT ![c] = r]
  BY DEF MarkItem
<1> HIDE DEF q
<1>3. /\ Sound(r) /\ r.pc # "idle" /\ r.item = {}
      /\ r.todo = run[c].todo /\ r.touched = run[c].touched \cup {TargetOf[i]}
  BY <1>2, AfterItemIs
<1>4. /\ indexed' = indexed \ {i}
      /\ UNCHANGED <<cached, onDisk, gcRequest, unasked, janitorRunning, openRows>>
  BY DEF MarkItem, diskVars, gcVars
<1>5. faults' \in Nat /\ faults' >= faults
  BY Counted DEF MarkItem
<1> HIDE DEF r
<1>7. ASSUME NEW j \in onDisk' \ cached'
      PROVE  \/ TargetOf[j] \in gcRequest' \cup unasked'
             \/ j \in indexed'
             \/ TargetOf[j] \in r.touched \/ j \in r.item
  <2>1. Known(j, run[c])
    BY <1>1, <1>4, KnownToRun
  <2>2. j \in run[c].item => j = i
    BY <1>1 DEF Sound
  <2> QED
    BY <1>3, <1>4, <2>1, <2>2 DEF Known
<1> QED
  BY <1>1, <1>3, <1>4, <1>5, <1>7, <1>9, RunGoesOn DEF CleanupInv

\* The row is still listed, or the request is counted as lost.
LEMMA MarkItemFailsKeeps ==
    ASSUME CleanupInv, NEW c \in Callers, MarkItemFails(c)
    PROVE  CleanupInv'
<1> DEFINE r == AfterItem(run[c], 0)
<1>1. run[c].pc = "mark" /\ Live(c) /\ Sound(run[c])
  BY DEF MarkItemFails, Live, CleanupInv, RunsSound
<1>2. /\ Sound(r) /\ r.pc # "idle" /\ r.item = {}
      /\ r.todo = run[c].todo /\ r.touched = run[c].touched
  BY <1>1, AfterItemIs DEF Sound
<1>3. run' = [run EXCEPT ![c] = r]
  BY DEF MarkItemFails
<1>4. /\ unasked' = unasked \cup DoneByEvent(c)
      /\ UNCHANGED <<cached, onDisk, indexed, gcRequest, janitorRunning, openRows>>
  BY DEF MarkItemFails, diskVars, indexVars, gcVars
<1>5. faults' \in Nat /\ faults' >= faults
  BY Counted DEF MarkItemFails
<1> HIDE DEF r
<1>7. ASSUME NEW j \in onDisk' \ cached'
      PROVE  \/ TargetOf[j] \in gcRequest' \cup unasked'
             \/ j \in indexed'
             \/ TargetOf[j] \in r.touched \/ j \in r.item
  <2>1. Known(j, run[c])
    BY <1>1, <1>4, KnownToRun
  <2>2. j \in run[c].item /\ j \notin indexed => TargetOf[j] \in unasked'
    BY <1>4 DEF DoneByEvent
  <2> QED
    BY <1>2, <1>4, <2>1, <2>2 DEF Known
<1> QED
  BY <1>1, <1>2, <1>3, <1>4, <1>5, <1>7, RunGoesOn DEF CleanupInv

LEMMA EndLoopKeeps ==
    ASSUME CleanupInv, NEW c \in Callers, EndLoop(c)
    PROVE  CleanupInv'
<1> DEFINE r == [run[c] EXCEPT !.pc = "gc"]
<1>1. run[c].pc = "loop" /\ Live(c) /\ Sound(run[c])
  BY DEF EndLoop, Live, CleanupInv, RunsSound
<1>2. /\ Sound(r) /\ r.pc # "idle" /\ r.item = {}
      /\ r.todo = run[c].todo /\ r.touched = run[c].touched
  BY <1>1 DEF Sound, Idle, PCs
<1>3. run' = [run EXCEPT ![c] = r]
  BY DEF EndLoop
<1>4. UNCHANGED <<cached, onDisk, indexed, gcRequest, unasked, janitorRunning, openRows>>
  BY DEF EndLoop, diskVars, indexVars, gcVars
<1>5. faults' \in Nat /\ faults' >= faults
  BY Counted DEF EndLoop
<1> HIDE DEF r
<1>7. \A j \in onDisk' \ cached' :
         \/ TargetOf[j] \in gcRequest' \cup unasked'
         \/ j \in indexed'
         \/ TargetOf[j] \in r.touched \/ j \in r.item
  BY <1>1, <1>2, <1>4, KnownToRun DEF Known, Sound
<1> QED
  BY <1>1, <1>2, <1>3, <1>4, <1>5, <1>7, RunGoesOn DEF CleanupInv

\* Every cache something was removed from is asked, or counted as lost.
LEMMA RequestGCKeeps ==
    ASSUME CleanupInv, NEW c \in Callers, RequestGC(c)
    PROVE  CleanupInv'
<1> DEFINE r == Over(run[c])
<1>1. run[c].pc = "gc" /\ Live(c) /\ Sound(run[c])
  BY DEF RequestGC, Live, CleanupInv, RunsSound
<1>2. /\ Sound(r) /\ r.pc # "idle" /\ r.todo = {} /\ r.item = {} /\ r.touched = {}
  BY OverIs
<1>3. run' = [run EXCEPT ![c] = r]
  BY DEF RequestGC
<1>4. UNCHANGED <<cached, onDisk, indexed, janitorRunning, openRows>>
  BY DEF RequestGC, diskVars, indexVars
<1>8. gcRequest' \cup unasked' = gcRequest \cup unasked \cup run[c].touched
  <2>1. PICK failed \in SUBSET run[c].touched :
           /\ gcRequest' = gcRequest \cup (run[c].touched \ failed)
           /\ unasked' = unasked \cup failed
    BY DEF RequestGC
  <2> QED
    BY <2>1
<1>5. faults' \in Nat /\ faults' >= faults
  BY Counted DEF RequestGC
<1> HIDE DEF r
<1>7. \A j \in onDisk' \ cached' :
         \/ TargetOf[j] \in gcRequest' \cup unasked'
         \/ j \in indexed'
         \/ TargetOf[j] \in r.touched \/ j \in r.item
  BY <1>1, <1>4, <1>8, KnownToRun DEF Known, Sound
<1> QED
  BY <1>1, <1>2, <1>3, <1>4, <1>5, <1>7, RunGoesOn DEF CleanupInv

\* What is left to show when every run comes to its end or is cut off: the
\* rows, and that what the runs held is known to others.
LEMMA RunsEnd ==
    ASSUME CleanupInv, run' = [c \in Callers |-> Idle], janitorRunning' = FALSE
    PROVE  RunsSound' /\ OneLive'
           /\ \A c \in Callers : run'[c].pc = "idle"
<1>1. \A c \in Callers : run'[c] = Idle
  OBVIOUS
<1>2. RunsSound'
  BY <1>1, IdleIs DEF RunsSound, Sound
<1>3. OneLive'
  BY <1>1, IdleIs DEF OneLive, Live
<1> QED
  BY <1>1, <1>2, <1>3, IdleIs

LEMMA FinishKeeps ==
    ASSUME CleanupInv, NEW c \in Callers, Finish(c)
    PROVE  CleanupInv'
<1>1. run[c].pc = "finish" /\ Live(c) /\ Sound(run[c])
  BY DEF Finish, Live, CleanupInv, RunsSound
<1>2. /\ janitorRunning' = FALSE /\ run' = [run EXCEPT ![c] = Idle]
      /\ UNCHANGED <<cached, onDisk, indexed, gcRequest, unasked>>
      /\ \/ openRows' = [openRows EXCEPT ![c] = @ - 1] /\ UNCHANGED boundVars
         \/ UNCHANGED openRows /\ faults' = faults + 1
  BY DEF Finish, Fault, diskVars, indexVars, gcVars
<1>3. /\ run' = [d \in Callers |-> run'[d]] /\ run'[c] = Idle
      /\ \A d \in Callers \ {c} : run'[d] = run[d] /\ ~Live(d)
  BY <1>1, <1>2, OthersHoldNothing DEF CleanupInv, RunsSound
<1>4. RunsSound'
  BY <1>3, IdleIs DEF CleanupInv, RunsSound, Sound
<1>5. \A d \in Callers : run'[d].pc = "idle"
  BY <1>3, IdleIs DEF Live
<1>6. OneLive'
  BY <1>2, <1>5 DEF OneLive, Live
<1>7. RowsTyped'
  <2>1. \A d \in Callers : openRows[d] <= (IF d = c THEN 1 ELSE 0) + faults
    BY <1>1, <1>3 DEF CleanupInv, RowsTyped, RunningRowsLive
  <2>2. CASE openRows' = [openRows EXCEPT ![c] = @ - 1] /\ faults' = faults
    <3>1. /\ openRows' \in [Callers -> Int] /\ openRows'[c] = openRows[c] - 1
          /\ \A d \in Callers \ {c} : openRows'[d] = openRows[d]
      BY <2>2 DEF CleanupInv, RowsTyped
    <3>2. \A d \in Callers : openRows'[d] <= faults'
      BY <2>1, <2>2, <3>1 DEF CleanupInv, RowsTyped
    <3> QED
      BY <1>5, <2>2, <3>1, <3>2 DEF CleanupInv, RowsTyped, RunningRowsLive, Live
  <2>3. CASE openRows' = openRows /\ faults' = faults + 1
    <3>1. \A d \in Callers : openRows'[d] <= faults'
      BY <2>1, <2>3 DEF CleanupInv, RowsTyped
    <3> QED
      BY <1>5, <2>3, <3>1 DEF CleanupInv, RowsTyped, RunningRowsLive, Live
  <2> QED
    BY <1>2, <2>2, <2>3 DEF boundVars
<1>9. GarbageIsKnown'
  <2>1. \A j \in onDisk \ cached :
           TargetOf[j] \in gcRequest \cup unasked \/ j \in indexed
    BY <1>1, KnownToRun DEF Known, Sound
  <2> QED
    BY <1>2, <2>1 DEF GarbageIsKnown
<1> QED
  BY <1>4, <1>6, <1>7, <1>9 DEF CleanupInv

\* What a run held when the process died is counted as lost.
LEMMA CrashKeeps ==
    ASSUME CleanupInv, Crash
    PROVE  CleanupInv'
<1>1. /\ janitorRunning' = FALSE /\ run' = [c \in Callers |-> Idle]
      /\ unasked' = unasked \cup UNION {run[c].touched \cup DoneByEvent(c) : c \in Callers}
      /\ UNCHANGED <<cached, onDisk, indexed, gcRequest, openRows>>
      /\ faults' = faults + 1
  BY DEF Crash, Fault, diskVars, indexVars, gcVars
<1>2. /\ RunsSound' /\ OneLive'
      /\ \A c \in Callers : run'[c].pc = "idle"
  BY <1>1, RunsEnd
<1>3. RowsTyped'
  <2>1. \A d \in Callers : openRows[d] <= faults + 1
    BY DEF CleanupInv, RowsTyped, RunningRowsLive
  <2> QED
    BY <1>1, <1>2, <2>1 DEF CleanupInv, RowsTyped, RunningRowsLive, Live
<1>4. GarbageIsKnown'
  <2> SUFFICES ASSUME NEW j \in onDisk \ cached
               PROVE  TargetOf[j] \in gcRequest \cup unasked' \/ j \in indexed
    BY <1>1 DEF GarbageIsKnown
  <2>1. \/ TargetOf[j] \in gcRequest \cup unasked
        \/ j \in indexed
        \/ \E c \in Callers : TargetOf[j] \in run[c].touched \/ j \in run[c].item
    BY DEF CleanupInv, GarbageIsKnown
  <2>2. ASSUME NEW c \in Callers, TargetOf[j] \in run[c].touched \/ j \in run[c].item,
               j \notin indexed
        PROVE  TargetOf[j] \in run[c].touched \cup DoneByEvent(c)
    BY <2>2 DEF DoneByEvent
  <2> QED
    BY <1>1, <2>1, <2>2
<1> QED
  BY <1>2, <1>3, <1>4 DEF CleanupInv

----------------------------------------------------------------------------
(* The steps of the others. *)

LEMMA PullKeeps ==
    ASSUME CleanupInv, NEW i \in Items, Pull(i)
    PROVE  CleanupInv'
<1>1. /\ cached' = cached \cup {i} /\ onDisk' = onDisk \cup {i}
      /\ UNCHANGED <<indexed, jobVars, gcRequest, unasked>> /\ run' = run
  BY DEF Pull, RecordPull, indexVars, gcVars, jobVars
<1>2. RunsSound' /\ OneLive' /\ RowsTyped'
  BY <1>1, Counted, RunsStay DEF Pull
<1>4. GarbageIsKnown'
  BY <1>1 DEF CleanupInv, GarbageIsKnown
<1> QED
  BY <1>2, <1>4 DEF CleanupInv

\* A last use or the health of a cache or a volume changes: nothing here
\* depends on it.
LEMMA OutsideKeeps ==
    ASSUME CleanupInv, Weather \/ \E i \in Items : FallsUnused(i)
    PROVE  CleanupInv'
<1>1. UNCHANGED <<cached, onDisk, indexed, jobVars, gcRequest, unasked>> /\ run' = run
  BY DEF Weather, FallsUnused, diskVars, indexVars, gcVars, jobVars
<1>2. faults' \in Nat /\ faults' >= faults
  BY Counted DEF Weather, FallsUnused
<1>3. RunsSound' /\ OneLive' /\ RowsTyped'
  BY <1>1, <1>2, RunsStay
<1>5. GarbageIsKnown'
  BY <1>1 DEF CleanupInv, GarbageIsKnown
<1> QED
  BY <1>3, <1>5 DEF CleanupInv

LEMMA DeleteEventKeeps ==
    ASSUME CleanupInv, NEW i \in Items, DeleteEvent(i)
    PROVE  CleanupInv'
<1>1. /\ i \in indexed \ cached /\ indexed' = indexed \ {i}
      /\ UNCHANGED <<cached, onDisk, jobVars, gcRequest, boundVars>> /\ run' = run
  BY DEF DeleteEvent, diskVars, gcVars, jobVars
<1>2. unasked' = IF \E c \in Callers : i \in run[c].item THEN unasked
                 ELSE unasked \cup {TargetOf[i]}
  BY DEF DeleteEvent
<1>3. RunsSound' /\ OneLive' /\ RowsTyped'
  BY <1>1, Counted, RunsStay
<1>5. GarbageIsKnown'
  BY <1>1, <1>2 DEF CleanupInv, GarbageIsKnown
<1> QED
  BY <1>3, <1>5 DEF CleanupInv

LEMMA ListingKeeps ==
    ASSUME CleanupInv, NEW i \in Items, CatalogSync(i) \/ RecordPush(i)
    PROVE  CleanupInv'
<1>1. /\ indexed' = indexed \cup {i}
      /\ UNCHANGED <<cached, onDisk, jobVars, gcRequest, unasked>> /\ run' = run
  BY DEF CatalogSync, RecordPush, diskVars, gcVars, jobVars
<1>2. RunsSound' /\ OneLive' /\ RowsTyped'
  BY <1>1, Counted, RunsStay DEF CatalogSync, RecordPush
<1>4. GarbageIsKnown'
  BY <1>1 DEF CleanupInv, GarbageIsKnown
<1> QED
  BY <1>2, <1>4 DEF CleanupInv

\* A collection takes a request away only with all garbage there was, or what
\* came later is counted as lost.
LEMMA CollectionKeeps ==
    ASSUME CleanupInv, NEW t \in Targets, GCNext(t)
    PROVE  CleanupInv'
<1>1. UNCHANGED <<cached, indexed, jobVars>> /\ run' = run
  BY DEF GCNext, CollectBegins, CollectEnds, CollectFails, diskVars, indexVars, jobVars
<1>2. faults' \in Nat /\ faults' >= faults
  BY Counted DEF GCNext, CollectBegins, CollectEnds, CollectFails
<1>3. RunsSound' /\ OneLive' /\ RowsTyped'
  BY <1>1, <1>2, RunsStay
<1>5. CASE CollectBegins(t)
  <2>1. /\ t \in gcRequest /\ gcRequest' = gcRequest /\ onDisk' = onDisk
        /\ unasked' = unasked \ {t}
    BY <1>5 DEF CollectBegins, diskVars
  <2> QED
    BY <1>1, <1>3, <2>1 DEF CleanupInv, GarbageIsKnown
<1>6. CASE CollectEnds(t)
  <2>1. /\ onDisk' = onDisk \ (collecting[t] \ cached)
        /\ gcRequest' = gcRequest \ {t}
        /\ unasked' = IF Garbage(t) \subseteq collecting[t] THEN unasked
                      ELSE unasked \cup {t}
    BY <1>6 DEF CollectEnds
  <2>2. ASSUME NEW j \in onDisk' \ cached, TargetOf[j] = t
        PROVE  t \in unasked'
    BY <2>1, <2>2 DEF Garbage
  <2>3. ASSUME NEW j \in onDisk' \ cached
        PROVE  \/ TargetOf[j] \in gcRequest' \cup unasked'
               \/ j \in indexed
               \/ \E c \in Callers : TargetOf[j] \in run[c].touched \/ j \in run[c].item
    BY <2>1, <2>2, <2>3 DEF CleanupInv, GarbageIsKnown
  <2> QED
    BY <1>1, <1>3, <2>3 DEF CleanupInv, GarbageIsKnown
<1>7. CASE CollectFails(t)
  <2>1. UNCHANGED <<onDisk, gcRequest, unasked>>
    BY <1>7 DEF CollectFails, diskVars
  <2> QED
    BY <1>1, <1>3, <2>1 DEF CleanupInv, GarbageIsKnown
<1> QED
  BY <1>5, <1>6, <1>7 DEF GCNext

----------------------------------------------------------------------------
LEMMA InitHolds ==
    ASSUME CleanupInit
    PROVE  CleanupInv
<1>1. /\ run = [c \in Callers |-> Idle] /\ \A c \in Callers : run[c] = Idle
      /\ janitorRunning = FALSE /\ openRows = [c \in Callers |-> 0]
      /\ cached = Items /\ onDisk = Items /\ faults = 0
  BY DEF CleanupInit
<1>2. RunsSound
  BY <1>1, IdleIs DEF RunsSound
<1>3. OneLive
  BY <1>1, IdleIs DEF OneLive, Live
<1>4. RowsTyped
  BY <1>1, IdleIs DEF RowsTyped, RunningRowsLive, Live
<1>5. GarbageIsKnown
  BY <1>1 DEF GarbageIsKnown
<1> QED
  BY <1>2, <1>3, <1>4, <1>5 DEF CleanupInv

LEMMA NextKeeps ==
    ASSUME CleanupInv, [CleanupNext]_cleanupVars
    PROVE  CleanupInv'
<1>1. CASE UNCHANGED cleanupVars
  <2>1. /\ UNCHANGED <<cached, onDisk, indexed, jobVars, gcRequest, unasked, boundVars>>
        /\ run' = run
    BY <1>1 DEF cleanupVars, diskVars, indexVars, jobVars, gcVars
  <2>2. RunsSound' /\ OneLive' /\ RowsTyped'
    BY <2>1, Counted, RunsStay
  <2>3. GarbageIsKnown'
    BY <2>1 DEF CleanupInv, GarbageIsKnown
  <2> QED
    BY <2>2, <2>3 DEF CleanupInv
<1>2. CASE TickerBegins
  BY <1>2, BeginKeeps DEF TickerBegins, Callers
<1>3. CASE ConsoleBegins
  BY <1>3, BeginKeeps DEF ConsoleBegins, Callers
<1>4. CASE Disconnect
  BY <1>4, DisconnectKeeps
<1>5. CASE Crash
  BY <1>5, CrashKeeps
<1>6. ASSUME NEW c \in Callers, RunNext(c) PROVE CleanupInv'
  <2>1. ASSUME NEW i \in Items,
               \/ PlanItem(c, i) \/ DeleteManifest(c, i) \/ DeleteManifestFails(c, i)
               \/ MarkItem(c, i)
        PROVE  CleanupInv'
    BY <2>1, PlanItemKeeps, DeleteManifestKeeps, DeleteManifestFailsKeeps, MarkItemKeeps
  <2>2. CASE ReadStorage(c) \/ List(c)
    BY <2>2, ReadStorageKeeps, ListKeeps
  <2>3. CASE MarkItemFails(c) \/ EndLoop(c) \/ RequestGC(c) \/ Finish(c)
    BY <2>3, MarkItemFailsKeeps, EndLoopKeeps, RequestGCKeeps, FinishKeeps
  <2> QED
    BY <1>6, <2>1, <2>2, <2>3 DEF RunNext
<1>7. ASSUME NEW i \in Items,
             \/ Pull(i) \/ RecordPush(i) \/ FallsUnused(i)
             \/ DeleteEvent(i) \/ CatalogSync(i)
      PROVE  CleanupInv'
  BY <1>7, PullKeeps, OutsideKeeps, DeleteEventKeeps, ListingKeeps
<1>8. CASE Weather
  BY <1>8, OutsideKeeps
<1>9. ASSUME NEW t \in Targets, GCNext(t) PROVE CleanupInv'
  BY <1>9, CollectionKeeps
<1> QED
  BY <1>1, <1>2, <1>3, <1>4, <1>5, <1>6, <1>7, <1>8, <1>9 DEF CleanupNext

LEMMA InvHolds == CleanupSpec => []CleanupInv
<1>1. CleanupInit => CleanupInv
  BY InitHolds
<1>2. CleanupInv /\ [CleanupNext]_cleanupVars => CleanupInv'
  BY NextKeeps
<1> QED
  BY <1>1, <1>2, PTL DEF CleanupSpec

----------------------------------------------------------------------------
(* The theorems. *)

\* The ticker and the console never run the janitor at once, and janitorRunning
\* is up just while one of them does.
THEOREM CleanupOneRun == CleanupSpec => []OneRun
<1>1. CleanupInv => OneRun
  <2> SUFFICES ASSUME CleanupInv PROVE OneRun
    OBVIOUS
  <2> DEFINE L == {c \in Callers : Live(c)}
  <2>1. Cardinality(L) <= 1
    <3>1. CASE L = {}
      BY <3>1, FS_EmptySet
    <3>2. CASE L # {}
      <4>1. PICK c : c \in L
        BY <3>2
      <4>2. L = {c}
        BY <4>1 DEF CleanupInv, OneLive
      <4> QED
        BY <4>2, FS_Singleton
    <3> QED
      BY <3>1, <3>2
  <2> QED
    BY <2>1 DEF CleanupInv, OneLive, OneRun
<1> QED
  BY <1>1, InvHolds, PTL

\* A job_runs row says running of a run that is over only after a crash or a
\* finishJobRun that failed, never because a request was cancelled.
THEOREM CleanupRunningRowsLive == CleanupSpec => []RunningRowsLive
<1>1. CleanupInv => RunningRowsLive
  BY DEF CleanupInv, RowsTyped
<1> QED
  BY <1>1, InvHolds, PTL

\* Of every blob that nothing refers to, a collection was asked, a run is still
\* to ask, or the row is left for another run; or else the request was lost, in
\* one of the ways that unasked names.
THEOREM CleanupGarbageIsKnown == CleanupSpec => []GarbageIsKnown
<1>1. CleanupInv => GarbageIsKnown
  BY DEF CleanupInv
<1> QED
  BY <1>1, InvHolds, PTL

----------------------------------------------------------------------------
(* What a run reads of the disks. *)

LEMMA SumsTyped ==
    ASSUME NEW S, IsFiniteSet(S), NEW f
    PROVE  /\ (\A x \in S : f[x] \in Int) => SumFunctionOnSet(f, S) \in Int
           /\ (\A x \in S : f[x] \in Nat) => SumFunctionOnSet(f, S) \in Nat
<1>1. 0 \in Int /\ \A m, n \in Int : m + n \in Int
  OBVIOUS
<1>2. 0 \in Nat /\ \A m, n \in Nat : m + n \in Nat
  OBVIOUS
<1>3. ASSUME \A x \in S : f[x] \in Int PROVE SumFunctionOnSet(f, S) \in Int
  BY <1>1, <1>3, SumTyped
<1>4. ASSUME \A x \in S : f[x] \in Nat PROVE SumFunctionOnSet(f, S) \in Nat
  BY <1>2, <1>4, SumTyped
<1> QED
  BY <1>3, <1>4

LEMMA FreeBytesTyped ==
    ASSUME onDisk \subseteq Items, NEW d \in Disks
    PROVE  FreeBytes(d) \in Int
<1> DEFINE S == {i \in onDisk : DiskOf[TargetOf[i]] = d}
<1>1. IsFiniteSet(S)
  BY CleanupAssumption, FS_Subset
<1>2. \A i \in S : Size[i] \in Nat
  BY CleanupAssumption
<1> HIDE DEF S
<1>3. SumFunctionOnSet(Size, S) \in Nat
  BY <1>1, <1>2, SumsTyped
<1>4. Total[d] \in Int /\ Other[d] \in Int
  BY CleanupAssumption
<1> QED
  BY <1>3, <1>4 DEF FreeBytes, S

\* The sums over the targets that can be read, and over their disks.
LEMMA SumsRead ==
    ASSUME onDisk \subseteq Items, readable \subseteq Targets
    PROVE  LET disks == {DiskOf[t] : t \in readable}
               totals == SumFunctionOnSet(Total, disks)
               frees == SumFunction([d \in disks |-> FreeBytes(d)])
           IN  /\ TotalRead \in Nat /\ FreeRead \in Int
               /\ totals \in Nat /\ frees \in Int
               /\ IsInjective(DiskOf) => TotalRead = totals /\ FreeRead = frees
<1> DEFINE disks == {DiskOf[t] : t \in readable}
           F == [d \in disks |-> FreeBytes(d)]
           total == [t \in readable |-> Total[DiskOf[t]]]
           free == [t \in readable |-> FreeBytes(DiskOf[t])]
<1>1. IsFiniteSet(readable) /\ disks \subseteq Disks
  BY CleanupAssumption, FS_Subset
<1>2. IsFiniteSet(disks)
  <2>1. [t \in readable |-> DiskOf[t]] \in Surjection(readable, disks)
    BY DEF Surjection
  <2> HIDE DEF disks
  <2> QED
    BY <1>1, <2>1, FS_Surjection
<1>3. /\ TotalRead = SumFunctionOnSet(total, readable)
      /\ FreeRead = SumFunctionOnSet(free, readable)
      /\ SumFunction(F) = SumFunctionOnSet(F, disks)
  BY DEF TotalRead, FreeRead, SumFunction
<1>4. /\ \A t \in readable : total[t] \in Nat /\ free[t] \in Int
      /\ \A d \in disks : Total[d] \in Nat /\ F[d] \in Int
  <2>1. \A d \in Disks : FreeBytes(d) \in Int /\ Total[d] \in Nat
    BY FreeBytesTyped, CleanupAssumption
  <2>2. \A t \in readable : DiskOf[t] \in Disks
    BY CleanupAssumption
  <2> HIDE DEF disks
  <2> QED
    BY <1>1, <2>1, <2>2
<1>5. /\ TotalRead \in Nat /\ FreeRead \in Int
      /\ SumFunctionOnSet(Total, disks) \in Nat /\ SumFunction(F) \in Int
  <2> HIDE DEF disks, F, total, free
  <2>1. SumFunctionOnSet(total, readable) \in Nat
    BY <1>1, <1>4, SumsTyped
  <2>2. SumFunctionOnSet(free, readable) \in Int
    BY <1>1, <1>4, SumsTyped
  <2>3. SumFunctionOnSet(Total, disks) \in Nat
    BY <1>2, <1>4, SumsTyped
  <2>4. SumFunctionOnSet(F, disks) \in Int
    BY <1>2, <1>4, SumsTyped
  <2> QED
    BY <1>3, <2>1, <2>2, <2>3, <2>4
<1>6. ASSUME IsInjective(DiskOf)
      PROVE  TotalRead = SumFunctionOnSet(Total, disks) /\ FreeRead = SumFunction(F)
  <2>1. \A t, u \in readable : DiskOf[t] = DiskOf[u] => t = u
    BY <1>6, CleanupAssumption DEF IsInjective
  <2>2. \A t \in readable : total[t] = Total[DiskOf[t]] /\ free[t] = F[DiskOf[t]]
    OBVIOUS
  <2>3. \A t \in readable : total[t] \in Int /\ free[t] \in Int
    BY <1>4
  <2> HIDE DEF F, total, free
  <2>4. SumFunctionOnSet(total, readable) = SumFunctionOnSet(Total, disks)
    BY <1>1, <2>1, <2>2, <2>3, SumRenamed
  <2>5. SumFunctionOnSet(free, readable) = SumFunctionOnSet(F, disks)
    BY <1>1, <2>1, <2>2, <2>3, SumRenamed
  <2> QED
    BY <1>3, <2>4, <2>5
<1> QED
  BY <1>5, <1>6

\* The bytes to free are those the disks lack, where each cache has its own.
LEMMA NeedIsShortage ==
    ASSUME onDisk \subseteq Items, readable \subseteq Targets
    PROVE  /\ BytesToTarget \in Nat /\ Shortage \in Int
           /\ IsInjective(DiskOf) => BytesToTarget = AtLeastZero(Shortage)
<1> DEFINE disks == {DiskOf[t] : t \in readable}
           totals == SumFunctionOnSet(Total, disks)
           frees == SumFunction([d \in disks |-> FreeBytes(d)])
<1>1. /\ TotalRead \in Nat /\ FreeRead \in Int /\ totals \in Nat /\ frees \in Int
      /\ IsInjective(DiskOf) => TotalRead = totals /\ FreeRead = frees
  BY SumsRead
<1>2. Shortage = (totals * TargetFreePct) \div 100 - frees
  BY DEF Shortage
<1> HIDE DEF totals, frees
<1>3. ASSUME NEW n \in Nat, NEW m \in Int
      PROVE  (n * TargetFreePct) \div 100 - m \in Int
  <2>1. TargetFreePct \in Nat
    BY CleanupAssumption
  <2>2. n * TargetFreePct \in Nat
    BY <2>1
  <2> QED
    BY <2>2
<1>4. Shortage \in Int
  BY <1>1, <1>2, <1>3
<1>5. BytesToTarget \in Nat
  <2> DEFINE n == (TotalRead * TargetFreePct) \div 100 - FreeRead
  <2>1. n \in Int
    BY <1>1, <1>3
  <2>2. BytesToTarget = AtLeastZero(n)
    BY DEF BytesToTarget
  <2> HIDE DEF n
  <2> QED
    BY <2>1, <2>2 DEF AtLeastZero
<1> QED
  BY <1>1, <1>2, <1>4, <1>5 DEF BytesToTarget

----------------------------------------------------------------------------
(* The types, and how far a run deletes. *)

RunTyped(r) ==
    /\ r.dry \in BOOLEAN /\ r.force \in BOOLEAN
    /\ r.gone \in BOOLEAN /\ r.mustFree \in BOOLEAN
    /\ r.required \in Nat /\ r.recovered \in Nat /\ r.shortage \in Int
    /\ r.todo \subseteq Items /\ r.item \subseteq Items /\ r.touched \subseteq Targets
    /\ r.results \in 0 .. MaxDeleteBatch
    /\ r.pc = "mark" => r.results < MaxDeleteBatch
    /\ r.pc \in {"idle", "health", "list"} => r.results = 0

\* Under pressure a run that goes on after an item has recovered less than it
\* must, and that is what the disks lacked.
Aimed(r) ==
    r.pc \in {"list", "loop", "mark"} /\ r.mustFree =>
        /\ r.required = AtLeastZero(r.shortage)
        /\ r.results > 0 => r.recovered < r.required

\* Where two caches share a disk the second does not hold.
Fit(r) == RunTyped(r) /\ (IsInjective(DiskOf) => Aimed(r))

RunsFit == \A c \in Callers : Fit(run[c])

ArtifactsTyped ==
    /\ onDisk \subseteq Items /\ cached \subseteq onDisk
    /\ readable \subseteq Targets /\ outage \in {"none", "mirror", "upstream"}
    /\ indexed \subseteq Items /\ unused \subseteq Items

\* A run under way has its row.
RowsCounted ==
    \A c \in Callers : openRows[c] \in Nat /\ (Live(c) => openRows[c] >= 1)

RequestsTyped ==
    /\ gcRequest \subseteq Targets /\ unasked \subseteq Targets
    /\ collecting = <<>> \/ \E t \in Targets : \E G : collecting = [x \in {t} |-> G]

BoundsTyped == changes \in 0 .. MaxChanges /\ faults \in 0 .. MaxFaults

CleanupTyped ==
    /\ RunsFit
    /\ ArtifactsTyped
    /\ RowsCounted
    /\ RequestsTyped
    /\ BoundsTyped

LEMMA IdleFits == Fit(Idle) /\ Idle.pc = "idle"
BY CleanupAssumption DEF Fit, RunTyped, Aimed, Idle

LEMMA OverFits ==
    ASSUME NEW r, RunTyped(r)
    PROVE  Fit(Over(r)) /\ Over(r).pc = "finish"
BY CleanupAssumption DEF Fit, RunTyped, Aimed, Over, Idle

\* The fields of a run after an item.
LEMMA AfterItemFields ==
    ASSUME NEW r, DOMAIN r = DOMAIN Idle, NEW n
    PROVE  LET s == AfterItem(r, n)
           IN  /\ s.pc = IF r.mustFree /\ r.recovered + n >= r.required THEN "gc" ELSE "loop"
               /\ s.results = r.results + 1 /\ s.recovered = r.recovered + n
               /\ s.item = {} /\ s.todo = r.todo /\ s.touched = r.touched
               /\ s.dry = r.dry /\ s.force = r.force /\ s.gone = r.gone
               /\ s.mustFree = r.mustFree /\ s.required = r.required
               /\ s.shortage = r.shortage
BY DEF AfterItem, Idle

\* The loop goes on only while not enough is recovered.
LEMMA AfterItemFits ==
    ASSUME NEW r, DOMAIN r = DOMAIN Idle, Fit(r), r.pc \in {"loop", "mark"},
           r.results < MaxDeleteBatch, NEW n \in Nat
    PROVE  Fit(AfterItem(r, n))
<1> DEFINE s == AfterItem(r, n)
<1>1. /\ s.pc = IF r.mustFree /\ r.recovered + n >= r.required THEN "gc" ELSE "loop"
      /\ s.results = r.results + 1 /\ s.recovered = r.recovered + n
      /\ s.item = {} /\ s.todo = r.todo /\ s.touched = r.touched
      /\ s.dry = r.dry /\ s.force = r.force /\ s.gone = r.gone
      /\ s.mustFree = r.mustFree /\ s.required = r.required
      /\ s.shortage = r.shortage
  BY AfterItemFields
<1> HIDE DEF s
<1>2. s.results \in 0 .. MaxDeleteBatch
  BY <1>1, CleanupAssumption DEF Fit, RunTyped
<1>3. RunTyped(s)
  BY <1>1, <1>2 DEF Fit, RunTyped
<1>4. IsInjective(DiskOf) => Aimed(s)
  BY <1>1 DEF Fit, RunTyped, Aimed
<1> QED
  BY <1>3, <1>4 DEF Fit, s

LEMMA WithoutFits ==
    ASSUME NEW r, DOMAIN r = DOMAIN Idle, Fit(r), NEW i
    PROVE  /\ Fit(Without(r, i)) /\ DOMAIN Without(r, i) = DOMAIN Idle
           /\ Without(r, i).pc = r.pc /\ Without(r, i).results = r.results
<1> DEFINE s == Without(r, i)
<1>1. /\ s.pc = r.pc /\ s.results = r.results /\ s.recovered = r.recovered
      /\ s.item = r.item /\ s.todo = r.todo \ {i} /\ s.touched = r.touched
      /\ s.dry = r.dry /\ s.force = r.force /\ s.gone = r.gone
      /\ s.mustFree = r.mustFree /\ s.required = r.required
      /\ s.shortage = r.shortage /\ DOMAIN s = DOMAIN Idle
  BY DEF Without, Idle
<1> HIDE DEF s
<1>2. Fit(s)
  BY <1>1 DEF Fit, RunTyped, Aimed
<1> QED
  BY <1>1, <1>2 DEF s

\* What is left to show when the run of c becomes r.
LEMMA RunMovesFit ==
    ASSUME CleanupInv, CleanupTyped, NEW c \in Callers, NEW r, Fit(r),
           run' = [run EXCEPT ![c] = r]
    PROVE  RunsFit'
<1>1. run'[c] = r /\ \A d \in Callers \ {c} : run'[d] = run[d]
  BY DEF CleanupInv, RunsSound
<1> QED
  BY <1>1 DEF CleanupTyped, RunsFit, Fit, RunTyped, Aimed

\* While a run that is under way goes on, its row is open.
LEMMA RowsStay ==
    ASSUME CleanupInv, CleanupTyped, UNCHANGED openRows,
           NEW c \in Callers, Live(c), NEW r, run' = [run EXCEPT ![c] = r]
    PROVE  RowsCounted'
<1>1. run'[c] = r /\ \A d \in Callers \ {c} : run'[d] = run[d]
  BY DEF CleanupInv, RunsSound
<1> QED
  BY <1>1 DEF CleanupTyped, RowsCounted, Live

LEMMA BoundsKept ==
    ASSUME CleanupTyped, Fault \/ Change \/ UNCHANGED boundVars
    PROVE  BoundsTyped'
BY CleanupAssumption DEF CleanupTyped, BoundsTyped, Fault, Change, boundVars

\* What one run at work has to show.
LEMMA RunGoesOnTyped ==
    ASSUME CleanupInv, CleanupTyped, NEW c \in Callers, Live(c), NEW r, Fit(r),
           run' = [run EXCEPT ![c] = r], UNCHANGED openRows,
           Fault \/ Change \/ UNCHANGED boundVars,
           ArtifactsTyped', RequestsTyped'
    PROVE  CleanupTyped'
BY RunMovesFit, RowsStay, BoundsKept DEF CleanupTyped

\* What is left alone keeps its type.
LEMMA ArtifactsStay ==
    ASSUME CleanupTyped, UNCHANGED <<diskVars, healthVars, indexVars>>
    PROVE  ArtifactsTyped'
BY DEF CleanupTyped, ArtifactsTyped, diskVars, healthVars, indexVars

LEMMA RequestsStay ==
    ASSUME CleanupTyped, UNCHANGED <<gcVars, unasked>>
    PROVE  RequestsTyped'
BY DEF CleanupTyped, RequestsTyped, gcVars

LEMMA JobsStay ==
    ASSUME CleanupTyped, UNCHANGED jobVars
    PROVE  RunsFit' /\ RowsCounted'
BY DEF CleanupTyped, RunsFit, Fit, RunTyped, Aimed, RowsCounted, Live, jobVars

----------------------------------------------------------------------------
(* The types, step by step. *)

LEMMA BeginTyped ==
    ASSUME CleanupInv, CleanupTyped, NEW c \in Callers, NEW dry \in BOOLEAN,
           NEW force \in BOOLEAN, Begin(c, dry, force), Change \/ UNCHANGED boundVars
    PROVE  CleanupTyped'
<1> DEFINE r == [Idle EXCEPT !.pc = "health", !.dry = dry, !.force = force]
<1>1. Fit(r) /\ r.pc = "health"
  BY CleanupAssumption DEF Fit, RunTyped, Aimed, Idle
<1>2. /\ run' = [run EXCEPT ![c] = r]
      /\ openRows' = [openRows EXCEPT ![c] = @ + 1]
  BY DEF Begin
<1> HIDE DEF r
<1>3. RunsFit'
  BY <1>1, <1>2, RunMovesFit
<1>4. RowsCounted'
  <2>1. run'[c] = r /\ \A d \in Callers \ {c} : run'[d] = run[d]
    BY <1>2 DEF CleanupInv, RunsSound
  <2>2. openRows'[c] = openRows[c] + 1 /\ \A d \in Callers \ {c} : openRows'[d] = openRows[d]
    BY <1>2 DEF CleanupInv, RowsTyped
  <2> QED
    BY <2>1, <2>2 DEF CleanupTyped, RowsCounted, Live
<1> QED
  BY <1>3, <1>4, ArtifactsStay, RequestsStay, BoundsKept DEF CleanupTyped, Begin

LEMMA DisconnectTyped ==
    ASSUME CleanupInv, CleanupTyped, Disconnect
    PROVE  CleanupTyped'
<1> DEFINE c == "console"
           r == [run[c] EXCEPT !.gone = TRUE]
<1>1. c \in Callers /\ Live(c) /\ DOMAIN run[c] = DOMAIN Idle /\ Fit(run[c])
  BY DEF Disconnect, Callers, CleanupInv, RunsSound, Sound, CleanupTyped, RunsFit
<1>2. Fit(r)
  BY <1>1 DEF Fit, RunTyped, Aimed, Idle
<1>3. run' = [run EXCEPT ![c] = r] /\ UNCHANGED openRows /\ Change
  BY DEF Disconnect
<1> HIDE DEF c, r
<1> QED
  BY <1>1, <1>2, <1>3, ArtifactsStay, RequestsStay, RunGoesOnTyped DEF Disconnect

LEMMA ReadStorageTyped ==
    ASSUME CleanupInv, CleanupTyped, NEW c \in Callers, ReadStorage(c)
    PROVE  CleanupTyped'
<1> DEFINE m == BelowPct(LowWatermarkPct)
           need == IF m THEN BytesToTarget ELSE 0
           q == [run[c] EXCEPT !.pc = "list", !.force = FALSE, !.mustFree = m,
                               !.required = need, !.shortage = Shortage]
           r == IF Skips(c) THEN Over(run[c]) ELSE q
<1>1. /\ run[c].pc = "health" /\ Live(c) /\ DOMAIN run[c] = DOMAIN Idle
      /\ Fit(run[c]) /\ RunTyped(run[c])
  BY DEF ReadStorage, Live, CleanupInv, RunsSound, Sound, CleanupTyped, RunsFit, Fit
<1>2. /\ BytesToTarget \in Nat /\ Shortage \in Int
      /\ IsInjective(DiskOf) => BytesToTarget = AtLeastZero(Shortage)
  <2>1. onDisk \subseteq Items /\ readable \subseteq Targets
    BY DEF CleanupTyped, ArtifactsTyped
  <2> QED
    BY <2>1, NeedIsShortage
<1>3. m \in BOOLEAN
  BY DEF BelowPct
<1>4. run' = [run EXCEPT ![c] = r]
  BY DEF ReadStorage
<1>5. Fit(q)
  <2> HIDE DEF m
  <2>1. need \in Nat /\ (m => need = BytesToTarget)
    BY <1>2, <1>3
  <2> HIDE DEF need
  <2>2. /\ q.pc = "list" /\ q.mustFree = m /\ q.force = FALSE
        /\ q.required = need /\ q.shortage = Shortage
        /\ q.dry = run[c].dry /\ q.gone = run[c].gone /\ q.todo = run[c].todo
        /\ q.item = run[c].item /\ q.touched = run[c].touched
        /\ q.results = run[c].results /\ q.recovered = run[c].recovered
    BY <1>1 DEF Idle
  <2> HIDE DEF q
  <2>3. RunTyped(q)
    BY <1>1, <1>2, <1>3, <2>1, <2>2 DEF RunTyped
  <2>4. IsInjective(DiskOf) => Aimed(q)
    BY <1>1, <1>2, <2>1, <2>2 DEF RunTyped, Aimed
  <2> QED
    BY <2>3, <2>4 DEF Fit
<1>6. Fit(r)
  BY <1>1, <1>5, OverFits
<1> HIDE DEF r
<1> QED
  BY <1>1, <1>4, <1>6, ArtifactsStay, RequestsStay, RunGoesOnTyped DEF ReadStorage

LEMMA ListTyped ==
    ASSUME CleanupInv, CleanupTyped, NEW c \in Callers, List(c)
    PROVE  CleanupTyped'
<1>1. /\ run[c].pc = "list" /\ Live(c) /\ DOMAIN run[c] = DOMAIN Idle
      /\ Fit(run[c]) /\ RunTyped(run[c])
  BY DEF List, Live, CleanupInv, RunsSound, Sound, CleanupTyped, RunsFit, Fit
<1>2. PICK r : run' = [run EXCEPT ![c] = r] /\ Fit(r)
  <2>1. CASE run' = [run EXCEPT ![c] = Over(@)]
    BY <1>1, <2>1, OverFits
  <2>2. CASE run' = [run EXCEPT ![c].pc = "loop", ![c].todo = indexed \cap unused]
    <3> DEFINE r == [run[c] EXCEPT !.pc = "loop", !.todo = indexed \cap unused]
    <3>1. run' = [run EXCEPT ![c] = r]
      BY <2>2 DEF CleanupInv, RunsSound
    <3>2. /\ r.pc = "loop" /\ r.todo = indexed \cap unused /\ r.mustFree = run[c].mustFree
          /\ r.dry = run[c].dry /\ r.force = run[c].force /\ r.gone = run[c].gone
          /\ r.required = run[c].required /\ r.shortage = run[c].shortage
          /\ r.recovered = run[c].recovered /\ r.results = run[c].results
          /\ r.item = run[c].item /\ r.touched = run[c].touched
      BY <1>1 DEF Idle
    <3> HIDE DEF r
    <3>3. Fit(r)
      BY <1>1, <3>2 DEF Fit, RunTyped, Aimed, CleanupTyped, ArtifactsTyped
    <3> QED
      BY <3>1, <3>3
  <2> QED
    BY <2>1, <2>2 DEF List
<1>3. UNCHANGED openRows /\ (Fault \/ UNCHANGED boundVars)
  BY DEF List
<1> QED
  BY <1>1, <1>2, <1>3, ArtifactsStay, RequestsStay, RunGoesOnTyped DEF List

\* The run that works on a candidate.
LEMMA WorkingTyped ==
    ASSUME CleanupInv, CleanupTyped, NEW c \in Callers, Working(c), NEW i \in Items
    PROVE  /\ Live(c) /\ DOMAIN run[c] = DOMAIN Idle /\ Size[i] \in Nat
           /\ \A n \in Nat : Fit(AfterItem(Without(run[c], i), n))
           /\ Fit([Without(run[c], i) EXCEPT !.pc = "mark", !.item = {i}])
<1> DEFINE q == Without(run[c], i)
           r == [q EXCEPT !.pc = "mark", !.item = {i}]
<1>1. /\ run[c].pc = "loop" /\ Live(c) /\ DOMAIN run[c] = DOMAIN Idle
      /\ Fit(run[c]) /\ run[c].results < MaxDeleteBatch /\ Size[i] \in Nat
  BY CleanupAssumption
     DEF Working, Live, CleanupInv, RunsSound, Sound, CleanupTyped, RunsFit
<1>2. /\ Fit(q) /\ DOMAIN q = DOMAIN Idle
      /\ q.pc = "loop" /\ q.results < MaxDeleteBatch
  BY <1>1, WithoutFits
<1> HIDE DEF q
<1>3. \A n \in Nat : Fit(AfterItem(q, n))
  BY <1>2, AfterItemFits
<1>4. /\ r.pc = "mark" /\ r.item = {i} /\ r.todo = q.todo /\ r.mustFree = q.mustFree
      /\ r.dry = q.dry /\ r.force = q.force /\ r.gone = q.gone
      /\ r.required = q.required /\ r.shortage = q.shortage
      /\ r.recovered = q.recovered /\ r.results = q.results /\ r.touched = q.touched
  BY <1>2 DEF Idle
<1> HIDE DEF r
<1>5. Fit(r)
  BY <1>2, <1>4 DEF Fit, RunTyped, Aimed
<1> QED
  BY <1>1, <1>3, <1>5 DEF q, r

LEMMA ItemTyped ==
    ASSUME CleanupInv, CleanupTyped, NEW c \in Callers, NEW i \in Items,
           PlanItem(c, i) \/ DeleteManifest(c, i) \/ DeleteManifestFails(c, i)
    PROVE  CleanupTyped'
<1>1. Working(c) /\ UNCHANGED openRows /\ (Fault \/ UNCHANGED boundVars)
  BY DEF PlanItem, DeleteManifest, DeleteManifestFails
<1>2. /\ Live(c) /\ 0 \in Nat /\ Size[i] \in Nat
      /\ \A n \in Nat : Fit(AfterItem(Without(run[c], i), n))
      /\ Fit([Without(run[c], i) EXCEPT !.pc = "mark", !.item = {i}])
  BY <1>1, WorkingTyped
<1>3. PICK r : run' = [run EXCEPT ![c] = r] /\ Fit(r)
  <2>1. CASE run' = [run EXCEPT ![c] = AfterItem(Without(@, i), Size[i])]
    BY <1>2, <2>1
  <2>2. CASE run' = [run EXCEPT ![c] = AfterItem(Without(@, i), 0)]
    BY <1>2, <2>2
  <2>3. CASE run' = [run EXCEPT ![c] = [Without(@, i) EXCEPT !.pc = "mark", !.item = {i}]]
    BY <1>2, <2>3
  <2> QED
    BY <2>1, <2>2, <2>3 DEF PlanItem, DeleteManifest, DeleteManifestFails
<1>4. ArtifactsTyped'
  BY DEF PlanItem, DeleteManifest, DeleteManifestFails, CleanupTyped, ArtifactsTyped,
         diskVars, healthVars, indexVars
<1>5. RequestsTyped'
  <2>1. CASE PlanItem(c, i) \/ DeleteManifest(c, i)
    BY <2>1, RequestsStay DEF PlanItem, DeleteManifest
  <2>2. CASE DeleteManifestFails(c, i)
    <3>1. {TargetOf[j] : j \in (cached \ cached') \ indexed} \subseteq Targets
      BY CleanupAssumption DEF CleanupTyped, ArtifactsTyped
    <3> QED
      BY <2>2, <3>1 DEF DeleteManifestFails, CleanupTyped, RequestsTyped, gcVars
  <2> QED
    BY <2>1, <2>2
<1> QED
  BY <1>1, <1>2, <1>3, <1>4, <1>5, RunGoesOnTyped

LEMMA MarkItemTyped ==
    ASSUME CleanupInv, CleanupTyped, NEW c \in Callers, NEW i \in Items, MarkItem(c, i)
    PROVE  CleanupTyped'
<1> DEFINE q == Touching(run[c], TargetOf[i])
           r == AfterItem(q, Size[i])
<1>1. /\ run[c].pc = "mark" /\ Live(c) /\ DOMAIN run[c] = DOMAIN Idle
      /\ Fit(run[c]) /\ TargetOf[i] \in Targets /\ Size[i] \in Nat
  BY CleanupAssumption
     DEF MarkItem, Live, CleanupInv, RunsSound, Sound, CleanupTyped, RunsFit
<1>2. run' = [run EXCEPT ![c] = r]
  BY DEF MarkItem
<1>3. /\ q.pc = "mark" /\ q.item = run[c].item /\ q.todo = run[c].todo
      /\ q.mustFree = run[c].mustFree /\ q.dry = run[c].dry /\ q.force = run[c].force
      /\ q.gone = run[c].gone /\ q.required = run[c].required
      /\ q.shortage = run[c].shortage /\ q.recovered = run[c].recovered
      /\ q.results = run[c].results /\ q.touched = run[c].touched \cup {TargetOf[i]}
      /\ DOMAIN q = DOMAIN Idle
  BY <1>1 DEF Touching, Idle
<1> HIDE DEF q
<1>4. Fit(q) /\ q.results < MaxDeleteBatch
  BY <1>1, <1>3 DEF Fit, RunTyped, Aimed
<1>5. Fit(r)
  BY <1>1, <1>3, <1>4, AfterItemFits
<1> HIDE DEF r
<1>6. ArtifactsTyped' /\ UNCHANGED <<openRows, boundVars>>
  BY DEF MarkItem, CleanupTyped, ArtifactsTyped, diskVars, healthVars
<1> QED
  BY <1>1, <1>2, <1>5, <1>6, RequestsStay, RunGoesOnTyped DEF MarkItem

LEMMA MarkItemFailsTyped ==
    ASSUME CleanupInv, CleanupTyped, NEW c \in Callers, MarkItemFails(c)
    PROVE  CleanupTyped'
<1> DEFINE r == AfterItem(run[c], 0)
<1>1. /\ run[c].pc = "mark" /\ Live(c) /\ DOMAIN run[c] = DOMAIN Idle
      /\ Fit(run[c]) /\ run[c].results < MaxDeleteBatch
  BY DEF MarkItemFails, Live, CleanupInv, RunsSound, Sound, CleanupTyped, RunsFit,
         Fit, RunTyped
<1>2. Fit(r)
  BY <1>1, AfterItemFits
<1>3. /\ run' = [run EXCEPT ![c] = r] /\ UNCHANGED openRows
      /\ Fault \/ UNCHANGED boundVars
  BY DEF MarkItemFails
<1>4. RequestsTyped'
  <2>1. DoneByEvent(c) \subseteq Targets
    BY <1>1, CleanupAssumption DEF DoneByEvent, Fit, RunTyped
  <2> QED
    BY <2>1 DEF MarkItemFails, CleanupTyped, RequestsTyped, gcVars
<1> HIDE DEF r
<1> QED
  BY <1>1, <1>2, <1>3, <1>4, ArtifactsStay, RunGoesOnTyped DEF MarkItemFails

LEMMA EndLoopTyped ==
    ASSUME CleanupInv, CleanupTyped, NEW c \in Callers, EndLoop(c)
    PROVE  CleanupTyped'
<1> DEFINE r == [run[c] EXCEPT !.pc = "gc"]
<1>1. run[c].pc = "loop" /\ Live(c) /\ DOMAIN run[c] = DOMAIN Idle /\ Fit(run[c])
  BY DEF EndLoop, Live, CleanupInv, RunsSound, Sound, CleanupTyped, RunsFit
<1>2. Fit(r)
  BY <1>1 DEF Fit, RunTyped, Aimed, Idle
<1>3. run' = [run EXCEPT ![c] = r] /\ UNCHANGED openRows
  BY DEF EndLoop
<1> HIDE DEF r
<1> QED
  BY <1>1, <1>2, <1>3, ArtifactsStay, RequestsStay, RunGoesOnTyped DEF EndLoop

LEMMA RequestGCTyped ==
    ASSUME CleanupInv, CleanupTyped, NEW c \in Callers, RequestGC(c)
    PROVE  CleanupTyped'
<1>1. Live(c) /\ RunTyped(run[c])
  BY DEF RequestGC, Live, CleanupTyped, RunsFit, Fit
<1>2. /\ run' = [run EXCEPT ![c] = Over(run[c])] /\ UNCHANGED openRows
      /\ Fault \/ UNCHANGED boundVars
  BY DEF RequestGC
<1>3. RequestsTyped'
  BY <1>1 DEF RequestGC, CleanupTyped, RequestsTyped, RunTyped
<1> QED
  BY <1>1, <1>2, <1>3, OverFits, ArtifactsStay, RunGoesOnTyped DEF RequestGC

LEMMA FinishTyped ==
    ASSUME CleanupInv, CleanupTyped, NEW c \in Callers, Finish(c)
    PROVE  CleanupTyped'
<1>1. run' = [run EXCEPT ![c] = Idle] /\ Live(c) /\ (Fault \/ UNCHANGED boundVars)
  BY DEF Finish, Live
<1>2. RowsCounted'
  <2>1. run'[c] = Idle /\ \A d \in Callers \ {c} : run'[d] = run[d]
    BY <1>1 DEF CleanupInv, RunsSound
  <2>2. openRows \in [Callers -> Int]
    BY DEF CleanupInv, RowsTyped
  <2> QED
    BY <1>1, <2>1, <2>2, IdleIs DEF Finish, CleanupTyped, RowsCounted, Live
<1> QED
  BY <1>1, <1>2, IdleFits, RunMovesFit, ArtifactsStay, RequestsStay, BoundsKept
     DEF Finish, CleanupTyped

LEMMA CrashTyped ==
    ASSUME CleanupInv, CleanupTyped, Crash
    PROVE  CleanupTyped'
<1>1. \A c \in Callers : run'[c] = Idle
  BY DEF Crash
<1>2. RunsFit'
  BY <1>1, IdleFits DEF RunsFit, Fit, RunTyped, Aimed
<1>3. RowsCounted'
  BY <1>1, IdleIs DEF Crash, CleanupTyped, RowsCounted, Live
<1>4. RequestsTyped'
  <2>1. \A c \in Callers : run[c].touched \subseteq Targets /\ DoneByEvent(c) \subseteq Targets
    BY CleanupAssumption DEF CleanupTyped, RunsFit, Fit, RunTyped, DoneByEvent
  <2> QED
    BY <2>1 DEF Crash, CleanupTyped, RequestsTyped, gcVars
<1> QED
  BY <1>2, <1>3, <1>4, ArtifactsStay, BoundsKept DEF Crash, CleanupTyped

LEMMA OutsideTyped ==
    ASSUME CleanupTyped,
           \/ \E i \in Items : \/ Pull(i) \/ RecordPush(i) \/ FallsUnused(i)
                              \/ DeleteEvent(i) \/ CatalogSync(i)
           \/ Weather
           \/ UNCHANGED cleanupVars
    PROVE  CleanupTyped'
<1>1. UNCHANGED jobVars /\ UNCHANGED gcVars /\ (Change \/ UNCHANGED boundVars)
  BY DEF Pull, RecordPull, RecordPush, FallsUnused, DeleteEvent, CatalogSync, Weather, cleanupVars
<1>2. ArtifactsTyped'
  BY DEF Pull, RecordPull, RecordPush, FallsUnused, DeleteEvent, CatalogSync, Weather, cleanupVars, diskVars,
         healthVars, indexVars, CleanupTyped, ArtifactsTyped
<1>3. RequestsTyped'
  <2>1. unasked' \subseteq Targets
    BY CleanupAssumption
       DEF Pull, RecordPull, RecordPush, FallsUnused, DeleteEvent, CatalogSync, Weather, cleanupVars,
           CleanupTyped, RequestsTyped
  <2> QED
    BY <1>1, <2>1 DEF gcVars, CleanupTyped, RequestsTyped
<1> QED
  BY <1>1, <1>2, <1>3, JobsStay, BoundsKept DEF CleanupTyped

LEMMA CollectionTyped ==
    ASSUME CleanupTyped, NEW t \in Targets, GCNext(t)
    PROVE  CleanupTyped'
<1>1. UNCHANGED jobVars /\ (Fault \/ UNCHANGED boundVars)
  BY DEF GCNext, CollectBegins, CollectEnds, CollectFails
<1>2. ArtifactsTyped'
  BY DEF GCNext, CollectBegins, CollectEnds, CollectFails, diskVars, healthVars,
         indexVars, CleanupTyped, ArtifactsTyped
<1>3. RequestsTyped'
  <2>1. CASE CollectBegins(t)
    <3>1. collecting' = [x \in {t} |-> Garbage(t)]
      BY <2>1 DEF CollectBegins
    <3> QED
      BY <2>1, <3>1 DEF CollectBegins, CleanupTyped, RequestsTyped
  <2>2. CASE CollectEnds(t) \/ CollectFails(t)
    BY <2>2 DEF CollectEnds, CollectFails, CleanupTyped, RequestsTyped
  <2> QED
    BY <2>1, <2>2 DEF GCNext
<1> QED
  BY <1>1, <1>2, <1>3, JobsStay, BoundsKept DEF CleanupTyped

LEMMA InitTyped == CleanupInit => CleanupTyped
<1> SUFFICES ASSUME CleanupInit PROVE CleanupTyped
  OBVIOUS
<1>1. \A c \in Callers : run[c] = Idle /\ openRows[c] = 0
  BY DEF CleanupInit
<1>2. RunsFit /\ RowsCounted
  BY <1>1, IdleFits DEF RunsFit, RowsCounted, Live
<1>3. ArtifactsTyped /\ RequestsTyped /\ BoundsTyped
  BY CleanupAssumption DEF CleanupInit, ArtifactsTyped, RequestsTyped, BoundsTyped
<1> QED
  BY <1>2, <1>3 DEF CleanupTyped

LEMMA NextTyped ==
    ASSUME CleanupInv, CleanupTyped, [CleanupNext]_cleanupVars
    PROVE  CleanupTyped'
<1>1. CASE TickerBegins \/ ConsoleBegins
  BY <1>1, BeginTyped DEF TickerBegins, ConsoleBegins, Callers
<1>2. CASE Disconnect \/ Crash
  BY <1>2, DisconnectTyped, CrashTyped
<1>3. ASSUME NEW c \in Callers, RunNext(c) PROVE CleanupTyped'
  BY <1>3, ReadStorageTyped, ListTyped, ItemTyped, MarkItemTyped, MarkItemFailsTyped,
     EndLoopTyped, RequestGCTyped, FinishTyped DEF RunNext
<1>4. ASSUME NEW t \in Targets, GCNext(t) PROVE CleanupTyped'
  BY <1>4, CollectionTyped
<1> QED
  BY <1>1, <1>2, <1>3, <1>4, OutsideTyped DEF CleanupNext

LEMMA TypedHolds == CleanupSpec => []CleanupTyped
<1>1. CleanupInit => CleanupTyped
  BY InitTyped
<1>2. CleanupInv /\ CleanupTyped /\ [CleanupNext]_cleanupVars => CleanupTyped'
  BY NextTyped
<1> QED
  BY <1>1, <1>2, InvHolds, PTL DEF CleanupSpec

\* Runs, disks, index and requests keep their types, and a run never tries
\* more than MAX_DELETE_BATCH artifacts, whoever starts it and whatever fails.
THEOREM CleanupTypeCorrect == CleanupSpec => []CleanupTypeOK
<1>1. CleanupInv /\ CleanupTyped => CleanupTypeOK
  <2> SUFFICES ASSUME CleanupInv, CleanupTyped PROVE CleanupTypeOK
    OBVIOUS
  <2>1. ASSUME NEW c \in Callers
        PROVE  /\ run[c].pc \in {"idle", "health", "list", "loop", "mark", "gc", "finish"}
               /\ run[c].required \in Nat /\ run[c].recovered \in Nat
               /\ run[c].todo \subseteq Items /\ run[c].item \subseteq Items
               /\ run[c].results \in 0 .. MaxDeleteBatch
               /\ run[c].touched \subseteq Targets
               /\ openRows[c] \in Nat
    BY DEF CleanupInv, RunsSound, Sound, PCs, CleanupTyped, RunsFit, Fit, RunTyped,
           RowsCounted
  <2>2. ASSUME NEW c \in Callers
        PROVE  {run[c].dry, run[c].force, run[c].gone, run[c].mustFree} \subseteq BOOLEAN
    BY Zenon DEF CleanupTyped, RunsFit, Fit, RunTyped
  <2>3. DOMAIN collecting \subseteq Targets /\ Cardinality(DOMAIN collecting) <= 1
    <3>1. CASE collecting = <<>>
      <4>1. DOMAIN collecting = {}
        BY <3>1
      <4> QED
        BY <4>1, FS_EmptySet
    <3>2. CASE collecting # <<>>
      <4>1. PICK t \in Targets : \E G : collecting = [x \in {t} |-> G]
        BY <3>2 DEF CleanupTyped, RequestsTyped
      <4>2. DOMAIN collecting = {t}
        BY <4>1
      <4>3. Cardinality({t}) = 1
        BY FS_Singleton
      <4> QED
        BY <4>2, <4>3
    <3> QED
      BY <3>1, <3>2
  <2> QED
    BY <2>1, <2>2, <2>3
       DEF CleanupTypeOK, CleanupInv, OneLive, CleanupTyped, ArtifactsTyped,
           RequestsTyped, BoundsTyped
<1> QED
  BY <1>1, InvHolds, TypedHolds, PTL

\* Where every cache has a disk of its own, a run under pressure stops at the
\* artifact with which TARGET_FREE_PCT is reached, whatever the sizes are and
\* whatever fails on the way.
THEOREM CleanupTargetIsEnough ==
    ASSUME IsInjective(DiskOf) PROVE CleanupSpec => []TargetIsEnough
<1>1. CleanupTyped => TargetIsEnough
  <2> SUFFICES ASSUME CleanupTyped, NEW c \in Callers,
                      run[c].pc = "mark", run[c].mustFree, run[c].results > 0
               PROVE  run[c].recovered < run[c].shortage
    BY DEF TargetIsEnough
  <2>1. /\ run[c].required = AtLeastZero(run[c].shortage)
        /\ run[c].recovered < run[c].required
        /\ run[c].recovered \in Nat /\ run[c].shortage \in Int
    BY DEF CleanupTyped, RunsFit, Fit, RunTyped, Aimed
  <2> QED
    BY <2>1 DEF AtLeastZero
<1> QED
  BY <1>1, TypedHolds, PTL
=============================================================================
