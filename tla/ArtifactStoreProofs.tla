------------------------ MODULE ArtifactStoreProofs ------------------------
(***************************************************************************)
(* The invariants of the metadata index, and what its steps never do to a  *)
(* row, for every value of the constants.  StoreTypeOK, AgesOrdered and    *)
(* TagIndexed are together inductive.                                      *)
(***************************************************************************)
EXTENDS ArtifactStore, TLAPS

StoreInv == StoreTypeOK /\ AgesOrdered /\ TagIndexed

\* A row that is inserted is well formed.
LEMMA NewRowType ==
    ASSUME NEW t \in Tags \cup {NoTag}, NEW now \in Nat
    PROVE  NewRow(t, now) \in Row
  BY DEF NewRow, Row

\* A day that an operation may write.
LEMMA StampIs ==
    ASSUME clock \in Nat, NEW now \in Stamps
    PROVE  now \in Nat /\ now <= clock /\ clock <= now + MaxWait
  BY DEF Stamps

\* What a push, or a sync, makes of a row is well formed ...
LEMMA PushedRowType ==
    ASSUME StoreTypeOK, NEW k \in Key, NEW t \in Tags \cup {NoTag}, NEW now \in Nat
    PROVE  PushedRow(k, t, now) \in Row
  BY DEF PushedRow, NewRow, Row, StoreTypeOK, Coalesce

LEMMA SyncedRowType ==
    ASSUME StoreTypeOK, NEW k \in Key, NEW t \in Tags, NEW now \in Nat
    PROVE  SyncedRow(k, t, now) \in Row
  BY DEF SyncedRow, NewRow, Row, StoreTypeOK

\* ... and its ages in order.
AgesOf(row) ==
    /\ row.firstSeen <= row.lastUsed + MaxWait
    /\ row.lastUsed <= clock /\ row.firstSeen <= clock

LEMMA NewRowAges ==
    ASSUME clock \in Nat, NEW t, NEW now \in Stamps
    PROVE  AgesOf(NewRow(t, now))
  BY StoreAssumption, StampIs DEF NewRow, AgesOf

\* A row that was seen by now is used at most MaxWait before that.
LEMMA PushedRowAges ==
    ASSUME StoreInv, NEW k, NEW t, NEW now \in Stamps
    PROVE  AgesOf(PushedRow(k, t, now))
  <1>1. CASE k \in DOMAIN artifacts
    <2>1. artifacts[k] \in Row /\ AgesOf(artifacts[k]) /\ clock \in Nat
      BY <1>1 DEF StoreInv, StoreTypeOK, AgesOrdered, AgesOf
    <2>2. artifacts[k].firstSeen \in Nat /\ artifacts[k].firstSeen <= clock
      BY <2>1 DEF Row, AgesOf
    <2>3. now \in Nat /\ now <= clock /\ clock <= now + MaxWait /\ MaxWait \in Nat
      BY <2>1, StampIs, StoreAssumption
    <2>4. /\ PushedRow(k, t, now).firstSeen = artifacts[k].firstSeen
          /\ PushedRow(k, t, now).lastUsed = now
      BY <1>1, <2>1 DEF PushedRow, Row
    <2> QED BY <2>1, <2>2, <2>3, <2>4 DEF AgesOf
  <1>2. CASE k \notin DOMAIN artifacts
    BY <1>2, NewRowAges DEF PushedRow, StoreInv, StoreTypeOK
  <1> QED BY <1>1, <1>2

LEMMA SyncedRowAges ==
    ASSUME StoreInv, NEW k, NEW t, NEW now \in Stamps
    PROVE  AgesOf(SyncedRow(k, t, now))
  <1>1. CASE k \in DOMAIN artifacts
    <2>1. artifacts[k] \in Row /\ AgesOf(artifacts[k])
      BY <1>1 DEF StoreInv, StoreTypeOK, AgesOrdered, AgesOf
    <2>2. /\ SyncedRow(k, t, now).firstSeen = artifacts[k].firstSeen
          /\ SyncedRow(k, t, now).lastUsed = artifacts[k].lastUsed
      BY <1>1, <2>1 DEF SyncedRow, Row
    <2> QED BY <2>1, <2>2 DEF AgesOf
  <1>2. CASE k \notin DOMAIN artifacts
    BY <1>2, NewRowAges DEF SyncedRow, StoreInv, StoreTypeOK
  <1> QED BY <1>1, <1>2

\* The store starts empty.
LEMMA StoreInitInv == StoreInit => StoreInv
  BY DEF StoreInit, StoreInv, StoreTypeOK, AgesOrdered, TagIndexed

LEMMA PushInv ==
    ASSUME StoreInv, NEW k \in Key, NEW t \in Tags \cup {NoTag},
           NEW now \in Stamps, ApplyPush(k, t, now)
    PROVE  StoreInv'
  <1>1. /\ clock' = clock /\ clock \in Nat
        /\ artifacts' = [j \in DOMAIN artifacts \cup {k} |->
                            IF j \in {k} THEN PushedRow(j, t, now) ELSE artifacts[j]]
        /\ artifactTags' = artifactTags \cup TagRows(k, t)
    BY DEF ApplyPush, Upsert, StoreInv, StoreTypeOK
  <1>2. PushedRow(k, t, now) \in Row
    BY <1>1, StampIs, PushedRowType DEF StoreInv
  <1>3. StoreTypeOK'
    BY <1>1, <1>2 DEF StoreInv, StoreTypeOK, TagRows
  <1>4. AgesOrdered'
    BY <1>1, PushedRowAges DEF StoreInv, AgesOrdered, AgesOf
  <1>5. TagIndexed'
    BY <1>1 DEF StoreInv, StoreTypeOK, TagIndexed, PushedRow, NewRow, Row,
                TagRows, Coalesce
  <1> QED BY <1>3, <1>4, <1>5 DEF StoreInv

LEMMA PullInv ==
    ASSUME StoreInv, NEW k \in Key, NEW t \in Tags \cup {NoTag},
           NEW now \in Stamps, ApplyPull(k, t, now)
    PROVE  StoreInv'
  <1>1. now \in Nat /\ now <= clock /\ clock <= now + MaxWait /\ MaxWait \in Nat
    BY StampIs, StoreAssumption DEF StoreInv, StoreTypeOK
  <1> QED BY <1>1 DEF ApplyPull, StoreInv, StoreTypeOK, AgesOrdered, TagIndexed,
                      Active, Row, TagRows, Coalesce

LEMMA DeleteInv ==
    ASSUME StoreInv, NEW k \in Key, ApplyDelete(k)
    PROVE  StoreInv'
  BY DEF ApplyDelete, StoreInv, StoreTypeOK, AgesOrdered, TagIndexed, Active, Row

LEMMA OtherInv ==
    ASSUME StoreInv, NEW k \in Key, NEW t \in Tags \cup {NoTag}, ApplyOther(k, t)
    PROVE  StoreInv'
  BY DEF ApplyOther, StoreInv, StoreTypeOK, AgesOrdered, TagIndexed, TagRows

LEMMA SyncInv ==
    ASSUME StoreInv, NEW r \in Repos, NEW S \in SUBSET Tags,
           NEW found \in [S -> Digests], NEW now \in Stamps, SyncRepo(r, found, now)
    PROVE  StoreInv'
  <1>1. PICK latest \in Latest(found) :
          artifacts' = Upsert({<<r, d>> : d \in DOMAIN latest},
                              LAMBDA k : SyncedRow(k, latest[k[2]], now))
    BY DEF SyncRepo
  <1> DEFINE K == {<<r, d>> : d \in DOMAIN latest}
  <1>2. artifacts' = [k \in DOMAIN artifacts \cup K |->
                        IF k \in K THEN SyncedRow(k, latest[k[2]], now) ELSE artifacts[k]]
    BY <1>1 DEF Upsert
  <1>3. /\ clock' = clock /\ clock \in Nat
        /\ artifactTags' = artifactTags \cup {<<<<r, found[t]>>, t>> : t \in DOMAIN found}
    BY DEF SyncRepo, StoreInv, StoreTypeOK
  <1>4. \A d \in DOMAIN latest :
           /\ d \in Digests /\ latest[d] \in S /\ found[latest[d]] = d
    BY DEF Latest
  <1>5. \A k \in K : k \in Key /\ latest[k[2]] \in Tags
    BY <1>4 DEF Key
  <1>6. \A k \in K : SyncedRow(k, latest[k[2]], now) \in Row
    BY <1>3, <1>5, StampIs, SyncedRowType DEF StoreInv
  <1>7. StoreTypeOK'
    <2>1. artifactTags' \subseteq Key \X Tags
      BY <1>3 DEF StoreInv, StoreTypeOK, Key
    <2>2. DOMAIN artifacts' \subseteq Key
      BY <1>2, <1>5 DEF StoreInv, StoreTypeOK
    <2>3. artifacts' \in [DOMAIN artifacts' -> Row]
      BY <1>2, <1>6 DEF StoreInv, StoreTypeOK
    <2> QED BY <1>3, <2>1, <2>2, <2>3 DEF StoreTypeOK
  <1>8. AgesOrdered'
    BY <1>2, <1>3, SyncedRowAges DEF StoreInv, AgesOrdered, AgesOf
  <1>9. TagIndexed'
    <2> SUFFICES ASSUME NEW k \in DOMAIN artifacts', artifacts'[k].tag # NoTag
                 PROVE  <<k, artifacts'[k].tag>> \in artifactTags'
      BY DEF TagIndexed
    <2>1. CASE k \in K
      <3>1. PICK d \in DOMAIN latest : k = <<r, d>>
        BY <2>1
      <3>2. artifacts'[k].tag = latest[d]
        BY <1>2, <1>5, <2>1, <3>1
           DEF SyncedRow, NewRow, StoreInv, StoreTypeOK, Row
      <3>3. latest[d] \in DOMAIN found /\ found[latest[d]] = d
        BY <1>4
      <3> QED BY <1>3, <3>1, <3>2, <3>3
    <2>2. CASE k \notin K
      BY <1>2, <1>3, <2>2 DEF StoreInv, TagIndexed
    <2> QED BY <2>1, <2>2
  <1> QED BY <1>7, <1>8, <1>9 DEF StoreInv

\* The operator's marks, the janitor's mark, the prune and the passing of time.
LEMMA LocalInv ==
    ASSUME StoreInv, Pin \/ Protect \/ JanitorMark \/ PruneMetadata \/ Tick
    PROVE  StoreInv'
  <1>1. CASE Pin
    BY <1>1 DEF Pin, HandlePin, StoreInv, StoreTypeOK, AgesOrdered, TagIndexed, Row
  <1>2. CASE Protect
    BY <1>2 DEF Protect, HandleProtect, StoreInv, StoreTypeOK, AgesOrdered, TagIndexed, Row
  <1>3. CASE JanitorMark
    BY <1>3 DEF JanitorMark, MarkDeleted, StoreInv, StoreTypeOK, AgesOrdered, TagIndexed, Row
  <1>4. CASE PruneMetadata
    BY <1>4 DEF PruneMetadata, StoreInv, StoreTypeOK, AgesOrdered, TagIndexed
  <1>5. CASE Tick
    BY <1>5 DEF Tick, StoreInv, StoreTypeOK, AgesOrdered, TagIndexed, Row
  <1> QED BY <1>1, <1>2, <1>3, <1>4, <1>5

LEMMA NotificationInv ==
    ASSUME StoreInv, Notification
    PROVE  StoreInv'
  <1>1. PICK action \in Actions, k \in Key, t \in Tags \cup {NoTag}, now \in Stamps :
            RecordEvent(action, k, t, now)
    BY DEF Notification
  <1>2. ApplyPush(k, t, now) \/ ApplyPull(k, t, now) \/ ApplyDelete(k) \/ ApplyOther(k, t)
    BY <1>1 DEF RecordEvent, Actions
  <1> QED BY <1>2, PushInv, PullInv, DeleteInv, OtherInv

LEMMA StoreNextInv == StoreInv /\ [StoreNext]_storeVars => StoreInv'
  <1> SUFFICES ASSUME StoreInv, [StoreNext]_storeVars PROVE StoreInv'
    OBVIOUS
  <1>1. CASE Notification
    BY <1>1, NotificationInv
  <1>2. CASE CatalogSync
    BY <1>2, SyncInv DEF CatalogSync
  <1>3. CASE Pin \/ Protect \/ JanitorMark \/ PruneMetadata \/ Tick
    BY <1>3, LocalInv
  <1>4. CASE UNCHANGED storeVars
    BY <1>4 DEF storeVars, StoreInv, StoreTypeOK, AgesOrdered, TagIndexed
  <1> QED BY <1>1, <1>2, <1>3, <1>4 DEF StoreNext

\* The rows of the index are well formed, whatever the registries report.
THEOREM StoreTypeCorrect == StoreSpec => []StoreTypeOK
  BY StoreInitInv, StoreNextInv, PTL DEF StoreSpec, StoreInv

\* However events and syncs overtake each other while they wait, no row is
\* shown as used before it was first seen by more than the longest wait, nor in
\* the future.
THEOREM StoreAges == StoreSpec => []AgesOrdered
  BY StoreInitInv, StoreNextInv, PTL DEF StoreSpec, StoreInv

\* The tag shown on a row is always one of the tags recorded for it.
THEOREM StoreTagsIndexed == StoreSpec => []TagIndexed
  BY StoreInitInv, StoreNextInv, PTL DEF StoreSpec, StoreInv

----------------------------------------------------------------------------
(* What a step may not do to a row. *)

\* A notification keeps every row with its marks, and a tombstone unless it is
\* a push for it.
LEMMA NotificationKeeps ==
    ASSUME StoreTypeOK, Notification
    PROVE  MarksKept /\ TombstonesKept
  <1>1. PICK action \in Actions, key \in Key, t \in Tags \cup {NoTag}, now \in Stamps :
            RecordEvent(action, key, t, now)
    BY DEF Notification
  <1>2. ASSUME NEW k \in DOMAIN artifacts
        PROVE  artifacts[k] \in Row
    BY <1>2 DEF StoreTypeOK
  <1>3. CASE action = "push"
    <2>1. artifacts' = [k \in DOMAIN artifacts \cup {key} |->
                           IF k \in {key} THEN PushedRow(k, t, now) ELSE artifacts[k]]
          /\ ApplyPush(key, t, now)
      BY <1>1, <1>3 DEF RecordEvent, ApplyPush, Upsert
    <2>2. ASSUME NEW k \in DOMAIN artifacts
          PROVE  /\ k \in DOMAIN artifacts'
                 /\ artifacts'[k].pinned = artifacts[k].pinned
                 /\ artifacts'[k].explicitProtected = artifacts[k].explicitProtected
                 /\ k = key \/ artifacts'[k] = artifacts[k]
      BY <1>2, <2>1, <2>2 DEF PushedRow, Row
    <2> QED BY <2>1, <2>2 DEF MarksKept, TombstonesKept, Evidence
  <1>4. CASE action = "pull"
    <2>1. ApplyPull(key, t, now)
      BY <1>1, <1>4 DEF RecordEvent
    <2>2. CASE Active(key)
      <3>1. ASSUME NEW k \in DOMAIN artifacts
            PROVE  /\ k \in DOMAIN artifacts'
                   /\ artifacts'[k].pinned = artifacts[k].pinned
                   /\ artifacts'[k].explicitProtected = artifacts[k].explicitProtected
                   /\ k = key \/ artifacts'[k] = artifacts[k]
        BY <1>2, <2>1, <2>2, <3>1 DEF ApplyPull, Row
      <3> QED BY <2>2, <3>1 DEF MarksKept, TombstonesKept, Active, Tombstone
    <2>3. CASE ~Active(key)
      BY <2>1, <2>3 DEF ApplyPull, MarksKept, TombstonesKept
    <2> QED BY <2>2, <2>3
  <1>5. CASE action = "delete"
    <2>1. ApplyDelete(key)
      BY <1>1, <1>5 DEF RecordEvent
    <2>2. ASSUME NEW k \in DOMAIN artifacts
          PROVE  /\ k \in DOMAIN artifacts'
                 /\ artifacts'[k].pinned = artifacts[k].pinned
                 /\ artifacts'[k].explicitProtected = artifacts[k].explicitProtected
                 /\ Active(k) \/ artifacts'[k] = artifacts[k]
      BY <1>2, <2>1, <2>2 DEF ApplyDelete, Row
    <2> QED BY <2>2 DEF MarksKept, TombstonesKept, Active, Tombstone
  <1>6. CASE action = "other"
    BY <1>1, <1>6 DEF RecordEvent, ApplyOther, MarksKept, TombstonesKept
  <1> QED BY <1>3, <1>4, <1>5, <1>6 DEF Actions

\* A catalog sync keeps every row with its marks, and the tombstones of the
\* artifacts it was not answered.
LEMMA SyncKeeps ==
    ASSUME StoreTypeOK, CatalogSync
    PROVE  MarksKept /\ TombstonesKept
  <1>1. PICK r \in Repos, S \in SUBSET Tags, now \in Stamps :
            \E found \in [S -> Digests] : SyncRepo(r, found, now)
    BY DEF CatalogSync
  <1>2. PICK found \in [S -> Digests] : SyncRepo(r, found, now)
    BY <1>1
  <1>3. PICK latest \in Latest(found) :
            artifacts' = [k \in DOMAIN artifacts \cup {<<r, d>> : d \in DOMAIN latest} |->
                             IF k \in {<<r, d>> : d \in DOMAIN latest}
                             THEN SyncedRow(k, latest[k[2]], now) ELSE artifacts[k]]
    BY <1>2 DEF SyncRepo, Upsert
  <1>4. ASSUME NEW d \in DOMAIN latest PROVE \E t \in S : found[t] = d
    BY <1>3, <1>4 DEF Latest
  <1>5. ASSUME NEW k \in DOMAIN artifacts
        PROVE  /\ k \in DOMAIN artifacts'
               /\ artifacts'[k].pinned = artifacts[k].pinned
               /\ artifacts'[k].explicitProtected = artifacts[k].explicitProtected
               /\ artifacts'[k] = artifacts[k] \/ Evidence(k)
    <2>1. artifacts[k] \in Row
      BY <1>5 DEF StoreTypeOK
    <2>2. CASE k \in {<<r, d>> : d \in DOMAIN latest}
      <3>1. artifacts'[k] = SyncedRow(k, latest[k[2]], now) /\ k \in DOMAIN artifacts'
        BY <1>3, <2>2
      <3>2. PICK d \in DOMAIN latest : k = <<r, d>>
        BY <2>2
      <3>3. k[1] = r /\ k[2] = d
        BY <3>2
      <3>4. Evidence(k)
        BY <1>2, <1>4, <3>3 DEF Evidence
      <3> QED BY <1>5, <2>1, <3>1, <3>4 DEF SyncedRow, Row
    <2>3. CASE k \notin {<<r, d>> : d \in DOMAIN latest}
      BY <1>3, <1>5, <2>3
    <2> QED BY <2>2, <2>3
  <1> QED BY <1>5 DEF MarksKept, TombstonesKept

\* The other steps keep the rows; only pin and protect touch a mark.
LEMMA LocalKeeps ==
    ASSUME StoreTypeOK, Pin \/ Protect \/ JanitorMark \/ PruneMetadata \/ Tick
    PROVE  MarksKept /\ TombstonesKept
  <1>1. ASSUME NEW k \in DOMAIN artifacts
        PROVE  artifacts[k] \in Row
    BY <1>1 DEF StoreTypeOK
  <1>2. CASE Pin
    <2>1. ASSUME NEW k \in DOMAIN artifacts
          PROVE  /\ k \in DOMAIN artifacts'
                 /\ artifacts'[k].explicitProtected = artifacts[k].explicitProtected
      BY <1>1, <1>2, <2>1 DEF Pin, HandlePin, Row
    <2> QED BY <1>2, <2>1 DEF MarksKept, TombstonesKept
  <1>3. CASE Protect
    <2>1. ASSUME NEW k \in DOMAIN artifacts
          PROVE  /\ k \in DOMAIN artifacts'
                 /\ artifacts'[k].pinned = artifacts[k].pinned
      BY <1>1, <1>3, <2>1 DEF Protect, HandleProtect, Row
    <2> QED BY <1>3, <2>1 DEF MarksKept, TombstonesKept
  <1>4. CASE JanitorMark
    <2>1. ASSUME NEW k \in DOMAIN artifacts
          PROVE  /\ k \in DOMAIN artifacts'
                 /\ artifacts'[k].pinned = artifacts[k].pinned
                 /\ artifacts'[k].explicitProtected = artifacts[k].explicitProtected
      BY <1>1, <1>4, <2>1 DEF JanitorMark, MarkDeleted, Row
    <2> QED BY <1>4, <2>1 DEF MarksKept, TombstonesKept
  <1>5. CASE PruneMetadata \/ Tick
    BY <1>5 DEF PruneMetadata, Tick, MarksKept, TombstonesKept
  <1> QED BY <1>2, <1>3, <1>4, <1>5

LEMMA StoreNextKeeps ==
    StoreTypeOK /\ [StoreNext]_storeVars
        => [MarksKept]_storeVars /\ [TombstonesKept]_storeVars
  BY NotificationKeeps, SyncKeeps, LocalKeeps DEF StoreNext

\* Whatever the registry reports, in whatever order, an operator's pin and
\* protection stay on the row until the operator takes them off.
THEOREM StoreMarksStick == StoreSpec => MarksStick
  BY StoreInitInv, StoreNextInv, StoreNextKeeps, PTL
  DEF StoreSpec, StoreInv, MarksStick

\* A tombstone is lifted only by a push for the artifact, or by a catalog sync
\* that was answered its digest.
THEOREM StoreTombstonesStay == StoreSpec => TombstonesStay
  BY StoreInitInv, StoreNextInv, StoreNextKeeps, PTL
  DEF StoreSpec, StoreInv, TombstonesStay
=============================================================================
