--------------------------- MODULE ArtifactStore ---------------------------
(***************************************************************************)
(* The metadata index the control process keeps in SQLite: the tables      *)
(* `artifacts` and `artifact_tags` (src/app/app.go), and every operation   *)
(* that writes them: registry notifications (store.go), catalog sync       *)
(* (catalog.go), pin and protect (handlers.go), the janitor's              *)
(* markDeleted and the metadata prune (store.go).                          *)
(*                                                                         *)
(* Each operation is one SQL statement or one transaction on the process's *)
(* single connection, so each is one action.  The time an operation writes *)
(* is not the time of that action: recordEvent reads the clock before it   *)
(* waits for the connection, and the sync as soon as it has it, so `now`   *)
(* is a parameter, any day not more than MaxWait ago.  Sizes, media types, *)
(* use counts, the raw event log and the text of timestamps are left out;  *)
(* the clock is a counter of policy time units ("days").                   *)
(*                                                                         *)
(* A definition that begins with "Slip:" is not the code's: it is a mistake *)
(* the code could contain, and a property below fails when it takes the    *)
(* place of the definition that follows it.                                *)
(***************************************************************************)
EXTENDS Integers

CONSTANTS
    Repos,            \* canonical repositories, "<upstream host>/<repo>"
    Digests,          \* manifest digests
    Tags,             \* tags
    NoTag,            \* SQL NULL in artifacts.tag
    ProtectedRepos,   \* the repositories PROTECTED_REPOS_REGEX matches
    ProtectedTags,    \* the tags PROTECTED_TAGS_REGEX matches
    UnusedDays,       \* cfg.UnusedDays
    MinCacheAgeDays,  \* cfg.MinCacheAgeDays
    MaxWait,          \* the longest time from reading the clock to the write
    MaxClock          \* bound of the model: the last day TLC explores

ASSUME StoreAssumption ==
    /\ NoTag \notin Tags
    /\ UnusedDays \in Nat \ {0}
    /\ MinCacheAgeDays \in Nat /\ MaxWait \in Nat /\ MaxClock \in Nat

VARIABLES
    clock,            \* the day nowRFC3339() falls on
    artifacts,        \* table artifacts: a partial function from Key to Row
    artifactTags      \* table artifact_tags, without its timestamps

storeVars == <<clock, artifacts, artifactTags>>

Key == Repos \X Digests

\* deleted_at and delete_reason are set and cleared together: "no" is NULL,
\* the other values say who set them.
Row == [tag: Tags \cup {NoTag}, firstSeen: Nat, lastUsed: Nat,
        pinned: BOOLEAN, explicitProtected: BOOLEAN,
        deleted: {"no", "event", "janitor"}]

StoreTypeOK ==
    /\ clock \in Nat
    /\ DOMAIN artifacts \subseteq Key
    /\ artifacts \in [DOMAIN artifacts -> Row]
    /\ artifactTags \subseteq Key \X Tags

\* What nowRFC3339() may have answered to an operation that writes now.
Stamps == {now \in 0 .. clock : clock <= now + MaxWait}

Active(k) == k \in DOMAIN artifacts /\ artifacts[k].deleted = "no"
Tombstone(k) == k \in DOMAIN artifacts /\ artifacts[k].deleted # "no"

----------------------------------------------------------------------------
(* SQL idioms. *)

Coalesce(t, old) == IF t = NoTag THEN old ELSE t

\* Slip: the check for an empty tag is forgotten.
TagRowsEmptyTag(k, t) == {<<k, t>>}

\* upsertArtifactTag, called only for a tag that is not empty.
TagRows(k, t) == IF t = NoTag THEN {} ELSE {<<k, t>>}

\* INSERT of a row never seen before.
NewRow(t, now) == [tag |-> t, firstSeen |-> now, lastUsed |-> now,
                   pinned |-> FALSE, explicitProtected |-> FALSE, deleted |-> "no"]

\* artifacts after the rows of the keys K become RowOf(k).
Upsert(K, RowOf(_)) ==
    [k \in DOMAIN artifacts \cup K |->
        IF k \in K THEN RowOf(k) ELSE artifacts[k]]

\* Whether isProtected's two expressions match: the tag it tests is the one
\* column artifacts.tag, the last tag seen on the digest.
RegexProtected(k) ==
    k[1] \in ProtectedRepos \/ artifacts[k].tag \in ProtectedTags

\* Slip: only protection is checked, not the pin.
UnblockedThoughPinned(k, emergency) ==
    /\ artifacts[k].deleted = "no"
    /\ ~RegexProtected(k) /\ ~artifacts[k].explicitProtected
    /\ clock - artifacts[k].lastUsed >= UnusedDays
    /\ emergency \/ clock - artifacts[k].firstSeen >= MinCacheAgeDays

\* decorateArtifact: the row has no reason to be blocked from deletion.
Unblocked(k, emergency) ==
    /\ artifacts[k].deleted = "no"
    /\ ~artifacts[k].pinned
    /\ ~RegexProtected(k) /\ ~artifacts[k].explicitProtected
    /\ clock - artifacts[k].lastUsed >= UnusedDays
    /\ emergency \/ clock - artifacts[k].firstSeen >= MinCacheAgeDays

\* listCandidates: the query's WHERE, with the cutoffs made of the time before
\* the query waited, then decorateArtifact's verdict, which reads the clock.
ListCandidates(emergency, now) ==
    {k \in DOMAIN artifacts :
        /\ artifacts[k].deleted = "no"
        /\ artifacts[k].lastUsed < now - UnusedDays
        /\ emergency \/ artifacts[k].firstSeen < now - MinCacheAgeDays
        /\ Unblocked(k, emergency)}

----------------------------------------------------------------------------
(* Registry notifications, applied by recordEvent in one transaction. *)

\* Slip: the conflict clause writes the pin of the inserted row as well.
PushedRowUnpins(k, t, now) ==
    IF k \in DOMAIN artifacts
    THEN [artifacts[k] EXCEPT !.tag = Coalesce(t, @), !.lastUsed = now,
                              !.deleted = "no", !.pinned = FALSE]
    ELSE NewRow(t, now)

PushedRow(k, t, now) ==
    IF k \in DOMAIN artifacts
    THEN [artifacts[k] EXCEPT !.tag = Coalesce(t, @), !.lastUsed = now,
                              !.deleted = "no"]
    ELSE NewRow(t, now)

ApplyPush(k, t, now) ==
    /\ artifacts' = Upsert({k}, LAMBDA x : PushedRow(x, t, now))
    /\ artifactTags' = artifactTags \cup TagRows(k, t)
    /\ UNCHANGED clock

\* Slip: the pull is not restricted to rows that are not deleted.
ApplyPullToTombstone(k, t, now) ==
    /\ IF k \in DOMAIN artifacts
       THEN /\ artifacts' = [artifacts EXCEPT ![k].lastUsed = now,
                                              ![k].tag = Coalesce(t, @)]
            /\ artifactTags' = artifactTags \cup TagRows(k, t)
       ELSE UNCHANGED <<artifacts, artifactTags>>
    /\ UNCHANGED clock

ApplyPull(k, t, now) ==
    /\ IF Active(k)
       THEN /\ artifacts' = [artifacts EXCEPT ![k].lastUsed = now,
                                              ![k].tag = Coalesce(t, @)]
            /\ artifactTags' = artifactTags \cup TagRows(k, t)
       ELSE UNCHANGED <<artifacts, artifactTags>>
    /\ UNCHANGED clock

ApplyDelete(k) ==
    /\ artifacts' = [j \in DOMAIN artifacts |->
                        IF j = k /\ Active(k)
                        THEN [artifacts[k] EXCEPT !.deleted = "event"]
                        ELSE artifacts[j]]
    /\ UNCHANGED <<clock, artifactTags>>

\* Any other action with a tag records the tag, with or without an artifact.
ApplyOther(k, t) ==
    /\ artifactTags' = artifactTags \cup TagRows(k, t)
    /\ UNCHANGED <<clock, artifacts>>

\* recordEvent's switch on the action of an event that names a repository
\* and a digest; an event without them changes neither table.
RecordEvent(action, k, t, now) ==
    CASE action = "push"   -> ApplyPush(k, t, now)
      [] action = "pull"   -> ApplyPull(k, t, now)
      [] action = "delete" -> ApplyDelete(k)
      [] OTHER             -> ApplyOther(k, t)

Actions == {"push", "pull", "delete", "other"}

----------------------------------------------------------------------------
(* Catalog sync of one repository.                                         *)
(* found[t] is the digest the registry answered for tag t;                 *)
(* latest[d] is the tag listed last among those that answered d.           *)

Latest(found) ==
    {latest \in [{found[t] : t \in DOMAIN found} -> DOMAIN found] :
        \A d \in DOMAIN latest : found[latest[d]] = d}

\* Slip: the conflict clause renews first_seen_at.
SyncedRowSeenNow(k, t, now) ==
    IF k \in DOMAIN artifacts
    THEN [artifacts[k] EXCEPT !.tag = t, !.deleted = "no", !.firstSeen = now]
    ELSE NewRow(t, now)

\* Slip: the conflict clause leaves deleted_at.
SyncedRowStaysDeleted(k, t, now) ==
    IF k \in DOMAIN artifacts
    THEN [artifacts[k] EXCEPT !.tag = t]
    ELSE NewRow(t, now)

SyncedRow(k, t, now) ==
    IF k \in DOMAIN artifacts
    THEN [artifacts[k] EXCEPT !.tag = t, !.deleted = "no"]
    ELSE NewRow(t, now)

SyncRepo(r, found, now) ==
    /\ \E latest \in Latest(found) :
          artifacts' = Upsert({<<r, d>> : d \in DOMAIN latest},
                              LAMBDA k : SyncedRow(k, latest[k[2]], now))
    /\ artifactTags' = artifactTags \cup {<<<<r, found[t]>>, t>> : t \in DOMAIN found}
    /\ UNCHANGED clock

----------------------------------------------------------------------------
(* The operator's marks, the janitor's mark and housekeeping. *)

HandlePin(k, b) ==
    /\ k \in DOMAIN artifacts
    /\ artifacts' = [artifacts EXCEPT ![k].pinned = b]
    /\ UNCHANGED <<clock, artifactTags>>

HandleProtect(k, b) ==
    /\ k \in DOMAIN artifacts
    /\ artifacts' = [artifacts EXCEPT ![k].explicitProtected = b]
    /\ UNCHANGED <<clock, artifactTags>>

\* The UPDATE repeats none of the checks listCandidates made.
MarkDeleted(k) ==
    /\ k \in DOMAIN artifacts
    /\ artifacts' = [artifacts EXCEPT ![k].deleted = "janitor"]
    /\ UNCHANGED <<clock, artifactTags>>

\* Slip: the tags of deleted artifacts are pruned too.
PruneMetadataOfTombstones ==
    /\ artifactTags' = {x \in artifactTags : Active(x[1])}
    /\ UNCHANGED <<clock, artifacts>>

PruneMetadata ==
    /\ artifactTags' = {x \in artifactTags : x[1] \in DOMAIN artifacts}
    /\ UNCHANGED <<clock, artifacts>>

Tick ==
    /\ clock < MaxClock
    /\ clock' = clock + 1
    /\ UNCHANGED <<artifacts, artifactTags>>

----------------------------------------------------------------------------
StoreInit ==
    /\ clock = 0
    /\ artifacts = [k \in {} |-> NewRow(NoTag, 0)]
    /\ artifactTags = {}

Notification ==
    \E action \in Actions, k \in Key, t \in Tags \cup {NoTag}, now \in Stamps :
        RecordEvent(action, k, t, now)

CatalogSync ==
    \E r \in Repos, S \in SUBSET Tags, now \in Stamps :
        /\ S # {}
        /\ \E found \in [S -> Digests] : SyncRepo(r, found, now)

Pin == \E k \in Key, b \in BOOLEAN : HandlePin(k, b)
Protect == \E k \in Key, b \in BOOLEAN : HandleProtect(k, b)

\* A candidate stays in the janitor's list while anything else happens to its
\* row, so the janitor may mark any row, once something could be a candidate.
JanitorMark == UnusedDays < clock /\ \E k \in Key : MarkDeleted(k)

StoreNext ==
    \/ Notification \/ CatalogSync \/ Pin \/ Protect
    \/ JanitorMark \/ PruneMetadata \/ Tick

StoreSpec == StoreInit /\ [][StoreNext]_storeVars

----------------------------------------------------------------------------
(* Properties. *)

\* The two ages the cleanup policy compares stay together: nothing was used or
\* seen in the future, and a row is not shown as used before it was first seen
\* by more than an operation can wait.  It may be shown so by less: an event
\* that waits while a sync inserts the row is written with its older time, so
\* the policy can take a row for unused that much too early, and no earlier,
\* however often events overtake each other.
AgesOrdered ==
    \A k \in DOMAIN artifacts :
        /\ artifacts[k].firstSeen <= artifacts[k].lastUsed + MaxWait
        /\ artifacts[k].lastUsed <= clock
        /\ artifacts[k].firstSeen <= clock

\* The denormalised column and the table agree: the tag a row shows is one of
\* the tags artifact_tags holds for it.  Push, pull and sync write the two
\* tables separately, and the prune deletes from one of them.
TagIndexed ==
    \A k \in DOMAIN artifacts :
        artifacts[k].tag # NoTag => <<k, artifacts[k].tag>> \in artifactTags

\* Rows stay, and their two marks change only by the operator's hand.
MarksKept ==
    \A k \in DOMAIN artifacts :
        /\ k \in DOMAIN artifacts'
        /\ artifacts'[k].pinned # artifacts[k].pinned => Pin
        /\ artifacts'[k].explicitProtected # artifacts[k].explicitProtected
              => Protect

\* An operator's pin and protection survive whatever the registry reports: a
\* row is never dropped, not even by a deletion and a later push of the same
\* digest, and only handlePin and handleProtect change its two marks.
MarksStick == [][MarksKept]_storeVars

\* What shows that the registry holds k: a push or mount event for it, or a
\* catalog sync of its repository that was answered its digest.
Evidence(k) ==
    \/ \E t \in Tags \cup {NoTag}, now \in Stamps : ApplyPush(k, t, now)
    \/ \E S \in SUBSET Tags, now \in Stamps : \E found \in [S -> Digests] :
          /\ \E t \in S : found[t] = k[2]
          /\ SyncRepo(k[1], found, now)

TombstonesKept ==
    \A k \in DOMAIN artifacts :
        Tombstone(k) => \/ artifacts'[k] = artifacts[k]
                        \/ Pin \/ Protect \/ JanitorMark
                        \/ Evidence(k)

\* A deleted artifact comes back only when the registry shows that it holds
\* the manifest again.  Until then a late pull or a repeated delete leaves the
\* tombstone as it is (README.md, "Operational Safety": a delete event marks
\* the deletion and does not resurrect).
TombstonesStay == [][TombstonesKept]_storeVars
=============================================================================
