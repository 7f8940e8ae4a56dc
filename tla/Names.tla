-------------------------------- MODULE Names --------------------------------
(***************************************************************************)
(* How an artifact is named (src/app/upstreams.go, router.go), and the     *)
(* rewriting of the names stored before there were several upstreams       *)
(* (normalizeStoredRepos, store.go), which every process that opens the    *)
(* database does when it starts: control and the gc-worker, side by side.  *)
(*                                                                         *)
(* A repository name is a sequence of segments, those between the slashes; *)
(* a host is one segment.  The spaces and slashes around a name are left   *)
(* out.                                                                    *)
(*                                                                         *)
(* A definition that begins with "Slip:" is not the code's: it is a mistake *)
(* the code could contain, and a property below fails when it takes the    *)
(* place of the definition that follows it.                                *)
(***************************************************************************)
EXTENDS Integers, Sequences, FiniteSets

CONSTANTS
    Segments, Lower,   \* segments, and strings.ToLower of each
    UpstreamsJSON,     \* the configured targets: [host, default]
    Digests, Tags,
    Repos,             \* names under which an upstream knows its repositories
    Legacy,            \* artifacts of the version for Docker Hub alone: <<name, digest>>
    MaxTags,           \* bound of the model: rows of artifact_tags it left
    MaxEvents,         \* bound of the model: notifications
    MaxFaults          \* bound of the model: crashes and failed statements

VARIABLES
    artifacts,   \* rows by rowid; of is a history: what the row stands for
    tags,        \* the rows of artifact_tags by rowid
    events,      \* rows by id
    lastEvent,   \* the id of the last event
    process,     \* where each process stands, and the updates it has to make
    faults

tableVars == <<artifacts, tags, events, lastEvent>>
nameVars == <<tableVars, process, faults>>

Name == Seq(Segments)

----------------------------------------------------------------------------
(* The configuration: parseUpstreamTargets. *)

\* What it refuses: no target, two defaults, a host twice.
Accepted(ts) ==
    /\ ts # <<>>
    /\ \A i, j \in DOMAIN ts :
          i # j => /\ ~(ts[i].default /\ ts[j].default)
                   /\ Lower[ts[i].host] # Lower[ts[j].host]

\* What it makes of an accepted list.
ParseUpstreamTargets(ts) ==
    LET anyDefault == \E i \in DOMAIN ts : ts[i].default
    IN  [i \in DOMAIN ts |->
            [host |-> Lower[ts[i].host],
             default |-> ts[i].default \/ (~anyDefault /\ i = 1)]]

Upstreams == ParseUpstreamTargets(UpstreamsJSON)
Hosts == {Upstreams[i].host : i \in DOMAIN Upstreams}

DefaultTarget == Upstreams[CHOOSE i \in DOMAIN Upstreams : Upstreams[i].default].host

ASSUME NamesAssumption ==
    /\ Lower \in [Segments -> Segments]
    /\ \A s \in Segments : Lower[Lower[s]] = Lower[s]
    /\ UpstreamsJSON \in Seq([host: Segments, default: BOOLEAN])
    /\ Accepted(UpstreamsJSON)
    /\ Repos \subseteq Name \ {<<>>}
    /\ Legacy \subseteq (Name \ {<<>>}) \X Digests /\ IsFiniteSet(Legacy)
    /\ \A a \in Legacy : Lower[Head(a[1])] \notin Hosts
    /\ MaxTags \in Nat /\ MaxEvents \in Nat /\ MaxFaults \in Nat

----------------------------------------------------------------------------
(* Names. *)

\* strings.HasPrefix(strings.ToLower(name), host + "/")
HasPrefix(name, host) == Len(name) > 1 /\ Lower[Head(name)] = host

\* FindTargetByHost, or else the default.
TargetOrDefault(host) == IF Lower[host] \in Hosts THEN Lower[host] ELSE DefaultTarget

\* Slip: a name that begins with a host is taken for canonical already.
CanonicalRepoOnce(host, repo) ==
    IF \E h \in Hosts : HasPrefix(repo, h) THEN repo
    ELSE <<TargetOrDefault(host)>> \o repo

\* The name under which the index keeps the repository of a target.
CanonicalRepo(host, repo) ==
    IF repo = <<>> THEN <<>> ELSE <<TargetOrDefault(host)>> \o repo

\* The target and the name at that target, of a name in the index.  The host
\* is found whatever its case, and trimmed only in lower case.
ResolveRepoTarget(name) ==
    IF \E h \in Hosts : HasPrefix(name, h)
    THEN <<Lower[Head(name)],
           IF Head(name) = Lower[Head(name)] THEN Tail(name) ELSE name>>
    ELSE <<DefaultTarget, name>>

\* RegistryRouter.resolveTarget, for the path of a request on a repository:
\* the cache that serves it, and the name there.
ResolveTarget(name) ==
    IF \E h \in Hosts : HasPrefix(name, h)
    THEN <<Lower[Head(name)], Tail(name)>>
    ELSE <<DefaultTarget, name>>

----------------------------------------------------------------------------
(* The start of a process. *)

Processes == {"control", "gc-worker"}

\* Slip: the test whether a name is canonical is left out.
AlreadyCanonicalNever(name) == FALSE

AlreadyCanonical(name) == \E h \in Hosts : HasPrefix(name, h)

Updates(rows) ==
    {[id |-> i, repo |-> CanonicalRepo(DefaultTarget, rows[i].repo)] :
        i \in {j \in DOMAIN rows : ~AlreadyCanonical(rows[j].repo)}}

\* rewriteTable selects a table: artifacts first, then artifact_tags, then
\* events, each when the updates of the one before are made.
Select(p, from, table, rows) ==
    /\ process[p].pc = from /\ process[p].updates = {}
    /\ process' = [process EXCEPT ![p] = [pc |-> table, updates |-> Updates(rows)]]
    /\ UNCHANGED <<tableVars, faults>>

SelectArtifacts(p) == Select(p, "down", "artifacts", artifacts)
SelectTags(p) == Select(p, "artifacts", "tags", tags)
SelectEvents(p) == Select(p, "tags", "events", events)

Done(p, u) == process' = [process EXCEPT ![p].updates = @ \ {u}]

\* Slip: the statement prefixes what the row says by then.
SetRepoPrefixed(rows, u) ==
    [i \in DOMAIN rows |->
        IF i = u.id
        THEN [rows[i] EXCEPT !.repo = CanonicalRepo(DefaultTarget, rows[i].repo)]
        ELSE rows[i]]

\* The UPDATE of one row, if it is still there.
SetRepo(rows, u) ==
    [i \in DOMAIN rows |-> IF i = u.id THEN [rows[i] EXCEPT !.repo = u.repo]
                           ELSE rows[i]]

\* PRIMARY KEY (repo, digest)
Refused(u) ==
    /\ u.id \in DOMAIN artifacts
    /\ \E i \in DOMAIN artifacts \ {u.id} :
          artifacts[i].repo = u.repo /\ artifacts[i].digest = artifacts[u.id].digest

\* PRIMARY KEY (repo, digest, tag): the row i is in the way of the update.
Clash(u, i) ==
    /\ u.id \in DOMAIN tags /\ i # u.id
    /\ tags[i].repo = u.repo
    /\ tags[i].digest = tags[u.id].digest /\ tags[i].tag = tags[u.id].tag

TagRefused(u) == \E i \in DOMAIN tags : Clash(u, i)

UpdateArtifact(p, u) ==
    /\ process[p].pc = "artifacts" /\ u \in process[p].updates
    /\ ~Refused(u)
    /\ artifacts' = SetRepo(artifacts, u)
    /\ Done(p, u)
    /\ UNCHANGED <<tags, events, lastEvent, faults>>

\* The row with that rowid may be another one by now: artifact_tags loses rows
\* to pruneMetadata, and a row to come takes the rowid of the last one lost.
UpdateTag(p, u) ==
    /\ process[p].pc = "tags" /\ u \in process[p].updates
    /\ ~TagRefused(u)
    /\ tags' = SetRepo(tags, u)
    /\ Done(p, u)
    /\ UNCHANGED <<artifacts, events, lastEvent, faults>>

\* An update is refused: the application does not start.  It is restarted.
UpdateRefused(p, u) ==
    /\ u \in process[p].updates
    /\ IF process[p].pc = "artifacts" THEN Refused(u)
       ELSE process[p].pc = "tags" /\ TagRefused(u)
    /\ process' = [process EXCEPT ![p] = [pc |-> "down", updates |-> {}]]
    /\ UNCHANGED <<tableVars, faults>>

\* Slip: an update that finds no row is made again.
UpdateEventAgain(p, u) ==
    /\ process[p].pc = "events" /\ u \in process[p].updates
    /\ u.id \in DOMAIN events
    /\ events' = SetRepo(events, u)
    /\ Done(p, u)
    /\ UNCHANGED <<artifacts, tags, lastEvent, faults>>

UpdateEvent(p, u) ==
    /\ process[p].pc = "events" /\ u \in process[p].updates
    /\ events' = SetRepo(events, u)
    /\ Done(p, u)
    /\ UNCHANGED <<artifacts, tags, lastEvent, faults>>

Knows(repo, d) ==
    \E i \in DOMAIN artifacts : artifacts[i].repo = repo /\ artifacts[i].digest = d

\* pruneMetadata: tags of what is not in artifacts.
WithoutOrphans(rows) ==
    [i \in {j \in DOMAIN rows : Knows(rows[j].repo, rows[j].digest)} |-> rows[i]]

\* What is left of a start is pruneMetadata.
AllRewritten(p) == process[p].pc = "events" /\ process[p].updates = {}

Serve(p) ==
    /\ AllRewritten(p)
    /\ tags' = WithoutOrphans(tags)
    /\ process' = [process EXCEPT ![p].pc = "up"]
    /\ UNCHANGED <<artifacts, events, lastEvent, faults>>

\* The process dies, or the database is locked for longer than a statement of
\* its start waits.
Crash(p) ==
    /\ faults < MaxFaults /\ faults' = faults + 1
    /\ process' = [process EXCEPT ![p] = [pc |-> "down", updates |-> {}]]
    /\ UNCHANGED tableVars

----------------------------------------------------------------------------
(* Meanwhile. *)

\* The rowid of a row to come is one above the highest there is.  No row of
\* artifacts is ever deleted.
NextIds(rows) ==
    {n \in {1} \cup {i + 1 : i \in DOMAIN rows} : \A i \in DOMAIN rows : i < n}

Insert(rows, i, row) == [j \in DOMAIN rows \cup {i} |-> IF j = i THEN row ELSE rows[j]]

UpsertArtifact(row) ==
    IF Knows(row.repo, row.digest) THEN UNCHANGED artifacts
    ELSE \E new \in NextIds(artifacts) : artifacts' = Insert(artifacts, new, row)

\* History: a process has still to update the row that had this rowid before.
Claimed(id) ==
    \E p \in Processes : process[p].pc = "tags" /\ \E u \in process[p].updates : u.id = id

TagRow(row, t, claimed) ==
    [repo |-> row.repo, digest |-> row.digest, tag |-> t, of |-> row.of,
     claimed |-> claimed]

\* upsertArtifactTag
UpsertTag(row, t) ==
    IF \E i \in DOMAIN tags :
          tags[i].repo = row.repo /\ tags[i].digest = row.digest /\ tags[i].tag = t
    THEN UNCHANGED tags
    ELSE \E new \in NextIds(tags) :
            tags' = Insert(tags, new, TagRow(row, t, Claimed(new)))

\* What recordEvent writes: a push lists the artifact, a pull of one that is
\* not listed leaves no tag, and any other event that has a tag leaves it.
Write(action, row) ==
    /\ lastEvent < MaxEvents + Cardinality(Legacy)
    /\ IF action = "push" THEN UpsertArtifact(row) ELSE UNCHANGED artifacts
    /\ \/ UNCHANGED tags
       \/ /\ action = "pull" => Knows(row.repo, row.digest)
          /\ \E t \in Tags : UpsertTag(row, t)
    /\ lastEvent' = lastEvent + 1
    /\ events' = Insert(events, lastEvent + 1, row)
    /\ UNCHANGED <<process, faults>>

EventRow(host, r, d) ==
    [repo |-> CanonicalRepo(host, r), digest |-> d, of |-> <<host, r>>]

\* Slip: notifications are taken before the names are rewritten.
RecordEventAtOnce(action, host, r, d) == Write(action, EventRow(host, r, d))

\* recordEvent, of a repository of a target; control serves the webhook.
RecordEvent(action, host, r, d) ==
    process["control"].pc = "up" /\ Write(action, EventRow(host, r, d))

\* pruneMetadata, at a start and in control's housekeepingLoop: the event is
\* older than EventRetentionDays.
PruneEvent(p, i) ==
    /\ AllRewritten(p) \/ (p = "control" /\ process[p].pc = "up")
    /\ i \in DOMAIN events
    /\ events' = [j \in DOMAIN events \ {i} |-> events[j]]
    /\ UNCHANGED <<artifacts, tags, lastEvent, process, faults>>

\* The same, of artifact_tags, in housekeepingLoop (at a start see Serve).
PruneTags ==
    /\ process["control"].pc = "up"
    /\ tags' = WithoutOrphans(tags)
    /\ UNCHANGED <<artifacts, events, lastEvent, process, faults>>

----------------------------------------------------------------------------
\* The database of the earlier version, which knew Docker Hub alone.  Its tags
\* need not be of its artifacts: recordEvent keeps the tag of any event.
LegacyRow(name, d) == [repo |-> name, digest |-> d, of |-> <<DefaultTarget, name>>]
LegacyNames == {a[1] : a \in Legacy}

NamesInit ==
    /\ \E art \in [1 .. Cardinality(Legacy) -> Legacy] :
          /\ \A i, j \in DOMAIN art : i # j => art[i] # art[j]
          /\ artifacts = [i \in DOMAIN art |-> LegacyRow(art[i][1], art[i][2])]
    /\ \E n \in 0 .. MaxTags : \E key \in [1 .. n -> LegacyNames \X Digests \X Tags] :
          /\ \A i, j \in DOMAIN key : i # j => key[i] # key[j]
          /\ tags = [i \in DOMAIN key |->
                       TagRow(LegacyRow(key[i][1], key[i][2]), key[i][3], FALSE)]
    /\ events = artifacts
    /\ lastEvent = Cardinality(Legacy)
    /\ process = [p \in Processes |-> [pc |-> "down", updates |-> {}]]
    /\ faults = 0

StartNext(p) ==
    \/ SelectArtifacts(p) \/ SelectTags(p) \/ SelectEvents(p) \/ Serve(p)
    \/ \E u \in process[p].updates :
          \/ UpdateArtifact(p, u) \/ UpdateTag(p, u) \/ UpdateEvent(p, u)
          \/ UpdateRefused(p, u)

NamesNext ==
    \/ \E p \in Processes :
          \/ StartNext(p) \/ Crash(p)
          \/ \E i \in DOMAIN events : PruneEvent(p, i)
    \/ PruneTags
    \/ \E action \in {"push", "pull", "other"}, h \in Hosts, r \in Repos, d \in Digests :
          RecordEvent(action, h, r, d)

NamesSpec == NamesInit /\ [][NamesNext]_nameVars

\* Docker restarts what exits, and a start goes on to its end or a refusal.
NamesFairSpec == NamesSpec /\ \A p \in Processes : WF_nameVars(StartNext(p))

----------------------------------------------------------------------------
(* Properties. *)

Repo == Name \ {<<>>}
Update == [id: Nat, repo: Repo]
Row == [repo: Repo, digest: Digests, of: Hosts \X Repo]
TagRows == [repo: Repo, digest: Digests, tag: Tags, of: Hosts \X Repo,
            claimed: BOOLEAN]

\* No name gains a second host: it is at most one segment longer than the one
\* its cache uses.
NamesTypeOK ==
    /\ \A i \in DOMAIN artifacts : i \in Nat /\ artifacts[i] \in Row
    /\ \A i \in DOMAIN tags : i \in Nat /\ tags[i] \in TagRows
    /\ \A i \in DOMAIN events : i \in 1 .. lastEvent /\ events[i] \in Row
    /\ \A i \in DOMAIN events : Len(events[i].repo) <= Len(events[i].of[2]) + 1
    /\ lastEvent \in 0 .. MaxEvents + Cardinality(Legacy)
    /\ process \in [Processes -> [pc: {"down", "artifacts", "tags", "events", "up"},
                                  updates: SUBSET Update]]
    /\ faults \in 0 .. MaxFaults

\* Whatever name a client asks the router for, one of the index's included, the
\* artifact that comes to be cached is looked up and deleted at that cache,
\* under the name it has there: the router, the event's name in the index and
\* ResolveRepoTarget agree.
PulledIsAddressed ==
    LET Agree(name) ==
            LET served == ResolveTarget(name)
            IN  ResolveRepoTarget(CanonicalRepo(served[1], served[2])) = served
    IN  /\ \A r \in Repos : Agree(r) /\ \A h \in Segments : Agree(<<h>> \o r)
        /\ \A i \in DOMAIN artifacts : Agree(artifacts[i].repo)

\* While control serves, every row names the artifact it was made for, however
\* the two processes' starts and crashes fell: what the janitor deletes by it
\* is that artifact, and a gc-worker that goes on with what it read before
\* renames no artifact and no event to another.  A tag it can give to another,
\* and only one whose row took the rowid of a row that it had read and not
\* updated yet.
RightCache ==
    process["control"].pc = "up" =>
        /\ \A i \in DOMAIN artifacts :
              ResolveRepoTarget(artifacts[i].repo) = artifacts[i].of
        /\ \A i \in DOMAIN tags :
              tags[i].claimed \/ ResolveRepoTarget(tags[i].repo) = tags[i].of
        /\ \A i \in DOMAIN events :
              ResolveRepoTarget(events[i].repo) = events[i].of

\* Rewriting never runs into a row of artifacts that has the new name already,
\* though the other process may have rewritten, and recorded, what it likes
\* since the names were read.  In artifact_tags it does, and the start is
\* refused, only when one of the two rows took a rowid as described above.
NoRefusal ==
    \A p \in Processes : \A u \in process[p].updates :
        /\ process[p].pc = "artifacts" => ~Refused(u)
        /\ process[p].pc = "tags" =>
              \A i \in DOMAIN tags :
                  Clash(u, i) => tags[u.id].claimed \/ tags[i].claimed

\* Once there are no faults any more both processes come up and stay up.
AllComeUp == <>[](\A p \in Processes : process[p].pc = "up")
=============================================================================
