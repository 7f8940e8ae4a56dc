------------------------- MODULE CacheControlProofs -------------------------
(***************************************************************************)
(* What TLAPS proves of CacheControl, for any number of artifacts, tags,   *)
(* concurrent syncs, events, changes and faults.  The invariants build on  *)
(* each other: Typed is inductive alone, each of the others under Typed.   *)
(***************************************************************************)
EXTENDS CacheControl, ArtifactStoreProofs, SequenceTheorems

----------------------------------------------------------------------------
(* The parts of the state and how they hang together. *)

Sync == [pc: {"idle", "begin", "fetch"}, repo: Repos \cup {""},
         todo: SUBSET Tags, found: UNION {[S -> Digests] : S \in SUBSET Tags},
         now: 0 .. MaxClock]

\* The connection is with the sync that fetches; it knows its repository, and
\* has a tag to write or to ask for.
SyncSound ==
    /\ sync \in [Syncers -> Sync]
    /\ conn \in Syncers \cup {"free"}
    /\ \A s \in Syncers :
          /\ conn = s <=> sync[s].pc = "fetch"
          /\ sync[s].pc # "fetch" => DOMAIN sync[s].found = {}
          /\ sync[s].pc # "idle" =>
                /\ sync[s].repo \in Repos
                /\ sync[s].todo \cup DOMAIN sync[s].found # {}

\* There is a candidate only once something can have been unused for so long,
\* and an item in hand only when the batch has room for it.
JanitorSound ==
    /\ janitor \in Janitor
    /\ janitor.pc \in {"delete", "mark"} =>
          /\ janitor.item \in Key /\ ~janitor.dry
          /\ janitor.results < MaxDeleteBatch
          /\ UnusedDays < clock
    /\ janitor.now <= clock
    /\ DOMAIN janitor.cands # {} => UnusedDays < clock
    /\ janitor.recovered <= janitor.results
    /\ janitor.deleted <= janitor.results

RegistryTyped ==
    /\ manifests \subseteq Key
    /\ tagOf \in [Repos \X Tags -> Digests \cup {NoDigest}]
    /\ events \in Seq(Event) /\ Len(events) <= MaxEvents

RestTyped ==
    /\ maintenanceMode \in BOOLEAN /\ janitorPaused \in BOOLEAN
    /\ gcRequest \in BOOLEAN /\ gcActive \in BOOLEAN /\ uncollected \in BOOLEAN
    /\ changes \in 0 .. MaxChanges /\ faults \in 0 .. MaxFaults
    /\ lost \subseteq Key /\ shielded \subseteq Key
    /\ held \subseteq {"mode", "paused", "gc"}

StoreSound == StoreInv /\ clock <= MaxClock

\* What was read of the clock and is still to be written is not too old.
WaitSound ==
    /\ stamp = NoStamp \/ stamp \in Stamps
    /\ \A s \in Syncers : sync[s].pc = "fetch" => sync[s].now \in Stamps

Typed ==
    /\ StoreSound
    /\ SyncSound
    /\ JanitorSound
    /\ RegistryTyped
    /\ RestTyped
    /\ WaitSound

\* The type invariant of the module, from these.
LEMMA TypedIsTypeOK == Typed => ControlTypeOK
  <1> SUFFICES ASSUME Typed PROVE ControlTypeOK
    OBVIOUS
  <1>1. \A s \in Syncers :
           /\ sync[s].now \in 0 .. MaxClock
           /\ sync[s].pc \in {"idle", "begin", "fetch"}
           /\ sync[s].repo \in Repos \cup {""}
           /\ sync[s].todo \subseteq Tags
           /\ sync[s].found \in [DOMAIN sync[s].found -> Digests]
    <2> TAKE s \in Syncers
    <2>1. sync[s] \in Sync
      BY DEF Typed, SyncSound
    <2>2. PICK S \in SUBSET Tags : sync[s].found \in [S -> Digests]
      BY <2>1 DEF Sync
    <2> QED BY <2>1, <2>2 DEF Sync
  <1>2. stamp \in {NoStamp} \cup (0 .. MaxClock)
    BY StampIs, StoreAssumption DEF Typed, WaitSound, StoreSound, StoreInv, StoreTypeOK
  <1> QED BY <1>1, <1>2 DEF Typed, StoreSound, StoreInv, SyncSound, JanitorSound,
                      RegistryTyped, RestTyped, ControlTypeOK

\* What a step leaves alone stays as sound as it was.
LEMMA StoreStays ==
    ASSUME StoreSound, UNCHANGED storeVars PROVE StoreSound'
  BY DEF storeVars, StoreSound, StoreInv, StoreTypeOK, AgesOrdered, TagIndexed

LEMMA SyncStays ==
    ASSUME SyncSound, UNCHANGED <<conn, sync>> PROVE SyncSound'
  BY DEF SyncSound

LEMMA JanitorStays ==
    ASSUME Typed, UNCHANGED janitor, StoreSound', clock' >= clock PROVE JanitorSound'
  <1>1. clock \in Nat /\ clock' \in Nat /\ UnusedDays \in Nat
    BY StoreAssumption DEF Typed, StoreSound, StoreInv, StoreTypeOK
  <1>2. janitor.now \in Nat
    BY StoreAssumption DEF Typed, JanitorSound, Janitor
  <1> QED BY <1>1, <1>2 DEF Typed, JanitorSound

LEMMA WaitStays ==
    ASSUME WaitSound, UNCHANGED <<clock, sync>>, stamp' \in {stamp, NoStamp}
    PROVE  WaitSound'
  BY DEF WaitSound, Stamps

LEMMA IndexStays ==
    ASSUME Typed, UNCHANGED <<storeVars, conn, sync>>, stamp' \in {stamp, NoStamp},
           JanitorSound', RegistryTyped', RestTyped'
    PROVE  Typed'
  <1>1. WaitSound'
    BY WaitStays DEF Typed, storeVars
  <1> QED BY <1>1, StoreStays, SyncStays DEF Typed

----------------------------------------------------------------------------
(* Typed: the registry, its clients and the notifications. *)

LEMMA EmitTyped ==
    ASSUME RegistryTyped, NEW event \in Event, Emit(event)
    PROVE  events' \in Seq(Event) /\ Len(events') <= MaxEvents
  <1>1. MaxEvents \in Nat /\ Len(events) \in Nat
    BY ControlAssumption DEF RegistryTyped
  <1> QED BY <1>1 DEF Emit, RegistryTyped

LEMMA ChangeTyped ==
    ASSUME RestTyped, Change \/ Fault \/ UNCHANGED boundVars
    PROVE  changes' \in 0 .. MaxChanges /\ faults' \in 0 .. MaxFaults
  BY ControlAssumption DEF RestTyped, Change, Fault, boundVars

LEMMA ClientPullTyped ==
    ASSUME Typed, NEW r \in Repos, NEW t \in Tags, NEW d \in Digests, ClientPull(r, t, d)
    PROVE  Typed'
  <1>1. UNCHANGED <<storeVars, stamp, conn, sync, janitor>> /\ UNCHANGED clock
    BY DEF ClientPull, storeVars
  <1>2. events' \in Seq(Event) /\ Len(events') <= MaxEvents
    <2>1. RegistryTyped
      BY DEF Typed
    <2>2. CASE UNCHANGED events
      BY <2>1, <2>2 DEF RegistryTyped
    <2>3. ASSUME NEW action \in {"push", "pull"},
                 Emit([action |-> action, key |-> <<r, d>>, tag |-> t])
          PROVE  events' \in Seq(Event) /\ Len(events') <= MaxEvents
      <3>1. [action |-> action, key |-> <<r, d>>, tag |-> t] \in Event
        BY DEF Event, Actions, Key
      <3> QED BY <2>1, <2>3, <3>1, EmitTyped
    <2> QED BY <2>2, <2>3 DEF ClientPull
  <1>3. RegistryTyped'
    BY <1>2 DEF ClientPull, Typed, RegistryTyped, Key
  <1>4. RestTyped'
    BY ChangeTyped DEF ClientPull, Typed, RestTyped, settingVars, gcFlagVars, historyVars
  <1>5. JanitorSound'
    BY <1>1, StoreStays, JanitorStays DEF Typed, StoreSound, StoreInv, StoreTypeOK
  <1> QED BY <1>1, <1>3, <1>4, <1>5, IndexStays

\* A removal at the registry, whoever asks for it.
LEMMA RegistryDeleteTyped ==
    ASSUME Typed, NEW k \in Key, RegistryDelete(k)
    PROVE  RegistryTyped' /\ lost' \subseteq Key /\ uncollected' \in BOOLEAN
  <1>1. [action |-> "delete", key |-> k, tag |-> NoTag] \in Event
    BY DEF Event, Actions
  <1>2. events' \in Seq(Event) /\ Len(events') <= MaxEvents
    BY <1>1, EmitTyped DEF RegistryDelete, Typed
  <1> QED BY <1>2 DEF RegistryDelete, Typed, RegistryTyped, RestTyped

\* The event at the head of the queue.
LEMMA HeadTyped ==
    ASSUME RegistryTyped, events # <<>>
    PROVE  /\ Head(events) \in Event
           /\ Head(events).action \in Actions /\ Head(events).key \in Key
           /\ Head(events).tag \in Tags \cup {NoTag}
           /\ Tail(events) \in Seq(Event) /\ Len(Tail(events)) <= MaxEvents
  <1>1. Head(events) \in Event
    BY DEF RegistryTyped
  <1>2. Tail(events) \in Seq(Event) /\ Len(Tail(events)) = Len(events) - 1 /\ Len(events) \in Nat
    BY DEF RegistryTyped
  <1> QED BY <1>1, <1>2, ControlAssumption DEF Event, RegistryTyped

\* The time recordEvent read.
EventTime == IF stamp = NoStamp THEN clock ELSE stamp

LEMMA ReceiveIsNotification ==
    ASSUME Typed, ReceiveEvent
    PROVE  Notification /\ clock' = clock
  <1>1. RecordEvent(Head(events).action, Head(events).key, Head(events).tag, EventTime)
    BY DEF ReceiveEvent, EventTime
  <1>2. clock' = clock
    BY <1>1 DEF RecordEvent, ApplyPush, ApplyPull, ApplyDelete, ApplyOther
  <1>3. EventTime \in Stamps
    BY StoreAssumption
       DEF EventTime, Typed, WaitSound, Stamps, StoreSound, StoreInv, StoreTypeOK
  <1> QED BY <1>1, <1>2, <1>3, HeadTyped DEF ReceiveEvent, Notification, Typed

LEMMA StampEventTyped ==
    ASSUME Typed, StampEvent PROVE Typed'
  <1>1. UNCHANGED <<storeVars, clock, conn, sync, janitor>> /\ clock \in Nat
    BY DEF StampEvent, storeVars, Typed, StoreSound, StoreInv, StoreTypeOK
  <1>2. RegistryTyped' /\ RestTyped'
    BY DEF StampEvent, Typed, RegistryTyped, RestTyped, registryVars, settingVars,
           gcFlagVars, boundVars, historyVars
  <1>3. JanitorSound' /\ StoreSound' /\ SyncSound'
    BY <1>1, StoreStays, SyncStays, JanitorStays DEF Typed
  <1>4. WaitSound'
    BY <1>1, StoreAssumption DEF StampEvent, Typed, WaitSound, Stamps
  <1> QED BY <1>2, <1>3, <1>4 DEF Typed

LEMMA ReceiveEventTyped ==
    ASSUME Typed, ReceiveEvent PROVE Typed'
  <1>1. clock' = clock /\ StoreInv' /\ clock \in Nat
    BY ReceiveIsNotification, NotificationInv DEF Typed, StoreSound, StoreInv, StoreTypeOK
  <1>2. StoreSound'
    BY <1>1 DEF Typed, StoreSound
  <1>3. JanitorSound'
    BY <1>1, <1>2, JanitorStays DEF ReceiveEvent
  <1>4. RegistryTyped'
    BY HeadTyped DEF ReceiveEvent, Typed, RegistryTyped
  <1>5. RestTyped'
    BY ChangeTyped DEF ReceiveEvent, Typed, RestTyped, settingVars, gcFlagVars, historyVars
  <1>6. SyncSound' /\ WaitSound'
    BY <1>1, SyncStays, WaitStays DEF ReceiveEvent, Typed
  <1> QED BY <1>2, <1>3, <1>4, <1>5, <1>6 DEF Typed

LEMMA DropEventTyped ==
    ASSUME Typed, DropEvent PROVE Typed'
  <1>1. UNCHANGED <<storeVars, conn, sync, janitor>> /\ UNCHANGED clock
        /\ stamp' = NoStamp
    BY DEF DropEvent, storeVars
  <1>2. RegistryTyped'
    BY HeadTyped DEF DropEvent, Typed, RegistryTyped
  <1>3. RestTyped'
    BY HeadTyped, ChangeTyped DEF DropEvent, Typed, RestTyped, settingVars, gcFlagVars
  <1>4. JanitorSound'
    BY <1>1, StoreStays, JanitorStays DEF Typed, StoreSound, StoreInv, StoreTypeOK
  <1> QED BY <1>1, <1>2, <1>3, <1>4, IndexStays

----------------------------------------------------------------------------
(* Typed: the catalog sync. *)

\* What is answered so far, with one answer more.
More(found, t, d) == [x \in DOMAIN found \cup {t} |-> IF x = t THEN d ELSE found[x]]

LEMMA FoundGrows ==
    ASSUME NEW found, found \in UNION {[S -> Digests] : S \in SUBSET Tags},
           NEW t \in Tags, NEW d \in Digests
    PROVE  /\ More(found, t, d) \in UNION {[S -> Digests] : S \in SUBSET Tags}
           /\ DOMAIN More(found, t, d) = DOMAIN found \cup {t}
  <1>1. PICK S \in SUBSET Tags : found \in [S -> Digests]
    OBVIOUS
  <1>2. More(found, t, d) \in [S \cup {t} -> Digests] /\ S \cup {t} \in SUBSET Tags
    BY <1>1 DEF More
  <1> QED BY <1>1, <1>2

\* A sync with one field or two changed keeps the others.
LEMMA SyncFields ==
    ASSUME NEW x \in Sync, NEW todo, NEW found, NEW now
    PROVE  LET y == [x EXCEPT !.todo = todo, !.found = found]
               z == [x EXCEPT !.pc = "fetch", !.now = now]
           IN  /\ y.pc = x.pc /\ y.repo = x.repo /\ y.now = x.now
               /\ y.todo = todo /\ y.found = found
               /\ z.pc = "fetch" /\ z.repo = x.repo /\ z.now = now
               /\ z.todo = x.todo /\ z.found = x.found
  <1>1. ASSUME NEW P, NEW R, NEW T, NEW F, NEW N,
               NEW u \in [pc: P, repo: R, todo: T, found: F, now: N]
        PROVE  LET y == [u EXCEPT !.todo = todo, !.found = found]
                   z == [u EXCEPT !.pc = "fetch", !.now = now]
               IN  /\ y.pc = u.pc /\ y.repo = u.repo /\ y.now = u.now
                   /\ y.todo = todo /\ y.found = found
                   /\ z.pc = "fetch" /\ z.repo = u.repo /\ z.now = now
                   /\ z.todo = u.todo /\ z.found = u.found
    OBVIOUS
  <1> QED BY <1>1, Zenon DEF Sync

\* What an answer does to its sync.
LEMMA FetchTagMoves ==
    ASSUME Typed, NEW s \in Syncers, NEW t \in Tags, FetchTag(s, t)
    PROVE  sync' = [sync EXCEPT ![s] =
                      [sync[s] EXCEPT
                          !.todo = @ \ {t},
                          !.found = More(sync[s].found, t, tagOf[<<sync[s].repo, t>>])]]
  <1>1. sync[s] \in Sync
    BY DEF Typed, SyncSound
  <1> QED BY <1>1 DEF FetchTag, Typed, SyncSound, Sync, More

LEMMA SyncIdleIs ==
    SyncIdle \in Sync /\ SyncIdle.pc = "idle" /\ DOMAIN SyncIdle.found = {}
  <1>1. <<>> \in [{} -> Digests] /\ {} \in SUBSET Tags /\ DOMAIN <<>> = {}
    OBVIOUS
  <1>2. <<>> \in UNION {[S -> Digests] : S \in SUBSET Tags}
    BY <1>1
  <1>3. 0 \in 0 .. MaxClock
    BY StoreAssumption
  <1> QED BY <1>1, <1>2, <1>3 DEF SyncIdle, Sync

\* What is left to show of a step of one sync.
LEMMA SyncMoves ==
    ASSUME Typed, NEW s \in Syncers, NEW x \in Sync,
           sync' = [sync EXCEPT ![s] = x], stamp' = stamp,
           x.pc = "fetch" => x.now \in Stamps,
           UNCHANGED <<janitor, registryVars, settingVars, gcFlagVars, historyVars>>,
           Change \/ Fault \/ UNCHANGED boundVars,
           StoreSound', clock' = clock,
           \/ conn' = conn /\ (x.pc = "fetch" <=> sync[s].pc = "fetch")
           \/ conn = "free" /\ conn' = s /\ x.pc = "fetch"
           \/ conn = s /\ conn' = "free" /\ x.pc # "fetch",
           x.pc # "fetch" => DOMAIN x.found = {},
           x.pc # "idle" => x.repo \in Repos /\ x.todo \cup DOMAIN x.found # {}
    PROVE  Typed'
  <1>1. /\ sync' \in [Syncers -> Sync] /\ sync'[s] = x
        /\ \A u \in Syncers \ {s} : sync'[u] = sync[u]
    BY DEF Typed, SyncSound
  <1>2. "free" \notin Syncers
    BY ControlAssumption
  <1>3. SyncSound'
    BY <1>1, <1>2 DEF Typed, SyncSound
  <1>4. RegistryTyped'
    BY DEF Typed, RegistryTyped, registryVars
  <1>5. RestTyped'
    BY ChangeTyped DEF Typed, RestTyped, settingVars, gcFlagVars, historyVars
  <1>6. JanitorSound'
    BY JanitorStays DEF Typed, StoreSound, StoreInv, StoreTypeOK
  <1>7. WaitSound'
    BY <1>1 DEF Typed, WaitSound, Stamps
  <1> QED BY <1>3, <1>4, <1>5, <1>6, <1>7 DEF Typed

LEMMA ListTagsTyped ==
    ASSUME Typed, NEW s \in Syncers, NEW r \in Repos, ListTags(s, r) PROVE Typed'
  <1> DEFINE x == [pc |-> "begin", repo |-> r, todo |-> ListedTags(r), found |-> <<>>,
                   now |-> 0]
  <1>1. x \in Sync /\ DOMAIN x.found = {}
    BY SyncIdleIs, ControlAssumption DEF SyncIdle, Sync, ListedTags
  <1>2. StoreSound' /\ clock' = clock
    BY StoreStays DEF ListTags, Typed, storeVars
  <1> QED BY <1>1, <1>2, SyncMoves DEF ListTags

LEMMA BeginSyncTxTyped ==
    ASSUME Typed, NEW s \in Syncers, BeginSyncTx(s) PROVE Typed'
  <1> DEFINE x == [sync[s] EXCEPT !.pc = "fetch", !.now = clock]
  <1>1. sync[s] \in Sync
    BY DEF Typed, SyncSound
  <1>2. clock \in 0 .. MaxClock /\ clock \in Stamps
    BY StoreAssumption DEF Typed, StoreSound, StoreInv, StoreTypeOK, Stamps
  <1>3. /\ x \in Sync /\ x.pc = "fetch" /\ x.repo \in Repos /\ x.now \in Stamps
        /\ x.todo \cup DOMAIN x.found # {}
    BY <1>1, <1>2 DEF BeginSyncTx, Sync, Typed, SyncSound
  <1>4. StoreSound' /\ clock' = clock
    BY StoreStays DEF BeginSyncTx, Typed, storeVars
  <1>5. sync' = [sync EXCEPT ![s] = x]
    BY DEF BeginSyncTx
  <1> QED BY <1>3, <1>4, <1>5, SyncMoves DEF BeginSyncTx, ConnFree

LEMMA FetchTagTyped ==
    ASSUME Typed, NEW s \in Syncers, NEW t \in Tags, FetchTag(s, t) PROVE Typed'
  <1> DEFINE d == tagOf[<<sync[s].repo, t>>]
             more == More(sync[s].found, t, d)
             x == [sync[s] EXCEPT !.todo = @ \ {t}, !.found = more]
  <1>1. sync[s] \in Sync /\ sync[s].pc = "fetch" /\ sync[s].repo \in Repos
    BY DEF Typed, SyncSound, FetchTag
  <1>2. d \in Digests
    BY <1>1 DEF Typed, RegistryTyped, FetchTag
  <1>3. /\ more \in UNION {[S -> Digests] : S \in SUBSET Tags}
        /\ DOMAIN more = DOMAIN sync[s].found \cup {t}
    <2>1. sync[s].found \in UNION {[S -> Digests] : S \in SUBSET Tags}
      BY <1>1 DEF Sync
    <2> QED BY <1>2, <2>1, FoundGrows
  <1>4. /\ x \in Sync /\ x.pc = "fetch" /\ x.repo \in Repos /\ DOMAIN x.found # {}
        /\ x.now \in Stamps
    BY <1>1, <1>3 DEF Sync, Typed, WaitSound
  <1>5. StoreSound' /\ clock' = clock
    BY StoreStays DEF FetchTag, Typed, storeVars
  <1>6. sync' = [sync EXCEPT ![s] = x]
    BY FetchTagMoves
  <1>7. conn' = conn
    BY DEF FetchTag
  <1> HIDE DEF x
  <1> QED BY <1>1, <1>4, <1>5, <1>6, <1>7, SyncMoves DEF FetchTag

\* The commit is a sync of the store.
LEMMA CommitIsCatalogSync ==
    ASSUME Typed, NEW s \in Syncers, CommitSync(s)
    PROVE  CatalogSync /\ clock' = clock
  <1>1. /\ sync[s] \in Sync /\ sync[s].repo \in Repos /\ DOMAIN sync[s].found # {}
        /\ sync[s].now \in Stamps
    BY DEF Typed, SyncSound, WaitSound, CommitSync
  <1>2. PICK S \in SUBSET Tags : sync[s].found \in [S -> Digests]
    BY <1>1 DEF Sync
  <1>3. SyncRepo(sync[s].repo, sync[s].found, sync[s].now) /\ clock' = clock
    BY DEF CommitSync, SyncRepo
  <1>4. S # {}
    BY <1>1, <1>2
  <1> QED BY <1>1, <1>2, <1>3, <1>4, Zenon DEF CatalogSync

LEMMA CommitSyncTyped ==
    ASSUME Typed, NEW s \in Syncers, CommitSync(s) PROVE Typed'
  <1>1. CatalogSync /\ clock' = clock
    BY CommitIsCatalogSync
  <1>2. StoreSound'
    BY <1>1, SyncInv DEF CatalogSync, Typed, StoreSound
  <1>3. conn = s /\ conn' = "free"
    BY DEF CommitSync, Typed, SyncSound
  <1> QED BY <1>1, <1>2, <1>3, SyncIdleIs, SyncMoves DEF CommitSync

LEMMA RollbackSyncTyped ==
    ASSUME Typed, NEW s \in Syncers, RollbackSync(s) PROVE Typed'
  <1>1. StoreSound' /\ clock' = clock
    BY StoreStays DEF RollbackSync, Typed, storeVars
  <1>2. conn = s /\ conn' = "free"
    BY DEF RollbackSync, Typed, SyncSound
  <1> QED BY <1>1, <1>2, SyncIdleIs, SyncMoves DEF RollbackSync

----------------------------------------------------------------------------
(* Typed: the janitor. *)

Cands == UNION {[K -> 0 .. MaxClock] : K \in SUBSET Key}

LEMMA JanitorIdleIs ==
    /\ JanitorIdle \in Janitor /\ JanitorIdle.pc = "idle"
    /\ DOMAIN JanitorIdle.cands = {}
    /\ JanitorIdle.recovered = 0 /\ JanitorIdle.deleted = 0
    /\ JanitorIdle.results = 0 /\ JanitorIdle.now = 0
  <1>1. <<>> \in [{} -> 0 .. MaxClock] /\ {} \in SUBSET Key /\ DOMAIN <<>> = {}
    OBVIOUS
  <1>2. <<>> \in Cands
    BY <1>1 DEF Cands
  <1>3. /\ MaxRequired \in Nat /\ MaxDeleteBatch \in Nat /\ MaxClock \in Nat
        /\ "normal" \in States
    BY ControlAssumption, StoreAssumption DEF States
  <1>4. JanitorIdle \in Janitor
    <2>1. 0 \in 0 .. MaxRequired /\ 0 \in 0 .. MaxDeleteBatch /\ 0 \in 0 .. MaxClock
      BY <1>3
    <2>2. <<>> \in Key \cup {<<>>}
      OBVIOUS
    <2> QED BY <1>2, <1>3, <2>1, <2>2, ZenonT(60) DEF JanitorIdle, Janitor, Cands
  <1> QED BY <1>4 DEF JanitorIdle

\* Candidates are rows unused for long, on a day that comes after that long.
LEMMA CandidatesTyped ==
    ASSUME Typed, NEW e \in BOOLEAN, NEW now \in Nat, now <= clock
    PROVE  /\ ListCandidates(e, now) \subseteq Key
           /\ [k \in ListCandidates(e, now) |-> artifacts[k].lastUsed] \in Cands
           /\ ListCandidates(e, now) # {} => UnusedDays < clock
  <1>1. ASSUME NEW k \in ListCandidates(e, now)
        PROVE  k \in Key /\ artifacts[k].lastUsed \in 0 .. MaxClock /\ UnusedDays < clock
    <2>1. k \in DOMAIN artifacts /\ artifacts[k].lastUsed < now - UnusedDays
      BY DEF ListCandidates
    <2>2. k \in Key /\ artifacts[k] \in Row /\ artifacts[k].lastUsed <= clock
      BY <2>1 DEF Typed, StoreSound, StoreInv, StoreTypeOK, AgesOrdered
    <2>3. artifacts[k].lastUsed \in Nat
      BY <2>2 DEF Row
    <2>4. /\ clock \in Nat /\ clock <= MaxClock /\ MaxClock \in Nat
          /\ UnusedDays \in Nat
      BY StoreAssumption DEF Typed, StoreSound, StoreInv, StoreTypeOK
    <2> QED BY <2>1, <2>2, <2>3, <2>4
  <1>2. [k \in ListCandidates(e, now) |-> artifacts[k].lastUsed] \in [ListCandidates(e, now) -> 0 .. MaxClock]
    BY <1>1
  <1>3. ListCandidates(e, now) \in SUBSET Key
    BY <1>1
  <1> QED BY <1>1, <1>2, <1>3 DEF Cands

LEMMA FewerCandidates ==
    ASSUME NEW cands \in Cands, NEW k \in DOMAIN cands
    PROVE  /\ k \in Key
           /\ [l \in DOMAIN cands \ {k} |-> cands[l]] \in Cands
  <1>1. PICK K \in SUBSET Key : cands \in [K -> 0 .. MaxClock]
    BY DEF Cands
  <1>2. [l \in DOMAIN cands \ {k} |-> cands[l]] \in [K \ {k} -> 0 .. MaxClock]
    BY <1>1
  <1> QED BY <1>1, <1>2 DEF Cands

\* The janitor's numbers.
LEMMA JanitorNumbers ==
    ASSUME Typed
    PROVE  /\ janitor.results \in 0 .. MaxDeleteBatch
           /\ janitor.deleted \in 0 .. MaxDeleteBatch
           /\ janitor.recovered \in 0 .. MaxDeleteBatch
           /\ MaxDeleteBatch \in Nat /\ clock \in Nat /\ UnusedDays \in Nat
           /\ janitor.cands \in Cands
  BY ControlAssumption, StoreAssumption
     DEF Typed, JanitorSound, Janitor, Cands, StoreSound, StoreInv, StoreTypeOK

LEMMA RestStays ==
    ASSUME Typed,
           UNCHANGED <<settingVars, gcFlagVars>>,
           Change \/ Fault \/ UNCHANGED boundVars,
           lost' \subseteq Key, shielded' \subseteq Key, uncollected' \in BOOLEAN,
           held' \subseteq {"mode", "paused", "gc"}
    PROVE  RestTyped'
  BY ChangeTyped DEF Typed, RestTyped, settingVars, gcFlagVars

LEMMA HistoryStays ==
    ASSUME Typed, UNCHANGED historyVars
    PROVE  /\ lost' \subseteq Key /\ shielded' \subseteq Key /\ uncollected' \in BOOLEAN
           /\ held' \subseteq {"mode", "paused", "gc"}
  BY DEF Typed, RestTyped, historyVars

\* What a step of the janitor that touches neither the registry nor the index
\* leaves to show.
LEMMA JanitorMoves ==
    ASSUME Typed,
           UNCHANGED <<storeVars, envVars>>,
           Change \/ Fault \/ UNCHANGED boundVars,
           lost' \subseteq Key, shielded' \subseteq Key, uncollected' \in BOOLEAN,
           held' \subseteq {"mode", "paused", "gc"},
           JanitorSound'
    PROVE  Typed'
  <1>1. RegistryTyped'
    BY DEF Typed, RegistryTyped, envVars
  <1>2. RestTyped'
    BY RestStays DEF envVars
  <1> QED BY <1>1, <1>2, IndexStays DEF envVars

LEMMA BeginJanitorTyped ==
    ASSUME Typed, NEW dry \in BOOLEAN, NEW force \in BOOLEAN, BeginJanitor(dry, force)
    PROVE  Typed'
  <1>1. janitor' \in Janitor /\ janitor'.pc = "health"
        /\ janitor'.cands = JanitorIdle.cands /\ janitor'.now = 0
        /\ janitor'.recovered = 0 /\ janitor'.deleted = 0 /\ janitor'.results = 0
    <2>1. (DryRunConfig \/ dry) \in BOOLEAN
      BY ControlAssumption
    <2> QED BY <2>1, JanitorIdleIs DEF BeginJanitor, Janitor
  <1>2. JanitorSound'
    BY <1>1, JanitorIdleIs DEF JanitorSound, BeginJanitor, storeVars, Typed, StoreSound,
                               StoreInv, StoreTypeOK
  <1>3. held' \subseteq {"mode", "paused", "gc"}
    BY DEF BeginJanitor, Pausing
  <1> QED BY <1>2, <1>3, JanitorMoves DEF BeginJanitor, Typed, RestTyped

LEMMA ReadHealthTyped ==
    ASSUME Typed, ReadHealth PROVE Typed'
  <1>1. ASSUME NEW mirrorsUp \in BOOLEAN, NEW upstreamsUp \in BOOLEAN,
               NEW storage \in {"ok", "pressure", "emergency"},
               NEW required \in 0 .. MaxRequired,
               janitor' = [janitor EXCEPT
                  !.pc = "mode",
                  !.fallback = FallbackState(maintenanceMode, gcActive,
                                             mirrorsUp, upstreamsUp, storage),
                  !.mustFree = storage # "ok",
                  !.emergency = storage = "emergency",
                  !.required = required],
               clock' = clock
        PROVE  JanitorSound'
    <2>1. FallbackState(maintenanceMode, gcActive, mirrorsUp, upstreamsUp, storage) \in States
      BY DEF FallbackState, States
    <2> QED BY <1>1, <2>1 DEF Typed, JanitorSound, Janitor
  <1>2. JanitorSound'
    BY <1>1 DEF ReadHealth, storeVars
  <1> QED BY <1>2, HistoryStays, JanitorMoves DEF ReadHealth

LEMMA ReadModeTyped ==
    ASSUME Typed, ReadMode PROVE Typed'
  <1>1. JanitorSound'
    BY DEF Typed, JanitorSound, RestTyped, Janitor, ReadMode, storeVars
  <1> QED BY <1>1, HistoryStays, JanitorMoves DEF ReadMode

\* The end of a run.
LEMMA EndJanitorSound ==
    ASSUME Typed, EndJanitor, UNCHANGED storeVars
    PROVE  /\ JanitorSound' /\ shielded' \subseteq Key
           /\ held' \subseteq {"mode", "paused", "gc"}
  BY JanitorIdleIs DEF EndJanitor, JanitorSound, storeVars, Typed, StoreSound,
                       StoreInv, StoreTypeOK

LEMMA ReadPausedAndDecideTyped ==
    ASSUME Typed, ReadPausedAndDecide PROVE Typed'
  <1>1. CASE Skips
    BY <1>1, EndJanitorSound, JanitorMoves DEF ReadPausedAndDecide, Typed, RestTyped
  <1>2. CASE ~Skips
    <2>1. janitor' = [janitor EXCEPT !.pc = "list", !.fallback = "normal",
                                     !.modeRead = FALSE, !.now = clock]
      BY <1>2 DEF ReadPausedAndDecide
    <2>2. "normal" \in States /\ clock \in 0 .. MaxClock /\ clock' = clock
      BY StoreAssumption DEF States, Typed, StoreSound, StoreInv, StoreTypeOK,
                             ReadPausedAndDecide, storeVars
    <2>3. /\ janitor' \in Janitor /\ janitor'.pc = "list" /\ janitor'.now = clock
          /\ janitor'.cands = janitor.cands /\ janitor'.recovered = janitor.recovered
          /\ janitor'.deleted = janitor.deleted /\ janitor'.results = janitor.results
      BY <2>1, <2>2 DEF Typed, JanitorSound, Janitor
    <2>4. JanitorSound'
      BY <2>2, <2>3 DEF Typed, JanitorSound
    <2> QED BY <1>2, <2>4, JanitorMoves DEF ReadPausedAndDecide, Typed, RestTyped
  <1> QED BY <1>1, <1>2

LEMMA ListTyped ==
    ASSUME Typed, List PROVE Typed'
  <1> DEFINE cands == [k \in ListCandidates(janitor.emergency, janitor.now) |->
                          artifacts[k].lastUsed]
  <1>1. janitor.emergency \in BOOLEAN /\ janitor.now \in Nat /\ janitor.now <= clock
    BY StoreAssumption DEF Typed, JanitorSound, Janitor
  <1>2. cands \in Cands /\ (DOMAIN cands # {} => UnusedDays < clock)
    BY <1>1, CandidatesTyped
  <1>3. janitor' = [janitor EXCEPT !.pc = "loop", !.emergency = FALSE, !.now = 0,
                                   !.cands = cands]
    BY DEF List
  <1> HIDE DEF cands
  <1>4. JanitorSound'
    <2>1. clock' = clock /\ clock \in Nat /\ 0 \in 0 .. MaxClock
      BY StoreAssumption DEF List, storeVars, Typed, StoreSound, StoreInv, StoreTypeOK
    <2>2. janitor' \in Janitor /\ janitor'.pc = "loop" /\ janitor'.cands = cands
          /\ janitor'.now = 0
          /\ janitor'.recovered = janitor.recovered
          /\ janitor'.deleted = janitor.deleted /\ janitor'.results = janitor.results
      BY <1>2, <1>3, <2>1 DEF Typed, JanitorSound, Janitor, Cands
    <2> QED BY <1>2, <2>1, <2>2 DEF Typed, JanitorSound
  <1>5. shielded' \subseteq Key
    BY DEF List, Typed, StoreSound, StoreInv, StoreTypeOK
  <1> QED BY <1>4, <1>5, JanitorMoves DEF List, Typed, RestTyped

LEMMA NextItemTyped ==
    ASSUME Typed, NextItem PROVE Typed'
  <1>1. PICK k \in DOMAIN janitor.cands :
          LET rest == [l \in DOMAIN janitor.cands \ {k} |-> janitor.cands[l]]
          IN  janitor' =
                IF janitor.dry
                THEN [janitor EXCEPT !.cands = rest,
                                     !.results = @ + 1,
                                     !.recovered = @ + 1,
                                     !.pc = AfterItem(janitor.recovered + 1)]
                ELSE [janitor EXCEPT !.cands = rest, !.item = k, !.pc = "delete"]
    BY DEF NextItem
  <1> DEFINE rest == [l \in DOMAIN janitor.cands \ {k} |-> janitor.cands[l]]
  <1>2. k \in Key /\ rest \in Cands /\ UnusedDays < clock
    BY JanitorNumbers, FewerCandidates DEF Typed, JanitorSound
  <1>3. janitor.results < MaxDeleteBatch /\ clock' = clock
    BY DEF NextItem, storeVars
  <1>4. AfterItem(janitor.recovered + 1) \in {"gc", "loop"}
    BY DEF AfterItem
  <1>5. CASE janitor.dry
    <2>1. janitor' = [janitor EXCEPT !.cands = rest,
                                     !.results = @ + 1,
                                     !.recovered = @ + 1,
                                     !.pc = AfterItem(janitor.recovered + 1)]
      BY <1>1, <1>5
    <2> HIDE DEF rest
    <2>2. /\ janitor'.pc = AfterItem(janitor.recovered + 1) /\ janitor'.cands = rest
          /\ janitor'.results = janitor.results + 1
          /\ janitor'.recovered = janitor.recovered + 1
          /\ janitor'.deleted = janitor.deleted /\ janitor'.now = janitor.now
      BY <2>1 DEF Typed, JanitorSound, Janitor
    <2>3. janitor' \in Janitor
      <3>1. /\ janitor.results + 1 \in 0 .. MaxDeleteBatch
            /\ janitor.recovered + 1 \in 0 .. MaxDeleteBatch
        BY <1>3, JanitorNumbers DEF Typed, JanitorSound
      <3> QED BY <1>2, <1>4, <2>1, <3>1 DEF Typed, JanitorSound, Janitor, Cands
    <2>4. JanitorSound'
      BY <1>2, <1>3, <1>4, <2>2, <2>3, JanitorNumbers DEF Typed, JanitorSound
    <2> QED BY <2>4, HistoryStays, JanitorMoves DEF NextItem
  <1>6. CASE ~janitor.dry
    <2>1. janitor' = [janitor EXCEPT !.cands = rest, !.item = k, !.pc = "delete"]
      BY <1>1, <1>6
    <2> HIDE DEF rest
    <2>2. JanitorSound'
      BY <1>2, <1>3, <1>6, <2>1, JanitorNumbers DEF Typed, JanitorSound, Janitor, Cands
    <2> QED BY <2>2, HistoryStays, JanitorMoves DEF NextItem
  <1> QED BY <1>5, <1>6

LEMMA EndLoopTyped ==
    ASSUME Typed, EndLoop PROVE Typed'
  <1>1. JanitorSound'
    BY DEF Typed, JanitorSound, Janitor, EndLoop, storeVars
  <1> QED BY <1>1, HistoryStays, JanitorMoves DEF EndLoop

\* The janitor after an item that ended in an error.
LEMMA ItemFailsSound ==
    ASSUME Typed, janitor.pc \in {"delete", "mark"}, ItemFails, clock' = clock
    PROVE  JanitorSound'
  <1>1. AfterItem(janitor.recovered) \in {"gc", "loop"}
    BY DEF AfterItem
  <1>2. janitor.results + 1 \in 0 .. MaxDeleteBatch
    BY JanitorNumbers DEF Typed, JanitorSound
  <1>3. /\ janitor' \in Janitor
        /\ janitor'.pc \in {"gc", "loop"} /\ janitor'.cands = janitor.cands
        /\ janitor'.results = janitor.results + 1
        /\ janitor'.recovered = janitor.recovered
        /\ janitor'.deleted = janitor.deleted /\ janitor'.now = janitor.now
    BY <1>1, <1>2 DEF ItemFails, Typed, JanitorSound, Janitor
  <1> QED BY <1>3, JanitorNumbers DEF Typed, JanitorSound

LEMMA DeleteManifestTyped ==
    ASSUME Typed, DeleteManifest PROVE Typed'
  <1>1. janitor.item \in Key /\ clock' = clock
    BY DEF DeleteManifest, Typed, JanitorSound, storeVars
  <1>2. RegistryTyped' /\ lost' \subseteq Key /\ uncollected' \in BOOLEAN
    BY <1>1, RegistryDeleteTyped
       DEF DeleteManifest, Typed, RegistryTyped, RestTyped, registryVars
  <1>3. JanitorSound'
    BY <1>1 DEF DeleteManifest, Typed, JanitorSound, Janitor
  <1>4. RestTyped'
    BY <1>2, RestStays DEF DeleteManifest, Typed, RestTyped
  <1> QED BY <1>2, <1>3, <1>4, IndexStays DEF DeleteManifest

LEMMA DeleteManifestFailsTyped ==
    ASSUME Typed, DeleteManifestFails PROVE Typed'
  <1>1. janitor.item \in Key /\ clock' = clock
    BY DEF DeleteManifestFails, Typed, JanitorSound, storeVars
  <1>2. RegistryTyped' /\ lost' \subseteq Key /\ uncollected' \in BOOLEAN
    BY <1>1, RegistryDeleteTyped
       DEF DeleteManifestFails, Typed, RegistryTyped, RestTyped, registryVars
  <1>3. JanitorSound'
    BY <1>1, ItemFailsSound DEF DeleteManifestFails
  <1>4. RestTyped'
    BY <1>2, RestStays DEF DeleteManifestFails, Typed, RestTyped
  <1> QED BY <1>2, <1>3, <1>4, IndexStays DEF DeleteManifestFails

\* The mark is one the store knows.
LEMMA MarkItemIsJanitorMark ==
    ASSUME Typed, MarkItem PROVE JanitorMark /\ clock' = clock
  BY DEF MarkItem, MarkDeleted, JanitorMark, Typed, JanitorSound

LEMMA MarkItemTyped ==
    ASSUME Typed, MarkItem PROVE Typed'
  <1>1. JanitorMark /\ clock' = clock
    BY MarkItemIsJanitorMark
  <1>2. StoreSound'
    BY <1>1, LocalInv DEF Typed, StoreSound
  <1>3. AfterItem(janitor.recovered + 1) \in {"gc", "loop"}
    BY DEF AfterItem
  <1>4. /\ janitor.results + 1 \in 0 .. MaxDeleteBatch
        /\ janitor.deleted + 1 \in 0 .. MaxDeleteBatch
        /\ janitor.recovered + 1 \in 0 .. MaxDeleteBatch
    BY JanitorNumbers DEF MarkItem, Typed, JanitorSound
  <1>5. /\ janitor' \in Janitor
        /\ janitor'.pc \in {"gc", "loop"} /\ janitor'.cands = janitor.cands
        /\ janitor'.results = janitor.results + 1
        /\ janitor'.recovered = janitor.recovered + 1
        /\ janitor'.deleted = janitor.deleted + 1 /\ janitor'.now = janitor.now
    BY <1>3, <1>4 DEF MarkItem, Typed, JanitorSound, Janitor
  <1>6. JanitorSound'
    BY <1>1, <1>5, JanitorNumbers DEF Typed, JanitorSound
  <1>7. RegistryTyped'
    BY DEF MarkItem, envVars, Typed, RegistryTyped
  <1>8. RestTyped'
    BY HistoryStays, RestStays DEF MarkItem, envVars
  <1>9. SyncSound' /\ WaitSound'
    BY <1>1, SyncStays, WaitStays DEF MarkItem, envVars, Typed
  <1> QED BY <1>2, <1>6, <1>7, <1>8, <1>9 DEF Typed

LEMMA MarkItemFailsTyped ==
    ASSUME Typed, MarkItemFails PROVE Typed'
  <1>1. janitor.item \in Key /\ clock' = clock
    BY DEF MarkItemFails, Typed, JanitorSound, storeVars
  <1>2. JanitorSound'
    BY <1>1, ItemFailsSound DEF MarkItemFails
  <1>3. lost' \subseteq Key
    BY <1>1 DEF MarkItemFails, LostWithMark, Typed, RestTyped
  <1> QED BY <1>2, <1>3, JanitorMoves DEF MarkItemFails, Typed, RestTyped

LEMMA FinishJanitorTyped ==
    ASSUME Typed, FinishJanitor PROVE Typed'
  <1>1. JanitorSound' /\ shielded' \subseteq Key /\ held' \subseteq {"mode", "paused", "gc"}
    BY EndJanitorSound DEF FinishJanitor
  <1>2. RegistryTyped'
    BY DEF FinishJanitor, registryVars, Typed, RegistryTyped
  <1>3. RestTyped'
    BY <1>1, ChangeTyped DEF FinishJanitor, settingVars, Typed, RestTyped
  <1> QED BY <1>1, <1>2, <1>3, IndexStays DEF FinishJanitor

----------------------------------------------------------------------------
(* Typed: the others. *)

\* Steps that leave the registry, the syncs and the janitor alone.
LEMMA OthersMove ==
    ASSUME Typed, UNCHANGED othersVars, StoreSound', clock' \in Nat, clock' >= clock,
           RestTyped', WaitSound'
    PROVE  Typed'
  <1>1. JanitorSound'
    BY JanitorStays DEF othersVars
  <1>2. RegistryTyped' /\ SyncSound'
    BY SyncStays DEF othersVars, registryVars, Typed, RegistryTyped
  <1> QED BY <1>1, <1>2 DEF Typed

LEMMA OperatorMarksTyped ==
    ASSUME Typed, OperatorMarks PROVE Typed'
  <1>1. Pin \/ Protect
    BY DEF OperatorMarks
  <1>2. clock' = clock /\ clock \in Nat
    BY <1>1 DEF Pin, Protect, HandlePin, HandleProtect, Typed, StoreSound, StoreInv, StoreTypeOK
  <1>3. StoreSound'
    BY <1>1, <1>2, LocalInv DEF Typed, StoreSound
  <1>4. RestTyped'
    <2>1. shielded' \subseteq Key /\ UNCHANGED <<settingVars, gcFlagVars, lost, uncollected, held>>
          /\ Change
      BY DEF OperatorMarks, Typed, RestTyped
    <2> QED BY <2>1, RestStays DEF Typed, RestTyped
  <1>5. WaitSound'
    BY <1>2, WaitStays DEF OperatorMarks, othersVars, Typed
  <1> QED BY <1>2, <1>3, <1>4, <1>5, OthersMove DEF OperatorMarks

LEMMA SettingsTyped ==
    ASSUME Typed, SetMaintenanceMode \/ SetJanitorPaused \/ CollectBegins \/ CollectEnds
    PROVE  Typed'
  <1>1. UNCHANGED <<storeVars, othersVars>> /\ UNCHANGED clock
    BY DEF SetMaintenanceMode, SetJanitorPaused, CollectBegins, CollectEnds, storeVars
  <1>2. Change \/ UNCHANGED boundVars
    BY DEF SetMaintenanceMode, SetJanitorPaused, CollectBegins, CollectEnds
  <1>3. RestTyped'
    BY <1>2, ChangeTyped
       DEF SetMaintenanceMode, SetJanitorPaused, CollectBegins, CollectEnds, Typed,
           RestTyped, settingVars, gcFlagVars, historyVars
  <1>4. StoreSound' /\ clock \in Nat
    BY <1>1, StoreStays DEF Typed, StoreSound, StoreInv, StoreTypeOK
  <1>5. WaitSound'
    BY <1>1, WaitStays DEF othersVars, Typed
  <1> QED BY <1>1, <1>3, <1>4, <1>5, OthersMove

LEMMA HousekeepingTyped ==
    ASSUME Typed, Housekeeping \/ NextDay PROVE Typed'
  <1>1. PruneMetadata \/ Tick
    BY DEF Housekeeping, NextDay
  <1>2. clock' \in Nat /\ clock' >= clock /\ clock' <= MaxClock
    BY <1>1, StoreAssumption
       DEF PruneMetadata, Tick, Typed, StoreSound, StoreInv, StoreTypeOK
  <1>3. StoreSound'
    BY <1>1, <1>2, LocalInv DEF Typed, StoreSound
  <1>4. UNCHANGED <<othersVars, settingVars, gcFlagVars, boundVars, historyVars>>
    BY DEF Housekeeping, NextDay
  <1>5. RestTyped'
    BY <1>4, HistoryStays, RestStays
  <1>6. WaitSound'
    <2>1. CASE Housekeeping
      BY <1>4, <2>1, WaitStays DEF Housekeeping, PruneMetadata, othersVars, Typed
    <2>2. CASE NextDay
      <3>1. UNCHANGED <<stamp, sync>> /\ clock' = clock + 1 /\ clock \in Nat /\ MaxWait \in Nat
        BY <2>2, <1>4, StoreAssumption
           DEF NextDay, Tick, othersVars, Typed, StoreSound, StoreInv, StoreTypeOK
      <3>2. ASSUME NEW now \in Stamps, clock - now < MaxWait
            PROVE  now \in Stamps'
        BY <3>1, <3>2 DEF Stamps
      <3> QED BY <2>2, <3>1, <3>2 DEF NextDay, Typed, WaitSound
    <2> QED BY <2>1, <2>2
  <1> QED BY <1>2, <1>3, <1>4, <1>5, <1>6, OthersMove

LEMMA ControlCrashTyped ==
    ASSUME Typed, ControlCrash PROVE Typed'
  <1>1. StoreSound' /\ clock' = clock
    BY StoreStays DEF ControlCrash, Typed, storeVars
  <1>2. JanitorSound' /\ shielded' \subseteq Key /\ held' \subseteq {"mode", "paused", "gc"}
    BY EndJanitorSound DEF ControlCrash
  <1>3. SyncSound'
    BY SyncIdleIs, ControlAssumption DEF ControlCrash, SyncSound
  <1>4. RegistryTyped'
    BY DEF ControlCrash, registryVars, Typed, RegistryTyped
  <1>5. lost' \subseteq Key
    BY DEF ControlCrash, LostWithMark, Typed, RestTyped, JanitorSound
  <1>6. RestTyped'
    BY <1>2, <1>5, RestStays DEF ControlCrash, Typed, RestTyped
  <1>7. WaitSound'
    BY ControlAssumption DEF ControlCrash, WaitSound, SyncIdle
  <1> QED BY <1>1, <1>2, <1>3, <1>4, <1>6, <1>7 DEF Typed

LEMMA InitTyped == ControlInit => Typed
  <1> SUFFICES ASSUME ControlInit PROVE Typed
    OBVIOUS
  <1>1. StoreSound
    BY StoreInitInv, StoreAssumption DEF ControlInit, StoreSound, StoreInit
  <1>2. SyncSound
    BY SyncIdleIs, ControlAssumption DEF ControlInit, SyncSound
  <1>3. JanitorSound
    BY JanitorIdleIs DEF ControlInit, StoreInit, JanitorSound
  <1>4. RegistryTyped
    BY ControlAssumption DEF ControlInit, RegistryTyped
  <1>5. RestTyped
    <2>1. changes \in 0 .. MaxChanges /\ faults \in 0 .. MaxFaults
      BY ControlAssumption DEF ControlInit
    <2>2. /\ maintenanceMode \in BOOLEAN /\ janitorPaused \in BOOLEAN
          /\ gcRequest \in BOOLEAN /\ gcActive \in BOOLEAN /\ uncollected \in BOOLEAN
      BY ZenonT(30) DEF ControlInit
    <2>3. /\ lost \subseteq Key /\ shielded \subseteq Key
          /\ held \subseteq {"mode", "paused", "gc"}
      BY DEF ControlInit
    <2> QED BY <2>1, <2>2, <2>3 DEF RestTyped
  <1>6. WaitSound
    BY SyncIdleIs DEF ControlInit, WaitSound
  <1> QED BY <1>1, <1>2, <1>3, <1>4, <1>5, <1>6 DEF Typed

LEMMA NextTyped == Typed /\ [ControlNext]_controlVars => Typed'
  <1> SUFFICES ASSUME Typed, [ControlNext]_controlVars PROVE Typed'
    OBVIOUS
  <1>1. CASE \E r \in Repos, t \in Tags, d \in Digests : ClientPull(r, t, d)
    BY <1>1, ClientPullTyped
  <1>2. CASE StampEvent \/ ReceiveEvent \/ DropEvent
    BY <1>2, StampEventTyped, ReceiveEventTyped, DropEventTyped
  <1>3. CASE \E s \in Syncers : SyncNext(s)
    BY <1>3, ListTagsTyped, BeginSyncTxTyped, FetchTagTyped, CommitSyncTyped,
       RollbackSyncTyped DEF SyncNext
  <1>4. CASE JanitorNext
    BY <1>4, BeginJanitorTyped, ReadHealthTyped, ReadModeTyped,
       ReadPausedAndDecideTyped, ListTyped, NextItemTyped, EndLoopTyped,
       DeleteManifestTyped, DeleteManifestFailsTyped, MarkItemTyped,
       MarkItemFailsTyped, FinishJanitorTyped
       DEF JanitorNext
  <1>5. CASE OperatorMarks
    BY <1>5, OperatorMarksTyped
  <1>6. CASE SetMaintenanceMode \/ SetJanitorPaused \/ CollectBegins \/ CollectEnds
    BY <1>6, SettingsTyped
  <1>7. CASE Housekeeping \/ NextDay
    BY <1>7, HousekeepingTyped
  <1>8. CASE ControlCrash
    BY <1>8, ControlCrashTyped
  <1>9. CASE UNCHANGED controlVars
    <2>1. UNCHANGED <<storeVars, registryVars, stamp, conn, sync, janitor, settingVars,
                      gcFlagVars, boundVars, historyVars>> /\ UNCHANGED clock
      BY <1>9 DEF controlVars, storeVars
    <2>2. StoreSound' /\ clock \in Nat
      BY <2>1, StoreStays DEF Typed, StoreSound, StoreInv, StoreTypeOK
    <2>3. RestTyped'
      BY <2>1, HistoryStays, RestStays
    <2>4. WaitSound'
      BY <2>1, WaitStays DEF Typed
    <2> QED BY <2>1, <2>2, <2>3, <2>4, OthersMove DEF othersVars
  <1> QED BY <1>1, <1>2, <1>3, <1>4, <1>5, <1>6, <1>7, <1>8, <1>9 DEF ControlNext

LEMMA TypedHolds == ControlSpec => []Typed
  BY InitTyped, NextTyped, PTL DEF ControlSpec

\* Everything control, the registry and the gc-worker keep has its type,
\* however their steps interleave and whatever fails.
THEOREM ControlTypeCorrect == ControlSpec => []ControlTypeOK
  BY TypedHolds, TypedIsTypeOK, PTL

----------------------------------------------------------------------------
(* The index is written by the operations of ArtifactStore only. *)

\* Steps of the janitor that leave the index alone.
LEMMA JanitorSparesIndex ==
    ASSUME JanitorNext, ~MarkItem PROVE UNCHANGED storeVars
  BY DEF JanitorNext, BeginJanitor, ReadHealth, ReadMode, ReadPausedAndDecide,
         List, NextItem, EndLoop, DeleteManifest, DeleteManifestFails,
         MarkItemFails, FinishJanitor

LEMMA NextIsStoreStep ==
    Typed /\ [ControlNext]_controlVars => [StoreNext]_storeVars
  <1> SUFFICES ASSUME Typed, [ControlNext]_controlVars PROVE [StoreNext]_storeVars
    OBVIOUS
  <1>1. CASE ReceiveEvent
    BY <1>1, ReceiveIsNotification DEF StoreNext
  <1>2. CASE \E s \in Syncers : SyncNext(s)
    <2>1. PICK s \in Syncers : SyncNext(s)
      BY <1>2
    <2>2. CASE CommitSync(s)
      BY <2>2, CommitIsCatalogSync DEF StoreNext
    <2>3. CASE ~CommitSync(s)
      BY <2>1, <2>3 DEF SyncNext, ListTags, BeginSyncTx, FetchTag, RollbackSync
    <2> QED BY <2>2, <2>3
  <1>3. CASE JanitorNext
    BY <1>3, JanitorSparesIndex, MarkItemIsJanitorMark DEF StoreNext
  <1>4. CASE OperatorMarks \/ Housekeeping \/ NextDay
    BY <1>4 DEF OperatorMarks, Housekeeping, NextDay, StoreNext
  <1>5. CASE \/ \E r \in Repos, t \in Tags, d \in Digests : ClientPull(r, t, d)
             \/ StampEvent \/ DropEvent \/ SetMaintenanceMode \/ SetJanitorPaused
             \/ CollectBegins \/ CollectEnds \/ ControlCrash \/ UNCHANGED controlVars
    BY <1>5 DEF ClientPull, StampEvent, DropEvent, SetMaintenanceMode, SetJanitorPaused,
                CollectBegins, CollectEnds, ControlCrash, controlVars
  <1> QED BY <1>1, <1>2, <1>3, <1>4, <1>5 DEF ControlNext

\* Janitor, catalog sync, notifications and operator together implement the
\* specification of the index: what is proved of it holds in their company.
THEOREM ControlWritesAsStore == ControlSpec => WritesAsStore
  <1>1. ControlInit => StoreInit
    BY DEF ControlInit
  <1> QED BY <1>1, TypedHolds, NextIsStoreStep, PTL
          DEF ControlSpec, WritesAsStore, StoreSpec

\* In particular no event, sync or run of the janitor takes an operator's mark
\* off a row, and none lifts a tombstone without evidence.
THEOREM ControlKeepsRows == ControlSpec => MarksStick /\ TombstonesStay
  BY ControlWritesAsStore, StoreMarksStick, StoreTombstonesStay, PTL
     DEF WritesAsStore

----------------------------------------------------------------------------
(* Marks made before the listing. *)

ShieldKept ==
    /\ shielded \cap DOMAIN janitor.cands = {}
    /\ MarksBeforeListing

\* A row the operator marked is no candidate.
LEMMA CandidatesUnmarked ==
    ASSUME NEW e \in BOOLEAN, NEW now, NEW k \in ListCandidates(e, now)
    PROVE  ~Marked(k)
  BY DEF ListCandidates, Unblocked, Marked

LEMMA ShieldStep ==
    ASSUME Typed, ShieldKept, [ControlNext]_controlVars
    PROVE  ShieldKept'
  <1>1. CASE \E dry, force \in BOOLEAN : BeginJanitor(dry, force)
    <2>1. DOMAIN janitor'.cands = {} /\ janitor'.pc = "health"
      BY <1>1, JanitorIdleIs DEF BeginJanitor, Janitor
    <2> QED BY <2>1 DEF ShieldKept, MarksBeforeListing
  <1>2. CASE ReadHealth \/ ReadMode \/ EndLoop
    <2>1. janitor'.cands = janitor.cands /\ janitor'.pc \in {"mode", "paused", "gc"}
      BY <1>2 DEF ReadHealth, ReadMode, EndLoop, Typed, JanitorSound, Janitor
    <2>2. shielded' = shielded
      BY <1>2 DEF ReadHealth, ReadMode, EndLoop, historyVars
    <2> QED BY <2>1, <2>2 DEF ShieldKept, MarksBeforeListing
  <1>3. ASSUME EndJanitor PROVE ShieldKept'
    BY <1>3, JanitorIdleIs DEF EndJanitor, ShieldKept, MarksBeforeListing
  <1>4. CASE ReadPausedAndDecide
    <2>1. CASE Skips
      BY <1>3, <1>4, <2>1 DEF ReadPausedAndDecide
    <2>2. CASE ~Skips
      <3>1. janitor'.cands = janitor.cands /\ janitor'.pc = "list" /\ shielded' = shielded
        BY <1>4, <2>2 DEF ReadPausedAndDecide, Typed, JanitorSound, Janitor
      <3> QED BY <3>1 DEF ShieldKept, MarksBeforeListing
    <2> QED BY <2>1, <2>2
  <1>5. CASE List
    <2>1. /\ janitor.emergency \in BOOLEAN
          /\ DOMAIN janitor'.cands = ListCandidates(janitor.emergency, janitor.now)
          /\ janitor'.pc = "loop"
      BY <1>5 DEF List, Typed, JanitorSound, Janitor
    <2>2. \A k \in shielded' : Marked(k)
      BY <1>5 DEF List
    <2> QED BY <2>1, <2>2, CandidatesUnmarked DEF ShieldKept, MarksBeforeListing
  <1>6. CASE NextItem
    <2>1. PICK k \in DOMAIN janitor.cands :
              LET rest == [l \in DOMAIN janitor.cands \ {k} |-> janitor.cands[l]]
              IN  janitor' =
                    IF janitor.dry
                    THEN [janitor EXCEPT !.cands = rest,
                                         !.results = @ + 1,
                                         !.recovered = @ + 1,
                                         !.pc = AfterItem(janitor.recovered + 1)]
                    ELSE [janitor EXCEPT !.cands = rest, !.item = k, !.pc = "delete"]
      BY <1>6 DEF NextItem
    <2>2. /\ DOMAIN janitor'.cands = DOMAIN janitor.cands \ {k}
          /\ janitor'.pc \in {"loop", "gc"} \/ janitor'.item = k
      BY <2>1 DEF Typed, JanitorSound, Janitor, AfterItem
    <2>3. shielded' = shielded
      BY <1>6 DEF NextItem, historyVars
    <2> QED BY <2>2, <2>3 DEF ShieldKept, MarksBeforeListing
  <1>7. CASE DeleteManifest \/ DeleteManifestFails \/ MarkItem \/ MarkItemFails
    <2>1. /\ janitor'.cands = janitor.cands
          /\ \/ janitor'.pc \in {"loop", "gc"}
             \/ janitor.pc = "delete" /\ janitor'.item = janitor.item
      BY <1>7 DEF DeleteManifest, DeleteManifestFails, MarkItem, MarkItemFails,
                  ItemFails, AfterItem, Typed, JanitorSound, Janitor
    <2>2. shielded' = shielded
      BY <1>7 DEF DeleteManifest, DeleteManifestFails, MarkItem, MarkItemFails, historyVars
    <2> QED BY <2>1, <2>2 DEF ShieldKept, MarksBeforeListing
  <1>8. CASE FinishJanitor
    BY <1>3, <1>8 DEF FinishJanitor
  <1>9. CASE ControlCrash
    BY <1>3, <1>9 DEF ControlCrash
  <1>10. CASE OperatorMarks
    BY <1>10 DEF OperatorMarks, othersVars, ShieldKept, MarksBeforeListing
  <1>11. ASSUME UNCHANGED <<janitor, shielded>> PROVE ShieldKept'
    BY <1>11 DEF ShieldKept, MarksBeforeListing
  <1>12. CASE \E s \in Syncers : SyncNext(s)
    BY <1>11, <1>12 DEF SyncNext, ListTags, BeginSyncTx, FetchTag, CommitSync,
                        RollbackSync, historyVars
  <1>13. CASE \/ \E r \in Repos, t \in Tags, d \in Digests : ClientPull(r, t, d)
              \/ StampEvent \/ ReceiveEvent \/ DropEvent
              \/ SetMaintenanceMode \/ SetJanitorPaused \/ CollectBegins \/ CollectEnds \/ Housekeeping \/ NextDay
              \/ UNCHANGED controlVars
    BY <1>11, <1>13
       DEF ClientPull, StampEvent, ReceiveEvent, DropEvent, SetMaintenanceMode, SetJanitorPaused,
           CollectBegins, CollectEnds, Housekeeping, NextDay, controlVars,
           othersVars, historyVars
  <1> QED BY <1>1, <1>2, <1>4, <1>5, <1>6, <1>7, <1>8, <1>9, <1>10, <1>12, <1>13
          DEF ControlNext, JanitorNext

\* A mark made before the listing, and not taken back, keeps its artifact out
\* of the whole run, forced or not.
THEOREM ControlMarksBeforeListing == ControlSpec => []MarksBeforeListing
  <1>1. ControlInit => ShieldKept
    BY JanitorIdleIs DEF ControlInit, ShieldKept, MarksBeforeListing
  <1>2. Typed /\ ShieldKept /\ [ControlNext]_controlVars => ShieldKept'
    BY ShieldStep
  <1>3. ShieldKept => MarksBeforeListing
    BY DEF ShieldKept
  <1> QED BY <1>1, <1>2, <1>3, TypedHolds, PTL DEF ControlSpec

----------------------------------------------------------------------------
(* Pauses. *)

\* What has been on since the run began is on now, and a maintenance mode that
\* has been was read as on.
PauseKept ==
    /\ held \subseteq Pausing
    /\ janitor.pc = "paused" /\ "mode" \in held => janitor.modeRead
    /\ PauseHonoured

Deciding == {"idle", "health", "mode"}
Acting == {"list", "loop", "delete", "mark"}

\* The janitor goes on without a decision.
LEMMA ActingOn ==
    ASSUME PauseKept, UNCHANGED <<held, settingVars, gcActive>>,
           janitor'.force = janitor.force,
           janitor'.pc \in Acting => janitor.pc \in Acting,
           janitor'.pc # "paused"
    PROVE  PauseKept'
  BY DEF PauseKept, PauseHonoured, Pausing, Acting, settingVars

LEMMA PauseStep ==
    ASSUME Typed, PauseKept, [ControlNext]_controlVars
    PROVE  PauseKept'
  <1>1. CASE \E dry, force \in BOOLEAN : BeginJanitor(dry, force)
    <2>1. janitor'.pc = "health" /\ held' = Pausing
      BY <1>1, JanitorIdleIs DEF BeginJanitor, Janitor
    <2>2. Pausing' = Pausing
      BY <1>1 DEF BeginJanitor, envVars, settingVars, gcFlagVars, Pausing
    <2> QED BY <2>1, <2>2 DEF PauseKept, PauseHonoured
  <1>2. CASE ReadHealth
    <2>1. janitor'.pc = "mode"
      BY <1>2 DEF ReadHealth, Typed, JanitorSound, Janitor
    <2>2. UNCHANGED <<held, settingVars, gcActive>>
      BY <1>2 DEF ReadHealth, envVars, gcFlagVars, historyVars
    <2> QED BY <2>1, <2>2 DEF PauseKept, PauseHonoured, Pausing, settingVars
  <1>3. CASE ReadMode
    <2>1. janitor'.pc = "paused" /\ janitor'.modeRead = maintenanceMode
      BY <1>3 DEF ReadMode, Typed, JanitorSound, Janitor
    <2>2. UNCHANGED <<held, settingVars, gcActive>>
      BY <1>3 DEF ReadMode, envVars, gcFlagVars, historyVars
    <2> QED BY <2>1, <2>2 DEF PauseKept, PauseHonoured, Pausing, settingVars
  <1>4. ASSUME EndJanitor PROVE PauseKept'
    BY <1>4, JanitorIdleIs DEF EndJanitor, PauseKept, PauseHonoured
  <1>5. CASE ReadPausedAndDecide
    <2>1. CASE Skips
      BY <1>4, <1>5, <2>1 DEF ReadPausedAndDecide
    <2>2. CASE ~Skips
      <3>1. janitor'.pc = "list" /\ janitor'.force = janitor.force
        BY <1>5, <2>2 DEF ReadPausedAndDecide, Typed, JanitorSound, Janitor
      <3>2. UNCHANGED <<held, settingVars, gcActive>>
        BY <1>5, <2>2 DEF ReadPausedAndDecide, envVars, gcFlagVars
      <3>3. janitor.pc = "paused" /\ (~janitor.force => ~janitor.modeRead /\ ~janitorPaused)
        BY <1>5, <2>2 DEF ReadPausedAndDecide, Skips
      <3>4. ~janitor.force => held \cap {"mode", "paused"} = {}
        BY <3>3 DEF PauseKept, Pausing
      <3> QED BY <3>1, <3>2, <3>4 DEF PauseKept, PauseHonoured, Pausing, settingVars
    <2> QED BY <2>1, <2>2
  <1>6. CASE List \/ NextItem \/ EndLoop \/ MarkItem \/ MarkItemFails
    <2>1. /\ janitor'.force = janitor.force /\ janitor.pc \in Acting
          /\ janitor'.pc \in {"loop", "delete", "gc"}
      BY <1>6 DEF List, NextItem, EndLoop, MarkItem, MarkItemFails, ItemFails,
                  AfterItem, Acting, Typed, JanitorSound, Janitor
    <2>2. UNCHANGED <<held, settingVars, gcActive>>
      BY <1>6 DEF List, NextItem, EndLoop, MarkItem, MarkItemFails, envVars,
                  gcFlagVars, historyVars
    <2> QED BY <2>1, <2>2, ActingOn
  <1>7. CASE DeleteManifest \/ DeleteManifestFails
    <2>1. /\ janitor'.force = janitor.force /\ janitor.pc \in Acting
          /\ janitor'.pc \in {"loop", "mark", "gc"}
      BY <1>7 DEF DeleteManifest, DeleteManifestFails, ItemFails, AfterItem, Acting,
                  Typed, JanitorSound, Janitor
    <2>2. UNCHANGED <<held, settingVars, gcActive>>
      BY <1>7 DEF DeleteManifest, DeleteManifestFails, gcFlagVars
    <2> QED BY <2>1, <2>2, ActingOn
  <1>8. CASE FinishJanitor \/ ControlCrash
    BY <1>4, <1>8 DEF FinishJanitor, ControlCrash
  <1>9. CASE SetMaintenanceMode \/ SetJanitorPaused \/ CollectBegins \/ CollectEnds
    <2>1. janitor' = janitor /\ held' \subseteq held
      BY <1>9 DEF SetMaintenanceMode, SetJanitorPaused, CollectBegins, CollectEnds,
                  othersVars, historyVars
    <2>2. ASSUME NEW p \in held' PROVE p \in Pausing'
      <3>1. p \in Pausing
        BY <2>1 DEF PauseKept
      <3>2. CASE SetMaintenanceMode
        BY <2>2, <3>1, <3>2 DEF SetMaintenanceMode, gcFlagVars, Pausing
      <3>3. CASE SetJanitorPaused
        BY <2>2, <3>1, <3>3 DEF SetJanitorPaused, gcFlagVars, Pausing
      <3>4. CASE CollectBegins
        BY <3>1, <3>4 DEF CollectBegins, settingVars, Pausing
      <3>5. CASE CollectEnds
        BY <2>2, <3>1, <3>5 DEF CollectEnds, settingVars, Pausing
      <3> QED BY <1>9, <3>2, <3>3, <3>4, <3>5
    <2> QED BY <2>1, <2>2 DEF PauseKept, PauseHonoured
  <1>10. ASSUME UNCHANGED <<janitor, held, settingVars, gcActive>> PROVE PauseKept'
    BY <1>10 DEF PauseKept, PauseHonoured, Pausing, settingVars
  <1>11. CASE \E s \in Syncers : SyncNext(s)
    BY <1>10, <1>11 DEF SyncNext, ListTags, BeginSyncTx, FetchTag, CommitSync,
                        RollbackSync, historyVars, gcFlagVars
  <1>12. CASE \/ \E r \in Repos, t \in Tags, d \in Digests : ClientPull(r, t, d)
              \/ StampEvent \/ ReceiveEvent \/ DropEvent \/ OperatorMarks \/ Housekeeping
              \/ NextDay \/ UNCHANGED controlVars
    BY <1>10, <1>12
       DEF ClientPull, StampEvent, ReceiveEvent, DropEvent, OperatorMarks, Housekeeping, NextDay,
           controlVars, othersVars, historyVars, gcFlagVars
  <1> QED BY <1>1, <1>2, <1>3, <1>5, <1>6, <1>7, <1>8, <1>9, <1>11, <1>12
          DEF ControlNext, JanitorNext

\* An unforced run that was kept from the start, by maintenance mode or by a
\* paused janitor, deletes nothing, though it reads the two one after the
\* other.
THEOREM ControlPauseHonoured == ControlSpec => []PauseHonoured
  <1>1. ControlInit => PauseKept
    BY JanitorIdleIs DEF ControlInit, PauseKept, PauseHonoured
  <1>2. Typed /\ PauseKept /\ [ControlNext]_controlVars => PauseKept'
    BY PauseStep
  <1>3. PauseKept => PauseHonoured
    BY DEF PauseKept
  <1> QED BY <1>1, <1>2, <1>3, TypedHolds, PTL DEF ControlSpec

----------------------------------------------------------------------------
(* A removal and the request for a collection. *)

\* Without a fault, the run that removed a manifest is about to count it, or
\* has counted something and is still to ask.
AskKept ==
    uncollected /\ faults = 0 =>
        /\ ~janitor.dry
        /\ \/ janitor.pc = "mark"
           \/ janitor.pc \in {"loop", "delete", "gc"} /\ janitor.deleted > 0

LEMMA AskStep ==
    ASSUME Typed, AskKept, [ControlNext]_controlVars
    PROVE  AskKept'
  <1>1. faults \in Nat /\ janitor.deleted \in Nat
    BY JanitorNumbers, ControlAssumption DEF Typed, RestTyped
  <1>2. ASSUME faults' > 0 PROVE AskKept'
    BY <1>2 DEF AskKept
  <1>3. ASSUME UNCHANGED uncollected, faults' >= faults, faults' \in Nat,
               janitor.pc \notin {"loop", "mark", "delete", "gc"}
        PROVE  AskKept'
    BY <1>1, <1>3 DEF AskKept
  <1>4. CASE \/ \E dry, force \in BOOLEAN : BeginJanitor(dry, force)
             \/ ReadHealth \/ ReadMode \/ ReadPausedAndDecide \/ List
    <2>1. /\ UNCHANGED <<uncollected, faults>>
          /\ janitor.pc \in {"idle", "health", "mode", "paused", "list"}
      BY <1>4 DEF BeginJanitor, ReadHealth, ReadMode, ReadPausedAndDecide, List,
                  boundVars, historyVars
    <2> QED BY <1>1, <1>3, <2>1
  <1>5. ASSUME UNCHANGED <<uncollected, faults>>,
               janitor.pc \in {"loop", "delete", "gc"},
               janitor'.pc \in {"loop", "delete", "gc"},
               janitor'.dry = janitor.dry, janitor'.deleted = janitor.deleted
        PROVE  AskKept'
    BY <1>5 DEF AskKept
  <1>6. CASE NextItem \/ EndLoop
    <2>1. /\ janitor.pc = "loop" /\ janitor'.pc \in {"loop", "delete", "gc"}
          /\ janitor'.dry = janitor.dry /\ janitor'.deleted = janitor.deleted
      BY <1>6 DEF NextItem, EndLoop, AfterItem, Typed, JanitorSound, Janitor
    <2>2. UNCHANGED <<uncollected, faults>>
      BY <1>6 DEF NextItem, EndLoop, boundVars, historyVars
    <2> QED BY <1>5, <2>1, <2>2
  <1>7. CASE DeleteManifest
    <2>1. janitor'.pc = "mark" /\ ~janitor'.dry
      BY <1>7 DEF DeleteManifest, Typed, JanitorSound, Janitor
    <2> QED BY <2>1 DEF AskKept
  <1>8. CASE MarkItem
    <2>1. /\ janitor'.pc \in {"loop", "gc"} /\ ~janitor'.dry
          /\ janitor'.deleted = janitor.deleted + 1
      BY <1>8 DEF MarkItem, AfterItem, Typed, JanitorSound, Janitor
    <2> QED BY <1>1, <2>1 DEF AskKept
  <1>9. CASE DeleteManifestFails \/ MarkItemFails \/ DropEvent \/ ControlCrash
    BY <1>1, <1>2, <1>9 DEF DeleteManifestFails, MarkItemFails, DropEvent, ControlCrash, Fault
  <1>10. CASE FinishJanitor
    <2>1. janitor.pc = "gc" /\ faults' = faults
      BY <1>10 DEF FinishJanitor, boundVars
    <2>2. CASE ~janitor.dry /\ janitor.deleted > 0
      BY <1>10, <2>2 DEF FinishJanitor, AskKept
    <2>3. CASE ~(~janitor.dry /\ janitor.deleted > 0)
      BY <1>10, <2>1, <2>3 DEF FinishJanitor, AskKept
    <2> QED BY <2>2, <2>3
  <1>11. ASSUME UNCHANGED <<janitor, uncollected>>, faults' \in Nat, faults' >= faults
         PROVE  AskKept'
    BY <1>1, <1>11 DEF AskKept
  <1>12. CASE \E s \in Syncers : SyncNext(s)
    <2>1. UNCHANGED <<janitor, uncollected>> /\ (Fault \/ UNCHANGED boundVars)
      BY <1>12 DEF SyncNext, ListTags, BeginSyncTx, FetchTag, CommitSync,
                   RollbackSync, historyVars
    <2> QED BY <1>1, <1>11, <2>1 DEF Fault, boundVars
  <1>13. CASE \/ \E r \in Repos, t \in Tags, d \in Digests : ClientPull(r, t, d)
              \/ StampEvent \/ ReceiveEvent \/ OperatorMarks \/ SetMaintenanceMode
              \/ SetJanitorPaused \/ CollectBegins \/ CollectEnds
              \/ Housekeeping \/ NextDay \/ UNCHANGED controlVars
    <2>1. /\ UNCHANGED <<janitor, uncollected>>
          /\ Change \/ Fault \/ UNCHANGED boundVars
      BY <1>13
         DEF ClientPull, StampEvent, ReceiveEvent, OperatorMarks, SetMaintenanceMode,
             SetJanitorPaused, CollectBegins, CollectEnds, Housekeeping, NextDay,
             controlVars, othersVars, historyVars
    <2> QED BY <1>1, <1>11, <2>1 DEF Change, Fault, boundVars
  <1> QED BY <1>4, <1>6, <1>7, <1>8, <1>9, <1>10, <1>12, <1>13
          DEF ControlNext, JanitorNext

\* Between a removal and the end of its run lies the request for a collection,
\* unless something failed.
THEOREM ControlRemovalAsksForGC == ControlSpec => []RemovalAsksForGC
  <1>1. ControlInit => AskKept
    BY DEF ControlInit, AskKept
  <1>2. Typed /\ AskKept /\ [ControlNext]_controlVars => AskKept'
    BY AskStep
  <1>3. Typed /\ AskKept => RemovalAsksForGC
    BY DEF AskKept, RemovalAsksForGC, Typed, RestTyped
  <1> QED BY <1>1, <1>2, <1>3, TypedHolds, PTL DEF ControlSpec

----------------------------------------------------------------------------
(* The registry's own state: what resolves is there, and the events are in   *)
(* the order of what happened.                                               *)

TagsResolve ==
    \A x \in Repos \X Tags : tagOf[x] # NoDigest => <<x[1], tagOf[x]>> \in manifests

\* A push that is still to be delivered, of a manifest that is gone by now, is
\* followed by the news of its removal.
PushesFollowed ==
    \A i \in 1 .. Len(events) :
        events[i].action = "push" /\ events[i].key \notin manifests
            => \E j \in 1 .. Len(events) : /\ j > i
                                           /\ events[j].action = "delete"
                                           /\ events[j].key = events[i].key

RegistryKept == TagsResolve /\ PushesFollowed

\* The queue after an event more, and after the first one is gone.
LEMMA QueueGrows ==
    ASSUME RegistryTyped, NEW event, Emit(event)
    PROVE  /\ Len(events') = Len(events) + 1 /\ Len(events) \in Nat
           /\ \A i \in 1 .. Len(events) : events'[i] = events[i]
           /\ events'[Len(events) + 1] = event
  BY DEF Emit, RegistryTyped

LEMMA QueueShrinks ==
    ASSUME RegistryTyped, events # <<>>, events' = Tail(events)
    PROVE  /\ Len(events') = Len(events) - 1 /\ Len(events) \in Nat \ {0}
           /\ \A i \in 1 .. Len(events') : events'[i] = events[i + 1]
           /\ Head(events) = events[1]
  BY DEF RegistryTyped

LEMMA ClientPullRegistry ==
    ASSUME Typed, RegistryKept, NEW r \in Repos, NEW t \in Tags, NEW d \in Digests,
           ClientPull(r, t, d)
    PROVE  RegistryKept'
  <1>1. /\ manifests' = manifests \cup {<<r, d>>}
        /\ tagOf' = [tagOf EXCEPT ![<<r, t>>] = d]
        /\ tagOf \in [Repos \X Tags -> Digests \cup {NoDigest}]
    BY DEF ClientPull, Typed, RegistryTyped
  <1>2. TagsResolve'
    BY <1>1 DEF RegistryKept, TagsResolve
  <1>3. PushesFollowed'
    <2>1. CASE UNCHANGED events
      BY <1>1, <2>1 DEF RegistryKept, PushesFollowed
    <2>2. ASSUME NEW action \in {"push", "pull"},
                 Emit([action |-> action, key |-> <<r, d>>, tag |-> t])
          PROVE  PushesFollowed'
      <3> DEFINE e == [action |-> action, key |-> <<r, d>>, tag |-> t]
      <3>1. /\ Len(events') = Len(events) + 1 /\ Len(events) \in Nat
            /\ \A i \in 1 .. Len(events) : events'[i] = events[i]
            /\ events'[Len(events) + 1] = e
        BY <2>2, QueueGrows DEF Typed
      <3>2. e.key \in manifests'
        BY <1>1
      <3> QED BY <1>1, <3>1, <3>2 DEF RegistryKept, PushesFollowed
    <2> QED BY <2>1, <2>2 DEF ClientPull
  <1> QED BY <1>2, <1>3 DEF RegistryKept

LEMMA RegistryDeleteRegistry ==
    ASSUME Typed, RegistryKept, NEW k \in Key, RegistryDelete(k)
    PROVE  RegistryKept'
  <1> DEFINE e == [action |-> "delete", key |-> k, tag |-> NoTag]
  <1>1. /\ manifests' = manifests \ {k}
        /\ tagOf' = [x \in Repos \X Tags |->
                        IF x[1] = k[1] /\ tagOf[x] = k[2] THEN NoDigest ELSE tagOf[x]]
    BY DEF RegistryDelete, Typed, RegistryTyped
  <1>2. k = <<k[1], k[2]>>
    BY DEF Key
  <1>3. TagsResolve'
    BY <1>1, <1>2 DEF RegistryKept, TagsResolve
  <1>4. /\ Len(events') = Len(events) + 1 /\ Len(events) \in Nat
        /\ \A i \in 1 .. Len(events) : events'[i] = events[i]
        /\ events'[Len(events) + 1] = e
    BY QueueGrows DEF RegistryDelete, Typed
  <1>5. PushesFollowed'
    <2> SUFFICES ASSUME NEW i \in 1 .. Len(events'),
                        events'[i].action = "push", events'[i].key \notin manifests'
                 PROVE  \E j \in 1 .. Len(events') :
                           /\ j > i /\ events'[j].action = "delete"
                           /\ events'[j].key = events'[i].key
      BY DEF PushesFollowed
    <2>1. i \in 1 .. Len(events) /\ events'[i] = events[i]
      BY <1>4
    <2>2. CASE events[i].key = k
      BY <1>4, <2>1, <2>2
    <2>3. CASE events[i].key # k
      BY <1>1, <1>4, <2>1, <2>3 DEF RegistryKept, PushesFollowed
    <2> QED BY <2>2, <2>3
  <1> QED BY <1>3, <1>5 DEF RegistryKept

LEMMA TailRegistry ==
    ASSUME Typed, RegistryKept, UNCHANGED <<manifests, tagOf>>,
           events # <<>>, events' = Tail(events)
    PROVE  RegistryKept'
  <1>1. /\ Len(events') = Len(events) - 1 /\ Len(events) \in Nat \ {0}
        /\ \A i \in 1 .. Len(events') : events'[i] = events[i + 1]
    BY QueueShrinks DEF Typed
  <1>2. PushesFollowed'
    <2> SUFFICES ASSUME NEW i \in 1 .. Len(events'),
                        events'[i].action = "push", events'[i].key \notin manifests'
                 PROVE  \E j \in 1 .. Len(events') :
                           /\ j > i /\ events'[j].action = "delete"
                           /\ events'[j].key = events'[i].key
      BY DEF PushesFollowed
    <2>1. PICK j \in 1 .. Len(events) : /\ j > i + 1 /\ events[j].action = "delete"
                                        /\ events[j].key = events[i + 1].key
      BY <1>1 DEF RegistryKept, PushesFollowed
    <2>2. j - 1 \in 1 .. Len(events') /\ j - 1 > i /\ events'[j - 1] = events[j]
      BY <1>1, <2>1
    <2> QED BY <1>1, <2>1, <2>2
  <1>3. TagsResolve'
    BY DEF RegistryKept, TagsResolve
  <1> QED BY <1>2, <1>3 DEF RegistryKept

LEMMA RegistryStep ==
    ASSUME Typed, RegistryKept, [ControlNext]_controlVars
    PROVE  RegistryKept'
  <1>1. CASE \E r \in Repos, t \in Tags, d \in Digests : ClientPull(r, t, d)
    BY <1>1, ClientPullRegistry
  <1>2. ASSUME UNCHANGED registryVars PROVE RegistryKept'
    BY <1>2 DEF registryVars, RegistryKept, TagsResolve, PushesFollowed
  <1>3. CASE StampEvent \/ ReceiveEvent \/ DropEvent
    BY <1>2, <1>3, TailRegistry DEF StampEvent, ReceiveEvent, DropEvent, registryVars
  <1>4. CASE DeleteManifest \/ DeleteManifestFails
    BY <1>2, <1>4, RegistryDeleteRegistry
       DEF DeleteManifest, DeleteManifestFails, Typed, JanitorSound
  <1>5. CASE \E s \in Syncers : SyncNext(s)
    BY <1>2, <1>5 DEF SyncNext, ListTags, BeginSyncTx, FetchTag, CommitSync, RollbackSync
  <1>6. CASE JanitorNext /\ ~DeleteManifest /\ ~DeleteManifestFails
    BY <1>2, <1>6
       DEF JanitorNext, BeginJanitor, ReadHealth, ReadMode, ReadPausedAndDecide, List,
           NextItem, EndLoop, MarkItem, MarkItemFails, FinishJanitor, envVars, registryVars
  <1>7. CASE \/ OperatorMarks \/ SetMaintenanceMode \/ SetJanitorPaused
             \/ CollectBegins \/ CollectEnds \/ Housekeeping \/ NextDay
             \/ ControlCrash \/ UNCHANGED controlVars
    BY <1>2, <1>7
       DEF OperatorMarks, SetMaintenanceMode, SetJanitorPaused, CollectBegins,
           CollectEnds, Housekeeping, NextDay, ControlCrash, controlVars, othersVars
  <1> QED BY <1>1, <1>3, <1>4, <1>5, <1>6, <1>7 DEF ControlNext

----------------------------------------------------------------------------
(* What the index shows and the registry does not have.                    *)

\* The rows that are active or will be when a sync under way commits: each is
\* in the registry or someone is left to correct it.  The second part is what
\* makes the first inductive: a sync may have been answered a manifest, found
\* its row marked already, and bring it back with its commit.
Shown(k) == Active(k) \/ Answered(k)
Told(k) == InFlight(k) \/ Marking(k) \/ k \in lost

NewsKept == \A k \in Key : Shown(k) /\ k \notin manifests => Told(k)

\* While nobody has the connection, no sync has an answer.
LEMMA NoAnswer ==
    ASSUME Typed, ConnFree, NEW k PROVE ~Answered(k)
  <1>1. \A s \in Syncers : DOMAIN sync[s].found = {}
    BY ControlAssumption DEF ConnFree, Typed, SyncSound
  <1> QED BY <1>1 DEF Answered

LEMMA NewsStays ==
    ASSUME NewsKept, manifests \subseteq manifests',
           \A k \in Key : Shown(k)' => Shown(k),
           \A k \in Key : Told(k) => Told(k)'
    PROVE  NewsKept'
  BY DEF NewsKept

\* An event more leaves those on their way.
LEMMA InFlightGrows ==
    ASSUME RegistryTyped, NEW event, Emit(event), NEW k
    PROVE  /\ InFlight(k) => InFlight(k)'
           /\ event.action = "delete" /\ event.key = k => InFlight(k)'
  <1>1. /\ Len(events') = Len(events) + 1 /\ Len(events) \in Nat
        /\ \A i \in 1 .. Len(events) : events'[i] = events[i]
        /\ events'[Len(events) + 1] = event
    BY QueueGrows
  <1>2. DOMAIN events = 1 .. Len(events) /\ DOMAIN events' = 1 .. Len(events')
    BY DEF RegistryTyped, Emit
  <1> QED BY <1>1, <1>2 DEF InFlight

\* The first event gone leaves those that are not it.
LEMMA InFlightShrinks ==
    ASSUME RegistryTyped, events # <<>>, events' = Tail(events), NEW k,
           InFlight(k), Head(events).action = "delete" => Head(events).key # k
    PROVE  InFlight(k)'
  <1>1. /\ Len(events') = Len(events) - 1 /\ Len(events) \in Nat \ {0}
        /\ \A i \in 1 .. Len(events') : events'[i] = events[i + 1]
        /\ Head(events) = events[1]
    BY QueueShrinks
  <1>2. DOMAIN events = 1 .. Len(events) /\ DOMAIN events' = 1 .. Len(events')
    BY DEF RegistryTyped
  <1>3. PICK i \in 1 .. Len(events) : events[i].action = "delete" /\ events[i].key = k
    BY <1>2 DEF InFlight
  <1>4. i # 1
    BY <1>1, <1>3
  <1>5. i - 1 \in 1 .. Len(events') /\ events'[i - 1] = events[i]
    BY <1>1, <1>4
  <1> QED BY <1>2, <1>3, <1>5 DEF InFlight

LEMMA ClientPullNews ==
    ASSUME Typed, NewsKept, NEW r \in Repos, NEW t \in Tags, NEW d \in Digests,
           ClientPull(r, t, d)
    PROVE  NewsKept'
  <1>1. /\ manifests \subseteq manifests'
        /\ UNCHANGED <<artifacts, sync, janitor, lost>>
    BY DEF ClientPull, storeVars, historyVars
  <1>2. \A k \in Key : InFlight(k) => InFlight(k)'
    <2>1. CASE UNCHANGED events
      BY <2>1 DEF InFlight
    <2>2. CASE \E action \in {"push", "pull"} :
                  Emit([action |-> action, key |-> <<r, d>>, tag |-> t])
      BY <2>2, InFlightGrows DEF Typed
    <2> QED BY <2>1, <2>2 DEF ClientPull
  <1>3. \A k \in Key : (Shown(k)' => Shown(k)) /\ (Told(k) => Told(k)')
    BY <1>1, <1>2 DEF Shown, Told, Active, Answered, Marking
  <1> QED BY <1>1, <1>3, NewsStays

\* A push that is applied late is followed by the news of the removal.
LEMMA PushFollowed ==
    ASSUME RegistryTyped, PushesFollowed, events # <<>>, NEW k,
           Head(events).action = "push", Head(events).key = k, k \notin manifests
    PROVE  InFlight(k) /\ (events' = Tail(events) => InFlight(k)')
  <1>1. Len(events) \in Nat \ {0} /\ Head(events) = events[1]
    BY DEF RegistryTyped
  <1>2. PICK j \in 1 .. Len(events) :
            j > 1 /\ events[j].action = "delete" /\ events[j].key = k
    BY <1>1 DEF PushesFollowed
  <1>3. InFlight(k)
    BY <1>2 DEF InFlight, RegistryTyped
  <1> QED BY <1>3, InFlightShrinks

LEMMA ReceiveEventNews ==
    ASSUME Typed, RegistryKept, NewsKept, ReceiveEvent
    PROVE  NewsKept'
  <1> DEFINE h == Head(events)
  <1>1. /\ RecordEvent(h.action, h.key, h.tag, EventTime) /\ h.action \in Actions /\ h.key \in Key
        /\ UNCHANGED <<manifests, sync, janitor, lost>>
        /\ events' = Tail(events) \/ UNCHANGED events
        /\ events # <<>> /\ RegistryTyped /\ PushesFollowed
    BY HeadTyped DEF ReceiveEvent, EventTime, Typed, RegistryKept, historyVars
  <1> SUFFICES ASSUME NEW k \in Key, Shown(k)', k \notin manifests PROVE Told(k)'
    BY <1>1 DEF NewsKept
  <1>2. Active(k)'
    BY <1>1, NoAnswer DEF ReceiveEvent, Shown, Answered
  <1>3. CASE h.action = "push" /\ h.key = k
    <2>1. InFlight(k)'
      BY <1>1, <1>3, PushFollowed DEF InFlight
    <2> QED BY <2>1 DEF Told
  <1>4. CASE ~(h.action = "push" /\ h.key = k)
    <2>1. Active(k) /\ (h.action = "delete" => h.key # k)
      BY <1>1, <1>2, <1>4
         DEF RecordEvent, Actions, ApplyPush, ApplyPull, ApplyDelete, ApplyOther,
             Upsert, Active, Typed, StoreSound, StoreInv, StoreTypeOK, Row
    <2>2. Told(k)
      BY <2>1, <1>1 DEF NewsKept, Shown
    <2>3. InFlight(k) => InFlight(k)'
      BY <1>1, <2>1, InFlightShrinks DEF InFlight
    <2> QED BY <1>1, <2>2, <2>3 DEF Told, Marking
  <1> QED BY <1>3, <1>4

LEMMA DropEventNews ==
    ASSUME Typed, NewsKept, DropEvent
    PROVE  NewsKept'
  <1>1. /\ UNCHANGED <<artifacts, manifests, sync, janitor>>
        /\ lost \subseteq lost' /\ RegistryTyped
        /\ events # <<>> /\ events' = Tail(events)
    BY DEF DropEvent, storeVars, Typed
  <1> SUFFICES ASSUME NEW k \in Key, Shown(k), k \notin manifests PROVE Told(k)'
    BY <1>1 DEF NewsKept, Shown, Active, Answered
  <1>2. Told(k)
    BY DEF NewsKept
  <1>3. CASE Head(events).action = "delete" /\ Head(events).key = k
    BY <1>1, <1>3 DEF DropEvent, Told, Shown, Marking
  <1>4. CASE ~(Head(events).action = "delete" /\ Head(events).key = k)
    BY <1>1, <1>2, <1>4, InFlightShrinks DEF Told, Marking
  <1> QED BY <1>3, <1>4

\* What a sync is answered is there at that moment; what it commits it was
\* answered.
LEMMA FetchTagNews ==
    ASSUME Typed, RegistryKept, NewsKept, NEW s \in Syncers, NEW t \in Tags,
           FetchTag(s, t)
    PROVE  NewsKept'
  <1> DEFINE d == tagOf[<<sync[s].repo, t>>]
             more == More(sync[s].found, t, d)
             x == [sync[s] EXCEPT !.todo = @ \ {t}, !.found = more]
  <1>1. sync[s] \in Sync /\ sync[s].repo \in Repos /\ d # NoDigest
    BY DEF Typed, SyncSound, FetchTag
  <1>2. d \in Digests /\ <<sync[s].repo, d>> \in manifests
    BY <1>1 DEF Typed, RegistryTyped, RegistryKept, TagsResolve
  <1>3. UNCHANGED <<artifacts, manifests, events, janitor, lost>>
    BY DEF FetchTag, storeVars, registryVars, historyVars
  <1>4. /\ \A u \in Syncers \ {s} : sync'[u] = sync[u]
        /\ sync'[s].repo = sync[s].repo /\ sync'[s].found = more
    <2>1. sync' = [sync EXCEPT ![s] = x] /\ sync \in [Syncers -> Sync]
      BY FetchTagMoves DEF Typed, SyncSound
    <2>2. sync'[s] = x /\ \A u \in Syncers \ {s} : sync'[u] = sync[u]
      BY <2>1
    <2>3. x.repo = sync[s].repo /\ x.found = more
      BY <1>1, SyncFields
    <2> QED BY <2>2, <2>3
  <1>5. ASSUME NEW k \in Key, Answered(k)', ~Answered(k)
        PROVE  k \in manifests
    <2>1. PICK u \in Syncers : /\ sync'[u].repo = k[1]
                               /\ \E y \in DOMAIN sync'[u].found : sync'[u].found[y] = k[2]
      BY <1>5 DEF Answered
    <2>2. u = s
      BY <1>4, <1>5, <2>1 DEF Answered
    <2>3. PICK y \in DOMAIN more : more[y] = k[2]
      BY <1>4, <2>1, <2>2
    <2>4. y = t
      BY <1>4, <1>5, <2>1, <2>2, <2>3 DEF Answered, More
    <2>5. k[1] = sync[s].repo /\ k[2] = d
      BY <1>4, <2>1, <2>2, <2>3, <2>4 DEF More
    <2>6. k = <<k[1], k[2]>>
      BY DEF Key
    <2> QED BY <1>2, <2>5, <2>6
  <1>6. \A k \in Key : Told(k) => Told(k)'
    BY <1>3 DEF Told, InFlight, Marking
  <1>7. \A k \in Key : Active(k)' => Active(k)
    BY <1>3 DEF Active
  <1> HIDE DEF d, more, x
  <1> QED BY <1>3, <1>5, <1>6, <1>7 DEF NewsKept, Shown

LEMMA CommitSyncNews ==
    ASSUME Typed, NewsKept, NEW s \in Syncers, CommitSync(s)
    PROVE  NewsKept'
  <1>1. /\ SyncRepo(sync[s].repo, sync[s].found, sync[s].now)
        /\ sync' = [sync EXCEPT ![s] = SyncIdle] /\ sync \in [Syncers -> Sync]
        /\ UNCHANGED <<manifests, events, janitor, lost>>
    BY DEF CommitSync, registryVars, historyVars, Typed, SyncSound
  <1>2. \A k \in Key : Told(k) => Told(k)'
    BY <1>1 DEF Told, InFlight, Marking
  <1>3. \A k \in Key : Answered(k)' => Answered(k)
    BY <1>1, SyncIdleIs DEF Answered
  <1>4. ASSUME NEW k \in Key, Active(k)', ~Active(k)
        PROVE  Answered(k)
    <2>1. PICK latest \in Latest(sync[s].found) :
             artifacts' = Upsert({<<sync[s].repo, d>> : d \in DOMAIN latest},
                                 LAMBDA l : SyncedRow(l, latest[l[2]], sync[s].now))
      BY <1>1 DEF SyncRepo
    <2>2. k \in {<<sync[s].repo, d>> : d \in DOMAIN latest}
      BY <1>4, <2>1 DEF Active, Upsert
    <2>3. PICK d \in DOMAIN latest : k = <<sync[s].repo, d>>
      BY <2>2
    <2>4. latest[d] \in DOMAIN sync[s].found /\ sync[s].found[latest[d]] = d
      BY <2>1, <2>3 DEF Latest
    <2> QED BY <2>3, <2>4 DEF Answered
  <1> QED BY <1>1, <1>2, <1>3, <1>4, NewsStays DEF Shown

LEMMA SyncNextNews ==
    ASSUME Typed, RegistryKept, NewsKept, NEW s \in Syncers, SyncNext(s)
    PROVE  NewsKept'
  <1>1. CASE \/ \E r \in Repos : ListTags(s, r)
             \/ BeginSyncTx(s) \/ RollbackSync(s)
    <2>1. UNCHANGED <<artifacts, manifests, events, janitor, lost>>
      BY <1>1 DEF ListTags, BeginSyncTx, RollbackSync, storeVars, registryVars, historyVars
    <2>2. sync \in [Syncers -> Sync]
      BY DEF Typed, SyncSound
    <2>3. \A k \in Key : Answered(k)' => Answered(k)
      <3>1. CASE \E r \in Repos : ListTags(s, r)
        BY <2>2, <3>1 DEF ListTags, Answered
      <3>2. CASE BeginSyncTx(s)
        <4>1. \A u \in Syncers : sync'[u].repo = sync[u].repo /\ sync'[u].found = sync[u].found
          BY <2>2, <3>2, SyncFields DEF BeginSyncTx
        <4> QED BY <4>1 DEF Answered
      <3>3. CASE RollbackSync(s)
        BY <2>2, <3>3, SyncIdleIs DEF RollbackSync, Answered
      <3> QED BY <1>1, <3>1, <3>2, <3>3
    <2>4. \A k \in Key : (Shown(k)' => Shown(k)) /\ (Told(k) => Told(k)')
      BY <2>1, <2>3 DEF Shown, Told, InFlight, Marking, Active
    <2> QED BY <2>1, <2>4, NewsStays
  <1> QED BY <1>1, FetchTagNews, CommitSyncNews DEF SyncNext

\* The item in hand is told by the mark to come, then by the event or the mark
\* made.
LEMMA RemovalNews ==
    ASSUME Typed, NewsKept, NEW i \in Key, RegistryDelete(i), janitor.pc # "mark",
           UNCHANGED <<artifacts, sync>>
    PROVE  NewsKept'
  <1> SUFFICES ASSUME NEW k \in Key, Shown(k), k \notin manifests'
               PROVE  Told(k)'
    BY DEF NewsKept, Shown, Active, Answered
  <1>1. CASE k = i
    <2>1. InFlight(i)'
      BY InFlightGrows DEF RegistryDelete, Typed
    <2> QED BY <1>1, <2>1 DEF Told
  <1>2. CASE k # i
    <2>1. InFlight(k) \/ k \in lost
      BY <1>2 DEF NewsKept, Told, Marking, RegistryDelete
    <2>2. InFlight(k) => InFlight(k)'
      BY InFlightGrows DEF RegistryDelete, Typed
    <2> QED BY <1>2, <2>1, <2>2 DEF Told, RegistryDelete
  <1> QED BY <1>1, <1>2

LEMMA MarkItemNews ==
    ASSUME Typed, NewsKept, MarkItem PROVE NewsKept'
  <1>1. /\ janitor.pc = "mark" /\ MarkDeleted(janitor.item) /\ ConnFree
        /\ UNCHANGED <<manifests, events, sync, lost>>
    BY DEF MarkItem, envVars, historyVars
  <1> SUFFICES ASSUME NEW k \in Key, Shown(k)', k \notin manifests PROVE Told(k)'
    BY <1>1 DEF NewsKept
  <1>2. Active(k)'
    BY <1>1, NoAnswer DEF Shown, Answered
  <1>3. Active(k) /\ k # janitor.item
    BY <1>1, <1>2 DEF MarkDeleted, Active, Typed, StoreSound, StoreInv, StoreTypeOK, Row
  <1>4. InFlight(k) \/ k \in lost
    BY <1>1, <1>3 DEF NewsKept, Shown, Told, Marking
  <1> QED BY <1>1, <1>4 DEF Told, InFlight

\* A mark that is not made counts as lost, unless the event is on its way.
LEMMA MarkLostNews ==
    ASSUME Typed, NewsKept, janitor.pc = "mark",
           UNCHANGED <<artifacts, manifests, events>>,
           \A k \in Key : Answered(k)' => Answered(k),
           lost' = LostWithMark(janitor.item)
    PROVE  NewsKept'
  <1> SUFFICES ASSUME NEW k \in Key, Shown(k)', k \notin manifests PROVE Told(k)'
    BY DEF NewsKept
  <1>1. Shown(k) /\ Told(k)
    BY DEF NewsKept, Shown, Active
  <1>2. InFlight(k)' <=> InFlight(k)
    BY DEF InFlight
  <1> QED BY <1>1, <1>2 DEF Told, Shown, Marking, LostWithMark

LEMMA JanitorNextNews ==
    ASSUME Typed, NewsKept, JanitorNext PROVE NewsKept'
  <1>1. ASSUME janitor.pc # "mark", UNCHANGED <<artifacts, manifests, events, sync, lost>>
        PROVE  NewsKept'
    <2>1. \A k \in Key : (Shown(k)' => Shown(k)) /\ (Told(k) => Told(k)')
      BY <1>1 DEF Shown, Told, InFlight, Marking, Active, Answered
    <2> QED BY <1>1, <2>1, NewsStays
  <1>2. CASE \/ \E dry, force \in BOOLEAN : BeginJanitor(dry, force)
             \/ ReadHealth \/ ReadMode \/ ReadPausedAndDecide \/ List
             \/ NextItem \/ EndLoop \/ FinishJanitor
    <2>1. janitor.pc # "mark" /\ UNCHANGED <<artifacts, manifests, events, sync, lost>>
      <3>1. CASE \E dry, force \in BOOLEAN : BeginJanitor(dry, force)
        BY <3>1 DEF BeginJanitor, envVars, storeVars
      <3>2. CASE ReadHealth \/ ReadMode \/ EndLoop \/ NextItem
        BY <3>2 DEF ReadHealth, ReadMode, EndLoop, NextItem, envVars, storeVars, historyVars
      <3>3. CASE ReadPausedAndDecide \/ List \/ FinishJanitor
        BY <3>3 DEF ReadPausedAndDecide, List, FinishJanitor, envVars, storeVars, registryVars
      <3> QED BY <1>2, <3>1, <3>2, <3>3
    <2> QED BY <1>1, <2>1
  <1>3. CASE DeleteManifest \/ DeleteManifestFails
    <2>1. janitor.pc = "delete" /\ janitor.item \in Key /\ UNCHANGED <<artifacts, sync>>
      BY <1>3 DEF DeleteManifest, DeleteManifestFails, storeVars, Typed, JanitorSound
    <2>2. \/ RegistryDelete(janitor.item)
          \/ UNCHANGED <<manifests, events, lost>>
      BY <1>3 DEF DeleteManifest, DeleteManifestFails, registryVars
    <2> QED BY <1>1, <2>1, <2>2, RemovalNews
  <1>4. CASE MarkItem
    BY <1>4, MarkItemNews
  <1>5. CASE MarkItemFails
    BY <1>5, MarkLostNews DEF MarkItemFails, envVars, storeVars, Answered
  <1> QED BY <1>2, <1>3, <1>4, <1>5 DEF JanitorNext

LEMMA OthersNews ==
    ASSUME Typed, NewsKept,
           \/ StampEvent \/ OperatorMarks \/ SetMaintenanceMode
           \/ SetJanitorPaused \/ CollectBegins \/ CollectEnds \/ Housekeeping
           \/ NextDay \/ UNCHANGED controlVars
    PROVE  NewsKept'
  <1>1. UNCHANGED <<manifests, events, sync, janitor, lost>>
    BY DEF StampEvent, OperatorMarks, SetMaintenanceMode, SetJanitorPaused,
           CollectBegins, CollectEnds, Housekeeping, NextDay, controlVars, othersVars,
           registryVars, historyVars
  <1>2. \A k \in Key : Active(k)' => Active(k)
    <2>1. CASE OperatorMarks
      BY <2>1 DEF OperatorMarks, Pin, Protect, HandlePin, HandleProtect, Active,
                  Typed, StoreSound, StoreInv, StoreTypeOK, Row
    <2>2. CASE ~OperatorMarks
      <3>1. UNCHANGED artifacts
        BY <2>2 DEF StampEvent, SetMaintenanceMode, SetJanitorPaused, CollectBegins,
                    CollectEnds, Housekeeping, PruneMetadata, NextDay, Tick, controlVars, storeVars
      <3> QED BY <3>1 DEF Active
    <2> QED BY <2>1, <2>2
  <1>3. \A k \in Key : (Shown(k)' => Shown(k)) /\ (Told(k) => Told(k)')
    BY <1>1, <1>2 DEF Shown, Told, InFlight, Marking, Answered
  <1> QED BY <1>1, <1>3, NewsStays

LEMMA ControlCrashNews ==
    ASSUME Typed, NewsKept, ControlCrash PROVE NewsKept'
  <1>1. UNCHANGED <<artifacts, manifests, events>>
    BY DEF ControlCrash, storeVars, registryVars
  <1>2. \A k \in Key : ~Answered(k)'
    BY SyncIdleIs DEF ControlCrash, Answered
  <1>3. CASE janitor.pc = "mark"
    BY <1>1, <1>2, <1>3, MarkLostNews DEF ControlCrash
  <1>4. CASE janitor.pc # "mark"
    <2>1. lost' = lost
      BY <1>4 DEF ControlCrash
    <2>2. \A k \in Key : (Shown(k)' => Shown(k)) /\ (Told(k) => Told(k)')
      BY <1>1, <1>2, <1>4, <2>1 DEF Shown, Told, InFlight, Marking, Active
    <2> QED BY <1>1, <2>2, NewsStays
  <1> QED BY <1>3, <1>4

LEMMA NewsStep ==
    ASSUME Typed, RegistryKept, NewsKept, [ControlNext]_controlVars
    PROVE  NewsKept'
  BY ClientPullNews, ReceiveEventNews, DropEventNews, SyncNextNews, JanitorNextNews,
     OthersNews, ControlCrashNews DEF ControlNext

\* What the index shows as cached is in the registry, or the news that it is
\* gone is on its way, or that news was lost to a fault.
THEOREM ControlNewsReachesIndex == ControlSpec => []NewsReachesIndex
  <1>1. ControlInit => RegistryKept /\ NewsKept
    BY SyncIdleIs DEF ControlInit, RegistryKept, TagsResolve, PushesFollowed, NewsKept,
       Shown, Active, Answered, StoreInit
  <1>2. Typed /\ RegistryKept /\ NewsKept /\ [ControlNext]_controlVars
            => RegistryKept' /\ NewsKept'
    BY RegistryStep, NewsStep
  <1>3. Typed /\ NewsKept => NewsReachesIndex
    BY DEF NewsKept, NewsReachesIndex, Shown, Told, Active, Typed, StoreSound,
           StoreInv, StoreTypeOK
  <1> QED BY <1>1, <1>2, <1>3, TypedHolds, PTL DEF ControlSpec
=============================================================================
