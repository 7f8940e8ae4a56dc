----------------------------- MODULE NamesProofs -----------------------------
(***************************************************************************)
(* What TLAPS proves of Names: that a pulled artifact is addressed under   *)
(* the name it was stored by, and that the rewriting of the stored names   *)
(* leaves every row with the artifact it was made for, however the starts  *)
(* of the two processes fall.                                              *)
(***************************************************************************)
EXTENDS Names, SequenceTheorems, FiniteSetTheorems, TLAPS

\* A row's name is the canonical one of what it stands for.
Canonical(row) == row.repo = <<row.of[1]>> \o row.of[2]

\* Or still the one Docker Hub knows it by, which names no host.
Named(row) ==
    \/ Canonical(row)
    \/ /\ row.repo = row.of[2] /\ row.of[1] = DefaultTarget
       /\ ~AlreadyCanonical(row.repo)

\* The updates a process holds are of canonical names, and each names what
\* the row with its id stands for.
Fits(rows, u) ==
    u.id \in DOMAIN rows => u.repo = <<rows[u.id].of[1]>> \o rows[u.id].of[2]

\* Whoever is past a table has left no name in it to be rewritten.
Pending(rows, p) ==
    \A i \in DOMAIN rows : ~AlreadyCanonical(rows[i].repo) =>
        \E u \in process[p].updates : u.id = i

ArtifactsPending ==
    \A p \in Processes :
        /\ process[p].pc = "artifacts" => Pending(artifacts, p)
        /\ process[p].pc \in {"tags", "events", "up"} =>
              \A i \in DOMAIN artifacts : AlreadyCanonical(artifacts[i].repo)

TagsPending ==
    \A p \in Processes :
        /\ process[p].pc = "tags" => Pending(tags, p)
        /\ process[p].pc \in {"events", "up"} =>
              \A i \in DOMAIN tags : AlreadyCanonical(tags[i].repo)

EventsPending ==
    \A p \in Processes :
        /\ process[p].pc = "events" => Pending(events, p)
        /\ process[p].pc = "up" =>
              \A i \in DOMAIN events : AlreadyCanonical(events[i].repo)

UpdatesCanonical ==
    \A p \in Processes : \A u \in process[p].updates : AlreadyCanonical(u.repo)

\* Two rows do not stand for the same artifact.
Distinct(rows) ==
    \A i, j \in DOMAIN rows :
        i # j => rows[i].of # rows[j].of \/ rows[i].digest # rows[j].digest

ArtifactsNamed ==
    /\ \A i \in DOMAIN artifacts : Named(artifacts[i])
    /\ \A p \in Processes : process[p].pc = "artifacts" =>
          \A u \in process[p].updates : u.id \in DOMAIN artifacts /\ Fits(artifacts, u)
    /\ Distinct(artifacts)

\* Of the tags all this goes only for the rows that no one claimed.
TagFits(u) == u.id \in DOMAIN tags => tags[u.id].claimed \/ Fits(tags, u)

TagsNamed ==
    /\ \A i \in DOMAIN tags :
          IF tags[i].claimed THEN AlreadyCanonical(tags[i].repo) ELSE Named(tags[i])
    /\ \A p \in Processes : process[p].pc = "tags" =>
          \A u \in process[p].updates : TagFits(u)
    /\ \A i, j \in DOMAIN tags :
          i # j /\ ~tags[i].claimed /\ ~tags[j].claimed =>
              \/ tags[i].of # tags[j].of
              \/ tags[i].digest # tags[j].digest
              \/ tags[i].tag # tags[j].tag

EventsNamed ==
    /\ \A i \in DOMAIN events : Named(events[i])
    /\ \A p \in Processes : process[p].pc = "events" =>
          \A u \in process[p].updates : u.id <= lastEvent /\ Fits(events, u)

Typed ==
    /\ \A i \in DOMAIN artifacts : i \in Nat /\ artifacts[i] \in Row
    /\ \A i \in DOMAIN tags : i \in Nat /\ tags[i] \in TagRows
    /\ \A i \in DOMAIN events : i \in 1 .. lastEvent /\ events[i] \in Row
    /\ lastEvent \in 0 .. MaxEvents + Cardinality(Legacy)
    /\ process \in [Processes -> [pc: {"down", "artifacts", "tags", "events", "up"},
                                  updates: SUBSET Update]]
    /\ faults \in 0 .. MaxFaults

NamesInv ==
    /\ Typed
    /\ UpdatesCanonical
    /\ ArtifactsPending
    /\ TagsPending
    /\ EventsPending
    /\ EventsNamed
    /\ ArtifactsNamed
    /\ TagsNamed

----------------------------------------------------------------------------
(* Names. *)

LEMMA PrefixedName ==
    ASSUME NEW h \in Segments, NEW r \in Name
    PROVE  /\ <<h>> \o r \in Repo
           /\ Head(<<h>> \o r) = h
           /\ Tail(<<h>> \o r) = r
           /\ Len(<<h>> \o r) = Len(r) + 1
<1> DEFINE n == <<h>> \o r
<1>1. <<h>> \in Seq(Segments) /\ Len(<<h>>) = 1 /\ r \in Seq(Segments)
  BY DEF Name
<1>2. /\ n \in Seq(Segments) /\ Len(n) = 1 + Len(r)
      /\ \A i \in 1 .. 1 + Len(r) : n[i] = IF i <= 1 THEN <<h>>[i] ELSE r[i - 1]
  BY <1>1, ConcatProperties
<1>3. Len(r) \in Nat
  BY <1>1
<1>4. n # <<>> /\ n[1] = h /\ Head(n) = n[1]
  BY <1>2, <1>3
<1> HIDE DEF n
<1>5. /\ Tail(n) \in Seq(Segments) /\ Len(Tail(n)) = Len(n) - 1
      /\ \A i \in 1 .. Len(Tail(n)) : Tail(n)[i] = n[i + 1]
  BY <1>2, <1>4, HeadTailProperties
<1>6. Len(Tail(n)) = Len(r) /\ \A i \in 1 .. Len(r) : Tail(n)[i] = r[i]
  BY <1>2, <1>3, <1>5
<1>7. Tail(n) = r
  BY <1>1, <1>5, <1>6, SeqEqual
<1>8. n \in Repo /\ Head(n) = h /\ Tail(n) = r /\ Len(n) = Len(r) + 1
  BY <1>2, <1>3, <1>4, <1>7 DEF Repo, Name
<1> QED
  BY <1>8 DEF n

LEMMA NonEmptyName ==
    ASSUME NEW r \in Repo
    PROVE  r \in Name /\ Len(r) \in Nat \ {0} /\ Head(r) \in Segments
BY HeadTailProperties, EmptySeq DEF Repo, Name

LEMMA HostsAreLower ==
    ASSUME NEW h \in Hosts
    PROVE  h \in Segments /\ Lower[h] = h
<1>1. PICK i \in DOMAIN UpstreamsJSON : h = Lower[UpstreamsJSON[i].host]
  BY DEF Hosts, Upstreams, ParseUpstreamTargets
<1>2. UpstreamsJSON[i] \in [host: Segments, default: BOOLEAN]
  <2>1. UpstreamsJSON \in Seq([host: Segments, default: BOOLEAN])
    BY NamesAssumption
  <2>2. UpstreamsJSON \in [1 .. Len(UpstreamsJSON) -> [host: Segments, default: BOOLEAN]]
    BY <2>1, LenProperties
  <2> QED
    BY <2>2
<1> QED
  BY <1>1, <1>2, NamesAssumption

LEMMA DefaultIsHost == DefaultTarget \in Hosts
<1>1. DOMAIN Upstreams = DOMAIN UpstreamsJSON
  BY DEF Upstreams, ParseUpstreamTargets
<1>2. 1 \in DOMAIN UpstreamsJSON
  BY NamesAssumption DEF Accepted
<1>3. \E i \in DOMAIN Upstreams : Upstreams[i].default
  BY <1>1, <1>2 DEF Upstreams, ParseUpstreamTargets
<1> QED
  BY <1>3 DEF DefaultTarget, Hosts

LEMMA Addressed ==
    ASSUME NEW h \in Hosts, NEW r \in Repo
    PROVE  /\ CanonicalRepo(h, r) = <<h>> \o r
           /\ CanonicalRepo(h, r) \in Repo
           /\ AlreadyCanonical(CanonicalRepo(h, r))
           /\ ResolveRepoTarget(CanonicalRepo(h, r)) = <<h, r>>
<1>1. h \in Segments /\ Lower[h] = h
  BY HostsAreLower
<1>2. r \in Name /\ r # <<>> /\ Len(r) \in Nat \ {0}
  BY NonEmptyName DEF Repo
<1>3. CanonicalRepo(h, r) = <<h>> \o r
  BY <1>1, <1>2 DEF CanonicalRepo, TargetOrDefault
<1> DEFINE n == <<h>> \o r
<1>4. n \in Repo /\ Head(n) = h /\ Tail(n) = r /\ Len(n) = Len(r) + 1
  BY <1>1, <1>2, PrefixedName
<1> HIDE DEF n
<1>5. HasPrefix(n, h)
  BY <1>1, <1>2, <1>4 DEF HasPrefix
<1>6. AlreadyCanonical(n) /\ ResolveRepoTarget(n) = <<h, r>>
  BY <1>1, <1>4, <1>5 DEF AlreadyCanonical, ResolveRepoTarget
<1> QED
  BY <1>3, <1>4, <1>6 DEF n

LEMMA Served ==
    ASSUME NEW name \in Repo
    PROVE  \E h \in Hosts, r \in Repo : ResolveTarget(name) = <<h, r>>
<1>1. CASE \E h \in Hosts : HasPrefix(name, h)
  <2>1. PICK h \in Hosts : HasPrefix(name, h)
    BY <1>1
  <2>2. Len(name) > 1 /\ Lower[Head(name)] = h
    BY <2>1 DEF HasPrefix
  <2>3. Tail(name) \in Seq(Segments) /\ Len(Tail(name)) = Len(name) - 1
    BY HeadTailProperties DEF Repo, Name
  <2>4. Len(name) \in Nat
    BY NonEmptyName
  <2>5. Tail(name) \in Repo
    <3>1. Len(Tail(name)) > 0
      BY <2>2, <2>3, <2>4
    <3>2. Tail(name) # <<>>
      BY <3>1, EmptySeq
    <3> QED
      BY <2>3, <3>2 DEF Repo, Name
  <2>6. ResolveTarget(name) = <<h, Tail(name)>>
    BY <1>1, <2>2 DEF ResolveTarget
  <2> DEFINE r == Tail(name)
  <2>7. r \in Repo /\ ResolveTarget(name) = <<h, r>>
    BY <2>5, <2>6
  <2> HIDE DEF r
  <2> QED
    BY <2>7
<1>2. CASE ~\E h \in Hosts : HasPrefix(name, h)
  BY <1>2, DefaultIsHost DEF ResolveTarget
<1> QED
  BY <1>1, <1>2

\* The name of a row of each kind resolves to what it stands for.
LEMMA CanonicalResolves ==
    ASSUME NEW row, row.of \in Hosts \X Repo, Canonical(row)
    PROVE  /\ AlreadyCanonical(row.repo)
           /\ ResolveRepoTarget(row.repo) = row.of
<1>1. PICK h \in Hosts, r \in Repo : row.of = <<h, r>>
  OBVIOUS
<1>2. row.repo = CanonicalRepo(h, r)
  BY <1>1, Addressed DEF Canonical
<1> QED
  BY <1>1, <1>2, Addressed

\* The name decides what a row stands for, once it is canonical.
LEMMA CanonicalDiffer ==
    ASSUME NEW h \in Hosts, NEW r \in Repo, NEW g \in Hosts, NEW q \in Repo,
           <<h>> \o r = <<g>> \o q
    PROVE  h = g /\ r = q
<1>1. h \in Segments /\ g \in Segments /\ r \in Name /\ q \in Name
  BY HostsAreLower, NonEmptyName
<1>2. Head(<<h>> \o r) = h /\ Tail(<<h>> \o r) = r
  BY <1>1, PrefixedName
<1>3. Head(<<g>> \o q) = g /\ Tail(<<g>> \o q) = q
  BY <1>1, PrefixedName
<1> QED
  BY <1>2, <1>3

\* What a process reads it updates as it should.
LEMMA UpdatesFit ==
    ASSUME NEW rows,
           \A i \in DOMAIN rows : i \in Nat /\ rows[i].repo \in Repo
                                 /\ rows[i].of \in Hosts \X Repo
    PROVE  /\ Updates(rows) \subseteq Update
           /\ \A u \in Updates(rows) : u.id \in DOMAIN rows /\ AlreadyCanonical(u.repo)
           /\ \A i \in DOMAIN rows : ~AlreadyCanonical(rows[i].repo) =>
                 \E u \in Updates(rows) : u.id = i
           /\ \A u \in Updates(rows) :
                 /\ ~AlreadyCanonical(rows[u.id].repo)
                 /\ Named(rows[u.id]) => Fits(rows, u)
<1>1. ASSUME NEW i \in DOMAIN rows
      PROVE  /\ CanonicalRepo(DefaultTarget, rows[i].repo) \in Repo
             /\ AlreadyCanonical(CanonicalRepo(DefaultTarget, rows[i].repo))
             /\ CanonicalRepo(DefaultTarget, rows[i].repo) = <<DefaultTarget>> \o rows[i].repo
  BY Addressed, DefaultIsHost
<1>2. ASSUME NEW u \in Updates(rows)
      PROVE  \E i \in DOMAIN rows :
                u = [id |-> i, repo |-> CanonicalRepo(DefaultTarget, rows[i].repo)]
                /\ ~AlreadyCanonical(rows[i].repo)
  BY DEF Updates
<1>3. Updates(rows) \subseteq Update
  BY <1>1, <1>2 DEF Update
<1>4. \A u \in Updates(rows) : u.id \in DOMAIN rows /\ AlreadyCanonical(u.repo)
  BY <1>1, <1>2
<1>5. ASSUME NEW i \in DOMAIN rows, ~AlreadyCanonical(rows[i].repo)
      PROVE  \E u \in Updates(rows) : u.id = i
  <2> DEFINE u == [id |-> i, repo |-> CanonicalRepo(DefaultTarget, rows[i].repo)]
  <2>1. u \in Updates(rows)
    BY <1>5 DEF Updates
  <2>2. u.id = i
    OBVIOUS
  <2> HIDE DEF u
  <2> QED
    BY <2>1, <2>2
<1>6. ASSUME NEW u \in Updates(rows)
      PROVE  /\ ~AlreadyCanonical(rows[u.id].repo)
             /\ Named(rows[u.id]) => Fits(rows, u)
  <2>1. PICK i \in DOMAIN rows :
           u = [id |-> i, repo |-> CanonicalRepo(DefaultTarget, rows[i].repo)]
           /\ ~AlreadyCanonical(rows[i].repo)
    BY <1>2
  <2>2. u.id = i /\ u.repo = <<DefaultTarget>> \o rows[i].repo
    BY <1>1, <2>1
  <2>3. ~Canonical(rows[i])
    BY <2>1, CanonicalResolves
  <2>4. Named(rows[i]) =>
           rows[i].repo = rows[i].of[2] /\ rows[i].of[1] = DefaultTarget
    BY <2>3 DEF Named
  <2> QED
    BY <2>1, <2>2, <2>4 DEF Fits
<1> QED
  BY <1>3, <1>4, <1>5, <1>6

\* A rewritten row is canonical, and the others are as they were.
LEMMA Rewritten ==
    ASSUME NEW T \in {Row, TagRows}, NEW rows, \A i \in DOMAIN rows : rows[i] \in T,
           NEW u \in Update, AlreadyCanonical(u.repo)
    PROVE  /\ DOMAIN SetRepo(rows, u) = DOMAIN rows
           /\ \A i \in DOMAIN rows :
                 /\ SetRepo(rows, u)[i] \in T
                 /\ T = TagRows => /\ SetRepo(rows, u)[i].tag = rows[i].tag
                                   /\ SetRepo(rows, u)[i].claimed = rows[i].claimed
                 /\ SetRepo(rows, u)[i].of = rows[i].of
                 /\ SetRepo(rows, u)[i].digest = rows[i].digest
                 /\ i # u.id => SetRepo(rows, u)[i] = rows[i]
                 /\ i = u.id => SetRepo(rows, u)[i].repo = u.repo
                 /\ ~AlreadyCanonical(SetRepo(rows, u)[i].repo) =>
                       i # u.id /\ ~AlreadyCanonical(rows[i].repo)
                 /\ Named(rows[i]) /\ Fits(rows, u) => Named(SetRepo(rows, u)[i])
<1>1. ASSUME NEW i \in DOMAIN rows
      PROVE  /\ SetRepo(rows, u)[i] \in T
             /\ T = TagRows => /\ SetRepo(rows, u)[i].tag = rows[i].tag
                               /\ SetRepo(rows, u)[i].claimed = rows[i].claimed
             /\ SetRepo(rows, u)[i].of = rows[i].of
             /\ SetRepo(rows, u)[i].digest = rows[i].digest
             /\ i # u.id => SetRepo(rows, u)[i] = rows[i]
             /\ i = u.id => SetRepo(rows, u)[i].repo = u.repo
  <2>1. SetRepo(rows, u)[i] = IF i = u.id THEN [rows[i] EXCEPT !.repo = u.repo] ELSE rows[i]
    BY DEF SetRepo
  <2>2. u.repo \in Repo
    BY DEF Update
  <2>3. CASE T = Row
    <3>1. rows[i] \in [repo: Repo, digest: Digests, of: Hosts \X Repo]
      BY <2>3 DEF Row
    <3> QED
      BY <2>1, <2>2, <2>3, <3>1 DEF Row, TagRows
  <2>4. CASE T = TagRows
    <3>1. rows[i] \in [repo: Repo, digest: Digests, tag: Tags, of: Hosts \X Repo,
                       claimed: BOOLEAN]
      BY <2>4 DEF TagRows
    <3> QED
      BY <2>1, <2>2, <2>4, <3>1 DEF TagRows
  <2> QED
    BY <2>3, <2>4
<1>2. ASSUME NEW i \in DOMAIN rows, Named(rows[i]), Fits(rows, u)
      PROVE  Named(SetRepo(rows, u)[i])
  <2>1. CASE i = u.id
    BY <1>1, <1>2, <2>1 DEF Fits, Named, Canonical
  <2>2. CASE i # u.id
    BY <1>1, <1>2, <2>2
  <2> QED
    BY <2>1, <2>2
<1>3. DOMAIN SetRepo(rows, u) = DOMAIN rows
  BY DEF SetRepo
<1> QED
  BY <1>1, <1>2, <1>3

----------------------------------------------------------------------------
(* The invariant: its parts are kept by the steps that only move a process. *)

PCs == {"down", "artifacts", "tags", "events", "up"}
ProcessState == [pc: PCs, updates: SUBSET Update]

\* A process goes to another place and holds other updates.
LEMMA ProcessMoves ==
    ASSUME Typed, NEW p \in Processes, NEW c \in PCs, NEW U \in SUBSET Update,
           process' = [process EXCEPT ![p] = [pc |-> c, updates |-> U]]
    PROVE  /\ process' \in [Processes -> ProcessState]
           /\ process'[p].pc = c /\ process'[p].updates = U
           /\ \A q \in Processes \ {p} : process'[q] = process[q]
<1> DEFINE w == [pc |-> c, updates |-> U]
<1>1. w \in ProcessState /\ w.pc = c /\ w.updates = U
  BY DEF ProcessState
<1>2. process \in [Processes -> ProcessState]
  BY DEF Typed, ProcessState, PCs
<1> HIDE DEF w
<1>3. process' = [process EXCEPT ![p] = w]
  BY DEF w
<1>4. process' \in [Processes -> ProcessState] /\ process'[p] = w
      /\ \A q \in Processes \ {p} : process'[q] = process[q]
  BY <1>1, <1>2, <1>3
<1> QED
  BY <1>1, <1>4

LEMMA ProcessTyped ==
    ASSUME Typed, NEW p \in Processes
    PROVE  /\ process[p].pc \in PCs
           /\ process[p].updates \in SUBSET Update
           /\ process[p] = [pc |-> process[p].pc, updates |-> process[p].updates]
           /\ \A U : [process EXCEPT ![p].updates = U] =
                     [process EXCEPT ![p] = [pc |-> process[p].pc, updates |-> U]]
           /\ \A c : [process EXCEPT ![p].pc = c] =
                     [process EXCEPT ![p] = [pc |-> c, updates |-> process[p].updates]]
<1>1. process \in [Processes -> [pc: PCs, updates: SUBSET Update]]
  BY DEF Typed, PCs
<1>2. process[p] \in [pc: PCs, updates: SUBSET Update]
  BY <1>1
<1>3. process[p].pc \in PCs /\ process[p].updates \in SUBSET Update
      /\ process[p] = [pc |-> process[p].pc, updates |-> process[p].updates]
  BY <1>2
<1>4. ASSUME NEW U
      PROVE  [process EXCEPT ![p].updates = U] =
             [process EXCEPT ![p] = [pc |-> process[p].pc, updates |-> U]]
  <2>1. [process[p] EXCEPT !.updates = U] = [pc |-> process[p].pc, updates |-> U]
    BY <1>2
  <2> QED
    BY <2>1
<1>5. ASSUME NEW c
      PROVE  [process EXCEPT ![p].pc = c] =
             [process EXCEPT ![p] = [pc |-> c, updates |-> process[p].updates]]
  <2>1. [process[p] EXCEPT !.pc = c] = [pc |-> c, updates |-> process[p].updates]
    BY <1>2
  <2> QED
    BY <2>1
<1> QED
  BY <1>3, <1>4, <1>5

\* What is left to show when the tables stay, but for tags that may be pruned,
\* and the process p moves to the place c with the updates U.
LEMMA MoveKeeps ==
    ASSUME NamesInv, NEW p \in Processes, NEW c \in PCs, NEW U \in SUBSET Update,
           process' = [process EXCEPT ![p] = [pc |-> c, updates |-> U]],
           UNCHANGED <<artifacts, events, lastEvent>>, faults' \in 0 .. MaxFaults,
           \A i \in DOMAIN tags' : i \in DOMAIN tags /\ tags'[i] = tags[i],
           \A u \in U : AlreadyCanonical(u.repo),
           c = "artifacts" => \A i \in DOMAIN artifacts :
              ~AlreadyCanonical(artifacts[i].repo) => \E u \in U : u.id = i,
           c \in {"tags", "events", "up"} => \A i \in DOMAIN artifacts :
              AlreadyCanonical(artifacts[i].repo),
           c = "tags" => \A i \in DOMAIN tags :
              ~AlreadyCanonical(tags[i].repo) => \E u \in U : u.id = i,
           c \in {"events", "up"} => \A i \in DOMAIN tags :
              AlreadyCanonical(tags[i].repo),
           c = "tags" => \A u \in U : TagFits(u),
           c = "events" => \A i \in DOMAIN events :
              ~AlreadyCanonical(events[i].repo) => \E u \in U : u.id = i,
           c = "up" => \A i \in DOMAIN events : AlreadyCanonical(events[i].repo),
           c = "events" => \A u \in U : u.id <= lastEvent /\ Fits(events, u),
           c = "artifacts" => \A u \in U : u.id \in DOMAIN artifacts /\ Fits(artifacts, u)
    PROVE  NamesInv'
<1>1. /\ process' \in [Processes -> ProcessState]
      /\ process'[p].pc = c /\ process'[p].updates = U
      /\ \A q \in Processes \ {p} : process'[q] = process[q]
  BY ProcessMoves DEF NamesInv
<1>2. Typed'
  BY <1>1 DEF NamesInv, Typed, ProcessState, PCs
<1>3. UpdatesCanonical'
  BY <1>1 DEF NamesInv, UpdatesCanonical, AlreadyCanonical, HasPrefix
<1>4. ArtifactsPending'
  BY <1>1 DEF NamesInv, ArtifactsPending, Pending, AlreadyCanonical, HasPrefix
<1>5. EventsPending'
  BY <1>1 DEF NamesInv, EventsPending, Pending, AlreadyCanonical, HasPrefix
<1>6. EventsNamed'
  BY <1>1 DEF NamesInv, EventsNamed, Named, Canonical, Fits, AlreadyCanonical, HasPrefix
<1>8. TagsPending'
  <2>1. ASSUME NEW q \in Processes, NEW i \in DOMAIN tags'
        PROVE  /\ process'[q].pc = "tags" /\ ~AlreadyCanonical(tags'[i].repo)
                     => \E v \in process'[q].updates : v.id = i
               /\ process'[q].pc \in {"events", "up"} => AlreadyCanonical(tags'[i].repo)
    BY <1>1 DEF NamesInv, TagsPending, Pending
  <2> QED
    BY <2>1 DEF TagsPending, Pending, AlreadyCanonical, HasPrefix
<1>9. TagsNamed'
  <2>1. ASSUME NEW i \in DOMAIN tags'
        PROVE  IF tags'[i].claimed THEN AlreadyCanonical(tags'[i].repo) ELSE Named(tags'[i])
    BY DEF NamesInv, TagsNamed
  <2>2. ASSUME NEW q \in Processes, process'[q].pc = "tags", NEW u \in process'[q].updates
        PROVE  u.id \in DOMAIN tags' => tags'[u.id].claimed \/ Fits(tags', u)
    <3>1. TagFits(u)
      BY <1>1, <2>2 DEF NamesInv, TagsNamed
    <3> QED
      BY <3>1 DEF TagFits, Fits
  <2>3. \A i, j \in DOMAIN tags' :
           i # j /\ ~tags'[i].claimed /\ ~tags'[j].claimed =>
               \/ tags'[i].of # tags'[j].of
               \/ tags'[i].digest # tags'[j].digest
               \/ tags'[i].tag # tags'[j].tag
    BY DEF NamesInv, TagsNamed
  <2> QED
    BY <2>1, <2>2, <2>3
       DEF TagsNamed, TagFits, Fits, Named, Canonical, AlreadyCanonical, HasPrefix
<1>7. ArtifactsNamed'
  <2>1. \A q \in Processes : process'[q].pc = "artifacts" =>
           \A u \in process'[q].updates : u.id \in DOMAIN artifacts /\ Fits(artifacts, u)
    BY <1>1 DEF NamesInv, ArtifactsNamed
  <2>2. /\ (\A i \in DOMAIN artifacts : Named(artifacts[i]))'
        /\ Distinct(artifacts)'
    BY DEF NamesInv, ArtifactsNamed, Named, Canonical, Distinct,
           AlreadyCanonical, HasPrefix
  <2> QED
    BY <2>1, <2>2 DEF ArtifactsNamed, Fits
<1> QED
  BY <1>2, <1>3, <1>4, <1>5, <1>6, <1>7, <1>8, <1>9 DEF NamesInv

LEMMA SelectArtifactsKeeps ==
    ASSUME NamesInv, NEW p \in Processes, SelectArtifacts(p)
    PROVE  NamesInv'
<1> DEFINE U == Updates(artifacts)
<1>1. \A i \in DOMAIN artifacts : i \in Nat /\ artifacts[i].repo \in Repo
                                  /\ artifacts[i].of \in Hosts \X Repo
  BY DEF NamesInv, Typed, Row
<1>2. /\ U \subseteq Update
      /\ \A u \in U : u.id \in DOMAIN artifacts /\ AlreadyCanonical(u.repo)
      /\ \A i \in DOMAIN artifacts : ~AlreadyCanonical(artifacts[i].repo) =>
            \E u \in U : u.id = i
      /\ \A u \in U : Named(artifacts[u.id]) => Fits(artifacts, u)
  BY <1>1, UpdatesFit
<1>3. \A u \in U : u.id \in DOMAIN artifacts /\ Fits(artifacts, u)
  BY <1>2 DEF NamesInv, ArtifactsNamed
<1>4. process' = [process EXCEPT ![p] = [pc |-> "artifacts", updates |-> U]]
      /\ UNCHANGED tableVars /\ faults' \in 0 .. MaxFaults
  BY DEF SelectArtifacts, Select, NamesInv, Typed
<1> HIDE DEF U
<1> QED
  BY <1>2, <1>3, <1>4, MoveKeeps DEF PCs, tableVars

LEMMA SelectTagsKeeps ==
    ASSUME NamesInv, NEW p \in Processes, SelectTags(p)
    PROVE  NamesInv'
<1> DEFINE U == Updates(tags)
<1>1. \A i \in DOMAIN tags : i \in Nat /\ tags[i].repo \in Repo
                             /\ tags[i].of \in Hosts \X Repo
  BY DEF NamesInv, Typed, TagRows
<1>2. /\ U \subseteq Update
      /\ \A u \in U : u.id \in DOMAIN tags /\ AlreadyCanonical(u.repo)
      /\ \A i \in DOMAIN tags : ~AlreadyCanonical(tags[i].repo) => \E u \in U : u.id = i
      /\ \A u \in U : /\ ~AlreadyCanonical(tags[u.id].repo)
                      /\ Named(tags[u.id]) => Fits(tags, u)
  BY <1>1, UpdatesFit
<1>4. process' = [process EXCEPT ![p] = [pc |-> "tags", updates |-> U]]
      /\ UNCHANGED tableVars /\ faults' \in 0 .. MaxFaults
  BY DEF SelectTags, Select, NamesInv, Typed
<1> HIDE DEF U
<1>3. ASSUME NEW u \in U
      PROVE  TagFits(u)
  <2>1. /\ u.id \in DOMAIN tags /\ ~AlreadyCanonical(tags[u.id].repo)
        /\ Named(tags[u.id]) => Fits(tags, u)
    BY <1>2
  <2>2. IF tags[u.id].claimed THEN AlreadyCanonical(tags[u.id].repo) ELSE Named(tags[u.id])
    BY <2>1 DEF NamesInv, TagsNamed
  <2> QED
    BY <2>1, <2>2 DEF TagFits
<1>5. process[p].pc = "artifacts" /\ process[p].updates = {}
  BY DEF SelectTags, Select
<1>6. \A i \in DOMAIN artifacts : AlreadyCanonical(artifacts[i].repo)
  BY <1>5 DEF NamesInv, ArtifactsPending, Pending
<1> QED
  BY <1>2, <1>3, <1>4, <1>6, MoveKeeps DEF PCs, tableVars

LEMMA SelectEventsKeeps ==
    ASSUME NamesInv, NEW p \in Processes, SelectEvents(p)
    PROVE  NamesInv'
<1> DEFINE U == Updates(events)
<1>1. \A i \in DOMAIN events : i \in Nat /\ events[i] \in Row /\ i <= lastEvent
                               /\ events[i].repo \in Repo
                               /\ events[i].of \in Hosts \X Repo
  BY NamesAssumption, FS_CardinalityType DEF NamesInv, Typed, Row
<1>2. /\ U \subseteq Update
      /\ \A u \in U : u.id \in DOMAIN events /\ AlreadyCanonical(u.repo)
      /\ \A i \in DOMAIN events : ~AlreadyCanonical(events[i].repo) =>
            \E u \in U : u.id = i
      /\ \A u \in U : Named(events[u.id]) => Fits(events, u)
  BY <1>1, UpdatesFit
<1>3. \A u \in U : u.id <= lastEvent /\ Fits(events, u)
  BY <1>1, <1>2 DEF NamesInv, EventsNamed
<1>4. process' = [process EXCEPT ![p] = [pc |-> "events", updates |-> U]]
      /\ UNCHANGED tableVars /\ faults' \in 0 .. MaxFaults
  BY DEF SelectEvents, Select, NamesInv, Typed
<1>5. process[p].pc = "tags" /\ process[p].updates = {}
  BY DEF SelectEvents, Select
<1>6. /\ \A i \in DOMAIN artifacts : AlreadyCanonical(artifacts[i].repo)
      /\ \A i \in DOMAIN tags : AlreadyCanonical(tags[i].repo)
  BY <1>5 DEF NamesInv, ArtifactsPending, TagsPending, Pending
<1> HIDE DEF U
<1> QED
  BY <1>2, <1>3, <1>4, <1>6, MoveKeeps DEF PCs, tableVars

LEMMA PrunedTags ==
    ASSUME tags' = WithoutOrphans(tags)
    PROVE  \A i \in DOMAIN tags' : i \in DOMAIN tags /\ tags'[i] = tags[i]
BY DEF WithoutOrphans

LEMMA ServeKeeps ==
    ASSUME NamesInv, NEW p \in Processes, Serve(p)
    PROVE  NamesInv'
<1>1. process[p].pc = "events" /\ process[p].updates = {}
  BY DEF Serve, AllRewritten
<1> DEFINE U == process[p].updates
<1>2. process' = [process EXCEPT ![p] = [pc |-> "up", updates |-> U]]
  BY ProcessTyped DEF Serve, NamesInv
<1>6. U \in SUBSET Update /\ \A u \in U : AlreadyCanonical(u.repo)
  BY <1>1
<1>3. UNCHANGED <<artifacts, events, lastEvent>> /\ faults' \in 0 .. MaxFaults
  BY DEF Serve, NamesInv, Typed
<1>7. \A i \in DOMAIN tags' : i \in DOMAIN tags /\ tags'[i] = tags[i]
  BY PrunedTags DEF Serve
<1>4. /\ \A i \in DOMAIN artifacts : AlreadyCanonical(artifacts[i].repo)
      /\ \A i \in DOMAIN tags : AlreadyCanonical(tags[i].repo)
  BY <1>1 DEF NamesInv, ArtifactsPending, TagsPending
<1>5. \A i \in DOMAIN events : AlreadyCanonical(events[i].repo)
  BY <1>1 DEF NamesInv, EventsPending, Pending
<1> HIDE DEF U
<1> QED
  BY <1>2, <1>3, <1>4, <1>5, <1>6, <1>7, MoveKeeps DEF PCs

LEMMA PruneTagsKeeps ==
    ASSUME NamesInv, PruneTags
    PROVE  NamesInv'
<1> DEFINE p == "control"
           U == process[p].updates
<1>1. p \in Processes /\ process[p].pc = "up" /\ process \in [Processes -> ProcessState]
  BY DEF PruneTags, Processes, NamesInv, Typed, ProcessState, PCs
<1>2. process' = [process EXCEPT ![p] = [pc |-> "up", updates |-> U]]
  <2>1. process[p] = [pc |-> "up", updates |-> U]
    BY <1>1, ProcessTyped DEF NamesInv
  <2>2. [process EXCEPT ![p] = process[p]] = process
    BY <1>1
  <2> QED
    BY <2>1, <2>2 DEF PruneTags
<1>3. U \in SUBSET Update /\ \A u \in U : AlreadyCanonical(u.repo)
  BY <1>1, ProcessTyped DEF NamesInv, UpdatesCanonical
<1>4. UNCHANGED <<artifacts, events, lastEvent>> /\ faults' \in 0 .. MaxFaults
  BY DEF PruneTags, NamesInv, Typed
<1>5. \A i \in DOMAIN tags' : i \in DOMAIN tags /\ tags'[i] = tags[i]
  BY PrunedTags DEF PruneTags
<1>6. /\ \A i \in DOMAIN artifacts : AlreadyCanonical(artifacts[i].repo)
      /\ \A i \in DOMAIN tags : AlreadyCanonical(tags[i].repo)
      /\ \A i \in DOMAIN events : AlreadyCanonical(events[i].repo)
  BY <1>1 DEF NamesInv, ArtifactsPending, TagsPending, EventsPending
<1> HIDE DEF p, U
<1> QED
  BY <1>1, <1>2, <1>3, <1>4, <1>5, <1>6, MoveKeeps DEF PCs

LEMMA CrashKeeps ==
    ASSUME NamesInv, NEW p \in Processes, Crash(p)
    PROVE  NamesInv'
<1> DEFINE U == {}
<1>1. /\ process' = [process EXCEPT ![p] = [pc |-> "down", updates |-> U]]
      /\ U \in SUBSET Update /\ \A u \in U : AlreadyCanonical(u.repo)
  BY DEF Crash
<1>2. UNCHANGED tableVars /\ faults' \in 0 .. MaxFaults
  BY NamesAssumption DEF Crash, NamesInv, Typed
<1> HIDE DEF U
<1> QED
  BY <1>1, <1>2, MoveKeeps DEF PCs, tableVars

\* An update that is refused leaves the process as a crash does.
LEMMA UpdateRefusedKeeps ==
    ASSUME NamesInv, NEW p \in Processes, NEW u \in process[p].updates,
           UpdateRefused(p, u)
    PROVE  NamesInv'
<1> DEFINE U == {}
<1>1. /\ process' = [process EXCEPT ![p] = [pc |-> "down", updates |-> U]]
      /\ U \in SUBSET Update /\ \A v \in U : AlreadyCanonical(v.repo)
  BY DEF UpdateRefused
<1>2. UNCHANGED tableVars /\ faults' \in 0 .. MaxFaults
  BY NamesAssumption DEF UpdateRefused, NamesInv, Typed
<1> HIDE DEF U
<1> QED
  BY <1>1, <1>2, MoveKeeps DEF PCs, tableVars

\* The key of artifacts refuses no update: two rows would stand for the same
\* artifact.
LEMMA NeverRefused ==
    ASSUME NamesInv, NEW p \in Processes, process[p].pc = "artifacts",
           NEW u \in process[p].updates, Refused(u)
    PROVE  FALSE
<1>2. PICK i \in DOMAIN artifacts \ {u.id} :
        artifacts[i].repo = u.repo /\ artifacts[i].digest = artifacts[u.id].digest
  BY DEF Refused
<1>3. u.id \in DOMAIN artifacts
  BY DEF Refused
<1>4. ArtifactsNamed
  BY DEF NamesInv
<1>5. u.repo = <<artifacts[u.id].of[1]>> \o artifacts[u.id].of[2]
  BY <1>3, <1>4 DEF ArtifactsNamed, Fits
<1>6. AlreadyCanonical(artifacts[i].repo)
  BY <1>2 DEF NamesInv, UpdatesCanonical
<1>7. Canonical(artifacts[i])
  BY <1>2, <1>4, <1>6 DEF ArtifactsNamed, Named
<1>8. artifacts[i] \in Row /\ artifacts[u.id] \in Row
  BY <1>2, <1>3 DEF NamesInv, Typed
<1>9. PICK h \in Hosts, r \in Repo : artifacts[i].of = <<h, r>>
  BY <1>8 DEF Row
<1>10. PICK g \in Hosts, q \in Repo : artifacts[u.id].of = <<g, q>>
  BY <1>8 DEF Row
<1>11. <<h>> \o r = <<g>> \o q
  BY <1>2, <1>5, <1>7, <1>9, <1>10 DEF Canonical
<1>12. h = g /\ r = q
  BY <1>11, CanonicalDiffer
<1> QED
  BY <1>2, <1>3, <1>4, <1>9, <1>10, <1>12 DEF ArtifactsNamed, Distinct

\* The update of a row of artifacts makes it canonical; nothing else changes
\* in the table, and the process has one update less to make.
\* A table of tags that stays is as it was for every process that stays, and
\* for one that is at work on another table.
LEMMA TagsStay ==
    ASSUME NamesInv, UNCHANGED tags, NEW p \in Processes,
           process[p].pc # "tags", process'[p].pc = process[p].pc,
           \A q \in Processes \ {p} : process'[q] = process[q]
    PROVE  TagsPending' /\ TagsNamed'
<1>1. \A q \in Processes : /\ process'[q].pc = process[q].pc
                           /\ process[q].pc = "tags" => process'[q] = process[q]
  OBVIOUS
<1>2. TagsPending'
  BY <1>1 DEF NamesInv, TagsPending, Pending, AlreadyCanonical, HasPrefix
<1>3. TagsNamed'
  BY <1>1 DEF NamesInv, TagsNamed, TagFits, Fits, Named, Canonical,
              AlreadyCanonical, HasPrefix
<1> QED
  BY <1>2, <1>3

LEMMA UpdateArtifactKeeps ==
    ASSUME NamesInv, NEW p \in Processes, NEW u \in process[p].updates,
           UpdateArtifact(p, u)
    PROVE  NamesInv'
<1> DEFINE U == process[p].updates \ {u}
<1>1. /\ process[p].pc = "artifacts"
      /\ artifacts' = SetRepo(artifacts, u)
      /\ UNCHANGED <<tags, events, lastEvent, faults>>
  BY DEF UpdateArtifact
<1>2. U \in SUBSET Update /\ u \in Update /\ AlreadyCanonical(u.repo)
  BY ProcessTyped DEF NamesInv, UpdatesCanonical
<1>4. U \subseteq process[p].updates /\ \A v \in process[p].updates : v = u \/ v \in U
  OBVIOUS
<1>16. process' = [process EXCEPT ![p].updates = U]
  BY DEF UpdateArtifact, Done
<1> HIDE DEF U
<1>3. process' = [process EXCEPT ![p] = [pc |-> "artifacts", updates |-> U]]
  <2>1. [process EXCEPT ![p].updates = U] =
        [process EXCEPT ![p] = [pc |-> process[p].pc, updates |-> U]]
    BY ProcessTyped DEF NamesInv
  <2> QED
    BY <1>1, <1>16, <2>1
<1>5. /\ process' \in [Processes -> ProcessState]
      /\ process'[p].pc = "artifacts" /\ process'[p].updates = U
      /\ \A q \in Processes \ {p} : process'[q] = process[q]
  BY <1>2, <1>3, ProcessMoves DEF NamesInv, PCs
<1>6. \A q \in Processes : /\ process'[q].pc = process[q].pc
                           /\ process'[q].updates \subseteq process[q].updates
  BY <1>1, <1>4, <1>5
<1>7. \A i \in DOMAIN artifacts : i \in Nat /\ artifacts[i] \in Row
  BY DEF NamesInv, Typed
<1>8. /\ DOMAIN artifacts' = DOMAIN artifacts
      /\ \A i \in DOMAIN artifacts :
            /\ artifacts'[i] \in Row
            /\ artifacts'[i].of = artifacts[i].of
            /\ artifacts'[i].digest = artifacts[i].digest
            /\ ~AlreadyCanonical(artifacts'[i].repo) =>
                  i # u.id /\ ~AlreadyCanonical(artifacts[i].repo)
            /\ Named(artifacts[i]) /\ Fits(artifacts, u) => Named(artifacts'[i])
  BY <1>1, <1>2, <1>7, Rewritten
<1>9. Typed'
  <2>1. \A i \in DOMAIN artifacts' : i \in Nat /\ artifacts'[i] \in Row
    BY <1>7, <1>8
  <2> QED
    BY <1>1, <1>5, <2>1 DEF NamesInv, Typed, ProcessState, PCs
<1>10. UpdatesCanonical'
  BY <1>6 DEF NamesInv, UpdatesCanonical, AlreadyCanonical, HasPrefix
<1>11. ArtifactsPending'
  <2> SUFFICES ASSUME NEW q \in Processes, NEW i \in DOMAIN artifacts'
               PROVE  /\ process'[q].pc = "artifacts" /\ ~AlreadyCanonical(artifacts'[i].repo)
                            => \E v \in process'[q].updates : v.id = i
                      /\ process'[q].pc \in {"tags", "events", "up"} =>
                            AlreadyCanonical(artifacts'[i].repo)
    BY DEF ArtifactsPending, Pending, AlreadyCanonical, HasPrefix
  <2>1. i \in DOMAIN artifacts
    BY <1>8
  <2>2. ASSUME process'[q].pc \in {"tags", "events", "up"} PROVE AlreadyCanonical(artifacts'[i].repo)
    BY <1>6, <1>8, <2>1, <2>2 DEF NamesInv, ArtifactsPending
  <2>3. ASSUME process'[q].pc = "artifacts", ~AlreadyCanonical(artifacts'[i].repo)
        PROVE  \E v \in process'[q].updates : v.id = i
    <3>1. i # u.id /\ ~AlreadyCanonical(artifacts[i].repo)
      BY <1>8, <2>1, <2>3
    <3>2. PICK v \in process[q].updates : v.id = i
      BY <1>6, <2>1, <2>3, <3>1 DEF NamesInv, ArtifactsPending, Pending
    <3>3. v \in process'[q].updates
      BY <1>4, <1>5, <3>1, <3>2
    <3> QED
      BY <3>2, <3>3
  <2> QED
    BY <2>2, <2>3
<1>12. EventsPending'
  BY <1>1, <1>5 DEF NamesInv, EventsPending, Pending, AlreadyCanonical, HasPrefix
<1>13. EventsNamed'
  BY <1>1, <1>5 DEF NamesInv, EventsNamed, Named, Canonical, Fits, AlreadyCanonical, HasPrefix
<1>14. ArtifactsNamed'
  <2>1. ArtifactsNamed
    BY DEF NamesInv
  <2>2. Fits(artifacts, u)
    BY <1>1, <2>1 DEF ArtifactsNamed
  <2>3. \A i \in DOMAIN artifacts' : Named(artifacts'[i])
    BY <1>8, <2>1, <2>2 DEF ArtifactsNamed
  <2>4. \A q \in Processes : process'[q].pc = "artifacts" =>
           \A v \in process'[q].updates : v.id \in DOMAIN artifacts' /\ Fits(artifacts', v)
    BY <1>6, <1>8, <2>1 DEF ArtifactsNamed, Fits
  <2>5. Distinct(artifacts')
    BY <1>8, <2>1 DEF ArtifactsNamed, Distinct
  <2>6. (\A i \in DOMAIN artifacts : Named(artifacts[i]))'
    BY <2>3 DEF Named, Canonical, AlreadyCanonical, HasPrefix
  <2> QED
    BY <2>4, <2>5, <2>6 DEF ArtifactsNamed, Fits, Distinct
<1>15. TagsPending' /\ TagsNamed'
  BY <1>1, <1>5, TagsStay
<1> QED
  BY <1>9, <1>10, <1>11, <1>12, <1>13, <1>14, <1>15 DEF NamesInv

\* The update of a tag makes it canonical, whosever it is by now; one that no
\* one claimed is still that of the same artifact.
LEMMA UpdateTagKeeps ==
    ASSUME NamesInv, NEW p \in Processes, NEW u \in process[p].updates,
           UpdateTag(p, u)
    PROVE  NamesInv'
<1> DEFINE U == process[p].updates \ {u}
<1>1. /\ process[p].pc = "tags"
      /\ tags' = SetRepo(tags, u)
      /\ UNCHANGED <<artifacts, events, lastEvent, faults>>
  BY DEF UpdateTag
<1>2. U \in SUBSET Update /\ u \in Update /\ AlreadyCanonical(u.repo)
  BY ProcessTyped DEF NamesInv, UpdatesCanonical
<1>4. U \subseteq process[p].updates /\ \A v \in process[p].updates : v = u \/ v \in U
  OBVIOUS
<1>16. process' = [process EXCEPT ![p].updates = U]
  BY DEF UpdateTag, Done
<1> HIDE DEF U
<1>3. process' = [process EXCEPT ![p] = [pc |-> "tags", updates |-> U]]
  <2>1. [process EXCEPT ![p].updates = U] =
        [process EXCEPT ![p] = [pc |-> process[p].pc, updates |-> U]]
    BY ProcessTyped DEF NamesInv
  <2> QED
    BY <1>1, <1>16, <2>1
<1>5. /\ process' \in [Processes -> ProcessState]
      /\ process'[p].pc = "tags" /\ process'[p].updates = U
      /\ \A q \in Processes \ {p} : process'[q] = process[q]
  BY <1>2, <1>3, ProcessMoves DEF NamesInv, PCs
<1>6. \A q \in Processes : /\ process'[q].pc = process[q].pc
                           /\ process'[q].updates \subseteq process[q].updates
  BY <1>1, <1>4, <1>5
<1>7. \A i \in DOMAIN tags : i \in Nat /\ tags[i] \in TagRows
  BY DEF NamesInv, Typed
<1>8. /\ DOMAIN tags' = DOMAIN tags
      /\ \A i \in DOMAIN tags :
            /\ tags'[i] \in TagRows
            /\ tags'[i].tag = tags[i].tag /\ tags'[i].claimed = tags[i].claimed
            /\ tags'[i].of = tags[i].of /\ tags'[i].digest = tags[i].digest
            /\ i # u.id => tags'[i] = tags[i]
            /\ i = u.id => tags'[i].repo = u.repo
            /\ ~AlreadyCanonical(tags'[i].repo) =>
                  i # u.id /\ ~AlreadyCanonical(tags[i].repo)
            /\ Named(tags[i]) /\ Fits(tags, u) => Named(tags'[i])
  <2>1. TagRows \in {Row, TagRows}
    OBVIOUS
  <2> QED
    BY <1>1, <1>2, <1>7, <2>1, Rewritten
<1>9. Typed'
  <2>1. \A i \in DOMAIN tags' : i \in Nat /\ tags'[i] \in TagRows
    BY <1>7, <1>8
  <2> QED
    BY <1>1, <1>5, <2>1 DEF NamesInv, Typed, ProcessState, PCs
<1>10. UpdatesCanonical'
  BY <1>6 DEF NamesInv, UpdatesCanonical, AlreadyCanonical, HasPrefix
<1>11. ArtifactsPending'
  BY <1>1, <1>5 DEF NamesInv, ArtifactsPending, Pending, AlreadyCanonical, HasPrefix
<1>12. EventsPending'
  BY <1>1, <1>5 DEF NamesInv, EventsPending, Pending, AlreadyCanonical, HasPrefix
<1>13. EventsNamed'
  BY <1>1, <1>5 DEF NamesInv, EventsNamed, Named, Canonical, Fits, AlreadyCanonical, HasPrefix
<1>14. ArtifactsNamed'
  BY <1>1, <1>5 DEF NamesInv, ArtifactsNamed, Named, Canonical, Fits, Distinct,
              AlreadyCanonical, HasPrefix
<1>15. TagsPending'
  <2> SUFFICES ASSUME NEW q \in Processes, NEW i \in DOMAIN tags'
               PROVE  /\ process'[q].pc = "tags" /\ ~AlreadyCanonical(tags'[i].repo)
                            => \E v \in process'[q].updates : v.id = i
                      /\ process'[q].pc \in {"events", "up"} =>
                            AlreadyCanonical(tags'[i].repo)
    BY DEF TagsPending, Pending, AlreadyCanonical, HasPrefix
  <2>1. i \in DOMAIN tags
    BY <1>8
  <2>2. ASSUME process'[q].pc \in {"events", "up"} PROVE AlreadyCanonical(tags'[i].repo)
    BY <1>6, <1>8, <2>1, <2>2 DEF NamesInv, TagsPending
  <2>3. ASSUME process'[q].pc = "tags", ~AlreadyCanonical(tags'[i].repo)
        PROVE  \E v \in process'[q].updates : v.id = i
    <3>1. i # u.id /\ ~AlreadyCanonical(tags[i].repo)
      BY <1>8, <2>1, <2>3
    <3>2. PICK v \in process[q].updates : v.id = i
      BY <1>6, <2>1, <2>3, <3>1 DEF NamesInv, TagsPending, Pending
    <3>3. v \in process'[q].updates
      BY <1>4, <1>5, <3>1, <3>2
    <3> QED
      BY <3>2, <3>3
  <2> QED
    BY <2>2, <2>3
<1>17. TagsNamed'
  <2>1. TagsNamed /\ TagFits(u)
    BY <1>1 DEF NamesInv, TagsNamed
  <2>2. ASSUME NEW i \in DOMAIN tags'
        PROVE  IF tags'[i].claimed THEN AlreadyCanonical(tags'[i].repo) ELSE Named(tags'[i])
    <3>1. i \in DOMAIN tags
      BY <1>8
    <3>2. CASE tags[i].claimed
      BY <1>8, <2>1, <3>1, <3>2 DEF TagsNamed
    <3>3. CASE ~tags[i].claimed /\ i = u.id
      BY <1>8, <2>1, <3>1, <3>3 DEF TagsNamed, TagFits
    <3>4. CASE ~tags[i].claimed /\ i # u.id
      BY <1>8, <2>1, <3>1, <3>4 DEF TagsNamed
    <3> QED
      BY <3>2, <3>3, <3>4
  <2>3. ASSUME NEW q \in Processes, process'[q].pc = "tags", NEW v \in process'[q].updates
        PROVE  v.id \in DOMAIN tags' => tags'[v.id].claimed \/ Fits(tags', v)
    <3>1. TagFits(v)
      BY <1>6, <2>1, <2>3 DEF TagsNamed
    <3> QED
      BY <1>8, <3>1 DEF TagFits, Fits
  <2>4. \A i, j \in DOMAIN tags' :
           i # j /\ ~tags'[i].claimed /\ ~tags'[j].claimed =>
               \/ tags'[i].of # tags'[j].of
               \/ tags'[i].digest # tags'[j].digest
               \/ tags'[i].tag # tags'[j].tag
    BY <1>8, <2>1 DEF TagsNamed
  <2> QED
    BY <2>2, <2>3, <2>4
       DEF TagsNamed, TagFits, Fits, Named, Canonical, AlreadyCanonical, HasPrefix
<1> QED
  BY <1>9, <1>10, <1>11, <1>12, <1>13, <1>14, <1>15, <1>17 DEF NamesInv

LEMMA UpdateEventKeeps ==
    ASSUME NamesInv, NEW p \in Processes, NEW u \in process[p].updates,
           UpdateEvent(p, u)
    PROVE  NamesInv'
<1> DEFINE U == process[p].updates \ {u}
<1>1. /\ process[p].pc = "events"
      /\ events' = SetRepo(events, u)
      /\ UNCHANGED <<artifacts, tags, lastEvent, faults>>
  BY DEF UpdateEvent
<1>2. U \in SUBSET Update /\ u \in Update /\ AlreadyCanonical(u.repo)
  BY ProcessTyped DEF NamesInv, UpdatesCanonical
<1>4. U \subseteq process[p].updates /\ \A v \in process[p].updates : v = u \/ v \in U
  OBVIOUS
<1>16. process' = [process EXCEPT ![p].updates = U]
  BY DEF UpdateEvent, Done
<1> HIDE DEF U
<1>3. process' = [process EXCEPT ![p] = [pc |-> "events", updates |-> U]]
  <2>1. [process EXCEPT ![p].updates = U] =
        [process EXCEPT ![p] = [pc |-> process[p].pc, updates |-> U]]
    BY ProcessTyped DEF NamesInv
  <2> QED
    BY <1>1, <1>16, <2>1
<1>5. /\ process' \in [Processes -> ProcessState]
      /\ process'[p].pc = "events" /\ process'[p].updates = U
      /\ \A q \in Processes \ {p} : process'[q] = process[q]
  BY <1>2, <1>3, ProcessMoves DEF NamesInv, PCs
<1>6. \A q \in Processes : /\ process'[q].pc = process[q].pc
                           /\ process'[q].updates \subseteq process[q].updates
  BY <1>1, <1>4, <1>5
<1>7. \A i \in DOMAIN events : i \in Nat /\ i \in 1 .. lastEvent /\ events[i] \in Row
  BY NamesAssumption, FS_CardinalityType DEF NamesInv, Typed
<1>8. /\ DOMAIN events' = DOMAIN events
      /\ \A i \in DOMAIN events :
            /\ events'[i] \in Row
            /\ events'[i].of = events[i].of
            /\ ~AlreadyCanonical(events'[i].repo) =>
                  i # u.id /\ ~AlreadyCanonical(events[i].repo)
            /\ Named(events[i]) /\ Fits(events, u) => Named(events'[i])
  BY <1>1, <1>2, <1>7, Rewritten
<1>9. Typed'
  <2>1. \A i \in DOMAIN events' : i \in 1 .. lastEvent /\ events'[i] \in Row
    BY <1>7, <1>8
  <2> QED
    BY <1>1, <1>5, <2>1 DEF NamesInv, Typed, ProcessState, PCs
<1>10. UpdatesCanonical'
  BY <1>6 DEF NamesInv, UpdatesCanonical, AlreadyCanonical, HasPrefix
<1>11. ArtifactsPending'
  BY <1>1, <1>5 DEF NamesInv, ArtifactsPending, Pending, AlreadyCanonical, HasPrefix
<1>12. EventsPending'
  <2> SUFFICES ASSUME NEW q \in Processes, NEW i \in DOMAIN events'
               PROVE  /\ process'[q].pc = "events" /\ ~AlreadyCanonical(events'[i].repo)
                            => \E v \in process'[q].updates : v.id = i
                      /\ process'[q].pc = "up" => AlreadyCanonical(events'[i].repo)
    BY DEF EventsPending, Pending, AlreadyCanonical, HasPrefix
  <2>1. i \in DOMAIN events
    BY <1>8
  <2>2. ASSUME process'[q].pc = "up" PROVE AlreadyCanonical(events'[i].repo)
    BY <1>6, <1>8, <2>1, <2>2 DEF NamesInv, EventsPending
  <2>3. ASSUME process'[q].pc = "events", ~AlreadyCanonical(events'[i].repo)
        PROVE  \E v \in process'[q].updates : v.id = i
    <3>1. i # u.id /\ ~AlreadyCanonical(events[i].repo)
      BY <1>8, <2>1, <2>3
    <3>2. PICK v \in process[q].updates : v.id = i
      BY <1>6, <2>1, <2>3, <3>1 DEF NamesInv, EventsPending, Pending
    <3>3. v \in process'[q].updates
      BY <1>4, <1>5, <3>1, <3>2
    <3> QED
      BY <3>2, <3>3
  <2> QED
    BY <2>2, <2>3
<1>13. EventsNamed'
  <2>1. /\ \A i \in DOMAIN events : Named(events[i])
        /\ Fits(events, u)
    BY <1>1 DEF NamesInv, EventsNamed
  <2>2. \A i \in DOMAIN events' : Named(events'[i])
    BY <1>8, <2>1
  <2>3. \A q \in Processes : process'[q].pc = "events" =>
           \A v \in process'[q].updates : v.id <= lastEvent' /\ Fits(events', v)
    BY <1>1, <1>6, <1>8 DEF NamesInv, EventsNamed, Fits
  <2>4. (\A i \in DOMAIN events : Named(events[i]))'
    BY <2>2 DEF Named, Canonical, AlreadyCanonical, HasPrefix
  <2> QED
    BY <2>3, <2>4 DEF EventsNamed, Fits
<1>14. ArtifactsNamed'
  BY <1>1, <1>5 DEF NamesInv, ArtifactsNamed, Named, Canonical, Fits, Distinct,
              AlreadyCanonical, HasPrefix
<1>15. TagsPending' /\ TagsNamed'
  BY <1>1, <1>5, TagsStay
<1> QED
  BY <1>9, <1>10, <1>11, <1>12, <1>13, <1>14, <1>15 DEF NamesInv

\* A tag that is recorded while control serves: its row is canonical, as all
\* rows are by then, and who has still to update that rowid has claimed it.
LEMMA UpsertTagKeeps ==
    ASSUME NamesInv, process["control"].pc = "up", process' = process,
           NEW row \in Row, Canonical(row), AlreadyCanonical(row.repo),
           NEW t \in Tags, UpsertTag(row, t)
    PROVE  /\ \A i \in DOMAIN tags' : i \in Nat /\ tags'[i] \in TagRows
           /\ TagsPending' /\ TagsNamed'
<1>1. CASE UNCHANGED tags
  <2>1. TagsPending'
    BY <1>1 DEF NamesInv, TagsPending, Pending, AlreadyCanonical, HasPrefix
  <2>2. TagsNamed'
    BY <1>1 DEF NamesInv, TagsNamed, TagFits, Fits, Named, Canonical,
                AlreadyCanonical, HasPrefix
  <2> QED
    BY <1>1, <2>1, <2>2 DEF NamesInv, Typed
<1>2. CASE ~UNCHANGED tags
  <2>1. /\ ~\E i \in DOMAIN tags : /\ tags[i].repo = row.repo
                                   /\ tags[i].digest = row.digest /\ tags[i].tag = t
        /\ \E new \in NextIds(tags) :
              tags' = Insert(tags, new, TagRow(row, t, Claimed(new)))
    BY <1>2 DEF UpsertTag
  <2>2. PICK new \in NextIds(tags) : tags' = Insert(tags, new, TagRow(row, t, Claimed(new)))
    BY <2>1
  <2>3. \A i \in DOMAIN tags : i \in Nat /\ tags[i] \in TagRows
    BY DEF NamesInv, Typed
  <2>4. new \in Nat /\ new \notin DOMAIN tags
    BY <2>3 DEF NextIds
  <2> DEFINE w == TagRow(row, t, Claimed(new))
  <2>5. Claimed(new) \in BOOLEAN
    BY DEF Claimed
  <2>6. /\ w \in TagRows /\ w.repo = row.repo /\ w.digest = row.digest /\ w.tag = t
        /\ w.of = row.of /\ w.claimed = Claimed(new)
    BY <2>5 DEF TagRow, TagRows, Row
  <2>7. /\ DOMAIN tags' = DOMAIN tags \cup {new}
        /\ tags'[new] = w
        /\ \A j \in DOMAIN tags : tags'[j] = tags[j]
    BY <2>2, <2>4 DEF Insert
  <2> HIDE DEF w
  <2>8. \A i \in DOMAIN tags : AlreadyCanonical(tags[i].repo)
    BY DEF NamesInv, TagsPending, Processes
  <2>9. \A i \in DOMAIN tags' : i \in Nat /\ tags'[i] \in TagRows
    BY <2>3, <2>4, <2>6, <2>7
  <2>10. TagsPending'
    <3>1. \A i \in DOMAIN tags' : AlreadyCanonical(tags'[i].repo)
      BY <2>6, <2>7, <2>8
    <3> QED
      BY <3>1 DEF TagsPending, Pending, AlreadyCanonical, HasPrefix
  <2>11. TagsNamed'
    <3>1. ASSUME NEW i \in DOMAIN tags'
          PROVE  IF tags'[i].claimed THEN AlreadyCanonical(tags'[i].repo) ELSE Named(tags'[i])
      <4>1. CASE i = new
        <5>1. Named(w) /\ AlreadyCanonical(w.repo)
          BY <2>6 DEF Named, Canonical
        <5> QED
          BY <2>7, <4>1, <5>1
      <4>2. CASE i \in DOMAIN tags
        BY <2>7, <4>2 DEF NamesInv, TagsNamed
      <4> QED
        BY <2>7, <4>1, <4>2
    <3>2. ASSUME NEW q \in Processes, process[q].pc = "tags", NEW v \in process[q].updates
          PROVE  v.id \in DOMAIN tags' => tags'[v.id].claimed \/ Fits(tags', v)
      <4>1. CASE v.id = new
        BY <2>6, <2>7, <3>2, <4>1 DEF Claimed
      <4>2. CASE v.id \in DOMAIN tags
        <5>1. TagFits(v)
          BY <3>2 DEF NamesInv, TagsNamed
        <5> QED
          BY <2>7, <4>2, <5>1 DEF TagFits, Fits
      <4> QED
        BY <2>7, <4>1, <4>2
    <3>3. ASSUME NEW i \in DOMAIN tags, ~tags[i].claimed
          PROVE  tags[i].of # w.of \/ tags[i].digest # w.digest \/ tags[i].tag # w.tag
      <4>1. Named(tags[i]) /\ AlreadyCanonical(tags[i].repo)
        BY <2>8, <3>3 DEF NamesInv, TagsNamed
      <4>2. Canonical(tags[i])
        BY <4>1 DEF Named
      <4> QED
        BY <2>1, <2>6, <4>2 DEF Canonical
    <3>4. ASSUME NEW i \in DOMAIN tags', NEW j \in DOMAIN tags',
                 i # j, ~tags'[i].claimed, ~tags'[j].claimed
          PROVE  \/ tags'[i].of # tags'[j].of
                 \/ tags'[i].digest # tags'[j].digest
                 \/ tags'[i].tag # tags'[j].tag
      <4>1. CASE i \in DOMAIN tags /\ j \in DOMAIN tags
        BY <2>7, <3>4, <4>1 DEF NamesInv, TagsNamed
      <4>2. CASE i \in DOMAIN tags /\ j = new
        BY <2>7, <3>3, <3>4, <4>2
      <4>3. CASE i = new /\ j \in DOMAIN tags
        BY <2>7, <3>3, <3>4, <4>3
      <4> QED
        BY <2>7, <3>4, <4>1, <4>2, <4>3
    <3> QED
      BY <3>1, <3>2, <3>4
         DEF TagsNamed, TagFits, Fits, Named, Canonical, AlreadyCanonical, HasPrefix
  <2> QED
    BY <2>9, <2>10, <2>11
<1> QED
  BY <1>1, <1>2

\* What control records while it serves is canonical, and so is all there is.
LEMMA RecordEventKeeps ==
    ASSUME NamesInv, NEW action, NEW h \in Hosts, NEW r \in Repos, NEW d \in Digests,
           RecordEvent(action, h, r, d)
    PROVE  NamesInv'
<1> DEFINE row == EventRow(h, r, d)
<1>1. r \in Repo
  BY NamesAssumption DEF Repo
<1>2. /\ row \in Row /\ row.repo = CanonicalRepo(h, r) /\ row.digest = d
      /\ row.of = <<h, r>>
      /\ row.repo = <<h>> \o r /\ AlreadyCanonical(row.repo)
  BY <1>1, Addressed DEF Row, EventRow
<1>3. Named(row)
  BY <1>2 DEF Named, Canonical
<1>4. /\ process["control"].pc = "up"
      /\ lastEvent < MaxEvents + Cardinality(Legacy) /\ lastEvent' = lastEvent + 1
      /\ events' = Insert(events, lastEvent + 1, row)
      /\ process' = process /\ faults' = faults
  BY DEF RecordEvent, Write
<1>5. \/ artifacts' = artifacts
      \/ \E new \in NextIds(artifacts) :
            /\ ~Knows(CanonicalRepo(h, r), d)
            /\ artifacts' = Insert(artifacts, new, row)
  BY <1>2 DEF RecordEvent, Write, UpsertArtifact
<1>19. UNCHANGED tags \/ \E t \in Tags : UpsertTag(row, t)
  BY DEF RecordEvent, Write
<1> HIDE DEF row
<1>20. /\ \A i \in DOMAIN tags' : i \in Nat /\ tags'[i] \in TagRows
       /\ TagsPending' /\ TagsNamed'
  <2>1. CASE UNCHANGED tags
    <3>1. "control" \in Processes /\ process["control"].pc # "tags"
      BY <1>4 DEF Processes
    <3>2. TagsPending' /\ TagsNamed'
      BY <1>4, <2>1, <3>1, TagsStay
    <3> QED
      BY <2>1, <3>2 DEF NamesInv, Typed
  <2>2. ASSUME NEW t \in Tags, UpsertTag(row, t)
        PROVE  /\ \A i \in DOMAIN tags' : i \in Nat /\ tags'[i] \in TagRows
               /\ TagsPending' /\ TagsNamed'
    <3>1. Canonical(row)
      BY <1>2 DEF Canonical
    <3> QED
      BY <1>2, <1>4, <2>2, <3>1, UpsertTagKeeps
  <2> QED
    BY <1>19, <2>1, <2>2
<1>6. lastEvent \in Nat /\ MaxEvents + Cardinality(Legacy) \in Nat
  BY NamesAssumption, FS_CardinalityType DEF NamesInv, Typed
<1>7. lastEvent + 1 \notin DOMAIN events
  BY <1>6 DEF NamesInv, Typed
<1>8. /\ DOMAIN events' = DOMAIN events \cup {lastEvent + 1}
      /\ events'[lastEvent + 1] = row
      /\ \A j \in DOMAIN events : events'[j] = events[j]
  BY <1>4, <1>7 DEF Insert
<1>9. \A i \in DOMAIN artifacts : AlreadyCanonical(artifacts[i].repo)
  BY <1>4 DEF NamesInv, ArtifactsPending, Processes
<1>11. \E S : /\ DOMAIN artifacts' = DOMAIN artifacts \cup S
              /\ \A j \in DOMAIN artifacts : artifacts'[j] = artifacts[j]
              /\ \A j \in S : j \notin DOMAIN artifacts /\ j \in Nat /\ artifacts'[j] = row
              /\ \A i, j \in S : i = j
              /\ S # {} => ~Knows(CanonicalRepo(h, r), d)
  <2>1. CASE artifacts' = artifacts
    <3> DEFINE S == {}
    <3>1. /\ DOMAIN artifacts' = DOMAIN artifacts \cup S
          /\ \A j \in S : FALSE
          /\ S = {}
      BY <2>1
    <3> HIDE DEF S
    <3> QED
      BY <2>1, <3>1
  <2>2. CASE \E new \in NextIds(artifacts) :
                /\ ~Knows(CanonicalRepo(h, r), d)
                /\ artifacts' = Insert(artifacts, new, row)
    <3>1. PICK new \in NextIds(artifacts) :
                /\ ~Knows(CanonicalRepo(h, r), d)
                /\ artifacts' = Insert(artifacts, new, row)
      BY <2>2
    <3>2. new \in Nat /\ new \notin DOMAIN artifacts
      BY DEF NextIds, NamesInv, Typed
    <3>3. /\ DOMAIN artifacts' = DOMAIN artifacts \cup {new}
          /\ artifacts'[new] = row
          /\ \A j \in DOMAIN artifacts : artifacts'[j] = artifacts[j]
      BY <3>1, <3>2 DEF Insert
    <3> DEFINE S == {new}
    <3>4. \A j : j \in S <=> j = new
      OBVIOUS
    <3>5. DOMAIN artifacts' = DOMAIN artifacts \cup S
      BY <3>3
    <3> HIDE DEF S
    <3> QED
      BY <3>1, <3>2, <3>3, <3>4, <3>5
  <2> QED
    BY <1>5, <2>1, <2>2
<1>12. PICK S : /\ DOMAIN artifacts' = DOMAIN artifacts \cup S
                /\ \A j \in DOMAIN artifacts : artifacts'[j] = artifacts[j]
                /\ \A j \in S : j \notin DOMAIN artifacts /\ j \in Nat /\ artifacts'[j] = row
                /\ \A i, j \in S : i = j
                /\ S # {} => ~Knows(CanonicalRepo(h, r), d)
  BY <1>11
<1>13. Typed'
  <2>1. \A i \in DOMAIN artifacts' : i \in Nat /\ artifacts'[i] \in Row
    BY <1>2, <1>12 DEF NamesInv, Typed
  <2>2. \A i \in DOMAIN events' : i \in 1 .. lastEvent' /\ events'[i] \in Row
    BY <1>2, <1>4, <1>6, <1>8 DEF NamesInv, Typed
  <2>3. lastEvent' \in 0 .. MaxEvents + Cardinality(Legacy)
    BY <1>4, <1>6
  <2> QED
    BY <1>4, <1>20, <2>1, <2>2, <2>3 DEF NamesInv, Typed
<1>14. UpdatesCanonical'
  BY <1>4 DEF NamesInv, UpdatesCanonical, AlreadyCanonical, HasPrefix
<1>15. ArtifactsPending'
  <2>1. \A i \in DOMAIN artifacts' : AlreadyCanonical(artifacts'[i].repo)
    BY <1>2, <1>9, <1>12
  <2> QED
    BY <2>1 DEF ArtifactsPending, Pending, AlreadyCanonical, HasPrefix
<1>16. EventsPending'
  <2>1. \A i \in DOMAIN events : AlreadyCanonical(events[i].repo)
    BY <1>4 DEF NamesInv, EventsPending, Processes
  <2>2. \A i \in DOMAIN events' : AlreadyCanonical(events'[i].repo)
    BY <1>2, <1>8, <2>1
  <2> QED
    BY <2>2 DEF EventsPending, Pending, AlreadyCanonical, HasPrefix
<1>17. EventsNamed'
  <2>1. \A i \in DOMAIN events' : Named(events'[i])
    BY <1>3, <1>8 DEF NamesInv, EventsNamed
  <2>2. ASSUME NEW p \in Processes, process[p].pc = "events", NEW u \in process[p].updates
        PROVE  u.id <= lastEvent' /\ Fits(events', u)
    <3>1. u.id <= lastEvent /\ Fits(events, u)
      BY <2>2 DEF NamesInv, EventsNamed
    <3>2. u.id \in Nat
      BY ProcessTyped DEF NamesInv, Update
    <3>3. u.id # lastEvent + 1 /\ u.id <= lastEvent'
      BY <1>4, <1>6, <3>1, <3>2
    <3> QED
      BY <1>8, <3>1, <3>3 DEF Fits
  <2>3. (\A i \in DOMAIN events : Named(events[i]))'
    BY <2>1 DEF Named, Canonical, AlreadyCanonical, HasPrefix
  <2> QED
    BY <1>4, <2>2, <2>3 DEF EventsNamed, Fits
<1>18. ArtifactsNamed'
  <2>1. ArtifactsNamed
    BY DEF NamesInv
  <2>2. \A i \in DOMAIN artifacts' : Named(artifacts'[i])
    BY <1>3, <1>12, <2>1 DEF ArtifactsNamed
  <2>3. ASSUME NEW p \in Processes, process[p].pc = "artifacts",
               NEW u \in process[p].updates
        PROVE  u.id \in DOMAIN artifacts' /\ Fits(artifacts', u)
    <3>1. Fits(artifacts, u) /\ u.id \in DOMAIN artifacts /\ u.id \notin S
      BY <1>12, <2>1, <2>3 DEF ArtifactsNamed
    <3> QED
      BY <1>12, <3>1 DEF Fits
  <2>4. ASSUME NEW i \in DOMAIN artifacts, S # {}
        PROVE  artifacts[i].of # row.of \/ artifacts[i].digest # row.digest
    <3>1. Canonical(artifacts[i])
      BY <1>9, <2>1 DEF ArtifactsNamed, Named
    <3>2. ~Knows(CanonicalRepo(h, r), d)
      BY <1>12, <2>4
    <3> QED
      BY <1>2, <3>1, <3>2 DEF Canonical, Knows
  <2>5. Distinct(artifacts')
    <3> SUFFICES ASSUME NEW i \in DOMAIN artifacts', NEW j \in DOMAIN artifacts', i # j
                 PROVE  \/ artifacts'[i].of # artifacts'[j].of
                        \/ artifacts'[i].digest # artifacts'[j].digest
      BY DEF Distinct
    <3>1. CASE i \in DOMAIN artifacts /\ j \in DOMAIN artifacts
      BY <1>12, <2>1, <3>1 DEF ArtifactsNamed, Distinct
    <3>2. CASE i \in DOMAIN artifacts /\ j \in S
      BY <1>12, <2>4, <3>2
    <3>3. CASE i \in S /\ j \in DOMAIN artifacts
      BY <1>12, <2>4, <3>3
    <3> QED
      BY <1>12, <3>1, <3>2, <3>3
  <2>6. (\A i \in DOMAIN artifacts : Named(artifacts[i]))'
    BY <2>2 DEF Named, Canonical, AlreadyCanonical, HasPrefix
  <2> QED
    BY <1>4, <2>3, <2>5, <2>6 DEF ArtifactsNamed, Fits, Distinct
<1> QED
  BY <1>13, <1>14, <1>15, <1>16, <1>17, <1>18, <1>20 DEF NamesInv

\* An event that is pruned takes nothing of the invariant with it.
LEMMA PruneEventKeeps ==
    ASSUME NamesInv, NEW p \in Processes, NEW i \in DOMAIN events, PruneEvent(p, i)
    PROVE  NamesInv'
<1>1. /\ \A j \in DOMAIN events' : j \in DOMAIN events /\ events'[j] = events[j]
      /\ UNCHANGED <<artifacts, tags, lastEvent, process, faults>>
  BY DEF PruneEvent
<1>2. Typed'
  BY <1>1 DEF NamesInv, Typed
<1>3. UpdatesCanonical'
  BY <1>1 DEF NamesInv, UpdatesCanonical, AlreadyCanonical, HasPrefix
<1>4. ArtifactsPending'
  BY <1>1 DEF NamesInv, ArtifactsPending, Pending, AlreadyCanonical, HasPrefix
<1>5. EventsPending'
  <2>1. ASSUME NEW q \in Processes, NEW j \in DOMAIN events'
        PROVE  /\ process'[q].pc = "events" /\ ~AlreadyCanonical(events'[j].repo)
                     => \E u \in process'[q].updates : u.id = j
               /\ process'[q].pc = "up" => AlreadyCanonical(events'[j].repo)
    BY <1>1 DEF NamesInv, EventsPending, Pending
  <2> QED
    BY <2>1 DEF EventsPending, Pending, AlreadyCanonical, HasPrefix
<1>6. EventsNamed'
  <2>1. (\A j \in DOMAIN events : Named(events[j]))'
    <3>1. \A j \in DOMAIN events' : Named(events'[j])
      BY <1>1 DEF NamesInv, EventsNamed
    <3> QED
      BY <3>1 DEF Named, Canonical, AlreadyCanonical, HasPrefix
  <2>2. \A q \in Processes : process'[q].pc = "events" =>
           \A u \in process'[q].updates : u.id <= lastEvent' /\ Fits(events', u)
    BY <1>1 DEF NamesInv, EventsNamed, Fits
  <2> QED
    BY <2>1, <2>2 DEF EventsNamed, Fits
<1>7. ArtifactsNamed'
  BY <1>1 DEF NamesInv, ArtifactsNamed, Named, Canonical, Fits, Distinct,
              AlreadyCanonical, HasPrefix
<1>8. TagsPending'
  BY <1>1 DEF NamesInv, TagsPending, Pending, AlreadyCanonical, HasPrefix
<1>9. TagsNamed'
  BY <1>1 DEF NamesInv, TagsNamed, TagFits, Fits, Named, Canonical,
              AlreadyCanonical, HasPrefix
<1> QED
  BY <1>2, <1>3, <1>4, <1>5, <1>6, <1>7, <1>8, <1>9 DEF NamesInv

\* The rows of the earlier version are named as Docker Hub names them, and no
\* process has begun.
LEMMA InitHolds ==
    ASSUME NamesInit
    PROVE  NamesInv
<1> DEFINE N == Cardinality(Legacy)
<1>1. N \in Nat /\ MaxEvents \in Nat /\ MaxFaults \in Nat
  BY NamesAssumption, FS_CardinalityType
<1>2. PICK art \in [1 .. N -> Legacy] :
          /\ \A i, j \in DOMAIN art : i # j => art[i] # art[j]
          /\ artifacts = [i \in DOMAIN art |-> LegacyRow(art[i][1], art[i][2])]
  BY DEF NamesInit
<1>11. PICK n \in 0 .. MaxTags : \E key \in [1 .. n -> LegacyNames \X Digests \X Tags] :
          /\ \A i, j \in DOMAIN key : i # j => key[i] # key[j]
          /\ tags = [i \in DOMAIN key |->
                       TagRow(LegacyRow(key[i][1], key[i][2]), key[i][3], FALSE)]
  BY DEF NamesInit
<1>12. PICK key \in [1 .. n -> LegacyNames \X Digests \X Tags] :
          /\ \A i, j \in DOMAIN key : i # j => key[i] # key[j]
          /\ tags = [i \in DOMAIN key |->
                       TagRow(LegacyRow(key[i][1], key[i][2]), key[i][3], FALSE)]
  BY <1>11
<1>3. /\ events = artifacts /\ lastEvent = N /\ faults = 0
      /\ process = [p \in Processes |-> [pc |-> "down", updates |-> {}]]
  BY DEF NamesInit
<1> HIDE DEF N
<1>13. ASSUME NEW name \in LegacyNames, NEW d \in Digests
       PROVE  /\ LegacyRow(name, d) \in Row /\ Named(LegacyRow(name, d))
              /\ ~AlreadyCanonical(name) /\ name \in Repo
  <2>1. name \in Repo /\ Lower[Head(name)] \notin Hosts
    BY NamesAssumption DEF LegacyNames, Repo
  <2>2. LegacyRow(name, d) \in Row
    BY <2>1, DefaultIsHost DEF LegacyRow, Row
  <2>3. ~AlreadyCanonical(name)
    BY <2>1 DEF AlreadyCanonical, HasPrefix
  <2>4. Named(LegacyRow(name, d))
    BY <2>3 DEF LegacyRow, Named
  <2> QED
    BY <2>1, <2>2, <2>3, <2>4
<1>4. ASSUME NEW i \in DOMAIN artifacts
      PROVE  /\ i \in 1 .. N /\ art[i] \in Legacy
             /\ artifacts[i] = LegacyRow(art[i][1], art[i][2])
             /\ artifacts[i] \in Row /\ Named(artifacts[i])
  <2>1. /\ i \in 1 .. N /\ art[i] \in Legacy
        /\ artifacts[i] = LegacyRow(art[i][1], art[i][2])
    BY <1>2
  <2>2. art[i][1] \in LegacyNames /\ art[i][2] \in Digests
    BY <2>1, NamesAssumption DEF LegacyNames
  <2> QED
    BY <1>13, <2>1, <2>2
<1>14. ASSUME NEW i \in DOMAIN tags
       PROVE  /\ i \in Nat /\ key[i] \in LegacyNames \X Digests \X Tags
              /\ tags[i] \in TagRows /\ Named(tags[i]) /\ tags[i].claimed = FALSE
              /\ tags[i].of = <<DefaultTarget, key[i][1]>>
              /\ tags[i].digest = key[i][2] /\ tags[i].tag = key[i][3]
  <2> DEFINE row == LegacyRow(key[i][1], key[i][2])
  <2>1. /\ i \in Nat /\ key[i] \in LegacyNames \X Digests \X Tags
        /\ tags[i] = TagRow(row, key[i][3], FALSE)
    BY <1>12
  <2>2. row \in Row /\ Named(row) /\ key[i][3] \in Tags
    BY <1>13, <2>1
  <2>3. row.of = <<DefaultTarget, key[i][1]>> /\ row.digest = key[i][2]
    BY DEF LegacyRow
  <2> HIDE DEF row
  <2>4. /\ tags[i].repo = row.repo /\ tags[i].of = row.of /\ tags[i].digest = row.digest
        /\ tags[i].tag = key[i][3] /\ tags[i].claimed = FALSE
    BY <2>1 DEF TagRow
  <2>5. tags[i] \in TagRows
    BY <2>1, <2>2 DEF TagRow, TagRows, Row
  <2>6. Named(tags[i])
    BY <2>2, <2>4 DEF Named, Canonical
  <2> QED
    BY <2>1, <2>3, <2>4, <2>5, <2>6
<1>5. \A p \in Processes : process[p].pc = "down" /\ process[p].updates = {}
  BY <1>3
<1>6. Typed
  <2>1. process \in [Processes -> [pc: {"down", "artifacts", "tags", "events", "up"},
                                   updates: SUBSET Update]]
    BY <1>3
  <2>2. lastEvent \in 0 .. MaxEvents + N /\ faults \in 0 .. MaxFaults
    BY <1>1, <1>3
  <2>3. lastEvent \in 0 .. MaxEvents + Cardinality(Legacy)
    BY <2>2 DEF N
  <2>4. \A i \in DOMAIN artifacts : i \in Nat /\ i \in 1 .. lastEvent /\ artifacts[i] \in Row
    BY <1>1, <1>3, <1>4
  <2>5. \A i \in DOMAIN tags : i \in Nat /\ tags[i] \in TagRows
    BY <1>14
  <2> QED
    BY <1>3, <2>1, <2>2, <2>3, <2>4, <2>5 DEF Typed
<1>7. UpdatesCanonical /\ ArtifactsPending /\ TagsPending /\ EventsPending
  BY <1>5 DEF UpdatesCanonical, ArtifactsPending, TagsPending, EventsPending
<1>8. EventsNamed
  BY <1>3, <1>4, <1>5 DEF EventsNamed
<1>9. Distinct(artifacts)
  <2> SUFFICES ASSUME NEW i \in DOMAIN artifacts, NEW j \in DOMAIN artifacts, i # j
               PROVE  artifacts[i].of # artifacts[j].of \/ artifacts[i].digest # artifacts[j].digest
    BY DEF Distinct
  <2>1. art[i] # art[j]
    BY <1>2, <1>4
  <2>2. art[i] = <<art[i][1], art[i][2]>> /\ art[j] = <<art[j][1], art[j][2]>>
    BY <1>4, NamesAssumption
  <2> QED
    BY <1>4, <2>1, <2>2 DEF LegacyRow
<1>10. ArtifactsNamed
  BY <1>4, <1>5, <1>9 DEF ArtifactsNamed
<1>15. TagsNamed
  <2>1. ASSUME NEW i \in DOMAIN tags, NEW j \in DOMAIN tags, i # j
        PROVE  \/ tags[i].of # tags[j].of
               \/ tags[i].digest # tags[j].digest
               \/ tags[i].tag # tags[j].tag
    <3>1. key[i] # key[j]
      BY <1>12, <2>1
    <3>6. /\ key[i] \in LegacyNames \X Digests \X Tags
          /\ key[j] \in LegacyNames \X Digests \X Tags
      BY <1>14
    <3>2. PICK a \in LegacyNames, d \in Digests, t \in Tags : key[i] = <<a, d, t>>
      BY <3>6
    <3>3. PICK b \in LegacyNames, e \in Digests, v \in Tags : key[j] = <<b, e, v>>
      BY <3>6
    <3>7. /\ key[i][1] = a /\ key[i][2] = d /\ key[i][3] = t
          /\ key[j][1] = b /\ key[j][2] = e /\ key[j][3] = v
      BY <3>2, <3>3
    <3>4. /\ tags[i].of = <<DefaultTarget, a>> /\ tags[i].digest = d /\ tags[i].tag = t
          /\ tags[j].of = <<DefaultTarget, b>> /\ tags[j].digest = e /\ tags[j].tag = v
      BY <1>14, <3>7
    <3>5. a # b \/ d # e \/ t # v
      BY <3>1, <3>2, <3>3
    <3> QED
      BY <3>4, <3>5
  <2> QED
    BY <1>5, <1>14, <2>1 DEF TagsNamed
<1> QED
  BY <1>6, <1>7, <1>8, <1>10, <1>15 DEF NamesInv

LEMMA NextKeeps ==
    ASSUME NamesInv, [NamesNext]_nameVars
    PROVE  NamesInv'
<1>1. CASE UNCHANGED nameVars
  <2>1. UNCHANGED <<artifacts, tags, events, lastEvent, process, faults>>
    BY <1>1 DEF nameVars, tableVars
  <2>2. Typed' /\ UpdatesCanonical'
    BY <2>1 DEF NamesInv, Typed, UpdatesCanonical, AlreadyCanonical, HasPrefix
  <2>3. ArtifactsPending'
    BY <2>1 DEF NamesInv, ArtifactsPending, Pending, AlreadyCanonical, HasPrefix
  <2>4. EventsPending'
    BY <2>1 DEF NamesInv, EventsPending, Pending, AlreadyCanonical, HasPrefix
  <2>5. EventsNamed'
    BY <2>1 DEF NamesInv, EventsNamed, Named, Canonical, Fits, AlreadyCanonical, HasPrefix
  <2>6. ArtifactsNamed'
    BY <2>1 DEF NamesInv, ArtifactsNamed, Named, Canonical, Fits, Distinct,
                AlreadyCanonical, HasPrefix
  <2>7. TagsPending'
    BY <2>1 DEF NamesInv, TagsPending, Pending, AlreadyCanonical, HasPrefix
  <2>8. TagsNamed'
    BY <2>1 DEF NamesInv, TagsNamed, TagFits, Fits, Named, Canonical,
                AlreadyCanonical, HasPrefix
  <2> QED
    BY <2>2, <2>3, <2>4, <2>5, <2>6, <2>7, <2>8 DEF NamesInv
<1>2. ASSUME NEW p \in Processes, StartNext(p)
      PROVE  NamesInv'
  <2>1. CASE SelectArtifacts(p)
    BY <2>1, SelectArtifactsKeeps
  <2>2. CASE SelectTags(p)
    BY <2>2, SelectTagsKeeps
  <2>3. CASE SelectEvents(p)
    BY <2>3, SelectEventsKeeps
  <2>4. CASE Serve(p)
    BY <2>4, ServeKeeps
  <2>5. ASSUME NEW u \in process[p].updates, UpdateArtifact(p, u) PROVE NamesInv'
    BY <2>5, UpdateArtifactKeeps
  <2>6. ASSUME NEW u \in process[p].updates, UpdateTag(p, u) PROVE NamesInv'
    BY <2>6, UpdateTagKeeps
  <2>7. ASSUME NEW u \in process[p].updates, UpdateEvent(p, u) PROVE NamesInv'
    BY <2>7, UpdateEventKeeps
  <2>8. ASSUME NEW u \in process[p].updates, UpdateRefused(p, u) PROVE NamesInv'
    BY <2>8, UpdateRefusedKeeps
  <2> QED
    BY <1>2, <2>1, <2>2, <2>3, <2>4, <2>5, <2>6, <2>7, <2>8 DEF StartNext
<1>3. ASSUME NEW p \in Processes, Crash(p) PROVE NamesInv'
  BY <1>3, CrashKeeps
<1>4. CASE PruneTags
  BY <1>4, PruneTagsKeeps
<1>5. ASSUME NEW p \in Processes, NEW i \in DOMAIN events, PruneEvent(p, i)
      PROVE  NamesInv'
  BY <1>5, PruneEventKeeps
<1>6. ASSUME NEW action, NEW h \in Hosts, NEW r \in Repos, NEW d \in Digests,
             RecordEvent(action, h, r, d)
      PROVE  NamesInv'
  BY <1>6, RecordEventKeeps
<1> QED
  BY <1>1, <1>2, <1>3, <1>4, <1>5, <1>6 DEF NamesNext

LEMMA InvHolds == NamesSpec => []NamesInv
<1>1. NamesInit => NamesInv
  BY InitHolds
<1>2. NamesInv /\ [NamesNext]_nameVars => NamesInv'
  BY NextKeeps
<1> QED
  BY <1>1, <1>2, PTL DEF NamesSpec

----------------------------------------------------------------------------
(* The theorems. *)

\* The rows, the updates read and the counters are of their types, and no name
\* has two hosts in front, whichever processes start, stop and rewrite.
THEOREM NamesTypeCorrect == NamesSpec => []NamesTypeOK
<1>1. NamesInv => NamesTypeOK
  <2> SUFFICES ASSUME NamesInv PROVE NamesTypeOK
    OBVIOUS
  <2>1. ASSUME NEW i \in DOMAIN events
        PROVE  Len(events[i].repo) <= Len(events[i].of[2]) + 1
    <3>1. events[i] \in Row /\ Named(events[i])
      BY DEF NamesInv, Typed, EventsNamed
    <3>2. PICK h \in Hosts, r \in Repo : events[i].of = <<h, r>>
      BY <3>1 DEF Row
    <3>3. h \in Segments /\ r \in Name /\ Len(r) \in Nat
      BY HostsAreLower, NonEmptyName
    <3>4. Len(<<h>> \o r) = Len(r) + 1
      BY <3>3, PrefixedName
    <3>5. events[i].repo = <<h>> \o r \/ events[i].repo = r
      BY <3>1, <3>2 DEF Named, Canonical
    <3> QED
      BY <3>2, <3>3, <3>4, <3>5
  <2> QED
    BY <2>1 DEF NamesInv, Typed, NamesTypeOK
<1> QED
  BY <1>1, InvHolds, PTL

\* What is pulled through the router is looked up and deleted where it is cached
\* and under the name it has there, for every configuration of the upstreams
\* that parseUpstreamTargets accepts.
THEOREM NamesPulledIsAddressed == NamesSpec => []PulledIsAddressed
<1>1. Repos \subseteq Repo
  BY NamesAssumption DEF Repo
<1>2. ASSUME NEW name \in Repo
      PROVE  LET served == ResolveTarget(name)
             IN  ResolveRepoTarget(CanonicalRepo(served[1], served[2])) = served
  <2>1. PICK h \in Hosts, r \in Repo : ResolveTarget(name) = <<h, r>>
    BY Served
  <2>2. ResolveRepoTarget(CanonicalRepo(h, r)) = <<h, r>>
    BY Addressed
  <2> QED
    BY <2>1, <2>2
<1>3. ASSUME NEW h \in Segments, NEW r \in Repos PROVE <<h>> \o r \in Repo
  BY <1>1, PrefixedName DEF Repo
<1>4. NamesInv => \A i \in DOMAIN artifacts : artifacts[i].repo \in Repo
  BY DEF NamesInv, Typed, Row
<1>5. NamesInv => PulledIsAddressed
  BY <1>1, <1>2, <1>3, <1>4 DEF PulledIsAddressed
<1> QED
  BY <1>5, InvHolds, PTL

\* While control serves every row of artifacts and of events names the artifact
\* it was made for, and so does every tag that no one claimed.
THEOREM NamesRightCache == NamesSpec => []RightCache
<1>1. NamesInv => RightCache
  <2> SUFFICES ASSUME NamesInv, process["control"].pc = "up"
               PROVE  /\ \A i \in DOMAIN artifacts :
                            ResolveRepoTarget(artifacts[i].repo) = artifacts[i].of
                      /\ \A i \in DOMAIN tags :
                            tags[i].claimed \/ ResolveRepoTarget(tags[i].repo) = tags[i].of
                      /\ \A i \in DOMAIN events :
                            ResolveRepoTarget(events[i].repo) = events[i].of
    BY DEF RightCache
  <2>1. \A i \in DOMAIN artifacts :
           artifacts[i].of \in Hosts \X Repo /\ Canonical(artifacts[i])
    BY DEF NamesInv, Typed, ArtifactsPending, ArtifactsNamed, Named, Processes, Row
  <2>2. \A i \in DOMAIN events : events[i].of \in Hosts \X Repo /\ Canonical(events[i])
    BY DEF NamesInv, Typed, EventsPending, EventsNamed, Named, Processes, Row
  <2>3. \A i \in DOMAIN tags :
           tags[i].claimed \/ (tags[i].of \in Hosts \X Repo /\ Canonical(tags[i]))
    BY DEF NamesInv, Typed, TagsPending, TagsNamed, Named, Processes, TagRows
  <2> QED
    BY <2>1, <2>2, <2>3, CanonicalResolves
<1> QED
  BY <1>1, InvHolds, PTL

\* The key of artifact_tags refuses the update of a row only when that row or
\* the one in its way has been claimed.
LEMMA ClashClaimed ==
    ASSUME NamesInv, NEW p \in Processes, process[p].pc = "tags",
           NEW u \in process[p].updates, NEW i \in DOMAIN tags, Clash(u, i),
           ~tags[u.id].claimed, ~tags[i].claimed
    PROVE  FALSE
<1>1. /\ u.id \in DOMAIN tags /\ i # u.id /\ tags[i].repo = u.repo
      /\ tags[i].digest = tags[u.id].digest /\ tags[i].tag = tags[u.id].tag
  BY DEF Clash
<1>2. u.repo = <<tags[u.id].of[1]>> \o tags[u.id].of[2]
  BY <1>1 DEF NamesInv, TagsNamed, TagFits, Fits
<1>3. AlreadyCanonical(tags[i].repo)
  BY <1>1 DEF NamesInv, UpdatesCanonical
<1>4. Canonical(tags[i])
  BY <1>3 DEF NamesInv, TagsNamed, Named
<1>5. tags[i].of \in Hosts \X Repo /\ tags[u.id].of \in Hosts \X Repo
  BY <1>1 DEF NamesInv, Typed, TagRows
<1>6. PICK h \in Hosts, r \in Repo : tags[i].of = <<h, r>>
  BY <1>5
<1>7. PICK g \in Hosts, q \in Repo : tags[u.id].of = <<g, q>>
  BY <1>5
<1>8. <<h>> \o r = <<g>> \o q
  BY <1>1, <1>2, <1>4, <1>6, <1>7 DEF Canonical
<1>9. h = g /\ r = q
  BY <1>8, CanonicalDiffer
<1> QED
  BY <1>1, <1>6, <1>7, <1>9 DEF NamesInv, TagsNamed

\* The key of artifacts refuses no rewriting, and that of artifact_tags only one
\* in which a rowid is used again that a process had read and not updated.
THEOREM NamesNoRefusal == NamesSpec => []NoRefusal
<1>1. NamesInv => NoRefusal
  BY NeverRefused, ClashClaimed DEF NoRefusal
<1> QED
  BY <1>1, InvHolds, PTL
=============================================================================
