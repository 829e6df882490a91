----------------------------- MODULE BuildProofs -----------------------------
(* The temporary files of a build, the directories of its plugin host, the   *)
(* rows its plugins see and the artefacts it delivers, for every project,    *)
(* selection and number of plugin queries.                                   *)
EXTENDS Build, FiniteSetTheorems, SequenceTheorems, TLAPS

-----------------------------------------------------------------------------
(* The dataset files of the plugin host.                                     *)

\* What the bookkeeping needs of the types; the results may be of anybody.
HostShape ==
  /\ viewDir \in Dirs \cup {NoDir}
  /\ viewUsers \in [Dirs -> 0 .. Cardinality(Queries)]
  /\ tmp = [d \in Dirs |-> tmp[d]]
  /\ query = [q \in Queries |-> [at |-> query[q].at, dir |-> query[q].dir, of |-> query[q].of]]
  /\ \A q \in Queries : query[q].dir \in Dirs \cup {NoDir}

\* The queries that read directory d, and what the host counts of them.
Readers(d) == {q \in Queries : query[q].dir = d}

Counted == \A d \in Dirs : viewUsers[d] = Cardinality(Readers(d))

\* Only a query that reads has a directory, and one with a directory has results.
Reading ==
  \A q \in Queries :
    /\ query[q].at # "reading" => query[q] = [at |-> query[q].at, dir |-> NoDir, of |-> NoOwner]
    /\ query[q].dir # NoDir => query[q].of # NoOwner

\* The current directory holds the current results.
CurrentDir == viewDir # NoDir => tmp[viewDir] = datasets /\ datasets # NoOwner

HostInv == HostShape /\ Counted /\ Reading /\ CurrentDir /\ HostDirs

-----------------------------------------------------------------------------
LEMMA DirsPositive == Cardinality(Queries) \in Nat /\ Dirs \subseteq Nat /\ NoDir \notin Dirs
  BY HostAssumption, FS_CardinalityType DEF Dirs, NoDir

\* A directory nobody is counted for is read by nobody, one with a single user
\* by that query alone, and the count never exceeds the number of queries.
LEMMA ReadersCount ==
  ASSUME NEW d
  PROVE  /\ IsFiniteSet(Readers(d))
         /\ Cardinality(Readers(d)) \in 0 .. Cardinality(Queries)
         /\ Cardinality(Readers(d)) = 0 <=> Readers(d) = {}
         /\ \A q \in Readers(d) : Cardinality(Readers(d)) = 1 <=> Readers(d) = {q}
  <1>1. Readers(d) \in SUBSET Queries
    BY DEF Readers
  <1>2. IsFiniteSet(Readers(d)) /\ Cardinality(Readers(d)) <= Cardinality(Queries)
    BY <1>1, HostAssumption, FS_Subset
  <1>3. Cardinality(Readers(d)) \in Nat
    BY <1>2, FS_CardinalityType
  <1>4. Cardinality(Readers(d)) = 0 <=> Readers(d) = {}
    BY <1>2, FS_EmptySet
  <1>5. \A q \in Readers(d) : Cardinality(Readers(d)) = 1 <=> Readers(d) = {q}
    <2>1. Cardinality(Readers(d)) = 1 <=> \E x : Readers(d) = {x}
      BY <1>2, FS_Singleton
    <2> QED
      BY <2>1
  <1> QED
    BY <1>2, <1>3, <1>4, <1>5, DirsPositive

LEMMA HostInitInv == HostInit => HostInv
  <1> SUFFICES ASSUME HostInit PROVE HostInv
    OBVIOUS
  <1>1. HostShape
    BY DirsPositive DEF HostInit, HostShape, Idle
  <1>2. \A d \in Dirs : Readers(d) = {}
    BY DirsPositive DEF HostInit, Readers, Idle
  <1>3. Counted
    BY <1>2, FS_EmptySet DEF HostInit, Counted
  <1>4. Reading /\ CurrentDir /\ HostDirs
    BY DEF HostInit, Reading, CurrentDir, HostDirs, DirsLive, DirsOwned, Idle
  <1> QED
    BY <1>1, <1>3, <1>4 DEF HostInv

-----------------------------------------------------------------------------
(* Each operation keeps the invariant.                                       *)

\* What is removed with the current directory is read by nobody.
LEMMA DropViewsInv ==
  ASSUME HostInv, DropViews, UNCHANGED <<viewUsers, query>>
  PROVE  HostInv'
  <1>1. HostShape'
    BY DEF HostInv, HostShape, DropViews
  <1>2. Counted' /\ Reading'
    BY DEF HostInv, Counted, Readers, Reading
  <1>3. CurrentDir'
    BY DEF CurrentDir, DropViews
  <1>4. \A q \in Queries : query[q].dir # NoDir =>
           query[q].dir \in Dirs /\ q \in Readers(query[q].dir)
    BY DEF HostInv, HostShape, Readers
  <1>5. \A q \in Queries : query[q].dir # NoDir => viewUsers[query[q].dir] # 0
    BY <1>4, ReadersCount DEF HostInv, Counted
  <1>6. DirsLive'
    BY <1>4, <1>5 DEF HostInv, HostShape, HostDirs, DirsLive, DropViews
  <1>7. DirsOwned'
    <2> SUFFICES ASSUME NEW d \in Dirs, tmp'[d] # NoOwner
                 PROVE  \E q \in Queries : query[q].dir = d
      BY DEF DirsOwned
    <2>1. tmp[d] # NoOwner /\ (d = viewDir => viewUsers[d] # 0)
      BY DEF HostInv, HostShape, DropViews
    <2>2. CASE d = viewDir
      <3>1. Readers(d) # {}
        BY <2>1, <2>2, ReadersCount DEF HostInv, Counted
      <3> QED
        BY <3>1 DEF Readers
    <2>3. CASE d # viewDir
      BY <2>1, <2>3 DEF HostInv, HostDirs, DirsOwned
    <2> QED
      BY <2>2, <2>3
  <1> QED
    BY <1>1, <1>2, <1>3, <1>6, <1>7 DEF HostInv, HostDirs

\* A query that has no directory yet, or gives it up, without touching files.
LEMMA IdleInv ==
  ASSUME HostInv, NEW q \in Queries, query[q].dir = NoDir,
         query' = [query EXCEPT ![q] = Idle] \/ query' = [query EXCEPT ![q].at = "opened"],
         query[q] = Idle \/ query' = [query EXCEPT ![q] = Idle],
         UNCHANGED <<datasets, viewDir, viewUsers, tmp>>
  PROVE  HostInv'
  <1>1. HostShape'
    BY DEF HostInv, HostShape, Idle
  <1>2. \A r \in Queries : query'[r].dir = query[r].dir
    BY DEF HostInv, HostShape, Idle
  <1>3. \A d : Readers(d)' = Readers(d)
    BY <1>2 DEF Readers
  <1>4. Counted'
    BY <1>3 DEF HostInv, Counted
  <1>5. \A r \in Queries : r # q => query'[r] = query[r]
    BY DEF HostInv, HostShape
  <1>6. \/ query'[q] = Idle
        \/ query'[q] = [at |-> "opened", dir |-> NoDir, of |-> NoOwner]
    BY DEF HostInv, HostShape, Idle
  <1>7. Reading'
    BY <1>5, <1>6 DEF HostInv, Reading, Idle
  <1>8. CurrentDir'
    BY DEF HostInv, CurrentDir
  <1>9. DirsLive'
    BY <1>5, <1>6 DEF HostInv, HostDirs, DirsLive, Idle
  <1>10. DirsOwned'
    BY <1>2 DEF HostInv, HostDirs, DirsOwned
  <1> QED
    BY <1>1, <1>4, <1>7, <1>8, <1>9, <1>10 DEF HostInv, HostDirs

\* A query starts to read the current directory, or no files at all.
LEMMA ReadsInv ==
  ASSUME HostInv, NEW q \in Queries, query[q].at = "opened", NEW dir \in Dirs \cup {NoDir},
         Reads(q, dir), viewDir' = dir, UNCHANGED datasets,
         tmp' = [d \in Dirs |-> tmp'[d]],
         dir # NoDir => tmp'[dir] = datasets /\ datasets # NoOwner,
         \A d \in Dirs : d # dir => tmp'[d] = tmp[d],
         dir = viewDir \/ viewDir = NoDir,
         dir # NoDir => tmp[dir] = NoOwner \/ tmp[dir] = datasets
  PROVE  HostInv'
  <1> USE DirsPositive
  <1>1. query[q] = [at |-> "opened", dir |-> NoDir, of |-> NoOwner]
    BY DEF HostInv, Reading
  <1>2. query' = [query EXCEPT ![q] = [at |-> "reading", dir |-> dir, of |-> datasets]]
    BY DEF Reads
  <1>3. /\ query' = [r \in Queries |-> [at |-> query'[r].at, dir |-> query'[r].dir,
                                       of |-> query'[r].of]]
        /\ \A r \in Queries : query'[r].dir \in Dirs \cup {NoDir}
    BY <1>2 DEF HostInv, HostShape
  <1>4. \A d \in Dirs : Readers(d)' = IF d = dir THEN Readers(d) \cup {q} ELSE Readers(d)
    BY <1>1, <1>2 DEF HostInv, HostShape, Readers
  <1>5. \A d \in Dirs : q \notin Readers(d)
    BY <1>1 DEF Readers
  <1>6. Counted'
    <2> SUFFICES ASSUME NEW d \in Dirs PROVE viewUsers'[d] = Cardinality(Readers(d)')
      BY DEF Counted
    <2>1. CASE d = dir
      <3>1. viewUsers'[d] = viewUsers[d] + 1
        BY <2>1 DEF Reads, HostInv, HostShape
      <3>2. Cardinality(Readers(d) \cup {q}) = Cardinality(Readers(d)) + 1
        BY <1>5, ReadersCount, FS_AddElement
      <3> QED
        BY <2>1, <3>1, <3>2, <1>4 DEF HostInv, Counted
    <2>2. CASE d # dir
      <3>1. viewUsers'[d] = viewUsers[d]
        BY <2>2 DEF Reads, HostInv, HostShape
      <3> QED
        BY <2>2, <3>1, <1>4 DEF HostInv, Counted
    <2> QED
      BY <2>1, <2>2
  <1>7. viewUsers' \in [Dirs -> 0 .. Cardinality(Queries)]
    <2>1. \A d \in Dirs : viewUsers'[d] \in 0 .. Cardinality(Queries)
      <3> SUFFICES ASSUME NEW d \in Dirs PROVE viewUsers'[d] \in 0 .. Cardinality(Queries)
        OBVIOUS
      <3>1. Readers(d)' \in SUBSET Queries
        BY DEF Readers
      <3>2. IsFiniteSet(Readers(d)') /\ Cardinality(Readers(d)') <= Cardinality(Queries)
        BY <3>1, HostAssumption, FS_Subset
      <3>3. Cardinality(Readers(d)') \in Nat
        BY <3>2, FS_CardinalityType
      <3> QED
        BY <3>2, <3>3, <1>6 DEF Counted
    <2>2. DOMAIN viewUsers' = Dirs /\ viewUsers' = [d \in Dirs |-> viewUsers'[d]]
      BY DEF HostInv, HostShape, Reads
    <2> QED
      BY <2>1, <2>2
  <1>8. HostShape'
    BY <1>3, <1>7 DEF HostInv, HostShape
  <1>9. Reading'
    BY <1>2 DEF HostInv, HostShape, Reading
  <1>10. CurrentDir'
    BY DEF CurrentDir
  <1>11. DirsLive'
    <2> SUFFICES ASSUME NEW r \in Queries, query'[r].dir # NoDir
                 PROVE  tmp'[query'[r].dir] = query'[r].of
      BY DEF DirsLive
    <2>1. CASE r = q
      BY <2>1, <1>2 DEF HostInv, HostShape
    <2>2. CASE r # q
      <3>1. query'[r] = query[r] /\ query[r].dir \in Dirs /\ query[r].of # NoOwner
             /\ tmp[query[r].dir] = query[r].of
        BY <2>2, <1>2 DEF HostInv, HostShape, HostDirs, DirsLive, Reading
      <3> QED
        BY <3>1
    <2> QED
      BY <2>1, <2>2
  <1>12. DirsOwned'
    <2> SUFFICES ASSUME NEW d \in Dirs, tmp'[d] # NoOwner, d # dir
                 PROVE  \E r \in Queries : query'[r].dir = d
      BY DEF DirsOwned
    <2>1. PICK r \in Queries : query[r].dir = d
      BY DEF HostInv, HostDirs, DirsOwned
    <2> QED
      BY <2>1, <1>1, <1>2 DEF HostInv, HostShape
  <1> QED
    BY <1>6, <1>8, <1>9, <1>10, <1>11, <1>12 DEF HostInv, HostDirs

LEMMA TakeViewsInv ==
  ASSUME HostInv, NEW q \in Queries, TakeViews(q)
  PROVE  HostInv'
  <1> USE DirsPositive
  <1>1. CASE viewDir = NoDir /\ datasets # NoOwner
    <2>1. PICK d \in Dirs : /\ tmp[d] = NoOwner
                            /\ viewDir' = d
                            /\ tmp' = [tmp EXCEPT ![d] = datasets]
                            /\ Reads(q, d)
      BY <1>1 DEF TakeViews
    <2>2. /\ tmp' = [e \in Dirs |-> tmp'[e]]
          /\ tmp'[d] = datasets
          /\ \A e \in Dirs : e # d => tmp'[e] = tmp[e]
      BY <2>1 DEF HostInv, HostShape
    <2> QED
      BY <1>1, <2>1, <2>2, ReadsInv DEF TakeViews
  <1>2. CASE viewDir # NoDir \/ datasets = NoOwner
    BY <1>2, ReadsInv DEF TakeViews, HostInv, HostShape, CurrentDir
  <1> QED
    BY <1>1, <1>2

\* The last reader of a dropped directory removes it, an earlier one does not.
LEMMA ReleaseInv ==
  ASSUME HostInv, NEW q \in Queries, Release(q)
  PROVE  HostInv'
  <1> USE DirsPositive
  <1> DEFINE dir == query[q].dir
  <1>1. query' = [query EXCEPT ![q] = Idle] /\ UNCHANGED <<datasets, viewDir>>
    BY DEF Release
  <1>2. CASE dir = NoDir
    <2>1. UNCHANGED <<viewUsers, tmp>>
      BY <1>2 DEF Release
    <2> QED
      BY <1>1, <1>2, <2>1, IdleInv
  <1>3. CASE dir # NoDir
    <2>1. dir \in Dirs /\ q \in Readers(dir)
      BY <1>3 DEF HostInv, HostShape, Readers
    <2>2. /\ viewUsers' = [viewUsers EXCEPT ![dir] = @ - 1]
          /\ tmp' = IF Orphaned(dir) THEN [tmp EXCEPT ![dir] = NoOwner] ELSE tmp
      BY <1>3 DEF Release
    <2>3. \A d \in Dirs : Readers(d)' = IF d = dir THEN Readers(d) \ {q} ELSE Readers(d)
      BY <1>1, <2>1 DEF HostInv, HostShape, Readers, Idle
    <2>4. Counted'
      <3> SUFFICES ASSUME NEW d \in Dirs PROVE viewUsers'[d] = Cardinality(Readers(d)')
        BY DEF Counted
      <3>1. CASE d = dir
        <4>1. viewUsers'[d] = viewUsers[d] - 1
          BY <3>1, <2>1, <2>2 DEF HostInv, HostShape
        <4>2. Cardinality(Readers(d) \ {q}) = Cardinality(Readers(d)) - 1
          BY <3>1, <2>1, ReadersCount, FS_RemoveElement
        <4> QED
          BY <3>1, <4>1, <4>2, <2>3 DEF HostInv, Counted
      <3>2. CASE d # dir
        <4>1. viewUsers'[d] = viewUsers[d]
          BY <3>2, <2>2 DEF HostInv, HostShape
        <4> QED
          BY <3>2, <4>1, <2>3 DEF HostInv, Counted
      <3> QED
        BY <3>1, <3>2
    <2>5. viewUsers[dir] = Cardinality(Readers(dir)) /\ viewUsers[dir] # 0
      BY <2>1, ReadersCount DEF HostInv, Counted
    <2>6. HostShape'
      <3>1. viewUsers' \in [Dirs -> 0 .. Cardinality(Queries)]
        <4>1. viewUsers[dir] - 1 \in 0 .. Cardinality(Queries)
          <5>1. Cardinality(Readers(dir)) \in 0 .. Cardinality(Queries)
            BY ReadersCount
          <5>2. viewUsers[dir] = Cardinality(Readers(dir)) /\ viewUsers[dir] # 0
            BY <2>5
          <5> HIDE DEF dir
          <5> QED
            BY <5>1, <5>2
        <4> QED
          BY <4>1, <2>1, <2>2 DEF HostInv, HostShape
      <3>2. tmp' = [d \in Dirs |-> tmp'[d]]
        BY <2>2 DEF HostInv, HostShape
      <3> QED
        BY <1>1, <3>1, <3>2 DEF HostInv, HostShape, Idle
    <2>7. Reading'
      BY <1>1 DEF HostInv, HostShape, Reading, Idle
    <2>8. CurrentDir'
      BY <1>1, <2>2 DEF HostInv, HostShape, CurrentDir, Orphaned
    <2>9. DirsLive'
      <3> SUFFICES ASSUME NEW r \in Queries, query'[r].dir # NoDir
                   PROVE  tmp'[query'[r].dir] = query'[r].of
        BY DEF DirsLive
      <3>1. r # q /\ query'[r] = query[r]
        BY <1>1 DEF HostInv, HostShape, Idle
      <3>2. query[r].dir \in Dirs /\ tmp[query[r].dir] = query[r].of /\ r \in Readers(query[r].dir)
        BY <3>1 DEF HostInv, HostShape, HostDirs, DirsLive, Readers
      <3>3. Orphaned(dir) => query[r].dir # dir
        BY <2>1, <2>5, <3>1, <3>2, ReadersCount DEF Orphaned
      <3> QED
        BY <3>1, <3>2, <3>3, <2>2 DEF HostInv, HostShape
    <2>10. DirsOwned'
      <3> SUFFICES ASSUME NEW d \in Dirs, tmp'[d] # NoOwner, d # viewDir
                   PROVE  \E r \in Queries : query'[r].dir = d
        BY <1>1 DEF DirsOwned
      <3>1. tmp[d] # NoOwner /\ (d = dir => ~Orphaned(dir))
        BY <2>1, <2>2 DEF HostInv, HostShape
      <3>2. PICK r \in Queries : query[r].dir = d
        BY <3>1 DEF HostInv, HostDirs, DirsOwned
      <3>3. CASE d = dir
        <4>1. Readers(dir) # {q}
          BY <3>1, <3>3, <2>1, <2>5, ReadersCount DEF Orphaned
        <4>2. PICK other \in Queries : other # q /\ query[other].dir = dir
          BY <4>1, <2>1 DEF Readers
        <4> QED
          BY <4>2, <3>3, <1>1 DEF HostInv, HostShape
      <3>4. CASE d # dir
        BY <3>2, <3>4, <1>1 DEF HostInv, HostShape
      <3> QED
        BY <3>3, <3>4
    <2> QED
      BY <2>4, <2>6, <2>7, <2>8, <2>9, <2>10 DEF HostInv, HostDirs
  <1> QED
    BY <1>2, <1>3

-----------------------------------------------------------------------------
\* A step of the host on behalf of anybody.
HostStep ==
  \/ \E owner : SetDatasets(owner)
  \/ Close
  \/ \E q \in Queries : HostCall(q)

LEMMA HostStepInv == HostInv /\ [HostStep]_hostVars => HostInv'
  <1> SUFFICES ASSUME HostInv, [HostStep]_hostVars PROVE HostInv'
    OBVIOUS
  <1>1. ASSUME NEW owner, SetDatasets(owner) PROVE HostInv'
    BY <1>1, DropViewsInv DEF SetDatasets
  <1>2. CASE Close
    BY <1>2, DropViewsInv DEF Close
  <1>3. ASSUME NEW q \in Queries, OpenSession(q) PROVE HostInv'
    <2>1. query[q] = Idle /\ query[q].dir = NoDir
      BY <1>3 DEF OpenSession, HostInv, Reading, Idle
    <2>2. query' = [query EXCEPT ![q].at = "opened"] /\ UNCHANGED <<datasets, viewDir, viewUsers, tmp>>
      BY <1>3 DEF OpenSession
    <2> QED
      BY <2>1, <2>2, IdleInv
  <1>4. ASSUME NEW q \in Queries, TakeViews(q) PROVE HostInv'
    BY <1>4, TakeViewsInv
  <1>5. ASSUME NEW q \in Queries, WriteFails(q) PROVE HostInv'
    <2>1. query[q].at = "opened"
      BY <1>5 DEF WriteFails
    <2>2. query[q].dir = NoDir
      <3>1. query[q] = [at |-> "opened", dir |-> NoDir, of |-> NoOwner]
        BY <2>1 DEF HostInv, Reading
      <3> QED
        BY <3>1
    <2>3. query' = [query EXCEPT ![q] = Idle] /\ UNCHANGED <<datasets, viewDir, viewUsers, tmp>>
      BY <1>5 DEF WriteFails
    <2> QED
      BY <2>2, <2>3, IdleInv
  <1>6. ASSUME NEW q \in Queries, Release(q) PROVE HostInv'
    BY <1>6, ReleaseInv
  <1>7. CASE UNCHANGED hostVars
    <2>1. UNCHANGED <<datasets, viewDir, viewUsers, tmp, query>>
      BY <1>7 DEF hostVars
    <2>2. HostShape' /\ Counted'
      BY <2>1 DEF HostInv, HostShape, Counted, Readers
    <2>3. Reading' /\ CurrentDir'
      BY <2>1 DEF HostInv, Reading, CurrentDir
    <2>4. HostDirs'
      BY <2>1 DEF HostInv, HostDirs, DirsLive, DirsOwned
    <2> QED
      BY <2>2, <2>3, <2>4 DEF HostInv
  <1> QED
    BY <1>1, <1>2, <1>3, <1>4, <1>5, <1>6, <1>7 DEF HostStep, HostCall

LEMMA HostTypeInit == HostInit => HostTypeOK
  BY DirsPositive DEF HostInit, HostTypeOK, Idle

\* The owners keep their types when only owners give results to the host.
LEMMA HostTypeStep == HostInv /\ HostTypeOK /\ [HostNext]_hostVars => HostTypeOK'
  <1> SUFFICES ASSUME HostInv, HostTypeOK, [HostNext]_hostVars PROVE HostTypeOK'
    OBVIOUS
  <1> USE DEF HostTypeOK
  <1>1. HostShape'
    BY HostStepInv DEF HostNext, HostStep, HostInv
  <1>2. ASSUME NEW owner \in Owners \cup {NoOwner}, SetDatasets(owner) PROVE HostTypeOK'
    BY <1>2, <1>1 DEF SetDatasets, DropViews, HostShape
  <1>3. CASE Close
    BY <1>3 DEF Close, DropViews
  <1>4. ASSUME NEW q \in Queries, OpenSession(q) PROVE HostTypeOK'
    BY <1>4 DEF OpenSession
  <1>5. ASSUME NEW q \in Queries, TakeViews(q) PROVE HostTypeOK'
    <2>1. PICK dir \in Dirs \cup {NoDir} : Reads(q, dir)
      BY <1>5 DEF TakeViews
    <2>2. query' \in [Queries -> [at : {"idle", "opened", "reading"}, dir : Dirs \cup {NoDir},
                                  of : Owners \cup {NoOwner}]]
      BY <2>1 DEF Reads
    <2>3. tmp' \in [Dirs -> Owners \cup {NoOwner}] /\ UNCHANGED datasets
      BY <1>5 DEF TakeViews
    <2> QED
      BY <2>2, <2>3, <1>1 DEF HostShape
  <1>6. ASSUME NEW q \in Queries, WriteFails(q) PROVE HostTypeOK'
    BY <1>6 DEF WriteFails, Idle
  <1>7. ASSUME NEW q \in Queries, Release(q) PROVE HostTypeOK'
    <2>1. query' \in [Queries -> [at : {"idle", "opened", "reading"}, dir : Dirs \cup {NoDir},
                                  of : Owners \cup {NoOwner}]]
      BY <1>7 DEF Release, Idle
    <2>2. tmp' \in [Dirs -> Owners \cup {NoOwner}] /\ UNCHANGED datasets
      BY <1>7 DEF Release
    <2> QED
      BY <2>1, <2>2, <1>1 DEF HostShape
  <1>8. CASE UNCHANGED hostVars
    BY <1>8 DEF hostVars
  <1> QED
    BY <1>2, <1>3, <1>4, <1>5, <1>6, <1>7, <1>8 DEF HostNext, HostCall

\* For any number of concurrent queries and however the datasets are replaced:
\* a running query finds the files of the results it was given, and a directory
\* that is neither current nor read is gone (DropViews, Release).
THEOREM HostDirsHold == HostSpec => [](HostTypeOK /\ HostDirs)
  <1>1. HostInv => HostDirs
    BY DEF HostInv
  <1>2. [HostNext]_hostVars => [HostStep]_hostVars
    BY DEF HostNext, HostStep
  <1> QED
    BY HostInitInv, HostStepInv, HostTypeInit, HostTypeStep, <1>1, <1>2, PTL DEF HostSpec

-----------------------------------------------------------------------------
(* The temporary files of a build.                                           *)

\* The steps between which a document has temporary files.
WithTemps == {"back", "print", "content", "toc", "merge", "covers"}

\* What exists is removed with the running call: by its deferred removals, or,
\* between the two covers, by RenderCoverPDFs itself.
TempsInv ==
  /\ Running /\ stage = "back" => Existing = {"front"}
  /\ Running /\ stage # "back" => Existing \subseteq deferred
  /\ Running /\ stage \notin WithTemps => Existing = {}
  /\ Running /\ stage = "print" /\ Current \notin WithCovers => Existing = {}
  /\ Running /\ stage \in {"front", "back"} => Current \in WithCovers
  /\ ~Running => Existing = {}

-----------------------------------------------------------------------------
LEMMA NoTemps == DOMAIN <<>> = {}
  OBVIOUS

LEMMA TempsInit == Init => TempsInv
  BY NoTemps DEF Init, TempsInv, Running, Existing, WithTemps

\* A step that leaves the files alone, between stages without any.
LEMMA TempsKept ==
  ASSUME TempsInv, NEW to, Running, stage \notin WithTemps, stage # "front",
         stage' = to, to \notin {"back", "front"}, UNCHANGED <<temp, deferred, result>>
  PROVE  TempsInv'
  BY DEF TempsInv, Running, Existing, Current, WithTemps

LEMMA TempsStep == TempsInv /\ [Next]_vars => TempsInv'
  <1> SUFFICES ASSUME TempsInv, [Next]_vars PROVE TempsInv'
    OBVIOUS
  <1> USE DEF Step, KeepTemps, Keep
  <1>1. CASE Load
    BY <1>1, TempsKept DEF Load, WithTemps
  <1>2. CASE PreBuild
    BY <1>2, TempsKept DEF PreBuild, WithTemps
  <1>3. CASE Begin
    <2>1. Existing = {} /\ UNCHANGED <<temp, deferred, result>> /\ Running
      BY <1>3 DEF Begin, TempsInv, WithTemps
    <2>2. Current' = todo[turn + 1]
      BY <1>3 DEF Begin, Current
    <2>3. stage' # "back" /\ (stage' = "front" => Current' \in WithCovers)
      BY <1>3, <2>2 DEF Begin, FirstStage
    <2> QED
      BY <2>1, <2>3 DEF TempsInv, Running, Existing
  <1>4. CASE PreDatasource
    BY <1>4, TempsKept DEF PreDatasource, WithTemps
  <1>5. CASE RenderArtefactHTML
    BY <1>5, TempsKept DEF RenderArtefactHTML, WithTemps
  <1>6. CASE RenderInvalid
    BY <1>6 DEF RenderInvalid, TempsInv, WithTemps, Running, Existing
  <1>7. CASE PreRender
    BY <1>7, TempsKept DEF PreRender, WithTemps
  <1>8. CASE PrintReport
    <2>1. Current \notin WithCovers
      BY <1>8, KindsAssumption DEF PrintReport
    <2> QED
      BY <1>8, <2>1 DEF PrintReport, TempsInv, WithTemps, Running, Existing
  <1>9. CASE SetPDFInfo
    BY <1>9, TempsKept DEF SetPDFInfo, WithTemps
  <1>10. CASE WriteGraphReport
    BY <1>10, TempsKept DEF WriteGraphReport, WithTemps
  <1>11. CASE Sign
    BY <1>11, TempsKept DEF Sign, AfterSign, WithTemps
  <1>12. CASE PostRender
    BY <1>12, TempsKept DEF PostRender, WithTemps
  <1>13. CASE RenderScreenshotHTML
    BY <1>13, TempsKept DEF RenderScreenshotHTML, WithTemps
  <1>14. CASE Capture
    BY <1>14, TempsKept DEF Capture, WithTemps
  <1>15. CASE FrontCover
    <2>1. Existing = {} /\ Current \in WithCovers
      BY <1>15 DEF FrontCover, TempsInv, WithTemps
    <2>2. Existing' = {"front"}
      BY <1>15, <2>1 DEF FrontCover, Write, Existing
    <2> QED
      BY <1>15, <2>1, <2>2 DEF FrontCover, TempsInv, WithTemps, Running, Current
  <1>16. CASE BackCover
    <2>1. Current \in WithCovers
      BY <1>16 DEF BackCover, TempsInv
    <2>2. Existing' = deferred'
      BY <1>16 DEF BackCover, Existing
    <2> QED
      BY <1>16, <2>1, <2>2 DEF BackCover, AfterCovers, TempsInv, WithTemps, Running, Current
  <1>17. ASSUME NEW parts, WriteBody(parts), Running, UNCHANGED result, stage' = AfterBody
         PROVE  TempsInv'
    <2>1. CASE Current \in WithCovers
      <3>1. Existing' = deferred'
        BY <1>17, <2>1 DEF WriteBody, Existing
      <3> QED
        BY <1>17, <2>1, <3>1 DEF AfterBody, TempsInv, WithTemps, Running
    <2>2. CASE Current \notin WithCovers
      <3>1. Existing' = {}
        BY <1>17, <2>2, NoTemps DEF WriteBody, Existing
      <3> QED
        BY <1>17, <2>2, <3>1 DEF AfterBody, TempsInv, WithTemps, Running
    <2> QED
      BY <2>1, <2>2
  <1>18. CASE PrintDocument
    BY <1>18, <1>17 DEF PrintDocument
  <1>19. CASE PrintContent
    <2>1. Existing' \subseteq deferred'
      BY <1>19 DEF PrintContent, Write, TempsInv, Existing
    <2> QED
      BY <1>19, <2>1 DEF PrintContent, TempsInv, WithTemps, Running
  <1>20. CASE PrintToc
    <2>1. Existing' \subseteq deferred'
      BY <1>20 DEF PrintToc, Write, TempsInv, Existing
    <2> QED
      BY <1>20, <2>1 DEF PrintToc, TempsInv, WithTemps, Running
  <1>21. CASE MergeToc
    BY <1>21, <1>17 DEF MergeToc
  <1>22. CASE MergeCovers
    <2>1. Existing' = {}
      BY <1>22 DEF MergeCovers, Left, Existing, TempsInv
    <2> QED
      BY <1>22, <2>1 DEF MergeCovers, TempsInv, WithTemps, Running
  <1>23. CASE PostBuild
    BY <1>23, TempsKept DEF PostBuild, WithTemps
  <1>24. CASE WriteBuildLog
    BY <1>24 DEF WriteBuildLog, TempsInv, WithTemps, Running, Existing
  <1>25. CASE Fail
    <2>1. Existing' = {}
      BY <1>25 DEF Fail, Left, RemovedOnError, Existing, TempsInv
    <2> QED
      BY <1>25, <2>1 DEF Fail, TempsInv, Running
  <1>26. CASE Cancel
    BY <1>26 DEF Cancel, TempsInv, Running, Existing, Current
  <1>27. CASE ShutdownAll
    BY <1>27 DEF ShutdownAll, TempsInv, Running, Existing
  <1>28. CASE PluginCall \/ UNCHANGED vars
    BY <1>28 DEF PluginCall, vars, buildVars, TempsInv, Running, Existing, Current
  <1> QED
    BY <1>1, <1>2, <1>3, <1>4, <1>5, <1>6, <1>7, <1>8, <1>9, <1>10, <1>11, <1>12, <1>13,
       <1>14, <1>15, <1>16, <1>18, <1>19, <1>20, <1>21, <1>22, <1>23, <1>24, <1>25, <1>26,
       <1>27, <1>28 DEF Next, BuildStep

\* However a build ends, by success, by a failure of any step or by a cancelled
\* context, the temporary files of its documents are gone (RenderCoverPDFs,
\* BuildDocumentPDFWithTOC and renderDocumentWithCovers).
THEOREM BuildTempsGone == Spec => []TempsGone
  <1>1. TempsInv => TempsGone
    BY DEF TempsInv, TempsGone
  <1> QED
    BY TempsInit, TempsStep, <1>1, PTL DEF Spec

-----------------------------------------------------------------------------
(* The rows a plugin sees.                                                   *)

\* The host holds the results of the current artefact or none.
OwnInv ==
  /\ DOMAIN query = Queries
  /\ turn \in Nat
  /\ stage = "load" => turn = 0
  /\ stage \notin {"load", "pre-build", "next", "log", "closed"} => Building
  /\ datasets # NoOwner => Building /\ datasets = Current

LEMMA OwnInit == Init => OwnInv
  BY DEF Init, HostInit, OwnInv, Building

LEMMA OwnStep == OwnInv /\ [Next]_vars => OwnInv'
  <1> SUFFICES ASSUME OwnInv, [Next]_vars PROVE OwnInv'
    OBVIOUS
  <1> USE DEF Step, Keep, KeepHost, hostVars, OwnInv, Building, Current
  <1>1. CASE Load
    BY <1>1 DEF Load
  <1>2. CASE PreBuild
    BY <1>2 DEF PreBuild
  <1>3. CASE Begin
    <2>1. turn' = turn + 1 /\ datasets' = NoOwner /\ UNCHANGED query
      BY <1>3 DEF Begin, ClearPluginDatasets, SetDatasets
    <2>2. stage' # "load"
      BY <1>3 DEF Begin, FirstStage
    <2> QED
      BY <2>1, <2>2
  <1>4. CASE PreDatasource \/ PreRender \/ PrintReport \/ WriteGraphReport \/ PostRender
             \/ Capture \/ FrontCover
    BY <1>4 DEF PreDatasource, PreRender, PrintReport, WriteGraphReport, PostRender, Capture, FrontCover
  <1>5. CASE SetPDFInfo \/ Sign \/ BackCover \/ MergeToc \/ MergeCovers
    BY <1>5 DEF SetPDFInfo, Sign, AfterSign, BackCover, AfterCovers, MergeToc, AfterBody, MergeCovers
  <1>6. CASE RenderArtefactHTML \/ RenderScreenshotHTML \/ PrintContent \/ PrintToc
    BY <1>6 DEF RenderArtefactHTML, RenderScreenshotHTML, PrintContent, PrintToc, SetDatasets
  <1>7. CASE PrintDocument
    BY <1>7 DEF PrintDocument, AfterBody, SetDatasets
  <1>8. CASE RenderInvalid \/ PostBuild \/ WriteBuildLog \/ Fail \/ Cancel
    BY <1>8 DEF RenderInvalid, PostBuild, WriteBuildLog, Fail, Cancel
  <1>9. CASE ShutdownAll
    BY <1>9 DEF ShutdownAll, Close
  <1>10. CASE PluginCall
    BY <1>10 DEF PluginCall, buildVars, HostCall, OpenSession, TakeViews, Reads,
          WriteFails, Release
  <1>11. CASE UNCHANGED vars
    BY <1>11 DEF vars, buildVars
  <1> QED
    BY <1>1, <1>2, <1>3, <1>4, <1>5, <1>6, <1>7, <1>8, <1>9, <1>10, <1>11 DEF Next, BuildStep

LEMMA OwnRows ==
  ASSUME OwnInv, [Next]_vars, NEW q \in Queries,
         query'[q].of # query[q].of, query'[q].of # NoOwner
  PROVE  Building /\ query'[q].of = Current
  <1>1. CASE BuildStep
    <2>1. UNCHANGED query
      BY <1>1 DEF BuildStep, Step, KeepHost, hostVars, Load, PreBuild, Begin,
        ClearPluginDatasets, SetDatasets, PreDatasource, RenderArtefactHTML, RenderInvalid,
        PreRender, PrintReport, SetPDFInfo, WriteGraphReport, Sign, PostRender,
        RenderScreenshotHTML, Capture, FrontCover, BackCover, PrintDocument, PrintContent,
        PrintToc, MergeToc, MergeCovers, PostBuild, WriteBuildLog, Fail, Cancel, ShutdownAll, Close
    <2> QED
      BY <2>1
  <1>2. ASSUME NEW r \in Queries, HostCall(r) PROVE Building /\ query'[q].of = Current
    <2>1. CASE TakeViews(r)
      <3>1. PICK dir : Reads(r, dir)
        BY <2>1 DEF TakeViews
      <3>2. query'[q].of = datasets
        BY <3>1 DEF Reads
      <3> QED
        BY <3>2 DEF OwnInv
    <2>2. CASE OpenSession(r)
      BY <2>2 DEF OpenSession
    <2>3. CASE WriteFails(r) \/ Release(r)
      <3>1. query' = [query EXCEPT ![r] = Idle]
        BY <2>3 DEF WriteFails, Release
      <3> QED
        BY <3>1 DEF OwnInv, Idle
    <2> QED
      BY <1>2, <2>1, <2>2, <2>3 DEF HostCall
  <1> QED
    BY <1>1, <1>2 DEF Next, PluginCall, vars, hostVars

\* A plugin never gets the rows of the artefact that was built before
\* (clearPluginDatasets, SetDatasets).
THEOREM BuildQueryOwn == Spec => QueryOwn
  <1>1. OwnInv /\ [Next]_vars =>
          [\A q \in Queries :
             query'[q].of # query[q].of /\ query'[q].of # NoOwner
               => Building /\ query'[q].of = Current]_vars
    BY OwnRows
  <1> QED
    BY OwnInit, OwnStep, <1>1, PTL DEF Spec, QueryOwn

-----------------------------------------------------------------------------
(* The host, driven by the build and its plugins.                            *)

LEMMA BuildHostStep == [Next]_vars => [HostStep]_hostVars
  <1> SUFFICES ASSUME [Next]_vars PROVE [HostStep]_hostVars
    OBVIOUS
  <1> USE DEF Step, KeepHost, HostStep
  <1>1. CASE Begin \/ RenderArtefactHTML \/ RenderScreenshotHTML \/ PrintDocument
             \/ PrintContent \/ PrintToc
    BY <1>1 DEF Begin, ClearPluginDatasets, RenderArtefactHTML, RenderScreenshotHTML,
                PrintDocument, PrintContent, PrintToc
  <1>2. CASE Load \/ PreBuild \/ PreDatasource \/ RenderInvalid \/ PreRender \/ PrintReport
             \/ SetPDFInfo \/ WriteGraphReport \/ Sign \/ PostRender \/ Capture
    BY <1>2 DEF Load, PreBuild, PreDatasource, RenderInvalid, PreRender, PrintReport,
                SetPDFInfo, WriteGraphReport, Sign, PostRender, Capture
  <1>3. CASE FrontCover \/ BackCover \/ MergeToc \/ MergeCovers \/ PostBuild
             \/ WriteBuildLog \/ Fail \/ Cancel
    BY <1>3 DEF FrontCover, BackCover, MergeToc, MergeCovers, PostBuild, WriteBuildLog, Fail, Cancel
  <1>4. CASE ShutdownAll
    BY <1>4 DEF ShutdownAll
  <1>5. CASE PluginCall
    BY <1>5 DEF PluginCall
  <1>6. CASE UNCHANGED vars
    BY <1>6 DEF vars
  <1> QED
    BY <1>1, <1>2, <1>3, <1>4, <1>5, <1>6 DEF Next, BuildStep

\* Whatever the build does to the datasets, and when it closes the host, a plugin
\* query finds the files it was given and the last one removes them
\* (SetDatasets, DropViews, Release).
THEOREM BuildHostDirs == Spec => []HostDirs
  <1>1. Init => HostInv
    BY HostInitInv DEF Init
  <1>2. HostInv => HostDirs
    BY DEF HostInv
  <1> QED
    BY <1>1, <1>2, BuildHostStep, HostStepInv, PTL DEF Spec

-----------------------------------------------------------------------------
(* Selection: what a list of positions gives, and what FilterArtefacts does. *)

\* The j-th of a set of positions.
LEMMA NthIs ==
  ASSUME NEW n \in Nat, NEW K \in SUBSET (1 .. n)
  PROVE  /\ Cardinality(K) \in Nat
         /\ \A j \in 1 .. Cardinality(K) : Nth(K, j) \in K
         /\ \A i \in K : \E j \in 1 .. Cardinality(K) : Nth(K, j) = i
         /\ K # {} => \E i \in K : \A k \in K : i <= k
  <1> DEFINE c == Cardinality(K)
             Below(i) == {k \in K : k <= i}
             rank == [i \in K |-> Cardinality(Below(i))]
  <1>1. IsFiniteSet(K) /\ c \in Nat /\ K \subseteq Nat
    <2>1. IsFiniteSet(1 .. n)
      BY FS_Interval
    <2>2. IsFiniteSet(K)
      BY <2>1, FS_Subset
    <2> QED
      BY <2>2, FS_CardinalityType
  <1>2. \A i \in K : /\ IsFiniteSet(Below(i)) /\ Cardinality(Below(i)) \in 1 .. c
                     /\ i \in Below(i)
    <2> SUFFICES ASSUME NEW i \in K
                 PROVE  /\ IsFiniteSet(Below(i)) /\ Cardinality(Below(i)) \in 1 .. c
                        /\ i \in Below(i)
      OBVIOUS
    <2>1. Below(i) \in SUBSET K /\ i \in Below(i)
      OBVIOUS
    <2>2. IsFiniteSet(Below(i)) /\ Cardinality(Below(i)) <= c
      BY <1>1, <2>1, FS_Subset
    <2>3. Cardinality(Below(i)) \in Nat /\ Cardinality(Below(i)) # 0
      BY <2>1, <2>2, FS_CardinalityType, FS_EmptySet
    <2> QED
      BY <1>1, <2>1, <2>2, <2>3
  <1>3. \A i, k \in K : i < k => rank[i] # rank[k]
    <2> SUFFICES ASSUME NEW i \in K, NEW k \in K, i < k, Cardinality(Below(i)) = Cardinality(Below(k))
                 PROVE  FALSE
      OBVIOUS
    <2>0. \A j \in K : j <= i => j <= k
      BY <1>1
    <2>1. Below(i) \in SUBSET Below(k)
      BY <2>0
    <2>2. Below(i) = Below(k)
      BY <1>2, <2>1, FS_Subset
    <2> QED
      BY <1>1, <1>2, <2>2
  <1>4. rank \in Injection(K, 1 .. c)
    <2>1. rank \in [K -> 1 .. c]
      BY <1>2
    <2>2. \A i, k \in K : rank[i] = rank[k] => i = k
      BY <1>1, <1>3
    <2> QED
      BY <2>1, <2>2 DEF Injection, IsInjective
  <1>5. rank \in Surjection(K, 1 .. c)
    <2>1. IsFiniteSet(1 .. c) /\ Cardinality(1 .. c) = c
      BY <1>1, FS_Interval
    <2> QED
      BY <1>1, <1>4, <2>1, FS_Injection
  <1>6. \A j \in 1 .. c : \E i \in K : rank[i] = j
    BY <1>5 DEF Surjection
  <1>7. \A j \in 1 .. c : Nth(K, j) \in K /\ rank[Nth(K, j)] = j
    BY <1>6 DEF Nth
  <1>8. \A i \in K : rank[i] \in 1 .. c /\ Nth(K, rank[i]) = i
    <2> SUFFICES ASSUME NEW i \in K
                 PROVE  rank[i] \in 1 .. c /\ Nth(K, rank[i]) = i
      OBVIOUS
    <2>1. rank[i] \in 1 .. c
      BY <1>2
    <2>2. Nth(K, rank[i]) \in K /\ rank[Nth(K, rank[i])] = rank[i]
      BY <1>7, <2>1
    <2> QED
      BY <1>4, <2>1, <2>2 DEF Injection, IsInjective
  <1>9. K # {} => \E i \in K : \A k \in K : i <= k
    <2> SUFFICES ASSUME K # {} PROVE \E i \in K : \A k \in K : i <= k
      OBVIOUS
    <2>1. 1 \in 1 .. c
      BY <1>1, FS_EmptySet
    <2>2. PICK i \in K : rank[i] = 1
      BY <1>6, <2>1
    <2>3. PICK x : Below(i) = {x}
      BY <1>2, <2>2, FS_Singleton
    <2>4. \A k \in K : i <= k
      BY <1>2, <2>3
    <2> QED
      BY <2>4
  <1> QED
    BY <1>1, <1>7, <1>8, <1>9

LEMMA ListedIs ==
  ASSUME NEW T, NEW s \in Seq(T), NEW K \in SUBSET DOMAIN s
  PROVE  Listed(s, K) \in Seq(T) /\ ToSet(Listed(s, K)) = {s[i] : i \in K}
  <1>1. DOMAIN s = 1 .. Len(s) /\ Len(s) \in Nat
    OBVIOUS
  <1>2. /\ Cardinality(K) \in Nat
        /\ \A j \in 1 .. Cardinality(K) : Nth(K, j) \in K
        /\ \A i \in K : \E j \in 1 .. Cardinality(K) : Nth(K, j) = i
    BY <1>1, NthIs
  <1>3. Listed(s, K) = [j \in 1 .. Cardinality(K) |-> s[Nth(K, j)]]
    BY DEF Listed
  <1>4. Listed(s, K) \in Seq(T)
    BY <1>2, <1>3
  <1>5. ToSet(Listed(s, K)) = {s[i] : i \in K}
    BY <1>2, <1>3 DEF ToSet
  <1> QED
    BY <1>4, <1>5

\* The include list selects the artefacts it names, the empty one all, but for
\* the excluded ones.
LEMMA FilterIs ==
  ASSUME NEW all, all \in Seq(ToSet(all)), NEW m \in Manifests
  PROVE  /\ FilterArtefacts(all, m) \in Seq(ToSet(all))
         /\ ToSet(FilterArtefacts(all, m)) =
              {a \in ToSet(all) : a \notin m.exclude /\ (m.include = <<>> \/ a \in ToSet(m.include))}
  <1>1. CASE m.include = <<>>
    <2> DEFINE K == {i \in DOMAIN all : all[i] \notin m.exclude}
    <2>1. K \in SUBSET DOMAIN all /\ FilterArtefacts(all, m) = Listed(all, K)
      BY <1>1 DEF FilterArtefacts
    <2>2. {all[i] : i \in K} = {a \in ToSet(all) : a \notin m.exclude}
      BY DEF ToSet
    <2> QED
      BY <1>1, <2>1, <2>2, ListedIs
  <1>2. CASE m.include # <<>>
    <2> DEFINE s == m.include
               K == {i \in DOMAIN s : /\ s[i] \in ToSet(all) /\ s[i] \notin m.exclude
                                      /\ \A k \in 1 .. i - 1 : s[k] # s[i]}
    <2>1. K \in SUBSET DOMAIN s /\ FilterArtefacts(all, m) = Listed(s, K)
      BY <1>2 DEF FilterArtefacts
    <2>2. s \in Seq(ToSet(s)) /\ DOMAIN s = 1 .. Len(s) /\ Len(s) \in Nat
      BY ListsAssumption
    <2>3. \A a \in ToSet(s) : \E i \in DOMAIN s : s[i] = a /\ \A k \in 1 .. i - 1 : s[k] # s[i]
      <3> SUFFICES ASSUME NEW a \in ToSet(s)
                   PROVE  \E i \in DOMAIN s : s[i] = a /\ \A k \in 1 .. i - 1 : s[k] # s[i]
        OBVIOUS
      <3> DEFINE at == {i \in DOMAIN s : s[i] = a}
      <3>1. at \in SUBSET (1 .. Len(s)) /\ at # {}
        BY <2>2 DEF ToSet
      <3> HIDE DEF at
      <3>2. PICK i \in at : \A k \in at : i <= k
        BY <2>2, <3>1, NthIs
      <3> USE DEF at
      <3>3. \A k \in 1 .. i - 1 : k \in DOMAIN s /\ ~(i <= k)
        BY <2>2, <3>2
      <3> QED
        BY <3>2, <3>3
    <2>4. {s[i] : i \in K} = {a \in ToSet(all) : a \notin m.exclude /\ a \in ToSet(s)}
      BY <2>3 DEF ToSet
    <2>5. Listed(s, K) \in Seq(ToSet(s)) /\ ToSet(Listed(s, K)) = {s[i] : i \in K}
      BY <2>1, <2>2, ListedIs
    <2>6. Listed(s, K) \in Seq(ToSet(all))
      <3>1. \A j \in DOMAIN Listed(s, K) : Listed(s, K)[j] \in ToSet(all)
        BY <2>4, <2>5 DEF ToSet
      <3> QED
        BY <2>5, <3>1
    <2> QED
      BY <1>2, <2>1, <2>4, <2>5, <2>6
  <1> QED
    BY <1>1, <1>2

LEMMA ConcatIs ==
  ASSUME NEW T, NEW s \in Seq(T), NEW t \in Seq(T)
  PROVE  s \o t \in Seq(T) /\ ToSet(s \o t) = ToSet(s) \cup ToSet(t)
  <1>1. s \o t \in Seq(T) /\ Len(s \o t) = Len(s) + Len(t) /\ Len(s) \in Nat /\ Len(t) \in Nat
    OBVIOUS
  <1>2. \A i \in 1 .. Len(s) + Len(t) : (s \o t)[i] = IF i <= Len(s) THEN s[i] ELSE t[i - Len(s)]
    OBVIOUS
  <1>3. ToSet(s \o t) \subseteq ToSet(s) \cup ToSet(t)
    BY <1>1, <1>2 DEF ToSet
  <1>4. \A i \in DOMAIN s : i \in DOMAIN (s \o t) /\ (s \o t)[i] = s[i]
    BY <1>1, <1>2
  <1>5. \A i \in DOMAIN t : Len(s) + i \in DOMAIN (s \o t) /\ (s \o t)[Len(s) + i] = t[i]
    BY <1>1, <1>2
  <1>6. ToSet(s) \cup ToSet(t) \subseteq ToSet(s \o t)
    BY <1>4, <1>5 DEF ToSet
  <1> QED
    BY <1>1, <1>3, <1>6

\* What is built is what was asked for.
LEMMA SelectedIs ==
  ASSUME NEW m \in Manifests
  PROVE  Selected(m) \in Seq(Artefacts) /\ ToSet(Selected(m)) = Asked(m)
  <1> DEFINE F(all) == FilterArtefacts(all, m)
             G(all) == {a \in ToSet(all) : a \notin m.exclude /\ (m.include = <<>> \/ a \in ToSet(m.include))}
  <1>1. \A all \in {Reports, Shots, Documents} : F(all) \in Seq(ToSet(all)) /\ ToSet(F(all)) = G(all)
    BY FilterIs, ListsAssumption
  <1>2. \A all \in {Reports, Shots, Documents} : ToSet(all) \subseteq Artefacts
    BY DEF Artefacts
  <1>3. F(Reports) \in Seq(Artefacts) /\ F(Shots) \in Seq(Artefacts) /\ F(Documents) \in Seq(Artefacts)
    BY <1>1, <1>2
  <1>4. Selected(m) = (F(Reports) \o F(Shots)) \o F(Documents)
    BY DEF Selected
  <1>5. Asked(m) = G(Reports) \cup G(Shots) \cup G(Documents)
    BY DEF Asked, Artefacts
  <1>6. ToSet(F(Reports)) = G(Reports) /\ ToSet(F(Shots)) = G(Shots) /\ ToSet(F(Documents)) = G(Documents)
    BY <1>1
  <1> HIDE DEF F, G
  <1>7. \A s, t \in Seq(Artefacts) :
          s \o t \in Seq(Artefacts) /\ ToSet(s \o t) = ToSet(s) \cup ToSet(t)
    BY ConcatIs
  <1>8. /\ Selected(m) \in Seq(Artefacts)
        /\ ToSet(Selected(m)) = (G(Reports) \cup G(Shots)) \cup G(Documents)
    <2>1. /\ F(Reports) \o F(Shots) \in Seq(Artefacts)
          /\ ToSet(F(Reports) \o F(Shots)) = G(Reports) \cup G(Shots)
      BY <1>3, <1>6, <1>7
    <2> QED
      BY <1>3, <1>4, <1>6, <1>7, <2>1
  <1> QED
    BY <1>5, <1>8

-----------------------------------------------------------------------------
(* What is delivered.                                                        *)

\* The stages in which an artefact is built.
Inner == {"datasource", "html", "pre-render", "print", "info", "graph", "sign", "post-render",
          "shot", "capture", "front", "back", "content", "toc", "merge", "covers"}

Files(f) == f = [a \in Artefacts |-> f[a]]

BuildShape ==
  /\ todo \in Seq(Artefacts)
  /\ turn \in 0 .. Len(todo)
  /\ Files(out) /\ Files(handed)
  /\ missed \subseteq ToSet(Shots)

\* Where the build is: what it works off is what was asked for.
Courses ==
  /\ stage \in Inner \cup {"load", "pre-build", "next", "log", "closed"}
  /\ stage = "load" => todo = <<>> /\ turn = 0 /\ result # "ok"
  /\ stage \notin {"load", "closed"} \/ result = "ok" =>
       manifest \in Manifests /\ ToSet(todo) = Asked(manifest)
  /\ stage = "log" \/ result = "ok" => turn = Len(todo)
  /\ stage = "closed" => ~Running
  /\ Running /\ stage \in Inner => Building

\* Only an artefact that was begun has a file.
Untouched == \A a \in Artefacts : out[a] = NoFile \/ \E j \in 1 .. turn : todo[j] = a

Complete(a) ==
  /\ out[a] = Finished(a) \/ a \in missed
  /\ a \in ToSet(Reports) => handed[a] = out[a] /\ a \in graph

\* What was begun is complete, but for the artefact in work.
Behind ==
  Running \/ result = "ok" =>
    \A j \in 1 .. turn : Complete(todo[j]) \/ (Running /\ stage \in Inner /\ todo[j] = Current)

Logged ==
  \A j \in DOMAIN log :
    /\ result = "ok"
    /\ log[j] \notin ToSet(Shots)
    /\ \E k \in 1 .. turn : log[j] = todo[k]

\* Each kind of artefact has its stages.
Place ==
  Running =>
    /\ stage \in {"datasource", "html", "pre-render", "graph", "post-render"} =>
         Current \in ToSet(Reports)
    /\ stage \in {"shot", "capture"} => Current \in ToSet(Shots)
    /\ stage \in {"front", "back", "covers"} => Current \in WithCovers
    /\ stage \in {"content", "toc", "merge"} => Current \in WithToc
    /\ stage = "print" =>
         Current \in ToSet(Reports) \/ (Current \in ToSet(Documents) /\ Current \notin WithToc)
    /\ stage \in {"info", "sign"} => Current \in ToSet(Reports) \cup ToSet(Documents)

Holds(name, parts) == name \in Existing /\ temp[name] = parts

Body(a) == IF a \in WithToc THEN <<"toc">> \o <<"content">> ELSE <<"content">>

\* The parts of the artefact in work that are in temporary files.
Collected ==
  Running =>
    /\ stage = "back" => Holds("front", <<"front">>)
    /\ stage \in {"print", "content", "toc", "merge", "covers"} /\ Current \in WithCovers =>
         Holds("front", <<"front">>) /\ Holds("back", <<"back">>)
    /\ stage \in {"toc", "merge"} => Holds("content", <<"content">>)
    /\ stage = "merge" => Holds("toc", <<"toc">>)
    /\ stage = "covers" => Holds("body", Body(Current))

\* The file of the artefact in work, once its parts are together.
Described(a) == [parts |-> PartsAsked(a), info |-> TRUE, signature |-> FALSE]

Composed ==
  Running =>
    /\ stage = "pre-render" \/ (stage = "print" /\ Current \in ToSet(Reports)) =>
         NamesUnique(manifest)
    /\ stage = "info" => out[Current] = Printed(PartsAsked(Current))
    /\ stage \in {"graph", "sign"} => out[Current] = Described(Current)
    /\ stage \in {"sign", "post-render"} /\ Current \in ToSet(Reports) => Current \in graph
    /\ stage = "post-render" => out[Current] = Finished(Current)

DeliverInv ==
  /\ BuildShape /\ Courses /\ Untouched /\ Behind /\ Logged
  /\ Place /\ Collected /\ Composed

-----------------------------------------------------------------------------
\* The parts of a document: its body between its covers.
LEMMA PartsIs ==
  ASSUME NEW a \in ToSet(Documents)
  PROVE  PartsAsked(a) = IF a \in WithCovers THEN (<<"front">> \o Body(a)) \o <<"back">>
                                             ELSE Body(a)
  <1> DEFINE front == <<"front">>
             toc == <<"toc">>
             content == <<"content">>
             back == <<"back">>
             Names == {"front", "toc", "content", "back"}
  <1>1. /\ front \in Seq(Names) /\ toc \in Seq(Names) /\ content \in Seq(Names)
        /\ back \in Seq(Names) /\ <<>> \in Seq(Names)
    BY EmptySeq
  <1>2. \A s, t \in Seq(Names) : s \o t \in Seq(Names)
    BY ConcatProperties
  <1>3. \A s \in Seq(Names) : s \o <<>> = s /\ <<>> \o s = s
    BY ConcatEmptySeq
  <1>4. (front \o toc) \o content = front \o (toc \o content)
    BY <1>1, ConcatAssociative
  <1>5. a \notin ToSet(Reports) /\ a \notin ToSet(Shots)
    BY KindsAssumption
  <1>6. PartsAsked(a) = (IF a \in WithCovers THEN front ELSE <<>>)
                        \o (IF a \in WithToc THEN toc ELSE <<>>) \o content
                        \o (IF a \in WithCovers THEN back ELSE <<>>)
    BY <1>5 DEF PartsAsked
  <1>7. Body(a) = IF a \in WithToc THEN toc \o content ELSE content
    BY DEF Body
  <1> HIDE DEF front, toc, content, back, Names
  <1>8. toc \o content \in Seq(Names) /\ front \o content \in Seq(Names)
    BY <1>1, <1>2
  <1>9. CASE a \in WithCovers
    BY <1>9, <1>1, <1>3, <1>4, <1>6, <1>7 DEF front, back
  <1>10. CASE a \notin WithCovers
    BY <1>10, <1>1, <1>3, <1>6, <1>7, <1>8
  <1> QED
    BY <1>9, <1>10

LEMMA CurrentIs ==
  ASSUME BuildShape, Building
  PROVE  Current \in Artefacts /\ turn \in 1 .. Len(todo)
  BY DEF BuildShape, Building, Current

LEMMA CompleteKept ==
  ASSUME NEW a, Complete(a), UNCHANGED manifest, out'[a] = out[a], handed'[a] = handed[a],
         graph \subseteq graph', missed \subseteq missed'
  PROVE  Complete(a)'
  BY DEF Complete, Finished, PartsAsked

LEMMA DeliverInit == Init => DeliverInv
  <1> SUFFICES ASSUME Init PROVE DeliverInv
    OBVIOUS
  <1>1. BuildShape
    <2>1. todo \in Seq(Artefacts) /\ Len(todo) = 0
      BY EmptySeq DEF Init
    <2> QED
      BY <2>1 DEF Init, BuildShape, Files
  <1>2. Courses
    BY DEF Init, Courses, Running, Inner
  <1>3. Untouched
    BY DEF Init, Untouched
  <1>4. Behind
    BY DEF Init, Behind
  <1>5. Logged
    BY NoTemps DEF Init, Logged, None
  <1>6. Place /\ Collected /\ Composed
    BY DEF Init, Place, Collected, Composed
  <1> QED
    BY <1>1, <1>2, <1>3, <1>4, <1>5, <1>6 DEF DeliverInv

\* A step of the artefact in work touches no other, and may leave it only
\* when it is complete.
LEMMA InnerStep ==
  ASSUME DeliverInv, Running, stage \in Inner, stage' \in Inner \cup {"next"},
         UNCHANGED <<manifest, todo, turn, result, log>>,
         BuildShape',
         \A a \in Artefacts : a # Current => out'[a] = out[a] /\ handed'[a] = handed[a],
         graph \subseteq graph', missed \subseteq missed',
         stage' = "next" => Complete(Current)',
         Place', Collected', Composed'
  PROVE  DeliverInv'
  <1>1. /\ Building /\ Current \in Artefacts /\ turn \in 1 .. Len(todo)
        /\ Current' = Current /\ Running' /\ Building'
    BY CurrentIs DEF DeliverInv, Courses, Current, Running, Building
  <1>2. Courses'
    BY <1>1 DEF DeliverInv, Courses, Inner, Asked, Running
  <1>3. Untouched'
    <2> SUFFICES ASSUME NEW a \in Artefacts
                 PROVE  out'[a] = NoFile \/ \E j \in 1 .. turn : todo[j] = a
      BY DEF Untouched
    <2>1. CASE a = Current
      BY <1>1, <2>1 DEF Current
    <2>2. CASE a # Current
      BY <2>2 DEF DeliverInv, Untouched
    <2> QED
      BY <2>1, <2>2
  <1>4. Behind'
    <2> SUFFICES ASSUME NEW j \in 1 .. turn
                 PROVE  Complete(todo[j])' \/ (stage' \in Inner /\ todo[j] = Current)
      BY <1>1 DEF Behind
    <2>1. CASE todo[j] = Current
      <3> DEFINE a == todo[j]
      <3>1. \A b : b = Current => (stage' = "next" => Complete(b)')
        BY <1>1
      <3>2. stage' = "next" => Complete(a)'
        BY <2>1, <3>1
      <3> QED
        BY <2>1, <3>2
    <2>2. CASE todo[j] # Current
      <3>1. todo[j] \in Artefacts
        BY <1>1 DEF DeliverInv, BuildShape
      <3>2. Complete(todo[j])
        BY <2>2 DEF DeliverInv, Behind
      <3> DEFINE a == todo[j]
      <3>3. a' = a
        OBVIOUS
      <3>4. out'[a] = out[a] /\ handed'[a] = handed[a]
        BY <2>2, <3>1
      <3>5. \A b : b = a => Complete(b)'
        BY <3>2, <3>4, CompleteKept
      <3>6. Complete(a)'
        BY <3>3, <3>5
      <3> QED
        BY <3>6
    <2> QED
      BY <2>1, <2>2
  <1>5. Logged'
    BY DEF DeliverInv, Logged
  <1> QED
    BY <1>2, <1>3, <1>4, <1>5 DEF DeliverInv

\* A step that writes no artefact.
LEMMA PassStep ==
  ASSUME DeliverInv, Running, stage \in Inner, stage' \in Inner,
         UNCHANGED <<manifest, todo, turn, result, out, graph, missed, handed, log>>,
         Place', Collected', Composed'
  PROVE  DeliverInv'
  <1>1. BuildShape'
    BY DEF DeliverInv, BuildShape, Files
  <1>2. stage' # "next"
    BY DEF Inner
  <1> QED
    BY <1>1, <1>2, InnerStep

\* What an artefact should be depends on the manifests only.
LEMMA AskedKept ==
  ASSUME UNCHANGED manifest
  PROVE  \A a : /\ PartsAsked(a)' = PartsAsked(a) /\ Finished(a)' = Finished(a)
                /\ Described(a)' = Described(a)
  BY DEF PartsAsked, Finished, Described

\* A step that writes the file of the artefact in work.
LEMMA FileStep ==
  ASSUME DeliverInv, Running, stage \in Inner, stage' \in Inner \cup {"next"},
         UNCHANGED <<manifest, todo, turn, result, graph, missed, handed, log>>,
         NEW file, out' = [out EXCEPT ![Current] = file],
         stage' = "next" => file = Finished(Current) /\ Current \notin ToSet(Reports),
         Place', Collected', Composed'
  PROVE  DeliverInv'
  <1>1. Current \in Artefacts /\ Current' = Current
    BY CurrentIs DEF DeliverInv, Courses, Current
  <1>2. out'[Current] = file /\ \A a \in Artefacts : a # Current => out'[a] = out[a]
    BY <1>1 DEF DeliverInv, BuildShape, Files
  <1>3. BuildShape'
    BY <1>1 DEF DeliverInv, BuildShape, Files
  <1>4. stage' = "next" => Complete(Current)'
    <2>1. \A a : Finished(a)' = Finished(a)
      BY AskedKept
    <2>2. \A a : a = Current /\ out'[a] = Finished(a) /\ a \notin ToSet(Reports) => Complete(a)'
      BY <2>1 DEF Complete
    <2> QED
      BY <1>1, <1>2, <2>2
  <1> QED
    BY <1>2, <1>3, <1>4, InnerStep

\* The steps of a report.
LEMMA ReportStep ==
  ASSUME PagesRight, DeliverInv,
         \/ PreDatasource \/ RenderArtefactHTML \/ PreRender \/ PrintReport
         \/ WriteGraphReport \/ PostRender
  PROVE  DeliverInv'
  <1> USE DEF Step, Keep, KeepFiles, KeepTemps
  <1>1. /\ Running /\ Running' /\ Current' = Current
        /\ UNCHANGED <<manifest, todo, turn, result, log, missed, temp>>
        /\ stage \in Inner /\ Place /\ Collected /\ Composed
    BY DEF PreDatasource, RenderArtefactHTML, PreRender, PrintReport, WriteGraphReport,
           PostRender, DeliverInv, Running, Current, Inner
  <1>2. Current \in Artefacts /\ BuildShape /\ manifest \in Manifests
    BY <1>1, CurrentIs DEF DeliverInv, Courses, Inner
  <1>3. /\ Current \in ToSet(Reports) /\ Current \notin ToSet(Shots)
        /\ Current \notin ToSet(Documents) /\ Current \notin WithCovers
    <2>1. Current \in ToSet(Reports)
      BY <1>1 DEF PreDatasource, RenderArtefactHTML, PreRender, PrintReport,
             WriteGraphReport, PostRender, Place
    <2> QED
      BY <2>1, KindsAssumption
  <1>4. \A a : PartsAsked(a)' = PartsAsked(a) /\ Finished(a)' = Finished(a)
               /\ Described(a)' = Described(a)
    BY <1>1, AskedKept
  <1>5. CASE PreDatasource \/ RenderArtefactHTML \/ PreRender
    <2>1. /\ UNCHANGED <<out, graph, handed>>
          /\ stage' \in {"html", "pre-render", "print"}
          /\ stage' \in {"pre-render", "print"} => NamesUnique(manifest)
      BY <1>1, <1>5 DEF PreDatasource, RenderArtefactHTML, PreRender, Composed
    <2>2. Place' /\ Collected' /\ Composed'
      BY <1>1, <1>3, <2>1 DEF Place, Collected, Composed
    <2> QED
      BY <1>1, <2>1, <2>2, PassStep DEF Inner
  <1>6. CASE PrintReport
    <2>1. RenderLayoutPages(manifest) = PartsAsked(Current)
      BY <1>1, <1>2, <1>3, <1>6 DEF PrintReport, PartsAsked, Composed, PagesRight
    <2>2. /\ stage' = "info" /\ UNCHANGED <<graph, handed>>
          /\ out' = [out EXCEPT ![Current] = Printed(PartsAsked(Current))]
      BY <1>6, <2>1 DEF PrintReport
    <2>3. out'[Current] = Printed(PartsAsked(Current))
      BY <1>2, <2>2 DEF BuildShape, Files
    <2>4. Place' /\ Collected'
      BY <1>1, <1>3, <2>2 DEF Place, Collected
    <2>5. Composed'
      BY <1>1, <1>4, <2>2, <2>3 DEF Composed, Printed
    <2> QED
      BY <1>1, <2>2, <2>4, <2>5, FileStep DEF Inner
  <1>7. CASE WriteGraphReport
    <2>1. /\ stage = "graph" /\ stage' = "sign" /\ graph' = graph \cup {Current}
          /\ UNCHANGED <<out, handed>>
      BY <1>7 DEF WriteGraphReport
    <2>2. Place' /\ Collected'
      BY <1>1, <1>3, <2>1 DEF Place, Collected
    <2>3. Composed'
      BY <1>1, <1>4, <2>1 DEF Composed
    <2>4. BuildShape'
      BY <1>1, <1>2, <2>1 DEF BuildShape, Files
    <2> QED
      BY <1>1, <2>1, <2>2, <2>3, <2>4, InnerStep DEF Inner
  <1>8. CASE PostRender
    <2>1. /\ stage = "post-render" /\ stage' = "next" /\ UNCHANGED <<out, graph>>
          /\ handed' = [handed EXCEPT ![Current] = out[Current]]
      BY <1>8 DEF PostRender
    <2>2. Place' /\ Collected' /\ Composed'
      BY <2>1 DEF Place, Collected, Composed
    <2>3. /\ handed'[Current] = out[Current]
          /\ \A a \in Artefacts : a # Current => handed'[a] = handed[a]
          /\ BuildShape'
      BY <1>1, <1>2, <2>1 DEF BuildShape, Files
    <2>4. Complete(Current)'
      <3>1. out[Current] = Finished(Current) /\ Current \in graph
        BY <1>1, <1>3, <2>1 DEF Composed
      <3>2. \A a : a = Current => Complete(a)'
        BY <1>4, <2>1, <2>3, <3>1 DEF Complete
      <3> QED
        BY <1>1, <3>2
    <2> QED
      BY <1>1, <2>1, <2>2, <2>3, <2>4, InnerStep
  <1> QED
    BY <1>5, <1>6, <1>7, <1>8

\* What the two rewrites of a finished PDF leave of it.
PDFs(P) == [parts : P, info : BOOLEAN, signature : BOOLEAN]

LEMMA PDFIs ==
  ASSUME NEW P, NEW x \in PDFs(P)
  PROVE  x = [parts |-> x.parts, info |-> x.info, signature |-> x.signature]
  BY DEF PDFs

LEMMA InfoSet ==
  ASSUME NEW p, NEW x, x = Printed(p), NEW y, y = [x EXCEPT !.info = TRUE]
  PROVE  y = [parts |-> p, info |-> TRUE, signature |-> FALSE]
  <1>1. x \in PDFs({p}) /\ x.parts = p /\ x.signature = FALSE
    BY DEF PDFs, Printed
  <1>2. y \in PDFs({p}) /\ y.parts = x.parts /\ y.info = TRUE /\ y.signature = x.signature
    BY <1>1 DEF PDFs
  <1>3. y = [parts |-> y.parts, info |-> y.info, signature |-> y.signature]
    BY <1>2, PDFIs
  <1> QED
    BY <1>1, <1>2, <1>3, Zenon

LEMMA SignatureSet ==
  ASSUME NEW p, NEW s \in BOOLEAN, NEW x, x = [parts |-> p, info |-> TRUE, signature |-> FALSE],
         NEW y, y = [x EXCEPT !.signature = s]
  PROVE  y = [parts |-> p, info |-> TRUE, signature |-> s]
  <1>1. x \in PDFs({p}) /\ x.parts = p /\ x.info = TRUE
    BY DEF PDFs
  <1>2. y \in PDFs({p}) /\ y.parts = x.parts /\ y.info = x.info /\ y.signature = s
    BY <1>1 DEF PDFs
  <1>3. y = [parts |-> y.parts, info |-> y.info, signature |-> y.signature]
    BY <1>2, PDFIs
  <1> QED
    BY <1>1, <1>2, <1>3, Zenon

\* The metadata and the signature of a report or a document.
LEMMA FinishStep ==
  ASSUME DeliverInv, SetPDFInfo \/ Sign
  PROVE  DeliverInv'
  <1> USE DEF Step, Keep, KeepFiles, KeepTemps
  <1>1. /\ Running /\ Running' /\ Current' = Current
        /\ UNCHANGED <<manifest, todo, turn, result, log, missed, temp, graph, handed>>
        /\ stage \in {"info", "sign"} /\ Place /\ Collected /\ Composed
    BY DEF SetPDFInfo, Sign, DeliverInv, Running, Current
  <1>2. Current \in Artefacts /\ BuildShape
    BY <1>1, CurrentIs DEF DeliverInv, Courses, Inner
  <1>3. /\ Current \in ToSet(Reports) \cup ToSet(Documents) /\ Current \notin ToSet(Shots)
    BY <1>1, KindsAssumption DEF Place
  <1>4. \A a : PartsAsked(a)' = PartsAsked(a) /\ Finished(a)' = Finished(a)
               /\ Described(a)' = Described(a)
    BY <1>1, AskedKept
  <1>5. CASE SetPDFInfo
    <2>1. /\ stage' = (IF Current \in ToSet(Reports) THEN "graph" ELSE "sign")
          /\ stage = "info" /\ out' = [out EXCEPT ![Current].info = TRUE]
      BY <1>5 DEF SetPDFInfo
    <2>2. out[Current] = Printed(PartsAsked(Current))
      BY <1>1, <2>1 DEF Composed
    <2>3. [out[Current] EXCEPT !.info = TRUE] = Described(Current)
      BY <2>2, InfoSet DEF Described
    <2>4. out' = [out EXCEPT ![Current] = Described(Current)]
      BY <2>1, <2>3, Zenon
    <2>5. out'[Current] = Described(Current)
      BY <1>2, <2>4 DEF BuildShape, Files
    <2>6. Place' /\ Collected'
      BY <1>1, <1>3, <2>1 DEF Place, Collected
    <2>7. Composed'
      BY <1>1, <1>4, <2>1, <2>5 DEF Composed
    <2> QED
      BY <1>1, <2>1, <2>4, <2>6, <2>7, FileStep DEF Inner
  <1>6. CASE Sign
    <2>1. /\ stage' = (IF Current \in ToSet(Reports) THEN "post-render" ELSE "next")
          /\ stage = "sign" /\ out' = [out EXCEPT ![Current].signature = Current \in Signed]
      BY <1>6 DEF Sign, AfterSign
    <2>2. out[Current] = Described(Current) /\ (Current \in ToSet(Reports) => Current \in graph)
      BY <1>1, <2>1 DEF Composed
    <2>3. [out[Current] EXCEPT !.signature = (Current \in Signed)] = Finished(Current)
      <3>1. [out[Current] EXCEPT !.signature = (Current \in Signed)]
            = [parts |-> PartsAsked(Current), info |-> TRUE, signature |-> Current \in Signed]
        <4> DEFINE s == Current \in Signed
        <4>1. s \in BOOLEAN
          OBVIOUS
        <4> HIDE DEF s
        <4>2. [out[Current] EXCEPT !.signature = s]
              = [parts |-> PartsAsked(Current), info |-> TRUE, signature |-> s]
          BY <2>2, <4>1, SignatureSet DEF Described
        <4> QED
          BY <4>2 DEF s
      <3>2. Finished(Current)
            = [parts |-> PartsAsked(Current), info |-> TRUE, signature |-> Current \in Signed]
        BY <1>3 DEF Finished
      <3> QED
        BY <3>1, <3>2, Zenon
    <2>4. out' = [out EXCEPT ![Current] = Finished(Current)]
      BY <2>1, <2>3, Zenon
    <2>5. out'[Current] = Finished(Current)
      BY <1>2, <2>4 DEF BuildShape, Files
    <2>6. Place' /\ Collected'
      BY <1>1, <1>3, <2>1 DEF Place, Collected
    <2>7. Composed'
      BY <1>1, <1>4, <2>1, <2>2, <2>5 DEF Composed
    <2> QED
      BY <1>1, <2>1, <2>4, <2>6, <2>7, FileStep DEF Inner
  <1> QED
    BY <1>5, <1>6

\* The steps of a screenshot.
LEMMA ShotStep ==
  ASSUME DeliverInv, RenderScreenshotHTML \/ Capture
  PROVE  DeliverInv'
  <1> USE DEF Step, Keep, KeepFiles, KeepTemps
  <1>1. /\ Running /\ Running' /\ Current' = Current
        /\ UNCHANGED <<manifest, todo, turn, result, log, temp, graph, handed>>
        /\ stage \in {"shot", "capture"} /\ Place
    BY DEF RenderScreenshotHTML, Capture, DeliverInv, Running, Current
  <1>2. Current \in Artefacts /\ BuildShape
    BY <1>1, CurrentIs DEF DeliverInv, Courses, Inner
  <1>3. Current \in ToSet(Shots) /\ Current \notin ToSet(Reports) /\ Current \notin Signed
    BY <1>1, KindsAssumption, SignedAssumption DEF Place
  <1>4. CASE RenderScreenshotHTML
    <2>1. UNCHANGED <<out, missed>> /\ stage' = "capture"
      BY <1>4 DEF RenderScreenshotHTML
    <2>2. Place' /\ Collected' /\ Composed'
      BY <1>1, <1>3, <2>1 DEF Place, Collected, Composed
    <2> QED
      BY <1>1, <2>1, <2>2, PassStep DEF Inner
  <1>5. CASE Capture
    <2>1. stage' = "next"
      BY <1>5 DEF Capture
    <2>2. Place' /\ Collected' /\ Composed'
      BY <2>1 DEF Place, Collected, Composed
    <2>3. CASE out' = [out EXCEPT ![Current] = Printed(<<"image">>)] /\ UNCHANGED missed
      <3>1. Finished(Current) = Printed(<<"image">>)
        <4>1. PartsAsked(Current) = <<"image">>
          BY <1>3 DEF PartsAsked
        <4>2. (Current \notin ToSet(Shots)) = FALSE /\ (Current \in Signed) = FALSE
          BY <1>3
        <4> QED
          BY <4>1, <4>2, Zenon DEF Finished, Printed
      <3> QED
        BY <1>1, <1>3, <2>1, <2>2, <2>3, <3>1, FileStep DEF Inner
    <2>4. CASE missed' = missed \cup {Current} /\ UNCHANGED out
      <3>1. BuildShape'
        BY <1>1, <1>2, <1>3, <2>4 DEF BuildShape, Files
      <3>2. \A a : a = Current => Complete(a)'
        BY <1>3, <2>4 DEF Complete
      <3>3. Complete(Current)'
        BY <1>1, <3>2
      <3> QED
        BY <1>1, <2>1, <2>2, <2>4, <3>1, <3>3, InnerStep DEF Inner
    <2> QED
      BY <1>5, <2>3, <2>4 DEF Capture
  <1> QED
    BY <1>4, <1>5

\* The body of a document goes to a file of its own between the covers, or is
\* the document.
LEMMA BodyStep ==
  ASSUME DeliverInv, Running, stage \in {"print", "merge"}, stage' = AfterBody,
         Current \in ToSet(Documents), WriteBody(Body(Current)),
         UNCHANGED <<manifest, todo, turn, result, graph, missed, handed, log>>
  PROVE  DeliverInv'
  <1>1. Current' = Current /\ Running' /\ Place /\ Collected
    BY DEF Current, Running, DeliverInv
  <1>2. Current \in Artefacts /\ BuildShape
    BY CurrentIs DEF DeliverInv, Courses, Inner
  <1>3. Current \notin ToSet(Reports)
    BY KindsAssumption
  <1>4. \A a : PartsAsked(a)' = PartsAsked(a) /\ Body(a)' = Body(a)
    BY AskedKept DEF Body
  <1>5. CASE Current \in WithCovers
    <2>1. stage' = "covers" /\ UNCHANGED out
      BY <1>5 DEF AfterBody, WriteBody
    <2>2. Holds("front", <<"front">>)' /\ Holds("back", <<"back">>)'
      BY <1>1, <1>5 DEF WriteBody, Holds, Existing, Collected
    <2>3. Holds("body", Body(Current))'
      <3>1. Existing' = {"front", "back", "body"} /\ temp'["body"] = Body(Current)
        BY <1>5 DEF WriteBody, Existing
      <3>2. \A a : a = Current => Holds("body", Body(a))'
        BY <1>4, <3>1 DEF Holds
      <3> QED
        BY <1>1, <3>2
    <2>4. Collected'
      BY <2>1, <2>2, <2>3 DEF Collected
    <2>5. Place' /\ Composed'
      BY <1>1, <1>5, <2>1 DEF Place, Composed
    <2> QED
      BY <2>1, <2>4, <2>5, PassStep DEF Inner
  <1>6. CASE Current \notin WithCovers
    <2>1. /\ stage' = "info"
          /\ out' = [out EXCEPT ![Current] = Printed(PartsAsked(Current))]
      BY <1>6, PartsIs DEF AfterBody, WriteBody
    <2>2. out'[Current] = Printed(PartsAsked(Current))
      BY <1>2, <2>1 DEF BuildShape, Files
    <2>3. Place' /\ Collected'
      BY <1>1, <2>1 DEF Place, Collected
    <2>4. Composed'
      BY <1>1, <1>4, <2>1, <2>2 DEF Composed, Printed
    <2> QED
      BY <2>1, <2>3, <2>4, FileStep DEF Inner
  <1> QED
    BY <1>5, <1>6

\* The steps of a document.
LEMMA DocumentStep ==
  ASSUME DeliverInv,
         \/ FrontCover \/ BackCover \/ PrintDocument \/ PrintContent \/ PrintToc
         \/ MergeToc \/ MergeCovers
  PROVE  DeliverInv'
  <1> USE DEF Step, Keep, KeepFiles, KeepTemps
  <1>1. /\ Running /\ Running' /\ Current' = Current
        /\ UNCHANGED <<manifest, todo, turn, result, log, graph, missed, handed>>
        /\ stage \in Inner /\ Place /\ Collected
    BY DEF FrontCover, BackCover, PrintDocument, PrintContent, PrintToc, MergeToc, MergeCovers,
           DeliverInv, Running, Current, Inner
  <1>2. Current \in Artefacts /\ BuildShape
    BY <1>1, CurrentIs DEF DeliverInv, Courses
  <1>3. /\ Current \in ToSet(Documents) /\ Current \notin ToSet(Reports)
        /\ Current \notin ToSet(Shots)
    <2>1. Current \in ToSet(Documents)
      BY <1>1, KindsAssumption DEF FrontCover, BackCover, PrintDocument, PrintContent, PrintToc,
             MergeToc, MergeCovers, Place
    <2> QED
      BY <2>1, KindsAssumption
  <1>4. CASE FrontCover
    <2>1. /\ stage = "front" /\ stage' = "back" /\ UNCHANGED out /\ Write("front", <<"front">>)
      BY <1>4 DEF FrontCover
    <2>2. Holds("front", <<"front">>)'
      BY <2>1 DEF Write, Holds, Existing
    <2>3. Place' /\ Collected' /\ Composed'
      BY <1>1, <1>3, <2>1, <2>2 DEF Place, Collected, Composed
    <2> QED
      BY <1>1, <2>1, <2>3, PassStep DEF Inner
  <1>5. CASE BackCover
    <2>1. /\ stage = "back" /\ stage' = AfterCovers /\ UNCHANGED out
          /\ temp' = [t \in {"front", "back", "body"} |->
                        IF t = "back" THEN <<"back">> ELSE IF t = "front" THEN temp[t] ELSE <<>>]
      BY <1>5 DEF BackCover
    <2>2. Holds("front", <<"front">>)' /\ Holds("back", <<"back">>)'
      BY <1>1, <2>1 DEF Holds, Existing, Collected
    <2>3. Place' /\ Collected' /\ Composed'
      BY <1>1, <1>3, <2>1, <2>2 DEF AfterCovers, Place, Collected, Composed
    <2> QED
      BY <1>1, <2>1, <2>3, PassStep DEF Inner, AfterCovers
  <1>6. CASE PrintContent
    <2>1. /\ stage = "content" /\ stage' = "toc" /\ UNCHANGED out
          /\ Write("content", <<"content">>)
      BY <1>6 DEF PrintContent
    <2>2. /\ Holds("content", <<"content">>)'
          /\ Current \in WithCovers =>
               Holds("front", <<"front">>)' /\ Holds("back", <<"back">>)'
      BY <1>1, <2>1 DEF Write, Holds, Existing, Collected
    <2>3. Place' /\ Collected' /\ Composed'
      BY <1>1, <1>3, <2>1, <2>2 DEF Place, Collected, Composed
    <2> QED
      BY <1>1, <2>1, <2>3, PassStep DEF Inner
  <1>7. CASE PrintToc
    <2>1. /\ stage = "toc" /\ stage' = "merge" /\ UNCHANGED out /\ Write("toc", <<"toc">>)
      BY <1>7 DEF PrintToc
    <2>2. /\ Holds("content", <<"content">>)' /\ Holds("toc", <<"toc">>)'
          /\ Current \in WithCovers =>
               Holds("front", <<"front">>)' /\ Holds("back", <<"back">>)'
      BY <1>1, <2>1 DEF Write, Holds, Existing, Collected
    <2>3. Place' /\ Collected' /\ Composed'
      BY <1>1, <1>3, <2>1, <2>2 DEF Place, Collected, Composed
    <2> QED
      BY <1>1, <2>1, <2>3, PassStep DEF Inner
  <1>8. CASE PrintDocument
    <2>1. /\ stage = "print" /\ stage' = AfterBody /\ WriteBody(<<"content">>)
      BY <1>8 DEF PrintDocument
    <2>2. Body(Current) = <<"content">>
      BY <1>1, <1>3, <2>1 DEF Place, Body
    <2> QED
      BY <1>1, <1>3, <2>1, <2>2, BodyStep
  <1>9. CASE MergeToc
    <2>1. /\ stage = "merge" /\ stage' = AfterBody /\ WriteBody(temp["toc"] \o temp["content"])
      BY <1>9 DEF MergeToc
    <2>2. Body(Current) = temp["toc"] \o temp["content"]
      BY <1>1, <2>1 DEF Place, Collected, Holds, Body
    <2> QED
      BY <1>1, <1>3, <2>1, <2>2, BodyStep
  <1>10. CASE MergeCovers
    <2>1. /\ stage = "covers" /\ stage' = "info"
          /\ out' = [out EXCEPT ![Current] =
                       Printed(temp["front"] \o temp["body"] \o temp["back"])]
      BY <1>10 DEF MergeCovers
    <2>2. temp["front"] \o temp["body"] \o temp["back"] = PartsAsked(Current)
      BY <1>1, <1>3, <2>1, PartsIs DEF Place, Collected, Holds
    <2>3. out' = [out EXCEPT ![Current] = Printed(PartsAsked(Current))]
      BY <2>1, <2>2
    <2>4. out'[Current] = Printed(PartsAsked(Current))
      BY <1>2, <2>3 DEF BuildShape, Files
    <2>5. Place' /\ Collected'
      BY <1>1, <1>3, <2>1 DEF Place, Collected
    <2>6. Composed'
      <3>1. \A a : PartsAsked(a)' = PartsAsked(a)
        BY <1>1, AskedKept
      <3> QED
        BY <1>1, <2>1, <2>4, <3>1 DEF Composed, Printed
    <2> QED
      BY <1>1, <2>1, <2>3, <2>5, <2>6, FileStep DEF Inner
  <1> QED
    BY <1>4, <1>5, <1>6, <1>7, <1>8, <1>9, <1>10

\* The artefacts are selected, and begun one after another.
LEMMA CourseStep ==
  ASSUME DeliverInv, Load \/ PreBuild \/ Begin \/ PostBuild
  PROVE  DeliverInv'
  <1> USE DEF Step, Keep, KeepFiles, KeepTemps
  <1>1. /\ Running /\ Running' /\ UNCHANGED <<result, out, graph, missed, handed, log, temp>>
        /\ BuildShape /\ Courses /\ Untouched /\ Behind /\ Logged
    BY DEF Load, PreBuild, Begin, PostBuild, DeliverInv, Running
  <1>2. log = log' /\ \A j \in DOMAIN log : FALSE
    BY <1>1 DEF Logged, Running
  <1>3. Logged'
    BY <1>2 DEF Logged
  <1>4. CASE Load
    <2>1. PICK m \in Manifests : manifest' = m /\ todo' = Selected(m)
      BY <1>4 DEF Load
    <2>2. stage' = "pre-build" /\ turn = 0 /\ turn' = 0
      BY <1>1, <1>4 DEF Load, Courses
    <2>3. todo' \in Seq(Artefacts) /\ ToSet(todo') = Asked(manifest') /\ Len(todo') \in Nat
      BY <2>1, SelectedIs
    <2>4. BuildShape' /\ Courses'
      BY <1>1, <2>1, <2>2, <2>3 DEF BuildShape, Files, Courses, Running, Inner
    <2>5. Untouched' /\ Behind'
      BY <1>1, <2>2 DEF Untouched, Behind
    <2>6. Place' /\ Collected' /\ Composed'
      BY <2>2 DEF Place, Collected, Composed
    <2> QED
      BY <1>3, <2>4, <2>5, <2>6 DEF DeliverInv
  <1>5. CASE PreBuild \/ PostBuild
    <2>1. /\ UNCHANGED <<manifest, todo, turn>> /\ stage \notin Inner
          /\ stage \in {"pre-build", "next"} /\ stage' \in {"next", "log"}
          /\ stage' = "log" => turn = Len(todo)
      BY <1>5 DEF PreBuild, PostBuild, Inner
    <2>2. BuildShape' /\ Courses'
      BY <1>1, <2>1 DEF BuildShape, Files, Courses, Running, Inner
    <2>3. Untouched'
      BY <1>1, <2>1 DEF Untouched
    <2>4. Behind'
      <3> SUFFICES ASSUME NEW j \in 1 .. turn PROVE Complete(todo[j])'
        BY <2>1 DEF Behind
      <3>1. Complete(todo[j])
        BY <1>1, <2>1 DEF Behind
      <3>2. \A a : a = todo[j] => Complete(a)'
        BY <1>1, <2>1, <3>1, CompleteKept
      <3>3. todo'[j] = todo[j]
        BY <2>1
      <3> QED
        BY <3>2, <3>3
    <2>5. Place' /\ Collected' /\ Composed'
      BY <2>1 DEF Place, Collected, Composed
    <2> QED
      BY <1>3, <2>2, <2>3, <2>4, <2>5 DEF DeliverInv
  <1>6. CASE Begin
    <2>1. /\ UNCHANGED <<manifest, todo>> /\ stage = "next"
          /\ turn < Len(todo) /\ turn' = turn + 1 /\ stage' = FirstStage(Current')
      BY <1>6 DEF Begin, Current
    <2>2. turn \in Nat /\ Len(todo) \in Nat /\ turn' \in 1 .. Len(todo)
      BY <1>1, <2>1 DEF BuildShape
    <2>3. stage' \in {"datasource", "shot", "front", "content", "print"}
      BY <2>1 DEF FirstStage
    <2>4. Current' \in Artefacts
      BY <1>1, <2>1, <2>2 DEF BuildShape, Current
    <2>5. BuildShape' /\ Courses'
      BY <1>1, <2>1, <2>2, <2>3 DEF BuildShape, Files, Courses, Running, Inner, Building
    <2>6. Untouched'
      <3>1. \A j \in 1 .. turn : j \in 1 .. turn'
        BY <2>1, <2>2
      <3> QED
        BY <1>1, <2>1, <3>1 DEF Untouched
    <2>7. Behind'
      <3> SUFFICES ASSUME NEW j \in 1 .. turn'
                   PROVE  Complete(todo[j])' \/ todo'[j] = Current'
        BY <1>1, <2>3 DEF Behind, Inner
      <3>1. CASE j = turn'
        BY <3>1 DEF Current
      <3>2. CASE j # turn'
        <4>1. j \in 1 .. turn
          BY <2>1, <2>2, <3>2
        <4>2. Complete(todo[j])
          BY <1>1, <2>1, <4>1 DEF Behind, Inner
        <4>3. \A a : a = todo[j] => Complete(a)'
          BY <1>1, <2>1, <4>2, CompleteKept
        <4>4. todo'[j] = todo[j]
          BY <2>1
        <4> QED
          BY <4>3, <4>4
      <3> QED
        BY <3>1, <3>2
    <2>8. Place'
      <3>1. Current' \in ToSet(Reports) \cup ToSet(Shots) \cup ToSet(Documents)
        BY <2>4 DEF Artefacts
      <3> QED
        BY <2>1, <3>1, KindsAssumption DEF FirstStage, Place
    <2>9. Collected' /\ Composed'
      <3>1. /\ stage' = "print" => Current' \notin WithCovers /\ Current' \notin ToSet(Reports)
            /\ stage' = "content" => Current' \notin WithCovers
        BY <2>1 DEF FirstStage
      <3> QED
        BY <2>3, <3>1 DEF Collected, Composed
    <2> QED
      BY <1>3, <2>5, <2>6, <2>7, <2>8, <2>9 DEF DeliverInv
  <1> QED
    BY <1>4, <1>5, <1>6

\* The build ends; only a build that came to its end reports success.
LEMMA EndStep ==
  ASSUME DeliverInv, WriteBuildLog \/ RenderInvalid \/ Fail \/ ShutdownAll
  PROVE  DeliverInv'
  <1> USE DEF Step, Keep, KeepFiles, KeepTemps
  <1>1. /\ UNCHANGED <<manifest, todo, turn, out, graph, missed, handed>> /\ ~Running'
        /\ BuildShape /\ Courses /\ Untouched /\ Behind /\ Logged
    BY DEF WriteBuildLog, RenderInvalid, Fail, ShutdownAll, DeliverInv, Running
  <1>2. BuildShape' /\ Untouched'
    BY <1>1 DEF BuildShape, Files, Untouched
  <1>3. Place' /\ Collected' /\ Composed'
    BY <1>1 DEF Place, Collected, Composed
  <1>4. result' = "ok" => result = "ok" \/ (Running /\ stage = "log")
    BY DEF WriteBuildLog, RenderInvalid, Fail, ShutdownAll
  <1>5. Behind'
    <2> SUFFICES ASSUME result' = "ok", NEW j \in 1 .. turn PROVE Complete(todo[j])'
      BY <1>1 DEF Behind
    <2>1. Complete(todo[j])
      BY <1>1, <1>4 DEF Behind, Running, Inner
    <2>2. \A a : a = todo[j] => Complete(a)'
      BY <1>1, <2>1, CompleteKept
    <2>3. todo'[j] = todo[j]
      BY <1>1
    <2> QED
      BY <2>2, <2>3
  <1>6. Courses'
    BY <1>1 DEF WriteBuildLog, RenderInvalid, Fail, ShutdownAll, Courses, Inner, Running, Asked
  <1>7. CASE WriteBuildLog
    <2> DEFINE K == {j \in DOMAIN todo : todo[j] \notin ToSet(Shots)}
    <2>1. result' = "ok" /\ log' \in {None, Listed(todo, K)} /\ turn = Len(todo)
      BY <1>1, <1>7 DEF WriteBuildLog, Courses
    <2>2. ToSet(Listed(todo, K)) = {todo[i] : i \in K}
      BY <1>1, ListedIs DEF BuildShape
    <2>3. \A j \in DOMAIN log' : \E i \in K : log'[j] = todo[i]
      <3>1. CASE log' = None
        BY <3>1, NoTemps DEF None
      <3>2. CASE log' = Listed(todo, K)
        BY <2>2, <3>2 DEF ToSet
      <3> QED
        BY <2>1, <3>1, <3>2
    <2>4. DOMAIN todo = 1 .. turn
      BY <1>1, <2>1 DEF BuildShape
    <2>5. Logged'
      BY <1>1, <2>1, <2>3, <2>4 DEF Logged
    <2> QED
      BY <1>2, <1>3, <1>5, <1>6, <2>5 DEF DeliverInv
  <1>8. CASE RenderInvalid \/ Fail \/ ShutdownAll
    <2>1. UNCHANGED log /\ (result = "ok" => result' = "ok")
      BY <1>8 DEF RenderInvalid, Fail, ShutdownAll, Running
    <2>2. Logged'
      BY <1>1, <2>1 DEF Logged
    <2> QED
      BY <1>2, <1>3, <1>5, <1>6, <2>2 DEF DeliverInv
  <1> QED
    BY <1>7, <1>8

\* The context is cancelled, or a plugin calls.
LEMMA OtherStep ==
  ASSUME DeliverInv,
         UNCHANGED <<manifest, todo, turn, stage, out, graph, missed, temp, handed, log, result>>
  PROVE  DeliverInv'
  <1>1. /\ BuildShape' /\ Courses' /\ Untouched' /\ Logged' /\ Place' /\ Collected'
    BY DEF DeliverInv, BuildShape, Files, Courses, Untouched, Logged, Place, Collected,
           Running, Building, Current, Holds, Existing, Body, Asked
  <1>2. \A a : /\ PartsAsked(a)' = PartsAsked(a) /\ Finished(a)' = Finished(a)
               /\ Described(a)' = Described(a)
    BY AskedKept
  <1>3. Composed'
    BY <1>2 DEF DeliverInv, Composed, Running, Current, Printed
  <1>4. \A a : Complete(a) => Complete(a)'
    BY CompleteKept
  <1>5. Behind'
    <2> SUFFICES ASSUME Running \/ result = "ok", NEW j \in 1 .. turn
                 PROVE  Complete(todo[j])' \/ (Running /\ stage \in Inner /\ todo[j] = Current)
      BY DEF Behind, Running, Current
    <2>1. Complete(todo[j]) \/ (Running /\ stage \in Inner /\ todo[j] = Current)
      BY DEF DeliverInv, Behind
    <2>2. todo'[j] = todo[j]
      OBVIOUS
    <2> QED
      BY <1>4, <2>1, <2>2
  <1> QED
    BY <1>1, <1>3, <1>5 DEF DeliverInv

\* One lemma above for each group of steps.
LEMMA DeliverStep ==
  ASSUME PagesRight, DeliverInv, [Next]_vars
  PROVE  DeliverInv'
  <1>1. CASE Load \/ PreBuild \/ Begin \/ PostBuild
    BY <1>1, CourseStep
  <1>2. CASE \/ PreDatasource \/ RenderArtefactHTML \/ PreRender \/ PrintReport
             \/ WriteGraphReport \/ PostRender
    BY <1>2, ReportStep
  <1>3. CASE SetPDFInfo \/ Sign
    BY <1>3, FinishStep
  <1>4. CASE RenderScreenshotHTML \/ Capture
    BY <1>4, ShotStep
  <1>5. CASE \/ FrontCover \/ BackCover \/ PrintDocument \/ PrintContent \/ PrintToc
             \/ MergeToc \/ MergeCovers
    BY <1>5, DocumentStep
  <1>6. CASE WriteBuildLog \/ RenderInvalid \/ Fail \/ ShutdownAll
    BY <1>6, EndStep
  <1>7. CASE Cancel \/ PluginCall \/ UNCHANGED vars
    <2>1. UNCHANGED <<manifest, todo, turn, stage, out, graph, missed, temp, handed, log, result>>
      BY <1>7 DEF Cancel, PluginCall, vars, buildVars, Keep, KeepFiles, KeepTemps
    <2> QED
      BY <2>1, OtherStep
  <1> QED
    BY <1>1, <1>2, <1>3, <1>4, <1>5, <1>6, <1>7 DEF Next, BuildStep

LEMMA DeliverGood == DeliverInv => Delivered
  <1> SUFFICES ASSUME DeliverInv PROVE Delivered
    OBVIOUS
  <1>1. ASSUME result = "ok", NEW a \in Artefacts
        PROVE  IF a \in Asked(manifest)
                 THEN /\ out[a] = Finished(a) \/ a \in missed
                      /\ a \in ToSet(Reports) => handed[a] = out[a] /\ a \in graph
                 ELSE out[a] = NoFile
    <2>1. /\ ToSet(todo) = Asked(manifest) /\ turn = Len(todo) /\ todo \in Seq(Artefacts)
      BY <1>1 DEF DeliverInv, Courses, BuildShape
    <2>2. \A b : b \in Asked(manifest) <=> \E j \in 1 .. turn : todo[j] = b
      BY <2>1 DEF ToSet
    <2>3. \A j \in 1 .. turn : Complete(todo[j])
      BY <1>1 DEF DeliverInv, Behind, Running
    <2>4. CASE a \in Asked(manifest)
      BY <2>2, <2>3, <2>4 DEF Complete
    <2>5. CASE a \notin Asked(manifest)
      BY <2>2, <2>5 DEF DeliverInv, Untouched
    <2> QED
      BY <2>4, <2>5
  <1>2. ASSUME NEW j \in DOMAIN log PROVE out[log[j]] = Finished(log[j])
    <2>1. result = "ok" /\ log[j] \notin ToSet(Shots)
      BY DEF DeliverInv, Logged
    <2>2. PICK k \in 1 .. turn : log[j] = todo[k]
      BY DEF DeliverInv, Logged
    <2>3. Complete(todo[k])
      BY <2>1 DEF DeliverInv, Behind, Running
    <2> QED
      BY <2>1, <2>2, <2>3 DEF Complete, DeliverInv, BuildShape
  <1> QED
    BY <1>1, <1>2 DEF Delivered

\* A build that reports success has written what was asked for, in its final
\* form, and nothing else; its hooks and its log tell of finished files only
\* (buildAllArtefacts and the loops it runs).  Which pages a report has is a
\* matter of the selection and of the renderer's format filter alone, whose
\* result PagesRight states.
THEOREM BuildDelivered == PagesRight => (Spec => []Delivered)
  <1> SUFFICES ASSUME PagesRight PROVE Spec => []Delivered
    OBVIOUS
  <1>1. DeliverInv /\ [Next]_vars => DeliverInv'
    BY DeliverStep
  <1> QED
    BY DeliverInit, DeliverGood, <1>1, PTL DEF Spec
=============================================================================
