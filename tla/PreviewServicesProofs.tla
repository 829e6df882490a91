------------------------ MODULE PreviewServicesProofs -----------------------
(* Invariants of what shares the refresh state, for every number of          *)
(* concurrent requests, targets, languages, saves, rebuilds and refreshes.   *)
EXTENDS PreviewServices, TLAPS

-----------------------------------------------------------------------------
(* Types.                                                                    *)

LEMMA NoDocsType == NoDocs \in Snapshots
  BY ConstantsAssumption DEF NoDocs, Snapshots, Versions

LEMMA SourceVersion == \A c \in Snapshots : c[Source] \in Versions
  BY DEF Snapshots, Docs

LEMMA ResolveType ==
    ASSUME NEW t \in Targets, NEW c \in Snapshots, NEW a \in Snapshots
    PROVE  Resolve(t, c, a) \in Versions
  BY DEF Resolve, Snapshots, Docs

LEMMA EditVersion ==
    ASSUME TypeOK, edits < MaxEdits
    PROVE  edits + 1 \in 0 .. MaxEdits /\ edits + 2 \in Versions
  BY ConstantsAssumption DEF TypeOK, Versions

\* A dataset run registers versions of the source.
LEMMA RegisterType ==
    ASSUME TypeOK, NEW v \in Versions, NEW s, Register(v, s)
    PROVE  scratch' \subseteq Versions /\ view' \in Versions
  BY DEF TypeOK, Register

LEMMA CleanupType ==
    ASSUME TypeOK, NEW s, Cleanup(s)
    PROVE  scratch' \subseteq Versions /\ view' \in Versions
  BY DEF TypeOK, Cleanup

LEMMA DisturbsType ==
    ASSUME NEW s, Disturbs(s), disturbed \in BOOLEAN
    PROVE  disturbed' \in BOOLEAN
  BY Zenon DEF Disturbs

LEMMA TypeInit == Init => TypeOK
  <1> SUFFICES ASSUME Init PROVE TypeOK
    OBVIOUS
  <1>1. NoDocs \in Snapshots /\ [d \in Docs |-> 1] \in Snapshots
    BY NoDocsType, ConstantsAssumption DEF Snapshots, Versions
  <1>2. DOMAIN cache = {}
    BY DEF Init, NoCache
  <1>3. 1 \in Builds /\ 0 \in Versions /\ 0 \in 0 .. MaxRefreshes /\ 0 \in 0 .. MaxEdits
    BY ConstantsAssumption DEF Builds, Versions
  <1>4. explorer \in [pc : {"starting", "fill", "on"}, docs : Snapshots]
    BY <1>1 DEF Init
  <1>5. /\ job \in [{"loop", "pdf"} ->
                     [pc : {"register", "query"}, version : Versions] \cup {Idle}]
        /\ \A j \in {"loop", "pdf"} : job[j].pc # "idle" <=> mutex = j
    BY DEF Init, Idle
  <1>6. request \in [Handlers -> Requests \cup {Idle}]
    BY DEF Init
  <1>7. disturbed \in BOOLEAN
    BY Zenon DEF Init
  <1>8. health \in Healths
    BY DEF Init, Healths
  <1>9. generation \in 0 .. refreshes
    BY DEF Init
  <1>10. mutex \in {"free", "loop", "pdf"} /\ failed \in BOOLEAN
    BY DEF Init
  <1> QED
    BY <1>1, <1>2, <1>3, <1>4, <1>5, <1>6, <1>7, <1>8, <1>9, <1>10
    DEF Init, TypeOK

LEMMA TypeNext == TypeOK /\ [Next]_vars => TypeOK'
  <1> SUFFICES ASSUME TypeOK, [Next]_vars PROVE TypeOK'
    OBVIOUS
  <1> USE ConstantsAssumption
  <1>1. ASSUME NEW d \in Docs, Save(d) PROVE TypeOK'
    <2>1. disk' \in Snapshots /\ edits' \in 0 .. MaxEdits
      BY <1>1, EditVersion DEF Save, TypeOK, Snapshots
    <2> QED
      BY <1>1, <2>1 DEF Save, TypeOK, stateVars, loopVars, dataVars
  <1>2. ASSUME RebuildPlugin PROVE TypeOK'
    <2>1. build' \in Builds
      BY <1>2 DEF RebuildPlugin, TypeOK, Builds
    <2> QED
      BY <1>2, <2>1 DEF RebuildPlugin, TypeOK, stateVars, loopVars, dataVars
  <1>3. ASSUME NEW d \in Docs, SetLiveOverride(d) PROVE TypeOK'
    <2>1. overrides' \in Snapshots /\ edits' \in 0 .. MaxEdits
      BY <1>3, EditVersion DEF SetLiveOverride, TypeOK, Snapshots
    <2> QED
      BY <1>3, <2>1
      DEF SetLiveOverride, TypeOK, diskVars, stateVars, loopVars, dataVars
  <1>4. ASSUME NEW d \in Docs, ClearLiveOverride(d) PROVE TypeOK'
    <2>1. overrides' \in Snapshots
      BY <1>4 DEF ClearLiveOverride, TypeOK, Snapshots, Versions
    <2> QED
      BY <1>4, <2>1
      DEF ClearLiveOverride, TypeOK, diskVars, stateVars, loopVars, dataVars
  <1>5. ASSUME RefreshStart PROVE TypeOK'
    <2>1. refreshes' \in 0 .. MaxRefreshes /\ refreshes' = refreshes + 1
      BY <1>5 DEF RefreshStart, TypeOK
    <2>2. plugin' \in Builds /\ snapped' \in Builds /\ mutex = "free"
      BY <1>5 DEF RefreshStart, TypeOK
    <2>3. lastDocs' \in Snapshots /\ artefacts' \in Snapshots /\ failed' \in BOOLEAN
      BY <1>5 DEF RefreshStart, TypeOK, stateVars
    <2>4. explorer' \in [pc : {"starting", "fill", "on"}, docs : Snapshots]
      BY <1>5 DEF RefreshStart, TypeOK
    <2>5. generation' \in 0 .. refreshes' /\ DOMAIN cache' \subseteq Keys
          /\ \A k \in DOMAIN cache' : cache'[k] \in Bodies
      <3>1. CASE UNCHANGED <<cache, generation>>
        BY <3>1, <2>1 DEF TypeOK
      <3>2. CASE Invalidate
        <4>1. DOMAIN cache' = {} /\ generation' = generation + 1
          BY <3>2 DEF Invalidate, NoCache
        <4> QED
          BY <4>1, <2>1 DEF TypeOK
      <3> QED
        BY <1>5, <3>1, <3>2 DEF RefreshStart, stateVars
    <2>6. /\ job' \in [{"loop", "pdf"} ->
                       [pc : {"register", "query"}, version : Versions] \cup {Idle}]
          /\ mutex' \in {"free", "loop", "pdf"}
          /\ \A j \in {"loop", "pdf"} : job'[j].pc # "idle" <=> mutex' = j
      <3>1. CASE UNCHANGED <<mutex, job>>
        BY <3>1 DEF TypeOK
      <3>2. CASE /\ mutex' = "loop"
                 /\ job' = [job EXCEPT !["loop"] =
                              [pc |-> "register", version |-> disk[Source]]]
        <4>1. disk[Source] \in Versions
          BY SourceVersion DEF TypeOK
        <4> QED
          BY <3>2, <4>1, <2>2 DEF TypeOK
      <3> QED
        BY <1>5, <3>1, <3>2 DEF RefreshStart
    <2> QED
      BY <1>5, <2>1, <2>2, <2>3, <2>4, <2>5, <2>6
      DEF RefreshStart, TypeOK, diskVars, dataVars
  <1>6. ASSUME PdfStart PROVE TypeOK'
    <2>1. disk[Source] \in Versions
      BY SourceVersion DEF TypeOK
    <2>2. /\ job' \in [{"loop", "pdf"} ->
                       [pc : {"register", "query"}, version : Versions] \cup {Idle}]
          /\ mutex' \in {"free", "loop", "pdf"}
          /\ \A j \in {"loop", "pdf"} : job'[j].pc # "idle" <=> mutex' = j
      BY <1>6, <2>1 DEF PdfStart, PdfLock, TypeOK
    <2> QED
      BY <1>6, <2>2
      DEF PdfStart, TypeOK, diskVars, stateVars, loopVars, dataVars
  <1>7. ASSUME NEW j \in {"loop", "pdf"}, RunRegister(j) PROVE TypeOK'
    <2>1. job[j] \in [pc : {"register", "query"}, version : Versions]
      BY <1>7 DEF RunRegister, TypeOK, Idle
    <2>2. /\ scratch' \subseteq Versions /\ view' \in Versions
          /\ disturbed' \in BOOLEAN
      BY <1>7, <2>1, RegisterType DEF RunRegister
    <2>3. /\ job' \in [{"loop", "pdf"} ->
                       [pc : {"register", "query"}, version : Versions] \cup {Idle}]
          /\ \A i \in {"loop", "pdf"} : job'[i].pc # "idle" <=> mutex' = i
      BY <1>7, <2>1 DEF RunRegister, TypeOK
    <2> QED
      BY <1>7, <2>2, <2>3
      DEF RunRegister, TypeOK, diskVars, stateVars, loopVars
  <1>8. ASSUME NEW j \in {"loop", "pdf"}, RunQuery(j) PROVE TypeOK'
    <2>1. job[j] \in [pc : {"register", "query"}, version : Versions] /\ mutex = j
      BY <1>8 DEF RunQuery, TypeOK, Idle
    <2>2. /\ scratch' \subseteq Versions /\ view' \in Versions
          /\ disturbed' \in BOOLEAN
      BY <1>8, CleanupType DEF RunQuery
    <2>3. /\ job' \in [{"loop", "pdf"} ->
                       [pc : {"register", "query"}, version : Versions] \cup {Idle}]
          /\ \A i \in {"loop", "pdf"} : job'[i].pc # "idle" <=> mutex' = i
          /\ mutex' = "free"
      BY <1>8, <2>1 DEF RunQuery, TypeOK, Unlock, Idle
    <2>4. failed' \in BOOLEAN
      BY <1>8 DEF RunQuery, TypeOK
    <2> QED
      BY <1>8, <2>2, <2>3, <2>4 DEF RunQuery, TypeOK, diskVars, stateVars
  <1>9. ASSUME NEW h \in Handlers, EmbedByName(h) PROVE TypeOK'
    <2>1. ASSUME NEW k \in Keys, Capture(h, k) PROVE TypeOK'
      <3>1. Resolve(k[1], lastDocs, artefacts) \in Versions
        BY ResolveType DEF TypeOK, Keys
      <3>2. [pc |-> "register", key |-> k, live |-> FALSE,
             target |-> Resolve(k[1], lastDocs, artefacts),
             docs |-> lastDocs, plugin |-> plugin,
             generation |-> generation] \in Requests
        BY <3>1 DEF TypeOK, Requests, Versions
      <3>3. request' \in [Handlers -> Requests \cup {Idle}]
        BY <2>1, <3>2 DEF Capture, TypeOK
      <3> QED
        BY <2>1, <3>3
        DEF Capture, TypeOK, diskVars, stateVars, loopVars, dataVars
    <2>2. ASSUME NEW k \in Keys, CaptureOverrides(h, k) PROVE TypeOK'
      <3>1. [pc |-> "load", key |-> k, live |-> TRUE,
             target |-> 0, docs |-> overrides, plugin |-> plugin,
             generation |-> generation] \in Requests
        BY DEF TypeOK, Requests, Versions
      <3>2. request' \in [Handlers -> Requests \cup {Idle}]
        BY <2>2, <3>1 DEF CaptureOverrides, TypeOK
      <3> QED
        BY <2>2, <3>2
        DEF CaptureOverrides, TypeOK, diskVars, stateVars, loopVars, dataVars
    <2>3. ASSUME LoadOverlay(h) PROVE TypeOK'
      <3> DEFINE docs == [d \in Docs |-> IF request[h].docs[d] # 0
                                           THEN request[h].docs[d] ELSE disk[d]]
      <3>1. request[h] \in Requests
        BY <2>3 DEF LoadOverlay, TypeOK, Idle
      <3>2. docs \in Snapshots
        BY <3>1 DEF TypeOK, Requests, Snapshots
      <3>3. docs[request[h].key[1]] \in Versions
        BY <3>1, <3>2 DEF Requests, Keys, Snapshots, Docs
      <3>4. [request[h] EXCEPT !.pc = "register", !.docs = docs,
                               !.target = docs[request[h].key[1]]] \in Requests
        BY <3>1, <3>2, <3>3 DEF Requests
      <3>5. \/ request' = [request EXCEPT ![h] = Idle]
            \/ request' = [request EXCEPT ![h] =
                             [request[h] EXCEPT !.pc = "register", !.docs = docs,
                                !.target = docs[request[h].key[1]]]]
        BY <2>3 DEF LoadOverlay
      <3> HIDE DEF docs
      <3>6. request' \in [Handlers -> Requests \cup {Idle}]
        BY <3>4, <3>5 DEF TypeOK
      <3> QED
        BY <2>3, <3>6
        DEF LoadOverlay, TypeOK, diskVars, stateVars, loopVars, dataVars
    <2>4. ASSUME EmbedRegister(h) PROVE TypeOK'
      <3>1. request[h] \in Requests
        BY <2>4 DEF EmbedRegister, TypeOK, Idle
      <3>2. request[h].docs[Source] \in Versions
        BY <3>1, SourceVersion DEF Requests
      <3>3. /\ scratch' \subseteq Versions /\ view' \in Versions
            /\ disturbed' \in BOOLEAN
        BY <2>4, <3>2, RegisterType, DisturbsType DEF EmbedRegister, TypeOK
      <3>4. request' \in [Handlers -> Requests \cup {Idle}]
        BY <2>4, <3>1 DEF EmbedRegister, TypeOK, Requests
      <3> QED
        BY <2>4, <3>3, <3>4
        DEF EmbedRegister, TypeOK, diskVars, stateVars, loopVars
    <2>5. ASSUME EmbedQuery(h) PROVE TypeOK'
      <3>1. request[h] \in Requests
        BY <2>5 DEF EmbedQuery, TypeOK, Idle
      <3>3. /\ scratch' \subseteq Versions /\ view' \in Versions
            /\ disturbed' \in BOOLEAN
        BY <2>5, CleanupType, DisturbsType DEF EmbedQuery, TypeOK
      <3>4. request' \in [Handlers -> Requests \cup {Idle}]
        BY <2>5, <3>1, <3>3 DEF EmbedQuery, TypeOK, Requests
      <3> QED
        BY <2>5, <3>3, <3>4 DEF EmbedQuery, TypeOK, diskVars, stateVars, loopVars
    <2>6. ASSUME Return(h) PROVE TypeOK'
      <3>1. request[h] \in Requests
        BY <2>6 DEF Return, TypeOK, Idle
      <3>2. Body(request[h]) \in Bodies
        BY <3>1 DEF Requests, Bodies, Body, Keys
      <3>3. DOMAIN cache' \subseteq Keys /\ \A k \in DOMAIN cache' : cache'[k] \in Bodies
        BY <2>6, <3>1, <3>2 DEF Return, TypeOK, Requests
      <3>4. request' \in [Handlers -> Requests \cup {Idle}]
        BY <2>6 DEF Return, TypeOK
      <3> QED
        BY <2>6, <3>3, <3>4 DEF Return, TypeOK, diskVars, loopVars, dataVars
    <2> QED
      BY <1>9, <2>1, <2>2, <2>3, <2>4, <2>5, <2>6 DEF EmbedByName
  <1>10. ASSUME Explorer PROVE TypeOK'
    <2>1. explorer' \in [pc : {"starting", "fill", "on"}, docs : Snapshots]
      BY <1>10 DEF Explorer, ExplorerDocs, ExplorerStore, TypeOK
    <2> QED
      BY <1>10, <2>1 DEF Explorer, ExplorerDocs, ExplorerStore, TypeOK, diskVars,
                         stateVars, loopVars, dataVars
  <1>11. CASE UNCHANGED vars
    BY <1>11 DEF vars, TypeOK, diskVars, stateVars, loopVars, dataVars
  <1> QED
    BY <1>1, <1>2, <1>3, <1>4, <1>5, <1>6, <1>7, <1>8, <1>9, <1>10, <1>11
    DEF Next, Editor, Loop, Pdf

\* Types: what shares the refresh state keeps its types, and the refresh mutex
\* is held exactly while the dataset run of a refresh or of a PDF build is on
\* its way.
THEOREM ServicesTypeOK == Spec => []TypeOK
  BY TypeInit, TypeNext, PTL DEF Spec

-----------------------------------------------------------------------------
(* The embedding cache.  A render runs without the mutex, so between its two  *)
(* locked sections anything may be refreshed; the counted generation is what  *)
(* ties what it rendered to what the state holds when it stores.              *)

\* Versions grow, and the artefacts and the plugins of the snapshot are of the
\* last load or of one before.
Ages ==
    /\ snapped <= plugin /\ plugin <= build
    /\ \A d \in Docs : /\ artefacts[d] <= lastDocs[d]
                       /\ lastDocs[d] <= disk[d]
                       /\ disk[d] <= edits + 1

\* The two snapshots that a target is resolved from are of one load.
Whole == lastDocs = artefacts

\* A disk render of the generation that the state is at rendered what the state
\* holds, and while a refresh runs there is no such render.
RenderOf(r) ==
    /\ r.pc # "load"
    /\ r.generation <= generation
    /\ r.generation = generation =>
         /\ mutex # "loop"
         /\ Whole => r.docs = lastDocs /\ r.target = lastDocs[r.key[1]]
         /\ r.plugin \in snapped .. plugin

Renders ==
    \A h \in Handlers : request[h].pc # "idle" /\ ~request[h].live => RenderOf(request[h])

\* A refresh starts from an empty cache and nobody fills it before its end.
EmptyWhileRefreshing == mutex = "loop" => DOMAIN cache = {}

CacheInv == TypeOK /\ Ages /\ Renders /\ EmptyWhileRefreshing /\ CacheFresh

LEMMA CacheInit == Init => CacheInv
  <1> SUFFICES ASSUME Init PROVE CacheInv
    OBVIOUS
  <1>1. Ages
    BY DEF Init, Ages, NoDocs
  <1>2. Renders /\ EmptyWhileRefreshing /\ CacheFresh
    BY DEF Init, Renders, EmptyWhileRefreshing, CacheFresh, NoCache, Idle
  <1> QED
    BY <1>1, <1>2, TypeInit DEF CacheInv

LEMMA AgesNext ==
    ASSUME TypeOK, Ages, [Next]_vars
    PROVE  Ages'
  <1>t. /\ edits \in Nat /\ \A d \in Docs : disk[d] \in Nat /\ lastDocs[d] \in Nat
        /\ \A d \in Docs : artefacts[d] \in Nat
        /\ build \in Nat /\ plugin \in Nat /\ snapped \in Nat
    BY ConstantsAssumption DEF TypeOK, Snapshots, Versions, Builds
  <1>1. ASSUME NEW e \in Docs, Save(e) PROVE Ages'
    <2>1. \A d \in Docs : disk'[d] \in {disk[d], edits + 2} /\ (d # e => disk'[d] = disk[d])
      BY <1>1 DEF Save, TypeOK, Snapshots
    <2> QED
      BY <1>1, <1>t, <2>1 DEF Save, Ages, stateVars, loopVars
  <1>2. ASSUME RefreshStart PROVE Ages'
    <2>1. /\ UNCHANGED <<disk, edits>> /\ lastDocs' \in {lastDocs, disk}
          /\ artefacts' = artefacts \/ (artefacts' = disk /\ lastDocs' = disk)
      BY <1>2 DEF RefreshStart, diskVars, stateVars
    <2>2. build' = build /\ plugin' = build /\ snapped' \in {snapped, build}
      BY <1>2 DEF RefreshStart, diskVars
    <2> QED
      BY <1>t, <2>1, <2>2 DEF Ages
  <1>3. ASSUME NEW d \in Docs, SetLiveOverride(d) PROVE Ages'
    BY <1>3, <1>t DEF SetLiveOverride, Ages, diskVars, stateVars, loopVars
  <1>4. CASE /\ UNCHANGED <<disk, edits, lastDocs, artefacts, plugin, snapped>>
             /\ build' \in {build, build + 1}
    BY <1>4, <1>t DEF Ages
  <1> QED
    BY <1>1, <1>2, <1>3, <1>4 DEF Next, Editor, RebuildPlugin, ClearLiveOverride, Loop, Pdf,
       PdfStart, RunRegister, RunQuery, EmbedByName, Capture, CaptureOverrides, LoadOverlay,
       EmbedRegister, EmbedQuery, Return, Explorer, ExplorerDocs, ExplorerStore, vars,
       diskVars, stateVars, loopVars

\* Documents that a refresh loads and that are the artefacts' are the last ones.
LEMMA WholeAgain ==
    ASSUME TypeOK, Ages, artefacts = disk
    PROVE  lastDocs = disk
  <1>1. \A d \in Docs : lastDocs[d] = disk[d]
    BY ConstantsAssumption DEF Ages, TypeOK, Snapshots, Versions
  <1> QED
    BY <1>1 DEF TypeOK, Snapshots

\* An action that leaves the state alone keeps what is said of a request.
LEMMA Undisturbed ==
    ASSUME CacheInv, TypeOK', Ages',
           UNCHANGED <<lastDocs, artefacts, cache, generation, plugin,
                       snapped, request>>,
           mutex' = "loop" => mutex = "loop"
    PROVE  CacheInv'
  BY DEF CacheInv, Renders, RenderOf, Whole, EmptyWhileRefreshing, CacheFresh

\* Nor does what only one request is about, as long as that request is fine.
LEMMA OneRequest ==
    ASSUME CacheInv, TypeOK', Ages', NEW h \in Handlers, NEW r,
           UNCHANGED <<lastDocs, artefacts, cache, generation, plugin,
                       snapped, mutex>>,
           request' = [request EXCEPT ![h] = r],
           r.pc # "idle" /\ ~r.live => RenderOf(r)
    PROVE  CacheInv'
  <1>1. Renders'
    BY DEF CacheInv, Renders, RenderOf, Whole, TypeOK
  <1> QED
    BY <1>1 DEF CacheInv, Whole, EmptyWhileRefreshing, CacheFresh

LEMMA CacheNext == CacheInv /\ [Next]_vars => CacheInv'
  <1> SUFFICES ASSUME CacheInv, [Next]_vars PROVE CacheInv'
    OBVIOUS
  <1>t. TypeOK /\ TypeOK' /\ Ages /\ Ages'
    BY TypeNext, AgesNext DEF CacheInv
  <1>1. ASSUME NEW d \in Docs, Save(d) PROVE CacheInv'
    BY <1>1, <1>t
    DEF Save, CacheInv, Renders, RenderOf, Whole, EmptyWhileRefreshing, CacheFresh,
        stateVars, loopVars
  <1>2. ASSUME RebuildPlugin PROVE CacheInv'
    BY <1>2, <1>t, Undisturbed DEF RebuildPlugin, stateVars, loopVars
  <1>3. ASSUME NEW d \in Docs, SetLiveOverride(d) \/ ClearLiveOverride(d)
        PROVE  CacheInv'
    BY <1>3, <1>t, Undisturbed
    DEF SetLiveOverride, ClearLiveOverride, diskVars, stateVars, loopVars
  <1>4. ASSUME RefreshStart PROVE CacheInv'
    <2>1. request' = request /\ mutex = "free"
      BY <1>4 DEF RefreshStart
    \* A refresh that gives up behind the reload: what is captured or cached may
    \* now be of older plugins, but never of plugins older than the snapshot.
    <2>2. CASE /\ UNCHANGED <<mutex, artefacts, cache, generation, snapped>>
               /\ plugin' = build
               /\ lastDocs' = lastDocs \/ lastDocs' = disk
      <3>1. Whole' => Whole /\ lastDocs' = lastDocs
        BY <1>t, <2>2, WholeAgain DEF Whole
      <3>2. \A b \in snapped .. plugin : b \in snapped' .. plugin'
        BY <1>t, <2>2 DEF Ages, TypeOK, Builds
      <3> QED
        BY <1>t, <2>1, <2>2, <3>1, <3>2
        DEF CacheInv, Renders, RenderOf, Whole, EmptyWhileRefreshing, CacheFresh
    <2>3. CASE mutex' = "loop" /\ Invalidate
      <3>1. DOMAIN cache' = {} /\ generation' = generation + 1 /\ mutex' = "loop"
        BY <2>3 DEF Invalidate, NoCache
      <3>2. Renders'
        <4> SUFFICES ASSUME NEW h \in Handlers,
                            request[h].pc # "idle", ~request[h].live
                     PROVE  /\ request[h].pc # "load"
                            /\ request[h].generation <= generation'
                            /\ request[h].generation # generation'
          BY <2>1 DEF Renders, RenderOf
        <4>1. request[h].pc # "load" /\ request[h].generation <= generation
          BY DEF CacheInv, Renders, RenderOf
        <4>2. request[h].generation \in Nat /\ generation \in Nat
          BY <1>t DEF TypeOK, Requests, Idle
        <4> QED
          BY <3>1, <4>1, <4>2
      <3> QED
        BY <1>t, <2>1, <3>1, <3>2
        DEF CacheInv, Whole, EmptyWhileRefreshing, CacheFresh
    <2> QED
      BY <1>4, <2>2, <2>3 DEF RefreshStart, stateVars
  <1>5. ASSUME PdfStart PROVE CacheInv'
    BY <1>5, <1>t, Undisturbed DEF PdfStart, PdfLock, diskVars, stateVars, loopVars
  <1>6. ASSUME NEW j \in {"loop", "pdf"}, RunRegister(j) PROVE CacheInv'
    BY <1>6, <1>t, Undisturbed DEF RunRegister, diskVars, stateVars, loopVars
  <1>7. ASSUME NEW j \in {"loop", "pdf"}, RunQuery(j) PROVE CacheInv'
    <2>1. /\ UNCHANGED <<lastDocs, artefacts, cache, generation, plugin, request>>
          /\ mutex' = "free" /\ mutex = j /\ UNCHANGED snapped
      BY <1>7, <1>t DEF RunQuery, Unlock, TypeOK, Idle, diskVars, stateVars
    <2>2. CASE j = "pdf"
      BY <1>7, <1>t, <2>1, <2>2, Undisturbed DEF RunQuery
    <2>3. CASE j = "loop"
      <3>1. DOMAIN cache = {} /\ mutex = "loop"
        BY <2>1, <2>3 DEF CacheInv, EmptyWhileRefreshing
      <3> QED
        BY <1>t, <2>1, <3>1
        DEF CacheInv, Renders, RenderOf, Whole, EmptyWhileRefreshing, CacheFresh
    <2> QED
      BY <2>2, <2>3
  <1>8. ASSUME NEW h \in Handlers, EmbedByName(h) PROVE CacheInv'
    <2>1. ASSUME NEW k \in Keys, Capture(h, k) PROVE CacheInv'
      <3> DEFINE r == [pc |-> "register", key |-> k, live |-> FALSE,
                       target |-> Resolve(k[1], lastDocs, artefacts),
                       docs |-> lastDocs, plugin |-> plugin,
                       generation |-> generation]
      <3>1. Whole => Resolve(k[1], lastDocs, artefacts) = lastDocs[k[1]]
        BY DEF Resolve, Whole
      <3>2. /\ r.pc # "load" /\ r.generation = generation /\ r.docs = lastDocs
            /\ Whole => r.target = lastDocs[r.key[1]]
            /\ r.plugin = plugin
        BY <3>1
      <3>3. /\ generation <= generation /\ mutex # "loop"
            /\ plugin \in snapped .. plugin
        BY <2>1, <1>t DEF Capture, TypeOK, Ages, Builds
      <3>4. /\ request' = [request EXCEPT ![h] = r]
            /\ UNCHANGED <<lastDocs, artefacts, cache, generation, plugin,
                            snapped, mutex>>
        BY <2>1 DEF Capture, diskVars, stateVars, loopVars
      <3> HIDE DEF r
      <3> QED
        BY <1>t, <3>2, <3>3, <3>4, OneRequest DEF RenderOf
    <2>2. ASSUME NEW k \in Keys, CaptureOverrides(h, k) PROVE CacheInv'
      BY <2>2, <1>t, OneRequest
      DEF CaptureOverrides, diskVars, stateVars, loopVars
    <2>3. ASSUME LoadOverlay(h) PROVE CacheInv'
      <3>1. request[h].live /\ request[h] \in Requests
        BY <2>3, <1>t DEF LoadOverlay, CacheInv, Renders, RenderOf, TypeOK, Requests, Idle
      <3>2. /\ UNCHANGED <<lastDocs, artefacts, cache, generation, plugin,
                            snapped, mutex>>
            /\ \A i \in Handlers : i # h => request'[i] = request[i]
        BY <2>3, <1>t DEF LoadOverlay, TypeOK, diskVars, stateVars, loopVars
      <3>3. request'[h] = Idle \/ request'[h].live
        <4>1. CASE request' = [request EXCEPT ![h] = Idle]
          BY <1>t, <4>1 DEF TypeOK
        <4>2. CASE request'[h] # Idle
          <5>1. PICK t, c : request' = [request EXCEPT ![h].pc = "register",
                                                       ![h].docs = c, ![h].target = t]
            BY <1>t, <2>3, <4>2 DEF LoadOverlay, TypeOK
          <5> QED
            BY <1>t, <3>1, <5>1 DEF TypeOK, Requests
        <4> QED
          BY <4>1, <4>2
      <3>4. Renders'
        BY <3>2, <3>3 DEF CacheInv, Renders, RenderOf, Whole, Idle
      <3> QED
        BY <1>t, <3>2, <3>4
        DEF CacheInv, Whole, EmptyWhileRefreshing, CacheFresh
    <2>4. ASSUME EmbedRegister(h) \/ EmbedQuery(h) PROVE CacheInv'
      <3>1. request[h] \in Requests /\ request[h].pc \notin {"idle", "load"}
        BY <2>4, <1>t DEF EmbedRegister, EmbedQuery, TypeOK, Idle
      <3>2. /\ UNCHANGED <<lastDocs, artefacts, cache, generation, plugin,
                            snapped, mutex>>
            /\ \A i \in Handlers : i # h => request'[i] = request[i]
        BY <2>4, <1>t
        DEF EmbedRegister, EmbedQuery, TypeOK, diskVars, stateVars, loopVars
      <3>3. /\ request'[h].pc # "load"
            /\ request'[h].live = request[h].live
            /\ request'[h].generation = request[h].generation
            /\ request'[h].docs = request[h].docs
            /\ request'[h].target = request[h].target
            /\ request'[h].key = request[h].key
            /\ request'[h].plugin = request[h].plugin
        BY <2>4, <1>t, <3>1 DEF EmbedRegister, EmbedQuery, TypeOK, Requests
      <3>4. Renders'
        BY <3>1, <3>2, <3>3 DEF CacheInv, Renders, RenderOf, Whole
      <3> QED
        BY <1>t, <3>2, <3>4
        DEF CacheInv, Whole, EmptyWhileRefreshing, CacheFresh
    <2>5. ASSUME Return(h) PROVE CacheInv'
      <3> DEFINE r == request[h]
      <3>1. /\ UNCHANGED <<lastDocs, artefacts, generation, plugin, snapped, mutex>>
            /\ request' = [request EXCEPT ![h] = Idle]
            /\ r.pc = "store" /\ r \in Requests
        BY <2>5, <1>t DEF Return, TypeOK, Idle, diskVars, loopVars
      <3>2. Renders'
        BY <3>1, <1>t DEF CacheInv, Renders, RenderOf, Whole, TypeOK, Idle
      <3>3. CASE UNCHANGED cache
        BY <1>t, <3>1, <3>2, <3>3 DEF CacheInv, EmptyWhileRefreshing, CacheFresh
      <3>4. CASE /\ ~r.live /\ r.generation = generation
                 /\ cache' = [k \in DOMAIN cache \cup {r.key} |->
                                IF k = r.key THEN Body(r) ELSE cache[k]]
        <4>1. /\ mutex # "loop" /\ r.plugin \in snapped .. plugin
              /\ Whole => r.docs = lastDocs /\ r.target = lastDocs[r.key[1]]
          BY <3>1, <3>4 DEF CacheInv, Renders, RenderOf
        <4>2. Body(r).docs = r.docs /\ Body(r).target = r.target
              /\ Body(r).language = r.key[2] /\ Body(r).plugin = r.plugin
          BY DEF Body
        <4>3. CacheFresh'
          <5> SUFFICES ASSUME NEW k \in DOMAIN cache'
                       PROVE  /\ Whole => /\ cache'[k].docs = lastDocs
                                          /\ cache'[k].target = lastDocs[k[1]]
                              /\ cache'[k].language = k[2]
                              /\ cache'[k].plugin \in snapped .. plugin
            BY <3>1 DEF CacheFresh, Whole
          <5>1. CASE k = r.key
            <6>1. cache'[k] = Body(r)
              BY <3>4, <5>1
            <6> QED
              BY <4>1, <4>2, <5>1, <6>1
          <5>2. CASE k # r.key
            <6>1. k \in DOMAIN cache /\ cache'[k] = cache[k]
              BY <3>4, <5>2
            <6> QED
              BY <6>1 DEF CacheInv, CacheFresh, Whole
          <5> QED
            BY <5>1, <5>2
        <4> QED
          BY <1>t, <3>1, <3>2, <4>1, <4>3 DEF CacheInv, EmptyWhileRefreshing
      <3> QED
        BY <2>5, <3>3, <3>4 DEF Return, Storable
    <2> QED
      BY <1>8, <2>1, <2>2, <2>3, <2>4, <2>5 DEF EmbedByName
  <1>9. ASSUME Explorer PROVE CacheInv'
    BY <1>9, <1>t, Undisturbed
    DEF Explorer, ExplorerDocs, ExplorerStore, diskVars, stateVars, loopVars
  <1>10. CASE UNCHANGED vars
    BY <1>10, <1>t, Undisturbed DEF vars, diskVars, stateVars, loopVars
  <1> QED
    BY <1>1, <1>2, <1>3, <1>4, <1>5, <1>6, <1>7, <1>8, <1>9, <1>10
    DEF Next, Editor, Loop, Pdf

\* The embedding cache never holds an outdated body: every cached body was
\* rendered from the documents, the target and the language that its key stands
\* for today, however many renders a refresh overtakes, and with plugins at least
\* as new as those of the last refresh that got to its snapshot.
THEOREM ServicesCacheFresh == Spec => []CacheFresh
  <1>1. CacheInv => CacheFresh
    BY DEF CacheInv
  <1>2. CacheInv /\ [Next]_vars => CacheInv'
    BY CacheNext
  <1>3. Init => CacheInv
    BY CacheInit
  <1> QED
    BY <1>1, <1>2, <1>3, PTL DEF Spec

-----------------------------------------------------------------------------
(* The files and the view of a dataset run.                                  *)

\* Nobody but an embedding that disturbs it takes the file of a run that has
\* registered its source, or points the shared view elsewhere.
InPlace ==
    disturbed \/ \A j \in {"loop", "pdf"} :
                    job[j].pc = "query" => /\ job[j].version \in scratch
                                           /\ j = "loop" => view = job[j].version

RowsInv == TypeOK /\ InPlace

LEMMA InPlaceImplies == InPlace => OwnRows
  BY DEF InPlace, OwnRows, RowsKept, Rows

LEMMA RowsInit == Init => RowsInv
  <1> SUFFICES ASSUME Init PROVE RowsInv
    OBVIOUS
  <1> QED
    BY TypeInit DEF Init, RowsInv, InPlace, Idle

\* One run at a time: where the mutex is free, or another's, a run is idle.
LEMMA OneRun ==
    ASSUME TypeOK, NEW j \in {"loop", "pdf"}, mutex # j
    PROVE  job[j].pc = "idle"
  BY DEF TypeOK

\* A step that leaves the runs and what they read alone.
LEMMA InPlaceKept ==
    ASSUME InPlace, UNCHANGED <<scratch, view, disturbed, job>>
    PROVE  InPlace'
  BY DEF InPlace

LEMMA InPlaceNext == RowsInv /\ [Next]_vars => InPlace'
  <1> SUFFICES ASSUME RowsInv, [Next]_vars PROVE InPlace'
    OBVIOUS
  <1> USE DEF RowsInv
  <1>1. ASSUME NEW d \in Docs, Save(d) \/ SetLiveOverride(d) \/ ClearLiveOverride(d)
        PROVE  InPlace'
    BY <1>1, InPlaceKept DEF Save, SetLiveOverride, ClearLiveOverride, dataVars
  <1>2. CASE RebuildPlugin \/ Explorer
    BY <1>2, InPlaceKept DEF RebuildPlugin, Explorer, ExplorerDocs, ExplorerStore, dataVars
  \* The start of a run finds no other: none of them is at its query.
  <1>3. ASSUME mutex = "free", NEW j \in {"loop", "pdf"},
               NEW v, job' = [job EXCEPT ![j] = [pc |-> "register", version |-> v]]
        PROVE  InPlace'
    <2>1. \A i \in {"loop", "pdf"} : job[i].pc = "idle"
      BY <1>3, OneRun
    <2>2. \A i \in {"loop", "pdf"} : job'[i].pc # "query"
      BY <1>3, <2>1 DEF TypeOK
    <2> QED
      BY <2>2 DEF InPlace
  <1>4. CASE RefreshStart
    <2>1. CASE UNCHANGED job
      BY <1>4, <2>1, InPlaceKept DEF RefreshStart, dataVars
    <2>2. CASE job' = [job EXCEPT !["loop"] = [pc |-> "register", version |-> disk[Source]]]
      BY <1>3, <1>4, <2>2 DEF RefreshStart
    <2> QED
      BY <1>4, <2>1, <2>2 DEF RefreshStart
  <1>5. CASE PdfStart
    BY <1>3, <1>5 DEF PdfStart, PdfLock
  <1>6. ASSUME NEW j \in {"loop", "pdf"}, RunRegister(j) PROVE InPlace'
    <2>1. mutex = j
      BY <1>6 DEF RunRegister, TypeOK
    <2>2. \A i \in {"loop", "pdf"} : i # j => job'[i].pc # "query"
      BY <1>6, <2>1, OneRun DEF RunRegister, TypeOK
    <2>3. /\ job'[j].version = job[j].version
          /\ job[j].version \in scratch'
          /\ j = "loop" => view' = job[j].version
      BY <1>6 DEF RunRegister, Register, TypeOK, Idle
    <2> QED
      BY <2>2, <2>3 DEF InPlace
  <1>7. ASSUME NEW j \in {"loop", "pdf"}, RunQuery(j) PROVE InPlace'
    <2>1. mutex = j
      BY <1>7 DEF RunQuery, TypeOK
    <2>2. \A i \in {"loop", "pdf"} : job'[i].pc # "query"
      BY <1>7, <2>1, OneRun DEF RunQuery, TypeOK, Idle
    <2> QED
      BY <2>2 DEF InPlace
  <1>8. ASSUME NEW h \in Handlers, EmbedByName(h) PROVE InPlace'
    <2>1. ASSUME NEW k \in Keys, Capture(h, k) \/ CaptureOverrides(h, k) PROVE InPlace'
      BY <2>1, InPlaceKept DEF Capture, CaptureOverrides, dataVars
    <2>2. CASE LoadOverlay(h) \/ Return(h)
      BY <2>2, InPlaceKept DEF LoadOverlay, Return, dataVars
    <2>3. CASE EmbedRegister(h)
      <3>1. UNCHANGED job /\ scratch \subseteq scratch' /\ disturbed' = (disturbed \/ Replaces(h))
        BY <2>3 DEF EmbedRegister, Register, Disturbs
      <3>2. job["loop"].pc = "query" /\ ~Replaces(h) => view' \in {view, job["loop"].version}
        BY <2>3 DEF EmbedRegister, Register, Replaces
      <3> QED
        BY <3>1, <3>2 DEF InPlace
    <2>4. CASE EmbedQuery(h)
      <3>1. UNCHANGED <<job, view>> /\ disturbed' = (disturbed \/ Removes(h))
        BY <2>4 DEF EmbedQuery, Cleanup, Disturbs
      <3>2. (\E j \in {"loop", "pdf"} : job[j].pc = "query") /\ ~Removes(h) => scratch' = scratch
        BY <2>4 DEF EmbedQuery, Cleanup, Removes
      <3> QED
        BY <3>1, <3>2 DEF InPlace
    <2> QED
      BY <1>8, <2>1, <2>2, <2>3, <2>4 DEF EmbedByName
  <1>9. CASE UNCHANGED vars
    BY <1>9, InPlaceKept DEF vars, dataVars
  <1> QED
    BY <1>1, <1>2, <1>4, <1>5, <1>6, <1>7, <1>8, <1>9 DEF Next, Editor, Loop, Pdf

\* The mutex keeps the dataset runs of a refresh and of a PDF build apart: where
\* one of them does not read the rows of the source it loaded, an embedding is to
\* blame, which has pointed the shared view at another version or has removed the
\* directory since the run registered.
THEOREM ServicesOwnRows == Spec => []OwnRows
  <1>1. RowsInv /\ [Next]_vars => RowsInv'
    BY TypeNext, InPlaceNext DEF RowsInv
  <1>2. RowsInv => OwnRows
    BY InPlaceImplies DEF RowsInv
  <1> QED
    BY <1>1, <1>2, RowsInit, PTL DEF Spec
=============================================================================
