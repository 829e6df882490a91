-------------------------- MODULE PreviewServices --------------------------
(***************************************************************************)
(* What shares the refresh state with the live-reload loop: the embedding  *)
(* endpoint with its cache, the overrides an editor pushes, the preview    *)
(* PDF and the boot of the data explorer.                                  *)
(*                                                                         *)
(* Code: internal/preview/refresh/embed.go and refresh.go (State),         *)
(* internal/cli/preview.go and preview_pdf.go, and the dataset runs of     *)
(* internal/report/dataset/executor.go.                                    *)
(*                                                                         *)
(* The refresh mutex makes a refresh and a PDF build exclusive.  An        *)
(* embedding render runs between two locked sections, without the mutex.   *)
(* A document is abstracted to the number of the edit that wrote it, 0     *)
(* when there is none, as in PreviewRefresh.                               *)
(***************************************************************************)
EXTENDS Integers, FiniteSets

CONSTANTS
    Handlers,     \* concurrent requests of /__embedding/{name}
    Targets,      \* documents that can be embedded
    Artefacts,    \* those resolved from the artefact snapshot, not from lastDocs
    Shared,       \* DocumentArtefacts: they render in the shared DuckDB session
    Source,       \* an inline DataSource that the datasets query
    Languages,
    MaxEdits,     \* bound: saves and overrides
    MaxBuilds,    \* bound: rebuilds of the plugin binary
    MaxRefreshes, \* bound: refreshes
    Moves         \* what may happen in the environment of this instance

Docs == Targets \cup {Source}
Keys == Targets \X Languages
AllMoves == {"break-file", "duplicate", "fail-hook", "override", "pdf"}

ASSUME ConstantsAssumption ==
    /\ Artefacts \subseteq Targets /\ Shared \subseteq Artefacts
    /\ Source \notin Targets
    /\ MaxEdits \in Nat /\ MaxBuilds \in Nat /\ MaxRefreshes \in Nat
    /\ Moves \subseteq AllMoves

VARIABLES
    disk,       \* version of every document on disk
    health,     \* what loading the project gives
    edits,      \* saves and overrides so far
    build,      \* version of the plugin binary on disk
    plugin,     \* the plugins Config.PluginOptions holds
    mutex,      \* who holds the refresh mutex
    lastDocs,   \* State.lastDocs
    artefacts,  \* State.artefacts and State.documentArtefacts
    cache,      \* State.embeddingCache, a partial function on Keys
    generation, \* State.generation
    overrides,  \* State.liveOverrides, 0 for none
    refreshes,  \* refreshes so far
    failed,     \* the last refresh returned an error
    snapped,    \* history: the plugins when lastDocs and artefacts were last taken
    scratch,    \* versions of Source with a CSV file in .bino/cache/datasources
    view,       \* the version that the view of the shared session reads
    disturbed,  \* history: an embedding interfered with the dataset run
    job,        \* the dataset runs of the loop and of a PDF build
    request,    \* the embedding requests
    explorer    \* the data explorer

diskVars == <<disk, health, build>>
stateVars == <<lastDocs, artefacts, cache, generation>>
loopVars == <<plugin, refreshes, failed, snapped>>
dataVars == <<scratch, view, disturbed>>
vars == <<diskVars, edits, stateVars, loopVars, mutex, overrides, dataVars,
          job, request, explorer>>

Versions == 0 .. MaxEdits + 1
Snapshots == [Docs -> Versions]
Builds == 1 .. MaxBuilds + 1
NoDocs == [d \in Docs |-> 0]
NoCache == [k \in {} |-> 0]
Idle == [pc |-> "idle"]

Init ==
    /\ disk = [d \in Docs |-> 1] /\ health = "ok" /\ edits = 0
    /\ build = 1 /\ plugin = 1
    /\ mutex = "free" /\ refreshes = 0 /\ failed = FALSE /\ snapped = 1
    /\ lastDocs = NoDocs /\ artefacts = NoDocs
    /\ cache = NoCache /\ generation = 0
    /\ overrides = NoDocs
    /\ scratch = {} /\ view = 0 /\ disturbed = FALSE
    /\ job = [j \in {"loop", "pdf"} |-> Idle]
    /\ request = [h \in Handlers |-> Idle]
    /\ explorer = [pc |-> "starting", docs |-> NoDocs]

-----------------------------------------------------------------------------
(* The editor.                                                             *)

Healths == {"ok"} \cup (IF "break-file" \in Moves THEN {"broken"} ELSE {})
                  \cup (IF "duplicate" \in Moves THEN {"duplicate"} ELSE {})

Save(d) ==
    /\ edits < MaxEdits
    /\ edits' = edits + 1
    /\ disk' = [disk EXCEPT ![d] = edits + 2]
    /\ health' \in Healths
    /\ UNCHANGED <<build, stateVars, loopVars, mutex, overrides, dataVars, job,
                   request, explorer>>

RebuildPlugin ==
    /\ build <= MaxBuilds
    /\ build' = build + 1
    /\ UNCHANGED <<disk, health, edits, stateVars, loopVars, mutex, overrides,
                   dataVars, job, request, explorer>>

\* POST /__bino/embedding/override: an unsaved buffer, or the end of one.
SetLiveOverride(d) ==
    /\ "override" \in Moves
    /\ mutex = "free"
    /\ edits < MaxEdits
    /\ edits' = edits + 1
    /\ overrides' = [overrides EXCEPT ![d] = edits + 2]
    /\ UNCHANGED <<diskVars, stateVars, loopVars, mutex, dataVars, job, request,
                   explorer>>

ClearLiveOverride(d) ==
    /\ mutex = "free"
    /\ overrides[d] # 0
    /\ overrides' = [overrides EXCEPT ![d] = 0]
    /\ UNCHANGED <<diskVars, edits, stateVars, loopVars, mutex, dataVars, job,
                   request, explorer>>

-----------------------------------------------------------------------------
(* A dataset run.  It writes the inline source to a CSV file named by its  *)
(* content and points a view at it; its queries read the view.  A run in a *)
(* session of its own then removes the whole directory.                    *)

\* RegisterViews.
Register(version, shared) ==
    /\ scratch' = scratch \cup {version}
    /\ view' = IF shared THEN version ELSE view

\* A query of a missing file is a warning, its dataset stays empty.
Rows(version, shared) ==
    LET reads == IF shared THEN view ELSE version
    IN IF reads \in scratch THEN reads ELSE 0

\* The cleanup of inlineScratchDir, which is deferred to behind the queries.
Cleanup(shared) ==
    /\ scratch' = IF shared THEN scratch ELSE {}
    /\ UNCHANGED view

-----------------------------------------------------------------------------
(* A refresh and a PDF build hold the mutex from their first to their last *)
(* step.                                                                   *)

BugUnlock == mutex' = IF mutex = "pdf" THEN mutex ELSE "free"  \* mutant: a leak

Unlock == mutex' = "free"

BugInvalidate ==  \* mutant: the generation is not counted
    cache' = NoCache /\ UNCHANGED generation

\* The cached bodies go, and a render that started before must not bring an
\* outdated one back.
Invalidate == cache' = NoCache /\ generation' = generation + 1

\* doRefresh up to the snapshot: plugins first, then the pre-refresh hook and
\* the documents.  A hook that fails ends the refresh without an error.
RefreshStart ==
    /\ mutex = "free"
    /\ refreshes < MaxRefreshes
    /\ refreshes' = refreshes + 1
    /\ plugin' = build
    /\ \/ /\ "fail-hook" \in Moves
          /\ failed' = FALSE
          /\ UNCHANGED <<snapped, mutex, stateVars, job, explorer>>
       \/ /\ health = "broken"               \* the load fails
          /\ failed' = TRUE
          /\ UNCHANGED <<snapped, mutex, stateVars, job, explorer>>
       \/ /\ health # "broken"
          /\ lastDocs' = disk
          /\ explorer' = IF explorer.pc = "on" THEN [explorer EXCEPT !.docs = disk]
                                               ELSE explorer
          /\ \/ /\ health = "duplicate"      \* the artefact scan fails
                /\ failed' = TRUE
                /\ UNCHANGED <<snapped, mutex, artefacts, cache, generation, job>>
             \/ /\ health = "ok"
                /\ artefacts' = disk
                /\ Invalidate
                /\ snapped' = build
                /\ mutex' = "loop"
                /\ job' = [job EXCEPT
                             !["loop"] = [pc |-> "register", version |-> disk[Source]]]
                /\ UNCHANGED failed
    /\ UNCHANGED <<diskVars, edits, overrides, dataVars, request>>

BugPdfLock == UNCHANGED mutex  \* mutant: the build does not take the mutex

PdfLock == mutex = "free" /\ mutex' = "pdf"

\* A project that does not load ends the build before its dataset run.
PdfStart ==
    /\ "pdf" \in Moves
    /\ job["pdf"].pc = "idle"
    /\ health # "broken"
    /\ PdfLock
    /\ job' = [job EXCEPT !["pdf"] = [pc |-> "register", version |-> disk[Source]]]
    /\ UNCHANGED <<diskVars, edits, stateVars, loopVars, overrides, dataVars,
                   request, explorer>>

\* The loop renders in the shared session, a PDF build in its own.
RunRegister(j) ==
    /\ job[j].pc = "register"
    /\ Register(job[j].version, j = "loop")
    /\ disturbed' = FALSE
    /\ job' = [job EXCEPT ![j].pc = "query"]
    /\ UNCHANGED <<diskVars, edits, stateVars, loopVars, mutex, overrides,
                   request, explorer>>

RunQuery(j) ==
    /\ job[j].pc = "query"
    /\ Cleanup(j = "loop")
    /\ disturbed' = FALSE
    /\ Unlock
    /\ job' = [job EXCEPT ![j] = Idle]
    /\ failed' = IF j = "loop" THEN FALSE ELSE failed
    /\ UNCHANGED <<diskVars, edits, stateVars, plugin, refreshes, snapped,
                   overrides, request, explorer>>

-----------------------------------------------------------------------------
(* EmbedByName.                                                            *)

Resolve(t, docs, arts) == IF t \in Artefacts THEN arts[t] ELSE docs[t]

\* The locked section that captures what the render needs.  A request that is
\* answered from the cache, or for a name that does not exist, changes nothing.
Capture(h, k) ==
    /\ request[h].pc = "idle"
    /\ mutex = "free"
    /\ overrides = NoDocs
    /\ k \notin DOMAIN cache
    /\ Resolve(k[1], lastDocs, artefacts) # 0
    /\ request' = [request EXCEPT ![h] =
                     [pc |-> "register", key |-> k, live |-> FALSE,
                      target |-> Resolve(k[1], lastDocs, artefacts),
                      docs |-> lastDocs, plugin |-> plugin,
                      generation |-> generation]]
    /\ UNCHANGED <<diskVars, edits, stateVars, loopVars, mutex, overrides,
                   dataVars, job, explorer>>

\* While a buffer is overridden the request loads the project itself and stores
\* nothing.
CaptureOverrides(h, k) ==
    /\ request[h].pc = "idle"
    /\ mutex = "free"
    /\ overrides # NoDocs
    /\ request' = [request EXCEPT ![h] =
                     [pc |-> "load", key |-> k, live |-> TRUE,
                      target |-> 0, docs |-> overrides, plugin |-> plugin,
                      generation |-> generation]]
    /\ UNCHANGED <<diskVars, edits, stateVars, loopVars, mutex, overrides,
                   dataVars, job, explorer>>

\* A lenient load leaves out what is broken, the target perhaps; duplicate
\* artefacts are still an error.
LoadOverlay(h) ==
    LET docs == [d \in Docs |-> IF request[h].docs[d] # 0 THEN request[h].docs[d]
                                                         ELSE disk[d]]
    IN /\ request[h].pc = "load"
       /\ \/ /\ health # "ok"
             /\ request' = [request EXCEPT ![h] = Idle]
          \/ /\ health # "duplicate"
             /\ request' = [request EXCEPT ![h].pc = "register", ![h].docs = docs,
                                           ![h].target = docs[request[h].key[1]]]
       /\ UNCHANGED <<diskVars, edits, stateVars, loopVars, mutex, overrides,
                      dataVars, job, explorer>>

\* DocumentArtefacts use the shared session, other targets one of their own.
Session(h) == request[h].key[1] \in Shared

\* An embedding replaces the view that a refresh is about to read ...
Replaces(h) ==
    /\ Session(h) /\ job["loop"].pc = "query"
    /\ request[h].docs[Source] # job["loop"].version

\* ... or removes the files of a refresh or a PDF build.
Removes(h) == ~Session(h) /\ \E j \in {"loop", "pdf"} : job[j].pc = "query"

Disturbs(does) == disturbed' = (disturbed \/ does)

EmbedRegister(h) ==
    /\ request[h].pc = "register"
    /\ Register(request[h].docs[Source], Session(h))
    /\ Disturbs(Replaces(h))
    /\ request' = [request EXCEPT ![h].pc = "query"]
    /\ UNCHANGED <<diskVars, edits, stateVars, loopVars, mutex, overrides, job,
                   explorer>>

EmbedQuery(h) ==
    /\ request[h].pc = "query"
    /\ Cleanup(Session(h))
    /\ Disturbs(Removes(h))
    /\ request' = [request EXCEPT ![h].pc = "store"]
    /\ UNCHANGED <<diskVars, edits, stateVars, loopVars, mutex, overrides, job,
                   explorer>>

Body(r) == [target |-> r.target, docs |-> r.docs, language |-> r.key[2],
            plugin |-> r.plugin]

BugStorable(r) == TRUE  \* mutant: a live render may be stored, too

Storable(r) == ~r.live

\* The request returns: a disk render goes to the cache, unless a refresh has
\* replaced the snapshot that it rendered, and a render that failed does not.
Return(h) ==
    /\ request[h].pc = "store"
    /\ Storable(request[h]) => mutex = "free"
    /\ request' = [request EXCEPT ![h] = Idle]
    /\ \/ /\ Storable(request[h])
          /\ request[h].generation = generation
          /\ cache' = [k \in DOMAIN cache \cup {request[h].key} |->
                         IF k = request[h].key THEN Body(request[h]) ELSE cache[k]]
       \/ UNCHANGED cache
    /\ UNCHANGED <<diskVars, edits, lastDocs, artefacts, generation, loopVars,
                   mutex, overrides, dataVars, job, explorer>>

-----------------------------------------------------------------------------
(* The explorer goroutine starts behind the first refresh: it fills a new  *)
(* session with the documents of the last one and then hands it over.      *)

ExplorerDocs ==
    /\ explorer.pc = "starting"
    /\ refreshes # 0
    /\ mutex = "free"
    /\ explorer' = [pc |-> "fill", docs |-> lastDocs]
    /\ UNCHANGED <<diskVars, edits, stateVars, loopVars, mutex, overrides,
                   dataVars, job, request>>

ExplorerStore ==
    /\ explorer.pc = "fill"
    /\ explorer' = [explorer EXCEPT !.pc = "on"]
    /\ UNCHANGED <<diskVars, edits, stateVars, loopVars, mutex, overrides,
                   dataVars, job, request>>

-----------------------------------------------------------------------------
Editor == RebuildPlugin \/ \E d \in Docs : \/ Save(d)
                                           \/ SetLiveOverride(d)
                                           \/ ClearLiveOverride(d)

Loop == RefreshStart \/ RunRegister("loop") \/ RunQuery("loop")

Pdf == PdfStart \/ RunRegister("pdf") \/ RunQuery("pdf")

EmbedByName(h) ==
    \/ \E k \in Keys : Capture(h, k) \/ CaptureOverrides(h, k)
    \/ LoadOverlay(h) \/ EmbedRegister(h) \/ EmbedQuery(h) \/ Return(h)

Explorer == ExplorerDocs \/ ExplorerStore

Next == Editor \/ Loop \/ Pdf \/ Explorer \/ \E h \in Handlers : EmbedByName(h)

Spec == Init /\ [][Next]_vars

\* Renders and dataset runs return, and a Go mutex does not starve who waits.
Fairness ==
    /\ WF_vars(RunRegister("loop") \/ RunQuery("loop"))
    /\ WF_vars(RunRegister("pdf") \/ RunQuery("pdf"))
    /\ \A h \in Handlers :
         /\ WF_vars(LoadOverlay(h) \/ EmbedRegister(h) \/ EmbedQuery(h))
         /\ SF_vars(Return(h))

LiveSpec == Spec /\ Fairness

-----------------------------------------------------------------------------
(***************************************************************************)
(* Properties.                                                             *)
(***************************************************************************)

Requests ==
    [pc : {"load", "register", "query", "store"}, key : Keys, live : BOOLEAN,
     target : Versions, docs : Snapshots, plugin : Builds,
     generation : 0 .. MaxRefreshes]

Bodies == [target : Versions, docs : Snapshots, language : Languages,
           plugin : Builds]

\* The mutex is held by the dataset run that is on its way, and by no other.
TypeOK ==
    /\ disk \in Snapshots /\ health \in Healths
    /\ edits \in 0 .. MaxEdits /\ build \in Builds /\ plugin \in Builds /\ snapped \in Builds
    /\ lastDocs \in Snapshots /\ artefacts \in Snapshots
    /\ DOMAIN cache \subseteq Keys /\ \A k \in DOMAIN cache : cache[k] \in Bodies
    /\ refreshes \in 0 .. MaxRefreshes /\ generation \in 0 .. refreshes
    /\ overrides \in Snapshots /\ failed \in BOOLEAN
    /\ scratch \subseteq Versions /\ view \in Versions
    /\ disturbed \in BOOLEAN
    /\ job \in [{"loop", "pdf"} ->
                  [pc : {"register", "query"}, version : Versions] \cup {Idle}]
    /\ request \in [Handlers -> Requests \cup {Idle}]
    /\ explorer \in [pc : {"starting", "fill", "on"}, docs : Snapshots]
    /\ mutex \in {"free", "loop", "pdf"}
    /\ \A j \in {"loop", "pdf"} : job[j].pc # "idle" <=> mutex = j

\* Every cached body was rendered from the documents, the artefact and the
\* language its key stands for today: neither a render that a refresh overtook
\* nor an unsaved buffer ever gets into the cache (State.generation: "a render
\* that started before a refresh must not store its outdated body in the fresh
\* cache, where it would hide the edit").  A refresh that finds duplicate
\* artefacts leaves the two halves of the snapshot apart until the next one.
\* Its plugins are never older than those the snapshot was taken with.  They are
\* those of today unless a later refresh has reloaded them and given up before
\* its snapshot: with an error, or without one in its pre-refresh hook.
CacheFresh ==
    \A k \in DOMAIN cache :
        /\ lastDocs = artefacts => /\ cache[k].docs = lastDocs
                                  /\ cache[k].target = lastDocs[k[1]]
        /\ cache[k].language = k[2]
        /\ cache[k].plugin \in snapped .. plugin

\* A refresh that reports success leaves no body of an old plugin in the cache
\* (previewPlugins.stale: "cleared by the next refresh that succeeds.  Until
\* then pages may still come from the old plugins").  A failing hook breaks it.
CacheOfPlugin == failed \/ \A k \in DOMAIN cache : cache[k].plugin = plugin

\* The dataset run of a refresh or a PDF build finds the rows of its own project
\* snapshot: nobody removes the CSV files or replaces the view it is about to
\* read (preview_pdf.go: "A build removes the inline-datasource dir a running
\* refresh reads, so the two must not overlap").
RowsKept ==
    \A j \in {"loop", "pdf"} :
        job[j].pc = "query" => Rows(job[j].version, j = "loop") = job[j].version

\* A refresh and a PDF build keep RowsKept to each other.  An embedding takes no
\* mutex and does break it, but only by one of two steps behind the
\* registration: a DocumentArtefact points the shared view at another version,
\* or any other target removes the directory.
OwnRows == disturbed \/ RowsKept

\* Between refreshes the explorer shows the documents of the last one (explorer
\* Session.Refresh: "Called on each file-watcher refresh").
ExplorerFresh ==
    explorer.pc = "on" /\ mutex # "loop" => explorer.docs = lastDocs

\* An embedding request always returns, however often refreshes and PDF builds
\* take the mutex it needs.
RequestsReturn ==
    \A h \in Handlers : request[h].pc # "idle" ~> request[h].pc = "idle"
=============================================================================
