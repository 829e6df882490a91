--------------------------- MODULE PreviewRefresh ---------------------------
(***************************************************************************)
(* The live-reload loop of `bino preview`: editor, file watcher, request   *)
(* queue, debounce timer, the incremental refresh and the routes that the  *)
(* HTTP server serves from it.                                             *)
(*                                                                         *)
(* Code: internal/cli/preview.go (boot goroutine and loop),                *)
(* internal/cli/preview_plugins.go, internal/preview/refresh/refresh.go,   *)
(* internal/report/graph/graph.go, internal/watchers/watcher.go and the    *)
(* content tables of internal/httpserver/server.go.                        *)
(*                                                                         *)
(* A manifest file defines documents.  The content of a document is        *)
(* abstracted to the number of the edit that wrote it, 0 when its file     *)
(* does not define it, so a rendered page is the record of the versions it *)
(* was rendered from and "stale" is plain inequality.                      *)
(***************************************************************************)
EXTENDS Integers, Sequences, FiniteSets

CONSTANTS
    Files,       \* manifest files, each in a directory of its own
    Docs,        \* documents, named by kind and metadata.name
    Reports,     \* the ReportArtefacts among them
    Documents,   \* the DocumentArtefacts
    Pages,       \* the LayoutPages
    Configs,     \* kinds that get no graph node (ComponentStyle, RuleSet, ...)
    Home,        \* the file that defines a document
    Uses,        \* what the render of an artefact reads besides the artefact
    Absent,      \* documents that no file defines yet when the preview starts
    Root,        \* the "All Pages" route "/"
    Nil,         \* a request without files: rebuild everything
    Incremental, \* --incremental
    ChanCap,     \* capacity of refreshCh
    MaxEdits,    \* bound: edits of manifest files
    MaxBuilds,   \* bound: rebuilds of the plugin binary
    Moves        \* what may happen in the environment of this instance

Artefacts == Reports \cup Documents
Paths == Artefacts \cup {Root}

AllMoves == {"boot-edit",       \* a file is saved before the watcher listens
             "remove-document", \* a save drops a document from its file
             "delete-file",     \* a file is deleted
             "break-file",      \* a save leaves a file that does not load
             "duplicate",       \* a save leaves a duplicate DocumentArtefact
             "fail-report",     \* a ReportArtefact or All Pages fails to render
             "fail-document",   \* a DocumentArtefact fails to render
             "fail-hook",       \* the pre-refresh hook fails
             "fail-plugin"}     \* a plugin does not load

ASSUME ConstantsAssumption ==
    /\ Reports \subseteq Docs /\ Documents \subseteq Docs
    /\ Pages \subseteq Docs /\ Configs \subseteq Docs
    /\ (Reports \cup Documents \cup Pages) \cap Configs = {}
    /\ Reports \cap Documents = {}
    /\ Home \in [Docs -> Files]
    /\ Uses \in [Artefacts -> SUBSET Docs]
    /\ Absent \subseteq Docs
    /\ Root \notin Docs
    /\ Nil \notin Files
    /\ Incremental \in BOOLEAN
    /\ ChanCap \in Nat \ {0}
    /\ MaxEdits \in Nat /\ MaxBuilds \in Nat
    /\ Moves \subseteq AllMoves

VARIABLES
    disk,      \* version of every document on disk
    health,    \* what loading a file gives
    edits,     \* edits so far
    build,     \* version of the plugin binary on disk
    events,    \* what fsnotify has reported and Run has not processed
    dirs,      \* files in the directories the first load visited (visitedDirs)
    booted,    \* the watcher listens and the loop runs
    watched,   \* files in a registered directory
    queue,     \* refreshCh
    pending,   \* the debounce window (as a set: MergeRequests dedupes)
    armed,     \* the debounce timer runs
    pc,        \* where the loop, or the boot goroutine before it, is
    job,       \* local state of the running refresh
    lastDocs,  \* State.lastDocs
    framed,    \* State.allPagesFrameHTML is not empty
    assets,    \* keys of State.perArtefactAssets
    loaded,    \* plugin version of the last (re)load, 0 when it failed
    stamp,     \* plugin version the manager stamped last
    stale,     \* previewPlugins.stale
    routes,    \* Server.routes, a partial function on artefact paths
    contexts,  \* Server.contextCache
    served,    \* paths whose assets Server.localAssets holds
    state      \* what /__preview/refresh-state answers from

diskVars == <<disk, health, edits, build>>
bootVars == <<dirs, booted, watched>>
loopVars == <<events, queue, pending, armed>>
pluginVars == <<loaded, stamp, stale>>
serverVars == <<routes, contexts, served>>
vars == <<diskVars, bootVars, loopVars, pc, job, lastDocs, framed, assets,
          pluginVars, serverVars, state>>

Versions == 0 .. MaxEdits + 1
Content == [Docs -> Versions]

DocsIn(f) == {d \in Docs : Home[d] = f}
Defined(c) == {d \in Docs : c[d] # 0}

\* What rendering an artefact, or All Pages, out of the documents c gives.
Reads(p) == IF p = Root THEN Docs ELSE {p} \cup Uses[p]
Rendered(p, c, plugin) == [docs |-> [d \in Reads(p) |-> c[d]], plugin |-> plugin]

\* Routes are Go maps: a function on the paths that have an entry.
NoRoutes == [p \in {} |-> 0]
Updated(old, new) ==
    [p \in DOMAIN old \cup DOMAIN new |->
        IF p \in DOMAIN new THEN new[p] ELSE old[p]]

(***************************************************************************)
(* The dependency graph of a manifest set.                                 *)
(***************************************************************************)
GraphDocs(c) == Defined(c) \ Configs

NodesByFile(c, files) == {d \in GraphDocs(c) : Home[d] \in files}

AffectedArtefacts(c, seeds) ==
    {a \in Artefacts \cap GraphDocs(c) : Reads(a) \cap seeds # {}}

NeedsAllPagesRerender(seeds) == seeds \cap (Pages \cup Artefacts) # {}

\* A selective refresh needs every changed file to have a node in the graph of
\* the documents just loaded, and an All Pages frame from an earlier refresh.
BugSelectIfAnyMapped(c, changed) ==  \* mutant: one mapped file is enough
    Nil \notin changed /\ framed /\ NodesByFile(c, changed) # {}

CanSelect(c, changed) ==
    /\ Nil \notin changed
    /\ framed
    /\ \A f \in changed : \E d \in NodesByFile(c, changed) : Home[d] = f

(***************************************************************************)
(* MergeRequests: one request without files makes the whole window full.   *)
(***************************************************************************)
MergeRequests(reqs) == IF Nil \in reqs THEN {Nil} ELSE reqs

-----------------------------------------------------------------------------
NoJob == [changed |-> {Nil}, left |-> {}, read |-> [d \in Docs |-> 0],
          duplicate |-> FALSE, selective |-> FALSE, todo |-> {},
          routeMap |-> NoRoutes]

Init ==
    /\ disk = [d \in Docs |-> IF d \in Absent THEN 0 ELSE 1]
    /\ health = [f \in Files |-> "ok"]
    /\ edits = 0
    /\ build = 1
    /\ events = <<>> /\ queue = <<>>
    /\ dirs = {} /\ booted = FALSE /\ watched = {}
    /\ pending = {} /\ armed = FALSE
    /\ pc = "reload"
    /\ job = NoJob
    /\ lastDocs = [d \in Docs |-> 0]
    /\ framed = FALSE
    /\ assets = {}
    /\ loaded = 1 /\ stamp = 1 /\ stale = FALSE
    /\ routes = NoRoutes /\ contexts = NoRoutes /\ served = {}
    /\ state = [done |-> FALSE, pending |-> FALSE, err |-> FALSE]

-----------------------------------------------------------------------------
(* The environment: somebody saves files and rebuilds the plugin.          *)

\* fsnotify reports changes of registered directories only.
Notify(f, op) ==
    events' = IF f \in watched THEN Append(events, [file |-> f, op |-> op])
                               ELSE events

MaySave == edits < MaxEdits /\ ("boot-edit" \in Moves \/ booted)

Healths(f) ==
    {"ok"} \cup (IF "break-file" \in Moves THEN {"broken"} ELSE {})
           \cup (IF "duplicate" \in Moves THEN {"duplicate"} ELSE {})

\* A save writes one document of a file, adds it, or drops it.
Save(f) ==
    /\ MaySave
    /\ edits' = edits + 1
    /\ \E d \in DocsIn(f), h \in Healths(f) :
         /\ \/ disk' = [disk EXCEPT ![d] = edits + 2]
            \/ /\ "remove-document" \in Moves
               /\ disk' = [disk EXCEPT ![d] = 0]
         /\ health' = [health EXCEPT ![f] = h]
    /\ Notify(f, "write")
    /\ UNCHANGED <<build, bootVars, queue, pending, armed, pc, job, lastDocs,
                   framed, assets, pluginVars, serverVars, state>>

DeleteFile(f) ==
    /\ "delete-file" \in Moves
    /\ MaySave
    /\ edits' = edits + 1
    /\ disk' = [d \in Docs |-> IF Home[d] = f THEN 0 ELSE disk[d]]
    /\ health' = [health EXCEPT ![f] = "ok"]
    /\ Notify(f, "remove")
    /\ UNCHANGED <<build, bootVars, queue, pending, armed, pc, job, lastDocs,
                   framed, assets, pluginVars, serverVars, state>>

RebuildPlugin ==
    /\ build <= MaxBuilds
    /\ build' = build + 1
    /\ UNCHANGED <<disk, health, edits, bootVars, loopVars, pc, job, lastDocs,
                   framed, assets, pluginVars, serverVars, state>>

-----------------------------------------------------------------------------
(* Watcher goroutine, plugin poll and the debounce loop.                   *)

BugEnqueueWhenIdle(req) ==  \* mutant: nobody listens during a refresh
    queue' = IF pc = "idle" /\ Len(queue) < ChanCap THEN Append(queue, req) ELSE queue

BugEnqueuePastEnd(req) ==  \* mutant: off by one
    queue' = IF Len(queue) <= ChanCap THEN Append(queue, req) ELSE queue

\* The send is non-blocking: a full channel loses the request.
Enqueue(req) == queue' = IF Len(queue) < ChanCap THEN Append(queue, req) ELSE queue

\* process skips everything but Create and Write.
Process ==
    /\ events # <<>>
    /\ events' = Tail(events)
    /\ IF Head(events).op = "write"
         THEN Enqueue(IF Incremental THEN Head(events).file ELSE Nil)
         ELSE UNCHANGED queue
    /\ UNCHANGED <<diskVars, bootVars, pending, armed, pc, job, lastDocs,
                   framed, assets, pluginVars, serverVars, state>>

\* poll asks for a full refresh each second while the binary differs from the
\* stamp.  Bound: a poll that would only queue a second such request is left
\* out, it changes nothing but the length of the queue.
Poll ==
    /\ booted
    /\ build # stamp
    /\ Nil \notin {queue[i] : i \in 1 .. Len(queue)} \cup pending
    /\ Enqueue(Nil)
    /\ UNCHANGED <<diskVars, bootVars, events, pending, armed, pc, job,
                   lastDocs, framed, assets, pluginVars, serverVars, state>>

BugSetRefreshPending == UNCHANGED state  \* mutant: the old result stays up

SetRefreshPending == state' = [state EXCEPT !.pending = TRUE]

BugResetTimer == UNCHANGED armed  \* mutant: the timer is not restarted

ResetTimer == armed' = TRUE

Receive ==
    /\ pc = "idle"
    /\ queue # <<>>
    /\ queue' = Tail(queue)
    /\ pending' = pending \cup {Head(queue)}
    /\ ResetTimer
    /\ SetRefreshPending
    /\ UNCHANGED <<diskVars, bootVars, events, pc, job, lastDocs, framed,
                   assets, pluginVars, serverVars>>

TimerFires ==
    /\ pc = "idle"
    /\ armed
    /\ armed' = FALSE
    /\ pending' = {}
    /\ IF pending = {}
         THEN UNCHANGED <<pc, job>>
         ELSE /\ pc' = "reload"
              /\ job' = [NoJob EXCEPT !.changed = MergeRequests(pending)]
    /\ UNCHANGED <<diskVars, bootVars, events, queue, lastDocs, framed,
                   assets, pluginVars, serverVars, state>>

-----------------------------------------------------------------------------
(* doRefresh and refresh.Run, under the refresh mutex.                     *)

\* SetRefreshResult.  The boot goroutine goes on to create the watcher, later
\* refreshes return to the loop.
Finish(err) ==
    /\ pc' = IF booted THEN "idle" ELSE "watch"
    /\ job' = NoJob
    /\ state' = [done |-> TRUE, pending |-> FALSE, err |-> err]

\* The watcher registers the directories the first load visited, or walks the
\* tree itself when there are none.
StartWatcher ==
    /\ pc = "watch"
    /\ watched' = IF dirs = {} THEN Files ELSE dirs
    /\ booted' = TRUE
    /\ pc' = "idle"
    /\ UNCHANGED <<diskVars, dirs, loopVars, job, lastDocs, framed, assets,
                   pluginVars, serverVars, state>>

BugAfterReload(changed, mark) == changed  \* mutant: the reload forces nothing

\* While pages may come from the old plugins, every refresh is a full one.
AfterReload(changed, mark) == IF mark THEN {Nil} ELSE changed

\* Without plugins that loaded there is no Run.
Proceed ==
    IF loaded' = 0
      THEN Finish(TRUE)
      ELSE /\ pc' = "hook"
           /\ job' = [job EXCEPT !.changed = AfterReload(@, stale')]
           /\ UNCHANGED state

\* reloadIfChanged: nothing has changed since the last load, or Reload stamps the
\* binary and then ...
Reload ==
    /\ pc = "reload"
    /\ UNCHANGED <<diskVars, bootVars, loopVars, lastDocs, framed, assets,
                   loaded, stale, serverVars>>
    /\ IF build = stamp
         THEN Proceed /\ UNCHANGED stamp
         ELSE pc' = "load" /\ stamp' = build /\ UNCHANGED <<job, state>>

\* ... starts it: what is there by now, and it may not load.
LoadPlugins ==
    /\ pc = "load"
    /\ \/ loaded' = build /\ stale' = TRUE
       \/ "fail-plugin" \in Moves /\ loaded' = 0 /\ UNCHANGED stale
    /\ Proceed
    /\ UNCHANGED <<diskVars, bootVars, loopVars, lastDocs, framed, assets,
                   stamp, serverVars>>

\* plugins.refreshed(): any Run without an error clears the stale mark.
Succeed == stale' = FALSE /\ Finish(FALSE)

Hook ==
    /\ pc = "hook"
    /\ \/ /\ pc' = "read"
          /\ job' = [job EXCEPT !.left = Files]
          /\ UNCHANGED <<stale, state>>
       \/ /\ "fail-hook" \in Moves
          /\ Succeed                           \* Run returns nil, nil
    /\ UNCHANGED <<diskVars, bootVars, loopVars, lastDocs, framed, assets, loaded,
                   stamp, serverVars>>

\* LoadDirWithOptions walks the files one by one and stops at the first that
\* does not load; the walk is not atomic with respect to saves.
ReadFile(f) ==
    /\ pc = "read"
    /\ f \in job.left
    /\ dirs' = IF booted THEN dirs ELSE dirs \cup {f}
    /\ IF health[f] = "broken"
         THEN Finish(TRUE)
         ELSE /\ job' = [job EXCEPT
                   !.left = @ \ {f},
                   !.read = [d \in Docs |-> IF Home[d] = f THEN disk[d] ELSE @[d]],
                   !.duplicate = @ \/ health[f] = "duplicate"]
              /\ UNCHANGED <<pc, state>>
    /\ UNCHANGED <<diskVars, booted, watched, loopVars, lastDocs, framed, assets,
                   pluginVars, serverVars>>

\* The new documents replace lastDocs; then the artefacts are collected and the
\* refresh decides what to render.
Plan ==
    /\ pc = "read"
    /\ job.left = {}
    /\ lastDocs' = job.read
    /\ \/ job.duplicate /\ Finish(TRUE)
       \/ /\ ~job.duplicate
          /\ LET select == CanSelect(job.read, job.changed)
                 seeds == NodesByFile(job.read, job.changed)
             IN IF select
                  THEN /\ job' = [job EXCEPT
                                    !.selective = TRUE,
                                    !.todo = AffectedArtefacts(job.read, seeds)]
                       /\ pc' = IF NeedsAllPagesRerender(seeds)
                                  THEN "all-pages" ELSE "render"
                  ELSE /\ job' = [job EXCEPT
                                    !.todo = Artefacts \cap Defined(job.read)]
                       /\ pc' = "all-pages"
          /\ UNCHANGED state
    /\ UNCHANGED <<diskVars, bootVars, loopVars, framed, assets, pluginVars,
                   serverVars>>

BugBroadcastContent(p, page) ==  \* mutant: a cached context is kept
    contexts' = IF p \in DOMAIN contexts THEN contexts
                                         ELSE Updated(contexts, [q \in {p} |-> page])

BroadcastContent(p, page) == contexts' = Updated(contexts, [q \in {p} |-> page])

BugKeptAssets == {}  \* mutant: a selective refresh forgets the assets too

KeptAssets == IF job.selective THEN assets ELSE {}

\* All Pages comes first.  Behind it a full rebuild forgets the assets of every
\* artefact, a selective one keeps them.
RenderAllPages ==
    /\ pc = "all-pages"
    /\ \/ /\ framed' = TRUE
          /\ BroadcastContent(Root, Rendered(Root, lastDocs, loaded))
          /\ assets' = KeptAssets
          /\ pc' = "render"
          /\ UNCHANGED <<job, state>>
       \/ /\ "fail-report" \in Moves
          /\ Finish(TRUE)
          /\ UNCHANGED <<framed, contexts, assets>>
    /\ UNCHANGED <<diskVars, bootVars, loopVars, lastDocs, pluginVars, routes,
                   served>>

\* One artefact: its page goes to routeMap, its context to the clients at once.
Render(a) ==
    LET page == Rendered(a, lastDocs, loaded)
    IN /\ job' = [job EXCEPT !.todo = @ \ {a},
                             !.routeMap = Updated(@, [p \in {a} |-> page])]
       /\ BroadcastContent(a, page)
       /\ assets' = assets \cup {a}
       /\ UNCHANGED <<pc, state>>

\* A report that fails to render ends the refresh before its routes are set.
RenderReport(a) ==
    /\ pc = "render"
    /\ a \in job.todo \cap Reports
    /\ \/ Render(a)
       \/ /\ "fail-report" \in Moves
          /\ Finish(TRUE)
          /\ UNCHANGED <<contexts, assets>>
    /\ UNCHANGED <<diskVars, bootVars, loopVars, lastDocs, framed, pluginVars,
                   routes, served>>

\* A document that fails to render is skipped.  Documents follow the reports.
RenderDocument(a) ==
    /\ pc = "render"
    /\ job.todo \cap Reports = {}
    /\ a \in job.todo
    /\ \/ Render(a)
       \/ /\ "fail-document" \in Moves
          /\ job' = [job EXCEPT !.todo = @ \ {a}]
          /\ UNCHANGED <<pc, state, contexts, assets>>
    /\ UNCHANGED <<diskVars, bootVars, loopVars, lastDocs, framed, pluginVars,
                   routes, served>>

BugNewRoutes == Updated(routes, job.routeMap)  \* mutant: routes are only added

\* UpdateContentRoutes after a selective refresh, else SetContentRoutes.
NewRoutes == IF job.selective THEN Updated(routes, job.routeMap) ELSE job.routeMap

Publish ==
    /\ pc = "render"
    /\ job.todo = {}
    /\ served' = assets
    /\ routes' = NewRoutes
    /\ Succeed
    /\ UNCHANGED <<diskVars, bootVars, loopVars, lastDocs, framed, assets, loaded,
                   stamp, contexts>>

-----------------------------------------------------------------------------
Environment == \E f \in Files : Save(f) \/ DeleteFile(f)

Loop == Process \/ Poll \/ Receive \/ TimerFires

Run == \/ Reload \/ LoadPlugins \/ Hook \/ Plan \/ RenderAllPages \/ Publish
       \/ \E f \in Files : ReadFile(f)
       \/ \E a \in Artefacts : RenderReport(a) \/ RenderDocument(a)

Next == Environment \/ RebuildPlugin \/ StartWatcher \/ Loop \/ Run

Spec == Init /\ [][Next]_vars

\* The goroutines keep running; editors and compilers need not.  The channel
\* case of the select is fair because its sends are finite in number.
Fairness == /\ WF_vars(Process) /\ WF_vars(Poll) /\ WF_vars(Receive)
            /\ WF_vars(TimerFires) /\ WF_vars(StartWatcher) /\ WF_vars(Run)

LiveSpec == Spec /\ Fairness

-----------------------------------------------------------------------------
(***************************************************************************)
(* Properties.                                                             *)
(***************************************************************************)

Request == Files \cup {Nil}
Event == [file : Files, op : {"write", "remove"}]
Page(p) == [docs : [Reads(p) -> Versions], plugin : 1 .. MaxBuilds + 1]
IsRoutes(r, paths) == DOMAIN r \subseteq paths /\ \A p \in DOMAIN r : r[p] \in Page(p)
Step == {"reload", "load", "hook", "read", "all-pages", "render", "watch", "idle"}
IsJob(j) ==
    /\ DOMAIN j = DOMAIN NoJob
    /\ j.changed \subseteq Request
    /\ j.left \subseteq Files /\ j.read \in Content
    /\ j.duplicate \in BOOLEAN /\ j.selective \in BOOLEAN
    /\ j.todo \subseteq Artefacts
    /\ IsRoutes(j.routeMap, Artefacts)

\* Every variable keeps its type; refreshCh never holds more than its capacity.
TypeOK ==
    /\ disk \in Content
    /\ health \in [Files -> {"ok", "broken", "duplicate"}]
    /\ edits \in 0 .. MaxEdits
    /\ build \in 1 .. MaxBuilds + 1
    /\ events \in Seq(Event)
    /\ queue \in Seq(Request) /\ Len(queue) <= ChanCap
    /\ dirs \subseteq Files /\ watched \subseteq Files /\ booted \in BOOLEAN
    /\ pending \subseteq Request /\ armed \in BOOLEAN
    /\ pc \in Step
    /\ IsJob(job)
    /\ lastDocs \in Content
    /\ framed \in BOOLEAN /\ assets \subseteq Artefacts
    /\ loaded \in 0 .. MaxBuilds + 1 /\ stamp \in 1 .. MaxBuilds + 1
    /\ stale \in BOOLEAN
    /\ IsRoutes(routes, Artefacts) /\ IsRoutes(contexts, Paths)
    /\ served \subseteq Artefacts
    /\ state \in [done : BOOLEAN, pending : BOOLEAN, err : BOOLEAN]

\* The loop has nothing left to do and the last refresh reported success.
AtRest == /\ booted /\ pc = "idle"
          /\ events = <<>> /\ queue = <<>> /\ pending = {}
          /\ build = stamp
          /\ ~state.err

Wanted(p) == Rendered(p, disk, build)

\* Whatever was saved and however the saves fell into the debounce window, a
\* preview at rest serves exactly one page per artefact on disk, rendered from
\* the files and the plugin as they are (refresh.go, Run: "unaffected routes
\* keep their cached content").  What clients swap in for a route is what a
\* reload of the page would show: the broadcast contexts and the installed
\* routes do not drift apart.
RoutesFresh ==
    AtRest => /\ routes = [a \in Artefacts \cap Defined(disk) |-> Wanted(a)]
              /\ \A a \in DOMAIN routes :
                    a \in DOMAIN contexts /\ contexts[a] = routes[a]

\* The same for the All Pages view, which a selective refresh may skip
\* (needsAllPagesRerender: "the All-Pages frame stays valid").
AllPagesFresh ==
    AtRest => Root \in DOMAIN contexts /\ contexts[Root] = Wanted(Root)

\* A preview at rest shows the project as it is on every page that it has.
PreviewFresh == RoutesFresh /\ AllPagesFresh

\* Every page that can be requested has its images in the asset table, also
\* after refreshes that rendered only some artefacts ("selective refreshes
\* preserve unchanged entries via the per-artefact cache").
RoutesHaveAssets == DOMAIN routes \subseteq served

\* A document whose saved version the last load did not see is still on its
\* way: an event, a queued request, an open debounce window, a refresh that has
\* not read its file yet - or the last refresh said that it failed.  In
\* particular the request a full channel drops is never the last one.
OnItsWay(d) ==
    \/ \E i \in 1 .. Len(events) : events[i].file = Home[d]
    \/ queue # <<>>
    \/ pending # {}
    \/ pc \in {"reload", "load", "hook"}
    \/ pc = "read" /\ (Home[d] \in job.left \/ job.read[d] = disk[d])
    \/ state.err

NoLostEdit == \A d \in Docs : lastDocs[d] = disk[d] \/ OnItsWay(d)

\* An open debounce window always has a running timer, otherwise its requests
\* would wait for the next save.
WindowCloses == pending # {} => armed

\* While a refresh runs because of a file change, and while one waits in the
\* window, refresh-state does not answer with the previous result
\* (SetRefreshPending: "Until then the last result is stale").
NoStaleResult ==
    booted /\ (pending # {} \/ pc # "idle") => state.pending

\* A change in the window is on its way to a refresh, and nobody is told that the
\* pages are up to date before it ends.
WindowHolds == WindowCloses /\ NoStaleResult

\* Until a refresh succeeds after a plugin reload, no page may be rendered
\* selectively: the routes it keeps may come from the old plugin.  So the routes
\* of a preview without the stale mark are all of the loaded plugin.
OnePlugin ==
    pc = "idle" /\ booted /\ ~stale /\ loaded # 0
        => \A a \in DOMAIN routes : routes[a].plugin = loaded

\* Every save is shown or its refresh reports an error, unless another save
\* comes first: no save is forgotten, whatever the queue drops.
Shown == AtRest /\ routes = [a \in Artefacts \cap Defined(disk) |-> Wanted(a)]

EverySaveShown ==
    \A n \in 0 .. MaxEdits :
        (edits = n) ~> (edits # n \/ Shown \/ (state.err /\ ~state.pending))

\* Documents that fail to render have no page after a full refresh.
Skippable == IF "fail-document" \in Moves THEN Documents ELSE {}

Promise == INSTANCE Preview WITH
    files <- disk, project <- lastDocs, plugin <- loaded, pages <- routes,
    sent <- contexts, Partial <- Incremental, Skipped <- Skippable

\* The loop implements Preview: however saves, failing loads, reloads and renders
\* interleave, no page goes back to an older version of a document or of the
\* plugin, routes are set together and from one load, and a full refresh leaves
\* exactly the pages of that load (State.lastDocs, BroadcastContent,
\* SetContentRoutes and UpdateContentRoutes).
KeepsPromise == Promise!Spec
=============================================================================
