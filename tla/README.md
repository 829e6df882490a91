# bino: a TLA+ verification project

`bino` renders reports and documents out of YAML manifests. `bino build` renders
once, `bino preview` keeps a browser up to date while somebody edits, `bino serve`
renders for each viewer, `bino daemon` serves editors and other clients, `bino lsp`
analyzes what is typed, `bino registry` brings packages into a project. This
directory models the parts of the program whose correctness depends on the order of
events: which save a page shows, whose rows a viewer gets, which process serves a
port, what a client is told when answers overtake each other, what a command leaves
behind when it dies half way.

All paths below are relative to the repository. `PROJECT.json` maps every
definition to the lines it translates.

Contents: the inventory of the system, the modules, the properties, the runs and
their bounds, the fairness, where the code and its documentation disagree, the
proofs, what is left out, and the plan.

## 1. Inventory

### Modelled, at least in part

| Component | State | Operations | Talks to |
|---|---|---|---|
| Live-reload loop: `internal/cli/preview.go`, `preview_plugins.go` | `refreshCh` (16), the debounce window and timer, the refresh mutex, `visitedDirs`, `previewPlugins.stale` | boot, `enqueue`, the loop, `doRefresh`, `reloadIfChanged`, `refreshed`, `poll` | watcher (callback), refresh (call), server (call), plugin manager (call) |
| Incremental refresh: `internal/preview/refresh/refresh.go` | `State`: last documents, artefacts, All Pages frame, asset tables, embedding cache, generation, live overrides | `Run`, `MergeRequests`, `SetLiveOverride`, `ClearLiveOverride` | loader, graph, pipeline, server, explorer |
| Embedding endpoint: `refresh/embed.go` | shares `State` | `EmbedByName`, `embedFromOverlay` | request handlers of the server, dataset execution |
| Preview PDF: `internal/cli/preview_pdf.go` | shares the refresh mutex | `build` | loader, pipeline, Chrome |
| Dependency graph: `internal/report/graph` | a graph per load | `NodesByFile`, `AffectedArtefacts` | refresh |
| File watcher: `internal/watchers/watcher.go` | registered directories | `Run`, `process`, `addTree` | fsnotify, the loop's handler |
| Preview server: `internal/httpserver/server.go`, `datastore.go` | content routes, context cache, data store, SSE clients, refresh state | `SetContentRoutes`, `UpdateContentRoutes`, `BroadcastContent`, `Put`, `handleEvents`, `handleContext`, `SetRefreshPending`, `SetRefreshResult` | refresh, pages |
| Page runtime: `internal/web/preview/preview-app.js` | what is shown, `contextFetchSeq`, ready flags | the SSE handlers, `fetchAndSwapContext` | server |
| Data explorer: `internal/preview/explorer/session.go` | a DuckDB session of its own | `NewSession`, `Refresh` | boot goroutine, refresh |
| Dataset execution: `internal/report/dataset`, `datasource` | CSV files of inline sources, views of a session | `executeDataSets`, `RegisterViews`, cleanup | pipeline, embedding |
| Plugin manager: `internal/plugin/manager.go` | stamps, loaded plugins | `Changed`, `Reload` | loop |
| Plugin host service: `internal/plugin/hostservice.go` | dataset results, the directory written for them, how many queries read it | `SetDatasets`, `QueryDuckDB`, `Close` | pipeline, plugins (callback) |
| Build pipeline: `internal/cli/build.go`, `internal/report/pipeline`, with `internal/hooks`, `buildlog`, `pdf`, `signing` | the artefacts of one build, temporary PDFs, deferred removals, the log | selection, hooks, renders, prints, merges, metadata, signature, screenshots, log | loader, Chrome, plugin host, hooks |
| Report serving: `internal/cli/serve.go`, `internal/report/serve` | the page cache and its list, the mutex, the views of the session, the documents of the host service | the route functions: hook, parameters, cache, reload, register, query, answer | net/http (callback), loader, pipeline, plugin host |
| Daemon preview process: `internal/daemon/preview.go` | one child process and its status | `Start`, `Stop`, `Shutdown`, the output watcher, the kill goroutine | routes and MCP tools (call), SSE clients |
| Managed watch: `internal/daemon/managed.go`, `watchfilter.go`, `state.go` | references of the last refresh, dropped events, the loaded documents | the handler, the loop, `State.Refresh`, `finishRefresh` | watcher (callback), clients or the language server |
| Port file: `internal/daemon/portfile.go`, `internal/cli/daemon.go`, `lsp_server.go`, `mcp.go`, `vscode-bino/src/daemonClient.ts` | one file per project, several processes | write, read and judge, remove; connect, spawn, poll, reconnect, restart | the file system only |
| Language server: `internal/lsp`, `internal/cli/lsp_inprocess.go` | buffers, inflight analyses, draft and project findings | `DidOpen`, `DidChange`, `DidClose`, `Schedule`, `run`, `refreshProjectDiagnostics`, `publishFile` | the editor, the daemon's event stream or a managed watch of its own |
| Registry commands: `internal/registry`, `internal/cli/registry*.go` | `bino.toml`, `bino.lock`, the package store | resolution of a closure, add, update, install, remove, the plan of file changes | the registry server |

### What makes each of them correct

* the loop: no save is forgotten, a window that is open closes, a result that is
  older than an edit is not reported as the answer to it;
* the refresh: a selective refresh leaves what a full one would have produced;
  routes, contexts and asset table agree with each other; no mix of plugins;
* the embedding cache: no body that a refresh has made outdated, and none of an
  unsaved buffer, is stored; a request returns;
* PDF build, embedding and refresh do not destroy each other's scratch files;
* the server and the page: a page ends with the newest content, does not go
  back to older content, and finds the data its content refers to;
* serving: a viewer sees the rows of his own parameters, plugins the documents of
  the request they work for, a page finds its data while it is cached;
* the preview process: one preview is meant to run, nobody is told that another
  process than the managed one is ready, what was stopped dies;
* the managed watch: an event dropped as irrelevant during a refresh is checked
  again; the state never falls back;
* the port file: at most one daemon serves, and the editor finds it again after
  a crash;
* the language server: the findings end up being those of the text in the buffer
  and of the loaded project;
* the registry: a success means that the store is what the lock says, install
  accepts what add and update leave behind, where no package is needed at two refs;
* the build: parts in the order of the final file, metadata before the signature
  before the post-render hook; temporary files go; a plugin sees the data of the
  artefact that is built, and its files last as long as it reads them.

### Hard behaviours

The preview has five goroutines (boot, watcher, poll, loop, explorer), HTTP
handlers and pages that interleave; its request queue drops; its event streams
drop, break and reconnect; responses overtake each other; a load reads the files
one at a time while they are being saved. Viewers of `bino serve` share one DuckDB
session whose views each request replaces. The daemon has a watcher goroutine, a
loop, a reader per subprocess and a timer per stopped one. Daemons and clients
are processes that synchronize by one file and may be killed at any step. The
language server starts a goroutine per timer and one per project change. A
registry command changes several files and may die between any two, or inside the
write of one; a build has
a dozen steps per artefact, each of which may fail or find the context cancelled.

### Not modelled

| Component | Why |
|---|---|
| Hook bus and protocol of plugins | calls one plugin after another over gRPC; no state shared beyond the host and the manager |
| Template engine versions, `internal/engine` | a choice among installed versions and a download; planned |
| Updater, `internal/updater` | two renames that run once; nothing runs after a crash between them |
| Daemon results and request handlers | read the state of a moment; the registry handlers call what `Packages` models |
| MCP server | its preview tools are `Start` and `Stop` of `PreviewProcess`, its reload is a tool of `PortFile`; the rest only calls |
| Manifest loader and schemas, SQL and references, renderers, lint | functions from documents to text, findings or errors: a load succeeds, fails or gives duplicates, a render is the record of what it read (which pages it includes is in `Build`) |
| DuckDB session, Chrome, PDF files | wrappers of libraries and programs |
| Commands, scaffolding, shared helpers, boot status, extensions, documentation, installers | no program state that several steps or actors change |

These are most of the repository's lines. Nearly all of them turn one value into
another without a choice that the order of events could affect. `PROJECT.json` lists every part with the reason, and
every hazard with the line where it bites.

## 2. Modules

| Module | Models |
|---|---|
| `PreviewRefresh` | editor, watcher, queue, debounce, plugin reload, refresh, routes |
| `PreviewServices` | embedding requests, overrides, PDF build, explorer and dataset runs around the refresh mutex |
| `LiveView` | context cache, data store, SSE hub, event streams and the page runtime |
| `Serve` | the requests of viewers, the page cache, the shared session and host |
| `PreviewProcess` | the daemon's preview subprocess: start, stop, kill, exit, shutdown |
| `PortFile` | the life of the daemons of a project and how clients find them |
| `ManagedWatch` | watch handler, filter, debounce and refresh of a managed state |
| `LanguageServer` | buffers, analyses, project findings and publications |
| `EditorSession` | `bino lsp` without a daemon: `LanguageServer` composed with `ManagedWatch` |
| `Preview` | abstract: what the preview promises of the pages it sends and serves; `PreviewRefresh` is shown to implement it |
| `Follower` | abstract: a copy of the project's files that follows them and never goes back; `ManagedWatch` is shown to implement it |
| `Packages` | the registry commands, the lock and the store |
| `PluginHost` | dataset results and temporary files behind the calls of plugins |
| `Build` | one `bino build`, composed with `PluginHost` |
| `MC...` | the instances that TLC checks: functions over model values |
| `PreviewRefreshProofs`, `PreviewServicesProofs`, `LiveViewProofs`, `ServeProofs`, `PreviewProcessProofs` | theorems about the module of that name and their proofs |
| `ProjectFilesProofs` | theorems about `PortFile` and `Packages` |
| `EditorSessionProofs` | theorems about `ManagedWatch`, `LanguageServer` and their composition |
| `BuildProofs` | theorems about `PluginHost` and `Build` |

The three preview specifications overlap in the refresh, which each looks at from
its own side: `PreviewRefresh` has every step of it and one observer, the routes;
`PreviewServices` reduces it to what changes the shared state and the scratch
directory; `LiveView` reduces it to the order of its broadcasts. They are not
composed: each variable they have in common (documents, mutex, contexts) is
written by the same steps of `Run` in all of them.

`EditorSession` and `Build` are compositions. In the first `Tell`, the callback of
the watch loop, is one step of both parts; every other step belongs to one of
them. `EditorSession` extends `LanguageServer` and instantiates `ManagedWatch` (`W`),
whose `loaded` is the project the server reports on; what is assumed of the constants
of both is stated there. `Build` extends `PluginHost`: the build replaces the dataset results and
closes the host, while queries of plugins interleave with it.

### PreviewRefresh

A file defines documents. The content of a document is the number of the edit
that wrote it, 0 if its file does not define it (any more). A rendered page is
the record of the versions and the plugin version that the render read, so that
"stale" is inequality.

| Variable | Code |
|---|---|
| `disk`, `health`, `edits`, `build` | the files, whether they load, and the plugin's binary |
| `events` | what fsnotify has delivered and `Watcher.Run` has not processed |
| `dirs`, `watched`, `booted` | `visitedDirs`, the registered directories, the end of boot |
| `queue`, `pending`, `armed` | `refreshCh`, the window, the `debounce` timer |
| `pc`, `job` | the local variables of `doRefresh` and `Run` |
| `lastDocs`, `framed`, `assets` | `State.lastDocs`, `allPagesFrameHTML`, `perArtefactAssets` |
| `loaded`, `stamp`, `stale` | the plugins in use, the manager's stamp, `previewPlugins.stale` |
| `routes`, `contexts`, `served` | `Server.routes`, `contextCache`, `localAssets` |
| `state` | what `/__preview/refresh-state` answers from |

`Save`, `DeleteFile` and `RebuildPlugin` are the environment; `Process` is one
event in the watcher; `Poll` one tick of the plugin poll; `Receive` and
`TimerFires` are the two cases of the loop's `select`. A refresh is `Reload`
(which stamps the binary), `LoadPlugins` (which starts whatever is there by
then), `Hook`, one `ReadFile` per file (saves fall between them), `Plan`,
`RenderAllPages`, one `RenderReport` or `RenderDocument` per artefact and
`Publish`. A step that fails ends it with `Finish(TRUE)`.

The window is a set because `MergeRequests` removes duplicates. Its reason text
is left out. `Nil` is the request without files, which makes a refresh full.

### Preview

What the pages of a preview promise, without queue, window, plan or cache: files that
change, the documents of the last load, the plugin, the pages under the routes and the
pages sent last. A refresh may fail, be skipped or be late at every point; the
module says what it may still not do. `Partial` is `--incremental`, `Skipped` the
artefacts that a full refresh may leave out.

### PreviewServices

Everything the refresh mutex protects, plus the scratch directory that it only
partly protects. `RefreshStart` is a refresh up to the moment that its snapshot
is complete (nobody else can see the steps in between, because they are under
the mutex); `RunRegister` and `RunQuery` are its dataset run, or that of a PDF
build. One such pair stands for all the runs of a refresh.

An embedding request is `Capture` (the first locked section), `EmbedRegister`
and `EmbedQuery` (the render, without the mutex) and `Return` (the second locked
section). With an override it is `CaptureOverrides` and `LoadOverlay` instead,
and nothing is stored. Every embedded target uses datasets; one that does not is a
request that skips its two middle steps. `disturbed` is a history variable: an
embedding removed the files, or replaced the view, of a dataset run that is on its
way. The code lets it (section 6); what must hold beside it is stated with it.

`job` and `request` hold local variables of handlers; `mutex` says who holds the
refresh mutex over several steps; `scratch` and `view` are the CSV directory and
the view of the shared DuckDB session; `explorer` is the boot goroutine of the explorer, and
the documents its session was filled with.

A refresh reloads the plugins first and may give up behind that: it reports an error,
or its pre-refresh hook fails and it reports none (`RefreshStart`, three ways out).
`snapped` is a history variable: the plugins of the last refresh that took a snapshot.

### LiveView

`contexts` is `contextLRU` with its entries in order of use, `store` one dataset
of the data store, `stream` the hub's channel and the connection of each page as
one queue, `page` and `fetches` the runtime's variables and requests. An event
carries a path; a page then pulls the content. `contextFetchSeq` is the flag
`latest` of a request: a new request clears it in the others.

`missed` is a history variable: an event was dropped since the page last asked.
`Subscribe`, `Lose` and `Answer` are the server's handlers, the `Handle...`
actions the listeners of `preview-app.js`, `Arrive` a response. A reload of the
page after "plugins-reloaded" is `NewLoad`.

### Serve

A request carries one parameter value (`NoValue` for none, or for a required one
that is missing or rejected). A load is identified by the edit it saw and the value
put into the manifests; rows by the load whose views were queried and the data
those views read.

| Variable | Code |
|---|---|
| `mutex` | `renderMu` |
| `cache`, `newer` | `serveRenderCache`: its entries, and for each key the keys behind it in `lru` |
| `views`, `attached` | the views of the shared DuckDB session, the database it is connected to |
| `mixed` | history: a view could not be replaced, or a database was kept |
| `host` | the documents of the host service |
| `req` | the local variables of each client's handler and where it is |
| `shown` | history: the page in each browser, and which keys were used since it was |

`Ask` is a request, `HookReturns` the pre-request hook before the lock, `Lock` the
mutex. An artefact's route looks into the cache first (`Hit`) and loads on a miss
(`Load`); a route with layout pages loads before it looks. `Register`, `Query` and
`Store` are `RegisterViews`, the queries of the datasets and `cache.Set`; `Send` is
`BuildHTML`, which runs the datasets once more if the parameter offers the rows of
one. `Fail` is every error return, with its deferred unlock. The list is kept as sets
because all that the code asks of it is which key is in front.

### PreviewProcess

| Variable | Code |
|---|---|
| `cmd`, `status` | `p.cmd`, `p.status`, under `p.mu` |
| `proc`, `sig`, `unread`, `port` | the subprocesses: life, strongest signal, unread ready line, who listens on the port |
| `watcher`, `killer` | the goroutine that reads the output, the one that waits three seconds |
| `told` | the last `preview-status` event |
| `daemon`, `swept` | the daemon's shutdown and the process `Shutdown` waits for |

A locked region is one action; `onStatus` runs behind the unlock and is one of
its own, so that events can be sent in an order other than that of the state
changes. A subprocess binds the port before it prints its ready line and dies
when the port is taken, by a preview that is still stopping or by a foreign
server. Time is abstract: a timer may fire as soon as it runs.

### PortFile

`file` is absent, torn (truncated and not yet written: `WritePortFile` is not
atomic) or names a daemon. Reading and judging are two steps, as in
`ReadPortFile`, and so are writing's truncation and content. `phase` is the life
of each daemon from the check for another one to the end of its drain; `editor`
is the state machine of `daemonClient.ts`; `tool` is a language or MCP server
that looks once and proxies or works alone. `stolen` is a history variable: a
live daemon's file was removed or overwritten by somebody who had not judged that
content. Process ids are never reused.

A connected editor learns of the end of its daemon in two ways, in either order:
`StreamEnds` is the error or end of the event stream, which disconnects the client;
`SpawnedExits` the exit of a process that it has started, which leads to a reconnect
only while the client is still connected.

### ManagedWatch, LanguageServer, EditorSession, Follower

In `ManagedWatch` a file's content is the number of its last edit, and an edit of
a manifest chooses the data files that it names. `events` are files whose event
the handler has not seen; `refs`, `refreshing` and `dropped` are the handler's
locked fields; `queue` counts the reasons in the channel; `toRead` and `read` are
the locals of `State.Refresh`, which reads file by file; `loaded` and `documents`
are the state. `unseen` are files changed between the first load and the start of
the watcher, `broken` says that the last refresh failed.

In `LanguageServer` a text is a number. An inflight record of the analyzer, its
timer and its goroutine are one element of `Runs`; `pending` is the analyzer's map
and `cancelOf` whose context a record cancels. `publishFile` merges under the lock
and sends afterwards: two actions. `Fetches` are the goroutines that
`onProjectChange` starts.

`Follower` states what every copy of the project's files promises at least: the
files change on their own, an entry of the copy moves only forward and never past
its file. `ManagedWatch` implements it with `disk` for the source and `loaded` for
the copy (`StateFollows`).

### Packages

A ref is a version (a pin) or a tag; `tagged` is the version that each tag of a package
points to. A lock entry has a version, the tag it was resolved by (`Untagged` for a
pin), whether it is a direct dependency, and what it needs. A command that resolves (`Sync`) starts `visit` with
its roots; `stack` holds the calls of `visit` that are open, each with the demands
that wait and the packages above it, which the cycle check looks at. `Visit` takes
the next demand in the order of names: it fails, meets a package that is resolved
(`VisitAgain`) or resolves a new one and calls itself for what that needs
(`VisitNew`); `Return` leaves a call. Between two answers of the server a version may
be published. Then `Fetch` or `FetchFails` (everything is verified in memory before a
file changes), one `Step` per file of the plan, the lock, the declarations, and
`Finish`; `Interrupt` ends the command between any two, or inside the removal of a
package (`HalfSwept`) or the write of a file (`HalfWritten`). A write goes to a
temporary file that is renamed, so that a killed one leaves the old file as it was and
the temporary one beside it: `residue` holds the packages with such a file. `Publish`
brings a version and moves some tags to it, `Tamper` edits a file of the store or
checks the project out anew.

### PluginHost and Build

`viewDir` is the directory of the current results, `viewUsers` how many queries the
host counts in each, `tmp` what is on disk. A query takes the directory under the
lock, reads without it and releases it; `DropViews` removes a directory nobody
reads, the last query removes one that was dropped.

`Build` has a `stage` per step of `build.go` and `document.go`. A PDF is the
sequence of its parts with metadata and signature, `temp` the temporary files and
`deferred` those a pending deferred call removes. Every step may fail or find the
context cancelled; failure runs the deferred calls. The selection of artefacts and
of a report's pages (include and exclude lists, globs, refs with parameters,
constraints) are operators over the manifest set, and so is the renderer's filter: of
the selected pages a report prints those of its own format (`RenderLayoutPages`).

## 3. Properties

`PreviewRefresh`:

* `TypeOK`; `queue` is never longer than the channel.
* `RoutesFresh`: at rest, after a success, the routes are exactly the artefacts
  on disk, rendered from the files and the plugin as they are, and the broadcast
  contexts equal them.
* `PreviewFresh`: that, and All Pages shows the files as they are.
* `RoutesHaveAssets`: always, the asset table covers every route.
* `NoLostEdit`: a version that the last load missed is on its way, or the last
  refresh reported an error.
* `WindowHolds`: pending requests have a running timer (`WindowCloses`), and no old
  result is reported while a change is in the window or being rendered
  (`NoStaleResult`).
* `KeepsPromise` (refinement): the loop implements `Preview`. Whatever fails and
  wherever a refresh ends early, pages go only forward in the versions of each
  document and of the plugin, routes are set together and from one load, and what a
  full refresh leaves is that load: a page for each artefact that it defines, but for
  documents that failed to render, and none else. A selective refresh replaces or adds
  pages only.
* `OnePlugin`: without the stale mark all routes are of the loaded plugin.
* `EverySaveShown` (liveness): every save is shown or its refresh reports an
  error, unless the next save comes first.

`PreviewServices`:

* `TypeOK`, with the mutex held exactly by the dataset run under way.
* `CacheFresh`: each cached body is of the language of its key, of the current
  documents and target (when both halves of the snapshot are of one load), and of no
  older plugin than that of the last snapshot. That is the current plugin, unless a
  refresh behind it reloaded and gave up (section 6).
* `OwnRows`: refreshes and PDF builds do not take each other's rows. Each of their
  dataset queries reads the rows of its own snapshot, unless an embedding pointed the
  view at another version or removed the directory since the run registered
  (`disturbed`, the steps `Replaces` and `Removes`): the code lets it.
* `RequestsReturn` (liveness): an embedding request returns.

`LiveView`:

* `TypeOK`: streams and caches within their limits, no path cached twice, at
  most one request of a page is the latest.
* `NeverBack` (action property): the shown content never gets older, except by
  a page load.
* `ShowsLatest` (liveness): a page ends with the cached content of its view,
  unless an event was dropped and nothing has made it ask again.
* `DataKept`: the data of a recently rendered view is in the store.

`Serve`:

* `TypeOK`: the cache never exceeds its limit.
* `NothingMixed`: a page, cached or shown, and its parameter's options have the rows
  of the parameter value they belong to, unless a view could not be replaced or a
  database was kept (`RowsOwn`); while the datasets of a request with a parameter
  run, the host has the documents of that request (`HostOwn`).
* `DataReachable`: the data of a page that a browser shows can be fetched while
  fewer than `MaxEntries` other pages have been used since the page was.
* `MutexHeld`: whoever works on the session holds the mutex, and whoever has answered,
  with a page or an error, does not.

`PreviewProcess`:

* `OneManaged`: every live subprocess but the managed one was told to go, and
  somebody waits to kill it.
* `Truthful`: "running" is said of the process that listens on the port, or of one
  that has just died (`RunningServes`); when all subprocesses are gone, the clients
  were told so last (`NoGhost`).
* `ShutdownReaps`: Shutdown returns after the process it stopped has exited.
* `StoppedDies` (liveness): what was told to go goes, unless the daemon that
  watches it is gone first.

`PortFile`:

* `SecondDaemon`: two daemons serve only after a theft of the port file.
* `Recovers` (liveness): an editor that looks for a daemon or reconnects, when no
  daemon fails any more, comes to be connected with one that answers, whatever file a
  dead one has left; unless a daemon is hidden, draining, or none is left that it
  could start (a bound). That a crash brings it to look for one is another matter
  (`CrashRecovers`, section 6).

`LanguageServer`: `DraftFresh`, when no analysis of an open buffer is on its way
the draft findings are of the text it holds; `LatestAnalyzed` (liveness), a text
that stays is analyzed.

`EditorSession`:

* `ProjectFollows`: when nothing is on its way the findings are of the loaded
  project.
* `ChangesDue`: an outdated file that the project reads has a refresh coming.
* `ChangesReported` (liveness): such a change ends in the findings.
* `StateFollows` (refinement): the state implements `Follower`.

`Packages`:

* `StoreFollowsLock`: after a success the store has every file of the lock
  (`SuccessIsWhole`); once an interrupted command was run again, no file is left that
  no lock records, but for temporary files of killed writes, and those lie in packages
  of the lock (`RerunIsClean`).
* `InstallAccepts`: install accepts the lock that add and update leave, unless a
  package is followed at a tag and another package of the lock needs it at another
  tag or version (`Mixed`, section 6).
* `LockIsClosed`: always, what the lock holds has its dependencies in the lock, in
  one version that agrees with every pin.

`Build`:

* `Delivered`: in a build that reports success every selected artefact is its
  final file: the parts in order (of a report the pages that its refs name, that its
  constraints keep and that have its format), metadata, the signature if it has a
  profile, the hook called with that file; only a screenshot that it warned about may be
  missing. No other artefact has a file, and the log lists finished ones only.
* `TempsGone`: a finished build, however it ended, has no temporary PDF.
* `HostDirs`: a query that runs finds its files, and a directory that is neither
  current nor read is gone.
* `QueryOwn` (action property): a query takes the results of the artefact that is
  built, or none.

## 4. Runs

| Run | Module, configuration | Shows |
|---|---|---|
| `preview_selective` | MCPreviewRefresh, `PreviewSelective.cfg` | incremental mode, two saves, one of which adds a document, two plugin rebuilds whose load may fail, a queue with room |
| `preview_full` | MCPreviewRefresh, `PreviewFull.cfg` | `--incremental=false`, a queue of one, removed documents, broken files, duplicates, failing renders; with liveness and the refinement of `Preview` |
| `preview_all_moves` | MCPreviewRefresh, `PreviewAllMoves.cfg` | every move of the environment, for what holds under all of them |
| `services` | MCPreviewServices, `Services.cfg` | an embedding request, two targets, a save or an override, a PDF build, a plugin rebuild, duplicates, loads and pre-refresh hooks that fail; liveness (567 651 states) |
| `live_view` | MCLiveView, `LiveView.cfg` | two refreshes, failing or with a plugin reload, a stream of two, a cache of one, one lost stream |
| `serve` | MCServe, `Serve.cfg` | two viewers and four requests for a report behind two paths and for layout pages, both with options, an edit that may break the manifests, hooks, renders and views that fail, a database that stays attached, viewers who leave, a cache of two (about 3.3 million states) |
| `preview_process` | MCPreviewProcess, `PreviewProcess.cfg` | two subprocesses, a foreign server on the port, stop, kill, crash and shutdown in any order; liveness (20 328 states) |
| `port_file` | MCPortFile, `PortFile.cfg` | three daemons, one of them started by hand, an editor, a language server, one failure; liveness (300 683 states) |
| `language_server` | MCLanguageServer, `LanguageServer.cfg` | one buffer opened, edited and closed (three texts), two analyses, a project change; liveness (about 252 000 states) |
| `editor_session` | MCEditorSession, `EditorSession.cfg` | a page and a data file, two edits, a failing refresh, two project refreshes; liveness and the refinement of `Follower` (22 650 states) |
| `packages` | MCPackages, `Packages.cfg` | a kit whose versions follow a theme at different tags, two versions of each, three commands, versions published and tags moved while a command resolves, interruptions, also inside writes, failing fetches, tampering (1 855 001 states) |
| `build` | MCBuild, `Build.cfg` | a report, a screenshot, a document with covers and contents and a plain one, 342 manifest sets, pages of two formats, every failure, cancellation, two plugin queries (548 928 states) |

Every run passes. What the code does against its comments is in section 6.

Bounds, and why they are enough:

* `MaxEdits` 1 or 2. A lost or outdated save needs one save that is lost and one
  that overtakes it.
* `MaxBuilds` 2: a rebuild that fails to load, then one that loads.
* Documents of a preview: one report on a page with a table and a style, one
  document that shares the table: one that several artefacts depend on, one that
  is not in the graph, one that is added later.
* `ChanCap` 1 where dropping is the point, 3 where nothing must be dropped (two
  saves and the poll's single request). The code has 16.
* `Poll` does not add a second full request to one that is queued or pending: it
  would change only the length of the queue.
* `MaxRefreshes` 2: a refresh that overtakes a render, and one more.
* `CacheSize` 1 and `Keep` 1 make every second content evict one; the code has
  90 (behind an eviction) and a `Keep` of its own. `Buffer` 2 makes dropping
  frequent.
* One embedding request at a time in `services`, again and again: a request never
  holds the mutex over a step and reads no other's variables; two of them meet in the
  cache, under one key or another, and `ServicesCacheFresh` is for any number. Three
  refreshes: one that loads, one that fails or overtakes, one that follows.
* A page cache of two (the code has 100) under three keys: the third page evicts
  one, and a hit decides which. Two viewers are one who works under the mutex and one
  who waits, and they are interchangeable (`Symmetry`); what they may mix up is a
  request with a parameter value and one without. The theorems are for any number of
  values.
* Two subprocesses: the stopped one and the one that is started next; a third
  would meet a second as the second meets the first, and the theorems hold for any
  number. Three daemons: two that race and one that was there before.
* Two analyses of a buffer: one that runs and one that is armed. When both are
  busy no further text comes in; a run that has ended is used again.
* Two edits of a project: a manifest that names a file anew, and the file.
* Three registry commands: an add, an interrupted command and its rerun, with
  publications between and during them. Two packages that need each other in one
  direction, two versions that differ by a file dropped, changed and added. Two tags,
  which a new theme takes both or only one of (`Moved`): the declaration and the kit
  follow it at the same tag or at different ones. Pins are in `PackagesPin.cfg`; the
  theorems are for all of these.
* One artefact of each kind and a second document: each artefact's code is used
  once, and the second document follows one that failed or succeeded. The lists of
  page refs cover none, all, a name, a glob before and behind a name, two refs with
  parameters; one list names a page that nobody wrote. The third page repeats the first
  one's name in another format, and the report has a page layout for its format or
  none.

Deadlock is not checked where the system comes to rest on its own: editors stop
saving, daemons are gone, no command is given. The liveness properties say that
it does not come to rest too early. In `build` it is checked: a build runs until it
has a result, and queries go on behind it.

## 5. Fairness

`PreviewRefresh`: weak fairness of the watcher, the poll, both cases of the
select, the boot goroutine and the refresh, which are goroutines that nothing
blocks for ever. `select` chooses at random, but the saves, and so the sends, are
finite in number; that is why the timer is not starved. Editors are not fair.

`PreviewServices`: weak fairness of dataset runs and of the unlocked part of a
request. The second locked section has strong fairness: it needs the mutex that
refreshes and PDF builds take again and again, and a Go mutex hands itself over
to a waiter that has waited for a millisecond (its starvation mode). New refreshes,
builds and requests are not fair.

`LiveView`: weak fairness of a running refresh, of the reconnect of an
`EventSource` and of the runtime, which includes the server's answers. Lost
streams are bounded and not fair.

`PreviewProcess`: weak fairness of the goroutines of each subprocess, of the end of
one that was killed, and of the shutdown. A process that was only interrupted may
go on: `StoppedDies` rests on the kill.

`PortFile`: weak fairness of a daemon's start and of its removal of the file, of
the exit event of a spawned process, of the end of the event stream of a daemon that
is gone, of the editor's reads, probes, spawn and timers. Nobody has to crash, to restart or to connect. That a poll for a daemon
times out is not fair either.

`LanguageServer` and `EditorSession`: weak fairness of each timer goroutine, each
project refresh, the loop, and the handler for each file. Typing, edits and failing
loads are not fair. `Prompt` = TRUE assumes that a goroutine that only has to store
and publish does so before a refresh that starts a debounce later (300 ms) gets
that far; without it the older result may win (section 6). `Restarts` = FALSE
assumes that the client goes on counting versions when it opens a file again.

## 6. Where the code and its documentation disagree

These are behaviours of the code that contradict a comment or document, or that
its author may not expect. They were met while modelling. For the first group a
configuration beside the modules reproduces the counterexample (`tlc -config
<cfg> <module>`); none of them is part of the runs above.

* `PreviewRemovedDocument.cfg` (MCPreviewRefresh): dropping one document of a file
  that defines others is refreshed selectively; the route of the dropped document
  and its dependents stay (`refresh.go:413`, against the comment at 508).
* `PreviewFailedLoad.cfg`: the window is emptied before the refresh
  (`preview.go:508`); when it fails, the next selective refresh covers only its own
  files and reports success. Example: a table is saved, its refresh fails because
  another file is broken; the other file is repaired and only its artefacts
  re-rendered.
* `PreviewAllPages.cfg`: a changed data set or style does not re-render All Pages
  (`refresh.go:652`).
* `ServicesScratch.cfg` (MCPreviewServices): an embedding render removes the CSV
  files that a refresh is about to read (`embed.go:386`, against
  `preview_pdf.go:43`).
* `ServicesExplorer.cfg`: a refresh between the copy of the documents and the
  hand-over of the session does not reach the explorer (`preview.go:445`).
* `ServicesHook.cfg`: a pre-refresh hook that fails behind a plugin reload
  (`refresh.go:279`) is no error, so `refreshed()` clears the stale mark
  (`preview.go:413`), and the embedding cache keeps bodies of the old plugins behind a
  success, against `preview_plugins.go:25`.
* `LiveViewRevert.cfg` (MCLiveView): content that comes back keeps its old place in
  the data store and is evicted first (`datastore.go:70`).
* `PortFileCrash.cfg` (MCPortFile): when the daemon that the editor has started dies
  and the end of its event stream is handled before its exit, the client is
  "disconnected" (`daemonClient.ts:500` and 505), and the exit handler reconnects only
  a "connected" one (414). It stays without a daemon until somebody restarts it.
* `PortFileRestart.cfg`: the editor's `restart()` waits 400 ms for a
  daemon that may drain for longer; the next one finds the live process id in the
  port file and refuses (`daemonClient.ts:328`).
* `PackagesTags.cfg` (MCPackages): bino.toml follows the theme at one tag and the kit
  at another. `visit` keeps the tag of whoever asked first, the kit
  (`internal/registry/resolve.go:80`), and `checkLockDrift` compares tags by name
  (`internal/cli/registry_install.go:126`): `install` refuses the lock that `add` or
  `update` has just written. It says "run 'bino registry update'" (101, and
  `docs/src/content/docs/cli/registry.mdx:52`), which writes the same lock.
* `PackagesPin.cfg`: the same with a pin. A pinned dependency that is visited before
  the root that follows a tag locks the pinned version without a tag.
* `BuildNamedPage.cfg` (MCBuild): a report whose `layoutPages` name a page that does
  not exist is built without it, and the build succeeds. The comment at
  `internal/report/pipeline/pipeline.go:967` says that it "will be caught during
  rendering"; only the pages of a screenshot are looked for (819).

Preview:

* A dropped request of an incremental preview: when `refreshCh` is full, the file
  it names is in no later window (`preview.go:463`). `preview_selective` has a
  queue with room for that reason, `preview_full` shows that full refreshes are
  immune, and `NoLostEdit` is stated so that a dropped request is a lost edit only if
  no other refresh follows.
* A kind without a graph node in a file with one that has (`HomeShared` in
  `MCPreviewRefresh`) passes the mapped-file test (`refresh.go:407`): the style's
  dependents stay.
* Deleting a file causes no refresh (`watcher.go:194`).
* A change still in the channel is not yet "pending", although the field's
  comment says "queued or being rendered" (`server.go:174`).
* A failing pre-refresh hook returns no error, so the refresh counts as a
  success and clears the stale mark of the plugins (`refresh.go:283`), with the pages
  of the old ones.
* A document that fails to render is skipped and the refresh reports success
  (`refresh.go:587`).
* A full rebuild that fails has emptied the asset table (`refresh.go:510`), and a
  later selective one publishes what is left of it: routes that are still served
  lose their images, against "selective refreshes preserve unchanged entries"
  (624). `RoutesHaveAssets` is therefore checked and proved without the move
  "fail-report".
* With duplicate artefacts `lastDocs` is replaced and the artefact lists are not
  (`refresh.go:297` and 324): the cache survives with bodies of the old
  documents, and new ones mix two loads, until a refresh succeeds. `CacheFresh`
  therefore compares documents only while the two are the same.
* A separate `bino build` removes `.bino/cache/datasources` under a running preview
  (`preview_pdf.go:43` speaks of the preview's own build).

Serving:

* A database is attached under the name of its source and never again
  (`internal/report/datasource/views.go:170`): a connection that contains a
  parameter stays that of the first request, and later viewers get its rows, against
  `internal/cli/serve_race_test.go:196` ("must never appear"). A view that cannot be
  created leaves that of an earlier request, and the dataset that reads it is cached
  under the new key. A viewer who leaves while the last source is read makes a page
  without rows that is cached. `RowsOwn` excludes the first two with `mixed`, and
  speaks of rows where there are any.
* A request without a parameter renders the documents of the start, also on a miss
  (`serve.go:384`), against
  `docs/src/content/docs/recipes/live-dashboard-deployment.mdx:101`; the host keeps
  the documents of the last request that had one (`serve.go:795`). `HostOwn` speaks
  of requests with a parameter.
* A missing required parameter is answered with 200 and a form (`serve.go:774`);
  `docs/src/content/docs/cli/serve.mdx:119` says 400 with a JSON error.
* `ResolveDatasetOptions` keys the parameters by dataset
  (`internal/report/serve/params.go:173`): of two that offer the same dataset one
  has no options.

Daemon and its clients:

* `NoChildLeft` of `PreviewProcess` fails: a late `Start` (an MCP call) behind
  `Shutdown`, or a `Stop` less than three seconds before the exit, leaves a
  subprocess alive (`internal/daemon/preview.go:192` says that the daemon does not).
* A "stopped" event of the old subprocess may follow the "starting" of the new one.
* Two daemons started at once both pass the check (`internal/cli/daemon.go:62`); a
  port file that is being written counts as broken and is removed.
* A process id that the system uses again makes a stale port file look alive.

Editor:

* `NoStaleShown` of `LanguageServer` fails: `publishFile` merges under the lock and
  sends behind it, so that an older merge may be sent last, for a moment or, when
  nothing else follows, for good (`internal/lsp/analyzer.go:18`).
* A publication under way when a buffer is closed shows its draft findings again
  (`internal/lsp/server.go:187`).
* If a client starts with version 1 again when it opens a file again (`Restarts`),
  an analysis of the text before may pass the version check.
* An older project refresh overwrites a newer one if it takes a debounce longer.
* `getIndex`, `getSchema` and `getNameIndex` fetch without the lock and store what
  they got behind an invalidation.
* Files changed between the first load (`internal/cli/daemon.go:89`) and the watch
  (164) are not seen until they change again: `unseen` in `ManagedWatch`. A failed
  refresh is not tried again before the next event: `broken`.
* The reconnected event stream of a daemon reports no change that it missed.

Registry:

* `update <one>` holds the other direct dependencies by exact version, so that their
  entries no longer follow the tag and `install` refuses with drift
  (`internal/cli/registry_install.go:126`, against
  `docs/src/content/docs/cli/registry.mdx:52`). `InstallAccepts` speaks of add and
  of an update of everything; the model calls the other one "hold".
* A command that is killed inside a write leaves `.<name>.tmp-*` beside the file
  (`internal/registry/store.go:294`). No rerun removes it, only the sweep of the whole
  package; `verify` knows it (`internal/cli/registry_query.go:258`). The same holds for
  `bino.lock` and `bino.toml`, whose temporary files stay in the project's directory.
* An interrupted update followed by an install of the old lock leaves files that
  nothing records (against `internal/cli/registry.go:372`).
* `add` that dies between the lock and `bino.toml` leaves drift until an update; an
  interrupted `remove` leaves a lock that claims files that are gone.
* Nothing stops two registry commands at once.

Build:

* Two artefacts with one file name overwrite each other silently.
* A page of another format than the report's is left out without a word, also when
  `layoutPages` names it (`internal/report/render/html.go:373`); the docs say so of
  screenshots only (`docs/src/content/docs/reference/screenshot-artefact.mdx:291`).
  `PagesAsked` therefore has the format in it.
* Hooks run around reports only; `docs/src/content/docs/concepts/hooks.mdx:46` and
  78 list them for screenshots and documents too.
* A build that fails or is cancelled leaves an unsigned PDF under the final name.
* Merging PDFs and setting their metadata ignore the cancellation.
* A screenshot that fails is a warning; the exit code is 0.
* A build that is killed leaves its temporary files; a plugin query that still runs
  at the exit leaves its directory; hooks have no timeout.
* A build of the daemon and one in a terminal write the same files.

## 7. Proofs

TLAPS checks these for every value of the constants that satisfies the module's
named assumptions: every project, dependency relation, channel capacity, number of
processes, artefacts and queries, and every number of requests, saves, rebuilds and
refreshes.

`PreviewRefresh` (`PreviewRefreshProofs`):

* `PreviewTypeOK`. `TypeOK` is not inductive: a render needs a plugin that
  loaded, which `TypeOK` does not say. `TypeInv` adds `Loading`: from the hook to
  the end of a refresh the last load succeeded.
* `PreviewNoLostEdit`, under `Ordinary`: the moves "boot-edit", "delete-file" and
  "fail-hook" are excluded. They break the property in the code: a save before the
  watcher listens causes no event, nor does a deletion, and a failing hook
  is reported as a success. `NoLostEdit` counts a reported error, which a running
  refresh may still clear, and says nothing of the steps behind the load. The
  invariant `SaveInv` says for each step of the loop what it knows of a document
  (`Known`), that the first load visits every directory and the watcher then
  covers them (`Boot`), and that all events are writes (`OnlyWrites`).
* `PreviewWindowHolds`. `WindowInv` adds `Quiet`: the
  loop takes nothing while it refreshes, and nothing before the end of boot.
* `PreviewOnePlugin`, without "fail-hook", which clears the mark without a render.
  `PluginInv`: without the mark the routes are of the loaded plugin, the pages of
  the running refresh always are, and a refresh that started under the mark is not
  selective.
* `PreviewFullFresh`, under `FullRefreshes`: not incremental, `Ordinary`, and no
  document is skipped because it fails to render (section 6). Broken files, duplicates,
  removed documents, failing reports and plugins are allowed. `FullInv`: every request
  is for everything (`AllOrNothing`); a running refresh has rendered the artefacts it
  has behind it (`Rendering`); between refreshes the routes and contexts are those of
  the last load (`Showing`). With `SaveInv`, which says that at rest the last load is
  the disk, this gives `PreviewFresh`.
* `PreviewRoutesFresh`, about incremental refreshes, under `Steady` and without `Drops`
  steps. Each hypothesis stands for a finding of section 6: a dropped request, a refresh
  that fails on another file, a removed document and a kind without a node that shares
  its file all leave stale pages in the code. What is left is the claim of `Run` that
  pages it does not render again would not have changed. `SelectInv`: where the last
  load is behind the disk, a refresh of that very file is outstanding (`Loads`); where a
  page is behind the last load, a refresh of a file it reads is (`Paged`); the pages
  that a selective refresh leaves out fit the new documents already (`Paged` while it
  renders, the key step: what changed is in a file of the window, and the artefacts
  that reach one of its documents in the graph are in `todo`); defined documents stay
  defined (`Grown`); loads succeed (`Healthy`) and a failed reload leaves the mark or
  an error (`Marks`); the tables of routes and contexts agree (`Tables`).
* `PreviewKeepsPromise`, the refinement of `Preview`, with no hypothesis: it holds of
  what no finding of section 6 takes away. Files map to the disk, the project to
  `lastDocs`, the shown pages to the routes and the sent ones to the contexts; a save
  or deletion is `Edit`, `Plan` is `Load`, `LoadPlugins` is `LoadPlugin`, a rendered
  page is `Send`, `Publish` is `Show`, and all other steps stutter. `Ages`: the last
  load and every page that is served or was sent are no newer than what the running
  load has read and than the disk, unless that no longer has the document; a save
  writes a version that is newer than all of them. "No older" is not transitive over a
  removed document, so the invariant relates each pair, and not only neighbours.
  `Composing`: the pages of the running refresh are those of the last load, and behind
  a full one no artefact is missing that could not be skipped; without `--incremental`
  every refresh is a full one.
* `PreviewRoutesHaveAssets`, without "fail-report" (section 6). `AssetInv`: except
  while a full refresh renders, the assets cover the old routes; they always cover
  the new ones.

`PreviewServices` (`PreviewServicesProofs`):

* `ServicesTypeOK`, including that the mutex is held exactly by the dataset run
  under way. It is inductive.
* `ServicesCacheFresh`. `CacheInv` adds what a request in flight has captured
  (`Renders`: a render of the current generation captured the current documents and
  plugin) and that the cache is empty while a refresh holds the mutex
  (`EmptyWhileRefreshing`). The argument is the generation counter: a request
  stores its body only if the generation is the one it captured, and a refresh
  that replaces what it captured counts the generation up in the same locked
  section. A refresh that finds duplicates replaces one half of the snapshot only
  and counts nothing; `Ages` (versions only grow) shows that the two halves are
  equal behind it only if they were before, with the same content. A plugin in the
  cache is between that of the last snapshot (`snapped`) and the loaded one: a refresh
  that reloads and gives up, with an error or in its hook, moves the second only.
* `ServicesOwnRows`. `RowsInv` adds `InPlace`: from the registration of a source by a
  refresh or a PDF build to its query, its file is in the scratch directory and, for
  the refresh, the shared view shows it, unless an embedding has replaced the view or
  removed the directory since (`disturbed`, section 6). The theorem thus says that
  refresh and PDF build do not come between each other's steps, which follows from
  `TypeOK`: one run holds the mutex. It does not say that embeddings keep out.

`LiveView` (`LiveViewProofs`), for every buffer, cache size and number of requests:

* `LiveViewTypeOK`. `TypeInv` says it in a form that steps preserve: `Once`, no path
  has two entries (removing one and appending the new one keeps that), the store is
  injective, and of two requests of a page at most one is the latest (`OnlyLast`).
* `LiveViewNeverBack`. `Ordered`, per page: what the cache holds of its view is as new
  as what it shows and as any response it waits for, and the response to the latest
  request is as new as what it shows. A cached entry may be evicted at any time, which
  is why the invariant speaks of the entries there are. The others rest on `Rendered`:
  nothing is newer than the last refresh.
* `LiveViewDataKept`, under `NewData`: every refresh gives data with a new hash and no
  unsaved buffer registers its own; otherwise the code does drop what a page needs
  (`LiveViewRevert.cfg`, section 6). `InOrder`: hashes in the store are in the order of
  their refreshes and lie at least as far apart in time as in place, so that what `Trim`
  removes is older than `Keep` refreshes. `Registered`: data is in the store before the
  content that refers to it is in the cache.

`Serve` (`ServeProofs`): `ServeTypeOK`, `ServeMutexHeld`, `ServeHostOwn`,
`ServeRowsOwn`, `ServeNothingMixed` from these two, and `ServeDataReachable`.

* `MutexHeld` is part of the invariant. `Turn`: what the handler that
  holds it knows of its documents, of the cache and of the host. `Own`, which
  `RowsOwn` needs: what it has registered and queried is of its request's value.
* `Order`: `newer` orders the cached keys strictly. That such an order has a front
  (`FrontExists`) is shown by counting: the sets of keys behind each key have
  different sizes. Otherwise `Set` could remove none and `TypeOK` fail.
* `Reach`: for each page in a browser, its key is cached or as many keys as the
  cache holds were used since; keys behind a page's key in the list were used after
  it. This gives `ServeDataReachable` for every size of the cache.

`PreviewProcess` (`PreviewProcessProofs`): `ProcessOneManaged`,
`ProcessRunningServes`, `ProcessNoGhost` (together `ProcessTruthful`) and
`ProcessShutdownReaps`, from one invariant. `Lives` ties process, port, pipe and watcher of a subprocess together;
`Managed` says that the managed one is watched; `Announced`, that whoever was told
of a running preview has a watcher that will report its end; `Sweeping`, what
Shutdown waits for.

`PortFile` (`ProjectFilesProofs`): `PortFileSecondDaemon`. `Named`: whoever is named by
the file, or by what somebody has read of it, has served. `Single`: as long as
nothing was stolen, who writes is alone and who serves is in the file.

`Packages` (`ProjectFilesProofs`), for any packages, versions, dependencies, files and
number of commands; `NeedsAssumption` says that demands name packages and versions
of the instance, `BoundAssumption` that there is a version:

* `PackagesTypes`. `RegistryTypes` adds `Course`: which of plan, stack and changes a
  command has in which part of its life.
* `PackagesLockIsClosed`. `LockIsClosed` alone is not inductive, since the next lock is
  the plan. `PlanCloses`: each demand of what is resolved is met by the plan, or waits
  on the stack; so an empty stack means a closed plan, whatever the order of the visits
  and whatever was published between two of them. What `remove` keeps is closed
  because the recorded edges it follows are those of the locked versions.
* `PackagesStoreFollowsLock`. `ResidueInv`: a temporary file lies in a package that the
  lock or an interrupted command's closure has, and that a running command keeps or
  will sweep. `Known`: each file of the store is recorded by the lock,
  by an interrupted command's closure, or by the command that works. `Works`: what the
  command still has to do is all that the store lacks (`Lacks`) and all that it has too
  much (`Surplus`), no file is both removed and written (`Disjoint`), and the lock is
  the plan once it is saved (`Saved`).
* `PackagesInstallAccepts`, without further hypotheses. `Asked`, while a command
  resolves: a root is resolved as it was asked for or still waits as a root (`Rooted`),
  the tag of an entry is that of a demand for it, of a root or of a package of the
  closure, and nothing is direct but roots (`Grounded`). So every declared package is
  locked as a direct dependency with its pinned version or its tag, unless another
  package needed it at another ref (`Agrees`), and `Settled` keeps that until the next
  command.

`EditorSession` (`EditorSessionProofs`), first the watch loop on its own:

* `WatchChangesDue`. `Phases` ties the handler's flags to the loop's phase;
  `ReadDue` says of every file the running refresh has read, named or not, that it
  is as on disk or will be asked about again: `ChangesDue` alone speaks of files
  that are named, and a refresh may name another one.
* `WatchFollows`, the refinement of `Follower`: initial states map to initial
  states, and every step to one of `Follower` or to none. It needs `Behind`: what is
  loaded is never ahead of what was read, nor that of the disk.

Both are about a managed watch in general, the daemon's and that of `bino lsp`. Then
the server and the composition, under `Editing` where the theorem says so: a goroutine
that only has to publish is not overtaken by a debounce of hundreds of milliseconds
(`Prompt`), and a file that is opened again does not start with a version it has had (no
`Restarts`). Section 6 has what happens otherwise.

* `ServerDraftFresh`, under `Editing`. `Records`: the record in `pending` is of its
  buffer, and whose context it cancels is a run of the same buffer. `VersionsTell`:
  what a run has read of a buffer has a version of its own, so that equal versions are
  equal texts; this is what `Analyzer.run` relies on when it compares them behind the
  validation. `Analyzed`: the debounce of an open buffer runs, or no run is about to
  store findings of an older text and either the findings are those of the text or a
  run that is neither cancelled nor outdated will store them. `DraftFresh` alone says
  nothing while a run is on its way, so it is far from inductive.
* `SessionProjectFollows`, under `Editing`. `Tracked`: unless the loop has yet to tell
  the server, an answer that waits to be stored is about the loaded project, and the
  findings are, or some refresh will make them so. `onProjectChange` starts a refresh
  behind each load, before which no older answer is left to be stored.
* `SessionChangesDue`, `SessionFollows`, `SessionDraftFresh`: each step of the session is
  a step of the loop or none, and one of the server or none (`SessionParts`), so that the
  invariants of the parts hold in the composition. `SessionFollows` is the refinement of
  `Follower` for it.

`PluginHost` and `Build` (`BuildProofs`):

* `HostDirsHold`. `Counted`: the host's count of a directory is the number of
  queries that read it; `CurrentDir`: the current directory holds the current
  results; `Reading`: a query has results and a directory together. The counting
  rests on the library's facts about the cardinality of finite sets.
* `BuildHostDirs`: every step of a build and of its plugins is one of the host or
  leaves it alone, so the same invariant holds in the composition.
* `BuildTempsGone`. `TempsInv` says at which step which temporary file exists and
  that a deferred call removes it; between the two covers `RenderCoverPDFs` does it
  itself.
* `BuildQueryOwn`, an action property, from `OwnInv`: the host holds the results of
  the current artefact or none.
* `BuildDelivered`, in two halves. The selection: an include list with repeated,
  unknown and excluded names, or an empty one, selects exactly what was asked for
  (`SelectedIs`; the positions that are kept are counted by `NthIs`). The build,
  `DeliverInv`: what is begun is complete, but for the artefact in work (`Behind`);
  what is not begun has no file (`Untouched`); the kind of the artefact in work fits
  the stage (`Place`), its parts so far are in the temporary files (`Collected`) or
  in its file (`Composed`), which therefore is finished when the next one begins.
  `PartsIs`: contents in front of the content, then covers around both, are the parts
  in order.
  The theorem has one hypothesis, `PagesRight`: for the manifest sets of the
  instance, `RenderLayoutPages` gives the pages that `PagesAsked` describes. Both sort
  and fold over lists of refs, which the prover cannot compute for every input;
  `MCBuild` states `PagesRight` as an assumption, so that TLC evaluates it for every
  list of refs, every verdict of the constraints, both formats and the repeated page name
  of the run.

Only model-checked:

* `PagesRight`, as said above;
* every liveness property: fairness is stated with ENABLED, which the prover does not
  handle.

## 8. What the models leave out

* `PreviewRefresh`: the page for an invalid root, the fallback for a graph that
  does not build, `--embed-only`, include and exclude filters, presentations,
  the SSE events (they are in `LiveView`), and cancellation of the command.
  Each file is in a directory of its own, so that a file that a broken neighbour
  hides from the first load is not watched.
* `PreviewServices`: a plugin load that fails, HTTP errors, the cancellation of
  a request, the query cache of datasets. A refresh and its explorer update are
  one step.
* `LiveView`: bodies of assets, failing requests, search, the boot page. The
  two `refresh-error` events of a failure are one.
* `PreviewProcess`: the arguments of the subprocess and the lines of its output
  besides the ready line.
* `PortFile`: process ids that are used again, the requests of a connected client.
* `ManagedWatch` and `LanguageServer`: the daemon's lint results, completion, hover,
  definitions and edits; the cached index and schema. In `EditorSession` a buffer is
  open or not, its texts are those of `LanguageServer`'s own run.
* `Serve`: several parameters at once, the choice of pages and their entry
  parameters, the web app manifest, the cache of dataset results, hooks of plugins
  on the page.
* `Packages`: login, publish, search, signatures of downloads, HTTP retries, two
  commands at once.
* `Build`: names that artefacts of several kinds share (the code refuses duplicates
  among the reports only; `KindsAssumption` leaves the others out), flags, the JSON log with its CSV rows, layout state, what is in a PDF,
  Chrome's life.
* Content is never text: how HTML is rendered and SQL generated is not the
  subject.

## 9. Plan

In this order, if the project grows:

1. `SelectLayoutPages` as steps, one per ref, so that `PagesRight` becomes an invariant
   instead of a hypothesis.
2. `LiveView` with the assets of a page.
3. `internal/engine`: the choice of a template engine and its download cache.
