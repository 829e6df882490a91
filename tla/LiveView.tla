------------------------------ MODULE LiveView ------------------------------
(***************************************************************************)
(* From a refresh to the browser: the context cache and the data store of  *)
(* the preview server, its SSE hub and event streams, and the runtime of   *)
(* the preview page.                                                       *)
(*                                                                         *)
(* Code: internal/httpserver/server.go and datastore.go, the calls of      *)
(* internal/preview/refresh/refresh.go, and                                *)
(* internal/web/preview/preview-app.js.                                    *)
(*                                                                         *)
(* The content of a view is abstracted to the number of the refresh that   *)
(* rendered it and the hash of the one dataset it fetches.  Events carry a *)
(* path and no content: the page pulls it.                                 *)
(***************************************************************************)
EXTENDS Integers, Sequences, FiniteSets, SequencesExt

CONSTANTS
    Paths,        \* views of the preview: "/", "/report", "/doc/document"
    Clients,      \* open pages
    View,         \* the path a page shows
    Buffer,       \* capacity of a client's stream in the hub
    CacheSize,    \* entries that evictOldestCacheEntries leaves
    Keep,         \* hashes the data store retains for a dataset
    MaxRefreshes, \* bound: refreshes
    MaxLosses,    \* bound: lost event streams
    Moves         \* what may happen in the environment of this instance

AllMoves == {"revert",   \* a refresh gives data that an earlier one gave
             "override", \* an embedding render of an unsaved buffer
             "fail",     \* a refresh fails behind some of its renders
             "reload"}   \* a refresh that followed a plugin reload

ASSUME ConstantsAssumption ==
    /\ View \in [Clients -> Paths]
    /\ Buffer \in Nat \ {0} /\ CacheSize \in Nat \ {0} /\ Keep \in Nat \ {0}
    /\ MaxRefreshes \in Nat /\ MaxLosses \in Nat
    /\ Moves \subseteq AllMoves

VARIABLES
    refreshes, \* refreshes so far
    data,      \* the hash the running or last refresh emits
    job,       \* local state of the refresh
    contexts,  \* contextLRU with its entries, the oldest first
    store,     \* the hashes of the dataset, the oldest first
    stream,    \* SSEHub.clients: events on the way to the subscribed pages
    page,      \* the runtime of the page
    fetches,   \* requests of /__preview/context under way
    missed,    \* an event was dropped since the page asked for content
    losses     \* lost streams so far

serverVars == <<contexts, store>>
vars == <<refreshes, data, job, serverVars, stream, page, fetches, missed,
          losses>>

Nothing == [version |-> 0, data |-> 0]
NewPage == [sse |-> FALSE, engine |-> FALSE, loaded |-> FALSE,
            shown |-> Nothing]
NoJob == [pc |-> "idle", todo |-> {}, path |-> {}, paths |-> {}]

Init ==
    /\ refreshes = 0 /\ data = 0 /\ job = NoJob
    /\ contexts = <<>> /\ store = <<>>
    /\ stream = [c \in {} |-> <<>>]
    /\ page = [c \in Clients |-> NewPage]
    /\ fetches = [c \in Clients |-> {}]
    /\ missed = [c \in Clients |-> FALSE]
    /\ losses = 0

-----------------------------------------------------------------------------
(* The data store: bodies are addressed by content, the oldest goes first.  *)

BugTrim(s) == IF Len(s) >= Keep THEN Tail(s) ELSE s  \* mutant: keeps one less

Trim(s) == IF Len(s) > Keep THEN Tail(s) ELSE s

Put(h) == store' = IF h \in ToSet(store) THEN store ELSE Trim(Append(store, h))

-----------------------------------------------------------------------------
(* The context cache.                                                      *)

Cached(p) == {e \in ToSet(contexts) : e.path = p}

\* The list without the element that contextCache points to.
Others(p) ==
    LET held == {i \in DOMAIN contexts : contexts[i].path = p}
    IN  IF held = {} THEN contexts ELSE RemoveAt(contexts, CHOOSE i \in held : TRUE)

EvictOldest(s) == IF Len(s) > CacheSize THEN Tail(s) ELSE s

-----------------------------------------------------------------------------
(* The hub: a full stream drops the event.                                *)

BugSend(s, e) == Append(s, e)  \* mutant: the stream is not bounded

Send(s, e) == IF Len(s) < Buffer THEN Append(s, e) ELSE s

Broadcast(e) ==
    /\ stream' = [c \in DOMAIN stream |-> Send(stream[c], e)]
    /\ missed' = [c \in Clients |->
                    missed[c] \/ (c \in DOMAIN stream /\ Len(stream[c]) = Buffer)]

Ready == [type |-> "ready", paths |-> {}]
PathChanged(p) == [type |-> "path-changed", paths |-> {p}]
Toolbar == [type |-> "toolbar", paths |-> {}]  \* refreshing, refresh-error
RefreshDone(ps) == [type |-> "refresh-done", paths |-> ps]
PluginsReloaded == [type |-> "plugins-reloaded", paths |-> {}]

-----------------------------------------------------------------------------
(* A refresh renders the affected views one by one.                        *)

pageVars == <<page, fetches, losses>>

\* With new data every time, or with data seen before.
Emits == {refreshes + 1} \cup (IF "revert" \in Moves THEN 1 .. refreshes ELSE {})

Start ==
    /\ job.pc = "idle"
    /\ refreshes < MaxRefreshes
    /\ refreshes' = refreshes + 1
    /\ data' \in Emits
    /\ \E ps \in (SUBSET Paths) \ {{}} :
         job' = [NoJob EXCEPT !.pc = "render", !.todo = ps]
    /\ Broadcast(Toolbar)
    /\ UNCHANGED <<serverVars, pageVars>>

\* RegisterEmittedData, in front of BroadcastContent.
Render(p) ==
    /\ job.pc = "render"
    /\ p \in job.todo
    /\ Put(data)
    /\ job' = [job EXCEPT !.pc = "store", !.path = {p}, !.todo = @ \ {p}]
    /\ UNCHANGED <<refreshes, data, contexts, stream, missed, pageVars>>

\* BroadcastContent stores the content and then tells the clients.
StoreContent(p) ==
    /\ job.pc = "store"
    /\ job.path = {p}
    /\ contexts' = EvictOldest(Append(Others(p),
                     [path |-> p, version |-> refreshes, data |-> data]))
    /\ job' = [job EXCEPT !.pc = "announce"]
    /\ UNCHANGED <<refreshes, data, store, stream, missed, pageVars>>

Announce(p) ==
    /\ job.pc = "announce"
    /\ job.path = {p}
    /\ Broadcast(PathChanged(p))
    /\ job' = [job EXCEPT !.pc = "render", !.path = {}, !.paths = @ \cup {p}]
    /\ UNCHANGED <<refreshes, data, serverVars, pageVars>>

\* A render that fails ends the refresh: refresh-error, and refresh-done
\* without paths.
Fail ==
    /\ "fail" \in Moves
    /\ job.pc = "render" /\ job.todo # {}
    /\ Broadcast(Toolbar)
    /\ job' = [job EXCEPT !.pc = "done", !.todo = {}, !.paths = {}]
    /\ UNCHANGED <<refreshes, data, serverVars, pageVars>>

Done ==
    /\ job.pc \in {"render", "done"}
    /\ job.todo = {}
    /\ Broadcast(RefreshDone(job.paths))
    /\ \/ job' = NoJob
       \/ /\ "reload" \in Moves /\ job.pc = "render"
          /\ job' = [job EXCEPT !.pc = "reload"]
    /\ UNCHANGED <<refreshes, data, serverVars, pageVars>>

\* previewPlugins.refreshed.
Reload ==
    /\ job.pc = "reload"
    /\ Broadcast(PluginsReloaded)
    /\ job' = NoJob
    /\ UNCHANGED <<refreshes, data, serverVars, pageVars>>

\* An embedding render registers its data outside of any refresh: that of the
\* documents loaded last, or that of an unsaved buffer (0).
EmbedRegister ==
    /\ refreshes > 0
    /\ \E h \in {data} \cup (IF "override" \in Moves THEN {0} ELSE {}) :
         Put(h)
    /\ UNCHANGED <<refreshes, data, job, contexts, stream, missed, pageVars>>

-----------------------------------------------------------------------------
(* handleEvents: it subscribes, writes "ready" and forwards what follows.  The *)
(* hub's channel and the connection are one stream here.                     *)

Listening(c) == c \in DOMAIN stream

Subscribe(c) ==
    /\ ~Listening(c)
    /\ stream' = [d \in DOMAIN stream \cup {c} |->
                    IF d = c THEN <<Ready>> ELSE stream[d]]
    /\ UNCHANGED <<refreshes, data, job, serverVars, page, fetches, missed, losses>>

Unsubscribed(c) == [d \in DOMAIN stream \ {c} |-> stream[d]]

\* The stream breaks; the EventSource of the page connects again.
Lose(c) ==
    /\ Listening(c)
    /\ losses < MaxLosses
    /\ losses' = losses + 1
    /\ stream' = Unsubscribed(c)
    /\ UNCHANGED <<refreshes, data, job, serverVars, page, fetches, missed>>

-----------------------------------------------------------------------------
(* The page.                                                               *)

\* fetchAndSwapContext up to the request.  contextFetchSeq makes every earlier
\* request outdated.
Fetch(c, pg) ==
    /\ page' = [page EXCEPT ![c] = pg]
    /\ fetches' = [fetches EXCEPT ![c] =
                     {[f EXCEPT !.latest = FALSE] : f \in @} \cup
                     {[latest |-> TRUE, answered |-> FALSE, content |-> Nothing]}]
    /\ missed' = [missed EXCEPT ![c] = FALSE]

Stay(c, pg) ==
    /\ page' = [page EXCEPT ![c] = pg]
    /\ UNCHANGED <<fetches, missed>>

handledVars == <<refreshes, data, job, serverVars>>

EngineReady(c) ==
    LET pg == [page[c] EXCEPT !.engine = TRUE]
    IN /\ ~page[c].engine
       /\ IF pg.sse THEN Fetch(c, pg) ELSE Stay(c, pg)
       /\ UNCHANGED <<handledVars, stream, losses>>

BugAfterReady(c, pg) ==  \* mutant: a reconnected page does not ask again
    IF pg.engine /\ ~pg.loaded THEN Fetch(c, pg) ELSE Stay(c, pg)

AfterReady(c, pg) == IF pg.engine THEN Fetch(c, pg) ELSE Stay(c, pg)

Handle(c, type) ==
    /\ Listening(c) /\ stream[c] # <<>>
    /\ Head(stream[c]).type = type
    /\ stream' = [stream EXCEPT ![c] = Tail(@)]

HandleReady(c) ==
    /\ Handle(c, "ready")
    /\ AfterReady(c, [page[c] EXCEPT !.sse = TRUE])
    /\ UNCHANGED <<handledVars, losses>>

HandlePathChanged(c) ==
    /\ Handle(c, "path-changed")
    /\ IF View[c] \in Head(stream[c]).paths THEN Fetch(c, page[c]) ELSE Stay(c, page[c])
    /\ UNCHANGED <<handledVars, losses>>

\* Retry the first fetch: it may have come before the first content.
HandleRefreshDone(c) ==
    /\ Handle(c, "refresh-done")
    /\ IF View[c] \in Head(stream[c]).paths /\ ~page[c].loaded
         THEN Fetch(c, page[c]) ELSE Stay(c, page[c])
    /\ UNCHANGED <<handledVars, losses>>

HandleToolbar(c) ==
    /\ Handle(c, "toolbar")
    /\ UNCHANGED <<handledVars, page, fetches, missed, losses>>

\* A page load: the old stream and its fetches are gone.
NewLoad(c) ==
    /\ stream' = Unsubscribed(c)
    /\ page' = [page EXCEPT ![c] = NewPage]
    /\ fetches' = [fetches EXCEPT ![c] = {}]
    /\ missed' = [missed EXCEPT ![c] = FALSE]
    /\ UNCHANGED <<refreshes, data, job, serverVars>>

HandlePluginsReloaded(c) ==
    /\ Listening(c) /\ stream[c] # <<>>
    /\ Head(stream[c]).type = "plugins-reloaded"
    /\ NewLoad(c)
    /\ UNCHANGED losses

\* handleContext: the entry becomes the most recently used one.
Answer(c, f) ==
    /\ f \in fetches[c]
    /\ ~f.answered
    /\ LET p == View[c]
       IN \/ /\ Cached(p) = {}                    \* 404
             /\ fetches' = [fetches EXCEPT ![c] =
                              (@ \ {f}) \cup {[f EXCEPT !.answered = TRUE]}]
             /\ UNCHANGED contexts
          \/ \E e \in Cached(p) :
               /\ fetches' = [fetches EXCEPT ![c] =
                                (@ \ {f}) \cup
                                {[f EXCEPT !.answered = TRUE,
                                           !.content = [version |-> e.version,
                                                        data |-> e.data]]}]
               /\ contexts' = Append(Others(p), e)
    /\ UNCHANGED <<refreshes, data, job, store, stream, page, missed, losses>>

BugAccepts(c, f) == f.content # Nothing  \* mutant: any response is shown

\* Responses arrive in any order; only that of the last request counts.
Accepts(c, f) == f.content # Nothing /\ f.latest

Arrive(c, f) ==
    /\ f \in fetches[c]
    /\ f.answered
    /\ fetches' = [fetches EXCEPT ![c] = @ \ {f}]
    /\ page' = IF Accepts(c, f)
                 THEN [page EXCEPT ![c].shown = f.content, ![c].loaded = TRUE]
                 ELSE page
    /\ UNCHANGED <<handledVars, stream, missed, losses>>

-----------------------------------------------------------------------------
Run == \/ Fail \/ Done \/ Reload
       \/ \E p \in Paths : Render(p) \/ StoreContent(p) \/ Announce(p)

Runtime(c) ==
    \/ EngineReady(c) \/ HandleReady(c) \/ HandlePathChanged(c)
    \/ HandleRefreshDone(c) \/ HandleToolbar(c) \/ HandlePluginsReloaded(c)
    \/ \E f \in fetches[c] : Answer(c, f) \/ Arrive(c, f)

Next == \/ Start \/ Run \/ EmbedRegister
        \/ \E c \in Clients : Subscribe(c) \/ Runtime(c) \/ Lose(c)

Spec == Init /\ [][Next]_vars

\* A refresh that started, the handlers and the pages run on; what the server is
\* asked for it answers.
Fairness ==
    /\ WF_vars(Run)
    /\ \A c \in Clients : WF_vars(Subscribe(c)) /\ WF_vars(Runtime(c))

LiveSpec == Spec /\ Fairness

-----------------------------------------------------------------------------
(***************************************************************************)
(* Properties.                                                             *)
(***************************************************************************)

Contents == [version : 0 .. MaxRefreshes, data : Int]
Events == [type : {"ready", "path-changed", "toolbar", "refresh-done",
                   "plugins-reloaded"}, paths : SUBSET Paths]

\* Types; no stream holds more than its capacity, the caches no more than
\* their limits and no path twice.
TypeOK ==
    /\ refreshes \in 0 .. MaxRefreshes /\ losses \in 0 .. MaxLosses
    /\ job.todo \subseteq Paths /\ job.paths \subseteq Paths
    /\ ToSet(contexts) \subseteq [path : Paths, version : 1 .. MaxRefreshes, data : Int]
    /\ Len(contexts) <= CacheSize
    /\ \A p \in Paths : Cardinality(Cached(p)) <= 1
    /\ Len(store) <= Keep /\ IsInjective(store)
    /\ DOMAIN stream \subseteq Clients
    /\ \A c \in DOMAIN stream :
         stream[c] \in Seq(Events) /\ Len(stream[c]) <= Buffer
    /\ \A c \in Clients :
         /\ page[c].shown \in Contents
         /\ \A f \in fetches[c] : f.content \in Contents
         /\ Cardinality({f \in fetches[c] : f.latest}) <= 1

\* A page never goes back to older content without a page load, although
\* responses overtake each other (preview-app.js: "Track the most recent
\* in-flight context fetch so a fast burst of path-changed events doesn't morph
\* stale HTML on top of fresh HTML").
NeverBack ==
    [][\A c \in Clients :
         page'[c].shown.version < page[c].shown.version => page'[c] = NewPage]_vars

\* A page ends up with the content that the cache holds for it, whatever is lost,
\* reloaded or overtaken on the way, unless the hub dropped an event of its
\* stream and nothing has made it ask again.
ShowsLatest ==
    \A c \in Clients :
      <>[](\/ missed[c]
           \/ \A e \in Cached(View[c]) : page[c].shown.version = e.version)

\* The data of what the last Keep refreshes rendered is there for the pages that
\* fetch it (datastore.go: "Insertion order is enough for "most recent N"
\* because Put appends and trims from the front").
DataKept ==
    \A e \in ToSet(contexts) :
      e.version > refreshes - Keep => e.data \in ToSet(store)
=============================================================================
