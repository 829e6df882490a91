-------------------------------- MODULE Serve --------------------------------
(***************************************************************************)
(* `bino serve` (internal/cli/serve.go).  Every viewer asks for a route    *)
(* with a value for its query parameter; the project is loaded again with  *)
(* that value in its documents, and its data sources become views of the   *)
(* one DuckDB session that all requests share.  A mutex lets one request   *)
(* at a time work on the session.  Rendered pages are kept in a cache of   *)
(* bounded size, from which the browser also fetches their data.           *)
(***************************************************************************)
EXTENDS Naturals, FiniteSets

CONSTANTS
    Clients, Routes,
    Values,      \* what a query parameter can be
    NoValue,     \* no parameter, or a required one missing or rejected
    Takes,       \* the routes that require one
    Offers,      \* the routes whose parameter offers the rows of a dataset
    Paged,       \* the routes that list layout pages instead of an artefact
    Page,        \* route -> the artefact, or the path with its layout pages
    Nobody,      \* the mutex is free
    Nothing,     \* no page, no documents
    MaxEntries,  \* size of the page cache: maxServeRenderCacheEntries
    MaxEdits,    \* bound: edits of the project
    MaxAsks,     \* bound: requests
    Moves        \* what the instance lets happen

AllMoves == {"edit", "break", "fail-hook", "fail-render",
             "fail-view", "database", "leave"}

ASSUME ServeAssumption ==
    /\ Takes \subseteq Routes
    /\ Offers \subseteq Takes
    /\ Paged \subseteq Routes
    /\ DOMAIN Page = Routes
    /\ \A r \in Paged, s \in Routes : Page[r] = Page[s] => r = s
    /\ NoValue \notin Values
    /\ Nobody \notin Clients
    /\ MaxEntries \in Nat \ {0}
    /\ MaxEdits \in Nat
    /\ MaxAsks \in Nat
    /\ Moves \subseteq AllMoves

Asked == Values \cup {NoValue}
Edits == 0 .. MaxEdits

\* The documents of a load: the edit it saw and the value put into them.
Docs == [edit : Edits, value : Asked]
Base == [edit |-> 0, value |-> NoValue]

\* The rows of a page: of which documents' views, and the data they held.
Rows == [docs : Docs, data : Edits]
NoRows == [docs |-> Nothing, data |-> Nothing]
Bodies == Rows \cup {NoRows}

Names == {Page[r] : r \in Routes}
Keys == Names \X Asked

ASSUME NothingAssumption == Nothing \notin Docs \cup Bodies \cup Keys

VARIABLES
    edits,     \* the edits of manifests and data so far
    loads,     \* the manifests on the disk are valid
    mutex,     \* renderMu
    req,       \* each client's request
    cache,     \* serveRenderCache: the body under each key
    newer,     \* its list: the keys behind each key
    views,     \* the documents whose views the session has
    attached,  \* the documents whose database it is connected to
    mixed,     \* history: some view was not the one a request wanted
    host,      \* the documents the plugins see
    shown,     \* history: what each browser shows, the keys used since
    asks

vars == <<edits, loads, mutex, req, cache, newer, views, attached, mixed,
          host, shown, asks>>
project == <<edits, loads>>
pages == <<cache, newer>>
session == <<views, attached, mixed>>

Idle == [at |-> "idle", route |-> Nothing, value |-> NoValue,
         docs |-> Nothing, body |-> Nothing]
Blank == [key |-> Nothing, body |-> Nothing, options |-> Nothing, since |-> {}]

Init ==
    /\ edits = 0
    /\ loads = TRUE
    /\ mutex = Nobody
    /\ req = [c \in Clients |-> Idle]
    /\ cache = [k \in Keys |-> Nothing]
    /\ newer = [k \in Keys |-> {}]
    /\ views = Base       \* serve renders every route once to collect assets
    /\ attached = Nothing
    /\ mixed = FALSE
    /\ host = Base
    /\ shown = [c \in Clients |-> Blank]
    /\ asks = 0

-----------------------------------------------------------------------------
(* The cache.                                                              *)

Key(route, value) == <<Page[route], value>>
KeyOf(c) == Key(req[c].route, req[c].value)

Cached == {k \in Keys : cache[k] # Nothing}

\* A page is used: its key moves to the back of the list.
ToBack(k, S) ==
    newer' = [j \in Keys |-> CASE j = k -> {}
                               [] j \in S \ {k} -> (newer[j] \cap S) \cup {k}
                               [] OTHER -> {}]

\* What each browser can count on: a page lost to MaxEntries others is lost.
Within(page) == Cardinality(page.since) < MaxEntries
Used(k) ==
    [c \in Clients |->
       IF shown[c].key = Nothing THEN shown[c]
       ELSE IF shown[c].key # k
              THEN [shown[c] EXCEPT !.since = @ \cup {k}]
              ELSE IF Within(shown[c]) THEN [shown[c] EXCEPT !.since = {}]
                                       ELSE shown[c]]

BugGet(k) == shown' = Used(k) /\ UNCHANGED pages

Get(k) == ToBack(k, Cached) /\ shown' = Used(k) /\ UNCHANGED cache

BugEvicted(k) ==
    {j \in Cached \ {k} : /\ Cardinality(Cached) > MaxEntries
                          /\ newer[j] = Cached \ {j}}

\* The front of the list goes when it has grown too long.
Evicted(k) ==
    {j \in Cached \ {k} : /\ Cardinality(Cached \cup {k}) > MaxEntries
                          /\ newer[j] = Cached \ {j}}

Set(k, body) ==
    LET kept == (Cached \cup {k}) \ Evicted(k) IN
    /\ cache' = [j \in Keys |-> CASE j = k -> body
                                  [] j \in kept \ {k} -> cache[j]
                                  [] OTHER -> Nothing]
    /\ ToBack(k, kept)
    /\ shown' = Used(k)

\* The data route finds a body in any page.
Data(body) == \E k \in Cached : cache[k] = body

-----------------------------------------------------------------------------
(* The life of a request.                                                  *)

Ask(c, r, v) ==
    /\ req[c].at = "idle"
    /\ asks < MaxAsks
    /\ v # NoValue => r \in Takes
    /\ req' = [req EXCEPT ![c] = [Idle EXCEPT !.at = "hook", !.route = r, !.value = v]]
    /\ asks' = asks + 1
    /\ UNCHANGED <<project, mutex, pages, session, host, shown>>

\* The browser shows the answer in place of what it showed.
Answer(c, page) ==
    /\ req' = [req EXCEPT ![c] = Idle]
    /\ shown' = [shown EXCEPT ![c] = page]

Unlock == mutex' = Nobody

BugFail(c) ==
    /\ Answer(c, Blank)
    /\ UNCHANGED <<project, mutex, pages, asks>>

\* An error page; the deferred call unlocks.
Fail(c) ==
    /\ Answer(c, Blank)
    /\ Unlock
    /\ UNCHANGED <<project, pages, asks>>

\* The pre-request hook runs before the lock is taken.
HookReturns(c) ==
    /\ req[c].at = "hook"
    /\ req' = [req EXCEPT ![c].at = "wait"]
    /\ UNCHANGED <<project, mutex, pages, session, host, shown, asks>>

HookFails(c) ==
    /\ "fail-hook" \in Moves
    /\ req[c].at = "hook"
    /\ Answer(c, Blank)
    /\ UNCHANGED <<project, mutex, pages, session, host, asks>>

BugFree == TRUE

Free == mutex = Nobody

Lock(c) ==
    /\ req[c].at = "wait"
    /\ Free
    /\ mutex' = c
    /\ req' = [req EXCEPT ![c].at = "locked"]
    /\ UNCHANGED <<project, pages, session, host, shown, asks>>

-----------------------------------------------------------------------------
(* Under the lock.                                                         *)

Is(c, step) == req[c].at = step
Missing(c) == req[c].route \in Takes /\ req[c].value = NoValue
Hits(c) == KeyOf(c) \in Cached

\* Only a request with a parameter reads the manifests again.
Reloads(c) == req[c].value # NoValue
Loaded(c) == IF Reloads(c) THEN [edit |-> edits, value |-> req[c].value] ELSE Base

\* RegisterViews: a database that is attached under its name stays, and so does
\* a view that cannot be replaced.
Registers(d) ==
    /\ \/ /\ views' = d
          /\ UNCHANGED attached
       \/ /\ "database" \in Moves
          /\ attached' = IF attached = Nothing THEN d ELSE attached
          /\ views' = attached'
       \/ /\ "fail-view" \in Moves
          /\ UNCHANGED <<views, attached>>
    /\ mixed' = (mixed \/ views' # d)

\* ResolveDatasetOptions runs the datasets once more.
Options(c, d) ==
    IF req[c].route \in Offers THEN Registers(d) ELSE UNCHANGED session

ShowForm(c) ==
    /\ Is(c, "locked")
    /\ Missing(c)
    /\ Options(c, Base)
    /\ Answer(c, Blank)
    /\ Unlock
    /\ UNCHANGED <<project, pages, host, asks>>

\* A route with layout pages loads before it looks into the cache, the route
\* of an artefact only if the cache does not have the page.
NeedsDocs(c) ==
    /\ Is(c, "locked")
    /\ ~Missing(c)
    /\ req[c].route \in Paged \/ ~Hits(c)

Load(c) ==
    /\ NeedsDocs(c)
    /\ Reloads(c) => loads
    /\ req' = [req EXCEPT ![c].at = "loaded", ![c].docs = Loaded(c)]
    /\ host' = IF Reloads(c) THEN Loaded(c) ELSE host
    /\ UNCHANGED <<project, mutex, pages, session, shown, asks>>

\* Options of an artefact's page that is cached are of a load of their own.
NeedsOptions(c) ==
    /\ Is(c, "page")
    /\ req[c].docs = Nothing
    /\ req[c].route \in Offers

LoadFails(c) ==
    /\ NeedsDocs(c) \/ NeedsOptions(c)
    /\ Reloads(c)
    /\ ~loads
    /\ Fail(c)
    /\ UNCHANGED <<session, host>>

Hit(c) ==
    /\ Is(c, IF req[c].route \in Paged THEN "loaded" ELSE "locked")
    /\ ~Missing(c)
    /\ Hits(c)
    /\ Get(KeyOf(c))
    /\ req' = [req EXCEPT ![c].at = "page", ![c].body = cache[KeyOf(c)]]
    /\ UNCHANGED <<project, mutex, session, host, asks>>

Register(c) ==
    /\ Is(c, "loaded")
    /\ ~Hits(c)
    /\ Registers(req[c].docs)
    /\ req' = [req EXCEPT ![c].at = "registered"]
    /\ UNCHANGED <<project, mutex, pages, host, shown, asks>>

Query(c) ==
    /\ Is(c, "registered")
    /\ req' = [req EXCEPT ![c].at = "queried",
                          ![c].body = [docs |-> views, data |-> edits]]
    /\ UNCHANGED <<project, mutex, pages, session, host, shown, asks>>

\* The viewer leaves while the last source is read: a diagnostic, no error.
QueryCut(c) ==
    /\ "leave" \in Moves
    /\ Is(c, "registered")
    /\ req' = [req EXCEPT ![c].at = "queried", ![c].body = NoRows]
    /\ UNCHANGED <<project, mutex, pages, session, host, shown, asks>>

RenderFails(c) ==
    /\ "fail-render" \in Moves
    /\ \/ Is(c, "loaded") /\ ~Hits(c)
       \/ Is(c, "registered")
       \/ Is(c, "queried")
    /\ Fail(c)
    /\ UNCHANGED <<session, host>>

Store(c) ==
    /\ Is(c, "queried")
    /\ Set(KeyOf(c), req[c].body)
    /\ req' = [req EXCEPT ![c].at = "page"]
    /\ UNCHANGED <<project, mutex, session, host, asks>>

OptionDocs(c) ==
    IF req[c].docs # Nothing THEN req[c].docs
    ELSE IF req[c].route \in Offers THEN Loaded(c) ELSE Base

\* BuildHTML.
Send(c) ==
    /\ Is(c, "page")
    /\ NeedsOptions(c) /\ Reloads(c) => loads
    /\ Options(c, OptionDocs(c))
    /\ Answer(c, [key |-> KeyOf(c), body |-> req[c].body, since |-> {},
                  options |-> IF req[c].route \in Offers THEN views' ELSE Nothing])
    /\ Unlock
    /\ UNCHANGED <<project, pages, host, asks>>

-----------------------------------------------------------------------------
(* Somebody works on the project while it is served.                       *)

Edit ==
    /\ edits < MaxEdits
    /\ edits' = edits + 1
    /\ loads' \in {valid \in BOOLEAN : /\ valid => "edit" \in Moves
                                       /\ ~valid => "break" \in Moves}
    /\ UNCHANGED <<mutex, req, pages, session, host, shown, asks>>

Work(c) ==
    \/ ShowForm(c) \/ Load(c) \/ LoadFails(c) \/ Hit(c) \/ Register(c)
    \/ Query(c) \/ QueryCut(c) \/ RenderFails(c) \/ Store(c) \/ Send(c)
Hook(c) == HookReturns(c) \/ HookFails(c)

Next ==
    \/ \E c \in Clients, r \in Routes, v \in Asked : Ask(c, r, v)
    \/ \E c \in Clients : Hook(c) \/ Lock(c) \/ Work(c)
    \/ Edit

Spec == Init /\ [][Next]_vars

-----------------------------------------------------------------------------
Requests == [at : {"idle", "hook", "wait", "locked", "loaded", "registered",
                   "queried", "page"},
             route : Routes \cup {Nothing}, value : Asked,
             docs : Docs \cup {Nothing}, body : Bodies \cup {Nothing}]
Shown == [key : Keys \cup {Nothing}, body : Bodies \cup {Nothing},
          options : Docs \cup {Nothing}, since : SUBSET Keys]

(* The types; the cache never holds more than its limit, and its list orders *)
(* what it holds (the loop of Set that removes the front).                  *)
TypeOK ==
    /\ edits \in Edits
    /\ loads \in BOOLEAN
    /\ mutex \in Clients \cup {Nobody}
    /\ req \in [Clients -> Requests]
    /\ cache \in [Keys -> Bodies \cup {Nothing}]
    /\ newer \in [Keys -> SUBSET Cached]
    /\ views \in Docs
    /\ attached \in Docs \cup {Nothing}
    /\ mixed \in BOOLEAN
    /\ host \in Docs
    /\ shown \in [Clients -> Shown]
    /\ asks \in 0 .. MaxAsks
    /\ Cardinality(Cached) <= MaxEntries

(* A viewer sees the rows of the parameter it asked with, in the page and in *)
(* the options of the parameter, also when the page comes from the cache,    *)
(* and never those of another viewer (what renderMu is for), as long as all  *)
(* views could be replaced and no database was kept.                         *)
BodyOf(value, body) == body \in Rows => body.docs.value = value
EachOwn ==
    /\ \A k \in Cached : BodyOf(k[2], cache[k])
    /\ \A c \in Clients : shown[c].key # Nothing =>
         /\ BodyOf(shown[c].key[2], shown[c].body)
         /\ shown[c].options # Nothing => shown[c].options.value = shown[c].key[2]
RowsOwn == ~mixed => EachOwn

(* While the datasets of a request with a parameter run, plugins that call   *)
(* back see the documents of that request.                                   *)
HostOwn ==
    \A c \in Clients :
        req[c].at \in {"loaded", "registered", "queried"} /\ Reloads(c)
            => host = req[c].docs

(* Nothing of one request gets into another: neither rows nor documents.     *)
NothingMixed == RowsOwn /\ HostOwn

(* The data of a page that a browser shows can be fetched as long as the     *)
(* page is among the MaxEntries most recently used ones, as the comment on   *)
(* serveRenderEntry and the documentation of --data-mode promise.            *)
DataReachable ==
    \A c \in Clients :
        shown[c].key # Nothing /\ Within(shown[c]) => Data(shown[c].body)

(* Who works on the session holds the mutex, and who has answered does not:  *)
(* no path through the handlers keeps what all others wait for.              *)
Working == {"locked", "loaded", "registered", "queried", "page"}
MutexHeld == \A c \in Clients : req[c].at \in Working <=> mutex = c
=============================================================================
